----------------------------- MODULE MCRegistry -----------------------------
(* Instances of Registry for TLC.                                          *)
EXTENDS Registry, TLC

\* /a, /:x and /:y: a static template, and two parameters that cannot share a router.
MCTemplates == {<<Static("a")>>, <<Param("x")>>, <<Param("y")>>}

\* Without the pair that cannot share the all_paths router.
MCAgreeingTemplates == {<<Static("a")>>, <<Param("x")>>}

\* /a fits two templates, /b only a parameter.
MCPaths == {<<"a">>, <<"b">>}

MCOnePath == {<<"a">>}

\* Registering threads are interchangeable.
Symmetry == Permutations(Registrars)
=============================================================================
