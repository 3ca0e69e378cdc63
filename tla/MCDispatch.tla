----------------------------- MODULE MCDispatch -----------------------------
(* Instances of Dispatch for TLC.                                          *)
EXTENDS Dispatch

Entry(is_async, jwt, limited, body, deps, protocol) ==
    [is_async |-> is_async, require_jwt |-> jwt, rate_limited |-> limited,
     body |-> body, dependencies |-> deps, protocol |-> protocol]

\* A trivial route, one with every gate, a form, a streaming handler and a static file.
MCRoutes ==
    {Entry(FALSE, FALSE, FALSE, "unread", 0, FALSE), Entry(TRUE, TRUE, TRUE, "json", 2, FALSE),
     Entry(FALSE, FALSE, TRUE, "form", 1, FALSE), Entry(TRUE, TRUE, FALSE, "raw", 0, TRUE),
     Entry(FALSE, FALSE, FALSE, "unread", 0, TRUE)}
=============================================================================
