------------------------------ MODULE Matchit ------------------------------
(***************************************************************************)
(* The part of the matchit 0.7 radix router that OxyRoute relies on,       *)
(* modelled from how src/state.rs and src/lib.rs use it (external crate).  *)
(*                                                                         *)
(* A template is a sequence of segments.  A segment is static ("/users")   *)
(* or a parameter (":id"); a catch-all ("*rest") conflicts and yields to   *)
(* static segments like a parameter and is not told apart.  A path is a    *)
(* sequence of names.  A router is a function from the templates inserted  *)
(* so far to the value stored with each.                                   *)
(***************************************************************************)
EXTENDS Naturals, Sequences

Static(n) == [kind |-> "static", name |-> n]
Param(n)  == [kind |-> "param", name |-> n]

\* The position is the first at which the two templates differ.
FirstDiff(t, u, i) ==
    /\ i \in (DOMAIN t \cap DOMAIN u)
    /\ t[i] # u[i]
    /\ \A j \in 1 .. (i - 1) : t[j] = u[j]

\* Router::insert fails on a template that is already there, and on one that
\* names a parameter differently where the tree already has a parameter.
Conflicts(t, u) ==
    \/ t = u
    \/ \E i \in DOMAIN t : /\ FirstDiff(t, u, i)
                           /\ t[i].kind = "param"
                           /\ u[i].kind = "param"

CanInsert(router, t) == \A u \in DOMAIN router : ~Conflicts(t, u)

Insert(router, t, value) ==
    [u \in (DOMAIN router \cup {t}) |-> IF u = t THEN value ELSE router[u]]

Fits(t, path) ==
    /\ Len(t) = Len(path)
    /\ \A i \in DOMAIN t : t[i].kind = "static" => t[i].name = path[i]

\* Among the templates that fit, static segments win, leftmost first.
Preferred(t, u) == \E i \in DOMAIN t : FirstDiff(t, u, i) /\ t[i].kind = "static"

\* The template Router::at selects for path: at most one, none if no route fits.
Selected(router, path) ==
    {t \in DOMAIN router :
        /\ Fits(t, path)
        /\ \A u \in DOMAIN router \ {t} : Fits(u, path) => Preferred(t, u)}

HasMatch(router, path) == Selected(router, path) # {}
=============================================================================
