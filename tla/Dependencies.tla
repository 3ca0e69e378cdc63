---------------------------- MODULE Dependencies ----------------------------
(***************************************************************************)
(* The dependencies of a route: parse_dependencies and the reordering in   *)
(* App::add_route (src/lib.rs), the graph and Kahn's algorithm of          *)
(* src/dependency.rs, and the keyword arguments run_rsgi passes to each    *)
(* factory (src/dispatch.rs).                                              *)
(*                                                                         *)
(* Names are natural numbers, ordered as the code orders the strings.  A   *)
(* declaration is what the signature of a factory gives: its parameter     *)
(* names and whether it takes **kwargs.  A parameter may name another      *)
(* dependency, the factory's own name, or something else.                  *)
(***************************************************************************)
EXTENDS Naturals, Sequences, FiniteSets, SequencesExt

CONSTANTS Names,            \* the names dependencies and parameters may have
          Declarations      \* the dependencies lists considered

\* DependencyEntry: what ordering and calling need of it.
DependencyEntry == [name : Names, factory_params : SUBSET Names, factory_varkw : BOOLEAN]

ASSUME NamesAssumption == Names \subseteq Nat
ASSUME DeclarationsAssumption == Declarations \subseteq Seq(DependencyEntry)

VARIABLES
    declared,   \* the dependencies list passed to add_route
    in_degree,  \* name -> prerequisites not yet ordered
    queue,      \* Kahn's work list, used as a stack
    order,      \* the names ordered so far
    pc          \* "parse", "sort", "accepted", "duplicate" or "cycle"

vars == <<declared, in_degree, queue, order, pc>>

-----------------------------------------------------------------------------
(* The graph.                                                              *)

nodes == {declared[k].name : k \in DOMAIN declared}

\* build_graph_from_entries, add_edge: m is a parameter of the factory of n.
IsPrerequisite(m, n) ==
    /\ m \in nodes
    /\ \E k \in DOMAIN declared : declared[k].name = n /\ m \in declared[k].factory_params

Prerequisites(n) == {m \in nodes : IsPrerequisite(m, n)}
Dependents(m) == {n \in nodes : IsPrerequisite(m, n)}

\* sort_unstable on a list of distinct names.
Sorted(S) == CHOOSE s \in [1 .. Cardinality(S) -> S] :
                \A j, k \in 1 .. Cardinality(S) : j < k => s[j] < s[k]

-----------------------------------------------------------------------------
(* add_route.                                                              *)

Init ==
    /\ declared \in Declarations
    /\ in_degree = <<>>
    /\ queue = <<>>
    /\ order = <<>>
    /\ pc = "parse"

HasDuplicate == \E j, k \in DOMAIN declared : j < k /\ declared[j].name = declared[k].name

\* parse_dependencies: a name may be used once.
RejectDuplicate ==
    /\ pc = "parse" /\ HasDuplicate
    /\ pc' = "duplicate"
    /\ UNCHANGED <<declared, in_degree, queue, order>>

\* Mutant: parameters that name no dependency count as prerequisites.
StartSortAllParams ==
    /\ pc = "parse" /\ ~HasDuplicate
    /\ LET params(n) == UNION {declared[k].factory_params :
                                  k \in {k \in DOMAIN declared : declared[k].name = n}}
       IN /\ in_degree' = [n \in nodes |-> Cardinality(params(n))]
          /\ queue' = Sorted({n \in nodes : params(n) = {}})
    /\ pc' = "sort"
    /\ UNCHANGED <<declared, order>>

\* topological_sort up to its loop: the names without prerequisites, sorted.  An empty
\* list is accepted without sorting, with the same result.
StartSort ==
    /\ pc = "parse" /\ ~HasDuplicate
    /\ in_degree' = [n \in nodes |-> Cardinality(Prerequisites(n))]
    /\ queue' = Sorted({n \in nodes : Prerequisites(n) = {}})
    /\ pc' = "sort"
    /\ UNCHANGED <<declared, order>>

\* Mutant: a dependent is pushed as soon as one prerequisite is ordered.
PopEager ==
    /\ pc = "sort" /\ queue # <<>>
    /\ LET node == Last(queue)
           next_nodes == {n \in Dependents(node) : in_degree[n] > 0}
       IN /\ order' = Append(order, node)
          /\ in_degree' = [n \in nodes |->
                              IF n \in Dependents(node) THEN 0 ELSE in_degree[n]]
          /\ queue' = Front(queue) \o Reverse(Sorted(next_nodes))
    /\ UNCHANGED <<declared, pc>>

\* One turn of the loop: pop a name, order it, push the dependents it was the last
\* prerequisite of, sorted and reversed.
Pop ==
    /\ pc = "sort" /\ queue # <<>>
    /\ LET node == Last(queue)
           degree == [n \in nodes |-> IF n \in Dependents(node) THEN in_degree[n] - 1
                                                                 ELSE in_degree[n]]
           next_nodes == {n \in Dependents(node) : degree[n] = 0}
       IN /\ order' = Append(order, node)
          /\ in_degree' = degree
          /\ queue' = Front(queue) \o Reverse(Sorted(next_nodes))
    /\ UNCHANGED <<declared, pc>>

\* Mutant: an incomplete order is accepted.
AcceptAny ==
    /\ pc = "sort" /\ queue = <<>>
    /\ pc' = "accepted"
    /\ UNCHANGED <<declared, in_degree, queue, order>>

\* The order is complete: the entries are stored in it.
Accept ==
    /\ pc = "sort" /\ queue = <<>>
    /\ Len(order) = Cardinality(nodes)
    /\ pc' = "accepted"
    /\ UNCHANGED <<declared, in_degree, queue, order>>

\* Some name was never popped: "dependency cycle detected".
RejectCycle ==
    /\ pc = "sort" /\ queue = <<>>
    /\ Len(order) # Cardinality(nodes)
    /\ pc' = "cycle"
    /\ UNCHANGED <<declared, in_degree, queue, order>>

Next == RejectDuplicate \/ StartSort \/ Pop \/ Accept \/ RejectCycle

Spec == Init /\ [][Next]_vars

-----------------------------------------------------------------------------
(* Resolution at request time.                                             *)

Entry(n) == declared[CHOOSE k \in DOMAIN declared : declared[k].name = n]

\* run_rsgi: of the outputs so far, the keyword arguments of the k-th factory.
Kwargs(k) ==
    {order[j] : j \in {j \in 1 .. (k - 1) :
        Entry(order[k]).factory_varkw \/ order[j] \in Entry(order[k]).factory_params}}

-----------------------------------------------------------------------------
(* Properties.                                                             *)

\* An accepted route calls every factory exactly once: reordering the entries through a
\* map by name neither loses nor repeats one.
EachOnce ==
    pc = "accepted" =>
        /\ Len(order) = Len(declared)
        /\ {order[k] : k \in DOMAIN order} = nodes

\* Every parameter of a factory that names a dependency of the route is passed to it:
\* no factory is called before one it needs, whatever the order of declaration.
NeedsSupplied ==
    pc = "accepted" => \A k \in DOMAIN order : Prerequisites(order[k]) \subseteq Kwargs(k)

\* A set of names each of which waits for another of the set.
Circular(S) == S # {} /\ \A n \in S : \E m \in S : IsPrerequisite(m, n)

\* The declarations are refused as circular exactly when they are (docs/dependencies.md:
\* "Any circular dependencies are detected and rejected"), and not when a factory merely
\* takes **kwargs.
CycleVerdictExact ==
    /\ pc = "cycle" => \E S \in SUBSET nodes : Circular(S)
    /\ pc = "accepted" => \A S \in SUBSET nodes : ~Circular(S)

=============================================================================
