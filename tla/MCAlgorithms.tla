---------------------------- MODULE MCAlgorithms ----------------------------
(* The sequential algorithms for TLC, one job at a time: the ordering of   *)
(* dependencies, the adaptive limiter, or one input of a conversion.       *)
EXTENDS Dependencies, AdaptiveLimiter, Cors, Coercion, Json

-----------------------------------------------------------------------------
(* Dependencies: every list of up to three entries over three names        *)
(* (duplicate names, parameters that name no dependency, self references,  *)
(* **kwargs), and every graph on four names.                               *)

MCNames == 1 .. 4

Entries(names, varkw) ==
    [name : names, factory_params : SUBSET names, factory_varkw : varkw]

MCDeclarations ==
    UNION {[1 .. n -> Entries(1 .. 3, BOOLEAN)] : n \in 0 .. 3}
      \cup {[n \in 1 .. 4 |-> [name |-> n, factory_params |-> params[n],
                               factory_varkw |-> FALSE]] :
               params \in [1 .. 4 -> SUBSET (1 .. 4)]}

-----------------------------------------------------------------------------
(* CORS: wildcards alone, listed, repeated or absent, in a list or not,    *)
(* mixed case.                                                             *)

Spelt(name, upper) == [name |-> name, upper |-> upper]

MCConfigs ==
    [class_name        : {"CORSConfig", "Other"},
     allow_origins     : SeqOf({"*", "a"}, 2),
     origins_list      : BOOLEAN,
     allow_methods     : {<<>>, <<Spelt("get", FALSE)>>, <<Spelt("get", TRUE), Spelt("put", TRUE)>>},
     allow_headers     : SeqOf({Star, Spelt("x", TRUE)}, 2),
     allow_credentials : BOOLEAN,
     expose_headers    : {<<>>, <<Spelt("e", TRUE)>>},
     max_age           : {NONE, 0, -1}]

MCRequests ==
    [origin  : {"", "a", "b"},
     method  : {Spelt("get", FALSE), Spelt("get", TRUE), Spelt("put", TRUE)},
     headers : {<<>>, <<Spelt("x", FALSE)>>, <<Spelt("x", TRUE), Spelt("y", TRUE)>>}]

-----------------------------------------------------------------------------
(* Path segments of up to five pieces, with an i64 of -12 .. 11.           *)

MCSegments == SeqOf({"-", ".", "0", "1", "2"}, 5) \cup {<<"true">>, <<"false">>, <<"other">>}

-----------------------------------------------------------------------------
(* Python objects nested up to four deep, where the native writer takes     *)
(* three.                                                                  *)

Number(n) == [type |-> "int", value |-> n]
Text(text) == [type |-> "str", text |-> text]
Float(text) == [type |-> "float", text |-> text]

MCScalars ==
    {[type |-> "null"], [type |-> "true"], [type |-> "false"], [type |-> "other"],
     Float("1.5"), Float("nan"), Text("a"), Text("surrogate")}
      \cup {Number(n) : n \in {-9, -5, -4, 0, 7, 8, 9}}

Nest(type, members) == [type |-> type, members |-> members]
Dict(pairs) == [type |-> "dict", pairs |-> pairs]

MCNested(inner) ==
    {Nest(type, members) : type \in {"list", "tuple"}, members \in SeqOf(inner, 2)}
      \cup {Dict(<<<<key, v>>>>) : key \in MCScalars, v \in inner}

\* A few objects of each kind are nested further.
MCFlat == {Number(7), [type |-> "true"], Nest("tuple", <<Number(8)>>),
           Dict(<<<<Text("a"), Number(9)>>, <<Text("b"), Float("nan")>>>>),
           Nest("list", <<Nest("tuple", <<[type |-> "false"]>>)>>)}

MCObjects == MCScalars \cup MCFlat \cup MCNested(MCScalars) \cup MCNested(MCFlat)
               \cup MCNested({Nest("list", <<v>>) : v \in MCFlat})

RECURSIVE MCHeight(_)
MCHeight(v) ==
    IF Parts(v) = {} THEN 0 ELSE 1 + Max({MCHeight(part) : part \in Parts(v)})

-----------------------------------------------------------------------------
(* One job at a time.                                                      *)

VARIABLE job

inputs == <<exchange, segment, object>>
mc_vars == <<job, vars, limiter_vars, inputs>>

DependenciesIdle ==
    declared = <<>> /\ in_degree = <<>> /\ queue = <<>> /\ order = <<>> /\ pc = "idle"

LimiterIdle ==
    /\ current_limit = max_limit * Scale /\ max_concurrency = max_limit
    /\ age = <<>> /\ avg_rtt = 0 /\ load = 0 /\ shifts = 0

MCInit ==
    /\ \/ job = "dependencies" /\ Init /\ LimiterIdle
       \/ job = "limiter" /\ LimiterInit /\ DependenciesIdle
       \/ job \in {"cors", "coercion", "json"} /\ DependenciesIdle /\ LimiterIdle
    /\ IF job = "cors" THEN CorsInit ELSE exchange = NONE
    /\ IF job = "coercion" THEN CoercionInit ELSE segment = NONE
    /\ IF job = "json" THEN JsonInit ELSE object = NONE

OrderDependencies ==
    job = "dependencies" /\ Next /\ UNCHANGED <<job, limiter_vars, inputs>>

Limit(step) == job = "limiter" /\ step /\ UNCHANGED <<job, vars, inputs>>

MCNext == OrderDependencies \/ Limit(LimiterNext)

MCSpec == MCInit /\ [][MCNext]_mc_vars /\ WF_mc_vars(Limit(Answer))

=============================================================================
