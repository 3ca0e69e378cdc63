-------------------------------- MODULE Cors --------------------------------
(***************************************************************************)
(* CORS: the configuration compiled by set_cors (src/cors.rs) and used by  *)
(* run_rsgi and merge_config_response_headers (src/dispatch.rs), next to   *)
(* the CORSConfig of oxyroute/cors.py, which takes over when a             *)
(* configuration cannot be compiled.                                       *)
(*                                                                         *)
(* A method or header name is a record whose name is compared when case is *)
(* ignored.  An origin is a string, "" for a missing header.  The headers  *)
(* of a response are a set of pairs of a name and a value.                 *)
(*                                                                         *)
(* The Python layer is apply_cors with a chain, or a middleware of the     *)
(* application that calls preflight_response: without one of them it       *)
(* answers no preflight.  Response middlewares and the preset of security  *)
(* headers, which its answers pass and the native ones do not, are left    *)
(* out, and a configuration does not change after set_cors.                *)
(***************************************************************************)
EXTENDS Integers, Sequences, SequencesExt, Option

CONSTANTS CORSConfigs,      \* the configurations considered
          CorsRequests      \* the requests considered: [origin, method, headers]

VARIABLE exchange           \* [config, request], or NONE

CorsInit == exchange \in [config : CORSConfigs, request : CorsRequests]

Star == [name |-> "*", upper |-> TRUE]

\* A name as it is written: what is left when case is ignored, and the case.
Name == [name : STRING, upper : BOOLEAN]

\* A configuration has the methods of CORSConfig, whatever its class is called: a
\* subclass may keep the name or take another.  allow_origins may be a sequence that is
\* not a list, a tuple say, which is never equal to ["*"] in Python.
CORSConfig ==
    [class_name : STRING, allow_origins : Seq(STRING), origins_list : BOOLEAN,
     allow_methods : Seq(Name), allow_headers : Seq(Name), allow_credentials : BOOLEAN,
     expose_headers : Seq(Name), max_age : Int \cup {NONE}]

\* "*" has no case.
ASSUME ConfigsAssumption ==
    \A c \in CORSConfigs :
        c \in CORSConfig /\ \A h \in ToSet(c.allow_headers) : h.name = "*" => h = Star

ASSUME RequestsAssumption ==
    CorsRequests \subseteq [origin : STRING, method : Name, headers : Seq(Name)]

ASSUME NoneAssumption == NONE \notin STRING /\ NONE \notin Seq(Name)

\* Comparison with case ignored.
Folded(names) == {n.name : n \in names}

\* A header that is sent on a condition.
When(condition, header) == IF condition THEN {header} ELSE {}

\* An answer to a preflight.
Granted(headers) == [status |-> 204, why |-> "granted", headers |-> headers]
Refused(why, headers) == [status |-> 400, why |-> why, headers |-> headers]

-----------------------------------------------------------------------------
(* The native layer: src/cors.rs.                                          *)

\* set_cors, from_py: the class must be named CORSConfig, and max_age be a u64 or None.
Compiles(c) == c.class_name = "CORSConfig" /\ (c.max_age = NONE \/ c.max_age >= 0)

\* Mutant: a wildcard is answered before the credentials are looked at.
SelectWildcardFirst(c, origin) ==
    IF origin = "" THEN NONE
    ELSE IF c.allow_origins = <<"*">> THEN "*"
    ELSE IF Contains(c.allow_origins, origin) THEN origin ELSE NONE

\* select_allow_origin
SelectAllowOrigin(c, origin) ==
    LET wildcard == Contains(c.allow_origins, "*")
        listed == IF Contains(c.allow_origins, origin) THEN origin ELSE NONE
    IN  IF origin = "" THEN NONE
        ELSE IF c.allow_credentials \/ ~wildcard THEN listed
        ELSE IF Len(c.allow_origins) = 1 THEN "*"
        ELSE listed

\* preflight_allow_headers: the names are echoed as they were asked for.
PreflightAllowHeaders(c, asked) ==
    IF c.allow_headers = <<Star>> THEN <<Star>>
    ELSE IF asked = <<>> THEN c.allow_headers
    ELSE IF Folded(ToSet(asked)) \subseteq Folded(ToSet(c.allow_headers) \ {Star})
         THEN asked ELSE NONE

\* handle_preflight: 204 with headers, or 400 for the first check that fails, which
\* run_rsgi sends as a plain text without a CORS header.
HandlePreflight(c, r) ==
    LET selected == SelectAllowOrigin(c, r.origin)
        acah     == PreflightAllowHeaders(c, r.headers)
    IN  IF r.method.name \notin Folded(ToSet(c.allow_methods)) THEN Refused("method", {})
        ELSE IF selected = NONE THEN Refused("origin", {})
        ELSE IF acah = NONE THEN Refused("headers", {})
        ELSE Granted({<<"allow_origin", selected>>, <<"allow_methods", c.allow_methods>>,
                      <<"allow_headers", acah>>}
                     \cup When(c.allow_credentials, <<"allow_credentials", TRUE>>)
                     \cup When(c.max_age # NONE, <<"max_age", c.max_age>>)
                     \cup When(selected # "*", <<"vary", "Origin">>))

\* response_header_pairs
ResponseHeaderPairs(c, r) ==
    LET selected == SelectAllowOrigin(c, r.origin)
    IN  IF selected = NONE THEN {}
        ELSE {<<"allow_origin", selected>>}
             \cup When(c.allow_credentials, <<"allow_credentials", TRUE>>)
             \cup When(c.expose_headers # <<>>, <<"expose_headers", c.expose_headers>>)
             \cup When(selected # "*", <<"vary", "Origin">>)

-----------------------------------------------------------------------------
(* The Python layer: oxyroute/cors.py.                                     *)

\* CORSConfig._select_allow_origin
PySelectAllowOrigin(c, origin) ==
    LET any == ~c.allow_credentials /\ c.origins_list /\ c.allow_origins = <<"*">>
        allowed == ToSet(c.allow_origins) \ {""}
    IN  IF any /\ origin # "" THEN "*"
        ELSE IF origin \in allowed THEN origin ELSE NONE

\* CORSConfig.response_header_pairs
PyResponseHeaderPairs(c, r) ==
    LET selected == PySelectAllowOrigin(c, r.origin)
    IN  IF selected = NONE THEN {}
        ELSE {<<"allow_origin", selected>>}
             \cup When(c.allow_credentials, <<"allow_credentials", TRUE>>)
             \cup When(c.expose_headers # <<>>, <<"expose_headers", c.expose_headers>>)
             \cup When(selected # "*", <<"vary", "Origin">>)

\* CORSConfig.preflight_response.  Its answer is one of a request middleware, so that
\* merge_config_response_headers merges the pairs of a normal response into it, also into
\* a refusal.
PyPreflight(c, r) ==
    LET selected == PySelectAllowOrigin(c, r.origin)
        lower    == Folded({h \in ToSet(c.allow_headers) : h.name # "*"})
        merged   == PyResponseHeaderPairs(c, r)
    IN  IF ~\E m \in ToSet(c.allow_methods) : m.name = r.method.name
        THEN Refused("method", merged)
        ELSE IF selected = NONE THEN Refused("origin", merged)
        ELSE IF c.allow_headers # <<Star>> /\ \E h \in ToSet(r.headers) : h.name \notin lower
             THEN Refused("headers", merged)
        ELSE Granted(merged
                     \cup {<<"allow_methods", c.allow_methods>>,
                           <<"allow_headers", IF c.allow_headers = <<Star>> \/ r.headers = <<>>
                                              THEN c.allow_headers ELSE r.headers>>}
                     \cup When(c.max_age # NONE, <<"max_age", c.max_age>>))

-----------------------------------------------------------------------------
(* Properties.                                                             *)

\* The one configuration the layers read differently: ("*",) without credentials.
WildcardTuple(c) ==
    ~c.allow_credentials /\ ~c.origins_list /\ c.allow_origins = <<"*">>

\* How far compiling a configuration may be noticed: but for WildcardTuple, the native
\* layer grants a preflight exactly when CORSConfig would and refuses it at the same
\* check; the Python layer adds exactly the headers of a normal response to its answer,
\* which to a preflight that is granted add nothing but Expose-Headers, while a native
\* refusal carries no header; and every other response gets the same headers.
CorsAgrees ==
    exchange # NONE /\ Compiles(exchange.config) /\ ~WildcardTuple(exchange.config) =>
        LET c == exchange.config
            r == exchange.request
            native == HandlePreflight(c, r)
            python == PyPreflight(c, r)
        IN  /\ native.status = python.status /\ native.why = python.why
            /\ python.headers = native.headers \cup ResponseHeaderPairs(c, r)
            /\ native.status = 204 =>
                   \A h \in python.headers \ native.headers : h[1] = "expose_headers"
            /\ native.status = 400 => native.headers = {}
            /\ ResponseHeaderPairs(c, r) = PyResponseHeaderPairs(c, r)

=============================================================================
