-------------------------------- MODULE Json --------------------------------
(***************************************************************************)
(* JSON: the native writer and its fallback to json.dumps (write_py_json,  *)
(* py_to_json_bytes_or_fallback), and the reader of request bodies         *)
(* (json_bytes_to_py), all of src/schema.rs.                               *)
(*                                                                         *)
(* A Python object is a record with a type and a value, text, members or   *)
(* pairs.  JSON text is its parse tree, where lists and tuples are both    *)
(* arrays.  Integer widths and the nesting limit are scaled down.          *)
(***************************************************************************)
EXTENDS Integers, Sequences, SequencesExt, Option

CONSTANTS Objects,          \* the Python objects considered
          Height(_),        \* how deep an object is nested
          MaxI64, MaxU64,   \* i64::MAX, u64::MAX
          MaxI128,          \* i128::MAX
          MaxDepth          \* 128 in the code, and in serde_json

\* Python objects made of parts; "other" stands for every type JSON does not know, and for
\* keys that are tuples.
PyScalar ==
    [type : {"null", "true", "false", "other"}]
      \cup [type : {"int"}, value : Int] \cup [type : {"float", "str"}, text : STRING]
PyObject(parts) ==
    PyScalar \cup [type : {"list", "tuple"}, members : Seq(parts)]
      \cup [type : {"dict"}, pairs : Seq(PyScalar \X parts)]

Parts(v) ==
    IF v.type \in {"list", "tuple"} THEN {v.members[k] : k \in DOMAIN v.members}
    ELSE IF v.type = "dict" THEN {v.pairs[k][2] : k \in DOMAIN v.pairs}
    ELSE {}

ASSUME ObjectsAssumption == Objects \subseteq PyObject(Objects)
\* No object contains itself.
ASSUME HeightAssumption ==
    \A v \in Objects : Height(v) \in Nat /\ \A part \in Parts(v) : Height(part) < Height(v)

VARIABLE object             \* what a handler returned, or NONE

JsonInit == object \in Objects

\* An exception, as a result.
ERROR == [type |-> "error"]

\* bool is a subclass of int in Python.
IsInt(v) == v.type \in {"int", "true", "false"}
IntValue(v) ==
    CASE v.type = "true" -> 1 [] v.type = "false" -> 0 [] OTHER -> v.value

\* An array or list, an object or dict, unless one of its parts failed.
Sequence(type, members) ==
    IF \E k \in DOMAIN members : members[k] = ERROR THEN ERROR
    ELSE [type |-> type, members |-> members]
Mapping(type, pairs) ==
    IF \E k \in DOMAIN pairs : pairs[k][1] = ERROR \/ pairs[k][2] = ERROR THEN ERROR
    ELSE [type |-> type, pairs |-> pairs]

\* JSON numbers without and with a fraction, and JSON strings.
Integer(value) == [type |-> "integer", value |-> value]
Fractional(text) == [type |-> "number", text |-> text]
String(text) == [type |-> "string", text |-> text]

\* What only json.dumps writes and serde_json does not read back.
NotFinite == {"nan", "inf"}

-----------------------------------------------------------------------------
(* The native writer.                                                      *)

\* Mutant: integers are recognised before booleans.
ScalarIntFirst(v) ==
    IF IsInt(v) THEN Integer(IntValue(v))
    ELSE IF v.type = "float" /\ v.text \in NotFinite THEN ERROR
    ELSE IF v.type = "float" THEN Fractional(v.text)
    ELSE IF v.type = "str" THEN String(v.text)
    ELSE IF v.type = "null" THEN v
    ELSE ERROR

\* write_py_json of a scalar: booleans are recognised before integers; integers up to
\* i128, finite floats, and text without a lone surrogate.
Scalar(v) ==
    IF v.type \in {"null", "true", "false"} THEN v
    ELSE IF IsInt(v) /\ IntValue(v) \in -(MaxI128 + 1) .. MaxI128 THEN Integer(IntValue(v))
    ELSE IF v.type = "float" /\ v.text \notin NotFinite THEN Fractional(v.text)
    ELSE IF v.type = "str" /\ v.text # "surrogate" THEN String(v.text)
    ELSE ERROR

\* A key must be text.
Key(key) == IF key.type = "str" THEN Scalar(key) ELSE ERROR

\* write_py_json of an object, depth levels deep.
WritePyJson[p \in Objects \X Nat] ==
    LET v == p[1]
        Inner(member) == WritePyJson[<<member, p[2] + 1>>]
    IN  IF p[2] > MaxDepth THEN ERROR
        ELSE IF v.type = "dict"
        THEN Mapping("object", [k \in DOMAIN v.pairs |->
                                   <<Key(v.pairs[k][1]), Inner(v.pairs[k][2])>>])
        ELSE IF v.type \in {"list", "tuple"}
        THEN Sequence("array", [k \in DOMAIN v.members |-> Inner(v.members[k])])
        ELSE Scalar(v)

-----------------------------------------------------------------------------
(* json.dumps, the fallback.                                               *)

DumpsScalar(v) ==
    CASE v.type \in {"null", "true", "false"} -> v
      [] v.type = "int"                       -> Integer(v.value)
      [] v.type = "float"                     -> Fractional(v.text)
      [] v.type = "str"                       -> String(v.text)
      [] OTHER                                -> ERROR

\* Keys of the other scalar types are written as text.
DumpsKey(key) ==
    IF key.type = "str" \/ DumpsScalar(key) = ERROR THEN DumpsScalar(key)
    ELSE [type |-> "string", scalar |-> DumpsScalar(key)]

Dumps[v \in Objects] ==
    IF v.type = "dict"
    THEN Mapping("object", [k \in DOMAIN v.pairs |->
                               <<DumpsKey(v.pairs[k][1]), Dumps[v.pairs[k][2]]>>])
    ELSE IF v.type \in {"list", "tuple"}
    THEN Sequence("array", [k \in DOMAIN v.members |-> Dumps[v.members[k]]])
    ELSE DumpsScalar(v)

\* py_to_json_bytes_or_fallback
PyToJsonBytesOrFallback(v) ==
    LET native == WritePyJson[<<v, 0>>] IN IF native # ERROR THEN native ELSE Dumps[v]

-----------------------------------------------------------------------------
(* The reader.                                                             *)

\* serde_json hands out what an i64 or a u64 holds as it is and any other integer as an
\* f64; it takes neither NaN nor a lone surrogate.
ReadScalar(j) ==
    IF j.type = "string" /\ j.text # "surrogate" THEN [type |-> "str", text |-> j.text]
    ELSE IF j.type = "integer"
    THEN [type |-> IF j.value \in -(MaxI64 + 1) .. MaxU64 THEN "int" ELSE "float",
          value |-> j.value]
    ELSE IF j.type = "number" /\ j.text \notin NotFinite THEN [type |-> "float", text |-> j.text]
    ELSE IF j.type \in {"null", "true", "false"} THEN j
    ELSE ERROR

\* The bodies considered: what can be written, and its parts.
Texts == {Dumps[v] : v \in Objects}

\* json_bytes_to_py of a text with depth arrays and objects around it.
JsonBytesToPy[p \in Texts \X Nat] ==
    LET j == p[1]
        Inner(part) == JsonBytesToPy[<<part, p[2] + 1>>]
    IN  IF j.type \in {"array", "object"} /\ p[2] + 1 >= MaxDepth THEN ERROR
        ELSE IF j.type = "array"
        THEN Sequence("list", [k \in DOMAIN j.members |-> Inner(j.members[k])])
        ELSE IF j.type = "object"
        THEN Mapping("dict", [k \in DOMAIN j.pairs |->
                                 <<ReadScalar(j.pairs[k][1]), Inner(j.pairs[k][2])>>])
        ELSE ReadScalar(j)

-----------------------------------------------------------------------------
(* Properties.                                                             *)

\* Integers that an i64 or a u64 holds, finite floats, whole characters.
Carries(v) ==
    \/ v.type \in {"null", "true", "false"}
    \/ v.type = "int" /\ v.value \in -(MaxI64 + 1) .. MaxU64
    \/ v.type = "float" /\ v.text \notin NotFinite
    \/ v.type = "str" /\ v.text # "surrogate"

\* The object as it should come back, with tuples as lists, or ERROR if JSON cannot carry
\* it: a part it cannot carry, a key that is not text, or MaxDepth levels around a part.
Carried[p \in Objects \X Nat] ==
    LET v == p[1]
        Inner(part) == Carried[<<part, p[2] + 1>>]
        key(k) == v.pairs[k][1]
    IN  IF v.type \in {"list", "tuple", "dict"} /\ p[2] + 1 >= MaxDepth THEN ERROR
        ELSE IF v.type \in {"list", "tuple"}
        THEN Sequence("list", [k \in DOMAIN v.members |-> Inner(v.members[k])])
        ELSE IF v.type = "dict"
        THEN Mapping("dict", [k \in DOMAIN v.pairs |->
                 <<IF key(k).type = "str" /\ Carries(key(k)) THEN key(k) ELSE ERROR,
                   Inner(v.pairs[k][2])>>])
        ELSE IF Carries(v) THEN v ELSE ERROR

\* The native writer is an optimisation: whichever of the two writes the response, it means
\* what json.dumps would have written, or fails when that fails (True is never 1, a deep or
\* wide object is not cut off).  And what was written is read back as the same object, if it
\* is one that JSON can carry.
JsonMeaningKept ==
    object # NONE =>
        LET written == PyToJsonBytesOrFallback(object)
            carried == Carried[<<object, 0>>]
        IN  /\ written = Dumps[object]
            /\ carried # ERROR => JsonBytesToPy[<<written, 0>>] = carried

=============================================================================
