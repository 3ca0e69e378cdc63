------------------------------- MODULE Option -------------------------------
(* The value that stands for Option::None, and for an input that is not    *)
(* under consideration.                                                    *)
CONSTANT NONE
=============================================================================
