-------------------------- MODULE MCConfiguration --------------------------
(* Instance of Configuration for TLC.                                      *)
EXTENDS Configuration
=============================================================================
