---------------------------- MODULE MCRunStream ----------------------------
(* One run and its subscriber: subscribers only read, so they do not meet. *)
EXTENDS RunStream

CONSTANT r1
=============================================================================
