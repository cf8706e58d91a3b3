----------------------------- MODULE MCExternal -----------------------------
(* Two targets that may be written to, and one of them with writing disabled. *)
EXTENDS ExternalOperation

CONSTANTS n1, n2

MCConfig == {[ns |-> n1, write |-> TRUE], [ns |-> n2, write |-> TRUE], [ns |-> n1, write |-> FALSE]}
=============================================================================
