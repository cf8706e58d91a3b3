----------------------------- MODULE MCTaskStore -----------------------------
(* A small instance of TaskStore: two agents with one credential each.       *)
EXTENDS TaskStore, TLC

CONSTANTS g1, g2, k1, k2

MCSubject == (k1 :> g1) @@ (k2 :> g2)

\* Exchanging the two agents together with their credentials leaves Subject alone.
Swap == (g1 :> g2) @@ (g2 :> g1) @@ (k1 :> k2) @@ (k2 :> k1)

Symmetry == {Swap} \cup Permutations(Attempt) \cup Permutations(Session)

=============================================================================
