--------------------------- MODULE MCOnboarding ---------------------------
(* Instances of Onboarding: one invitation taken up by two providers, and    *)
(* the journals that are checked alone.                                      *)
EXTENDS Onboarding

CONSTANTS i1, k1, k2

MCInviteOf == [k \in Key |-> i1]

MCProviderOf == [k \in Key |-> IF k = k1 THEN "omp" ELSE "codex"]
=============================================================================
