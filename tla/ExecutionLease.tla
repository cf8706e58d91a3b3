--------------------------- MODULE ExecutionLease ----------------------------
(***************************************************************************)
(* What the execution fences of the router promise, without saying how:    *)
(* executions are exclusive on a resource.  An execution takes its         *)
(* resource once, holds it while it may still be running (even after       *)
(* crashes and disconnections), and gives it up once, when its end is on   *)
(* record.  The resource is an agent (TaskStore) or a task (Router).       *)
(***************************************************************************)
CONSTANTS Attempt, Resource, None

VARIABLES
    phase,    \* phase[a]: "unused", "held" or "ended"
    holds     \* holds[a]: the resource attempt a took

vars == <<phase, holds>>

Free(x) == ~ \E b \in Attempt : phase[b] = "held" /\ holds[b] = x

Init == /\ phase = [a \in Attempt |-> "unused"]
        /\ holds = [a \in Attempt |-> None]

Take(a, x) ==
    /\ phase[a] = "unused"
    /\ Free(x)
    /\ phase' = [phase EXCEPT ![a] = "held"]
    /\ holds' = [holds EXCEPT ![a] = x]

End(a) ==
    /\ phase[a] = "held"
    /\ phase' = [phase EXCEPT ![a] = "ended"]
    /\ UNCHANGED holds

Next == \E a \in Attempt : End(a) \/ \E x \in Resource : Take(a, x)

Spec == Init /\ [][Next]_vars

\* Two executions that may still run never hold the same resource.
Exclusive == \A a, b \in Attempt :
    phase[a] = "held" /\ phase[b] = "held" /\ holds[a] = holds[b] => a = b

=============================================================================
