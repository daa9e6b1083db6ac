---------------------------- MODULE DurableRun ----------------------------
(***************************************************************************)
(* What a durable function run promises, without requests, replay or        *)
(* interrupts: every step of the user's function is decided once and for    *)
(* good, only after the steps before it in the function, and the run        *)
(* completes only when all of them are.                                     *)
(***************************************************************************)
EXTENDS Naturals

VARIABLES
  plan,   \* the steps: [before |-> step -> steps before it,
          \*             tolerated |-> steps whose error the function catches]
  done,   \* decided steps -> "data" or "error"
  run     \* "running", "completed" or "failed"

vars == <<plan, done, run>>

Steps == DOMAIN plan.before

\* The function goes on after step s.
Passed(s) == s \in DOMAIN done /\ (done[s] = "data" \/ s \in plan.tolerated)

Init == done = <<>> /\ run = "running"

Decide(s, out) ==
    /\ run = "running"
    /\ s \in Steps \ DOMAIN done
    /\ \A t \in plan.before[s] : Passed(t)
    /\ done' = [t \in DOMAIN done \union {s} |-> IF t = s THEN out ELSE done[t]]
    /\ UNCHANGED <<plan, run>>

Complete ==
    /\ run = "running"
    /\ \A s \in Steps : Passed(s)
    /\ run' = "completed"
    /\ UNCHANGED <<plan, done>>

Fail ==
    /\ run = "running"
    /\ run' = "failed"
    /\ UNCHANGED <<plan, done>>

Next == Complete \/ Fail \/ \E s \in Steps, out \in {"data", "error"} : Decide(s, out)

Spec == Init /\ [][Next]_vars
=============================================================================
