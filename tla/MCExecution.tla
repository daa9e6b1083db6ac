---------------------------- MODULE MCExecution ----------------------------
(***************************************************************************)
(* The user functions the runs of Execution choose from.                    *)
(***************************************************************************)
EXTENDS UserCode

a == Id("a")
b == Id("b")
c == Id("c")
d == Id("d")

MCUserIds == {a, b, c, d}

Run(id, outs) ==
    [id |-> id, op |-> "STEP_RUN", outs |-> outs, caught |-> FALSE, inner |-> {}]
Ok(id) == Run(id, {"data"})
Sleep(id) == [Run(id, {}) EXCEPT !.op = "SLEEP"]
Caught(step) == [step EXCEPT !.caught = TRUE]
Nesting(id, inner) ==
    [Run(id, {"nested"}) EXCEPT !.inner = {[id |-> inner.id, op |-> inner.op]}]

Alone(step) == [par |-> FALSE, branches |-> <<<<step>>>>]
Parallel(branches) == [par |-> TRUE, branches |-> branches]

-----------------------------------------------------------------------------
\* Two steps in sequence, the first one's failure caught.
Sequential == <<Alone(Caught(Run(a, {"data", "error"}))), Alone(Run(b, {"data", "error"}))>>

\* A sleep and a step that may forbid the retry.
SleepThenRun == <<Alone(Sleep(a)), Alone(Run(b, {"data", "nonretriable", "retryafter"}))>>

\* Parallel steps, then a step alone: the case disable_immediate_execution is for.
ParallelThenRun == <<Parallel(<<<<Ok(a)>>, <<Ok(b)>>>>), Alone(Ok(c))>>

\* A branch of two steps beside a sleep.
ParallelBranches ==
    <<Parallel(<<<<Ok(a), Ok(b)>>, <<Sleep(c)>>>>), Alone(Ok(d))>>

\* A step of a group fails.
ParallelFailure ==
    <<Parallel(<<<<Caught(Run(a, {"error"}))>>, <<Run(b, {"data", "error", "nonretriable"})>>>>)>>

\* The same id in sequence, and in a group of single steps.
ReusedInSequence == <<Alone(Ok(a)), Alone(Ok(a)), Alone(Ok(a))>>
ReusedInGroup == <<Parallel(<<<<Ok(a)>>, <<Ok(a)>>>>), Alone(Ok(a))>>

\* A step.run inside a step.run.
NestedRun == <<Alone(Ok(a)), Alone(Nesting(b, Ok(c)))>>

SoundFunctions ==
    {Sequential, SleepThenRun, ParallelThenRun, ParallelBranches, ParallelFailure,
     ReusedInSequence, ReusedInGroup, NestedRun}

\* What the theorems of ExecutionProofs suppose of the user's code.
ASSUME SoundFunctionsAreSound ==
    \A f \in SoundFunctions :
        /\ TellsApart(f) /\ CatchesStepErrors(f) /\ Encodes(f)
        /\ GroupsDoNotNest(f) /\ NestsRunsOnly(f) /\ NestsAlways(f)

-----------------------------------------------------------------------------
\* The function on which the code departs from its documentation: the same id
\* twice in one branch of a group, and in another branch.
ReusedInBranches == {<<Parallel(<<<<Ok(a), Ok(a)>>, <<Ok(a)>>>>)>>}

ASSUME ReusedInBranchesIsNot == \A f \in ReusedInBranches : ~TellsApart(f)
=============================================================================
