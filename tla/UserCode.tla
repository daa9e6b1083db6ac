------------------------------ MODULE UserCode ------------------------------
(***************************************************************************)
(* What the user's function has to be like for the promises of a run to      *)
(* hold.  The SDK checks none of it: StepIDCounter numbers the uses of an id   *)
(* in the order the function comes by them, without a look at the other ids, *)
(* and the user's except clauses see what a step raises.                    *)
(***************************************************************************)
EXTENDS Execution, FiniteSets

\* The step at a position of the function.
At(f, p) == f[p[1]].branches[p[2]][p[3]]

\* The order in which a request comes by the steps.
Earlier(t, p) ==
    \/ t[1] < p[1]
    \/ t[1] = p[1] /\ t[2] < p[2]
    \/ t[1] = p[1] /\ t[2] = p[2] /\ t[3] < p[3]

\* The earlier steps that have the id of step p.
Uses(f, p) == {t \in Positions(f) : Earlier(t, p) /\ At(f, t).id = At(f, p).id}

\* What _parse_step_id hashes for step p when it has seen all of them.
Key(f, p) ==
    LET n == Cardinality(Uses(f, p))
    IN  IF n > 0 THEN [At(f, p).id EXCEPT !.path = Append(@, n)] ELSE At(f, p).id

\* The ids tell the steps apart: a group shares an id between the first steps
\* of its callables only, no id is written the way another one is numbered, and
\* no nested step has the name of a step.
TellsApart(f) ==
    /\ \A p, t \in Positions(f) : p # t /\ At(f, p).id = At(f, t).id => p[3] = 1
    /\ \A p, t \in Positions(f) : Key(f, p) = Key(f, t) => p = t
    /\ \A p, t \in Positions(f) : \A i \in At(f, t).inner : At(f, p).id.name # i.id.name

\* An except clause around a step catches its StepError, and nothing else.
CatchesStepErrors(f) ==
    \A p \in Positions(f) :
        At(f, p).caught => At(f, p).outs \intersect {"nonretriable", "retryafter"} = {}

\* Every handler returns what JSON can encode.
Encodes(f) == \A p \in Positions(f) : "unserializable" \notin At(f, p).outs

\* No handler calls a step in a group.
GroupsDoNotNest(f) ==
    \A p \in Positions(f) : f[p[1]].par => At(f, p).inner = {}

\* A handler calls no step but a step.run.
NestsRunsOnly(f) ==
    \A p \in Positions(f) : \A i \in At(f, p).inner : i.op = "STEP_RUN"

\* A handler that may call a step does not return without.
NestsAlways(f) ==
    \A p \in Positions(f) : At(f, p).inner # {} =>
        At(f, p).op = "STEP_RUN" /\ ~At(f, p).caught /\ "data" \notin At(f, p).outs
=============================================================================
