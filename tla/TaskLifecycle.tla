---------------------------- MODULE TaskLifecycle ----------------------------
(***************************************************************************)
(* What a task pool promises, whatever its goroutines and counters do: a   *)
(* submitted task is either taken or refused, a task taken is started once *)
(* and finished once, and when the pool has stopped nothing is queued, in  *)
(* hand, or taken any more.                                                *)
(***************************************************************************)
CONSTANT Tasks

VARIABLES
  stage,    \* the stage of each task's life
  stopped   \* Shutdown has returned to somebody

vars == <<stage, stopped>>

Stages == {"new", "queued", "running", "done", "refused"}

Init ==
  /\ stage = [t \in Tasks |-> "new"]
  /\ stopped = FALSE

Move(t, from, to) ==
  /\ stage[t] = from
  /\ stage' = [stage EXCEPT ![t] = to]

Take(t)   == ~stopped /\ Move(t, "new", "queued") /\ UNCHANGED stopped
Refuse(t) == Move(t, "new", "refused") /\ UNCHANGED stopped
Start(t)  == Move(t, "queued", "running") /\ UNCHANGED stopped
Finish(t) == Move(t, "running", "done") /\ UNCHANGED stopped

Stop ==
  /\ \A t \in Tasks : stage[t] \notin {"queued", "running"}
  /\ stopped' = TRUE
  /\ UNCHANGED stage

Next ==
  \/ \E t \in Tasks : Take(t) \/ Refuse(t) \/ Start(t) \/ Finish(t)
  \/ Stop

Spec == Init /\ [][Next]_vars

\* A task taken is run to its end.
FairSpec == Spec /\ \A t \in Tasks : WF_vars(Start(t)) /\ WF_vars(Finish(t))
=============================================================================
