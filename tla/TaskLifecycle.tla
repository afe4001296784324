--------------------------- MODULE TaskLifecycle ---------------------------
(***************************************************************************)
(* What a task executor promises about each Task object, whatever queues   *)
(* and threads it is made of: a Task that was submitted is handled once by *)
(* the executor, or dropped unhandled if an executor is being stopped; it  *)
(* is then given back to the allocator once, directly or after a last      *)
(* visit to the executor that created it (SA_RELEASE_TASK).                *)
(***************************************************************************)
CONSTANT Tasks

VARIABLES
  phase,     \* phase[t] of every Task object
  stopping   \* some executor has been told to finish

vars == <<phase, stopping>>

Phases == {"free", "queued", "running", "returning"}

TypeOK ==
  /\ phase \in [Tasks -> Phases]
  /\ stopping \in BOOLEAN

Init ==
  /\ phase = [t \in Tasks |-> "free"]
  /\ stopping = FALSE

Step(t, from, to) ==
  /\ phase[t] = from
  /\ phase' = [phase EXCEPT ![t] = to]
  /\ UNCHANGED stopping

Submit(t)  == Step(t, "free", "queued")
Run(t)     == Step(t, "queued", "running")
Release(t) == Step(t, "running", "free")
Return(t)  == Step(t, "running", "returning")
Recycle(t) == Step(t, "returning", "free")
Drop(t)    == stopping /\ (Step(t, "queued", "free") \/ Step(t, "returning", "free"))

BeginStop ==
  /\ stopping' = TRUE
  /\ UNCHANGED phase

Next ==
  \/ \E t \in Tasks : \/ Submit(t) \/ Run(t) \/ Release(t)
                      \/ Return(t) \/ Recycle(t) \/ Drop(t)
  \/ BeginStop

Spec == Init /\ [][Next]_vars
=============================================================================
