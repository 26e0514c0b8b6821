------------------------------ MODULE TaskHandoff ------------------------------
(***************************************************************************)
(* What a job queue with one owner thread promises to the threads that use *)
(* it, with no queue, no lock and no condition variable in it.             *)
(*                                                                         *)
(* A task is offered when it enters the queue and announced when the push  *)
(* that offered it returns (jobs/JobQueue.h, PushTaskAndWakeUp).  Any      *)
(* thread may take a task at any time after that, once, and then runs it.  *)
(* The owner may retire only after the queue was closed, and never leaves  *)
(* an announced task behind.  While it has not retired, an announced task  *)
(* is eventually taken.                                                    *)
(***************************************************************************)
EXTENDS FiniteSets

CONSTANT Tasks

VARIABLES
  stage,    \* stage[t]: how far task t has come
  open,     \* FALSE once the queue was told to stop
  retired   \* TRUE once the owner has left for good

vars == <<stage, open, retired>>

Stages == {"new", "offered", "announced", "running", "done"}

TypeOK ==
  /\ stage \in [Tasks -> Stages]
  /\ open \in BOOLEAN
  /\ retired \in BOOLEAN

Init ==
  /\ stage = [t \in Tasks |-> "new"]
  /\ open = TRUE
  /\ retired = FALSE

At(s) == {t \in Tasks : stage[t] = s}

Move(B, s) == stage' = [t \in Tasks |-> IF t \in B THEN s ELSE stage[t]]

Offer(B) ==
  /\ B \subseteq At("new")
  /\ Move(B, "offered")
  /\ UNCHANGED <<open, retired>>

Announce(B) ==
  /\ B \subseteq At("offered")
  /\ Move(B, "announced")
  /\ UNCHANGED <<open, retired>>

Take(t) ==
  /\ stage[t] \in {"offered", "announced"}
  /\ Move({t}, "running")
  /\ UNCHANGED <<open, retired>>

Finish(t) ==
  /\ stage[t] = "running"
  /\ Move({t}, "done")
  /\ UNCHANGED <<open, retired>>

Close ==
  /\ open' = FALSE
  /\ UNCHANGED <<stage, retired>>

Retire ==
  /\ ~open
  /\ At("announced") = {}
  /\ retired' = TRUE
  /\ UNCHANGED <<stage, open>>

Next ==
  \/ \E B \in SUBSET Tasks : Offer(B) \/ Announce(B)
  \/ \E t \in Tasks : Take(t) \/ Finish(t)
  \/ Close
  \/ Retire

(* An announced task is taken while the owner is there to take it.         *)
TakeAnnounced(t) ==
  /\ ~retired
  /\ stage[t] = "announced"
  /\ Take(t)

Spec == Init /\ [][Next]_vars

FairSpec ==
  /\ Spec
  /\ \A t \in Tasks : WF_vars(TakeAnnounced(t)) /\ WF_vars(Finish(t))
================================================================================
