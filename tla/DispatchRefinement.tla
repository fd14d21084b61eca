------------------------- MODULE DispatchRefinement -------------------------
(***************************************************************************)
(* Dispatch implements FencedQueue.  An item is a run; its stage is read   *)
(* off the run row, its token off the outbox row, and the bearer of a      *)
(* token is the slot whose WorkItem carries it, from claim_next until      *)
(* Dispatcher.process returns, raises or is killed.                        *)
(***************************************************************************)
EXTENDS Dispatch

StageOf(status) ==
    CASE status = "none" -> "absent"
      [] status = "waiting_approval" -> "parked"
      [] status \in {"leased", "recovering"} -> "lent"
      [] status = "running" -> "begun"
      [] status = "finished_ungraded" -> "finished"
      [] status = "cancelled" -> "withdrawn"
      [] OTHER -> status

Queue == INSTANCE FencedQueue WITH
    Items <- Runs, Workers <- Slots, Limit <- MaxAttempts, NoItem <- NoRun,
    stage <- [r \in Runs |-> StageOf(run[r].status)],
    token <- [r \in Runs |-> outbox[r].fence],
    bearer <- [s \in Slots |->
                 [item |-> IF slot[s].pc \in Busy THEN slot[s].run ELSE NoRun,
                  token |-> IF slot[s].pc \in Busy THEN slot[s].fence ELSE 0]]

\* Every transaction of the Control API and of the worker is one step of the
\* fenced queue or none: whatever leases lapse, heartbeats get lost, slots
\* crash or process returns late, only the bearer of the newest fence moves a
\* run, and a run that ended stays as it is.
DispatchIsFencedQueue == Queue!Spec
=============================================================================
