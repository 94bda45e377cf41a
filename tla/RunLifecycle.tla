----------------------------- MODULE RunLifecycle -----------------------------
(***************************************************************************)
(* What a run promises to whoever reads run.json and REPORT.md: it runs,   *)
(* it commits to one reason for ending, a report is written for that       *)
(* reason, and only then is it finished.  A forced resume re-opens it, and *)
(* leaves the old report on disk.                                          *)
(***************************************************************************)
CONSTANTS
  FinishReasons,  \* state.FinishReason
  NoReason        \* finish_reason is None, or no report was written yet

VARIABLES
  phase,   \* "running", "finishing" or "finished"
  reason,  \* the reason the run committed to, or NoReason
  report   \* the reason REPORT.md was written for, or NoReason

lifecycleVars == <<phase, reason, report>>

LifecycleInit ==
  /\ phase = "running"
  /\ reason = NoReason
  /\ report = NoReason

Commit(r) ==
  /\ phase = "running"
  /\ phase' = "finishing"
  /\ reason' = r
  /\ UNCHANGED report

WriteReport ==
  /\ phase = "finishing"
  /\ report' = reason
  /\ UNCHANGED <<phase, reason>>

Seal ==
  /\ phase = "finishing"
  /\ report = reason
  /\ phase' = "finished"
  /\ UNCHANGED <<reason, report>>

Reopen ==
  /\ phase # "running"
  /\ phase' = "running"
  /\ reason' = NoReason
  /\ UNCHANGED report

LifecycleNext ==
  \/ \E r \in FinishReasons : Commit(r)
  \/ WriteReport
  \/ Seal
  \/ Reopen

LifecycleSpec == LifecycleInit /\ [][LifecycleNext]_lifecycleVars

(* A run that is not re-opened for ever ends up finished for good.         *)
LifecycleFairness ==
  /\ WF_lifecycleVars(\E r \in FinishReasons : Commit(r))
  /\ WF_lifecycleVars(WriteReport)
  /\ WF_lifecycleVars(Seal)

FairLifecycle == LifecycleSpec /\ LifecycleFairness
=============================================================================
