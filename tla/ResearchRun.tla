----------------------------- MODULE ResearchRun -----------------------------
(***************************************************************************)
(* One run of the engine, from the creation of runs/<id>/ to the report:   *)
(* the driver loop of driver.py (_drive, _finish, _advance_to_depth) over  *)
(* the files of runspace.py, with the worker, evaluator, final gate and    *)
(* initializer sessions it calls.                                          *)
(*                                                                         *)
(* The variables of the first group are files: they survive the process.   *)
(* Each of them is rewritten atomically (_atomic_write), so a step of this *)
(* module makes at most one group of writes between which nothing can be   *)
(* lost, and the process may stop between any two steps: killed, or ended  *)
(* by an error that a session raised.  Only one driver works on the run.   *)
(***************************************************************************)
EXTENDS QuestionQueue, Functions

CONSTANTS
  MaxCycles,             \* settings.max_cycles
  StallCycles,           \* settings.stall_cycles
  MaxReadOutageCycles,   \* settings.max_read_outage_cycles
  MaxFinalEvaluations,   \* settings.max_final_evaluations
  FinalGate,             \* is the final_evaluator role configured?
  WavesEnabled,          \* settings.waves.enabled
  DepthFindings,         \* settings.waves.depth_findings
  Limits,                \* which of "budget" and "time" may be used up
  MaxSeeds,              \* bound: questions an initializer plans
  MaxNew,                \* bound: questions a session adds
  MaxStops,              \* bound: times the driver process stops early
  MaxReopens             \* bound: forced resumes

ASSUME RunAssumption ==
  /\ {MaxCycles, StallCycles, MaxReadOutageCycles, MaxSeeds} \subseteq Nat \ {0}
  /\ {MaxFinalEvaluations, DepthFindings, MaxNew, MaxStops, MaxReopens}
       \subseteq Nat
  /\ {FinalGate, WavesEnabled} \subseteq BOOLEAN
  /\ Limits \subseteq {"budget", "time"}

NoReason == "none"
FinishReasons == {"conclusive", "budget", "time", "max_cycles", "stall",
                  "exhausted", "read_outage"}

VARIABLES
  (* files of the run *)
  meta,        \* run.json
  planned,     \* does PLAN.md exist?
  questions,   \* open_questions.yaml
  findings,    \* questions with a file in findings/
  verdicts,    \* files of verdicts/
  report,      \* the reason REPORT.md was written for, or NoReason
  exceeded,    \* limits that the ledger and the clock have reached
  (* the driver process *)
  pc,          \* where the driver is; "down" when no process runs
  cycle,       \* the local variable of _drive
  before,      \* state_hash at the top of the cycle
  targets,     \* questions the worker session still has in hand
  reads,       \* what the session's reads say of an outage
  answering,   \* question whose finding is written, its answer not, or 0
  outcome,     \* verdict of an evaluator session, not yet written
  why,         \* the reason a finish was asked for
  (* bookkeeping of the model, read by no action *)
  gates,       \* final gate sessions that ran
  stops,       \* times the process stopped early
  reopens      \* forced resumes

files == <<meta, planned, questions, findings, verdicts, report, exceeded>>
process == <<pc, cycle, before, targets, reads, answering, outcome, why>>
counts == <<gates, stops, reopens>>
vars == <<files, process, counts>>

-----------------------------------------------------------------------------
(* Files.                                                                  *)

Meta == [status: {"running", "finished"},
         finish_reason: FinishReasons \cup {NoReason},
         last_cycle: Nat, stall_count: Nat, final_eval_count: Nat,
         read_outage_streak: Nat, wave: {"breadth", "depth"}]

Verdict == [cycle: Nat, final: BOOLEAN, passed: BOOLEAN]

(* The order of Runspace.latest_verdict: by cycle, and within a cycle the  *)
(* final gate's verdict after the per-cycle evaluator's.                   *)
Supersedes(v, w) ==
  v.cycle > w.cycle \/ (v.cycle = w.cycle /\ (v.final \/ ~w.final))

LatestPassed ==
  \E v \in verdicts : v.passed /\ \A w \in verdicts : Supersedes(v, w)

(* write_verdict: one file for each cycle and tier.                        *)
WriteVerdict(c, final, passed) ==
  verdicts' = {v \in verdicts : <<v.cycle, v.final>> # <<c, final>>}
              \cup {[cycle |-> c, final |-> final, passed |-> passed]}

(* state_hash reads the questions file and findings/, nothing else.        *)
StateHash == <<questions, findings>>

CompleteCycle(stalled) ==
  [meta EXCEPT !.last_cycle = cycle,
               !.stall_count = IF stalled THEN @ + 1 ELSE 0]

(* driver._tripped_breaker, in its order.                                  *)
TrippedBreaker(c) ==
  IF "budget" \in exceeded THEN "budget"
  ELSE IF "time" \in exceeded THEN "time"
  ELSE IF c > MaxCycles THEN "max_cycles"
  ELSE NoReason

(* A session costs money and time: it may use up a limit.                  *)
SpendSession ==
  exceeded' \in {e \in SUBSET Limits : exceeded \subseteq e}

(* Entering _finish with a reason.                                         *)
FinishWith(r) == pc' = "finish" /\ why' = r

(* The next round of the while loop.                                       *)
NextCycle == pc' = "top" /\ cycle' = cycle + 1

Init ==
  /\ meta = [status |-> "running", finish_reason |-> NoReason, last_cycle |-> 0,
             stall_count |-> 0, final_eval_count |-> 0,
             read_outage_streak |-> 0, wave |-> "breadth"]
  /\ planned = FALSE /\ questions = <<>> /\ findings = {} /\ verdicts = {}
  /\ report = NoReason /\ exceeded = {}
  /\ pc = "drive"
  /\ cycle = 0 /\ before = <<>> /\ targets = {} /\ reads = "neutral"
  /\ answering = 0 /\ outcome = FALSE /\ why = NoReason
  /\ gates = 0 /\ stops = 0 /\ reopens = 0

-----------------------------------------------------------------------------
(* The process.                                                            *)

Idle ==
  /\ pc' = "down"
  /\ cycle' = 0 /\ before' = <<>> /\ targets' = {} /\ reads' = "neutral"
  /\ answering' = 0 /\ outcome' = FALSE /\ why' = NoReason

(* The process is killed, or a session raises and main returns 1: either   *)
(* way the files stay as they are.                                         *)
Stop ==
  /\ pc # "down"
  /\ stops < MaxStops
  /\ stops' = stops + 1
  /\ Idle
  /\ UNCHANGED <<files, gates, reopens>>

(* Mutant: a run caught in the middle of its finish is refused as well.    *)
ResumeUnlessEnding ==
  /\ pc = "down"
  /\ meta.status # "finished" /\ meta.finish_reason = NoReason
  /\ pc' = "drive"
  /\ exceeded' \in SUBSET exceeded
  /\ UNCHANGED <<meta, planned, questions, findings, verdicts, report, cycle,
                 before, targets, reads, answering, outcome, why, counts>>

(* --resume: refused for a finished run.  The new process may be given     *)
(* larger limits, and the clock loses what was not checkpointed.           *)
Resume ==
  /\ pc = "down"
  /\ meta.status # "finished"
  /\ pc' = "drive"
  /\ exceeded' \in SUBSET exceeded
  /\ UNCHANGED <<meta, planned, questions, findings, verdicts, report, cycle,
                 before, targets, reads, answering, outcome, why, counts>>

(* --resume --force-resume, of a run that is finished or was finishing: it *)
(* clears the status and the reason, and nothing else of run.json.         *)
ForceResume ==
  /\ pc = "down"
  /\ reopens < MaxReopens
  /\ meta.status = "finished" \/ meta.finish_reason # NoReason
  /\ reopens' = reopens + 1
  /\ meta' = [meta EXCEPT !.status = "running", !.finish_reason = NoReason]
  /\ pc' = "drive"
  /\ exceeded' \in SUBSET exceeded
  /\ UNCHANGED <<planned, questions, findings, verdicts, report, cycle, before,
                 targets, reads, answering, outcome, why, gates, stops>>

(* Mutant: an interrupted finish is resumed past its report.               *)
DriveToSeal ==
  /\ pc = "drive"
  /\ IF meta.finish_reason # NoReason
       THEN pc' = "seal" /\ UNCHANGED <<cycle, why>>
     ELSE IF planned
       THEN pc' = "top" /\ cycle' = meta.last_cycle + 1 /\ UNCHANGED why
     ELSE pc' = "plan" /\ UNCHANGED <<cycle, why>>
  /\ UNCHANGED <<files, before, targets, reads, answering, outcome, counts>>

(* Mutant: the recorded reason is ignored, the loop is entered again.      *)
DriveOn ==
  /\ pc = "drive"
  /\ IF planned
       THEN pc' = "top" /\ cycle' = meta.last_cycle + 1 /\ UNCHANGED why
       ELSE pc' = "plan" /\ UNCHANGED <<cycle, why>>
  /\ UNCHANGED <<files, before, targets, reads, answering, outcome, counts>>

(* _drive up to its loop: an interrupted finish is taken up again, a run   *)
(* without a plan is planned first.                                        *)
Drive ==
  /\ pc = "drive"
  /\ IF meta.finish_reason # NoReason
       THEN FinishWith(meta.finish_reason) /\ UNCHANGED cycle
     ELSE IF planned
       THEN pc' = "top" /\ cycle' = meta.last_cycle + 1 /\ UNCHANGED why
     ELSE IF TrippedBreaker(1) # NoReason
       THEN FinishWith(TrippedBreaker(1)) /\ UNCHANGED cycle
     ELSE pc' = "plan" /\ UNCHANGED <<cycle, why>>
  /\ UNCHANGED <<files, before, targets, reads, answering, outcome, counts>>

(* initializer.run: the questions are saved first, PLAN.md last.           *)
PlanQuestions ==
  /\ pc = "plan"
  /\ \E n \in 1..MaxSeeds : questions' = FreshOnes("initializer", n)
  /\ SpendSession
  /\ pc' = "plan_md"
  /\ UNCHANGED <<meta, planned, findings, verdicts, report, cycle, before,
                 targets, reads, answering, outcome, why, counts>>

WritePlan ==
  /\ pc = "plan_md"
  /\ planned' = TRUE
  /\ pc' = "top" /\ cycle' = meta.last_cycle + 1
  /\ UNCHANGED <<meta, questions, findings, verdicts, report, exceeded, before,
                 targets, reads, answering, outcome, why, counts>>

(* The top of the loop: breaker, hash, and the worker unless nothing is    *)
(* left for it.                                                            *)
Top ==
  /\ pc = "top"
  /\ IF TrippedBreaker(cycle) # NoReason
       THEN FinishWith(TrippedBreaker(cycle)) /\ UNCHANGED before
       ELSE /\ before' = StateHash
            /\ pc' = IF NoOpenQuestions(questions) THEN "worked" ELSE "pick"
            /\ UNCHANGED why
  /\ UNCHANGED <<files, cycle, targets, reads, answering, outcome, counts>>

-----------------------------------------------------------------------------
(* The worker session: worker.run and the pipeline it drives.              *)

(* The targets are saved as in_progress before anything is fetched.        *)
Pick ==
  /\ pc = "pick"
  /\ \E T \in Picks(questions) :
       /\ targets' = T
       /\ questions' = Claim(questions, T)
  /\ reads' = "neutral"
  /\ pc' = "work"
  /\ UNCHANGED <<meta, planned, findings, verdicts, report, exceeded, cycle,
                 before, answering, outcome, why, counts>>

(* all(observations) over the questions that selected any page to read     *)
Observed(seen) ==
  CASE seen = "neutral" -> reads
    [] seen = "read"    -> "read"
    [] seen = "outage"  -> IF reads = "read" THEN "read" ELSE "outage"

(* Mutant: the question is saved as answered before the finding exists.    *)
AnswerFirst(t) ==
  /\ pc = "work" /\ answering = 0 /\ t \in targets
  /\ questions' = Answer(questions, t)
  /\ answering' = t
  /\ reads' = Observed("read")
  /\ UNCHANGED <<meta, planned, findings, verdicts, report, exceeded, pc, cycle,
                 before, targets, outcome, why, counts>>

(* A pipeline comes back resolved: sources were merged and the finding is  *)
(* written before the question is touched.                                 *)
WriteFinding(t) ==
  /\ pc = "work" /\ answering = 0 /\ t \in targets
  /\ findings' = findings \cup {t}
  /\ answering' = t
  /\ reads' = Observed("read")
  /\ UNCHANGED <<meta, planned, questions, verdicts, report, exceeded, pc, cycle,
                 before, targets, outcome, why, counts>>

SaveAnswer(t) ==
  /\ pc = "work" /\ answering = t /\ t \in targets
  /\ questions' = Answer(questions, t)
  /\ answering' = 0
  /\ targets' = targets \ {t}
  /\ UNCHANGED <<meta, planned, findings, verdicts, report, exceeded, pc, cycle,
                 before, reads, outcome, why, counts>>

(* A pipeline comes back fragmented; past a cap the parent becomes a leaf. *)
Fragment(t) ==
  /\ pc = "work" /\ answering = 0 /\ t \in targets
  /\ \E n \in 0..MaxNew :
       /\ n = 0 \/ HasRoom(questions, n)
       /\ questions' = Decompose(questions, t, n)
  /\ targets' = targets \ {t}
  /\ reads' = Observed("read")
  /\ UNCHANGED <<meta, planned, findings, verdicts, report, exceeded, pc, cycle,
                 before, answering, outcome, why, counts>>

(* Mutant: the list is saved as it was loaded at the top of the cycle.     *)
GiveUpOnStaleList(t) ==
  /\ pc = "work" /\ answering = 0 /\ t \in targets
  /\ questions' = Block(before[1], t, FALSE)
  /\ targets' = targets \ {t}
  /\ UNCHANGED <<meta, planned, findings, verdicts, report, exceeded, pc, cycle,
                 before, reads, answering, outcome, why, counts>>

(* A pipeline comes back blocked.  A hard block has read pages, so it      *)
(* speaks against an outage; a soft one may have selected nothing.         *)
GiveUp(t) ==
  /\ pc = "work" /\ answering = 0 /\ t \in targets
  /\ \/ /\ questions' = Block(questions, t, TRUE)
        /\ reads' = Observed("read")
     \/ /\ questions' = Block(questions, t, FALSE)
        /\ \E seen \in {"neutral", "read", "outage"} : reads' = Observed(seen)
  /\ targets' = targets \ {t}
  /\ UNCHANGED <<meta, planned, findings, verdicts, report, exceeded, pc, cycle,
                 before, answering, outcome, why, counts>>

(* A pipeline of a parallel batch raises: its question stays in_progress   *)
(* for the orphan picker.  A lone pipeline's error ends the process: Stop. *)
Fail(t) ==
  /\ pc = "work" /\ answering = 0 /\ t \in targets
  /\ ParallelQuestions > 1
  /\ targets' = targets \ {t}
  /\ UNCHANGED <<files, pc, cycle, before, reads, answering, outcome, why, counts>>

(* The session ends: the outage is noted once for the cycle.               *)
EndWork ==
  /\ pc = "work" /\ targets = {}
  /\ meta' = CASE reads = "neutral" -> meta
               [] reads = "read"    -> [meta EXCEPT !.read_outage_streak = 0]
               [] reads = "outage"  -> [meta EXCEPT !.read_outage_streak = @ + 1]
  /\ SpendSession
  /\ reads' = "neutral"
  /\ pc' = "worked"
  /\ UNCHANGED <<planned, questions, findings, verdicts, report, cycle, before,
                 targets, answering, outcome, why, counts>>

(* After the worker: breaker, then the read-outage guard, which ends the   *)
(* cycle it trips in.                                                      *)
AfterWork ==
  /\ pc = "worked"
  /\ IF TrippedBreaker(cycle) # NoReason
       THEN FinishWith(TrippedBreaker(cycle)) /\ UNCHANGED meta
     ELSE IF meta.read_outage_streak >= MaxReadOutageCycles
       THEN FinishWith("read_outage") /\ meta' = CompleteCycle(FALSE)
     ELSE pc' = "evaluate" /\ UNCHANGED <<meta, why>>
  /\ UNCHANGED <<planned, questions, findings, verdicts, report, exceeded, cycle,
                 before, targets, reads, answering, outcome, counts>>

-----------------------------------------------------------------------------
(* The evaluator sessions: evaluator._run_tier, for either tier.           *)

(* What _apply_output leaves: questions are saved, the verdict is decided. *)
(* A pass is overridden while any question is unresolved (invariant 2).    *)
ApplyJudgment ==
  /\ \E closes \in SUBSET Unresolved(questions), n \in 0..MaxNew :
       /\ n = 0 \/ HasRoom(questions, n)
       /\ questions' = Judge(questions, closes, n)
  /\ outcome' \in {FALSE, NoOpenQuestions(questions')}
  /\ SpendSession

Evaluate ==
  /\ pc = "evaluate"
  /\ ApplyJudgment
  /\ pc' = "verdict"
  /\ UNCHANGED <<meta, planned, findings, verdicts, report, cycle, before,
                 targets, reads, answering, why, counts>>

RecordVerdict ==
  /\ pc = "verdict"
  /\ WriteVerdict(cycle, FALSE, outcome)
  /\ pc' = "judge" /\ outcome' = FALSE
  /\ UNCHANGED <<meta, planned, questions, findings, report, exceeded, cycle,
                 before, targets, reads, answering, why, counts>>

(* Both ways a cycle can end the loop with nothing left to do.             *)
Conclude == pc' = "conclude" /\ meta' = CompleteCycle(FALSE) /\ UNCHANGED <<cycle, why>>

Exhaust == FinishWith("exhausted") /\ meta' = CompleteCycle(FALSE) /\ UNCHANGED cycle

(* Mutant: the pass is taken as final without asking the gate.             *)
AcceptPassUngated == Conclude

(* Mutant: one firing of the gate too many.                                *)
AcceptPassLate ==
  IF ~FinalGate \/ meta.final_eval_count > MaxFinalEvaluations
    THEN Conclude
  ELSE IF TrippedBreaker(cycle) # NoReason
    THEN FinishWith(TrippedBreaker(cycle)) /\ UNCHANGED <<meta, cycle>>
  ELSE pc' = "gate" /\ UNCHANGED <<meta, cycle, why>>

(* A pass over an empty queue: to the final gate if there is one and its   *)
(* firings are not used up, unless a breaker trips before it.              *)
AcceptPass ==
  IF ~FinalGate \/ meta.final_eval_count >= MaxFinalEvaluations
    THEN Conclude
  ELSE IF TrippedBreaker(cycle) # NoReason
    THEN FinishWith(TrippedBreaker(cycle)) /\ UNCHANGED <<meta, cycle>>
  ELSE pc' = "gate" /\ UNCHANGED <<meta, cycle, why>>

(* A cycle that did not empty the queue: the stall guard, then round again.*)
CloseCycle ==
  LET stalled == StateHash = before
  IN  /\ meta' = CompleteCycle(stalled)
      /\ IF stalled /\ meta'.stall_count >= StallCycles
           THEN FinishWith("stall") /\ UNCHANGED cycle
           ELSE NextCycle /\ UNCHANGED why

(* The driver's branch on the newest verdict.                              *)
ReadVerdict ==
  /\ pc = "judge"
  /\ IF ~NoOpenQuestions(questions) THEN CloseCycle
     ELSE IF LatestPassed THEN AcceptPass
     ELSE Exhaust
  /\ UNCHANGED <<planned, questions, findings, verdicts, report, exceeded, before,
                 targets, reads, answering, outcome, counts>>

(* The final gate judges with the same code and its own verdict file.      *)
FinalEvaluate ==
  /\ pc = "gate"
  /\ ApplyJudgment
  /\ gates' = gates + 1
  /\ pc' = "gate_verdict"
  /\ UNCHANGED <<meta, planned, findings, verdicts, report, cycle, before,
                 targets, reads, answering, why, stops, reopens>>

RecordFinalVerdict ==
  /\ pc = "gate_verdict"
  /\ WriteVerdict(cycle, TRUE, outcome)
  /\ pc' = "bump" /\ outcome' = FALSE
  /\ UNCHANGED <<meta, planned, questions, findings, report, exceeded, cycle,
                 before, targets, reads, answering, why, counts>>

BumpFinalEval ==
  /\ pc = "bump"
  /\ meta' = [meta EXCEPT !.final_eval_count = @ + 1]
  /\ pc' = "gate_judge"
  /\ UNCHANGED <<planned, questions, findings, verdicts, report, exceeded, cycle,
                 before, targets, reads, answering, outcome, why, counts>>

ReadFinalVerdict ==
  /\ pc = "gate_judge"
  /\ IF ~NoOpenQuestions(questions)
       THEN meta' = CompleteCycle(FALSE) /\ NextCycle /\ UNCHANGED why
     ELSE IF LatestPassed THEN Conclude
     ELSE Exhaust
  /\ UNCHANGED <<planned, questions, findings, verdicts, report, exceeded, before,
                 targets, reads, answering, outcome, counts>>

-----------------------------------------------------------------------------
(* Waves and the finish.                                                   *)

(* depth.seed_depth_questions for the questions of some of the best        *)
(* findings: track, confidence and corroboration decide which ones.        *)
DepthParents ==
  {ps \in UNION {[1..n -> findings] : n \in 1..DepthFindings} :
     /\ IsInjective(ps)
     /\ \A i \in DOMAIN ps : ps[i] \notin AlreadyDeepened(questions)}

(* _advance_to_depth: the DEPTH questions are saved before the wave is.    *)
AdvanceToDepth ==
  /\ pc = "conclude"
  /\ \/ /\ WavesEnabled /\ meta.wave = "breadth"
        /\ \E ps \in DepthParents : questions' = Deepen(questions, ps)
        /\ pc' = "flip"
        /\ UNCHANGED why
     \/ FinishWith("conclusive") /\ UNCHANGED questions
  /\ UNCHANGED <<meta, planned, findings, verdicts, report, exceeded, cycle,
                 before, targets, reads, answering, outcome, counts>>

SetWave ==
  /\ pc = "flip"
  /\ meta' = [meta EXCEPT !.wave = "depth"]
  /\ NextCycle
  /\ UNCHANGED <<planned, questions, findings, verdicts, report, exceeded, before,
                 targets, reads, answering, outcome, why, counts>>

(* _finish: the reason is recorded before anything else is tried.          *)
MarkFinishing ==
  /\ pc = "finish"
  /\ meta' = [meta EXCEPT !.finish_reason = why]
  /\ pc' = "synthesize"
  /\ UNCHANGED <<planned, questions, findings, verdicts, report, exceeded, cycle,
                 before, targets, reads, answering, outcome, why, counts>>

Synthesize ==
  /\ pc = "synthesize"
  /\ report' = meta.finish_reason
  /\ SpendSession
  /\ pc' = "seal"
  /\ UNCHANGED <<meta, planned, questions, findings, verdicts, cycle, before,
                 targets, reads, answering, outcome, why, counts>>

MarkFinished ==
  /\ pc = "seal"
  /\ meta' = [meta EXCEPT !.status = "finished"]
  /\ Idle
  /\ UNCHANGED <<planned, questions, findings, verdicts, report, exceeded, counts>>

-----------------------------------------------------------------------------
WorkStep ==
  \/ Pick
  \/ \E t \in targets : \/ WriteFinding(t) \/ SaveAnswer(t) \/ Fragment(t)
                         \/ GiveUp(t) \/ Fail(t)
  \/ EndWork
  \/ AfterWork

JudgeStep ==
  \/ Evaluate \/ RecordVerdict \/ ReadVerdict
  \/ FinalEvaluate \/ RecordFinalVerdict \/ BumpFinalEval \/ ReadFinalVerdict

FinishStep ==
  \/ AdvanceToDepth \/ SetWave \/ MarkFinishing \/ Synthesize \/ MarkFinished

(* The steps the driver process takes by itself.                           *)
DriverStep ==
  \/ Drive \/ PlanQuestions \/ WritePlan \/ Top
  \/ WorkStep \/ JudgeStep \/ FinishStep

(* A finished run that nobody re-opens stays as it is.                     *)
Finished == pc = "down" /\ meta.status = "finished" /\ UNCHANGED vars

Next == DriverStep \/ Stop \/ Resume \/ ForceResume \/ Finished

Spec == Init /\ [][Next]_vars

(* A running driver goes on, and somebody resumes a run that stopped.      *)
Fairness == WF_vars(DriverStep) /\ WF_vars(Resume)

FairSpec == Spec /\ Fairness

-----------------------------------------------------------------------------
(* What must hold of every run.                                            *)

Places == {"down", "drive", "plan", "plan_md", "top", "pick", "work", "worked",
           "evaluate", "verdict", "judge", "gate", "gate_verdict", "bump",
           "gate_judge", "conclude", "flip", "finish", "synthesize", "seal"}

(* Every file and every local variable has its type; the targets in hand   *)
(* are positions of the list.                                              *)
TypeOK ==
  /\ meta \in Meta
  /\ planned \in BOOLEAN
  /\ questions \in Seq(Question)
  /\ findings \subseteq DOMAIN questions
  /\ verdicts \subseteq Verdict
  /\ report \in FinishReasons \cup {NoReason}
  /\ exceeded \subseteq Limits
  /\ pc \in Places
  /\ cycle \in Nat
  /\ targets \subseteq DOMAIN questions
  /\ reads \in {"neutral", "read", "outage"}
  /\ answering \in targets \cup {0}
  /\ outcome \in BOOLEAN
  /\ why \in FinishReasons \cup {NoReason}
  /\ {gates, stops, reopens} \subseteq Nat

(* A run marked finished has a REPORT.md, and the report on disk was       *)
(* written for the reason that run.json gives, whatever earlier finish was *)
(* interrupted or re-opened.                                               *)
FinishedHasReport ==
  meta.status = "finished" =>
    /\ meta.finish_reason # NoReason
    /\ report = meta.finish_reason

(* A run that claims to be conclusive left no question open, and the last  *)
(* completed cycle holds a passing verdict of the right tier: the gate's   *)
(* when one is configured, the per-cycle evaluator's when none is or when  *)
(* the firings of the gate are used up.                                    *)
ConclusiveIsEarned ==
  meta.finish_reason = "conclusive" =>
    /\ NoOpenQuestions(questions)
    /\ \E v \in verdicts :
         /\ v.cycle = meta.last_cycle /\ v.passed
         /\ \/ v.final = FinalGate
            \/ meta.final_eval_count >= MaxFinalEvaluations

(* A question resolved by a finding has that finding on disk, at whatever  *)
(* write the process died.                                                 *)
AnswersAreWritten ==
  \A i \in DOMAIN questions : questions[i].answered => i \in findings

(* Orphans never pile up: the questions marked in_progress fit one batch,  *)
(* because every worker takes the orphans of earlier crashes first.        *)
OrphansFitOneBatch == Cardinality(InProgress(questions)) <= ParallelQuestions

(* However often the process dies, the final gate runs at most once more   *)
(* than its cap for each early stop.                                       *)
GatesBoundedByStops == gates <= MaxFinalEvaluations + stops

(* No finding's question gets two DEPTH questions, even when the process   *)
(* dies between seeding them and leaving the BREADTH wave.                 *)
DeepenedOnce ==
  \A i, j \in DOMAIN questions :
    (/\ questions[i].by = "depth" /\ questions[j].by = "depth"
     /\ questions[i].parent = questions[j].parent) => i = j

(* The cap on questions holds for everything but the DEPTH wave, which is  *)
(* seeded past it.                                                         *)
CapHolds ==
  Cardinality({i \in DOMAIN questions : questions[i].by # "depth"})
    <= MaxQuestions

(* The cycles that one question can keep the run going for.  One at a time *)
(* every cycle costs it an attempt; in a parallel batch it may also be new *)
(* or be claimed by a pipeline that then fails, and after each of these    *)
(* steps the run stands still for fewer cycles than the stall guard allows.*)
CyclesPerQuestion ==
  IF ParallelQuestions = 1 THEN RetireBlockedAfter
  ELSE StallCycles * (2 * RetireBlockedAfter + 1)

(* The run converges by itself, max_cycles is only a net: every completed  *)
(* cycle uses up one of those of some question on the list, or is excused  *)
(* by an early stop or a forced resume.                                    *)
ConvergesByItself ==
  meta.last_cycle <= Len(questions) * CyclesPerQuestion + stops + reopens

(* A resolved question is never worked on or judged again, and no question *)
(* is ever dropped once the plan stands.                                   *)
ResolvedStays ==
  [][planned => /\ Len(questions') >= Len(questions)
               /\ \A i \in DOMAIN questions :
                    questions[i].status = "resolved" =>
                      questions'[i] = questions[i]]_questions

(* Every run that is resumed after an early stop ends with a report.       *)
EventuallyFinished == <>[](meta.status = "finished")

(* What a reader of run.json sees of the run.                              *)
Phase ==
  IF meta.status = "finished" THEN "finished"
  ELSE IF meta.finish_reason # NoReason THEN "finishing" ELSE "running"

Lifecycle == INSTANCE RunLifecycle WITH
  phase <- Phase, reason <- meta.finish_reason, report <- report

(* The run implements the lifecycle that run.json and REPORT.md promise:   *)
(* one reason is committed to, a report is written for it, then the run is *)
(* finished.                                                               *)
ImplementsLifecycle == Lifecycle!FairLifecycle
=============================================================================
