-------------------------- MODULE FinishPhase_proofs --------------------------
(***************************************************************************)
(* Theorems about FinishPhase, for any findings, pages and settings, any   *)
(* number of stops, and resumes with any budget.                           *)
(***************************************************************************)
EXTENDS FinishPhase, FiniteSetTheorems, TLAPS

-----------------------------------------------------------------------------
(* Types.                                                                  *)

(* The primary endpoint, and a fallback or none. *)
LEMMA RungsType == Rungs \in {3, 4}
BY DEF Rungs

(* The steps of the process and of its surroundings, one by one. *)
LEMMA Steps ==
  ASSUME Next
  PROVE  \/ MarkFinishing \/ StartWave \/ (\E f \in Findings : Challenge(f))
         \/ WriteMark \/ EndWave \/ Draft \/ Publish \/ Reject \/ Seal
         \/ Kill \/ LadderFails \/ Refused \/ Resume \/ UNCHANGED vars
BY DEF Next, ProcessStep, Environment, Ended

(* What a challenge that ends with a result leaves in trial. *)
LEMMA TrialType ==
  ASSUME NEW f \in Findings, Judged(f) \/ Inconclusive(f)
  PROVE  trial' \in Trial
BY FinishAssumption DEF Judged, Inconclusive, Challengers, Trial, Marks, Notes, Findings

(* A draft moves on by a round, a rung or to the report. *)
LEMMA DraftMoves ==
  ASSUME TypeOK, Draft
  PROVE  /\ pc' \in {"draft", "publish"} /\ body' \in Bodies
         /\ round' \in 1..(Attempts + 1) /\ rung' \in 1..Rungs
         /\ drafts' = drafts + 1 /\ over' \in BOOLEAN
<1>1. /\ Attempts \in Nat \ {0} /\ Rungs \in {3, 4} /\ round \in 1..(Attempts + 1)
      /\ rung \in 1..Rungs /\ body \in Bodies
      /\ over \in BOOLEAN /\ pc = "draft"
  BY FinishAssumption, RungsType DEF TypeOK, Draft
<1>2. PICK s \in Sample :
        IF s \in {"uncited", "drift"} THEN Defective ELSE Cited(s)
  BY DEF Draft
<1>3. drafts' = drafts + 1 /\ over' \in BOOLEAN
  BY <1>1 DEF Draft, Pay, Spend
<1>4. CASE Defective
  BY <1>1, <1>3, <1>4 DEF Defective, Body, Bodies
<1>5. CASE Cited(s)
  BY <1>1, <1>3, <1>5 DEF Cited, Body, NextRound, Bodies
<1> QED
  BY <1>2, <1>4, <1>5

(* Every file and every variable of the process starts within its type. *)
LEMMA InitTypeOK == Init => TypeOK
<1> SUFFICES ASSUME Init PROVE TypeOK
  OBVIOUS
<1>1. /\ round \in 1..(Attempts + 1) /\ rung \in 1..Rungs
  BY FinishAssumption, RungsType DEF Init
<1>2. NoReport \in Report /\ NoTrial \in Trial
  BY FinishAssumption DEF NoReport, NoTrial, Report, Trial, Bodies, Marks, Notes
<1> QED
  BY <1>1, <1>2 DEF Init, TypeOK, Bodies, Marks, Notes

(* Every step keeps the types. *)
LEMMA NextTypeOK == TypeOK /\ [Next]_vars => TypeOK'
<1> SUFFICES ASSUME TypeOK, [Next]_vars PROVE TypeOK'
  OBVIOUS
<1>0. /\ 1 \in 1..(Attempts + 1) /\ 1 \in 1..Rungs /\ NoTrial \in Trial
      /\ "none" \in Bodies
  BY FinishAssumption, RungsType DEF NoTrial, Trial, Marks, Notes, Bodies
<1>1. CASE MarkFinishing \/ Resume
  BY <1>1 DEF MarkFinishing, Resume, TypeOK, history, drafting, wave
<1>8. CASE Publish
  <2>1. report' \in Report
    BY <1>8 DEF Publish, TypeOK, Report, Citations, Refuted, Factual
  <2> QED
    BY <1>8, <2>1 DEF Publish, TypeOK, history, drafting, wave
<1>2. CASE StartWave \/ EndWave
  <2>1. left' \subseteq Findings /\ body' \in Bodies
        /\ pc' \in {"challenge", "draft", "publish"}
    BY <1>2 DEF StartWave, EndWave, TypeOK, Candidates, Bodies, drafting
  <2> QED
    BY <1>2, <2>1 DEF StartWave, EndWave, TypeOK, files, history, drafting
<1>3. ASSUME NEW f \in Findings, Challenge(f) PROVE TypeOK'
  <2>1. /\ trial' \in Trial /\ over' \in BOOLEAN
        /\ pc' \in {"challenge", "mark"}
    BY <1>3, TrialType DEF Challenge, Spend, TypeOK
  <2>2. left' \subseteq Findings /\ challenged' \subseteq Findings
    BY <1>3 DEF Challenge, TypeOK
  <2> QED
    BY <1>3, <2>1, <2>2 DEF Challenge, TypeOK, drafting
<1>4. CASE WriteMark
  BY <1>0, <1>4 DEF WriteMark, TypeOK, Trial, drafting
<1>5. CASE Draft
  <2>1. drafts' \in Nat
    BY <1>5, DraftMoves DEF TypeOK
  <2> QED
    BY <1>5, <2>1, DraftMoves DEF Draft, TypeOK, wave
<1>6. CASE Kill \/ LadderFails \/ Refused \/ Reject \/ Seal
  <2>1. /\ pc' = "down" /\ left' = {} /\ trial' = NoTrial /\ round' = 1
        /\ rung' = 1 /\ body' = "none" /\ drafts' = 0
    BY <1>6 DEF Kill, LadderFails, Refused, Reject, Seal, Idle
  <2>2. /\ UNCHANGED <<shape, marks, notes, report, evidence, challenged>>
        /\ phase' \in {phase, "finished"}
        /\ over' \in {over, TRUE} /\ stops' \in {stops, stops + 1}
    <3>1. CASE Kill \/ Reject \/ Seal
      BY <1>6, <3>1 DEF Kill, Reject, Seal, files
    <3>2. CASE LadderFails \/ Refused
      BY <1>6, <3>2 DEF LadderFails, Refused, Spend
    <3> QED
      BY <1>6, <3>1, <3>2
  <2>3. phase' \in {"running", "finishing", "finished"} /\ stops' \in Nat
    BY <2>2 DEF TypeOK
  <2>6. over' \in BOOLEAN
    BY <2>2, Zenon DEF TypeOK
  <2>4. /\ shape' \in Shapes /\ marks' \in [Findings -> Marks]
        /\ notes' \in [Findings -> Notes] /\ report' \in Report
        /\ evidence' \in [Findings -> SUBSET Pages]
        /\ challenged' \subseteq Findings
    BY <2>2 DEF TypeOK
  <2>5. Rungs' = Rungs
    BY DEF Rungs
  <2> QED
    BY <1>0, <2>1, <2>3, <2>4, <2>5, <2>6 DEF TypeOK
<1>7. CASE UNCHANGED vars
  BY <1>7 DEF vars, files, wave, drafting, history, TypeOK
<1> QED
  BY <1>1, <1>2, <1>3, <1>4, <1>5, <1>6, <1>7, <1>8, Steps

(* The files and the process keep their types, and the counters of the     *)
(* report loops their ranges, for any number of attempts and stops.        *)
THEOREM FinishTypeCorrect == Spec => []TypeOK
BY InitTypeOK, NextTypeOK, PTL DEF Spec

-----------------------------------------------------------------------------
(* The marks.                                                              *)

(* What the wave has still to challenge is factual and not judged.         *)
LeftOpen == \A f \in left : f \in Factual /\ marks[f] = "unverified"

(* A result that is about to be written is one of a challenged finding,    *)
(* which has left the wave, and rests on pages that are not its own.       *)
TrialEarned ==
  pc = "mark" =>
    LET f == trial.finding IN
    /\ f \in Factual \cap challenged /\ f \notin left
    /\ marks[f] = "unverified"
    /\ trial.mark # "unverified" =>
         trial.read # {} /\ trial.read \cap shape[f].sources = {}

MarksInv == TypeOK /\ MarksAreEarned /\ LeftOpen /\ TrialEarned

(* The process is idle at first, and nothing is judged. *)
LEMMA InitMarksInv == Init => MarksInv
<1> SUFFICES ASSUME Init PROVE MarksInv
  OBVIOUS
<1>1. TypeOK
  BY InitTypeOK
<1>2. MarksAreEarned
  BY DEF Init, MarksAreEarned
<1> QED
  BY <1>1, <1>2 DEF Init, MarksInv, LeftOpen, TrialEarned

(* A step that writes no mark, starts no wave and challenges nothing. *)
LEMMA QuietKeepsMarks ==
  ASSUME MarksInv,
         UNCHANGED <<shape, marks, evidence, challenged>>,
         left' \subseteq left, trial' = trial \/ pc' # "mark",
         pc' = "mark" => pc = "mark" /\ left' = left
  PROVE  MarksAreEarned' /\ LeftOpen' /\ TrialEarned'
<1>1. Factual' = Factual
  BY DEF Factual
<1>2. MarksAreEarned'
  BY <1>1 DEF MarksInv, MarksAreEarned
<1>3. LeftOpen'
  BY <1>1 DEF MarksInv, LeftOpen
<1>4. TrialEarned'
  BY <1>1 DEF MarksInv, TrialEarned
<1> QED
  BY <1>2, <1>3, <1>4

(* A challenge takes the finding out of the wave, with a result or not. *)
LEMMA ChallengeKeepsMarks ==
  ASSUME MarksInv, NEW f \in Findings, Challenge(f)
  PROVE  MarksAreEarned' /\ LeftOpen' /\ TrialEarned'
<1>1. /\ UNCHANGED <<shape, marks, evidence>>
      /\ f \in left /\ left' = left \ {f} /\ challenged' = challenged \cup {f}
      /\ f \in Factual /\ marks[f] = "unverified" /\ pc = "challenge"
  BY DEF Challenge, MarksInv, LeftOpen
<1>2. Factual' = Factual
  BY <1>1 DEF Factual
<1>3. MarksAreEarned'
  BY <1>1, <1>2 DEF MarksInv, MarksAreEarned
<1>4. LeftOpen'
  BY <1>1, <1>2 DEF MarksInv, LeftOpen
<1>5. TrialEarned'
  <2>1. CASE Judged(f)
    <3>1. trial'.finding = f /\ trial'.read # {}
          /\ trial'.read \cap shape[f].sources = {}
      BY <2>1 DEF Judged, Challengers
    <3> QED
      BY <1>1, <1>2, <3>1 DEF TrialEarned
  <2>2. CASE Inconclusive(f)
    <3>1. trial'.finding = f /\ trial'.mark = "unverified"
      BY <2>2 DEF Inconclusive
    <3> QED
      BY <1>1, <1>2, <3>1 DEF TrialEarned
  <2>3. CASE UNCHANGED <<trial, pc>>
    BY <1>1, <2>3 DEF TrialEarned
  <2> QED
    BY <2>1, <2>2, <2>3 DEF Challenge
<1> QED
  BY <1>3, <1>4, <1>5

(* The mark that is written is the one the trial has earned. *)
LEMMA WriteKeepsMarks ==
  ASSUME MarksInv, WriteMark
  PROVE  MarksAreEarned' /\ LeftOpen' /\ TrialEarned'
<1> DEFINE g == trial.finding
<1>1. /\ g \in Factual /\ g \in Findings /\ g \in challenged /\ g \notin left
      /\ marks[g] = "unverified"
      /\ trial.mark # "unverified" =>
           trial.read # {} /\ trial.read \cap shape[g].sources = {}
  BY DEF WriteMark, MarksInv, TrialEarned, Factual
<1>2. /\ UNCHANGED <<shape, challenged, left>> /\ pc' = "challenge"
      /\ marks' = [marks EXCEPT ![g] = trial.mark]
      /\ evidence' = [evidence EXCEPT ![g] = trial.read]
      /\ marks \in [Findings -> Marks] /\ evidence \in [Findings -> SUBSET Pages]
  BY DEF WriteMark, MarksInv, TypeOK
<1>3. Factual' = Factual
  BY <1>2 DEF Factual
<1> HIDE DEF g
<1>4. MarksAreEarned'
  <2> SUFFICES ASSUME NEW f \in Findings, marks'[f] # "unverified"
               PROVE  /\ f \in Factual /\ f \in challenged
                      /\ evidence'[f] # {}
                      /\ evidence'[f] \cap shape[f].sources = {}
    BY <1>2, <1>3 DEF MarksAreEarned
  <2>1. CASE f = g
    BY <1>1, <1>2, <2>1
  <2>2. CASE f # g
    BY <1>2, <2>2 DEF MarksInv, MarksAreEarned
  <2> QED
    BY <2>1, <2>2
<1>5. LeftOpen'
  BY <1>1, <1>2, <1>3 DEF MarksInv, LeftOpen, TypeOK
<1> QED
  BY <1>2, <1>4, <1>5 DEF TrialEarned

(* Every step keeps the marks earned. *)
LEMMA NextMarksInv == MarksInv /\ [Next]_vars => MarksInv'
<1> SUFFICES ASSUME MarksInv, [Next]_vars PROVE MarksInv'
  OBVIOUS
<1>0. TypeOK'
  BY NextTypeOK DEF MarksInv
<1>1. ASSUME NEW f \in Findings, Challenge(f) PROVE MarksInv'
  BY <1>0, <1>1, ChallengeKeepsMarks DEF MarksInv
<1>2. CASE WriteMark
  BY <1>0, <1>2, WriteKeepsMarks DEF MarksInv
<1>3. CASE StartWave
  <2>1. /\ UNCHANGED <<shape, marks, evidence, challenged>> /\ pc' = "challenge"
        /\ left' \subseteq {f \in Findings : Eligible(f)}
    BY <1>3 DEF StartWave, files, history, Candidates
  <2>2. LeftOpen'
    BY <2>1 DEF LeftOpen, Eligible, Factual
  <2>3. MarksAreEarned' /\ TrialEarned'
    BY <2>1 DEF MarksInv, MarksAreEarned, TrialEarned, Factual
  <2> QED
    BY <1>0, <2>2, <2>3 DEF MarksInv
<1>4. CASE MarkFinishing \/ EndWave \/ Publish \/ Resume
  <2>1. /\ UNCHANGED <<shape, marks, evidence, challenged>> /\ pc' # "mark"
        /\ left' \subseteq left
    BY <1>4 DEF MarkFinishing, EndWave, Publish, Resume, files, history, wave
  <2> QED
    BY <1>0, <2>1, QuietKeepsMarks DEF MarksInv
<1>5. CASE Draft
  <2>1. /\ UNCHANGED <<shape, marks, evidence, challenged>> /\ left' = left
        /\ pc' # "mark"
    BY <1>5, DraftMoves DEF Draft, wave, MarksInv
  <2> QED
    BY <1>0, <2>1, QuietKeepsMarks DEF MarksInv
<1>6. CASE Kill \/ LadderFails \/ Refused \/ Reject \/ Seal
  <2>1. /\ UNCHANGED <<shape, marks, evidence, challenged>> /\ left' = {}
        /\ pc' # "mark"
    BY <1>6 DEF Kill, LadderFails, Refused, Reject, Seal, Idle, files
  <2> QED
    BY <1>0, <2>1, QuietKeepsMarks DEF MarksInv
<1>7. CASE UNCHANGED vars
  <2>1. UNCHANGED <<shape, marks, evidence, challenged, left, trial, pc>>
    BY <1>7 DEF vars, files, wave, history
  <2> QED
    BY <1>0, <2>1, QuietKeepsMarks DEF MarksInv
<1> QED
  BY <1>1, <1>2, <1>3, <1>4, <1>5, <1>6, <1>7, Steps

LEMMA AlwaysMarksInv == Spec => []MarksInv
BY InitMarksInv, NextMarksInv, PTL DEF Spec

(* Every verdict rests on pages that were read and are not the finding's   *)
(* own, whatever dies, fails and is resumed around it.                     *)
THEOREM VerdictsEarned == Spec => []MarksAreEarned
BY AlwaysMarksInv, PTL DEF MarksInv

(* A step changes no mark but that of a finding that had none. *)
LEMMA StepKeepsVerdicts ==
  ASSUME MarksInv, [Next]_vars
  PROVE  \A f \in Findings : MarkKept(f)
<1>1. CASE WriteMark
  <2>1. marks[trial.finding] = "unverified"
    BY <1>1 DEF WriteMark, MarksInv, TrialEarned
  <2> QED
    BY <1>1, <2>1 DEF WriteMark, MarksInv, TypeOK, MarkKept
<1>2. CASE ~WriteMark
  <2>1. UNCHANGED <<marks, notes>>
    <3>1. CASE \E f \in Findings : Challenge(f)
      BY <3>1 DEF Challenge
    <3>2. CASE MarkFinishing \/ StartWave \/ EndWave \/ Publish \/ Resume
      BY <3>2 DEF MarkFinishing, StartWave, EndWave, Publish, Resume, files
    <3>3. CASE Draft \/ Kill \/ LadderFails \/ Refused \/ Reject \/ Seal
      BY <3>3 DEF Draft, Kill, LadderFails, Refused, Reject, Seal, files
    <3>4. CASE UNCHANGED vars
      BY <3>4 DEF vars, files
    <3> QED
      BY <1>2, <3>1, <3>2, <3>3, <3>4, Steps
  <2> QED
    BY <2>1 DEF MarkKept
<1> QED
  BY <1>1, <1>2

(* A verdict that is in a finding's file stays there, note and all.        *)
THEOREM VerdictsFinal == Spec => MarksAreFinal
<1>1. MarksInv /\ [Next]_vars => [\A f \in Findings : MarkKept(f)]_vars
  BY StepKeepsVerdicts
<1> QED
  BY <1>1, AlwaysMarksInv, PTL DEF Spec, MarksAreFinal

-----------------------------------------------------------------------------
(* The report.                                                             *)

(* A process is at work on a run that is not finished, and has recorded    *)
(* the reason before it does anything else.                                *)
PhaseFits ==
  /\ pc # "down" => phase # "finished"
  /\ pc \notin {"down", "drive"} => phase = "finishing"

(* What is about to be published exists, and what is about to be sealed    *)
(* was just published.                                                     *)
BodyFits == pc = "publish" => body # "none"

Current ==
  /\ report.kind # "none"
  /\ "invented" \notin report.cites
  /\ report.refuted = Refuted

SealFits == pc = "seal" => Current

ReportInv == TypeOK /\ PhaseFits /\ BodyFits /\ SealFits /\ ReportIsCurrent

(* Nothing is published at first. *)
LEMMA InitReportInv == Init => ReportInv
<1> SUFFICES ASSUME Init PROVE ReportInv
  OBVIOUS
<1>1. TypeOK
  BY InitTypeOK
<1>2. PhaseFits /\ BodyFits /\ SealFits /\ ReportIsCurrent
  BY DEF Init, PhaseFits, BodyFits, SealFits, ReportIsCurrent
<1> QED
  BY <1>1, <1>2 DEF ReportInv

(* A step of the process on its way to the report: it starts after the     *)
(* reason was recorded, and the run stays open.                            *)
LEMMA WorkKeepsReport ==
  ASSUME ReportInv, phase' = phase, phase = "finishing",
         pc' \in {"wave", "challenge", "mark", "draft"}
  PROVE  PhaseFits' /\ BodyFits' /\ SealFits' /\ ReportIsCurrent'
BY DEF ReportInv, PhaseFits, BodyFits, SealFits, ReportIsCurrent

(* A step that ends the process and leaves the files as they are. *)
LEMMA StopKeepsReport ==
  ASSUME ReportInv, UNCHANGED <<shape, marks, phase, report>>, pc' = "down"
  PROVE  PhaseFits' /\ BodyFits' /\ SealFits' /\ ReportIsCurrent'
BY DEF ReportInv, PhaseFits, BodyFits, SealFits, ReportIsCurrent, Refuted, Factual

(* Every step keeps the report current. *)
LEMMA NextReportInv == ReportInv /\ [Next]_vars => ReportInv'
<1> SUFFICES ASSUME ReportInv, [Next]_vars PROVE ReportInv'
  OBVIOUS
<1>0. TypeOK'
  BY NextTypeOK DEF ReportInv
<1>a. pc \notin {"down", "drive"} => phase = "finishing"
  BY DEF ReportInv, PhaseFits
<1>1. CASE \E f \in Findings : Challenge(f)
  <2>1. phase' = phase /\ pc = "challenge" /\ pc' \in {"challenge", "mark"}
    BY <1>1 DEF Challenge
  <2> QED
    BY <1>0, <1>a, <2>1, WorkKeepsReport DEF ReportInv
<1>2. CASE StartWave \/ WriteMark
  <2>1. phase' = phase /\ pc \in {"wave", "mark"} /\ pc' = "challenge"
    BY <1>2 DEF StartWave, WriteMark, files
  <2> QED
    BY <1>0, <1>a, <2>1, WorkKeepsReport DEF ReportInv
<1>3. CASE MarkFinishing \/ Resume
  <2>1. PhaseFits' /\ BodyFits' /\ SealFits' /\ ReportIsCurrent'
    BY <1>3 DEF MarkFinishing, Resume, ReportInv, PhaseFits, BodyFits, SealFits,
                ReportIsCurrent
  <2> QED
    BY <1>0, <2>1 DEF ReportInv
<1>4. CASE EndWave
  <2>1. /\ UNCHANGED <<shape, marks, phase, report>> /\ phase = "finishing"
        /\ pc' = "draft" \/ (pc' = "publish" /\ body' = "empty")
    BY <1>4, <1>a DEF EndWave, files
  <2> QED
    BY <1>0, <2>1 DEF ReportInv, PhaseFits, BodyFits, SealFits, ReportIsCurrent
<1>5. CASE Draft
  <2>1. /\ UNCHANGED <<shape, marks, phase, report>> /\ phase = "finishing"
        /\ pc' = "draft" \/ (pc' = "publish" /\ body' # "none")
    <3>1. PICK s \in Sample :
            IF s \in {"uncited", "drift"} THEN Defective ELSE Cited(s)
      BY <1>5 DEF Draft
    <3>2. pc = "draft" /\ UNCHANGED <<shape, marks, phase, report>>
      BY <1>5 DEF Draft
    <3>3. pc' = "draft" \/ (pc' = "publish" /\ body' # "none")
      <4>1. CASE Defective
        BY <3>2, <4>1 DEF Defective, Body
      <4>2. CASE Cited(s)
        BY <3>2, <4>2 DEF Cited, Body, NextRound
      <4> QED
        BY <3>1, <4>1, <4>2
    <3> QED
      BY <1>a, <3>2, <3>3
  <2> QED
    BY <1>0, <2>1 DEF ReportInv, PhaseFits, BodyFits, SealFits, ReportIsCurrent
<1>6. CASE Publish
  <2>1. /\ phase' = phase /\ phase = "finishing" /\ pc' = "seal"
        /\ body # "none" /\ "invented" \notin Citations /\ Refuted' = Refuted
        /\ report' = [kind |-> body, cites |-> Citations, refuted |-> Refuted]
    BY <1>6, <1>a DEF Publish, ReportInv, BodyFits, Refuted, Factual
  <2> QED
    BY <1>0, <2>1 DEF ReportInv, PhaseFits, BodyFits, SealFits, Current,
                      ReportIsCurrent
<1>7. CASE Seal
  <2>1. /\ UNCHANGED <<shape, marks, report>> /\ pc' = "down" /\ Current
    BY <1>7 DEF Seal, Idle, ReportInv, SealFits
  <2> QED
    BY <1>0, <2>1 DEF ReportInv, PhaseFits, BodyFits, SealFits, Current,
                      ReportIsCurrent, Refuted, Factual
<1>8. CASE Kill \/ LadderFails \/ Refused \/ Reject
  <2>1. UNCHANGED <<shape, marks, phase, report>> /\ pc' = "down"
    BY <1>8 DEF Kill, LadderFails, Refused, Reject, Idle, files
  <2> QED
    BY <1>0, <2>1, StopKeepsReport DEF ReportInv
<1>9. CASE UNCHANGED vars
  <2>1. PhaseFits' /\ BodyFits' /\ SealFits' /\ ReportIsCurrent'
    BY <1>9 DEF vars, files, drafting, ReportInv, PhaseFits, BodyFits, SealFits,
                Current, ReportIsCurrent, Refuted, Factual
  <2> QED
    BY <1>0, <2>1 DEF ReportInv
<1> QED
  BY <1>1, <1>2, <1>3, <1>4, <1>5, <1>6, <1>7, <1>8, <1>9, Steps

LEMMA AlwaysReportInv == Spec => []ReportInv
BY InitReportInv, NextReportInv, PTL DEF Spec

(* A finished run has a report that cites no unknown source and lists      *)
(* exactly the findings that were refuted, whatever was written before the *)
(* last resume.                                                            *)
THEOREM ReportsAreCurrent == Spec => []ReportIsCurrent
BY AlwaysReportInv, PTL DEF ReportInv

-----------------------------------------------------------------------------
(* The finish implements the lifecycle.                                    *)

Reason == IF phase = "running" THEN "none" ELSE "ended"
Written == IF report.kind = "none" THEN "none" ELSE "ended"

(* Every step is a step of the abstract lifecycle, or leaves its variables *)
(* alone.                                                                  *)
LEMMA StepImplementsLifecycle ==
  ASSUME ReportInv, [Next]_vars
  PROVE  [Lifecycle!LifecycleNext]_<<phase, Reason, Written>>
<1> USE DEF Reason, Written
<1>1. CASE \E f \in Findings : Challenge(f)
  BY <1>1 DEF Challenge
<1>2. CASE StartWave \/ WriteMark \/ EndWave \/ Draft \/ Resume
  BY <1>2 DEF StartWave, WriteMark, EndWave, Draft, Resume, files
<1>3. CASE Kill \/ LadderFails \/ Refused \/ Reject
  BY <1>3 DEF Kill, LadderFails, Refused, Reject, files
<1>4. CASE MarkFinishing
  <2>1. phase \in {"running", "finishing"}
    BY <1>4 DEF MarkFinishing, ReportInv, TypeOK, PhaseFits
  <2>2. CASE phase = "running"
    <3>1. Lifecycle!Commit("ended")
      BY <1>4, <2>2 DEF MarkFinishing, Lifecycle!Commit
    <3> QED
      BY <3>1 DEF Lifecycle!LifecycleNext
  <2>3. CASE phase = "finishing"
    BY <1>4, <2>3 DEF MarkFinishing
  <2> QED
    BY <2>1, <2>2, <2>3
<1>5. CASE Publish
  <2>1. phase = "finishing" /\ phase' = phase /\ report'.kind # "none"
    BY <1>5 DEF Publish, ReportInv, PhaseFits, BodyFits
  <2>2. Lifecycle!WriteReport
    BY <2>1 DEF Lifecycle!WriteReport
  <2> QED
    BY <2>2 DEF Lifecycle!LifecycleNext
<1>6. CASE Seal
  <2>1. phase = "finishing" /\ report.kind # "none"
    BY <1>6 DEF Seal, ReportInv, PhaseFits, SealFits, Current
  <2>2. Lifecycle!Seal
    BY <1>6, <2>1 DEF Seal, Lifecycle!Seal
  <2> QED
    BY <2>2 DEF Lifecycle!LifecycleNext
<1>7. CASE UNCHANGED vars
  BY <1>7 DEF vars, files
<1> QED
  BY <1>1, <1>2, <1>3, <1>4, <1>5, <1>6, <1>7, Steps

(* The finish, with its wave, its ladder and every crash in them, keeps    *)
(* the lifecycle of RunLifecycle.                                          *)
THEOREM FinishImplementsLifecycle == Spec => ImplementsLifecycle
<1>1. Init => Lifecycle!LifecycleInit
  BY DEF Init, Lifecycle!LifecycleInit, NoReport
<1>2. ReportInv /\ [Next]_vars => [Lifecycle!LifecycleNext]_<<phase, Reason, Written>>
  BY StepImplementsLifecycle
<1> QED
  BY <1>1, <1>2, AlwaysReportInv, PTL
  DEF Spec, ImplementsLifecycle, Lifecycle!LifecycleSpec, Lifecycle!lifecycleVars,
      Reason, Written

-----------------------------------------------------------------------------
(* The order of the wave.                                                  *)

(* The files of the findings have the types that the order compares. *)
LEMMA CountType ==
  ASSUME TypeOK, NEW f \in Findings
  PROVE  Count(f) \in Nat /\ shape[f].confidence \in Nat /\ f \in Nat
<1>1. shape[f] \in Shape
  BY FinishAssumption DEF TypeOK
<1>2. shape[f].sources \subseteq Pages /\ shape[f].confidence \in Nat
  BY <1>1 DEF Shape
<1>3. IsFiniteSet(shape[f].sources)
  BY <1>2, FinishAssumption, FS_Subset
<1> QED
  BY <1>2, <1>3, FS_CardinalityType DEF Count, Findings

LEMMA BeforeIsTransitive ==
  ASSUME TypeOK, NEW f \in Findings, NEW g \in Findings, NEW h \in Findings,
         Before(f, g), Before(g, h)
  PROVE  Before(f, h)
BY CountType DEF Before

(* Whatever comes before a finding that fits under the cap fits, too.      *)
LEMMA CandidatesClosed ==
  ASSUME TypeOK, NEW f \in Candidates, NEW g \in Findings, Eligible(g), Before(g, f)
  PROVE  g \in Candidates
<1> DEFINE ahead(h) == {e \in {d \in Findings : Eligible(d)} : Before(e, h)}
<1>1. IsFiniteSet(Findings)
  BY FinishAssumption, FS_Interval DEF Findings
<1>2. \A h \in Findings : IsFiniteSet(ahead(h)) /\ Cardinality(ahead(h)) \in Nat
  <2> SUFFICES ASSUME NEW h \in Findings
               PROVE  IsFiniteSet(ahead(h)) /\ Cardinality(ahead(h)) \in Nat
    OBVIOUS
  <2>1. ahead(h) \subseteq Findings
    OBVIOUS
  <2>2. IsFiniteSet(ahead(h))
    BY <1>1, <2>1, FS_Subset
  <2> QED
    BY <2>2, FS_CardinalityType
<1>3. f \in Findings /\ Cardinality(ahead(f)) < MaxFindings
  BY DEF Candidates
<1>4. ahead(g) \subseteq ahead(f)
  BY <1>3, BeforeIsTransitive
<1> HIDE DEF ahead
<1>5. Cardinality(ahead(g)) <= Cardinality(ahead(f))
  BY <1>2, <1>3, <1>4, FS_Subset
<1>6. Cardinality(ahead(g)) < MaxFindings
  BY <1>2, <1>3, <1>5, FinishAssumption
<1> QED
  BY <1>6 DEF Candidates, ahead

(* An open finding that comes before one of the wave is in the wave. *)
WaveClosed ==
  \A f \in left, g \in Findings :
    Eligible(g) /\ g \notin challenged /\ Before(g, f) => g \in left

RiskInv == MarksInv /\ WaveClosed /\ RiskiestFirst

(* A step that only empties the wave, or leaves it alone, keeps the order. *)
LEMMA QuietKeepsRisk ==
  ASSUME RiskInv, UNCHANGED <<shape, marks, challenged>>, left' \in {left, {}}
  PROVE  WaveClosed' /\ RiskiestFirst'
<1>1. \A f \in Findings, g \in Findings :
        /\ Eligible(g)' <=> Eligible(g)
        /\ Before(g, f)' <=> Before(g, f)
        /\ LoadBearing(g)' <=> LoadBearing(g)
        /\ Count(g)' = Count(g)
  BY DEF Eligible, Before, Count, LoadBearing, Factual
<1>2. left \subseteq Findings /\ challenged \subseteq Findings
  BY DEF RiskInv, MarksInv, TypeOK
<1>3. WaveClosed'
  BY <1>1, <1>2 DEF RiskInv, WaveClosed
<1>4. RiskiestFirst'
  BY <1>1, <1>2 DEF RiskInv, RiskiestFirst
<1> QED
  BY <1>3, <1>4

(* The next challenge is one that nothing open comes before. *)
LEMMA ChallengeKeepsRisk ==
  ASSUME RiskInv, NEW f \in Findings, Challenge(f)
  PROVE  WaveClosed' /\ RiskiestFirst'
<1>1. /\ UNCHANGED <<shape, marks>>
      /\ f \in left /\ \A g \in left : ~Before(g, f)
      /\ left' = left \ {f} /\ challenged' = challenged \cup {f}
  BY DEF Challenge
<1>2. \A e \in Findings, g \in Findings :
        /\ Eligible(g)' <=> Eligible(g)
        /\ Before(g, e)' <=> Before(g, e)
        /\ LoadBearing(g)' <=> LoadBearing(g)
        /\ Count(g)' = Count(g)
  BY <1>1 DEF Eligible, Before, Count, LoadBearing, Factual
<1>3. left \subseteq Findings /\ challenged \subseteq Findings /\ TypeOK
  BY DEF RiskInv, MarksInv, TypeOK
<1>4. WaveClosed'
  BY <1>1, <1>2, <1>3 DEF RiskInv, WaveClosed
<1>5. RiskiestFirst'
  <2> SUFFICES ASSUME RiskFirst, NEW e \in challenged', NEW g \in Findings,
                      LoadBearing(g),
                      \/ Count(g) < Count(e)
                      \/ /\ Count(g) = Count(e)
                         /\ shape[g].confidence > shape[e].confidence
               PROVE  g \in challenged'
    BY <1>1, <1>2, <1>3 DEF RiskiestFirst
  <2>1. CASE e \in challenged
    BY <1>1, <2>1 DEF RiskInv, RiskiestFirst
  <2>2. CASE e = f /\ g \notin challenged
    <3>1. Before(g, f)
      BY <1>3, <2>2, CountType DEF Before
    <3>2. marks[g] = "unverified"
      BY <2>2 DEF RiskInv, MarksInv, MarksAreEarned
    <3>3. Eligible(g)
      BY <3>2 DEF Eligible, LoadBearing, Factual
    <3>4. g \in left
      BY <1>1, <2>2, <3>1, <3>3 DEF RiskInv, WaveClosed
    <3> QED
      BY <1>1, <3>1, <3>4
  <2> QED
    BY <1>1, <2>1, <2>2
<1> QED
  BY <1>4, <1>5

(* Every step keeps the order. *)
LEMMA NextRiskInv == RiskInv /\ [Next]_vars => RiskInv'
<1> SUFFICES ASSUME RiskInv, [Next]_vars PROVE RiskInv'
  OBVIOUS
<1>0. MarksInv' /\ TypeOK
  BY NextMarksInv DEF RiskInv, MarksInv
<1>1. ASSUME NEW f \in Findings, Challenge(f) PROVE RiskInv'
  BY <1>0, <1>1, ChallengeKeepsRisk DEF RiskInv
<1>2. CASE StartWave
  <2>1. UNCHANGED <<shape, marks, challenged>> /\ left' \in {Candidates, {}}
    BY <1>2 DEF StartWave, files, history
  <2>2. \A f \in Findings, g \in Findings :
          /\ Eligible(g)' <=> Eligible(g)
          /\ Before(g, f)' <=> Before(g, f)
          /\ LoadBearing(g)' <=> LoadBearing(g)
          /\ Count(g)' = Count(g)
    BY <2>1 DEF Eligible, Before, Count, LoadBearing, Factual
  <2>3. WaveClosed'
    <3>1. Candidates \subseteq Findings
      BY DEF Candidates
    <3> QED
      BY <1>0, <2>1, <2>2, <3>1, CandidatesClosed DEF WaveClosed
  <2>4. RiskiestFirst'
    BY <1>0, <2>1, <2>2 DEF RiskInv, RiskiestFirst, TypeOK
  <2> QED
    BY <1>0, <2>3, <2>4 DEF RiskInv
<1>3. CASE WriteMark
  <2>1. /\ UNCHANGED <<shape, left, challenged>>
        /\ marks' = [marks EXCEPT ![trial.finding] = trial.mark]
        /\ marks \in [Findings -> Marks]
        /\ marks[trial.finding] = "unverified"
    BY <1>0, <1>3 DEF WriteMark, RiskInv, MarksInv, TrialEarned, TypeOK
  <2>2. \A f \in Findings, g \in Findings :
          /\ Eligible(g)' => Eligible(g)
          /\ Before(g, f)' <=> Before(g, f)
          /\ LoadBearing(g)' <=> LoadBearing(g)
          /\ Count(g)' = Count(g)
    BY <2>1 DEF Eligible, Before, Count, LoadBearing, Factual
  <2>3. left \subseteq Findings /\ challenged \subseteq Findings
    BY <1>0 DEF TypeOK
  <2>4. WaveClosed'
    BY <2>1, <2>2, <2>3 DEF RiskInv, WaveClosed
  <2>5. RiskiestFirst'
    BY <2>1, <2>2, <2>3 DEF RiskInv, RiskiestFirst
  <2> QED
    BY <1>0, <2>4, <2>5 DEF RiskInv
<1>4. CASE MarkFinishing \/ EndWave \/ Draft \/ Publish \/ Resume
  <2>1. UNCHANGED <<shape, marks, challenged>> /\ left' \in {left, {}}
    BY <1>4 DEF MarkFinishing, EndWave, Draft, Publish, Resume, files, history, wave
  <2> QED
    BY <1>0, <2>1, QuietKeepsRisk DEF RiskInv
<1>5. CASE Kill \/ LadderFails \/ Refused \/ Reject \/ Seal
  <2>1. UNCHANGED <<shape, marks, challenged>> /\ left' = {}
    BY <1>5 DEF Kill, LadderFails, Refused, Reject, Seal, Idle, files
  <2> QED
    BY <1>0, <2>1, QuietKeepsRisk DEF RiskInv
<1>6. CASE UNCHANGED vars
  <2>1. UNCHANGED <<shape, marks, challenged, left>>
    BY <1>6 DEF vars, files, wave, history
  <2> QED
    BY <1>0, <2>1, QuietKeepsRisk DEF RiskInv
<1> QED
  BY <1>1, <1>2, <1>3, <1>4, <1>5, <1>6, Steps

(* Wherever the budget, the cap, a failure or a crash cut the waves of a   *)
(* run short, no finding was challenged before a riskier one: for any      *)
(* number of findings, any cap and any number of resumes.                  *)
THEOREM RiskiestComeFirst == Spec => []RiskiestFirst
<1>1. Init => RiskInv
  BY InitMarksInv DEF Init, RiskInv, WaveClosed, RiskiestFirst
<1> QED
  BY <1>1, NextRiskInv, PTL DEF Spec, RiskInv

-----------------------------------------------------------------------------
(* The drafts.                                                             *)

(* What the rungs of the rounds before this one, and of this one, allow.   *)
LEMMA Ladder ==
  ASSUME NEW a \in Nat, NEW r \in {3, 4}, NEW n \in 1..(a + 1), NEW k \in 1..r,
         NEW d \in Nat, d + 1 <= (n - 1) * r + k
  PROVE  d + 1 <= n * r /\ d + 1 <= (a + 1) * r
<1>1. CASE r = 3
  BY <1>1
<1>2. CASE r = 4
  BY <1>2
<1> QED
  BY <1>1, <1>2

(* The samples paid for are those of the rounds that are over and of the   *)
(* rungs below this one, at least one for each round.                      *)
DraftAccount ==
  /\ pc \in {"down", "drive", "wave", "challenge", "mark"} =>
       round = 1 /\ rung = 1 /\ drafts = 0 /\ body = "none"
  /\ pc = "draft" =>
       /\ body = "none" /\ drafts >= round - 1
       /\ drafts + 1 <= (round - 1) * Rungs + rung

DraftInv == TypeOK /\ DraftAccount /\ DraftsBounded

(* A sample either ends the loops within their bound or moves them on. *)
LEMMA DraftKeepsAccount ==
  ASSUME DraftInv, Draft
  PROVE  DraftAccount' /\ DraftsBounded'
<1>1. /\ Attempts \in Nat \ {0} /\ Rungs \in {3, 4} /\ Rungs' = Rungs
      /\ round \in 1..(Attempts + 1) /\ rung \in 1..Rungs /\ drafts \in Nat
      /\ drafts >= round - 1 /\ drafts + 1 <= (round - 1) * Rungs + rung
      /\ body = "none" /\ pc = "draft" /\ drafts' = drafts + 1
  BY FinishAssumption, RungsType, DraftMoves
  DEF DraftInv, DraftAccount, TypeOK, Draft, Rungs
<1>2. drafts' <= round * Rungs /\ drafts' <= (Attempts + 1) * Rungs
  BY <1>1, Ladder
<1>3. PICK s \in Sample :
        IF s \in {"uncited", "drift"} THEN Defective ELSE Cited(s)
  BY DEF Draft
<1>4. ASSUME NEW b \in {"clean", "neutralized", "honest"}, Body(b),
             b = "honest" => round > Attempts,
             b = "neutralized" => round >= Attempts
      PROVE  DraftAccount' /\ DraftsBounded'
  BY <1>1, <1>2, <1>4 DEF Body, DraftAccount, DraftsBounded
<1>5. ASSUME NextRound
      PROVE  DraftAccount' /\ DraftsBounded'
  <2>1. /\ round' = round + 1 /\ rung' = 1 /\ pc' = "draft" /\ body' = "none"
    BY <1>1, <1>5 DEF NextRound
  <2>2. (round' - 1) * Rungs = round * Rungs
    BY <1>1, <2>1
  <2> QED
    BY <1>1, <1>2, <2>1, <2>2 DEF DraftAccount, DraftsBounded
<1>6. CASE Defective
  <2>1. CASE rung < Rungs
    BY <1>1, <1>2, <1>6, <2>1 DEF Defective, DraftAccount, DraftsBounded
  <2>2. CASE ~(rung < Rungs)
    BY <1>4, <1>6, <2>2 DEF Defective
  <2> QED
    BY <2>1, <2>2
<1>7. CASE Cited(s)
  <2>1. CASE NextRound
    BY <1>5, <2>1
  <2>2. CASE Body("clean")
    BY <1>4, <2>2
  <2>3. CASE Body("neutralized") /\ ~(round < Attempts)
    BY <1>1, <1>4, <2>3
  <2>4. CASE Body("honest") /\ ~(round < Attempts) /\ round # Attempts
    BY <1>1, <1>4, <2>4
  <2> QED
    BY <1>7, <2>1, <2>2, <2>3, <2>4 DEF Cited
<1> QED
  BY <1>3, <1>6, <1>7

(* Every step keeps the account. *)
LEMMA NextDraftInv == DraftInv /\ [Next]_vars => DraftInv'
<1> SUFFICES ASSUME DraftInv, [Next]_vars PROVE DraftInv'
  OBVIOUS
<1>0. TypeOK' /\ Attempts \in Nat /\ Rungs \in {3, 4} /\ Rungs' = Rungs
  BY NextTypeOK, FinishAssumption, RungsType DEF DraftInv, Rungs
<1>1. 0 <= (Attempts + 1) * Rungs
  BY <1>0, Ladder
<1>2. ASSUME round' = 1, rung' = 1, drafts' = 0, body' \in {"none", "empty"},
             pc' = "publish" \/ body' = "none"
      PROVE  DraftInv'
  BY <1>0, <1>1, <1>2 DEF DraftInv, DraftAccount, DraftsBounded
<1>3. CASE Draft
  BY <1>0, <1>3, DraftKeepsAccount DEF DraftInv
<1>4. CASE MarkFinishing \/ StartWave \/ (\E f \in Findings : Challenge(f)) \/ WriteMark
           \/ EndWave \/ Resume
  <2>1. /\ pc \in {"down", "drive", "wave", "challenge", "mark"}
        /\ UNCHANGED <<round, rung, drafts>>
        /\ body' = body \/ (pc' = "publish" /\ body' = "empty")
    <3>1. CASE \E f \in Findings : Challenge(f)
      BY <3>1 DEF Challenge, drafting
    <3>2. CASE MarkFinishing \/ StartWave \/ WriteMark \/ Resume
      BY <3>2 DEF MarkFinishing, StartWave, WriteMark, Resume, drafting, history
    <3>3. CASE EndWave
      BY <3>3 DEF EndWave, history
    <3> QED
      BY <1>4, <3>1, <3>2, <3>3
  <2> QED
    BY <1>2, <2>1 DEF DraftInv, DraftAccount
<1>5. CASE Publish
  BY <1>0, <1>5 DEF Publish, DraftInv, DraftAccount, DraftsBounded, drafting, history
<1>6. CASE Kill \/ LadderFails \/ Refused \/ Reject \/ Seal
  <2>1. round' = 1 /\ rung' = 1 /\ drafts' = 0 /\ body' = "none"
    BY <1>6 DEF Kill, LadderFails, Refused, Reject, Seal, Idle
  <2> QED
    BY <1>2, <2>1
<1>7. CASE UNCHANGED vars
  BY <1>0, <1>7 DEF vars, drafting, history, DraftInv, DraftAccount, DraftsBounded
<1> QED
  BY <1>3, <1>4, <1>5, <1>6, <1>7, Steps

(* The loops around the synthesizer spend at most (Attempts + 1) * Rungs   *)
(* samples in a process, and give up claims only after every correction,   *)
(* whatever the samples are and for any number of attempts.                *)
THEOREM DraftsAreBounded == Spec => []DraftsBounded
<1>1. Init => DraftInv
  <2> SUFFICES ASSUME Init PROVE DraftInv
    OBVIOUS
  <2>1. 0 <= (Attempts + 1) * Rungs
    BY FinishAssumption, RungsType, Ladder
  <2> QED
    BY <2>1, InitTypeOK DEF Init, DraftInv, DraftAccount, DraftsBounded
<1> QED
  BY <1>1, NextDraftInv, PTL DEF Spec, DraftInv
=============================================================================
