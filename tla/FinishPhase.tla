------------------------------ MODULE FinishPhase ------------------------------
(***************************************************************************)
(* The end of a run, step by step: driver._finish records the reason, the  *)
(* verification wave (driver._verify_phase and verifier.py) tries to       *)
(* refute the load-bearing findings, synthesizer.py drafts the report and  *)
(* checks its citations, and run.json is sealed.  ResearchRun takes all    *)
(* that for three steps; this module opens them up.                        *)
(*                                                                         *)
(* The process may die between any two steps, or end with the error of a   *)
(* session; the resumed run enters _finish again, over the marks that the  *)
(* last one left on the findings.  Citations are abstracted to whether     *)
(* sources.json has the cited id ("known") or not ("invented").            *)
(***************************************************************************)
EXTENDS Naturals, FiniteSets

CONSTANTS
  NumFindings,    \* findings of the run, numbered in the order of their slugs
  Shapes,         \* bound: what those findings may look like
  Pages,          \* pages a search can return
  VerifyEnabled,  \* settings.verification.enabled, on the sdk backend
  MinConfidence,  \* settings.verification.min_confidence
  MinSources,     \* settings.verification.skip_corroborated_min_sources
  RiskFirst,      \* settings.verification.risk_first
  MaxFindings,    \* settings.verification.max_findings
  MaxReads,       \* pages read to challenge one finding
  Attempts,       \* min(settings.retry.attempts, 3)
  HasFallback,    \* does the synthesizer's endpoint name a fallback?
  MaxStops        \* bound: kills and failed sessions that end the process

Findings == 1..NumFindings

Shape == [track: {"factual", "community"}, sources: SUBSET Pages, confidence: Nat]

ASSUME FinishAssumption ==
  /\ NumFindings \in Nat
  /\ IsFiniteSet(Pages)
  /\ Shapes \subseteq [Findings -> Shape]
  /\ {VerifyEnabled, RiskFirst, HasFallback} \subseteq BOOLEAN
  /\ {MinConfidence, MinSources, MaxFindings, MaxReads, MaxStops} \subseteq Nat
  /\ Attempts \in Nat \ {0}

VARIABLES
  (* files of the run *)
  shape,       \* meta of each finding: track, source_ids, confidence
  marks,       \* verification_status of each finding
  notes,       \* does its verification_note cite an unknown id?
  phase,       \* run.json: "running", "finishing", "finished"
  report,      \* REPORT.md, or NoReport
  over,        \* has the ledger reached max_budget_usd?
  (* the process *)
  pc,
  left,        \* candidates of the wave not yet challenged
  trial,       \* what the challenge that just ended says
  round,       \* which draft of _synthesize_factual; Attempts + 1 is the extra one
  rung,        \* which sample of _spawn_report
  body,        \* the factual body of the report
  (* bookkeeping of the model, read by no action *)
  evidence,    \* pages that the mark of each finding rests on
  challenged,  \* findings that were challenged
  drafts,      \* samples this process has paid for
  stops

files == <<shape, marks, notes, phase, report, over>>
wave == <<left, trial>>
drafting == <<round, rung, body>>
history == <<evidence, challenged, drafts, stops>>
vars == <<files, pc, wave, drafting, history>>

NoReport == [kind |-> "none", cites |-> {}, refuted |-> {}]
NoTrial == [finding |-> 0, mark |-> "unverified", note |-> "sound", read |-> {}]

Marks == {"unverified", "verified", "refuted"}
Notes == {"sound", "invents"}
Bodies == {"none", "empty", "clean", "neutralized", "honest"}

Report == [kind: Bodies, cites: SUBSET {"known", "invented"},
           refuted: SUBSET Findings]
Trial == [finding: 0..NumFindings, mark: Marks, note: Notes, read: SUBSET Pages]

Init ==
  /\ shape \in Shapes
  /\ marks = [f \in Findings |-> "unverified"]
  /\ notes = [f \in Findings |-> "sound"]
  /\ phase = "running" /\ report = NoReport /\ over \in BOOLEAN
  /\ pc = "drive"
  /\ left = {} /\ trial = NoTrial
  /\ round = 1 /\ rung = 1 /\ body = "none"
  /\ evidence = [f \in Findings |-> {}]
  /\ challenged = {} /\ drafts = 0 /\ stops = 0

-----------------------------------------------------------------------------
(* The process.                                                            *)

(* A session costs money: it may reach the limit. *)
Spend == over' \in {over, TRUE}

(* What dies with the process. *)
Idle ==
  /\ pc' = "down"
  /\ left' = {} /\ trial' = NoTrial
  /\ round' = 1 /\ rung' = 1 /\ body' = "none"
  /\ drafts' = 0

Kill ==
  /\ pc # "down" /\ stops < MaxStops
  /\ stops' = stops + 1
  /\ Idle
  /\ UNCHANGED <<files, evidence, challenged>>

(* Mutant: a run whose reason is recorded is refused like a finished one.  *)
ResumeUnlessEnding ==
  /\ pc = "down" /\ phase = "running"
  /\ pc' = "drive"
  /\ over' \in {over, FALSE}
  /\ UNCHANGED <<shape, marks, notes, phase, report, wave, drafting, history>>

(* --resume, perhaps with a larger budget; _drive goes back to _finish.    *)
Resume ==
  /\ pc = "down" /\ phase # "finished"
  /\ pc' = "drive"
  /\ over' \in {over, FALSE}
  /\ UNCHANGED <<shape, marks, notes, phase, report, wave, drafting, history>>

(* _finish records the reason first. *)
MarkFinishing ==
  /\ pc = "drive"
  /\ phase' = "finishing"
  /\ pc' = "wave"
  /\ UNCHANGED <<shape, marks, notes, report, over, wave, drafting, history>>

-----------------------------------------------------------------------------
(* The verification wave.                                                  *)

Count(f) == Cardinality(shape[f].sources)

(* Mutant: every finding of the factual track is challenged again.         *)
EligibleAgain(f) ==
  /\ shape[f].track = "factual"
  /\ shape[f].confidence >= MinConfidence
  /\ MinSources = 0 \/ Count(f) < MinSources

(* What the wave challenges: factual, load-bearing, not judged before, not *)
(* corroborated already.                                                   *)
Eligible(f) ==
  /\ shape[f].track = "factual"
  /\ marks[f] = "unverified"
  /\ shape[f].confidence >= MinConfidence
  /\ MinSources = 0 \/ Count(f) < MinSources

(* Mutant: the sort by confidence alone, whatever risk_first says.         *)
BeforeByConfidence(f, g) ==
  \/ shape[f].confidence > shape[g].confidence
  \/ shape[f].confidence = shape[g].confidence /\ f < g

(* f comes before g: fewer sources first, then higher confidence, then the *)
(* order of load_findings, which both sorts keep among equals.             *)
Before(f, g) ==
  IF RiskFirst /\ Count(f) # Count(g)
    THEN Count(f) < Count(g)
  ELSE IF shape[f].confidence # shape[g].confidence
    THEN shape[f].confidence > shape[g].confidence
  ELSE f < g

Candidates ==
  LET eligible == {f \in Findings : Eligible(f)} IN
  {f \in eligible : Cardinality({g \in eligible : Before(g, f)}) < MaxFindings}

StartWave ==
  /\ pc = "wave"
  /\ left' = IF VerifyEnabled THEN Candidates ELSE {}
  /\ pc' = "challenge"
  /\ UNCHANGED <<files, trial, drafting, history>>

(* Mutant: the pages of the finding itself are read against it.            *)
ChallengersAny(f) == {P \in SUBSET Pages : Cardinality(P) <= MaxReads}

(* What may be read against f: select_urls leaves out its own sources.     *)
Challengers(f) ==
  {P \in SUBSET (Pages \ shape[f].sources) : Cardinality(P) <= MaxReads}

(* verify_finding that reaches a verdict over the pages it could read.     *)
Judged(f) ==
  \E P \in Challengers(f) \ {{}}, m \in {"verified", "refuted"}, n \in Notes :
    trial' = [finding |-> f, mark |-> m, note |-> n, read |-> P]

(* No query, no page, no verdict, or an uncertain one.                     *)
Inconclusive(f) ==
  trial' = [finding |-> f, mark |-> "unverified", note |-> "sound", read |-> {}]

(* The next candidate, while the budget lasts.  An exception of the        *)
(* verifier leaves the finding as it is and goes on with the next.         *)
Challenge(f) ==
  /\ pc = "challenge" /\ ~over
  /\ f \in left /\ \A g \in left : ~Before(g, f)
  /\ left' = left \ {f}
  /\ challenged' = challenged \cup {f}
  /\ Spend
  /\ \/ (Judged(f) \/ Inconclusive(f)) /\ pc' = "mark"
     \/ UNCHANGED <<trial, pc>>
  /\ UNCHANGED <<shape, marks, notes, phase, report, drafting, evidence, drafts, stops>>

(* write_finding *)
WriteMark ==
  /\ pc = "mark"
  /\ marks' = [marks EXCEPT ![trial.finding] = trial.mark]
  /\ notes' = [notes EXCEPT ![trial.finding] = trial.note]
  /\ evidence' = [evidence EXCEPT ![trial.finding] = trial.read]
  /\ trial' = NoTrial
  /\ pc' = "challenge"
  /\ UNCHANGED <<shape, phase, report, over, left, drafting, challenged, drafts, stops>>

Factual == {f \in Findings : shape[f].track = "factual"}

(* Mutant: a report that is there already is not drafted again.            *)
EndWaveReusing ==
  /\ pc = "challenge"
  /\ left = {} \/ over
  /\ left' = {}
  /\ IF report # NoReport
       THEN UNCHANGED body /\ pc' = "seal"
     ELSE IF Factual = {}
       THEN body' = "empty" /\ pc' = "publish"
       ELSE UNCHANGED body /\ pc' = "draft"
  /\ UNCHANGED <<files, trial, round, rung, history>>

(* Without a factual finding no session is spent on the report.            *)
EndWave ==
  /\ pc = "challenge"
  /\ left = {} \/ over
  /\ left' = {}
  /\ IF Factual = {}
       THEN body' = "empty" /\ pc' = "publish"
       ELSE UNCHANGED body /\ pc' = "draft"
  /\ UNCHANGED <<files, trial, round, rung, history>>

-----------------------------------------------------------------------------
(* The report.                                                             *)

(* The primary endpoint three times, then the fallback once. *)
Rungs == 3 + (IF HasFallback THEN 1 ELSE 0)

(* One sample of the session: a report that cites registered sources only, *)
(* some, or none of those it cites; one without a citation; a structured   *)
(* output that does not parse.                                             *)
Sample == {"clean", "mixed", "invented", "uncited", "drift"}

Pay == Spend /\ drafts' = drafts + 1

Body(b) == pc' = "publish" /\ body' = b /\ UNCHANGED <<round, rung>>

(* A further _spawn_report, with the correction appended to its prompt.    *)
NextRound == round' = round + 1 /\ rung' = 1 /\ UNCHANGED <<pc, body>>

(* _spawn_report: a defective output is sampled again.  When the ladder is *)
(* used up the error ends the run, except in the extra round.              *)
Defective ==
  IF rung < Rungs
    THEN rung' = rung + 1 /\ UNCHANGED <<pc, round, body>>
    ELSE round > Attempts /\ Body("honest")

LadderFails ==
  /\ pc = "draft" /\ rung = Rungs /\ round <= Attempts
  /\ stops < MaxStops /\ stops' = stops + 1
  /\ Spend
  /\ Idle
  /\ UNCHANGED <<shape, marks, notes, phase, report, evidence, challenged>>

(* Mutant: the extra round is forgotten. *)
CitedGivingUp(s) ==
  IF s = "clean" THEN Body("clean")
  ELSE IF round < Attempts THEN NextRound
  ELSE IF s = "mixed" THEN Body("neutralized")
  ELSE Body("honest")

(* _synthesize_factual: another round while a draft cites unknown ids,     *)
(* then those are neutralized; if nothing is left, one round more, and in  *)
(* the end a report without any claim.                                     *)
Cited(s) ==
  IF s = "clean" THEN Body("clean")
  ELSE IF round < Attempts THEN NextRound
  ELSE IF s = "mixed" THEN Body("neutralized")
  ELSE IF round = Attempts THEN NextRound
  ELSE Body("honest")

Draft ==
  /\ pc = "draft"
  /\ Pay
  /\ \E s \in Sample :
       IF s \in {"uncited", "drift"} THEN Defective ELSE Cited(s)
  /\ UNCHANGED <<shape, marks, notes, phase, report, wave, evidence, challenged, stops>>

(* The endpoint fails for good: the error ends the process.                *)
Refused ==
  /\ pc = "draft"
  /\ stops < MaxStops /\ stops' = stops + 1
  /\ Spend
  /\ Idle
  /\ UNCHANGED <<shape, marks, notes, phase, report, evidence, challenged>>

Refuted == {f \in Factual : marks[f] = "refuted"}

(* What the report cites: the body, and the notes of the verification      *)
(* section, which is written by no model that saw the registry.            *)
Citations ==
  (IF body \in {"clean", "neutralized"} THEN {"known"} ELSE {})
  \cup (IF \E f \in Refuted : notes[f] = "invents" THEN {"invented"} ELSE {})

(* synthesizer.run writes REPORT.md if it cites registered sources only.   *)
Publish ==
  /\ pc = "publish" /\ "invented" \notin Citations
  /\ report' = [kind |-> body, cites |-> Citations, refuted |-> Refuted]
  /\ pc' = "seal"
  /\ UNCHANGED <<shape, marks, notes, phase, over, wave, drafting, history>>

(* Mutant: a report that was refused does not keep the run open. *)
RejectSealing ==
  /\ pc = "publish" /\ "invented" \in Citations
  /\ pc' = "seal"
  /\ UNCHANGED <<files, wave, drafting, history>>

(* The citation pass raises, and the process ends.                         *)
Reject ==
  /\ pc = "publish" /\ "invented" \in Citations
  /\ Idle
  /\ UNCHANGED <<files, evidence, challenged, stops>>

Seal ==
  /\ pc = "seal"
  /\ phase' = "finished"
  /\ Idle
  /\ UNCHANGED <<shape, marks, notes, report, over, evidence, challenged, stops>>

-----------------------------------------------------------------------------
ProcessStep ==
  \/ MarkFinishing \/ StartWave \/ (\E f \in Findings : Challenge(f))
  \/ WriteMark \/ EndWave
  \/ Draft \/ Publish \/ Reject \/ Seal

Environment == Kill \/ LadderFails \/ Refused

(* A finished run is left alone. *)
Ended == pc = "down" /\ phase = "finished" /\ UNCHANGED vars

Next == ProcessStep \/ Environment \/ Resume \/ Ended

Spec == Init /\ [][Next]_vars

(* The process goes on, and the supervisor resumes a run that is not over. *)
FairSpec == Spec /\ WF_vars(ProcessStep) /\ WF_vars(Resume)

-----------------------------------------------------------------------------
(* The files and the process are well-formed, and no counter of the report *)
(* loops leaves its range.                                                 *)
TypeOK ==
  /\ shape \in Shapes
  /\ marks \in [Findings -> Marks] /\ notes \in [Findings -> Notes]
  /\ phase \in {"running", "finishing", "finished"}
  /\ report \in Report /\ over \in BOOLEAN
  /\ pc \in {"down", "drive", "wave", "challenge", "mark", "draft", "publish", "seal"}
  /\ left \subseteq Findings /\ trial \in Trial
  /\ round \in 1..(Attempts + 1) /\ rung \in 1..Rungs /\ body \in Bodies
  /\ evidence \in [Findings -> SUBSET Pages] /\ challenged \subseteq Findings
  /\ drafts \in Nat /\ stops \in Nat

(* A verdict that was written into a finding stays, note and all, whatever *)
(* dies and is resumed: the wave of a resumed finish never tries it again. *)
MarkKept(f) ==
  marks[f] # "unverified" => marks'[f] = marks[f] /\ notes'[f] = notes[f]

MarksAreFinal == [][\A f \in Findings : MarkKept(f)]_vars

(* A finding that was marked rests its verdict on pages that were read,    *)
(* none of them its own, and belongs to the factual track.                 *)
MarksAreEarned ==
  \A f \in Findings : marks[f] # "unverified" =>
    /\ f \in Factual /\ f \in challenged
    /\ evidence[f] # {}
    /\ evidence[f] \cap shape[f].sources = {}

LoadBearing(f) ==
  /\ f \in Factual
  /\ shape[f].confidence >= MinConfidence
  /\ MinSources = 0 \/ Count(f) < MinSources

(* "so the fixed budget refutes where it has the most leverage": wherever  *)
(* the budget, the cap or a crash cut the waves short, no finding was      *)
(* challenged before one that rests on fewer sources, or on as many with   *)
(* more confidence.                                                        *)
RiskiestFirst ==
  RiskFirst =>
    \A f \in challenged, g \in Findings :
      /\ LoadBearing(g)
      /\ \/ Count(g) < Count(f)
         \/ Count(g) = Count(f) /\ shape[g].confidence > shape[f].confidence
      => g \in challenged

(* A finished run has a report that cites no source outside sources.json   *)
(* and lists every finding that was refuted, also the ones refuted after   *)
(* an earlier process had already written a report.                        *)
ReportIsCurrent ==
  phase = "finished" =>
    /\ report.kind # "none"
    /\ "invented" \notin report.cites
    /\ report.refuted = Refuted

(* However the samples turn out, the loops around the synthesizer end, and *)
(* they do not give up on the claims before every correction was tried.    *)
DraftsBounded ==
  /\ drafts <= (Attempts + 1) * Rungs
  /\ body = "honest" => drafts > Attempts
  /\ body = "neutralized" => drafts >= Attempts

Lifecycle == INSTANCE RunLifecycle WITH
  FinishReasons <- {"ended"}, NoReason <- "none",
  reason <- IF phase = "running" THEN "none" ELSE "ended",
  report <- IF report.kind = "none" THEN "none" ELSE "ended"

(* The finish, with its wave, its ladder and every crash in them, does     *)
(* what RunLifecycle promises: no report before the reason is recorded,    *)
(* and no finished run without a report.                                   *)
ImplementsLifecycle == Lifecycle!LifecycleSpec

(* A refuted finding whose note cites a source that does not exist. *)
Poisoned == \E f \in Refuted : notes[f] = "invents"

(* Once the endpoints answer, the run gets its report, unless the citation *)
(* pass refuses the verification section for good.                         *)
ReportedUnlessPoisoned == <>(phase = "finished" \/ Poisoned)

(* "The final step must never crash a completed run ... a finished run     *)
(* must yield a report": the resumes of a run come to an end.              *)
EventuallyReported == <>(phase = "finished")
=============================================================================
