-------------------------- MODULE ResearchRun_proofs --------------------------
(***************************************************************************)
(* Theorems about ResearchRun, for every value of its constants.           *)
(***************************************************************************)
EXTENDS ResearchRun, QuestionQueue_proofs

-----------------------------------------------------------------------------
(* Types.                                                                  *)

(* Questions are in hand only while the worker session runs, and a finding *)
(* that is written while its answer is not saved is on disk.               *)
InHand ==
  /\ pc # "work" => targets = {} /\ answering = 0
  /\ answering # 0 => answering \in findings

(* Nothing is investigated before PLAN.md exists: PlanQuestions may then   *)
(* replace the whole list.                                                 *)
PlanFirst ==
  /\ pc \in {"plan", "plan_md"} => ~planned
  /\ ~planned =>
       /\ findings = {}
       /\ pc \in {"down", "drive", "plan", "plan_md", "finish", "synthesize", "seal"}

TypeInv == TypeOK /\ InHand /\ PlanFirst

(* The edits of run.json keep its type.                                    *)
LEMMA EditedMeta ==
  ASSUME NEW m \in Meta, NEW c \in Nat, NEW n \in Nat,
         NEW r \in FinishReasons \cup {NoReason}
  PROVE  /\ [m EXCEPT !.last_cycle = c, !.stall_count = n] \in Meta
         /\ [m EXCEPT !.final_eval_count = n] \in Meta
         /\ [m EXCEPT !.read_outage_streak = n] \in Meta
         /\ [m EXCEPT !.wave = "depth"] \in Meta
         /\ [m EXCEPT !.finish_reason = r] \in Meta
         /\ [m EXCEPT !.status = "finished"] \in Meta
         /\ [m EXCEPT !.status = "running", !.finish_reason = NoReason] \in Meta
         /\ m.stall_count \in Nat /\ m.stall_count + 1 \in Nat
         /\ m.final_eval_count + 1 \in Nat
         /\ m.read_outage_streak + 1 \in Nat
         /\ m.last_cycle + 1 \in Nat
         /\ m.finish_reason \in FinishReasons \cup {NoReason}
<1>1. [m EXCEPT !.last_cycle = c, !.stall_count = n] \in Meta
  BY ZenonT(30) DEF Meta
<1>2. /\ [m EXCEPT !.final_eval_count = n] \in Meta
      /\ [m EXCEPT !.read_outage_streak = n] \in Meta
      /\ [m EXCEPT !.wave = "depth"] \in Meta
  BY DEF Meta
<1>3. /\ [m EXCEPT !.finish_reason = r] \in Meta
      /\ [m EXCEPT !.status = "finished"] \in Meta
  BY DEF Meta
<1>4. [m EXCEPT !.status = "running", !.finish_reason = NoReason] \in Meta
  BY ZenonT(30) DEF Meta
<1>5. /\ m.stall_count \in Nat /\ m.stall_count + 1 \in Nat
      /\ m.final_eval_count + 1 \in Nat
      /\ m.read_outage_streak + 1 \in Nat
      /\ m.last_cycle + 1 \in Nat
      /\ m.finish_reason \in FinishReasons \cup {NoReason}
  BY DEF Meta
<1> QED
  BY <1>1, <1>2, <1>3, <1>4, <1>5

(* Runspace.complete_cycle keeps the type of run.json.                     *)
LEMMA CompletedMeta ==
  ASSUME meta \in Meta, cycle \in Nat, NEW stalled \in BOOLEAN
  PROVE  CompleteCycle(stalled) \in Meta
<1>1. (IF stalled THEN meta.stall_count + 1 ELSE 0) \in Nat
  BY DEF Meta
<1> QED
  BY <1>1, EditedMeta DEF CompleteCycle

(* _tripped_breaker answers with a reason that run.json knows, or with     *)
(* none.                                                                   *)
LEMMA BreakerType ==
  ASSUME NEW c
  PROVE  TrippedBreaker(c) \in {"budget", "time", "max_cycles", NoReason}
BY DEF TrippedBreaker

(* A run just created by Runspace.create is well-formed.                   *)
LEMMA InitTypeInv == Init => TypeInv
<1> SUFFICES ASSUME Init PROVE TypeInv
  OBVIOUS
<1>1. meta \in Meta
  BY DEF Init, Meta, NoReason
<1>2. questions \in Seq(Question)
  BY DEF Init
<1>3. TypeOK
  <2>1. planned \in BOOLEAN /\ outcome \in BOOLEAN
    BY Zenon DEF Init
  <2>2. /\ findings \subseteq DOMAIN questions
        /\ targets \subseteq DOMAIN questions
        /\ verdicts \subseteq Verdict
        /\ exceeded \subseteq Limits
    BY DEF Init
  <2>3. pc \in Places
    BY DEF Init, Places
  <2>4. /\ report \in FinishReasons \cup {NoReason}
        /\ cycle \in Nat
        /\ reads \in {"neutral", "read", "outage"}
        /\ answering \in targets \cup {0}
        /\ why \in FinishReasons \cup {NoReason}
        /\ {gates, stops, reopens} \subseteq Nat
    BY DEF Init
  <2> QED
    BY <1>1, <1>2, <2>1, <2>2, <2>3, <2>4 DEF TypeOK
<1>4. InHand /\ PlanFirst
  BY DEF Init, InHand, PlanFirst
<1> QED
  BY <1>3, <1>4 DEF TypeInv

(* Every step, of the driver or of whoever stops and resumes it, keeps the *)
(* types.                                                                  *)
LEMMA NextTypeInv == TypeInv /\ [Next]_vars => TypeInv'
<1> SUFFICES ASSUME TypeInv, [Next]_vars PROVE TypeInv'
  OBVIOUS
<1> USE DEF TypeInv, TypeOK, InHand, PlanFirst, Places
<1>1. CASE Stop
  <2>1. outcome' \in BOOLEAN
    BY <1>1, Zenon DEF Stop, Idle
  <2> QED
    BY <1>1, <2>1 DEF Stop, Idle, files
<1>2. CASE Resume
  BY <1>2 DEF Resume, counts
<1>3. CASE ForceResume
  <2>1. meta' \in Meta
    BY <1>3, EditedMeta DEF ForceResume
  <2> QED
    BY <1>3, <2>1 DEF ForceResume
<1>4. CASE Drive
  <2>1. meta.finish_reason \in FinishReasons \cup {NoReason} /\ meta.last_cycle + 1 \in Nat
    BY EditedMeta
  <2>2. TrippedBreaker(1) \in FinishReasons \cup {NoReason}
    BY BreakerType DEF FinishReasons
  <2> QED
    BY <1>4, <2>1, <2>2 DEF Drive, FinishWith, files, counts
<1>5. CASE PlanQuestions
  <2>1. PICK n \in 1..MaxSeeds : questions' = FreshOnes("initializer", n)
    BY <1>5 DEF PlanQuestions
  <2>2. questions' \in Seq(Question)
    BY <2>1, FreshOnesType, RunAssumption DEF Author
  <2> QED
    BY <1>5, <2>2 DEF PlanQuestions, SpendSession, counts
<1>6. CASE WritePlan
  BY <1>6, EditedMeta DEF WritePlan, counts
<1>7. CASE Top
  BY <1>7, BreakerType DEF Top, FinishWith, files, counts, FinishReasons
<1>8. CASE Pick
  BY <1>8, ClaimLemma DEF Pick, Picks, Unresolved, counts
<1>9. CASE \E t \in targets : WriteFinding(t)
  <2>1. PICK t \in targets : WriteFinding(t)
    BY <1>9
  <2> QED
    BY <2>1 DEF WriteFinding, Observed, counts
<1>10. CASE \E t \in targets : SaveAnswer(t)
  <2>1. PICK t \in targets : SaveAnswer(t)
    BY <1>10
  <2>2. /\ questions' \in Seq(Question)
        /\ DOMAIN questions' = DOMAIN questions
    BY <2>1, AnswerLemma DEF SaveAnswer
  <2> QED
    BY <2>1, <2>2 DEF SaveAnswer, counts
<1>11. CASE \E t \in targets : Fragment(t)
  <2>1. PICK t \in targets : Fragment(t)
    BY <1>11
  <2>2. PICK n \in 0..MaxNew : questions' = Decompose(questions, t, n)
    BY <2>1 DEF Fragment
  <2>3. /\ questions' \in Seq(Question)
        /\ DOMAIN questions \subseteq DOMAIN questions'
    <3>1. n \in Nat /\ t \in DOMAIN questions
      BY <2>2, RunAssumption
    <3> QED
      BY <2>2, <3>1, DecomposeLemma DEF GrewIdly
  <2> QED
    BY <2>1, <2>3 DEF Fragment, Observed, counts
<1>12. CASE \E t \in targets : GiveUp(t)
  <2>1. PICK t \in targets : GiveUp(t)
    BY <1>12
  <2>2. PICK hard \in BOOLEAN : questions' = Block(questions, t, hard)
    BY <2>1 DEF GiveUp
  <2>3. /\ questions' \in Seq(Question)
        /\ DOMAIN questions \subseteq DOMAIN questions'
    BY <2>2, BlockLemma DEF GrewIdly
  <2>4. reads' \in {"neutral", "read", "outage"}
    BY <2>1 DEF GiveUp, Observed
  <2> QED
    BY <2>1, <2>3, <2>4 DEF GiveUp, counts
<1>13. CASE \E t \in targets : Fail(t)
  BY <1>13 DEF Fail, files, counts
<1>14. CASE EndWork
  <2>1. meta' \in Meta
    BY <1>14, EditedMeta DEF EndWork
  <2> QED
    BY <1>14, <2>1 DEF EndWork, SpendSession, counts
<1>15. CASE AfterWork
  <2>1. meta' \in Meta
    BY <1>15, CompletedMeta DEF AfterWork
  <2> QED
    BY <1>15, <2>1, BreakerType DEF AfterWork, FinishWith, counts, FinishReasons
<1>16. ASSUME ApplyJudgment
       PROVE  /\ questions' \in Seq(Question)
              /\ DOMAIN questions \subseteq DOMAIN questions'
              /\ outcome' \in BOOLEAN
              /\ exceeded' \subseteq Limits
  <2>1. PICK closes \in SUBSET Unresolved(questions), n \in 0..MaxNew :
          questions' = Judge(questions, closes, n)
    BY <1>16 DEF ApplyJudgment
  <2>2. outcome' \in BOOLEAN
    BY <1>16, Zenon DEF ApplyJudgment, NoOpenQuestions
  <2> QED
    BY <1>16, <2>1, <2>2, JudgeLemma, RunAssumption
    DEF ApplyJudgment, SpendSession, GrewIdly
<1>17. CASE Evaluate
  BY <1>16, <1>17 DEF Evaluate, counts
<1>18. ASSUME NEW final \in BOOLEAN, WriteVerdict(cycle, final, outcome)
       PROVE  verdicts' \subseteq Verdict
  BY <1>18 DEF WriteVerdict, Verdict
<1>19. CASE RecordVerdict
  BY <1>18, <1>19 DEF RecordVerdict, counts
<1>20. CASE ReadVerdict
  <2>1. /\ CompleteCycle(FALSE) \in Meta
        /\ CompleteCycle(StateHash = before) \in Meta
    BY CompletedMeta
  <2>2. CASE CloseCycle
    BY <1>20, <2>1, <2>2
    DEF ReadVerdict, CloseCycle, FinishWith, NextCycle, counts, FinishReasons
  <2>3. CASE AcceptPass
    BY <1>20, <2>1, <2>3, BreakerType
    DEF ReadVerdict, AcceptPass, Conclude, FinishWith, counts, FinishReasons
  <2>4. CASE Exhaust
    BY <1>20, <2>1, <2>4 DEF ReadVerdict, Exhaust, FinishWith, counts, FinishReasons
  <2> QED
    BY <1>20, <2>2, <2>3, <2>4 DEF ReadVerdict
<1>21. CASE FinalEvaluate
  BY <1>16, <1>21 DEF FinalEvaluate
<1>22. CASE RecordFinalVerdict
  BY <1>18, <1>22 DEF RecordFinalVerdict, counts
<1>23. CASE BumpFinalEval
  <2>1. meta' \in Meta
    BY <1>23, EditedMeta DEF BumpFinalEval
  <2> QED
    BY <1>23, <2>1 DEF BumpFinalEval, counts
<1>24. CASE ReadFinalVerdict
  <2>1. CompleteCycle(FALSE) \in Meta
    BY CompletedMeta
  <2>2. CASE meta' = CompleteCycle(FALSE) /\ NextCycle /\ UNCHANGED why
    <3>1. /\ pc = "gate_judge" /\ pc' = "top" /\ cycle' = cycle + 1
          /\ meta' \in Meta /\ UNCHANGED why
      BY <1>24, <2>1, <2>2 DEF ReadFinalVerdict, NextCycle
    <3>2. UNCHANGED <<planned, questions, findings, verdicts, report, exceeded,
                      targets, reads, answering, outcome, counts>>
      BY <1>24 DEF ReadFinalVerdict
    <3> QED
      BY <3>1, <3>2 DEF counts
  <2>3. CASE Conclude
    BY <1>24, <2>1, <2>3 DEF ReadFinalVerdict, Conclude, counts
  <2>4. CASE Exhaust
    BY <1>24, <2>1, <2>4
    DEF ReadFinalVerdict, Exhaust, FinishWith, counts, FinishReasons
  <2> QED
    BY <1>24, <2>2, <2>3, <2>4 DEF ReadFinalVerdict
<1>25. CASE AdvanceToDepth
  <2>1. /\ questions' \in Seq(Question)
        /\ DOMAIN questions \subseteq DOMAIN questions'
    <3>1. CASE UNCHANGED questions
      BY <3>1
    <3>2. CASE \E ps \in DepthParents : questions' = Deepen(questions, ps)
      <4>1. PICK ps \in DepthParents : questions' = Deepen(questions, ps)
        BY <3>2
      <4>2. PICK n \in 1..DepthFindings : ps \in [1..n -> findings]
        BY DEF DepthParents
      <4>3. n \in Nat /\ ps \in [1..n -> DOMAIN questions]
        BY <4>2, RunAssumption
      <4> QED
        BY <4>1, <4>3, DeepenLemma DEF GrewIdly
    <3> QED
      BY <1>25, <3>1, <3>2 DEF AdvanceToDepth
  <2> QED
    BY <1>25, <2>1 DEF AdvanceToDepth, FinishWith, counts, FinishReasons
<1>26. CASE SetWave
  <2>1. meta' \in Meta
    BY <1>26, EditedMeta DEF SetWave
  <2> QED
    BY <1>26, <2>1 DEF SetWave, NextCycle, counts
<1>27. CASE MarkFinishing
  <2>1. meta' \in Meta
    BY <1>27, EditedMeta DEF MarkFinishing
  <2> QED
    BY <1>27, <2>1 DEF MarkFinishing, counts
<1>28. CASE Synthesize
  BY <1>28, EditedMeta DEF Synthesize, SpendSession, counts
<1>29. CASE MarkFinished
  <2>1. meta' \in Meta
    BY <1>29, EditedMeta DEF MarkFinished
  <2>2. outcome' \in BOOLEAN
    BY <1>29, Zenon DEF MarkFinished, Idle
  <2> QED
    BY <1>29, <2>1, <2>2 DEF MarkFinished, Idle, counts
<1>30. CASE UNCHANGED vars
  BY <1>30 DEF vars, files, process, counts
<1> QED
  BY <1>1, <1>2, <1>3, <1>4, <1>5, <1>6, <1>7, <1>8, <1>9, <1>10, <1>11, <1>12,
     <1>13, <1>14, <1>15, <1>17, <1>19, <1>20, <1>21, <1>22, <1>23, <1>24, <1>25,
     <1>26, <1>27, <1>28, <1>29, <1>30
  DEF Next, DriverStep, WorkStep, JudgeStep, FinishStep, Finished

(* TypeOK holds in every state of every run: each session and each write   *)
(* of the driver leaves every file well-formed and keeps the questions in  *)
(* hand, and the questions with findings, on the list.                     *)
THEOREM TypeCorrect == Spec => []TypeOK
<1>1. Spec => []TypeInv
  BY InitTypeInv, NextTypeInv, PTL DEF Spec
<1>2. TypeInv => TypeOK
  BY DEF TypeInv
<1> QED
  BY <1>1, <1>2, PTL

-----------------------------------------------------------------------------
(* The list of questions.                                                  *)

(* No question is answered or taken in hand by this step.                  *)
StaysIdle ==
  /\ InProgress(questions') \subseteq InProgress(questions)
  /\ \A i \in DOMAIN questions' :
       questions'[i].answered => i \in DOMAIN questions /\ questions[i].answered

(* A step leaves the list alone, or picks a batch, or saves the answer of a *)
(* written finding, or does neither of the two.  No step deletes a finding.*)
LEMMA QuestionEdits ==
  ASSUME TypeInv, [Next]_vars
  PROVE  /\ findings \subseteq findings'
         /\ \/ UNCHANGED questions
            \/ StaysIdle
            \/ \E T \in Picks(questions) : questions' = Claim(questions, T)
            \/ \E t \in findings : questions' = Answer(questions, t)
<1> USE DEF TypeInv, TypeOK, InHand
<1>1. CASE Stop \/ Drive \/ Top \/ \E t \in targets : Fail(t)
  BY <1>1 DEF Stop, Drive, Top, Fail, files
<1>2. CASE Resume \/ ForceResume \/ WritePlan \/ EndWork \/ AfterWork
  BY <1>2 DEF Resume, ForceResume, WritePlan, EndWork, AfterWork
<1>3. CASE \E t \in targets : WriteFinding(t)
  BY <1>3 DEF WriteFinding
<1>4. CASE \/ RecordVerdict \/ ReadVerdict \/ RecordFinalVerdict \/ BumpFinalEval
           \/ ReadFinalVerdict
  BY <1>4
  DEF RecordVerdict, ReadVerdict, RecordFinalVerdict, BumpFinalEval, ReadFinalVerdict
<1>5. CASE SetWave \/ MarkFinishing \/ Synthesize \/ MarkFinished \/ UNCHANGED vars
  BY <1>5 DEF SetWave, MarkFinishing, Synthesize, MarkFinished, vars, files
<1>6. CASE PlanQuestions
  <2>1. PICK n \in 1..MaxSeeds : questions' = FreshOnes("initializer", n)
    BY <1>6 DEF PlanQuestions
  <2>2. \A i \in DOMAIN questions' :
          questions'[i].status = "open" /\ ~questions'[i].answered
    <3>1. n \in Nat /\ "initializer" \in Author
      BY RunAssumption DEF Author
    <3> QED
      BY <2>1, <3>1, FreshOnesType
  <2> QED
    BY <1>6, <2>2 DEF PlanQuestions, StaysIdle, InProgress
<1>7. CASE Pick
  BY <1>7 DEF Pick
<1>8. CASE \E t \in targets : SaveAnswer(t)
  <2>1. PICK t \in targets : SaveAnswer(t)
    BY <1>8
  <2>2. t \in findings
    BY <2>1 DEF SaveAnswer
  <2> QED
    BY <2>1, <2>2 DEF SaveAnswer
<1>9. CASE \E t \in targets : Fragment(t)
  <2>1. PICK t \in targets : Fragment(t)
    BY <1>9
  <2>2. PICK n \in 0..MaxNew : questions' = Decompose(questions, t, n)
    BY <2>1 DEF Fragment
  <2>3. n \in Nat /\ t \in DOMAIN questions
    BY <2>2, RunAssumption
  <2>4. GrewIdly(questions, questions')
    BY <2>2, <2>3, DecomposeLemma
  <2> QED
    BY <2>1, <2>4 DEF Fragment, GrewIdly, StaysIdle
<1>10. CASE \E t \in targets : GiveUp(t)
  <2>1. PICK t \in targets : GiveUp(t)
    BY <1>10
  <2>2. PICK hard \in BOOLEAN : questions' = Block(questions, t, hard)
    BY <2>1 DEF GiveUp
  <2>3. GrewIdly(questions, questions')
    BY <2>2, BlockLemma
  <2> QED
    BY <2>1, <2>3 DEF GiveUp, GrewIdly, StaysIdle
<1>11. CASE Evaluate \/ FinalEvaluate
  <2>1. PICK closes \in SUBSET Unresolved(questions), n \in 0..MaxNew :
          questions' = Judge(questions, closes, n)
    BY <1>11 DEF Evaluate, FinalEvaluate, ApplyJudgment
  <2>2. GrewIdly(questions, questions')
    BY <2>1, JudgeLemma, RunAssumption
  <2> QED
    BY <1>11, <2>2 DEF Evaluate, FinalEvaluate, GrewIdly, StaysIdle
<1>12. CASE AdvanceToDepth
  <2>1. CASE UNCHANGED questions
    BY <1>12, <2>1 DEF AdvanceToDepth
  <2>2. CASE \E ps \in DepthParents : questions' = Deepen(questions, ps)
    <3>1. PICK ps \in DepthParents : questions' = Deepen(questions, ps)
      BY <2>2
    <3>2. PICK n \in 1..DepthFindings : ps \in [1..n -> findings]
      BY DEF DepthParents
    <3>3. n \in Nat /\ ps \in [1..n -> DOMAIN questions]
      BY <3>2, RunAssumption
    <3>4. GrewIdly(questions, questions')
      BY <3>1, <3>3, DeepenLemma
    <3> QED
      BY <1>12, <3>4 DEF AdvanceToDepth, GrewIdly, StaysIdle
  <2> QED
    BY <1>12, <2>1, <2>2 DEF AdvanceToDepth
<1> QED
  BY <1>1, <1>2, <1>3, <1>4, <1>5, <1>6, <1>7, <1>8, <1>9, <1>10, <1>11, <1>12
  DEF Next, DriverStep, WorkStep, JudgeStep, FinishStep, Finished

(* A question marked as resolved by a finding has that finding on disk, at *)
(* whatever write the process died: the finding is written first, and no   *)
(* later rewrite of the list marks another question as answered.           *)
THEOREM AnswersCorrect == Spec => []AnswersAreWritten
<1>1. Init => AnswersAreWritten
  BY DEF Init, AnswersAreWritten
<1>2. ASSUME TypeInv, AnswersAreWritten, [Next]_vars
      PROVE  AnswersAreWritten'
  <2> USE DEF AnswersAreWritten, TypeInv, TypeOK
  <2>1. findings \subseteq findings'
    BY <1>2, QuestionEdits
  <2>2. CASE UNCHANGED questions
    BY <1>2, <2>1, <2>2
  <2>3. CASE StaysIdle
    BY <1>2, <2>1, <2>3 DEF StaysIdle
  <2>4. CASE \E T \in Picks(questions) : questions' = Claim(questions, T)
    <3>1. PICK T \in Picks(questions) : questions' = Claim(questions, T)
      BY <2>4
    <3>2. T \in SUBSET DOMAIN questions
      BY DEF Picks, Unresolved
    <3> QED
      BY <1>2, <2>1, <3>1, <3>2, ClaimLemma
  <2>5. CASE \E t \in findings : questions' = Answer(questions, t)
    <3>1. PICK t \in findings : questions' = Answer(questions, t)
      BY <2>5
    <3>2. /\ DOMAIN questions' = DOMAIN questions
          /\ \A i \in DOMAIN questions \ {t} : questions'[i] = questions[i]
      BY <1>2, <3>1, AnswerLemma
    <3> QED
      BY <1>2, <2>1, <3>1, <3>2
  <2> QED
    BY <1>2, <2>2, <2>3, <2>4, <2>5, QuestionEdits
<1>3. Spec => [](TypeInv /\ AnswersAreWritten)
  BY <1>1, <1>2, InitTypeInv, NextTypeInv, PTL DEF Spec
<1> QED
  BY <1>3, PTL

(* The questions left in_progress by crashes and errors never outnumber    *)
(* one batch, whatever the number of crashes.                              *)
THEOREM OrphansCorrect == Spec => []OrphansFitOneBatch
<1>1. Init => OrphansFitOneBatch
  <2> SUFFICES ASSUME Init PROVE OrphansFitOneBatch
    OBVIOUS
  <2>1. InProgress(questions) = {}
    BY DEF Init, InProgress
  <2>2. Cardinality(InProgress(questions)) = 0
    BY <2>1, FS_EmptySet
  <2> QED
    BY <2>2, QueueAssumption DEF OrphansFitOneBatch
<1>2. ASSUME TypeInv, OrphansFitOneBatch, [Next]_vars
      PROVE  OrphansFitOneBatch'
  <2> USE DEF OrphansFitOneBatch
  <2>1. questions \in Seq(Question)
    BY <1>2 DEF TypeInv, TypeOK
  <2>2. CASE UNCHANGED questions
    BY <1>2, <2>2
  <2>3. CASE StaysIdle
    BY <1>2, <2>1, <2>3, IdleCardinality DEF StaysIdle
  <2>4. CASE \E T \in Picks(questions) : questions' = Claim(questions, T)
    BY <1>2, <2>1, <2>4, PicksLemma
  <2>5. CASE \E t \in findings : questions' = Answer(questions, t)
    <3>1. PICK t \in DOMAIN questions : questions' = Answer(questions, t)
      BY <1>2, <2>5 DEF TypeInv, TypeOK
    <3>2. InProgress(questions') \subseteq InProgress(questions)
      BY <2>1, <3>1, AnswerLemma
    <3> QED
      BY <1>2, <2>1, <3>2, IdleCardinality
  <2> QED
    BY <1>2, <2>2, <2>3, <2>4, <2>5, QuestionEdits
<1>3. Spec => [](TypeInv /\ OrphansFitOneBatch)
  BY <1>1, <1>2, InitTypeInv, NextTypeInv, PTL DEF Spec
<1> QED
  BY <1>3, PTL

-----------------------------------------------------------------------------
(* The finish, and the abstract lifecycle.                                 *)

Loop == Places \ {"down", "drive", "finish", "synthesize", "seal"}

(* What is known of run.json and the report at each place of the driver.   *)
Ending ==
  /\ pc \in Loop => meta.finish_reason = NoReason
  /\ pc = "finish" => why # NoReason /\ meta.finish_reason \in {NoReason, why}
  /\ pc = "synthesize" => meta.finish_reason # NoReason
  /\ pc = "seal" => meta.finish_reason # NoReason /\ report = meta.finish_reason
  /\ meta.status = "finished" =>
       pc = "down" /\ meta.finish_reason # NoReason /\ report = meta.finish_reason

(* A step of the loop: the run is neither re-opened nor ended by it.       *)
LoopStep ==
  \/ PlanQuestions \/ WritePlan \/ Top \/ WorkStep \/ JudgeStep
  \/ AdvanceToDepth \/ SetWave

(* Runspace.complete_cycle touches neither the status nor the reason.      *)
LEMMA CompletedFields ==
  ASSUME meta \in Meta, NEW stalled
  PROVE  /\ CompleteCycle(stalled).status = meta.status
         /\ CompleteCycle(stalled).finish_reason = meta.finish_reason
         /\ CompleteCycle(stalled).final_eval_count = meta.final_eval_count
BY DEF CompleteCycle, Meta

(* A round of the loop leaves status, reason and report alone, and leads   *)
(* nowhere but on through the loop or to a finish that has a reason.       *)
LEMMA LoopSteps ==
  ASSUME TypeInv, LoopStep
  PROVE  /\ pc \in Loop
         /\ pc' \in Loop \/ (pc' = "finish" /\ why' # NoReason)
         /\ UNCHANGED report
         /\ meta'.status = meta.status
         /\ meta'.finish_reason = meta.finish_reason
<1> USE DEF Loop, Places
<1>1. meta \in Meta
  BY DEF TypeInv, TypeOK
<1>2. CASE PlanQuestions \/ WritePlan \/ Pick
  BY <1>2 DEF PlanQuestions, WritePlan, Pick
<1>3. CASE Top
  BY <1>3 DEF Top, FinishWith, files
<1>4. CASE \E t \in targets : \/ WriteFinding(t) \/ SaveAnswer(t) \/ Fragment(t)
                              \/ GiveUp(t) \/ Fail(t)
  BY <1>4 DEF WriteFinding, SaveAnswer, Fragment, GiveUp, Fail, files
<1>5. CASE EndWork
  <2>1. /\ meta'.status = meta.status
        /\ meta'.finish_reason = meta.finish_reason
    <3>1. /\ [meta EXCEPT !.read_outage_streak = 0].status = meta.status
          /\ [meta EXCEPT !.read_outage_streak = 0].finish_reason = meta.finish_reason
          /\ [meta EXCEPT !.read_outage_streak = @ + 1].status = meta.status
          /\ [meta EXCEPT !.read_outage_streak = @ + 1].finish_reason
               = meta.finish_reason
      BY <1>1 DEF Meta
    <3>2. reads \in {"neutral", "read", "outage"}
      BY DEF TypeInv, TypeOK
    <3> QED
      BY <1>5, <3>1, <3>2 DEF EndWork
  <2> QED
    BY <1>5, <2>1 DEF EndWork
<1>6. CASE AfterWork
  BY <1>1, <1>6, CompletedFields DEF AfterWork, FinishWith, NoReason
<1>7. CASE Evaluate \/ RecordVerdict \/ FinalEvaluate \/ RecordFinalVerdict
  BY <1>7 DEF Evaluate, RecordVerdict, FinalEvaluate, RecordFinalVerdict
<1>8. CASE ReadVerdict
  <2>1. CASE CloseCycle
    BY <1>1, <1>8, <2>1, CompletedFields
    DEF ReadVerdict, CloseCycle, FinishWith, NextCycle, NoReason
  <2>2. CASE AcceptPass
    BY <1>1, <1>8, <2>2, CompletedFields
    DEF ReadVerdict, AcceptPass, Conclude, FinishWith
  <2>3. CASE Exhaust
    BY <1>1, <1>8, <2>3, CompletedFields
    DEF ReadVerdict, Exhaust, FinishWith, NoReason
  <2> QED
    BY <1>8, <2>1, <2>2, <2>3 DEF ReadVerdict
<1>9. CASE BumpFinalEval
  BY <1>1, <1>9 DEF BumpFinalEval, Meta
<1>10. CASE ReadFinalVerdict
  BY <1>1, <1>10, CompletedFields
  DEF ReadFinalVerdict, NextCycle, Conclude, Exhaust, FinishWith, NoReason
<1>11. CASE AdvanceToDepth
  BY <1>11 DEF AdvanceToDepth, FinishWith, NoReason
<1>12. CASE SetWave
  BY <1>1, <1>12 DEF SetWave, NextCycle, Meta
<1> QED
  BY <1>2, <1>3, <1>4, <1>5, <1>6, <1>7, <1>8, <1>9, <1>10, <1>11, <1>12
  DEF LoopStep, WorkStep, JudgeStep

(* Every step is one of the loop or one of these.                          *)
LEMMA Steps ==
  [Next]_vars => \/ LoopStep \/ Stop \/ Resume \/ ForceResume \/ Drive
                 \/ MarkFinishing \/ Synthesize \/ MarkFinished \/ UNCHANGED vars
BY DEF Next, DriverStep, FinishStep, Finished, LoopStep

(* Every step keeps the invariant about the end of a run.                  *)
LEMMA NextEnding == TypeInv /\ Ending /\ [Next]_vars => Ending'
<1> SUFFICES ASSUME TypeInv, Ending, [Next]_vars PROVE Ending'
  OBVIOUS
<1> USE DEF Ending, Loop, Places
<1>1. meta \in Meta
  BY DEF TypeInv, TypeOK
<1>2. CASE LoopStep
  BY <1>2, LoopSteps
<1>3. CASE Stop
  BY <1>3 DEF Stop, Idle, files
<1>4. CASE Resume
  BY <1>4 DEF Resume
<1>5. CASE ForceResume
  <2>1. meta'.status = "running"
    BY <1>1, <1>5, ZenonT(30) DEF ForceResume, Meta
  <2> QED
    BY <1>5, <2>1 DEF ForceResume
<1>6. CASE Drive
  BY <1>6 DEF Drive, FinishWith, files
<1>7. CASE MarkFinishing
  <2>1. meta'.finish_reason = why /\ meta'.status = meta.status
    BY <1>1, <1>7 DEF MarkFinishing, Meta
  <2> QED
    BY <1>7, <2>1 DEF MarkFinishing
<1>8. CASE Synthesize
  BY <1>8 DEF Synthesize
<1>9. CASE MarkFinished
  <2>1. meta'.finish_reason = meta.finish_reason
    BY <1>1, <1>9 DEF MarkFinished, Meta
  <2> QED
    BY <1>9, <2>1 DEF MarkFinished, Idle
<1>10. CASE UNCHANGED vars
  BY <1>10 DEF vars, files, process
<1> QED
  BY <1>2, <1>3, <1>4, <1>5, <1>6, <1>7, <1>8, <1>9, <1>10, Steps

(* The invariant about the end of a run holds in every reachable state.    *)
LEMMA AlwaysEnding == Spec => [](TypeInv /\ Ending)
<1>1. Init => Ending
  BY DEF Init, Ending, Loop
<1> QED
  BY <1>1, InitTypeInv, NextTypeInv, NextEnding, PTL DEF Spec

(* Whatever finish was interrupted, repeated or re-opened, a run that is   *)
(* marked finished has a report, written for the reason in run.json.       *)
THEOREM FinishCorrect == Spec => []FinishedHasReport
<1>1. Ending => FinishedHasReport
  BY DEF Ending, FinishedHasReport
<1> QED
  BY <1>1, AlwaysEnding, PTL

(* Every step of the driver is a step of the abstract lifecycle, or leaves *)
(* its variables alone.                                                    *)
LEMMA StepImplementsLifecycle ==
  ASSUME TypeInv, Ending, [Next]_vars
  PROVE  [Lifecycle!LifecycleNext]_<<Phase, meta.finish_reason, report>>
<1> USE DEF Phase, Ending
<1>1. meta \in Meta /\ why \in FinishReasons \cup {NoReason}
  BY DEF TypeInv, TypeOK
<1>2. CASE LoopStep
  BY <1>2, LoopSteps
<1>3. CASE Stop \/ Resume \/ Drive
  BY <1>3 DEF Stop, Resume, Drive, files
<1>4. CASE ForceResume
  <2>1. meta'.status = "running" /\ meta'.finish_reason = NoReason
    BY <1>1, <1>4, ZenonT(30) DEF ForceResume, Meta
  <2>2. Lifecycle!Reopen
    BY <1>4, <2>1 DEF ForceResume, Lifecycle!Reopen
  <2> QED
    BY <2>2 DEF Lifecycle!LifecycleNext
<1>5. CASE MarkFinishing
  <2>1. meta'.finish_reason = why /\ meta'.status = meta.status
    BY <1>1, <1>5 DEF MarkFinishing, Meta
  <2>2. CASE meta.finish_reason = why
    BY <1>5, <2>1, <2>2 DEF MarkFinishing
  <2>3. CASE meta.finish_reason = NoReason
    <3>1. why \in FinishReasons
      BY <1>1, <1>5 DEF MarkFinishing
    <3>2. Lifecycle!Commit(why)
      BY <1>5, <2>1, <2>3, <3>1 DEF MarkFinishing, Lifecycle!Commit
    <3> QED
      BY <3>1, <3>2 DEF Lifecycle!LifecycleNext
  <2> QED
    BY <1>5, <2>2, <2>3 DEF MarkFinishing
<1>6. CASE Synthesize
  <2>1. Lifecycle!WriteReport
    BY <1>6 DEF Synthesize, Lifecycle!WriteReport
  <2> QED
    BY <2>1 DEF Lifecycle!LifecycleNext
<1>7. CASE MarkFinished
  <2>1. meta'.finish_reason = meta.finish_reason /\ meta'.status = "finished"
    BY <1>1, <1>7 DEF MarkFinished, Meta
  <2>2. Lifecycle!Seal
    BY <1>7, <2>1 DEF MarkFinished, Lifecycle!Seal
  <2> QED
    BY <2>2 DEF Lifecycle!LifecycleNext
<1>8. CASE UNCHANGED vars
  BY <1>8 DEF vars, files
<1> QED
  BY <1>2, <1>3, <1>4, <1>5, <1>6, <1>7, <1>8, Steps

(* The run keeps the safety part of the lifecycle that run.json and        *)
(* REPORT.md promise: it commits to one reason, writes a report for it,    *)
(* and only then is finished.                                              *)
THEOREM ImplementsLifecycleSafety == Spec => Lifecycle!LifecycleSpec
<1>1. Init => Lifecycle!LifecycleInit
  BY DEF Init, Lifecycle!LifecycleInit, Phase
<1>2. TypeInv /\ Ending /\ [Next]_vars
        => [Lifecycle!LifecycleNext]_<<Phase, meta.finish_reason, report>>
  BY StepImplementsLifecycle
<1> QED
  BY <1>1, <1>2, AlwaysEnding, PTL
  DEF Spec, Lifecycle!LifecycleSpec, Lifecycle!lifecycleVars

-----------------------------------------------------------------------------
(* The firings of the final gate.                                          *)

(* The gate is entered only with a firing left, and every firing that      *)
(* run.json does not count yet is the one in progress or one that an early *)
(* stop lost.                                                              *)
GateAccount ==
  /\ meta.final_eval_count <= MaxFinalEvaluations
  /\ pc \in {"gate", "gate_verdict", "bump"} =>
       meta.final_eval_count < MaxFinalEvaluations
  /\ gates <= meta.final_eval_count + stops
              + (IF pc \in {"gate_verdict", "bump"} THEN 1 ELSE 0)

(* Every step keeps the account of the gate's firings: one that run.json   *)
(* does not count is paid for by an early stop.                            *)
LEMMA NextGateAccount == TypeInv /\ GateAccount /\ [Next]_vars => GateAccount'
<1> SUFFICES ASSUME TypeInv, GateAccount, [Next]_vars PROVE GateAccount'
  OBVIOUS
<1> USE DEF GateAccount
<1>1. /\ meta \in Meta /\ gates \in Nat /\ stops \in Nat
      /\ meta.final_eval_count \in Nat
      /\ MaxFinalEvaluations \in Nat
  BY RunAssumption DEF TypeInv, TypeOK, Meta
<1>2. CASE Stop
  BY <1>1, <1>2 DEF Stop, Idle, files
<1>3. CASE FinalEvaluate
  BY <1>1, <1>3 DEF FinalEvaluate
<1>4. CASE RecordFinalVerdict
  BY <1>1, <1>4 DEF RecordFinalVerdict, counts
<1>5. CASE BumpFinalEval
  <2>1. meta'.final_eval_count = meta.final_eval_count + 1
    BY <1>1, <1>5 DEF BumpFinalEval, Meta
  <2> QED
    BY <1>1, <1>5, <2>1 DEF BumpFinalEval, counts
<1>6. ASSUME meta'.final_eval_count = meta.final_eval_count,
             pc \notin {"gate_verdict", "bump"},
             pc' \notin {"gate", "gate_verdict", "bump"},
             gates' = gates, stops' = stops
      PROVE  GateAccount'
  BY <1>1, <1>6
<1>7. \A s : CompleteCycle(s).final_eval_count = meta.final_eval_count
  BY <1>1, CompletedFields
<1>8. CASE ReadVerdict
  <2>1. CASE AcceptPass
    <3>1. pc = "judge" /\ gates' = gates /\ stops' = stops
      BY <1>8 DEF ReadVerdict, counts
    <3>2. CASE Conclude
      BY <1>6, <1>7, <3>1, <3>2 DEF Conclude
    <3>3. CASE ~Conclude
      <4>1. meta' = meta
        BY <2>1, <3>3 DEF AcceptPass
      <4>2. pc' \in {"finish", "gate"}
        BY <2>1, <3>3 DEF AcceptPass, FinishWith
      <4>3. meta.final_eval_count < MaxFinalEvaluations
        BY <1>1, <2>1, <3>3 DEF AcceptPass
      <4> QED
        BY <1>1, <3>1, <4>1, <4>2, <4>3
    <3> QED
      BY <3>2, <3>3
  <2>2. CASE CloseCycle
    BY <1>6, <1>7, <1>8, <2>2
    DEF ReadVerdict, CloseCycle, FinishWith, NextCycle, counts
  <2>3. CASE Exhaust
    BY <1>6, <1>7, <1>8, <2>3 DEF ReadVerdict, Exhaust, FinishWith, counts
  <2> QED
    BY <1>8, <2>1, <2>2, <2>3 DEF ReadVerdict
<1>9. CASE ReadFinalVerdict
  BY <1>6, <1>7, <1>9
  DEF ReadFinalVerdict, NextCycle, Conclude, Exhaust, FinishWith, counts
<1>10. CASE Drive \/ PlanQuestions \/ WritePlan \/ Top \/ Pick
  BY <1>6, <1>10 DEF Drive, PlanQuestions, WritePlan, Top, Pick, FinishWith, files, counts
<1>11. CASE \E t \in targets : \/ WriteFinding(t) \/ SaveAnswer(t) \/ Fragment(t)
                               \/ GiveUp(t) \/ Fail(t)
  BY <1>6, <1>11 DEF WriteFinding, SaveAnswer, Fragment, GiveUp, Fail, files, counts
<1>12. CASE EndWork
  <2>1. meta'.final_eval_count = meta.final_eval_count
    <3>1. /\ [meta EXCEPT !.read_outage_streak = 0].final_eval_count
               = meta.final_eval_count
          /\ [meta EXCEPT !.read_outage_streak = @ + 1].final_eval_count
               = meta.final_eval_count
      BY <1>1 DEF Meta
    <3>2. reads \in {"neutral", "read", "outage"}
      BY DEF TypeInv, TypeOK
    <3> QED
      BY <1>12, <3>1, <3>2 DEF EndWork
  <2> QED
    BY <1>6, <1>12, <2>1 DEF EndWork, counts
<1>13. CASE AfterWork
  BY <1>6, <1>7, <1>13 DEF AfterWork, FinishWith, counts
<1>14. CASE Evaluate \/ RecordVerdict \/ AdvanceToDepth
  BY <1>6, <1>14 DEF Evaluate, RecordVerdict, AdvanceToDepth, FinishWith, counts
<1>15. CASE SetWave \/ MarkFinishing \/ Synthesize
  BY <1>1, <1>6, <1>15 DEF SetWave, MarkFinishing, Synthesize, NextCycle, counts, Meta
<1>16. CASE MarkFinished
  BY <1>1, <1>6, <1>16 DEF MarkFinished, Idle, counts, Meta
<1>17. CASE Resume \/ ForceResume
  <2>1. meta'.final_eval_count = meta.final_eval_count
    BY <1>1, <1>17, ZenonT(30) DEF Resume, ForceResume, Meta
  <2> QED
    BY <1>6, <1>17, <2>1 DEF Resume, ForceResume, counts
<1>18. CASE UNCHANGED vars
  BY <1>18 DEF vars, files, process, counts
<1> QED
  BY <1>2, <1>3, <1>4, <1>5, <1>8, <1>9, <1>10, <1>11, <1>12, <1>13, <1>14, <1>15,
     <1>16, <1>17, <1>18
  DEF Next, DriverStep, WorkStep, JudgeStep, FinishStep, Finished

(* The final gate runs at most once more than max_final_evaluations for    *)
(* every time the process died: a firing is lost only by dying between the *)
(* session and the write of its count.                                     *)
THEOREM GatesCorrect == Spec => []GatesBoundedByStops
<1>1. Init => GateAccount
  BY RunAssumption DEF Init, GateAccount
<1>2. TypeInv /\ GateAccount => GatesBoundedByStops
  <2> SUFFICES ASSUME TypeInv, GateAccount PROVE GatesBoundedByStops
    OBVIOUS
  <2>1. /\ gates \in Nat /\ stops \in Nat
        /\ meta.final_eval_count \in Nat /\ MaxFinalEvaluations \in Nat
    BY RunAssumption DEF TypeInv, TypeOK, Meta
  <2> QED
    BY <2>1 DEF GateAccount, GatesBoundedByStops
<1>3. Spec => [](TypeInv /\ GateAccount)
  BY <1>1, InitTypeInv, NextTypeInv, NextGateAccount, PTL DEF Spec
<1> QED
  BY <1>2, <1>3, PTL

-----------------------------------------------------------------------------
(* What becomes of the list of questions.                                  *)

(* A question in hand is marked as such: it is not resolved. *)
InWork == \A t \in targets : questions[t].status = "in_progress"

(* The list is appended to within the cap, or not at all, and no DEPTH     *)
(* question is among what is new.                                          *)
GrewWithinCap ==
  \E n \in Nat : Grew(questions, questions', n) /\ (n = 0 \/ HasRoom(questions, n))

(* What comes back from a pipeline edits its own question and no other.    *)
LEMMA ReturnedMoves ==
  ASSUME TypeInv, InWork, NEW t \in targets, SaveAnswer(t) \/ Fragment(t) \/ GiveUp(t)
  PROVE  /\ GrewWithinCap
         /\ \A i \in DOMAIN questions \ {t} : questions'[i] = questions[i]
         /\ targets' = targets \ {t}
<1>1. /\ questions \in Seq(Question) /\ targets \subseteq DOMAIN questions
      /\ MaxNew \in Nat
  BY RunAssumption DEF TypeInv, TypeOK
<1>2. t \in Unresolved(questions)
  BY <1>1 DEF InWork, Unresolved
<1>3. targets' = targets \ {t}
  BY DEF SaveAnswer, Fragment, GiveUp
<1>4. ASSUME Kept(questions, questions'), Len(questions') = Len(questions)
      PROVE  GrewWithinCap
  <2>1. DOMAIN questions' = DOMAIN questions
    BY <1>1, <1>4 DEF Kept
  <2>2. Grew(questions, questions', 0)
    BY <1>1, <1>4, <2>1 DEF Grew
  <2> QED
    BY <2>2 DEF GrewWithinCap
<1>5. CASE SaveAnswer(t)
  <2>1. questions' = Answer(questions, t)
    BY <1>5 DEF SaveAnswer
  <2> QED
    BY <1>1, <1>2, <1>3, <1>4, <2>1, AnswerKept
<1>6. CASE Fragment(t)
  <2>1. PICK n \in 0..MaxNew :
          (n = 0 \/ HasRoom(questions, n)) /\ questions' = Decompose(questions, t, n)
    BY <1>6 DEF Fragment
  <2>2. n \in Nat
    BY <1>1
  <2> QED
    BY <1>1, <1>2, <1>3, <2>1, <2>2, DecomposeKept DEF GrewWithinCap
<1>7. CASE GiveUp(t)
  <2>1. PICK hard \in BOOLEAN : questions' = Block(questions, t, hard)
    BY <1>7 DEF GiveUp
  <2> QED
    BY <1>1, <1>2, <1>3, <1>4, <2>1, BlockKept
<1> QED
  BY <1>5, <1>6, <1>7

(* A step that leaves the list alone leaves no question in hand that was   *)
(* not in hand before.                                                     *)
LEMMA UnmovedKeepsInWork ==
  ASSUME InWork, UNCHANGED questions, targets' \subseteq targets
  PROVE  InWork'
BY DEF InWork

(* A step rewrites the list as one of the operators of QuestionQueue does, *)
(* and hands out no resolved question.                                     *)
LEMMA QuestionMoves ==
  ASSUME TypeInv, InWork, [Next]_vars
  PROVE  /\ InWork'
         /\ \/ UNCHANGED questions
            \/ GrewWithinCap
            \/ /\ ~planned
               /\ \E n \in 1..MaxSeeds : questions' = FreshOnes("initializer", n)
            \/ \E ps \in DepthParents : questions' = Deepen(questions, ps)
<1>1. /\ questions \in Seq(Question) /\ targets \subseteq DOMAIN questions
      /\ MaxNew \in Nat
  BY RunAssumption DEF TypeInv, TypeOK
<1>2. pc # "work" => targets = {}
  BY DEF TypeInv, InHand
<1>3. CASE Stop \/ Drive \/ Top \/ MarkFinished \/ UNCHANGED vars
  BY <1>3, UnmovedKeepsInWork
  DEF Stop, Drive, Top, MarkFinished, Idle, vars, files, process
<1>4. CASE \E t \in targets : WriteFinding(t) \/ Fail(t)
  BY <1>4, UnmovedKeepsInWork DEF WriteFinding, Fail, files
<1>5. CASE Resume \/ ForceResume \/ WritePlan \/ EndWork \/ AfterWork
  BY <1>5, UnmovedKeepsInWork DEF Resume, ForceResume, WritePlan, EndWork, AfterWork
<1>6. CASE \/ RecordVerdict \/ ReadVerdict \/ RecordFinalVerdict \/ BumpFinalEval
           \/ ReadFinalVerdict \/ SetWave \/ MarkFinishing \/ Synthesize
  BY <1>6, UnmovedKeepsInWork
  DEF RecordVerdict, ReadVerdict, RecordFinalVerdict, BumpFinalEval,
      ReadFinalVerdict, SetWave, MarkFinishing, Synthesize
<1>7. CASE PlanQuestions
  <2>1. targets' = {}
    BY <1>2, <1>7 DEF PlanQuestions
  <2>2. ~planned
    BY <1>7 DEF PlanQuestions, TypeInv, PlanFirst
  <2> QED
    BY <1>7, <2>1, <2>2 DEF PlanQuestions, InWork
<1>8. CASE Pick
  <2>1. PICK T \in Picks(questions) : targets' = T /\ questions' = Claim(questions, T)
    BY <1>8 DEF Pick
  <2>2. T \in SUBSET Unresolved(questions)
    BY DEF Picks
  <2>3. /\ Kept(questions, questions') /\ Len(questions') = Len(questions)
        /\ \A i \in T : questions'[i].status = "in_progress"
    BY <1>1, <2>1, <2>2, ClaimKept
  <2>4. DOMAIN questions' = DOMAIN questions
    BY <1>1, <2>3 DEF Kept
  <2>5. Grew(questions, questions', 0)
    BY <1>1, <2>3, <2>4 DEF Grew
  <2> QED
    BY <2>1, <2>3, <2>5 DEF InWork, GrewWithinCap
<1>9. ASSUME NEW t \in targets, SaveAnswer(t) \/ Fragment(t) \/ GiveUp(t)
      PROVE  InWork' /\ GrewWithinCap
  <2>1. /\ GrewWithinCap
        /\ \A i \in DOMAIN questions \ {t} : questions'[i] = questions[i]
        /\ targets' = targets \ {t}
    BY <1>9, ReturnedMoves
  <2> QED
    BY <1>1, <2>1 DEF InWork
<1>10. CASE Evaluate \/ FinalEvaluate
  <2>1. PICK closes \in SUBSET Unresolved(questions), n \in 0..MaxNew :
          /\ n = 0 \/ HasRoom(questions, n)
          /\ questions' = Judge(questions, closes, n)
    BY <1>10 DEF Evaluate, FinalEvaluate, ApplyJudgment
  <2>2. n \in Nat
    BY <1>1
  <2>3. Grew(questions, questions', n)
    BY <1>1, <2>1, <2>2, JudgeKept
  <2>4. targets' = {}
    BY <1>2, <1>10 DEF Evaluate, FinalEvaluate
  <2> QED
    BY <2>1, <2>2, <2>3, <2>4 DEF InWork, GrewWithinCap
<1>11. CASE AdvanceToDepth
  <2>1. targets' = {}
    BY <1>2, <1>11 DEF AdvanceToDepth
  <2> QED
    BY <1>11, <2>1 DEF AdvanceToDepth, InWork
<1> QED
  BY <1>3, <1>4, <1>5, <1>6, <1>7, <1>8, <1>9, <1>10, <1>11
  DEF Next, DriverStep, WorkStep, JudgeStep, FinishStep, Finished

LEMMA AlwaysInWork == Spec => [](TypeInv /\ InWork)
<1>1. Init => InWork
  BY DEF Init, InWork
<1>2. TypeInv /\ InWork /\ [Next]_vars => InWork'
  BY QuestionMoves
<1> QED
  BY <1>1, <1>2, InitTypeInv, NextTypeInv, PTL DEF Spec

(* The DEPTH questions of a list of parents. *)
LEMMA SeededMoves ==
  ASSUME TypeInv, NEW ps \in DepthParents, questions' = Deepen(questions, ps)
  PROVE  /\ Kept(questions, questions')
         /\ \A i \in DOMAIN questions' \ DOMAIN questions :
              /\ questions'[i].by = "depth"
              /\ i - Len(questions) \in DOMAIN ps
              /\ questions'[i].parent = ps[i - Len(questions)]
<1>1. PICK n \in 1..DepthFindings : ps \in [1..n -> findings]
  BY DEF DepthParents
<1>2. n \in Nat /\ ps \in [1..n -> DOMAIN questions] /\ questions \in Seq(Question)
  BY <1>1, RunAssumption DEF TypeInv, TypeOK
<1> QED
  BY <1>2, DeepenKept

(* A resolved question is left alone for good, and no question is dropped, *)
(* whatever the worker, the evaluators and the DEPTH wave do to the list.  *)
THEOREM ResolvedStayCorrect == Spec => ResolvedStays
<1> DEFINE Stays ==
      planned => /\ Len(questions') >= Len(questions)
                 /\ \A i \in DOMAIN questions :
                      questions[i].status = "resolved" => questions'[i] = questions[i]
<1>1. ASSUME TypeInv, InWork, [Next]_vars
      PROVE  [Stays]_questions
  <2>1. CASE GrewWithinCap
    BY <2>1 DEF GrewWithinCap, Grew, Kept
  <2>2. CASE \E ps \in DepthParents : questions' = Deepen(questions, ps)
    BY <1>1, <2>2, SeededMoves DEF Kept
  <2> QED
    BY <1>1, <2>1, <2>2, QuestionMoves
<1> QED
  BY <1>1, AlwaysInWork, PTL DEF Spec, ResolvedStays

(* The DEPTH questions with one parent are one question, although the      *)
(* process may die between seeding them and leaving the BREADTH wave.      *)
THEOREM DeepenedOnceCorrect == Spec => []DeepenedOnce
<1>1. Init => DeepenedOnce
  BY DEF Init, DeepenedOnce
<1>2. ASSUME TypeInv, InWork, DeepenedOnce, [Next]_vars
      PROVE  DeepenedOnce'
  <2>0. questions \in Seq(Question)
    BY <1>2 DEF TypeInv, TypeOK
  <2>1. CASE UNCHANGED questions
    BY <1>2, <2>1 DEF DeepenedOnce
  <2>2. CASE GrewWithinCap
    BY <1>2, <2>2 DEF GrewWithinCap, Grew, Kept, DeepenedOnce
  <2>3. CASE \E n \in 1..MaxSeeds : questions' = FreshOnes("initializer", n)
    <3>1. PICK n \in 1..MaxSeeds : questions' = FreshOnes("initializer", n)
      BY <2>3
    <3>2. n \in Nat /\ "initializer" \in Author \ {"depth"}
      BY RunAssumption DEF Author
    <3>3. \A i \in DOMAIN questions' : questions'[i].by # "depth"
      BY <3>1, <3>2, FreshOnesPlain
    <3> QED
      BY <3>3 DEF DeepenedOnce
  <2>4. CASE \E ps \in DepthParents : questions' = Deepen(questions, ps)
    <3>1. PICK ps \in DepthParents : questions' = Deepen(questions, ps)
      BY <2>4
    <3>2. /\ IsInjective(ps)
          /\ \A k \in DOMAIN ps : \A i \in DOMAIN questions :
               questions[i].by = "depth" => questions[i].parent # ps[k]
      BY DEF DepthParents, AlreadyDeepened
    <3>3. /\ Kept(questions, questions')
          /\ \A i \in DOMAIN questions' \ DOMAIN questions :
               /\ i - Len(questions) \in DOMAIN ps
               /\ questions'[i].parent = ps[i - Len(questions)]
      BY <1>2, <3>1, SeededMoves
    <3>4. SUFFICES ASSUME NEW i \in DOMAIN questions', NEW j \in DOMAIN questions',
                          questions'[i].by = "depth", questions'[j].by = "depth",
                          questions'[i].parent = questions'[j].parent
                   PROVE  i = j
      BY DEF DeepenedOnce
    <3>5. CASE i \in DOMAIN questions /\ j \in DOMAIN questions
      BY <1>2, <3>3, <3>4, <3>5 DEF DeepenedOnce, Kept
    <3>6. CASE i \notin DOMAIN questions /\ j \notin DOMAIN questions
      <4>1. i - Len(questions) = j - Len(questions)
        BY <3>2, <3>3, <3>4, <3>6 DEF IsInjective
      <4> QED
        BY <2>0, <3>3, <4>1 DEF Kept
    <3>7. ~(i \in DOMAIN questions /\ j \notin DOMAIN questions)
      BY <3>2, <3>3, <3>4 DEF Kept
    <3>8. ~(i \notin DOMAIN questions /\ j \in DOMAIN questions)
      BY <3>2, <3>3, <3>4 DEF Kept
    <3> QED
      BY <3>5, <3>6, <3>7, <3>8
  <2> QED
    BY <1>2, <2>1, <2>2, <2>3, <2>4, QuestionMoves
<1>3. Spec => [](TypeInv /\ InWork /\ DeepenedOnce)
  BY <1>1, <1>2, AlwaysInWork, PTL DEF Spec
<1> QED
  BY <1>3, PTL

(* The questions that the cap is about. *)
Capped(qs) == {i \in DOMAIN qs : qs[i].by # "depth"}

CapKept == Cardinality(Capped(questions)) <= MaxQuestions

(* The cap on questions holds for everything but the DEPTH wave, if the    *)
(* plan itself keeps to it: initializer.py writes what it gets.            *)
THEOREM CapCorrect ==
  ASSUME MaxSeeds <= MaxQuestions
  PROVE  Spec => []CapHolds
<1>0. MaxQuestions \in Nat /\ MaxSeeds \in Nat
  BY QueueAssumption, RunAssumption
<1>1. ASSUME NEW qs \in Seq(Question), Len(qs) <= MaxQuestions
      PROVE  Cardinality(Capped(qs)) <= MaxQuestions
  <2>1. DOMAIN qs = 1..Len(qs) /\ Len(qs) \in Nat
    OBVIOUS
  <2>2. IsFiniteSet(1..Len(qs)) /\ Cardinality(1..Len(qs)) = Len(qs)
    BY <2>1, FS_Interval
  <2>3. Cardinality(Capped(qs)) <= Cardinality(1..Len(qs))
    BY <2>1, <2>2, FS_Subset DEF Capped
  <2>4. Cardinality(Capped(qs)) \in Nat
    BY <2>1, <2>2, FS_Subset, FS_CardinalityType DEF Capped
  <2> QED
    BY <1>0, <1>1, <2>1, <2>2, <2>3, <2>4
<1>2. ASSUME Init PROVE CapKept
  <2>1. questions \in Seq(Question) /\ Len(questions) <= MaxQuestions
    BY <1>0, <1>2 DEF Init
  <2> QED
    BY <1>1, <2>1 DEF CapKept
<1>3. ASSUME TypeInv, InWork, CapKept, [Next]_vars
      PROVE  CapKept'
  <2>0. questions \in Seq(Question) /\ Len(questions) \in Nat
    BY <1>3 DEF TypeInv, TypeOK
  <2>1. CASE UNCHANGED questions
    BY <1>3, <2>1 DEF CapKept
  <2>2. CASE GrewWithinCap
    <3>1. PICK n \in Nat :
            Grew(questions, questions', n) /\ (n = 0 \/ HasRoom(questions, n))
      BY <2>2 DEF GrewWithinCap
    <3>2. CASE n = 0
      <4>1. DOMAIN questions' = DOMAIN questions
        BY <2>0, <3>1, <3>2 DEF Grew, Kept
      <4>2. Capped(questions') = Capped(questions)
        BY <3>1, <4>1 DEF Grew, Kept, Capped
      <4> QED
        BY <1>3, <4>2 DEF CapKept
    <3>3. CASE HasRoom(questions, n)
      <4>1. questions' \in Seq(Question) /\ Len(questions') <= MaxQuestions
        BY <2>0, <3>1, <3>3 DEF Grew, Kept, HasRoom
      <4> QED
        BY <1>1, <4>1 DEF CapKept
    <3> QED
      BY <3>1, <3>2, <3>3
  <2>3. CASE \E n \in 1..MaxSeeds : questions' = FreshOnes("initializer", n)
    <3>1. PICK n \in 1..MaxSeeds : questions' = FreshOnes("initializer", n)
      BY <2>3
    <3>2. n \in Nat /\ n <= MaxQuestions /\ "initializer" \in Author \ {"depth"}
      BY <1>0 DEF Author
    <3>3. questions' \in Seq(Question) /\ Len(questions') = n
      BY <3>1, <3>2, FreshOnesPlain
    <3> QED
      BY <1>1, <3>2, <3>3 DEF CapKept
  <2>4. CASE \E ps \in DepthParents : questions' = Deepen(questions, ps)
    <3>1. /\ Kept(questions, questions')
          /\ \A i \in DOMAIN questions' \ DOMAIN questions : questions'[i].by = "depth"
      BY <1>3, <2>4, SeededMoves
    <3>2. DOMAIN questions \subseteq DOMAIN questions'
      BY <2>0, <3>1 DEF Kept
    <3>3. Capped(questions') = Capped(questions)
      BY <3>1, <3>2 DEF Kept, Capped
    <3> QED
      BY <1>3, <3>3 DEF CapKept
  <2> QED
    BY <1>3, <2>1, <2>2, <2>3, <2>4, QuestionMoves
<1>4. Spec => [](TypeInv /\ InWork /\ CapKept)
  BY <1>2, <1>3, AlwaysInWork, PTL DEF Spec
<1>5. CapHolds <=> CapKept
  BY DEF CapHolds, CapKept, Capped
<1> QED
  BY <1>4, <1>5, PTL
-----------------------------------------------------------------------------
(* What a conclusive run has to show.                                      *)

Gating == {"gate", "gate_verdict", "bump", "gate_judge"}
Working == {"top", "pick", "work", "worked", "evaluate", "verdict"}
Cycling == Working \cup {"judge"} \cup Gating

(* Which cycle the driver is in, and which verdicts that cycle has by now. *)
(* A crash may leave verdicts of the cycle that is run again, none later.  *)
VerdictInv ==
  /\ pc \in Cycling => cycle = meta.last_cycle + 1
  /\ pc \in {"conclude", "flip"} => cycle = meta.last_cycle
  /\ pc \in Gating => FinalGate
  /\ \A v \in verdicts : v.cycle <= meta.last_cycle + 1 /\ (v.final => FinalGate)
  /\ pc = "judge" => \E v \in verdicts : v.cycle = cycle
  /\ pc \in {"bump", "gate_judge"} =>
       \E v \in verdicts : v.cycle = cycle /\ v.final

(* What ConclusiveIsEarned asks of a conclusive run. *)
Earned ==
  /\ NoOpenQuestions(questions)
  /\ \E v \in verdicts :
       /\ v.cycle = meta.last_cycle /\ v.passed
       /\ v.final = FinalGate \/ meta.final_eval_count >= MaxFinalEvaluations

(* It is earned before the reason is given, and stays so until the report  *)
(* is written, and after.                                                  *)
EarnedInv ==
  (\/ pc = "conclude"
   \/ pc = "finish" /\ why = "conclusive"
   \/ meta.finish_reason = "conclusive") => Earned

(* What the edits of run.json other than complete_cycle leave alone. *)
LEMMA OtherEdits ==
  ASSUME NEW m \in Meta, NEW n, NEW r
  PROVE  /\ [m EXCEPT !.read_outage_streak = n].last_cycle = m.last_cycle
         /\ [m EXCEPT !.final_eval_count = n].last_cycle = m.last_cycle
         /\ [m EXCEPT !.wave = "depth"].last_cycle = m.last_cycle
         /\ [m EXCEPT !.finish_reason = r].last_cycle = m.last_cycle
         /\ [m EXCEPT !.finish_reason = r].final_eval_count = m.final_eval_count
         /\ [m EXCEPT !.status = "finished"].last_cycle = m.last_cycle
         /\ [m EXCEPT !.status = "finished"].final_eval_count = m.final_eval_count
         /\ [m EXCEPT !.status = "finished"].finish_reason = m.finish_reason
BY DEF Meta

LEMMA ReopenedFields ==
  ASSUME NEW m \in Meta
  PROVE  /\ [m EXCEPT !.status = "running", !.finish_reason = NoReason].last_cycle
              = m.last_cycle
         /\ [m EXCEPT !.status = "running", !.finish_reason = NoReason].finish_reason
              = NoReason
BY ZenonT(30) DEF Meta

(* Runspace.complete_cycle records the cycle of the loop. *)
LEMMA CompletedCycle ==
  ASSUME meta \in Meta, NEW stalled
  PROVE  CompleteCycle(stalled).last_cycle = cycle
BY DEF CompleteCycle, Meta

(* Runspace.write_verdict writes one file and drops none of another cycle. *)
LEMMA WrittenVerdict ==
  ASSUME NEW c, NEW final \in BOOLEAN, NEW passed, WriteVerdict(c, final, passed)
  PROVE  /\ \E v \in verdicts' : v.cycle = c /\ v.final = final
         /\ \A v \in verdicts' : v \in verdicts \/ (v.cycle = c /\ v.final = final)
<1> DEFINE new == [cycle |-> c, final |-> final, passed |-> passed]
<1>1. new.cycle = c /\ new.final = final
  OBVIOUS
<1>2. new \in verdicts' /\ \A v \in verdicts' : v \in verdicts \/ v = new
  BY DEF WriteVerdict
<1> HIDE DEF new
<1> QED
  BY <1>1, <1>2

(* No step but these two touches verdicts/, and the cycle that run.json    *)
(* records is the one of the loop.                                         *)
LEMMA VerdictMoves ==
  ASSUME TypeInv, [Next]_vars
  PROVE  /\ \/ UNCHANGED verdicts
            \/ pc = "verdict" /\ RecordVerdict
            \/ pc = "gate_verdict" /\ RecordFinalVerdict
         /\ \/ meta'.last_cycle = meta.last_cycle
            \/ pc \in {"worked", "judge", "gate_judge"} /\ meta'.last_cycle = cycle
<1>1. meta \in Meta /\ reads \in {"neutral", "read", "outage"}
  BY DEF TypeInv, TypeOK
<1>2. CASE Stop \/ Drive \/ Top \/ Resume \/ PlanQuestions \/ WritePlan \/ Pick
  BY <1>2 DEF Stop, Drive, Top, Resume, PlanQuestions, WritePlan, Pick, files
<1>3. CASE ForceResume
  BY <1>1, <1>3, ReopenedFields DEF ForceResume
<1>4. CASE \E t \in targets : \/ WriteFinding(t) \/ SaveAnswer(t) \/ Fragment(t)
                              \/ GiveUp(t) \/ Fail(t)
  BY <1>4 DEF WriteFinding, SaveAnswer, Fragment, GiveUp, Fail, files
<1>5. CASE EndWork
  BY <1>1, <1>5, OtherEdits DEF EndWork
<1>6. CASE AfterWork
  BY <1>1, <1>6, CompletedCycle DEF AfterWork
<1>7. CASE Evaluate \/ RecordVerdict \/ FinalEvaluate \/ RecordFinalVerdict
  BY <1>7 DEF Evaluate, RecordVerdict, FinalEvaluate, RecordFinalVerdict
<1>8. CASE ReadVerdict
  BY <1>1, <1>8, CompletedCycle
  DEF ReadVerdict, CloseCycle, AcceptPass, Exhaust, Conclude
<1>9. CASE BumpFinalEval \/ SetWave \/ MarkFinishing \/ MarkFinished
  <2>1. CASE BumpFinalEval
    BY <1>1, <2>1, OtherEdits DEF BumpFinalEval
  <2>2. CASE SetWave
    BY <1>1, <2>2, OtherEdits DEF SetWave
  <2>3. CASE MarkFinishing
    BY <1>1, <2>3, OtherEdits DEF MarkFinishing
  <2>4. CASE MarkFinished
    BY <1>1, <2>4, OtherEdits DEF MarkFinished
  <2> QED
    BY <1>9, <2>1, <2>2, <2>3, <2>4
<1>10. CASE ReadFinalVerdict
  BY <1>1, <1>10, CompletedCycle
  DEF ReadFinalVerdict, Exhaust, Conclude
<1>11. CASE AdvanceToDepth \/ Synthesize
  BY <1>11 DEF AdvanceToDepth, Synthesize
<1>12. CASE UNCHANGED vars
  BY <1>12 DEF vars, files
<1> QED
  BY <1>2, <1>3, <1>4, <1>5, <1>6, <1>7, <1>8, <1>9, <1>10, <1>11, <1>12
  DEF Next, DriverStep, WorkStep, JudgeStep, FinishStep, Finished

(* Every step keeps the account of cycles and verdicts. *)
LEMMA NextVerdictInv == TypeInv /\ VerdictInv /\ [Next]_vars => VerdictInv'
<1> SUFFICES ASSUME TypeInv, VerdictInv, [Next]_vars PROVE VerdictInv'
  OBVIOUS
<1> USE DEF VerdictInv, Cycling, Working, Gating
<1>1. /\ meta \in Meta /\ meta.last_cycle \in Nat /\ cycle \in Nat
      /\ verdicts \subseteq Verdict
  BY DEF TypeInv, TypeOK, Meta
<1>2. \A v \in verdicts : v.cycle \in Nat
  BY <1>1 DEF Verdict
<1>3. ASSUME UNCHANGED verdicts
      PROVE  \A v \in verdicts' :
               v.cycle <= meta'.last_cycle + 1 /\ (v.final => FinalGate)
  <2>1. CASE meta'.last_cycle = meta.last_cycle
    BY <1>3, <2>1
  <2>2. CASE pc \in {"worked", "judge", "gate_judge"} /\ meta'.last_cycle = cycle
    BY <1>1, <1>2, <1>3, <2>2
  <2> QED
    BY <2>1, <2>2, VerdictMoves
<1>4. ASSUME UNCHANGED verdicts, pc' \notin Cycling \cup {"conclude", "flip"}
      PROVE  VerdictInv'
  BY <1>3, <1>4
<1>5. ASSUME UNCHANGED verdicts, pc' = "top", cycle' = meta'.last_cycle + 1
      PROVE  VerdictInv'
  BY <1>3, <1>5
<1>6. ASSUME UNCHANGED <<verdicts, cycle>>, pc \in Working, pc' \in Working,
             meta'.last_cycle = meta.last_cycle
      PROVE  VerdictInv'
  BY <1>3, <1>6
<1>7. CASE \/ Stop \/ Resume \/ ForceResume \/ PlanQuestions
           \/ MarkFinishing \/ Synthesize \/ MarkFinished
  BY <1>4, <1>7 DEF Stop, Idle, Resume, ForceResume, PlanQuestions, MarkFinishing,
                    Synthesize, MarkFinished, files
<1>8. CASE Drive \/ WritePlan
  BY <1>4, <1>5, <1>8 DEF Drive, FinishWith, WritePlan, files
<1>9. CASE Top
  BY <1>4, <1>6, <1>9 DEF Top, FinishWith, files
<1>10. CASE Pick \/ Evaluate
  BY <1>6, <1>10 DEF Pick, Evaluate
<1>11. CASE \E t \in targets : \/ WriteFinding(t) \/ SaveAnswer(t) \/ Fragment(t)
                               \/ GiveUp(t) \/ Fail(t)
  <2>1. UNCHANGED <<verdicts, cycle, meta>> /\ pc = "work" /\ pc' = "work"
    BY <1>11 DEF WriteFinding, SaveAnswer, Fragment, GiveUp, Fail, files
  <2> QED
    BY <1>6, <2>1
<1>12. CASE EndWork
  <2>1. meta'.last_cycle = meta.last_cycle
    BY <1>1, <1>12, OtherEdits DEF EndWork, TypeInv, TypeOK
  <2> QED
    BY <1>6, <1>12, <2>1 DEF EndWork
<1>13. CASE AfterWork
  BY <1>4, <1>6, <1>13 DEF AfterWork, FinishWith
<1>14. CASE RecordVerdict
  <2>1. /\ pc = "verdict" /\ pc' = "judge"
        /\ UNCHANGED <<meta, cycle>> /\ WriteVerdict(cycle, FALSE, outcome)
    BY <1>14 DEF RecordVerdict
  <2>2. /\ \E v \in verdicts' : v.cycle = cycle
        /\ \A v \in verdicts' :
             v \in verdicts \/ (v.cycle = cycle /\ v.final = FALSE)
    BY <2>1, WrittenVerdict
  <2> QED
    BY <1>1, <2>1, <2>2
<1>15. CASE RecordFinalVerdict
  <2>1. /\ pc = "gate_verdict" /\ pc' = "bump"
        /\ UNCHANGED <<meta, cycle>> /\ WriteVerdict(cycle, TRUE, outcome)
    BY <1>15 DEF RecordFinalVerdict
  <2>2. /\ \E v \in verdicts' : v.cycle = cycle /\ v.final
        /\ \A v \in verdicts' : v \in verdicts \/ v.cycle = cycle
    BY <2>1, WrittenVerdict
  <2> QED
    BY <1>1, <2>1, <2>2
<1>16. ASSUME pc \in {"judge", "gate_judge"}, UNCHANGED verdicts,
              \E s \in BOOLEAN : meta' = CompleteCycle(s),
              \/ pc' \in {"conclude", "finish"} /\ UNCHANGED cycle
              \/ pc' = "top" /\ cycle' = cycle + 1
       PROVE  VerdictInv'
  <2>1. meta'.last_cycle = cycle
    BY <1>1, <1>16, CompletedCycle
  <2>2. CASE pc' = "conclude" /\ UNCHANGED cycle
    BY <1>3, <1>16, <2>1, <2>2
  <2> QED
    BY <1>4, <1>5, <1>16, <2>1, <2>2
<1>17. CASE ReadVerdict
  <2>0. pc = "judge" /\ UNCHANGED verdicts
    BY <1>17 DEF ReadVerdict
  <2>1. CASE CloseCycle
    <3>1. meta' = CompleteCycle(StateHash = before)
      BY <2>1 DEF CloseCycle
    <3>2. \/ pc' = "finish" /\ UNCHANGED cycle
          \/ pc' = "top" /\ cycle' = cycle + 1
      BY <2>1 DEF CloseCycle, FinishWith, NextCycle
    <3> QED
      BY <1>16, <2>0, <3>1, <3>2
  <2>2. CASE AcceptPass
    <3>1. CASE Conclude
      BY <1>16, <2>0, <3>1 DEF Conclude
    <3>2. CASE ~Conclude
      <4>1. FinalGate /\ pc' \in {"finish", "gate"} /\ UNCHANGED <<meta, cycle>>
        BY <2>2, <3>2, RunAssumption DEF AcceptPass, FinishWith
      <4> QED
        BY <1>3, <2>0, <4>1
    <3> QED
      BY <3>1, <3>2
  <2>3. CASE Exhaust
    BY <1>16, <2>0, <2>3 DEF Exhaust, FinishWith
  <2> QED
    BY <1>17, <2>1, <2>2, <2>3 DEF ReadVerdict
<1>18. CASE FinalEvaluate
  BY <1>3, <1>18 DEF FinalEvaluate
<1>19. CASE BumpFinalEval
  <2>1. meta'.last_cycle = meta.last_cycle
    BY <1>1, <1>19, OtherEdits DEF BumpFinalEval
  <2> QED
    BY <1>3, <1>19, <2>1 DEF BumpFinalEval
<1>20. CASE ReadFinalVerdict
  BY <1>16, <1>20 DEF ReadFinalVerdict, NextCycle, Conclude, Exhaust, FinishWith
<1>21. CASE AdvanceToDepth
  <2>1. CASE pc' = "flip" /\ UNCHANGED why
    BY <1>3, <1>21, <2>1 DEF AdvanceToDepth
  <2>2. CASE FinishWith("conclusive")
    BY <1>4, <1>21, <2>2 DEF AdvanceToDepth, FinishWith
  <2> QED
    BY <1>21, <2>1, <2>2 DEF AdvanceToDepth
<1>22. CASE SetWave
  <2>1. meta'.last_cycle = meta.last_cycle
    BY <1>1, <1>22, OtherEdits DEF SetWave
  <2> QED
    BY <1>5, <1>22, <2>1 DEF SetWave, NextCycle
<1>23. CASE UNCHANGED vars
  BY <1>23 DEF vars, files, process
<1> QED
  BY <1>7, <1>8, <1>9, <1>10, <1>11, <1>12, <1>13, <1>14, <1>15, <1>17, <1>18,
     <1>19, <1>20, <1>21, <1>22, <1>23
  DEF Next, DriverStep, WorkStep, JudgeStep, FinishStep, Finished

(* The newest verdict is of the cycle that just ran, and of the tier that  *)
(* the driver asked last: a verdict that a crash left behind outranks only *)
(* verdicts of its own cycle.                                              *)
LEMMA PassIsEarned ==
  ASSUME TypeInv, VerdictInv,
         \/ pc = "gate_judge"
         \/ pc = "judge"
            /\ (~FinalGate \/ meta.final_eval_count >= MaxFinalEvaluations),
         NoOpenQuestions(questions), LatestPassed, Conclude,
         UNCHANGED <<questions, verdicts>>
  PROVE  Earned'
<1> USE DEF VerdictInv, Cycling, Gating
<1>1. /\ meta \in Meta /\ meta.last_cycle \in Nat /\ cycle \in Nat
      /\ verdicts \subseteq Verdict
  BY DEF TypeInv, TypeOK, Meta
<1>2. cycle = meta.last_cycle + 1
  OBVIOUS
<1>3. PICK v \in verdicts : v.passed /\ \A w \in verdicts : Supersedes(v, w)
  BY DEF LatestPassed
<1>4. PICK w \in verdicts : w.cycle = cycle /\ (pc = "gate_judge" => w.final)
  OBVIOUS
<1>5. v.cycle \in Nat /\ v.final \in BOOLEAN /\ v.cycle <= cycle
  BY <1>1, <1>2 DEF Verdict
<1>6. v.cycle = cycle /\ (pc = "gate_judge" => v.final)
  <2>1. Supersedes(v, w)
    BY <1>3, <1>4
  <2> QED
    BY <1>1, <1>4, <1>5, <2>1 DEF Supersedes
<1>7. /\ meta'.last_cycle = cycle
      /\ meta'.final_eval_count = meta.final_eval_count
  BY <1>1, CompletedCycle, CompletedFields DEF Conclude
<1>8. v.final = FinalGate \/ meta.final_eval_count >= MaxFinalEvaluations
  <2>1. CASE pc = "gate_judge"
    BY <1>5, <1>6, <2>1, RunAssumption, Zenon
  <2>2. CASE ~FinalGate
    BY <1>5, <2>2, RunAssumption, Zenon
  <2> QED
    BY <2>1, <2>2
<1> QED
  BY <1>3, <1>6, <1>7, <1>8 DEF Earned

(* Every step keeps what a conclusive run has earned.                      *)
LEMMA NextEarnedInv ==
  ASSUME TypeInv, Ending, VerdictInv, EarnedInv, [Next]_vars
  PROVE  EarnedInv'
<1> USE DEF EarnedInv
<1>1. meta \in Meta
  BY DEF TypeInv, TypeOK
<1>2. ASSUME UNCHANGED <<questions, verdicts>>, meta'.last_cycle = meta.last_cycle,
             meta'.final_eval_count = meta.final_eval_count, Earned
      PROVE  Earned'
  BY <1>2 DEF Earned
<1>3. ASSUME LoopStep, pc' # "conclude", pc' # "finish" \/ why' # "conclusive"
      PROVE  EarnedInv'
  BY <1>3, LoopSteps DEF Ending, NoReason
<1>4. CASE LoopStep
  <2>1. CASE \/ PlanQuestions \/ WritePlan \/ Top \/ Pick \/ EndWork \/ AfterWork
             \/ \E t \in targets : \/ WriteFinding(t) \/ SaveAnswer(t) \/ Fragment(t)
                                   \/ GiveUp(t) \/ Fail(t)
    <3>1. pc' # "conclude" /\ (pc' # "finish" \/ why' # "conclusive")
      BY <2>1, BreakerType
      DEF PlanQuestions, WritePlan, Top, Pick, EndWork, AfterWork, WriteFinding,
          SaveAnswer, Fragment, GiveUp, Fail, FinishWith, NoReason
    <3> QED
      BY <1>3, <1>4, <3>1
  <2>2. CASE \/ Evaluate \/ RecordVerdict \/ FinalEvaluate \/ RecordFinalVerdict
             \/ BumpFinalEval \/ SetWave
    <3>1. pc' # "conclude" /\ pc' # "finish"
      BY <2>2 DEF Evaluate, RecordVerdict, FinalEvaluate, RecordFinalVerdict,
                  BumpFinalEval, SetWave, NextCycle
    <3> QED
      BY <1>3, <1>4, <3>1
  <2>3. CASE ReadVerdict
    <3>1. CASE CloseCycle \/ Exhaust
      <4>1. pc' # "conclude" /\ (pc' # "finish" \/ why' # "conclusive")
        BY <3>1 DEF CloseCycle, Exhaust, FinishWith, NextCycle
      <4> QED
        BY <1>3, <1>4, <4>1
    <3>2. CASE NoOpenQuestions(questions) /\ LatestPassed /\ AcceptPass
      <4>1. CASE ~FinalGate \/ meta.final_eval_count >= MaxFinalEvaluations
        BY <2>3, <3>2, <4>1, PassIsEarned DEF ReadVerdict, AcceptPass
      <4>2. CASE ~(~FinalGate \/ meta.final_eval_count >= MaxFinalEvaluations)
        <5>1. pc' # "conclude" /\ (pc' # "finish" \/ why' # "conclusive")
          BY <3>2, <4>2, BreakerType DEF AcceptPass, FinishWith, NoReason
        <5> QED
          BY <1>3, <1>4, <5>1
      <4> QED
        BY <4>1, <4>2
    <3> QED
      BY <2>3, <3>1, <3>2 DEF ReadVerdict
  <2>4. CASE ReadFinalVerdict
    <3>1. CASE NoOpenQuestions(questions) /\ LatestPassed
      BY <2>4, <3>1, PassIsEarned DEF ReadFinalVerdict
    <3>2. CASE ~(NoOpenQuestions(questions) /\ LatestPassed)
      <4>1. pc' # "conclude" /\ (pc' # "finish" \/ why' # "conclusive")
        BY <2>4, <3>2 DEF ReadFinalVerdict, Exhaust, FinishWith, NextCycle
      <4> QED
        BY <1>3, <1>4, <4>1
    <3> QED
      BY <3>1, <3>2
  <2>5. CASE AdvanceToDepth
    <3>1. CASE pc' = "flip"
      BY <1>3, <1>4, <3>1
    <3>2. CASE FinishWith("conclusive") /\ UNCHANGED questions
      BY <1>2, <2>5, <3>2 DEF AdvanceToDepth
    <3> QED
      BY <2>5, <3>1, <3>2 DEF AdvanceToDepth
  <2> QED
    BY <1>4, <2>1, <2>2, <2>3, <2>4, <2>5 DEF LoopStep, WorkStep, JudgeStep
<1>5. CASE Stop \/ Resume
  BY <1>2, <1>5 DEF Stop, Idle, Resume, files
<1>6. CASE ForceResume
  BY <1>1, <1>6, ReopenedFields DEF ForceResume, NoReason
<1>7. CASE Drive
  <2>1. UNCHANGED <<meta, questions, verdicts>> /\ pc' # "conclude"
    BY <1>7 DEF Drive, FinishWith, files
  <2>2. pc' = "finish" /\ why' = "conclusive" => meta.finish_reason = "conclusive"
    BY <1>7, BreakerType DEF Drive, FinishWith, NoReason
  <2> QED
    BY <1>2, <2>1, <2>2
<1>8. CASE MarkFinishing
  <2>1. meta'.finish_reason = why
    BY <1>1, <1>8 DEF MarkFinishing, Meta
  <2> QED
    BY <1>1, <1>2, <1>8, <2>1, OtherEdits DEF MarkFinishing
<1>9. CASE Synthesize
  BY <1>2, <1>9 DEF Synthesize
<1>10. CASE MarkFinished
  BY <1>1, <1>2, <1>10, OtherEdits DEF MarkFinished, Idle
<1>11. CASE UNCHANGED vars
  BY <1>2, <1>11 DEF vars, files, process
<1> QED
  BY <1>4, <1>5, <1>6, <1>7, <1>8, <1>9, <1>10, <1>11, Steps

(* A run that says it is conclusive has no open question and a passing     *)
(* verdict, of the tier that had the last word, of its last completed      *)
(* cycle: whatever crash, stale verdict or interrupted finish came before. *)
THEOREM ConclusiveCorrect == Spec => []ConclusiveIsEarned
<1>1. Init => VerdictInv /\ EarnedInv
  BY RunAssumption DEF Init, VerdictInv, EarnedInv, Cycling, Working, Gating, NoReason
<1>2. Spec => [](TypeInv /\ Ending /\ VerdictInv /\ EarnedInv)
  BY <1>1, AlwaysEnding, NextVerdictInv, NextEarnedInv, PTL DEF Spec
<1>3. EarnedInv => ConclusiveIsEarned
  BY DEF EarnedInv, Earned, ConclusiveIsEarned
<1> QED
  BY <1>2, <1>3, PTL

-----------------------------------------------------------------------------
(* The convergence of a run.                                               *)

(* The cycles a run may complete for one step of one question.             *)
Patience == IF ParallelQuestions = 1 THEN 1 ELSE StallCycles

(* The cycles that the steps spent on the list pay for.                    *)
Paid(qs) == NumSpent(qs) * Patience

(* The cycles completed in advance of the next step, which is certain to   *)
(* come while a question is unresolved: those that the stall guard counted, *)
(* or as many as it allows when its count may have been lost, to the       *)
(* read-outage guard or to a stop before a question was retired.           *)
Credit(qs, m) ==
  IF NoOpenQuestions(qs) THEN 0
  ELSE IF m.read_outage_streak >= MaxReadOutageCycles \/ Worn(qs) THEN Patience
  ELSE IF m.stall_count < Patience THEN m.stall_count ELSE Patience

Covered(n, qs, m, excuses) == n <= Paid(qs) + Credit(qs, m) + excuses

(* A cycle may start: it is paid for beforehand, or it has a question to   *)
(* work on and the stall guard has not run out of patience.                *)
CanStart(qs, m, excuses) ==
  \/ Covered(m.last_cycle + 1, qs, m, excuses)
  \/ /\ Covered(m.last_cycle, qs, m, excuses)
     /\ ~NoOpenQuestions(qs) /\ Credit(qs, m) < Patience

Excuses == stops + reopens

HasMoved == Moved(before[1], questions)

(* What is known of a cycle while it runs: how the list has changed since  *)
(* the top of the loop, and what the completion of the cycle will be paid  *)
(* with.  Where nothing has moved the cycle had nothing to work on, or     *)
(* every pipeline of a parallel batch failed.                              *)
UnderWay ==
  /\ before = <<before[1], before[2]>> /\ before[1] \in Seq(Question)
  /\ Follows(before[1], questions)
  /\ meta.last_cycle + 1 <= Paid(before[1]) + Patience + Excuses
  /\ HasMoved \/ CanStart(before[1], meta, Excuses)
  /\ HasMoved \/ answering # 0 \/ (findings = before[2] /\ reads = "neutral")
  /\ pc = "pick" => questions = before[1] /\ ~NoOpenQuestions(questions)
  /\ targets \subseteq DOMAIN before[1]
  /\ \/ HasMoved \/ NoOpenQuestions(before[1])
     \/ ParallelQuestions # 1 /\ pc \notin Gating
     \/ pc = "pick" \/ (pc = "work" /\ targets # {})

Judged == {"verdict", "judge"} \cup Gating
InCycle == {"pick", "work", "worked", "evaluate"} \cup Judged

(* What holds between the cycles, whatever the driver does next: every     *)
(* completed cycle is paid for, and a stopped run has one excuse left.     *)
BetweenCycles ==
  /\ Covered(meta.last_cycle, questions, meta, Excuses)
  /\ (pc = "down" /\ meta.status # "finished") \/ (pc = "drive" /\ planned) =>
       Covered(meta.last_cycle + 1, questions, meta, Excuses)
  /\ ~planned =>
       meta.last_cycle = 0 /\ meta.stall_count = 0 /\ meta.read_outage_streak = 0
  /\ pc = "plan_md" => ~NoOpenQuestions(questions) /\ ~Worn(questions)
  /\ pc = "top" => CanStart(questions, meta, Excuses)
  /\ pc \in {"evaluate", "conclude", "flip"} \cup Judged =>
       meta.read_outage_streak < MaxReadOutageCycles
  /\ pc \in {"conclude", "flip"} \cup Judged => ~Worn(questions)
  /\ pc \in {"conclude", "flip"} => meta.stall_count = 0
  /\ pc = "flip" => ~NoOpenQuestions(questions)
  /\ pc # "work" => reads = "neutral"

Converging == BetweenCycles /\ (pc \in InCycle => UnderWay)

(* The guard's patience and the credit that it gives. *)
LEMMA CreditBounds ==
  ASSUME NEW qs, NEW m \in Meta
  PROVE  /\ Patience \in Nat \ {0}
         /\ Credit(qs, m) \in Nat /\ Credit(qs, m) <= Patience
         /\ NoOpenQuestions(qs) => Credit(qs, m) = 0
         /\ ~NoOpenQuestions(qs) /\ m.read_outage_streak >= MaxReadOutageCycles
              => Credit(qs, m) = Patience
         /\ ~NoOpenQuestions(qs) /\ ~Worn(qs)
              /\ m.read_outage_streak < MaxReadOutageCycles
              => Credit(qs, m) = IF m.stall_count < Patience
                                 THEN m.stall_count ELSE Patience
<1>1. Patience \in Nat \ {0}
  BY RunAssumption DEF Patience
<1>2. /\ m.stall_count \in Nat /\ m.read_outage_streak \in Nat
      /\ MaxReadOutageCycles \in Nat
  BY RunAssumption DEF Meta
<1> QED
  BY <1>1, <1>2 DEF Credit

(* What steps pay for adds up. *)
LEMMA PaidFollows ==
  ASSUME NEW qs \in Seq(Question), NEW rs \in Seq(Question), Follows(qs, rs)
  PROVE  /\ Paid(qs) \in Nat /\ Paid(rs) \in Nat /\ Paid(qs) <= Paid(rs)
         /\ NumSpent(qs) < NumSpent(rs) => Paid(qs) + Patience <= Paid(rs)
<1>1. /\ NumSpent(qs) \in Nat /\ NumSpent(rs) \in Nat
      /\ NumSpent(qs) <= NumSpent(rs) /\ Patience \in Nat
  BY NumSpentBounds, FollowsSpent, RunAssumption DEF Patience
<1>2. \A a, b, c \in Nat : a <= b => a * c <= b * c
  OBVIOUS
<1>3. \A a, c \in Nat : (a + 1) * c = a * c + c /\ a * c \in Nat
  OBVIOUS
<1>4. ASSUME NumSpent(qs) < NumSpent(rs)
      PROVE  Paid(qs) + Patience <= Paid(rs)
  <2>1. NumSpent(qs) + 1 <= NumSpent(rs) /\ NumSpent(qs) + 1 \in Nat
    BY <1>1, <1>4
  <2> QED
    BY <1>1, <1>2, <1>3, <2>1 DEF Paid
<1> QED
  BY <1>1, <1>2, <1>3, <1>4 DEF Paid

(* Sums of what is paid, of the credit and of the excuses. *)
LEMMA Sums ==
  ASSUME NEW p \in Nat, NEW c \in Nat, NEW q \in Nat, NEW d \in Nat,
         NEW e \in Nat, NEW n \in Nat, NEW k \in Nat
  PROVE  /\ n <= p + c + e /\ p + c <= q + d => n <= q + d + e
         /\ p + k <= q /\ c <= k => p + c <= q + d
         /\ p <= q /\ c <= d => p + c <= q + d
OBVIOUS

(* No change of the list takes away what completed cycles are paid with.   *)
LEMMA CoveredFollows ==
  ASSUME NEW qs \in Seq(Question), NEW rs \in Seq(Question), Follows(qs, rs),
         NEW m \in Meta, NEW n \in Nat, NEW e \in Nat, Covered(n, qs, m, e)
  PROVE  Covered(n, rs, m, e)
<1>1. /\ Paid(qs) \in Nat /\ Paid(rs) \in Nat /\ Paid(qs) <= Paid(rs)
      /\ NumSpent(qs) < NumSpent(rs) => Paid(qs) + Patience <= Paid(rs)
  BY PaidFollows
<1>2. /\ Patience \in Nat
      /\ Credit(qs, m) \in Nat /\ Credit(qs, m) <= Patience
      /\ Credit(rs, m) \in Nat
  BY CreditBounds
<1>3. Paid(qs) + Credit(qs, m) <= Paid(rs) + Credit(rs, m)
  <2>1. CASE NumSpent(qs) < NumSpent(rs)
    BY <1>1, <1>2, <2>1, Sums
  <2>2. CASE ~(NumSpent(qs) < NumSpent(rs))
    <3>1. /\ NoOpenQuestions(rs) => NoOpenQuestions(qs)
          /\ Worn(qs) => Worn(rs)
      BY <2>2, SettledSpent
    <3>2. Credit(qs, m) <= Credit(rs, m)
      BY <1>2, <3>1 DEF Credit
    <3> QED
      BY <1>1, <1>2, <3>2, Sums
  <2> QED
    BY <2>1, <2>2
<1> QED
  BY <1>1, <1>2, <1>3, Sums DEF Covered

(* A list that has moved pays for the cycle in which it did, be it by the  *)
(* question that the evaluator has yet to retire.                          *)
LEMMA PaidByMoving ==
  ASSUME NEW qs \in Seq(Question), NEW rs \in Seq(Question), Follows(qs, rs),
         Moved(qs, rs), NEW m \in Meta
  PROVE  Paid(qs) + Patience <= Paid(rs) + Credit(rs, m)
<1>1. /\ Paid(qs) \in Nat /\ Paid(rs) \in Nat /\ Paid(qs) <= Paid(rs)
      /\ NumSpent(qs) < NumSpent(rs) => Paid(qs) + Patience <= Paid(rs)
  BY PaidFollows
<1>2. Patience \in Nat /\ Credit(rs, m) \in Nat
  BY CreditBounds
<1>3. CASE NumSpent(qs) < NumSpent(rs)
  BY <1>1, <1>2, <1>3
<1>4. CASE Worn(rs)
  <2>1. ~NoOpenQuestions(rs)
    BY <1>4 DEF Worn, Retired, NoOpenQuestions, Unresolved
  <2>2. Credit(rs, m) = Patience
    BY <1>4, <2>1 DEF Credit
  <2> QED
    BY <1>1, <1>2, <2>2
<1> QED
  BY <1>3, <1>4, MovedSpent

(* Two states of run.json with the same counters. *)
SameCount(k, m) ==
  /\ k.last_cycle = m.last_cycle /\ k.stall_count = m.stall_count
  /\ k.read_outage_streak = m.read_outage_streak

(* Only two counters of run.json bear on the credit. *)
LEMMA SameCounters ==
  ASSUME NEW qs, NEW m, NEW k, k.stall_count = m.stall_count,
         k.read_outage_streak = m.read_outage_streak
  PROVE  Credit(qs, k) = Credit(qs, m)
BY DEF Credit

(* The counters after complete_cycle, and after the other edits. *)
LEMMA CompletedCounters ==
  ASSUME meta \in Meta, NEW stalled
  PROVE  /\ CompleteCycle(stalled).last_cycle = cycle
         /\ CompleteCycle(stalled).read_outage_streak = meta.read_outage_streak
         /\ CompleteCycle(stalled).stall_count
              = IF stalled THEN meta.stall_count + 1 ELSE 0
BY DEF CompleteCycle, Meta

LEMMA OtherCounters ==
  ASSUME NEW m \in Meta, NEW n, NEW r
  PROVE  /\ SameCount([m EXCEPT !.final_eval_count = n], m)
         /\ SameCount([m EXCEPT !.wave = "depth"], m)
         /\ SameCount([m EXCEPT !.finish_reason = r], m)
         /\ SameCount([m EXCEPT !.status = "finished"], m)
         /\ SameCount([m EXCEPT !.status = "running", !.finish_reason = NoReason], m)
<1>1. /\ SameCount([m EXCEPT !.final_eval_count = n], m)
      /\ SameCount([m EXCEPT !.wave = "depth"], m)
      /\ SameCount([m EXCEPT !.finish_reason = r], m)
      /\ SameCount([m EXCEPT !.status = "finished"], m)
  BY DEF Meta, SameCount
<1>2. SameCount([m EXCEPT !.status = "running", !.finish_reason = NoReason], m)
  <2> DEFINE k == [m EXCEPT !.status = "running", !.finish_reason = NoReason]
  <2>1. k.last_cycle = m.last_cycle
    BY ZenonT(30) DEF Meta
  <2>2. k.stall_count = m.stall_count
    BY ZenonT(30) DEF Meta
  <2>3. k.read_outage_streak = m.read_outage_streak
    BY ZenonT(30) DEF Meta
  <2> HIDE DEF k
  <2>4. SameCount(k, m)
    BY <2>1, <2>2, <2>3 DEF SameCount
  <2> QED
    BY <2>4 DEF k
<1> QED
  BY <1>1, <1>2

(* The types of what the account of cycles is about. *)
LEMMA ConvergingTypes ==
  ASSUME TypeInv
  PROVE  /\ meta \in Meta /\ meta.last_cycle \in Nat /\ meta.stall_count \in Nat
         /\ meta.read_outage_streak \in Nat /\ MaxReadOutageCycles \in Nat \ {0}
         /\ questions \in Seq(Question) /\ cycle \in Nat
         /\ Excuses \in Nat /\ stops \in Nat /\ reopens \in Nat
         /\ reads \in {"neutral", "read", "outage"}
         /\ targets \subseteq DOMAIN questions
         /\ pc # "work" => targets = {} /\ answering = 0
         /\ targets = {} => answering = 0
<1>1. /\ meta \in Meta /\ questions \in Seq(Question) /\ cycle \in Nat
      /\ stops \in Nat /\ reopens \in Nat
      /\ reads \in {"neutral", "read", "outage"}
      /\ targets \subseteq DOMAIN questions /\ answering \in targets \cup {0}
      /\ pc # "work" => targets = {} /\ answering = 0
  BY DEF TypeInv, TypeOK, InHand
<1>2. /\ meta.last_cycle \in Nat /\ meta.stall_count \in Nat
      /\ meta.read_outage_streak \in Nat
  BY <1>1 DEF Meta
<1>3. MaxReadOutageCycles \in Nat \ {0}
  BY RunAssumption
<1> QED
  BY <1>1, <1>2, <1>3 DEF Excuses

(* A cycle that has moved, or that had nothing to work on, is paid for     *)
(* whatever becomes of the counters of run.json.                           *)
LEMMA CyclePaid ==
  ASSUME TypeInv, UnderWay, HasMoved \/ NoOpenQuestions(before[1]), NEW m \in Meta
  PROVE  Covered(meta.last_cycle + 1, questions, m, Excuses)
<1>1. /\ meta \in Meta /\ meta.last_cycle \in Nat /\ Excuses \in Nat
      /\ questions \in Seq(Question)
  BY ConvergingTypes
<1>2. /\ before[1] \in Seq(Question) /\ Follows(before[1], questions)
      /\ meta.last_cycle + 1 <= Paid(before[1]) + Patience + Excuses
  BY DEF UnderWay
<1>3. /\ Paid(before[1]) \in Nat /\ Paid(questions) \in Nat
      /\ Paid(before[1]) <= Paid(questions)
  BY <1>1, <1>2, PaidFollows
<1>4. Patience \in Nat /\ Credit(questions, m) \in Nat
  BY CreditBounds
<1>5. CASE HasMoved
  <2>1. Paid(before[1]) + Patience <= Paid(questions) + Credit(questions, m)
    BY <1>1, <1>2, <1>5, PaidByMoving DEF HasMoved
  <2> QED
    BY <1>1, <1>2, <1>3, <1>4, <2>1, Sums DEF Covered
<1>6. CASE ~HasMoved /\ NoOpenQuestions(before[1])
  <2>1. Covered(meta.last_cycle + 1, before[1], meta, Excuses)
    BY <1>6 DEF UnderWay, CanStart
  <2>2. Credit(before[1], meta) = 0
    BY <1>1, <1>6, CreditBounds
  <2>3. Paid(before[1]) + 0 <= Paid(questions) + Credit(questions, m)
    BY <1>3, <1>4
  <2> QED
    BY <1>1, <1>3, <1>4, <2>1, <2>2, <2>3, Sums DEF Covered
<1> QED
  BY <1>5, <1>6

(* In a cycle that reached the evaluator, or has nothing left to do, a     *)
(* question has moved or there was none to work on.                        *)
LEMMA MovedOrIdle ==
  ASSUME TypeInv, UnderWay, pc \notin {"pick", "work"},
         ParallelQuestions = 1 \/ pc \in Gating \/ NoOpenQuestions(questions)
  PROVE  HasMoved \/ NoOpenQuestions(before[1])
<1>1. CASE ParallelQuestions = 1 \/ pc \in Gating
  BY <1>1 DEF UnderWay
<1>2. CASE ParallelQuestions # 1 /\ NoOpenQuestions(questions) /\ ~HasMoved
  <2>1. questions = before[1]
    BY <1>2, FollowsStill, ConvergingTypes DEF UnderWay, HasMoved
  <2> QED
    BY <1>2, <2>1
<1> QED
  BY <1>1, <1>2

(* The step leaves the counters of run.json alone. *)
SameClock == SameCount(meta', meta)

(* What is covered depends on run.json through its counters. *)
LEMMA SameCover ==
  ASSUME SameClock, UNCHANGED <<stops, reopens>>
  PROVE  /\ Excuses' = Excuses
         /\ \A qs : Credit(qs, meta') = Credit(qs, meta)
         /\ \A n, qs : Covered(n, qs, meta', Excuses') <=> Covered(n, qs, meta, Excuses)
         /\ \A qs : CanStart(qs, meta', Excuses') <=> CanStart(qs, meta, Excuses)
<1>1. Excuses' = Excuses
  BY DEF Excuses
<1>2. \A qs : Credit(qs, meta') = Credit(qs, meta)
  BY SameCounters DEF SameClock, SameCount
<1>3. \A n, qs : Covered(n, qs, meta', Excuses') <=> Covered(n, qs, meta, Excuses)
  BY <1>1, <1>2 DEF Covered
<1> QED
  BY <1>1, <1>2, <1>3 DEF CanStart, SameClock, SameCount

(* The same with one cycle more. *)
LEMMA SumsOfOne ==
  ASSUME NEW n \in Nat, NEW p \in Nat, NEW c \in Nat, NEW k \in Nat, NEW e \in Nat
  PROVE  /\ n + 1 <= p + c + e /\ c <= k => n <= p + c + e /\ n + 1 <= p + k + e
         /\ n <= p + c + e /\ c < k => n + 1 <= p + k + e
OBVIOUS

(* A cycle that may start is covered so far. *)
LEMMA StartCovered ==
  ASSUME NEW qs \in Seq(Question), NEW m \in Meta, NEW e \in Nat, CanStart(qs, m, e)
  PROVE  /\ Covered(m.last_cycle, qs, m, e)
         /\ m.last_cycle + 1 <= Paid(qs) + Patience + e
<1>1. /\ m.last_cycle \in Nat /\ Paid(qs) \in Nat /\ Patience \in Nat
      /\ Credit(qs, m) \in Nat /\ Credit(qs, m) <= Patience
  BY PaidFollows, FollowsItself, CreditBounds DEF Meta
<1>2. CASE Covered(m.last_cycle + 1, qs, m, e)
  BY <1>1, <1>2, SumsOfOne DEF Covered
<1>3. CASE Covered(m.last_cycle, qs, m, e) /\ Credit(qs, m) < Patience
  BY <1>1, <1>3, SumsOfOne DEF Covered
<1> QED
  BY <1>2, <1>3 DEF CanStart

(* A step to one of the places between the cycles that changes nothing     *)
(* they are counted by.                                                    *)
LEMMA StepsAside ==
  ASSUME TypeInv, Converging, SameClock,
         UNCHANGED <<questions, planned, stops, reopens>>, reads' = "neutral",
         pc' \in {"down", "drive", "plan", "finish", "synthesize", "seal"},
         pc' = "down" => meta'.status = "finished",
         pc' = "drive" => pc = "down" /\ meta.status # "finished"
  PROVE  Converging'
<1>1. /\ \A n, qs : Covered(n, qs, meta', Excuses') <=> Covered(n, qs, meta, Excuses)
      /\ pc' \notin InCycle
      /\ pc' \notin {"plan_md", "top", "evaluate", "conclude", "flip"} \cup Judged
  BY SameCover DEF InCycle, Judged, Gating
<1>2. /\ Covered(meta'.last_cycle, questions', meta', Excuses')
      /\ pc' = "drive" => Covered(meta'.last_cycle + 1, questions', meta', Excuses')
  BY <1>1 DEF Converging, BetweenCycles, SameClock, SameCount
<1>3. ~planned' => meta'.last_cycle = 0 /\ meta'.stall_count = 0
                   /\ meta'.read_outage_streak = 0
  BY DEF Converging, BetweenCycles, SameClock, SameCount
<1> QED
  BY <1>1, <1>2, <1>3 DEF Converging, BetweenCycles

(* The top of the loop. *)
LEMMA ArrivesAtTop ==
  ASSUME TypeInv', pc' = "top", CanStart(questions', meta', Excuses'),
         reads' = "neutral"
  PROVE  Converging'
<1>1. /\ questions' \in Seq(Question) /\ meta' \in Meta /\ Excuses' \in Nat
      /\ planned'
  BY DEF TypeInv, TypeOK, PlanFirst, Excuses
<1>2. Covered(meta'.last_cycle, questions', meta', Excuses')
  BY <1>1, StartCovered
<1> QED
  BY <1>1, <1>2 DEF Converging, BetweenCycles, InCycle, Judged, Gating

(* A step within a cycle that leaves the counters of run.json alone.       *)
LEMMA CycleGoesOn ==
  ASSUME TypeInv, TypeInv', Converging, SameClock, pc \in InCycle,
         pc' \in InCycle \ {"pick"}, UNCHANGED <<before, stops, reopens>>,
         Follows(questions, questions'), targets' \subseteq DOMAIN before[1],
         HasMoved' \/ answering' # 0
           \/ (answering = 0 /\ findings' = findings /\ reads' = reads),
         \/ HasMoved' \/ NoOpenQuestions(before[1])
         \/ ParallelQuestions # 1 /\ pc' \notin Gating
         \/ pc' = "work" /\ targets' # {},
         pc' # "work" => reads' = "neutral",
         pc' \in {"evaluate"} \cup Judged =>
           meta.read_outage_streak < MaxReadOutageCycles,
         pc' \in Judged => ~Worn(questions')
  PROVE  Converging'
<1>1. /\ questions \in Seq(Question) /\ meta \in Meta /\ Excuses \in Nat
      /\ meta.last_cycle \in Nat
  BY ConvergingTypes
<1>2. questions' \in Seq(Question) /\ planned'
  BY DEF TypeInv, TypeOK, PlanFirst, InCycle, Judged, Gating
<1>3. /\ Excuses' = Excuses
      /\ \A n, qs : Covered(n, qs, meta', Excuses') <=> Covered(n, qs, meta, Excuses)
      /\ \A qs : CanStart(qs, meta', Excuses') <=> CanStart(qs, meta, Excuses)
  BY SameCover
<1>4. Covered(meta'.last_cycle, questions', meta', Excuses')
  <2>1. Covered(meta.last_cycle, questions, meta, Excuses)
    BY DEF Converging, BetweenCycles
  <2>2. Covered(meta.last_cycle, questions', meta, Excuses)
    BY <1>1, <1>2, <2>1, CoveredFollows
  <2> QED
    BY <1>3, <2>2 DEF SameClock, SameCount
<1>5. BetweenCycles'
  BY <1>2, <1>4 DEF BetweenCycles, InCycle, Judged, Gating, SameClock, SameCount
<1>6. /\ UnderWay /\ before[1] \in Seq(Question)
      /\ Follows(before[1], questions)
  BY DEF Converging, UnderWay
<1>7. Follows(before[1], questions') /\ (HasMoved => HasMoved')
  BY <1>1, <1>2, <1>6, FollowsOn DEF HasMoved
<1>8. HasMoved' \/ CanStart(before'[1], meta', Excuses')
  BY <1>3, <1>6, <1>7 DEF UnderWay
<1>9. meta'.last_cycle + 1 <= Paid(before'[1]) + Patience + Excuses'
  BY <1>3, <1>6 DEF UnderWay, SameClock, SameCount
<1>10. HasMoved' \/ answering' # 0 \/ (findings' = before'[2] /\ reads' = "neutral")
  BY <1>6, <1>7 DEF UnderWay
<1>11. UnderWay'
  BY <1>6, <1>7, <1>8, <1>9, <1>10 DEF UnderWay
<1> QED
  BY <1>5, <1>11 DEF Converging

(* The steps outside the loop. *)
LEMMA OutsideConverging ==
  ASSUME TypeInv, TypeInv', Converging,
         \/ Stop \/ Resume \/ ForceResume \/ Drive \/ PlanQuestions \/ WritePlan
         \/ MarkFinishing \/ Synthesize \/ MarkFinished
  PROVE  Converging'
<1>1. /\ meta \in Meta /\ meta.last_cycle \in Nat /\ Excuses \in Nat
      /\ stops \in Nat /\ reopens \in Nat /\ questions \in Seq(Question)
      /\ MaxReadOutageCycles \in Nat \ {0}
  BY ConvergingTypes
<1>2. /\ Credit(questions, meta) \in Nat /\ Patience \in Nat \ {0}
      /\ Paid(questions) \in Nat
      /\ Covered(meta.last_cycle, questions, meta, Excuses)
  BY <1>1, CreditBounds, PaidFollows, FollowsItself DEF Converging, BetweenCycles
<1>3. Covered(meta.last_cycle + 1, questions, meta, Excuses + 1)
  BY <1>1, <1>2, SumsOfOne DEF Covered
<1>4. pc # "work" => reads = "neutral"
  BY DEF Converging, BetweenCycles
<1>5. CASE Stop
  <2>1. /\ Excuses' = Excuses + 1 /\ pc' = "down" /\ reads' = "neutral"
        /\ UNCHANGED <<meta, questions, planned>>
    BY <1>1, <1>5 DEF Stop, Idle, files, Excuses
  <2>2. Covered(meta'.last_cycle, questions', meta', Excuses')
    BY <1>1, <1>2, <2>1 DEF Covered
  <2> QED
    BY <1>3, <2>1, <2>2
    DEF Converging, BetweenCycles, InCycle, Judged, Gating
<1>6. CASE Resume
  BY <1>4, <1>6, StepsAside DEF Resume, counts, SameClock, SameCount
<1>7. CASE ForceResume
  <2>1. /\ Excuses' = Excuses + 1 /\ pc' = "drive" /\ reads' = "neutral"
        /\ UNCHANGED <<questions, planned>>
    BY <1>1, <1>4, <1>7 DEF ForceResume, Excuses
  <2>2. SameClock
    BY <1>1, <1>7, OtherCounters, Zenon DEF ForceResume, SameClock
  <2>3. Credit(questions, meta') = Credit(questions, meta)
    BY <2>2, SameCounters DEF SameClock, SameCount
  <2>4. /\ Covered(meta'.last_cycle, questions', meta', Excuses')
        /\ Covered(meta'.last_cycle + 1, questions', meta', Excuses')
    BY <1>1, <1>2, <1>3, <2>1, <2>2, <2>3 DEF Covered, SameClock, SameCount
  <2> QED
    BY <2>1, <2>2, <2>4
    DEF Converging, BetweenCycles, InCycle, Judged, Gating, SameClock, SameCount
<1>8. CASE Drive
  <2>1. /\ UNCHANGED <<meta, questions, planned, stops, reopens, reads>>
        /\ pc = "drive" /\ SameClock /\ Excuses' = Excuses
    BY <1>8 DEF Drive, files, counts, SameClock, SameCount, Excuses
  <2>2. CASE pc' = "top"
    <3>1. planned
      BY <1>8, <2>2 DEF Drive, FinishWith
    <3>2. Covered(meta.last_cycle + 1, questions, meta, Excuses)
      BY <2>1, <3>1 DEF Converging, BetweenCycles
    <3> QED
      BY <1>4, <2>1, <2>2, <3>2, ArrivesAtTop DEF CanStart
  <2>3. CASE pc' # "top"
    <3>1. pc' \in {"finish", "plan"}
      BY <1>8, <2>3 DEF Drive, FinishWith
    <3> QED
      BY <1>4, <2>1, <3>1, StepsAside
  <2> QED
    BY <2>2, <2>3
<1>9. CASE PlanQuestions
  <2>1. /\ UNCHANGED <<meta, planned, stops, reopens, reads>> /\ pc' = "plan_md"
        /\ pc = "plan"
    BY <1>9 DEF PlanQuestions, counts
  <2>2. PICK n \in 1..MaxSeeds : questions' = FreshOnes("initializer", n)
    BY <1>9 DEF PlanQuestions
  <2>3. n \in Nat \ {0} /\ "initializer" \in Author
    BY RunAssumption DEF Author
  <2>4. ~Worn(questions') /\ ~NoOpenQuestions(questions')
    BY <2>2, <2>3, SeedsFresh
  <2>5. ~planned /\ meta.last_cycle = 0
    BY <2>1 DEF TypeInv, PlanFirst, Converging, BetweenCycles
  <2>6. /\ Excuses' = Excuses /\ questions' \in Seq(Question)
        /\ Credit(questions', meta) \in Nat /\ Paid(questions') \in Nat
    <3>1. questions' \in Seq(Question)
      BY DEF TypeInv, TypeOK
    <3> QED
      BY <1>1, <2>1, <3>1, CreditBounds, PaidFollows, FollowsItself DEF Excuses
  <2>7. Covered(meta'.last_cycle, questions', meta', Excuses')
    BY <1>1, <2>1, <2>5, <2>6 DEF Covered
  <2> QED
    BY <1>4, <2>1, <2>4, <2>5, <2>7
    DEF Converging, BetweenCycles, InCycle, Judged, Gating
<1>10. CASE WritePlan
  <2>1. /\ UNCHANGED <<meta, questions, stops, reopens, reads>> /\ pc' = "top"
        /\ pc = "plan_md" /\ Excuses' = Excuses
    BY <1>10 DEF WritePlan, counts, Excuses
  <2>2. /\ meta.stall_count = 0 /\ meta.read_outage_streak = 0
        /\ ~NoOpenQuestions(questions) /\ ~Worn(questions)
    BY <2>1 DEF TypeInv, PlanFirst, Converging, BetweenCycles
  <2>3. Credit(questions, meta) < Patience
    BY <1>1, <1>2, <2>2, CreditBounds
  <2> QED
    BY <1>2, <1>4, <2>1, <2>2, <2>3, ArrivesAtTop DEF CanStart
<1>11. CASE MarkFinishing \/ Synthesize \/ MarkFinished
  <2>1. SameClock
    <3>1. SameCount(meta, meta)
      BY DEF SameCount
    <3>2. CASE MarkFinishing
      BY <1>1, <3>2, OtherCounters, Zenon DEF MarkFinishing, SameClock
    <3>3. CASE Synthesize
      BY <3>1, <3>3 DEF Synthesize, SameClock
    <3>4. CASE MarkFinished
      BY <1>1, <3>4, OtherCounters, Zenon DEF MarkFinished, SameClock
    <3> QED
      BY <1>11, <3>2, <3>3, <3>4
  <2>2. /\ UNCHANGED <<questions, planned, stops, reopens>> /\ reads' = "neutral"
        /\ pc' \in {"synthesize", "seal", "down"}
    BY <1>4, <1>11 DEF MarkFinishing, Synthesize, MarkFinished, Idle, counts
  <2>3. pc' = "down" => meta'.status = "finished"
    BY <1>1, <1>11 DEF MarkFinishing, Synthesize, MarkFinished, Meta
  <2> QED
    BY <2>1, <2>2, <2>3, StepsAside
<1> QED
  BY <1>5, <1>6, <1>7, <1>8, <1>9, <1>10, <1>11

(* The top of the loop, where a cycle starts. *)
LEMMA TopConverging ==
  ASSUME TypeInv, TypeInv', Converging, Top
  PROVE  Converging'
<1>1. /\ meta \in Meta /\ meta.last_cycle \in Nat /\ Excuses \in Nat
      /\ questions \in Seq(Question) /\ targets = {} /\ answering = 0
      /\ reads = "neutral" /\ pc = "top"
  BY ConvergingTypes DEF Top, Converging, BetweenCycles
<1>2. /\ UNCHANGED <<meta, questions, findings, planned, stops, reopens, reads,
                     targets, answering>>
      /\ SameClock /\ Excuses' = Excuses
  BY DEF Top, files, counts, SameClock, SameCount, Excuses
<1>3. CASE pc' = "finish"
  BY <1>1, <1>2, <1>3, StepsAside
<1>4. CASE pc' # "finish"
  <2>1. /\ before' = <<questions, findings>> /\ pc' \in {"worked", "pick"}
        /\ pc' = "worked" <=> NoOpenQuestions(questions)
    BY <1>4 DEF Top, FinishWith, StateHash
  <2>2. before'[1] = questions /\ before'[2] = findings
    BY <2>1
  <2>3. CanStart(questions, meta, Excuses) /\ planned
    BY <1>1 DEF Converging, BetweenCycles, TypeInv, PlanFirst
  <2>4. Follows(questions, questions)
    BY <1>1, FollowsItself
  <2>5. /\ Covered(meta.last_cycle, questions, meta, Excuses)
        /\ meta.last_cycle + 1 <= Paid(questions) + Patience + Excuses
    BY <1>1, <2>3, StartCovered
  <2>6. BetweenCycles'
    BY <1>1, <1>2, <2>1, <2>3, <2>5 DEF BetweenCycles, Judged, Gating
  <2>7. UnderWay'
    BY <1>1, <1>2, <2>1, <2>2, <2>3, <2>4, <2>5 DEF UnderWay
  <2> QED
    BY <2>6, <2>7 DEF Converging
<1> QED
  BY <1>3, <1>4

(* The worker session, up to its end. *)
LEMMA WorkerConverging ==
  ASSUME TypeInv, TypeInv', InWork, Converging,
         \/ Pick
         \/ \E t \in targets : \/ WriteFinding(t) \/ SaveAnswer(t) \/ Fragment(t)
                                \/ GiveUp(t) \/ Fail(t)
  PROVE  Converging'
<1>1. /\ meta \in Meta /\ questions \in Seq(Question)
      /\ targets \subseteq DOMAIN questions /\ MaxNew \in Nat
  BY ConvergingTypes, RunAssumption
<1>2. /\ pc \in InCycle /\ pc' = "work" /\ SameClock /\ UNCHANGED <<before, stops, reopens>>
  BY DEF Pick, WriteFinding, SaveAnswer, Fragment, GiveUp, Fail, files, counts,
         SameClock, SameCount, InCycle
<1>3. /\ UnderWay /\ targets \subseteq DOMAIN before[1]
      /\ before[1] \in Seq(Question) /\ Follows(before[1], questions)
  BY <1>2 DEF Converging, UnderWay
<1>4. pc' \in InCycle \ {"pick"} /\ pc' \notin {"evaluate"} \cup Judged
  BY <1>2 DEF InCycle, Judged, Gating
<1>5. Follows(questions, questions)
  BY <1>1, FollowsItself
<1>6. CASE Pick
  <2>1. PICK T \in Picks(questions) :
          targets' = T /\ questions' = Claim(questions, T)
    BY <1>6 DEF Pick
  <2>2. T \in SUBSET Unresolved(questions)
    BY DEF Picks
  <2>3. Follows(questions, questions')
    BY <1>1, <2>1, <2>2, ClaimFollows
  <2>4. /\ questions = before[1] /\ ~NoOpenQuestions(questions)
        /\ findings' = findings /\ reads' = reads /\ answering = 0
    <3>1. pc = "pick" /\ reads = "neutral"
      BY <1>6 DEF Pick, Converging, BetweenCycles
    <3> QED
      BY <1>3, <1>6, <3>1, ConvergingTypes DEF Pick, UnderWay
  <2>5. T # {}
    <3>1. Cardinality(T) = ParallelQuestions \/ T = Unresolved(questions)
      BY DEF Picks
    <3>2. Cardinality({}) = 0
      BY FS_EmptySet
    <3> QED
      BY <2>4, <3>1, <3>2, QueueAssumption DEF NoOpenQuestions
  <2>6. targets' \subseteq DOMAIN before[1]
    BY <2>1, <2>2, <2>4 DEF Unresolved
  <2> QED
    BY <1>2, <1>4, <2>1, <2>3, <2>4, <2>5, <2>6, CycleGoesOn
<1>7. ASSUME NEW t \in targets, WriteFinding(t)
      PROVE  Converging'
  <2>1. /\ questions' = questions /\ targets' = targets /\ answering' = t
    BY <1>7 DEF WriteFinding
  <2>2. answering' # 0
    BY <1>1, <2>1
  <2>3. targets' # {}
    BY <2>1
  <2> QED
    BY <1>2, <1>3, <1>4, <1>5, <2>1, <2>2, <2>3, CycleGoesOn DEF UnderWay
<1>8. ASSUME NEW t \in targets, SaveAnswer(t) \/ Fragment(t) \/ GiveUp(t)
      PROVE  Converging'
  <2>1. t \in Unresolved(questions)
    BY <1>1 DEF InWork, Unresolved
  <2>2. \/ questions' = Answer(questions, t)
        \/ \E hard \in BOOLEAN : questions' = Block(questions, t, hard)
        \/ \E n \in Nat : questions' = Decompose(questions, t, n)
    <3>1. CASE SaveAnswer(t) \/ GiveUp(t)
      BY <3>1 DEF SaveAnswer, GiveUp
    <3>2. CASE Fragment(t)
      <4>1. PICK n \in 0..MaxNew : questions' = Decompose(questions, t, n)
        BY <3>2 DEF Fragment
      <4>2. n \in Nat
        BY <1>1
      <4> QED
        BY <4>1, <4>2
    <3> QED
      BY <1>8, <3>1, <3>2
  <2>3. /\ questions' \in Seq(Question) /\ Follows(questions, questions')
        /\ Advanced(questions[t], questions'[t])
    BY <1>1, <2>1, <2>2, ReturnedFollows
  <2>4. HasMoved'
    <3>1. t \in DOMAIN before[1]
      BY <1>3
    <3>2. Moved(before[1], questions')
      BY <1>1, <1>3, <2>3, <3>1, FollowsOn
    <3> QED
      BY <1>2, <3>2 DEF HasMoved
  <2>5. targets' \subseteq DOMAIN before[1]
    BY <1>3, <1>8 DEF SaveAnswer, Fragment, GiveUp
  <2> QED
    BY <1>2, <1>4, <2>3, <2>4, <2>5, CycleGoesOn
<1>9. ASSUME NEW t \in targets, Fail(t)
      PROVE  Converging'
  <2>1. /\ questions' = questions /\ targets' \subseteq targets
        /\ findings' = findings /\ reads' = reads /\ answering = 0
        /\ ParallelQuestions # 1 /\ pc' \notin Gating
    BY <1>2, <1>9, QueueAssumption DEF Fail, files, Gating
  <2> QED
    BY <1>2, <1>3, <1>4, <1>5, <2>1, CycleGoesOn
<1> QED
  BY <1>6, <1>7, <1>8, <1>9

(* The end of the worker session: what it says of an outage it says of     *)
(* pages that were read, or of a question that was given up.               *)
LEMMA EndWorkConverging ==
  ASSUME TypeInv, TypeInv', Converging, EndWork
  PROVE  Converging'
<1>1. /\ meta \in Meta /\ meta.last_cycle \in Nat /\ Excuses \in Nat
      /\ questions \in Seq(Question) /\ answering = 0 /\ targets = {}
      /\ reads \in {"neutral", "read", "outage"}
      /\ meta.read_outage_streak \in Nat
  BY ConvergingTypes DEF EndWork
<1>2. /\ UnderWay /\ pc = "work" /\ pc' = "worked" /\ reads' = "neutral"
      /\ UNCHANGED <<questions, findings, planned, before, targets, answering, stops,
                     reopens>>
      /\ Excuses' = Excuses
  BY DEF EndWork, Converging, InCycle, counts, Excuses
<1>3. CASE reads = "neutral"
  <2>1. meta' = meta
    BY <1>3 DEF EndWork
  <2>2. /\ pc \in InCycle /\ pc' \in InCycle \ {"pick"} /\ SameClock
        /\ pc' \notin {"evaluate"} \cup Judged
    BY <1>2, <2>1 DEF InCycle, Judged, Gating, SameClock, SameCount
  <2>3. Follows(questions, questions)
    BY <1>1, FollowsItself
  <2>4. \/ HasMoved' \/ NoOpenQuestions(before[1])
        \/ ParallelQuestions # 1 /\ pc' \notin Gating
    BY <1>1, <1>2, <2>2 DEF UnderWay, HasMoved, Judged
  <2> QED
    BY <1>1, <1>2, <1>3, <2>2, <2>3, <2>4, CycleGoesOn DEF UnderWay
<1>4. CASE reads # "neutral"
  <2>1. HasMoved /\ HasMoved'
    BY <1>1, <1>2, <1>4 DEF UnderWay, HasMoved
  <2>2. meta' \in Meta
    BY DEF TypeInv, TypeOK
  <2>3. meta'.last_cycle = meta.last_cycle
    BY <1>1, <1>4, OtherEdits DEF EndWork
  <2>4. Covered(meta.last_cycle + 1, questions, meta', Excuses)
    BY <1>2, <2>1, <2>2, CyclePaid
  <2>5. Covered(meta'.last_cycle, questions', meta', Excuses')
    <3>1. Credit(questions, meta') \in Nat /\ Paid(questions) \in Nat /\ Patience \in Nat
      BY <1>1, <2>2, CreditBounds, PaidFollows, FollowsItself
    <3> QED
      BY <1>1, <1>2, <2>3, <2>4, <3>1, SumsOfOne, CreditBounds, <2>2 DEF Covered
  <2>6. planned
    BY <1>2 DEF TypeInv, PlanFirst
  <2>7. BetweenCycles'
    BY <1>2, <2>5, <2>6 DEF BetweenCycles, Judged, Gating
  <2>8. UnderWay'
    BY <1>2, <2>1, <2>3 DEF UnderWay
  <2> QED
    BY <2>7, <2>8 DEF Converging
<1> QED
  BY <1>3, <1>4

(* The completion of a cycle that is paid for. *)
LEMMA CycleCompleted ==
  ASSUME TypeInv, TypeInv', Converging, pc \in InCycle \ {"pick", "work"},
         UNCHANGED <<questions, planned, stops, reopens, reads>>,
         cycle = meta.last_cycle + 1, NEW stalled, meta' = CompleteCycle(stalled),
         Covered(meta.last_cycle + 1, questions, meta', Excuses),
         pc' \in {"finish", "conclude", "top"},
         pc' # "finish" => /\ meta.read_outage_streak < MaxReadOutageCycles
                           /\ ~Worn(questions),
         pc' = "conclude" => meta'.stall_count = 0,
         pc' = "top" => meta'.stall_count < Patience /\ ~NoOpenQuestions(questions)
  PROVE  Converging'
<1>1. /\ meta \in Meta /\ meta' \in Meta
      /\ meta'.last_cycle = meta.last_cycle + 1
      /\ meta'.read_outage_streak = meta.read_outage_streak
  BY CompletedCounters DEF TypeInv, TypeOK
<1>2. Excuses' = Excuses /\ reads' = "neutral" /\ planned'
  BY DEF Excuses, Converging, BetweenCycles, TypeInv, PlanFirst, InCycle, Judged, Gating
<1>3. Covered(meta'.last_cycle, questions', meta', Excuses')
  BY <1>1, <1>2
<1>4. CASE pc' = "top"
  <2>1. Credit(questions, meta') < Patience
    BY <1>1, <1>4, CreditBounds
  <2> QED
    BY <1>2, <1>3, <1>4, <2>1, ArrivesAtTop DEF CanStart
<1>5. CASE pc' \in {"finish", "conclude"}
  <2>1. /\ pc' \notin InCycle \cup {"down", "drive", "plan_md", "top", "evaluate", "flip"}
        /\ pc' \notin Judged
    BY <1>5 DEF InCycle, Judged, Gating
  <2>2. BetweenCycles'
    BY <1>1, <1>2, <1>3, <1>5, <2>1 DEF BetweenCycles
  <2> QED
    BY <2>1, <2>2 DEF Converging
<1> QED
  BY <1>4, <1>5

(* The read-outage guard completes its cycle whether or not anything moved *)
(* in it.                                                                  *)
LEMMA AfterWorkConverging ==
  ASSUME TypeInv, TypeInv', VerdictInv, Converging, AfterWork
  PROVE  Converging'
<1>1. /\ meta \in Meta /\ meta' \in Meta /\ meta.last_cycle \in Nat
      /\ Excuses \in Nat /\ questions \in Seq(Question)
      /\ meta.read_outage_streak \in Nat /\ MaxReadOutageCycles \in Nat
      /\ reads = "neutral" /\ targets = {} /\ answering = 0
  BY ConvergingTypes DEF AfterWork, Converging, BetweenCycles, TypeInv, TypeOK
<1>2. /\ pc = "worked" /\ UnderWay /\ cycle = meta.last_cycle + 1
      /\ UNCHANGED <<questions, findings, planned, before, targets, reads, answering,
                     stops, reopens>>
  BY DEF AfterWork, Converging, InCycle, VerdictInv, Cycling, Working, counts
<1>3. CASE pc' = "finish" /\ UNCHANGED meta
  BY <1>1, <1>2, <1>3, StepsAside DEF SameClock, SameCount
<1>4. CASE /\ pc' = "finish" /\ meta' = CompleteCycle(FALSE)
           /\ meta.read_outage_streak >= MaxReadOutageCycles
  <2>1. meta'.read_outage_streak = meta.read_outage_streak
    BY <1>1, <1>4, CompletedCounters
  <2>2. CASE ParallelQuestions = 1 \/ NoOpenQuestions(questions)
    <3>1. Covered(meta.last_cycle + 1, questions, meta', Excuses)
      BY <1>1, <1>2, <2>2, MovedOrIdle, CyclePaid
    <3> QED
      BY <1>2, <1>4, <3>1, CycleCompleted DEF InCycle
  <2>3. CASE ~NoOpenQuestions(questions)
    <3>1. Credit(questions, meta') = Patience
      BY <1>1, <1>4, <2>1, <2>3, CreditBounds
    <3>2. /\ Paid(before[1]) <= Paid(questions) /\ Paid(before[1]) \in Nat
          /\ Paid(questions) \in Nat /\ Patience \in Nat
          /\ meta.last_cycle + 1 <= Paid(before[1]) + Patience + Excuses
      BY <1>1, <1>2, PaidFollows, CreditBounds DEF UnderWay
    <3>3. Covered(meta.last_cycle + 1, questions, meta', Excuses)
      BY <1>1, <3>1, <3>2, Sums DEF Covered
    <3> QED
      BY <1>2, <1>4, <3>3, CycleCompleted DEF InCycle
  <2> QED
    BY <2>2, <2>3
<1>5. CASE /\ pc' = "evaluate" /\ UNCHANGED meta
           /\ ~(meta.read_outage_streak >= MaxReadOutageCycles)
  <2>1. /\ pc \in InCycle /\ pc' \in InCycle \ {"pick"} /\ SameClock
        /\ pc' \notin Judged
        /\ meta.read_outage_streak < MaxReadOutageCycles
    BY <1>1, <1>2, <1>5 DEF InCycle, Judged, Gating, SameClock, SameCount
  <2>2. Follows(questions, questions)
    BY <1>1, FollowsItself
  <2>3. \/ HasMoved' \/ NoOpenQuestions(before[1])
        \/ ParallelQuestions # 1 /\ pc' \notin Gating
    BY <1>2, <2>1 DEF UnderWay, HasMoved, Judged
  <2> QED
    BY <1>1, <1>2, <2>1, <2>2, <2>3, CycleGoesOn DEF UnderWay
<1> QED
  BY <1>3, <1>4, <1>5 DEF AfterWork, FinishWith
(* The sessions of the evaluator and of the gate, and what they write.     *)
LEMMA JudgeConverging ==
  ASSUME TypeInv, TypeInv', Converging,
         \/ Evaluate \/ RecordVerdict
         \/ FinalEvaluate \/ RecordFinalVerdict \/ BumpFinalEval
  PROVE  Converging'
<1>1. /\ meta \in Meta /\ questions \in Seq(Question) /\ MaxNew \in Nat
      /\ targets = {} /\ answering = 0 /\ reads = "neutral"
      /\ meta.read_outage_streak < MaxReadOutageCycles
  BY ConvergingTypes, RunAssumption
  DEF Evaluate, RecordVerdict, FinalEvaluate, RecordFinalVerdict, BumpFinalEval,
      Converging, BetweenCycles, Judged, Gating
<1>2. /\ pc \in InCycle \ {"pick", "work"} /\ pc' \in Judged
      /\ pc' \in InCycle \ {"pick"} /\ pc' # "work"
      /\ pc' \in Gating => pc \in Gating
      /\ UNCHANGED <<findings, before, targets, reads, answering, stops, reopens>>
  BY DEF Evaluate, RecordVerdict, FinalEvaluate, RecordFinalVerdict, BumpFinalEval,
         InCycle, Judged, Gating, counts
<1>3. SameClock
  <2>1. SameCount(meta, meta)
    BY DEF SameCount
  <2>2. CASE BumpFinalEval
    BY <1>1, <2>2, OtherCounters, Zenon DEF BumpFinalEval, SameClock
  <2>3. CASE ~BumpFinalEval
    BY <2>1, <2>3
    DEF Evaluate, RecordVerdict, FinalEvaluate, RecordFinalVerdict, SameClock
  <2> QED
    BY <2>2, <2>3
<1>4. UnderWay /\ before[1] \in Seq(Question) /\ Follows(before[1], questions)
  BY <1>2 DEF Converging, UnderWay
<1>5. Follows(questions, questions') /\ ~Worn(questions')
  <2>1. CASE Evaluate \/ FinalEvaluate
    <3>1. PICK closes \in SUBSET Unresolved(questions), n \in 0..MaxNew :
            questions' = Judge(questions, closes, n)
      BY <2>1 DEF Evaluate, FinalEvaluate, ApplyJudgment
    <3>2. n \in Nat
      BY <1>1
    <3> QED
      BY <1>1, <3>1, <3>2, JudgeFollows
  <2>2. CASE RecordVerdict \/ RecordFinalVerdict \/ BumpFinalEval
    BY <1>1, <2>2, FollowsItself
    DEF RecordVerdict, RecordFinalVerdict, BumpFinalEval, Converging, BetweenCycles,
        Judged, Gating
  <2> QED
    BY <2>1, <2>2
<1>6. HasMoved => HasMoved'
  <2>1. questions' \in Seq(Question)
    BY DEF TypeInv, TypeOK
  <2> QED
    BY <1>1, <1>2, <1>4, <1>5, <2>1, FollowsOn DEF HasMoved
<1>7. \/ HasMoved' \/ NoOpenQuestions(before[1])
      \/ ParallelQuestions # 1 /\ pc' \notin Gating
  BY <1>2, <1>4, <1>6 DEF UnderWay
<1> QED
  BY <1>1, <1>2, <1>3, <1>5, <1>7, CycleGoesOn

(* A cycle in which nothing moved costs a step of the stall guard.         *)
LEMMA StallCovered ==
  ASSUME NEW qs \in Seq(Question), NEW m \in Meta, NEW k \in Meta, NEW e \in Nat,
         ~NoOpenQuestions(qs), ~Worn(qs), CanStart(qs, m, e),
         m.read_outage_streak < MaxReadOutageCycles,
         k.read_outage_streak = m.read_outage_streak,
         k.stall_count = m.stall_count + 1
  PROVE  Covered(m.last_cycle + 1, qs, k, e)
<1>1. /\ m.last_cycle \in Nat /\ m.stall_count \in Nat
      /\ Patience \in Nat \ {0} /\ Paid(qs) \in Nat
  BY CreditBounds, PaidFollows, FollowsItself DEF Meta
<1>2. /\ Credit(qs, m) = IF m.stall_count < Patience THEN m.stall_count ELSE Patience
      /\ Credit(qs, k) = IF k.stall_count < Patience THEN k.stall_count ELSE Patience
      /\ Credit(qs, m) \in Nat /\ Credit(qs, k) \in Nat
  BY CreditBounds
<1>3. \A n, p \in Nat : LET least(a) == IF a < p THEN a ELSE p
                       IN  /\ least(n) <= least(n + 1)
                           /\ least(n) < p => least(n) + 1 = least(n + 1)
  OBVIOUS
<1>4. /\ Credit(qs, m) <= Credit(qs, k)
      /\ Credit(qs, m) < Patience => Credit(qs, m) + 1 = Credit(qs, k)
  BY <1>1, <1>2, <1>3
<1>5. CASE Covered(m.last_cycle + 1, qs, m, e)
  BY <1>1, <1>2, <1>4, <1>5, SumsOfOne DEF Covered
<1>6. CASE Covered(m.last_cycle, qs, m, e) /\ Credit(qs, m) < Patience
  <2>1. Credit(qs, m) < Credit(qs, k)
    BY <1>2, <1>4, <1>6
  <2> QED
    BY <1>1, <1>2, <1>6, <2>1, SumsOfOne DEF Covered
<1> QED
  BY <1>5, <1>6 DEF CanStart

(* The driver's branch on the verdict of the evaluator.                    *)
LEMMA VerdictConverging ==
  ASSUME TypeInv, TypeInv', VerdictInv, Converging, ReadVerdict
  PROVE  Converging'
<1>1. /\ meta \in Meta /\ meta' \in Meta /\ meta.last_cycle \in Nat
      /\ Excuses \in Nat /\ questions \in Seq(Question)
      /\ targets = {} /\ answering = 0 /\ reads = "neutral"
      /\ meta.read_outage_streak < MaxReadOutageCycles /\ ~Worn(questions)
  BY ConvergingTypes
  DEF ReadVerdict, Converging, BetweenCycles, Judged, TypeInv, TypeOK
<1>2. /\ pc = "judge" /\ UnderWay /\ cycle = meta.last_cycle + 1
      /\ pc \in InCycle \ {"pick", "work"}
      /\ before = <<before[1], before[2]>> /\ before[1] \in Seq(Question)
      /\ Follows(before[1], questions)
      /\ UNCHANGED <<questions, findings, planned, before, targets, reads, answering,
                     stops, reopens>>
  BY DEF ReadVerdict, Converging, UnderWay, InCycle, Judged, VerdictInv, Cycling,
         counts
<1>3. ASSUME ~NoOpenQuestions(questions), CloseCycle, StateHash = before
      PROVE  Converging'
  <2>1. questions = before[1] /\ meta' = CompleteCycle(TRUE)
    BY <1>2, <1>3 DEF CloseCycle, StateHash
  <2>2. ~HasMoved /\ ParallelQuestions # 1
    BY <1>1, <1>2, <1>3, <2>1, FollowsItself DEF UnderWay, HasMoved
  <2>3. CanStart(questions, meta, Excuses)
    BY <1>2, <2>1, <2>2 DEF UnderWay
  <2>4. /\ meta'.read_outage_streak = meta.read_outage_streak
        /\ meta'.stall_count = meta.stall_count + 1
    BY <1>1, <2>1, CompletedCounters
  <2>5. Covered(meta.last_cycle + 1, questions, meta', Excuses)
    BY <1>1, <1>3, <2>3, <2>4, StallCovered
  <2>6. /\ pc' \in {"finish", "top"}
        /\ pc' = "top" => meta'.stall_count < Patience
    <3>1. meta'.stall_count \in Nat /\ StallCycles \in Nat
      BY <1>1, RunAssumption DEF Meta
    <3> QED
      BY <1>3, <2>2, <3>1 DEF CloseCycle, FinishWith, NextCycle, Patience
  <2> QED
    BY <1>1, <1>2, <1>3, <2>1, <2>5, <2>6, CycleCompleted
<1>4. ASSUME ~NoOpenQuestions(questions), CloseCycle, StateHash # before
      PROVE  Converging'
  <2>1. meta' = CompleteCycle(FALSE) /\ pc' = "top"
    BY <1>4 DEF CloseCycle, NextCycle
  <2>2. HasMoved \/ NoOpenQuestions(before[1])
    <3>1. CASE ParallelQuestions = 1
      BY <1>2, <3>1, MovedOrIdle
    <3>2. CASE ParallelQuestions # 1 /\ ~HasMoved
      <4>1. questions = before[1]
        BY <1>1, <1>2, <3>2, FollowsStill DEF HasMoved
      <4>2. findings = before[2]
        BY <1>1, <1>2, <3>2 DEF UnderWay
      <4> QED
        BY <1>2, <1>4, <4>1, <4>2 DEF StateHash
    <3> QED
      BY <3>1, <3>2
  <2>3. Covered(meta.last_cycle + 1, questions, meta', Excuses)
    BY <1>1, <1>2, <2>2, CyclePaid
  <2>4. meta'.stall_count < Patience
    <3>1. meta'.stall_count = 0 /\ Patience \in Nat \ {0}
      BY <1>1, <2>1, CompletedCounters, CreditBounds
    <3> QED
      BY <3>1
  <2> QED
    BY <1>1, <1>2, <1>4, <2>1, <2>3, <2>4, CycleCompleted
<1>5. ASSUME NoOpenQuestions(questions)
      PROVE  /\ HasMoved \/ NoOpenQuestions(before[1])
             /\ \A m \in Meta : Covered(meta.last_cycle + 1, questions, m, Excuses)
  BY <1>2, <1>5, MovedOrIdle, CyclePaid
<1>6. ASSUME NoOpenQuestions(questions), meta' = CompleteCycle(FALSE),
             pc' \in {"conclude", "finish"}
      PROVE  Converging'
  <2>1. meta'.stall_count = 0
    BY <1>1, <1>6, CompletedCounters
  <2> QED
    BY <1>1, <1>2, <1>5, <1>6, <2>1, CycleCompleted
<1>7. CASE NoOpenQuestions(questions) /\ AcceptPass
  <2>1. CASE Conclude
    BY <1>6, <1>7, <2>1 DEF Conclude
  <2>2. CASE pc' = "finish" /\ UNCHANGED meta
    BY <1>1, <1>2, <2>2, StepsAside DEF SameClock, SameCount
  <2>3. CASE pc' = "gate" /\ UNCHANGED meta
    <3>1. pc' \in InCycle \ {"pick"} /\ pc' \in Gating /\ SameClock
      BY <2>3 DEF InCycle, Judged, Gating, SameClock, SameCount
    <3>2. Follows(questions, questions)
      BY <1>1, FollowsItself
    <3>3. HasMoved' \/ NoOpenQuestions(before[1])
      BY <1>2, <1>5, <1>7 DEF HasMoved
    <3> QED
      BY <1>1, <1>2, <2>3, <3>1, <3>2, <3>3, CycleGoesOn
  <2> QED
    BY <1>7, <2>1, <2>2, <2>3 DEF AcceptPass, FinishWith
<1>8. CASE NoOpenQuestions(questions) /\ Exhaust
  BY <1>6, <1>8 DEF Exhaust, FinishWith
<1> QED
  BY <1>3, <1>4, <1>7, <1>8 DEF ReadVerdict
(* The driver's branch on the verdict of the final gate, to which it comes *)
(* only by a cycle that has moved or had nothing left to work on.          *)
LEMMA FinalVerdictConverging ==
  ASSUME TypeInv, TypeInv', VerdictInv, Converging, ReadFinalVerdict
  PROVE  Converging'
<1>1. /\ meta \in Meta /\ meta' \in Meta
      /\ meta.read_outage_streak < MaxReadOutageCycles /\ ~Worn(questions)
  BY DEF ReadFinalVerdict, Converging, BetweenCycles, Judged, Gating, TypeInv, TypeOK
<1>2. /\ pc = "gate_judge" /\ pc \in Gating /\ UnderWay
      /\ cycle = meta.last_cycle + 1
      /\ pc \in InCycle \ {"pick", "work"}
      /\ UNCHANGED <<questions, planned, reads, stops, reopens>>
  BY DEF ReadFinalVerdict, Converging, InCycle, Judged, Gating, VerdictInv, Cycling,
         counts
<1>3. /\ meta' = CompleteCycle(FALSE)
      /\ pc' \in {"finish", "conclude", "top"}
      /\ pc' = "top" => ~NoOpenQuestions(questions)
  BY DEF ReadFinalVerdict, NextCycle, Conclude, Exhaust, FinishWith
<1>4. meta'.stall_count = 0 /\ Patience \in Nat \ {0}
  BY <1>1, <1>3, CompletedCounters, CreditBounds
<1>5. Covered(meta.last_cycle + 1, questions, meta', Excuses)
  BY <1>1, <1>2, MovedOrIdle, CyclePaid
<1>6. meta'.stall_count < Patience
  BY <1>4
<1> QED
  BY <1>1, <1>2, <1>3, <1>4, <1>5, <1>6, CycleCompleted

(* The change of waves starts a cycle with questions that are new. *)
LEMMA WaveConverging ==
  ASSUME TypeInv, TypeInv', Converging, AdvanceToDepth \/ SetWave
  PROVE  Converging'
<1>1. /\ meta \in Meta /\ meta' \in Meta /\ meta.last_cycle \in Nat
      /\ Excuses \in Nat /\ Excuses' = Excuses
      /\ questions \in Seq(Question) /\ questions' \in Seq(Question)
      /\ reads = "neutral" /\ reads' = "neutral" /\ planned /\ planned'
      /\ UNCHANGED <<stops, reopens, planned>>
  BY ConvergingTypes
  DEF AdvanceToDepth, SetWave, Converging, BetweenCycles, Judged, Gating, TypeInv,
      TypeOK, PlanFirst, Excuses, counts
<1>2. /\ Covered(meta.last_cycle, questions, meta, Excuses)
      /\ ~Worn(questions) /\ meta.stall_count = 0
      /\ meta.read_outage_streak < MaxReadOutageCycles
  BY DEF AdvanceToDepth, SetWave, Converging, BetweenCycles
<1>3. CASE AdvanceToDepth /\ pc' = "finish"
  <2>1. UNCHANGED <<meta, questions>>
    BY <1>3 DEF AdvanceToDepth
  <2> QED
    BY <1>1, <1>3, <2>1, StepsAside DEF SameClock, SameCount
<1>4. CASE AdvanceToDepth /\ pc' = "flip"
  <2>1. UNCHANGED meta /\ \E ps \in DepthParents : questions' = Deepen(questions, ps)
    BY <1>4 DEF AdvanceToDepth, FinishWith
  <2>2. PICK ps \in DepthParents : questions' = Deepen(questions, ps)
    BY <2>1
  <2>3. PICK n \in 1..DepthFindings : ps \in [1..n -> findings]
    BY DEF DepthParents
  <2>4. n \in Nat \ {0} /\ ps \in [1..n -> DOMAIN questions]
    <3>1. findings \subseteq DOMAIN questions
      BY DEF TypeInv, TypeOK
    <3>2. DepthFindings \in Nat
      BY RunAssumption
    <3> QED
      BY <2>3, <3>1, <3>2
  <2>5. /\ Follows(questions, questions')
        /\ ~Worn(questions') /\ ~NoOpenQuestions(questions')
    BY <1>1, <1>2, <2>2, <2>4, DeepenFollows
  <2>6. Covered(meta'.last_cycle, questions', meta', Excuses')
    BY <1>1, <1>2, <2>1, <2>5, CoveredFollows
  <2> QED
    BY <1>1, <1>2, <1>4, <2>1, <2>5, <2>6
    DEF Converging, BetweenCycles, InCycle, Judged, Gating
<1>5. CASE SetWave
  <2>1. /\ UNCHANGED questions /\ SameClock /\ pc' = "top"
        /\ ~NoOpenQuestions(questions)
    <3>1. SameClock
      BY <1>1, <1>5, OtherCounters, Zenon DEF SetWave, SameClock
    <3> QED
      BY <1>5, <3>1 DEF SetWave, NextCycle, Converging, BetweenCycles
  <2>2. Credit(questions, meta) < Patience
    <3>1. Patience \in Nat \ {0}
      BY <1>1, CreditBounds
    <3>2. meta.stall_count < Patience
      BY <1>2, <3>1
    <3>3. Credit(questions, meta) = meta.stall_count
      BY <1>1, <1>2, <2>1, <3>2, CreditBounds
    <3> QED
      BY <3>2, <3>3
  <2>3. CanStart(questions, meta, Excuses)
    BY <1>2, <2>1, <2>2 DEF CanStart
  <2>4. CanStart(questions', meta', Excuses')
    BY <1>1, <2>1, <2>3, SameCover
  <2> QED
    BY <1>1, <2>1, <2>4, ArrivesAtTop
<1> QED
  BY <1>3, <1>4, <1>5 DEF AdvanceToDepth, FinishWith

(* Every step keeps the account of the cycles. *)
LEMMA NextConverging ==
  TypeInv /\ TypeInv' /\ InWork /\ VerdictInv /\ Converging /\ [Next]_vars => Converging'
<1> SUFFICES ASSUME TypeInv, TypeInv', InWork, VerdictInv, Converging, [Next]_vars
             PROVE  Converging'
  OBVIOUS
<1>1. CASE UNCHANGED vars
  BY <1>1
  DEF vars, files, process, counts, Converging, BetweenCycles, UnderWay, HasMoved,
      Excuses, CanStart, Covered
<1> QED
  BY <1>1, OutsideConverging, TopConverging, WorkerConverging, EndWorkConverging,
     AfterWorkConverging, JudgeConverging, VerdictConverging, FinalVerdictConverging,
     WaveConverging
  DEF Next, DriverStep, WorkStep, JudgeStep, FinishStep, Finished

(* A run that was just created has completed no cycle. *)
LEMMA InitConverging == Init => Converging
<1> SUFFICES ASSUME Init PROVE Converging
  OBVIOUS
<1>1. /\ questions \in Seq(Question) /\ meta \in Meta /\ meta.last_cycle = 0
      /\ meta.stall_count = 0 /\ meta.read_outage_streak = 0 /\ Excuses = 0
      /\ pc = "drive" /\ ~planned /\ reads = "neutral"
  <2>1. TypeInv
    BY InitTypeInv
  <2> QED
    BY <2>1 DEF Init, TypeInv, TypeOK, Excuses
<1>2. Paid(questions) \in Nat /\ Credit(questions, meta) \in Nat
  BY <1>1, PaidFollows, FollowsItself, CreditBounds
<1>3. Covered(meta.last_cycle, questions, meta, Excuses)
  BY <1>1, <1>2 DEF Covered
<1> QED
  BY <1>1, <1>3 DEF Converging, BetweenCycles, InCycle, Judged, Gating

(* What the questions of a list can pay for, with what is completed in     *)
(* advance, is the cycles of each of them.                                 *)
LEMMA AccountBounded ==
  ASSUME NEW qs \in Seq(Question), NEW m \in Meta
  PROVE  /\ Len(qs) * CyclesPerQuestion \in Nat
         /\ Paid(qs) + Credit(qs, m) <= Len(qs) * CyclesPerQuestion
<1> DEFINE all == Len(qs) * StepsPerQuestion
<1>1. /\ all \in Nat /\ NumSpent(qs) \in Nat /\ NumSpent(qs) <= all
      /\ ~NoOpenQuestions(qs) => NumSpent(qs) < all
  BY NumSpentBounds
<1>2. /\ Patience \in Nat /\ Credit(qs, m) \in Nat /\ Credit(qs, m) <= Patience
      /\ NoOpenQuestions(qs) => Credit(qs, m) = 0
  BY CreditBounds
<1>3. /\ Len(qs) \in Nat /\ StepsPerQuestion \in Nat /\ CyclesPerQuestion \in Nat
      /\ StepsPerQuestion * Patience = CyclesPerQuestion
  <2>1. RetireBlockedAfter \in Nat /\ StallCycles \in Nat
    BY QueueAssumption, RunAssumption
  <2>2. CASE ParallelQuestions = 1
    BY <2>1, <2>2
    DEF StepsPerQuestion, StepsToSettle, Newborn, Patience, CyclesPerQuestion
  <2>3. CASE ParallelQuestions # 1
    <3>1. /\ StepsPerQuestion = 2 * RetireBlockedAfter + 1
          /\ Patience = StallCycles
          /\ CyclesPerQuestion = StallCycles * (2 * RetireBlockedAfter + 1)
      BY <2>3
      DEF StepsPerQuestion, StepsToSettle, Newborn, Patience, CyclesPerQuestion
    <3>2. \A a, b \in Nat : a * b = b * a /\ a * b \in Nat
      OBVIOUS
    <3>3. 2 * RetireBlockedAfter + 1 \in Nat
      BY <2>1
    <3> QED
      BY <2>1, <3>1, <3>2, <3>3
  <2> QED
    BY <2>2, <2>3
<1> HIDE DEF all
<1>4. \A a, b, c \in Nat : a <= b => a * c <= b * c
  OBVIOUS
<1>5. \A a, c \in Nat : (a + 1) * c = a * c + c /\ a * c \in Nat
  OBVIOUS
<1>6. all * Patience = Len(qs) * CyclesPerQuestion
  <2>1. \A a, b, c \in Nat : (a * b) * c = a * (b * c)
    OBVIOUS
  <2> QED
    BY <1>2, <1>3, <2>1 DEF all
<1>7. Paid(qs) + Credit(qs, m) <= all * Patience
  <2>1. CASE NoOpenQuestions(qs)
    <3>1. Paid(qs) <= all * Patience /\ Paid(qs) \in Nat
      BY <1>1, <1>2, <1>4, <1>5 DEF Paid
    <3> QED
      BY <1>2, <2>1, <3>1
  <2>2. CASE ~NoOpenQuestions(qs)
    <3>1. NumSpent(qs) + 1 <= all /\ NumSpent(qs) + 1 \in Nat
      BY <1>1, <2>2
    <3>2. Paid(qs) + Patience <= all * Patience /\ Paid(qs) \in Nat
                                          /\ all * Patience \in Nat
      BY <1>1, <1>2, <1>4, <1>5, <3>1 DEF Paid
    <3> QED
      BY <1>2, <3>2
  <2> QED
    BY <2>1, <2>2
<1> QED
  BY <1>1, <1>2, <1>5, <1>6, <1>7

(* The run converges by itself: it completes no more cycles than the       *)
(* questions on the list can keep it going for, each of them for so many   *)
(* blocked attempts, claims and idle cycles of the stall guard, whatever   *)
(* the sessions answer, and one more for each early stop or forced resume. *)
THEOREM ConvergenceCorrect == Spec => []ConvergesByItself
<1>1. Init => VerdictInv
  BY RunAssumption DEF Init, VerdictInv, Cycling, Working, Gating
<1>2. TypeInv /\ InWork /\ [Next]_vars => InWork'
  BY QuestionMoves
<1>3. Init => InWork
  BY DEF Init, InWork
<1>4. Spec => [](TypeInv /\ InWork /\ VerdictInv /\ Converging)
  BY <1>1, <1>2, <1>3, InitTypeInv, NextTypeInv, NextVerdictInv, InitConverging,
     NextConverging, PTL DEF Spec
<1>5. TypeInv /\ Converging => ConvergesByItself
  <2> SUFFICES ASSUME TypeInv, Converging PROVE ConvergesByItself
    OBVIOUS
  <2>1. /\ questions \in Seq(Question) /\ meta \in Meta /\ meta.last_cycle \in Nat
        /\ stops \in Nat /\ reopens \in Nat
    BY ConvergingTypes
  <2>2. meta.last_cycle <= Paid(questions) + Credit(questions, meta) + (stops + reopens)
    BY DEF Converging, BetweenCycles, Covered, Excuses
  <2>3. /\ Paid(questions) \in Nat /\ Credit(questions, meta) \in Nat
        /\ Len(questions) * CyclesPerQuestion \in Nat
        /\ Paid(questions) + Credit(questions, meta) <= Len(questions) * CyclesPerQuestion
    BY <2>1, PaidFollows, FollowsItself, CreditBounds, AccountBounded
  <2> DEFINE bound == Len(questions) * CyclesPerQuestion
  <2> HIDE DEF bound
  <2>4. \A n, p, c, b, s, r \in Nat :
          n <= p + c + (s + r) /\ p + c <= b => n <= b + s + r
    OBVIOUS
  <2>5. meta.last_cycle <= bound + stops + reopens
    BY <2>1, <2>2, <2>3, <2>4 DEF bound
  <2> QED
    BY <2>5 DEF ConvergesByItself, bound
<1> QED
  BY <1>4, <1>5, PTL
=============================================================================
