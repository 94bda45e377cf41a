------------------------- MODULE QuestionQueue_proofs -------------------------
(***************************************************************************)
(* What the operators of QuestionQueue return, whatever the list: they     *)
(* keep its type, they never mark more questions in_progress than one      *)
(* batch holds, and only Answer makes a question answered.                 *)
(***************************************************************************)
EXTENDS QuestionQueue, FiniteSetTheorems, TLAPS

(* A function over 1..n is a sequence.                                     *)
LEMMA TabledSeq ==
  ASSUME NEW S, NEW n \in Nat, NEW f \in [1..n -> S]
  PROVE  f \in Seq(S) /\ Len(f) = n
OBVIOUS

(* Rewriting the elements of a sequence in place gives a sequence.         *)
LEMMA RewrittenSeq ==
  ASSUME NEW S, NEW qs \in Seq(S), NEW f \in [DOMAIN qs -> S]
  PROVE  f \in Seq(S) /\ DOMAIN f = DOMAIN qs /\ Len(f) = Len(qs)
<1>1. DOMAIN qs = 1..Len(qs) /\ Len(qs) \in Nat
  OBVIOUS
<1>2. f \in [1..Len(qs) -> S]
  BY <1>1
<1> QED
  BY <1>1, <1>2, TabledSeq

(* A list that starts with qs keeps every question of qs where it was.     *)
LEMMA AppendedSeq ==
  ASSUME NEW S, NEW qs \in Seq(S), NEW new \in Seq(S)
  PROVE  /\ qs \o new \in Seq(S)
         /\ DOMAIN qs \subseteq DOMAIN (qs \o new)
         /\ \A i \in DOMAIN qs : (qs \o new)[i] = qs[i]
         /\ \A i \in DOMAIN (qs \o new) \ DOMAIN qs :
              i - Len(qs) \in DOMAIN new /\ (qs \o new)[i] = new[i - Len(qs)]
OBVIOUS

(* A question that has just been added is open, unblocked and unanswered.  *)
LEMMA FreshIsQuestion ==
  ASSUME NEW author \in Author, NEW parent \in Nat
  PROVE  /\ Fresh(author, parent) \in Question
         /\ Fresh(author, parent).status = "open"
         /\ ~Fresh(author, parent).answered
BY DEF Fresh, Question, Status

(* A session's new questions are open and unanswered questions.            *)
LEMMA FreshOnesType ==
  ASSUME NEW author \in Author, NEW n \in Nat
  PROVE  /\ FreshOnes(author, n) \in Seq(Question)
         /\ DOMAIN FreshOnes(author, n) = 1..n
         /\ \A i \in 1..n : /\ FreshOnes(author, n)[i].status = "open"
                            /\ ~FreshOnes(author, n)[i].answered
<1>1. FreshOnes(author, n) \in [1..n -> Question]
  BY FreshIsQuestion DEF FreshOnes
<1>2. FreshOnes(author, n) \in Seq(Question)
  BY <1>1, TabledSeq
<1>3. \A i \in 1..n : FreshOnes(author, n)[i] = Fresh(author, 0)
  BY DEF FreshOnes
<1> QED
  BY <1>1, <1>2, <1>3, FreshIsQuestion

-----------------------------------------------------------------------------
(* rs is a list that grew out of qs without a question being answered or   *)
(* taken in hand.                                                          *)
GrewIdly(qs, rs) ==
  /\ rs \in Seq(Question)
  /\ DOMAIN qs \subseteq DOMAIN rs
  /\ InProgress(rs) \subseteq InProgress(qs)
  /\ \A i \in DOMAIN rs : rs[i].answered => i \in DOMAIN qs /\ qs[i].answered

(* The edits that the queue makes to one question.                         *)
LEMMA EditedQuestion ==
  ASSUME NEW q \in Question, NEW s \in Status
  PROVE  /\ [q EXCEPT !.status = s] \in Question
         /\ [q EXCEPT !.status = s].status = s
         /\ [q EXCEPT !.status = s].answered = q.answered
BY DEF Question

(* A question saved as answered is a question.                             *)
LEMMA AnsweredQuestion ==
  ASSUME NEW q \in Question
  PROVE  /\ [q EXCEPT !.status = "resolved", !.answered = TRUE] \in Question
         /\ [q EXCEPT !.status = "resolved", !.answered = TRUE].status = "resolved"
BY DEF Question, Status

(* A question given up is a question, open and one or two blocks older.    *)
LEMMA BlockedQuestion ==
  ASSUME NEW q \in Question, NEW n \in Nat
  PROVE  /\ [q EXCEPT !.status = "open", !.blocked = @ + n] \in Question
         /\ [q EXCEPT !.status = "open", !.blocked = @ + n].status = "open"
         /\ [q EXCEPT !.status = "open", !.blocked = @ + n].answered = q.answered
<1> DEFINE r == [q EXCEPT !.status = "open", !.blocked = @ + n]
<1>1. q.blocked + n \in Nat
  BY DEF Question
<1>2. r \in Question
  BY <1>1, ZenonT(30) DEF Question, Status
<1>3. r.status = "open"
  BY ZenonT(30) DEF Question
<1>4. r.answered = q.answered
  BY ZenonT(30) DEF Question
<1> QED
  BY <1>2, <1>3, <1>4

(* A list with one question replaced.                                      *)
LEMMA ReplacedSeq ==
  ASSUME NEW S, NEW qs \in Seq(S), NEW t \in DOMAIN qs, NEW q \in S
  PROVE  /\ [qs EXCEPT ![t] = q] \in Seq(S)
         /\ DOMAIN [qs EXCEPT ![t] = q] = DOMAIN qs
         /\ \A i \in DOMAIN qs : [qs EXCEPT ![t] = q][i] = IF i = t THEN q ELSE qs[i]
OBVIOUS

(* Claiming questions keeps the list and its answers; the batch and the    *)
(* questions that were already in progress are in progress.                *)
LEMMA ClaimLemma ==
  ASSUME NEW qs \in Seq(Question), NEW T \in SUBSET DOMAIN qs
  PROVE  /\ Claim(qs, T) \in Seq(Question)
         /\ DOMAIN Claim(qs, T) = DOMAIN qs
         /\ InProgress(Claim(qs, T)) \subseteq InProgress(qs) \cup T
         /\ \A i \in DOMAIN qs : Claim(qs, T)[i].answered = qs[i].answered
<1>1. ASSUME NEW i \in DOMAIN qs
      PROVE  /\ Claim(qs, T)[i] \in Question
             /\ Claim(qs, T)[i].answered = qs[i].answered
             /\ i \notin T => Claim(qs, T)[i] = qs[i]
  <2>1. qs[i] \in Question
    OBVIOUS
  <2>2. Claim(qs, T)[i] = IF i \in T THEN [qs[i] EXCEPT !.status = "in_progress"]
                                     ELSE qs[i]
    BY DEF Claim
  <2>3. CASE i \in T
    <3> DEFINE q == [qs[i] EXCEPT !.status = "in_progress"]
    <3>1. Claim(qs, T)[i] = q
      BY <2>2, <2>3
    <3>2. "in_progress" \in Status
      BY DEF Status
    <3>3. q \in Question /\ q.answered = qs[i].answered
      BY <2>1, <3>2, EditedQuestion
    <3> HIDE DEF q
    <3> QED
      BY <2>3, <3>1, <3>3
  <2>4. CASE i \notin T
    <3>1. Claim(qs, T)[i] = qs[i]
      BY <2>2, <2>4
    <3> QED
      BY <2>1, <3>1
  <2> QED
    BY <2>3, <2>4
<1>2. Claim(qs, T) \in [DOMAIN qs -> Question]
  BY <1>1 DEF Claim
<1>3. /\ Claim(qs, T) \in Seq(Question)
      /\ DOMAIN Claim(qs, T) = DOMAIN qs
  BY <1>2, RewrittenSeq
<1>4. InProgress(Claim(qs, T)) \subseteq InProgress(qs) \cup T
  BY <1>1, <1>3 DEF InProgress
<1> QED
  BY <1>1, <1>3, <1>4

(* Answering a question resolves it and leaves every other as it was.      *)
LEMMA AnswerLemma ==
  ASSUME NEW qs \in Seq(Question), NEW t \in DOMAIN qs
  PROVE  /\ Answer(qs, t) \in Seq(Question)
         /\ DOMAIN Answer(qs, t) = DOMAIN qs
         /\ InProgress(Answer(qs, t)) \subseteq InProgress(qs)
         /\ \A i \in DOMAIN qs \ {t} : Answer(qs, t)[i] = qs[i]
<1> DEFINE q == [qs[t] EXCEPT !.status = "resolved", !.answered = TRUE]
<1>1. qs[t] \in Question
  OBVIOUS
<1>2. q \in Question /\ q.status = "resolved"
  BY <1>1, AnsweredQuestion
<1>3. Answer(qs, t) = [qs EXCEPT ![t] = q]
  BY DEF Answer
<1> HIDE DEF q
<1> QED
  BY <1>2, <1>3, ReplacedSeq DEF InProgress

(* A block puts the question back and counts one attempt or two.           *)
LEMMA BlockLemma ==
  ASSUME NEW qs \in Seq(Question), NEW t \in DOMAIN qs, NEW hard \in BOOLEAN
  PROVE  GrewIdly(qs, Block(qs, t, hard))
<1> DEFINE n == IF hard THEN 2 ELSE 1
           q == [qs[t] EXCEPT !.status = "open", !.blocked = @ + n]
<1>1. qs[t] \in Question
  OBVIOUS
<1>2. n \in Nat
  OBVIOUS
<1>3. Block(qs, t, hard) = [qs EXCEPT ![t] = q]
  BY DEF Block
<1> HIDE DEF n
<1>4. q \in Question /\ q.status = "open" /\ q.answered = qs[t].answered
  BY <1>1, <1>2, BlockedQuestion
<1> HIDE DEF q
<1> QED
  BY <1>3, <1>4, ReplacedSeq DEF InProgress, GrewIdly

(* A list that was only settled, question by question, and then extended   *)
(* with open and unanswered questions.                                     *)
LEMMA GrewIdlyByAppending ==
  ASSUME NEW qs \in Seq(Question), NEW rs \in Seq(Question),
         NEW new \in Seq(Question),
         GrewIdly(qs, rs), DOMAIN rs = DOMAIN qs,
         \A i \in DOMAIN new : new[i].status = "open" /\ ~new[i].answered
  PROVE  GrewIdly(qs, rs \o new)
<1>1. /\ rs \o new \in Seq(Question)
      /\ DOMAIN rs \subseteq DOMAIN (rs \o new)
      /\ \A i \in DOMAIN rs : (rs \o new)[i] = rs[i]
      /\ \A i \in DOMAIN (rs \o new) \ DOMAIN rs :
           i - Len(rs) \in DOMAIN new /\ (rs \o new)[i] = new[i - Len(rs)]
  BY AppendedSeq
<1> DEFINE ts == rs \o new
<1> HIDE DEF ts
<1>2. \A i \in DOMAIN ts \ DOMAIN rs : ts[i].status = "open" /\ ~ts[i].answered
  BY <1>1 DEF ts
<1>3. \A i \in DOMAIN rs : ts[i] = rs[i]
  BY <1>1 DEF ts
<1>4. InProgress(ts) \subseteq InProgress(rs)
  BY <1>2, <1>3 DEF InProgress
<1>5. \A i \in DOMAIN ts : ts[i].answered => i \in DOMAIN rs /\ rs[i].answered
  BY <1>2, <1>3
<1> QED
  BY <1>1, <1>4, <1>5 DEF ts, GrewIdly

(* A fragmented question is resolved and its children are appended.        *)
LEMMA DecomposeLemma ==
  ASSUME NEW qs \in Seq(Question), NEW t \in DOMAIN qs, NEW n \in Nat
  PROVE  GrewIdly(qs, Decompose(qs, t, n))
<1> DEFINE q == [qs[t] EXCEPT !.status = "resolved"]
           rs == [qs EXCEPT ![t] = q]
<1>1. qs[t] \in Question /\ "resolved" \in Status
  BY DEF Status
<1>2. q \in Question /\ q.status = "resolved" /\ q.answered = qs[t].answered
  BY <1>1, EditedQuestion
<1>3. Decompose(qs, t, n) = rs \o FreshOnes("worker", n)
  BY DEF Decompose
<1> HIDE DEF q
<1>4. GrewIdly(qs, rs) /\ rs \in Seq(Question) /\ DOMAIN rs = DOMAIN qs
  BY <1>2, ReplacedSeq DEF InProgress, GrewIdly
<1>5. /\ FreshOnes("worker", n) \in Seq(Question)
      /\ \A i \in DOMAIN FreshOnes("worker", n) :
           /\ FreshOnes("worker", n)[i].status = "open"
           /\ ~FreshOnes("worker", n)[i].answered
  BY FreshOnesType DEF Author
<1> HIDE DEF rs
<1> QED
  BY <1>3, <1>4, <1>5, GrewIdlyByAppending

(* An evaluator resolves questions and appends its own.                    *)
LEMMA JudgeLemma ==
  ASSUME NEW qs \in Seq(Question), NEW closes, NEW n \in Nat
  PROVE  GrewIdly(qs, Judge(qs, closes, n))
<1> DEFINE rs == [i \in DOMAIN qs |-> Settle(qs[i], i \in closes)]
<1>1. ASSUME NEW i \in DOMAIN qs
      PROVE  /\ rs[i] \in Question
             /\ rs[i].answered = qs[i].answered
             /\ rs[i].status = "in_progress" => qs[i].status = "in_progress"
  <2> DEFINE q == [qs[i] EXCEPT !.status = "resolved"]
  <2>1. qs[i] \in Question /\ "resolved" \in Status
    BY DEF Status
  <2>2. q \in Question /\ q.status = "resolved" /\ q.answered = qs[i].answered
    BY <2>1, EditedQuestion
  <2>3. rs[i] = q \/ rs[i] = qs[i]
    BY DEF Settle
  <2> HIDE DEF q, rs
  <2> QED
    BY <2>1, <2>2, <2>3
<1>2. rs \in [DOMAIN qs -> Question]
  BY <1>1
<1>3. rs \in Seq(Question) /\ DOMAIN rs = DOMAIN qs
  BY <1>2, RewrittenSeq
<1>4. Judge(qs, closes, n) = rs \o FreshOnes("evaluator", n)
  BY DEF Judge
<1> HIDE DEF rs
<1>5. GrewIdly(qs, rs)
  BY <1>1, <1>3 DEF InProgress, GrewIdly
<1>6. /\ FreshOnes("evaluator", n) \in Seq(Question)
      /\ \A i \in DOMAIN FreshOnes("evaluator", n) :
           /\ FreshOnes("evaluator", n)[i].status = "open"
           /\ ~FreshOnes("evaluator", n)[i].answered
  BY FreshOnesType DEF Author
<1> QED
  BY <1>3, <1>4, <1>5, <1>6, GrewIdlyByAppending

(* The DEPTH seeding only appends.                                         *)
LEMMA DeepenLemma ==
  ASSUME NEW qs \in Seq(Question), NEW n \in Nat,
         NEW parents \in [1..n -> DOMAIN qs]
  PROVE  GrewIdly(qs, Deepen(qs, parents))
<1> DEFINE new == [i \in DOMAIN parents |-> Fresh("depth", parents[i])]
<1>1. ASSUME NEW i \in 1..n
      PROVE  /\ new[i] \in Question
             /\ new[i].status = "open" /\ ~new[i].answered
  <2>1. new[i] = Fresh("depth", parents[i]) /\ parents[i] \in Nat
    OBVIOUS
  <2> QED
    BY <2>1, FreshIsQuestion DEF Author
<1>2. new \in [1..n -> Question]
  BY <1>1
<1>3. new \in Seq(Question) /\ DOMAIN new = 1..n
  BY <1>2, TabledSeq
<1>4. Deepen(qs, parents) = qs \o new
  BY DEF Deepen
<1> HIDE DEF new
<1>5. GrewIdly(qs, qs)
  BY DEF GrewIdly
<1> QED
  BY <1>1, <1>3, <1>4, <1>5, GrewIdlyByAppending

-----------------------------------------------------------------------------
(* A list has finitely many questions, so InProgress can be counted.       *)
LEMMA InProgressFinite ==
  ASSUME NEW qs \in Seq(Question)
  PROVE  IsFiniteSet(DOMAIN qs) /\ IsFiniteSet(InProgress(qs))
<1>1. DOMAIN qs = 1..Len(qs) /\ Len(qs) \in Nat
  OBVIOUS
<1>2. IsFiniteSet(DOMAIN qs)
  BY <1>1, FS_Interval
<1>3. InProgress(qs) \subseteq DOMAIN qs
  BY DEF InProgress
<1> QED
  BY <1>2, <1>3, FS_Subset

(* No batch leaves more questions in progress than fit one batch.          *)
LEMMA PicksLemma ==
  ASSUME NEW qs \in Seq(Question), NEW T \in Picks(qs),
         Cardinality(InProgress(qs)) <= ParallelQuestions
  PROVE  /\ T \subseteq DOMAIN qs
         /\ Cardinality(InProgress(Claim(qs, T))) <= ParallelQuestions
<1>1. T \subseteq DOMAIN qs
  BY DEF Picks, Unresolved
<1>2. IsFiniteSet(DOMAIN qs) /\ IsFiniteSet(InProgress(qs))
  BY InProgressFinite
<1>3. IsFiniteSet(T)
  BY <1>1, <1>2, FS_Subset
<1>4. Cardinality(T) <= ParallelQuestions
  BY QueueAssumption DEF Picks
<1>5. PICK U \in {T, InProgress(qs)} : InProgress(qs) \cup T \subseteq U
  BY DEF Picks
<1>6. /\ IsFiniteSet(U)
      /\ Cardinality(U) <= ParallelQuestions
  BY <1>2, <1>3, <1>4
<1>7. InProgress(Claim(qs, T)) \subseteq U
  BY <1>1, <1>5, ClaimLemma
<1>8. Cardinality(InProgress(Claim(qs, T))) <= Cardinality(U)
  BY <1>6, <1>7, FS_Subset
<1>9. /\ Cardinality(InProgress(Claim(qs, T))) \in Nat
      /\ Cardinality(U) \in Nat
  BY <1>6, <1>7, FS_Subset, FS_CardinalityType
<1> QED
  BY <1>1, <1>6, <1>8, <1>9, QueueAssumption

(* What only grew idly has no more questions in progress.                  *)
LEMMA IdleCardinality ==
  ASSUME NEW qs \in Seq(Question), NEW rs,
         InProgress(rs) \subseteq InProgress(qs),
         Cardinality(InProgress(qs)) <= ParallelQuestions
  PROVE  Cardinality(InProgress(rs)) <= ParallelQuestions
<1>1. IsFiniteSet(InProgress(qs))
  BY InProgressFinite
<1>2. /\ Cardinality(InProgress(rs)) <= Cardinality(InProgress(qs))
      /\ Cardinality(InProgress(rs)) \in Nat
      /\ Cardinality(InProgress(qs)) \in Nat
  BY <1>1, FS_Subset, FS_CardinalityType
<1> QED
  BY <1>2, QueueAssumption

-----------------------------------------------------------------------------
(* What no rewrite of the list changes: the author and parent of a         *)
(* question, all of a resolved question, and that it is in the list.       *)
Kept(qs, rs) ==
  /\ rs \in Seq(Question)
  /\ Len(rs) >= Len(qs)
  /\ \A i \in DOMAIN qs :
       /\ rs[i].by = qs[i].by /\ rs[i].parent = qs[i].parent
       /\ qs[i].status = "resolved" => rs[i] = qs[i]

(* The edits of a question change neither its author nor its parent.       *)
LEMMA StatusKeepsOrigin ==
  ASSUME NEW q \in Question, NEW s \in Status
  PROVE  /\ [q EXCEPT !.status = s].by = q.by
         /\ [q EXCEPT !.status = s].parent = q.parent
BY DEF Question

LEMMA AnswerKeepsOrigin ==
  ASSUME NEW q \in Question
  PROVE  /\ [q EXCEPT !.status = "resolved", !.answered = TRUE].by = q.by
         /\ [q EXCEPT !.status = "resolved", !.answered = TRUE].parent = q.parent
<1>1. [q EXCEPT !.status = "resolved", !.answered = TRUE].by = q.by
  BY ZenonT(30) DEF Question
<1>2. [q EXCEPT !.status = "resolved", !.answered = TRUE].parent = q.parent
  BY ZenonT(30) DEF Question
<1> QED
  BY <1>1, <1>2

LEMMA BlockKeepsOrigin ==
  ASSUME NEW q \in Question, NEW n \in Nat
  PROVE  /\ [q EXCEPT !.status = "open", !.blocked = @ + n].by = q.by
         /\ [q EXCEPT !.status = "open", !.blocked = @ + n].parent = q.parent
<1>1. [q EXCEPT !.status = "open", !.blocked = @ + n].by = q.by
  BY ZenonT(30) DEF Question
<1>2. [q EXCEPT !.status = "open", !.blocked = @ + n].parent = q.parent
  BY ZenonT(30) DEF Question
<1> QED
  BY <1>1, <1>2

(* One unresolved question is replaced by an edit of it. *)
LEMMA ReplacedKept ==
  ASSUME NEW qs \in Seq(Question), NEW t \in Unresolved(qs), NEW q \in Question,
         q.by = qs[t].by, q.parent = qs[t].parent
  PROVE  /\ Kept(qs, [qs EXCEPT ![t] = q])
         /\ DOMAIN [qs EXCEPT ![t] = q] = DOMAIN qs
         /\ Len([qs EXCEPT ![t] = q]) = Len(qs)
         /\ \A i \in DOMAIN qs \ {t} : [qs EXCEPT ![t] = q][i] = qs[i]
<1>1. t \in DOMAIN qs /\ qs[t].status # "resolved"
  BY DEF Unresolved
<1> DEFINE rs == [qs EXCEPT ![t] = q]
<1>2. /\ rs \in Seq(Question) /\ DOMAIN rs = DOMAIN qs /\ Len(rs) = Len(qs)
      /\ \A i \in DOMAIN qs : rs[i] = IF i = t THEN q ELSE qs[i]
  BY <1>1, ReplacedSeq
<1> HIDE DEF rs
<1>3. Kept(qs, rs)
  BY <1>1, <1>2 DEF Kept
<1> QED
  BY <1>2, <1>3 DEF rs

(* Questions are appended to a list that was only edited. *)
LEMMA AppendedKept ==
  ASSUME NEW qs \in Seq(Question), NEW ms, NEW new \in Seq(Question),
         Kept(qs, ms), Len(ms) = Len(qs)
  PROVE  /\ Kept(qs, ms \o new)
         /\ Len(ms \o new) = Len(qs) + Len(new)
         /\ \A i \in DOMAIN qs : (ms \o new)[i] = ms[i]
         /\ \A i \in DOMAIN (ms \o new) \ DOMAIN qs :
              i - Len(qs) \in DOMAIN new /\ (ms \o new)[i] = new[i - Len(qs)]
<1> DEFINE rs == ms \o new
<1>1. ms \in Seq(Question) /\ DOMAIN ms = DOMAIN qs
  BY DEF Kept
<1>a. Len(qs) \in Nat /\ Len(new) \in Nat
  OBVIOUS
<1>2. /\ rs \in Seq(Question) /\ Len(rs) = Len(qs) + Len(new)
      /\ \A i \in DOMAIN qs : rs[i] = ms[i]
      /\ \A i \in DOMAIN rs \ DOMAIN qs :
           i - Len(qs) \in DOMAIN new /\ rs[i] = new[i - Len(qs)]
  <2>1. rs \in Seq(Question) /\ Len(rs) = Len(qs) + Len(new)
    BY <1>1
  <2>2. /\ \A i \in DOMAIN ms : rs[i] = ms[i]
        /\ \A i \in DOMAIN rs \ DOMAIN ms :
             i - Len(ms) \in DOMAIN new /\ rs[i] = new[i - Len(ms)]
    BY <1>1, AppendedSeq
  <2> QED
    BY <1>1, <2>1, <2>2
<1> HIDE DEF rs
<1>3. Kept(qs, rs)
  BY <1>2, <1>a DEF Kept
<1> QED
  BY <1>2, <1>3 DEF rs

(* Only unresolved questions are claimed, and they are in progress then. *)
LEMMA ClaimKept ==
  ASSUME NEW qs \in Seq(Question), NEW T \in SUBSET Unresolved(qs)
  PROVE  /\ Kept(qs, Claim(qs, T))
         /\ Len(Claim(qs, T)) = Len(qs)
         /\ \A i \in T : Claim(qs, T)[i].status = "in_progress"
<1>1. T \in SUBSET DOMAIN qs
  BY DEF Unresolved
<1>2. Claim(qs, T) \in Seq(Question) /\ DOMAIN Claim(qs, T) = DOMAIN qs
  BY <1>1, ClaimLemma
<1>3. ASSUME NEW i \in DOMAIN qs
      PROVE  /\ Claim(qs, T)[i].by = qs[i].by /\ Claim(qs, T)[i].parent = qs[i].parent
             /\ i \notin T => Claim(qs, T)[i] = qs[i]
             /\ i \in T => Claim(qs, T)[i].status = "in_progress"
  <2> DEFINE q == [qs[i] EXCEPT !.status = "in_progress"]
  <2>1. Claim(qs, T)[i] = IF i \in T THEN q ELSE qs[i]
    BY DEF Claim
  <2>2. q.by = qs[i].by /\ q.parent = qs[i].parent /\ q.status = "in_progress"
    <3>1. qs[i] \in Question /\ "in_progress" \in Status
      BY DEF Status
    <3> QED
      BY <3>1, StatusKeepsOrigin, EditedQuestion
  <2> HIDE DEF q
  <2> QED
    BY <2>1, <2>2
<1> HIDE DEF Claim
<1>4. Kept(qs, Claim(qs, T))
  BY <1>2, <1>3 DEF Kept, Unresolved
<1> QED
  BY <1>1, <1>2, <1>3, <1>4

(* An answer, a block: one unresolved question is edited. *)
LEMMA AnswerKept ==
  ASSUME NEW qs \in Seq(Question), NEW t \in Unresolved(qs)
  PROVE  /\ Kept(qs, Answer(qs, t)) /\ Len(Answer(qs, t)) = Len(qs)
         /\ \A i \in DOMAIN qs \ {t} : Answer(qs, t)[i] = qs[i]
<1> DEFINE q == [qs[t] EXCEPT !.status = "resolved", !.answered = TRUE]
<1>1. qs[t] \in Question
  BY DEF Unresolved
<1>2. q \in Question /\ q.by = qs[t].by /\ q.parent = qs[t].parent
  BY <1>1, AnsweredQuestion, AnswerKeepsOrigin
<1>3. Answer(qs, t) = [qs EXCEPT ![t] = q]
  BY DEF Answer
<1> HIDE DEF q
<1> DEFINE rs == [qs EXCEPT ![t] = q]
<1>4. /\ Kept(qs, rs) /\ Len(rs) = Len(qs)
      /\ \A i \in DOMAIN qs \ {t} : rs[i] = qs[i]
  BY <1>2, ReplacedKept
<1>5. Answer(qs, t) = rs
  BY <1>3
<1> HIDE DEF rs
<1> QED
  BY <1>4, <1>5

LEMMA BlockKept ==
  ASSUME NEW qs \in Seq(Question), NEW t \in Unresolved(qs), NEW hard \in BOOLEAN
  PROVE  /\ Kept(qs, Block(qs, t, hard)) /\ Len(Block(qs, t, hard)) = Len(qs)
         /\ \A i \in DOMAIN qs \ {t} : Block(qs, t, hard)[i] = qs[i]
<1> DEFINE n == IF hard THEN 2 ELSE 1
           q == [qs[t] EXCEPT !.status = "open", !.blocked = @ + n]
<1>1. qs[t] \in Question /\ n \in Nat
  BY DEF Unresolved
<1>2. Block(qs, t, hard) = [qs EXCEPT ![t] = q]
  BY DEF Block
<1> HIDE DEF n
<1>3. q \in Question /\ q.by = qs[t].by /\ q.parent = qs[t].parent
  BY <1>1, BlockedQuestion, BlockKeepsOrigin
<1> HIDE DEF q
<1> DEFINE rs == [qs EXCEPT ![t] = q]
<1>4. /\ Kept(qs, rs) /\ Len(rs) = Len(qs)
      /\ \A i \in DOMAIN qs \ {t} : rs[i] = qs[i]
  BY <1>3, ReplacedKept
<1>5. Block(qs, t, hard) = rs
  BY <1>2
<1> HIDE DEF rs
<1> QED
  BY <1>4, <1>5

(* The questions of a session are appended, none of them a DEPTH question. *)
LEMMA FreshOnesPlain ==
  ASSUME NEW author \in Author \ {"depth"}, NEW n \in Nat
  PROVE  /\ FreshOnes(author, n) \in Seq(Question)
         /\ Len(FreshOnes(author, n)) = n
         /\ \A i \in DOMAIN FreshOnes(author, n) : FreshOnes(author, n)[i].by # "depth"
<1>1. FreshOnes(author, n) \in Seq(Question) /\ DOMAIN FreshOnes(author, n) = 1..n
  BY FreshOnesType
<1>2. \A i \in 1..n : FreshOnes(author, n)[i].by = author
  BY DEF FreshOnes, Fresh
<1> HIDE DEF FreshOnes
<1> QED
  BY <1>1, <1>2

(* rs grew out of qs by n questions, none of them a DEPTH question. *)
Grew(qs, rs, n) ==
  /\ Kept(qs, rs)
  /\ Len(rs) = Len(qs) + n
  /\ \A i \in DOMAIN rs \ DOMAIN qs : rs[i].by # "depth"

LEMMA GrewByAppending ==
  ASSUME NEW qs \in Seq(Question), NEW ms, NEW n \in Nat, NEW new \in Seq(Question),
         Kept(qs, ms), Len(ms) = Len(qs), Len(new) = n,
         \A i \in DOMAIN new : new[i].by # "depth"
  PROVE  /\ Grew(qs, ms \o new, n)
         /\ \A i \in DOMAIN qs : (ms \o new)[i] = ms[i]
<1> DEFINE rs == ms \o new
<1>1. /\ Kept(qs, rs) /\ Len(rs) = Len(qs) + Len(new)
      /\ \A i \in DOMAIN qs : rs[i] = ms[i]
      /\ \A i \in DOMAIN rs \ DOMAIN qs :
           i - Len(qs) \in DOMAIN new /\ rs[i] = new[i - Len(qs)]
  BY AppendedKept
<1> HIDE DEF rs
<1>2. Grew(qs, rs, n)
  BY <1>1 DEF Grew
<1> QED
  BY <1>1, <1>2 DEF rs

LEMMA DecomposeKept ==
  ASSUME NEW qs \in Seq(Question), NEW t \in Unresolved(qs), NEW n \in Nat
  PROVE  /\ Grew(qs, Decompose(qs, t, n), n)
         /\ \A i \in DOMAIN qs \ {t} : Decompose(qs, t, n)[i] = qs[i]
<1> DEFINE q == [qs[t] EXCEPT !.status = "resolved"]
           ms == [qs EXCEPT ![t] = q]
           new == FreshOnes("worker", n)
<1>1. qs[t] \in Question /\ "resolved" \in Status
  BY DEF Unresolved, Status
<1>2. q \in Question /\ q.by = qs[t].by /\ q.parent = qs[t].parent
  BY <1>1, EditedQuestion, StatusKeepsOrigin
<1>3. Decompose(qs, t, n) = ms \o new
  BY DEF Decompose
<1>4. new \in Seq(Question) /\ Len(new) = n /\ \A i \in DOMAIN new : new[i].by # "depth"
  BY FreshOnesPlain DEF Author
<1> HIDE DEF q, new
<1>5. /\ Kept(qs, ms) /\ Len(ms) = Len(qs)
      /\ \A i \in DOMAIN qs \ {t} : ms[i] = qs[i]
  BY <1>2, ReplacedKept
<1> HIDE DEF ms
<1>6. /\ Grew(qs, ms \o new, n)
      /\ \A i \in DOMAIN qs : (ms \o new)[i] = ms[i]
  BY <1>4, <1>5, GrewByAppending
<1> QED
  BY <1>3, <1>5, <1>6

LEMMA JudgeKept ==
  ASSUME NEW qs \in Seq(Question), NEW closes \in SUBSET Unresolved(qs), NEW n \in Nat
  PROVE  Grew(qs, Judge(qs, closes, n), n)
<1> DEFINE ms == [i \in DOMAIN qs |-> Settle(qs[i], i \in closes)]
           new == FreshOnes("evaluator", n)
<1>1. ASSUME NEW i \in DOMAIN qs
      PROVE  /\ ms[i] \in Question
             /\ ms[i].by = qs[i].by /\ ms[i].parent = qs[i].parent
             /\ qs[i].status = "resolved" => ms[i] = qs[i]
  <2> DEFINE q == [qs[i] EXCEPT !.status = "resolved"]
  <2>1. q \in Question /\ q.by = qs[i].by /\ q.parent = qs[i].parent
    <3>1. qs[i] \in Question /\ "resolved" \in Status
      BY DEF Status
    <3> QED
      BY <3>1, EditedQuestion, StatusKeepsOrigin
  <2>2. ms[i] = q \/ ms[i] = qs[i]
    BY DEF Settle
  <2>3. qs[i].status = "resolved" => ms[i] = qs[i]
    BY DEF Settle, Retired, Unresolved
  <2> HIDE DEF q, ms
  <2> QED
    BY <2>1, <2>2, <2>3
<1>2. ms \in [DOMAIN qs -> Question]
  BY <1>1
<1>3. ms \in Seq(Question) /\ DOMAIN ms = DOMAIN qs /\ Len(ms) = Len(qs)
  BY <1>2, RewrittenSeq
<1>4. Judge(qs, closes, n) = ms \o new
  BY DEF Judge
<1>5. new \in Seq(Question) /\ Len(new) = n /\ \A i \in DOMAIN new : new[i].by # "depth"
  BY FreshOnesPlain DEF Author
<1> HIDE DEF ms, new
<1>6. Kept(qs, ms)
  BY <1>1, <1>3 DEF Kept
<1>7. Grew(qs, ms \o new, n)
  BY <1>3, <1>5, <1>6, GrewByAppending
<1> QED
  BY <1>4, <1>7

(* The DEPTH seeding appends one question for each parent, in their order. *)
LEMMA DeepenKept ==
  ASSUME NEW qs \in Seq(Question), NEW n \in Nat, NEW parents \in [1..n -> DOMAIN qs]
  PROVE  /\ Kept(qs, Deepen(qs, parents))
         /\ \A i \in DOMAIN qs : Deepen(qs, parents)[i] = qs[i]
         /\ \A i \in DOMAIN Deepen(qs, parents) \ DOMAIN qs :
              /\ i - Len(qs) \in 1..n
              /\ Deepen(qs, parents)[i].by = "depth"
              /\ Deepen(qs, parents)[i].parent = parents[i - Len(qs)]
<1> DEFINE new == [i \in DOMAIN parents |-> Fresh("depth", parents[i])]
<1>1. ASSUME NEW i \in 1..n
      PROVE  /\ new[i] \in Question
             /\ new[i].by = "depth" /\ new[i].parent = parents[i]
  <2>1. new[i] = Fresh("depth", parents[i]) /\ parents[i] \in Nat
    OBVIOUS
  <2> QED
    BY <2>1, FreshIsQuestion DEF Author, Fresh
<1>2. new \in [1..n -> Question]
  BY <1>1
<1>3. new \in Seq(Question) /\ DOMAIN new = 1..n
  BY <1>2, TabledSeq
<1>4. Deepen(qs, parents) = qs \o new
  BY DEF Deepen
<1> HIDE DEF new
<1>5. Kept(qs, qs)
  BY DEF Kept
<1> QED
  BY <1>1, <1>3, <1>4, <1>5, AppendedKept

-----------------------------------------------------------------------------
(* How far the questions have come: what the convergence of a run counts.  *)

(* The steps an unresolved question can take before it is retired: its     *)
(* blocked attempts and, in a parallel batch, the claims before them.      *)
StepsToSettle ==
  IF ParallelQuestions = 1 THEN RetireBlockedAfter ELSE 2 * RetireBlockedAfter

Progress(q) ==
  IF ParallelQuestions = 1 THEN q.blocked
  ELSE 2 * q.blocked + (IF q.status = "in_progress" THEN 1 ELSE 0)

(* In a parallel batch a new question is a step of its own.                *)
Newborn == IF ParallelQuestions = 1 THEN 0 ELSE 1

StepsPerQuestion == StepsToSettle + Newborn

(* The steps of a question that are spent; the last one settles it. *)
Spent(q) ==
  Newborn + (IF q.status = "resolved" THEN StepsToSettle
             ELSE IF Progress(q) < StepsToSettle THEN Progress(q)
             ELSE StepsToSettle - 1)

SpentSteps(qs) ==
  {u \in (DOMAIN qs) \X (1..StepsPerQuestion) : u[2] <= Spent(qs[u[1]])}

NumSpent(qs) == Cardinality(SpentSteps(qs))

(* A question waits for the evaluator to retire it. *)
Worn(qs) == \E i \in DOMAIN qs : Retired(qs[i])

(* q became r by at least one step. *)
Advanced(q, r) ==
  /\ q.status # "resolved"
  /\ r.status # "resolved" => Progress(q) < Progress(r)

(* q became r; alone, a question is claimed at no cost. *)
Followed(q, r) ==
  \/ r = q
  \/ Advanced(q, r)
  \/ /\ ParallelQuestions = 1 /\ q.status # "resolved" /\ r.status # "resolved"
     /\ Progress(q) = Progress(r)

Follows(qs, rs) ==
  /\ Len(qs) <= Len(rs)
  /\ \A i \in DOMAIN qs : Followed(qs[i], rs[i])

(* A step was taken, not only the claim of a lone question. *)
Moved(qs, rs) ==
  \/ \E i \in DOMAIN qs : Advanced(qs[i], rs[i])
  \/ ParallelQuestions # 1 /\ Len(qs) < Len(rs)

(* What a question has spent lies within what it may spend, and all of it  *)
(* is spent only when it is resolved.                                      *)
LEMMA SpentBounds ==
  ASSUME NEW q \in Question
  PROVE  /\ StepsToSettle \in Nat \ {0} /\ Newborn \in {0, 1}
         /\ StepsPerQuestion \in Nat \ {0}
         /\ Progress(q) \in Nat /\ Spent(q) \in Nat
         /\ Newborn <= Spent(q) /\ Spent(q) <= StepsPerQuestion
         /\ q.status # "resolved" => Spent(q) < StepsPerQuestion
<1>1. /\ StepsToSettle \in Nat \ {0} /\ Newborn \in {0, 1}
      /\ StepsPerQuestion \in Nat \ {0}
      /\ StepsPerQuestion = StepsToSettle + Newborn
  BY QueueAssumption DEF StepsToSettle, Newborn, StepsPerQuestion
<1>2. Progress(q) \in Nat
  BY DEF Progress, Question
<1> QED
  BY <1>1, <1>2 DEF Spent

(* Whatever becomes of a question, nothing that it spent is given back.    *)
LEMMA SpentKept ==
  ASSUME NEW q \in Question, NEW r \in Question, Followed(q, r)
  PROVE  /\ Spent(q) <= Spent(r)
         /\ Retired(q) /\ ~Retired(r) => Spent(q) < Spent(r)
         /\ q.status # "resolved" /\ r.status = "resolved" => Spent(q) < Spent(r)
<1>1. /\ Progress(q) \in Nat /\ Progress(r) \in Nat
      /\ StepsToSettle \in Nat \ {0} /\ Newborn \in {0, 1}
      /\ Spent(q) \in Nat /\ Spent(r) \in Nat
  BY SpentBounds
<1>2. Spent(q) <= Spent(r)
  BY <1>1 DEF Spent, Followed, Advanced
<1>3. ASSUME q.status # "resolved", r.status = "resolved"
      PROVE  Spent(q) < Spent(r)
  BY <1>1, <1>3 DEF Spent
<1>4. ASSUME Retired(q), ~Retired(r) PROVE r.status = "resolved"
  <2> SUFFICES ASSUME r.status # "resolved" PROVE r.blocked >= RetireBlockedAfter
    BY <1>4 DEF Retired
  <2>1. Progress(q) <= Progress(r) /\ q.blocked >= RetireBlockedAfter
    BY <1>1, <1>4 DEF Followed, Advanced, Retired
  <2> QED
    BY <2>1, QueueAssumption DEF Progress, Question
<1> QED
  BY <1>2, <1>3, <1>4 DEF Retired

(* A step is paid for at once, or when the evaluator retires the question. *)
LEMMA SpentByAdvancing ==
  ASSUME NEW q \in Question, NEW r \in Question, Advanced(q, r)
  PROVE  Spent(q) < Spent(r) \/ Retired(r)
<1>1. /\ Progress(q) \in Nat /\ Progress(r) \in Nat
      /\ StepsToSettle \in Nat \ {0} /\ Newborn \in {0, 1}
  BY SpentBounds
<1>2. CASE r.status = "resolved"
  BY <1>1, <1>2 DEF Spent, Advanced
<1>3. CASE r.status # "resolved" /\ Progress(q) < StepsToSettle - 1
  BY <1>1, <1>3 DEF Spent, Advanced
<1>4. CASE r.status # "resolved" /\ ~(Progress(q) < StepsToSettle - 1)
  <2>1. Progress(r) >= StepsToSettle
    BY <1>1, <1>4 DEF Advanced
  <2>2. r.blocked >= RetireBlockedAfter
    BY <2>1, QueueAssumption DEF Progress, StepsToSettle, Question
  <2> QED
    BY <1>4, <2>2 DEF Retired
<1> QED
  BY <1>2, <1>3, <1>4

(* The ways of one question compose. *)
LEMMA FollowedOn ==
  ASSUME NEW q \in Question, NEW r \in Question, NEW s \in Question,
         Followed(q, r), Followed(r, s)
  PROVE  /\ Followed(q, s)
         /\ Advanced(q, r) \/ Advanced(r, s) => Advanced(q, s)
<1>1. Progress(q) \in Nat /\ Progress(r) \in Nat /\ Progress(s) \in Nat
  BY SpentBounds
<1> QED
  BY <1>1 DEF Followed, Advanced

(* In a parallel batch a question that took no step is what it was.        *)
LEMMA FollowedStill ==
  ASSUME NEW q, NEW r, Followed(q, r), ~Advanced(q, r), ParallelQuestions # 1
  PROVE  r = q
BY DEF Followed

(* A step of a list is a step of one of its questions. *)
LEMMA StepOfList ==
  ASSUME NEW qs, NEW i, NEW k
  PROVE  <<i, k>> \in SpentSteps(qs) <=>
           i \in DOMAIN qs /\ k \in 1..StepsPerQuestion /\ k <= Spent(qs[i])
<1> DEFINE u == <<i, k>>
<1>1. u[1] = i /\ u[2] = k
  OBVIOUS
<1>2. u \in (DOMAIN qs) \X (1..StepsPerQuestion) <=>
        i \in DOMAIN qs /\ k \in 1..StepsPerQuestion
  OBVIOUS
<1> HIDE DEF u
<1>3. u \in SpentSteps(qs) <=>
        u \in (DOMAIN qs) \X (1..StepsPerQuestion) /\ u[2] <= Spent(qs[u[1]])
  BY DEF SpentSteps
<1>4. u \in SpentSteps(qs) <=>
        i \in DOMAIN qs /\ k \in 1..StepsPerQuestion /\ k <= Spent(qs[i])
  BY <1>1, <1>2, <1>3
<1> QED
  BY <1>4 DEF u

(* The steps spent on a list are finite in number, and fewer than those of *)
(* all its questions while one of them is unresolved.                      *)
LEMMA NumSpentBounds ==
  ASSUME NEW qs \in Seq(Question)
  PROVE  /\ IsFiniteSet(SpentSteps(qs)) /\ NumSpent(qs) \in Nat
         /\ Len(qs) * StepsPerQuestion \in Nat
         /\ NumSpent(qs) <= Len(qs) * StepsPerQuestion
         /\ ~NoOpenQuestions(qs) => NumSpent(qs) < Len(qs) * StepsPerQuestion
<1> DEFINE all == (DOMAIN qs) \X (1..StepsPerQuestion)
<1>1. /\ DOMAIN qs = 1..Len(qs) /\ Len(qs) \in Nat
      /\ StepsPerQuestion \in Nat \ {0}
  BY SpentBounds, FreshIsQuestion DEF Author
<1>2. /\ IsFiniteSet(DOMAIN qs) /\ Cardinality(DOMAIN qs) = Len(qs)
      /\ IsFiniteSet(1..StepsPerQuestion)
      /\ Cardinality(1..StepsPerQuestion) = StepsPerQuestion
  <2>1. /\ IsFiniteSet(1..Len(qs))
        /\ Cardinality(1..Len(qs)) = IF 1 > Len(qs) THEN 0 ELSE Len(qs) - 1 + 1
    BY <1>1, FS_Interval
  <2>2. /\ IsFiniteSet(1..StepsPerQuestion)
        /\ Cardinality(1..StepsPerQuestion) =
             IF 1 > StepsPerQuestion THEN 0 ELSE StepsPerQuestion - 1 + 1
    BY <1>1, FS_Interval
  <2> QED
    BY <1>1, <2>1, <2>2
<1>3. IsFiniteSet(all) /\ Cardinality(all) = Len(qs) * StepsPerQuestion
  <2>1. /\ IsFiniteSet(all)
        /\ Cardinality(all) = Cardinality(DOMAIN qs) * Cardinality(1..StepsPerQuestion)
    BY <1>2, FS_Product, Zenon
  <2> QED
    BY <1>2, <2>1, Zenon
<1>4. SpentSteps(qs) \in SUBSET all
  BY DEF SpentSteps
<1>5. /\ IsFiniteSet(SpentSteps(qs)) /\ NumSpent(qs) <= Cardinality(all)
      /\ NumSpent(qs) \in Nat /\ Cardinality(all) \in Nat
      /\ NumSpent(qs) = Cardinality(all) => SpentSteps(qs) = all
  BY <1>3, <1>4, FS_Subset, FS_CardinalityType DEF NumSpent
<1>6. ASSUME ~NoOpenQuestions(qs) PROVE SpentSteps(qs) # all
  <2>1. PICK i \in DOMAIN qs : qs[i].status # "resolved"
    BY <1>6 DEF NoOpenQuestions, Unresolved
  <2>2. ~(StepsPerQuestion <= Spent(qs[i]))
    <3>1. qs[i] \in Question
      OBVIOUS
    <3> QED
      BY <2>1, <3>1, SpentBounds
  <2>3. <<i, StepsPerQuestion>> \in all
    <3>1. i \in DOMAIN qs /\ StepsPerQuestion \in 1..StepsPerQuestion
      BY <1>1
    <3> QED
      BY <3>1, Zenon
  <2>4. <<i, StepsPerQuestion>> \notin SpentSteps(qs)
    BY <2>2, StepOfList
  <2> QED
    BY <2>3, <2>4
<1> HIDE DEF all
<1> QED
  BY <1>3, <1>5, <1>6

(* A list that follows another one has spent all that the other one had.   *)
LEMMA FollowsSpent ==
  ASSUME NEW qs \in Seq(Question), NEW rs \in Seq(Question), Follows(qs, rs)
  PROVE  /\ NumSpent(qs) <= NumSpent(rs)
         /\ (\E i \in DOMAIN qs : Spent(qs[i]) < Spent(rs[i])) =>
              NumSpent(qs) < NumSpent(rs)
         /\ ParallelQuestions # 1 /\ Len(qs) < Len(rs) =>
              NumSpent(qs) < NumSpent(rs)
<1>1. /\ DOMAIN qs = 1..Len(qs) /\ Len(qs) \in Nat
      /\ DOMAIN rs = 1..Len(rs) /\ Len(rs) \in Nat /\ DOMAIN qs \subseteq DOMAIN rs
  BY DEF Follows
<1>2. /\ IsFiniteSet(SpentSteps(rs))
      /\ NumSpent(qs) \in Nat /\ NumSpent(rs) \in Nat
  BY NumSpentBounds
<1>3. ASSUME NEW i \in DOMAIN qs
      PROVE  /\ Spent(qs[i]) <= Spent(rs[i])
             /\ Spent(qs[i]) \in Nat /\ Spent(rs[i]) \in Nat
  <2>1. qs[i] \in Question /\ rs[i] \in Question /\ Followed(qs[i], rs[i])
    BY <1>1 DEF Follows
  <2> QED
    BY <2>1, SpentKept, SpentBounds
<1>4. SpentSteps(qs) \in SUBSET SpentSteps(rs)
  <2>a. \A u \in SpentSteps(qs) :
          /\ u = <<u[1], u[2]>> /\ u[1] \in DOMAIN qs /\ u[2] \in 1..StepsPerQuestion
          /\ u[2] <= Spent(qs[u[1]])
    BY DEF SpentSteps
  <2> SUFFICES ASSUME NEW i \in DOMAIN qs, NEW k \in 1..StepsPerQuestion,
                      k <= Spent(qs[i])
               PROVE  <<i, k>> \in SpentSteps(rs)
    BY <2>a
  <2>1. i \in DOMAIN rs /\ k <= Spent(rs[i])
    <3>1. k \in Nat
      BY SpentBounds, FreshIsQuestion DEF Author
    <3> QED
      BY <1>1, <1>3, <3>1
  <2> QED
    BY <2>1, StepOfList
<1>5. /\ NumSpent(qs) <= NumSpent(rs)
      /\ NumSpent(qs) = NumSpent(rs) => SpentSteps(rs) = SpentSteps(qs)
  BY <1>2, <1>4, FS_Subset DEF NumSpent
<1>6. ASSUME NEW i \in DOMAIN qs, Spent(qs[i]) < Spent(rs[i])
      PROVE  SpentSteps(rs) # SpentSteps(qs)
  <2>1. rs[i] \in Question /\ i \in DOMAIN rs
    BY <1>1
  <2>2. Spent(rs[i]) \in 1..StepsPerQuestion
    BY <1>3, <1>6, <2>1, SpentBounds
  <2>3. <<i, Spent(rs[i])>> \in SpentSteps(rs)
    BY <1>3, <2>1, <2>2, StepOfList
  <2>4. <<i, Spent(rs[i])>> \notin SpentSteps(qs)
    BY <1>3, <1>6, StepOfList
  <2> QED
    BY <2>3, <2>4
<1>7. ASSUME ParallelQuestions # 1, Len(qs) < Len(rs)
      PROVE  SpentSteps(rs) # SpentSteps(qs)
  <2>1. rs[Len(rs)] \in Question /\ Len(rs) \in DOMAIN rs
    BY <1>1, <1>7
  <2>2. 1 <= Spent(rs[Len(rs)]) /\ 1 \in 1..StepsPerQuestion
    <3>1. Newborn = 1
      BY <1>7 DEF Newborn
    <3> QED
      BY <2>1, <3>1, SpentBounds
  <2>3. <<Len(rs), 1>> \in SpentSteps(rs)
    BY <2>1, <2>2, StepOfList
  <2>4. <<Len(rs), 1>> \notin SpentSteps(qs)
    BY <1>1, <1>7, StepOfList
  <2> QED
    BY <2>3, <2>4
<1> QED
  BY <1>2, <1>5, <1>6, <1>7

(* A list that moved has spent a step more, or has a question to retire.   *)
LEMMA MovedSpent ==
  ASSUME NEW qs \in Seq(Question), NEW rs \in Seq(Question),
         Follows(qs, rs), Moved(qs, rs)
  PROVE  NumSpent(qs) < NumSpent(rs) \/ Worn(rs)
<1>1. CASE ParallelQuestions # 1 /\ Len(qs) < Len(rs)
  BY <1>1, FollowsSpent
<1>2. CASE \E i \in DOMAIN qs : Advanced(qs[i], rs[i])
  <2>1. PICK i \in DOMAIN qs : Advanced(qs[i], rs[i])
    BY <1>2
  <2>2. i \in DOMAIN rs /\ qs[i] \in Question /\ rs[i] \in Question
    BY DEF Follows
  <2>3. Spent(qs[i]) < Spent(rs[i]) \/ Retired(rs[i])
    BY <2>1, <2>2, SpentByAdvancing
  <2> QED
    BY <2>2, <2>3, FollowsSpent DEF Worn
<1> QED
  BY <1>1, <1>2 DEF Moved

(* What a step settles, be it the last open question or the last one that  *)
(* waits to be retired, it pays for.                                       *)
LEMMA SettledSpent ==
  ASSUME NEW qs \in Seq(Question), NEW rs \in Seq(Question), Follows(qs, rs),
         \/ ~NoOpenQuestions(qs) /\ NoOpenQuestions(rs)
         \/ Worn(qs) /\ ~Worn(rs)
  PROVE  NumSpent(qs) < NumSpent(rs)
<1>1. \A i \in DOMAIN qs :
        i \in DOMAIN rs /\ qs[i] \in Question /\ rs[i] \in Question
        /\ Followed(qs[i], rs[i])
  BY DEF Follows
<1>2. PICK i \in DOMAIN qs :
        \/ qs[i].status # "resolved" /\ rs[i].status = "resolved"
        \/ Retired(qs[i]) /\ ~Retired(rs[i])
  BY <1>1 DEF NoOpenQuestions, Unresolved, Worn
<1>3. Spent(qs[i]) < Spent(rs[i])
  BY <1>1, <1>2, SpentKept
<1> QED
  BY <1>3, FollowsSpent

(* The ways of a list compose. *)
LEMMA FollowsOn ==
  ASSUME NEW qs \in Seq(Question), NEW rs \in Seq(Question),
         NEW ss \in Seq(Question), Follows(qs, rs), Follows(rs, ss)
  PROVE  /\ Follows(qs, ss)
         /\ Moved(qs, rs) => Moved(qs, ss)
         /\ (\E i \in DOMAIN qs : Advanced(rs[i], ss[i])) => Moved(qs, ss)
<1>1. /\ Len(qs) \in Nat /\ Len(rs) \in Nat /\ Len(ss) \in Nat
      /\ Len(qs) <= Len(rs) /\ Len(rs) <= Len(ss)
  BY DEF Follows
<1>2. ASSUME NEW i \in DOMAIN qs
      PROVE  /\ i \in DOMAIN rs /\ Followed(qs[i], ss[i])
             /\ Advanced(qs[i], rs[i]) \/ Advanced(rs[i], ss[i]) =>
                  Advanced(qs[i], ss[i])
  <2>1. i \in DOMAIN rs /\ i \in DOMAIN ss
    BY <1>1
  <2>2. qs[i] \in Question /\ rs[i] \in Question /\ ss[i] \in Question
    BY <2>1
  <2>3. Followed(qs[i], rs[i]) /\ Followed(rs[i], ss[i])
    BY <2>1 DEF Follows
  <2> QED
    BY <2>1, <2>2, <2>3, FollowedOn
<1>3. Follows(qs, ss)
  BY <1>1, <1>2 DEF Follows
<1>4. ASSUME Moved(qs, rs) PROVE Moved(qs, ss)
  <2>1. CASE ParallelQuestions # 1 /\ Len(qs) < Len(rs)
    BY <1>1, <2>1 DEF Moved
  <2>2. CASE \E i \in DOMAIN qs : Advanced(qs[i], rs[i])
    BY <1>2, <2>2 DEF Moved
  <2> QED
    BY <1>4, <2>1, <2>2 DEF Moved
<1>5. ASSUME NEW i \in DOMAIN qs, Advanced(rs[i], ss[i]) PROVE Moved(qs, ss)
  BY <1>2, <1>5 DEF Moved
<1> QED
  BY <1>3, <1>4, <1>5

(* A list that did not move is what it was, in a parallel batch.           *)
LEMMA FollowsStill ==
  ASSUME NEW qs \in Seq(Question), NEW rs \in Seq(Question),
         Follows(qs, rs), ~Moved(qs, rs), ParallelQuestions # 1
  PROVE  rs = qs
<1>1. Len(qs) \in Nat /\ Len(rs) \in Nat /\ Len(rs) = Len(qs)
  BY DEF Follows, Moved
<1>2. \A i \in DOMAIN qs : rs[i] = qs[i]
  BY FollowedStill DEF Follows, Moved
<1> QED
  BY <1>1, <1>2

(* A list follows itself without having moved. *)
LEMMA FollowsItself ==
  ASSUME NEW qs \in Seq(Question)
  PROVE  Follows(qs, qs) /\ ~Moved(qs, qs)
<1>1. \A i \in DOMAIN qs : Progress(qs[i]) \in Nat
  BY SpentBounds
<1> QED
  BY <1>1 DEF Follows, Followed, Moved, Advanced

(* Replacing a question by one that advanced. *)
LEMMA ReplacedFollows ==
  ASSUME NEW qs \in Seq(Question), NEW t \in Unresolved(qs), NEW q \in Question,
         Advanced(qs[t], q)
  PROVE  /\ [qs EXCEPT ![t] = q] \in Seq(Question)
         /\ Follows(qs, [qs EXCEPT ![t] = q])
         /\ Advanced(qs[t], [qs EXCEPT ![t] = q][t])
<1>1. t \in DOMAIN qs
  BY DEF Unresolved
<1>2. /\ [qs EXCEPT ![t] = q] \in Seq(Question)
      /\ Len([qs EXCEPT ![t] = q]) = Len(qs) /\ Len(qs) \in Nat
      /\ \A i \in DOMAIN qs : [qs EXCEPT ![t] = q][i] = IF i = t THEN q ELSE qs[i]
  BY <1>1, ReplacedSeq
<1> HIDE DEF Unresolved
<1> QED
  BY <1>1, <1>2 DEF Follows, Followed

(* Appending questions to a list that follows another one. *)
LEMMA AppendedFollows ==
  ASSUME NEW qs \in Seq(Question), NEW ms \in Seq(Question),
         NEW new \in Seq(Question), Follows(qs, ms)
  PROVE  /\ ms \o new \in Seq(Question)
         /\ Follows(qs, ms \o new)
         /\ \A i \in DOMAIN qs : (ms \o new)[i] = ms[i]
<1> DEFINE rs == ms \o new
<1>1. /\ rs \in Seq(Question)
      /\ \A i \in DOMAIN ms : rs[i] = ms[i]
  BY AppendedSeq
<1>2. /\ Len(rs) = Len(ms) + Len(new) /\ Len(new) \in Nat
      /\ Len(ms) \in Nat /\ Len(qs) \in Nat /\ Len(qs) <= Len(ms)
      /\ DOMAIN qs = 1..Len(qs) /\ DOMAIN ms = 1..Len(ms)
  BY DEF Follows
<1> HIDE DEF rs
<1>3. DOMAIN qs \subseteq DOMAIN ms /\ Len(qs) <= Len(rs)
  BY <1>2
<1>4. Follows(qs, rs)
  BY <1>1, <1>3 DEF Follows
<1> QED
  BY <1>1, <1>3, <1>4 DEF rs

(* Claiming a batch is a step of each question that was open, unless one   *)
(* question is worked on at a time.                                        *)
LEMMA ClaimFollows ==
  ASSUME NEW qs \in Seq(Question), NEW T \in SUBSET Unresolved(qs)
  PROVE  Follows(qs, Claim(qs, T))
<1>1. T \in SUBSET DOMAIN qs
  BY DEF Unresolved
<1>2. Claim(qs, T) \in Seq(Question) /\ DOMAIN Claim(qs, T) = DOMAIN qs
      /\ Len(Claim(qs, T)) = Len(qs)
  BY <1>1, ClaimLemma, ClaimKept
<1>3. ASSUME NEW i \in DOMAIN qs PROVE Followed(qs[i], Claim(qs, T)[i])
  <2> DEFINE q == [qs[i] EXCEPT !.status = "in_progress"]
  <2>1. qs[i] \in Question
    OBVIOUS
  <2>2. q.status = "in_progress" /\ q.blocked = qs[i].blocked
    BY <2>1 DEF Question
  <2>3. qs[i].status = "in_progress" => q = qs[i]
    BY <2>1 DEF Question
  <2>4. Claim(qs, T)[i] = IF i \in T THEN q ELSE qs[i]
    BY DEF Claim
  <2> HIDE DEF q
  <2>5. CASE i \notin T
    BY <2>4, <2>5 DEF Followed
  <2>6. CASE i \in T
    <3>1. qs[i].status \in {"open", "in_progress"}
      BY <2>1, <2>6 DEF Unresolved, Question, Status
    <3>2. qs[i].blocked \in Nat
      BY <2>1 DEF Question
    <3> QED
      BY <2>2, <2>3, <2>4, <2>6, <3>1, <3>2 DEF Followed, Advanced, Progress
  <2> QED
    BY <2>5, <2>6
<1> HIDE DEF Claim
<1> QED
  BY <1>2, <1>3 DEF Follows

(* What comes back from a pipeline is a step of its question.              *)
LEMMA ReturnedFollows ==
  ASSUME NEW qs \in Seq(Question), NEW t \in Unresolved(qs), NEW rs,
         \/ rs = Answer(qs, t)
         \/ \E hard \in BOOLEAN : rs = Block(qs, t, hard)
         \/ \E n \in Nat : rs = Decompose(qs, t, n)
  PROVE  /\ rs \in Seq(Question)
         /\ Follows(qs, rs) /\ Advanced(qs[t], rs[t])
<1>1. qs[t] \in Question /\ t \in DOMAIN qs /\ qs[t].status # "resolved"
  BY DEF Unresolved
<1>2. CASE rs = Answer(qs, t)
  <2> DEFINE q == [qs[t] EXCEPT !.status = "resolved", !.answered = TRUE]
  <2>1. q \in Question /\ q.status = "resolved"
    BY <1>1, AnsweredQuestion
  <2>2. rs = [qs EXCEPT ![t] = q]
    BY <1>2 DEF Answer
  <2> HIDE DEF q
  <2>3. Advanced(qs[t], q)
    BY <1>1, <2>1 DEF Advanced
  <2> QED
    BY <2>1, <2>2, <2>3, ReplacedFollows
<1>3. ASSUME NEW hard \in BOOLEAN, rs = Block(qs, t, hard)
      PROVE  /\ rs \in Seq(Question)
             /\ Follows(qs, rs) /\ Advanced(qs[t], rs[t])
  <2> DEFINE n == IF hard THEN 2 ELSE 1
             q == [qs[t] EXCEPT !.status = "open", !.blocked = @ + n]
  <2>1. n \in Nat /\ n >= 1
    OBVIOUS
  <2>2. rs = [qs EXCEPT ![t] = q]
    BY <1>3 DEF Block
  <2> HIDE DEF n
  <2>3. q \in Question /\ q.status = "open"
    BY <1>1, <2>1, BlockedQuestion
  <2>4. q.blocked = qs[t].blocked + n /\ qs[t].blocked \in Nat
    BY <1>1 DEF Question
  <2> HIDE DEF q
  <2>5. Advanced(qs[t], q)
    BY <1>1, <2>1, <2>3, <2>4 DEF Advanced, Progress
  <2> QED
    BY <2>2, <2>3, <2>5, ReplacedFollows
<1>4. ASSUME NEW n \in Nat, rs = Decompose(qs, t, n)
      PROVE  /\ rs \in Seq(Question)
             /\ Follows(qs, rs) /\ Advanced(qs[t], rs[t])
  <2> DEFINE q == [qs[t] EXCEPT !.status = "resolved"]
             ms == [qs EXCEPT ![t] = q]
             new == FreshOnes("worker", n)
  <2>1. q \in Question /\ q.status = "resolved"
    BY <1>1, EditedQuestion DEF Status
  <2>2. rs = ms \o new
    BY <1>4 DEF Decompose
  <2>3. new \in Seq(Question)
    BY FreshOnesType DEF Author
  <2> HIDE DEF q, new
  <2>4. Advanced(qs[t], q)
    BY <1>1, <2>1 DEF Advanced
  <2>5. ms \in Seq(Question) /\ Follows(qs, ms) /\ Advanced(qs[t], ms[t])
    BY <2>1, <2>4, ReplacedFollows
  <2> HIDE DEF ms
  <2>6. /\ ms \o new \in Seq(Question) /\ Follows(qs, ms \o new)
        /\ \A i \in DOMAIN qs : (ms \o new)[i] = ms[i]
    BY <2>3, <2>5, AppendedFollows, Zenon
  <2> QED
    BY <1>1, <2>2, <2>5, <2>6
<1> QED
  BY <1>2, <1>3, <1>4

(* What the evaluator judges follows, and none of it waits to be retired.  *)
LEMMA JudgeFollows ==
  ASSUME NEW qs \in Seq(Question), NEW closes, NEW n \in Nat
  PROVE  /\ Judge(qs, closes, n) \in Seq(Question)
         /\ Follows(qs, Judge(qs, closes, n))
         /\ ~Worn(Judge(qs, closes, n))
<1> DEFINE ms == [i \in DOMAIN qs |-> Settle(qs[i], i \in closes)]
           new == FreshOnes("evaluator", n)
<1>1. ASSUME NEW i \in DOMAIN qs
      PROVE  ms[i] \in Question /\ Followed(qs[i], ms[i]) /\ ~Retired(ms[i])
  <2> DEFINE q == [qs[i] EXCEPT !.status = "resolved"]
  <2>0. qs[i] \in Question /\ "resolved" \in Status
    BY DEF Status
  <2>1. q \in Question /\ q.status = "resolved"
    BY <2>0, EditedQuestion
  <2>2. qs[i].status = "resolved" => q = qs[i]
    BY <2>0 DEF Question
  <2>3. ms[i] = q \/ (ms[i] = qs[i] /\ ~Retired(qs[i]))
    BY DEF Settle
  <2> HIDE DEF q, ms
  <2>4. ~Retired(q)
    BY <2>1 DEF Retired
  <2>5. Followed(qs[i], q)
    BY <2>1, <2>2 DEF Followed, Advanced
  <2> QED
    BY <2>1, <2>3, <2>4, <2>5 DEF Followed
<1>2. ms \in [DOMAIN qs -> Question]
  BY <1>1
<1>3. ms \in Seq(Question) /\ DOMAIN ms = DOMAIN qs /\ Len(ms) = Len(qs)
  BY <1>2, RewrittenSeq
<1>4. Judge(qs, closes, n) = ms \o new
  BY DEF Judge
<1>5. new \in Seq(Question) /\ DOMAIN new = 1..n
  BY FreshOnesType DEF Author
<1>6. \A i \in DOMAIN new : ~Retired(new[i])
  <2>1. \A i \in 1..n : new[i].blocked = 0
    BY DEF FreshOnes, Fresh
  <2> QED
    BY <1>5, <2>1, QueueAssumption DEF Retired
<1> HIDE DEF ms, new
<1>7. Follows(qs, ms)
  BY <1>1, <1>3 DEF Follows
<1>8. ms \o new \in Seq(Question) /\ Follows(qs, ms \o new)
  BY <1>3, <1>5, <1>7, AppendedFollows
<1>9. \A i \in DOMAIN (ms \o new) : ~Retired((ms \o new)[i])
  <2>1. /\ \A i \in DOMAIN ms : (ms \o new)[i] = ms[i]
        /\ \A i \in DOMAIN (ms \o new) \ DOMAIN ms :
             i - Len(ms) \in DOMAIN new /\ (ms \o new)[i] = new[i - Len(ms)]
    BY <1>3, <1>5, AppendedSeq
  <2> QED
    BY <1>1, <1>3, <1>6, <2>1
<1> QED
  BY <1>4, <1>8, <1>9 DEF Worn

(* What is deepened follows, is not worn unless it was, and has something  *)
(* left to do.                                                             *)
LEMMA DeepenFollows ==
  ASSUME NEW qs \in Seq(Question), NEW n \in Nat \ {0},
         NEW parents \in [1..n -> DOMAIN qs]
  PROVE  /\ Deepen(qs, parents) \in Seq(Question)
         /\ Follows(qs, Deepen(qs, parents))
         /\ ~Worn(qs) => ~Worn(Deepen(qs, parents))
         /\ ~NoOpenQuestions(Deepen(qs, parents))
<1> DEFINE new == [i \in DOMAIN parents |-> Fresh("depth", parents[i])]
           rs == qs \o new
<1>1. ASSUME NEW i \in 1..n
      PROVE  /\ new[i] \in Question
             /\ new[i].blocked = 0 /\ new[i].status = "open"
  <2>1. new[i] = Fresh("depth", parents[i]) /\ parents[i] \in Nat
    OBVIOUS
  <2> QED
    BY <2>1, FreshIsQuestion DEF Author, Fresh
<1>2. new \in [1..n -> Question]
  BY <1>1
<1>3. new \in Seq(Question) /\ DOMAIN new = 1..n /\ Len(new) = n
  BY <1>2, TabledSeq
<1>4. Deepen(qs, parents) = rs
  BY DEF Deepen
<1> HIDE DEF new
<1>5. /\ rs \in Seq(Question) /\ Follows(qs, rs)
      /\ \A i \in DOMAIN qs : rs[i] = qs[i]
      /\ \A i \in DOMAIN rs \ DOMAIN qs :
           i - Len(qs) \in DOMAIN new /\ rs[i] = new[i - Len(qs)]
  BY <1>3, FollowsItself, AppendedFollows, AppendedSeq
<1>6. Len(rs) = Len(qs) + n /\ Len(qs) \in Nat
  BY <1>3
<1> HIDE DEF rs
<1>7. \A i \in DOMAIN rs \ DOMAIN qs : ~Retired(rs[i])
  BY <1>1, <1>3, <1>5, QueueAssumption DEF Retired
<1>8. ~Worn(qs) => ~Worn(rs)
  BY <1>5, <1>7 DEF Worn
<1>9. Len(rs) \in DOMAIN rs \ DOMAIN qs
  BY <1>5, <1>6
<1>10. ~NoOpenQuestions(rs)
  <2>1. rs[Len(rs)].status = "open"
    BY <1>1, <1>3, <1>5, <1>9
  <2> QED
    BY <1>9, <2>1 DEF NoOpenQuestions, Unresolved
<1> QED
  BY <1>4, <1>5, <1>8, <1>10

(* A plan leaves something to do, and nothing in it is worn. *)
LEMMA SeedsFresh ==
  ASSUME NEW author \in Author, NEW n \in Nat \ {0}
  PROVE  /\ ~Worn(FreshOnes(author, n))
         /\ ~NoOpenQuestions(FreshOnes(author, n))
<1>1. DOMAIN FreshOnes(author, n) = 1..n /\ 1 \in 1..n
  BY FreshOnesType
<1>2. \A i \in 1..n : FreshOnes(author, n)[i].blocked = 0
                      /\ FreshOnes(author, n)[i].status = "open"
  BY DEF FreshOnes, Fresh
<1> HIDE DEF FreshOnes
<1> QED
  BY <1>1, <1>2, QueueAssumption
  DEF Worn, Retired, NoOpenQuestions, Unresolved
=============================================================================
