---------------------------- MODULE QuestionQueue ----------------------------
(***************************************************************************)
(* open_questions.yaml as the sessions read and rewrite it: the operators  *)
(* by which the worker, the evaluator and the DEPTH seeding change the     *)
(* list of questions.  A question is known by its position: the list is    *)
(* only ever appended to, so a position plays the part of the id that      *)
(* common.next_question_id would give.  The wording, the near-duplicate    *)
(* test and the priority are data: a caller of these operators may get any *)
(* outcome that data allows.                                               *)
(***************************************************************************)
EXTENDS Naturals, Sequences, FiniteSets

CONSTANTS
  ParallelQuestions,   \* worker_pipeline.parallel_questions
  RetireBlockedAfter,  \* question_tree.retire_blocked_after
  MaxQuestions         \* question_tree.max_questions

ASSUME QueueAssumption ==
  /\ ParallelQuestions \in Nat \ {0}
  /\ RetireBlockedAfter \in Nat \ {0}
  /\ MaxQuestions \in Nat \ {0}

Status == {"open", "in_progress", "resolved"}
Author == {"initializer", "evaluator", "worker", "depth"}

(* What the driver tells apart in an OpenQuestion.  answered stands for    *)
(* resolved_by_finding (FALSE is None); parent is kept for depth questions *)
(* only, the ones whose parent_id a later step reads, and is 0 elsewhere.  *)
Question == [status: Status, blocked: Nat, by: Author, parent: Nat,
             answered: BOOLEAN]

Fresh(author, parent) ==
  [status |-> "open", blocked |-> 0, by |-> author, parent |-> parent,
   answered |-> FALSE]

FreshOnes(author, n) == [i \in 1..n |-> Fresh(author, 0)]

InProgress(qs) == {i \in DOMAIN qs : qs[i].status = "in_progress"}
Unresolved(qs) == {i \in DOMAIN qs : qs[i].status # "resolved"}

(* Runspace.no_open_questions *)
NoOpenQuestions(qs) == Unresolved(qs) = {}

(* Mutant: the cap looks at the list without the new questions.            *)
HasRoomForOne(qs, n) == Len(qs) <= MaxQuestions

(* Would n more questions stay within question_tree.max_questions?         *)
HasRoom(qs, n) == Len(qs) + n <= MaxQuestions

-----------------------------------------------------------------------------
(* The worker's side.                                                      *)

(* Mutant: the picker forgets that orphans come first.                     *)
PicksAnyOrder(qs) ==
  {T \in SUBSET Unresolved(qs) :
     \/ Cardinality(T) = ParallelQuestions
     \/ T = Unresolved(qs) /\ Cardinality(T) <= ParallelQuestions}

(* common.pick_target_questions: at most ParallelQuestions questions, the  *)
(* in_progress ones (orphans of an earlier crash or error) before any open *)
(* one; the order by priority within each group is left open.              *)
Picks(qs) ==
  {T \in SUBSET Unresolved(qs) :
     /\ \/ Cardinality(T) = ParallelQuestions
        \/ T = Unresolved(qs) /\ Cardinality(T) <= ParallelQuestions
     /\ T \subseteq InProgress(qs) \/ InProgress(qs) \subseteq T}

Claim(qs, T) ==
  [i \in DOMAIN qs |->
     IF i \in T THEN [qs[i] EXCEPT !.status = "in_progress"] ELSE qs[i]]

Answer(qs, t) ==
  [qs EXCEPT ![t].status = "resolved", ![t].answered = TRUE]

(* worker._apply_blocked: a HARD block counts double.                      *)
Block(qs, t, hard) ==
  [qs EXCEPT ![t].status = "open",
             ![t].blocked = @ + (IF hard THEN 2 ELSE 1)]

(* worker._apply_fragmented with n children left after duplicates were     *)
(* dropped; n = 0 also stands for the leaf that a cap makes of a parent.   *)
Decompose(qs, t, n) ==
  [qs EXCEPT ![t].status = "resolved"] \o FreshOnes("worker", n)

-----------------------------------------------------------------------------
(* The evaluator's side: evaluator._apply_output.                          *)

(* Mutant: the backstop that retires exhausted questions is gone.          *)
NeverRetired(q) == FALSE

Retired(q) == q.status # "resolved" /\ q.blocked >= RetireBlockedAfter

(* A seed may be closed only as exhausted scope, any other at will.        *)
Closable(q) == q.by # "initializer" \/ q.blocked >= 2

Settle(q, close) ==
  IF Retired(q) \/ (close /\ Closable(q))
  THEN [q EXCEPT !.status = "resolved"] ELSE q

(* The list after an evaluator closed the questions in closes and opened n *)
(* new ones.                                                               *)
Judge(qs, closes, n) ==
  [i \in DOMAIN qs |-> Settle(qs[i], i \in closes)] \o FreshOnes("evaluator", n)

-----------------------------------------------------------------------------
(* The driver's side: depth.seed_depth_questions.                          *)

(* Mutant: the seeding does not remember what it seeded.                   *)
ForgetsDeepened(qs) == {}

AlreadyDeepened(qs) ==
  {qs[i].parent : i \in {j \in DOMAIN qs : qs[j].by = "depth"}}

Deepen(qs, parents) ==
  qs \o [i \in DOMAIN parents |-> Fresh("depth", parents[i])]
=============================================================================
