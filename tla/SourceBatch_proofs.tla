-------------------------- MODULE SourceBatch_proofs ---------------------------
(***************************************************************************)
(* Theorems about SourceBatch, for any questions, pages, searches and      *)
(* budgets, and any number of cycles and kills.                            *)
(***************************************************************************)
EXTENDS SourceBatch, FiniteSetTheorems, WellFoundedInduction, TLAPS

-----------------------------------------------------------------------------
(* The steps of a batch, one by one. *)
LEMMA Steps ==
  ASSUME Next
  PROVE  \/ StartBatch \/ EndBatch \/ Kill \/ UNCHANGED vars
         \/ \E q \in Questions : PipelineStep(q)
BY DEF Next, BatchStep, Rest

(* The steps of a pipeline that register nothing and compose nothing. *)
Quiet(q) == Plan(q) \/ Search(q) \/ GiveUp(q) \/ Decline(q) \/ Raise(q)

LEMMA PipelineSteps ==
  ASSUME NEW q \in Questions, PipelineStep(q)
  PROVE  Quiet(q) \/ Read(q) \/ Register(q) \/ Resolve(q)
BY DEF PipelineStep, Quiet

-----------------------------------------------------------------------------
(* The read-outage streak.                                                 *)

(* A batch that is under way has a cycle that the streak does not count    *)
(* yet.                                                                    *)
StreakInv ==
  /\ streak \in Nat /\ cycles \in Nat /\ fed \in 0..cycles
  /\ streak <= cycles - fed
  /\ (\E q \in Questions : pc[q] # "idle") => streak + 1 <= cycles - fed

(* A pipeline moves on within its batch, and counts nothing. *)
LEMMA PipelineUncounted ==
  ASSUME NEW q \in Questions, PipelineStep(q)
  PROVE  UNCHANGED <<streak, cycles, fed>> /\ pc[q] # "idle"
<1>1. CASE Quiet(q)
  BY <1>1 DEF Quiet, Plan, Search, GiveUp, Decline, Raise, Gathered, files, counts
<1>2. CASE Read(q) \/ Register(q) \/ Resolve(q)
  BY <1>2 DEF Read, Register, Resolve, Gathered, files, counts
<1> QED
  BY <1>1, <1>2, PipelineSteps

(* Every step keeps the account of the streak. *)
LEMMA NextStreakInv == StreakInv /\ [Next]_vars => StreakInv'
<1> SUFFICES ASSUME StreakInv, [Next]_vars PROVE StreakInv'
  OBVIOUS
<1> USE DEF StreakInv
<1>1. ASSUME NEW q \in Questions, PipelineStep(q) PROVE StreakInv'
  <2>1. UNCHANGED <<streak, cycles, fed>> /\ pc[q] # "idle"
    BY <1>1, PipelineUncounted
  <2> QED
    BY <2>1
<1>2. CASE StartBatch
  BY <1>2 DEF StartBatch
<1>3. CASE EndBatch
  <2>1. /\ streak + 1 <= cycles - fed /\ cycles' = cycles
        /\ pc' = [q \in Questions |-> "idle"]
        /\ streak' = Noted
        /\ fed' = IF "read" \in Observations THEN cycles ELSE fed
    BY <1>3 DEF EndBatch, Idle
  <2>2. \/ streak' = streak /\ fed' = fed
        \/ streak' = streak + 1 /\ fed' = fed
        \/ streak' = 0 /\ fed' \in {fed, cycles}
    BY <2>1 DEF Noted
  <2> QED
    BY <2>1, <2>2
<1>4. CASE Kill
  BY <1>4 DEF Kill, Idle, files
<1>5. CASE UNCHANGED vars
  BY <1>5 DEF vars, files, pipes, counts
<1> QED
  BY <1>1, <1>2, <1>3, <1>4, <1>5, Steps

(* The streak never exceeds the cycles since a page could be fetched, for  *)
(* any number of pipelines in a cycle.                                     *)
THEOREM StreakIsOfCycles == Spec => []StreakCountsCycles
<1>1. Init => StreakInv
  BY DEF Init, StreakInv
<1>2. StreakInv => StreakCountsCycles
  BY DEF StreakInv, StreakCountsCycles
<1> QED
  BY <1>1, <1>2, NextStreakInv, PTL DEF Spec
-----------------------------------------------------------------------------
(* Induction on natural numbers, for sets of them. *)

(* Among natural numbers one is the least. *)
LEMMA LeastElement ==
  ASSUME NEW S \in SUBSET Nat, S # {}
  PROVE  \E m \in S : \A n \in S : m <= n
<1> DEFINE R == OpToRel(<, Nat)
<1>a. IsWellFoundedOn(R, Nat)
  BY NatLessThanWellFounded
<1> HIDE DEF R
<1>1. PICK m \in S : \A n \in S : <<n, m>> \notin R
  BY <1>a, WFMin
<1>2. \A n \in S : ~(n < m)
  BY <1>1 DEF OpToRel, R
<1> QED
  BY <1>2

(* A set that has zero and every successor has all natural numbers. *)
LEMMA SetInduction ==
  ASSUME NEW S \in SUBSET Nat, 0 \in S, \A n \in S : n + 1 \in S
  PROVE  S = Nat
<1> SUFFICES ASSUME Nat \ S # {} PROVE FALSE
  OBVIOUS
<1>1. PICK m \in Nat \ S : \A n \in Nat \ S : m <= n
  BY LeastElement
<1>2. m - 1 \in S
  BY <1>1
<1> QED
  BY <1>1, <1>2

-----------------------------------------------------------------------------
(* The order in which links are considered.                                *)

StrictOrder(S, R) ==
  /\ \A a \in S : <<a, a>> \notin R
  /\ \A a, b, c \in S : <<a, b>> \in R /\ <<b, c>> \in R => <<a, c>> \in R
  /\ \A a, b \in S : a = b \/ <<a, b>> \in R \/ <<b, a>> \in R

Ahead(S, R, c) == {d \in S : <<d, c>> \in R}

(* In a strict order an element has fewer ahead of it than what follows it, *)
(* and fewer than there are.                                               *)
LEMMA AheadCounts ==
  ASSUME NEW S, IsFiniteSet(S), NEW R, StrictOrder(S, R), NEW c \in S
  PROVE  /\ Cardinality(Ahead(S, R, c)) \in Nat
         /\ Cardinality(Ahead(S, R, c)) < Cardinality(S)
         /\ \A d \in S : <<c, d>> \in R =>
              Cardinality(Ahead(S, R, c)) < Cardinality(Ahead(S, R, d))
<1>1. ASSUME NEW T \in SUBSET S, Ahead(S, R, c) \subseteq T, c \in T
      PROVE  /\ Cardinality(Ahead(S, R, c)) \in Nat
             /\ Cardinality(Ahead(S, R, c)) < Cardinality(T)
  <2>1. IsFiniteSet(T) /\ c \notin Ahead(S, R, c)
    BY <1>1, FS_Subset DEF Ahead, StrictOrder
  <2>2. /\ Cardinality(Ahead(S, R, c)) <= Cardinality(T)
        /\ IsFiniteSet(Ahead(S, R, c))
        /\ Cardinality(T) = Cardinality(Ahead(S, R, c)) => T = Ahead(S, R, c)
    BY <1>1, <2>1, FS_Subset
  <2> QED
    BY <1>1, <2>1, <2>2, FS_CardinalityType
<1>2. ASSUME NEW d \in S, <<c, d>> \in R
      PROVE  Ahead(S, R, c) \subseteq Ahead(S, R, d) /\ c \in Ahead(S, R, d)
  BY <1>2 DEF Ahead, StrictOrder
<1>3. Ahead(S, R, c) \subseteq S /\ \A d \in S : Ahead(S, R, d) \subseteq S
  BY DEF Ahead
<1> QED
  BY <1>1, <1>2, <1>3

(* InOrder lists every element of the set, in the order of the pairs. *)
LEMMA InOrderLists ==
  ASSUME NEW S, IsFiniteSet(S), NEW R, StrictOrder(S, R)
  PROVE  /\ Cardinality(S) \in Nat
         /\ InOrder(S, R) \in [1..Cardinality(S) -> S]
         /\ \A c \in S : \E n \in 1..Cardinality(S) : InOrder(S, R)[n] = c
         /\ \A m, n \in 1..Cardinality(S) :
              <<InOrder(S, R)[m], InOrder(S, R)[n]>> \in R => m < n
<1> DEFINE size == Cardinality(S)
           place(c) == Cardinality(Ahead(S, R, c))
           f == [c \in S |-> place(c) + 1]
           s == InOrder(S, R)
<1>1. size \in Nat /\ IsFiniteSet(1..size) /\ Cardinality(1..size) = size
  BY FS_CardinalityType, FS_Interval
<1>2. \A c \in S : place(c) \in 0..(size - 1)
  BY <1>1, AheadCounts
<1>3. \A c, d \in S : <<c, d>> \in R => place(c) < place(d)
  BY AheadCounts
<1>4. \A c, d \in S : place(c) = place(d) => c = d
  <2> HIDE DEF place
  <2>1. ASSUME NEW c \in S, NEW d \in S, place(c) = place(d) PROVE c = d
    <3>1. ~(place(c) < place(d)) /\ ~(place(d) < place(c))
      BY <1>2, <2>1
    <3> QED
      BY <1>3, <3>1 DEF StrictOrder
  <2> QED
    BY <2>1
<1>5. s = [n \in 1..size |-> CHOOSE c \in S : place(c) = n - 1]
  BY DEF InOrder, Ahead
<1> HIDE DEF size, place, s
<1>6. \A n \in 1..size : \E c \in S : place(c) = n - 1
  <2>1. f \in Injection(S, 1..size)
    BY <1>1, <1>2, <1>4 DEF Injection, IsInjective
  <2>2. f \in Surjection(S, 1..size)
    BY <1>1, <2>1, FS_Injection DEF size
  <2>3. \A n \in 1..size : \E c \in S : place(c) + 1 = n
    BY <2>2 DEF Surjection
  <2>4. ASSUME NEW n \in 1..size PROVE \E c \in S : place(c) = n - 1
    <3>1. PICK c \in S : place(c) + 1 = n
      BY <2>3
    <3>2. place(c) \in Int
      BY <1>2
    <3> QED
      BY <3>1, <3>2
  <2> QED
    BY <2>4
<1>7. \A n \in 1..size : s[n] \in S /\ place(s[n]) = n - 1
  BY <1>5, <1>6
<1>8. s \in [1..size -> S]
  BY <1>5, <1>7
<1>9. ASSUME NEW c \in S PROVE \E n \in 1..size : s[n] = c
  <2> DEFINE n == place(c) + 1
  <2>1. n \in 1..size /\ n - 1 = place(c)
    BY <1>1, <1>2
  <2> HIDE DEF n
  <2>2. s[n] \in S /\ place(s[n]) = place(c)
    BY <1>7, <2>1
  <2>3. s[n] = c
    BY <1>4, <2>2
  <2> QED
    BY <2>1, <2>3
<1>10. ASSUME NEW m \in 1..size, NEW n \in 1..size, <<s[m], s[n]>> \in R
       PROVE  m < n
  <2>1. place(s[m]) < place(s[n])
    BY <1>3, <1>7, <1>10
  <2> QED
    BY <1>1, <1>7, <2>1
<1> QED
  BY <1>1, <1>8, <1>9, <1>10 DEF size, s

(* The values of a function on a finite set are finitely many. *)
LEMMA RangeFinite ==
  ASSUME NEW S, IsFiniteSet(S), NEW T, NEW f \in [S -> T]
  PROVE  IsFiniteSet(Range(f))
<1>1. f \in Surjection(S, Range(f))
  BY DEF Surjection, Range
<1> QED
  BY <1>1, FS_Surjection

(* The results of a search for some question. *)
Results(lists, rel) == lists \in Seq(Seq(Links)) /\ rel \in [Links -> Int]

(* A candidate is a pair of numbers that stands for a link; lists have     *)
(* finitely many.                                                          *)
LEMMA CandidateType ==
  ASSUME NEW lists, NEW rel, Results(lists, rel)
  PROVE  /\ IsFiniteSet(Candidates(lists))
         /\ \A c \in Candidates(lists) :
              /\ c = <<c[1], c[2]>> /\ c[1] \in Nat /\ c[2] \in Nat
              /\ Link(lists, c) \in Links
<1>0. lists \in Seq(Seq(Links))
  BY DEF Results
<1> DEFINE places == [q \in DOMAIN lists |-> {q} \X DOMAIN lists[q]]
<1>1. DOMAIN lists = 1..Len(lists) /\ Len(lists) \in Nat
  BY <1>0
<1>2. IsFiniteSet(DOMAIN lists)
  BY <1>1, FS_Interval
<1>3. ASSUME NEW q \in DOMAIN lists
      PROVE  /\ lists[q] \in Seq(Links) /\ DOMAIN lists[q] = 1..Len(lists[q])
             /\ Len(lists[q]) \in Nat
  <2>1. lists[q] \in Seq(Links)
    BY <1>0, <1>1
  <2> QED
    BY <2>1
<1>4. \A q \in DOMAIN lists : IsFiniteSet(places[q])
  <2> SUFFICES ASSUME NEW q \in DOMAIN lists PROVE IsFiniteSet({q} \X DOMAIN lists[q])
    OBVIOUS
  <2>1. IsFiniteSet({q})
    BY FS_Singleton
  <2>2. IsFiniteSet(1..Len(lists[q]))
    BY <1>3, FS_Interval
  <2> QED
    BY <1>3, <2>1, <2>2, FS_Product
<1>5. IsFiniteSet(Range(places))
  <2>1. places \in [DOMAIN lists -> {places[q] : q \in DOMAIN lists}]
    OBVIOUS
  <2> HIDE DEF places
  <2> QED
    BY <1>2, <2>1, RangeFinite
<1>6. Candidates(lists) = UNION Range(places)
  BY DEF Candidates, Range
<1>7. IsFiniteSet(Candidates(lists))
  <2>1. \A T \in Range(places) : IsFiniteSet(T)
    BY <1>4 DEF Range
  <2> HIDE DEF places
  <2> QED
    BY <1>5, <1>6, <2>1, FS_UNION
<1>8. ASSUME NEW c \in Candidates(lists)
      PROVE  /\ c = <<c[1], c[2]>> /\ c[1] \in Nat /\ c[2] \in Nat
             /\ Link(lists, c) \in Links
  <2>1. PICK q \in DOMAIN lists : c \in {q} \X DOMAIN lists[q]
    BY DEF Candidates
  <2>2. c = <<q, c[2]>> /\ c[1] = q /\ c[2] \in 1..Len(lists[q])
    BY <1>3, <2>1
  <2>3. lists[q][c[2]] \in Links
    BY <1>3, <2>2
  <2> QED
    BY <1>1, <2>2, <2>3 DEF Link
<1> QED
  BY <1>7, <1>8

(* Keys are four numbers, which the lexicographic order sorts. *)
Keys == {<<a, b, c, d>> : a \in Int, b \in Int, c \in Int, d \in Int}

LEMMA LexicographicOrders ==
  /\ \A k \in Keys : ~Lexicographic(k, k)
  /\ \A k, m, n \in Keys : Lexicographic(k, m) /\ Lexicographic(m, n) => Lexicographic(k, n)
  /\ \A k, m \in Keys : k = m \/ Lexicographic(k, m) \/ Lexicographic(m, k)
<1>1. ASSUME NEW k \in Keys, NEW m \in Keys
      PROVE  /\ Lexicographic(k, m) <=>
                  \/ k[1] < m[1]
                  \/ k[1] = m[1] /\ k[2] < m[2]
                  \/ k[1] = m[1] /\ k[2] = m[2] /\ k[3] < m[3]
                  \/ k[1] = m[1] /\ k[2] = m[2] /\ k[3] = m[3] /\ k[4] < m[4]
             /\ k = m <=> k[1] = m[1] /\ k[2] = m[2] /\ k[3] = m[3] /\ k[4] = m[4]
             /\ k[1] \in Int /\ k[2] \in Int /\ k[3] \in Int /\ k[4] \in Int
  <2>1. DOMAIN k = 1..4 /\ 1..4 = {1, 2, 3, 4}
    BY DEF Keys
  <2>2. Lexicographic(k, m) <=>
          \E i \in {1, 2, 3, 4} : k[i] < m[i] /\ \A j \in 1..(i - 1) : k[j] = m[j]
    BY <2>1 DEF Lexicographic
  <2>3. /\ 1..(1 - 1) = {} /\ 1..(2 - 1) = {1} /\ 1..(3 - 1) = {1, 2}
        /\ 1..(4 - 1) = {1, 2, 3}
    OBVIOUS
  <2>4. Lexicographic(k, m) <=>
          \/ k[1] < m[1] /\ \A j \in 1..(1 - 1) : k[j] = m[j]
          \/ k[2] < m[2] /\ \A j \in 1..(2 - 1) : k[j] = m[j]
          \/ k[3] < m[3] /\ \A j \in 1..(3 - 1) : k[j] = m[j]
          \/ k[4] < m[4] /\ \A j \in 1..(4 - 1) : k[j] = m[j]
    BY <2>2, Zenon
  <2>5. k = <<k[1], k[2], k[3], k[4]>> /\ m = <<m[1], m[2], m[3], m[4]>>
    BY DEF Keys
  <2>6. k[1] \in Int /\ k[2] \in Int /\ k[3] \in Int /\ k[4] \in Int
    BY DEF Keys
  <2> QED
    BY <2>3, <2>4, <2>5, <2>6
<1>2. ASSUME NEW k \in Keys PROVE ~Lexicographic(k, k)
  BY <1>1
<1>3. ASSUME NEW k \in Keys, NEW m \in Keys, NEW n \in Keys,
             Lexicographic(k, m), Lexicographic(m, n)
      PROVE  Lexicographic(k, n)
  BY <1>1, <1>3
<1>4. ASSUME NEW k \in Keys, NEW m \in Keys
      PROVE  k = m \/ Lexicographic(k, m) \/ Lexicographic(m, k)
  BY <1>1
<1> QED
  BY <1>2, <1>3, <1>4

(* The sort puts the candidates in a strict order: two with one key keep   *)
(* the places they had.                                                    *)
LEMMA RankingOrders ==
  ASSUME NEW lists, NEW rel, Results(lists, rel)
  PROVE  StrictOrder(Candidates(lists), Ranking(lists, rel))
<1> DEFINE C == Candidates(lists)
           key(c) == Key(rel, Link(lists, c))
           R == Ranking(lists, rel)
<1>1. \A c \in C : key(c) \in Keys
  <2> SUFFICES ASSUME NEW c \in C PROVE key(c) \in Keys
    OBVIOUS
  <2>1. Link(lists, c) \in Links
    BY CandidateType
  <2>2. \A l \in Links : rel[l] \in Int /\ Authority[l] \in Int
                         /\ LowValue[l] \in Int /\ Overlap[l] \in Int
    BY SelectionAssumption DEF Results
  <2>3. \A l \in Links : -rel[l] \in Int /\ -Overlap[l] \in Int
    BY <2>2
  <2> QED
    BY <2>1, <2>2, <2>3 DEF Key, Keys
<1>2. \A c \in C : c = <<c[1], c[2]>> /\ c[1] \in Nat /\ c[2] \in Nat
  BY CandidateType
<1>3. /\ \A c \in C : ~Interleaved(c, c)
      /\ \A c, d, e \in C : Interleaved(c, d) /\ Interleaved(d, e) => Interleaved(c, e)
      /\ \A c, d \in C : c = d \/ Interleaved(c, d) \/ Interleaved(d, c)
  BY <1>2 DEF Interleaved
<1>4. \A c, d \in C : <<c, d>> \in R <=>
        Lexicographic(key(c), key(d)) \/ (key(c) = key(d) /\ Interleaved(c, d))
  BY DEF Ranking
<1> HIDE DEF C, key, R
<1>5. ASSUME NEW c \in C PROVE <<c, c>> \notin R
  BY <1>1, <1>3, <1>4, LexicographicOrders
<1>6. ASSUME NEW c \in C, NEW d \in C, NEW e \in C, <<c, d>> \in R, <<d, e>> \in R
      PROVE  <<c, e>> \in R
  BY <1>1, <1>3, <1>4, <1>6, LexicographicOrders
<1>7. ASSUME NEW c \in C, NEW d \in C
      PROVE  c = d \/ <<c, d>> \in R \/ <<d, c>> \in R
  BY <1>1, <1>3, <1>4, LexicographicOrders
<1> QED
  BY <1>5, <1>6, <1>7 DEF StrictOrder, C, R

(* The candidates of one host. *)
OfHost(lists, d) == {c \in Candidates(lists) : Host(lists, c) = d}

(* A round is a number, and of two candidates of one host the one that     *)
(* ranks first is in an earlier round.                                     *)
LEMMA RoundsOfHost ==
  ASSUME NEW lists, NEW rel, Results(lists, rel), NEW c \in Candidates(lists)
  PROVE  LET R == Ranking(lists, rel)
         IN  /\ Round(lists, R, c) \in Nat
             /\ \A d \in Candidates(lists) :
                  /\ Host(lists, d) = Host(lists, c)
                  /\ <<c, d>> \in R
                  => Round(lists, R, c) < Round(lists, R, d)
<1> DEFINE R == Ranking(lists, rel)
           H == OfHost(lists, Host(lists, c))
<1>1. IsFiniteSet(H)
  BY CandidateType, FS_Subset DEF OfHost
<1>2. StrictOrder(H, R)
  BY RankingOrders DEF StrictOrder, OfHost
<1>3. c \in H
  BY DEF OfHost
<1>4. \A d \in H : Round(lists, R, d) = Cardinality(Ahead(H, R, d))
  <2> SUFFICES ASSUME NEW d \in H
               PROVE  Round(lists, R, d) = Cardinality(Ahead(H, R, d))
    OBVIOUS
  <2>1. Host(lists, d) = Host(lists, c)
    BY DEF OfHost
  <2>2. Ahead(H, R, d) = {e \in Candidates(lists) :
                            <<e, d>> \in R /\ Host(lists, e) = Host(lists, d)}
    BY <2>1 DEF Ahead, OfHost
  <2> QED
    BY <2>2 DEF Round
<1>5. \A d \in Candidates(lists) : Host(lists, d) = Host(lists, c) => d \in H
  BY DEF OfHost
<1> HIDE DEF R, H
<1>6. /\ Cardinality(Ahead(H, R, c)) \in Nat
      /\ \A d \in H : <<c, d>> \in R =>
           Cardinality(Ahead(H, R, c)) < Cardinality(Ahead(H, R, d))
  BY <1>1, <1>2, <1>3, AheadCounts
<1> QED
  BY <1>3, <1>4, <1>5, <1>6 DEF R

(* A host that has candidates has one in the first round. *)
LEMMA FirstOfHost ==
  ASSUME NEW lists, NEW rel, Results(lists, rel), NEW c \in Candidates(lists)
  PROVE  \E d \in Candidates(lists) :
           /\ Host(lists, d) = Host(lists, c)
           /\ Round(lists, Ranking(lists, rel), d) = 0
<1> DEFINE R == Ranking(lists, rel)
           H == OfHost(lists, Host(lists, c))
           round(d) == Round(lists, R, d)
           rounds == {round(d) : d \in H}
<1>1. \A d \in H : d \in Candidates(lists) /\ Host(lists, d) = Host(lists, c)
  BY DEF OfHost
<1>2. c \in H
  BY DEF OfHost
<1>3. \A d \in H : round(d) \in Nat
  BY <1>1, RoundsOfHost
<1> HIDE DEF round
<1>4. \E d \in H : \A e \in H : round(d) <= round(e)
  <2>1. rounds \in SUBSET Nat /\ rounds # {}
    BY <1>2, <1>3
  <2>2. PICK m \in rounds : \A n \in rounds : m <= n
    BY <2>1, LeastElement
  <2> QED
    BY <2>2
<1>5. PICK d \in H : \A e \in H : round(d) <= round(e)
  BY <1>4
<1>6. {e \in Candidates(lists) : <<e, d>> \in R /\ Host(lists, e) = Host(lists, d)} = {}
  <2> SUFFICES ASSUME NEW e \in Candidates(lists), <<e, d>> \in R,
                      Host(lists, e) = Host(lists, d)
               PROVE  FALSE
    OBVIOUS
  <2>1. e \in H
    BY <1>1 DEF OfHost
  <2>2. round(e) < round(d)
    BY <1>1, RoundsOfHost DEF round
  <2> QED
    BY <1>3, <1>5, <2>1, <2>2
<1>7. round(d) = 0
  BY <1>6, FS_EmptySet DEF round, Round
<1> QED
  BY <1>1, <1>7 DEF round

(* Breadth first is a strict order too. *)
LEMMA BreadthOrders ==
  ASSUME NEW lists, NEW rel, Results(lists, rel)
  PROVE  StrictOrder(Candidates(lists), Breadth(lists, Ranking(lists, rel)))
<1> DEFINE C == Candidates(lists)
           R == Ranking(lists, rel)
           round(c) == Round(lists, R, c)
           B == Breadth(lists, R)
<1>1. StrictOrder(C, R)
  BY RankingOrders
<1>2. \A c \in C : round(c) \in Nat
  BY RoundsOfHost
<1>3. \A c, d \in C : <<c, d>> \in B <=>
        round(c) < round(d) \/ (round(c) = round(d) /\ <<c, d>> \in R)
  BY DEF Breadth
<1> HIDE DEF C, R, round, B
<1>4. ASSUME NEW c \in C PROVE <<c, c>> \notin B
  BY <1>1, <1>2, <1>3 DEF StrictOrder
<1>5. ASSUME NEW c \in C, NEW d \in C, NEW e \in C, <<c, d>> \in B, <<d, e>> \in B
      PROVE  <<c, e>> \in B
  <2>1. round(c) \in Nat /\ round(d) \in Nat /\ round(e) \in Nat
    BY <1>2
  <2>2. <<c, d>> \in R /\ <<d, e>> \in R => <<c, e>> \in R
    BY <1>1 DEF StrictOrder
  <2> QED
    BY <1>3, <1>5, <2>1, <2>2
<1>6. ASSUME NEW c \in C, NEW d \in C
      PROVE  c = d \/ <<c, d>> \in B \/ <<d, c>> \in B
  <2>1. round(c) \in Nat /\ round(d) \in Nat
    BY <1>2
  <2>2. c = d \/ <<c, d>> \in R \/ <<d, c>> \in R
    BY <1>1 DEF StrictOrder
  <2> QED
    BY <1>3, <2>1, <2>2
<1> QED
  BY <1>4, <1>5, <1>6 DEF StrictOrder, C, B, R

(* The schedule lists the candidates, those of an earlier round first. *)
LEMMA ScheduleLists ==
  ASSUME NEW lists, NEW rel, Results(lists, rel)
  PROVE  LET s == Schedule(lists, rel)
             R == Ranking(lists, rel)
         IN  /\ Len(s) \in Nat /\ DOMAIN s = 1..Len(s)
             /\ \A n \in 1..Len(s) : s[n] \in Candidates(lists)
             /\ \A c \in Candidates(lists) : \E n \in 1..Len(s) : s[n] = c
             /\ \A m, n \in 1..Len(s) :
                  Round(lists, R, s[m]) < Round(lists, R, s[n]) => m < n
<1> DEFINE C == Candidates(lists)
           R == Ranking(lists, rel)
           B == Breadth(lists, R)
           s == Schedule(lists, rel)
<1>1. /\ Cardinality(C) \in Nat
      /\ s \in [1..Cardinality(C) -> C]
      /\ \A c \in C : \E n \in 1..Cardinality(C) : s[n] = c
      /\ \A m, n \in 1..Cardinality(C) : <<s[m], s[n]>> \in B => m < n
  <2>1. IsFiniteSet(C) /\ StrictOrder(C, B) /\ s = InOrder(C, B)
    BY CandidateType, BreadthOrders DEF Schedule
  <2> HIDE DEF C, B, s
  <2> QED
    BY <2>1, InOrderLists
<1>2. \A c, d \in C : Round(lists, R, c) < Round(lists, R, d) => <<c, d>> \in B
  BY DEF Breadth
<1> HIDE DEF C, B, R, s
<1>3. s \in Seq(C)
  BY <1>1
<1>4. Len(s) = Cardinality(C)
  BY <1>1, <1>3
<1> QED
  BY <1>1, <1>2, <1>4 DEF C, R, s

-----------------------------------------------------------------------------
(* What select_urls keeps.                                                 *)

(* The selection is what is kept when all of the schedule was considered,  *)
(* link by link.                                                           *)
LEMMA SelectionSteps ==
  ASSUME NEW lists, NEW registry, NEW rel, Len(Schedule(lists, rel)) \in Nat
  PROVE  LET s == Schedule(lists, rel)
         IN  \E kept : /\ kept[0] = <<>>
                       /\ \A n \in 1..Len(s) :
                            kept[n] = Considered(lists, registry, kept[n - 1], s[n])
                       /\ Selection(lists, registry, rel) = kept[Len(s)]
<1> DEFINE s == Schedule(lists, rel)
           Next1(k, c) == Considered(lists, registry, k, c)
           Is(f, m) == f = [n \in 0..m |-> IF n = 0 THEN <<>> ELSE Next1(f[n - 1], s[n])]
           S == {m \in Nat : \E f : Is(f, m)}
           f0 == CHOOSE f : Is(f, Len(s))
<1>0. Selection(lists, registry, rel) = f0[Len(s)]
  BY DEF Selection
<1> HIDE DEF s, Next1
<1>1. 0 \in S
  <2>1. Is([n \in 0..0 |-> <<>>], 0)
    OBVIOUS
  <2> QED
    BY <2>1
<1>2. ASSUME NEW m \in S PROVE m + 1 \in S
  <2>1. PICK f : Is(f, m)
    OBVIOUS
  <2> DEFINE g == [n \in 0..(m + 1) |-> IF n <= m THEN f[n] ELSE Next1(f[m], s[m + 1])]
  <2>2. \A n \in 0..(m + 1) : g[n] = IF n = 0 THEN <<>> ELSE Next1(g[n - 1], s[n])
    <3> SUFFICES ASSUME NEW n \in 0..(m + 1)
                 PROVE  g[n] = IF n = 0 THEN <<>> ELSE Next1(g[n - 1], s[n])
      OBVIOUS
    <3>1. CASE n = 0
      BY <2>1, <3>1
    <3>2. CASE n \in 1..m
      BY <2>1, <3>2
    <3>3. CASE n = m + 1
      BY <3>3
    <3> QED
      BY <3>1, <3>2, <3>3
  <2>3. Is(g, m + 1)
    BY <2>2
  <2>4. \E h : Is(h, m + 1)
    BY <2>3
  <2>5. m + 1 \in Nat
    OBVIOUS
  <2> HIDE DEF g, Is
  <2> QED
    BY <2>4, <2>5, Zenon
<1>3. S = Nat
  <2> HIDE DEF S
  <2>1. S \in SUBSET Nat
    BY DEF S
  <2> QED
    BY <1>1, <1>2, <2>1, SetInduction
<1>4. Is(f0, Len(s))
  BY <1>3 DEF s
<1> HIDE DEF f0
<1>5. Len(s) \in Nat
  BY DEF s
<1>6. f0[0] = <<>> /\ \A n \in 1..Len(s) : f0[n] = Next1(f0[n - 1], s[n])
  BY <1>4, <1>5
<1> QED
  BY <1>0, <1>6 DEF s, Next1

(* A sequence has finitely many elements, and one more with Append. *)
LEMMA AppendRange ==
  ASSUME NEW C, NEW kept \in Seq(C), NEW c \in C
  PROVE  /\ IsFiniteSet(Range(kept))
         /\ Append(kept, c) \in Seq(C)
         /\ Range(Append(kept, c)) = Range(kept) \cup {c}
<1>1. Len(kept) \in Nat /\ kept \in [1..Len(kept) -> C]
  OBVIOUS
<1>2. IsFiniteSet(Range(kept))
  <2>1. IsFiniteSet(1..Len(kept))
    BY <1>1, FS_Interval
  <2> QED
    BY <1>1, <2>1, RangeFinite
<1> DEFINE a == Append(kept, c)
<1>3. /\ a \in Seq(C) /\ DOMAIN a = 1..(Len(kept) + 1) /\ a[Len(kept) + 1] = c
      /\ \A i \in 1..Len(kept) : a[i] = kept[i]
  BY <1>1
<1> HIDE DEF a
<1>4. Range(a) = Range(kept) \cup {c}
  <2>1. ASSUME NEW i \in DOMAIN a PROVE a[i] \in Range(kept) \cup {c}
    BY <1>1, <1>3 DEF Range
  <2>2. ASSUME NEW i \in DOMAIN kept PROVE kept[i] \in Range(a)
    BY <1>1, <1>3 DEF Range
  <2>3. c \in Range(a)
    BY <1>1, <1>3 DEF Range
  <2> QED
    BY <2>1, <2>2, <2>3 DEF Range
<1> QED
  BY <1>2, <1>3, <1>4 DEF a

(* A link that is passed over stays out: what is kept only grows. *)
LEMMA PassedOverForGood ==
  ASSUME NEW lists, NEW rel, Results(lists, rel), NEW registry,
         NEW kept, NEW more, IsFiniteSet(Range(more)), Range(kept) \subseteq Range(more),
         NEW c \in Candidates(lists), Admissible(lists, registry, more, c)
  PROVE  Admissible(lists, registry, kept, c)
<1> DEFINE l == Link(lists, c)
           query(k) == {x \in Range(k) : x[1] = c[1]}
           host(k) == {x \in Range(k) : Host(lists, x) = Domain[l]}
<1>1. DomainCap[Domain[l]] \in Int /\ PerQuery \in Int
  BY CandidateType, SelectionAssumption
<1>2. IsFiniteSet(query(more)) /\ IsFiniteSet(host(more))
  BY FS_Subset
<1>3. query(kept) \subseteq query(more) /\ host(kept) \subseteq host(more)
  OBVIOUS
<1>4. /\ Cardinality(query(kept)) \in Nat /\ Cardinality(query(more)) \in Nat
      /\ Cardinality(host(kept)) \in Nat /\ Cardinality(host(more)) \in Nat
      /\ Cardinality(query(kept)) <= Cardinality(query(more))
      /\ Cardinality(host(kept)) <= Cardinality(host(more))
  <2> HIDE DEF query, host
  <2> QED
    BY <1>2, <1>3, FS_Subset, FS_CardinalityType
<1>5. Cardinality(query(more)) < PerQuery /\ Cardinality(host(more)) < DomainCap[Domain[l]]
  BY DEF Admissible
<1>6. Cardinality(query(kept)) < PerQuery /\ Cardinality(host(kept)) < DomainCap[Domain[l]]
  BY <1>1, <1>4, <1>5
<1> QED
  BY <1>6 DEF Admissible

(* What is kept when n links of the schedule were considered: unless the   *)
(* budget is spent, none of them could be added; and when a link is kept,  *)
(* nor could any that was considered before it.                            *)
Sifted(lists, registry, s, n, kept) ==
  /\ kept \in Seq(Candidates(lists))
  /\ \A k \in Range(kept) : Link(lists, k) \in Pages \ registry
  /\ \A q : Cardinality({k \in Range(kept) : k[1] = q}) <= PerQuery
  /\ Full(kept) \/ \A m \in 1..n : ~Admissible(lists, registry, kept, s[m])
  /\ \A k \in Range(kept) : \E j \in 1..n :
       /\ k = s[j]
       /\ \A m \in 1..j : ~Admissible(lists, registry, kept, s[m])

(* Considering the next link keeps the account. *)
LEMMA ConsideredSifts ==
  ASSUME NEW lists, NEW rel, Results(lists, rel), NEW registry, NEW s, NEW n \in Nat,
         \A m \in 1..(n + 1) : s[m] \in Candidates(lists),
         NEW kept, Sifted(lists, registry, s, n, kept)
  PROVE  Sifted(lists, registry, s, n + 1, Considered(lists, registry, kept, s[n + 1]))
<1> DEFINE c == s[n + 1]
           A(k, m) == Admissible(lists, registry, k, s[m])
<1>1. c \in Candidates(lists) /\ kept \in Seq(Candidates(lists))
  BY DEF Sifted
<1>2. 1..n \subseteq 1..(n + 1) /\ \A m \in 1..(n + 1) : m \in 1..n \/ m = n + 1
  OBVIOUS
<1>3. \A k \in Range(kept) : \E j \in 1..n : k = s[j] /\ \A m \in 1..j : ~A(kept, m)
  BY DEF Sifted
<1>4. CASE Full(kept) \/ ~A(kept, n + 1)
  <2>1. Considered(lists, registry, kept, c) = kept
    BY <1>4 DEF Considered
  <2>2. Full(kept) \/ \A m \in 1..(n + 1) : ~A(kept, m)
    BY <1>2, <1>4 DEF Sifted
  <2>3. \A k \in Range(kept) : \E j \in 1..(n + 1) : k = s[j] /\ \A m \in 1..j : ~A(kept, m)
    BY <1>2, <1>3
  <2>4. Sifted(lists, registry, s, n + 1, kept)
    BY <2>2, <2>3 DEF Sifted
  <2> QED
    BY <2>1, <2>4
<1>5. CASE ~Full(kept) /\ A(kept, n + 1)
  <2> DEFINE more == Append(kept, c)
  <2>1. Considered(lists, registry, kept, c) = more
    BY <1>5 DEF Considered
  <2>2. IsFiniteSet(Range(kept)) /\ more \in Seq(Candidates(lists))
        /\ Range(more) = Range(kept) \cup {c}
    BY <1>1, AppendRange
  <2> HIDE DEF more, c
  <2>3. IsFiniteSet(Range(more))
    <3>1. IsFiniteSet(Range(kept) \cup {c})
      BY <2>2, FS_AddElement
    <3> QED
      BY <2>2, <3>1
  <2>4. Link(lists, c) \in Pages \ registry /\ Cardinality({k \in Range(kept) : k[1] = c[1]}) < PerQuery
    <3>1. Link(lists, c) \in Links
      BY <1>1, CandidateType
    <3> QED
      BY <1>5, <3>1 DEF Admissible, Links, c
  <2>5. ASSUME NEW q PROVE Cardinality({k \in Range(more) : k[1] = q}) <= PerQuery
    <3> DEFINE Q == {k \in Range(kept) : k[1] = q}
               P == {k \in Range(more) : k[1] = q}
    <3>1. Cardinality(Q) <= PerQuery /\ PerQuery \in Nat
      BY SelectionAssumption DEF Sifted
    <3>2. IsFiniteSet(Q)
      BY <2>2, FS_Subset
    <3>3. CASE c[1] = q
      <4>1. P = Q \cup {c}
        BY <2>2, <3>3
      <4>2. Cardinality(Q) < PerQuery
        BY <2>4, <3>3
      <4> HIDE DEF P, Q
      <4>3. Cardinality(Q) \in Nat
        BY <3>2, FS_CardinalityType
      <4>4. Cardinality(P) = IF c \in Q THEN Cardinality(Q) ELSE Cardinality(Q) + 1
        BY <3>2, <4>1, FS_AddElement
      <4>5. Cardinality(P) <= PerQuery
        BY <3>1, <4>2, <4>3, <4>4
      <4> QED
        BY <4>5 DEF P
    <3>4. CASE c[1] # q
      <4>1. P = Q
        BY <2>2, <3>4
      <4> QED
        BY <3>1, <4>1
    <3> QED
      BY <3>3, <3>4
  <2>6. \A m \in 1..(n + 1) : ~A(kept, m) => ~A(more, m)
    BY <2>2, <2>3, PassedOverForGood
  <2>7. ~A(more, n + 1)
    BY <2>2 DEF Admissible, c
  <2>8. \A m \in 1..(n + 1) : ~A(more, m)
    BY <1>2, <1>5, <2>6, <2>7 DEF Sifted
  <2>9. ASSUME NEW k \in Range(more)
        PROVE  \E j \in 1..(n + 1) : k = s[j] /\ \A m \in 1..j : ~A(more, m)
    <3>1. CASE k \in Range(kept)
      <4>1. PICK j \in 1..n : k = s[j] /\ \A m \in 1..j : ~A(kept, m)
        BY <1>3, <3>1
      <4>2. j \in 1..(n + 1) /\ 1..j \subseteq 1..(n + 1)
        OBVIOUS
      <4> QED
        BY <2>6, <4>1, <4>2
    <3>2. CASE k = c
      <4>1. n + 1 \in 1..(n + 1)
        OBVIOUS
      <4> QED
        BY <2>8, <3>2, <4>1 DEF c
    <3> QED
      BY <2>2, <3>1, <3>2
  <2>10. \A k \in Range(more) : Link(lists, k) \in Pages \ registry
    BY <2>2, <2>4 DEF Sifted
  <2> HIDE DEF A
  <2>11. Sifted(lists, registry, s, n + 1, more)
    BY <2>2, <2>5, <2>8, <2>9, <2>10 DEF Sifted, A
  <2> QED
    BY <2>1, <2>11 DEF c
<1> QED
  BY <1>4, <1>5

(* So does the selection, when all of the schedule was considered. *)
LEMMA SelectionSifts ==
  ASSUME NEW lists, NEW rel, Results(lists, rel), NEW registry
  PROVE  LET s == Schedule(lists, rel)
         IN  Sifted(lists, registry, s, Len(s), Selection(lists, registry, rel))
<1> DEFINE s == Schedule(lists, rel)
<1>1. Len(s) \in Nat /\ \A n \in 1..Len(s) : s[n] \in Candidates(lists)
  BY ScheduleLists
<1>2. PICK kept :
        /\ kept[0] = <<>>
        /\ \A n \in 1..Len(s) : kept[n] = Considered(lists, registry, kept[n - 1], s[n])
        /\ Selection(lists, registry, rel) = kept[Len(s)]
  BY <1>1, SelectionSteps
<1> HIDE DEF s
<1> DEFINE S == {m \in Nat : m <= Len(s) => Sifted(lists, registry, s, m, kept[m])}
<1>3. 0 \in S
  <2>1. Range(kept[0]) = {} /\ kept[0] \in Seq(Candidates(lists))
    BY <1>2 DEF Range
  <2>2. \A q : {k \in Range(kept[0]) : k[1] = q} = {}
    BY <2>1
  <2>3. \A q : Cardinality({k \in Range(kept[0]) : k[1] = q}) <= PerQuery
    <3> SUFFICES ASSUME NEW q
                 PROVE  Cardinality({k \in Range(kept[0]) : k[1] = q}) <= PerQuery
      OBVIOUS
    <3>1. Cardinality({k \in Range(kept[0]) : k[1] = q}) = 0
      BY <2>2, FS_EmptySet
    <3>2. PerQuery \in Nat
      BY SelectionAssumption
    <3> QED
      BY <3>1, <3>2
  <2>4. Sifted(lists, registry, s, 0, kept[0])
    BY <2>1, <2>3 DEF Sifted
  <2> QED
    BY <2>4
<1>4. ASSUME NEW m \in S PROVE m + 1 \in S
  <2>1. m \in Nat /\ m + 1 \in Nat /\ (m + 1) - 1 = m
    OBVIOUS
  <2> SUFFICES ASSUME m + 1 <= Len(s)
               PROVE  Sifted(lists, registry, s, m + 1, kept[m + 1])
    OBVIOUS
  <2>2. Sifted(lists, registry, s, m, kept[m])
    BY <1>1, <2>1
  <2>3. m + 1 \in 1..Len(s) /\ \A i \in 1..(m + 1) : s[i] \in Candidates(lists)
    BY <1>1, <2>1
  <2>4. kept[m + 1] = Considered(lists, registry, kept[m], s[m + 1])
    BY <1>2, <2>1, <2>3
  <2> QED
    BY <2>1, <2>2, <2>3, <2>4, ConsideredSifts
<1>5. S = Nat
  <2> HIDE DEF S
  <2>1. S \in SUBSET Nat
    BY DEF S
  <2> QED
    BY <1>3, <1>4, <2>1, SetInduction
<1>6. Sifted(lists, registry, s, Len(s), kept[Len(s)])
  BY <1>1, <1>5
<1> QED
  BY <1>2, <1>6 DEF s

(* Of two candidates of a host one is past the first round. *)
LEMMA SecondOfHost ==
  ASSUME NEW lists, NEW rel, Results(lists, rel), NEW c \in Candidates(lists),
         NEW d \in Candidates(lists), c # d, Host(lists, c) = Host(lists, d)
  PROVE  LET R == Ranking(lists, rel)
         IN  Round(lists, R, c) > 0 \/ Round(lists, R, d) > 0
<1> DEFINE R == Ranking(lists, rel)
<1>1. Round(lists, R, c) \in Nat /\ Round(lists, R, d) \in Nat
  BY RoundsOfHost
<1>2. <<c, d>> \in R \/ <<d, c>> \in R
  BY RankingOrders DEF StrictOrder
<1>3. Round(lists, R, c) < Round(lists, R, d) \/ Round(lists, R, d) < Round(lists, R, c)
  BY <1>2, RoundsOfHost
<1> HIDE DEF R
<1> QED
  BY <1>1, <1>3 DEF R

(* What select_urls keeps starves no host. *)
LEMMA SelectionStarvesNone ==
  ASSUME NEW lists, NEW rel, Results(lists, rel), NEW registry
  PROVE  NoHostStarved(lists, registry, Selection(lists, registry, rel))
<1> DEFINE s == Schedule(lists, rel)
           R == Ranking(lists, rel)
           kept == Selection(lists, registry, rel)
           got(d) == {k \in Range(kept) : Host(lists, k) = d}
           links(d) == {c \in Candidates(lists) : Host(lists, c) = d}
           spent(q) == Cardinality({k \in Range(kept) : k[1] = q}) = PerQuery
<1>1. Sifted(lists, registry, s, Len(s), kept)
  BY SelectionSifts
<1>2. kept \in Seq(Candidates(lists)) /\ Range(kept) \subseteq Candidates(lists)
  <2>1. kept \in Seq(Candidates(lists))
    BY <1>1 DEF Sifted
  <2> HIDE DEF kept
  <2> QED
    BY <2>1 DEF Range
<1>3. IsFiniteSet(Range(kept))
  BY <1>2, CandidateType, FS_Subset
<1>4. /\ Len(s) \in Nat
      /\ \A c \in Candidates(lists) : \E n \in 1..Len(s) : s[n] = c
      /\ \A m, n \in 1..Len(s) : Round(lists, R, s[m]) < Round(lists, R, s[n]) => m < n
  BY ScheduleLists
<1> HIDE DEF s, R, kept
<1> SUFFICES ASSUME NEW d \in {Domain[l] : l \in Links}, NEW e \in {Domain[l] : l \in Links},
                    Cardinality(got(e)) > 1, links(d) # {}, d \notin Blocked, DomainCap[d] > 0,
                    \A c \in links(d) : Link(lists, c) \in Pages \ registry,
                    got(d) = {}
             PROVE  \E c \in links(d) : spent(c[1])
  BY DEF NoHostStarved, kept
<1>5. PICK k \in got(e) : Round(lists, R, k) > 0
  <2>1. IsFiniteSet(got(e)) /\ got(e) # {}
    BY <1>3, FS_Subset, FS_EmptySet
  <2>2. PICK k1 \in got(e) : TRUE
    BY <2>1
  <2>3. got(e) # {k1}
    BY FS_Singleton
  <2>4. PICK k2 \in got(e) : k2 # k1
    BY <2>2, <2>3
  <2>5. /\ k1 \in Candidates(lists) /\ k2 \in Candidates(lists)
        /\ Host(lists, k1) = Host(lists, k2)
    BY <1>2, <2>2, <2>4
  <2> QED
    BY <2>2, <2>4, <2>5, SecondOfHost DEF R
<1>6. PICK c \in links(d) : Round(lists, R, c) = 0
  BY FirstOfHost DEF R
<1>7. PICK j \in 1..Len(s) :
        k = s[j] /\ \A m \in 1..j : ~Admissible(lists, registry, kept, s[m])
  BY <1>1 DEF Sifted
<1>8. PICK m \in 1..Len(s) : s[m] = c
  BY <1>4, <1>6
<1>9. m < j
  <2>1. Round(lists, R, s[m]) < Round(lists, R, s[j])
    BY <1>5, <1>6, <1>7, <1>8
  <2> QED
    BY <1>4, <2>1
<1>10. ~Admissible(lists, registry, kept, c)
  <2>1. m \in 1..j
    BY <1>4, <1>9
  <2> QED
    BY <1>7, <1>8, <2>1
<1>11. /\ Host(lists, c) = d /\ Domain[Link(lists, c)] = d /\ c \in Candidates(lists)
       /\ Link(lists, c) \in Pages \ registry /\ Link(lists, c) \notin BadLinks
  BY <1>6, SelectionAssumption DEF Host
<1>12. Link(lists, c) \notin {Link(lists, x) : x \in Range(kept)}
  <2> SUFFICES ASSUME NEW x \in Range(kept), Link(lists, x) = Link(lists, c)
               PROVE  FALSE
    OBVIOUS
  <2>1. x \in got(d)
    BY <1>11 DEF Host
  <2> QED
    BY <2>1
<1>13. Cardinality({x \in Range(kept) : Host(lists, x) = Domain[Link(lists, c)]})
         < DomainCap[Domain[Link(lists, c)]]
  BY <1>11, FS_EmptySet
<1>14. ~(Cardinality({x \in Range(kept) : x[1] = c[1]}) < PerQuery)
  BY <1>10, <1>11, <1>12, <1>13 DEF Admissible
<1>15. Cardinality({x \in Range(kept) : x[1] = c[1]}) <= PerQuery
  BY <1>1 DEF Sifted
<1>16. Cardinality({x \in Range(kept) : x[1] = c[1]}) \in Nat /\ PerQuery \in Nat
  BY <1>3, FS_Subset, FS_CardinalityType, SelectionAssumption
<1>17. spent(c[1])
  BY <1>14, <1>15, <1>16
<1> QED
  BY <1>17

(* What a pipeline has selected is a selection from the lists of its own   *)
(* searches, made over the registry that it saw when it was planned.       *)
Chose(q) ==
  \E lists \in Searches[q], rel \in Relevances :
    offer[q] = lists /\ selected[q] = Selection(lists, known[q], rel)

ChoiceInv ==
  /\ pc = [q \in Questions |-> pc[q]]
  /\ known = [q \in Questions |-> known[q]]
  /\ offer = [q \in Questions |-> offer[q]]
  /\ selected = [q \in Questions |-> selected[q]]
  /\ \A q \in Questions : pc[q] \in {"idle", "plan", "search"} => selected[q] = <<>>
  /\ \A q \in Questions : pc[q] = "read" \/ selected[q] # <<>> => Chose(q)

(* The steps that leave alone what was selected. *)
LEMMA LaterStepsKeepChoice ==
  ASSUME ChoiceInv, NEW q \in Questions, UNCHANGED <<known, offer, selected>>,
         \/ pc' = pc
         \/ /\ pc' = [pc EXCEPT ![q] = pc'[q]]
            /\ pc'[q] \in {"compose", "returned", "raised"}
  PROVE  ChoiceInv'
<1>1. \A r \in Questions : pc'[r] = pc[r] \/ pc'[r] \in {"compose", "returned", "raised"}
  BY DEF ChoiceInv
<1>2. \A r \in Questions : Chose(r)' <=> Chose(r)
  BY DEF Chose
<1>3. pc' = [r \in Questions |-> pc'[r]]
  BY DEF ChoiceInv
<1> QED
  BY <1>1, <1>2, <1>3 DEF ChoiceInv

(* Every step of a batch keeps selections what they are. *)
LEMMA NextChoiceInv == ChoiceInv /\ [Next]_vars => ChoiceInv'
<1> SUFFICES ASSUME ChoiceInv, [Next]_vars PROVE ChoiceInv'
  OBVIOUS
<1>1. ASSUME NEW q \in Questions, Plan(q) PROVE ChoiceInv'
  <2>1. /\ UNCHANGED <<offer, selected>>
        /\ pc[q] = "plan" /\ pc' = [pc EXCEPT ![q] = "search"]
        /\ known' = [known EXCEPT ![q] = PagesOf(sources)]
    BY <1>1 DEF Plan
  <2>2. selected[q] = <<>>
    BY <2>1 DEF ChoiceInv
  <2>3. \A r \in Questions : r # q => (Chose(r)' <=> Chose(r)) /\ pc'[r] = pc[r]
    BY <2>1 DEF ChoiceInv, Chose
  <2>4. pc'[q] = "search" /\ pc' = [r \in Questions |-> pc'[r]]
        /\ known' = [r \in Questions |-> known'[r]]
    BY <2>1 DEF ChoiceInv
  <2> QED
    BY <2>1, <2>2, <2>3, <2>4 DEF ChoiceInv
<1>2. ASSUME NEW q \in Questions, Search(q) PROVE ChoiceInv'
  <2>1. /\ known' = known /\ pc[q] = "search" /\ pc' = [pc EXCEPT ![q] = "read"]
    BY <1>2 DEF Search
  <2>2. PICK s \in Selections :
          /\ s.lists \in Searches[q] /\ s.registry = known[q]
          /\ offer' = [offer EXCEPT ![q] = s.lists]
          /\ selected' = [selected EXCEPT ![q] = s.kept]
    BY <1>2 DEF Search
  <2>3. PICK lists \in UNION {Searches[r] : r \in Questions},
             registry \in SUBSET Pages, rel \in Relevances :
          s = [lists |-> lists, registry |-> registry,
               kept |-> Selection(lists, registry, rel)]
    BY DEF Selections
  <2>4. s.lists = lists /\ s.registry = registry /\ s.kept = Selection(lists, registry, rel)
    BY <2>3
  <2>5. lists \in Searches[q] /\ registry = known[q]
    BY <2>2, <2>4
  <2>6. offer'[q] = lists /\ selected'[q] = Selection(lists, known'[q], rel)
    BY <2>1, <2>2, <2>4, <2>5 DEF ChoiceInv
  <2>7. Chose(q)'
    BY <2>5, <2>6 DEF Chose
  <2>8. \A r \in Questions : r # q => (Chose(r)' <=> Chose(r)) /\ pc'[r] = pc[r]
                                       /\ selected'[r] = selected[r]
    BY <2>1, <2>2 DEF ChoiceInv, Chose
  <2>9. /\ pc'[q] = "read" /\ pc' = [r \in Questions |-> pc'[r]]
        /\ offer' = [r \in Questions |-> offer'[r]]
        /\ selected' = [r \in Questions |-> selected'[r]]
    BY <2>1, <2>2 DEF ChoiceInv
  <2> QED
    BY <2>1, <2>7, <2>8, <2>9 DEF ChoiceInv
<1>3. ASSUME NEW q \in Questions, PipelineStep(q), ~Plan(q), ~Search(q) PROVE ChoiceInv'
  <2>1. UNCHANGED <<known, offer, selected>>
    BY <1>3 DEF PipelineStep, Read, GiveUp, Register, Resolve, Decline, Raise, plans
  <2>2. \/ pc' = pc
        \/ \E x \in {"compose", "returned", "raised"} : pc' = [pc EXCEPT ![q] = x]
    BY <1>3 DEF PipelineStep, Read, GiveUp, Register, Resolve, Decline, Raise, Return, Merge
  <2>3. \/ pc' = pc
        \/ pc' = [pc EXCEPT ![q] = pc'[q]] /\ pc'[q] \in {"compose", "returned", "raised"}
    BY <2>2 DEF ChoiceInv
  <2> QED
    BY <2>1, <2>3, LaterStepsKeepChoice
<1>4. CASE StartBatch
  <2>1. \A q \in Questions : pc[q] = "idle" /\ pc'[q] \in {"idle", "plan"}
    BY <1>4 DEF StartBatch
  <2>2. UNCHANGED <<known, offer, selected>> /\ pc' = [q \in Questions |-> pc'[q]]
    BY <1>4 DEF StartBatch, plans
  <2> QED
    BY <2>1, <2>2 DEF ChoiceInv
<1>5. CASE EndBatch \/ Kill
  BY <1>5 DEF EndBatch, Kill, Idle, ChoiceInv
<1>6. CASE UNCHANGED vars
  BY <1>6 DEF vars, pipes, plans, ChoiceInv, Chose
<1> QED
  BY <1>1, <1>2, <1>3, <1>4, <1>5, <1>6, Steps

(* The searches give result lists of links, the reranker numbers. *)
LEMMA ChosenFromResults ==
  ASSUME NEW q \in Questions, NEW lists \in Searches[q], NEW rel \in Relevances
  PROVE  Results(lists, rel)
BY BatchAssumption DEF Results

(* The selection of every pipeline takes the breadth of what its searches  *)
(* found, for all lists, scores, caps and budgets: two pages of one host   *)
(* are read only when no host whose links could be read goes without,      *)
(* unless the queries that found it have their fill.                       *)
THEOREM SelectionsAreBroad == Spec => []SelectionIsBroad
<1>1. Init => ChoiceInv
  BY DEF Init, ChoiceInv
<1>2. ChoiceInv => SelectionIsBroad
  <2> SUFFICES ASSUME ChoiceInv, NEW q \in Questions, pc[q] = "read"
               PROVE  NoHostStarved(offer[q], known[q], selected[q])
    BY DEF SelectionIsBroad
  <2>1. PICK lists \in Searches[q], rel \in Relevances :
          offer[q] = lists /\ selected[q] = Selection(lists, known[q], rel)
    BY DEF ChoiceInv, Chose
  <2> QED
    BY <2>1, ChosenFromResults, SelectionStarvesNone
<1> QED
  BY <1>1, <1>2, NextChoiceInv, PTL DEF Spec

-----------------------------------------------------------------------------
(* The ids of the registry.                                                *)

(* A registry in which a page has one id, and an id one page. *)
Agreed(srcs) ==
  /\ srcs \subseteq Source
  /\ IsFiniteSet(srcs)
  /\ \A s, t \in srcs : s.id = t.id <=> s.page = t.page

(* There is a number left for any title: of one number more than there are *)
(* sources not all are taken.                                              *)
LEMMA FreeNumberIsFree ==
  ASSUME NEW srcs, IsFiniteSet(srcs), NEW title
  PROVE  /\ FreeNumber(title, srcs) \in 1..(Cardinality(srcs) + 1)
         /\ \A s \in srcs : s.id # <<title, FreeNumber(title, srcs)>>
<1> DEFINE top == Cardinality(srcs) + 1
           free == {n \in 1..top : \A s \in srcs : s.id # <<title, n>>}
<1>1. Cardinality(srcs) \in Nat
  BY FS_CardinalityType
<1>2. free # {}
  <2> SUFFICES ASSUME \A n \in 1..top : \E s \in srcs : s.id = <<title, n>>
               PROVE  FALSE
    OBVIOUS
  <2> DEFINE f == [n \in 1..top |-> CHOOSE s \in srcs : s.id = <<title, n>>]
  <2>1. \A n \in 1..top : f[n] \in srcs /\ f[n].id = <<title, n>>
    OBVIOUS
  <2>2. f \in [1..top -> srcs]
    BY <2>1
  <2>3. IsFiniteSet(1..top) /\ Cardinality(1..top) = top
    BY <1>1, FS_Interval
  <2>4. Cardinality(srcs) < Cardinality(1..top)
    BY <1>1, <2>3
  <2> HIDE DEF f, top
  <2>5. PICK m \in 1..top, n \in 1..top : m # n /\ f[m] = f[n]
    BY <2>2, <2>3, <2>4, FS_PigeonHole
  <2>6. <<title, m>> = <<title, n>>
    BY <2>1, <2>5
  <2> QED
    BY <2>5, <2>6
<1>3. free \in SUBSET Nat
  BY <1>1
<1>4. PICK n \in free : \A m \in free : n <= m
  BY <1>2, <1>3, LeastElement
<1>5. \A m \in 1..(n - 1) : \E s \in srcs : s.id = <<title, m>>
  <2> SUFFICES ASSUME NEW m \in 1..(n - 1), \A s \in srcs : s.id # <<title, m>>
               PROVE  FALSE
    OBVIOUS
  <2>1. m \in 1..top /\ ~(n <= m)
    BY <1>1
  <2> QED
    BY <1>4, <2>1
<1>6. \E k \in 1..(Cardinality(srcs) + 1) :
        /\ \A s \in srcs : s.id # <<title, k>>
        /\ \A m \in 1..(k - 1) : \E s \in srcs : s.id = <<title, m>>
  BY <1>4, <1>5
<1> QED
  BY <1>6, Zenon DEF FreeNumber

(* A page without a source leaves fewer sources than pages. *)
LEMMA FewerSourcesThanPages ==
  ASSUME NEW srcs, Agreed(srcs), NEW p \in Pages, p \notin PagesOf(srcs)
  PROVE  /\ Cardinality(srcs) \in Nat /\ Cardinality(Pages) \in Nat
         /\ Cardinality(srcs) + 1 <= Cardinality(Pages)
<1> DEFINE others == Pages \ {p}
           page == [s \in srcs |-> s.page]
<1>1. IsFiniteSet(Pages) /\ Cardinality(Pages) \in Nat
  BY SelectionAssumption, FS_CardinalityType
<1>2. IsFiniteSet(others) /\ Cardinality(others) = Cardinality(Pages) - 1
  BY <1>1, FS_RemoveElement
<1>3. page \in [srcs -> others]
  BY DEF Agreed, Source, PagesOf
<1>4. ASSUME NEW s \in srcs, NEW t \in srcs, page[s] = page[t] PROVE s = t
  BY <1>4 DEF Agreed, Source
<1>5. page \in Injection(srcs, others)
  BY <1>3, <1>4 DEF Injection, IsInjective
<1> HIDE DEF page, others
<1>6. Cardinality(srcs) <= Cardinality(others)
  BY <1>2, <1>5, FS_Injection
<1>7. Cardinality(srcs) \in Nat
  BY FS_CardinalityType DEF Agreed
<1> QED
  BY <1>1, <1>2, <1>6, <1>7

(* Giving a page its id keeps the registry agreed. *)
LEMMA WithPageAgrees ==
  ASSUME NEW srcs, Agreed(srcs), NEW p \in Pages
  PROVE  Agreed(WithPage(srcs, p)) /\ srcs \subseteq WithPage(srcs, p)
<1>1. CASE p \in PagesOf(srcs)
  BY <1>1 DEF WithPage
<1>2. CASE p \notin PagesOf(srcs)
  <2> DEFINE n == FreeNumber(Title[p], srcs)
             r == [id |-> <<Title[p], n>>, page |-> p]
  <2>1. WithPage(srcs, p) = srcs \cup {r}
    BY <1>2 DEF WithPage
  <2>2. /\ n \in 1..(Cardinality(srcs) + 1)
        /\ \A s \in srcs : s.id # r.id /\ s.page # r.page
    BY <1>2, FreeNumberIsFree DEF Agreed, PagesOf
  <2> HIDE DEF n
  <2>3. n \in 1..Cardinality(Pages)
    BY <1>2, <2>2, FewerSourcesThanPages
  <2>4. r \in Source
    BY <2>3 DEF Source, Ids
  <2> HIDE DEF r
  <2>5. IsFiniteSet(srcs \cup {r})
    BY FS_AddElement DEF Agreed
  <2> QED
    BY <2>1, <2>2, <2>4, <2>5 DEF Agreed
<1> QED
  BY <1>1, <1>2

(* The pages of a sequence are given their ids one by one. *)
LEMMA NumberedSteps ==
  ASSUME NEW reg, NEW s, Len(s) \in Nat
  PROVE  \E upTo : /\ upTo[0] = reg
                   /\ \A n \in 1..Len(s) : upTo[n] = WithPage(upTo[n - 1], s[n])
                   /\ Numbered(reg, s) = upTo[Len(s)]
<1> DEFINE Is(f, m) == f = [n \in 0..m |-> IF n = 0 THEN reg ELSE WithPage(f[n - 1], s[n])]
           S == {m \in Nat : \E f : Is(f, m)}
           f0 == CHOOSE f : Is(f, Len(s))
<1>1. 0 \in S
  <2>1. Is([n \in 0..0 |-> reg], 0)
    OBVIOUS
  <2> QED
    BY <2>1
<1>2. ASSUME NEW m \in S PROVE m + 1 \in S
  <2>1. PICK f : Is(f, m)
    OBVIOUS
  <2> DEFINE g == [n \in 0..(m + 1) |-> IF n <= m THEN f[n] ELSE WithPage(f[m], s[m + 1])]
  <2>2. \A n \in 0..(m + 1) : g[n] = IF n = 0 THEN reg ELSE WithPage(g[n - 1], s[n])
    <3> SUFFICES ASSUME NEW n \in 0..(m + 1)
                 PROVE  g[n] = IF n = 0 THEN reg ELSE WithPage(g[n - 1], s[n])
      OBVIOUS
    <3>1. CASE n = 0
      BY <2>1, <3>1
    <3>2. CASE n \in 1..m
      BY <2>1, <3>2
    <3>3. CASE n = m + 1
      BY <3>3
    <3> QED
      BY <3>1, <3>2, <3>3
  <2>3. Is(g, m + 1)
    BY <2>2
  <2>4. \E h : Is(h, m + 1)
    BY <2>3
  <2>5. m + 1 \in Nat
    OBVIOUS
  <2> HIDE DEF g, Is
  <2> QED
    BY <2>4, <2>5, Zenon
<1>3. S = Nat
  <2> HIDE DEF S
  <2>1. S \in SUBSET Nat
    BY DEF S
  <2> QED
    BY <1>1, <1>2, <2>1, SetInduction
<1>4. Is(f0, Len(s))
  BY <1>3
<1>5. Numbered(reg, s) = f0[Len(s)]
  BY DEF Numbered
<1> HIDE DEF f0
<1>6. f0[0] = reg /\ \A n \in 1..Len(s) : f0[n] = WithPage(f0[n - 1], s[n])
  BY <1>4
<1> QED
  BY <1>5, <1>6

(* The registry that a sequence of pages extends keeps every source it     *)
(* had, and agrees on ids.                                                 *)
LEMMA NumberedAgrees ==
  ASSUME NEW reg, Agreed(reg), NEW s \in Seq(Pages)
  PROVE  Agreed(Numbered(reg, s)) /\ reg \subseteq Numbered(reg, s)
<1>1. Len(s) \in Nat /\ \A n \in 1..Len(s) : s[n] \in Pages
  OBVIOUS
<1>2. PICK upTo : /\ upTo[0] = reg
                  /\ \A n \in 1..Len(s) : upTo[n] = WithPage(upTo[n - 1], s[n])
                  /\ Numbered(reg, s) = upTo[Len(s)]
  BY <1>1, NumberedSteps
<1> DEFINE Fine(r) == Agreed(r) /\ reg \subseteq r
           S == {m \in Nat : m <= Len(s) => Fine(upTo[m])}
<1>3. 0 \in S
  BY <1>2
<1>4. ASSUME NEW m \in S PROVE m + 1 \in S
  <2>1. m \in Nat /\ m + 1 \in Nat /\ (m + 1) - 1 = m
    OBVIOUS
  <2> SUFFICES ASSUME m + 1 <= Len(s) PROVE Fine(upTo[m + 1])
    OBVIOUS
  <2>2. Fine(upTo[m]) /\ m + 1 \in 1..Len(s)
    BY <1>1, <2>1
  <2>3. upTo[m + 1] = WithPage(upTo[m], s[m + 1]) /\ s[m + 1] \in Pages
    BY <1>1, <1>2, <2>1, <2>2
  <2> QED
    BY <2>2, <2>3, WithPageAgrees
<1>5. S = Nat
  <2> HIDE DEF S
  <2>1. S \in SUBSET Nat
    BY DEF S
  <2> QED
    BY <1>3, <1>4, <2>1, SetInduction
<1>6. Fine(upTo[Len(s)])
  BY <1>1, <1>5
<1> QED
  BY <1>2, <1>6

(* Numbered against the registry as it is, sources never collide with it,  *)
(* and what is merged leaves it agreed.                                    *)
LEMMA NoCollision ==
  ASSUME Agreed(sources), NEW s \in Seq(Pages)
  PROVE  LET proposed == EngineSources(sources, s)
         IN  /\ ~Collides(proposed)
             /\ proposed \subseteq Source
             /\ Agreed(sources \cup {t \in proposed : \A r \in sources : r.id # t.id})
<1> DEFINE N == Numbered(sources, s)
           proposed == EngineSources(sources, s)
           merged == sources \cup {t \in proposed : \A r \in sources : r.id # t.id}
<1>1. Agreed(N) /\ sources \subseteq N
  BY NumberedAgrees
<1>2. proposed \subseteq N
  BY DEF EngineSources
<1> HIDE DEF N, proposed
<1>3. merged \subseteq N
  BY <1>1, <1>2
<1>4. ~Collides(proposed)
  BY <1>1, <1>2 DEF Agreed, Collides
<1>5. Agreed(merged)
  <2> HIDE DEF merged
  <2>1. IsFiniteSet(merged)
    BY <1>1, <1>3, FS_Subset DEF Agreed
  <2> QED
    BY <1>1, <1>3, <2>1 DEF Agreed
<1> QED
  BY <1>1, <1>2, <1>4, <1>5 DEF proposed, Agreed

-----------------------------------------------------------------------------
(* The types of a batch, and its ids.                                      *)

Typed ==
  /\ status \in [Questions -> {"open", "in_progress", "resolved"}]
  /\ blocks \in [Questions -> Nat]
  /\ cites \in [Questions -> SUBSET Pages]
  /\ streak \in Nat
  /\ cached \in [Pages -> {"unread", "useful", "useless"}]
  /\ pc \in [Questions -> {"idle", "plan", "search", "read", "compose",
                           "returned", "raised"}]
  /\ {known, awaited, received} \subseteq [Questions -> SUBSET Pages]
  /\ useful \in [Questions -> Seq(Pages)]
  /\ failed \in [Questions -> Nat]
  /\ menu \in [Questions -> SUBSET Source]
  /\ judged \subseteq Pages
  /\ {fed, cycles, kills} \subseteq Nat

BatchInv == Typed /\ ChoiceInv /\ Agreed(sources)

(* Only pages are selected. *)
LEMMA ChosenArePages ==
  ASSUME NEW q \in Questions, NEW lists \in Searches[q], NEW rel \in Relevances,
         NEW registry
  PROVE  Chosen(lists, Selection(lists, registry, rel)) \subseteq Pages
<1>1. \A k \in Range(Selection(lists, registry, rel)) : Link(lists, k) \in Pages
  BY ChosenFromResults, SelectionSifts DEF Sifted
<1> QED
  BY <1>1 DEF Chosen, Range

(* Sources are of pages. *)
LEMMA PagesOfSources ==
  ASSUME NEW S \in SUBSET Source
  PROVE  PagesOf(S) \subseteq Pages
BY DEF PagesOf, Source

(* A read is of one page that was awaited, and registers nothing. *)
LEMMA ReadSteps ==
  ASSUME NEW q \in Questions, Read(q)
  PROVE  /\ \E p \in awaited[q] : \E outcome \in Outcomes(p) : ComesBack(q, p, outcome)
         /\ UNCHANGED <<files, pc, plans, menu, counts>>
BY DEF Read

(* A search awaits the pages it has selected. *)
LEMMA SearchTyped ==
  ASSUME BatchInv, NEW q \in Questions, Search(q)
  PROVE  Typed'
<1>1. PICK s \in Selections :
        /\ s.lists \in Searches[q]
        /\ awaited' = [awaited EXCEPT ![q] = Chosen(s.lists, s.kept)]
  BY DEF Search
<1>2. PICK lists \in UNION {Searches[r] : r \in Questions},
           registry \in SUBSET Pages, rel \in Relevances :
        s = [lists |-> lists, registry |-> registry,
             kept |-> Selection(lists, registry, rel)]
  BY DEF Selections
<1>3. s.lists = lists /\ s.kept = Selection(lists, registry, rel)
  BY <1>2
<1>4. Chosen(s.lists, s.kept) \subseteq Pages
  BY <1>1, <1>3, ChosenArePages
<1>5. awaited' \in [Questions -> SUBSET Pages]
  BY <1>1, <1>4 DEF BatchInv, Typed
<1>6. /\ UNCHANGED <<status, blocks, cites, streak, cached, known, received, useful,
                     failed, menu, judged, fed, cycles, kills>>
      /\ pc' = [pc EXCEPT ![q] = "read"]
  BY DEF Search, files, history, counts
<1> QED
  BY <1>5, <1>6 DEF BatchInv, Typed

(* A page that comes back is one that was awaited; its output is kept      *)
(* unless the read failed.                                                 *)
LEMMA ReadTyped ==
  ASSUME BatchInv, NEW q \in Questions, Read(q)
  PROVE  Typed'
<1>1. PICK p \in awaited[q] : \E outcome \in Outcomes(p) : ComesBack(q, p, outcome)
  BY ReadSteps
<1>a. PICK outcome \in Outcomes(p) : ComesBack(q, p, outcome)
  BY <1>1
<1>2. p \in Pages
  BY DEF BatchInv, Typed
<1>3. cached[p] \in {"unread", "useful", "useless"}
  BY <1>2 DEF BatchInv, Typed
<1>4. cached' \in [Pages -> {"unread", "useful", "useless"}]
  BY <1>a, <1>2, <1>3 DEF ComesBack, Outcomes, Settled, BatchInv, Typed
<1>5. awaited' \in [Questions -> SUBSET Pages] /\ received' \in [Questions -> SUBSET Pages]
  BY <1>a, <1>2 DEF ComesBack, BatchInv, Typed
<1>6. useful' \in [Questions -> Seq(Pages)]
  BY <1>a, <1>2 DEF ComesBack, BatchInv, Typed
<1>7. failed' \in [Questions -> Nat] /\ judged' \subseteq Pages
  BY <1>a, <1>2 DEF ComesBack, BatchInv, Typed
<1>8. UNCHANGED <<status, blocks, cites, streak, pc, known, menu, fed, cycles, kills>>
  BY ReadSteps DEF files, plans, counts
<1> QED
  BY <1>4, <1>5, <1>6, <1>7, <1>8 DEF BatchInv, Typed

(* No merge is refused, and the registry it leaves is agreed. *)
LEMMA RegisterMerges ==
  ASSUME BatchInv, NEW q \in Questions, Register(q)
  PROVE  /\ Typed' /\ Agreed(sources)'
         /\ sources \subseteq sources' /\ pc' = [pc EXCEPT ![q] = "compose"]
<1> DEFINE proposed == EngineSources(sources, useful[q])
<1>1. useful[q] \in Seq(Pages) /\ Agreed(sources)
  BY DEF BatchInv, Typed
<1>2. /\ ~Collides(proposed) /\ proposed \subseteq Source
      /\ Agreed(sources \cup {t \in proposed : \A r \in sources : r.id # t.id})
  BY <1>1, NoCollision
<1>3. /\ Merge(q, proposed)
      /\ UNCHANGED <<status, blocks, cites, streak, cached, known, awaited, received,
                     useful, failed, judged, fed, cycles, kills>>
  BY DEF Register, plans, reads, history, counts
<1> HIDE DEF proposed
<1>4. /\ sources' = sources \cup {t \in proposed : \A r \in sources : r.id # t.id}
      /\ menu' = [menu EXCEPT ![q] = proposed]
      /\ pc' = [pc EXCEPT ![q] = "compose"]
  BY <1>2, <1>3 DEF Merge
<1>5. Agreed(sources')
  BY <1>2, <1>4
<1>6. Agreed(sources)'
  BY <1>5 DEF Agreed
<1>7. Typed'
  BY <1>2, <1>3, <1>4 DEF BatchInv, Typed
<1> QED
  BY <1>4, <1>6, <1>7

(* Every step keeps the types, and the ids agreed. *)
LEMMA NextBatchInv == BatchInv /\ [Next]_vars => BatchInv'
<1> SUFFICES ASSUME BatchInv, [Next]_vars PROVE BatchInv'
  OBVIOUS
<1>1. ChoiceInv'
  BY NextChoiceInv DEF BatchInv
<1> SUFFICES Typed' /\ Agreed(sources)'
  BY <1>1 DEF BatchInv
<1>2. ASSUME NEW q \in Questions, Quiet(q) \/ Resolve(q) PROVE Typed' /\ Agreed(sources)'
  <2>1. sources' = sources
    BY <1>2 DEF Quiet, Plan, Search, GiveUp, Decline, Raise, Resolve, files
  <2> SUFFICES Typed'
    BY <2>1 DEF BatchInv, Agreed
  <2>2. CASE Plan(q)
    <3>1. PagesOf(sources) \subseteq Pages
      BY PagesOfSources DEF BatchInv, Agreed
    <3> QED
      BY <2>2, <3>1 DEF Plan, files, reads, history, counts, BatchInv, Typed
  <2>3. CASE Raise(q)
    <3>1. /\ pc' = [pc EXCEPT ![q] = "raised"]
          /\ UNCHANGED <<status, blocks, cites, streak, cached, known, awaited, received,
                         useful, failed, menu, judged, fed, cycles, kills>>
      BY <2>3 DEF Raise, files, plans, reads, history, counts
    <3> QED
      BY <3>1 DEF BatchInv, Typed
  <2>4. CASE GiveUp(q) \/ Decline(q)
    <3>1. pc' = [pc EXCEPT ![q] = "returned"]
      BY <2>4 DEF GiveUp, Decline, Return
    <3>2. status' \in [Questions -> {"open", "in_progress", "resolved"}]
      BY <2>4 DEF GiveUp, Decline, BatchInv, Typed
    <3>3. blocks' \in [Questions -> Nat]
      <4>1. \E n \in {0, 1, 2} : blocks' = [blocks EXCEPT ![q] = @ + n]
        BY <2>4 DEF GiveUp, Decline, BatchInv, Typed
      <4> QED
        BY <4>1 DEF BatchInv, Typed
    <3>4. UNCHANGED <<cites, streak, cached, known, awaited, received, useful, failed,
                      menu, judged, fed, cycles, kills>>
      BY <2>4 DEF GiveUp, Decline, plans, reads, history, counts
    <3> QED
      BY <3>1, <3>2, <3>3, <3>4 DEF BatchInv, Typed
  <2>5. CASE Resolve(q)
    <3>1. PICK S \in SUBSET menu[q] : cites' = [cites EXCEPT ![q] = PagesOf(S)]
      BY <2>5 DEF Resolve
    <3>2. PagesOf(S) \subseteq Pages
      BY PagesOfSources DEF BatchInv, Typed
    <3> QED
      BY <2>5, <3>1, <3>2 DEF Resolve, Return, plans, reads, history, counts, BatchInv, Typed
  <2> QED
    BY <1>2, <2>2, <2>3, <2>4, <2>5, SearchTyped DEF Quiet
<1>3. ASSUME NEW q \in Questions, Read(q) PROVE Typed' /\ Agreed(sources)'
  <2>1. sources' = sources
    BY <1>3 DEF Read, files
  <2> QED
    BY <1>3, <2>1, ReadTyped DEF BatchInv, Agreed
<1>4. ASSUME NEW q \in Questions, Register(q) PROVE Typed' /\ Agreed(sources)'
  BY <1>4, RegisterMerges
<1>5. CASE StartBatch
  BY <1>5 DEF StartBatch, plans, reads, history, BatchInv, Typed, Agreed
<1>6. CASE EndBatch
  <2>1. streak' \in Nat /\ fed' \in Nat
    BY <1>6 DEF EndBatch, Noted, BatchInv, Typed
  <2> QED
    BY <1>6, <2>1 DEF EndBatch, Idle, history, BatchInv, Typed, Agreed
<1>7. CASE Kill
  BY <1>7 DEF Kill, Idle, files, history, BatchInv, Typed, Agreed
<1>8. CASE UNCHANGED vars
  BY <1>8 DEF vars, files, pipes, plans, reads, history, counts, BatchInv, Typed, Agreed
<1> QED
  BY <1>2, <1>3, <1>4, <1>5, <1>6, <1>7, <1>8, Steps, PipelineSteps

(* Initially nothing is registered, and no pipeline is under way. *)
LEMMA InitBatchInv == Init => BatchInv
<1> SUFFICES ASSUME Init PROVE BatchInv
  OBVIOUS
<1>1. Typed
  BY DEF Init, Typed
<1>2. ChoiceInv
  BY DEF Init, ChoiceInv
<1>3. Agreed(sources)
  BY FS_EmptySet DEF Init, Agreed
<1> QED
  BY <1>1, <1>2, <1>3 DEF BatchInv

(* The files and the pipelines are well-formed; a source never needs a     *)
(* number beyond that of the pages there are.                              *)
THEOREM TypeCorrect == Spec => []TypeOK
<1>1. BatchInv => TypeOK
  BY DEF BatchInv, Typed, Agreed, TypeOK
<1> QED
  BY <1>1, InitBatchInv, NextBatchInv, PTL DEF Spec

(* However the pipelines interleave, and wherever the process is killed,   *)
(* the registry keeps one id for each page and one page for each id, an id *)
(* is never given to another page, and no merge is refused.                *)
THEOREM IdsStayAgreed == Spec => IdsAreAgreed
<1>1. ASSUME BatchInv, [Next]_vars
      PROVE  [/\ OneIdPerPage' /\ sources \subseteq sources'
              /\ \A q \in Questions : pc[q] = "read" => pc'[q] # "raised"]_vars
  <2>1. OneIdPerPage'
    BY <1>1, NextBatchInv DEF BatchInv, Agreed, OneIdPerPage
  <2>2. ASSUME NEW q \in Questions, PipelineStep(q)
        PROVE  /\ sources \subseteq sources'
               /\ \A r \in Questions : pc[r] = "read" => pc'[r] # "raised"
    <3>1. CASE Register(q)
      BY <1>1, <3>1, RegisterMerges DEF BatchInv, Typed
    <3>2. CASE Quiet(q) \/ Read(q) \/ Resolve(q)
      BY <1>1, <3>2 DEF Quiet, Plan, Search, GiveUp, Decline, Raise, Read, Resolve, Return,
                        files, BatchInv, Typed
    <3> QED
      BY <2>2, <3>1, <3>2, PipelineSteps
  <2>3. CASE StartBatch
    BY <2>1, <2>3 DEF StartBatch
  <2>4. CASE EndBatch \/ Kill
    BY <2>1, <2>4 DEF EndBatch, Kill, Idle, files
  <2>5. CASE UNCHANGED vars
    BY <2>5
  <2> QED
    BY <1>1, <2>1, <2>2, <2>3, <2>4, <2>5, Steps
<1> QED
  BY <1>1, InitBatchInv, NextBatchInv, PTL DEF Spec, IdsAreAgreed

-----------------------------------------------------------------------------
(* Findings and what was read.                                             *)

(* What the process holds as useful some reader session found so.          *)
UsefulJudged == \A p \in Pages : cached[p] = "useful" => p \in judged

(* What a pipeline received was judged, for its question or a sibling's,   *)
(* and what it holds as useful it received.                                *)
UsefulReceived ==
  \A q \in Questions : /\ received[q] \subseteq judged
                       /\ \A i \in DOMAIN useful[q] : useful[q][i] \in received[q]

(* A menu offers what its pipeline received and is registered. *)
MenuRead == \A q \in Questions : PagesOf(menu[q]) \subseteq received[q] \cap PagesOf(sources)

(* A finding cites what pipelines of its question received, registered. *)
CitesRead == \A q \in Questions : cites[q] \subseteq received[q] \cap PagesOf(sources)

ReadInv == UsefulJudged /\ UsefulReceived /\ MenuRead /\ CitesRead

(* A registry that grows has all the pages it had. *)
LEMMA PagesGrow ==
  ASSUME NEW S, NEW T, S \subseteq T
  PROVE  PagesOf(S) \subseteq PagesOf(T)
BY DEF PagesOf

(* The sources a pipeline proposes are pages it has received. *)
LEMMA ProposedAreRead ==
  ASSUME ReadInv, NEW q \in Questions, NEW reg
  PROVE  PagesOf(EngineSources(reg, useful[q])) \subseteq received[q]
BY DEF EngineSources, PagesOf, ReadInv, UsefulReceived

(* A pipeline that gets past merge_sources finds all it proposed in the    *)
(* registry, its own entry or the one that was there already.              *)
LEMMA MergedAreRegistered ==
  ASSUME NEW proposed, ~Collides(proposed),
         sources' = sources \cup {t \in proposed : \A s \in sources : s.id # t.id}
  PROVE  PagesOf(proposed) \subseteq PagesOf(sources')
<1> SUFFICES ASSUME NEW t \in proposed PROVE t.page \in PagesOf(sources')
  BY DEF PagesOf
<1>1. CASE \E s \in sources : s.id = t.id
  <2>1. PICK s \in sources : s.id = t.id
    BY <1>1
  <2>2. s.page = t.page
    BY <2>1 DEF Collides
  <2> QED
    BY <2>2 DEF PagesOf
<1>2. CASE \A s \in sources : s.id # t.id
  BY <1>2 DEF PagesOf
<1> QED
  BY <1>1, <1>2

(* A merge that is refused leaves the menu and the registry as they are;   *)
(* one that is not puts all that was proposed in both.                     *)
LEMMA RegisterKeeps ==
  ASSUME Typed, ReadInv, NEW q \in Questions, Register(q)
  PROVE  ReadInv'
<1> DEFINE proposed == EngineSources(sources, useful[q])
<1>1. UNCHANGED <<cached, useful, judged, received, cites>> /\ Merge(q, proposed)
  BY DEF Register, reads, history
<1>2. PagesOf(proposed) \subseteq received[q]
  BY ProposedAreRead
<1> HIDE DEF proposed
<1>3. UsefulJudged' /\ UsefulReceived'
  BY <1>1 DEF ReadInv, UsefulJudged, UsefulReceived
<1>4. CASE Collides(proposed)
  <2>1. UNCHANGED <<sources, menu>>
    BY <1>1, <1>4 DEF Merge
  <2> QED
    BY <1>1, <1>3, <2>1 DEF ReadInv, MenuRead, CitesRead
<1>5. CASE ~Collides(proposed)
  <2>1. /\ sources' = sources \cup {t \in proposed : \A s \in sources : s.id # t.id}
        /\ menu' = [menu EXCEPT ![q] = proposed]
    BY <1>1, <1>5 DEF Merge
  <2>2. PagesOf(proposed) \subseteq PagesOf(sources')
    BY <1>5, <2>1, MergedAreRegistered
  <2>3. PagesOf(sources) \subseteq PagesOf(sources')
    BY <2>1, PagesGrow
  <2>4. MenuRead'
    <3> SUFFICES ASSUME NEW r \in Questions
                 PROVE  PagesOf(menu'[r]) \subseteq received[r] \cap PagesOf(sources')
      BY <1>1 DEF MenuRead, PagesOf
    <3>1. CASE r = q
      BY <1>2, <2>1, <2>2, <3>1 DEF Typed
    <3>2. CASE r # q
      BY <2>1, <2>3, <3>2 DEF Typed, ReadInv, MenuRead
    <3> QED
      BY <3>1, <3>2
  <2>5. CitesRead'
    BY <1>1, <2>3 DEF ReadInv, CitesRead, PagesOf
  <2> QED
    BY <1>3, <2>4, <2>5 DEF ReadInv
<1> QED
  BY <1>4, <1>5

(* A finding cites some of the menu. *)
LEMMA ResolveKeeps ==
  ASSUME Typed, ReadInv, NEW q \in Questions, Resolve(q)
  PROVE  ReadInv'
<1>1. UNCHANGED <<cached, useful, judged, received, menu, sources>>
  BY DEF Resolve, reads, history
<1>2. PICK S \in SUBSET menu[q] : cites' = [cites EXCEPT ![q] = PagesOf(S)]
  BY DEF Resolve
<1>3. PagesOf(S) \subseteq received[q] \cap PagesOf(sources)
  BY PagesGrow DEF ReadInv, MenuRead
<1>4. UsefulJudged' /\ UsefulReceived' /\ MenuRead'
  BY <1>1 DEF ReadInv, UsefulJudged, UsefulReceived, MenuRead
<1>5. CitesRead'
  BY <1>1, <1>2, <1>3 DEF Typed, ReadInv, CitesRead
<1> QED
  BY <1>4, <1>5 DEF ReadInv

(* A page comes back as useful from a session that judges it, or because   *)
(* one has; either way its pipeline has received it.                       *)
LEMMA ReadKeeps ==
  ASSUME Typed, ReadInv, NEW q \in Questions, Read(q)
  PROVE  ReadInv'
<1>1. UNCHANGED <<menu, sources, cites>>
  BY ReadSteps DEF files
<1>2. PICK p \in awaited[q] : \E outcome \in Outcomes(p) : ComesBack(q, p, outcome)
  BY ReadSteps
<1>3. PICK outcome \in Outcomes(p) : ComesBack(q, p, outcome)
  BY <1>2
<1>4. p \in Pages
  BY DEF Typed
<1>5. judged \subseteq judged' /\ (outcome = "useful" => p \in judged')
  BY <1>3, <1>4 DEF ComesBack, Outcomes, ReadInv, UsefulJudged
<1>6. /\ \A r \in Questions : received[r] \subseteq received'[r]
      /\ \A r \in Questions : received'[r] \subseteq received[r]
                              \cup (IF r = q /\ outcome = "useful" THEN {p} ELSE {})
      /\ outcome = "useful" => p \in received'[q]
  BY <1>3 DEF ComesBack, Typed
<1>7. UsefulJudged'
  BY <1>3, <1>4, <1>5 DEF ComesBack, Settled, Typed, ReadInv, UsefulJudged
<1>8. UsefulReceived'
  <2> SUFFICES ASSUME NEW r \in Questions
               PROVE  /\ received'[r] \subseteq judged'
                      /\ \A i \in DOMAIN useful'[r] : useful'[r][i] \in received'[r]
    BY DEF UsefulReceived
  <2>1. received'[r] \subseteq judged'
    BY <1>5, <1>6 DEF ReadInv, UsefulReceived
  <2>2. CASE r = q /\ outcome = "useful"
    <3>1. useful'[r] = Append(useful[r], p) /\ useful[r] \in Seq(Pages)
      BY <1>3, <2>2 DEF ComesBack, Typed
    <3>2. \A i \in DOMAIN useful'[r] : useful'[r][i] = p \/ \E j \in DOMAIN useful[r] :
                                                              useful'[r][i] = useful[r][j]
      BY <1>4, <3>1
    <3> QED
      BY <1>6, <2>1, <2>2, <3>2 DEF ReadInv, UsefulReceived
  <2>3. CASE ~(r = q /\ outcome = "useful")
    <3>1. useful'[r] = useful[r]
      BY <1>3, <2>3 DEF ComesBack, Typed
    <3> QED
      BY <1>6, <2>1, <3>1 DEF ReadInv, UsefulReceived
  <2> QED
    BY <2>2, <2>3
<1>9. MenuRead' /\ CitesRead'
  BY <1>1, <1>6 DEF ReadInv, MenuRead, CitesRead
<1> QED
  BY <1>7, <1>8, <1>9 DEF ReadInv

(* A step that leaves what was read, registered and cited alone, or clears *)
(* the pipelines, and with a kill what the process has read.               *)
LEMMA QuietKeepsRead ==
  ASSUME ReadInv, UNCHANGED <<sources, cites, judged, received>>,
         cached' = cached \/ cached' = [p \in Pages |-> "unread"],
         \/ UNCHANGED <<useful, menu>>
         \/ /\ useful' = [q \in Questions |-> <<>>]
            /\ menu' = [q \in Questions |-> {}]
  PROVE  ReadInv'
<1>1. UsefulJudged'
  BY DEF ReadInv, UsefulJudged
<1>2. UsefulReceived'
  BY DEF ReadInv, UsefulReceived
<1>3. MenuRead' /\ CitesRead'
  BY DEF ReadInv, MenuRead, CitesRead, PagesOf
<1> QED
  BY <1>1, <1>2, <1>3 DEF ReadInv

(* Every step keeps findings within what was read. *)
LEMMA NextReadInv == BatchInv /\ ReadInv /\ [Next]_vars => ReadInv'
<1> SUFFICES ASSUME BatchInv, ReadInv, [Next]_vars PROVE ReadInv'
  OBVIOUS
<1>a. Typed
  BY DEF BatchInv
<1>1. ASSUME NEW q \in Questions, Quiet(q) PROVE ReadInv'
  <2>1. UNCHANGED <<sources, cites, judged, received, cached, useful, menu>>
    BY <1>1 DEF Quiet, Plan, Search, GiveUp, Decline, Raise, files, reads, history
  <2> QED
    BY <2>1, QuietKeepsRead
<1>2. ASSUME NEW q \in Questions, PipelineStep(q) PROVE ReadInv'
  BY <1>a, <1>1, <1>2, PipelineSteps, ReadKeeps, RegisterKeeps, ResolveKeeps
<1>3. CASE StartBatch
  BY <1>3, QuietKeepsRead DEF StartBatch, reads, history
<1>4. CASE EndBatch \/ Kill
  BY <1>4, QuietKeepsRead DEF EndBatch, Kill, Idle, files, history
<1>5. CASE UNCHANGED vars
  BY <1>5, QuietKeepsRead DEF vars, files, pipes, reads, history
<1> QED
  BY <1>2, <1>3, <1>4, <1>5, Steps

(* A finding cites registered pages that some reader session found useful, *)
(* and that a pipeline of the finding's own question received as useful,   *)
(* however the pipelines interleave and wherever the process is killed.    *)
(* The session may have read the page for a sibling's question.            *)
THEOREM FindingsCiteWhatWasRead == Spec => []FindingsAreRead
<1>1. Init => ReadInv
  BY DEF Init, ReadInv, UsefulJudged, UsefulReceived, MenuRead, CitesRead, PagesOf
<1>2. ReadInv => FindingsAreRead
  BY DEF ReadInv, UsefulReceived, CitesRead, FindingsAreRead
<1> QED
  BY <1>1, <1>2, InitBatchInv, NextBatchInv, NextReadInv, PTL DEF Spec
=============================================================================
