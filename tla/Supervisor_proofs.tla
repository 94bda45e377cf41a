--------------------------- MODULE Supervisor_proofs ---------------------------
(***************************************************************************)
(* Theorems about Supervisor, for any command lines, settings and keys,    *)
(* any number of requests that set keys and any number of resumes.         *)
(***************************************************************************)
EXTENDS Supervisor, FiniteSetTheorems, WellFoundedInduction, TLAPS

-----------------------------------------------------------------------------
(* Types.                                                                  *)

(* The steps of the system, one by one. *)
LEMMA Steps ==
  ASSUME Next
  PROVE  \/ \E h \in Handlers : ReadEnv(h) \/ ReplaceEnv(h)
         \/ Launch \/ Command \/ Probe \/ CreateRun \/ LaunchFails \/ TakeUp
         \/ ResumeFails \/ DriverReturns \/ DriverRaises \/ GiveUp \/ Return
         \/ Resume \/ FinishedElsewhere \/ UNCHANGED vars
BY DEF Next, SupervisorStep, Rest

(* Every step keeps the types. *)
LEMMA NextTypeOK == TypeOK /\ [Next]_vars => TypeOK'
<1> SUFFICES ASSUME TypeOK, [Next]_vars PROVE TypeOK'
  OBVIOUS
<1> USE DEF TypeOK
<1>1. ASSUME NEW h \in Handlers, ReadEnv(h) PROVE TypeOK'
  BY <1>1 DEF ReadEnv, run
<1>2. ASSUME NEW h \in Handlers, ReplaceEnv(h) PROVE TypeOK'
  BY <1>2, SupervisorAssumption DEF ReplaceEnv, run
<1>3. CASE Launch \/ Command \/ Probe \/ LaunchFails \/ ResumeFails \/ DriverRaises
  BY <1>3 DEF Launch, Command, Probe, LaunchFails, ResumeFails, DriverRaises, web, run
<1>4. CASE CreateRun \/ TakeUp
  BY <1>4 DEF CreateRun, TakeUp, Loads, web
<1>5. CASE DriverReturns \/ FinishedElsewhere
  BY <1>5 DEF DriverReturns, FinishedElsewhere, web
<1>6. CASE GiveUp \/ Return
  BY <1>6 DEF GiveUp, Return, web, run
<1>7. CASE Resume
  BY <1>7, SupervisorAssumption DEF Resume, web, run
<1>8. CASE UNCHANGED vars
  BY <1>8 DEF vars, web, run
<1> QED
  BY <1>1, <1>2, <1>3, <1>4, <1>5, <1>6, <1>7, <1>8, Steps

(* .env and the run's files keep their types, and a supervisor never       *)
(* counts more resumes than it may try.                                    *)
THEOREM SupervisorTypeCorrect == Spec => []TypeOK
<1>1. Init => TypeOK
  BY SupervisorAssumption DEF Init, TypeOK
<1> QED
  BY <1>1, NextTypeOK, PTL DEF Spec

-----------------------------------------------------------------------------
(* The run and the supervisor's loop.                                      *)

(* There is a run as soon as there is an id for it, and not before a       *)
(* driver was launched.                                                    *)
RunKnown ==
  /\ rid = "run" <=> status # "none"
  /\ sup \in {"idle", "probe", "launch"} => status = "none"
  /\ sup \in {"driving", "resume"} => status # "none"

(* Past the probe, the arguments of a resume are known to be accepted.     *)
Probed == sup \in {"launch", "driving", "check", "resume"} => Accepts(ResumeArgs)

(* A check follows a driver, and a driver a run. *)
Checked == sup = "check" => status # "none"

LoopInv == RunKnown /\ Probed /\ Checked /\ RejectedBeforeSpend /\ ReturnsFinished

(* Every step keeps the supervisor in step with its run. *)
LEMMA NextLoopInv == LoopInv /\ [Next]_vars => LoopInv'
<1> SUFFICES ASSUME LoopInv, [Next]_vars PROVE LoopInv'
  OBVIOUS
<1> USE DEF LoopInv, RunKnown, Probed, Checked, RejectedBeforeSpend, ReturnsFinished
<1>1. CASE \E h \in Handlers : ReadEnv(h) \/ ReplaceEnv(h)
  BY <1>1 DEF ReadEnv, ReplaceEnv, run, ResumeArgs
<1>2. CASE Launch \/ Command
  BY <1>2 DEF Launch, Command, run
<1>3. CASE Probe
  BY <1>3 DEF Probe, run, ResumeArgs
<1>4. CASE CreateRun
  BY <1>4 DEF CreateRun, Loads, ResumeArgs
<1>5. CASE LaunchFails
  BY <1>5 DEF LaunchFails, run
<1>6. CASE TakeUp
  BY <1>6 DEF TakeUp, Loads, ResumeArgs
<1>7. CASE ResumeFails
  BY <1>7 DEF ResumeFails, run, ResumeArgs
<1>8. CASE DriverReturns
  BY <1>8 DEF DriverReturns, ResumeArgs
<1>9. CASE DriverRaises \/ GiveUp \/ Return
  BY <1>9 DEF DriverRaises, GiveUp, Return, run
<1>10. CASE Resume
  BY <1>10 DEF Resume, run, ResumeArgs
<1>11. CASE FinishedElsewhere
  BY <1>11 DEF FinishedElsewhere, ResumeArgs
<1>12. CASE UNCHANGED vars
  BY <1>12 DEF vars, run, ResumeArgs
<1> QED
  BY <1>1, <1>2, <1>3, <1>4, <1>5, <1>6, <1>7, <1>8, <1>9, <1>10, <1>11, <1>12, Steps

LEMMA AlwaysLoopInv == Spec => []LoopInv
<1>1. Init => LoopInv
  BY DEF Init, LoopInv, RunKnown, Probed, Checked, RejectedBeforeSpend, ReturnsFinished
<1> QED
  BY <1>1, NextLoopInv, PTL DEF Spec

(* A command line whose resumes the parser would refuse is refused before  *)
(* there is a run, whatever the parser accepts.                            *)
THEOREM NothingSpentOnRejected == Spec => []RejectedBeforeSpend
BY AlwaysLoopInv, PTL DEF LoopInv

(* supervise hands out a finished run, its own, or it has used up its      *)
(* resumes or lost nothing.                                                *)
THEOREM OnlyFinishedReturned == Spec => []ReturnsFinished
BY AlwaysLoopInv, PTL DEF LoopInv

-----------------------------------------------------------------------------
(* Induction on natural numbers, for sets of them. *)

(* Among natural numbers one is the least. *)
LEMMA LeastElement ==
  ASSUME NEW S \in SUBSET Nat, S # {}
  PROVE  \E m \in S : \A n \in S : m <= n
<1> DEFINE R == OpToRel(<, Nat)
<1>a. IsWellFoundedOn(R, Nat)
  BY NatLessThanWellFounded
<1> HIDE DEF R
<1>1. PICK m \in S : \A n \in S : <<n, m>> \notin R
  BY <1>a, WFMin
<1>2. \A n \in S : ~(n < m)
  BY <1>1 DEF OpToRel, R
<1> QED
  BY <1>2

(* A set that has zero and every successor has all natural numbers. *)
LEMMA SetInduction ==
  ASSUME NEW S \in SUBSET Nat, 0 \in S, \A n \in S : n + 1 \in S
  PROVE  S = Nat
<1> SUFFICES ASSUME Nat \ S # {} PROVE FALSE
  OBVIOUS
<1>1. PICK m \in Nat \ S : \A n \in Nat \ S : m <= n
  BY LeastElement
<1>2. m - 1 \in S
  BY <1>1
<1> QED
  BY <1>1, <1>2

-----------------------------------------------------------------------------
(* What the parser makes of a command line.                                *)

(* A pass that marks a token of S unless it has marked the one before it.  *)
LEMMA PassExists ==
  ASSUME NEW n \in Nat, NEW S
  PROVE  \E at : at = [i \in 1..n |-> i \in S /\ i > 1 /\ ~at[i - 1]]
<1> DEFINE Is(f, m) == f = [i \in 1..m |-> i \in S /\ i > 1 /\ ~f[i - 1]]
           N == {m \in Nat : \E f : Is(f, m)}
<1>1. 0 \in N
  <2>1. Is([i \in 1..0 |-> FALSE], 0)
    OBVIOUS
  <2> QED
    BY <2>1
<1>2. ASSUME NEW m \in N PROVE m + 1 \in N
  <2>1. PICK f : Is(f, m)
    OBVIOUS
  <2> DEFINE g == [i \in 1..(m + 1) |->
                     IF i <= m THEN f[i] ELSE i \in S /\ i > 1 /\ ~f[m]]
  <2>2. \A i \in 1..(m + 1) : g[i] = (i \in S /\ i > 1 /\ ~g[i - 1])
    <3> SUFFICES ASSUME NEW i \in 1..(m + 1)
                 PROVE  g[i] = (i \in S /\ i > 1 /\ ~g[i - 1])
      OBVIOUS
    <3>1. CASE i \in 1..m
      <4>1. g[i] = f[i] /\ f[i] = (i \in S /\ i > 1 /\ ~f[i - 1])
        BY <2>1, <3>1
      <4>2. i > 1 => g[i - 1] = f[i - 1]
        BY <3>1
      <4> QED
        BY <4>1, <4>2
    <3>2. CASE i = m + 1
      <4>1. g[i] = (i \in S /\ i > 1 /\ ~f[m])
        BY <3>2
      <4>2. i > 1 => g[i - 1] = f[m]
        BY <3>2
      <4> QED
        BY <4>1, <4>2
    <3> QED
      BY <3>1, <3>2
  <2>3. Is(g, m + 1)
    BY <2>2
  <2>4. \E h : Is(h, m + 1)
    BY <2>3
  <2>5. m + 1 \in Nat
    OBVIOUS
  <2> HIDE DEF g, Is
  <2> QED
    BY <2>4, <2>5, Zenon
<1>3. N = Nat
  <2> HIDE DEF N
  <2>1. N \in SUBSET Nat
    BY DEF N
  <2> QED
    BY <1>1, <1>2, <2>1, SetInduction
<1>4. \E f : Is(f, n)
  BY <1>3
<1> QED
  BY <1>4

(* A line of tokens. *)
IsLine(line) == Len(line) \in Nat /\ DOMAIN line = 1..Len(line)

(* The token after an option with a value is taken for it, unless that     *)
(* option is itself a value.                                               *)
LEMMA TakenTokens ==
  ASSUME NEW line, IsLine(line), NEW i \in DOMAIN line
  PROVE  i \in Taken(line) <=> i > 1 /\ line[i - 1] \in Valued /\ i - 1 \notin Taken(line)
<1> DEFINE S == {j \in 1..Len(line) : line[j - 1] \in Valued}
           Is(f) == f = [j \in DOMAIN line |-> j > 1 /\ line[j - 1] \in Valued /\ ~f[j - 1]]
           at == CHOOSE f : Is(f)
<1>0. DOMAIN line = 1..Len(line) /\ Len(line) \in Nat
  BY DEF IsLine
<1>1. \E f : Is(f)
  <2>1. PICK f : f = [j \in 1..Len(line) |-> j \in S /\ j > 1 /\ ~f[j - 1]]
    BY <1>0, PassExists
  <2>2. Is(f)
    BY <1>0, <2>1
  <2> QED
    BY <2>2
<1>2. Is(at)
  BY <1>1
<1>3. Taken(line) = {j \in DOMAIN line : at[j]}
  BY DEF Taken
<1> HIDE DEF at
<1>4. at[i] <=> i > 1 /\ line[i - 1] \in Valued /\ ~at[i - 1]
  BY <1>2
<1>5. i > 1 => i - 1 \in DOMAIN line
  BY <1>0
<1> QED
  BY <1>3, <1>4, <1>5

(* So is it for the launcher, but for a token that looks like an option.   *)
LEMMA AttachedTokens ==
  ASSUME NEW line, IsLine(line), NEW i \in DOMAIN line
  PROVE  i \in Attached(line) <=>
           /\ i > 1 /\ i - 1 \notin Attached(line) /\ IsFlag(line[i - 1])
           /\ line[i - 1] = QuestionFile \/ ~IsFlag(line[i])
<1> DEFINE S == {j \in 1..Len(line) :
                   IsFlag(line[j - 1]) /\ (line[j - 1] = QuestionFile \/ ~IsFlag(line[j]))}
           Is(f) == f = [j \in DOMAIN line |->
                           /\ j > 1 /\ ~f[j - 1] /\ IsFlag(line[j - 1])
                           /\ line[j - 1] = QuestionFile \/ ~IsFlag(line[j])]
           at == CHOOSE f : Is(f)
<1>0. DOMAIN line = 1..Len(line) /\ Len(line) \in Nat
  BY DEF IsLine
<1>1. \E f : Is(f)
  <2>1. PICK f : f = [j \in 1..Len(line) |-> j \in S /\ j > 1 /\ ~f[j - 1]]
    BY <1>0, PassExists
  <2>2. Is(f)
    BY <1>0, <2>1
  <2> QED
    BY <2>2
<1>2. Is(at)
  BY <1>1
<1>3. Attached(line) = {j \in DOMAIN line : at[j]}
  BY DEF Attached
<1> HIDE DEF at
<1>4. at[i] <=> /\ i > 1 /\ ~at[i - 1] /\ IsFlag(line[i - 1])
                /\ line[i - 1] = QuestionFile \/ ~IsFlag(line[i])
  BY <1>2
<1>5. i > 1 => i - 1 \in DOMAIN line
  BY <1>0
<1> QED
  BY <1>3, <1>4, <1>5

(* The places of numbers in a set of them: different ones have different   *)
(* places, in their order, and successors follow each other.               *)
LEMMA Places ==
  ASSUME NEW S \in SUBSET Nat, IsFiniteSet(S)
  PROVE  LET place(c) == Cardinality({j \in S : j < c})
         IN  /\ \A c \in S : place(c) \in 0..(Cardinality(S) - 1)
             /\ \A c, d \in S : c < d => place(c) < place(d)
             /\ \A c \in S : c + 1 \in S => place(c + 1) = place(c) + 1
<1> DEFINE below(c) == {j \in S : j < c}
           place(c) == Cardinality(below(c))
<1>0. \A c \in S : c \in Nat /\ c \notin below(c)
  OBVIOUS
<1>1. \A c \in S : IsFiniteSet(below(c)) /\ place(c) \in Nat
  BY FS_Subset, FS_CardinalityType
<1>2. Cardinality(S) \in Nat
  BY FS_CardinalityType
<1>3. ASSUME NEW T \in SUBSET S, NEW c \in S, below(c) \cup {c} \subseteq T
      PROVE  place(c) + 1 <= Cardinality(T)
  <2>1. IsFiniteSet(T) /\ Cardinality(T) \in Nat
    BY FS_Subset, FS_CardinalityType
  <2>2. Cardinality(below(c) \cup {c}) = place(c) + 1
    <3>1. IsFiniteSet(below(c)) /\ c \notin below(c)
      BY <1>0, <1>1
    <3> HIDE DEF below
    <3> QED
      BY <3>1, FS_AddElement
  <2> QED
    BY <1>3, <2>1, <2>2, FS_Subset
<1>4. \A c \in S : place(c) \in 0..(Cardinality(S) - 1)
  BY <1>1, <1>2, <1>3
<1>5. ASSUME NEW c \in S, NEW d \in S, c < d PROVE place(c) < place(d)
  <2>1. \A j \in S : j < c => j < d
    BY <1>0, <1>5
  <2>2. below(d) \in SUBSET S /\ below(c) \cup {c} \subseteq below(d)
    BY <1>5, <2>1
  <2>3. place(c) + 1 <= place(d)
    BY <1>3, <2>2
  <2>4. place(c) \in Nat /\ place(d) \in Nat
    BY <1>1
  <2> HIDE DEF place
  <2> QED
    BY <2>3, <2>4
<1>6. ASSUME NEW c \in S, c + 1 \in S PROVE place(c + 1) = place(c) + 1
  <2>1. \A j \in S : j < c + 1 <=> j < c \/ j = c
    BY <1>0
  <2>2. below(c + 1) = below(c) \cup {c}
    BY <2>1
  <2>3. IsFiniteSet(below(c)) /\ c \notin below(c)
    BY <1>0, <1>1
  <2> HIDE DEF below
  <2> QED
    BY <2>2, <2>3, FS_AddElement
<1> QED
  BY <1>4, <1>5, <1>6

(* Ascending lists every number of the set, in their order, and a number   *)
(* and its successor one after the other.                                  *)
LEMMA AscendingLists ==
  ASSUME NEW S \in SUBSET Nat, IsFiniteSet(S)
  PROVE  LET c == Cardinality(S)
             e == Ascending(S)
         IN  /\ c \in Nat /\ e \in [1..c -> S]
             /\ \A i \in S : \E n \in 1..c : e[n] = i
             /\ \A m, n \in 1..c : m < n => e[m] < e[n]
             /\ \A n \in 1..c : e[n] + 1 \in S => n + 1 \in 1..c /\ e[n + 1] = e[n] + 1
<1> DEFINE size == Cardinality(S)
           place(c) == Cardinality({j \in S : j < c})
           f == [c \in S |-> place(c) + 1]
           e == Ascending(S)
<1>1. size \in Nat /\ IsFiniteSet(1..size) /\ Cardinality(1..size) = size
  BY FS_CardinalityType, FS_Interval
<1>2. \A c \in S : place(c) \in 0..(size - 1)
  BY Places
<1>3. \A c, d \in S : c < d => place(c) < place(d)
  BY Places
<1>4. \A c \in S : c + 1 \in S => place(c + 1) = place(c) + 1
  BY Places
<1>5. e = [n \in 1..size |-> CHOOSE c \in S : place(c) = n - 1]
  BY DEF Ascending
<1>a. \A c \in S : c \in Nat
  OBVIOUS
<1> HIDE DEF size, place, e
<1>6. \A c, d \in S : place(c) = place(d) => c = d
  <2>1. ASSUME NEW c \in S, NEW d \in S, place(c) = place(d) PROVE c = d
    <3>1. ~(place(c) < place(d)) /\ ~(place(d) < place(c))
      BY <1>2, <2>1
    <3>2. ~(c < d) /\ ~(d < c)
      BY <1>3, <3>1
    <3> QED
      BY <1>a, <3>2
  <2> QED
    BY <2>1
<1>7. \A n \in 1..size : \E c \in S : place(c) = n - 1
  <2>1. f \in Injection(S, 1..size)
    BY <1>1, <1>2, <1>6 DEF Injection, IsInjective
  <2>2. f \in Surjection(S, 1..size)
    BY <1>1, <2>1, FS_Injection DEF size
  <2>3. \A n \in 1..size : \E c \in S : place(c) + 1 = n
    BY <2>2 DEF Surjection
  <2>4. ASSUME NEW n \in 1..size PROVE \E c \in S : place(c) = n - 1
    <3>1. PICK c \in S : place(c) + 1 = n
      BY <2>3
    <3>2. place(c) \in Int
      BY <1>2
    <3> QED
      BY <3>1, <3>2
  <2> QED
    BY <2>4
<1>8. \A n \in 1..size : e[n] \in S /\ place(e[n]) = n - 1
  BY <1>5, <1>7
<1>9. e \in [1..size -> S]
  BY <1>5, <1>8
<1>10. ASSUME NEW i \in S PROVE \E n \in 1..size : e[n] = i
  <2>1. PICK n \in 1..size : n - 1 = place(i)
    <3>1. place(i) + 1 \in 1..size /\ (place(i) + 1) - 1 = place(i)
      BY <1>1, <1>2
    <3> QED
      BY <3>1
  <2> QED
    BY <1>6, <1>8, <2>1
<1>11. ASSUME NEW m \in 1..size, NEW n \in 1..size, m < n PROVE e[m] < e[n]
  <2>1. e[m] \in S /\ place(e[m]) = m - 1
    BY <1>8
  <2>2. e[n] \in S /\ place(e[n]) = n - 1
    BY <1>8
  <2>3. ~(place(e[n]) < place(e[m])) /\ place(e[m]) # place(e[n])
    BY <1>1, <1>11, <2>1, <2>2
  <2>4. ~(e[n] < e[m]) /\ e[m] # e[n]
    BY <1>3, <2>1, <2>2, <2>3
  <2>5. e[m] \in Nat /\ e[n] \in Nat
    BY <1>a, <2>1, <2>2
  <2> QED
    BY <2>4, <2>5
<1>12. ASSUME NEW n \in 1..size, e[n] + 1 \in S
       PROVE  n + 1 \in 1..size /\ e[n + 1] = e[n] + 1
  <2>1. e[n] \in S /\ place(e[n]) = n - 1
    BY <1>8
  <2>2. place(e[n] + 1) = n
    <3>1. place(e[n] + 1) = place(e[n]) + 1
      BY <1>4, <1>12, <2>1
    <3> QED
      BY <1>1, <2>1, <3>1
  <2>3. n + 1 \in 1..size
    <3>1. place(e[n] + 1) \in 0..(size - 1)
      BY <1>2, <1>12
    <3> QED
      BY <1>1, <2>2, <3>1
  <2>4. e[n + 1] \in S /\ place(e[n + 1]) = n
    BY <1>8, <2>3
  <2> QED
    BY <1>6, <1>12, <2>2, <2>3, <2>4
<1> QED
  BY <1>1, <1>9, <1>10, <1>11, <1>12 DEF size, e

(* Last is the greatest of numbers that have a bound.                      *)
LEMMA LastIsGreatest ==
  ASSUME NEW n \in Nat, NEW S \in SUBSET (1..n), S # {}
  PROVE  Last(S) \in S /\ \A m \in S : m <= Last(S)
<1> DEFINE T == {n - m : m \in S}
<1>1. PICK t \in T : \A u \in T : t <= u
  <2>1. T \in SUBSET Nat /\ T # {}
    <3>1. \A m \in S : m \in 1..n
      OBVIOUS
    <3>2. \A m \in S : n - m \in Nat
      BY <3>1
    <3> QED
      BY <3>2
  <2> HIDE DEF T
  <2> QED
    BY <2>1, LeastElement
<1>2. PICK k \in S : t = n - k
  BY <1>1
<1>3. \A m \in S : m <= k
  <2> SUFFICES ASSUME NEW m \in S PROVE m <= k
    OBVIOUS
  <2>1. n - k <= n - m
    BY <1>1, <1>2
  <2> QED
    BY <2>1
<1> QED
  BY <1>3 DEF Last

-----------------------------------------------------------------------------
(* Command lines that the parser accepts.                                  *)

(* What an option has for its value is no option.                          *)
LEMMA OptionsAreNotTaken ==
  ASSUME NEW line, IsLine(line), Accepts(line), NEW i \in DOMAIN line, line[i] \in Options
  PROVE  i \notin Taken(line)
<1> SUFFICES ASSUME i \in Taken(line) PROVE FALSE
  OBVIOUS
<1>1. i > 1 /\ line[i - 1] \in Valued /\ i - 1 \notin Taken(line) /\ i - 1 \in DOMAIN line
  BY TakenTokens DEF IsLine
<1>2. i - 1 \in Uses(line, line[i - 1])
  BY <1>1 DEF Uses
<1>3. line[i] \in Values[line[i - 1]]
  BY <1>1, <1>2 DEF Accepts, IsLine
<1> QED
  BY <1>1, <1>3, PostureAssumption

(* An option is used wherever its token stands.                            *)
LEMMA UsesOfOption ==
  ASSUME NEW line, IsLine(line), Accepts(line), NEW o \in Options
  PROVE  Uses(line, o) = {i \in DOMAIN line : line[i] = o}
BY OptionsAreNotTaken DEF Uses

(* After an option with a value there is a value of it, which is no option.*)
LEMMA ValueFollows ==
  ASSUME NEW line, IsLine(line), Accepts(line), NEW i \in DOMAIN line, line[i] \in Valued
  PROVE  /\ i + 1 \in DOMAIN line
         /\ line[i + 1] \in Values[line[i]]
         /\ line[i + 1] \notin Options
<1>1. i \in Uses(line, line[i])
  BY UsesOfOption DEF Options
<1>2. i + 1 \in DOMAIN line /\ line[i + 1] \in Values[line[i]]
  BY <1>1 DEF Accepts
<1> QED
  BY <1>2, PostureAssumption

(* The launcher takes no option for the value of another, and every value  *)
(* for that of its option.                                                 *)
LEMMA AttachedValues ==
  ASSUME NEW line, IsLine(line), Accepts(line), NEW i \in DOMAIN line, line[i] \in Options
  PROVE  /\ i \notin Attached(line)
         /\ line[i] \in Valued => i + 1 \in Attached(line)
<1>0. DOMAIN line = 1..Len(line) /\ Len(line) \in Nat
  BY DEF IsLine
<1>1. i \notin Attached(line)
  <2> SUFFICES ASSUME i \in Attached(line) PROVE FALSE
    OBVIOUS
  <2>1. i > 1 /\ line[i - 1] = QuestionFile /\ i - 1 \in DOMAIN line
    BY <1>0, AttachedTokens DEF IsFlag
  <2>2. line[(i - 1) + 1] \notin Options
    BY <2>1, ValueFollows, PostureAssumption
  <2> QED
    BY <1>0, <2>2
<1>2. ASSUME line[i] \in Valued PROVE i + 1 \in Attached(line)
  <2>1. i + 1 \in DOMAIN line /\ line[i + 1] \notin Options
    BY <1>2, ValueFollows
  <2>2. i + 1 > 1 /\ (i + 1) - 1 = i
    BY <1>0
  <2> QED
    BY <1>1, <2>1, <2>2, AttachedTokens DEF IsFlag
<1> QED
  BY <1>1, <1>2

-----------------------------------------------------------------------------
(* What supervise passes on to a resume.                                   *)

(* The places of the tokens that it keeps. *)
Kept(line) ==
  {i \in DOMAIN line :
     \/ i \notin Attached(line) /\ IsFlag(line[i]) /\ line[i] # QuestionFile
     \/ i \in Attached(line) /\ line[i - 1] # QuestionFile}

(* The arguments of a resume after those of a launch. *)
ResumeLine(line) == <<ResumeFlag, "run">> \o ResumeFlags(line)

(* An option is kept, and its value with it. *)
LEMMA OptionIsKept ==
  ASSUME NEW line, IsLine(line), Accepts(line), NEW i \in DOMAIN line,
         line[i] \in Options \ {QuestionFile}
  PROVE  /\ i \in Kept(line)
         /\ line[i] \in Valued => i + 1 \in Kept(line)
<1>1. i \in Kept(line)
  BY AttachedValues DEF Kept, IsFlag
<1>2. ASSUME line[i] \in Valued PROVE i + 1 \in Kept(line)
  <2>1. i + 1 \in Attached(line) /\ i + 1 \in DOMAIN line
    BY <1>2, AttachedValues, ValueFollows
  <2>2. (i + 1) - 1 = i
    BY DEF IsLine
  <2> QED
    BY <2>1, <2>2 DEF Kept
<1> QED
  BY <1>1, <1>2

(* The arguments of a resume: the run to resume, and the tokens kept.      *)
LEMMA ResumeLineTokens ==
  ASSUME NEW line, IsLine(line)
  PROVE  LET e == Ascending(Kept(line))
             c == Cardinality(Kept(line))
             r == ResumeLine(line)
         IN  /\ IsLine(r) /\ c \in Nat /\ DOMAIN r = 1..(c + 2)
             /\ r[1] = ResumeFlag
             /\ \A n \in 1..c : e[n] \in DOMAIN line /\ r[n + 2] = line[e[n]]
<1> DEFINE T == {line[i] : i \in DOMAIN line} \cup {ResumeFlag, "run"}
           K == Kept(line)
           e == Ascending(K)
           c == Cardinality(K)
           flags == ResumeFlags(line)
<1>0. DOMAIN line = 1..Len(line) /\ Len(line) \in Nat
  BY DEF IsLine
<1>1. K \in SUBSET Nat /\ IsFiniteSet(K) /\ K \subseteq DOMAIN line
  <2>1. K \subseteq 1..Len(line)
    BY <1>0 DEF Kept
  <2>2. IsFiniteSet(1..Len(line))
    BY <1>0, FS_Interval
  <2> HIDE DEF K
  <2>3. K \in SUBSET Nat
    BY <1>0, <2>1
  <2> QED
    BY <1>0, <2>1, <2>2, <2>3, FS_Subset
<1>2. flags = [n \in DOMAIN e |-> line[e[n]]]
  BY DEF ResumeFlags, Kept
<1> HIDE DEF K
<1>3. c \in Nat /\ e \in [1..c -> K]
  BY <1>1, AscendingLists
<1> HIDE DEF e, c, flags
<1>4. flags \in Seq(T) /\ Len(flags) = c
  <2>1. flags \in [1..c -> T]
    <3>1. \A n \in 1..c : line[e[n]] \in T
      BY <1>1, <1>3
    <3> QED
      BY <1>2, <1>3, <3>1
  <2> QED
    BY <1>3, <2>1
<1>5. <<ResumeFlag, "run">> \in Seq(T) /\ Len(<<ResumeFlag, "run">>) = 2
  OBVIOUS
<1>6. DEFINE r == <<ResumeFlag, "run">> \o flags
<1>7. r \in Seq(T) /\ Len(r) = c + 2 /\ DOMAIN r = 1..(c + 2)
  BY <1>3, <1>4, <1>5
<1>8. r[1] = ResumeFlag
  BY <1>4, <1>5
<1>9. ASSUME NEW n \in 1..c PROVE e[n] \in DOMAIN line /\ r[n + 2] = line[e[n]]
  <2>1. r[n + 2] = flags[n]
    BY <1>3, <1>4, <1>5
  <2> QED
    BY <1>1, <1>2, <1>3, <2>1
<1> HIDE DEF r
<1> QED
  BY <1>3, <1>7, <1>8, <1>9 DEF IsLine, ResumeLine, r, e, c, K, flags

(* A resume that the parser accepts is given the options of the launch,    *)
(* but for the question, and each of them the same value.                  *)
LEMMA ResumeGivesTheSame ==
  ASSUME NEW line, IsLine(line), Accepts(line), Accepts(ResumeLine(line)),
         NEW o \in Options \ {QuestionFile, ResumeFlag}
  PROVE  LET r == ResumeLine(line)
         IN  /\ o \in Given(r) <=> o \in Given(line)
             /\ o \in Given(line) \cap Valued =>
                  r[Last(Uses(r, o)) + 1] = line[Last(Uses(line, o)) + 1]
<1> DEFINE r == ResumeLine(line)
           K == Kept(line)
           e == Ascending(K)
           c == Cardinality(K)
<1>0. DOMAIN line = 1..Len(line) /\ Len(line) \in Nat
  BY DEF IsLine
<1>1. /\ IsLine(r) /\ c \in Nat /\ DOMAIN r = 1..(c + 2) /\ r[1] = ResumeFlag
      /\ \A n \in 1..c : e[n] \in DOMAIN line /\ r[n + 2] = line[e[n]]
  BY ResumeLineTokens
<1>2. /\ \A i \in K : \E n \in 1..c : e[n] = i
      /\ \A m, n \in 1..c : m < n => e[m] < e[n]
      /\ \A n \in 1..c : e[n] + 1 \in K => n + 1 \in 1..c /\ e[n + 1] = e[n] + 1
  <2>1. K \subseteq 1..Len(line) /\ IsFiniteSet(1..Len(line))
    BY <1>0, FS_Interval DEF Kept
  <2> HIDE DEF K
  <2>2. K \in SUBSET Nat /\ IsFiniteSet(K)
    <3>1. K \in SUBSET Nat
      BY <1>0, <2>1
    <3> QED
      BY <2>1, <3>1, FS_Subset
  <2> QED
    BY <2>2, AscendingLists
<1>3. \A i \in DOMAIN line : line[i] = o => i \in K /\ (o \in Valued => i + 1 \in K)
  BY OptionIsKept
<1>4. /\ Uses(line, o) = {i \in DOMAIN line : line[i] = o}
      /\ Uses(r, o) = {i \in DOMAIN r : r[i] = o}
  BY <1>1, UsesOfOption
<1>5. r[1] # o /\ r[2] # o
  <2>1. r[1] \in Valued /\ 1 \in DOMAIN r
    BY <1>1, PostureAssumption
  <2>2. r[1 + 1] \notin Options
    BY <1>1, <2>1, ValueFollows
  <2> QED
    BY <1>1, <2>2
<1> HIDE DEF r, K, e, c
<1>6. \A i \in Uses(r, o) : \E n \in 1..c : i = n + 2 /\ line[e[n]] = o
  <2> SUFFICES ASSUME NEW i \in Uses(r, o)
               PROVE  \E n \in 1..c : i = n + 2 /\ line[e[n]] = o
    OBVIOUS
  <2>1. i \in 1..(c + 2) /\ r[i] = o /\ i # 1 /\ i # 2
    BY <1>1, <1>4, <1>5
  <2>2. i - 2 \in 1..c /\ i = (i - 2) + 2
    BY <1>1, <2>1
  <2>3. line[e[i - 2]] = o
    BY <1>1, <2>1, <2>2
  <2> QED
    BY <2>2, <2>3
<1>7. \A n \in 1..c : line[e[n]] = o => n + 2 \in Uses(r, o)
  <2> SUFFICES ASSUME NEW n \in 1..c, line[e[n]] = o PROVE n + 2 \in Uses(r, o)
    OBVIOUS
  <2>1. n + 2 \in 1..(c + 2)
    BY <1>1
  <2> QED
    BY <1>1, <1>4, <2>1
<1>8. Uses(r, o) # {} <=> Uses(line, o) # {}
  BY <1>1, <1>2, <1>3, <1>4, <1>6, <1>7
<1>9. o \in Given(r) <=> o \in Given(line)
  BY <1>8 DEF Given
<1>10. ASSUME o \in Given(line) \cap Valued
       PROVE  r[Last(Uses(r, o)) + 1] = line[Last(Uses(line, o)) + 1]
  <2> DEFINE i == Last(Uses(line, o))
             k == Last(Uses(r, o))
  <2>1. i \in Uses(line, o) /\ \A m \in Uses(line, o) : m <= i
    BY <1>0, <1>4, <1>10, LastIsGreatest DEF Given
  <2>2. k \in Uses(r, o) /\ \A m \in Uses(r, o) : m <= k
    <3>1. Uses(r, o) \in SUBSET (1..(c + 2)) /\ c + 2 \in Nat
      BY <1>1, <1>4
    <3>2. Uses(r, o) # {}
      BY <1>8, <1>10 DEF Given
    <3> QED
      BY <3>1, <3>2, LastIsGreatest
  <2> HIDE DEF i, k
  <2>3. i \in DOMAIN line /\ line[i] = o /\ i \in K /\ i + 1 \in K
    BY <1>3, <1>4, <1>10, <2>1
  <2>4. PICK n \in 1..c : e[n] = i
    BY <1>2, <2>3
  <2>5. PICK m \in 1..c : k = m + 2 /\ line[e[m]] = o
    BY <1>6, <2>2
  <2>6. n + 2 <= m + 2
    BY <1>7, <2>2, <2>3, <2>4, <2>5
  <2>7. e[m] <= e[n]
    BY <1>1, <1>4, <2>1, <2>4, <2>5
  <2>8. ~(n < m)
    <3>1. e[n] \in Nat /\ e[m] \in Nat
      BY <1>0, <1>1
    <3>2. n < m => e[n] < e[m]
      BY <1>2
    <3> QED
      BY <2>7, <3>1, <3>2
  <2>9. k = n + 2
    BY <1>1, <2>5, <2>6, <2>8
  <2>10. n + 1 \in 1..c /\ e[n + 1] = i + 1
    BY <1>2, <2>3, <2>4
  <2>11. r[(n + 1) + 2] = line[i + 1]
    BY <1>1, <2>10
  <2>12. k + 1 = (n + 1) + 2
    BY <1>1, <2>9
  <2> QED
    BY <2>11, <2>12 DEF i, k
<1> QED
  BY <1>9, <1>10 DEF r

-----------------------------------------------------------------------------
(* What load_settings makes of a command line.                             *)

(* The options in the order of their layers. *)
Ordered(line) == {n \in DOMAIN Order : Order[n] \in Given(line)}

(* The options of the order that have a value. *)
Single == Outright \cup {"--volume"}

(* The tokens of the order, and those that go without a value in it.       *)
LEMMA OrderTokens ==
  /\ DOMAIN Order = 1..13 /\ Len(Order) = 13
  /\ \A n \in DOMAIN Order :
       Order[n] \in DeepBundles \cup Presets \cup {"--verify", "--waves"} \cup Single
  /\ \A n \in DOMAIN Order : Order[n] # QuestionFile /\ Order[n] # ResumeFlag
  /\ \A m, n \in DOMAIN Order : Order[m] = Order[n] => m = n
BY DEF Order, DeepBundles, Presets, Single, Outright, QuestionFile, ResumeFlag

(* An option that has a value is given one of its values.                  *)
LEMMA LastValue ==
  ASSUME NEW line, IsLine(line), Accepts(line), NEW o \in Valued, o \in Given(line)
  PROVE  line[Last(Uses(line, o)) + 1] \in Values[o]
<1>1. Uses(line, o) \in SUBSET (1..Len(line)) /\ Len(line) \in Nat /\ Uses(line, o) # {}
  BY DEF IsLine, Uses, Given
<1>2. Last(Uses(line, o)) \in Uses(line, o)
  BY <1>1, LastIsGreatest
<1> QED
  BY <1>2 DEF Accepts

(* An option without a value lays the same over the settings wherever it   *)
(* stands.                                                                 *)
LEMMA SwitchOverlay ==
  ASSUME NEW o \in DeepBundles \cup Presets \cup {"--verify", "--waves"} \cup Single,
         o \in Options, o \notin Valued, NEW v, NEW w
  PROVE  Overlay(o, v) = Overlay(o, w)
<1>1. o \notin Single
  BY PostureAssumption DEF Options, Single
<1> QED
  BY <1>1 DEF Overlay, Single, Outright

(* The layers of a line, and the settings that come of layers. *)
Layers(line) == {[at |-> n, has |-> Layer(line, Order[n])] : n \in Ordered(line)}

Merged(layers) ==
  LET top(s) == CHOOSE l \in layers :
                  s \in DOMAIN l.has
                  /\ \A m \in layers : s \in DOMAIN m.has => m.at <= l.at
  IN  [s \in DOMAIN Base \cup UNION {DOMAIN l.has : l \in layers} |->
         IF \E l \in layers : s \in DOMAIN l.has THEN top(s).has[s] ELSE Base[s]]

(* The settings of a line are its layers, one over the other.              *)
LEMMA SettingsAreMerged == \A a : Settings(a) = Merged(Layers(a))
BY DEF Settings, Merged, Layers, Ordered

(* The layers of a resume are those of the launch.                         *)
LEMMA ResumeLayers ==
  ASSUME NEW line, IsLine(line), Accepts(line), Accepts(ResumeLine(line))
  PROVE  /\ Ordered(ResumeLine(line)) = Ordered(line)
         /\ \A n \in Ordered(line) :
              Layer(ResumeLine(line), Order[n]) = Layer(line, Order[n])
<1> DEFINE r == ResumeLine(line)
<1>1. \A n \in DOMAIN Order : Order[n] \in Given(r) <=> Order[n] \in Given(line)
  BY ResumeGivesTheSame, OrderTokens DEF Given
<1>2. ASSUME NEW n \in Ordered(line)
      PROVE  Layer(r, Order[n]) = Layer(line, Order[n])
  <2> DEFINE o == Order[n]
  <2>1. o \in Options /\ o \in Given(line) /\ o # QuestionFile /\ o # ResumeFlag
    BY OrderTokens DEF Ordered, Given
  <2>2. CASE o \in Valued
    <3>1. r[Last(Uses(r, o)) + 1] = line[Last(Uses(line, o)) + 1]
      BY <2>1, <2>2, ResumeGivesTheSame
    <3> QED
      BY <3>1 DEF Layer
  <2>3. CASE o \notin Valued
    <3>1. o \in DeepBundles \cup Presets \cup {"--verify", "--waves"} \cup Single
      BY OrderTokens DEF Ordered
    <3> QED
      BY <2>1, <2>3, <3>1, SwitchOverlay DEF Layer
  <2> QED
    BY <2>2, <2>3
<1> QED
  BY <1>1, <1>2 DEF Ordered

(* So are its settings.                                                    *)
LEMMA ResumeSettings ==
  ASSUME NEW line, IsLine(line), Accepts(line), Accepts(ResumeLine(line))
  PROVE  Settings(ResumeLine(line)) = Settings(line)
<1>1. Layers(ResumeLine(line)) = Layers(line)
  BY ResumeLayers DEF Layers
<1> QED
  BY <1>1, SettingsAreMerged

(* Every layer of a well-configured line replaces settings of the file.    *)
LEMMA LayersFit ==
  ASSUME NEW line, IsLine(line), Accepts(line), WellConfigured(line),
         NEW n \in Ordered(line)
  PROVE  DOMAIN Layer(line, Order[n]) \subseteq DOMAIN Base
<1> DEFINE o == Order[n]
<1>1. o \in Given(line) /\ o \in Options
  BY DEF Ordered, Given
<1>2. CASE o \in DeepBundles \cup Presets \cup {"--volume"}
  BY <1>1, <1>2 DEF WellConfigured
<1>3. CASE o = "--verify"
  <2>1. Layer(line, o) = [verify |-> TRUE]
    BY <1>3 DEF Layer, Overlay, DeepBundles, Presets
  <2>2. DOMAIN [verify |-> TRUE] = {"verify"}
    OBVIOUS
  <2> QED
    BY <2>1, <2>2, PostureAssumption
<1>4. CASE o = "--waves"
  <2>1. Layer(line, o) = [waves |-> TRUE]
    BY <1>4 DEF Layer, Overlay, DeepBundles, Presets
  <2>2. DOMAIN [waves |-> TRUE] = {"waves"}
    OBVIOUS
  <2> QED
    BY <2>1, <2>2, PostureAssumption
<1>5. CASE o \in Outright
  <2> DEFINE v == line[Last(Uses(line, o)) + 1]
  <2>1. o \in Valued
    BY <1>1, <1>5, PostureAssumption DEF Options
  <2>2. v \in Values[o]
    BY <1>1, <2>1, LastValue
  <2>3. Layer(line, o) = Bundles[o][v]
    BY <1>5 DEF Layer, Overlay, DeepBundles, Presets, Outright
  <2> QED
    BY <1>5, <2>1, <2>2, <2>3, PostureAssumption
<1> QED
  BY <1>2, <1>3, <1>4, <1>5, OrderTokens DEF Single, Ordered

(* Nothing is in the settings that the file does not have.                 *)
LEMMA SettingsFit ==
  ASSUME NEW line, IsLine(line), Accepts(line), WellConfigured(line)
  PROVE  DOMAIN Settings(line) = DOMAIN Base
<1>1. DOMAIN Settings(line) = DOMAIN Base \cup UNION {DOMAIN l.has : l \in Layers(line)}
  BY SettingsAreMerged DEF Merged
<1>2. \A l \in Layers(line) : DOMAIN l.has \subseteq DOMAIN Base
  BY LayersFit DEF Layers
<1> QED
  BY <1>1, <1>2

(* What an option names outright no later layer has.                       *)
LEMMA NamedLast ==
  ASSUME NEW line, IsLine(line), Accepts(line), NEW o \in DOMAIN Explicit, o \in Given(line)
  PROVE  \E n \in Ordered(line) :
           /\ Order[n] = o /\ Explicit[o] \in DOMAIN Layer(line, o)
           /\ \A m \in Ordered(line) :
                m > n => Explicit[o] \notin DOMAIN Layer(line, Order[m])
<1>1. PICK n \in DOMAIN Order :
        /\ o = Order[n] /\ o \in Valued
        /\ \A v \in Values[o] : Explicit[o] \in DOMAIN Overlay(o, v)
        /\ \A m \in (n + 1)..Len(Order) :
             \A v \in IF Order[m] \in Valued THEN Values[Order[m]] ELSE {Unset} :
               Order[m] \in Options => Explicit[o] \notin DOMAIN Overlay(Order[m], v)
  BY PostureAssumption
<1>2. n \in Ordered(line)
  BY <1>1 DEF Ordered
<1>3. Explicit[o] \in DOMAIN Layer(line, o)
  BY <1>1, LastValue DEF Layer
<1>4. ASSUME NEW m \in Ordered(line), m > n
      PROVE  Explicit[o] \notin DOMAIN Layer(line, Order[m])
  <2> DEFINE p == Order[m]
             v == line[Last(Uses(line, p)) + 1]
  <2>1. m \in (n + 1)..Len(Order) /\ p \in Options /\ p \in Given(line)
    BY <1>4, OrderTokens DEF Ordered, Given
  <2>2. CASE p \in Valued
    <3>1. v \in Values[p]
      BY <2>1, <2>2, LastValue
    <3> QED
      BY <1>1, <2>1, <2>2, <3>1 DEF Layer
  <2>3. CASE p \notin Valued
    <3>1. Explicit[o] \notin DOMAIN Overlay(p, Unset)
      BY <1>1, <2>1, <2>3
    <3>2. Overlay(p, v) = Overlay(p, Unset)
      BY <2>1, <2>3, OrderTokens, SwitchOverlay DEF Ordered
    <3> QED
      BY <3>1, <3>2 DEF Layer
  <2> QED
    BY <2>2, <2>3
<1> QED
  BY <1>1, <1>2, <1>3, <1>4

(* What the operator said outright stands.                                 *)
LEMMA SettingsKeepExplicit ==
  ASSUME NEW line, IsLine(line), Accepts(line)
  PROVE  ExplicitWins(line, Settings(line))
<1> DEFINE layers == {[at |-> n, has |-> Layer(line, Order[n])] : n \in Ordered(line)}
<1>1. \A s \in UNION {DOMAIN l.has : l \in layers} :
        Settings(line)[s] = (CHOOSE l \in layers :
           s \in DOMAIN l.has /\ \A m \in layers : s \in DOMAIN m.has => m.at <= l.at).has[s]
  BY DEF Settings, Ordered
<1> SUFFICES ASSUME NEW o \in DOMAIN Explicit, o \in Given(line)
             PROVE  Settings(line)[Explicit[o]] = Layer(line, o)[Explicit[o]]
  BY DEF ExplicitWins
<1> DEFINE s == Explicit[o]
<1>2. PICK n \in Ordered(line) :
        /\ Order[n] = o /\ s \in DOMAIN Layer(line, o)
        /\ \A m \in Ordered(line) : m > n => s \notin DOMAIN Layer(line, Order[m])
  BY NamedLast
<1> DEFINE top == [at |-> n, has |-> Layer(line, o)]
<1>3. top \in layers /\ s \in DOMAIN top.has
  BY <1>2
<1>4. \A l \in layers : s \in DOMAIN l.has => l.at <= n
  <2> SUFFICES ASSUME NEW k \in Ordered(line), s \in DOMAIN Layer(line, Order[k])
               PROVE  k <= n
    OBVIOUS
  <2>1. k \in Nat /\ n \in Nat /\ ~(k > n)
    BY <1>2, OrderTokens DEF Ordered
  <2> QED
    BY <2>1
<1>5. \A l \in layers : n <= l.at /\ l.at <= n => l = top
  <2> SUFFICES ASSUME NEW k \in Ordered(line), n <= k, k <= n
               PROVE  k = n
    BY <1>2
  <2>1. k \in Nat /\ n \in Nat
    BY OrderTokens DEF Ordered
  <2> QED
    BY <2>1
<1>6. s \in UNION {DOMAIN l.has : l \in layers}
  BY <1>3
<1>7. top.at = n
  OBVIOUS
<1> HIDE DEF layers, s, top
<1>8. (CHOOSE l \in layers :
         s \in DOMAIN l.has /\ \A m \in layers : s \in DOMAIN m.has => m.at <= l.at) = top
  <2>1. /\ top \in layers
        /\ s \in DOMAIN top.has /\ \A m \in layers : s \in DOMAIN m.has => m.at <= top.at
    BY <1>3, <1>4, <1>7
  <2>2. ASSUME NEW l \in layers, s \in DOMAIN l.has,
               \A m \in layers : s \in DOMAIN m.has => m.at <= l.at
        PROVE  l = top
    BY <1>3, <1>4, <1>5, <1>7, <2>2
  <2> QED
    BY <2>1, <2>2
<1>9. Settings(line)[s] = top.has[s]
  BY <1>1, <1>6, <1>8
<1> QED
  BY <1>9 DEF s, top

-----------------------------------------------------------------------------
(* Every driver works as its launch was asked to.                          *)

(* The supervisor's arguments are a line; once a driver has been at work   *)
(* the parser and the settings have accepted it; and the driver at work    *)
(* has the settings of that line.                                          *)
Asked ==
  /\ IsLine(argv)
  /\ sup \in {"driving", "check", "resume"} => Accepts(argv) /\ WellConfigured(argv)
  /\ sup = "driving" => settings = Settings(argv)

(* What the web interface launches with is a line.                         *)
LEMMA DriverArgsLine ==
  ASSUME NEW preset, NEW cap, NEW wall, NEW backend
  PROVE  IsLine(DriverArgs(preset, cap, wall, backend))
<1> DEFINE T == {QuestionFile, File, "--cheap", "--gate", "opus", "--comprehensive",
                 "--verify", "--max-budget-usd", cap, "--max-wall-hours", wall}
<1> DEFINE cheap == IF backend = "cheap" THEN <<"--cheap", "--gate", "opus">> ELSE <<>>
           deep == IF preset = "comprehensive" THEN <<"--comprehensive", "--verify">> ELSE <<>>
           capped == IF cap = Unset THEN <<>> ELSE <<"--max-budget-usd", cap>>
           walled == IF wall = Unset THEN <<>> ELSE <<"--max-wall-hours", wall>>
<1>1. <<QuestionFile, File>> \in Seq(T) /\ <<>> \in Seq(T)
  OBVIOUS
<1>2. <<"--cheap", "--gate", "opus">> \in Seq(T)
  OBVIOUS
<1>3. <<"--comprehensive", "--verify">> \in Seq(T)
  OBVIOUS
<1>4. <<"--max-budget-usd", cap>> \in Seq(T) /\ <<"--max-wall-hours", wall>> \in Seq(T)
  OBVIOUS
<1> HIDE DEF T
<1>5. cheap \in Seq(T) /\ deep \in Seq(T) /\ capped \in Seq(T) /\ walled \in Seq(T)
  BY <1>1, <1>2, <1>3, <1>4, Zenon
<1>6. DriverArgs(preset, cap, wall, backend)
        = ((<<QuestionFile, File>> \o (cheap \o deep)) \o capped) \o walled
  BY DEF DriverArgs, PresetFlags
<1> HIDE DEF cheap, deep, capped, walled
<1>7. DriverArgs(preset, cap, wall, backend) \in Seq(T)
  BY <1>1, <1>5, <1>6
<1> QED
  BY <1>7 DEF IsLine

(* No step puts a driver to work as nobody asked.                          *)
LEMMA NextAsked == Asked /\ [Next]_vars => Asked'
<1> SUFFICES ASSUME Asked, [Next]_vars PROVE Asked'
  OBVIOUS
<1> USE DEF Asked
<1>1. ASSUME NEW h \in Handlers, ReadEnv(h) \/ ReplaceEnv(h) PROVE Asked'
  BY <1>1 DEF ReadEnv, ReplaceEnv, run
<1>2. CASE Launch
  <2>1. IsLine(argv')
    BY <1>2, DriverArgsLine DEF Launch
  <2> QED
    BY <1>2, <2>1 DEF Launch
<1>3. CASE Command
  <2>1. argv' \in Seq(STRING)
    BY <1>3, SupervisorAssumption DEF Command
  <2>2. IsLine(argv')
    BY <2>1 DEF IsLine
  <2> QED
    BY <1>3, <2>2 DEF Command
<1>4. CASE Probe
  BY <1>4 DEF Probe
<1>5. CASE CreateRun
  BY <1>5 DEF CreateRun, Loads
<1>6. CASE LaunchFails
  BY <1>6 DEF LaunchFails
<1>7. CASE TakeUp
  <2>1. Accepts(ResumeLine(argv)) /\ settings' = Settings(ResumeLine(argv))
    BY <1>7 DEF TakeUp, Loads, ResumeArgs, ResumeLine
  <2>2. settings' = Settings(argv)
    BY <1>7, <2>1, ResumeSettings DEF TakeUp
  <2> QED
    BY <1>7, <2>2 DEF TakeUp
<1>8. CASE ResumeFails
  BY <1>8 DEF ResumeFails, run
<1>9. CASE DriverReturns \/ DriverRaises
  BY <1>9 DEF DriverReturns, DriverRaises
<1>10. CASE GiveUp \/ Return \/ Resume
  BY <1>10 DEF GiveUp, Return, Resume
<1>11. CASE FinishedElsewhere
  BY <1>11 DEF FinishedElsewhere
<1>12. CASE UNCHANGED vars
  BY <1>12 DEF vars, run
<1> QED
  BY <1>1, <1>2, <1>3, <1>4, <1>5, <1>6, <1>7, <1>8, <1>9, <1>10, <1>11, <1>12, Steps

(* Every driver of a run, the first and those of the resumes, works under  *)
(* the settings that its launch was asked for: no flag is lost on the way, *)
(* nothing is in them that the file does not have, and what the operator   *)
(* said outright stands.                                                   *)
THEOREM DriversAreAsAsked == Spec => []DrivenAsAsked
<1>1. Init => Asked
  BY DEF Init, Asked, IsLine
<1>2. Asked => DrivenAsAsked
  BY SettingsFit, SettingsKeepExplicit DEF Asked, DrivenAsAsked
<1> QED
  BY <1>1, <1>2, NextAsked, PTL DEF Spec
=============================================================================
