---------------------------- MODULE RunLock_proofs ----------------------------
(***************************************************************************)
(* Theorems about RunLock, for any set of processes and any bounds.        *)
(***************************************************************************)
EXTENDS RunLock, TLAPS

(* A driver between taking the lock and releasing it.                      *)
Holding(p) == pc[p] \in {"reopen", "work", "release"}

(* At most one driver is starting; the lock names whoever holds it; and    *)
(* when a driver is about to take it, nobody does.                         *)
OneStarts == \A p, q \in Procs : (Starting(p) /\ Starting(q)) => p = q
LockNamesHolder == \A p \in Procs : Holding(p) => lock = p
TakenWhenFree == \A p, q \in Procs : pc[p] = "take" => ~Holding(q)

LockInv == TypeOK /\ OneStarts /\ LockNamesHolder /\ TakenWhenFree

(* Nobody has started a driver yet, so the invariant holds.                *)
LEMMA InitLockInv == Init => LockInv
<1> SUFFICES ASSUME Init PROVE LockInv
  OBVIOUS
<1>1. TypeOK
  BY LockAssumption DEF Init, TypeOK, Fresh, Meta, Places
<1>2. OneStarts /\ LockNamesHolder /\ TakenWhenFree
  BY DEF Init, OneStarts, LockNamesHolder, TakenWhenFree, Starting, Holding
<1> QED
  BY <1>1, <1>2 DEF LockInv

(* Each process is where Goto put it, the others are where they were.      *)
LEMMA Moved ==
  ASSUME NEW p \in Procs, NEW place \in Places, pc \in [Procs -> Places],
         Goto(p, place)
  PROVE  /\ pc' \in [Procs -> Places]
         /\ pc'[p] = place
         /\ \A q \in Procs \ {p} : pc'[q] = pc[q]
BY DEF Goto

(* Every step keeps every file and every process well-formed.              *)
LEMMA NextTypeOK ==
  ASSUME TypeOK, [Next]_vars
  PROVE  TypeOK'
<1> USE DEF TypeOK
<1>1. CASE UNCHANGED vars
  BY <1>1 DEF vars
<1>2. ASSUME NEW p \in Procs,
             Launch(p) \/ DriverStep(p) \/ LoadFails(p) \/ Raise(p) \/ Kill(p)
      PROVE  TypeOK'
  <2>1. CASE Launch(p)
    <3>1. pc' \in [Procs -> Places]
      BY <2>1, Moved DEF Launch, Places
    <3>2. forcing' \in [Procs -> BOOLEAN]
      BY <2>1, Zenon DEF Launch
    <3> QED
      BY <2>1, <3>1, <3>2 DEF Launch
  <2>2. CASE ReadMeta(p)
    <3>1. pc' \in [Procs -> Places]
      BY <2>2, Moved DEF ReadMeta, Places
    <3> QED
      BY <2>2, <3>1 DEF ReadMeta
  <2>3. CASE CheckLock(p)
    <3>1. pc' \in [Procs -> Places]
      BY <2>3, Moved DEF CheckLock, Places
    <3> QED
      BY <2>3, <3>1 DEF CheckLock
  <2>4. CASE TakeLock(p)
    <3>1. pc' \in [Procs -> Places]
      BY <2>4, Moved DEF TakeLock, Places
    <3> QED
      BY <2>4, <3>1 DEF TakeLock
  <2>5. CASE Reopen(p)
    <3>1. pc' \in [Procs -> Places]
      BY <2>5, Moved DEF Reopen, Places
    <3>2. [copy[p] EXCEPT !.status = "running"] \in Meta
      BY DEF Meta
    <3> QED
      BY <2>5, <3>1, <3>2 DEF Reopen
  <2>6. CASE CompleteCycle(p)
    <3>1. [copy[p] EXCEPT !.last = @ + 1] \in Meta
      BY <2>6, LockAssumption DEF CompleteCycle, Meta
    <3> QED
      BY <2>6, <3>1 DEF CompleteCycle
  <2>7. CASE MarkFinished(p)
    <3>1. pc' \in [Procs -> Places]
      BY <2>7, Moved DEF MarkFinished, Places
    <3>2. [copy[p] EXCEPT !.status = "finished"] \in Meta
      BY DEF Meta
    <3> QED
      BY <2>7, <3>1, <3>2 DEF MarkFinished
  <2>8. CASE ReleaseLock(p)
    <3>1. pc' \in [Procs -> Places]
      BY <2>8, Moved DEF ReleaseLock, Places
    <3> QED
      BY <2>8, <3>1 DEF ReleaseLock
  <2>9. CASE LoadFails(p) \/ Raise(p) \/ Kill(p)
    <3>1. pc' \in [Procs -> Places]
      BY <2>9, Moved DEF LoadFails, Raise, Kill, Places
    <3> QED
      BY <2>9, <3>1 DEF LoadFails, Raise, Kill
  <2> QED
    BY <1>2, <2>1, <2>2, <2>3, <2>4, <2>5, <2>6, <2>7, <2>8, <2>9 DEF DriverStep
<1> QED
  BY <1>1, <1>2 DEF Next

(* Every step keeps the lock in the hands of the one driver that holds it, *)
(* when drivers are started one at a time.                                 *)
LEMMA NextLockInv ==
  ASSUME OneAtATime, LockInv, [Next]_vars
  PROVE  LockInv'
<1> DEFINE Others(p) == \A q \in Procs \ {p} : pc'[q] = pc[q]
<1>t. TypeOK /\ TypeOK'
  BY NextTypeOK DEF LockInv
<1> SUFFICES OneStarts' /\ LockNamesHolder' /\ TakenWhenFree'
  BY <1>t DEF LockInv
<1>0. pc \in [Procs -> Places] /\ NoProc \notin Procs
  BY <1>t, LockAssumption DEF TypeOK
<1> USE DEF LockInv, OneStarts, LockNamesHolder, TakenWhenFree, Starting, Holding
<1>1. CASE UNCHANGED vars
  BY <1>1 DEF vars
<1>2. ASSUME NEW p \in Procs,
             Launch(p) \/ DriverStep(p) \/ LoadFails(p) \/ Raise(p) \/ Kill(p)
      PROVE  OneStarts' /\ LockNamesHolder' /\ TakenWhenFree'
  <2>1. CASE Launch(p)
    <3>1. pc'[p] = "read" /\ Others(p) /\ lock' = lock
      BY <1>0, <2>1, Moved DEF Launch, Places
    <3>2. \A q \in Procs : ~Starting(q)
      BY <2>1 DEF Launch
    <3> QED
      BY <3>1, <3>2
  <2>2. CASE ReadMeta(p)
    <3>1. pc'[p] \in {"idle", "check"} /\ Others(p) /\ lock' = lock
      BY <1>0, <2>2, Moved DEF ReadMeta, Places
    <3> QED
      BY <2>2, <3>1 DEF ReadMeta
  <2>3. CASE CheckLock(p)
    <3>1. /\ pc[p] = "check" /\ Others(p) /\ lock' = lock
          /\ \/ pc'[p] = "idle"
             \/ pc'[p] = "take" /\ ~Refused(p)
      BY <1>0, <2>3, Moved DEF CheckLock, Places
    <3>2. CASE pc'[p] = "idle"
      BY <3>1, <3>2
    <3>3. CASE pc'[p] = "take" /\ ~Refused(p)
      <4>1. \A q \in Procs : ~Holding(q)
        BY <3>1, <3>3 DEF Refused, Alive
      <4> QED
        BY <3>1, <3>3, <4>1
    <3> QED
      BY <3>1, <3>2, <3>3
  <2>4. CASE TakeLock(p)
    <3>1. pc[p] = "take" /\ pc'[p] = "reopen" /\ Others(p) /\ lock' = p
      BY <1>0, <2>4, Moved DEF TakeLock, Places
    <3> QED
      BY <3>1
  <2>5. CASE Reopen(p)
    <3>1. pc[p] = "reopen" /\ pc'[p] = "work" /\ Others(p) /\ lock' = lock
      BY <1>0, <2>5, Moved DEF Reopen, Places
    <3> QED
      BY <3>1
  <2>6. CASE CompleteCycle(p)
    BY <2>6 DEF CompleteCycle
  <2>7. CASE MarkFinished(p) \/ Raise(p)
    <3>1. pc[p] = "work" /\ pc'[p] = "release" /\ Others(p) /\ lock' = lock
      BY <1>0, <2>7, Moved DEF MarkFinished, Raise, Places
    <3> QED
      BY <3>1
  <2>8. CASE ReleaseLock(p)
    <3>1. /\ pc[p] = "release" /\ pc'[p] = "idle" /\ Others(p)
          /\ lock' = NoProc
      BY <1>0, <2>8, Moved DEF ReleaseLock, Places
    <3>2. \A q \in Procs \ {p} : ~Holding(q)
      BY <3>1
    <3> QED
      BY <3>1, <3>2
  <2>9. CASE LoadFails(p) \/ Kill(p)
    <3>1. pc'[p] \in {"idle", "none"} /\ Others(p) /\ lock' = lock
      BY <1>0, <2>9, Moved DEF LoadFails, Kill, Places
    <3> QED
      BY <3>1
  <2> QED
    BY <1>2, <2>1, <2>2, <2>3, <2>4, <2>5, <2>6, <2>7, <2>8, <2>9 DEF DriverStep
<1> QED
  BY <1>1, <1>2 DEF Next

(* run.json, the lock file and every process stay well-formed, whoever     *)
(* starts, dies or is forced, and also when drivers start at once.         *)
THEOREM LockTypeCorrect == Spec => []TypeOK
<1>1. Init => TypeOK
  BY InitLockInv DEF LockInv
<1> QED
  BY <1>1, NextTypeOK, PTL DEF Spec

(* Drivers that are started one at a time exclude each other: two of them  *)
(* never work on one run, whatever dies, raises or is forced, and however  *)
(* many processes there are.                                               *)
THEOREM LockExcludes ==
  ASSUME OneAtATime
  PROVE  Spec => []MutualExclusion
<1>1. Init => LockInv
  BY InitLockInv
<1>2. LockInv /\ [Next]_vars => LockInv'
  BY NextLockInv
<1>3. LockInv => MutualExclusion
  BY DEF LockInv, LockNamesHolder, Holding, MutualExclusion, Working
<1> QED
  BY <1>1, <1>2, <1>3, PTL DEF Spec

(* The lock file names the driver at work for as long as it works: nobody  *)
(* removes or replaces it.                                                 *)
THEOREM LockIsHeld ==
  ASSUME OneAtATime
  PROVE  Spec => []HolderWorks
<1>1. Init => LockInv
  BY InitLockInv
<1>2. LockInv /\ [Next]_vars => LockInv'
  BY NextLockInv
<1>3. LockInv => HolderWorks
  BY DEF LockInv, LockNamesHolder, Holding, HolderWorks, Working
<1> QED
  BY <1>1, <1>2, <1>3, PTL DEF Spec
=============================================================================
