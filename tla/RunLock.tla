------------------------------- MODULE RunLock -------------------------------
(***************************************************************************)
(* Several processes start a driver on the same run: Runspace.resume, the  *)
(* lock file it takes over or respects, and run.json, of which every       *)
(* driver keeps a copy that it writes back whole.  A process is known by   *)
(* its pid.  It may start one driver after another, as launcher.supervise  *)
(* does: the pid in the lock file then outlives the driver.                *)
(***************************************************************************)
EXTENDS Naturals

CONSTANTS
  Procs,       \* processes, that is, pids
  NoProc,      \* the lock file does not exist
  LastCycle,   \* bound: the cycle in which a run finishes
  MaxBreaks,   \* bound: errors and kills
  MaxForced,   \* bound: resumes with --force-resume
  OneAtATime   \* is a driver started only when no other one is starting?

ASSUME LockAssumption ==
  /\ NoProc \notin Procs
  /\ {LastCycle, MaxBreaks, MaxForced} \subseteq Nat
  /\ OneAtATime \in BOOLEAN

VARIABLES
  meta,     \* run.json: its status and last completed cycle
  lock,     \* the pid in the lock file, or NoProc
  pc,       \* where each process is; "none" when it does not exist
  copy,     \* run.meta of each driver
  forcing,  \* was each driver started with --force-resume?
  breaks,   \* errors and kills so far
  forced    \* forced resumes so far

vars == <<meta, lock, pc, copy, forcing, breaks, forced>>

Meta == [status: {"running", "finished"}, last: 0..LastCycle]

Fresh == [status |-> "running", last |-> 0]

Init ==
  /\ meta = Fresh
  /\ lock = NoProc
  /\ pc = [p \in Procs |-> "none"]
  /\ copy = [p \in Procs |-> Fresh]
  /\ forcing = [p \in Procs |-> FALSE]
  /\ breaks = 0 /\ forced = 0

Starting(p) == pc[p] \in {"read", "check", "take", "reopen"}
Working(p) == pc[p] = "work"
Alive(p) == pc[p] # "none"

Goto(p, place) == pc' = [pc EXCEPT ![p] = place]

-----------------------------------------------------------------------------
(* Starting a driver.                                                      *)

Launch(p) ==
  /\ pc[p] \in {"none", "idle"}
  /\ OneAtATime => \A q \in Procs : ~Starting(q)
  /\ \/ forcing' = [forcing EXCEPT ![p] = FALSE] /\ UNCHANGED forced
     \/ /\ forced < MaxForced
        /\ forced' = forced + 1
        /\ forcing' = [forcing EXCEPT ![p] = TRUE]
  /\ Goto(p, "read")
  /\ UNCHANGED <<meta, lock, copy, breaks>>

(* Runspace.resume reads run.json before it asks for the lock.             *)
ReadMeta(p) ==
  /\ pc[p] = "read"
  /\ copy' = [copy EXCEPT ![p] = meta]
  /\ IF meta.status = "finished" /\ ~forcing[p]
       THEN Goto(p, "idle") ELSE Goto(p, "check")
  /\ UNCHANGED <<meta, lock, forcing, breaks, forced>>

(* Mutant: a pid in the lock file is enough to refuse.                     *)
RefusedByAnyPid(p) == lock # NoProc

(* Mutant: the holder is not looked at.                                    *)
RefusedNever(p) == FALSE

(* A live holder that is not this process.                                 *)
Refused(p) == lock \in Procs \ {p} /\ Alive(lock)

(* Mutant: a driver that is refused cleans up like one that was not.       *)
CheckLockReleasing(p) ==
  /\ pc[p] = "check"
  /\ Goto(p, IF Refused(p) THEN "release" ELSE "take")
  /\ UNCHANGED <<meta, lock, copy, forcing, breaks, forced>>

CheckLock(p) ==
  /\ pc[p] = "check"
  /\ Goto(p, IF Refused(p) THEN "idle" ELSE "take")
  /\ UNCHANGED <<meta, lock, copy, forcing, breaks, forced>>

(* _acquire_lock writes its pid, whatever the file holds by now.           *)
TakeLock(p) ==
  /\ pc[p] = "take"
  /\ lock' = p
  /\ Goto(p, "reopen")
  /\ UNCHANGED <<meta, copy, forcing, breaks, forced>>

(* A forced resume writes its re-opened copy; then everything is loaded.   *)
Reopen(p) ==
  /\ pc[p] = "reopen"
  /\ IF forcing[p]
       THEN /\ copy' = [copy EXCEPT ![p].status = "running"]
            /\ meta' = copy'[p]
       ELSE UNCHANGED <<meta, copy>>
  /\ Goto(p, "work")
  /\ UNCHANGED <<lock, forcing, breaks, forced>>

(* An error after the lock was taken and before _drive: main returns       *)
(* without releasing it.                                                   *)
LoadFails(p) ==
  /\ pc[p] = "reopen"
  /\ breaks < MaxBreaks
  /\ breaks' = breaks + 1
  /\ Goto(p, "idle")
  /\ UNCHANGED <<meta, lock, copy, forcing, forced>>

-----------------------------------------------------------------------------
(* A driver at work.                                                       *)

(* complete_cycle: the next cycle of the copy, written whole.              *)
CompleteCycle(p) ==
  /\ pc[p] = "work" /\ copy[p].last < LastCycle
  /\ copy' = [copy EXCEPT ![p].last = @ + 1]
  /\ meta' = copy'[p]
  /\ UNCHANGED <<lock, pc, forcing, breaks, forced>>

MarkFinished(p) ==
  /\ pc[p] = "work" /\ copy[p].last >= LastCycle
  /\ copy' = [copy EXCEPT ![p].status = "finished"]
  /\ meta' = copy'[p]
  /\ Goto(p, "release")
  /\ UNCHANGED <<lock, forcing, breaks, forced>>

(* _drive raises: main releases the lock as well.                          *)
Raise(p) ==
  /\ pc[p] = "work"
  /\ breaks < MaxBreaks
  /\ breaks' = breaks + 1
  /\ Goto(p, "release")
  /\ UNCHANGED <<meta, lock, copy, forcing, forced>>

(* release_lock removes the file, whoever's pid is in it.                  *)
ReleaseLock(p) ==
  /\ pc[p] = "release"
  /\ lock' = NoProc
  /\ Goto(p, "idle")
  /\ UNCHANGED <<meta, copy, forcing, breaks, forced>>

(* The process is killed: its lock file stays.                             *)
Kill(p) ==
  /\ pc[p] # "none"
  /\ breaks < MaxBreaks
  /\ breaks' = breaks + 1
  /\ Goto(p, "none")
  /\ UNCHANGED <<meta, lock, copy, forcing, forced>>

DriverStep(p) ==
  \/ ReadMeta(p) \/ CheckLock(p) \/ TakeLock(p) \/ Reopen(p)
  \/ CompleteCycle(p) \/ MarkFinished(p) \/ ReleaseLock(p)

Next ==
  \E p \in Procs :
    Launch(p) \/ DriverStep(p) \/ LoadFails(p) \/ Raise(p) \/ Kill(p)

Spec == Init /\ [][Next]_vars

(* A driver that started goes on, a process that is still there tries      *)
(* again, and somebody starts a process when there is none.                *)
Fairness ==
  /\ \A p \in Procs : WF_vars(DriverStep(p))
  /\ \A p \in Procs : SF_vars(pc[p] = "idle" /\ Launch(p))
  /\ WF_vars(\E p \in Procs : Launch(p))

FairSpec == Spec /\ Fairness

-----------------------------------------------------------------------------
Places == {"none", "idle", "read", "check", "take", "reopen", "work", "release"}

(* run.json, the lock file and every process are well-formed.              *)
TypeOK ==
  /\ meta \in Meta
  /\ lock \in Procs \cup {NoProc}
  /\ pc \in [Procs -> Places]
  /\ copy \in [Procs -> Meta]
  /\ forcing \in [Procs -> BOOLEAN]
  /\ {breaks, forced} \subseteq Nat

(* Two drivers never work on one run, provided that nobody else starts one *)
(* between the look at the lock file and the write to it.                  *)
MutualExclusion ==
  \A p, q \in Procs : (Working(p) /\ Working(q)) => p = q

(* A driver at work owns the lock file: nobody has removed or replaced it. *)
HolderWorks == \A p \in Procs : Working(p) => lock = p

(* A run whose driver died, or left its lock behind, is finished by        *)
(* whoever tries again.                                                    *)
EventuallyFinished == <>(meta.status = "finished")
=============================================================================
