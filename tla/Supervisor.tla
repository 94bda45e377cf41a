------------------------------- MODULE Supervisor ------------------------------
(***************************************************************************)
(* How a run is started and kept going: keys_api.set_key over .env,        *)
(* launch_api.launch, and launcher.main and supervise, which run           *)
(* driver.main in their own process and resume the run with the flags of   *)
(* its launch until run.json says that it has finished.                    *)
(*                                                                         *)
(* The driver is taken for what a supervisor sees of it; RunLock and       *)
(* ResearchRun model the inside.                                           *)
(***************************************************************************)
EXTENDS Posture

CONSTANTS
  Keys,        \* names of KEY_ALLOWLIST
  Handlers,    \* requests that set a key, each served by a thread of its own
  KeyOf,       \* KeyOf[h]: the key that request h sets
  CheapKey,    \* "DEEPSEEK_API_KEY"
  Needs(_),    \* keys that the sessions under some settings ask for
  Commands,    \* command lines that the operator may type
  Caps,        \* budget caps that the web form may send, as tokens
  Walls,       \* wall-clock caps that it may send
  File,        \* the file that the web interface writes the question to
  MaxAttempts  \* resumes a supervisor tries

ASSUME SupervisorAssumption ==
  /\ KeyOf \in [Handlers -> Keys]
  /\ Commands \subseteq Seq(STRING)
  /\ MaxAttempts \in Nat

VARIABLES
  env,       \* .env: the names that have a value
  handler,   \* where each request is
  snapshot,  \* .env as each request has read it
  sup,       \* where the supervisor is
  argv,      \* the arguments it was given
  attempt,   \* resumes so far
  rid,       \* the run id the driver has left in its file
  status,    \* run.json: status of the run, or "none"
  settings,  \* those of the driver at work, else those of the last one
  secrets    \* the keys that driver has

web == <<env, handler, snapshot>>
run == <<rid, status, settings, secrets>>
vars == <<web, sup, argv, attempt, run>>

Init ==
  /\ env \in SUBSET Keys
  /\ handler = [h \in Handlers |-> "idle"]
  /\ snapshot = [h \in Handlers |-> {}]
  /\ sup = "idle" /\ argv = <<>> /\ attempt = 0
  /\ rid = "none" /\ status = "none"
  /\ settings = Base /\ secrets = {}

-----------------------------------------------------------------------------
(* Keys: read the file, and put a new one in its place.                    *)

ReadEnv(h) ==
  /\ handler[h] = "idle"
  /\ handler' = [handler EXCEPT ![h] = "read"]
  /\ snapshot' = [snapshot EXCEPT ![h] = env]
  /\ UNCHANGED <<env, sup, argv, attempt, run>>

ReplaceEnv(h) ==
  /\ handler[h] = "read"
  /\ env' = snapshot[h] \cup {KeyOf[h]}
  /\ handler' = [handler EXCEPT ![h] = "done"]
  /\ UNCHANGED <<snapshot, sup, argv, attempt, run>>

-----------------------------------------------------------------------------
(* Launch.                                                                 *)

PresetFlags(preset, backend) ==
  (IF backend = "cheap" THEN <<"--cheap", "--gate", "opus">> ELSE <<>>)
    \o (IF preset = "comprehensive" THEN <<"--comprehensive", "--verify">> ELSE <<>>)

DriverArgs(preset, cap, wall, backend) ==
  <<QuestionFile, File>> \o PresetFlags(preset, backend)
    \o (IF cap = Unset THEN <<>> ELSE <<"--max-budget-usd", cap>>)
    \o (IF wall = Unset THEN <<>> ELSE <<"--max-wall-hours", wall>>)

(* The web interface picks the backend by the key that .env has now; what  *)
(* the parser refuses is a 422.                                            *)
Launch ==
  /\ sup = "idle"
  /\ \E preset \in {"quick", "comprehensive"},
        cap \in Caps \cup {Unset}, wall \in Walls \cup {Unset} :
       LET backend == IF CheapKey \in env THEN "cheap" ELSE "anthropic"
           args == DriverArgs(preset, cap, wall, backend)
       IN  /\ Accepts(args)
           /\ argv' = args
  /\ sup' = "probe"
  /\ UNCHANGED <<web, attempt, run>>

Command ==
  /\ sup = "idle"
  /\ argv' \in Commands
  /\ sup' = "probe"
  /\ UNCHANGED <<web, attempt, run>>

ResumeArgs == <<ResumeFlag, "run">> \o ResumeFlags(argv)

(* Mutant: the flags are not tried before the launch. *)
ProbeNothing ==
  /\ sup = "probe"
  /\ sup' = "launch"
  /\ UNCHANGED <<web, argv, attempt, run>>

(* The arguments of every later resume are tried before anything is spent. *)
Probe ==
  /\ sup = "probe"
  /\ \E args \in {ResumeArgs} : sup' = IF Accepts(args) THEN "launch" ELSE "rejected"
  /\ UNCHANGED <<web, argv, attempt, run>>

-----------------------------------------------------------------------------
(* The driver, in the process of the supervisor.                           *)

(* It has loaded its settings and the secrets they name. *)
Loads(args) ==
  /\ settings' = Settings(args)
  /\ secrets' = env

(* The launch comes to a run; its id is in the file before any session. *)
CreateRun ==
  /\ sup = "launch"
  /\ Accepts(argv) /\ WellConfigured(argv)
  /\ Loads(argv)
  /\ rid' = "run" /\ status' = "running"
  /\ sup' = "driving"
  /\ UNCHANGED <<web, argv, attempt>>

(* The parser exits, or main returns before it has created a run: the      *)
(* settings are refused, no search backend answers, the profile is unknown.*)
LaunchFails ==
  /\ sup = "launch"
  /\ sup' = IF Accepts(argv) THEN "failed" ELSE "rejected"
  /\ UNCHANGED <<web, argv, attempt, run>>

TakeUp ==
  /\ sup = "resume" /\ status = "running"
  /\ \E args \in {ResumeArgs} : Accepts(args) /\ WellConfigured(args) /\ Loads(args)
  /\ sup' = "driving"
  /\ UNCHANGED <<web, argv, attempt, rid, status>>

(* The parser exits, or main returns: the settings are refused, the run is *)
(* held by another driver or has been finished by it.                      *)
ResumeFails ==
  /\ sup = "resume"
  /\ \E args \in {ResumeArgs} : sup' = IF Accepts(args) THEN "check" ELSE "rejected"
  /\ UNCHANGED <<web, argv, attempt, run>>

(* A run that has all the keys it needs may finish; any driver may return  *)
(* with an error, which leaves the run as it is.                           *)
DriverReturns ==
  /\ sup = "driving"
  /\ \/ /\ status = "running" /\ Needs(settings) \subseteq secrets
        /\ status' = "finished"
     \/ UNCHANGED status
  /\ sup' = "check"
  /\ UNCHANGED <<web, argv, attempt, rid, settings, secrets>>

(* main catches EngineError alone, supervise SystemExit alone. *)
DriverRaises ==
  /\ sup \in {"launch", "resume", "driving"}
  /\ sup' = "dead"
  /\ UNCHANGED <<web, argv, attempt, run>>

-----------------------------------------------------------------------------
(* The loop of supervise.                                                  *)

(* Mutant: the last resume is taken at its word. *)
GiveUpTrusting ==
  /\ sup = "check" /\ attempt = MaxAttempts
  /\ sup' = "done"
  /\ UNCHANGED <<web, argv, attempt, run>>

GiveUp ==
  /\ sup = "check" /\ attempt = MaxAttempts /\ status # "finished"
  /\ sup' = "failed"
  /\ UNCHANGED <<web, argv, attempt, run>>

Return ==
  /\ sup = "check" /\ status = "finished"
  /\ sup' = "done"
  /\ UNCHANGED <<web, argv, attempt, run>>

(* Mutant: a resume that does not finish the run is not counted. *)
ResumeUncounted ==
  /\ sup = "check" /\ status # "finished" /\ attempt < MaxAttempts
  /\ sup' = "resume"
  /\ UNCHANGED <<web, argv, attempt, run>>

Resume ==
  /\ sup = "check" /\ status # "finished" /\ attempt < MaxAttempts
  /\ attempt' = attempt + 1
  /\ sup' = "resume"
  /\ UNCHANGED <<web, argv, run>>

(* Somebody resumes the run by hand, and it finishes. *)
FinishedElsewhere ==
  /\ status = "running" /\ sup # "driving"
  /\ status' = "finished"
  /\ UNCHANGED <<web, sup, argv, attempt, rid, settings, secrets>>

-----------------------------------------------------------------------------
SupervisorStep ==
  \/ DriverRaises \/ DriverReturns \/ CreateRun \/ LaunchFails
  \/ TakeUp \/ ResumeFails
  \/ Probe \/ Return \/ GiveUp \/ Resume

Ended == sup \in {"done", "failed", "rejected", "dead"}

Rest == Ended /\ UNCHANGED vars

Next ==
  \/ \E h \in Handlers : ReadEnv(h) \/ ReplaceEnv(h)
  \/ Launch \/ Command \/ SupervisorStep \/ FinishedElsewhere \/ Rest

Spec == Init /\ [][Next]_vars

(* A driver returns, by its own ceilings and breakers, and the supervisor  *)
(* goes on.                                                                *)
FairSpec == Spec /\ WF_vars(SupervisorStep)

-----------------------------------------------------------------------------
(* The files, the requests and the supervisor are well-formed. *)
TypeOK ==
  /\ env \subseteq Keys /\ secrets \subseteq Keys
  /\ handler \in [Handlers -> {"idle", "read", "done"}]
  /\ snapshot \in [Handlers -> SUBSET Keys]
  /\ sup \in {"idle", "probe", "launch", "resume", "driving", "check", "done",
              "failed", "rejected", "dead"}
  /\ attempt \in 0..MaxAttempts
  /\ rid \in {"none", "run"}
  /\ status \in {"none", "running", "finished"}

(* "run settings rebuild from flags, not from state": every driver of the  *)
(* run works under the settings that its launch was asked for, with        *)
(* nothing in them the file does not have, and what the operator said      *)
(* outright stands.                                                        *)
DrivenAsAsked ==
  sup = "driving" =>
    /\ settings = Settings(argv)
    /\ DOMAIN settings = DOMAIN Base
    /\ ExplicitWins(argv, settings)

(* A command line whose resumes would be refused is refused before a run   *)
(* is created, not at the first resume.                                    *)
RejectedBeforeSpend == sup = "rejected" => status = "none"

(* supervise returns the id of a run that has finished, never another's;   *)
(* and when it fails before a resume there is no run it has lost.          *)
ReturnsFinished ==
  /\ sup = "done" => rid = "run" /\ status = "finished"
  /\ sup = "failed" => attempt = MaxAttempts \/ status = "none"

(* A supervisor comes to an end: resumes are bounded.                      *)
SupervisorEnds == (sup = "probe") ~> Ended

(* "auto-resume on ANY non-finished exit (session reap, crash, network     *)
(* blip)": no supervisor ends with a run unfinished and resumes left.      *)
AnyExitIsResumed ==
  [][(Ended' /\ status' = "running") => attempt' = MaxAttempts]_vars
=============================================================================
