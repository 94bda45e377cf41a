# A TLA+ model of the research engine

The engine takes a research question and works on it in *cycles* until an
evaluator finds the question settled, or a guard ends the run; then it
challenges its own findings and writes a report.  One `driver.py` process owns
one directory `runs/<id>/` and keeps its whole state there, so that it may be
killed at any moment and resumed later.  These modules model that loop, the
files it lives on, the sessions it calls and the process that starts and
resumes it; they check them with TLC on small instances, and prove the most
important of their properties with TLAPS for every value of the constants.

## The system

| component | state it keeps | operations | talks to |
|---|---|---|---|
| driver loop, `driver.py` | the local `cycle` and `before`; everything else on disk | `_drive`, `_finish`, `_advance_to_depth`, `_tripped_breaker`, `_verify_phase` | every session, by calls; the run files |
| run files, `src/runspace.py`, `src/state.py` | `run.json`, `PLAN.md`, `open_questions.yaml`, `findings/`, `verdicts/`, `sources.json`, `ledger.json`, `REPORT.md`, the lock file | `create`, `resume`, `complete_cycle`, `note_read_outage`, `set_wave`, `mark_finishing`, `mark_finished`, `write_verdict`, `latest_verdict`, `state_hash` | the driver and all sessions share it |
| question queue, `src/sessions/common.py`, `worker.py` | `open_questions.yaml` | pick targets, claim, answer, fragment, block | saved whole by every session |
| research pipeline, `src/sessions/pipeline.py` | one coroutine per question of the batch; in-memory reads | select URLs, read, register sources, draft a finding, apply the outcome | reader, read cache, search tools |
| evaluator and final gate, `src/sessions/evaluator.py` | `verdicts/cycle-N[-final].yaml` | close, retire, open questions; pass or fail | questions, findings |
| depth wave, `src/sessions/depth.py` | questions with `created_by = depth` | seed deeper questions from the best findings | questions, findings |
| initializer, `src/sessions/initializer.py` | `PLAN.md` | plan and seed questions | questions |
| verifier, `src/sessions/verifier.py` | a verdict and a note in each finding | try to refute the load-bearing findings with other pages | findings, read cache |
| synthesizer, `src/sessions/synthesizer.py` | `REPORT.md` | draft, correct, neutralize, and check citations | findings, sources |
| session spawn and ledger, `src/sessions/base.py`, `src/ledger.py` | `ledger.json` | spawn a model session, time out, retry, fall back, charge | the model endpoints |
| reader and read cache, `src/sessions/reader.py`, `read_cache.py` | reads in flight, digests and text hashes in memory | fetch, coalesce concurrent reads, skip mirrors | pipelines of a batch, verifier |
| launcher, `src/launcher.py` | the count of its resumes | start `driver.main` in its own process, resume the run with the flags of its launch | the driver |
| web interface and command line, `src/webui/`, `src/cli.py` | `.env` | launch, save a key, render the files of a run | launcher |
| settings, `src/settings.py` | none | lay bundles, presets and options over `config.yaml` | driver |
| tools, profiles, stub sessions, evaluation harness | none of a run's | search and fetch; prompts; canned sessions; scoring of finished runs | |

What makes each of them hard, and what it must get right:

* **Driver loop.** It may die between any two writes, and the resumed loop
  sees only the files.  It must end, with a report that belongs to the reason
  recorded, never conclude without the gate, never lose or repeat work.
* **Run files.** Each file is written atomically, but a step of the loop
  writes several.  The order of the writes decides what a crash leaves.
* **Question queue.** Several pipelines of one batch and several sessions
  rewrite the one list.  Resolved questions must stay so, orphans of a crash
  must be picked up again, the cap must hold, no question may be worked on for
  ever.
* **Pipelines.** They share the registry of sources across three awaits, meet
  in the same pages, end in any order, and any of them may fail while the
  others succeed.  They must agree on the ids of pages and cite only what they
  have read.
* **Evaluator and gate.** Their verdicts are files; a pass with an open question
  must be overridden, and a verdict left by a crash must not conclude a run.
* **Depth wave.** Seeding and the flip of the wave are two writes.
* **Verification and report.** A wave cut short by the budget or a crash must
  have spent itself on the riskiest findings, and a resumed one must keep what
  was judged.  Two loops of corrections around a ladder of samples must end,
  and a report must not outlive the verdicts it was written from.
* **Session spawn and ledger.** Concurrent sessions settle entries of one list;
  retries, fallback and rerolls multiply.
* **Read cache.** Several readers of one URL, of which any may fail or be
  cancelled while the others wait for it.
* **Lock, launcher and settings.** Two drivers started on one run; a supervisor
  that resumes a run whose settings are rebuilt from its flags.

`PROJECT.json` lists the hazards one by one, at their lines, with the properties
that are about them.

## The modules

| module | models |
|---|---|
| `QuestionQueue` | the questions file: picking, claiming, answering, blocking, fragmenting, judging, retiring, seeding, as operators on the list |
| `ResearchRun` | one run, from its creation to its report: the driver, the files, the sessions, crashes, resumes and forced resumes |
| `RunLifecycle` | the abstract run: running, committed to a reason, reported, finished |
| `FinishPhase` | the end of a run opened up: the verification wave, the drafts, the citation pass |
| `SourceBatch` | the pipelines of one worker session over the registry of sources |
| `UrlSelection` | which links of a question's result lists are read, as operators |
| `SessionLedger` | concurrent model sessions: attempts, the fallback endpoint, single-shot rerolls, and the ledger entries of all of them |
| `AccountBook` | what the ledger promises: lines opened, settled once, kept |
| `ReadCache` | concurrent reads of pages over the cache of one process, from one event loop to the next |
| `RunLock` | several processes that start drivers on one run: the lock file and each driver's copy of `run.json` |
| `Supervisor` | the launch of a run, the supervisor that resumes it, and the keys of `.env` |
| `Posture` | from a command line to the settings of a run, as operators |
| `*_proofs` | lemmas and theorems about the module of that name |
| `MC*` | the module of that name for TLC, with one `.cfg` for each run |

`ResearchRun` extends `QuestionQueue`, `SourceBatch` extends `UrlSelection`, and
`Supervisor` extends `Posture`.  `ResearchRun` and `FinishPhase` both implement
`RunLifecycle`, so that the three steps `MarkFinishing`, `Synthesize`,
`MarkFinished` of the one and the whole of the other meet in the same promise.
`SessionLedger` implements `AccountBook`.  The others are joined by what
one takes for an action of the other: a pipeline of `SourceBatch` is one
outcome in `ResearchRun`, a driver at work is one state in `RunLock` and
`Supervisor`, a session is one action in all of them.

### ResearchRun and QuestionQueue

The variables come in three groups.  `meta`, `planned`, `questions`,
`findings`, `verdicts`, `report` and `exceeded` are files: `run.json`,
the presence of `PLAN.md`, `open_questions.yaml`, the questions that have a
file in `findings/`, the verdict files, the reason for which `REPORT.md` was
last written, and which of the two limits (budget, wall clock) the ledger and
the clock have reached.  They survive the process.  `pc`, `cycle`, `before`,
`targets`, `reads`, `answering`, `outcome` and `why` are the driver process;
`Idle` clears them.  `gates`, `stops` and `reopens` only count, and no action
reads them except to bound a run.

`pc` names the place in `_drive` or in the session it called, and each action
is the code from one file write to the next: that is the finest grain at which
a crash can be told apart, since every write is an atomic rename.

| action | code |
|---|---|
| `Drive`, `PlanQuestions`, `WritePlan`, `Top` | `_drive` up to its loop, the initializer, the head of the loop |
| `Pick`, `WriteFinding`, `SaveAnswer`, `Fragment`, `GiveUp`, `Fail`, `EndWork` | the worker session and the outcomes of its pipelines; several targets may be in hand, and their outcomes interleave |
| `AfterWork` | the breakers and the read-outage guard after the worker |
| `Evaluate`, `RecordVerdict`, `ReadVerdict` | the per-cycle evaluator and the branch of the driver on its verdict (`AcceptPass`, `Exhaust`, `CloseCycle`) |
| `FinalEvaluate`, `RecordFinalVerdict`, `BumpFinalEval`, `ReadFinalVerdict` | the final gate |
| `AdvanceToDepth`, `SetWave` | the DEPTH wave |
| `MarkFinishing`, `Synthesize`, `MarkFinished` | `_finish`, in three steps |
| `Stop` | the process is killed, or a session raises and `main` returns 1 |
| `Resume`, `ForceResume` | `Runspace.resume` |

What is abstracted: the text of a question, a finding or a verdict; the
priority of a question and the near-duplicate test (any question of the right
status may be picked, any number of the new ones may survive); the depth cap
of the tree (a parent may become a leaf at any time, as `Fragment` with no
children); the ranking of findings for the DEPTH wave (any findings may be
the best).  The agentic worker and the pipeline worker end in the same
`_apply_*` steps; the model follows the pipeline.  One driver at a time works
on a run.

### RunLifecycle

What a reader of `run.json` and `REPORT.md` may rely on: a run commits to a
reason while it runs, writes a report for that reason, and is finished only
after that.

### FinishPhase

`shape`, `marks`, `notes`, `phase`, `report` and `over` are files: the parts of
a finding that the wave looks at, the verdict and the note it writes into it,
`run.json`, `REPORT.md`, and whether the ledger has reached the budget.  `pc`,
`left`, `trial`, `round`, `rung` and `body` are the process.  `evidence`,
`challenged`, `drafts` and `stops` are bookkeeping that no action reads.

| action | code |
|---|---|
| `MarkFinishing`, `Seal` | the two ends of `driver._finish` |
| `StartWave`, `Challenge`, `WriteMark`, `EndWave` | `driver._verify_phase` and `verifier.py`: the candidates in the order of their risk, one challenge and one write at a time, while the budget lasts |
| `Draft` | one sample of the synthesizer: `Defective` is the ladder of `_spawn_report` (three samples, then the fallback endpoint), `Cited` the corrections of `_synthesize_factual`, whose last round is one more than `Attempts` |
| `Publish`, `Reject` | the citation pass of `synthesizer.run`, which writes the report or raises |
| `LadderFails`, `Refused`, `Kill` | the ends of a process that no code of its own wants |
| `Resume` | `--resume`, perhaps with a larger budget |

A citation is either *known* or *invented*: whether the registry has its id is
all that the gates ask.  A page is a model value, and a finding has the set of
pages it cites.

### SourceBatch and UrlSelection

`sources`, `status`, `blocks`, `cites` and `streak` are files; the other
variables, up to the bookkeeping, are the local state of each pipeline.  An
action is what happens between two awaits, since the pipelines share one event
loop: `Plan` loads the registry, `Search` takes what came back and selects,
`Read` is one of the reads it gathers, which come back in any order, `GiveUp`
and `Register` are what follows the last of them up to the compose session,
`Resolve` and `Decline` what follows that one, `Raise` an exception of either.
`EndBatch` is the aggregation of `run_pipeline_batch`, `Kill` the death of the
process.  The ids of a page are its title's slug and a number, as
`build_engine_sources` forms them.

`cached` is what the process has kept of each page: the verdict of the first
reader session on it, which every later pipeline is given, whatever its own
question (`reader.py:269`; a pipeline that waits for a read in flight gets the
same output, `reader.py:284`).  `Outcomes` says so, and that only a page not yet
read can come back in more than one way.  A failure is not kept.  `ReadCache`
has the table of reads in flight that makes this sharing correct.

Two variables that no action reads record what a finding may rest on: `judged`,
the pages that some reader session of the run has found useful, and `received`,
those that came back as useful to a pipeline of each question.
`FindingsAreRead` says that a citation is both, and registered.  It does *not*
say that the page was judged for the finding's own question: two questions that
meet in one page share one verdict, and one digest, made for the first of them.

`UrlSelection` is `select_urls`: the stable sort (`Ranking`, the pairs of links
of which one comes before the other), the rounds over hosts (`Round`,
`Breadth`), the list that they make (`Schedule`), the filters (`Admissible`)
and the loop that applies them (`Selection`).  An order is a set of pairs
rather than a sorted sequence, so that it can be reasoned about; `InOrder`
makes the sequence.  `NoHostStarved` says from the outside what the schedule is
for.

### SessionLedger and AccountBook

One call is `run_role_session_with_fallback_async`, or, when it is in `Shots`,
the loop `_single_shot_with_retry` around it, or, when it is in `Reads`,
`run_role_session_async` alone.  `Open` records the provisional entry, `Send`
starts the query, and `End` is everything from its answer to the next `await`:
settling the entry and deciding on another attempt, the fallback, another
roll, or the return.  The code between two awaits is one action because the
calls share one event loop.  `Ledger` saves each change before it returns, so
that the list in memory and the file are one variable.  `Cancel` is the
teardown of the loop, `Kill` the death of the process.  An outcome stands for
a class of errors; prices and tokens are left out.

### ReadCache

One call is one `read_source`.  `HitCompleted`, `JoinInFlight` and `Own` are
its head, which looks at the completed reads and at the table of reads in
flight without an await; `Fetched`, `SessionReturns` and `ReadFails` are the
code after each await; `Cancel` is a cancellation of the task.  A future is
named after the call that owns it.  `NextLoop` is the end of one
`asyncio.run` and the start of another: the table of reads in flight goes, the
completed reads and the text hashes stay.  `mode` says whether the calls of
the loop are those of pipelines or of the verifier, which bypasses the
completed reads.  A page is a `Url` (after normalisation) and says any of
`Texts` each time it is fetched.

### RunLock

`ResearchRun` has one driver at a time on its run; `RunLock` is about what
makes that so.  `meta` and `lock` are files, `copy` is each driver's `run.meta`
as it read it, and `pc` follows `Runspace.resume` from its reading of
`run.json` to `release_lock`.  A process may start one driver after another,
as the launcher does, so that the pid left in the lock file may be alive
although no driver is at work under it.  A cycle of work is one action here:
`CompleteCycle` writes the copy back whole.  `OneAtATime` says whether drivers
are started one after another or may be started together.

### Supervisor and Posture

`ReadEnv` and `ReplaceEnv` are the two halves of `keys_api.set_key`, each
request in a thread of its own.  `Launch` is the web form, `Command` a line
typed by the operator, `Probe` the trial of the resume's arguments before
anything is spent.  `CreateRun`, `LaunchFails`, `TakeUp`, `ResumeFails`,
`DriverReturns` and `DriverRaises` are `driver.main` as its caller sees it,
which is the supervisor itself: `launcher.py` calls it in its own process.
`Return`, `GiveUp` and `Resume` are the loop of `supervise`;
`FinishedElsewhere` is a resume by hand.

A command line is a sequence of tokens.  `Posture` says which ones
`parse_args` accepts (`Accepts`), which of their tokens `supervise` passes on
to a resume (`ResumeFlags`), and what the layers of `load_settings` make of
them (`Settings`, `WellConfigured`).  Two options are left out: `--lens`, whose
uses add up instead of replacing each other, and `--config`, which starts from
another file; the launcher passes both on like any other option with a value.

## The runs

The bounds of the models are named constants: `MaxSeeds` and `MaxNew` for the
questions one session adds, `MaxStops`, `MaxKills`, `MaxBreaks` for early ends
of a process, `MaxReopens` and `MaxForced` for forced resumes, `MaxCycles` of
`SourceBatch` and `LastCycle` for cycles, `MaxLoops` for event loops, `Shapes`
and `Commands` for what is enumerated.  The other constants are settings of
the program, with small values.

| run | asks | bounds |
|---|---|---|
| `sequential` | A finished run has its report; a conclusive run earned it; answers are on disk; orphans fit a batch; firings of the gate are bounded; the run converges by itself | one question at a time, two seeds, two questions, two early stops, a budget that may run out, one firing of the gate, a `MaxCycles` of 8 that is never reached |
| `waves` | Nothing is deepened twice; the cap holds; resolved questions stay; every run ends with a report; the driver implements `RunLifecycle` with its fairness | two at a time, one seed, both waves, one stop, one forced resume, three cycles, one stalled cycle ends a run |
| `finish` | Verdicts are earned and kept; the riskiest findings come first; a finished run's report is current; the drafts are bounded; the finish implements `RunLifecycle`; the run gets its report unless the citation pass refuses it for good | three findings of three shapes, three pages, two challenges a wave, two attempts and a fallback, one early stop |
| `sources` | Findings cite what some session found useful and their own pipeline received; the selection is broad; the outage streak counts cycles; the ids of pages are agreed on; a batch ends | two pipelines, five pages of which two share a title and three a host, two cycles, one kill |
| `sessions_calls` | Each session settles its own entry; every session sent has an entry; the ledger implements `AccountBook` | a role's call and a read at once, one attempt on each endpoint, killed once and restarted |
| `sessions_shot` | A single-shot call takes the fallback only after an endpoint error, through all its rolls; its sessions are bounded | one call, two attempts, two rolls, a fallback |
| `reads` | The table of reads in flight is exact; no page and no text is digested twice; nothing of the verifier is kept as a read; a completed read stays; every call returns | three calls, two urls, two texts, two loops |
| `lock` | Two drivers never work at once; the lock file names the one that does; a lock left behind never keeps the run from being finished | three processes, three errors or kills, one forced resume, drivers started one after another |
| `console` | Every driver works under the settings of its launch; a line that could not be resumed is refused before there is a run; the supervisor returns what has finished, and ends | all command lines of up to three tokens out of six, two longer ones, the web form's with and without its two caps; one request that saves a key; two resumes |

The bounds suffice for the cases that matter.  Two questions are enough for one
to be answered while the other is blocked, orphaned, closed or retired; two
stops allow a crash during the recovery from a crash; the cap of two questions
is met and refused; a gate with one firing is both asked and used up; a second
wave is entered and left.  With three findings and a cap of two, a wave leaves
one out, and a resumed one takes it; the three shapes have an order of slugs
that is neither that of risk nor that of confidence, a finding under the
confidence floor, a community finding, and a run with nothing factual in it;
two attempts give a correction, a last one and the extra one.  Two pipelines
that meet in one page, over pages that share a title, are what ids can collide
in; three pages of one host against one of another are what a host can be
starved by; two cycles let an outage follow an outage.  Three processes allow
one to die with the lock, one to take it over and one to be refused.  Two
attempts and two rolls let each limit be met and each kind of outcome follow
each other; with two calls at once one attempt suffices, since the fallback
opens a second session as a retry does.  Three calls allow an owner, a waiter
and a latecomer; two urls with two texts allow mirrors, and a page that
changes; the second loop may read as the verifier does.  Three tokens make
every kind of line the parser distinguishes: a missing value, a value that is
an option, a question besides a file; the longer lines have layers that
override each other, and a preset for a role that the file does not have.

`TypeOK` of each module is not an invariant of a run: it is proved.

Three runs refute a sentence of the code or its documentation.  Each is a
behaviour of the program:

| run | sentence | what happens |
|---|---|---|
| `reads_mirrored` | "the content was already read once this run; nothing dropped silently", `reader.py:321` | the text's hash is recorded before the session that reads it; when that session fails, every other url with the text is skipped and remembered as not useful |
| `crashed` | "auto-resume on ANY non-finished exit (session reap, crash, network blip)", `launcher.py:8` | the driver runs in the supervisor's process; an exception that is neither an `EngineError` nor a `SystemExit` ends both, with resumes left |
| `poisoned` | "a finished run must yield a report", `synthesizer.py:284`, and `:247` | a verification note with an unknown `[src-...]` id is saved in its finding and quoted in the report; the citation pass raises, now and on every resume, since the finding is never judged again |

The models have more behaviours that a reader of the code may not expect, and
that no property forbids:

* A verdict of the gate that a crash left behind outranks the one just written
  for the same cycle (`runspace.py:370`), so that a run may end as exhausted
  although the evaluator of its re-run cycle passed.  `ConclusiveIsEarned`
  shows that the other direction, a run that is conclusive on a stale pass with
  an open question, does not happen.  It takes a stale pass of the right cycle
  and tier for an earned one.
* A page that two questions meet in is useful, or not, to both as the first of
  them had it (`reader.py:256-262`, `:269`): the second may cite it on that
  verdict, or pass it over.
* After a crash between seeding and the flip of the wave, the wave is still
  breadth; the DEPTH questions are then answered as breadth questions, and
  their findings may be deepened in turn (`depth.py:37` says that the crash
  "can't duplicate work").  No parent is deepened twice, though
  (`DeepenedOnce`).
* The guard against read outages says that `--resume` will pick up where the
  run left off (`driver.py:380`), but it ends the run by `_finish`, and
  `--resume` refuses a finished run (`runspace.py:166`).
* A crash between the gate's session and `bump_final_eval` lets the gate fire
  once more than `max_final_evaluations` (`GatesBoundedByStops`), and a cycle
  that is run again after a crash notes its read outage again.
* Two drivers started together both find no lock and both work, hence
  `OneAtATime`; and a plain resume that read `run.json` just before the other
  driver finished sets the status back to running from its stale copy.
* A missing structured output is meant to be resampled by "the caller's reroll
  logic" (`base.py:534`), but the reroll loop knows two messages, and this is
  neither (`pipeline.py:236`).
* A pipeline that failed after registering its pages excludes them when its
  question is retried (`pipeline.py:477`, `:717`): they are in the registry now.
* The report without claims is also the end of a ladder that was used up in the
  extra round (`Defective`), whatever the earlier drafts cited.
* Two requests that save a key at the same time may lose one (`keys_api.py:74`):
  each replaces the file by its own copy.

### Fairness

`FairSpec` of `ResearchRun` assumes two things.  *Weak fairness of
`DriverStep`*: a driver process that is not stopped goes on; every session it
waits for has a timeout (`base.py`), so a call returns or raises, and raising
is `Stop`.  *Weak fairness of `Resume`*: somebody resumes a run that stopped
early, which is what `launcher.supervise` does.  `Stop` and `ForceResume` are
not fair, and their number is bounded; without that bound a run that is always
killed would never end.  No fairness is assumed of a single outcome: no
question need ever be answered and no evaluator need ever pass.

`FinishPhase` assumes the same: weak fairness of `ProcessStep` and of `Resume`,
none of `Kill`, `LadderFails` and `Refused`, whose number `MaxStops` bounds.
No sample need ever be clean.  `SourceBatch` assumes weak fairness of
`BatchStep`: the event loop runs what is ready, and every search, read and
session has a wall ceiling; no page need be readable.  A new batch
(`StartBatch`) is not assumed.  `Supervisor` assumes weak fairness of
`SupervisorStep`: the driver it called returns or raises at some time, which is
`EventuallyFinished` and the ceilings of the sessions, and the loop goes on.

`RunLock` assumes weak fairness of a driver's steps (it runs in one thread and
waits for nobody), strong fairness of `Launch` for a process that is there but
has no driver (`launcher.supervise` tries again), and weak fairness of
somebody launching a driver when no process is left.  `Raise`, `LoadFails` and
`Kill` are not fair and bounded.  `SessionLedger` needs no fairness: that a
call ends is the safety property `SessionsBounded` together with the wall
ceiling of each session.  `ReadCache` assumes weak fairness of each call's own
steps: a fetch has a timeout, a session its wall ceiling, and the loop runs a
task whose future is settled.  It is not assumed that a read succeeds, nor that
one is cancelled.

## What is proved

Each theorem holds for every value of the constants that satisfies the named
assumption of its module (positive sizes, booleans where the settings are
booleans, finite sets of pages and calls), and for any number of crashes.

`ResearchRun`, under `QueueAssumption` and `RunAssumption`:

* `TypeCorrect`.  `TypeOK` is not inductive.  `TypeInv` adds `InHand` (questions
  are in hand only inside the worker session, and the one being answered
  already has its finding) and `PlanFirst` (there are no findings before
  `PLAN.md` exists, since the initializer may replace the list).
* `AnswersCorrect`.  The lemma `QuestionEdits` sums up all steps: a step claims
  a batch, or saves the answer of a finding that exists, or leaves nothing
  newly answered or in progress.
* `OrphansCorrect`.  A claim happens only to a batch that contains the orphans
  or is made of them (`PicksLemma`).
* `FinishCorrect` and `ImplementsLifecycleSafety`, along the invariant
  `Ending`, which ties the place in `_finish` to what `run.json` and
  `REPORT.md` say there.  Each step maps to a step of `RunLifecycle` or to a
  stutter.
* `GatesCorrect`.  The invariant `GateAccount` says which firing is not yet
  counted in `run.json` and which stop pays for it.
* `ConclusiveCorrect`.  `VerdictInv` says which cycle the driver is in at each
  place and which verdicts that cycle may have, those left by a crash
  included; with it, `EarnedInv` carries what a pass has earned from the
  branch on the verdict, where the reason is chosen, to the finished run, over
  finishes that are interrupted and entered again.
* `ResolvedStayCorrect`, `DeepenedOnceCorrect`, `CapCorrect`.  The questions in
  hand are in progress (`InWork`), so no outcome touches a resolved one; and
  what a step may do to the list comes down to two relations, `Kept` (resolved
  questions are untouched, none is dropped, authors and parents stay) and
  `Grew` (a number of new questions, none of them of the DEPTH wave, is
  appended; `GrewWithinCap` adds that there was room for them).  `CapCorrect`
  assumes `MaxSeeds <= MaxQuestions`: the initializer does not hold its plan against `max_questions` (`seed_target`, which its
  prompt states, is far below it).
* `ConvergenceCorrect`, the longest of the proofs.  Every change of the list
  `Follows` the one before, and a change that brings a question on (`Moved`)
  spends one of the steps that each question has: its claims, in a parallel
  batch, and its blocked attempts up to retirement.  `Paid` is what the steps
  spent so far pay for, `Credit` the cycles that the stall guard lets pass
  before the next one, `Excuses` one for each early stop and forced resume.
  `Converging` says at every place of the driver that the completed cycles are
  covered by the three, and during a cycle what its completion will be paid
  with.  The proof corrected the bound: with several questions in a batch a
  question can keep the run going for longer than its attempts, since a
  pipeline that fails claims it without counting one, and each such step is
  followed by cycles that the stall guard lets pass.

`FinishPhase`, under `FinishAssumption`:

* `VerdictsEarned`, from `MarksInv`: the candidates that are left are factual
  and unverified, and a trial at hand rests on pages that are not the
  finding's own.  `VerdictsFinal` follows: only a candidate is ever marked.
* `ReportsAreCurrent`, from `ReportInv`: between `Publish` and `Seal` no mark
  changes, so the report that is sealed is of the marks that are on disk.
  `FinishImplementsLifecycle` is the refinement on the same invariant.
* `RiskiestComeFirst`, from `RiskInv`: `Before` is a strict order on the
  findings; the candidates are closed under it among those eligible and not
  challenged (`WaveClosed`, by counting those before a finding); the next one
  challenged is the first of them.
* `DraftsAreBounded`, from `DraftInv`: the samples paid for are at most those of
  the rounds that are over and of the rungs below this one (`DraftAccount`);
  the arithmetic of the product is the lemma `Ladder`.
* `FinishTypeCorrect`.

`SourceBatch`, under `SelectionAssumption` and `BatchAssumption`:

* `FindingsCiteWhatWasRead`, from `ReadInv` and `BatchInv`: what the process has
  kept as useful some session found so (`UsefulJudged`), so what a pipeline
  receives was judged, for its question or a sibling's (`UsefulReceived`); and
  its menu consists of pages it received that are registered (`MenuRead`).
* `StreakIsOfCycles`, from `StreakInv`: a batch under way has a cycle that the
  streak does not count yet.
* `SelectionsAreBroad`, for all result lists, scores, caps and budgets.
  `Ranking` and `Breadth` are strict orders (`RankingOrders`, `BreadthOrders`),
  so that the schedule lists every candidate, those of an earlier round first
  (`ScheduleLists`).  Along the loop of `Selection`, `Sifted` holds: a link that
  is kept comes after links none of which could be added any more.  A second
  page of a host comes after the first one of every other, whose rejection is
  then one of the reasons `NoHostStarved` allows.
* `IdsStayAgreed`, from `BatchInv`: the numbers of the ids are found against the
  registry as it is when the pipeline writes to it, one page after the other
  (`NumberedAgrees`), and there is always a free one (`FreeNumberIsFree`).
* `TypeCorrect`, from the same invariant: only links that were candidates are
  read, and no source needs a number beyond that of the pages there are.

`SessionLedger`, with any finite set of calls, any number of attempts and
kills:

* `SessionsAreLedgered`, `EntriesAreOwned` and `LedgerTypeCorrect`, from
  `LedgerInv`: the type invariant, the ownership of open entries, and that the
  entries outnumber the sessions sent by those opened and not sent yet.
* `FallbackIsBought`, from `FallbackInv`: a call that is about to use the
  fallback has an endpoint error on the primary with no parse defect since
  (`Bought`), and the entry of a session at work is the newest of its call.
  This is about the layer of `run_role_session_with_fallback_async` and the
  rolls around it.  A malformed output does reach a fallback elsewhere: as a
  transient failure when the CLI itself gives up on it (`base.py:400-410`), and
  in the synthesizer's own ladder (`base.py:166-172`), which is in `FinishPhase`.
* `SessionsAreBounded`, from `CountInv`: a call has at most the entries of its
  dead processes, of the rolls that are over and of the tries of the roll at
  hand, on the primary and on the fallback.
* `LedgerIsABook`: each step opens a line, settles an open one, or leaves the
  book alone; settling needs `OwnEntry`, since only it says that the line is
  still open.

`ReadCache`, with any calls, urls and texts, and pages that change:

* `CacheTypeCorrect`, `ReadsAreShared`, `PagesDigestedOnce`,
  `VerifierLeavesNoDigest` and `ReadsStay`, from `CacheInv`.  It adds that a
  session's text was noted under its url, that a breadth loop never works on a
  url that has been read, and that a digested text keeps its first url: the
  first two make a new digest the only one of its url, the third the only one
  of its text.

`RunLock`, with any set of processes and any bounds:

* `LockExcludes` and `LockIsHeld`, under the assumption `OneAtATime`: without it
  TLC finds two drivers at work after ten steps.  `LockInv` adds that one
  process at most is starting, that the lock names whoever is between taking
  and releasing it, and that nobody is when a driver is about to take it.
* `LockTypeCorrect`, which needs no such assumption.

`Supervisor`, under `SupervisorAssumption` and `PostureAssumption`, for any set of
command lines:

* `DriversAreAsAsked`, from `Asked`: the supervisor's arguments are a line that
  the parser and the settings have accepted before a driver works.  The parser
  and the launcher read that line each in a pass of its own, and the theorem
  rests on their agreement: what an option has for its value is no option
  (`OptionsAreNotTaken`), so the launcher keeps every option and, as the next
  token it keeps, its value (`OptionIsKept`, `AscendingLists`); the last use of
  an option in the resume's line is then its last use in the launch's, with the
  same value (`ResumeGivesTheSame`), and the layers of both are the same
  (`ResumeLayers`).  A token that looks like an option is no value of one, as in
  `argparse`; this part of `PostureAssumption` is what the agreement needs.  The
  rest of the assumption says that the settings which options name or switch on
  are among those of the file, and that no layer comes after `--gate`,
  `--verify-depth` or a `--max-*` option and sets what they name
  (`NamedLast`).
* `NothingSpentOnRejected` and `OnlyFinishedReturned`, from `LoopInv`: past the
  probe the arguments of a resume are known to be accepted, and the loop is
  entered only with a run.
* `SupervisorTypeCorrect`.

Where a theorem is about what a loop computes, the loop is a recursive function
of the model, and the proof an induction on the number of its steps: the set of
numbers for which the statement holds has zero and all successors
(`SetInduction`, which `LeastElement` gives).

Only model-checked is what must eventually happen: `EventuallyFinished` of
`ResearchRun` and of `RunLock`, `ReportedUnlessPoisoned`, `BatchEnds`,
`EveryCallReturns`, `SupervisorEnds`, and the liveness part of
`ImplementsLifecycle` of `ResearchRun`.  Liveness under fairness and `ENABLED`
are out of the prover's reach.

## What is not modelled

* *Search and capture tools* (`src/tools/`): they call external services and
  parse what comes back.  What they can do to a run, a list of links, a page's
  text or a failure, is an input of `SourceBatch` and `ReadCache`.
* *Profiles and lenses*: prompts and tables.  The hosts a profile blocks or
  prefers are constants of `UrlSelection`.
* *Offline stub sessions*: canned outputs that take the steps of the real ones.
* *Evaluation harness* (`evals/`, `experiments/`): scripts that score finished
  runs or replay single prompts, and write nothing of a run.
* *The pages of the web interface* and the dispatch of the command line: they
  read the files of runs.  The distilling of a question is one session without
  a state.
* *Validation of `config.yaml`*: types and ranges of settings.  `WellConfigured`
  has the two checks that depend on the command line.
* *Prices and tokens*: the ledger's sums are one flag, whether a limit has been
  reached.  A first-party session that times out is settled at 0 USD
  (`base.py:356`), which the flag cannot show.
* *Process ids that are used again* by the operating system (`runspace.py:223`):
  a resume is then refused while the unrelated process lives.
