------------------------------ MODULE SourceBatch ------------------------------
(***************************************************************************)
(* The pipelines of one worker session over the registry of sources:       *)
(* pipeline._run_pipeline_async for each target of a batch, in one event   *)
(* loop, and the aggregation of run_pipeline_batch.  A pipeline gives up   *)
(* control only at an await: the query session, the searches, each of its  *)
(* reads, and the compose session.  Between two awaits nothing else runs,  *)
(* so each of the steps below is what happens between two awaits.          *)
(*                                                                         *)
(* A page that has been read in this process is not read again: whoever    *)
(* asks for it next is given what the reader said of it when it was first  *)
(* asked for, whatever the question was then.                              *)
(*                                                                         *)
(* ResearchRun takes a pipeline for one outcome on one question; here is   *)
(* what it does to sources.json, to the citations of the finding and to    *)
(* the read-outage streak.                                                 *)
(***************************************************************************)
EXTENDS UrlSelection

CONSTANTS
  Questions,  \* the questions of the run
  Title,      \* Title[p]: the slug of the title a reader gives to p
  Searches,   \* Searches[q]: result lists the searches for q may come to
  Relevances, \* what the reranker may say of the links
  MaxBlocks,  \* question_tree.retire_blocked_after
  MaxCycles,  \* bound: cycles
  MaxKills    \* bound: kills of the process

ASSUME BatchAssumption ==
  /\ \A q \in Questions : Searches[q] \subseteq Seq(Seq(Links))
  /\ Relevances \subseteq [Links -> Int]
  /\ DOMAIN Title = Pages
  /\ {MaxBlocks, MaxCycles, MaxKills} \subseteq Nat

VARIABLES
  (* files of the run *)
  sources,   \* sources.json
  status,    \* of each question
  blocks,    \* blocked_count of each question
  cites,     \* pages cited by the finding of each question
  streak,    \* run.json: read_outage_streak
  (* the process: what the reader said of each page, or "unread" *)
  cached,
  (* the pipelines of the session *)
  pc,        \* where each pipeline is
  known,     \* pages registered when the pipeline was planned
  offer,     \* the result lists of its searches
  selected,  \* the candidates it has selected, in order
  awaited,   \* the selected pages that have not come back
  useful,    \* pages that came back as useful, in their order
  failed,    \* number of reads that failed
  menu,      \* sources it offers to the compose session
  (* bookkeeping of the model, read by no action *)
  judged,    \* pages that some reader session has found useful
  received,  \* pages that came back as useful to a pipeline of each question
  fed,       \* the last cycle to end with a page fetched
  cycles, kills

files == <<sources, status, blocks, cites, streak>>
plans == <<known, offer, selected>>
reads == <<awaited, useful, failed>>
pipes == <<pc, plans, reads, menu>>
history == <<judged, received>>
counts == <<fed, cycles, kills>>
vars == <<files, cached, pipes, history, counts>>

Ids == {Title[p] : p \in Pages} \X (1..Cardinality(Pages))
Source == [id: Ids, page: Pages]

PagesOf(srcs) == {s.page : s \in srcs}

Init ==
  /\ sources = {}
  /\ status = [q \in Questions |-> "open"]
  /\ blocks = [q \in Questions |-> 0]
  /\ cites = [q \in Questions |-> {}]
  /\ streak = 0
  /\ cached = [p \in Pages |-> "unread"]
  /\ pc = [q \in Questions |-> "idle"]
  /\ known = [q \in Questions |-> {}]
  /\ offer = [q \in Questions |-> <<>>]
  /\ selected = [q \in Questions |-> <<>>]
  /\ awaited = [q \in Questions |-> {}]
  /\ useful = [q \in Questions |-> <<>>]
  /\ failed = [q \in Questions |-> 0]
  /\ menu = [q \in Questions |-> {}]
  /\ judged = {} /\ received = [q \in Questions |-> {}]
  /\ fed = 0 /\ cycles = 0 /\ kills = 0

-----------------------------------------------------------------------------
(* The session.                                                            *)

Waiting(q) == status[q] # "resolved" /\ blocks[q] < MaxBlocks

(* A cycle's worker claims every question that is left and starts a        *)
(* pipeline for each, in one gather.                                       *)
StartBatch ==
  /\ \A q \in Questions : pc[q] = "idle"
  /\ \E q \in Questions : Waiting(q)
  /\ cycles < MaxCycles
  /\ cycles' = cycles + 1
  /\ status' = [q \in Questions |-> IF Waiting(q) THEN "in_progress" ELSE status[q]]
  /\ pc' = [q \in Questions |-> IF Waiting(q) THEN "plan" ELSE "idle"]
  /\ UNCHANGED <<sources, blocks, cites, streak, cached, plans, reads, menu, history,
                 fed, kills>>

(* Step 1: the registry is loaded before the query session is awaited.     *)
Plan(q) ==
  /\ pc[q] = "plan"
  /\ known' = [known EXCEPT ![q] = PagesOf(sources)]
  /\ pc' = [pc EXCEPT ![q] = "search"]
  /\ UNCHANGED <<files, cached, offer, selected, reads, menu, history, counts>>

(* What select_urls makes of the lists a search may come to. *)
Selections ==
  {[lists |-> lists, registry |-> registry, kept |-> Selection(lists, registry, rel)] :
     lists \in UNION {Searches[q] : q \in Questions},
     registry \in SUBSET Pages, rel \in Relevances}

(* Steps 2 and 3: providers fail one by one, and the reranker too.         *)
Search(q) ==
  /\ pc[q] = "search"
  /\ \E s \in Selections :
       /\ s.lists \in Searches[q] /\ s.registry = known[q]
       /\ offer' = [offer EXCEPT ![q] = s.lists]
       /\ selected' = [selected EXCEPT ![q] = s.kept]
       /\ awaited' = [awaited EXCEPT ![q] = Chosen(s.lists, s.kept)]
  /\ pc' = [pc EXCEPT ![q] = "read"]
  /\ UNCHANGED <<files, cached, known, useful, failed, menu, history, counts>>

(* What read_source may return for page p: the output there is, made for   *)
(* whichever question asked first, or that of a session of its own.        *)
Outcomes(p) ==
  IF cached[p] = "unread" THEN {"useful", "useless", "failed"} ELSE {cached[p]}

(* A failure is not kept, and the page is read again for the next to ask.  *)
Settled(p, outcome) == [cached EXCEPT ![p] = IF outcome = "failed" THEN @ ELSE outcome]

(* Page p comes back to the pipeline of q, useful, useless or as a failure. *)
ComesBack(q, p, outcome) ==
  /\ awaited' = [awaited EXCEPT ![q] = @ \ {p}]
  /\ cached' = Settled(p, outcome)
  /\ failed' = [failed EXCEPT ![q] = IF outcome = "failed" THEN @ + 1 ELSE @]
  /\ useful' = [useful EXCEPT ![q] = IF outcome = "useful" THEN Append(@, p) ELSE @]
  /\ judged' = IF outcome = "useful" /\ cached[p] = "unread"
                 THEN judged \cup {p} ELSE judged
  /\ received' = [received EXCEPT ![q] =
                    IF outcome = "useful" THEN @ \cup {p} ELSE @]

(* Step 4: the selected pages are read at once, and come back one by one.  *)
Read(q) ==
  /\ pc[q] = "read"
  /\ \E p \in awaited[q] : \E outcome \in Outcomes(p) : ComesBack(q, p, outcome)
  /\ UNCHANGED <<files, pc, plans, menu, counts>>

(* Every page it has selected came back. *)
Gathered(q) == pc[q] = "read" /\ awaited[q] = {}

(* What its reads say of an outage. *)
Observed(q) ==
  IF selected[q] = <<>> THEN "nothing"
  ELSE IF failed[q] = Len(selected[q]) THEN "outage" ELSE "read"

Return(q) == pc' = [pc EXCEPT ![q] = "returned"]

(* Nothing useful was read: the engine blocks the question, and counts it  *)
(* double when three pages or more were read in vain.                      *)
GiveUp(q) ==
  /\ Gathered(q) /\ useful[q] = <<>>
  /\ status' = [status EXCEPT ![q] = "open"]
  /\ blocks' = [blocks EXCEPT ![q] = @ +
                  IF Len(selected[q]) >= failed[q] + 3 THEN 2 ELSE 1]
  /\ Return(q)
  /\ UNCHANGED <<sources, cites, streak, cached, plans, reads, menu, history, counts>>

-----------------------------------------------------------------------------
(* Step 5: build_engine_sources and merge_sources.                         *)

FreeNumber(title, srcs) ==
  CHOOSE n \in 1..(Cardinality(srcs) + 1) :
    /\ \A s \in srcs : s.id # <<title, n>>
    /\ \A m \in 1..(n - 1) : \E s \in srcs : s.id = <<title, m>>

(* A page that has an id keeps it; another one gets the first that is free *)
(* among those with its title.                                             *)
WithPage(srcs, p) ==
  IF p \in PagesOf(srcs) THEN srcs
  ELSE srcs \cup {[id |-> <<Title[p], FreeNumber(Title[p], srcs)>>, page |-> p]}

(* The registry that the pages of s, in their order, extend reg to.        *)
Numbered(reg, s) ==
  LET upTo[n \in 0..Len(s)] ==
        IF n = 0 THEN reg ELSE WithPage(upTo[n - 1], s[n])
  IN  upTo[Len(s)]

(* The sources array: one for each page read, with its id.                 *)
EngineSources(reg, s) ==
  {src \in Numbered(reg, s) : \E i \in DOMAIN s : s[i] = src.page}

(* merge_sources refuses an id that is taken by another page.              *)
Collides(proposed) ==
  \E s \in sources, t \in proposed : s.id = t.id /\ s.page # t.page

Merge(q, proposed) ==
  IF Collides(proposed)
    THEN /\ pc' = [pc EXCEPT ![q] = "raised"]
         /\ UNCHANGED <<sources, menu>>
    ELSE /\ sources' = sources \cup
              {t \in proposed : \A s \in sources : s.id # t.id}
         /\ menu' = [menu EXCEPT ![q] = proposed]
         /\ pc' = [pc EXCEPT ![q] = "compose"]

(* Mutant: ids are numbered against the registry of step 1.                *)
RegisterStale(q) ==
  /\ Gathered(q) /\ useful[q] # <<>>
  /\ Merge(q, EngineSources({s \in sources : s.page \in known[q]}, useful[q]))
  /\ UNCHANGED <<status, blocks, cites, streak, cached, plans, reads, history, counts>>

(* Ids are numbered against the registry as it is now. *)
Register(q) ==
  /\ Gathered(q) /\ useful[q] # <<>>
  /\ Merge(q, EngineSources(sources, useful[q]))
  /\ UNCHANGED <<status, blocks, cites, streak, cached, plans, reads, history, counts>>

-----------------------------------------------------------------------------
(* Steps 6 and 7: compose, and apply what it returns.                      *)

(* Mutant: a finding may cite any source of the registry. *)
ResolveFromRegistry(q) ==
  /\ pc[q] = "compose"
  /\ \E S \in SUBSET sources \ {{}} : cites' = [cites EXCEPT ![q] = PagesOf(S)]
  /\ status' = [status EXCEPT ![q] = "resolved"]
  /\ Return(q)
  /\ UNCHANGED <<sources, blocks, streak, cached, plans, reads, menu, history, counts>>

(* A finding cites ids of the menu, and at least one. *)
Resolve(q) ==
  /\ pc[q] = "compose"
  /\ \E S \in SUBSET menu[q] \ {{}} : cites' = [cites EXCEPT ![q] = PagesOf(S)]
  /\ status' = [status EXCEPT ![q] = "resolved"]
  /\ Return(q)
  /\ UNCHANGED <<sources, blocks, streak, cached, plans, reads, menu, history, counts>>

(* Children take over (they are not followed here), or the session blocks. *)
Decline(q) ==
  /\ pc[q] = "compose"
  /\ \/ status' = [status EXCEPT ![q] = "resolved"] /\ UNCHANGED blocks
     \/ /\ status' = [status EXCEPT ![q] = "open"]
        /\ blocks' = [blocks EXCEPT ![q] = @ + 1]
  /\ Return(q)
  /\ UNCHANGED <<sources, cites, streak, cached, plans, reads, menu, history, counts>>

(* A session fails, its output stays unusable, or the finding has no       *)
(* citation: the pipeline raises, and its question stays in_progress.      *)
Raise(q) ==
  /\ pc[q] \in {"search", "compose"}
  /\ pc' = [pc EXCEPT ![q] = "raised"]
  /\ UNCHANGED <<files, cached, plans, reads, menu, history, counts>>

-----------------------------------------------------------------------------
Over(q) == pc[q] \in {"idle", "returned", "raised"}

Idle ==
  /\ pc' = [q \in Questions |-> "idle"]
  /\ known' = [q \in Questions |-> {}]
  /\ offer' = [q \in Questions |-> <<>>]
  /\ selected' = [q \in Questions |-> <<>>]
  /\ awaited' = [q \in Questions |-> {}]
  /\ useful' = [q \in Questions |-> <<>>]
  /\ failed' = [q \in Questions |-> 0]
  /\ menu' = [q \in Questions |-> {}]

(* What the pipelines that returned have seen, the neutral ones left out.  *)
Observations == {Observed(q) : q \in {r \in Questions : pc[r] = "returned"}} \ {"nothing"}

(* Mutant: every pipeline notes what it has seen itself.                   *)
NotedEach ==
  IF Observations = {} THEN streak
  ELSE IF Observations = {"outage"}
    THEN streak + Cardinality({q \in Questions : pc[q] = "returned"})
  ELSE 0

(* note_read_outage(all(observations)), once for the cycle. *)
Noted ==
  IF Observations = {} THEN streak
  ELSE IF Observations = {"outage"} THEN streak + 1
  ELSE 0

(* Mutant: one exception keeps the batch from ending. *)
EndBatchAllReturned ==
  /\ \A q \in Questions : Over(q) /\ pc[q] # "raised"
  /\ \E q \in Questions : pc[q] # "idle"
  /\ streak' = Noted
  /\ fed' = IF "read" \in Observations THEN cycles ELSE fed
  /\ Idle
  /\ UNCHANGED <<sources, status, blocks, cites, cached, history, cycles, kills>>

(* gather returns when every pipeline has returned or raised.              *)
EndBatch ==
  /\ \A q \in Questions : Over(q)
  /\ \E q \in Questions : pc[q] # "idle"
  /\ streak' = Noted
  /\ fed' = IF "read" \in Observations THEN cycles ELSE fed
  /\ Idle
  /\ UNCHANGED <<sources, status, blocks, cites, cached, history, cycles, kills>>

(* What the process has read is lost with it.                              *)
Kill ==
  /\ \E q \in Questions : pc[q] # "idle"
  /\ kills < MaxKills
  /\ kills' = kills + 1
  /\ Idle
  /\ cached' = [p \in Pages |-> "unread"]
  /\ UNCHANGED <<files, history, fed, cycles>>

PipelineStep(q) ==
  \/ Plan(q) \/ Search(q) \/ Read(q) \/ GiveUp(q) \/ Register(q)
  \/ Resolve(q) \/ Decline(q) \/ Raise(q)

BatchStep == (\E q \in Questions : PipelineStep(q)) \/ EndBatch

Rest ==
  /\ \A q \in Questions : pc[q] = "idle"
  /\ cycles = MaxCycles \/ \A q \in Questions : ~Waiting(q)
  /\ UNCHANGED vars

Next == StartBatch \/ BatchStep \/ Kill \/ Rest

Spec == Init /\ [][Next]_vars

(* The event loop runs what is ready; calls have wall ceilings.            *)
FairSpec == Spec /\ WF_vars(BatchStep)

-----------------------------------------------------------------------------
(* The files and every pipeline are well-formed. *)
TypeOK ==
  /\ sources \subseteq Source
  /\ status \in [Questions -> {"open", "in_progress", "resolved"}]
  /\ blocks \in [Questions -> Nat]
  /\ cites \in [Questions -> SUBSET Pages]
  /\ streak \in Nat
  /\ pc \in [Questions -> {"idle", "plan", "search", "read", "compose",
                           "returned", "raised"}]
  /\ cached \in [Pages -> {"unread", "useful", "useless"}]
  /\ {known, awaited, received} \subseteq [Questions -> SUBSET Pages]
  /\ judged \subseteq Pages
  /\ \A q \in Questions : useful[q] \in Seq(Pages)
  /\ failed \in [Questions -> Nat]
  /\ menu \in [Questions -> SUBSET Source]
  /\ {fed, cycles, kills} \subseteq Nat

(* A selection takes the breadth of what the searches found.               *)
SelectionIsBroad ==
  \A q \in Questions :
    pc[q] = "read" => NoHostStarved(offer[q], known[q], selected[q])

OneIdPerPage ==
  \A s, t \in sources : s.id = t.id <=> s.page = t.page

(* Pipelines that read the same page at once, or pages with one title,     *)
(* register one id for each page and one page for each id, and no pipeline *)
(* loses its work to what another one registered meanwhile; what an id     *)
(* stands for never changes.                                               *)
IdsAreAgreed ==
  [][/\ OneIdPerPage' /\ sources \subseteq sources'
     /\ \A q \in Questions : pc[q] = "read" => pc'[q] # "raised"]_vars

(* A finding cites registered pages that a reader session of the run found *)
(* useful and that came back as useful to a pipeline of its own question:  *)
(* what a sibling or a dead process has registered is never cited unread,  *)
(* though it may be cited on a verdict given for a sibling's question.     *)
FindingsAreRead ==
  \A q \in Questions :
    cites[q] \subseteq judged \cap received[q] \cap PagesOf(sources)

(* The streak counts cycles, however many pipelines a cycle has, and only  *)
(* those since a cycle in which some page could be fetched.                *)
StreakCountsCycles == streak <= cycles - fed

(* Every batch comes to its end, whatever its pipelines raise.             *)
BatchEnds == []<>(\A q \in Questions : pc[q] = "idle")
=============================================================================
