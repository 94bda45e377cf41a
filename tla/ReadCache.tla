------------------------------- MODULE ReadCache -------------------------------
(***************************************************************************)
(* Concurrent reads of pages: reader.read_source over the RunReadCache of  *)
(* the process.  The reads of one event loop share a table of reads in     *)
(* flight; the completed reads and the hashes of page texts outlive the    *)
(* loop.  The pipelines of a batch read in breadth mode, the verifier      *)
(* bypasses the completed reads.  A future is named after its owner.       *)
(***************************************************************************)
EXTENDS Naturals

CONSTANTS
  Calls,     \* reads that one event loop starts
  Urls,
  Texts,     \* what a page may say: it need not say the same at every fetch
  NoCall,    \* no read in flight
  NoUrl,     \* a text not seen yet
  NoText,    \* a call that has fetched nothing
  MaxLoops   \* bound: event loops after the first

ASSUME CacheAssumption ==
  /\ NoCall \notin Calls /\ NoUrl \notin Urls /\ NoText \notin Texts
  /\ MaxLoops \in Nat

VARIABLES
  done,      \* the completed read of each url
  first,     \* the url that was the first to carry each text
  inflight,  \* the call that owns the read in flight of each url
  future,    \* the future each call owns
  pc,        \* where each call is, or what it returned
  url,       \* the url of each call
  text,      \* what each call has fetched
  share,     \* the owner of the future each call waits for, or itself
  mode,      \* do the calls of this loop bypass the completed reads?
  loops,     \* event loops so far, after the first
  sessions   \* sessions that produced a digest (read by no action)

table == <<done, first, inflight, future>>
calls == <<pc, url, text, share>>
vars == <<table, calls, mode, loops, sessions>>

Mode == {"breadth", "verify"}

(* A digest by a session, the synthetic output for a mirror, an exception. *)
Result == {"digest", "mirror", "error", "cancelled"}

Session == [mode: Mode, url: Urls, text: Texts]

Init ==
  /\ done = [u \in Urls |-> "none"]
  /\ first = [t \in Texts |-> NoUrl]
  /\ inflight = [u \in Urls |-> NoCall]
  /\ future = [c \in Calls |-> "none"]
  /\ pc = [c \in Calls |-> "idle"]
  /\ url \in [Calls -> Urls]
  /\ text = [c \in Calls |-> NoText]
  /\ share = [c \in Calls |-> c]
  /\ mode = "breadth" /\ loops = 0
  /\ sessions = [s \in Session |-> 0]

Goto(c, place) == pc' = [pc EXCEPT ![c] = place]

Owning(c) == pc[c] \in {"fetch", "session"}

Returned(c) == pc[c] \in Result

-----------------------------------------------------------------------------
(* The head of read_source: the completed read, the read in flight, or a   *)
(* read of one's own, without an await in between.                         *)

(* Mutant: only a digest counts as a completed read.                       *)
UsableDigest(c) == mode = "breadth" /\ done[url[c]] = "digest"

Usable(c) == mode = "breadth" /\ done[url[c]] # "none"

HitCompleted(c) ==
  /\ pc[c] = "idle" /\ Usable(c)
  /\ Goto(c, done[url[c]])
  /\ UNCHANGED <<table, url, text, share, mode, loops, sessions>>

JoinInFlight(c) ==
  /\ pc[c] = "idle" /\ ~Usable(c)
  /\ inflight[url[c]] # NoCall
  /\ share' = [share EXCEPT ![c] = inflight[url[c]]]
  /\ Goto(c, "wait")
  /\ UNCHANGED <<table, url, text, mode, loops, sessions>>

Own(c) ==
  /\ pc[c] = "idle" /\ ~Usable(c)
  /\ inflight[url[c]] = NoCall
  /\ inflight' = [inflight EXCEPT ![url[c]] = c]
  /\ future' = [future EXCEPT ![c] = "pending"]
  /\ Goto(c, "fetch")
  /\ UNCHANGED <<done, first, url, text, share, mode, loops, sessions>>

-----------------------------------------------------------------------------
(* The work of an owner.                                                   *)

(* Its own future only: a newer one of the same url stays.                 *)
DropInFlight(c) ==
  inflight' = [inflight EXCEPT ![url[c]] = IF @ = c THEN NoCall ELSE @]

Release(c, result) ==
  /\ future' = [future EXCEPT ![c] = result]
  /\ DropInFlight(c)
  /\ Goto(c, result)

(* Mutant: the verifier's reads are completed reads as well.               *)
SettleAlways(c, result) ==
  /\ Release(c, result)
  /\ done' = [done EXCEPT ![url[c]] = result]

(* _settle *)
Settle(c, result) ==
  /\ Release(c, result)
  /\ done' = IF mode = "breadth" THEN [done EXCEPT ![url[c]] = result] ELSE done

(* Mutant: a failed read leaves its waiters where they are.                *)
FailAlone(c, result) ==
  /\ DropInFlight(c)
  /\ Goto(c, result)
  /\ UNCHANGED <<done, future>>

(* Mutant: only its waiters hear of a failed read, not the table.          *)
FailInPlace(c, result) ==
  /\ future' = [future EXCEPT ![c] = result]
  /\ Goto(c, result)
  /\ UNCHANGED <<done, inflight>>

Fail(c, result) == Release(c, result) /\ UNCHANGED done

(* Mutant: a mirror is looked for among the completed reads.               *)
MirrorOfCompleted(c, t) ==
  first[t] \notin {NoUrl, url[c]} /\ done[first[t]] = "digest"

(* note_content: another url has carried the text before.                  *)
Mirror(c, t) == first[t] \notin {NoUrl, url[c]}

(* The page was fetched.  A mirror needs no session. *)
Fetched(c) ==
  /\ pc[c] = "fetch"
  /\ \E t \in Texts :
       /\ text' = [text EXCEPT ![c] = t]
       /\ IF Mirror(c, t)
            THEN Settle(c, "mirror") /\ UNCHANGED first
            ELSE /\ first' = [first EXCEPT ![t] = url[c]]
                 /\ Goto(c, "session")
                 /\ UNCHANGED <<done, inflight, future>>
  /\ UNCHANGED <<url, share, mode, loops, sessions>>

SessionReturns(c) ==
  /\ pc[c] = "session"
  /\ Settle(c, "digest")
  /\ sessions' = [sessions EXCEPT
       ![[mode |-> mode, url |-> url[c], text |-> text[c]]] = @ + 1]
  /\ UNCHANGED <<first, url, text, share, mode, loops>>

(* The fetch or the session fails, or its output is refused. *)
ReadFails(c) ==
  /\ Owning(c)
  /\ Fail(c, "error")
  /\ UNCHANGED <<first, url, text, share, mode, loops, sessions>>

(* The task is cancelled.  A cancelled owner takes its waiters along; a    *)
(* cancelled waiter leaves the shared future alone.                        *)
Cancel(c) ==
  /\ \/ Owning(c) /\ Fail(c, "cancelled")
     \/ pc[c] = "wait" /\ Goto(c, "cancelled") /\ UNCHANGED <<done, inflight, future>>
  /\ UNCHANGED <<first, url, text, share, mode, loops, sessions>>

(* A waiter gets what the owner got. *)
Wake(c) ==
  /\ pc[c] = "wait"
  /\ future[share[c]] # "pending"
  /\ Goto(c, future[share[c]])
  /\ UNCHANGED <<table, url, text, share, mode, loops, sessions>>

-----------------------------------------------------------------------------
(* Every task of a loop has ended when asyncio.run returns; the first      *)
(* claim of the next loop drops the table of reads in flight.              *)
NextLoop ==
  /\ \A c \in Calls : Returned(c)
  /\ loops < MaxLoops
  /\ loops' = loops + 1
  /\ mode' \in Mode
  /\ inflight' = [u \in Urls |-> NoCall]
  /\ future' = [c \in Calls |-> "none"]
  /\ pc' = [c \in Calls |-> "idle"]
  /\ url' \in [Calls -> Urls]
  /\ text' = [c \in Calls |-> NoText]
  /\ share' = [c \in Calls |-> c]
  /\ UNCHANGED <<done, first, sessions>>

AllReturned == (\A c \in Calls : Returned(c)) /\ UNCHANGED vars

Start(c) == HitCompleted(c) \/ JoinInFlight(c) \/ Own(c)

Proceed(c) ==
  Start(c) \/ Fetched(c) \/ SessionReturns(c) \/ ReadFails(c) \/ Wake(c)

Next ==
  \/ \E c \in Calls : Proceed(c) \/ Cancel(c)
  \/ NextLoop
  \/ AllReturned

Spec == Init /\ [][Next]_vars

(* A fetch and a session have timeouts, and the loop runs a waiter whose   *)
(* future is settled.                                                      *)
FairSpec == Spec /\ \A c \in Calls : WF_vars(Proceed(c))

-----------------------------------------------------------------------------
(* The cache and every call are well-formed.                               *)
TypeOK ==
  /\ done \in [Urls -> {"none", "digest", "mirror"}]
  /\ first \in [Texts -> Urls \cup {NoUrl}]
  /\ inflight \in [Urls -> Calls \cup {NoCall}]
  /\ future \in [Calls -> {"none", "pending"} \cup Result]
  /\ pc \in [Calls -> {"idle", "fetch", "session", "wait"} \cup Result]
  /\ url \in [Calls -> Urls]
  /\ text \in [Calls -> Texts \cup {NoText}]
  /\ share \in [Calls -> Calls]
  /\ mode \in Mode /\ loops \in Nat
  /\ sessions \in [Session -> Nat]

(* A page is fetched by one call at a time, and the table of reads in      *)
(* flight holds exactly the calls at work: nobody can join a dead read,    *)
(* and nobody can miss a live one.                                         *)
TableIsLive ==
  \A u \in Urls, c \in Calls : inflight[u] = c <=> (Owning(c) /\ url[c] = u)

(* A page is digested once: the breadth sessions that produced a digest    *)
(* were over different urls and over different texts, however the reads of *)
(* all pipelines, and the verifier's between them, interleave and fail.    *)
DigestedOnce ==
  \A s, r \in Session :
    (/\ s.mode = "breadth" /\ r.mode = "breadth"
     /\ sessions[s] > 0 /\ sessions[r] > 0)
      => /\ sessions[s] = 1
         /\ s # r => (s.url # r.url /\ s.text # r.text)

(* A completed read stays what the pipelines use: no later read, and no    *)
(* read of the verifier, replaces it.                                      *)
CompletedStays ==
  [][\A u \in Urls : done[u] # "none" => done'[u] = done[u]]_vars

(* What a pipeline gets from the completed reads, a pipeline put there:    *)
(* a digest is there if and only if a breadth session made it.             *)
DigestsAreBreadth ==
  \A u \in Urls :
    done[u] = "digest" <=>
      \E s \in Session : s.mode = "breadth" /\ s.url = u /\ sessions[s] > 0

(* Every call returns: no waiter hangs, whatever becomes of the owner.     *)
EveryCallReturns == \A c \in Calls : []<>Returned(c)

(* "duplicate content of already-read {first_url}: the content was already *)
(* read once this run; nothing dropped silently": where a mirror was       *)
(* skipped, a session has digested the text, or is at it.                  *)
MirrorsWereRead ==
  \A c \in Calls :
    (pc[c] = "mirror" /\ text[c] # NoText) =>
      \/ \E s \in Session : s.text = text[c] /\ sessions[s] > 0
      \/ \E d \in Calls : pc[d] = "session" /\ text[d] = text[c]
=============================================================================
