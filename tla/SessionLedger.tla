----------------------------- MODULE SessionLedger -----------------------------
(***************************************************************************)
(* Model sessions and the ledger that accounts for them: base.py's         *)
(* run_role_session_async with its retries, the fallback endpoint of       *)
(* run_role_session_with_fallback_async, and the rerolls of                *)
(* pipeline._single_shot_with_retry.  Several calls run at once in one     *)
(* event loop and share the Ledger, whose every change is saved before the *)
(* next await: memory and ledger.json are one variable here.               *)
(***************************************************************************)
EXTENDS Naturals, Sequences, FiniteSets

CONSTANTS
  Calls,        \* concurrent calls of a session
  Shots,        \* calls made through _single_shot_with_retry
  Reads,        \* calls made without a fallback: readers and the verifier
  Attempts,     \* settings.retry.attempts
  HasFallback,  \* does the role's endpoint name a fallback?
  MaxKills      \* bound: kills of the process

ASSUME SessionAssumption ==
  /\ IsFiniteSet(Calls)
  /\ Shots \subseteq Calls /\ Reads \subseteq Calls
  /\ Shots \cap Reads = {}
  /\ Attempts \in Nat \ {0}
  /\ HasFallback \in BOOLEAN
  /\ MaxKills \in Nat

VARIABLES
  ledger,    \* the entries of ledger.json
  pc,        \* where each call is
  endpoint,  \* the endpoint each call uses
  tries,     \* sessions each call has tried on that endpoint
  rolls,     \* which roll of the single-shot loop each call is in
  index,     \* the provisional entry of the session each call runs
  paid,      \* sessions that were sent to an endpoint (read by no action)
  kills      \* kills so far

vars == <<ledger, pc, endpoint, tries, rolls, index, paid, kills>>

Endpoint == {"primary", "fallback"}

(* How a session ended: with a usable result; with one that cannot be      *)
(* parsed, or is missing; with a failure worth another try, or a refusal.  *)
Outcome == {"ok", "unparseable", "missing", "transient", "refused"}

Entry == [call: Calls, endpoint: Endpoint,
          state: {"open", "partial", "final"}, outcome: Outcome \cup {"none"}]

Init ==
  /\ ledger = <<>>
  /\ pc = [c \in Calls |-> "ready"]
  /\ endpoint = [c \in Calls |-> "primary"]
  /\ tries = [c \in Calls |-> 1]
  /\ rolls = [c \in Calls |-> 1]
  /\ index = [c \in Calls |-> 0]
  /\ paid = 0 /\ kills = 0

Goto(c, place) == pc' = [pc EXCEPT ![c] = place]

-----------------------------------------------------------------------------
(* One attempt.                                                            *)

(* Mutant: a retry goes on with the entry of the attempt before it.        *)
OpenAgain(c) ==
  /\ pc[c] = "ready"
  /\ IF index[c] = 0
       THEN /\ ledger' = Append(ledger, [call |-> c, endpoint |-> endpoint[c],
                                         state |-> "open", outcome |-> "none"])
            /\ index' = [index EXCEPT ![c] = Len(ledger) + 1]
       ELSE UNCHANGED <<ledger, index>>
  /\ Goto(c, "opened")
  /\ UNCHANGED <<endpoint, tries, rolls, paid, kills>>

(* Mutant: the entry is recorded once the session has answered.            *)
OpenLate(c) ==
  /\ pc[c] = "ready"
  /\ index' = [index EXCEPT ![c] = Len(ledger) + 1]
  /\ Goto(c, "opened")
  /\ UNCHANGED <<ledger, endpoint, tries, rolls, paid, kills>>

(* record_provisional: the entry is saved before the session is sent.      *)
Open(c) ==
  /\ pc[c] = "ready"
  /\ ledger' = Append(ledger, [call |-> c, endpoint |-> endpoint[c],
                               state |-> "open", outcome |-> "none"])
  /\ index' = [index EXCEPT ![c] = Len(ledger) + 1]
  /\ Goto(c, "opened")
  /\ UNCHANGED <<endpoint, tries, rolls, paid, kills>>

Send(c) ==
  /\ pc[c] = "opened"
  /\ paid' = paid + 1
  /\ Goto(c, "running")
  /\ UNCHANGED <<ledger, endpoint, tries, rolls, index, kills>>

(* Mutant: the newest entry is taken for the session's own.                *)
SettleNewest(c, state, outcome) ==
  ledger' = [ledger EXCEPT ![Len(ledger)] =
               [@ EXCEPT !.state = state, !.outcome = outcome]]

(* Ledger.reconcile *)
Settle(c, state, outcome) ==
  ledger' = [ledger EXCEPT ![index[c]] =
               [@ EXCEPT !.state = state, !.outcome = outcome]]

-----------------------------------------------------------------------------
(* What a call does with the outcome of an attempt.                        *)

Return(c, place) == Goto(c, place) /\ UNCHANGED <<endpoint, tries, rolls>>

(* Another session on the same endpoint. *)
Retry(c) ==
  /\ Goto(c, "ready")
  /\ tries' = [tries EXCEPT ![c] = @ + 1]
  /\ UNCHANGED <<endpoint, rolls>>

(* The single-shot loop starts over on the primary endpoint. *)
Reroll(c) ==
  /\ Goto(c, "ready")
  /\ endpoint' = [endpoint EXCEPT ![c] = "primary"]
  /\ tries' = [tries EXCEPT ![c] = 1]
  /\ rolls' = [rolls EXCEPT ![c] = @ + 1]

(* An error of the endpoint itself: the fallback is tried, once. *)
FallBack(c) ==
  IF endpoint[c] = "primary" /\ HasFallback /\ c \notin Reads
    THEN /\ Goto(c, "ready")
         /\ endpoint' = [endpoint EXCEPT ![c] = "fallback"]
         /\ tries' = [tries EXCEPT ![c] = 1]
         /\ UNCHANGED rolls
    ELSE Return(c, "failed")

(* A usable result. *)
Succeed(c) ==
  /\ Settle(c, "final", "ok")
  /\ Return(c, "done")

(* Mutant: a result that cannot be parsed is taken to another endpoint.    *)
MisparseFallingBack(c) == Settle(c, "final", "unparseable") /\ FallBack(c)

(* A result whose text or schema is wrong. *)
Misparse(c) ==
  /\ Settle(c, "final", "unparseable")
  /\ IF c \in Shots /\ rolls[c] < Attempts THEN Reroll(c) ELSE Return(c, "failed")

(* A first-party result without its structured output. *)
Miss(c) ==
  /\ Settle(c, "final", "missing")
  /\ Return(c, "failed")

(* Mutant: the limit is compared after one try too many.                   *)
GiveWayLate(c) ==
  /\ \E s \in {"partial", "final"} : Settle(c, s, "transient")
  /\ IF tries[c] <= Attempts THEN Retry(c) ELSE FallBack(c)

(* The wall ceiling, a broken transport, a stream that ends early: what    *)
(* was seen is settled in part.  A 5xx or 429 result is settled in full.   *)
GiveWay(c) ==
  /\ \E s \in {"partial", "final"} : Settle(c, s, "transient")
  /\ IF tries[c] < Attempts THEN Retry(c) ELSE FallBack(c)

(* An SDK error, or a result that no retry would change. *)
Refuse(c) ==
  /\ \E s \in {"partial", "final"} : Settle(c, s, "refused")
  /\ FallBack(c)

End(c) ==
  /\ pc[c] = "running"
  /\ Succeed(c) \/ Misparse(c) \/ Miss(c) \/ GiveWay(c) \/ Refuse(c)
  /\ UNCHANGED <<index, paid, kills>>

-----------------------------------------------------------------------------
(* The loop is torn down after another call raised: a call that runs, or   *)
(* waits for its next try, is cancelled, and nobody settles its entry.     *)
Cancel(c) ==
  /\ pc[c] \in {"ready", "running"}
  /\ \E d \in Calls \ {c} : pc[d] = "failed"
  /\ Goto(c, "gone")
  /\ UNCHANGED <<ledger, endpoint, tries, rolls, index, paid, kills>>

(* The process dies.  A new one reads the ledger and makes its calls.      *)
Kill ==
  /\ kills < MaxKills
  /\ kills' = kills + 1
  /\ pc' = [c \in Calls |-> "ready"]
  /\ endpoint' = [c \in Calls |-> "primary"]
  /\ tries' = [c \in Calls |-> 1]
  /\ rolls' = [c \in Calls |-> 1]
  /\ index' = [c \in Calls |-> 0]
  /\ UNCHANGED <<ledger, paid>>

Returned(c) == pc[c] \in {"done", "failed", "gone"}

AllReturned == (\A c \in Calls : Returned(c)) /\ UNCHANGED vars

CallStep(c) == Open(c) \/ Send(c) \/ End(c)

Next == (\E c \in Calls : CallStep(c) \/ Cancel(c)) \/ Kill \/ AllReturned

Spec == Init /\ [][Next]_vars

-----------------------------------------------------------------------------
(* The ledger and every call are well-formed, and no call counts more      *)
(* tries or rolls than it may have.                                        *)
TypeOK ==
  /\ ledger \in Seq(Entry)
  /\ pc \in [Calls -> {"ready", "opened", "running", "done", "failed", "gone"}]
  /\ endpoint \in [Calls -> Endpoint]
  /\ tries \in [Calls -> 1..Attempts]
  /\ rolls \in [Calls -> 1..Attempts]
  /\ index \in [Calls -> 0..Len(ledger)]
  /\ {paid, kills} \subseteq Nat

(* Every session that was sent to an endpoint has an entry, wherever the   *)
(* process died: spend is never without a trace.                           *)
EverySessionLedgered == paid <= Len(ledger)

(* A session at work has an open entry of its own, although other calls    *)
(* append and settle theirs meanwhile.                                     *)
OwnEntry ==
  \A c \in Calls : pc[c] \in {"opened", "running"} =>
    /\ index[c] \in DOMAIN ledger
    /\ ledger[index[c]].call = c
    /\ ledger[index[c]].state = "open"

EntriesOf(c) == {i \in DOMAIN ledger : ledger[i].call = c}

(* The fallback endpoint is only paid for when the primary failed as an    *)
(* endpoint: the entry before the first one of the fallback is a refusal,  *)
(* or a transient failure.  A result that this layer could not parse never *)
(* buys it, and a read never does.  (An output that the CLI itself gives   *)
(* up on comes as a transient failure, and the synthesizer goes on to its  *)
(* fallback in a ladder of its own: FinishPhase.)                          *)
FallbackIsEarned ==
  \A c \in Calls : \A i \in EntriesOf(c) :
    ledger[i].endpoint = "fallback" =>
      /\ c \notin Reads
      /\ \E j \in EntriesOf(c) :
           /\ j < i
           /\ ledger[j].endpoint = "primary"
           /\ ledger[j].outcome \in {"transient", "refused"}
           /\ \A k \in EntriesOf(c) :
                j < k /\ k < i => ledger[k].outcome \notin {"unparseable", "missing"}

(* A call that keeps failing stops: so many sessions, and no more, between *)
(* two deaths of the process.                                              *)
SessionsBounded ==
  \A c \in Calls :
    Cardinality(EntriesOf(c)) <=
      (kills + 1) * Attempts
        * (IF HasFallback /\ c \notin Reads THEN 2 ELSE 1)
        * (IF c \in Shots THEN Attempts ELSE 1)

Book == INSTANCE AccountBook WITH
  book <- [i \in DOMAIN ledger |-> ledger[i].state]

(* ledger.json is the book that AccountBook promises: lines are opened,    *)
(* settled once and never changed again, through retries and restarts.     *)
ImplementsBook == Book!BookSpec
=============================================================================
