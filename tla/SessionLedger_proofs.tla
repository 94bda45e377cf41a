------------------------- MODULE SessionLedger_proofs -------------------------
(***************************************************************************)
(* Theorems about SessionLedger, for any finite set of calls and any       *)
(* number of attempts and kills.                                           *)
(***************************************************************************)
EXTENDS SessionLedger, FiniteSetTheorems, SequenceTheorems, TLAPS

-----------------------------------------------------------------------------
(* Edits of the ledger.                                                    *)

NewEntry(c) == [call |-> c, endpoint |-> endpoint[c],
                state |-> "open", outcome |-> "none"]

(* A provisional entry is appended behind all others.                      *)
LEMMA AppendedEntry ==
  ASSUME NEW c \in Calls, endpoint[c] \in Endpoint, ledger \in Seq(Entry)
  PROVE  LET L == Append(ledger, NewEntry(c))
         IN  /\ L \in Seq(Entry)
             /\ Len(L) = Len(ledger) + 1
             /\ L[Len(L)] = NewEntry(c)
             /\ \A i \in DOMAIN ledger : L[i] = ledger[i]
<1>1. NewEntry(c) \in Entry
  BY DEF NewEntry, Entry
<1> QED
  BY <1>1

(* Settling an entry changes its state and outcome, and no other entry.    *)
LEMMA SettledEntry ==
  ASSUME NEW c \in Calls, index[c] \in DOMAIN ledger, ledger \in Seq(Entry),
         NEW s \in {"partial", "final"}, NEW o \in Outcome, Settle(c, s, o)
  PROVE  /\ ledger' \in Seq(Entry)
         /\ Len(ledger') = Len(ledger)
         /\ ledger'[index[c]].state = s
         /\ \A j \in DOMAIN ledger \ {index[c]} : ledger'[j] = ledger[j]
<1> DEFINE e == [ledger[index[c]] EXCEPT !.state = s, !.outcome = o]
<1>1. ledger[index[c]] \in Entry /\ index[c] \in 1..Len(ledger)
  OBVIOUS
<1>2. e \in Entry /\ e.state = s
  <2>1. e \in Entry
    BY <1>1, ZenonT(30) DEF Entry
  <2>2. e.state = s
    BY <1>1, ZenonT(30) DEF Entry
  <2> QED
    BY <2>1, <2>2
<1>3. ledger' = [ledger EXCEPT ![index[c]] = e]
  BY DEF Settle
<1> HIDE DEF e
<1> QED
  BY <1>1, <1>2, <1>3, ExceptSeq, LenProperties

-----------------------------------------------------------------------------
(* The invariant.                                                          *)

Opened == {c \in Calls : pc[c] = "opened"}

(* The entries opened for sessions that are not sent yet are ahead of the  *)
(* sessions that are.                                                      *)
OpenedAhead == paid + Cardinality(Opened) <= Len(ledger)

LedgerInv == TypeOK /\ OwnEntry /\ OpenedAhead

(* The calls are a finite set, so the opened ones can be counted.          *)
LEMMA OpenedFinite == IsFiniteSet(Opened) /\ Cardinality(Opened) \in Nat
BY SessionAssumption, FS_Subset, FS_CardinalityType DEF Opened

(* Nothing was sent, so the invariant holds at the start.                  *)
LEMMA InitLedgerInv == Init => LedgerInv
<1> SUFFICES ASSUME Init PROVE LedgerInv
  OBVIOUS
<1>1. TypeOK
  BY SessionAssumption DEF Init, TypeOK, Endpoint
<1>2. OwnEntry
  BY DEF Init, OwnEntry
<1>3. OpenedAhead
  <2>1. Opened = {}
    BY DEF Init, Opened
  <2> QED
    BY <2>1, FS_EmptySet DEF Init, OpenedAhead
<1> QED
  BY <1>1, <1>2, <1>3 DEF LedgerInv

(* Every way to end a session settles its entry, and leaves the call where *)
(* nothing is opened: ready for another session, or returned.              *)
LEMMA EndSettles ==
  ASSUME TypeOK, NEW c \in Calls, End(c)
  PROVE  /\ \E s \in {"partial", "final"}, o \in Outcome : Settle(c, s, o)
         /\ pc[c] = "running"
         /\ \E place \in {"ready", "done", "failed"} : Goto(c, place)
         /\ endpoint' \in [Calls -> Endpoint]
         /\ tries' \in [Calls -> 1..Attempts]
         /\ rolls' \in [Calls -> 1..Attempts]
         /\ UNCHANGED <<index, paid, kills>>
<1> USE DEF TypeOK, Endpoint
<1>0. 1 \in 1..Attempts /\ Attempts \in Nat
  BY SessionAssumption
<1>1. pc[c] = "running" /\ UNCHANGED <<index, paid, kills>>
  BY DEF End
<1>2. ASSUME NEW place \in {"done", "failed"}, Return(c, place)
      PROVE  /\ \E p \in {"ready", "done", "failed"} : Goto(c, p)
             /\ endpoint' \in [Calls -> Endpoint]
             /\ tries' \in [Calls -> 1..Attempts]
             /\ rolls' \in [Calls -> 1..Attempts]
  BY <1>2 DEF Return
<1>3. ASSUME FallBack(c)
      PROVE  /\ \E p \in {"ready", "done", "failed"} : Goto(c, p)
             /\ endpoint' \in [Calls -> Endpoint]
             /\ tries' \in [Calls -> 1..Attempts]
             /\ rolls' \in [Calls -> 1..Attempts]
  <2>1. CASE Return(c, "failed")
    BY <1>2, <2>1
  <2>2. CASE ~Return(c, "failed")
    BY <1>0, <1>3, <2>2 DEF FallBack
  <2> QED
    BY <2>1, <2>2
<1>4. CASE Succeed(c)
  BY <1>1, <1>2, <1>4 DEF Succeed, Outcome
<1>5. CASE Misparse(c)
  <2>1. CASE Return(c, "failed")
    BY <1>1, <1>2, <1>5, <2>1 DEF Misparse, Outcome
  <2>2. CASE ~Return(c, "failed")
    <3>1. Reroll(c) /\ rolls[c] < Attempts /\ rolls[c] \in 1..Attempts
      BY <1>5, <2>2 DEF Misparse
    <3>2. rolls[c] + 1 \in 1..Attempts
      BY <1>0, <3>1
    <3> QED
      BY <1>0, <1>1, <1>5, <3>1, <3>2 DEF Misparse, Reroll, Outcome
  <2> QED
    BY <2>1, <2>2
<1>6. CASE Miss(c)
  BY <1>1, <1>2, <1>6 DEF Miss, Outcome
<1>7. CASE GiveWay(c)
  <2>1. CASE FallBack(c)
    BY <1>1, <1>3, <1>7, <2>1 DEF GiveWay, Outcome
  <2>2. CASE ~FallBack(c)
    <3>1. Retry(c) /\ tries[c] < Attempts /\ tries[c] \in 1..Attempts
      BY <1>7, <2>2 DEF GiveWay
    <3>2. tries[c] + 1 \in 1..Attempts
      BY <1>0, <3>1
    <3> QED
      BY <1>1, <1>7, <3>1, <3>2 DEF GiveWay, Retry, Outcome
  <2> QED
    BY <2>1, <2>2
<1>8. CASE Refuse(c)
  BY <1>1, <1>3, <1>8 DEF Refuse, Outcome
<1> QED
  BY <1>4, <1>5, <1>6, <1>7, <1>8 DEF End

(* Every step keeps the invariant.                                         *)
LEMMA NextLedgerInv == LedgerInv /\ [Next]_vars => LedgerInv'
<1> SUFFICES ASSUME LedgerInv, [Next]_vars PROVE LedgerInv'
  OBVIOUS
<1> USE DEF LedgerInv, TypeOK
<1>1. CASE UNCHANGED vars
  BY <1>1 DEF vars, OwnEntry, OpenedAhead, Opened
<1>2. ASSUME NEW c \in Calls, Open(c)
      PROVE  LedgerInv'
  <2>1. /\ ledger' = Append(ledger, NewEntry(c))
        /\ index' = [index EXCEPT ![c] = Len(ledger) + 1]
        /\ pc[c] = "ready" /\ pc' = [pc EXCEPT ![c] = "opened"]
        /\ UNCHANGED <<endpoint, tries, rolls, paid, kills>>
    BY <1>2 DEF Open, NewEntry, Goto
  <2>2. /\ ledger' \in Seq(Entry)
        /\ Len(ledger') = Len(ledger) + 1
        /\ ledger'[Len(ledger')] = NewEntry(c)
        /\ \A i \in DOMAIN ledger : ledger'[i] = ledger[i]
    BY <2>1, AppendedEntry
  <2>3. TypeOK'
    BY <2>1, <2>2
  <2>4. OwnEntry'
    <3>1. ASSUME NEW d \in Calls, pc'[d] \in {"opened", "running"}
          PROVE  /\ index'[d] \in DOMAIN ledger'
                 /\ ledger'[index'[d]].call = d
                 /\ ledger'[index'[d]].state = "open"
      <4>1. CASE d = c
        BY <2>1, <2>2, <4>1 DEF NewEntry
      <4>2. CASE d # c
        BY <2>1, <2>2, <3>1, <4>2 DEF OwnEntry
      <4> QED
        BY <4>1, <4>2
    <3> QED
      BY <3>1 DEF OwnEntry
  <2>5. OpenedAhead'
    <3>1. Opened' = Opened \cup {c} /\ c \notin Opened
      BY <2>1 DEF Opened
    <3>2. Cardinality(Opened') = Cardinality(Opened) + 1
      BY <3>1, OpenedFinite, FS_AddElement
    <3> QED
      BY <2>1, <2>2, <3>2, OpenedFinite DEF OpenedAhead
  <2> QED
    BY <2>3, <2>4, <2>5
<1>3. ASSUME NEW c \in Calls, Send(c)
      PROVE  LedgerInv'
  <2>1. OpenedAhead'
    <3>1. Opened' = Opened \ {c} /\ c \in Opened
      BY <1>3 DEF Send, Goto, Opened
    <3>2. Cardinality(Opened') = Cardinality(Opened) - 1
      BY <3>1, OpenedFinite, FS_RemoveElement
    <3> QED
      BY <1>3, <3>2, OpenedFinite DEF Send, OpenedAhead
  <2>2. TypeOK'
    BY <1>3 DEF Send, Goto
  <2>3. OwnEntry'
    BY <1>3 DEF Send, Goto, OwnEntry
  <2> QED
    BY <2>1, <2>2, <2>3
<1>4. ASSUME NEW c \in Calls, End(c)
      PROVE  LedgerInv'
  <2>1. PICK s \in {"partial", "final"}, o \in Outcome : Settle(c, s, o)
    BY <1>4, EndSettles
  <2>2. PICK place \in {"ready", "done", "failed"} : Goto(c, place)
    BY <1>4, EndSettles
  <2>3. pc[c] = "running" /\ UNCHANGED <<index, paid, kills>>
    BY <1>4, EndSettles
  <2>4. index[c] \in DOMAIN ledger
    BY <2>3 DEF OwnEntry
  <2>5. /\ ledger' \in Seq(Entry)
        /\ Len(ledger') = Len(ledger)
        /\ \A j \in DOMAIN ledger \ {index[c]} : ledger'[j] = ledger[j]
    BY <2>1, <2>4, SettledEntry
  <2>6. TypeOK'
    BY <1>4, <2>2, <2>3, <2>5, EndSettles DEF Goto
  <2>7. OwnEntry'
    <3>1. ASSUME NEW d \in Calls, pc'[d] \in {"opened", "running"}
          PROVE  d # c /\ pc'[d] = pc[d] /\ index[d] # index[c]
      BY <2>2, <2>3, <3>1 DEF Goto, OwnEntry
    <3> QED
      BY <2>3, <2>5, <3>1 DEF OwnEntry
  <2>8. OpenedAhead'
    <3>1. Opened' = Opened
      BY <2>2, <2>3 DEF Goto, Opened
    <3> QED
      BY <2>3, <2>5, <3>1 DEF OpenedAhead
  <2> QED
    BY <2>6, <2>7, <2>8
<1>5. ASSUME NEW c \in Calls, Cancel(c)
      PROVE  LedgerInv'
  <2>1. Opened' = Opened
    BY <1>5 DEF Cancel, Goto, Opened
  <2> QED
    BY <1>5, <2>1 DEF Cancel, Goto, OwnEntry, OpenedAhead
<1>6. CASE Kill
  <2>1. Opened' = {}
    BY <1>6 DEF Kill, Opened
  <2>2. Cardinality(Opened') = 0
    BY <2>1, FS_EmptySet
  <2>3. TypeOK'
    BY <1>6, SessionAssumption DEF Kill, Endpoint
  <2>4. OwnEntry'
    BY <1>6 DEF Kill, OwnEntry
  <2>5. OpenedAhead'
    BY <1>6, <2>2, OpenedFinite DEF Kill, OpenedAhead
  <2> QED
    BY <2>3, <2>4, <2>5
<1> QED
  BY <1>1, <1>2, <1>3, <1>4, <1>5, <1>6 DEF Next, CallStep, AllReturned

(* The invariant holds in every reachable state.                           *)
LEMMA AlwaysLedgerInv == Spec => []LedgerInv
BY InitLedgerInv, NextLedgerInv, PTL DEF Spec

(* No session is sent without an entry that outlives the process.          *)
THEOREM SessionsAreLedgered == Spec => []EverySessionLedgered
<1>1. LedgerInv => EverySessionLedgered
  BY OpenedFinite DEF LedgerInv, TypeOK, OpenedAhead, EverySessionLedgered
<1> QED
  BY <1>1, AlwaysLedgerInv, PTL

(* Every session at work owns one open entry, which no other call settles. *)
THEOREM EntriesAreOwned == Spec => []OwnEntry
<1>1. LedgerInv => OwnEntry
  BY DEF LedgerInv
<1> QED
  BY <1>1, AlwaysLedgerInv, PTL

(* The ledger and the counters of every call keep their types.             *)
THEOREM LedgerTypeCorrect == Spec => []TypeOK
<1>1. LedgerInv => TypeOK
  BY DEF LedgerInv
<1> QED
  BY <1>1, AlwaysLedgerInv, PTL

-----------------------------------------------------------------------------
(* The book.                                                               *)

LinesOf(entries) == [i \in DOMAIN entries |-> entries[i].state]

lines == LinesOf(ledger)

(* The book has a line for each entry.                                     *)
LEMMA LinesOfLedger ==
  ASSUME NEW entries \in Seq(Entry)
  PROVE  /\ LinesOf(entries) \in Seq({"open", "partial", "final"})
         /\ Len(LinesOf(entries)) = Len(entries)
         /\ \A i \in 1..Len(entries) : LinesOf(entries)[i] = entries[i].state
<1>1. ASSUME NEW i \in 1..Len(entries)
      PROVE  entries[i].state \in {"open", "partial", "final"}
  <2>1. entries[i] \in Entry
    BY ElementOfSeq
  <2> QED
    BY <2>1 DEF Entry
<1>2. Len(entries) \in Nat /\ DOMAIN entries = 1..Len(entries)
  BY LenProperties
<1>3. LinesOf(entries) \in [1..Len(entries) -> {"open", "partial", "final"}]
  BY <1>1, <1>2 DEF LinesOf
<1>4. LinesOf(entries) \in Seq({"open", "partial", "final"})
  BY <1>2, <1>3, SeqDef
<1>5. Len(LinesOf(entries)) = Len(entries)
  BY <1>2, <1>3, <1>4, LenProperties
<1> QED
  BY <1>2, <1>4, <1>5 DEF LinesOf

(* Each step opens a line, settles an open one, or leaves the book alone.  *)
LEMMA StepImplementsBook ==
  ASSUME LedgerInv, [Next]_vars
  PROVE  [Book!BookNext]_lines
<1> USE DEF LedgerInv, TypeOK
<1>1. CASE UNCHANGED vars \/ Kill
  BY <1>1 DEF vars, Kill, lines, LinesOf
<1>2. ASSUME NEW c \in Calls, Send(c) \/ Cancel(c)
      PROVE  UNCHANGED lines
  BY <1>2 DEF Send, Cancel, lines, LinesOf
<1>3. ASSUME NEW c \in Calls, Open(c)
      PROVE  Book!OpenLine
  <2>1. ledger' = Append(ledger, NewEntry(c))
    BY <1>3 DEF Open, NewEntry
  <2>2. /\ ledger' \in Seq(Entry)
        /\ Len(ledger') = Len(ledger) + 1
        /\ ledger'[Len(ledger) + 1].state = "open"
        /\ \A i \in DOMAIN ledger : ledger'[i] = ledger[i]
    BY <2>1, AppendedEntry DEF NewEntry
  <2>3. /\ lines' \in Seq({"open", "partial", "final"})
        /\ Len(lines') = Len(ledger')
        /\ \A i \in 1..Len(ledger') : lines'[i] = ledger'[i].state
    BY <2>2, LinesOfLedger DEF lines
  <2>4. lines' = Append(lines, "open")
    <3>1. /\ Append(lines, "open") \in Seq({"open", "partial", "final"})
          /\ Len(Append(lines, "open")) = Len(ledger) + 1
          /\ \A i \in 1..Len(ledger) : Append(lines, "open")[i] = ledger[i].state
          /\ Append(lines, "open")[Len(ledger) + 1] = "open"
      BY LinesOfLedger DEF lines
    <3>2. \A i \in 1..Len(lines') : lines'[i] = Append(lines, "open")[i]
      <4>1. ASSUME NEW i \in 1..Len(ledger)
            PROVE  lines'[i] = Append(lines, "open")[i]
        <5>1. i \in DOMAIN ledger /\ i \in 1..Len(ledger')
          BY <2>2
        <5> QED
          BY <2>2, <2>3, <3>1, <5>1
      <4>2. Len(ledger) + 1 \in 1..Len(ledger')
        BY <2>2
      <4>3. lines'[Len(ledger) + 1] = "open"
        BY <2>2, <2>3, <4>2
      <4> HIDE DEF LedgerInv, TypeOK
      <4>4. \A i \in 1..Len(lines') : i \in 1..Len(ledger) \/ i = Len(ledger) + 1
        BY <2>2, <2>3
      <4> QED
        BY <3>1, <4>1, <4>3, <4>4
    <3> QED
      BY <2>2, <2>3, <3>1, <3>2, SeqEqual
  <2> QED
    BY <2>4 DEF Book!OpenLine, lines, LinesOf
<1>4. ASSUME NEW c \in Calls, End(c)
      PROVE  Book!SettleLine
  <2>1. PICK s \in {"partial", "final"}, o \in Outcome : Settle(c, s, o)
    BY <1>4, EndSettles
  <2>2. index[c] \in DOMAIN ledger /\ ledger[index[c]].state = "open"
    BY <1>4, EndSettles DEF OwnEntry
  <2>3. /\ ledger' \in Seq(Entry)
        /\ Len(ledger') = Len(ledger)
        /\ ledger'[index[c]].state = s
        /\ \A j \in DOMAIN ledger \ {index[c]} : ledger'[j] = ledger[j]
    BY <2>1, <2>2, SettledEntry
  <2>4. lines' = [lines EXCEPT ![index[c]] = s]
    <3>1. DOMAIN ledger' = DOMAIN ledger
      BY <2>3, LenProperties
    <3>2. lines' = [i \in DOMAIN ledger |-> ledger'[i].state]
      BY <3>1 DEF lines, LinesOf
    <3>3. [lines EXCEPT ![index[c]] = s]
            = [i \in DOMAIN ledger |-> IF i = index[c] THEN s ELSE ledger[i].state]
      BY <2>2 DEF lines, LinesOf
    <3> QED
      BY <2>2, <2>3, <3>2, <3>3
  <2>5. index[c] \in DOMAIN lines /\ lines[index[c]] = "open"
    BY <2>2 DEF lines, LinesOf
  <2> QED
    BY <2>4, <2>5 DEF Book!SettleLine, lines, LinesOf
<1> QED
  BY <1>1, <1>2, <1>3, <1>4 DEF Next, CallStep, AllReturned, Book!BookNext

(* The ledger implements the book, for any number of calls, retries, rolls *)
(* and deaths: a line is opened before its session, settled at most once,  *)
(* and kept for ever.                                                      *)
THEOREM LedgerIsABook == Spec => ImplementsBook
<1>1. Init => Book!BookInit
  BY DEF Init, Book!BookInit
<1>2. LedgerInv /\ [Next]_vars => [Book!BookNext]_lines
  BY StepImplementsBook
<1> QED
  BY <1>1, <1>2, AlwaysLedgerInv, PTL DEF Spec, ImplementsBook, Book!BookSpec, lines, LinesOf
-----------------------------------------------------------------------------
(* The fallback endpoint.                                                  *)

(* Settling touches the outcome of the entry, not whose it is.             *)
LEMMA SettledFields ==
  ASSUME NEW c \in Calls, index[c] \in DOMAIN ledger, ledger \in Seq(Entry),
         NEW s \in {"partial", "final"}, NEW o \in Outcome, Settle(c, s, o)
  PROVE  /\ ledger'[index[c]].call = ledger[index[c]].call
         /\ ledger'[index[c]].endpoint = ledger[index[c]].endpoint
         /\ ledger'[index[c]].outcome = o
<1>1. ledger[index[c]] \in Entry
  OBVIOUS
<1>2. ledger'[index[c]] = [ledger[index[c]] EXCEPT !.state = s, !.outcome = o]
  BY DEF Settle
<1> QED
  BY <1>1, <1>2, ZenonT(30) DEF Entry

(* A call has bought the fallback: the primary failed as an endpoint, and  *)
(* nothing that the call was sent since then was spoilt.                   *)
Bought(c) ==
  /\ c \notin Reads
  /\ \E j \in EntriesOf(c) :
       /\ ledger[j].endpoint = "primary"
       /\ ledger[j].outcome \in {"transient", "refused"}
       /\ \A k \in EntriesOf(c) :
            j < k => ledger[k].outcome \notin {"unparseable", "missing"}

(* What FallbackIsEarned asks of one entry. *)
Justified(c, i) ==
  ledger[i].endpoint = "fallback" =>
    /\ c \notin Reads
    /\ \E j \in EntriesOf(c) :
         /\ j < i
         /\ ledger[j].endpoint = "primary"
         /\ ledger[j].outcome \in {"transient", "refused"}
         /\ \A k \in EntriesOf(c) :
              j < k /\ k < i => ledger[k].outcome \notin {"unparseable", "missing"}

(* The entry of a session at work is the newest of its call and is not     *)
(* settled: only it can still be spoilt, and nothing comes after it.       *)
CallInv(c) ==
  /\ endpoint[c] = "fallback" /\ pc[c] \in {"ready", "opened", "running"} => Bought(c)
  /\ pc[c] \in {"opened", "running"} =>
       /\ ledger[index[c]].endpoint = endpoint[c]
       /\ ledger[index[c]].outcome = "none"
       /\ \A i \in EntriesOf(c) : i <= index[c]
  /\ \A i \in EntriesOf(c) : Justified(c, i)

FallbackInv == \A c \in Calls : CallInv(c)

(* What a call does next decides whether it has to have bought the         *)
(* fallback, and whether it just did.                                      *)
LEMMA EndBuys ==
  ASSUME TypeOK, NEW c \in Calls, End(c)
  PROVE  \E s \in {"partial", "final"}, o \in Outcome :
           /\ Settle(c, s, o)
           /\ \/ endpoint'[c] = endpoint[c] /\ o = "transient"
              \/ endpoint'[c] = "primary"
              \/ pc'[c] \in {"done", "failed"}
              \/ endpoint[c] = "primary" /\ c \notin Reads
                 /\ o \in {"transient", "refused"}
           /\ \A d \in Calls \ {c} : endpoint'[d] = endpoint[d] /\ pc'[d] = pc[d]
           /\ pc'[c] \in {"ready", "done", "failed"}
<1> USE DEF TypeOK, Goto
<1>1. ASSUME NEW place \in {"done", "failed"}, Return(c, place)
      PROVE  /\ pc'[c] \in {"done", "failed"}
             /\ \A d \in Calls \ {c} : endpoint'[d] = endpoint[d] /\ pc'[d] = pc[d]
  BY <1>1 DEF Return
<1>2. ASSUME FallBack(c)
      PROVE  /\ \/ pc'[c] \in {"done", "failed"}
                \/ endpoint[c] = "primary" /\ c \notin Reads
             /\ \A d \in Calls \ {c} : endpoint'[d] = endpoint[d] /\ pc'[d] = pc[d]
             /\ pc'[c] \in {"ready", "done", "failed"}
  <2>1. CASE Return(c, "failed")
    BY <1>1, <2>1
  <2>2. CASE ~Return(c, "failed")
    BY <1>2, <2>2 DEF FallBack
  <2> QED
    BY <2>1, <2>2
<1>3. CASE Succeed(c)
  BY <1>1, <1>3 DEF Succeed, Outcome
<1>4. CASE Misparse(c)
  <2>1. CASE Return(c, "failed")
    BY <1>1, <1>4, <2>1 DEF Misparse, Outcome
  <2>2. CASE ~Return(c, "failed")
    <3>1. Reroll(c) /\ Settle(c, "final", "unparseable")
      BY <1>4, <2>2 DEF Misparse
    <3>2. /\ endpoint'[c] = "primary" /\ pc'[c] = "ready"
          /\ \A d \in Calls \ {c} : endpoint'[d] = endpoint[d] /\ pc'[d] = pc[d]
      BY <3>1 DEF Reroll
    <3> QED
      BY <3>1, <3>2 DEF Outcome
  <2> QED
    BY <2>1, <2>2
<1>5. CASE Miss(c)
  BY <1>1, <1>5 DEF Miss, Outcome
<1>6. CASE GiveWay(c)
  <2>1. PICK s \in {"partial", "final"} : Settle(c, s, "transient")
    BY <1>6 DEF GiveWay
  <2>2. CASE FallBack(c)
    BY <1>2, <2>1, <2>2 DEF Outcome
  <2>3. CASE Retry(c)
    <3>1. /\ endpoint'[c] = endpoint[c] /\ pc'[c] = "ready"
          /\ \A d \in Calls \ {c} : endpoint'[d] = endpoint[d] /\ pc'[d] = pc[d]
      BY <2>3 DEF Retry
    <3> QED
      BY <2>1, <3>1 DEF Outcome
  <2> QED
    BY <1>6, <2>2, <2>3 DEF GiveWay
<1>7. CASE Refuse(c)
  <2>1. PICK s \in {"partial", "final"} : Settle(c, s, "refused")
    BY <1>7 DEF Refuse
  <2> QED
    BY <1>2, <1>7, <2>1 DEF Refuse, Outcome
<1> QED
  BY <1>3, <1>4, <1>5, <1>6, <1>7 DEF End

(* A call whose own entries are left alone keeps what it has bought.       *)
LEMMA UntouchedCall ==
  ASSUME NEW c \in Calls, CallInv(c),
         EntriesOf(c)' = EntriesOf(c),
         \A i \in EntriesOf(c) : ledger'[i] = ledger[i],
         \/ pc'[c] = pc[c] /\ endpoint'[c] = endpoint[c]
         \/ pc[c] = "opened" /\ pc'[c] = "running" /\ endpoint'[c] = endpoint[c]
         \/ pc'[c] = "gone"
         \/ pc'[c] = "ready" /\ endpoint'[c] = "primary",
         pc'[c] \in {"opened", "running"} => /\ index'[c] = index[c]
                                              /\ index[c] \in EntriesOf(c)
  PROVE  CallInv(c)'
<1>1. Bought(c) => Bought(c)'
  BY DEF Bought
<1>2. \A i \in EntriesOf(c) : Justified(c, i) => Justified(c, i)'
  BY DEF Justified
<1>3. \A i \in EntriesOf(c)' : Justified(c, i)'
  BY <1>2 DEF CallInv
<1> QED
  BY <1>1, <1>3 DEF CallInv

(* A new entry comes after all others of its call.                         *)
LEMMA OpenJustified ==
  ASSUME LedgerInv, NEW c \in Calls, CallInv(c), Open(c)
  PROVE  CallInv(c)'
<1> USE DEF LedgerInv, TypeOK
<1>0. PICK n \in Nat : n = Len(ledger) + 1
  BY LenProperties
<1>1. /\ ledger' = Append(ledger, NewEntry(c))
      /\ index'[c] = n /\ pc[c] = "ready" /\ pc'[c] = "opened"
      /\ endpoint' = endpoint
  BY <1>0 DEF Open, NewEntry, Goto
<1>2. /\ ledger' \in Seq(Entry) /\ Len(ledger') = n
      /\ ledger'[n] = NewEntry(c)
      /\ \A i \in DOMAIN ledger : ledger'[i] = ledger[i]
  BY <1>1, <1>0, AppendedEntry
<1>3. EntriesOf(c)' = EntriesOf(c) \cup {n}
  <2>1. DOMAIN ledger' = DOMAIN ledger \cup {n}
    BY <1>2, <1>0
  <2> QED
    BY <1>2, <2>1 DEF EntriesOf, NewEntry
<1>4. \A i \in EntriesOf(c) : i < n /\ i # n /\ i \in Nat /\ ledger'[i] = ledger[i]
  BY <1>2, <1>0 DEF EntriesOf
<1>5. ledger'[n].endpoint = endpoint[c] /\ ledger'[n].outcome = "none"
  BY <1>2 DEF NewEntry
<1> HIDE DEF LedgerInv, TypeOK
<1>7. Bought(c) => Bought(c)'
  BY <1>3, <1>4, <1>5 DEF Bought
<1>8. ASSUME NEW i \in EntriesOf(c)
      PROVE  Justified(c, i)'
  <2>1. Justified(c, i) /\ i < n
    BY <1>4 DEF CallInv
  <2>2. \A k \in EntriesOf(c)' : k < i => k \in EntriesOf(c)
    BY <1>3, <1>4, <1>0
  <2> QED
    BY <1>3, <1>4, <2>1, <2>2 DEF Justified
<1>9. Justified(c, n)'
  <2>1. SUFFICES ASSUME endpoint[c] = "fallback"
                 PROVE  Justified(c, n)'
    BY <1>5 DEF Justified
  <2>2. Bought(c)
    BY <1>1, <2>1 DEF CallInv
  <2>3. PICK j \in EntriesOf(c) :
          /\ ledger[j].endpoint = "primary"
          /\ ledger[j].outcome \in {"transient", "refused"}
          /\ \A k \in EntriesOf(c) :
               j < k => ledger[k].outcome \notin {"unparseable", "missing"}
    BY <2>2 DEF Bought
  <2>4. \A k \in EntriesOf(c)' :
          j < k /\ k < n => ledger'[k].outcome \notin {"unparseable", "missing"}
    BY <1>3, <1>4, <1>0, <2>3
  <2> QED
    BY <1>3, <1>4, <2>2, <2>3, <2>4 DEF Justified, Bought
<1>10. \A i \in EntriesOf(c)' : i <= n /\ Justified(c, i)'
  BY <1>3, <1>4, <1>0, <1>8, <1>9
<1> QED
  BY <1>1, <1>5, <1>7, <1>10 DEF CallInv

(* The session that ends was the newest of its call: settling it spoils    *)
(* nothing that a fallback already relied on.                              *)
LEMMA EndJustified ==
  ASSUME LedgerInv, NEW c \in Calls, CallInv(c), End(c)
  PROVE  CallInv(c)'
<1> USE DEF LedgerInv, TypeOK
<1> DEFINE n == index[c]
<1>1. PICK s \in {"partial", "final"}, o \in Outcome :
        /\ Settle(c, s, o)
        /\ \/ endpoint'[c] = endpoint[c] /\ o = "transient"
           \/ endpoint'[c] = "primary"
           \/ pc'[c] \in {"done", "failed"}
           \/ endpoint[c] = "primary" /\ c \notin Reads
              /\ o \in {"transient", "refused"}
        /\ pc'[c] \in {"ready", "done", "failed"}
  BY EndBuys
<1>2. pc[c] = "running"
  BY DEF End
<1>3. n \in DOMAIN ledger /\ ledger[n].call = c /\ n \in EntriesOf(c)
  BY <1>2 DEF OwnEntry, EntriesOf
<1>4. /\ ledger' \in Seq(Entry) /\ Len(ledger') = Len(ledger)
      /\ \A j \in DOMAIN ledger \ {n} : ledger'[j] = ledger[j]
  BY <1>1, <1>3, SettledEntry
<1>5. /\ ledger'[n].call = c
      /\ ledger'[n].endpoint = ledger[n].endpoint
      /\ ledger'[n].outcome = o
  BY <1>1, <1>3, SettledFields
<1>6. EntriesOf(c)' = EntriesOf(c)
  <2>1. DOMAIN ledger' = DOMAIN ledger
    BY <1>4
  <2> QED
    BY <1>3, <1>4, <1>5, <2>1 DEF EntriesOf
<1>7. \A i \in EntriesOf(c) : i \in Nat /\ i <= n /\ (i # n => ledger'[i] = ledger[i])
  BY <1>2, <1>4 DEF EntriesOf, CallInv
<1>8. ledger[n].endpoint = endpoint[c] /\ ledger[n].outcome = "none"
  BY <1>2 DEF CallInv
<1>9. n \in Nat
  BY <1>3
<1> HIDE DEF n, LedgerInv, TypeOK
<1>10. ASSUME NEW i \in EntriesOf(c)
       PROVE  Justified(c, i)'
  <2>1. SUFFICES ASSUME ledger[i].endpoint = "fallback"
                 PROVE  Justified(c, i)'
    BY <1>5, <1>7 DEF Justified
  <2>2. PICK j \in EntriesOf(c) :
          /\ j < i
          /\ ledger[j].endpoint = "primary"
          /\ ledger[j].outcome \in {"transient", "refused"}
          /\ \A k \in EntriesOf(c) :
               j < k /\ k < i => ledger[k].outcome \notin {"unparseable", "missing"}
    BY <2>1 DEF CallInv, Justified
  <2>3. c \notin Reads
    BY <2>1 DEF CallInv, Justified
  <2>4. j # n /\ \A k \in EntriesOf(c) : k < i => k # n
    BY <1>7, <1>9, <2>2
  <2> QED
    BY <1>6, <1>7, <2>2, <2>3, <2>4 DEF Justified
<1>11. ASSUME endpoint'[c] = "fallback", pc'[c] = "ready"
       PROVE  Bought(c)'
  <2>1. CASE endpoint'[c] = endpoint[c] /\ o = "transient"
    <3>1. Bought(c)
      BY <1>2, <1>11, <2>1 DEF CallInv
    <3>2. PICK j \in EntriesOf(c) :
            /\ ledger[j].endpoint = "primary"
            /\ ledger[j].outcome \in {"transient", "refused"}
            /\ \A k \in EntriesOf(c) :
                 j < k => ledger[k].outcome \notin {"unparseable", "missing"}
      BY <3>1 DEF Bought
    <3>3. j # n /\ ledger'[j] = ledger[j]
      BY <1>7, <1>8, <3>2
    <3>4. \A k \in EntriesOf(c) :
            j < k => ledger'[k].outcome \notin {"unparseable", "missing"}
      BY <1>5, <1>7, <2>1, <3>2
    <3> QED
      BY <1>6, <3>1, <3>2, <3>3, <3>4 DEF Bought
  <2>2. CASE endpoint[c] = "primary" /\ c \notin Reads /\ o \in {"transient", "refused"}
    <3>1. ledger'[n].endpoint = "primary" /\ ledger'[n].outcome \in {"transient", "refused"}
      BY <1>5, <1>8, <2>2
    <3>2. \A k \in EntriesOf(c) : ~(n < k)
      BY <1>7, <1>9
    <3> QED
      BY <1>3, <1>6, <2>2, <3>1, <3>2 DEF Bought
  <2> QED
    BY <1>1, <1>11, <2>1, <2>2
<1> QED
  BY <1>1, <1>6, <1>10, <1>11 DEF CallInv

(* Every step of any call keeps what every call has bought.                *)
LEMMA NextFallbackInv ==
  ASSUME LedgerInv, FallbackInv, [Next]_vars
  PROVE  FallbackInv'
<1> USE DEF FallbackInv
<1>1. \A d \in Calls : pc[d] \in {"opened", "running"} => index[d] \in EntriesOf(d)
  BY DEF LedgerInv, OwnEntry, EntriesOf
<1>2. CASE UNCHANGED vars \/ Kill
  <2>1. SUFFICES ASSUME NEW d \in Calls PROVE CallInv(d)'
    OBVIOUS
  <2>2. UNCHANGED ledger /\ EntriesOf(d)' = EntriesOf(d)
    BY <1>2 DEF vars, Kill, EntriesOf
  <2>3. CASE UNCHANGED vars
    BY <1>1, <2>2, <2>3, UntouchedCall DEF vars
  <2>4. CASE Kill
    BY <2>2, <2>4, UntouchedCall DEF Kill
  <2> QED
    BY <1>2, <2>3, <2>4
<1>3. ASSUME NEW c \in Calls, Send(c) \/ Cancel(c)
      PROVE  FallbackInv'
  <2>1. SUFFICES ASSUME NEW d \in Calls PROVE CallInv(d)'
    OBVIOUS
  <2>2. UNCHANGED <<ledger, endpoint, index>> /\ EntriesOf(d)' = EntriesOf(d)
    BY <1>3 DEF Send, Cancel, EntriesOf
  <2>3. \/ pc'[d] = pc[d]
        \/ pc[d] = "opened" /\ pc'[d] = "running"
        \/ pc'[d] = "gone"
    BY <1>3 DEF Send, Cancel, Goto, LedgerInv, TypeOK
  <2> QED
    BY <1>1, <2>2, <2>3, UntouchedCall
<1>4. ASSUME NEW c \in Calls, Open(c)
      PROVE  FallbackInv'
  <2>1. CallInv(c)'
    BY <1>4, OpenJustified
  <2>2. ASSUME NEW d \in Calls \ {c}
        PROVE  CallInv(d)'
    <3>1. /\ ledger' = Append(ledger, NewEntry(c))
          /\ pc'[d] = pc[d] /\ endpoint'[d] = endpoint[d] /\ index'[d] = index[d]
      BY <1>4 DEF Open, NewEntry, Goto, LedgerInv, TypeOK
    <3>2. /\ ledger' \in Seq(Entry)
          /\ Len(ledger') = Len(ledger) + 1
          /\ ledger'[Len(ledger')] = NewEntry(c)
          /\ \A i \in DOMAIN ledger : ledger'[i] = ledger[i]
      BY <3>1, AppendedEntry DEF LedgerInv, TypeOK
    <3>3. EntriesOf(d)' = EntriesOf(d)
      <4>1. DOMAIN ledger' = DOMAIN ledger \cup {Len(ledger')}
        BY <3>2 DEF LedgerInv, TypeOK
      <4>2. ledger'[Len(ledger')].call # d
        BY <3>2 DEF NewEntry
      <4> QED
        BY <3>2, <4>1, <4>2 DEF EntriesOf
    <3>4. \A i \in EntriesOf(d) : ledger'[i] = ledger[i]
      BY <3>2 DEF EntriesOf
    <3> QED
      BY <1>1, <3>1, <3>3, <3>4, UntouchedCall
  <2> QED
    BY <2>1, <2>2
<1>5. ASSUME NEW c \in Calls, End(c)
      PROVE  FallbackInv'
  <2>1. CallInv(c)'
    BY <1>5, EndJustified
  <2>2. ASSUME NEW d \in Calls \ {c}
        PROVE  CallInv(d)'
    <3>1. PICK s \in {"partial", "final"}, o \in Outcome :
            /\ Settle(c, s, o)
            /\ endpoint'[d] = endpoint[d] /\ pc'[d] = pc[d]
      BY <1>5, EndBuys DEF LedgerInv
    <3>2. /\ index[c] \in DOMAIN ledger /\ ledger[index[c]].call = c
          /\ UNCHANGED index
      BY <1>5 DEF End, LedgerInv, OwnEntry
    <3>3. /\ ledger' \in Seq(Entry) /\ Len(ledger') = Len(ledger)
          /\ \A j \in DOMAIN ledger \ {index[c]} : ledger'[j] = ledger[j]
      BY <3>1, <3>2, SettledEntry DEF LedgerInv, TypeOK
    <3>4. ledger'[index[c]].call = c
      BY <3>1, <3>2, SettledFields DEF LedgerInv, TypeOK
    <3>5. EntriesOf(d)' = EntriesOf(d)
      <4>1. DOMAIN ledger' = DOMAIN ledger
        BY <3>3 DEF LedgerInv, TypeOK
      <4> QED
        BY <3>2, <3>3, <3>4, <4>1 DEF EntriesOf
    <3>6. \A i \in EntriesOf(d) : ledger'[i] = ledger[i]
      BY <3>2, <3>3 DEF EntriesOf
    <3> QED
      BY <1>1, <3>1, <3>2, <3>5, <3>6, UntouchedCall
  <2> QED
    BY <2>1, <2>2
<1> QED
  BY <1>2, <1>3, <1>4, <1>5 DEF Next, CallStep, AllReturned

(* In this layer nobody pays for the fallback before the primary failed as *)
(* an endpoint, however many calls run, retry, start over or die at once.  *)
THEOREM FallbackIsBought == Spec => []FallbackIsEarned
<1>1. Init => FallbackInv
  BY DEF Init, FallbackInv, CallInv, EntriesOf
<1>2. Spec => [](LedgerInv /\ FallbackInv)
  BY <1>1, AlwaysLedgerInv, NextFallbackInv, PTL DEF Spec
<1>3. FallbackInv => FallbackIsEarned
  BY DEF FallbackInv, CallInv, Justified, FallbackIsEarned
<1> QED
  BY <1>2, <1>3, PTL
-----------------------------------------------------------------------------
(* The number of sessions.                                                 *)

EndpointsOf(c) == IF HasFallback /\ c \notin Reads THEN 2 ELSE 1
RollsOf(c) == IF c \in Shots THEN Attempts ELSE 1

(* The sessions of one roll, and of one life of the process. *)
PerRoll(c) == Attempts * EndpointsOf(c)
PerLife(c) == PerRoll(c) * RollsOf(c)

(* The sessions that a call may have opened in this life: those of the     *)
(* rolls that are over, those on the primary endpoint when it has left it, *)
(* and its tries, the last of which may not be opened yet.                 *)
Begun(c) ==
  (rolls[c] - 1) * PerRoll(c)
    + (IF endpoint[c] = "fallback" THEN Attempts ELSE 0)
    + (IF pc[c] = "ready" THEN tries[c] - 1 ELSE tries[c])

(* Each life of the process before this one is paid for in full.           *)
Counted(c) ==
  /\ endpoint[c] = "fallback" => EndpointsOf(c) = 2
  /\ rolls[c] <= RollsOf(c)
  /\ Cardinality(EntriesOf(c)) <= kills * PerLife(c) + Begun(c)

CountInv == \A c \in Calls : Counted(c)

(* The arithmetic of a roll among others. *)
LEMMA Rolling ==
  ASSUME NEW n \in Nat, NEW m \in Nat, NEW r \in Nat
  PROVE  /\ n <= m => n * r <= m * r
         /\ n >= 1 => (n - 1) * r + r = n * r
         /\ (n + 1 - 1) * r = n * r
         /\ n * r \in Nat /\ (n >= 1 => (n - 1) * r \in Nat)
BY SMTT(30)

(* Four factors, bracketed from the left or from the right. *)
LEMMA FourFactors ==
  ASSUME NEW k \in Nat, NEW a \in Nat, NEW e \in Nat, NEW r \in Nat
  PROVE  k * (a * e * r) = k * a * e * r
<1>1. a * e \in Nat /\ k * a \in Nat /\ a * e * r \in Nat
  OBVIOUS
<1>2. \A x, y, z \in Nat : x * (y * z) = (x * y) * z
  OBVIOUS
<1> QED
  BY <1>1, <1>2

(* How many sessions a roll and a life of the process can open. *)
LEMMA Sizes ==
  ASSUME NEW c \in Calls
  PROVE  /\ Attempts \in Nat /\ Attempts >= 1
         /\ EndpointsOf(c) \in {1, 2} /\ RollsOf(c) \in Nat /\ RollsOf(c) >= 1
         /\ PerRoll(c) \in Nat
         /\ EndpointsOf(c) = 1 => PerRoll(c) = Attempts
         /\ EndpointsOf(c) = 2 => PerRoll(c) = Attempts + Attempts
         /\ PerLife(c) \in Nat /\ PerLife(c) = RollsOf(c) * PerRoll(c)
<1>1. /\ Attempts \in Nat /\ Attempts >= 1
      /\ EndpointsOf(c) \in {1, 2} /\ RollsOf(c) \in Nat /\ RollsOf(c) >= 1
  BY SessionAssumption DEF EndpointsOf, RollsOf
<1>2. /\ EndpointsOf(c) = 1 => PerRoll(c) = Attempts
      /\ EndpointsOf(c) = 2 => PerRoll(c) = Attempts + Attempts
  BY <1>1 DEF PerRoll
<1>3. PerRoll(c) \in Nat
  BY <1>1, <1>2
<1>4. PerLife(c) \in Nat /\ PerLife(c) = RollsOf(c) * PerRoll(c)
  BY <1>1, <1>3, Rolling DEF PerLife
<1> QED
  BY <1>1, <1>2, <1>3, <1>4

(* The entries of a call are finite in number. *)
LEMMA EntriesFinite ==
  ASSUME NEW c \in Calls, ledger \in Seq(Entry)
  PROVE  IsFiniteSet(EntriesOf(c)) /\ Cardinality(EntriesOf(c)) \in Nat
<1>1. IsFiniteSet(1..Len(ledger)) /\ DOMAIN ledger = 1..Len(ledger)
  BY FS_Interval
<1> QED
  BY <1>1, FS_Subset, FS_CardinalityType DEF EntriesOf

(* What a call has begun in one life, that life allows. *)
LEMMA BegunFits ==
  ASSUME NEW c \in Calls, TypeOK, Counted(c)
  PROVE  Begun(c) \in Nat /\ Begun(c) <= PerLife(c)
<1> DEFINE roll == (IF endpoint[c] = "fallback" THEN Attempts ELSE 0)
                     + (IF pc[c] = "ready" THEN tries[c] - 1 ELSE tries[c])
<1>1. tries[c] \in 1..Attempts /\ rolls[c] \in 1..Attempts /\ rolls[c] <= RollsOf(c)
  BY DEF TypeOK, Counted
<1>2. roll \in Nat /\ roll <= PerRoll(c)
  BY <1>1, Sizes DEF Counted
<1>3. /\ (rolls[c] - 1) * PerRoll(c) \in Nat
      /\ (rolls[c] - 1) * PerRoll(c) + PerRoll(c) = rolls[c] * PerRoll(c)
      /\ rolls[c] * PerRoll(c) <= RollsOf(c) * PerRoll(c)
  BY <1>1, Sizes, Rolling
<1>4. Begun(c) = (rolls[c] - 1) * PerRoll(c) + roll
  BY <1>1, <1>3, Sizes DEF Begun
<1> HIDE DEF roll
<1> QED
  BY <1>2, <1>3, <1>4, Sizes

(* A call whose entries and counters are left alone stays within its       *)
(* count; it may have moved on from where its next session was not open.   *)
LEMMA UntouchedCount ==
  ASSUME NEW c \in Calls, TypeOK, Counted(c), EntriesOf(c)' = EntriesOf(c),
         endpoint'[c] = endpoint[c], tries'[c] = tries[c], rolls'[c] = rolls[c],
         kills' = kills, pc'[c] = pc[c] \/ pc'[c] # "ready"
  PROVE  Counted(c)'
<1>1. tries[c] \in Nat /\ rolls[c] \in Nat /\ rolls[c] >= 1 /\ kills \in Nat
  BY SessionAssumption DEF TypeOK
<1>2. (rolls[c] - 1) * PerRoll(c) \in Nat /\ kills * PerLife(c) \in Nat
  BY <1>1, Sizes, Rolling
<1>3. EndpointsOf(c)' = EndpointsOf(c) /\ RollsOf(c)' = RollsOf(c)
      /\ PerRoll(c)' = PerRoll(c) /\ PerLife(c)' = PerLife(c)
  BY DEF EndpointsOf, RollsOf, PerRoll, PerLife
<1>4. Begun(c)' \in Int /\ Begun(c) \in Int /\ Begun(c) <= Begun(c)'
  BY <1>1, <1>2, <1>3, SessionAssumption DEF Begun
<1>5. Cardinality(EntriesOf(c)) \in Nat
  BY EntriesFinite DEF TypeOK
<1> QED
  BY <1>2, <1>3, <1>4, <1>5 DEF Counted

(* The provisional entry is the one that the count allowed for. *)
LEMMA OpenCounts ==
  ASSUME LedgerInv, NEW c \in Calls, Counted(c), Open(c)
  PROVE  Counted(c)'
<1>1. /\ ledger' = Append(ledger, NewEntry(c))
      /\ pc[c] = "ready" /\ pc'[c] = "opened"
      /\ UNCHANGED <<endpoint, tries, rolls, kills>>
  BY DEF Open, NewEntry, Goto, LedgerInv, TypeOK
<1>2. PICK n \in Nat : n = Len(ledger) + 1
  BY LenProperties DEF LedgerInv, TypeOK
<1>3. EntriesOf(c)' = EntriesOf(c) \cup {n} /\ n \notin EntriesOf(c)
  <2>1. /\ ledger' \in Seq(Entry) /\ Len(ledger') = n /\ ledger'[n] = NewEntry(c)
        /\ \A i \in DOMAIN ledger : ledger'[i] = ledger[i]
    BY <1>1, <1>2, AppendedEntry DEF LedgerInv, TypeOK
  <2>2. DOMAIN ledger' = DOMAIN ledger \cup {n} /\ n \notin DOMAIN ledger
    BY <1>2, <2>1 DEF LedgerInv, TypeOK
  <2> QED
    BY <2>1, <2>2 DEF EntriesOf, NewEntry
<1>4. Cardinality(EntriesOf(c)') = Cardinality(EntriesOf(c)) + 1
      /\ Cardinality(EntriesOf(c)) \in Nat
  BY <1>3, EntriesFinite, FS_AddElement DEF LedgerInv, TypeOK
<1>5. tries[c] \in Nat /\ rolls[c] \in Nat /\ rolls[c] >= 1 /\ kills \in Nat
  BY SessionAssumption DEF LedgerInv, TypeOK
<1>6. (rolls[c] - 1) * PerRoll(c) \in Nat /\ kills * PerLife(c) \in Nat
  BY <1>5, Sizes, Rolling
<1>7. EndpointsOf(c)' = EndpointsOf(c) /\ RollsOf(c)' = RollsOf(c)
      /\ PerRoll(c)' = PerRoll(c) /\ PerLife(c)' = PerLife(c)
  BY DEF EndpointsOf, RollsOf, PerRoll, PerLife
<1>8. Begun(c) \in Int /\ Begun(c)' = Begun(c) + 1
  BY <1>1, <1>5, <1>6, <1>7, SessionAssumption DEF Begun
<1> QED
  BY <1>1, <1>4, <1>6, <1>7, <1>8 DEF Counted

(* What a call does with the outcome of a session, as far as its counters  *)
(* can tell.                                                               *)
LEMMA EndMoves ==
  ASSUME TypeOK, NEW c \in Calls, End(c)
  PROVE  \/ /\ pc'[c] \in {"done", "failed"}
            /\ UNCHANGED <<endpoint, tries, rolls>>
         \/ /\ pc'[c] = "ready" /\ tries'[c] = tries[c] + 1
            /\ UNCHANGED <<endpoint, rolls>>
         \/ /\ pc'[c] = "ready" /\ endpoint'[c] = "primary" /\ tries'[c] = 1
            /\ rolls'[c] = rolls[c] + 1
            /\ c \in Shots /\ rolls[c] < Attempts
         \/ /\ pc'[c] = "ready" /\ endpoint[c] = "primary" /\ endpoint'[c] = "fallback"
            /\ tries'[c] = 1 /\ UNCHANGED rolls
            /\ HasFallback /\ c \notin Reads
<1> USE DEF TypeOK, Goto
<1>1. ASSUME FallBack(c)
      PROVE  \/ Return(c, "failed")
             \/ /\ pc'[c] = "ready" /\ endpoint[c] = "primary" /\ endpoint'[c] = "fallback"
                /\ tries'[c] = 1 /\ UNCHANGED rolls
                /\ HasFallback /\ c \notin Reads
  BY <1>1 DEF FallBack
<1>2. ASSUME NEW place \in {"done", "failed"}, Return(c, place)
      PROVE  pc'[c] \in {"done", "failed"} /\ UNCHANGED <<endpoint, tries, rolls>>
  BY <1>2 DEF Return
<1>3. CASE Succeed(c) \/ Miss(c)
  BY <1>2, <1>3 DEF Succeed, Miss
<1>4. CASE Misparse(c)
  <2>1. CASE Return(c, "failed")
    BY <1>2, <2>1
  <2>2. CASE ~Return(c, "failed")
    BY <1>4, <2>2 DEF Misparse, Reroll
  <2> QED
    BY <2>1, <2>2
<1>5. CASE GiveWay(c)
  <2>1. CASE Retry(c)
    BY <2>1 DEF Retry
  <2> QED
    BY <1>1, <1>2, <1>5, <2>1 DEF GiveWay
<1>6. CASE Refuse(c)
  BY <1>1, <1>2, <1>6 DEF Refuse
<1> QED
  BY <1>3, <1>4, <1>5, <1>6 DEF End

(* The end of a session moves no other call. *)
LEMMA OthersUntouched ==
  ASSUME TypeOK, NEW c \in Calls, End(c), NEW d \in Calls \ {c}
  PROVE  /\ pc'[d] = pc[d] /\ endpoint'[d] = endpoint[d]
         /\ tries'[d] = tries[d] /\ rolls'[d] = rolls[d]
<1> USE DEF TypeOK, Goto
<1>1. ASSUME NEW place, Return(c, place)
      PROVE  /\ pc'[d] = pc[d] /\ endpoint'[d] = endpoint[d]
             /\ tries'[d] = tries[d] /\ rolls'[d] = rolls[d]
  BY <1>1 DEF Return
<1>2. ASSUME FallBack(c)
      PROVE  /\ pc'[d] = pc[d] /\ endpoint'[d] = endpoint[d]
             /\ tries'[d] = tries[d] /\ rolls'[d] = rolls[d]
  BY <1>1, <1>2 DEF FallBack
<1>3. CASE Succeed(c) \/ Miss(c)
  BY <1>1, <1>3 DEF Succeed, Miss
<1>4. CASE Misparse(c)
  BY <1>1, <1>4 DEF Misparse, Reroll
<1>5. CASE GiveWay(c)
  BY <1>2, <1>5 DEF GiveWay, Retry
<1>6. CASE Refuse(c)
  BY <1>2, <1>6 DEF Refuse
<1> QED
  BY <1>3, <1>4, <1>5, <1>6 DEF End

(* Settling an entry takes it from no call and gives it to none. *)
LEMMA SettlingKeepsEntries ==
  ASSUME LedgerInv, NEW c \in Calls, End(c), NEW d \in Calls
  PROVE  EntriesOf(d)' = EntriesOf(d)
<1>1. PICK s \in {"partial", "final"}, o \in Outcome : Settle(c, s, o)
  BY EndSettles DEF LedgerInv
<1>2. index[c] \in DOMAIN ledger /\ ledger \in Seq(Entry)
  BY DEF End, LedgerInv, OwnEntry, TypeOK
<1>3. /\ ledger' \in Seq(Entry) /\ Len(ledger') = Len(ledger)
      /\ \A j \in DOMAIN ledger \ {index[c]} : ledger'[j] = ledger[j]
  BY <1>1, <1>2, SettledEntry
<1>4. ledger'[index[c]].call = ledger[index[c]].call
  BY <1>1, <1>2, SettledFields
<1>5. DOMAIN ledger' = DOMAIN ledger
  BY <1>2, <1>3
<1> QED
  BY <1>2, <1>3, <1>4, <1>5 DEF EntriesOf

(* Wherever a call goes from the end of a session, what it began before is *)
(* allowed for.                                                            *)
LEMMA EndCounts ==
  ASSUME LedgerInv, NEW c \in Calls, Counted(c), End(c)
  PROVE  Counted(c)'
<1>1. EntriesOf(c)' = EntriesOf(c) /\ Cardinality(EntriesOf(c)) \in Nat
  BY SettlingKeepsEntries, EntriesFinite DEF LedgerInv, TypeOK
<1>2. /\ tries[c] \in 1..Attempts /\ rolls[c] \in 1..Attempts
      /\ endpoint[c] \in Endpoint /\ kills \in Nat
      /\ pc[c] = "running" /\ UNCHANGED kills
  BY DEF LedgerInv, TypeOK, End
<1>3. EndpointsOf(c)' = EndpointsOf(c) /\ RollsOf(c)' = RollsOf(c)
      /\ PerRoll(c)' = PerRoll(c) /\ PerLife(c)' = PerLife(c)
  BY DEF EndpointsOf, RollsOf, PerRoll, PerLife
<1>4. /\ (rolls[c] - 1) * PerRoll(c) \in Nat
      /\ (rolls[c] - 1) * PerRoll(c) + PerRoll(c) = rolls[c] * PerRoll(c)
      /\ (rolls[c] + 1 - 1) * PerRoll(c) = rolls[c] * PerRoll(c)
      /\ kills * PerLife(c) \in Nat
  BY <1>2, Sizes, Rolling
<1>5. Begun(c) = (rolls[c] - 1) * PerRoll(c)
                   + (IF endpoint[c] = "fallback" THEN Attempts ELSE 0) + tries[c]
  BY <1>2 DEF Begun
<1>6. /\ Begun(c)' \in Int /\ Begun(c) \in Int /\ Begun(c) <= Begun(c)'
      /\ endpoint'[c] = "fallback" => EndpointsOf(c) = 2
      /\ rolls'[c] <= RollsOf(c)
  <2>1. CASE /\ pc'[c] \in {"done", "failed"}
             /\ UNCHANGED <<endpoint, tries, rolls>>
    BY <1>2, <1>3, <1>4, <1>5, <2>1, Sizes DEF Begun, Counted
  <2>2. CASE /\ pc'[c] = "ready" /\ tries'[c] = tries[c] + 1
             /\ UNCHANGED <<endpoint, rolls>>
    BY <1>2, <1>3, <1>4, <1>5, <2>2, Sizes DEF Begun, Counted
  <2>3. CASE /\ pc'[c] = "ready" /\ endpoint'[c] = "primary" /\ tries'[c] = 1
             /\ rolls'[c] = rolls[c] + 1
             /\ c \in Shots /\ rolls[c] < Attempts
    <3>1. Begun(c)' = rolls[c] * PerRoll(c)
      BY <1>2, <1>3, <1>4, <2>3, Sizes DEF Begun
    <3>2. (IF endpoint[c] = "fallback" THEN Attempts ELSE 0) + tries[c] <= PerRoll(c)
      BY <1>2, Sizes DEF Counted
    <3>3. rolls'[c] <= RollsOf(c)
      BY <1>2, <2>3, Sizes DEF RollsOf
    <3> QED
      BY <1>2, <1>4, <1>5, <2>3, <3>1, <3>2, <3>3, Sizes
  <2>4. CASE /\ pc'[c] = "ready" /\ endpoint[c] = "primary" /\ endpoint'[c] = "fallback"
             /\ tries'[c] = 1 /\ UNCHANGED rolls
             /\ HasFallback /\ c \notin Reads
    <3>1. EndpointsOf(c) = 2
      BY <2>4 DEF EndpointsOf
    <3>2. Begun(c)' = (rolls[c] - 1) * PerRoll(c) + Attempts
      BY <1>2, <1>3, <1>4, <2>4, Sizes DEF Begun
    <3> QED
      BY <1>2, <1>4, <1>5, <2>4, <3>1, <3>2, Sizes DEF Counted
  <2> QED
    BY <2>1, <2>2, <2>3, <2>4, EndMoves DEF LedgerInv
<1> QED
  BY <1>1, <1>2, <1>3, <1>4, <1>6 DEF Counted

(* A death of the process allows every call another life. *)
LEMMA KillCounts ==
  ASSUME TypeOK, NEW c \in Calls, Counted(c), Kill
  PROVE  Counted(c)'
<1>1. /\ EntriesOf(c)' = EntriesOf(c) /\ kills' = kills + 1 /\ kills \in Nat
      /\ pc'[c] = "ready" /\ endpoint'[c] = "primary" /\ tries'[c] = 1 /\ rolls'[c] = 1
  BY DEF Kill, EntriesOf, TypeOK
<1>2. EndpointsOf(c)' = EndpointsOf(c) /\ RollsOf(c)' = RollsOf(c)
      /\ PerRoll(c)' = PerRoll(c) /\ PerLife(c)' = PerLife(c)
  BY DEF EndpointsOf, RollsOf, PerRoll, PerLife
<1>3. Begun(c)' = 0
  <2>1. (1 - 1) * PerRoll(c) = 0
    BY Sizes
  <2> QED
    BY <1>1, <1>2, <2>1 DEF Begun
<1>4. /\ kills * PerLife(c) \in Nat
      /\ (kills + 1) * PerLife(c) = kills * PerLife(c) + PerLife(c)
  <2>1. kills + 1 >= 1 /\ kills + 1 \in Nat /\ (kills + 1) - 1 = kills
    BY <1>1
  <2> QED
    BY <1>1, <2>1, Sizes, Rolling
<1>5. Cardinality(EntriesOf(c)) \in Nat
  BY EntriesFinite DEF TypeOK
<1> QED
  BY <1>1, <1>2, <1>3, <1>4, <1>5, BegunFits, Sizes DEF Counted

(* Every step of any call keeps the count of every call. *)
LEMMA NextCountInv ==
  ASSUME LedgerInv, CountInv, [Next]_vars
  PROVE  CountInv'
<1> USE DEF CountInv
<1>1. CASE UNCHANGED vars
  <2>1. SUFFICES ASSUME NEW d \in Calls PROVE Counted(d)'
    OBVIOUS
  <2>2. EntriesOf(d)' = EntriesOf(d)
    BY <1>1 DEF vars, EntriesOf
  <2> QED
    BY <1>1, <2>2, UntouchedCount DEF vars, LedgerInv
<1>2. CASE Kill
  BY <1>2, KillCounts DEF LedgerInv
<1>3. ASSUME NEW c \in Calls, Send(c) \/ Cancel(c)
      PROVE  CountInv'
  <2>1. SUFFICES ASSUME NEW d \in Calls PROVE Counted(d)'
    OBVIOUS
  <2>2. UNCHANGED <<endpoint, tries, rolls, kills>> /\ EntriesOf(d)' = EntriesOf(d)
    BY <1>3 DEF Send, Cancel, EntriesOf
  <2>3. pc'[d] = pc[d] \/ pc'[d] # "ready"
    BY <1>3 DEF Send, Cancel, Goto, LedgerInv, TypeOK
  <2> QED
    BY <2>2, <2>3, UntouchedCount DEF LedgerInv
<1>4. ASSUME NEW c \in Calls, Open(c)
      PROVE  CountInv'
  <2>1. Counted(c)'
    BY <1>4, OpenCounts
  <2>2. ASSUME NEW d \in Calls \ {c}
        PROVE  Counted(d)'
    <3>1. /\ ledger' = Append(ledger, NewEntry(c)) /\ pc'[d] = pc[d]
          /\ UNCHANGED <<endpoint, tries, rolls, kills>>
      BY <1>4 DEF Open, NewEntry, Goto, LedgerInv, TypeOK
    <3>2. EntriesOf(d)' = EntriesOf(d)
      <4>1. /\ ledger' \in Seq(Entry) /\ ledger'[Len(ledger')].call # d
            /\ Len(ledger') = Len(ledger) + 1
            /\ \A i \in DOMAIN ledger : ledger'[i] = ledger[i]
        BY <3>1, AppendedEntry DEF LedgerInv, TypeOK, NewEntry
      <4>2. DOMAIN ledger' = DOMAIN ledger \cup {Len(ledger')}
        BY <4>1 DEF LedgerInv, TypeOK
      <4> QED
        BY <4>1, <4>2 DEF EntriesOf
    <3> QED
      BY <3>1, <3>2, UntouchedCount DEF LedgerInv
  <2> QED
    BY <2>1, <2>2
<1>5. ASSUME NEW c \in Calls, End(c)
      PROVE  CountInv'
  <2>1. Counted(c)'
    BY <1>5, EndCounts
  <2>2. ASSUME NEW d \in Calls \ {c}
        PROVE  Counted(d)'
    <3>1. EntriesOf(d)' = EntriesOf(d) /\ UNCHANGED kills
      BY <1>5, SettlingKeepsEntries DEF End
    <3>2. /\ pc'[d] = pc[d] /\ endpoint'[d] = endpoint[d]
          /\ tries'[d] = tries[d] /\ rolls'[d] = rolls[d]
      BY <1>5, OthersUntouched DEF LedgerInv
    <3> QED
      BY <3>1, <3>2, UntouchedCount DEF LedgerInv
  <2> QED
    BY <2>1, <2>2
<1> QED
  BY <1>1, <1>2, <1>3, <1>4, <1>5 DEF Next, CallStep, AllReturned

(* No call opens more sessions than its attempts, endpoints and rolls      *)
(* multiply to, in each life of the process.                               *)
THEOREM SessionsAreBounded == Spec => []SessionsBounded
<1>1. Init => CountInv
  <2> SUFFICES ASSUME Init, NEW c \in Calls PROVE Counted(c)
    BY DEF CountInv
  <2>1. EntriesOf(c) = {}
    BY DEF Init, EntriesOf
  <2>2. Begun(c) = 0
    <3>1. (1 - 1) * PerRoll(c) = 0
      BY Sizes
    <3> QED
      BY <3>1 DEF Init, Begun
  <2>3. 0 * PerLife(c) = 0
    BY Sizes
  <2> QED
    BY <2>1, <2>2, <2>3, FS_EmptySet, Sizes DEF Init, Counted
<1>2. Spec => [](LedgerInv /\ CountInv)
  BY <1>1, AlwaysLedgerInv, NextCountInv, PTL DEF Spec
<1>3. LedgerInv /\ CountInv => SessionsBounded
  <2> SUFFICES ASSUME LedgerInv, CountInv, NEW c \in Calls
               PROVE  Cardinality(EntriesOf(c)) <=
                        (kills + 1) * Attempts * EndpointsOf(c) * RollsOf(c)
    BY DEF SessionsBounded, EndpointsOf, RollsOf
  <2>1. /\ kills \in Nat /\ Cardinality(EntriesOf(c)) \in Nat
        /\ Begun(c) \in Nat /\ Begun(c) <= PerLife(c)
        /\ Cardinality(EntriesOf(c)) <= kills * PerLife(c) + Begun(c)
    BY BegunFits, EntriesFinite DEF LedgerInv, TypeOK, CountInv, Counted
  <2>2. (kills + 1) * PerLife(c) = kills * PerLife(c) + PerLife(c)
        /\ kills * PerLife(c) \in Nat
    <3>1. kills + 1 >= 1 /\ kills + 1 \in Nat /\ (kills + 1) - 1 = kills
      BY <2>1
    <3> QED
      BY <2>1, <3>1, Sizes, Rolling
  <2>3. (kills + 1) * PerLife(c) = (kills + 1) * Attempts * EndpointsOf(c) * RollsOf(c)
    <3>1. kills + 1 \in Nat /\ EndpointsOf(c) \in Nat
      BY <2>1, Sizes
    <3>2. PerLife(c) = Attempts * EndpointsOf(c) * RollsOf(c)
      BY DEF PerLife, PerRoll
    <3> QED
      BY <3>1, <3>2, FourFactors, Sizes
  <2> QED
    BY <2>1, <2>2, <2>3, Sizes
<1> QED
  BY <1>2, <1>3, PTL

=============================================================================
