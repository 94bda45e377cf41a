--------------------------- MODULE ReadCache_proofs ---------------------------
(***************************************************************************)
(* Theorems about ReadCache, for any sets of calls, urls and texts, any    *)
(* number of event loops, and pages that change between fetches.           *)
(***************************************************************************)
EXTENDS ReadCache, TLAPS

-----------------------------------------------------------------------------
(* The invariant.                                                          *)

(* Futures exist from the claim of their owner to the end of the loop.     *)
FuturesExist ==
  \A c \in Calls :
    /\ Owning(c) => future[c] = "pending"
    /\ pc[c] = "wait" => future[share[c]] # "none"

(* A session is over a text whose first url is the session's own.          *)
SessionsNoted ==
  \A c \in Calls :
    pc[c] = "session" => text[c] \in Texts /\ first[text[c]] = url[c]

(* A breadth loop reads no page again that has been read.                  *)
OwnersUnread ==
  \A c \in Calls : (mode = "breadth" /\ Owning(c)) => done[url[c]] = "none"

(* A text keeps the url it was first digested under.                       *)
DigestsNoted ==
  \A s \in Session :
    (s.mode = "breadth" /\ sessions[s] > 0) => first[s.text] = s.url

CacheInv ==
  /\ TypeOK /\ TableIsLive /\ DigestedOnce /\ DigestsAreBreadth
  /\ FuturesExist /\ SessionsNoted /\ OwnersUnread /\ DigestsNoted

(* No call has started, so the invariant holds.                            *)
LEMMA InitCacheInv == Init => CacheInv
<1> SUFFICES ASSUME Init PROVE CacheInv
  OBVIOUS
<1>1. TypeOK
  BY CacheAssumption DEF Init, TypeOK, Mode
<1>2. TableIsLive /\ FuturesExist /\ SessionsNoted /\ OwnersUnread
  BY CacheAssumption DEF Init, TableIsLive, FuturesExist, SessionsNoted, OwnersUnread, Owning
<1>3. DigestedOnce /\ DigestsAreBreadth /\ DigestsNoted
  BY DEF Init, DigestedOnce, DigestsAreBreadth, DigestsNoted
<1> QED
  BY <1>1, <1>2, <1>3 DEF CacheInv

-----------------------------------------------------------------------------
(* The release of an owner.                                                *)

(* An owner that returns leaves the table, and nobody else does.           *)
LEMMA ReleaseKeepsTable ==
  ASSUME CacheInv, NEW c \in Calls, Owning(c), NEW result \in Result,
         Release(c, result), UNCHANGED <<url, share>>
  PROVE  /\ inflight' \in [Urls -> Calls \cup {NoCall}]
         /\ future' \in [Calls -> {"none", "pending"} \cup Result]
         /\ pc' \in [Calls -> {"idle", "fetch", "session", "wait"} \cup Result]
         /\ \A d \in Calls \ {c} : pc'[d] = pc[d]
         /\ pc'[c] = result /\ ~Owning(c)'
         /\ TableIsLive' /\ FuturesExist'
<1> USE DEF CacheInv, TypeOK, Result
<1>1. /\ inflight' = [inflight EXCEPT ![url[c]] = NoCall]
      /\ future' = [future EXCEPT ![c] = result]
      /\ pc' = [pc EXCEPT ![c] = result]
  BY DEF Release, DropInFlight, Goto, TableIsLive
<1>2. /\ \A d \in Calls \ {c} : pc'[d] = pc[d]
      /\ pc'[c] = result /\ ~Owning(c)'
  BY <1>1 DEF Owning
<1>3. TableIsLive'
  <2> SUFFICES ASSUME NEW u \in Urls, NEW d \in Calls
               PROVE  inflight'[u] = d <=> (Owning(d)' /\ url'[d] = u)
    BY DEF TableIsLive
  <2>1. CASE d = c
    BY <1>1, <1>2, <2>1, CacheAssumption DEF TableIsLive
  <2>2. CASE d # c
    BY <1>1, <1>2, <2>2, CacheAssumption DEF TableIsLive, Owning
  <2> QED
    BY <2>1, <2>2
<1>4. FuturesExist'
  BY <1>1, <1>2 DEF FuturesExist, Owning
<1> QED
  BY <1>1, <1>2, <1>3, <1>4

(* A read that is done stays as it is, and only the owner of an unread url *)
(* makes one.                                                              *)
LEMMA SettleKeepsDone ==
  ASSUME CacheInv, NEW c \in Calls, Owning(c),
         NEW result \in {"digest", "mirror"}, Settle(c, result)
  PROVE  /\ done' \in [Urls -> {"none", "digest", "mirror"}]
         /\ \A u \in Urls : done[u] # "none" => done'[u] = done[u]
         /\ \A u \in Urls :
              (mode = "breadth" => u # url[c]) => done'[u] = done[u]
         /\ mode = "breadth" => done[url[c]] = "none" /\ done'[url[c]] = result
BY DEF CacheInv, TypeOK, Settle, OwnersUnread

-----------------------------------------------------------------------------
(* The steps.                                                              *)

(* The start of a call changes no completed read and no session.           *)
LEMMA StartKeepsInv ==
  ASSUME CacheInv, NEW c \in Calls, Start(c) \/ Wake(c)
  PROVE  CacheInv'
<1> USE DEF CacheInv, TypeOK
<1>0. UNCHANGED <<done, first, url, text, mode, loops, sessions>>
  BY DEF Start, HitCompleted, JoinInFlight, Own, Wake, table
<1>1. DigestedOnce' /\ DigestsAreBreadth' /\ DigestsNoted'
  BY <1>0 DEF DigestedOnce, DigestsAreBreadth, DigestsNoted
<1>2. CASE HitCompleted(c) \/ Wake(c)
  <2>1. PICK result \in Result : pc' = [pc EXCEPT ![c] = result]
    BY <1>2 DEF HitCompleted, Usable, Wake, Goto, Result, FuturesExist
  <2>2. ~Owning(c) /\ UNCHANGED <<inflight, future, share>>
    BY <1>2 DEF HitCompleted, Wake, Owning, table
  <2>3. \A d \in Calls : Owning(d)' = Owning(d)
    BY <2>1, <2>2 DEF Owning, Result
  <2>4. \A d \in Calls : pc'[d] \in {"session", "wait"} => pc'[d] = pc[d]
    BY <2>1 DEF Result
  <2>5. TypeOK'
    BY <1>0, <2>1, <2>2
  <2>6. TableIsLive' /\ OwnersUnread'
    BY <1>0, <2>2, <2>3 DEF TableIsLive, OwnersUnread
  <2>7. FuturesExist' /\ SessionsNoted'
    BY <1>0, <2>2, <2>3, <2>4 DEF FuturesExist, SessionsNoted
  <2> QED
    BY <1>1, <2>5, <2>6, <2>7
<1>3. CASE JoinInFlight(c)
  <2>1. /\ pc[c] = "idle" /\ pc' = [pc EXCEPT ![c] = "wait"]
        /\ inflight[url[c]] \in Calls
        /\ share' = [share EXCEPT ![c] = inflight[url[c]]]
        /\ UNCHANGED <<inflight, future>>
    BY <1>3 DEF JoinInFlight, Goto, table
  <2>2. future[inflight[url[c]]] = "pending"
    BY <2>1 DEF TableIsLive, FuturesExist
  <2>3. \A d \in Calls : Owning(d)' = Owning(d)
    BY <2>1 DEF Owning
  <2>4. TypeOK'
    BY <1>0, <2>1
  <2>5. TableIsLive' /\ OwnersUnread'
    BY <1>0, <2>1, <2>3 DEF TableIsLive, OwnersUnread
  <2>6. FuturesExist'
    BY <2>1, <2>2, <2>3 DEF FuturesExist
  <2>7. SessionsNoted'
    BY <1>0, <2>1 DEF SessionsNoted
  <2> QED
    BY <1>1, <2>4, <2>5, <2>6, <2>7
<1>4. CASE Own(c)
  <2>1. /\ pc[c] = "idle" /\ pc' = [pc EXCEPT ![c] = "fetch"]
        /\ inflight[url[c]] = NoCall /\ ~Usable(c)
        /\ inflight' = [inflight EXCEPT ![url[c]] = c]
        /\ future' = [future EXCEPT ![c] = "pending"]
        /\ UNCHANGED share
    BY <1>4 DEF Own, Goto
  <2>2. TypeOK'
    BY <1>0, <2>1
  <2>3. TableIsLive'
    BY <1>0, <2>1, CacheAssumption DEF TableIsLive, Owning
  <2>4. OwnersUnread'
    BY <1>0, <2>1 DEF OwnersUnread, Owning, Usable
  <2>5. FuturesExist'
    BY <2>1 DEF FuturesExist, Owning
  <2>6. SessionsNoted'
    BY <1>0, <2>1 DEF SessionsNoted
  <2> QED
    BY <1>1, <2>2, <2>3, <2>4, <2>5, <2>6
<1> QED
  BY <1>2, <1>3, <1>4 DEF Start

(* A failed or cancelled read leaves no trace but its result.              *)
LEMMA FailKeepsInv ==
  ASSUME CacheInv, NEW c \in Calls, ReadFails(c) \/ Cancel(c)
  PROVE  CacheInv'
<1> USE DEF CacheInv, TypeOK
<1>0. UNCHANGED <<done, first, url, text, share, mode, loops, sessions>>
  BY DEF ReadFails, Cancel, Fail
<1>1. DigestedOnce' /\ DigestsAreBreadth' /\ DigestsNoted'
  BY <1>0 DEF DigestedOnce, DigestsAreBreadth, DigestsNoted
<1>2. ASSUME Owning(c), NEW result \in Result, Release(c, result)
      PROVE  CacheInv'
  <2>1. /\ inflight' \in [Urls -> Calls \cup {NoCall}]
        /\ future' \in [Calls -> {"none", "pending"} \cup Result]
        /\ pc' \in [Calls -> {"idle", "fetch", "session", "wait"} \cup Result]
        /\ \A d \in Calls \ {c} : pc'[d] = pc[d]
        /\ pc'[c] = result /\ ~Owning(c)'
        /\ TableIsLive' /\ FuturesExist'
    BY <1>0, <1>2, ReleaseKeepsTable
  <2>2. TypeOK'
    BY <1>0, <2>1
  <2>3. OwnersUnread' /\ SessionsNoted'
    BY <1>0, <2>1 DEF OwnersUnread, SessionsNoted, Owning
  <2> QED
    BY <1>1, <2>1, <2>2, <2>3
<1>3. CASE pc[c] = "wait" /\ Goto(c, "cancelled") /\ UNCHANGED <<done, inflight, future>>
  <2>1. TypeOK'
    BY <1>0, <1>3 DEF Goto, Result
  <2>2. TableIsLive' /\ OwnersUnread'
    BY <1>0, <1>3 DEF TableIsLive, OwnersUnread, Owning, Goto
  <2>3. FuturesExist' /\ SessionsNoted'
    BY <1>0, <1>3 DEF FuturesExist, SessionsNoted, Owning, Goto
  <2> QED
    BY <1>1, <2>1, <2>2, <2>3
<1> QED
  BY <1>2, <1>3 DEF ReadFails, Cancel, Fail, Result

(* A fetched page is noted under its first url, or is a mirror.            *)
LEMMA FetchedKeepsInv ==
  ASSUME CacheInv, NEW c \in Calls, Fetched(c)
  PROVE  CacheInv'
<1> USE DEF CacheInv, TypeOK
<1>0. Owning(c) /\ UNCHANGED <<url, share, mode, loops, sessions>>
  BY DEF Fetched, Owning
<1>1. PICK t \in Texts :
        /\ text' = [text EXCEPT ![c] = t]
        /\ IF Mirror(c, t)
             THEN Settle(c, "mirror") /\ UNCHANGED first
             ELSE /\ first' = [first EXCEPT ![t] = url[c]]
                  /\ Goto(c, "session")
                  /\ UNCHANGED <<done, inflight, future>>
  BY DEF Fetched
<1>2. CASE Mirror(c, t)
  <2>1. Settle(c, "mirror") /\ UNCHANGED first
    BY <1>1, <1>2
  <2>2. /\ inflight' \in [Urls -> Calls \cup {NoCall}]
        /\ future' \in [Calls -> {"none", "pending"} \cup Result]
        /\ pc' \in [Calls -> {"idle", "fetch", "session", "wait"} \cup Result]
        /\ \A d \in Calls \ {c} : pc'[d] = pc[d]
        /\ pc'[c] = "mirror" /\ ~Owning(c)'
        /\ TableIsLive' /\ FuturesExist'
    BY <1>0, <2>1, ReleaseKeepsTable DEF Settle, Result
  <2>3. /\ done' \in [Urls -> {"none", "digest", "mirror"}]
        /\ \A u \in Urls :
             (mode = "breadth" => u # url[c]) => done'[u] = done[u]
        /\ mode = "breadth" => done[url[c]] = "none" /\ done'[url[c]] = "mirror"
    BY <1>0, <2>1, SettleKeepsDone
  <2>4. TypeOK'
    BY <1>0, <1>1, <2>1, <2>2, <2>3
  <2>5. OwnersUnread'
    <3> SUFFICES ASSUME NEW d \in Calls, mode = "breadth", Owning(d)'
                 PROVE  done'[url[d]] = "none"
      BY <1>0 DEF OwnersUnread
    <3>1. d # c /\ Owning(d) /\ done[url[d]] = "none"
      BY <2>2 DEF Owning, OwnersUnread
    <3>2. url[d] # url[c]
      BY <1>0, <3>1 DEF TableIsLive
    <3> QED
      BY <2>3, <3>1, <3>2
  <2>6. SessionsNoted'
    BY <1>0, <1>1, <2>1, <2>2 DEF SessionsNoted
  <2>7. DigestsAreBreadth'
    BY <1>0, <2>3 DEF DigestsAreBreadth
  <2>8. DigestedOnce' /\ DigestsNoted'
    BY <1>0, <2>1 DEF DigestedOnce, DigestsNoted
  <2> QED
    BY <2>2, <2>4, <2>5, <2>6, <2>7, <2>8
<1>3. CASE ~Mirror(c, t)
  <2>1. /\ first' = [first EXCEPT ![t] = url[c]]
        /\ pc' = [pc EXCEPT ![c] = "session"] /\ pc[c] = "fetch"
        /\ UNCHANGED <<done, inflight, future>>
    BY <1>1, <1>3 DEF Goto, Fetched
  <2>2. \A d \in Calls : Owning(d)' = Owning(d)
    BY <2>1 DEF Owning
  <2>3. first[t] \in {NoUrl, url[c]}
    BY <1>3 DEF Mirror
  <2>4. TypeOK'
    BY <1>0, <1>1, <2>1
  <2>5. TableIsLive' /\ OwnersUnread'
    BY <1>0, <2>1, <2>2 DEF TableIsLive, OwnersUnread
  <2>6. FuturesExist'
    BY <1>0, <2>1, <2>2 DEF FuturesExist
  <2>7. \A x \in Texts : first[x] # NoUrl => first'[x] = first[x]
    BY <2>1, <2>3
  <2>8. SessionsNoted'
    BY <1>0, <1>1, <2>1, <2>7, CacheAssumption DEF SessionsNoted
  <2>9. DigestsNoted'
    BY <1>0, <2>7, CacheAssumption DEF DigestsNoted, Session
  <2>10. DigestedOnce' /\ DigestsAreBreadth'
    BY <1>0, <2>1 DEF DigestedOnce, DigestsAreBreadth
  <2> QED
    BY <2>4, <2>5, <2>6, <2>8, <2>9, <2>10
<1> QED
  BY <1>2, <1>3

(* A digest of the breadth mode is the first one of its url and its text.  *)
LEMMA SessionKeepsInv ==
  ASSUME CacheInv, NEW c \in Calls, SessionReturns(c)
  PROVE  CacheInv'
<1> USE DEF CacheInv, TypeOK
<1> DEFINE n == [mode |-> mode, url |-> url[c], text |-> text[c]]
<1>1. /\ Owning(c) /\ Settle(c, "digest")
      /\ UNCHANGED <<first, url, text, share, mode, loops>>
  BY DEF SessionReturns, Owning
<1>2. text[c] \in Texts /\ first[text[c]] = url[c]
  BY DEF SessionReturns, SessionsNoted
<1>3. /\ n \in Session
      /\ n.mode = mode /\ n.url = url[c] /\ n.text = text[c]
  BY <1>2 DEF Session
<1>4. sessions' = [sessions EXCEPT ![n] = @ + 1]
  BY DEF SessionReturns
<1> HIDE DEF n
<1>5. /\ inflight' \in [Urls -> Calls \cup {NoCall}]
      /\ future' \in [Calls -> {"none", "pending"} \cup Result]
      /\ pc' \in [Calls -> {"idle", "fetch", "session", "wait"} \cup Result]
      /\ \A d \in Calls \ {c} : pc'[d] = pc[d]
      /\ pc'[c] = "digest" /\ ~Owning(c)'
      /\ TableIsLive' /\ FuturesExist'
  BY <1>1, ReleaseKeepsTable DEF Settle, Result
<1>6. /\ done' \in [Urls -> {"none", "digest", "mirror"}]
      /\ \A u \in Urls : (mode = "breadth" => u # url[c]) => done'[u] = done[u]
      /\ mode = "breadth" => done[url[c]] = "none" /\ done'[url[c]] = "digest"
  BY <1>1, SettleKeepsDone
<1>7. \A s \in Session : sessions'[s] = IF s = n THEN sessions[s] + 1 ELSE sessions[s]
  BY <1>3, <1>4
<1>8. TypeOK'
  BY <1>1, <1>3, <1>4, <1>5, <1>6
<1>9. OwnersUnread'
  <2> SUFFICES ASSUME NEW d \in Calls, mode = "breadth", Owning(d)'
               PROVE  done'[url[d]] = "none"
    BY <1>1 DEF OwnersUnread
  <2>1. d # c /\ Owning(d) /\ done[url[d]] = "none"
    BY <1>5 DEF Owning, OwnersUnread
  <2>2. url[d] # url[c]
    BY <1>1, <2>1 DEF TableIsLive
  <2> QED
    BY <1>6, <2>1, <2>2
<1>10. SessionsNoted'
  BY <1>1, <1>5 DEF SessionsNoted
<1>11. DigestsNoted'
  BY <1>1, <1>2, <1>3, <1>7 DEF DigestsNoted
<1>12. ASSUME mode = "breadth", NEW s \in Session, s.mode = "breadth", sessions[s] > 0
       PROVE  s.url # url[c] /\ s.text # text[c]
  <2>1. done[url[c]] = "none"
    BY <1>6, <1>12
  <2>2. s.url \in Urls /\ done[s.url] = "digest"
    BY <1>12 DEF DigestsAreBreadth, Session
  <2>3. first[s.text] = s.url
    BY <1>12 DEF DigestsNoted
  <2> QED
    BY <1>2, <2>1, <2>2, <2>3
<1>13. DigestedOnce'
  <2>1. CASE mode # "breadth"
    BY <1>3, <1>7, <2>1 DEF DigestedOnce
  <2>2. CASE mode = "breadth"
    <3>1. sessions[n] = 0
      BY <1>3, <1>12, <2>2
    <3> SUFFICES ASSUME NEW s \in Session, NEW r \in Session,
                        s.mode = "breadth", r.mode = "breadth",
                        sessions'[s] > 0, sessions'[r] > 0
                 PROVE  /\ sessions'[s] = 1
                        /\ s # r => (s.url # r.url /\ s.text # r.text)
      BY DEF DigestedOnce
    <3>2. CASE s = n /\ r = n
      BY <1>7, <3>1, <3>2
    <3>3. CASE s = n /\ r # n
      BY <1>3, <1>7, <1>12, <2>2, <3>1, <3>3
    <3>4. CASE s # n /\ r = n
      BY <1>3, <1>7, <1>12, <2>2, <3>4 DEF DigestedOnce
    <3>5. CASE s # n /\ r # n
      BY <1>7, <3>5 DEF DigestedOnce
    <3> QED
      BY <3>2, <3>3, <3>4, <3>5
  <2> QED
    BY <2>1, <2>2
<1>14. DigestsAreBreadth'
  <2> SUFFICES ASSUME NEW u \in Urls
               PROVE  done'[u] = "digest" <=>
                        \E s \in Session :
                          s.mode = "breadth" /\ s.url = u /\ sessions'[s] > 0
    BY DEF DigestsAreBreadth
  <2>1. CASE mode = "breadth" /\ u = url[c]
    <3>1. sessions'[n] > 0
      BY <1>3, <1>7
    <3> QED
      BY <1>3, <1>6, <2>1, <3>1
  <2>2. CASE ~(mode = "breadth" /\ u = url[c])
    <3>1. done'[u] = done[u]
      BY <1>6, <2>2
    <3>2. \A s \in Session :
            (s.mode = "breadth" /\ s.url = u) => sessions'[s] = sessions[s]
      BY <1>3, <1>7, <2>2
    <3> QED
      BY <3>1, <3>2 DEF DigestsAreBreadth
  <2> QED
    BY <2>1, <2>2
<1> QED
  BY <1>5, <1>8, <1>9, <1>10, <1>11, <1>13, <1>14

(* The next loop starts with no call; what was read stays.                 *)
LEMMA NextLoopKeepsInv ==
  ASSUME CacheInv, NextLoop
  PROVE  CacheInv'
<1> USE DEF CacheInv, TypeOK, NextLoop
<1>1. TypeOK'
  OBVIOUS
<1>2. TableIsLive' /\ FuturesExist' /\ SessionsNoted' /\ OwnersUnread'
  BY CacheAssumption DEF TableIsLive, FuturesExist, SessionsNoted, OwnersUnread, Owning
<1>3. DigestedOnce' /\ DigestsAreBreadth' /\ DigestsNoted'
  BY DEF DigestedOnce, DigestsAreBreadth, DigestsNoted
<1> QED
  BY <1>1, <1>2, <1>3

(* Every step keeps the invariant.                                         *)
LEMMA NextCacheInv == CacheInv /\ [Next]_vars => CacheInv'
<1> SUFFICES ASSUME CacheInv, [Next]_vars PROVE CacheInv'
  OBVIOUS
<1>1. CASE UNCHANGED vars
  BY <1>1 DEF vars, table, calls, CacheInv, TypeOK, TableIsLive, DigestedOnce,
     DigestsAreBreadth, FuturesExist, SessionsNoted, OwnersUnread, DigestsNoted, Owning
<1>2. ASSUME NEW c \in Calls, Proceed(c) \/ Cancel(c)
      PROVE  CacheInv'
  BY <1>2, StartKeepsInv, FailKeepsInv, FetchedKeepsInv, SessionKeepsInv DEF Proceed
<1>3. CASE NextLoop
  BY <1>3, NextLoopKeepsInv
<1> QED
  BY <1>1, <1>2, <1>3 DEF Next, AllReturned

(* The invariant holds in every reachable state.                           *)
LEMMA AlwaysCacheInv == Spec => []CacheInv
BY InitCacheInv, NextCacheInv, PTL DEF Spec

-----------------------------------------------------------------------------
(* The cache and every call keep their types.                              *)
THEOREM CacheTypeCorrect == Spec => []TypeOK
<1>1. CacheInv => TypeOK
  BY DEF CacheInv
<1> QED
  BY <1>1, AlwaysCacheInv, PTL

(* One call at a time reads a page, and the table of reads in flight knows *)
(* exactly the calls at work.                                              *)
THEOREM ReadsAreShared == Spec => []TableIsLive
<1>1. CacheInv => TableIsLive
  BY DEF CacheInv
<1> QED
  BY <1>1, AlwaysCacheInv, PTL

(* No page and no text is digested twice for the pipelines.                *)
THEOREM PagesDigestedOnce == Spec => []DigestedOnce
<1>1. CacheInv => DigestedOnce
  BY DEF CacheInv
<1> QED
  BY <1>1, AlwaysCacheInv, PTL

(* The completed reads are digests of the breadth mode and mirrors, never  *)
(* a digest made for the verifier.                                         *)
THEOREM VerifierLeavesNoDigest == Spec => []DigestsAreBreadth
<1>1. CacheInv => DigestsAreBreadth
  BY DEF CacheInv
<1> QED
  BY <1>1, AlwaysCacheInv, PTL

(* What a pipeline has read is never replaced.                             *)
THEOREM ReadsStay == Spec => CompletedStays
<1>1. ASSUME CacheInv, [Next]_vars
      PROVE  \A u \in Urls : done[u] # "none" => done'[u] = done[u]
  <2>1. CASE UNCHANGED done
    BY <2>1
  <2>2. ASSUME NEW c \in Calls, NEW t \in Texts, Fetched(c), Settle(c, "mirror")
        PROVE  \A u \in Urls : done[u] # "none" => done'[u] = done[u]
    BY <1>1, <2>2, SettleKeepsDone DEF Fetched, Owning
  <2>3. ASSUME NEW c \in Calls, SessionReturns(c)
        PROVE  \A u \in Urls : done[u] # "none" => done'[u] = done[u]
    BY <1>1, <2>3, SettleKeepsDone DEF SessionReturns, Owning
  <2>4. ASSUME NEW c \in Calls, Fetched(c), ~UNCHANGED done
        PROVE  \E t \in Texts : Settle(c, "mirror")
    BY <2>4 DEF Fetched
  <2>5. ASSUME NEW c \in Calls, Start(c) \/ Wake(c) \/ ReadFails(c) \/ Cancel(c)
        PROVE  UNCHANGED done
    BY <2>5 DEF Start, HitCompleted, JoinInFlight, Own, Wake, ReadFails, Cancel, Fail, table
  <2>6. CASE NextLoop \/ AllReturned \/ UNCHANGED vars
    BY <2>6 DEF NextLoop, AllReturned, vars, table
  <2> QED
    BY <1>1, <2>1, <2>2, <2>3, <2>4, <2>5, <2>6 DEF Next, Proceed
<1> QED
  BY <1>1, AlwaysCacheInv, PTL DEF Spec, CompletedStays
=============================================================================
