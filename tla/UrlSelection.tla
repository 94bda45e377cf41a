------------------------------ MODULE UrlSelection ------------------------------
(***************************************************************************)
(* pipeline.select_urls: which links of the result lists of a question's   *)
(* queries are read.  A result list is a sequence of links, best first; a  *)
(* link stands for its normalized URL, so two lists may hold the same one. *)
(* Nothing here has a state: SourceBatch calls Selection from its pipeline.*)
(***************************************************************************)
EXTENDS Integers, Sequences, FiniteSets, Functions

CONSTANTS
  Pages,     \* links that can be read
  BadLinks,  \* links that are none: no URL, or not http
  Domain,    \* Domain[l]: the host of a link
  Blocked,   \* hosts never read: the default ones and the profile's
  Authority, \* Authority[l]: place of the host among preferred_domains
  LowValue,  \* LowValue[l]: 1 for a tag page or a listicle, else 0
  Overlap,   \* Overlap[l]: terms of the question in title and snippet
  DomainCap, \* DomainCap[d]: cap_overrides.get(d, per_domain_cap)
  PerQuery,  \* cfg["urls_per_query"]
  MaxReads   \* cfg["max_reads"]

Links == Pages \cup BadLinks

ASSUME SelectionAssumption ==
  /\ IsFiniteSet(Pages) /\ Pages \cap BadLinks = {}
  /\ {Authority, LowValue, Overlap} \subseteq [Links -> Int]
  /\ {PerQuery, MaxReads} \subseteq Nat
  /\ \A l \in Links : DomainCap[Domain[l]] \in Int

(* A candidate is a place in the lists: list c[1], item c[2]. *)
Candidates(lists) == UNION {{q} \X DOMAIN lists[q] : q \in DOMAIN lists}

Link(lists, c) == lists[c[1]][c[2]]

Host(lists, c) == Domain[Link(lists, c)]

(* Round-robin over the lists. *)
Interleaved(c, d) == c[2] < d[2] \/ (c[2] = d[2] /\ c[1] < d[1])

(* The sort key; rel is all zero when the reranker is off or fails. *)
Key(rel, l) == <<-rel[l], Authority[l], LowValue[l], -Overlap[l]>>

Lexicographic(k, m) ==
  \E i \in DOMAIN k : k[i] < m[i] /\ \A j \in 1..(i - 1) : k[j] = m[j]

(* Which candidate ranks before which.  The sort is stable: those with one *)
(* key stay interleaved.                                                   *)
Ranking(lists, rel) ==
  {cd \in Candidates(lists) \X Candidates(lists) :
     LET k == Key(rel, Link(lists, cd[1]))
         m == Key(rel, Link(lists, cd[2]))
     IN  Lexicographic(k, m) \/ (k = m /\ Interleaved(cd[1], cd[2]))}

(* A candidate's round is the number of those of its host that rank before *)
(* it, be they dropped later or not.                                       *)
Round(lists, ranking, c) ==
  Cardinality({d \in Candidates(lists) :
                 <<d, c>> \in ranking /\ Host(lists, d) = Host(lists, c)})

(* Breadth first: every host's first candidate before any host's second.   *)
Breadth(lists, ranking) ==
  {cd \in Candidates(lists) \X Candidates(lists) :
     LET m == Round(lists, ranking, cd[1])
         n == Round(lists, ranking, cd[2])
     IN  m < n \/ (m = n /\ cd \in ranking)}

(* The elements of S in the order that the pairs of R give them. *)
InOrder(S, R) ==
  [n \in 1..Cardinality(S) |->
     CHOOSE c \in S : Cardinality({d \in S : <<d, c>> \in R}) = n - 1]

(* Mutant: candidates are considered as they are ranked. *)
ScheduleByRank(lists, rel) == InOrder(Candidates(lists), Ranking(lists, rel))

Schedule(lists, rel) ==
  InOrder(Candidates(lists), Breadth(lists, Ranking(lists, rel)))

(* The filters, over what was kept before. *)
Admissible(lists, registry, kept, c) ==
  LET l == Link(lists, c)
      before == Range(kept)
  IN  /\ l \notin BadLinks
      /\ l \notin registry \cup {Link(lists, k) : k \in before}
      /\ Cardinality({k \in before : k[1] = c[1]}) < PerQuery
      /\ Domain[l] \notin Blocked
      /\ Cardinality({k \in before : Host(lists, k) = Domain[l]})
           < DomainCap[Domain[l]]

(* The budget is looked at when a link has been kept. *)
Full(kept) == kept # <<>> /\ Len(kept) >= MaxReads

(* What is kept once c has been considered too. *)
Considered(lists, registry, kept, c) ==
  IF Full(kept) \/ ~Admissible(lists, registry, kept, c) THEN kept
  ELSE Append(kept, c)

(* The candidates to read, in the order in which they were considered. *)
Selection(lists, registry, rel) ==
  LET schedule == Schedule(lists, rel)
      kept[n \in 0..Len(schedule)] ==
        IF n = 0 THEN <<>>
        ELSE Considered(lists, registry, kept[n - 1], schedule[n])
  IN  kept[Len(schedule)]

Chosen(lists, kept) == {Link(lists, kept[i]) : i \in DOMAIN kept}

-----------------------------------------------------------------------------
(* "every domain's 1st page is considered before any domain's 2nd": when   *)
(* two pages of one host are read, a host all of whose links could be read *)
(* has one read too, unless the queries that found it have their fill.     *)
NoHostStarved(lists, registry, kept) ==
  LET got(d) == {k \in Range(kept) : Host(lists, k) = d}
      links(d) == {c \in Candidates(lists) : Host(lists, c) = d}
      spent(q) == Cardinality({k \in Range(kept) : k[1] = q}) = PerQuery
  IN  \A d, e \in {Domain[l] : l \in Links} :
        ( /\ Cardinality(got(e)) > 1
          /\ links(d) # {} /\ d \notin Blocked /\ DomainCap[d] > 0
          /\ \A c \in links(d) : Link(lists, c) \in Pages \ registry )
        => got(d) # {} \/ \E c \in links(d) : spent(c[1])
=============================================================================
