----------------------------- MODULE MCSourceBatch -----------------------------
(* Values of the constants of SourceBatch for TLC. *)
EXTENDS SourceBatch

MCQuestions == {"q1", "q2"}
MCPages == {"p", "q", "r", "s", "u"}
MCBadLinks == {"junk"}

(* Two pages bear the same title. *)
MCTitle == [l \in MCPages |-> IF l \in {"p", "q"} THEN "guide" ELSE l]

MCDomain == [l \in MCPages \cup MCBadLinks |->
               CASE l \in {"p", "q", "s"} -> "site"
                 [] l = "r" -> "other" [] l = "u" -> "ugc" [] OTHER -> "none"]
MCBlocked == {"ugc"}
MCAuthority == [l \in MCPages \cup MCBadLinks |-> IF MCDomain[l] = "site" THEN 0 ELSE 1]
MCLowValue == [l \in MCPages \cup MCBadLinks |-> IF l = "q" THEN 1 ELSE 0]
MCOverlap == [l \in MCPages \cup MCBadLinks |-> IF l = "q" THEN 2 ELSE 1]
MCDomainCap == [d \in {"site", "other", "ugc", "none"} |-> 3]

(* The searches for both questions meet in one page.                  *)
MCSearches ==
  [x \in MCQuestions |->
     IF x = "q1" THEN {<<<<"p", "s", "junk">>, <<"q", "r", "p">>>>}
     ELSE {<<<<"u", "q">>>>}]

(* The reranker puts the listicle first. *)
MCRelevances == {[l \in MCPages \cup MCBadLinks |-> IF l = "q" THEN 1 ELSE 0]}
=============================================================================
