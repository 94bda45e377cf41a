----------------------------- MODULE MCFinishPhase -----------------------------
(* Values of the constants of FinishPhase for TLC. *)
EXTENDS FinishPhase

Fact(sources, confidence) ==
  [track |-> "factual", sources |-> sources, confidence |-> confidence]

Anecdote(sources, confidence) ==
  [track |-> "community", sources |-> sources, confidence |-> confidence]

(* Three findings.  The slug order is neither the order of risk nor that   *)
(* of confidence; one shape has a finding below the confidence floor, one  *)
(* a community finding, one nothing factual.                               *)
MCShapes == {
  <<Fact({"p", "q"}, 2), Fact({"p"}, 1), Fact({"q"}, 2)>>,
  <<Fact({"p"}, 0), Fact({"p", "q"}, 1), Anecdote({"q"}, 2)>>,
  <<Anecdote({"p"}, 2), Anecdote({"q"}, 2), Anecdote({"p"}, 1)>>}

MCPages == {"p", "q", "r"}
=============================================================================
