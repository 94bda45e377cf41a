----------------------------- MODULE MCSupervisor ------------------------------
(* Values of the constants of Supervisor for TLC, after config.yaml.       *)
EXTENDS Supervisor

MCSwitches == {"--comprehensive", "--verify", "--waves", "--cheap", "--accurate"}
MCValued == {QuestionFile, ResumeFlag, "--gate", "--max-budget-usd", "--max-wall-hours"}

MCValues ==
  [o \in MCValued |->
     CASE o = QuestionFile -> {"file"}
       [] o = ResumeFlag -> {"run"}
       [] o = "--gate" -> {"sonnet", "opus"}
       [] o = "--max-wall-hours" -> {"6"}
       [] OTHER -> {"9"}]

MCBase == [budget |-> 2, hours |-> 8, verify |-> FALSE, waves |-> FALSE, cycles |-> 40,
           gate |-> "opus", volume |-> "anthropic"]

(* The block of --accurate names a role that the file does not have. *)
MCBundles ==
  [o \in {"--comprehensive", "--cheap", "--accurate", "--gate", "--max-budget-usd",
          "--max-wall-hours"} |->
     CASE o = "--comprehensive" -> [budget |-> 25, hours |-> 24, cycles |-> 150]
       [] o = "--cheap" -> [budget |-> 2, gate |-> "sonnet", volume |-> "deepseek"]
       [] o = "--accurate" -> [budget |-> 3, gate |-> "opus", intializer |-> "deepseek"]
       [] o = "--gate" -> [v \in {"sonnet", "opus"} |-> [gate |-> v]]
       [] o = "--max-wall-hours" -> [v \in {"6"} |-> [hours |-> 6]]
       [] OTHER -> [v \in {"9"} |-> [budget |-> 9]]]

MCExplicit == [o \in {"--gate", "--max-budget-usd", "--max-wall-hours"} |->
                 CASE o = "--gate" -> "gate" [] o = "--max-wall-hours" -> "hours"
                   [] OTHER -> "budget"]

MCKeys == {"anthropic", "deepseek"}
MCKeyOf == [h \in Handlers |-> IF h = "h1" THEN "anthropic" ELSE "deepseek"]
MCNeeds(s) == {"anthropic"} \cup {s.volume}

(* Every command line of at most three tokens, and two longer ones. *)
Tokens == {"question", QuestionFile, "file", "--gate", "opus", "--cheap"}
MCCommands ==
  UNION {[1..n -> Tokens] : n \in 1..3}
    \cup {<<"question", "--cheap", "--gate", "opus", "--max-budget-usd", "9">>,
          <<"question", "--accurate", "--comprehensive", "--waves">>}
=============================================================================
