-------------------------------- MODULE Posture --------------------------------
(***************************************************************************)
(* From a command line to the settings of a run: driver.parse_args, the    *)
(* flags launcher.supervise passes on to every resume, and the layers of   *)
(* settings.load_settings.  A command line is a sequence of tokens.        *)
(*                                                                         *)
(* Nothing here has a state: Supervisor runs drivers with these settings.  *)
(* Left out: --lens, whose uses add up, and --config, which is another     *)
(* file to start from.                                                     *)
(***************************************************************************)
EXTENDS Naturals, Sequences, FiniteSets

CONSTANTS
  Switches,  \* options without a value
  Valued,    \* options with one
  Values,    \* Values[o]: the tokens that the parser takes for option o
  Base,      \* config.yaml: its settings, the routing of each role among them
  Bundles,   \* Bundles[o]: the settings of the block of bundle or preset o; of
             \* a valued option, those for each of its values
  Explicit   \* Explicit[o]: the setting that option o names outright

QuestionFile == "--question-file"
ResumeFlag == "--resume"
Unset == "unset"

Options == Switches \cup Valued
IsFlag(t) == t \in Options

Last(S) == CHOOSE n \in S : \A m \in S : m <= n

(* The numbers of S, the least one first. *)
Ascending(S) ==
  [n \in 1..Cardinality(S) |->
     CHOOSE i \in S : Cardinality({j \in S : j < i}) = n - 1]

-----------------------------------------------------------------------------
(* parse_args.                                                             *)

(* The places of the tokens that options with a value take for it. *)
Taken(argv) ==
  LET at[i \in DOMAIN argv] == i > 1 /\ argv[i - 1] \in Valued /\ ~at[i - 1]
  IN  {i \in DOMAIN argv : at[i]}

Uses(argv, o) == {i \in DOMAIN argv \ Taken(argv) : argv[i] = o}

Positional(argv) == {i \in DOMAIN argv \ Taken(argv) : ~IsFlag(argv[i])}

(* Every value is there and is one of its option's, and there is either a  *)
(* question, in a token or in a file, or a run to resume.                  *)
Accepts(argv) ==
  LET questions == Cardinality(Positional(argv))
                     + IF Uses(argv, QuestionFile) = {} THEN 0 ELSE 1
      resumes == Uses(argv, ResumeFlag) # {}
  IN  /\ \A o \in Valued : \A i \in Uses(argv, o) :
           i + 1 \in DOMAIN argv /\ argv[i + 1] \in Values[o]
      /\ questions = IF resumes THEN 0 ELSE 1

-----------------------------------------------------------------------------
(* supervise: the flags that every resume gets.  A token is attached to    *)
(* the one before it when that is a flag and it is none; the file's name   *)
(* always is.                                                              *)
Attached(argv) ==
  LET at[i \in DOMAIN argv] ==
        /\ i > 1 /\ ~at[i - 1] /\ IsFlag(argv[i - 1])
        /\ argv[i - 1] = QuestionFile \/ ~IsFlag(argv[i])
  IN  {i \in DOMAIN argv : at[i]}

(* Mutant: only the switches are passed on. *)
ResumeFlagsSwitches(argv) == SelectSeq(argv, LAMBDA t : t \in Switches)

ResumeFlags(argv) ==
  LET attached == Attached(argv)
      flag(i) == i \notin attached /\ IsFlag(argv[i]) /\ argv[i] # QuestionFile
      value(i) == i \in attached /\ argv[i - 1] # QuestionFile
      kept == {i \in DOMAIN argv : flag(i) \/ value(i)}
      places == Ascending(kept)
  IN  [n \in DOMAIN places |-> argv[places[n]]]

-----------------------------------------------------------------------------
(* load_settings: bundles, presets and options in the order in which they  *)
(* are laid over the file, the later the stronger.                         *)
DeepBundles == {"--comprehensive", "--exhaustive"}
Presets == {"--budget", "--cheap", "--accurate"}

Order == <<"--comprehensive", "--exhaustive", "--verify", "--waves",
           "--budget", "--cheap", "--accurate", "--gate", "--verify-depth",
           "--volume", "--max-cycles", "--max-budget-usd", "--max-wall-hours">>

(* The options that name one setting of the file.                          *)
Outright == {"--gate", "--verify-depth", "--max-cycles", "--max-budget-usd",
             "--max-wall-hours"}

Deepened(bundle) ==
  [s \in DOMAIN bundle \cup {"verify", "waves"} |->
     IF s \in {"verify", "waves"} THEN TRUE ELSE bundle[s]]

(* What option o lays over the settings, with value v if it has one. *)
Overlay(o, v) ==
  CASE o = "--verify" -> [verify |-> TRUE]
    [] o = "--waves" -> [waves |-> TRUE]
    [] o \in DeepBundles -> Deepened(Bundles[o])
    [] o \in Presets -> Bundles[o]
    [] OTHER -> Bundles[o][v]

(* The last use of an option counts. *)
Layer(argv, o) == Overlay(o, argv[Last(Uses(argv, o)) + 1])

Given(argv) == {o \in Options : Uses(argv, o) # {}}

(* Each setting is that of the last layer that has it. *)
Settings(argv) ==
  LET layers == {[at |-> n, has |-> Layer(argv, Order[n])] :
                   n \in {m \in DOMAIN Order : Order[m] \in Given(argv)}}
      top(s) == CHOOSE l \in layers :
                  s \in DOMAIN l.has
                  /\ \A m \in layers : s \in DOMAIN m.has => m.at <= l.at
  IN  [s \in DOMAIN Base \cup UNION {DOMAIN l.has : l \in layers} |->
         IF \E l \in layers : s \in DOMAIN l.has THEN top(s).has[s] ELSE Base[s]]

(* A block that is asked for is there, and replaces only roles that the    *)
(* file has.                                                               *)
WellConfigured(argv) ==
  \A o \in (DeepBundles \cup Presets \cup {"--volume"}) \cap Given(argv) :
    o \in DOMAIN Bundles /\ DOMAIN Layer(argv, o) \subseteq DOMAIN Base

(* An option that names a setting outright has the last word on it.        *)
ExplicitWins(argv, settings) ==
  \A o \in DOMAIN Explicit \cap Given(argv) :
    settings[Explicit[o]] = Layer(argv, o)[Explicit[o]]

(* A token that looks like an option is never taken for a value.  The file *)
(* has the settings that options name outright or switch on, and no option *)
(* laid over another one names its setting.                                *)
ASSUME PostureAssumption ==
  /\ {QuestionFile, ResumeFlag} \subseteq Valued
  /\ \A o \in Valued : Values[o] \cap Options = {}
  /\ (Outright \cup {"--volume"}) \cap Switches = {}
  /\ {"verify", "waves"} \subseteq DOMAIN Base
  /\ \A o \in Outright \cap Valued :
       \A v \in Values[o] : DOMAIN Bundles[o][v] \subseteq DOMAIN Base
  /\ \A o \in DOMAIN Explicit :
       \E n \in DOMAIN Order :
         /\ o = Order[n] /\ o \in Valued
         /\ \A v \in Values[o] : Explicit[o] \in DOMAIN Overlay(o, v)
         /\ \A m \in (n + 1)..Len(Order) :
              \A v \in IF Order[m] \in Valued THEN Values[Order[m]] ELSE {Unset} :
                Order[m] \in Options => Explicit[o] \notin DOMAIN Overlay(Order[m], v)
=============================================================================
