-------------------------------- MODULE Cli ---------------------------------
(***************************************************************************)
(* run_cli (src/cli.cpp): from the arguments of the command to the text it *)
(* prints.  The options are parsed one by one, the tokenizer and the model *)
(* are loaded, and the call of Generation that follows is the one the      *)
(* options ask for.  Generation also has callers in other programs, who    *)
(* bring a job of their own.                                               *)
(*                                                                         *)
(* What the loaders accept is in TokenizerLoader, CheckpointLoader and     *)
(* CheckpointSchema; here a load gives some tokenizer or model, or fails.  *)
(***************************************************************************)
EXTENDS Generation, FiniteSets, SequencesExt

CONSTANTS
  Commands,             \* the lists of arguments: options and other words
  Number(_),            \* word -> what parse_integer makes of it, or Malformed
  Decimal(_),           \* word -> what parse_float makes of it, or Malformed
  Malformed, EmptyText,
  One,                  \* the decimal 1
  DefaultMaximum, DefaultSeed,
  Greedy,               \* the decoding without --sample
  Sampled(_, _, _, _),  \* temperature, top-k, top-p, seed -> a decoding
  TokenizersAt(_, _),   \* paths of a vocabulary and of merges -> what load may give,
                        \* [vocabulary, endOfText]
  ModelsAt(_),          \* path of a checkpoint -> the weights it may hold
  LibraryJobs           \* what other callers ask of Generation

ValuedByText == {"--checkpoint", "--vocab", "--merges", "--prompt"}
ValuedByNumber == {"--max-new-tokens", "--top-k", "--seed"}
ValuedByDecimal == {"--temperature", "--top-p"}
Valued == ValuedByText \cup ValuedByNumber \cup ValuedByDecimal
Flags == {"--sample", "--no-cache"}
Required == ValuedByText
SamplingControls == {"--temperature", "--top-k", "--top-p", "--seed"}

\* The numbers and decimals among the words of a command.
NumbersIn(args) == {Number(word) : word \in ToSet(args)} \ {Malformed}
DecimalsIn(args) == {Decimal(word) : word \in ToSet(args)} \ {Malformed}

\* A bound on the tokens a command asks for, and what it may ask of sampling.
\* Both vocabularies are numbered from zero without gaps, so that one holds the
\* ids of the other.
ASSUME CliAssumption ==
  /\ Weights # {} /\ Greedy \in Decodings /\ One \in Nat \ {0}
  /\ LibraryJobs \subseteq Jobs
  /\ DefaultMaximum \in 0..MaxNewTokens
  /\ Commands \subseteq Seq(UNION {ToSet(args) : args \in Commands})
  /\ \A args \in Commands :
       /\ \A k \in 1..(Len(args) - 1) :
            args[k] = "--max-new-tokens" =>
              Number(args[k + 1]) \in 0..MaxNewTokens \cup {Malformed}
       /\ \A temperature, topP \in {One} \cup DecimalsIn(args),
             topK \in {0} \cup NumbersIn(args), seed \in {DefaultSeed} \cup NumbersIn(args) :
            temperature > 0 /\ topP > 0 /\ topP <= One =>
              Sampled(temperature, topK, topP, seed) \in Decodings
  /\ \A args \in Commands : \A v, m, c \in ToSet(args) :
       \A t \in TokenizersAt(v, m), w \in ModelsAt(c) :
         /\ t.endOfText \in t.vocabulary /\ t.vocabulary \subseteq Tokens
         /\ IsFiniteSet(t.vocabulary)
         /\ w \in Weights /\ IsFiniteSet(Vocabulary(w))
         /\ t.vocabulary \subseteq Vocabulary(w) \/ Vocabulary(w) \subseteq t.vocabulary

VARIABLES
  phase,       \* how far run_cli is; "library" if another program calls
  arguments,   \* those of the command, until none of them is needed any more
  at,          \* index in parse_options
  given,       \* option -> its value, of the options met so far
  tokenizer, model,
  output,      \* what was written to it
  outcome      \* why the command ended, if it has

commandVars == <<arguments, at, given>>
assetVars == <<tokenizer, model>>
cliVars == <<vars, phase, commandVars, assetVars, output, outcome>>

NoSettings == [option \in {} |-> EmptyText]
NoTokenizer == [vocabulary |-> {}, endOfText |-> NoToken]

\* Before run_generation is called its arguments are anything.
NoJob ==
  [weights |-> CHOOSE w \in Weights : TRUE, prompt |-> <<>>, maximum |-> 0,
   endOfText |-> NoToken, useCache |-> FALSE, decoding |-> Greedy]

CliInit ==
  /\ \/ phase = "options" /\ arguments \in Commands /\ job = NoJob
     \/ phase = "library" /\ arguments = <<>> /\ job \in LibraryJobs
  /\ Init
  /\ at = 1
  /\ given = NoSettings
  /\ tokenizer = NoTokenizer
  /\ model = NoWeights
  /\ output = "nothing"
  /\ outcome = "none"

\* The command ends: EXIT_SUCCESS for its text or for help, else EXIT_FAILURE.
End(why) ==
  /\ outcome' = why
  /\ phase' = "exited"
  /\ UNCHANGED <<vars, commandVars, assetVars>>

Fail(why) == End(why) /\ UNCHANGED output

-----------------------------------------------------------------------------
(* requests_help and parse_options. *)

AsksForHelp == \E k \in 1..Len(arguments) : arguments[k] \in {"-h", "--help"}

ShowHelp ==
  /\ phase = "options" /\ AsksForHelp
  /\ output' = "usage"
  /\ End("help")

Parsing == phase = "options" /\ ~AsksForHelp

Value(option, word) ==
  IF option \in ValuedByNumber THEN Number(word)
  ELSE IF option \in ValuedByDecimal THEN Decimal(word) ELSE word

\* set_once.
Overwritten(option) == TRUE
Once(option) == option \notin DOMAIN given
Recorded(option, value) ==
  [o \in DOMAIN given \cup {option} |-> IF o = option THEN value ELSE given[o]]

\* The value is the next argument, even one that is the name of an option.
TakeValue ==
  /\ Parsing /\ at <= Len(arguments) /\ arguments[at] \in Valued
  /\ LET option == arguments[at]
     IN IF /\ at < Len(arguments)
           /\ Value(option, arguments[at + 1]) # Malformed
           /\ Once(option)
        THEN /\ given' = Recorded(option, Value(option, arguments[at + 1]))
             /\ at' = at + 2
             /\ UNCHANGED <<vars, phase, arguments, assetVars, output, outcome>>
        ELSE Fail("misuse")

TakeFlag ==
  /\ Parsing /\ at <= Len(arguments) /\ arguments[at] \in Flags
  /\ LET option == arguments[at]
     IN IF Once(option)
        THEN /\ given' = Recorded(option, EmptyText)
             /\ at' = at + 1
             /\ UNCHANGED <<vars, phase, arguments, assetVars, output, outcome>>
        ELSE Fail("misuse")

UnknownOption ==
  /\ Parsing /\ at <= Len(arguments) /\ arguments[at] \notin Valued \cup Flags
  /\ Fail("misuse")

\* CliOptions: what was given, or the default.
Setting(option, default) == IF option \in DOMAIN given THEN given[option] ELSE default
Samples == "--sample" \in DOMAIN given
Temperature == Setting("--temperature", One)
TopP == Setting("--top-p", One)

CheckOptions ==
  /\ Parsing /\ at > Len(arguments)
  /\ IF /\ Required \subseteq DOMAIN given
        /\ given["--prompt"] # EmptyText
        /\ Samples \/ SamplingControls \cap DOMAIN given = {}
        /\ Temperature > 0
        /\ TopP > 0 /\ TopP <= One
     THEN /\ phase' = "tokenizer"
          /\ UNCHANGED <<vars, commandVars, assetVars, output, outcome>>
     ELSE Fail("misuse")

-----------------------------------------------------------------------------
(* The rest of run_cli. *)

LoadTokenizer ==
  /\ phase = "tokenizer"
  /\ \/ /\ tokenizer' \in TokenizersAt(given["--vocab"], given["--merges"])
        /\ phase' = "model"
        /\ UNCHANGED <<vars, commandVars, model, output, outcome>>
     \/ Fail("assets")

\* load_checkpoint and the constructor of the model, then the two sizes.
TokenizerIsNoLarger(w) == Cardinality(tokenizer.vocabulary) <= Cardinality(Vocabulary(w))
TokenizerIsNoSmaller(w) == Cardinality(tokenizer.vocabulary) >= Cardinality(Vocabulary(w))
SizesMatch(w) == Cardinality(tokenizer.vocabulary) = Cardinality(Vocabulary(w))

LoadModel ==
  /\ phase = "model"
  /\ \/ \E w \in ModelsAt(given["--checkpoint"]) :
          IF SizesMatch(w)
          THEN /\ model' = w
               /\ phase' = "prompt"
               /\ UNCHANGED <<vars, commandVars, tokenizer, output, outcome>>
          ELSE Fail("mismatch")
     \/ Fail("assets")

\* A prompt that is not empty has a token at least, and each is one of the
\* tokenizer's.
PromptTokens ==
  {p \in Texts(MaxPromptTokens) : \A k \in 1..Len(p) : p[k] \in tokenizer.vocabulary}

FilteredOnly == Sampled(Temperature, Setting("--top-k", 0), TopP, DefaultSeed)
SamplingAsked == Sampled(Temperature, Setting("--top-k", 0), TopP, Setting("--seed", DefaultSeed))

JobOf(p) ==
  [weights |-> model, prompt |-> p,
   maximum |-> Setting("--max-new-tokens", DefaultMaximum),
   endOfText |-> tokenizer.endOfText,
   useCache |-> "--no-cache" \notin DOMAIN given,
   decoding |-> IF Samples THEN SamplingAsked ELSE Greedy]

\* encode, and the call of generate_sampled or generate_greedy.  From here on
\* the options are the job's.
CallGeneration ==
  /\ phase = "prompt"
  /\ \/ \E p \in PromptTokens :
          /\ job' = JobOf(p)
          /\ sessions' = [c \in {TheCache} |-> Cache!Empty(ConfigOf(model))]
          /\ phase' = "generate"
          /\ arguments' = <<>> /\ at' = 1 /\ given' = NoSettings /\ model' = NoWeights
          /\ UNCHANGED <<stage, feed, length, new, draws, stop, reply, tokenizer, output, outcome>>
     \/ Fail("encoding")

Generate ==
  /\ phase \in {"generate", "library"}
  /\ Step
  /\ UNCHANGED <<phase, commandVars, assetVars, output, outcome>>

\* "output << options.prompt" comes before the call of decode.
PrintPrompt ==
  /\ phase = "generate" /\ stage = "done"
  /\ IF stop = "threw" THEN Fail("generation")
     ELSE /\ output' = "prompt"
          /\ phase' = "decode"
          /\ UNCHANGED <<vars, commandVars, assetVars, outcome>>

DecodeTokens ==
  /\ phase = "decode"
  /\ \/ IF \A k \in 1..Len(new) : new[k] \in tokenizer.vocabulary
        THEN output' = "text" /\ End("success")
        ELSE Fail("unknown token")
     \/ Fail("memory")

CliStep ==
  \/ ShowHelp \/ TakeValue \/ TakeFlag \/ UnknownOption \/ CheckOptions
  \/ LoadTokenizer \/ LoadModel \/ CallGeneration \/ Generate
  \/ PrintPrompt \/ DecodeTokens

Over == phase = "exited" \/ (phase = "library" /\ stage = "done")

CliNext == CliStep \/ (Over /\ UNCHANGED cliVars)

\* The command runs on its own and waits for nobody: as long as it can take a
\* step it takes one.
CliSpec == CliInit /\ [][CliNext]_cliVars /\ WF_cliVars(CliStep)

-----------------------------------------------------------------------------
(* What a command means, whatever the order of its options. *)

\* The positions at which options stand, among them the end of the list.
Positions(args) ==
  LET StandsAt[k \in 1..(Len(args) + 1)] ==
        k > 1 /\ StandsAt[k - 1] => args[k - 1] \notin Valued
  IN {k \in 1..(Len(args) + 1) : StandsAt[k]}

PositionsOf(args, option) == {k \in Positions(args) \cap DOMAIN args : args[k] = option}
Has(args, option) == PositionsOf(args, option) # {}
Meant(args, option, default) ==
  IF Has(args, option)
  THEN Value(option, args[(CHOOSE k \in PositionsOf(args, option) : TRUE) + 1])
  ELSE default

InRange(option, value) ==
  /\ value # Malformed
  /\ option = "--prompt" => value # EmptyText
  /\ option \in {"--temperature", "--top-p"} => value > 0
  /\ option = "--top-p" => value <= One

IsCommand(args) ==
  /\ Len(args) + 1 \in Positions(args)
  /\ \A k \in Positions(args) \cap DOMAIN args :
       /\ args[k] \in Valued \cup Flags
       /\ PositionsOf(args, args[k]) = {k}
       /\ args[k] \in Valued => InRange(args[k], Value(args[k], args[k + 1]))
       /\ args[k] \in SamplingControls => Has(args, "--sample")
  /\ \A option \in Required : Has(args, option)

-----------------------------------------------------------------------------
(* Properties. *)

\* docs/cli.md: required options appear exactly once, no option twice, numbers
\* are complete and in range, the prompt is not empty, "sampling controls
\* without --sample are rejected".  parse_options accepts exactly that, in
\* whatever order the options come, and nothing is loaded for anything else.
AcceptsExactlyCommands ==
  /\ phase \in {"tokenizer", "model", "prompt"} => IsCommand(arguments) /\ ~AsksForHelp
  /\ outcome = "misuse" => ~IsCommand(arguments)

\* The call of run_generation is the one the command line means, each option
\* or its default in its place: "a mistyped command cannot silently fall back
\* to greedy decoding" (docs/cli.md), and no cache means none.
GeneratesWhatIsAsked ==
  [][phase' = "generate" /\ phase # "generate" =>
       /\ job'.weights \in ModelsAt(Meant(arguments, "--checkpoint", EmptyText))
       /\ tokenizer \in TokenizersAt(Meant(arguments, "--vocab", EmptyText),
                                    Meant(arguments, "--merges", EmptyText))
       /\ job'.endOfText = tokenizer.endOfText
       /\ job'.maximum = Meant(arguments, "--max-new-tokens", DefaultMaximum)
       /\ job'.useCache = ~Has(arguments, "--no-cache")
       /\ job'.decoding =
            IF Has(arguments, "--sample")
            THEN Sampled(Meant(arguments, "--temperature", One), Meant(arguments, "--top-k", 0),
                         Meant(arguments, "--top-p", One), Meant(arguments, "--seed", DefaultSeed))
            ELSE Greedy]_cliVars

\* A command that fails has written nothing to standard output ("Standard
\* output contains only the prompt and its continuation", docs/cli.md), though
\* the prompt is written before the new tokens are decoded: sizes that match
\* leave decode no token to refuse.  Only memory that runs out there can leave
\* a prompt alone.
FailureIsSilent ==
  /\ outcome \notin {"none", "help", "success", "memory"} => output = "nothing"
  /\ outcome = "memory" => output = "prompt"
  /\ outcome = "success" <=> output = "text"

\* Every token the command feeds to the model is one the model has a row for,
\* and every token the model chooses is one the tokenizer can print.
TokensAreKnownToBoth ==
  phase \in {"generate", "decode"} =>
    \A t \in {feed[k] : k \in 1..Len(feed)} \cup {new[k] : k \in 1..Len(new)} :
      t \in Vocabulary(W) \cap tokenizer.vocabulary

\* Every command ends, and so does every call of another program.
EndsEventually == <>Over
=============================================================================
