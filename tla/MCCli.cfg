\* A context of three positions; prompts that are empty, fit, fill it and do
\* not fit; up to three tokens asked for, three if the command does not say.
SPECIFICATION CliSpec
CONSTANTS
  t1 = t1  t2 = t2
  Tokens = {t1, t2}
  NoToken = NoToken
  NoWeights = NoWeights
  NoConfig = NoConfig
  TheCache = TheCache
  MaxPromptTokens = 4
  MaxNewTokens = 3
  Greedy = Greedy
  Malformed = Malformed
  EmptyText = ""
  One = 10
  DefaultMaximum = 3
  DefaultSeed = 2
  Decodings <- MCDecodings
  Commands <- MCCommands
  Number <- MCNumber
  Decimal <- MCDecimal
  Sampled <- MCSampled
  TokenizersAt <- MCTokenizersAt
  ModelsAt <- MCModelsAt
  LibraryJobs <- MCLibraryJobs
  Weights <- MCWeights
  ConfigOf <- MCConfigOf
  Vocabulary <- MCVocabulary
  Embed <- MCEmbed
  ProjectKV <- MCProjectKV
  Block <- MCBlock
  TiedLogits <- MCTiedLogits
  Uncached <- MCUncached
  Choice <- MCChoice
INVARIANTS
  FeedCompletesTheText
  TokensAreReference
  StopIsTheFirstLimit
  PassesAreNeverRefused
  AcceptsExactlyCommands
  FailureIsSilent
  TokensAreKnownToBoth
PROPERTIES
  GeneratesWhatIsAsked
  EndsEventually
