\* Models of two configurations, passes of two tokens, refused, failed and
\* answered, against the abstract promise.
SPECIFICATION Spec
CONSTANTS
  w1 = w1  w2 = w2  w3 = w3  t1 = t1  t2 = t2  t3 = t3
  Weights = {w2, w3}
  Tokens = {t1}
  Models = {m1}
  Caches = {c1, c2}
  ZeroRow = ZeroRow
  NoWeights = NoWeights
  NoCache = NoCache
  NoConfig = NoConfig
  MaxCallTokens = 3
  MaxIdentity = 2
  ConfigOf <- MCShallowConfigOf
  Vocabulary <- MCVocabulary
  Embed <- MCEmbed
  ProjectKV <- MCProjectKV
  Block <- MCBlock
  TiedLogits <- MCTiedLogits
  Uncached <- MCUncached
PROPERTY ImplementsCachedDecoding
