\* One cache, three positions, two layers: every way a pass can extend it,
\* fail in it and be followed by another.
SPECIFICATION Spec
CONSTANTS
  w1 = w1  w2 = w2  w3 = w3  t1 = t1  t2 = t2  t3 = t3
  Weights = {w3}
  Tokens = {t1, t2, t3}
  Models = {m1}
  Caches = {c1}
  ZeroRow = ZeroRow
  NoWeights = NoWeights
  NoCache = NoCache
  NoConfig = NoConfig
  MaxCallTokens = 2
  MaxIdentity = 1
  ConfigOf <- MCConfigOf
  Vocabulary <- MCVocabulary
  Embed <- MCEmbed
  ProjectKV <- MCProjectKV
  Block <- MCBlock
  TiedLogits <- MCTiedLogits
  Uncached <- MCUncached
INVARIANTS
  TypeOK
  LayersAgree
  AnswerIsReference
  LayerHasRoom
