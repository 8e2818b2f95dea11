\* Two models that a configuration cannot tell apart and two caches, moved,
\* copied, reassigned and cleared between passes.
SPECIFICATION Spec
CONSTANTS
  w1 = w1  w2 = w2  w3 = w3  t1 = t1  t2 = t2  t3 = t3
  Weights = {w1, w2}
  Tokens = {t1}
  Models = {m1, m2}
  Caches = {c1, c2}
  ZeroRow = ZeroRow
  NoWeights = NoWeights
  NoCache = NoCache
  NoConfig = NoConfig
  MaxCallTokens = 1
  MaxIdentity = 3
  ConfigOf <- MCShallowConfigOf
  Vocabulary <- MCVocabulary
  Embed <- MCEmbed
  ProjectKV <- MCProjectKV
  Block <- MCBlock
  TiedLogits <- MCTiedLogits
  Uncached <- MCUncached
INVARIANTS
  OwnedIffPopulated
  VisibleRowsAreReference
  IdentityNamesOneModel
SYMMETRY ObjectSymmetry
