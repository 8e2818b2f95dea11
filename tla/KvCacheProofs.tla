--------------------------- MODULE KvCacheProofs ----------------------------
(***************************************************************************)
(* For every set of models, caches, weights and tokens, every              *)
(* configuration and every arithmetic: the inductive invariant IInv of     *)
(* KvCache, the properties it implies, and that KvCache implements         *)
(* CachedDecoding.                                                         *)
(***************************************************************************)
EXTENDS KvCacheRefinement, DataLemmas

-----------------------------------------------------------------------------
(* Texts and their prefixes. *)

\* Extending a text past its first n tokens leaves their prefixes alone.
LEMMA ExtendedText ==
  \A s, new \in Seq(Tokens) : \A n \in 0..Len(s) :
    /\ Extended(s, n, new) \in Seq(Tokens)
    /\ Len(Extended(s, n, new)) = n + Len(new)
    /\ \A i \in 0..n : Prefix(Extended(s, n, new), i) = Prefix(s, i)
    /\ \A q \in 1..Len(new) : Extended(s, n, new)[n + q] = new[q]
<1> TAKE s, new \in Seq(Tokens)
<1> TAKE n \in 0..Len(s)
<1> DEFINE t == Extended(s, n, new)
<1> HIDE DEF t
<1>1. /\ Prefix(s, n) \in Seq(Tokens)
      /\ Len(Prefix(s, n)) = n
      /\ \A i \in 1..n : Prefix(s, n)[i] = s[i]
  BY PrefixType
<1>2. Len(new) \in Nat /\ n \in Nat
  BY LenProperties
<1>3. /\ t \in Seq(Tokens)
      /\ Len(t) = n + Len(new)
      /\ \A i \in 1..(n + Len(new)) :
           t[i] = IF i <= n THEN Prefix(s, n)[i] ELSE new[i - n]
  <2> DEFINE p == Prefix(s, n)
  <2>1. p \in Seq(Tokens) /\ Len(p) = n
    BY <1>1
  <2> HIDE DEF p
  <2>2. /\ p \o new \in Seq(Tokens)
        /\ Len(p \o new) = Len(p) + Len(new)
        /\ \A i \in 1..(Len(p) + Len(new)) :
             (p \o new)[i] = IF i <= Len(p) THEN p[i] ELSE new[i - Len(p)]
    BY <2>1, ConcatProperties
  <2> QED BY <2>1, <2>2 DEF p, t, Extended
<1>4. ASSUME NEW i \in 0..n
      PROVE  Prefix(t, i) = Prefix(s, i)
  <2>1. \A j \in 1..i : t[j] = s[j]
    BY <1>1, <1>2, <1>3
  <2> QED BY <2>1 DEF Prefix
<1>5. ASSUME NEW q \in 1..Len(new)
      PROVE  t[n + q] = new[q]
  BY <1>2, <1>3
<1> QED BY <1>3, <1>4, <1>5 DEF t

\* The tokens of a call are a sequence.
LEMMA CallTokens ==
  ASSUME NEW tokens \in Calls
  PROVE  tokens \in Seq(Tokens) /\ Len(tokens) \in Nat
BY CacheAssumption, SeqDef, LenProperties DEF Calls

-----------------------------------------------------------------------------
(* The reference, one level at a time, for the prefixes of a text. *)

LEMMA LevelZero ==
  ASSUME NEW w \in Weights, NEW s \in Seq(Tokens), NEW n \in 1..Len(s),
         n <= ConfigOf(w).context
  PROVE  Uncached(w, 0, Prefix(s, n)) = Embed(w, s[n], n - 1)
<1>1. Prefix(s, n) \in Texts(ConfigOf(w).context)
  BY PrefixIsText, ConfigAssumption DEF IsConfig, Texts
<1>2. n \in 0..Len(s) /\ n \in 1..n
  BY LenProperties
<1>3. Len(Prefix(s, n)) = n /\ Prefix(s, n)[n] = s[n]
  BY <1>2, PrefixType
<1> QED BY <1>1, <1>3, ReferenceAssumption

LEMMA NextLevel ==
  ASSUME NEW w \in Weights, NEW s \in Seq(Tokens), NEW n \in 1..Len(s),
         n <= ConfigOf(w).context, NEW k \in 1..ConfigOf(w).layers
  PROVE  Uncached(w, k, Prefix(s, n)) =
           Block(w, k, Uncached(w, k - 1, Prefix(s, n)),
                 [i \in 1..n |-> ReferenceRow(w, k, s, i)])
<1>1. Prefix(s, n) \in Texts(ConfigOf(w).context)
  BY PrefixIsText, ConfigAssumption DEF IsConfig, Texts
<1>2. n \in 0..Len(s) /\ n \in Nat
  BY LenProperties
<1>3. Len(Prefix(s, n)) = n
  BY <1>2, PrefixType
<1>4. \A i \in 1..n : Prefix(Prefix(s, n), i) = Prefix(s, i)
  BY <1>2, PrefixOfPrefix
<1>5. Uncached(w, k, Prefix(s, n)) =
        Block(w, k, Uncached(w, k - 1, Prefix(s, n)),
              [i \in 1..n |->
                 ProjectKV(w, k, Uncached(w, k - 1, Prefix(Prefix(s, n), i)))])
  BY <1>1, <1>3, ReferenceAssumption
<1>6. [i \in 1..n |-> ProjectKV(w, k, Uncached(w, k - 1, Prefix(Prefix(s, n), i)))]
        = [i \in 1..n |-> ReferenceRow(w, k, s, i)]
  BY <1>4 DEF ReferenceRow
<1> QED BY <1>5, <1>6

-----------------------------------------------------------------------------
(* The inductive invariant. *)

LEMMA ConfigsAreConfigs == \A cfg \in Configs : IsConfig(cfg)
BY ConfigAssumption DEF Configs

\* A new cache is empty and nobody's.
LEMMA NewCacheFacts ==
  ASSUME NEW cfg \in Configs
  PROVE  /\ CacheType(NewCache(cfg))
         /\ NewCache(cfg).owner = 0
         /\ LengthOf(NewCache(cfg)) = 0
         /\ \A k \in DOMAIN NewCache(cfg).layers :
              NewCache(cfg).layers[k].length = 0
<1> DEFINE new == NewCache(cfg)
<1>1. cfg.layers \in Nat \ {0} /\ cfg.context \in Nat \ {0}
  BY ConfigsAreConfigs DEF IsConfig
<1>2. /\ DOMAIN new = {"layers", "shape", "owner"}
      /\ new.owner = 0
      /\ new.shape = cfg.shape
      /\ DOMAIN new.layers = 1..cfg.layers
      /\ \A k \in 1..cfg.layers : new.layers[k] = NewLayer(cfg)
  BY DEF NewCache
<1>3. /\ DOMAIN NewLayer(cfg) = {"rows", "length"}
      /\ DOMAIN NewLayer(cfg).rows = 1..cfg.context
      /\ NewLayer(cfg).length = 0
  BY DEF NewLayer
<1> HIDE DEF new
<1>4. CacheType(new)
  BY <1>1, <1>2, <1>3 DEF CacheType, ModelsType
<1>5. LengthOf(new) = 0
  BY <1>1, <1>2, <1>3 DEF LengthOf
<1> QED BY <1>2, <1>3, <1>4, <1>5 DEF new

LEMMA InitInv == Init => IInv
<1> SUFFICES ASSUME Init PROVE IInv
  OBVIOUS
<1>1. ModelsType
  BY EmptySeq DEF Init, ModelsType, Unconstructed
<1>2. CachesType
  BY EmptySeq, NewCacheFacts DEF Init, CachesType
<1>3. TypeOK
  BY <1>1, <1>2 DEF Init, TypeOK, NoReply
<1>4. ModelsInv
  BY DEF Init, ModelsInv, IdentityNamesOneModel, Unconstructed
<1>5. RestInv /\ OwnedIffPopulated /\ VisibleRowsAreReference
  <2>1. \A c \in Caches :
          /\ ~InCall(c) /\ VisibleLength(c) = 0
          /\ caches[c].owner = 0 /\ LengthOf(caches[c]) = 0 /\ Len(fed[c]) = 0
          /\ \A k \in DOMAIN caches[c].layers : caches[c].layers[k].length = 0
    BY NewCacheFacts DEF Init, InCall, VisibleLength
  <2> QED BY <2>1 DEF RestInv, OwnedIffPopulated, VisibleRowsAreReference
<1>6. PassInv /\ CachedPassInv /\ HiddenInv /\ AnswerIsReference
  BY DEF Init, Idle, PassInv, CachedPassInv, HiddenInv, Computing,
     AnswerIsReference, NoReply
<1> QED BY <1>3, <1>4, <1>5, <1>6 DEF IInv

\* Between passes the invariant says nothing about a pass.
LEMMA AtRest ==
  call = Idle => /\ PassInv /\ CachedPassInv /\ HiddenInv
                 /\ \A c \in Caches :
                      ~InCall(c) /\ VisibleLength(c) = LengthOf(caches[c])
BY DEF Idle, PassInv, CachedPassInv, HiddenInv, Computing, InCall, VisibleLength

LEMMA AtRestNext ==
  call' = Idle => /\ PassInv' /\ CachedPassInv' /\ HiddenInv'
                  /\ \A c \in Caches :
                       ~InCall(c)' /\ VisibleLength(c)' = LengthOf(caches'[c])
BY DEF Idle, PassInv, CachedPassInv, HiddenInv, Computing, InCall, VisibleLength,
       LengthOf

\* Drawing an identity leaves what the earlier ones name.
LEMMA MintedGrows ==
  ASSUME NEW w \in Weights \cup {NoWeights}, ModelsType,
         minted' = Append(minted, w)
  PROVE  /\ minted' \in Seq(Weights \cup {NoWeights})
         /\ Len(minted) \in Nat
         /\ Len(minted') = Len(minted) + 1
         /\ \A i \in 1..Len(minted) : minted'[i] = minted[i]
         /\ minted'[Len(minted) + 1] = w
BY AppendProperties, LenProperties DEF ModelsType

\* Between passes, each cache on its own: what RestInv, OwnedIffPopulated and
\* VisibleRowsAreReference say of it.
Sound(cache, text, names) ==
  /\ LengthOf(cache) <= Len(text)
  /\ cache.layers # <<>> => (cache.owner = 0 <=> LengthOf(cache) = 0)
  /\ \A k \in DOMAIN cache.layers :
       /\ cache.layers[k].length = LengthOf(cache)
       /\ \A i \in 1..LengthOf(cache) :
            cache.layers[k].rows[i] = ReferenceRow(names[cache.owner], k, text, i)

LEMMA SoundAtRest ==
  call = Idle /\ RestInv /\ OwnedIffPopulated /\ VisibleRowsAreReference =>
    \A c \in Caches : Sound(caches[c], fed[c], minted)
BY AtRest DEF RestInv, OwnedIffPopulated, VisibleRowsAreReference, Sound

LEMMA SoundAtRestNext ==
  call' = Idle /\ (\A c \in Caches : Sound(caches'[c], fed'[c], minted')) =>
    RestInv' /\ OwnedIffPopulated' /\ VisibleRowsAreReference'
<1> SUFFICES ASSUME call' = Idle,
                    \A c \in Caches : Sound(caches'[c], fed'[c], minted')
             PROVE  RestInv' /\ OwnedIffPopulated' /\ VisibleRowsAreReference'
  OBVIOUS
<1>1. \A c \in Caches : ~InCall(c)' /\ VisibleLength(c)' = LengthOf(caches'[c])
  BY AtRestNext
<1>2. RestInv'
  BY <1>1 DEF RestInv, Sound, LengthOf
<1>3. OwnedIffPopulated'
  BY <1>1 DEF OwnedIffPopulated, Sound, LengthOf
<1>4. VisibleRowsAreReference'
  BY <1>1 DEF VisibleRowsAreReference, Sound, LengthOf, ReferenceRow
<1> QED BY <1>2, <1>3, <1>4

LEMMA RestPreserved ==
  ASSUME IInv, call' = Idle, reply'.kind \in {"none", "error"},
         ModelsType', CachesType', ModelsInv',
         \A c \in Caches : Sound(caches'[c], fed'[c], minted')
  PROVE  IInv'
<1>1. TypeOK'
  BY DEF TypeOK
<1>2. AnswerIsReference'
  BY DEF AnswerIsReference
<1> QED BY <1>1, <1>2, AtRestNext, SoundAtRestNext DEF IInv

\* Drawing an identity leaves every cache and every other model as they were.
LEMMA DrawIdentity ==
  ASSUME IInv, NEW w \in Weights \cup {NoWeights},
         minted' = Append(minted, w), call = Idle, UNCHANGED <<caches, fed>>
  PROVE  /\ CachesType'
         /\ \A c \in Caches : Sound(caches'[c], fed'[c], minted')
<1>1. ModelsType /\ CachesType /\ \A c \in Caches : Sound(caches[c], fed[c], minted)
  BY SoundAtRest DEF IInv, TypeOK
<1>2. /\ Len(minted) \in Nat
      /\ Len(minted') = Len(minted) + 1
      /\ \A i \in 1..Len(minted) : minted'[i] = minted[i]
  BY <1>1, MintedGrows
<1>3. CachesType'
  <2>1. ASSUME NEW c \in Caches PROVE CacheType(caches[c])'
    <3>1. CacheType(caches[c])
      BY <1>1 DEF CachesType
    <3> QED BY <1>2, <3>1 DEF CacheType
  <2> QED BY <1>1, <2>1 DEF CachesType
<1>4. ASSUME NEW c \in Caches PROVE Sound(caches[c], fed[c], minted')
  <2>1. Sound(caches[c], fed[c], minted) /\ caches[c].owner \in 0..Len(minted)
    BY <1>1 DEF CachesType, CacheType
  <2>2. ASSUME NEW k \in DOMAIN caches[c].layers, NEW i \in 1..LengthOf(caches[c])
        PROVE  minted'[caches[c].owner] = minted[caches[c].owner]
    <3>1. caches[c].layers # <<>> /\ LengthOf(caches[c]) # 0
      BY <2>2
    <3> QED BY <1>2, <2>1, <3>1 DEF Sound
  <2> QED BY <2>1, <2>2 DEF Sound
<1> QED BY <1>3, <1>4

LEMMA ConstructModelInv ==
  ASSUME IInv, NEW m \in Models, NEW w \in Weights, ConstructModel(m, w)
  PROVE  IInv'
<1>1. ModelsType /\ ModelsInv /\ call = Idle
  BY DEF IInv, TypeOK, ConstructModel
<1>2. /\ minted' \in Seq(Weights \cup {NoWeights})
      /\ Len(minted) \in Nat
      /\ Len(minted') = Len(minted) + 1
      /\ \A i \in 1..Len(minted) : minted'[i] = minted[i]
      /\ minted'[Len(minted) + 1] = w
  BY <1>1, MintedGrows DEF ConstructModel
<1>3. /\ DOMAIN models' = Models
      /\ models'[m] = [id |-> Len(minted) + 1, config |-> ConfigOf(w), weights |-> w]
      /\ \A n \in Models \ {m} : models'[n] = models[n]
  BY <1>1 DEF ConstructModel, ModelsType
<1>4. ModelsType'
  BY <1>1, <1>2, <1>3 DEF ConstructModel, ModelsType
<1>5. ModelsInv'
  <2>1. \A n \in Models : models[n].id \in 0..Len(minted)
    BY <1>1 DEF ModelsType
  <2>2. IdentityNamesOneModel'
    BY <1>1, <1>2, <1>3, <2>1, CacheAssumption DEF ModelsInv, IdentityNamesOneModel
  <2>3. ASSUME NEW n \in Models, models'[n].id # 0
        PROVE  /\ models'[n].config \in Configs
               /\ models'[n].weights # NoWeights =>
                    models'[n].config = ConfigOf(models'[n].weights)
    BY <1>1, <1>3, <2>3 DEF ModelsInv, Configs
  <2> QED BY <2>2, <2>3 DEF ModelsInv
<1>6. CachesType' /\ \A c \in Caches : Sound(caches'[c], fed'[c], minted')
  BY <1>1, DrawIdentity DEF ConstructModel
<1> QED BY <1>1, <1>4, <1>5, <1>6, RestPreserved DEF ConstructModel, NoReply

LEMMA RejectCheckpointInv ==
  ASSUME IInv, RejectCheckpoint
  PROVE  IInv'
<1>1. ModelsType /\ ModelsInv /\ call = Idle
  BY DEF IInv, TypeOK, RejectCheckpoint
<1>2. /\ minted' \in Seq(Weights \cup {NoWeights})
      /\ Len(minted) \in Nat
      /\ Len(minted') = Len(minted) + 1
      /\ \A i \in 1..Len(minted) : minted'[i] = minted[i]
  BY <1>1, MintedGrows DEF RejectCheckpoint
<1>3. ModelsType' /\ ModelsInv'
  BY <1>1, <1>2 DEF RejectCheckpoint, ModelsType, ModelsInv, IdentityNamesOneModel
<1>4. CachesType' /\ \A c \in Caches : Sound(caches'[c], fed'[c], minted')
  BY <1>1, DrawIdentity DEF RejectCheckpoint
<1> QED BY <1>1, <1>3, <1>4, RestPreserved DEF RejectCheckpoint, NoReply

LEMMA MoveModelInv ==
  ASSUME IInv, NEW from \in Models, NEW to \in Models, MoveModel(from, to)
  PROVE  IInv'
<1>1. /\ ModelsType /\ CachesType /\ ModelsInv /\ call = Idle
      /\ \A c \in Caches : Sound(caches[c], fed[c], minted)
  BY SoundAtRest DEF IInv, TypeOK, MoveModel
<1>2. /\ DOMAIN models' = Models
      /\ models'[to] = models[from]
      /\ models'[from] = [models[from] EXCEPT !.weights = NoWeights]
      /\ \A n \in Models \ {from, to} : models'[n] = models[n]
      /\ UNCHANGED <<minted, nextIdentity>>
  BY <1>1 DEF MoveModel, Moved, ModelsType
<1>3. /\ DOMAIN models'[from] = {"id", "config", "weights"}
      /\ models'[from].id = models[from].id
      /\ models'[from].config = models[from].config
      /\ models'[from].weights = NoWeights
  BY <1>1, <1>2 DEF ModelsType
<1>4. ModelsType'
  BY <1>1, <1>2, <1>3 DEF ModelsType
<1>5. ModelsInv'
  BY <1>1, <1>2, <1>3 DEF ModelsInv, IdentityNamesOneModel
<1>6. CachesType' /\ \A c \in Caches : Sound(caches'[c], fed'[c], minted')
  BY <1>1 DEF MoveModel, CachesType, CacheType
<1> QED BY <1>1, <1>4, <1>5, <1>6, RestPreserved DEF MoveModel, NoReply

LEMMA ModelsUntouched ==
  ModelsType /\ ModelsInv /\ UNCHANGED <<models, nextIdentity, minted>> =>
    ModelsType' /\ ModelsInv'
BY DEF ModelsType, ModelsInv, IdentityNamesOneModel

LEMMA CachesTypeNext ==
  ASSUME minted' = minted, DOMAIN caches' = Caches, fed' \in [Caches -> Seq(Tokens)],
         \A c \in Caches : CacheType(caches'[c])
  PROVE  CachesType'
<1>1. ASSUME NEW c \in Caches PROVE CacheType(caches[c])'
  <2>1. CacheType(caches'[c])
    OBVIOUS
  <2> QED BY <2>1 DEF CacheType
<1> QED BY <1>1 DEF CachesType

LEMMA BuildCacheInv ==
  ASSUME IInv, NEW c \in Caches, NEW cfg \in Configs, BuildCache(c, cfg)
  PROVE  IInv'
<1>1. /\ ModelsType /\ CachesType /\ ModelsInv /\ call = Idle
      /\ \A d \in Caches : Sound(caches[d], fed[d], minted)
  BY SoundAtRest DEF IInv, TypeOK, BuildCache
<1>2. /\ DOMAIN caches' = Caches
      /\ caches'[c] = NewCache(cfg) /\ fed'[c] = <<>>
      /\ \A d \in Caches \ {c} : caches'[d] = caches[d] /\ fed'[d] = fed[d]
      /\ fed' \in [Caches -> Seq(Tokens)]
  BY <1>1, EmptySeq DEF BuildCache, CachesType
<1>3. /\ CacheType(NewCache(cfg))
      /\ NewCache(cfg).owner = 0
      /\ LengthOf(NewCache(cfg)) = 0
      /\ \A k \in DOMAIN NewCache(cfg).layers : NewCache(cfg).layers[k].length = 0
  BY NewCacheFacts
<1>4. minted' = minted
  BY DEF BuildCache
<1>5. CachesType'
  <2>1. \A d \in Caches : CacheType(caches'[d])
    BY <1>1, <1>2, <1>3 DEF CachesType
  <2> QED BY <1>2, <1>4, <2>1, CachesTypeNext
<1>6. Sound(NewCache(cfg), <<>>, minted')
  BY <1>3, EmptySeq DEF Sound
<1>7. \A d \in Caches : Sound(caches'[d], fed'[d], minted')
  BY <1>1, <1>2, <1>4, <1>6
<1> QED BY <1>1, <1>5, <1>7, ModelsUntouched, RestPreserved DEF BuildCache, NoReply

\* Clearing and rolling back only set the lengths.
DiffersInLengths(cache, new, start) ==
  /\ DOMAIN new = DOMAIN cache
  /\ new.owner = cache.owner /\ new.shape = cache.shape
  /\ DOMAIN new.layers = DOMAIN cache.layers
  /\ \A k \in DOMAIN cache.layers :
       /\ DOMAIN new.layers[k] = DOMAIN cache.layers[k]
       /\ new.layers[k].rows = cache.layers[k].rows
       /\ new.layers[k].length = start
  /\ new.layers # <<>>
  /\ LengthOf(new) = start

LEMMA SameLengths ==
  \A cache, start :
    CacheType(cache) /\ cache.layers # <<>> =>
      DiffersInLengths(cache, RolledBack(cache, start), start)
<1> SUFFICES ASSUME NEW cache, NEW start, CacheType(cache), cache.layers # <<>>,
                    NEW new, new = RolledBack(cache, start)
             PROVE  DiffersInLengths(cache, new, start)
  OBVIOUS
<1>1. /\ DOMAIN cache = {"layers", "shape", "owner"}
      /\ \A k \in DOMAIN cache.layers : DOMAIN cache.layers[k] = {"rows", "length"}
      /\ 1 \in DOMAIN cache.layers
  BY ConfigsAreConfigs DEF CacheType, IsConfig
<1>2. /\ DOMAIN new = DOMAIN cache
      /\ new.owner = cache.owner /\ new.shape = cache.shape
      /\ DOMAIN new.layers = DOMAIN cache.layers
      /\ \A k \in DOMAIN cache.layers :
           new.layers[k] = [cache.layers[k] EXCEPT !.length = start]
  BY <1>1 DEF RolledBack
<1>3. new.layers # <<>>
  BY <1>1, <1>2
<1> QED BY <1>1, <1>2, <1>3 DEF LengthOf, DiffersInLengths

\* Clearing empties a cache and frees it.
LEMMA ClearedFacts ==
  ASSUME NEW cache, CacheType(cache)
  PROVE  CacheType(Cleared(cache)) /\ Sound(Cleared(cache), <<>>, minted)
<1> DEFINE new == Cleared(cache)
<1>1. DOMAIN cache = {"layers", "shape", "owner"}
  BY DEF CacheType
<1>2. /\ DOMAIN new = {"layers", "shape", "owner"}
      /\ new.owner = 0 /\ new.shape = cache.shape
      /\ new.layers = [k \in DOMAIN cache.layers |->
                        [cache.layers[k] EXCEPT !.length = 0]]
  BY <1>1 DEF Cleared
<1> HIDE DEF new
<1>3. CASE cache.layers = <<>>
  <2>1. new.layers = <<>>
    BY <1>2, <1>3
  <2> QED BY <1>2, <2>1, EmptySeq DEF CacheType, Sound, LengthOf, new
<1>4. CASE cache.layers # <<>>
  <2>1. PICK cfg \in Configs :
          /\ cache.shape = cfg.shape
          /\ DOMAIN cache.layers = 1..cfg.layers
          /\ \A k \in 1..cfg.layers :
               /\ DOMAIN cache.layers[k] = {"rows", "length"}
               /\ DOMAIN cache.layers[k].rows = 1..cfg.context
               /\ cache.layers[k].length \in 0..cfg.context
    BY <1>4 DEF CacheType
  <2>2. cfg.layers \in Nat \ {0} /\ cfg.context \in Nat \ {0}
    BY ConfigsAreConfigs DEF IsConfig
  <2>3. \A k \in 1..cfg.layers :
          /\ DOMAIN new.layers[k] = {"rows", "length"}
          /\ new.layers[k].rows = cache.layers[k].rows
          /\ new.layers[k].length = 0
    BY <1>2, <2>1
  <2>4. DOMAIN new.layers = 1..cfg.layers
    BY <1>2, <2>1
  <2>5. CacheType(new)
    <3>1. \A k \in 1..cfg.layers :
            /\ DOMAIN new.layers[k] = {"rows", "length"}
            /\ DOMAIN new.layers[k].rows = 1..cfg.context
            /\ new.layers[k].length \in 0..cfg.context
      BY <2>1, <2>2, <2>3
    <3>2. cache.owner \in 0..Len(minted) /\ 0 \in 0..Len(minted)
      BY DEF CacheType
    <3> QED BY <1>2, <2>1, <2>4, <3>1, <3>2 DEF CacheType
  <2>6. LengthOf(new) = 0
    BY <2>2, <2>3, <2>4 DEF LengthOf
  <2>7. Sound(new, <<>>, minted)
    BY <1>2, <2>3, <2>4, <2>6, EmptySeq DEF Sound
  <2> QED BY <2>5, <2>7 DEF new
<1> QED BY <1>3, <1>4

LEMMA ClearCacheInv ==
  ASSUME IInv, NEW c \in Caches, ClearCache(c)
  PROVE  IInv'
<1>1. /\ ModelsType /\ CachesType /\ ModelsInv /\ call = Idle
      /\ \A d \in Caches : Sound(caches[d], fed[d], minted)
  BY SoundAtRest DEF IInv, TypeOK, ClearCache
<1>2. /\ DOMAIN caches' = Caches
      /\ caches'[c] = Cleared(caches[c])
      /\ \A d \in Caches \ {c} : caches'[d] = caches[d]
      /\ fed' = fed /\ minted' = minted
  BY <1>1 DEF ClearCache, CachesType
<1>3. CacheType(Cleared(caches[c])) /\ Sound(Cleared(caches[c]), <<>>, minted)
  BY <1>1, ClearedFacts DEF CachesType
<1>4. Sound(Cleared(caches[c]), fed[c], minted)
  <2>1. LengthOf(Cleared(caches[c])) \in Nat
    BY <1>3, ConfigsAreConfigs DEF CacheType, LengthOf, IsConfig
  <2>2. LengthOf(Cleared(caches[c])) = 0
    BY <1>3, <2>1, EmptySeq DEF Sound
  <2>3. Len(fed[c]) \in Nat
    BY <1>1, LenProperties DEF CachesType
  <2> QED BY <1>3, <2>2, <2>3 DEF Sound
<1>5. CachesType'
  <2>1. \A d \in Caches : CacheType(caches'[d])
    BY <1>1, <1>2, <1>3 DEF CachesType
  <2> QED BY <1>1, <1>2, <2>1, CachesTypeNext DEF CachesType
<1>6. \A d \in Caches : Sound(caches'[d], fed'[d], minted')
  BY <1>1, <1>2, <1>4
<1> QED BY <1>1, <1>5, <1>6, ModelsUntouched, RestPreserved DEF ClearCache, NoReply

LEMMA CopyCacheInv ==
  ASSUME IInv, NEW from \in Caches, NEW to \in Caches, CopyCache(from, to)
  PROVE  IInv'
<1>1. /\ ModelsType /\ CachesType /\ ModelsInv /\ call = Idle
      /\ \A d \in Caches : Sound(caches[d], fed[d], minted)
  BY SoundAtRest DEF IInv, TypeOK, CopyCache
<1>2. /\ DOMAIN caches' = Caches
      /\ caches'[to] = caches[from] /\ fed'[to] = fed[from]
      /\ \A d \in Caches \ {to} : caches'[d] = caches[d] /\ fed'[d] = fed[d]
      /\ fed' \in [Caches -> Seq(Tokens)]
      /\ minted' = minted
  BY <1>1 DEF CopyCache, CachesType
<1>3. CachesType'
  <2>1. \A d \in Caches : CacheType(caches'[d])
    BY <1>1, <1>2 DEF CachesType
  <2> QED BY <1>2, <2>1, CachesTypeNext
<1>4. \A d \in Caches : Sound(caches'[d], fed'[d], minted')
  BY <1>1, <1>2
<1> QED BY <1>1, <1>3, <1>4, ModelsUntouched, RestPreserved DEF CopyCache, NoReply

\* A cache that was moved from has no layers, so it holds no tokens either.
LEMMA HollowFacts ==
  ASSUME NEW cache, CacheType(cache)
  PROVE  CacheType(Hollow(cache)) /\ Sound(Hollow(cache), <<>>, minted)
<1>1. DOMAIN cache = {"layers", "shape", "owner"}
  BY DEF CacheType
<1>2. /\ DOMAIN Hollow(cache) = {"layers", "shape", "owner"}
      /\ Hollow(cache).owner = cache.owner
      /\ Hollow(cache).layers = <<>>
  BY <1>1 DEF Hollow
<1> QED BY <1>2, EmptySeq DEF CacheType, Sound, LengthOf

LEMMA MoveCacheInv ==
  ASSUME IInv, NEW from \in Caches, NEW to \in Caches, MoveCache(from, to)
  PROVE  IInv'
<1>1. /\ ModelsType /\ CachesType /\ ModelsInv /\ call = Idle
      /\ \A d \in Caches : Sound(caches[d], fed[d], minted)
  BY SoundAtRest DEF IInv, TypeOK, MoveCache
<1>2. /\ DOMAIN caches' = Caches
      /\ caches'[to] = caches[from] /\ fed'[to] = fed[from]
      /\ caches'[from] = Hollow(caches[from]) /\ fed'[from] = <<>>
      /\ \A d \in Caches \ {from, to} : caches'[d] = caches[d] /\ fed'[d] = fed[d]
      /\ fed' \in [Caches -> Seq(Tokens)]
      /\ minted' = minted
  BY <1>1, EmptySeq DEF MoveCache, CachesType
<1>3. CacheType(Hollow(caches[from])) /\ Sound(Hollow(caches[from]), <<>>, minted)
  BY <1>1, HollowFacts DEF CachesType
<1>4. CachesType'
  <2>1. \A d \in Caches : CacheType(caches'[d])
    BY <1>1, <1>2, <1>3 DEF CachesType
  <2> QED BY <1>2, <2>1, CachesTypeNext
<1>5. \A d \in Caches : Sound(caches'[d], fed'[d], minted')
  BY <1>1, <1>2, <1>3
<1> QED BY <1>1, <1>4, <1>5, ModelsUntouched, RestPreserved DEF MoveCache, NoReply

-----------------------------------------------------------------------------
(* A pass begins. *)

LEMMA RefuseInv ==
  ASSUME IInv, call = Idle, reply'.kind = "error",
         UNCHANGED <<models, nextIdentity, caches, call, fed, minted>>
  PROVE  IInv'
<1>1. /\ ModelsType /\ CachesType /\ ModelsInv
      /\ \A d \in Caches : Sound(caches[d], fed[d], minted)
  BY SoundAtRest DEF IInv, TypeOK
<1>2. CachesType'
  BY <1>1, CachesTypeNext DEF CachesType
<1> QED BY <1>1, <1>2, ModelsUntouched, RestPreserved

LEMMA AcceptUncachedInv ==
  ASSUME IInv, NEW m \in Models, NEW tokens \in Calls, NEW lastOnly \in BOOLEAN,
         AcceptUncached(m, tokens, lastOnly)
  PROVE  IInv'
<1>1. /\ ModelsType /\ CachesType /\ ModelsInv /\ call = Idle
      /\ \A d \in Caches : Sound(caches[d], fed[d], minted)
  BY SoundAtRest DEF IInv, TypeOK, AcceptUncached
<1>2. /\ DOMAIN call' = {"stage", "model", "cache", "tokens", "lastOnly", "start",
                         "layer", "hidden"}
      /\ call'.stage = "embed" /\ call'.model = m /\ call'.cache = NoCache
      /\ call'.tokens = tokens /\ call'.lastOnly = lastOnly /\ call'.start = 0
      /\ call'.layer = 1
      /\ call' # Idle
      /\ UNCHANGED <<models, nextIdentity, caches, fed, minted>>
  BY DEF AcceptUncached, Idle
<1>3. TypeOK'
  <2>1. ModelsType' /\ CachesType'
    BY <1>1, <1>2, ModelsUntouched, CachesTypeNext DEF CachesType
  <2>2. CallType'
    BY <1>2 DEF CallType, Stages
  <2> QED BY <2>1, <2>2 DEF TypeOK, AcceptUncached, NoReply
<1>4. \A c \in Caches : ~InCall(c)' /\ VisibleLength(c)' = LengthOf(caches[c])
  BY <1>2, CacheAssumption DEF InCall, VisibleLength, LengthOf
<1>5. RestInv' /\ OwnedIffPopulated' /\ VisibleRowsAreReference'
  BY <1>1, <1>2, <1>4 DEF RestInv, OwnedIffPopulated, VisibleRowsAreReference, Sound,
     LengthOf, ReferenceRow
<1>6. PassInv'
  <2>1. Len(tokens) \in Nat
    BY CallTokens
  <2>2. /\ models[m].id # 0 /\ tokens # <<>>
        /\ ~(Len(tokens) > models[m].config.context)
    BY DEF AcceptUncached, TokenRefusal
  <2>3. IsConfig(models[m].config)
    BY <1>1, <2>2, ConfigsAreConfigs DEF ModelsInv
  <2> QED BY <1>2, <2>1, <2>2, <2>3 DEF PassInv, Computing, IsConfig
<1>7. CachedPassInv' /\ HiddenInv' /\ ModelsInv' /\ AnswerIsReference'
  BY <1>1, <1>2, ModelsUntouched
  DEF CachedPassInv, HiddenInv, Computing, AnswerIsReference, AcceptUncached, NoReply
<1> QED BY <1>3, <1>5, <1>6, <1>7 DEF IInv

LEMMA AcceptCachedInv ==
  ASSUME IInv, NEW m \in Models, NEW c \in Caches, NEW tokens \in Calls,
         NEW lastOnly \in BOOLEAN, AcceptCached(m, c, tokens, lastOnly)
  PROVE  IInv'
<1>1. /\ ModelsType /\ CachesType /\ ModelsInv /\ call = Idle
      /\ \A d \in Caches : Sound(caches[d], fed[d], minted)
  BY SoundAtRest DEF IInv, TypeOK, AcceptCached
<1>2. /\ DOMAIN call' = {"stage", "model", "cache", "tokens", "lastOnly", "start",
                         "layer", "hidden"}
      /\ call'.stage = "embed" /\ call'.model = m /\ call'.cache = c
      /\ call'.tokens = tokens /\ call'.lastOnly = lastOnly
      /\ call'.start = LengthOf(caches[c]) /\ call'.layer = 1
      /\ call' # Idle
      /\ UNCHANGED <<models, nextIdentity, caches, fed, minted>>
  BY DEF AcceptCached, Idle
<1>3. /\ models[m].id # 0
      /\ ~Mismatched(m, c) /\ ~Foreign(m, c) /\ ~Torn(c)
      /\ tokens # <<>>
      /\ ~(Len(tokens) > models[m].config.context - LengthOf(caches[c]))
  BY DEF AcceptCached, Refusal, TokenRefusal
<1>4. /\ models[m].config.layers \in Nat \ {0}
      /\ models[m].config.context \in Nat \ {0}
  BY <1>1, <1>3, ConfigsAreConfigs DEF ModelsInv, IsConfig
<1>5. DOMAIN caches[c].layers = 1..models[m].config.layers /\ caches[c].layers # <<>>
  BY <1>3, <1>4 DEF Mismatched
<1>6. PICK cfg \in Configs :
        /\ DOMAIN caches[c].layers = 1..cfg.layers
        /\ \A k \in 1..cfg.layers :
             /\ DOMAIN caches[c].layers[k].rows = 1..cfg.context
             /\ caches[c].layers[k].length \in 0..cfg.context
  BY <1>1, <1>5 DEF CachesType, CacheType
<1>7. cfg.layers \in Nat \ {0} /\ cfg.context \in Nat \ {0}
  BY ConfigsAreConfigs DEF IsConfig
<1>8. /\ LengthOf(caches[c]) \in Nat
      /\ \A k \in 1..models[m].config.layers :
           /\ DOMAIN caches[c].layers[k].rows = 1..models[m].config.context
           /\ caches[c].layers[k].length = LengthOf(caches[c])
  <2>1. LengthOf(caches[c]) \in Nat
    BY <1>5, <1>6, <1>7 DEF LengthOf
  <2>2. 1..cfg.context = 1..models[m].config.context
    BY <1>3, <1>5, <1>6, <1>7 DEF Mismatched, PositionsOf
  <2> QED BY <1>1, <1>5, <1>6, <2>1, <2>2 DEF Sound
<1>9. TypeOK'
  <2>1. ModelsType' /\ CachesType'
    BY <1>1, <1>2, ModelsUntouched, CachesTypeNext DEF CachesType
  <2>2. CallType'
    BY <1>2, <1>8 DEF CallType, Stages
  <2> QED BY <2>1, <2>2 DEF TypeOK, AcceptCached, NoReply
<1>10. \A d \in Caches : VisibleLength(d)' = LengthOf(caches[d])
  BY <1>2 DEF InCall, VisibleLength, LengthOf
<1>11. RestInv' /\ OwnedIffPopulated' /\ VisibleRowsAreReference'
  BY <1>1, <1>2, <1>10 DEF RestInv, OwnedIffPopulated, VisibleRowsAreReference, Sound,
     LengthOf, ReferenceRow
<1>12. PassInv'
  <2>1. Len(tokens) \in Nat
    BY CallTokens
  <2> QED BY <1>2, <1>3, <1>4, <1>8, <2>1, CacheAssumption
          DEF PassInv, Computing
<1>13. CachedPassInv'
  <2>1. caches[c].owner \in {0, models[m].id}
    BY <1>3 DEF Foreign
  <2>2. LengthOf(caches[c]) <= Len(fed[c])
    BY <1>1 DEF Sound
  <2> QED BY <1>2, <1>5, <1>8, <2>1, <2>2 DEF CachedPassInv, Computing
<1>14. HiddenInv' /\ ModelsInv' /\ AnswerIsReference'
  BY <1>1, <1>2, ModelsUntouched
  DEF HiddenInv, Computing, AnswerIsReference, AcceptCached, NoReply
<1> QED BY <1>9, <1>11, <1>12, <1>13, <1>14 DEF IInv

-----------------------------------------------------------------------------
(* A pass under way. *)

\* What every step of a pass starts from.
LEMMA PassFacts ==
  ASSUME IInv, call # Idle
  PROVE  /\ CallType /\ PassInv /\ ModelsType /\ CachesType /\ ModelsInv
         /\ call.tokens \in Seq(Tokens) /\ Len(call.tokens) \in Nat \ {0}
         /\ IsConfig(models[call.model].config)
         /\ W \in Weights \cup {NoWeights}
         /\ W # NoWeights => models[call.model].config = ConfigOf(W)
<1>1. CallType /\ PassInv /\ ModelsType /\ CachesType /\ ModelsInv
  BY DEF IInv, TypeOK
<1>2. call.tokens \in Seq(Tokens) /\ Len(call.tokens) \in Nat \ {0}
  BY <1>1, CallTokens, EmptySeq DEF CallType, PassInv
<1>3. models[call.model].id # 0
  BY <1>1 DEF PassInv
<1>4. IsConfig(models[call.model].config)
  BY <1>1, <1>3, ConfigsAreConfigs DEF CallType, ModelsInv
<1>5. /\ W \in Weights \cup {NoWeights}
      /\ W # NoWeights => models[call.model].config = ConfigOf(W)
  BY <1>1, <1>3 DEF CallType, ModelsType, ModelsInv, W
<1> QED BY <1>1, <1>2, <1>4, <1>5

LEMMA ComputingFacts ==
  ASSUME IInv, Computing
  PROVE  /\ call # Idle
         /\ W \in Weights
         /\ models[call.model].config = ConfigOf(W)
         /\ Text \in Seq(Tokens)
         /\ Len(Text) = call.start + Len(call.tokens)
         /\ Len(Text) <= ConfigOf(W).context
         /\ call.layer \in 1..ConfigOf(W).layers
<1>1. call # Idle
  BY DEF Computing, Idle
<1>2. /\ CallType /\ PassInv /\ CachesType
      /\ call.tokens \in Seq(Tokens) /\ Len(call.tokens) \in Nat \ {0}
      /\ IsConfig(models[call.model].config)
      /\ W \in Weights \cup {NoWeights}
      /\ W # NoWeights => models[call.model].config = ConfigOf(W)
  BY <1>1, PassFacts
<1>3. W \in Weights /\ models[call.model].config = ConfigOf(W)
  BY <1>1, <1>2 DEF PassInv
<1>4. call.layer \in 1..ConfigOf(W).layers
  BY <1>1, <1>2, <1>3 DEF PassInv, CallType, IsConfig
<1>5. Text \in Seq(Tokens) /\ Len(Text) = call.start + Len(call.tokens)
  <2>1. CASE call.cache = NoCache
    BY <1>1, <1>2, <2>1 DEF Text, PassInv
  <2>2. CASE call.cache # NoCache
    <3>1. call.cache \in Caches
      BY <1>2, <2>2 DEF CallType
    <3> QED BY <1>1, <1>2, <2>2, <3>1 DEF Text, IInv, CachedPassInv, CachesType
  <2> QED BY <2>1, <2>2
<1>6. Len(Text) <= ConfigOf(W).context
  BY <1>1, <1>2, <1>3, <1>5 DEF PassInv
<1> QED BY <1>1, <1>3, <1>4, <1>5, <1>6

\* A step inside a pass that touches, of the cache of the pass, nothing a
\* caller may count on, and nothing else.
LEMMA MidPass ==
  ASSUME IInv, call # Idle, CallType', call'.cache = call.cache,
         call'.start = call.start, UNCHANGED <<models, nextIdentity, minted, reply>>,
         CachesType',
         \A c \in Caches \ {call.cache} : caches'[c] = caches[c] /\ fed'[c] = fed[c],
         call.cache \in Caches =>
           LET c == call.cache IN
           /\ caches'[c].owner = caches[c].owner
           /\ DOMAIN caches'[c].layers = DOMAIN caches[c].layers
           /\ caches[c].layers # <<>>
           /\ \A i \in 1..call.start :
                /\ Prefix(fed'[c], i) = Prefix(fed[c], i)
                /\ \A k \in DOMAIN caches[c].layers :
                     caches'[c].layers[k].rows[i] = caches[c].layers[k].rows[i],
         PassInv', CachedPassInv', HiddenInv'
  PROVE  IInv'
<1>1. call' # Idle
  BY DEF CallType, Stages, Idle
<1>2. \A c \in Caches : InCall(c)' = InCall(c)
  BY <1>1 DEF InCall
<1>3. \A c \in Caches : VisibleLength(c)' = VisibleLength(c)
  BY <1>2 DEF VisibleLength, LengthOf, InCall
<1>4. TypeOK' /\ ModelsInv' /\ AnswerIsReference'
  BY ModelsUntouched DEF IInv, TypeOK, AnswerIsReference
<1>5. RestInv'
  BY <1>2 DEF IInv, RestInv, InCall, LengthOf
<1>6. OwnedIffPopulated'
  BY <1>3 DEF IInv, OwnedIffPopulated
<1>7. VisibleRowsAreReference'
  <2>1. SUFFICES ASSUME NEW c \in Caches, NEW k \in DOMAIN caches'[c].layers,
                        NEW i \in 1..VisibleLength(c)
                 PROVE  caches'[c].layers[k].rows[i] =
                          ReferenceRow(minted[caches'[c].owner], k, fed'[c], i)
    BY <1>3 DEF VisibleRowsAreReference, ReferenceRow
  <2>2. CASE c # call.cache
    BY <2>1, <2>2 DEF IInv, VisibleRowsAreReference
  <2>3. CASE c = call.cache
    <3>1. VisibleLength(c) = call.start
      BY <2>3 DEF VisibleLength, InCall
    <3>2. caches[c].layers[k].rows[i] =
            ReferenceRow(minted[caches[c].owner], k, fed[c], i)
      BY <2>1, <2>3 DEF IInv, VisibleRowsAreReference
    <3> QED BY <2>1, <2>3, <3>1, <3>2 DEF ReferenceRow
  <2> QED BY <2>2, <2>3
<1> QED BY <1>4, <1>5, <1>6, <1>7 DEF IInv

\* The cache of the pass has layers.
LEMMA PassHasLayers ==
  ASSUME IInv, call # Idle, call.cache \in Caches
  PROVE  /\ call.cache # NoCache
         /\ caches[call.cache].layers # <<>>
         /\ DOMAIN caches[call.cache].layers = 1..models[call.model].config.layers
         /\ 1 \in 1..models[call.model].config.layers
<1>1. call.cache # NoCache
  BY CacheAssumption
<1>2. IsConfig(models[call.model].config)
  BY PassFacts
<1>3. DOMAIN caches[call.cache].layers = 1..models[call.model].config.layers
  BY <1>1 DEF IInv, CachedPassInv
<1> QED BY <1>1, <1>2, <1>3 DEF IsConfig

LEMMA EmbedTokensInv == ASSUME IInv, EmbedTokens PROVE IInv'
<1>1. call # Idle /\ call.stage = "embed"
  BY DEF EmbedTokens, Idle
<1>2. /\ CallType /\ PassInv /\ ModelsType /\ CachesType /\ ModelsInv
      /\ call.tokens \in Seq(Tokens) /\ Len(call.tokens) \in Nat \ {0}
      /\ IsConfig(models[call.model].config)
      /\ W \in Weights /\ models[call.model].config = ConfigOf(W)
  BY <1>1, PassFacts DEF EmbedTokens
<1>3. /\ DOMAIN call' = DOMAIN call
      /\ call'.stage = "layer" /\ call'.model = call.model
      /\ call'.cache = call.cache /\ call'.tokens = call.tokens
      /\ call'.lastOnly = call.lastOnly /\ call'.start = call.start
      /\ call'.layer = call.layer
      /\ \A q \in New :
           call'.hidden[q] = Embed(W, call.tokens[q], call.start + q - 1)
      /\ call' # Idle
  BY <1>1, <1>2 DEF EmbedTokens, Embedded, CallType, Idle
<1>4. UNCHANGED <<models, nextIdentity, caches, reply, minted>>
  BY DEF EmbedTokens
<1>5. CallType'
  BY <1>2, <1>3 DEF CallType, Stages
<1>6. W' = W /\ Computing' /\ call'.layer = 1
  BY <1>1, <1>2, <1>3, <1>4 DEF W, Computing, PassInv
<1>7. /\ fed' \in [Caches -> Seq(Tokens)]
      /\ \A c \in Caches \ {call.cache} : fed'[c] = fed[c]
      /\ call.cache \in Caches =>
           LET c == call.cache IN
           /\ Len(fed'[c]) = call.start + Len(call.tokens)
           /\ \A i \in 0..call.start : Prefix(fed'[c], i) = Prefix(fed[c], i)
           /\ \A q \in New : fed'[c][call.start + q] = call.tokens[q]
  <2>1. CASE call.cache = NoCache
    BY <1>2, <2>1, CacheAssumption DEF EmbedTokens, CachesType
  <2>2. CASE call.cache # NoCache
    <3>1. call.cache \in Caches /\ fed[call.cache] \in Seq(Tokens)
      BY <1>2, <2>2 DEF CallType, CachesType
    <3>2. call.start \in 0..Len(fed[call.cache])
      BY <1>1, <1>2, <2>2, <3>1, LenProperties DEF IInv, CachedPassInv, CallType
    <3>3. fed'[call.cache] = Extended(fed[call.cache], call.start, call.tokens)
      BY <1>2, <2>2, <3>1 DEF EmbedTokens, CachesType
    <3>4. /\ fed'[call.cache] \in Seq(Tokens)
          /\ Len(fed'[call.cache]) = call.start + Len(call.tokens)
          /\ \A i \in 0..call.start :
               Prefix(fed'[call.cache], i) = Prefix(fed[call.cache], i)
          /\ \A q \in 1..Len(call.tokens) :
               fed'[call.cache][call.start + q] = call.tokens[q]
      <4>1. /\ fed[call.cache] \in Seq(Tokens) /\ call.tokens \in Seq(Tokens)
            /\ call.start \in 0..Len(fed[call.cache])
        BY <1>2, <3>1, <3>2
      <4>2. LET t == Extended(fed[call.cache], call.start, call.tokens) IN
            /\ t \in Seq(Tokens)
            /\ Len(t) = call.start + Len(call.tokens)
            /\ \A i \in 0..call.start : Prefix(t, i) = Prefix(fed[call.cache], i)
            /\ \A q \in 1..Len(call.tokens) : t[call.start + q] = call.tokens[q]
        BY <4>1, ExtendedText
      <4> QED BY <3>3, <4>2
    <3> QED BY <1>2, <2>2, <3>1, <3>4 DEF EmbedTokens, CachesType, New
  <2> QED BY <2>1, <2>2
<1>8. CachesType'
  BY <1>2, <1>4, <1>7, CachesTypeNext DEF CachesType
<1>9. PassInv'
  BY <1>1, <1>2, <1>3, <1>4, <1>6, CacheAssumption DEF PassInv, W, CallType, IsConfig
<1>10. CachedPassInv'
  <2>1. SUFFICES ASSUME call.cache # NoCache PROVE CachedPassInv'
    BY <1>3 DEF CachedPassInv
  <2>2. call.cache \in Caches
    BY <1>2, <2>1 DEF CallType
  <2>3. /\ DOMAIN caches[call.cache].layers = 1..models[call.model].config.layers
        /\ \A k \in 1..models[call.model].config.layers :
             /\ DOMAIN caches[call.cache].layers[k].rows =
                  1..models[call.model].config.context
             /\ caches[call.cache].layers[k].length = call.start
        /\ caches[call.cache].owner \in {0, models[call.model].id}
    BY <1>1, <2>1 DEF IInv, CachedPassInv
  <2>4. \A k \in 1..models[call.model].config.layers : ~Reached(k)' /\ ~Written(k)'
    BY <1>2, <1>3, <1>6 DEF Reached, Written, IsConfig
  <2>5. call.start <= Len(fed'[call.cache])
    BY <1>2, <1>7, <2>2 DEF CallType
  <2> QED BY <1>1, <1>3, <1>4, <1>7, <2>1, <2>2, <2>3, <2>4, <2>5 DEF CachedPassInv
<1>11. HiddenInv'
  <2>1. /\ Text' \in Seq(Tokens) /\ Len(Text') = call.start + Len(call.tokens)
        /\ \A q \in New : Text'[call.start + q] = call.tokens[q]
    <3>1. CASE call.cache = NoCache
      BY <1>1, <1>2, <1>3, <3>1 DEF Text, PassInv, New
    <3>2. CASE call.cache # NoCache
      <4>1. call.cache \in Caches
        BY <1>2, <3>2 DEF CallType
      <4> QED BY <1>3, <1>7, <3>2, <4>1 DEF Text
    <3> QED BY <3>1, <3>2
  <2>2. /\ call.start \in Nat
        /\ call.start + Len(call.tokens) <= ConfigOf(W).context
    BY <1>1, <1>2 DEF PassInv, CallType
  <2>3. ASSUME NEW q \in New
        PROVE  call'.hidden[q] = Uncached(W, 0, Prefix(Text', call.start + q))
    <3> DEFINE text == Text'
               n == call.start + q
    <3>1. text \in Seq(Tokens) /\ text[n] = call.tokens[q]
      BY <2>1
    <3>2. /\ n \in 1..Len(text) /\ n <= ConfigOf(W).context /\ n - 1 = call.start + q - 1
      BY <1>2, <2>1, <2>2, ConfigAssumption DEF New, IsConfig
    <3>3. call'.hidden[q] = Embed(W, call.tokens[q], call.start + q - 1)
      BY <1>3
    <3> HIDE DEF text, n
    <3>4. Uncached(W, 0, Prefix(text, n)) = Embed(W, text[n], n - 1)
      BY <1>2, <3>1, <3>2, LevelZero
    <3>5. call'.hidden[q] = Uncached(W, 0, Prefix(text, n))
      BY <3>1, <3>2, <3>3, <3>4
    <3> QED BY <3>5 DEF text, n
  <2>4. New' = New
    BY <1>3 DEF New
  <2> QED BY <1>3, <1>6, <2>3, <2>4 DEF HiddenInv
<1>12. call.cache \in Caches => caches[call.cache].layers # <<>>
  BY <1>1, PassHasLayers
<1>13. call.start \in Nat
  BY <1>2 DEF CallType
<1> QED BY <1>1, <1>3, <1>4, <1>5, <1>7, <1>8, <1>9, <1>10, <1>11, <1>12, <1>13, MidPass

\* The cache of a pass that is computing, layer by layer.
LEMMA CachedPassFacts ==
  ASSUME IInv, Computing, call.cache # NoCache
  PROVE  LET cache == caches[call.cache]
             n == Len(call.tokens)
         IN
         /\ call.cache \in Caches
         /\ Text = fed[call.cache]
         /\ DOMAIN cache = {"layers", "shape", "owner"}
         /\ DOMAIN cache.layers = 1..ConfigOf(W).layers
         /\ cache.owner \in {0, models[call.model].id}
         /\ \A k \in 1..ConfigOf(W).layers :
              /\ DOMAIN cache.layers[k] = {"rows", "length"}
              /\ DOMAIN cache.layers[k].rows = 1..ConfigOf(W).context
              /\ cache.layers[k].length =
                   IF Reached(k) THEN call.start + n ELSE call.start
              /\ Written(k) =>
                   \A i \in (call.start + 1)..(call.start + n) :
                     cache.layers[k].rows[i] = ReferenceRow(W, k, Text, i)
<1>1. /\ call # Idle /\ models[call.model].config = ConfigOf(W)
      /\ CallType /\ CachesType
  BY ComputingFacts DEF IInv, TypeOK
<1>2. call.cache \in Caches /\ Text = fed[call.cache]
  BY <1>1 DEF CallType, Text
<1>3. /\ DOMAIN caches[call.cache].layers = 1..ConfigOf(W).layers
      /\ caches[call.cache].owner \in {0, models[call.model].id}
      /\ \A k \in 1..ConfigOf(W).layers :
           /\ DOMAIN caches[call.cache].layers[k].rows = 1..ConfigOf(W).context
           /\ caches[call.cache].layers[k].length =
                IF Reached(k) THEN call.start + Len(call.tokens) ELSE call.start
           /\ Written(k) =>
                \A i \in (call.start + 1)..(call.start + Len(call.tokens)) :
                  caches[call.cache].layers[k].rows[i] = ReferenceRow(W, k, Text, i)
  BY <1>1 DEF IInv, CachedPassInv
<1>4. /\ DOMAIN caches[call.cache] = {"layers", "shape", "owner"}
      /\ \A k \in 1..ConfigOf(W).layers :
           DOMAIN caches[call.cache].layers[k] = {"rows", "length"}
  <2>1. CacheType(caches[call.cache]) /\ caches[call.cache].layers # <<>>
    BY <1>1, <1>2, PassHasLayers DEF CachesType
  <2> QED BY <1>3, <2>1 DEF CacheType
<1> QED BY <1>2, <1>3, <1>4

\* The cache of the pass stays a cache of its configuration when one layer
\* changes within it.
WithLayer(cache, k, layer) == [cache EXCEPT !.layers[k] = layer]

Fits(cache, k, layer) ==
  /\ CacheType(cache)
  /\ k \in DOMAIN cache.layers
  /\ DOMAIN layer = {"rows", "length"}
  /\ DOMAIN layer.rows = DOMAIN cache.layers[k].rows
  /\ layer.length \in Nat
  /\ layer.length = 0 \/ layer.length \in DOMAIN layer.rows

DiffersIn(cache, new, k, layer) ==
  /\ CacheType(new)
  /\ DOMAIN new.layers = DOMAIN cache.layers
  /\ new.layers[k] = layer
  /\ \A j \in DOMAIN cache.layers : j # k => new.layers[j] = cache.layers[j]
  /\ new.owner = cache.owner /\ new.shape = cache.shape

LEMMA OneLayer ==
  \A cache, k, layer :
    Fits(cache, k, layer) => DiffersIn(cache, WithLayer(cache, k, layer), k, layer)
<1> SUFFICES
      ASSUME NEW cache, CacheType(cache), NEW k \in DOMAIN cache.layers, NEW layer,
             DOMAIN layer = {"rows", "length"},
             DOMAIN layer.rows = DOMAIN cache.layers[k].rows,
             layer.length \in Nat,
             layer.length = 0 \/ layer.length \in DOMAIN layer.rows,
             NEW new, new = [cache EXCEPT !.layers[k] = layer]
      PROVE  /\ CacheType(new)
             /\ DOMAIN new.layers = DOMAIN cache.layers
             /\ new.layers[k] = layer
             /\ \A j \in DOMAIN cache.layers : j # k => new.layers[j] = cache.layers[j]
             /\ new.owner = cache.owner /\ new.shape = cache.shape
  BY DEF WithLayer, Fits, DiffersIn
<1>1. DOMAIN cache = {"layers", "shape", "owner"} /\ cache.layers # <<>>
  BY DEF CacheType
<1>2. /\ DOMAIN new = {"layers", "shape", "owner"}
      /\ new.layers = [cache.layers EXCEPT ![k] = layer]
      /\ new.owner = cache.owner /\ new.shape = cache.shape
  BY <1>1
<1>3. /\ DOMAIN new.layers = DOMAIN cache.layers
      /\ new.layers[k] = layer
      /\ \A j \in DOMAIN cache.layers : j # k => new.layers[j] = cache.layers[j]
  BY <1>2
<1>4. CacheType(new)
  <2>1. PICK cfg \in Configs :
          /\ cache.shape = cfg.shape
          /\ DOMAIN cache.layers = 1..cfg.layers
          /\ \A j \in 1..cfg.layers :
               /\ DOMAIN cache.layers[j] = {"rows", "length"}
               /\ DOMAIN cache.layers[j].rows = 1..cfg.context
               /\ cache.layers[j].length \in 0..cfg.context
    BY <1>1 DEF CacheType
  <2>2. cfg.context \in Nat \ {0}
    BY ConfigsAreConfigs DEF IsConfig
  <2>3. layer.length \in 0..cfg.context /\ DOMAIN layer.rows = 1..cfg.context
    BY <2>1, <2>2
  <2>4. \A j \in 1..cfg.layers :
          /\ DOMAIN new.layers[j] = {"rows", "length"}
          /\ DOMAIN new.layers[j].rows = 1..cfg.context
          /\ new.layers[j].length \in 0..cfg.context
    BY <1>3, <2>1, <2>3
  <2>5. cache.owner \in 0..Len(minted)
    BY DEF CacheType
  <2> QED BY <1>2, <1>3, <2>1, <2>4, <2>5 DEF CacheType
<1> QED BY <1>2, <1>3, <1>4

LEMMA AppendRowsInv == ASSUME IInv, AppendRows PROVE IInv'
<1> DEFINE c == call.cache
           k == call.layer
           n == Len(call.tokens)
           new == [q \in New |-> ProjectKV(W, k, call.hidden[q])]
<1>1. /\ Computing /\ call.stage = "layer" /\ c # NoCache
      /\ UNCHANGED <<models, nextIdentity, reply, fed, minted>>
  BY DEF AppendRows, Computing
<1>2. /\ call # Idle /\ W \in Weights /\ models[call.model].config = ConfigOf(W)
      /\ Text \in Seq(Tokens) /\ Len(Text) = call.start + n
      /\ Len(Text) <= ConfigOf(W).context
      /\ k \in 1..ConfigOf(W).layers
  BY <1>1, ComputingFacts
<1>3. /\ CallType /\ PassInv /\ CachesType /\ n \in Nat \ {0} /\ call.start \in Nat
      /\ IsConfig(ConfigOf(W))
  BY <1>2, PassFacts DEF CallType
<1>4. /\ c \in Caches
      /\ Text = fed[c]
      /\ DOMAIN caches[c].layers = 1..ConfigOf(W).layers
      /\ caches[c].owner \in {0, models[call.model].id}
      /\ \A j \in 1..ConfigOf(W).layers :
           /\ DOMAIN caches[c].layers[j] = {"rows", "length"}
           /\ DOMAIN caches[c].layers[j].rows = 1..ConfigOf(W).context
           /\ caches[c].layers[j].length = IF Reached(j) THEN call.start + n ELSE call.start
           /\ Written(j) =>
                \A i \in (call.start + 1)..(call.start + n) :
                  caches[c].layers[j].rows[i] = ReferenceRow(W, j, Text, i)
  BY <1>1, CachedPassFacts
<1>5. Layer = caches[c].layers[k] /\ Layer.length = call.start
  BY <1>1, <1>2, <1>3, <1>4 DEF Layer, Reached
<1>6. /\ DOMAIN call' = DOMAIN call
      /\ call'.stage = "attend" /\ call'.model = call.model
      /\ call'.cache = c /\ call'.tokens = call.tokens
      /\ call'.lastOnly = call.lastOnly /\ call'.start = call.start
      /\ call'.layer = k /\ call'.hidden = call.hidden
      /\ call' # Idle
  BY <1>3 DEF AppendRows, CallType, Idle
<1>7. CallType' /\ Computing' /\ W' = W /\ Text' = Text /\ New' = New
  BY <1>1, <1>3, <1>6 DEF CallType, Stages, Computing, W, Text, New
\* The new rows, and what the layer becomes.
<1>8. ASSUME NEW q \in New
      PROVE  new[q] = ReferenceRow(W, k, Text, call.start + q)
  <2>1. call.hidden[q] = Uncached(W, k - 1, Prefix(Text, call.start + q))
    BY <1>1 DEF IInv, HiddenInv
  <2> QED BY <2>1 DEF ReferenceRow
<1> DEFINE layer == Appended(Layer, new)
<1>9. /\ DOMAIN layer = {"rows", "length"}
      /\ layer.length = call.start
      /\ DOMAIN layer.rows = 1..ConfigOf(W).context
      /\ \A i \in 1..call.start : layer.rows[i] = Layer.rows[i]
      /\ \A q \in New : layer.rows[call.start + q] = new[q]
  <2>1. DOMAIN Layer = {"rows", "length"} /\ DOMAIN Layer.rows = 1..ConfigOf(W).context
    BY <1>2, <1>4, <1>5
  <2>2. /\ DOMAIN layer = {"rows", "length"}
        /\ layer.length = call.start
        /\ layer.rows = [i \in 1..ConfigOf(W).context |->
                          IF i - call.start \in New THEN new[i - call.start]
                          ELSE Layer.rows[i]]
    BY <1>5, <2>1 DEF Appended
  <2>3. call.start + n <= ConfigOf(W).context /\ ConfigOf(W).context \in Nat
    BY <1>2, <1>3 DEF IsConfig
  <2>4. ASSUME NEW i \in 1..call.start PROVE layer.rows[i] = Layer.rows[i]
    <3>1. i \in 1..ConfigOf(W).context /\ ~(i - call.start \in New)
      BY <1>3, <2>3 DEF New
    <3> QED BY <2>2, <3>1
  <2>5. ASSUME NEW q \in New PROVE layer.rows[call.start + q] = new[q]
    <3>1. /\ call.start + q \in 1..ConfigOf(W).context
          /\ (call.start + q) - call.start = q
      BY <1>3, <2>3 DEF New
    <3> QED BY <2>2, <3>1
  <2>6. DOMAIN layer.rows = 1..ConfigOf(W).context
    BY <2>2
  <2> QED BY <2>2, <2>4, <2>5, <2>6
<1> HIDE DEF new, layer
<1>10. /\ DOMAIN caches' = Caches
       /\ caches'[c] = [caches[c] EXCEPT !.layers[k] = layer]
       /\ \A d \in Caches \ {c} : caches'[d] = caches[d]
  BY <1>3, <1>4, <1>5 DEF AppendRows, CachesType, layer, new
<1>11. /\ CacheType(caches'[c])
       /\ DOMAIN caches'[c].layers = 1..ConfigOf(W).layers
       /\ caches'[c].layers[k] = layer
       /\ \A j \in 1..ConfigOf(W).layers : j # k =>
            caches'[c].layers[j] = caches[c].layers[j]
       /\ caches'[c].owner = caches[c].owner
  <2>1. CacheType(caches[c]) /\ k \in DOMAIN caches[c].layers
    BY <1>2, <1>3, <1>4 DEF CachesType
  <2>2. /\ layer.length \in Nat
        /\ layer.length = 0 \/ layer.length \in DOMAIN layer.rows
        /\ DOMAIN layer.rows = DOMAIN caches[c].layers[k].rows
    <3>1. call.start \in 0..ConfigOf(W).context
      BY <1>2, <1>3 DEF IsConfig
    <3> QED BY <1>2, <1>3, <1>4, <1>9, <3>1
  <2>3. Fits(caches[c], k, layer)
    BY <1>9, <2>1, <2>2 DEF Fits
  <2>4. DiffersIn(caches[c], WithLayer(caches[c], k, layer), k, layer)
    BY <2>3, OneLayer
  <2>5. caches'[c] = WithLayer(caches[c], k, layer)
    BY <1>10 DEF WithLayer
  <2> QED BY <1>4, <2>4, <2>5 DEF DiffersIn
<1>12. CachesType'
  <2>1. \A d \in Caches : CacheType(caches'[d])
    BY <1>3, <1>10, <1>11 DEF CachesType
  <2> QED BY <1>1, <1>3, <1>10, <2>1, CachesTypeNext DEF CachesType
<1>13. PassInv'
  BY <1>1, <1>2, <1>3, <1>4, <1>6, <1>7, CacheAssumption DEF PassInv, W
<1>14. CachedPassInv'
  <2>1. \A j \in 1..ConfigOf(W).layers :
          /\ Reached(j)' <=> Reached(j)
          /\ Written(j)' <=> Written(j) \/ j = k
    BY <1>1, <1>2, <1>3, <1>6 DEF Reached, Written, IsConfig
  <2>2. ASSUME NEW j \in 1..ConfigOf(W).layers
        PROVE  /\ DOMAIN caches'[c].layers[j].rows = 1..ConfigOf(W).context
               /\ caches'[c].layers[j].length =
                    IF Reached(j)' THEN call.start + n ELSE call.start
               /\ Written(j)' =>
                    \A i \in (call.start + 1)..(call.start + n) :
                      caches'[c].layers[j].rows[i] = ReferenceRow(W, j, Text, i)
    <3>1. CASE j # k
      BY <1>4, <1>11, <2>1, <3>1
    <3>2. CASE j = k
      <4>1. ~Reached(j)'
        BY <1>1, <1>2, <1>6, <2>1, <3>2 DEF Reached
      <4>2. ASSUME NEW i \in (call.start + 1)..(call.start + n)
            PROVE  layer.rows[i] = ReferenceRow(W, k, Text, i)
        <5>1. i - call.start \in New /\ call.start + (i - call.start) = i
          BY <1>3 DEF New
        <5> QED BY <1>8, <1>9, <5>1
      <4> QED BY <1>9, <1>11, <3>2, <4>1, <4>2
    <3> QED BY <3>1, <3>2
  <2>3. call.start <= Len(fed[c]) /\ Len(fed[c]) = call.start + n
    BY <1>2, <1>3, <1>4
  <2>4. \A j \in 1..ConfigOf(W).layers : Written(j)' =>
          \A i \in (call.start + 1)..(call.start + n) :
            caches'[c].layers[j].rows[i] = ReferenceRow(W, j, Text, i)'
    BY <1>7, <2>2 DEF ReferenceRow
  <2>5. /\ models'[call'.model].config = ConfigOf(W)
        /\ caches'[c].owner \in {0, models'[call'.model].id}
    BY <1>1, <1>2, <1>4, <1>6, <1>11
  <2> QED BY <1>1, <1>6, <1>11, <2>2, <2>3, <2>4, <2>5 DEF CachedPassInv
<1>15. HiddenInv'
  BY <1>1, <1>6, <1>7 DEF IInv, HiddenInv
<1>16. /\ caches[c].layers # <<>>
       /\ \A i \in 1..call.start : \A j \in DOMAIN caches[c].layers :
            caches'[c].layers[j].rows[i] = caches[c].layers[j].rows[i]
  BY <1>2, <1>4, <1>5, <1>9, <1>11, PassHasLayers
<1> QED BY <1>1, <1>2, <1>4, <1>6, <1>7, <1>10, <1>11, <1>12, <1>13, <1>14, <1>15,
           <1>16, MidPass

\* The committed rows of the cache of a pass are its model's.
LEMMA CommittedRows ==
  ASSUME IInv, Computing, call.cache # NoCache
  PROVE  \A j \in 1..ConfigOf(W).layers : \A i \in 1..call.start :
           caches[call.cache].layers[j].rows[i] = ReferenceRow(W, j, Text, i)
<1> DEFINE c == call.cache
<1>1. /\ c \in Caches
      /\ Text = fed[c]
      /\ DOMAIN caches[c].layers = 1..ConfigOf(W).layers
      /\ caches[c].owner \in {0, models[call.model].id}
  BY CachedPassFacts
<1>2. call # Idle /\ CallType /\ ModelsInv /\ W # NoWeights
  BY ComputingFacts, PassFacts DEF IInv, PassInv
<1>3. VisibleLength(c) = call.start
  BY <1>2 DEF VisibleLength, InCall
<1>4. ASSUME NEW i \in 1..call.start
      PROVE  minted[caches[c].owner] = W
  <2>1. call.start # 0
    BY <1>2 DEF CallType
  <2>2. caches[c].layers # <<>>
    BY <1>1, <1>2, PassHasLayers
  <2>3. caches[c].owner # 0
    BY <1>1, <1>3, <2>1, <2>2 DEF IInv, OwnedIffPopulated
  <2>4. minted[models[call.model].id] = W
    BY <1>2 DEF ModelsInv, IdentityNamesOneModel, CallType, W
  <2> QED BY <1>1, <2>3, <2>4
<1>5. ASSUME NEW j \in 1..ConfigOf(W).layers, NEW i \in 1..call.start
      PROVE  caches[c].layers[j].rows[i] = ReferenceRow(W, j, Text, i)
  <2>1. caches[c].layers[j].rows[i] =
          ReferenceRow(minted[caches[c].owner], j, fed[c], i)
    BY <1>1, <1>3 DEF IInv, VisibleRowsAreReference
  <2> QED BY <1>1, <1>4, <2>1
<1> QED BY <1>5

LEMMA AttendAndCommitInv == ASSUME IInv, AttendAndCommit PROVE IInv'
<1> DEFINE c == call.cache
           k == call.layer
           n == Len(call.tokens)
           layer == [Layer EXCEPT !.length = @ + n]
<1>1. /\ Computing /\ call.stage = "attend" /\ call # Idle
      /\ UNCHANGED <<models, nextIdentity, reply, fed, minted>>
  BY DEF AttendAndCommit, Computing, Idle
<1>2. /\ W \in Weights /\ models[call.model].config = ConfigOf(W)
      /\ Text \in Seq(Tokens) /\ Len(Text) = call.start + n
      /\ Len(Text) <= ConfigOf(W).context
      /\ k \in 1..ConfigOf(W).layers
  BY <1>1, ComputingFacts
<1>3. /\ CallType /\ PassInv /\ CachesType /\ n \in Nat \ {0} /\ call.start \in Nat
      /\ IsConfig(ConfigOf(W)) /\ c # NoCache
  BY <1>1, <1>2, PassFacts DEF CallType, PassInv
<1>4. /\ c \in Caches
      /\ Text = fed[c]
      /\ DOMAIN caches[c].layers = 1..ConfigOf(W).layers
      /\ caches[c].owner \in {0, models[call.model].id}
      /\ \A j \in 1..ConfigOf(W).layers :
           /\ DOMAIN caches[c].layers[j] = {"rows", "length"}
           /\ DOMAIN caches[c].layers[j].rows = 1..ConfigOf(W).context
           /\ caches[c].layers[j].length = IF Reached(j) THEN call.start + n ELSE call.start
           /\ Written(j) =>
                \A i \in (call.start + 1)..(call.start + n) :
                  caches[c].layers[j].rows[i] = ReferenceRow(W, j, Text, i)
  BY <1>1, <1>3, CachedPassFacts
<1>5. Layer = caches[c].layers[k] /\ Layer.length = call.start
  BY <1>1, <1>2, <1>3, <1>4 DEF Layer, Reached
<1>6. /\ DOMAIN call' = DOMAIN call
      /\ call'.stage = "project" /\ call'.model = call.model
      /\ call'.cache = c /\ call'.tokens = call.tokens
      /\ call'.lastOnly = call.lastOnly /\ call'.start = call.start
      /\ call'.layer = k
      /\ \A q \in New : call'.hidden[q] =
           Block(W, k, call.hidden[q], Prefix(Layer.rows, call.start + q))
      /\ call' # Idle
  BY <1>3, <1>5 DEF AttendAndCommit, Attended, CallType, Idle
<1>7. CallType' /\ Computing' /\ W' = W /\ Text' = Text /\ New' = New
  BY <1>1, <1>3, <1>6 DEF CallType, Stages, Computing, W, Text, New
\* Every row up to a new token's own is the reference row.
<1>8. ASSUME NEW i \in 1..(call.start + n)
      PROVE  Layer.rows[i] = ReferenceRow(W, k, Text, i)
  <2>1. CASE i \in 1..call.start
    BY <1>1, <1>2, <1>3, <1>5, <2>1, CommittedRows
  <2>2. CASE i \in (call.start + 1)..(call.start + n)
    <3>1. Written(k)
      BY <1>1 DEF Written
    <3> QED BY <1>2, <1>4, <1>5, <2>2, <3>1
  <2> QED BY <1>3, <2>1, <2>2
<1>9. /\ DOMAIN layer = {"rows", "length"}
      /\ layer.length = call.start + n
      /\ layer.rows = Layer.rows
      /\ DOMAIN layer.rows = 1..ConfigOf(W).context
  BY <1>2, <1>4, <1>5
<1> HIDE DEF layer
<1>10. /\ DOMAIN caches' = Caches
       /\ caches'[c] = WithLayer(caches[c], k, layer)
       /\ \A d \in Caches \ {c} : caches'[d] = caches[d]
  <2>1. CacheType(caches[c]) /\ caches[c].layers # <<>>
    BY <1>1, <1>3, <1>4, PassHasLayers DEF CachesType
  <2>2. DOMAIN caches[c] = {"layers", "shape", "owner"}
    BY <2>1 DEF CacheType
  <2> QED BY <1>2, <1>3, <1>4, <1>5, <2>2
          DEF AttendAndCommit, CachesType, layer, WithLayer
<1>11. /\ CacheType(caches'[c])
       /\ DOMAIN caches'[c].layers = 1..ConfigOf(W).layers
       /\ caches'[c].layers[k] = layer
       /\ \A j \in 1..ConfigOf(W).layers : j # k =>
            caches'[c].layers[j] = caches[c].layers[j]
       /\ caches'[c].owner = caches[c].owner
  <2>1. CacheType(caches[c]) /\ k \in DOMAIN caches[c].layers
    BY <1>2, <1>3, <1>4 DEF CachesType
  <2>2. /\ layer.length \in Nat
        /\ layer.length = 0 \/ layer.length \in DOMAIN layer.rows
        /\ DOMAIN layer.rows = DOMAIN caches[c].layers[k].rows
    <3>1. call.start \in 0..ConfigOf(W).context
      BY <1>2, <1>3 DEF IsConfig
    <3> QED BY <1>2, <1>3, <1>4, <1>9, <3>1
  <2>3. Fits(caches[c], k, layer)
    BY <1>9, <2>1, <2>2 DEF Fits
  <2>4. DiffersIn(caches[c], WithLayer(caches[c], k, layer), k, layer)
    BY <2>3, OneLayer
  <2> QED BY <1>4, <1>10, <2>4 DEF DiffersIn
<1>12. CachesType'
  <2>1. \A d \in Caches : CacheType(caches'[d])
    BY <1>3, <1>10, <1>11 DEF CachesType
  <2> QED BY <1>1, <1>3, <1>10, <2>1, CachesTypeNext DEF CachesType
<1>13. PassInv'
  BY <1>1, <1>2, <1>3, <1>4, <1>6, <1>7, CacheAssumption DEF PassInv, W
<1>14. CachedPassInv'
  <2>1. \A j \in 1..ConfigOf(W).layers :
          /\ Reached(j)' <=> Reached(j) \/ j = k
          /\ Written(j)' <=> Written(j)
    BY <1>1, <1>2, <1>3, <1>6 DEF Reached, Written, IsConfig
  <2>2. ASSUME NEW j \in 1..ConfigOf(W).layers
        PROVE  /\ DOMAIN caches'[c].layers[j].rows = 1..ConfigOf(W).context
               /\ caches'[c].layers[j].length =
                    IF Reached(j)' THEN call.start + n ELSE call.start
               /\ Written(j)' =>
                    \A i \in (call.start + 1)..(call.start + n) :
                      caches'[c].layers[j].rows[i] = ReferenceRow(W, j, Text, i)
    <3>1. CASE j # k
      BY <1>4, <1>11, <2>1, <3>1
    <3>2. CASE j = k
      <4>1. Reached(j)'
        BY <2>1, <3>2
      <4> QED BY <1>4, <1>5, <1>9, <1>11, <2>1, <3>2, <4>1
    <3> QED BY <3>1, <3>2
  <2>3. call.start <= Len(fed[c]) /\ Len(fed[c]) = call.start + n
    BY <1>2, <1>3, <1>4
  <2>4. \A j \in 1..ConfigOf(W).layers : Written(j)' =>
          \A i \in (call.start + 1)..(call.start + n) :
            caches'[c].layers[j].rows[i] = ReferenceRow(W, j, Text, i)'
    BY <1>7, <2>2 DEF ReferenceRow
  <2>5. /\ models'[call'.model].config = ConfigOf(W)
        /\ caches'[c].owner \in {0, models'[call'.model].id}
    BY <1>1, <1>2, <1>4, <1>6, <1>11
  <2> QED BY <1>1, <1>6, <1>11, <2>2, <2>3, <2>4, <2>5 DEF CachedPassInv
<1>15. HiddenInv'
  <2>1. SUFFICES ASSUME NEW q \in New
                 PROVE  call'.hidden[q] = Uncached(W, k, Prefix(Text, call.start + q))
    BY <1>6, <1>7 DEF HiddenInv
  <2> DEFINE m == call.start + q
  <2>2. m \in 1..Len(Text) /\ m <= ConfigOf(W).context
    BY <1>2, <1>3 DEF New, IsConfig
  <2>3. call.hidden[q] = Uncached(W, k - 1, Prefix(Text, m))
    BY <1>1 DEF IInv, HiddenInv
  <2>4. Prefix(Layer.rows, m) = [i \in 1..m |-> ReferenceRow(W, k, Text, i)]
    BY <1>2, <1>3, <1>8, <2>2 DEF Prefix
  <2>5. call'.hidden[q] = Block(W, k, call.hidden[q], Prefix(Layer.rows, m))
    BY <1>6
  <2> HIDE DEF m
  <2>6. Uncached(W, k, Prefix(Text, m)) =
          Block(W, k, Uncached(W, k - 1, Prefix(Text, m)),
                [i \in 1..m |-> ReferenceRow(W, k, Text, i)])
    BY <1>2, <2>2, NextLevel
  <2>7. call'.hidden[q] = Uncached(W, k, Prefix(Text, m))
    BY <2>3, <2>4, <2>5, <2>6
  <2> QED BY <2>7 DEF m
<1>16. /\ caches[c].layers # <<>>
       /\ \A i \in 1..call.start : \A j \in DOMAIN caches[c].layers :
            caches'[c].layers[j].rows[i] = caches[c].layers[j].rows[i]
  BY <1>1, <1>2, <1>4, <1>5, <1>9, <1>11, PassHasLayers
<1> QED BY <1>1, <1>2, <1>4, <1>6, <1>7, <1>10, <1>11, <1>12, <1>13, <1>14, <1>15,
           <1>16, MidPass

\* Without a cache every row a layer attends to was computed by the same pass.
LEMMA RunUncachedLayerInv == ASSUME IInv, RunUncachedLayer PROVE IInv'
<1> DEFINE k == call.layer
           n == Len(call.tokens)
<1>1. /\ Computing /\ call.stage = "layer" /\ call # Idle /\ call.cache = NoCache
      /\ UNCHANGED <<models, nextIdentity, caches, reply, fed, minted>>
  BY DEF RunUncachedLayer, Computing, Idle
<1>2. /\ W \in Weights /\ models[call.model].config = ConfigOf(W)
      /\ Text \in Seq(Tokens) /\ Len(Text) = call.start + n
      /\ Len(Text) <= ConfigOf(W).context
      /\ k \in 1..ConfigOf(W).layers
  BY <1>1, ComputingFacts
<1>3. /\ CallType /\ PassInv /\ CachesType /\ n \in Nat \ {0} /\ call.start = 0
      /\ IsConfig(ConfigOf(W))
  BY <1>1, <1>2, PassFacts DEF PassInv
<1>4. /\ DOMAIN call' = DOMAIN call
      /\ call'.stage = "project" /\ call'.model = call.model
      /\ call'.cache = NoCache /\ call'.tokens = call.tokens
      /\ call'.lastOnly = call.lastOnly /\ call'.start = call.start
      /\ call'.layer = k
      /\ \A q \in New : call'.hidden[q] =
           Block(W, k, call.hidden[q],
                 [j \in 1..q |-> ProjectKV(W, k, call.hidden[j])])
      /\ call' # Idle
  BY <1>1, <1>3 DEF RunUncachedLayer, CallType, Idle
<1>5. CallType' /\ Computing' /\ W' = W /\ Text' = Text /\ New' = New
  BY <1>1, <1>3, <1>4 DEF CallType, Stages, Computing, W, Text, New
<1>6. PassInv' /\ CachedPassInv'
  BY <1>1, <1>2, <1>3, <1>4, <1>5 DEF PassInv, CachedPassInv, W
<1>7. HiddenInv'
  <2>1. SUFFICES ASSUME NEW q \in New
                 PROVE  call'.hidden[q] = Uncached(W, k, Prefix(Text, q))
    BY <1>3, <1>4, <1>5 DEF HiddenInv, New
  <2>2. q \in 1..Len(Text) /\ q <= ConfigOf(W).context
    BY <1>2, <1>3 DEF New, IsConfig
  <2>3. \A j \in New : call.hidden[j] = Uncached(W, k - 1, Prefix(Text, j))
    BY <1>1, <1>3 DEF IInv, HiddenInv, New
  <2>4. [j \in 1..q |-> ProjectKV(W, k, call.hidden[j])] =
        [j \in 1..q |-> ReferenceRow(W, k, Text, j)]
    <3>1. \A j \in 1..q : j \in New
      BY <1>3 DEF New
    <3> QED BY <2>3, <3>1 DEF ReferenceRow
  <2>5. Uncached(W, k, Prefix(Text, q)) =
          Block(W, k, Uncached(W, k - 1, Prefix(Text, q)),
                [j \in 1..q |-> ReferenceRow(W, k, Text, j)])
    BY <1>2, <2>2, NextLevel
  <2> QED BY <1>4, <2>3, <2>4, <2>5
<1>8. CachesType'
  BY <1>1, <1>3, CachesTypeNext DEF CachesType
<1> QED BY <1>1, <1>4, <1>5, <1>6, <1>7, <1>8, CacheAssumption, MidPass

LEMMA FinishLayerInv == ASSUME IInv, FinishLayer PROVE IInv'
<1> DEFINE k == call.layer
<1>1. /\ Computing /\ call.stage = "project" /\ call # Idle
      /\ UNCHANGED <<models, nextIdentity, caches, reply, fed, minted>>
  BY DEF FinishLayer, Computing, Idle
<1>2. /\ W \in Weights /\ models[call.model].config = ConfigOf(W)
      /\ k \in 1..ConfigOf(W).layers
  BY <1>1, ComputingFacts
<1>3. CallType /\ PassInv /\ CachesType /\ IsConfig(ConfigOf(W)) /\ CachedPassInv
  BY <1>1, <1>2, PassFacts DEF IInv
<1>4. /\ DOMAIN call' = DOMAIN call
      /\ call'.model = call.model /\ call'.cache = call.cache
      /\ call'.tokens = call.tokens /\ call'.lastOnly = call.lastOnly
      /\ call'.start = call.start /\ call'.hidden = call.hidden
      /\ \/ /\ k + 1 \in 1..ConfigOf(W).layers
            /\ call'.stage = "layer" /\ call'.layer = k + 1
         \/ /\ k = ConfigOf(W).layers
            /\ call'.stage = "logits" /\ call'.layer = k
      /\ call' # Idle
  <2>1. CASE k < ConfigOf(W).layers
    <3>1. call' = [call EXCEPT !.stage = "layer", !.layer = @ + 1]
      BY <1>2, <2>1 DEF FinishLayer
    <3>2. k + 1 \in 1..ConfigOf(W).layers
      BY <1>2, <1>3, <2>1 DEF IsConfig
    <3>3. call'.stage = "layer" /\ call'.layer = k + 1
      BY <1>3, <3>1 DEF CallType
    <3> QED BY <1>3, <3>1, <3>2, <3>3 DEF CallType, Idle
  <2>2. CASE ~(k < ConfigOf(W).layers)
    BY <1>2, <1>3, <2>2 DEF FinishLayer, CallType, Idle, IsConfig
  <2> QED BY <2>1, <2>2
<1>5. CallType' /\ Computing' /\ W' = W /\ Text' = Text /\ New' = New
  BY <1>1, <1>2, <1>3, <1>4 DEF CallType, Stages, Computing, W, Text, New
<1>6. PassInv'
  BY <1>1, <1>2, <1>3, <1>4, <1>5 DEF PassInv, W, IsConfig
<1>7. CachedPassInv'
  <2>1. \A j \in 1..ConfigOf(W).layers :
          /\ Reached(j)' <=> Reached(j)
          /\ Written(j)' <=> Written(j)
    BY <1>1, <1>2, <1>3, <1>4 DEF Reached, Written, IsConfig
  <2> QED BY <1>1, <1>2, <1>3, <1>4, <1>5, <2>1 DEF CachedPassInv, ReferenceRow
<1>8. HiddenInv'
  <2>1. \A q \in New : call.hidden[q] = Uncached(W, k, Prefix(Text, call.start + q))
    BY <1>1 DEF IInv, HiddenInv
  <2>2. k + 1 - 1 = k
    BY <1>2, <1>3 DEF IsConfig
  <2>3. CASE call'.stage = "layer"
    BY <1>2, <1>4, <1>5, <2>1, <2>2, <2>3 DEF HiddenInv
  <2>4. CASE call'.stage = "logits"
    BY <1>2, <1>4, <1>5, <2>1, <2>4 DEF HiddenInv
  <2> QED BY <1>4, <2>3, <2>4
<1>9. CachesType'
  BY <1>1, <1>3, CachesTypeNext DEF CachesType
<1>10. call.cache \in Caches => caches[call.cache].layers # <<>>
  BY <1>1, PassHasLayers
<1> QED BY <1>1, <1>4, <1>5, <1>6, <1>7, <1>8, <1>9, <1>10, MidPass

\* The caches a pass does not work on are at rest.
LEMMA OtherCaches ==
  ASSUME IInv, call # Idle
  PROVE  \A c \in Caches \ {call.cache} : Sound(caches[c], fed[c], minted)
<1>1. \A c \in Caches \ {call.cache} :
        ~InCall(c) /\ VisibleLength(c) = LengthOf(caches[c])
  BY DEF InCall, VisibleLength
<1> QED BY <1>1 DEF IInv, RestInv, OwnedIffPopulated, VisibleRowsAreReference, Sound

LEMMA ThrowInv == ASSUME IInv, Throw PROVE IInv'
<1>1. /\ call # Idle
      /\ UNCHANGED <<models, nextIdentity, caches, fed, minted>>
  BY DEF Throw, Idle
<1>2. CallType /\ PassInv /\ ModelsType /\ CachesType /\ ModelsInv
  BY <1>1, PassFacts
<1>3. CachesType'
  BY <1>1, <1>2, CachesTypeNext DEF CachesType
<1>4. CASE call.cache = NoCache
  <2>1. call' = Idle /\ reply'.kind = "error"
    BY <1>4 DEF Throw, Refused
  <2>2. \A c \in Caches : Sound(caches'[c], fed'[c], minted')
    BY <1>1, <1>4, OtherCaches, CacheAssumption
  <2> QED BY <1>1, <1>2, <1>3, <2>1, <2>2, ModelsUntouched, RestPreserved
<1>5. CASE call.cache # NoCache
  <2>1. /\ DOMAIN call' = DOMAIN call
        /\ call'.stage = "catch" /\ call'.model = call.model
        /\ call'.cache = call.cache /\ call'.tokens = call.tokens
        /\ call'.lastOnly = call.lastOnly /\ call'.start = call.start
        /\ call'.layer = call.layer /\ call' # Idle
        /\ reply' = reply
    BY <1>2, <1>5 DEF Throw, CallType, Idle
  <2>2. CallType' /\ ~Computing'
    BY <1>2, <2>1 DEF CallType, Stages, Computing
  <2>3. PassInv' /\ CachedPassInv' /\ HiddenInv'
    BY <1>1, <1>2, <1>5, <2>1, <2>2 DEF IInv, PassInv, CachedPassInv, HiddenInv
  <2>4. call.cache \in Caches => caches[call.cache].layers # <<>>
    BY <1>1, PassHasLayers
  <2> QED BY <1>1, <1>3, <2>1, <2>2, <2>3, <2>4, MidPass
<1> QED BY <1>4, <1>5

\* Resetting the lengths is enough: below them no row was touched.
LEMMA RollbackInv == ASSUME IInv, Rollback PROVE IInv'
<1> DEFINE c == call.cache
           new == RolledBack(caches[c], call.start)
<1>1. /\ call # Idle /\ call.stage = "catch"
      /\ call' = Idle /\ reply'.kind = "error"
      /\ UNCHANGED <<models, nextIdentity, fed, minted>>
  BY DEF Rollback, Idle, Refused
<1>2. /\ CallType /\ PassInv /\ ModelsType /\ CachesType /\ ModelsInv
      /\ IsConfig(models[call.model].config)
      /\ Len(call.tokens) \in Nat \ {0}
  BY <1>1, PassFacts
<1>3. c \in Caches /\ c # NoCache /\ call.start \in Nat
  BY <1>1, <1>2 DEF PassInv, CallType
<1>4. /\ DOMAIN caches[c].layers = 1..models[call.model].config.layers
      /\ caches[c].layers # <<>>
      /\ CacheType(caches[c])
      /\ call.start <= Len(fed[c])
  BY <1>1, <1>2, <1>3, PassHasLayers DEF IInv, CachedPassInv, CachesType
<1>5. /\ DOMAIN new = DOMAIN caches[c]
      /\ new.owner = caches[c].owner /\ new.shape = caches[c].shape
      /\ DOMAIN new.layers = DOMAIN caches[c].layers
      /\ \A k \in DOMAIN caches[c].layers :
           /\ DOMAIN new.layers[k] = DOMAIN caches[c].layers[k]
           /\ new.layers[k].rows = caches[c].layers[k].rows
           /\ new.layers[k].length = call.start
      /\ new.layers # <<>>
      /\ LengthOf(new) = call.start
  <2>1. DiffersInLengths(caches[c], RolledBack(caches[c], call.start), call.start)
    BY <1>4, SameLengths
  <2> QED BY <2>1 DEF DiffersInLengths
<1>6. /\ DOMAIN caches' = Caches
      /\ caches'[c] = new
      /\ \A d \in Caches \ {c} : caches'[d] = caches[d]
  BY <1>2, <1>3 DEF Rollback, CachesType
<1> HIDE DEF new
<1>7. CacheType(new)
  <2>1. PICK cfg \in Configs :
          /\ caches[c].shape = cfg.shape
          /\ DOMAIN caches[c].layers = 1..cfg.layers
          /\ \A k \in 1..cfg.layers :
               /\ DOMAIN caches[c].layers[k] = {"rows", "length"}
               /\ DOMAIN caches[c].layers[k].rows = 1..cfg.context
    BY <1>4 DEF CacheType
  <2>2. cfg.layers \in Nat \ {0} /\ cfg.context \in Nat \ {0}
    BY ConfigsAreConfigs DEF IsConfig
  <2>3. cfg.context = models[call.model].config.context
    <3>1. 1 \in 1..cfg.layers
      BY <2>2
    <3>2. 1..cfg.context = 1..models[call.model].config.context
      BY <1>1, <1>3, <1>4, <2>1, <3>1 DEF IInv, CachedPassInv
    <3> QED BY <1>2, <2>2, <3>2 DEF IsConfig
  <2>4. call.start \in 0..cfg.context
    BY <1>1, <1>2, <1>3, <2>2, <2>3 DEF PassInv
  <2>5. \A k \in 1..cfg.layers :
          /\ DOMAIN new.layers[k] = {"rows", "length"}
          /\ DOMAIN new.layers[k].rows = 1..cfg.context
          /\ new.layers[k].length \in 0..cfg.context
    BY <1>5, <2>1, <2>4
  <2>6. /\ DOMAIN new = {"layers", "shape", "owner"}
        /\ new.owner \in 0..Len(minted)
        /\ new.shape = cfg.shape /\ DOMAIN new.layers = 1..cfg.layers
    BY <1>4, <1>5, <2>1 DEF CacheType
  <2> QED BY <2>5, <2>6 DEF CacheType
<1>8. CachesType'
  <2>1. \A d \in Caches : CacheType(caches'[d])
    BY <1>2, <1>6, <1>7 DEF CachesType
  <2> QED BY <1>1, <1>2, <1>6, <2>1, CachesTypeNext DEF CachesType
<1>9. Sound(new, fed[c], minted)
  <2>1. VisibleLength(c) = call.start
    BY <1>1 DEF VisibleLength, InCall
  <2>2. /\ caches[c].owner = 0 <=> call.start = 0
        /\ \A k \in DOMAIN caches[c].layers : \A i \in 1..call.start :
             caches[c].layers[k].rows[i] =
               ReferenceRow(minted[caches[c].owner], k, fed[c], i)
    BY <1>3, <1>4, <2>1 DEF IInv, OwnedIffPopulated, VisibleRowsAreReference
  <2> QED BY <1>4, <1>5, <2>2 DEF Sound
<1>10. \A d \in Caches : Sound(caches'[d], fed'[d], minted')
  BY <1>1, <1>6, <1>9, OtherCaches
<1> QED BY <1>1, <1>2, <1>8, <1>10, ModelsUntouched, RestPreserved

LEMMA ReturnLogitsInv == ASSUME IInv, ReturnLogits PROVE IInv'
<1> DEFINE c == call.cache
           n == Len(call.tokens)
           new == Owned(caches[c])
<1>1. /\ Computing /\ call.stage = "logits" /\ call # Idle
      /\ call' = Idle
      /\ UNCHANGED <<models, nextIdentity, fed, minted>>
  BY DEF ReturnLogits, Computing, Idle
<1>2. /\ W \in Weights /\ models[call.model].config = ConfigOf(W)
      /\ Text \in Seq(Tokens) /\ Len(Text) = call.start + n
  BY <1>1, ComputingFacts
<1>3. /\ CallType /\ PassInv /\ ModelsType /\ CachesType /\ ModelsInv
      /\ n \in Nat \ {0} /\ call.start \in Nat /\ IsConfig(ConfigOf(W))
      /\ call.layer = ConfigOf(W).layers
  BY <1>1, <1>2, PassFacts DEF PassInv, CallType
<1>4. ModelsType' /\ ModelsInv'
  BY <1>1, <1>3, ModelsUntouched
\* The cache of the pass, all of whose rows are now the owner's.
<1>5. ASSUME c # NoCache
      PROVE  /\ c \in Caches
             /\ CacheType(new)
             /\ Sound(new, fed[c], minted)
  <2>1. /\ c \in Caches
        /\ Text = fed[c]
        /\ DOMAIN caches[c] = {"layers", "shape", "owner"}
        /\ DOMAIN caches[c].layers = 1..ConfigOf(W).layers
        /\ \A j \in 1..ConfigOf(W).layers :
             /\ caches[c].layers[j].length =
                  IF Reached(j) THEN call.start + n ELSE call.start
             /\ Written(j) =>
                  \A i \in (call.start + 1)..(call.start + n) :
                    caches[c].layers[j].rows[i] = ReferenceRow(W, j, Text, i)
    BY <1>1, <1>5, CachedPassFacts
  <2>2. \A j \in 1..ConfigOf(W).layers : Reached(j) /\ Written(j)
    BY <1>1, <1>3 DEF Reached, Written, IsConfig
  <2>3. /\ DOMAIN new = {"layers", "shape", "owner"}
        /\ new.layers = caches[c].layers /\ new.shape = caches[c].shape
        /\ new.owner = models[call.model].id
    BY <2>1 DEF Owned
  <2> HIDE DEF new
  <2>4. /\ new.owner # 0 /\ new.owner \in 0..Len(minted)
        /\ minted[new.owner] = W
    BY <1>1, <1>2, <1>3, <2>3, CacheAssumption
    DEF ModelsInv, IdentityNamesOneModel, ModelsType, CallType, PassInv, W
  <2>5. LengthOf(new) = call.start + n
    <3>1. 1 \in 1..ConfigOf(W).layers
      BY <1>3 DEF IsConfig
    <3>2. new.layers # <<>>
      BY <1>1, <2>1, <2>3, PassHasLayers
    <3> QED BY <2>1, <2>2, <2>3, <3>1, <3>2 DEF LengthOf
  <2>6. ASSUME NEW j \in 1..ConfigOf(W).layers, NEW i \in 1..(call.start + n)
        PROVE  new.layers[j].rows[i] = ReferenceRow(W, j, Text, i)
    <3>1. CASE i \in 1..call.start
      BY <1>1, <1>5, <2>3, <3>1, CommittedRows
    <3>2. CASE i \in (call.start + 1)..(call.start + n)
      BY <2>1, <2>2, <2>3, <3>2
    <3> QED BY <1>3, <3>1, <3>2
  <2>7. Sound(new, fed[c], minted)
    <3>1. LengthOf(new) <= Len(fed[c]) /\ LengthOf(new) # 0
      BY <1>2, <1>3, <2>1, <2>5
    <3>2. \A j \in DOMAIN new.layers : new.layers[j].length = LengthOf(new)
      BY <2>1, <2>2, <2>3, <2>5
    <3>3. ASSUME NEW j \in DOMAIN new.layers, NEW i \in 1..LengthOf(new)
          PROVE  new.layers[j].rows[i] = ReferenceRow(minted[new.owner], j, fed[c], i)
      <4>1. j \in 1..ConfigOf(W).layers /\ i \in 1..(call.start + n)
        BY <2>1, <2>3, <2>5
      <4>2. minted[new.owner] = W /\ fed[c] = Text
        BY <2>1, <2>4
      <4> QED BY <2>6, <4>1, <4>2
    <3> QED BY <2>4, <3>1, <3>2, <3>3 DEF Sound
  <2>8. CacheType(caches[c])
    BY <1>3, <2>1 DEF CachesType
  <2>9. CacheType(new)
    BY <2>3, <2>4, <2>8 DEF CacheType
  <2> QED BY <2>1, <2>7, <2>9
<1>6. /\ DOMAIN caches' = Caches
      /\ \A d \in Caches \ {c} : caches'[d] = caches[d]
      /\ c # NoCache => caches'[c] = new
  <2>1. CASE c = NoCache
    BY <1>3, <2>1 DEF ReturnLogits, CachesType
  <2>2. CASE c # NoCache
    BY <1>3, <1>5, <2>2 DEF ReturnLogits, CachesType
  <2> QED BY <2>1, <2>2
<1> HIDE DEF new
<1>7. \A d \in Caches : CacheType(caches'[d]) /\ Sound(caches'[d], fed'[d], minted')
  <2>1. ASSUME NEW d \in Caches, d # c
        PROVE  CacheType(caches'[d]) /\ Sound(caches'[d], fed'[d], minted')
    BY <1>1, <1>3, <1>6, <2>1, OtherCaches DEF CachesType
  <2>2. ASSUME c \in Caches
        PROVE  CacheType(caches'[c]) /\ Sound(caches'[c], fed'[c], minted')
    BY <1>1, <1>5, <1>6, <2>2, CacheAssumption
  <2> QED BY <2>1, <2>2
<1>8. CachesType'
  BY <1>1, <1>3, <1>6, <1>7, CachesTypeNext DEF CachesType
<1>9. /\ reply'.kind = "logits" /\ reply'.weights = W /\ reply'.text = Text
      /\ reply'.first = call.start + FirstRow
      /\ reply'.rows = [q \in 1..(n + 1 - FirstRow) |->
                         TiedLogits(W, call.hidden[FirstRow + q - 1])]
  BY DEF ReturnLogits, Answered
<1>10. AnswerIsReference'
  <2>1. FirstRow \in 1..n
    BY <1>3 DEF FirstRow
  <2>2. Len(Text) + 1 - (call.start + FirstRow) = n + 1 - FirstRow
    BY <1>2, <1>3, <2>1
  <2>3. ASSUME NEW q \in 1..(n + 1 - FirstRow)
        PROVE  call.hidden[FirstRow + q - 1] =
                 Uncached(W, ConfigOf(W).layers,
                          Prefix(Text, call.start + FirstRow + q - 1))
    <3> DEFINE p == FirstRow + q - 1
    <3>1. p \in New /\ call.start + p = call.start + FirstRow + q - 1
      BY <1>3, <2>1 DEF New
    <3> HIDE DEF p
    <3>2. call.hidden[p] = Uncached(W, call.layer, Prefix(Text, call.start + p))
      BY <1>1, <3>1 DEF IInv, HiddenInv
    <3>3. call.hidden[p] =
            Uncached(W, ConfigOf(W).layers,
                     Prefix(Text, call.start + FirstRow + q - 1))
      BY <1>3, <3>1, <3>2
    <3> QED BY <3>3 DEF p
  <2>4. reply'.rows = ReferenceLogits(W, Text, call.start + FirstRow)
    BY <1>9, <2>2, <2>3 DEF ReferenceLogits
  <2> QED BY <1>9, <2>4 DEF AnswerIsReference
<1>11. TypeOK'
  BY <1>1, <1>4, <1>8, <1>9 DEF TypeOK
<1> QED BY <1>1, <1>4, <1>7, <1>10, <1>11, AtRestNext, SoundAtRestNext DEF IInv

-----------------------------------------------------------------------------
(* The invariant, and what it implies. *)

LEMMA StutterInv == IInv /\ UNCHANGED vars => IInv'
<1> SUFFICES ASSUME IInv, UNCHANGED vars PROVE IInv'
  OBVIOUS
<1>1. /\ models' = models /\ nextIdentity' = nextIdentity /\ caches' = caches
      /\ call' = call /\ reply' = reply /\ fed' = fed /\ minted' = minted
  BY DEF vars
<1>2. TypeOK'
  BY <1>1 DEF IInv, TypeOK, ModelsType, CachesType, CacheType, CallType
<1>3. ModelsInv' /\ RestInv' /\ PassInv'
  BY <1>1 DEF IInv, ModelsInv, IdentityNamesOneModel, RestInv, InCall, LengthOf,
     PassInv, Computing, W
<1>4. CachedPassInv' /\ HiddenInv'
  BY <1>1 DEF IInv, CachedPassInv, HiddenInv, Computing, W, Text, New, Reached,
     Written, ReferenceRow
<1>5. OwnedIffPopulated' /\ VisibleRowsAreReference' /\ AnswerIsReference'
  BY <1>1 DEF IInv, OwnedIffPopulated, VisibleRowsAreReference, AnswerIsReference,
     VisibleLength, InCall, LengthOf, ReferenceRow
<1> QED BY <1>2, <1>3, <1>4, <1>5 DEF IInv

LEMMA NextInv == IInv /\ [Next]_vars => IInv'
<1> SUFFICES ASSUME IInv, [Next]_vars PROVE IInv'
  OBVIOUS
<1>1. ASSUME NEW m \in Models, NEW w \in Weights, ConstructModel(m, w) PROVE IInv'
  BY <1>1, ConstructModelInv
<1>2. CASE RejectCheckpoint
  BY <1>2, RejectCheckpointInv
<1>3. ASSUME NEW from \in Models, NEW to \in Models, MoveModel(from, to) PROVE IInv'
  BY <1>3, MoveModelInv
<1>4. ASSUME NEW c \in Caches, NEW cfg \in Configs, BuildCache(c, cfg) PROVE IInv'
  BY <1>4, BuildCacheInv
<1>5. ASSUME NEW c \in Caches, ClearCache(c) PROVE IInv'
  BY <1>5, ClearCacheInv
<1>6. ASSUME NEW from \in Caches, NEW to \in Caches, CopyCache(from, to) PROVE IInv'
  BY <1>6, CopyCacheInv
<1>7. ASSUME NEW from \in Caches, NEW to \in Caches, MoveCache(from, to) PROVE IInv'
  BY <1>7, MoveCacheInv
<1>8. CASE Begin
  <2>1. ASSUME NEW m \in Models, NEW tokens \in Calls, NEW lastOnly \in BOOLEAN,
               AcceptUncached(m, tokens, lastOnly)
        PROVE  IInv'
    BY <2>1, AcceptUncachedInv
  <2>2. ASSUME NEW m \in Models, NEW tokens \in Calls, NEW lastOnly \in BOOLEAN,
               NEW c \in Caches, AcceptCached(m, c, tokens, lastOnly)
        PROVE  IInv'
    BY <2>2, AcceptCachedInv
  <2>3. ASSUME NEW m \in Models, NEW tokens \in Calls, RefuseUncached(m, tokens)
        PROVE  IInv'
    BY <2>3, RefuseInv DEF RefuseUncached, Refused
  <2>4. ASSUME NEW m \in Models, NEW tokens \in Calls, NEW c \in Caches,
               RefuseCached(m, c, tokens)
        PROVE  IInv'
    BY <2>4, RefuseInv DEF RefuseCached, Refused
  <2> QED BY <1>8, <2>1, <2>2, <2>3, <2>4 DEF Begin
<1>9. CASE Pass
  BY <1>9, EmbedTokensInv, AppendRowsInv, AttendAndCommitInv, RunUncachedLayerInv,
     FinishLayerInv, ReturnLogitsInv, ThrowInv, RollbackInv DEF Pass
<1>10. CASE UNCHANGED vars
  BY <1>10, StutterInv
<1> QED BY <1>1, <1>2, <1>3, <1>4, <1>5, <1>6, <1>7, <1>8, <1>9, <1>10
        DEF Next, Objects

\* IInv holds at every step of every caller's program: of the pass under way
\* it says how far each layer of the cache has got, of every other cache that
\* it is intact.
THEOREM InductiveInvariant == Spec => []IInv
BY InitInv, NextInv, PTL DEF Spec

\* The objects hold what their C++ types and constructors allow, whatever was
\* copied, moved, cleared or thrown.
THEOREM TypeCorrect == Spec => []TypeOK
<1>1. IInv => TypeOK
  BY DEF IInv
<1> QED BY <1>1, InductiveInvariant, PTL

\* No cache is torn between forward passes, so the check "cache layers contain
\* different sequence lengths" never fires (validate_cached_forward).
THEOREM LayersAlwaysAgree == Spec => []LayersAgree
<1>1. IInv => LayersAgree
  BY SoundAtRest DEF IInv, LayersAgree, Torn, Sound
<1> QED BY <1>1, InductiveInvariant, PTL

\* A cache has an owner exactly while it holds tokens a caller may count on
\* (the owner assignments of forward and forward_last_token_logits, and clear).
THEOREM OwnedExactlyWhilePopulated == Spec => []OwnedIffPopulated
<1>1. IInv => OwnedIffPopulated
  BY DEF IInv
<1> QED BY <1>1, InductiveInvariant, PTL

\* The rows a caller may count on are the owner's rows for the tokens fed,
\* at every step of a pass and after every exception (append_to_cache and the
\* handlers that reset the lengths).
THEOREM VisibleRowsAlwaysReference == Spec => []VisibleRowsAreReference
<1>1. IInv => VisibleRowsAreReference
  BY DEF IInv
<1> QED BY <1>1, InductiveInvariant, PTL

\* An identity drawn from next_model_identity names one checkpoint's tensors,
\* and no two models that have tensors share one, so comparing identities is
\* comparing models.
THEOREM IdentityAlwaysNamesOneModel == Spec => []IdentityNamesOneModel
<1>1. IInv => IdentityNamesOneModel
  BY DEF IInv, ModelsInv
<1> QED BY <1>1, InductiveInvariant, PTL

\* Cached and uncached passes answer alike: every reply with logits is the
\* uncached answer for the whole text (the cached forward and
\* forward_last_token_logits).
THEOREM CachedAnswersAreReference == Spec => []AnswerIsReference
<1>1. IInv => AnswerIsReference
  BY DEF IInv
<1> QED BY <1>1, InductiveInvariant, PTL

\* The room check of a cached attention layer never fires: what
\* validate_cached_forward checked once holds at every layer.
THEOREM LayersAlwaysHaveRoom == Spec => []LayerHasRoom
<1>1. IInv => LayerHasRoom
  <2>1. SUFFICES ASSUME IInv, call.stage = "layer", call.cache # NoCache
                 PROVE  /\ Layer.length = call.start
                        /\ Layer.length + Len(call.tokens) \in DOMAIN Layer.rows
    BY DEF LayerHasRoom
  <2>2. Computing /\ call # Idle
    BY <2>1 DEF Computing, Idle
  <2>3. /\ models[call.model].config = ConfigOf(W)
        /\ call.layer \in 1..ConfigOf(W).layers
        /\ Len(Text) = call.start + Len(call.tokens)
        /\ Len(Text) <= ConfigOf(W).context
    BY <2>1, <2>2, ComputingFacts
  <2>4. /\ CallType /\ Len(call.tokens) \in Nat \ {0} /\ call.start \in Nat
        /\ IsConfig(ConfigOf(W))
    BY <2>1, <2>2, <2>3, PassFacts DEF CallType
  <2>5. /\ DOMAIN Layer.rows = 1..ConfigOf(W).context
        /\ Layer.length = IF Reached(call.layer) THEN call.start + Len(call.tokens)
                          ELSE call.start
    BY <2>1, <2>2, <2>3, CachedPassFacts DEF Layer
  <2>6. ~Reached(call.layer)
    BY <2>1, <2>3, <2>4 DEF Reached, IsConfig
  <2> QED BY <2>3, <2>4, <2>5, <2>6 DEF IsConfig
<1> QED BY <1>1, InductiveInvariant, PTL

-----------------------------------------------------------------------------
(* KvCache implements CachedDecoding. *)

\* A cache with the layers of a configuration was built for it.
LEMMA BuiltForConfig ==
  ASSUME NEW cache, cache.layers # <<>>, NEW cfg \in Configs, Fitting(cache, cfg)
  PROVE  BuiltFor(cache) = cfg
<1> DEFINE built == CHOOSE other \in Configs : Fitting(cache, other)
<1>1. built \in Configs /\ Fitting(cache, built)
  OBVIOUS
<1> HIDE DEF built
<1>2. IsConfig(built) /\ IsConfig(cfg)
  BY <1>1, ConfigsAreConfigs
<1>3. 1..built.layers = 1..cfg.layers /\ 1..built.context = 1..cfg.context
      /\ built.shape = cfg.shape
  BY <1>1 DEF Fitting
<1>4. built.layers = cfg.layers /\ built.context = cfg.context
  BY <1>2, <1>3 DEF IsConfig
<1>5. built = cfg
  BY <1>1, <1>3, <1>4, RefinementAssumption
<1> QED BY <1>5 DEF BuiltFor, built

\* Every cache with layers was built for some configuration.
LEMMA BuiltForSome ==
  ASSUME NEW cache, CacheType(cache), cache.layers # <<>>
  PROVE  BuiltFor(cache) \in Configs /\ Fitting(cache, BuiltFor(cache))
<1>1. PICK cfg \in Configs :
        /\ cache.shape = cfg.shape
        /\ DOMAIN cache.layers = 1..cfg.layers
        /\ \A k \in 1..cfg.layers : DOMAIN cache.layers[k].rows = 1..cfg.context
  BY DEF CacheType
<1>2. 1 \in 1..cfg.layers
  BY ConfigsAreConfigs DEF IsConfig
<1>3. Fitting(cache, cfg)
  BY <1>1, <1>2 DEF Fitting, PositionsOf
<1> QED BY <1>3, BuiltForConfig

\* What a configuration is compared with tells whether the cache was built for it.
LEMMA MismatchedIsBuiltForAnother ==
  ASSUME NEW c \in Caches, CacheType(caches[c]), NEW m \in Models,
         models[m].config \in Configs
  PROVE  Mismatched(m, c) <=> BuiltFor(caches[c]) # models[m].config
<1> DEFINE cfg == models[m].config
<1>1. Mismatched(m, c) <=> ~Fitting(caches[c], cfg)
  BY DEF Mismatched, Fitting
<1>2. CASE caches[c].layers = <<>>
  <2>1. BuiltFor(caches[c]) # cfg
    BY <1>2, RefinementAssumption DEF BuiltFor
  <2>2. 1 \in 1..cfg.layers
    BY ConfigsAreConfigs DEF IsConfig
  <2>3. DOMAIN caches[c].layers = {}
    BY <1>2
  <2>4. ~Fitting(caches[c], cfg)
    BY <2>2, <2>3 DEF Fitting
  <2> QED BY <1>1, <2>1, <2>4
<1>3. CASE caches[c].layers # <<>>
  BY <1>1, <1>3, BuiltForConfig, BuiltForSome
<1> QED BY <1>2, <1>3

\* The text of no position, and of some.
LEMMA TextOfNone ==
  ASSUME NEW s, NEW n \in Nat
  PROVE  Prefix(s, n) = <<>> <=> n = 0
<1>1. CASE n = 0
  <2>1. Prefix(s, n) = [i \in {} |-> s[i]]
    BY <1>1 DEF Prefix
  <2> QED BY <1>1, <2>1
<1>2. CASE n # 0
  <2>1. 1 \in DOMAIN Prefix(s, n)
    BY <1>2 DEF Prefix
  <2>2. Prefix(s, n) # <<>>
    BY <2>1
  <2> QED BY <1>2, <2>2
<1> QED BY <1>1, <1>2

\* A cache of which nothing counts is an empty text.
LEMMA ViewOfNothing ==
  ASSUME NEW cache, NEW s, NEW names
  PROVE  View(cache, s, 0, names) = Promise!Empty(BuiltFor(cache))
BY TextOfNone DEF View, Promise!Empty

\* A step sees its caches as it leaves them.
LEMMA SessionsNext ==
  /\ \A c \in Caches :
       SessionOf(c)' = View(caches'[c], fed'[c], VisibleLength(c)', minted')
  /\ Sessions' = [c \in Caches |-> SessionOf(c)']
BY DEF Sessions, SessionOf, View, BuiltFor, Fitting, PositionsOf

\* The length that counts is one of the cache's, and of its text.
LEMMA VisibleLengthType ==
  ASSUME IInv, NEW c \in Caches
  PROVE  /\ VisibleLength(c) \in 0..Len(fed[c])
         /\ fed[c] \in Seq(Tokens) /\ Len(fed[c]) \in Nat
         /\ CacheType(caches[c])
         /\ caches[c].layers # <<>> => VisibleLength(c) = 0 <=> caches[c].owner = 0
<1>1. /\ fed[c] \in Seq(Tokens) /\ Len(fed[c]) \in Nat /\ CacheType(caches[c])
      /\ caches[c].layers # <<>> => VisibleLength(c) = 0 <=> caches[c].owner = 0
  BY LenProperties DEF IInv, TypeOK, CachesType, OwnedIffPopulated
<1>2. CASE InCall(c)
  BY <1>1, <1>2, CacheAssumption
     DEF VisibleLength, InCall, IInv, TypeOK, CallType, CachedPassInv
<1>3. CASE ~InCall(c)
  <2>1. LengthOf(caches[c]) \in Nat
    <3>1. CASE caches[c].layers = <<>>
      BY <3>1 DEF LengthOf
    <3>2. CASE caches[c].layers # <<>>
      <4>1. PICK cfg \in Configs :
              \A k \in 1..cfg.layers : caches[c].layers[k].length \in 0..cfg.context
        BY <1>1, <3>2 DEF CacheType
      <4>2. 1 \in 1..cfg.layers /\ cfg.context \in Nat
        BY ConfigsAreConfigs DEF IsConfig
      <4> QED BY <3>2, <4>1, <4>2 DEF LengthOf
    <3> QED BY <3>1, <3>2
  <2>2. LengthOf(caches[c]) <= Len(fed[c])
    BY <1>3 DEF IInv, RestInv
  <2> QED BY <1>1, <1>3, <2>1, <2>2 DEF VisibleLength
<1> QED BY <1>1, <1>2, <1>3

\* A session that a step does not touch.
LEMMA SessionKept ==
  ASSUME IInv, NEW c \in Caches, caches'[c] = caches[c], fed'[c] = fed[c],
         VisibleLength(c)' = VisibleLength(c),
         \A i \in 1..Len(minted) : minted'[i] = minted[i]
  PROVE  SessionOf(c)' = SessionOf(c)
<1> DEFINE n == VisibleLength(c)
<1>1. /\ CacheType(caches[c])
      /\ caches[c].layers # <<>> => n = 0 <=> caches[c].owner = 0
  BY VisibleLengthType
<1>2. n # 0 => minted'[caches[c].owner] = minted[caches[c].owner]
  <2>1. SUFFICES ASSUME n # 0 PROVE caches[c].owner \in 1..Len(minted)
    OBVIOUS
  <2>2. CASE caches[c].layers # <<>>
    <3>1. caches[c].owner \in 0..Len(minted) /\ caches[c].owner # 0
      BY <1>1, <2>1, <2>2 DEF CacheType
    <3> QED BY <3>1
  <2>3. CASE caches[c].layers = <<>>
    <3>1. ~InCall(c)
      BY <2>3, PassHasLayers DEF InCall
    <3> QED BY <2>1, <2>3, <3>1 DEF VisibleLength, LengthOf
  <2> QED BY <2>2, <2>3
<1>3. View(caches'[c], fed'[c], VisibleLength(c)', minted')
        = View(caches[c], fed[c], n, minted)
  BY <1>2 DEF View
<1> QED BY <1>3, SessionsNext DEF SessionOf

\* A session in the pass under way: what its layers hold does not show.
LEMMA SessionOfPassKept ==
  ASSUME IInv, call # Idle, NEW c \in Caches, call.cache = c,
         caches'[c].layers # <<>>,
         DOMAIN caches'[c].layers = DOMAIN caches[c].layers,
         PositionsOf(caches'[c]) = PositionsOf(caches[c]),
         caches'[c].shape = caches[c].shape,
         caches'[c].owner = caches[c].owner,
         Prefix(fed'[c], call.start) = Prefix(fed[c], call.start),
         VisibleLength(c)' = VisibleLength(c),
         minted' = minted
  PROVE  SessionOf(c)' = SessionOf(c)
<1>1. caches[c].layers # <<>>
  BY PassHasLayers
<1>2. VisibleLength(c) = call.start
  BY DEF VisibleLength, InCall
<1>3. BuiltFor(caches'[c]) = BuiltFor(caches[c])
  BY <1>1 DEF BuiltFor, Fitting
<1>4. View(caches'[c], fed'[c], VisibleLength(c)', minted')
        = View(caches[c], fed[c], VisibleLength(c), minted)
  BY <1>2, <1>3 DEF View
<1> QED BY <1>4, SessionsNext DEF SessionOf

\* The pass computes rows for tokens that the model knows, and they are what is written.
FedInv ==
  Computing => \A q \in New : /\ call.tokens[q] \in Vocabulary(W)
                              /\ Text[call.start + q] = call.tokens[q]

LEMMA InitFed == Init => FedInv
BY DEF Init, FedInv, Computing, Idle

LEMMA NextFed ==
  ASSUME IInv, FedInv, [Next]_vars
  PROVE  FedInv'
<1>1. CASE EmbedTokens
  <2>1. /\ call # Idle /\ call'.tokens = call.tokens /\ call'.start = call.start
        /\ call'.cache = call.cache /\ call'.model = call.model /\ models' = models
        /\ \A q \in New : call.tokens[q] \in Vocabulary(W)
    BY <1>1 DEF EmbedTokens, Idle
  <2>2. /\ CallType /\ PassInv /\ CachesType /\ call.tokens \in Seq(Tokens)
    BY <2>1, PassFacts
  <2>3. ASSUME NEW q \in New PROVE Text'[call.start + q] = call.tokens[q]
    <3>1. CASE call.cache = NoCache
      <4>1. call.start = 0 /\ Text' = call.tokens /\ q \in 1..Len(call.tokens)
        BY <2>1, <2>2, <3>1 DEF PassInv, Text, New
      <4>2. Len(call.tokens) \in Nat
        BY <2>2, LenProperties
      <4> QED BY <4>1, <4>2
    <3>2. CASE call.cache # NoCache
      <4> DEFINE c == call.cache
      <4>1. c \in Caches /\ fed[c] \in Seq(Tokens) /\ DOMAIN fed = Caches
        BY <2>2, <3>2 DEF CallType, CachesType
      <4>2. call.start \in 0..Len(fed[c])
        BY <2>1, <2>2, <3>2, <4>1, LenProperties DEF IInv, CachedPassInv, CallType
      <4>3. Text' = Extended(fed[c], call.start, call.tokens)
        BY <1>1, <2>1, <3>2, <4>1 DEF EmbedTokens, Text
      <4> QED BY <2>2, <4>1, <4>2, <4>3, ExtendedText DEF New
    <3> QED BY <3>1, <3>2
  <2> QED BY <2>1, <2>3 DEF FedInv, New, W
<1>2. CASE AppendRows \/ AttendAndCommit \/ RunUncachedLayer \/ FinishLayer
  <2>1. /\ Computing
        /\ call'.tokens = call.tokens /\ call'.start = call.start
        /\ call'.cache = call.cache /\ call'.model = call.model /\ models' = models
        /\ fed' = fed
    <3>1. Computing
      BY <1>2 DEF AppendRows, AttendAndCommit, RunUncachedLayer, FinishLayer, Computing
    <3>2. CASE AppendRows
      BY <3>1, <3>2 DEF AppendRows
    <3>3. CASE AttendAndCommit
      BY <3>1, <3>3 DEF AttendAndCommit
    <3>4. CASE RunUncachedLayer
      BY <3>1, <3>4 DEF RunUncachedLayer
    <3>5. CASE FinishLayer
      BY <3>1, <3>5 DEF FinishLayer
    <3> QED BY <1>2, <3>2, <3>3, <3>4, <3>5
  <2> QED BY <2>1 DEF FedInv, New, W, Text
<1>3. CASE ReturnLogits \/ Throw \/ Rollback
  <2>1. CASE Throw
    <3>1. call # Idle
      BY <2>1 DEF Throw, Idle
    <3>2. "stage" \in DOMAIN call
      BY <3>1, PassFacts DEF CallType
    <3>3. call' = Idle \/ call'.stage = "catch"
      BY <2>1, <3>2 DEF Throw
    <3> QED BY <3>3 DEF FedInv, Computing, Idle
  <2>2. CASE ReturnLogits \/ Rollback
    BY <2>2 DEF ReturnLogits, Rollback, FedInv, Computing, Idle
  <2> QED BY <1>3, <2>1, <2>2
<1>4. CASE Begin
  <2>1. call' = Idle \/ call'.stage = "embed"
    BY <1>4 DEF Begin, AcceptCached, AcceptUncached, RefuseCached, RefuseUncached
  <2> QED BY <2>1 DEF FedInv, Computing, Idle
<1>5. CASE Objects
  <2>1. call' = Idle
    BY <1>5 DEF Objects, ConstructModel, RejectCheckpoint, MoveModel, BuildCache,
       ClearCache, CopyCache, MoveCache
  <2> QED BY <2>1 DEF FedInv, Computing, Idle
<1>6. CASE UNCHANGED vars
  BY <1>6 DEF vars, FedInv, Computing, New, W, Text
<1> QED BY <1>1, <1>2, <1>3, <1>4, <1>5, <1>6 DEF Next, Pass

LEMMA SessionsSame ==
  ASSUME \A c \in Caches : SessionOf(c)' = SessionOf(c)
  PROVE  Sessions' = Sessions
BY SessionsNext DEF Sessions

LEMMA SessionsReplaced ==
  ASSUME NEW c \in Caches, NEW session, SessionOf(c)' = session,
         \A d \in Caches \ {c} : SessionOf(d)' = SessionOf(d)
  PROVE  Sessions' = [Sessions EXCEPT ![c] = session]
BY SessionsNext DEF Sessions

\* Between passes a session is what its cache holds.
LEMMA RestingSessions ==
  ASSUME call = Idle
  PROVE  \A c \in Caches :
           /\ VisibleLength(c) = LengthOf(caches[c])
           /\ SessionOf(c) = View(caches[c], fed[c], LengthOf(caches[c]), minted)
BY AtRest DEF SessionOf

LEMMA RestingSessionsNext ==
  ASSUME call' = Idle
  PROVE  \A c \in Caches :
           /\ VisibleLength(c)' = LengthOf(caches'[c])
           /\ SessionOf(c)' = View(caches'[c], fed'[c], LengthOf(caches'[c]), minted')
BY AtRestNext, SessionsNext

\* Models come and go, and the sessions stay.
LEMMA ModelsForget ==
  ASSUME IInv,
         \/ \E m \in Models, w \in Weights : ConstructModel(m, w)
         \/ RejectCheckpoint
         \/ \E from, to \in Models : MoveModel(from, to)
  PROVE  Promise!Next
<1>1. /\ call = Idle /\ call' = Idle /\ reply' = NoReply
      /\ caches' = caches /\ fed' = fed
  BY DEF ConstructModel, RejectCheckpoint, MoveModel
<1>2. \A i \in 1..Len(minted) : minted'[i] = minted[i]
  <2>1. ModelsType
    BY DEF IInv, TypeOK
  <2>2. ASSUME NEW w \in Weights \cup {NoWeights}, minted' = Append(minted, w)
        PROVE  \A i \in 1..Len(minted) : minted'[i] = minted[i]
    BY <2>1, <2>2, MintedGrows
  <2>3. CASE minted' = minted
    BY <2>3
  <2> QED BY <2>2, <2>3 DEF ConstructModel, RejectCheckpoint, MoveModel
<1>3. \A c \in Caches : VisibleLength(c)' = VisibleLength(c)
  BY <1>1, RestingSessions, RestingSessionsNext
<1>4. Sessions' = Sessions
  BY <1>1, <1>2, <1>3, SessionKept, SessionsSame
<1> QED BY <1>1, <1>4 DEF Promise!Next, Promise!Changes, Promise!Forget, Promise!NoReply, NoReply

\* The other caches, when some are built, cleared, copied or moved.
LEMMA OtherSessions ==
  ASSUME IInv, call = Idle, call' = Idle, minted' = minted,
         NEW c \in Caches, caches'[c] = caches[c], fed'[c] = fed[c]
  PROVE  SessionOf(c)' = SessionOf(c)
BY RestingSessions, RestingSessionsNext

\* A new cache fits its configuration, and holds nothing.
LEMMA NewCacheFits ==
  ASSUME NEW cfg \in Configs
  PROVE  /\ NewCache(cfg).layers # <<>> /\ Fitting(NewCache(cfg), cfg)
         /\ LengthOf(NewCache(cfg)) = 0
<1> DEFINE new == NewCache(cfg)
<1>1. 1 \in 1..cfg.layers
  BY ConfigsAreConfigs DEF IsConfig
<1>2. /\ DOMAIN new.layers = 1..cfg.layers /\ new.shape = cfg.shape
      /\ DOMAIN new.layers[1].rows = 1..cfg.context
  BY <1>1 DEF NewCache, NewLayer
<1>3. new.layers # <<>>
  <2>1. DOMAIN new.layers # {}
    BY <1>1, <1>2
  <2> HIDE DEF new
  <2> QED BY <2>1
<1> HIDE DEF new
<1> QED BY <1>2, <1>3, NewCacheFacts DEF Fitting, PositionsOf, new

LEMMA BuildIsPromised ==
  ASSUME IInv, NEW c \in Caches, NEW cfg \in Configs, BuildCache(c, cfg)
  PROVE  Promise!Build(c, cfg)
<1> DEFINE new == NewCache(cfg)
<1>1. /\ call = Idle /\ call' = Idle /\ reply' = NoReply /\ minted' = minted
      /\ caches'[c] = new /\ fed'[c] = <<>>
      /\ \A d \in Caches \ {c} : caches'[d] = caches[d] /\ fed'[d] = fed[d]
  BY DEF BuildCache, IInv, TypeOK, CachesType
<1>2. /\ new.layers # <<>> /\ Fitting(new, cfg) /\ LengthOf(new) = 0
  BY NewCacheFits
<1> HIDE DEF new
<1>3. SessionOf(c)' = Promise!Empty(cfg)
  BY <1>1, <1>2, RestingSessionsNext, BuiltForConfig, ViewOfNothing
<1>4. Sessions' = [Sessions EXCEPT ![c] = Promise!Empty(cfg)]
  BY <1>1, <1>3, OtherSessions, SessionsReplaced
<1> QED BY <1>1, <1>4 DEF Promise!Build, Promise!Replace, Promise!NoReply, NoReply

LEMMA ClearIsPromised ==
  ASSUME IInv, NEW c \in Caches, ClearCache(c)
  PROVE  Promise!Clear(c)
<1> DEFINE old == caches[c]
           new == Cleared(caches[c])
<1>1. /\ call = Idle /\ call' = Idle /\ reply' = NoReply /\ minted' = minted
      /\ fed' = fed /\ caches'[c] = new
      /\ \A d \in Caches \ {c} : caches'[d] = caches[d]
  BY DEF ClearCache, IInv, TypeOK, CachesType
<1>2. CacheType(old)
  BY DEF IInv, TypeOK, CachesType
<1>3. LengthOf(new) = 0
  <2>1. CacheType(new) /\ Sound(new, <<>>, minted)
    BY <1>2, ClearedFacts
  <2>2. LengthOf(new) \in Nat
    BY <2>1, ConfigsAreConfigs DEF CacheType, LengthOf, IsConfig
  <2> QED BY <2>1, <2>2, EmptySeq DEF Sound
<1>4. BuiltFor(new) = BuiltFor(old)
  <2>1. /\ DOMAIN old = {"layers", "shape", "owner"}
        /\ old.layers # <<>> => \A k \in DOMAIN old.layers : DOMAIN old.layers[k] = {"rows", "length"}
    BY <1>2 DEF CacheType
  <2>2. /\ new.layers = [k \in DOMAIN old.layers |-> [old.layers[k] EXCEPT !.length = 0]]
        /\ new.shape = old.shape
    BY <2>1 DEF Cleared
  <2> HIDE DEF new
  <2>3. CASE old.layers = <<>>
    <3>1. new.layers = <<>>
      BY <2>2, <2>3
    <3> QED BY <2>3, <3>1 DEF BuiltFor
  <2>4. CASE old.layers # <<>>
    <3>1. 1 \in DOMAIN old.layers
      BY <1>2, <2>4, ConfigsAreConfigs DEF CacheType, IsConfig
    <3>2. /\ DOMAIN new.layers = DOMAIN old.layers
          /\ new.layers[1].rows = old.layers[1].rows
      BY <2>1, <2>2, <2>4, <3>1
    <3>3. new.layers # <<>>
      BY <3>1, <3>2
    <3>4. PositionsOf(new) = PositionsOf(old) /\ new.shape = old.shape
      BY <2>2, <2>4, <3>2, <3>3 DEF PositionsOf
    <3> HIDE DEF old
    <3> QED BY <2>4, <3>2, <3>3, <3>4 DEF BuiltFor, Fitting
  <2> QED BY <2>3, <2>4
<1> HIDE DEF new
<1>5. SessionOf(c)' = Promise!Empty(Sessions[c].config)
  <2>1. SessionOf(c)' = Promise!Empty(BuiltFor(old))
    BY <1>1, <1>3, <1>4, RestingSessionsNext, ViewOfNothing
  <2> QED BY <2>1 DEF Sessions, SessionOf, View
<1>6. Sessions' = [Sessions EXCEPT ![c] = Promise!Empty(Sessions[c].config)]
  BY <1>1, <1>5, OtherSessions, SessionsReplaced
<1> QED BY <1>1, <1>6
        DEF Promise!Clear, Promise!Replace, Promise!NoReply, NoReply

LEMMA CopyIsPromised ==
  ASSUME IInv, NEW from \in Caches, NEW to \in Caches, CopyCache(from, to)
  PROVE  from # to /\ Promise!Copy(from, to)
<1>1. /\ call = Idle /\ call' = Idle /\ reply' = NoReply /\ minted' = minted /\ from # to
      /\ caches'[to] = caches[from] /\ fed'[to] = fed[from]
      /\ \A d \in Caches \ {to} : caches'[d] = caches[d] /\ fed'[d] = fed[d]
  BY DEF CopyCache, IInv, TypeOK, CachesType
<1>2. SessionOf(to)' = Sessions[from]
  BY <1>1, RestingSessions, RestingSessionsNext DEF Sessions
<1>3. Sessions' = [Sessions EXCEPT ![to] = Sessions[from]]
  BY <1>1, <1>2, OtherSessions, SessionsReplaced
<1> QED BY <1>1, <1>3
        DEF Promise!Copy, Promise!Replace, Promise!NoReply, NoReply

LEMMA MoveIsPromised ==
  ASSUME IInv, NEW from \in Caches, NEW to \in Caches, MoveCache(from, to)
  PROVE  from # to /\ Promise!Move(from, to)
<1>1. /\ call = Idle /\ call' = Idle /\ reply' = NoReply /\ minted' = minted /\ from # to
      /\ caches'[to] = caches[from] /\ fed'[to] = fed[from]
      /\ caches'[from] = Hollow(caches[from]) /\ fed'[from] = <<>>
      /\ \A d \in Caches \ {from, to} : caches'[d] = caches[d] /\ fed'[d] = fed[d]
  BY DEF MoveCache, IInv, TypeOK, CachesType
<1>2. SessionOf(to)' = Sessions[from]
  BY <1>1, RestingSessions, RestingSessionsNext DEF Sessions
<1>3. SessionOf(from)' = Promise!Empty(NoConfig)
  <2>1. DOMAIN caches[from] = {"layers", "shape", "owner"}
    BY DEF IInv, TypeOK, CachesType, CacheType
  <2>2. Hollow(caches[from]).layers = <<>>
    BY <2>1 DEF Hollow
  <2>3. BuiltFor(Hollow(caches[from])) = NoConfig /\ LengthOf(Hollow(caches[from])) = 0
    BY <2>2 DEF BuiltFor, LengthOf
  <2> QED BY <1>1, <2>3, RestingSessionsNext, ViewOfNothing
<1>4. \A d \in Caches \ {from, to} : SessionOf(d)' = SessionOf(d)
  BY <1>1, OtherSessions
<1>5. Sessions' = [Sessions EXCEPT ![to] = Sessions[from], ![from] = Promise!Empty(NoConfig)]
  BY <1>1, <1>2, <1>3, <1>4, SessionsNext DEF Sessions
<1> QED BY <1>1, <1>5 DEF Promise!Move, Promise!NoReply, NoReply

\* A session's fields, in terms of its cache.
LEMMA SessionFields ==
  ASSUME IInv, NEW c \in Caches
  PROVE  /\ Sessions[c].config = BuiltFor(caches[c])
         /\ Sessions[c].text = Prefix(fed[c], VisibleLength(c))
         /\ Sessions[c].text \in Seq(Tokens)
         /\ Len(Sessions[c].text) = VisibleLength(c)
         /\ Sessions[c].text = <<>> <=> VisibleLength(c) = 0
         /\ Sessions[c].weights = IF VisibleLength(c) = 0 THEN NoWeights
                                  ELSE minted[caches[c].owner]
<1>1. VisibleLength(c) \in 0..Len(fed[c]) /\ fed[c] \in Seq(Tokens) /\ Len(fed[c]) \in Nat
  BY VisibleLengthType
<1>2. /\ Prefix(fed[c], VisibleLength(c)) \in Seq(Tokens)
      /\ Len(Prefix(fed[c], VisibleLength(c))) = VisibleLength(c)
  BY <1>1, PrefixType
<1>3. Prefix(fed[c], VisibleLength(c)) = <<>> <=> VisibleLength(c) = 0
  BY <1>1, TextOfNone
<1> QED BY <1>2, <1>3 DEF Sessions, SessionOf, View

\* A pass that is let through shows nothing yet.
LEMMA AcceptIsForgotten ==
  ASSUME IInv, NEW m \in Models, NEW tokens \in Calls, NEW lastOnly \in BOOLEAN,
         \/ AcceptUncached(m, tokens, lastOnly)
         \/ \E c \in Caches : AcceptCached(m, c, tokens, lastOnly)
  PROVE  Promise!Next
<1>1. /\ call = Idle /\ reply' = NoReply /\ call' # Idle
      /\ caches' = caches /\ fed' = fed /\ minted' = minted
      /\ \/ call'.cache = NoCache
         \/ \E c \in Caches : call'.cache = c /\ call'.start = LengthOf(caches[c])
  <2>1. CASE AcceptUncached(m, tokens, lastOnly)
    BY <2>1 DEF AcceptUncached, Idle
  <2>2. ASSUME NEW c \in Caches, AcceptCached(m, c, tokens, lastOnly)
        PROVE  /\ call = Idle /\ reply' = NoReply /\ call' # Idle
               /\ caches' = caches /\ fed' = fed /\ minted' = minted
               /\ call'.cache = c /\ call'.start = LengthOf(caches[c])
    BY <2>2 DEF AcceptCached, Idle
  <2> QED BY <2>1, <2>2
<1>2. ASSUME NEW d \in Caches PROVE VisibleLength(d)' = VisibleLength(d)
  <2>1. VisibleLength(d) = LengthOf(caches[d])
    BY <1>1, RestingSessions
  <2>2. VisibleLength(d)' = IF call'.cache = d THEN call'.start ELSE LengthOf(caches'[d])
    BY <1>1 DEF VisibleLength, InCall, LengthOf
  <2> QED BY <1>1, <2>1, <2>2, CacheAssumption
<1>3. Sessions' = Sessions
  BY <1>1, <1>2, SessionKept, SessionsSame
<1> QED BY <1>1, <1>3
        DEF Promise!Next, Promise!Changes, Promise!Forget, Promise!NoReply, NoReply

\* A refusal changes nothing.
LEMMA RefusedSessions ==
  ASSUME IInv, call = Idle, UNCHANGED <<caches, call, fed, minted>>
  PROVE  Sessions' = Sessions
BY RestingSessions, RestingSessionsNext, SessionsSame

\* A cached pass is refused for a reason that the caller can see.
LEMMA RefusalIsPromised ==
  ASSUME IInv, NEW m \in Models, NEW c \in Caches, NEW tokens \in Calls,
         RefuseCached(m, c, tokens)
  PROVE  Promise!Next
<1> DEFINE cfg == models[m].config
           why == Refusal(m, c, tokens)
<1>1. /\ call = Idle /\ models[m].id # 0 /\ why # "none" /\ reply' = Refused(why)
      /\ UNCHANGED <<caches, call, fed, minted>>
  BY DEF RefuseCached
<1>2. cfg \in Configs /\ CacheType(caches[c]) /\ ~Torn(c)
  <2>1. Sound(caches[c], fed[c], minted)
    BY <1>1, SoundAtRest DEF IInv
  <2> QED BY <1>1, <2>1 DEF IInv, ModelsInv, TypeOK, CachesType, Torn, Sound
<1>3. Sessions' = Sessions
  BY <1>1, RefusedSessions
<1>4. VisibleLength(c) = LengthOf(caches[c]) /\ VisibleLength(c) \in Nat
  BY <1>1, RestingSessions, VisibleLengthType
<1>5. Len(tokens) \in Nat /\ cfg.context \in Nat
  BY <1>2, CallTokens, ConfigsAreConfigs DEF IsConfig
<1>6. \/ Sessions[c].config # cfg /\ why = "config"
      \/ Sessions[c].text # <<>> /\ why = "owner"
      \/ tokens = <<>> /\ why = "empty"
      \/ Len(Sessions[c].text) + Len(tokens) > cfg.context /\ why = "room"
  <2>1. CASE Mismatched(m, c)
    BY <1>2, <2>1, SessionFields, MismatchedIsBuiltForAnother DEF Refusal
  <2>2. CASE ~Mismatched(m, c) /\ Foreign(m, c)
    <3>1. caches[c].layers # <<>>
      BY <1>2, <2>2, MismatchedIsBuiltForAnother, RefinementAssumption DEF BuiltFor
    <3>2. VisibleLength(c) # 0
      BY <2>2, <3>1, VisibleLengthType DEF Foreign
    <3> QED BY <2>2, <3>2, SessionFields DEF Refusal
  <2>3. CASE ~Mismatched(m, c) /\ ~Foreign(m, c)
    <3>1. why = TokenRefusal(tokens, cfg.context - LengthOf(caches[c]))
      BY <1>2, <2>3 DEF Refusal
    <3> HIDE DEF why
    <3>2. Len(Sessions[c].text) = LengthOf(caches[c])
      BY <1>4, SessionFields
    <3>3. \/ tokens = <<>> /\ why = "empty"
          \/ Len(tokens) > cfg.context - LengthOf(caches[c]) /\ why = "room"
      BY <1>1, <3>1 DEF TokenRefusal
    <3> QED BY <1>4, <1>5, <3>2, <3>3
  <2> QED BY <2>1, <2>2, <2>3
<1> HIDE DEF why, cfg
<1>7. Promise!Refuse(c, cfg, tokens) /\ reply'.kind = "error"
  BY <1>1, <1>3, <1>6 DEF Promise!Refuse, Promise!Refused, Refused
<1>8. cfg \in Promise!Configs /\ tokens \in Promise!Calls
  BY <1>2 DEF Promise!Configs, Configs, Promise!Calls, Calls
<1> QED BY <1>7, <1>8 DEF Promise!Next, Promise!Refusals

LEMMA UncachedRefusalIsPromised ==
  ASSUME IInv, NEW m \in Models, NEW tokens \in Calls, RefuseUncached(m, tokens)
  PROVE  Promise!Next
<1> DEFINE cfg == models[m].config
<1>1. /\ call = Idle /\ models[m].id # 0
      /\ TokenRefusal(tokens, cfg.context) # "none"
      /\ reply' = Refused(TokenRefusal(tokens, cfg.context))
      /\ UNCHANGED <<caches, call, fed, minted>>
  BY DEF RefuseUncached
<1>2. cfg \in Configs
  BY <1>1 DEF IInv, ModelsInv
<1> HIDE DEF cfg
<1>3. Sessions' = Sessions
  BY <1>1, RefusedSessions
<1>4. Promise!RefuseUncached(cfg, tokens) /\ reply'.kind = "error"
  BY <1>1, <1>3 DEF TokenRefusal, Promise!RefuseUncached, Promise!Refused, Refused
<1>5. cfg \in Promise!Configs /\ tokens \in Promise!Calls
  BY <1>2 DEF Promise!Configs, Configs, Promise!Calls, Calls
<1> QED BY <1>4, <1>5 DEF Promise!Next, Promise!Refusals

\* A step within a pass: nothing of it shows.
LEMMA HiddenStep ==
  ASSUME IInv, call # Idle, call' # Idle, call'.cache = call.cache,
         call'.start = call.start, minted' = minted,
         \A d \in Caches \ {call.cache} : caches'[d] = caches[d] /\ fed'[d] = fed[d],
         call.cache \in Caches =>
           LET c == call.cache IN
           /\ DOMAIN caches'[c].layers = DOMAIN caches[c].layers
           /\ DOMAIN caches'[c].layers[1].rows = DOMAIN caches[c].layers[1].rows
           /\ caches'[c].shape = caches[c].shape
           /\ caches'[c].owner = caches[c].owner
           /\ Prefix(fed'[c], call.start) = Prefix(fed[c], call.start)
  PROVE  Sessions' = Sessions
<1>1. ASSUME NEW d \in Caches, d # call.cache PROVE SessionOf(d)' = SessionOf(d)
  <2>1. VisibleLength(d)' = VisibleLength(d)
    BY <1>1 DEF VisibleLength, InCall, LengthOf
  <2> QED BY <1>1, <2>1, SessionKept
<1>2. ASSUME NEW d \in Caches, d = call.cache PROVE SessionOf(d)' = SessionOf(d)
  <2>1. VisibleLength(d)' = VisibleLength(d)
    BY <1>2 DEF VisibleLength, InCall
  <2>2. caches[d].layers # <<>> /\ 1 \in DOMAIN caches[d].layers
    BY <1>2, PassHasLayers
  <2>3. caches'[d].layers # <<>>
    BY <1>2, <2>2
  <2>4. PositionsOf(caches'[d]) = PositionsOf(caches[d])
    BY <1>2, <2>2, <2>3 DEF PositionsOf
  <2> QED BY <1>2, <2>1, <2>3, <2>4, SessionOfPassKept
<1> QED BY <1>1, <1>2, SessionsSame

\* A step that writes one layer of the pass's cache.
LEMMA LayerWritten ==
  ASSUME IInv, call # Idle, call.cache \in Caches, NEW layer,
         NEW k \in DOMAIN caches[call.cache].layers,
         DOMAIN layer.rows = DOMAIN caches[call.cache].layers[k].rows,
         caches' = [caches EXCEPT ![call.cache].layers[k] = layer]
  PROVE  LET c == call.cache IN
         /\ \A d \in Caches \ {c} : caches'[d] = caches[d]
         /\ DOMAIN caches'[c].layers = DOMAIN caches[c].layers
         /\ DOMAIN caches'[c].layers[1].rows = DOMAIN caches[c].layers[1].rows
         /\ caches'[c].shape = caches[c].shape
         /\ caches'[c].owner = caches[c].owner
<1> DEFINE c == call.cache
<1>1. DOMAIN caches = Caches /\ DOMAIN caches[c] = {"layers", "shape", "owner"}
  BY DEF IInv, TypeOK, CachesType, CacheType
<1>2. caches'[c] = [caches[c] EXCEPT !.layers[k] = layer]
  BY <1>1
<1>3. /\ caches'[c].layers = [caches[c].layers EXCEPT ![k] = layer]
      /\ caches'[c].shape = caches[c].shape
      /\ caches'[c].owner = caches[c].owner
  BY <1>1, <1>2
<1>4. 1 \in DOMAIN caches[c].layers
  BY PassHasLayers
<1>5. DOMAIN caches'[c].layers[1].rows = DOMAIN caches[c].layers[1].rows
  BY <1>3, <1>4
<1> QED BY <1>1, <1>3, <1>5

LEMMA HiddenSteps ==
  ASSUME IInv,
         EmbedTokens \/ AppendRows \/ AttendAndCommit \/ RunUncachedLayer \/ FinishLayer
  PROVE  /\ Sessions' = Sessions /\ reply' = reply
         /\ call # Idle /\ call'.cache = call.cache /\ call'.model = call.model
         /\ models' = models
         /\ call.cache \in Caches =>
              caches'[call.cache].shape = caches[call.cache].shape
<1>1. /\ call # Idle
      /\ reply' = reply /\ minted' = minted /\ models' = models
      /\ "stage" \in DOMAIN call /\ "cache" \in DOMAIN call /\ "start" \in DOMAIN call
      /\ "model" \in DOMAIN call
  <2>1. call # Idle
    BY DEF EmbedTokens, AppendRows, AttendAndCommit, RunUncachedLayer, FinishLayer, Idle
  <2> QED BY <2>1, PassFacts
          DEF EmbedTokens, AppendRows, AttendAndCommit, RunUncachedLayer, FinishLayer,
              CallType
<1>2. /\ call' # Idle /\ call'.cache = call.cache /\ call'.start = call.start
      /\ call'.model = call.model
  <2>1. CASE EmbedTokens
    BY <1>1, <2>1 DEF EmbedTokens, Idle
  <2>2. CASE AppendRows
    BY <1>1, <2>2 DEF AppendRows, Idle
  <2>3. CASE AttendAndCommit
    BY <1>1, <2>3 DEF AttendAndCommit, Idle
  <2>4. CASE RunUncachedLayer
    BY <1>1, <2>4 DEF RunUncachedLayer, Idle
  <2>5. CASE FinishLayer
    BY <1>1, <2>5 DEF FinishLayer, Idle
  <2> QED BY <2>1, <2>2, <2>3, <2>4, <2>5
<1>3. CASE EmbedTokens
  <2>1. /\ caches' = caches
        /\ \A d \in Caches \ {call.cache} : fed'[d] = fed[d]
    BY <1>3 DEF EmbedTokens, IInv, TypeOK, CachesType
  <2>2. ASSUME call.cache \in Caches
        PROVE  Prefix(fed'[call.cache], call.start) = Prefix(fed[call.cache], call.start)
    <3> DEFINE c == call.cache
    <3>1. c # NoCache /\ fed \in [Caches -> Seq(Tokens)]
      BY <2>2, CacheAssumption DEF IInv, TypeOK, CachesType
    <3>2. call.start \in 0..Len(fed[c]) /\ call.tokens \in Seq(Tokens)
      BY <1>1, <2>2, <3>1, PassFacts, LenProperties DEF IInv, CachedPassInv, CallType
    <3>3. fed'[c] = Extended(fed[c], call.start, call.tokens)
      BY <1>3, <2>2, <3>1 DEF EmbedTokens
    <3> QED BY <2>2, <3>1, <3>2, <3>3, ExtendedText
  <2> QED BY <1>1, <1>2, <2>1, <2>2, HiddenStep
<1>4. CASE RunUncachedLayer \/ FinishLayer
  <2>1. caches' = caches /\ fed' = fed
    BY <1>4 DEF RunUncachedLayer, FinishLayer
  <2> QED BY <1>1, <1>2, <2>1, HiddenStep
<1>5. CASE AppendRows \/ AttendAndCommit
  <2> DEFINE c == call.cache
             k == call.layer
  <2>1. Computing /\ c # NoCache /\ fed' = fed
    BY <1>5, <1>1, PassFacts DEF AppendRows, AttendAndCommit, Computing, PassInv
  <2>2. c \in Caches /\ k \in DOMAIN caches[c].layers /\ DOMAIN Layer = {"rows", "length"}
        /\ Layer = caches[c].layers[k]
    BY <2>1, ComputingFacts, CachedPassFacts DEF Layer
  <2>3. PICK layer : /\ DOMAIN layer.rows = DOMAIN caches[c].layers[k].rows
                     /\ caches' = [caches EXCEPT ![c].layers[k] = layer]
    <3>1. CASE AppendRows
      <4> DEFINE layer == Appended(Layer, [q \in New |-> ProjectKV(W, call.layer, call.hidden[q])])
      <4>1. DOMAIN layer.rows = DOMAIN Layer.rows
        BY <2>2 DEF Appended
      <4>2. caches' = [caches EXCEPT ![c].layers[k] = layer]
        BY <3>1 DEF AppendRows, Layer
      <4> HIDE DEF layer
      <4> QED BY <2>2, <4>1, <4>2
    <3>2. CASE AttendAndCommit
      <4> DEFINE layer == [Layer EXCEPT !.length = @ + Len(call.tokens)]
      <4>1. DOMAIN layer.rows = DOMAIN Layer.rows
        BY <2>2
      <4>2. caches' = [caches EXCEPT ![c].layers[k] = layer]
        BY <2>2, <3>2 DEF AttendAndCommit, Layer
      <4> HIDE DEF layer
      <4> QED BY <2>2, <4>1, <4>2
    <3> QED BY <1>5, <3>1, <3>2
  <2>4. LET d == call.cache IN
        /\ \A e \in Caches \ {d} : caches'[e] = caches[e]
        /\ DOMAIN caches'[d].layers = DOMAIN caches[d].layers
        /\ DOMAIN caches'[d].layers[1].rows = DOMAIN caches[d].layers[1].rows
        /\ caches'[d].shape = caches[d].shape
        /\ caches'[d].owner = caches[d].owner
    BY <1>1, <2>2, <2>3, LayerWritten
  <2> QED BY <1>1, <1>2, <2>1, <2>4, HiddenStep
<1> QED BY <1>1, <1>3, <1>4, <1>5

\* The cache of a pass has the shape of the pass's model.
ShapeInv ==
  call # Idle /\ call.cache \in Caches =>
    caches[call.cache].shape = models[call.model].config.shape

LEMMA InitShape == Init => ShapeInv
BY DEF Init, ShapeInv

LEMMA NextShape ==
  ASSUME IInv, ShapeInv, [Next]_vars
  PROVE  ShapeInv'
<1>1. CASE EmbedTokens \/ AppendRows \/ AttendAndCommit \/ RunUncachedLayer \/ FinishLayer
  BY <1>1, HiddenSteps DEF ShapeInv
<1>2. CASE Throw
  <2>1. /\ call # Idle /\ CallType /\ caches' = caches /\ models' = models
        /\ call' = Idle \/ call' = [call EXCEPT !.stage = "catch"]
    BY <1>2, PassFacts DEF Throw, Idle
  <2>2. call' = Idle \/ (call'.cache = call.cache /\ call'.model = call.model)
    BY <2>1 DEF CallType
  <2> QED BY <2>1, <2>2 DEF ShapeInv
<1>3. CASE ReturnLogits \/ Rollback
  BY <1>3 DEF ReturnLogits, Rollback, ShapeInv
<1>4. CASE Objects
  BY <1>4 DEF Objects, ConstructModel, RejectCheckpoint, MoveModel, BuildCache,
     ClearCache, CopyCache, MoveCache, ShapeInv
<1>5. CASE Begin
  <2>1. ASSUME NEW m \in Models, NEW tokens \in Calls, NEW lastOnly \in BOOLEAN,
               AcceptUncached(m, tokens, lastOnly)
        PROVE  ShapeInv'
    BY <2>1, CacheAssumption DEF AcceptUncached, ShapeInv
  <2>2. ASSUME NEW m \in Models, NEW tokens \in Calls, NEW lastOnly \in BOOLEAN,
               NEW c \in Caches, AcceptCached(m, c, tokens, lastOnly)
        PROVE  ShapeInv'
    <3>1. ~Mismatched(m, c)
      BY <2>2 DEF AcceptCached, Refusal
    <3>2. /\ call'.cache = c /\ call'.model = m
          /\ caches' = caches /\ models' = models
      BY <2>2 DEF AcceptCached
    <3> QED BY <3>1, <3>2 DEF Mismatched, ShapeInv
  <2>3. CASE call' = Idle
    BY <2>3 DEF ShapeInv
  <2> QED BY <1>5, <2>1, <2>2, <2>3
          DEF Begin, RefuseCached, RefuseUncached
<1>6. CASE UNCHANGED vars
  BY <1>6 DEF vars, ShapeInv
<1> QED BY <1>1, <1>2, <1>3, <1>4, <1>5, <1>6 DEF Next, Pass

\* An exception ends an uncached pass, and sends a cached one to its handler.
LEMMA ThrowIsPromised ==
  ASSUME IInv, Throw
  PROVE  (Promise!Fail /\ reply'.kind = "error") \/ (Sessions' = Sessions /\ reply' = reply)
<1>1. /\ call # Idle /\ CallType
      /\ caches' = caches /\ fed' = fed /\ minted' = minted
  <2>1. call # Idle
    BY DEF Throw, Idle
  <2> QED BY <2>1, PassFacts DEF Throw
<1>2. CASE call.cache = NoCache
  <2>1. call' = Idle /\ reply' = Refused("failed")
    BY <1>2 DEF Throw
  <2>2. ASSUME NEW c \in Caches PROVE VisibleLength(c)' = VisibleLength(c)
    <3>1. ~InCall(c)
      BY <1>2, CacheAssumption DEF InCall
    <3> QED BY <1>1, <2>1, <3>1, RestingSessionsNext DEF VisibleLength
  <2>3. Sessions' = Sessions
    BY <1>1, <2>2, SessionKept, SessionsSame
  <2> QED BY <2>1, <2>3 DEF Promise!Fail, Promise!Refused, Refused
<1>3. CASE call.cache # NoCache
  <2>1. call' = [call EXCEPT !.stage = "catch"] /\ reply' = reply
    BY <1>3 DEF Throw
  <2>2. call' # Idle /\ call'.cache = call.cache /\ call'.start = call.start
    BY <1>1, <2>1 DEF CallType, Idle
  <2> QED BY <1>1, <2>1, <2>2, HiddenStep
<1> QED BY <1>2, <1>3

\* The handler leaves the cache as the pass found it.
LEMMA RollbackIsPromised ==
  ASSUME IInv, Rollback
  PROVE  Promise!Fail /\ reply'.kind = "error"
<1>1. /\ call # Idle /\ call.stage = "catch" /\ call' = Idle
      /\ reply' = Refused("failed")
      /\ fed' = fed /\ minted' = minted
  BY DEF Rollback, Idle
<1>2. call.cache \in Caches /\ CachesType
  BY <1>1, PassFacts DEF PassInv, CallType
<1> PICK c \in Caches : c = call.cache
  BY <1>2
<1> DEFINE new == RolledBack(caches[c], call.start)
<1>3. /\ CacheType(caches[c]) /\ caches[c].layers # <<>>
       /\ 1 \in DOMAIN caches[c].layers /\ DOMAIN caches = Caches
  BY <1>1, <1>2, PassHasLayers DEF CachesType
<1>4. DiffersInLengths(caches[c], new, call.start)
  BY <1>3, SameLengths
<1>5. caches'[c] = new /\ \A d \in Caches \ {c} : caches'[d] = caches[d]
  BY <1>3 DEF Rollback
<1> HIDE DEF new
<1>6. SessionOf(c)' = SessionOf(c)
  <2>1. VisibleLength(c)' = VisibleLength(c)
    <3>1. VisibleLength(c) = call.start
      BY <1>1 DEF VisibleLength, InCall
    <3>2. VisibleLength(c)' = LengthOf(caches'[c])
      BY <1>1, <1>3, RestingSessionsNext
    <3>3. LengthOf(caches'[c]) = call.start
      BY <1>4, <1>5 DEF DiffersInLengths
    <3> QED BY <3>1, <3>2, <3>3
  <2>2. /\ caches'[c].layers # <<>>
        /\ DOMAIN caches'[c].layers = DOMAIN caches[c].layers
        /\ caches'[c].layers[1].rows = caches[c].layers[1].rows
        /\ caches'[c].shape = caches[c].shape /\ caches'[c].owner = caches[c].owner
    BY <1>3, <1>4, <1>5 DEF DiffersInLengths
  <2>3. PositionsOf(caches'[c]) = PositionsOf(caches[c])
    BY <1>3, <2>2 DEF PositionsOf
  <2>4. Prefix(fed'[c], call.start) = Prefix(fed[c], call.start)
    BY <1>1
  <2> QED BY <1>1, <1>3, <2>1, <2>2, <2>3, <2>4, SessionOfPassKept
<1>7. ASSUME NEW d \in Caches, d # c PROVE SessionOf(d)' = SessionOf(d)
  <2>1. VisibleLength(d)' = VisibleLength(d)
    BY <1>1, <1>3, <1>5, <1>7, RestingSessionsNext DEF VisibleLength, InCall
  <2> QED BY <1>1, <1>3, <1>5, <1>7, <2>1, SessionKept
<1>8. \A d \in Caches : SessionOf(d)' = SessionOf(d)
  BY <1>6, <1>7
<1>9. Sessions' = Sessions
  BY <1>8, SessionsSame
<1> QED BY <1>1, <1>9 DEF Promise!Fail, Promise!Refused, Refused

\* What a pass answers, cached or not.
LEMMA AnswerIsPromised ==
  ASSUME IInv, IInv', ReturnLogits
  PROVE  /\ reply'.kind = "logits"
         /\ reply' = Promise!Answer(W, Text, Promise!FirstRow(Text, Len(call.tokens), call.lastOnly))
<1>1. Computing /\ call # Idle
  BY DEF ReturnLogits, Computing, Idle
<1>2. Len(Text) = call.start + Len(call.tokens)
  BY <1>1, ComputingFacts
<1>3. Len(call.tokens) \in Nat \ {0} /\ call.start \in Nat
  BY <1>1, PassFacts DEF CallType
<1>4. call.start + FirstRow = Promise!FirstRow(Text, Len(call.tokens), call.lastOnly)
  BY <1>2, <1>3 DEF FirstRow, Promise!FirstRow
<1>5. reply' = [kind |-> "logits", weights |-> W, text |-> Text,
                first |-> call.start + FirstRow, rows |-> Answered]
  BY DEF ReturnLogits
<1>6. reply'.rows = ReferenceLogits(W, Text, call.start + FirstRow)
  BY <1>5 DEF IInv, AnswerIsReference, ReferenceLogits
<1>7. Answered = ReferenceLogits(W, Text, call.start + FirstRow)
  BY <1>5, <1>6
<1> DEFINE first == call.start + FirstRow
<1>8. reply' = [kind |-> "logits", weights |-> W, text |-> Text, first |-> first,
                rows |-> ReferenceLogits(W, Text, first)]
  BY <1>5, <1>7
<1>9. first = Promise!FirstRow(Text, Len(call.tokens), call.lastOnly)
  BY <1>4
<1> HIDE DEF first
<1>10. Promise!ReferenceLogits(W, Text, first) = ReferenceLogits(W, Text, first)
  BY DEF Promise!ReferenceLogits, ReferenceLogits, Promise!Prefix, Prefix
<1>11. reply' = Promise!Answer(W, Text, first)
  BY <1>8, <1>10 DEF Promise!Answer
<1> QED BY <1>5, <1>9, <1>11

LEMMA UncachedAnswerIsPromised ==
  ASSUME IInv, IInv', FedInv, ReturnLogits, call.cache = NoCache
  PROVE  Promise!Evaluate(W, call.tokens, call.lastOnly)
<1>1. Computing /\ call # Idle /\ call' = Idle
      /\ caches' = caches /\ fed' = fed /\ minted' = minted
  BY DEF ReturnLogits, Computing, Idle
<1>2. Text = call.tokens
  BY DEF Text
<1>3. Len(call.tokens) <= ConfigOf(W).context
  BY <1>1, <1>2, ComputingFacts
<1>4. call.tokens # <<>> /\ \A q \in 1..Len(call.tokens) : call.tokens[q] \in Vocabulary(W)
  BY <1>1, PassFacts DEF PassInv, FedInv, New
<1>5. Sessions' = Sessions
  <2>1. ASSUME NEW c \in Caches PROVE VisibleLength(c)' = VisibleLength(c)
    <3>1. ~InCall(c)
      BY CacheAssumption DEF InCall
    <3> QED BY <1>1, <3>1, RestingSessionsNext DEF VisibleLength
  <2> QED BY <1>1, <2>1, SessionKept, SessionsSame
<1>6. reply' = Promise!Answer(W, call.tokens,
                 Promise!FirstRow(call.tokens, Len(call.tokens), call.lastOnly))
  BY <1>2, AnswerIsPromised
<1> QED BY <1>3, <1>4, <1>5, <1>6 DEF Promise!Evaluate, Promise!Readable

\* The text of a cached pass is the session's text and the tokens.
LEMMA PassExtendsItsSession ==
  ASSUME IInv, FedInv, Computing, call.cache \in Caches
  PROVE  fed[call.cache] = Sessions[call.cache].text \o call.tokens
<1> DEFINE c == call.cache
           old == Sessions[c].text
<1>1. call # Idle /\ Text = fed[c] /\ fed[c] \in Seq(Tokens)
      /\ Len(fed[c]) = call.start + Len(call.tokens)
  <2>1. c # NoCache
    BY CacheAssumption
  <2> QED BY <2>1, ComputingFacts DEF Text
<1>2. call.tokens \in Seq(Tokens) /\ Len(call.tokens) \in Nat /\ call.start \in Nat
  BY <1>1, PassFacts DEF CallType
<1>3. VisibleLength(c) = call.start
  BY <1>1 DEF VisibleLength, InCall
<1>4. /\ old = Prefix(fed[c], call.start) /\ old \in Seq(Tokens)
      /\ Len(old) = call.start
  BY <1>3, SessionFields
<1> HIDE DEF old
<1>5. /\ old \o call.tokens \in Seq(Tokens)
      /\ Len(old \o call.tokens) = call.start + Len(call.tokens)
      /\ \A i \in 1..(call.start + Len(call.tokens)) :
           (old \o call.tokens)[i] = IF i <= call.start THEN old[i]
                                     ELSE call.tokens[i - call.start]
  <2> DEFINE u == call.tokens
  <2>1. u \in Seq(Tokens) /\ old \in Seq(Tokens)
    BY <1>2, <1>4
  <2> HIDE DEF u
  <2>2. /\ old \o u \in Seq(Tokens)
        /\ Len(old \o u) = Len(old) + Len(u)
        /\ \A i \in 1..(Len(old) + Len(u)) :
             (old \o u)[i] = IF i <= Len(old) THEN old[i] ELSE u[i - Len(old)]
    BY <2>1, ConcatProperties
  <2> QED BY <1>4, <2>2 DEF u
<1>6. ASSUME NEW i \in 1..(call.start + Len(call.tokens))
      PROVE  fed[c][i] = (old \o call.tokens)[i]
  <2>1. CASE i <= call.start
    <3>1. i \in 1..call.start
      BY <1>2, <2>1
    <3>2. Prefix(fed[c], call.start)[i] = fed[c][i]
      BY <3>1 DEF Prefix
    <3> QED BY <1>4, <1>5, <2>1, <3>2
  <2>2. CASE ~(i <= call.start)
    <3> DEFINE q == i - call.start
    <3>1. q \in New /\ call.start + q = i
      BY <1>2, <2>2 DEF New
    <3> HIDE DEF q
    <3>2. fed[c][i] = call.tokens[q]
      BY <1>1, <3>1 DEF FedInv
    <3> QED BY <1>5, <2>2, <3>2 DEF q
  <2> QED BY <2>1, <2>2
<1>7. fed[c] = old \o call.tokens
  BY <1>1, <1>5, <1>6, SeqEqual
<1> QED BY <1>7 DEF old

\* The identity of the pass's model names its weights.
LEMMA PassModelIsNamed ==
  ASSUME IInv, Computing
  PROVE  models[call.model].id # 0 /\ minted[models[call.model].id] = W
<1>1. call # Idle /\ W \in Weights
  BY ComputingFacts
<1>2. CallType /\ ModelsInv /\ PassInv
  BY <1>1, PassFacts
<1>3. W # NoWeights
  BY <1>1, CacheAssumption
<1> QED BY <1>1, <1>2, <1>3 DEF CallType, ModelsInv, IdentityNamesOneModel, PassInv, W

LEMMA CachedAnswerIsPromised ==
  ASSUME IInv, IInv', FedInv, ShapeInv, ReturnLogits, call.cache \in Caches
  PROVE  Promise!Extend(call.cache, W, call.tokens, call.lastOnly)
<1> PICK c \in Caches : c = call.cache
  OBVIOUS
<1> DEFINE n == Len(call.tokens)
           new == Owned(caches[c])
<1>1. /\ Computing /\ call.stage = "logits" /\ call # Idle /\ call' = Idle
      /\ fed' = fed /\ minted' = minted
  BY DEF ReturnLogits, Computing, Idle
<1>2. /\ c # NoCache /\ W \in Weights /\ models[call.model].config = ConfigOf(W)
      /\ Text = fed[c] /\ Len(fed[c]) = call.start + n /\ Len(fed[c]) <= ConfigOf(W).context
      /\ call.layer \in 1..ConfigOf(W).layers
  <2>1. c # NoCache
    BY CacheAssumption
  <2> QED BY <1>1, <2>1, ComputingFacts DEF Text
<1>3. /\ n \in Nat \ {0} /\ call.start \in Nat /\ call.tokens # <<>>
      /\ IsConfig(ConfigOf(W)) /\ call.layer = ConfigOf(W).layers
      /\ CachesType /\ fed[c] \in Seq(Tokens)
  BY <1>1, <1>2, PassFacts DEF PassInv, CallType, CachesType
<1>4. /\ DOMAIN caches = Caches /\ caches'[c] = new
      /\ \A d \in Caches \ {c} : caches'[d] = caches[d]
  BY <1>2, <1>3 DEF ReturnLogits, CachesType
<1>5. /\ DOMAIN caches[c] = {"layers", "shape", "owner"}
      /\ caches[c].layers # <<>>
      /\ DOMAIN caches[c].layers = 1..ConfigOf(W).layers
      /\ 1 \in 1..ConfigOf(W).layers
      /\ caches[c].owner \in {0, models[call.model].id}
      /\ DOMAIN caches[c].layers[1].rows = 1..ConfigOf(W).context
      /\ caches[c].layers[1].length = call.start + n
  <2>1. Reached(1)
    BY <1>1, <1>2, <1>3 DEF Reached, IsConfig
  <2> QED BY <1>1, <1>2, <2>1, PassHasLayers, CachedPassFacts
<1>6. /\ new.layers = caches[c].layers /\ new.shape = caches[c].shape
      /\ new.owner = models[call.model].id
  BY <1>5 DEF Owned
<1> HIDE DEF new
<1>7. BuiltFor(caches[c]) = ConfigOf(W) /\ BuiltFor(new) = BuiltFor(caches[c])
  <2>1. CacheType(caches[c]) /\ ConfigOf(W) \in Configs
    BY <1>2, <1>3 DEF CachesType, Configs
  <2>2. PICK cfg \in Configs : Fitting(caches[c], cfg) /\ BuiltFor(caches[c]) = cfg
    BY <1>5, <2>1, BuiltForSome
  <2>3. PositionsOf(caches[c]) = 1..ConfigOf(W).context
    BY <1>5 DEF PositionsOf
  <2>4. caches[c].shape = ConfigOf(W).shape
    BY <1>1, <1>2 DEF ShapeInv
  <2>5. BuiltFor(caches[c]) = ConfigOf(W)
    BY <1>5, <2>1, <2>3, <2>4, BuiltForConfig DEF Fitting
  <2>6. BuiltFor(new) = BuiltFor(caches[c])
    BY <1>6 DEF BuiltFor, Fitting, PositionsOf
  <2> QED BY <2>5, <2>6
<1>8. models[call.model].id # 0 /\ minted[models[call.model].id] = W
  BY <1>1, PassModelIsNamed
<1>9. Sessions[c].text # <<>> => Sessions[c].weights = W
  <2>1. VisibleLength(c) = 0 <=> caches[c].owner = 0
    BY <1>5 DEF IInv, OwnedIffPopulated
  <2> QED BY <1>5, <1>8, <2>1, SessionFields
<1>10. fed[c] = Sessions[c].text \o call.tokens
  BY <1>1, PassExtendsItsSession
<1>11. SessionOf(c)' = [config |-> ConfigOf(W), text |-> fed[c], weights |-> W]
  <2>1. LengthOf(new) = Len(fed[c])
    BY <1>2, <1>5, <1>6 DEF LengthOf
  <2>2. SessionOf(c)' = View(new, fed[c], Len(fed[c]), minted)
    <3>1. SessionOf(c)' = View(caches'[c], fed'[c], LengthOf(caches'[c]), minted')
      BY <1>1, RestingSessionsNext
    <3> QED BY <1>1, <1>4, <2>1, <3>1
  <2>3. Prefix(fed[c], Len(fed[c])) = fed[c]
    BY <1>3, FullPrefix
  <2>4. Len(fed[c]) # 0
    BY <1>2, <1>3
  <2> QED BY <1>6, <1>7, <1>8, <2>2, <2>3, <2>4 DEF View
<1>12. \A d \in Caches \ {c} : SessionOf(d)' = SessionOf(d)
  <2>1. ASSUME NEW d \in Caches, d # c PROVE SessionOf(d)' = SessionOf(d)
    <3>1. VisibleLength(d)' = VisibleLength(d)
      BY <1>1, <1>4, <2>1, RestingSessionsNext DEF VisibleLength, InCall
    <3> QED BY <1>1, <1>4, <2>1, <3>1, SessionKept
  <2> QED BY <2>1
<1>13. Sessions' = [Sessions EXCEPT
                     ![c] = [config |-> ConfigOf(W), text |-> fed[c], weights |-> W]]
  BY <1>11, <1>12, SessionsReplaced
<1>14. Sessions[c].config = ConfigOf(W)
  BY <1>7, SessionFields
<1>15. \A q \in 1..Len(call.tokens) : call.tokens[q] \in Vocabulary(W)
  BY <1>1 DEF FedInv, New
<1>16. reply' = Promise!Answer(W, fed[c],
                  Promise!FirstRow(fed[c], Len(call.tokens), call.lastOnly))
  BY <1>2, AnswerIsPromised
<1> QED BY <1>2, <1>3, <1>9, <1>10, <1>13, <1>14, <1>15, <1>16
        DEF Promise!Extend, Promise!Readable

LEMMA InitIsPromised == Init => Promise!Init
<1> SUFFICES ASSUME Init PROVE Promise!Init
  OBVIOUS
<1>1. call = Idle /\ reply = NoReply
  BY DEF Init
<1>2. ASSUME NEW c \in Caches
      PROVE  \E cfg \in Configs : SessionOf(c) = Promise!Empty(cfg)
  <2>1. PICK cfg \in Configs : caches[c] = NewCache(cfg)
    BY DEF Init
  <2>2. /\ NewCache(cfg).layers # <<>> /\ Fitting(NewCache(cfg), cfg)
        /\ LengthOf(NewCache(cfg)) = 0
    BY NewCacheFits
  <2>3. SessionOf(c) = Promise!Empty(cfg)
    BY <1>1, <2>1, <2>2, RestingSessions, BuiltForConfig, ViewOfNothing
  <2> QED BY <2>3
<1>3. Sessions \in [Caches -> {Promise!Empty(cfg) : cfg \in Promise!Configs}]
  BY <1>2 DEF Sessions, Configs, Promise!Configs
<1> QED BY <1>1, <1>3 DEF Promise!Init, Promise!NoReply, NoReply

LEMMA ReturnIsPromised ==
  ASSUME IInv, IInv', FedInv, ShapeInv, ReturnLogits
  PROVE  Promise!Next
<1>1. Computing
  BY DEF ReturnLogits, Computing
<1>2. W \in Weights /\ CallType
  BY <1>1, ComputingFacts, PassFacts
<1>3. /\ call.tokens \in Promise!Calls /\ call.lastOnly \in BOOLEAN
      /\ call.cache \in Caches \cup {NoCache}
  BY <1>2 DEF CallType, Calls, Promise!Calls
<1>4. \/ Promise!Evaluate(W, call.tokens, call.lastOnly)
      \/ \E c \in Caches : Promise!Extend(c, W, call.tokens, call.lastOnly)
  BY <1>3, UncachedAnswerIsPromised, CachedAnswerIsPromised
<1>5. reply'.kind = "logits"
  BY AnswerIsPromised
<1>6. Promise!Answers
  BY <1>2, <1>3, <1>4, <1>5 DEF Promise!Answers
<1> QED BY <1>6 DEF Promise!Next

LEMMA NextIsPromised ==
  ASSUME IInv, IInv', FedInv, ShapeInv, [Next]_vars
  PROVE  [Promise!Next]_(Promise!vars)
<1> SUFFICES Promise!Next \/ (Sessions' = Sessions /\ reply' = reply)
  BY DEF Promise!vars
<1>1. CASE Objects
  <2>1. ASSUME NEW c \in Caches, NEW cfg \in Configs, BuildCache(c, cfg)
        PROVE  Promise!Next
    <3>1. cfg \in Promise!Configs
      BY DEF Configs, Promise!Configs
    <3> QED BY <2>1, <3>1, BuildIsPromised DEF Promise!Next, Promise!Changes
  <2>2. ASSUME NEW c \in Caches, ClearCache(c) PROVE Promise!Next
    BY <2>2, ClearIsPromised DEF Promise!Next, Promise!Changes
  <2>3. ASSUME NEW from \in Caches, NEW to \in Caches, CopyCache(from, to)
        PROVE  Promise!Next
    BY <2>3, CopyIsPromised DEF Promise!Next, Promise!Changes
  <2>4. ASSUME NEW from \in Caches, NEW to \in Caches, MoveCache(from, to)
        PROVE  Promise!Next
    BY <2>4, MoveIsPromised DEF Promise!Next, Promise!Changes
  <2> QED BY <1>1, <2>1, <2>2, <2>3, <2>4, ModelsForget DEF Objects
<1>2. CASE Begin
  BY <1>2, AcceptIsForgotten, RefusalIsPromised, UncachedRefusalIsPromised DEF Begin
<1>3. CASE Throw \/ Rollback
  BY <1>3, ThrowIsPromised, RollbackIsPromised DEF Promise!Next, Promise!Refusals
<1>4. CASE Pass
  BY <1>3, <1>4, HiddenSteps, ReturnIsPromised DEF Pass
<1>5. CASE UNCHANGED vars
  <2>1. UNCHANGED <<caches, call, reply, fed, minted>>
    BY <1>5 DEF vars
  <2> QED BY <2>1 DEF Sessions, SessionOf, View, BuiltFor, Fitting, PositionsOf,
                      VisibleLength, InCall, LengthOf
<1> QED BY <1>1, <1>2, <1>4, <1>5 DEF Next

\* Whatever a caller does with its models and caches, and wherever its forward
\* passes throw, it sees texts that are read, extended and left alone as
\* CachedDecoding says (forward, forward_last_token_logits and KvCache).
THEOREM ImplementsThePromise == Spec => ImplementsCachedDecoding
<1> DEFINE Inv == IInv /\ FedInv /\ ShapeInv
<1>1. Init => Inv
  BY InitInv, InitFed, InitShape
<1>2. Inv /\ [Next]_vars => Inv'
  BY NextInv, NextFed, NextShape
<1>3. Inv /\ Inv' /\ [Next]_vars => [Promise!Next]_(Promise!vars)
  BY NextIsPromised
<1>4. Init => Promise!Init
  BY InitIsPromised
<1> HIDE DEF Inv
<1> QED BY <1>1, <1>2, <1>3, <1>4, PTL
        DEF Spec, ImplementsCachedDecoding, Promise!Spec
=============================================================================
