------------------------------ MODULE KvCache -------------------------------
(***************************************************************************)
(* Gpt2Model, KvCache and AttentionCache (src/model.cpp, src/attention.cpp *)
(* and their headers): a caller's models and caches, and the forward       *)
(* passes it makes with them.                                              *)
(*                                                                         *)
(* The engine runs on one thread, so there is one forward pass at a time   *)
(* and no operation between its steps.  The pass is still several steps:   *)
(* an exception can leave it after any of them, with the layers of the     *)
(* cache at different lengths, and what the next pass finds depends on     *)
(* where that was.                                                         *)
(*                                                                         *)
(* A definition whose name ends in a "With..." or "Without..." phrase and  *)
(* that stands right before the one it resembles is a plausible bug of     *)
(* that one.  None is part of the specification: each shows that a         *)
(* property notices the bug.                                               *)
(***************************************************************************)
EXTENDS TransformerStack

CONSTANTS
  Models, Caches,    \* the caller's Gpt2Model and KvCache objects
  ZeroRow,           \* what a row of a new key/value tensor holds
  NoWeights,         \* the tensors of a model that was moved from
  NoCache,           \* the cache of a forward pass that was given none
  MaxCallTokens,     \* bound: tokens per forward pass
  MaxIdentity        \* bound: models constructed

ASSUME CacheAssumption ==
  /\ NoWeights \notin Weights
  /\ NoCache \notin Caches
  /\ MaxCallTokens \in Nat
  /\ MaxIdentity \in Nat

VARIABLES
  models,        \* model object -> [id, config, weights]; id 0: not constructed
  nextIdentity,  \* the counter behind next_model_identity()
  caches,        \* cache object -> [layers, shape, owner]
  call,          \* the forward pass under way, or Idle
  reply,         \* what the last forward pass returned or threw
  fed,           \* ghost: cache -> the tokens written at its positions
  minted         \* ghost: identity -> the weights it was given to

vars == <<models, nextIdentity, caches, call, reply, fed, minted>>

Configs == {ConfigOf(w) : w \in Weights}

Calls == UNION {[1..n -> Tokens] : n \in 0..MaxCallTokens}

Unconstructed ==
  [id |-> 0, config |-> [layers |-> 0, context |-> 0, shape |-> 0],
   weights |-> NoWeights]

Idle == [stage |-> "idle"]

NoReply == [kind |-> "none"]
Refused(why) == [kind |-> "error", why |-> why]

-----------------------------------------------------------------------------
(* The cache object. *)

\* AttentionCache's constructor: zero-filled tensors for the whole context.
NewLayer(cfg) == [rows |-> [i \in 1..cfg.context |-> ZeroRow], length |-> 0]

\* KvCache's constructor.
NewCache(cfg) ==
  [layers |-> [k \in 1..cfg.layers |-> NewLayer(cfg)],
   shape |-> cfg.shape, owner |-> 0]

\* What is left of a cache whose vector was moved out of it; the integers
\* are copied, the owner included.
Hollow(cache) == [cache EXCEPT !.layers = <<>>]

\* KvCache::length and KvCache::capacity look at the first layer only.
LengthOf(cache) == IF cache.layers = <<>> THEN 0 ELSE cache.layers[1].length
PositionsOf(cache) == IF cache.layers = <<>> THEN {} ELSE DOMAIN cache.layers[1].rows

\* KvCache::clear: the rows stay, and so does nothing else.
ClearedKeepingOwner(cache) ==
  [cache EXCEPT !.layers = [k \in DOMAIN @ |-> [@[k] EXCEPT !.length = 0]]]
Cleared(cache) ==
  [cache EXCEPT !.layers = [k \in DOMAIN @ |-> [@[k] EXCEPT !.length = 0]],
                !.owner = 0]

\* The handler of a cached forward pass that threw.
RolledBackFirstLayer(cache, start) ==
  [cache EXCEPT !.layers[1].length = start]
RolledBack(cache, start) ==
  [cache EXCEPT !.layers =
     [k \in DOMAIN @ |-> [@[k] EXCEPT !.length = start]]]

\* append_to_cache, for the keys and the values of one layer at once: nothing
\* between the two calls can throw.
Appended(layer, new) ==
  [layer EXCEPT !.rows =
     [i \in DOMAIN @ |-> IF i - layer.length \in DOMAIN new
                         THEN new[i - layer.length] ELSE @[i]]]

-----------------------------------------------------------------------------
Init ==
  /\ models = [m \in Models |-> Unconstructed]
  /\ nextIdentity = 1
  /\ caches \in [Caches -> {NewCache(cfg) : cfg \in Configs}]
  /\ call = Idle
  /\ reply = NoReply
  /\ fed = [c \in Caches |-> <<>>]
  /\ minted = <<>>

-----------------------------------------------------------------------------
(* Models come and go between forward passes. *)

\* m becomes a newly constructed model: next_model_identity() and a checkpoint
\* that passes validate_checkpoint_schema.
ConstructModel(m, w) ==
  /\ call = Idle
  /\ nextIdentity <= MaxIdentity
  /\ models' = [models EXCEPT
       ![m] = [id |-> nextIdentity, config |-> ConfigOf(w), weights |-> w]]
  /\ nextIdentity' = nextIdentity + 1
  /\ minted' = Append(minted, w)
  /\ reply' = NoReply
  /\ UNCHANGED <<caches, call, fed>>

\* The schema rejects the checkpoint after the identity was drawn.
RejectCheckpoint ==
  /\ call = Idle
  /\ nextIdentity <= MaxIdentity
  /\ nextIdentity' = nextIdentity + 1
  /\ minted' = Append(minted, NoWeights)
  /\ reply' = NoReply
  /\ UNCHANGED <<models, caches, call, fed>>

\* Moving hands over the tensors; the configuration and the identity are
\* integers, which stay behind as well.
MovedLeavingTheIdentity(from, to) ==
  [models EXCEPT ![to] = [models[from] EXCEPT !.id = models[to].id],
                 ![from] = [@ EXCEPT !.weights = NoWeights]]
Moved(from, to) ==
  [models EXCEPT ![to] = models[from],
                 ![from] = [@ EXCEPT !.weights = NoWeights]]

MoveModel(from, to) ==
  /\ call = Idle
  /\ from # to
  /\ models[from].id # 0
  /\ models' = Moved(from, to)
  /\ reply' = NoReply
  /\ UNCHANGED <<nextIdentity, caches, call, fed, minted>>

-----------------------------------------------------------------------------
(* Caches come and go between forward passes. *)

BuildCache(c, cfg) ==
  /\ call = Idle
  /\ caches' = [caches EXCEPT ![c] = NewCache(cfg)]
  /\ fed' = [fed EXCEPT ![c] = <<>>]
  /\ reply' = NoReply
  /\ UNCHANGED <<models, nextIdentity, call, minted>>

ClearCache(c) ==
  /\ call = Idle
  /\ caches' = [caches EXCEPT ![c] = Cleared(@)]
  /\ reply' = NoReply
  /\ UNCHANGED <<models, nextIdentity, call, fed, minted>>

CopyCache(from, to) ==
  /\ call = Idle
  /\ from # to
  /\ caches' = [caches EXCEPT ![to] = caches[from]]
  /\ fed' = [fed EXCEPT ![to] = fed[from]]
  /\ reply' = NoReply
  /\ UNCHANGED <<models, nextIdentity, call, minted>>

MoveCache(from, to) ==
  /\ call = Idle
  /\ from # to
  /\ caches' = [caches EXCEPT ![to] = caches[from], ![from] = Hollow(@)]
  /\ fed' = [fed EXCEPT ![to] = fed[from], ![from] = <<>>]
  /\ reply' = NoReply
  /\ UNCHANGED <<models, nextIdentity, call, minted>>

-----------------------------------------------------------------------------
(* A forward pass begins: validate_cached_forward, validate_token_sequence. *)

\* "cache was not built for this model configuration"
Mismatched(m, c) ==
  LET cfg == models[m].config IN
  \/ DOMAIN caches[c].layers # 1..cfg.layers
  \/ PositionsOf(caches[c]) # 1..cfg.context
  \/ caches[c].shape # cfg.shape

\* "cache contains state from a different model"
ForeignToNoModelOfItsShape(m, c) == FALSE
Foreign(m, c) == caches[c].owner # 0 /\ caches[c].owner # models[m].id

\* "cache layers contain different sequence lengths"
Torn(c) ==
  \E k \in DOMAIN caches[c].layers :
    caches[c].layers[k].length # LengthOf(caches[c])

\* The first check that fails names the refusal.
TokenRefusalOneTooLate(tokens, available) ==
  IF tokens = <<>> THEN "empty"
  ELSE IF Len(tokens) > available + 1 THEN "room" ELSE "none"
TokenRefusal(tokens, available) ==
  IF tokens = <<>> THEN "empty"
  ELSE IF Len(tokens) > available THEN "room" ELSE "none"

Refusal(m, c, tokens) ==
  IF Mismatched(m, c) THEN "config"
  ELSE IF Foreign(m, c) THEN "owner"
  ELSE IF Torn(c) THEN "torn"
  ELSE TokenRefusal(tokens, models[m].config.context - LengthOf(caches[c]))

\* Every check passes.  The call remembers the length it started from.
AcceptCached(m, c, tokens, lastOnly) ==
  /\ call = Idle
  /\ models[m].id # 0
  /\ Refusal(m, c, tokens) = "none"
  /\ call' = [stage |-> "embed", model |-> m, cache |-> c, tokens |-> tokens,
              lastOnly |-> lastOnly, start |-> LengthOf(caches[c]),
              layer |-> 1, hidden |-> <<>>]
  /\ reply' = NoReply
  /\ UNCHANGED <<models, nextIdentity, caches, fed, minted>>

RefuseCached(m, c, tokens) ==
  /\ call = Idle
  /\ models[m].id # 0
  /\ Refusal(m, c, tokens) # "none"
  /\ reply' = Refused(Refusal(m, c, tokens))
  /\ UNCHANGED <<models, nextIdentity, caches, call, fed, minted>>

AcceptUncached(m, tokens, lastOnly) ==
  /\ call = Idle
  /\ models[m].id # 0
  /\ TokenRefusal(tokens, models[m].config.context) = "none"
  /\ call' = [stage |-> "embed", model |-> m, cache |-> NoCache,
              tokens |-> tokens, lastOnly |-> lastOnly, start |-> 0,
              layer |-> 1, hidden |-> <<>>]
  /\ reply' = NoReply
  /\ UNCHANGED <<models, nextIdentity, caches, fed, minted>>

RefuseUncached(m, tokens) ==
  /\ call = Idle
  /\ models[m].id # 0
  /\ TokenRefusal(tokens, models[m].config.context) # "none"
  /\ reply' = Refused(TokenRefusal(tokens, models[m].config.context))
  /\ UNCHANGED <<models, nextIdentity, caches, call, fed, minted>>

-----------------------------------------------------------------------------
(* The forward pass under way. *)

W == models[call.model].weights
New == 1..Len(call.tokens)
Layer == caches[call.cache].layers[call.layer]

\* Ghost: the text whose last Len(call.tokens) positions the pass answers for.
Text == IF call.cache = NoCache THEN call.tokens ELSE fed[call.cache]

\* The position ids continue where the cache stops.
EmbeddedFromZero(q) == Embed(W, call.tokens[q], q - 1)
Embedded(q) == Embed(W, call.tokens[q], call.start + q - 1)

\* Both embedding lookups and their sum.  The lookup throws for an id with no
\* row, and for every id when the model's tensors were moved away.  From here
\* on the pass may write the positions of its tokens: the ghost says so.
EmbedTokens ==
  /\ call.stage = "embed"
  /\ W # NoWeights
  /\ \A q \in New : call.tokens[q] \in Vocabulary(W)
  /\ call' = [call EXCEPT !.stage = "layer", !.hidden = [q \in New |-> Embedded(q)]]
  /\ fed' = IF call.cache = NoCache THEN fed
            ELSE [fed EXCEPT ![call.cache] = Extended(@, call.start, call.tokens)]
  /\ UNCHANGED <<models, nextIdentity, caches, reply, minted>>

\* multi_head_self_attention with a cache, up to the second append: the room
\* check, the QKV projection, the new rows behind the committed ones.
AppendRows ==
  /\ call.stage = "layer"
  /\ call.cache # NoCache
  /\ Layer.length + Len(call.tokens) \in DOMAIN Layer.rows
  /\ caches' = [caches EXCEPT ![call.cache].layers[call.layer] =
       Appended(@, [q \in New |-> ProjectKV(W, call.layer, call.hidden[q])])]
  /\ call' = [call EXCEPT !.stage = "attend"]
  /\ UNCHANGED <<models, nextIdentity, reply, fed, minted>>

\* What query q attends to: every row up to its own, the cached ones included.
Attended(q) == Prefix(Layer.rows, Layer.length + q)

\* The heads, then the length.  The rest of the block (output projection,
\* residuals, feed-forward) works on the rows computed here.
AttendAndCommit ==
  /\ call.stage = "attend"
  /\ caches' = [caches EXCEPT ![call.cache].layers[call.layer].length =
       @ + Len(call.tokens)]
  /\ call' = [call EXCEPT !.stage = "project",
       !.hidden = [q \in New |-> Block(W, call.layer, @[q], Attended(q))]]
  /\ UNCHANGED <<models, nextIdentity, reply, fed, minted>>

\* The same layer without a cache: keys and values of this call's rows only.
RunUncachedLayer ==
  /\ call.stage = "layer"
  /\ call.cache = NoCache
  /\ call' = [call EXCEPT !.stage = "project",
       !.hidden = [q \in New |->
          Block(W, call.layer, @[q],
                [j \in 1..q |-> ProjectKV(W, call.layer, @[j])])]]
  /\ UNCHANGED <<models, nextIdentity, caches, reply, fed, minted>>

\* The layer's output projection and feed-forward returned: the next layer,
\* or the final norm and the logits.
FinishLayer ==
  /\ call.stage = "project"
  /\ call' = IF call.layer < models[call.model].config.layers
             THEN [call EXCEPT !.stage = "layer", !.layer = @ + 1]
             ELSE [call EXCEPT !.stage = "logits"]
  /\ UNCHANGED <<models, nextIdentity, caches, reply, fed, minted>>

\* forward answers for every new row, forward_last_token_logits for the last.
FirstRow == IF call.lastOnly THEN Len(call.tokens) ELSE 1

AnsweredFromTheFront ==
  [q \in 1..(Len(call.tokens) + 1 - FirstRow) |->
     TiedLogits(W, call.hidden[q])]
Answered ==
  [q \in 1..(Len(call.tokens) + 1 - FirstRow) |->
     TiedLogits(W, call.hidden[FirstRow + q - 1])]

OwnedByTheNextIdentity(cache) == [cache EXCEPT !.owner = nextIdentity]
Owned(cache) == [cache EXCEPT !.owner = models[call.model].id]

\* The logits; a cached pass then binds the cache to the model.
ReturnLogits ==
  /\ call.stage = "logits"
  /\ reply' = [kind |-> "logits", weights |-> W, text |-> Text,
               first |-> call.start + FirstRow, rows |-> Answered]
  /\ caches' = IF call.cache = NoCache THEN caches
               ELSE [caches EXCEPT ![call.cache] = Owned(@)]
  /\ call' = Idle
  /\ UNCHANGED <<models, nextIdentity, fed, minted>>

\* An exception leaves the pass: a lookup or a check that throws, or an
\* allocation that fails, which can happen at every stage.
Throw ==
  /\ call.stage \in {"embed", "layer", "attend", "project", "logits"}
  /\ IF call.cache = NoCache
     THEN call' = Idle /\ reply' = Refused("failed")
     ELSE call' = [call EXCEPT !.stage = "catch"] /\ UNCHANGED reply
  /\ UNCHANGED <<models, nextIdentity, caches, fed, minted>>

Rollback ==
  /\ call.stage = "catch"
  /\ caches' = [caches EXCEPT ![call.cache] = RolledBack(@, call.start)]
  /\ call' = Idle
  /\ reply' = Refused("failed")
  /\ UNCHANGED <<models, nextIdentity, fed, minted>>

-----------------------------------------------------------------------------
Objects ==
  \/ \E m \in Models, w \in Weights : ConstructModel(m, w)
  \/ RejectCheckpoint
  \/ \E from, to \in Models : MoveModel(from, to)
  \/ \E c \in Caches, cfg \in Configs : BuildCache(c, cfg)
  \/ \E c \in Caches : ClearCache(c)
  \/ \E from, to \in Caches : CopyCache(from, to)
  \/ \E from, to \in Caches : MoveCache(from, to)

Begin ==
  \E m \in Models, tokens \in Calls :
    \/ \E lastOnly \in BOOLEAN :
         \/ AcceptUncached(m, tokens, lastOnly)
         \/ \E c \in Caches : AcceptCached(m, c, tokens, lastOnly)
    \/ RefuseUncached(m, tokens)
    \/ \E c \in Caches : RefuseCached(m, c, tokens)

Pass ==
  \/ EmbedTokens
  \/ AppendRows
  \/ AttendAndCommit
  \/ RunUncachedLayer
  \/ FinishLayer
  \/ ReturnLogits
  \/ Throw
  \/ Rollback

Next == Objects \/ Begin \/ Pass

Spec == Init /\ [][Next]_vars

-----------------------------------------------------------------------------
(* Properties. *)

Stages == {"embed", "layer", "attend", "project", "logits", "catch"}

InCall(c) == call # Idle /\ call.cache = c

\* How many positions of a cache a caller may count on: during a forward pass
\* those the pass started from, whatever the layers hold by then.
VisibleLength(c) == IF InCall(c) THEN call.start ELSE LengthOf(caches[c])

\* What a constructor, a copy or a move leaves: the layers of one
\* configuration, none longer than its tensors, or no layers at all.
CacheType(cache) ==
  /\ DOMAIN cache = {"layers", "shape", "owner"}
  /\ cache.owner \in 0..Len(minted)
  /\ \/ cache.layers = <<>>
     \/ \E cfg \in Configs :
          /\ cache.shape = cfg.shape
          /\ DOMAIN cache.layers = 1..cfg.layers
          /\ \A k \in 1..cfg.layers :
               /\ DOMAIN cache.layers[k] = {"rows", "length"}
               /\ DOMAIN cache.layers[k].rows = 1..cfg.context
               /\ cache.layers[k].length \in 0..cfg.context

CallType ==
  /\ DOMAIN call = {"stage", "model", "cache", "tokens", "lastOnly", "start",
                    "layer", "hidden"}
  /\ call.stage \in Stages
  /\ call.model \in Models
  /\ call.cache \in Caches \cup {NoCache}
  /\ call.tokens \in Calls
  /\ call.lastOnly \in BOOLEAN
  /\ call.start \in Nat
  /\ call.layer \in Nat \ {0}

ModelsType ==
  /\ minted \in Seq(Weights \cup {NoWeights})
  /\ nextIdentity = Len(minted) + 1
  /\ DOMAIN models = Models
  /\ \A m \in Models :
       /\ DOMAIN models[m] = {"id", "config", "weights"}
       /\ models[m].id \in 0..Len(minted)
       /\ models[m].weights \in Weights \cup {NoWeights}

CachesType ==
  /\ DOMAIN caches = Caches
  /\ \A c \in Caches : CacheType(caches[c])
  /\ fed \in [Caches -> Seq(Tokens)]

\* The variables hold what the C++ objects can hold: a cache has the layers of
\* one configuration, none longer than its tensors, and every owner and every
\* model's identity was drawn from the counter.
TypeOK ==
  /\ ModelsType
  /\ CachesType
  /\ call = Idle \/ CallType
  /\ reply.kind \in {"none", "error", "logits"}

\* "Tokens already stored. Every layer holds the same number." (model.h:22).
\* Between forward passes no cache is torn, wherever an exception left the
\* last pass, so the refusal for layers that disagree is unreachable.
LayersAgree == call = Idle => \A c \in Caches : ~Torn(c)

\* A cache has an owner exactly while it holds tokens: a pass that failed on an
\* empty cache binds it to nobody, and no populated cache is up for grabs
\* (model.h:50-52).
OwnedIffPopulated ==
  \A c \in Caches : caches[c].layers # <<>> =>
    (caches[c].owner = 0 <=> VisibleLength(c) = 0)

\* The key/value row of a position, in a text read by a model.
ReferenceRow(w, k, text, i) == ProjectKV(w, k, Uncached(w, k - 1, Prefix(text, i)))

\* Every position a caller may count on holds, in every layer, the row an
\* uncached pass by the cache's owner would compute for the tokens fed so far:
\* no row of an earlier text, of a pass that failed or of another model shows.
VisibleRowsAreReference ==
  \A c \in Caches : \A k \in DOMAIN caches[c].layers :
    \A i \in 1..VisibleLength(c) :
      caches[c].layers[k].rows[i] =
        ReferenceRow(minted[caches[c].owner], k, fed[c], i)

\* What makes the owner check sound: an identity names the tensors of one
\* checkpoint for ever, and of the models that still have tensors no two share
\* one, across construction, assignment and moves.
IdentityNamesOneModel ==
  \A m \in Models : models[m].weights # NoWeights =>
    /\ models[m].id # 0
    /\ minted[models[m].id] = models[m].weights
    /\ \A n \in Models \ {m} :
         models[n].weights # NoWeights => models[n].id # models[m].id

\* The logits of a cached pass, of either kind, are those of an uncached pass
\* over the whole text, whatever the cache went through before.
AnswerIsReference ==
  reply.kind = "logits" =>
    reply.rows = ReferenceLogits(reply.weights, reply.text, reply.first)

\* What was checked once, before the first layer, still holds when a layer is
\* reached: the layer starts where the call started and has room, so
\* multi_head_self_attention's own room check never fires.
LayerHasRoom ==
  call.stage = "layer" /\ call.cache # NoCache =>
    /\ Layer.length = call.start
    /\ Layer.length + Len(call.tokens) \in DOMAIN Layer.rows
-----------------------------------------------------------------------------
(* The inductive invariant: what holds between the steps of a pass. *)

\* The length a layer has while a pass is under way: the layers that are done
\* hold the new tokens, the others do not.
Reached(k) == k < call.layer \/ (k = call.layer /\ call.stage \in {"project", "logits"})
Written(k) == k < call.layer \/ (k = call.layer /\ call.stage # "layer")

Computing == call.stage \in {"layer", "attend", "project", "logits"}

ModelsInv ==
  /\ IdentityNamesOneModel
  /\ \A m \in Models : models[m].id # 0 =>
       /\ models[m].config \in Configs
       /\ models[m].weights # NoWeights => models[m].config = ConfigOf(models[m].weights)

\* Between passes.
RestInv ==
  \A c \in Caches : ~InCall(c) =>
    /\ LengthOf(caches[c]) <= Len(fed[c])
    /\ \A k \in DOMAIN caches[c].layers :
         caches[c].layers[k].length = LengthOf(caches[c])

\* The pass and its model.
PassInv ==
  call # Idle =>
    /\ models[call.model].id # 0
    /\ Computing => W # NoWeights
    /\ call.tokens # <<>>
    /\ call.start + Len(call.tokens) <= models[call.model].config.context
    /\ call.layer <= models[call.model].config.layers
    /\ call.stage = "embed" => call.layer = 1
    /\ call.stage = "logits" => call.layer = models[call.model].config.layers
    /\ call.cache = NoCache => call.start = 0 /\ call.stage \notin {"attend", "catch"}

\* The pass and its cache: how far each layer got, and what the new rows hold.
CachedPassInv ==
  call # Idle /\ call.cache # NoCache =>
    LET cache == caches[call.cache]
        cfg == models[call.model].config
    IN
    /\ DOMAIN cache.layers = 1..cfg.layers
    /\ \A k \in 1..cfg.layers : DOMAIN cache.layers[k].rows = 1..cfg.context
    /\ cache.owner \in {0, models[call.model].id}
    /\ call.start <= Len(fed[call.cache])
    /\ call.stage = "embed" =>
         \A k \in 1..cfg.layers : cache.layers[k].length = call.start
    /\ Computing =>
         /\ Len(fed[call.cache]) = call.start + Len(call.tokens)
         /\ \A k \in 1..cfg.layers :
              /\ cache.layers[k].length =
                   IF Reached(k) THEN call.start + Len(call.tokens) ELSE call.start
              /\ Written(k) =>
                   \A i \in (call.start + 1)..(call.start + Len(call.tokens)) :
                     cache.layers[k].rows[i] = ReferenceRow(W, k, Text, i)

\* The rows on their way through the layers are those of an uncached pass.
HiddenInv ==
  Computing =>
    \A q \in New :
      call.hidden[q] =
        Uncached(W, IF call.stage \in {"layer", "attend"} THEN call.layer - 1
                    ELSE call.layer,
                 Prefix(Text, call.start + q))

\* At every step, of a pass too: each layer a pass has reached holds the new
\* rows and the others do not, and every row and every hidden row is the
\* reference row of its position.  This is what makes a failure at any stage
\* reversible by resetting the lengths.
IInv ==
  /\ TypeOK
  /\ ModelsInv
  /\ RestInv
  /\ PassInv
  /\ CachedPassInv
  /\ HiddenInv
  /\ OwnedIffPopulated
  /\ VisibleRowsAreReference
  /\ AnswerIsReference
=============================================================================
