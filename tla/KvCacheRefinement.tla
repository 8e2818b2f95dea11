------------------------- MODULE KvCacheRefinement --------------------------
(***************************************************************************)
(* KvCache implements CachedDecoding.  A cache is the text of its visible  *)
(* positions: the steps of a forward pass that touch layers are stutters,  *)
(* and the pass takes effect, or fails, in its last step.                  *)
(***************************************************************************)
EXTENDS KvCache

CONSTANT NoConfig   \* the configuration of a cache that was moved from

\* A configuration is its three fields.
ASSUME RefinementAssumption ==
  /\ NoConfig \notin Configs
  /\ \A a, b \in Configs :
       a.layers = b.layers /\ a.context = b.context /\ a.shape = b.shape => a = b

Fitting(cache, cfg) ==
  /\ DOMAIN cache.layers = 1..cfg.layers
  /\ PositionsOf(cache) = 1..cfg.context
  /\ cache.shape = cfg.shape

BuiltFor(cache) ==
  IF cache.layers = <<>> THEN NoConfig ELSE CHOOSE cfg \in Configs : Fitting(cache, cfg)

\* A cache, of which n positions count, with the text written to it.
View(cache, text, n, names) ==
  [config |-> BuiltFor(cache),
   text |-> Prefix(text, n),
   weights |-> IF n = 0 THEN NoWeights ELSE names[cache.owner]]

SessionOf(c) == View(caches[c], fed[c], VisibleLength(c), minted)

Sessions == [c \in Caches |-> SessionOf(c)]

Promise == INSTANCE CachedDecoding WITH sessions <- Sessions

\* A forward pass on a cache answers with the reference logits and extends the
\* text by its tokens, or changes nothing; and it is refused only for a reason
\* the caller can see (model.h:48-56, "Throws before any mutation" 80-88).
ImplementsCachedDecoding == Promise!Spec
=============================================================================
