--------------------------- MODULE CachedDecoding ---------------------------
(***************************************************************************)
(* What a KvCache promises to its caller (include/gpt2/model.h): a cache   *)
(* is a text and, as long as the text is not empty, the weights that read  *)
(* it.  A forward pass either extends the text by all the tokens it was    *)
(* given and answers with the logits an uncached pass over the whole text  *)
(* would return, or it fails and the text is as it was before.             *)
(***************************************************************************)
EXTENDS TransformerStack

CONSTANTS Caches, NoWeights, NoConfig, MaxCallTokens

VARIABLES
  sessions,   \* cache -> [config, text, weights]
  reply       \* what the last forward pass answered

vars == <<sessions, reply>>

Calls == UNION {[1..k -> Tokens] : k \in 0..MaxCallTokens}

Configs == {ConfigOf(w) : w \in Weights}

Empty(cfg) == [config |-> cfg, text |-> <<>>, weights |-> NoWeights]

NoReply == [kind |-> "none"]
Refused(why) == [kind |-> "error", why |-> why]
Answer(w, text, first) ==
  [kind |-> "logits", weights |-> w, text |-> text, first |-> first,
   rows |-> ReferenceLogits(w, text, first)]

\* The rows a pass over n new tokens answers for: all of them, or the last.
FirstRow(text, n, lastOnly) == IF lastOnly THEN Len(text) ELSE Len(text) + 1 - n

Init ==
  /\ sessions \in [Caches -> {Empty(cfg) : cfg \in Configs}]
  /\ reply = NoReply

\* The tokens of a pass that succeeds.
Readable(w, tokens) ==
  /\ tokens # <<>>
  /\ \A i \in 1..Len(tokens) : tokens[i] \in Vocabulary(w)

\* A forward pass on a cache succeeds.
Extend(c, w, tokens, lastOnly) ==
  /\ Readable(w, tokens)
  /\ sessions[c].config = ConfigOf(w)
  /\ sessions[c].text # <<>> => sessions[c].weights = w
  /\ LET text == sessions[c].text \o tokens IN
     /\ Len(text) <= ConfigOf(w).context
     /\ reply' = Answer(w, text, FirstRow(text, Len(tokens), lastOnly))
     /\ sessions' = [sessions EXCEPT
          ![c] = [config |-> ConfigOf(w), text |-> text, weights |-> w]]

\* A forward pass without a cache succeeds.
Evaluate(w, tokens, lastOnly) ==
  /\ Readable(w, tokens)
  /\ Len(tokens) <= ConfigOf(w).context
  /\ reply' = Answer(w, tokens, FirstRow(tokens, Len(tokens), lastOnly))
  /\ UNCHANGED sessions

\* A forward pass on a cache is refused before it starts.  There is no
\* refusal for layers that disagree: no caller can bring a cache there, and
\* a cache whose text is empty is never refused for who used it before.
Refuse(c, cfg, tokens) ==
  /\ \/ /\ sessions[c].config # cfg
        /\ reply' = Refused("config")
     \/ /\ sessions[c].text # <<>>
        /\ reply' = Refused("owner")
     \/ /\ tokens = <<>>
        /\ reply' = Refused("empty")
     \/ /\ Len(sessions[c].text) + Len(tokens) > cfg.context
        /\ reply' = Refused("room")
  /\ UNCHANGED sessions

RefuseUncached(cfg, tokens) ==
  /\ \/ /\ tokens = <<>>
        /\ reply' = Refused("empty")
     \/ /\ Len(tokens) > cfg.context
        /\ reply' = Refused("room")
  /\ UNCHANGED sessions

\* A forward pass fails on the way.
Fail ==
  /\ reply' = Refused("failed")
  /\ UNCHANGED sessions

Replace(c, session) ==
  /\ reply' = NoReply
  /\ sessions' = [sessions EXCEPT ![c] = session]

Clear(c) == Replace(c, Empty(sessions[c].config))
Build(c, cfg) == Replace(c, Empty(cfg))
Copy(from, to) == Replace(to, sessions[from])

\* Moving leaves nothing a forward pass would accept.
Move(from, to) ==
  /\ reply' = NoReply
  /\ sessions' = [sessions EXCEPT ![to] = sessions[from],
                                  ![from] = Empty(NoConfig)]

\* The caller drops the answer, or changes a model.
Forget == reply' = NoReply /\ UNCHANGED sessions

\* The steps that end a forward pass with logits, those that end one without,
\* and those between passes.
Answers ==
  /\ reply'.kind = "logits"
  /\ \E w \in Weights, tokens \in Calls, lastOnly \in BOOLEAN :
       \/ Evaluate(w, tokens, lastOnly)
       \/ \E c \in Caches : Extend(c, w, tokens, lastOnly)

Refusals ==
  /\ reply'.kind = "error"
  /\ \/ Fail
     \/ \E cfg \in Configs, tokens \in Calls :
          \/ RefuseUncached(cfg, tokens)
          \/ \E c \in Caches : Refuse(c, cfg, tokens)

Changes ==
  \/ Forget
  \/ \E c \in Caches : Clear(c)
  \/ \E c \in Caches, cfg \in Configs : Build(c, cfg)
  \/ \E from, to \in Caches : from # to /\ (Copy(from, to) \/ Move(from, to))

Next == Answers \/ Refusals \/ Changes

Spec == Init /\ [][Next]_vars
=============================================================================
