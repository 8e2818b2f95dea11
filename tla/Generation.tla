----------------------------- MODULE Generation -----------------------------
(***************************************************************************)
(* run_generation (src/generation.cpp), the loop behind generate_greedy    *)
(* and generate_sampled: one call, with or without a cache.                *)
(*                                                                         *)
(* The forward passes are those of CachedDecoding: a pass may be refused   *)
(* for what the loop feeds it, may fail on its own (an allocation, an id   *)
(* without an embedding), or answers with the row of the text's last       *)
(* token.  The choice of a token is an operator of how the call decodes    *)
(* (greedily, or by sampling with some options and a seed), of that row    *)
(* and of the number of draws taken so far, which most_likely_token        *)
(* ignores.  Either answers with an id the row has a logit for.            *)
(***************************************************************************)
EXTENDS TransformerStack

CONSTANTS
  Decodings,      \* Greedy, and the ways to sample
  Choice(_, _, _),\* decoding, logits row, draws taken before -> token or NoToken
  NoToken,        \* no end-of-text id; no token that can be chosen
  NoWeights, NoConfig, TheCache,
  MaxPromptTokens, MaxNewTokens   \* bounds on what a caller asks for

ASSUME GenerationAssumption ==
  /\ NoToken \notin Tokens
  /\ MaxPromptTokens \in Nat
  /\ MaxNewTokens \in Nat
  /\ \A w \in Weights : \A text \in Texts(ConfigOf(w).context) :
       \A how \in Decodings, d \in 0..MaxNewTokens :
         Choice(how, TiedLogits(w, Uncached(w, ConfigOf(w).layers, text)), d)
           \in (Tokens \cap Vocabulary(w)) \cup {NoToken}

VARIABLES
  job,       \* the arguments of the call
  stage,     \* where the call is
  feed,      \* pending with a cache, sequence without: the next pass's tokens
  length,    \* the local of that name
  new,       \* generation.new_token_ids
  draws,     \* draws taken from the random engine
  stop,      \* generation.stop, or that the call threw
  sessions,  \* the cache, as CachedDecoding sees it
  reply      \* what the last forward pass answered

vars == <<job, stage, feed, length, new, draws, stop, sessions, reply>>

Cache == INSTANCE CachedDecoding WITH Caches <- {TheCache}, MaxCallTokens <- 0

Prompts == {<<>>} \cup Texts(MaxPromptTokens)

Jobs == [weights : Weights, prompt : Prompts, maximum : 0..MaxNewTokens,
         endOfText : Tokens \cup {NoToken}, useCache : BOOLEAN,
         decoding : Decodings]

W == job.weights
Context == ConfigOf(W).context

Init ==
  /\ job \in Jobs
  /\ stage = "start"
  /\ feed = <<>>
  /\ length = 0
  /\ new = <<>>
  /\ draws = 0
  /\ stop = "none"
  /\ sessions = [c \in {TheCache} |-> Cache!Empty(ConfigOf(W))]
  /\ reply = Cache!NoReply

\* Leaving the loop, and noting why without leaving it.
StaysInTheLoop(why) == stage' = stage /\ stop' = why
Return(why) == stage' = "done" /\ stop' = why

\* The prompt is rejected, or becomes the first tokens to feed.
Begin ==
  /\ stage = "start"
  /\ IF job.prompt = <<>> \/ Len(job.prompt) > Context
     THEN Return("threw") /\ UNCHANGED <<feed, length>>
     ELSE /\ stage' = "test"
          /\ feed' = job.prompt
          /\ length' = Len(job.prompt)
          /\ UNCHANGED stop
  /\ UNCHANGED <<job, new, draws, sessions, reply>>

\* The loop's condition, and the test at the top of its body.
TokensWanted == Len(new) < job.maximum
ContextFullOfNewTokens == Len(new) >= Context
ContextFull == length >= Context

StopAtALimit ==
  /\ stage = "test"
  /\ \/ ~TokensWanted /\ Return("token_limit")
     \/ TokensWanted /\ ContextFull /\ Return("context_limit")
  /\ UNCHANGED <<job, feed, length, new, draws, sessions, reply>>

\* forward_last_token_logits.  The cache belongs to this call, so its owner is
\* never another model.
ForwardPass ==
  IF job.useCache
  THEN \/ Cache!Extend(TheCache, W, feed, TRUE)
       \/ /\ Cache!Refuse(TheCache, ConfigOf(W), feed)
          /\ reply'.why # "owner"
       \/ Cache!Fail
  ELSE \/ Cache!Evaluate(W, feed, TRUE)
       \/ Cache!RefuseUncached(ConfigOf(W), feed)
       \/ Cache!Fail

Forward ==
  /\ stage = "test" /\ TokensWanted /\ ~ContextFull
  /\ ForwardPass
  /\ IF reply'.kind = "logits" THEN stage' = "choose" /\ UNCHANGED stop
                               ELSE Return("threw")
  /\ UNCHANGED <<job, feed, length, new, draws>>

\* last_row, then most_likely_token or sample_token.
Chosen == Choice(job.decoding, reply.rows[Len(reply.rows)], draws)

NoChoice ==
  /\ stage = "choose"
  /\ Chosen = NoToken
  /\ Return("threw")
  /\ UNCHANGED <<job, feed, length, new, draws, sessions, reply>>

\* What the next pass is fed: with a cache the new token alone.
FedWithTheWholeText(t) == Append(feed, t)
FedWith(t) == IF job.useCache THEN <<t>> ELSE Append(feed, t)

\* Draws a sampled run has taken after one more token.
Redrawn == draws
Drawn == draws + 1

\* The end of the text is looked for in the token just chosen.
EndsAfterTheLimit(t) == t = job.endOfText /\ Len(new) + 1 < job.maximum
Ends(t) == t = job.endOfText

ChooseToken ==
  /\ stage = "choose"
  /\ Chosen # NoToken
  /\ feed' = FedWith(Chosen)
  /\ length' = length + 1
  /\ new' = Append(new, Chosen)
  /\ draws' = Drawn
  /\ IF Ends(Chosen) THEN Return("end_of_text")
                     ELSE stage' = "test" /\ UNCHANGED stop
  /\ UNCHANGED <<job, sessions, reply>>

\* The caller has its result; nothing is left to do.
Finished == stage = "done" /\ UNCHANGED vars

Step ==
  \/ Begin
  \/ StopAtALimit
  \/ Forward
  \/ NoChoice
  \/ ChooseToken

Next == Step \/ Finished

\* The call runs on its own thread and waits for nobody: as long as it can
\* take a step it takes one.
Spec == Init /\ [][Next]_vars /\ WF_vars(Step)

-----------------------------------------------------------------------------
(* Properties. *)

Stops == {"token_limit", "end_of_text", "context_limit"}

TypeOK ==
  /\ job \in Jobs
  /\ stage \in {"start", "test", "choose", "done"}
  /\ feed \in Seq(Tokens)
  /\ length \in 0..Context
  /\ new \in Seq(Tokens)
  /\ draws \in 0..MaxNewTokens
  /\ stop \in Stops \cup {"none", "threw"}

\* The text of the call so far, and the part of it the cache does not hold.
Text == job.prompt \o new
Held == IF job.useCache THEN sessions[TheCache].text ELSE <<>>

\* What the cache holds and what is fed next make up the text, no token twice
\* and none left out; and something is always left to feed, so the last token
\* is never passed through the model for nothing.
FeedCompletesTheText ==
  stage = "test" \/ stop \in Stops =>
    /\ Held \o feed = Text
    /\ feed # <<>>
    /\ length = Len(Text)

\* Every token, with a cache or without, is the one chosen from an uncached
\* pass over the text before it, with the draw of its position: "the two paths
\* produce identical tokens" (generation.h:30).
TokensAreReference ==
  \A i \in 1..Len(new) :
    new[i] = Choice(job.decoding,
                    TiedLogits(W, Uncached(W, ConfigOf(W).layers,
                                           Prefix(Text, Len(job.prompt) + i - 1))),
                    i - 1)

\* The reported reason is the one that stopped the run, the end of the text
\* even if it is the last token permitted; and no limit was passed on the way.
StopIsTheFirstLimit ==
  /\ Len(new) <= job.maximum
  /\ \A i \in 1..Len(new) :
       new[i] = job.endOfText <=> i = Len(new) /\ stop = "end_of_text"
  /\ stop \in Stops =>
       /\ stop = "end_of_text" => new # <<>>
       /\ stop = "token_limit" => Len(new) = job.maximum
       /\ stop = "context_limit" =>
            Len(new) < job.maximum /\ Len(Text) = Context

\* The loop's own tests leave the model nothing to refuse: a pass that throws
\* does so for want of memory or of an embedding.
PassesAreNeverRefused == reply.kind = "error" => reply.why = "failed"

\* Why these hold: between two tests of the loop the cache, the tokens to feed
\* and the text tell the same story, and the row a token is chosen from is the
\* row of the whole text.
Started ==
  stage = "start" =>
    /\ feed = <<>> /\ new = <<>> /\ length = 0 /\ stop = "none"
    /\ sessions = [c \in {TheCache} |-> Cache!Empty(ConfigOf(W))]
    /\ reply = Cache!NoReply

SessionOK ==
  /\ sessions[TheCache].text \in Seq(Tokens)
  /\ sessions = [c \in {TheCache} |->
                   [config |-> ConfigOf(W), text |-> sessions[TheCache].text,
                    weights |-> sessions[TheCache].weights]]
  /\ sessions[TheCache].text # <<>> => sessions[TheCache].weights = W

InTheLoop ==
  stage \in {"test", "choose"} =>
    /\ job.prompt # <<>>
    /\ length = Len(Text)
    /\ stop = "none"

ReadyToFeed == stage = "test" => reply.kind # "error"

ReadyToChoose ==
  stage = "choose" =>
    /\ TokensWanted
    /\ ~ContextFull
    /\ IF job.useCache THEN Held = Text ELSE feed = Text
    /\ reply = Cache!Answer(W, Text, Len(Text))

IInv ==
  /\ TypeOK
  /\ draws = Len(new)
  /\ Started
  /\ SessionOK
  /\ InTheLoop
  /\ ReadyToFeed
  /\ ReadyToChoose
  /\ FeedCompletesTheText
  /\ TokensAreReference
  /\ StopIsTheFirstLimit
  /\ PassesAreNeverRefused
=============================================================================
