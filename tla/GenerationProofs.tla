-------------------------- MODULE GenerationProofs --------------------------
(***************************************************************************)
(* For every arithmetic, every choice of tokens and every limit: the       *)
(* inductive invariant IInv of Generation, and the properties it implies.  *)
(* For every command, whatever its files hold: the inductive invariant     *)
(* CliInv of Cli, which has IInv in it.  For every list of arguments:      *)
(* ParsedInv, what was read of it is what it means, as far as it was read. *)
(***************************************************************************)
EXTENDS Cli, DataLemmas

-----------------------------------------------------------------------------
(* Types. *)

LEMMA PromptType == \A p \in Prompts : p \in Seq(Tokens) /\ Len(p) \in Nat
<1>1. MaxPromptTokens \in Nat
  BY GenerationAssumption
<1>2. \A k \in 1..MaxPromptTokens : [1..k -> Tokens] \subseteq Seq(Tokens)
  BY <1>1, SeqDef
<1>3. Texts(MaxPromptTokens) \subseteq Seq(Tokens)
  BY <1>2 DEF Texts
<1>4. <<>> \in Seq(Tokens)
  BY EmptySeq
<1>5. Prompts \subseteq Seq(Tokens)
  BY <1>3, <1>4 DEF Prompts
<1> QED BY <1>5, LenProperties

LEMMA JobType ==
  ASSUME job \in Jobs
  PROVE  /\ W \in Weights
         /\ Context \in Nat \ {0}
         /\ job.prompt \in Seq(Tokens)
         /\ job.prompt \in Prompts
         /\ Len(job.prompt) \in Nat
         /\ job.maximum \in 0..MaxNewTokens
         /\ job.maximum \in Nat
         /\ job.endOfText \in Tokens \cup {NoToken}
         /\ job.decoding \in Decodings
<1>1. /\ job.weights \in Weights
      /\ job.prompt \in Prompts
      /\ job.maximum \in 0..MaxNewTokens
      /\ job.endOfText \in Tokens \cup {NoToken}
      /\ job.decoding \in Decodings
  BY DEF Jobs
<1>2. Context \in Nat \ {0}
  BY <1>1, ConfigAssumption DEF Context, W, IsConfig
<1>3. job.maximum \in Nat
  BY <1>1, GenerationAssumption
<1> QED BY <1>1, <1>2, <1>3, PromptType DEF W

\* What the type invariant says of the text.
LEMMA TextType ==
  ASSUME job \in Jobs, new \in Seq(Tokens)
  PROVE  /\ Text \in Seq(Tokens)
         /\ Len(Text) = Len(job.prompt) + Len(new)
         /\ Len(Text) \in Nat
         /\ Len(new) \in Nat
         /\ \A i \in 1..Len(new) : Len(job.prompt) + i - 1 \in 0..Len(Text)
<1>1. job.prompt \in Seq(Tokens) /\ Len(job.prompt) \in Nat
  BY JobType
<1>2. Text \in Seq(Tokens) /\ Len(Text) = Len(job.prompt) + Len(new)
  BY <1>1, ConcatProperties DEF Text
<1>3. Len(new) \in Nat
  BY LenProperties
<1> QED BY <1>1, <1>2, <1>3

-----------------------------------------------------------------------------
(* The initial states and the steps. *)

LEMMA InitInv == Init => IInv
<1> SUFFICES ASSUME Init PROVE IInv
  OBVIOUS
<1> USE DEF Init
<1>1. job \in Jobs /\ new = <<>> /\ Len(new) = 0
  BY EmptySeq
<1>2. TypeOK
  BY <1>1, JobType, EmptySeq, GenerationAssumption DEF TypeOK, Stops
<1>3. Started
  BY DEF Started
<1>4. SessionOK
  <2> DEFINE e == Cache!Empty(ConfigOf(W))
  <2>1. sessions = [c \in {TheCache} |-> e] /\ sessions[TheCache] = e
    OBVIOUS
  <2>2. /\ e.text = <<>>
        /\ e = [config |-> ConfigOf(W), text |-> e.text, weights |-> e.weights]
    BY DEF Cache!Empty
  <2> HIDE DEF e
  <2>3. sessions = [c \in {TheCache} |->
                     [config |-> ConfigOf(W), text |-> e.text,
                      weights |-> e.weights]]
    BY <2>1, <2>2
  <2> QED BY <2>1, <2>2, <2>3, EmptySeq DEF SessionOK
<1>5. InTheLoop /\ ReadyToFeed /\ ReadyToChoose
  BY DEF InTheLoop, ReadyToFeed, ReadyToChoose
<1>6. FeedCompletesTheText
  BY DEF FeedCompletesTheText, Stops
<1>7. TokensAreReference
  BY <1>1 DEF TokensAreReference
<1>8. StopIsTheFirstLimit
  BY <1>1, JobType DEF StopIsTheFirstLimit, Stops
<1>9. PassesAreNeverRefused
  BY DEF PassesAreNeverRefused, Cache!NoReply
<1> QED BY <1>1, <1>2, <1>3, <1>4, <1>5, <1>6, <1>7, <1>8, <1>9 DEF IInv

LEMMA BeginInv == ASSUME IInv, Begin PROVE IInv'
<1> USE DEF IInv, Begin
<1>1. /\ job \in Jobs /\ job' = job /\ stage = "start" /\ stop = "none"
      /\ feed = <<>> /\ length = 0 /\ new = <<>> /\ new' = new
      /\ draws' = draws /\ sessions' = sessions /\ reply' = reply
      /\ Len(new) = 0
      /\ sessions = [c \in {TheCache} |-> Cache!Empty(ConfigOf(W))]
      /\ reply = Cache!NoReply
  BY EmptySeq DEF TypeOK, Started
<1>2. W' = W /\ Context' = Context /\ Text' = Text
  BY <1>1 DEF W, Context, Text
<1>3. /\ Context \in Nat \ {0}
      /\ job.prompt \in Seq(Tokens)
      /\ Len(job.prompt) \in Nat
      /\ job.maximum \in Nat
  BY <1>1, JobType
<1>4. Text = job.prompt
  BY <1>1, <1>3, ConcatEmptySeq DEF Text
<1>5. sessions[TheCache].text = <<>>
  BY <1>1 DEF Cache!Empty
<1>6. Held = <<>> /\ Held' = <<>>
  BY <1>1, <1>5 DEF Held
<1>7. SessionOK' /\ TokensAreReference' /\ PassesAreNeverRefused'
  BY <1>1, <1>2 DEF SessionOK, TokensAreReference, PassesAreNeverRefused
<1>8. CASE job.prompt = <<>> \/ Len(job.prompt) > Context
  <2>1. stage' = "done" /\ stop' = "threw" /\ UNCHANGED <<feed, length>>
    BY <1>8 DEF Return
  <2>2. TypeOK'
    BY <1>1, <1>2, <2>1 DEF TypeOK
  <2>3. Started' /\ InTheLoop' /\ ReadyToFeed' /\ ReadyToChoose'
    BY <2>1 DEF Started, InTheLoop, ReadyToFeed, ReadyToChoose
  <2>4. FeedCompletesTheText'
    BY <2>1 DEF FeedCompletesTheText, Stops
  <2>5. StopIsTheFirstLimit'
    BY <1>1, <1>3, <2>1 DEF StopIsTheFirstLimit, Stops
  <2> QED BY <1>1, <1>7, <2>2, <2>3, <2>4, <2>5
<1>9. CASE ~(job.prompt = <<>> \/ Len(job.prompt) > Context)
  <2>1. /\ stage' = "test" /\ feed' = job.prompt /\ length' = Len(job.prompt)
        /\ stop' = stop /\ job.prompt # <<>> /\ Len(job.prompt) <= Context
    BY <1>3, <1>9
  <2>2. TypeOK'
    <3>1. length' \in 0..Context
      BY <1>3, <2>1
    <3> QED BY <1>1, <1>2, <1>3, <2>1, <3>1 DEF TypeOK
  <2>3. Started' /\ ReadyToFeed' /\ ReadyToChoose'
    BY <1>1, <2>1 DEF Started, ReadyToFeed, ReadyToChoose, Cache!NoReply
  <2>4. InTheLoop'
    BY <1>1, <1>2, <1>4, <2>1 DEF InTheLoop
  <2>5. FeedCompletesTheText'
    <3>1. <<>> \o job.prompt = job.prompt
      BY <1>3, ConcatEmptySeq
    <3> QED BY <1>2, <1>4, <1>6, <2>1, <3>1 DEF FeedCompletesTheText
  <2>6. StopIsTheFirstLimit'
    BY <1>1, <1>3, <2>1 DEF StopIsTheFirstLimit, Stops
  <2> QED BY <1>1, <1>7, <2>2, <2>3, <2>4, <2>5, <2>6
<1> QED BY <1>8, <1>9

LEMMA StopAtALimitInv == ASSUME IInv, StopAtALimit PROVE IInv'
<1> USE DEF IInv, StopAtALimit
<1>1. /\ stage = "test" /\ stage' = "done" /\ stop = "none"
      /\ \/ ~TokensWanted /\ stop' = "token_limit"
         \/ TokensWanted /\ ContextFull /\ stop' = "context_limit"
      /\ UNCHANGED <<job, feed, length, new, draws, sessions, reply>>
  BY DEF Return, InTheLoop
<1>2. /\ W' = W /\ Context' = Context /\ Text' = Text /\ Held' = Held
  BY <1>1 DEF W, Context, Text, Held
<1>3. job \in Jobs /\ length \in 0..Context /\ new \in Seq(Tokens)
  BY DEF TypeOK
<1>4. Context \in Nat /\ job.maximum \in Nat /\ Len(new) \in Nat
  BY <1>3, JobType, LenProperties
<1>5. TypeOK'
  BY <1>1, <1>2 DEF TypeOK, Stops
<1>6. Started' /\ InTheLoop' /\ ReadyToFeed' /\ ReadyToChoose'
  BY <1>1 DEF Started, InTheLoop, ReadyToFeed, ReadyToChoose
<1>7. SessionOK' /\ TokensAreReference' /\ PassesAreNeverRefused'
  BY <1>1, <1>2 DEF SessionOK, TokensAreReference, PassesAreNeverRefused
<1>8. FeedCompletesTheText'
  BY <1>1, <1>2 DEF FeedCompletesTheText
<1>9. StopIsTheFirstLimit'
  <2>1. length = Len(Text)
    BY <1>1 DEF InTheLoop
  <2>2. Len(new) <= job.maximum
    BY DEF StopIsTheFirstLimit
  <2>3. CASE ~TokensWanted /\ stop' = "token_limit"
    BY <1>1, <1>2, <1>4, <2>2, <2>3 DEF StopIsTheFirstLimit, TokensWanted
  <2>4. CASE TokensWanted /\ ContextFull /\ stop' = "context_limit"
    BY <1>1, <1>2, <1>3, <1>4, <2>1, <2>2, <2>4
      DEF StopIsTheFirstLimit, TokensWanted, ContextFull
  <2> QED BY <1>1, <2>3, <2>4
<1> QED BY <1>1, <1>5, <1>6, <1>7, <1>8, <1>9

\* What a pass that answers leaves behind, and what one that does not.
LEMMA PassOutcome ==
  ASSUME IInv, Forward
  PROVE  /\ reply'.kind = "logits" =>
              /\ reply' = Cache!Answer(W, Text, Len(Text))
              /\ IF job.useCache
                 THEN sessions' = [sessions EXCEPT
                        ![TheCache] = [config |-> ConfigOf(W), text |-> Text, weights |-> W]]
                 ELSE sessions' = sessions
         /\ reply'.kind # "logits" => sessions' = sessions
         /\ reply'.kind = "error" => reply'.why = "failed"
<1> USE DEF IInv, Forward
<1>1. stage = "test" /\ ForwardPass /\ ~ContextFull
  OBVIOUS
<1>2. Held \o feed = Text /\ feed # <<>> /\ length = Len(Text)
  BY <1>1 DEF FeedCompletesTheText
<1>3. job \in Jobs /\ feed \in Seq(Tokens) /\ new \in Seq(Tokens)
      /\ length \in 0..Context /\ sessions[TheCache].text \in Seq(Tokens)
  BY DEF TypeOK, SessionOK
<1>4. Context \in Nat
  BY <1>3, JobType
<1>5. length <= Context /\ length \in Nat
  BY <1>3, <1>4
<1>6. CASE job.useCache
  <2>1. Held = sessions[TheCache].text
    BY <1>6 DEF Held
  <2>2. Len(sessions[TheCache].text) + Len(feed) = Len(Text)
    BY <1>2, <1>3, <2>1, ConcatProperties
  <2>3. sessions[TheCache].config = ConfigOf(W)
    BY DEF SessionOK
  <2>4. CASE Cache!Extend(TheCache, W, feed, TRUE)
    BY <1>2, <1>6, <2>1, <2>4
      DEF Cache!Extend, Cache!Answer, Cache!FirstRow
  <2>5. CASE Cache!Refuse(TheCache, ConfigOf(W), feed) /\ reply'.why # "owner"
    <3>1. reply' # Cache!Refused("owner")
      BY <2>5 DEF Cache!Refused
    <3>2. Len(sessions[TheCache].text) + Len(feed) > Context
      BY <1>2, <2>3, <2>5, <3>1 DEF Cache!Refuse, Context
    <3> QED BY <1>2, <1>4, <1>5, <2>2, <3>2
  <2>6. CASE Cache!Fail
    BY <2>6 DEF Cache!Fail, Cache!Refused
  <2> QED BY <1>1, <1>6, <2>4, <2>5, <2>6 DEF ForwardPass
<1>7. CASE ~job.useCache
  <2>1. Held = <<>>
    BY <1>7 DEF Held
  <2>2. feed = Text
    BY <1>2, <1>3, <2>1, ConcatEmptySeq
  <2>3. CASE Cache!Evaluate(W, feed, TRUE)
    BY <1>7, <2>2, <2>3 DEF Cache!Evaluate, Cache!Answer, Cache!FirstRow
  <2>4. CASE Cache!RefuseUncached(ConfigOf(W), feed)
    <3>1. Len(feed) > Context
      BY <1>2, <2>4 DEF Cache!RefuseUncached, Context
    <3> QED BY <1>2, <1>4, <1>5, <2>2, <3>1
  <2>5. CASE Cache!Fail
    BY <2>5 DEF Cache!Fail, Cache!Refused
  <2> QED BY <1>1, <1>7, <2>3, <2>4, <2>5 DEF ForwardPass
<1> QED BY <1>6, <1>7

LEMMA ForwardInv == ASSUME IInv, Forward PROVE IInv'
<1> USE DEF IInv, Forward
<1>1. /\ stage = "test" /\ TokensWanted /\ ~ContextFull /\ stop = "none"
      /\ UNCHANGED <<job, feed, length, new, draws>>
  BY DEF InTheLoop
<1>2. W' = W /\ Context' = Context /\ Text' = Text
  BY <1>1 DEF W, Context, Text
<1>3. /\ Held \o feed = Text /\ feed # <<>> /\ length = Len(Text)
      /\ job.prompt # <<>>
  BY <1>1 DEF FeedCompletesTheText, InTheLoop
<1>4. job \in Jobs /\ new \in Seq(Tokens) /\ feed \in Seq(Tokens)
  BY DEF TypeOK
<1>5. Text \in Seq(Tokens)
  BY <1>4, TextType
<1>6. SessionOK'
  <2> DEFINE s == sessions[TheCache]
             r == [config |-> ConfigOf(W), text |-> Text, weights |-> W]
  <2>1. sessions = [c \in {TheCache} |->
                     [config |-> ConfigOf(W), text |-> s.text,
                      weights |-> s.weights]]
    BY DEF SessionOK
  <2>2. CASE reply'.kind = "logits" /\ job.useCache
    <3>1. sessions' = [sessions EXCEPT ![TheCache] = r]
      BY <2>2, PassOutcome
    <3> HIDE DEF r
    <3>2. sessions' = [c \in {TheCache} |-> r]
      BY <2>1, <3>1
    <3> USE DEF r
    <3>3. /\ r.text = Text /\ r.weights = W
          /\ r = [config |-> ConfigOf(W), text |-> r.text, weights |-> r.weights]
      OBVIOUS
    <3> HIDE DEF r
    <3>4. sessions'[TheCache] = r
      BY <3>2
    <3> QED BY <1>2, <1>5, <3>2, <3>3, <3>4 DEF SessionOK
  <2>3. CASE ~(reply'.kind = "logits" /\ job.useCache)
    <3>1. sessions' = sessions
      BY <2>3, PassOutcome
    <3> QED BY <1>2, <3>1 DEF SessionOK
  <2> QED BY <2>2, <2>3
<1>7. PassesAreNeverRefused'
  BY PassOutcome DEF PassesAreNeverRefused
<1>8. TokensAreReference'
  BY <1>1, <1>2 DEF TokensAreReference
<1>9. CASE reply'.kind = "logits"
  <2>1. stage' = "choose" /\ stop' = stop
    BY <1>9
  <2>2. TypeOK'
    BY <1>1, <1>2, <2>1 DEF TypeOK
  <2>3. Started' /\ ReadyToFeed' /\ InTheLoop'
    BY <1>1, <1>2, <1>3, <2>1 DEF Started, ReadyToFeed, InTheLoop
  <2>4. ReadyToChoose'
    <3>1. TokensWanted' /\ ~ContextFull'
      BY <1>1, <1>2 DEF TokensWanted, ContextFull
    <3>2. reply' = Cache!Answer(W, Text, Len(Text))
      BY <1>9, PassOutcome
    <3>3. reply' = Cache!Answer(W, Text, Len(Text))'
      BY <1>2, <3>2 DEF Cache!Answer
    <3>4. IF job'.useCache THEN Held' = Text' ELSE feed' = Text'
      <4>1. CASE job.useCache
        <5>1. sessions' = [sessions EXCEPT
                ![TheCache] = [config |-> ConfigOf(W), text |-> Text, weights |-> W]]
          BY <1>9, <4>1, PassOutcome
        <5>2. sessions'[TheCache].text = Text
          BY <5>1 DEF SessionOK
        <5> QED BY <1>1, <1>2, <4>1, <5>2 DEF Held
      <4>2. CASE ~job.useCache
        <5>1. Held = <<>>
          BY <4>2 DEF Held
        <5> QED BY <1>1, <1>2, <1>3, <1>4, <4>2, <5>1, ConcatEmptySeq
      <4> QED BY <4>1, <4>2
    <3> QED BY <1>1, <3>1, <3>3, <3>4 DEF ReadyToChoose
  <2>5. FeedCompletesTheText'
    BY <1>1, <2>1 DEF FeedCompletesTheText, Stops
  <2>6. StopIsTheFirstLimit'
    BY <1>1, <2>1 DEF StopIsTheFirstLimit, Stops
  <2> QED BY <1>1, <1>6, <1>7, <1>8, <2>2, <2>3, <2>4, <2>5, <2>6
<1>10. CASE reply'.kind # "logits"
  <2>1. stage' = "done" /\ stop' = "threw"
    BY <1>10 DEF Return
  <2>2. TypeOK'
    BY <1>1, <1>2, <2>1 DEF TypeOK
  <2>3. Started' /\ ReadyToFeed' /\ InTheLoop' /\ ReadyToChoose'
    BY <2>1 DEF Started, ReadyToFeed, InTheLoop, ReadyToChoose
  <2>4. FeedCompletesTheText'
    BY <2>1 DEF FeedCompletesTheText, Stops
  <2>5. StopIsTheFirstLimit'
    BY <1>1, <2>1 DEF StopIsTheFirstLimit, Stops
  <2> QED BY <1>1, <1>6, <1>7, <1>8, <2>2, <2>3, <2>4, <2>5
<1> QED BY <1>9, <1>10

\* The logits of the last position alone are one row.
LEMMA LastRow ==
  ASSUME NEW w, NEW text, Len(text) \in Nat
  PROVE  Cache!ReferenceLogits(w, text, Len(text)) =
           [q \in 1..1 |-> TiedLogits(w, Uncached(w, ConfigOf(w).layers,
                                                  Prefix(text, Len(text))))]
<1> DEFINE n == Len(text)
<1>1. n \in Nat
  OBVIOUS
<1> HIDE DEF n
<1>2. n + 1 - n = 1 /\ \A q \in 1..1 : n + q - 1 = n
  BY <1>1
<1>3. Cache!ReferenceLogits(w, text, n) =
        [q \in 1..(n + 1 - n) |->
           TiedLogits(w, Uncached(w, ConfigOf(w).layers, Prefix(text, n + q - 1)))]
  BY DEF n, Cache!ReferenceLogits, Cache!Prefix, Prefix
<1>4. Cache!ReferenceLogits(w, text, n) =
        [q \in 1..1 |->
           TiedLogits(w, Uncached(w, ConfigOf(w).layers, Prefix(text, n)))]
  BY <1>2, <1>3
<1> QED BY <1>4 DEF n

\* The row a token is chosen from, and the tokens it can be.
LEMMA ChosenIsReference ==
  ASSUME IInv, stage = "choose"
  PROVE  /\ Chosen = Choice(job.decoding, TiedLogits(W, Uncached(W, ConfigOf(W).layers,
                                                    Prefix(Text, Len(Text)))),
                            Len(new))
         /\ Chosen \in Tokens \cup {NoToken}
<1> USE DEF IInv
<1>1. /\ reply = Cache!Answer(W, Text, Len(Text))
      /\ draws = Len(new) /\ length = Len(Text) /\ length \in 0..Context
      /\ TokensWanted /\ job.prompt # <<>>
      /\ job \in Jobs /\ new \in Seq(Tokens)
  BY DEF TypeOK, ReadyToChoose, InTheLoop
<1>2. /\ W \in Weights /\ Context \in Nat
      /\ job.prompt \in Seq(Tokens) /\ Len(job.prompt) \in Nat
      /\ job.maximum \in 0..MaxNewTokens /\ job.decoding \in Decodings
  BY <1>1, JobType
<1>3. /\ Text \in Seq(Tokens) /\ Len(Text) \in Nat /\ Len(new) \in Nat
      /\ Len(Text) = Len(job.prompt) + Len(new)
  BY <1>1, TextType
<1>4. Len(Text) # 0 /\ Len(Text) <= Context
  <2>1. Len(job.prompt) # 0
    BY <1>1, <1>2, EmptySeq
  <2> QED BY <1>1, <1>2, <1>3, <2>1
<1> DEFINE n == Len(Text)
           Row(m) == TiedLogits(W, Uncached(W, ConfigOf(W).layers, Prefix(Text, m)))
<1>5. reply.rows = Cache!ReferenceLogits(W, Text, n)
  BY <1>1 DEF Cache!Answer
<1>6. reply.rows = [q \in 1..1 |-> Row(n)]
  BY <1>3, <1>5, LastRow
<1>7. Len(reply.rows) = 1 /\ reply.rows[Len(reply.rows)] = Row(n)
  <2> DEFINE r == reply.rows
  <2> HIDE DEF Row, n, r
  <2>1. r = [q \in 1..1 |-> Row(n)]
    BY <1>6 DEF r
  <2>2. r \in [1..1 -> {Row(n)}]
    BY <2>1
  <2>3. r \in Seq({Row(n)})
    BY <2>2, SeqDef
  <2>4. DOMAIN r = 1..1 /\ DOMAIN r = 1..Len(r) /\ Len(r) \in Nat
    BY <2>2, <2>3, LenProperties
  <2>5. Len(r) = 1
    BY <2>4
  <2> QED BY <2>1, <2>5 DEF r
<1>8. Chosen = Choice(job.decoding, Row(n), Len(new))
  BY <1>1, <1>7 DEF Chosen
<1>9. Chosen \in Tokens \cup {NoToken}
  <2>1. Prefix(Text, n) = Text /\ n \in 1..n
    BY <1>3, <1>4, FullPrefix
  <2>2. Text \in Texts(ConfigOf(W).context)
    BY <1>2, <1>3, <1>4, <2>1, PrefixIsText DEF Context, Texts
  <2>3. Len(new) \in 0..MaxNewTokens
    BY <1>1, <1>2, <1>3, GenerationAssumption DEF TokensWanted
  <2> QED BY <1>2, <1>8, <2>1, <2>2, <2>3, GenerationAssumption
<1> QED BY <1>8, <1>9

LEMMA NoChoiceInv == ASSUME IInv, NoChoice PROVE IInv'
<1> USE DEF IInv, NoChoice
<1>1. /\ stage = "choose" /\ stop = "none" /\ stage' = "done" /\ stop' = "threw"
      /\ UNCHANGED <<job, feed, length, new, draws, sessions, reply>>
  BY DEF Return, InTheLoop
<1>2. /\ W' = W /\ Context' = Context /\ Text' = Text /\ Held' = Held
  BY <1>1 DEF W, Context, Text, Held
<1>3. TypeOK'
  BY <1>1, <1>2 DEF TypeOK
<1>4. Started' /\ InTheLoop' /\ ReadyToFeed' /\ ReadyToChoose'
  BY <1>1 DEF Started, InTheLoop, ReadyToFeed, ReadyToChoose
<1>5. SessionOK' /\ TokensAreReference' /\ PassesAreNeverRefused'
  BY <1>1, <1>2 DEF SessionOK, TokensAreReference, PassesAreNeverRefused
<1>6. FeedCompletesTheText' /\ StopIsTheFirstLimit'
  BY <1>1 DEF FeedCompletesTheText, StopIsTheFirstLimit, Stops
<1> QED BY <1>1, <1>3, <1>4, <1>5, <1>6

\* AppendedText for the token just chosen.
LEMMA AppendedBehind ==
  \A p, u \in Seq(Tokens) : \A t \in Tokens :
    /\ p \o Append(u, t) = Append(p \o u, t)
    /\ Append(p \o u, t) = (p \o u) \o <<t>>
    /\ \A n \in 0..Len(p \o u) : Prefix(Append(p \o u, t), n) = Prefix(p \o u, n)
BY AppendedText

\* AppendProperties for tokens.
LEMMA OneMore ==
  \A s \in Seq(Tokens) : \A t \in Tokens :
    /\ Append(s, t) \in Seq(Tokens)
    /\ Len(Append(s, t)) = Len(s) + 1
    /\ \A i \in 1..Len(s) : Append(s, t)[i] = s[i]
    /\ Append(s, t)[Len(s) + 1] = t
BY AppendProperties

LEMMA ChooseTokenInv == ASSUME IInv, ChooseToken PROVE IInv'
<1> USE DEF IInv, ChooseToken
<1> DEFINE t == Chosen
<1>1. /\ stage = "choose" /\ stop = "none" /\ t # NoToken
      /\ feed' = FedWith(t) /\ length' = length + 1
      /\ new' = Append(new, t) /\ draws' = draws + 1
      /\ job' = job /\ sessions' = sessions /\ reply' = reply
  BY DEF InTheLoop, Drawn
<1>2. IF Ends(t) THEN stage' = "done" /\ stop' = "end_of_text"
                 ELSE stage' = "test" /\ stop' = "none"
  BY <1>1 DEF Return
<1>3. t \in Tokens
  BY <1>1, ChosenIsReference
<1>4. t = Choice(job.decoding, TiedLogits(W, Uncached(W, ConfigOf(W).layers,
                                        Prefix(Text, Len(Text)))), Len(new))
  BY <1>1, ChosenIsReference
<1>5. /\ t = job.endOfText => stage' = "done" /\ stop' = "end_of_text"
      /\ t # job.endOfText => stage' = "test" /\ stop' = "none"
  BY <1>2 DEF Ends
<1> HIDE DEF t
<1>6. /\ job \in Jobs /\ new \in Seq(Tokens) /\ feed \in Seq(Tokens)
      /\ length = Len(Text) /\ TokensWanted /\ ~ContextFull
      /\ length \in 0..Context /\ job.prompt # <<>> /\ draws = Len(new)
      /\ IF job.useCache THEN Held = Text ELSE feed = Text
      /\ reply.kind = "logits"
  BY <1>1 DEF TypeOK, InTheLoop, ReadyToChoose, Cache!Answer
<1>7. /\ Context \in Nat /\ job.maximum \in Nat /\ job.maximum <= MaxNewTokens
      /\ MaxNewTokens \in Nat
      /\ job.prompt \in Seq(Tokens) /\ Len(job.prompt) \in Nat
  BY <1>6, JobType, GenerationAssumption
<1>8. /\ Text \in Seq(Tokens) /\ Len(Text) \in Nat /\ Len(new) \in Nat
      /\ Len(Text) = Len(job.prompt) + Len(new)
      /\ \A i \in 1..Len(new) : Len(job.prompt) + i - 1 \in 0..Len(Text)
  BY <1>6, TextType
<1>9. W' = W /\ Context' = Context
  BY <1>1 DEF W, Context
<1>10. /\ Text' = Append(Text, t)
       /\ Text' = Text \o <<t>>
       /\ \A n \in 0..Len(Text) : Prefix(Text', n) = Prefix(Text, n)
  <2>1. Text' = job.prompt \o Append(new, t)
    BY <1>1 DEF Text
  <2>2. /\ job.prompt \o Append(new, t) = Append(job.prompt \o new, t)
        /\ Append(job.prompt \o new, t) = (job.prompt \o new) \o <<t>>
        /\ \A n \in 0..Len(job.prompt \o new) :
             Prefix(Append(job.prompt \o new, t), n) =
               Prefix(job.prompt \o new, n)
    BY <1>3, <1>6, <1>7, AppendedBehind
  <2>3. /\ job.prompt \o Append(new, t) = Append(Text, t)
        /\ Append(Text, t) = Text \o <<t>>
        /\ \A n \in 0..Len(Text) : Prefix(Append(Text, t), n) = Prefix(Text, n)
    BY <2>2 DEF Text
  <2> QED BY <2>1, <2>3
<1>11. /\ new' \in Seq(Tokens) /\ Len(new') = Len(new) + 1
       /\ \A i \in 1..Len(new) : new'[i] = new[i]
       /\ new'[Len(new) + 1] = t
  BY <1>1, <1>3, <1>6, OneMore
<1>12. Text' \in Seq(Tokens) /\ Len(Text') = Len(Text) + 1
  <2>1. /\ Append(Text, t) \in Seq(Tokens)
        /\ Len(Append(Text, t)) = Len(Text) + 1
    BY <1>3, <1>8, OneMore
  <2> QED BY <1>10, <2>1
<1>13. Len(new') \in 0..job.maximum /\ length' \in 0..Context
  BY <1>1, <1>6, <1>7, <1>8, <1>11 DEF TokensWanted, ContextFull
<1>14. TypeOK'
  <2>1. feed' \in Seq(Tokens)
    <3>1. <<t>> \in Seq(Tokens)
      BY <1>3
    <3>2. Append(feed, t) \in Seq(Tokens)
      BY <1>3, <1>6, OneMore
    <3> QED BY <1>1, <3>1, <3>2 DEF FedWith
  <2>2. draws' \in 0..MaxNewTokens
    BY <1>1, <1>6, <1>7, <1>8, <1>11, <1>13
  <2>3. stage' \in {"start", "test", "choose", "done"}
        /\ stop' \in Stops \cup {"none", "threw"}
    BY <1>5 DEF Stops
  <2> QED BY <1>1, <1>6, <1>9, <1>11, <1>13, <2>1, <2>2, <2>3 DEF TypeOK
<1>15. Started' /\ ReadyToChoose' /\ ReadyToFeed'
  <2>1. stage' # "start" /\ stage' # "choose"
    BY <1>5
  <2> QED BY <1>1, <1>6, <2>1 DEF Started, ReadyToChoose, ReadyToFeed
<1>16. SessionOK' /\ PassesAreNeverRefused'
  BY <1>1, <1>9 DEF SessionOK, PassesAreNeverRefused
<1>17. InTheLoop'
  BY <1>1, <1>5, <1>6, <1>12 DEF InTheLoop
<1>18. FeedCompletesTheText'
  <2>1. Held' \o feed' = Text'
    <3>1. CASE job.useCache
      <4>1. Held' = Held /\ feed' = <<t>>
        BY <1>1, <3>1 DEF Held, FedWith
      <4> QED BY <1>6, <1>10, <3>1, <4>1
    <3>2. CASE ~job.useCache
      <4>1. Held' = <<>> /\ feed' = Append(Text, t)
        BY <1>1, <1>6, <3>2 DEF Held, FedWith
      <4> QED BY <1>10, <1>12, <4>1, ConcatEmptySeq
    <3> QED BY <3>1, <3>2
  <2>2. feed' # <<>>
    <3>1. Len(<<t>>) = 1 /\ Len(Append(feed, t)) = Len(feed) + 1 /\ Len(feed) \in Nat
      BY <1>3, <1>6, OneMore, LenProperties
    <3> QED BY <1>1, <3>1, EmptySeq DEF FedWith
  <2> QED BY <1>1, <1>6, <1>12, <2>1, <2>2 DEF FeedCompletesTheText
<1>19. TokensAreReference'
  <2> DEFINE Ref(text, n, d) ==
        Choice(job.decoding, TiedLogits(W, Uncached(W, ConfigOf(W).layers, Prefix(text, n))), d)
  <2>1. \A i \in 1..Len(new) : new[i] = Ref(Text, Len(job.prompt) + i - 1, i - 1)
    BY DEF TokensAreReference
  <2>2. ASSUME NEW i \in 1..Len(new')
        PROVE  new'[i] = Ref(Text', Len(job.prompt) + i - 1, i - 1)
    <3>1. CASE i \in 1..Len(new)
      <4>1. Prefix(Text', Len(job.prompt) + i - 1) =
              Prefix(Text, Len(job.prompt) + i - 1)
        BY <1>8, <1>10, <3>1
      <4> QED BY <1>11, <2>1, <3>1, <4>1
    <3>2. CASE i = Len(new) + 1
      <4>1. Len(job.prompt) + i - 1 = Len(Text) /\ i - 1 = Len(new)
        BY <1>7, <1>8, <3>2
      <4>2. Prefix(Text', Len(Text)) = Prefix(Text, Len(Text))
        BY <1>8, <1>10
      <4>3. new'[i] = Ref(Text, Len(Text), Len(new))
        BY <1>4, <1>11, <3>2
      <4> QED BY <4>1, <4>2, <4>3
    <3> QED BY <1>8, <1>11, <3>1, <3>2
  <2> QED BY <1>1, <1>9, <2>2 DEF TokensAreReference
<1>20. StopIsTheFirstLimit'
  <2>1. \A i \in 1..Len(new) : new[i] # job.endOfText
    BY <1>1 DEF StopIsTheFirstLimit
  <2>2. Len(new') <= job'.maximum
    BY <1>1, <1>7, <1>13
  <2>3. ASSUME NEW i \in 1..Len(new')
        PROVE  new'[i] = job'.endOfText <=>
                 i = Len(new') /\ stop' = "end_of_text"
    <3>1. CASE i \in 1..Len(new)
      BY <1>1, <1>8, <1>11, <2>1, <3>1
    <3>2. CASE i = Len(new) + 1
      BY <1>1, <1>5, <1>11, <3>2
    <3> QED BY <1>8, <1>11, <3>1, <3>2
  <2>4. stop' \in Stops => stop' = "end_of_text" /\ new' # <<>>
    <3>1. new' # <<>>
      BY <1>8, <1>11, EmptySeq
    <3> QED BY <1>5, <3>1 DEF Stops
  <2> QED BY <2>2, <2>3, <2>4 DEF StopIsTheFirstLimit
<1>21. draws' = Len(new')
  BY <1>1, <1>6, <1>11
<1> QED BY <1>14, <1>15, <1>16, <1>17, <1>18, <1>19, <1>20, <1>21

LEMMA StutterInv == ASSUME IInv, UNCHANGED vars PROVE IInv'
<1>1. /\ UNCHANGED <<job, stage, feed, length, new, draws, stop, sessions, reply>>
      /\ W' = W /\ Context' = Context /\ Text' = Text /\ Held' = Held
  BY DEF vars, W, Context, Text, Held
<1>2. TypeOK' /\ Started' /\ SessionOK' /\ InTheLoop' /\ ReadyToFeed'
  BY <1>1 DEF IInv, TypeOK, Started, SessionOK, InTheLoop, ReadyToFeed
<1>3. ReadyToChoose'
  <2>1. (TokensWanted <=> TokensWanted') /\ (ContextFull <=> ContextFull')
    BY <1>1 DEF TokensWanted, ContextFull
  <2>2. Cache!Answer(W, Text, Len(Text))' = Cache!Answer(W, Text, Len(Text))
    BY <1>1 DEF Cache!Answer
  <2> QED BY <1>1, <2>1, <2>2 DEF IInv, ReadyToChoose
<1>4. FeedCompletesTheText' /\ TokensAreReference' /\ StopIsTheFirstLimit'
  BY <1>1 DEF IInv, FeedCompletesTheText, TokensAreReference, StopIsTheFirstLimit
<1>5. PassesAreNeverRefused' /\ draws' = Len(new')
  BY <1>1 DEF IInv, PassesAreNeverRefused
<1> QED BY <1>2, <1>3, <1>4, <1>5 DEF IInv

LEMMA NextInv == IInv /\ [Next]_vars => IInv'
<1> SUFFICES ASSUME IInv, [Next]_vars PROVE IInv'
  OBVIOUS
<1>1. CASE Begin
  BY <1>1, BeginInv
<1>2. CASE StopAtALimit
  BY <1>2, StopAtALimitInv
<1>3. CASE Forward
  BY <1>3, ForwardInv
<1>4. CASE NoChoice
  BY <1>4, NoChoiceInv
<1>5. CASE ChooseToken
  BY <1>5, ChooseTokenInv
<1>6. CASE Finished \/ UNCHANGED vars
  BY <1>6, StutterInv DEF Finished
<1> QED BY <1>1, <1>2, <1>3, <1>4, <1>5, <1>6 DEF Next, Step

-----------------------------------------------------------------------------
(* The theorems. *)

\* Between two tests of the loop of run_generation the cache, the tokens to feed
\* and the text agree, whatever the model answers and wherever it fails.
THEOREM InductiveInvariant == Spec => []IInv
BY InitInv, NextInv, PTL DEF Spec

\* The locals of the loop keep their types and the length its bound.
THEOREM TypeCorrect == Spec => []TypeOK
<1>1. IInv => TypeOK
  BY DEF IInv
<1> QED BY <1>1, InductiveInvariant, PTL

\* Every token of the text reaches the model once, with and without a cache.
THEOREM FeedAlwaysCompletesTheText == Spec => []FeedCompletesTheText
<1>1. IInv => FeedCompletesTheText
  BY DEF IInv
<1> QED BY <1>1, InductiveInvariant, PTL

\* A run with a cache generates the tokens of a run without one.
THEOREM TokensAlwaysReference == Spec => []TokensAreReference
<1>1. IInv => TokensAreReference
  BY DEF IInv
<1> QED BY <1>1, InductiveInvariant, PTL

\* generation.stop is the limit that stopped the run.
THEOREM StopAlwaysTheFirstLimit == Spec => []StopIsTheFirstLimit
<1>1. IInv => StopIsTheFirstLimit
  BY DEF IInv
<1> QED BY <1>1, InductiveInvariant, PTL

\* The loop never feeds the model what it would refuse.
THEOREM PassesNeverRefused == Spec => []PassesAreNeverRefused
<1>1. IInv => PassesAreNeverRefused
  BY DEF IInv
<1> QED BY <1>1, InductiveInvariant, PTL

-----------------------------------------------------------------------------
(* The command. *)

\* Text the model and the tokenizer both know.
Knows(ids, s) == \A k \in 1..Len(s) : s[k] \in ids

\* Tokens are chosen among those the model has a logit for.
LEMMA ChosenIsKnown ==
  ASSUME IInv, stage = "choose"
  PROVE  Chosen \in (Tokens \cap Vocabulary(W)) \cup {NoToken}
<1>1. /\ reply = Cache!Answer(W, Text, Len(Text))
      /\ draws = Len(new) /\ length = Len(Text) /\ length \in 0..Context
      /\ TokensWanted /\ job.prompt # <<>>
      /\ job \in Jobs /\ new \in Seq(Tokens)
  BY DEF IInv, TypeOK, ReadyToChoose, InTheLoop
<1>2. Chosen = Choice(job.decoding, TiedLogits(W, Uncached(W, ConfigOf(W).layers,
                                                  Prefix(Text, Len(Text)))),
                      Len(new))
  BY ChosenIsReference
<1>3. /\ W \in Weights /\ Context \in Nat
      /\ job.prompt \in Seq(Tokens) /\ Len(job.prompt) \in Nat
      /\ job.maximum \in 0..MaxNewTokens /\ job.decoding \in Decodings
  BY <1>1, JobType
<1>4. /\ Text \in Seq(Tokens) /\ Len(Text) \in Nat /\ Len(new) \in Nat
      /\ Len(Text) = Len(job.prompt) + Len(new)
  BY <1>1, TextType
<1>5. Len(Text) # 0 /\ Len(Text) <= Context
  <2>1. Len(job.prompt) # 0
    BY <1>1, <1>3, EmptySeq
  <2> QED BY <1>1, <1>3, <1>4, <2>1
<1>6. Prefix(Text, Len(Text)) = Text
  BY <1>4, FullPrefix
<1>7. Text \in Texts(ConfigOf(W).context)
  <2> DEFINE n == Len(Text)
  <2>1. n \in 1..n
    BY <1>4, <1>5
  <2> QED BY <1>3, <1>4, <1>5, <1>6, <2>1, PrefixIsText DEF Context, Texts
<1>8. Len(new) \in 0..MaxNewTokens
  BY <1>1, <1>3, <1>4, GenerationAssumption DEF TokensWanted
<1> QED BY <1>2, <1>3, <1>6, <1>7, <1>8, GenerationAssumption

\* A call that starts from known tokens feeds and chooses known tokens.
LEMMA StepKnows ==
  ASSUME IInv, Step, Knows(Vocabulary(W), job.prompt),
         Knows(Vocabulary(W), feed), Knows(Vocabulary(W), new)
  PROVE  /\ job' = job
         /\ Knows(Vocabulary(W), feed') /\ Knows(Vocabulary(W), new')
<1>1. CASE Begin
  BY <1>1 DEF Begin
<1>2. CASE StopAtALimit \/ Forward \/ NoChoice
  BY <1>2 DEF StopAtALimit, Forward, NoChoice
<1>3. CASE ChooseToken
  <2> DEFINE t == Chosen
  <2>1. /\ job' = job /\ new' = Append(new, t)
        /\ feed' = <<t>> \/ feed' = Append(feed, t)
        /\ stage = "choose" /\ t # NoToken
    BY <1>3 DEF ChooseToken, FedWith
  <2>2. t \in Tokens /\ t \in Vocabulary(W)
    BY <2>1, ChosenIsKnown
  <2>3. feed \in Seq(Tokens) /\ new \in Seq(Tokens)
    BY DEF IInv, TypeOK
  <2> HIDE DEF t
  <2>4. ASSUME NEW s \in Seq(Tokens), Knows(Vocabulary(W), s)
        PROVE  Knows(Vocabulary(W), Append(s, t))
    <3>1. /\ Len(Append(s, t)) = Len(s) + 1 /\ Len(s) \in Nat
          /\ \A i \in 1..Len(s) : Append(s, t)[i] = s[i]
          /\ Append(s, t)[Len(s) + 1] = t
      BY <2>2, OneMore, LenProperties
    <3> QED BY <2>2, <2>4, <3>1 DEF Knows
  <2>5. Knows(Vocabulary(W), <<t>>)
    BY <2>2 DEF Knows
  <2> QED BY <2>1, <2>3, <2>4, <2>5
<1> QED BY <1>1, <1>2, <1>3 DEF Step

\* Of two vocabularies of one size, one of which holds the other, each is the
\* other.
LEMMA SameVocabulary ==
  ASSUME NEW S, NEW T, IsFiniteSet(S), IsFiniteSet(T),
         S \subseteq T \/ T \subseteq S, Cardinality(S) = Cardinality(T)
  PROVE  S = T
<1>1. CASE S \subseteq T
  BY <1>1, FS_Subset
<1>2. CASE T \subseteq S
  BY <1>2, FS_Subset
<1> QED BY <1>1, <1>2

-----------------------------------------------------------------------------
(* The inductive invariant of the command. *)

BeforeTheCall == {"options", "tokenizer", "model", "prompt"}
Accepted == {"tokenizer", "model", "prompt"}

\* Before the call none of its steps is taken, and each option met so far has
\* a value made of one of the arguments.
ReadingInv ==
  phase \in BeforeTheCall =>
    /\ Init
    /\ arguments \in Commands
    /\ at \in Nat \ {0}
    /\ \A option \in DOMAIN given :
         /\ option \in ValuedByText => given[option] \in ToSet(arguments)
         /\ option \in ValuedByNumber => given[option] \in NumbersIn(arguments)
         /\ option \in ValuedByDecimal => given[option] \in DecimalsIn(arguments)
         /\ option = "--max-new-tokens" => given[option] \in 0..MaxNewTokens

AcceptedInv ==
  phase \in Accepted =>
    /\ Required \subseteq DOMAIN given
    /\ Temperature > 0
    /\ TopP > 0 /\ TopP <= One

AssetsInv ==
  /\ phase \in {"model", "prompt"} =>
       tokenizer \in TokenizersAt(given["--vocab"], given["--merges"])
  /\ phase = "prompt" =>
       /\ model \in ModelsAt(given["--checkpoint"])
       /\ tokenizer.vocabulary = Vocabulary(model)

\* From the call on the model and the tokenizer know the same tokens, and the
\* call has met no other.
KnownInv ==
  phase \in {"generate", "decode"} =>
    /\ tokenizer.vocabulary = Vocabulary(W)
    /\ Knows(Vocabulary(W), job.prompt)
    /\ Knows(Vocabulary(W), feed)
    /\ Knows(Vocabulary(W), new)

OutputInv ==
  /\ phase = "exited" <=> outcome # "none"
  /\ phase # "exited" => output = IF phase = "decode" THEN "prompt" ELSE "nothing"

CliInv ==
  /\ IInv
  /\ ReadingInv
  /\ AcceptedInv
  /\ AssetsInv
  /\ KnownInv
  /\ OutputInv
  /\ FailureIsSilent

LEMMA CliInitInv == CliInit => CliInv
<1> SUFFICES ASSUME CliInit PROVE CliInv
  OBVIOUS
<1>1. IInv
  BY InitInv DEF CliInit
<1>2. ReadingInv
  BY DEF CliInit, ReadingInv, NoSettings, BeforeTheCall
<1>3. AcceptedInv /\ AssetsInv /\ KnownInv
  BY DEF CliInit, AcceptedInv, AssetsInv, KnownInv, Accepted
<1>4. OutputInv /\ FailureIsSilent
  BY DEF CliInit, OutputInv, FailureIsSilent
<1> QED BY <1>1, <1>2, <1>3, <1>4 DEF CliInv

\* A step that leaves the call alone leaves what is said of it alone.
LEMMA CallUntouched ==
  ASSUME CliInv, UNCHANGED vars
  PROVE  IInv' /\ (Init => Init')
<1>1. IInv'
  BY StutterInv DEF CliInv
<1>2. Init => Init'
  BY DEF Init, vars, W
<1> QED BY <1>1, <1>2

\* The command ends.
LEMMA EndInv ==
  ASSUME CliInv, NEW why, End(why), why # "none", phase # "exited",
         FailureIsSilent'
  PROVE  CliInv'
<1>1. /\ phase' = "exited" /\ outcome' = why /\ UNCHANGED vars
  BY DEF End
<1>2. ReadingInv' /\ AcceptedInv' /\ AssetsInv' /\ KnownInv'
  BY <1>1 DEF ReadingInv, AcceptedInv, AssetsInv, KnownInv, BeforeTheCall, Accepted
<1>3. OutputInv'
  BY <1>1 DEF OutputInv
<1> QED BY <1>1, <1>2, <1>3, CallUntouched DEF CliInv

\* It fails before it has written anything.
LEMMA FailInv ==
  ASSUME CliInv, NEW why, Fail(why),
         why \notin {"none", "help", "success", "memory"},
         phase \in BeforeTheCall \cup {"generate"}
  PROVE  CliInv'
<1>1. /\ phase # "exited" /\ output = "nothing"
      /\ outcome' = why /\ output' = output
  BY DEF CliInv, OutputInv, BeforeTheCall, Fail, End
<1>2. FailureIsSilent'
  BY <1>1 DEF FailureIsSilent
<1> QED BY <1>1, <1>2, EndInv DEF Fail

LEMMA ShowHelpInv == ASSUME CliInv, ShowHelp PROVE CliInv'
<1>1. FailureIsSilent'
  BY DEF ShowHelp, End, FailureIsSilent
<1> QED BY <1>1, EndInv DEF ShowHelp

\* An option and its value are recorded.
LEMMA RecordedInv ==
  ASSUME CliInv, Parsing, NEW option, NEW value, given' = Recorded(option, value),
         at' \in Nat \ {0},
         UNCHANGED <<vars, phase, arguments, assetVars, output, outcome>>,
         option \in ValuedByText => value \in ToSet(arguments),
         option \in ValuedByNumber => value \in NumbersIn(arguments),
         option \in ValuedByDecimal => value \in DecimalsIn(arguments),
         option = "--max-new-tokens" => value \in 0..MaxNewTokens
  PROVE  CliInv'
<1>1. phase = "options" /\ phase' = phase /\ arguments' = arguments
  BY DEF Parsing
<1>2. ReadingInv /\ phase \in BeforeTheCall
  BY <1>1 DEF CliInv, BeforeTheCall
<1>3. /\ DOMAIN given' = DOMAIN given \cup {option}
      /\ \A o \in DOMAIN given' : given'[o] = IF o = option THEN value ELSE given[o]
  BY DEF Recorded
<1>4. ReadingInv'
  <2>1. Init' /\ arguments' \in Commands
    BY <1>1, <1>2, CallUntouched DEF ReadingInv
  <2>2. NumbersIn(arguments)' = NumbersIn(arguments)
        /\ DecimalsIn(arguments)' = DecimalsIn(arguments)
        /\ ToSet(arguments)' = ToSet(arguments)
    BY <1>1
  <2> QED BY <1>2, <1>3, <2>1, <2>2 DEF ReadingInv
<1>5. AcceptedInv' /\ AssetsInv' /\ KnownInv'
  BY <1>1 DEF AcceptedInv, AssetsInv, KnownInv, Accepted
<1>6. OutputInv' /\ FailureIsSilent'
  BY <1>1 DEF CliInv, OutputInv, FailureIsSilent
<1> QED BY <1>4, <1>5, <1>6, CallUntouched DEF CliInv

LEMMA WordOfCommand ==
  ASSUME CliInv, Parsing, NEW k \in 1..Len(arguments)
  PROVE  arguments[k] \in ToSet(arguments)
<1>1. arguments \in Commands
  BY DEF CliInv, ReadingInv, Parsing, BeforeTheCall
<1>2. arguments \in Seq(UNION {ToSet(args) : args \in Commands})
  BY <1>1, CliAssumption
<1>3. DOMAIN arguments = 1..Len(arguments)
  BY <1>2, LenProperties
<1> QED BY <1>3 DEF ToSet

LEMMA TakeValueInv == ASSUME CliInv, TakeValue PROVE CliInv'
<1> DEFINE option == arguments[at]
           word == arguments[at + 1]
           value == Value(option, word)
<1>1. Parsing /\ phase = "options" /\ option \in Valued /\ at <= Len(arguments)
  BY DEF TakeValue, Parsing
<1>2. arguments \in Commands /\ at \in Nat \ {0} /\ ReadingInv
  BY <1>1 DEF CliInv, ReadingInv, BeforeTheCall
<1>3. arguments \in Seq(UNION {ToSet(args) : args \in Commands}) /\ Len(arguments) \in Nat
  BY <1>2, CliAssumption, LenProperties
<1>4. CASE at < Len(arguments) /\ value # Malformed /\ Once(option)
  <2>1. /\ given' = Recorded(option, value) /\ at' = at + 2
        /\ UNCHANGED <<vars, phase, arguments, assetVars, output, outcome>>
    BY <1>4 DEF TakeValue
  <2>2. word \in ToSet(arguments)
    BY <1>1, <1>2, <1>3, <1>4, WordOfCommand
  <2>3. /\ option \in ValuedByText => value \in ToSet(arguments)
        /\ option \in ValuedByNumber => value \in NumbersIn(arguments)
        /\ option \in ValuedByDecimal => value \in DecimalsIn(arguments)
    BY <1>4, <2>2
       DEF Value, NumbersIn, DecimalsIn, ValuedByText, ValuedByNumber, ValuedByDecimal
  <2>4. option = "--max-new-tokens" => value \in 0..MaxNewTokens
    <3>1. at \in 1..(Len(arguments) - 1)
      BY <1>2, <1>3, <1>4
    <3>2. option = "--max-new-tokens" => value = Number(word)
      BY DEF Value, ValuedByNumber
    <3> QED BY <1>2, <1>4, <3>1, <3>2, CliAssumption
  <2> HIDE DEF option, value
  <2> QED BY <1>1, <1>2, <2>1, <2>3, <2>4, RecordedInv
<1>5. CASE ~(at < Len(arguments) /\ value # Malformed /\ Once(option))
  <2>1. Fail("misuse")
    BY <1>5 DEF TakeValue
  <2> QED BY <1>1, <2>1, FailInv DEF BeforeTheCall
<1> QED BY <1>4, <1>5

LEMMA TakeFlagInv == ASSUME CliInv, TakeFlag PROVE CliInv'
<1> DEFINE option == arguments[at]
<1>1. Parsing /\ phase = "options" /\ option \in Flags
  BY DEF TakeFlag, Parsing
<1>2. at \in Nat \ {0}
  BY <1>1 DEF CliInv, ReadingInv, BeforeTheCall
<1>3. CASE Once(option)
  <2>1. /\ given' = Recorded(option, EmptyText) /\ at' = at + 1
        /\ UNCHANGED <<vars, phase, arguments, assetVars, output, outcome>>
    BY <1>3 DEF TakeFlag
  <2>2. option \notin ValuedByText \cup ValuedByNumber \cup ValuedByDecimal
    BY <1>1 DEF Flags, ValuedByText, ValuedByNumber, ValuedByDecimal
  <2>3. option # "--max-new-tokens"
    BY <2>2 DEF ValuedByNumber
  <2> HIDE DEF option
  <2> QED BY <1>1, <1>2, <2>1, <2>2, <2>3, RecordedInv
<1>4. CASE ~Once(option)
  <2>1. Fail("misuse")
    BY <1>4 DEF TakeFlag
  <2> QED BY <1>1, <2>1, FailInv DEF BeforeTheCall
<1> QED BY <1>3, <1>4

LEMMA UnknownOptionInv == ASSUME CliInv, UnknownOption PROVE CliInv'
<1>1. phase = "options" /\ Fail("misuse")
  BY DEF UnknownOption, Parsing
<1> QED BY <1>1, FailInv DEF BeforeTheCall

\* One more of the steps before the call, which only record what they found.
LEMMA ReadingGoesOn ==
  ASSUME CliInv, phase \in BeforeTheCall, phase' \in Accepted,
         UNCHANGED <<vars, commandVars, output, outcome>>
  PROVE  /\ IInv' /\ ReadingInv' /\ OutputInv' /\ FailureIsSilent' /\ KnownInv'
         /\ UNCHANGED <<arguments, at, given>>
         /\ Temperature' = Temperature /\ TopP' = TopP
<1>1. /\ UNCHANGED <<arguments, at, given>> /\ UNCHANGED vars
      /\ output' = output /\ outcome' = outcome
  BY DEF commandVars
<1>2. ReadingInv
  BY DEF CliInv
<1>3. ReadingInv'
  <2>1. Init' /\ arguments' \in Commands
    BY <1>1, <1>2, CallUntouched DEF ReadingInv
  <2>2. NumbersIn(arguments)' = NumbersIn(arguments)
        /\ DecimalsIn(arguments)' = DecimalsIn(arguments)
        /\ ToSet(arguments)' = ToSet(arguments)
    BY <1>1
  <2> QED BY <1>1, <1>2, <2>1, <2>2 DEF ReadingInv
<1>4. KnownInv'
  BY DEF Accepted, KnownInv
<1>5. OutputInv' /\ FailureIsSilent'
  BY <1>1 DEF CliInv, OutputInv, FailureIsSilent, Accepted, BeforeTheCall
<1>6. Temperature' = Temperature /\ TopP' = TopP
  BY <1>1 DEF Temperature, TopP, Setting
<1> QED BY <1>1, <1>3, <1>4, <1>5, <1>6, CallUntouched

LEMMA CheckOptionsInv == ASSUME CliInv, CheckOptions PROVE CliInv'
<1>1. phase = "options"
  BY DEF CheckOptions, Parsing
<1>2. CASE phase' = "tokenizer"
  <2>1. /\ Required \subseteq DOMAIN given /\ Temperature > 0 /\ TopP > 0 /\ TopP <= One
        /\ UNCHANGED <<vars, commandVars, assetVars, output, outcome>>
    BY <1>2 DEF CheckOptions, Fail, End
  <2>2. phase \in BeforeTheCall /\ phase' \in Accepted
    BY <1>1, <1>2 DEF BeforeTheCall, Accepted
  <2>3. AcceptedInv' /\ AssetsInv'
    BY <1>2, <2>1, <2>2, ReadingGoesOn DEF AcceptedInv, AssetsInv
  <2> QED BY <2>1, <2>2, <2>3, ReadingGoesOn DEF CliInv
<1>3. CASE phase' # "tokenizer"
  <2>1. Fail("misuse")
    BY <1>3 DEF CheckOptions
  <2> QED BY <1>1, <2>1, FailInv DEF BeforeTheCall
<1> QED BY <1>2, <1>3

LEMMA LoadTokenizerInv == ASSUME CliInv, LoadTokenizer PROVE CliInv'
<1>1. phase = "tokenizer" /\ phase \in BeforeTheCall /\ AcceptedInv
  BY DEF LoadTokenizer, BeforeTheCall, CliInv
<1>2. CASE Fail("assets")
  BY <1>1, <1>2, FailInv
<1>3. CASE /\ tokenizer' \in TokenizersAt(given["--vocab"], given["--merges"])
           /\ phase' = "model"
           /\ UNCHANGED <<vars, commandVars, model, output, outcome>>
  <2>1. phase' \in Accepted /\ phase \in Accepted
    BY <1>1, <1>3 DEF Accepted
  <2>2. AcceptedInv' /\ AssetsInv'
    BY <1>1, <1>3, <2>1, ReadingGoesOn DEF AcceptedInv, AssetsInv
  <2> QED BY <1>1, <1>3, <2>1, <2>2, ReadingGoesOn DEF CliInv
<1> QED BY <1>2, <1>3 DEF LoadTokenizer

\* What the paths of an accepted command lead to.
LEMMA LoadedAssets ==
  ASSUME CliInv, phase \in {"model", "prompt"},
         NEW w \in ModelsAt(given["--checkpoint"])
  PROVE  /\ tokenizer.endOfText \in tokenizer.vocabulary
         /\ tokenizer.vocabulary \subseteq Tokens
         /\ IsFiniteSet(tokenizer.vocabulary) /\ IsFiniteSet(Vocabulary(w))
         /\ w \in Weights
         /\ \/ tokenizer.vocabulary \subseteq Vocabulary(w)
            \/ Vocabulary(w) \subseteq tokenizer.vocabulary
<1>1. /\ arguments \in Commands /\ Required \subseteq DOMAIN given
      /\ tokenizer \in TokenizersAt(given["--vocab"], given["--merges"])
      /\ \A option \in DOMAIN given :
           option \in ValuedByText => given[option] \in ToSet(arguments)
  BY DEF CliInv, ReadingInv, AcceptedInv, AssetsInv, BeforeTheCall, Accepted
<1>2. /\ given["--vocab"] \in ToSet(arguments) /\ given["--merges"] \in ToSet(arguments)
      /\ given["--checkpoint"] \in ToSet(arguments)
  BY <1>1 DEF Required, ValuedByText
<1> QED BY <1>1, <1>2, CliAssumption

LEMMA LoadModelInv == ASSUME CliInv, LoadModel PROVE CliInv'
<1>1. phase = "model" /\ phase \in BeforeTheCall /\ AcceptedInv /\ AssetsInv
  BY DEF LoadModel, BeforeTheCall, CliInv
<1>2. ASSUME NEW why, Fail(why), why \in {"assets", "mismatch"} PROVE CliInv'
  BY <1>1, <1>2, FailInv
<1>3. ASSUME NEW w \in ModelsAt(given["--checkpoint"]), SizesMatch(w),
             model' = w, phase' = "prompt",
             UNCHANGED <<vars, commandVars, tokenizer, output, outcome>>
      PROVE  CliInv'
  <2>1. tokenizer.vocabulary = Vocabulary(w)
    BY <1>1, <1>3, LoadedAssets, SameVocabulary DEF SizesMatch
  <2>2. phase' \in Accepted /\ phase \in Accepted
    BY <1>1, <1>3 DEF Accepted
  <2>3. AcceptedInv' /\ AssetsInv'
    BY <1>1, <1>3, <2>1, <2>2, ReadingGoesOn DEF AcceptedInv, AssetsInv
  <2> QED BY <1>1, <1>3, <2>2, <2>3, ReadingGoesOn DEF CliInv
<1> QED BY <1>2, <1>3 DEF LoadModel

\* What the options ask for is a call that Generation takes.
LEMMA JobOfCommand ==
  ASSUME CliInv, phase = "prompt", NEW p \in PromptTokens
  PROVE  JobOf(p) \in Jobs /\ model \in Weights
<1>1. /\ arguments \in Commands
      /\ Temperature > 0 /\ TopP > 0 /\ TopP <= One
      /\ model \in ModelsAt(given["--checkpoint"])
      /\ \A option \in DOMAIN given :
           /\ option \in ValuedByNumber => given[option] \in NumbersIn(arguments)
           /\ option \in ValuedByDecimal => given[option] \in DecimalsIn(arguments)
           /\ option = "--max-new-tokens" => given[option] \in 0..MaxNewTokens
  BY DEF CliInv, ReadingInv, AcceptedInv, AssetsInv, BeforeTheCall, Accepted
<1>2. model \in Weights /\ tokenizer.endOfText \in Tokens
  BY <1>1, LoadedAssets
<1>3. Setting("--max-new-tokens", DefaultMaximum) \in 0..MaxNewTokens
  BY <1>1, CliAssumption DEF Setting
<1>4. Samples => SamplingAsked \in Decodings
  <2>1. Setting("--top-k", 0) \in {0} \cup NumbersIn(arguments)
    BY <1>1 DEF Setting, ValuedByNumber
  <2>2. Setting("--seed", DefaultSeed) \in {DefaultSeed} \cup NumbersIn(arguments)
    BY <1>1 DEF Setting, ValuedByNumber
  <2>3. Temperature \in {One} \cup DecimalsIn(arguments)
    BY <1>1 DEF Temperature, Setting, ValuedByDecimal
  <2>4. TopP \in {One} \cup DecimalsIn(arguments)
    BY <1>1 DEF TopP, Setting, ValuedByDecimal
  <2>5. Sampled(Temperature, Setting("--top-k", 0), TopP, Setting("--seed", DefaultSeed))
          \in Decodings
    BY <1>1, <2>1, <2>2, <2>3, <2>4, CliAssumption
  <2> QED BY <2>5 DEF SamplingAsked
<1>5. p \in Prompts
  BY DEF PromptTokens, Prompts
<1>6. (IF Samples THEN SamplingAsked ELSE Greedy) \in Decodings
  BY <1>4, CliAssumption
<1> QED BY <1>2, <1>3, <1>5, <1>6 DEF JobOf, Jobs

LEMMA CallGenerationInv == ASSUME CliInv, CallGeneration PROVE CliInv'
<1>1. phase = "prompt"
  BY DEF CallGeneration
<1>2. CASE Fail("encoding")
  BY <1>1, <1>2, FailInv DEF BeforeTheCall
<1>3. ASSUME NEW p \in PromptTokens,
             job' = JobOf(p), phase' = "generate",
             sessions' = [c \in {TheCache} |-> Cache!Empty(ConfigOf(model))],
             UNCHANGED <<stage, feed, length, new, draws, stop, reply,
                         tokenizer, output, outcome>>
      PROVE  CliInv'
  <2>1. /\ Init /\ model \in ModelsAt(given["--checkpoint"])
        /\ tokenizer.vocabulary = Vocabulary(model)
        /\ output = "nothing" /\ outcome = "none" /\ FailureIsSilent
    BY <1>1 DEF CliInv, ReadingInv, AssetsInv, OutputInv, BeforeTheCall
  <2>2. /\ job' \in Jobs /\ job'.weights = model /\ job'.prompt = p
    BY <1>1, <1>3, JobOfCommand DEF JobOf
  <2>3. IInv'
    <3>1. Init'
      BY <1>3, <2>1, <2>2 DEF Init, W
    <3>2. Init' => IInv'
      BY InitInv, PTL
    <3> QED BY <3>1, <3>2
  <2>4. KnownInv'
    <3>1. /\ W' = model /\ tokenizer' = tokenizer /\ feed' = <<>> /\ new' = <<>>
      BY <1>3, <2>1, <2>2 DEF W, Init
    <3>2. Knows(Vocabulary(model), p)
      BY <2>1 DEF PromptTokens, Knows
    <3>3. Knows(Vocabulary(model), <<>>)
      BY DEF Knows
    <3> QED BY <2>1, <2>2, <3>1, <3>2, <3>3 DEF KnownInv, Knows
  <2>5. ReadingInv' /\ AcceptedInv' /\ AssetsInv'
    BY <1>3 DEF ReadingInv, AcceptedInv, AssetsInv, BeforeTheCall, Accepted
  <2>6. OutputInv' /\ FailureIsSilent'
    BY <1>3, <2>1 DEF OutputInv, FailureIsSilent
  <2> QED BY <2>3, <2>4, <2>5, <2>6 DEF CliInv
<1> QED BY <1>2, <1>3 DEF CallGeneration

LEMMA GenerateInv == ASSUME CliInv, Generate PROVE CliInv'
<1>1. /\ phase \in {"generate", "library"} /\ Step
      /\ phase' = phase /\ tokenizer' = tokenizer
      /\ output' = output /\ outcome' = outcome
  BY DEF Generate, assetVars
<1>2. IInv'
  BY <1>1, NextInv DEF CliInv, Next
<1>3. KnownInv'
  <2>1. CASE phase = "generate"
    <3>1. /\ tokenizer.vocabulary = Vocabulary(W) /\ Knows(Vocabulary(W), job.prompt)
          /\ Knows(Vocabulary(W), feed) /\ Knows(Vocabulary(W), new)
      BY <2>1 DEF CliInv, KnownInv
    <3>2. job' = job /\ Knows(Vocabulary(W), feed') /\ Knows(Vocabulary(W), new')
      BY <1>1, <3>1, StepKnows DEF CliInv
    <3> QED BY <1>1, <3>1, <3>2 DEF KnownInv, W
  <2>2. CASE phase = "library"
    BY <1>1, <2>2 DEF KnownInv
  <2> QED BY <1>1, <2>1, <2>2
<1>4. ReadingInv' /\ AcceptedInv' /\ AssetsInv'
  BY <1>1 DEF ReadingInv, AcceptedInv, AssetsInv, BeforeTheCall, Accepted
<1>5. OutputInv' /\ FailureIsSilent'
  BY <1>1 DEF CliInv, OutputInv, FailureIsSilent
<1> QED BY <1>2, <1>3, <1>4, <1>5 DEF CliInv

LEMMA PrintPromptInv == ASSUME CliInv, PrintPrompt PROVE CliInv'
<1>1. phase = "generate"
  BY DEF PrintPrompt
<1>2. CASE stop = "threw"
  <2>1. Fail("generation")
    BY <1>2 DEF PrintPrompt
  <2> QED BY <1>1, <2>1, FailInv
<1>3. CASE stop # "threw"
  <2>1. /\ output' = "prompt" /\ phase' = "decode"
        /\ UNCHANGED <<vars, commandVars, assetVars, outcome>>
    BY <1>3 DEF PrintPrompt
  <2>2. KnownInv'
    <3>1. UNCHANGED <<job, feed, new, tokenizer>>
      BY <2>1 DEF vars, assetVars
    <3> QED BY <1>1, <2>1, <3>1 DEF CliInv, KnownInv, Knows, W
  <2>3. ReadingInv' /\ AcceptedInv' /\ AssetsInv'
    BY <2>1 DEF ReadingInv, AcceptedInv, AssetsInv, BeforeTheCall, Accepted
  <2>4. OutputInv' /\ FailureIsSilent'
    BY <1>1, <2>1 DEF CliInv, OutputInv, FailureIsSilent
  <2> QED BY <2>1, <2>2, <2>3, <2>4, CallUntouched DEF CliInv
<1> QED BY <1>2, <1>3

LEMMA DecodeTokensInv == ASSUME CliInv, DecodeTokens PROVE CliInv'
<1>1. /\ phase = "decode" /\ output = "prompt"
      /\ \A k \in 1..Len(new) : new[k] \in tokenizer.vocabulary
  BY DEF DecodeTokens, CliInv, OutputInv, KnownInv, Knows
<1>2. CASE output' = "text" /\ End("success")
  <2>1. FailureIsSilent'
    BY <1>2 DEF End, FailureIsSilent
  <2> QED BY <1>1, <1>2, <2>1, EndInv
<1>3. CASE Fail("memory")
  <2>1. FailureIsSilent'
    BY <1>1, <1>3 DEF Fail, End, FailureIsSilent
  <2> QED BY <1>1, <1>3, <2>1, EndInv DEF Fail
<1> QED BY <1>1, <1>2, <1>3 DEF DecodeTokens

LEMMA CliStutterInv == ASSUME CliInv, UNCHANGED cliVars PROVE CliInv'
<1>1. /\ UNCHANGED vars
      /\ UNCHANGED <<phase, arguments, at, given, tokenizer, model, output, outcome>>
      /\ UNCHANGED <<job, feed, new>>
  BY DEF cliVars, commandVars, assetVars, vars
<1>2. NumbersIn(arguments)' = NumbersIn(arguments)
      /\ DecimalsIn(arguments)' = DecimalsIn(arguments)
      /\ ToSet(arguments)' = ToSet(arguments)
  BY <1>1
<1>3. ReadingInv'
  BY <1>1, <1>2, CallUntouched DEF CliInv, ReadingInv
<1>4. AcceptedInv' /\ AssetsInv' /\ KnownInv'
  BY <1>1 DEF CliInv, AcceptedInv, AssetsInv, KnownInv, Temperature, TopP, Setting,
     Knows, W
<1>5. OutputInv' /\ FailureIsSilent'
  BY <1>1 DEF CliInv, OutputInv, FailureIsSilent
<1> QED BY <1>1, <1>3, <1>4, <1>5, CallUntouched DEF CliInv

LEMMA CliNextInv == CliInv /\ [CliNext]_cliVars => CliInv'
BY ShowHelpInv, TakeValueInv, TakeFlagInv, UnknownOptionInv, CheckOptionsInv,
   LoadTokenizerInv, LoadModelInv, CallGenerationInv, GenerateInv, PrintPromptInv,
   DecodeTokensInv, CliStutterInv
   DEF CliNext, CliStep

\* Whatever the arguments and the files, what run_cli has read leads to a call
\* that run_generation takes, of a model and a tokenizer with one vocabulary.
THEOREM CommandInvariant == CliSpec => []CliInv
BY CliInitInv, CliNextInv, PTL DEF CliSpec

\* What holds of every call holds of the one a command makes.
THEOREM CommandsGenerateAsOthersDo ==
  CliSpec => [](FeedCompletesTheText /\ TokensAreReference
                  /\ StopIsTheFirstLimit /\ PassesAreNeverRefused)
<1>1. CliInv => /\ FeedCompletesTheText /\ TokensAreReference
                /\ StopIsTheFirstLimit /\ PassesAreNeverRefused
  BY DEF CliInv, IInv
<1> QED BY <1>1, CommandInvariant, PTL

\* decode is never given a token it refuses, so a command that fails leaves
\* nothing on standard output (run_cli prints the prompt before it decodes).
THEOREM FailureAlwaysSilent == CliSpec => []FailureIsSilent
<1>1. CliInv => FailureIsSilent
  BY DEF CliInv
<1> QED BY <1>1, CommandInvariant, PTL

\* The comparison of the two vocabulary sizes keeps every id in both.
THEOREM TokensAlwaysKnownToBoth == CliSpec => []TokensAreKnownToBoth
<1>1. CliInv => TokensAreKnownToBoth
  BY DEF CliInv, KnownInv, Knows, TokensAreKnownToBoth
<1> QED BY <1>1, CommandInvariant, PTL


-----------------------------------------------------------------------------
(* What the command line means. *)

\* The definition by recursion of where options stand defines a function.
LEMMA PositionsDefined ==
  ASSUME NEW args, Len(args) \in Nat
  PROVE  \E f : f = [k \in 1..(Len(args) + 1) |-> k > 1 /\ f[k - 1] => args[k - 1] \notin Valued]
<1> DEFINE Upto(n) == \E f \in [1..n -> BOOLEAN] :
                        \A k \in 1..n : f[k] = (k > 1 /\ f[k - 1] => args[k - 1] \notin Valued)
           S == {n \in Nat : Upto(n)}
<1>1. 0 \in S
  <2>1. \A k \in 1..0 : FALSE
    OBVIOUS
  <2>2. [k \in 1..0 |-> TRUE] \in [1..0 -> BOOLEAN]
    OBVIOUS
  <2>3. Upto(0)
    BY <2>1, <2>2
  <2> QED BY <2>3
<1>2. ASSUME NEW n \in Nat, n \in S PROVE n + 1 \in S
  <2>1. PICK f \in [1..n -> BOOLEAN] :
          \A k \in 1..n : f[k] = (k > 1 /\ f[k - 1] => args[k - 1] \notin Valued)
    BY <1>2
  <2> DEFINE last == (n + 1 > 1 /\ f[n] => args[n] \notin Valued)
             h == [k \in 1..(n + 1) |-> IF k = n + 1 THEN last ELSE f[k]]
  <2>2. last \in BOOLEAN
    OBVIOUS
  <2>3. h \in [1..(n + 1) -> BOOLEAN]
    <3>1. \A k \in 1..(n + 1) : k # n + 1 => k \in 1..n
      OBVIOUS
    <3> HIDE DEF last
    <3> QED BY <2>2, <3>1
  <2>4. ASSUME NEW k \in 1..(n + 1)
        PROVE  h[k] = (k > 1 /\ h[k - 1] => args[k - 1] \notin Valued)
    <3>1. CASE k = n + 1
      <4>1. h[k] = last
        BY <3>1
      <4>2. CASE n = 0
        BY <3>1, <4>1, <4>2
      <4>3. CASE n # 0
        <5>1. k - 1 = n /\ n \in 1..(n + 1) /\ n # n + 1
          BY <3>1, <4>3
        <5>2. h[k - 1] = f[n]
          BY <5>1
        <5>3. h[k] = (k > 1 /\ f[n] => args[k - 1] \notin Valued)
          BY <3>1, <4>1, <5>1
        <5> QED BY <5>2, <5>3
      <4> QED BY <4>2, <4>3
    <3>2. CASE k # n + 1
      <4>1. k \in 1..n /\ h[k] = f[k]
        BY <3>2
      <4>2. f[k] = (k > 1 /\ f[k - 1] => args[k - 1] \notin Valued)
        BY <2>1, <4>1
      <4>3. k > 1 => h[k - 1] = f[k - 1]
        BY <4>1
      <4> HIDE DEF h
      <4> QED BY <4>1, <4>2, <4>3
    <3> QED BY <3>1, <3>2
  <2> HIDE DEF h
  <2>5. Upto(n + 1)
    BY <2>3, <2>4
  <2> QED BY <2>5
<1>3. Len(args) + 1 \in S
  <2> HIDE DEF S
  <2> QED BY <1>1, <1>2, Induction
<1>4. PICK f \in [1..(Len(args) + 1) -> BOOLEAN] :
        \A k \in 1..(Len(args) + 1) : f[k] = (k > 1 /\ f[k - 1] => args[k - 1] \notin Valued)
  BY <1>3
<1>5. f = [k \in 1..(Len(args) + 1) |-> k > 1 /\ f[k - 1] => args[k - 1] \notin Valued]
  BY <1>4
<1> QED BY <1>5

\* An option stands first, and one stands behind a word that does not belong to
\* an option before it.
LEMMA PositionsAre ==
  ASSUME NEW args, Len(args) \in Nat
  PROVE  /\ Positions(args) \subseteq 1..(Len(args) + 1)
         /\ 1 \in Positions(args)
         /\ \A k \in 1..Len(args) :
              k + 1 \in Positions(args) <=> ~(k \in Positions(args) /\ args[k] \in Valued)
<1> DEFINE Equation(f) ==
             f = [k \in 1..(Len(args) + 1) |-> k > 1 /\ f[k - 1] => args[k - 1] \notin Valued]
           standsAt == CHOOSE f : Equation(f)
<1>1. \E f : Equation(f)
  BY PositionsDefined
<1>2. Equation(standsAt)
  <2> HIDE DEF Equation
  <2> QED BY <1>1
<1>3. Positions(args) = {k \in 1..(Len(args) + 1) : standsAt[k]}
  BY DEF Positions
<1> HIDE DEF standsAt
<1>4. \A k \in 1..(Len(args) + 1) : standsAt[k] = (k > 1 /\ standsAt[k - 1] => args[k - 1] \notin Valued)
  BY <1>2
<1>5. standsAt[1] /\ 1 \in 1..(Len(args) + 1)
  <2>1. 1 \in 1..(Len(args) + 1) /\ ~(1 > 1)
    OBVIOUS
  <2>2. standsAt[1] = (1 > 1 /\ standsAt[1 - 1] => args[1 - 1] \notin Valued)
    BY <1>4, <2>1
  <2> QED BY <2>1, <2>2
<1>6. ASSUME NEW k \in 1..Len(args)
      PROVE  k + 1 \in Positions(args) <=> ~(k \in Positions(args) /\ args[k] \in Valued)
  <2>1. k + 1 \in 1..(Len(args) + 1) /\ k \in 1..(Len(args) + 1) /\ k + 1 > 1 /\ (k + 1) - 1 = k
    OBVIOUS
  <2>2. standsAt[k + 1] = (k + 1 > 1 /\ standsAt[(k + 1) - 1] => args[(k + 1) - 1] \notin Valued)
    BY <1>4, <2>1
  <2> QED BY <1>3, <2>1, <2>2
<1> QED BY <1>3, <1>5, <1>6


\* The positions of the options met so far.
Before == {k \in Positions(arguments) : k < at}

\* What was read of the arguments is what they mean, as far as it was read.
\* Where reading ends they mean a command, or do not.
ParsedInv ==
  /\ phase \in BeforeTheCall =>
       /\ at \in Positions(arguments)
       /\ DOMAIN given = {arguments[k] : k \in Before}
       /\ \A k \in Before :
            /\ arguments[k] \in Valued \cup Flags
            /\ \A j \in Before : arguments[j] = arguments[k] => j = k
            /\ arguments[k] \in Valued =>
                 /\ given[arguments[k]] = Value(arguments[k], arguments[k + 1])
                 /\ Value(arguments[k], arguments[k + 1]) # Malformed
  /\ phase \in Accepted =>
       at = Len(arguments) + 1 /\ IsCommand(arguments) /\ ~AsksForHelp
  /\ outcome = "misuse" => ~IsCommand(arguments)

LEMMA ArgumentsAre ==
  ASSUME CliInv, phase \in BeforeTheCall
  PROVE  /\ arguments \in Commands /\ at \in Nat \ {0}
         /\ Len(arguments) \in Nat /\ DOMAIN arguments = 1..Len(arguments)
         /\ outcome = "none"
<1>1. arguments \in Commands /\ at \in Nat \ {0}
  BY DEF CliInv, ReadingInv
<1>2. arguments \in Seq(UNION {ToSet(args) : args \in Commands})
  BY <1>1, CliAssumption
<1>3. outcome = "none"
  BY DEF CliInv, OutputInv, BeforeTheCall
<1> QED BY <1>1, <1>2, <1>3, LenProperties

\* A step that ends the command for another reason, or leaves it as it is.
LEMMA ParsedEnd ==
  ASSUME NEW why, Fail(why) \/ End(why), why # "misuse"
  PROVE  ParsedInv'
<1>1. phase' = "exited" /\ outcome' = why
  BY DEF Fail, End
<1> QED BY <1>1 DEF ParsedInv, BeforeTheCall, Accepted

\* An option is read, at the position where one stands.
LEMMA ParsedMore ==
  ASSUME CliInv, ParsedInv, Parsing, at <= Len(arguments),
         NEW value, given' = Recorded(arguments[at], value),
         arguments[at] \in Valued \cup Flags, Once(arguments[at]),
         arguments[at] \in Valued =>
           value = Value(arguments[at], arguments[at + 1]) /\ value # Malformed,
         at' \in Positions(arguments),
         {k \in Positions(arguments) : k < at'} = Before \cup {at},
         UNCHANGED <<phase, arguments, outcome>>
  PROVE  ParsedInv'
<1> DEFINE option == arguments[at]
<1>1. phase = "options" /\ phase \in BeforeTheCall /\ phase' = phase
  BY DEF Parsing, BeforeTheCall
<1>2. outcome' = "none"
  BY <1>1, ArgumentsAre
<1>3. /\ DOMAIN given = {arguments[k] : k \in Before}
      /\ \A k \in Before :
            /\ arguments[k] \in Valued \cup Flags
            /\ \A j \in Before : arguments[j] = arguments[k] => j = k
            /\ arguments[k] \in Valued =>
                 /\ given[arguments[k]] = Value(arguments[k], arguments[k + 1])
                 /\ Value(arguments[k], arguments[k + 1]) # Malformed
  BY <1>1 DEF ParsedInv
<1>4. Before' = Before \cup {at}
  BY DEF Before
<1>5. \A k \in Before : arguments[k] # option
  BY <1>3 DEF Once
<1>6. /\ DOMAIN given' = DOMAIN given \cup {option}
      /\ \A o \in DOMAIN given' : given'[o] = IF o = option THEN value ELSE given[o]
  BY DEF Recorded
<1>7. DOMAIN given' = {arguments[k] : k \in Before \cup {at}}
  BY <1>3, <1>6
<1>8. ASSUME NEW k \in Before \cup {at}
      PROVE  /\ arguments[k] \in Valued \cup Flags
             /\ \A j \in Before \cup {at} : arguments[j] = arguments[k] => j = k
             /\ arguments[k] \in Valued =>
                  /\ given'[arguments[k]] = Value(arguments[k], arguments[k + 1])
                  /\ Value(arguments[k], arguments[k + 1]) # Malformed
  <2>1. CASE k = at
    <3>1. arguments[k] = option /\ option \in DOMAIN given'
      BY <1>6, <2>1
    <3>2. given'[option] = value
      BY <1>6, <3>1
    <3>3. \A j \in Before \cup {at} : arguments[j] = arguments[k] => j = k
      BY <1>5, <2>1
    <3> QED BY <2>1, <3>1, <3>2, <3>3
  <2>2. CASE k \in Before
    <3>1. arguments[k] # option /\ arguments[k] \in DOMAIN given'
      BY <1>5, <1>7, <2>2
    <3>2. given'[arguments[k]] = given[arguments[k]]
      BY <1>6, <3>1
    <3>3. \A j \in Before \cup {at} : arguments[j] = arguments[k] => j = k
      BY <1>3, <2>2, <3>1
    <3> QED BY <1>3, <2>2, <3>2, <3>3
  <2> QED BY <2>1, <2>2
<1>9. arguments' = arguments /\ phase' \notin Accepted
  BY <1>1 DEF Accepted
<1>10. at' \in Positions(arguments') /\ DOMAIN given' = {arguments'[k] : k \in Before'}
  BY <1>4, <1>7, <1>9
<1>11. \A k \in Before' :
         /\ arguments'[k] \in Valued \cup Flags
         /\ \A j \in Before' : arguments'[j] = arguments'[k] => j = k
         /\ arguments'[k] \in Valued =>
              /\ given'[arguments'[k]] = Value(arguments'[k], arguments'[k + 1])
              /\ Value(arguments'[k], arguments'[k + 1]) # Malformed
  BY <1>4, <1>8, <1>9
<1> QED BY <1>2, <1>9, <1>10, <1>11 DEF ParsedInv

\* An option that was given before makes two positions of one option.
LEMMA TwiceIsNoCommand ==
  ASSUME CliInv, ParsedInv, Parsing, at <= Len(arguments), ~Once(arguments[at])
  PROVE  ~IsCommand(arguments)
<1>1. phase \in BeforeTheCall /\ at \in Positions(arguments)
      /\ DOMAIN given = {arguments[k] : k \in Before}
  BY DEF Parsing, BeforeTheCall, ParsedInv
<1>2. PICK k \in Before : arguments[k] = arguments[at]
  BY <1>1 DEF Once
<1>3. /\ at \in DOMAIN arguments /\ at \in Nat /\ k \in Positions(arguments)
      /\ k # at /\ k \in DOMAIN arguments
  <2>1. Len(arguments) \in Nat /\ DOMAIN arguments = 1..Len(arguments) /\ at \in Nat \ {0}
    BY <1>1, ArgumentsAre
  <2>2. k \in 1..(Len(arguments) + 1) /\ k < at /\ k \in Positions(arguments)
    BY <1>2, <2>1, PositionsAre DEF Before
  <2> QED BY <2>1, <2>2
<1>4. k \in PositionsOf(arguments, arguments[at])
  BY <1>2, <1>3 DEF PositionsOf
<1> QED BY <1>1, <1>3, <1>4 DEF IsCommand

LEMMA TakeValueParsed == ASSUME CliInv, ParsedInv, TakeValue PROVE ParsedInv'
<1> DEFINE option == arguments[at]
           value == Value(option, arguments[at + 1])
<1>1. Parsing /\ phase \in BeforeTheCall /\ option \in Valued /\ at <= Len(arguments)
  BY DEF TakeValue, Parsing, BeforeTheCall
<1>2. /\ Len(arguments) \in Nat /\ DOMAIN arguments = 1..Len(arguments)
      /\ at \in 1..Len(arguments) /\ at \in Positions(arguments)
  <2>1. Len(arguments) \in Nat /\ DOMAIN arguments = 1..Len(arguments) /\ at \in Nat \ {0}
    BY <1>1, ArgumentsAre
  <2> QED BY <1>1, <2>1 DEF ParsedInv
<1>3. at + 1 \notin Positions(arguments)
  BY <1>1, <1>2, PositionsAre
<1>4. CASE at < Len(arguments) /\ value # Malformed /\ Once(option)
  <2>1. /\ given' = Recorded(option, value) /\ at' = at + 2
        /\ UNCHANGED <<phase, arguments, outcome>>
    BY <1>4 DEF TakeValue
  <2>2. at + 2 \in Positions(arguments)
    <3>1. at + 1 \in 1..Len(arguments) /\ (at + 1) + 1 = at + 2
      BY <1>2, <1>4
    <3>2. (at + 1) + 1 \in Positions(arguments)
      BY <1>2, <1>3, <3>1, PositionsAre
    <3> QED BY <3>1, <3>2
  <2>3. {k \in Positions(arguments) : k < at + 2} = Before \cup {at}
    <3>1. \A k \in Positions(arguments) : k \in Nat
      BY <1>2, PositionsAre
    <3>2. \A k \in Positions(arguments) : k < at + 2 <=> k < at \/ k = at
      <4>1. \A k \in Positions(arguments) : k # at + 1
        BY <1>3
      <4>2. at \in Nat
        BY <1>2
      <4> QED BY <3>1, <4>1, <4>2
    <3> QED BY <1>2, <3>2 DEF Before
  <2> HIDE DEF option, value
  <2>4. ParsedInv'
    BY <1>1, <1>4, <2>1, <2>2, <2>3, ParsedMore DEF option, value
  <2> QED BY <2>4
<1>5. CASE ~(at < Len(arguments) /\ value # Malformed /\ Once(option))
  <2>1. Fail("misuse")
    BY <1>5 DEF TakeValue
  <2>2. ~IsCommand(arguments)
    <3>1. CASE ~(at < Len(arguments))
      <4>0. at \in Nat /\ Len(arguments) \in Nat /\ at <= Len(arguments)
        BY <1>2
      <4>1. at = Len(arguments)
        BY <3>1, <4>0
      <4> QED BY <1>3, <4>1 DEF IsCommand
    <3>2. CASE value = Malformed
      BY <1>1, <1>2, <3>2 DEF IsCommand, InRange
    <3>3. CASE ~Once(option)
      BY <1>1, <3>3, TwiceIsNoCommand
    <3> QED BY <1>5, <3>1, <3>2, <3>3
  <2>3. arguments' = arguments /\ phase' = "exited"
    BY <2>1 DEF Fail, End, commandVars
  <2> QED BY <2>2, <2>3 DEF ParsedInv, BeforeTheCall, Accepted
<1> QED BY <1>4, <1>5

LEMMA TakeFlagParsed == ASSUME CliInv, ParsedInv, TakeFlag PROVE ParsedInv'
<1> DEFINE option == arguments[at]
<1>1. Parsing /\ phase \in BeforeTheCall /\ option \in Flags /\ at <= Len(arguments)
  BY DEF TakeFlag, Parsing, BeforeTheCall
<1>2. option \notin Valued
  BY <1>1 DEF Flags, Valued, ValuedByText, ValuedByNumber, ValuedByDecimal
<1>3. Len(arguments) \in Nat /\ at \in 1..Len(arguments) /\ at \in Positions(arguments)
  <2>1. Len(arguments) \in Nat /\ at \in Nat \ {0}
    BY <1>1, ArgumentsAre
  <2> QED BY <1>1, <2>1 DEF ParsedInv
<1>4. CASE Once(option)
  <2>1. /\ given' = Recorded(option, EmptyText) /\ at' = at + 1
        /\ UNCHANGED <<phase, arguments, outcome>>
    BY <1>4 DEF TakeFlag
  <2>2. at + 1 \in Positions(arguments)
    BY <1>2, <1>3, PositionsAre
  <2>3. {k \in Positions(arguments) : k < at + 1} = Before \cup {at}
    <3>1. \A k \in Positions(arguments) : k \in Nat
      BY <1>3, PositionsAre
    <3>2. \A k \in Positions(arguments) : k < at + 1 <=> k < at \/ k = at
      BY <1>3, <3>1
    <3> QED BY <1>3, <3>2 DEF Before
  <2> HIDE DEF option
  <2>4. ParsedInv'
    BY <1>1, <1>2, <1>4, <2>1, <2>2, <2>3, ParsedMore DEF option
  <2> QED BY <2>4
<1>5. CASE ~Once(option)
  <2>1. Fail("misuse")
    BY <1>5 DEF TakeFlag
  <2>2. ~IsCommand(arguments)
    BY <1>1, <1>5, TwiceIsNoCommand
  <2>3. arguments' = arguments /\ phase' = "exited"
    BY <2>1 DEF Fail, End, commandVars
  <2> QED BY <2>2, <2>3 DEF ParsedInv, BeforeTheCall, Accepted
<1> QED BY <1>4, <1>5

LEMMA UnknownOptionParsed == ASSUME CliInv, ParsedInv, UnknownOption PROVE ParsedInv'
<1>1. /\ phase \in BeforeTheCall /\ Fail("misuse") /\ at <= Len(arguments)
      /\ arguments[at] \notin Valued \cup Flags
  BY DEF UnknownOption, Parsing, BeforeTheCall
<1>2. at \in Positions(arguments) /\ at \in DOMAIN arguments
  <2>1. Len(arguments) \in Nat /\ DOMAIN arguments = 1..Len(arguments) /\ at \in Nat \ {0}
    BY <1>1, ArgumentsAre
  <2> QED BY <1>1, <2>1 DEF ParsedInv
<1>3. ~IsCommand(arguments)
  BY <1>1, <1>2 DEF IsCommand
<1>4. arguments' = arguments /\ phase' = "exited"
  BY <1>1 DEF Fail, End, commandVars
<1> QED BY <1>3, <1>4 DEF ParsedInv, BeforeTheCall, Accepted


\* Once all of them are read, what was given is what the arguments mean.
LEMMA GivenIsMeant ==
  ASSUME CliInv, ParsedInv, phase \in BeforeTheCall, at > Len(arguments)
  PROVE  /\ at = Len(arguments) + 1 /\ at \in Positions(arguments)
         /\ Before = Positions(arguments) \cap DOMAIN arguments
         /\ \A k \in Before : PositionsOf(arguments, arguments[k]) = {k}
         /\ \A option : Has(arguments, option) <=> option \in DOMAIN given
         /\ \A option \in Valued : option \in DOMAIN given =>
              /\ given[option] # Malformed
              /\ \E k \in Before : arguments[k] = option
                                   /\ given[option] = Value(option, arguments[k + 1])
<1>1. /\ Len(arguments) \in Nat /\ DOMAIN arguments = 1..Len(arguments) /\ at \in Nat
      /\ at \in Positions(arguments) /\ DOMAIN given = {arguments[k] : k \in Before}
      /\ \A k \in Before :
            /\ arguments[k] \in Valued \cup Flags
            /\ \A j \in Before : arguments[j] = arguments[k] => j = k
            /\ arguments[k] \in Valued =>
                 /\ given[arguments[k]] = Value(arguments[k], arguments[k + 1])
                 /\ Value(arguments[k], arguments[k + 1]) # Malformed
  BY ArgumentsAre DEF ParsedInv
<1>2. Positions(arguments) \subseteq 1..(Len(arguments) + 1)
  BY <1>1, PositionsAre
<1>3. at = Len(arguments) + 1
  <2>1. at \in 1..(Len(arguments) + 1)
    BY <1>1, <1>2
  <2> QED BY <1>1, <2>1
<1>4. Before = Positions(arguments) \cap DOMAIN arguments
  <2>1. \A k \in Positions(arguments) : k < at <=> k \in 1..Len(arguments)
    <3>1. \A k \in 1..(Len(arguments) + 1) : k < Len(arguments) + 1 <=> k \in 1..Len(arguments)
      BY <1>1
    <3> QED BY <1>2, <1>3, <3>1
  <2> QED BY <1>1, <2>1 DEF Before
<1>5. \A k \in Before : PositionsOf(arguments, arguments[k]) = {k}
  BY <1>1, <1>4 DEF PositionsOf
<1>6. \A option : Has(arguments, option) <=> option \in DOMAIN given
  BY <1>1, <1>4 DEF Has, PositionsOf
<1>7. ASSUME NEW option \in Valued, option \in DOMAIN given
      PROVE  /\ given[option] # Malformed
             /\ \E k \in Before : arguments[k] = option
                                  /\ given[option] = Value(option, arguments[k + 1])
  <2>1. PICK k \in Before : arguments[k] = option
    BY <1>1, <1>7
  <2> QED BY <1>1, <2>1
<1> QED BY <1>1, <1>3, <1>4, <1>5, <1>6, <1>7

\* The value of an option, or its default, is the one it was given.
LEMMA SettingIsMeant ==
  ASSUME CliInv, ParsedInv, phase \in BeforeTheCall, at > Len(arguments),
         NEW option \in Valued, NEW default
  PROVE  Meant(arguments, option, default) = Setting(option, default)
<1>1. CASE option \in DOMAIN given
  <2>1. PICK k \in Before : arguments[k] = option /\ given[option] = Value(option, arguments[k + 1])
    BY <1>1, GivenIsMeant
  <2>2. PositionsOf(arguments, option) = {k} /\ Has(arguments, option)
    BY <1>1, <2>1, GivenIsMeant
  <2>3. (CHOOSE j \in PositionsOf(arguments, option) : TRUE) = k
    BY <2>2
  <2> QED BY <1>1, <2>1, <2>2, <2>3 DEF Meant, Setting
<1>2. CASE option \notin DOMAIN given
  BY <1>2, GivenIsMeant DEF Meant, Setting
<1> QED BY <1>1, <1>2

LEMMA CheckOptionsParsed == ASSUME CliInv, ParsedInv, CheckOptions PROVE ParsedInv'
<1>1. phase \in BeforeTheCall /\ at > Len(arguments) /\ ~AsksForHelp
  BY DEF CheckOptions, Parsing, BeforeTheCall
<1>2. /\ at = Len(arguments) + 1 /\ at \in Positions(arguments)
      /\ Before = Positions(arguments) \cap DOMAIN arguments
      /\ \A k \in Before : PositionsOf(arguments, arguments[k]) = {k}
      /\ \A option : Has(arguments, option) <=> option \in DOMAIN given
      /\ \A option \in Valued : option \in DOMAIN given =>
           /\ given[option] # Malformed
           /\ \E k \in Before : arguments[k] = option
                                /\ given[option] = Value(option, arguments[k + 1])
  BY <1>1, GivenIsMeant
<1>3. /\ \A k \in Before : arguments[k] \in Valued \cup Flags /\ arguments[k] \in DOMAIN given
      /\ \A k \in Before : arguments[k] \in Valued =>
           given[arguments[k]] = Value(arguments[k], arguments[k + 1])
  BY <1>1 DEF ParsedInv
<1>4. /\ Required \subseteq Valued /\ SamplingControls \subseteq Valued /\ "--prompt" \in Required
      /\ "--temperature" \in Valued /\ "--top-p" \in Valued
  BY DEF Required, SamplingControls, Valued, ValuedByText, ValuedByNumber, ValuedByDecimal
<1> DEFINE good == /\ Required \subseteq DOMAIN given
                   /\ given["--prompt"] # EmptyText
                   /\ Samples \/ SamplingControls \cap DOMAIN given = {}
                   /\ Temperature > 0
                   /\ TopP > 0 /\ TopP <= One
<1>5. CASE good
  <2>1. phase' = "tokenizer" /\ UNCHANGED <<arguments, at, given, outcome>>
    BY <1>5 DEF CheckOptions, commandVars
  <2>2. ASSUME NEW k \in Before
        PROVE  /\ arguments[k] \in Valued => InRange(arguments[k], Value(arguments[k], arguments[k + 1]))
               /\ arguments[k] \in SamplingControls => Has(arguments, "--sample")
    <3>1. arguments[k] \in Valued => InRange(arguments[k], given[arguments[k]])
      BY <1>2, <1>3, <1>5 DEF InRange, Temperature, TopP, Setting
    <3>2. arguments[k] \in SamplingControls => Has(arguments, "--sample")
      BY <1>2, <1>3, <1>4, <1>5 DEF Samples
    <3> QED BY <1>3, <3>1, <3>2
  <2>3. \A option \in Required : Has(arguments, option)
    BY <1>2, <1>4, <1>5
  <2>4. IsCommand(arguments)
    BY <1>2, <1>3, <2>2, <2>3 DEF IsCommand
  <2>5. Before' = Before /\ ~AsksForHelp' /\ outcome' # "misuse"
    <3>1. outcome = "none"
      BY <1>1, ArgumentsAre
    <3> QED BY <1>1, <2>1, <3>1 DEF Before, AsksForHelp
  <2> QED BY <1>1, <1>2, <2>1, <2>4, <2>5 DEF ParsedInv
<1>6. CASE ~good
  <2>1. Fail("misuse")
    BY <1>6 DEF CheckOptions
  <2>2. ASSUME IsCommand(arguments) PROVE FALSE
    <3>1. /\ \A option \in Required : option \in DOMAIN given
          /\ \A k \in Before :
               /\ arguments[k] \in Valued => InRange(arguments[k], given[arguments[k]])
               /\ arguments[k] \in SamplingControls => "--sample" \in DOMAIN given
      BY <1>2, <1>3, <1>4, <2>2 DEF IsCommand
    <3>2. \A option \in DOMAIN given : option \in Valued => InRange(option, given[option])
      BY <1>2, <3>1
    <3>3. given["--prompt"] # EmptyText
      BY <1>4, <3>1, <3>2 DEF InRange
    <3>4. Samples \/ SamplingControls \cap DOMAIN given = {}
      BY <1>2, <1>4, <3>1 DEF Samples
    <3>5. One > 0 /\ One <= One
      BY CliAssumption
    <3>6. Temperature > 0
      BY <1>4, <3>2, <3>5 DEF InRange, Temperature, Setting
    <3>7. TopP > 0 /\ TopP <= One
      BY <1>4, <3>2, <3>5 DEF InRange, TopP, Setting
    <3> QED BY <1>6, <3>1, <3>3, <3>4, <3>6, <3>7
  <2>3. arguments' = arguments /\ phase' = "exited"
    BY <2>1 DEF Fail, End, commandVars
  <2> QED BY <2>2, <2>3 DEF ParsedInv, BeforeTheCall, Accepted
<1> QED BY <1>5, <1>6

\* What follows the parsing leaves it as it is until the call.
LEMMA ParsedKept ==
  ASSUME CliInv, ParsedInv, phase \in Accepted, phase' \in Accepted,
         UNCHANGED <<commandVars, outcome>>
  PROVE  ParsedInv'
<1>1. /\ UNCHANGED <<arguments, at, given>> /\ phase \in BeforeTheCall /\ outcome' = outcome
      /\ outcome = "none"
  BY ArgumentsAre DEF commandVars, Accepted, BeforeTheCall
<1>2. Before' = Before /\ AsksForHelp' = AsksForHelp
  BY <1>1 DEF Before, AsksForHelp
<1> QED BY <1>1, <1>2 DEF ParsedInv

LEMMA ParsedNextInv == CliInv /\ ParsedInv /\ [CliNext]_cliVars => ParsedInv'
<1> SUFFICES ASSUME CliInv, ParsedInv, [CliNext]_cliVars PROVE ParsedInv'
  OBVIOUS
<1>1. CASE ShowHelp
  BY <1>1, ParsedEnd DEF ShowHelp
<1>2. CASE TakeValue BY <1>2, TakeValueParsed
<1>3. CASE TakeFlag BY <1>3, TakeFlagParsed
<1>4. CASE UnknownOption BY <1>4, UnknownOptionParsed
<1>5. CASE CheckOptions BY <1>5, CheckOptionsParsed
<1>6. CASE LoadTokenizer
  <2>1. phase \in Accepted
    BY <1>6 DEF LoadTokenizer, Accepted
  <2>2. CASE Fail("assets")
    BY <2>2, ParsedEnd
  <2>3. CASE phase' = "model" /\ UNCHANGED <<commandVars, outcome>>
    BY <2>1, <2>3, ParsedKept DEF Accepted
  <2> QED BY <1>6, <2>2, <2>3 DEF LoadTokenizer
<1>7. CASE LoadModel
  <2>1. phase \in Accepted
    BY <1>7 DEF LoadModel, Accepted
  <2>2. CASE Fail("assets") \/ Fail("mismatch")
    BY <2>2, ParsedEnd
  <2>3. CASE phase' = "prompt" /\ UNCHANGED <<commandVars, outcome>>
    BY <2>1, <2>3, ParsedKept DEF Accepted
  <2> QED BY <1>7, <2>2, <2>3 DEF LoadModel
<1>8. CASE CallGeneration
  <2>1. CASE Fail("encoding")
    BY <2>1, ParsedEnd
  <2>2. CASE phase' = "generate" /\ outcome' = outcome
    <3>1. outcome = "none"
      BY <1>8, ArgumentsAre DEF CallGeneration, BeforeTheCall
    <3> QED BY <2>2, <3>1 DEF ParsedInv, BeforeTheCall, Accepted
  <2> QED BY <1>8, <2>1, <2>2 DEF CallGeneration
<1>9. CASE Generate
  BY <1>9 DEF Generate, commandVars, ParsedInv, BeforeTheCall, Accepted
<1>10. CASE PrintPrompt
  <2>1. CASE Fail("generation")
    BY <2>1, ParsedEnd
  <2>2. CASE phase' = "decode" /\ UNCHANGED <<commandVars, outcome>>
    BY <2>2 DEF commandVars, ParsedInv, BeforeTheCall, Accepted
  <2> QED BY <1>10, <2>1, <2>2 DEF PrintPrompt
<1>11. CASE DecodeTokens
  <2>1. CASE End("success")
    BY <2>1, ParsedEnd
  <2>2. CASE Fail("memory") \/ Fail("unknown token")
    BY <2>2, ParsedEnd
  <2> QED BY <1>11, <2>1, <2>2 DEF DecodeTokens
<1>12. CASE UNCHANGED cliVars
  <2>1. UNCHANGED <<phase, arguments, at, given, outcome>>
    BY <1>12 DEF cliVars, commandVars
  <2>2. Before' = Before /\ AsksForHelp' = AsksForHelp
    BY <2>1 DEF Before, AsksForHelp
  <2> QED BY <2>1, <2>2 DEF ParsedInv
<1> QED
  BY <1>1, <1>2, <1>3, <1>4, <1>5, <1>6, <1>7, <1>8, <1>9, <1>10, <1>11, <1>12 DEF CliNext, CliStep

LEMMA ParsedInitInv == CliInit => ParsedInv
<1> SUFFICES ASSUME CliInit PROVE ParsedInv
  OBVIOUS
<1>1. /\ phase \in {"options", "library"} /\ at = 1 /\ outcome = "none"
      /\ DOMAIN given = {}
  BY DEF CliInit, NoSettings
<1>2. CASE phase = "options"
  <2>1. arguments \in Commands /\ at = 1 /\ outcome = "none"
    BY <1>2 DEF CliInit
  <2>2. Len(arguments) \in Nat
    BY <2>1, CliAssumption, LenProperties
  <2>3. at \in Positions(arguments) /\ Before = {}
    BY <2>1, <2>2, PositionsAre DEF Before
  <2> QED BY <1>1, <1>2, <2>1, <2>3 DEF ParsedInv, Accepted
<1>3. CASE phase = "library"
  BY <1>3 DEF CliInit, ParsedInv, BeforeTheCall, Accepted
<1> QED BY <1>2, <1>3 DEF CliInit

\* For every list of arguments, whatever the order of its options: parse_options
\* accepts it if it is a command, each option once and in range, and ends with
\* a usage error only if it is not.
THEOREM AlwaysAcceptsExactlyCommands == CliSpec => []AcceptsExactlyCommands
<1>1. ParsedInv => AcceptsExactlyCommands
  BY DEF ParsedInv, AcceptsExactlyCommands, Accepted
<1> QED BY <1>1, CliInitInv, CliNextInv, ParsedInitInv, ParsedNextInv, PTL DEF CliSpec

LEMMA CallIsMeant ==
  ASSUME CliInv, ParsedInv, CallGeneration, phase' = "generate"
  PROVE  /\ job'.weights \in ModelsAt(Meant(arguments, "--checkpoint", EmptyText))
         /\ tokenizer \in TokenizersAt(Meant(arguments, "--vocab", EmptyText),
                                       Meant(arguments, "--merges", EmptyText))
         /\ job'.endOfText = tokenizer.endOfText
         /\ job'.maximum = Meant(arguments, "--max-new-tokens", DefaultMaximum)
         /\ job'.useCache = ~Has(arguments, "--no-cache")
         /\ job'.decoding =
              IF Has(arguments, "--sample")
              THEN Sampled(Meant(arguments, "--temperature", One), Meant(arguments, "--top-k", 0),
                           Meant(arguments, "--top-p", One), Meant(arguments, "--seed", DefaultSeed))
              ELSE Greedy
<1>1. phase = "prompt" /\ phase \in BeforeTheCall /\ phase \in Accepted
  BY DEF CallGeneration, BeforeTheCall, Accepted
<1>2. at > Len(arguments)
  <2>1. Len(arguments) \in Nat /\ at = Len(arguments) + 1
    BY <1>1, ArgumentsAre DEF ParsedInv
  <2> QED BY <2>1
<1>3. PICK p \in PromptTokens : job' = JobOf(p)
  BY DEF CallGeneration, Fail, End
<1>4. /\ Required \subseteq DOMAIN given
      /\ model \in ModelsAt(given["--checkpoint"])
      /\ tokenizer \in TokenizersAt(given["--vocab"], given["--merges"])
  BY <1>1 DEF CliInv, AcceptedInv, AssetsInv
<1>5. \A option \in Valued : \A default : Meant(arguments, option, default) = Setting(option, default)
  BY <1>1, <1>2, SettingIsMeant
<1>6. \A option \in Required : \A default : Setting(option, default) = given[option]
  BY <1>4 DEF Setting
<1>7. {"--checkpoint", "--vocab", "--merges"} \subseteq Required /\ Required \subseteq Valued
  BY DEF Required, Valued, ValuedByText
<1>8. /\ Meant(arguments, "--checkpoint", EmptyText) = given["--checkpoint"]
      /\ Meant(arguments, "--vocab", EmptyText) = given["--vocab"]
      /\ Meant(arguments, "--merges", EmptyText) = given["--merges"]
  BY <1>5, <1>6, <1>7
<1>9. {"--max-new-tokens", "--temperature", "--top-k", "--top-p", "--seed"} \subseteq Valued
  BY DEF Valued, ValuedByNumber, ValuedByDecimal
<1>10. \A option \in {"--no-cache", "--sample"} : Has(arguments, option) <=> option \in DOMAIN given
  BY <1>1, <1>2, GivenIsMeant
<1>11. job'.maximum = Meant(arguments, "--max-new-tokens", DefaultMaximum)
  BY <1>3, <1>5, <1>9 DEF JobOf
<1>12. job'.useCache = ~Has(arguments, "--no-cache")
  BY <1>3, <1>10 DEF JobOf, Has
<1>13. Samples <=> Has(arguments, "--sample")
  BY <1>10 DEF Samples
<1>14. SamplingAsked = Sampled(Meant(arguments, "--temperature", One), Meant(arguments, "--top-k", 0),
                               Meant(arguments, "--top-p", One), Meant(arguments, "--seed", DefaultSeed))
  BY <1>5, <1>9 DEF SamplingAsked, Temperature, TopP
<1>15. job'.weights = model /\ job'.endOfText = tokenizer.endOfText
       /\ job'.decoding = IF Samples THEN SamplingAsked ELSE Greedy
  BY <1>3 DEF JobOf
<1> QED BY <1>4, <1>8, <1>11, <1>12, <1>13, <1>14, <1>15

\* The one call of the generator that a command leads to has the assets, the
\* limits, the seed and the mode its arguments name, or their defaults.
THEOREM AlwaysGeneratesWhatIsAsked == CliSpec => GeneratesWhatIsAsked
<1>1. ASSUME CliInv, ParsedInv, [CliNext]_cliVars, phase' = "generate", phase # "generate"
      PROVE  CallGeneration
  <2>1. CliStep
    BY <1>1 DEF CliNext, cliVars
  <2> QED BY <1>1, <2>1 DEF CliStep, ShowHelp, TakeValue, TakeFlag, UnknownOption, CheckOptions,
     LoadTokenizer, LoadModel, Generate, PrintPrompt, DecodeTokens, Parsing, Fail, End
<1>2. CliInv /\ ParsedInv /\ [CliNext]_cliVars =>
        [phase' = "generate" /\ phase # "generate" =>
       /\ job'.weights \in ModelsAt(Meant(arguments, "--checkpoint", EmptyText))
       /\ tokenizer \in TokenizersAt(Meant(arguments, "--vocab", EmptyText),
                                    Meant(arguments, "--merges", EmptyText))
       /\ job'.endOfText = tokenizer.endOfText
       /\ job'.maximum = Meant(arguments, "--max-new-tokens", DefaultMaximum)
       /\ job'.useCache = ~Has(arguments, "--no-cache")
       /\ job'.decoding =
            IF Has(arguments, "--sample")
            THEN Sampled(Meant(arguments, "--temperature", One), Meant(arguments, "--top-k", 0),
                         Meant(arguments, "--top-p", One), Meant(arguments, "--seed", DefaultSeed))
            ELSE Greedy]_cliVars
  BY <1>1, CallIsMeant
<1> QED BY <1>2, CliInitInv, CliNextInv, ParsedInitInv, ParsedNextInv, PTL DEF CliSpec, GeneratesWhatIsAsked
=============================================================================
