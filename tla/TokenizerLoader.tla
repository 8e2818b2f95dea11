-------------------------- MODULE TokenizerLoader ---------------------------
(***************************************************************************)
(* Gpt2Tokenizer::load (src/tokenizer.cpp): from the vocabulary and the    *)
(* merges file to the three tables of a tokenizer, one action per entry    *)
(* and per line.                                                           *)
(*                                                                         *)
(* A token is a sequence of code points.  The vocabulary file is a         *)
(* sequence of entries, its JSON left out; a line of the merges file is    *)
(* the sequence of the words between its spaces, so that an empty line has *)
(* one empty word.                                                         *)
(***************************************************************************)
EXTENDS Integers, Sequences, FiniteSets

CONSTANTS
  ByteCount, Printable,  \* the bytes, and those that stand for themselves
  FirstRemapped,         \* the code point of the first of the others
  FirstOfTwo,            \* the first code point that takes two bytes in UTF-8
  Files,                 \* the pairs of files that load may be given
  EndOfText,             \* the token "<|endoftext|>"
  VersionPrefix,         \* "#version:"
  MaxVocabularySize, MaxTokenLength

Bytes == 0..(ByteCount - 1)

ASSUME AlphabetAssumption ==
  /\ ByteCount \in Nat \ {0} /\ Printable \subseteq Bytes
  /\ FirstRemapped \in Nat /\ FirstRemapped >= ByteCount
  /\ FirstOfTwo \in Nat

ASSUME FilesAssumption ==
  /\ \A files \in Files :
       /\ files.vocabulary \in Seq([token : Seq(Nat), id : Nat])
       /\ files.merges \in Seq(Seq(Seq(Nat)))
       /\ \A k \in DOMAIN files.merges : files.merges[k] # <<>>
  /\ EndOfText \in Seq(Nat) /\ VersionPrefix \in Seq(Nat)
  /\ MaxVocabularySize \in Nat /\ MaxTokenLength \in Nat

VARIABLES
  vocabularyFile, mergesFile,
  stage,        \* what is done next, or how it ended
  line,         \* the entry or the line that is read next
  tokenToId,    \* token_to_id
  idToToken,    \* id_to_token
  mergeRules    \* merge_ranks: the rank of a pair is its position

fileVars == <<vocabularyFile, mergesFile>>
tableVars == <<tokenToId, idToToken, mergeRules>>
loaderVars == <<fileVars, stage, line, tableVars>>

-----------------------------------------------------------------------------
(* make_byte_alphabet. *)

RemappedBelow(byte) == {b \in 0..(byte - 1) : b \notin Printable}

ByteToCodePoint(byte) ==
  IF byte \in Printable THEN byte ELSE FirstRemapped + Cardinality(RemappedBelow(byte))

Alphabet == {ByteToCodePoint(b) : b \in Bytes}

CodePointToByte(codePoint) == CHOOSE b \in Bytes : ByteToCodePoint(b) = codePoint

-----------------------------------------------------------------------------
LoaderInit ==
  /\ \E files \in Files :
       vocabularyFile = files.vocabulary /\ mergesFile = files.merges
  /\ stage = "vocabulary" /\ line = 1
  /\ tokenToId = [token \in {} |-> 0]
  /\ idToToken = [id \in {} |-> <<>>]
  /\ mergeRules = <<>>

RejectTables ==
  /\ stage' = "rejected"
  /\ UNCHANGED <<fileVars, line, tableVars>>

Vocabulary == DOMAIN tokenToId

\* The bytes of a token over the alphabet, whose code points take one or two.
TokenSize(token) == Len(token) + Cardinality({k \in DOMAIN token : token[k] >= FirstOfTwo})

\* require_alphabet_token.
IsAlphabetToken(token) ==
  /\ TokenSize(token) \in 1..MaxTokenLength
  /\ \A k \in DOMAIN token : token[k] \in Alphabet

\* parse_vocabulary.
GoodEntry(entry) ==
  /\ IsAlphabetToken(entry.token)
  /\ entry.id < MaxVocabularySize
  /\ entry.token \notin Vocabulary
  /\ Cardinality(Vocabulary) < MaxVocabularySize

ReadEntry ==
  /\ stage = "vocabulary" /\ line <= Len(vocabularyFile)
  /\ LET entry == vocabularyFile[line]
     IN IF GoodEntry(entry)
        THEN /\ tokenToId' = [token \in Vocabulary \cup {entry.token} |->
                               IF token = entry.token THEN entry.id ELSE tokenToId[token]]
             /\ line' = line + 1
             /\ UNCHANGED <<fileVars, stage, idToToken, mergeRules>>
        ELSE RejectTables

\* build_id_to_token and require_complete_alphabet.
IdsAreDense ==
  /\ \A token \in Vocabulary : tokenToId[token] < Cardinality(Vocabulary)
  /\ \A s, t \in Vocabulary : tokenToId[s] = tokenToId[t] => s = t

\* A loop that stops before the last byte.
AlphabetIsAlmostComplete == \A b \in 0..(ByteCount - 2) : <<ByteToCodePoint(b)>> \in Vocabulary
AlphabetIsComplete == \A b \in Bytes : <<ByteToCodePoint(b)>> \in Vocabulary

IndexVocabulary ==
  /\ stage = "vocabulary" /\ line > Len(vocabularyFile)
  /\ IF Vocabulary # {} /\ IdsAreDense /\ AlphabetIsComplete
     THEN /\ idToToken' = [id \in 0..(Cardinality(Vocabulary) - 1) |->
                            CHOOSE token \in Vocabulary : tokenToId[token] = id]
          /\ stage' = "merges" /\ line' = 1
          /\ UNCHANGED <<fileVars, tokenToId, mergeRules>>
     ELSE RejectTables

\* parse_merges.
IsBlank(words) == words = << <<>> >>

\* "A blanket 'drop the first line' rule" (docs/tokenizer.md).
IsFirstLine(number, words) == number = 1
IsVersionHeader(number, words) ==
  /\ number = 1
  /\ Len(words[1]) >= Len(VersionPrefix)
  /\ SubSeq(words[1], 1, Len(VersionPrefix)) = VersionPrefix

GoodRule(words) ==
  /\ Len(words) = 2
  /\ IsAlphabetToken(words[1]) /\ IsAlphabetToken(words[2])
  /\ {words[1], words[2], words[1] \o words[2]} \subseteq Vocabulary
  /\ \A rank \in DOMAIN mergeRules : mergeRules[rank] # words

ReadLine ==
  /\ stage = "merges" /\ line <= Len(mergesFile)
  /\ LET words == mergesFile[line]
         skipped == IsBlank(words) \/ IsVersionHeader(line, words)
     IN IF skipped \/ GoodRule(words)
        THEN /\ mergeRules' = IF skipped THEN mergeRules ELSE Append(mergeRules, words)
             /\ line' = line + 1
             /\ UNCHANGED <<fileVars, stage, tokenToId, idToToken>>
        ELSE RejectTables

FinishLoad ==
  /\ stage = "merges" /\ line > Len(mergesFile)
  /\ IF mergeRules # <<>> /\ EndOfText \in Vocabulary
     THEN /\ stage' = "loaded"
          /\ UNCHANGED <<fileVars, line, tableVars>>
     ELSE RejectTables

LoadStep == ReadEntry \/ IndexVocabulary \/ ReadLine \/ FinishLoad

-----------------------------------------------------------------------------
(* What docs/tokenizer.md, "What the loader validates", asks of the files. *)

TokensOfFile == {vocabularyFile[k].token : k \in DOMAIN vocabularyFile}

GoodVocabularyFile ==
  /\ Len(vocabularyFile) \in 1..MaxVocabularySize
  /\ Cardinality(TokensOfFile) = Len(vocabularyFile)
  /\ {vocabularyFile[k].id : k \in DOMAIN vocabularyFile} = 0..(Len(vocabularyFile) - 1)
  /\ \A token \in TokensOfFile :
       TokenSize(token) \in 1..MaxTokenLength /\ {token[k] : k \in DOMAIN token} \subseteq Alphabet
  /\ {<<c>> : c \in Alphabet} \subseteq TokensOfFile
  /\ EndOfText \in TokensOfFile

\* The lines that are rules, or should be.
RuleLines ==
  {k \in DOMAIN mergesFile :
    /\ mergesFile[k] # << <<>> >>
    /\ k = 1 => \A n \in 0..Len(mergesFile[1][1]) : SubSeq(mergesFile[1][1], 1, n) # VersionPrefix}

GoodMergesFile ==
  /\ RuleLines # {}
  /\ \A k \in RuleLines :
       \E left, right \in TokensOfFile :
         mergesFile[k] = <<left, right>> /\ left \o right \in TokensOfFile
  /\ \A j, k \in RuleLines : mergesFile[j] = mergesFile[k] => j = k

RulesOfFile == {mergesFile[k] : k \in RuleLines}
=============================================================================
