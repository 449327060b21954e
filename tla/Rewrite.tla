------------------------------ MODULE Rewrite ------------------------------
(***************************************************************************)
(* A phrase spoken with something selected (freeform.rs): a replacement to *)
(* be written over the selection, or an instruction about it.  And what is *)
(* made of a language model's answer to an instruction (crates/llm):       *)
(* cleaned, checked against the original, and offered as a preview.        *)
(* Words and lines are taken by their class.                               *)
(***************************************************************************)
EXTENDS Naturals, Sequences, SequencesExt, FiniteSets

CONSTANTS
  MaxPhraseWords,            \* bound: words of a phrase
  MaxAnswer,            \* bound: lines of an answer
  MaxInstructionWords,  \* 12 in the code
  MaxRatio,             \* MAX_SELECTION_TO_UTTERANCE_RATIO: 20 in the code
  MaxLengthRatio,       \* of an answer to its original: 4 in the code
  MinRetained           \* words of the original an answer must keep: 15 of 100 in the code

VARIABLES
  uttered,      \* the phrase
  selection,    \* words that are selected
  disposition,  \* what classify made of it
  raw,          \* the answer of the model, line by line
  offered       \* what transform returned

rewriteVars == <<uttered, selection, disposition, raw, offered>>

Fillers == {"um"}
MetaVerbs == {"tighten"}
AmbiguousVerbs == {"fix"}
References == {"it"}
LeadWords == {"type"}
LooseMarks == {":"}
\* "type:", as the recognizer writes a lead word with its mark.
Marked == {"type:"}
PhraseWords == Fillers \cup MetaVerbs \cup AmbiguousVerbs \cup References \cup LeadWords \cup LooseMarks \cup Marked \cup {"we"}

LesserOf(m, n) == IF m < n THEN m ELSE n
-----------------------------------------------------------------------------
\* Mutant: a lead word needs no mark.
LiteralBare(words) == IF Len(words) > 1 /\ words[1] \in LeadWords \cup Marked THEN Tail(words) ELSE <<>>
\* strip_dictation_prefix: what follows a marked lead word, or nothing.
LiteralText(words) ==
  IF Len(words) > 1 /\ words[1] \in Marked THEN Tail(words)
  ELSE IF Len(words) > 2 /\ words[1] \in LeadWords /\ words[2] \in LooseMarks THEN SubSeq(words, 3, Len(words))
  ELSE <<>>

WordsOf(words) == SelectSeq(words, LAMBDA w : w \notin LooseMarks)
\* At most three words of filler are skipped.
Significant(words) ==
  LET led == CHOOSE n \in 0..LesserOf(3, Len(words)) :
               /\ \A i \in 1..n : words[i] \in Fillers
               /\ n = LesserOf(3, Len(words)) \/ words[n + 1] \notin Fillers
  IN SubSeq(words, led + 1, Len(words))
RefersToSelection(words) == \E i \in 2..LesserOf(4, Len(words)) : words[i] \in References

\* Mutant: compared with the words that count only.
DwarfsTwice(selected, words) == selected > 2 * Len(words) * MaxRatio
Dwarfs(selected, words) == Len(words) > 0 /\ selected > Len(words) * MaxRatio

Dictate(words) == [kind |-> "dictate", text |-> words]
Request(words) == [kind |-> "rewrite", text |-> words]

\* classify
Classify(words, selected) ==
  LET significant == Significant(WordsOf(words))
      head == significant[1]
  IN IF LiteralText(words) # <<>> THEN Dictate(LiteralText(words))
     ELSE IF significant = <<>> THEN Dictate(words)
     ELSE IF \/ head \in MetaVerbs
             \/ /\ head \in AmbiguousVerbs /\ RefersToSelection(significant)
                /\ Len(WordsOf(words)) <= MaxInstructionWords
             \/ Dwarfs(selected, words)
          THEN Request(words)
     ELSE Dictate(words)
-----------------------------------------------------------------------------
Original == <<"p", "q">>
Prose == {"p", "q", "n"}
Chatter == {"", "announce", "echo"}
AnswerLines == Prose \cup Chatter \cup {"fence", "<think>", "</think>", "sorry"}

Trimmed(lines) ==
  LET text == {i \in DOMAIN lines : lines[i] # ""}
  IN IF text = {} THEN <<>>
     ELSE SubSeq(lines, CHOOSE i \in text : \A j \in text : i <= j, CHOOSE i \in text : \A j \in text : i >= j)

\* strip_thinking_blocks: from an opening to the next closing, or to the end.
Thought(lines, i) ==
  \E s \in 1..i : /\ lines[s] = "<think>"
                  /\ \A j \in s..i - 1 : lines[j] # "</think>"
StripThinkingBlocks(lines) ==
  LET kept == SelectSeq([i \in 1..Len(lines) |-> i], LAMBDA i : ~Thought(lines, i))
  IN Trimmed([k \in 1..Len(kept) |-> lines[kept[k]]])

StripPreambleLines(lines) ==
  LET said == {i \in DOMAIN lines : lines[i] \notin Chatter}
  IN IF said = {} THEN <<>> ELSE SubSeq(lines, CHOOSE i \in said : \A j \in said : i <= j, Len(lines))

\* Mutant: the first closing fence is taken for the last.
StripShortFence(lines) ==
  IF lines = <<>> \/ lines[1] # "fence" THEN lines
  ELSE SubSeq(lines, 2, Len(lines) - 2)
\* strip_code_fence: only one around the whole, without a closing one the rest.
StripCodeFence(lines) ==
  IF lines = <<>> \/ lines[1] # "fence" THEN Trimmed(lines)
  ELSE LET body == Tail(lines)
           closes == {i \in DOMAIN body : body[i] = "fence"}
           close == CHOOSE i \in closes : \A j \in closes : i >= j
       IN IF closes = {} THEN Trimmed(body)
          ELSE Trimmed(SubSeq(body, 1, close - 1)) \o Trimmed(SubSeq(body, close + 1, Len(body)))

\* Mutant: the fence is taken off before what stands before it.
SanitizeFenceFirst(lines) == Trimmed(StripPreambleLines(StripCodeFence(StripThinkingBlocks(Trimmed(lines)))))
Sanitize(lines) == Trimmed(StripCodeFence(StripPreambleLines(StripThinkingBlocks(Trimmed(lines)))))

\* How many words of the original an answer still has.
Retained(lines) == Cardinality({w \in ToSet(Original) : w \in ToSet(lines)})
\* Mutant: an unchanged answer is offered.
CheckLenient(lines) == IF lines[1] = "sorry" THEN "refusal" ELSE "none"
\* guardrail::check
Check(lines) ==
  IF lines[1] = "sorry" THEN "refusal"
  ELSE IF lines = <<"echo">> THEN "instruction echo"
  ELSE IF lines = Original THEN "no change"
  ELSE IF Len(lines) > MaxLengthRatio * Len(Original) THEN "length ratio"
  ELSE IF Retained(lines) < MinRetained THEN "excessive rewrite"
  ELSE "none"
-----------------------------------------------------------------------------
PhrasesOf(n) == UNION {[1..k -> PhraseWords] : k \in 1..n}
AnswersOf(n) == UNION {[1..k -> AnswerLines] : k \in 0..n}
NotYet == [kind |-> "none", text |-> <<>>]

\* Either the phrase is of interest or the answer is.
RewriteInit ==
  /\ \/ uttered \in PhrasesOf(MaxPhraseWords) /\ selection \in {0, 1, MaxRatio, 2 * MaxRatio + 1, MaxPhraseWords * MaxRatio + 1} /\ raw = <<>>
     \/ uttered = <<"tighten">> /\ selection = Len(Original) /\ raw \in AnswersOf(MaxAnswer)
  /\ disposition = NotYet /\ offered = NotYet

HearPhrase ==
  /\ disposition = NotYet
  /\ disposition' = Classify(uttered, selection)
  /\ UNCHANGED <<uttered, selection, raw, offered>>

\* transform; the backend itself may fail.
Transform ==
  /\ disposition.kind = "rewrite" /\ offered = NotYet
  /\ LET cleaned == Sanitize(raw)
     IN offered' \in {[kind |-> "backend error", text |-> <<>>],
                      IF cleaned = <<>> THEN [kind |-> "empty", text |-> <<>>]
                      ELSE IF Check(cleaned) # "none" THEN [kind |-> Check(cleaned), text |-> <<>>]
                      ELSE [kind |-> "preview", text |-> cleaned]}
  /\ UNCHANGED <<uttered, selection, disposition, raw>>

RewriteNext == HearPhrase \/ Transform
RewriteSpec == RewriteInit /\ [][RewriteNext]_rewriteVars
-----------------------------------------------------------------------------
(* freeform.rs:214: every refusal has a way around it.  A lead word with   *)
(* its mark, attached or not, writes what follows it, whatever that is and *)
(* however much is selected; a lead word without one is a word.            *)
EscapeAlwaysWrites ==
  disposition # NotYet =>
    \A rest \in {SubSeq(uttered, 2, Len(uttered)), SubSeq(uttered, 3, Len(uttered))} \ {<<>>} :
      /\ uttered = <<"type:">> \o rest \/ uttered = <<"type", ":">> \o rest => disposition = Dictate(rest)
      /\ uttered[1] = "type" /\ uttered = <<"type">> \o rest /\ rest[1] \notin LooseMarks /\ ~Dwarfs(selection, uttered) =>
           disposition = Dictate(uttered)

(* freeform.rs:84: a few words written over a document delete it.  Unless  *)
(* the lead word was said, or there is nothing but filler in the phrase,   *)
(* what is overwritten is within the ratio of what was said.               *)
SmallPhraseKeepsTheText ==
  disposition.kind = "dictate" =>
    \/ uttered[1] \in LeadWords \cup Marked
    \/ Significant(WordsOf(uttered)) = <<>>
    \/ selection <= Len(uttered) * MaxRatio

(* freeform.rs:306 makes one exception only, for blast radius.  A phrase   *)
(* of filler or of marks alone returns before that line, and replaces the  *)
(* whole selection.                                                        *)
BlastRadiusIsBounded ==
  disposition.kind = "dictate" /\ LiteralText(uttered) = <<>> => selection <= Len(uttered) * MaxRatio

(* sanitize.rs:10: an answer within the wrapping that models are known to  *)
(* add, thoughts before remarks before a fence, comes out as it is.        *)
WrappedAnswerComesOut ==
  offered.kind \notin {"none", "backend error"} =>
    \A lo \in 1..Len(raw) : \A hi \in lo..Len(raw) :
      LET answer == SubSeq(raw, lo, hi)
          before == SubSeq(raw, 1, lo - 1)
          after == SubSeq(raw, hi + 1, Len(raw))
          thoughts == <<"<think>", "</think>">>
          lead == IF IsPrefix(thoughts, before) THEN SubSeq(before, 3, Len(before)) ELSE before
          fenced == after = <<"fence">> /\ lead # <<>> /\ Last(lead) = "fence"
          remarks == IF fenced THEN Front(lead) ELSE lead
      IN ToSet(answer) \subseteq Prose /\ ToSet(remarks) \subseteq Chatter /\ (fenced \/ after = <<>>) =>
           \/ offered = [kind |-> "preview", text |-> answer]
           \/ offered.kind # "preview" /\ Check(answer) = offered.kind

(* guardrail.rs:3, lib.rs:14: what is offered keeps some of the original,  *)
(* differs from it, is not much longer, and holds no thought and no        *)
(* apology for an answer.                                                  *)
OfferIsSafe ==
  offered.kind = "preview" =>
    /\ offered.text # Original /\ Len(offered.text) <= MaxLengthRatio * Len(Original)
    /\ offered.text[1] # "sorry" /\ "<think>" \notin ToSet(offered.text)
    /\ Retained(offered.text) >= MinRetained

PhraseIsReadRight == EscapeAlwaysWrites /\ SmallPhraseKeepsTheText /\ WrappedAnswerComesOut /\ OfferIsSafe
=============================================================================
