----------------------------- MODULE EditIntent -----------------------------
EXTENDS Naturals, Sequences, SequencesExt, FiniteSets, FiniteSetsExt

(* crates/edit-intent: parse of lib.rs and parse.rs, the words of a spoken   *)
(* edit to what it asks for. A phrase is a sequence of words, already lower  *)
(* case and without punctuation; a name of several words ("title case") is   *)
(* one word here, and one word stands for those that mean the same.          *)

CONSTANTS
  Vocabulary,  \* the words a behaviour may say
  Common,      \* those it may say in longer phrases
  MaxWords,    \* bound: words of a phrase
  MaxCommon    \* bound: words of a phrase of common words

Ordinals == [first |-> 1, second |-> 2, last |-> 0, this |-> 0]
Units == {"sentence", "word", "line", "letter"}
Marks == {"comma", "period"}
Mentions(ws, names) == \E i \in DOMAIN ws : ws[i] \in names
From(ws, i) == SubSeq(ws, i, Len(ws))
StartsWithAny(ws, names) == ws # <<>> /\ ws[1] \in names

Whole == [which |-> 0, unit |-> "everything", used |-> 0]
NoScope == [which |-> 0, unit |-> "none", used |-> 0]
Pass == [kind |-> "pass"]
Refuse == [kind |-> "refuse"]
\* Which rule says what.
Asks(kind, scope) == [kind |-> kind, scope |-> [which |-> scope.which, unit |-> scope.unit]]
AsksAll(kind) == Asks(kind, Whole)

\* leading_scope: the first sentence, last word.
LeadingScope(ws) ==
  LET rest == IF StartsWithAny(ws, {"the"}) THEN Tail(ws) ELSE ws
  IN IF Len(rest) >= 2 /\ rest[1] \in DOMAIN Ordinals /\ rest[2] \in Units
     THEN [which |-> Ordinals[rest[1]], unit |-> rest[2], used |-> Len(ws) - Len(rest) + 2]
     ELSE NoScope

\* Mutant: of two scopes the first.
OnlyFirstScope(ws) ==
  IF \E i \in 1..Len(ws) : LeadingScope(From(ws, i)) # NoScope
  THEN LeadingScope(From(ws, CHOOSE i \in 1..Len(ws) : LeadingScope(From(ws, i)) # NoScope))
  ELSE NoScope

\* only_scope: two scopes are none. "The first word" is met at "the", and its
\* words are not looked at again.
OnlyScope(ws) ==
  LET at == {i \in 1..Len(ws) : /\ LeadingScope(From(ws, i)) # NoScope
                                /\ ~(i > 1 /\ ws[i - 1] = "the" /\ ws[i] # "the")}
  IN IF Cardinality(at) = 1 THEN LeadingScope(From(ws, CHOOSE i \in at : TRUE)) ELSE NoScope

\* Mutant: a unit is needed next to its position.
MentionsAdjacent(ws) ==
  \E i \in 1..(Len(ws) - 2) : ws[i] \in {"first", "second", "last"} /\ ws[i + 1] \in Units

\* mentions_unconsumed_scope: a position and a unit, anywhere.
MentionsUnconsumedScope(ws) == Mentions(ws, {"first", "second", "last"}) /\ Mentions(ws, Units)

\* only_mark.
OnlyMark(ws) == IF Cardinality(Marks \intersect ToSet(ws)) = 1 THEN CHOOSE m \in Marks : m \in ToSet(ws) ELSE "none"
-----------------------------------------------------------------------------
Undos == {<<"undo">>, <<"undo", "this">>, <<"scratch", "this">>}
ParseUndo(ws) == IF ws \in Undos THEN AsksAll("undo") ELSE Pass

DeleteHeads == {"delete", "remove"}
ParseDeleteUnit(ws) ==
  IF ~StartsWithAny(ws, DeleteHeads) \/ Len(ws) = 1 THEN Pass
  ELSE LET scope == LeadingScope(Tail(ws))
       IN IF scope # NoScope THEN IF scope.used = Len(ws) - 1 THEN Asks("delete unit", scope) ELSE Refuse
          ELSE IF Tail(ws) = <<"everything">> THEN AsksAll("delete all") ELSE Pass

ParsePunctuation(ws) ==
  IF ~StartsWithAny(ws, {"add", "put"}) \/ OnlyMark(ws) = "none" THEN Pass
  ELSE IF Mentions(ws, {"before"}) THEN Refuse
  ELSE IF Mentions(ws, {"after"})
  THEN LET at == CHOOSE i \in 1..Len(ws) : ws[i] = "after" /\ \A j \in 1..(i - 1) : ws[j] # "after"
           named == From(ws, at + 1)
           anchor == IF StartsWithAny(named, {"the"}) THEN Tail(named) ELSE named
       IN IF anchor = <<>> \/ MentionsUnconsumedScope(anchor) THEN Refuse ELSE AsksAll("punctuate after")
  ELSE IF MentionsUnconsumedScope(ws) THEN Refuse ELSE AsksAll("punctuate end")

\* The words after the position name the mark, and more if there are more.
ParseDeleteMark(ws) ==
  IF ~StartsWithAny(ws, DeleteHeads) THEN Pass
  ELSE LET rest == IF StartsWithAny(Tail(ws), {"the"}) THEN Tail(Tail(ws)) ELSE Tail(ws)
       IN IF rest # <<>> /\ rest[1] \in DOMAIN Ordinals /\ OnlyMark(Tail(rest)) # "none"
          THEN AsksAll("delete mark") ELSE Pass

ParseWrap(ws) ==
  IF ~StartsWithAny(ws, {"wrap", "put"}) \/ ~Mentions(Tail(ws), {"in"}) THEN Pass
  ELSE IF MentionsUnconsumedScope(ws) THEN Refuse
  ELSE IF Mentions(ws, {"quotes"}) THEN AsksAll("wrap") ELSE Pass

ParseIdentifierCase(ws) ==
  IF ~Mentions(ws, {"snake case"}) THEN Pass
  ELSE IF MentionsUnconsumedScope(ws) THEN Refuse ELSE AsksAll("identifier")

\* A number of items said is not honoured, so nothing but joining is done.
ParseListOp(ws) ==
  IF Mentions(ws, {"join"}) /\ Mentions(ws, {"line"}) THEN AsksAll("list")
  ELSE IF ~Mentions(ws, {"two"}) /\ Mentions(ws, {"bullet"}) THEN AsksAll("list") ELSE Pass

\* Capitalizing is of a word or a letter.
ParseScopedRecase(ws) ==
  LET scope == OnlyScope(ws)
  IN IF scope = NoScope THEN IF MentionsUnconsumedScope(ws) THEN Refuse ELSE Pass
     ELSE IF Mentions(ws, {"uppercase"}) \/ (Mentions(ws, {"capitalize"}) /\ scope.unit \in {"word", "letter"})
     THEN Asks("recase unit", scope) ELSE Refuse

UnresolvedMark(ws) ==
  IF StartsWithAny(ws, DeleteHeads \cup {"add", "put", "change"}) /\ Mentions(ws, Marks) THEN Refuse ELSE Pass

OrdinalOccurrence(ws) ==
  IF StartsWithAny(ws, DeleteHeads \cup {"change", "capitalize"}) /\ Len(ws) >= 3 /\ ws[2] = "the"
     /\ ws[3] \in {"first", "second", "last"} THEN Refuse ELSE Pass

\* The order is part of the grammar.
Rules(ws) ==
  <<ParseDeleteUnit(ws), ParsePunctuation(ws), ParseDeleteMark(ws), ParseWrap(ws), ParseIdentifierCase(ws),
    ParseListOp(ws), ParseScopedRecase(ws), UnresolvedMark(ws), OrdinalOccurrence(ws)>>

First(decisions) ==
  IF \A i \in DOMAIN decisions : decisions[i] = Pass THEN Pass
  ELSE decisions[CHOOSE i \in DOMAIN decisions : decisions[i] # Pass /\ \A j \in 1..(i - 1) : decisions[j] = Pass]

\* parse of lib.rs, for what the rules leave: the literal verbs. Everything else
\* is prose.
Joined(ws) == \E i \in 3..(Len(ws) - 1) : ws[i] = "to"
Literal(ws) ==
  IF StartsWithAny(ws, {"change"}) /\ Joined(ws) THEN AsksAll("replace")
  ELSE IF StartsWithAny(ws, DeleteHeads \cup {"scratch"}) /\ Len(ws) > 1 THEN AsksAll("delete text")
  ELSE IF StartsWithAny(ws, {"add"}) /\ Len(ws) > 1 THEN AsksAll("append")
  ELSE IF Mentions(ws, {"uppercase"}) THEN AsksAll("recase")
  ELSE [kind |-> "prose"]

Resolved(ws, decision) == IF decision = Pass THEN Literal(ws) ELSE decision
Plain(ws) == Resolved(ws, IF ParseUndo(ws) # Pass THEN ParseUndo(ws) ELSE First(Rules(ws)))

\* parse_scoped_prefix: what follows "in the first sentence" is parsed by
\* itself, and neither prose nor another scope may follow. A phrase that begins
\* with a scope of its own is one or the other.
ScopedPrefix(ws) ==
  IF ~StartsWithAny(ws, {"in"}) \/ LeadingScope(Tail(ws)) = NoScope THEN Pass
  ELSE LET scope == LeadingScope(Tail(ws))
           tail == From(ws, scope.used + 2)
           again == StartsWithAny(tail, {"in"}) /\ LeadingScope(Tail(tail)) # NoScope
       IN IF tail = <<>> \/ again \/ Plain(tail).kind \in {"prose", "refuse", "recase unit"} THEN Refuse
          ELSE Asks("scoped " \o Plain(tail).kind, scope)

Parse(ws) == IF ParseUndo(ws) = Pass /\ ScopedPrefix(ws) # Pass THEN ScopedPrefix(ws) ELSE Plain(ws)
-----------------------------------------------------------------------------
VARIABLE phrase
PhraseInit == phrase = <<>>
Hear(word) ==
  /\ Len(phrase) < MaxWords \/ (Len(phrase) < MaxCommon /\ ToSet(phrase) \cup {word} \subseteq Common)
  /\ phrase' = Append(phrase, word)
PhraseNext == \E word \in Vocabulary : Hear(word)
PhraseSpec == PhraseInit /\ [][PhraseNext]_phrase
-----------------------------------------------------------------------------
Positions == {"first", "second", "last"}
\* What changes everything it is applied to.
Sweeping == {"punctuate end", "wrap", "identifier", "recase", "delete all"}

\* A phrase that names a position and a unit is never carried out on the whole
\* text by a verb that rewrites it: it is scoped or refused.
ScopeIsNotDropped ==
  Mentions(phrase, Positions) /\ Mentions(phrase, Units) => Parse(phrase).kind \notin Sweeping

\* A scope that is carried out is the one the phrase names, and there is no
\* second one in it that is ignored.
ScopeIsTheNamedOne ==
  LET asked == Parse(phrase)
  IN asked.kind \in {"recase unit", "delete unit"} =>
       /\ \E i \in 1..(Len(phrase) - 1) : /\ phrase[i] \in DOMAIN Ordinals /\ Ordinals[phrase[i]] = asked.scope.which
                                          /\ phrase[i + 1] = asked.scope.unit
       /\ Cardinality({i \in 1..(Len(phrase) - 1) : phrase[i] \in DOMAIN Ordinals /\ phrase[i + 1] \in Units}) = 1

\* Refuted: "honouring the verb while ignoring the scope is exactly the failure"
\* (parse.rs:141): making a list and deleting a mark ignore it.
ScopeIsHonoured ==
  Mentions(phrase, Positions) /\ Mentions(phrase, Units) => Parse(phrase).kind \notin Sweeping \cup {"list"}

\* The scope a phrase names is the scope of its edit.
ScopeIsKept == phrase # <<>> => ScopeIsNotDropped /\ ScopeIsTheNamedOne

-----------------------------------------------------------------------------
(* crates/edit-intent: apply of lib.rs, apply.rs and segment.rs, what a      *)
(* spoken edit does to a text. A text is a sequence of characters: letters   *)
(* of either case, full stops and commas, spaces and ends of lines. Letters  *)
(* that change length with their case are left out.                          *)

CONSTANTS
  Alphabet,       \* the characters a behaviour types
  MaxText,        \* bound: characters of a text
  Abbreviations,  \* words whose full stop ends no sentence
  NoEditMade      \* the intent does not apply to the text

Space == {" ", "nl"}
Signs == {".", ","}
Lower(c) == IF c = "A" THEN "a" ELSE c
Fold(s) == [i \in DOMAIN s |-> Lower(s[i])]
Blank(s) == ToSet(s) \subseteq Space
TrimHead(s, chars) ==
  IF ToSet(s) \subseteq chars THEN <<>> ELSE SubSeq(s, Min({i \in DOMAIN s : s[i] \notin chars}), Len(s))
TrimTail(s, chars) ==
  IF ToSet(s) \subseteq chars THEN <<>> ELSE SubSeq(s, 1, Max({i \in DOMAIN s : s[i] \notin chars}))
Trim(s) == TrimTail(TrimHead(s, Space), Space)
Part(s, span) == SubSeq(s, span[1], span[2])
InOrder(spans) == SetToSortSeq(spans, LAMBDA x, y : x[1] < y[1])
-----------------------------------------------------------------------------
(* segment.rs: spans are pairs of a first and a last position. *)
WordSpans(s) ==
  InOrder({<<i, j>> \in (1..Len(s)) \X (1..Len(s)) :
             /\ i <= j /\ \A k \in i..j : s[k] \notin Space
             /\ i = 1 \/ s[i - 1] \in Space
             /\ j = Len(s) \/ s[j + 1] \in Space})

\* period_is_part_of_a_word: an initial, or an abbreviation.
PartOfWord(s, dot) ==
  \E i \in 1..(dot - 1) :
    LET word == SubSeq(s, i, dot - 1)
    IN /\ i = 1 \/ s[i - 1] \in Space
       /\ ToSet(word) \intersect Space = {}
       /\ IF Len(word) = 1 THEN word = <<"A">> ELSE Fold(word) \in Abbreviations

\* Mutant: any full stop ends a sentence.
EndsAtAnyStop(s, i) == s[i] = "." /\ (i = Len(s) \/ s[i + 1] \in Space)

EndsSentence(s, i) == s[i] = "." /\ (i = Len(s) \/ s[i + 1] \in Space) /\ ~PartOfWord(s, i)

\* sentence_spans, without the blanks in front of each.
SentenceSpans(s) ==
  LET ends == {i \in DOMAIN s : EndsSentence(s, i)} \cup {Len(s)}
      start(e) == LET before == {i \in ends : i < e} IN IF before = {} THEN 1 ELSE Max(before) + 1
      spans == {<<start(e), e>> : e \in ends}
  IN InOrder({<<p[2] - Len(TrimHead(Part(s, p), Space)) + 1, p[2]>> :
                p \in {q \in spans : ~Blank(Part(s, q))}})

\* line_spans: a text of one line has none.
LineSpans(s) ==
  IF "nl" \notin ToSet(s) THEN <<>>
  ELSE InOrder({p \in (1..(Len(s) + 1)) \X (0..Len(s)) :
                 /\ p[1] <= p[2] /\ "nl" \notin ToSet(Part(s, p)) /\ ~Blank(Part(s, p))
                 /\ p[1] = 1 \/ s[p[1] - 1] = "nl"
                 /\ p[2] = Len(s) \/ s[p[2] + 1] = "nl"})

\* resolve: the nth unit, 0 for the last. A letter is the first of its word.
Resolve(s, which, unit) ==
  LET spans == CASE unit = "sentence" -> SentenceSpans(s)
                 [] unit = "line" -> LineSpans(s)
                 [] OTHER -> WordSpans(s)
      n == IF which = 0 THEN Len(spans) ELSE which
  IN IF n \notin DOMAIN spans THEN <<>>
     ELSE IF unit = "letter" THEN <<spans[n][1], spans[n][1]>> ELSE spans[n]

\* Mutant: deleting starts from the front of the line the unit is in.
SpliceFromStart(s, span) == SubSeq(s, span[2] + 1, Len(s))

\* Mutant: what is left is put together as it is.
SpliceRaw(s, span) == SubSeq(s, 1, span[1] - 1) \o SubSeq(s, span[2] + 1, Len(s))

\* splice_out: the spaces at the cut become one, or none before a sign or at the
\* end of a line.
SpliceOut(s, span) ==
  LET head == SubSeq(s, 1, span[1] - 1)
      tail == SubSeq(s, span[2] + 1, Len(s))
      left == TrimTail(head, {" "})
      right == TrimHead(tail, {" "})
  IN IF Blank(head) THEN TrimHead(tail, Space)
     ELSE IF Blank(tail) THEN TrimTail(head, Space)
     ELSE left \o (IF Last(left) = "nl" \/ Head(right) \in Signs \cup {"nl"} THEN <<>> ELSE <<" ">>) \o right
-----------------------------------------------------------------------------
(* apply.rs and lib.rs. *)
DeleteUnit(s, which, unit) ==
  LET span == Resolve(s, which, unit) IN IF span = <<>> THEN NoEditMade ELSE SpliceOut(s, span)

\* Mutant: the mark follows what is there.
PunctuateAgain(s, mark) == IF Blank(s) THEN NoEditMade ELSE Append(TrimTail(s, Space), mark)

\* punctuate at the end: whatever signs are there make way.
PunctuateEnd(s, mark) ==
  LET head == TrimTail(TrimTail(s, Space), Signs) IN IF head = <<>> THEN NoEditMade ELSE Append(head, mark)

Wrap(s, sign) ==
  LET t == Trim(s)
  IN IF t = <<>> \/ (t[1] = sign /\ Last(t) = sign) THEN NoEditMade ELSE <<sign>> \o t \o <<sign>>

\* Mutant: a match may begin within the one before.
TakenOverlapping(s, needle) ==
  {i \in 1..Len(s) : i + Len(needle) - 1 <= Len(s) /\ Fold(SubSeq(s, i, i + Len(needle) - 1)) = Fold(needle)}

\* replace_case_insensitive, with NoEditMade when the needle is nowhere: from the left,
\* and no match within one that has been taken.
Taken(s, needle) ==
  LET here(i) == i + Len(needle) - 1 <= Len(s) /\ Fold(SubSeq(s, i, i + Len(needle) - 1)) = Fold(needle)
      taken[i \in 1..Len(s)] == here(i) /\ \A j \in 1..(i - 1) : j + Len(needle) > i => ~taken[j]
  IN {i \in 1..Len(s) : taken[i]}
Replace(s, needle, with) ==
  LET at == Taken(s, needle)
      piece(i) == IF i \in at THEN with
                  ELSE IF \E j \in at : j < i /\ i < j + Len(needle) THEN <<>> ELSE <<s[i]>>
  IN IF at = {} \/ needle = <<>> THEN NoEditMade ELSE FlattenSeq([i \in DOMAIN s |-> piece(i)])

\* collapse_spaces, after a deletion: over the whole text.
Collapse(s) ==
  LET kept == {i \in DOMAIN s : s[i] # " " \/ i = 1 \/ s[i - 1] # " "}
      once == [k \in 1..Cardinality(kept) |-> s[InOrder({<<i, i>> : i \in kept})[k][1]]]
      drop == {i \in DOMAIN once : once[i] = " " /\ i < Len(once) /\ once[i + 1] \in Signs}
  IN Trim(FlattenSeq([i \in DOMAIN once |-> IF i \in drop THEN <<>> ELSE <<once[i]>>]))
DeleteText(s, needle) ==
  LET left == Replace(s, needle, <<>>) IN IF left = NoEditMade THEN NoEditMade ELSE Collapse(left)

\* list_units: the lines, or the sentences of a single line.
ListUnits(s) ==
  LET spans == IF "nl" \in ToSet(s) THEN LineSpans(s) ELSE SentenceSpans(s)
  IN [i \in DOMAIN spans |-> Trim(Part(s, spans[i]))]

\* Mutant: the first unit is taken for the separator's.
JoinedBare(units, sign) ==
  FlattenSeq([i \in DOMAIN units |-> IF i <= 2 THEN units[i] ELSE <<sign>> \o units[i]])

JoinedBy(units, sign) ==
  FlattenSeq([i \in DOMAIN units |-> IF i = 1 THEN units[i] ELSE <<sign>> \o units[i]])
SplitSentences(s) == IF Len(ListUnits(s)) < 2 THEN NoEditMade ELSE JoinedBy(ListUnits(s), "nl")
JoinLines(s) == IF "nl" \notin ToSet(s) THEN NoEditMade ELSE JoinedBy(ListUnits(s), " ")
-----------------------------------------------------------------------------
VARIABLE typed
TextInit == typed = <<>>
Type(c) == Len(typed) < MaxText /\ typed' = Append(typed, c)
TextNext == \E c \in Alphabet : Type(c)
TextSpec == TextInit /\ [][TextNext]_typed
-----------------------------------------------------------------------------
Words(s) == [i \in DOMAIN WordSpans(s) |-> Part(s, WordSpans(s)[i])]
Solid(s) == SelectSeq(s, LAMBDA c : c \notin Space)

\* The sentences of a text hold all of it but blanks, in order and none twice;
\* and none ends within a word.
SentencesArePartition ==
  LET spans == SentenceSpans(typed)
  IN /\ FlattenSeq([i \in DOMAIN spans |-> Solid(Part(typed, spans[i]))]) = Solid(typed)
     /\ \A i \in DOMAIN spans :
          /\ i > 1 => spans[i - 1][2] < spans[i][1]
          /\ spans[i][2] < Len(typed) => /\ typed[spans[i][2] + 1] \in Space
                                         /\ ~PartOfWord(typed, spans[i][2])

\* Deleting a word leaves the other words, in order, and joins two of them only
\* where the second begins with a sign; no end of line is lost between them, one
\* space is left on a line, and everything further away is as it was.
DeletionIsLocal ==
  \A n \in DOMAIN WordSpans(typed) :
    LET left == DeleteUnit(typed, n, "word")
        all == Words(typed)
        rest == RemoveAt(all, n)
        joins == n > 1 /\ n < Len(all) /\ all[n + 1][1] \in Signs
                 /\ "nl" \notin ToSet(SubSeq(typed, WordSpans(typed)[n - 1][2], WordSpans(typed)[n + 1][1]))
    IN /\ joins \/ Words(left) = rest
       /\ Solid(left) = FlattenSeq(rest)
       /\ n \in 2..(Len(all) - 1) =>
            LET before == SubSeq(typed, 1, WordSpans(typed)[n - 1][2])
                after == SubSeq(typed, WordSpans(typed)[n + 1][1], Len(typed))
                gap == SubSeq(left, Len(before) + 1, Len(left) - Len(after))
                lines(s) == Cardinality({i \in DOMAIN s : s[i] = "nl"})
            IN /\ left = before \o gap \o after
               /\ lines(left) = lines(typed)
               /\ lines(gap) = 0 /\ ~joins => gap = <<" ">>

\* Deleting a sentence, a line or a letter takes its characters and no others.
UnitsAreDeleted ==
  \A unit \in {"sentence", "line", "letter", "word"}, which \in 0..2 :
    LET span == Resolve(typed, which, unit)
    IN span # <<>> => Solid(DeleteUnit(typed, which, unit)) = Solid(SpliceRaw(typed, span))

\* What was split into lines joins to the words it was made of, and splitting
\* once more changes nothing.
SplitAndJoin ==
  LET lines == SplitSentences(typed)
  IN lines # NoEditMade => /\ JoinLines(lines) # NoEditMade
                           /\ Words(JoinLines(lines)) = Words(typed)
                           /\ SplitSentences(lines) = lines

\* Replacing a word takes every match, in any case, and none twice: none is left,
\* and each made the text shorter by the same. Deleting it takes nothing else.
ReplaceIsComplete ==
  \A needle \in {<<"a">>, <<"a", "a">>, <<"A", " ">>} :
    LET after == Replace(typed, needle, <<",">>)
    IN after # NoEditMade =>
         /\ Solid(DeleteText(typed, needle)) = Solid(Replace(typed, needle, <<>>))
         /\ Taken(after, needle) = {}
         /\ Len(after) = Len(typed) - (Len(needle) - 1) * Cardinality({i \in DOMAIN after : after[i] = ","})

\* An edit said twice is made once: a mark at the end, a pair of signs around.
RepeatedEditsSettle ==
  LET marked == PunctuateEnd(typed, ".")  wrapped == Wrap(typed, ",")
  IN /\ marked # NoEditMade => PunctuateEnd(marked, ".") = marked
     /\ wrapped # NoEditMade => Wrap(wrapped, ",") = NoEditMade

\* Refuted: "an unrequested edit outside the requested span" (segment.rs:169) is
\* not made: deleting words closes doubled spaces anywhere in the text.
WordsDeletedLocally ==
  \A i \in DOMAIN typed :
    typed[i] = "a" /\ Cardinality({j \in DOMAIN typed : Lower(typed[j]) = "a"}) = 1
      => DeleteText(typed, <<"a">>) = SpliceOut(typed, <<i, i>>)

\* An edit changes what it names, all of it, and nothing else.
EditsAreExact ==
  typed # <<>> => /\ SentencesArePartition /\ DeletionIsLocal /\ UnitsAreDeleted
                  /\ SplitAndJoin /\ ReplaceIsComplete /\ RepeatedEditsSettle
=============================================================================
