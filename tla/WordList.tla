------------------------------ MODULE WordList ------------------------------
(***************************************************************************)
(* The user's vocabulary files (config/src/vocab.rs): the lines of a set,  *)
(* the sets merged, and a text corrected with them, first by exact rules   *)
(* and then by what sounds alike (fuzzy.rs).  A text is a sequence of      *)
(* words, each with what follows it: nothing, a comma or a line break.     *)
(***************************************************************************)
EXTENDS Naturals, Sequences, SequencesExt, FiniteSets, TLC

CONSTANTS
  MaxSaid,      \* bound: words of a text
  MaxSetLines,  \* bound: lines of a file
  MaxLetters    \* bound: letters of the spellings that are compared

VARIABLES
  sets,         \* the files of the vocabulary folder
  named,        \* vocabulary.sets
  loaded,       \* the entries of the merged vocabulary
  said,         \* the text as it was recognized
  corrected,    \* the text and the log of its corrections
  spellings     \* two spellings

wordListVars == <<sets, named, loaded, said, corrected, spellings>>

\* The words, their letters in lower case, and those that begin with a capital.
Spelled == [cube |-> <<"c", "u", "b", "e">>, cuddle |-> <<"c", "u", "d", "d", "l", "e">>,
            kubectl |-> <<"k", "u", "b", "e", "c", "t", "l">>, git |-> <<"g", "i", "t">>,
            hub |-> <<"h", "u", "b">>, github |-> <<"g", "i", "t", "h", "u", "b">>,
            system |-> <<"s", "y", "s", "t", "e", "m">>,
            systemd |-> <<"s", "y", "s", "t", "e", "m", "d">>, dee |-> <<"d", "e", "e">>,
            hug |-> <<"h", "u", "g">>]
InLower == [w \in DOMAIN Spelled |-> w] @@ [GitHub |-> "github", Cube |-> "cube", Hug |-> "hug"]
Capitalized == [w \in DOMAIN InLower |-> CASE w = "cube" -> "Cube" [] w = "hug" -> "Hug" [] OTHER -> w]
BeginsUpper(w) == w \in {"Cube", "GitHub", "Hug"}
Lowered(words) == [i \in DOMAIN words |-> InLower[words[i]]]

SmallerOf(m, n) == IF m < n THEN m ELSE n
LargerOf(m, n) == IF m > n THEN m ELSE n
-----------------------------------------------------------------------------
\* Mutant: a swap is two edits.
CellNoSwap(row, above, twoAbove, a, b) ==
  LET j == Len(row)
      cost == IF Last(a) = b[j] THEN 0 ELSE 1
  IN SmallerOf(SmallerOf(above[j + 1] + 1, row[j] + 1), above[j] + cost)
\* The next cell of a row of the matrix; a is the spelling as far as this row.
Cell(row, above, twoAbove, a, b) ==
  LET i == Len(a)
      j == Len(row)
      cost == IF a[i] = b[j] THEN 0 ELSE 1
      edited == SmallerOf(SmallerOf(above[j + 1] + 1, row[j] + 1), above[j] + cost)
  IN IF i > 1 /\ j > 1 /\ a[i] = b[j - 1] /\ a[i - 1] = b[j] THEN SmallerOf(edited, twoAbove[j - 1] + 1)
     ELSE edited
RECURSIVE RowFrom(_, _, _, _, _)
RowFrom(row, above, twoAbove, a, b) ==
  IF Len(row) > Len(b) THEN row
  ELSE RowFrom(Append(row, Cell(row, above, twoAbove, a, b)), above, twoAbove, a, b)
RECURSIVE RowsFrom(_, _, _, _, _)
RowsFrom(i, above, twoAbove, a, b) ==
  IF i > Len(a) THEN above
  ELSE RowsFrom(i + 1, RowFrom(<<i>>, above, twoAbove, SubSeq(a, 1, i), b), above, a, b)

\* edit_distance: insertions, deletions, replacements and swaps of neighbours.
EditDistance(a, b) ==
  IF a = <<>> THEN Len(b) ELSE IF b = <<>> THEN Len(a)
  ELSE RowsFrom(1, [j \in 1..Len(b) + 1 |-> j - 1], <<>>, a, b)[Len(b) + 1]

Sound == [c |-> "K", k |-> "K", g |-> "K", q |-> "K", s |-> "S", t |-> "T", d |-> "T", b |-> "P", p |-> "P",
          l |-> "L", m |-> "M", n |-> "M", r |-> "R"]
\* phonetic: runs of one sound are one; a vowel counts at the start only.
Phonetic(letters) ==
  LET SoundAt(i) == IF letters[i] \in DOMAIN Sound THEN Sound[letters[i]]
                    ELSE IF i = 1 /\ letters[i] \in {"a", "e", "i", "o", "u"} THEN "A" ELSE ""
      heard == SelectSeq([i \in DOMAIN letters |-> SoundAt(i)], LAMBDA s : s # "")
      kept == SelectSeq([i \in DOMAIN heard |-> i], LAMBDA i : i = 1 \/ heard[i] # heard[i - 1])
  IN [k \in DOMAIN kept |-> heard[kept[k]]]

Normalized(a, b, weight) ==
  LET len == LargerOf(Len(a), Len(b))
  IN IF len = 0 THEN weight ELSE (weight * (len - EditDistance(a, b))) \div len
\* similarity, in millionths.
Similarity(a, b) == Normalized(a, b, 400000) + Normalized(Phonetic(a), Phonetic(b), 600000)
FuzzyThreshold == 630000
MinFuzzyLen == 5
-----------------------------------------------------------------------------
\* A line: what stands before the arrow, what after it, and the flags.
Rule(left, right, flags) == [kind |-> "rule", left |-> left, right |-> right, flags |-> flags]
Word(w) == Rule(<<w>>, <<w>>, {})
CommentLine == [kind |-> "comment", left |-> <<>>, right |-> <<>>, flags |-> {}]
Written == {Word("kubectl"), Word("systemd"), CommentLine,
            Rule(<<"git", "hub">>, <<"GitHub">>, {"case"}), Rule(<<"github">>, <<"GitHub">>, {"case"}),
            Rule(<<"cube">>, <<"hug">>, {"strip-punct"}), Rule(<<"cube">>, <<"git", "hub">>, {}),
            Rule(<<"cube", "cuddle">>, <<"hug">>, {}), Rule(<<>>, <<"hug">>, {}),
            Rule(<<"kubectl">>, <<"cube">>, {"odd"})}

\* Vocabulary::parse: a line without both sides is a warning, an odd flag only warns.
ParseLines(lines) ==
  LET good == SelectSeq([n \in DOMAIN lines |-> n],
                        LAMBDA n : lines[n].kind = "rule" /\ lines[n].left # <<>> /\ lines[n].right # <<>>)
  IN [k \in DOMAIN good |->
       [spoken |-> lines[good[k]].left, written |-> lines[good[k]].right,
        keepsCase |-> "case" \in lines[good[k]].flags, strips |-> "strip-punct" \in lines[good[k]].flags,
        line |-> good[k]]]

SpokenForm(entry) == Lowered(entry.spoken)
BiasOnly(entry) == entry.spoken = entry.written

\* Mutant: the first set wins.
MergeFirst(entries) ==
  LET first == SelectSeq([n \in DOMAIN entries |-> n],
                         LAMBDA n : \A m \in 1..n - 1 : SpokenForm(entries[m]) # SpokenForm(entries[n]))
  IN [k \in DOMAIN first |-> entries[first[k]]]
\* merge: a later entry takes the place of an earlier one with its spoken form.
Merge(entries) ==
  LET first == SelectSeq([n \in DOMAIN entries |-> n],
                         LAMBDA n : \A m \in 1..n - 1 : SpokenForm(entries[m]) # SpokenForm(entries[n]))
      LastLike(n) == CHOOSE m \in DOMAIN entries : /\ SpokenForm(entries[m]) = SpokenForm(entries[n])
                                                   /\ \A k \in m + 1..Len(entries) : SpokenForm(entries[k]) # SpokenForm(entries[n])
  IN [k \in DOMAIN first |-> entries[LastLike(first[k])]]

\* load_sets: a name that leads out of the folder, or to no file, is passed over.
Readable(names) == SelectSeq(names, LAMBDA n : n \in DOMAIN sets)
NoEntries == <<>>
LoadSets(names) == Merge(FlattenSeq([k \in DOMAIN Readable(names) |-> ParseLines(sets[Readable(names)[k]])]))
-----------------------------------------------------------------------------
Token(w, after) == [word |-> w, after |-> after]
WordsIn(text) == [i \in DOMAIN text |-> text[i].word]
Logged(from, to, entry, kind) == [from |-> from, to |-> to, line |-> entry.line, kind |-> kind]
Result(text, log) == [text |-> text, log |-> log]

\* The spoken form stands at i, its words parted by single spaces.
MatchesAt(text, i, entry) ==
  LET hi == i + Len(entry.spoken) - 1
  IN hi <= Len(text) /\ Lowered(WordsIn(SubSeq(text, i, hi))) = SpokenForm(entry)
     /\ \A k \in i..hi - 1 : text[k].after = ""
\* match_case: a capital where the speech had one.
MatchCase(entry, first) ==
  IF ~entry.keepsCase /\ BeginsUpper(first)
  THEN [entry.written EXCEPT ![1] = Capitalized[@]] ELSE entry.written
Tokens(words, after) == [k \in DOMAIN words |-> Token(words[k], IF k = Len(words) THEN after ELSE "")]

RECURSIVE ReplaceFrom(_, _, _, _)
ReplaceFrom(text, i, entry, done) ==
  IF i > Len(text) THEN done
  ELSE IF ~MatchesAt(text, i, entry)
       THEN ReplaceFrom(text, i + 1, entry, Result(Append(done.text, text[i]), done.log))
  ELSE LET hi == i + Len(entry.spoken) - 1
           words == MatchCase(entry, text[i].word)
           after == IF entry.strips /\ text[hi].after = "," THEN "" ELSE text[hi].after
       IN ReplaceFrom(text, hi + 1, entry,
            Result(done.text \o Tokens(words, after),
                   Append(done.log, Logged(WordsIn(SubSeq(text, i, hi)), words, entry, "replacement"))))

RECURSIVE LengthOf(_)
LengthOf(words) == IF words = <<>> THEN 0 ELSE Len(Spelled[InLower[words[1]]]) + LengthOf(Tail(words)) + 1
\* Mutant: in the order of the file.
RulesInFileOrder(entries) == SelectSeq(entries, LAMBDA e : ~BiasOnly(e))
\* The rules, the longest spoken form first.
ReplacementRules(entries) ==
  LET rules == SelectSeq(entries, LAMBDA e : ~BiasOnly(e))
      Before(i, j) == \/ LengthOf(rules[i].spoken) > LengthOf(rules[j].spoken)
                      \/ LengthOf(rules[i].spoken) = LengthOf(rules[j].spoken) /\ i < j
      At(k) == CHOOSE j \in DOMAIN rules : Cardinality({i \in DOMAIN rules : Before(i, j)}) = k - 1
  IN [k \in DOMAIN rules |-> rules[At(k)]]

\* apply_replacements: each rule over what the rules before it made.
RECURSIVE ApplyRules(_, _)
ApplyRules(rules, done) ==
  IF rules = <<>> THEN done
  ELSE ApplyRules(Tail(rules), ReplaceFrom(done.text, 1, Head(rules), Result(<<>>, done.log)))
ApplyReplacements(entries, text) == ApplyRules(ReplacementRules(entries), Result(text, <<>>))
-----------------------------------------------------------------------------
Lettered(words) == FlattenSeq([i \in DOMAIN words |-> Spelled[words[i]]])
Candidates == {<<w>> : w \in DOMAIN Spelled} \cup {<<v, w>> : v \in DOMAIN Spelled, w \in DOMAIN Spelled}
Terms == {Lowered(l.left) : l \in Written} \ {<<>>}
Score == [c \in Candidates, t \in Terms |-> Similarity(Lettered(c), Lettered(t))]

NoMatch == [score |-> 0, entry |-> NoEntries]
LongEnough(words) == LengthOf(words) - 1 >= MinFuzzyLen
\* A word that begins the term is taken for the word that was said.
CleanPrefix(words, entry) == Len(words) = 1 /\ IsPrefix(Spelled[words[1]], Spelled[SpokenForm(entry)[1]])

\* The entries that a mangled term could be, with how near each sounds.
Heard(entries, words, among) ==
  {[score |-> Score[words, SpokenForm(entries[k])], at |-> k] : k \in {k \in among : LongEnough(entries[k].spoken)}}
\* The first of the nearest; none at all for a term itself.
NearestOf(entries, words, near) ==
  IF ~LongEnough(words) \/ near = {} \/ \E e \in ToSet(entries) : LongEnough(e.spoken) /\ SpokenForm(e) = words
  THEN NoMatch
  ELSE LET best == CHOOSE n \in near : \A m \in near : n.score > m.score \/ (n.score = m.score /\ n.at <= m.at)
       IN [score |-> best.score, entry |-> <<entries[best.at]>>]
Near(heard) == {n \in heard : n.score >= FuzzyThreshold}
\* Mutant: a word that begins a term is a mangled term.
BestMatchOfPrefix(entries, words) == NearestOf(entries, words, Near(Heard(entries, words, DOMAIN entries)))
\* best_match
BestMatch(entries, words) ==
  NearestOf(entries, words, Near(Heard(entries, words, {k \in DOMAIN entries : ~CleanPrefix(words, entries[k])})))

IsTerm(entries, w) == \E k \in DOMAIN entries : <<InLower[w]>> \in {SpokenForm(entries[k]), Lowered(entries[k].written)}
\* The break between lines is not kept: words are joined by one space.
Spaced(after) == IF after = "nl" THEN "" ELSE after
Carried(entry, after) == Tokens(entry.written, IF entry.strips THEN "" ELSE Spaced(after))

\* apply_fuzzy: two words together before one, when they sound as near.
PairMatch(entries, text, i) ==
  IF i < Len(text) /\ ~IsTerm(entries, text[i].word) /\ ~IsTerm(entries, text[i + 1].word)
  THEN BestMatch(entries, Lowered(<<text[i].word, text[i + 1].word>>)) ELSE NoMatch
Preferred(single, pair) ==
  IF pair # NoMatch /\ pair.score >= single.score THEN [best |-> pair, taken |-> 2] ELSE [best |-> single, taken |-> 1]
\* The words before, at i, become those of the entry.
Corrected(done, before, to, entry, after) ==
  Result(done.text \o to,
         IF WordsIn(to) = before /\ Last(to).after = after THEN done.log
         ELSE Append(done.log, Logged(before, WordsIn(to), entry, "fuzzy")))
RECURSIVE FuzzyFrom(_, _, _, _), FuzzyAt(_, _, _, _, _)
FuzzyFrom(entries, text, i, done) ==
  IF i > Len(text) THEN done
  ELSE FuzzyAt(entries, text, i, done,
               Preferred(BestMatch(entries, Lowered(<<text[i].word>>)), PairMatch(entries, text, i)))
FuzzyAt(entries, text, i, done, choice) ==
  IF choice.best = NoMatch
  THEN FuzzyFrom(entries, text, i + 1, Result(Append(done.text, Token(text[i].word, Spaced(text[i].after))), done.log))
  ELSE FuzzyFrom(entries, text, i + choice.taken,
                 Corrected(done, WordsIn(SubSeq(text, i, i + choice.taken - 1)),
                           Carried(choice.best.entry[1], text[i + choice.taken - 1].after),
                           choice.best.entry[1], Spaced(text[i].after)))
\* Mutant: what sounded alike is not in the log.
ApplyFuzzyUnlogged(entries, done) ==
  IF \A k \in DOMAIN entries : ~LongEnough(entries[k].spoken) THEN done
  ELSE [FuzzyFrom(entries, done.text, 1, Result(<<>>, done.log)) EXCEPT !.log = done.log]
ApplyFuzzy(entries, done) ==
  IF \A k \in DOMAIN entries : ~LongEnough(entries[k].spoken) THEN done
  ELSE FuzzyFrom(entries, done.text, 1, Result(<<>>, done.log))

\* Vocabulary::correct
Correct(entries, text) == ApplyFuzzy(entries, ApplyReplacements(entries, text))
-----------------------------------------------------------------------------
SaidWords == {"cube", "Cube", "cuddle", "kubectl", "git", "hub", "GitHub", "system", "dee"}
Ends == {"", ",", "nl"}
TextsOf(n) == {[i \in 1..k |-> Token(words[i], IF i = at THEN end ELSE "")] :
                k \in 1..n, words \in [1..n -> SaidWords], at \in 1..n, end \in Ends}
FewTexts == {<<Token("Cube", ""), Token("cuddle", ",")>>, <<Token("kubectl", ""), Token("cube", "nl"), Token("git", "")>>,
             <<Token("git", ""), Token("hub", ","), Token("GitHub", "")>>, <<Token("system", ""), Token("dee", "")>>}
FewSets == {[a |-> <<Word("kubectl"), Rule(<<"cube", "cuddle">>, <<"hug">>, {})>>, b |-> <<>>],
            [a |-> <<Rule(<<"cube">>, <<"hug">>, {"strip-punct"})>>, b |-> <<Rule(<<"cube", "cuddle">>, <<"hug">>, {})>>],
            [a |-> <<Word("systemd"), Rule(<<"git", "hub">>, <<"GitHub">>, {"case"})>>, b |-> <<Word("kubectl")>>]}
FilesOf(n) == UNION {[1..k -> Written] : k \in 0..n}
NamedSets == {<<"a", "b">>, <<"b", "missing", "a">>, <<"../a">>}
SpellingsOf(n) == UNION {[1..k -> {"a", "b"}] : k \in 0..n}
Uncorrected == Result(<<>>, <<>>)

\* Of interest is the folder, or the text, or how two words are spelled.
WordListInit ==
  /\ \/ sets \in [{"a", "b"} -> FilesOf(MaxSetLines)] /\ named \in NamedSets /\ said \in FewTexts /\ spellings = <<<<>>, <<>>>>
     \/ sets \in FewSets /\ named = <<"a", "b">> /\ said \in TextsOf(MaxSaid) /\ spellings = <<<<>>, <<>>>>
     \/ sets = [a |-> <<>>, b |-> <<>>] /\ named = <<>> /\ said = <<>>
        /\ spellings \in SpellingsOf(MaxLetters) \X SpellingsOf(MaxLetters)
  /\ loaded = NoEntries /\ corrected = Uncorrected

Load ==
  /\ loaded = NoEntries /\ loaded' = LoadSets(named) /\ loaded' # NoEntries
  /\ UNCHANGED <<sets, named, said, corrected, spellings>>
CorrectText ==
  /\ loaded # NoEntries /\ corrected = Uncorrected
  /\ corrected' = Correct(loaded, said)
  /\ UNCHANGED <<sets, named, loaded, said, spellings>>

WordListNext == Load \/ CorrectText
WordListSpec == WordListInit /\ [][WordListNext]_wordListVars
-----------------------------------------------------------------------------
(* vocab.rs:153: of the entries for one spoken form, in whatever case,     *)
(* there is one, and it is that of the last set that has one.              *)
LaterSetWins ==
  loaded # NoEntries =>
    /\ \A i, j \in DOMAIN loaded : SpokenForm(loaded[i]) = SpokenForm(loaded[j]) => i = j
    /\ \A n \in DOMAIN named : named[n] \in DOMAIN sets =>
         \A k \in DOMAIN ParseLines(sets[named[n]]) :
           LET mine == ParseLines(sets[named[n]])[k]
           IN (\A m \in n + 1..Len(named) : named[m] \in DOMAIN sets =>
                  \A e \in ToSet(ParseLines(sets[named[m]])) : SpokenForm(e) # SpokenForm(mine))
              /\ (\A j \in k + 1..Len(ParseLines(sets[named[n]])) : SpokenForm(ParseLines(sets[named[n]])[j]) # SpokenForm(mine))
              => mine \in ToSet(loaded)

(* vocab.rs:199: the rule with the longer spoken form wins.  Where one     *)
(* stands in the text, no shorter rule has taken one of its words.         *)
LongestWins ==
  corrected # Uncorrected =>
    \A e \in ToSet(loaded), i \in DOMAIN said :
      /\ ~BiasOnly(e) /\ MatchesAt(said, i, e)
      /\ \A f \in ToSet(loaded) \ {e} : LengthOf(f.spoken) < LengthOf(e.spoken)
      => \E k \in DOMAIN corrected.log :
           /\ corrected.log[k].kind = "replacement" /\ corrected.log[k].line = e.line
           /\ corrected.log[k].from = WordsIn(SubSeq(said, i, i + Len(e.spoken) - 1))

(* configuration.md:289: every correction is in the log, under the line    *)
(* that fired; a text without corrections keeps its words and its commas.  *)
ChangesAreLogged ==
  corrected # Uncorrected =>
    /\ corrected.log = <<>> =>
         \/ corrected.text = said
         \/ corrected.text = [i \in DOMAIN said |-> [said[i] EXCEPT !.after = Spaced(@)]]
    /\ \A k \in DOMAIN corrected.log : \E e \in ToSet(loaded) :
         /\ e.line = corrected.log[k].line
         /\ corrected.log[k].to \in {e.written, [e.written EXCEPT ![1] = Capitalized[@]]}

(* vocab.rs:74, 365: ordinary words are not made into terms.  A short      *)
(* word, one that begins a term and one that sounds like none stay, unless *)
(* together with the word beside them they sound like one.                 *)
OrdinaryWordsStay ==
  corrected # Uncorrected =>
    \A i \in DOMAIN said :
      LET w == <<InLower[said[i].word]>>
          pairs == {Lowered(WordsIn(SubSeq(said, j, j + 1))) : j \in {i - 1, i} \cap 1..Len(said) - 1}
      IN (\A e \in ToSet(loaded) :
            /\ w[1] \notin ToSet(SpokenForm(e))
            /\ \A c \in pairs : Score[c, SpokenForm(e)] < FuzzyThreshold
            /\ CleanPrefix(w, e) \/ ~LongEnough(w) \/ Score[w, SpokenForm(e)] < FuzzyThreshold)
         => \E k \in DOMAIN corrected.text : InLower[corrected.text[k].word] = w[1]

(* fuzzy.rs:10: a swap of neighbours is one edit.  The distance is nought  *)
(* for equal spellings only, one exactly for those a single edit apart,    *)
(* the same both ways, and within the lengths.                             *)
DistanceCountsEdits ==
  LET a == spellings[1]
      b == spellings[2]
      d == EditDistance(a, b)
      OneEdit(x, y) ==
        \/ \E i \in DOMAIN x : y = RemoveAt(x, i)
        \/ \E i \in DOMAIN y : x = RemoveAt(y, i)
        \/ Len(x) = Len(y) /\ Cardinality({i \in DOMAIN x : x[i] # y[i]}) = 1
        \/ \E i \in 1..Len(x) - 1 : y = [x EXCEPT ![i] = x[i + 1], ![i + 1] = x[i]]
  IN /\ (d = 0) <=> (a = b)
     /\ (d = 1) <=> (a # b /\ OneEdit(a, b))
     /\ d = EditDistance(b, a)
     /\ d <= LargerOf(Len(a), Len(b)) /\ d >= LargerOf(Len(a), Len(b)) - SmallerOf(Len(a), Len(b))

(* The test at vocab.rs:620 asks that nothing be reported when nothing     *)
(* changed.  The exact rules report a term that is already written right.  *)
OnlyChangesAreReported ==
  \A k \in DOMAIN corrected.log : corrected.log[k].from # corrected.log[k].to

(* vocab.rs:274 keeps the separators.  The words are joined by spaces, and *)
(* the line breaks of a text are gone when any term is long enough.        *)
SeparatorsStay ==
  corrected # Uncorrected /\ corrected.log = <<>> => corrected.text = said

WordListIsHonoured == LaterSetWins /\ LongestWins /\ ChangesAreLogged /\ OrdinaryWordsStay /\ DistanceCountsEdits
=============================================================================
