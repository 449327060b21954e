------------------------------- MODULE Chords --------------------------------
(***************************************************************************)
(* What a user writes as a hotkey and what becomes of it: the parser and   *)
(* the printer of chord.rs, whether the platform can bind the chord, and   *)
(* the conflicts reported for it (conflict.rs) against the shortcuts the   *)
(* system lists.                                                           *)
(***************************************************************************)
EXTENDS KeyMatch

CONSTANTS MaxTokens,    \* tokens of a written chord
          Refused       \* any ChordParseError

\* The spellings of one modifier or key: parse_modifier and parse_key.
ModifierOf == [t \in {"cmd", "super", "shift", "alt", "option", "ctrl", "fn", "globe"} |->
                 CASE t = "super" -> "cmd" [] t = "option" -> "alt" [] t = "globe" -> "fn"
                   [] OTHER -> t]
KeyOf == [t \in PlainKeys \cup SideKeys \cup {"esc", "right-alt"} |->
            CASE t = "esc" -> "escape" [] t = "right-alt" -> "right-option" [] OTHER -> t]
Junk == {"f20", "hyper"}
Tokens == DOMAIN ModifierOf \cup DOMAIN KeyOf \cup Junk

\* Chord::from_str over the tokens between the plus signs.
KeyPlaces(tokens) == {i \in DOMAIN tokens : tokens[i] \notin DOMAIN ModifierOf}
ModsRead(tokens)  == {ModifierOf[tokens[i]] : i \in DOMAIN tokens \ KeyPlaces(tokens)}
KeyRead(tokens)   ==
  IF KeyPlaces(tokens) = {} THEN NoKey ELSE KeyOf[tokens[CHOOSE i \in KeyPlaces(tokens) : TRUE]]

\* No token, an unknown one, two keys, a side key that is not alone, no key at all.
IsRefused(tokens) ==
  \/ tokens = <<>>
  \/ \E i \in KeyPlaces(tokens) : tokens[i] \in Junk
  \/ \E i, j \in KeyPlaces(tokens) : i # j
  \/ KeyRead(tokens) \in SideKeys /\ ModsRead(tokens) # {}
  \/ KeyRead(tokens) = NoKey /\ ModsRead(tokens) # {"fn"}

ParseChord(tokens) ==
  IF IsRefused(tokens) THEN Refused ELSE [mods |-> ModsRead(tokens), key |-> KeyRead(tokens)]

Shown(c, m) == IF m \in c.mods THEN <<m>> ELSE <<>>

\* Mutant: the printer leaves the fn modifier out of a chord with a key.
ShowWithoutFn(c) ==
  Shown(c, "ctrl") \o Shown(c, "alt") \o Shown(c, "shift") \o Shown(c, "cmd")
    \o (IF c.key = NoKey THEN <<"fn">> ELSE <<c.key>>)
\* Display: the modifiers in the order of the enum, then the key.
ShowChord(c) ==
  Shown(c, "fn") \o Shown(c, "ctrl") \o Shown(c, "alt") \o Shown(c, "shift") \o Shown(c, "cmd")
    \o (IF c.key = NoKey THEN <<>> ELSE <<c.key>>)

-----------------------------------------------------------------------------
(* The chords macOS claims outside its list, and those on it: a shortcut of *)
(* the function row is stored with the fn bit.                              *)
StaticSystemChords == {[mods |-> {"cmd"}, key |-> "tab"], [mods |-> {"cmd", "alt"}, key |-> "escape"]}
IntrinsicFn(key) == IF key \in FunctionRow THEN {"fn"} ELSE {}
Shortcuts == [key : {"space", "tab", "f5", NoKey}, mods : SUBSET {"cmd", "shift", "fn"}, enabled : BOOLEAN]

\* Mutant: a shortcut claims a chord whose modifiers it includes.
FindConflictsLoose(c, s) ==
  IF c.key = NoKey THEN {"claimed"}
  ELSE IF s.key # NoKey /\ s.key = c.key /\ c.mods \subseteq s.mods THEN {"claimed"} ELSE {}
\* find_conflicts, of a list that holds one shortcut.
FindConflicts(c, s) ==
  IF c.key = NoKey THEN {"claimed"}                          \* the Globe key's own action
  ELSE IF c.key \notin MacKeys \cup SideKeys THEN {}
  ELSE (IF s.key # NoKey /\ s.key = c.key /\ s.mods = c.mods
        THEN {IF s.enabled THEN "claimed" ELSE "claimed but disabled"} ELSE {})
       \cup (IF c \in StaticSystemChords THEN {"claimed"} ELSE {})

\* The key-down with which a user strikes a shortcut or a chord's key on a Mac.
Striking(key, mods) == [type |-> "down", code |-> key, flags |-> mods \cup IntrinsicFn(key)]

\* The event with which a chord begins there: a change of flags when it is a modifier alone.
Struck(c) ==
  IF c.key = NoKey THEN [type |-> "flags", code |-> "fn", flags |-> {"fn"}]
  ELSE IF c.key \in SideKeys
  THEN [type |-> "flags", code |-> c.key, flags |-> {c.key, Generic[c.key]}]
  ELSE Striking(c.key, c.mods)

-----------------------------------------------------------------------------
VARIABLE written

ChordInit == written = <<>>

\* The user types one token more.
TypeToken ==
  /\ Len(written) < MaxTokens
  /\ \E t \in Tokens : written' = Append(written, t)

ChordSpec == ChordInit /\ [][TypeToken]_written

chord == ParseChord(written)

\* A chord is printed so that it is read back as itself: what the settings file is given is
\* what the next start binds.
ChordIsReadBack == chord # Refused => ParseChord(ShowChord(chord)) = chord

\* A chord that is bound can be struck: no accepted binding is a dead key (conflict.rs:3
\* "Never silently accept a dead key"; matcher.rs:66 for the function row).
BoundChordFires ==
  chord # Refused =>
    /\ MacBindable(chord) => MacFeed(chord, FALSE, Struck(chord)).edge = "down"
    /\ WinBindable(chord) =>
         WinFeed(chord, [down |-> FALSE, mods |-> chord.mods], chord.key, TRUE).edge = "down"

\* A listed shortcut reported as a conflict is one that sets the binding off.
ReportedConflictFires ==
  \A shortcut \in Shortcuts :
    (chord # Refused /\ chord.key \in MacKeys /\ chord \notin StaticSystemChords
       /\ FindConflicts(chord, shortcut) # {})
      => MacFeed(chord, FALSE, Striking(shortcut.key, shortcut.mods)).edge = "down"

\* keycode.rs:7: "a chord matched with one table and conflict-checked with another would report
\* "no conflict" for a chord that then never fires".
SharedStrikeIsReported ==
  \A shortcut \in Shortcuts :
    (chord # Refused /\ chord.key \in MacKeys /\ shortcut.key # NoKey
       /\ MacFeed(chord, FALSE, Striking(shortcut.key, shortcut.mods)).edge = "down")
      => FindConflicts(chord, shortcut) # {}

\* What the user binds is what is stored, heard and warned of.
BoundChordsFire == written # <<>> => ChordIsReadBack /\ BoundChordFires /\ ReportedConflictFires
=============================================================================
