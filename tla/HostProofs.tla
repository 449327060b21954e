----------------------------- MODULE HostProofs -----------------------------
(***************************************************************************)
(* Theorems about five parts around the supervisor: the undo ring          *)
(* (UndoRing), the menu (Menu), the spoken commands (AppCommand), the      *)
(* settings file (ConfigFile) and its layers (ConfigLayers). They share no *)
(* state and no argument.                                                  *)
(***************************************************************************)
EXTENDS UndoRing, Menu, AppCommand, ConfigFile, ConfigLayers,
        SequenceTheorems, FiniteSetTheorems, WellFoundedInduction, TLAPS

-----------------------------------------------------------------------------
(* The undo ring: what an insertion leaves in a field.                      *)

\* The length and the pieces of a field after an insertion.
LEMMA InsertedIs ==
  ASSUME NEW f \in Seq(Piece), NEW caret \in 0..Len(f), NEW pieces \in Seq(Piece)
  PROVE  /\ Inserted(f, caret, pieces) \in Seq(Piece)
         /\ Len(Inserted(f, caret, pieces)) = Len(f) + Len(pieces)
         /\ \A i \in 1..caret : Inserted(f, caret, pieces)[i] = f[i]
         /\ \A i \in 1..Len(pieces) : Inserted(f, caret, pieces)[caret + i] = pieces[i]
         /\ \A i \in caret + 1..Len(f) : Inserted(f, caret, pieces)[i + Len(pieces)] = f[i]
<1> DEFINE front == SubSeq(f, 1, caret)
           back == SubSeq(f, caret + 1, Len(f))
           both == front \o pieces
<1>1. front \in Seq(Piece) /\ Len(front) = caret /\ \A i \in 1..caret : front[i] = f[i]
  BY SubSeqProperties
<1>2. back \in Seq(Piece) /\ Len(back) = Len(f) - caret /\ \A i \in 1..(Len(f) - caret) : back[i] = f[caret + i]
  BY SubSeqProperties
<1>3. Inserted(f, caret, pieces) = both \o back
  BY DEF Inserted
<1> HIDE DEF front, back
<1>4. /\ both \in Seq(Piece) /\ Len(both) = caret + Len(pieces)
      /\ \A i \in 1..caret : both[i] = f[i]
      /\ \A i \in 1..Len(pieces) : both[caret + i] = pieces[i]
  <2>1. front \in Seq(Piece)
    BY <1>1
  <2>2. /\ both \in Seq(Piece) /\ Len(both) = Len(front) + Len(pieces)
        /\ \A i \in 1..(Len(front) + Len(pieces)) : both[i] = IF i <= Len(front) THEN front[i] ELSE pieces[i - Len(front)]
    BY <2>1, ConcatProperties, Zenon
  <2> HIDE DEF both
  <2>3. Len(pieces) \in Nat /\ caret \in Nat
    OBVIOUS
  <2> QED
    BY <1>1, <2>2, <2>3
<1> HIDE DEF both
<1>5. /\ both \o back \in Seq(Piece) /\ Len(both \o back) = Len(both) + Len(back)
      /\ \A i \in 1..(Len(both) + Len(back)) : (both \o back)[i] = IF i <= Len(both) THEN both[i] ELSE back[i - Len(both)]
  <2>1. both \in Seq(Piece) /\ back \in Seq(Piece)
    BY <1>2, <1>4
  <2> QED
    BY <2>1, ConcatProperties, Zenon
<1> DEFINE whole == both \o back
<1> HIDE DEF whole
<1>6. /\ whole \in Seq(Piece) /\ Len(whole) = Len(both) + Len(back)
      /\ \A i \in 1..(Len(both) + Len(back)) : whole[i] = IF i <= Len(both) THEN both[i] ELSE back[i - Len(both)]
  BY <1>5, Zenon DEF whole
<1>7. Len(both) \in Nat /\ Len(back) \in Nat /\ Len(pieces) \in Nat
  BY <1>2, <1>4
<1>8. \A i \in 1..Len(both) : whole[i] = both[i]
  BY <1>6, <1>7
<1>9. \A i \in 1..Len(back) : whole[Len(both) + i] = back[i]
  BY <1>6, <1>7
<1>10. \A i \in caret + 1..Len(f) : whole[i + Len(pieces)] = f[i]
  <2> SUFFICES ASSUME NEW i \in caret + 1..Len(f) PROVE whole[i + Len(pieces)] = f[i]
    OBVIOUS
  <2>1. i - caret \in 1..Len(back) /\ Len(both) + (i - caret) = i + Len(pieces) /\ caret + (i - caret) = i
    BY <1>2, <1>4
  <2> QED
    BY <1>2, <1>9, <2>1
<1>11. Inserted(f, caret, pieces) = whole
  BY <1>3 DEF whole
<1> QED
  <2>1. \A i \in 1..caret : whole[i] = f[i]
    BY <1>4, <1>7, <1>8
  <2>2. \A i \in 1..Len(pieces) : whole[caret + i] = pieces[i]
    BY <1>4, <1>7, <1>8
  <2>3. Len(whole) = Len(f) + Len(pieces)
    BY <1>2, <1>4, <1>6, <1>7
  <2> QED
    BY <1>6, <1>10, <1>11, <2>1, <2>2, <2>3, Zenon

\* What is dictated into a field leaves as many typed pieces as there were.
LEMMA DictatingKeepsTyping ==
  ASSUME NEW f \in Seq(Piece), NEW caret \in 0..Len(f), NEW pieces \in Seq({"dictated"})
  PROVE  TypedIn(Inserted(f, caret, pieces)) = TypedIn(f)
<1> DEFINE g == Inserted(f, caret, pieces)
           n == Len(pieces)
           S == {i \in 1..Len(f) : f[i] = "typed"}
           T == {i \in 1..Len(g) : g[i] = "typed"}
           Moved == [i \in S |-> IF i <= caret THEN i ELSE i + n]
<1>1. pieces \in Seq(Piece) /\ n \in Nat /\ Len(f) \in Nat /\ \A i \in 1..n : pieces[i] = "dictated"
  BY DEF Piece
<1>2. /\ Len(g) = Len(f) + n
      /\ \A i \in 1..caret : g[i] = f[i]
      /\ \A i \in 1..n : g[caret + i] = "dictated"
      /\ \A i \in caret + 1..Len(f) : g[i + n] = f[i]
  <2>1. /\ Len(g) = Len(f) + n
        /\ \A i \in 1..caret : g[i] = f[i]
        /\ \A i \in 1..n : g[caret + i] = pieces[i]
        /\ \A i \in caret + 1..Len(f) : g[i + n] = f[i]
    BY <1>1, InsertedIs
  <2> HIDE DEF g, n
  <2> QED
    BY <1>1, <2>1
<1> HIDE DEF g, n
<1>3. Moved \in [S -> T]
  BY <1>1, <1>2
<1>4. \A i, j \in S : Moved[i] = Moved[j] => i = j
  BY <1>1
<1>5. ASSUME NEW k \in T PROVE \E i \in S : Moved[i] = k
  <2>1. k \in 1..(Len(f) + n) /\ g[k] = "typed"
    BY <1>2
  <2>2. CASE k <= caret
    <3>1. k \in S /\ Moved[k] = k
      BY <1>1, <1>2, <2>1, <2>2
    <3> QED
      BY <3>1
  <2>3. CASE k > caret
    <3>1. k > caret + n
      <4> SUFFICES ASSUME k <= caret + n PROVE FALSE
        BY <1>1, <2>1
      <4>1. k - caret \in 1..n /\ caret + (k - caret) = k
        BY <1>1, <2>1, <2>3
      <4>2. g[k] = "dictated"
        BY <1>2, <4>1
      <4> QED
        BY <2>1, <4>2
    <3>2. k - n \in caret + 1..Len(f) /\ (k - n) + n = k
      BY <1>1, <2>1, <3>1
    <3>3. k - n \in S /\ Moved[k - n] = k
      BY <1>1, <1>2, <2>1, <3>2
    <3> QED
      BY <3>3
  <2> HIDE DEF S, T, Moved
  <2> QED
    BY <1>1, <2>1, <2>2, <2>3
<1>6. IsFiniteSet(S)
  <2>1. IsFiniteSet(1..Len(f))
    BY <1>1, FS_Interval
  <2> QED
    BY <2>1, FS_Subset
<1>7. Moved \in Bijection(S, T)
  BY <1>3, <1>4, <1>5, Zenon DEF Bijection, Injection, Surjection, IsInjective
<1>8. Cardinality(S) = Cardinality(T)
  <2> HIDE DEF S, T, Moved
  <2>1. ExistsBijection(S, T)
    BY <1>7, Zenon DEF ExistsBijection
  <2> QED
    BY <1>6, <2>1, FS_Bijection
<1> QED
  BY <1>8 DEF TypedIn, g

\* A dictation of something is longer than the field it began with.
LEMMA DictatingLengthens ==
  ASSUME NEW f \in Seq(Piece), NEW caret \in 0..Len(f), NEW pieces \in Seq({"dictated"}), pieces # <<>>
  PROVE  Inserted(f, caret, pieces) # f
<1>1. pieces \in Seq(Piece) /\ Len(pieces) \in Nat /\ Len(pieces) # 0
  BY EmptySeq DEF Piece
<1>2. Len(Inserted(f, caret, pieces)) = Len(f) + Len(pieces)
  BY <1>1, InsertedIs
<1> QED
  BY <1>1, <1>2

-----------------------------------------------------------------------------
(* The invariant: a unit has in its after image the typing of its before    *)
(* image, and a dictation nobody disturbed is the newest unit, its after    *)
(* image what the field holds.                                              *)

Fields == Seq(Piece)
Unit == {u \in [before : Fields, after : Fields] : TypedIn(u.after) = TypedIn(u.before)}
Opened == {o \in [before : Fields, caret : Nat] : o.caret <= Len(o.before)}

UndoTypes ==
  /\ units \in Seq(Unit) /\ text \in Fields
  /\ open # NoUnit => open \in Opened
  /\ written \in Seq({"dictated"})
NewestIsLast ==
  undisturbed # NoUnit =>
    /\ open = NoUnit
    /\ units # <<>>
    /\ units[Len(units)].before = undisturbed.before
    /\ units[Len(units)].after = text
UndoInv == UndoTypes /\ NewestIsLast

\* What the ring holds after a unit is pushed: the newest ones, that one last.
LEMMA PushUnitIs ==
  ASSUME NEW ring \in Seq(Unit), NEW unit \in Unit
  PROVE  /\ PushUnit(ring, unit) \in Seq(Unit) /\ PushUnit(ring, unit) # <<>>
         /\ PushUnit(ring, unit)[Len(PushUnit(ring, unit))] = unit
<1> DEFINE kept == IF Len(ring) = UndoCapacity THEN Tail(ring) ELSE ring
<1>1. kept \in Seq(Unit)
  <2>1. CASE Len(ring) = UndoCapacity
    <3>1. ring # <<>>
      BY <2>1, UndoAssumption
    <3> QED
      BY <2>1, <3>1
  <2> QED
    BY <2>1
<1>2. PushUnit(ring, unit) = Append(kept, unit)
  BY DEF PushUnit
<1> HIDE DEF kept
<1> QED
  BY <1>1, <1>2, AppendProperties

\* The ring at the start.
LEMMA UndoBegins == UndoInit => UndoInv
BY EmptySeq DEF UndoInit, UndoInv, UndoTypes, NewestIsLast, Fields

\* Sealing a dictation: the image is the field with the dictated text, and a
\* dictation of something is the newest unit.
LEMMA EndKeeps ==
  ASSUME UndoInv, EndUnit
  PROVE  UndoInv'
<1> DEFINE after == AfterImage(open, written)
           unit == [before |-> open.before, after |-> after]
<1>1. open \in Opened /\ open.before \in Fields /\ open.caret \in 0..Len(open.before) /\ written \in Seq({"dictated"})
  BY DEF EndUnit, UndoInv, UndoTypes, Opened, Fields
<1>2. after \in Fields /\ TypedIn(after) = TypedIn(open.before) /\ (written # <<>> => after # open.before)
  <2>1. written \in Seq(Piece)
    BY <1>1 DEF Piece
  <2>2. after = Inserted(open.before, open.caret, written)
    BY DEF AfterImage
  <2>3. Inserted(open.before, open.caret, written) \in Seq(Piece)
    BY <1>1, <2>1, InsertedIs DEF Fields
  <2>4. TypedIn(Inserted(open.before, open.caret, written)) = TypedIn(open.before)
    BY <1>1, DictatingKeepsTyping DEF Fields
  <2>5. written # <<>> => Inserted(open.before, open.caret, written) # open.before
    BY <1>1, DictatingLengthens DEF Fields
  <2> QED
    BY <2>2, <2>3, <2>4, <2>5 DEF Fields
<1>3. unit \in Unit
  BY <1>1, <1>2 DEF Unit
<1>4. /\ open' = NoUnit /\ written' = <<>> /\ text' = text
      /\ units' = IF after = open.before THEN units ELSE PushUnit(units, unit)
      /\ undisturbed' = IF written # <<>> /\ text = after THEN [before |-> open.before] ELSE NoUnit
  BY DEF EndUnit
<1> HIDE DEF after
<1>5. units \in Seq(Unit) /\ text \in Fields
  BY DEF UndoInv, UndoTypes
<1>6. /\ PushUnit(units, unit) \in Seq(Unit) /\ PushUnit(units, unit) # <<>>
      /\ PushUnit(units, unit)[Len(PushUnit(units, unit))] = unit
  BY <1>3, <1>5, PushUnitIs
<1>7. UndoTypes'
  <2>1. units' \in Seq(Unit)
    BY <1>4, <1>5, <1>6
  <2> QED
    BY <1>4, <1>5, <2>1, EmptySeq DEF UndoTypes
<1>8. NewestIsLast'
  <2> SUFFICES ASSUME undisturbed' # NoUnit PROVE NewestIsLast'
    BY DEF NewestIsLast
  <2>1. written # <<>> /\ text = after /\ undisturbed' = [before |-> open.before]
    BY <1>4
  <2>2. units' = PushUnit(units, unit)
    BY <1>2, <1>4, <2>1
  <2>3. unit.before = open.before /\ unit.after = after
    OBVIOUS
  <2>4. units' # <<>> /\ units'[Len(units')] = unit
    BY <1>6, <2>2
  <2> HIDE DEF unit
  <2> QED
    BY <1>4, <2>1, <2>3, <2>4 DEF NewestIsLast
<1> QED
  BY <1>7, <1>8 DEF UndoInv

\* What the user does to the field, and a write of the dictation, is a field.
LEMMA EditsAreFields ==
  ASSUME NEW f \in Fields, NEW at \in 0..Len(f), NEW piece \in Piece
  PROVE  /\ Inserted(f, at, <<piece>>) \in Fields
         /\ at > 0 => SubSeq(f, 1, at - 1) \o SubSeq(f, at + 1, Len(f)) \in Fields
<1>1. <<piece>> \in Seq(Piece)
  OBVIOUS
<1>2. Inserted(f, at, <<piece>>) \in Seq(Piece)
  BY <1>1, InsertedIs DEF Fields
<1>3. ASSUME at > 0 PROVE SubSeq(f, 1, at - 1) \in Seq(Piece) /\ SubSeq(f, at + 1, Len(f)) \in Seq(Piece)
  BY <1>3, SubSeqProperties DEF Fields
<1> QED
  BY <1>2, <1>3 DEF Fields

\* Taking the newest unit out.
LEMMA UndoKeeps ==
  ASSUME UndoInv, Undo
  PROVE  UndoInv' /\ TypedIn(text') = TypedIn(text) /\ (undisturbed # NoUnit => text' = undisturbed.before)
<1>1. units \in Seq(Unit) /\ text \in Fields /\ undisturbed' = NoUnit /\ open' = open /\ open = NoUnit /\ written' = written
  BY DEF Undo, UndoInv, UndoTypes
<1>2. CASE units = <<>>
  <2>1. units' = units /\ text' = text /\ undisturbed = NoUnit
    BY <1>1, <1>2 DEF Undo, UndoInv, NewestIsLast
  <2> QED
    BY <1>1, <2>1 DEF UndoInv, UndoTypes, NewestIsLast
<1>3. CASE units # <<>>
  <2> DEFINE unit == units[Len(units)]
  <2>1. Len(units) \in Nat /\ Len(units) > 0 /\ unit \in Unit
    BY <1>1, <1>3, EmptySeq
  <2>2. /\ units' = SubSeq(units, 1, Len(units) - 1)
        /\ text' = IF text = unit.after THEN unit.before ELSE text
    BY <1>3 DEF Undo
  <2>3. unit.before \in Fields /\ TypedIn(unit.after) = TypedIn(unit.before)
    BY <2>1 DEF Unit
  <2>4. units' \in Seq(Unit)
    BY <1>1, <2>1, <2>2, SubSeqProperties
  <2>5. undisturbed # NoUnit => unit.before = undisturbed.before /\ unit.after = text
    BY DEF UndoInv, NewestIsLast
  <2> HIDE DEF unit
  <2>6. text' \in Fields /\ TypedIn(text') = TypedIn(text) /\ (undisturbed # NoUnit => text' = undisturbed.before)
    BY <1>1, <2>2, <2>3, <2>5
  <2> QED
    BY <1>1, <2>4, <2>6 DEF UndoInv, UndoTypes, NewestIsLast
<1> QED
  BY <1>2, <1>3

\* UndoInv is inductive.
LEMMA UndoStep ==
  ASSUME UndoInv, [UndoNext]_undoVars
  PROVE  UndoInv'
<1>1. units \in Seq(Unit) /\ text \in Fields /\ Len(text) \in Nat /\ written \in Seq({"dictated"})
  BY DEF UndoInv, UndoTypes, Fields
<1>2. CASE BeginUnit
  <2>1. PICK caret \in 0..Len(text) : open' = [before |-> text, caret |-> caret]
    BY <1>2 DEF BeginUnit
  <2>2. open' \in Opened
    BY <1>1, <2>1 DEF Opened
  <2>3. written' = <<>> /\ undisturbed' = NoUnit /\ units' = units /\ text' = text
    BY <1>2 DEF BeginUnit
  <2> QED
    BY <1>1, <2>2, <2>3, EmptySeq DEF UndoInv, UndoTypes, NewestIsLast
<1>3. CASE StreamWrite
  <2>1. PICK at \in 0..Len(text) : text' = Inserted(text, at, <<"dictated">>)
    BY <1>3 DEF StreamWrite
  <2>2. text' \in Fields
    BY <1>1, <2>1, EditsAreFields DEF Piece
  <2>3. /\ open # NoUnit /\ written' = Append(written, "dictated")
        /\ units' = units /\ open' = open /\ undisturbed' = undisturbed
    BY <1>3 DEF StreamWrite
  <2>4. written' \in Seq({"dictated"})
    BY <1>1, <2>3
  <2> QED
    BY <1>1, <2>2, <2>3, <2>4 DEF UndoInv, UndoTypes, NewestIsLast
<1>4. CASE UserTypes
  <2>1. PICK at \in 0..Len(text) : text' = Inserted(text, at, <<"typed">>)
    BY <1>4 DEF UserTypes
  <2>2. text' \in Fields
    BY <1>1, <2>1, EditsAreFields DEF Piece
  <2>3. undisturbed' = NoUnit /\ units' = units /\ open' = open /\ written' = written
    BY <1>4 DEF UserTypes
  <2> QED
    BY <1>1, <2>2, <2>3 DEF UndoInv, UndoTypes, NewestIsLast
<1>5. CASE UserDeletes
  <2>1. PICK at \in 1..Len(text) : text' = SubSeq(text, 1, at - 1) \o SubSeq(text, at + 1, Len(text))
    BY <1>5 DEF UserDeletes
  <2>2. at \in 0..Len(text) /\ at > 0
    BY <1>1
  <2>3. text' \in Fields
    BY <1>1, <2>1, <2>2, EditsAreFields DEF Piece
  <2>4. undisturbed' = NoUnit /\ units' = units /\ open' = open /\ written' = written
    BY <1>5 DEF UserDeletes
  <2> QED
    BY <1>1, <2>3, <2>4 DEF UndoInv, UndoTypes, NewestIsLast
<1>6. CASE EndUnit
  BY <1>6, EndKeeps
<1>7. CASE AbortUnit
  <2>1. /\ open # NoUnit /\ open' = NoUnit /\ written' = <<>>
        /\ units' = units /\ text' = text /\ undisturbed' = undisturbed
    BY <1>7 DEF AbortUnit
  <2> QED
    BY <1>1, <2>1, EmptySeq DEF UndoInv, UndoTypes, NewestIsLast
<1>8. CASE Undo
  BY <1>8, UndoKeeps
<1>9. CASE UNCHANGED undoVars
  BY <1>9 DEF undoVars, UndoInv, UndoTypes, NewestIsLast
<1> QED
  BY <1>2, <1>3, <1>4, <1>5, <1>6, <1>7, <1>8, <1>9 DEF UndoNext

\* For every capacity and every field, and whatever the user types and deletes
\* between and during dictations: an undo leaves every piece the user typed in
\* the field, and right after a dictation nobody disturbed it restores the field
\* that dictation began with (undo.rs, seal_undo of session.rs).
THEOREM UndoAlwaysExact == UndoSpec => UndoIsExact
<1>1. UndoInit => UndoInv
  BY UndoBegins
<1>2. UndoInv /\ [UndoNext]_undoVars => UndoInv'
  BY UndoStep
<1>3. UndoInv /\ [UndoNext]_undoVars => [Undo => TypedIn(text') = TypedIn(text)]_undoVars
  BY UndoKeeps
<1>4. UndoInv /\ [UndoNext]_undoVars => [Undo /\ undisturbed # NoUnit => text' = undisturbed.before]_undoVars
  BY UndoKeeps
<1> QED
  BY <1>1, <1>2, <1>3, <1>4, PTL DEF UndoSpec, UndoIsExact, UndoKeepsTyping, UndoTakesBackTheLast

-----------------------------------------------------------------------------
(* The menu: rows and their actions.                                        *)

Switch == {"true", "false"}
Places == {"hidden", "bottom-center", "near-mouse"}
Hotkeys == {"right-option", "f13"}
Settings == [enabled : Switch, hotkey : Hotkeys, position : Places, login : Switch]
Titles == {"F13", "Show Floating Overlay", "Overlay Follows Mouse", "Start at Login", "Open Accessibility Settings",
           "Open Input Monitoring Settings", "Open Microphone Settings", "Pause Dictation", "Edit Config File",
           "Reload Config", "Quit OutLoud"}
SetActions == {Set("enabled", v) : v \in Switch} \cup {Set("login", v) : v \in Switch}
                \cup {Set("position", v) : v \in Places} \cup {Set("hotkey", "f13")}
Actions ==
  SetActions \cup {<<"config">>, <<"reload">>, <<"quit">>}
    \cup {<<"pane", "accessibility">>, <<"pane", "input">>, <<"pane", "microphone">>}
Rows == [title : Titles, checked : BOOLEAN]
\* A row with the action of what it says.
MenuEntries == {e \in Rows \X Actions : e[2] = Asked(e[1])}

-----------------------------------------------------------------------------
(* The menu that is built.                                                  *)

\* What each title asks for.
LEMMA AskedBy ==
  ASSUME NEW row
  PROVE  /\ row.title = "F13" => Asked(row) = Set("hotkey", "f13")
         /\ row.title = "Show Floating Overlay" => Asked(row) = Set("position", IF row.checked THEN "hidden" ELSE "bottom-center")
         /\ row.title = "Overlay Follows Mouse" => Asked(row) = Set("position", IF row.checked THEN "bottom-center" ELSE "near-mouse")
         /\ row.title = "Start at Login" => Asked(row) = Set("login", Yes(~row.checked))
         /\ row.title = "Open Accessibility Settings" => Asked(row) = <<"pane", "accessibility">>
         /\ row.title = "Open Input Monitoring Settings" => Asked(row) = <<"pane", "input">>
         /\ row.title = "Open Microphone Settings" => Asked(row) = <<"pane", "microphone">>
         /\ row.title = "Pause Dictation" => Asked(row) = Set("enabled", Yes(row.checked))
         /\ row.title = "Edit Config File" => Asked(row) = <<"config">>
         /\ row.title = "Reload Config" => Asked(row) = <<"reload">>
         /\ row.title = "Quit OutLoud" => Asked(row) = <<"quit">>
<1>1. row.title = "F13" => Asked(row) = Set("hotkey", "f13")
  BY DEF Asked
<1>2. row.title = "Show Floating Overlay" => Asked(row) = Set("position", IF row.checked THEN "hidden" ELSE "bottom-center")
  BY DEF Asked
<1>3. row.title = "Overlay Follows Mouse" => Asked(row) = Set("position", IF row.checked THEN "bottom-center" ELSE "near-mouse")
  BY DEF Asked
<1>4. row.title = "Start at Login" => Asked(row) = Set("login", Yes(~row.checked))
  BY DEF Asked
<1>5. row.title = "Open Accessibility Settings" => Asked(row) = <<"pane", "accessibility">>
  BY DEF Asked
<1>6. row.title = "Open Input Monitoring Settings" => Asked(row) = <<"pane", "input">>
  BY DEF Asked
<1>7. row.title = "Open Microphone Settings" => Asked(row) = <<"pane", "microphone">>
  BY DEF Asked
<1>8. row.title = "Pause Dictation" => Asked(row) = Set("enabled", Yes(row.checked))
  BY DEF Asked
<1>9. row.title = "Edit Config File" => Asked(row) = <<"config">>
  BY DEF Asked
<1>10. row.title = "Reload Config" => Asked(row) = <<"reload">>
  BY DEF Asked
<1>11. row.title = "Quit OutLoud" => Asked(row) = <<"quit">>
  BY DEF Asked
<1> QED
  BY <1>1, <1>2, <1>3, <1>4, <1>5, <1>6, <1>7, <1>8, <1>9, <1>10, <1>11

\* The same, of a row that is made.
LEMMA AskedOf ==
  ASSUME NEW c \in BOOLEAN
  PROVE  /\ Asked(Row("F13", c)) = Set("hotkey", "f13")
         /\ Asked(Row("Show Floating Overlay", c)) = Set("position", IF c THEN "hidden" ELSE "bottom-center")
         /\ Asked(Row("Overlay Follows Mouse", c)) = Set("position", IF c THEN "bottom-center" ELSE "near-mouse")
         /\ Asked(Row("Start at Login", c)) = Set("login", Yes(~c))
         /\ Asked(Row("Open Accessibility Settings", c)) = <<"pane", "accessibility">>
         /\ Asked(Row("Open Input Monitoring Settings", c)) = <<"pane", "input">>
         /\ Asked(Row("Open Microphone Settings", c)) = <<"pane", "microphone">>
         /\ Asked(Row("Pause Dictation", c)) = Set("enabled", Yes(c))
         /\ Asked(Row("Edit Config File", c)) = <<"config">>
         /\ Asked(Row("Reload Config", c)) = <<"reload">>
         /\ Asked(Row("Quit OutLoud", c)) = <<"quit">>
<1>1. \A title : Row(title, c).title = title /\ Row(title, c).checked = c
  BY DEF Row
<1>2. Asked(Row("F13", c)) = Set("hotkey", "f13")
  BY <1>1, AskedBy
<1>3. Asked(Row("Show Floating Overlay", c)) = Set("position", IF c THEN "hidden" ELSE "bottom-center")
  BY <1>1, AskedBy
<1>4. Asked(Row("Overlay Follows Mouse", c)) = Set("position", IF c THEN "bottom-center" ELSE "near-mouse")
  BY <1>1, AskedBy
<1>5. Asked(Row("Start at Login", c)) = Set("login", Yes(~c))
  BY <1>1, AskedBy
<1>6. Asked(Row("Open Accessibility Settings", c)) = <<"pane", "accessibility">>
  BY <1>1, AskedBy
<1>7. Asked(Row("Open Input Monitoring Settings", c)) = <<"pane", "input">>
  BY <1>1, AskedBy
<1>8. Asked(Row("Open Microphone Settings", c)) = <<"pane", "microphone">>
  BY <1>1, AskedBy
<1>9. Asked(Row("Pause Dictation", c)) = Set("enabled", Yes(c))
  BY <1>1, AskedBy
<1>10. Asked(Row("Edit Config File", c)) = <<"config">>
  BY <1>1, AskedBy
<1>11. Asked(Row("Reload Config", c)) = <<"reload">>
  BY <1>1, AskedBy
<1>12. Asked(Row("Quit OutLoud", c)) = <<"quit">>
  BY <1>1, AskedBy
<1> QED
  BY <1>2, <1>3, <1>4, <1>5, <1>6, <1>7, <1>8, <1>9, <1>10, <1>11, <1>12

\* The two switches, as they are written.
LEMMA YesIs ==
  ASSUME NEW b \in BOOLEAN
  PROVE  Yes(b) \in Switch /\ Set("enabled", Yes(b)) \in Actions /\ Set("login", Yes(b)) \in Actions
<1>1. Yes(b) \in Switch
  BY DEF Yes, Switch
<1> QED
  BY <1>1, Zenon DEF Actions, SetActions

\* Each row that build and settings_menu can draw, with its action.
LEMMA EntriesAre ==
  ASSUME NEW s
  PROVE  /\ <<Row("F13", s.hotkey = "f13"), Set("hotkey", "f13")>> \in MenuEntries
         /\ <<Row("Show Floating Overlay", s.position # "hidden"),
              Set("position", IF s.position = "hidden" THEN "bottom-center" ELSE "hidden")>> \in MenuEntries
         /\ <<Row("Overlay Follows Mouse", s.position = "near-mouse"),
              Set("position", IF s.position = "near-mouse" THEN "bottom-center" ELSE "near-mouse")>> \in MenuEntries
         /\ <<Row("Start at Login", s.login = "true"), Set("login", Yes(s.login # "true"))>> \in MenuEntries
         /\ <<Row("Open Accessibility Settings", FALSE), <<"pane", "accessibility">> >> \in MenuEntries
         /\ <<Row("Open Input Monitoring Settings", FALSE), <<"pane", "input">> >> \in MenuEntries
         /\ <<Row("Open Microphone Settings", FALSE), <<"pane", "microphone">> >> \in MenuEntries
         /\ <<Row("Pause Dictation", s.enabled # "true"), Set("enabled", Yes(s.enabled # "true"))>> \in MenuEntries
         /\ <<Row("Edit Config File", FALSE), <<"config">> >> \in MenuEntries
         /\ <<Row("Reload Config", FALSE), <<"reload">> >> \in MenuEntries
         /\ <<Row("Quit OutLoud", FALSE), <<"quit">> >> \in MenuEntries
<1>1. ASSUME NEW title \in Titles, NEW checked \in BOOLEAN, NEW action \in Actions, Asked(Row(title, checked)) = action
      PROVE  <<Row(title, checked), action>> \in MenuEntries
  <2>1. Row(title, checked) \in Rows
    BY DEF Row, Rows
  <2> DEFINE e == <<Row(title, checked), action>>
  <2>2. e \in Rows \X Actions /\ e[1] = Row(title, checked) /\ e[2] = action
    BY <2>1
  <2> QED
    BY <1>1, <2>2, Zenon DEF MenuEntries
<1>2. /\ Set("hotkey", "f13") \in Actions /\ \A v \in Places : Set("position", v) \in Actions
      /\ "hidden" \in Places /\ "bottom-center" \in Places /\ "near-mouse" \in Places
  BY Zenon DEF Actions, SetActions, Places
<1>3. /\ <<"config">> \in Actions /\ <<"reload">> \in Actions /\ <<"quit">> \in Actions
      /\ <<"pane", "accessibility">> \in Actions /\ <<"pane", "input">> \in Actions /\ <<"pane", "microphone">> \in Actions
  BY Zenon DEF Actions
<1>4. <<Row("F13", s.hotkey = "f13"), Set("hotkey", "f13")>> \in MenuEntries
  <2>1. "F13" \in Titles
    BY DEF Titles
  <2>2. (s.hotkey = "f13") \in BOOLEAN
    OBVIOUS
  <2>3. Asked(Row("F13", s.hotkey = "f13")) = Set("hotkey", "f13")
    BY <2>2, AskedOf, Zenon
  <2> QED
    BY <1>1, <1>2, <2>1, <2>2, <2>3, Zenon
<1>5. <<Row("Show Floating Overlay", s.position # "hidden"),
        Set("position", IF s.position = "hidden" THEN "bottom-center" ELSE "hidden")>> \in MenuEntries
  <2> DEFINE c == s.position # "hidden"
             v == IF s.position = "hidden" THEN "bottom-center" ELSE "hidden"
  <2>0. c \in BOOLEAN
    OBVIOUS
  <2>1. Asked(Row("Show Floating Overlay", c)) = Set("position", IF c THEN "hidden" ELSE "bottom-center")
    BY <2>0, AskedOf, Zenon
  <2>2. v = IF c THEN "hidden" ELSE "bottom-center"
    BY Zenon
  <2>3. "Show Floating Overlay" \in Titles /\ c \in BOOLEAN /\ v \in Places
    BY DEF Titles, Places
  <2>4. Asked(Row("Show Floating Overlay", c)) = Set("position", v) /\ Set("position", v) \in Actions
    BY <1>2, <2>1, <2>2, <2>3, Zenon
  <2> HIDE DEF c, v
  <2>5. <<Row("Show Floating Overlay", c), Set("position", v)>> \in MenuEntries
    BY <1>1, <2>3, <2>4, Zenon
  <2> QED
    BY <2>5, Zenon DEF c, v
<1>6. <<Row("Overlay Follows Mouse", s.position = "near-mouse"),
        Set("position", IF s.position = "near-mouse" THEN "bottom-center" ELSE "near-mouse")>> \in MenuEntries
  <2> DEFINE c == s.position = "near-mouse"
             v == IF c THEN "bottom-center" ELSE "near-mouse"
  <2>0. c \in BOOLEAN
    OBVIOUS
  <2>1. Asked(Row("Overlay Follows Mouse", c)) = Set("position", v)
    BY <2>0, AskedOf, Zenon
  <2>2. "Overlay Follows Mouse" \in Titles /\ c \in BOOLEAN /\ v \in Places
    BY DEF Titles, Places
  <2>3. Set("position", v) \in Actions
    BY <1>2, <2>2, Zenon
  <2> HIDE DEF c
  <2>4. <<Row("Overlay Follows Mouse", c), Set("position", v)>> \in MenuEntries
    BY <1>1, <2>1, <2>2, <2>3, Zenon
  <2> QED
    BY <2>4, Zenon DEF c
<1>7. <<Row("Start at Login", s.login = "true"), Set("login", Yes(s.login # "true"))>> \in MenuEntries
  <2> DEFINE c == s.login = "true"
  <2>0. c \in BOOLEAN
    OBVIOUS
  <2>1. Asked(Row("Start at Login", c)) = Set("login", Yes(~c))
    BY <2>0, AskedOf, Zenon
  <2>2. "Start at Login" \in Titles /\ c \in BOOLEAN /\ (~c) \in BOOLEAN
    <3>1. "Start at Login" \in Titles
      BY DEF Titles
    <3>2. (~c) \in BOOLEAN
      OBVIOUS
    <3> QED
      BY <2>0, <3>1, <3>2, Zenon
  <2>3. Set("login", Yes(~c)) \in Actions
    BY <2>2, YesIs, Zenon
  <2> HIDE DEF c
  <2>4. <<Row("Start at Login", c), Set("login", Yes(~c))>> \in MenuEntries
    BY <1>1, <2>1, <2>2, <2>3, Zenon
  <2> QED
    BY <2>4, Zenon DEF c
<1>8. <<Row("Pause Dictation", s.enabled # "true"), Set("enabled", Yes(s.enabled # "true"))>> \in MenuEntries
  <2> DEFINE c == s.enabled # "true"
  <2>0. c \in BOOLEAN
    OBVIOUS
  <2>1. Asked(Row("Pause Dictation", c)) = Set("enabled", Yes(c))
    BY <2>0, AskedOf, Zenon
  <2>2. "Pause Dictation" \in Titles /\ c \in BOOLEAN
    BY DEF Titles
  <2>3. Set("enabled", Yes(c)) \in Actions
    BY <2>2, YesIs, Zenon
  <2> HIDE DEF c
  <2>4. <<Row("Pause Dictation", c), Set("enabled", Yes(c))>> \in MenuEntries
    BY <1>1, <2>1, <2>2, <2>3, Zenon
  <2> QED
    BY <2>4, Zenon DEF c
<1>9. /\ <<Row("Open Accessibility Settings", FALSE), <<"pane", "accessibility">> >> \in MenuEntries
       /\ <<Row("Open Input Monitoring Settings", FALSE), <<"pane", "input">> >> \in MenuEntries
       /\ <<Row("Open Microphone Settings", FALSE), <<"pane", "microphone">> >> \in MenuEntries
       /\ <<Row("Edit Config File", FALSE), <<"config">> >> \in MenuEntries
       /\ <<Row("Reload Config", FALSE), <<"reload">> >> \in MenuEntries
       /\ <<Row("Quit OutLoud", FALSE), <<"quit">> >> \in MenuEntries
  <2>0. FALSE \in BOOLEAN
    OBVIOUS
  <2>1. /\ Asked(Row("Open Accessibility Settings", FALSE)) = <<"pane", "accessibility">>
        /\ Asked(Row("Open Input Monitoring Settings", FALSE)) = <<"pane", "input">>
        /\ Asked(Row("Open Microphone Settings", FALSE)) = <<"pane", "microphone">>
        /\ Asked(Row("Edit Config File", FALSE)) = <<"config">>
        /\ Asked(Row("Reload Config", FALSE)) = <<"reload">>
        /\ Asked(Row("Quit OutLoud", FALSE)) = <<"quit">>
    BY <2>0, AskedOf, Zenon
  <2>2. /\ "Open Accessibility Settings" \in Titles /\ "Open Input Monitoring Settings" \in Titles
        /\ "Open Microphone Settings" \in Titles /\ "Edit Config File" \in Titles
        /\ "Reload Config" \in Titles /\ "Quit OutLoud" \in Titles /\ FALSE \in BOOLEAN
    BY DEF Titles
  <2> QED
    BY <1>1, <1>3, <2>1, <2>2, Zenon
<1> QED
  BY <1>4, <1>5, <1>6, <1>7, <1>8, <1>9, Zenon

\* Each row has the action of what it says, and one shows whether dictation is
\* paused.
DrawnFor(menu, s) ==
  menu \in Seq(MenuEntries) /\ \E i \in 1..Len(menu) : menu[i][1] = Row("Pause Dictation", s.enabled # "true")

\* The whole menu is so drawn, for whatever is blocked and set.
LEMMA BuildIs ==
  ASSUME NEW os, NEW stuck, NEW s
  PROVE  DrawnFor(Build(os, stuck, s), s)
<1>1. ASSUME NEW c, NEW e \in MenuEntries PROVE If(c, <<e>>) \in Seq(MenuEntries)
  BY EmptySeq DEF If
<1>2. ASSUME NEW e \in MenuEntries, NEW f \in MenuEntries, NEW c PROVE If(c, <<e, f>>) \in Seq(MenuEntries)
  BY EmptySeq DEF If
<1> DEFINE A == If("accessibility" \in stuck, << <<Row("Open Accessibility Settings", FALSE), <<"pane", "accessibility">> >> >>)
           B == If("input" \in stuck, << <<Row("Open Input Monitoring Settings", FALSE), <<"pane", "input">> >> >>)
           C == If("microphone" \in stuck, << <<Row("Open Microphone Settings", FALSE), <<"pane", "microphone">> >> >>)
           pause == <<Row("Pause Dictation", s.enabled # "true"), Set("enabled", Yes(s.enabled # "true"))>>
           M == SettingsMenu(os, s)
           E == << <<Row("Edit Config File", FALSE), <<"config">> >>, <<Row("Reload Config", FALSE), <<"reload">> >>,
                   <<Row("Quit OutLoud", FALSE), <<"quit">> >> >>
<1>3. A \in Seq(MenuEntries) /\ B \in Seq(MenuEntries) /\ C \in Seq(MenuEntries)
  BY <1>1, EntriesAre, Zenon
<1>4. pause \in MenuEntries /\ pause[1] = Row("Pause Dictation", s.enabled # "true")
  BY EntriesAre
<1>5. ASSUME NEW e \in MenuEntries, NEW f \in MenuEntries, NEW g \in MenuEntries PROVE <<e, f, g>> \in Seq(MenuEntries)
  OBVIOUS
<1>6. E \in Seq(MenuEntries)
  BY <1>5, EntriesAre, Zenon
<1>7. ASSUME NEW e \in MenuEntries PROVE <<e>> \in Seq(MenuEntries) /\ Len(<<e>>) = 1 /\ <<e>>[1] = e
  OBVIOUS
<1>8. M \in Seq(MenuEntries)
  <2> DEFINE P == << <<Row("F13", s.hotkey = "f13"), Set("hotkey", "f13")>> >>
             Q == << <<Row("Show Floating Overlay", s.position # "hidden"),
                       Set("position", IF s.position = "hidden" THEN "bottom-center" ELSE "hidden")>> >>
             R == If(os = "windows",
                     << <<Row("Overlay Follows Mouse", s.position = "near-mouse"),
                          Set("position", IF s.position = "near-mouse" THEN "bottom-center" ELSE "near-mouse")>>,
                        <<Row("Start at Login", s.login = "true"), Set("login", Yes(s.login # "true"))>> >>)
  <2>1. P \in Seq(MenuEntries) /\ Q \in Seq(MenuEntries) /\ R \in Seq(MenuEntries)
    BY <1>2, <1>7, EntriesAre, Zenon
  <2>2. M = P \o Q \o R
    BY Zenon DEF SettingsMenu
  <2> HIDE DEF P, Q, R, M
  <2>3. P \o Q \in Seq(MenuEntries)
    BY <2>1
  <2> QED
    BY <2>1, <2>2, <2>3
<1>9. Build(os, stuck, s) = A \o B \o C \o <<pause>> \o M \o E
  BY Zenon DEF Build
<1> HIDE DEF A, B, C, M, E, pause
<1>10. A \o B \in Seq(MenuEntries)
  BY <1>3
<1>11. A \o B \o C \in Seq(MenuEntries)
  BY <1>3, <1>10
<1> DEFINE F == A \o B \o C
<1>12. F \in Seq(MenuEntries) /\ <<pause>> \in Seq(MenuEntries)
  BY <1>4, <1>7, <1>11
<1>13. Build(os, stuck, s) = F \o <<pause>> \o M \o E
  BY <1>9
<1> HIDE DEF F
<1>14. /\ F \o <<pause>> \in Seq(MenuEntries) /\ Len(F \o <<pause>>) = Len(F) + 1
       /\ (F \o <<pause>>)[Len(F) + 1] = pause
  <2>1. /\ F \o <<pause>> \in Seq(MenuEntries) /\ Len(F \o <<pause>>) = Len(F) + Len(<<pause>>)
        /\ \A i \in 1..(Len(F) + Len(<<pause>>)) : (F \o <<pause>>)[i] = IF i <= Len(F) THEN F[i] ELSE <<pause>>[i - Len(F)]
    BY <1>12, ConcatProperties, Zenon
  <2>2. Len(<<pause>>) = 1 /\ <<pause>>[1] = pause
    BY <1>4, <1>7, Zenon
  <2>3. Len(F) \in Nat
    BY <1>12
  <2> QED
    BY <2>1, <2>2, <2>3
<1> DEFINE G == F \o <<pause>>
<1> HIDE DEF G
<1>15. G \in Seq(MenuEntries) /\ Len(G) = Len(F) + 1 /\ G[Len(F) + 1] = pause /\ Len(F) \in Nat
  BY <1>12, <1>14 DEF G
<1>16. G \o M \in Seq(MenuEntries) /\ Len(G \o M) = Len(G) + Len(M) /\ (G \o M)[Len(F) + 1] = pause
  BY <1>8, <1>15
<1> DEFINE H == G \o M
<1> HIDE DEF H
<1>17. H \in Seq(MenuEntries) /\ Len(H) = Len(G) + Len(M) /\ H[Len(F) + 1] = pause
  BY <1>16 DEF H
<1>18. H \o E \in Seq(MenuEntries) /\ Len(H \o E) = Len(H) + Len(E) /\ (H \o E)[Len(F) + 1] = pause
  <2>0. H \in Seq(MenuEntries)
    BY <1>17
  <2>1. /\ H \o E \in Seq(MenuEntries) /\ Len(H \o E) = Len(H) + Len(E)
        /\ \A i \in 1..(Len(H) + Len(E)) : (H \o E)[i] = IF i <= Len(H) THEN H[i] ELSE E[i - Len(H)]
    BY <1>6, <2>0, ConcatProperties, Zenon
  <2>2. Len(F) + 1 \in 1..Len(H) /\ Len(H) \in Nat /\ Len(E) \in Nat
    BY <1>6, <1>8, <1>15, <1>17
  <2> QED
    BY <1>17, <2>1, <2>2
<1>19. Build(os, stuck, s) = H \o E
  BY <1>13 DEF G, H
<1>20. Len(F) + 1 \in 1..Len(H \o E)
  BY <1>6, <1>8, <1>15, <1>17, <1>18
<1> QED
  BY <1>4, <1>18, <1>19, <1>20, Zenon DEF DrawnFor

\* The rows and the actions of a menu go by the same numbers.
LEMMA RowsAndActionsAre ==
  ASSUME NEW menu \in Seq(MenuEntries)
  PROVE  /\ RowsOf(menu) \in Seq(Rows) /\ ActionsOf(menu) \in Seq(Actions)
         /\ Len(RowsOf(menu)) = Len(menu) /\ Len(ActionsOf(menu)) = Len(menu)
         /\ \A i \in 1..Len(menu) : RowsOf(menu)[i] = menu[i][1] /\ ActionsOf(menu)[i] = Asked(RowsOf(menu)[i])
<1>1. DOMAIN menu = 1..Len(menu) /\ Len(menu) \in Nat
  OBVIOUS
<1>2. \A i \in 1..Len(menu) : menu[i][1] \in Rows /\ menu[i][2] \in Actions /\ menu[i][2] = Asked(menu[i][1])
  <2>1. \A e \in MenuEntries : e[1] \in Rows /\ e[2] \in Actions /\ e[2] = Asked(e[1])
    BY DEF MenuEntries
  <2> QED
    BY <1>1, <2>1
<1>3. /\ RowsOf(menu) = [i \in 1..Len(menu) |-> menu[i][1]]
      /\ ActionsOf(menu) = [i \in 1..Len(menu) |-> menu[i][2]]
  BY <1>1, Zenon DEF RowsOf, ActionsOf
<1>4. RowsOf(menu) \in [1..Len(menu) -> Rows] /\ ActionsOf(menu) \in [1..Len(menu) -> Actions]
  BY <1>2, <1>3
<1>5. \A i \in 1..Len(menu) : RowsOf(menu)[i] = menu[i][1] /\ ActionsOf(menu)[i] = menu[i][2]
  BY <1>3
<1> QED
  BY <1>1, <1>2, <1>4, <1>5

-----------------------------------------------------------------------------
(* What is true at every step of the display loop.                          *)

Files == [sets : Settings, broken : BOOLEAN, version : Nat \ {0}]
Hosts == [settings : Settings, problems : SUBSET {"broken", "login", "unsaved"}, actions : Seq(Actions), read : Nat]
Lives == [enabled : Switch, config : Settings]
Watches == [base : Nat, since : 0..2, events : 0..1]
ClickKinds == [number : Nat \ {0}, asked : Actions]
Frames == [at : {"reload", "rewatch", "poll", "model", "events", "drain", "rename", "gone"},
           then : {"poll", "model", "drain"}, tmp : Settings \cup {Nowhere}]
MenuTypes ==
  /\ disk \in Files /\ host \in Hosts /\ live \in Lives
  /\ watch \in Watches /\ watch.base <= disk.version
  /\ screen \in Seq(Rows)
  /\ clicks \in Seq(ClickKinds)
  /\ loop \in Frames
  /\ InLoop("rename") => loop.tmp \in Settings /\ loop.then = "drain"

\* The rows on the screen and the actions looked up go by the same numbers; on
\* Windows the ticks are those of the settings while rows can be clicked.
ScreenIsDrawn ==
  /\ Len(host.actions) = Len(screen)
  /\ \A i \in 1..Len(screen) : host.actions[i] = Asked(screen[i])
  /\ platform = "windows" /\ InLoop("events") =>
       \E i \in 1..Len(screen) : screen[i] = Row("Pause Dictation", host.settings.enabled # "true")

\* On Windows no click outlives the rows it was made on.
ClicksAreOfTheScreen ==
  platform = "windows" =>
    /\ \A i \in 1..Len(clicks) : clicks[i].number \in 1..Len(screen) /\ clicks[i].asked = Asked(screen[clicks[i].number])
    /\ InLoop("poll") \/ InLoop("model") => clicks = <<>>
    /\ (InLoop("reload") \/ InLoop("rewatch")) /\ loop.then # "drain" => clicks = <<>>
    /\ ~misfired

\* What the daemon goes by is what the menu has read, but for the switch
\* between the halves of reload.
DaemonFollowsMenu ==
  /\ ~InLoop("rewatch") => live.enabled = host.settings.enabled
  /\ live.config = host.settings
  /\ platform = "windows" => login = host.settings.login \/ "login" \in host.problems

\* A file that the watcher knows, with nothing on its way, has been read.
Fresh == host.read = disk.version /\ (disk.broken \/ host.settings = disk.sets)
WatcherKnows ==
  ~InLoop("reload") /\ ~gap =>
    /\ watch.base = NotYet => Fresh
    /\ watch.base = disk.version /\ watch.since = Calm /\ watch.events = 0 => Fresh

MenuInv == MenuTypes /\ ScreenIsDrawn /\ ClicksAreOfTheScreen /\ DaemonFollowsMenu /\ WatcherKnows

\* A setting is replaced by a value of its own kind.
LEMMA UpdatesAreSettings ==
  ASSUME NEW s \in Settings, NEW a \in Actions, a[1] = "set"
  PROVE  [s EXCEPT ![a[2]] = a[3]] \in Settings
<1>1. \A k, v : Set(k, v)[1] = "set" /\ Set(k, v)[2] = k /\ Set(k, v)[3] = v
  BY DEF Set
<1>2. a \in SetActions
  BY DEF Actions
<1>3. \/ a[2] \in {"enabled", "login"} /\ a[3] \in Switch
      \/ a[2] = "position" /\ a[3] \in Places
      \/ a[2] = "hotkey" /\ a[3] \in Hotkeys
  <2>1. \/ \E v \in Switch : a = Set("enabled", v) \/ a = Set("login", v)
        \/ \E v \in Places : a = Set("position", v)
        \/ a = Set("hotkey", "f13")
    BY <1>2, Zenon DEF SetActions
  <2> QED
    BY <2>1, <1>1 DEF Hotkeys
<1> QED
  BY <1>3 DEF Settings

\* The menu at the start.
LEMMA MenuStartsTrue == MenuInit => MenuInv
<1> SUFFICES ASSUME MenuInit PROVE MenuInv
  OBVIOUS
<1>1. Defaults \in Settings /\ Defaults.enabled = "true" /\ Defaults.login = "false"
  BY DEF Defaults, Settings, Switch, Places, Hotkeys
<1>2. <<>> \in Seq(Actions) /\ <<>> \in Seq(Rows) /\ <<>> \in Seq(ClickKinds) /\ Len(<<>>) = 0
  OBVIOUS
<1>3. MenuTypes
  <2>1. disk \in Files /\ disk.version = 1
    BY <1>1 DEF MenuInit, Files
  <2>2. host \in Hosts
    BY <1>1, <1>2 DEF MenuInit, Hosts, Unread
  <2>3. live \in Lives
    BY <1>1 DEF MenuInit, Lives, Switch
  <2>4. watch \in Watches /\ watch.base = 0
    BY DEF MenuInit, Watches, NewWatch, NotYet, Calm
  <2>5. loop \in Frames /\ loop.at = "reload"
    BY DEF MenuInit, Frames
  <2>6. watch.base <= disk.version
    BY <2>1, <2>4
  <2>7. screen = <<>> /\ clicks = <<>>
    BY DEF MenuInit
  <2> QED
    BY <1>2, <2>1, <2>2, <2>3, <2>4, <2>5, <2>6, <2>7 DEF MenuTypes, InLoop
<1>4. ScreenIsDrawn /\ ClicksAreOfTheScreen
  BY <1>2 DEF MenuInit, ScreenIsDrawn, ClicksAreOfTheScreen, InLoop
<1>5. DaemonFollowsMenu /\ WatcherKnows
  BY <1>1 DEF MenuInit, DaemonFollowsMenu, WatcherKnows, InLoop
<1> QED
  BY <1>3, <1>4, <1>5 DEF MenuInv

\* The watcher's thread: its baseline is what has been read, unless the file was
\* written in the gap; a change it sees is on its way until the loop reloads.
LEMMA WatcherSteps == ASSUME MenuInv, Watcher PROVE MenuInv'
<1>1. CASE WatchStarts
  <2>0. watch' \in Watches /\ watch'.base = disk.version
    BY <1>1 DEF MenuInv, MenuTypes, WatchStarts, Watches, Files
  <2>1. MenuTypes'
    BY <1>1, <2>0 DEF MenuInv, MenuTypes, WatchStarts, InLoop, Files
  <2>2. WatcherKnows'
    BY <1>1 DEF MenuInv, MenuTypes, WatcherKnows, WatchStarts, InLoop, NotYet, Fresh
  <2>3. ScreenIsDrawn' /\ ClicksAreOfTheScreen' /\ DaemonFollowsMenu'
    BY <1>1 DEF MenuInv, ScreenIsDrawn, ClicksAreOfTheScreen, DaemonFollowsMenu, WatchStarts, InLoop
  <2> QED
    BY <2>1, <2>2, <2>3 DEF MenuInv
<1>2. CASE WatchPolls
  <2>0. /\ watch' \in Watches /\ watch'.base = disk.version /\ watch'.base # NotYet
        /\ watch'.since # Calm \/ watch'.events # 0
    <3>1. watch.base # NotYet /\ watch \in Watches /\ disk.version \in Nat \ {0}
      BY <1>2 DEF WatchPolls, Changed, MenuInv, MenuTypes, Files
    <3>2. CASE watch' = [watch EXCEPT !.base = disk.version, !.since = 1]
      <4>1. watch' = [base |-> disk.version, since |-> 1, events |-> watch.events] /\ watch.events \in 0..1
        BY <3>1, <3>2 DEF Watches
      <4> QED
        BY <3>1, <4>1 DEF Watches, NotYet, Calm
    <3>3. CASE watch.base = disk.version /\ watch' = [watch EXCEPT !.since = 2]
      BY <3>1, <3>3 DEF Watches, NotYet, Calm
    <3>4. CASE watch.base = disk.version /\ watch' = [watch EXCEPT !.since = Calm, !.events = 1]
      <4>1. watch' = [base |-> disk.version, since |-> 0, events |-> 1]
        BY <3>1, <3>4 DEF Watches, Calm
      <4> QED
        BY <3>1, <4>1 DEF Watches, NotYet, Calm
    <3> QED
      BY <1>2, <3>2, <3>3, <3>4 DEF WatchPolls, Changed
  <2>1. MenuTypes'
    BY <1>2, <2>0 DEF MenuInv, MenuTypes, WatchPolls, InLoop, Files
  <2>2. WatcherKnows'
    BY <1>2, <2>0 DEF WatcherKnows, WatchPolls
  <2>3. ScreenIsDrawn' /\ ClicksAreOfTheScreen' /\ DaemonFollowsMenu'
    BY <1>2 DEF MenuInv, ScreenIsDrawn, ClicksAreOfTheScreen, DaemonFollowsMenu, WatchPolls, InLoop
  <2> QED
    BY <2>1, <2>2, <2>3 DEF MenuInv
<1> QED
  BY <1>1, <1>2 DEF Watcher

\* The halves of reload: what is in use and in the registry follows the file.
LEMMA ReloadSteps == ASSUME MenuInv, Reload \/ Rewatch PROVE MenuInv'
<1>1. CASE Reload
  <2> DEFINE settings == SettingsRead
  <2>0. settings \in Settings
    BY DEF MenuInv, MenuTypes, Files, Hosts, SettingsRead
  <2>1. PICK refused \in BOOLEAN :
          /\ SyncLogin(settings.login, refused)
          /\ host' = [host EXCEPT !.settings = settings, !.read = disk.version,
                        !.problems = (IF disk.broken THEN {"broken"} ELSE {}) \cup (IF refused THEN {"login"} ELSE {})]
          /\ live' = [live EXCEPT !.config = settings]
    BY <1>1 DEF Reload
  <2>2. (disk.broken \/ settings = disk.sets)
    BY DEF SettingsRead
  <2> HIDE DEF settings
  <2>3. /\ host'.settings = settings /\ host'.read = disk.version /\ host'.actions = host.actions
        /\ refused => "login" \in host'.problems
        /\ live'.config = settings /\ live'.enabled = live.enabled
        /\ host' \in Hosts
        /\ live' \in Lives
    BY <2>0, <2>1 DEF MenuInv, MenuTypes, Hosts, Lives, Files
  <2>4. /\ loop'.at = "rewatch" /\ loop'.then = loop.then
        /\ loop' \in Frames
        /\ InLoop("reload")
    BY <1>1 DEF Reload, GoTo, MenuInv, MenuTypes, InLoop, Frames
  <2>5. MenuTypes'
    <3>0. watch' = NewWatch
      BY <1>1 DEF Reload
    <3>1. watch' \in Watches /\ watch'.base = 0
      BY <3>0 DEF NewWatch, Watches, NotYet, Calm
    <3>2. disk.version \in Nat
      BY DEF MenuInv, MenuTypes, Files
    <3>3. watch'.base <= disk.version
      BY <3>1, <3>2
    <3>4. UNCHANGED <<disk, screen, clicks>>
      BY <1>1 DEF Reload
    <3> QED
      BY <2>3, <2>4, <3>1, <3>3, <3>4 DEF MenuInv, MenuTypes, InLoop
  <2>6. ScreenIsDrawn' /\ ClicksAreOfTheScreen'
    BY <1>1, <2>3, <2>4 DEF MenuInv, ScreenIsDrawn, ClicksAreOfTheScreen, Reload, InLoop
  <2>7. DaemonFollowsMenu'
    BY <1>1, <2>1, <2>3, <2>4 DEF DaemonFollowsMenu, SyncLogin, Reload, InLoop
  <2>8. WatcherKnows'
    BY <1>1, <2>2, <2>3 DEF WatcherKnows, Fresh, Reload
  <2> QED
    BY <2>5, <2>6, <2>7, <2>8 DEF MenuInv
<1>2. CASE Rewatch
  <2>0. /\ live' \in Lives /\ live'.enabled = host.settings.enabled /\ live'.config = live.config
        /\ loop' \in Frames /\ loop'.at = loop.then /\ loop'.at \in {"poll", "model", "drain"}
    BY <1>2 DEF MenuInv, MenuTypes, Rewatch, GoTo, Settings, Lives, Hosts, Frames
  <2>1. MenuTypes' /\ live'.enabled = host.settings.enabled /\ live'.config = live.config /\ loop'.at = loop.then
    BY <1>2, <2>0 DEF MenuInv, MenuTypes, Rewatch, InLoop
  <2>2. WatcherKnows'
    BY <1>2, <2>0 DEF MenuInv, WatcherKnows, Rewatch, InLoop, Fresh
  <2>3. ScreenIsDrawn' /\ ClicksAreOfTheScreen'
    BY <1>2, <2>0 DEF MenuInv, ScreenIsDrawn, ClicksAreOfTheScreen, Rewatch, InLoop
  <2>4. DaemonFollowsMenu'
    BY <1>2, <2>0 DEF MenuInv, DaemonFollowsMenu, Rewatch, InLoop
  <2> QED
    BY <2>1, <2>2, <2>3, <2>4 DEF MenuInv
<1> QED
  BY <1>1, <1>2

\* The steps of a frame that only go on. On Windows the clicks are gone before
\* the loop goes back to the file.
LEMMA FrameSteps == ASSUME MenuInv, PollFile \/ EventsEnd \/ DrainEnds PROVE MenuInv'
<1>1. CASE PollFile
  <2>0. /\ loop' \in Frames /\ InLoop("poll")
        /\ loop'.at \in {"reload", "model"} /\ (loop'.at = "reload" => loop'.then = "model")
    BY <1>1 DEF PollFile, GoTo, MenuInv, MenuTypes, Frames, InLoop
  <2>1. MenuTypes'
    BY <1>1, <2>0 DEF MenuInv, MenuTypes, PollFile, InLoop
  <2>2. WatcherKnows'
    BY <1>1, <2>0 DEF MenuInv, WatcherKnows, PollFile, InLoop, Fresh
  <2>3. ScreenIsDrawn' /\ ClicksAreOfTheScreen' /\ DaemonFollowsMenu'
    BY <1>1, <2>0 DEF MenuInv, ScreenIsDrawn, ClicksAreOfTheScreen, DaemonFollowsMenu, PollFile, InLoop
  <2> QED
    BY <2>1, <2>2, <2>3 DEF MenuInv
<1>2. CASE EventsEnd
  <2>0. /\ loop' \in Frames /\ InLoop("events")
        /\ loop'.at \in {"poll", "drain"} /\ (platform = "windows" => loop'.at = "drain")
    BY <1>2 DEF EventsEnd, GoTo, MenuInv, MenuTypes, Frames, InLoop
  <2>1. MenuTypes'
    BY <1>2, <2>0 DEF MenuInv, MenuTypes, EventsEnd, InLoop
  <2>2. WatcherKnows'
    BY <1>2, <2>0 DEF MenuInv, WatcherKnows, EventsEnd, InLoop, Fresh
  <2>3. ScreenIsDrawn' /\ ClicksAreOfTheScreen' /\ DaemonFollowsMenu'
    BY <1>2, <2>0 DEF MenuInv, ScreenIsDrawn, ClicksAreOfTheScreen, DaemonFollowsMenu, EventsEnd, InLoop
  <2> QED
    BY <2>1, <2>2, <2>3 DEF MenuInv
<1>3. CASE DrainEnds
  <2>0. /\ loop' \in Frames /\ InLoop("drain")
        /\ loop'.at \in {"poll", "events"} /\ (platform = "windows" => loop'.at = "poll")
    BY <1>3 DEF DrainEnds, GoTo, MenuInv, MenuTypes, Frames, InLoop
  <2>1. MenuTypes'
    BY <1>3, <2>0 DEF MenuInv, MenuTypes, DrainEnds, InLoop
  <2>2. WatcherKnows'
    BY <1>3, <2>0 DEF MenuInv, WatcherKnows, DrainEnds, InLoop, Fresh
  <2>3. ScreenIsDrawn' /\ ClicksAreOfTheScreen' /\ DaemonFollowsMenu'
    BY <1>3, <2>0 DEF MenuInv, ScreenIsDrawn, ClicksAreOfTheScreen, DaemonFollowsMenu, DrainEnds, InLoop
  <2> QED
    BY <2>1, <2>2, <2>3 DEF MenuInv
<1> QED
  BY <1>1, <1>2, <1>3

\* New rows and their actions come together.
LEMMA DrawSteps == ASSUME MenuInv, Draw PROVE MenuInv'
<1> DEFINE menu == Build(platform, blocked, host.settings)
<1>1. /\ menu \in Seq(MenuEntries) /\ host' = [host EXCEPT !.actions = ActionsOf(menu)] /\ screen' = RowsOf(menu)
      /\ \E i \in 1..Len(menu) : menu[i][1] = Row("Pause Dictation", host.settings.enabled # "true")
  <2>1. /\ Build(platform, blocked, host.settings) \in Seq(MenuEntries)
        /\ \E i \in 1..Len(Build(platform, blocked, host.settings)) :
             Build(platform, blocked, host.settings)[i][1] = Row("Pause Dictation", host.settings.enabled # "true")
    <3>1. DrawnFor(Build(platform, blocked, host.settings), host.settings)
      BY BuildIs, Zenon
    <3> QED
      BY <3>1, Zenon DEF DrawnFor
  <2>2. host' = [host EXCEPT !.actions = ActionsOf(menu)] /\ screen' = RowsOf(menu)
    BY DEF Draw, Apply
  <2> QED
    BY <2>1, <2>2, Zenon
<1> HIDE DEF menu
<1>2. /\ screen' \in Seq(Rows) /\ host'.actions \in Seq(Actions)
      /\ Len(screen') = Len(menu) /\ Len(host'.actions) = Len(menu)
      /\ \A i \in 1..Len(menu) : screen'[i] = menu[i][1] /\ host'.actions[i] = Asked(screen'[i])
      /\ host'.settings = host.settings /\ host'.problems = host.problems /\ host'.read = host.read
      /\ host' \in Hosts
  <2>1. /\ RowsOf(menu) \in Seq(Rows) /\ ActionsOf(menu) \in Seq(Actions)
        /\ Len(RowsOf(menu)) = Len(menu) /\ Len(ActionsOf(menu)) = Len(menu)
        /\ \A i \in 1..Len(menu) : RowsOf(menu)[i] = menu[i][1] /\ ActionsOf(menu)[i] = Asked(RowsOf(menu)[i])
    BY <1>1, RowsAndActionsAre, Zenon
  <2>2. /\ host'.actions = ActionsOf(menu) /\ host'.settings = host.settings /\ host'.problems = host.problems
        /\ host'.read = host.read /\ host' \in Hosts
    BY <1>1, <2>1 DEF MenuInv, MenuTypes, Hosts
  <2> QED
    BY <1>1, <2>1, <2>2, Zenon
<1>3. /\ loop'.at \in {"drain", "events"} /\ (platform = "windows" => loop'.at = "events")
      /\ InLoop("model") /\ loop'.then = loop.then
      /\ loop' \in Frames
  BY DEF Draw, GoTo, InLoop, MenuInv, MenuTypes, Frames
<1>4. MenuTypes'
  <2>1. UNCHANGED <<disk, live, watch, clicks>>
    BY DEF Draw
  <2> QED
    BY <1>2, <1>3, <2>1 DEF MenuInv, MenuTypes, InLoop
<1>5. ScreenIsDrawn'
  <2>1. PICK i \in 1..Len(menu) : menu[i][1] = Row("Pause Dictation", host.settings.enabled # "true")
    BY <1>1
  <2>2. i \in 1..Len(screen') /\ screen'[i] = Row("Pause Dictation", host'.settings.enabled # "true")
    BY <1>2, <2>1, Zenon
  <2>3. /\ Len(host'.actions) = Len(screen')
        /\ \A k \in 1..Len(screen') : host'.actions[k] = Asked(screen'[k])
    BY <1>2, Zenon
  <2> QED
    BY <2>2, <2>3, Zenon DEF ScreenIsDrawn
<1>6. ClicksAreOfTheScreen'
  BY <1>3 DEF MenuInv, ClicksAreOfTheScreen, Draw, InLoop
<1>7. DaemonFollowsMenu' /\ WatcherKnows'
  BY <1>2, <1>3 DEF MenuInv, DaemonFollowsMenu, WatcherKnows, Fresh, Draw, InLoop
<1> QED
  BY <1>4, <1>5, <1>6, <1>7 DEF MenuInv

\* A click is on a row of the screen.
LEMMA ClickSteps == ASSUME MenuInv, NEW row \in DOMAIN screen, Click(row) PROVE MenuInv'
<1>1. row \in 1..Len(screen) /\ row \in Nat \ {0} /\ Asked(screen[row]) \in Actions /\ Len(screen) \in Nat
  <2>1. row \in 1..Len(screen) /\ Len(screen) \in Nat
    BY DEF MenuInv, MenuTypes
  <2>2. host.actions \in Seq(Actions) /\ Len(host.actions) = Len(screen) /\ host.actions[row] = Asked(screen[row])
    BY <2>1 DEF MenuInv, MenuTypes, Hosts, ScreenIsDrawn
  <2>3. host.actions[row] \in Actions
    BY <2>1, <2>2
  <2> QED
    BY <2>1, <2>2, <2>3
<1> DEFINE click == [number |-> row, asked |-> Asked(screen[row])]
<1>2. click \in ClickKinds /\ click.number = row /\ click.asked = Asked(screen[row])
  BY <1>1 DEF ClickKinds
<1>3. clicks' = clicks \/ clicks' = Append(clicks, click)
  BY DEF Click, TrackPopup, MenuAction
<1> HIDE DEF click
<1>4. /\ clicks' \in Seq(ClickKinds)
      /\ Len(clicks') >= Len(clicks)
      /\ \A i \in 1..Len(clicks') : (i \in 1..Len(clicks) /\ clicks'[i] = clicks[i]) \/ clicks'[i] = click
  <2>1. clicks \in Seq(ClickKinds)
    BY DEF MenuInv, MenuTypes
  <2> QED
    BY <1>2, <1>3, <2>1
<1>5. MenuTypes' /\ ScreenIsDrawn' /\ DaemonFollowsMenu' /\ WatcherKnows'
  BY <1>4 DEF MenuInv, MenuTypes, ScreenIsDrawn, DaemonFollowsMenu, WatcherKnows, Fresh, Click, InLoop
<1>6. ClicksAreOfTheScreen'
  BY <1>1, <1>2, <1>4 DEF MenuInv, ClicksAreOfTheScreen, Click, InLoop
<1> QED
  BY <1>5, <1>6 DEF MenuInv

\* The action looked up for a click is, on Windows, that of its row.
LEMMA HandleSteps == ASSUME MenuInv, Handle PROVE MenuInv'
<1> DEFINE click == Head(clicks)
           action == IF click.number <= Len(host.actions) THEN host.actions[click.number] ELSE Nowhere
           sets == action # Nowhere /\ action[1] = "set"
<1>1. /\ clicks # <<>> /\ clicks' = Tail(clicks) /\ InLoop("drain")
      /\ misfired' = (misfired \/ action \notin {Nowhere, click.asked})
      /\ \/ /\ sets /\ ~disk.broken /\ Updated(action) # disk.sets
            /\ loop' = [at |-> "rename", then |-> "drain", tmp |-> Updated(action)]
         \/ /\ action = <<"reload">> \/ (sets /\ (disk.broken \/ Updated(action) = disk.sets))
            /\ loop' = [loop EXCEPT !.at = "reload", !.then = "drain"]
         \/ action = <<"quit">> /\ loop' = [loop EXCEPT !.at = "gone"]
         \/ ~sets /\ action \notin {<<"reload">>, <<"quit">>} /\ loop' = loop
      /\ host' = IF sets /\ disk.broken THEN [host EXCEPT !.problems = @ \cup {"unsaved"}] ELSE host
  BY DEF Handle
<1>2. click = clicks[1] /\ click \in ClickKinds /\ 1 \in 1..Len(clicks)
  <2>1. clicks \in Seq(ClickKinds) /\ clicks # <<>>
    BY <1>1 DEF MenuInv, MenuTypes
  <2> QED
    BY <2>1
<1>3. click.number \in Nat \ {0} /\ host.actions \in Seq(Actions)
  BY <1>2 DEF MenuInv, MenuTypes, ClickKinds, Hosts
<1>4. action \in Actions \cup {Nowhere}
  BY <1>3
<1>5. sets => Updated(action) \in Settings
  <2>1. disk.sets \in Settings
    BY DEF MenuInv, MenuTypes, Files
  <2> QED
    BY <1>4, <2>1, UpdatesAreSettings, Zenon DEF Updated
<1>6. platform = "windows" => action \in {Nowhere, click.asked}
  <2>1. ASSUME platform = "windows"
        PROVE  click.number \in 1..Len(screen) /\ click.asked = Asked(screen[click.number])
    BY <1>2, <2>1, Zenon DEF MenuInv, ClicksAreOfTheScreen
  <2>2. \A i \in 1..Len(screen) : host.actions[i] = Asked(screen[i])
    BY DEF MenuInv, ScreenIsDrawn
  <2> QED
    BY <2>1, <2>2, Zenon
<1> HIDE DEF action, click
<1>7. \/ loop' = loop
      \/ loop' = [loop EXCEPT !.at = "gone"]
      \/ loop' = [loop EXCEPT !.at = "reload", !.then = "drain"]
      \/ sets /\ loop' = [at |-> "rename", then |-> "drain", tmp |-> Updated(action)]
  BY <1>1
<1>8. /\ loop'.at \in {"drain", "gone", "reload", "rename"}
      /\ loop' \in Frames
      /\ loop'.at = "reload" => loop'.then = "drain"
      /\ loop'.at = "rename" => loop'.tmp \in Settings /\ loop'.then = "drain"
  <2>1. loop \in Frames /\ loop.at = "drain"
    BY <1>1 DEF MenuInv, MenuTypes, InLoop
  <2> QED
    <3>1. CASE loop' = loop
      BY <2>1, <3>1
    <3>2. CASE loop' = [loop EXCEPT !.at = "gone"]
      BY <2>1, <3>2 DEF Frames
    <3>3. CASE loop' = [loop EXCEPT !.at = "reload", !.then = "drain"]
      BY <2>1, <3>3 DEF Frames
    <3>4. CASE sets /\ loop' = [at |-> "rename", then |-> "drain", tmp |-> Updated(action)]
      BY <1>5, <3>4 DEF Frames
    <3> QED
      BY <1>7, <3>1, <3>2, <3>3, <3>4
<1>9. /\ host' \in Hosts
      /\ host'.settings = host.settings /\ host'.read = host.read /\ host'.actions = host.actions
      /\ host.problems \subseteq host'.problems
  BY <1>1 DEF MenuInv, MenuTypes, Hosts
<1>10. /\ clicks' \in Seq(ClickKinds)
      /\ \A i \in 1..Len(clicks') : i + 1 \in 1..Len(clicks) /\ clicks'[i] = clicks[i + 1]
  <2>1. clicks \in Seq(ClickKinds) /\ clicks # <<>> /\ clicks' = Tail(clicks)
    BY <1>1 DEF MenuInv, MenuTypes
  <2> QED
    BY <2>1
<1>11. UNCHANGED <<platform, disk, live, login, blocked, watch, screen, gap>>
  BY DEF Handle
<1>12. MenuTypes'
  BY <1>1, <1>8, <1>9, <1>10, <1>11 DEF MenuInv, MenuTypes, InLoop
<1>13. ScreenIsDrawn'
  BY <1>8, <1>9, <1>11 DEF MenuInv, ScreenIsDrawn, InLoop
<1>14. ClicksAreOfTheScreen'
  BY <1>1, <1>6, <1>8, <1>10, <1>11 DEF MenuInv, ClicksAreOfTheScreen, InLoop
<1>15. DaemonFollowsMenu' /\ WatcherKnows'
  BY <1>1, <1>8, <1>9, <1>11 DEF MenuInv, DaemonFollowsMenu, WatcherKnows, Fresh, InLoop
<1> QED
  BY <1>12, <1>13, <1>14, <1>15 DEF MenuInv

\* The file put in place, or not, is read next.
LEMMA RenameSteps == ASSUME MenuInv, Rename PROVE MenuInv'
<1>1. /\ InLoop("rename") /\ loop'.at = "reload" /\ loop'.then = "drain" /\ loop.tmp \in Settings
      /\ loop' \in Frames
  BY DEF Rename, MenuInv, MenuTypes, InLoop, Frames
<1>2. /\ host' \in Hosts
      /\ host'.settings = host.settings /\ host'.actions = host.actions /\ host.problems \subseteq host'.problems
      /\ disk' \in Files /\ disk'.version >= disk.version
  <2>1. host \in Hosts /\ disk \in Files
    BY DEF MenuInv, MenuTypes
  <2>2. ASSUME host' = [host EXCEPT !.problems = @ \cup {"unsaved"}]
        PROVE  /\ host' \in Hosts
               /\ host'.settings = host.settings /\ host'.actions = host.actions /\ host.problems \subseteq host'.problems
    BY <2>1, <2>2 DEF Hosts
  <2>3. ASSUME disk' = [sets |-> loop.tmp, broken |-> FALSE, version |-> disk.version + 1]
        PROVE  disk' \in Files /\ disk'.version >= disk.version
    BY <1>1, <2>1, <2>3 DEF Files
  <2>4. disk.version >= disk.version
    BY <2>1 DEF Files
  <2> QED
    BY <2>1, <2>2, <2>3, <2>4 DEF Rename
<1>3. MenuTypes'
  <2>1. disk.version \in Nat /\ disk'.version \in Nat /\ watch.base \in Nat
    BY <1>2 DEF MenuInv, MenuTypes, Files, Watches
  <2> QED
    BY <1>1, <1>2, <2>1 DEF Rename, MenuInv, MenuTypes, InLoop
<1>4. ScreenIsDrawn' /\ ClicksAreOfTheScreen'
  BY <1>1, <1>2 DEF Rename, MenuInv, ScreenIsDrawn, ClicksAreOfTheScreen, InLoop
<1>5. DaemonFollowsMenu' /\ WatcherKnows'
  BY <1>1, <1>2 DEF Rename, MenuInv, DaemonFollowsMenu, WatcherKnows, InLoop
<1> QED
  BY <1>3, <1>4, <1>5 DEF MenuInv

\* A version of the file that the watcher has not seen is not its baseline.
LEMMA EditSteps == ASSUME MenuInv, EditFile PROVE MenuInv'
<1>1. disk' \in Files /\ disk'.version = disk.version + 1
  <2>1. disk \in Files
    BY DEF MenuInv, MenuTypes
  <2>2. ASSUME NEW e \in {"true", "false"} PROVE [disk.sets EXCEPT !.enabled = e] \in Settings
    BY <2>1 DEF Files, Settings, Switch
  <2>3. ASSUME NEW e \in {"true", "false"},
               disk' = [sets |-> [disk.sets EXCEPT !.enabled = e], broken |-> FALSE, version |-> disk.version + 1]
        PROVE  disk' \in Files /\ disk'.version = disk.version + 1
    BY <2>1, <2>2, <2>3 DEF Files
  <2>4. ASSUME disk' = [disk EXCEPT !.broken = TRUE, !.version = @ + 1]
        PROVE  disk' \in Files /\ disk'.version = disk.version + 1
    <3>1. disk' = [sets |-> disk.sets, broken |-> TRUE, version |-> disk.version + 1]
      BY <2>1, <2>4 DEF Files
    <3> QED
      BY <2>1, <3>1 DEF Files
  <2> QED
    BY <2>3, <2>4 DEF EditFile
<1>2. watch.base \in Nat /\ disk.version \in Nat /\ watch.base <= disk.version
  BY DEF MenuInv, MenuTypes, Files, Watches
<1>3. MenuTypes'
  BY <1>1, <1>2 DEF EditFile, MenuInv, MenuTypes, InLoop
<1>4. ScreenIsDrawn' /\ ClicksAreOfTheScreen' /\ DaemonFollowsMenu'
  BY DEF EditFile, MenuInv, ScreenIsDrawn, ClicksAreOfTheScreen, DaemonFollowsMenu, InLoop
<1>5. WatcherKnows'
  <2>1. gap' = (gap \/ InLoop("rewatch") \/ watch.base = NotYet) /\ UNCHANGED <<watch, loop>>
    BY DEF EditFile
  <2> QED
    <3>1. watch.base # disk'.version
      BY <1>1, <1>2
    <3>2. ~gap' => watch.base # NotYet
      BY <2>1
    <3> QED
      BY <2>1, <3>1, <3>2 DEF WatcherKnows
<1> QED
  BY <1>3, <1>4, <1>5 DEF MenuInv

\* What is blocked changes no more than the next rows.
LEMMA ReportSteps == ASSUME MenuInv, NEW what, Report(what) PROVE MenuInv'
<1>1. UNCHANGED <<platform, disk, host, live, login, watch, screen, clicks, loop, gap, misfired>>
  BY DEF Report
<1> QED
  BY <1>1 DEF MenuInv, MenuTypes, ScreenIsDrawn, ClicksAreOfTheScreen, DaemonFollowsMenu, WatcherKnows, Fresh, InLoop

\* MenuInv is inductive.
LEMMA MenuSteps == MenuInv /\ [MenuNext]_menuVars => MenuInv'
<1> SUFFICES ASSUME MenuInv, [MenuNext]_menuVars PROVE MenuInv'
  OBVIOUS
<1>1. CASE UNCHANGED menuVars
  BY <1>1 DEF menuVars, MenuInv, MenuTypes, ScreenIsDrawn, ClicksAreOfTheScreen, DaemonFollowsMenu, WatcherKnows, Fresh, InLoop
<1>2. CASE DisplayLoop
  BY <1>2, ReloadSteps, FrameSteps, DrawSteps, HandleSteps, RenameSteps, Zenon DEF DisplayLoop
<1>3. CASE Watcher
  BY <1>3, WatcherSteps
<1>4. CASE EditFile
  BY <1>4, EditSteps
<1>5. ASSUME NEW row \in DOMAIN screen, Click(row) PROVE MenuInv'
  BY <1>5, ClickSteps
<1>6. ASSUME NEW what \in {"input", "microphone"}, Report(what) PROVE MenuInv'
  BY <1>6, ReportSteps
<1> QED
  BY <1>1, <1>2, <1>3, <1>4, <1>5, <1>6, Zenon DEF MenuNext

\* However often the file is edited, broken or put in place from the menu, and
\* whatever is clicked, blocked or reloaded in between: on Windows a click does
\* what its row said or nothing; when rows can be clicked, the Pause switch, the
\* configuration, the tick and the registry agree with the menu's settings; and
\* an edit outside the gap of reload that the watcher has settled on has been
\* read (menuhost.rs, win_tray.rs, watch.rs).
THEOREM MenuAlwaysTrue == MenuSpec => [](ClickDoesWhatItSays /\ MenuTellsTheTruth /\ FollowsFile)
<1>1. MenuInv => ClickDoesWhatItSays /\ MenuTellsTheTruth /\ FollowsFile
  <2> SUFFICES ASSUME MenuInv PROVE ClickDoesWhatItSays /\ MenuTellsTheTruth /\ FollowsFile
    OBVIOUS
  <2>1. ClickDoesWhatItSays
    BY DEF MenuInv, ClicksAreOfTheScreen, ClickDoesWhatItSays
  <2>2. MenuTellsTheTruth
    <3>1. DOMAIN screen = 1..Len(screen)
      BY DEF MenuInv, MenuTypes
    <3> QED
      BY <3>1 DEF MenuInv, ScreenIsDrawn, DaemonFollowsMenu, MenuTellsTheTruth, AppSettings, InLoop
  <2>3. FollowsFile
    BY DEF MenuInv, WatcherKnows, Fresh, FollowsFile, InLoop
  <2> QED
    BY <2>1, <2>2, <2>3
<1> QED
  BY <1>1, MenuStartsTrue, MenuSteps, PTL DEF MenuSpec

-----------------------------------------------------------------------------
(* The spoken command: what a phrase means.                                 *)

Spelling == {"please", "open", "switch", "back", "to", "the", "fire", "fyre", "firefox", "firewall", "fox", "wildfire"}
Phrase == Seq(Spelling)

\* Entries of which no two have one name.
Listed(apps) == apps \subseteq Entries /\ IsFiniteSet(apps) /\ \A a, b \in apps : a.name = b.name => a = b

\* What launching app for a spoken name is right of.
Fits(entry, name, apps) ==
  /\ entry \in apps
  /\ \A other \in apps \ {entry} :
       /\ entry.name # name => other.name # name
       /\ WordPrefix(name, {entry}) = {} => WordPrefix(name, {other}) = {}
       /\ entry.name # name /\ WordPrefix(name, {entry}) # {} => WordPrefix(name, {other}) = {}
       /\ WordPrefix(name, {entry}) = {} => sounds[entry.name] >= 72 /\ (HoldsName(other.name, name) \/ sounds[other.name] < sounds[entry.name])

\* A name is at the start of itself.
LEMMA NameStartsItself == ASSUME NEW entry \in Entries PROVE WordPrefix(entry.name, {entry}) # {}
<1> DEFINE name == entry.name
<1>1. name \in Phrase
  <2>1. entry.name \in AppNames
    BY DEF Entries
  <2> SUFFICES ASSUME NEW n \in AppNames PROVE n \in Seq(Spelling)
    BY <2>1 DEF Phrase
  <2>2. \A w \in Spelling : <<w>> \in Seq(Spelling)
    OBVIOUS
  <2>3. \A w, z \in Spelling : <<w, z>> \in Seq(Spelling)
    OBVIOUS
  <2>4. "firefox" \in Spelling /\ "firewall" \in Spelling /\ "fire" \in Spelling /\ "fox" \in Spelling /\ "wildfire" \in Spelling
    BY DEF Spelling
  <2> HIDE DEF Spelling
  <2>5. n = <<"firefox">> \/ n = <<"firewall">> \/ n = <<"fire", "fox">> \/ n = <<"wildfire">>
    BY DEF AppNames
  <2> QED
    BY <2>2, <2>3, <2>4, <2>5
<1>2. \A w : Begins(w, w)
  BY DEF Begins
<1> HIDE DEF name
<1>3. StartsAt(name, 1, name)
  BY <1>1, <1>2 DEF StartsAt, Phrase
<1> QED
  BY <1>3 DEF WordPrefix, name

\* Which of the applications a prefix fits is said of each alone.
LEMMA PrefixOfEach ==
  ASSUME NEW name, NEW apps, NEW entry \in apps
  PROVE  (entry \in WordPrefix(name, apps)) <=> (WordPrefix(name, {entry}) # {})
BY DEF WordPrefix

\* What a name is resolved to, if to anything, is what it can mean alone.
LEMMA ResolveMeans ==
  ASSUME NEW name, NEW apps, Listed(apps), sounds \in [AppNames -> Nat], ResolveApp(name, apps).kind = "launch"
  PROVE  Fits(ResolveApp(name, apps).app, name, apps)
<1> DEFINE exact == Exact(name, apps)
           prefix == WordPrefix(name, apps)
           ear == ByEar(name, apps)
           entry == ResolveApp(name, apps).app
           only(s) == [kind |-> "launch", app |-> CHOOSE a \in s : TRUE]
<1>1. /\ exact \subseteq apps /\ prefix \subseteq apps /\ ear \subseteq apps
      /\ \A a \in apps : (a \in exact) <=> (a.name = name)
  BY DEF Exact, WordPrefix, ByEar
<1>2. IsFiniteSet(exact) /\ IsFiniteSet(prefix)
  BY <1>1, FS_Subset DEF Listed
<1>3. \A a \in apps : (a \in prefix) <=> (WordPrefix(name, {a}) # {})
  BY PrefixOfEach
<1>4. \A a \in apps : a.name = name => WordPrefix(name, {a}) # {}
  BY NameStartsItself DEF Listed
<1>5. ASSUME NEW s, IsFiniteSet(s), Cardinality(s) = 1
      PROVE  (CHOOSE a \in s : TRUE) \in s /\ s = {CHOOSE a \in s : TRUE}
  <2>1. PICK x : s = {x}
    BY <1>5, FS_Singleton
  <2> QED
    BY <2>1
<1>6. exact # {} => Cardinality(exact) = 1
  <2> SUFFICES ASSUME NEW a \in exact PROVE Cardinality(exact) = 1
    OBVIOUS
  <2>1. exact = {a}
    BY <1>1 DEF Listed
  <2> QED
    BY <2>1, FS_Singleton
<1>7. Cardinality(prefix) \in Nat /\ (Cardinality(prefix) = 0 <=> prefix = {})
  BY <1>2, FS_CardinalityType, FS_EmptySet
<1>8. ResolveApp(name, apps) =
        IF Cardinality(exact) = 1 THEN only(exact)
        ELSE IF Cardinality(prefix) = 1 THEN only(prefix)
        ELSE IF Cardinality(prefix) > 1 THEN [kind |-> "ambiguous", app |-> NoApp]
        ELSE IF ear = {} THEN [kind |-> "unknown app", app |-> NoApp]
        ELSE IF \E a \in ear : Clear(a, ear) THEN only({a \in ear : Clear(a, ear)})
        ELSE [kind |-> "ambiguous", app |-> NoApp]
  BY Zenon DEF ResolveApp
<1> HIDE DEF exact, prefix, ear
<1>9. CASE Cardinality(exact) = 1
  <2>1. entry = CHOOSE a \in exact : TRUE
    BY <1>8, <1>9
  <2>2. entry \in exact /\ exact = {entry}
    BY <1>2, <1>5, <1>9, <2>1, Zenon
  <2>3. entry \in apps /\ entry.name = name /\ WordPrefix(name, {entry}) # {}
    BY <1>1, <1>4, <2>2
  <2> QED
    BY <2>3, Zenon DEF Fits
<1>10. CASE Cardinality(exact) # 1 /\ Cardinality(prefix) = 1
  <2>1. entry = CHOOSE a \in prefix : TRUE
    BY <1>8, <1>10
  <2>2. entry \in prefix /\ prefix = {entry}
    BY <1>2, <1>5, <1>10, <2>1, Zenon
  <2>3. entry \in apps /\ WordPrefix(name, {entry}) # {}
    BY <1>1, <1>3, <2>2
  <2>4. \A other \in apps \ {entry} : other.name # name /\ WordPrefix(name, {other}) = {}
    BY <1>1, <1>3, <1>6, <1>10, <2>2
  <2> QED
    BY <2>3, <2>4, Zenon DEF Fits
<1>11. CASE Cardinality(exact) # 1 /\ prefix = {} /\ \E a \in ear : Clear(a, ear)
  <2> DEFINE clear == {a \in ear : Clear(a, ear)}
  <2>1. entry = CHOOSE a \in clear : TRUE
    <3>1. Cardinality(exact) # 1 /\ Cardinality(prefix) # 1 /\ ~(Cardinality(prefix) > 1) /\ ear # {}
      BY <1>7, <1>11
    <3>2. ResolveApp(name, apps) = only(clear)
      BY <1>8, <1>11, <3>1, Zenon
    <3> QED
      BY <3>2
  <2>2. entry \in ear /\ Clear(entry, ear)
    BY <1>11, <2>1
  <2>3. entry \in apps /\ sounds[entry.name] >= 72
    BY <1>1, <2>2 DEF ear, ByEar
  <2>4. \A a \in apps : sounds[a.name] \in Nat
    BY DEF Listed, Entries
  <2>5. ASSUME NEW other \in apps \ {entry}
        PROVE  /\ other.name # name /\ WordPrefix(name, {other}) = {}
               /\ HoldsName(other.name, name) \/ sounds[other.name] < sounds[entry.name]
    <3>1. other.name # name /\ WordPrefix(name, {other}) = {}
      BY <1>1, <1>3, <1>6, <1>11
    <3>2. CASE other \in ear
      <4>1. sounds[entry.name] > sounds[other.name] + 8
        BY <2>2, <3>2 DEF Clear
      <4> QED
        BY <2>3, <2>4, <3>1, <4>1
    <3>3. CASE other \notin ear
      <4>1. HoldsName(other.name, name) \/ ~(sounds[other.name] >= 72)
        BY <3>3 DEF ear, ByEar
      <4>2. sounds[entry.name] \in Nat /\ sounds[other.name] \in Nat
        BY <2>3, <2>4
      <4>3. ~(sounds[other.name] >= 72) => sounds[other.name] < sounds[entry.name]
        BY <2>3, <4>2
      <4> QED
        BY <3>1, <4>1, <4>3, Zenon
    <3> QED
      BY <3>2, <3>3
  <2> QED
    BY <2>3, <2>5, Zenon DEF Fits
<1>12. CASE Cardinality(exact) # 1 /\ Cardinality(prefix) # 1 /\ ~(prefix = {} /\ \E a \in ear : Clear(a, ear))
  <2> DEFINE other(kind) == [kind |-> kind, app |-> NoApp]
  <2>0. \A kind : other(kind).kind = kind
    OBVIOUS
  <2>4. ResolveApp(name, apps) \in {other("ambiguous"), other("unknown app")}
    <3>1. CASE prefix = {}
      BY <1>7, <1>8, <1>12, <3>1
    <3>2. CASE prefix # {}
      <4>1. Cardinality(prefix) > 1
        BY <1>7, <1>12, <3>2
      <4> QED
        BY <1>8, <1>12, <4>1
    <3> QED
      BY <3>1, <3>2
  <2> HIDE DEF other
  <2>5. "ambiguous" # "launch" /\ "unknown app" # "launch"
    OBVIOUS
  <2>1. ResolveApp(name, apps).kind # "launch"
    BY <2>0, <2>4, <2>5, Zenon
  <2> QED
    BY <2>1
<1> QED
  BY <1>9, <1>10, <1>11, <1>12

\* At most one verb begins a phrase.
LEMMA OneVerb ==
  ASSUME NEW said \in Phrase, NEW v \in Verbs, NEW w \in Verbs, IsPrefix(v, said), IsPrefix(w, said)
  PROVE  v = w
<1>1. \A x \in Verbs : x \in Phrase /\ Len(x) \in 1..3
  <2>1. <<"open">> \in Phrase /\ <<"switch", "to">> \in Phrase /\ <<"switch", "back", "to">> \in Phrase
    BY DEF Phrase, Spelling
  <2>2. Len(<<"open">>) = 1 /\ Len(<<"switch", "to">>) = 2 /\ Len(<<"switch", "back", "to">>) = 3
    OBVIOUS
  <2> QED
    BY <2>1, <2>2 DEF Verbs
<1>2. ASSUME NEW x \in Verbs, IsPrefix(x, said)
      PROVE  \A i \in 1..Len(x) : x[i] = said[i]
  <2>1. x \in Phrase /\ Len(x) <= Len(said) /\ SubSeq(x, 1, Len(x)) = SubSeq(said, 1, Len(x))
    BY <1>1, <1>2 DEF IsPrefix
  <2>2. \A i \in 1..Len(x) : SubSeq(x, 1, Len(x))[i] = x[i] /\ SubSeq(said, 1, Len(x))[i] = said[i]
    BY <2>1 DEF Phrase
  <2> QED
    BY <2>1, <2>2
<1>3. (\A i \in 1..Len(v) : v[i] = said[i]) /\ (\A i \in 1..Len(w) : w[i] = said[i])
  BY <1>2
<1>4. /\ Len(<<"open">>) = 1 /\ Len(<<"switch", "to">>) = 2 /\ Len(<<"switch", "back", "to">>) = 3
      /\ <<"open">>[1] = "open" /\ <<"switch", "to">>[1] = "switch" /\ <<"switch", "back", "to">>[1] = "switch"
      /\ <<"switch", "to">>[2] = "to" /\ <<"switch", "back", "to">>[2] = "back"
  OBVIOUS
<1>5. v \in {<<"open">>, <<"switch", "to">>, <<"switch", "back", "to">>} /\ w \in {<<"open">>, <<"switch", "to">>, <<"switch", "back", "to">>}
  BY DEF Verbs
<1>6. v[1] = w[1]
  BY <1>3, <1>4, <1>5
<1>7. Len(v) >= 2 /\ Len(w) >= 2 => v[2] = w[2]
  BY <1>1, <1>3
<1>8. CASE v = <<"open">>
  BY <1>4, <1>5, <1>6, <1>8
<1>9. CASE v = <<"switch", "to">>
  <2>1. w # <<"open">>
    BY <1>4, <1>6, <1>9
  <2>2. w # <<"switch", "back", "to">>
    BY <1>4, <1>7, <1>9
  <2> QED
    BY <1>5, <1>9, <2>1, <2>2
<1>10. CASE v = <<"switch", "back", "to">>
  <2>1. w # <<"open">>
    BY <1>4, <1>6, <1>10
  <2>2. w # <<"switch", "to">>
    BY <1>4, <1>7, <1>10
  <2> QED
    BY <1>5, <1>10, <2>1, <2>2
<1> QED
  BY <1>5, <1>8, <1>9, <1>10

\* What parse launches fits what was said after the verb.
LEMMA ParseMeans ==
  ASSUME request \in Phrase, NEW apps, Listed(apps), sounds \in [AppNames -> Nat],
         ParseCommand(request, apps).kind = "launch"
  PROVE  LET said == Polite(request)
             begun == {v \in Verbs : IsPrefix(v, said)}
             verb == CHOOSE v \in begun : TRUE
             name == Article(SubSeq(said, Len(verb) + 1, Len(said)))
         IN begun # {} /\ Fits(ParseCommand(request, apps).app, name, apps)
<1> DEFINE said == Polite(request)
           begun == {v \in Verbs : IsPrefix(v, said)}
           verb == CHOOSE v \in begun : TRUE
           rest == RestAfterVerb(said)
           name == Article(CHOOSE r \in rest : TRUE)
<1>1. said \in Phrase
  BY DEF Polite, Phrase
<1>2. rest = {SubSeq(said, Len(v) + 1, Len(said)) : v \in begun}
  BY DEF RestAfterVerb
<1>3. ParseCommand(request, apps) =
        IF rest = {} THEN [kind |-> "not a command", app |-> NoApp]
        ELSE IF name \in {<<>>, <<"the">>} THEN [kind |-> "no app named", app |-> NoApp]
        ELSE IF apps = {} THEN [kind |-> "no registry", app |-> NoApp]
        ELSE ResolveApp(name, apps)
  BY Zenon DEF ParseCommand
<1> HIDE DEF rest, name
<1>4. rest # {} /\ ParseCommand(request, apps) = ResolveApp(name, apps)
  <2> DEFINE other(kind) == [kind |-> kind, app |-> NoApp]
  <2>1. \A kind : other(kind).kind = kind
    OBVIOUS
  <2>2. "not a command" # "launch" /\ "no app named" # "launch" /\ "no registry" # "launch"
    OBVIOUS
  <2>3. \/ ParseCommand(request, apps) \in {other("not a command"), other("no app named"), other("no registry")}
        \/ rest # {} /\ ParseCommand(request, apps) = ResolveApp(name, apps)
    <3>1. CASE rest = {}
      BY <1>3, <3>1
    <3>2. CASE rest # {} /\ name \in {<<>>, <<"the">>}
      BY <1>3, <3>2
    <3>3. CASE rest # {} /\ name \notin {<<>>, <<"the">>} /\ apps = {}
      BY <1>3, <3>3
    <3>4. CASE rest # {} /\ name \notin {<<>>, <<"the">>} /\ apps # {}
      BY <1>3, <3>4
    <3> QED
      BY <3>1, <3>2, <3>3, <3>4
  <2> HIDE DEF other
  <2> QED
    BY <2>1, <2>2, <2>3, Zenon
<1>5. begun # {}
  BY <1>2, <1>4
<1>6. verb \in begun /\ \A v \in begun : v = verb
  BY <1>1, <1>5, OneVerb
<1> HIDE DEF said, begun, verb
<1>7. rest = {SubSeq(said, Len(verb) + 1, Len(said))}
  BY <1>2, <1>6
<1>8. name = Article(SubSeq(said, Len(verb) + 1, Len(said)))
  BY <1>7 DEF name
<1>9. Fits(ParseCommand(request, apps).app, name, apps)
  BY <1>4, ResolveMeans, Zenon
<1> QED
  BY <1>5, <1>8, <1>9, Zenon DEF said, begun, verb

-----------------------------------------------------------------------------
(* The spoken command: what is started.                                     *)

\* A file of a directory is one entry, gone or not.
OneFile(apps) == \A a, b \in apps : a.dir = b.dir /\ a.file = b.file => a = b

CommandTypes ==
  /\ installed \subseteq Entries /\ IsFiniteSet(installed) /\ OneFile(installed)
  /\ request \in Phrase /\ sounds \in [AppNames -> Nat]

CommandInv ==
  /\ CommandTypes /\ OneMeaning
  \* What has left the machine since it was listed was a file of its own.
  /\ reply.kind = "launch" => OneFile(installed \cup known)
  /\ status = "running" => started = NoApp
  /\ StartsTheNamedOne

\* Two entries are finitely many.
LEMMA PairIsFinite == ASSUME NEW a, NEW b PROVE IsFiniteSet({a, b})
<1>1. IsFiniteSet({a}) /\ {a, b} = {a} \cup {b}
  BY FS_Singleton
<1> QED
  BY <1>1, FS_AddElement

\* The machine when the command is given.
LEMMA CommandBegins == CommandInit => CommandInv
<1> SUFFICES ASSUME CommandInit PROVE CommandInv
  OBVIOUS
<1>1. installed \subseteq Entries /\ IsFiniteSet(installed) /\ OneFile(installed)
  <2>1. CASE installed \in SomeDisks
    <3> DEFINE x == [dir |-> 1, file |-> "one", name |-> <<"firefox">>, shown |-> TRUE]
               y == [dir |-> 2, file |-> "two", name |-> <<"wildfire">>, shown |-> TRUE]
    <3>1. x \in Entries /\ y \in Entries /\ x.dir = 1 /\ y.dir = 2
      BY DEF Entries, AppNames
    <3>2. installed = {} \/ installed = {x, y}
      BY <2>1 DEF SomeDisks
    <3> HIDE DEF x, y
    <3>3. IsFiniteSet(installed)
      BY <3>2, PairIsFinite, FS_EmptySet
    <3> QED
      BY <3>1, <3>2, <3>3 DEF OneFile
  <2>2. CASE installed \in Disks
    <3>1. PICK a \in Entries, b \in Entries : installed = {a, b}
      BY <2>2 DEF Disks
    <3>2. IsFiniteSet(installed)
      BY <3>1, PairIsFinite
    <3>3. \A x, y \in installed : x.dir = y.dir /\ x.file = y.file => x = y
      BY <2>2 DEF Disks
    <3> QED
      BY <3>1, <3>2, <3>3 DEF OneFile
  <2> QED
    BY <2>1, <2>2 DEF CommandInit
<1>2. request \in Phrase
  <2>1. CASE request \in Phrases
    <3>1. PICK n \in 1..MaxPhrase : request \in [1..n -> {"please", "open", "switch", "to", "the", "fire", "firefox"}]
      BY <2>1, Zenon DEF Phrases
    <3> QED
      BY <3>1 DEF Phrase, Spelling
  <2>2. CASE request \in {<<"open", "fire">>, <<"open", "firefox">>, <<"open", "the", "fyre">>}
    <3>1. <<"open", "fire">> \in Phrase /\ <<"open", "firefox">> \in Phrase /\ <<"open", "the", "fyre">> \in Phrase
      BY DEF Phrase, Spelling
    <3> QED
      BY <2>2, <3>1, Zenon
  <2> QED
    BY <2>1, <2>2 DEF CommandInit
<1>3. sounds \in [AppNames -> Nat]
  BY DEF CommandInit
<1>4. reply.kind = "none" /\ started = NoApp /\ status = "running"
  BY DEF CommandInit
<1> QED
  BY <1>1, <1>2, <1>3, <1>4 DEF CommandInv, CommandTypes, OneMeaning, StartsTheNamedOne

\* The list of what is installed, and the reply to the phrase.
LEMMA DiscoverSteps == ASSUME CommandInv, DiscoverApps PROVE CommandInv'
<1>1. known' \in Discover(installed) /\ reply' = ParseCommand(request, known') /\ reply.kind = "none" /\ status = "running"
  BY DEF DiscoverApps
<1>2. UNCHANGED <<installed, launcher, sounds, request, started>>
  BY DEF DiscoverApps
<1> DEFINE shown == {e \in installed : e.shown}
<1>3. /\ known' \in SUBSET Earliest(shown)
      /\ \A e \in shown : Cardinality({a \in known' : a.name = e.name}) = 1
  BY <1>1, Zenon DEF Discover
<1>4. known' \subseteq shown /\ known' \subseteq installed /\ IsFiniteSet(known')
  <2>1. known' \subseteq shown
    BY <1>3 DEF Earliest
  <2>2. known' \subseteq installed
    BY <2>1
  <2>3. IsFiniteSet(installed)
    BY DEF CommandInv, CommandTypes
  <2> QED
    BY <2>1, <2>2, <2>3, FS_Subset
<1>5. ASSUME NEW a \in known', NEW b \in known', a.name = b.name PROVE a = b
  <2> DEFINE alike == {c \in known' : c.name = a.name}
  <2>1. Cardinality(alike) = 1 /\ a \in alike /\ b \in alike
    BY <1>3, <1>4, <1>5
  <2>2. IsFiniteSet(alike)
    BY <1>4, FS_Subset
  <2>3. PICK x : alike = {x}
    BY <2>1, <2>2, FS_Singleton
  <2> QED
    BY <2>1, <2>3
<1>6. Listed(known') /\ \A a \in known' : a.shown
  BY <1>4, <1>5 DEF Listed, CommandInv, CommandTypes
<1>7. OneFile(installed \cup known')
  BY <1>4 DEF OneFile, CommandInv, CommandTypes
<1>8. started' = NoApp /\ status' \in {"running", "1"}
  BY <1>1, <1>2 DEF DiscoverApps, CommandInv
<1>9. CommandTypes'
  BY <1>2 DEF CommandInv, CommandTypes
<1>10. OneMeaning'
  <2> SUFFICES ASSUME reply'.kind = "launch" PROVE OneMeaning'
    BY DEF OneMeaning
  <2> DEFINE said == Polite(request)
             begun == {v \in Verbs : IsPrefix(v, said)}
             verb == CHOOSE v \in begun : TRUE
             name == Article(SubSeq(said, Len(verb) + 1, Len(said)))
  <2>1. begun # {} /\ Fits(reply'.app, name, known')
    BY <1>1, <1>6, ParseMeans DEF CommandInv, CommandTypes
  <2>2. reply'.app \in known' /\ reply'.app.shown
    BY <1>6, <2>1 DEF Fits
  <2>3. request' = request /\ sounds' = sounds
    BY <1>2
  <2> QED
    BY <2>1, <2>2, <2>3, Zenon DEF OneMeaning, Fits
<1> QED
  <2>1. StartsTheNamedOne'
    BY <1>8 DEF StartsTheNamedOne
  <2>2. OneFile(installed' \cup known')
    BY <1>2, <1>7
  <2> QED
    BY <1>8, <1>9, <1>10, <2>1, <2>2 DEF CommandInv

\* What is gone was what it was.
LEMMA UninstallSteps == ASSUME CommandInv, Uninstall PROVE CommandInv'
<1>1. /\ installed' \subseteq installed /\ status = "running" /\ reply.kind = "launch"
      /\ UNCHANGED <<launcher, sounds, request, known, reply, started, status>>
  BY DEF Uninstall
<1>2. CommandTypes'
  <2>1. IsFiniteSet(installed')
    BY <1>1, FS_Subset DEF CommandInv, CommandTypes
  <2> QED
    BY <1>1, <2>1 DEF CommandInv, CommandTypes, OneFile
<1>3. OneMeaning' /\ OneFile(installed' \cup known')
  BY <1>1 DEF CommandInv, OneMeaning, OneFile
<1> QED
  BY <1>1, <1>2, <1>3 DEF CommandInv, StartsTheNamedOne

\* The launcher reaches the file that was listed, or another of its name.
LEMMA LaunchSteps == ASSUME CommandInv, Launch PROVE CommandInv'
<1> DEFINE found == Reached(reply.app)
<1>1. /\ status = "running" /\ reply.kind = "launch"
      /\ started' = IF found = {} THEN NoApp ELSE CHOOSE e \in found : TRUE
      /\ status' = IF found = {} THEN "1" ELSE "0"
      /\ UNCHANGED <<installed, launcher, sounds, request, known, reply>>
  BY DEF Launch, ExitCode
<1>2. reply.app \in known /\ OneFile(installed \cup known)
  BY <1>1 DEF CommandInv, OneMeaning
<1>3. \A e \in found : e \in installed /\ e.file = reply.app.file /\ (launcher = "ok" => e.dir = reply.app.dir)
  BY DEF Reached
<1>4. \A e \in installed : e # NoApp
  <2>1. \A e \in Entries : "dir" \in DOMAIN e
    BY DEF Entries
  <2>2. "dir" \notin DOMAIN NoApp
    BY DEF NoApp
  <2> QED
    BY <2>1, <2>2 DEF CommandInv, CommandTypes
<1> HIDE DEF found
<1>5. /\ found = {} => started' = NoApp /\ status' = "1"
      /\ found # {} => started' \in found /\ status' = "0"
  BY <1>1
<1>6. found # {} => /\ started' # NoApp /\ started'.file = reply.app.file
                    /\ launcher = "ok" => started' = reply.app
  BY <1>2, <1>3, <1>4, <1>5 DEF OneFile
<1>7. StartsTheNamedOne'
  <2>1. UNCHANGED <<launcher, reply>>
    BY <1>1
  <2> QED
    BY <1>5, <1>6, <2>1 DEF StartsTheNamedOne
<1>8. CommandTypes' /\ OneMeaning' /\ OneFile(installed' \cup known')
  BY <1>1, <1>2 DEF CommandInv, CommandTypes, OneMeaning
<1>9. status' # "running"
  BY <1>5
<1> QED
  BY <1>7, <1>8, <1>9 DEF CommandInv

\* Whatever is installed, however it sounds, is said or goes in between, and
\* however the launcher answers: what is launched is a visible application whose
\* name the phrase ends with and no other name fits as well; what is started is
\* the file that was listed (where gio is told its path), and success is said
\* just of a launch that took place (resolve.rs, launch.rs).
THEOREM CommandsAlwaysDoWhatTheySay == CommandSpec => []CommandsDoWhatTheySay
<1>1. CommandInv /\ [CommandNext]_commandVars => CommandInv'
  <2> SUFFICES ASSUME CommandInv, [CommandNext]_commandVars PROVE CommandInv'
    OBVIOUS
  <2>1. CASE UNCHANGED commandVars
    BY <2>1 DEF commandVars, CommandInv, CommandTypes, OneMeaning, StartsTheNamedOne
  <2> QED
    BY <2>1, DiscoverSteps, UninstallSteps, LaunchSteps DEF CommandNext
<1>2. CommandInv => CommandsDoWhatTheySay
  BY DEF CommandInv, CommandsDoWhatTheySay
<1> QED
  BY <1>1, <1>2, CommandBegins, PTL DEF CommandSpec

-----------------------------------------------------------------------------
\* What is not so of every number is not so of a least one.
LEMMA LeastNumber ==
  ASSUME NEW S \in SUBSET Nat, S # {}
  PROVE  \E m \in S : \A k \in S : m <= k
<1> DEFINE Less == OpToRel(<, Nat)
<1>1. IsWellFoundedOn(Less, Nat)
  BY NatLessThanWellFounded
<1>2. \A x, y \in Nat : <<x, y>> \in Less <=> x < y
  BY DEF OpToRel
<1> HIDE DEF Less
<1>3. PICK m \in S : \A k \in S : <<k, m>> \notin Less
  BY <1>1, WFMin
<1>4. \A k \in S : ~(k < m)
  <2> TAKE k \in S
  <2>1. k \in Nat /\ m \in Nat
    OBVIOUS
  <2> QED
    BY <2>1, <1>2, <1>3
<1>5. m \in Nat /\ \A k \in S : k \in Nat
  OBVIOUS
<1>6. \A k \in S : m <= k
  BY <1>4, <1>5
<1> QED
  BY <1>6

\* What is so of zero, and of the next number whenever it is so of one below n, is so up to n.
LEMMA UpTo ==
  ASSUME NEW n \in Nat, NEW S, 0 \in S, \A i \in 0..n : i \in S /\ i < n => i + 1 \in S
  PROVE  0..n \subseteq S
<1> DEFINE Without == (0..n) \ S
<1> SUFFICES ASSUME Without # {} PROVE FALSE
  OBVIOUS
<1>1. PICK m \in Without : \A k \in Without : m <= k
  <2>1. Without \in SUBSET Nat
    OBVIOUS
  <2> HIDE DEF Without
  <2> QED
    BY <2>1, LeastNumber
<1>2. m \in 0..n /\ m # 0 /\ m \notin S
  OBVIOUS
<1>3. m - 1 \in 0..n /\ m - 1 < n /\ (m - 1) + 1 = m
  BY <1>2
<1>4. m - 1 \in S
  <2>1. m - 1 \in Without => m <= m - 1
    BY <1>1
  <2> QED
    BY <2>1, <1>2, <1>3
<1> QED
  BY <1>2, <1>3, <1>4

-----------------------------------------------------------------------------
(* The settings file: the lines of a text that set something.               *)

\* What a line adds to the settings before it.
SettingsWith(q, line) == IF IsSetting(line) THEN Append(q, line) ELSE q

\* f is what SettingsUpTo says of it.
Collects(f, t) == f = [i \in 0..Len(t) |-> IF i = 0 THEN <<>> ELSE SettingsWith(f[i - 1], t[i])]

\* The recursion of SettingsUpTo is a definition.
LEMMA SettingsUpToDef ==
  ASSUME NEW t \in Seq(FileLines)
  PROVE  Collects(SettingsUpTo(t), t)
<1> DEFINE n == Len(t)
           Upto(g, m) == g = [i \in 0..m |-> IF i = 0 THEN <<>> ELSE SettingsWith(g[i - 1], t[i])]
<1>n. n \in Nat
  OBVIOUS
<1> HIDE DEF n
<1>1. \A m \in Nat : \E g : Upto(g, m)
  <2> DEFINE Has(m) == \E g : Upto(g, m)
             Without == {m \in Nat : ~Has(m)}
  <2> SUFFICES ASSUME Without # {} PROVE FALSE
    BY DEF Has
  <2> HIDE DEF Has
  <2>1. PICK m \in Without : \A k \in Without : m <= k
    <3>1. Without \in SUBSET Nat
      OBVIOUS
    <3> HIDE DEF Without
    <3> QED
      BY <3>1, LeastNumber
  <2>2. m # 0
    <3>1. Upto([i \in 0..0 |-> <<>>], 0)
      OBVIOUS
    <3> QED
      BY <3>1 DEF Has
  <2>3. m - 1 \in Nat /\ Has(m - 1)
    BY <2>1, <2>2
  <2>4. PICK g : Upto(g, m - 1)
    BY <2>3 DEF Has
  <2> DEFINE h == [i \in 0..m |-> IF i < m THEN g[i] ELSE SettingsWith(g[m - 1], t[m])]
  <2>5. \A i \in 0..m : h[i] = IF i = 0 THEN <<>> ELSE SettingsWith(h[i - 1], t[i])
    <3> SUFFICES ASSUME NEW i \in 0..m PROVE h[i] = IF i = 0 THEN <<>> ELSE SettingsWith(h[i - 1], t[i])
      OBVIOUS
    <3>1. CASE i = m
      <4>1. h[m] = SettingsWith(g[m - 1], t[m])
        BY <2>1
      <4>2. h[m - 1] = g[m - 1]
        BY <2>1, <2>3
      <4> QED
        BY <3>1, <4>1, <4>2, <2>2
    <3>2. CASE i # m
      <4>1. i \in 0..(m - 1) /\ h[i] = g[i]
        BY <3>2, <2>1
      <4>2. g[i] = IF i = 0 THEN <<>> ELSE SettingsWith(g[i - 1], t[i])
        BY <4>1, <2>4
      <4>3. i # 0 => h[i - 1] = g[i - 1]
        BY <4>1, <2>1, <2>3
      <4> QED
        BY <4>1, <4>2, <4>3
    <3> QED
      BY <3>1, <3>2
  <2>6. Upto(h, m)
    <3> DEFINE rhs == [i \in 0..m |-> IF i = 0 THEN <<>> ELSE SettingsWith(h[i - 1], t[i])]
    <3>1. h = [i \in 0..m |-> h[i]]
      OBVIOUS
    <3>2. [i \in 0..m |-> h[i]] = rhs
      BY <2>5
    <3> QED
      BY <3>1, <3>2
  <2> QED
    BY <2>6, <2>1 DEF Has
<1>2. SettingsUpTo(t) = CHOOSE g : Upto(g, n)
  BY DEF SettingsUpTo, SettingsWith, n
<1>3. Upto(SettingsUpTo(t), n)
  <2> HIDE DEF Upto
  <2> QED
    BY <1>1, <1>2, <1>n
<1> QED
  BY <1>3 DEF Collects, n

\* The lines of a text that set something, and of these the keys a user sets.
SettingLines(t) == {t[i] : i \in {j \in DOMAIN t : IsSetting(t[j])}}
UserLines(t) == {l \in SettingLines(t) : l[1] \in Settable}

\* The lines of a text, and what its first k lines set.
LinesOf(q) == {q[j] : j \in 1..Len(q)}
SetBy(t, k) == {t[j] : j \in {m \in 1..k : IsSetting(t[m])}}

\* One more line.
LEMMA LinesGrow ==
  ASSUME NEW q \in Seq(FileLines), NEW a \in FileLines
  PROVE  Append(q, a) \in Seq(FileLines) /\ LinesOf(Append(q, a)) = LinesOf(q) \cup {a}
<1>1. /\ Append(q, a) \in Seq(FileLines) /\ Len(Append(q, a)) = Len(q) + 1
      /\ \A j \in 1..Len(q) : Append(q, a)[j] = q[j]
      /\ Append(q, a)[Len(q) + 1] = a
  BY AppendProperties
<1>2. Len(q) \in Nat /\ 1..(Len(q) + 1) = 1..Len(q) \cup {Len(q) + 1}
  OBVIOUS
<1> QED
  BY <1>1, <1>2 DEF LinesOf

\* Of the first i lines exactly those that set something are collected.
CollectedRight(t, i) ==
  SettingsUpTo(t)[i] \in Seq(FileLines) /\ LinesOf(SettingsUpTo(t)[i]) = SetBy(t, i)

\* They are, at every line.
LEMMA SettingsGrow ==
  ASSUME NEW t \in Seq(FileLines), NEW i \in 0..Len(t)
  PROVE  CollectedRight(t, i)
<1> DEFINE f == SettingsUpTo(t)
           Ok == {k \in 0..Len(t) : CollectedRight(t, k)}
<1>0. Len(t) \in Nat
  OBVIOUS
<1>1. \A k \in 0..Len(t) : f[k] = IF k = 0 THEN <<>> ELSE SettingsWith(f[k - 1], t[k])
  BY SettingsUpToDef DEF Collects
<1> HIDE DEF f
<1>2. 0 \in Ok
  <2>1. f[0] = <<>>
    BY <1>1, <1>0
  <2>2. <<>> \in Seq(FileLines) /\ LinesOf(<<>>) = {} /\ SetBy(t, 0) = {}
    BY DEF LinesOf, SetBy
  <2>3. CollectedRight(t, 0)
    BY <2>1, <2>2 DEF CollectedRight, f
  <2> QED
    BY <2>3, <1>0
<1>3. ASSUME NEW k \in 0..Len(t), k \in Ok, k < Len(t) PROVE k + 1 \in Ok
  <2>1. k + 1 \in 1..Len(t) /\ t[k + 1] \in FileLines
    BY <1>3
  <2>2. f[k] \in Seq(FileLines) /\ LinesOf(f[k]) = SetBy(t, k)
    BY <1>3 DEF CollectedRight, f
  <2>3. f[k + 1] = SettingsWith(f[k], t[k + 1])
    BY <1>1, <2>1
  <2>4. SetBy(t, k + 1) = IF IsSetting(t[k + 1]) THEN SetBy(t, k) \cup {t[k + 1]} ELSE SetBy(t, k)
    <3>1. 1..(k + 1) = 1..k \cup {k + 1}
      BY <1>3
    <3> QED
      BY <3>1 DEF SetBy
  <2>5. f[k + 1] \in Seq(FileLines) /\ LinesOf(f[k + 1]) = SetBy(t, k + 1)
    BY <2>1, <2>2, <2>3, <2>4, LinesGrow DEF SettingsWith
  <2>6. CollectedRight(t, k + 1) /\ k + 1 \in 0..Len(t)
    BY <2>1, <2>5 DEF CollectedRight, f
  <2> QED
    BY <2>6
<1>4. 0..Len(t) \subseteq Ok
  <2>1. \A k \in 0..Len(t) : k \in Ok /\ k < Len(t) => k + 1 \in Ok
    <3> HIDE DEF Ok
    <3> QED
      BY <1>3
  <2> HIDE DEF Ok
  <2> QED
    BY <2>1, <1>0, <1>2, UpTo
<1> QED
  BY <1>4

\* SettingsOf keeps exactly the lines that set something.
LEMMA SettingsOfIs ==
  ASSUME NEW t \in Seq(FileLines)
  PROVE  /\ SettingsOf(t) \in Seq(FileLines)
         /\ \A j \in 1..Len(SettingsOf(t)) : IsSetting(SettingsOf(t)[j])
         /\ LinesOf(SettingsOf(t)) = SettingLines(t)
<1> DEFINE q == SettingsOf(t)
<1>1. q \in Seq(FileLines) /\ LinesOf(q) = SetBy(t, Len(t))
  <2>1. Len(t) \in 0..Len(t)
    OBVIOUS
  <2> QED
    BY <2>1, SettingsGrow DEF SettingsOf, CollectedRight
<1> HIDE DEF q
<1>2. SettingLines(t) = SetBy(t, Len(t))
  BY DEF SettingLines, SetBy
<1>3. \A l \in SettingLines(t) : IsSetting(l)
  BY DEF SettingLines
<1>4. \A j \in 1..Len(q) : q[j] \in LinesOf(q)
  BY DEF LinesOf
<1>5. \A j \in 1..Len(q) : IsSetting(q[j])
  BY <1>1, <1>2, <1>3, <1>4
<1> QED
  BY <1>1, <1>2, <1>5 DEF q

\* A text between two comments.
Commented(a, q, b) == <<a>> \o q \o <<b>>

\* Its lines.
LEMMA CommentedIs ==
  ASSUME NEW q \in Seq(FileLines), NEW a \in FileLines, NEW b \in FileLines
  PROVE  /\ Commented(a, q, b) \in Seq(FileLines) /\ Len(Commented(a, q, b)) = Len(q) + 2
         /\ Commented(a, q, b)[1] = a /\ Commented(a, q, b)[Len(q) + 2] = b
         /\ \A j \in 1..Len(q) : Commented(a, q, b)[j + 1] = q[j]
<1> DEFINE one == <<a>> \o q
           u == one \o <<b>>
<1> HIDE DEF FileLines
<1>1. /\ <<a>> \in Seq(FileLines) /\ <<b>> \in Seq(FileLines) /\ Len(<<a>>) = 1 /\ Len(<<b>>) = 1
      /\ <<a>>[1] = a /\ <<b>>[1] = b
  OBVIOUS
<1>2. /\ one \in Seq(FileLines) /\ Len(one) = 1 + Len(q)
      /\ \A i \in 1..Len(one) : one[i] = IF i <= 1 THEN <<a>>[i] ELSE q[i - 1]
  BY <1>1, ConcatProperties
<1>3. one[1] = a /\ \A j \in 1..Len(q) : one[j + 1] = q[j]
  <2>1. Len(q) \in Nat
    OBVIOUS
  <2> QED
    BY <1>1, <1>2, <2>1
<1> HIDE DEF one
<1>4. /\ u \in Seq(FileLines) /\ Len(u) = Len(one) + 1
      /\ \A i \in 1..Len(u) : u[i] = IF i <= Len(one) THEN one[i] ELSE <<b>>[i - Len(one)]
  BY <1>1, <1>2, ConcatProperties
<1>5. Commented(a, q, b) = u
  BY DEF Commented, one
<1> HIDE DEF u
<1>6. Len(q) \in Nat
  OBVIOUS
<1>7. Len(u) = Len(q) + 2 /\ u[1] = a /\ u[Len(q) + 2] = b
  BY <1>1, <1>2, <1>3, <1>4, <1>6
<1>8. \A j \in 1..Len(q) : u[j + 1] = q[j]
  BY <1>2, <1>3, <1>4, <1>6
<1> QED
  BY <1>4, <1>5, <1>7, <1>8

\* Comments around settings are no settings.
LEMMA CommentedSettings ==
  ASSUME NEW q \in Seq(FileLines), NEW a \in FileLines, NEW b \in FileLines,
         ~IsSetting(a), ~IsSetting(b), \A j \in 1..Len(q) : IsSetting(q[j])
  PROVE  SettingsOf(Commented(a, q, b)) = q
<1> DEFINE u == Commented(a, q, b)
           f == SettingsUpTo(u)
           n == Len(q)
           Right(k) == f[k + 1] = SubSeq(q, 1, k)
           Ok == {k \in 0..n : Right(k)}
<1>0. n \in Nat
  OBVIOUS
<1>1. /\ u \in Seq(FileLines) /\ Len(u) = n + 2 /\ u[1] = a /\ u[n + 2] = b
      /\ \A j \in 1..n : u[j + 1] = q[j]
  BY CommentedIs
<1> HIDE DEF u
<1>2. \A k \in 0..(n + 2) : f[k] = IF k = 0 THEN <<>> ELSE SettingsWith(f[k - 1], u[k])
  BY <1>1, SettingsUpToDef DEF Collects
<1> HIDE DEF f, n
<1>3. 0 \in Ok
  <2>1. f[0] = <<>> /\ f[1] = SettingsWith(f[0], u[1])
    BY <1>0, <1>2
  <2>2. f[1] = <<>>
    BY <2>1, <1>1 DEF SettingsWith
  <2>3. SubSeq(q, 1, 0) = <<>>
    BY SubSeqEmpty
  <2>4. Right(0)
    <3>1. 0 + 1 = 1
      OBVIOUS
    <3> QED
      BY <2>2, <2>3, <3>1, Zenon
  <2>5. 0 \in 0..n
    BY <1>0
  <2> HIDE DEF Right
  <2> QED
    BY <2>4, <2>5
<1>4. ASSUME NEW k \in 0..n, k \in Ok, k < n PROVE k + 1 \in Ok
  <2>1. k + 1 \in 1..n /\ k + 2 \in 0..(n + 2) /\ k + 2 # 0 /\ (k + 2) - 1 = k + 1 /\ (k + 1) + 1 = k + 2
    BY <1>0, <1>4
  <2>2. f[k + 2] = SettingsWith(f[k + 1], u[k + 2])
    BY <2>1, <1>2
  <2>3. u[k + 2] = q[k + 1] /\ IsSetting(q[k + 1])
    BY <1>1, <2>1 DEF n
  <2>4. f[k + 2] = Append(SubSeq(q, 1, k), q[k + 1])
    BY <2>2, <2>3, <1>4 DEF SettingsWith
  <2>5. SubSeq(q, 1, k + 1) = Append(SubSeq(q, 1, k), q[k + 1])
    <3>1. 1 \in 1..(Len(q) + 1) /\ (k + 1) \in 1..Len(q)
      BY <2>1, <1>0 DEF n
    <3> DEFINE x == SubSeq(q, 1, k + 1)
               y == Append(SubSeq(q, 1, k), q[k + 1])
    <3>2. x \in Seq(FileLines) /\ Len(x) = k + 1 /\ \A j \in 1..(k + 1) : x[j] = q[j]
      <4>1. k + 1 \in Nat /\ k + 1 <= Len(q) /\ Len(q) \in Nat
        BY <2>1, <1>0 DEF n
      <4> QED
        BY <4>1, SubSeqProperties
    <3>3. SubSeq(q, 1, k) \in Seq(FileLines) /\ Len(SubSeq(q, 1, k)) = k /\ \A j \in 1..k : SubSeq(q, 1, k)[j] = q[j]
      <4>1. k \in Nat /\ k <= Len(q) /\ Len(q) \in Nat
        BY <2>1, <1>0 DEF n
      <4> QED
        BY <4>1, SubSeqProperties
    <3>4. q[k + 1] \in FileLines
      BY <3>1
    <3>5. y \in Seq(FileLines) /\ Len(y) = k + 1 /\ \A j \in 1..(k + 1) : y[j] = q[j]
      <4> DEFINE z == SubSeq(q, 1, k)
                 e == q[k + 1]
      <4>1. z \in Seq(FileLines) /\ e \in FileLines /\ Len(z) = k /\ k \in Nat /\ \A j \in 1..k : z[j] = q[j]
        BY <3>3, <3>4, <1>0
      <4> HIDE DEF z, e
      <4>2. /\ Append(z, e) \in Seq(FileLines) /\ Len(Append(z, e)) = k + 1
            /\ \A j \in 1..k : Append(z, e)[j] = z[j]
            /\ Append(z, e)[k + 1] = e
        BY <4>1, AppendProperties
      <4>3. \A j \in 1..(k + 1) : Append(z, e)[j] = q[j]
        <5> TAKE j \in 1..(k + 1)
        <5>1. CASE j = k + 1
          BY <5>1, <4>2 DEF e
        <5>2. CASE j # k + 1
          <6>1. j \in 1..k
            BY <5>2, <4>1
          <6> QED
            BY <6>1, <4>1, <4>2
        <5> QED
          BY <5>1, <5>2
      <4> QED
        BY <4>2, <4>3 DEF z, e
    <3> HIDE DEF x, y
    <3>6. x = y
      BY <3>2, <3>5, SeqEqual
    <3> QED
      BY <3>6 DEF x, y
  <2>6. f[(k + 1) + 1] = SubSeq(q, 1, k + 1)
    BY <2>1, <2>4, <2>5
  <2>7. k + 1 \in 0..n
    BY <2>1, <1>0
  <2>8. Right(k + 1)
    BY <2>6
  <2> HIDE DEF Right
  <2> QED
    BY <2>7, <2>8
<1>5. 0..n \subseteq Ok
  <2>1. \A k \in 0..n : k \in Ok /\ k < n => k + 1 \in Ok
    BY <1>4
  <2> HIDE DEF Ok
  <2> QED
    BY <2>1, <1>0, <1>3, UpTo
<1>6. f[n + 1] = q
  <2>1. f[n + 1] = SubSeq(q, 1, n)
    <3>1. n \in Ok
      <4> HIDE DEF Ok
      <4> QED
        BY <1>5, <1>0
    <3> QED
      BY <3>1
  <2>2. SubSeq(q, 1, n) = q
    BY SubSeqFull DEF n
  <2> QED
    BY <2>1, <2>2
<1>7. f[n + 2] = q
  <2>1. n + 2 \in 0..(n + 2) /\ n + 2 # 0 /\ (n + 2) - 1 = n + 1
    BY <1>0
  <2>2. f[n + 2] = SettingsWith(f[n + 1], b)
    BY <2>1, <1>2, <1>1
  <2> QED
    BY <2>2, <1>6 DEF SettingsWith
<1> QED
  BY <1>7, <1>1 DEF SettingsOf, f, u
-----------------------------------------------------------------------------
(* The settings file: what a text says.                                     *)

\* What the user may have set.
Wishes == UNION {[S -> {"preamble", "reference", "stale reference", "note", "1", "junk"} \cup Levels] : S \in SUBSET Settable}

\* The text sets what m says, however often, and nothing else.
SaidLines(m) == {<<k, m[k]>> : k \in DOMAIN m}
Agrees(t, m) == m = [k \in DOMAIN m |-> m[k]] /\ UserLines(t) = SaidLines(m)

\* Lines are pairs.
LEMMA LineIsPair ==
  ASSUME NEW l \in FileLines
  PROVE  l = <<l[1], l[2]>> /\ l[2] \in {"preamble", "reference", "stale reference", "note", "1", "junk"} \cup Levels
<1> DEFINE A == {"#", "schema-version", "junk"} \cup Settable
           B == {"preamble", "reference", "stale reference", "note", "1", "junk"} \cup Levels
<1>1. l \in A \X B
  BY DEF FileLines
<1> HIDE DEF A, B
<1>2. l = <<l[1], l[2]>> /\ l[2] \in B
  BY <1>1
<1> QED
  BY <1>2 DEF B

\* The lines that set something, of the lines there are.
LEMMA SettingLinesAre ==
  ASSUME NEW t \in Seq(FileLines)
  PROVE  SettingLines(t) = {l \in LinesOf(t) : IsSetting(l)} /\ LinesOf(t) \subseteq FileLines
BY DEF SettingLines, LinesOf

\* What a text is taken to say is one of its lines, for every key it sets.
LEMMA SaysPicks ==
  ASSUME NEW t \in Seq(FileLines)
  PROVE  /\ Says(t) \in Wishes
         /\ \A k \in DOMAIN Says(t) : <<k, Says(t)[k]>> \in UserLines(t)
         /\ \A l \in UserLines(t) : l[1] \in DOMAIN Says(t)
<1> DEFINE K == KeysIn(t) \cap Settable
           At1(k) == CHOOSE i \in Occurs(t, k) : TRUE
<1>1. Says(t) = [k \in K |-> t[At1(k)][2]] /\ DOMAIN Says(t) = K
  BY DEF Says
<1>2. \A k \in K : At1(k) \in DOMAIN t /\ IsSetting(t[At1(k)]) /\ t[At1(k)][1] = k
  <2> TAKE k \in K
  <2>1. Occurs(t, k) # {}
    BY DEF KeysIn, Occurs
  <2>2. At1(k) \in Occurs(t, k)
    BY <2>1
  <2> QED
    BY <2>2 DEF Occurs
<1>3. \A k \in K : t[At1(k)] \in FileLines /\ t[At1(k)] = <<k, t[At1(k)][2]>>
  <2> TAKE k \in K
  <2> DEFINE l == t[At1(k)]
  <2>1. l \in FileLines /\ l[1] = k
    BY <1>2
  <2> HIDE DEF l
  <2>2. l = <<k, l[2]>>
    BY <2>1, LineIsPair
  <2> QED
    BY <2>1, <2>2 DEF l
<1>4. \A k \in K : t[At1(k)][2] \in {"preamble", "reference", "stale reference", "note", "1", "junk"} \cup Levels
  BY <1>3, LineIsPair
<1>5. \A k \in K : t[At1(k)] \in UserLines(t)
  BY <1>2 DEF UserLines, SettingLines
<1> HIDE DEF At1
<1>6. Says(t) \in Wishes
  <2> DEFINE B == {"preamble", "reference", "stale reference", "note", "1", "junk"} \cup Levels
  <2>1. Says(t) \in [K -> B] /\ K \in SUBSET Settable
    BY <1>1, <1>4
  <2> HIDE DEF B, K
  <2>2. Says(t) \in UNION {[S -> B] : S \in SUBSET Settable}
    BY <2>1
  <2> QED
    BY <2>2 DEF Wishes, B
<1>7. \A k \in K : <<k, Says(t)[k]>> \in UserLines(t)
  BY <1>1, <1>3, <1>5
<1>8. \A l \in UserLines(t) : l[1] \in K
  BY DEF UserLines, SettingLines, KeysIn
<1> QED
  BY <1>1, <1>6, <1>7, <1>8

\* A text that agrees with m says m.
LEMMA AgreesSays ==
  ASSUME NEW t \in Seq(FileLines), NEW m, Agrees(t, m)
  PROVE  Says(t) = m
<1>0. Says(t) = [k \in DOMAIN Says(t) |-> Says(t)[k]]
  BY DEF Says
<1>1. \A k \in DOMAIN Says(t) : k \in DOMAIN m /\ Says(t)[k] = m[k]
  <2> TAKE k \in DOMAIN Says(t)
  <2>1. <<k, Says(t)[k]>> \in SaidLines(m)
    BY SaysPicks DEF Agrees
  <2> QED
    BY <2>1 DEF SaidLines
<1>2. \A k \in DOMAIN m : k \in DOMAIN Says(t)
  <2> TAKE k \in DOMAIN m
  <2>1. <<k, m[k]>> \in UserLines(t)
    BY DEF Agrees, SaidLines
  <2>2. <<k, m[k]>>[1] \in DOMAIN Says(t)
    BY <2>1, SaysPicks
  <2> QED
    BY <2>2
<1>3. m = [k \in DOMAIN m |-> m[k]]
  BY DEF Agrees
<1>4. DOMAIN m = DOMAIN Says(t)
  BY <1>1, <1>2
<1> QED
  BY <1>0, <1>1, <1>3, <1>4

\* A text that sets no key twice agrees with what it says.
LEMMA OnceAgrees ==
  ASSUME NEW t \in Seq(FileLines), \A l1, l2 \in UserLines(t) : l1[1] = l2[1] => l1 = l2
  PROVE  Agrees(t, Says(t))
<1> DEFINE m == Says(t)
<1>0. m = [k \in DOMAIN m |-> m[k]]
  BY DEF Says
<1>1. \A k \in DOMAIN m : <<k, m[k]>> \in UserLines(t)
  BY SaysPicks
<1>2. \A l \in UserLines(t) : l[1] \in DOMAIN m
  BY SaysPicks
<1> HIDE DEF m
<1>3. \A l \in UserLines(t) : l = <<l[1], m[l[1]]>>
  <2> TAKE l \in UserLines(t)
  <2> DEFINE k == l[1]
             l2 == <<k, m[k]>>
  <2>1. l2 \in UserLines(t)
    BY <1>1, <1>2
  <2>2. l2[1] = l[1]
    OBVIOUS
  <2> HIDE DEF l2
  <2>3. l2 = l
    BY <2>1, <2>2
  <2> QED
    BY <2>3 DEF l2
<1>4. UserLines(t) \subseteq SaidLines(m)
  BY <1>2, <1>3 DEF SaidLines
<1>5. SaidLines(m) \subseteq UserLines(t)
  BY <1>1 DEF SaidLines
<1> QED
  BY <1>0, <1>4, <1>5 DEF Agrees, m

-----------------------------------------------------------------------------
(* The settings file: the texts that are written.                           *)

\* The lines of two texts, and of a piece of one.
LEMMA LinesOfBoth ==
  ASSUME NEW a \in Seq(FileLines), NEW b \in Seq(FileLines)
  PROVE  a \o b \in Seq(FileLines) /\ LinesOf(a \o b) = LinesOf(a) \cup LinesOf(b)
<1> DEFINE u == a \o b
           n == Len(a)
           m == Len(b)
<1>1. /\ u \in Seq(FileLines) /\ Len(u) = n + m
      /\ \A i \in 1..(n + m) : u[i] = IF i <= n THEN a[i] ELSE b[i - n]
  BY ConcatProperties
<1>0. n \in Nat /\ m \in Nat
  OBVIOUS
<1> HIDE DEF u
<1>2. LinesOf(u) \subseteq LinesOf(a) \cup LinesOf(b)
  <2> SUFFICES ASSUME NEW i \in 1..(n + m) PROVE u[i] \in LinesOf(a) \cup LinesOf(b)
    BY <1>1 DEF LinesOf
  <2>1. CASE i <= n
    BY <2>1, <1>0, <1>1 DEF LinesOf
  <2>2. CASE ~(i <= n)
    <3>1. i - n \in 1..m /\ u[i] = b[i - n]
      BY <2>2, <1>0, <1>1
    <3> QED
      BY <3>1 DEF LinesOf
  <2> QED
    BY <2>1, <2>2
<1>3. LinesOf(a) \subseteq LinesOf(u)
  <2> SUFFICES ASSUME NEW i \in 1..n PROVE a[i] \in LinesOf(u)
    BY DEF LinesOf
  <2>1. i \in 1..(n + m) /\ u[i] = a[i]
    BY <1>0, <1>1
  <2> QED
    BY <2>1, <1>1 DEF LinesOf
<1>4. LinesOf(b) \subseteq LinesOf(u)
  <2> SUFFICES ASSUME NEW i \in 1..m PROVE b[i] \in LinesOf(u)
    BY DEF LinesOf
  <2>1. i + n \in 1..(n + m) /\ (i + n) - n = i /\ ~(i + n <= n)
    BY <1>0
  <2>2. u[i + n] = b[i]
    BY <2>1, <1>1
  <2> QED
    BY <2>1, <2>2, <1>1 DEF LinesOf
<1> QED
  BY <1>1, <1>2, <1>3, <1>4 DEF u

\* The lines of a piece of a text.
LEMMA LinesOfPiece ==
  ASSUME NEW t \in Seq(FileLines), NEW i \in Nat, i > 0, NEW j \in Nat, j <= Len(t)
  PROVE  SubSeq(t, i, j) \in Seq(FileLines) /\ LinesOf(SubSeq(t, i, j)) = {t[x] : x \in i..j}
<1> DEFINE u == SubSeq(t, i, j)
<1>0. Len(t) \in Nat /\ \A x \in i..j : t[x] \in FileLines
  OBVIOUS
<1>1. /\ u \in Seq(FileLines) /\ Len(u) = IF i <= j THEN (j - i) + 1 ELSE 0
      /\ \A x \in 1..((j - i) + 1) : u[x] = t[(i + x) - 1]
  <2>1. i \in Int /\ j \in Int
    OBVIOUS
  <2>2. /\ u \in Seq(FileLines) /\ Len(u) = IF i <= j THEN j - i + 1 ELSE 0
        /\ \A x \in 1..(j - i + 1) : u[x] = t[i + x - 1]
    BY <1>0, <2>1, SubSeqProperties
  <2> HIDE DEF u
  <2> QED
    BY <2>1, <2>2
<1> HIDE DEF u
<1>2. LinesOf(u) \subseteq {t[x] : x \in i..j}
  <2> SUFFICES ASSUME NEW x \in 1..Len(u) PROVE \E y \in i..j : u[x] = t[y]
    BY DEF LinesOf
  <2>1. i <= j /\ x \in 1..((j - i) + 1) /\ (i + x) - 1 \in i..j
    BY <1>1
  <2> QED
    BY <2>1, <1>1
<1>3. \A y \in i..j : t[y] \in LinesOf(u)
  <2> TAKE y \in i..j
  <2>1. (y - i) + 1 \in 1..((j - i) + 1) /\ (i + ((y - i) + 1)) - 1 = y /\ i <= j
    OBVIOUS
  <2>2. u[(y - i) + 1] = t[y] /\ (y - i) + 1 \in 1..Len(u)
    BY <2>1, <1>1
  <2> QED
    BY <2>2 DEF LinesOf
<1> QED
  BY <1>1, <1>2, <1>3 DEF u

\* A refreshed text has the settings it had, and is what a refresh makes of it.
LEMMA RefreshIs ==
  ASSUME NEW t \in Seq(FileLines)
  PROVE  /\ RefreshCommentBlock(t) \in Seq(FileLines)
         /\ UserLines(RefreshCommentBlock(t)) = UserLines(t)
         /\ RefreshCommentBlock(RefreshCommentBlock(t)) = RefreshCommentBlock(t)
<1> DEFINE q == SettingsOf(t)
           u == Commented(Preamble, q, Reference)
<1>1. CASE q = <<>>
  BY <1>1 DEF RefreshCommentBlock
<1>2. CASE q # <<>>
  <2>1. RefreshCommentBlock(t) = u
    BY <1>2 DEF RefreshCommentBlock, Commented
  <2>2. Preamble \in FileLines /\ Reference \in FileLines /\ ~IsSetting(Preamble) /\ ~IsSetting(Reference)
    BY DEF FileLines, IsSetting, Preamble, Reference, Comment
  <2>3. q \in Seq(FileLines) /\ (\A j \in 1..Len(q) : IsSetting(q[j])) /\ LinesOf(q) = SettingLines(t)
    BY SettingsOfIs
  <2> HIDE DEF q
  <2>4. u \in Seq(FileLines) /\ SettingsOf(u) = q
    BY <2>2, <2>3, CommentedIs, CommentedSettings
  <2>5. RefreshCommentBlock(u) = u
    BY <2>4, <1>2 DEF RefreshCommentBlock, Commented
  <2> HIDE DEF u
  <2>6. SettingLines(u) = SettingLines(t)
    BY <2>3, <2>4, SettingsOfIs
  <2> QED
    BY <2>1, <2>4, <2>5, <2>6 DEF UserLines
<1> QED
  BY <1>1, <1>2

\* The text of a new file sets no key of the user's, and needs no refresh.
LEMMA StarterIs ==
  /\ StarterFile \in Seq(FileLines) /\ UserLines(StarterFile) = {}
  /\ RefreshCommentBlock(StarterFile) = StarterFile
<1> DEFINE q == <<Schema>>
           u == Commented(Preamble, q, Reference)
<1>2. /\ Preamble \in FileLines /\ Reference \in FileLines /\ ~IsSetting(Preamble) /\ ~IsSetting(Reference)
      /\ Schema \in FileLines /\ IsSetting(Schema) /\ Schema[1] \notin Settable
  BY ConfigFileAssumption DEF FileLines, IsSetting, Preamble, Reference, Comment, Schema, Setting
<1>3. q \in Seq(FileLines) /\ (\A j \in 1..Len(q) : IsSetting(q[j])) /\ q # <<>> /\ LinesOf(q) = {Schema}
  <2> HIDE DEF FileLines, IsSetting
  <2> QED
    BY <1>2 DEF LinesOf
<1>1. StarterFile = u
  <2>1. Len(q) = 1 /\ q[1] = Schema
    OBVIOUS
  <2>2. u \in Seq(FileLines) /\ Len(u) = 1 + 2 /\ u[1] = Preamble /\ u[1 + 2] = Reference /\ u[1 + 1] = q[1]
    <3> HIDE DEF q
    <3>1. 1 \in 1..Len(q)
      BY <2>1
    <3>2. /\ u \in Seq(FileLines) /\ Len(u) = Len(q) + 2 /\ u[1] = Preamble /\ u[Len(q) + 2] = Reference
          /\ \A j \in 1..Len(q) : u[j + 1] = q[j]
      BY <1>2, <1>3, CommentedIs
    <3> HIDE DEF u
    <3> QED
      BY <3>1, <3>2, <2>1
  <2> HIDE DEF u
  <2>3. Len(u) = 3 /\ u[1] = Preamble /\ u[2] = Schema /\ u[3] = Reference
    BY <2>1, <2>2
  <2> DEFINE v == <<Preamble, Schema, Reference>>
  <2>4. v \in Seq(FileLines) /\ Len(v) = 3 /\ v[1] = Preamble /\ v[2] = Schema /\ v[3] = Reference
    <3> HIDE DEF FileLines
    <3> QED
      BY <1>2
  <2> HIDE DEF v
  <2>5. \A i \in 1..3 : v[i] = u[i]
    BY <2>3, <2>4
  <2>6. v = u
    BY <2>2, <2>3, <2>4, <2>5, SeqEqual
  <2> QED
    BY <2>6 DEF StarterFile, v
<1> HIDE DEF q
<1>4. u \in Seq(FileLines) /\ SettingsOf(u) = q
  BY <1>2, <1>3, CommentedIs, CommentedSettings
<1>5. RefreshCommentBlock(u) = u
  BY <1>3, <1>4 DEF RefreshCommentBlock, Commented
<1> HIDE DEF u
<1>6. SettingLines(u) = {Schema}
  BY <1>3, <1>4, SettingsOfIs
<1> QED
  BY <1>1, <1>2, <1>4, <1>5, <1>6 DEF UserLines

\* Nothing is said by an empty text, and a refresh leaves it.
LEMMA EmptyIs ==
  /\ <<>> \in Seq(FileLines) /\ UserLines(<<>>) = {} /\ RefreshCommentBlock(<<>>) = <<>>
<1>1. <<>> \in Seq(FileLines) /\ SettingLines(<<>>) = {}
  BY DEF SettingLines
<1>2. LinesOf(SettingsOf(<<>>)) = {} /\ SettingsOf(<<>>) \in Seq(FileLines)
  BY <1>1, SettingsOfIs
<1>3. SettingsOf(<<>>) = <<>>
  <2> DEFINE q == SettingsOf(<<>>)
  <2>1. q \in Seq(FileLines) /\ LinesOf(q) = {}
    BY <1>2
  <2> HIDE DEF q
  <2>2. Len(q) \in Nat /\ ~(1 \in 1..Len(q))
    BY <2>1 DEF LinesOf
  <2>3. Len(q) = 0
    BY <2>2
  <2>4. q = <<>>
    BY <2>1, <2>3, EmptySeq
  <2> QED
    BY <2>4 DEF q
<1> QED
  BY <1>1, <1>3 DEF RefreshCommentBlock, UserLines

\* One text laid over another that says the same says it too.
LEMMA OverlayAgrees ==
  ASSUME NEW a \in Seq(FileLines), NEW b \in Seq(FileLines), NEW m, Agrees(a, m), Agrees(b, m) \/ b = <<>>
  PROVE  /\ a \o SubSeq(b, Len(a) + 1, Len(b)) \in Seq(FileLines)
         /\ Agrees(a \o SubSeq(b, Len(a) + 1, Len(b)), m)
<1> DEFINE tail == SubSeq(b, Len(a) + 1, Len(b))
<1>1. tail \in Seq(FileLines) /\ LinesOf(tail) = {b[x] : x \in (Len(a) + 1)..Len(b)}
  BY LinesOfPiece
<1>2. LinesOf(tail) \subseteq LinesOf(b)
  BY <1>1 DEF LinesOf
<1> HIDE DEF tail
<1>3. a \o tail \in Seq(FileLines) /\ LinesOf(a \o tail) = LinesOf(a) \cup LinesOf(tail)
  BY <1>1, LinesOfBoth
<1> DEFINE u == a \o tail
<1> HIDE DEF u
<1>4. SettingLines(u) = SettingLines(a) \cup SettingLines(tail) /\ SettingLines(tail) \subseteq SettingLines(b)
  BY <1>1, <1>2, <1>3, SettingLinesAre DEF u
<1>5. UserLines(b) \subseteq SaidLines(m)
  BY EmptyIs DEF Agrees
<1>6. UserLines(u) = SaidLines(m)
  BY <1>4, <1>5 DEF UserLines, Agrees
<1> QED
  BY <1>3, <1>6 DEF Agrees, u, tail
\* The last line that sets something.
LastSetting(t, n) == (\A j \in (n + 1)..Len(t) : ~IsSetting(t[j])) /\ (n > 0 => IsSetting(t[n]))

\* There is one, or none sets anything.
LEMMA LastSettingExists ==
  ASSUME NEW t \in Seq(FileLines)
  PROVE  \E n \in 0..Len(t) : LastSetting(t, n)
<1> DEFINE Silent(n) == \A j \in (n + 1)..Len(t) : ~IsSetting(t[j])
           S == {n \in 0..Len(t) : Silent(n)}
<1>0. Len(t) \in Nat
  OBVIOUS
<1>1. Silent(Len(t))
  BY <1>0
<1>2. S \in SUBSET Nat /\ S # {}
  <2>1. Len(t) \in 0..Len(t)
    BY <1>0
  <2> HIDE DEF Silent
  <2> QED
    BY <1>0, <1>1, <2>1
<1>3. PICK m \in S : \A k \in S : m <= k
  <2> HIDE DEF S
  <2> QED
    BY <1>2, LeastNumber
<1>4. m > 0 => IsSetting(t[m])
  <2> SUFFICES ASSUME m > 0, ~IsSetting(t[m]) PROVE FALSE
    OBVIOUS
  <2>1. m \in 0..Len(t) /\ Silent(m)
    BY <1>3
  <2>2. m - 1 \in 0..Len(t) /\ (m - 1) + 1 = m /\ ~(m <= m - 1)
    BY <2>1, <1>0
  <2>3. Silent(m - 1)
    <3> SUFFICES ASSUME NEW j \in ((m - 1) + 1)..Len(t) PROVE ~IsSetting(t[j])
      OBVIOUS
    <3>1. j = m \/ j \in (m + 1)..Len(t)
      BY <2>1, <2>2, <1>0
    <3> QED
      BY <3>1, <2>1
  <2>4. m - 1 \in S
    <3> HIDE DEF Silent
    <3> QED
      BY <2>2, <2>3
  <2> QED
    BY <2>2, <2>4, <1>3
<1>5. m \in 0..Len(t) /\ LastSetting(t, m)
  BY <1>3, <1>4 DEF LastSetting
<1> QED
  BY <1>5

\* A line put into a text, or in the place of every line of its key.
InsertedAt(t, n, l) == SubSeq(t, 1, n) \o <<l>> \o SubSeq(t, n + 1, Len(t))
InPlace(t, at, l) == [i \in DOMAIN t |-> IF i \in at THEN l ELSE t[i]]

\* A line put in is one line more.
LEMMA InsertedAtIs ==
  ASSUME NEW t \in Seq(FileLines), NEW n \in 0..Len(t), NEW l \in FileLines
  PROVE  InsertedAt(t, n, l) \in Seq(FileLines) /\ LinesOf(InsertedAt(t, n, l)) = LinesOf(t) \cup {l}
<1> DEFINE a == SubSeq(t, 1, n)
           b == SubSeq(t, n + 1, Len(t))
           one == <<l>>
           ab == a \o one
           u == ab \o b
<1>0. n \in Nat /\ Len(t) \in Nat /\ n <= Len(t) /\ n + 1 \in Nat /\ n + 1 > 0 /\ 1 \in Nat /\ 1 > 0
  OBVIOUS
<1>1. a \in Seq(FileLines) /\ LinesOf(a) = {t[x] : x \in 1..n}
  BY <1>0, LinesOfPiece
<1>2. b \in Seq(FileLines) /\ LinesOf(b) = {t[x] : x \in (n + 1)..Len(t)}
  BY <1>0, LinesOfPiece
<1>3. one \in Seq(FileLines) /\ LinesOf(one) = {l}
  BY DEF LinesOf
<1> HIDE DEF a, b, one
<1>4. ab \in Seq(FileLines) /\ LinesOf(ab) = LinesOf(a) \cup LinesOf(one)
  BY <1>1, <1>3, LinesOfBoth
<1> HIDE DEF ab
<1>5. u \in Seq(FileLines) /\ LinesOf(u) = LinesOf(ab) \cup LinesOf(b)
  BY <1>2, <1>4, LinesOfBoth
<1>6. InsertedAt(t, n, l) = u
  BY DEF InsertedAt, a, b, one, ab
<1> HIDE DEF u
<1>7. 1..Len(t) = 1..n \cup (n + 1)..Len(t)
  BY <1>0
<1>8. LinesOf(t) = LinesOf(a) \cup LinesOf(b)
  BY <1>1, <1>2, <1>7 DEF LinesOf
<1> QED
  BY <1>3, <1>4, <1>5, <1>6, <1>8

\* A line in the place of others leaves the rest.
LEMMA InPlaceIs ==
  ASSUME NEW t \in Seq(FileLines), NEW at \in SUBSET DOMAIN t, at # {}, NEW l \in FileLines
  PROVE  /\ InPlace(t, at, l) \in Seq(FileLines)
         /\ LinesOf(InPlace(t, at, l)) = {t[i] : i \in DOMAIN t \ at} \cup {l}
<1> DEFINE u == InPlace(t, at, l)
<1>1. DOMAIN t = 1..Len(t) /\ Len(t) \in Nat
  OBVIOUS
<1>2. u = [i \in 1..Len(t) |-> IF i \in at THEN l ELSE t[i]]
  BY <1>1 DEF InPlace
<1>3. \A i \in 1..Len(t) : (IF i \in at THEN l ELSE t[i]) \in FileLines
  BY <1>1
<1>4. u \in Seq(FileLines) /\ Len(u) = Len(t)
  <2> DEFINE e(i) == IF i \in at THEN l ELSE t[i]
  <2>1. u = [i \in 1..Len(t) |-> e(i)] /\ \A i \in 1..Len(t) : e(i) \in FileLines
    BY <1>2, <1>3
  <2> HIDE DEF u, e
  <2>2. u \in [1..Len(t) -> FileLines] /\ DOMAIN u = 1..Len(t)
    BY <2>1
  <2>3. u \in Seq(FileLines)
    BY <2>2, <1>1, SeqDef
  <2>4. DOMAIN u = 1..Len(u) /\ Len(u) \in Nat
    BY <2>3
  <2> QED
    BY <2>2, <2>3, <2>4, <1>1
<1>5. \A i \in 1..Len(t) : u[i] = IF i \in at THEN l ELSE t[i]
  BY <1>2
<1> HIDE DEF u
<1>6. LinesOf(u) = {t[i] : i \in DOMAIN t \ at} \cup {l}
  BY <1>1, <1>4, <1>5 DEF LinesOf
<1> QED
  BY <1>4, <1>6 DEF u

\* What a text sets once l is among its settings, in the place of any of its key.
LEMMA RowAgrees ==
  ASSUME NEW t \in Seq(FileLines), NEW m, Agrees(t, m), NEW k \in Settable, NEW v,
         NEW u, UserLines(u) = {l \in UserLines(t) : l[1] # k} \cup {<<k, v>>}
  PROVE  Agrees(u, WithRow(m, <<k, v>>))
<1> DEFINE w == WithRow(m, <<k, v>>)
<1>1. DOMAIN w = DOMAIN m \cup {k} /\ w = [j \in DOMAIN w |-> w[j]] /\ w[k] = v /\ \A j \in DOMAIN m : j # k => w[j] = m[j]
  BY DEF WithRow
<1> HIDE DEF w
<1>2. UserLines(t) = SaidLines(m)
  BY DEF Agrees
<1>3. {l \in SaidLines(m) : l[1] # k} = {<<j, m[j]>> : j \in {i \in DOMAIN m : i # k}}
  BY DEF SaidLines
<1>4. {<<j, m[j]>> : j \in {i \in DOMAIN m : i # k}} = {<<j, w[j]>> : j \in {i \in DOMAIN m : i # k}}
  BY <1>1
<1>5. DOMAIN w = {i \in DOMAIN m : i # k} \cup {k}
  BY <1>1
<1>6. SaidLines(w) = {<<j, w[j]>> : j \in {i \in DOMAIN m : i # k}} \cup {<<k, v>>}
  BY <1>1, <1>5 DEF SaidLines
<1>7. UserLines(u) = SaidLines(w)
  BY <1>2, <1>3, <1>4, <1>6
<1> QED
  BY <1>1, <1>7 DEF Agrees, w

\* One key written into a text changes that key and no other.
LEMMA UpdateLineIs ==
  ASSUME NEW t \in Seq(FileLines), NEW k \in Settable, NEW v \in Levels
  PROVE  /\ UpdateLine(t, k, v) \in Seq(FileLines)
         /\ \A m : Agrees(t, m) => Agrees(UpdateLine(t, k, v), WithRow(m, <<k, v>>))
<1> DEFINE l == <<k, v>>
           at == Occurs(t, k)
           u == UpdateLine(t, k, v)
<1>1. l \in FileLines /\ l[1] = k /\ IsSetting(l)
  BY ConfigFileAssumption DEF FileLines, IsSetting
<1>2. at \in SUBSET DOMAIN t /\ \A i \in at : IsSetting(t[i]) /\ t[i][1] = k
  BY DEF Occurs
<1>3. CASE at # {}
  <2>1. u = InPlace(t, at, l)
    BY <1>3 DEF UpdateLine, InPlace, Setting
  <2>2. u \in Seq(FileLines) /\ LinesOf(u) = {t[i] : i \in DOMAIN t \ at} \cup {l}
    <3> HIDE DEF at, l, u
    <3> QED
      BY <2>1, <1>1, <1>2, <1>3, InPlaceIs
  <2> HIDE DEF u
  <2>3. \A i \in DOMAIN t : i \in at <=> IsSetting(t[i]) /\ t[i][1] = k
    BY DEF Occurs
  <2>4. SettingLines(u) = {x \in LinesOf(u) : IsSetting(x)}
    BY <2>2, SettingLinesAre
  <2>5. UserLines(u) = {x \in UserLines(t) : x[1] # k} \cup {l}
    <3> HIDE DEF at, l
    <3>1. {t[i] : i \in DOMAIN t \ at} = {t[i] : i \in {j \in DOMAIN t : ~(IsSetting(t[j]) /\ t[j][1] = k)}}
      BY <2>3
    <3>2. SettingLines(u) = {x \in SettingLines(t) : x[1] # k} \cup {l}
      BY <2>2, <2>4, <3>1, <1>1 DEF SettingLines
    <3> QED
      BY <3>2, <1>1 DEF UserLines
  <2>6. \A m : Agrees(t, m) => Agrees(u, WithRow(m, l))
    BY <2>5, RowAgrees
  <2> QED
    BY <2>2, <2>6 DEF u
<1>4. CASE at = {}
  <2> DEFINE last == CHOOSE n \in 0..Len(t) : LastSetting(t, n)
  <2>1. last \in 0..Len(t)
    BY LastSettingExists
  <2>2. u = InsertedAt(t, last, l)
    BY <1>4 DEF UpdateLine, InsertedAt, LastSetting, Setting
  <2> HIDE DEF last
  <2>3. u \in Seq(FileLines) /\ LinesOf(u) = LinesOf(t) \cup {l}
    <3> HIDE DEF l, u
    <3> QED
      BY <2>1, <2>2, <1>1, InsertedAtIs
  <2> HIDE DEF u
  <2>4. SettingLines(u) = {x \in LinesOf(u) : IsSetting(x)} /\ SettingLines(t) = {x \in LinesOf(t) : IsSetting(x)}
    BY <2>3, SettingLinesAre
  <2>5. \A x \in UserLines(t) : x[1] # k
    BY <1>4 DEF Occurs, UserLines, SettingLines
  <2>6. UserLines(u) = {x \in UserLines(t) : x[1] # k} \cup {l}
    <3> HIDE DEF l
    <3> QED
      BY <2>3, <2>4, <2>5, <1>1 DEF UserLines
  <2>7. \A m : Agrees(t, m) => Agrees(u, WithRow(m, l))
    BY <2>6, RowAgrees
  <2> QED
    BY <2>3, <2>7 DEF u
<1> QED
  BY <1>3, <1>4

\* The texts a user saves, and those found under the old name, set no key twice.
LEMMA FirstTextsAgree ==
  ASSUME NEW t, t \in UserFiles \/ t \in {<<Setting(k, v)>> : k \in Settable, v \in Levels} \cup {<<Junk>>}
  PROVE  t \in Seq(FileLines) /\ Agrees(t, Says(t))
<1> DEFINE Once(x) == x \in Seq(FileLines) /\ \A l1, l2 \in UserLines(x) : l1 = l2
<1>1. Note \in FileLines /\ Schema \in FileLines /\ Stale \in FileLines /\ Preamble \in FileLines /\ Junk \in FileLines
  BY DEF FileLines, Note, Schema, Stale, Preamble, Junk, Comment, Setting
<1>2. \A k \in Settable, v \in Levels : Setting(k, v) \in FileLines
  BY DEF FileLines, Setting
<1>3. ~IsSetting(Note) /\ Schema[1] \notin Settable /\ ~IsSetting(Stale) /\ ~IsSetting(Preamble) /\ Junk[1] \notin Settable
  BY ConfigFileAssumption DEF IsSetting, Note, Schema, Stale, Preamble, Junk, Comment, Setting
<1>4. \A a \in FileLines : <<a>> \in Seq(FileLines) /\ LinesOf(<<a>>) = {a}
  BY DEF LinesOf
<1>5. \A a, b \in FileLines : <<a, b>> \in Seq(FileLines) /\ LinesOf(<<a, b>>) = {a, b}
  <2> TAKE a, b \in FileLines
  <2> DEFINE q == <<a, b>>
  <2>1. q \in Seq(FileLines) /\ Len(q) = 2 /\ q[1] = a /\ q[2] = b
    OBVIOUS
  <2> HIDE DEF q
  <2>2. 1..2 = {1, 2}
    OBVIOUS
  <2> QED
    BY <2>1, <2>2 DEF LinesOf, q
<1>6. \A a, b, c \in FileLines : <<a, b, c>> \in Seq(FileLines) /\ LinesOf(<<a, b, c>>) = {a, b, c}
  <2> TAKE a, b, c \in FileLines
  <2> DEFINE q == <<a, b, c>>
  <2>1. q \in Seq(FileLines) /\ Len(q) = 3 /\ q[1] = a /\ q[2] = b /\ q[3] = c
    OBVIOUS
  <2> HIDE DEF q
  <2>2. 1..3 = {1, 2, 3}
    OBVIOUS
  <2> QED
    BY <2>1, <2>2 DEF LinesOf, q
<1> DEFINE Users(x) == {l \in LinesOf(x) : IsSetting(l) /\ l[1] \in Settable}
<1>7. \A x \in Seq(FileLines) : UserLines(x) = Users(x)
  BY SettingLinesAre DEF UserLines
<1>8. Once(t)
  <2>1. CASE t = <<Note>> \/ t = <<Junk>> \/ t = <<Schema, Stale>>
    <3>1. t \in Seq(FileLines) /\ (LinesOf(t) = {Note} \/ LinesOf(t) = {Junk} \/ LinesOf(t) = {Schema, Stale})
      BY <2>1, <1>1, <1>4, <1>5
    <3>2. Users(t) = {}
      BY <3>1, <1>3
    <3> QED
      BY <3>1, <3>2, <1>7
  <2>2. ASSUME NEW k \in Settable, NEW v \in Levels,
               t = <<Setting(k, v)>> \/ t = <<Preamble, Setting(k, v), Stale>> \/ t = <<Setting(k, v), Note, Schema>>
        PROVE  Once(t)
    <3> DEFINE a == Setting(k, v)
    <3>0. a \in FileLines
      BY <1>2
    <3>3. t = <<a>> \/ t = <<Preamble, a, Stale>> \/ t = <<a, Note, Schema>>
      BY <2>2
    <3>4. <<a>> \in Seq(FileLines) /\ LinesOf(<<a>>) = {a}
      BY <3>0, <1>4
    <3>5. <<Preamble, a, Stale>> \in Seq(FileLines) /\ LinesOf(<<Preamble, a, Stale>>) = {Preamble, a, Stale}
      BY <3>0, <1>1, <1>6
    <3>6. <<a, Note, Schema>> \in Seq(FileLines) /\ LinesOf(<<a, Note, Schema>>) = {a, Note, Schema}
      BY <3>0, <1>1, <1>6
    <3> HIDE DEF a
    <3>1. /\ t \in Seq(FileLines)
          /\ LinesOf(t) = {a} \/ LinesOf(t) = {Preamble, a, Stale} \/ LinesOf(t) = {a, Note, Schema}
      <4>1. CASE t = <<a>>
        BY <4>1, <3>4
      <4>2. CASE t = <<Preamble, a, Stale>>
        BY <4>2, <3>5
      <4>3. CASE t = <<a, Note, Schema>>
        BY <4>3, <3>6
      <4> QED
        BY <3>3, <4>1, <4>2, <4>3
    <3>2. Users(t) \subseteq {a}
      BY <3>1, <1>3
    <3> QED
      BY <3>1, <3>2, <1>7
  <2> QED
    BY <2>1, <2>2 DEF UserFiles
<1> QED
  BY <1>8, OnceAgrees

-----------------------------------------------------------------------------
(* The settings file: what holds of it at every step.                       *)

LoaderShape == [pc : {"out", "copy", "copying", "read", "write", "writing", "loaded", "rename"},
                text : Seq(FileLines), base : Wishes, fd : BOOLEAN,
                row : (Settable \X Levels) \cup {NoRow}]

\* What a load ends with needs no refresh; what the menu renames has a row in it.
LoaderOk(l) ==
  /\ l.pc \in {"loaded", "write", "writing"} => RefreshCommentBlock(l.text) = l.text
  /\ l.pc = "rename" => l.row \in Settable \X Levels

\* What a process is about to write says what the user wished when it looked.
HoldsWhatIsWished(l) ==
  /\ l.pc \in {"copy", "copying", "write", "writing"} => Agrees(l.text, l.base)
  /\ l.pc = "rename" => Agrees(l.text, WithRow(l.base, l.row))

LoadersRight(ls) == ls \in [Loaders -> LoaderShape] /\ \A p \in Loaders : LoaderOk(ls[p])
LoadersHold(ls) == \A p \in Loaders : HoldsWhatIsWished(ls[p])

\* The file says it, or is being filled with it; or what takes its place does.
Adoptable == legacy # Absent /\ Parses(legacy)
FileSaysIt ==
  /\ file # Absent => Agrees(file, mine) \/ (file = <<>> /\ Torn)
  /\ file = Absent /\ Adoptable => Agrees(legacy, mine) /\ \A p \in Loaders : loader[p].pc \in {"out", "copy"}
  /\ file = Absent /\ ~Adoptable => Agrees(<<>>, mine)

FileInv ==
  /\ file \in Seq(FileLines) \cup {Absent} /\ legacy \in Seq(FileLines) \cup {Absent} /\ mine \in Wishes
  /\ LoadersRight(loader)
  /\ \A p \in Loaders : loader[p].fd => file # Absent
  /\ ~disturbed => LoadersHold(loader) /\ FileSaysIt

\* What the user has set, with one row more.
LEMMA WithRowWished ==
  ASSUME NEW m \in Wishes, NEW row \in Settable \X Levels
  PROVE  WithRow(m, row) \in Wishes
<1> DEFINE B == {"preamble", "reference", "stale reference", "note", "1", "junk"} \cup Levels
           w == WithRow(m, row)
           D == DOMAIN m \cup {row[1]}
<1>1. row[1] \in Settable /\ row[2] \in B
  OBVIOUS
<1>2. PICK S \in SUBSET Settable : m \in [S -> B]
  BY DEF Wishes
<1> HIDE DEF B
<1>3. \A k \in D : (IF k = row[1] THEN row[2] ELSE m[k]) \in B
  BY <1>1, <1>2
<1>4. w \in [D -> B]
  BY <1>3 DEF WithRow
<1>5. D \in SUBSET Settable
  BY <1>1, <1>2
<1> HIDE DEF w, D
<1>6. w \in UNION {[T -> B] : T \in SUBSET Settable}
  BY <1>4, <1>5
<1> QED
  BY <1>6 DEF Wishes, B, w

\* Nothing wished.
LEMMA NothingWished == <<>> \in Wishes /\ Says(<<>>) \in Wishes /\ Agrees(<<>>, Says(<<>>))
<1> DEFINE B == {"preamble", "reference", "stale reference", "note", "1", "junk"} \cup Levels
           e == <<>>
<1>1. e \in [{} -> B] /\ {} \in SUBSET Settable
  OBVIOUS
<1> HIDE DEF B, e
<1>2. e \in UNION {[T -> B] : T \in SUBSET Settable}
  BY <1>1
<1>3. <<>> \in Wishes
  BY <1>2 DEF Wishes, B, e
<1>4. Says(<<>>) \in Wishes
  BY EmptyIs, SaysPicks
<1>5. Agrees(<<>>, Says(<<>>))
  BY EmptyIs, OnceAgrees
<1> QED
  BY <1>3, <1>4, <1>5

\* One process goes on with l.
LEMMA OneLoaderRight ==
  ASSUME NEW ls, LoadersRight(ls), NEW p \in Loaders, NEW l \in LoaderShape, LoaderOk(l)
  PROVE  /\ LoadersRight([ls EXCEPT ![p] = l])
         /\ LoadersHold(ls) /\ HoldsWhatIsWished(l) => LoadersHold([ls EXCEPT ![p] = l])
BY DEF LoadersRight, LoadersHold

\* The file of another takes the name.
LEMMA ReplacedRight ==
  ASSUME NEW ls, LoadersRight(ls)
  PROVE  /\ LoadersRight(Replaced(ls)) /\ \A p \in Loaders : ~Replaced(ls)[p].fd
         /\ LoadersHold(ls) => LoadersHold(Replaced(ls))
<1> SUFFICES ASSUME NEW p \in Loaders
             PROVE  /\ Replaced(ls)[p] \in LoaderShape /\ ~Replaced(ls)[p].fd
                    /\ LoaderOk(Replaced(ls)[p])
                    /\ HoldsWhatIsWished(ls[p]) => HoldsWhatIsWished(Replaced(ls)[p])
  BY DEF LoadersRight, LoadersHold, Replaced
<1> DEFINE l == ls[p]
           r == [l EXCEPT !.fd = FALSE]
<1>1. Replaced(ls)[p] = r
  BY DEF Replaced
<1>2. l \in LoaderShape /\ LoaderOk(l)
  BY DEF LoadersRight
<1> HIDE DEF l
<1>3. r \in LoaderShape /\ ~r.fd /\ r.pc = l.pc /\ r.text = l.text /\ r.base = l.base /\ r.row = l.row
  BY <1>2 DEF LoaderShape
<1> HIDE DEF r
<1>4. LoaderOk(r) /\ (HoldsWhatIsWished(l) => HoldsWhatIsWished(r))
  BY <1>2, <1>3 DEF LoaderOk, HoldsWhatIsWished
<1> QED
  BY <1>1, <1>3, <1>4 DEF l

\* A process moves on and holds what it held.
LEMMA MovedOn ==
  ASSUME NEW l \in LoaderShape, NEW pc \in {"out", "copy", "copying", "read", "write", "writing", "loaded", "rename"}
  PROVE  /\ [l EXCEPT !.pc = pc] \in LoaderShape /\ [l EXCEPT !.pc = pc].pc = pc
         /\ [l EXCEPT !.pc = pc].text = l.text /\ [l EXCEPT !.pc = pc].base = l.base
         /\ [l EXCEPT !.pc = pc].fd = l.fd /\ [l EXCEPT !.pc = pc].row = l.row
BY DEF LoaderShape

\* What a process holds once it has looked.
LEMMA Held ==
  ASSUME NEW pc \in {"out", "copy", "copying", "read", "write", "writing", "loaded", "rename"},
         NEW content \in Seq(FileLines), NEW base \in Wishes, NEW row \in (Settable \X Levels) \cup {NoRow}
  PROVE  /\ Loader(pc, content, base, row) \in LoaderShape
         /\ Loader(pc, content, base, row).pc = pc /\ Loader(pc, content, base, row).text = content
         /\ Loader(pc, content, base, row).base = base /\ ~Loader(pc, content, base, row).fd
         /\ Loader(pc, content, base, row).row = row
BY DEF LoaderShape, Loader

\* Whatever files are found at first.
LEMMA FileInvInit ==
  ASSUME FileInit
  PROVE  FileInv
<1>1. file \in Seq(FileLines) \cup {Absent} /\ legacy \in Seq(FileLines) \cup {Absent}
  BY FirstTextsAgree DEF FileInit
<1>2. file # Absent => Agrees(file, Says(file)) /\ Says(file) \in Wishes
  BY <1>1, FirstTextsAgree, SaysPicks DEF FileInit
<1>3. legacy # Absent => Agrees(legacy, Says(legacy)) /\ Says(legacy) \in Wishes
  BY <1>1, FirstTextsAgree, SaysPicks DEF FileInit
<1>4. mine \in Wishes
  BY <1>2, <1>3, NothingWished DEF FileInit
<1>5. \A p \in Loaders : loader[p].pc = "out" /\ ~loader[p].fd /\ loader[p] \in LoaderShape
  <2> TAKE p \in Loaders
  <2>1. loader[p] = Loader("out", <<>>, <<>>, NoRow)
    BY DEF FileInit
  <2> DEFINE none == <<>>
             pc == "out"
             row == NoRow
  <2>2. /\ none \in Seq(FileLines) /\ none \in Wishes /\ row \in (Settable \X Levels) \cup {NoRow}
        /\ pc \in {"out", "copy", "copying", "read", "write", "writing", "loaded", "rename"}
    BY NothingWished
  <2> HIDE DEF none, pc, row
  <2>3. Loader(pc, none, none, row) \in LoaderShape /\ Loader(pc, none, none, row).pc = pc /\ ~Loader(pc, none, none, row).fd
    BY <2>2, Held
  <2> QED
    BY <2>1, <2>3 DEF none, pc, row
<1>6. loader \in [Loaders -> LoaderShape]
  <2>1. loader = [p \in Loaders |-> loader[p]]
    BY DEF FileInit
  <2> QED
    BY <2>1, <1>5
<1>7. LoadersRight(loader) /\ LoadersHold(loader)
  BY <1>5, <1>6 DEF LoadersRight, LoadersHold, LoaderOk, HoldsWhatIsWished
<1>8. FileSaysIt
  BY <1>2, <1>3, <1>5, NothingWished DEF FileInit, FileSaysIt, Adoptable
<1> QED
  BY <1>1, <1>4, <1>5, <1>7, <1>8 DEF FileInv

\* A file that is there, and one that is not.
LEMMA ThereOrNot == Absent \notin Seq(FileLines)
BY ConfigFileAssumption

\* What a process does on its own leaves the file, and does not end a filling.
LEMMA OwnStep ==
  ASSUME FileInv, NEW p \in Loaders, NEW l \in LoaderShape, LoaderOk(l), l.fd => loader[p].fd,
         UNCHANGED <<file, legacy, mine>>, loader' = [loader EXCEPT ![p] = l],
         ~disturbed' => /\ ~disturbed /\ HoldsWhatIsWished(l)
                        /\ Torn => Torn'
                        /\ file = Absent /\ Adoptable => l.pc \in {"out", "copy"}
  PROVE  FileInv'
<1>1. LoadersRight(loader') /\ (~disturbed' => LoadersHold(loader'))
  BY OneLoaderRight DEF FileInv
<1>2. \A q \in Loaders : loader'[q] = IF q = p THEN l ELSE loader[q]
  BY DEF FileInv, LoadersRight
<1>3. \A q \in Loaders : loader'[q].fd => file' # Absent
  BY <1>2 DEF FileInv
<1>4. ~disturbed' => FileSaysIt'
  <2> SUFFICES ASSUME ~disturbed' PROVE FileSaysIt'
    OBVIOUS
  <2>1. FileSaysIt /\ (Torn => Torn')
    BY DEF FileInv
  <2>2. file = Absent /\ Adoptable => \A q \in Loaders : loader'[q].pc \in {"out", "copy"}
    BY <2>1, <1>2 DEF FileSaysIt
  <2>3. Adoptable' = Adoptable
    BY DEF Adoptable
  <2> QED
    BY <2>1, <2>2, <2>3 DEF FileSaysIt
<1> QED
  BY <1>1, <1>3, <1>4 DEF FileInv

\* Whoever was filling the file still is, when a process that was not takes a step.
LEMMA StillTorn ==
  ASSUME FileInv, NEW p \in Loaders, NEW l, loader' = [loader EXCEPT ![p] = l],
         ~(loader[p].fd /\ loader[p].pc \in {"copying", "writing"})
  PROVE  Torn => Torn'
<1>1. \A q \in Loaders : q # p => loader'[q] = loader[q]
  BY DEF FileInv, LoadersRight
<1> QED
  BY <1>1 DEF Torn

\* adopt_legacy_config copies what takes the place of the file that is not there.
LEMMA AdoptLegacyKeeps ==
  ASSUME FileInv, NEW p \in Loaders, AdoptLegacy(p)
  PROVE  FileInv'
<1> DEFINE pc == IF file = Absent /\ legacy # Absent /\ Parses(legacy) THEN "copy" ELSE "read"
           content == IF legacy # Absent THEN legacy ELSE <<>>
           l == Loader(pc, content, mine, NoRow)
<1>1. loader' = [loader EXCEPT ![p] = l] /\ loader[p].pc = "out" /\ UNCHANGED <<file, legacy, mine, disturbed>>
  BY DEF AdoptLegacy, Hold, At
<1>2. pc \in {"copy", "read"} /\ content \in Seq(FileLines) /\ mine \in Wishes
  BY DEF FileInv
<1>3. pc = "copy" => file = Absent /\ Adoptable /\ content = legacy
  BY DEF Adoptable
<1>4. file = Absent /\ Adoptable => pc = "copy"
  BY DEF Adoptable
<1> HIDE DEF pc, content
<1>5. l \in LoaderShape /\ l.pc = pc /\ l.text = content /\ l.base = mine /\ ~l.fd
  BY <1>2, Held
<1> HIDE DEF l
<1>6. LoaderOk(l)
  BY <1>2, <1>5 DEF LoaderOk
<1>7. ~disturbed => HoldsWhatIsWished(l)
  BY <1>2, <1>3, <1>5 DEF HoldsWhatIsWished, FileInv, FileSaysIt
<1>8. Torn => Torn'
  BY <1>1, StillTorn
<1> QED
  BY <1>1, <1>4, <1>5, <1>6, <1>7, <1>8, OwnStep

\* What is written back says what was read; an emptied file is left alone.
LEMMA ReadFileKeeps ==
  ASSUME FileInv, NEW p \in Loaders, ReadFile(p)
  PROVE  FileInv'
<1> DEFINE pc == IF file = Absent THEN "write" ELSE IF RefreshCommentBlock(file) = file THEN "loaded" ELSE "write"
           content == IF file = Absent THEN StarterFile ELSE RefreshCommentBlock(file)
           l == Loader(pc, content, mine, NoRow)
<1>1. loader' = [loader EXCEPT ![p] = l] /\ loader[p].pc = "read" /\ UNCHANGED <<file, legacy, mine, disturbed>>
  BY DEF ReadFile, Hold, At
<1>2. /\ pc \in {"loaded", "write"} /\ content \in Seq(FileLines) /\ mine \in Wishes
      /\ RefreshCommentBlock(content) = content
  BY StarterIs, RefreshIs DEF FileInv
<1>3. ~disturbed /\ pc = "write" => Agrees(content, mine)
  <2> SUFFICES ASSUME ~disturbed, pc = "write" PROVE Agrees(content, mine)
    OBVIOUS
  <2>1. FileSaysIt
    BY DEF FileInv
  <2>2. CASE file = Absent
    <3>1. Agrees(<<>>, mine)
      BY <2>1, <2>2, <1>1 DEF FileSaysIt
    <3> QED
      BY <3>1, <2>2, StarterIs, EmptyIs DEF Agrees
  <2>3. CASE file # Absent
    <3>1. file # <<>>
      BY <2>3, EmptyIs
    <3>2. Agrees(file, mine) /\ file \in Seq(FileLines)
      BY <2>1, <2>3, <3>1 DEF FileSaysIt, FileInv
    <3> QED
      BY <3>2, <2>3, RefreshIs DEF Agrees
  <2> QED
    BY <2>2, <2>3
<1> HIDE DEF pc, content
<1>5. l \in LoaderShape /\ l.pc = pc /\ l.text = content /\ l.base = mine /\ ~l.fd
  BY <1>2, Held
<1> HIDE DEF l
<1>6. LoaderOk(l)
  BY <1>2, <1>5 DEF LoaderOk
<1>7. ~disturbed => HoldsWhatIsWished(l)
  BY <1>2, <1>3, <1>5 DEF HoldsWhatIsWished
<1>8. Torn => Torn'
  BY <1>1, StillTorn
<1>9. ~disturbed => ~(file = Absent /\ Adoptable)
  BY <1>1 DEF FileInv, FileSaysIt
<1> QED
  BY <1>1, <1>5, <1>6, <1>7, <1>8, <1>9, OwnStep

\* A reload begins with nothing in hand.
LEMMA LoadAgainKeeps ==
  ASSUME FileInv, NEW p \in Loaders, LoadAgain(p)
  PROVE  FileInv'
<1> DEFINE l == [loader[p] EXCEPT !.pc = "out"]
<1>0. loader[p] \in LoaderShape
  BY DEF FileInv, LoadersRight
<1>1. loader' = [loader EXCEPT ![p] = l] /\ loader[p].pc = "loaded" /\ UNCHANGED <<file, legacy, mine, disturbed>>
  BY DEF LoadAgain, Become, At
<1>2. l \in LoaderShape /\ l.pc = "out" /\ l.fd = loader[p].fd
  BY <1>0, MovedOn
<1> HIDE DEF l
<1>3. LoaderOk(l) /\ HoldsWhatIsWished(l)
  BY <1>2 DEF LoaderOk, HoldsWhatIsWished
<1>4. Torn => Torn'
  BY <1>1, StillTorn
<1> QED
  BY <1>1, <1>2, <1>3, <1>4, OwnStep

\* A process that is not writing takes nothing with it.
LEMMA LoaderDiesKeeps ==
  ASSUME FileInv, NEW p \in Loaders, LoaderDies(p)
  PROVE  FileInv'
<1> DEFINE l == [loader[p] EXCEPT !.pc = "out"]
<1>0. loader[p] \in LoaderShape
  BY DEF FileInv, LoadersRight
<1>1. /\ loader' = [loader EXCEPT ![p] = l] /\ UNCHANGED <<file, legacy, mine>>
      /\ ~disturbed' => ~disturbed /\ loader[p].pc \notin {"copying", "writing"}
  BY DEF LoaderDies, Become
<1>2. l \in LoaderShape /\ l.pc = "out" /\ l.fd = loader[p].fd
  BY <1>0, MovedOn
<1> HIDE DEF l
<1>3. LoaderOk(l) /\ HoldsWhatIsWished(l)
  BY <1>2 DEF LoaderOk, HoldsWhatIsWished
<1>4. ~disturbed' => (Torn => Torn')
  BY <1>1, StillTorn
<1> QED
  BY <1>1, <1>2, <1>3, <1>4, OwnStep

\* Emptied, the file is being filled.
LEMMA TruncateKeeps ==
  ASSUME FileInv, NEW p \in Loaders, Truncate(p)
  PROVE  FileInv'
<1> DEFINE old == loader[p]
           pc == IF old.pc = "copy" THEN "copying" ELSE "writing"
           opened == [old EXCEPT !.fd = TRUE]
           l == [opened EXCEPT !.pc = pc]
<1>0. old \in LoaderShape /\ LoaderOk(old) /\ old.pc \in {"copy", "write"} /\ loader \in [Loaders -> LoaderShape]
  BY DEF FileInv, LoadersRight, Truncate
<1>1. loader' = [loader EXCEPT ![p] = l] /\ file' = <<>> /\ UNCHANGED <<legacy, mine>> /\ (~disturbed' => ~disturbed)
  BY DEF Truncate, At
<1>2. pc \in {"copying", "writing"} /\ (pc = "writing" => old.pc = "write")
  BY <1>0
<1> HIDE DEF pc, old
<1>3. /\ opened \in LoaderShape /\ opened.fd /\ opened.pc = old.pc /\ opened.text = old.text
      /\ opened.base = old.base /\ opened.row = old.row
  BY <1>0 DEF LoaderShape
<1> HIDE DEF opened
<1>4. l \in LoaderShape /\ l.fd /\ l.pc = pc /\ l.text = old.text /\ l.base = old.base /\ l.row = old.row
  <2>1. pc \in {"out", "copy", "copying", "read", "write", "writing", "loaded", "rename"}
    BY <1>2
  <2>2. /\ [opened EXCEPT !.pc = pc] \in LoaderShape /\ [opened EXCEPT !.pc = pc].pc = pc
        /\ [opened EXCEPT !.pc = pc].text = opened.text /\ [opened EXCEPT !.pc = pc].base = opened.base
        /\ [opened EXCEPT !.pc = pc].fd = opened.fd /\ [opened EXCEPT !.pc = pc].row = opened.row
    BY <2>1, <1>3, MovedOn
  <2> HIDE DEF l
  <2> QED
    BY <2>2, <1>3 DEF l
<1> HIDE DEF l
<1>5. LoaderOk(l) /\ (HoldsWhatIsWished(old) => HoldsWhatIsWished(l))
  BY <1>0, <1>2, <1>4 DEF LoaderOk, HoldsWhatIsWished
<1>6. LoadersRight(loader') /\ (~disturbed' => LoadersHold(loader'))
  <2>1. ~disturbed => LoadersHold(loader) /\ HoldsWhatIsWished(old)
    BY DEF FileInv, LoadersHold, old
  <2> QED
    BY <2>1, <1>1, <1>4, <1>5, OneLoaderRight DEF FileInv
<1>7. file' \in Seq(FileLines) /\ file' # Absent
  BY <1>1, EmptyIs, ThereOrNot
<1>8. Torn'
  <2>1. loader'[p].fd /\ loader'[p].pc \in {"copying", "writing"}
    BY <1>0, <1>1, <1>2, <1>4
  <2> QED
    BY <2>1 DEF Torn
<1>9. FileSaysIt'
  BY <1>1, <1>7, <1>8 DEF FileSaysIt
<1>10. legacy' \in Seq(FileLines) \cup {Absent} /\ mine' \in Wishes
  BY <1>1 DEF FileInv
<1> QED
  BY <1>6, <1>7, <1>9, <1>10 DEF FileInv

\* What it is filled with is laid over what another has written.
LEMMA FillKeeps ==
  ASSUME FileInv, NEW p \in Loaders, Fill(p)
  PROVE  FileInv'
<1> DEFINE old == loader[p]
           pc == IF old.pc = "copying" THEN "read" ELSE "loaded"
           l == [old EXCEPT !.pc = pc]
<1>0. old \in LoaderShape /\ LoaderOk(old) /\ old.pc \in {"copying", "writing"} /\ loader \in [Loaders -> LoaderShape]
  BY DEF FileInv, LoadersRight, Fill
<1>1. /\ loader' = [loader EXCEPT ![p] = l] /\ UNCHANGED <<legacy, mine>>
      /\ file' = IF old.fd THEN old.text \o SubSeq(file, Len(old.text) + 1, Len(file)) ELSE file
      /\ ~disturbed' => ~disturbed /\ (old.fd => mine = old.base)
  BY DEF Fill, Become, At
<1>2. pc \in {"read", "loaded"} /\ (pc = "loaded" => old.pc = "writing")
  BY <1>0
<1>3. old.fd => file # Absent
  BY DEF FileInv
<1>4. ~disturbed => LoadersHold(loader) /\ HoldsWhatIsWished(old) /\ FileSaysIt
  BY DEF FileInv, LoadersHold
<1>5. ~disturbed => ~(file = Absent /\ Adoptable)
  BY <1>0, <1>4 DEF FileSaysIt
<1>6. ~old.fd => (Torn => Torn')
  BY <1>1, StillTorn
<1> HIDE DEF pc
<1>7. l \in LoaderShape /\ l.pc = pc /\ l.text = old.text /\ l.fd = old.fd
  <2>1. pc \in {"out", "copy", "copying", "read", "write", "writing", "loaded", "rename"}
    BY <1>2
  <2> HIDE DEF old
  <2>2. /\ [old EXCEPT !.pc = pc] \in LoaderShape /\ [old EXCEPT !.pc = pc].pc = pc
        /\ [old EXCEPT !.pc = pc].text = old.text /\ [old EXCEPT !.pc = pc].base = old.base
        /\ [old EXCEPT !.pc = pc].fd = old.fd /\ [old EXCEPT !.pc = pc].row = old.row
    BY <2>1, <1>0, MovedOn
  <2> HIDE DEF l
  <2> QED
    BY <2>2 DEF l
<1> HIDE DEF l
<1>8. LoaderOk(l) /\ HoldsWhatIsWished(l)
  BY <1>0, <1>2, <1>7 DEF LoaderOk, HoldsWhatIsWished
<1>9. CASE ~old.fd
  <2>1. UNCHANGED <<file, legacy, mine>> /\ (l.fd => loader[p].fd)
    BY <1>9, <1>1, <1>7
  <2>2. ~disturbed' => /\ ~disturbed /\ HoldsWhatIsWished(l)
                       /\ Torn => Torn'
                       /\ file = Absent /\ Adoptable => l.pc \in {"out", "copy"}
    BY <1>9, <1>1, <1>5, <1>6, <1>8
  <2> QED
    BY <2>1, <2>2, <1>1, <1>7, <1>8, OwnStep
<1>10. CASE old.fd
  <2>1. file \in Seq(FileLines) /\ old.text \in Seq(FileLines)
    BY <1>10, <1>0, <1>3 DEF FileInv, LoaderShape
  <2>2. file' \in Seq(FileLines)
    <3>1. SubSeq(file, Len(old.text) + 1, Len(file)) \in Seq(FileLines)
      <4>1. Len(old.text) + 1 \in Nat /\ Len(old.text) + 1 > 0 /\ Len(file) \in Nat
        BY <2>1
      <4> QED
        BY <2>1, <4>1, LinesOfPiece
    <3> QED
      BY <3>1, <2>1, <1>1, <1>10, LinesOfBoth
  <2>3. ~disturbed' => Agrees(file', mine')
    <3> SUFFICES ASSUME ~disturbed' PROVE Agrees(file', mine')
      OBVIOUS
    <3>1. Agrees(old.text, mine)
      BY <1>0, <1>1, <1>4, <1>10 DEF HoldsWhatIsWished
    <3>2. Agrees(file, mine) \/ file = <<>>
      BY <1>1, <1>3, <1>4, <1>10 DEF FileSaysIt
    <3> QED
      BY <3>1, <3>2, <2>1, <1>1, <1>10, OverlayAgrees
  <2>4. LoadersRight(loader') /\ (~disturbed' => LoadersHold(loader'))
    BY <1>1, <1>4, <1>7, <1>8, OneLoaderRight DEF FileInv
  <2>5. file' # Absent
    BY <2>2, ThereOrNot
  <2> QED
    BY <1>1, <2>2, <2>3, <2>4, <2>5 DEF FileInv, FileSaysIt
<1> QED
  BY <1>9, <1>10

\* The menu reads a file nobody has emptied, or is one of the ways of disturbed.
LEMMA MenuReadsKeeps ==
  ASSUME FileInv, NEW k \in Settable, NEW v \in Levels, MenuReads(k, v)
  PROVE  FileInv'
<1> DEFINE p == DaemonProc
           content == IF file = Absent THEN <<>> ELSE file
           row == <<k, v>>
           new == UpdateLine(content, k, v)
           l == Loader("rename", new, mine, row)
<1>1. /\ loader' = [loader EXCEPT ![p] = l] /\ loader[p].pc = "loaded" /\ UNCHANGED <<file, legacy, mine>>
      /\ ~disturbed' => ~disturbed /\ ~Torn
  BY DEF MenuReads, At
<1>2. p \in Loaders /\ mine \in Wishes /\ row \in Settable \X Levels /\ content \in Seq(FileLines)
  BY ConfigFileAssumption, EmptyIs DEF FileInv
<1>3. new \in Seq(FileLines) /\ \A m : Agrees(content, m) => Agrees(new, WithRow(m, row))
  BY <1>2, UpdateLineIs
<1>4. ~disturbed' => Agrees(content, mine) /\ ~(file = Absent /\ Adoptable)
  <2> SUFFICES ASSUME ~disturbed' PROVE Agrees(content, mine) /\ ~(file = Absent /\ Adoptable)
    OBVIOUS
  <2>1. FileSaysIt /\ ~Torn
    BY <1>1 DEF FileInv
  <2> QED
    BY <2>1, <1>1, <1>2 DEF FileSaysIt
<1>5. l \in LoaderShape /\ l.pc = "rename" /\ l.text = new /\ l.base = mine /\ ~l.fd /\ l.row = row
  <2> DEFINE pc == "rename"
  <2>1. pc \in {"out", "copy", "copying", "read", "write", "writing", "loaded", "rename"}
        /\ row \in (Settable \X Levels) \cup {NoRow}
    BY <1>2
  <2> HIDE DEF new, row, pc
  <2>2. /\ Loader(pc, new, mine, row) \in LoaderShape /\ Loader(pc, new, mine, row).pc = pc
        /\ Loader(pc, new, mine, row).text = new /\ Loader(pc, new, mine, row).base = mine
        /\ ~Loader(pc, new, mine, row).fd /\ Loader(pc, new, mine, row).row = row
    BY <2>1, <1>2, <1>3, Held
  <2> QED
    BY <2>2 DEF pc
<1> HIDE DEF content, row, new, l
<1>6. LoaderOk(l)
  BY <1>2, <1>5 DEF LoaderOk
<1>7. ~disturbed' => HoldsWhatIsWished(l)
  BY <1>3, <1>4, <1>5 DEF HoldsWhatIsWished
<1>8. Torn => Torn'
  BY <1>1, <1>2, StillTorn
<1> QED
  BY <1>1, <1>2, <1>4, <1>5, <1>6, <1>7, <1>8, OwnStep

\* Another text takes the name of the file.
LEMMA ReplacedKeeps ==
  ASSUME FileInv, NEW ls, LoadersRight(ls), LoadersHold(loader) => LoadersHold(ls),
         loader' = Replaced(ls), UNCHANGED legacy, mine' \in Wishes,
         file' \in Seq(FileLines) \/ (file' = Absent /\ (~disturbed' => ~Adoptable')),
         ~disturbed' => ~disturbed /\ (file' # Absent => Agrees(file', mine')) /\ (file' = Absent => Agrees(<<>>, mine'))
  PROVE  FileInv'
<1>1. LoadersRight(loader') /\ (~disturbed' => LoadersHold(loader')) /\ \A p \in Loaders : ~loader'[p].fd
  BY ReplacedRight DEF FileInv
<1>2. ~disturbed' => FileSaysIt'
  BY ThereOrNot DEF FileSaysIt
<1> QED
  BY <1>1, <1>2 DEF FileInv

\* What takes the name says what the user wished, and the row.
LEMMA MenuRenamesKeeps ==
  ASSUME FileInv, MenuRenames
  PROVE  FileInv'
<1> DEFINE p == DaemonProc
           old == loader[p]
           l == [old EXCEPT !.pc = "out"]
           ls == [loader EXCEPT ![p] = l]
<1>1. /\ loader' = Replaced(ls) /\ old.pc = "rename" /\ file' = old.text /\ UNCHANGED legacy
      /\ mine' = WithRow(mine, old.row) /\ (~disturbed' => ~disturbed /\ mine = old.base)
  BY DEF MenuRenames, Become, At
<1>2. p \in Loaders /\ mine \in Wishes
  BY ConfigFileAssumption DEF FileInv
<1>3. old \in LoaderShape /\ LoaderOk(old) /\ (~disturbed => HoldsWhatIsWished(old))
  BY <1>2 DEF FileInv, LoadersRight, LoadersHold
<1>4. old.row \in Settable \X Levels /\ old.text \in Seq(FileLines)
  BY <1>1, <1>3 DEF LoaderOk, LoaderShape
<1>5. mine' \in Wishes
  BY <1>1, <1>2, <1>4, WithRowWished
<1>6. ~disturbed' => Agrees(file', mine')
  BY <1>1, <1>3 DEF HoldsWhatIsWished
<1> HIDE DEF old
<1>7. l \in LoaderShape /\ l.pc = "out"
  BY <1>3, MovedOn
<1> HIDE DEF l
<1>8. LoaderOk(l) /\ HoldsWhatIsWished(l)
  BY <1>7 DEF LoaderOk, HoldsWhatIsWished
<1>9. LoadersRight(ls) /\ (LoadersHold(loader) => LoadersHold(ls))
  BY <1>2, <1>7, <1>8, OneLoaderRight DEF FileInv
<1> HIDE DEF ls
<1>10. file' \in Seq(FileLines) /\ file' # Absent
  BY <1>1, <1>4, ThereOrNot
<1> QED
  BY <1>1, <1>5, <1>6, <1>9, <1>10, ReplacedKeeps

\* The user wishes what he saves.
LEMMA EditorSavesKeeps ==
  ASSUME FileInv, EditorSaves
  PROVE  FileInv'
<1>1. file' \in Seq(FileLines) /\ Agrees(file', Says(file')) /\ Says(file') \in Wishes
  BY FirstTextsAgree, SaysPicks DEF EditorSaves
<1>2. loader' = Replaced(loader) /\ mine' = Says(file') /\ UNCHANGED <<legacy, disturbed>>
  BY DEF EditorSaves
<1>3. LoadersRight(loader)
  BY DEF FileInv
<1> QED
  BY <1>1, <1>2, <1>3, ThereOrNot, ReplacedKeeps

\* Without a file and a legacy one, nothing.
LEMMA FileDeletedKeeps ==
  ASSUME FileInv, FileDeleted
  PROVE  FileInv'
<1>1. /\ loader' = Replaced(loader) /\ file' = Absent /\ mine' = Says(<<>>) /\ UNCHANGED legacy
      /\ ~disturbed' => ~disturbed /\ legacy = Absent
  BY DEF FileDeleted
<1>2. ~disturbed' => ~Adoptable'
  BY <1>1 DEF Adoptable
<1>3. LoadersRight(loader)
  BY DEF FileInv
<1> QED
  BY <1>1, <1>2, <1>3, NothingWished, ReplacedKeeps

\* Every step keeps it.
LEMMA FileInvStep ==
  ASSUME FileInv, [FileNext]_fileVars
  PROVE  FileInv'
<1>1. ASSUME NEW p \in Loaders, AdoptLegacy(p) PROVE FileInv'
  BY <1>1, AdoptLegacyKeeps
<1>2. ASSUME NEW p \in Loaders, ReadFile(p) PROVE FileInv'
  BY <1>2, ReadFileKeeps
<1>3. ASSUME NEW p \in Loaders, Truncate(p) PROVE FileInv'
  BY <1>3, TruncateKeeps
<1>4. ASSUME NEW p \in Loaders, Fill(p) PROVE FileInv'
  BY <1>4, FillKeeps
<1>5. ASSUME NEW p \in Loaders, LoadAgain(p) PROVE FileInv'
  BY <1>5, LoadAgainKeeps
<1>6. ASSUME NEW p \in Loaders, LoaderDies(p) PROVE FileInv'
  BY <1>6, LoaderDiesKeeps
<1>7. ASSUME NEW k \in Settable, NEW v \in Levels, MenuReads(k, v) PROVE FileInv'
  BY <1>7, MenuReadsKeeps
<1>8. CASE MenuRenames
  BY <1>8, MenuRenamesKeeps
<1>9. CASE EditorSaves
  BY <1>9, EditorSavesKeeps
<1>10. CASE FileDeleted
  BY <1>10, FileDeletedKeeps
<1>11. CASE UNCHANGED fileVars
  <2>1. UNCHANGED <<file, legacy, loader, mine, disturbed>>
    BY <1>11 DEF fileVars
  <2>2. Torn' = Torn /\ Adoptable' = Adoptable
    BY <2>1 DEF Torn, Adoptable
  <2>3. FileSaysIt => FileSaysIt'
    BY <2>1, <2>2 DEF FileSaysIt
  <2> QED
    BY <2>1, <2>3 DEF FileInv
<1> QED
  BY <1>1, <1>2, <1>3, <1>4, <1>5, <1>6, <1>7, <1>8, <1>9, <1>10, <1>11 DEF FileNext

\* What the invariant is for.
LEMMA FileInvMeans == FileInv => FileIsTheUsers
<1> SUFFICES ASSUME FileInv PROVE FileIsTheUsers
  OBVIOUS
<1>1. SettingsSurvive
  <2> SUFFICES ASSUME ~Writing, ~disturbed, file # Absent PROVE Says(file) = mine
    BY DEF SettingsSurvive
  <2>1. ~Torn
    BY DEF Writing, Torn
  <2>2. Agrees(file, mine) /\ file \in Seq(FileLines)
    BY <2>1 DEF FileInv, FileSaysIt
  <2> QED
    BY <2>2, AgreesSays
<1>2. RefreshSettles
  BY DEF RefreshSettles, At, FileInv, LoadersRight, LoaderOk
<1> QED
  BY <1>1, <1>2 DEF FileIsTheUsers

\* paths.rs, menuhost.rs: whoever adopts, refreshes, rewrites, saves or deletes
\* the settings file, and whenever processes die, it ends up saying what the user
\* has set unless disturbed, and a load leaves it as the next load would.
THEOREM FileAlwaysTheUsers == FileSpec => []FileIsTheUsers
<1>1. FileInit => FileInv
  BY FileInvInit
<1>2. FileInv /\ [FileNext]_fileVars => FileInv'
  BY FileInvStep
<1> QED
  BY <1>1, <1>2, FileInvMeans, PTL DEF FileSpec

-----------------------------------------------------------------------------
(* The layers of the configuration.                                         *)

\* What a key is, when the layer i has it and none above does.
LEMMA GetForIs ==
  ASSUME NEW layers, NEW k, DOMAIN layers \subseteq Nat, NEW i \in DOMAIN layers, k \in DOMAIN layers[i],
         \A j \in DOMAIN layers : j > i => k \notin DOMAIN layers[j]
  PROVE  GetFor(layers, k) = layers[i][k]
<1> DEFINE Highest(m) == m \in Hits(layers, k) /\ \A j \in Hits(layers, k) : j <= m
<1>1. Highest(i)
  BY DEF Hits
<1>2. \A m : Highest(m) => m = i
  <2> TAKE m
  <2> HAVE Highest(m)
  <2>1. m \in Nat /\ i \in Nat /\ m <= i /\ i <= m
    BY <1>1 DEF Hits
  <2> QED
    BY <2>1
<1>3. (CHOOSE m \in Hits(layers, k) : \A j \in Hits(layers, k) : j <= m) = i
  BY <1>1, <1>2
<1> QED
  BY <1>3 DEF GetFor

\* What a document sets.
LEMMA ValidIs ==
  ASSUME NEW doc \in [Keys -> Values \cup {Unset, Bad}], NEW k \in Keys
  PROVE  /\ k \in DOMAIN ValidValues(doc) <=> doc[k] \in Values
         /\ doc[k] \in Values => ValidValues(doc)[k] = doc[k]
BY DEF ValidValues

\* What the variables set.
LEMMA EnvIs ==
  ASSUME NEW k \in Keys
  PROVE  /\ k \in DOMAIN EnvValues(env) <=> EnvValue(env, k) \in Values
         /\ EnvValue(env, k) \in Values => EnvValues(env)[k] = EnvValue(env, k)
BY DEF EnvValues

\* The four layers, and the five.
LEMMA StackIs ==
  ASSUME NEW a, NEW b, NEW c, NEW o
  PROVE  LET s == LayerStack(a, b, c)
             w == WithProfile(s, o)
         IN /\ DOMAIN s = 1..4 /\ s[1] = [k \in Keys |-> Default] /\ s[2] = ValidValues(a)
            /\ s[3] = ValidValues(b) /\ s[4] = EnvValues(c)
            /\ DOMAIN w = 1..5 /\ w[1] = s[1] /\ w[2] = s[2] /\ w[3] = s[3] /\ w[4] = o /\ w[5] = s[4]
<1> DEFINE d == [k \in Keys |-> Default]
           s == <<d, ValidValues(a), ValidValues(b), EnvValues(c)>>
           T == {s[1], s[2], s[3], s[4], o}
<1>1. /\ s \in Seq(T) /\ Len(s) = 4 /\ DOMAIN s = 1..4
      /\ s[1] = d /\ s[2] = ValidValues(a) /\ s[3] = ValidValues(b) /\ s[4] = EnvValues(c)
  OBVIOUS
<1>2. s = LayerStack(a, b, c)
  BY DEF LayerStack
<1> HIDE DEF s
<1> DEFINE low == SubSeq(s, 1, Len(s) - 1)
           top == SubSeq(s, Len(s), Len(s))
           one == <<o>>
           lo == low \o one
           w == lo \o top
<1>3. /\ low \in Seq(T) /\ Len(low) = 3 /\ low[1] = s[1] /\ low[2] = s[2] /\ low[3] = s[3]
  <2>1. low = SubSeq(s, 1, 3)
    BY <1>1
  <2> HIDE DEF low
  <2> QED
    BY <2>1, <1>1
<1>4. top \in Seq(T) /\ Len(top) = 1 /\ top[1] = s[4]
  <2>1. top = SubSeq(s, 4, 4)
    BY <1>1
  <2> HIDE DEF top
  <2> QED
    BY <2>1, <1>1
<1>5. one \in Seq(T) /\ Len(one) = 1 /\ one[1] = o
  OBVIOUS
<1> HIDE DEF T, low, top, one
<1>6. /\ lo \in Seq(T) /\ Len(lo) = Len(low) + Len(one)
      /\ \A i \in 1..(Len(low) + Len(one)) : lo[i] = IF i <= Len(low) THEN low[i] ELSE one[i - Len(low)]
  BY <1>3, <1>5, ConcatProperties
<1>9. Len(lo) = 4 /\ lo[1] = s[1] /\ lo[2] = s[2] /\ lo[3] = s[3] /\ lo[4] = o
  <2> HIDE DEF lo
  <2> QED
    BY <1>3, <1>5, <1>6
<1> HIDE DEF lo
<1>7. /\ w \in Seq(T) /\ Len(w) = Len(lo) + Len(top)
      /\ \A i \in 1..(Len(lo) + Len(top)) : w[i] = IF i <= Len(lo) THEN lo[i] ELSE top[i - Len(lo)]
  BY <1>4, <1>6, ConcatProperties
<1>8. w = WithProfile(s, o)
  BY DEF WithProfile, lo, low, top, one
<1> HIDE DEF w
<1>10. Len(w) = 5 /\ DOMAIN w = 1..5 /\ w[1] = s[1] /\ w[2] = s[2] /\ w[3] = s[3] /\ w[4] = o /\ w[5] = s[4]
  BY <1>4, <1>7, <1>9
<1> QED
  BY <1>1, <1>2, <1>8, <1>10 DEF d

\* The highest layer that has a key.
LEMMA HighestOfFour ==
  ASSUME NEW s, NEW k, DOMAIN s = 1..4, k \in DOMAIN s[1]
  PROVE  GetFor(s, k) = IF k \in DOMAIN s[4] THEN s[4][k]
                        ELSE IF k \in DOMAIN s[3] THEN s[3][k]
                        ELSE IF k \in DOMAIN s[2] THEN s[2][k] ELSE s[1][k]
<1>1. DOMAIN s \subseteq Nat /\ \A j \in DOMAIN s : j = 1 \/ j = 2 \/ j = 3 \/ j = 4
  OBVIOUS
<1>2. CASE k \in DOMAIN s[4]
  <2>1. 4 \in DOMAIN s /\ \A j \in DOMAIN s : ~(j > 4)
    BY <1>1
  <2> QED
    BY <2>1, <1>1, <1>2, GetForIs
<1>3. CASE k \notin DOMAIN s[4] /\ k \in DOMAIN s[3]
  <2>1. 3 \in DOMAIN s /\ \A j \in DOMAIN s : j > 3 => k \notin DOMAIN s[j]
    BY <1>1, <1>3
  <2> QED
    BY <2>1, <1>1, <1>3, GetForIs
<1>4. CASE k \notin DOMAIN s[4] /\ k \notin DOMAIN s[3] /\ k \in DOMAIN s[2]
  <2>1. 2 \in DOMAIN s /\ \A j \in DOMAIN s : j > 2 => k \notin DOMAIN s[j]
    BY <1>1, <1>4
  <2> QED
    BY <2>1, <1>1, <1>4, GetForIs
<1>5. CASE k \notin DOMAIN s[4] /\ k \notin DOMAIN s[3] /\ k \notin DOMAIN s[2]
  <2>1. 1 \in DOMAIN s /\ \A j \in DOMAIN s : j > 1 => k \notin DOMAIN s[j]
    BY <1>1, <1>5
  <2> QED
    BY <2>1, <1>1, <1>5, GetForIs
<1> QED
  BY <1>2, <1>3, <1>4, <1>5

\* The same with the profile between.
LEMMA HighestOfFive ==
  ASSUME NEW s, NEW k, DOMAIN s = 1..5, k \in DOMAIN s[1]
  PROVE  GetFor(s, k) = IF k \in DOMAIN s[5] THEN s[5][k]
                        ELSE IF k \in DOMAIN s[4] THEN s[4][k]
                        ELSE IF k \in DOMAIN s[3] THEN s[3][k]
                        ELSE IF k \in DOMAIN s[2] THEN s[2][k] ELSE s[1][k]
<1>1. DOMAIN s \subseteq Nat /\ \A j \in DOMAIN s : j = 1 \/ j = 2 \/ j = 3 \/ j = 4 \/ j = 5
  OBVIOUS
<1>6. CASE k \in DOMAIN s[5]
  <2>1. 5 \in DOMAIN s /\ \A j \in DOMAIN s : ~(j > 5)
    BY <1>1
  <2> QED
    BY <2>1, <1>1, <1>6, GetForIs
<1>2. CASE k \notin DOMAIN s[5] /\ k \in DOMAIN s[4]
  <2>1. 4 \in DOMAIN s /\ \A j \in DOMAIN s : j > 4 => k \notin DOMAIN s[j]
    BY <1>1, <1>2
  <2> QED
    BY <2>1, <1>1, <1>2, GetForIs
<1>3. CASE k \notin DOMAIN s[5] /\ k \notin DOMAIN s[4] /\ k \in DOMAIN s[3]
  <2>1. 3 \in DOMAIN s /\ \A j \in DOMAIN s : j > 3 => k \notin DOMAIN s[j]
    BY <1>1, <1>3
  <2> QED
    BY <2>1, <1>1, <1>3, GetForIs
<1>4. CASE k \notin DOMAIN s[5] /\ k \notin DOMAIN s[4] /\ k \notin DOMAIN s[3] /\ k \in DOMAIN s[2]
  <2>1. 2 \in DOMAIN s /\ \A j \in DOMAIN s : j > 2 => k \notin DOMAIN s[j]
    BY <1>1, <1>4
  <2> QED
    BY <2>1, <1>1, <1>4, GetForIs
<1>5. CASE k \notin DOMAIN s[5] /\ k \notin DOMAIN s[4] /\ k \notin DOMAIN s[3] /\ k \notin DOMAIN s[2]
  <2>1. 1 \in DOMAIN s /\ \A j \in DOMAIN s : j > 1 => k \notin DOMAIN s[j]
    BY <1>1, <1>5
  <2> QED
    BY <2>1, <1>1, <1>5, GetForIs
<1> QED
  BY <1>2, <1>3, <1>4, <1>5, <1>6

\* The first of five answers that is one.
FirstSaid(said) ==
  said[CHOOSE i \in 1..5 : said[i] \in Values /\ \A j \in 1..(i - 1) : said[j] \notin Values]
FirstOf(e, p, u, y, d) ==
  IF e \in Values THEN e ELSE IF p \in Values THEN p ELSE IF u \in Values THEN u ELSE IF y \in Values THEN y ELSE d

\* It is the first of them, asked one after the other.
LEMMA FirstSaidIs ==
  ASSUME NEW e, NEW p, NEW u, NEW y, NEW d \in Values
  PROVE  FirstSaid(<<e, p, u, y, d>>) = FirstOf(e, p, u, y, d)
<1> DEFINE said == <<e, p, u, y, d>>
           First(i) == said[i] \in Values /\ \A j \in 1..(i - 1) : said[j] \notin Values
           f == CHOOSE i \in 1..5 : First(i)
<1>1. said[1] = e /\ said[2] = p /\ said[3] = u /\ said[4] = y /\ said[5] = d
  OBVIOUS
<1>2. FirstSaid(said) = said[f]
  BY DEF FirstSaid
<1> HIDE DEF said
<1>3. \E i \in 1..5 : First(i)
  <2>1. CASE said[1] \in Values
    <3>1. First(1)
      BY <2>1
    <3> QED
      BY <3>1
  <2>2. CASE said[1] \notin Values /\ said[2] \in Values
    <3>1. First(2)
      BY <2>2
    <3> QED
      BY <3>1
  <2>3. CASE said[1] \notin Values /\ said[2] \notin Values /\ said[3] \in Values
    <3>1. First(3)
      BY <2>3
    <3> QED
      BY <3>1
  <2>4. CASE said[1] \notin Values /\ said[2] \notin Values /\ said[3] \notin Values /\ said[4] \in Values
    <3>1. First(4)
      BY <2>4
    <3> QED
      BY <3>1
  <2>5. CASE said[1] \notin Values /\ said[2] \notin Values /\ said[3] \notin Values /\ said[4] \notin Values
    <3>1. First(5)
      BY <2>5, <1>1
    <3> QED
      BY <3>1
  <2> QED
    BY <2>1, <2>2, <2>3, <2>4, <2>5
<1>4. f \in 1..5 /\ First(f)
  <2> HIDE DEF First
  <2> QED
    BY <1>3
<1>5. said[f] \in Values /\ \A j \in 1..(f - 1) : said[j] \notin Values
  BY <1>4
<1>6. f \in 1..5
  BY <1>4
<1> HIDE DEF f, First
<1>7. \A j \in {1, 2, 3, 4} : said[j] \in Values => f <= j
  <2> TAKE j \in {1, 2, 3, 4}
  <2> SUFFICES ASSUME said[j] \in Values, ~(f <= j) PROVE FALSE
    OBVIOUS
  <2>1. j \in 1..(f - 1)
    BY <1>6
  <2> QED
    BY <2>1, <1>5
<1>8. f = 1 \/ f = 2 \/ f = 3 \/ f = 4 \/ f = 5
  BY <1>6
<1>9. said[f] = FirstOf(e, p, u, y, d)
  BY <1>1, <1>5, <1>7, <1>8 DEF FirstOf
<1> QED
  BY <1>2, <1>9 DEF said

-----------------------------------------------------------------------------
(* What a setting is.                                                       *)

LayersTyped ==
  /\ system \in Documents /\ user \in Documents
  /\ \A i \in DOMAIN profiles : profiles[i].overrides \in [Keys -> Values \cup {Unset, Bad}]
  /\ Len(profiles) = 2 => profiles \in Profiles \X Profiles /\ app \in Apps

\* What the profile of the application in front says of a key.
ProfileSays(k) ==
  IF SelectProfile(profiles, app) = {} THEN Unset
  ELSE profiles[CHOOSE i \in SelectProfile(profiles, app) : TRUE].overrides[k]

\* get_for answers what is said first, from the environment down.
LEMMA EffectiveIs ==
  ASSUME LayersTyped, NEW theUser \in [Keys -> Values \cup {Unset, Bad}],
         system \in [Keys -> Values \cup {Unset, Bad}], NEW k \in Keys
  PROVE  Effective(theUser, k) = FirstOf(EnvValue(env, k), ProfileSays(k), theUser[k], system[k], Default)
<1> DEFINE won == SelectProfile(profiles, app)
           o == ValidValues(profiles[CHOOSE i \in won : TRUE].overrides)
           s == LayerStack(system, theUser, env)
           w == WithProfile(s, o)
<1>1. Effective(theUser, k) = IF won = {} THEN GetFor(s, k) ELSE GetFor(w, k)
  BY DEF Effective, Stacked
<1>2. /\ DOMAIN s = 1..4 /\ s[1] = [j \in Keys |-> Default] /\ s[2] = ValidValues(system)
      /\ s[3] = ValidValues(theUser) /\ s[4] = EnvValues(env)
      /\ DOMAIN w = 1..5 /\ w[1] = s[1] /\ w[2] = s[2] /\ w[3] = s[3] /\ w[4] = o /\ w[5] = s[4]
  BY StackIs
<1>3. Unset \notin Values
  BY ConfigAssumption
<1>4. won # {} => /\ k \in DOMAIN o <=> ProfileSays(k) \in Values
                  /\ ProfileSays(k) \in Values => o[k] = ProfileSays(k)
  <2> SUFFICES ASSUME won # {} PROVE /\ k \in DOMAIN o <=> ProfileSays(k) \in Values
                                     /\ ProfileSays(k) \in Values => o[k] = ProfileSays(k)
    OBVIOUS
  <2> DEFINE i == CHOOSE j \in won : TRUE
             doc == profiles[i].overrides
  <2>1. i \in won
    OBVIOUS
  <2>2. won \subseteq DOMAIN profiles
    BY DEF SelectProfile
  <2>3. doc \in [Keys -> Values \cup {Unset, Bad}]
    BY <2>1, <2>2 DEF LayersTyped
  <2>4. ProfileSays(k) = doc[k]
    BY DEF ProfileSays
  <2>5. o = ValidValues(doc)
    OBVIOUS
  <2> HIDE DEF doc, o
  <2> QED
    BY <2>3, <2>4, <2>5, ValidIs
<1>5. /\ k \in DOMAIN s[4] <=> EnvValue(env, k) \in Values
      /\ EnvValue(env, k) \in Values => s[4][k] = EnvValue(env, k)
  BY <1>2, EnvIs
<1>6. /\ k \in DOMAIN s[3] <=> theUser[k] \in Values
      /\ theUser[k] \in Values => s[3][k] = theUser[k]
  BY <1>2, ValidIs
<1>7. /\ k \in DOMAIN s[2] <=> system[k] \in Values
      /\ system[k] \in Values => s[2][k] = system[k]
  BY <1>2, ValidIs
<1>8. k \in DOMAIN s[1] /\ s[1][k] = Default
  BY <1>2
<1> HIDE DEF s, w, o
<1>9. CASE won = {}
  <2>1. ProfileSays(k) = Unset
    BY <1>9 DEF ProfileSays
  <2>2. Effective(theUser, k) = GetFor(s, k)
    BY <1>1, <1>9
  <2> QED
    BY <2>1, <2>2, <1>2, <1>3, <1>5, <1>6, <1>7, <1>8, HighestOfFour DEF FirstOf
<1>10. CASE won # {}
  <2>1. Effective(theUser, k) = GetFor(w, k)
    BY <1>1, <1>10
  <2> HIDE DEF won
  <2>2. GetFor(w, k) = IF k \in DOMAIN s[4] THEN s[4][k]
                       ELSE IF k \in DOMAIN o THEN o[k]
                       ELSE IF k \in DOMAIN s[3] THEN s[3][k]
                       ELSE IF k \in DOMAIN s[2] THEN s[2][k] ELSE s[1][k]
    BY <1>2, <1>8, HighestOfFive
  <2> QED
    BY <2>1, <2>2, <1>4, <1>5, <1>6, <1>7, <1>8, <1>10 DEF FirstOf
<1> QED
  BY <1>9, <1>10

\* That is what the property says of the files on disk.
LEMMA FirstValidWins ==
  ASSUME LayersTyped
  PROVE  FirstValidLayerWins
<1> SUFFICES ASSUME Builds(system, user), NEW k \in Keys
             PROVE  Effective(user, k) = FirstSaid(<<EnvValue(env, k), ProfileSays(k), user[k], system[k], Default>>)
  BY DEF FirstValidLayerWins, FirstSaid, ProfileSays
<1>1. system \in [Keys -> Values \cup {Unset, Bad}] /\ user \in [Keys -> Values \cup {Unset, Bad}]
  BY DEF LayersTyped, Builds, Documents
<1>2. Default \in Values
  BY ConfigAssumption
<1> QED
  BY <1>1, <1>2, EffectiveIs, FirstSaidIs

-----------------------------------------------------------------------------
(* Which of two profiles applies.                                           *)

Letters == {"a", "b"}

\* Of two prefixes of a name the shorter is a prefix of the longer.
LEMMA PrefixOfPrefix ==
  ASSUME NEW t \in Seq(Letters), NEW a \in Seq(Letters), NEW b \in Seq(Letters),
         BeginsWith(t, a), BeginsWith(t, b), Len(b) <= Len(a)
  PROVE  BeginsWith(a, b)
<1> HIDE DEF Letters
<1>0. Len(a) \in Nat /\ Len(b) \in Nat /\ Len(t) \in Nat /\ Len(a) <= Len(t) /\ Len(b) <= Len(t)
  BY DEF BeginsWith
<1>1. \A i \in 1..Len(a) : a[i] = t[i]
  <2>1. SubSeq(t, 1, Len(a)) = a
    BY DEF BeginsWith
  <2>2. \A i \in 1..Len(a) : SubSeq(t, 1, Len(a))[i] = t[i]
    BY <1>0
  <2> QED
    BY <2>1, <2>2
<1>2. \A i \in 1..Len(b) : b[i] = t[i]
  <2>1. SubSeq(t, 1, Len(b)) = b
    BY DEF BeginsWith
  <2>2. \A i \in 1..Len(b) : SubSeq(t, 1, Len(b))[i] = t[i]
    BY <1>0
  <2> QED
    BY <2>1, <2>2
<1> DEFINE c == SubSeq(a, 1, Len(b))
<1>3. c \in Seq(Letters) /\ Len(c) = Len(b) /\ \A i \in 1..Len(b) : c[i] = a[i]
  BY <1>0
<1> HIDE DEF c
<1>4. \A i \in 1..Len(c) : c[i] = b[i]
  BY <1>0, <1>1, <1>2, <1>3
<1>5. c = b
  BY <1>3, <1>4, SeqEqual
<1> QED
  BY <1>0, <1>5 DEF BeginsWith, c

\* Of two that match, select takes the one that is not outranked, the earlier of equals.
LEMMA SelectOfTwo ==
  ASSUME DOMAIN profiles = {1, 2}, MatchesApp(profiles[1], app), MatchesApp(profiles[2], app)
  PROVE  LET first == RankOf(profiles[1])
             second == RankOf(profiles[2])
         IN /\ ~Outranks(second, first) => SelectProfile(profiles, app) = {1}
            /\ Outranks(second, first) /\ ~Outranks(first, second) => SelectProfile(profiles, app) = {2}
BY DEF SelectProfile

\* An exact pattern outranks a starred one, a longer one a shorter, and so they are announced.
LEMMA AnnouncedWins ==
  ASSUME LayersTyped
  PROVE  AnnouncedProfileWins
<1> SUFFICES ASSUME Len(profiles) = 2, profiles[1].kind = profiles[2].kind,
                    MatchesApp(profiles[1], app), MatchesApp(profiles[2], app)
             PROVE  \E p \in ReportOverlaps(profiles) : SelectProfile(profiles, app) = {p[1]}
  BY DEF AnnouncedProfileWins
<1> DEFINE one == profiles[1]
           two == profiles[2]
           a == one.pattern
           b == two.pattern
           t == app[one.kind]
<1>1. one \in Profiles /\ two \in Profiles /\ profiles = <<one, two>> /\ app \in Apps
  BY DEF LayersTyped
<1>2. DOMAIN profiles = {1, 2} /\ 1..Len(profiles) = {1, 2}
  BY <1>1
<1>3. \A x \in Stems : x \in Seq(Letters) /\ Len(x) \in Nat
  <2> TAKE x \in Stems
  <2>1. PICK n \in 1..2 : x \in [1..n -> Letters]
    BY DEF Stems, Letters
  <2>2. n \in Nat
    OBVIOUS
  <2> HIDE DEF Letters
  <2>3. x \in Seq(Letters)
    BY <2>1, <2>2, SeqDef
  <2> QED
    BY <2>3
<1>4. a.stem \in Stems /\ b.stem \in Stems /\ a.star \in BOOLEAN /\ b.star \in BOOLEAN
  BY <1>1 DEF Profiles
<1>5. t \in Seq(Letters) /\ PatternMatches(a, t) /\ PatternMatches(b, t)
  <2>1. one.kind \in DOMAIN app /\ PatternMatches(a, t) /\ PatternMatches(b, t)
    BY DEF MatchesApp
  <2>2. t \in {<<"a">>, <<"a", "b">>}
    BY <1>1, <2>1 DEF Apps
  <2> HIDE DEF t
  <2> DEFINE l == "a"
             m == "b"
  <2>4. l \in Letters /\ m \in Letters /\ (t = <<l>> \/ t = <<l, m>>)
    BY <2>2 DEF Letters
  <2> HIDE DEF l, m, Letters
  <2>5. <<l>> \in Seq(Letters) /\ <<l, m>> \in Seq(Letters)
    BY <2>4
  <2>3. t \in Seq(Letters)
    BY <2>4, <2>5
  <2> QED
    BY <2>1, <2>3 DEF t
<1> DEFINE R1 == RankOf(one)
           R2 == RankOf(two)
<1>6. /\ R1[1] = R2[1] /\ R1[2] = (IF a.star THEN 0 ELSE 1) /\ R2[2] = (IF b.star THEN 0 ELSE 1)
      /\ R1[3] = Len(a.stem) /\ R2[3] = Len(b.stem) /\ R1[1] \in Nat
  BY DEF RankOf, Specificity
<1>7. /\ Outranks(R1, R2) <=> R1[2] > R2[2] \/ (R1[2] = R2[2] /\ R1[3] > R2[3])
      /\ Outranks(R2, R1) <=> R2[2] > R1[2] \/ (R1[2] = R2[2] /\ R2[3] > R1[3])
  BY <1>6 DEF Outranks
<1>8. /\ ~Outranks(R2, R1) => SelectProfile(profiles, app) = {1}
      /\ Outranks(R2, R1) /\ ~Outranks(R1, R2) => SelectProfile(profiles, app) = {2}
  BY <1>2, SelectOfTwo
<1>9. /\ PatternsOverlap(a, b) /\ FirstIsAnnounced(a, b) => <<1, 2>> \in ReportOverlaps(profiles)
      /\ PatternsOverlap(a, b) /\ ~FirstIsAnnounced(a, b) => <<2, 1>> \in ReportOverlaps(profiles)
  <2> DEFINE Q == {q \in (1..Len(profiles)) \X (1..Len(profiles)) :
                     /\ q[1] < q[2] /\ profiles[q[1]].kind = profiles[q[2]].kind
                     /\ PatternsOverlap(profiles[q[1]].pattern, profiles[q[2]].pattern)}
             e == <<1, 2>>
  <2>1. PatternsOverlap(a, b) => e \in Q
    <3>1. e \in (1..Len(profiles)) \X (1..Len(profiles)) /\ e[1] = 1 /\ e[2] = 2
      BY <1>2
    <3> HIDE DEF e
    <3> QED
      BY <3>1
  <2>2. ReportOverlaps(profiles) =
          {IF FirstIsAnnounced(profiles[p[1]].pattern, profiles[p[2]].pattern) THEN p ELSE <<p[2], p[1]>> : p \in Q}
    BY DEF ReportOverlaps
  <2>3. e[1] = 1 /\ e[2] = 2
    OBVIOUS
  <2> HIDE DEF Q, e
  <2>4. PatternsOverlap(a, b) => (IF FirstIsAnnounced(a, b) THEN e ELSE <<2, 1>>) \in ReportOverlaps(profiles)
    BY <2>1, <2>2, <2>3
  <2> QED
    BY <2>4 DEF e
<1> HIDE DEF one, two, R1, R2, t
<1>10. PatternsOverlap(a, b) /\ (FirstIsAnnounced(a, b) => ~Outranks(R2, R1))
       /\ (~FirstIsAnnounced(a, b) => Outranks(R2, R1) /\ ~Outranks(R1, R2))
  <2> DEFINE x == a.stem
             y == b.stem
  <2>0. x \in Seq(Letters) /\ y \in Seq(Letters) /\ Len(x) \in Nat /\ Len(y) \in Nat
    BY <1>3, <1>4
  <2>1. CASE ~a.star /\ ~b.star
    <3>1. x = t /\ y = t
      BY <2>1, <1>5 DEF PatternMatches
    <3>2. Len(x) = Len(y)
      BY <3>1
    <3> HIDE DEF x, y, a, b
    <3> QED
      BY <3>1, <3>2, <2>0, <2>1, <1>6, <1>7 DEF PatternsOverlap, FirstIsAnnounced, x, y
  <2>2. CASE a.star /\ ~b.star
    <3>1. BeginsWith(y, x)
      BY <2>2, <1>5 DEF PatternMatches
    <3>2. Outranks(R2, R1) /\ ~Outranks(R1, R2)
      BY <2>2, <1>6, <1>7
    <3> QED
      BY <3>1, <3>2, <2>2 DEF PatternsOverlap, FirstIsAnnounced
  <2>3. CASE ~a.star /\ b.star
    <3>1. BeginsWith(x, y)
      BY <2>3, <1>5 DEF PatternMatches
    <3>2. ~Outranks(R2, R1)
      BY <2>3, <1>6, <1>7
    <3> QED
      BY <3>1, <3>2, <2>3 DEF PatternsOverlap, FirstIsAnnounced
  <2>4. CASE a.star /\ b.star
    <3>1. BeginsWith(t, x) /\ BeginsWith(t, y)
      BY <2>4, <1>5 DEF PatternMatches
    <3>2. BeginsWith(x, y) \/ BeginsWith(y, x)
      <4>1. CASE Len(y) <= Len(x)
        BY <4>1, <3>1, <2>0, <1>5, PrefixOfPrefix
      <4>2. CASE Len(x) <= Len(y)
        BY <4>2, <3>1, <2>0, <1>5, PrefixOfPrefix
      <4> QED
        BY <4>1, <4>2, <2>0
    <3> QED
      BY <3>2, <2>0, <2>4, <1>6, <1>7 DEF PatternsOverlap, FirstIsAnnounced
  <2> QED
    BY <2>1, <2>2, <2>3, <2>4, <1>4
<1>11. CASE FirstIsAnnounced(a, b)
  <2> DEFINE p == <<1, 2>>
  <2>1. p \in ReportOverlaps(profiles) /\ SelectProfile(profiles, app) = {1} /\ p[1] = 1
    BY <1>8, <1>9, <1>10, <1>11
  <2> HIDE DEF p
  <2> QED
    BY <2>1
<1>12. CASE ~FirstIsAnnounced(a, b)
  <2> DEFINE p == <<2, 1>>
  <2>1. p \in ReportOverlaps(profiles) /\ SelectProfile(profiles, app) = {2} /\ p[1] = 2
    BY <1>8, <1>9, <1>10, <1>12
  <2> HIDE DEF p
  <2> QED
    BY <2>1
<1> QED
  BY <1>11, <1>12

-----------------------------------------------------------------------------
(* What a row of the menu does.                                             *)

\* The documents that are found are documents.
LEMMA LayersTypedInit == LayersInit => LayersTyped
<1> SUFFICES ASSUME LayersInit PROVE LayersTyped
  OBVIOUS
<1> DEFINE V == Values \cup {Unset, Bad}
           Rest(o) == [kind |-> "bundle-id", pattern |-> [stem |-> <<"a">>, star |-> FALSE], overrides |-> o]
<1>0. Nothing \in [Keys -> V] /\ Nothing \in Documents
  BY DEF Nothing, Documents
<1>1. \A o : Rest(o).overrides = o
  OBVIOUS
<1>2. CASE profiles = <<>> /\ system \in Documents /\ user \in Documents
  BY <1>2 DEF LayersTyped
<1>3. ASSUME NEW o \in Documents \ {Broken}, profiles = <<Rest(o)>>, system \in Documents, user \in Documents
      PROVE  LayersTyped
  <2>1. o \in [Keys -> V]
    BY DEF Documents
  <2> DEFINE r == Rest(o)
  <2>2. r.overrides = o /\ profiles = <<r>>
    BY <1>1, <1>3
  <2> HIDE DEF r
  <2>3. DOMAIN profiles = {1} /\ profiles[1] = r /\ Len(profiles) = 1
    BY <2>2
  <2> QED
    BY <2>1, <2>2, <2>3, <1>3 DEF LayersTyped
<1>4. CASE profiles \in Profiles \X Profiles /\ app \in Apps /\ system = Nothing /\ user = Nothing
  <2>1. profiles = <<profiles[1], profiles[2]>> /\ profiles[1] \in Profiles /\ profiles[2] \in Profiles
    <3> HIDE DEF Profiles
    <3> QED
      BY <1>4
  <2>2. DOMAIN profiles = {1, 2}
    BY <2>1
  <2>3. \A r \in Profiles : r.overrides = Nothing
    BY DEF Profiles
  <2>4. \A i \in DOMAIN profiles : profiles[i].overrides = Nothing
    BY <2>1, <2>2, <2>3
  <2> QED
    BY <2>4, <1>0, <1>4 DEF LayersTyped
<1> QED
  BY <1>2, <1>3, <1>4 DEF LayersInit

\* They remain so.
LEMMA LayersTypedStep ==
  ASSUME LayersTyped, [LayersNext]_layerVars
  PROVE  LayersTyped'
<1>1. CASE UNCHANGED layerVars
  BY <1>1 DEF LayersTyped, layerVars
<1>2. CASE MenuSet
  <2>1. PICK k \in Keys, v \in Values : user' = UpdateFile(user, k, v)
    BY <1>2 DEF MenuSet
  <2>2. user' \in Documents
    BY <2>1 DEF UpdateFile, LayersTyped, Documents
  <2> QED
    BY <1>2, <2>2 DEF MenuSet, LayersTyped
<1> QED
  BY <1>1, <1>2 DEF LayersNext

\* One key written changes what that key is, where nothing above the file says so, and no other.
LEMMA MenuWrites ==
  ASSUME LayersTyped, [LayersNext]_layerVars, Builds(system, user), NEW k \in Keys
  PROVE  /\ user'[k] = user[k] => Effective(user', k) = Effective(user, k)
         /\ user'[k] # user[k] =>
              \/ Effective(user', k) = user'[k]
              \/ EnvValue(env, k) \in Values
              \/ \E i \in DOMAIN profiles : profiles[i].overrides[k] \in Values
<1> DEFINE V == Values \cup {Unset, Bad}
<1>1. system \in [Keys -> V] /\ user \in [Keys -> V]
  BY DEF LayersTyped, Builds, Documents
<1>2. user' \in [Keys -> V] /\ (user'[k] # user[k] => user'[k] \in Values)
  <2>1. CASE UNCHANGED layerVars
    BY <2>1, <1>1 DEF layerVars
  <2>2. CASE MenuSet
    <3>1. PICK j \in Keys, v \in Values : user' = UpdateFile(user, j, v)
      BY <2>2 DEF MenuSet
    <3>2. user' = [user EXCEPT ![j] = v]
      BY <3>1 DEF UpdateFile, Builds
    <3> QED
      BY <3>2, <1>1
  <2> QED
    BY <2>1, <2>2 DEF LayersNext
<1>3. Effective(user, k) = FirstOf(EnvValue(env, k), ProfileSays(k), user[k], system[k], Default)
  BY <1>1, EffectiveIs
<1>4. Effective(user', k) = FirstOf(EnvValue(env, k), ProfileSays(k), user'[k], system[k], Default)
  BY <1>1, <1>2, EffectiveIs
<1>5. ProfileSays(k) \in Values => \E i \in DOMAIN profiles : profiles[i].overrides[k] \in Values
  <2> DEFINE won == SelectProfile(profiles, app)
  <2>1. won \subseteq DOMAIN profiles
    BY DEF SelectProfile
  <2> HIDE DEF won
  <2>2. won # {} => (CHOOSE i \in won : TRUE) \in won
    OBVIOUS
  <2>3. Unset \notin Values
    BY ConfigAssumption
  <2> QED
    BY <2>1, <2>2, <2>3 DEF ProfileSays, won
<1> QED
  BY <1>2, <1>3, <1>4, <1>5 DEF FirstOf

\* layers.rs, profile.rs, validate.rs, docs/configuration.md: of all that may set a
\* value the first valid one wins, the profile that is announced is the one that is
\* picked, and a row of the menu takes effect and moves nothing else.
THEOREM LayersAlwaysAgree == LayersSpec => LayersAgree
<1>1. LayersInit => LayersTyped
  BY LayersTypedInit
<1>2. LayersTyped /\ [LayersNext]_layerVars => LayersTyped'
  BY LayersTypedStep
<1>3. LayersTyped => FirstValidLayerWins /\ AnnouncedProfileWins
  BY FirstValidWins, AnnouncedWins
<1>4. LayersTyped /\ [LayersNext]_layerVars =>
        [Builds(system, user) =>
           \A k \in Keys :
             /\ user'[k] = user[k] => Effective(user', k) = Effective(user, k)
             /\ user'[k] # user[k] =>
                  \/ Effective(user', k) = user'[k]
                  \/ EnvValue(env, k) \in Values
                  \/ \E i \in DOMAIN profiles : profiles[i].overrides[k] \in Values]_layerVars
  BY MenuWrites
<1> QED
  BY <1>1, <1>2, <1>3, <1>4, PTL DEF LayersSpec, LayersAgree, MenuWriteTakesEffect
=============================================================================
