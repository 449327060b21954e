------------------------------ MODULE UndoRing ------------------------------
(* crates/stream/src/undo.rs, and seal_undo of session.rs: before and after *)
(* images of the last dictations. A field is a sequence of who wrote each   *)
(* piece of it: a dictation or the user.                                    *)
EXTENDS Naturals, Sequences, FiniteSets

CONSTANTS
  UndoCapacity,   \* units the ring holds, at least one
  MaxField,       \* pieces of text in the field
  NoUnit          \* no dictation is open

ASSUME UndoAssumption == UndoCapacity \in Nat \ {0} /\ MaxField \in Nat

VARIABLES
  units,     \* sealed dictations, newest last
  open,      \* the dictation under way: its before image and caret
  written,   \* what the dictation under way has put at its caret
  text,      \* what the field holds
  undisturbed \* history: the field before a dictation that changed it, as long
              \* as nothing else has changed it, or NoUnit

undoVars == <<units, open, written, text, undisturbed>>

Piece == {"dictated", "typed"}
Inserted(f, caret, pieces) == SubSeq(f, 1, caret) \o pieces \o SubSeq(f, caret + 1, Len(f))
TypedIn(f) == Cardinality({i \in 1..Len(f) : f[i] = "typed"})

UndoInit ==
  /\ units = <<>> /\ open = NoUnit /\ written = <<>> /\ text = <<>>
  /\ undisturbed = NoUnit

\* begin_unit replaces a unit that is open.
BeginUnit ==
  /\ \E caret \in 0..Len(text) : open' = [before |-> text, caret |-> caret]
  /\ written' = <<>> /\ undisturbed' = NoUnit /\ UNCHANGED <<units, text>>

\* A streamed write lands in the region of the open dictation, wherever the
\* user has moved it: the ring is not told.
StreamWrite ==
  /\ open # NoUnit /\ Len(text) < MaxField /\ Len(written) < 2
  /\ \E at \in 0..Len(text) : text' = Inserted(text, at, <<"dictated">>)
  /\ written' = Append(written, "dictated") /\ UNCHANGED <<units, open, undisturbed>>

UserTypes ==
  /\ Len(text) < MaxField /\ \E at \in 0..Len(text) : text' = Inserted(text, at, <<"typed">>)
  /\ undisturbed' = NoUnit /\ UNCHANGED <<units, open, written>>

UserDeletes ==
  /\ \E at \in 1..Len(text) : text' = SubSeq(text, 1, at - 1) \o SubSeq(text, at + 1, Len(text))
  /\ undisturbed' = NoUnit /\ UNCHANGED <<units, open, written>>

\* Mutant: a full ring keeps its oldest units.
PushUnlessFull(ring, unit) == IF Len(ring) = UndoCapacity THEN ring ELSE Append(ring, unit)

\* The oldest unit makes room for the newest.
PushUnit(ring, unit) ==
  Append(IF Len(ring) = UndoCapacity THEN Tail(ring) ELSE ring, unit)

\* Mutant: the after image is what the field holds, with what the user typed
\* into it meanwhile.
AfterImageRead(unit, dictated) == text

\* The after image of seal_undo: the before image with the dictated text.
AfterImage(unit, dictated) == Inserted(unit.before, unit.caret, dictated)

\* end_unit: a dictation that changed nothing leaves no unit.
EndUnit ==
  /\ open # NoUnit /\ open' = NoUnit /\ written' = <<>>
  /\ LET after == AfterImage(open, written)
     IN /\ units' = IF after = open.before THEN units
                    ELSE PushUnit(units, [before |-> open.before, after |-> after])
        /\ undisturbed' = IF written # <<>> /\ text = AfterImage(open, written)
                          THEN [before |-> open.before] ELSE NoUnit
  /\ UNCHANGED text

AbortUnit ==
  /\ open # NoUnit /\ open' = NoUnit /\ written' = <<>>
  /\ UNCHANGED <<units, text, undisturbed>>

\* undo takes the newest unit out, whatever it decides; the caller writes the
\* before image of a Restore and offers the other on the clipboard.
Undo ==
  /\ open = NoUnit
  /\ IF units = <<>> THEN UNCHANGED <<units, text>>
     ELSE LET unit == units[Len(units)]
          IN /\ units' = SubSeq(units, 1, Len(units) - 1)
             /\ text' = IF text = unit.after THEN unit.before ELSE text
  /\ undisturbed' = NoUnit /\ UNCHANGED <<open, written>>

UndoNext == BeginUnit \/ StreamWrite \/ UserTypes \/ UserDeletes \/ EndUnit \/ AbortUnit \/ Undo
UndoSpec == UndoInit /\ [][UndoNext]_undoVars

-----------------------------------------------------------------------------
\* Undo never takes a piece of the user's own typing out of the field, not
\* even one typed while the dictation was still streaming (undo.rs:16).
UndoKeepsTyping == [][Undo => TypedIn(text') = TypedIn(text)]_undoVars

\* One dictation is one step back: right after one that nobody disturbed, undo
\* restores the field it began with, however many writes it took and however
\* full the ring was (undo.rs:9).
UndoTakesBackTheLast ==
  [][Undo /\ undisturbed # NoUnit => text' = undisturbed.before]_undoVars

\* One undo takes back one dictation, and nothing else.
UndoIsExact == UndoKeepsTyping /\ UndoTakesBackTheLast
=============================================================================
