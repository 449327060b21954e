------------------------------ MODULE Delivery ------------------------------
(* crates/outloud/src/inject.rs: how a transcript reaches the focused field. *)
(* Each platform tries its transports in order: an accessibility write, the  *)
(* keyboard, the clipboard. A field is a sequence of words and what is       *)
(* selected in it, and everything on the clipboard is text; spaces, wording  *)
(* and the pace of typing are left out.                                      *)
EXTENDS Naturals, Sequences, SequencesExt, FiniteSets, FiniteSetsExt

CONSTANTS
  FieldWords,     \* the words a field may hold before the first dictation
  MaxDeliveries,  \* bound: deliveries in a behaviour
  MaxMeddling     \* bound: what the user does to field and clipboard meanwhile

\* What is said, and what the rewrite of a selection comes to: two words each,
\* so that half of them can land.
Said == <<"s1", "s2">>
Rewritten == <<"r1", "r2">>

\* Outcomes of one attempt to type: every chunk is posted; nothing is, without
\* the permission; or an event cannot be made and the chunks before it are out.
TypingEnds == {"typed", "refused", "cut"}

VARIABLES
  dest,       \* the system, the focused application and what its field allows
  box,        \* the field: its words, and where its selection starts and how long it is
  clipboard,  \* what the clipboard holds
  owned,      \* what the user copied last
  keystrokes, \* paste keystrokes the application has not handled
  givebacks,  \* PENDING_RESTORES: what the detached threads will put back
  ring,       \* the undo ring, newest last
  job,        \* the delivery under way
  past        \* history: the field before the delivery, and what went amiss

deliveryVars == <<dest, box, clipboard, owned, keystrokes, givebacks, ring, job, past>>

Idle == [at |-> "idle", edit |-> FALSE, sel |-> <<>>, spoken |-> "text", words |-> <<>>,
         saved |-> <<>>, inline |-> FALSE, via |-> "none", result |-> "none"]

Selected(f) == SubSeq(f.words, f.from + 1, f.from + f.len)
\* Words over what is selected, the caret after them.
Over(f, words) ==
  [words |-> SubSeq(f.words, 1, f.from) \o words \o SubSeq(f.words, f.from + f.len + 1, Len(f.words)),
   from |-> f.from + Len(words), len |-> 0]
WholeField(words) == [words |-> words, from |-> Len(words), len |-> 0]

\* keys.rs accepts: Discord loses typed keys and accessibility writes, a few
\* others ignore accessibility writes only.
Acceptances == {"both", "typing", "clipboard"}
Os == {"macos", "windows", "linux"}

DeliveryInit ==
  /\ dest \in [os : Os, accepts : Acceptances, tty : BOOLEAN, value : BOOLEAN, sel : BOOLEAN,
               reads : BOOLEAN, canPaste : BOOLEAN, bridge : BOOLEAN, mute : BOOLEAN]
  /\ dest.tty => dest.accepts = "both" /\ ~dest.sel /\ ~dest.value
  /\ dest.bridge => dest.tty /\ dest.os = "macos"
  /\ dest.mute => dest.reads /\ dest.value /\ dest.sel /\ ~dest.tty /\ dest.canPaste /\ dest.accepts = "both"
  /\ ~dest.canPaste => dest.os = "linux"
  /\ dest.os = "linux" => dest.accepts = "both" /\ ~dest.reads /\ ~dest.value /\ ~dest.sel /\ ~dest.tty
  /\ dest.os = "windows" => dest.sel = dest.value /\ ~dest.tty
  /\ dest.os = "macos" /\ ~dest.reads => ~dest.value /\ ~dest.sel
  /\ \E n \in 0..Len(FieldWords) : \E from \in 0..n : \E len \in 0..(n - from) :
       box = [words |-> SubSeq(FieldWords, 1, n), from |-> from, len |-> len]
  /\ owned = <<"u">> /\ clipboard = owned
  /\ keystrokes = 0 /\ givebacks = <<>> /\ ring = <<>> /\ job = Idle
  /\ past = [box |-> box, disturbed |-> FALSE, late |-> FALSE, cut |-> 0, crossed |-> FALSE,
             ring |-> <<>>, done |-> 0, meddled |-> 0]

Mac == dest.os = "macos"
-----------------------------------------------------------------------------
(* key-down: what is selected then decides between dictating and editing. *)
HasSelection(f) == dest.reads /\ f.len > 0

\* Linux reads no field: always a dictation.
ModeAtKeydown ==
  /\ job.at = "idle" /\ past.done < MaxDeliveries
  /\ job' = [Idle EXCEPT !.at = "heard", !.edit = HasSelection(box), !.sel = Selected(box)]
  /\ past' = [past EXCEPT !.done = @ + 1, !.disturbed = keystrokes > 0, !.late = FALSE,
                          !.cut = 0, !.box = box, !.ring = ring]
  /\ UNCHANGED <<dest, box, clipboard, owned, keystrokes, givebacks, ring>>

Goes(at, words) == job' = [job EXCEPT !.at = at, !.words = words]
\* What is left of a delivery that is over.
Left(result, via) == [Idle EXCEPT !.edit = job.edit, !.spoken = job.spoken, !.words = job.words,
                                  !.result = result, !.via = via]
Ends(result) == job' = Left(result, "none")

\* Mutant: with nothing selected, the words of an undo are typed.
RouteUndoWithSelection(spoken, edit) ==
  IF spoken = "undo" THEN (IF edit THEN "undo" ELSE "insert")
  ELSE IF ~edit \/ spoken = "text" THEN "insert"
  ELSE IF spoken = "rewrite" THEN "replace" ELSE "decline"

\* route_edit. Undo does not depend on a selection. Without one everything else
\* is dictated; with one, words that are no command are dictated over it, a
\* request for a rewrite is declined, and so is a command that matches nothing.
Route(spoken, edit) ==
  IF spoken = "undo" THEN "undo"
  ELSE IF ~edit \/ spoken = "text" THEN "insert"
  ELSE IF spoken = "rewrite" THEN "replace" ELSE "decline"

\* stage_terminal_edit: a command in a terminal goes to the shell's plugin.
StagedInShell(spoken) == dest.bridge /\ spoken # "text"

\* payload_for: the selection rewritten, or what was said.
PayloadFor(go) == IF go = "replace" THEN Rewritten ELSE Said

Deliver ==
  /\ job.at = "heard"
  /\ \E spoken \in {"silence", "text", "rewrite", "mismatch", "undo"} :
       LET go == Route(spoken, job.edit)
           heard == [job EXCEPT !.spoken = spoken]
       IN job' = IF spoken = "silence" THEN [heard EXCEPT !.at = "idle", !.result = "empty"]
                 ELSE IF dest.mute THEN [heard EXCEPT !.at = "idle", !.result = "suppressed"]
                 ELSE IF StagedInShell(spoken) THEN [heard EXCEPT !.at = "idle", !.result = "staged"]
                 ELSE IF go = "decline" THEN [heard EXCEPT !.at = "idle", !.result = "declined"]
                 ELSE [heard EXCEPT !.at = go,
                                    !.words = PayloadFor(go)]
  /\ UNCHANGED <<dest, box, clipboard, owned, keystrokes, givebacks, ring, past>>
-----------------------------------------------------------------------------
(* macOS: the field is read again, and written through accessibility when it *)
(* can be.                                                                   *)
ReadOnly == ~dest.value /\ ~dest.sel

\* Mutant: a caret in the middle of the field is taken for its end.
SplicedAtTheEnd(f, words) == WholeField(f.words \o words).words

\* spliced_at_caret: the whole field as it is to be, the words at the caret.
SplicedAtCaret(f, words) == Over(f, words).words

\* write_over_selection: what cannot be set is typed over.
OverSelection == Goes(IF dest.sel THEN "write" ELSE "type", job.words)

\* insert_with_fallback.
InsertWithFallback ==
  /\ Mac /\ job.at = "insert"
  /\ IF ~dest.reads THEN Goes("type", job.words)
     ELSE IF dest.accepts = "clipboard" THEN job' = [job EXCEPT !.at = "save", !.inline = TRUE]
     ELSE IF dest.accepts = "typing" \/ ReadOnly THEN Goes("type", job.words)
     ELSE IF box.len > 0 THEN OverSelection
     ELSE Goes("write", SplicedAtCaret(box, job.words))
  /\ UNCHANGED <<dest, box, clipboard, owned, keystrokes, givebacks, ring, past>>

\* replace_selection: a selection that is gone by now is not guessed at.
ReplaceSelection ==
  /\ Mac /\ job.at = "replace"
  /\ IF HasSelection(box) THEN OverSelection ELSE Goes("type", job.words)
  /\ UNCHANGED <<dest, box, clipboard, owned, keystrokes, givebacks, ring, past>>

\* replace_focused of ax-edit, over what is selected NOW, or the whole field.
ReplaceFocused(f, words) == IF f.len > 0 /\ dest.sel THEN Over(f, words) ELSE WholeField(words)

\* record_undo, once something was written: on macOS for a rewrite, elsewhere
\* for whatever was said over a selection.
Recorded == IF job.edit /\ (Mac => job.spoken = "rewrite")
            THEN Append(ring, [before |-> job.sel, after |-> job.words]) ELSE ring

Wrote(via) == /\ job' = Left("wrote", via)
              /\ ring' = Recorded

\* write_focused: the application may have been another one since; it refuses
\* when neither the selection nor the value can be set.
WriteFocused ==
  /\ Mac /\ job.at = "write"
  /\ \/ /\ dest.accepts = "clipboard" /\ job' = [job EXCEPT !.at = "save", !.inline = TRUE]
        /\ UNCHANGED <<box, ring>>
     \/ /\ dest.accepts = "typing" /\ Goes("type", job.words) /\ UNCHANGED <<box, ring>>
     \/ /\ dest.accepts = "both"
        /\ IF dest.value \/ (dest.sel /\ box.len > 0)
           THEN box' = ReplaceFocused(box, job.words) /\ Wrote("ax")
           ELSE Goes("type", job.words) /\ UNCHANGED <<box, ring>>
  /\ UNCHANGED <<dest, clipboard, owned, keystrokes, givebacks, past>>

\* What goes out in one event, and lands when the next one fails.
FirstChunk(words) == SubSeq(words, 1, 1)

\* Typing over what is selected. Half of the words may land before a key is refused.
Typed(f, words, end) ==
  CASE end = "typed" -> Over(f, words)
    [] end = "refused" -> f
    [] end = "cut" -> Over(f, FirstChunk(words))

\* Mutant: a batch that failed half way is typed again.
RetypesAnything(end) == end # "typed"

\* must_pace_typing: a dictation into a field that can be read and not written.
MustPace == ReadOnly /\ dest.accepts = "both" /\ job.spoken # "undo" /\ Route(job.spoken, job.edit) = "insert"

\* typing_strategy_for: a terminal, a field that looks like one and, for an
\* undo, an application not asked for by name, get one character at a time.
TypingStrategy == IF dest.tty \/ job.spoken = "undo" \/ (dest.reads /\ MustPace) THEN "paced" ELSE "batched"

\* retry_is_safe: only a batch that posted nothing is typed again, key by key.
Retypes(end) == end = "refused" /\ TypingStrategy = "batched"

\* deliver_without_ax and type_with_strategy. What does not get typed is pasted,
\* all of it, and the clipboard given back later by a thread of its own.
DeliverWithoutAx ==
  /\ Mac /\ job.at = "type"
  /\ \/ /\ dest.accepts = "clipboard" /\ job' = [job EXCEPT !.at = "save", !.inline = TRUE]
        /\ UNCHANGED <<box, ring, past>>
     \/ /\ dest.accepts # "clipboard"
        /\ \E first \in TypingEnds :
             LET ends == IF Retypes(first) THEN TypingEnds ELSE {first}
             IN \E end \in ends :
                  LET once == Typed(box, job.words, first)
                  IN /\ box' = IF Retypes(first) THEN Typed(once, job.words, end) ELSE once
                     /\ past' = [past EXCEPT !.cut = IF end = "cut" THEN @ + 1 ELSE @]
                     /\ IF end = "typed" THEN Wrote("keys")
                        ELSE /\ job' = [job EXCEPT !.at = "save", !.inline = FALSE]
                             /\ UNCHANGED ring
  /\ UNCHANGED <<dest, clipboard, owned, keystrokes, givebacks>>
-----------------------------------------------------------------------------
(* Windows and Linux: write_via_tiers. *)
\* deliver_via_tiers_inner: words dictated over a selection are a dictation.
Inserts == job.spoken = "text" \/ ~job.edit

\* UI Automation sets whole values: a dictation goes behind what is there, an
\* edit takes the place of everything. An application that ignores such writes
\* is asked all the same, and says it took them.
UiaValue(inserts) ==
  IF dest.accepts = "typing" THEN box
  ELSE WholeField(IF inserts THEN box.words \o job.words ELSE job.words)

\* Only for a dictation: keys cannot take the place of text.
MayUseInsertOnlyTier(inserts) == inserts /\ dest.accepts # "clipboard"

UiaWrite ==
  /\ dest.os = "windows" /\ job.at \in {"insert", "replace", "restore"}
  /\ LET inserts == Inserts /\ job.at # "restore"
     IN \/ /\ dest.accepts # "clipboard" /\ dest.value
           /\ box' = UiaValue(inserts) /\ Wrote("ax")
        \/ /\ Goes(IF MayUseInsertOnlyTier(inserts) THEN "keys" ELSE "save", job.words)
           /\ UNCHANGED <<box, ring>>
  /\ UNCHANGED <<dest, clipboard, owned, keystrokes, givebacks, past>>

\* One attempt to type everything, and what is tried after it.
Types(otherwise) ==
  /\ \E end \in TypingEnds :
       /\ box' = Typed(box, job.words, end)
       /\ past' = [past EXCEPT !.cut = IF end = "cut" THEN @ + 1 ELSE @]
       /\ IF end = "typed" THEN Wrote("keys") ELSE Goes(otherwise, job.words) /\ UNCHANGED ring
  /\ UNCHANGED <<dest, clipboard, owned, keystrokes, givebacks>>

\* One batch of key-downs and key-ups, which another window may stop half way.
SendInput == dest.os = "windows" /\ job.at = "keys" /\ Types("save")

\* wtype, then the desktop portal. wtype is refused a text that is too long or
\* may not be installed; one it has started may end half way.
Wtype == dest.os = "linux" /\ job.at = "insert" /\ Types("portal")
PortalInsert == dest.os = "linux" /\ job.at = "portal" /\ Types("save")
-----------------------------------------------------------------------------
(* The clipboard transport: clipboard.rs. *)
PutBack == IF job.inline \/ ~Mac THEN "settle" ELSE "detach"

\* new and ensure_paste_supported, then the first half of insert: without a way to paste
\* the clipboard is left alone.
SaveClipboard ==
  /\ job.at = "save"
  /\ \/ ~dest.canPaste /\ Ends("failed")
     \/ dest.canPaste /\ job' = [job EXCEPT !.at = "paste", !.saved = clipboard]
     \/ Ends("no clipboard")
  /\ UNCHANGED <<dest, box, clipboard, owned, keystrokes, givebacks, ring, past>>

\* The second half: the text on the clipboard, then the keystroke. One that
\* cannot be posted leaves the text there for the user to paste.
PasteClipboard ==
  /\ job.at = "paste"
  /\ clipboard' = job.words
  /\ \/ /\ keystrokes' = keystrokes + 1
        /\ IF PutBack = "detach"
           THEN /\ Wrote("clipboard") /\ givebacks' = Append(givebacks, job.saved)
                /\ past' = [past EXCEPT !.crossed = @ \/ givebacks # <<>>]
           ELSE /\ job' = [job EXCEPT !.at = "settle"]
                /\ past' = [past EXCEPT !.crossed = @ \/ givebacks # <<>>]
                /\ UNCHANGED <<givebacks, ring>>
        /\ UNCHANGED owned
     \/ /\ Ends("failed") /\ owned' = job.words
        /\ past' = [past EXCEPT !.crossed = @ \/ givebacks # <<>>]
        /\ UNCHANGED <<keystrokes, givebacks, ring>>
  /\ UNCHANGED <<dest, box>>

\* After 150 ms, in line.
SettleAndRestore ==
  /\ job.at = "settle"
  /\ clipboard' = job.saved /\ past' = [past EXCEPT !.late = @ \/ keystrokes > 0]
  /\ Wrote("clipboard")
  /\ UNCHANGED <<dest, box, owned, keystrokes, givebacks>>

\* After 300 ms, in a thread of its own.
DetachedRestore ==
  /\ givebacks # <<>>
  /\ \E i \in 1..Len(givebacks) :
       clipboard' = givebacks[i] /\ givebacks' = RemoveAt(givebacks, i)
  /\ past' = [past EXCEPT !.late = @ \/ keystrokes > 0,
                          !.crossed = @ \/ job.at \in {"paste", "settle"}]
  /\ UNCHANGED <<dest, box, owned, keystrokes, ring, job>>

\* Mutant: the process leaves without its threads.
LeaveAtOnce ==
  /\ job.at = "idle" /\ job' = [job EXCEPT !.at = "gone"]
  /\ givebacks' = <<>> /\ UNCHANGED <<clipboard, past>>

\* drain_pending_restores, at the end of the program: every thread is joined.
DrainPendingRestores ==
  /\ job.at = "idle" /\ job' = [job EXCEPT !.at = "gone"]
  /\ givebacks' = <<>>
  /\ clipboard' = IF givebacks = <<>> THEN clipboard ELSE Last(givebacks)
  /\ past' = [past EXCEPT !.late = @ \/ (givebacks # <<>> /\ keystrokes > 0)]

Leave == DrainPendingRestores /\ UNCHANGED <<dest, box, owned, keystrokes, ring>>
-----------------------------------------------------------------------------
(* Undo. *)
\* Mutant: a field that changed since is set back all the same.
ResolvesAnyway(now) == ring # <<>>

\* resolve_undo: the newest unit, if the field holds what it left.
Resolves(now) == ring # <<>> /\ Last(ring).after = now

\* A field that cannot be read is not written. Without a way to read any, as on
\* Linux, there is nothing to undo.
UndoThrough(at) ==
  /\ job.at = "undo"
  /\ IF ~dest.reads THEN Ends(IF dest.os = "linux" THEN "declined" ELSE "unread") /\ UNCHANGED ring
     ELSE IF Resolves(box.words)
     THEN ring' = Front(ring) /\ Goes(at, Last(ring).before)
     ELSE Ends("declined") /\ UNCHANGED ring
  /\ UNCHANGED <<dest, box, clipboard, owned, keystrokes, givebacks, past>>

ApplyUndo == Mac /\ UndoThrough("write")
ApplyUndoViaTiers == ~Mac /\ UndoThrough("restore")
-----------------------------------------------------------------------------
(* The application and the user. *)
HandlePaste ==
  /\ keystrokes > 0 /\ keystrokes' = keystrokes - 1
  /\ box' = Over(box, clipboard)
  /\ UNCHANGED <<dest, clipboard, owned, givebacks, ring, job, past>>

Meddles == /\ past.done > 0 /\ past.meddled < MaxMeddling
           /\ past' = [past EXCEPT !.meddled = @ + 1, !.disturbed = TRUE]

\* Everything, or nothing with the caret at the start.
UserSelects ==
  /\ Meddles /\ job.at # "gone"
  /\ \E len \in {0, Len(box.words)} : box' = [box EXCEPT !.from = 0, !.len = len]
  /\ UNCHANGED <<dest, clipboard, owned, keystrokes, givebacks, ring, job>>

UserTypesWord ==
  /\ Meddles /\ job.at # "gone" /\ box' = Over(box, <<"t">>)
  /\ UNCHANGED <<dest, clipboard, owned, keystrokes, givebacks, ring, job>>

UserCopies ==
  /\ Meddles /\ job.at = "idle" /\ keystrokes = 0 /\ givebacks = <<>>
  /\ owned' = <<"v">> /\ clipboard' = <<"v">>
  /\ UNCHANGED <<dest, box, keystrokes, givebacks, ring, job>>

DeliveryNext ==
  \/ ModeAtKeydown \/ Deliver \/ InsertWithFallback \/ ReplaceSelection \/ WriteFocused
  \/ DeliverWithoutAx \/ UiaWrite \/ SendInput \/ Wtype \/ PortalInsert \/ SaveClipboard \/ PasteClipboard
  \/ SettleAndRestore \/ DetachedRestore \/ Leave \/ ApplyUndo \/ ApplyUndoViaTiers
  \/ HandlePaste \/ UserSelects \/ UserTypesWord \/ UserCopies

DeliverySpec == DeliveryInit /\ [][DeliveryNext]_deliveryVars
-----------------------------------------------------------------------------
\* A delivery is over, the application has handled its keystrokes, and the user
\* touched neither field nor clipboard since key-down.
Undisturbed ==
  job.at = "idle" /\ job.result = "wrote" /\ keystrokes = 0 /\ ~past.disturbed
Dictated == IF job.spoken = "rewrite" /\ job.edit THEN Rewritten ELSE Said

\* Typed into a field whose selection can be set and whose value cannot: the whole
\* value that was meant to be set (the case LandsInEveryField is about).
SpliceIsTyped ==
  Mac /\ dest.reads /\ dest.sel /\ ~dest.value /\ dest.accepts = "both" /\ ~(past.box.len > 0)

\* What the keyboard and the clipboard are given to enter.
Sent == IF job.spoken = "undo" THEN Last(past.ring).before
        ELSE IF SpliceIsTyped THEN Over(past.box, Dictated).words ELSE Dictated

\* A field in which attempts to type stopped half way, two at most: with wtype and
\* with the portal.
Begun(f, words, cuts) ==
  CASE cuts = 0 -> f
    [] cuts = 1 -> Over(f, FirstChunk(words))
    [] cuts = 2 -> Over(Over(f, FirstChunk(words)), FirstChunk(words))

\* What an application pastes that handles the keystroke after the clipboard was
\* given back: what the user had on it.
Entered == IF past.late THEN owned ELSE Sent

\* What an accessibility write leaves, which is never preceded by another attempt.
\* On Windows an application that ignores it keeps what it has; another one has a
\* dictation at its end, and an edit in the place of everything.
SetThrough ==
  IF Mac THEN (IF job.spoken = "undo" THEN ReplaceFocused(past.box, Sent) ELSE Over(past.box, Dictated)).words
  ELSE IF dest.accepts = "typing" THEN past.box.words
  ELSE IF job.spoken # "undo" /\ Inserts THEN past.box.words \o Dictated ELSE Sent

\* Keys and clipboard enter the words once, over what was selected at key-down, and
\* leave everything around them as it was, but for the first words of the attempts
\* that stopped half way.  Only where two deliveries crossed on the clipboard AND it
\* was given back before the keystroke was handled does nothing say what is pasted.
Landed ==
  IF job.via = "ax" THEN box.words = SetThrough
  ELSE (past.late /\ past.crossed) \/ box = Over(Begun(past.box, Sent, past.cut), Entered)

\* What was said is in the field exactly as the transport that took it puts it there:
\* in every field, after attempts that failed before or half way, with a clipboard
\* given back in time or too soon.
LandsOnce == Undisturbed /\ job.spoken # "undo" => Landed

\* Once no delivery and no thread holds it, the clipboard is the user's again:
\* also when the program has ended, and after transports that failed. A failed
\* delivery leaves its words to the user on purpose.
ClipboardComesBack ==
  job.at \in {"idle", "gone"} /\ givebacks = <<>> /\ ~past.crossed
  => clipboard = owned

\* An undo that wrote found in the field exactly what the newest edit had left, and
\* wrote what was there before: whole, where the field can be set and has nothing
\* selected; where it cannot, at the caret.
UndoGivesBack ==
  Undisturbed /\ job.spoken = "undo"
  => past.ring # <<>> /\ past.box.words = Last(past.ring).after /\ Landed

\* Refuted: "your text is on the clipboard, press Ctrl+V" (inject.rs:950, :1070).
FailedTextIsOnClipboard == job.at = "idle" /\ job.result = "failed" => clipboard = job.words

\* Refuted: "not retyping, because that would duplicate what landed"
\* (inject.rs:1709). What was cut short is pasted, from its first word.
NotDuplicated ==
  job.at = "idle" /\ keystrokes = 0 /\ ~past.disturbed /\ ~past.crossed /\ job.result = "wrote"
  /\ past.ring = <<>> => Cardinality({i \in 1..Len(box.words) : box.words[i] = "s1"})
       <= 1 + Cardinality({i \in 1..Len(past.box.words) : past.box.words[i] = "s1"})

\* Refuted: "These apps skip the AXValue tier entirely" (keys.rs:105).
IgnoredWritesAreSkipped ==
  Undisturbed /\ dest.accepts = "typing" => job.via # "ax"

\* Does not hold: a field whose selection can be set and whose value cannot gets
\* its whole new value typed at the caret (inject.rs:1226, :1435).
LandsInEveryField ==
  Undisturbed /\ Mac /\ job.spoken = "text" => box.words = Over(past.box, Dictated).words

\* A delivery leaves exactly what was said, the clipboard as it was, and an undo
\* that puts back what was there.
DeliveryIsExact == LandsOnce /\ ClipboardComesBack /\ UndoGivesBack
=============================================================================
