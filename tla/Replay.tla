------------------------------- MODULE Replay -------------------------------
(***************************************************************************)
(* diag/replay.rs: what one dictation was decided from is recorded without *)
(* its content, written as lines, carried to another machine, by hand and  *)
(* perhaps damaged, read back, checked, and the choice of the transport    *)
(* made again from the recorded facts.                                     *)
(***************************************************************************)
EXTENDS TargetChoice, Naturals, Sequences, SequencesExt, FiniteSets, FiniteSetsExt

CONSTANT TextLen    \* bound: characters of a text before and after the edit

VARIABLES
  scene,     \* what happened: the facts, the texts, the names that were recorded
  record,    \* the record: its keys and their values
  page,      \* its lines on the way
  reread,    \* what was read from them
  step,      \* how far the replay has come
  damaged    \* history: the lines were cut or lost

replayVars == <<scene, record, page, reread, step, damaged>>

\* A name the recorder was given, by what becomes of it as a line.
Texts == {"plain", "broken", "trailing", "empty"}
Default == "empty"

TransformKeys == <<"before_chars", "after_chars", "changed_start", "removed_chars", "inserted_chars">>
AxKeys == <<"role", "title", "text", "strategy">>
Facts == <<"trusted", "terminal", "display", "clipboard">>
\* The order of the lines; the variables and commands that are set have one each.
Keys == <<"platform">> \o Facts \o <<"vars", "commands", "name", "reason">> \o AxKeys \o TransformKeys
Named == {"platform", "name", "reason", "role", "title", "strategy"}
Sections == {{"name", "reason"}, ToSet(AxKeys), ToSet(TransformKeys)}

-----------------------------------------------------------------------------
(* edit_window: where the two texts differ.                                *)
CommonRun(b, a, most) == CHOOSE n \in 0..most : /\ SubSeq(b, 1, n) = SubSeq(a, 1, n)
                                                /\ n < most => b[n + 1] # a[n + 1]
LeastOf(m, n) == IF m < n THEN m ELSE n
\* Mutant: the common end may overlap the common start.
OverlappingWindow(b, a) ==
  LET p == CommonRun(b, a, LeastOf(Len(b), Len(a)))
      s == CommonRun(Reverse(b), Reverse(a), LeastOf(Len(b), Len(a)))
  IN [start |-> p, removed |-> IF Len(b) > p + s THEN Len(b) - p - s ELSE 0,
      inserted |-> IF Len(a) > p + s THEN Len(a) - p - s ELSE 0]
EditWindow(b, a) ==
  LET p == CommonRun(b, a, LeastOf(Len(b), Len(a)))
      s == CommonRun(Reverse(b), Reverse(a), LeastOf(Len(b), Len(a)) - p)
  IN [start |-> p, removed |-> Len(b) - p - s, inserted |-> Len(a) - p - s]

(* record_env, record_transport, record_ax, record_transform: only shapes. *)
RecordOf(s) ==
  LET w == EditWindow(s.before, s.after)
  IN [platform |-> s.site.os, trusted |-> s.site.trusted, terminal |-> s.site.terminal,
      display |-> s.site.display, clipboard |-> s.site.clipboard, vars |-> s.site.vars,
      commands |-> s.site.commands, name |-> s.chosen, reason |-> s.name, role |-> s.name,
      title |-> "plain", text |-> Len(s.before), strategy |-> s.name, before_chars |-> Len(s.before),
      after_chars |-> Len(s.after), changed_start |-> w.start, removed_chars |-> w.removed,
      inserted_chars |-> w.inserted]

(* push: a line break in a value becomes a space; serialize: line by line. *)
\* Mutant: a line break is written as it is, and the rest of the value is a line of its own.
PushRaw(key, value) == IF key \in Named /\ value = "broken" THEN <<[key |-> key, value |-> "plain"], [key |-> "rest", value |-> "plain"]>>
                       ELSE <<[key |-> key, value |-> value]>>
Push(key, value) == <<[key |-> key, value |-> IF key \in Named /\ value = "broken" THEN "joined" ELSE value]>>
Lines(r, key) ==
  IF key \in {"vars", "commands"} THEN FlattenSeq([i \in 1..Cardinality(r[key]) |-> Push(key, SetToSeq(r[key])[i])])
  ELSE Push(key, r[key])
Serialize(r) == FlattenSeq([i \in 1..Len(Keys) |-> Lines(r, Keys[i])])

(* parse: a line without a value refuses the whole record; of a section    *)
(* that is there at all, what is missing is zero or empty.                 *)
Kept(key, value) == IF key \in Named /\ value = "trailing" THEN "plain" ELSE value
Given(lines, key) == {i \in DOMAIN lines : lines[i].key = key}
DefaultOf(key) == IF key \in {"vars", "commands"} THEN {} ELSE IF key \in ToSet(Facts) THEN FALSE
                  ELSE IF key \in ToSet(TransformKeys) \cup {"text"} THEN 0 ELSE Default
ValueOf(lines, key) ==
  IF key \in {"vars", "commands"} THEN {lines[i].value : i \in Given(lines, key)}
  ELSE IF Given(lines, key) = {} THEN DefaultOf(key)
  ELSE Kept(key, lines[Max(Given(lines, key))].value)
Readable(lines) == \A i \in DOMAIN lines : lines[i].key \in Named => lines[i].value # "empty"
Section(key) == IF \E s \in Sections : key \in s THEN CHOOSE s \in Sections : key \in s ELSE {}
Present(lines) == {k \in ToSet(Keys) : Section(k) = {} \/ \E j \in Section(k) : Given(lines, j) # {}}
Read(lines) == [k \in Present(lines) |-> ValueOf(lines, k)]

(* verify_consistency: the numbers are unsigned; below zero they panic or  *)
(* wrap, as the build has it.                                              *)
Transformed(r) == "before_chars" \in DOMAIN r
Consistent(r) ==
  ~Transformed(r) \/ /\ r.before_chars + r.inserted_chars = r.after_chars + r.removed_chars
                     /\ r.changed_start + r.removed_chars <= r.before_chars
Underflows(r) == Transformed(r) /\ r.before_chars < r.removed_chars

-----------------------------------------------------------------------------
TextsUpTo(n) == UNION {[1..k -> {"a", "b"}] : k \in 0..n}
PlainSite == [os |-> "linux", terminal |-> FALSE, display |-> TRUE, vars |-> {}, commands |-> Tools,
              trusted |-> FALSE, portal |-> FALSE, clipboard |-> TRUE, clears |-> "line"]

\* Either the machine is of interest or the texts are.  An older build chose
\* by where it had been started itself.
ReplayInit ==
  /\ \/ \E at \in {[PlainSite EXCEPT !.os = o, !.terminal = t, !.display = d, !.vars = v, !.portal = p, !.clipboard = c,
                                       !.trusted = (o = "macos")] :
             o \in {"linux", "windows", "macos"}, t \in BOOLEAN, d \in BOOLEAN, v \in SUBSET {"TMUX", "WEZTERM_PANE"},
             p \in BOOLEAN, c \in BOOLEAN} :
          scene \in [site : {at}, chosen : {Select(at), Select([at EXCEPT !.terminal = TRUE])}, name : {"plain"},
                    before : {<<"a">>}, after : {<<"b">>}]
     \/ scene \in [site : {PlainSite}, chosen : {Select(PlainSite)}, name : Texts,
                   before : TextsUpTo(TextLen), after : TextsUpTo(TextLen)]
  /\ record = <<>> /\ page = <<>> /\ reread = <<>> /\ step = "record" /\ damaged = FALSE

Record ==
  /\ step = "record" /\ step' = "send"
  /\ record' = RecordOf(scene) /\ page' = Serialize(record')
  /\ UNCHANGED <<scene, reread, damaged>>

\* The reporter cuts the record short, or leaves a line out.
Damage ==
  /\ step = "send" /\ ~damaged /\ damaged' = TRUE
  /\ \/ \E n \in 0..Len(page) - 1 : page' = SubSeq(page, 1, n)
     \/ \E i \in 1..Len(page) : page' = RemoveAt(page, i)
  /\ UNCHANGED <<scene, record, reread, step>>

Parse ==
  /\ step = "send"
  /\ IF Readable(page) THEN reread' = Read(page) /\ step' = "verify" ELSE step' = "unreadable" /\ UNCHANGED reread
  /\ UNCHANGED <<scene, record, page, damaged>>

Verify ==
  /\ step = "verify"
  /\ step' \in IF Underflows(reread) THEN {"panic", "inconsistent"} ELSE {IF Consistent(reread) THEN "replay" ELSE "inconsistent"}
  /\ UNCHANGED <<scene, record, page, reread, damaged>>

\* Mutant: the reading machine asks itself whether the portal is there.
ReplayedWithOwnEyes == [PlainSite EXCEPT !.os = scene.site.os, !.portal = TRUE, !.terminal = reread.terminal, !.display = reread.display,
                        !.vars = reread.vars, !.commands = reread.commands, !.clipboard = reread.clipboard]
\* An environment that answers from the record; it has no answer for the portal.
Replayed == [ReplayedWithOwnEyes EXCEPT !.portal = FALSE, !.trusted = reread.trusted]

\* compare_selection
Compare ==
  /\ step = "replay" /\ "name" \in DOMAIN reread
  /\ step' = IF Select(Replayed) = reread.name THEN "same" ELSE "divergence"
  /\ UNCHANGED <<scene, record, page, reread, damaged>>

ReplayNext == Record \/ Damage \/ Parse \/ Verify \/ Compare
ReplaySpec == ReplayInit /\ [][ReplayNext]_replayVars
-----------------------------------------------------------------------------
(* replay.rs:619: what is stored of an edit is where it was.  From the old *)
(* text and the inserted characters the new one can be rebuilt, and the    *)
(* window touches the texts only where they differ.                        *)
WindowRebuilds ==
  step = "send" =>
    LET b == scene.before
        a == scene.after
        p == record.changed_start
        r == record.removed_chars
        i == record.inserted_chars
    IN /\ SubSeq(b, 1, p) \o SubSeq(a, p + 1, p + i) \o SubSeq(b, p + r + 1, Len(b)) = a
       /\ Consistent(record) /\ ~Underflows(record)
       /\ r > 0 /\ i > 0 => b[p + 1] # a[p + 1] /\ b[p + r] # a[p + i]

(* replay.rs:468, mod tests: a record that was carried whole reads as it   *)
(* was written, spaces at the end and line breaks apart.  Only a value     *)
(* with nothing in it makes it unreadable, and then all of it.             *)
RoundTrips ==
  ~damaged =>
    /\ step = "unreadable" => scene.name = "empty"
    /\ step \in {"verify", "replay", "same", "divergence"} =>
         reread = [k \in ToSet(Keys) |->
                     IF k \notin Named THEN record[k]
                     ELSE CASE record[k] = "broken" -> "joined" [] record[k] = "trailing" -> "plain" [] OTHER -> record[k]]

(* replay.rs:338: the divergence is the bug report.  An undamaged record   *)
(* is accepted, and another choice from the recorded facts is reported     *)
(* exactly when the recorded one was not the one the facts call for: the   *)
(* presence of the portal is not among the facts.                          *)
DivergenceIsTheBug ==
  ~damaged =>
    /\ step \notin {"panic", "inconsistent"}
    /\ step \in {"same", "divergence"} /\ ~scene.site.portal =>
         (step = "same") = (scene.chosen = Select(scene.site))

(* replay.rs:357: a hand-truncated record is rejected, not diagnosed       *)
(* wrongly.  It is not: one cut inside its numbers may still add up, and   *)
(* one that lost the length of the old text ends the replayer.             *)
TruncatedIsRejected ==
  step \in {"replay", "panic"} /\ Transformed(reread) =>
    step = "replay" /\ \A k \in ToSet(TransformKeys) : reread[k] = record[k]

ReplayIsFaithful == WindowRebuilds /\ RoundTrips /\ DivergenceIsTheBug
=============================================================================
