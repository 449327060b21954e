---------------------------- MODULE ShellBridge ----------------------------
(***************************************************************************)
(* crates/shell-bridge: a server that holds at most one spoken edit, and   *)
(* shells that ask it, on a key, to apply that edit to the command line.   *)
(* The server answers one connection at a time (serve, handle, respond).   *)
(* What an utterance makes of a line is edit-intent's business: here it is *)
(* any line, or no match.  A line is a sequence of characters, of which    *)
(* the identity and the UTF-8 width matter.                                *)
(***************************************************************************)
EXTENDS Naturals, Sequences, FiniteSetsExt

CONSTANTS
  Chars,         \* characters
  Wide,          \* the characters of two bytes, the others have one
  MaxLine,       \* bound: characters on a line
  Ttl,           \* INTENT_TTL in clock ticks
  MaxSpoken,     \* bound: edits spoken
  NoIntent, NoLine

ASSUME BridgeAssumption == Wide \subseteq Chars /\ {MaxLine, Ttl, MaxSpoken} \subseteq Nat

VARIABLES
  staged,      \* the edit waiting for a key: [id, age], or NoIntent
  lastBuffer,  \* the line the last key offered, or NoLine
  line,        \* a shell's command line and cursor: [text, cursor, shell]
  spoken,      \* how many edits were spoken, numbered from 1
  answer,      \* what the server answered the shell last
  tried,       \* the edits a key has found, in order
  rcFile         \* the lines of the rc file the plugin is installed into

bridgeVars == <<staged, lastBuffer, line, spoken, answer, tried>>

Lines == UNION {[1..n -> Chars] : n \in 0..MaxLine}
Shell == {"bash", "zsh"}    \* zsh stands for every shell but bash

-----------------------------------------------------------------------------
(* protocol.rs: cursors                                                    *)

Bytes(t) == Len(t) + Cardinality({i \in DOMAIN t : t[i] \in Wide})

Leading(t, n) == SubSeq(t, 1, n)
Trailing(t, n) == SubSeq(t, Len(t) - n + 1, Len(t))

\* bash counts its cursor in bytes, the others in characters; a cursor within
\* a character goes to its start, one beyond the line to its end.
CursorToChars(shell, cursor, t) ==
  IF shell = "bash" THEN Max({n \in 0..Len(t) : Bytes(Leading(t, n)) <= cursor})
  ELSE Min({cursor, Len(t)})

CharsToBytes(t, chars) == Bytes(Leading(t, Min({chars, Len(t)})))

SharedPrefix(a, b) == Max({n \in 0..Min({Len(a), Len(b)}) : Leading(a, n) = Leading(b, n)})
SharedSuffix(a, b, most) == Max({n \in 0..most : Trailing(a, n) = Trailing(b, n)})

\* Mutant: the suffix may overlap the prefix.
MapCursorOverlapping(old, new, at) ==
  LET prefix == SharedPrefix(old, new)
      suffix == SharedSuffix(old, new, Min({Len(old), Len(new)}))
  IN IF at <= prefix THEN at
     ELSE IF at >= Len(old) - suffix THEN Len(new) - (Len(old) - at)
     ELSE Len(new) - suffix

\* map_cursor: a cursor in the unchanged end keeps its distance from the end,
\* one in the unchanged beginning stays, and one within the change goes to its end.
MapCursor(old, new, at) ==
  LET prefix == SharedPrefix(old, new)
      suffix == SharedSuffix(old, new, Min({Len(old), Len(new)}) - prefix)
      cursor == Min({at, Len(old)})
  IN IF cursor >= Len(old) - suffix THEN Len(new) - (Len(old) - cursor)
     ELSE IF cursor <= prefix THEN cursor
     ELSE Len(new) - suffix

-----------------------------------------------------------------------------
(* server.rs: one request, one answer                                      *)

NoAnswer == [verb |-> "NONE"]

BridgeInit ==
  /\ staged = NoIntent /\ lastBuffer = NoLine /\ spoken = 0 /\ tried = <<>>
  /\ answer = NoAnswer
  /\ line \in [text : Lines, cursor : 0..(2 * MaxLine), shell : Shell]

\* Mutant: an edit that has waited too long is still there.
StagedForever == staged

\* respond drops an expired edit before it looks at the request.
StagedNow == IF staged # NoIntent /\ staged.age > Ttl THEN NoIntent ELSE staged

\* Mutant: an edit that still waits keeps its place.
SpeakQueued ==
  /\ spoken < MaxSpoken
  /\ spoken' = spoken + 1
  /\ staged' = IF StagedNow = NoIntent THEN [id |-> spoken + 1, age |-> 0] ELSE StagedNow
  /\ UNCHANGED <<lastBuffer, line, tried, answer>>

\* INTENT: the newest edit replaces one that still waits.
Speak ==
  /\ spoken < MaxSpoken
  /\ spoken' = spoken + 1
  /\ staged' = [id |-> spoken + 1, age |-> 0]
  /\ UNCHANGED <<lastBuffer, line, tried, answer>>

\* PEEK, STATUS and a request that is refused drop an expired edit and change nothing else.
Peek ==
  /\ staged' = StagedNow
  /\ UNCHANGED <<lastBuffer, line, spoken, tried, answer>>

Replacement(new) ==
  LET at == MapCursor(line.text, new, CursorToChars(line.shell, line.cursor, line.text))
  IN [verb |-> "REPLACE", buffer |-> new, chars |-> at, bytes |-> CharsToBytes(new, at)]

\* Mutant: the edit is borrowed, not taken.
KeepStaged == StagedNow

\* The edit is taken before it is parsed: a failed one is consumed too.
AfterTaking == NoIntent

\* Mutant: an edit that does not match the line is kept for the next one.
EditKeepsFailed ==
  /\ answer.verb # "REPLACE"
  /\ lastBuffer' = line.text
  /\ tried' = IF StagedNow = NoIntent THEN tried ELSE Append(tried, StagedNow.id)
  /\ \/ answer' = [verb |-> "NOOP"] /\ staged' = StagedNow
     \/ /\ StagedNow # NoIntent /\ \E new \in Lines : answer' = Replacement(new)
        /\ staged' = AfterTaking
  /\ UNCHANGED <<line, spoken>>

\* EDIT: the shell, which waits for the answer, offers its line; the edit may
\* not match it.
Edit ==
  /\ answer.verb # "REPLACE"
  /\ lastBuffer' = line.text
  /\ staged' = AfterTaking
  /\ tried' = IF StagedNow = NoIntent THEN tried ELSE Append(tried, StagedNow.id)
  /\ \/ answer' = [verb |-> "NOOP"]
     \/ StagedNow # NoIntent /\ \E new \in Lines : answer' = Replacement(new)
  /\ UNCHANGED <<line, spoken>>

\* The answer reaches the shell, which puts line and cursor in place, or it
\* is lost with the connection after the server has consumed the edit.
PutInPlace ==
  /\ answer.verb = "REPLACE"
  /\ line' = [text |-> answer.buffer, shell |-> line.shell,
              cursor |-> IF line.shell = "bash" THEN answer.bytes ELSE answer.chars]
  /\ answer' = NoAnswer
  /\ UNCHANGED <<staged, lastBuffer, spoken, tried>>

LoseAnswer ==
  /\ answer.verb = "REPLACE" /\ answer' = NoAnswer
  /\ UNCHANGED <<staged, lastBuffer, line, spoken, tried>>

\* The clock, and a server that is stopped and started again.
BridgeTick ==
  /\ staged # NoIntent /\ staged.age <= Ttl
  /\ staged' = [staged EXCEPT !.age = @ + 1]
  /\ UNCHANGED <<lastBuffer, line, spoken, answer, tried>>

BridgeRestart ==
  /\ staged' = NoIntent /\ lastBuffer' = NoLine
  /\ UNCHANGED <<line, spoken, tried, answer>>

BridgeNext == Speak \/ Peek \/ Edit \/ PutInPlace \/ LoseAnswer \/ BridgeTick \/ BridgeRestart

BridgeSpec == BridgeInit /\ [][BridgeNext]_bridgeVars

-----------------------------------------------------------------------------
(* main.rs install: the plugin in a shell's rc file.  Of a line of the     *)
(* file its kind matters: the marker, the line that sources the plugin,    *)
(* both as they were before the program was renamed, or the user's own.    *)

LineKinds == {"user", "legacy marker", "source"}

\* Mutant: the line after the old marker goes, whatever it is.
RewrittenBlindly(rc) ==
  LET keep == {i \in DOMAIN rc : rc[i] # "legacy marker" /\ ~(i > 1 /\ rc[i - 1] = "legacy marker")}
      at[n \in 0..Len(rc)] == IF n = 0 THEN <<>> ELSE IF n \in keep THEN Append(at[n - 1], rc[n]) ELSE at[n - 1]
  IN at[Len(rc)]

\* The old marker goes, and with it the line after it when that sources a plugin.
Rewritten(rc) ==
  LET keep == {i \in DOMAIN rc :
                 /\ rc[i] # "legacy marker"
                 /\ ~(rc[i] = "source" /\ i > 1 /\ rc[i - 1] = "legacy marker")}
      at[n \in 0..Len(rc)] == IF n = 0 THEN <<>> ELSE IF n \in keep THEN Append(at[n - 1], rc[n]) ELSE at[n - 1]
  IN at[Len(rc)]

\* A file with the marker is left alone, one with the old marker is rewritten,
\* any other one appended to.
InstallInto(rc) ==
  IF \E i \in DOMAIN rc : rc[i] = "marker" THEN rc
  ELSE (IF \E i \in DOMAIN rc : rc[i] = "legacy marker" THEN Rewritten(rc) ELSE rc)
       \o <<"marker", "source">>

RcInit == rcFile \in UNION {[1..n -> LineKinds] : n \in 0..3}
RcNext == rcFile' = InstallInto(rcFile)

UserLines(file) == Cardinality({i \in DOMAIN file : file[i] = "user"})

(* However often the plugin is installed, over whatever an older version   *)
(* left, the rc file sources it once under its marker, no old marker stays *)
(* and no line of the user is lost.                                        *)
PluginInstalledOnce ==
  [][/\ UserLines(rcFile') = UserLines(rcFile)
     /\ Cardinality({i \in DOMAIN rcFile' : rcFile'[i] = "marker"}) = 1
     /\ \A i \in DOMAIN rcFile' : /\ rcFile'[i] = "marker" => i < Len(rcFile') /\ rcFile'[i + 1] = "source"
                                  /\ rcFile'[i] # "legacy marker"]_rcFile

-----------------------------------------------------------------------------
(* What the bridge promises                                                *)

(* A spoken edit is tried on at most one line, however often the key is    *)
(* pressed, and never after a later one: a key that finds an edit consumes *)
(* it, also when it does not match the line and when the answer is lost.   *)
TriedOnceInOrder == \A i, j \in DOMAIN tried : i < j => tried[i] < tried[j]

(* A key tries what was said last, and only while it is fresh; an older    *)
(* or an expired edit never surprises a later line, and a line is replaced *)
(* only by an edit this key has tried.                                     *)
KeyTriesTheLast ==
  [][/\ tried' # tried => tried'[Len(tried')] = spoken /\ staged.age <= Ttl
     /\ answer' # answer /\ answer'.verb = "REPLACE" => tried' # tried]_bridgeVars

(* The cursor of a replaced line: what was right of it and has not changed *)
(* is still right of it, or what was left of it and has not changed is     *)
(* still left of it, and both ways of counting name the same place between *)
(* two characters of the new line.                                         *)
CursorKeepsItsPlace ==
  answer.verb = "REPLACE" =>
    LET old == line.text
        new == answer.buffer
        at == CursorToChars(line.shell, line.cursor, old)
        right == Trailing(old, Len(old) - at)
        kept == SharedPrefix(old, new)
        free == Min({Len(old), Len(new)}) - kept
    IN /\ answer.chars \in 0..Len(new)
       /\ answer.bytes = Bytes(Leading(new, answer.chars))
       /\ CursorToChars("bash", answer.bytes, new) = answer.chars
       /\ Len(right) <= free /\ Trailing(new, Len(right)) = right
            => Trailing(new, Len(new) - answer.chars) = right
       /\ at <= kept /\ answer.chars # at
            => Trailing(new, Len(new) - answer.chars) = right

(* A spoken edit reaches one line, the one it was said for, keeps its       *)
(* cursor, and finds the plugin installed exactly once.                     *)
EditReachesItsLine ==
  [](TriedOnceInOrder /\ CursorKeepsItsPlace) /\ KeyTriesTheLast /\ PluginInstalledOnce
=============================================================================
