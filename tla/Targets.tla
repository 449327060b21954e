------------------------------ MODULE Targets ------------------------------
(***************************************************************************)
(* crates/text-target: the transports a text can take to where it is       *)
(* wanted, how one is picked from the environment (detect.rs), and what    *)
(* reading, inserting and replacing do through each (targets/terminal.rs,  *)
(* headless.rs, ime.rs, ax.rs).  The destination is a line of words with a *)
(* caret; a program in between may fail at every call.                     *)
(***************************************************************************)
EXTENDS TargetChoice, Naturals, Sequences, SequencesExt, FiniteSets

CONSTANTS
  MaxCalls,   \* bound: calls on a target
  MaxTyping   \* bound: words the user types meanwhile

VARIABLES
  site,       \* the environment, the shell that owns the line, whether its pty is ours
  target,     \* the target in use, "none" before one is made
  words,      \* the line, before and behind the caret
  yank,       \* the clipboard OSC 52 sets
  call,       \* the call under way: what is left of it
  outcome,    \* how the last call ended
  sent,       \* frames to a client of the filter, not yet applied
  pushed,     \* frames from it, not yet read
  believed,   \* the buffer the filter last heard of
  was         \* history: the line before the call, and what was typed since

targetVars == <<site, target, words, yank, call, outcome, sent, pushed, believed, was>>

\* Input methods and interfaces that exist by name only.
Stubs == {"iterm2-api", "wayland-input-method-v2", "windows-tsf", "macos-input-method", "linux-atspi"}
\* Made by their owner, never selected.
OwnerMade == {"bracketed-paste", "windows-conpty", "stdio-filter"} \cup Stubs
\* Every call of theirs is Unsupported.
Unwritten == {"gnu-screen", "kitty-remote-control", "daemon-socket"} \cup Stubs
\* Modelled where the daemon uses them: the desktop's own.
Desktop == {"macos-ax", "windows-uia", "linux-portal", "clipboard-paste"}

InsertOnly == {"osc52", "bracketed-paste", "windows-conpty", "linux-portal", "clipboard-paste"}
Capabilities(name) ==
  [read |-> name \notin InsertOnly, inPlace |-> name \notin InsertOnly \cup {"gnu-screen"},
   headless |-> name \notin Desktop \cup Stubs]

NoCall == [kind |-> "none", steps |-> <<>>, text |-> <<>>]
Whole(w) == w.before \o w.after

TargetsInit ==
  /\ site \in [os : {"macos", "windows", "linux"}, terminal : BOOLEAN, display : BOOLEAN,
               vars : SUBSET Vars, commands : {Tools, {}, {"tmux"}}, trusted : BOOLEAN, portal : BOOLEAN,
               clipboard : BOOLEAN, clears : {"line", "to caret"}, pty : BOOLEAN]
  /\ site.trusted => site.os = "macos"
  /\ site.portal => site.os = "linux"
  \* One value for what the choice does not look at.
  /\ ~site.display => site.os = "linux" /\ ~site.portal /\ ~site.clipboard
  /\ site.pty => ~site.display /\ site.vars = {}
  /\ target = "none"
  /\ words \in {[before |-> <<>>, after |-> <<>>], [before |-> <<"a">>, after |-> <<>>],
                [before |-> <<"a">>, after |-> <<"b">>]}
  /\ yank = <<"y">> /\ call = NoCall /\ outcome = [kind |-> "none", result |-> "none", got |-> <<>>]
  /\ sent = <<>> /\ pushed = <<>> /\ believed = <<"?">>
  /\ was = [words |-> words, calls |-> 0, typed |-> 0, disturbed |-> FALSE]

\* detect: making it is mechanical, or its owner makes it (whatever the environment).
Detect ==
  /\ target = "none"
  /\ target' = Select(site) \/ (site.vars = {} /\ ~site.display /\ target' \in OwnerMade)
  /\ target' \notin Desktop
  /\ pushed' = IF target' = "stdio-filter" THEN <<Whole(words)>> ELSE <<>>
  /\ UNCHANGED <<site, words, yank, call, outcome, sent, believed, was>>

\* Mutant: the paste goes first and the line is cleared after it.
StepsClearLast(kind) ==
  IF target \in {"tmux", "wezterm-cli"} THEN IF kind = "replace" THEN <<"load", "paste", "clear">> ELSE <<"load", "paste">>
  ELSE <<"frame">>

\* BracketedPasteTarget.insert: only into a pty whose master its owner handed over.
HasMaster == target = "bracketed-paste" => site.pty

\* What each target does for a call, in the order it does it. Replacing through
\* a multiplexer is C-u and then an insert.
Steps(kind) ==
  CASE kind = "read" /\ target \in {"tmux", "wezterm-cli"} -> <<"capture">>
    [] kind = "insert" /\ target = "tmux" -> <<"load", "paste">>
    [] kind = "replace" /\ target = "tmux" -> <<"clear", "load", "paste">>
    [] kind = "insert" /\ target \in {"wezterm-cli", "bracketed-paste", "windows-conpty"} ->
         IF HasMaster THEN <<"paste">> ELSE <<>>
    [] kind = "replace" /\ target = "wezterm-cli" -> <<"clear", "paste">>
    [] kind = "insert" /\ target = "osc52" -> <<"yank">>
    [] kind = "read" /\ target = "stdio-filter" -> <<"believe">>
    [] kind # "read" /\ target = "stdio-filter" -> <<"frame">>
    [] OTHER -> <<>>

\* What a call without a step answers.
Refusal(kind) == IF kind = "read" /\ target \notin Unwritten THEN "not readable" ELSE "unsupported"

StartCall ==
  /\ target # "none" /\ call = NoCall /\ was.calls < MaxCalls
  /\ \E kind \in {"read", "insert", "replace"} :
       /\ IF Steps(kind) = <<>>
          THEN outcome' = [kind |-> kind, result |-> Refusal(kind), got |-> <<>>] /\ UNCHANGED call
          ELSE call' = [kind |-> kind, steps |-> Steps(kind), text |-> <<"n1", "n2">>]
               /\ outcome' = [kind |-> kind, result |-> "none", got |-> <<>>]
  /\ was' = [was EXCEPT !.words = words, !.calls = @ + 1, !.disturbed = FALSE]
  /\ UNCHANGED <<site, target, words, yank, sent, pushed, believed>>

Ended(result, got) == outcome' = [kind |-> call.kind, result |-> result, got |-> got] /\ call' = NoCall
Moved(got) == IF Len(call.steps) = 1 THEN Ended("ok", got)
              ELSE call' = [call EXCEPT !.steps = Tail(@)] /\ UNCHANGED outcome

\* C-u, as the shell's line editor understands it.
Cleared(w) == [before |-> <<>>, after |-> IF site.clears = "line" THEN <<>> ELSE w.after]
AtCaret(w, text) == [w EXCEPT !.before = @ \o text]

Step ==
  /\ call # NoCall
  /\ \/ Head(call.steps) = "capture" /\ Moved(Whole(words)) /\ UNCHANGED <<words, yank, sent, believed>>
     \/ Head(call.steps) = "load" /\ Moved(<<>>) /\ UNCHANGED <<words, yank, sent, believed>>
     \/ Head(call.steps) = "paste" /\ words' = AtCaret(words, call.text) /\ Moved(<<>>) /\ UNCHANGED <<yank, sent, believed>>
     \/ Head(call.steps) = "clear" /\ words' = Cleared(words) /\ Moved(<<>>) /\ UNCHANGED <<yank, sent, believed>>
     \/ Head(call.steps) = "yank" /\ yank' = call.text /\ Moved(<<>>) /\ UNCHANGED <<words, sent, believed>>
     \/ /\ Head(call.steps) = "frame" /\ Moved(<<>>)
        /\ sent' = Append(sent, [verb |-> call.kind, text |-> call.text])
        /\ believed' = IF call.kind = "replace" THEN call.text ELSE believed
        /\ UNCHANGED <<words, yank>>
     \/ /\ Head(call.steps) = "believe"
        /\ IF believed = <<"?">> THEN Ended("not readable", <<>>) ELSE Moved(believed)
        /\ UNCHANGED <<words, yank, sent, believed>>
  /\ UNCHANGED <<site, target, pushed, was>>

\* The program exits with an error, or the terminal is gone; what was done stays done.
StepFails ==
  /\ call # NoCall /\ Head(call.steps) # "believe"
  /\ Ended("transport", <<>>)
  /\ UNCHANGED <<site, target, words, yank, sent, pushed, believed, was>>
-----------------------------------------------------------------------------
(* The filter and its client, a shell that owns its line.                  *)
\* pump
Pump ==
  /\ pushed # <<>> /\ call = NoCall
  /\ believed' = Head(pushed) /\ pushed' = Tail(pushed)
  /\ UNCHANGED <<site, target, words, yank, call, outcome, sent, was>>

\* Mutant: what the client is told to show is not reported back.
Silent(w) == pushed

\* A client reports its buffer whenever it changes.
Reports(w) == IF target = "stdio-filter" /\ Whole(w) # Whole(words) THEN Append(pushed, Whole(w)) ELSE pushed

ClientApplies ==
  /\ sent # <<>>
  /\ words' = IF Head(sent).verb = "replace" THEN [before |-> Head(sent).text, after |-> <<>>]
              ELSE AtCaret(words, Head(sent).text)
  /\ pushed' = Reports(words') /\ sent' = Tail(sent)
  /\ UNCHANGED <<site, target, yank, call, outcome, believed, was>>

UserTypesOn ==
  /\ target # "none" /\ was.typed < MaxTyping
  /\ words' = AtCaret(words, <<"u">>) /\ pushed' = Reports(words')
  /\ was' = [was EXCEPT !.typed = @ + 1, !.disturbed = TRUE]
  /\ UNCHANGED <<site, target, yank, call, outcome, sent, believed>>

TargetsNext ==
  \/ Detect \/ StartCall \/ Step \/ StepFails \/ Pump \/ ClientApplies \/ UserTypesOn

TargetsSpec == TargetsInit /\ [][TargetsNext]_targetVars
-----------------------------------------------------------------------------
(* transport_matrix.rs: a daemon started from a shell inside tmux has the  *)
(* variables of that shell, and a variable outlives its program.  Nothing  *)
(* is typed into a multiplexer the destination is not inside of, or that   *)
(* cannot be called.                                                       *)
NeverTheWrongPane ==
  target \in {"tmux", "gnu-screen", "wezterm-cli", "kitty-remote-control"} =>
    site.terminal /\ \E v \in site.vars : ToolOf[v] \in site.commands

(* lib.rs:166: callers branch on what a target says it can do.  A call it  *)
(* does not claim never succeeds, one it refuses leaves the line as it     *)
(* was, and a claimed one is refused only where nothing is behind the name *)
(* yet, the client has not reported its line or the pty is not ours.       *)
Claimed(kind) == CASE kind = "read" -> Capabilities(target).read
                   [] kind = "replace" -> Capabilities(target).inPlace
                   [] kind = "insert" -> TRUE
ClaimsAreKept ==
  call = NoCall /\ outcome.result # "none" =>
    LET refused == outcome.result \in {"unsupported", "not readable"}
    IN /\ ~Claimed(outcome.kind) => refused
       /\ refused /\ Claimed(outcome.kind) =>
            target \in Unwritten \/ ~HasMaster \/ (target = "stdio-filter" /\ outcome.kind = "read")
       /\ refused /\ ~was.disturbed /\ target # "stdio-filter" => words = was.words

(* A replacement is two calls of the multiplexer and either can fail: the  *)
(* line is then the old one or empty, never half of the new text, and one  *)
(* that succeeds leaves nothing of the old line before the caret.          *)
ReplacedOrGone ==
  outcome.kind = "replace" /\ call = NoCall /\ target \in {"tmux", "wezterm-cli"} /\ ~was.disturbed =>
    CASE outcome.result = "ok" -> words = AtCaret(Cleared(was.words), <<"n1", "n2">>)
      [] outcome.result = "transport" -> words \in {was.words, Cleared(was.words)}
      [] OTHER -> FALSE

(* headless.rs:60: the shell's line and the filter's idea of it cross on   *)
(* the way.  Once every frame has arrived they are the same.               *)
FilterCatchesUp ==
  target = "stdio-filter" /\ sent = <<>> /\ pushed = <<>> /\ call = NoCall => believed = Whole(words)

(* The target is one that can reach the destination, does what it claims   *)
(* and no more, and does it wholly.                                        *)
TargetsKeepTheirWord == NeverTheWrongPane /\ ClaimsAreKept /\ ReplacedOrGone /\ FilterCatchesUp
=============================================================================
