------------------------------ MODULE Backends ------------------------------
(***************************************************************************)
(* The recognizers behind the worker (crates/asr): the helper process of   *)
(* the Apple backend with its pipe, its events and the thread that reads   *)
(* them, and the backends that buffer an utterance and work at its end.    *)
(* Audio is a number of samples from the start; a text is the interval of  *)
(* audio it is of.                                                         *)
(***************************************************************************)
EXTENDS Naturals, Sequences, SequencesExt, FiniteSets

CONSTANTS
  MaxFed,         \* bound: samples that are fed
  MaxFinals,      \* bound: utterances of one recognizer
  MaxFaults,      \* bound: errors of the helper
  WindowSamples   \* what whisper transcribes: thirty seconds in the code

ASSUME BackendsAssumption == WindowSamples \in Nat

VARIABLES
  backend,      \* which one
  phase,        \* "spawning", "feeding", "finalizing", "answered" or "failed to start"
  fedSamples,   \* samples fed so far
  begun,        \* those fed before this utterance
  held,         \* where the buffered audio begins; it ends at fedSamples
  helper,       \* [state, heard]: the process and the samples it has read
  stdinOpen,    \* the write end of its pipe
  events,       \* sent by the helper and not yet received
  best,         \* last_partial and final_text: the samples of the last hypothesis
  painted,      \* the last partial that feed returned
  transcripts   \* what each finalize returned

backendVars == <<backend, phase, fedSamples, begun, held, helper, stdinOpen, events, best, painted, transcripts>>

Streaming == {"apple"}
Buffering == {"nemo", "whisper", "two-stage", "parakeet", "mock"}
\* Those that can begin another utterance.
Reusable(b) == b \in Buffering

Text(from, to, why) == [kind |-> "text", from |-> from, to |-> to, why |-> why]
NoText == Text(0, 0, "done")
Failed(why) == [kind |-> "error", from |-> 0, to |-> 0, why |-> why]
Event(kind, n) == [kind |-> kind, heard |-> n]

Answer(a) ==
  /\ transcripts' = Append(transcripts, a)
  /\ phase' = "answered"

BackendsInit ==
  /\ backend \in Streaming \cup Buffering
  /\ phase = IF backend \in Streaming THEN "spawning" ELSE "feeding"
  /\ fedSamples = 0 /\ begun = 0 /\ held = 0
  /\ helper = [state |-> IF backend \in Streaming THEN "loading" ELSE "none", heard |-> 0, faults |-> 0]
  /\ stdinOpen = (backend \in Streaming)
  /\ events = <<>> /\ best = 0 /\ painted = 0 /\ transcripts = <<>>
-----------------------------------------------------------------------------
(* The helper.                                                             *)
Emit(event) == events' = Append(events, event)
HelperDoes(state) == helper' = [helper EXCEPT !.state = state]
OnlyHelper == UNCHANGED <<backend, phase, fedSamples, begun, held, stdinOpen, best, painted, transcripts>>

HelperReady ==
  /\ helper.state = "loading"
  /\ \/ HelperDoes("running") /\ Emit(Event("ready", 0))
     \/ HelperDoes("exited") /\ Emit(Event("error", 0))
  /\ OnlyHelper
\* A piece of the pipe is heard; a hypothesis may come of it, or an error and the piece is lost.
HelperHears ==
  /\ helper.state \in {"running", "deaf"} /\ helper.heard < fedSamples
  /\ \E n \in helper.heard + 1..fedSamples :
       \/ helper' = [helper EXCEPT !.heard = n] /\ UNCHANGED events
       \/ helper.state = "running" /\ helper' = [helper EXCEPT !.heard = n] /\ Emit(Event("partial", n))
       \/ /\ helper.faults < MaxFaults
          /\ helper' = [helper EXCEPT !.heard = n, !.faults = @ + 1] /\ Emit(Event("error", 0))
  /\ OnlyHelper
\* The end of the pipe: the rest is recognized, and the helper is done.
HelperEnds ==
  /\ helper.state \in {"running", "deaf"} /\ ~stdinOpen /\ helper.heard = fedSamples
  /\ HelperDoes("exited")
  /\ events' = events \o (IF helper.state = "deaf" THEN <<>> ELSE <<Event("final", helper.heard)>>) \o <<Event("done", 0)>>
  /\ OnlyHelper
\* It dies, it hangs in the speech service, or its results end with an error while it goes on reading.
HelperFails ==
  /\ helper.state \in {"loading", "running"} /\ helper.faults < MaxFaults
  /\ \E s \in {"exited", "hung", "deaf"} :
       /\ helper' = [helper EXCEPT !.state = s, !.faults = @ + 1]
       /\ s = "deaf" => helper.state = "running"
       /\ IF s = "deaf" THEN Emit(Event("error", 0)) ELSE UNCHANGED events
  /\ OnlyHelper
-----------------------------------------------------------------------------
(* The Apple backend.                                                      *)

\* new: the first event decides; without one the wait ends with its timeout.
Spawned ==
  /\ phase = "spawning"
  /\ \/ /\ events # <<>> /\ events' = Tail(events)
        /\ phase' = IF Head(events).kind = "ready" THEN "feeding" ELSE "failed to start"
     \/ /\ events = <<>> /\ helper.state \in {"exited", "hung"} /\ phase' = "failed to start" /\ UNCHANGED events
  /\ UNCHANGED <<backend, fedSamples, begun, held, helper, stdinOpen, best, painted, transcripts>>

\* drain_events: errors are passed over.
LastText(sent, known) ==
  LET texts == {i \in DOMAIN sent : sent[i].kind \in {"partial", "final"}}
  IN IF texts = {} THEN known ELSE sent[Max(texts)].heard

\* feed: a write to a helper that is gone closes the pipe and says nothing.
AppleFeed ==
  /\ backend = "apple" /\ phase = "feeding" /\ fedSamples < MaxFed
  /\ stdinOpen' = (stdinOpen /\ helper.state # "exited")
  /\ fedSamples' = IF stdinOpen' THEN fedSamples + 1 ELSE fedSamples
  /\ best' = LastText(events, best)
  /\ painted' = IF best' # best THEN best' ELSE painted
  /\ events' = <<>>
  /\ UNCHANGED <<backend, phase, begun, held, helper, transcripts>>

\* Mutant: what came in as partials is forgotten at the end.
AppleFinalizeAnew ==
  /\ backend = "apple" /\ phase = "feeding"
  /\ phase' = "finalizing" /\ stdinOpen' = FALSE /\ best' = 0
  /\ UNCHANGED <<backend, fedSamples, begun, held, helper, events, painted, transcripts>>
AppleFinalize ==
  /\ backend = "apple" /\ phase = "feeding"
  /\ phase' = "finalizing" /\ stdinOpen' = FALSE
  /\ UNCHANGED <<backend, fedSamples, begun, held, helper, events, best, painted, transcripts>>

\* Mutant: the first hypothesis is the answer.
AppleReceivesOne ==
  /\ backend = "apple" /\ phase = "finalizing" /\ events # <<>>
  /\ LET e == Head(events)
     IN /\ events' = Tail(events)
        /\ best' = LastText(<<e>>, best)
        /\ \/ e.kind # "error" /\ Answer(Text(0, best', "done"))
           \/ e.kind = "error" /\ Answer(Failed("error"))
  /\ UNCHANGED <<backend, fedSamples, begun, held, helper, stdinOpen, painted>>
\* finalize receives until it is done.
AppleReceives ==
  /\ backend = "apple" /\ phase = "finalizing" /\ events # <<>>
  /\ LET e == Head(events)
     IN /\ events' = Tail(events)
        /\ best' = LastText(<<e>>, best)
        /\ \/ e.kind = "done" /\ Answer(Text(0, best, "done"))
           \/ e.kind = "error" /\ Answer(Failed("error"))
           \/ e.kind \notin {"done", "error"} /\ UNCHANGED <<phase, transcripts>>
  /\ UNCHANGED <<backend, fedSamples, begun, held, helper, stdinOpen, painted>>
\* Mutant: without a text there is no deadline.
AppleGivesUpWithText ==
  /\ backend = "apple" /\ phase = "finalizing" /\ events = <<>> /\ best > 0
  /\ HelperDoes("exited")
  /\ Answer(Text(0, best, "deadline"))
  /\ UNCHANGED <<backend, fedSamples, begun, held, stdinOpen, events, best, painted>>
\* The deadline, or the end of the events: the child is killed, and what was heard is kept.
AppleGivesUp ==
  /\ backend = "apple" /\ phase = "finalizing" /\ events = <<>>
  /\ HelperDoes("exited")
  /\ Answer(IF best = 0 THEN Failed("deadline") ELSE Text(0, best, "deadline"))
  /\ UNCHANGED <<backend, fedSamples, begun, held, stdinOpen, events, best, painted>>
-----------------------------------------------------------------------------
(* The backends that buffer.                                               *)
Buffer ==
  /\ backend \in Buffering /\ phase = "feeding" /\ fedSamples < MaxFed
  /\ fedSamples' = fedSamples + 1
  /\ UNCHANGED <<backend, phase, begun, held, helper, stdinOpen, events, best, painted, transcripts>>

\* Mutant: the audio is kept until the next utterance.
WithoutClearing(a) == Answer(a) /\ UNCHANGED held
Clearing(a) == Answer(a) /\ held' = fedSamples

\* whisper takes the buffer first, and transcribes the first window of it.
WhisperText == Text(held, IF fedSamples - held > WindowSamples THEN held + WindowSamples ELSE fedSamples, "done")

\* finalize of each: nemo clears only when the file is written.
FinalizeBuffered ==
  /\ backend \in Buffering /\ phase = "feeding" /\ Len(transcripts) < MaxFinals
  /\ \/ backend = "nemo" /\ held = fedSamples /\ Answer(NoText) /\ UNCHANGED held
     \/ backend = "nemo" /\ held < fedSamples /\ Answer(Failed("backend")) /\ UNCHANGED held
     \/ backend = "nemo" /\ held < fedSamples /\ \E a \in {Text(held, fedSamples, "done"), Failed("backend")} : Clearing(a)
     \/ backend \in {"whisper", "two-stage"} /\ held = fedSamples /\ Clearing(NoText)
     \/ backend \in {"whisper", "two-stage"} /\ held < fedSamples /\ \E a \in {WhisperText, Failed("backend")} : Clearing(a)
     \/ backend = "parakeet" /\ Clearing(Failed("backend"))
     \/ backend = "mock" /\ Clearing(Text(held, fedSamples, "done"))
  /\ UNCHANGED <<backend, fedSamples, begun, helper, stdinOpen, events, best, painted>>

\* The next utterance of one that is reusable.
NextUtterance ==
  /\ phase = "answered" /\ Reusable(backend) /\ Len(transcripts) < MaxFinals
  /\ phase' = "feeding" /\ begun' = fedSamples
  /\ UNCHANGED <<backend, fedSamples, held, helper, stdinOpen, events, best, painted, transcripts>>

BackendsNext ==
  \/ HelperReady \/ HelperHears \/ HelperEnds \/ HelperFails
  \/ Spawned \/ AppleFeed \/ AppleFinalize \/ AppleReceives \/ AppleGivesUp
  \/ Buffer \/ FinalizeBuffered \/ NextUtterance
\* The worker is one thread that waits on the events with a deadline.
BackendsFairness == WF_backendVars(AppleReceives) /\ WF_backendVars(AppleGivesUp)
BackendsSpec == BackendsInit /\ [][BackendsNext]_backendVars /\ BackendsFairness
-----------------------------------------------------------------------------
Texts == {i \in DOMAIN transcripts : transcripts[i].kind = "text" /\ transcripts[i].to > transcripts[i].from}

(* lib.rs:66: no audio is in two transcripts, none of it comes before what *)
(* was transcribed already, and none is of what was not yet fed.           *)
AudioOnce ==
  \A i \in Texts : transcripts[i].to <= fedSamples /\ \A j \in Texts : i < j => transcripts[i].to <= transcripts[j].from

(* apple.rs:251: partial text is better than losing the utterance.  What   *)
(* was painted is in the transcript, or an error was received at the end.  *)
PaintedIsCommitted ==
  backend = "apple" /\ transcripts # <<>> =>
    \/ transcripts[1].kind = "text" /\ transcripts[1].to >= painted
    \/ transcripts[1].kind = "error" /\ (painted = 0 \/ transcripts[1].why = "error")

(* recognize.rs:194: when the helper says it is done and made no error,    *)
(* the transcript is of everything that was fed to it.                     *)
SoundHelperHearsAll ==
  backend = "apple" /\ transcripts # <<>> /\ helper.faults = 0 /\ transcripts[1].why = "done" => transcripts[1].to = fedSamples

(* apple.rs:152, 230: neither a start nor an end waits for ever.           *)
FinalizeReturns == phase = "finalizing" ~> phase = "answered"

(* pipeline.rs:70 of asr: the next utterance must never inherit state.     *)
(* When its file cannot be written nemo keeps the audio, and the next      *)
(* transcript begins with it.                                              *)
OwnUtteranceOnly ==
  \A i \in Texts : i = Len(transcripts) /\ phase = "answered" => transcripts[i].from >= begun

(* apple.rs:237: the helper's error is the answer.  One that comes while   *)
(* audio is fed is passed over, and its audio is missing from the text.    *)
ErrorIsReported ==
  backend = "apple" /\ transcripts # <<>> /\ transcripts[1].why = "done" => transcripts[1].to = fedSamples

TranscriptIsTheUtterance == AudioOnce /\ PaintedIsCommitted /\ SoundHelperHearsAll
=============================================================================
