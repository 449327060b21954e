------------------------------ MODULE Pipeline ------------------------------
(***************************************************************************)
(* The supervisor: `run` of crates/outloud/src/pipeline.rs, one event loop *)
(* that turns key edges, microphone chunks, recognizer answers, streamed   *)
(* writer completions and timers into dictated text.                       *)
(*                                                                         *)
(* Every arm of its biased select is an action here.  The arms above a     *)
(* channel in the select are polled first, so an action that reads a       *)
(* channel is guarded by the earlier channels being empty.  A timer may    *)
(* fire at any moment it is armed.  The loop runs one arm at a time, and   *)
(* while it awaits a delivery (`delivering`) it runs none.                 *)
(*                                                                         *)
(* Audio and text are sets of gestures: the key presses during which the   *)
(* audio was recorded.  A gesture is also the identity of the utterance it *)
(* begins.                                                                 *)
(***************************************************************************)
EXTENDS Overlay, StartupWatch, Recognizer, Counting

CONSTANTS
  HasMic,         \* Channels::mic is Some
  MayMute,        \* may a per-app profile say enabled = false?
  MayStream,      \* may an utterance be streamed into its field?
  WarmHold,       \* Config::warm_hold_ms > 0
  AutoEndpoint,   \* Config::auto_endpoint
  OnceAfter,      \* Config::once_after with --once, 0 for the daemon
  Nil,            \* Option::None
  MaxQueue        \* bound: frontend events not yet read

ASSUME PipelineAssumption ==
  /\ HasMic \in BOOLEAN /\ MayMute \in BOOLEAN /\ MayStream \in BOOLEAN
  /\ WarmHold \in BOOLEAN /\ AutoEndpoint \in BOOLEAN
  /\ OnceAfter \in Nat /\ MaxQueue \in Nat

VARIABLES
  told,            \* the last key edge the frontend sent
  gesture,         \* key presses so far
  frontend,        \* the FrontendEvent channel
  engine,          \* the overlay's engine
  recognizerReady, \* the readiness result was read
  pendingListen,   \* a key-down came before it
  listening,
  inFlight,        \* the utterance being dictated or finalized: a gesture or Nil
  streamer,        \* its streaming session, Nil when it is buffered
  mic,             \* is the capture stream open?
  armed,           \* capture_opened_at.is_some(): the hot-mic timer runs
  warm,            \* warm_until.is_some(): the warm-hold timer runs
  watch,           \* StartupWatch
  delivering,      \* the utterance whose buffered write is being awaited
  pendingFinal,    \* the streamed utterance whose settle is being awaited
  writers,         \* writers[g]: commands the writer thread of g has not run
  region,          \* region[g]: the text g's writer has put in its field
  thread,          \* thread[g]: how the writer thread of g stands
  streamEvents,    \* completions of the writers, unread
  committed,       \* utterances ended, with or without text
  running,         \* has `run` not returned?
  typed,           \* history: the utterances a buffered write put in a field
  silenceShown     \* history: devices whose silence verdict reached the screen

keys    == <<told, gesture>>
capture == <<mic, armed, warm, watch, silenceShown>>
loading == <<recognizerReady, pendingListen>>
current == <<listening, inFlight, streamer>>
stream  == <<writers, region, thread, streamEvents>>
outcome == <<delivering, pendingFinal, committed, running, typed>>
vars == <<recognizerVars, keys, frontend, engine, loading, current, capture,
          stream, outcome>>

FrontendEvent ==
  [kind : {"KeyDown"}, gesture : Gesture] \cup [kind : {"KeyUp"}]
  \cup [kind : {"Chunk"}, gesture : Gesture, audible : BOOLEAN]
  \cup [kind : {"CaptureUp"}, device : Device]
  \cup [kind : {"CaptureIssue"}, noInput : BOOLEAN]

\* Streamer and its DictationSession: the text last handed to the writer, a
\* write the coalescer waits for, one it holds back, and the fuse.
Streamer == [written : Audio, busy : BOOLEAN,
             parked : Audio \cup {Nil}, dead : BOOLEAN]

Utterance == [gesture : Gesture, text : Audio]

\* WriterMsg: the text that its command, if it has one, gives the region.
WriterMsg == [kind : {"Apply"}, target : Audio]
             \cup [kind : {"Finish"}, target : Audio \cup {Nil}]
\* What the session counts as written is what the region holds, or more than
\* that; a thread whose splice went past the end of its region is gone.
Standing == {"InStep", "Behind", "Panicked"}
StreamerEvent == [kind : {"WriteDone"}, ok : BOOLEAN]
                 \cup [kind : {"Finished"}, ok : BOOLEAN, wroteAny : BOOLEAN]

ASSUME NilAssumption ==
  /\ \A x \in Gesture : x # Nil
  /\ \A x \in Audio : x # Nil
  /\ \A x \in Streamer : x # Nil
  /\ \A x \in Utterance : x # Nil

KeysTypeOK ==
  /\ told \in {"KeyDown", "KeyUp"}
  /\ gesture \in Gesture
  /\ frontend \in Seq(FrontendEvent)

LoopTypeOK ==
  /\ engine \in Engine
  /\ recognizerReady \in BOOLEAN /\ pendingListen \in BOOLEAN
  /\ listening \in BOOLEAN
  /\ inFlight \in Gesture \cup {Nil}
  /\ streamer \in Streamer \cup {Nil} /\ (streamer # Nil => inFlight # Nil)
  /\ delivering \in Utterance \cup {Nil}
  /\ pendingFinal \in Utterance \cup {Nil}
  /\ committed \in Nat /\ running \in BOOLEAN
  /\ typed \in Seq(Utterance)

CaptureTypeOK ==
  /\ mic \in BOOLEAN /\ armed \in BOOLEAN /\ warm \in BOOLEAN
  /\ watch \in Watch
  /\ silenceShown \in SUBSET (Device \cup {NoDevice})

StreamTypeOK ==
  /\ writers \in [Gesture -> Seq(WriterMsg)]
  /\ region \in [Gesture -> Audio]
  /\ thread \in [Gesture -> Standing]
  /\ streamEvents \in Seq(StreamerEvent)

TypeOK == RecognizerTypeOK /\ KeysTypeOK /\ LoopTypeOK /\ CaptureTypeOK /\ StreamTypeOK

Init ==
  /\ RecognizerInit
  /\ told = "KeyUp" /\ gesture = 0 /\ frontend = <<>>
  /\ engine = NewEngine
  /\ recognizerReady = FALSE /\ pendingListen = FALSE
  /\ listening = FALSE /\ inFlight = Nil /\ streamer = Nil
  /\ mic = FALSE /\ armed = FALSE /\ warm = FALSE
  /\ watch = NewWatch /\ silenceShown = {}
  /\ delivering = Nil /\ pendingFinal = Nil
  /\ writers = [g \in Gesture |-> <<>>]
  /\ region = [g \in Gesture |-> {}]
  /\ thread = [g \in Gesture |-> "InStep"]
  /\ streamEvents = <<>>
  /\ committed = 0 /\ running = TRUE
  /\ typed = <<>>

-----------------------------------------------------------------------------
(***************************************************************************)
(* The environment: the user's key, the capture threads, and the readiness *)
(* and answers of the recognizer thread.                                   *)
(***************************************************************************)
supervisor == <<engine, loading, current, capture, stream, outcome>>

Enqueue(ev) ==
  /\ running /\ Len(frontend) < MaxQueue
  /\ frontend' = Append(frontend, ev)

\* HotkeyTrigger shows that a KeyDown is never sent twice without a KeyUp.  A
\* file source leaves a gap between recordings, in which its events are read.
PressKey ==
  /\ told = "KeyUp" /\ gesture < MaxGestures
  /\ HasMic \/ frontend = <<>>
  /\ Enqueue([kind |-> "KeyDown", gesture |-> gesture + 1])
  /\ told' = "KeyDown" /\ gesture' = gesture + 1
  /\ UNCHANGED <<recognizerVars, supervisor>>

ReleaseKey ==
  /\ told = "KeyDown"
  /\ Enqueue([kind |-> "KeyUp"])
  /\ told' = "KeyUp"
  /\ UNCHANGED <<recognizerVars, gesture, supervisor>>

\* The release of a press that was swallowed because the daemon was paused.
PausedGesture ==
  /\ HasMic
  /\ told = "KeyUp" /\ gesture < MaxGestures
  /\ Enqueue([kind |-> "KeyUp"])
  /\ gesture' = gesture + 1
  /\ UNCHANGED <<recognizerVars, told, supervisor>>

\* The drain task of spawn_mic, or a file source replaying a recording.
RecordChunk(audible) ==
  /\ IF HasMic THEN mic ELSE told = "KeyDown"
  /\ Enqueue([kind |-> "Chunk", gesture |-> gesture, audible |-> audible])
  /\ UNCHANGED <<recognizerVars, keys, supervisor>>

\* The capture thread names the device it opened or changed to, or an issue.
ReportCapture ==
  /\ mic
  /\ \/ \E d \in Device : Enqueue([kind |-> "CaptureUp", device |-> d])
     \/ \E b \in BOOLEAN : Enqueue([kind |-> "CaptureIssue", noInput |-> b])
  /\ UNCHANGED <<recognizerVars, keys, supervisor>>

Recognizing(step) == running /\ step /\ UNCHANGED <<keys, frontend, supervisor>>

RecognizerLoads   == \E r \in Outcome : Recognizing(Construct(r))
RecognizerDies    == Recognizing(Die)
RecognizerGuesses == \E text \in Audio : Recognizing(EmitPartial(text))
RecognizerAnswers ==
  \E ok \in BOOLEAN, text \in Audio : Recognizing(EmitFinal(ok, text))

-----------------------------------------------------------------------------
(***************************************************************************)
(* The select loop: which arm may run.                                     *)
(***************************************************************************)
Awake == running /\ delivering = Nil

StreamArm == Awake /\ streamEvents # <<>>

ReadyArm == /\ Awake /\ streamEvents = <<>>
            /\ ~recognizerReady /\ readiness # "Loading"

FrontendArm == /\ Awake /\ streamEvents = <<>>
               /\ recognizerReady \/ readiness = "Loading"
               /\ frontend # <<>>

AsrArm == /\ Awake /\ streamEvents = <<>>
          /\ recognizerReady \/ readiness = "Loading"
          /\ frontend = <<>>

\* Mutant: the count is compared before the utterance is counted.
CountCommitLate ==
  /\ committed' = committed + 1
  /\ running' = (OnceAfter = 0 \/ committed < OnceAfter)
  /\ mic' = (mic /\ running')

\* An utterance ends: --once returns after the last, dropping the microphone.
CountCommit ==
  /\ committed' = committed + 1
  /\ running' = (OnceAfter = 0 \/ committed + 1 < OnceAfter)
  /\ mic' = (mic /\ running')

-----------------------------------------------------------------------------
(***************************************************************************)
(* commit and stop_capture, which every end of an utterance goes through.  *)
(***************************************************************************)

\* commit: what it does to the overlay.  It also finalizes the recognizer and
\* stops listening.
Committed(e) == IF e.state = "Listening" THEN Show(e, "Transcribing") ELSE e

\* Mutant: the hot-mic timer is left armed.
StopCaptureStaysArmed(e, w, shown) ==
  /\ listening' = FALSE
  /\ mic' = FALSE
  /\ watch' = OnUtteranceEnd(OnClose(w))
  /\ engine' = e
  /\ UNCHANGED <<armed, silenceShown>>

\* stop_capture, its verdict put on screen or only logged.
StopCapture(e, w, shown) ==
  /\ listening' = FALSE
  /\ armed' = FALSE
  /\ mic' = FALSE
  /\ watch' = OnUtteranceEnd(OnClose(w))
  /\ IF EndsSilent(w) /\ shown
     THEN /\ engine' = Show(e, "Error")
          /\ silenceShown' = silenceShown \cup {w.device}
     ELSE engine' = e /\ UNCHANGED silenceShown

\* Mutant: the timer closes the microphone without committing.
HotMicTimerDrops ==
  /\ Awake /\ armed
  /\ StopCapture(Committed(engine), watch, TRUE)
  /\ UNCHANGED <<recognizerVars, keys, frontend, loading, inFlight, streamer, warm,
                 stream, outcome>>

\* The capture ran too long: commit what was said and close the microphone.
HotMicTimer ==
  /\ Awake /\ armed
  /\ Finalize({})
  /\ StopCapture(Committed(engine), watch, TRUE)
  /\ UNCHANGED <<keys, frontend, loading, inFlight, streamer, warm, stream, outcome>>

\* Mutant: the hold expires and the stream stays open.
WarmTimerForgets ==
  /\ Awake /\ warm
  /\ warm' = FALSE
  /\ UNCHANGED <<listening, mic, armed, watch, engine, silenceShown>>
  /\ UNCHANGED <<recognizerVars, keys, frontend, loading, inFlight, streamer,
                 stream, outcome>>

\* The warm hold ends.
WarmTimer ==
  /\ Awake /\ warm
  /\ warm' = FALSE
  /\ IF listening THEN UNCHANGED <<listening, mic, armed, watch, engine, silenceShown>>
                  ELSE StopCapture(engine, watch, FALSE)
  /\ UNCHANGED <<recognizerVars, keys, frontend, loading, inFlight, streamer,
                 stream, outcome>>

\* ERROR_DISMISS_AFTER has passed without another event.
DismissError ==
  /\ Awake /\ engine.state = "Error"
  /\ engine' = Show(engine, "Idle")
  /\ UNCHANGED <<recognizerVars, keys, frontend, loading, current, capture,
                 stream, outcome>>

-----------------------------------------------------------------------------
(***************************************************************************)
(* Readiness.                                                              *)
(***************************************************************************)

\* Mutant: the gesture is taken to be still under way.
ResumedListening(e) == IF pendingListen THEN Show(e, "Listening") ELSE e

\* A key-down during the load resumes where its gesture is by now.
Resumed(e) ==
  IF pendingListen /\ listening THEN Show(e, "Listening")
  ELSE IF pendingListen /\ inFlight # Nil
       THEN Show(Show(e, "Listening"), "Transcribing")
       ELSE e

ReadReady ==
  /\ ReadyArm /\ readiness = "Ready"
  /\ recognizerReady' = TRUE
  /\ pendingListen' = FALSE
  /\ engine' = Resumed(Show(engine, "Idle"))
  /\ UNCHANGED <<recognizerVars, keys, frontend, current, capture, stream, outcome>>

\* `run` returns, and drops the microphone with everything else it owns.
Return == running' = FALSE /\ mic' = FALSE

\* The recognizer cannot be built, or its thread vanished building it.
ReadFailure ==
  /\ ReadyArm /\ readiness \in {"Failed", "Vanished"}
  /\ recognizerReady' = TRUE
  /\ engine' = IF readiness = "Failed" THEN Show(engine, "Error") ELSE engine
  /\ Return
  /\ UNCHANGED <<recognizerVars, keys, frontend, pendingListen, current, armed,
                 warm, watch, silenceShown, stream, delivering, pendingFinal,
                 committed, typed>>

-----------------------------------------------------------------------------
(***************************************************************************)
(* Frontend events.                                                        *)
(***************************************************************************)
ReadFrontend(kind) ==
  /\ FrontendArm
  /\ Head(frontend).kind = kind
  /\ frontend' = Tail(frontend)

\* The previous utterance is still in flight: the press is dropped.
RefuseKeyDown ==
  /\ ReadFrontend("KeyDown")
  /\ inFlight # Nil
  /\ UNCHANGED <<recognizerVars, keys, supervisor>>

\* An accepted press leaves an error-shaped state and ends a warm hold.
Roused(e) == IF e.state \in ErrorShaped THEN Show(e, "Idle") ELSE e

\* Mutant: a press is taken while an utterance is in flight.
AcceptAnyKeyDown ==
  /\ ReadFrontend("KeyDown")
  /\ warm' = FALSE

\* Mutant: the warm hold outlives the press that ends it.
AcceptKeyDownWarm ==
  /\ ReadFrontend("KeyDown")
  /\ inFlight = Nil
  /\ UNCHANGED warm

AcceptKeyDown ==
  /\ ReadFrontend("KeyDown")
  /\ inFlight = Nil
  /\ warm' = FALSE

\* Mutant: the hot-mic timer is not started.
OpenMicUnarmed ==
  IF HasMic
  THEN /\ mic' = TRUE /\ UNCHANGED armed
       /\ watch' = IF warm THEN watch ELSE OnOpen(watch)
  ELSE UNCHANGED <<mic, armed, watch>>

\* Mic::open does nothing when a warm stream is adopted, whose clock is not
\* restarted either.
OpenMic ==
  IF HasMic
  THEN /\ mic' = TRUE /\ armed' = TRUE
       /\ watch' = IF warm THEN watch ELSE OnOpen(watch)
  ELSE UNCHANGED <<mic, armed, watch>>

MicFails ==
  /\ AcceptKeyDown
  /\ HasMic /\ ~mic
  /\ engine' = Show(Roused(engine), "Error")
  /\ UNCHANGED <<recognizerVars, keys, loading, current, mic, armed, watch,
                 silenceShown, stream, outcome>>

\* A profile mutes the focused app.  The microphone is already open by then.
MutedKeyDown ==
  /\ AcceptKeyDown
  /\ MayMute
  /\ OpenMic
  /\ engine' = Show(Roused(engine), "Idle")
  /\ UNCHANGED <<recognizerVars, keys, loading, current, silenceShown, stream,
                 outcome>>

NewStreamer == [written |-> {}, busy |-> FALSE, parked |-> Nil, dead |-> FALSE]

BeginUtterance ==
  /\ AcceptKeyDown
  /\ OpenMic
  /\ inFlight' = Head(frontend).gesture
  /\ streamer' \in IF MayStream THEN {Nil, NewStreamer} ELSE {Nil}
  /\ listening' = TRUE
  /\ pendingListen' = (pendingListen \/ ~recognizerReady)
  /\ engine' = Show(Roused(engine),
                    IF recognizerReady THEN "Listening" ELSE "ModelLoading")
  /\ UNCHANGED <<recognizerVars, keys, recognizerReady, silenceShown, stream, outcome>>

IgnoreKeyUp ==
  /\ ReadFrontend("KeyUp")
  /\ ~listening
  /\ UNCHANGED <<recognizerVars, keys, supervisor>>

\* What a chunk may give the recognizer: the segmenter and a full queue both
\* hold speech back, and silence carries no words.
Heard(ev) == SUBSET (IF ev.kind = "Chunk" /\ ev.audible THEN {ev.gesture} ELSE {})

\* The device named last in the queue q, or else the one known before.
LastDevice(q, known, d) ==
  \/ \E i \in 1..Len(q) : /\ q[i].kind = "CaptureUp" /\ q[i].device = d
                          /\ \A j \in i+1..Len(q) : q[j].kind # "CaptureUp"
  \/ /\ d = known
     /\ \A i \in 1..Len(q) : q[i].kind # "CaptureUp"

\* The drain takes every queued event: chunks are fed, but not shown to the
\* watch, devices are noted, key edges are dropped.  Then commit, and close the
\* microphone or hold it warm.
KeyUp ==
  /\ FrontendArm
  /\ Head(frontend).kind = "KeyUp"
  /\ listening
  /\ frontend' = <<>>
  /\ \E tail \in SUBSET UNION {UNION Heard(frontend[i]) : i \in 1..Len(frontend)} :
       Finalize(tail)
  /\ \E d \in Device \cup {NoDevice} :
       LET w == OnDevice(watch, d) IN
       /\ LastDevice(frontend, watch.device, d)
       /\ IF WarmHold /\ CurrentDeviceIsSlow(w)
          THEN /\ listening' = FALSE
               /\ armed' = FALSE
               /\ warm' = TRUE
               /\ watch' = w
               /\ engine' = Committed(engine)
               /\ UNCHANGED <<mic, silenceShown>>
          ELSE StopCapture(Committed(engine), w, TRUE) /\ UNCHANGED warm
  /\ UNCHANGED <<keys, loading, inFlight, streamer, stream, outcome>>

IgnoreChunk ==
  /\ ReadFrontend("Chunk")
  /\ ~listening
  /\ UNCHANGED <<recognizerVars, keys, supervisor>>

WatchAfter(late, audible) == OnAudio(OnFirstAudio(watch, late), audible)

Chunk ==
  /\ ReadFrontend("Chunk")
  /\ listening
  /\ \E audio \in Heard(Head(frontend)) : Feed(audio)
  /\ \E late \in BOOLEAN : watch' = WatchAfter(late, Head(frontend).audible)
  /\ UNCHANGED <<keys, engine, loading, current, mic, armed, warm, silenceShown,
                 stream, outcome>>

\* The chunk that ends the hangover commits a --once utterance.  The hot-mic
\* timer stays armed.
EndpointChunk ==
  /\ AutoEndpoint
  /\ ReadFrontend("Chunk")
  /\ listening
  /\ \E audio \in Heard(Head(frontend)) : Finalize(audio)
  /\ \E late \in BOOLEAN : watch' = WatchAfter(late, Head(frontend).audible)
  /\ listening' = FALSE
  /\ mic' = FALSE
  /\ engine' = Committed(engine)
  /\ UNCHANGED <<keys, loading, inFlight, streamer, armed, warm, silenceShown,
                 stream, outcome>>

CaptureUp ==
  /\ ReadFrontend("CaptureUp")
  /\ watch' = OnDevice(watch, Head(frontend).device)
  /\ UNCHANGED <<recognizerVars, keys, engine, loading, current, mic, armed, warm,
                 silenceShown, stream, outcome>>

CaptureIssue ==
  /\ ReadFrontend("CaptureIssue")
  /\ engine' = IF Head(frontend).noInput /\ engine.state = "Idle"
               THEN Show(engine, "Error") ELSE engine
  /\ UNCHANGED <<recognizerVars, keys, loading, current, capture, stream, outcome>>

-----------------------------------------------------------------------------
(***************************************************************************)
(* Recognizer answers.                                                     *)
(***************************************************************************)
Command(kind, target) == [kind |-> kind, target |-> target]

ToWriter(cmd) == writers' = [writers EXCEPT ![inFlight] = Append(@, cmd)]

FallsBehind(g) == thread' = [thread EXCEPT ![g] = "Behind"]

\* The coalescer releases `target`: the session takes it as written and waits
\* for its WriteDone; a dead streamer no longer sends it.
Release(target) ==
  /\ streamer' = [streamer EXCEPT !.written = target, !.busy = TRUE, !.parked = Nil]
  /\ IF streamer.dead THEN FallsBehind(inFlight) /\ UNCHANGED writers
     ELSE ToWriter(Command("Apply", target)) /\ UNCHANGED thread

\* A partial moves the commit horizon, or it does not.  The new prefix is
\* released unless a write is under way or the interval has not elapsed.
Stream(text) ==
  \/ UNCHANGED <<streamer, writers, thread>>
  \/ ~streamer.busy /\ Release(text)
  \/ streamer' = [streamer EXCEPT !.parked = text] /\ UNCHANGED <<writers, thread>>

ReadPartial ==
  /\ AsrArm /\ answers # <<>>
  /\ Head(answers).kind = "Partial"
  /\ ReadAnswer
  /\ IF streamer = Nil THEN UNCHANGED <<streamer, writers, thread>>
                       ELSE Stream(Head(answers).text)
  /\ UNCHANGED <<keys, frontend, engine, loading, listening, inFlight, capture,
                 region, streamEvents, outcome>>

\* Streamer::deadline passes and on_tick releases what was parked.
StreamTimer ==
  /\ Awake
  /\ streamer # Nil
  /\ ~streamer.dead /\ ~streamer.busy /\ streamer.parked # Nil
  /\ Release(streamer.parked)
  /\ UNCHANGED <<recognizerVars, keys, frontend, engine, loading, listening,
                 inFlight, capture, region, streamEvents, outcome>>

ReadFinal ==
  /\ AsrArm /\ answers # <<>>
  /\ Head(answers).kind = "Final"
  /\ ReadAnswer

\* The thread is gone and its channel is read to the end: `run` returns, with
\* whatever was in flight.
AsrClosed ==
  /\ AsrArm /\ recognizerReady
  /\ answers = <<>> /\ ~alive
  /\ Return
  /\ UNCHANGED <<recognizerVars, keys, frontend, engine, loading, current, armed,
                 warm, watch, silenceShown, stream, delivering, pendingFinal,
                 committed, typed>>

StrayFinal ==
  /\ ReadFinal
  /\ inFlight = Nil
  /\ UNCHANGED <<keys, frontend, supervisor>>

\* Mutant: the streaming session outlives its utterance.
TakeUtteranceOnly == inFlight # Nil /\ inFlight' = Nil /\ UNCHANGED streamer

\* Mutant: the utterance is looked at, not taken.
LookAtUtterance == inFlight # Nil /\ UNCHANGED <<inFlight, streamer>>

\* in_flight.take()
TakeUtterance == inFlight # Nil /\ inFlight' = Nil /\ streamer' = Nil

\* A recognizer fault.  The writer of a streamed utterance gets no Finish.
FinalFault ==
  /\ ReadFinal /\ ~Head(answers).ok
  /\ TakeUtterance
  /\ engine' = Show(engine, "Error")
  /\ CountCommit
  /\ UNCHANGED <<keys, frontend, loading, listening, armed, warm, watch,
                 silenceShown, stream, delivering, pendingFinal, typed>>

\* The command of DictationSession::finish: none when the field already has
\* the text.  Two texts of one gesture may still differ in their words.
FinishTargets(text) ==
  IF text # streamer.written THEN {text} ELSE IF text = {} THEN {Nil} ELSE {Nil, text}

FinishStream(text) ==
  IF streamer = Nil THEN UNCHANGED writers
  ELSE \E target \in FinishTargets(text) : ToWriter(Command("Finish", target))

FinalEmpty ==
  /\ ReadFinal /\ Head(answers).ok /\ Head(answers).text = {}
  /\ TakeUtterance
  /\ engine' = Show(engine, "Idle")
  /\ FinishStream({})
  /\ CountCommit
  /\ UNCHANGED <<keys, frontend, loading, listening, armed, warm, watch,
                 silenceShown, region, thread, streamEvents, delivering, pendingFinal, typed>>

Result == [gesture |-> inFlight, text |-> Head(answers).text]

\* commit_transcript up to its await; or the last write of a streamed text.
FinalText ==
  /\ ReadFinal /\ Head(answers).ok /\ Head(answers).text # {}
  /\ TakeUtterance
  /\ engine' = Show(engine, "Injecting")
  /\ FinishStream(Head(answers).text)
  /\ IF streamer = Nil THEN delivering' = Result /\ UNCHANGED pendingFinal
                       ELSE pendingFinal' = Result /\ UNCHANGED delivering
  /\ UNCHANGED <<keys, frontend, loading, listening, capture, region,
                 thread, streamEvents, committed, running, typed>>

\* inject::deliver answers.  A write may be suppressed, staged or fail, and
\* focus that moved turns even a good one into an Error.
Delivered(wrote, rest) ==
  /\ running
  /\ delivering # Nil
  /\ delivering' = Nil
  /\ typed' = IF wrote THEN Append(typed, delivering) ELSE typed
  /\ engine' = Show(engine, rest)
  /\ CountCommit
  /\ UNCHANGED <<recognizerVars, keys, frontend, loading, current, armed, warm,
                 watch, silenceShown, stream, pendingFinal>>

-----------------------------------------------------------------------------
(***************************************************************************)
(* Streaming: the writer threads, and what the loop does on their reports. *)
(***************************************************************************)
WriterRuns(g, kind) ==
  /\ running
  /\ writers[g] # <<>> /\ Head(writers[g]).kind = kind
  /\ writers' = [writers EXCEPT ![g] = Tail(@)]
  /\ UNCHANGED <<recognizerVars, keys, frontend, engine, loading, current, capture,
                 outcome>>

Report(ev) == streamEvents' = Append(streamEvents, ev)

\* What a command leaves in the region: the text it was made for; or, in a
\* region that text was never put in, some of its own words and of those there.
Landed(g) ==
  LET target == Head(writers[g]).target
  IN IF thread[g] = "InStep" THEN {target} ELSE SUBSET (region[g] \cup target)

\* While the user speaks a command only adds to the end, which every region has.
\* One the application refuses is written in the session and not in the field.
WriterApplies(g, ok) ==
  /\ WriterRuns(g, "Apply")
  /\ IF ok THEN /\ \E text \in Landed(g) : region' = [region EXCEPT ![g] = text]
                /\ UNCHANGED thread
           ELSE FallsBehind(g) /\ UNCHANGED region
  /\ Report([kind |-> "WriteDone", ok |-> ok])

\* May the last command be carried out? Erasing everything that was written
\* reaches past the end of a region that holds less.
InRegion(g, target) == ~(thread[g] = "Behind" /\ target = {})

\* Mutant: the thread ends without its report.
WriterFinishesQuietly(g, applied, sealed) ==
  /\ WriterRuns(g, "Finish")
  /\ InRegion(g, Head(writers[g]).target)
  /\ UNCHANGED <<region, thread, streamEvents>>

\* The last command, if there is one, then seal, which can fail only on a
\* region with text in it.
WriterFinishes(g, applied, sealed) ==
  LET target == Head(writers[g]).target IN
  /\ WriterRuns(g, "Finish")
  /\ InRegion(g, target)
  /\ \E text \in IF target # Nil /\ applied THEN Landed(g) ELSE {region[g]} :
       /\ region' = [region EXCEPT ![g] = text]
       /\ Report([kind |-> "Finished",
                  ok |-> (target = Nil \/ applied) /\ (sealed \/ text = {}),
                  wroteAny |-> text # {}])
  /\ UNCHANGED thread

\* abs_range slices the applied text by a range computed on the written text.
\* Where less was applied the slice may panic, and with it the thread: it
\* reports nothing, and its channel stays open in the hands of the loop.
WriterPanics(g) ==
  /\ WriterRuns(g, "Finish")
  /\ thread[g] = "Behind" /\ Head(writers[g]).target # Nil
  /\ thread' = [thread EXCEPT ![g] = "Panicked"]
  /\ UNCHANGED <<region, streamEvents>>

\* A completion goes to whichever streamer is in flight.
ReadWriteDone ==
  LET ev == Head(streamEvents) IN
  /\ StreamArm
  /\ ev.kind = "WriteDone"
  /\ streamEvents' = Tail(streamEvents)
  /\ streamer' = IF streamer = Nil THEN Nil
                 ELSE [streamer EXCEPT !.busy = FALSE, !.dead = @ \/ ~ev.ok]
  /\ UNCHANGED <<recognizerVars, keys, frontend, engine, loading, listening,
                 inFlight, capture, writers, region, thread, outcome>>

ReadFinished(ev) ==
  /\ StreamArm
  /\ ev = Head(streamEvents)
  /\ ev.kind = "Finished"
  /\ streamEvents' = Tail(streamEvents)
  /\ UNCHANGED <<recognizerVars, keys, frontend, loading, current, armed, warm,
                 watch, silenceShown, writers, region, thread, typed>>

StrayFinished ==
  \E ev \in StreamerEvent :
    /\ ReadFinished(ev)
    /\ pendingFinal = Nil
    /\ UNCHANGED <<engine, mic, delivering, pendingFinal, committed, running>>

\* Mutant: the failed settle is only reported.
SettleStreamQuietly ==
  \E ev \in StreamerEvent :
    /\ ReadFinished(ev)
    /\ pendingFinal # Nil /\ pendingFinal' = Nil
    /\ ev.ok \/ ev.wroteAny
    /\ engine' = IF ev.ok THEN Show(engine, "Idle") ELSE engine
    /\ CountCommit
    /\ UNCHANGED delivering

\* settle_streamed: clean, or failed over a field that has text in it.
SettleStream ==
  \E ev \in StreamerEvent :
    /\ ReadFinished(ev)
    /\ pendingFinal # Nil /\ pendingFinal' = Nil
    /\ ev.ok \/ ev.wroteAny
    /\ engine' = Show(engine, IF ev.ok THEN "Idle" ELSE "Error")
    /\ CountCommit
    /\ UNCHANGED delivering

\* settle_streamed: nothing landed, so the buffered path delivers it all.
FallBack ==
  \E ev \in StreamerEvent :
    /\ ReadFinished(ev)
    /\ pendingFinal # Nil /\ pendingFinal' = Nil
    /\ ~ev.ok /\ ~ev.wroteAny
    /\ engine' = Show(engine, "Injecting")
    /\ delivering' = pendingFinal
    /\ UNCHANGED <<mic, committed, running>>

-----------------------------------------------------------------------------
Environment ==
  \/ PressKey \/ ReleaseKey \/ PausedGesture \/ ReportCapture
  \/ \E audible \in BOOLEAN : RecordChunk(audible)

ReadsFrontend ==
  \/ RefuseKeyDown \/ MicFails \/ MutedKeyDown \/ BeginUtterance
  \/ IgnoreKeyUp \/ KeyUp
  \/ IgnoreChunk \/ Chunk \/ EndpointChunk
  \/ CaptureUp \/ CaptureIssue

ReadsAnswers == ReadPartial \/ AsrClosed \/ StrayFinal \/ FinalFault \/ FinalEmpty \/ FinalText

ReadsStream == ReadWriteDone \/ StrayFinished \/ SettleStream \/ FallBack

ReadsReadiness == ReadReady \/ ReadFailure

DeliveryEnds == \E wrote \in BOOLEAN, rest \in {"Idle", "Error"} : Delivered(wrote, rest)

WriterSteps(g) ==
  \/ \E ok \in BOOLEAN : WriterApplies(g, ok)
  \/ \E applied, sealed \in BOOLEAN : WriterFinishes(g, applied, sealed)
  \/ WriterPanics(g)

Next ==
  \/ Environment
  \/ RecognizerLoads \/ RecognizerDies \/ RecognizerGuesses \/ RecognizerAnswers
  \/ HotMicTimer \/ WarmTimer \/ StreamTimer \/ DismissError
  \/ ReadsReadiness \/ ReadsFrontend \/ ReadsAnswers \/ ReadsStream
  \/ DeliveryEnds
  \/ \E g \in Gesture : WriterSteps(g)

Spec == Init /\ [][Next]_vars

(***************************************************************************)
(* The loop takes every arm it can take, a chunk every 30 ms leaving ample *)
(* room to poll the answers (hence the strong fairness); timers fire;      *)
(* threads run and a write returns.  Nothing is asked of the user.         *)
(***************************************************************************)
Fairness ==
  /\ WF_vars(RecognizerLoads) /\ WF_vars(RecognizerAnswers)
  /\ WF_vars(HotMicTimer) /\ WF_vars(WarmTimer)
  /\ WF_vars(ReadsReadiness) /\ WF_vars(ReadsFrontend) /\ WF_vars(ReadsStream)
  /\ SF_vars(ReadsAnswers)
  /\ WF_vars(DeliveryEnds)
  /\ \A g \in Gesture : WF_vars(WriterSteps(g))

FairSpec == Spec /\ Fairness

-----------------------------------------------------------------------------
(***************************************************************************)
(* Properties.                                                             *)
(***************************************************************************)
\* "An open microphone the user did not ask for is the worst failure this
\* product has": whatever opened it, while it is open a timer runs that closes it.
MicBounded == mic => armed \/ warm

\* Every finalize is one utterance's: one is unanswered exactly while an
\* utterance is committed and not yet finalized.  So the Final that in_flight
\* is taken for is its own.
FinalizeMatches ==
  Len(closed) + Count("Final", answers)
    = IF inFlight # Nil /\ ~listening THEN 1 ELSE 0

\* The panel never claims a phase that is not under way.
OverlayTruthful ==
  /\ engine.state = "Listening" => listening
  /\ engine.state = "Transcribing" => inFlight # Nil /\ ~listening
  /\ engine.state = "Injecting" => delivering # Nil \/ pendingFinal # Nil
  /\ running /\ listening => inFlight # Nil /\ engine.state \in {"Listening", "ModelLoading"}

\* "Committing first drops the end of the sentence", but no drain, stale feed
\* or late Final may do worse: text written for an utterance holds no words
\* spoken before its key went down.
Results == {delivering, pendingFinal} \cup {typed[i] : i \in DOMAIN typed}

OwnWords ==
  /\ \A u \in Results \ {Nil} : \A g \in u.text : g >= u.gesture
  /\ \A u \in Gesture : \A g \in region[u] : g >= u

\* No words are written into a field twice.
NeverTwice ==
  \A i, j \in DOMAIN typed : i # j => typed[i].text \cap typed[j].text = {}

\* What is written for an utterance is what was said in it, and once.
OwnWordsOnce == OwnWords /\ NeverTwice

\* The warm hold and the hot-mic timer never run together, and the hold is of
\* an open stream nobody is listening to.
WarmHoldQuiet == running /\ warm => mic /\ ~listening /\ ~armed

\* Exactly one of the two timers guards an open microphone.
MicTimed == MicBounded /\ WarmHoldQuiet

\* The final settle is the last thing a writer thread is asked for.
NothingAfterFinish ==
  \A g \in Gesture : \A i \in DOMAIN writers[g] :
    writers[g][i].kind = "Finish" => i = Len(writers[g])

\* The settle that is waited for was the end of its writer thread.
WriterGone == pendingFinal # Nil /\ thread[pendingFinal.gesture] = "Panicked"

\* A --once run returns from the utterance it was started for, silent, typed or
\* streamed, through refused writes and failed settles: nothing but a writer
\* thread that panics in its settle (SettleAnswered) keeps it.  And a press
\* begins that utterance unless the panel says why not (the microphone did not
\* open, after which the run waits for a press that never comes).
KeyDownQueued == \E i \in DOMAIN frontend : frontend[i].kind = "KeyDown"
OnceReturns ==
  /\ inFlight # Nil ~> ~running \/ WriterGone
  /\ KeyDownQueued ~> inFlight # Nil \/ engine.state = "Error" \/ ~running

\* An utterance ends however the user behaves, the release that never comes
\* included.
UtteranceEnds == \A g \in Gesture : inFlight = g ~> inFlight # g \/ ~running

\* The microphone does not stay open.
MicCloses == mic ~> ~mic

\* The panel leaves every working phase.
OverlayRests ==
  engine.state \in {"Listening", "Transcribing", "Injecting"}
    ~> engine.state \in {"Idle", "Error"} \/ ~running

\* With nothing asked of the user the daemon comes to rest: the utterance ends,
\* the microphone closes, the panel leaves the screen or shows an error.
ComesToRest == UtteranceEnds /\ MicCloses /\ OverlayRests

\* Refuted: streamer.rs says of the final settle that "the answer arrives as
\* [`StreamerEvent::Finished`]".  A write refused earlier leaves the writer
\* behind, the splice of the settle panics it, and nothing else ends the wait.
SettleAnswered == pendingFinal # Nil ~> pendingFinal = Nil \/ ~running

\* But for a settle its own writer died of, every settle is answered, though the
\* next utterance may have begun, been refused or been settled in its stead, and
\* the panel stops saying that text is on its way.
SettlesEnd ==
  /\ pendingFinal # Nil ~> pendingFinal = Nil \/ ~running \/ WriterGone
  /\ engine.state = "Injecting" ~> engine.state # "Injecting" \/ ~running \/ WriterGone

\* pipeline.rs refuses a key-down so as not to "interleave two recognizer
\* utterances on one channel".
NoInterleaving == listening => closed = <<>> /\ Count("Final", answers) = 0

\* devlatency.rs: heard_anything is "whether any chunk this utterance rose above
\* the silence floor", so the silence verdict is never given over speech.
SilenceVerdictTrue ==
  [][silenceShown' # silenceShown /\ closed' # closed
       => closed'[Len(closed')] = {}]_vars

\* pipeline.rs: on an empty final the writer's Finish "writes nothing".
EmptyFinalWritesNothing ==
  \A g \in Gesture : \A i \in DOMAIN writers[g] : writers[g][i].target # {}

\* settle_streamed: "once any streamed text is in the field, a second full
\* insert would duplicate words".
NoDoubleInsert ==
  \A i \in DOMAIN typed : region[typed[i].gesture] = {}
=============================================================================
