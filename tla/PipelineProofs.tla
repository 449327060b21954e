--------------------------- MODULE PipelineProofs ---------------------------
(***************************************************************************)
(* What Pipeline guarantees for every bound, every set of devices and      *)
(* every configuration of the daemon.                                      *)
(*                                                                         *)
(* In this order: its types (one lemma per operation the actions are built *)
(* from, one per action, and the theorem); the microphone and its timers;  *)
(* the count of finalizes and Finals; the frontend's channel, and on it    *)
(* the commands of the writer threads; the panel, where nothing is         *)
(* streamed; and the words of each utterance, streamed or not.             *)
(***************************************************************************)
EXTENDS Pipeline, TLAPS

(***************************************************************************)
(* Operations.                                                             *)
(***************************************************************************)
\* The engine stays an engine whatever it is asked to show.
LEMMA ShowType ==
  ASSUME NEW e \in Engine, NEW next \in OverlayState
  PROVE  Show(e, next) \in Engine
BY DEF Show, Engine

LEMMA EngineOps ==
  ASSUME NEW e \in Engine
  PROVE  /\ Committed(e) \in Engine
         /\ Resumed(e) \in Engine
         /\ Roused(e) \in Engine
<1>1. {"Idle", "Listening", "Transcribing"} \subseteq OverlayState
  BY DEF OverlayState
<1>2. \A f \in Engine, next \in {"Idle", "Listening", "Transcribing"} : Show(f, next) \in Engine
  BY <1>1, ShowType
<1> QED
  BY <1>2 DEF Committed, Resumed, Roused

\* The watchdog's operations keep it a Watch.
LEMMA WatchOps ==
  ASSUME NEW w \in Watch
  PROVE  /\ OnOpen(w) \in Watch /\ OnClose(w) \in Watch
         /\ \A d \in Device \cup {NoDevice} : OnDevice(w, d) \in Watch
         /\ \A b \in BOOLEAN : OnAudio(w, b) \in Watch
         /\ \A b \in BOOLEAN : OnFirstAudio(w, b) \in Watch
         /\ OnUtteranceEnd(w) \in Watch
         /\ w.device \in Device \cup {NoDevice}
<1>1. OnOpen(w) \in Watch
  BY DEF OnOpen, Watch
<1>2. OnClose(w) \in Watch
  BY DEF OnClose, Watch
<1>3. \A d \in Device \cup {NoDevice} : OnDevice(w, d) \in Watch
  BY DEF OnDevice, Watch
<1>4. \A b \in BOOLEAN : OnAudio(w, b) \in Watch
  BY DEF OnAudio, Watch
<1>5. \A b \in BOOLEAN : OnFirstAudio(w, b) \in Watch
  BY DEF OnFirstAudio, Watch
<1>6. OnUtteranceEnd(w) \in Watch
  BY DEF OnUtteranceEnd, Watch
<1>7. w.device \in Device \cup {NoDevice}
  BY DEF Watch
<1> QED
  BY <1>1, <1>2, <1>3, <1>4, <1>5, <1>6, <1>7

\* stop_capture leaves every variable it writes within its type.
LEMMA StopCaptureType ==
  ASSUME NEW e \in Engine, NEW w \in Watch, NEW shown \in BOOLEAN,
         silenceShown \in SUBSET (Device \cup {NoDevice}),
         StopCapture(e, w, shown)
  PROVE  /\ listening' \in BOOLEAN /\ armed' \in BOOLEAN /\ mic' \in BOOLEAN
         /\ watch' \in Watch
         /\ engine' \in Engine
         /\ silenceShown' \in SUBSET (Device \cup {NoDevice})
<1>1. watch' \in Watch
  BY WatchOps DEF StopCapture
<1>2. engine' \in Engine
  BY ShowType DEF StopCapture, OverlayState
<1>3. silenceShown' \in SUBSET (Device \cup {NoDevice})
  BY WatchOps DEF StopCapture
<1> QED
  BY <1>1, <1>2, <1>3 DEF StopCapture

\* The states the supervisor asks the engine to show.
LEMMA Shows ==
  ASSUME NEW e \in Engine,
         NEW next \in {"Idle", "Listening", "Transcribing", "Injecting", "Error", "ModelLoading"}
  PROVE  Show(e, next) \in Engine
BY ShowType DEF OverlayState

\* A channel event is well typed, and queueing it keeps the channel so.
LEMMA EnqueueType ==
  ASSUME NEW ev \in FrontendEvent, frontend \in Seq(FrontendEvent), Enqueue(ev)
  PROVE  frontend' \in Seq(FrontendEvent)
BY DEF Enqueue

LEMMA FrontendEvents ==
  /\ \A g \in Gesture : [kind |-> "KeyDown", gesture |-> g] \in FrontendEvent
  /\ [kind |-> "KeyUp"] \in FrontendEvent
  /\ \A g \in Gesture, b \in BOOLEAN :
       [kind |-> "Chunk", gesture |-> g, audible |-> b] \in FrontendEvent
  /\ \A d \in Device : [kind |-> "CaptureUp", device |-> d] \in FrontendEvent
  /\ \A b \in BOOLEAN : [kind |-> "CaptureIssue", noInput |-> b] \in FrontendEvent
BY DEF FrontendEvent

LEMMA EventFields ==
  ASSUME NEW ev \in FrontendEvent
  PROVE  /\ ev.kind = "KeyDown" => ev.gesture \in Gesture
         /\ ev.kind = "Chunk" => ev.gesture \in Gesture /\ ev.audible \in BOOLEAN
         /\ ev.kind = "CaptureUp" => ev.device \in Device
         /\ ev.kind = "CaptureIssue" => ev.noInput \in BOOLEAN
BY DEF FrontendEvent

\* What a queued chunk may give the recognizer is audio.
LEMMA HeardType ==
  ASSUME NEW ev \in FrontendEvent
  PROVE  Heard(ev) \subseteq Audio
BY EventFields DEF Heard, Audio

LEMMA FeedType ==
  ASSUME RecognizerTypeOK, NEW audio \in Audio, Feed(audio)
  PROVE  RecognizerTypeOK'
BY DEF RecognizerTypeOK, Feed, Audio

LEMMA FinalizeType ==
  ASSUME RecognizerTypeOK, NEW audio \in Audio, Finalize(audio)
  PROVE  RecognizerTypeOK'
<1>1. open \cup audio \in Audio /\ {} \in Audio
  BY DEF RecognizerTypeOK, Audio
<1> QED
  BY <1>1 DEF RecognizerTypeOK, Finalize

LEMMA ReadAnswerType ==
  ASSUME RecognizerTypeOK, ReadAnswer
  PROVE  RecognizerTypeOK' /\ Head(answers) \in AsrEvent
BY DEF RecognizerTypeOK, ReadAnswer

\* A command to the writer of the utterance in flight keeps the channels typed.
LEMMA ToWriterType ==
  ASSUME writers \in [Gesture -> Seq(WriterMsg)], inFlight \in Gesture,
         NEW kind \in {"Apply", "Finish"}, NEW target \in Audio \cup {Nil},
         kind = "Apply" => target \in Audio,
         ToWriter(Command(kind, target))
  PROVE  writers' \in [Gesture -> Seq(WriterMsg)]
<1>1. Command(kind, target) \in WriterMsg
  BY DEF Command, WriterMsg
<1>2. Append(writers[inFlight], Command(kind, target)) \in Seq(WriterMsg)
  BY <1>1
<1> QED
  BY <1>2 DEF ToWriter

LEMMA ReleaseType ==
  ASSUME TypeOK, NEW target \in Audio, streamer # Nil, Release(target)
  PROVE  /\ streamer' \in Streamer /\ inFlight # Nil
         /\ writers' \in [Gesture -> Seq(WriterMsg)]
         /\ thread' \in [Gesture -> Standing]
<1>1. streamer \in Streamer /\ inFlight \in Gesture
  BY DEF TypeOK, LoopTypeOK
<1>2. streamer' \in Streamer
  BY <1>1 DEF Release, Streamer
<1>3. writers' \in [Gesture -> Seq(WriterMsg)]
  <2>1. writers \in [Gesture -> Seq(WriterMsg)]
    BY DEF TypeOK, StreamTypeOK
  <2>2. CASE streamer.dead
    BY <2>1, <2>2 DEF Release
  <2>3. CASE ~streamer.dead
    <3>1. ToWriter(Command("Apply", target))
      BY <2>3 DEF Release
    <3> QED
      BY <1>1, <2>1, <3>1, ToWriterType
  <2> QED
    BY <2>2, <2>3
<1>4. inFlight # Nil
  BY DEF TypeOK, LoopTypeOK
<1>5. thread' \in [Gesture -> Standing]
  BY <1>1 DEF Release, FallsBehind, Standing, TypeOK, StreamTypeOK
<1> QED
  BY <1>2, <1>3, <1>4, <1>5

LEMMA FinishStreamType ==
  ASSUME TypeOK, inFlight # Nil, NEW text \in Audio, FinishStream(text)
  PROVE  writers' \in [Gesture -> Seq(WriterMsg)]
<1>1. writers \in [Gesture -> Seq(WriterMsg)] /\ inFlight \in Gesture
  BY DEF TypeOK, LoopTypeOK, StreamTypeOK
<1>2. CASE streamer = Nil
  BY <1>1, <1>2 DEF FinishStream
<1>3. CASE streamer # Nil
  <2>1. PICK target \in FinishTargets(text) : ToWriter(Command("Finish", target))
    BY <1>3 DEF FinishStream
  <2>2. target \in Audio \cup {Nil}
    BY <2>1 DEF FinishTargets
  <2> QED
    BY <1>1, <2>1, <2>2, ToWriterType
<1> QED
  BY <1>2, <1>3

(***************************************************************************)
(* Actions.                                                                *)
(***************************************************************************)
\* An action that leaves a part of the state alone leaves it typed.
LEMMA Untouched ==
  ASSUME TypeOK
  PROVE  /\ UNCHANGED recognizerVars => RecognizerTypeOK'
         /\ UNCHANGED <<keys, frontend>> => KeysTypeOK'
         /\ UNCHANGED <<engine, loading, current, outcome>> => LoopTypeOK'
         /\ UNCHANGED capture => CaptureTypeOK'
         /\ UNCHANGED stream => StreamTypeOK'
BY DEF TypeOK, RecognizerTypeOK, KeysTypeOK, LoopTypeOK, CaptureTypeOK, StreamTypeOK,
       recognizerVars, keys, loading, current, outcome, capture, stream

\* The supervisor takes the head of its channel, which stays typed.
LEMMA ReadFrontendType ==
  ASSUME TypeOK, NEW kind, ReadFrontend(kind), UNCHANGED keys
  PROVE  KeysTypeOK' /\ Head(frontend) \in FrontendEvent /\ Head(frontend).kind = kind
BY DEF TypeOK, KeysTypeOK, ReadFrontend, FrontendArm, keys

LEMMA OpenMicType ==
  ASSUME CaptureTypeOK, warm' \in BOOLEAN, UNCHANGED silenceShown, OpenMic
  PROVE  CaptureTypeOK'
BY WatchOps DEF CaptureTypeOK, OpenMic

\* Counting a commit, or returning, keeps its three variables typed.
LEMMA CountCommitType ==
  ASSUME TypeOK, CountCommit
  PROVE  committed' \in Nat /\ running' \in BOOLEAN /\ mic' \in BOOLEAN
BY PipelineAssumption DEF TypeOK, LoopTypeOK, CaptureTypeOK, CountCommit

LEMMA PressKeyType ==
  ASSUME TypeOK, PressKey
  PROVE  TypeOK'
<1>1. gesture + 1 \in Gesture
  BY RecognizerAssumption DEF PressKey, TypeOK, KeysTypeOK, Gesture
<1>2. frontend' \in Seq(FrontendEvent)
  BY <1>1, EnqueueType, FrontendEvents DEF PressKey, TypeOK, KeysTypeOK
<1>3. KeysTypeOK'
  BY <1>1, <1>2 DEF PressKey, TypeOK, KeysTypeOK
<1> QED
  BY <1>1, <1>2, <1>3, Untouched
  DEF TypeOK, PressKey, keys, supervisor, capture, loading, current, stream, outcome, recognizerVars

LEMMA ReleaseKeyType ==
  ASSUME TypeOK, ReleaseKey
  PROVE  TypeOK'
<1>1. frontend' \in Seq(FrontendEvent)
  BY EnqueueType, FrontendEvents DEF ReleaseKey, TypeOK, KeysTypeOK
<1>2. KeysTypeOK'
  BY <1>1 DEF ReleaseKey, TypeOK, KeysTypeOK
<1> QED
  BY <1>1, <1>2, Untouched
  DEF TypeOK, ReleaseKey, keys, supervisor, capture, loading, current, stream, outcome, recognizerVars

LEMMA PausedGestureType ==
  ASSUME TypeOK, PausedGesture
  PROVE  TypeOK'
<1>1. frontend' \in Seq(FrontendEvent)
  BY EnqueueType, FrontendEvents DEF PausedGesture, TypeOK, KeysTypeOK
<1>2. gesture + 1 \in Gesture
  BY RecognizerAssumption DEF PausedGesture, TypeOK, KeysTypeOK, Gesture
<1>3. KeysTypeOK'
  BY <1>1, <1>2 DEF PausedGesture, TypeOK, KeysTypeOK
<1> QED
  BY <1>1, <1>2, <1>3, Untouched
  DEF TypeOK, PausedGesture, keys, supervisor, capture, loading, current, stream, outcome, recognizerVars

LEMMA RecordChunkType ==
  ASSUME TypeOK, NEW audible \in BOOLEAN, RecordChunk(audible)
  PROVE  TypeOK'
<1>1. frontend' \in Seq(FrontendEvent)
  BY EnqueueType, FrontendEvents DEF RecordChunk, TypeOK, KeysTypeOK
<1>2. KeysTypeOK'
  BY <1>1 DEF RecordChunk, TypeOK, KeysTypeOK, keys
<1> QED
  BY <1>1, <1>2, Untouched
  DEF TypeOK, RecordChunk, keys, supervisor, capture, loading, current, stream, outcome, recognizerVars

LEMMA ReportCaptureType ==
  ASSUME TypeOK, ReportCapture
  PROVE  TypeOK'
<1>1. frontend' \in Seq(FrontendEvent)
  BY EnqueueType, FrontendEvents DEF ReportCapture, TypeOK, KeysTypeOK
<1>2. KeysTypeOK'
  BY <1>1 DEF ReportCapture, TypeOK, KeysTypeOK, keys
<1> QED
  BY <1>1, <1>2, Untouched
  DEF TypeOK, ReportCapture, keys, supervisor, capture, loading, current, stream, outcome, recognizerVars

LEMMA RecognizingType ==
  ASSUME TypeOK, RecognizerLoads \/ RecognizerDies \/ RecognizerGuesses \/ RecognizerAnswers
  PROVE  TypeOK'
<1>1. RecognizerTypeOK'
  <2>1. CASE RecognizerLoads
    BY <2>1 DEF TypeOK, RecognizerTypeOK, RecognizerLoads, Recognizing, Construct, Outcome
  <2>2. CASE RecognizerDies
    BY <2>2 DEF TypeOK, RecognizerTypeOK, RecognizerDies, Recognizing, Die
  <2>3. CASE RecognizerGuesses
    BY <2>3 DEF TypeOK, RecognizerTypeOK, RecognizerGuesses, Recognizing, EmitPartial, AsrEvent
  <2>4. CASE RecognizerAnswers
    BY <2>4 DEF TypeOK, RecognizerTypeOK, RecognizerAnswers, Recognizing, EmitFinal, AsrEvent
  <2> QED
    BY <2>1, <2>2, <2>3, <2>4
<1> QED
  BY <1>1, Untouched
  DEF TypeOK, RecognizerLoads, RecognizerDies, RecognizerGuesses, RecognizerAnswers, Recognizing, keys, supervisor, capture, loading, current, stream, outcome, recognizerVars

LEMMA HotMicTimerType ==
  ASSUME TypeOK, HotMicTimer
  PROVE  TypeOK'
<1>1. RecognizerTypeOK'
  BY FinalizeType DEF HotMicTimer, TypeOK, Audio
<1>2. /\ listening' \in BOOLEAN /\ armed' \in BOOLEAN /\ mic' \in BOOLEAN
      /\ watch' \in Watch /\ engine' \in Engine
      /\ silenceShown' \in SUBSET (Device \cup {NoDevice})
  BY StopCaptureType, EngineOps DEF HotMicTimer, TypeOK, LoopTypeOK, CaptureTypeOK
<1>3. LoopTypeOK'
  BY <1>2 DEF HotMicTimer, TypeOK, LoopTypeOK, loading, outcome
<1>4. CaptureTypeOK'
  BY <1>2 DEF HotMicTimer, TypeOK, CaptureTypeOK
<1> QED
  BY <1>1, <1>2, <1>3, <1>4, Untouched
  DEF TypeOK, HotMicTimer, keys, supervisor, capture, loading, current, stream, outcome, recognizerVars

LEMMA WarmTimerType ==
  ASSUME TypeOK, WarmTimer
  PROVE  TypeOK'
<1>1. /\ listening' \in BOOLEAN /\ armed' \in BOOLEAN /\ mic' \in BOOLEAN
      /\ watch' \in Watch /\ engine' \in Engine
      /\ silenceShown' \in SUBSET (Device \cup {NoDevice})
  BY StopCaptureType DEF WarmTimer, TypeOK, LoopTypeOK, CaptureTypeOK
<1>2. LoopTypeOK'
  BY <1>1 DEF WarmTimer, TypeOK, LoopTypeOK, loading, outcome
<1>3. CaptureTypeOK'
  BY <1>1 DEF WarmTimer, TypeOK, CaptureTypeOK
<1> QED
  BY <1>1, <1>2, <1>3, Untouched
  DEF TypeOK, WarmTimer, keys, supervisor, capture, loading, current, stream, outcome, recognizerVars

LEMMA StreamTimerType ==
  ASSUME TypeOK, StreamTimer
  PROVE  TypeOK'
<1>1. streamer \in Streamer /\ streamer.parked \in Audio
  BY DEF StreamTimer, TypeOK, LoopTypeOK, Streamer
<1>2. /\ streamer' \in Streamer /\ inFlight # Nil /\ writers' \in [Gesture -> Seq(WriterMsg)]
      /\ thread' \in [Gesture -> Standing]
  BY <1>1, ReleaseType DEF StreamTimer
<1>3. LoopTypeOK'
  BY <1>2 DEF StreamTimer, TypeOK, LoopTypeOK, loading, outcome
<1>4. StreamTypeOK'
  BY <1>2 DEF StreamTimer, TypeOK, StreamTypeOK
<1> QED
  BY <1>1, <1>2, <1>3, <1>4, Untouched
  DEF TypeOK, StreamTimer, keys, supervisor, capture, loading, current, stream, outcome, recognizerVars

LEMMA DismissErrorType ==
  ASSUME TypeOK, DismissError
  PROVE  TypeOK'
<1>1. engine' \in Engine
  BY Shows DEF DismissError, TypeOK, LoopTypeOK
<1>2. LoopTypeOK'
  BY <1>1 DEF DismissError, TypeOK, LoopTypeOK, loading, current, outcome
<1> QED
  BY <1>1, <1>2, Untouched
  DEF TypeOK, DismissError, keys, supervisor, capture, loading, current, stream, outcome, recognizerVars

LEMMA ReadReadyType ==
  ASSUME TypeOK, ReadReady
  PROVE  TypeOK'
<1>1. engine' \in Engine
  BY Shows, EngineOps DEF ReadReady, TypeOK, LoopTypeOK
<1>2. LoopTypeOK'
  BY <1>1 DEF ReadReady, TypeOK, LoopTypeOK, current, outcome
<1> QED
  BY <1>1, <1>2, Untouched
  DEF TypeOK, ReadReady, keys, supervisor, capture, loading, current, stream, outcome, recognizerVars

LEMMA ReadFailureType ==
  ASSUME TypeOK, ReadFailure
  PROVE  TypeOK'
<1>1. engine' \in Engine
  BY Shows DEF ReadFailure, TypeOK, LoopTypeOK
<1>2. LoopTypeOK'
  BY <1>1 DEF ReadFailure, Return, TypeOK, LoopTypeOK, current
<1>3. CaptureTypeOK'
  BY DEF ReadFailure, Return, TypeOK, CaptureTypeOK
<1> QED
  BY <1>1, <1>2, <1>3, Untouched
  DEF TypeOK, ReadFailure, keys, supervisor, capture, loading, current, stream, outcome, recognizerVars

LEMMA RefuseKeyDownType ==
  ASSUME TypeOK, RefuseKeyDown
  PROVE  TypeOK'
<1>1. KeysTypeOK'
  BY ReadFrontendType DEF RefuseKeyDown
<1> QED
  BY <1>1, Untouched
  DEF TypeOK, RefuseKeyDown, keys, supervisor, capture, loading, current, stream, outcome, recognizerVars

LEMMA IgnoreKeyUpType ==
  ASSUME TypeOK, IgnoreKeyUp
  PROVE  TypeOK'
<1>1. KeysTypeOK'
  BY ReadFrontendType DEF IgnoreKeyUp
<1> QED
  BY <1>1, Untouched
  DEF TypeOK, IgnoreKeyUp, keys, supervisor, capture, loading, current, stream, outcome, recognizerVars

LEMMA IgnoreChunkType ==
  ASSUME TypeOK, IgnoreChunk
  PROVE  TypeOK'
<1>1. KeysTypeOK'
  BY ReadFrontendType DEF IgnoreChunk
<1> QED
  BY <1>1, Untouched
  DEF TypeOK, IgnoreChunk, keys, supervisor, capture, loading, current, stream, outcome, recognizerVars

LEMMA MicFailsType ==
  ASSUME TypeOK, MicFails
  PROVE  TypeOK'
<1>1. KeysTypeOK'
  BY ReadFrontendType DEF MicFails, AcceptKeyDown
<1>2. engine' \in Engine
  BY Shows, EngineOps DEF MicFails, TypeOK, LoopTypeOK
<1>3. LoopTypeOK'
  BY <1>2 DEF MicFails, TypeOK, LoopTypeOK, loading, current, outcome
<1>4. CaptureTypeOK'
  BY DEF MicFails, AcceptKeyDown, TypeOK, CaptureTypeOK
<1> QED
  BY <1>1, <1>2, <1>3, <1>4, Untouched
  DEF TypeOK, MicFails, keys, supervisor, capture, loading, current, stream, outcome, recognizerVars

LEMMA MutedKeyDownType ==
  ASSUME TypeOK, MutedKeyDown
  PROVE  TypeOK'
<1>1. KeysTypeOK'
  BY ReadFrontendType DEF MutedKeyDown, AcceptKeyDown
<1>2. engine' \in Engine
  BY Shows, EngineOps DEF MutedKeyDown, TypeOK, LoopTypeOK
<1>3. LoopTypeOK'
  BY <1>2 DEF MutedKeyDown, TypeOK, LoopTypeOK, loading, current, outcome
<1>4. CaptureTypeOK'
  BY OpenMicType DEF MutedKeyDown, AcceptKeyDown, TypeOK
<1> QED
  BY <1>1, <1>2, <1>3, <1>4, Untouched
  DEF TypeOK, MutedKeyDown, keys, supervisor, capture, loading, current, stream, outcome, recognizerVars

LEMMA BeginUtteranceType ==
  ASSUME TypeOK, BeginUtterance
  PROVE  TypeOK'
<1>1. KeysTypeOK'
  BY ReadFrontendType DEF BeginUtterance, AcceptKeyDown
<1>2. engine' \in Engine
  BY Shows, EngineOps DEF BeginUtterance, TypeOK, LoopTypeOK
<1>3. inFlight' \in Gesture /\ inFlight' # Nil
  BY ReadFrontendType, EventFields, NilAssumption DEF BeginUtterance, AcceptKeyDown
<1>4. streamer' \in Streamer \cup {Nil}
  <2>1. NewStreamer \in Streamer
    BY DEF NewStreamer, Streamer, Audio
  <2> QED
    BY <2>1 DEF BeginUtterance
<1>5. LoopTypeOK'
  BY <1>2, <1>3, <1>4 DEF BeginUtterance, TypeOK, LoopTypeOK, outcome
<1>6. CaptureTypeOK'
  BY OpenMicType DEF BeginUtterance, AcceptKeyDown, TypeOK
<1> QED
  BY <1>1, <1>2, <1>3, <1>4, <1>5, <1>6, Untouched
  DEF TypeOK, BeginUtterance, keys, supervisor, capture, loading, current, stream, outcome, recognizerVars

LEMMA KeyUpType ==
  ASSUME TypeOK, KeyUp
  PROVE  TypeOK'
<1>1. KeysTypeOK'
  BY DEF KeyUp, TypeOK, KeysTypeOK, keys
<1>2. \A i \in 1..Len(frontend) : Heard(frontend[i]) \subseteq Audio
  BY HeardType DEF TypeOK, KeysTypeOK
<1>3. \A tail \in SUBSET UNION {UNION Heard(frontend[i]) : i \in 1..Len(frontend)} : tail \in Audio
  BY <1>2 DEF Audio
<1>4. RecognizerTypeOK'
  BY <1>3, FinalizeType DEF KeyUp, TypeOK
<1>5. /\ listening' \in BOOLEAN /\ armed' \in BOOLEAN /\ mic' \in BOOLEAN /\ warm' \in BOOLEAN
      /\ watch' \in Watch /\ engine' \in Engine
      /\ silenceShown' \in SUBSET (Device \cup {NoDevice})
  <2>1. PICK d \in Device \cup {NoDevice} :
         LET w == OnDevice(watch, d) IN
         IF WarmHold /\ CurrentDeviceIsSlow(w)
         THEN /\ listening' = FALSE /\ armed' = FALSE /\ warm' = TRUE
              /\ watch' = w /\ engine' = Committed(engine)
              /\ UNCHANGED <<mic, silenceShown>>
         ELSE StopCapture(Committed(engine), w, TRUE) /\ UNCHANGED warm
    BY DEF KeyUp
  <2>2. OnDevice(watch, d) \in Watch /\ Committed(engine) \in Engine
    BY <2>1, WatchOps, EngineOps DEF TypeOK, LoopTypeOK, CaptureTypeOK
  <2> QED
    BY <2>1, <2>2, StopCaptureType DEF TypeOK, CaptureTypeOK
<1>6. LoopTypeOK'
  BY <1>5 DEF KeyUp, TypeOK, LoopTypeOK, loading, outcome
<1>7. CaptureTypeOK'
  BY <1>5 DEF TypeOK, CaptureTypeOK
<1> QED
  BY <1>1, <1>2, <1>3, <1>4, <1>5, <1>6, <1>7, Untouched
  DEF TypeOK, KeyUp, keys, supervisor, capture, loading, current, stream, outcome, recognizerVars

LEMMA ChunkType ==
  ASSUME TypeOK, Chunk
  PROVE  TypeOK'
<1>1. KeysTypeOK' /\ Head(frontend) \in FrontendEvent /\ Head(frontend).kind = "Chunk"
  BY ReadFrontendType DEF Chunk
<1>2. RecognizerTypeOK'
  BY <1>1, HeardType, FeedType DEF Chunk, TypeOK
<1>3. watch' \in Watch
  <2>1. PICK late \in BOOLEAN : watch' = WatchAfter(late, Head(frontend).audible)
    BY DEF Chunk
  <2>2. OnFirstAudio(watch, late) \in Watch
    BY WatchOps DEF TypeOK, CaptureTypeOK
  <2> QED
    BY <1>1, <2>1, <2>2, EventFields, WatchOps DEF WatchAfter
<1>4. CaptureTypeOK'
  BY <1>3 DEF Chunk, TypeOK, CaptureTypeOK
<1> QED
  BY <1>1, <1>2, <1>3, <1>4, Untouched
  DEF TypeOK, Chunk, keys, supervisor, capture, loading, current, stream, outcome, recognizerVars

LEMMA EndpointChunkType ==
  ASSUME TypeOK, EndpointChunk
  PROVE  TypeOK'
<1>1. KeysTypeOK' /\ Head(frontend) \in FrontendEvent /\ Head(frontend).kind = "Chunk"
  BY ReadFrontendType DEF EndpointChunk
<1>2. RecognizerTypeOK'
  BY <1>1, HeardType, FinalizeType DEF EndpointChunk, TypeOK
<1>3. watch' \in Watch
  <2>1. PICK late \in BOOLEAN : watch' = WatchAfter(late, Head(frontend).audible)
    BY DEF EndpointChunk
  <2>2. OnFirstAudio(watch, late) \in Watch
    BY WatchOps DEF TypeOK, CaptureTypeOK
  <2> QED
    BY <1>1, <2>1, <2>2, EventFields, WatchOps DEF WatchAfter
<1>4. CaptureTypeOK'
  BY <1>3 DEF EndpointChunk, TypeOK, CaptureTypeOK
<1>5. LoopTypeOK'
  BY EngineOps DEF EndpointChunk, TypeOK, LoopTypeOK, loading, outcome
<1> QED
  BY <1>1, <1>2, <1>3, <1>4, <1>5, Untouched
  DEF TypeOK, EndpointChunk, keys, supervisor, capture, loading, current, stream, outcome, recognizerVars

LEMMA CaptureUpType ==
  ASSUME TypeOK, CaptureUp
  PROVE  TypeOK'
<1>1. KeysTypeOK' /\ Head(frontend) \in FrontendEvent /\ Head(frontend).kind = "CaptureUp"
  BY ReadFrontendType DEF CaptureUp
<1>2. watch' \in Watch
  BY <1>1, EventFields, WatchOps DEF CaptureUp, TypeOK, CaptureTypeOK
<1>3. CaptureTypeOK'
  BY <1>2 DEF CaptureUp, TypeOK, CaptureTypeOK
<1> QED
  BY <1>1, <1>2, <1>3, Untouched
  DEF TypeOK, CaptureUp, keys, supervisor, capture, loading, current, stream, outcome, recognizerVars

LEMMA CaptureIssueType ==
  ASSUME TypeOK, CaptureIssue
  PROVE  TypeOK'
<1>1. KeysTypeOK'
  BY ReadFrontendType DEF CaptureIssue
<1>2. engine' \in Engine
  BY Shows DEF CaptureIssue, TypeOK, LoopTypeOK
<1>3. LoopTypeOK'
  BY <1>2 DEF CaptureIssue, TypeOK, LoopTypeOK, loading, current, outcome
<1> QED
  BY <1>1, <1>2, <1>3, Untouched
  DEF TypeOK, CaptureIssue, keys, supervisor, capture, loading, current, stream, outcome, recognizerVars

LEMMA ReadPartialType ==
  ASSUME TypeOK, ReadPartial
  PROVE  TypeOK'
<1>1. RecognizerTypeOK' /\ Head(answers) \in AsrEvent
  BY ReadAnswerType DEF ReadPartial, TypeOK
<1>2. /\ streamer' \in Streamer \cup {Nil} /\ (streamer' # Nil => inFlight # Nil)
      /\ writers' \in [Gesture -> Seq(WriterMsg)]
      /\ thread' \in [Gesture -> Standing]
  <2> DEFINE text == Head(answers).text
  <2>1. text \in Audio
    BY <1>1 DEF AsrEvent
  <2>2. CASE UNCHANGED <<streamer, writers, thread>>
    BY <2>2 DEF TypeOK, LoopTypeOK, StreamTypeOK
  <2>3. CASE streamer # Nil /\ Release(text)
    BY <2>1, <2>3, ReleaseType
  <2>4. CASE /\ streamer # Nil /\ streamer' = [streamer EXCEPT !.parked = text]
             /\ UNCHANGED <<writers, thread>>
    BY <2>1, <2>4 DEF TypeOK, LoopTypeOK, StreamTypeOK, Streamer
  <2> QED
    BY <2>2, <2>3, <2>4 DEF ReadPartial, Stream
<1>3. LoopTypeOK'
  BY <1>2 DEF ReadPartial, TypeOK, LoopTypeOK, loading, outcome
<1>4. StreamTypeOK'
  BY <1>2 DEF ReadPartial, TypeOK, StreamTypeOK
<1> QED
  BY <1>1, <1>2, <1>3, <1>4, Untouched
  DEF TypeOK, ReadPartial, keys, supervisor, capture, loading, current, stream, outcome, recognizerVars

LEMMA AsrClosedType ==
  ASSUME TypeOK, AsrClosed
  PROVE  TypeOK'
<1>1. LoopTypeOK'
  BY DEF AsrClosed, Return, TypeOK, LoopTypeOK, loading, current
<1>2. CaptureTypeOK'
  BY DEF AsrClosed, Return, TypeOK, CaptureTypeOK
<1> QED
  BY <1>1, <1>2, Untouched
  DEF TypeOK, AsrClosed, keys, supervisor, capture, loading, current, stream, outcome, recognizerVars

LEMMA StrayFinalType ==
  ASSUME TypeOK, StrayFinal
  PROVE  TypeOK'
<1>1. RecognizerTypeOK'
  BY ReadAnswerType DEF StrayFinal, ReadFinal, TypeOK
<1> QED
  BY <1>1, Untouched
  DEF TypeOK, StrayFinal, keys, supervisor, capture, loading, current, stream, outcome, recognizerVars

LEMMA FinalFaultType ==
  ASSUME TypeOK, FinalFault
  PROVE  TypeOK'
<1>1. RecognizerTypeOK'
  BY ReadAnswerType DEF FinalFault, ReadFinal, TypeOK
<1>2. engine' \in Engine
  BY Shows DEF FinalFault, TypeOK, LoopTypeOK
<1>3. LoopTypeOK'
  BY <1>2, CountCommitType DEF FinalFault, TakeUtterance, TypeOK, LoopTypeOK, loading
<1>4. CaptureTypeOK'
  BY CountCommitType DEF FinalFault, TypeOK, CaptureTypeOK
<1> QED
  BY <1>1, <1>2, <1>3, <1>4, Untouched
  DEF TypeOK, FinalFault, keys, supervisor, capture, loading, current, stream, outcome, recognizerVars

LEMMA FinalEmptyType ==
  ASSUME TypeOK, FinalEmpty
  PROVE  TypeOK'
<1>1. RecognizerTypeOK'
  BY ReadAnswerType DEF FinalEmpty, ReadFinal, TypeOK
<1>2. engine' \in Engine
  BY Shows DEF FinalEmpty, TypeOK, LoopTypeOK
<1>3. LoopTypeOK'
  BY <1>2, CountCommitType DEF FinalEmpty, TakeUtterance, TypeOK, LoopTypeOK, loading
<1>4. CaptureTypeOK'
  BY CountCommitType DEF FinalEmpty, TypeOK, CaptureTypeOK
<1>5. {} \in Audio
  BY DEF Audio
<1>6. StreamTypeOK'
  BY <1>5, FinishStreamType DEF FinalEmpty, TakeUtterance, TypeOK, StreamTypeOK
<1> QED
  BY <1>1, <1>2, <1>3, <1>4, <1>5, <1>6, Untouched
  DEF TypeOK, FinalEmpty, keys, supervisor, capture, loading, current, stream, outcome, recognizerVars

LEMMA FinalTextType ==
  ASSUME TypeOK, FinalText
  PROVE  TypeOK'
<1>1. RecognizerTypeOK' /\ Head(answers).text \in Audio
  BY ReadAnswerType DEF FinalText, ReadFinal, TypeOK, AsrEvent
<1>2. engine' \in Engine
  BY Shows DEF FinalText, TypeOK, LoopTypeOK
<1>3. Result \in Utterance
  BY <1>1 DEF Result, Utterance, FinalText, TakeUtterance, TypeOK, LoopTypeOK
<1>4. LoopTypeOK'
  BY <1>2, <1>3 DEF FinalText, TakeUtterance, TypeOK, LoopTypeOK, loading
<1>5. StreamTypeOK'
  BY <1>1, FinishStreamType DEF FinalText, TakeUtterance, TypeOK, StreamTypeOK
<1> QED
  BY <1>1, <1>2, <1>3, <1>4, <1>5, Untouched
  DEF TypeOK, FinalText, keys, supervisor, capture, loading, current, stream, outcome, recognizerVars

LEMMA ReadWriteDoneType ==
  ASSUME TypeOK, ReadWriteDone
  PROVE  TypeOK'
<1>1. streamer' \in Streamer \cup {Nil} /\ (streamer' # Nil => inFlight # Nil)
  <2>1. Head(streamEvents) \in StreamerEvent /\ Head(streamEvents).kind = "WriteDone"
    BY DEF ReadWriteDone, StreamArm, TypeOK, StreamTypeOK
  <2>2. Head(streamEvents).ok \in BOOLEAN
    BY <2>1 DEF StreamerEvent
  <2> QED
    BY <2>2 DEF ReadWriteDone, TypeOK, LoopTypeOK, Streamer
<1>2. LoopTypeOK'
  BY <1>1 DEF ReadWriteDone, TypeOK, LoopTypeOK, loading, outcome
<1>3. StreamTypeOK'
  BY DEF ReadWriteDone, StreamArm, TypeOK, StreamTypeOK
<1> QED
  BY <1>1, <1>2, <1>3, Untouched
  DEF TypeOK, ReadWriteDone, keys, supervisor, capture, loading, current, stream, outcome, recognizerVars

LEMMA StrayFinishedType ==
  ASSUME TypeOK, StrayFinished
  PROVE  TypeOK'
<1>1. StreamTypeOK'
  BY DEF StrayFinished, ReadFinished, StreamArm, TypeOK, StreamTypeOK
<1>2. LoopTypeOK'
  BY DEF StrayFinished, ReadFinished, TypeOK, LoopTypeOK, loading, current
<1>3. CaptureTypeOK'
  BY DEF StrayFinished, ReadFinished, TypeOK, CaptureTypeOK
<1> QED
  BY <1>1, <1>2, <1>3, Untouched
  DEF TypeOK, StrayFinished, ReadFinished, keys, supervisor, capture, loading, current, stream, outcome, recognizerVars

LEMMA SettleStreamType ==
  ASSUME TypeOK, SettleStream
  PROVE  TypeOK'
<1>1. StreamTypeOK'
  BY DEF SettleStream, ReadFinished, StreamArm, TypeOK, StreamTypeOK
<1>2. engine' \in Engine
  BY Shows DEF SettleStream, TypeOK, LoopTypeOK
<1>3. LoopTypeOK'
  BY <1>2, CountCommitType DEF SettleStream, ReadFinished, TypeOK, LoopTypeOK, loading, current
<1>4. CaptureTypeOK'
  BY CountCommitType DEF SettleStream, ReadFinished, TypeOK, CaptureTypeOK
<1> QED
  BY <1>1, <1>2, <1>3, <1>4, Untouched
  DEF TypeOK, SettleStream, ReadFinished, keys, supervisor, capture, loading, current, stream, outcome, recognizerVars

LEMMA FallBackType ==
  ASSUME TypeOK, FallBack
  PROVE  TypeOK'
<1>1. StreamTypeOK'
  BY DEF FallBack, ReadFinished, StreamArm, TypeOK, StreamTypeOK
<1>2. engine' \in Engine
  BY Shows DEF FallBack, TypeOK, LoopTypeOK
<1>3. LoopTypeOK'
  BY <1>2 DEF FallBack, ReadFinished, TypeOK, LoopTypeOK, loading, current
<1>4. CaptureTypeOK'
  BY DEF FallBack, ReadFinished, TypeOK, CaptureTypeOK
<1> QED
  BY <1>1, <1>2, <1>3, <1>4, Untouched
  DEF TypeOK, FallBack, ReadFinished, keys, supervisor, capture, loading, current, stream, outcome, recognizerVars

LEMMA DeliveryEndsType ==
  ASSUME TypeOK, DeliveryEnds
  PROVE  TypeOK'
<1>1. engine' \in Engine
  BY Shows DEF DeliveryEnds, Delivered, TypeOK, LoopTypeOK
<1>2. typed' \in Seq(Utterance)
  BY DEF DeliveryEnds, Delivered, TypeOK, LoopTypeOK
<1>3. LoopTypeOK'
  BY <1>1, <1>2, CountCommitType DEF DeliveryEnds, Delivered, TypeOK, LoopTypeOK, loading, current
<1>4. CaptureTypeOK'
  BY CountCommitType DEF DeliveryEnds, Delivered, TypeOK, CaptureTypeOK
<1> QED
  BY <1>1, <1>2, <1>3, <1>4, Untouched
  DEF TypeOK, DeliveryEnds, Delivered, keys, supervisor, capture, loading, current, stream, outcome, recognizerVars

\* What a command leaves in the region is text.
LEMMA LandedType ==
  ASSUME TypeOK, NEW g \in Gesture, Head(writers[g]).target \in Audio, NEW text \in Landed(g)
  PROVE  text \in Audio
<1> DEFINE target == Head(writers[g]).target
<1>1. region[g] \in Audio /\ target \in Audio
  BY DEF TypeOK, StreamTypeOK
<1>2. text = target \/ text \in SUBSET (region[g] \cup target)
  BY DEF Landed
<1> HIDE DEF target
<1> QED
  BY <1>1, <1>2 DEF Audio

\* A writer's step keeps the types.
LEMMA WriterStepsType ==
  ASSUME TypeOK, NEW g \in Gesture, WriterSteps(g)
  PROVE  TypeOK'
<1>1. /\ Head(writers[g]).target \in Audio \cup {Nil}
      /\ Head(writers[g]).kind = "Apply" => Head(writers[g]).target \in Audio
      /\ writers' \in [Gesture -> Seq(WriterMsg)]
  <2>1. writers[g] \in Seq(WriterMsg) /\ writers[g] # <<>>
    BY DEF WriterSteps, WriterApplies, WriterFinishes, WriterPanics, WriterRuns, TypeOK, StreamTypeOK
  <2>2. Head(writers[g]) \in WriterMsg /\ Tail(writers[g]) \in Seq(WriterMsg)
    BY <2>1
  <2>3. writers' = [writers EXCEPT ![g] = Tail(@)]
    BY DEF WriterSteps, WriterApplies, WriterFinishes, WriterPanics, WriterRuns
  <2> QED
    BY <2>2, <2>3 DEF WriterMsg, TypeOK, StreamTypeOK
<1>2. StreamTypeOK'
  <2>1. ASSUME NEW ok \in BOOLEAN, WriterApplies(g, ok) PROVE StreamTypeOK'
    <3>1. Head(writers[g]).target \in Audio
      BY <1>1, <2>1 DEF WriterApplies, WriterRuns
    <3>2. region' \in [Gesture -> Audio] /\ thread' \in [Gesture -> Standing]
      <4>1. CASE ok
        <5>1. PICK text \in Landed(g) : region' = [region EXCEPT ![g] = text]
          BY <2>1, <4>1 DEF WriterApplies
        <5>2. text \in Audio
          BY <3>1, <5>1, LandedType
        <5> QED
          BY <2>1, <4>1, <5>1, <5>2 DEF WriterApplies, TypeOK, StreamTypeOK
      <4>2. CASE ~ok
        BY <2>1, <4>2 DEF WriterApplies, FallsBehind, Standing, TypeOK, StreamTypeOK
      <4> QED
        BY <4>1, <4>2
    <3>3. [kind |-> "WriteDone", ok |-> ok] \in StreamerEvent
      BY DEF StreamerEvent
    <3> QED
      BY <1>1, <2>1, <3>2, <3>3 DEF WriterApplies, Report, TypeOK, StreamTypeOK
  <2>2. ASSUME NEW applied \in BOOLEAN, NEW sealed \in BOOLEAN, WriterFinishes(g, applied, sealed)
        PROVE  StreamTypeOK'
    <3> DEFINE target == Head(writers[g]).target
               ev(text) == [kind |-> "Finished",
                            ok |-> (target = Nil \/ applied) /\ (sealed \/ text = {}),
                            wroteAny |-> text # {}]
    <3>1. PICK text \in IF target # Nil /\ applied THEN Landed(g) ELSE {region[g]} :
             region' = [region EXCEPT ![g] = text] /\ streamEvents' = Append(streamEvents, ev(text))
      BY <2>2 DEF WriterFinishes, Report
    <3>2. text \in Audio
      <4>1. CASE target # Nil /\ applied
        BY <1>1, <3>1, <4>1, LandedType
      <4>2. CASE text = region[g]
        BY <4>2 DEF TypeOK, StreamTypeOK
      <4> QED
        BY <3>1, <4>1, <4>2
    <3>3. ev(text) \in StreamerEvent
      BY DEF StreamerEvent
    <3>4. UNCHANGED thread
      BY <2>2 DEF WriterFinishes
    <3> HIDE DEF ev
    <3> QED
      BY <1>1, <3>1, <3>2, <3>3, <3>4 DEF TypeOK, StreamTypeOK
  <2>3. CASE WriterPanics(g)
    BY <1>1, <2>3 DEF WriterPanics, Standing, TypeOK, StreamTypeOK
  <2> QED
    BY <2>1, <2>2, <2>3 DEF WriterSteps
<1> QED
  BY <1>1, <1>2, Untouched
  DEF TypeOK, WriterSteps, WriterApplies, WriterFinishes, WriterPanics, WriterRuns, keys, supervisor, capture, loading, current, stream, outcome, recognizerVars

\* Every step keeps the types.
LEMMA TypeStep == ASSUME TypeOK, Next PROVE TypeOK'
  BY PressKeyType, ReleaseKeyType, PausedGestureType, RecordChunkType,
     ReportCaptureType, RecognizingType, HotMicTimerType, WarmTimerType,
     StreamTimerType, DismissErrorType, ReadReadyType, ReadFailureType,
     RefuseKeyDownType, IgnoreKeyUpType, IgnoreChunkType, MicFailsType,
     MutedKeyDownType, BeginUtteranceType, KeyUpType, ChunkType,
     EndpointChunkType, CaptureUpType, CaptureIssueType, ReadPartialType,
     AsrClosedType, StrayFinalType, FinalFaultType, FinalEmptyType,
     FinalTextType, ReadWriteDoneType, StrayFinishedType, SettleStreamType,
     FallBackType, DeliveryEndsType, WriterStepsType
  DEF Next, Environment, ReadsReadiness, ReadsFrontend, ReadsAnswers, ReadsStream

\* TypeOK is inductive.
THEOREM TypeCorrect == Spec => []TypeOK
<1>1. Init => TypeOK
  <2> SUFFICES ASSUME Init PROVE TypeOK
    OBVIOUS
  <2>1. {} \in Audio /\ 0 \in Gesture
    BY RecognizerAssumption DEF Audio, Gesture
  <2>2. RecognizerTypeOK
    BY <2>1 DEF Init, RecognizerInit, RecognizerTypeOK
  <2>3. KeysTypeOK
    BY <2>1 DEF Init, KeysTypeOK
  <2>4. LoopTypeOK
    <3>1. NewEngine \in Engine
      BY DEF NewEngine, Engine, OverlayState
    <3>2. streamer = Nil /\ (streamer # Nil => inFlight # Nil)
      BY DEF Init
    <3>3. typed \in Seq(Utterance)
      BY DEF Init
    <3> QED
      BY <3>1, <3>2, <3>3 DEF Init, LoopTypeOK
  <2>5. CaptureTypeOK
    BY DEF Init, CaptureTypeOK, NewWatch, Watch
  <2>6. StreamTypeOK
    BY <2>1 DEF Init, StreamTypeOK
  <2> QED
    BY <2>2, <2>3, <2>4, <2>5, <2>6 DEF TypeOK
<1>2. TypeOK /\ [Next]_vars => TypeOK'
  <2>1. CASE UNCHANGED vars
    BY <2>1, Untouched DEF TypeOK, vars
  <2>2. CASE Next
    BY <2>2, TypeStep
  <2> QED
    BY <2>1, <2>2
<1> QED
  BY <1>1, <1>2, PTL DEF Spec

-----------------------------------------------------------------------------
(***************************************************************************)
(* The microphone.                                                         *)
(***************************************************************************)
\* MicBounded and WarmHoldQuiet are not inductive: a warm timer that finds the
\* supervisor listening leaves the stream open, and a hold begun without a stream
\* would be a hold of nothing.  Neither happens, because
\*   - while the supervisor listens, the stream it opened is open, its timer armed;
\*   - without a microphone no device is ever named, so none is slow.
ListeningOpen == running /\ listening /\ HasMic => mic /\ armed

NoMicNoDevice ==
  HasMic \/ /\ ~mic /\ watch.device = NoDevice
            /\ \A i \in 1..Len(frontend) : frontend[i].kind # "CaptureUp"

MicInv == MicBounded /\ WarmHoldQuiet /\ ListeningOpen /\ NoMicNoDevice

\* What most actions do to the microphone: nothing, or everything when `run` returns.
MicUntouched ==
  /\ listening' = listening /\ armed' = armed /\ warm' = warm
  /\ (mic' = mic /\ running' = running) \/ (~mic' /\ ~running')

LEMMA MicUntouchedHolds ==
  ASSUME MicBounded, WarmHoldQuiet, ListeningOpen, MicUntouched
  PROVE  MicBounded' /\ WarmHoldQuiet' /\ ListeningOpen'
BY DEF MicBounded, WarmHoldQuiet, ListeningOpen, MicUntouched

\* stop_capture closes the stream and disarms the timer.
LEMMA StopCaptureCloses ==
  ASSUME NEW e, NEW w, NEW shown, StopCapture(e, w, shown)
  PROVE  ~listening' /\ ~mic' /\ ~armed'
BY DEF StopCapture

LEMMA CountCommitMic ==
  ASSUME TypeOK, CountCommit, UNCHANGED <<listening, armed, warm>>, running
  PROVE  MicUntouched
BY PipelineAssumption DEF CountCommit, MicUntouched, TypeOK, CaptureTypeOK, LoopTypeOK

\* The actions that do not decide about the microphone leave it alone.
LEMMA MicBystanders ==
  ASSUME TypeOK,
         \/ Environment
         \/ RecognizerLoads \/ RecognizerDies \/ RecognizerGuesses \/ RecognizerAnswers
         \/ StreamTimer \/ DismissError \/ ReadsReadiness \/ ReadsAnswers \/ ReadsStream
         \/ RefuseKeyDown \/ IgnoreKeyUp \/ IgnoreChunk \/ Chunk \/ CaptureUp \/ CaptureIssue
         \/ DeliveryEnds \/ \E g \in Gesture : WriterSteps(g)
  PROVE  MicUntouched
<1> USE DEF supervisor, capture, current, outcome
<1>1. CASE Environment
  BY <1>1 DEF Environment, PressKey, ReleaseKey, PausedGesture, ReportCapture, RecordChunk,
              MicUntouched
<1>2. CASE RecognizerLoads \/ RecognizerDies \/ RecognizerGuesses \/ RecognizerAnswers
  BY <1>2 DEF RecognizerLoads, RecognizerDies, RecognizerGuesses, RecognizerAnswers,
              Recognizing, MicUntouched
<1>3. CASE StreamTimer \/ DismissError
  BY <1>3 DEF StreamTimer, DismissError, MicUntouched
<1>4. CASE ReadsReadiness
  BY <1>4 DEF ReadsReadiness, ReadReady, ReadFailure, Return, MicUntouched
<1>5. CASE ReadsAnswers
  <2>1. CASE ReadPartial \/ StrayFinal \/ FinalText \/ AsrClosed
    BY <2>1 DEF ReadPartial, StrayFinal, FinalText, AsrClosed, Return, MicUntouched
  <2>2. CASE FinalFault \/ FinalEmpty
    BY <2>2, CountCommitMic DEF FinalFault, FinalEmpty, ReadFinal, AsrArm, Awake
  <2> QED
    BY <1>5, <2>1, <2>2 DEF ReadsAnswers
<1>6. CASE ReadsStream
  <2>1. CASE ReadWriteDone \/ StrayFinished \/ FallBack
    BY <2>1 DEF ReadWriteDone, StrayFinished, FallBack, ReadFinished, MicUntouched
  <2>2. CASE SettleStream
    BY <2>2, CountCommitMic DEF SettleStream, ReadFinished, StreamArm, Awake
  <2> QED
    BY <1>6, <2>1, <2>2 DEF ReadsStream
<1>7. CASE RefuseKeyDown \/ IgnoreKeyUp \/ IgnoreChunk \/ Chunk \/ CaptureUp \/ CaptureIssue
  BY <1>7 DEF RefuseKeyDown, IgnoreKeyUp, IgnoreChunk, Chunk, CaptureUp, CaptureIssue,
              MicUntouched
<1>8. CASE DeliveryEnds
  BY <1>8, CountCommitMic DEF DeliveryEnds, Delivered
<1>9. CASE \E g \in Gesture : WriterSteps(g)
  BY <1>9 DEF WriterSteps, WriterApplies, WriterFinishes, WriterPanics, WriterRuns, MicUntouched
<1> QED
  BY <1>1, <1>2, <1>3, <1>4, <1>5, <1>6, <1>7, <1>8, <1>9

\* The rest decide: each opens or closes the stream together with its timers.
LEMMA MicStep ==
  ASSUME TypeOK, MicInv, Next
  PROVE  MicBounded' /\ WarmHoldQuiet' /\ ListeningOpen'
<1> USE DEF MicInv, MicBounded, WarmHoldQuiet, ListeningOpen, capture, current, outcome
<1>1. CASE HotMicTimer
  BY <1>1, StopCaptureCloses DEF HotMicTimer, Awake
<1>2. CASE WarmTimer
  BY <1>2, StopCaptureCloses DEF WarmTimer, Awake
<1>3. CASE MicFails
  BY <1>3 DEF MicFails, AcceptKeyDown
<1>4. CASE MutedKeyDown
  BY <1>4 DEF MutedKeyDown, AcceptKeyDown, OpenMic, NoMicNoDevice
<1>5. CASE BeginUtterance
  BY <1>5 DEF BeginUtterance, AcceptKeyDown, OpenMic, NoMicNoDevice
<1>6. CASE KeyUp
  <2>1. PICK d \in Device \cup {NoDevice} :
           LET w == OnDevice(watch, d) IN
           /\ LastDevice(frontend, watch.device, d)
           /\ IF WarmHold /\ CurrentDeviceIsSlow(w)
              THEN listening' = FALSE /\ armed' = FALSE /\ warm' = TRUE /\ UNCHANGED mic
              ELSE StopCapture(Committed(engine), w, TRUE) /\ UNCHANGED warm
    BY <1>6 DEF KeyUp
  <2> DEFINE w == OnDevice(watch, d)
  <2>2. CASE WarmHold /\ CurrentDeviceIsSlow(w)
    <3>1. HasMic
      <4>1. w.device # NoDevice
        BY <2>2 DEF CurrentDeviceIsSlow
      <4>2. w.device = d
        BY DEF OnDevice, TypeOK, CaptureTypeOK, Watch
      <4> QED
        BY <2>1, <4>1, <4>2 DEF NoMicNoDevice, LastDevice
    <3> QED
      BY <1>6, <2>1, <2>2, <3>1 DEF KeyUp, FrontendArm, Awake
  <2>3. CASE ~(WarmHold /\ CurrentDeviceIsSlow(w))
    BY <1>6, <2>1, <2>3, StopCaptureCloses DEF KeyUp, FrontendArm, Awake
  <2> QED
    BY <2>2, <2>3
<1>7. CASE EndpointChunk
  BY <1>7 DEF EndpointChunk, ReadFrontend, FrontendArm, Awake
<1> QED
  BY <1>1, <1>2, <1>3, <1>4, <1>5, <1>6, <1>7, MicBystanders, MicUntouchedHolds
  DEF Next, ReadsFrontend

\* Devices are named by the capture thread, which takes a microphone.
LEMMA WatchKeepsDevice ==
  ASSUME NEW w \in Watch
  PROVE  /\ OnOpen(w).device = w.device /\ OnClose(w).device = w.device
         /\ \A b \in BOOLEAN : OnAudio(w, b).device = w.device
         /\ \A b \in BOOLEAN : OnFirstAudio(w, b).device = w.device
         /\ OnUtteranceEnd(w).device = w.device
         /\ \A d : OnDevice(w, d).device = d
BY DEF OnOpen, OnClose, OnAudio, OnFirstAudio, OnUtteranceEnd, OnDevice, Watch

\* Without a microphone the channel never receives a device's name.
LEMMA NoMicFrontend ==
  ASSUME TypeOK, ~mic, Next,
         \A i \in 1..Len(frontend) : frontend[i].kind # "CaptureUp"
  PROVE  \A i \in 1..Len(frontend') : frontend'[i].kind # "CaptureUp"
<1>0. frontend \in Seq(FrontendEvent)
  BY DEF TypeOK, KeysTypeOK
<1>1. ASSUME NEW ev, ev.kind # "CaptureUp", frontend' = Append(frontend, ev)
      PROVE  \A i \in 1..Len(frontend') : frontend'[i].kind # "CaptureUp"
  BY <1>0, <1>1
<1>2. ASSUME frontend # <<>>, frontend' = Tail(frontend)
      PROVE  \A i \in 1..Len(frontend') : frontend'[i].kind # "CaptureUp"
  BY <1>0, <1>2
<1>3. CASE frontend' = <<>> \/ frontend' = frontend
  BY <1>3
<1>4. CASE PressKey \/ ReleaseKey \/ PausedGesture
  BY <1>1, <1>4 DEF PressKey, ReleaseKey, PausedGesture, Enqueue
<1>5. CASE \E audible \in BOOLEAN : RecordChunk(audible)
  BY <1>1, <1>5 DEF RecordChunk, Enqueue
<1>6. CASE ReportCapture
  BY <1>6 DEF ReportCapture
<1>7. CASE ReadsFrontend
  BY <1>2, <1>3, <1>7 DEF ReadsFrontend, RefuseKeyDown, MicFails, MutedKeyDown, BeginUtterance,
     AcceptKeyDown, IgnoreKeyUp, KeyUp, IgnoreChunk, Chunk, EndpointChunk, CaptureUp,
     CaptureIssue, ReadFrontend, FrontendArm
<1>8. CASE \/ RecognizerLoads \/ RecognizerDies \/ RecognizerGuesses \/ RecognizerAnswers
           \/ HotMicTimer \/ WarmTimer \/ StreamTimer \/ DismissError \/ ReadsReadiness
  BY <1>3, <1>8 DEF RecognizerLoads, RecognizerDies, RecognizerGuesses, RecognizerAnswers,
     Recognizing, HotMicTimer, WarmTimer, StreamTimer, DismissError, ReadsReadiness, ReadReady,
     ReadFailure
<1>9. CASE ReadsAnswers \/ ReadsStream
  BY <1>3, <1>9 DEF ReadsAnswers, ReadPartial, AsrClosed, StrayFinal, FinalFault, FinalEmpty,
     FinalText, ReadsStream, ReadWriteDone, StrayFinished, SettleStream, FallBack, ReadFinished
<1>10. CASE DeliveryEnds \/ \E g \in Gesture : WriterSteps(g)
  BY <1>3, <1>10 DEF DeliveryEnds, Delivered, WriterSteps, WriterApplies, WriterFinishes, WriterPanics,
     WriterRuns
<1> QED
  BY <1>4, <1>5, <1>6, <1>7, <1>8, <1>9, <1>10 DEF Next, Environment

\* Nor does the watch learn of a device.
LEMMA NoMicWatch ==
  ASSUME TypeOK, ~HasMic, NoMicNoDevice, Next
  PROVE  ~mic' /\ watch'.device = NoDevice
<1> USE DEF capture, current, outcome, supervisor
<1>1. watch \in Watch /\ watch.device = NoDevice /\ ~mic
  BY DEF TypeOK, CaptureTypeOK, NoMicNoDevice
<1>2. ASSUME NEW e, NEW w \in Watch, w.device = NoDevice, NEW shown, StopCapture(e, w, shown)
      PROVE  ~mic' /\ watch'.device = NoDevice
  <2>1. OnClose(w) \in Watch /\ OnClose(w).device = NoDevice
    BY <1>2, WatchOps, WatchKeepsDevice
  <2> QED
    BY <1>2, <2>1, WatchKeepsDevice DEF StopCapture
<1>3. CASE HotMicTimer
  BY <1>1, <1>2, <1>3 DEF HotMicTimer
<1>4. CASE WarmTimer
  BY <1>1, <1>2, <1>4 DEF WarmTimer
<1>5. CASE MicFails \/ MutedKeyDown \/ BeginUtterance
  BY <1>1, <1>5 DEF MicFails, MutedKeyDown, BeginUtterance, OpenMic
<1>6. CASE KeyUp
  <2>1. PICK d \in Device \cup {NoDevice} :
           LET w == OnDevice(watch, d) IN
           /\ LastDevice(frontend, watch.device, d)
           /\ IF WarmHold /\ CurrentDeviceIsSlow(w)
              THEN watch' = w /\ UNCHANGED mic
              ELSE StopCapture(Committed(engine), w, TRUE)
    BY <1>6 DEF KeyUp
  <2>2. d = NoDevice
    BY <2>1, <1>1 DEF LastDevice, NoMicNoDevice
  <2>3. OnDevice(watch, d) \in Watch /\ OnDevice(watch, d).device = NoDevice
    BY <1>1, <2>2, WatchOps, WatchKeepsDevice
  <2> QED
    BY <1>1, <1>2, <2>1, <2>3
<1>7. CASE Chunk \/ EndpointChunk
  <2>1. PICK late \in BOOLEAN : watch' = WatchAfter(late, Head(frontend).audible)
    BY <1>7 DEF Chunk, EndpointChunk
  <2>2. Head(frontend).audible \in BOOLEAN
    BY <1>7, EventFields DEF Chunk, EndpointChunk, ReadFrontend, FrontendArm, TypeOK, KeysTypeOK
  <2>3. OnFirstAudio(watch, late) \in Watch /\ OnFirstAudio(watch, late).device = NoDevice
    BY <1>1, WatchOps, WatchKeepsDevice
  <2> QED
    BY <1>1, <1>7, <2>1, <2>2, <2>3, WatchKeepsDevice DEF WatchAfter, Chunk, EndpointChunk
<1>8. CASE CaptureUp
  BY <1>8 DEF CaptureUp, ReadFrontend, FrontendArm, TypeOK, KeysTypeOK, NoMicNoDevice
<1>9. CASE CaptureIssue \/ RefuseKeyDown \/ IgnoreKeyUp \/ IgnoreChunk
  BY <1>1, <1>9 DEF CaptureIssue, RefuseKeyDown, IgnoreKeyUp, IgnoreChunk
<1>10. CASE \/ Environment
            \/ RecognizerLoads \/ RecognizerDies \/ RecognizerGuesses \/ RecognizerAnswers
            \/ StreamTimer \/ DismissError \/ ReadsReadiness \/ ReadsAnswers \/ ReadsStream
            \/ DeliveryEnds \/ \E g \in Gesture : WriterSteps(g)
  <2>1. ~mic'
    BY <1>1, <1>10, MicBystanders DEF MicUntouched
  <2>2. CASE Environment
    BY <2>2, <1>1, <2>1 DEF Environment, PressKey, ReleaseKey, PausedGesture, ReportCapture,
       RecordChunk
  <2>3. CASE RecognizerLoads \/ RecognizerDies \/ RecognizerGuesses \/ RecognizerAnswers
    BY <2>3, <1>1, <2>1 DEF RecognizerLoads, RecognizerDies, RecognizerGuesses,
       RecognizerAnswers, Recognizing
  <2>4. CASE StreamTimer \/ DismissError \/ ReadsReadiness
    BY <2>4, <1>1, <2>1 DEF StreamTimer, DismissError, ReadsReadiness, ReadReady, ReadFailure
  <2>5. CASE ReadsAnswers
    BY <2>5, <1>1, <2>1 DEF ReadsAnswers, ReadPartial, AsrClosed, StrayFinal, FinalFault,
       FinalEmpty, FinalText
  <2>6. CASE ReadsStream
    BY <2>6, <1>1, <2>1 DEF ReadsStream, ReadWriteDone, StrayFinished, SettleStream,
       FallBack, ReadFinished
  <2>7. CASE DeliveryEnds
    BY <2>7, <1>1, <2>1 DEF DeliveryEnds, Delivered
  <2>8. CASE \E g \in Gesture : WriterSteps(g)
    BY <2>8, <1>1, <2>1 DEF WriterSteps, WriterApplies, WriterFinishes, WriterPanics, WriterRuns
  <2> QED
    BY <1>10, <2>2, <2>3, <2>4, <2>5, <2>6, <2>7, <2>8
<1> QED
  BY <1>3, <1>4, <1>5, <1>6, <1>7, <1>8, <1>9, <1>10
  DEF Next, ReadsFrontend

\* The microphone's invariant holds in every behaviour.
LEMMA MicInvCorrect == Spec => []MicInv
<1>1. Init => MicInv
  BY DEF Init, MicInv, MicBounded, WarmHoldQuiet, ListeningOpen, NoMicNoDevice, NewWatch
<1>2. TypeOK /\ MicInv /\ [Next]_vars => MicInv'
  <2> SUFFICES ASSUME TypeOK, MicInv, [Next]_vars PROVE MicInv'
    OBVIOUS
  <2>1. CASE UNCHANGED vars
    BY <2>1 DEF MicInv, MicBounded, WarmHoldQuiet, ListeningOpen, NoMicNoDevice,
                vars, capture, current, outcome
  <2>2. CASE Next
    <3>1. NoMicNoDevice'
      BY <2>2, NoMicFrontend, NoMicWatch DEF MicInv, NoMicNoDevice
    <3> QED
      BY <2>2, <3>1, MicStep DEF MicInv
  <2> QED
    BY <2>1, <2>2
<1> QED
  BY <1>1, <1>2, TypeCorrect, PTL DEF Spec

\* An open microphone always has a running timer that closes it: in every
\* configuration, muted apps, warm holds, endpointing and --once included.
THEOREM MicAlwaysBounded == Spec => []MicBounded
<1>1. MicInv => MicBounded
  BY DEF MicInv
<1> QED
  BY <1>1, MicInvCorrect, PTL

\* A warm hold is of an open stream nobody listens to, with the hot-mic timer off.
THEOREM WarmHoldAlwaysQuiet == Spec => []WarmHoldQuiet
<1>1. MicInv => WarmHoldQuiet
  BY DEF MicInv
<1> QED
  BY <1>1, MicInvCorrect, PTL

\* In every configuration one of the two timers, never both, guards an open microphone.
THEOREM MicAlwaysTimed == Spec => []MicTimed
  BY MicAlwaysBounded, WarmHoldAlwaysQuiet, PTL DEF MicTimed

(***************************************************************************)
(* One Final per utterance.                                                *)
(***************************************************************************)
\* The finalizes not answered in the supervisor's eyes.
Unanswered == Len(closed) + Count("Final", answers)

\* FinalizeMatches is inductive once it is known that nothing but a dictated
\* utterance is finalized: the hot-mic timer runs only while the supervisor
\* listens, and then it has an utterance.  A muted app's microphone and an
\* endpointed utterance break the first, hence the assumptions of the theorem.
FinInv ==
  /\ FinalizeMatches
  /\ armed => listening
  /\ listening => inFlight # Nil

\* What the actions on the recognizer do to the count.
LEMMA CountSteps ==
  ASSUME TypeOK
  PROVE  /\ Unanswered \in Nat
         /\ \A audio : Finalize(audio) => Unanswered' = Unanswered + 1
         /\ \A audio : Feed(audio) => Unanswered' = Unanswered
         /\ \A ok, text : EmitFinal(ok, text) /\ ok \in BOOLEAN /\ text \in Audio
              => Unanswered' = Unanswered
         /\ \A text \in Audio : EmitPartial(text) => Unanswered' = Unanswered
         /\ ReadAnswer /\ Head(answers).kind = "Partial" => Unanswered' = Unanswered
         /\ ReadAnswer /\ Head(answers).kind = "Final"
              => Unanswered' = Unanswered - 1 /\ Unanswered # 0
<1>1. answers \in Seq(AsrEvent) /\ closed \in Seq(Audio) /\ Len(closed) \in Nat
  BY DEF TypeOK, RecognizerTypeOK
<1>2. Count("Final", answers) \in Nat
  BY <1>1, CountIsNat
<1>3. ASSUME NEW audio, Finalize(audio) PROVE Unanswered' = Unanswered + 1
  <2>1. Len(closed') = Len(closed) + 1
    BY <1>1, <1>3 DEF Finalize
  <2> QED
    BY <1>1, <1>2, <1>3, <2>1 DEF Finalize, Unanswered
<1>4. ASSUME NEW audio, Feed(audio) PROVE Unanswered' = Unanswered
  BY <1>4 DEF Feed, Unanswered
<1>5. ASSUME NEW ok \in BOOLEAN, NEW text \in Audio, EmitFinal(ok, text)
      PROVE  Unanswered' = Unanswered
  <2>1. Len(closed') = Len(closed) - 1
    BY <1>1, <1>5 DEF EmitFinal
  <2> DEFINE ev == [kind |-> "Final", ok |-> ok, text |-> text]
  <2>2. ev \in AsrEvent /\ ev.kind = "Final" /\ answers' = Append(answers, ev)
    BY <1>5 DEF EmitFinal, AsrEvent
  <2> HIDE DEF ev
  <2>3. Count("Final", answers') = Count("Final", answers) + 1
    BY <1>1, <2>2, CountAppend
  <2> QED
    BY <1>1, <1>2, <2>1, <2>3 DEF Unanswered
<1>6. ASSUME NEW text \in Audio, EmitPartial(text) PROVE Unanswered' = Unanswered
  <2> DEFINE ev == [kind |-> "Partial", ok |-> TRUE, text |-> text]
  <2>1. ev \in AsrEvent /\ ev.kind # "Final" /\ answers' = Append(answers, ev)
    BY <1>6 DEF EmitPartial, AsrEvent
  <2> HIDE DEF ev
  <2>2. Count("Final", answers') = Count("Final", answers) + 0
    BY <1>1, <2>1, CountAppend
  <2> QED
    BY <1>1, <1>2, <1>6, <2>2 DEF Unanswered, EmitPartial
<1>7. ASSUME ReadAnswer
      PROVE  /\ answers # <<>> /\ closed' = closed
             /\ Count("Final", answers') = Count("Final", answers)
                  - (IF Head(answers).kind = "Final" THEN 1 ELSE 0)
             /\ Count("Final", answers') \in Nat
  <2>1. answers' = Tail(answers) /\ Tail(answers) \in Seq(AsrEvent)
    BY <1>1, <1>7 DEF ReadAnswer
  <2>2. Count("Final", answers') \in Nat
    BY <2>1, CountIsNat
  <2> QED
    BY <1>1, <1>7, <2>1, <2>2, CountTail DEF ReadAnswer
<1>8. ReadAnswer /\ Head(answers).kind = "Partial" => Unanswered' = Unanswered
  BY <1>1, <1>2, <1>7 DEF Unanswered
<1>9. ReadAnswer /\ Head(answers).kind = "Final"
        => Unanswered' = Unanswered - 1 /\ Unanswered # 0
  BY <1>1, <1>2, <1>7 DEF Unanswered
<1> QED
  BY <1>1, <1>2, <1>3, <1>4, <1>5, <1>6, <1>8, <1>9 DEF Unanswered

\* FinInv is inductive: the count and the phase of the utterance move together.
LEMMA FinStep ==
  ASSUME ~MayMute, ~AutoEndpoint, TypeOK, FinInv, Next
  PROVE  FinInv'
<1> DEFINE Due == IF inFlight # Nil /\ ~listening THEN 1 ELSE 0
<1>1. Unanswered = Due /\ (armed => listening) /\ (listening => inFlight # Nil)
  BY DEF FinInv, FinalizeMatches, Unanswered
<1>2. ASSUME Unanswered' = Unanswered, UNCHANGED <<listening, inFlight, armed>>
      PROVE  FinInv'
  BY <1>1, <1>2 DEF FinInv, FinalizeMatches, Unanswered
<1>3. ASSUME UNCHANGED <<closed, answers>> PROVE Unanswered' = Unanswered
  BY <1>3 DEF Unanswered
<1>4. ASSUME listening, Unanswered' = Unanswered + 1, ~listening', ~armed', inFlight' = inFlight
      PROVE  FinInv'
  BY <1>1, <1>4 DEF FinInv, FinalizeMatches, Unanswered
<1>5. ASSUME ReadFinal PROVE Unanswered = 1 /\ Unanswered' = 0 /\ inFlight # Nil /\ ~listening
  BY <1>1, <1>5, CountSteps DEF ReadFinal
<1>6. ASSUME Unanswered' = 0, ~listening', ~armed', inFlight' = Nil
      PROVE  FinInv'
  BY <1>6 DEF FinInv, FinalizeMatches, Unanswered
<1> HIDE DEF Due
<1> USE DEF recognizerVars, supervisor, capture, current, outcome
<1>7. CASE Environment
  BY <1>2, <1>3, <1>7 DEF Environment, PressKey, ReleaseKey, PausedGesture, ReportCapture,
     RecordChunk
<1>8. CASE RecognizerLoads \/ RecognizerDies
  BY <1>2, <1>3, <1>8 DEF RecognizerLoads, RecognizerDies, Recognizing, Construct, Die
<1>9. CASE RecognizerGuesses
  BY <1>2, <1>9, CountSteps DEF RecognizerGuesses, Recognizing
<1>10. CASE RecognizerAnswers
  BY <1>2, <1>10, CountSteps DEF RecognizerAnswers, Recognizing
<1>11. CASE HotMicTimer
  BY <1>1, <1>4, <1>11, CountSteps, StopCaptureCloses DEF HotMicTimer
<1>12. CASE WarmTimer
  <2>1. Unanswered' = Unanswered
    BY <1>3, <1>12 DEF WarmTimer
  <2>2. CASE listening
    BY <1>2, <1>12, <2>1, <2>2 DEF WarmTimer
  <2>3. CASE ~listening
    BY <1>1, <1>12, <2>1, <2>3, StopCaptureCloses
       DEF WarmTimer, FinInv, FinalizeMatches, Unanswered
  <2> QED
    BY <2>2, <2>3
<1>13. CASE StreamTimer \/ DismissError \/ ReadsReadiness
  BY <1>2, <1>3, <1>13 DEF StreamTimer, DismissError, ReadsReadiness, ReadReady, ReadFailure
<1>14. CASE RefuseKeyDown \/ MicFails \/ IgnoreKeyUp \/ IgnoreChunk \/ CaptureUp \/ CaptureIssue
  BY <1>2, <1>3, <1>14 DEF RefuseKeyDown, MicFails, IgnoreKeyUp, IgnoreChunk, CaptureUp,
     CaptureIssue
<1>15. CASE BeginUtterance
  <2>1. inFlight = Nil /\ Unanswered' = Unanswered
    BY <1>3, <1>15 DEF BeginUtterance, AcceptKeyDown
  <2>2. inFlight' # Nil /\ listening' = TRUE
    BY <1>15, ReadFrontendType, EventFields, NilAssumption DEF BeginUtterance, AcceptKeyDown
  <2> QED
    BY <1>1, <2>1, <2>2 DEF Due, FinInv, FinalizeMatches, Unanswered
<1>16. CASE KeyUp
  <2>1. listening /\ inFlight' = inFlight /\ ~listening' /\ ~armed'
    BY <1>16, StopCaptureCloses DEF KeyUp
  <2>2. Unanswered' = Unanswered + 1
    BY <1>16, CountSteps DEF KeyUp
  <2> QED
    BY <1>4, <2>1, <2>2
<1>17. CASE Chunk
  BY <1>2, <1>17, CountSteps DEF Chunk
<1>18. CASE ReadPartial \/ AsrClosed
  BY <1>2, <1>3, <1>18, CountSteps DEF ReadPartial, AsrClosed
<1>19. CASE StrayFinal
  BY <1>5, <1>19 DEF StrayFinal
<1>20. CASE FinalFault \/ FinalEmpty \/ FinalText
  BY <1>1, <1>5, <1>6, <1>20 DEF FinalFault, FinalEmpty, FinalText, TakeUtterance
<1>21. CASE ReadsStream
  BY <1>2, <1>3, <1>21 DEF ReadsStream, ReadWriteDone, StrayFinished, SettleStream, FallBack,
     ReadFinished
<1>22. CASE DeliveryEnds
  BY <1>2, <1>3, <1>22 DEF DeliveryEnds, Delivered
<1>23. CASE \E g \in Gesture : WriterSteps(g)
  BY <1>2, <1>3, <1>23 DEF WriterSteps, WriterApplies, WriterFinishes, WriterPanics, WriterRuns
<1> QED
  BY <1>7, <1>8, <1>9, <1>10, <1>11, <1>12, <1>13, <1>14, <1>15, <1>16, <1>17, <1>18, <1>19,
     <1>20, <1>21, <1>22, <1>23
  DEF Next, ReadsFrontend, ReadsAnswers, MutedKeyDown, EndpointChunk

\* FinInv holds in every behaviour.
LEMMA FinInvCorrect ==
  ASSUME ~MayMute, ~AutoEndpoint
  PROVE  Spec => []FinInv
<1>1. Init => FinInv
  BY CountEmpty DEF Init, RecognizerInit, FinInv, FinalizeMatches
<1>2. TypeOK /\ FinInv /\ [Next]_vars => FinInv'
  <2> SUFFICES ASSUME TypeOK, FinInv, [Next]_vars PROVE FinInv'
    OBVIOUS
  <2>1. CASE UNCHANGED vars
    BY <2>1 DEF FinInv, FinalizeMatches, vars, recognizerVars, current, capture
  <2> QED
    BY <2>1, FinStep
<1> QED
  BY <1>1, <1>2, TypeCorrect, PTL DEF Spec

\* Where no app is muted and no utterance is endpointed, every finalize has its
\* utterance and every Final settles the utterance it was asked for.
THEOREM FinalsMatchUtterances ==
  ASSUME ~MayMute, ~AutoEndpoint
  PROVE  Spec => []FinalizeMatches
<1>1. FinInv => FinalizeMatches
  BY DEF FinInv
<1> QED
  BY <1>1, FinInvCorrect, PTL

-----------------------------------------------------------------------------
(***************************************************************************)
(* The frontend's channel, which both of the following arguments follow.   *)
(***************************************************************************)
\* Reading takes the head of the channel, or, on a release, all of it: what is
\* left moves up by at most one place.
MovesUp ==
  \E k \in {0, 1} : /\ Len(frontend') + k <= Len(frontend)
                    /\ \A i \in 1..Len(frontend') : frontend'[i] = frontend[i + k]

\* Every step but the environment's leaves the count of presses alone and reads the
\* channel from its head.
LEMMA ChannelStep ==
  ASSUME TypeOK, Next, ~Environment
  PROVE  UNCHANGED gesture /\ MovesUp
<1>0. frontend \in Seq(FrontendEvent) /\ Len(frontend) \in Nat
  BY DEF TypeOK, KeysTypeOK
<1> USE DEF keys
<1>1. ASSUME UNCHANGED <<keys, frontend>> PROVE UNCHANGED gesture /\ MovesUp
  BY <1>0, <1>1 DEF MovesUp
<1>2. ASSUME NEW kind, ReadFrontend(kind), UNCHANGED keys PROVE UNCHANGED gesture /\ MovesUp
  BY <1>0, <1>2 DEF ReadFrontend, FrontendArm, MovesUp
<1>3. CASE KeyUp
  <2>1. frontend' = <<>> /\ UNCHANGED gesture
    BY <1>3 DEF KeyUp
  <2> QED
    BY <1>0, <2>1 DEF MovesUp
<1>4. CASE ReadsFrontend /\ ~KeyUp
  BY <1>2, <1>4 DEF ReadsFrontend, RefuseKeyDown, MicFails, MutedKeyDown, BeginUtterance,
     AcceptKeyDown, IgnoreKeyUp, IgnoreChunk, Chunk, EndpointChunk, CaptureUp, CaptureIssue
<1>5. CASE \/ RecognizerLoads \/ RecognizerDies \/ RecognizerGuesses \/ RecognizerAnswers
           \/ HotMicTimer \/ WarmTimer \/ StreamTimer \/ DismissError \/ ReadsReadiness
  BY <1>1, <1>5 DEF RecognizerLoads, RecognizerDies, RecognizerGuesses, RecognizerAnswers,
     Recognizing, HotMicTimer, WarmTimer, StreamTimer, DismissError, ReadsReadiness, ReadReady,
     ReadFailure
<1>6. CASE ReadsAnswers \/ ReadsStream
  BY <1>1, <1>6 DEF ReadsAnswers, ReadPartial, AsrClosed, StrayFinal, FinalFault, FinalEmpty,
     FinalText, ReadsStream, ReadWriteDone, StrayFinished, SettleStream, FallBack, ReadFinished
<1>7. CASE DeliveryEnds \/ \E g \in Gesture : WriterSteps(g)
  BY <1>1, <1>7 DEF DeliveryEnds, Delivered, WriterSteps, WriterApplies, WriterFinishes, WriterPanics,
     WriterRuns
<1> QED
  BY <1>3, <1>4, <1>5, <1>6, <1>7 DEF Next

\* The environment appends: a press of the next gesture, or an event that is no
\* press, a chunk being of the current gesture.
LEMMA ChannelGrows ==
  ASSUME TypeOK, Environment
  PROVE  /\ \E ev \in FrontendEvent :
              /\ frontend' = Append(frontend, ev)
              /\ \/ ev.kind = "KeyDown" /\ ev.gesture = gesture + 1 /\ gesture' = gesture + 1
                 \/ ev.kind = "Chunk" /\ ev.gesture = gesture /\ gesture' = gesture
                 \/ ev.kind \notin {"KeyDown", "Chunk"} /\ gesture' \in {gesture, gesture + 1}
         /\ UNCHANGED supervisor
<1> USE DEF keys, Enqueue
<1>1. gesture \in Gesture
  BY DEF TypeOK, KeysTypeOK
<1>2. CASE PressKey
  <2>1. gesture + 1 \in Gesture
    BY <1>1, <1>2, RecognizerAssumption DEF PressKey, Gesture
  <2> DEFINE ev == [kind |-> "KeyDown", gesture |-> gesture + 1]
  <2>2. ev \in FrontendEvent /\ ev.kind = "KeyDown" /\ ev.gesture = gesture + 1
    BY <2>1, FrontendEvents
  <2> QED
    BY <1>2, <2>2 DEF PressKey
<1>3. CASE ReleaseKey \/ PausedGesture
  <2> DEFINE ev == [kind |-> "KeyUp"]
  <2>1. ev \in FrontendEvent /\ ev.kind = "KeyUp"
    BY FrontendEvents
  <2> QED
    BY <1>3, <2>1 DEF ReleaseKey, PausedGesture
<1>4. CASE \E audible \in BOOLEAN : RecordChunk(audible)
  <2>1. PICK audible \in BOOLEAN : RecordChunk(audible)
    BY <1>4
  <2> DEFINE ev == [kind |-> "Chunk", gesture |-> gesture, audible |-> audible]
  <2>2. ev \in FrontendEvent /\ ev.kind = "Chunk" /\ ev.gesture = gesture
    BY <1>1, FrontendEvents
  <2> QED
    BY <2>1, <2>2 DEF RecordChunk
<1>5. CASE ReportCapture
  <2>1. PICK ev \in FrontendEvent : ev.kind \in {"CaptureUp", "CaptureIssue"} /\ Enqueue(ev)
    <3>1. CASE \E d \in Device : Enqueue([kind |-> "CaptureUp", device |-> d])
      <4>1. PICK d \in Device : Enqueue([kind |-> "CaptureUp", device |-> d])
        BY <3>1
      <4> QED
        BY <4>1, FrontendEvents
    <3>2. CASE \E b \in BOOLEAN : Enqueue([kind |-> "CaptureIssue", noInput |-> b])
      <4>1. PICK b \in BOOLEAN : Enqueue([kind |-> "CaptureIssue", noInput |-> b])
        BY <3>2
      <4> QED
        BY <4>1, FrontendEvents
    <3> QED
      BY <1>5, <3>1, <3>2 DEF ReportCapture
  <2> QED
    BY <1>5, <2>1 DEF ReportCapture
<1> QED
  BY <1>2, <1>3, <1>4, <1>5 DEF Environment

-----------------------------------------------------------------------------
(***************************************************************************)
(* The writer threads.                                                     *)
(***************************************************************************)
\* NothingAfterFinish is inductive once it is known that the utterance in flight
\* has not been finished, and that no press begins an utterance a second time:
\* the presses not read yet are of gestures whose writer was never asked for
\* anything, each of its own.
Presses == {i \in 1..Len(frontend) : frontend[i].kind = "KeyDown"}

PressesFresh ==
  /\ \A i \in Presses : frontend[i].gesture <= gesture /\ writers[frontend[i].gesture] = <<>>
  /\ \A i, j \in Presses : frontend[i].gesture = frontend[j].gesture => i = j
  /\ \A g \in Gesture : g > gesture => writers[g] = <<>>

InFlightBegun ==
  inFlight # Nil => inFlight <= gesture /\ \A i \in Presses : frontend[i].gesture # inFlight

InFlightOpen ==
  streamer # Nil => \A i \in 1..Len(writers[inFlight]) : writers[inFlight][i].kind = "Apply"

WriterInv == NothingAfterFinish /\ PressesFresh /\ InFlightBegun /\ InFlightOpen

\* What the steps do to the writers' channels: one command more for the utterance
\* in flight, a final one ending it; one command less; or nothing.
Asks(kind) ==
  /\ streamer # Nil /\ inFlight' = (IF kind = "Apply" THEN inFlight ELSE Nil)
  /\ \E target \in Audio \cup {Nil} :
       writers' = [writers EXCEPT ![inFlight] = Append(@, Command(kind, target))]

Runs == \E g \in Gesture : writers[g] # <<>> /\ writers' = [writers EXCEPT ![g] = Tail(@)]

\* A command is of its kind.
LEMMA Commands ==
  ASSUME NEW kind, NEW target
  PROVE  Command(kind, target).kind = kind
BY DEF Command

\* A command for the utterance in flight goes behind no Finish.
LEMMA AskingKeeps ==
  ASSUME TypeOK, NothingAfterFinish, InFlightOpen, NEW kind \in {"Apply", "Finish"}, Asks(kind)
  PROVE  /\ NothingAfterFinish'
         /\ kind = "Apply" => InFlightOpen'
         /\ \A g \in Gesture : g # inFlight => writers'[g] = writers[g]
<1>1. /\ inFlight \in Gesture /\ inFlight # Nil
      /\ \A g \in Gesture : writers[g] \in Seq(WriterMsg) /\ DOMAIN writers[g] = 1..Len(writers[g])
      /\ DOMAIN writers = Gesture
  BY DEF TypeOK, LoopTypeOK, StreamTypeOK, Asks
<1>2. PICK target : writers' = [writers EXCEPT ![inFlight] = Append(@, Command(kind, target))]
  BY DEF Asks
<1> DEFINE cmd == Command(kind, target)
<1>3. cmd.kind = kind /\ DOMAIN writers' = Gesture
  BY <1>1, <1>2, Commands
<1>4. writers'[inFlight] = Append(writers[inFlight], cmd) /\ \A g \in Gesture : g # inFlight => writers'[g] = writers[g]
  BY <1>1, <1>2
<1> HIDE DEF cmd
<1>5. /\ Len(writers'[inFlight]) = Len(writers[inFlight]) + 1
      /\ DOMAIN writers'[inFlight] = 1..Len(writers[inFlight]) + 1
      /\ writers'[inFlight][Len(writers[inFlight]) + 1] = cmd
      /\ \A i \in 1..Len(writers[inFlight]) : writers'[inFlight][i] = writers[inFlight][i]
  BY <1>1, <1>4
<1>6. \A i \in 1..Len(writers[inFlight]) : writers[inFlight][i].kind = "Apply"
  BY DEF InFlightOpen, Asks
<1>7. ASSUME NEW g \in Gesture, NEW i \in DOMAIN writers'[g], writers'[g][i].kind = "Finish"
      PROVE  i = Len(writers'[g])
  <2>1. CASE g = inFlight
    BY <1>1, <1>5, <1>6, <1>7, <2>1
  <2>2. CASE g # inFlight
    BY <1>4, <1>7, <2>2 DEF NothingAfterFinish
  <2> QED
    BY <2>1, <2>2
<1>8. NothingAfterFinish'
  BY <1>7 DEF NothingAfterFinish
<1>9. kind = "Apply" => InFlightOpen'
  BY <1>1, <1>3, <1>5, <1>6 DEF InFlightOpen, Asks
<1> QED
  BY <1>4, <1>8, <1>9

\* Running a command leaves the others in order.
LEMMA RunningKeeps ==
  ASSUME TypeOK, NothingAfterFinish, InFlightOpen, Runs, UNCHANGED <<inFlight, streamer>>
  PROVE  /\ NothingAfterFinish' /\ InFlightOpen'
         /\ \A g \in Gesture : writers[g] = <<>> => writers'[g] = <<>>
<1>1. PICK h \in Gesture : writers[h] # <<>> /\ writers' = [writers EXCEPT ![h] = Tail(@)]
  BY DEF Runs
<1>2. \A g \in Gesture : writers[g] \in Seq(WriterMsg) /\ DOMAIN writers[g] = 1..Len(writers[g])
  BY DEF TypeOK, StreamTypeOK
<1>3. writers'[h] = Tail(writers[h]) /\ \A g \in Gesture : g # h => writers'[g] = writers[g]
  BY <1>1 DEF TypeOK, StreamTypeOK
<1>4. /\ Len(writers'[h]) = Len(writers[h]) - 1 /\ Len(writers[h]) \in Nat \ {0}
      /\ DOMAIN writers'[h] = 1..Len(writers[h]) - 1
      /\ \A i \in 1..Len(writers[h]) - 1 : writers'[h][i] = writers[h][i + 1]
  <2> DEFINE q == writers[h]
  <2>1. q \in Seq(WriterMsg) /\ q # <<>> /\ writers'[h] = Tail(q)
    BY <1>1, <1>2, <1>3
  <2> HIDE DEF q
  <2>2. /\ Len(Tail(q)) = Len(q) - 1 /\ Len(q) \in Nat \ {0}
        /\ DOMAIN Tail(q) = 1..Len(q) - 1
        /\ \A i \in 1..Len(q) - 1 : Tail(q)[i] = q[i + 1]
    BY <2>1
  <2> QED
    BY <2>1, <2>2 DEF q
<1>5. ASSUME NEW g \in Gesture, NEW i \in DOMAIN writers'[g], writers'[g][i].kind = "Finish"
      PROVE  i = Len(writers'[g])
  <2>1. CASE g = h
    <3>0. i \in 1..Len(writers[h]) - 1 /\ writers'[h][i].kind = "Finish"
      BY <1>4, <1>5, <2>1
    <3>1. i + 1 \in DOMAIN writers[h] /\ writers[h][i + 1].kind = "Finish" /\ i \in Nat
      BY <1>2, <1>4, <3>0
    <3>2. i + 1 = Len(writers[h])
      BY <3>1 DEF NothingAfterFinish
    <3> QED
      BY <1>4, <2>1, <3>1, <3>2
  <2>2. CASE g # h
    BY <1>3, <1>5, <2>2 DEF NothingAfterFinish
  <2> QED
    BY <2>1, <2>2
<1>6. NothingAfterFinish'
  BY <1>5 DEF NothingAfterFinish
<1>7. InFlightOpen'
  <2> SUFFICES ASSUME streamer # Nil PROVE InFlightOpen'
    BY DEF InFlightOpen
  <2>1. CASE inFlight = h
    BY <1>4, <2>1 DEF InFlightOpen
  <2>2. CASE inFlight # h
    BY <1>3, <2>2 DEF InFlightOpen, TypeOK, LoopTypeOK
  <2> QED
    BY <2>1, <2>2
<1> QED
  BY <1>1, <1>3, <1>6, <1>7

\* The presses stay fresh while the writers of none but the begun are asked.
LEMMA FreshKept ==
  ASSUME TypeOK, PressesFresh, InFlightBegun, Next, ~Environment,
         \A g \in Gesture : writers[g] = <<>> => writers'[g] = <<>> \/ g = inFlight
  PROVE  PressesFresh' /\ (inFlight' \in {Nil, inFlight} => InFlightBegun')
<1>1. PICK k \in {0, 1} : /\ Len(frontend') + k <= Len(frontend)
                          /\ \A i \in 1..Len(frontend') : frontend'[i] = frontend[i + k]
  BY ChannelStep DEF MovesUp
<1>2. gesture' = gesture /\ gesture \in Nat
  BY ChannelStep DEF TypeOK, KeysTypeOK, Gesture
<1>3. frontend \in Seq(FrontendEvent) /\ Len(frontend) \in Nat /\ frontend' \in Seq(FrontendEvent) /\ Len(frontend') \in Nat
  <2>1. TypeOK'
    BY TypeStep
  <2> QED
    BY <2>1 DEF TypeOK, KeysTypeOK
<1>4. \A i \in Presses' : i + k \in Presses /\ frontend'[i] = frontend[i + k] /\ i \in Nat
  BY <1>1, <1>3 DEF Presses
<1>5. \A i \in Presses : frontend[i].gesture \in Gesture
  BY <1>3, EventFields DEF Presses
<1>6. \A i \in Presses : frontend[i].gesture # inFlight
  <2>1. \A i \in Presses : frontend[i].gesture # Nil
    BY <1>5, NilAssumption
  <2> QED
    BY <2>1 DEF InFlightBegun
<1>7. \A i \in Presses' : frontend'[i].gesture <= gesture' /\ writers'[frontend'[i].gesture] = <<>>
  BY <1>2, <1>4, <1>5, <1>6 DEF PressesFresh
<1>8. \A i, j \in Presses' : frontend'[i].gesture = frontend'[j].gesture => i = j
  <2> TAKE i, j \in Presses'
  <2>1. frontend'[i].gesture = frontend'[j].gesture => i + k = j + k
    BY <1>4 DEF PressesFresh
  <2> QED
    BY <1>4, <2>1
<1>9. \A g \in Gesture : g > gesture' => writers'[g] = <<>>
  <2> TAKE g \in Gesture
  <2>1. g > gesture => g # inFlight
    BY <1>2, NilAssumption DEF InFlightBegun, Gesture
  <2> QED
    BY <1>2, <2>1 DEF PressesFresh
<1>10. inFlight' \in {Nil, inFlight} => InFlightBegun'
  BY <1>2, <1>4, <1>6 DEF InFlightBegun
<1> QED
  BY <1>7, <1>8, <1>9, <1>10 DEF PressesFresh

\* A new event is a press of the next gesture, whose writer is idle.
LEMMA FreshGrows ==
  ASSUME TypeOK, WriterInv, Environment
  PROVE  WriterInv'
<1>1. PICK ev \in FrontendEvent :
        /\ frontend' = Append(frontend, ev)
        /\ \/ ev.kind = "KeyDown" /\ ev.gesture = gesture + 1 /\ gesture' = gesture + 1
           \/ ev.kind = "Chunk" /\ ev.gesture = gesture /\ gesture' = gesture
           \/ ev.kind \notin {"KeyDown", "Chunk"} /\ gesture' \in {gesture, gesture + 1}
  BY ChannelGrows
<1>2. UNCHANGED <<writers, inFlight, streamer>>
  BY ChannelGrows DEF supervisor, current, stream
<1>3. frontend \in Seq(FrontendEvent) /\ Len(frontend) \in Nat /\ gesture \in Nat
  BY DEF TypeOK, KeysTypeOK, Gesture
<1>4. /\ Len(frontend') = Len(frontend) + 1
      /\ frontend'[Len(frontend) + 1] = ev
      /\ \A i \in 1..Len(frontend) : frontend'[i] = frontend[i]
  BY <1>1, <1>3
<1>5. gesture' \in {gesture, gesture + 1} /\ gesture <= gesture'
  BY <1>1, <1>3
<1>6. \A i \in Presses' : \/ i \in Presses /\ frontend'[i] = frontend[i]
                          \/ /\ i = Len(frontend) + 1 /\ frontend'[i].gesture = gesture + 1
                             /\ gesture' = gesture + 1
  <2> TAKE i \in Presses'
  <2>1. i \in 1..Len(frontend) \/ i = Len(frontend) + 1
    BY <1>3, <1>4 DEF Presses
  <2>2. frontend'[i].kind = "KeyDown"
    BY DEF Presses
  <2> QED
    BY <1>1, <1>4, <2>1, <2>2 DEF Presses
<1>7. \A i \in Presses : frontend[i].gesture \in Gesture /\ frontend[i].gesture \in Nat /\ frontend[i].gesture <= gesture
  BY <1>3, EventFields DEF Presses, WriterInv, PressesFresh, Gesture
<1>8. \A i \in Presses' : frontend'[i].gesture <= gesture' /\ writers'[frontend'[i].gesture] = <<>>
  <2> TAKE i \in Presses'
  <2>1. CASE i \in Presses /\ frontend'[i] = frontend[i]
    BY <1>2, <1>3, <1>5, <1>7, <2>1 DEF WriterInv, PressesFresh
  <2>2. CASE i = Len(frontend) + 1 /\ frontend'[i].gesture = gesture + 1 /\ gesture' = gesture + 1
    <3>1. gesture' \in Gesture
      <4>1. TypeOK'
        BY TypeStep DEF Next
      <4> QED
        BY <4>1 DEF TypeOK, KeysTypeOK
    <3>2. gesture + 1 \in Gesture /\ gesture + 1 > gesture
      BY <1>3, <2>2, <3>1
    <3> QED
      BY <1>2, <1>3, <2>2, <3>2 DEF WriterInv, PressesFresh
  <2> QED
    BY <1>6, <2>1, <2>2
<1>9. \A i, j \in Presses' : frontend'[i].gesture = frontend'[j].gesture => i = j
  <2> TAKE i, j \in Presses'
  <2> HAVE frontend'[i].gesture = frontend'[j].gesture
  <2>1. \A n \in Presses : frontend[n].gesture # gesture + 1
    BY <1>3, <1>7
  <2> QED
    BY <1>6, <2>1 DEF WriterInv, PressesFresh
<1>10. PressesFresh'
  <2>1. \A g \in Gesture : g > gesture' => writers'[g] = <<>>
    BY <1>2, <1>3, <1>5 DEF WriterInv, PressesFresh, Gesture
  <2> QED
    BY <1>8, <1>9, <2>1 DEF PressesFresh
<1>11. InFlightBegun'
  <2> SUFFICES ASSUME inFlight # Nil
               PROVE  inFlight <= gesture' /\ \A i \in Presses' : frontend'[i].gesture # inFlight
    BY <1>2 DEF InFlightBegun
  <2>1. inFlight \in Nat /\ inFlight <= gesture
    BY DEF WriterInv, InFlightBegun, TypeOK, LoopTypeOK, Gesture
  <2> QED
    BY <1>3, <1>5, <1>6, <2>1 DEF WriterInv, InFlightBegun
<1>12. NothingAfterFinish' /\ InFlightOpen'
  BY <1>2 DEF WriterInv, NothingAfterFinish, InFlightOpen
<1> QED
  BY <1>10, <1>11, <1>12 DEF WriterInv

\* A release is a command to the writer in flight, or none when the streamer is dead.
LEMMA ReleaseAsks ==
  ASSUME TypeOK, streamer # Nil, NEW target \in Audio, Release(target), UNCHANGED inFlight
  PROVE  streamer' # Nil /\ (Asks("Apply") \/ UNCHANGED writers)
<1>1. streamer' # Nil
  BY ReleaseType, NilAssumption
<1> QED
  BY <1>1 DEF Release, ToWriter, Asks

\* The settle of an utterance is a Finish to its writer, or no command.
LEMMA FinishAsks ==
  ASSUME TypeOK, NEW text \in Audio, FinishStream(text), TakeUtterance
  PROVE  Asks("Finish") \/ UNCHANGED writers
<1>1. FinishTargets(text) \subseteq Audio \cup {Nil}
  BY DEF FinishTargets
<1> QED
  BY <1>1 DEF FinishStream, ToWriter, Asks, TakeUtterance

\* What every other step does to the writers and to the utterance in flight.
LEMMA WriterCases ==
  ASSUME TypeOK, Next, ~Environment, ~BeginUtterance
  PROVE  \/ Asks("Apply") /\ UNCHANGED inFlight
         \/ (Asks("Finish") \/ UNCHANGED writers) /\ streamer' = Nil /\ inFlight' = Nil
         \/ Runs /\ UNCHANGED <<inFlight, streamer>>
         \/ UNCHANGED <<writers, inFlight>> /\ (streamer' # Nil => streamer # Nil)
<1> USE DEF supervisor, stream, current
<1>1. CASE \/ RecognizerLoads \/ RecognizerDies \/ RecognizerGuesses \/ RecognizerAnswers
           \/ HotMicTimer \/ WarmTimer \/ DismissError \/ ReadsReadiness
  BY <1>1 DEF RecognizerLoads, RecognizerDies, RecognizerGuesses, RecognizerAnswers,
     Recognizing, HotMicTimer, WarmTimer, DismissError, ReadsReadiness, ReadReady, ReadFailure
<1>2. CASE StreamTimer
  <2>1. streamer.parked \in Audio
    BY <1>2 DEF StreamTimer, TypeOK, LoopTypeOK, Streamer
  <2> QED
    BY <1>2, <2>1, ReleaseAsks DEF StreamTimer
<1>3. CASE ReadsFrontend
  BY <1>3 DEF ReadsFrontend, RefuseKeyDown, MicFails, MutedKeyDown, IgnoreKeyUp, KeyUp,
     IgnoreChunk, Chunk, EndpointChunk, CaptureUp, CaptureIssue
<1>4. CASE ReadPartial
  <2>1. Head(answers).text \in Audio
    <3>1. Head(answers) \in AsrEvent
      BY <1>4, ReadAnswerType DEF ReadPartial, TypeOK
    <3> QED
      BY <3>1 DEF AsrEvent
  <2>2. CASE streamer = Nil
    BY <1>4, <2>2 DEF ReadPartial
  <2>3. CASE streamer # Nil /\ Release(Head(answers).text)
    BY <1>4, <2>1, <2>3, ReleaseAsks DEF ReadPartial
  <2>4. CASE streamer # Nil /\ ~Release(Head(answers).text)
    BY <1>4, <2>4 DEF ReadPartial, Stream
  <2> QED
    BY <2>2, <2>3, <2>4
<1>5. CASE AsrClosed \/ StrayFinal
  BY <1>5 DEF AsrClosed, StrayFinal
<1>6. CASE FinalFault
  BY <1>6 DEF FinalFault, TakeUtterance
<1>7. CASE FinalEmpty \/ FinalText
  <2>1. PICK text \in Audio : FinishStream(text) /\ TakeUtterance
    <3>1. {} \in Audio
      BY DEF Audio
    <3>2. Head(answers).text \in Audio
      <4>1. Head(answers) \in AsrEvent
        BY <1>7, ReadAnswerType DEF FinalEmpty, FinalText, ReadFinal, TypeOK
      <4> QED
        BY <4>1 DEF AsrEvent
    <3> QED
      BY <1>7, <3>1, <3>2 DEF FinalEmpty, FinalText
  <2> QED
    BY <2>1, FinishAsks DEF TakeUtterance
<1>8. CASE ReadsStream
  BY <1>8 DEF ReadsStream, ReadWriteDone, StrayFinished, SettleStream, FallBack, ReadFinished
<1>9. CASE DeliveryEnds
  BY <1>9 DEF DeliveryEnds, Delivered
<1>10. CASE \E g \in Gesture : WriterSteps(g)
  BY <1>10 DEF WriterSteps, WriterApplies, WriterFinishes, WriterPanics, WriterRuns, Runs
<1> QED
  BY <1>1, <1>2, <1>3, <1>4, <1>5, <1>6, <1>7, <1>8, <1>9, <1>10 DEF Next, ReadsAnswers

\* WriterInv is inductive.
LEMMA WriterStep ==
  ASSUME TypeOK, WriterInv, Next
  PROVE  WriterInv'
<1> USE DEF WriterInv
<1>1. CASE Environment
  BY <1>1, FreshGrows
<1>2. CASE BeginUtterance
  <2>1. ~Environment /\ inFlight = Nil /\ UNCHANGED writers
    <3>1. frontend # <<>> /\ frontend' = Tail(frontend) /\ frontend \in Seq(FrontendEvent)
      BY <1>2 DEF BeginUtterance, AcceptKeyDown, ReadFrontend, FrontendArm, TypeOK, KeysTypeOK
    <3>2. Len(frontend') # Len(frontend) + 1
      BY <3>1
    <3>3. ~Environment
      BY <3>1, <3>2, ChannelGrows
    <3> QED
      BY <1>2, <3>3 DEF BeginUtterance, AcceptKeyDown, stream
  <2>2. PressesFresh'
    BY <2>1, FreshKept
  <2>3. /\ frontend \in Seq(FrontendEvent) /\ frontend # <<>> /\ frontend' = Tail(frontend)
        /\ Head(frontend).kind = "KeyDown" /\ inFlight' = Head(frontend).gesture /\ gesture' = gesture
    BY <1>2 DEF BeginUtterance, AcceptKeyDown, ReadFrontend, FrontendArm, TypeOK, KeysTypeOK, keys
  <2>4. 1 \in Presses /\ Head(frontend) = frontend[1]
    BY <2>3 DEF Presses
  <2>5. \A i \in Presses' : i + 1 \in Presses /\ i + 1 # 1 /\ frontend'[i] = frontend[i + 1]
    BY <2>3 DEF Presses
  <2>6. InFlightBegun'
    BY <2>3, <2>4, <2>5 DEF InFlightBegun, PressesFresh
  <2>7. writers'[inFlight'] = <<>>
    BY <2>1, <2>3, <2>4 DEF PressesFresh
  <2>8. NothingAfterFinish' /\ InFlightOpen'
    BY <2>1, <2>7 DEF NothingAfterFinish, InFlightOpen
  <2> QED
    BY <2>2, <2>6, <2>8
<1>3. CASE ~Environment /\ ~BeginUtterance
  <2>1. CASE Asks("Apply") /\ UNCHANGED inFlight
    BY <1>3, <2>1, AskingKeeps, FreshKept
  <2>2. CASE Asks("Finish") /\ streamer' = Nil /\ inFlight' = Nil
    BY <1>3, <2>2, AskingKeeps, FreshKept DEF InFlightOpen
  <2>3. CASE UNCHANGED writers /\ streamer' = Nil /\ inFlight' = Nil
    BY <1>3, <2>3, FreshKept DEF InFlightOpen, NothingAfterFinish
  <2>4. CASE Runs /\ UNCHANGED <<inFlight, streamer>>
    BY <1>3, <2>4, RunningKeeps, FreshKept
  <2>5. CASE UNCHANGED <<writers, inFlight>> /\ (streamer' # Nil => streamer # Nil)
    BY <1>3, <2>5, FreshKept DEF InFlightOpen, NothingAfterFinish
  <2> QED
    BY <1>3, <2>1, <2>2, <2>3, <2>4, <2>5, WriterCases
<1> QED
  BY <1>1, <1>2, <1>3

\* The settle is the last thing a writer is asked for: whatever the order of
\* partials, completions and presses, a session is written to by its own
\* utterance only, and never after its Finish.
THEOREM WritersEndWithFinish == Spec => []NothingAfterFinish
<1>1. Init => WriterInv
  BY DEF Init, WriterInv, NothingAfterFinish, PressesFresh, InFlightBegun, InFlightOpen, Presses
<1>2. TypeOK /\ WriterInv /\ [Next]_vars => WriterInv'
  <2> SUFFICES ASSUME TypeOK, WriterInv, [Next]_vars PROVE WriterInv'
    OBVIOUS
  <2>1. CASE UNCHANGED vars
    BY <2>1 DEF WriterInv, NothingAfterFinish, PressesFresh, InFlightBegun, InFlightOpen, Presses,
                vars, keys, current, stream
  <2> QED
    BY <2>1, WriterStep
<1>3. WriterInv => NothingAfterFinish
  BY DEF WriterInv
<1> QED
  BY <1>1, <1>2, <1>3, TypeCorrect, PTL DEF Spec

-----------------------------------------------------------------------------
(***************************************************************************)
(* Buffered dictation: without streaming no writer is ever asked for       *)
(* anything, and every text is delivered in one piece.                     *)
(***************************************************************************)
NoStream ==
  /\ streamer = Nil /\ pendingFinal = Nil
  /\ \A g \in Gesture : writers[g] = <<>> /\ region[g] = {}

\* Without streaming the writers, their regions and the streamer stay empty.
LEMMA BufferedOnly ==
  ASSUME ~MayStream
  PROVE  Spec => []NoStream
<1>1. Init => NoStream
  BY DEF Init, NoStream
<1>2. TypeOK /\ NoStream /\ [Next]_vars => NoStream'
  <2> SUFFICES ASSUME TypeOK, NoStream, [Next]_vars PROVE NoStream'
    OBVIOUS
  <2> USE DEF NoStream, supervisor, stream, current, outcome
  <2>1. CASE UNCHANGED vars
    BY <2>1 DEF vars
  <2>2. CASE Environment
    BY <2>2 DEF Environment, PressKey, ReleaseKey, PausedGesture, ReportCapture, RecordChunk
  <2>3. CASE \/ RecognizerLoads \/ RecognizerDies \/ RecognizerGuesses \/ RecognizerAnswers
             \/ HotMicTimer \/ WarmTimer \/ StreamTimer \/ DismissError \/ ReadsReadiness
    BY <2>3 DEF RecognizerLoads, RecognizerDies, RecognizerGuesses, RecognizerAnswers,
       Recognizing, HotMicTimer, WarmTimer, StreamTimer, DismissError, ReadsReadiness, ReadReady,
       ReadFailure
  <2>4. CASE ReadsFrontend
    BY <2>4 DEF ReadsFrontend, RefuseKeyDown, MicFails, MutedKeyDown, BeginUtterance, IgnoreKeyUp,
       KeyUp, IgnoreChunk, Chunk, EndpointChunk, CaptureUp, CaptureIssue
  <2>5. CASE ReadsAnswers
    BY <2>5 DEF ReadsAnswers, ReadPartial, AsrClosed, StrayFinal, FinalFault, FinalEmpty, FinalText,
       TakeUtterance, FinishStream
  <2>6. CASE ReadsStream \/ DeliveryEnds
    BY <2>6 DEF ReadsStream, ReadWriteDone, StrayFinished, SettleStream, FallBack, ReadFinished,
       DeliveryEnds, Delivered
  <2>7. CASE \E g \in Gesture : WriterSteps(g)
    BY <2>7 DEF WriterSteps, WriterApplies, WriterFinishes, WriterPanics, WriterRuns
  <2> QED
    BY <2>1, <2>2, <2>3, <2>4, <2>5, <2>6, <2>7 DEF Next
<1> QED
  BY <1>1, <1>2, TypeCorrect, PTL DEF Spec

-----------------------------------------------------------------------------
(***************************************************************************)
(* The panel.                                                              *)
(***************************************************************************)
\* OverlayTruthful is inductive with FinInv, by which a Final finds the utterance
\* it settles, no longer listened to, and with what the loop's order gives: nothing
\* is begun while a delivery is awaited, and a press during the load is remembered.
\* A streamed utterance settles while the next one is dictated: hence MayStream.
OverlayInv ==
  /\ OverlayTruthful
  /\ delivering # Nil => inFlight = Nil
  /\ ~recognizerReady /\ listening => pendingListen

\* The edges of the panel's states that the supervisor relies on.
LEMMA Edges ==
  ASSUME NEW e \in Engine
  PROVE  /\ Show(e, "Idle").state = "Idle"
         /\ e.state \in {"Listening", "Transcribing", "Injecting"} => Show(e, "Error").state = "Error"
         /\ \A next \in OverlayState : Show(e, next).state \in {e.state, next}
         /\ e.state = "Idle" => Show(e, "Listening").state = "Listening"
         /\ e.state = "Listening" => Show(e, "Transcribing").state = "Transcribing"
         /\ e.state = "Idle" => Show(e, "ModelLoading").state = "ModelLoading"
BY DEF Engine, OverlayState, Show, CanShow, AllowedTransitions

\* The panel when an utterance is committed, resumed and roused.
LEMMA Panels ==
  ASSUME NEW e \in Engine
  PROVE  /\ Committed(e).state = IF e.state = "Listening" THEN "Transcribing" ELSE e.state
         /\ Roused(e).state = IF e.state \in ErrorShaped THEN "Idle" ELSE e.state
         /\ e.state = "Idle" =>
              Resumed(e).state = IF pendingListen /\ listening THEN "Listening"
                                 ELSE IF pendingListen /\ inFlight # Nil THEN "Transcribing" ELSE "Idle"
<1>1. Committed(e).state = IF e.state = "Listening" THEN "Transcribing" ELSE e.state
  BY Edges DEF Committed
<1>2. Roused(e).state = IF e.state \in ErrorShaped THEN "Idle" ELSE e.state
  BY Edges DEF Roused
<1>3. ASSUME e.state = "Idle"
      PROVE  Resumed(e).state = IF pendingListen /\ listening THEN "Listening"
                                ELSE IF pendingListen /\ inFlight # Nil THEN "Transcribing" ELSE "Idle"
  <2>1. Show(e, "Listening").state = "Listening" /\ Show(e, "Listening") \in Engine
    BY <1>3, Edges, Shows
  <2>2. Show(Show(e, "Listening"), "Transcribing").state = "Transcribing"
    BY <2>1, Edges
  <2> QED
    BY <1>3, <2>1, <2>2 DEF Resumed
<1> QED
  BY <1>1, <1>2, <1>3

\* What a step must leave: a panel that claims no more than is under way.
LEMMA PanelKept ==
  ASSUME OverlayInv, UNCHANGED <<delivering, pendingFinal, inFlight, recognizerReady, pendingListen>>,
         \/ listening' = listening /\ running' = running /\ engine'.state = engine.state
         \/ listening' = listening /\ ~running' /\ engine'.state \in {engine.state, "Error"}
         \/ ~listening' /\ engine'.state \in {"Idle", "Error", "ModelLoading"}
         \/ ~listening' /\ inFlight # Nil /\ engine'.state = "Transcribing"
         \/ ~listening /\ ~listening' /\ engine'.state = engine.state
  PROVE  OverlayInv'
BY DEF OverlayInv, OverlayTruthful

\* A Final is read when its utterance is in flight and no longer listened to.
LEMMA FinalFound ==
  ASSUME TypeOK, FinInv, ReadFinal
  PROVE  inFlight # Nil /\ ~listening /\ Unanswered = 1 /\ Unanswered' = 0
<1>1. Unanswered = IF inFlight # Nil /\ ~listening THEN 1 ELSE 0
  BY DEF FinInv, FinalizeMatches, Unanswered
<1> QED
  BY <1>1, CountSteps DEF ReadFinal

\* OverlayInv is inductive: the panel and the phase of the utterance move together.
LEMMA OverlayStep ==
  ASSUME ~MayMute, ~AutoEndpoint, NoStream, TypeOK, TypeOK', FinInv, OverlayInv, Next
  PROVE  OverlayInv'
<1> USE DEF supervisor, stream, current, outcome, loading
<1>0. engine \in Engine /\ engine' \in Engine /\ listening \in BOOLEAN /\ listening' \in BOOLEAN
      /\ running \in BOOLEAN /\ running' \in BOOLEAN /\ "Error" \in OverlayState
  BY DEF TypeOK, LoopTypeOK, OverlayState
<1>1. CASE \/ Environment
           \/ RecognizerLoads \/ RecognizerDies \/ RecognizerGuesses \/ RecognizerAnswers
           \/ \E g \in Gesture : WriterSteps(g)
  BY <1>1, PanelKept DEF Environment, PressKey, ReleaseKey, PausedGesture, ReportCapture, RecordChunk,
     RecognizerLoads, RecognizerDies, RecognizerGuesses, RecognizerAnswers, Recognizing,
     WriterSteps, WriterApplies, WriterFinishes, WriterPanics, WriterRuns
<1>2. CASE RefuseKeyDown \/ IgnoreKeyUp \/ IgnoreChunk \/ Chunk \/ CaptureUp \/ AsrClosed \/ StrayFinal
  BY <1>2, PanelKept DEF RefuseKeyDown, IgnoreKeyUp, IgnoreChunk, Chunk, CaptureUp, AsrClosed, Return,
     StrayFinal
<1>3. CASE StreamTimer \/ SettleStream \/ FallBack
  BY <1>3 DEF StreamTimer, SettleStream, FallBack, NoStream
<1>4. CASE ReadPartial \/ ReadWriteDone \/ StrayFinished
  BY <1>4, PanelKept DEF ReadPartial, ReadWriteDone, StrayFinished, ReadFinished, NoStream
<1>5. CASE HotMicTimer
  <2>1. listening /\ inFlight # Nil /\ running /\ engine.state \in {"Listening", "ModelLoading"}
    BY <1>5 DEF HotMicTimer, Awake, FinInv, OverlayInv, OverlayTruthful
  <2>2. Committed(engine).state \in {"Transcribing", "ModelLoading"} /\ Committed(engine) \in Engine
    BY <1>0, <2>1, Panels, EngineOps
  <2>3. Show(Committed(engine), "Error").state \in {"Transcribing", "ModelLoading", "Error"}
    BY <1>0, <2>2, Edges
  <2>4. ~listening' /\ engine'.state \in {"Transcribing", "ModelLoading", "Error"}
    BY <1>5, <2>2, <2>3 DEF HotMicTimer, StopCapture
  <2> QED
    BY <1>5, <2>1, <2>4, PanelKept DEF HotMicTimer
<1>6. CASE WarmTimer
  BY <1>0, <1>6, PanelKept DEF WarmTimer, StopCapture
<1>7. CASE DismissError
  <2>1. ~listening /\ engine'.state = "Idle"
    BY <1>0, <1>7, Edges DEF DismissError, Awake, OverlayInv, OverlayTruthful
  <2> QED
    BY <1>7, <2>1, PanelKept DEF DismissError
<1>8. CASE ReadReady
  <2>1. Show(engine, "Idle").state = "Idle" /\ Show(engine, "Idle") \in Engine
    BY <1>0, Edges, Shows
  <2>2. engine'.state = IF pendingListen /\ listening THEN "Listening"
                        ELSE IF pendingListen /\ inFlight # Nil THEN "Transcribing" ELSE "Idle"
    BY <1>8, <2>1, Panels DEF ReadReady
  <2>3. listening => pendingListen
    BY <1>8 DEF ReadReady, ReadyArm, OverlayInv
  <2> QED
    BY <1>0, <1>8, <2>2, <2>3 DEF ReadReady, OverlayInv, OverlayTruthful, FinInv
<1>9. CASE ReadFailure
  <2>1. Show(engine, "Error").state \in {engine.state, "Error"}
    BY <1>0, Edges
  <2> QED
    BY <1>0, <1>9, <2>1 DEF ReadFailure, Return, OverlayInv, OverlayTruthful
<1>10. CASE MicFails
  <2>1. inFlight = Nil /\ ~listening /\ delivering = Nil
    BY <1>10 DEF MicFails, AcceptKeyDown, ReadFrontend, FrontendArm, Awake, FinInv
  <2>2. Roused(engine).state \in {engine.state, "Idle"} /\ Roused(engine) \in Engine
    BY <1>0, Panels, EngineOps
  <2>3. engine'.state \in {engine.state, "Idle", "Error"}
    BY <1>0, <1>10, <2>2, Edges DEF MicFails
  <2> QED
    BY <1>10, <2>1, <2>3, PanelKept DEF MicFails
<1>11. CASE BeginUtterance
  <2>1. inFlight = Nil /\ ~listening /\ delivering = Nil
    BY <1>11 DEF BeginUtterance, AcceptKeyDown, ReadFrontend, FrontendArm, Awake, FinInv
  <2>2. engine.state \in {"ModelLoading", "Idle"} \cup ErrorShaped
    BY <1>0, <2>1 DEF Engine, OverlayState, ErrorShaped, NoStream, OverlayInv, OverlayTruthful
  <2>3. Roused(engine).state \in {"ModelLoading", "Idle"} /\ Roused(engine) \in Engine
    BY <1>0, <2>2, Panels, EngineOps
  <2>4. engine'.state \in {"Listening", "ModelLoading"}
    <3>1. "Listening" \in OverlayState /\ "ModelLoading" \in OverlayState
      BY DEF OverlayState
    <3>2. \A next \in {"Listening", "ModelLoading"} :
            Show(Roused(engine), next).state \in {Roused(engine).state, next}
            /\ (Roused(engine).state = "Idle" => Show(Roused(engine), next).state = next)
      BY <2>3, <3>1, Edges
    <3> QED
      BY <1>11, <2>3, <3>2 DEF BeginUtterance
  <2>5. inFlight' # Nil /\ listening'
    BY <1>11, ReadFrontendType, EventFields, NilAssumption DEF BeginUtterance, AcceptKeyDown
  <2> QED
    BY <1>11, <2>1, <2>4, <2>5 DEF BeginUtterance, OverlayInv, OverlayTruthful
<1>12. CASE KeyUp
  <2>1. listening /\ inFlight # Nil /\ running /\ engine.state \in {"Listening", "ModelLoading"}
    BY <1>12 DEF KeyUp, FrontendArm, Awake, OverlayInv, OverlayTruthful
  <2>2. Committed(engine).state \in {"Transcribing", "ModelLoading"} /\ Committed(engine) \in Engine
    BY <1>0, <2>1, Panels, EngineOps
  <2>3. Show(Committed(engine), "Error").state \in {"Transcribing", "ModelLoading", "Error"}
    BY <1>0, <2>2, Edges
  <2>4. ~listening' /\ engine'.state \in {"Transcribing", "ModelLoading", "Error"}
    BY <1>12, <2>2, <2>3 DEF KeyUp, StopCapture
  <2> QED
    BY <1>12, <2>1, <2>4, PanelKept DEF KeyUp
<1>13. CASE CaptureIssue
  <2>1. CASE engine.state = "Idle" /\ engine' = Show(engine, "Error")
    <3>1. engine'.state \in {"Idle", "Error"} /\ ~listening
      BY <1>0, <1>13, <2>1, Edges DEF CaptureIssue, ReadFrontend, FrontendArm, Awake, OverlayInv, OverlayTruthful
    <3> QED
      BY <1>13, <3>1, PanelKept DEF CaptureIssue, capture
  <2>2. CASE UNCHANGED engine
    BY <1>13, <2>2, PanelKept DEF CaptureIssue
  <2> QED
    BY <1>13, <2>1, <2>2 DEF CaptureIssue
<1>14. CASE FinalFault \/ FinalEmpty
  <2>1. ~listening /\ inFlight' = Nil /\ listening' = listening /\ delivering = Nil
    BY <1>14, FinalFound DEF FinalFault, FinalEmpty, TakeUtterance, ReadFinal, AsrArm, Awake
  <2>2. engine'.state \notin {"Listening", "Transcribing", "Injecting"}
    <3>1. Show(engine, "Idle").state = "Idle"
          /\ (engine.state \in {"Transcribing", "Injecting"} => Show(engine, "Error").state = "Error")
          /\ Show(engine, "Error").state \in {engine.state, "Error"}
      BY <1>0, Edges
    <3> QED
      BY <1>14, <2>1, <3>1 DEF FinalFault, FinalEmpty, OverlayInv, OverlayTruthful
  <2> QED
    BY <1>14, <2>1, <2>2 DEF FinalFault, FinalEmpty, TakeUtterance, OverlayInv, OverlayTruthful
<1>15. CASE FinalText
  <2>1. ~listening /\ inFlight' = Nil /\ listening' = listening /\ streamer = Nil
    BY <1>15, FinalFound DEF FinalText, TakeUtterance, NoStream
  <2>2. delivering' # Nil
    <3>1. delivering' = Result
      BY <1>15, <2>1 DEF FinalText
    <3>2. Result \in Utterance
      BY <1>15, ReadAnswerType DEF FinalText, ReadFinal, TakeUtterance, TypeOK, LoopTypeOK, Result, Utterance, AsrEvent
    <3> QED
      BY <3>1, <3>2, NilAssumption
  <2>3. engine'.state \notin {"Listening", "Transcribing"}
    <3>1. Show(engine, "Injecting").state \in {engine.state, "Injecting"}
          /\ (engine.state = "Transcribing" => Show(engine, "Injecting").state = "Injecting")
      BY <1>0 DEF Engine, OverlayState, Show, CanShow, AllowedTransitions
    <3> QED
      BY <1>15, <2>1, <3>1 DEF FinalText, OverlayInv, OverlayTruthful
  <2> QED
    BY <1>15, <2>1, <2>2, <2>3 DEF FinalText, OverlayInv, OverlayTruthful
<1>16. CASE DeliveryEnds
  <2>1. PICK wrote \in BOOLEAN, rest \in {"Idle", "Error"} : Delivered(wrote, rest)
    BY <1>16 DEF DeliveryEnds
  <2>2. delivering # Nil /\ delivering' = Nil /\ inFlight = Nil /\ ~listening /\ UNCHANGED current
    BY <2>1 DEF Delivered, OverlayInv, FinInv
  <2>3. engine'.state \notin {"Listening", "Transcribing", "Injecting"}
    <3>1. engine.state \notin {"Listening", "Transcribing"}
      BY <2>2 DEF OverlayInv, OverlayTruthful
    <3>2. engine'.state = rest \/ (engine.state # "Injecting" /\ engine'.state \in {engine.state, rest})
      BY <1>0, <2>1, Edges DEF Delivered, OverlayState
    <3> QED
      BY <3>1, <3>2
  <2> QED
    BY <2>1, <2>2, <2>3 DEF Delivered, OverlayInv, OverlayTruthful
<1> QED
  BY <1>1, <1>2, <1>3, <1>4, <1>5, <1>6, <1>7, <1>8, <1>9, <1>10, <1>11, <1>12, <1>13, <1>14, <1>15, <1>16
  DEF Next, ReadsReadiness, ReadsFrontend, ReadsAnswers, ReadsStream, MutedKeyDown, EndpointChunk

\* Where every utterance is buffered and dictated in full, the panel never claims
\* a phase that is not under way, the load and a closing microphone included.
THEOREM OverlayAlwaysTruthful ==
  ASSUME ~MayMute, ~AutoEndpoint, ~MayStream
  PROVE  Spec => []OverlayTruthful
<1>1. Init => OverlayInv
  BY DEF Init, NewEngine, OverlayInv, OverlayTruthful
<1>2. TypeOK /\ TypeOK' /\ NoStream /\ FinInv /\ OverlayInv /\ [Next]_vars => OverlayInv'
  <2> SUFFICES ASSUME TypeOK, TypeOK', NoStream, FinInv, OverlayInv, [Next]_vars PROVE OverlayInv'
    OBVIOUS
  <2>1. CASE UNCHANGED vars
    BY <2>1 DEF OverlayInv, OverlayTruthful, vars, current, loading, outcome
  <2> QED
    BY <2>1, OverlayStep
<1>3. OverlayInv => OverlayTruthful
  BY DEF OverlayInv
<1> QED
  BY <1>1, <1>2, <1>3, FinInvCorrect, BufferedOnly, TypeCorrect, PTL DEF Spec

-----------------------------------------------------------------------------
(***************************************************************************)
(* The words.                                                              *)
(***************************************************************************)
\* Words are of the gestures they were spoken in.  Those on their way from the
\* recognizer's ear to the Final that settles them, a partial's among them, and
\* those of the texts written or due to be:
Words(o, c, a) ==
  o \cup (UNION {c[i] : i \in 1..Len(c)}) \cup (UNION {a[i].text : i \in 1..Len(a)})

Spoken == Words(open, closed, answers)

TextOf(u) == IF u = Nil THEN {} ELSE u.text

Texts(d, p, t) == TextOf(d) \cup TextOf(p) \cup (UNION {t[i].text : i \in 1..Len(t)})

Settled == Texts(delivering, pendingFinal, typed)

\* The presses and chunks not read yet are in the order of their gestures, and a
\* press comes before all audio of its own.
Stamped == {i \in 1..Len(frontend) : frontend[i].kind \in {"KeyDown", "Chunk"}}

NotAfter(w, ev) == w <= ev.gesture /\ (ev.kind = "KeyDown" => w < ev.gesture)

QueueOrdered ==
  /\ \A i \in Stamped : frontend[i].gesture <= gesture
  /\ \A i, j \in Stamped : i < j => NotAfter(frontend[i].gesture, frontend[j])

WordsOrdered ==
  \A w \in Spoken \cup Settled :
    w <= gesture /\ \A i \in Stamped : NotAfter(w, frontend[i])

\* What is heard is the utterance's in flight, what was settled is older than it.
UtteranceOwns ==
  /\ inFlight # Nil => /\ inFlight <= gesture
                       /\ \A i \in Stamped : inFlight <= frontend[i].gesture
                       /\ \A w \in Spoken : w >= inFlight
                       /\ \A w \in Settled : w < inFlight
  /\ inFlight = Nil => Spoken = {}
  /\ ~listening => open = {}

\* Nothing is said of an utterance after its Final.
FinalLast == \A i \in 1..Len(answers) : answers[i].kind = "Final" => i = Len(answers)

\* No word is in two texts, those still due included.
TextsApart ==
  /\ NeverTwice
  /\ TextOf(delivering) \cap TextOf(pendingFinal) = {}
  /\ \A i \in DOMAIN typed : typed[i].text \cap (TextOf(delivering) \cup TextOf(pendingFinal)) = {}

\* What a writer has put in its field or will, has no words from before its press.
StreamOwns ==
  /\ streamer # Nil /\ streamer.parked # Nil => \A w \in streamer.parked : w >= inFlight
  /\ \A g \in Gesture : \A i \in DOMAIN writers[g] :
       writers[g][i].target # Nil => \A w \in writers[g][i].target : w >= g

\* OwnWordsOnce is inductive with this order, in which an utterance begins with
\* nothing heard yet, and ends with nothing left to say of it.
WordsInv ==
  /\ OwnWords /\ TextsApart /\ StreamOwns
  /\ QueueOrdered /\ WordsOrdered /\ UtteranceOwns /\ FinalLast

\* Where a spoken word is.
LEMMA WordsAre ==
  ASSUME NEW o, NEW c, NEW a, NEW w
  PROVE  w \in Words(o, c, a) <=>
           \/ w \in o
           \/ \E i \in 1..Len(c) : w \in c[i]
           \/ \E i \in 1..Len(a) : w \in a[i].text
<1> DEFINE A == UNION {c[i] : i \in 1..Len(c)}
           B == UNION {a[i].text : i \in 1..Len(a)}
<1>1. w \in A <=> \E i \in 1..Len(c) : w \in c[i]
  OBVIOUS
<1>2. w \in B <=> \E i \in 1..Len(a) : w \in a[i].text
  OBVIOUS
<1>3. w \in Words(o, c, a) <=> w \in o \/ w \in A \/ w \in B
  BY DEF Words
<1> HIDE DEF A, B
<1> QED
  BY <1>1, <1>2, <1>3

\* The same of the words spoken, before a step and after it.
LEMMA SpokenIs ==
  /\ \A w : w \in Spoken <=> \/ w \in open
                             \/ \E i \in 1..Len(closed) : w \in closed[i]
                             \/ \E i \in 1..Len(answers) : w \in answers[i].text
  /\ \A w : w \in Spoken' <=> \/ w \in open'
                              \/ \E i \in 1..Len(closed') : w \in closed'[i]
                              \/ \E i \in 1..Len(answers') : w \in answers'[i].text
BY WordsAre DEF Spoken

\* Where a settled word is.
LEMMA TextsAre ==
  ASSUME NEW d, NEW p, NEW t, NEW w
  PROVE  w \in Texts(d, p, t) <=>
           \/ w \in TextOf(d)
           \/ w \in TextOf(p)
           \/ \E i \in 1..Len(t) : w \in t[i].text
<1> DEFINE A == UNION {t[i].text : i \in 1..Len(t)}
<1>1. w \in A <=> \E i \in 1..Len(t) : w \in t[i].text
  OBVIOUS
<1>2. w \in Texts(d, p, t) <=> w \in TextOf(d) \/ w \in TextOf(p) \/ w \in A
  BY DEF Texts
<1> HIDE DEF A
<1> QED
  BY <1>1, <1>2

\* The same of the words settled.
LEMMA SettledIs ==
  /\ \A w : w \in Settled <=> \/ w \in TextOf(delivering)
                              \/ w \in TextOf(pendingFinal)
                              \/ \E i \in 1..Len(typed) : w \in typed[i].text
  /\ \A w : w \in Settled' <=> \/ w \in TextOf(delivering')
                               \/ w \in TextOf(pendingFinal')
                               \/ \E i \in 1..Len(typed') : w \in typed'[i].text
BY TextsAre DEF Settled

\* Words are gestures, and a Nat each.
LEMMA WordTypes ==
  ASSUME TypeOK
  PROVE  /\ Spoken \subseteq Nat /\ Settled \subseteq Nat
         /\ gesture \in Nat /\ (inFlight # Nil => inFlight \in Nat)
         /\ \A i \in Stamped : frontend[i].gesture \in Nat /\ frontend[i].gesture \in Gesture
<1>1. Gesture \subseteq Nat
  BY DEF Gesture
<1>2. Spoken \subseteq Gesture
  <2>1. open \subseteq Gesture
    BY DEF TypeOK, RecognizerTypeOK, Audio
  <2>2. \A i \in 1..Len(closed) : closed[i] \subseteq Gesture
    BY DEF TypeOK, RecognizerTypeOK, Audio
  <2>3. \A i \in 1..Len(answers) : answers[i].text \subseteq Gesture
    <3>1. \A i \in 1..Len(answers) : answers[i] \in AsrEvent
      BY DEF TypeOK, RecognizerTypeOK
    <3> QED
      BY <3>1 DEF AsrEvent, Audio
  <2> QED
    BY <2>1, <2>2, <2>3, SpokenIs
<1>3. Settled \subseteq Gesture
  <2>1. \A i \in 1..Len(typed) : typed[i] \in Utterance
    BY DEF TypeOK, LoopTypeOK
  <2>2. \A u \in Utterance : u.text \subseteq Gesture
    BY DEF Utterance, Audio
  <2>3. TextOf(delivering) \subseteq Gesture /\ TextOf(pendingFinal) \subseteq Gesture
    BY <2>2 DEF TypeOK, LoopTypeOK, TextOf
  <2> QED
    BY <2>1, <2>2, <2>3, SettledIs
<1>4. \A i \in Stamped : frontend[i].gesture \in Gesture
  <2>1. \A i \in Stamped : frontend[i] \in FrontendEvent
    BY DEF TypeOK, KeysTypeOK, Stamped
  <2> QED
    BY <2>1, EventFields DEF Stamped
<1> QED
  BY <1>1, <1>2, <1>3, <1>4 DEF TypeOK, KeysTypeOK, LoopTypeOK

\* What the recognizer's steps do to the words spoken.
LEMMA SpokenSteps ==
  ASSUME TypeOK
  PROVE  /\ \A audio : Feed(audio) \/ Finalize(audio) => Spoken' = Spoken \cup audio
         /\ \A ok \in BOOLEAN, text \in Audio : EmitFinal(ok, text) => Spoken' \subseteq Spoken
         /\ \A text \in Audio : EmitPartial(text) => Spoken' \subseteq Spoken
         /\ ReadAnswer => Spoken' \subseteq Spoken
         /\ ReadAnswer => Head(answers).text \subseteq Spoken
         /\ UNCHANGED <<open, closed, answers>> => Spoken' = Spoken
<1>1. answers \in Seq(AsrEvent) /\ closed \in Seq(Audio) /\ Len(closed) \in Nat /\ Len(answers) \in Nat
  BY DEF TypeOK, RecognizerTypeOK
<1>2. ASSUME NEW audio, Feed(audio) PROVE Spoken' = Spoken \cup audio
  <2>1. \A w : w \in Spoken' <=> w \in Spoken \/ w \in audio
    BY <1>2, SpokenIs DEF Feed
  <2> QED
    BY <2>1
<1>3. ASSUME NEW audio, Finalize(audio) PROVE Spoken' = Spoken \cup audio
  <2>1. /\ Len(closed') = Len(closed) + 1 /\ closed'[Len(closed) + 1] = open \cup audio
        /\ \A i \in 1..Len(closed) : closed'[i] = closed[i]
    <3> DEFINE heard == open \cup audio
    <3>1. closed' = Append(closed, heard)
      BY <1>3 DEF Finalize
    <3> HIDE DEF heard
    <3>2. /\ Len(closed') = Len(closed) + 1 /\ closed'[Len(closed) + 1] = heard
          /\ \A i \in 1..Len(closed) : closed'[i] = closed[i]
      BY <1>1, <3>1
    <3> QED
      BY <3>2 DEF heard
  <2>2. \A i \in 1..Len(closed') : i \in 1..Len(closed) \/ closed'[i] = open \cup audio
    BY <1>1, <2>1
  <2>3. Len(closed) + 1 \in 1..Len(closed') /\ \A i \in 1..Len(closed) : i \in 1..Len(closed')
    BY <1>1, <2>1
  <2>4. open' = {} /\ answers' = answers
    BY <1>3 DEF Finalize
  <2>5. \A w : w \in Spoken' <=> w \in Spoken \/ w \in audio
    BY <2>1, <2>2, <2>3, <2>4, SpokenIs
  <2> QED
    BY <2>5
<1>4. ASSUME NEW ok \in BOOLEAN, NEW text \in Audio, EmitFinal(ok, text) PROVE Spoken' \subseteq Spoken
  <2> DEFINE ev == [kind |-> "Final", ok |-> ok, text |-> text]
  <2>1. ev \in AsrEvent /\ ev.kind = "Final" /\ ev.text = text /\ answers' = Append(answers, ev)
    BY <1>4 DEF EmitFinal, AsrEvent
  <2> HIDE DEF ev
  <2>2. /\ Len(answers') = Len(answers) + 1 /\ answers'[Len(answers) + 1] = ev
        /\ \A i \in 1..Len(answers) : answers'[i] = answers[i]
    BY <1>1, <2>1
  <2>3. /\ closed # <<>> /\ closed' = Tail(closed) /\ text \subseteq closed[1] /\ 1 \in 1..Len(closed) /\ open' = open
    BY <1>1, <1>4 DEF EmitFinal
  <2>4. \A i \in 1..Len(closed') : i + 1 \in 1..Len(closed) /\ closed'[i] = closed[i + 1]
    BY <1>1, <2>3
  <2>5. \A i \in 1..Len(answers') : i \in 1..Len(answers) \/ answers'[i] = ev
    BY <1>1, <2>2
  <2> QED
    BY <2>1, <2>2, <2>3, <2>4, <2>5, SpokenIs
<1>5. ASSUME NEW text \in Audio, EmitPartial(text) PROVE Spoken' \subseteq Spoken
  <2> DEFINE ev == [kind |-> "Partial", ok |-> TRUE, text |-> text]
  <2>1. ev \in AsrEvent /\ ev.text = text /\ answers' = Append(answers, ev)
    BY <1>5 DEF EmitPartial, AsrEvent
  <2> HIDE DEF ev
  <2>2. \A i \in 1..Len(answers') : answers'[i] = ev \/ (i \in 1..Len(answers) /\ answers'[i] = answers[i])
    BY <1>1, <2>1
  <2>3. text \subseteq Spoken
    <3>1. text \subseteq open \/ (1 \in 1..Len(closed) /\ text \subseteq closed[1])
      BY <1>1, <1>5 DEF EmitPartial, Hypothesis
    <3> QED
      BY <3>1, SpokenIs
  <2> QED
    BY <1>5, <2>1, <2>2, <2>3, SpokenIs DEF EmitPartial
<1>6. ASSUME ReadAnswer PROVE Spoken' \subseteq Spoken
  <2>1. \A i \in 1..Len(answers') : i + 1 \in 1..Len(answers) /\ answers'[i] = answers[i + 1]
    BY <1>1, <1>6 DEF ReadAnswer
  <2> QED
    BY <1>6, <2>1, SpokenIs DEF ReadAnswer
<1>7. ASSUME ReadAnswer PROVE Head(answers).text \subseteq Spoken
  <2>1. 1 \in 1..Len(answers) /\ Head(answers) = answers[1]
    BY <1>1, <1>7 DEF ReadAnswer
  <2> QED
    BY <1>7, <2>1, SpokenIs
<1>8. ASSUME UNCHANGED <<open, closed, answers>> PROVE Spoken' = Spoken
  BY <1>8 DEF Spoken
<1> QED
  BY <1>2, <1>3, <1>4, <1>5, <1>6, <1>7, <1>8

\* What is read of the channel leaves it ordered, and words that were not after
\* what is left of it stay so.
LEMMA OrderKept ==
  ASSUME TypeOK, QueueOrdered, Next, ~Environment
  PROVE  /\ QueueOrdered' /\ gesture' = gesture
         /\ \A x : (\A i \in Stamped : x <= frontend[i].gesture)
                     => \A i \in Stamped' : x <= frontend'[i].gesture
         /\ \A x : (\A i \in Stamped : NotAfter(x, frontend[i]))
                     => \A i \in Stamped' : NotAfter(x, frontend'[i])
<1>1. PICK k \in {0, 1} : /\ Len(frontend') + k <= Len(frontend)
                          /\ \A i \in 1..Len(frontend') : frontend'[i] = frontend[i + k]
  BY ChannelStep DEF MovesUp
<1>2. gesture' = gesture
  BY ChannelStep
<1>3. Len(frontend) \in Nat /\ Len(frontend') \in Nat
  <2>1. TypeOK'
    BY TypeStep
  <2> QED
    BY <2>1 DEF TypeOK, KeysTypeOK
<1>4. \A i \in Stamped' : i + k \in Stamped /\ frontend'[i] = frontend[i + k] /\ i \in Nat
  BY <1>1, <1>3 DEF Stamped
<1>5. \A i \in Stamped' : frontend'[i].gesture <= gesture'
  BY <1>2, <1>4 DEF QueueOrdered
<1>6. \A i, j \in Stamped' : i < j => NotAfter(frontend'[i].gesture, frontend'[j])
  <2> TAKE i, j \in Stamped'
  <2>1. i < j => i + k < j + k
    BY <1>4
  <2> QED
    BY <1>4, <2>1 DEF QueueOrdered
<1> QED
  BY <1>2, <1>4, <1>5, <1>6 DEF QueueOrdered

\* What waits for the loop is of one utterance: behind a Final nothing is left to
\* transcribe.
LEMMA FinalIsAll ==
  ASSUME TypeOK, FinInv, UtteranceOwns, NEW i \in 1..Len(answers), answers[i].kind = "Final"
  PROVE  closed = <<>> /\ open = {}
<1>1. answers \in Seq(AsrEvent) /\ closed \in Seq(Audio) /\ Len(closed) \in Nat
  BY DEF TypeOK, RecognizerTypeOK
<1>2. Count("Final", answers) \in Nat /\ Count("Final", answers) # 0
  <2>1. i \in OfKind("Final", answers)
    BY DEF OfKind
  <2> QED
    BY <1>1, <2>1, CountIsNat, FS_EmptySet DEF Count
<1>3. Len(closed) = 0 /\ ~listening
  BY <1>1, <1>2 DEF FinInv, FinalizeMatches
<1> QED
  BY <1>1, <1>3 DEF UtteranceOwns

\* Reading the Final leaves nothing.
LEMMA FinalIsRead ==
  ASSUME TypeOK, FinInv, UtteranceOwns, FinalLast, ReadFinal
  PROVE  /\ inFlight # Nil /\ ~listening
         /\ answers' = <<>> /\ open' = {} /\ Spoken' = {}
         /\ Head(answers).text \subseteq Spoken
<1>1. answers \in Seq(AsrEvent) /\ closed \in Seq(Audio) /\ answers # <<>> /\ Head(answers) = answers[1]
      /\ 1 \in 1..Len(answers) /\ Len(answers) \in Nat
  BY DEF TypeOK, RecognizerTypeOK, ReadFinal, ReadAnswer
<1>2. answers[1].kind = "Final"
  BY <1>1 DEF ReadFinal
<1>3. closed = <<>> /\ open = {} /\ 1 = Len(answers)
  BY <1>1, <1>2, FinalIsAll DEF FinalLast
<1>4. answers' = <<>> /\ open' = {} /\ closed' = <<>>
  <2>1. answers' = Tail(answers) /\ Len(Tail(answers)) = 0
    BY <1>1, <1>3 DEF ReadFinal, ReadAnswer
  <2> QED
    BY <1>1, <1>3, <2>1 DEF ReadFinal, ReadAnswer
<1>5. Spoken' = {}
  <2>1. \A w : w \notin Spoken'
    BY <1>4, SpokenIs
  <2> QED
    BY <2>1
<1> QED
  BY <1>4, <1>5, FinalFound, SpokenSteps DEF ReadFinal

\* The recognizer says the Final last.
LEMMA AnswersStep ==
  ASSUME TypeOK, FinInv, UtteranceOwns, FinalLast
  PROVE  /\ \A text \in Audio : EmitPartial(text) => FinalLast'
         /\ \A ok \in BOOLEAN, text \in Audio : EmitFinal(ok, text) => FinalLast'
         /\ ReadAnswer => FinalLast'
         /\ UNCHANGED answers => FinalLast'
<1>1. answers \in Seq(AsrEvent) /\ closed \in Seq(Audio) /\ Len(answers) \in Nat
  BY DEF TypeOK, RecognizerTypeOK
<1>2. ASSUME NEW text \in Audio, EmitPartial(text) PROVE FinalLast'
  <2> DEFINE ev == [kind |-> "Partial", ok |-> TRUE, text |-> text]
  <2>1. ev \in AsrEvent /\ ev.kind # "Final" /\ answers' = Append(answers, ev)
    BY <1>2 DEF EmitPartial, AsrEvent
  <2> HIDE DEF ev
  <2>2. \A i \in 1..Len(answers') : answers'[i] = ev \/ (i \in 1..Len(answers) /\ answers'[i] = answers[i])
    BY <1>1, <2>1
  <2>3. \A i \in 1..Len(answers) : answers[i].kind # "Final"
    BY <1>2, FinalIsAll DEF EmitPartial, Hypothesis
  <2> QED
    BY <2>1, <2>2, <2>3 DEF FinalLast
<1>3. ASSUME NEW ok \in BOOLEAN, NEW text \in Audio, EmitFinal(ok, text) PROVE FinalLast'
  <2> DEFINE ev == [kind |-> "Final", ok |-> ok, text |-> text]
  <2>1. ev \in AsrEvent /\ answers' = Append(answers, ev)
    BY <1>3 DEF EmitFinal, AsrEvent
  <2> HIDE DEF ev
  <2>2. \A i \in 1..Len(answers') : i = Len(answers') \/ (i \in 1..Len(answers) /\ answers'[i] = answers[i])
    BY <1>1, <2>1
  <2>3. \A i \in 1..Len(answers) : answers[i].kind # "Final"
    BY <1>3, FinalIsAll DEF EmitFinal
  <2> QED
    BY <2>2, <2>3 DEF FinalLast
<1>4. ASSUME ReadAnswer PROVE FinalLast'
  <2>1. Len(answers') = Len(answers) - 1 /\ \A i \in 1..Len(answers') : i + 1 \in 1..Len(answers) /\ answers'[i] = answers[i + 1]
    BY <1>1, <1>4 DEF ReadAnswer
  <2>2. ASSUME NEW i \in 1..Len(answers'), answers'[i].kind = "Final" PROVE i = Len(answers')
    <3>1. i + 1 = Len(answers)
      BY <2>1, <2>2 DEF FinalLast
    <3>2. i \in Nat
      OBVIOUS
    <3> QED
      BY <1>1, <2>1, <3>1, <3>2
  <2> QED
    BY <2>2 DEF FinalLast
<1>5. ASSUME UNCHANGED answers PROVE FinalLast'
  BY <1>5 DEF FinalLast
<1> QED
  BY <1>2, <1>3, <1>4, <1>5

\* A word heard in this step: no earlier than the utterance in flight, no later
\* than what is left of the channel.
JustHeard(w) ==
  /\ inFlight # Nil /\ inFlight' = inFlight
  /\ w \in Nat /\ w <= gesture /\ inFlight <= w
  /\ \A i \in Stamped' : NotAfter(w, frontend'[i])

\* What a step hears, and what it leaves to be said.
Hearing ==
  /\ \A w \in Spoken' : w \in Spoken \/ JustHeard(w)
  /\ ~listening' => open' = {}
  /\ inFlight' = Nil => Spoken' = {}
  /\ FinalLast'

\* Every step of the loop and the recognizer hears the words of the utterance in
\* flight only, and an utterance ends with nothing left to say of it.
LEMMA HearingStep ==
  ASSUME ~MayMute, ~AutoEndpoint, TypeOK, FinInv, WordsInv, Next, ~Environment
  PROVE  Hearing
<1> USE DEF supervisor, stream, current, outcome, recognizerVars
<1>0. /\ (~listening => open = {}) /\ (inFlight = Nil => Spoken = {})
      /\ UtteranceOwns /\ FinalLast /\ (listening => inFlight # Nil)
  BY DEF WordsInv, UtteranceOwns, FinInv
\* A step that hears nothing.
<1>1. ASSUME Spoken' \subseteq Spoken, FinalLast', inFlight' = Nil => inFlight = Nil,
             ~listening' => open' = {}
      PROVE  Hearing
  BY <1>0, <1>1 DEF Hearing
<1>2. ASSUME UNCHANGED <<open, closed, answers>> PROVE Spoken' \subseteq Spoken /\ FinalLast'
  BY <1>0, <1>2, AnswersStep DEF Spoken
<1>3. ASSUME NEW audio, Feed(audio) \/ Finalize(audio), \A w \in audio : JustHeard(w),
             inFlight' = inFlight, listening, ~listening' => open' = {}
      PROVE  Hearing
  <2>1. Spoken' = Spoken \cup audio /\ UNCHANGED answers
    BY <1>3, SpokenSteps DEF Feed, Finalize
  <2> QED
    BY <1>0, <1>3, <2>1, AnswersStep DEF Hearing
<1>4. CASE RecognizerLoads \/ RecognizerDies
  BY <1>0, <1>1, <1>2, <1>4 DEF RecognizerLoads, RecognizerDies, Recognizing, Construct, Die
<1>5. CASE RecognizerGuesses
  <2>1. PICK text \in Audio : Recognizing(EmitPartial(text))
    BY <1>5 DEF RecognizerGuesses
  <2>2. Spoken' \subseteq Spoken /\ FinalLast'
    BY <1>0, <2>1, SpokenSteps, AnswersStep DEF Recognizing
  <2> QED
    BY <1>0, <1>1, <2>1, <2>2 DEF Recognizing, EmitPartial
<1>6. CASE RecognizerAnswers
  <2>1. PICK ok \in BOOLEAN, text \in Audio : Recognizing(EmitFinal(ok, text))
    BY <1>6 DEF RecognizerAnswers
  <2>2. Spoken' \subseteq Spoken /\ FinalLast'
    BY <1>0, <2>1, SpokenSteps, AnswersStep DEF Recognizing
  <2> QED
    BY <1>0, <1>1, <2>1, <2>2 DEF Recognizing, EmitFinal
<1>7. CASE HotMicTimer
  <2>1. listening /\ inFlight' = inFlight /\ Finalize({})
    BY <1>7 DEF HotMicTimer, FinInv
  <2>2. open' = {}
    BY <2>1 DEF Finalize
  <2>3. \A w \in {} : JustHeard(w)
    OBVIOUS
  <2> QED
    BY <1>3, <2>1, <2>2, <2>3
<1>8. CASE WarmTimer
  <2>1. ~listening' => ~listening
    BY <1>8 DEF WarmTimer
  <2> QED
    BY <1>0, <1>1, <1>2, <1>8, <2>1 DEF WarmTimer
<1>9. CASE StreamTimer \/ DismissError \/ ReadsReadiness
  BY <1>0, <1>1, <1>2, <1>9 DEF StreamTimer, DismissError, ReadsReadiness, ReadReady, ReadFailure
<1>10. CASE RefuseKeyDown \/ MicFails \/ IgnoreKeyUp \/ IgnoreChunk \/ CaptureUp \/ CaptureIssue
  BY <1>0, <1>1, <1>2, <1>10 DEF RefuseKeyDown, MicFails, IgnoreKeyUp, IgnoreChunk, CaptureUp,
     CaptureIssue
<1>11. CASE BeginUtterance
  <2>1. inFlight = Nil /\ listening' = TRUE
    BY <1>11 DEF BeginUtterance, AcceptKeyDown
  <2> QED
    BY <1>1, <1>2, <1>11, <2>1 DEF BeginUtterance
<1>12. CASE Chunk
  <2>1. PICK audio \in Heard(Head(frontend)) : Feed(audio)
    BY <1>12 DEF Chunk
  <2>2. /\ frontend # <<>> /\ frontend \in Seq(FrontendEvent) /\ Head(frontend) = frontend[1]
        /\ frontend[1].kind = "Chunk" /\ frontend' = Tail(frontend)
        /\ listening' = listening /\ listening /\ inFlight' = inFlight
    BY <1>12 DEF Chunk, ReadFrontend, FrontendArm, TypeOK, KeysTypeOK
  <2>3. 1 \in Stamped /\ audio \subseteq {frontend[1].gesture}
    BY <2>1, <2>2 DEF Heard, Stamped
  <2>4. \A i \in Stamped' : i + 1 \in Stamped /\ frontend'[i] = frontend[i + 1] /\ 1 < i + 1
    BY <2>2 DEF Stamped
  <2>5. \A w \in audio : JustHeard(w)
    <3> SUFFICES JustHeard(frontend[1].gesture)
      BY <2>3
    <3>1. \A i \in Stamped' : NotAfter(frontend[1].gesture, frontend'[i])
      BY <2>3, <2>4 DEF WordsInv, QueueOrdered
    <3>2. inFlight # Nil /\ inFlight <= frontend[1].gesture
      BY <1>0, <2>2, <2>3 DEF UtteranceOwns
    <3>3. frontend[1].gesture \in Nat /\ frontend[1].gesture <= gesture
      BY <2>3, WordTypes DEF WordsInv, QueueOrdered
    <3> QED
      BY <2>2, <3>1, <3>2, <3>3 DEF JustHeard
  <2> QED
    BY <1>3, <2>1, <2>2, <2>5
<1>13. CASE KeyUp
  <2>1. PICK tail \in SUBSET (UNION {UNION Heard(frontend[i]) : i \in 1..Len(frontend)}) :
          Finalize(tail)
    BY <1>13 DEF KeyUp
  <2>2. frontend' = <<>> /\ Stamped' = {} /\ listening /\ inFlight' = inFlight
    BY <1>13 DEF KeyUp, Stamped
  <2>3. \A w \in tail : JustHeard(w)
    <3> SUFFICES ASSUME NEW w \in tail PROVE JustHeard(w)
      OBVIOUS
    <3>1. PICK i \in 1..Len(frontend) : w \in UNION Heard(frontend[i])
      BY <2>1
    <3>2. i \in Stamped /\ w = frontend[i].gesture
      BY <3>1 DEF Heard, Stamped
    <3>3. w \in Nat /\ w <= gesture
      BY <3>2, WordTypes DEF WordsInv, QueueOrdered
    <3>4. inFlight # Nil /\ inFlight <= w
      BY <1>0, <2>2, <3>2 DEF UtteranceOwns
    <3> QED
      BY <2>2, <3>3, <3>4 DEF JustHeard
  <2> QED
    BY <1>3, <2>1, <2>2, <2>3 DEF Finalize
<1>14. CASE ReadPartial
  <2>1. Spoken' \subseteq Spoken /\ FinalLast'
    BY <1>0, <1>14, SpokenSteps, AnswersStep DEF ReadPartial
  <2> QED
    BY <1>0, <1>1, <1>14, <2>1 DEF ReadPartial, ReadAnswer
<1>15. CASE AsrClosed
  BY <1>0, <1>1, <1>2, <1>15 DEF AsrClosed
<1>16. CASE StrayFinal \/ FinalFault \/ FinalEmpty \/ FinalText
  <2>1. ReadFinal
    BY <1>16 DEF StrayFinal, FinalFault, FinalEmpty, FinalText
  <2> QED
    BY <1>0, <2>1, FinalIsRead DEF Hearing, FinalLast
<1>17. CASE ReadsStream
  BY <1>0, <1>1, <1>2, <1>17 DEF ReadsStream, ReadWriteDone, StrayFinished, SettleStream, FallBack,
     ReadFinished
<1>18. CASE DeliveryEnds \/ \E g \in Gesture : WriterSteps(g)
  BY <1>0, <1>1, <1>2, <1>18 DEF DeliveryEnds, Delivered, WriterSteps, WriterApplies,
     WriterFinishes, WriterPanics, WriterRuns
<1> QED
  BY <1>4, <1>5, <1>6, <1>7, <1>8, <1>9, <1>10, <1>11, <1>12, <1>13, <1>14, <1>15, <1>16, <1>17, <1>18
  DEF Next, ReadsFrontend, ReadsAnswers, MutedKeyDown, EndpointChunk

\* A write the coalescer still holds back is of the utterance in flight.
ParkedOwned ==
  streamer' # Nil /\ streamer'.parked # Nil =>
    inFlight # Nil /\ inFlight' = inFlight /\ \A w \in streamer'.parked : w >= inFlight

Regions == \A g \in Gesture : \A w \in region[g] : w >= g

\* A command for the utterance in flight.
LEMMA StreamAsked ==
  ASSUME TypeOK, StreamOwns, ParkedOwned, inFlight # Nil,
         NEW cmd, cmd.target # Nil => \A w \in cmd.target : w >= inFlight,
         writers' = [writers EXCEPT ![inFlight] = Append(@, cmd)]
  PROVE  StreamOwns'
<1>1. inFlight \in Gesture /\ writers \in [Gesture -> Seq(WriterMsg)]
  BY DEF TypeOK, LoopTypeOK, StreamTypeOK
<1>2. \A g \in Gesture : g # inFlight => writers'[g] = writers[g]
  BY <1>1
<1>3. \A i \in DOMAIN writers'[inFlight] :
        writers'[inFlight][i] = cmd \/ (i \in DOMAIN writers[inFlight] /\ writers'[inFlight][i] = writers[inFlight][i])
  <2> DEFINE q == writers[inFlight]
  <2>1. q \in Seq(WriterMsg) /\ writers'[inFlight] = Append(q, cmd)
    BY <1>1
  <2> HIDE DEF q
  <2>2. \A i \in DOMAIN Append(q, cmd) : Append(q, cmd)[i] = cmd \/ (i \in DOMAIN q /\ Append(q, cmd)[i] = q[i])
    BY <2>1
  <2> QED
    BY <2>1, <2>2 DEF q
<1>4. ASSUME NEW g \in Gesture, NEW i \in DOMAIN writers'[g], writers'[g][i].target # Nil,
             NEW w \in writers'[g][i].target
      PROVE  w >= g
  <2>1. CASE g = inFlight /\ writers'[g][i] = cmd
    BY <1>4, <2>1
  <2>2. CASE i \in DOMAIN writers[g] /\ writers'[g][i] = writers[g][i]
    BY <1>4, <2>2 DEF StreamOwns
  <2> QED
    BY <1>2, <1>3, <2>1, <2>2
<1> QED
  BY <1>4 DEF StreamOwns, ParkedOwned

\* A step that gives no command leaves the writers' queues as they are.
LEMMA StreamKept ==
  ASSUME StreamOwns, ParkedOwned, UNCHANGED writers
  PROVE  StreamOwns'
BY DEF StreamOwns, ParkedOwned

\* What the streamer in flight may ask for.
LEMMA ReleaseOwned ==
  ASSUME TypeOK, StreamOwns, streamer # Nil, inFlight # Nil, inFlight' = inFlight, NEW target \in Audio,
         \A w \in target : w >= inFlight, Release(target)
  PROVE  StreamOwns'
<1>1. ParkedOwned
  <2>1. streamer \in Streamer
    BY DEF TypeOK, LoopTypeOK
  <2>2. streamer'.parked = Nil
    BY <2>1 DEF Release, Streamer
  <2> QED
    BY <2>2 DEF ParkedOwned
<1>2. Command("Apply", target).target = target
  BY DEF Command
<1>3. CASE streamer.dead
  BY <1>1, <1>3, StreamKept DEF Release
<1>4. CASE ~streamer.dead
  BY <1>1, <1>2, <1>4, StreamAsked DEF Release, ToWriter
<1> QED
  BY <1>3, <1>4

\* The settle of an utterance asks its writer for words of its own, or for nothing.
LEMMA FinishOwned ==
  ASSUME TypeOK, StreamOwns, TakeUtterance, NEW text \in Audio,
         \A w \in text : w >= inFlight, FinishStream(text)
  PROVE  StreamOwns'
<1>1. ParkedOwned
  BY DEF TakeUtterance, ParkedOwned
<1>2. CASE UNCHANGED writers
  BY <1>1, <1>2, StreamKept
<1>3. CASE \E target \in FinishTargets(text) : ToWriter(Command("Finish", target))
  <2>1. PICK target \in FinishTargets(text) : ToWriter(Command("Finish", target))
    BY <1>3
  <2>2. Command("Finish", target).target = target /\ target \in {Nil, text}
    BY <2>1 DEF Command, FinishTargets
  <2> QED
    BY <1>1, <2>1, <2>2, StreamAsked DEF ToWriter, TakeUtterance
<1> QED
  BY <1>2, <1>3 DEF FinishStream

\* A writer puts what it was asked for in the field of its utterance.
LEMMA WriterOwned ==
  ASSUME TypeOK, StreamOwns, Regions, NEW g \in Gesture, WriterSteps(g)
  PROVE  StreamOwns' /\ Regions'
<1> DEFINE q == writers[g]
<1>1. /\ q \in Seq(WriterMsg) /\ q # <<>> /\ writers' = [writers EXCEPT ![g] = Tail(q)]
      /\ UNCHANGED <<streamer, inFlight>> /\ writers \in [Gesture -> Seq(WriterMsg)]
      /\ region \in [Gesture -> Audio]
  BY DEF WriterSteps, WriterApplies, WriterFinishes, WriterPanics, WriterRuns, TypeOK, StreamTypeOK, current
<1>2. \A h \in Gesture : writers'[h] = IF h = g THEN Tail(q) ELSE writers[h]
  BY <1>1
<1>3. \A i \in DOMAIN q : q[i].target # Nil => \A w \in q[i].target : w >= g
  BY DEF StreamOwns
<1>4. Head(q).target # Nil => \A w \in Head(q).target : w >= g
  <2> HIDE DEF q
  <2>1. 1 \in DOMAIN q /\ Head(q) = q[1]
    BY <1>1
  <2> QED
    BY <1>3, <2>1
<1>5. \A h \in Gesture : \/ region'[h] = region[h]
                         \/ /\ h = g /\ Head(q).target # Nil
                            /\ region'[h] \subseteq region[g] \cup Head(q).target
  <2> HIDE DEF q
  <2> SUFFICES ASSUME UNCHANGED region \/ (Head(q).target # Nil /\
                        \E text \in Landed(g) : region' = [region EXCEPT ![g] = text])
               PROVE  \A h \in Gesture : \/ region'[h] = region[h]
                                           \/ /\ h = g /\ Head(q).target # Nil
                                              /\ region'[h] \subseteq region[g] \cup Head(q).target
    <3>1. ASSUME NEW ok \in BOOLEAN, WriterApplies(g, ok)
          PROVE  UNCHANGED region \/ (Head(q).target # Nil /\
                   \E text \in Landed(g) : region' = [region EXCEPT ![g] = text])
      <4>1. Head(q) \in WriterMsg /\ Head(q).kind = "Apply"
        BY <1>1, <3>1 DEF WriterApplies, WriterRuns, q
      <4>2. Head(q).target # Nil
        BY <4>1, NilAssumption DEF WriterMsg
      <4> QED
        BY <3>1, <4>2 DEF WriterApplies
    <3>2. ASSUME NEW applied \in BOOLEAN, NEW sealed \in BOOLEAN, WriterFinishes(g, applied, sealed)
          PROVE  UNCHANGED region \/ (Head(q).target # Nil /\
                   \E text \in Landed(g) : region' = [region EXCEPT ![g] = text])
      BY <1>1, <3>2 DEF WriterFinishes, q
    <3> QED
      BY <3>1, <3>2 DEF WriterSteps, WriterPanics
  <2> QED
    BY <1>1 DEF Landed, q
<1>6. Regions'
  BY <1>4, <1>5 DEF Regions
<1>7. ASSUME NEW h \in Gesture, NEW i \in DOMAIN writers'[h], writers'[h][i].target # Nil,
             NEW w \in writers'[h][i].target
      PROVE  w >= h
  <2>1. CASE h = g
    <3> HIDE DEF q
    <3>1. \A k \in DOMAIN Tail(q) : k + 1 \in DOMAIN q /\ Tail(q)[k] = q[k + 1]
      BY <1>1
    <3>2. i \in DOMAIN Tail(q) /\ writers'[h][i] = Tail(q)[i]
      BY <1>2, <1>7, <2>1
    <3> QED
      BY <1>3, <1>7, <2>1, <3>1, <3>2
  <2>2. CASE h # g
    BY <1>2, <1>7, <2>2 DEF StreamOwns
  <2> QED
    BY <2>1, <2>2
<1> QED
  BY <1>1, <1>6, <1>7 DEF StreamOwns

\* No step asks a writer for words from before its utterance, and none writes any.
LEMMA StreamStep ==
  ASSUME TypeOK, WordsInv, Next
  PROVE  StreamOwns' /\ Regions'
<1> USE DEF supervisor, stream, current, outcome
<1>0. /\ StreamOwns /\ Regions
      /\ streamer \in Streamer \cup {Nil} /\ (streamer # Nil => inFlight # Nil)
      /\ \A w \in Spoken : inFlight # Nil => w >= inFlight
  BY DEF WordsInv, OwnWords, Regions, UtteranceOwns, TypeOK, LoopTypeOK
\* A step that asks no writer for anything.
<1>1. ASSUME UNCHANGED <<writers, region>>,
             \/ UNCHANGED <<streamer, inFlight>>
             \/ streamer' = Nil
             \/ ParkedOwned
      PROVE  StreamOwns' /\ Regions'
  <2>1. ParkedOwned
    BY <1>0, <1>1 DEF ParkedOwned, StreamOwns
  <2> QED
    BY <1>0, <1>1, <2>1, StreamKept DEF Regions
<1>2. CASE Environment
  BY <1>1, <1>2 DEF Environment, PressKey, ReleaseKey, PausedGesture, ReportCapture, RecordChunk
<1>3. CASE \/ RecognizerLoads \/ RecognizerDies \/ RecognizerGuesses \/ RecognizerAnswers
           \/ HotMicTimer \/ WarmTimer \/ DismissError \/ ReadsReadiness
  BY <1>1, <1>3 DEF RecognizerLoads, RecognizerDies, RecognizerGuesses, RecognizerAnswers,
     Recognizing, HotMicTimer, WarmTimer, DismissError, ReadsReadiness, ReadReady, ReadFailure
<1>4. CASE BeginUtterance
  <2>1. streamer' = Nil \/ (streamer' = NewStreamer /\ NewStreamer.parked = Nil)
    BY <1>4 DEF BeginUtterance, NewStreamer
  <2> QED
    BY <1>1, <1>4, <2>1 DEF BeginUtterance, ParkedOwned
<1>5. CASE ReadsFrontend /\ ~BeginUtterance
  BY <1>1, <1>5 DEF ReadsFrontend, RefuseKeyDown, MicFails, MutedKeyDown, IgnoreKeyUp, KeyUp,
     IgnoreChunk, Chunk, EndpointChunk, CaptureUp, CaptureIssue
<1>6. CASE StreamTimer
  <2>1. streamer.parked \in Audio /\ \A w \in streamer.parked : w >= inFlight
    BY <1>0, <1>6 DEF StreamTimer, Streamer, StreamOwns
  <2> QED
    BY <1>0, <1>6, <2>1, ReleaseOwned DEF StreamTimer, Regions
<1>7. CASE ReadPartial
  <2> DEFINE text == Head(answers).text
  <2>1. text \subseteq Spoken /\ text \in Audio
    BY <1>7, SpokenSteps, ReadAnswerType DEF ReadPartial, TypeOK, AsrEvent
  <2>2. inFlight # Nil => \A w \in text : w >= inFlight
    BY <1>0, <2>1
  <2>3. CASE UNCHANGED <<streamer, writers>>
    BY <1>1, <1>7, <2>3 DEF ReadPartial
  <2>4. CASE streamer # Nil /\ Release(text)
    BY <1>0, <1>7, <2>1, <2>2, <2>4, ReleaseOwned DEF ReadPartial, Regions
  <2>5. CASE streamer # Nil /\ streamer' = [streamer EXCEPT !.parked = text] /\ UNCHANGED writers
    <3>1. streamer'.parked = text
      BY <1>0, <2>5 DEF Streamer
    <3> QED
      BY <1>0, <1>1, <1>7, <2>2, <2>5, <3>1 DEF ReadPartial, ParkedOwned
  <2> QED
    BY <1>7, <2>3, <2>4, <2>5 DEF ReadPartial, Stream
<1>8. CASE AsrClosed \/ StrayFinal \/ FinalFault
  BY <1>1, <1>8 DEF AsrClosed, StrayFinal, FinalFault, TakeUtterance
<1>9. CASE FinalEmpty
  <2>1. {} \in Audio
    BY DEF Audio
  <2> QED
    BY <1>0, <1>9, <2>1, FinishOwned DEF FinalEmpty, Regions
<1>10. CASE FinalText
  <2>1. Head(answers).text \subseteq Spoken /\ Head(answers).text \in Audio
    BY <1>10, SpokenSteps, ReadAnswerType DEF FinalText, ReadFinal, TypeOK, AsrEvent
  <2>2. \A w \in Head(answers).text : w >= inFlight
    BY <1>0, <1>10, <2>1 DEF FinalText, TakeUtterance
  <2> QED
    BY <1>0, <1>10, <2>1, <2>2, FinishOwned DEF FinalText, Regions
<1>11. CASE ReadWriteDone
  <2>1. streamer # Nil => streamer' # Nil /\ streamer'.parked = streamer.parked
    BY <1>0, <1>11, NilAssumption DEF ReadWriteDone, Streamer
  <2>2. streamer = Nil => streamer' = Nil
    BY <1>11 DEF ReadWriteDone
  <2>3. ParkedOwned
    BY <1>0, <1>11, <2>1, <2>2 DEF ReadWriteDone, ParkedOwned, StreamOwns
  <2> QED
    BY <1>1, <1>11, <2>3 DEF ReadWriteDone
<1>12. CASE StrayFinished \/ SettleStream \/ FallBack \/ DeliveryEnds
  BY <1>1, <1>12 DEF StrayFinished, SettleStream, FallBack, ReadFinished, DeliveryEnds, Delivered
<1>13. CASE \E g \in Gesture : WriterSteps(g)
  BY <1>0, <1>13, WriterOwned
<1> QED
  BY <1>2, <1>3, <1>4, <1>5, <1>6, <1>7, <1>8, <1>9, <1>10, <1>11, <1>12, <1>13
  DEF Next, ReadsAnswers, ReadsStream

OwnTexts == \A u \in Results \ {Nil} : \A g \in u.text : g >= u.gesture

\* A text moves between the loop and the field, and the text of a Final is new.
TextsMove ==
  /\ OwnTexts' /\ TextsApart'
  /\ \A w \in Settled' : w \in Settled \/ (inFlight # Nil /\ inFlight' = Nil /\ w \in Spoken)

\* A Final settles the utterance in flight, none of whose words are settled yet.
LEMMA FinalSettles ==
  ASSUME TypeOK, FinInv, WordsInv, FinalText
  PROVE  TextsMove
<1> DEFINE text == Head(answers).text
<1>1. inFlight # Nil /\ inFlight' = Nil /\ text \subseteq Spoken /\ typed' = typed
  BY FinalIsRead DEF WordsInv, FinalText, TakeUtterance
<1>2. \A w \in text : w >= inFlight /\ w \notin Settled
  <2>1. Spoken \subseteq Nat /\ Settled \subseteq Nat /\ inFlight \in Nat
    BY <1>1, WordTypes
  <2>2. \A w \in Spoken : w >= inFlight
    BY <1>1 DEF WordsInv, UtteranceOwns
  <2>3. \A w \in Settled : w < inFlight
    BY <1>1 DEF WordsInv, UtteranceOwns
  <2> SUFFICES ASSUME NEW w \in Spoken PROVE w >= inFlight /\ w \notin Settled
    BY <1>1
  <2>4. w \in Nat /\ w >= inFlight
    BY <2>1, <2>2
  <2>5. w \in Settled => w < inFlight
    BY <2>3
  <2> QED
    BY <2>1, <2>4, <2>5
<1>3. Result # Nil /\ Result.text = text /\ Result.gesture = inFlight
  <2>1. text \in Audio /\ inFlight \in Gesture
    BY <1>1, ReadAnswerType DEF FinalText, ReadFinal, TypeOK, LoopTypeOK, AsrEvent
  <2>2. Result \in Utterance
    BY <2>1 DEF Result, Utterance
  <2> QED
    BY <2>2, NilAssumption DEF Result
<1>4. TextOf(Result) = text /\ TextOf(Nil) = {}
  BY <1>3 DEF TextOf
<1>5. delivering = Nil
  BY DEF FinalText, ReadFinal, AsrArm, Awake
<1>6. \/ delivering' = Result /\ pendingFinal' = pendingFinal
      \/ pendingFinal' = Result /\ delivering' = delivering
  BY DEF FinalText
<1>7. /\ \A w \in TextOf(pendingFinal) : w \in Settled
      /\ \A i \in DOMAIN typed : \A w \in typed[i].text : w \in Settled
  <2>1. DOMAIN typed = 1..Len(typed)
    BY DEF TypeOK, LoopTypeOK
  <2> QED
    BY <2>1, SettledIs
<1> HIDE DEF text
<1>8. TextsApart'
  <2>1. TextOf(delivering') \cap TextOf(pendingFinal') = {}
    BY <1>2, <1>4, <1>5, <1>6, <1>7
  <2>2. \A i \in DOMAIN typed : typed[i].text \cap (TextOf(delivering') \cup TextOf(pendingFinal')) = {}
    <3> TAKE i \in DOMAIN typed
    <3>1. typed[i].text \cap TextOf(pendingFinal) = {}
      BY DEF WordsInv, TextsApart
    <3>2. typed[i].text \cap text = {}
      BY <1>2, <1>7
    <3> QED
      BY <1>4, <1>5, <1>6, <3>1, <3>2
  <2> QED
    BY <1>1, <2>1, <2>2 DEF WordsInv, TextsApart, NeverTwice
<1>9. OwnTexts'
  <2>1. \A u \in Results' : u \in Results \/ u = Result
    BY <1>1, <1>6 DEF Results
  <2> QED
    BY <1>2, <1>3, <2>1 DEF OwnTexts, WordsInv, OwnWords
<1>10. ASSUME NEW w \in Settled' PROVE w \in Settled \/ w \in text
  BY <1>1, <1>4, <1>5, <1>6, SettledIs
<1> QED
  BY <1>1, <1>8, <1>9, <1>10 DEF TextsMove

\* A delivered text joins those written, with none of whose words it shares.
LEMMA TextDelivered ==
  ASSUME TypeOK, WordsInv, DeliveryEnds
  PROVE  TextsMove
<1>1. PICK wrote \in BOOLEAN, rest \in {"Idle", "Error"} : Delivered(wrote, rest)
  BY DEF DeliveryEnds
<1>2. /\ delivering # Nil /\ delivering' = Nil /\ pendingFinal' = pendingFinal
      /\ typed' = IF wrote THEN Append(typed, delivering) ELSE typed
  BY <1>1 DEF Delivered
<1>3. typed \in Seq(Utterance) /\ delivering \in Utterance /\ Len(typed) \in Nat
  BY <1>2 DEF TypeOK, LoopTypeOK
<1>4. /\ \A i \in DOMAIN typed' : \/ i = Len(typed) + 1 /\ typed'[i] = delivering
                                  \/ i \in DOMAIN typed /\ typed'[i] = typed[i]
      /\ DOMAIN typed = 1..Len(typed) /\ DOMAIN typed' = 1..Len(typed')
  BY <1>2, <1>3
<1>5. TextOf(delivering) = delivering.text /\ TextOf(delivering') = {}
  BY <1>2 DEF TextOf
<1>6. /\ delivering.text \cap TextOf(pendingFinal) = {}
      /\ \A i \in DOMAIN typed : typed[i].text \cap delivering.text = {}
      /\ \A i \in DOMAIN typed : typed[i].text \cap TextOf(pendingFinal) = {}
  BY <1>5 DEF WordsInv, TextsApart
<1>7. TextsApart'
  <2>1. NeverTwice'
    <3> SUFFICES ASSUME NEW i \in DOMAIN typed', NEW j \in DOMAIN typed', i # j
                 PROVE  typed'[i].text \cap typed'[j].text = {}
      BY DEF NeverTwice
    <3>1. CASE typed'[i] = typed[i] /\ typed'[j] = typed[j] /\ i \in DOMAIN typed /\ j \in DOMAIN typed
      BY <3>1 DEF WordsInv, TextsApart, NeverTwice
    <3>2. CASE typed'[i] = delivering /\ typed'[j] = typed[j] /\ j \in DOMAIN typed
      BY <1>6, <3>2
    <3>3. CASE typed'[j] = delivering /\ typed'[i] = typed[i] /\ i \in DOMAIN typed
      BY <1>6, <3>3
    <3> QED
      BY <1>4, <3>1, <3>2, <3>3
  <2>2. \A i \in DOMAIN typed' : typed'[i].text \cap TextOf(pendingFinal) = {}
    BY <1>4, <1>6
  <2> QED
    BY <1>2, <1>5, <2>1, <2>2 DEF TextsApart
<1>8. OwnTexts'
  <2>1. \A u \in Results' : u \in Results \/ u = Nil
    BY <1>2, <1>4 DEF Results
  <2> QED
    BY <2>1 DEF OwnTexts, WordsInv, OwnWords
<1>9. \A w \in Settled' : w \in Settled
  BY <1>2, <1>4, <1>5, SettledIs
<1> QED
  BY <1>7, <1>8, <1>9 DEF TextsMove

\* Every step but those two moves a text that is there, or none.
LEMMA TextsStep ==
  ASSUME TypeOK, FinInv, WordsInv, Next
  PROVE  TextsMove
<1> USE DEF supervisor, outcome
<1>1. ASSUME UNCHANGED <<delivering, pendingFinal, typed>> PROVE TextsMove
  BY <1>1 DEF TextsMove, OwnTexts, Results, WordsInv, OwnWords, TextsApart, NeverTwice, Settled
<1>2. CASE Environment
  BY <1>1, <1>2 DEF Environment, PressKey, ReleaseKey, PausedGesture, ReportCapture, RecordChunk
<1>3. CASE \/ RecognizerLoads \/ RecognizerDies \/ RecognizerGuesses \/ RecognizerAnswers
           \/ HotMicTimer \/ WarmTimer \/ StreamTimer \/ DismissError \/ ReadsReadiness
  BY <1>1, <1>3 DEF RecognizerLoads, RecognizerDies, RecognizerGuesses, RecognizerAnswers,
     Recognizing, HotMicTimer, WarmTimer, StreamTimer, DismissError, ReadsReadiness, ReadReady,
     ReadFailure
<1>4. CASE ReadsFrontend
  BY <1>1, <1>4 DEF ReadsFrontend, RefuseKeyDown, MicFails, MutedKeyDown, BeginUtterance,
     IgnoreKeyUp, KeyUp, IgnoreChunk, Chunk, EndpointChunk, CaptureUp, CaptureIssue
<1>5. CASE ReadPartial \/ AsrClosed \/ StrayFinal \/ FinalFault \/ FinalEmpty
  BY <1>1, <1>5 DEF ReadPartial, AsrClosed, StrayFinal, FinalFault, FinalEmpty
<1>6. CASE FinalText
  BY <1>6, FinalSettles
<1>7. CASE ReadWriteDone \/ StrayFinished
  BY <1>1, <1>7 DEF ReadWriteDone, StrayFinished, ReadFinished
<1>8. CASE SettleStream \/ FallBack
  <2>1. /\ delivering = Nil /\ typed' = typed
        /\ \/ delivering' = delivering /\ pendingFinal' = Nil
           \/ delivering' = pendingFinal /\ pendingFinal' = Nil
    BY <1>8 DEF SettleStream, FallBack, ReadFinished, StreamArm, Awake
  <2>2. TextOf(Nil) = {}
    BY DEF TextOf
  <2>3. Results' \subseteq Results
    BY <2>1 DEF Results
  <2>4. \A w \in Settled' : w \in Settled
    BY <2>1, <2>2, SettledIs
  <2> QED
    BY <2>1, <2>2, <2>3, <2>4 DEF TextsMove, OwnTexts, WordsInv, OwnWords, TextsApart, NeverTwice
<1>9. CASE DeliveryEnds
  BY <1>9, TextDelivered
<1>10. CASE \E g \in Gesture : WriterSteps(g)
  BY <1>1, <1>10 DEF WriterSteps, WriterApplies, WriterFinishes, WriterPanics, WriterRuns
<1> QED
  BY <1>2, <1>3, <1>4, <1>5, <1>6, <1>7, <1>8, <1>9, <1>10 DEF Next, ReadsAnswers, ReadsStream

\* A new press is later than every word there is, a new chunk no earlier.
LEMMA OrderGrows ==
  ASSUME TypeOK, WordsInv, Environment
  PROVE  QueueOrdered' /\ WordsOrdered' /\ UtteranceOwns' /\ FinalLast'
<1>1. PICK ev \in FrontendEvent :
        /\ frontend' = Append(frontend, ev)
        /\ \/ ev.kind = "KeyDown" /\ ev.gesture = gesture + 1 /\ gesture' = gesture + 1
           \/ ev.kind = "Chunk" /\ ev.gesture = gesture /\ gesture' = gesture
           \/ ev.kind \notin {"KeyDown", "Chunk"} /\ gesture' \in {gesture, gesture + 1}
  BY ChannelGrows
<1>2. /\ Spoken' = Spoken /\ Settled' = Settled
      /\ UNCHANGED <<inFlight, listening, open, answers>>
  BY ChannelGrows DEF supervisor, current, stream, outcome, Environment, PressKey, ReleaseKey,
     PausedGesture, RecordChunk, ReportCapture, recognizerVars, Spoken, Settled
<1>3. frontend \in Seq(FrontendEvent) /\ Len(frontend) \in Nat /\ gesture \in Nat
  BY DEF TypeOK, KeysTypeOK, Gesture
<1>4. /\ Len(frontend') = Len(frontend) + 1
      /\ frontend'[Len(frontend) + 1] = ev
      /\ \A i \in 1..Len(frontend) : frontend'[i] = frontend[i]
  BY <1>1, <1>3
<1>5. gesture' \in Nat /\ gesture <= gesture'
  BY <1>1, <1>3
<1>6. \A i \in Stamped' : \/ i \in Stamped /\ frontend'[i] = frontend[i]
                          \/ i = Len(frontend) + 1 /\ frontend'[i] = ev /\ ev.kind \in {"KeyDown", "Chunk"}
  <2> TAKE i \in Stamped'
  <2>1. i \in 1..Len(frontend) \/ i = Len(frontend) + 1
    BY <1>3, <1>4 DEF Stamped
  <2>2. frontend'[i].kind \in {"KeyDown", "Chunk"}
    BY DEF Stamped
  <2> QED
    BY <1>4, <2>1, <2>2 DEF Stamped
<1>7. \A x \in Nat : x <= gesture /\ ev.kind \in {"KeyDown", "Chunk"} => NotAfter(x, ev) /\ x <= ev.gesture
  BY <1>1, <1>3 DEF NotAfter
<1>8. ev.kind \in {"KeyDown", "Chunk"} => ev.gesture <= gesture'
  BY <1>1, <1>3
<1>9. \A i \in Stamped : i \in 1..Len(frontend) /\ frontend[i].gesture \in Nat /\ frontend[i].gesture <= gesture
  BY WordTypes DEF Stamped, WordsInv, QueueOrdered
<1>10. QueueOrdered'
  <2>1. \A i \in Stamped' : frontend'[i].gesture <= gesture'
    BY <1>3, <1>5, <1>6, <1>8, <1>9
  <2>2. ASSUME NEW i \in Stamped', NEW j \in Stamped', i < j
        PROVE  NotAfter(frontend'[i].gesture, frontend'[j])
    <3>1. i \in Stamped /\ frontend'[i] = frontend[i]
      BY <1>3, <1>4, <1>6, <2>2 DEF Stamped
    <3>2. CASE j \in Stamped /\ frontend'[j] = frontend[j]
      BY <2>2, <3>1, <3>2 DEF WordsInv, QueueOrdered
    <3>3. CASE frontend'[j] = ev /\ ev.kind \in {"KeyDown", "Chunk"}
      BY <1>7, <1>9, <3>1, <3>3
    <3> QED
      BY <1>6, <3>2, <3>3
  <2> QED
    BY <2>1, <2>2 DEF QueueOrdered
<1>11. WordsOrdered'
  <2>1. ASSUME NEW w \in Spoken \cup Settled
        PROVE  w <= gesture' /\ \A i \in Stamped' : NotAfter(w, frontend'[i])
    <3>1. w \in Nat /\ w <= gesture /\ \A i \in Stamped : NotAfter(w, frontend[i])
      BY WordTypes DEF WordsInv, WordsOrdered
    <3>2. w <= gesture'
      BY <1>3, <1>5, <3>1
    <3> QED
      BY <1>6, <1>7, <3>1, <3>2
  <2> QED
    BY <1>2, <2>1 DEF WordsOrdered
<1>12. UtteranceOwns'
  <2>1. inFlight # Nil => \A i \in Stamped' : inFlight <= frontend'[i].gesture
    <3> SUFFICES ASSUME inFlight # Nil, NEW i \in Stamped' PROVE inFlight <= frontend'[i].gesture
      OBVIOUS
    <3>1. inFlight \in Nat /\ inFlight <= gesture
      BY WordTypes DEF WordsInv, UtteranceOwns
    <3>2. CASE i \in Stamped /\ frontend'[i] = frontend[i]
      BY <3>2 DEF WordsInv, UtteranceOwns
    <3>3. CASE frontend'[i] = ev /\ ev.kind \in {"KeyDown", "Chunk"}
      BY <1>7, <3>1, <3>3
    <3> QED
      BY <1>6, <3>2, <3>3
  <2>2. inFlight # Nil => inFlight <= gesture'
    BY <1>3, <1>5, WordTypes DEF WordsInv, UtteranceOwns
  <2> QED
    BY <1>2, <2>1, <2>2 DEF WordsInv, UtteranceOwns
<1> QED
  BY <1>2, <1>10, <1>11, <1>12 DEF WordsInv, FinalLast

\* The utterance in flight stays, ends, or is a press just accepted.
LEMMA FlightStep ==
  ASSUME ~MayMute, ~AutoEndpoint, TypeOK, WordsInv, Next, ~Environment
  PROVE  \/ inFlight' \in {inFlight, Nil}
         \/ BeginUtterance
<1> USE DEF supervisor, current
<1>1. CASE \/ RecognizerLoads \/ RecognizerDies \/ RecognizerGuesses \/ RecognizerAnswers
           \/ HotMicTimer \/ WarmTimer \/ StreamTimer \/ DismissError \/ ReadsReadiness
  BY <1>1 DEF RecognizerLoads, RecognizerDies, RecognizerGuesses, RecognizerAnswers,
     Recognizing, HotMicTimer, WarmTimer, StreamTimer, DismissError, ReadsReadiness, ReadReady,
     ReadFailure
<1>2. CASE ReadsFrontend /\ ~BeginUtterance
  BY <1>2 DEF ReadsFrontend, RefuseKeyDown, MicFails, MutedKeyDown, IgnoreKeyUp, KeyUp, IgnoreChunk,
     Chunk, EndpointChunk, CaptureUp, CaptureIssue
<1>3. CASE ReadsAnswers
  BY <1>3 DEF ReadsAnswers, ReadPartial, AsrClosed, StrayFinal, FinalFault, FinalEmpty, FinalText,
     TakeUtterance
<1>4. CASE ReadsStream
  BY <1>4 DEF ReadsStream, ReadWriteDone, StrayFinished, SettleStream, FallBack, ReadFinished
<1>5. CASE DeliveryEnds \/ \E g \in Gesture : WriterSteps(g)
  BY <1>5 DEF DeliveryEnds, Delivered, WriterSteps, WriterApplies, WriterFinishes, WriterPanics, WriterRuns
<1> QED
  BY <1>1, <1>2, <1>3, <1>4, <1>5 DEF Next

\* A step that is not a press accepted keeps the order.
LEMMA OrderStays ==
  ASSUME TypeOK, WordsInv, Next, ~Environment, Hearing, TextsMove, inFlight' \in {inFlight, Nil}
  PROVE  QueueOrdered' /\ WordsOrdered' /\ UtteranceOwns' /\ FinalLast'
<1>1. /\ QueueOrdered' /\ gesture' = gesture
      /\ \A x : (\A i \in Stamped : x <= frontend[i].gesture)
                  => \A i \in Stamped' : x <= frontend'[i].gesture
      /\ \A x : (\A i \in Stamped : NotAfter(x, frontend[i]))
                  => \A i \in Stamped' : NotAfter(x, frontend'[i])
  BY OrderKept DEF WordsInv
<1>2. WordsOrdered'
  <2>1. ASSUME NEW w \in Spoken' \cup Settled'
        PROVE  w <= gesture' /\ \A i \in Stamped' : NotAfter(w, frontend'[i])
    <3>1. CASE w \in Spoken \cup Settled
      BY <1>1, <3>1 DEF WordsInv, WordsOrdered
    <3>2. CASE JustHeard(w)
      BY <1>1, <3>2 DEF JustHeard
    <3> QED
      BY <2>1, <3>1, <3>2 DEF Hearing, TextsMove
  <2> QED
    BY <2>1 DEF WordsOrdered
<1>3. UtteranceOwns'
  <2>1. ASSUME inFlight' # Nil
        PROVE  /\ inFlight' <= gesture'
               /\ \A i \in Stamped' : inFlight' <= frontend'[i].gesture
               /\ \A w \in Spoken' : w >= inFlight'
               /\ \A w \in Settled' : w < inFlight'
    <3>1. inFlight' = inFlight /\ inFlight # Nil
      BY <2>1
    <3>2. ASSUME NEW w \in Spoken' PROVE w >= inFlight
      <4>1. CASE w \in Spoken
        BY <3>1, <4>1 DEF WordsInv, UtteranceOwns
      <4>2. CASE JustHeard(w)
        BY <3>1, <4>2, WordTypes DEF JustHeard
      <4> QED
        BY <3>2, <4>1, <4>2 DEF Hearing
    <3>3. ASSUME NEW w \in Settled' PROVE w < inFlight
      <4>1. w \in Settled
        BY <2>1, <3>3 DEF TextsMove
      <4> QED
        BY <3>1, <4>1 DEF WordsInv, UtteranceOwns
    <3> QED
      BY <1>1, <3>1, <3>2, <3>3 DEF WordsInv, UtteranceOwns
  <2> QED
    BY <2>1 DEF UtteranceOwns, Hearing
<1> QED
  BY <1>1, <1>2, <1>3 DEF Hearing

\* A press accepted begins an utterance no word of which is heard yet, every word
\* settled being older.
LEMMA OrderBegins ==
  ASSUME TypeOK, WordsInv, Next, ~Environment, Hearing, BeginUtterance
  PROVE  QueueOrdered' /\ WordsOrdered' /\ UtteranceOwns' /\ FinalLast'
<1> DEFINE g == frontend[1].gesture
<1>1. /\ inFlight = Nil /\ inFlight' = g /\ listening' = TRUE
      /\ UNCHANGED <<open, closed, answers, delivering, pendingFinal, typed>>
      /\ 1 \in Stamped /\ frontend[1].kind = "KeyDown" /\ frontend' = Tail(frontend)
  BY DEF BeginUtterance, AcceptKeyDown, ReadFrontend, FrontendArm, Awake, recognizerVars, outcome,
     Stamped, TypeOK, KeysTypeOK
<1>2. Spoken = {} /\ Spoken' = {} /\ Settled' = Settled
  BY <1>1 DEF WordsInv, UtteranceOwns, Spoken, Settled
<1>3. /\ QueueOrdered' /\ gesture' = gesture
      /\ \A x : (\A i \in Stamped : NotAfter(x, frontend[i]))
                  => \A i \in Stamped' : NotAfter(x, frontend'[i])
  BY OrderKept DEF WordsInv
<1>4. \A i \in Stamped' : i + 1 \in Stamped /\ frontend'[i] = frontend[i + 1] /\ 1 < i + 1
  BY <1>1 DEF Stamped, TypeOK, KeysTypeOK
<1>5. \A i \in Stamped' : g <= frontend'[i].gesture
  BY <1>1, <1>4 DEF WordsInv, QueueOrdered, NotAfter
<1>6. g <= gesture
  BY <1>1 DEF WordsInv, QueueOrdered
<1>7. \A w \in Settled : w < g
  BY <1>1 DEF WordsInv, WordsOrdered, NotAfter
<1> HIDE DEF g
<1>8. WordsOrdered'
  BY <1>2, <1>3 DEF WordsInv, WordsOrdered
<1>9. UtteranceOwns'
  BY <1>1, <1>2, <1>3, <1>5, <1>6, <1>7 DEF UtteranceOwns
<1> QED
  BY <1>3, <1>8, <1>9 DEF Hearing

\* WordsInv is inductive: words enter with the chunks read, and leave with a text
\* delivered or a writer's last command.
LEMMA WordsStep ==
  ASSUME ~MayMute, ~AutoEndpoint, TypeOK, FinInv, WordsInv, Next
  PROVE  WordsInv'
<1>1. QueueOrdered' /\ WordsOrdered' /\ UtteranceOwns' /\ FinalLast'
  <2>1. CASE Environment
    BY <2>1, OrderGrows
  <2>2. CASE ~Environment
    BY <2>2, HearingStep, TextsStep, FlightStep, OrderStays, OrderBegins
  <2> QED
    BY <2>1, <2>2
<1>2. StreamOwns' /\ Regions'
  BY StreamStep
<1>3. OwnTexts' /\ TextsApart'
  BY TextsStep DEF TextsMove
<1>4. OwnWords'
  BY <1>2, <1>3 DEF OwnWords, OwnTexts, Regions
<1> QED
  BY <1>1, <1>2, <1>3, <1>4 DEF WordsInv

\* A text, and what a streamed utterance puts in its field, holds no words spoken
\* before its key went down, and no words are in two texts: however late the
\* recognizer answers, however much audio a release finds queued, and where a
\* streamed text that failed is delivered again in full.
THEOREM OwnWordsAlwaysOnce ==
  ASSUME ~MayMute, ~AutoEndpoint
  PROVE  Spec => []OwnWordsOnce
<1>1. Init => WordsInv
  <2> SUFFICES ASSUME Init PROVE WordsInv
    OBVIOUS
  <2> USE DEF Init, RecognizerInit
  <2>1. Spoken = {}
    <3>1. \A w : w \notin Spoken
      BY SpokenIs
    <3> QED
      BY <3>1
  <2>2. Settled = {} /\ Stamped = {}
    <3>1. \A w : w \notin Settled
      BY SettledIs DEF TextOf
    <3> QED
      BY <3>1 DEF Stamped
  <2>3. OwnWords /\ TextsApart
    BY DEF OwnWords, Results, TextsApart, NeverTwice, TextOf
  <2>4. StreamOwns /\ FinalLast
    BY DEF StreamOwns, FinalLast
  <2> QED
    BY <2>1, <2>2, <2>3, <2>4 DEF WordsInv, QueueOrdered, WordsOrdered, UtteranceOwns
<1>2. TypeOK /\ FinInv /\ WordsInv /\ [Next]_vars => WordsInv'
  <2> SUFFICES ASSUME TypeOK, FinInv, WordsInv, [Next]_vars PROVE WordsInv'
    OBVIOUS
  <2>1. CASE UNCHANGED vars
    BY <2>1 DEF WordsInv, OwnWords, Results, TextsApart, NeverTwice, StreamOwns, QueueOrdered,
       WordsOrdered, UtteranceOwns, FinalLast, Stamped, Spoken, Settled,
       vars, recognizerVars, keys, supervisor, current, capture, stream, outcome
  <2> QED
    BY <2>1, WordsStep
<1>3. WordsInv => OwnWordsOnce
  BY DEF WordsInv, OwnWordsOnce, TextsApart
<1> QED
  BY <1>1, <1>2, <1>3, FinInvCorrect, TypeCorrect, PTL DEF Spec

=============================================================================
