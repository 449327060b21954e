----------------------------- MODULE Recognizer -----------------------------
(***************************************************************************)
(* What the recognizer thread promises the supervisor, without saying how  *)
(* (AsrWorker is the thread itself, and is checked to implement this):     *)
(* every finalize is answered by exactly one Final, in order, with no      *)
(* words but those of the audio fed since the finalize before it.          *)
(*                                                                         *)
(* Audio is identified by the gesture during which it was recorded; audio  *)
(* and transcripts are sets of gestures.                                   *)
(***************************************************************************)
EXTENDS Naturals, Sequences

CONSTANTS
  MaxGestures,  \* bound: key presses in a behaviour
  MaxAnswers    \* bound: partials are held back while this many answers wait

ASSUME RecognizerAssumption == MaxGestures \in Nat /\ MaxAnswers \in Nat

VARIABLES
  readiness,  \* the outcome of the first construction
  alive,      \* is the thread there to answer?
  open,       \* audio fed since the last finalize
  closed,     \* the audio of each finalize not answered yet
  answers     \* the AsrEvents the supervisor has not read

recognizerVars == <<readiness, alive, open, closed, answers>>

Gesture  == 0..MaxGestures   \* 0 stands for before the first press
Audio    == SUBSET Gesture
\* Built, not built, or the thread died building it.
Outcome  == {"Ready", "Failed", "Vanished"}
AsrEvent == [kind : {"Partial", "Final"}, ok : BOOLEAN, text : Audio]

RecognizerTypeOK ==
  /\ readiness \in Outcome \cup {"Loading"}
  /\ alive \in BOOLEAN
  /\ open \in Audio
  /\ closed \in Seq(Audio)
  /\ answers \in Seq(AsrEvent)

RecognizerInit ==
  /\ readiness = "Loading" /\ alive = TRUE
  /\ open = {}
  /\ closed = <<>>
  /\ answers = <<>>

\* The first construction, the readiness probe.
Construct(outcome) ==
  /\ readiness = "Loading"
  /\ readiness' = outcome
  /\ alive' = (outcome = "Ready")
  /\ UNCHANGED <<open, closed, answers>>

\* A backend panics and takes the thread with it.
Die ==
  /\ readiness = "Ready" /\ alive
  /\ alive' = FALSE
  /\ UNCHANGED <<readiness, open, closed, answers>>

\* AudioFeed::push, as far as it was not dropped.
Feed(audio) ==
  /\ open' = open \cup audio
  /\ UNCHANGED <<readiness, alive, closed, answers>>

\* Mutant: the recognizer keeps the audio of the utterance it finalizes.
FinalizeKeeps(audio) ==
  /\ closed' = Append(closed, open \cup audio)
  /\ open' = open \cup audio
  /\ UNCHANGED <<readiness, alive, answers>>

\* AudioFeed::finalize, with the audio pushed in the same breath.
Finalize(audio) ==
  /\ closed' = Append(closed, open \cup audio)
  /\ open' = {}
  /\ UNCHANGED <<readiness, alive, answers>>

\* A hypothesis about the utterance at the head of the queue.
Hypothesis == IF closed = <<>> THEN open ELSE Head(closed)

EmitPartial(text) ==
  /\ readiness = "Ready" /\ alive
  /\ Len(answers) < MaxAnswers
  /\ text # {} /\ text \subseteq Hypothesis
  /\ answers' = Append(answers, [kind |-> "Partial", ok |-> TRUE, text |-> text])
  /\ UNCHANGED <<readiness, alive, open, closed>>

EmitFinal(ok, text) ==
  /\ readiness = "Ready" /\ alive
  /\ closed # <<>>
  /\ text \subseteq (IF ok THEN Head(closed) ELSE {})
  /\ closed' = Tail(closed)
  /\ answers' = Append(answers, [kind |-> "Final", ok |-> ok, text |-> text])
  /\ UNCHANGED <<readiness, alive, open>>

\* The supervisor reads one event.
ReadAnswer ==
  /\ answers # <<>>
  /\ answers' = Tail(answers)
  /\ UNCHANGED <<readiness, alive, open, closed>>

RecognizerNext ==
  \/ \E outcome \in Outcome : Construct(outcome)
  \/ Die
  \/ \E audio \in Audio : Feed(audio) \/ Finalize(audio) \/ EmitPartial(audio)
  \/ \E ok \in BOOLEAN, text \in Audio : EmitFinal(ok, text)
  \/ ReadAnswer

RecognizerSpec == RecognizerInit /\ [][RecognizerNext]_recognizerVars
=============================================================================
