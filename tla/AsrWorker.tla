------------------------------ MODULE AsrWorker ------------------------------
(***************************************************************************)
(* The recognizer thread and the feed that leads to it                     *)
(* (crates/outloud/src/recognize.rs), at the grain of their atomic steps:  *)
(* an unbounded channel, and beside it the counter that bounds the audio   *)
(* in it.  The supervisor, the only one to push and finalize, is the       *)
(* environment.  The thread is shown to implement Recognizer, which is all *)
(* that Pipeline knows of it.                                              *)
(*                                                                         *)
(* Audio is the set of the utterances it was pushed in, numbered from 0.   *)
(***************************************************************************)
EXTENDS Naturals, Sequences, FiniteSets, Counting

CONSTANTS
  QueueDepth,   \* QUEUE_DEPTH: chunks queued before push drops audio
  Nil,          \* Option::None
  MaxGestures,  \* bound: utterances finalized
  MaxAnswers    \* bound: partials are held back while this many answers wait

ASSUME WorkerAssumption ==
  /\ QueueDepth \in Nat \ {0}
  /\ MaxGestures \in Nat /\ MaxAnswers \in Nat
  /\ \A audio \in SUBSET (0..MaxGestures) : audio # Nil

VARIABLES
  pusher,     \* where push is: "Idle", "Send" (counted) or "Undo" (send failed)
  queued,     \* AudioFeed::queued
  channel,    \* the AudioMsg channel
  gone,       \* has the supervisor dropped its ends?
  step,       \* where the thread is in its loop
  alive,      \* has the thread not returned or panicked?
  readiness,  \* what it said on the readiness channel
  rec,        \* the recognizer: the audio it was fed, or Nil
  hand,       \* the chunk in hand: its audio
  answers,    \* AsrEvents the supervisor has not read
  taken,      \* history: audio received since the last Final
  ended,      \* history: finalizes called
  finals      \* history: Finals sent

vars == <<pusher, queued, channel, gone, step, alive, readiness, rec, hand,
          answers, taken, ended, finals>>

Utterance == 0..MaxGestures
Audio     == SUBSET Utterance
AudioMsg  == [kind : {"Chunk"}, audio : Audio] \cup [kind : {"Finalize"}]
AsrEvent  == [kind : {"Partial", "Final"}, ok : BOOLEAN, text : Audio]

TypeOK ==
  /\ pusher \in {"Idle", "Send", "Undo"}
  /\ queued \in 0..QueueDepth
  /\ channel \in Seq(AudioMsg)
  /\ gone \in BOOLEAN /\ alive \in BOOLEAN
  /\ step \in {"Start", "Recv", "Uncount", "Hear", "Finish", "Prewarm"}
  /\ readiness \in {"Loading", "Ready", "Failed", "Vanished"}
  /\ rec \in Audio \cup {Nil}
  /\ hand \in Audio
  /\ answers \in Seq(AsrEvent)
  /\ taken \in Audio
  /\ ended \in Utterance /\ finals \in Nat

Init ==
  /\ pusher = "Idle" /\ queued = 0 /\ channel = <<>> /\ gone = FALSE
  /\ step = "Start" /\ alive = TRUE /\ readiness = "Loading"
  /\ rec = Nil /\ hand = {}
  /\ answers = <<>>
  /\ taken = {} /\ ended = 0 /\ finals = 0

feed   == <<pusher, queued, channel, ended>>
thread == <<step, alive, readiness, rec, hand, taken, finals>>

-----------------------------------------------------------------------------
(***************************************************************************)
(* The supervisor's side: AudioFeed.                                       *)
(***************************************************************************)
\* Mutant: the bound is off by one.
PushCountsPast ==
  /\ ~gone /\ pusher = "Idle"
  /\ queued <= QueueDepth
  /\ queued' = queued + 1
  /\ pusher' = "Send"
  /\ UNCHANGED <<channel, ended, gone, answers, thread>>

\* push reads the counter; a full queue drops the chunk, otherwise it is counted.
PushCounts ==
  /\ ~gone /\ pusher = "Idle"
  /\ queued < QueueDepth
  /\ queued' = queued + 1
  /\ pusher' = "Send"
  /\ UNCHANGED <<channel, ended, gone, answers, thread>>

\* The send fails when the thread's end of the channel is gone.
PushSends ==
  /\ pusher = "Send"
  /\ IF alive
     THEN /\ \E audio \in {{}, {ended}} :
               channel' = Append(channel, [kind |-> "Chunk", audio |-> audio])
          /\ pusher' = "Idle"
     ELSE pusher' = "Undo" /\ UNCHANGED channel
  /\ UNCHANGED <<queued, ended, gone, answers, thread>>

PushUndoes ==
  /\ pusher = "Undo"
  /\ queued' = queued - 1
  /\ pusher' = "Idle"
  /\ UNCHANGED <<channel, ended, gone, answers, thread>>

\* A failing send is ignored.
CallFinalize ==
  /\ ~gone /\ pusher = "Idle"
  /\ ended < MaxGestures /\ ended' = ended + 1
  /\ channel' = IF alive THEN Append(channel, [kind |-> "Finalize"]) ELSE channel
  /\ UNCHANGED <<pusher, queued, gone, answers, thread>>

ReadAnswer ==
  /\ ~gone /\ answers # <<>>
  /\ answers' = Tail(answers)
  /\ UNCHANGED <<feed, gone, thread>>

\* `run` returns: the feed and the receiver of the answers are dropped.
Leave ==
  /\ ~gone /\ pusher = "Idle"
  /\ gone' = TRUE
  /\ UNCHANGED <<feed, answers, thread>>

-----------------------------------------------------------------------------
(***************************************************************************)
(* The thread: worker.                                                     *)
(***************************************************************************)
\* The first construction reports readiness; the thread ends when it fails.
Start(outcome) ==
  /\ alive /\ step = "Start"
  /\ readiness' = outcome
  /\ alive' = (outcome = "Ready")
  /\ rec' = IF outcome = "Ready" THEN {} ELSE Nil
  /\ step' = "Recv"
  /\ UNCHANGED <<feed, gone, answers, hand, taken, finals>>

\* recv takes what is queued even when the feed is gone.
Receive ==
  /\ alive /\ step = "Recv"
  /\ channel # <<>>
  /\ channel' = Tail(channel)
  /\ IF Head(channel).kind = "Chunk"
     THEN /\ step' = "Uncount"
          /\ hand' = Head(channel).audio
          /\ taken' = taken \cup Head(channel).audio
     ELSE step' = "Finish" /\ UNCHANGED <<hand, taken>>
  /\ UNCHANGED <<pusher, queued, ended, gone, answers, alive, readiness, rec, finals>>

Exit == alive' = FALSE /\ UNCHANGED <<feed, gone, answers, step, readiness, rec,
                                     hand, taken, finals>>

\* Mutant: the thread waits for more of a channel nobody holds.
HangupOnSend ==
  /\ alive /\ gone
  /\ step \in {"Hear", "Finish"}
  /\ Exit

\* The supervisor is gone: an empty channel hangs up, and no answer can be sent.
Hangup ==
  /\ alive /\ gone
  /\ (step = "Recv" /\ channel = <<>>) \/ step \in {"Hear", "Finish"}
  /\ Exit

\* Mutant: only a chunk that is fed frees its slot.
UncountIfFed ==
  /\ alive /\ step = "Uncount"
  /\ queued' = IF rec = Nil THEN queued ELSE queued - 1
  /\ step' = "Hear"
  /\ UNCHANGED <<pusher, channel, ended, gone, answers, alive, readiness, rec,
                 hand, taken, finals>>

\* "Must happen for every chunk on every path."
Uncount ==
  /\ alive /\ step = "Uncount"
  /\ queued' = queued - 1
  /\ step' = "Hear"
  /\ UNCHANGED <<pusher, channel, ended, gone, answers, alive, readiness, rec,
                 hand, taken, finals>>

\* make_recognizer, which may fail.
Built == {{}, Nil}

Send(ev) == ~gone /\ answers' = Append(answers, ev)

\* A recognizer that could not be prewarmed is rebuilt, then fed; it may have a
\* hypothesis to report.
Hear ==
  /\ alive /\ step = "Hear"
  /\ \E r \in IF rec = Nil THEN Built ELSE {rec} :
       /\ rec' = IF r = Nil THEN Nil ELSE r \cup hand
       /\ \/ UNCHANGED answers
          \/ /\ r # Nil
             /\ Len(answers) < MaxAnswers
             /\ \E text \in (SUBSET (r \cup hand)) \ {{}} :
                  Send([kind |-> "Partial", ok |-> TRUE, text |-> text])
  /\ step' = "Recv"
  /\ UNCHANGED <<feed, gone, alive, readiness, hand, taken, finals>>

\* Mutant: an utterance without a recognizer is not answered.
FinishIfBuilt ==
  /\ alive /\ step = "Finish"
  /\ IF rec = Nil THEN UNCHANGED <<answers, finals>>
     ELSE Send([kind |-> "Final", ok |-> TRUE, text |-> {}]) /\ finals' = finals + 1
  /\ rec' = Nil
  /\ taken' = {}
  /\ step' = "Prewarm"
  /\ UNCHANGED <<feed, gone, alive, readiness, hand>>

\* The recognizer is spent on its utterance.  One built for the occasion has
\* heard nothing; one that cannot be built is answered for all the same.
Finish ==
  /\ alive /\ step = "Finish"
  /\ \E ok \in BOOLEAN :
     \E text \in SUBSET (IF rec = Nil \/ ~ok THEN {} ELSE rec) :
       Send([kind |-> "Final", ok |-> ok, text |-> text])
  /\ rec' = Nil
  /\ taken' = {}
  /\ finals' = finals + 1
  /\ step' = "Prewarm"
  /\ UNCHANGED <<feed, gone, alive, readiness, hand>>

Prewarm ==
  /\ alive /\ step = "Prewarm"
  /\ rec' \in Built
  /\ step' = "Recv"
  /\ UNCHANGED <<feed, gone, answers, alive, readiness, hand, taken, finals>>

\* A backend panics while it is built, fed or finalized.
Panic ==
  /\ alive /\ step \in {"Hear", "Finish", "Prewarm"}
  /\ Exit

-----------------------------------------------------------------------------
Supervisor == PushCounts \/ PushSends \/ PushUndoes \/ CallFinalize \/ ReadAnswer \/ Leave

Worker ==
  \/ \E outcome \in {"Ready", "Failed", "Vanished"} : Start(outcome)
  \/ Receive \/ Hangup \/ Uncount \/ Hear \/ Finish \/ Prewarm

Next == Supervisor \/ Worker \/ Panic

Spec == Init /\ [][Next]_vars

\* A running thread is scheduled, and a backend that is called returns or panics.
FairSpec == Spec /\ WF_vars(Worker)

-----------------------------------------------------------------------------
(***************************************************************************)
(* Properties.                                                             *)
(***************************************************************************)
\* The counter is the audio that takes up room: what is in the channel, the chunk
\* about to be sent, and the chunk received whose slot is not free yet.  Were it
\* ever more, push would in time drop all audio; were it less, it would wrap.
CounterExact ==
  queued = Count("Chunk", channel) + (IF pusher = "Idle" THEN 0 ELSE 1)
                               + (IF step = "Uncount" THEN 1 ELSE 0)

\* "A lost finalize is a silently swallowed utterance": every one is answered,
\* unless the thread ends, which the supervisor sees as a closed channel.
FinalizeAnswered == \A n \in Utterance : ended >= n ~> finals >= n \/ ~alive

\* A full queue has room again: the recognizer falling behind costs a gap.
AudioFlowsAgain == queued = QueueDepth ~> queued < QueueDepth \/ ~alive

\* When the supervisor leaves the thread ends too.
ThreadEnds == gone ~> ~alive

\* Nothing the supervisor waits for stays away: a Final, room for audio, the end of the thread.
EverythingAnswered == FinalizeAnswered /\ AudioFlowsAgain /\ ThreadEnds

-----------------------------------------------------------------------------
(***************************************************************************)
(* The thread implements Recognizer: what it has in hand and what is in    *)
(* the channel is the audio of each finalize it has not answered, then the *)
(* audio pushed since the last.                                            *)
(***************************************************************************)
Pending == IF step = "Finish" THEN <<[kind |-> "Finalize"]>> \o channel ELSE channel

FinalizesBefore(i) == Cardinality({j \in 1..i-1 : Pending[j].kind = "Finalize"})

Unanswered == FinalizesBefore(Len(Pending) + 1)

\* The audio pushed after n of the pending finalizes and before the next.
Segment(n) ==
  (UNION {Pending[i].audio : i \in {j \in DOMAIN Pending :
            Pending[j].kind = "Chunk" /\ FinalizesBefore(j) = n}})
    \cup (IF n = 0 THEN taken ELSE {})

R == INSTANCE Recognizer WITH
       open   <- Segment(Unanswered),
       closed <- [n \in 1..Unanswered |-> Segment(n - 1)]

\* Every finalize gets one Final, in order, with none but its own audio, and
\* dropped chunks, rebuilt recognizers and a dying thread change nothing in that.
ImplementsRecognizer == R!RecognizerSpec
=============================================================================
