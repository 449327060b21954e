----------------------------- MODULE AudioProofs -----------------------------
(***************************************************************************)
(* The recognizer thread, for every queue depth: whatever the interleaving *)
(* of push with the thread, the feed's counter counts exactly the audio    *)
(* that takes up room, and the thread implements the recognizer that the   *)
(* pipeline is modelled with.  And the backends it calls: what they answer *)
(* is the utterance, for any amount of audio, of utterances and of faults. *)
(* And what stands on either side of it: the ring of the microphone, the   *)
(* segmenter behind it, and the store of the model.                        *)
(***************************************************************************)
EXTENDS AsrWorker, AudioChain, Segmenter, Backends, ModelStore,
        SequenceTheorems, FiniteSetTheorems, WellFoundedInduction

\* A decrement of the counter is of a Nat only because the counter is exact: the
\* chunk being uncounted is one of those counted.  So the two are proved together.
WorkerInv == TypeOK /\ CounterExact

LEMMA WorkerTypes ==
  ASSUME TypeOK
  PROVE  /\ queued \in Nat /\ QueueDepth \in Nat /\ Count("Chunk", channel) \in Nat
         /\ channel \in Seq(AudioMsg)
         /\ channel # <<>> => Tail(channel) \in Seq(AudioMsg) /\ Head(channel) \in AudioMsg
BY CountIsNat, WorkerAssumption DEF TypeOK

\* The supervisor's steps.
LEMMA SupervisorStep ==
  ASSUME WorkerInv, Supervisor
  PROVE  WorkerInv'
<1> USE WorkerTypes DEF WorkerInv, feed, thread
<1>1. CASE PushCounts
  <2>1. TypeOK'
    BY <1>1 DEF PushCounts, TypeOK
  <2> QED
    BY <1>1, <2>1 DEF PushCounts, CounterExact
<1>2. CASE PushSends
  <2>1. CASE ~alive
    BY <1>2, <2>1 DEF PushSends, TypeOK, CounterExact
  <2>2. CASE alive
    <3>1. PICK audio \in {{}, {ended}} : channel' = Append(channel, [kind |-> "Chunk", audio |-> audio])
      BY <1>2, <2>2 DEF PushSends
    <3> DEFINE msg == [kind |-> "Chunk", audio |-> audio]
    <3>2. audio \in Audio
      BY DEF TypeOK, Audio
    <3>3. msg \in AudioMsg /\ msg.kind = "Chunk"
      BY <3>2 DEF AudioMsg
    <3> HIDE DEF msg
    <3>4. channel' = Append(channel, msg) /\ channel' \in Seq(AudioMsg)
      BY <3>1, <3>3 DEF msg
    <3>5. Count("Chunk", channel') = Count("Chunk", channel) + 1
      BY <3>3, <3>4, CountAppend
    <3>6. TypeOK'
      BY <1>2, <2>2, <3>4 DEF PushSends, TypeOK
    <3> QED
      BY <1>2, <2>2, <3>5, <3>6 DEF PushSends, CounterExact
  <2> QED
    BY <2>1, <2>2
<1>3. CASE PushUndoes
  <2>1. queued # 0
    BY <1>3 DEF PushUndoes, CounterExact
  <2>2. TypeOK'
    BY <1>3, <2>1 DEF PushUndoes, TypeOK
  <2> QED
    BY <1>3, <2>2 DEF PushUndoes, CounterExact
<1>4. CASE CallFinalize
  <2> DEFINE msg == [kind |-> "Finalize"]
  <2>1. msg \in AudioMsg /\ msg.kind # "Chunk"
    BY DEF AudioMsg
  <2>2. channel' = Append(channel, msg) \/ channel' = channel
    BY <1>4 DEF CallFinalize
  <2> HIDE DEF msg
  <2>3. Count("Chunk", Append(channel, msg)) = Count("Chunk", channel) + 0
    BY <2>1, CountAppend
  <2>4. Count("Chunk", channel') = Count("Chunk", channel)
    <3>1. Count("Chunk", channel) \in Nat
      BY WorkerTypes
    <3>2. CASE channel' = channel
      BY <3>2
    <3>3. CASE channel' = Append(channel, msg)
      BY <2>3, <3>1, <3>3
    <3> QED
      BY <2>2, <3>2, <3>3
  <2>5. channel' \in Seq(AudioMsg)
    BY <2>1, <2>2
  <2>6. ended' \in Utterance
    BY <1>4, WorkerAssumption DEF CallFinalize, TypeOK, Utterance
  <2>7. TypeOK'
    BY <1>4, <2>5, <2>6 DEF CallFinalize, TypeOK
  <2> QED
    BY <1>4, <2>4, <2>7 DEF CallFinalize, CounterExact
<1>5. CASE ReadAnswer
  <2>1. answers' \in Seq(AsrEvent)
    BY <1>5 DEF ReadAnswer, TypeOK
  <2> QED
    BY <1>5, <2>1 DEF ReadAnswer, TypeOK, CounterExact
<1>6. CASE Leave
  BY <1>6 DEF Leave, TypeOK, CounterExact
<1> QED
  BY <1>1, <1>2, <1>3, <1>4, <1>5, <1>6 DEF Supervisor

\* The thread's steps.
LEMMA ThreadStep ==
  ASSUME WorkerInv, Worker \/ Panic
  PROVE  WorkerInv'
<1> USE WorkerTypes DEF WorkerInv, feed, thread
<1>1. ASSUME NEW outcome \in {"Ready", "Failed", "Vanished"}, Start(outcome)
      PROVE  WorkerInv'
  BY <1>1 DEF Start, TypeOK, CounterExact, Audio
<1>2. CASE Receive
  <2>1. CASE Head(channel).kind = "Chunk"
    <3>1. Count("Chunk", channel') = Count("Chunk", channel) - 1
      BY <1>2, <2>1, CountTail DEF Receive
    <3>2. Head(channel).audio \in Audio
      BY <1>2, <2>1 DEF Receive, AudioMsg
    <3>3. TypeOK'
      BY <1>2, <2>1, <3>2 DEF Receive, TypeOK, Audio
    <3> QED
      BY <1>2, <2>1, <3>1, <3>3 DEF Receive, CounterExact
  <2>2. CASE Head(channel).kind # "Chunk"
    <3>1. Count("Chunk", channel') = Count("Chunk", channel) - 0
      BY <1>2, <2>2, CountTail DEF Receive
    <3>2. TypeOK'
      BY <1>2, <2>2 DEF Receive, TypeOK
    <3> QED
      BY <1>2, <2>2, <3>1, <3>2 DEF Receive, CounterExact
  <2> QED
    BY <2>1, <2>2
<1>3. CASE Hangup \/ Panic
  BY <1>3 DEF Hangup, Panic, Exit, TypeOK, CounterExact
<1>4. CASE Uncount
  <2>1. queued # 0
    BY <1>4 DEF Uncount, CounterExact
  <2>2. TypeOK'
    BY <1>4, <2>1 DEF Uncount, TypeOK
  <2> QED
    BY <1>4, <2>2 DEF Uncount, CounterExact
<1>5. CASE Hear
  <2>1. PICK r \in IF rec = Nil THEN Built ELSE {rec} :
          /\ rec' = IF r = Nil THEN Nil ELSE r \cup hand
          /\ \/ UNCHANGED answers
             \/ \E text \in (SUBSET (r \cup hand)) \ {{}} :
                  /\ r # Nil
                  /\ answers' = Append(answers, [kind |-> "Partial", ok |-> TRUE, text |-> text])
    BY <1>5 DEF Hear, Send
  <2>2. r \in Audio \cup {Nil} /\ hand \in Audio
    BY DEF TypeOK, Built, Audio
  <2>3. rec' \in Audio \cup {Nil}
    BY <2>1, <2>2 DEF Audio
  <2>4. answers' \in Seq(AsrEvent)
    <3>1. ASSUME NEW text \in SUBSET (r \cup hand), r # Nil
          PROVE  [kind |-> "Partial", ok |-> TRUE, text |-> text] \in AsrEvent
      BY <2>2, <3>1 DEF AsrEvent, Audio
    <3>2. CASE UNCHANGED answers
      BY <3>2 DEF TypeOK
    <3>3. CASE \E text \in (SUBSET (r \cup hand)) \ {{}} :
                 /\ r # Nil
                 /\ answers' = Append(answers, [kind |-> "Partial", ok |-> TRUE, text |-> text])
      BY <3>1, <3>3 DEF TypeOK
    <3> QED
      BY <2>1, <3>2, <3>3
  <2> QED
    BY <1>5, <2>3, <2>4 DEF Hear, TypeOK, CounterExact
<1>6. CASE Finish
  <2>1. answers' \in Seq(AsrEvent)
    <3>1. PICK ok \in BOOLEAN :
            \E text \in SUBSET (IF rec = Nil \/ ~ok THEN {} ELSE rec) :
              answers' = Append(answers, [kind |-> "Final", ok |-> ok, text |-> text])
      BY <1>6 DEF Finish, Send
    <3>2. PICK text \in SUBSET (IF rec = Nil \/ ~ok THEN {} ELSE rec) :
            answers' = Append(answers, [kind |-> "Final", ok |-> ok, text |-> text])
      BY <3>1
    <3>3. text \in Audio
      BY <3>2 DEF TypeOK, Audio
    <3>4. [kind |-> "Final", ok |-> ok, text |-> text] \in AsrEvent
      BY <3>3 DEF AsrEvent
    <3> QED
      BY <3>2, <3>4 DEF TypeOK
  <2> QED
    BY <1>6, <2>1 DEF Finish, TypeOK, CounterExact, Audio
<1>7. CASE Prewarm
  BY <1>7 DEF Prewarm, Built, TypeOK, CounterExact, Audio
<1> QED
  BY <1>1, <1>2, <1>3, <1>4, <1>5, <1>6, <1>7 DEF Worker

LEMMA WorkerInvCorrect == Spec => []WorkerInv
<1>1. Init => WorkerInv
  <2> SUFFICES ASSUME Init PROVE WorkerInv
    OBVIOUS
  <2>1. 0 \in Utterance /\ {} \in Audio
    BY WorkerAssumption DEF Utterance, Audio
  <2>2. 0 \in 0..QueueDepth
    BY WorkerAssumption
  <2>3. TypeOK
    <3>1. <<>> \in Seq(AudioMsg) /\ <<>> \in Seq(AsrEvent)
      OBVIOUS
    <3> QED
      BY <2>1, <2>2, <3>1 DEF Init, TypeOK
  <2> QED
    BY <2>3, CountEmpty DEF Init, WorkerInv, CounterExact
<1>2. WorkerInv /\ [Next]_vars => WorkerInv'
  <2> SUFFICES ASSUME WorkerInv, [Next]_vars PROVE WorkerInv'
    OBVIOUS
  <2>1. CASE UNCHANGED vars
    BY <2>1 DEF WorkerInv, TypeOK, CounterExact, vars
  <2> QED
    BY <2>1, SupervisorStep, ThreadStep DEF Next
<1> QED
  BY <1>1, <1>2, PTL DEF Spec

\* The queue's counter never wraps below zero and never exceeds QUEUE_DEPTH.
THEOREM WorkerTypeCorrect == Spec => []TypeOK
<1>1. WorkerInv => TypeOK
  BY DEF WorkerInv
<1> QED
  BY <1>1, WorkerInvCorrect, PTL

\* The counter is exact in every interleaving, so push drops audio when, and only
\* when, QUEUE_DEPTH chunks really are on their way to the recognizer.
THEOREM CounterAlwaysExact == Spec => []CounterExact
<1>1. WorkerInv => CounterExact
  BY DEF WorkerInv
<1> QED
  BY <1>1, WorkerInvCorrect, PTL

-----------------------------------------------------------------------------
(***************************************************************************)
(* The refinement.  Its mapping is a function of what is in the channel    *)
(* and of what was received: for every channel q and audio t,              *)
(***************************************************************************)
\* the finalizes before position i, those owed, the audio sent after n of them,
FinalizesIn(q, i) == Cardinality({j \in 1..i-1 : q[j].kind = "Finalize"})
Owed(q) == FinalizesIn(q, Len(q) + 1)
AudioIn(q, n) == UNION {q[i].audio : i \in {j \in DOMAIN q : q[j].kind = "Chunk" /\ FinalizesIn(q, j) = n}}
Segm(q, t, n) == AudioIn(q, n) \cup (IF n = 0 THEN t ELSE {})

\* the audio that is open, and that of each finalize owed.
Fin == [kind |-> "Finalize"]
OpenOf(q, t) == Segm(q, t, Owed(q))
ClosedOf(q, t) == [n \in 1..Owed(q) |-> Segm(q, t, n - 1)]

\* The model's operators are these, of the messages pending.
LEMMA Unfold == /\ Unanswered = Owed(Pending)
                /\ \A n : Segment(n) = Segm(Pending, taken, n)
<1>1. \A i : FinalizesBefore(i) = FinalizesIn(Pending, i)
  BY DEF FinalizesBefore, FinalizesIn
<1>2. Unanswered = Owed(Pending)
  BY <1>1 DEF Unanswered, Owed
<1>3. ASSUME NEW n PROVE Segment(n) = Segm(Pending, taken, n)
  <2>1. \A x : x \in Segment(n) <=>
          \/ \E i \in DOMAIN Pending : Pending[i].kind = "Chunk" /\ FinalizesBefore(i) = n /\ x \in Pending[i].audio
          \/ n = 0 /\ x \in taken
    BY DEF Segment
  <2>2. \A x : x \in Segm(Pending, taken, n) <=>
          \/ \E i \in DOMAIN Pending : Pending[i].kind = "Chunk" /\ FinalizesIn(Pending, i) = n /\ x \in Pending[i].audio
          \/ n = 0 /\ x \in taken
    BY DEF Segm, AudioIn
  <2>3. \A x : x \in Segment(n) <=> x \in Segm(Pending, taken, n)
    BY <1>1, <2>1, <2>2
  <2> QED
    BY <2>3
<1> QED
  BY <1>2, <1>3

\* Finalizes are counted by a Nat that grows along the channel.
LEMMA FinalizesType ==
  ASSUME NEW q, NEW i \in Nat
  PROVE  /\ IsFiniteSet({j \in 1..i-1 : q[j].kind = "Finalize"})
         /\ FinalizesIn(q, i) \in Nat
         /\ \A k \in 0..i : FinalizesIn(q, k) <= FinalizesIn(q, i)
<1> DEFINE F(k) == {j \in 1..k-1 : q[j].kind = "Finalize"}
<1>1. \A k \in Nat : IsFiniteSet(F(k))
  <2> TAKE k \in Nat
  <2>1. IsFiniteSet(1..k-1)
    BY FS_Interval
  <2> QED
    BY <2>1, FS_Subset
<1>2. \A k \in 0..i : F(k) \in SUBSET F(i)
  OBVIOUS
<1> HIDE DEF F
<1>3. \A k \in 0..i : Cardinality(F(k)) <= Cardinality(F(i))
  BY <1>1, <1>2, FS_Subset
<1>4. Cardinality(F(i)) \in Nat
  BY <1>1, FS_CardinalityType
<1> QED
  BY <1>1, <1>3, <1>4 DEF FinalizesIn, F

\* Sending changes the count of nothing that was sent before.
LEMMA FinalizesAppend ==
  ASSUME NEW S, NEW q \in Seq(S), NEW m \in S
  PROVE  /\ \A i \in 1..Len(q) + 1 : FinalizesIn(Append(q, m), i) = FinalizesIn(q, i)
         /\ Owed(Append(q, m)) = Owed(q) + (IF m.kind = "Finalize" THEN 1 ELSE 0)
<1>1. /\ Len(q) \in Nat /\ Len(Append(q, m)) = Len(q) + 1
      /\ Append(q, m)[Len(q) + 1] = m
      /\ \A i \in 1..Len(q) : Append(q, m)[i] = q[i]
  OBVIOUS
<1>2. ASSUME NEW i \in 1..Len(q) + 1 PROVE FinalizesIn(Append(q, m), i) = FinalizesIn(q, i)
  <2>1. {j \in 1..i-1 : Append(q, m)[j].kind = "Finalize"} = {j \in 1..i-1 : q[j].kind = "Finalize"}
    BY <1>1
  <2> QED
    BY <2>1 DEF FinalizesIn
<1> DEFINE A == {j \in 1..Len(q) : q[j].kind = "Finalize"}
           B == {j \in 1..Len(q) + 1 : Append(q, m)[j].kind = "Finalize"}
<1>3. IsFiniteSet(A) /\ Owed(q) = Cardinality(A) /\ Owed(q) \in Nat /\ Owed(Append(q, m)) = Cardinality(B)
  <2>1. (Len(q) + 1) - 1 = Len(q) /\ (Len(q) + 2) - 1 = Len(q) + 1 /\ Len(q) + 1 + 1 = Len(q) + 2 /\ Len(q) + 1 \in Nat
    BY <1>1
  <2> QED
    BY <1>1, <2>1, FinalizesType DEF Owed, FinalizesIn
<1>4. CASE m.kind = "Finalize"
  <2>1. B = A \cup {Len(q) + 1} /\ Len(q) + 1 \notin A
    BY <1>1, <1>4
  <2> HIDE DEF A, B
  <2>2. Cardinality(B) = Cardinality(A) + 1
    BY <1>3, <2>1, FS_AddElement
  <2> QED
    BY <1>2, <1>3, <1>4, <2>2
<1>5. CASE m.kind # "Finalize"
  <2>1. B = A
    BY <1>1, <1>5
  <2> HIDE DEF A, B
  <2> QED
    BY <1>2, <1>3, <1>5, <2>1
<1> QED
  BY <1>4, <1>5

\* A finalize received counts for every message behind it.
LEMMA FinalizesTail ==
  ASSUME NEW S, NEW q \in Seq(S), q # <<>>
  PROVE  /\ \A i \in 1..Len(q) : FinalizesIn(q, i + 1) = FinalizesIn(Tail(q), i) + (IF Head(q).kind = "Finalize" THEN 1 ELSE 0)
         /\ Owed(q) = Owed(Tail(q)) + (IF Head(q).kind = "Finalize" THEN 1 ELSE 0)
<1>1. /\ Len(q) \in Nat \ {0} /\ Len(Tail(q)) = Len(q) - 1 /\ Head(q) = q[1]
      /\ \A i \in 1..Len(q) - 1 : Tail(q)[i] = q[i + 1]
  OBVIOUS
<1>2. ASSUME NEW i \in 1..Len(q)
      PROVE FinalizesIn(q, i + 1) = FinalizesIn(Tail(q), i) + (IF Head(q).kind = "Finalize" THEN 1 ELSE 0)
  <2> DEFINE A == {j \in 1..(i + 1)-1 : q[j].kind = "Finalize"}
             B == {j \in 1..i-1 : Tail(q)[j].kind = "Finalize"}
  <2>1. A \in SUBSET (Nat \ {0}) /\ B \in SUBSET (Nat \ {0}) /\ IsFiniteSet(A) /\ Cardinality(A) \in Nat
    <3>1. i + 1 \in Nat /\ A \in SUBSET (Nat \ {0}) /\ B \in SUBSET (Nat \ {0})
      OBVIOUS
    <3>2. IsFiniteSet(A)
      BY <3>1, FinalizesType
    <3> QED
      BY <3>1, <3>2, FS_CardinalityType
  <2>2. \A k \in Nat \ {0} : k \in B <=> k + 1 \in A
    BY <1>1
  <2>3. 1 \in A <=> Head(q).kind = "Finalize"
    BY <1>1
  <2> HIDE DEF A, B
  <2>4. Cardinality(B) = Cardinality(A) - (IF 1 \in A THEN 1 ELSE 0)
    BY <2>1, <2>2, ShiftDown
  <2>5. Cardinality(A) = Cardinality(B) + (IF Head(q).kind = "Finalize" THEN 1 ELSE 0)
    BY <2>1, <2>3, <2>4
  <2> QED
    BY <2>5 DEF FinalizesIn, A, B
<1> QED
  BY <1>1, <1>2 DEF Owed

\* The two kinds of message.
LEMMA Messages ==
  ASSUME NEW m \in AudioMsg
  PROVE  m.kind = "Finalize" \/ (m.kind = "Chunk" /\ m.audio \in Audio)
BY DEF AudioMsg

\* All of it is audio.
LEMMA SegmType ==
  ASSUME NEW q \in Seq(AudioMsg), NEW t \in Audio
  PROVE  \A n : Segm(q, t, n) \in Audio
<1>1. \A i \in DOMAIN q : q[i] \in AudioMsg
  OBVIOUS
<1>2. \A i \in DOMAIN q : q[i].kind = "Chunk" => q[i].audio \in SUBSET Utterance
  BY <1>1, Messages DEF Audio
<1>3. \A n : AudioIn(q, n) \in SUBSET Utterance
  <2> TAKE n
  <2> DEFINE J == {j \in DOMAIN q : q[j].kind = "Chunk" /\ FinalizesIn(q, j) = n}
  <2>1. \A i \in J : q[i].audio \in SUBSET Utterance
    BY <1>2
  <2> HIDE DEF J
  <2>2. \A x \in UNION {q[i].audio : i \in J} : x \in Utterance
    BY <2>1
  <2> QED
    BY <2>2 DEF AudioIn, J
<1> QED
  BY <1>3 DEF Segm, Audio

\* The mapping's sequence, element by element.
LEMMA ClosedIs ==
  ASSUME NEW q \in Seq(AudioMsg), NEW t \in Audio
  PROVE  /\ Owed(q) \in Nat
         /\ ClosedOf(q, t) \in Seq(Audio) /\ Len(ClosedOf(q, t)) = Owed(q)
         /\ \A n \in 1..Owed(q) : ClosedOf(q, t)[n] = Segm(q, t, n - 1)
         /\ ClosedOf(q, t) = <<>> <=> Owed(q) = 0
         /\ Owed(q) # 0 => Head(ClosedOf(q, t)) = Segm(q, t, 0)
<1>1. Owed(q) \in Nat
  <2>1. Len(q) + 1 \in Nat
    OBVIOUS
  <2> QED
    BY <2>1, FinalizesType DEF Owed
<1>2. ClosedOf(q, t) \in [1..Owed(q) -> Audio]
  BY SegmType DEF ClosedOf
<1>3. ClosedOf(q, t) \in Seq(Audio) /\ Len(ClosedOf(q, t)) = Owed(q)
  BY <1>1, <1>2
<1>4. \A n \in 1..Owed(q) : ClosedOf(q, t)[n] = Segm(q, t, n - 1)
  BY DEF ClosedOf
<1>5. ClosedOf(q, t) = <<>> <=> Owed(q) = 0
  BY <1>1, <1>3
<1>6. Owed(q) # 0 => Head(ClosedOf(q, t)) = Segm(q, t, 0)
  <2>1. ASSUME Owed(q) # 0 PROVE Head(ClosedOf(q, t)) = Segm(q, t, 0)
    <3>1. 1 \in 1..Owed(q) /\ 1 - 1 = 0
      BY <1>1, <2>1
    <3>2. Head(ClosedOf(q, t)) = ClosedOf(q, t)[1]
      BY <1>3, <1>5, <2>1
    <3>3. ClosedOf(q, t)[1] = Segm(q, t, 1 - 1)
      BY <1>4, <3>1
    <3> QED
      BY <3>1, <3>2, <3>3
  <2> QED
    BY <2>1
<1> QED
  BY <1>1, <1>3, <1>4, <1>5, <1>6

\* Before a message there are no more finalizes than in the channel.
LEMMA BeforeIsFewer ==
  ASSUME NEW q \in Seq(AudioMsg), NEW i \in DOMAIN q
  PROVE  FinalizesIn(q, i) \in Nat /\ FinalizesIn(q, i) <= Owed(q)
<1>1. Len(q) + 1 \in Nat /\ i \in Nat /\ i \in 0..Len(q) + 1
  OBVIOUS
<1> QED
  BY <1>1, FinalizesType DEF Owed

\* Audio that is sent is added to what is open.
LEMMA SendChunk ==
  ASSUME NEW q \in Seq(AudioMsg), NEW t \in Audio, NEW a \in Audio,
         NEW m \in AudioMsg, m.kind = "Chunk", m.audio = a
  PROVE  OpenOf(Append(q, m), t) = OpenOf(q, t) \cup a /\ ClosedOf(Append(q, m), t) = ClosedOf(q, t)
<1> DEFINE p == Append(q, m)
<1>1. /\ Len(q) \in Nat /\ DOMAIN q = 1..Len(q) /\ DOMAIN p = 1..Len(q) + 1 /\ p[Len(q) + 1] = m
      /\ \A i \in 1..Len(q) : p[i] = q[i]
  OBVIOUS
<1>2. Owed(p) = Owed(q) /\ Owed(q) \in Nat /\ \A i \in 1..Len(q) + 1 : FinalizesIn(p, i) = FinalizesIn(q, i)
  BY FinalizesAppend, ClosedIs
<1>3. FinalizesIn(q, Len(q) + 1) = Owed(q)
  BY DEF Owed
<1> HIDE DEF p
<1>4. \A n : Segm(p, t, n) = Segm(q, t, n) \cup (IF n = Owed(q) THEN a ELSE {})
  <2> TAKE n
  <2> DEFINE I == {j \in DOMAIN q : q[j].kind = "Chunk" /\ FinalizesIn(q, j) = n}
             J == {j \in DOMAIN p : p[j].kind = "Chunk" /\ FinalizesIn(p, j) = n}
  <2>1. J = I \cup (IF n = Owed(q) THEN {Len(q) + 1} ELSE {})
    BY <1>1, <1>2, <1>3
  <2>2. \A i \in I : p[i].audio = q[i].audio
    BY <1>1
  <2>3. p[Len(q) + 1].audio = a
    BY <1>1
  <2> HIDE DEF I, J
  <2>4. AudioIn(p, n) = AudioIn(q, n) \cup (IF n = Owed(q) THEN a ELSE {})
    <3>1. AudioIn(p, n) = UNION {p[i].audio : i \in J} /\ AudioIn(q, n) = UNION {q[i].audio : i \in I}
      BY DEF AudioIn, I, J
    <3>2. CASE n = Owed(q)
      BY <2>1, <2>2, <2>3, <3>1, <3>2
    <3>3. CASE n # Owed(q)
      BY <2>1, <2>2, <3>1, <3>3
    <3> QED
      BY <3>2, <3>3
  <2> QED
    BY <2>4 DEF Segm
<1>5. OpenOf(p, t) = OpenOf(q, t) \cup a
  BY <1>2, <1>4 DEF OpenOf
<1>6. \A n \in 1..Owed(q) : Segm(p, t, n - 1) = Segm(q, t, n - 1)
  <2> TAKE n \in 1..Owed(q)
  <2>1. n - 1 # Owed(q)
    BY <1>2
  <2> QED
    BY <1>4, <2>1
<1>7. ClosedOf(p, t) = ClosedOf(q, t)
  BY <1>2, <1>6 DEF ClosedOf
<1> QED
  BY <1>5, <1>7 DEF p

\* A finalize that is sent closes what is open.
LEMMA SendFinalize ==
  ASSUME NEW q \in Seq(AudioMsg), NEW t \in Audio, NEW m \in AudioMsg, m.kind = "Finalize"
  PROVE  OpenOf(Append(q, m), t) = {} /\ ClosedOf(Append(q, m), t) = Append(ClosedOf(q, t), OpenOf(q, t))
<1> DEFINE p == Append(q, m)
<1>1. /\ Len(q) \in Nat /\ DOMAIN q = 1..Len(q) /\ DOMAIN p = 1..Len(q) + 1 /\ p[Len(q) + 1] = m
      /\ \A i \in 1..Len(q) : p[i] = q[i]
      /\ p \in Seq(AudioMsg)
  OBVIOUS
<1>2. Owed(p) = Owed(q) + 1 /\ Owed(q) \in Nat /\ \A i \in 1..Len(q) + 1 : FinalizesIn(p, i) = FinalizesIn(q, i)
  BY FinalizesAppend, ClosedIs
<1> HIDE DEF p
<1>3. \A n : Segm(p, t, n) = Segm(q, t, n)
  <2> TAKE n
  <2> DEFINE I == {j \in DOMAIN q : q[j].kind = "Chunk" /\ FinalizesIn(q, j) = n}
             J == {j \in DOMAIN p : p[j].kind = "Chunk" /\ FinalizesIn(p, j) = n}
  <2>1. J = I
    BY <1>1, <1>2
  <2>2. \A i \in I : p[i].audio = q[i].audio
    BY <1>1
  <2> HIDE DEF I, J
  <2>3. UNION {p[i].audio : i \in J} = UNION {q[i].audio : i \in I}
    BY <2>1, <2>2
  <2> QED
    BY <2>3 DEF Segm, AudioIn, I, J
<1>4. OpenOf(p, t) = {}
  <2>1. {j \in DOMAIN q : q[j].kind = "Chunk" /\ FinalizesIn(q, j) = Owed(q) + 1} = {}
    BY <1>2, BeforeIsFewer
  <2>2. AudioIn(q, Owed(q) + 1) = {}
    BY <2>1 DEF AudioIn
  <2>3. Segm(q, t, Owed(q) + 1) = {}
    BY <1>2, <2>2 DEF Segm
  <2> QED
    BY <1>2, <1>3, <2>3 DEF OpenOf
<1>5. ClosedOf(p, t) = Append(ClosedOf(q, t), OpenOf(q, t))
  <2> DEFINE c == ClosedOf(q, t)
             d == ClosedOf(p, t)
             o == OpenOf(q, t)
  <2>1. c \in Seq(Audio) /\ d \in Seq(Audio) /\ o \in Audio /\ Len(c) = Owed(q) /\ Len(d) = Owed(q) + 1
    BY <1>1, <1>2, ClosedIs, SegmType DEF OpenOf
  <2>2. \A n \in 1..Owed(q) : d[n] = c[n]
    BY <1>1, <1>2, <1>3, ClosedIs
  <2>3. d[Owed(q) + 1] = o
    <3>1. Owed(q) + 1 \in 1..Owed(p) /\ (Owed(q) + 1) - 1 = Owed(q)
      BY <1>2
    <3>2. d[Owed(q) + 1] = Segm(p, t, (Owed(q) + 1) - 1)
      BY <1>1, <3>1, ClosedIs
    <3> QED
      BY <1>3, <3>1, <3>2 DEF OpenOf
  <2> HIDE DEF c, d, o
  <2>4. \A n \in 1..Len(d) : d[n] = Append(c, o)[n]
    BY <1>2, <2>1, <2>2, <2>3
  <2>5. Append(c, o) \in Seq(Audio) /\ Len(Append(c, o)) = Len(d)
    BY <1>2, <2>1
  <2>6. d = Append(c, o)
    BY <2>1, <2>4, <2>5, SeqEqual
  <2> QED
    BY <2>6 DEF c, d, o
<1> QED
  BY <1>4, <1>5 DEF p

\* Audio that is received was the first of what it belongs to.
LEMMA ReceiveChunk ==
  ASSUME NEW q \in Seq(AudioMsg), NEW t \in Audio, q # <<>>, Head(q).kind = "Chunk"
  PROVE  /\ OpenOf(Tail(q), t \cup Head(q).audio) = OpenOf(q, t)
         /\ ClosedOf(Tail(q), t \cup Head(q).audio) = ClosedOf(q, t)
<1> DEFINE p == Tail(q)
           a == Head(q).audio
<1>1. /\ Len(q) \in Nat \ {0} /\ DOMAIN q = 1..Len(q) /\ DOMAIN p = 1..Len(q) - 1 /\ q[1] = Head(q)
      /\ \A i \in 1..Len(q) - 1 : p[i] = q[i + 1]
  OBVIOUS
<1>2. Owed(p) = Owed(q) /\ Owed(q) \in Nat /\ \A i \in 1..Len(q) : FinalizesIn(q, i + 1) = FinalizesIn(p, i)
  <2>1. p \in Seq(AudioMsg)
    OBVIOUS
  <2>2. Owed(p) \in Nat /\ Owed(q) \in Nat
    BY <2>1, ClosedIs
  <2>3. \A i \in 1..Len(q) : FinalizesIn(p, i) \in Nat
    <3> TAKE i \in 1..Len(q)
    <3>1. i \in Nat
      OBVIOUS
    <3> HIDE DEF p
    <3> QED
      BY <3>1, FinalizesType
  <2> HIDE DEF p
  <2> QED
    BY <2>2, <2>3, FinalizesTail DEF p
<1>3. FinalizesIn(q, 1) = 0
  <2>1. {j \in 1..1-1 : q[j].kind = "Finalize"} = {}
    OBVIOUS
  <2> QED
    BY <2>1, FS_EmptySet DEF FinalizesIn
<1> HIDE DEF p
<1>4. \A n : Segm(p, t \cup a, n) = Segm(q, t, n)
  <2> TAKE n
  <2> DEFINE I == {j \in DOMAIN q : q[j].kind = "Chunk" /\ FinalizesIn(q, j) = n}
             J == {j \in DOMAIN p : p[j].kind = "Chunk" /\ FinalizesIn(p, j) = n}
  <2>1. \A j \in DOMAIN p : j \in J <=> j + 1 \in I
    BY <1>1, <1>2
  <2>2. 1 \in I <=> n = 0
    BY <1>1, <1>3
  <2>3. \A j \in J : p[j].audio = q[j + 1].audio
    BY <1>1
  <2>4. \A i \in I : i = 1 \/ (i - 1 \in J /\ (i - 1) + 1 = i)
    <3>1. TAKE i \in I
    <3>2. CASE i # 1
      <4>1. i - 1 \in DOMAIN p /\ (i - 1) + 1 = i
        BY <1>1, <3>2
      <4> QED
        BY <2>1, <4>1
    <3> QED
      BY <3>2
  <2>5. J \subseteq DOMAIN p /\ I \subseteq DOMAIN q /\ q[1].audio = a
    BY <1>1
  <2> HIDE DEF I, J, a
  <2>6. AudioIn(p, n) = UNION {p[i].audio : i \in J} /\ AudioIn(q, n) = UNION {q[i].audio : i \in I}
    BY DEF AudioIn, I, J
  <2>7. AudioIn(q, n) = AudioIn(p, n) \cup (IF n = 0 THEN a ELSE {})
    <3>1. ASSUME NEW x \in AudioIn(q, n), x \notin AudioIn(p, n) PROVE n = 0 /\ x \in a
      <4>1. PICK i \in I : x \in q[i].audio
        BY <2>6, <3>1
      <4>2. i = 1
        BY <2>3, <2>4, <2>6, <3>1, <4>1
      <4> QED
        BY <2>2, <2>5, <4>1, <4>2
    <3>2. ASSUME NEW x \in AudioIn(p, n) PROVE x \in AudioIn(q, n)
      <4>1. PICK j \in J : x \in p[j].audio
        BY <2>6, <3>2
      <4> QED
        BY <2>1, <2>3, <2>5, <2>6, <4>1
    <3>3. n = 0 => a \subseteq AudioIn(q, n)
      BY <2>2, <2>5, <2>6
    <3> QED
      BY <3>1, <3>2, <3>3
  <2> QED
    BY <2>7 DEF Segm
<1> QED
  BY <1>2, <1>4 DEF OpenOf, ClosedOf, p

\* The finalize in hand is the first one owed.
LEMMA AnswerFinalize ==
  ASSUME NEW q \in Seq(AudioMsg), NEW t \in Audio
  PROVE  LET p == <<Fin>> \o q IN
         /\ p \in Seq(AudioMsg)
         /\ ClosedOf(p, t) # <<>> /\ t \subseteq Head(ClosedOf(p, t))
         /\ OpenOf(q, {}) = OpenOf(p, t)
         /\ ClosedOf(q, {}) = Tail(ClosedOf(p, t))
<1> DEFINE p == <<Fin>> \o q
<1>0. Fin \in AudioMsg /\ Fin.kind = "Finalize"
  BY DEF Fin, AudioMsg
<1>1. /\ p \in Seq(AudioMsg) /\ p # <<>> /\ Head(p) = Fin /\ Tail(p) = q
  <2> HIDE DEF Fin
  <2>1. <<Fin>> \in Seq(AudioMsg) /\ Len(<<Fin>>) = 1 /\ <<Fin>>[1] = Fin
    BY <1>0
  <2>2. p \in Seq(AudioMsg) /\ Len(p) = 1 + Len(q) /\ \A i \in 1..1 + Len(q) : p[i] = IF i <= 1 THEN Fin ELSE q[i - 1]
    BY <2>1, ConcatProperties
  <2> HIDE DEF p
  <2>3. Len(p) # 0 /\ p # <<>> /\ Head(p) = p[1] /\ p[1] = Fin
    BY <2>2
  <2>4. Tail(p) \in Seq(AudioMsg) /\ Len(Tail(p)) = Len(q) /\ \A i \in 1..Len(q) : Tail(p)[i] = q[i]
    BY <2>2, <2>3, HeadTailProperties
  <2>5. Tail(p) = q
    BY <2>4, SeqEqual
  <2> QED
    BY <2>2, <2>3, <2>5
<1> HIDE DEF p
<1>2. /\ Len(q) \in Nat /\ Len(p) = Len(q) + 1 /\ DOMAIN q = 1..Len(q) /\ DOMAIN p = 1..Len(q) + 1
      /\ \A i \in 1..Len(q) : q[i] = p[i + 1]
  BY <1>1
<1>3. Owed(q) \in Nat /\ Owed(p) = Owed(q) + 1 /\ \A i \in 1..Len(q) + 1 : FinalizesIn(p, i + 1) = FinalizesIn(q, i) + 1
  BY <1>0, <1>1, <1>2, FinalizesTail, ClosedIs
<1>4. \A n \in Nat : Segm(p, t, n + 1) = Segm(q, {}, n)
  <2> TAKE n \in Nat
  <2> DEFINE I == {j \in DOMAIN p : p[j].kind = "Chunk" /\ FinalizesIn(p, j) = n + 1}
             J == {j \in DOMAIN q : q[j].kind = "Chunk" /\ FinalizesIn(q, j) = n}
  <2>1. \A j \in J : j + 1 \in I /\ q[j].audio = p[j + 1].audio
    BY <1>2, <1>3, FinalizesType
  <2>2. \A i \in I : i - 1 \in J /\ p[i].audio = q[i - 1].audio
    <3>1. TAKE i \in I
    <3>2. i # 1
      BY <1>0, <1>1
    <3>3. i - 1 \in DOMAIN q /\ (i - 1) + 1 = i /\ i - 1 \in Nat
      BY <1>2, <3>2
    <3>4. FinalizesIn(q, i - 1) \in Nat
      BY <3>3, FinalizesType
    <3> QED
      BY <1>2, <1>3, <3>3, <3>4
  <2> HIDE DEF I, J
  <2>3. UNION {p[i].audio : i \in I} = UNION {q[j].audio : j \in J}
    BY <2>1, <2>2
  <2>4. AudioIn(p, n + 1) = AudioIn(q, n)
    BY <2>3, Zenon DEF AudioIn, I, J
  <2>5. n + 1 # 0
    OBVIOUS
  <2> QED
    BY <2>4, <2>5 DEF Segm
<1>5. OpenOf(q, {}) = OpenOf(p, t)
  BY <1>3, <1>4 DEF OpenOf
<1>6. t \subseteq Segm(p, t, 0)
  BY DEF Segm
<1>7. ClosedOf(p, t) # <<>> /\ t \subseteq Head(ClosedOf(p, t))
  BY <1>1, <1>3, <1>6, ClosedIs
<1>8. ClosedOf(q, {}) = Tail(ClosedOf(p, t))
  <2> DEFINE c == ClosedOf(p, t)
             d == ClosedOf(q, {})
  <2>0. {} \in Audio
    BY DEF Audio
  <2>1. c \in Seq(Audio) /\ d \in Seq(Audio) /\ Len(c) = Owed(q) + 1 /\ Len(d) = Owed(q) /\ c # <<>>
    BY <1>1, <1>3, <1>7, <2>0, ClosedIs
  <2>2. ASSUME NEW n \in 1..Owed(q) PROVE d[n] = c[n + 1]
    <3>1. n + 1 \in 1..Owed(p) /\ n - 1 \in Nat /\ (n + 1) - 1 = (n - 1) + 1
      BY <1>3
    <3>2. d[n] = Segm(q, {}, n - 1)
      BY <2>0, ClosedIs
    <3>3. c[n + 1] = Segm(p, t, (n + 1) - 1)
      BY <1>1, <3>1, ClosedIs
    <3> QED
      BY <1>4, <3>1, <3>2, <3>3
  <2> HIDE DEF c, d
  <2>3. Tail(c) \in Seq(Audio) /\ Len(Tail(c)) = Len(d) /\ \A n \in 1..Len(d) : d[n] = Tail(c)[n]
    BY <1>3, <2>1, <2>2, HeadTailProperties
  <2>4. d = Tail(c)
    BY <2>1, <2>3, SeqEqual
  <2> QED
    BY <2>4 DEF c, d
<1> QED
  BY <1>1, <1>5, <1>7, <1>8 DEF p

\* What is appended behind a prefix is appended to the whole.
LEMMA AppendLater ==
  ASSUME NEW S, NEW p \in Seq(S), NEW q \in Seq(S), NEW m \in S
  PROVE  p \o Append(q, m) = Append(p \o q, m)
BY AppendIsConcat, ConcatAssociative, <<m>> \in Seq(S), p \o q \in Seq(S)

\* A sequence is its head and its tail.
LEMMA HeadThenTail ==
  ASSUME NEW S, NEW q \in Seq(S), q # <<>>
  PROVE  <<Head(q)>> \o Tail(q) = q
<1>1. <<Head(q)>> \in Seq(S) /\ Tail(q) \in Seq(S) /\ Len(<<Head(q)>>) = 1 /\ <<Head(q)>>[1] = Head(q)
      /\ Len(q) \in Nat \ {0} /\ Len(Tail(q)) = Len(q) - 1
  OBVIOUS
<1>2. \A i \in 1..Len(q) : (<<Head(q)>> \o Tail(q))[i] = q[i]
  BY <1>1, ConcatProperties, HeadTailProperties
<1>3. <<Head(q)>> \o Tail(q) \in Seq(S) /\ Len(<<Head(q)>> \o Tail(q)) = Len(q)
  BY <1>1
<1> QED
  BY <1>2, <1>3, SeqEqual

-----------------------------------------------------------------------------
\* What the recognizer has heard is audio of the utterance that was received.
HeardInv ==
  /\ step = "Start" => alive
  /\ step = "Start" <=> readiness = "Loading"
  /\ alive /\ step # "Start" => readiness = "Ready"
  /\ rec # Nil => rec \subseteq taken
  /\ step \in {"Uncount", "Hear"} => hand \subseteq taken

\* It stays so: a recognizer is spent when the audio received is forgotten.
LEMMA HeardStep ==
  ASSUME TypeOK, HeardInv, [Next]_vars
  PROVE  HeardInv'
<1> USE DEF TypeOK, HeardInv, feed, thread
<1>1. CASE Supervisor
  BY <1>1 DEF Supervisor, PushCounts, PushSends, PushUndoes, CallFinalize, ReadAnswer, Leave
<1>2. ASSUME NEW outcome \in {"Ready", "Failed", "Vanished"}, Start(outcome) PROVE HeardInv'
  BY <1>2 DEF Start
<1>3. CASE Receive
  BY <1>3 DEF Receive
<1>4. CASE Hangup \/ Panic
  BY <1>4 DEF Hangup, Panic, Exit
<1>5. CASE Uncount
  BY <1>5 DEF Uncount
<1>6. CASE Hear
  <2>1. PICK r \in IF rec = Nil THEN Built ELSE {rec} : rec' = IF r = Nil THEN Nil ELSE r \cup hand
    BY <1>6 DEF Hear
  <2>2. r # Nil => r \subseteq taken
    BY DEF Built
  <2> QED
    BY <1>6, <2>1, <2>2 DEF Hear
<1>7. CASE Finish
  BY <1>7 DEF Finish
<1>8. CASE Prewarm
  BY <1>8 DEF Prewarm, Built
<1>9. CASE UNCHANGED vars
  BY <1>9 DEF vars
<1> QED
  BY <1>1, <1>2, <1>3, <1>4, <1>5, <1>6, <1>7, <1>8, <1>9 DEF Next, Worker

\* The refinement mapping, by names.
OpenAudio == Segment(Unanswered)
ClosedAudio == [n \in 1..Unanswered |-> Segment(n - 1)]

\* The mapping is the one of the operators above.
LEMMA Mapping == OpenAudio = OpenOf(Pending, taken) /\ ClosedAudio = ClosedOf(Pending, taken)
<1>1. OpenAudio = OpenOf(Pending, taken)
  BY Unfold DEF OpenAudio, OpenOf
<1>2. ClosedAudio = ClosedOf(Pending, taken)
  BY Unfold DEF ClosedAudio, ClosedOf
<1> QED
  BY <1>1, <1>2

\* What is pending is a channel's content.
LEMMA PendingType ==
  ASSUME TypeOK
  PROVE  Pending \in Seq(AudioMsg) /\ taken \in Audio
<1>1. [kind |-> "Finalize"] \in AudioMsg
  BY DEF AudioMsg
<1> QED
  BY <1>1 DEF TypeOK, Pending

\* So it is after a step.
LEMMA MappingNext == OpenAudio' = OpenOf(Pending', taken') /\ ClosedAudio' = ClosedOf(Pending', taken')
<1>1. (OpenAudio = OpenOf(Pending, taken) /\ ClosedAudio = ClosedOf(Pending, taken))'
  BY Mapping, PTL
<1> QED
  BY <1>1

\* What leaves the channel and the audio received alone leaves the mapping alone.
LEMMA SameMapping ==
  ASSUME Pending' = Pending, taken' = taken
  PROVE  OpenAudio' = OpenAudio /\ ClosedAudio' = ClosedAudio
<1>1. OpenAudio' = OpenOf(Pending', taken') /\ ClosedAudio' = ClosedOf(Pending', taken')
  BY MappingNext
<1> QED
  BY <1>1, Mapping

\* The supervisor's steps are steps of the abstract recognizer, or of nobody.
LEMMA SupervisorRefines ==
  ASSUME TypeOK, HeardInv, Supervisor
  PROVE  [R!RecognizerNext]_(R!recognizerVars)
<1> USE DEF feed, thread
<1>0. OpenAudio' = OpenOf(Pending', taken') /\ ClosedAudio' = ClosedOf(Pending', taken')
  BY MappingNext
<1>1. CASE PushCounts \/ PushUndoes \/ Leave
  <2>1. Pending' = Pending /\ taken' = taken /\ UNCHANGED <<readiness, alive, answers>>
    BY <1>1 DEF PushCounts, PushUndoes, Leave, Pending
  <2> QED
    BY <2>1, SameMapping DEF R!recognizerVars, OpenAudio, ClosedAudio
<1>2. CASE PushSends
  <2>1. CASE ~alive
    <3>1. Pending' = Pending /\ taken' = taken /\ UNCHANGED <<readiness, alive, answers>>
      BY <1>2, <2>1 DEF PushSends, Pending
    <3> QED
      BY <3>1, SameMapping DEF R!recognizerVars, OpenAudio, ClosedAudio
  <2>2. CASE alive
    <3>1. PICK audio \in {{}, {ended}} : channel' = Append(channel, [kind |-> "Chunk", audio |-> audio])
      BY <1>2, <2>2 DEF PushSends
    <3> DEFINE msg == [kind |-> "Chunk", audio |-> audio]
    <3>2. audio \in Audio /\ msg \in AudioMsg /\ msg.kind = "Chunk" /\ msg.audio = audio
      BY DEF TypeOK, Audio, AudioMsg
    <3>3. channel' = Append(channel, msg)
      BY <3>1
    <3> HIDE DEF msg
    <3>4. Pending' = Append(Pending, msg) /\ taken' = taken /\ UNCHANGED <<readiness, alive, answers>>
      BY <1>2, <3>2, <3>3, AppendLater DEF PushSends, Pending, TypeOK
    <3>5. OpenAudio' = OpenAudio \cup audio /\ ClosedAudio' = ClosedAudio
      BY <1>0, <3>2, <3>4, Mapping, PendingType, SendChunk
    <3>6. R!Feed(audio)
      BY <3>4, <3>5 DEF R!Feed, OpenAudio, ClosedAudio
    <3>7. audio \in R!Audio
      BY <3>2 DEF R!Audio, R!Gesture, Audio, Utterance
    <3> QED
      BY <3>6, <3>7 DEF R!RecognizerNext
  <2> QED
    BY <2>1, <2>2
<1>3. CASE CallFinalize
  <2>1. CASE ~alive
    <3>1. Pending' = Pending /\ taken' = taken /\ UNCHANGED <<readiness, alive, answers>>
      BY <1>3, <2>1 DEF CallFinalize, Pending
    <3> QED
      BY <3>1, SameMapping DEF R!recognizerVars, OpenAudio, ClosedAudio
  <2>2. CASE alive
    <3>1. Fin \in AudioMsg /\ Fin.kind = "Finalize" /\ channel' = Append(channel, Fin)
      BY <1>3, <2>2 DEF CallFinalize, Fin, AudioMsg
    <3> HIDE DEF Fin
    <3>2. Pending' = Append(Pending, Fin) /\ taken' = taken /\ UNCHANGED <<readiness, alive, answers>>
      BY <1>3, <3>1, AppendLater DEF CallFinalize, Pending, TypeOK
    <3>3. OpenAudio' = {} /\ ClosedAudio' = Append(ClosedAudio, OpenAudio)
      BY <1>0, <3>1, <3>2, Mapping, PendingType, SendFinalize
    <3>4. R!Finalize({})
      <4>1. OpenAudio \cup {} = OpenAudio
        OBVIOUS
      <4> QED
        BY <3>2, <3>3, <4>1 DEF R!Finalize, OpenAudio, ClosedAudio
    <3>5. {} \in R!Audio
      BY DEF R!Audio
    <3> QED
      BY <3>4, <3>5 DEF R!RecognizerNext
  <2> QED
    BY <2>1, <2>2
<1>4. CASE ReadAnswer
  <2>1. Pending' = Pending /\ taken' = taken /\ UNCHANGED <<readiness, alive>> /\ answers # <<>> /\ answers' = Tail(answers)
    BY <1>4 DEF ReadAnswer, Pending
  <2>2. R!ReadAnswer
    BY <2>1, SameMapping DEF R!ReadAnswer, OpenAudio, ClosedAudio
  <2> QED
    BY <2>2 DEF R!RecognizerNext
<1> QED
  BY <1>1, <1>2, <1>3, <1>4 DEF Supervisor

\* The thread's steps.
LEMMA ThreadRefines ==
  ASSUME TypeOK, HeardInv, Worker \/ Panic
  PROVE  [R!RecognizerNext]_(R!recognizerVars)
<1> USE DEF feed, thread
<1>0. OpenAudio' = OpenOf(Pending', taken') /\ ClosedAudio' = ClosedOf(Pending', taken')
  BY MappingNext
<1>1. ASSUME NEW outcome \in {"Ready", "Failed", "Vanished"}, Start(outcome)
      PROVE  [R!RecognizerNext]_(R!recognizerVars)
  <2>1. Pending' = Pending /\ taken' = taken /\ answers' = answers
    BY <1>1 DEF Start, Pending
  <2>2. readiness = "Loading" /\ readiness' = outcome /\ alive' = (outcome = "Ready")
    BY <1>1 DEF Start, HeardInv
  <2>3. R!Construct(outcome) /\ outcome \in R!Outcome
    BY <2>1, <2>2, SameMapping DEF R!Construct, R!Outcome, OpenAudio, ClosedAudio
  <2> QED
    BY <2>3 DEF R!RecognizerNext
<1>2. CASE Receive
  <2>1. step = "Recv" /\ channel # <<>> /\ channel \in Seq(AudioMsg) /\ taken \in Audio /\ Pending = channel
    BY <1>2 DEF Receive, TypeOK, Pending
  <2>2. UNCHANGED <<readiness, alive, answers>>
    BY <1>2 DEF Receive
  <2>3. CASE Head(channel).kind = "Chunk"
    <3>1. Pending' = Tail(Pending) /\ taken' = taken \cup Head(Pending).audio
      BY <1>2, <2>1, <2>3 DEF Receive, Pending
    <3>2. OpenAudio' = OpenAudio /\ ClosedAudio' = ClosedAudio
      BY <1>0, <2>1, <2>3, <3>1, Mapping, ReceiveChunk
    <3> QED
      BY <2>2, <3>2 DEF R!recognizerVars, OpenAudio, ClosedAudio
  <2>4. CASE Head(channel).kind # "Chunk"
    <3>1. Head(channel) = [kind |-> "Finalize"]
      BY <2>1, <2>4 DEF AudioMsg
    <3>2. <<[kind |-> "Finalize"]>> \o Tail(channel) = channel
      BY <2>1, <3>1, HeadThenTail
    <3>3. Pending' = Pending /\ taken' = taken
      BY <1>2, <2>1, <2>4, <3>2 DEF Receive, Pending
    <3> QED
      BY <2>2, <3>3, SameMapping DEF R!recognizerVars, OpenAudio, ClosedAudio
  <2> QED
    BY <2>3, <2>4
<1>3. CASE Hangup \/ Panic
  <2>1. Pending' = Pending /\ taken' = taken /\ UNCHANGED <<readiness, answers>> /\ alive /\ ~alive'
    BY <1>3 DEF Hangup, Panic, Exit, Pending
  <2>2. readiness = "Ready"
    BY <1>3 DEF HeardInv, Hangup, Panic
  <2>3. R!Die
    BY <2>1, <2>2, SameMapping, <1>3 DEF R!Die, OpenAudio, ClosedAudio, Hangup, Panic, Exit
  <2> QED
    BY <2>3 DEF R!RecognizerNext
<1>4. CASE Uncount \/ Prewarm
  <2>1. Pending' = Pending /\ taken' = taken /\ UNCHANGED <<readiness, alive, answers>>
    BY <1>4 DEF Uncount, Prewarm, Pending
  <2> QED
    BY <2>1, SameMapping DEF R!recognizerVars, OpenAudio, ClosedAudio
<1>5. CASE Hear
  <2>1. Pending' = Pending /\ taken' = taken /\ UNCHANGED <<readiness, alive>>
    BY <1>5 DEF Hear, Pending
  <2>2. PICK r \in IF rec = Nil THEN Built ELSE {rec} :
          \/ UNCHANGED answers
          \/ \E text \in (SUBSET (r \cup hand)) \ {{}} :
               r # Nil /\ Len(answers) < MaxAnswers
               /\ answers' = Append(answers, [kind |-> "Partial", ok |-> TRUE, text |-> text])
    BY <1>5 DEF Hear, Send
  <2>3. CASE UNCHANGED answers
    BY <2>1, <2>3, SameMapping DEF R!recognizerVars, OpenAudio, ClosedAudio
  <2>4. ASSUME NEW text \in (SUBSET (r \cup hand)) \ {{}}, r # Nil, Len(answers) < MaxAnswers,
               answers' = Append(answers, [kind |-> "Partial", ok |-> TRUE, text |-> text])
        PROVE  [R!RecognizerNext]_(R!recognizerVars)
    <3>1. hand \subseteq taken /\ readiness = "Ready" /\ alive /\ taken \in Audio
      BY <1>5 DEF Hear, HeardInv, TypeOK
    <3>7. r \subseteq taken
      BY <2>2, <2>4 DEF HeardInv, Built
    <3>2. text \subseteq r \cup hand /\ text # {}
      BY <2>4
    <3>3. text \subseteq taken
      BY <3>1, <3>2, <3>7
    <3>4. text \in R!Audio
      BY <3>1, <3>3 DEF R!Audio, R!Gesture, Audio, Utterance
    <3>5. taken \subseteq R!Hypothesis
      <4>1. taken \subseteq Segm(Pending, taken, 0)
        BY DEF Segm
      <4>2. ClosedAudio = <<>> => taken \subseteq OpenAudio
        BY <4>1, Mapping, PendingType, ClosedIs DEF OpenOf
      <4>3. ClosedAudio # <<>> => taken \subseteq Head(ClosedAudio)
        BY <4>1, Mapping, PendingType, ClosedIs
      <4> QED
        BY <4>2, <4>3 DEF R!Hypothesis, OpenAudio, ClosedAudio
    <3>6. R!EmitPartial(text)
      BY <2>1, <2>4, <3>1, <3>2, <3>3, <3>5, SameMapping DEF R!EmitPartial, OpenAudio, ClosedAudio
    <3> QED
      BY <3>4, <3>6 DEF R!RecognizerNext
  <2> QED
    BY <2>2, <2>3, <2>4
<1>6. CASE Finish
  <2>1. /\ step = "Finish" /\ step' = "Prewarm" /\ channel' = channel /\ taken' = {} /\ UNCHANGED <<readiness, alive>>
        /\ alive /\ readiness = "Ready" /\ channel \in Seq(AudioMsg) /\ taken \in Audio
    BY <1>6 DEF Finish, TypeOK, HeardInv
  <2>2. Pending = <<Fin>> \o channel /\ Pending' = channel
    BY <2>1 DEF Pending, Fin
  <2>3. /\ ClosedAudio # <<>> /\ taken \subseteq Head(ClosedAudio)
        /\ OpenAudio' = OpenAudio /\ ClosedAudio' = Tail(ClosedAudio)
    BY <1>0, <2>1, <2>2, Mapping, AnswerFinalize
  <2>4. PICK ok \in BOOLEAN : \E text \in SUBSET (IF rec = Nil \/ ~ok THEN {} ELSE rec) :
          answers' = Append(answers, [kind |-> "Final", ok |-> ok, text |-> text])
    BY <1>6 DEF Finish, Send
  <2>5. PICK text \in SUBSET (IF rec = Nil \/ ~ok THEN {} ELSE rec) :
          answers' = Append(answers, [kind |-> "Final", ok |-> ok, text |-> text])
    BY <2>4
  <2>6. text \subseteq (IF ok THEN taken ELSE {})
    BY <2>5 DEF HeardInv
  <2>7. text \in R!Audio
    BY <2>1, <2>6 DEF R!Audio, R!Gesture, Audio, Utterance
  <2>8. text \subseteq (IF ok THEN Head(ClosedAudio) ELSE {})
    BY <2>3, <2>6
  <2>9. R!EmitFinal(ok, text)
    BY <2>1, <2>3, <2>5, <2>8 DEF R!EmitFinal, OpenAudio, ClosedAudio
  <2> QED
    BY <2>7, <2>9 DEF R!RecognizerNext
<1> QED
  BY <1>1, <1>2, <1>3, <1>4, <1>5, <1>6 DEF Worker

\* The mapping starts with nothing fed.
LEMMA RefinesInit == Init => R!RecognizerInit
<1> SUFFICES ASSUME Init PROVE R!RecognizerInit
  OBVIOUS
<1>1. Pending = <<>> /\ taken = {} /\ <<>> \in Seq(AudioMsg) /\ {} \in Audio
  BY DEF Init, Pending, Audio
<1>2. Owed(<<>>) = 0
  <2>1. {j \in 1..0 : <<>>[j].kind = "Finalize"} = {} /\ (Len(<<>>) + 1) - 1 = 0
    OBVIOUS
  <2> QED
    BY <2>1, FS_EmptySet DEF Owed, FinalizesIn
<1>3. ClosedAudio = <<>>
  BY <1>1, <1>2, Mapping, ClosedIs
<1>4. OpenAudio = {}
  <2>1. AudioIn(<<>>, 0) = {}
    BY DEF AudioIn
  <2> QED
    BY <1>1, <1>2, <2>1, Mapping DEF OpenOf, Segm
<1> QED
  BY <1>3, <1>4 DEF Init, R!RecognizerInit, OpenAudio, ClosedAudio

\* The recognizer thread is the recognizer the supervisor was promised: every
\* finalize is answered once, in order, and with no audio but its own utterance's.
THEOREM WorkerImplementsRecognizer == Spec => ImplementsRecognizer
<1>1. Init => HeardInv
  BY DEF Init, HeardInv
<1>2. TypeOK /\ HeardInv /\ [Next]_vars => HeardInv'
  BY HeardStep
<1>3. Spec => []HeardInv
  BY <1>1, <1>2, WorkerTypeCorrect, PTL DEF Spec
<1>4. TypeOK /\ HeardInv /\ [Next]_vars => [R!RecognizerNext]_(R!recognizerVars)
  <2> SUFFICES ASSUME TypeOK, HeardInv, [Next]_vars PROVE [R!RecognizerNext]_(R!recognizerVars)
    OBVIOUS
  <2>1. CASE UNCHANGED vars
    <3>1. Pending' = Pending /\ taken' = taken /\ UNCHANGED <<readiness, alive, answers>>
      BY <2>1 DEF vars, Pending
    <3> QED
      BY <3>1, SameMapping DEF R!recognizerVars, OpenAudio, ClosedAudio
  <2> QED
    BY <2>1, SupervisorRefines, ThreadRefines DEF Next
<1> QED
  BY <1>3, <1>4, RefinesInit, WorkerTypeCorrect, PTL DEF Spec, ImplementsRecognizer, R!RecognizerSpec
-----------------------------------------------------------------------------
(* The recognizers behind the worker (Backends): the pipe of the Apple       *)
(* helper, what it has said and what was painted of it, and the buffers of   *)
(* the others.                                                               *)

\* A set of indices has a last one.
LEMMA LastOfSome ==
  ASSUME NEW n \in Nat, NEW S \in SUBSET (1..n), S # {}
  PROVE  Max(S) \in S
<1> DEFINE Less == {p \in Nat \X Nat : p[1] < p[2]}
<1>1. IsWellFoundedOn(Less, Nat)
  BY NatLessThanWellFounded DEF OpToRel
<1> DEFINE T == {n - i : i \in S}
<1>2. T \subseteq Nat /\ T # {}
  <2>1. \A i \in S : n - i \in Nat
    OBVIOUS
  <2> QED
    BY <2>1
<1>3. PICK m \in T : \A y \in T : <<y, m>> \notin Less
  BY <1>1, <1>2, WFMin
<1>4. PICK i \in S : m = n - i
  BY <1>3
<1>5. \A j \in S : i >= j
  <2> SUFFICES ASSUME NEW j \in S PROVE i >= j
    OBVIOUS
  <2>1. n - j \in T /\ n - j \in Nat /\ n - i \in Nat
    OBVIOUS
  <2>2. ~(n - j < n - i)
    BY <1>3, <1>4, <2>1
  <2>3. i \in Nat /\ j \in Nat
    OBVIOUS
  <2>4. ASSUME NEW x \in Nat, NEW y \in Nat, ~(n - y < n - x) PROVE x >= y
    BY <2>4
  <2> QED
    BY <2>2, <2>3, <2>4
<1> QED
  BY <1>5 DEF Max

-----------------------------------------------------------------------------
Transcript == [kind : {"text", "error"}, from : Nat, to : Nat, why : {"done", "error", "deadline", "backend"}]
HelperEvents == [kind : {"ready", "error", "partial", "final", "done"}, heard : Nat]
Says(e) == e.kind \in {"partial", "final"}
IsText(a) == a.kind = "text" /\ a.to > a.from

BackendTypes ==
  /\ backend \in Streaming \cup Buffering
  /\ phase \in {"spawning", "feeding", "finalizing", "answered", "failed to start"}
  /\ fedSamples \in Nat /\ held \in Nat /\ best \in Nat /\ painted \in Nat
  /\ helper \in [state : {"none", "loading", "running", "deaf", "hung", "exited"}, heard : Nat, faults : Nat]
  /\ events \in Seq(HelperEvents) /\ transcripts \in Seq(Transcript)

\* What the buffering backends have transcribed is before what they hold.
BufferInv ==
  /\ held <= fedSamples
  /\ \A i \in 1..Len(transcripts) : IsText(transcripts[i]) => transcripts[i].to <= held
  /\ \A i, j \in 1..Len(transcripts) :
       i < j /\ IsText(transcripts[i]) /\ IsText(transcripts[j]) => transcripts[i].to <= transcripts[j].from

\* The hypotheses of a helper only grow, from what was painted to what it has read.
EventsInv ==
  /\ painted <= best /\ best <= helper.heard /\ helper.heard <= fedSamples
  /\ \A i \in 1..Len(events) : Says(events[i]) => best <= events[i].heard /\ events[i].heard <= helper.heard
  /\ \A i, j \in 1..Len(events) : i < j /\ Says(events[i]) /\ Says(events[j]) => events[i].heard <= events[j].heard

Started == phase # "failed to start"

\* A helper without a fault says it is done after its last word on everything.
DoneInv ==
  helper.faults = 0 =>
    /\ helper.state \notin {"deaf", "hung"}
    /\ Started => \A k \in 1..Len(events) : events[k].kind = "done" =>
         best = fedSamples \/ \E j \in 1..(k - 1) : Says(events[j]) /\ events[j].heard = fedSamples

\* What the one answer of a helper may be.
GoodAnswer(a) ==
  /\ a.to <= fedSamples
  /\ a.kind = "text" => a.to >= painted
  /\ a.kind = "error" => painted = 0 \/ a.why = "error"
  /\ helper.faults = 0 /\ a.why = "done" => a.to = fedSamples

AppleInv ==
  /\ EventsInv /\ DoneInv
  /\ transcripts # <<>> => phase = "answered" /\ Len(transcripts) = 1 /\ GoodAnswer(transcripts[1])

\* The buffering backends have no helper.
NoHelper == helper.state = "none" /\ phase \in {"feeding", "answered"}

BackendsInv ==
  BackendTypes /\ (backend \in Buffering => BufferInv /\ NoHelper) /\ (backend = "apple" => AppleInv)

\* An event appended to what was sent.
LEMMA EmitKeeps ==
  ASSUME BackendTypes, EventsInv, DoneInv, NEW e \in HelperEvents, NEW n \in Nat,
         helper.heard <= n, n <= fedSamples, Says(e) => e.heard = n, e.kind # "done",
         events' = Append(events, e) \/ (events' = events /\ e.kind = "error"),
         helper'.heard = n, helper'.faults = 0 => helper.faults = 0 /\ helper'.state \notin {"deaf", "hung"},
         UNCHANGED <<painted, best, fedSamples, phase>>
  PROVE  EventsInv' /\ DoneInv'
<1> DEFINE q == events
<1>0. q \in Seq(HelperEvents) /\ best \in Nat /\ fedSamples \in Nat /\ painted \in Nat /\ helper.heard \in Nat
  BY DEF BackendTypes
<1>1. \A i \in 1..Len(q) : q[i] \in HelperEvents /\ q[i].heard \in Nat
  <2>1. ASSUME NEW x \in HelperEvents PROVE x.heard \in Nat
    BY DEF HelperEvents
  <2>2. \A i \in 1..Len(q) : q[i] \in HelperEvents
    BY <1>0
  <2> QED
    BY <2>1, <2>2
<1>2. CASE events' = events
  <2>1. EventsInv'
    <3>1. painted <= best /\ best <= n /\ n <= fedSamples
      BY <1>0 DEF EventsInv
    <3>2. ASSUME NEW i \in 1..Len(q), Says(q[i]) PROVE best <= q[i].heard /\ q[i].heard <= n
      BY <1>0, <1>1, <3>2 DEF EventsInv
    <3> QED
      BY <1>2, <3>1, <3>2 DEF EventsInv
  <2> QED
    BY <1>2, <2>1 DEF DoneInv, Started
<1>3. CASE events' = Append(events, e)
  <2> DEFINE r == Append(q, e)
  <2>1. /\ Len(r) = Len(q) + 1 /\ r[Len(q) + 1] = e
        /\ \A i \in 1..Len(q) : r[i] = q[i]
        /\ \A i \in 1..Len(r) : i \in 1..Len(q) \/ i = Len(q) + 1
        /\ Len(q) \in Nat
    BY <1>0
  <2> HIDE DEF r
  <2>2. painted <= best /\ best <= n /\ n <= fedSamples
    BY <1>0 DEF EventsInv
  <2>3. ASSUME NEW i \in 1..Len(r), Says(r[i]) PROVE best <= r[i].heard /\ r[i].heard <= n
    <3>1. CASE i \in 1..Len(q)
      BY <1>0, <1>1, <2>1, <2>3, <3>1 DEF EventsInv
    <3>2. CASE i = Len(q) + 1
      BY <2>1, <2>2, <2>3, <3>2
    <3> QED
      BY <2>1, <3>1, <3>2
  <2>4. ASSUME NEW i \in 1..Len(r), NEW j \in 1..Len(r), i < j, Says(r[i]), Says(r[j])
        PROVE  r[i].heard <= r[j].heard
    <3>1. i \in 1..Len(q)
      BY <2>1, <2>4
    <3>2. CASE j \in 1..Len(q)
      BY <2>1, <2>4, <3>1, <3>2 DEF EventsInv
    <3>3. CASE j = Len(q) + 1
      <4>1. r[j].heard = n
        BY <2>1, <2>4, <3>3
      <4> QED
        BY <2>3, <2>4, <4>1
    <3> QED
      BY <2>1, <3>2, <3>3
  <2>5. EventsInv'
    BY <1>3, <2>2, <2>3, <2>4 DEF EventsInv, r
  <2>6. ASSUME helper'.faults = 0, Started, NEW k \in 1..Len(r), r[k].kind = "done"
        PROVE  best = fedSamples \/ \E j \in 1..(k - 1) : Says(r[j]) /\ r[j].heard = fedSamples
    <3>1. k \in 1..Len(q) /\ q[k].kind = "done"
      BY <2>1, <2>6
    <3>2. best = fedSamples \/ \E j \in 1..(k - 1) : Says(q[j]) /\ q[j].heard = fedSamples
      BY <2>6, <3>1 DEF DoneInv
    <3>3. \A j \in 1..(k - 1) : r[j] = q[j]
      BY <2>1, <3>1
    <3> QED
      BY <3>2, <3>3
  <2> QED
    BY <1>3, <2>5, <2>6 DEF DoneInv, Started, r
<1> QED
  BY <1>2, <1>3

\* The head received: a text is what is known now.
LEMMA ReceiveKeeps ==
  ASSUME BackendTypes, EventsInv, DoneInv, events # <<>>, events' = Tail(events),
         Says(Head(events)) => best' = Head(events).heard, ~Says(Head(events)) => best' = best,
         Started,
         UNCHANGED <<painted, helper, fedSamples>>
  PROVE  EventsInv' /\ DoneInv' /\ best' \in Nat
<1> DEFINE q == events
<1> DEFINE r == Tail(q)
<1>0. q \in Seq(HelperEvents) /\ best \in Nat /\ fedSamples \in Nat /\ painted \in Nat /\ helper.heard \in Nat
  BY DEF BackendTypes
<1>1. \A i \in 1..Len(q) : q[i] \in HelperEvents /\ q[i].heard \in Nat
  <2>1. ASSUME NEW x \in HelperEvents PROVE x.heard \in Nat
    BY DEF HelperEvents
  <2>2. \A i \in 1..Len(q) : q[i] \in HelperEvents
    BY <1>0
  <2> QED
    BY <2>1, <2>2
<1>2. /\ Len(q) \in Nat /\ 1 \in 1..Len(q) /\ Head(q) = q[1] /\ Len(r) = Len(q) - 1
      /\ \A i \in 1..Len(r) : r[i] = q[i + 1] /\ i + 1 \in 1..Len(q)
  <2>1. q # <<>> /\ Len(q) \in Nat /\ Len(q) > 0 /\ Len(r) = Len(q) - 1
    BY <1>0
  <2>2. Head(q) = q[1]
    BY <1>0, <2>1
  <2>3. \A i \in 1..Len(r) : r[i] = q[i + 1]
    BY <1>0, <2>1
  <2>4. \A i \in 1..Len(r) : i + 1 \in 1..Len(q)
    <3> HIDE DEF q, r
    <3> QED
      BY <2>1
  <2> QED
    BY <2>1, <2>2, <2>3, <2>4
<1> HIDE DEF r
<1>3. best' \in Nat /\ best <= best' /\ best' <= helper.heard
  BY <1>0, <1>1, <1>2 DEF EventsInv
<1>4. ASSUME NEW i \in 1..Len(r), Says(r[i]) PROVE best' <= r[i].heard /\ r[i].heard <= helper.heard
  <2>1. r[i] = q[i + 1] /\ i + 1 \in 1..Len(q) /\ 1 < i + 1
    BY <1>2
  <2>2. best <= r[i].heard /\ r[i].heard <= helper.heard
    BY <1>4, <2>1 DEF EventsInv
  <2>3. Says(q[1]) => q[1].heard <= r[i].heard
    BY <1>2, <1>4, <2>1 DEF EventsInv
  <2> QED
    BY <1>2, <2>2, <2>3
<1>5. ASSUME NEW i \in 1..Len(r), NEW j \in 1..Len(r), i < j, Says(r[i]), Says(r[j])
      PROVE  r[i].heard <= r[j].heard
  <2>1. r[i] = q[i + 1] /\ i + 1 \in 1..Len(q) /\ r[j] = q[j + 1] /\ j + 1 \in 1..Len(q) /\ i + 1 < j + 1
    BY <1>2, <1>5
  <2> QED
    BY <1>5, <2>1 DEF EventsInv
<1>6. painted <= best' /\ helper.heard <= fedSamples
  BY <1>0, <1>3 DEF EventsInv
<1>7. EventsInv'
  BY <1>3, <1>4, <1>5, <1>6 DEF EventsInv, r
<1>8. ASSUME helper.faults = 0, NEW k \in 1..Len(r), r[k].kind = "done"
      PROVE  best' = fedSamples \/ \E j \in 1..(k - 1) : Says(r[j]) /\ r[j].heard = fedSamples
  <2>1. q[k + 1].kind = "done" /\ k + 1 \in 1..Len(q)
    BY <1>2, <1>8
  <2>2. CASE best = fedSamples
    BY <1>0, <1>3, <1>6, <2>2
  <2>3. ASSUME NEW j \in 1..k, Says(q[j]), q[j].heard = fedSamples
        PROVE  best' = fedSamples \/ \E i \in 1..(k - 1) : Says(r[i]) /\ r[i].heard = fedSamples
    <3>1. CASE j = 1
      BY <1>2, <2>3, <3>1
    <3>2. CASE j # 1
      <4>1. j - 1 \in 1..(k - 1) /\ j - 1 \in 1..Len(r) /\ r[j - 1] = q[j]
        BY <1>2, <1>8, <3>2
      <4> QED
        BY <2>3, <4>1
    <3> QED
      BY <3>1, <3>2
  <2>4. best = fedSamples \/ \E j \in 1..((k + 1) - 1) : Says(q[j]) /\ q[j].heard = fedSamples
    BY <1>8, <2>1 DEF DoneInv
  <2>5. (k + 1) - 1 = k
    OBVIOUS
  <2> QED
    BY <2>2, <2>3, <2>4, <2>5
<1> QED
  BY <1>3, <1>7, <1>8 DEF DoneInv, r

\* The answers of the buffering backends follow each other.
LEMMA JoinsBuffered ==
  ASSUME BackendTypes, BufferInv, NEW a \in Transcript, transcripts' = Append(transcripts, a),
         IsText(a) => a.from = held /\ a.to <= held', held' = held \/ held' = fedSamples,
         UNCHANGED fedSamples
  PROVE  BufferInv'
<1> DEFINE q == transcripts
<1> DEFINE r == Append(q, a)
<1>0. q \in Seq(Transcript) /\ held \in Nat /\ fedSamples \in Nat /\ held' \in Nat /\ held <= held' /\ held' <= fedSamples
  <2>1. q \in Seq(Transcript) /\ held \in Nat /\ fedSamples \in Nat /\ held <= fedSamples
    BY DEF BackendTypes, BufferInv
  <2> QED
    BY <2>1
<1>1. \A i \in 1..Len(q) : q[i].to \in Nat /\ q[i].from \in Nat
  <2>1. ASSUME NEW x \in Transcript PROVE x.to \in Nat /\ x.from \in Nat
    BY DEF Transcript
  <2>2. \A i \in 1..Len(q) : q[i] \in Transcript
    BY <1>0
  <2> QED
    BY <2>1, <2>2
<1>2. /\ Len(r) = Len(q) + 1 /\ r[Len(q) + 1] = a /\ Len(q) \in Nat
      /\ \A i \in 1..Len(q) : r[i] = q[i]
      /\ \A i \in 1..Len(r) : i \in 1..Len(q) \/ i = Len(q) + 1
  BY <1>0
<1> HIDE DEF r
<1>3. ASSUME NEW i \in 1..Len(q), IsText(q[i]) PROVE q[i].to <= held /\ q[i].to <= held'
  BY <1>0, <1>1, <1>3 DEF BufferInv
<1>4. ASSUME NEW i \in 1..Len(r), IsText(r[i]) PROVE r[i].to <= held'
  BY <1>2, <1>3, <1>4
<1>5. ASSUME NEW i \in 1..Len(r), NEW j \in 1..Len(r), i < j, IsText(r[i]), IsText(r[j])
      PROVE  r[i].to <= r[j].from
  <2>1. i \in 1..Len(q)
    BY <1>2, <1>5
  <2>2. CASE j \in 1..Len(q)
    BY <1>2, <1>5, <2>1, <2>2 DEF BufferInv
  <2>3. CASE j = Len(q) + 1
    BY <1>2, <1>3, <1>5, <2>1, <2>3
  <2> QED
    BY <1>2, <2>2, <2>3
<1> QED
  BY <1>0, <1>4, <1>5 DEF BufferInv, r

\* What a drain leaves known, and what one event does.
LEMMA LastTextKnown ==
  ASSUME NEW sent \in Seq(HelperEvents), NEW known
  PROVE  LastText(sent, known) = known
           \/ \E i \in 1..Len(sent) : Says(sent[i]) /\ LastText(sent, known) = sent[i].heard
<1> DEFINE S == {i \in DOMAIN sent : sent[i].kind \in {"partial", "final"}}
<1>1. LastText(sent, known) = IF S = {} THEN known ELSE sent[Max(S)].heard
  BY DEF LastText
<1>2. S \in SUBSET (1..Len(sent)) /\ Len(sent) \in Nat
  OBVIOUS
<1>3. \A i \in S : Says(sent[i])
  BY DEF Says
<1> HIDE DEF S
<1>4. CASE S # {}
  <2>1. Max(S) \in S
    BY <1>2, <1>4, LastOfSome
  <2> QED
    BY <1>1, <1>2, <1>3, <1>4, <2>1
<1> QED
  BY <1>1, <1>4

LEMMA LastTextOfOne ==
  ASSUME NEW e \in HelperEvents, NEW known
  PROVE  LastText(<<e>>, known) = IF Says(e) THEN e.heard ELSE known
<1> DEFINE q == <<e>>
<1> DEFINE S == {i \in DOMAIN q : q[i].kind \in {"partial", "final"}}
<1>1. LastText(q, known) = IF S = {} THEN known ELSE q[Max(S)].heard
  BY DEF LastText
<1>2. Len(q) = 1 /\ q[1] = e /\ DOMAIN q = {1}
  OBVIOUS
<1> HIDE DEF q
<1>3. S \in SUBSET (1..1)
  BY <1>2
<1>4. CASE Says(e)
  <2>1. 1 \in S
    BY <1>2, <1>4 DEF Says
  <2> HIDE DEF S
  <2>2. Max(S) \in S
    BY <1>3, <2>1, LastOfSome
  <2>3. Max(S) \in 1..1
    BY <1>3, <2>2
  <2>4. \A x \in 1..1 : x = 1
    OBVIOUS
  <2>5. Max(S) = 1
    BY <2>3, <2>4
  <2> QED
    BY <1>1, <1>2, <1>4, <2>1, <2>5 DEF q
<1>5. CASE ~Says(e)
  <2>1. S = {}
    BY <1>2, <1>5 DEF Says
  <2> QED
    BY <1>1, <1>5, <2>1 DEF q
<1> QED
  BY <1>4, <1>5

\* What the helper does, whoever listens.
LEMMA HelperKeeps ==
  ASSUME BackendTypes, backend = "apple", AppleInv,
         HelperReady \/ HelperHears \/ HelperEnds \/ HelperFails
  PROVE  BackendTypes' /\ AppleInv'
<1> USE DEF OnlyHelper, HelperDoes, Emit
<1>0. /\ helper \in [state : {"none", "loading", "running", "deaf", "hung", "exited"}, heard : Nat, faults : Nat]
      /\ events \in Seq(HelperEvents) /\ fedSamples \in Nat /\ helper.heard \in Nat /\ helper.faults \in Nat
      /\ helper.heard <= fedSamples
  BY DEF BackendTypes, AppleInv, EventsInv
<1>1. UNCHANGED <<backend, phase, fedSamples, held, best, painted, transcripts>>
  BY DEF HelperReady, HelperHears, HelperEnds, HelperFails
<1>2. ASSUME events' \in Seq(HelperEvents), EventsInv' /\ DoneInv', helper'.faults = 0 => helper.faults = 0,
             helper' \in [state : {"none", "loading", "running", "deaf", "hung", "exited"}, heard : Nat, faults : Nat]
      PROVE  BackendTypes' /\ AppleInv'
  <2>1. BackendTypes'
    BY <1>1, <1>2 DEF BackendTypes
  <2>2. ASSUME transcripts # <<>> PROVE phase' = "answered" /\ Len(transcripts') = 1 /\ GoodAnswer(transcripts[1])'
    BY <1>1, <1>2, <2>2 DEF AppleInv, GoodAnswer
  <2> QED
    BY <1>1, <1>2, <2>1, <2>2 DEF AppleInv
\* One event, or none, of a helper that has read up to n.
<1>3. ASSUME NEW e \in HelperEvents, NEW n \in Nat, helper.heard <= n, n <= fedSamples,
             Says(e) => e.heard = n, e.kind # "done",
             events' = Append(events, e) \/ (events' = events /\ e.kind = "error"),
             helper'.heard = n, helper'.faults = 0 => helper.faults = 0 /\ helper'.state \notin {"deaf", "hung"},
             helper' \in [state : {"none", "loading", "running", "deaf", "hung", "exited"}, heard : Nat, faults : Nat]
      PROVE  BackendTypes' /\ AppleInv'
  <2>1. EventsInv' /\ DoneInv'
    BY <1>1, <1>3, EmitKeeps DEF AppleInv
  <2>2. events' \in Seq(HelperEvents)
    BY <1>0, <1>3
  <2> QED
    BY <1>2, <1>3, <2>1, <2>2
<1>4. /\ Event("ready", 0) \in HelperEvents /\ Event("error", 0) \in HelperEvents /\ Event("done", 0) \in HelperEvents
      /\ \A n \in Nat : Event("partial", n) \in HelperEvents /\ Event("final", n) \in HelperEvents
      /\ ~Says(Event("ready", 0)) /\ ~Says(Event("error", 0)) /\ ~Says(Event("done", 0))
      /\ \A n \in Nat : Says(Event("partial", n)) /\ Says(Event("final", n)) /\ Event("final", n).heard = n
                        /\ Event("partial", n).heard = n /\ Event("partial", n).kind # "done" /\ Event("final", n).kind # "done"
      /\ Event("error", 0).kind = "error" /\ Event("ready", 0).kind # "done" /\ Event("error", 0).kind # "done"
      /\ Event("done", 0).kind = "done"
  BY DEF Event, HelperEvents, Says
<1>5. CASE HelperReady
  <2>1. /\ helper' \in [state : {"none", "loading", "running", "deaf", "hung", "exited"}, heard : Nat, faults : Nat]
        /\ helper'.heard = helper.heard /\ helper'.faults = helper.faults /\ helper'.state \in {"running", "exited"}
    BY <1>0, <1>5 DEF HelperReady
  <2>2. \E e \in {Event("ready", 0), Event("error", 0)} : events' = Append(events, e)
    BY <1>5 DEF HelperReady
  <2>3. helper.heard <= helper.heard
    BY <1>0
  <2> QED
    BY <1>0, <1>3, <1>4, <2>1, <2>2, <2>3
<1>6. CASE HelperHears
  <2>1. PICK n \in helper.heard + 1..fedSamples :
          \/ helper' = [helper EXCEPT !.heard = n] /\ UNCHANGED events
          \/ helper.state = "running" /\ helper' = [helper EXCEPT !.heard = n] /\ events' = Append(events, Event("partial", n))
          \/ helper' = [helper EXCEPT !.heard = n, !.faults = @ + 1] /\ events' = Append(events, Event("error", 0))
    BY <1>6 DEF HelperHears
  <2>2. n \in Nat /\ helper.heard <= n /\ n <= fedSamples
    BY <1>0
  <2>3. helper.faults = 0 => helper.state \notin {"deaf", "hung"}
    BY DEF AppleInv, DoneInv
  <2>4. CASE helper' = [helper EXCEPT !.heard = n] /\ UNCHANGED events
    <3>1. /\ helper' \in [state : {"none", "loading", "running", "deaf", "hung", "exited"}, heard : Nat, faults : Nat]
          /\ helper'.heard = n /\ helper'.faults = helper.faults /\ helper'.state = helper.state
      BY <1>0, <2>2, <2>4
    <3> QED
      BY <1>3, <1>4, <2>2, <2>3, <2>4, <3>1
  <2>5. CASE helper' = [helper EXCEPT !.heard = n] /\ events' = Append(events, Event("partial", n))
    <3>1. /\ helper' \in [state : {"none", "loading", "running", "deaf", "hung", "exited"}, heard : Nat, faults : Nat]
          /\ helper'.heard = n /\ helper'.faults = helper.faults /\ helper'.state = helper.state
      BY <1>0, <2>2, <2>5
    <3> QED
      BY <1>3, <1>4, <2>2, <2>3, <2>5, <3>1
  <2>6. CASE helper' = [helper EXCEPT !.heard = n, !.faults = @ + 1] /\ events' = Append(events, Event("error", 0))
    <3>1. /\ helper' \in [state : {"none", "loading", "running", "deaf", "hung", "exited"}, heard : Nat, faults : Nat]
          /\ helper'.heard = n /\ helper'.faults # 0
      <4>1. \A m \in Nat : m + 1 \in Nat /\ m + 1 # 0
        OBVIOUS
      <4> QED
        BY <1>0, <2>2, <2>6, <4>1
    <3> QED
      BY <1>3, <1>4, <2>2, <2>6, <3>1
  <2> QED
    BY <2>1, <2>4, <2>5, <2>6
<1>7. CASE HelperFails
  <2>1. PICK s \in {"exited", "hung", "deaf"} :
          /\ helper' = [helper EXCEPT !.state = s, !.faults = @ + 1]
          /\ IF s = "deaf" THEN events' = Append(events, Event("error", 0)) ELSE UNCHANGED events
    BY <1>7 DEF HelperFails
  <2>2. /\ helper' \in [state : {"none", "loading", "running", "deaf", "hung", "exited"}, heard : Nat, faults : Nat]
        /\ helper'.heard = helper.heard /\ helper'.faults # 0
    <3>1. \A m \in Nat : m + 1 \in Nat /\ m + 1 # 0
      OBVIOUS
    <3>2. s \in {"none", "loading", "running", "deaf", "hung", "exited"}
      OBVIOUS
    <3>3. helper' = [helper EXCEPT !.state = s, !.faults = @ + 1]
      BY <2>1
    <3> QED
      BY <1>0, <3>1, <3>2, <3>3
  <2>3. events' = Append(events, Event("error", 0)) \/ events' = events
    BY <2>1
  <2>4. helper.heard <= helper.heard
    BY <1>0
  <2> QED
    BY <1>0, <1>3, <1>4, <2>2, <2>3, <2>4
<1>8. CASE HelperEnds
  <2> DEFINE q == events
  <2> DEFINE n == helper.heard
  <2> DEFINE f == Append(q, Event("final", n))
  <2> DEFINE g == Append(f, Event("done", 0))
  <2>1. /\ helper' \in [state : {"none", "loading", "running", "deaf", "hung", "exited"}, heard : Nat, faults : Nat]
        /\ helper'.heard = n /\ helper'.faults = helper.faults /\ helper'.state = "exited" /\ n = fedSamples
    BY <1>0, <1>8 DEF HelperEnds
  <2>2. events' = g \/ (helper.state = "deaf" /\ events' = Append(q, Event("done", 0)))
    <3>1. CASE helper.state = "deaf"
      <4>1. events' = q \o <<>> \o <<Event("done", 0)>>
        BY <1>8, <3>1 DEF HelperEnds
      <4> QED
        BY <1>0, <1>4, <3>1, <4>1
    <3>2. CASE helper.state # "deaf"
      <4>1. events' = q \o <<Event("final", n)>> \o <<Event("done", 0)>>
        BY <1>8, <3>2 DEF HelperEnds
      <4> DEFINE a == Event("final", n)
      <4> DEFINE b == Event("done", 0)
      <4>2. a \in HelperEvents /\ b \in HelperEvents
        BY <1>0, <1>4
      <4> HIDE DEF a, b
      <4>3. q \o <<a>> \o <<b>> = Append(Append(q, a), b)
        BY <1>0, <4>2
      <4> QED
        BY <4>1, <4>3 DEF a, b
    <3> QED
      BY <3>1, <3>2
  <2> DEFINE r == events'
  <2>3. /\ r \in Seq(HelperEvents) /\ Len(q) \in Nat /\ Len(r) \in Nat /\ Len(q) <= Len(r)
        /\ \A i \in 1..Len(q) : r[i] = q[i]
        /\ \A i \in 1..Len(r) : i \in 1..Len(q) \/ (i > Len(q) /\ r[i] \in {Event("final", n), Event("done", 0)})
        /\ helper.state # "deaf" => Len(r) = Len(q) + 2 /\ r[Len(q) + 1] = Event("final", n)
    <3> DEFINE a == Event("final", n)
    <3> DEFINE b == Event("done", 0)
    <3>1. a \in HelperEvents /\ b \in HelperEvents
      BY <1>0, <1>4
    <3>2. r = Append(Append(q, a), b) \/ (helper.state = "deaf" /\ r = Append(q, b))
      BY <2>2
    <3> HIDE DEF a, b, r
    <3>3. CASE r = Append(Append(q, a), b)
      <4>1. /\ r \in Seq(HelperEvents) /\ Len(r) = Len(q) + 2 /\ Len(q) \in Nat
            /\ r[Len(q) + 1] = a /\ r[Len(q) + 2] = b
            /\ \A i \in 1..Len(q) : r[i] = q[i]
        BY <1>0, <3>1, <3>3
      <4>2. \A i \in 1..Len(r) : i \in 1..Len(q) \/ i = Len(q) + 1 \/ i = Len(q) + 2
        BY <4>1
      <4>3. \A i \in 1..Len(r) : i \in 1..Len(q) \/ (i > Len(q) /\ r[i] \in {a, b})
        BY <4>1, <4>2
      <4> QED
        BY <4>1, <4>3 DEF a, b
    <3>4. CASE helper.state = "deaf" /\ r = Append(q, b)
      <4>1. /\ r \in Seq(HelperEvents) /\ Len(r) = Len(q) + 1 /\ Len(q) \in Nat
            /\ r[Len(q) + 1] = b
            /\ \A i \in 1..Len(q) : r[i] = q[i]
        BY <1>0, <3>1, <3>4
      <4>2. \A i \in 1..Len(r) : i \in 1..Len(q) \/ i = Len(q) + 1
        BY <4>1
      <4>3. \A i \in 1..Len(r) : i \in 1..Len(q) \/ (i > Len(q) /\ r[i] \in {a, b})
        BY <4>1, <4>2
      <4> QED
        BY <3>4, <4>1, <4>3 DEF a, b
    <3> QED
      BY <3>2, <3>3, <3>4
  <2>4. best \in Nat /\ painted \in Nat /\ painted <= best /\ best <= n /\ n <= fedSamples
    BY <1>0 DEF BackendTypes, AppleInv, EventsInv
  <2>5. \A i \in 1..Len(q) : q[i].heard \in Nat
    <3>1. ASSUME NEW x \in HelperEvents PROVE x.heard \in Nat
      BY DEF HelperEvents
    <3>2. \A i \in 1..Len(q) : q[i] \in HelperEvents
      BY <1>0
    <3> QED
      BY <3>1, <3>2
  <2> HIDE DEF r
  <2>6. ASSUME NEW i \in 1..Len(r), Says(r[i]) PROVE best <= r[i].heard /\ r[i].heard <= n
    <3>1. CASE i \in 1..Len(q)
      BY <2>3, <2>6, <3>1 DEF AppleInv, EventsInv
    <3>2. CASE r[i] \in {Event("final", n), Event("done", 0)}
      <4>1. r[i].heard = n
        BY <1>0, <1>4, <2>6, <3>2
      <4> QED
        BY <1>0, <2>4, <4>1
    <3> QED
      BY <2>3, <3>1, <3>2
  <2>7. ASSUME NEW i \in 1..Len(r), NEW j \in 1..Len(r), i < j, Says(r[i]), Says(r[j])
        PROVE  r[i].heard <= r[j].heard
    <3>1. CASE j \in 1..Len(q)
      <4>1. i \in 1..Len(q)
        BY <2>3, <2>7, <3>1
      <4> QED
        BY <2>3, <2>7, <3>1, <4>1 DEF AppleInv, EventsInv
    <3>2. CASE r[j] \in {Event("final", n), Event("done", 0)}
      <4>1. r[j].heard = n
        BY <1>0, <1>4, <2>7, <3>2
      <4> QED
        BY <2>6, <2>7, <4>1
    <3> QED
      BY <2>3, <3>1, <3>2
  <2>8. EventsInv'
    BY <1>1, <2>1, <2>4, <2>6, <2>7 DEF EventsInv, r
  <2>9. ASSUME helper.faults = 0, Started, NEW k \in 1..Len(r), r[k].kind = "done"
        PROVE  best = fedSamples \/ \E j \in 1..(k - 1) : Says(r[j]) /\ r[j].heard = fedSamples
    <3>1. CASE k \in 1..Len(q)
      <4>1. best = fedSamples \/ \E j \in 1..(k - 1) : Says(q[j]) /\ q[j].heard = fedSamples
        BY <2>3, <2>9, <3>1 DEF AppleInv, DoneInv
      <4>2. \A j \in 1..(k - 1) : r[j] = q[j]
        BY <2>3, <3>1
      <4> QED
        BY <4>1, <4>2
    <3>2. CASE k > Len(q)
      <4>1. helper.state # "deaf"
        BY <2>9 DEF AppleInv, DoneInv
      <4>2. k # Len(q) + 1
        BY <1>0, <1>4, <2>3, <2>9, <4>1
      <4>3. Len(q) + 1 \in 1..(k - 1)
        BY <2>3, <3>2, <4>2
      <4>4. Says(r[Len(q) + 1]) /\ r[Len(q) + 1].heard = fedSamples
        BY <1>0, <1>4, <2>1, <2>3, <4>1
      <4> QED
        BY <4>3, <4>4
    <3> QED
      BY <2>3, <3>1, <3>2
  <2>10. DoneInv'
    BY <1>1, <2>1, <2>9 DEF DoneInv, Started, r
  <2>11. events' \in Seq(HelperEvents)
    BY <2>3 DEF r
  <2> QED
    BY <1>2, <2>1, <2>8, <2>10, <2>11
<1> QED
  BY <1>5, <1>6, <1>7, <1>8

\* The first event, or none: a helper that is not ready is no recognizer.
LEMMA SpawnedKeeps ==
  ASSUME BackendTypes, backend = "apple", AppleInv, Spawned
  PROVE  BackendTypes' /\ AppleInv'
<1>0. /\ events \in Seq(HelperEvents) /\ best \in Nat /\ transcripts = <<>>
      /\ EventsInv /\ DoneInv /\ Started
  BY DEF BackendTypes, AppleInv, Spawned, Started
<1>1. UNCHANGED <<backend, fedSamples, held, helper, best, painted, transcripts>>
  BY DEF Spawned
<1>2. CASE events # <<>> /\ events' = Tail(events) /\ phase' = "feeding" /\ Head(events).kind = "ready"
  <2>1. ~Says(Head(events)) /\ best' = best
    BY <1>1, <1>2 DEF Says
  <2>2. EventsInv' /\ DoneInv'
    BY <1>0, <1>1, <1>2, <2>1, ReceiveKeeps
  <2>3. Tail(events) \in Seq(HelperEvents)
    BY <1>0, <1>2
  <2>4. BackendTypes'
    BY <1>1, <1>2, <2>3 DEF BackendTypes
  <2> QED
    BY <1>0, <1>1, <2>2, <2>4 DEF AppleInv
<1>3. CASE phase' = "failed to start" /\ (events' = events \/ (events # <<>> /\ events' = Tail(events)))
  <2> DEFINE q == events
  <2> DEFINE r == events'
  <2>1. /\ r \in Seq(HelperEvents) /\ Len(r) \in Nat
        /\ \E d \in {0, 1} : \A i \in 1..Len(r) : i + d \in 1..Len(q) /\ r[i] = q[i + d]
    <3>1. CASE r = q
      <4>1. \A i \in 1..Len(r) : i + 0 = i
        OBVIOUS
      <4> QED
        BY <1>0, <3>1, <4>1
    <3>2. CASE q # <<>> /\ r = Tail(q)
      <4>1. q # <<>> /\ Len(q) \in Nat /\ Len(q) > 0 /\ Len(r) = Len(q) - 1 /\ r \in Seq(HelperEvents)
        BY <1>0, <3>2
      <4>2. \A i \in 1..Len(r) : r[i] = q[i + 1]
        BY <1>0, <3>2, <4>1
      <4>3. \A i \in 1..Len(r) : i + 1 \in 1..Len(q)
        <5> HIDE DEF q, r
        <5> QED
          BY <4>1
      <4> QED
        BY <4>1, <4>2, <4>3
    <3> QED
      BY <1>3, <3>1, <3>2
  <2>2. PICK d \in {0, 1} : \A i \in 1..Len(r) : i + d \in 1..Len(q) /\ r[i] = q[i + d]
    BY <2>1
  <2> HIDE DEF r
  <2>3. ASSUME NEW i \in 1..Len(r), Says(r[i]) PROVE best <= r[i].heard /\ r[i].heard <= helper.heard
    BY <1>0, <2>2, <2>3 DEF EventsInv
  <2>4. ASSUME NEW i \in 1..Len(r), NEW j \in 1..Len(r), i < j, Says(r[i]), Says(r[j])
        PROVE  r[i].heard <= r[j].heard
    <3>1. i + d < j + d
      BY <2>1, <2>4
    <3> QED
      BY <1>0, <2>2, <2>4, <3>1 DEF EventsInv
  <2>5. EventsInv'
    BY <1>0, <1>1, <2>3, <2>4 DEF EventsInv, r
  <2>6. DoneInv'
    BY <1>0, <1>1, <1>3 DEF DoneInv, Started
  <2>7. BackendTypes'
    BY <1>1, <1>3, <2>1 DEF BackendTypes, r
  <2> QED
    BY <1>0, <1>1, <2>5, <2>6, <2>7 DEF AppleInv
<1> QED
  BY <1>2, <1>3 DEF Spawned

\* What is fed to the Apple backend, and what a feed paints.
LEMMA FeedKeeps ==
  ASSUME BackendTypes, backend = "apple", AppleInv, AppleFeed
  PROVE  BackendTypes' /\ AppleInv'
<1>0. /\ events \in Seq(HelperEvents) /\ best \in Nat /\ painted \in Nat /\ fedSamples \in Nat /\ helper.heard \in Nat
      /\ transcripts = <<>> /\ EventsInv /\ DoneInv /\ phase = "feeding"
  BY DEF BackendTypes, AppleInv, AppleFeed
<1>1. UNCHANGED <<backend, phase, held, helper, transcripts>> /\ events' = <<>>
  BY DEF AppleFeed
<1>2. fedSamples' \in Nat /\ fedSamples <= fedSamples'
  <2>1. fedSamples' = fedSamples + 1 \/ fedSamples' = fedSamples
    BY DEF AppleFeed
  <2> QED
    BY <1>0, <2>1
<1>3. best' \in Nat /\ best <= best' /\ best' <= helper.heard
  <2>1. best' = LastText(events, best)
    BY DEF AppleFeed
  <2>2. CASE best' = best
    BY <1>0, <2>2 DEF EventsInv
  <2>3. ASSUME NEW i \in 1..Len(events), Says(events[i]), best' = events[i].heard
        PROVE  best' \in Nat /\ best <= best' /\ best' <= helper.heard
    <3>1. ASSUME NEW x \in HelperEvents PROVE x.heard \in Nat
      BY DEF HelperEvents
    <3>2. events[i] \in HelperEvents
      BY <1>0
    <3>3. best' \in Nat
      BY <2>3, <3>1, <3>2
    <3> QED
      BY <1>0, <2>3, <3>3 DEF EventsInv
  <2> QED
    BY <1>0, <2>1, <2>2, <2>3, LastTextKnown
<1>4. painted' \in Nat /\ painted' <= best'
  <2>1. painted' = best' \/ (best' = best /\ painted' = painted)
    BY DEF AppleFeed
  <2>2. painted <= best
    BY <1>0 DEF EventsInv
  <2> QED
    BY <1>0, <1>3, <2>1, <2>2
<1>5. helper.heard <= fedSamples'
  BY <1>0, <1>2 DEF EventsInv
<1>6. EventsInv' /\ DoneInv'
  BY <1>0, <1>1, <1>3, <1>4, <1>5 DEF EventsInv, DoneInv
<1>7. BackendTypes'
  BY <1>0, <1>1, <1>2, <1>3, <1>4 DEF BackendTypes
<1> QED
  BY <1>0, <1>1, <1>6, <1>7 DEF AppleInv

\* The one answer of the Apple backend.
LEMMA AnswerKeeps ==
  ASSUME backend' = "apple", EventsInv' /\ DoneInv', transcripts = <<>>, NEW a \in Transcript, Answer(a), GoodAnswer(a)'
  PROVE  transcripts' \in Seq(Transcript) /\ phase' = "answered" /\ AppleInv'
<1>1. transcripts' = <<a>> /\ phase' = "answered"
  BY DEF Answer
<1>2. Len(<<a>>) = 1 /\ <<a>>[1] = a /\ <<a>> \in Seq(Transcript)
  OBVIOUS
<1> QED
  BY <1>1, <1>2 DEF AppleInv

LEMMA AppleAnswers ==
  /\ \A n \in Nat : \A w \in {"done", "deadline"} :
       Text(0, n, w) \in Transcript /\ Text(0, n, w).kind = "text" /\ Text(0, n, w).to = n /\ Text(0, n, w).why = w
  /\ \A w \in {"error", "deadline"} :
       Failed(w) \in Transcript /\ Failed(w).kind = "error" /\ Failed(w).to = 0 /\ Failed(w).why = w
  BY DEF Text, Failed, Transcript

\* An event that finalize receives.
LEMMA ReceivesKeeps ==
  ASSUME BackendTypes, backend = "apple", AppleInv, AppleReceives
  PROVE  BackendTypes' /\ AppleInv'
<1> DEFINE e == Head(events)
<1>0. /\ events \in Seq(HelperEvents) /\ best \in Nat /\ painted \in Nat /\ fedSamples \in Nat /\ helper.heard \in Nat
      /\ transcripts = <<>> /\ EventsInv /\ DoneInv /\ phase = "finalizing" /\ Started
      /\ painted <= best /\ best <= fedSamples
  <2>1. /\ events \in Seq(HelperEvents) /\ best \in Nat /\ painted \in Nat /\ fedSamples \in Nat /\ helper.heard \in Nat
        /\ transcripts = <<>> /\ EventsInv /\ DoneInv /\ phase = "finalizing"
    BY DEF BackendTypes, AppleInv, AppleReceives
  <2> QED
    BY <2>1 DEF EventsInv, Started
<1>1. /\ UNCHANGED <<backend, fedSamples, held, helper, painted>>
      /\ events # <<>> /\ events' = Tail(events) /\ best' = LastText(<<e>>, best)
  BY DEF AppleReceives
<1>2. e \in HelperEvents /\ Tail(events) \in Seq(HelperEvents)
  BY <1>0, <1>1
<1>3. best' = IF Says(e) THEN e.heard ELSE best
  <2> HIDE DEF e
  <2> QED
    BY <1>1, <1>2, LastTextOfOne
<1>4. EventsInv' /\ DoneInv' /\ best' \in Nat
  BY <1>0, <1>1, <1>3, ReceiveKeeps
<1>5. ASSUME phase' \in {"finalizing", "answered"}, transcripts' \in Seq(Transcript) PROVE BackendTypes'
  BY <1>1, <1>2, <1>4, <1>5 DEF BackendTypes
<1>6. CASE e.kind = "done" /\ Answer(Text(0, best, "done"))
  <2>0. PICK a \in Transcript : a = Text(0, best, "done")
    BY <1>0, AppleAnswers
  <2>1. helper.faults = 0 => best = fedSamples
    <3>1. 1 \in 1..Len(events) /\ events[1].kind = "done"
      BY <1>0, <1>1, <1>6
    <3>2. \A j \in 1..(1 - 1) : FALSE
      OBVIOUS
    <3> QED
      BY <1>0, <3>1, <3>2 DEF DoneInv
  <2>2. a.kind = "text" /\ a.to = best /\ a.why = "done"
    BY <1>0, <2>0, AppleAnswers
  <2>3. GoodAnswer(a)'
    BY <1>0, <1>1, <2>1, <2>2 DEF GoodAnswer
  <2>4. Answer(a)
    BY <1>6, <2>0
  <2>5. transcripts' \in Seq(Transcript) /\ phase' = "answered" /\ AppleInv'
    BY <1>0, <1>1, <1>4, <2>2, <2>3, <2>4, AnswerKeeps
  <2> QED
    BY <1>5, <2>5
<1>7. CASE Answer(Failed("error"))
  <2> DEFINE a == Failed("error")
  <2>1. a \in Transcript /\ a.kind = "error" /\ a.to = 0 /\ a.why = "error"
    BY AppleAnswers
  <2> HIDE DEF a
  <2>2. GoodAnswer(a)'
    BY <1>0, <1>1, <2>1 DEF GoodAnswer
  <2>3. Answer(a)
    BY <1>7 DEF a
  <2>4. transcripts' \in Seq(Transcript) /\ phase' = "answered" /\ AppleInv'
    BY <1>0, <1>1, <1>4, <2>1, <2>2, <2>3, AnswerKeeps
  <2> QED
    BY <1>5, <2>4
<1>8. CASE UNCHANGED <<phase, transcripts>>
  <2>1. AppleInv'
    BY <1>0, <1>4, <1>8 DEF AppleInv
  <2>2. transcripts' \in Seq(Transcript) /\ phase' \in {"finalizing", "answered"}
    BY <1>0, <1>8 DEF BackendTypes
  <2> QED
    BY <1>5, <2>1, <2>2
<1> QED
  BY <1>6, <1>7, <1>8 DEF AppleReceives

\* The deadline of finalize.
LEMMA GivesUpKeeps ==
  ASSUME BackendTypes, backend = "apple", AppleInv, AppleGivesUp
  PROVE  BackendTypes' /\ AppleInv'
<1>0. /\ events = <<>> /\ best \in Nat /\ painted \in Nat /\ fedSamples \in Nat /\ helper.heard \in Nat
      /\ transcripts = <<>> /\ EventsInv /\ DoneInv
      /\ helper \in [state : {"none", "loading", "running", "deaf", "hung", "exited"}, heard : Nat, faults : Nat]
      /\ painted <= best /\ best <= fedSamples
  <2>1. /\ events = <<>> /\ best \in Nat /\ painted \in Nat /\ fedSamples \in Nat /\ helper.heard \in Nat
        /\ transcripts = <<>> /\ EventsInv /\ DoneInv
        /\ helper \in [state : {"none", "loading", "running", "deaf", "hung", "exited"}, heard : Nat, faults : Nat]
    BY DEF BackendTypes, AppleInv, AppleGivesUp
  <2> QED
    BY <2>1 DEF EventsInv
<1>1. /\ UNCHANGED <<backend, fedSamples, held, events, best, painted>>
      /\ helper' = [helper EXCEPT !.state = "exited"]
      /\ \E a \in {Failed("deadline"), Text(0, best, "deadline")} : Answer(a) /\ (a = Failed("deadline") => best = 0)
  <2>1. Failed("deadline") # Text(0, best, "deadline")
    BY <1>0, AppleAnswers
  <2> QED
    BY <2>1 DEF AppleGivesUp, HelperDoes
<1>2. /\ helper' \in [state : {"none", "loading", "running", "deaf", "hung", "exited"}, heard : Nat, faults : Nat]
      /\ helper'.heard = helper.heard /\ helper'.faults = helper.faults /\ helper'.state = "exited"
  BY <1>0, <1>1
<1>3. EventsInv' /\ DoneInv'
  BY <1>0, <1>1, <1>2 DEF EventsInv, DoneInv
<1>4. PICK a \in {Failed("deadline"), Text(0, best, "deadline")} : Answer(a) /\ (a = Failed("deadline") => best = 0)
  BY <1>1
<1>5. /\ a \in Transcript /\ a.to \in {0, best} /\ a.why = "deadline"
      /\ a.kind = "text" => a.to = best
      /\ a.kind = "error" => best = 0
  BY <1>0, <1>4, AppleAnswers
<1>6. GoodAnswer(a)'
  BY <1>0, <1>1, <1>5 DEF GoodAnswer
<1>7. transcripts' \in Seq(Transcript) /\ phase' = "answered" /\ AppleInv'
  BY <1>0, <1>1, <1>3, <1>4, <1>5, <1>6, AnswerKeeps
<1>8. BackendTypes'
  BY <1>0, <1>1, <1>2, <1>7 DEF BackendTypes
<1> QED
  BY <1>7, <1>8

\* The backends that buffer.
LEMMA BufferingKeeps ==
  ASSUME BackendTypes, backend \in Buffering, BufferInv, NoHelper, Buffer \/ FinalizeBuffered \/ NextUtterance
  PROVE  BackendTypes' /\ BufferInv' /\ NoHelper'
<1>0. held \in Nat /\ fedSamples \in Nat /\ transcripts \in Seq(Transcript) /\ held <= fedSamples /\ WindowSamples \in Nat
  BY BackendsAssumption DEF BackendTypes, BufferInv
<1>1. UNCHANGED <<backend, helper, events, best, painted>>
  BY DEF Buffer, FinalizeBuffered, NextUtterance
<1>2. CASE Buffer
  <2>1. fedSamples' = fedSamples + 1 /\ UNCHANGED <<held, transcripts, phase>>
    BY <1>2 DEF Buffer
  <2>2. fedSamples' \in Nat /\ held <= fedSamples'
    BY <1>0, <2>1
  <2>3. BackendTypes'
    BY <1>1, <2>1, <2>2 DEF BackendTypes
  <2> QED
    BY <1>1, <2>1, <2>2, <2>3 DEF BufferInv, NoHelper
<1>3. CASE NextUtterance
  <2>1. UNCHANGED <<fedSamples, held, transcripts>> /\ phase' = "feeding"
    BY <1>3 DEF NextUtterance
  <2> QED
    BY <1>1, <2>1 DEF BackendTypes, BufferInv, NoHelper
<1>4. CASE FinalizeBuffered
  <2>1. /\ NoText \in Transcript /\ ~IsText(NoText)
        /\ Failed("backend") \in Transcript /\ ~IsText(Failed("backend"))
    BY DEF NoText, Text, Failed, Transcript, IsText
  <2>2. /\ Text(held, fedSamples, "done") \in Transcript
        /\ Text(held, fedSamples, "done").from = held /\ Text(held, fedSamples, "done").to = fedSamples
    BY <1>0 DEF Text, Transcript
  <2>3. WhisperText \in Transcript /\ WhisperText.from = held /\ WhisperText.to <= fedSamples
    <3> DEFINE m == IF fedSamples - held > WindowSamples THEN held + WindowSamples ELSE fedSamples
    <3>1. m \in Nat /\ m <= fedSamples
      BY <1>0
    <3>2. WhisperText = Text(held, m, "done")
      BY DEF WhisperText
    <3> HIDE DEF m
    <3> QED
      BY <1>0, <3>1, <3>2 DEF Text, Transcript
  <2>4. UNCHANGED fedSamples
    BY <1>4 DEF FinalizeBuffered
  <2>5. ASSUME NEW a \in Transcript, ~IsText(a) \/ (a.from = held /\ a.to <= held'), held' \in {held, fedSamples}, Answer(a)
        PROVE  BackendTypes' /\ BufferInv' /\ NoHelper'
    <3>1. transcripts' = Append(transcripts, a) /\ phase' = "answered"
      BY <2>5 DEF Answer
    <3>2. BufferInv'
      BY <2>4, <2>5, <3>1, JoinsBuffered
    <3>3. transcripts' \in Seq(Transcript) /\ held' \in Nat
      BY <1>0, <2>5, <3>1
    <3>4. BackendTypes'
      BY <1>1, <2>4, <3>1, <3>3 DEF BackendTypes
    <3> QED
      BY <1>1, <3>1, <3>2, <3>4 DEF NoHelper
  <2>6. \/ \E a \in {NoText, Failed("backend")} : Answer(a) /\ held' \in {held, fedSamples}
        \/ \E a \in {Text(held, fedSamples, "done"), WhisperText} : Answer(a) /\ held' = fedSamples
    BY <1>4 DEF FinalizeBuffered, Clearing
  <2>7. ASSUME NEW a \in {NoText, Failed("backend")}, Answer(a), held' \in {held, fedSamples}
        PROVE  BackendTypes' /\ BufferInv' /\ NoHelper'
    BY <2>1, <2>5, <2>7
  <2>8. ASSUME NEW a \in {Text(held, fedSamples, "done"), WhisperText}, Answer(a), held' = fedSamples
        PROVE  BackendTypes' /\ BufferInv' /\ NoHelper'
    <3>1. a \in Transcript /\ a.from = held /\ a.to <= held'
      BY <1>0, <2>2, <2>3, <2>8
    <3> QED
      BY <2>5, <2>8, <3>1
  <2> QED
    BY <2>6, <2>7, <2>8
<1> QED
  BY <1>2, <1>3, <1>4

LEMMA BackendsStart == BackendsInit => BackendsInv
<1> SUFFICES ASSUME BackendsInit PROVE BackendsInv
  OBVIOUS
<1>1. backend \in Streaming \cup Buffering /\ fedSamples = 0 /\ held = 0 /\ events = <<>> /\ best = 0 /\ painted = 0 /\ transcripts = <<>>
  BY DEF BackendsInit
<1>2. /\ helper \in [state : {"none", "loading", "running", "deaf", "hung", "exited"}, heard : Nat, faults : Nat]
      /\ helper.heard = 0 /\ helper.state \in {"none", "loading"}
      /\ backend \in Buffering => helper.state = "none" /\ phase = "feeding"
      /\ phase \in {"spawning", "feeding"}
  <2>1. CASE backend \in Streaming
    BY <2>1 DEF BackendsInit, Streaming, Buffering
  <2>2. CASE backend \notin Streaming
    BY <2>2 DEF BackendsInit, Streaming, Buffering
  <2> QED
    BY <2>1, <2>2
<1>3. BackendTypes
  <2>1. <<>> \in Seq(HelperEvents) /\ <<>> \in Seq(Transcript) /\ 0 \in Nat
    OBVIOUS
  <2> QED
    BY <1>1, <1>2, <2>1 DEF BackendTypes
<1>4. BufferInv /\ (backend \in Buffering => NoHelper)
  BY <1>1, <1>2 DEF BufferInv, NoHelper
<1>5. EventsInv /\ DoneInv
  BY <1>1, <1>2 DEF EventsInv, DoneInv
<1> QED
  BY <1>1, <1>3, <1>4, <1>5 DEF BackendsInv, AppleInv

LEMMA BackendsStep == BackendsInv /\ [BackendsNext]_backendVars => BackendsInv'
<1> SUFFICES ASSUME BackendsInv, [BackendsNext]_backendVars PROVE BackendsInv'
  OBVIOUS
<1> DEFINE Helpers == HelperReady \/ HelperHears \/ HelperEnds \/ HelperFails
<1> DEFINE Apples == Spawned \/ AppleFeed \/ AppleFinalize \/ AppleReceives \/ AppleGivesUp
<1> DEFINE Buffers == Buffer \/ FinalizeBuffered \/ NextUtterance
<1>0. BackendTypes /\ (backend = "apple" \/ backend \in Buffering) /\ (backend = "apple" => backend \notin Buffering)
  BY DEF BackendsInv, BackendTypes, Streaming, Buffering
<1>1. CASE UNCHANGED backendVars
  BY <1>1 DEF BackendsInv, BackendTypes, BufferInv, NoHelper, AppleInv, EventsInv, DoneInv, Started, GoodAnswer, backendVars
<1>2. CASE backend = "apple" /\ BackendsNext
  <2>1. AppleInv
    BY <1>2 DEF BackendsInv
  <2>2. backend' = backend
    BY <1>2 DEF BackendsNext, HelperReady, HelperHears, HelperEnds, HelperFails, OnlyHelper, Spawned, AppleFeed, AppleFinalize,
      AppleReceives, AppleGivesUp, Buffer, FinalizeBuffered, NextUtterance
  <2>3. CASE AppleFinalize
    <3>1. UNCHANGED <<backend, fedSamples, held, helper, events, best, painted, transcripts>> /\ phase = "feeding" /\ phase' = "finalizing"
      BY <2>3 DEF AppleFinalize
    <3>2. transcripts = <<>>
      BY <2>1, <3>1 DEF AppleInv
    <3> QED
      BY <1>0, <1>2, <2>1, <3>1, <3>2 DEF BackendsInv, BackendTypes, AppleInv, EventsInv, DoneInv, Started
  <2>4. CASE Buffers
    <3>1. CASE NextUtterance
      BY <1>0, <1>2, <3>1 DEF NextUtterance, Reusable
    <3> QED
      BY <1>0, <1>2, <2>4, <3>1 DEF Buffer, FinalizeBuffered
  <2>5. CASE Helpers \/ Spawned \/ AppleFeed \/ AppleReceives \/ AppleGivesUp
    <3>1. BackendTypes' /\ AppleInv'
      BY <1>0, <1>2, <2>1, <2>5, HelperKeeps, SpawnedKeeps, FeedKeeps, ReceivesKeeps, GivesUpKeeps
    <3> QED
      BY <1>0, <1>2, <2>2, <3>1 DEF BackendsInv
  <2> QED
    BY <1>2, <2>3, <2>4, <2>5 DEF BackendsNext
<1>3. CASE backend \in Buffering /\ BackendsNext
  <2>1. BufferInv /\ NoHelper /\ backend # "apple"
    BY <1>0, <1>3 DEF BackendsInv
  <2>2. CASE Helpers \/ Apples
    <3>1. ~HelperReady /\ ~HelperHears /\ ~HelperEnds /\ ~HelperFails
      BY <2>1 DEF NoHelper, HelperReady, HelperHears, HelperEnds, HelperFails
    <3>2. ~Spawned /\ ~AppleFeed /\ ~AppleFinalize /\ ~AppleReceives /\ ~AppleGivesUp
      BY <2>1 DEF NoHelper, Spawned, AppleFeed, AppleFinalize, AppleReceives, AppleGivesUp
    <3> QED
      BY <2>2, <3>1, <3>2
  <2>3. CASE Buffers
    <3>1. BackendTypes' /\ BufferInv' /\ NoHelper'
      BY <1>0, <1>3, <2>1, <2>3, BufferingKeeps
    <3>2. backend' = backend
      BY <2>3 DEF Buffer, FinalizeBuffered, NextUtterance
    <3> QED
      BY <2>1, <3>1, <3>2 DEF BackendsInv
  <2> QED
    BY <1>3, <2>2, <2>3 DEF BackendsNext
<1> QED
  BY <1>0, <1>1, <1>2, <1>3

LEMMA BackendsFaithful == BackendsInv => TranscriptIsTheUtterance
<1> SUFFICES ASSUME BackendsInv PROVE TranscriptIsTheUtterance
  OBVIOUS
<1>0. /\ BackendTypes /\ transcripts \in Seq(Transcript) /\ fedSamples \in Nat /\ held \in Nat
      /\ DOMAIN transcripts = 1..Len(transcripts) /\ Len(transcripts) \in Nat
      /\ (backend = "apple" \/ backend \in Buffering) /\ (backend = "apple" => backend \notin Buffering)
  <2>1. BackendTypes /\ transcripts \in Seq(Transcript) /\ fedSamples \in Nat /\ held \in Nat
    BY DEF BackendsInv, BackendTypes
  <2>2. (backend = "apple" \/ backend \in Buffering) /\ (backend = "apple" => backend \notin Buffering)
    BY <2>1 DEF BackendTypes, Streaming, Buffering
  <2> QED
    BY <2>1, <2>2
<1>1. Texts \subseteq 1..Len(transcripts) /\ \A i \in Texts : IsText(transcripts[i])
  BY <1>0 DEF Texts, IsText
<1>2. \A i \in 1..Len(transcripts) : transcripts[i].to \in Nat
  <2>1. ASSUME NEW x \in Transcript PROVE x.to \in Nat
    BY DEF Transcript
  <2>2. \A i \in 1..Len(transcripts) : transcripts[i] \in Transcript
    BY <1>0
  <2> QED
    BY <2>1, <2>2
<1>3. CASE backend \in Buffering
  <2>1. BufferInv /\ backend # "apple"
    BY <1>0, <1>3 DEF BackendsInv
  <2>2. ASSUME NEW i \in Texts PROVE transcripts[i].to <= fedSamples
    BY <1>0, <1>1, <1>2, <2>1 DEF BufferInv
  <2>3. ASSUME NEW i \in Texts, NEW j \in Texts, i < j PROVE transcripts[i].to <= transcripts[j].from
    BY <1>1, <2>1, <2>3 DEF BufferInv
  <2>4. AudioOnce
    BY <2>2, <2>3 DEF AudioOnce
  <2> QED
    BY <2>1, <2>4 DEF TranscriptIsTheUtterance, PaintedIsCommitted, SoundHelperHearsAll
<1>4. CASE backend = "apple"
  <2>1. AppleInv
    BY <1>4 DEF BackendsInv
  <2>2. CASE transcripts = <<>>
    <3>1. Texts = {}
      BY <1>0, <1>1, <2>2
    <3> QED
      BY <2>2, <3>1 DEF TranscriptIsTheUtterance, AudioOnce, PaintedIsCommitted, SoundHelperHearsAll
  <2>3. CASE transcripts # <<>>
    <3>1. Len(transcripts) = 1 /\ GoodAnswer(transcripts[1])
      BY <2>1, <2>3 DEF AppleInv
    <3>2. \A i \in 1..1 : i = 1
      OBVIOUS
    <3>3. \A i \in Texts : i = 1
      BY <1>1, <3>1, <3>2
    <3>4. AudioOnce
      BY <3>1, <3>3 DEF AudioOnce, GoodAnswer
    <3>5. transcripts[1].kind \in {"text", "error"}
      <4>1. ASSUME NEW x \in Transcript PROVE x.kind \in {"text", "error"}
        BY DEF Transcript
      <4>2. transcripts[1] \in Transcript
        BY <1>0, <3>1
      <4> QED
        BY <4>1, <4>2
    <3>6. PaintedIsCommitted /\ SoundHelperHearsAll
      BY <3>1, <3>5 DEF PaintedIsCommitted, SoundHelperHearsAll, GoodAnswer
    <3> QED
      BY <3>4, <3>6 DEF TranscriptIsTheUtterance
  <2> QED
    BY <2>2, <2>3
<1> QED
  BY <1>0, <1>3, <1>4

(* lib.rs:66, apple.rs:251, recognize.rs:194: whatever is fed, however many *)
(* utterances and faults there are and whenever the helper speaks, dies or  *)
(* hangs: no audio is in two transcripts, what was painted is committed,    *)
(* and a helper that made no error is heard to the last sample.             *)
THEOREM TranscriptsAreTheUtterances == BackendsSpec => []TranscriptIsTheUtterance
<1>1. BackendsInit => BackendsInv
  BY BackendsStart
<1>2. BackendsInv /\ [BackendsNext]_backendVars => BackendsInv'
  BY BackendsStep
<1>3. BackendsInv => TranscriptIsTheUtterance
  BY BackendsFaithful
<1> QED
  BY <1>1, <1>2, <1>3, PTL DEF BackendsSpec
-----------------------------------------------------------------------------
(* The ring between the microphone and the supervisor (AudioChain).           *)

\* The ring holds the newest samples of m, without a gap.
Newest(q, m) == Len(q) <= m /\ \A i \in 1..Len(q) : q[i] = m - Len(q) + i

LEMMA SubSeqOf ==
  ASSUME NEW s, NEW k \in Int, NEW l \in Int, \A i \in k..l : s[i] \in Nat
  PROVE  /\ SubSeq(s, k, l) \in Seq(Nat) /\ Len(SubSeq(s, k, l)) = IF k <= l THEN l - k + 1 ELSE 0
         /\ \A i \in 1..(l - k + 1) : SubSeq(s, k, l)[i] = s[k + i - 1]
BY SubSeqProperties

\* What is left of a sequence whose first k elements go.
LEMMA RestOf ==
  ASSUME NEW s, NEW k \in Nat, NEW l \in Nat, k <= l, \A i \in 1..l : s[i] \in Nat
  PROVE  /\ SubSeq(s, k + 1, l) \in Seq(Nat) /\ Len(SubSeq(s, k + 1, l)) = l - k
         /\ \A i \in 1..(l - k) : SubSeq(s, k + 1, l)[i] = s[k + i] /\ k + i \in 1..l
<1> DEFINE a == SubSeq(s, k + 1, l)
<1>1. /\ a \in Seq(Nat) /\ Len(a) = IF k + 1 <= l THEN l - (k + 1) + 1 ELSE 0
      /\ \A i \in 1..(l - (k + 1) + 1) : a[i] = s[(k + 1) + i - 1]
  <2>1. k + 1 \in Int /\ l \in Int /\ \A i \in (k + 1)..l : s[i] \in Nat
    OBVIOUS
  <2> QED
    BY <2>1, SubSeqOf
<1> HIDE DEF a
<1>2. l - (k + 1) + 1 = l - k /\ (k + 1 <= l \/ l - k = 0)
  OBVIOUS
<1>3. \A i \in 1..(l - k) : (k + 1) + i - 1 = k + i /\ k + i \in 1..l
  OBVIOUS
<1>4. a \in Seq(Nat) /\ Len(a) = l - k /\ \A i \in 1..(l - k) : a[i] = s[k + i] /\ k + i \in 1..l
  BY <1>1, <1>2, <1>3
<1> QED
  BY <1>4 DEF a

\* r is the end a of a ring q, and the end b of n samples that follow m.
Joined(r, a, b, q, from, start, m, n) ==
  /\ Len(a) = Len(q) - from /\ \A i \in 1..(Len(q) - from) : a[i] = q[from + i] /\ from + i \in 1..Len(q)
  /\ \A i \in 1..(n - start) : b[i] = m + (start + i)
  /\ Len(r) = (Len(q) - from) + (n - start)
  /\ \A i \in 1..((Len(q) - from) + (n - start)) : r[i] = IF i <= Len(q) - from THEN a[i] ELSE b[i - (Len(q) - from)]

\* Nothing is missing between what is kept of a ring and of a callback.
LEMMA RingPush ==
  ASSUME NEW m \in Nat, NEW n \in Nat, NEW q \in Seq(Nat), Newest(q, m),
         NEW from \in Nat, NEW start \in Nat, from <= Len(q), start <= n, start # 0 => from = Len(q),
         NEW a, NEW b, NEW r,
         Joined(r, a, b, q, from, start, m, n)
  PROVE  Newest(r, m + n)
<1> DEFINE L == Len(q)
<1> DEFINE N == (L - from) + (n - start)
<1>1. L \in Nat /\ from <= L /\ L <= m /\ \A i \in 1..L : q[i] = m - L + i
  BY DEF Newest
<1>2. /\ Len(r) = N /\ \A i \in 1..N : r[i] = IF i <= L - from THEN a[i] ELSE b[i - (L - from)]
      /\ \A i \in 1..(n - start) : b[i] = m + (start + i)
  BY DEF Joined
<1>3. \A i \in 1..(L - from) : a[i] = q[from + i] /\ from + i \in 1..L
  BY DEF Joined
<1>4. start # 0 => from = L
  OBVIOUS
<1> HIDE DEF L
<1>5. ASSUME NEW i \in 1..N PROVE r[i] = (m + n) - N + i
  <2>1. CASE i <= L - from
    <3>1. i \in 1..(L - from)
      BY <1>1, <2>1
    <3>2. r[i] = m - L + (from + i)
      BY <1>1, <1>2, <1>3, <2>1, <3>1
    <3>3. start = 0
      BY <1>1, <1>4, <2>1
    <3>4. m - L + (from + i) = (m + n) - N + i
      BY <1>1, <3>3
    <3> QED
      BY <3>2, <3>4
  <2>2. CASE ~(i <= L - from)
    <3>1. i - (L - from) \in 1..(n - start)
      BY <1>1, <2>2
    <3>2. r[i] = m + (start + (i - (L - from)))
      BY <1>2, <2>2, <3>1
    <3>3. m + (start + (i - (L - from))) = (m + n) - N + i
      BY <1>1
    <3> QED
      BY <3>2, <3>3
  <2> QED
    BY <2>1, <2>2
<1>6. N <= m + n
  BY <1>1
<1> QED
  BY <1>2, <1>5, <1>6 DEF Newest

Increasing(q) == \A i \in 1..(Len(q) - 1) : q[i] < q[i + 1]

\* What was sent is behind what the ring holds, and all is accounted for.
RingInv ==
  /\ ring \in Seq(Nat) /\ drained \in Seq(Nat) /\ made \in Nat /\ dropped \in Nat
  /\ Len(ring) <= RingCapacity /\ Newest(ring, made)
  /\ Increasing(drained) /\ \A i \in 1..Len(drained) : drained[i] <= made - Len(ring)
  /\ Len(drained) + Len(ring) + dropped = made

LEMMA RingSent ==
  ASSUME RingInv
  PROVE  LET got == drained \o ring
         IN  /\ got \in Seq(Nat) /\ Len(got) = Len(drained) + Len(ring) /\ Increasing(got)
             /\ \A i \in 1..Len(got) : got[i] <= made
<1> DEFINE d == drained
<1> DEFINE q == ring
<1> DEFINE got == d \o q
<1>0. /\ d \in Seq(Nat) /\ q \in Seq(Nat) /\ made \in Nat /\ Len(d) \in Nat /\ Len(q) \in Nat /\ Len(q) <= made
      /\ \A i \in 1..Len(d) : d[i] \in Nat /\ d[i] <= made - Len(q)
      /\ \A i \in 1..Len(q) : q[i] \in Nat /\ q[i] = made - Len(q) + i
  BY DEF RingInv, Newest
<1>1. /\ got \in Seq(Nat) /\ Len(got) = Len(d) + Len(q)
      /\ \A i \in 1..Len(d) + Len(q) : got[i] = IF i <= Len(d) THEN d[i] ELSE q[i - Len(d)]
  BY <1>0, ConcatProperties
<1>2. \A i \in 1..(Len(d) - 1) : d[i] < d[i + 1]
  BY DEF RingInv, Increasing
<1> HIDE DEF d, q, got
<1>3. ASSUME NEW i \in 1..Len(got) PROVE got[i] <= made
  <2>1. CASE i <= Len(d)
    <3>1. got[i] = d[i] /\ d[i] \in Nat /\ d[i] <= made - Len(q)
      BY <1>0, <1>1, <2>1
    <3> QED
      BY <1>0, <3>1
  <2>2. CASE ~(i <= Len(d))
    <3>1. i - Len(d) \in 1..Len(q)
      BY <1>0, <1>1, <2>2
    <3>2. got[i] = q[i - Len(d)] /\ q[i - Len(d)] = made - Len(q) + (i - Len(d))
      BY <1>0, <1>1, <2>2, <3>1
    <3> QED
      BY <1>0, <3>1, <3>2
  <2> QED
    BY <2>1, <2>2
<1>4. ASSUME NEW i \in 1..(Len(got) - 1) PROVE got[i] < got[i + 1]
  <2>0. i \in 1..(Len(d) + Len(q)) /\ i + 1 \in 1..(Len(d) + Len(q))
    BY <1>0, <1>1
  <2>1. CASE i + 1 <= Len(d)
    <3>1. got[i] = d[i] /\ got[i + 1] = d[i + 1] /\ i \in 1..(Len(d) - 1)
      BY <1>0, <1>1, <2>0, <2>1
    <3> QED
      BY <1>2, <3>1
  <2>2. CASE i = Len(d)
    <3>1. got[i] = d[i] /\ d[i] \in Nat /\ d[i] <= made - Len(q)
      BY <1>0, <1>1, <2>0, <2>2
    <3>2. 1 \in 1..Len(q) /\ (i + 1) - Len(d) = 1 /\ ~(i + 1 <= Len(d))
      BY <1>0, <2>0, <2>2
    <3>3. got[i + 1] = made - Len(q) + 1
      BY <1>0, <1>1, <2>0, <3>2
    <3> QED
      BY <1>0, <3>1, <3>3
  <2>3. CASE i > Len(d)
    <3>1. i - Len(d) \in 1..Len(q) /\ (i + 1) - Len(d) \in 1..Len(q) /\ ~(i <= Len(d)) /\ ~(i + 1 <= Len(d))
      BY <1>0, <2>0, <2>3
    <3>2. got[i] = made - Len(q) + (i - Len(d)) /\ got[i + 1] = made - Len(q) + ((i + 1) - Len(d))
      BY <1>0, <1>1, <2>0, <3>1
    <3> QED
      BY <1>0, <2>0, <3>2
  <2> QED
    BY <1>0, <2>0, <2>1, <2>2, <2>3
<1> QED
  BY <1>1, <1>3, <1>4 DEF d, q, got, Increasing

LEMMA RingStep == RingInv /\ [ChainNext]_chainVars => RingInv'
<1> SUFFICES ASSUME RingInv, [ChainNext]_chainVars PROVE RingInv'
  OBVIOUS
<1>0. /\ ring \in Seq(Nat) /\ drained \in Seq(Nat) /\ made \in Nat /\ dropped \in Nat /\ Len(ring) \in Nat /\ Len(drained) \in Nat
      /\ Len(ring) <= RingCapacity /\ Len(ring) <= made /\ RingCapacity \in Nat /\ Newest(ring, made)
      /\ Len(drained) + Len(ring) + dropped = made
  BY ChainAssumption DEF RingInv, Newest
<1>1. CASE UNCHANGED <<ring, made, dropped, drained>>
  BY <1>1 DEF RingInv
<1>2. ASSUME NEW n \in 1..(RingCapacity + 1), DataCallback(n) PROVE RingInv'
  <2> DEFINE L == Len(ring)
  <2> DEFINE over == IF L + n > RingCapacity THEN L + n - RingCapacity ELSE 0
  <2> DEFINE from == IF over < L THEN over ELSE L
  <2> DEFINE start == IF n > RingCapacity THEN n - RingCapacity ELSE 0
  <2>0. n \in Nat
    BY <1>0
  <2>1. Len([i \in 1..n |-> made + i]) = n
    BY <2>0
  <2>2. /\ ring' = SubSeq(ring, from + 1, L) \o SubSeq([i \in 1..n |-> made + i], start + 1, n)
        /\ dropped' = dropped + over /\ made' = made + n /\ drained' = drained
    BY <1>2, <2>1 DEF DataCallback, PushRing, drainVars
  <2>3. L \in Nat /\ L <= RingCapacity /\ L <= made /\ Len(drained) + L + dropped = made
    BY <1>0
  <2> HIDE DEF L
  <2>4. over \in Nat /\ from \in Nat /\ start \in Nat /\ from <= L /\ start <= n
    BY <1>0, <2>0, <2>3
  <2>5. (start # 0 => from = L) /\ over = from + start
    BY <1>0, <2>0, <2>3
  <2>6. (L - from) + (n - start) <= RingCapacity
    BY <1>0, <2>0, <2>3
  <2> HIDE DEF over, from, start
  <2>7. ring' \in Seq(Nat) /\ Len(ring') = (L - from) + (n - start) /\ Newest(ring', made + n)
    <3> DEFINE samples == [i \in 1..n |-> made + i]
    <3> DEFINE a == SubSeq(ring, from + 1, L)
    <3> DEFINE b == SubSeq(samples, start + 1, n)
    <3>1. ring' = a \o b
      BY <2>2
    <3>2. \A i \in 1..n : samples[i] = made + i /\ samples[i] \in Nat
      BY <1>0, <2>0
    <3>3. \A i \in 1..L : ring[i] \in Nat
      BY <1>0 DEF L
    <3>4. a \in Seq(Nat) /\ Len(a) = L - from /\ \A i \in 1..(L - from) : a[i] = ring[from + i] /\ from + i \in 1..L
      BY <2>3, <2>4, <3>3, RestOf
    <3> HIDE DEF samples
    <3>5. b \in Seq(Nat) /\ Len(b) = n - start /\ \A i \in 1..(n - start) : b[i] = samples[start + i] /\ start + i \in 1..n
      BY <2>0, <2>4, <3>2, RestOf
    <3> HIDE DEF a, b
    <3>6. \A i \in 1..(n - start) : b[i] = made + (start + i)
      BY <3>2, <3>5
    <3> DEFINE r == ring'
    <3>7. /\ r \in Seq(Nat) /\ Len(r) = Len(a) + Len(b)
          /\ \A i \in 1..Len(a) + Len(b) : r[i] = IF i <= Len(a) THEN a[i] ELSE b[i - Len(a)]
      <4>1. /\ a \o b \in Seq(Nat) /\ Len(a \o b) = Len(a) + Len(b)
            /\ \A i \in 1..Len(a) + Len(b) : (a \o b)[i] = IF i <= Len(a) THEN a[i] ELSE b[i - Len(a)]
        BY <3>4, <3>5, ConcatProperties
      <4> QED
        BY <3>1, <4>1
    <3> HIDE DEF r
    <3>8. Newest(r, made + n)
      <4>1. /\ Len(r) = (L - from) + (n - start)
            /\ \A i \in 1..((L - from) + (n - start)) : r[i] = IF i <= L - from THEN a[i] ELSE b[i - (L - from)]
        BY <3>4, <3>5, <3>7
      <4>2. /\ Len(r) = (Len(ring) - from) + (n - start)
            /\ \A i \in 1..((Len(ring) - from) + (n - start)) : r[i] = IF i <= Len(ring) - from THEN a[i] ELSE b[i - (Len(ring) - from)]
            /\ Len(a) = Len(ring) - from /\ \A i \in 1..(Len(ring) - from) : a[i] = ring[from + i] /\ from + i \in 1..Len(ring)
            /\ from <= Len(ring)
        BY <2>4, <2>5, <3>4, <4>1 DEF L
      <4>3. start # 0 => from = Len(ring)
        BY <2>5 DEF L
      <4>4. ring \in Seq(Nat) /\ made \in Nat /\ n \in Nat /\ Newest(ring, made) /\ from \in Nat /\ start \in Nat /\ start <= n
        BY <1>0, <2>0, <2>4
      <4>5. Joined(r, a, b, ring, from, start, made, n)
        BY <3>6, <4>2 DEF Joined
      <4> QED
        BY <4>2, <4>3, <4>4, <4>5, RingPush
    <3> QED
      BY <3>4, <3>5, <3>7, <3>8 DEF r
  <2>8. Len(ring') <= RingCapacity /\ made' \in Nat /\ dropped' \in Nat /\ Len(drained) + Len(ring') + dropped' = made'
    <3> DEFINE K == (L - from) + (n - start)
    <3>1. K \in Nat /\ K <= RingCapacity
      BY <1>0, <2>0, <2>3, <2>4, <2>6
    <3>2. Len(drained) + K + (dropped + over) = made + n
      BY <1>0, <2>0, <2>3, <2>4, <2>5
    <3>3. dropped + over \in Nat /\ made + n \in Nat
      BY <1>0, <2>0, <2>4
    <3> HIDE DEF K
    <3>4. Len(ring') = K
      BY <2>7 DEF K
    <3> QED
      BY <2>2, <3>1, <3>2, <3>3, <3>4
  <2>9. ASSUME NEW i \in 1..Len(drained) PROVE drained[i] <= made' - Len(ring')
    <3>1. drained[i] \in Nat /\ drained[i] <= made - L
      BY <1>0 DEF RingInv, L
    <3>2. made - L <= made' - Len(ring')
      BY <1>0, <2>0, <2>2, <2>3, <2>4, <2>7
    <3>3. made' - Len(ring') \in Int
      BY <2>7, <2>8
    <3> QED
      BY <1>0, <2>3, <3>1, <3>2, <3>3
  <2> QED
    BY <1>0, <2>2, <2>7, <2>8, <2>9 DEF RingInv
<1>3. CASE DrainSends
  <2>1. drained' = drained \o ring /\ ring' = <<>> /\ UNCHANGED <<made, dropped>>
    BY <1>3 DEF DrainSends
  <2>2. drained' \in Seq(Nat) /\ Len(drained') = Len(drained) + Len(ring) /\ Increasing(drained')
        /\ \A i \in 1..Len(drained') : drained'[i] <= made
    BY <2>1, RingSent
  <2>3. ring' \in Seq(Nat) /\ Len(ring') = 0 /\ Newest(ring', made') /\ made - 0 = made
    BY <1>0, <2>1 DEF Newest
  <2>4. Len(drained') + Len(ring') + dropped' = made'
    BY <1>0, <2>1, <2>2, <2>3
  <2> QED
    BY <1>0, <2>1, <2>2, <2>3, <2>4 DEF RingInv
<1>4. CASE ChangeDevices \/ StreamFails \/ DrainTick \/ CaptureThread \/ StopCapturing
  BY <1>1, <1>4 DEF ChangeDevices, StreamFails, DrainTick, CaptureThread, ResolveDevice, OpenStream, WatchStream, NapEnds,
    CloseStream, StopCapturing, ringVars, drainVars
<1> QED
  BY <1>1, <1>2, <1>3, <1>4 DEF ChainNext, chainVars

(* ring.rs:13-16: for a ring of any size, callbacks that overflow it, and  *)
(* devices that come and go, what is sent to the supervisor is in order    *)
(* and never twice, what the ring holds is the newest, and what was lost   *)
(* is counted.                                                             *)
THEOREM RingAlwaysKeepsTheNewest == ChainSpec => []RingKeepsTheNewest
<1>1. ChainInit => RingInv
  <2> SUFFICES ASSUME ChainInit PROVE RingInv
    OBVIOUS
  <2>1. ring = <<>> /\ drained = <<>> /\ made = 0 /\ dropped = 0
    BY DEF ChainInit
  <2>2. <<>> \in Seq(Nat) /\ Len(<<>>) = 0
    OBVIOUS
  <2> QED
    BY <2>1, <2>2, ChainAssumption DEF RingInv, Newest, Increasing
<1>2. RingInv /\ [ChainNext]_chainVars => RingInv'
  BY RingStep
<1>3. RingInv => RingKeepsTheNewest
  <2> SUFFICES ASSUME RingInv PROVE RingKeepsTheNewest
    OBVIOUS
  <2>1. LET got == drained \o ring IN Len(got) = Len(drained) + Len(ring) /\ Increasing(got)
    BY RingSent
  <2>2. ring # <<>> => ring[Len(ring)] = made
    <3>1. ring \in Seq(Nat) /\ Newest(ring, made) /\ made \in Nat /\ Len(ring) \in Nat
      BY DEF RingInv
    <3>2. ASSUME ring # <<>> PROVE Len(ring) \in 1..Len(ring)
      BY <3>1, <3>2
    <3>3. ASSUME NEW l \in Nat PROVE made - l + l = made
      BY <3>1
    <3> QED
      BY <3>1, <3>2, <3>3 DEF Newest
  <2> QED
    BY <2>1, <2>2 DEF RingInv, RingKeepsTheNewest, Increasing
<1> QED
  BY <1>1, <1>2, <1>3, PTL DEF ChainSpec
-----------------------------------------------------------------------------
(* The model that a recognizer loads (ModelStore).                           *)

Files == [size : Nat, good : BOOLEAN]
StoreTypes ==
  /\ cached \in Files /\ partial \in Files /\ marker \in BOOLEAN /\ curl \in BOOLEAN
  /\ daemon \in [at : {"off", "fetch", "append", "receive", "receiving", "rename", "mark", "ready", "failed"},
                 verified : BOOLEAN, loaded : Files]
  /\ userFiles \in Nat

\* Until the user puts a file there, what is under the name, or about to get it, is the model.
StoreInv ==
  /\ StoreTypes
  /\ daemon.at = "rename" => Right(partial)
  /\ userFiles = 0 =>
       /\ ~curl
       /\ Exists(cached) => Right(cached)
       /\ daemon.at = "mark" => Right(cached)
       /\ daemon.at = "ready" \/ daemon.verified => Right(daemon.loaded)

LEMMA StoreFiles ==
  /\ NoFile \in Files /\ File(0, TRUE) \in Files /\ File(Whole, TRUE) \in Files
  /\ \A n \in Nat, good \in BOOLEAN : File(n, good) \in Files /\ File(n, good).size = n /\ File(n, good).good = good
  /\ \A f \in Files : f.size \in Nat /\ f.good \in BOOLEAN /\ (Right(f) <=> f.size = Whole /\ f.good) /\ f = File(f.size, f.good)
  /\ ~Exists(NoFile) /\ Right(File(Whole, TRUE))
BY StoreAssumption DEF Files, NoFile, File, Right, Exists

LEMMA FileIs ==
  ASSUME NEW n \in Nat, NEW good \in BOOLEAN
  PROVE  File(n, good) \in Files /\ File(n, good).size = n
BY DEF File, Files

Daemons == [at : {"off", "fetch", "append", "receive", "receiving", "rename", "mark", "ready", "failed"},
            verified : BOOLEAN, loaded : Files]

\* What a step of the daemon leaves it at.
LEMMA StoreAt ==
  ASSUME StoreInv, NEW next \in {"fetch", "append", "receive", "receiving", "rename", "mark", "failed"}, At(next)
  PROVE  daemon' \in Daemons /\ daemon'.at = next /\ daemon'.verified = daemon.verified /\ daemon'.loaded = daemon.loaded
BY DEF StoreInv, StoreTypes, At, Daemons

LEMMA StoreLoads ==
  ASSUME StoreInv, NEW f \in Files, NEW v \in BOOLEAN, Loads(f, v)
  PROVE  daemon' \in Daemons /\ daemon'.at = "ready" /\ daemon'.verified = v /\ daemon'.loaded = f
BY DEF Loads, Daemons

\* A step that ends a download, or goes on with it, and puts nothing under the name.
LEMMA StoreGoesOn ==
  ASSUME StoreInv, NEW next \in {"fetch", "append", "receive", "receiving", "rename", "failed"}, At(next),
         partial' \in Files, next = "rename" => Right(partial'), marker' \in BOOLEAN, curl' \in BOOLEAN,
         cached' = cached \/ cached' = NoFile, curl' => curl, UNCHANGED userFiles
  PROVE  StoreInv'
<1>1. daemon' \in Daemons /\ daemon'.at = next /\ daemon'.verified = daemon.verified /\ daemon'.loaded = daemon.loaded
  BY StoreAt
<1>2. cached' \in Files /\ (Exists(cached') => cached' = cached)
  BY StoreFiles DEF StoreInv, StoreTypes
<1>3. StoreTypes'
  BY <1>1, <1>2 DEF StoreInv, StoreTypes, Daemons
<1> QED
  BY <1>1, <1>2, <1>3 DEF StoreInv

\* A file is loaded: while the user puts none there, the whole one.
LEMMA StoreReady ==
  ASSUME StoreInv, NEW f \in Files, NEW v \in BOOLEAN, Loads(f, v), userFiles = 0 => Right(f),
         UNCHANGED <<cached, partial, userFiles>>, marker' \in BOOLEAN, curl' \in BOOLEAN, curl' => curl
  PROVE  StoreInv'
<1>1. daemon' \in Daemons /\ daemon'.at = "ready" /\ daemon'.verified = v /\ daemon'.loaded = f
  BY StoreLoads
<1>2. StoreTypes'
  BY <1>1 DEF StoreInv, StoreTypes, Daemons
<1> QED
  BY <1>1, <1>2 DEF StoreInv

LEMMA StoreStep ==
  ASSUME StoreInv, StoreNext
  PROVE  StoreInv'
<1>0. /\ cached \in Files /\ partial \in Files /\ marker \in BOOLEAN /\ curl \in BOOLEAN /\ userFiles \in Nat
      /\ daemon \in Daemons /\ NoFile \in Files /\ File(0, TRUE) \in Files
      /\ userFiles = 0 => ~curl /\ (Exists(cached) => Right(cached)) /\ (daemon.at = "mark" => Right(cached))
  BY StoreFiles DEF StoreInv, StoreTypes, Daemons
<1>1. CASE StartDaemon
  <2>1. UNCHANGED <<cached, partial, marker, curl, userFiles>>
    BY <1>1 DEF StartDaemon, UnchangedFiles
  <2>2. CASE Find = "other"
    <3>1. Loads(File(Whole, TRUE), FALSE)
      BY <1>1, <2>2 DEF StartDaemon
    <3>2. File(Whole, TRUE) \in Files /\ Right(File(Whole, TRUE))
      BY StoreFiles
    <3> QED
      BY <1>0, <2>1, <3>1, <3>2, StoreReady
  <2>3. CASE Find = "cached"
    <3>1. Loads(cached, FALSE) /\ Exists(cached)
      BY <1>1, <2>3 DEF StartDaemon, Find
    <3> QED
      BY <1>0, <2>1, <3>1, StoreReady
  <2>4. CASE Find = "none"
    <3>1. PICK next \in {"fetch", "failed"} : At(next)
      BY <1>1, <2>4 DEF StartDaemon
    <3> QED
      BY <1>0, <2>1, <3>1, StoreGoesOn
  <2> QED
    BY <2>2, <2>3, <2>4 DEF Find
<1>2. CASE Fetch
  <2>1. UNCHANGED userFiles
    BY <1>2 DEF Fetch
  <2>2. CASE Exists(cached) /\ VerifyCached /\ curl' = (curl /\ Exists(cached'))
    <3>1. curl' \in BOOLEAN /\ (curl' => curl) /\ UNCHANGED partial
      BY <1>0, <2>2 DEF VerifyCached
    <3>2. CASE marker \/ Right(cached)
      <4>1. Loads(cached, TRUE) /\ marker' = TRUE /\ cached' = cached
        BY <2>2, <3>2 DEF VerifyCached
      <4> QED
        BY <1>0, <2>1, <2>2, <3>1, <4>1, StoreReady
    <3>3. CASE ~(marker \/ Right(cached))
      <4>1. At("failed") /\ cached' = NoFile /\ marker' = marker
        BY <2>2, <3>3 DEF VerifyCached
      <4> QED
        BY <1>0, <2>1, <3>1, <4>1, StoreGoesOn
    <3> QED
      BY <3>2, <3>3
  <2>3. CASE UNCHANGED <<cached, marker, curl, partial>> /\ \E next \in {"append", "receive", "failed"} : At(next)
    BY <1>0, <2>1, <2>3, StoreGoesOn
  <2> QED
    BY <1>2, <2>2, <2>3 DEF Fetch
<1>3. CASE OpenPartial
  <2>1. At("receiving") /\ UNCHANGED <<cached, marker, curl, userFiles>> /\ partial' \in {partial, File(0, TRUE)}
    BY <1>3 DEF OpenPartial, Rest
  <2> QED
    BY <1>0, <2>1, StoreGoesOn
<1>4. CASE ReceivePiece
  <2>1. /\ UNCHANGED <<cached, marker, curl, userFiles>>
        /\ At("receiving") \/ At("failed")
        /\ partial' \in {partial, File(partial.size + 1, partial.good), File(partial.size + 1, FALSE)}
    BY <1>4 DEF ReceivePiece
  <2>2. partial' \in Files
    <3>1. partial.size \in Nat /\ partial.good \in BOOLEAN
      BY <1>0, StoreFiles
    <3>2. partial.size + 1 \in Nat
      BY <3>1
    <3>3. File(partial.size + 1, partial.good) \in Files /\ File(partial.size + 1, FALSE) \in Files
      BY <3>1, <3>2, FileIs
    <3> QED
      BY <1>0, <2>1, <3>3
  <2> QED
    BY <1>0, <2>1, <2>2, StoreGoesOn
<1>5. CASE Verify
  <2>1. UNCHANGED <<cached, marker, curl, userFiles>>
    BY <1>5 DEF Verify, Rest
  <2>2. CASE Right(partial)
    BY <1>0, <1>5, <2>1, <2>2, StoreGoesOn DEF Verify
  <2>3. CASE ~Right(partial)
    BY <1>0, <1>5, <2>1, <2>3, StoreGoesOn DEF Verify
  <2> QED
    BY <2>2, <2>3
<1>6. CASE Rename
  <2>1. /\ cached' = partial /\ partial' = NoFile /\ curl' = FALSE /\ At("mark") /\ UNCHANGED <<marker, userFiles>>
        /\ daemon.at = "rename"
    BY <1>6 DEF Rename
  <2>2. Right(cached')
    BY <2>1 DEF StoreInv
  <2>3. daemon' \in Daemons /\ daemon'.at = "mark" /\ daemon'.verified = daemon.verified /\ daemon'.loaded = daemon.loaded
    BY <2>1, StoreAt
  <2>4. StoreTypes'
    BY <1>0, <2>1, <2>3 DEF StoreTypes, Daemons
  <2> QED
    BY <2>1, <2>2, <2>3, <2>4 DEF StoreInv
<1>7. CASE Mark
  <2>1. daemon.at = "mark" /\ marker' = TRUE /\ Loads(cached, TRUE) /\ UNCHANGED <<cached, partial, curl, userFiles>>
    BY <1>7 DEF Mark, Rest
  <2> QED
    BY <1>0, <2>1, StoreReady
<1>8. CASE Killed
  <2>1. daemon' = Off /\ UNCHANGED <<cached, partial, marker, curl, userFiles>>
    BY <1>8 DEF Killed, UnchangedFiles, Rest
  <2>2. Off \in Daemons /\ Off.at = "off" /\ ~Off.verified
    BY StoreFiles DEF Off, Daemons
  <2>3. StoreTypes'
    BY <1>0, <2>1, <2>2 DEF StoreTypes, Daemons
  <2> QED
    BY <2>1, <2>2, <2>3 DEF StoreInv
<1>9. CASE CurlBegins \/ UserRemoves
  <2>1. /\ userFiles' = userFiles + 1 /\ cached' \in Files /\ curl' \in BOOLEAN /\ UNCHANGED <<partial, marker, daemon>>
    <3>1. CASE CurlBegins
      <4>1. PICK good \in BOOLEAN : cached' = File(1, good)
        BY <3>1 DEF CurlBegins
      <4>2. File(1, good) \in Files
        BY StoreFiles
      <4> QED
        BY <3>1, <4>1, <4>2 DEF CurlBegins
    <3>2. CASE UserRemoves
      BY <1>0, <3>2 DEF UserRemoves
    <3> QED
      BY <1>9, <3>1, <3>2
  <2>2. userFiles' \in Nat /\ userFiles' # 0
    BY <1>0, <2>1
  <2>3. StoreTypes'
    BY <1>0, <2>1, <2>2 DEF StoreTypes, Daemons
  <2> QED
    BY <2>1, <2>2, <2>3 DEF StoreInv
<1>10. CASE CurlGoesOn
  <2>1. curl /\ userFiles # 0 /\ UNCHANGED <<userFiles, partial, marker, daemon>> /\ curl' \in BOOLEAN
    BY <1>0, <1>10 DEF CurlGoesOn
  <2>2. cached' \in Files
    <3>1. cached' = [cached EXCEPT !.size = @ + 1] \/ cached' = cached
      BY <1>10 DEF CurlGoesOn
    <3>2. cached.size \in Nat
      BY <1>0, StoreFiles
    <3>3. cached.size + 1 \in Nat
      BY <3>2
    <3> QED
      BY <1>0, <3>1, <3>3 DEF Files
  <2>3. StoreTypes'
    BY <1>0, <2>1, <2>2 DEF StoreTypes, Daemons
  <2> QED
    BY <2>1, <2>3 DEF StoreInv
<1> QED
  BY <1>1, <1>2, <1>3, <1>4, <1>5, <1>6, <1>7, <1>8, <1>9, <1>10 DEF StoreNext

\* What a step may do to a download that was broken off.
LEMMA StoreKeeps ==
  ASSUME StoreInv, [StoreNext]_storeVars
  PROVE  /\ partial'.size < partial.size =>
              ~partial.good \/ daemon.at = "receive" \/ (daemon.at = "rename" /\ cached' = partial)
         /\ partial'.size > partial.size => partial'.size = partial.size + 1
<1>0. partial \in Files /\ partial.size \in Nat /\ partial.good \in BOOLEAN
  BY StoreFiles DEF StoreInv, StoreTypes
<1>1. CASE partial' = partial
  BY <1>0, <1>1
<1>2. CASE OpenPartial
  <2>1. (daemon.at = "receive" /\ partial' = File(0, TRUE)) \/ partial' = partial
    BY <1>2 DEF OpenPartial
  <2>2. File(0, TRUE).size = 0
    BY StoreFiles
  <2>3. CASE daemon.at = "receive" /\ partial' = File(0, TRUE)
    <3>1. partial'.size = 0
      BY <2>2, <2>3
    <3>2. \A m \in Nat : ~(0 > m)
      OBVIOUS
    <3>3. ~(partial'.size > partial.size)
      BY <1>0, <3>1, <3>2
    <3> QED
      BY <2>3, <3>3
  <2> QED
    BY <1>1, <2>1, <2>3
<1>3. CASE ReceivePiece
  <2>1. partial' \in {partial, File(partial.size + 1, partial.good), File(partial.size + 1, FALSE)}
    BY <1>3 DEF ReceivePiece
  <2>2. partial'.size = partial.size + 1 \/ partial' = partial
    <3>1. partial.size + 1 \in Nat
      BY <1>0
    <3>2. File(partial.size + 1, partial.good).size = partial.size + 1 /\ File(partial.size + 1, FALSE).size = partial.size + 1
      BY <1>0, <3>1, FileIs
    <3> QED
      BY <2>1, <3>2
  <2> QED
    BY <1>0, <1>1, <2>2
<1>4. CASE Verify
  <2>1. partial' = partial \/ (partial' = NoFile /\ ~Right(partial) /\ partial.size = Whole)
    BY <1>4 DEF Verify
  <2>2. NoFile.size = 0
    BY DEF NoFile, File
  <2>3. ~Right(partial) /\ partial.size = Whole => ~partial.good
    BY <1>0, StoreFiles
  <2> QED
    BY <1>0, <1>1, <2>1, <2>2, <2>3
<1>5. CASE Rename
  <2>1. partial' = NoFile /\ daemon.at = "rename" /\ cached' = partial
    BY <1>5 DEF Rename
  <2>2. NoFile.size = 0
    BY DEF NoFile, File
  <2> QED
    BY <1>0, <2>1, <2>2
<1>6. CASE StartDaemon \/ Fetch \/ Mark \/ Killed \/ CurlBegins \/ CurlGoesOn \/ UserRemoves \/ UNCHANGED storeVars
  <2>1. partial' = partial
    BY <1>6 DEF StartDaemon, Fetch, VerifyCached, Mark, Killed, CurlBegins, CurlGoesOn, UserRemoves, UnchangedFiles, storeVars
  <2> QED
    BY <1>1, <2>1
<1> QED
  BY <1>2, <1>3, <1>4, <1>5, <1>6 DEF StoreNext

(* models.rs:1, 175, main.rs:281: however downloads are broken off,        *)
(* damaged, resumed and killed: while the user puts no file there, what is *)
(* under the name of the model and what a daemon loads is the whole of it; *)
(* and whoever puts what there, nothing is taken from a good partial but   *)
(* by its new name, or when the server sends the whole again.              *)
THEOREM ModelAlwaysRight == StoreSpec => ModelIsTheRightOne
<1>1. StoreInit => StoreInv
  <2> SUFFICES ASSUME StoreInit PROVE StoreInv
    OBVIOUS
  <2>1. daemon = Off /\ cached = NoFile /\ partial = NoFile /\ marker = FALSE /\ curl = FALSE /\ userFiles = 0
    BY DEF StoreInit
  <2>2. Off \in Daemons /\ Off.at = "off" /\ ~Off.verified
    BY StoreFiles DEF Off, Daemons
  <2>3. StoreTypes
    BY <2>1, <2>2, StoreFiles DEF StoreTypes, Daemons
  <2> QED
    BY <2>1, <2>2, <2>3, StoreFiles DEF StoreInv
<1>2. StoreInv /\ [StoreNext]_storeVars => StoreInv'
  <2>1. StoreInv /\ UNCHANGED storeVars => StoreInv'
    BY DEF StoreInv, StoreTypes, storeVars
  <2> QED
    BY <2>1, StoreStep
<1>3. StoreInv => FetchedIsWhole /\ NeverHalfAModel
  BY DEF StoreInv, FetchedIsWhole, NeverHalfAModel
<1>4. StoreInv /\ [StoreNext]_storeVars =>
        [/\ partial'.size < partial.size =>
              \/ ~partial.good \/ daemon.at = "receive"
              \/ daemon.at = "rename" /\ cached' = partial
         /\ partial'.size > partial.size => partial'.size = partial.size + 1]_storeVars
  BY StoreKeeps
<1> QED
  BY <1>1, <1>2, <1>3, <1>4, PTL DEF StoreSpec, ModelIsTheRightOne, ResumeKeepsProgress

-----------------------------------------------------------------------------
(***************************************************************************)
(* The segmenter.  What a chunk does to it is defined by recursion over    *)
(* the frames of the chunk; what is claimed of every number of frames is   *)
(* proved by taking the least number of which it would not be so.  The     *)
(* frames of all the audio there may be, from the first one on, are the    *)
(* Ideal: what is so after each of them is an invariant of a frame (Good), *)
(* and a chunk, however it is cut, leaves what the Ideal has after the     *)
(* frames that are complete by then.                                       *)
(***************************************************************************)
\* What a segmenter can be, and what a call of it has done so far.
SegmenterOf(speech, run, pending, tail) == [speech |-> speech, run |-> run, pending |-> pending, tail |-> tail]
SegStates == [speech : BOOLEAN, run : Nat, pending : Seq(Nat), tail : Seq(Nat)]
NothingStepped == [s |-> NewSegmenter, out |-> <<>>, ends |-> {}]

\* The samples that follow the first n of them.
After(n, length) == [i \in 1..length |-> n + i]

\* The samples from the (m+1)-th to the k-th of those after n.
StretchIs(n, l, m, k) == SubSeq(After(n, l), m + 1, k) = After(n + m, k - m)

\* The first sample of a frame, and every other, has the frame's number.
LEMMA FrameNumbers ==
  ASSUME NEW j \in Nat, NEW i \in 1..FrameSamples
  PROVE  FrameOf(j * FrameSamples + i) = j + 1
<1>1. j * FrameSamples \in Nat
  BY SegmenterAssumption
<1>2. j * FrameSamples + i + FrameSamples - 1 = (j + 1) * FrameSamples + (i - 1)
  BY <1>1, SegmenterAssumption
<1>3. ((j + 1) * FrameSamples + (i - 1)) \div FrameSamples = j + 1
  BY SegmenterAssumption
<1> QED
  BY <1>2, <1>3 DEF FrameOf

LEMMA WholeFrames ==
  ASSUME NEW n \in Nat
  PROVE  /\ n \div FrameSamples \in Nat /\ n % FrameSamples \in Nat /\ n % FrameSamples < FrameSamples
         /\ n = (n \div FrameSamples) * FrameSamples + (n % FrameSamples)
BY SegmenterAssumption

\* What is not so of every number is not so of a least one.
LEMMA LeastNumber ==
  ASSUME NEW S \in SUBSET Nat, S # {}
  PROVE  \E m \in S : \A k \in S : m <= k
<1> DEFINE Less == OpToRel(<, Nat)
<1>1. IsWellFoundedOn(Less, Nat)
  BY NatLessThanWellFounded
<1>2. \A x, y \in Nat : <<x, y>> \in Less <=> x < y
  BY DEF OpToRel
<1> HIDE DEF Less
<1>3. PICK m \in S : \A k \in S : <<k, m>> \notin Less
  BY <1>1, WFMin
<1>4. \A k \in S : ~(k < m)
  <2> TAKE k \in S
  <2>1. k \in Nat /\ m \in Nat
    OBVIOUS
  <2> QED
    BY <2>1, <1>2, <1>3
<1>5. m \in Nat /\ \A k \in S : k \in Nat
  OBVIOUS
<1>6. \A k \in S : m <= k
  BY <1>4, <1>5
<1> QED
  BY <1>6

\* What is so of zero, and of the next number whenever it is so of one below n, is so up to n.
LEMMA UpTo ==
  ASSUME NEW n \in Nat, NEW S, 0 \in S, \A i \in 0..n : i \in S /\ i < n => i + 1 \in S
  PROVE  0..n \subseteq S
<1> DEFINE Without == (0..n) \ S
<1> SUFFICES ASSUME Without # {} PROVE FALSE
  OBVIOUS
<1>1. PICK m \in Without : \A k \in Without : m <= k
  <2>1. Without \in SUBSET Nat
    OBVIOUS
  <2> HIDE DEF Without
  <2> QED
    BY <2>1, LeastNumber
<1>2. m \in 0..n /\ m # 0 /\ m \notin S
  OBVIOUS
<1>3. m - 1 \in 0..n /\ m - 1 < n /\ (m - 1) + 1 = m
  BY <1>2
<1>4. m - 1 \in S
  <2>1. m - 1 \in Without => m <= m - 1
    BY <1>1
  <2> QED
    BY <2>1, <1>2, <1>3
<1> QED
  BY <1>2, <1>3, <1>4

\* f is what StepsOf says of it: the frames of q from the segmenter s on.
Unfolds(f, s, q, speech) ==
  f = [i \in 0..(Len(q) \div FrameSamples) |->
         IF i = 0 THEN [s |-> s, out |-> <<>>, ends |-> {}] ELSE Framed(f[i - 1], FrameAt(q, i), speech)]

\* The recursion of StepsOf is a definition.
LEMMA StepsOfDef ==
  ASSUME NEW s, NEW q \in Seq(Nat), NEW speech
  PROVE  Unfolds(StepsOf(s, q, speech), s, q, speech)
<1> DEFINE n == Len(q) \div FrameSamples
           zero == [s |-> s, out |-> <<>>, ends |-> {}]
           Upto(g, m) == g = [i \in 0..m |-> IF i = 0 THEN zero ELSE Framed(g[i - 1], FrameAt(q, i), speech)]
<1>n. n \in Nat
  BY WholeFrames, LenProperties
<1> HIDE DEF zero, n
<1>1. \A m \in Nat : \E g : Upto(g, m)
  <2> DEFINE Has(m) == \E g : Upto(g, m)
             Without == {m \in Nat : ~Has(m)}
  <2> SUFFICES ASSUME Without # {} PROVE FALSE
    BY DEF Has
  <2> HIDE DEF Has
  <2>1. PICK m \in Without : \A k \in Without : m <= k
    <3>1. Without \in SUBSET Nat
      OBVIOUS
    <3> HIDE DEF Without
    <3> QED
      BY <3>1, LeastNumber
  <2>2. m # 0
    <3>1. Upto([i \in 0..0 |-> zero], 0)
      OBVIOUS
    <3> QED
      BY <3>1 DEF Has
  <2>3. m - 1 \in Nat /\ Has(m - 1)
    BY <2>1, <2>2
  <2>4. PICK g : Upto(g, m - 1)
    BY <2>3 DEF Has
  <2> DEFINE h == [i \in 0..m |-> IF i < m THEN g[i] ELSE Framed(g[m - 1], FrameAt(q, m), speech)]
  <2>5. \A i \in 0..m : h[i] = IF i = 0 THEN zero ELSE Framed(h[i - 1], FrameAt(q, i), speech)
    <3> SUFFICES ASSUME NEW i \in 0..m PROVE h[i] = IF i = 0 THEN zero ELSE Framed(h[i - 1], FrameAt(q, i), speech)
      OBVIOUS
    <3>1. CASE i = m
      <4>1. h[m] = Framed(g[m - 1], FrameAt(q, m), speech)
        BY <2>1
      <4>2. h[m - 1] = g[m - 1]
        BY <2>1, <2>3
      <4> QED
        BY <3>1, <4>1, <4>2, <2>2
    <3>2. CASE i # m
      <4>1. i \in 0..(m - 1) /\ h[i] = g[i]
        BY <3>2, <2>1
      <4>2. g[i] = IF i = 0 THEN zero ELSE Framed(g[i - 1], FrameAt(q, i), speech)
        BY <4>1, <2>4
      <4>3. i # 0 => h[i - 1] = g[i - 1]
        BY <4>1, <2>1, <2>3
      <4> QED
        BY <4>1, <4>2, <4>3
    <3> QED
      BY <3>1, <3>2
  <2>6. Upto(h, m)
    <3> DEFINE rhs == [i \in 0..m |-> IF i = 0 THEN zero ELSE Framed(h[i - 1], FrameAt(q, i), speech)]
    <3>1. h = [i \in 0..m |-> h[i]]
      OBVIOUS
    <3>2. [i \in 0..m |-> h[i]] = rhs
      BY <2>5
    <3> QED
      BY <3>1, <3>2
  <2> QED
    BY <2>6, <2>1 DEF Has
<1>2. \E g : Upto(g, n)
  BY <1>1, <1>n
<1>3. StepsOf(s, q, speech) = CHOOSE g : Upto(g, n)
  BY DEF StepsOf, n, zero
<1>4. Upto(StepsOf(s, q, speech), n)
  BY <1>2, <1>3
<1> QED
  BY <1>4 DEF n, zero, Unfolds

\* Samples that follow each other are the samples from the first of them.
LEMMA AfterIs ==
  ASSUME NEW n \in Nat, NEW l \in Nat
  PROVE  /\ After(n, l) \in Seq(Nat) /\ Len(After(n, l)) = l
         /\ \A i \in 1..l : After(n, l)[i] = n + i
BY DEF After

\* The samples after n, and the samples after those.
LEMMA AfterConcat ==
  ASSUME NEW n \in Nat, NEW l \in Nat, NEW m \in Nat
  PROVE  After(n, l) \o After(n + l, m) = After(n, l + m)
<1> DEFINE a == After(n, l)
           b == After(n + l, m)
           c == After(n, l + m)
<1>1. /\ a \in Seq(Nat) /\ Len(a) = l /\ \A i \in 1..l : a[i] = n + i
      /\ b \in Seq(Nat) /\ Len(b) = m /\ \A i \in 1..m : b[i] = n + l + i
      /\ c \in Seq(Nat) /\ Len(c) = l + m /\ \A i \in 1..(l + m) : c[i] = n + i
  BY DEF After
<1> HIDE DEF a, b, c
<1>2. /\ a \o b \in Seq(Nat) /\ Len(a \o b) = Len(a) + Len(b)
      /\ \A i \in 1..Len(a) + Len(b) : (a \o b)[i] = IF i <= Len(a) THEN a[i] ELSE b[i - Len(a)]
  BY <1>1, ConcatProperties
<1>3. \A i \in 1..(l + m) : (a \o b)[i] = c[i]
  <2> SUFFICES ASSUME NEW i \in 1..(l + m) PROVE (a \o b)[i] = c[i]
    OBVIOUS
  <2>1. (a \o b)[i] = IF i <= l THEN a[i] ELSE b[i - l]
    BY <1>1, <1>2
  <2>2. CASE i <= l
    BY <2>1, <2>2, <1>1
  <2>3. CASE ~(i <= l)
    <3>1. i - l \in 1..m
      BY <2>3
    <3> QED
      BY <2>1, <2>3, <3>1, <1>1
  <2> QED
    BY <2>2, <2>3
<1>4. Len(a \o b) = Len(c)
  BY <1>1, <1>2
<1>5. a \o b = c
  BY <1>1, <1>2, <1>3, <1>4, SeqEqual
<1> QED
  BY <1>5 DEF a, b, c

\* A stretch of samples that follow each other.
LEMMA AfterSub ==
  ASSUME NEW n \in Nat, NEW l \in Nat, NEW m \in Nat, NEW k \in Nat, m <= k, k <= l
  PROVE  StretchIs(n, l, m, k)
<1> DEFINE a == After(n, l)
           b == After(n + m, k - m)
<1>1. \A i \in (m + 1)..k : a[i] \in Nat
  BY DEF After
<1>2. /\ SubSeq(a, m + 1, k) \in Seq(Nat)
      /\ Len(SubSeq(a, m + 1, k)) = IF m + 1 <= k THEN k - (m + 1) + 1 ELSE 0
      /\ \A i \in 1..k - (m + 1) + 1 : SubSeq(a, m + 1, k)[i] = a[m + 1 + i - 1]
  <2>1. m + 1 \in Int /\ k \in Int
    OBVIOUS
  <2> HIDE DEF a
  <2> QED
    BY <1>1, <2>1, SubSeqProperties
<1>3. /\ \A i \in 1..l : a[i] = n + i
      /\ b \in Seq(Nat) /\ Len(b) = k - m /\ \A i \in 1..k - m : b[i] = n + m + i
  BY DEF After
<1> HIDE DEF a, b
<1>4. Len(SubSeq(a, m + 1, k)) = Len(b)
  BY <1>2, <1>3
<1>5. \A i \in 1..Len(SubSeq(a, m + 1, k)) : SubSeq(a, m + 1, k)[i] = b[i]
  <2> SUFFICES ASSUME NEW i \in 1..(k - m) PROVE SubSeq(a, m + 1, k)[i] = b[i]
    BY <1>3, <1>4
  <2>1. m + 1 + i - 1 = m + i /\ m + i \in 1..l
    OBVIOUS
  <2> QED
    BY <2>1, <1>2, <1>3
<1>6. SubSeq(a, m + 1, k) = b
  BY <1>2, <1>3, <1>4, <1>5, SeqEqual
<1> QED
  BY <1>6 DEF a, b, StretchIs

\* The last of the samples that follow each other.
LEMMA LastOfAfter ==
  ASSUME NEW n \in Nat, NEW l \in Nat, NEW r \in Nat
  PROVE  LastOf(After(n, l), r) = IF l > r THEN After(n + (l - r), r) ELSE After(n, l)
<1>1. Len(After(n, l)) = l
  BY AfterIs
<1>2. CASE l > r
  <2>1. l - r \in Nat /\ l - r <= l /\ l - (l - r) = r /\ (l - r) + 1 = l - r + 1
    BY <1>2
  <2>2. StretchIs(n, l, l - r, l)
    BY <2>1, AfterSub
  <2> QED
    BY <1>1, <1>2, <2>1, <2>2 DEF LastOf, StretchIs
<1>3. CASE ~(l > r)
  <2>1. StretchIs(n, l, 0, l)
    BY AfterSub
  <2>2. 0 + 1 = 1 /\ n + 0 = n /\ l - 0 = l
    OBVIOUS
  <2>3. SubSeq(After(n, l), 1, l) = After(n, l)
    BY <2>1, <2>2 DEF StretchIs
  <2> QED
    BY <1>1, <1>3, <2>3 DEF LastOf
<1> QED
  BY <1>2, <1>3

\* The i-th frame of such samples.
LEMMA FrameOfAfter ==
  ASSUME NEW n \in Nat, NEW l \in Nat, NEW i \in 1..(l \div FrameSamples)
  PROVE  FrameAt(After(n, l), i) = After(n + (i - 1) * FrameSamples, FrameSamples)
<1>1. (i - 1) * FrameSamples \in Nat /\ i * FrameSamples \in Nat
      /\ i * FrameSamples - (i - 1) * FrameSamples = FrameSamples /\ (i - 1) * FrameSamples <= i * FrameSamples
  BY SegmenterAssumption, WholeFrames
<1>2. i * FrameSamples <= l
  <2>1. l \div FrameSamples \in Nat /\ (l \div FrameSamples) * FrameSamples <= l
    BY WholeFrames, SegmenterAssumption
  <2>2. i * FrameSamples <= (l \div FrameSamples) * FrameSamples
    BY <2>1, SegmenterAssumption
  <2> QED
    BY <2>1, <2>2, <1>1, SegmenterAssumption
<1> DEFINE x == (i - 1) * FrameSamples
           y == i * FrameSamples
<1>3. x \in Nat /\ y \in Nat /\ x <= y /\ y <= l /\ y - x = FrameSamples
  BY <1>1, <1>2
<1> HIDE DEF x, y
<1>4. StretchIs(n, l, x, y)
  BY <1>3, AfterSub
<1>5. SubSeq(After(n, l), x + 1, y) = After(n + x, FrameSamples)
  BY <1>3, <1>4 DEF StretchIs
<1> QED
  BY <1>5 DEF FrameAt, x, y

-----------------------------------------------------------------------------
\* The frames with a sample among those fed, and samples that are fed in order, none later than n.
FedIn(out) == {FrameOf(out[i]) : i \in 1..Len(out)}
Orderly(out, n) ==
  /\ out \in Seq(Nat)
  /\ \A i \in 1..Len(out) : out[i] \in 1..n
  /\ \A i \in 1..(Len(out) - 1) : out[i] < out[i + 1]

\* The m frames after the first b of them are fed after what was.
Grown(out, b, m, new) ==
  Orderly(new, (b + m) * FrameSamples) /\ FedIn(new) = FedIn(out) \cup ((b + 1)..(b + m))

\* What is fed in order stays so when whole frames that come later are fed, and then they are.
LEMMA OutGrows ==
  ASSUME NEW out, NEW b \in Nat, NEW m \in Nat, Orderly(out, b * FrameSamples)
  PROVE  Grown(out, b, m, out \o After(b * FrameSamples, m * FrameSamples))
<1> DEFINE F == FrameSamples
           bF == b * F
           mF == m * F
           more == After(bF, mF)
           new == out \o more
<1>1. F \in Nat \ {0} /\ bF \in Nat /\ mF \in Nat /\ (b + m) * F = bF + mF
  BY SegmenterAssumption
<1>2. out \in Seq(Nat) /\ more \in Seq(Nat) /\ Len(more) = mF /\ \A i \in 1..mF : more[i] = bF + i
  BY <1>1, AfterIs DEF Orderly
<1>3. /\ new \in Seq(Nat) /\ Len(new) = Len(out) + Len(more)
      /\ \A i \in 1..Len(out) + Len(more) : new[i] = IF i <= Len(out) THEN out[i] ELSE more[i - Len(out)]
  <2> HIDE DEF more
  <2> QED
    BY <1>2, ConcatProperties
<1> DEFINE n == Len(out)
<1>4. n \in Nat /\ Len(new) = n + mF
  BY <1>2, <1>3, LenProperties
<1>5. /\ \A i \in 1..n : i \in 1..(n + mF) /\ new[i] = out[i]
      /\ \A j \in 1..mF : n + j \in 1..(n + mF) /\ new[n + j] = bF + j
      /\ \A i \in 1..(n + mF) : i \in 1..n \/ \E j \in 1..mF : i = n + j
  <2> HIDE DEF new, more, mF, bF, F
  <2>1. ASSUME NEW i \in 1..n PROVE i \in 1..(n + mF) /\ new[i] = out[i]
    <3>1. i \in 1..(n + mF) /\ i <= n
      BY <1>1, <1>4
    <3> QED
      BY <3>1, <1>2, <1>3
  <2>2. ASSUME NEW j \in 1..mF PROVE n + j \in 1..(n + mF) /\ new[n + j] = bF + j
    <3>1. n + j \in 1..(n + mF) /\ ~(n + j <= n) /\ (n + j) - n = j
      BY <1>1, <1>4
    <3>2. new[n + j] = more[(n + j) - n]
      BY <3>1, <1>2, <1>3
    <3> QED
      BY <3>1, <3>2, <1>2
  <2>3. ASSUME NEW i \in 1..(n + mF), i \notin 1..n PROVE \E j \in 1..mF : i = n + j
    <3>1. i - n \in 1..mF /\ i = n + (i - n)
      BY <2>3, <1>1, <1>4
    <3> QED
      BY <3>1
  <2> QED
    BY <2>1, <2>2, <2>3
<1>6. /\ \A i \in 1..n : out[i] \in 1..bF
      /\ \A i \in 1..(n - 1) : out[i] < out[i + 1]
  BY DEF Orderly
<1>7. Orderly(new, (b + m) * F)
  <2> HIDE DEF new, more, mF, bF, n, F
  <2>1. \A i \in 1..(n + mF) : new[i] \in 1..(bF + mF)
    <3> SUFFICES ASSUME NEW i \in 1..(n + mF) PROVE new[i] \in 1..(bF + mF)
      OBVIOUS
    <3>1. CASE i \in 1..n
      <4>1. new[i] \in 1..bF
        BY <3>1, <1>5, <1>6
      <4> QED
        BY <4>1, <1>1
    <3>2. ASSUME NEW j \in 1..mF, i = n + j PROVE new[i] \in 1..(bF + mF)
      <4>1. new[i] = bF + j
        BY <3>2, <1>5
      <4> QED
        BY <4>1, <1>1
    <3> QED
      BY <3>1, <3>2, <1>5
  <2>2. \A i \in 1..(n + mF - 1) : new[i] < new[i + 1]
    <3> SUFFICES ASSUME NEW i \in 1..(n + mF - 1) PROVE new[i] < new[i + 1]
      OBVIOUS
    <3>1. CASE i + 1 <= n
      <4>1. i \in 1..n /\ i + 1 \in 1..n /\ i \in 1..(n - 1)
        BY <3>1, <1>4
      <4>2. new[i] = out[i] /\ new[i + 1] = out[i + 1]
        BY <4>1, <1>5
      <4> QED
        BY <4>1, <4>2, <1>6
    <3>2. CASE i = n
      <4>1. i \in 1..n /\ 1 \in 1..mF
        BY <3>2, <1>1, <1>4
      <4>2. new[i] = out[i] /\ new[n + 1] = bF + 1 /\ out[i] \in 1..bF
        BY <4>1, <1>5, <1>6
      <4> QED
        BY <3>2, <4>2, <1>1
    <3>3. CASE i > n
      <4> DEFINE j == i - n
      <4>1. j \in 1..mF /\ j + 1 \in 1..mF /\ n + j = i /\ n + (j + 1) = i + 1
        BY <3>3, <1>1, <1>4
      <4> HIDE DEF j
      <4>2. new[n + j] = bF + j /\ new[n + (j + 1)] = bF + (j + 1)
        BY <4>1, <1>5
      <4>3. new[i] = bF + j /\ new[i + 1] = bF + (j + 1)
        BY <4>1, <4>2
      <4> QED
        BY <4>1, <4>3, <1>1
    <3> QED
      BY <3>1, <3>2, <3>3, <1>4
  <2> QED
    BY <2>1, <2>2, <1>1, <1>3, <1>4, <1>2 DEF Orderly
<1>8. FedIn(new) = FedIn(out) \cup ((b + 1)..(b + m))
  <2> HIDE DEF new, more, n
  <2>1. \A i \in 1..mF : FrameOf(bF + i) \in (b + 1)..(b + m)
    <3> SUFFICES ASSUME NEW i \in 1..mF PROVE FrameOf(bF + i) \in (b + 1)..(b + m)
      OBVIOUS
    <3> DEFINE j == (i - 1) \div F
               r == (i - 1) % F
    <3>1. j \in Nat /\ r \in Nat /\ r < F /\ i - 1 = j * F + r
      BY <1>1, WholeFrames
    <3>2. j < m
      BY <3>1, <1>1
    <3>3. bF + i = (b + j) * F + (r + 1) /\ r + 1 \in 1..F /\ b + j \in Nat
      BY <3>1, <1>1
    <3>4. FrameOf((b + j) * F + (r + 1)) = (b + j) + 1
      <4> HIDE DEF j, r
      <4> QED
        BY <3>3, FrameNumbers
    <3> QED
      BY <3>1, <3>2, <3>3, <3>4
  <2>2. \A g \in (b + 1)..(b + m) : \E i \in 1..mF : FrameOf(bF + i) = g
    <3> SUFFICES ASSUME NEW g \in (b + 1)..(b + m) PROVE \E i \in 1..mF : FrameOf(bF + i) = g
      OBVIOUS
    <3> DEFINE i == (g - 1 - b) * F + 1
    <3>1. g - 1 \in Nat /\ g - 1 - b \in Nat /\ g - 1 - b < m
      OBVIOUS
    <3>2. i \in 1..mF /\ bF + i = (g - 1) * F + 1
      BY <3>1, <1>1
    <3>3. FrameOf((g - 1) * F + 1) = (g - 1) + 1
      <4>1. 1 \in 1..F
        BY <1>1
      <4> QED
        BY <3>1, <4>1, FrameNumbers DEF F
    <3>4. (g - 1) + 1 = g
      OBVIOUS
    <3> HIDE DEF i
    <3> QED
      BY <3>2, <3>3, <3>4
  <2> HIDE DEF mF, bF, F, n
  <2>6. FedIn(new) \subseteq FedIn(out) \cup ((b + 1)..(b + m))
    <3> SUFFICES ASSUME NEW i \in 1..(n + mF), FrameOf(new[i]) \notin (b + 1)..(b + m)
                 PROVE FrameOf(new[i]) \in FedIn(out)
      BY <1>4 DEF FedIn
    <3>1. i \in 1..n
      BY <1>5, <2>1
    <3> QED
      BY <3>1, <1>5 DEF FedIn, n
  <2>7. FedIn(out) \subseteq FedIn(new)
    BY <1>4, <1>5 DEF FedIn, n
  <2>8. (b + 1)..(b + m) \subseteq FedIn(new)
    BY <2>2, <1>4, <1>5 DEF FedIn
  <2> QED
    BY <2>6, <2>7, <2>8
<1> QED
  BY <1>7, <1>8 DEF Grown

-----------------------------------------------------------------------------
Context == PreRoll + MinSpeech

\* What an update of a segmenter makes of it, field by field.
LEMMA SegUpdates ==
  ASSUME NEW s \in SegStates, NEW run, NEW pending
  PROVE  /\ s = SegmenterOf(s.speech, s.run, s.pending, s.tail)
         /\ [s EXCEPT !.run = run] = SegmenterOf(s.speech, run, s.pending, s.tail)
         /\ [s EXCEPT !.pending = pending, !.run = run] = SegmenterOf(s.speech, run, pending, s.tail)
<1>1. s = SegmenterOf(s.speech, s.run, s.pending, s.tail)
  BY DEF SegmenterOf, SegStates
<1> DEFINE v == [s EXCEPT !.pending = pending]
<1>2. [s EXCEPT !.pending = pending, !.run = run] = [v EXCEPT !.run = run]
  OBVIOUS
<1>3. [s EXCEPT !.run = run] = SegmenterOf(s.speech, run, s.pending, s.tail)
  BY <1>1 DEF SegmenterOf
<1>4. v = SegmenterOf(s.speech, s.run, pending, s.tail)
  BY <1>1 DEF SegmenterOf
<1> HIDE DEF v
<1>5. [v EXCEPT !.run = run] = SegmenterOf(s.speech, run, pending, s.tail)
  BY <1>4 DEF SegmenterOf
<1> QED
  BY <1>1, <1>2, <1>3, <1>5

\* The beginning and the end of an utterance leave nothing pending.
LEMMA SegTurns ==
  ASSUME NEW s \in SegStates
  PROVE  /\ [s EXCEPT !.speech = TRUE, !.run = 0, !.pending = <<>>] = SegmenterOf(TRUE, 0, <<>>, s.tail)
         /\ [s EXCEPT !.speech = FALSE, !.run = 0, !.pending = <<>>] = SegmenterOf(FALSE, 0, <<>>, s.tail)
<1>1. ASSUME NEW speech \in BOOLEAN
      PROVE  [s EXCEPT !.speech = speech, !.run = 0, !.pending = <<>>] = SegmenterOf(speech, 0, <<>>, s.tail)
  <2> DEFINE v == [s EXCEPT !.speech = speech]
             w == [v EXCEPT !.run = 0]
  <2>1. [s EXCEPT !.speech = speech, !.run = 0, !.pending = <<>>] = [w EXCEPT !.pending = <<>>]
    OBVIOUS
  <2>2. v = SegmenterOf(speech, s.run, s.pending, s.tail)
    <3>1. s = SegmenterOf(s.speech, s.run, s.pending, s.tail)
      BY SegUpdates
    <3> QED
      BY <3>1 DEF SegmenterOf
  <2> HIDE DEF v
  <2>3. w = SegmenterOf(speech, 0, s.pending, s.tail)
    BY <2>2 DEF SegmenterOf
  <2> HIDE DEF w
  <2>4. [w EXCEPT !.pending = <<>>] = SegmenterOf(speech, 0, <<>>, s.tail)
    BY <2>3 DEF SegmenterOf
  <2> QED
    BY <2>1, <2>4
<1> QED
  BY <1>1

\* What a step leaves of the segmenter s, what it emits, and whether speech ended.
StepDoes(x, s, speech, run, pending, out, closes) ==
  /\ x.s = SegmenterOf(speech, run, pending, s.tail)
  /\ x.s \in SegStates /\ x.out = out /\ x.out \in Seq(Nat) /\ x.ended = closes

\* A frame: in speech, or before it, and voice or silence.
LEMMA StepCases ==
  ASSUME NEW s \in SegStates, NEW frame \in Seq(Nat), NEW b \in BOOLEAN,
         NEW kept \in Seq(Nat), kept = LastOf(s.pending \o frame, Context * FrameSamples)
  PROVE  LET x == Step(s, frame, b)
         IN  \/ s.speech /\ b /\ StepDoes(x, s, TRUE, 0, s.pending, frame, FALSE)
             \/ s.speech /\ ~b /\ s.run + 1 >= Hangover /\ StepDoes(x, s, FALSE, 0, <<>>, frame, TRUE)
             \/ s.speech /\ ~b /\ s.run + 1 < Hangover /\ StepDoes(x, s, TRUE, s.run + 1, s.pending, frame, FALSE)
             \/ ~s.speech /\ ~b /\ StepDoes(x, s, FALSE, 0, kept, <<>>, FALSE)
             \/ ~s.speech /\ b /\ s.run + 1 >= MinSpeech /\ StepDoes(x, s, TRUE, 0, <<>>, kept, FALSE)
             \/ ~s.speech /\ b /\ s.run + 1 < MinSpeech /\ StepDoes(x, s, FALSE, s.run + 1, kept, <<>>, FALSE)
<1> DEFINE x == Step(s, frame, b)
           Is(speech, run, pending) == SegmenterOf(speech, run, pending, s.tail)
<1>0. /\ s.speech \in BOOLEAN /\ s.run \in Nat /\ s.pending \in Seq(Nat) /\ s.tail \in Seq(Nat)
      /\ <<>> \in Seq(Nat) /\ Hangover \in Nat /\ MinSpeech \in Nat
  BY SegmenterAssumption DEF SegStates
<1>9. ASSUME NEW speech \in BOOLEAN, NEW run \in Nat, NEW pending \in Seq(Nat), NEW out \in Seq(Nat), NEW closes,
             x = Stepped(Is(speech, run, pending), out, closes)
      PROVE  StepDoes(x, s, speech, run, pending, out, closes)
  <2>1. Is(speech, run, pending) \in SegStates
    BY <1>0 DEF SegStates, SegmenterOf
  <2>2. x.s = Is(speech, run, pending) /\ x.out = out /\ x.ended = closes
    <3> HIDE DEF x, Is
    <3> QED
      BY <1>9 DEF Stepped
  <2> HIDE DEF x
  <2> QED
    BY <2>1, <2>2 DEF StepDoes
<1>1. CASE s.speech /\ b
  <2>1. x = Stepped([s EXCEPT !.run = 0], frame, FALSE)
    BY <1>1 DEF Step, StepWith
  <2>2. [s EXCEPT !.run = 0] = Is(TRUE, 0, s.pending)
    <3>1. [s EXCEPT !.run = 0] = SegmenterOf(s.speech, 0, s.pending, s.tail)
      BY SegUpdates
    <3>2. s.speech = TRUE
      BY <1>1, <1>0
    <3> QED
      BY <3>1, <3>2
  <2>3. x = Stepped(Is(TRUE, 0, s.pending), frame, FALSE)
    <3> HIDE DEF x, Is
    <3> QED
      BY <2>1, <2>2
  <2>4. TRUE \in BOOLEAN /\ 0 \in Nat /\ s.pending \in Seq(Nat) /\ frame \in Seq(Nat)
    BY <1>0
  <2>5. StepDoes(x, s, TRUE, 0, s.pending, frame, FALSE)
    <3> HIDE DEF x, Is
    <3> QED
      BY <2>3, <2>4, <1>9
  <2> QED
    BY <1>1, <2>5
<1>2. CASE s.speech /\ ~b /\ s.run + 1 >= Hangover
  <2>1. x = Stepped([s EXCEPT !.speech = FALSE, !.run = 0, !.pending = <<>>], frame, TRUE)
    BY <1>2 DEF Step, StepWith, EndUtterance
  <2>2. [s EXCEPT !.speech = FALSE, !.run = 0, !.pending = <<>>] = Is(FALSE, 0, <<>>)
    <3>1. [s EXCEPT !.speech = FALSE, !.run = 0, !.pending = <<>>] = SegmenterOf(FALSE, 0, <<>>, s.tail)
      BY SegTurns
    <3> QED
      BY <3>1
  <2>3. x = Stepped(Is(FALSE, 0, <<>>), frame, TRUE)
    <3> HIDE DEF x, Is
    <3> QED
      BY <2>1, <2>2
  <2>4. FALSE \in BOOLEAN /\ 0 \in Nat /\ <<>> \in Seq(Nat) /\ frame \in Seq(Nat)
    BY <1>0
  <2>5. StepDoes(x, s, FALSE, 0, <<>>, frame, TRUE)
    <3> HIDE DEF x, Is
    <3> QED
      BY <2>3, <2>4, <1>9
  <2> QED
    BY <1>2, <2>5
<1>3. CASE s.speech /\ ~b /\ s.run + 1 < Hangover
  <2>0. ~(s.run + 1 >= Hangover)
    BY <1>0, <1>3
  <2>1. x = Stepped([s EXCEPT !.run = s.run + 1], frame, FALSE)
    BY <1>3, <2>0 DEF Step, StepWith
  <2>2. [s EXCEPT !.run = s.run + 1] = Is(TRUE, s.run + 1, s.pending)
    <3>1. [s EXCEPT !.run = s.run + 1] = SegmenterOf(s.speech, s.run + 1, s.pending, s.tail)
      BY SegUpdates
    <3>2. s.speech = TRUE
      BY <1>3, <1>0
    <3> QED
      BY <3>1, <3>2
  <2>3. x = Stepped(Is(TRUE, s.run + 1, s.pending), frame, FALSE)
    <3> HIDE DEF x, Is
    <3> QED
      BY <2>1, <2>2
  <2>4. TRUE \in BOOLEAN /\ s.run + 1 \in Nat /\ s.pending \in Seq(Nat) /\ frame \in Seq(Nat)
    BY <1>0
  <2>5. StepDoes(x, s, TRUE, s.run + 1, s.pending, frame, FALSE)
    <3> HIDE DEF x, Is
    <3> QED
      BY <2>3, <2>4, <1>9
  <2> QED
    BY <1>3, <2>5
<1>4. CASE ~s.speech /\ ~b
  <2>1. x = Stepped([s EXCEPT !.pending = kept, !.run = 0], <<>>, FALSE)
    BY <1>4 DEF Step, StepWith, Context
  <2>2. [s EXCEPT !.pending = kept, !.run = 0] = Is(FALSE, 0, kept)
    <3>1. [s EXCEPT !.pending = kept, !.run = 0] = SegmenterOf(s.speech, 0, kept, s.tail)
      BY SegUpdates
    <3>2. s.speech = FALSE
      BY <1>4, <1>0
    <3> QED
      BY <3>1, <3>2
  <2>3. x = Stepped(Is(FALSE, 0, kept), <<>>, FALSE)
    <3> HIDE DEF x, Is
    <3> QED
      BY <2>1, <2>2
  <2>4. FALSE \in BOOLEAN /\ 0 \in Nat /\ kept \in Seq(Nat) /\ <<>> \in Seq(Nat)
    BY <1>0
  <2>5. StepDoes(x, s, FALSE, 0, kept, <<>>, FALSE)
    <3> HIDE DEF x, Is
    <3> QED
      BY <2>3, <2>4, <1>9
  <2> QED
    BY <1>4, <2>5
<1>5. CASE ~s.speech /\ b /\ s.run + 1 >= MinSpeech
  <2>1. x = Stepped([s EXCEPT !.speech = TRUE, !.run = 0, !.pending = <<>>], kept, FALSE)
    BY <1>5 DEF Step, StepWith, Context
  <2>2. [s EXCEPT !.speech = TRUE, !.run = 0, !.pending = <<>>] = Is(TRUE, 0, <<>>)
    <3>1. [s EXCEPT !.speech = TRUE, !.run = 0, !.pending = <<>>] = SegmenterOf(TRUE, 0, <<>>, s.tail)
      BY SegTurns
    <3> QED
      BY <3>1
  <2>3. x = Stepped(Is(TRUE, 0, <<>>), kept, FALSE)
    <3> HIDE DEF x, Is
    <3> QED
      BY <2>1, <2>2
  <2>4. TRUE \in BOOLEAN /\ 0 \in Nat /\ <<>> \in Seq(Nat) /\ kept \in Seq(Nat)
    BY <1>0
  <2>5. StepDoes(x, s, TRUE, 0, <<>>, kept, FALSE)
    <3> HIDE DEF x, Is
    <3> QED
      BY <2>3, <2>4, <1>9
  <2> QED
    BY <1>5, <2>5
<1>6. CASE ~s.speech /\ b /\ s.run + 1 < MinSpeech
  <2>0. ~(s.run + 1 >= MinSpeech)
    BY <1>0, <1>6
  <2>1. x = Stepped([s EXCEPT !.pending = kept, !.run = s.run + 1], <<>>, FALSE)
    BY <1>6, <2>0 DEF Step, StepWith, Context
  <2>2. [s EXCEPT !.pending = kept, !.run = s.run + 1] = Is(FALSE, s.run + 1, kept)
    <3>1. [s EXCEPT !.pending = kept, !.run = s.run + 1] = SegmenterOf(s.speech, s.run + 1, kept, s.tail)
      BY SegUpdates
    <3>2. s.speech = FALSE
      BY <1>6, <1>0
    <3> QED
      BY <3>1, <3>2
  <2>3. x = Stepped(Is(FALSE, s.run + 1, kept), <<>>, FALSE)
    <3> HIDE DEF x, Is
    <3> QED
      BY <2>1, <2>2
  <2>4. FALSE \in BOOLEAN /\ s.run + 1 \in Nat /\ kept \in Seq(Nat) /\ <<>> \in Seq(Nat)
    BY <1>0
  <2>5. StepDoes(x, s, FALSE, s.run + 1, kept, <<>>, FALSE)
    <3> HIDE DEF x, Is
    <3> QED
      BY <2>3, <2>4, <1>9
  <2> QED
    BY <1>6, <2>5
<1>7. s.run + 1 >= Hangover \/ s.run + 1 < Hangover
  BY <1>0
<1>8. s.run + 1 >= MinSpeech \/ s.run + 1 < MinSpeech
  BY <1>0
<1> HIDE DEF x
<1> QED
  BY <1>1, <1>2, <1>3, <1>4, <1>5, <1>6, <1>7, <1>8, Zenon DEF x

\* With c frames pending after k of them, the next leaves d.
Keeps(k, c, d) ==
  /\ d = IF c + 1 > Context THEN Context ELSE c + 1
  /\ LastOf(After((k - c) * FrameSamples, c * FrameSamples) \o After(k * FrameSamples, FrameSamples),
            Context * FrameSamples)
       = After(((k + 1) - d) * FrameSamples, d * FrameSamples)

\* The audio kept before an onset: the last frames, as many as the context has.
LEMMA KeptIs ==
  ASSUME NEW k \in Nat, NEW c \in Nat, c <= k
  PROVE  \E d \in Nat : Keeps(k, c, d)
<1> DEFINE F == FrameSamples
           a == (k - c) * F
           l == c * F
           d == IF c + 1 > Context THEN Context ELSE c + 1
<1>1. /\ F \in Nat \ {0} /\ a \in Nat /\ l \in Nat /\ a + l = k * F /\ l + F = (c + 1) * F
      /\ Context \in Nat /\ d \in Nat /\ d <= c + 1 /\ d <= k + 1
  BY SegmenterAssumption DEF Context
<1>2. After(a, l) \o After(a + l, F) = After(a, l + F)
  <2> HIDE DEF a, l, F
  <2> QED
    BY <1>1, AfterConcat
<1> DEFINE n == l + F
           r == Context * F
<1>3. n \in Nat /\ r \in Nat
  BY <1>1
<1>4. LastOf(After(a, n), r) = IF n > r THEN After(a + (n - r), r) ELSE After(a, n)
  <2> HIDE DEF a, n, r
  <2> QED
    BY <1>1, <1>3, LastOfAfter
<1>5. ASSUME c + 1 > Context PROVE Keeps(k, c, d)
  <2>1. n > r /\ a + (n - r) = ((k + 1) - d) * F /\ r = d * F
    BY <1>1, <1>5
  <2> QED
    BY <1>1, <1>2, <1>4, <1>5, <2>1 DEF Keeps
<1>6. ASSUME ~(c + 1 > Context) PROVE Keeps(k, c, d)
  <2>1. ~(n > r) /\ a = ((k + 1) - d) * F /\ n = d * F
    BY <1>1, <1>6
  <2> QED
    BY <1>1, <1>2, <1>4, <1>6, <2>1 DEF Keeps
<1>7. Keeps(k, c, d)
  BY <1>5, <1>6
<1> HIDE DEF d
<1> QED
  BY <1>1, <1>7

-----------------------------------------------------------------------------
\* After k frames, c of them pending: what is pending are the last c, and nothing is pending in
\* speech.
Shaped(k, c, s) ==
  /\ s \in SegStates /\ c \in Nat /\ c <= k /\ c <= Context
  /\ s.pending = After((k - c) * FrameSamples, c * FrameSamples)
  /\ s.speech => c = 0

\* run counts the silence at the end of the speech, or the voice before it begins.
Counted(k, s, voiced) ==
  /\ s.run <= k
  /\ s.speech => /\ s.run = 0 \/ s.run < Hangover
                 /\ \A g \in (k - s.run + 1)..k : g \notin voiced
  /\ ~s.speech => /\ s.run < MinSpeech
                  /\ \A g \in (k - s.run + 1)..k : g \in voiced
                  /\ k - s.run = 0 \/ k - s.run \notin voiced

\* A frame is fed, or pending, or older than the context of a word that may still begin.
NoneLost(k, c, F) == \A g \in 1..k : g \in F \/ g > k - c \/ g + Context <= k

\* The words among the first k frames are fed, with their context.
WordsFed(k, F, voiced) ==
  \A f \in 1..k : f + MinSpeech <= k + 1 /\ f..(f + MinSpeech - 1) \subseteq voiced
                   => \A g \in 1..(f + MinSpeech - 1) : g + PreRoll >= f => g \in F

Silences(k, ends, voiced) ==
  ends \subseteq 1..k /\ \A e \in ends : e >= Hangover /\ (e - Hangover + 1)..e \cap voiced = {}

\* What is so of the segmenter after k frames, of which c are pending.
Good(k, c, r, voiced) ==
  /\ Shaped(k, c, r.s) /\ Counted(k, r.s, voiced)
  /\ Orderly(r.out, (k - c) * FrameSamples)
  /\ NoneLost(k, c, FedIn(r.out)) /\ WordsFed(k, FedIn(r.out), voiced)
  /\ Silences(k, r.ends, voiced)

\* The next frame feeds what it should of a word that ends with it, and what was fed stays so.
LEMMA WordStep ==
  ASSUME NEW k \in Nat, NEW F, NEW G, NEW voiced, WordsFed(k, F, voiced), F \subseteq G,
         \A f \in 1..(k + 1) : f + MinSpeech = k + 2 /\ f..(k + 1) \subseteq voiced
                                => \A g \in 1..(k + 1) : g + PreRoll >= f => g \in G
  PROVE  WordsFed(k + 1, G, voiced)
<1> SUFFICES ASSUME NEW f \in 1..(k + 1), f + MinSpeech <= (k + 1) + 1, f..(f + MinSpeech - 1) \subseteq voiced,
                    NEW g \in 1..(f + MinSpeech - 1), g + PreRoll >= f
             PROVE  g \in G
  BY DEF WordsFed
<1>0. MinSpeech \in Nat \ {0} /\ PreRoll \in Nat
  BY SegmenterAssumption
<1>1. CASE f + MinSpeech = k + 2
  <2>1. f + MinSpeech - 1 = k + 1
    BY <1>0, <1>1
  <2> QED
    BY <1>1, <2>1
<1>2. CASE f + MinSpeech # k + 2
  <2>1. f \in 1..k /\ f + MinSpeech <= k + 1
    BY <1>0, <1>2
  <2> QED
    BY <2>1 DEF WordsFed
<1> QED
  BY <1>1, <1>2

\* A frame of no word leaves the words as they are.
LEMMA NoWordStep ==
  ASSUME NEW k \in Nat, NEW F, NEW voiced, WordsFed(k, F, voiced), k + 1 \notin voiced
  PROVE  WordsFed(k + 1, F, voiced)
<1>1. \A f \in 1..(k + 1) : f + MinSpeech = k + 2 /\ f..(k + 1) \subseteq voiced
                              => \A g \in 1..(k + 1) : g + PreRoll >= f => g \in F
  <2>1. \A f \in 1..(k + 1) : k + 1 \in f..(k + 1)
    OBVIOUS
  <2> QED
    BY <2>1
<1> QED
  BY <1>1, WordStep

\* The next frame, whatever it is, keeps what is so of the segmenter.
LEMMA FrameStep ==
  ASSUME NEW k \in Nat, NEW c, NEW voiced, NEW r, Good(k, c, r, voiced)
  PROVE  \E c2 : Good(k + 1, c2, Framed(r, After(k * FrameSamples, FrameSamples), voiced), voiced)
<1> DEFINE F == FrameSamples
           frame == After(k * F, F)
           b == k + 1 \in voiced
           s == r.s
           x == Step(s, frame, b)
           n == Framed(r, frame, voiced)
           FF == FedIn(r.out)
           GG == FedIn(n.out)
           kept == LastOf(s.pending \o frame, Context * F)
<1>0. F \in Nat \ {0} /\ MinSpeech \in Nat \ {0} /\ Hangover \in Nat /\ PreRoll \in Nat /\ Context = PreRoll + MinSpeech
  BY SegmenterAssumption DEF Context
<1>1. frame \in Seq(Nat) /\ FrameOf(frame[1]) = k + 1
  <2>1. k * F \in Nat /\ 1 \in 1..F
    BY <1>0
  <2>2. frame \in Seq(Nat) /\ frame[1] = k * F + 1
    <3> DEFINE kF == k * F
    <3> HIDE DEF kF
    <3>1. After(kF, F) \in Seq(Nat) /\ After(kF, F)[1] = kF + 1
      BY <2>1, <1>0, AfterIs DEF kF
    <3> QED
      BY <3>1 DEF kF
  <2>3. FrameOf(k * F + 1) = k + 1
    BY <2>1, FrameNumbers
  <2> QED
    BY <2>2, <2>3
<1>2. /\ n.s = x.s /\ n.out = r.out \o x.out
      /\ (x.ended => n.ends = r.ends \cup {k + 1}) /\ (~x.ended => n.ends = r.ends)
  <2> HIDE DEF frame
  <2> DEFINE y == Step(r.s, frame, FrameOf(frame[1]) \in voiced)
             e == FrameOf(frame[1])
  <2>1. y = x /\ e = k + 1
    BY <1>1
  <2>2. n = [s |-> y.s, out |-> r.out \o y.out, ends |-> r.ends \cup (IF y.ended THEN {e} ELSE {})]
    BY DEF Framed
  <2> HIDE DEF x, y, e, n
  <2>3. /\ n.s = y.s /\ n.out = r.out \o y.out
        /\ (y.ended => n.ends = r.ends \cup {e}) /\ (~y.ended => n.ends = r.ends)
    BY <2>2
  <2> QED
    BY <2>1, <2>3
<1>3. /\ s \in SegStates /\ c \in Nat /\ c <= k /\ c <= Context
      /\ s.pending = After((k - c) * F, c * F) /\ (s.speech => c = 0)
      /\ s.run \in Nat /\ s.speech \in BOOLEAN
  BY DEF Good, Shaped, SegStates
<1>4. /\ Counted(k, s, voiced) /\ Orderly(r.out, (k - c) * F)
      /\ NoneLost(k, c, FF) /\ WordsFed(k, FF, voiced) /\ Silences(k, r.ends, voiced)
  BY DEF Good
<1>5. PICK d \in Nat : d = (IF c + 1 > Context THEN Context ELSE c + 1) /\ kept = After(((k + 1) - d) * F, d * F)
  <2>1. PICK d \in Nat : Keeps(k, c, d)
    <3> HIDE DEF s, kept, frame, F
    <3> QED
      BY <1>3, KeptIs
  <2>2. d = (IF c + 1 > Context THEN Context ELSE c + 1) /\ kept = After(((k + 1) - d) * F, d * F)
    BY <2>1, <1>3 DEF Keeps
  <2> QED
    BY <2>2
<1>6. d <= c + 1 /\ d <= k + 1 /\ d <= Context /\ (k + 1) - d \in Nat /\ k - c \in Nat /\ k - c <= (k + 1) - d
  BY <1>0, <1>3, <1>5
<1>7. kept \in Seq(Nat)
  <2>1. ((k + 1) - d) * F \in Nat /\ d * F \in Nat
    BY <1>0, <1>6
  <2>2. After(((k + 1) - d) * F, d * F) \in Seq(Nat)
    BY <2>1, AfterIs
  <2> QED
    BY <2>2, <1>5
<1>8. \/ s.speech /\ b /\ StepDoes(x, s, TRUE, 0, s.pending, frame, FALSE)
      \/ s.speech /\ ~b /\ s.run + 1 >= Hangover /\ StepDoes(x, s, FALSE, 0, <<>>, frame, TRUE)
      \/ s.speech /\ ~b /\ s.run + 1 < Hangover /\ StepDoes(x, s, TRUE, s.run + 1, s.pending, frame, FALSE)
      \/ ~s.speech /\ ~b /\ StepDoes(x, s, FALSE, 0, kept, <<>>, FALSE)
      \/ ~s.speech /\ b /\ s.run + 1 >= MinSpeech /\ StepDoes(x, s, TRUE, 0, <<>>, kept, FALSE)
      \/ ~s.speech /\ b /\ s.run + 1 < MinSpeech /\ StepDoes(x, s, FALSE, s.run + 1, kept, <<>>, FALSE)
  <2>1. b \in BOOLEAN
    OBVIOUS
  <2> HIDE DEF b, s, frame
  <2> QED
    BY <1>1, <1>3, <1>7, <2>1, StepCases
<1>9. ASSUME NEW m \in Nat, m <= k + 1
      PROVE  After((k + 1) * F, 0) = <<>> /\ Orderly(<<>>, m)
  BY DEF After, Orderly
<1>10. ASSUME NEW m \in Nat, Orderly(r.out, (k - c) * F), k - c <= m
       PROVE  Orderly(r.out, m * F)
  <2>1. (k - c) * F \in Nat /\ m * F \in Nat /\ (k - c) * F <= m * F
    BY <1>0, <1>6, <1>10
  <2> DEFINE kc == (k - c) * F
             mF == m * F
  <2> HIDE DEF kc, mF
  <2>2. Orderly(r.out, mF)
    BY <2>1, <1>10 DEF Orderly, kc, mF
  <2> QED
    BY <2>2 DEF mF

\* In speech, the frame is fed.
<1>11. ASSUME s.speech, x.out = frame
       PROVE  /\ c = 0 /\ Orderly(n.out, ((k + 1) - 0) * F)
              /\ NoneLost(k + 1, 0, GG) /\ WordsFed(k + 1, GG, voiced)
  <2>1. c = 0 /\ k - c = k
    BY <1>3, <1>11
  <2>2. n.out = r.out \o After(k * F, 1 * F) /\ ((k + 1) - 0) = k + 1
    <3>1. 1 * F = F /\ (k + 1) - 0 = k + 1
      BY <1>0
    <3>2. n.out = r.out \o frame
      <4> HIDE DEF n, x, frame
      <4> QED
        BY <1>2, <1>11
    <3> HIDE DEF n, x
    <3> QED
      BY <3>1, <3>2
  <2>3. Orderly(n.out, (k + 1) * F) /\ GG = FF \cup ((k + 1)..(k + 1))
    <3>1. Orderly(r.out, k * F)
      BY <1>4, <2>1
    <3>2. Grown(r.out, k, 1, r.out \o After(k * F, 1 * F))
      BY <3>1, OutGrows
    <3> HIDE DEF n
    <3> QED
      BY <2>2, <3>2 DEF Grown
  <2> HIDE DEF GG, FF, n
  <2>4. NoneLost(k + 1, 0, GG)
    BY <2>1, <2>3, <1>4, <1>0 DEF NoneLost
  <2>5. WordsFed(k + 1, GG, voiced)
    <3>1. ASSUME NEW f \in 1..(k + 1), f + MinSpeech = k + 2, NEW g \in 1..(k + 1), g + PreRoll >= f
          PROVE  g \in GG
      <4>1. CASE g = k + 1
        BY <4>1, <2>3
      <4>2. CASE g # k + 1
        <5>1. g \in 1..k /\ ~(g > k - 0) /\ ~(g + Context <= k)
          BY <3>1, <4>2, <1>0
        <5> QED
          BY <5>1, <2>1, <2>3, <1>4 DEF NoneLost
      <4> QED
        BY <4>1, <4>2
    <3> QED
      BY <3>1, <2>3, <1>4, WordStep
  <2> QED
    BY <2>1, <2>2, <2>3, <2>4, <2>5
\* Before it, the frame joins what is pending.
<1>12. ASSUME ~s.speech, x.out = <<>>
       PROVE  Orderly(n.out, ((k + 1) - d) * F) /\ GG = FF /\ NoneLost(k + 1, d, GG)
  <2>1. n.out = r.out
    <3>1. r.out \in Seq(Nat)
      BY <1>4 DEF Orderly
    <3> QED
      BY <3>1, <1>2, <1>12, ConcatEmptySeq
  <2>2. Orderly(n.out, ((k + 1) - d) * F)
    BY <2>1, <1>4, <1>6, <1>10
  <2>3. GG = FF
    BY <2>1
  <2> HIDE DEF GG, FF, n
  <2>4. NoneLost(k + 1, d, GG)
    <3> SUFFICES ASSUME NEW g \in 1..(k + 1), g \notin FF PROVE g > (k + 1) - d \/ g + Context <= k + 1
      BY <2>3 DEF NoneLost
    <3>1. g \in 1..k => g > k - c \/ g + Context <= k
      BY <1>4 DEF NoneLost
    <3> QED
      BY <3>1, <1>0, <1>3, <1>5, <1>6
  <2> QED
    BY <2>2, <2>3, <2>4

\* What one frame leaves of the counters.
<1>13. /\ s.run <= k
       /\ s.speech => /\ s.run = 0 \/ s.run < Hangover
                      /\ \A g \in (k - s.run + 1)..k : g \notin voiced
       /\ ~s.speech => /\ s.run < MinSpeech
                       /\ \A g \in (k - s.run + 1)..k : g \in voiced
                       /\ k - s.run = 0 \/ k - s.run \notin voiced
  BY <1>4 DEF Counted
<1>14. /\ r.ends \subseteq 1..k
       /\ \A e \in r.ends : e >= Hangover /\ (e - Hangover + 1)..e \cap voiced = {}
  BY <1>4 DEF Silences
<1>15. Silences(k + 1, r.ends, voiced)
  BY <1>14 DEF Silences
<1>16. After(((k + 1) - 0) * F, 0 * F) = <<>> /\ 0 <= k + 1 /\ 0 <= Context /\ 0 \in Nat
  <2>1. 0 * F = 0 /\ 0 <= k + 1 /\ 0 <= Context
    BY <1>0
  <2> QED
    BY <2>1 DEF After

<1>21. CASE s.speech /\ b /\ StepDoes(x, s, TRUE, 0, s.pending, frame, FALSE)
  <2> HIDE DEF x, n, frame, s, kept, FF, GG
  <2>1. n.s = SegmenterOf(TRUE, 0, s.pending, s.tail) /\ n.s \in SegStates /\ x.out = frame /\ n.ends = r.ends
    BY <1>21, <1>2 DEF StepDoes
  <2>2. n.s.speech = TRUE /\ n.s.run = 0 /\ n.s.pending = s.pending
    BY <2>1 DEF SegmenterOf
  <2>3. /\ c = 0 /\ Orderly(n.out, ((k + 1) - 0) * F)
        /\ NoneLost(k + 1, 0, GG) /\ WordsFed(k + 1, GG, voiced)
    BY <1>11, <1>21, <2>1
  <2>4. Shaped(k + 1, 0, n.s)
    <3>1. s.pending = <<>>
      <4>1. 0 * F = 0
        BY <1>0
      <4> QED
        BY <4>1, <1>3, <2>3 DEF After
    <3>2. n.s.pending = After(((k + 1) - 0) * F, 0 * F)
      BY <3>1, <2>2, <1>16
    <3> QED
      BY <3>2, <2>1, <1>16 DEF Shaped
  <2>5. Counted(k + 1, n.s, voiced)
    BY <2>2 DEF Counted
  <2> QED
    BY <2>1, <2>3, <2>4, <2>5, <1>15 DEF Good, n, frame, GG
<1>22. CASE s.speech /\ ~b /\ s.run + 1 >= Hangover /\ StepDoes(x, s, FALSE, 0, <<>>, frame, TRUE)
  <2> HIDE DEF x, n, frame, s, kept, FF, GG
  <2>1. n.s = SegmenterOf(FALSE, 0, <<>>, s.tail) /\ n.s \in SegStates /\ x.out = frame /\ n.ends = r.ends \cup {k + 1}
    BY <1>22, <1>2 DEF StepDoes
  <2>2. n.s.speech = FALSE /\ n.s.run = 0 /\ n.s.pending = <<>>
    BY <2>1 DEF SegmenterOf
  <2>3. /\ c = 0 /\ Orderly(n.out, ((k + 1) - 0) * F)
        /\ NoneLost(k + 1, 0, GG) /\ WordsFed(k + 1, GG, voiced)
    BY <1>11, <1>22, <2>1
  <2>4. Shaped(k + 1, 0, n.s)
    <3>1. n.s.pending = After(((k + 1) - 0) * F, 0 * F)
      BY <2>2, <1>16
    <3> QED
      BY <3>1, <2>1, <1>16 DEF Shaped
  <2>5. Counted(k + 1, n.s, voiced)
    BY <2>2, <1>0, <1>22 DEF Counted
  <2>6. Silences(k + 1, n.ends, voiced)
    <3>1. k + 1 >= Hangover
      BY <1>0, <1>3, <1>13, <1>22
    <3>2. \A g \in ((k + 1) - Hangover + 1)..(k + 1) : g \notin voiced
      <4> SUFFICES ASSUME NEW g \in ((k + 1) - Hangover + 1)..(k + 1), g # k + 1 PROVE g \notin voiced
        BY <1>22
      <4>1. g \in (k - s.run + 1)..k
        BY <1>0, <1>3, <1>13, <1>22
      <4> QED
        BY <4>1, <1>13, <1>22
    <3>3. ((k + 1) - Hangover + 1)..(k + 1) \cap voiced = {}
      BY <3>2
    <3>4. \A e \in n.ends : e >= Hangover /\ (e - Hangover + 1)..e \cap voiced = {}
      BY <2>1, <3>1, <3>3, <1>14
    <3> QED
      BY <2>1, <3>4, <1>14 DEF Silences
  <2> QED
    BY <2>1, <2>3, <2>4, <2>5, <2>6 DEF Good, n, frame, GG
<1>23. CASE s.speech /\ ~b /\ s.run + 1 < Hangover /\ StepDoes(x, s, TRUE, s.run + 1, s.pending, frame, FALSE)
  <2> HIDE DEF x, n, frame, s, kept, FF, GG
  <2>1. n.s = SegmenterOf(TRUE, s.run + 1, s.pending, s.tail) /\ n.s \in SegStates /\ x.out = frame /\ n.ends = r.ends
    BY <1>23, <1>2 DEF StepDoes
  <2>2. n.s.speech = TRUE /\ n.s.run = s.run + 1 /\ n.s.pending = s.pending
    BY <2>1 DEF SegmenterOf
  <2>3. /\ c = 0 /\ Orderly(n.out, ((k + 1) - 0) * F)
        /\ NoneLost(k + 1, 0, GG) /\ WordsFed(k + 1, GG, voiced)
    BY <1>11, <1>23, <2>1
  <2>4. Shaped(k + 1, 0, n.s)
    <3>1. s.pending = <<>>
      <4>1. 0 * F = 0
        BY <1>0
      <4> QED
        BY <4>1, <1>3, <2>3 DEF After
    <3>2. n.s.pending = After(((k + 1) - 0) * F, 0 * F)
      BY <3>1, <2>2, <1>16
    <3> QED
      BY <3>2, <2>1, <1>16 DEF Shaped
  <2>5. Counted(k + 1, n.s, voiced)
    <3>1. \A g \in ((k + 1) - (s.run + 1) + 1)..(k + 1) : g \notin voiced
      <4> SUFFICES ASSUME NEW g \in ((k + 1) - (s.run + 1) + 1)..(k + 1), g # k + 1 PROVE g \notin voiced
        BY <1>23
      <4>1. g \in (k - s.run + 1)..k
        BY <1>3, <1>13
      <4> QED
        BY <4>1, <1>13, <1>23
    <3>2. s.run + 1 <= k + 1
      BY <1>3, <1>13
    <3> QED
      BY <3>1, <3>2, <2>2, <1>23 DEF Counted
  <2> QED
    BY <2>1, <2>3, <2>4, <2>5, <1>15 DEF Good, n, frame, GG
<1>24. CASE ~s.speech /\ ~b /\ StepDoes(x, s, FALSE, 0, kept, <<>>, FALSE)
  <2> HIDE DEF x, n, frame, s, kept, FF, GG
  <2>1. n.s = SegmenterOf(FALSE, 0, kept, s.tail) /\ n.s \in SegStates /\ x.out = <<>> /\ n.ends = r.ends
    BY <1>24, <1>2 DEF StepDoes
  <2>2. n.s.speech = FALSE /\ n.s.run = 0 /\ n.s.pending = kept
    BY <2>1 DEF SegmenterOf
  <2>3. Orderly(n.out, ((k + 1) - d) * F) /\ GG = FF /\ NoneLost(k + 1, d, GG)
    BY <1>12, <1>24, <2>1
  <2>4. Shaped(k + 1, d, n.s)
    <3>1. n.s.pending = After(((k + 1) - d) * F, d * F) /\ d \in Nat
      BY <2>2, <1>5
    <3> QED
      BY <3>1, <2>1, <2>2, <1>6 DEF Shaped
  <2>5. Counted(k + 1, n.s, voiced)
    BY <2>2, <1>0, <1>24 DEF Counted
  <2>6. WordsFed(k + 1, GG, voiced)
    BY <2>3, <1>4, <1>24, NoWordStep
  <2> QED
    BY <2>1, <2>3, <2>4, <2>5, <2>6, <1>15 DEF Good, n, frame, GG
<1>25. CASE ~s.speech /\ b /\ s.run + 1 >= MinSpeech /\ StepDoes(x, s, TRUE, 0, <<>>, kept, FALSE)
  <2> HIDE DEF x, n, frame, s, kept, FF, GG
  <2>1. n.s = SegmenterOf(TRUE, 0, <<>>, s.tail) /\ n.s \in SegStates /\ x.out = kept /\ n.ends = r.ends
    BY <1>25, <1>2 DEF StepDoes
  <2>2. n.s.speech = TRUE /\ n.s.run = 0 /\ n.s.pending = <<>>
    BY <2>1 DEF SegmenterOf
  <2>3. Orderly(n.out, (k + 1) * F) /\ GG = FF \cup (((k + 1) - d + 1)..(k + 1))
    <3>1. Orderly(r.out, ((k + 1) - d) * F)
      BY <1>4, <1>6, <1>10
    <3>2. Grown(r.out, (k + 1) - d, d, r.out \o After(((k + 1) - d) * F, d * F))
      BY <3>1, <1>6, OutGrows
    <3>3. ((k + 1) - d) + d = k + 1 /\ ((k + 1) - d) + 1 = (k + 1) - d + 1
      BY <1>6
    <3>4. n.out = r.out \o After(((k + 1) - d) * F, d * F)
      BY <2>1, <1>2, <1>5
    <3> QED
      BY <3>2, <3>3, <3>4 DEF Grown, GG, FF
  <2>4. Shaped(k + 1, 0, n.s)
    <3>1. n.s.pending = After(((k + 1) - 0) * F, 0 * F)
      BY <2>2, <1>16
    <3> QED
      BY <3>1, <2>1, <1>16 DEF Shaped
  <2>5. Counted(k + 1, n.s, voiced)
    BY <2>2 DEF Counted
  <2>6. \A g \in 1..(k + 1) : g \in GG \/ g + Context <= k + 1
    <3> SUFFICES ASSUME NEW g \in 1..(k + 1), g \notin GG PROVE g + Context <= k + 1
      OBVIOUS
    <3>1. g \notin FF /\ ~(g >= (k + 1) - d + 1)
      BY <2>3, <1>6
    <3>2. g \in 1..k => g > k - c \/ g + Context <= k
      BY <3>1, <1>4 DEF NoneLost
    <3> QED
      BY <3>1, <3>2, <1>0, <1>3, <1>5, <1>6
  <2>7. NoneLost(k + 1, 0, GG)
    BY <2>6 DEF NoneLost
  <2>8. WordsFed(k + 1, GG, voiced)
    <3>1. ASSUME NEW f \in 1..(k + 1), f + MinSpeech = k + 2, NEW g \in 1..(k + 1), g + PreRoll >= f
          PROVE  g \in GG
      <4>1. ~(g + Context <= k + 1)
        BY <3>1, <1>0
      <4> QED
        BY <4>1, <2>6
    <3>2. FF \subseteq GG
      BY <2>3
    <3> QED
      BY <3>1, <3>2, <1>4, WordStep
  <2>9. Orderly(n.out, ((k + 1) - 0) * F)
    <3>1. (k + 1) - 0 = k + 1
      OBVIOUS
    <3> QED
      BY <3>1, <2>3
  <2> QED
    BY <2>1, <2>4, <2>5, <2>7, <2>8, <2>9, <1>15 DEF Good, n, frame, GG
<1>26. CASE ~s.speech /\ b /\ s.run + 1 < MinSpeech /\ StepDoes(x, s, FALSE, s.run + 1, kept, <<>>, FALSE)
  <2> HIDE DEF x, n, frame, s, kept, FF, GG
  <2>1. n.s = SegmenterOf(FALSE, s.run + 1, kept, s.tail) /\ n.s \in SegStates /\ x.out = <<>> /\ n.ends = r.ends
    BY <1>26, <1>2 DEF StepDoes
  <2>2. n.s.speech = FALSE /\ n.s.run = s.run + 1 /\ n.s.pending = kept
    BY <2>1 DEF SegmenterOf
  <2>3. Orderly(n.out, ((k + 1) - d) * F) /\ GG = FF /\ NoneLost(k + 1, d, GG)
    BY <1>12, <1>26, <2>1
  <2>4. Shaped(k + 1, d, n.s)
    <3>1. n.s.pending = After(((k + 1) - d) * F, d * F) /\ d \in Nat
      BY <2>2, <1>5
    <3> QED
      BY <3>1, <2>1, <2>2, <1>6 DEF Shaped
  <2>5. Counted(k + 1, n.s, voiced)
    <3>1. \A g \in ((k + 1) - (s.run + 1) + 1)..(k + 1) : g \in voiced
      <4> SUFFICES ASSUME NEW g \in ((k + 1) - (s.run + 1) + 1)..(k + 1), g # k + 1 PROVE g \in voiced
        BY <1>26
      <4>1. g \in (k - s.run + 1)..k
        BY <1>3, <1>13
      <4> QED
        BY <4>1, <1>13, <1>26
    <3>2. s.run + 1 <= k + 1 /\ (k + 1) - (s.run + 1) = k - s.run
      BY <1>3, <1>13
    <3> QED
      BY <3>1, <3>2, <2>2, <1>13, <1>26 DEF Counted
  <2>6. WordsFed(k + 1, GG, voiced)
    <3>1. ASSUME NEW f \in 1..(k + 1), f + MinSpeech = k + 2, f..(k + 1) \subseteq voiced
          PROVE  FALSE
      <4>1. k - s.run \in f..(k + 1) /\ k - s.run # 0
        BY <3>1, <1>0, <1>3, <1>13, <1>26
      <4> QED
        BY <4>1, <3>1, <1>13, <1>26
    <3> QED
      BY <3>1, <2>3, <1>4, WordStep
  <2> QED
    BY <2>1, <2>3, <2>4, <2>5, <2>6, <1>15 DEF Good, n, frame, GG
<1> QED
  BY <1>8, <1>21, <1>22, <1>23, <1>24, <1>25, <1>26

-----------------------------------------------------------------------------
\* The frames of all the audio there may be, one after the other.
Ideal(voiced) == StepsOf(NewSegmenter, After(0, MaxFrames * FrameSamples), voiced)

\* What they leave, frame by frame.
LEMMA IdealIs ==
  ASSUME NEW voiced
  PROVE  /\ Ideal(voiced)[0] = NothingStepped
         /\ \A k \in 0..(MaxFrames - 1) :
              Ideal(voiced)[k + 1] = Framed(Ideal(voiced)[k], After(k * FrameSamples, FrameSamples), voiced)
<1> DEFINE q == After(0, MaxFrames * FrameSamples)
           I == Ideal(voiced)
<1>1. q \in Seq(Nat) /\ Len(q) \div FrameSamples = MaxFrames /\ MaxFrames \in Nat
  <2>1. MaxFrames * FrameSamples \in Nat /\ (MaxFrames * FrameSamples) \div FrameSamples = MaxFrames
    BY SegmenterAssumption
  <2> DEFINE l == MaxFrames * FrameSamples
  <2> HIDE DEF l
  <2>2. After(0, l) \in Seq(Nat) /\ Len(After(0, l)) = l
    BY <2>1, AfterIs DEF l
  <2> QED
    BY <2>1, <2>2, SegmenterAssumption DEF l
<1>2. I = [i \in 0..(Len(q) \div FrameSamples) |->
             IF i = 0 THEN [s |-> NewSegmenter, out |-> <<>>, ends |-> {}]
             ELSE Framed(I[i - 1], FrameAt(q, i), voiced)]
  <2> HIDE DEF q
  <2>1. Unfolds(StepsOf(NewSegmenter, q, voiced), NewSegmenter, q, voiced)
    BY <1>1, StepsOfDef
  <2> QED
    BY <2>1 DEF Ideal, q, Unfolds
<1> HIDE DEF I
<1>3. I[0] = NothingStepped
  BY <1>1, <1>2 DEF NothingStepped
<1>4. ASSUME NEW k \in 0..(MaxFrames - 1)
      PROVE  I[k + 1] = Framed(I[k], After(k * FrameSamples, FrameSamples), voiced)
  <2>1. k + 1 \in 0..MaxFrames /\ k + 1 # 0 /\ (k + 1) - 1 = k
    BY <1>1
  <2>2. I[k + 1] = Framed(I[(k + 1) - 1], FrameAt(q, k + 1), voiced)
    <3> HIDE DEF q
    <3> QED
      BY <2>1, <1>1, <1>2
  <2>3. FrameAt(q, k + 1) = After(0 + ((k + 1) - 1) * FrameSamples, FrameSamples)
    <3> DEFINE l == MaxFrames * FrameSamples
    <3>1. l \in Nat /\ k + 1 \in 1..(l \div FrameSamples)
      BY <2>1, SegmenterAssumption
    <3> HIDE DEF l
    <3> QED
      BY <3>1, FrameOfAfter DEF l
  <2>4. 0 + ((k + 1) - 1) * FrameSamples = k * FrameSamples
    BY <2>1, SegmenterAssumption
  <2> QED
    BY <2>1, <2>2, <2>3, <2>4
<1> QED
  BY <1>3, <1>4 DEF I

\* And so whatever is so of the segmenter is so after all of them.
LEMMA IdealGood ==
  ASSUME NEW voiced
  PROVE  \A k \in 0..MaxFrames : \E c : Good(k, c, Ideal(voiced)[k], voiced)
<1> DEFINE I == Ideal(voiced)
           Has(k) == \E c : Good(k, c, I[k], voiced)
           S == {k \in 0..MaxFrames : Has(k)}
<1>0. MaxFrames \in Nat
  BY SegmenterAssumption
<1>1. Has(0)
  <2>1. I[0] = NothingStepped
    BY IdealIs
  <2>2. /\ NothingStepped.s = NewSegmenter /\ NothingStepped.out = <<>> /\ NothingStepped.ends = {}
        /\ NewSegmenter.speech = FALSE /\ NewSegmenter.run = 0 /\ NewSegmenter.pending = <<>>
        /\ NewSegmenter \in SegStates
    BY DEF NothingStepped, NewSegmenter, SegStates
  <2>3. After((0 - 0) * FrameSamples, 0 * FrameSamples) = <<>> /\ (0 - 0) * FrameSamples = 0
    <3>1. 0 * FrameSamples = 0 /\ (0 - 0) * FrameSamples = 0
      BY SegmenterAssumption
    <3> QED
      BY <3>1 DEF After
  <2>4. Shaped(0, 0, NewSegmenter)
    <3>1. 0 \in Nat /\ 0 <= 0 /\ 0 <= Context
      BY SegmenterAssumption DEF Context
    <3>2. NewSegmenter.pending = After((0 - 0) * FrameSamples, 0 * FrameSamples)
      BY <2>2, <2>3
    <3> QED
      BY <2>2, <3>1, <3>2, Zenon DEF Shaped
  <2>5. Counted(0, NewSegmenter, voiced)
    BY <2>2, SegmenterAssumption DEF Counted
  <2>6. Orderly(<<>>, (0 - 0) * FrameSamples)
    BY <2>3 DEF Orderly
  <2>7. NoneLost(0, 0, FedIn(<<>>)) /\ WordsFed(0, FedIn(<<>>), voiced) /\ Silences(0, {}, voiced)
    BY DEF NoneLost, WordsFed, Silences
  <2>8. Good(0, 0, NothingStepped, voiced)
    BY <2>2, <2>4, <2>5, <2>6, <2>7 DEF Good
  <2> QED
    BY <2>1, <2>8
<1>2. ASSUME NEW k \in 0..MaxFrames, Has(k), k < MaxFrames
      PROVE  Has(k + 1)
  <2>1. k \in Nat /\ k \in 0..(MaxFrames - 1)
    BY <1>0, <1>2
  <2>2. PICK c : Good(k, c, I[k], voiced)
    BY <1>2
  <2>3. I[k + 1] = Framed(I[k], After(k * FrameSamples, FrameSamples), voiced)
    BY <2>1, IdealIs
  <2> HIDE DEF I
  <2>4. \E c2 : Good(k + 1, c2, Framed(I[k], After(k * FrameSamples, FrameSamples), voiced), voiced)
    BY <2>1, <2>2, FrameStep
  <2> QED
    BY <2>3, <2>4
<1>3. 0..MaxFrames \subseteq S
  <2> HIDE DEF Has
  <2>1. 0 \in S /\ \A k \in 0..MaxFrames : k \in S /\ k < MaxFrames => k + 1 \in S
    BY <1>0, <1>1, <1>2
  <2> HIDE DEF S
  <2> QED
    BY <1>0, <2>1, UpTo
<1> QED
  BY <1>3

-----------------------------------------------------------------------------
\* y is the step x but for the samples t left over.
SameButTail(x, y, t) ==
  y.s = [x.s EXCEPT !.tail = t] /\ y.out = x.out /\ x.out \in Seq(Nat) /\ y.ended = x.ended

\* A frame does to a segmenter what it does to one with other samples left over.
LEMMA StepTail ==
  ASSUME NEW s \in SegStates, NEW t \in Seq(Nat), NEW frame \in Seq(Nat), NEW b \in BOOLEAN
  PROVE  SameButTail(Step(s, frame, b), Step([s EXCEPT !.tail = t], frame, b), t)
<1> DEFINE u == [s EXCEPT !.tail = t]
           x == Step(s, frame, b)
           y == Step(u, frame, b)
           kept == LastOf(s.pending \o frame, Context * FrameSamples)
<1>1. s = SegmenterOf(s.speech, s.run, s.pending, s.tail) /\ s.pending \in Seq(Nat) /\ s.speech \in BOOLEAN
  BY SegUpdates DEF SegStates
<1>2. u = SegmenterOf(s.speech, s.run, s.pending, t)
  BY <1>1 DEF SegmenterOf
<1>3. u \in SegStates /\ u.speech = s.speech /\ u.run = s.run /\ u.pending = s.pending /\ u.tail = t
  BY <1>2 DEF SegmenterOf, SegStates
<1>4. kept \in Seq(Nat)
  <2> DEFINE q == s.pending \o frame
             n == Context * FrameSamples
             from == IF Len(q) > n THEN Len(q) - n + 1 ELSE 1
  <2>1. q \in Seq(Nat)
    BY <1>1, ConcatProperties
  <2>2. n \in Nat
    BY SegmenterAssumption DEF Context
  <2> HIDE DEF q, n
  <2>3. Len(q) \in Nat /\ from \in Int /\ from >= 1
    BY <2>1, <2>2, LenProperties
  <2>4. \A i \in from..Len(q) : q[i] \in Nat
    BY <2>1, <2>3, ElementOfSeq
  <2> HIDE DEF from
  <2>5. SubSeq(q, from, Len(q)) \in Seq(Nat)
    BY <2>3, <2>4, SubSeqProperties
  <2> QED
    BY <2>5 DEF q, n, from, LastOf
<1> DEFINE Cases(z, v) ==
      \/ s.speech /\ b /\ StepDoes(z, v, TRUE, 0, s.pending, frame, FALSE)
      \/ s.speech /\ ~b /\ s.run + 1 >= Hangover /\ StepDoes(z, v, FALSE, 0, <<>>, frame, TRUE)
      \/ s.speech /\ ~b /\ s.run + 1 < Hangover /\ StepDoes(z, v, TRUE, s.run + 1, s.pending, frame, FALSE)
      \/ ~s.speech /\ ~b /\ StepDoes(z, v, FALSE, 0, kept, <<>>, FALSE)
      \/ ~s.speech /\ b /\ s.run + 1 >= MinSpeech /\ StepDoes(z, v, TRUE, 0, <<>>, kept, FALSE)
      \/ ~s.speech /\ b /\ s.run + 1 < MinSpeech /\ StepDoes(z, v, FALSE, s.run + 1, kept, <<>>, FALSE)
<1>5. Cases(x, s)
  <2> HIDE DEF x
  <2> QED
    BY <1>4, StepCases DEF x
<1>6. Cases(y, u)
  <2> HIDE DEF u
  <2>1. kept = LastOf(u.pending \o frame, Context * FrameSamples)
    BY <1>3
  <2> HIDE DEF kept
  <2> QED
    BY <1>3, <1>4, <2>1, StepCases
<1>7. ASSUME NEW speech, NEW run, NEW pending, NEW out, NEW closes,
             StepDoes(x, s, speech, run, pending, out, closes), StepDoes(y, u, speech, run, pending, out, closes)
      PROVE  y.s = [x.s EXCEPT !.tail = t] /\ y.out = x.out /\ x.out \in Seq(Nat) /\ y.ended = x.ended
  <2> HIDE DEF x, y, u
  <2>1. x.s = SegmenterOf(speech, run, pending, s.tail) /\ y.s = SegmenterOf(speech, run, pending, t)
    BY <1>3, <1>7 DEF StepDoes
  <2>2. y.s = [x.s EXCEPT !.tail = t]
    BY <2>1 DEF SegmenterOf
  <2> QED
    BY <2>2, <1>7 DEF StepDoes
<1>8. /\ s.run \in Nat /\ Hangover \in Nat /\ MinSpeech \in Nat
  BY SegmenterAssumption DEF SegStates
<1>9. /\ ~(s.run + 1 >= Hangover /\ s.run + 1 < Hangover)
      /\ ~(s.run + 1 >= MinSpeech /\ s.run + 1 < MinSpeech)
  BY <1>8
<1> DEFINE P == y.s = [x.s EXCEPT !.tail = t] /\ y.out = x.out /\ x.out \in Seq(Nat) /\ y.ended = x.ended
<1>10. \A speech, run, pending, out, closes :
         StepDoes(x, s, speech, run, pending, out, closes) /\ StepDoes(y, u, speech, run, pending, out, closes) => P
  BY <1>7
<1> HIDE DEF P, x, y, u, kept
<1>11. P
  BY <1>5, <1>6, <1>9, <1>10, ZenonT(30)
<1> QED
  BY <1>11 DEF P, x, y, u, SameButTail

\* Sequences of samples one after the other.
Regroup(p, q, z) == (p \o q) \o z = p \o (q \o z)
LEMMA SamplesRegroup ==
  ASSUME NEW p \in Seq(Nat), NEW q \in Seq(Nat), NEW z \in Seq(Nat)
  PROVE  Regroup(p, q, z)
<1> DEFINE S == Nat
<1> HIDE DEF S
<1>1. p \in Seq(S) /\ q \in Seq(S) /\ z \in Seq(S)
  BY DEF S
<1> QED
  BY <1>1, ConcatAssociative DEF Regroup

Untouched(p) == p = p \o <<>> /\ p = <<>> \o p
LEMMA NoSamples ==
  ASSUME NEW p \in Seq(Nat)
  PROVE  Untouched(p)
BY ConcatEmptySeq DEF Untouched

\* f is, from the k-th frame on, what I is, but for the samples t left over.
Follows(I, k, i, f, t) ==
  /\ f = [s |-> f.s, out |-> f.out, ends |-> f.ends]
  /\ f.s = [I[k + i].s EXCEPT !.tail = t]
  /\ f.out \in Seq(Nat) /\ I[k + i].out = I[k].out \o f.out
  /\ I[k + i].ends = I[k].ends \cup f.ends

\* The same frame keeps it so.
LEMMA FollowsStep ==
  ASSUME NEW I, NEW k \in Nat, NEW i \in Nat, NEW f, NEW t \in Seq(Nat), NEW frame \in Seq(Nat), NEW voiced,
         Follows(I, k, i, f, t), I[k + i].s \in SegStates, I[k].out \in Seq(Nat),
         I[k + (i + 1)] = Framed(I[k + i], frame, voiced)
  PROVE  Follows(I, k, i + 1, Framed(f, frame, voiced), t)
<1> DEFINE r == I[k + i]
           b == FrameOf(frame[1]) \in voiced
           x == Step(r.s, frame, b)
           y == Step(f.s, frame, b)
           new == IF x.ended THEN {FrameOf(frame[1])} ELSE {}
           g == Framed(f, frame, voiced)
           j == I[k + (i + 1)]
<1>1. y.s = [x.s EXCEPT !.tail = t] /\ y.out = x.out /\ x.out \in Seq(Nat) /\ y.ended = x.ended
  <2>1. b \in BOOLEAN
    OBVIOUS
  <2>2. f.s = [r.s EXCEPT !.tail = t]
    BY DEF Follows
  <2> HIDE DEF b
  <2>3. SameButTail(Step(r.s, frame, b), Step([r.s EXCEPT !.tail = t], frame, b), t)
    BY <2>1, StepTail
  <2>4. SameButTail(x, y, t)
    BY <2>2, <2>3
  <2> HIDE DEF x, y
  <2> QED
    BY <2>4 DEF SameButTail
<1>2. j = [s |-> x.s, out |-> r.out \o x.out, ends |-> r.ends \cup new]
  BY DEF Framed
<1>3. g = [s |-> y.s, out |-> f.out \o y.out, ends |-> f.ends \cup (IF y.ended THEN {FrameOf(frame[1])} ELSE {})]
  BY DEF Framed
<1> HIDE DEF x, y, g, j, new
<1>4. j.s = x.s /\ j.out = r.out \o x.out /\ j.ends = r.ends \cup new
  BY <1>2
<1>5. g.s = y.s /\ g.out = f.out \o x.out /\ g.ends = f.ends \cup new
  <2>1. (IF y.ended THEN {FrameOf(frame[1])} ELSE {}) = new
    BY <1>1 DEF new
  <2> QED
    BY <1>1, <1>3, <2>1
<1>6. f.out \in Seq(Nat) /\ r.out = I[k].out \o f.out /\ r.ends = I[k].ends \cup f.ends
  BY DEF Follows
<1>7. j.out = I[k].out \o g.out /\ g.out \in Seq(Nat)
  <2>1. (I[k].out \o f.out) \o x.out = I[k].out \o (f.out \o x.out)
    <3>1. Regroup(I[k].out, f.out, x.out)
      BY <1>1, <1>6, SamplesRegroup
    <3> QED
      BY <3>1 DEF Regroup
  <2>2. f.out \o x.out \in Seq(Nat)
    BY <1>1, <1>6, ConcatProperties
  <2> QED
    BY <2>1, <2>2, <1>4, <1>5, <1>6
<1>8. j.ends = I[k].ends \cup g.ends
  BY <1>4, <1>5, <1>6
<1>9. g.s = [j.s EXCEPT !.tail = t]
  BY <1>1, <1>4, <1>5
<1>10. g = [s |-> g.s, out |-> g.out, ends |-> g.ends]
  BY <1>3
<1> QED
  BY <1>7, <1>8, <1>9, <1>10 DEF Follows, g, j

\* What the frames leave is a segmenter, and what they emit are samples.
LEMMA IdealTypes ==
  ASSUME NEW voiced, NEW k \in 0..MaxFrames
  PROVE  Ideal(voiced)[k].s \in SegStates /\ Ideal(voiced)[k].out \in Seq(Nat)
<1>1. PICK c : Good(k, c, Ideal(voiced)[k], voiced)
  BY IdealGood
<1> QED
  BY <1>1 DEF Good, Shaped, Orderly

\* However many frames a chunk completes, they leave what they would have left of all the audio.
LEMMA ChunkFollows ==
  ASSUME NEW k \in Nat, NEW l \in Nat, NEW t \in Seq(Nat), NEW voiced, NEW s,
         k + (l \div FrameSamples) <= MaxFrames, s = [Ideal(voiced)[k].s EXCEPT !.tail = t]
  PROVE  Follows(Ideal(voiced), k, l \div FrameSamples, StepAll(s, After(k * FrameSamples, l), voiced), t)
<1> DEFINE F == FrameSamples
           I == Ideal(voiced)
           m == l \div F
           q == After(k * F, l)
           f == StepsOf(s, q, voiced)
           S == {i \in 0..m : Follows(I, k, i, f[i], t)}
<1>0. /\ F \in Nat \ {0} /\ MaxFrames \in Nat /\ m \in Nat /\ k * F \in Nat
      /\ k + m <= MaxFrames
  <2>1. F \in Nat \ {0} /\ MaxFrames \in Nat
    BY SegmenterAssumption
  <2>2. m \in Nat
    BY WholeFrames
  <2>3. k * F \in Nat
    BY <2>1
  <2> QED
    BY <2>1, <2>2, <2>3
<1>1. q \in Seq(Nat) /\ Len(q) = l
  BY <1>0, AfterIs
<1>2. f = [i \in 0..m |-> IF i = 0 THEN [s |-> s, out |-> <<>>, ends |-> {}]
                          ELSE Framed(f[i - 1], FrameAt(q, i), voiced)]
  <2> HIDE DEF q
  <2>1. Unfolds(StepsOf(s, q, voiced), s, q, voiced)
    BY <1>1, StepsOfDef
  <2> QED
    BY <2>1, <1>1 DEF Unfolds
<1>3. \A i \in 0..m : k + i \in 0..MaxFrames /\ I[k + i].s \in SegStates /\ I[k + i].out \in Seq(Nat)
  <2>1. \A i \in 0..m : k + i \in 0..MaxFrames
    BY <1>0
  <2> QED
    BY <2>1, IdealTypes
<1>4. I[k].out \in Seq(Nat)
  <2>1. k \in 0..MaxFrames
    BY <1>0
  <2> QED
    BY <2>1, IdealTypes
<1>5. Follows(I, k, 0, f[0], t)
  <2> HIDE DEF f, I
  <2>1. f[0] = [s |-> s, out |-> <<>>, ends |-> {}] /\ k + 0 = k
    BY <1>0, <1>2
  <2>2. f[0].s = s /\ f[0].out = <<>> /\ f[0].ends = {}
    BY <2>1
  <2>3. I[k].out = I[k].out \o <<>> /\ <<>> \in Seq(Nat)
    BY <1>4, NoSamples DEF Untouched
  <2> QED
    BY <2>1, <2>2, <2>3 DEF Follows, I
<1>6. ASSUME NEW i \in 0..m, Follows(I, k, i, f[i], t), i < m
      PROVE  Follows(I, k, i + 1, f[i + 1], t)
  <2> DEFINE frame == After((k + i) * F, F)
  <2>1. i + 1 \in 0..m /\ i + 1 # 0 /\ (i + 1) - 1 = i /\ i \in Nat /\ i + 1 \in 1..m
    <3>1. m \in Nat /\ i < m
      BY <1>0, <1>6
    <3> HIDE DEF m, F
    <3> QED
      BY <3>1
  <2>2. FrameAt(q, i + 1) = frame
    <3>1. FrameAt(q, i + 1) = After(k * F + ((i + 1) - 1) * F, F)
      <4> DEFINE kF == k * F
      <4>1. kF \in Nat
        BY <1>0
      <4> HIDE DEF kF
      <4>2. FrameAt(After(kF, l), i + 1) = After(kF + ((i + 1) - 1) * F, F)
        BY <2>1, <4>1, FrameOfAfter
      <4> QED
        BY <4>2 DEF kF
    <3>2. k * F + ((i + 1) - 1) * F = (k + i) * F
      BY <2>1, <1>0
    <3> QED
      BY <3>1, <3>2
  <2>3. f[i + 1] = Framed(f[i], frame, voiced)
    <3> HIDE DEF f, q, frame, m
    <3>1. f[i + 1] = Framed(f[(i + 1) - 1], FrameAt(q, i + 1), voiced)
      BY <1>2, <2>1
    <3> QED
      BY <3>1, <2>1, <2>2
  <2>4. I[k + (i + 1)] = Framed(I[k + i], frame, voiced)
    <3>1. k + i \in 0..(MaxFrames - 1) /\ (k + i) + 1 = k + (i + 1)
      BY <1>0, <1>6, <2>1
    <3>2. I[(k + i) + 1] = Framed(I[k + i], After((k + i) * F, F), voiced)
      BY <3>1, IdealIs
    <3> HIDE DEF I
    <3> QED
      BY <3>1, <3>2
  <2>5. frame \in Seq(Nat)
    <3>1. (k + i) * F \in Nat
      BY <1>0, <2>1
    <3> QED
      BY <3>1, <1>0, AfterIs
  <2> HIDE DEF f, frame, I
  <2>6. Follows(I, k, i + 1, Framed(f[i], frame, voiced), t)
    BY <1>3, <1>4, <1>6, <2>1, <2>4, <2>5, FollowsStep
  <2> QED
    BY <2>3, <2>6
<1>7. 0..m \subseteq S
  <2> HIDE DEF f, I, m
  <2>1. 0 \in S /\ \A i \in 0..m : i \in S /\ i < m => i + 1 \in S
    BY <1>0, <1>5, <1>6
  <2> HIDE DEF S
  <2> QED
    BY <1>0, <2>1, UpTo
<1>8. Follows(I, k, m, f[m], t)
  <2>1. m \in 0..m
    <3> HIDE DEF m
    <3> QED
      BY <1>0
  <2> QED
    BY <2>1, <1>7
<1>9. f[m] = StepAll(s, q, voiced)
  <2> HIDE DEF q
  <2> QED
    BY <1>1 DEF StepAll
<1> QED
  BY <1>8, <1>9

-----------------------------------------------------------------------------
\* After any number of chunks, the segmenter is what the whole frames among all the samples leave,
\* with the samples of the next one left over.
SegInv ==
  /\ heardSamples \in Nat /\ heardSamples <= MaxFrames * FrameSamples /\ loud \subseteq 1..MaxFrames
  /\ seg = [Ideal(loud)[SteppedFrames].s EXCEPT
              !.tail = After(SteppedFrames * FrameSamples, heardSamples % FrameSamples)]
  /\ fed = Ideal(loud)[SteppedFrames].out
  /\ endpoints = Ideal(loud)[SteppedFrames].ends

\* h samples are k frames and a rest, which n more make l samples: i more frames and a new rest.
Splits(h, n, k, l, i) ==
  /\ k \in Nat /\ l \in Nat /\ i \in Nat /\ k * FrameSamples + (h % FrameSamples) = h
  /\ l = (h % FrameSamples) + n
  /\ (h + n) \div FrameSamples = k + i /\ k + i <= MaxFrames
  /\ (h + n) % FrameSamples = l - i * FrameSamples
  /\ i * FrameSamples <= l /\ k * FrameSamples + i * FrameSamples = (k + i) * FrameSamples

\* The numbers a chunk of n samples changes: the frames it completes and what is left of it.
LEMMA ChunkNumbers ==
  ASSUME NEW h \in Nat, NEW n \in Nat, h + n <= MaxFrames * FrameSamples
  PROVE  LET k == h \div FrameSamples
             l == (h % FrameSamples) + n
             i == l \div FrameSamples
         IN  Splits(h, n, k, l, i)
<1> DEFINE F == FrameSamples
           k == h \div F
           r == h % F
           l == r + n
           i == l \div F
           x == l % F
<1>0. F \in Nat \ {0} /\ MaxFrames \in Nat
  BY SegmenterAssumption
<1>1. k \in Nat /\ r \in Nat /\ h = k * F + r
  BY WholeFrames
<1>2. l \in Nat
  BY <1>1
<1>3. i \in Nat /\ x \in Nat /\ x < F /\ l = i * F + x
  BY <1>2, WholeFrames
<1> HIDE DEF k, r, i, x, F
<1>4. h + n = (k + i) * F + x /\ k * F + i * F = (k + i) * F /\ i * F <= l /\ x = l - i * F
  BY <1>0, <1>1, <1>3
<1>5. ((k + i) * F + x) \div F = k + i /\ ((k + i) * F + x) % F = x
  BY <1>0, <1>1, <1>3
<1>6. k + i <= MaxFrames
  <2>1. (k + i) * F <= MaxFrames * F
    BY <1>0, <1>1, <1>3, <1>4 DEF F
  <2>2. k + i > MaxFrames => (k + i) * F >= MaxFrames * F + F
    BY <1>0, <1>1, <1>3
  <2>3. (k + i) * F \in Nat /\ MaxFrames * F \in Nat
    BY <1>0, <1>1, <1>3
  <2> QED
    BY <1>0, <1>1, <1>3, <2>1, <2>2, <2>3
<1> QED
  BY <1>1, <1>2, <1>3, <1>4, <1>5, <1>6 DEF k, r, i, x, F, Splits

\* A chunk keeps it so.
LEMMA SegStep ==
  ASSUME SegInv, NEW n \in 1..(2 * FrameSamples + 1), PushChunk(n)
  PROVE  SegInv'
<1> DEFINE F == FrameSamples
           h == heardSamples
           k == h \div F
           r0 == h % F
           l == r0 + n
           i == l \div F
           I == Ideal(loud)
           t == After(k * F, r0)
           q == t \o [j \in 1..n |-> h + j]
           r == StepAll(seg, q, loud)
           p == Push(seg, [j \in 1..n |-> h + j], loud)
           rest == SubSeq(q, i * F + 1, Len(q))
<1>0. F \in Nat \ {0} /\ MaxFrames \in Nat /\ n \in Nat /\ h \in Nat
  BY SegmenterAssumption DEF SegInv
<1>1. Splits(h, n, k, l, i)
  BY <1>0, ChunkNumbers DEF PushChunk
<1>2. /\ k \in Nat /\ l \in Nat /\ i \in Nat /\ r0 \in Nat /\ k * F \in Nat /\ i * F \in Nat /\ k * F + r0 = h
      /\ k + i <= MaxFrames /\ i * F <= l /\ (h + n) \div F = k + i /\ (h + n) % F = l - i * F
      /\ k * F + i * F = (k + i) * F
  <2>1. r0 \in Nat
    BY <1>0, WholeFrames
  <2>2. k \in Nat /\ i \in Nat
    BY <1>1 DEF Splits
  <2>3. k * F \in Nat /\ i * F \in Nat
    <3> HIDE DEF k, i
    <3> QED
      BY <1>0, <2>2
  <2> QED
    BY <1>1, <2>1, <2>2, <2>3 DEF Splits
<1>3. seg = [I[k].s EXCEPT !.tail = t] /\ fed = I[k].out /\ endpoints = I[k].ends /\ k \in 0..MaxFrames
  <2>1. seg = [I[k].s EXCEPT !.tail = t] /\ fed = I[k].out /\ endpoints = I[k].ends
    BY DEF SegInv, SteppedFrames
  <2> HIDE DEF k, i
  <2> QED
    BY <2>1, <1>0, <1>2
<1>4. I[k].s \in SegStates /\ I[k + i].s \in SegStates
  <2>1. k + i \in 0..MaxFrames
    <3> HIDE DEF k, i
    <3> QED
      BY <1>0, <1>2
  <2> QED
    BY <1>3, <2>1, IdealTypes
<1>5. t \in Seq(Nat)
  BY <1>2, AfterIs
<1>6. q = After(k * F, l)
  <2>1. [j \in 1..n |-> h + j] = After(k * F + r0, n)
    BY <1>2 DEF After
  <2> DEFINE kF == k * F
  <2>2. kF \in Nat /\ r0 \in Nat /\ n \in Nat
    BY <1>0, <1>2
  <2> HIDE DEF r0, kF
  <2>3. After(kF, r0) \o After(kF + r0, n) = After(kF, r0 + n)
    BY <2>2, AfterConcat
  <2> QED
    BY <2>1, <2>3 DEF kF
<1>7. Follows(I, k, i, r, t)
  <2> HIDE DEF I, t, q
  <2>1. Follows(Ideal(loud), k, l \div FrameSamples, StepAll(seg, After(k * FrameSamples, l), loud), t)
    <3>1. k + (l \div FrameSamples) <= MaxFrames
      BY <1>2
    <3>2. seg = [Ideal(loud)[k].s EXCEPT !.tail = t]
      BY <1>3 DEF I
    <3> HIDE DEF k, l
    <3> QED
      BY <3>1, <3>2, <1>2, <1>5, ChunkFollows
  <2> QED
    BY <2>1, <1>6 DEF I
<1>8. rest = After((k + i) * F, (h + n) % F)
  <2> DEFINE kF == k * F
             iF == i * F
  <2>1. kF \in Nat /\ iF \in Nat /\ iF <= l /\ l <= l /\ kF + iF = (k + i) * F /\ (h + n) % F = l - iF /\ l \in Nat
    BY <1>2
  <2> HIDE DEF kF, iF, l, q
  <2>2. StretchIs(kF, l, iF, l)
    BY <2>1, AfterSub
  <2>3. Len(q) = l
    BY <2>1, <1>6, AfterIs DEF kF
  <2> QED
    BY <2>1, <2>2, <2>3, <1>6 DEF StretchIs, kF, iF
<1>9. p = [r EXCEPT !.s.tail = rest]
  <2>1. seg.tail = t
    <3> HIDE DEF t, k
    <3> QED
      BY <1>3, <1>4, <1>5 DEF SegStates
  <2>2. Len(q) \div F = i
    <3> DEFINE kF == k * F
    <3>1. kF \in Nat /\ l \in Nat
      BY <1>2
    <3> HIDE DEF kF, l, q
    <3>2. Len(q) = l
      BY <3>1, <1>6, AfterIs DEF kF
    <3> QED
      BY <3>2
  <2> HIDE DEF t, i
  <2> QED
    BY <2>1, <2>2 DEF Push
<1>10. p.s = [I[k + i].s EXCEPT !.tail = rest] /\ p.out = r.out /\ p.ends = r.ends
  <2>1. r.s = [I[k + i].s EXCEPT !.tail = t] /\ r = [s |-> r.s, out |-> r.out, ends |-> r.ends]
    BY <1>7 DEF Follows
  <2> HIDE DEF p, r, rest, I, t, k, i
  <2>2. p.s = [r.s EXCEPT !.tail = rest] /\ p.out = r.out /\ p.ends = r.ends
    BY <2>1, <1>9
  <2>3. [r.s EXCEPT !.tail = rest] = [I[k + i].s EXCEPT !.tail = rest]
    <3> DEFINE u == I[k + i].s
    <3>1. u = SegmenterOf(u.speech, u.run, u.pending, u.tail)
      BY <1>4, SegUpdates
    <3>2. r.s = [u EXCEPT !.tail = t]
      BY <2>1
    <3> HIDE DEF u
    <3>3. r.s = SegmenterOf(u.speech, u.run, u.pending, t)
      BY <3>1, <3>2 DEF SegmenterOf
    <3>4. [r.s EXCEPT !.tail = rest] = SegmenterOf(u.speech, u.run, u.pending, rest)
      BY <3>3 DEF SegmenterOf
    <3>5. [u EXCEPT !.tail = rest] = SegmenterOf(u.speech, u.run, u.pending, rest)
      BY <3>1 DEF SegmenterOf
    <3> QED
      BY <3>4, <3>5 DEF u
  <2> QED
    BY <2>2, <2>3
<1>11. seg' = p.s /\ fed' = fed \o p.out /\ endpoints' = endpoints \cup p.ends /\ loud' = loud /\ heardSamples' = h + n
  BY DEF PushChunk
<1>12. SteppedFrames' = k + i
  BY <1>2, <1>11 DEF SteppedFrames
<1>13. fed' = I[k + i].out /\ endpoints' = I[k + i].ends
  <2>1. I[k + i].out = I[k].out \o r.out /\ I[k + i].ends = I[k].ends \cup r.ends
    BY <1>7 DEF Follows
  <2> HIDE DEF p, r, I, k, i
  <2> QED
    BY <2>1, <1>3, <1>10, <1>11
<1>14. Ideal(loud)' = I
  BY <1>11 DEF Ideal
<1>15. seg' = [I[k + i].s EXCEPT !.tail = After((k + i) * F, (h + n) % F)]
  <2> HIDE DEF p, rest, I, k, i
  <2> QED
    BY <1>8, <1>10, <1>11
<1>16. /\ heardSamples' \in Nat /\ heardSamples' <= MaxFrames * FrameSamples /\ loud' \subseteq 1..MaxFrames
  BY <1>0, <1>11 DEF SegInv, PushChunk
<1> HIDE DEF I, k, i
<1> QED
  BY <1>11, <1>12, <1>13, <1>14, <1>15, <1>16 DEF SegInv, After

\* It is so at first.
LEMMA SegStart ==
  ASSUME SegInit
  PROVE  SegInv
<1> DEFINE h == heardSamples
<1>0. h = 0 /\ FrameSamples \in Nat \ {0} /\ MaxFrames \in Nat /\ loud \subseteq 1..MaxFrames
  BY SegmenterAssumption DEF SegInit
<1>1. SteppedFrames = 0 /\ h % FrameSamples = 0 /\ 0 * FrameSamples = 0 /\ MaxFrames * FrameSamples \in Nat
  BY <1>0 DEF SteppedFrames
<1>2. Ideal(loud)[0] = NothingStepped
  BY IdealIs
<1>3. NothingStepped.s = NewSegmenter /\ NothingStepped.out = <<>> /\ NothingStepped.ends = {}
  BY DEF NothingStepped
<1>4. After(0, 0) = <<>> /\ NewSegmenter = [NewSegmenter EXCEPT !.tail = <<>>]
  BY DEF After, NewSegmenter
<1>5. seg = [Ideal(loud)[SteppedFrames].s EXCEPT !.tail = After(SteppedFrames * FrameSamples, h % FrameSamples)]
  BY <1>1, <1>2, <1>3, <1>4 DEF SegInit
<1>6. fed = Ideal(loud)[SteppedFrames].out /\ endpoints = Ideal(loud)[SteppedFrames].ends
  BY <1>1, <1>2, <1>3 DEF SegInit
<1> QED
  BY <1>0, <1>1, <1>5, <1>6 DEF SegInv

\* And it says that the utterances are whole.
LEMMA SegInvImplies ==
  ASSUME SegInv
  PROVE  UtterancesAreWhole
<1> DEFINE k == SteppedFrames
           I == Ideal(loud)
           F == FrameSamples
<1>0. /\ F \in Nat \ {0} /\ MaxFrames \in Nat /\ MinSpeech \in Nat \ {0} /\ PreRoll \in Nat /\ Hangover \in Nat
      /\ heardSamples \in Nat /\ heardSamples <= MaxFrames * F
  BY SegmenterAssumption DEF SegInv
<1>1. k \in 0..MaxFrames /\ heardSamples % F \in Nat /\ k * F \in Nat
  <2>1. Splits(heardSamples, 0, k, (heardSamples % F) + 0, ((heardSamples % F) + 0) \div F)
    BY <1>0, ChunkNumbers DEF SteppedFrames
  <2>2. heardSamples % F \in Nat /\ heardSamples % F < F
    BY <1>0, WholeFrames
  <2>3. ((heardSamples % F) + 0) \div F = 0
    BY <2>2, <1>0
  <2>4. k \in Nat /\ k + 0 <= MaxFrames
    BY <2>1, <2>3 DEF Splits
  <2>5. k * F \in Nat
    <3> HIDE DEF k
    <3> QED
      BY <2>4, <1>0
  <2> HIDE DEF k
  <2> QED
    BY <2>2, <2>4, <2>5, <1>0
<1>2. PICK c : Good(k, c, I[k], loud)
  BY <1>1, IdealGood
<1>3. fed = I[k].out /\ endpoints = I[k].ends /\ seg = [I[k].s EXCEPT !.tail = After(k * F, heardSamples % F)]
  BY DEF SegInv
<1>4. /\ Orderly(fed, (k - c) * F) /\ WordsFed(k, FedIn(fed), loud) /\ Silences(k, endpoints, loud) /\ I[k].s \in SegStates
  BY <1>2, <1>3 DEF Good, Shaped
<1>5. FedOnceInOrder
  BY <1>4 DEF Orderly, FedOnceInOrder
<1>6. WholeWordsAreFed
  <2> SUFFICES ASSUME NEW f \in 1..k, Run(f, MinSpeech)
               PROVE  /\ f..(f + MinSpeech - 1) \subseteq FedFrames
                      /\ \A g \in 1..(f - 1) : g + PreRoll >= f => g \in FedFrames
    BY DEF WholeWordsAreFed
  <2> HIDE DEF k
  <2>1. f + MinSpeech <= k + 1 /\ f..(f + MinSpeech - 1) \subseteq loud
    BY <1>0, <1>1 DEF Run, k
  <2>2. \A g \in 1..(f + MinSpeech - 1) : g + PreRoll >= f => g \in FedFrames
    <3>1. FedFrames = FedIn(fed)
      BY DEF FedFrames, FedIn
    <3> QED
      BY <2>1, <3>1, <1>4 DEF WordsFed
  <2>3. \A g \in f..(f + MinSpeech - 1) : g \in 1..(f + MinSpeech - 1) /\ g + PreRoll >= f
    BY <1>0, <1>1
  <2>4. \A g \in 1..(f - 1) : g \in 1..(f + MinSpeech - 1)
    BY <1>0, <1>1
  <2> QED
    BY <2>2, <2>3, <2>4
<1>7. EndpointsAreSilences
  BY <1>4 DEF Silences, EndpointsAreSilences
<1>8. ChunkingIsInvisible
  <2> DEFINE r == StepAll(NewSegmenter, [i \in 1..(k * F) |-> i], loud)
             l == k * F
  <2>1. l \in Nat /\ l \div F = k
    <3> HIDE DEF k
    <3> QED
      BY <1>0, <1>1
  <2>2. [i \in 1..l |-> i] = After(0 * F, l)
    <3>1. 0 * F = 0 /\ \A i \in 1..l : 0 + i = i
      BY <1>0, <2>1
    <3> HIDE DEF l
    <3> QED
      BY <3>1 DEF After
  <2>3. I[0] = NothingStepped
    BY IdealIs
  <2>4. NewSegmenter = [I[0].s EXCEPT !.tail = <<>>] /\ I[0].out = <<>> /\ I[0].ends = {}
    <3>1. NothingStepped.s = NewSegmenter /\ NothingStepped.out = <<>> /\ NothingStepped.ends = {}
      BY DEF NothingStepped
    <3>2. NewSegmenter = [NewSegmenter EXCEPT !.tail = <<>>]
      BY DEF NewSegmenter
    <3> HIDE DEF I
    <3> QED
      BY <3>1, <3>2, <2>3
  <2>5. Follows(I, 0, k, r, <<>>)
    <3> HIDE DEF l, k
    <3>1. 0 + (l \div F) <= MaxFrames /\ 0 \in Nat /\ <<>> \in Seq(Nat)
      BY <1>0, <1>1, <2>1
    <3>2. Follows(I, 0, l \div F, StepAll(NewSegmenter, After(0 * F, l), loud), <<>>)
      BY <3>1, <2>1, <2>4, ChunkFollows
    <3> QED
      BY <3>2, <2>1, <2>2 DEF l
  <2>6. /\ r.out \in Seq(Nat) /\ I[0 + k].out = I[0].out \o r.out /\ I[0 + k].ends = I[0].ends \cup r.ends
    BY <2>5 DEF Follows
  <2>7. I[0].out \o r.out = r.out
    <3> HIDE DEF r, I
    <3> QED
      BY <2>4, <2>6, NoSamples DEF Untouched
  <2>8. fed = r.out /\ endpoints = r.ends
    <3>1. 0 + k = k
      BY <1>1
    <3> HIDE DEF r, I, k
    <3> QED
      BY <3>1, <2>4, <2>6, <2>7, <1>3
  <2>9. Len(seg.tail) = heardSamples % F
    <3>1. seg.tail = After(k * F, heardSamples % F)
      <4> HIDE DEF I, k
      <4> QED
        BY <1>3, <1>4 DEF SegStates
    <3> QED
      BY <3>1, <1>1, AfterIs
  <2> QED
    BY <2>8, <2>9 DEF ChunkingIsInvisible
<1> QED
  BY <1>5, <1>6, <1>7, <1>8 DEF UtterancesAreWhole

(***************************************************************************)
(* For every length of a frame, every onset, hangover and context, any     *)
(* amount of audio and however it is cut into chunks: the recognizer gets  *)
(* every word whole, each sample once and in order, and each endpoint is a *)
(* silence (segment.rs push and step).                                     *)
(***************************************************************************)
THEOREM WordsAlwaysWhole == SegSpec => []UtterancesAreWhole
<1>1. SegInit => SegInv
  BY SegStart
<1>2. SegInv /\ [SegNext]_segVars => SegInv'
  <2>1. SegInv /\ SegNext => SegInv'
    BY SegStep DEF SegNext
  <2>2. SegInv /\ UNCHANGED segVars => SegInv'
    BY DEF SegInv, segVars, SteppedFrames, After, Ideal
  <2> QED
    BY <2>1, <2>2
<1>3. SegInv => UtterancesAreWhole
  BY SegInvImplies
<1> QED
  BY <1>1, <1>2, <1>3, PTL DEF SegSpec

=============================================================================
