------------------------------ MODULE Segmenter ------------------------------
(***************************************************************************)
(* The speech segmenter (crates/audio/src/segment.rs) between the chunks   *)
(* the supervisor reads and the audio it feeds the recognizer.  Samples    *)
(* are their numbers in the order they were captured; loud says which      *)
(* frames the voice detector calls speech.                                 *)
(***************************************************************************)
EXTENDS Naturals, Sequences, FiniteSets, SequencesExt

CONSTANTS FrameSamples, MinSpeech, Hangover, PreRoll,   \* SegmenterConfig, in frames
          MaxFrames                                     \* audio tried

ASSUME SegmenterAssumption ==
  /\ FrameSamples \in Nat \ {0} /\ MinSpeech \in Nat \ {0}
  /\ Hangover \in Nat /\ PreRoll \in Nat /\ MaxFrames \in Nat

VARIABLES
  heardSamples,   \* samples pushed so far
  loud,           \* frames the detector scores at or above the threshold
  seg,            \* SpeechSegmenter
  fed,            \* samples sent on in SpeechStart and Partial, in order
  endpoints       \* the frames at which a SpeechEnd came out of a push

segVars == <<heardSamples, loud, seg, fed, endpoints>>

NewSegmenter == [speech |-> FALSE, run |-> 0, pending |-> <<>>, tail |-> <<>>]

\* What one frame does: the segmenter after it, the audio it emits, and whether speech ended.
Stepped(s, out, ended) == [s |-> s, out |-> out, ended |-> ended]

LastOf(q, n) == SubSeq(q, IF Len(q) > n THEN Len(q) - n + 1 ELSE 1, Len(q))

\* Mutant: the end of an utterance is kept as the context of the next.
EndKeepsContext(s, frame) ==
  Stepped([s EXCEPT !.speech = FALSE, !.run = 0, !.pending = frame], frame, TRUE)
\* end_utterance
EndUtterance(s, frame) ==
  Stepped([s EXCEPT !.speech = FALSE, !.run = 0, !.pending = <<>>], frame, TRUE)

\* One frame.  run counts speech frames before the onset and silent ones after it; context is
\* how many frames are kept until then, and a word ends a silence if restarts.
StepWith(s, frame, isSpeech, context, restarts) ==
  IF s.speech
  THEN IF isSpeech THEN Stepped([s EXCEPT !.run = IF restarts THEN 0 ELSE @], frame, FALSE)
       ELSE IF s.run + 1 >= Hangover THEN EndUtterance(s, frame)
       ELSE Stepped([s EXCEPT !.run = @ + 1], frame, FALSE)
  ELSE LET kept == LastOf(s.pending \o frame, context * FrameSamples)
       IN  IF ~isSpeech THEN Stepped([s EXCEPT !.pending = kept, !.run = 0], <<>>, FALSE)
           ELSE IF s.run + 1 >= MinSpeech
                THEN Stepped([s EXCEPT !.speech = TRUE, !.run = 0, !.pending = <<>>], kept, FALSE)
                ELSE Stepped([s EXCEPT !.pending = kept, !.run = @ + 1], <<>>, FALSE)

\* Mutant: the frames that confirmed the onset count against the context kept before it.
StepShortContext(s, frame, isSpeech) == StepWith(s, frame, isSpeech, PreRoll, TRUE)
\* Mutant: a word does not start the count of silence again.
StepForgetsWords(s, frame, isSpeech) == StepWith(s, frame, isSpeech, PreRoll + MinSpeech, FALSE)
\* step
Step(s, frame, isSpeech) == StepWith(s, frame, isSpeech, PreRoll + MinSpeech, TRUE)

FrameOf(sample) == (sample + FrameSamples - 1) \div FrameSamples

\* One more frame: what all of them together have done.
Framed(r, frame, speech) ==
  LET one == Step(r.s, frame, FrameOf(frame[1]) \in speech)
  IN  [s |-> one.s, out |-> r.out \o one.out,
       ends |-> r.ends \cup (IF one.ended THEN {FrameOf(frame[1])} ELSE {})]

FrameAt(q, i) == SubSeq(q, (i - 1) * FrameSamples + 1, i * FrameSamples)

\* The frames of q, one after the other, through Step: what each of them leaves.
StepsOf(s, q, speech) ==
  LET f[i \in 0..(Len(q) \div FrameSamples)] ==
        IF i = 0 THEN [s |-> s, out |-> <<>>, ends |-> {}] ELSE Framed(f[i - 1], FrameAt(q, i), speech)
  IN  f
StepAll(s, q, speech) == StepsOf(s, q, speech)[Len(q) \div FrameSamples]

\* Mutant: what is left after the last whole frame is dropped.
PushDropsTail(s, samples, speech) ==
  LET q == s.tail \o samples
      r == StepAll(s, q, speech)
  IN  [r EXCEPT !.s.tail = <<>>]
\* push: whole frames are stepped, the rest waits for the next chunk.
Push(s, samples, speech) ==
  LET q == s.tail \o samples
      whole == (Len(q) \div FrameSamples) * FrameSamples
      r == StepAll(s, q, speech)
  IN  [r EXCEPT !.s.tail = SubSeq(q, whole + 1, Len(q))]

SegInit ==
  /\ heardSamples = 0 /\ loud \in SUBSET (1..MaxFrames)
  /\ seg = NewSegmenter /\ fed = <<>> /\ endpoints = {}

\* The supervisor hands over a chunk of n samples (pipeline.rs, the Chunk arm).
PushChunk(n) ==
  /\ heardSamples + n <= MaxFrames * FrameSamples
  /\ heardSamples' = heardSamples + n
  /\ LET r == Push(seg, [i \in 1..n |-> heardSamples + i], loud)
     IN  seg' = r.s /\ fed' = fed \o r.out /\ endpoints' = endpoints \cup r.ends
  /\ UNCHANGED loud

SegNext == \E n \in 1..(2 * FrameSamples + 1) : PushChunk(n)
SegSpec == SegInit /\ [][SegNext]_segVars

-----------------------------------------------------------------------------
SteppedFrames == heardSamples \div FrameSamples
Run(f, n) == f \in Nat /\ f + n - 1 <= SteppedFrames /\ f..(f + n - 1) \subseteq loud
FedFrames == {FrameOf(fed[i]) : i \in 1..Len(fed)}

\* No sample reaches the recognizer twice or out of its turn, over any number of utterances.
FedOnceInOrder == \A i \in 1..(Len(fed) - 1) : fed[i] < fed[i + 1]

\* A word of at least the onset's length is fed from its first frame, with the context before
\* it (segment.rs:13-17: "hello" must not become "ello").
WholeWordsAreFed ==
  \A f \in 1..SteppedFrames :
    Run(f, MinSpeech) =>
      /\ f..(f + MinSpeech - 1) \subseteq FedFrames
      /\ \A g \in 1..(f - 1) : g + PreRoll >= f => g \in FedFrames

\* An endpoint is the end of a silence: none is announced between words closer than the
\* hangover (segment.rs:18-20).
EndpointsAreSilences ==
  \A e \in endpoints : e >= Hangover /\ (e - Hangover + 1)..e \cap loud = {}

\* How the audio is cut into chunks changes nothing: what came out is what the frames alone
\* produce, and what is left is less than a frame.
ChunkingIsInvisible ==
  LET r == StepAll(NewSegmenter, [i \in 1..(SteppedFrames * FrameSamples) |-> i], loud)
  IN  fed = r.out /\ endpoints = r.ends /\ Len(seg.tail) = heardSamples % FrameSamples

\* The recognizer gets every word whole, once and in order, and its endpoints are silences.
UtterancesAreWhole == FedOnceInOrder /\ WholeWordsAreFed /\ EndpointsAreSilences /\ ChunkingIsInvisible
=============================================================================
