------------------------------ MODULE AudioChain -----------------------------
(***************************************************************************)
(* From the microphone to the supervisor's channel: the capture thread     *)
(* that follows devices (capture_cpal.rs), the ring its stream fills       *)
(* (ring.rs), and the task that drains it (spawn_mic in source.rs).  The   *)
(* machine's devices come, go and change places under it; samples are      *)
(* their numbers.                                                          *)
(***************************************************************************)
EXTENDS Naturals, Sequences, FiniteSets

CONSTANTS Mics,          \* input devices there may be
          NoMic,
          RingCapacity,  \* samples the ring holds
          MaxSamples,    \* samples a stream delivers
          MaxChanges     \* how often the machine's devices change or fail

ASSUME ChainAssumption == RingCapacity \in Nat

VARIABLES
  present,     \* the devices the system lists
  default,     \* its default input
  want,        \* the configured microphone, NoMic when none is
  running,     \* CaptureHandle::running
  captureThread,  \* "resolve", "open", "watch", "nap", "close", "ended"
  device,      \* the device being opened or recorded from
  following,   \* following_default
  died,        \* the stream's error callback has fired
  streaming,   \* a stream delivers samples
  ring, made, dropped,   \* the ring, samples delivered, samples discarded
  drain,       \* the drain task: "tick", "checked", "done"
  drained,     \* samples sent on as chunks, in order
  changes      \* changes and failures of the devices so far

chainVars == <<present, default, want, running, captureThread, device, following, died, streaming,
               ring, made, dropped, drain, drained, changes>>
deviceVars == <<present, default, want, changes>>
ringVars == <<ring, made, dropped>>
drainVars == <<drain, drained>>

ChainInit ==
  /\ present \in SUBSET Mics /\ want \in Mics \cup {NoMic}
  /\ default \in IF present = {} THEN {NoMic} ELSE present
  /\ running = TRUE /\ captureThread = "resolve" /\ device = NoMic /\ following = FALSE
  /\ died = FALSE /\ streaming = FALSE /\ ring = <<>> /\ made = 0 /\ dropped = 0
  /\ drain = "tick" /\ drained = <<>> /\ changes = 0

-----------------------------------------------------------------------------
(* The machine.                                                             *)

ChangeDevices ==
  /\ changes < MaxChanges /\ changes' = changes + 1
  /\ \E now \in SUBSET Mics, d \in Mics \cup {NoMic} :
       /\ d \in now \/ (now = {} /\ d = NoMic)
       /\ present' = now /\ default' = d
  /\ UNCHANGED <<want, running, captureThread, device, following, died, streaming, ringVars, drainVars>>

\* cpal's error callback: the device is gone, or fails by itself.
StreamFails ==
  /\ streaming /\ ~died /\ died' = TRUE
  /\ \/ device \notin present /\ UNCHANGED changes
     \/ changes < MaxChanges /\ changes' = changes + 1
  /\ UNCHANGED <<present, default, want, running, captureThread, device, following, streaming, ringVars, drainVars>>

-----------------------------------------------------------------------------
(* The ring and its two ends.                                               *)

\* Mutant: a full ring refuses what is new.
PushKeepsOld(samples) ==
  LET room == RingCapacity - Len(ring)
      n == Len(samples)
  IN  /\ ring' = ring \o SubSeq(samples, 1, IF n < room THEN n ELSE room)
      /\ dropped' = dropped + (IF n > room THEN n - room ELSE 0)
\* Producer::push, the oldest first to go; a callback longer than the ring keeps its end.
PushRing(samples) ==
  LET n == Len(samples)
      over == IF Len(ring) + n > RingCapacity THEN Len(ring) + n - RingCapacity ELSE 0
      from == IF over < Len(ring) THEN over ELSE Len(ring)
      start == IF n > RingCapacity THEN n - RingCapacity ELSE 0
  IN  /\ ring' = SubSeq(ring, from + 1, Len(ring)) \o SubSeq(samples, start + 1, n)
      /\ dropped' = dropped + over

\* The stream's data callback, on the system's audio thread.
DataCallback(n) ==
  /\ streaming /\ ~died /\ device \in present /\ made + n <= MaxSamples
  /\ PushRing([i \in 1..n |-> made + i]) /\ made' = made + n
  /\ UNCHANGED <<deviceVars, running, captureThread, device, following, died, streaming, drainVars>>

\* Mutant: the task goes on while there is a ring.
TickAlways ==
  /\ drain = "tick" /\ drain' = "checked"
  /\ UNCHANGED <<deviceVars, running, captureThread, device, following, died, streaming, ringVars, drained>>
\* A tick of the drain task: is this capture over?
DrainTick ==
  /\ drain = "tick"
  /\ drain' = IF running THEN "checked" ELSE "done"
  /\ UNCHANGED <<deviceVars, running, captureThread, device, following, died, streaming, ringVars, drained>>

\* It is not: what the ring holds is sent to the supervisor.
DrainSends ==
  /\ drain = "checked" /\ drain' = "tick"
  /\ drained' = drained \o ring /\ ring' = <<>>
  /\ UNCHANGED <<deviceVars, running, captureThread, device, following, died, streaming, made, dropped>>

-----------------------------------------------------------------------------
(* The capture thread: supervisor_loop.                                     *)

\* Mutant: the default is followed only when no microphone is configured.
FollowUnlessConfigured == want = NoMic
FollowsDefault == want \notin present

\* The top of the loop and the choice of a device; the preference is looked up every time.
ResolveDevice ==
  /\ captureThread = "resolve"
  /\ IF ~running THEN captureThread' = "ended" /\ UNCHANGED <<device, following>>
     ELSE /\ following' = FollowsDefault
          /\ device' = IF want \in present THEN want ELSE default
          /\ captureThread' = IF device' = NoMic THEN "resolve" ELSE "open"
  /\ UNCHANGED <<deviceVars, running, died, streaming, ringVars, drainVars>>

\* build_stream and play; a failure is reported and the loop starts over.
OpenStream(works) ==
  /\ captureThread = "open"
  /\ works => device \in present
  /\ died' = FALSE /\ streaming' = works
  /\ captureThread' = IF works THEN "watch" ELSE "resolve"
  /\ UNCHANGED <<deviceVars, running, device, following, ringVars, drainVars>>

\* The inner loop: stopped or dead, or half a second's sleep and a look at the default.
WatchStream ==
  /\ captureThread = "watch"
  /\ captureThread' = IF ~running \/ died THEN "close" ELSE "nap"
  /\ UNCHANGED <<deviceVars, running, device, following, died, streaming, ringVars, drainVars>>

NapEnds ==
  /\ captureThread = "nap"
  /\ captureThread' = IF following /\ default # device THEN "close" ELSE "watch"
  /\ UNCHANGED <<deviceVars, running, device, following, died, streaming, ringVars, drainVars>>

CloseStream ==
  /\ captureThread = "close" /\ streaming' = FALSE /\ captureThread' = "resolve"
  /\ UNCHANGED <<deviceVars, running, device, following, died, ringVars, drainVars>>

\* CaptureHandle::shutdown: the flag, then the join that the next step of its owner waits for.
StopCapturing ==
  /\ running /\ running' = FALSE
  /\ UNCHANGED <<deviceVars, captureThread, device, following, died, streaming, ringVars, drainVars>>

CaptureThread == ResolveDevice \/ (\E works \in BOOLEAN : OpenStream(works)) \/ WatchStream \/ NapEnds \/ CloseStream
ChainNext ==
  \/ ChangeDevices \/ StreamFails \/ (\E n \in 1..(RingCapacity + 1) : DataCallback(n))
  \/ DrainTick \/ DrainSends \/ CaptureThread \/ StopCapturing

ChainSpec == ChainInit /\ [][ChainNext]_chainVars

(* Threads run; a device that is listed opens now and then; a stream whose   *)
(* device is gone gets its error.  Nobody has to stop the capture.           *)
ChainFair ==
  /\ ChainSpec /\ WF_chainVars(ResolveDevice) /\ WF_chainVars(\E works \in BOOLEAN : OpenStream(works))
  /\ SF_chainVars(OpenStream(TRUE)) /\ WF_chainVars(WatchStream) /\ WF_chainVars(NapEnds)
  /\ WF_chainVars(CloseStream) /\ WF_chainVars(StreamFails /\ device \notin present)
  /\ WF_chainVars(DrainTick) /\ WF_chainVars(DrainSends)

-----------------------------------------------------------------------------
\* The ring loses only the oldest samples, and says how many: what was sent is in order, what
\* it holds is the newest, and nothing is unaccounted for (ring.rs:13-16).
RingKeepsTheNewest ==
  LET got == drained \o ring
  IN  /\ \A i \in 1..(Len(got) - 1) : got[i] < got[i + 1]
      /\ Len(got) + dropped = made /\ Len(ring) <= RingCapacity
      /\ ring # <<>> => ring[Len(ring)] = made

\* When the devices stay as they are, a capture that goes on records from the configured one
\* or the default, whatever was unplugged, replaced or lost before.
RecordsFromTheRightOne ==
  (<>[]running /\ <>[](present # {})) => <>[](streaming /\ device \in present /\ device \in {want, default})

\* A stopped capture ends: thread, stream and drain task, so none is left behind per utterance
\* (source.rs:158-163).
StoppedCaptureEnds == ~running ~> (captureThread = "ended" /\ ~streaming /\ drain = "done")

\* The capture keeps up with the speaker and with the devices, and ends when it is told to.
CaptureKeepsUp == []RingKeepsTheNewest /\ RecordsFromTheRightOne /\ StoppedCaptureEnds
=============================================================================
