---------------------------- MODULE HotkeyTrigger ----------------------------
(***************************************************************************)
(* The Linux hotkey backend (crates/hotkey/src/backend/linux.rs and        *)
(* trigger.rs) together with the bridge that carries its events to the     *)
(* supervisor (spawn_hotkey in crates/outloud/src/source.rs).              *)
(*                                                                         *)
(* The compositor execs one short-lived process per key edge.  Each        *)
(* process delivers one verb over the trigger socket, independently of the *)
(* others: verbs are lost when an exec fails, doubled when it is retried,  *)
(* and overtake each other.  An accept thread applies one verb at a time   *)
(* to the tap-hold machine; a watchdog thread polls under the same mutex   *)
(* for a press whose release never came.  Both send the machine's events   *)
(* down one channel, which the bridge thread drains, dropping key-downs    *)
(* while the daemon is paused.                                             *)
(***************************************************************************)
EXTENDS TapHold, Integers

CONSTANTS
  WatchdogTimeout,  \* DEFAULT_WATCHDOG_TIMEOUT, in ticks
  PollInterval,     \* WATCHDOG_POLL_INTERVAL, in ticks
  PollDelay,        \* how late the scheduler may wake the watchdog, in ticks
  NoTime,           \* Option::None for press_outstanding_since
  CanPause,         \* may the user flip the `enabled` switch in this run?
  CanToggle,        \* is a press-only binding (trigger toggle) in use?
  MaxInFlight,      \* bound: execs of one verb running at a time
  MaxQueue,         \* bound: undrained events
  MaxClock          \* bound: length of a behaviour in ticks

ASSUME TriggerAssumption ==
  /\ WatchdogTimeout \in Nat \ {0}
  /\ PollInterval \in Nat \ {0}
  /\ PollDelay \in Nat
  /\ NoTime \notin Nat
  /\ CanPause \in BOOLEAN /\ CanToggle \in BOOLEAN
  /\ MaxInFlight \in Nat /\ MaxQueue \in Nat /\ MaxClock \in Nat

VARIABLES
  clock,        \* Instant::now()
  keyDown,      \* is the bound key physically down?
  inFlight,     \* inFlight[v]: execs of verb v that have not connected yet
  machine,      \* TriggerState.machine
  outstanding,  \* TriggerState.press_outstanding_since
  lastPoll,     \* when the watchdog thread last looked
  events,       \* the mpsc channel between the backend and the bridge
  enabled,      \* RuntimeShared::enabled
  told          \* the last edge the bridge forwarded to the supervisor

vars == <<clock, keyDown, inFlight, machine, outstanding, lastPoll, events,
          enabled, told>>
environment == <<clock, keyDown, inFlight>>
backend     == <<machine, outstanding, lastPoll>>
bridge      == <<enabled, told>>

Verb == {"Press", "Release", "Toggle"}

TypeOK ==
  /\ clock \in Nat
  /\ keyDown \in BOOLEAN
  /\ inFlight \in [Verb -> Nat]
  /\ machine \in Machine
  /\ outstanding \in Nat \cup {NoTime}
  /\ lastPoll \in Nat
  /\ events \in Seq(HotkeyEvent)
  /\ enabled \in BOOLEAN
  /\ told \in {"KeyDown", "KeyUp"}

Init ==
  /\ clock = 0
  /\ keyDown = FALSE
  /\ inFlight = [v \in Verb |-> 0]
  /\ machine = NewMachine
  /\ outstanding = NoTime
  /\ lastPoll = 0
  /\ events = <<>>
  /\ enabled = TRUE
  /\ told = "KeyUp"

-----------------------------------------------------------------------------
(***************************************************************************)
(* The environment: time, the user's finger and the compositor's execs.    *)
(***************************************************************************)

\* Time passes, but not past the latest moment the watchdog can wake.
Tick ==
  /\ clock < MaxClock
  /\ clock < lastPoll + PollInterval + PollDelay
  /\ clock' = clock + 1
  /\ UNCHANGED <<keyDown, inFlight, backend, events, bridge>>

Exec(v) ==
  /\ inFlight[v] < MaxInFlight
  /\ inFlight' = [inFlight EXCEPT ![v] = @ + 1]

\* The compositor's `bind` and `bindr`: one exec per physical edge.
KeyEdge ==
  /\ keyDown' = ~keyDown
  /\ Exec(IF keyDown THEN "Release" ELSE "Press")
  /\ UNCHANGED <<clock, backend, events, bridge>>

\* A press-only binding (GNOME) fires while the other may be in use as well.
ToggleBinding ==
  /\ CanToggle
  /\ Exec("Toggle")
  /\ UNCHANGED <<clock, keyDown, backend, events, bridge>>

\* An exec that never reaches the socket.
LoseExec(v) ==
  /\ inFlight[v] > 0
  /\ inFlight' = [inFlight EXCEPT ![v] = @ - 1]
  /\ UNCHANGED <<clock, keyDown, backend, events, bridge>>

\* "A retried exec, a stray second bind firing": the verb is sent twice.
DuplicateExec(v) ==
  /\ inFlight[v] > 0
  /\ Exec(v)
  /\ UNCHANGED <<clock, keyDown, backend, events, bridge>>

-----------------------------------------------------------------------------
(***************************************************************************)
(* The backend.  trigger::apply and TriggerState::apply, under the mutex.  *)
(***************************************************************************)
Apply(m, v, now) ==
  CASE v = "Press"   -> OnKeyDown(m, now)
    [] v = "Release" -> OnKeyUp(m, now)
    [] v = "Toggle"  -> OnToggle(m)

OutstandingAfter(v, now) == IF v = "Press" THEN now ELSE NoTime

\* The accept thread serves one connection.  PING is left out: it answers OK
\* and touches nothing.
Accept(v) ==
  LET r == Apply(machine, v, clock) IN
  /\ inFlight[v] > 0
  /\ Len(events) < MaxQueue
  /\ inFlight' = [inFlight EXCEPT ![v] = @ - 1]
  /\ outstanding' = OutstandingAfter(v, clock)
  /\ machine' = r.machine
  /\ events' = events \o r.events
  /\ UNCHANGED <<clock, keyDown, lastPoll, bridge>>

\* Mutant: the boundary excluded.
WatchdogExpiredLate(since, now) == now - since > WatchdogTimeout

WatchdogExpired(since, now) == now - since >= WatchdogTimeout

\* Mutant: the record is cleared but the machine is left where it was.
WatchdogPollNoReset ==
  /\ clock >= lastPoll + PollInterval
  /\ lastPoll' = clock
  /\ outstanding' = IF outstanding # NoTime /\ WatchdogExpired(outstanding, clock)
                    THEN NoTime ELSE outstanding
  /\ UNCHANGED <<machine, events, environment, bridge>>

\* One turn of watchdog_loop after its sleep.
WatchdogPoll ==
  /\ clock >= lastPoll + PollInterval
  /\ lastPoll' = clock
  /\ IF outstanding # NoTime /\ WatchdogExpired(outstanding, clock)
     THEN LET r == Reset(machine) IN
          /\ machine' = r.machine
          /\ events' = events \o r.events \o <<"TapRecovered">>
          /\ outstanding' = NoTime
     ELSE UNCHANGED <<machine, events, outstanding>>
  /\ UNCHANGED <<environment, bridge>>

-----------------------------------------------------------------------------
(***************************************************************************)
(* The bridge thread of spawn_hotkey, and the menu's Pause row.            *)
(***************************************************************************)
\* Mutant: the release of a tap ends the capture it latched.
MappedLatchCommits(ev) ==
  CASE ev = "Pressed"                   -> "KeyDown"
    [] Commits(ev) \/ ev = "Latched"    -> "KeyUp"
    [] OTHER                            -> "nothing"

Mapped(ev) ==
  CASE ev = "Pressed" -> "KeyDown"
    [] Commits(ev)    -> "KeyUp"
    [] OTHER          -> "nothing"

\* Mutant: a paused daemon drops every edge, commits included.
BridgeForwardMute ==
  LET edge == Mapped(Head(events)) IN
  /\ events # <<>>
  /\ events' = Tail(events)
  /\ told' = IF edge = "nothing" \/ ~enabled THEN told ELSE edge
  /\ UNCHANGED <<environment, backend, enabled>>

\* Mutant: an event with no mapping is forwarded all the same.
BridgeForwardAll ==
  LET edge == Mapped(Head(events)) IN
  /\ events # <<>>
  /\ events' = Tail(events)
  /\ told' = IF ~enabled /\ edge = "KeyDown" THEN told ELSE edge
  /\ UNCHANGED <<environment, backend, enabled>>

BridgeForward ==
  LET edge == Mapped(Head(events)) IN
  /\ events # <<>>
  /\ events' = Tail(events)
  /\ told' = IF edge = "nothing" \/ (~enabled /\ edge = "KeyDown")
             THEN told ELSE edge
  /\ UNCHANGED <<environment, backend, enabled>>

Pause ==
  /\ CanPause
  /\ enabled' = ~enabled
  /\ UNCHANGED <<environment, backend, events, told>>

-----------------------------------------------------------------------------
Next ==
  \/ Tick
  \/ KeyEdge
  \/ ToggleBinding
  \/ \E v \in Verb : LoseExec(v)
  \/ \E v \in Verb : DuplicateExec(v)
  \/ \E v \in Verb : Accept(v)
  \/ WatchdogPoll
  \/ BridgeForward
  \/ Pause

Spec == Init /\ [][Next]_vars

-----------------------------------------------------------------------------
(***************************************************************************)
(* Properties.                                                             *)
(***************************************************************************)

\* Draining the first n events of the channel s into a supervisor last told t
\* leaves it last told edge, when the daemon is running.
Settles(edge, t, s, n) ==
  \/ \E i \in 1..n : /\ Mapped(s[i]) = edge
                     /\ \A j \in i+1..n : Mapped(s[j]) = "nothing"
  \/ /\ t = edge
     /\ \A j \in 1..n : Mapped(s[j]) = "nothing"

\* The watchdog covers every way the machine can be stuck: whenever the machine
\* believes the key is down, including under the tap that ends a latch, a press
\* is on record, so a release that never arrives is eventually given up on.
WatchdogArmed ==
  machine.state \in {"Pressed", "LatchedPressed"} => outstanding # NoTime

\* A press without its release is on record for less than the timeout plus one
\* poll, however the accept thread and the watchdog interleave.
OutstandingBounded ==
  outstanding # NoTime =>
    clock - outstanding < WatchdogTimeout + PollInterval + PollDelay

\* A press whose release is lost is always given up on, in time.
StuckPressRecovers == WatchdogArmed /\ OutstandingBounded

\* No orphaned capture: when the machine is not capturing, the supervisor has
\* been told KeyUp or will be, after every KeyDown still in the channel.  Holds
\* through lost, doubled and reordered execs, watchdog resets and pauses.
NoOrphanCapture ==
  CaptureLive(machine) \/ Settles("KeyUp", told, events, Len(events))

\* The supervisor is never told KeyDown twice without a KeyUp in between: every
\* Pressed in the channel comes after a commit.
PressesAlternate ==
  \A i \in 1..Len(events) :
    events[i] = "Pressed" => Settles("KeyUp", told, events, i - 1)

\* What the supervisor is told of a capture begins and ends in turn, whatever
\* happens to the execs, the watchdog and the pause switch.
CapturesPaired == NoOrphanCapture /\ PressesAlternate

\* The Latched event's promise, "capture stays live": while the machine is
\* capturing the supervisor has been told KeyDown, or will be.  Only for a
\* daemon that is never paused: a pause swallows the KeyDown of a tap that latches.
LiveCaptureIsTold ==
  CaptureLive(machine) => Settles("KeyDown", told, events, Len(events))
=============================================================================
