------------------------------- MODULE TapHold -------------------------------
(***************************************************************************)
(* The tap-versus-hold state machine of crates/hotkey/src/taphold.rs: one  *)
(* machine per binding, fed key edges and the time at which they arrive,   *)
(* answering with the events to emit, in order.  Like the Rust type it is  *)
(* pure: each operation maps a machine to a machine and a sequence of      *)
(* events, so the backends that own one (HotkeyTrigger here) supply the    *)
(* clock, the lock and the channel.                                        *)
(***************************************************************************)
EXTENDS Naturals, Sequences

CONSTANT TapThreshold   \* Timing::tap_threshold, in ticks of the owner's clock

ASSUME TapThresholdAssumption == TapThreshold \in Nat

MachineState == {"Idle", "Pressed", "Latched", "LatchedPressed"}
HotkeyEvent  == {"Pressed", "Released", "Latched", "Unlatched", "TapRecovered"}

\* downAt is the payload of State::Pressed and 0 in the states without one.
Machine == [state : MachineState, downAt : Nat]

NewMachine == [state |-> "Idle", downAt |-> 0]

\* What one call returns: the machine after it and the events it emits.
Reaction(state, downAt, events) ==
  [machine |-> [state |-> state, downAt |-> downAt], events |-> events]

Unmoved(m) == [machine |-> m, events |-> <<>>]

\* Mutant: a press while latched starts over instead of ending the latch.
OnKeyDownRestarts(m, now) ==
  IF m.state \in {"Idle", "Latched"}
  THEN Reaction("Pressed", now, <<"Pressed">>) ELSE Unmoved(m)

OnKeyDown(m, now) ==
  CASE m.state = "Idle"    -> Reaction("Pressed", now, <<"Pressed">>)
    [] m.state = "Latched" -> Reaction("LatchedPressed", 0, <<"Unlatched">>)
    [] OTHER               -> Unmoved(m)

OnKeyUp(m, now) ==
  CASE m.state = "Pressed" /\ now - m.downAt < TapThreshold
         -> Reaction("Latched", 0, <<"Latched">>)
    [] m.state = "Pressed" /\ ~(now - m.downAt < TapThreshold)
         -> Reaction("Idle", 0, <<"Released">>)
    [] m.state = "LatchedPressed" -> Reaction("Idle", 0, <<>>)
    [] OTHER                      -> Unmoved(m)

\* Mutant: a toggle that interrupts a held key forgets to say so.
OnToggleSilent(m) ==
  CASE m.state = "Idle"    -> Reaction("Latched", 0, <<"Pressed", "Latched">>)
    [] m.state = "Latched" -> Reaction("Idle", 0, <<"Unlatched">>)
    [] OTHER               -> Reaction("Idle", 0, <<>>)

\* A binding with no release edge: the first toggle latches, the second commits.
OnToggle(m) ==
  CASE m.state = "Idle"    -> Reaction("Latched", 0, <<"Pressed", "Latched">>)
    [] m.state = "Latched" -> Reaction("Idle", 0, <<"Unlatched">>)
    [] OTHER               -> Reaction("Idle", 0, <<"Released">>)

\* TapHold::capturing, the machine's own claim that capture should be running.
Capturing(m) == m.state # "Idle"

Reset(m) ==
  Reaction("Idle", 0, IF Capturing(m) THEN <<"Released">> ELSE <<>>)

-----------------------------------------------------------------------------
(***************************************************************************)
(* What the events tell a consumer: Pressed starts a capture, Released and *)
(* Unlatched commit it, the other two change nothing.                      *)
(***************************************************************************)
Commits(ev) == ev \in {"Released", "Unlatched"}

\* The states in which the last event of the three emitted was Pressed.
CaptureLive(m) == m.state \in {"Pressed", "Latched"}
=============================================================================
