------------------------- MODULE HotkeyTriggerProofs -------------------------
(***************************************************************************)
(* What HotkeyTrigger guarantees for every threshold, timeout, poll        *)
(* interval and bound: the watchdog covers every stuck state, a press      *)
(* without its release is given up on in bounded time, and the supervisor  *)
(* is never left believing in a capture the machine has ended.             *)
(*                                                                         *)
(* And what the macOS tap and the Windows hook guarantee for every set of  *)
(* bindings and any number of keys held: the matcher, the machine and the  *)
(* consumer move together, and a keystroke lost is a reset to come.        *)
(*                                                                         *)
(* And what the main thread of the process guarantees.                     *)
(*                                                                         *)
(* And, in the last part, that a chord which is accepted is one that is    *)
(* read back from the settings and can be struck.                          *)
(***************************************************************************)
EXTENDS MCHotkeyTrigger, TLAPS

(***************************************************************************)
(* Lemmas about the machine's operations.                                  *)
(***************************************************************************)

\* Every operation of TapHold maps machines to machines and emits at most two
\* events: the shape every backend relies on when it sends them.
LEMMA ReactionType ==
  ASSUME NEW m \in Machine, NEW now \in Nat, NEW r,
         \/ \E v \in Verb : r = Apply(m, v, now)
         \/ r = Reset(m)
  PROVE  /\ r.machine \in Machine
         /\ r.events \in Seq(HotkeyEvent)
<1> DEFINE Good(x) == x.machine \in Machine /\ x.events \in Seq(HotkeyEvent)
<1>1. /\ <<>> \in Seq(HotkeyEvent)
      /\ \A e \in HotkeyEvent : <<e>> \in Seq(HotkeyEvent)
      /\ <<"Pressed", "Latched">> \in Seq(HotkeyEvent)
  BY DEF HotkeyEvent
<1>2. ASSUME NEW s \in MachineState, NEW d \in Nat, NEW es \in Seq(HotkeyEvent)
      PROVE  Good(Reaction(s, d, es))
  BY DEF Reaction, Machine
<1>3. Good(Unmoved(m))
  BY <1>1 DEF Unmoved
<1> HIDE DEF Good
<1>4. Good(OnKeyDown(m, now))
  BY <1>1, <1>2, <1>3 DEF OnKeyDown, MachineState, HotkeyEvent
<1>5. Good(OnKeyUp(m, now))
  <2>1. CASE m.state = "Pressed"
    BY <2>1, <1>1, <1>2 DEF OnKeyUp, MachineState, HotkeyEvent
  <2>2. CASE m.state # "Pressed"
    BY <2>2, <1>1, <1>2, <1>3 DEF OnKeyUp, MachineState, HotkeyEvent
  <2> QED
    BY <2>1, <2>2
<1>6. Good(OnToggle(m))
  BY <1>1, <1>2 DEF OnToggle, MachineState, HotkeyEvent
<1>7. Good(Reset(m))
  BY <1>1, <1>2 DEF Reset, MachineState, HotkeyEvent
<1>8. Good(r)
  BY <1>4, <1>5, <1>6, <1>7 DEF Apply, Verb
<1> QED
  BY <1>8 DEF Good

\* TypeOK is inductive: the operations keep the machine, the record of the
\* outstanding press and the channel within their types.
THEOREM TypeCorrect == Spec => []TypeOK
<1>1. Init => TypeOK
  <2> SUFFICES ASSUME Init PROVE TypeOK
    OBVIOUS
  <2>1. machine \in Machine
    BY DEF Init, NewMachine, Machine, MachineState
  <2>2. events \in Seq(HotkeyEvent)
    BY DEF Init
  <2> QED
    BY <2>1, <2>2 DEF Init, TypeOK
<1>2. TypeOK /\ [Next]_vars => TypeOK'
  <2> SUFFICES ASSUME TypeOK, [Next]_vars PROVE TypeOK'
    OBVIOUS
  <2> USE DEF TypeOK, environment, backend, bridge
  <2>1. CASE Tick
    BY <2>1 DEF Tick
  <2>2. CASE KeyEdge
    BY <2>2 DEF KeyEdge, Exec, Verb
  <2>3. CASE ToggleBinding
    BY <2>3 DEF ToggleBinding, Exec, Verb
  <2>4. ASSUME NEW v \in Verb, LoseExec(v) PROVE TypeOK'
    BY <2>4 DEF LoseExec
  <2>5. ASSUME NEW v \in Verb, DuplicateExec(v) PROVE TypeOK'
    BY <2>5 DEF DuplicateExec, Exec
  <2>6. ASSUME NEW v \in Verb, Accept(v) PROVE TypeOK'
    <3>1. /\ Apply(machine, v, clock).machine \in Machine
          /\ Apply(machine, v, clock).events \in Seq(HotkeyEvent)
      BY ReactionType
    <3>2. inFlight' \in [Verb -> Nat]
      BY <2>6 DEF Accept
    <3>3. outstanding' \in Nat \cup {NoTime}
      BY <2>6 DEF Accept, OutstandingAfter
    <3> QED
      BY <2>6, <3>1, <3>2, <3>3 DEF Accept
  <2>7. CASE WatchdogPoll
    <3>1. /\ Reset(machine).machine \in Machine
          /\ Reset(machine).events \in Seq(HotkeyEvent)
      BY ReactionType
    <3>2. CASE outstanding # NoTime /\ WatchdogExpired(outstanding, clock)
      <4>1. events \o Reset(machine).events \o <<"TapRecovered">> \in Seq(HotkeyEvent)
        BY <3>1 DEF HotkeyEvent
      <4> QED
        BY <2>7, <3>1, <3>2, <4>1 DEF WatchdogPoll
    <3>3. CASE ~(outstanding # NoTime /\ WatchdogExpired(outstanding, clock))
      BY <2>7, <3>3 DEF WatchdogPoll
    <3> QED
      BY <3>2, <3>3
  <2>8. CASE BridgeForward
    BY <2>8 DEF BridgeForward, Mapped
  <2>9. CASE Pause
    BY <2>9 DEF Pause
  <2>10. CASE UNCHANGED vars
    BY <2>10 DEF vars
  <2> QED
    BY <2>1, <2>2, <2>3, <2>4, <2>5, <2>6, <2>7, <2>8, <2>9, <2>10 DEF Next
<1> QED
  BY <1>1, <1>2, PTL DEF Spec

-----------------------------------------------------------------------------
(***************************************************************************)
(* The watchdog.  A press on record was not yet expired at the last poll,  *)
(* and the next poll is at most PollInterval + PollDelay after that one:   *)
(* that is what bounds its age between polls.                              *)
(***************************************************************************)
WatchdogInv ==
  /\ clock <= lastPoll + PollInterval + PollDelay
  /\ lastPoll <= clock
  /\ outstanding # NoTime => /\ outstanding <= clock
                             /\ lastPoll < outstanding + WatchdogTimeout
  /\ WatchdogArmed

\* The invariant above holds in every reachable state.
LEMMA WatchdogInductive == Spec => []WatchdogInv
<1> USE TriggerAssumption
<1>1. Init => WatchdogInv
  BY DEF Init, WatchdogInv, WatchdogArmed, NewMachine
<1>2. TypeOK /\ WatchdogInv /\ [Next]_vars => WatchdogInv'
  <2> SUFFICES ASSUME TypeOK, WatchdogInv, [Next]_vars PROVE WatchdogInv'
    OBVIOUS
  <2> USE DEF TypeOK, WatchdogInv, WatchdogArmed, environment, backend, bridge
  <2>1. CASE Tick
    BY <2>1 DEF Tick
  <2>2. CASE KeyEdge
    BY <2>2 DEF KeyEdge
  <2>3. CASE ToggleBinding
    BY <2>3 DEF ToggleBinding
  <2>4. ASSUME NEW v \in Verb, LoseExec(v) PROVE WatchdogInv'
    BY <2>4 DEF LoseExec
  <2>5. ASSUME NEW v \in Verb, DuplicateExec(v) PROVE WatchdogInv'
    BY <2>5 DEF DuplicateExec
  <2>6. ASSUME NEW v \in Verb, Accept(v) PROVE WatchdogInv'
    <3>1. CASE v = "Press"
      BY <2>6, <3>1 DEF Accept, OutstandingAfter, Verb
    <3>2. CASE v # "Press"
      <4>1. machine'.state \notin {"Pressed", "LatchedPressed"}
        BY <2>6, <3>2 DEF Accept, Verb, Apply, OnKeyUp, OnToggle, Reaction,
                          Unmoved, Machine, MachineState
      <4> QED
        BY <2>6, <3>2, <4>1 DEF Accept, OutstandingAfter
    <3> QED
      BY <3>1, <3>2
  <2>7. CASE WatchdogPoll
    <3>1. CASE outstanding # NoTime /\ WatchdogExpired(outstanding, clock)
      BY <2>7, <3>1 DEF WatchdogPoll, Reset, Reaction
    <3>2. CASE ~(outstanding # NoTime /\ WatchdogExpired(outstanding, clock))
      BY <2>7, <3>2 DEF WatchdogPoll, WatchdogExpired
    <3> QED
      BY <3>1, <3>2
  <2>8. CASE BridgeForward
    BY <2>8 DEF BridgeForward
  <2>9. CASE Pause
    BY <2>9 DEF Pause
  <2>10. CASE UNCHANGED vars
    BY <2>10 DEF vars
  <2> QED
    BY <2>1, <2>2, <2>3, <2>4, <2>5, <2>6, <2>7, <2>8, <2>9, <2>10 DEF Next
<1> QED
  BY <1>1, <1>2, TypeCorrect, PTL DEF Spec

\* Whenever the machine believes the key is down, a press is on record for the
\* watchdog to give up on (backend/linux.rs, "A lost RELEASE").
THEOREM WatchdogAlwaysArmed == Spec => []WatchdogArmed
<1>1. WatchdogInv => WatchdogArmed
  BY DEF WatchdogInv
<1> QED
  BY <1>1, WatchdogInductive, PTL

\* A press without its release is given up on within the timeout and one poll.
THEOREM LostReleaseRecovers == Spec => []OutstandingBounded
<1>1. TypeOK /\ WatchdogInv => OutstandingBounded
  BY TriggerAssumption DEF TypeOK, WatchdogInv, OutstandingBounded
<1> QED
  BY <1>1, TypeCorrect, WatchdogInductive, PTL

\* Whatever is lost, doubled or reordered, a stuck press is on record and given up on in time.
THEOREM StuckPressAlwaysRecovers == Spec => []StuckPressRecovers
  BY WatchdogAlwaysArmed, LostReleaseRecovers, PTL DEF StuckPressRecovers

-----------------------------------------------------------------------------
(***************************************************************************)
(* The channel.  Settles under the three things that happen to a channel:  *)
(* an event is appended, a prefix of it is looked at, its head is drained. *)
(***************************************************************************)
Edge == {"KeyDown", "KeyUp"}

\* What is appended does not change what a prefix settles to.
LEMMA SettlesPrefix ==
  ASSUME NEW s \in Seq(HotkeyEvent), NEW x \in HotkeyEvent,
         NEW e \in Edge, NEW t \in Edge, NEW n \in 0..Len(s)
  PROVE  Settles(e, t, Append(s, x), n) <=> Settles(e, t, s, n)
<1>1. \A i \in 1..n : Append(s, x)[i] = s[i]
  OBVIOUS
<1> QED
  BY <1>1 DEF Settles

\* An appended event decides, unless it maps to nothing.
LEMMA SettlesAppend ==
  ASSUME NEW s \in Seq(HotkeyEvent), NEW x \in HotkeyEvent,
         NEW e \in Edge, NEW t \in Edge,
         \/ Mapped(x) = e
         \/ Mapped(x) = "nothing" /\ Settles(e, t, s, Len(s))
  PROVE  Settles(e, t, Append(s, x), Len(s) + 1)
<1>1. /\ Append(s, x)[Len(s) + 1] = x
      /\ \A i \in 1..Len(s) : Append(s, x)[i] = s[i]
  OBVIOUS
<1>2. CASE Mapped(x) = e
  BY <1>1, <1>2 DEF Settles
<1>3. CASE Mapped(x) = "nothing" /\ Settles(e, t, s, Len(s))
  <2>1. \A i \in 1..Len(s) + 1 : i \in 1..Len(s) \/ i = Len(s) + 1
    OBVIOUS
  <2>2. CASE t = e /\ \A j \in 1..Len(s) : Mapped(s[j]) = "nothing"
    BY <1>1, <1>3, <2>1, <2>2 DEF Settles
  <2>3. ASSUME NEW i \in 1..Len(s), Mapped(s[i]) = e,
               \A j \in i+1..Len(s) : Mapped(s[j]) = "nothing"
        PROVE  Settles(e, t, Append(s, x), Len(s) + 1)
    <3>1. \A j \in i+1..Len(s)+1 : Mapped(Append(s, x)[j]) = "nothing"
      BY <1>1, <1>3, <2>3
    <3>2. i \in 1..Len(s) + 1 /\ Mapped(Append(s, x)[i]) = e
      BY <1>1, <2>3
    <3> QED
      BY <3>1, <3>2 DEF Settles
  <2> QED
    BY <1>3, <2>2, <2>3 DEF Settles
<1> QED
  BY <1>2, <1>3

\* Draining the head: the supervisor is told its edge, or a key-down is dropped.
LEMMA SettlesDrain ==
  ASSUME NEW s \in Seq(HotkeyEvent), s # <<>>,
         NEW e \in Edge, NEW t \in Edge, NEW u \in Edge, NEW n \in 1..Len(s),
         \/ u = Mapped(Head(s))
         \/ u = t /\ Mapped(Head(s)) # e,
         Settles(e, t, s, n)
  PROVE  Settles(e, u, Tail(s), n - 1)
<1>1. \A i \in 1..n - 1 : Tail(s)[i] = s[i + 1]
  OBVIOUS
<1>2. Head(s) = s[1]
  OBVIOUS
<1>3. CASE t = e /\ \A j \in 1..n : Mapped(s[j]) = "nothing"
  <2>1. Mapped(Head(s)) = "nothing"
    BY <1>2, <1>3
  <2>2. u = e
    BY <1>3, <2>1 DEF Edge
  <2>3. \A j \in 1..n - 1 : Mapped(Tail(s)[j]) = "nothing"
    BY <1>1, <1>3
  <2> QED
    BY <2>2, <2>3 DEF Settles
<1>4. ASSUME NEW i \in 1..n, Mapped(s[i]) = e,
             \A j \in i+1..n : Mapped(s[j]) = "nothing"
      PROVE  Settles(e, u, Tail(s), n - 1)
  <2>1. \A j \in i..n - 1 : Mapped(Tail(s)[j]) = "nothing"
    BY <1>1, <1>4
  <2>2. CASE i = 1
    BY <1>2, <1>4, <2>1, <2>2 DEF Settles
  <2>3. CASE i # 1
    <3>1. i - 1 \in 1..n - 1 /\ Mapped(Tail(s)[i - 1]) = e
      BY <1>1, <1>4, <2>3
    <3>2. \A j \in (i - 1) + 1..n - 1 : Mapped(Tail(s)[j]) = "nothing"
      BY <2>1
    <3> QED
      BY <3>1, <3>2 DEF Settles
  <2> QED
    BY <2>2, <2>3
<1> QED
  BY <1>3, <1>4 DEF Settles

-----------------------------------------------------------------------------
(***************************************************************************)
(* The machine's side.  What a call emits and what it does to CaptureLive  *)
(* always agree; that is the whole content of the safety of the channel.   *)
(***************************************************************************)
Agrees(live, es, live2) ==
  \/ es = <<>> /\ live2 = live
  \/ es = <<"Pressed">> /\ ~live /\ live2
  \/ es = <<"Pressed", "Latched">> /\ ~live /\ live2
  \/ es = <<"Latched">> /\ live /\ live2
  \/ es = <<"Released">> /\ ~live2
  \/ es = <<"Unlatched">> /\ ~live2

\* Every operation of TapHold announces what it does.
LEMMA ReactionAgrees ==
  ASSUME NEW m \in Machine, NEW now \in Nat, NEW r,
         \/ \E v \in Verb : r = Apply(m, v, now)
         \/ r = Reset(m)
  PROVE  Agrees(CaptureLive(m), r.events, CaptureLive(r.machine))
<1> USE DEF Machine, MachineState, Reaction, Unmoved, CaptureLive
<1>1. Agrees(CaptureLive(m), OnKeyDown(m, now).events,
             CaptureLive(OnKeyDown(m, now).machine))
  BY DEF OnKeyDown, Agrees
<1>2. Agrees(CaptureLive(m), OnKeyUp(m, now).events,
             CaptureLive(OnKeyUp(m, now).machine))
  <2>1. CASE m.state = "Pressed"
    BY <2>1 DEF OnKeyUp, Agrees
  <2>2. CASE m.state # "Pressed"
    BY <2>2 DEF OnKeyUp, Agrees
  <2> QED
    BY <2>1, <2>2
<1>3. Agrees(CaptureLive(m), OnToggle(m).events, CaptureLive(OnToggle(m).machine))
  BY DEF OnToggle, Agrees
<1>4. Agrees(CaptureLive(m), Reset(m).events, CaptureLive(Reset(m).machine))
  BY DEF Reset, Capturing, Agrees
<1> QED
  BY <1>1, <1>2, <1>3, <1>4 DEF Apply, Verb

\* The invariant of the channel s from a supervisor last told t to a machine
\* that is capturing or not.
Channel(t, s, live) ==
  /\ live \/ Settles("KeyUp", t, s, Len(s))
  /\ \A i \in 1..Len(s) : s[i] = "Pressed" => Settles("KeyUp", t, s, i - 1)

\* Appending one event keeps the invariant if the event is a Pressed only after
\* a commit, and decides for the machine or says nothing.
LEMMA ChannelAppend ==
  ASSUME NEW t \in Edge, NEW s \in Seq(HotkeyEvent), NEW x \in HotkeyEvent,
         NEW live \in BOOLEAN, NEW live2 \in BOOLEAN,
         Channel(t, s, live),
         x = "Pressed" => ~live,
         live2 \/ Mapped(x) = "KeyUp" \/ (Mapped(x) = "nothing" /\ ~live)
  PROVE  Channel(t, Append(s, x), live2)
<1>1. /\ Len(Append(s, x)) = Len(s) + 1
      /\ Append(s, x)[Len(s) + 1] = x
      /\ \A i \in 1..Len(s) : Append(s, x)[i] = s[i]
  OBVIOUS
<1>2. live2 \/ Settles("KeyUp", t, Append(s, x), Len(s) + 1)
  BY SettlesAppend DEF Channel, Edge
<1>3. ASSUME NEW i \in 1..Len(s) + 1, Append(s, x)[i] = "Pressed"
      PROVE  Settles("KeyUp", t, Append(s, x), i - 1)
  <2>1. i - 1 \in 0..Len(s)
    OBVIOUS
  <2>2. CASE i \in 1..Len(s)
    BY <1>1, <1>3, <2>1, <2>2, SettlesPrefix DEF Channel, Edge
  <2>3. CASE i = Len(s) + 1
    BY <1>1, <1>3, <2>1, <2>3, SettlesPrefix DEF Channel, Edge
  <2> QED
    BY <2>2, <2>3
<1> QED
  BY <1>1, <1>2, <1>3 DEF Channel

\* Sending what a call emits keeps the invariant.
LEMMA ChannelSend ==
  ASSUME NEW t \in Edge, NEW s \in Seq(HotkeyEvent), NEW es \in Seq(HotkeyEvent),
         NEW live \in BOOLEAN, NEW live2 \in BOOLEAN,
         Channel(t, s, live), Agrees(live, es, live2)
  PROVE  Channel(t, s \o es, live2)
<1> USE DEF HotkeyEvent
<1>1. CASE es = <<>>
  <2>1. s \o es = s
    BY <1>1
  <2>2. live2 = live
    BY <1>1 DEF Agrees
  <2> QED
    BY <2>1, <2>2
<1>2. ASSUME NEW x \in HotkeyEvent, es = <<x>>,
             x = "Pressed" => ~live,
             live2 \/ Mapped(x) = "KeyUp"
      PROVE  Channel(t, s \o es, live2)
  <2>1. s \o es = Append(s, x)
    BY <1>2
  <2> QED
    BY <1>2, <2>1, ChannelAppend
<1>3. CASE es = <<"Pressed", "Latched">> /\ ~live /\ live2
  <2>1. s \o es = Append(Append(s, "Pressed"), "Latched")
    BY <1>3
  <2>2. Channel(t, Append(s, "Pressed"), TRUE)
    BY <1>3, ChannelAppend
  <2>3. Append(s, "Pressed") \in Seq(HotkeyEvent)
    OBVIOUS
  <2>4. Channel(t, Append(Append(s, "Pressed"), "Latched"), TRUE)
    BY <2>2, <2>3, ChannelAppend
  <2> QED
    BY <1>3, <2>1, <2>4
<1>4. CASE es = <<"Pressed">> /\ ~live /\ live2
  BY <1>2, <1>4
<1>5. CASE es = <<"Latched">> /\ live /\ live2
  BY <1>2, <1>5
<1>6. CASE es = <<"Released">> /\ ~live2
  BY <1>2, <1>6 DEF Mapped, Commits
<1>7. CASE es = <<"Unlatched">> /\ ~live2
  BY <1>2, <1>7 DEF Mapped, Commits
<1> QED
  BY <1>1, <1>3, <1>4, <1>5, <1>6, <1>7 DEF Agrees

ChannelInv == Channel(told, events, CaptureLive(machine))

\* The invariant holds in every reachable state.
LEMMA ChannelInductive == Spec => []ChannelInv
<1>1. Init => ChannelInv
  BY DEF Init, ChannelInv, Channel, Settles
<1>2. TypeOK /\ ChannelInv /\ [Next]_vars => ChannelInv'
  <2> SUFFICES ASSUME TypeOK, ChannelInv, [Next]_vars PROVE ChannelInv'
    OBVIOUS
  <2> USE DEF environment, backend, bridge
  <2>1. CASE UNCHANGED <<told, events, machine>>
    BY <2>1 DEF ChannelInv
  <2>2. ASSUME NEW v \in Verb, Accept(v) PROVE ChannelInv'
    <3> DEFINE r == Apply(machine, v, clock)
    <3>1. r.events \in Seq(HotkeyEvent)
      BY ReactionType DEF TypeOK
    <3>2. Agrees(CaptureLive(machine), r.events, CaptureLive(r.machine))
      BY ReactionAgrees DEF TypeOK
    <3> DEFINE live  == CaptureLive(machine)
    <3> DEFINE live2 == CaptureLive(r.machine)
    <3>3. Channel(told, events \o r.events, CaptureLive(r.machine))
      <4>1. /\ told \in Edge /\ events \in Seq(HotkeyEvent)
            /\ live \in BOOLEAN /\ live2 \in BOOLEAN
        BY DEF TypeOK, Edge, CaptureLive
      <4>2. Channel(told, events, live)
        BY DEF ChannelInv
      <4> HIDE DEF r, live, live2
      <4>3. Channel(told, events \o r.events, live2)
        BY <3>1, <3>2, <4>1, <4>2, ChannelSend DEF live, live2
      <4> QED
        BY <4>3 DEF live2
    <3> QED
      BY <2>2, <3>3 DEF Accept, ChannelInv
  <2>3. CASE WatchdogPoll
    <3> DEFINE r == Reset(machine)
    <3>1. r.events \in Seq(HotkeyEvent)
      BY ReactionType DEF TypeOK
    <3>2. Agrees(CaptureLive(machine), r.events, CaptureLive(r.machine))
      BY ReactionAgrees DEF TypeOK
    <3> DEFINE live  == CaptureLive(machine)
    <3> DEFINE live2 == CaptureLive(r.machine)
    <3>3. Channel(told, events \o r.events, CaptureLive(r.machine))
      <4>1. /\ told \in Edge /\ events \in Seq(HotkeyEvent)
            /\ live \in BOOLEAN /\ live2 \in BOOLEAN
        BY DEF TypeOK, Edge, CaptureLive
      <4>2. Channel(told, events, live)
        BY DEF ChannelInv
      <4> HIDE DEF r, live, live2
      <4>3. Channel(told, events \o r.events, live2)
        BY <3>1, <3>2, <4>1, <4>2, ChannelSend DEF live, live2
      <4> QED
        BY <4>3 DEF live2
    <3>4. events \o r.events \in Seq(HotkeyEvent)
      BY <3>1 DEF TypeOK
    <3>5. events \o r.events \o <<"TapRecovered">>
            = Append(events \o r.events, "TapRecovered")
      BY <3>1, <3>4
    <3>6. ~CaptureLive(r.machine)
      BY DEF Reset, Reaction, CaptureLive
    <3>7. "TapRecovered" \in HotkeyEvent /\ Mapped("TapRecovered") = "nothing"
      BY DEF HotkeyEvent, Mapped, Commits
    <3>8. Channel(told, Append(events \o r.events, "TapRecovered"), FALSE)
      <4>1. told \in Edge
        BY DEF TypeOK, Edge
      <4> DEFINE s == events \o r.events
      <4>2. s \in Seq(HotkeyEvent) /\ Channel(told, s, FALSE)
        <5>1. live2 = FALSE
          BY <3>6 DEF CaptureLive
        <5> QED
          BY <3>3, <3>4, <5>1
      <4> HIDE DEF s
      <4> QED
        BY <3>7, <4>1, <4>2, ChannelAppend DEF s
    <3>9. CASE outstanding # NoTime /\ WatchdogExpired(outstanding, clock)
      <4>1. /\ told' = told
            /\ events' = Append(events \o r.events, "TapRecovered")
            /\ ~CaptureLive(machine)'
        BY <2>3, <3>5, <3>6, <3>9 DEF WatchdogPoll, CaptureLive
      <4>2. CaptureLive(machine)' = FALSE
        BY <4>1 DEF CaptureLive
      <4> QED
        BY <3>8, <4>1, <4>2 DEF ChannelInv
    <3>10. CASE ~(outstanding # NoTime /\ WatchdogExpired(outstanding, clock))
      BY <2>1, <2>3, <3>10 DEF WatchdogPoll
    <3> QED
      BY <3>9, <3>10
  <2>4. CASE BridgeForward
    <3>1. /\ events # <<>> /\ events' = Tail(events)
          /\ UNCHANGED machine
          /\ told' \in Edge
          /\ told' = Mapped(Head(events)) \/ (told' = told /\ Mapped(Head(events)) # "KeyUp")
      BY <2>4 DEF BridgeForward, Mapped, TypeOK, Edge
    <3>2. ASSUME NEW n \in 1..Len(events), Settles("KeyUp", told, events, n)
          PROVE  Settles("KeyUp", told', events', n - 1)
      BY <3>1, <3>2, SettlesDrain DEF TypeOK, Edge
    <3>3. Len(events) \in 1..Len(events) /\ Len(events') = Len(events) - 1
      BY <3>1 DEF TypeOK
    <3>4. CaptureLive(machine)' \/ Settles("KeyUp", told', events', Len(events'))
      BY <3>1, <3>2, <3>3 DEF ChannelInv, Channel, CaptureLive
    <3>5. ASSUME NEW i \in 1..Len(events'), events'[i] = "Pressed"
          PROVE  Settles("KeyUp", told', events', i - 1)
      <4>1. i + 1 \in 1..Len(events) /\ events[i + 1] = "Pressed"
        BY <3>1, <3>3, <3>5 DEF TypeOK
      <4>2. Settles("KeyUp", told, events, i) /\ i \in 1..Len(events)
        BY <3>3, <4>1 DEF ChannelInv, Channel
      <4> QED
        BY <3>2, <4>2
    <3> QED
      BY <3>4, <3>5 DEF ChannelInv, Channel
  <2>5. CASE Tick
    BY <2>1, <2>5 DEF Tick
  <2>6. CASE KeyEdge
    BY <2>1, <2>6 DEF KeyEdge
  <2>7. CASE ToggleBinding
    BY <2>1, <2>7 DEF ToggleBinding
  <2>8. ASSUME NEW v \in Verb, LoseExec(v) \/ DuplicateExec(v) PROVE ChannelInv'
    BY <2>1, <2>8 DEF LoseExec, DuplicateExec
  <2>9. CASE Pause
    BY <2>1, <2>9 DEF Pause
  <2>10. CASE UNCHANGED vars
    BY <2>1, <2>10 DEF vars
  <2> QED
    BY <2>2, <2>3, <2>4, <2>5, <2>6, <2>7, <2>8, <2>9, <2>10 DEF Next
<1> QED
  BY <1>1, <1>2, TypeCorrect, PTL DEF Spec

\* The supervisor is never left believing in a capture the machine has ended,
\* whatever is lost, doubled, reordered or dropped by a pause.
THEOREM NoOrphanedCapture == Spec => []NoOrphanCapture
<1>1. ChannelInv => NoOrphanCapture
  BY DEF ChannelInv, Channel, NoOrphanCapture
<1> QED
  BY <1>1, ChannelInductive, PTL

\* Every key-down the supervisor is sent comes after a commit.
THEOREM PressesAlwaysAlternate == Spec => []PressesAlternate
<1>1. ChannelInv => PressesAlternate
  BY DEF ChannelInv, Channel, PressesAlternate
<1> QED
  BY <1>1, ChannelInductive, PTL

\* Every capture the supervisor is told of begins once and ends.
THEOREM CapturesAlwaysPaired == Spec => []CapturesPaired
  BY NoOrphanedCapture, PressesAlwaysAlternate, PTL DEF CapturesPaired

-----------------------------------------------------------------------------
(***************************************************************************)
(* A capture that is on is one the supervisor knows of or will be told of, *)
(* as long as nobody has paused the daemon.                                *)
(***************************************************************************)
\* Sending what a call emits leaves a live capture told.
LEMMA LiveSend ==
  ASSUME NEW t \in Edge, NEW s \in Seq(HotkeyEvent), NEW es \in Seq(HotkeyEvent),
         NEW live \in BOOLEAN, NEW live2 \in BOOLEAN, Agrees(live, es, live2), live2,
         live => Settles("KeyDown", t, s, Len(s))
  PROVE  Settles("KeyDown", t, s \o es, Len(s \o es))
<1>0. "KeyDown" \in Edge /\ "Pressed" \in HotkeyEvent /\ "Latched" \in HotkeyEvent
      /\ Mapped("Pressed") = "KeyDown" /\ Mapped("Latched") = "nothing"
  BY DEF Edge, HotkeyEvent, Mapped, Commits
<1>1. CASE es = <<>>
  <2>1. s \o es = s
    BY <1>1
  <2>2. live = live2
    BY <1>1 DEF Agrees
  <2> QED
    BY <2>1, <2>2
<1>2. CASE es = <<"Pressed">>
  <2>1. s \o es = Append(s, "Pressed") /\ Len(s \o es) = Len(s) + 1
    BY <1>0, <1>2
  <2> QED
    BY <1>0, <2>1, SettlesAppend
<1>3. CASE es = <<"Pressed", "Latched">>
  <2> DEFINE q == Append(s, "Pressed")
  <2>1. s \o es = Append(q, "Latched") /\ Len(s \o es) = Len(q) + 1 /\ q \in Seq(HotkeyEvent) /\ Len(q) = Len(s) + 1
    BY <1>0, <1>3
  <2>2. Settles("KeyDown", t, q, Len(q))
    BY <1>0, <2>1, SettlesAppend
  <2> HIDE DEF q
  <2> QED
    BY <1>0, <2>1, <2>2, SettlesAppend
<1>4. CASE es = <<"Latched">> /\ live
  <2>1. s \o es = Append(s, "Latched") /\ Len(s \o es) = Len(s) + 1
    BY <1>0, <1>4
  <2> QED
    BY <1>0, <1>4, <2>1, SettlesAppend
<1> QED
  BY <1>1, <1>2, <1>3, <1>4 DEF Agrees

LiveInv == everPaused \/ (enabled /\ LiveCaptureIsTold)

\* A step of the trigger keeps it.
LEMMA LiveStep ==
  ASSUME TypeOK, LiveInv, Next, everPaused' = (everPaused \/ ~enabled')
  PROVE  LiveInv'
<1> SUFFICES ASSUME ~everPaused' PROVE LiveInv'
  BY DEF LiveInv
<1>0. enabled' /\ enabled /\ LiveCaptureIsTold
  BY DEF LiveInv
<1> USE DEF environment, backend, bridge
<1>1. CASE UNCHANGED <<told, events, machine>>
  BY <1>0, <1>1 DEF LiveInv, LiveCaptureIsTold
<1>2. ASSUME NEW v \in Verb, Accept(v) PROVE LiveInv'
  <2> DEFINE r == Apply(machine, v, clock)
  <2> DEFINE live  == CaptureLive(machine)
  <2> DEFINE live2 == CaptureLive(r.machine)
  <2>1. r.events \in Seq(HotkeyEvent) /\ Agrees(live, r.events, live2)
    BY ReactionType, ReactionAgrees DEF TypeOK
  <2>2. told \in Edge /\ events \in Seq(HotkeyEvent) /\ live \in BOOLEAN /\ live2 \in BOOLEAN
    BY DEF TypeOK, Edge, CaptureLive
  <2>3. live => Settles("KeyDown", told, events, Len(events))
    BY <1>0 DEF LiveCaptureIsTold
  <2>4. told' = told /\ machine' = r.machine /\ events' = events \o r.events
    BY <1>2 DEF Accept
  <2>5. CaptureLive(machine)' = live2
    BY <2>4 DEF CaptureLive
  <2> HIDE DEF r, live, live2
  <2>6. live2 => Settles("KeyDown", told, events \o r.events, Len(events \o r.events))
    BY <2>1, <2>2, <2>3, LiveSend
  <2> QED
    BY <1>0, <2>4, <2>5, <2>6 DEF LiveInv, LiveCaptureIsTold
<1>3. CASE WatchdogPoll
  <2>1. CASE outstanding # NoTime /\ WatchdogExpired(outstanding, clock)
    <3>1. ~CaptureLive(machine')
      BY <1>3, <2>1 DEF WatchdogPoll, Reset, Reaction, CaptureLive
    <3> QED
      BY <1>0, <3>1 DEF LiveInv, LiveCaptureIsTold, CaptureLive
  <2>2. CASE ~(outstanding # NoTime /\ WatchdogExpired(outstanding, clock))
    BY <1>1, <1>3, <2>2 DEF WatchdogPoll
  <2> QED
    BY <2>1, <2>2
<1>4. CASE BridgeForward
  <2>1. /\ events # <<>> /\ events' = Tail(events) /\ UNCHANGED machine
        /\ told' \in Edge
        /\ told' = Mapped(Head(events)) \/ (told' = told /\ Mapped(Head(events)) # "KeyDown")
    BY <1>0, <1>4 DEF BridgeForward, Mapped, TypeOK, Edge
  <2>2. Len(events) \in 1..Len(events) /\ Len(events') = Len(events) - 1
    BY <2>1 DEF TypeOK
  <2>3. ASSUME Settles("KeyDown", told, events, Len(events))
        PROVE  Settles("KeyDown", told', events', Len(events'))
    BY <2>1, <2>2, <2>3, SettlesDrain DEF TypeOK, Edge
  <2> QED
    BY <1>0, <2>1, <2>3 DEF LiveInv, LiveCaptureIsTold, CaptureLive
<1>5. CASE Tick \/ KeyEdge \/ ToggleBinding \/ Pause
  BY <1>1, <1>5 DEF Tick, KeyEdge, ToggleBinding, Pause
<1>6. ASSUME NEW v \in Verb, LoseExec(v) \/ DuplicateExec(v) PROVE LiveInv'
  BY <1>1, <1>6 DEF LoseExec, DuplicateExec
<1> QED
  BY <1>2, <1>3, <1>4, <1>5, <1>6 DEF Next

-----------------------------------------------------------------------------
(***************************************************************************)
(* The tap and the hook.  The callback runs under one lock and moves three *)
(* things, the matcher's bit, the machine and the consumer; the invariant  *)
(* is that they agree, and that the bit is about a key that is down.       *)
(***************************************************************************)
HookTypes ==
  /\ hookOs \in {"macos", "windows"}
  /\ binding \in Chord
  /\ IF hookOs = "macos" THEN MacBindable(binding) ELSE WinBindable(binding)
  /\ matcher.down \in BOOLEAN /\ tapHold \in Machine
  /\ listening \in BOOLEAN /\ struck \in BOOLEAN /\ missed \in BOOLEAN

\* The matcher's bit is the machine's press, of a key that is down; and only Windows
\* loses keystrokes to more than a tap that is off.
HookInv ==
  /\ HookTypes
  /\ ConsumerIsTold
  /\ ~missed => (Pressing <=> matcher.down) /\ (matcher.down => BoundKey \in held)
  /\ hookOs = "macos" => /\ ~poisoned /\ ~unseen /\ hooked \in {0, 1}
                         /\ ~missed => (matcher.down <=> struck)
                         /\ missed => hooked = 0

\* The keys by what they are.
LEMMA KeysDiffer ==
  /\ SideKeys = {"left-shift", "right-shift", "left-option", "right-option"}
  /\ "fn" \notin SideKeys /\ "space" \notin SideKeys /\ NoKey \notin SideKeys
  /\ NoKey \notin PlainKeys /\ "fn" \notin PlainKeys /\ "space" \in PlainKeys
  /\ \A k \in PlainKeys : k \notin SideKeys
  /\ \A k \in SideKeys : k \notin Modifiers /\ Generic[k] \in {"shift", "alt"}
  BY DEF SideKeys, Generic, NoKey, PlainKeys, FunctionRow, Modifiers

\* What an edge makes of the bit that says the chord is down.
Follows(edge, down, now) ==
  \/ edge = "none" /\ now = down
  \/ edge = "down" /\ now = TRUE
  \/ edge = "up" /\ now = FALSE

\* The machine presses on a down, stops pressing on an up, and its consumer is told.
LEMMA Reacts ==
  ASSUME tapHold \in Machine, listening \in BOOLEAN, ConsumerIsTold,
         NEW edge \in {"none", "down", "up"}, NEW late \in BOOLEAN, React(edge, late)
  PROVE  /\ tapHold' \in Machine /\ listening' \in BOOLEAN /\ ConsumerIsTold'
         /\ edge = "none" => tapHold' = tapHold
         /\ edge = "down" => Pressing'
         /\ edge = "up" => ~Pressing'
<1>0. /\ tapHold.state \in MachineState /\ tapHold.downAt \in Nat
      /\ listening = CaptureLive(tapHold)
  BY DEF Machine, ConsumerIsTold
<1> DEFINE t == IF late THEN TapThreshold ELSE 0
<1>1. t \in Nat
  BY TapThresholdAssumption
<1> HIDE DEF t
<1>9. ASSUME listening' = FALSE, tapHold'.state \in {"Idle", "LatchedPressed"}
      PROVE  ConsumerIsTold'
  <2>1. ~CaptureLive(tapHold')
    BY <1>9 DEF CaptureLive
  <2>2. CaptureLive(tapHold') = FALSE
    BY <2>1 DEF CaptureLive
  <2> QED
    BY <1>9, <2>2 DEF ConsumerIsTold, CaptureLive
<1>2. Heard(<<>>) = listening
  BY DEF Heard
<1>3. ASSUME NEW e, Commits(e) PROVE Heard(<<e>>) = FALSE
  <2>1. <<e>> # <<>> /\ \E i \in 1..Len(<<e>>) : Commits(<<e>>[i])
    BY <1>3
  <2>2. ~ \E i \in 1..Len(<<e>>) : <<e>>[i] = "Pressed"
    BY <1>3 DEF Commits
  <2> QED
    BY <2>1, <2>2, Zenon DEF Heard
<1>4. Heard(<<"Pressed">>) = TRUE
  <2>1. <<"Pressed">> # <<>> /\ \E i \in 1..Len(<<"Pressed">>) : <<"Pressed">>[i] = "Pressed"
    OBVIOUS
  <2>2. ~ \E i \in 1..Len(<<"Pressed">>) : Commits(<<"Pressed">>[i])
    BY DEF Commits
  <2> QED
    BY <2>1, <2>2, Zenon DEF Heard
<1>5. Heard(<<"Latched">>) = listening
  <2>1. /\ <<"Latched">> # <<>>
        /\ ~ \E i \in 1..Len(<<"Latched">>) : <<"Latched">>[i] = "Pressed"
        /\ ~ \E i \in 1..Len(<<"Latched">>) : Commits(<<"Latched">>[i])
    BY DEF Commits
  <2> QED
    BY <2>1, Zenon DEF Heard
<1>6. CASE edge = "none"
  <2>1. tapHold' = tapHold /\ listening' = listening
    BY <1>2, <1>6 DEF React, Unmoved
  <2> QED
    BY <1>0, <1>6, <2>1 DEF ConsumerIsTold, CaptureLive
<1>7. CASE edge = "down"
  <2>1. tapHold' = OnKeyDown(tapHold, 0).machine /\ listening' = Heard(OnKeyDown(tapHold, 0).events)
    BY <1>7 DEF React
  <2>2. CASE tapHold.state = "Idle"
    <3>1. tapHold' = [state |-> "Pressed", downAt |-> 0] /\ listening' = TRUE
      BY <1>4, <2>1, <2>2 DEF OnKeyDown, Reaction
    <3> QED
      BY <1>7, <3>1 DEF Machine, MachineState, ConsumerIsTold, CaptureLive, Pressing
  <2>3. CASE tapHold.state = "Latched"
    <3>1. tapHold' = [state |-> "LatchedPressed", downAt |-> 0] /\ listening' = FALSE
      BY <1>3, <2>1, <2>3 DEF OnKeyDown, Reaction, Commits
    <3> QED
      BY <1>7, <1>9, <3>1 DEF Machine, MachineState, Pressing
  <2>4. CASE tapHold.state \in {"Pressed", "LatchedPressed"}
    <3>1. tapHold' = tapHold /\ listening' = listening
      BY <1>2, <2>1, <2>4 DEF OnKeyDown, Unmoved
    <3> QED
      BY <1>0, <1>7, <2>4, <3>1 DEF ConsumerIsTold, CaptureLive, Pressing
  <2> QED
    BY <1>0, <2>2, <2>3, <2>4 DEF MachineState
<1>8. CASE edge = "up"
  <2>1. tapHold' = OnKeyUp(tapHold, t).machine /\ listening' = Heard(OnKeyUp(tapHold, t).events)
    BY <1>8 DEF React, t
  <2>2. CASE tapHold.state = "Pressed"
    <3>1. \/ tapHold' = [state |-> "Latched", downAt |-> 0] /\ listening' = listening
          \/ tapHold' = [state |-> "Idle", downAt |-> 0] /\ listening' = FALSE
      <4>1. CASE t - tapHold.downAt < TapThreshold
        BY <1>5, <2>1, <2>2, <4>1 DEF OnKeyUp, Reaction
      <4>2. CASE ~(t - tapHold.downAt < TapThreshold)
        BY <1>3, <2>1, <2>2, <4>2 DEF OnKeyUp, Reaction, Commits
      <4> QED
        BY <4>1, <4>2
    <3>2. listening = TRUE
      BY <1>0, <2>2 DEF CaptureLive
    <3>3. CASE tapHold' = [state |-> "Latched", downAt |-> 0] /\ listening' = listening
      BY <1>8, <3>2, <3>3 DEF Machine, MachineState, ConsumerIsTold, CaptureLive, Pressing
    <3>4. CASE tapHold' = [state |-> "Idle", downAt |-> 0] /\ listening' = FALSE
      BY <1>8, <1>9, <3>4 DEF Machine, MachineState, Pressing
    <3> QED
      BY <3>1, <3>3, <3>4
  <2>3. CASE tapHold.state = "LatchedPressed"
    <3>1. tapHold' = [state |-> "Idle", downAt |-> 0] /\ listening' = listening
      BY <1>2, <2>1, <2>3 DEF OnKeyUp, Reaction
    <3>2. listening = FALSE
      BY <1>0, <2>3 DEF CaptureLive
    <3> QED
      BY <1>8, <1>9, <3>1, <3>2 DEF Machine, MachineState, Pressing
  <2>4. CASE tapHold.state \in {"Idle", "Latched"}
    <3>1. tapHold' = tapHold /\ listening' = listening
      BY <1>2, <2>1, <2>4 DEF OnKeyUp, Unmoved
    <3> QED
      BY <1>0, <1>8, <2>4, <3>1 DEF ConsumerIsTold, CaptureLive, Pressing
  <2> QED
    BY <1>0, <2>2, <2>3, <2>4 DEF MachineState
<1> QED
  BY <1>6, <1>7, <1>8

\* Reset leaves no capture, and the consumer with none.
LEMMA ResetTells ==
  ASSUME tapHold \in Machine, listening \in BOOLEAN, ConsumerIsTold, Resets
  PROVE  /\ tapHold' \in Machine /\ listening' \in BOOLEAN /\ ConsumerIsTold'
         /\ ~Pressing' /\ matcher'.down = FALSE /\ missed' = FALSE /\ struck' = FALSE
<1>1. tapHold' = [state |-> "Idle", downAt |-> 0] /\ listening' = Heard(Reset(tapHold).events)
  BY DEF Resets, Reset, Reaction
<1>2. listening' = FALSE
  <2>1. CASE Capturing(tapHold)
    <3>1. Reset(tapHold).events = <<"Released">>
      BY <2>1 DEF Reset, Reaction
    <3>2. <<"Released">> # <<>> /\ \E i \in 1..Len(<<"Released">>) : Commits(<<"Released">>[i])
      BY DEF Commits
    <3>3. ~ \E i \in 1..Len(<<"Released">>) : <<"Released">>[i] = "Pressed"
      OBVIOUS
    <3>4. Heard(<<"Released">>) = FALSE
      BY <3>2, <3>3, Zenon DEF Heard
    <3> QED
      BY <1>1, <3>1, <3>4
  <2>2. CASE ~Capturing(tapHold)
    BY <1>1, <2>2 DEF Reset, Reaction, Heard, Capturing, ConsumerIsTold, CaptureLive
  <2> QED
    BY <2>1, <2>2
<1>3. ConsumerIsTold'
  <2>1. ~CaptureLive(tapHold')
    BY <1>1 DEF CaptureLive
  <2>2. CaptureLive(tapHold') = FALSE
    BY <2>1 DEF CaptureLive
  <2> QED
    BY <1>2, <2>2 DEF ConsumerIsTold, CaptureLive
<1>4. tapHold' \in Machine /\ ~Pressing'
  BY <1>1 DEF Machine, MachineState, Pressing
<1>5. matcher'.down = FALSE /\ missed' = FALSE /\ struck' = FALSE
  BY DEF Resets
<1> QED
  BY <1>2, <1>3, <1>4, <1>5

\* One event through the tap: the edge follows the bit, and the bit follows the key.
LEMMA MacFollows ==
  ASSUME NEW c \in Chord, NEW down \in BOOLEAN, NEW ev
  PROVE  /\ MacFeed(c, down, ev).down \in BOOLEAN
         /\ MacFeed(c, down, ev).edge \in {"none", "down", "up"}
         /\ Follows(MacFeed(c, down, ev).edge, down, MacFeed(c, down, ev).down)
<1> DEFINE Good(f) == f.down \in BOOLEAN /\ f.edge \in {"none", "down", "up"} /\ Follows(f.edge, down, f.down)
<1>1. Good(Silent(down))
  BY DEF Silent, Follows
<1>2. ASSUME NEW now \in BOOLEAN PROVE Good(EdgeFromBit(down, now))
  <2>1. CASE now = down
    BY <2>1 DEF EdgeFromBit, Follows
  <2>2. CASE now # down /\ now = TRUE
    BY <2>2 DEF EdgeFromBit, Follows
  <2>3. CASE now # down /\ now = FALSE
    BY <2>3 DEF EdgeFromBit, Follows
  <2> QED
    BY <2>1, <2>2, <2>3
<1>3. ("fn" \in ev.flags) \in BOOLEAN /\ (c.key \in ev.flags) \in BOOLEAN
  OBVIOUS
<1> DEFINE f == MacFeed(c, down, ev)
<1>4. \/ f = EdgeFromBit(down, "fn" \in ev.flags) \/ f = EdgeFromBit(down, c.key \in ev.flags)
      \/ f = EdgeFromBit(down, TRUE) \/ f = EdgeFromBit(down, FALSE) \/ f = Silent(down)
  BY Zenon DEF MacFeed
<1> HIDE DEF Good, f
<1>5. Good(f)
  BY <1>1, <1>2, <1>3, <1>4
<1> QED
  BY <1>5 DEF Good, f

\* One event through the hook, and the second time through a second hook.
LEMMA WinFollows ==
  ASSUME NEW c \in Chord, NEW m, m.down \in BOOLEAN, NEW code, NEW isDown \in BOOLEAN
  PROVE  LET f == WinFeed(c, m, code, isDown)
             g == WinFeed(c, f.m, code, isDown)
         IN  /\ f.m.down \in BOOLEAN /\ f.edge \in {"none", "down", "up"}
             /\ Follows(f.edge, m.down, f.m.down)
             /\ g.m.down = f.m.down
             /\ f.m.down => m.down \/ (code = c.key /\ isDown)
             /\ code = c.key /\ ~isDown => ~f.m.down
<1> DEFINE f == WinFeed(c, m, code, isDown)
<1> DEFINE g == WinFeed(c, f.m, code, isDown)
<1> DEFINE fires == isDown /\ ~m.down /\ (c.key \in SideKeys \/ m.mods = c.mods)
<1> DEFINE ends == ~isDown /\ m.down
<1>1. /\ f.m.down = IF code = c.key /\ (fires \/ ends) THEN isDown ELSE m.down
      /\ f.m.mods = Tracked(m.mods, code, isDown)
      /\ f.edge = IF code # c.key THEN "none" ELSE IF fires THEN "down" ELSE IF ends THEN "up" ELSE "none"
  BY DEF WinFeed
<1> DEFINE fires2 == isDown /\ ~f.m.down /\ (c.key \in SideKeys \/ f.m.mods = c.mods)
<1> DEFINE ends2 == ~isDown /\ f.m.down
<1>2. g.m.down = IF code = c.key /\ (fires2 \/ ends2) THEN isDown ELSE f.m.down
  BY DEF WinFeed
<1> DEFINE Good == /\ f.m.down \in BOOLEAN /\ f.edge \in {"none", "down", "up"}
                   /\ Follows(f.edge, m.down, f.m.down)
                   /\ g.m.down = f.m.down
                   /\ f.m.down => m.down \/ (code = c.key /\ isDown)
                   /\ code = c.key /\ ~isDown => ~f.m.down
<1> SUFFICES Good
  OBVIOUS
<1> HIDE DEF f, g
<1>3. CASE code # c.key
  <2>1. f.m.down = m.down /\ f.edge = "none" /\ g.m.down = f.m.down
    BY <1>1, <1>2, <1>3
  <2>2. Follows(f.edge, m.down, f.m.down)
    BY <2>1 DEF Follows
  <2>3. f.m.down \in BOOLEAN /\ (f.m.down => m.down)
    BY <2>1
  <2> QED
    BY <1>3, <2>1, <2>2, <2>3, Zenon
<1>4. CASE code = c.key /\ fires
  BY <1>1, <1>2, <1>4 DEF Follows
<1>5. CASE code = c.key /\ ends
  BY <1>1, <1>2, <1>5 DEF Follows
<1>6. CASE code = c.key /\ ~fires /\ ~ends
  <2>1. f.m.down = m.down /\ f.edge = "none" /\ (isDown \/ ~m.down)
    BY <1>1, <1>6
  <2>2. ~fires2
    BY <1>1, <1>6, <2>1 DEF Tracked
  <2> QED
    BY <1>2, <1>6, <2>1, <2>2 DEF Follows
<1> QED
  BY <1>3, <1>4, <1>5, <1>6

\* The event the tap is handed.
TapEvent(k, isDown, now) ==
  [type |-> IF k \in SideKeys \cup {"fn"} THEN "flags" ELSE IF isDown THEN "down" ELSE "up",
   code |-> k, flags |-> GenericOf(now) \cup (now \cap SideKeys)]

\* What a keystroke makes of the bit, now being what is held after it.
BitAfter(k, isDown, now, down, bit) ==
  /\ k # BoundKey => bit = down
  /\ k = BoundKey /\ ~isDown => bit = FALSE
  /\ k = BoundKey /\ isDown => bit = (StruckWith(now) \/ (down /\ k \notin SideKeys \cup {"fn"}))

\* The bit the tap ends with, by the kind of the chord.
LEMMA MacBit ==
  ASSUME binding \in Chord, MacBindable(binding), NEW down \in BOOLEAN, NEW k \in Keyboard, NEW isDown \in BOOLEAN,
         NEW now \in SUBSET Keyboard, isDown <=> k \in now
  PROVE  BitAfter(k, isDown, now, down, MacFeed(binding, down, TapEvent(k, isDown, now)).down)
<1> DEFINE c == binding
<1> DEFINE key == BoundKey
<1> DEFINE ev == TapEvent(k, isDown, now)
<1> DEFINE exact == StruckWith(now)
<1> DEFINE f == MacFeed(c, down, ev)
<1> SUFFICES /\ k # key => f.down = down
             /\ k = key /\ ~isDown => f.down = FALSE
             /\ k = key /\ isDown => f.down = (exact \/ (down /\ k \notin SideKeys \cup {"fn"}))
  BY DEF BitAfter
<1>01. key = IF c.key = NoKey THEN "fn" ELSE c.key
  BY DEF BoundKey
<1>02. exact = (IsBare(c) \/ GenericOf(now) \cap Mask(c) = c.mods)
  BY DEF StruckWith
<1>1. c.mods \in SUBSET Modifiers /\ c.key \in PlainKeys \cup SideKeys \cup {NoKey}
  BY DEF Chord
<1>2. ev.type = (IF k \in SideKeys \cup {"fn"} THEN "flags" ELSE IF isDown THEN "down" ELSE "up") /\ ev.code = k
  BY DEF TapEvent
<1>3. ("fn" \in ev.flags <=> "fn" \in now) /\ (\A s \in SideKeys : s \in ev.flags <=> s \in now)
  <2>1. ev.flags = GenericOf(now) \cup (now \cap SideKeys)
    BY DEF TapEvent
  <2>2. \A x \in {Generic[s] : s \in now \cap SideKeys} : x \in {"shift", "alt"}
    BY KeysDiffer
  <2>3. "fn" \in GenericOf(now) <=> "fn" \in now
    BY <2>2, KeysDiffer DEF GenericOf
  <2>4. \A s \in SideKeys : s \notin GenericOf(now)
    BY <2>2, KeysDiffer DEF GenericOf, Modifiers
  <2> QED
    BY <2>1, <2>3, <2>4, KeysDiffer
<1>4. ev.flags \cap Mask(c) = GenericOf(now) \cap Mask(c)
  BY KeysDiffer DEF Mask, TapEvent
<1> HIDE DEF ev, key, exact
<1>5. CASE c.key = NoKey
  <2>1. IsBare(c) /\ key = "fn"
    BY <1>01, <1>5, KeysDiffer DEF MacBindable, MacKeys, IsBare
  <2>2. CASE k = "fn"
    <3>1. ev.type = "flags" /\ ev.code = "fn"
      BY <1>2, <2>2
    <3>2. f = EdgeFromBit(down, "fn" \in ev.flags)
      BY <1>5, <3>1, KeysDiffer, Zenon DEF MacFeed
    <3>3. f.down = ("fn" \in ev.flags)
      BY <3>2 DEF EdgeFromBit
    <3> QED
      BY <1>02, <1>3, <2>1, <2>2, <3>3
  <2>3. CASE k # "fn"
    <3>1. ev.code # "fn" /\ c.key \notin SideKeys /\ c.key \notin PlainKeys
      BY <1>2, <1>5, <2>3, KeysDiffer
    <3>2. f = Silent(down)
      BY <3>1, Zenon DEF MacFeed
    <3> QED
      BY <2>1, <2>3, <3>2 DEF Silent
  <2> QED
    BY <2>2, <2>3
<1>6. CASE c.key \in SideKeys
  <2>1. IsBare(c) /\ key = c.key /\ c.key # NoKey /\ c.key \notin PlainKeys
    BY <1>01, <1>6, KeysDiffer DEF IsBare
  <2>2. CASE k = c.key
    <3>1. ev.type = "flags" /\ ev.code = c.key
      BY <1>2, <1>6, <2>2
    <3>2. f = EdgeFromBit(down, c.key \in ev.flags)
      BY <1>6, <2>1, <3>1, Zenon DEF MacFeed
    <3>3. f.down = (c.key \in ev.flags)
      BY <3>2 DEF EdgeFromBit
    <3> QED
      BY <1>02, <1>3, <1>6, <2>1, <2>2, <3>3
  <2>3. CASE k # c.key
    <3>1. ev.code # c.key
      BY <1>2, <2>3
    <3>2. f = Silent(down)
      BY <2>1, <3>1, Zenon DEF MacFeed
    <3> QED
      BY <2>1, <2>3, <3>2 DEF Silent
  <2> QED
    BY <2>2, <2>3
<1>7. CASE c.key \in PlainKeys
  <2>1. ~IsBare(c) /\ key = c.key /\ c.key # NoKey /\ c.key \notin SideKeys /\ c.key # "fn"
    BY <1>01, <1>7, KeysDiffer DEF IsBare
  <2>2. CASE k = c.key
    <3>1. ev.code = c.key /\ ev.type = IF isDown THEN "down" ELSE "up"
      BY <1>2, <2>1, <2>2
    <3>2. CASE isDown /\ ev.flags \cap Mask(c) = c.mods
      <4>1. f = EdgeFromBit(down, TRUE)
        <5>1. ev.type = "down"
          BY <3>1, <3>2
        <5> QED
          BY <1>7, <2>1, <3>1, <3>2, <5>1, Zenon DEF MacFeed
      <4>2. f.down = TRUE
        BY <4>1 DEF EdgeFromBit
      <4>3. exact = TRUE
        BY <1>02, <1>4, <3>2
      <4> QED
        BY <2>1, <2>2, <3>2, <4>2, <4>3
    <3>3. CASE isDown /\ ev.flags \cap Mask(c) # c.mods
      <4>1. f = Silent(down)
        <5>1. ev.type = "down" /\ ev.type # "up"
          BY <3>1, <3>3
        <5> QED
          BY <2>1, <3>1, <3>3, <5>1, Zenon DEF MacFeed
      <4> QED
        BY <1>02, <1>4, <2>1, <2>2, <3>3, <4>1 DEF Silent
    <3>4. CASE ~isDown
      <4>1. f = EdgeFromBit(down, FALSE)
        <5>1. ev.type = "up" /\ ev.type # "down"
          BY <3>1, <3>4
        <5> QED
          BY <1>7, <2>1, <3>1, <5>1, Zenon DEF MacFeed
      <4>2. f.down = FALSE
        BY <4>1 DEF EdgeFromBit
      <4> QED
        BY <2>1, <2>2, <3>4, <4>2
    <3> QED
      BY <3>2, <3>3, <3>4
  <2>3. CASE k # c.key
    <3>1. ev.code # c.key
      BY <1>2, <2>3
    <3>2. f = Silent(down)
      BY <2>1, <3>1, Zenon DEF MacFeed
    <3> QED
      BY <2>1, <2>3, <3>2 DEF Silent
  <2> QED
    BY <2>2, <2>3
<1> QED
  BY <1>1, <1>5, <1>6, <1>7

\* A keystroke moves the matcher, the machine and the consumer together.
LEMMA CallbackFollows ==
  ASSUME HookInv, NEW k \in Keyboard, NEW isDown \in BOOLEAN, NEW now \in SUBSET Keyboard, isDown <=> k \in now,
         NEW late \in BOOLEAN, Callback(k, isDown, now, late), UNCHANGED <<hookOs, binding>>
  PROVE  /\ matcher'.down \in BOOLEAN /\ tapHold' \in Machine /\ listening' \in BOOLEAN /\ missed' \in BOOLEAN
         /\ ConsumerIsTold'
         /\ missed' => missed \/ Deaf
         /\ ~missed' => ~missed /\ (Pressing' <=> matcher'.down)
         /\ ~missed' => (matcher'.down => matcher.down \/ k = BoundKey)
         /\ ~missed' /\ k = BoundKey /\ ~isDown => ~matcher'.down
         /\ hookOs = "macos" /\ ~missed' =>
              /\ k # BoundKey => matcher'.down = matcher.down
              /\ k = BoundKey /\ isDown => matcher'.down = (StruckWith(now) \/ (matcher.down /\ k \notin SideKeys \cup {"fn"}))
<1>0. /\ matcher.down \in BOOLEAN /\ tapHold \in Machine /\ listening \in BOOLEAN /\ missed \in BOOLEAN
      /\ ConsumerIsTold /\ binding \in Chord
      /\ ~missed => (Pressing <=> matcher.down)
  BY DEF HookInv, HookTypes
\* An edge that follows the bit keeps the machine with it.
<1>1. ASSUME NEW edge \in {"none", "down", "up"}, NEW d \in BOOLEAN, Follows(edge, matcher.down, d),
             matcher'.down = d, React(edge, late), UNCHANGED missed
      PROVE  /\ matcher'.down \in BOOLEAN /\ tapHold' \in Machine /\ listening' \in BOOLEAN /\ missed' \in BOOLEAN
             /\ ConsumerIsTold'
             /\ ~missed' => ~missed /\ (Pressing' <=> matcher'.down)
  <2>1. /\ tapHold' \in Machine /\ listening' \in BOOLEAN /\ ConsumerIsTold'
        /\ edge = "none" => tapHold' = tapHold
        /\ edge = "down" => Pressing'
        /\ edge = "up" => ~Pressing'
    BY <1>0, <1>1, Reacts
  <2>2. CASE edge = "none"
    <3>1. d = matcher.down /\ (Pressing' <=> Pressing)
      BY <1>1, <2>1, <2>2 DEF Follows, Pressing
    <3> QED
      BY <1>0, <1>1, <2>1, <3>1
  <2>3. CASE edge = "down"
    BY <1>0, <1>1, <2>1, <2>3 DEF Follows
  <2>4. CASE edge = "up"
    BY <1>0, <1>1, <2>1, <2>4 DEF Follows
  <2> QED
    BY <1>1, <2>2, <2>3, <2>4
<1>2. CASE Deaf /\ missed' = TRUE /\ UNCHANGED <<matcher, tapHold, listening>>
  BY <1>0, <1>2 DEF ConsumerIsTold, CaptureLive
<1> DEFINE ev == TapEvent(k, isDown, now)
<1>3. CASE ~Deaf /\ hookOs = "macos" /\ TapCallback(ev, late) /\ UNCHANGED missed
  <2> DEFINE f == MacFeed(binding, matcher.down, ev)
  <2>1. f.down \in BOOLEAN /\ f.edge \in {"none", "down", "up"} /\ Follows(f.edge, matcher.down, f.down)
    BY <1>0, MacFollows
  <2>2. matcher' = [matcher EXCEPT !.down = f.down] /\ React(f.edge, late)
    BY <1>3 DEF TapCallback
  <2>3. /\ k # BoundKey => f.down = matcher.down
        /\ k = BoundKey /\ ~isDown => f.down = FALSE
        /\ k = BoundKey /\ isDown => f.down = (StruckWith(now) \/ (matcher.down /\ k \notin SideKeys \cup {"fn"}))
    <3>1. MacBindable(binding)
      BY <1>3 DEF HookInv, HookTypes
    <3>2. BitAfter(k, isDown, now, matcher.down, f.down)
      BY <1>0, <3>1, MacBit
    <3> HIDE DEF f
    <3> QED
      BY <3>2 DEF BitAfter
  <2> HIDE DEF ev, f
  <2>4. matcher'.down = f.down
    BY <2>2
  <2> QED
    BY <1>1, <1>3, <2>1, <2>2, <2>3, <2>4
<1>4. CASE ~Deaf /\ hookOs = "windows" /\ k # "fn" /\ HookProc(k, isDown, late) /\ UNCHANGED missed
  <2> DEFINE f == WinFeed(binding, matcher, k, isDown)
  <2> DEFINE g == WinFeed(binding, f.m, k, isDown)
  <2>1. /\ f.m.down \in BOOLEAN /\ f.edge \in {"none", "down", "up"}
        /\ Follows(f.edge, matcher.down, f.m.down)
        /\ g.m.down = f.m.down
        /\ f.m.down => matcher.down \/ (k = binding.key /\ isDown)
        /\ k = binding.key /\ ~isDown => ~f.m.down
    BY <1>0, WinFollows
  <2>2. matcher' = (IF hooked = 2 THEN g.m ELSE f.m) /\ React(f.edge, late)
    BY <1>4 DEF HookProc
  <2>3. BoundKey = binding.key
    <3>1. binding.key \in SideKeys \/ binding.key \in WinKeys
      BY <1>4 DEF HookInv, HookTypes, WinBindable
    <3> QED
      BY <3>1, KeysDiffer DEF BoundKey, WinKeys
  <2> HIDE DEF f, g
  <2>4. matcher'.down = f.m.down
    BY <2>1, <2>2
  <2> QED
    BY <1>1, <1>4, <2>1, <2>2, <2>3, <2>4
<1>5. CASE ~Deaf /\ hookOs = "windows" /\ k = "fn" /\ UNCHANGED <<matcher, tapHold, listening, missed>>
  <2>1. BoundKey # "fn"
    <3>1. binding.key \in SideKeys \/ binding.key \in WinKeys
      BY <1>5 DEF HookInv, HookTypes, WinBindable
    <3> QED
      BY <3>1, KeysDiffer DEF BoundKey, WinKeys
  <2> QED
    BY <1>0, <1>5, <2>1 DEF ConsumerIsTold, CaptureLive, Pressing
<1> QED
  BY <1>2, <1>3, <1>4, <1>5 DEF Callback, TapEvent

\* What a keystroke leaves of the invariant.
LEMMA KeystrokeKeeps ==
  ASSUME HookInv, NEW k \in Keyboard, NEW isDown \in BOOLEAN, isDown <=> k \in held',
         held \subseteq held' \cup {k}, held \in SUBSET Keyboard, held' \in SUBSET Keyboard,
         NEW late \in BOOLEAN, Callback(k, isDown, held', late),
         struck' \in BOOLEAN,
         hookOs = "macos" =>
           struck' = (IF k # BoundKey THEN struck
                      ELSE IF ~isDown THEN FALSE
                      ELSE StruckWith(held') \/ (struck /\ k \in held /\ k \notin SideKeys \cup {"fn"})),
         UNCHANGED <<hookOs, binding, hooked, hookThread, poisoned, unseen>>
  PROVE  HookInv'
<1>1. /\ matcher'.down \in BOOLEAN /\ tapHold' \in Machine /\ listening' \in BOOLEAN /\ missed' \in BOOLEAN
      /\ ConsumerIsTold'
      /\ missed' => missed \/ Deaf
      /\ ~missed' => ~missed /\ (Pressing' <=> matcher'.down)
      /\ ~missed' => (matcher'.down => matcher.down \/ k = BoundKey)
      /\ ~missed' /\ k = BoundKey /\ ~isDown => ~matcher'.down
      /\ hookOs = "macos" /\ ~missed' =>
           /\ k # BoundKey => matcher'.down = matcher.down
           /\ k = BoundKey /\ isDown => matcher'.down = (StruckWith(held') \/ (matcher.down /\ k \notin SideKeys \cup {"fn"}))
  BY CallbackFollows
<1>2. BoundKey' = BoundKey
  BY DEF BoundKey
<1>4. HookTypes'
  BY <1>1 DEF HookInv, HookTypes
<1>5. ~missed' => (matcher'.down => BoundKey \in held')
  BY <1>1 DEF HookInv
<1>6. ASSUME hookOs = "macos"
      PROVE  /\ ~poisoned /\ ~unseen /\ hooked \in {0, 1}
             /\ ~missed' => (matcher'.down <=> struck')
             /\ missed' => hooked = 0
  <2>1. ~poisoned /\ ~unseen /\ hooked \in {0, 1} /\ (missed => hooked = 0)
        /\ (~missed => (matcher.down <=> struck) /\ (matcher.down => BoundKey \in held))
        /\ matcher.down \in BOOLEAN /\ struck \in BOOLEAN
    BY <1>6 DEF HookInv, HookTypes
  <2>2. missed' => hooked = 0
    BY <1>1, <2>1 DEF Deaf
  <2>3. ASSUME ~missed' PROVE matcher'.down <=> struck'
    <3>1. ~missed /\ (matcher.down <=> struck) /\ (matcher.down => BoundKey \in held)
      BY <1>1, <2>1, <2>3
    <3>2. CASE k # BoundKey
      BY <1>1, <1>6, <2>3, <3>1, <3>2
    <3>3. CASE k = BoundKey /\ ~isDown
      BY <1>1, <1>6, <2>3, <3>3
    <3>4. CASE k = BoundKey /\ isDown
      <4>1. matcher'.down = (StruckWith(held') \/ (matcher.down /\ k \notin SideKeys \cup {"fn"}))
        BY <1>1, <1>6, <2>3, <3>4
      <4>2. struck' = (StruckWith(held') \/ (struck /\ k \in held /\ k \notin SideKeys \cup {"fn"}))
        BY <1>6, <3>4
      <4> QED
        BY <3>1, <3>4, <4>1, <4>2
    <3> QED
      BY <3>2, <3>3, <3>4
  <2> QED
    BY <2>1, <2>2, <2>3
<1> QED
  BY <1>1, <1>2, <1>4, <1>5, <1>6 DEF HookInv

HeldInv == held \in SUBSET Keyboard

\* Every step of the keyboard, the callback and the watchdogs keeps the invariant.
LEMMA HookStep ==
  ASSUME HookInv, HeldInv, HookNext
  PROVE  HookInv' /\ HeldInv'
<1>0. struck \in BOOLEAN
  BY DEF HookInv, HookTypes
<1>1. ASSUME NEW k \in Keyboard, PressKeyboard(k) PROVE HookInv' /\ HeldInv'
  <2>1. /\ k \notin held /\ held' = held \cup {k} /\ Callback(k, TRUE, held', FALSE)
        /\ struck' = IF k = BoundKey THEN StruckWith(held') ELSE struck
        /\ UNCHANGED <<hookOs, binding, hooked, hookThread, poisoned, unseen>>
    BY <1>1 DEF PressKeyboard
  <2>2. held \in SUBSET Keyboard /\ held' \in SUBSET Keyboard
    BY <2>1 DEF HeldInv
  <2>3. struck' = (IF k # BoundKey THEN struck
                   ELSE IF ~TRUE THEN FALSE
                   ELSE StruckWith(held') \/ (struck /\ k \in held /\ k \notin SideKeys \cup {"fn"}))
    BY <2>1 DEF StruckWith
  <2>4. struck' \in BOOLEAN
    BY <1>0, <2>3 DEF StruckWith
  <2>5. HookInv'
    BY <2>1, <2>2, <2>3, <2>4, KeystrokeKeeps
  <2> QED
    BY <2>2, <2>5 DEF HeldInv
<1>2. ASSUME NEW k \in Keyboard, RepeatKeyboard(k) PROVE HookInv' /\ HeldInv'
  <2>1. /\ k \in held /\ held' = held /\ Callback(k, TRUE, held', FALSE)
        /\ hookOs = "windows" \/ k \notin SideKeys \cup {"fn"}
        /\ struck' = (struck \/ (k = BoundKey /\ StruckWith(held')))
        /\ UNCHANGED <<hookOs, binding, hooked, hookThread, poisoned, unseen>>
    BY <1>2 DEF RepeatKeyboard
  <2>2. held \in SUBSET Keyboard /\ held' \in SUBSET Keyboard
    BY <2>1 DEF HeldInv
  <2>3. struck' \in BOOLEAN
    BY <1>0, <2>1 DEF StruckWith
  <2>4. ASSUME hookOs = "macos"
        PROVE  struck' = (IF k # BoundKey THEN struck
                          ELSE IF ~TRUE THEN FALSE
                          ELSE StruckWith(held') \/ (struck /\ k \in held /\ k \notin SideKeys \cup {"fn"}))
    BY <1>0, <2>1, <2>4 DEF StruckWith
  <2>5. HookInv'
    BY <2>1, <2>2, <2>3, <2>4, KeystrokeKeeps
  <2> QED
    BY <2>2, <2>5 DEF HeldInv
<1>3. ASSUME NEW k \in Keyboard, ReleaseKeyboard(k) PROVE HookInv' /\ HeldInv'
  <2>1. PICK late \in BOOLEAN :
        /\ k \in held /\ held' = held \ {k} /\ Callback(k, FALSE, held', late)
        /\ struck' = (struck /\ k # BoundKey)
        /\ UNCHANGED <<hookOs, binding, hooked, hookThread, poisoned, unseen>>
    BY <1>3 DEF ReleaseKeyboard
  <2>2. held \in SUBSET Keyboard /\ held' \in SUBSET Keyboard
    BY <2>1 DEF HeldInv
  <2>3. struck' = (IF k # BoundKey THEN struck
                   ELSE IF ~FALSE THEN FALSE
                   ELSE StruckWith(held') \/ (struck /\ k \in held /\ k \notin SideKeys \cup {"fn"}))
    BY <1>0, <2>1
  <2>4. struck' \in BOOLEAN
    BY <1>0, <2>3 DEF StruckWith
  <2>5. HookInv'
    BY <2>1, <2>2, <2>3, <2>4, KeystrokeKeeps
  <2> QED
    BY <2>2, <2>5 DEF HeldInv
<1>4. ASSUME NEW k \in Keyboard, HookPanics(k) PROVE HookInv' /\ HeldInv'
  <2>1. /\ hookOs = "windows" /\ missed' = TRUE
        /\ matcher' = WinFeed(binding, matcher, k, TRUE).m
        /\ UNCHANGED <<hookOs, binding, held, tapHold, listening, struck>>
    BY <1>4 DEF HookPanics
  <2>2. matcher'.down \in BOOLEAN
    <3>1. WinFeed(binding, matcher, k, TRUE).m.down \in BOOLEAN
      <4>1. binding \in Chord /\ matcher.down \in BOOLEAN
        BY DEF HookInv, HookTypes
      <4> QED
        BY <4>1 DEF WinFeed
    <3> QED
      BY <2>1, <3>1
  <2>3. HookTypes' /\ ConsumerIsTold'
    BY <2>1, <2>2 DEF HookInv, HookTypes, ConsumerIsTold, CaptureLive
  <2> QED
    BY <2>1, <2>3 DEF HookInv, HeldInv
<1>5. CASE TapDisabled \/ HookRemoved \/ FocusElevated
  <2>1. /\ UNCHANGED <<hookOs, binding, held, poisoned, matcher, tapHold, listening, missed, struck>>
        /\ hookOs = "macos" => unseen' = unseen /\ hooked' = 0
    BY <1>5 DEF TapDisabled, HookRemoved, FocusElevated
  <2>2. HookTypes' /\ ConsumerIsTold' /\ (Pressing' <=> Pressing) /\ BoundKey' = BoundKey
    BY <2>1 DEF HookInv, HookTypes, ConsumerIsTold, CaptureLive, Pressing, BoundKey
  <2> QED
    BY <2>1, <2>2 DEF HookInv, HeldInv
\* A reset puts the two bits back.
<1>6. ASSUME Resets, UNCHANGED <<hookOs, binding, held>>,
             hookOs = "macos" => ~poisoned' /\ ~unseen' /\ hooked' \in {0, 1}
      PROVE  HookInv' /\ HeldInv'
  <2>1. /\ tapHold' \in Machine /\ listening' \in BOOLEAN /\ ConsumerIsTold'
        /\ ~Pressing' /\ matcher'.down = FALSE /\ missed' = FALSE /\ struck' = FALSE
    BY <1>6, ResetTells DEF HookInv, HookTypes
  <2>2. HookTypes'
    BY <1>6, <2>1 DEF HookInv, HookTypes
  <2> QED
    BY <1>6, <2>1, <2>2 DEF HookInv, HeldInv
<1>7. CASE TapDisabledEvent
  BY <1>6, <1>7 DEF TapDisabledEvent, HookInv
<1>8. ASSUME NEW probe \in BOOLEAN, NEW fresh \in BOOLEAN, WatchdogTick(probe, fresh)
      PROVE  HookInv' /\ HeldInv'
  <2>1. /\ hookOs = "windows" /\ UNCHANGED <<hookOs, binding, held, unseen>>
        /\ Resets \/ UNCHANGED <<matcher, tapHold, listening, missed, struck>>
    BY <1>8 DEF WatchdogTick
  <2>2. CASE Resets
    BY <1>6, <2>1, <2>2
  <2>3. CASE UNCHANGED <<matcher, tapHold, listening, missed, struck>>
    <3>1. HookTypes' /\ ConsumerIsTold' /\ (Pressing' <=> Pressing) /\ BoundKey' = BoundKey
      BY <2>1, <2>3 DEF HookInv, HookTypes, ConsumerIsTold, CaptureLive, Pressing, BoundKey
    <3> QED
      BY <2>1, <2>3, <3>1 DEF HookInv, HeldInv
  <2> QED
    BY <2>1, <2>2, <2>3
<1> QED
  BY <1>1, <1>2, <1>3, <1>4, <1>5, <1>7, <1>8 DEF HookNext

LEMMA HookStarts == HookInit => HookInv /\ HeldInv
<1> SUFFICES ASSUME HookInit PROVE HookInv /\ HeldInv
  OBVIOUS
<1>1. /\ binding \in Chord /\ tapHold = [state |-> "Idle", downAt |-> 0]
      /\ IF hookOs = "macos" THEN MacBindable(binding) ELSE WinBindable(binding)
  BY HookChordsAssumption DEF HookInit, NewMachine
<1>2. HookTypes
  <2>1. tapHold \in Machine
    BY <1>1 DEF Machine, MachineState
  <2>2. matcher.down \in BOOLEAN /\ hookOs \in {"macos", "windows"}
    BY DEF HookInit
  <2> QED
    BY <1>1, <2>1, <2>2 DEF HookInit, HookTypes
<1>3. ~CaptureLive(tapHold) /\ ~Pressing
  BY <1>1 DEF CaptureLive, Pressing
<1>4. ConsumerIsTold
  <2>1. CaptureLive(tapHold) = FALSE
    BY <1>3 DEF CaptureLive
  <2> QED
    BY <2>1 DEF ConsumerIsTold, HookInit
<1> QED
  BY <1>2, <1>3, <1>4 DEF HookInit, HookInv, HeldInv

LEMMA HookFaithful == HookInv => HookIsFaithful
  BY DEF HookInv, HookIsFaithful, CaptureNeedsTheKey, ChordIsHeard, LossIsRecovered

-----------------------------------------------------------------------------
\* Whatever the socket loses or doubles, whichever keys are held, repeated and let go of, and
\* however the tap, the hook and their watchdogs come and go: a capture has its key down or a
\* tap behind it, and the supervisor hears of its beginning and of its end.
THEOREM CaptureAlwaysTold == MCSpec => []CaptureIsTold
<1> DEFINE all == <<part, vars, everPaused, hookVars, written, lifeVars>>
<1>1. MCInit => Init /\ LiveInv /\ HookInv /\ HeldInv
  <2>1. ~CaptureLive(NewMachine)
    BY DEF CaptureLive, NewMachine
  <2>2. MCInit => Init /\ LiveInv
    BY <2>1 DEF MCInit, Init, LiveInv, LiveCaptureIsTold
  <2> QED
    BY <2>2, HookStarts DEF MCInit
<1>2. [MCNext]_all => [Next]_vars
  BY DEF MCNext
<1>3. TypeOK /\ LiveInv /\ [MCNext]_all => LiveInv'
  <2> SUFFICES ASSUME TypeOK, LiveInv, [MCNext]_all PROVE LiveInv'
    OBVIOUS
  <2>1. CASE Next /\ everPaused' = (everPaused \/ ~enabled')
    BY <2>1, LiveStep
  <2>2. CASE UNCHANGED <<vars, everPaused>>
    BY <2>2 DEF LiveInv, LiveCaptureIsTold, CaptureLive, vars
  <2> QED
    BY <2>1, <2>2 DEF MCNext
<1>4. HookInv /\ HeldInv /\ [MCNext]_all => HookInv' /\ HeldInv'
  <2> SUFFICES ASSUME HookInv, HeldInv, [MCNext]_all PROVE HookInv' /\ HeldInv'
    OBVIOUS
  <2>1. CASE HookNext
    BY <2>1, HookStep
  <2>2. CASE UNCHANGED hookVars
    BY <2>2 DEF hookVars, HookInv, HeldInv, HookTypes, ConsumerIsTold, CaptureLive, Pressing, BoundKey
  <2> QED
    BY <2>1, <2>2 DEF MCNext
<1>5. LiveInv /\ HookInv => CaptureIsTold
  BY HookFaithful DEF LiveInv, CaptureIsTold, UnpausedCaptureIsTold
<1>6. MCSpec => []TypeOK
  BY <1>1, <1>2, TypeCorrect, PTL DEF MCSpec, Spec
<1> QED
  BY <1>1, <1>3, <1>4, <1>5, <1>6, PTL DEF MCSpec
-----------------------------------------------------------------------------
(***************************************************************************)
(* The process ends with what its pipeline ended with, nothing waits for a *)
(* second frame, and what is borrowed is given back: ProcessIsOrderly      *)
(* holds of every life of the process, however many frames lie between two *)
(* looks at a permission, edits of the file and deliveries there are.      *)
(*                                                                         *)
(* Each part of the property needs to know where the main thread stands: a *)
(* frame counts once between its top and the place where it acts on what   *)
(* was counted.  The invariant says, place by place, what has been acted   *)
(* on already.                                                             *)
(***************************************************************************)

Plans == [os : {"macos", "windows", "linux"}, overlay : BOOLEAN, once : BOOLEAN, icon : BOOLEAN, odd : Oddities]
Places == {"laid out", "waiting", "running", "frame", "render", "menu", "events", "tracking", "clicks",
           "check", "leaving", "draining", "gone"}
\* Where main has decided to return.
Returning == {"leaving", "draining", "gone"}

LifeTypeOK ==
  /\ plan \in Plans /\ mainAt \in Places
  /\ pipe \in {"off", "starting", "running"} \cup Ended /\ exit \in {"none"} \cup Ended
  /\ restores \in [Ids -> {"none", "inline", "sleeping", "done", "lost"}]
  /\ joins \in [pending : SUBSET Ids, taken : SUBSET Ids, owed : SUBSET Ids]
  /\ trust \in [granted : BOOLEAN, shown : BOOLEAN, frames : 1..TrustPollFrames]
  /\ tuning \in [file : Nat, published : Nat, used : Nat, behind : BOOLEAN]
  /\ clicks \subseteq {"quit"}
  /\ waited \in [edit : Nat, quit : Nat, end : Nat, trust : Nat]

\* A frame has been counted with the pipeline over only since it is over, and a
\* frame begins with none counted.
EndInv ==
  /\ waited.end <= 1
  /\ waited.end > 0 => pipe \in Ended
  /\ mainAt = "frame" => waited.end = 0
  /\ mainAt = "laid out" => pipe = "off"

\* A click on Quit is counted in the frame that performs it: on macOS it stays
\* over the top of the frame, elsewhere it never does.
QuitInv ==
  /\ waited.quit <= 1
  /\ "quit" \in clicks => plan.icon /\ Host
  /\ mainAt = "tracking" => plan.icon /\ Host
  /\ mainAt = "laid out" => "quit" \notin clicks
  /\ waited.quit > 0 => "quit" \in clicks
  /\ mainAt \notin {"render", "menu"} \cup Returning => waited.quit = 0
  /\ plan.os # "macos" /\ mainAt \in {"frame", "render", "menu", "check"} => "quit" \notin clicks

\* From the top of a frame to its poll of the file one edit may be unread.
EditInv ==
  /\ mainAt = "laid out" => waited.edit = 0
  /\ Polls /\ (waited.edit > 1 \/ (waited.edit > 0 /\ mainAt \notin {"render", "menu"}))
       => tuning.published = tuning.file
  /\ SettingsReachTheNextCapture

\* A permission nobody was told of has been so for fewer frames than the last look is old.
TrustInv == waited.trust < trust.frames

ResultInv ==
  /\ ResultIsThePipelines
  /\ exit # "none" <=> mainAt \in Returning
  /\ mainAt = "running" => ~Display /\ ~Host

\* The threads with something of the user's, and who knows of them.
Sleeping == {i \in Ids : restores[i] = "sleeping"}
Back == {i \in Ids : restores[i] = "done"}
RestoreInv ==
  /\ \A i \in Ids : restores[i] = "lost" => mainAt = "gone"
  /\ pipe # "running" => \A i \in Ids : restores[i] = "inline" => mainAt = "gone"
  /\ mainAt \notin {"draining", "gone"} => Sleeping \subseteq joins.pending
  /\ mainAt = "leaving" => joins.owed \subseteq Back \cup joins.pending
  /\ mainAt = "draining" => joins.owed \subseteq Back \cup joins.taken
  /\ mainAt = "draining" /\ "quit" \notin clicks => Sleeping \subseteq joins.taken
  /\ mainAt = "gone" => \A i \in Ids : restores[i] \notin {"inline", "sleeping"}
  /\ RestoresAreGivenBack

LifeInv == LifeTypeOK /\ EndInv /\ QuitInv /\ EditInv /\ TrustInv /\ ResultInv /\ RestoreInv
-----------------------------------------------------------------------------
(* The steps with several cases, each as one fact                          *)

(* An action that may return either goes on or leaves, with the result and *)
(* the threads that are owed.                                              *)
LEMMA SpawnIs ==
  SpawnPipeline =>
    /\ mainAt = "laid out" /\ plan' = plan /\ restores' = restores /\ trust' = trust /\ tuning' = tuning
    /\ clicks' = clicks /\ waited' = waited
    /\ \/ /\ mainAt' = "leaving" /\ exit' = "error" /\ pipe' = pipe /\ Display /\ plan.odd = "no window"
          /\ joins' = [joins EXCEPT !.owed = Sleeping]
       \/ /\ mainAt' \in {"frame", "waiting", "running"} /\ (mainAt' = "running" => ~Display /\ ~Host)
          /\ pipe' = "starting" /\ exit' = exit /\ joins' = joins
<1> SUFFICES ASSUME SpawnPipeline PROVE SpawnIs!2
  OBVIOUS
<1>1. CASE Display /\ plan.odd = "no window"
  BY <1>1 DEF SpawnPipeline, Leave, Sleeping
<1>2. CASE ~(Display /\ plan.odd = "no window")
  <2>1. /\ mainAt' = (IF Display THEN "frame" ELSE IF Host THEN "waiting" ELSE "running")
        /\ pipe' = "starting" /\ exit' = exit /\ joins' = joins
    BY <1>2 DEF SpawnPipeline
  <2>2. QED
    BY <2>1 DEF SpawnPipeline
<1>3. QED
  BY <1>1, <1>2

(* Leaving keeps the types of what it changes.                             *)
LEMMA LeaveTypes ==
  ASSUME LifeTypeOK, NEW r, Leave(r)
  PROVE  mainAt' \in Places /\ joins' \in [pending : SUBSET Ids, taken : SUBSET Ids, owed : SUBSET Ids]
BY DEF LifeTypeOK, Leave, Places

(* Clicks that are performed go on to a place of the loop or leave.        *)
LEMMA ClicksTypes ==
  ASSUME LifeTypeOK, NEW next \in Places, PerformClicks(next)
  PROVE  /\ mainAt' \in Places /\ exit' \in {"none"} \cup Ended /\ clicks' \subseteq {"quit"}
         /\ joins' \in [pending : SUBSET Ids, taken : SUBSET Ids, owed : SUBSET Ids]
<1>1. CASE "quit" \in clicks /\ plan.icon /\ Host
  BY <1>1, LeaveTypes DEF LifeTypeOK, PerformClicks, Leave, Ended
<1>2. CASE ~("quit" \in clicks /\ plan.icon /\ Host)
  BY <1>2 DEF LifeTypeOK, PerformClicks
<1>3. QED
  BY <1>1, <1>2

(* Between two looks at a permission there are frames.                     *)
LEMMA Frames == TrustPollFrames \in Nat /\ 0 < TrustPollFrames /\ TrustPollFrames \in 1..TrustPollFrames
BY LifeAssumption

(* A natural number is above zero or zero, and zero is above nothing.      *)
LEMMA AboveOrZero == (\A n \in Nat : n > 0 \/ n = 0) /\ 0 <= 1 /\ ~(0 > 0) /\ ~(0 > 1)
OBVIOUS

(* What PerformClicks does with a click on Quit.                           *)
LEMMA PerformedQuit ==
  ASSUME NEW next, PerformClicks(next)
  PROVE  \/ "quit" \in clicks /\ clicks' = clicks /\ mainAt' = "leaving"
         \/ ~("quit" \in clicks /\ plan.icon /\ Host) /\ mainAt' = next /\ clicks' \subseteq clicks
BY DEF PerformClicks, Leave

-----------------------------------------------------------------------------
(* Every part of the invariant is kept by every step                       *)

(* Every step of the process and of its desktop keeps the types.           *)
LEMMA LifeTypeStep == LifeTypeOK /\ [LifeNext]_lifeVars => LifeTypeOK'
<1> SUFFICES ASSUME LifeTypeOK, [LifeNext]_lifeVars PROVE LifeTypeOK'
  OBVIOUS
<1> USE LifeAssumption DEF LifeTypeOK
<1>1. CASE PipelineStarts
  BY <1>1 DEF PipelineStarts, Places, Ended
<1>2. CASE PipelineEnds
  BY <1>2 DEF Borrowing, PipelineEnds, Places, Ended
<1>3. CASE CaptureBegins
  BY <1>3 DEF CurrentSensitivity, Borrowing, CaptureBegins, Places, Ended
<1>4. ASSUME NEW i \in Ids, BorrowClipboard(i) PROVE LifeTypeOK'
  <2>1. CASE restores' = [restores EXCEPT ![i] = "inline"] /\ UNCHANGED joins
    BY <1>4, <2>1 DEF BorrowClipboard
  <2>2. CASE /\ restores' = [restores EXCEPT ![i] = "sleeping"]
             /\ joins' = [joins EXCEPT !.pending = RetainUnfinished \cup {i}]
    <3>1. joins' \in [pending : SUBSET Ids, taken : SUBSET Ids, owed : SUBSET Ids]
      BY <2>2 DEF RetainUnfinished
    <3>2. QED
      BY <1>4, <2>2, <3>1 DEF BorrowClipboard
  <2>3. QED
    BY <1>4, <2>1, <2>2 DEF BorrowClipboard
<1>5. ASSUME NEW i \in Ids, GiveBack(i) PROVE LifeTypeOK'
  BY <1>5 DEF GiveBack
<1>6. CASE SpawnPipeline
  <2>1. mainAt' \in Places /\ pipe' \in {"off", "starting", "running"} \cup Ended /\ exit' \in {"none"} \cup Ended
    BY <1>6, SpawnIs DEF Ended, Places
  <2>2. joins' \in [pending : SUBSET Ids, taken : SUBSET Ids, owed : SUBSET Ids]
    <3>1. joins' = joins \/ joins' = [joins EXCEPT !.owed = Sleeping]
      BY <1>6, SpawnIs
    <3>2. Sleeping \subseteq Ids
      BY DEF Sleeping
    <3>3. QED
      BY <3>1, <3>2
  <2>3. QED
    BY <1>6, <2>1, <2>2, SpawnIs
<1>7. CASE PipelineReports
  BY <1>7, LeaveTypes DEF PipelineReports, Leave, Reported, Noticed, Ended
<1>8. CASE HeadlessPoll
  BY <1>8 DEF Noticed, Counted, HeadlessPoll, Places, Ended
<1>9. CASE BeginFrame
  <2>1. trust' \in [granted : BOOLEAN, shown : BOOLEAN, frames : 1..TrustPollFrames]
    <3>1. CASE plan.os # "macos"
      BY <1>9, <3>1 DEF BeginFrame
    <3>2. CASE plan.os = "macos" /\ Looks
      <4>1. trust' = [trust EXCEPT !.shown = trust.granted, !.frames = 1]
        BY <1>9, <3>2 DEF BeginFrame
      <4>2. trust.granted \in BOOLEAN /\ 1 \in 1..TrustPollFrames
        OBVIOUS
      <4>3. QED
        BY <4>1, <4>2
    <3>3. CASE plan.os = "macos" /\ ~Looks
      <4>1. trust.frames + 1 \in 1..TrustPollFrames
        BY <3>3 DEF Looks
      <4>2. QED
        BY <1>9, <3>3, <4>1 DEF BeginFrame
    <3>4. QED
      BY <3>1, <3>2, <3>3
  <2>2. waited' \in [edit : Nat, quit : Nat, end : Nat, trust : Nat]
    <3>1. /\ Counted(waited.edit, TRUE) \in Nat
          /\ Counted(waited.quit, "quit" \in clicks) \in Nat
          /\ Counted(waited.end, pipe \in Ended) \in Nat
          /\ Counted(waited.trust, plan.os = "macos" /\ trust'.granted # trust'.shown) \in Nat
      BY DEF Counted
    <3>2. QED
      BY <1>9, <3>1 DEF BeginFrame, WaitsOn
  <2>3. mainAt' \in Places
    BY <1>9 DEF BeginFrame, Places
  <2>4. QED
    BY <1>9, <2>1, <2>2, <2>3 DEF BeginFrame
<1>10. CASE Render
  BY <1>10 DEF Rendered, Render, Places, Ended
<1>11. CASE Menu
  <2>1. tuning' \in [file : Nat, published : Nat, used : Nat, behind : BOOLEAN]
    <3>1. CASE Polls
      BY <1>11, <3>1 DEF Menu
    <3>2. CASE ~Polls
      BY <1>11, <3>2 DEF Menu
    <3>3. QED
      BY <3>1, <3>2
  <2>2. /\ mainAt' \in Places /\ exit' \in {"none"} \cup Ended /\ clicks' \subseteq {"quit"}
        /\ joins' \in [pending : SUBSET Ids, taken : SUBSET Ids, owed : SUBSET Ids]
    <3>1. CASE plan.os = "macos"
      <4>1. PerformClicks("events")
        BY <1>11, <3>1 DEF Menu
      <4>2. QED
        BY <4>1, ClicksTypes DEF Places
    <3>2. CASE plan.os # "macos"
      BY <1>11, <3>2 DEF Menu, Places
    <3>3. QED
      BY <3>1, <3>2
  <2>3. QED
    BY <1>11, <2>1, <2>2 DEF Menu
<1>12. CASE Events
  BY <1>12 DEF Events, Places, Ended
<1>13. CASE MenuCloses
  BY <1>13 DEF MenuCloses, Places, Ended
<1>14. CASE WindowsClicks
  <2>1. /\ mainAt' \in Places /\ exit' \in {"none"} \cup Ended /\ clicks' \subseteq {"quit"}
        /\ joins' \in [pending : SUBSET Ids, taken : SUBSET Ids, owed : SUBSET Ids]
    BY <1>14, ClicksTypes DEF WindowsClicks, Places
  <2>2. QED
    BY <1>14, <2>1 DEF WindowsClicks
<1>15. CASE NextFrame
  BY <1>15 DEF Noticed, NextFrame, Places, Ended
<1>16. CASE DrainRestores
  BY <1>16 DEF Taken, DrainRestores, Places, Ended
<1>17. CASE ProcessEnds
  BY <1>17 DEF ProcessEnds, Places, Ended
<1>18. CASE EditFile
  <2>1. tuning' \in [file : Nat, published : Nat, used : Nat, behind : BOOLEAN]
    BY <1>18 DEF EditFile
  <2>2. waited' \in [edit : Nat, quit : Nat, end : Nat, trust : Nat]
    BY <1>18 DEF EditFile
  <2>3. QED
    BY <1>18, <2>1, <2>2 DEF EditFile
<1>19. CASE GrantChanges
  BY <1>19 DEF GrantChanges, Places, Ended
<1>20. CASE UNCHANGED lifeVars
  BY <1>20 DEF lifeVars
<1>21. QED
  BY <1>1, <1>2, <1>3, <1>4, <1>5, <1>6, <1>7, <1>8, <1>9, <1>10, <1>11, <1>12, <1>13, <1>14, <1>15, <1>16, <1>17, <1>18, <1>19, <1>20 DEF LifeNext

(* What ends the pipeline is counted once.                                 *)
LEMMA EndStep == LifeTypeOK /\ EndInv /\ [LifeNext]_lifeVars => EndInv'
<1> SUFFICES ASSUME LifeTypeOK, EndInv, [LifeNext]_lifeVars PROVE EndInv'
  OBVIOUS
<1> USE LifeAssumption DEF LifeTypeOK, EndInv, Ended, Places
<1>1. CASE PipelineStarts
  BY <1>1 DEF PipelineStarts
<1>2. CASE PipelineEnds
  BY <1>2 DEF Borrowing, PipelineEnds
<1>3. CASE CaptureBegins
  BY <1>3 DEF CurrentSensitivity, Borrowing, CaptureBegins
<1>4. ASSUME NEW i \in Ids, BorrowClipboard(i) PROVE EndInv'
  BY <1>4 DEF RetainUnfinished, Borrowing, BorrowClipboard
<1>5. ASSUME NEW i \in Ids, GiveBack(i) PROVE EndInv'
  BY <1>5 DEF GiveBack
<1>6. CASE SpawnPipeline
  <2>1. waited' = waited /\ waited.end \in Nat /\ pipe \notin Ended /\ mainAt' # "laid out"
    BY <1>6, SpawnIs
  <2>2. waited.end = 0
    BY <2>1, AboveOrZero, Zenon DEF EndInv
  <2>3. waited'.end = 0 /\ waited'.end <= 1 /\ ~(waited'.end > 0)
    BY <2>1, <2>2, AboveOrZero, Zenon
  <2>4. QED
    BY <2>1, <2>3, Zenon DEF EndInv
<1>7. CASE PipelineReports
  BY <1>7 DEF Leave, Reported, Noticed, PipelineReports
<1>8. CASE HeadlessPoll
  BY <1>8 DEF Noticed, Counted, HeadlessPoll
<1>9. CASE BeginFrame
  BY <1>9 DEF WaitsOn, Counted, Looks, BeginFrame
<1>10. CASE Render
  BY <1>10 DEF Rendered, Render
<1>11. CASE Menu
  BY <1>11 DEF PerformClicks, Leave, Menu
<1>12. CASE Events
  BY <1>12 DEF Events
<1>13. CASE MenuCloses
  BY <1>13 DEF MenuCloses
<1>14. CASE WindowsClicks
  BY <1>14 DEF PerformClicks, Leave, WindowsClicks
<1>15. CASE NextFrame
  BY <1>15 DEF Noticed, NextFrame
<1>16. CASE DrainRestores
  BY <1>16 DEF Taken, DrainRestores
<1>17. CASE ProcessEnds
  BY <1>17 DEF ProcessEnds
<1>18. CASE EditFile
  BY <1>18 DEF EditFile
<1>19. CASE GrantChanges
  BY <1>19 DEF GrantChanges
<1>20. CASE UNCHANGED lifeVars
  BY <1>20 DEF lifeVars
<1>21. QED
  BY <1>1, <1>2, <1>3, <1>4, <1>5, <1>6, <1>7, <1>8, <1>9, <1>10, <1>11, <1>12, <1>13, <1>14, <1>15, <1>16, <1>17, <1>18, <1>19, <1>20 DEF LifeNext

(* Clicks that are performed leave none of them unperformed.               *)
LEMMA ClicksQuit ==
  ASSUME LifeTypeOK, QuitInv, NEW next \in {"events", "check"}, PerformClicks(next), waited' = waited, plan' = plan,
         mainAt \in {"menu", "clicks"}
  PROVE  QuitInv'
<1>1. CASE "quit" \in clicks /\ clicks' = clicks /\ mainAt' = "leaving"
  BY <1>1 DEF QuitInv, Returning, Host
<1>2. CASE ~("quit" \in clicks /\ plan.icon /\ Host) /\ mainAt' = next /\ clicks' \subseteq clicks
  <2>1. "quit" \notin clicks /\ "quit" \notin clicks'
    BY <1>2 DEF QuitInv
  <2>2. waited'.quit = 0 /\ waited'.quit <= 1 /\ ~(waited'.quit > 0)
    <3>1. waited.quit \in Nat /\ ~(waited.quit > 0)
      BY <2>1 DEF QuitInv, LifeTypeOK
    <3>2. waited.quit = 0
      BY <3>1, AboveOrZero, Zenon
    <3>3. QED
      BY <3>2, AboveOrZero, Zenon
  <2>3. QED
    BY <1>2, <2>1, <2>2, Zenon DEF QuitInv
<1>3. QED
  BY <1>1, <1>2, PerformedQuit

(* A click on Quit is counted once.                                        *)
LEMMA QuitStep == LifeTypeOK /\ QuitInv /\ ResultInv /\ [LifeNext]_lifeVars => QuitInv'
<1> SUFFICES ASSUME LifeTypeOK, QuitInv, ResultInv, [LifeNext]_lifeVars PROVE QuitInv'
  OBVIOUS
<1> USE LifeAssumption DEF LifeTypeOK, QuitInv, ResultInv, Places, Returning, Host
<1>1. CASE PipelineStarts
  BY <1>1 DEF PipelineStarts
<1>2. CASE PipelineEnds
  BY <1>2 DEF Borrowing, PipelineEnds
<1>3. CASE CaptureBegins
  BY <1>3 DEF CurrentSensitivity, Borrowing, CaptureBegins
<1>4. ASSUME NEW i \in Ids, BorrowClipboard(i) PROVE QuitInv'
  BY <1>4 DEF RetainUnfinished, Borrowing, BorrowClipboard
<1>5. ASSUME NEW i \in Ids, GiveBack(i) PROVE QuitInv'
  BY <1>5 DEF GiveBack
<1>6. CASE SpawnPipeline
  <2>1. /\ waited' = waited /\ waited.quit = 0 /\ clicks' = clicks /\ "quit" \notin clicks
        /\ mainAt' # "tracking" /\ mainAt' # "laid out"
    BY <1>6, SpawnIs
  <2>2. waited'.quit = 0 /\ waited'.quit <= 1 /\ ~(waited'.quit > 0)
    BY <2>1, AboveOrZero, Zenon
  <2>3. QED
    BY <2>1, <2>2, Zenon DEF QuitInv
<1>7. CASE PipelineReports
  BY <1>7 DEF Leave, Reported, Noticed, PipelineReports
<1>8. CASE HeadlessPoll
  BY <1>8 DEF Noticed, Counted, HeadlessPoll
<1>9. CASE BeginFrame
  BY <1>9 DEF WaitsOn, Counted, Looks, BeginFrame
<1>10. CASE Render
  BY <1>10 DEF Rendered, Render
<1>11. CASE Menu
  <2>1. CASE plan.os = "macos"
    <3>1. mainAt = "menu" /\ PerformClicks("events") /\ waited' = waited /\ plan' = plan
      BY <1>11, <2>1 DEF Menu
    <3>2. QED
      BY <2>1, <3>1, ClicksQuit
  <2>2. CASE plan.os # "macos"
    BY <1>11, <2>2 DEF Menu
  <2>3. QED
    BY <2>1, <2>2
<1>12. CASE Events
  BY <1>12 DEF Events
<1>13. CASE MenuCloses
  BY <1>13 DEF MenuCloses
<1>14. CASE WindowsClicks
  <2>1. mainAt = "clicks" /\ PerformClicks("check") /\ waited' = waited /\ plan' = plan
    BY <1>14 DEF WindowsClicks
  <2>2. QED
    BY <2>1, ClicksQuit
<1>15. CASE NextFrame
  BY <1>15 DEF Noticed, NextFrame
<1>16. CASE DrainRestores
  BY <1>16 DEF Taken, DrainRestores
<1>17. CASE ProcessEnds
  BY <1>17 DEF ProcessEnds
<1>18. CASE EditFile
  BY <1>18 DEF EditFile
<1>19. CASE GrantChanges
  BY <1>19 DEF GrantChanges
<1>20. CASE UNCHANGED lifeVars
  BY <1>20 DEF lifeVars
<1>21. QED
  BY <1>1, <1>2, <1>3, <1>4, <1>5, <1>6, <1>7, <1>8, <1>9, <1>10, <1>11, <1>12, <1>13, <1>14, <1>15, <1>16, <1>17, <1>18, <1>19, <1>20 DEF LifeNext

(* An edit of the file is counted once before it is published.             *)
LEMMA EditStep == LifeTypeOK /\ EditInv /\ [LifeNext]_lifeVars => EditInv'
<1> SUFFICES ASSUME LifeTypeOK, EditInv, [LifeNext]_lifeVars PROVE EditInv'
  OBVIOUS
<1> USE LifeAssumption DEF LifeTypeOK, EditInv, SettingsReachTheNextCapture, Places, Plans, Polls, Host, Display
<1>1. CASE PipelineStarts
  BY <1>1 DEF PipelineStarts
<1>2. CASE PipelineEnds
  BY <1>2 DEF Borrowing, PipelineEnds
<1>3. CASE CaptureBegins
  BY <1>3 DEF CurrentSensitivity, Borrowing, CaptureBegins
<1>4. ASSUME NEW i \in Ids, BorrowClipboard(i) PROVE EditInv'
  BY <1>4 DEF RetainUnfinished, Borrowing, BorrowClipboard
<1>5. ASSUME NEW i \in Ids, GiveBack(i) PROVE EditInv'
  BY <1>5 DEF GiveBack
<1>6. CASE SpawnPipeline
  BY <1>6 DEF Leave, SpawnPipeline
<1>7. CASE PipelineReports
  BY <1>7 DEF Leave, Reported, Noticed, PipelineReports
<1>8. CASE HeadlessPoll
  BY <1>8 DEF Noticed, Counted, HeadlessPoll
<1>9. CASE BeginFrame
  BY <1>9 DEF WaitsOn, Counted, Looks, BeginFrame
<1>10. CASE Render
  BY <1>10 DEF Rendered, Render
<1>11. CASE Menu
  BY <1>11 DEF PerformClicks, Leave, Menu
<1>12. CASE Events
  BY <1>12 DEF Events
<1>13. CASE MenuCloses
  BY <1>13 DEF MenuCloses
<1>14. CASE WindowsClicks
  BY <1>14 DEF PerformClicks, Leave, WindowsClicks
<1>15. CASE NextFrame
  BY <1>15 DEF Noticed, NextFrame
<1>16. CASE DrainRestores
  BY <1>16 DEF Taken, DrainRestores
<1>17. CASE ProcessEnds
  BY <1>17 DEF ProcessEnds
<1>18. CASE EditFile
  <2>1. /\ waited'.edit = 0 /\ tuning'.behind = tuning.behind /\ tuning'.used = tuning.used
        /\ mainAt' = mainAt /\ plan' = plan
    BY <1>18 DEF EditFile
  <2>2. ~(waited'.edit > 1) /\ ~(waited'.edit > 0)
    BY <2>1, AboveOrZero, Zenon
  <2>3. QED
    BY <2>1, <2>2, Zenon
<1>19. CASE GrantChanges
  BY <1>19 DEF GrantChanges
<1>20. CASE UNCHANGED lifeVars
  BY <1>20 DEF lifeVars
<1>21. QED
  BY <1>1, <1>2, <1>3, <1>4, <1>5, <1>6, <1>7, <1>8, <1>9, <1>10, <1>11, <1>12, <1>13, <1>14, <1>15, <1>16, <1>17, <1>18, <1>19, <1>20 DEF LifeNext

(* The permission is looked at before it has been wrong for too long.      *)
LEMMA TrustStep == LifeTypeOK /\ TrustInv /\ [LifeNext]_lifeVars => TrustInv'
<1> SUFFICES ASSUME LifeTypeOK, TrustInv, [LifeNext]_lifeVars PROVE TrustInv'
  OBVIOUS
<1> USE LifeAssumption DEF LifeTypeOK, TrustInv
<1>1. CASE PipelineStarts
  BY <1>1 DEF PipelineStarts
<1>2. CASE PipelineEnds
  BY <1>2 DEF Borrowing, PipelineEnds
<1>3. CASE CaptureBegins
  BY <1>3 DEF CurrentSensitivity, Borrowing, CaptureBegins
<1>4. ASSUME NEW i \in Ids, BorrowClipboard(i) PROVE TrustInv'
  BY <1>4 DEF RetainUnfinished, Borrowing, BorrowClipboard
<1>5. ASSUME NEW i \in Ids, GiveBack(i) PROVE TrustInv'
  BY <1>5 DEF GiveBack
<1>6. CASE SpawnPipeline
  BY <1>6 DEF Leave, SpawnPipeline
<1>7. CASE PipelineReports
  BY <1>7 DEF Leave, Reported, Noticed, PipelineReports
<1>8. CASE HeadlessPoll
  BY <1>8 DEF Noticed, Counted, HeadlessPoll
<1>9. CASE BeginFrame
  BY <1>9 DEF WaitsOn, Counted, Looks, BeginFrame
<1>10. CASE Render
  BY <1>10 DEF Rendered, Render
<1>11. CASE Menu
  BY <1>11 DEF PerformClicks, Leave, Menu
<1>12. CASE Events
  BY <1>12 DEF Events
<1>13. CASE MenuCloses
  BY <1>13 DEF MenuCloses
<1>14. CASE WindowsClicks
  BY <1>14 DEF PerformClicks, Leave, WindowsClicks
<1>15. CASE NextFrame
  BY <1>15 DEF Noticed, NextFrame
<1>16. CASE DrainRestores
  BY <1>16 DEF Taken, DrainRestores
<1>17. CASE ProcessEnds
  BY <1>17 DEF ProcessEnds
<1>18. CASE EditFile
  BY <1>18 DEF EditFile
<1>19. CASE GrantChanges
  BY <1>19 DEF GrantChanges
<1>20. CASE UNCHANGED lifeVars
  BY <1>20 DEF lifeVars
<1>21. QED
  BY <1>1, <1>2, <1>3, <1>4, <1>5, <1>6, <1>7, <1>8, <1>9, <1>10, <1>11, <1>12, <1>13, <1>14, <1>15, <1>16, <1>17, <1>18, <1>19, <1>20 DEF LifeNext

(* The result stays what the pipeline, the user or the display made it.    *)
LEMMA ResultStep == LifeTypeOK /\ EndInv /\ QuitInv /\ ResultInv /\ [LifeNext]_lifeVars => ResultInv'
<1> SUFFICES ASSUME LifeTypeOK, EndInv, QuitInv, ResultInv, [LifeNext]_lifeVars PROVE ResultInv'
  OBVIOUS
<1> USE DEF LifeTypeOK, EndInv, ResultInv, ResultIsThePipelines, Places, Plans, Returning, Ended, Display, Host
<1>1. CASE PipelineStarts
  BY <1>1 DEF PipelineStarts
<1>2. CASE PipelineEnds
  BY <1>2 DEF Borrowing, PipelineEnds
<1>3. CASE CaptureBegins
  BY <1>3 DEF CurrentSensitivity, Borrowing, CaptureBegins
<1>4. ASSUME NEW i \in Ids, BorrowClipboard(i) PROVE ResultInv'
  BY <1>4 DEF RetainUnfinished, Borrowing, BorrowClipboard
<1>5. ASSUME NEW i \in Ids, GiveBack(i) PROVE ResultInv'
  BY <1>5 DEF GiveBack
<1>6. CASE SpawnPipeline
  BY <1>6, SpawnIs
<1>7. CASE PipelineReports
  BY <1>7 DEF Leave, Reported, Noticed, PipelineReports
<1>8. CASE HeadlessPoll
  BY <1>8 DEF Noticed, Counted, HeadlessPoll
<1>9. CASE BeginFrame
  BY <1>9 DEF WaitsOn, Counted, Looks, BeginFrame
<1>10. CASE Render
  BY <1>10 DEF Rendered, Render
<1>11. CASE Menu
  BY <1>11 DEF PerformClicks, Leave, Menu
<1>12. CASE Events
  BY <1>12 DEF Events
<1>13. CASE MenuCloses
  BY <1>13 DEF MenuCloses
<1>14. CASE WindowsClicks
  BY <1>14 DEF PerformClicks, Leave, WindowsClicks
<1>15. CASE NextFrame
  BY <1>15 DEF Noticed, NextFrame
<1>16. CASE DrainRestores
  BY <1>16 DEF Taken, DrainRestores
<1>17. CASE ProcessEnds
  BY <1>17 DEF ProcessEnds
<1>18. CASE EditFile
  BY <1>18 DEF EditFile
<1>19. CASE GrantChanges
  BY <1>19 DEF GrantChanges
<1>20. CASE UNCHANGED lifeVars
  BY <1>20 DEF lifeVars
<1>21. QED
  BY <1>1, <1>2, <1>3, <1>4, <1>5, <1>6, <1>7, <1>8, <1>9, <1>10, <1>11, <1>12, <1>13, <1>14, <1>15, <1>16, <1>17, <1>18, <1>19, <1>20 DEF LifeNext

(* Main waits for the threads only after it knows how the pipeline ended,  *)
(* or because the user quits.                                              *)
LEMMA QuitWhileRunning == ResultInv /\ mainAt \in Returning /\ pipe = "running" => "quit" \in clicks
BY DEF ResultInv, ResultIsThePipelines

(* A thread that borrows is the only one to change.                        *)
LEMMA Borrowed ==
  ASSUME LifeTypeOK, NEW i \in Ids, restores[i] = "none", restores' = [restores EXCEPT ![i] = "sleeping"]
  PROVE  Sleeping' = Sleeping \cup {i} /\ Back' = Back
<1>1. \A j \in Ids : restores'[j] = IF j = i THEN "sleeping" ELSE restores[j]
  BY DEF LifeTypeOK
<1>2. QED
  BY <1>1 DEF Sleeping, Back

(* What is borrowed is known to somebody who waits for it.                 *)
LEMMA RestoreStep == LifeTypeOK /\ EndInv /\ QuitInv /\ ResultInv /\ RestoreInv /\ [LifeNext]_lifeVars => RestoreInv'
<1> SUFFICES ASSUME LifeTypeOK, EndInv, QuitInv, ResultInv, RestoreInv, [LifeNext]_lifeVars PROVE RestoreInv'
  OBVIOUS
<1> USE DEF LifeTypeOK, RestoreInv, RestoresAreGivenBack, Sleeping, Back, Places, Returning, Ended
<1>1. CASE PipelineStarts
  BY <1>1 DEF PipelineStarts
<1>2. CASE PipelineEnds
  BY <1>2 DEF Borrowing, PipelineEnds
<1>3. CASE CaptureBegins
  BY <1>3 DEF CurrentSensitivity, Borrowing, CaptureBegins
<1>4. ASSUME NEW i \in Ids, BorrowClipboard(i) PROVE RestoreInv'
  <2>1. CASE restores' = [restores EXCEPT ![i] = "inline"] /\ UNCHANGED joins
    BY <1>4, <2>1 DEF BorrowClipboard
  <2>2. CASE /\ restores' = [restores EXCEPT ![i] = "sleeping"]
             /\ joins' = [joins EXCEPT !.pending = RetainUnfinished \cup {i}]
    <3>1. joins'.owed = joins.owed /\ joins'.taken = joins.taken
          /\ joins'.pending = {j \in joins.pending : restores[j] # "done"} \cup {i}
      BY <2>2 DEF RetainUnfinished
    <3>2. Sleeping' = Sleeping \cup {i} /\ Back' = Back
      BY <1>4, <2>2, Borrowed DEF BorrowClipboard
    <3>3. mainAt \notin {"draining", "gone"} => Sleeping' \subseteq joins'.pending
      BY <3>1, <3>2
    <3>4. mainAt = "leaving" => joins'.owed \subseteq Back' \cup joins'.pending
      BY <3>1, <3>2
    <3>5. mainAt = "draining" => "quit" \in clicks
      BY <1>4, QuitWhileRunning DEF BorrowClipboard
    <3>6. QED
      BY <1>4, <2>2, <3>1, <3>2, <3>3, <3>4, <3>5 DEF BorrowClipboard
  <2>3. QED
    BY <1>4, <2>1, <2>2 DEF BorrowClipboard
<1>5. ASSUME NEW i \in Ids, GiveBack(i) PROVE RestoreInv'
  BY <1>5 DEF GiveBack
<1>6. CASE SpawnPipeline
  BY <1>6, SpawnIs DEF EndInv
<1>7. CASE PipelineReports
  BY <1>7 DEF Leave, Reported, Noticed, PipelineReports
<1>8. CASE HeadlessPoll
  BY <1>8 DEF Noticed, Counted, HeadlessPoll
<1>9. CASE BeginFrame
  BY <1>9 DEF WaitsOn, Counted, Looks, BeginFrame
<1>10. CASE Render
  BY <1>10 DEF Rendered, Render
<1>11. CASE Menu
  BY <1>11 DEF PerformClicks, Leave, Menu
<1>12. CASE Events
  BY <1>12 DEF Events
<1>13. CASE MenuCloses
  BY <1>13 DEF MenuCloses
<1>14. CASE WindowsClicks
  BY <1>14 DEF PerformClicks, Leave, WindowsClicks
<1>15. CASE NextFrame
  BY <1>15 DEF Noticed, NextFrame
<1>16. CASE DrainRestores
  BY <1>16 DEF Taken, DrainRestores
<1>17. CASE ProcessEnds
  <2>1. \A i \in Ids : restores'[i] = IF restores[i] \in {"inline", "sleeping"} THEN "lost" ELSE restores[i]
    BY <1>17 DEF ProcessEnds
  <2>2. \A i \in joins.owed : restores[i] = "done"
    BY <1>17 DEF ProcessEnds
  <2>3. ASSUME "quit" \notin clicks PROVE \A i \in Ids : restores[i] \notin {"lost", "inline", "sleeping"}
    <3>1. pipe # "running"
      BY <1>17, <2>3, QuitWhileRunning DEF ProcessEnds
    <3>2. QED
      BY <1>17, <2>3, <3>1 DEF ProcessEnds
  <2>4. RestoresAreGivenBack'
    BY <1>17, <2>1, <2>2, <2>3 DEF ProcessEnds
  <2>5. QED
    BY <1>17, <2>1, <2>4 DEF ProcessEnds
<1>18. CASE EditFile
  BY <1>18 DEF EditFile
<1>19. CASE GrantChanges
  BY <1>19 DEF GrantChanges
<1>20. CASE UNCHANGED lifeVars
  BY <1>20 DEF lifeVars
<1>21. QED
  BY <1>1, <1>2, <1>3, <1>4, <1>5, <1>6, <1>7, <1>8, <1>9, <1>10, <1>11, <1>12, <1>13, <1>14, <1>15, <1>16, <1>17, <1>18, <1>19, <1>20 DEF LifeNext
-----------------------------------------------------------------------------
(* Theorems                                                                *)

(* The invariant holds when main has accepted its command line.            *)
LEMMA LifeStarts == LifeInit => LifeInv
<1> SUFFICES ASSUME LifeInit PROVE LifeInv
  OBVIOUS
<1> USE LifeAssumption DEF LifeInit
<1>1. LifeTypeOK
  <2>1. trust \in [granted : BOOLEAN, shown : BOOLEAN, frames : 1..TrustPollFrames]
    <3>1. PICK granted \in BOOLEAN : trust = [granted |-> granted, shown |-> TRUE, frames |-> TrustPollFrames]
      OBVIOUS
    <3>2. QED
      BY <3>1, Frames
  <2>2. /\ restores \in [Ids -> {"none", "inline", "sleeping", "done", "lost"}]
        /\ joins \in [pending : SUBSET Ids, taken : SUBSET Ids, owed : SUBSET Ids]
        /\ waited \in [edit : Nat, quit : Nat, end : Nat, trust : Nat]
        /\ tuning \in [file : Nat, published : Nat, used : Nat, behind : BOOLEAN]
    OBVIOUS
  <2>3. plan \in Plans /\ mainAt \in Places /\ pipe = "off" /\ exit = "none" /\ clicks \subseteq {"quit"}
    BY DEF Plans, Places
  <2>4. QED
    BY <2>1, <2>2, <2>3 DEF LifeTypeOK
<1>2. EndInv /\ QuitInv /\ EditInv
  <2>1. waited.edit = 0 /\ waited.quit = 0 /\ waited.end = 0 /\ tuning.used = 0 /\ tuning.behind = FALSE
    OBVIOUS
  <2>2. EndInv /\ QuitInv
    BY <2>1, AboveOrZero, Zenon DEF EndInv, QuitInv
  <2>3. EditInv
    BY <2>1, AboveOrZero, Zenon DEF EditInv, SettingsReachTheNextCapture
  <2>4. QED
    BY <2>2, <2>3
<1>3. TrustInv
  <2>1. waited.trust = 0
    OBVIOUS
  <2>2. trust.frames = TrustPollFrames
    <3>1. PICK granted \in BOOLEAN : trust = [granted |-> granted, shown |-> TRUE, frames |-> TrustPollFrames]
      OBVIOUS
    <3>2. QED
      BY <3>1
  <2>3. QED
    BY <2>1, <2>2, Frames, Zenon DEF TrustInv
<1>4. ResultInv /\ RestoreInv
  BY DEF ResultInv, ResultIsThePipelines, RestoreInv, RestoresAreGivenBack, Returning, Sleeping, Back
<1>5. QED
  BY <1>1, <1>2, <1>3, <1>4 DEF LifeInv

(* Every step keeps the invariant.                                         *)
LEMMA LifeStep == LifeInv /\ [LifeNext]_lifeVars => LifeInv'
BY LifeTypeStep, EndStep, QuitStep, EditStep, TrustStep, ResultStep, RestoreStep DEF LifeInv

(* The variables of main.rs and of its history keep their types.           *)
THEOREM LifeTypes == LifeSpec => []LifeTypeOK
<1>1. LifeInv => LifeTypeOK
  BY DEF LifeInv
<1>2. QED
  BY <1>1, LifeStarts, LifeStep, PTL DEF LifeSpec

(* Whatever the order of the threads, the clicks, the edits and the frames: the        *)
(* process ends with what its pipeline ended with, acts within a frame on the end of   *)
(* the pipeline, on Quit and on an edit, gives back what it borrowed, and never        *)
(* captures with a setting older than that.                                            *)
THEOREM LifeIsOrderly == LifeSpec => []ProcessIsOrderly
<1>1. LifeInv => ProcessIsOrderly
  <2> SUFFICES ASSUME LifeInv PROVE ProcessIsOrderly
    OBVIOUS
  <2>1. waited.trust \in Nat /\ trust.frames \in 1..TrustPollFrames /\ waited.trust < trust.frames
    BY DEF LifeInv, LifeTypeOK, TrustInv
  <2>2. waited.trust < TrustPollFrames
    BY <2>1, LifeAssumption
  <2>3. NothingWaitsLong
    BY <2>2 DEF LifeInv, EndInv, QuitInv, EditInv, NothingWaitsLong
  <2>4. QED
    BY <2>3 DEF LifeInv, ResultInv, RestoreInv, EditInv, ProcessIsOrderly
<1>2. QED
  BY <1>1, LifeStarts, LifeStep, PTL DEF LifeSpec

(***************************************************************************)
(* The chords a user writes.                                               *)
(***************************************************************************)

\* What is read is a chord: a side key stands alone, and without a key there is only fn.
ChordRead(c) ==
  /\ c \in Chord
  /\ c.key \in SideKeys => c.mods = {}
  /\ c.key = NoKey => c.mods = {"fn"}

\* The three kinds of keys are three.
LEMMA KeysApart ==
  /\ NoKey \notin PlainKeys /\ NoKey \notin SideKeys
  /\ SideKeys \cap PlainKeys = {}
  /\ SideKeys = {"left-shift", "right-shift", "left-option", "right-option"}
  /\ PlainKeys = {"space", "tab", "escape", "a", "-", "?", "f5"}
  BY DEF NoKey, PlainKeys, SideKeys, Generic, FunctionRow

\* A printed modifier or key is read as itself.
LEMMA ReadAsItself ==
  /\ \A m \in Modifiers : m \in DOMAIN ModifierOf /\ ModifierOf[m] = m
  /\ \A k \in PlainKeys \cup SideKeys :
       k \in DOMAIN KeyOf /\ KeyOf[k] = k /\ k \notin DOMAIN ModifierOf /\ k \notin Junk
<1>1. \A m \in Modifiers : m \in DOMAIN ModifierOf /\ ModifierOf[m] = m
  BY DEF Modifiers, ModifierOf
<1>2. \A k \in PlainKeys \cup SideKeys : k \in DOMAIN KeyOf /\ KeyOf[k] = k
  BY KeysApart DEF KeyOf
<1>3. \A k \in PlainKeys \cup SideKeys : k \notin DOMAIN ModifierOf /\ k \notin Junk
  BY KeysApart DEF ModifierOf, Junk
<1> QED
  BY <1>1, <1>2, <1>3

\* Every spelling of a modifier is one of the five, of a key one of the keys.
LEMMA Spellings ==
  /\ \A t \in DOMAIN ModifierOf : ModifierOf[t] \in Modifiers
  /\ \A t \in DOMAIN KeyOf : KeyOf[t] \in PlainKeys \cup SideKeys
<1>1. \A t \in DOMAIN ModifierOf : ModifierOf[t] \in Modifiers
  BY DEF Modifiers, ModifierOf
<1>2. \A t \in DOMAIN KeyOf : KeyOf[t] \in PlainKeys \cup SideKeys
  BY KeysApart DEF KeyOf
<1> QED
  BY <1>1, <1>2

\* What the parser accepts is a chord.
LEMMA ParsesToChord ==
  ASSUME NEW tokens \in Seq(Tokens), ParseChord(tokens) # Refused
  PROVE  ChordRead(ParseChord(tokens))
<1> DEFINE keys == KeyPlaces(tokens)
           c == [mods |-> ModsRead(tokens), key |-> KeyRead(tokens)]
<1>1. ~IsRefused(tokens) /\ ParseChord(tokens) = c
  BY DEF ParseChord
<1>2. ModsRead(tokens) \subseteq Modifiers
  BY Spellings DEF ModsRead, KeyPlaces
<1>3. KeyRead(tokens) \in PlainKeys \cup SideKeys \cup {NoKey}
  <2>1. CASE keys = {}
    BY <2>1 DEF KeyRead
  <2>2. CASE keys # {}
    <3> DEFINE i == CHOOSE j \in keys : TRUE
    <3>1. i \in keys
      BY <2>2
    <3>2. tokens[i] \in Tokens /\ tokens[i] \notin DOMAIN ModifierOf
      BY <3>1 DEF KeyPlaces
    <3>3. tokens[i] \notin Junk
      BY <1>1, <3>1 DEF IsRefused
    <3>4. tokens[i] \in DOMAIN KeyOf
      BY <3>2, <3>3 DEF Tokens
    <3> QED
      BY <3>4, <2>2, Spellings DEF KeyRead
  <2> QED
    BY <2>1, <2>2
<1>4. /\ KeyRead(tokens) \in SideKeys => ModsRead(tokens) = {}
      /\ KeyRead(tokens) = NoKey => ModsRead(tokens) = {"fn"}
  BY <1>1 DEF IsRefused
<1> QED
  BY <1>1, <1>2, <1>3, <1>4 DEF ChordRead, Chord

\* A text of modifiers that names those of M.
Names(tokens, M) ==
  /\ tokens \in Seq(Modifiers)
  /\ \A i \in DOMAIN tokens : tokens[i] \in M
  /\ \A m \in M : \E i \in DOMAIN tokens : tokens[i] = m

\* One modifier more is shown.
LEMMA ShownNext ==
  ASSUME NEW c, NEW tokens, NEW M, NEW m \in Modifiers, Names(tokens, M)
  PROVE  Names(tokens \o Shown(c, m), M \cup ({m} \cap c.mods))
<1> DEFINE longer == tokens \o <<m>>
<1>1. tokens \in Seq(Modifiers)
  BY DEF Names
<1>2. CASE m \notin c.mods
  <2>1. tokens \o Shown(c, m) = tokens
    BY <1>1, <1>2 DEF Shown
  <2>2. M \cup ({m} \cap c.mods) = M
    BY <1>2
  <2> QED
    BY <2>1, <2>2
<1>3. CASE m \in c.mods
  <2>1. tokens \o Shown(c, m) = longer
    BY <1>3 DEF Shown
  <2>2. M \cup ({m} \cap c.mods) = M \cup {m}
    BY <1>3
  <2>3. /\ longer \in Seq(Modifiers) /\ Len(longer) = Len(tokens) + 1
        /\ \A i \in 1..Len(tokens) : longer[i] = tokens[i]
        /\ longer[Len(tokens) + 1] = m
    BY <1>1
  <2>4. DOMAIN longer = 1..(Len(tokens) + 1) /\ DOMAIN tokens = 1..Len(tokens) /\ Len(tokens) \in Nat
    BY <2>3, <1>1
  <2> HIDE DEF longer
  <2>5. \A i \in DOMAIN longer : longer[i] \in M \cup {m}
    <3> TAKE i \in DOMAIN longer
    <3>1. i \in 1..Len(tokens) \/ i = Len(tokens) + 1
      BY <2>4
    <3> QED
      BY <3>1, <2>3, <2>4 DEF Names
  <2>6. \A n \in M \cup {m} : \E i \in DOMAIN longer : longer[i] = n
    <3> TAKE n \in M \cup {m}
    <3>1. CASE n = m
      BY <3>1, <2>3, <2>4
    <3>2. CASE n \in M
      <4>1. PICK i \in 1..Len(tokens) : tokens[i] = n
        BY <3>2, <2>4 DEF Names
      <4> QED
        BY <4>1, <2>3, <2>4
    <3> QED
      BY <3>1, <3>2
  <2> QED
    BY <2>1, <2>2, <2>3, <2>5, <2>6 DEF Names
<1> QED
  BY <1>2, <1>3

\* The modifiers of a chord as they are shown.
ModsShown(c) == Shown(c, "fn") \o Shown(c, "ctrl") \o Shown(c, "alt") \o Shown(c, "shift") \o Shown(c, "cmd")

\* All of them are shown, and nothing else.
LEMMA ModsAreShown ==
  ASSUME NEW c, c.mods \subseteq Modifiers
  PROVE  Names(ModsShown(c), c.mods)
<1> DEFINE a == Shown(c, "fn")
           b == a \o Shown(c, "ctrl")
           d == b \o Shown(c, "alt")
           e == d \o Shown(c, "shift")
           f == e \o Shown(c, "cmd")
           A == {"fn"} \cap c.mods
           B == A \cup ({"ctrl"} \cap c.mods)
           D == B \cup ({"alt"} \cap c.mods)
           E == D \cup ({"shift"} \cap c.mods)
           F == E \cup ({"cmd"} \cap c.mods)
<1>1. ModsShown(c) = f
  BY DEF ModsShown
<1>2. F = c.mods
  BY DEF Modifiers
<1>3. /\ "fn" \in Modifiers /\ "ctrl" \in Modifiers /\ "alt" \in Modifiers
      /\ "shift" \in Modifiers /\ "cmd" \in Modifiers
  BY DEF Modifiers
<1>4. Names(a, A)
  <2>1. Shown(c, "fn") = IF "fn" \in c.mods THEN <<"fn">> ELSE <<>>
    BY DEF Shown
  <2>2. CASE "fn" \in c.mods
    <3>1. Shown(c, "fn") = <<"fn">> /\ {"fn"} \cap c.mods = {"fn"}
      BY <2>1, <2>2
    <3>2. <<"fn">> \in Seq(Modifiers) /\ DOMAIN <<"fn">> = 1..1 /\ <<"fn">>[1] = "fn"
      BY <1>3
    <3> DEFINE t == <<"fn">>
    <3> HIDE DEF t
    <3>3. Names(t, {"fn"})
      BY <3>2 DEF Names, t
    <3> QED
      BY <3>1, <3>3 DEF a, A, t
  <2>3. CASE "fn" \notin c.mods
    <3>1. Shown(c, "fn") = <<>> /\ {"fn"} \cap c.mods = {}
      BY <2>1, <2>3
    <3>2. <<>> \in Seq(Modifiers) /\ DOMAIN <<>> = {}
      OBVIOUS
    <3> QED
      BY <3>1, <3>2 DEF Names, a, A
  <2> QED
    BY <2>2, <2>3
<1> HIDE DEF a, A
<1>5. Names(b, B)
  BY <1>3, <1>4, ShownNext
<1> HIDE DEF b, B
<1>6. Names(d, D)
  BY <1>3, <1>5, ShownNext
<1> HIDE DEF d, D
<1>7. Names(e, E)
  BY <1>3, <1>6, ShownNext
<1> HIDE DEF e, E
<1>8. Names(f, F)
  BY <1>3, <1>7, ShownNext
<1> QED
  BY <1>1, <1>2, <1>8

\* Modifiers alone are read as they are.
LEMMA ReadMods ==
  ASSUME NEW tokens, NEW M \in SUBSET Modifiers, Names(tokens, M)
  PROVE  KeyPlaces(tokens) = {} /\ ModsRead(tokens) = M /\ KeyRead(tokens) = NoKey
<1>1. \A i \in DOMAIN tokens : tokens[i] \in DOMAIN ModifierOf /\ ModifierOf[tokens[i]] = tokens[i]
  BY ReadAsItself DEF Names
<1>2. KeyPlaces(tokens) = {}
  BY <1>1 DEF KeyPlaces
<1>3. ModsRead(tokens) = {ModifierOf[tokens[i]] : i \in DOMAIN tokens}
  BY <1>2 DEF ModsRead
<1>4. ModsRead(tokens) = M
  <2>1. \A m \in ModsRead(tokens) : m \in M
    BY <1>1, <1>3 DEF Names
  <2>2. \A m \in M : m \in ModsRead(tokens)
    <3> TAKE m \in M
    <3>1. PICK i \in DOMAIN tokens : tokens[i] = m
      BY DEF Names
    <3> QED
      BY <3>1, <1>1, <1>3
  <2> QED
    BY <2>1, <2>2
<1> QED
  BY <1>2, <1>4 DEF KeyRead

\* Modifiers and a key after them too.
LEMMA ReadWithKey ==
  ASSUME NEW tokens, NEW M \in SUBSET Modifiers, Names(tokens, M), NEW k \in PlainKeys \cup SideKeys
  PROVE  LET whole == tokens \o <<k>>
         IN  /\ KeyPlaces(whole) = {Len(tokens) + 1} /\ whole[Len(tokens) + 1] = k /\ whole # <<>>
             /\ ModsRead(whole) = M /\ KeyRead(whole) = k
<1> DEFINE whole == tokens \o <<k>>
           n == Len(tokens)
<1>1. tokens \in Seq(Modifiers) /\ n \in Nat /\ DOMAIN tokens = 1..n
  BY DEF Names
<1>2. DOMAIN whole = 1..(n + 1) /\ whole[n + 1] = k /\ \A i \in 1..n : whole[i] = tokens[i]
  <2>1. tokens \in Seq(Modifiers \cup {k}) /\ <<k>> \in Seq(Modifiers \cup {k})
    BY <1>1
  <2> QED
    BY <2>1, <1>1
<1> HIDE DEF whole, n
<1>3. \A i \in 1..n : whole[i] \in DOMAIN ModifierOf /\ ModifierOf[whole[i]] = tokens[i]
  BY <1>1, <1>2, ReadAsItself DEF Names
<1>4. k \notin DOMAIN ModifierOf /\ KeyOf[k] = k
  BY ReadAsItself
<1>5. KeyPlaces(whole) = {n + 1}
  BY <1>1, <1>2, <1>3, <1>4 DEF KeyPlaces
<1>6. (DOMAIN whole) \ KeyPlaces(whole) = 1..n
  BY <1>1, <1>2, <1>5
<1>7. ModsRead(whole) = {ModifierOf[whole[i]] : i \in 1..n}
  BY <1>6 DEF ModsRead
<1>8. ModsRead(whole) = M
  <2>1. \A m \in ModsRead(whole) : m \in M
    BY <1>1, <1>3, <1>7 DEF Names
  <2>2. \A m \in M : m \in ModsRead(whole)
    <3> TAKE m \in M
    <3>1. PICK i \in 1..n : tokens[i] = m
      BY <1>1 DEF Names
    <3> QED
      BY <3>1, <1>3, <1>7
  <2> QED
    BY <2>1, <2>2
<1>9. KeyRead(whole) = k
  BY <1>2, <1>4, <1>5 DEF KeyRead
<1>10. whole # <<>>
  BY <1>1, <1>2
<1> QED
  BY <1>2, <1>5, <1>8, <1>9, <1>10 DEF whole, n

\* What is printed of a chord is read back as it.
LEMMA ShownIsRead ==
  ASSUME NEW c, ChordRead(c)
  PROVE  ParseChord(ShowChord(c)) = c
<1> DEFINE tokens == ModsShown(c)
           shown == ShowChord(c)
<1>1. c = [mods |-> c.mods, key |-> c.key] /\ c.mods \subseteq Modifiers
  BY DEF ChordRead, Chord
<1>2. Names(tokens, c.mods)
  BY <1>1, ModsAreShown
<1>3. shown = tokens \o (IF c.key = NoKey THEN <<>> ELSE <<c.key>>)
  BY DEF ShowChord, ModsShown
<1> HIDE DEF tokens, shown
<1>4. CASE c.key = NoKey
  <2>1. shown = tokens
    BY <1>2, <1>3, <1>4 DEF Names
  <2>2. c.mods = {"fn"}
    BY <1>4 DEF ChordRead
  <2>3. tokens # <<>>
    BY <1>2, <2>2 DEF Names
  <2>4. KeyPlaces(tokens) = {} /\ ModsRead(tokens) = {"fn"} /\ KeyRead(tokens) = NoKey
    BY <1>1, <1>2, <2>2, ReadMods
  <2>5. ~IsRefused(tokens)
    BY <2>3, <2>4, KeysApart DEF IsRefused
  <2> QED
    BY <1>1, <1>4, <2>1, <2>2, <2>4, <2>5 DEF ParseChord, shown
<1>5. CASE c.key # NoKey
  <2> DEFINE k == c.key
  <2>1. k \in PlainKeys \cup SideKeys
    BY <1>5 DEF ChordRead, Chord
  <2>2. shown = tokens \o <<k>>
    BY <1>3, <1>5
  <2>3. /\ KeyPlaces(shown) = {Len(tokens) + 1} /\ shown[Len(tokens) + 1] = k /\ shown # <<>>
        /\ ModsRead(shown) = c.mods /\ KeyRead(shown) = k
    BY <1>1, <1>2, <2>1, <2>2, ReadWithKey
  <2>4. k \notin Junk /\ k # NoKey
    BY <2>1, <1>5, ReadAsItself
  <2>5. ~IsRefused(shown)
    BY <2>3, <2>4 DEF IsRefused, ChordRead
  <2> QED
    BY <1>1, <2>3, <2>5 DEF ParseChord, shown
<1> QED
  BY <1>4, <1>5

\* A bit that is set where it was not is an edge downwards.
LEMMA DownEdge == EdgeFromBit(FALSE, TRUE).edge = "down"
<1>1. (TRUE = FALSE) = FALSE
  OBVIOUS
<1>2. (IF TRUE = FALSE THEN "none" ELSE IF TRUE THEN "down" ELSE "up") = "down"
  OBVIOUS
<1>3. EdgeFromBit(FALSE, TRUE).edge = IF TRUE = FALSE THEN "none" ELSE IF TRUE THEN "down" ELSE "up"
  BY DEF EdgeFromBit
<1> QED
  BY <1>2, <1>3

\* A modifier bound alone begins with its change of flags.
LEMMA BareFires ==
  ASSUME NEW c, ChordRead(c), c.key \notin PlainKeys
  PROVE  MacFeed(c, FALSE, Struck(c)).edge = "down"
<1>1. CASE c.key = NoKey
  <2> DEFINE ev == [type |-> "flags", code |-> "fn", flags |-> {"fn"}]
  <2>1. Struck(c) = ev
    BY <1>1 DEF Struck
  <2>2. MacFeed(c, FALSE, ev) = EdgeFromBit(FALSE, TRUE)
    BY <1>1, KeysApart DEF MacFeed
  <2> QED
    BY <2>1, <2>2, DownEdge
<1>2. CASE c.key # NoKey
  <2> DEFINE ev == [type |-> "flags", code |-> c.key, flags |-> {c.key, Generic[c.key]}]
  <2>1. c.key \in SideKeys
    BY <1>2 DEF ChordRead, Chord
  <2>2. Struck(c) = ev
    BY <1>2, <2>1 DEF Struck
  <2>3. MacFeed(c, FALSE, ev) = EdgeFromBit(FALSE, TRUE)
    BY <1>2, <2>1, KeysApart DEF MacFeed
  <2> QED
    BY <2>2, <2>3, DownEdge
<1> QED
  BY <1>1, <1>2

\* A chord with a key begins when the key is struck with its modifiers, whatever the key adds.
LEMMA StruckFires ==
  ASSUME NEW c, ChordRead(c), c.key \in PlainKeys
  PROVE  MacFeed(c, FALSE, Striking(c.key, c.mods)).edge = "down"
<1> DEFINE ev == Striking(c.key, c.mods)
<1>1. /\ ev.type = "down" /\ ev.code = c.key /\ ev.flags = c.mods \cup IntrinsicFn(c.key)
  BY DEF Striking
<1>2. IntrinsicFn(c.key) \subseteq {"fn"}
  BY DEF IntrinsicFn
<1>3. c.mods \subseteq Modifiers
  BY DEF ChordRead, Chord
<1>4. ev.flags \cap Mask(c) = c.mods
  <2>1. "fn" \in Modifiers
    BY DEF Modifiers
  <2>2. CASE "fn" \in c.mods
    <3>1. Mask(c) = Modifiers
      BY <2>2 DEF Mask
    <3> QED
      BY <3>1, <1>1, <1>2, <1>3, <2>1, <2>2
  <2>3. CASE "fn" \notin c.mods
    <3>1. Mask(c) = Modifiers \ {"fn"}
      BY <2>3 DEF Mask
    <3> QED
      BY <3>1, <1>1, <1>2, <1>3, <2>3
  <2> QED
    BY <2>2, <2>3
<1> HIDE DEF ev
<1>5. c.key # NoKey /\ c.key \notin SideKeys
  BY KeysApart
<1>6. MacFeed(c, FALSE, ev) = EdgeFromBit(FALSE, TRUE)
  BY <1>1, <1>4, <1>5 DEF MacFeed
<1> QED
  BY <1>6, DownEdge DEF ev

\* On Windows a bindable chord begins with its key, its modifiers held.
LEMMA HookFires ==
  ASSUME NEW c
  PROVE  WinFeed(c, [down |-> FALSE, mods |-> c.mods], c.key, TRUE).edge = "down"
  BY DEF WinFeed

\* A shortcut that is reported is struck as the chord is.
LEMMA ReportedFires ==
  ASSUME NEW c, ChordRead(c), c.key \in PlainKeys, c \notin StaticSystemChords,
         NEW s, FindConflicts(c, s) # {}
  PROVE  s.key = c.key /\ s.mods = c.mods
<1>1. c.key # NoKey
  BY KeysApart
<1> QED
  BY <1>1 DEF FindConflicts

\* The three promises, of whatever is written.
LEMMA WrittenIsRight ==
  ASSUME written \in Seq(Tokens)
  PROVE  BoundChordsFire
<1>1. chord # Refused => ChordRead(chord)
  BY ParsesToChord DEF chord
<1>2. ChordIsReadBack
  BY <1>1, ShownIsRead DEF ChordIsReadBack
<1> HIDE DEF chord
<1>3. BoundChordFires
  <2> SUFFICES ASSUME chord # Refused
               PROVE  MacFeed(chord, FALSE, Struck(chord)).edge = "down"
    BY HookFires DEF BoundChordFires
  <2>1. CASE chord.key \notin PlainKeys
    BY <1>1, <2>1, BareFires
  <2>2. CASE chord.key \in PlainKeys
    <3>1. Struck(chord) = Striking(chord.key, chord.mods)
      BY <2>2, KeysApart DEF Struck
    <3> QED
      BY <3>1, <1>1, <2>2, StruckFires
  <2> QED
    BY <2>1, <2>2
<1>4. ReportedConflictFires
  <2> SUFFICES ASSUME NEW s \in Shortcuts, chord # Refused, chord.key \in MacKeys,
                      chord \notin StaticSystemChords, FindConflicts(chord, s) # {}
               PROVE  MacFeed(chord, FALSE, Striking(s.key, s.mods)).edge = "down"
    BY DEF ReportedConflictFires
  <2>1. chord.key \in PlainKeys
    BY DEF MacKeys
  <2>2. s.key = chord.key /\ s.mods = chord.mods
    BY <1>1, <2>1, ReportedFires
  <2> QED
    BY <1>1, <2>1, <2>2, StruckFires
<1> QED
  BY <1>2, <1>3, <1>4 DEF BoundChordsFire

\* chord.rs, matcher.rs, conflict.rs: a chord that is accepted is stored so that the next start
\* reads the same, can be struck, and is warned of only when a shortcut takes the same keys.
THEOREM BoundAlwaysFire == ChordSpec => []BoundChordsFire
<1>1. ChordInit => written \in Seq(Tokens)
  BY DEF ChordInit
<1>2. written \in Seq(Tokens) /\ [TypeToken]_written => (written \in Seq(Tokens))'
  BY DEF TypeToken
<1> QED
  BY <1>1, <1>2, WrittenIsRight, PTL DEF ChordSpec
=============================================================================
