------------------------------- MODULE KeyHook -------------------------------
(***************************************************************************)
(* The macOS event tap (backend/macos.rs) and the Windows keyboard hook    *)
(* (backend/windows.rs) of crates/hotkey: a keyboard, the callback that    *)
(* feeds the matcher and the tap-hold machine, the ways the system stops   *)
(* calling it, and the recovery each backend has for them.  The callback   *)
(* runs in the order the keys are struck, so a keystroke and its callback  *)
(* are one step; missed and struck are history the program does not keep.  *)
(***************************************************************************)
EXTENDS KeyMatch, TapHold

CONSTANTS MaxHeld,      \* keys a user holds at once
          HookChords    \* the bindings tried

ASSUME HookChordsAssumption == HookChords \subseteq Chord

Keyboard == SideKeys \cup {"fn", "space"}

VARIABLES
  hookOs,       \* "macos" or "windows"
  binding,      \* the bound chord
  held,         \* the keys that are down
  hooked,       \* taps or hooks the system calls: 0, 1, or 2 after a replacement
  hookThread,   \* "runs", or "gone" when the watchdog gave up
  poisoned,     \* HookState's mutex is poisoned
  unseen,       \* an elevated window has the keyboard
  matcher,      \* [down, mods]
  tapHold,      \* the tap-hold machine
  listening,    \* what the consumer was told last: a capture is on
  missed,       \* a keystroke went by unseen since the last reset
  struck        \* the chord is down and was struck with exactly its modifiers

hookVars == <<hookOs, binding, held, hooked, hookThread, poisoned, unseen, matcher, tapHold,
              listening, missed, struck>>

BoundKey == IF binding.key = NoKey THEN "fn" ELSE binding.key
Pressing == tapHold.state \in {"Pressed", "LatchedPressed"}

HookInit ==
  /\ hookOs \in {"macos", "windows"}
  /\ binding \in {c \in HookChords : IF hookOs = "macos" THEN MacBindable(c) ELSE WinBindable(c)}
  /\ held = {} /\ hooked = 1 /\ hookThread = "runs" /\ poisoned = FALSE /\ unseen = FALSE
  /\ matcher = [down |-> FALSE, mods |-> {}] /\ tapHold = NewMachine
  /\ listening = FALSE /\ missed = FALSE /\ struck = FALSE

\* The consumer after the events of one call.
Heard(events) ==
  IF events = <<>> THEN listening
  ELSE CASE \E i \in 1..Len(events) : Commits(events[i])   -> FALSE
         [] \E i \in 1..Len(events) : events[i] = "Pressed" -> TRUE
         [] OTHER                                          -> listening

\* An edge reaches the machine; late says the key was down past the tap threshold.
React(edge, late) ==
  LET r == CASE edge = "down" -> OnKeyDown(tapHold, 0)
             [] edge = "up"   -> OnKeyUp(tapHold, IF late THEN TapThreshold ELSE 0)
             [] OTHER         -> Unmoved(tapHold)
  IN  tapHold' = r.machine /\ listening' = Heard(r.events)

\* One event through tap_callback.
TapCallback(ev, late) ==
  LET f == MacFeed(binding, matcher.down, ev)
  IN  matcher' = [matcher EXCEPT !.down = f.down] /\ React(f.edge, late)

\* One event through hook_proc; a second hook feeds it a second time, which moves nothing.
HookProc(code, isDown, late) ==
  LET f == WinFeed(binding, matcher, code, isDown)
      g == WinFeed(binding, f.m, code, isDown)
  IN  /\ matcher' = IF hooked = 2 THEN g.m ELSE f.m
      /\ React(f.edge, late)

Deaf == hooked = 0 \/ poisoned \/ unseen

\* Key k went to isDown and now is what is held after it; a repeat is a key down again.
Callback(k, isDown, now, late) ==
  \/ /\ Deaf /\ missed' = TRUE /\ UNCHANGED <<matcher, tapHold, listening>>
  \/ /\ ~Deaf /\ hookOs = "macos"
     /\ TapCallback([type |-> IF k \in SideKeys \cup {"fn"} THEN "flags"
                              ELSE IF isDown THEN "down" ELSE "up",
                     code |-> k, flags |-> GenericOf(now) \cup (now \cap SideKeys)], late)
     /\ UNCHANGED missed
  \/ /\ ~Deaf /\ hookOs = "windows" /\ k # "fn" /\ HookProc(k, isDown, late) /\ UNCHANGED missed
  \/ /\ ~Deaf /\ hookOs = "windows" /\ k = "fn" /\ UNCHANGED <<matcher, tapHold, listening, missed>>

\* With exactly its modifiers: a bare chord has none to match.
StruckWith(now) ==
  IsBare(binding) \/ GenericOf(now) \cap Mask(binding) = binding.mods

PressKeyboard(k) ==
  /\ k \notin held /\ Cardinality(held) < MaxHeld
  /\ held' = held \cup {k}
  /\ Callback(k, TRUE, held', FALSE)
  /\ struck' = IF k = BoundKey THEN StruckWith(held') ELSE struck
  /\ UNCHANGED <<hookOs, binding, hooked, hookThread, poisoned, unseen>>

\* A held key repeats: on Windows every key, on macOS no modifier.
RepeatKeyboard(k) ==
  /\ k \in held
  /\ hookOs = "windows" \/ k \notin SideKeys \cup {"fn"}
  /\ Callback(k, TRUE, held, FALSE)
  /\ struck' = (struck \/ (k = BoundKey /\ StruckWith(held)))
  /\ UNCHANGED <<hookOs, binding, held, hooked, hookThread, poisoned, unseen>>

ReleaseKeyboard(k) ==
  /\ k \in held /\ held' = held \ {k}
  /\ \E late \in BOOLEAN : Callback(k, FALSE, held', late)
  /\ struck' = (struck /\ k # BoundKey)
  /\ UNCHANGED <<hookOs, binding, hooked, hookThread, poisoned, unseen>>

\* Mutant: the machine is put back and nobody is told.
ResetsSilently ==
  /\ matcher' = [down |-> FALSE, mods |-> {}]
  /\ tapHold' = Reset(tapHold).machine /\ missed' = FALSE /\ struck' = FALSE
  /\ UNCHANGED listening

\* matcher.reset, machine.reset and its events, TapRecovered.
Resets ==
  /\ matcher' = [down |-> FALSE, mods |-> {}]
  /\ LET r == Reset(tapHold) IN tapHold' = r.machine /\ listening' = Heard(r.events)
  /\ missed' = FALSE /\ struck' = FALSE

\* The tap took too long or the user's input disabled it: it is called no more.
TapDisabled ==
  /\ hookOs = "macos" /\ hooked = 1 /\ hooked' = 0
  /\ UNCHANGED <<hookOs, binding, held, hookThread, poisoned, unseen, matcher, tapHold,
                 listening, missed, struck>>

\* Mutant: the tap is turned on again and what it missed is not thought of.
RearmOnly ==
  /\ hookOs = "macos" /\ hooked = 0 /\ hooked' = 1
  /\ UNCHANGED <<hookOs, binding, held, hookThread, poisoned, unseen, matcher, tapHold,
                 listening, missed, struck>>

\* The system's word that it did: the one event a disabled tap still gets.
TapDisabledEvent ==
  /\ hookOs = "macos" /\ hooked = 0 /\ hooked' = 1
  /\ Resets
  /\ UNCHANGED <<hookOs, binding, held, hookThread, poisoned, unseen>>

\* Windows removes a hook that was slow, and says nothing.
HookRemoved ==
  /\ hookOs = "windows" /\ hooked > 0 /\ hooked' = 0
  /\ UNCHANGED <<hookOs, binding, held, hookThread, poisoned, unseen, matcher, tapHold,
                 listening, missed, struck>>

\* A panic inside hook_proc, after the matcher was fed and before the machine was.
HookPanics(k) ==
  /\ hookOs = "windows" /\ ~Deaf /\ k \in held
  /\ poisoned' = TRUE /\ missed' = TRUE
  /\ matcher' = WinFeed(binding, matcher, k, TRUE).m
  /\ UNCHANGED <<hookOs, binding, held, hooked, hookThread, unseen, tapHold, listening, struck>>

FocusElevated ==
  /\ hookOs = "windows" /\ unseen' = ~unseen
  /\ UNCHANGED <<hookOs, binding, held, hooked, hookThread, poisoned, matcher, tapHold,
                 listening, missed, struck>>

(* One tick of pump_with_watchdog: a poisoned state is reset; a throwaway   *)
(* hook is installed and removed, and only when that fails is the live one  *)
(* replaced (probe and fresh say whether each SetWindowsHookEx succeeds).   *)
WatchdogTick(probe, fresh) ==
  /\ hookOs = "windows" /\ hookThread = "runs"
  /\ poisoned' = FALSE
  /\ IF poisoned \/ (~probe /\ fresh) THEN Resets
     ELSE UNCHANGED <<matcher, tapHold, listening, missed, struck>>
  /\ hooked' = IF probe THEN hooked
               ELSE IF fresh THEN (IF hooked = 2 THEN 2 ELSE hooked + 1) ELSE 0
  /\ hookThread' = IF probe \/ fresh THEN "runs" ELSE "gone"
  /\ UNCHANGED <<hookOs, binding, held, unseen>>

HookNext ==
  \/ \E k \in Keyboard : PressKeyboard(k) \/ RepeatKeyboard(k) \/ ReleaseKeyboard(k) \/ HookPanics(k)
  \/ TapDisabled \/ TapDisabledEvent \/ HookRemoved \/ FocusElevated
  \/ \E probe \in BOOLEAN, fresh \in BOOLEAN : WatchdogTick(probe, fresh)

HookSpec == HookInit /\ [][HookNext]_hookVars

(* The pump waits no longer than two seconds between ticks, and a system    *)
(* that can install hooks goes on being able to.                            *)
HookFair == HookSpec /\ WF_hookVars(TapDisabledEvent) /\ WF_hookVars(WatchdogTick(TRUE, TRUE))

-----------------------------------------------------------------------------
\* Without a keystroke lost, a capture that waits for its key to come up is one whose
\* key is down: no order of sides, modifiers released first or repeats strands the
\* microphone (matcher.rs:12-22, winmatch.rs:20-23).
CaptureNeedsTheKey == ~missed => (Pressing => BoundKey \in held)

\* On macOS a chord is heard when, and only when, it was struck with exactly its modifiers.
ChordIsHeard == hookOs = "macos" /\ ~missed => (Pressing <=> struck)

\* The consumer believes a capture is on exactly when the machine runs one, also after the
\* resets that follow a lost keystroke.
ConsumerIsTold == listening = CaptureLive(tapHold)

\* On macOS no keystroke is lost without a reset still to come: the tap is off, and the event
\* that turns it on again also ends the capture whose release may have gone by.
LossIsRecovered == hookOs = "macos" /\ missed => hooked = 0

\* windows.rs:26: "Mitigation two: the pump thread runs a 2s liveness watchdog that reinstalls
\* the hook if the OS dropped it and resets the matcher/state machine".
DroppedHookIsReinstalled == (hooked = 0 /\ hookThread = "runs") ~> (hooked > 0 \/ hookThread = "gone")

\* winmatch.rs:18: "key-DOWN requires the chord's modifiers to match exactly".
WindowsMatchesExactly == hookOs = "windows" /\ ~missed => (Pressing => struck)

\* A capture follows the bound key, and the consumer is told of every loss of it.
HookIsFaithful == CaptureNeedsTheKey /\ ChordIsHeard /\ ConsumerIsTold /\ LossIsRecovered
=============================================================================
