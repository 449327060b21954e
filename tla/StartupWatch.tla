---------------------------- MODULE StartupWatch ----------------------------
(***************************************************************************)
(* The capture watchdog of crates/outloud/src/devlatency.rs: how late a    *)
(* device delivers its first sample, and whether an utterance delivered    *)
(* any sound at all.  A pure value owned by the supervisor.                *)
(*                                                                         *)
(* The `warned` list only picks the wording of the slow-start advice, and  *)
(* always equals `slow`; it is left out.                                   *)
(***************************************************************************)
CONSTANTS
  Device,   \* the names capture can report
  NoDevice  \* Option::None, reported to the user as "microphone"

ASSUME DeviceAssumption == NoDevice \notin Device

Watch == [timing       : BOOLEAN,                        \* opened_at.is_some()
          device       : Device \cup {NoDevice},
          slow         : SUBSET (Device \cup {NoDevice}),
          heard        : BOOLEAN,                        \* heard_anything
          silentWarned : SUBSET (Device \cup {NoDevice})]

NewWatch == [timing |-> FALSE, device |-> NoDevice, slow |-> {},
             heard |-> FALSE, silentWarned |-> {}]

OnOpen(w) == [w EXCEPT !.timing = TRUE, !.heard = FALSE]

OnDevice(w, d) == [w EXCEPT !.device = d]

OnClose(w) == [w EXCEPT !.timing = FALSE]

OnAudio(w, audible) == [w EXCEPT !.heard = @ \/ audible]

\* The first chunk since the stream opened, late when it missed the pre-roll.
OnFirstAudio(w, late) ==
  IF w.timing
  THEN [w EXCEPT !.timing = FALSE,
                 !.slow = IF late THEN @ \cup {w.device} ELSE @]
  ELSE w

\* on_utterance_end reports a silent capture once per device.
EndsSilent(w) == ~w.heard /\ w.device \notin w.silentWarned

OnUtteranceEnd(w) ==
  IF EndsSilent(w) THEN [w EXCEPT !.silentWarned = @ \cup {w.device}] ELSE w

CurrentDeviceIsSlow(w) == w.device \in w.slow \ {NoDevice}
=============================================================================
