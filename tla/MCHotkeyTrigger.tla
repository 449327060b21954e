--------------------------- MODULE MCHotkeyTrigger ---------------------------
(***************************************************************************)
(* The hotkey on every platform, for TLC: the trigger socket of Linux, the *)
(* tap of macOS and the hook of Windows, and the chords they are bound to; *)
(* and the process that binds it, with its main thread and its pipeline.   *)
(* A behaviour is of one of them (part), so that their states add up and   *)
(* do not multiply; the others rest in one state.  One tick of the trigger *)
(* stands for the granularity at which the code compares times: a tap is a *)
(* release within one tick, the watchdog allows three ticks and looks      *)
(* every one or two of them, so a tap, a hold and a lost release all fit   *)
(* in a behaviour of MaxClock ticks.  The daemon may be paused and resumed *)
(* at any moment.                                                          *)
(***************************************************************************)
EXTENDS HotkeyTrigger, KeyHook, Chords, MainThread

VARIABLES
  everPaused,    \* history: the user has switched the daemon off
  part

Bound == {[mods |-> {}, key |-> "right-option"], [mods |-> {"shift"}, key |-> "space"],
          [mods |-> {"fn"}, key |-> NoKey]}

\* A process whose pipeline never starts.
LifeAsleep ==
  /\ plan = [os |-> "linux", overlay |-> FALSE, once |-> TRUE, icon |-> FALSE, odd |-> "none"]
  /\ trust = [granted |-> TRUE, shown |-> TRUE, frames |-> TrustPollFrames]
  /\ LifeInit

MCInit ==
  /\ part \in {"trigger", "hook", "chord", "process"}
  /\ Init /\ everPaused = FALSE
  /\ HookInit /\ (part # "hook" => hookOs = "macos" /\ binding = [mods |-> {"fn"}, key |-> NoKey])
  /\ ChordInit
  /\ \/ part = "process" /\ LifeInit
     \/ part # "process" /\ LifeAsleep

MCNext ==
  /\ UNCHANGED part
  /\ \/ part = "trigger" /\ Next /\ everPaused' = (everPaused \/ ~enabled') /\ UNCHANGED <<hookVars, written, lifeVars>>
     \/ part = "hook" /\ HookNext /\ UNCHANGED <<vars, everPaused, written, lifeVars>>
     \/ part = "chord" /\ TypeToken /\ UNCHANGED <<vars, everPaused, hookVars, lifeVars>>
     \/ part = "process" /\ LifeNext /\ UNCHANGED <<vars, everPaused, hookVars, written>>

MCSpec == MCInit /\ [][MCNext]_<<part, vars, everPaused, hookVars, written, lifeVars>>

(* As long as the daemon has not been paused, a machine that is capturing  *)
(* has a supervisor that knows, or will be told: "capture stays live" of   *)
(* taphold.rs.  A pause swallows the KeyDown of a tap that latches.        *)
UnpausedCaptureIsTold == everPaused \/ LiveCaptureIsTold

(* A capture has a key held down or a tap behind it, and the supervisor    *)
(* hears of its beginning and its end: through the socket, the tap and the *)
(* hook alike.                                                             *)
CaptureIsTold == UnpausedCaptureIsTold /\ HookIsFaithful
=============================================================================
