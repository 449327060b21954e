------------------------------- MODULE Doctor -------------------------------
(***************************************************************************)
(* crates/diag: the doctor runs its checks one after the other against the *)
(* machine and says pass, warn or fail, with the class of what is wrong    *)
(* (lib.rs, checks.rs), and the worst of them is its verdict               *)
(* (bin/doctor.rs).  The machine is a record of the facts the probes read; *)
(* what a remedy says is left out, except that some send the user to       *)
(* another check first.                                                    *)
(***************************************************************************)
EXTENDS Naturals, Sequences, SequencesExt, FiniteSets, FiniteSetsExt, TLC

CONSTANTS
  Systems,    \* the platforms the doctor is run on
  MaxListed   \* bound: processes pgrep lists

VARIABLES
  patient,    \* the machine
  reports,    \* what the checks have said so far, in the order of the registry
  moved,      \* accessibility was granted or taken away meanwhile
  verdict     \* the exit code, once the report is printed

doctorVars == <<patient, reports, moved, verdict>>

\* A command line with the program's name in it: a daemon of a bundle, of a
\* build or of a Nix store, its helper, a trigger client, or something else.
Commands == {"bundle", "binary", "wrapped", "helper", "client", "other"}

Healthy(os) ==
  [os |-> os, ssh |-> FALSE, session |-> IF os = "linux" THEN "wayland" ELSE "own",
   shell |-> FALSE, viaLs |-> FALSE, mux |-> "none",
   exe |-> IF os = "macos" THEN "app" ELSE "bare", signature |-> "identity", behind |-> FALSE,
   trusted |-> TRUE, mic |-> "granted", monitoring |-> TRUE, socket |-> TRUE,
   front |-> "window", chromium |-> "off", pasteboard |-> TRUE,
   tools |-> {"wtype", "wl-copy", "wl-paste", "xclip"}, audio |-> "present",
   models |-> {"managed"}, disk |-> "ample", cpu |-> "fast", version |-> "26",
   pgrep |-> TRUE, listed |-> <<"wrapped">>]

\* What may be amiss, anywhere and on one platform only.
Everywhere ==
  [ssh |-> {TRUE}, shell |-> {TRUE}, mux |-> {"tmux", "screen"}, audio |-> {"no default", "none", "unreadable"},
   models |-> {{}, {"partial"}, {"verified"}, {"partial", "managed"}, {"placed"}},
   disk |-> {"short", "unknown"}, cpu |-> {"slow", "other"}, pgrep |-> {FALSE},
   listed |-> UNION {[1..n -> Commands] : n \in 0..MaxListed}]
OnMac ==
  [viaLs |-> {TRUE}, exe |-> {"doctor", "bare", "unknown"}, signature |-> {"adhoc", "unsigned", "no tool"},
   behind |-> {TRUE}, trusted |-> {FALSE}, mic |-> {"denied", "unknown"}, monitoring |-> {FALSE},
   front |-> {"none", "hidden", "gone", "api"}, chromium |-> {"shown", "hidden"}, pasteboard |-> {FALSE},
   version |-> {"13", "12", "odd", "no tool"}]
OnLinux ==
  [session |-> {"x11", "none"}, socket |-> {FALSE},
   tools |-> {{"wtype"}, {"wl-copy", "wl-paste"}, {"wl-copy"}, {"xclip"}, {}}]
Ills(os) ==
  LET all == Everywhere @@ (CASE os = "macos" -> OnMac [] os = "linux" -> OnLinux [] os = "windows" -> <<>>)
  IN UNION {{<<f, v>> : v \in all[f]} : f \in DOMAIN all}

\* At most two facts are amiss.
DoctorInit ==
  /\ \E os \in Systems : \E one, other \in Ills(os) :
       patient = [[Healthy(os) EXCEPT ![one[1]] = one[2]] EXCEPT ![other[1]] = other[2]]
  /\ reports = <<>> /\ moved = FALSE /\ verdict = "none"

IsMac == patient.os = "macos"
-----------------------------------------------------------------------------
(* CheckOutcome.                                                           *)
Verdict(status, class) == [status |-> status, class |-> class, after |-> "none"]
Pass == Verdict("pass", "none")
Warn(class) == Verdict("warn", class)
Fail(class) == Verdict("fail", class)
\* "fix the ... check first, then re-run doctor"
First(check) == [Warn("permission") EXCEPT !.after = check]

\* launched_from_shell: the wrapper's mark overrides what leaked through.
FromShell == ~patient.viaLs /\ patient.shell

\* Mutant: an untrusted doctor bundle passes, for the grant is not the app's.
AccessibilityLenient ==
  IF ~IsMac THEN Warn("environment")
  ELSE IF patient.trusted THEN IF FromShell THEN Warn("configuration") ELSE Pass
  ELSE IF FromShell THEN Fail("permission")
  ELSE IF patient.exe = "doctor" THEN Pass ELSE Fail("permission")

\* The grant is the responsible process's: a shell's when one launched it.
AccessibilityPermission ==
  IF ~IsMac THEN Warn("environment")
  ELSE IF patient.trusted THEN IF FromShell THEN Warn("configuration") ELSE Pass
  ELSE IF FromShell THEN Fail("permission")
  ELSE IF patient.exe = "doctor" THEN Warn("configuration") ELSE Fail("permission")

\* Mutant: the doctor's own grant is shown for the app's.
MonitoringOfAnyone == IF ~IsMac \/ patient.monitoring THEN Pass ELSE Fail("permission")

InputMonitoringPermission ==
  IF ~IsMac THEN Pass
  ELSE IF patient.exe = "doctor" THEN Warn("configuration")
  ELSE IF patient.monitoring THEN Pass ELSE Fail("permission")

LinuxHotkeyTrigger == IF patient.os # "linux" \/ patient.socket THEN Pass ELSE Fail("configuration")

\* tcc_microphone_state, which needs a database the system may not let it read.
MicrophonePermission ==
  IF ~IsMac \/ patient.mic = "granted" THEN Pass
  ELSE IF patient.mic = "denied" THEN Fail("permission") ELSE Warn("permission")

\* classify_codesign_output.
CodeSignature ==
  IF ~IsMac THEN Pass
  ELSE IF patient.exe = "unknown" THEN Fail("bug")
  ELSE CASE patient.signature = "no tool" -> Warn("environment")
         [] patient.signature = "unsigned" -> Fail("configuration")
         [] patient.signature = "adhoc" -> Warn("configuration")
         [] patient.signature = "identity" -> Pass

BundleLaunch == IF ~IsMac \/ patient.exe \in {"app", "doctor"} THEN Pass ELSE Warn("configuration")

\* The built binary is minutes newer than the bundle beside it.
BundleFreshness == IF patient.behind /\ patient.exe # "unknown" THEN Warn("configuration") ELSE Pass

\* A window of the frontmost application, with the error's own class when the
\* scan fails (classify_ax_error).
WindowVisibility ==
  IF ~IsMac THEN Pass
  ELSE IF ~patient.trusted THEN First("accessibility-permission")
  ELSE CASE patient.front = "window" -> Pass
         [] patient.front \in {"none", "hidden", "gone"} -> Warn("environment")
         [] patient.front = "api" -> Warn("bug")

ChromiumOptIn ==
  IF ~IsMac \/ patient.chromium = "off" THEN Pass
  ELSE IF ~patient.trusted THEN First("accessibility-permission")
  ELSE IF patient.chromium = "shown" THEN Pass ELSE Warn("configuration")
-----------------------------------------------------------------------------
(* The session, its terminal and its clipboard.                            *)
\* detect_display_on.
Display ==
  IF patient.ssh THEN "headless"
  ELSE IF IsMac THEN "aqua"
  ELSE IF patient.os = "windows" THEN "desktop"
  ELSE IF patient.session = "none" THEN "headless" ELSE patient.session

HasWlClipboard == {"wl-copy", "wl-paste"} \subseteq patient.tools

\* Mutant: a Wayland session without wtype fails, clipboard or not.
WaylandNeedsWtype == IF "wtype" \in patient.tools THEN Pass ELSE Fail("configuration")

\* wayland_injection_outcome_for.
WaylandInjection ==
  IF "wtype" \in patient.tools THEN Pass
  ELSE IF HasWlClipboard THEN Warn("configuration") ELSE Fail("configuration")

DisplayServer ==
  CASE Display \in {"aqua", "desktop", "x11"} -> Pass
    [] Display = "wayland" -> WaylandInjection
    [] Display = "headless" -> Fail("environment")

\* detect_terminal: a shell's TERM, and what stands between it and the screen.
TerminalEmulator ==
  IF patient.shell /\ (patient.ssh \/ patient.mux # "none") THEN Warn("environment") ELSE Pass

\* linux_clipboard_outcome_for.
Clipboard ==
  CASE IsMac -> IF patient.pasteboard THEN Pass ELSE Fail("environment")
    [] patient.os = "windows" -> Pass
    [] patient.session = "none" -> Fail("environment")
    [] patient.session = "wayland" -> IF HasWlClipboard THEN Pass ELSE Warn("configuration")
    [] patient.session = "x11" -> IF "xclip" \in patient.tools THEN Pass ELSE Warn("configuration")

\* probe_audio_input; only Windows knows of a default device.
AudioInput ==
  CASE patient.audio = "none" -> Fail("environment")
    [] patient.audio = "unreadable" -> Warn("environment")
    [] patient.audio = "no default" -> IF patient.os = "windows" THEN Warn("configuration") ELSE Pass
    [] patient.audio = "present" -> Pass
-----------------------------------------------------------------------------
(* Models, the machine itself, and who else is running.                    *)
\* Mutant: a download under way is taken for a model.
AnythingThere(files) == files # {}

\* A file of the fetcher's, named after its id, or one put there by hand:
\* neither an unfinished download nor the mark beside a model.
IsModel(files) == files \cap {"managed", "placed"} # {}

ModelFiles == IF IsModel(patient.models) THEN Pass ELSE Warn("configuration")
DiskSpace == IF patient.disk = "ample" THEN Pass ELSE Warn("environment")
CpuFeatures == IF patient.cpu = "fast" THEN Pass ELSE Warn("environment")

\* judge_macos_version.
PlatformVersion ==
  IF ~IsMac THEN Pass
  ELSE CASE patient.version = "26" -> Pass
         [] patient.version = "13" -> Warn("configuration")
         [] patient.version = "12" -> Fail("environment")
         [] patient.version = "odd" -> Warn("bug")
         [] patient.version = "no tool" -> Warn("environment")

\* Mutant: only a bundle is a daemon.
OnlyBundles(listed) == {i \in DOMAIN listed : listed[i] \in {"bundle", "helper"}}

\* judge_pgrep_output keeps what runs from a bundle, and what is called outloud.
Executables(listed) == {i \in DOMAIN listed : listed[i] # "other"}

\* judge_running_daemons: helpers are none.
CountDaemons(listed) == Cardinality({i \in Executables(listed) : listed[i] # "helper"})

\* Something matched and nothing was recognized: the check cannot tell.
RunningInstances ==
  IF ~patient.pgrep THEN Pass
  ELSE IF patient.listed # <<>> /\ Executables(patient.listed) = {} THEN Warn("bug")
  ELSE IF CountDaemons(patient.listed) > 1 THEN Fail("configuration") ELSE Pass
-----------------------------------------------------------------------------
\* registry.
Registry ==
  <<"accessibility-permission", "input-monitoring-permission", "linux-hotkey-trigger",
    "microphone-permission", "running-instances", "code-signature", "bundle-launch",
    "bundle-freshness", "window-visibility", "chromium-opt-in", "display-server",
    "terminal-emulator", "clipboard", "audio-input", "model-files", "disk-space",
    "cpu-features", "platform-version">>

Outcome(check) ==
  CASE check = "accessibility-permission" -> AccessibilityPermission
    [] check = "input-monitoring-permission" -> InputMonitoringPermission
    [] check = "linux-hotkey-trigger" -> LinuxHotkeyTrigger
    [] check = "microphone-permission" -> MicrophonePermission
    [] check = "running-instances" -> RunningInstances
    [] check = "code-signature" -> CodeSignature
    [] check = "bundle-launch" -> BundleLaunch
    [] check = "bundle-freshness" -> BundleFreshness
    [] check = "window-visibility" -> WindowVisibility
    [] check = "chromium-opt-in" -> ChromiumOptIn
    [] check = "display-server" -> DisplayServer
    [] check = "terminal-emulator" -> TerminalEmulator
    [] check = "clipboard" -> Clipboard
    [] check = "audio-input" -> AudioInput
    [] check = "model-files" -> ModelFiles
    [] check = "disk-space" -> DiskSpace
    [] check = "cpu-features" -> CpuFeatures
    [] check = "platform-version" -> PlatformVersion

\* run_all.
RunCheck ==
  /\ Len(reports) < Len(Registry)
  /\ reports' = Append(reports, Outcome(Registry[Len(reports) + 1]))
  /\ UNCHANGED <<patient, moved, verdict>>

\* The user goes to System Settings while the doctor runs.
MoveTrust ==
  /\ IsMac /\ ~moved /\ Len(reports) \in 1..(Len(Registry) - 1)
  /\ moved' = TRUE /\ patient' = [patient EXCEPT !.trusted = ~@]
  /\ UNCHANGED <<reports, verdict>>

\* main of the doctor: the worst status is its exit code.
Conclude ==
  /\ Len(reports) = Len(Registry) /\ verdict = "none"
  /\ verdict' = LET said == {reports[i].status : i \in DOMAIN reports}
                IN IF "fail" \in said THEN "fail" ELSE IF "warn" \in said THEN "warn" ELSE "pass"
  /\ UNCHANGED <<patient, reports, moved>>

DoctorNext == RunCheck \/ MoveTrust \/ Conclude

DoctorSpec == DoctorInit /\ [][DoctorNext]_doctorVars
-----------------------------------------------------------------------------
Of(check) == reports[CHOOSE i \in DOMAIN Registry : Registry[i] = check]
HasRun(check) == \E i \in DOMAIN reports : Registry[i] = check

(* checks.rs:367, :429: a check that cannot see for want of another says   *)
(* so.  The one it sends the user to has not passed, unless the grant was  *)
(* taken away between the two.                                             *)
BlameIsDeserved ==
  ~moved => \A i \in DOMAIN reports : reports[i].after # "none" => Of(reports[i].after).status # "pass"

(* checks.rs:1444: two copies both bind the hotkey and both record.  Two   *)
(* daemons pgrep lists, wherever each was installed, always fail the       *)
(* check; and one alone never does, its helpers running or not, as long as *)
(* no trigger client is caught in the act.                                 *)
TwoCopiesAreSeen ==
  HasRun("running-instances") /\ patient.pgrep =>
    LET Running(kinds) == Cardinality({i \in DOMAIN patient.listed : patient.listed[i] \in kinds})
        daemons == Running({"bundle", "binary", "wrapped"})
        failed == Of("running-instances").status = "fail"
    IN (daemons > 1 => failed) /\ (failed => daemons + Running({"client"}) > 1)

(* Two checks read the same clipboard tools: on a machine's own session    *)
(* the one does not say that no text can be delivered while the other      *)
(* finds the clipboard in order.                                           *)
ChecksAgree ==
  HasRun("clipboard") /\ patient.os = "linux" /\ ~patient.ssh =>
    (Of("display-server").status = "fail" => Of("clipboard").status # "pass")

(* The exit code 0 (doctor.rs, the code of the verdict) is taken by the    *)
(* scripts for "dictation works".  When                                    *)
(* nothing moved meanwhile, it is only given where it does: the app itself *)
(* is asked and not the doctor's bundle or a shell, with grants of its     *)
(* own, a whole model, no second daemon to be seen, and a recognizer the   *)
(* system has.                                                             *)
GreenMeansItWorks ==
  verdict = "pass" /\ ~moved =>
    /\ patient.exe = "app" /\ ~FromShell
    /\ patient.trusted /\ patient.monitoring /\ patient.mic = "granted" /\ patient.pasteboard
    /\ patient.models \cap {"managed", "placed"} # {} /\ patient.audio # "none" /\ patient.version = "26"
    /\ patient.pgrep => Cardinality({i \in DOMAIN patient.listed : patient.listed[i] \in {"bundle", "binary", "wrapped"}}) <= 1

(* The doctor says what is so: it sees two copies, its checks agree with   *)
(* one another, and it is green only where dictation works.                *)
DoctorIsRight == BlameIsDeserved /\ TwoCopiesAreSeen /\ ChecksAgree /\ GreenMeansItWorks
=============================================================================
