----------------------------- MODULE MainThread -----------------------------
(***************************************************************************)
(* The life of an outloud process once its command line is accepted: the   *)
(* second half of main in crates/outloud/src/main.rs with the two          *)
(* overlay_main, the switches of runtime.rs the main thread and the        *)
(* pipeline share, and the clipboard restores of inject.rs that main waits *)
(* for.  The main thread owns the display (macOS, Windows), or only the    *)
(* settings (headless), or runs the pipeline itself (--once, headless).    *)
(***************************************************************************)
EXTENDS Naturals, FiniteSets

CONSTANTS
  TrustPollFrames, \* frames between two looks at a permission
  MaxEdits,        \* bound: times the settings file is edited
  MaxRestores      \* bound: deliveries that borrow the clipboard

ASSUME LifeAssumption == {TrustPollFrames, MaxEdits, MaxRestores} \subseteq Nat \ {0} /\ TrustPollFrames > 1

VARIABLES
  plan,     \* the system, the options, and what of the desktop can be had
  mainAt,   \* where the main thread is
  pipe,     \* the pipeline, on a thread of its own but for --once without display
  exit,     \* what the process ends with
  restores, \* per delivery: whether the clipboard is back, "lost" when it never will
  joins,    \* PENDING_RESTORES, and the threads that are being waited for
  trust,    \* the permission, what the menu is told of it, frames since the last look
  tuning,   \* a setting: in the file, published to the pipeline, and used by the last capture
  clicks,   \* rows clicked and not yet performed
  waited    \* history: frames begun since something changed

lifeVars == <<plan, mainAt, pipe, exit, restores, joins, trust, tuning, clicks, waited>>

Ended == {"ok", "error", "panic"}
Ids == 1..MaxRestores

\* At most one thing is unusual: the desktop has no window or does not draw it,
\* the hotkey is taken, or the sensitivity is given as a flag.
Oddities == {"none", "no window", "cannot draw", "hotkey taken", "flag"}

\* has_overlay, unless --no-overlay.
Display == plan.os # "linux" /\ plan.overlay
\* Only a daemon has a menu host; a --once run has no settings to follow.
Host == ~plan.once
\* Whether anybody drains the watcher: with a display it takes the icon as well.
Polls == Host /\ (Display => plan.icon)

LifeInit ==
  /\ plan \in [os : {"macos", "windows", "linux"}, overlay : BOOLEAN, once : BOOLEAN, icon : BOOLEAN, odd : Oddities]
  \* One value for what this layout never looks at.
  /\ plan.os = "linux" => ~plan.overlay
  /\ ~Display => ~plan.icon /\ plan.odd \notin {"no window", "cannot draw"}
  /\ mainAt = "laid out" /\ pipe = "off" /\ exit = "none"
  /\ restores = [i \in Ids |-> "none"] /\ joins = [pending |-> {}, taken |-> {}, owed |-> {}]
  /\ \E granted \in BOOLEAN : trust = [granted |-> granted, shown |-> TRUE, frames |-> TrustPollFrames]
  /\ tuning = [file |-> 1, published |-> 1, used |-> 0, behind |-> FALSE]
  /\ clicks = {} /\ waited = [edit |-> 0, quit |-> 0, end |-> 0, trust |-> 0]

-----------------------------------------------------------------------------
(* The pipeline                                                            *)

\* run_pipeline: a daemon that cannot have its hotkey must not run.
PipelineStarts ==
  /\ pipe = "starting"
  /\ pipe' = IF ~plan.once /\ plan.odd = "hotkey taken" THEN "error" ELSE "running"
  /\ UNCHANGED <<plan, mainAt, exit, restores, joins, trust, tuning, clicks, waited>>

Borrowing == \E i \in Ids : restores[i] = "inline"

\* The pipeline returns its reports or an error, or panics; a --once run that
\* committed nothing is an error as well.
PipelineEnds ==
  /\ pipe = "running" /\ ~Borrowing /\ mainAt # "gone"
  /\ pipe' \in Ended
  /\ UNCHANGED <<plan, mainAt, exit, restores, joins, trust, tuning, clicks, waited>>

\* Mutant: the value copied at startup stays in force.
StartupSensitivity == IF plan.odd = "flag" THEN 0 ELSE 1
\* current_sensitivity: the flag (0), the live view of a daemon, the value at startup.
CurrentSensitivity == IF plan.odd = "flag" THEN 0 ELSE IF Host THEN tuning.published ELSE 1

\* A capture begins: the segmenter is built with the setting in force.
CaptureBegins ==
  /\ pipe = "running" /\ ~Borrowing /\ exit = "none"
  /\ tuning' = [tuning EXCEPT !.used = CurrentSensitivity,
                              !.behind = CurrentSensitivity # tuning.file /\ waited.edit > 1]
  /\ UNCHANGED <<plan, mainAt, pipe, exit, restores, joins, trust, clicks, waited>>

\* Mutant: the unfinished are dropped instead of the finished.
RetainFinished == {j \in joins.pending : restores[j] = "done"}
RetainUnfinished == {j \in joins.pending : restores[j] # "done"}

\* A delivery through the clipboard: it is given back in line, or on macOS by a
\* thread that is registered.
BorrowClipboard(i) ==
  /\ pipe = "running" /\ ~Borrowing /\ mainAt # "gone" /\ restores[i] = "none"
  /\ \A j \in Ids : j < i => restores[j] # "none"
  /\ \/ restores' = [restores EXCEPT ![i] = "inline"] /\ UNCHANGED joins
     \/ /\ plan.os = "macos" /\ restores' = [restores EXCEPT ![i] = "sleeping"]
        /\ joins' = [joins EXCEPT !.pending = RetainUnfinished \cup {i}]
  /\ UNCHANGED <<plan, mainAt, pipe, exit, trust, tuning, clicks, waited>>

GiveBack(i) ==
  /\ restores[i] \in {"inline", "sleeping"} /\ restores' = [restores EXCEPT ![i] = "done"]
  /\ UNCHANGED <<plan, mainAt, pipe, exit, joins, trust, tuning, clicks, waited>>

-----------------------------------------------------------------------------
(* The main thread                                                         *)

\* What is borrowed when main begins to return, on a thread that is registered.
Leave(result) ==
  /\ mainAt' = "leaving" /\ exit' = result
  /\ joins' = [joins EXCEPT !.owed = {i \in Ids : restores[i] = "sleeping"}]

\* A display that cannot be had is an error; a missing icon is not.
SpawnPipeline ==
  /\ mainAt = "laid out"
  /\ IF Display /\ plan.odd = "no window" THEN Leave("error") /\ UNCHANGED pipe
     ELSE /\ mainAt' = IF Display THEN "frame" ELSE IF Host THEN "waiting" ELSE "running"
          /\ pipe' = "starting" /\ UNCHANGED <<exit, joins>>
  /\ UNCHANGED <<plan, restores, trust, tuning, clicks, waited>>

\* What the pipeline's end is to the process: a panic on another thread is only
\* seen as a channel without a sender.
Reported(end) == IF end = "panic" /\ mainAt # "running" THEN "error" ELSE end

\* Mutant: a pipeline that dies without reporting is waited for.
ReportedOnly == {"ok", "error"}
Noticed == Ended

PipelineReports ==
  /\ mainAt \in {"waiting", "running", "check"} /\ pipe \in Noticed
  /\ Leave(Reported(pipe))
  /\ UNCHANGED <<plan, pipe, restores, trust, tuning, clicks, waited>>

\* Frames begun with something still to be done, counted until it is too many.
Counted(n, due) == IF ~due THEN 0 ELSE IF n >= TrustPollFrames THEN n ELSE n + 1
WaitsOn ==
  [edit |-> Counted(waited.edit, TRUE), quit |-> Counted(waited.quit, "quit" \in clicks),
   end |-> Counted(waited.end, pipe \in Ended), trust |-> Counted(waited.trust, plan.os = "macos" /\ trust'.granted # trust'.shown)]

\* Headless: one second without news of the pipeline.
HeadlessPoll ==
  /\ mainAt = "waiting" /\ pipe \notin Noticed
  /\ tuning' = [tuning EXCEPT !.published = tuning.file]
  /\ waited' = [waited EXCEPT !.edit = Counted(@, TRUE)]
  /\ UNCHANGED <<plan, mainAt, pipe, exit, restores, joins, trust, clicks>>

\* Mutant: one frame more between two looks.
LooksLate == trust.frames > TrustPollFrames
Looks == trust.frames >= TrustPollFrames

\* The top of the loop: on macOS the permissions, polled and never prompted for.
BeginFrame ==
  /\ mainAt = "frame" /\ mainAt' = "render"
  /\ trust' = IF plan.os # "macos" THEN trust
              ELSE IF Looks THEN [trust EXCEPT !.shown = trust.granted, !.frames = 1]
              ELSE [trust EXCEPT !.frames = @ + 1]
  /\ waited' = WaitsOn
  /\ UNCHANGED <<plan, pipe, exit, restores, joins, tuning, clicks>>

\* Mutant: an overlay that cannot be drawn ends the process.
RenderedOrGone == IF plan.odd = "cannot draw" THEN Leave("error") ELSE mainAt' = "menu" /\ UNCHANGED <<exit, joins>>
\* A render error is logged, never fatal.
Rendered == mainAt' = "menu" /\ UNCHANGED <<exit, joins>>

Render ==
  /\ mainAt = "render" /\ Rendered
  /\ UNCHANGED <<plan, pipe, restores, trust, tuning, clicks, waited>>

\* drain_clicks and handle: Quit returns at once, whatever else was clicked.
PerformClicks(next) ==
  IF "quit" \in clicks /\ plan.icon /\ Host
  THEN Leave("ok") /\ UNCHANGED clicks
  ELSE /\ mainAt' = next /\ UNCHANGED <<exit, joins>>
       /\ clicks' = IF plan.icon /\ Host THEN {} ELSE clicks

\* The file is polled, the menu drawn; on macOS its clicks are performed here.
Menu ==
  /\ mainAt = "menu"
  /\ tuning' = IF Polls THEN [tuning EXCEPT !.published = tuning.file] ELSE tuning
  /\ IF plan.os = "macos" THEN PerformClicks("events")
     ELSE mainAt' = "events" /\ UNCHANGED <<exit, joins, clicks>>
  /\ UNCHANGED <<plan, pipe, restores, trust, waited>>

\* The queue of the window system is drained.  An open menu has a loop of its
\* own, inside the call that delivers the click.
Events ==
  /\ mainAt = "events"
  /\ \/ mainAt' = (IF plan.os = "macos" THEN "check" ELSE "clicks")
     \/ plan.icon /\ Host /\ mainAt' = "tracking"
  /\ UNCHANGED <<plan, pipe, exit, restores, joins, trust, tuning, clicks, waited>>

MenuCloses ==
  /\ mainAt = "tracking" /\ mainAt' = "events"
  /\ clicks' \in {clicks, clicks \cup {"quit"}}
  /\ UNCHANGED <<plan, pipe, exit, restores, joins, trust, tuning, waited>>

WindowsClicks ==
  /\ mainAt = "clicks" /\ PerformClicks("check")
  /\ UNCHANGED <<plan, pipe, restores, trust, tuning, waited>>

NextFrame ==
  /\ mainAt = "check" /\ pipe \notin Noticed /\ mainAt' = "frame"
  /\ UNCHANGED <<plan, pipe, exit, restores, joins, trust, tuning, clicks, waited>>

\* Mutant: nobody waits for the threads.
NothingTaken == {}
Taken == joins.pending

\* drain_pending_restores, from the destructor main declared first: the list is
\* taken once, and every thread of it joined.
DrainRestores ==
  /\ mainAt = "leaving" /\ mainAt' = "draining"
  /\ joins' = [joins EXCEPT !.taken = Taken, !.pending = {}]
  /\ UNCHANGED <<plan, pipe, exit, restores, trust, tuning, clicks, waited>>

\* The process ends with its last destructor, and every other thread with it.
ProcessEnds ==
  /\ mainAt = "draining" /\ \A i \in joins.taken : restores[i] = "done"
  /\ mainAt' = "gone"
  /\ restores' = [i \in Ids |-> IF restores[i] \in {"inline", "sleeping"} THEN "lost" ELSE restores[i]]
  /\ UNCHANGED <<plan, pipe, exit, joins, trust, tuning, clicks, waited>>

-----------------------------------------------------------------------------
(* The user and the desktop                                                *)
EditFile ==
  /\ exit = "none" /\ tuning.file < MaxEdits
  /\ tuning' = [tuning EXCEPT !.file = @ + 1] /\ waited' = [waited EXCEPT !.edit = 0]
  /\ UNCHANGED <<plan, mainAt, pipe, exit, restores, joins, trust, clicks>>
GrantChanges ==
  /\ plan.os = "macos" /\ Display /\ exit = "none" /\ trust' = [trust EXCEPT !.granted = ~@]
  /\ UNCHANGED <<plan, mainAt, pipe, exit, restores, joins, tuning, clicks, waited>>

LifeNext ==
  \/ PipelineStarts \/ PipelineEnds \/ CaptureBegins
  \/ \E i \in Ids : BorrowClipboard(i) \/ GiveBack(i)
  \/ SpawnPipeline \/ PipelineReports \/ HeadlessPoll
  \/ BeginFrame \/ Render \/ Menu \/ Events \/ MenuCloses \/ WindowsClicks \/ NextFrame
  \/ DrainRestores \/ ProcessEnds
  \/ EditFile \/ GrantChanges

LifeSpec == LifeInit /\ [][LifeNext]_lifeVars

-----------------------------------------------------------------------------
(* What it promises                                                        *)

\* The process ends with what the pipeline ended with, a panic never as a success; the user's
\* Quit is the only other way to a success, and a display that cannot be had the
\* only other error: an overlay that fails to draw does not end dictation.
ResultIsThePipelines ==
  exit # "none" =>
    \/ exit = "ok" /\ pipe = "ok"
    \/ exit = "ok" /\ "quit" \in clicks /\ plan.icon /\ Host
    \/ exit = "error" /\ pipe \in {"error", "panic"}
    \/ exit = "error" /\ Display /\ plan.odd = "no window" /\ pipe = "off"
    \/ exit = "panic" /\ pipe = "panic" /\ ~Display /\ ~Host

\* However the threads interleave, and whatever menu is open: the end of the
\* pipeline, a click on Quit and an edit of the file are acted on before a second
\* frame begins, and a permission given or taken is told within one poll.
NothingWaitsLong ==
  /\ waited.end <= 1 /\ waited.quit <= 1
  /\ Polls /\ waited.edit > 1 => tuning.published = tuning.file
  /\ waited.trust < TrustPollFrames

\* Whoever copied something gets it back: what a registered thread still has when main begins to
\* return is given back before the process ends; and unless the user quits, so is
\* everything.
RestoresAreGivenBack ==
  mainAt = "gone" =>
    /\ \A i \in joins.owed : restores[i] = "done"
    /\ "quit" \notin clicks => \A i \in Ids : restores[i] # "lost"

\* A daemon whose settings are polled never captures with a setting the user
\* changed more than a frame ago, unless a flag overrides it; and the flag is
\* never overridden by the file.
SettingsReachTheNextCapture ==
  /\ Polls /\ plan.odd # "flag" => ~tuning.behind
  /\ plan.odd = "flag" => tuning.used = 0

ProcessIsOrderly ==
  ResultIsThePipelines /\ NothingWaitsLong /\ RestoresAreGivenBack /\ SettingsReachTheNextCapture
=============================================================================
