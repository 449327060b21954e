-------------------------------- MODULE Menu --------------------------------
(***************************************************************************)
(* outloud menubar.rs, menuhost.rs, autostart.rs and the display loops of  *)
(* main.rs, with overlay menu.rs, status_item.rs and win_tray.rs and the   *)
(* file watcher of config watch.rs: the menu that shows the settings and   *)
(* the live state, the clicks made on it, and the file both follow.        *)
(*                                                                         *)
(* The display thread runs in frames; the watcher is a thread of its own;  *)
(* the user edits the file and clicks rows; the rest of the daemon reports *)
(* what blocks it (a permission, the microphone).                          *)
(***************************************************************************)
EXTENDS Naturals, Sequences, FiniteSets

CONSTANTS
  Platforms,   \* of "macos" and "windows"
  MaxVersions, \* bound: times config.toml is written
  MaxClicks    \* bound: clicks not yet performed

ASSUME MenuAssumption ==
  Platforms \subseteq {"macos", "windows"} /\ MaxVersions \in Nat /\ MaxClicks \in Nat

Yes(b) == IF b THEN "true" ELSE "false"
Set(key, value) == <<"set", key, value>>
If(condition, sequence) == IF condition THEN sequence ELSE <<>>

\* A row: what it is called, whether it is ticked, and the number of its
\* action. Only the first two are on the screen.
Row(title, checked) == [title |-> title, checked |-> checked]


\* settings_menu: the groups of one value each, with their actions. (The other
\* hotkeys, and the steps of the sensitivity, are rows like F13.)
SettingsMenu(platform, s) ==
  << <<Row("F13", s.hotkey = "f13"), Set("hotkey", "f13")>> >>
    \o << <<Row("Show Floating Overlay", s.position # "hidden"),
            Set("position", IF s.position = "hidden" THEN "bottom-center" ELSE "hidden")>> >>
    \o If(platform = "windows",
         << <<Row("Overlay Follows Mouse", s.position = "near-mouse"),
              Set("position", IF s.position = "near-mouse" THEN "bottom-center" ELSE "near-mouse")>>,
            <<Row("Start at Login", s.login = "true"), Set("login", Yes(s.login # "true"))>> >>)

\* build: the rows in order; the first action has number 0.
Build(platform, blocked, s) ==
  If("accessibility" \in blocked, << <<Row("Open Accessibility Settings", FALSE), <<"pane", "accessibility">> >> >>)
    \o If("input" \in blocked, << <<Row("Open Input Monitoring Settings", FALSE), <<"pane", "input">> >> >>)
    \o If("microphone" \in blocked, << <<Row("Open Microphone Settings", FALSE), <<"pane", "microphone">> >> >>)
    \o << <<Row("Pause Dictation", s.enabled # "true"), Set("enabled", Yes(s.enabled # "true"))>> >>
    \o SettingsMenu(platform, s)
    \o << <<Row("Edit Config File", FALSE), <<"config">> >>, <<Row("Reload Config", FALSE), <<"reload">> >>,
          <<Row("Quit OutLoud", FALSE), <<"quit">> >> >>

RowsOf(menu) == [i \in DOMAIN menu |-> menu[i][1]]
ActionsOf(menu) == [i \in DOMAIN menu |-> menu[i][2]]

\* What a user who clicks a row asks for.
Asked(row) ==
  CASE row.title = "Pause Dictation" -> Set("enabled", Yes(row.checked))
    [] row.title = "Start at Login" -> Set("login", Yes(~row.checked))
    [] row.title = "Show Floating Overlay" -> Set("position", IF row.checked THEN "hidden" ELSE "bottom-center")
    [] row.title = "Overlay Follows Mouse" -> Set("position", IF row.checked THEN "bottom-center" ELSE "near-mouse")
    [] row.title = "Edit Config File" -> <<"config">>
    [] row.title = "Reload Config" -> <<"reload">>
    [] row.title = "Quit OutLoud" -> <<"quit">>
    [] row.title = "Open Accessibility Settings" -> <<"pane", "accessibility">>
    [] row.title = "Open Input Monitoring Settings" -> <<"pane", "input">>
    [] row.title = "Open Microphone Settings" -> <<"pane", "microphone">>
    [] OTHER -> Set("hotkey", "f13")

-----------------------------------------------------------------------------

VARIABLES
  platform,
  disk,     \* config.toml: what it sets, whether it is TOML, its version
  host,     \* MenuHost: settings, problems, actions, and the version it read
  live,     \* what the rest of the daemon goes by: the Pause switch, and the
            \* configuration kept for the per-application settings
  login,    \* the value in the registry that starts the daemon at login
  blocked,  \* what the daemon reports as blocked
  watch,    \* the watcher: its thread's baseline, polls since a change, events
  screen,   \* the rows drawn
  clicks,   \* clicks not yet performed: the row's number and what was asked
  loop,     \* the display loop: where it is, where it goes after a reload, and
            \* the file it is about to put in place
  gap,      \* history: the file changed after it was read and before the new
            \* watcher took its baseline
  misfired  \* history: a click did something else than the row it was made on said

menuVars == <<platform, disk, host, live, login, blocked, watch, screen, clicks, loop, gap, misfired>>

Unread == 0
NotYet == 0       \* a watcher whose thread has not looked yet
Calm == 0
Nowhere == <<>>
NewWatch == [base |-> NotYet, since |-> Calm, events |-> 0]
InLoop(where) == loop.at = where
GoTo(where) == loop' = [loop EXCEPT !.at = where]

\* What a fresh install sets, and what a broken file falls back on.
Defaults == [enabled |-> "true", hotkey |-> "right-option", position |-> "bottom-center", login |-> "false"]

MenuInit ==
  /\ platform \in Platforms
  /\ disk = [sets |-> Defaults, broken |-> FALSE, version |-> 1]
  /\ host = [settings |-> Defaults, problems |-> {}, actions |-> <<>>, read |-> Unread]
  /\ live = [enabled |-> "true", config |-> Defaults]
  /\ login = "false"
  /\ blocked = {}
  /\ watch = NewWatch /\ screen = <<>> /\ clicks = <<>>
  /\ loop = [at |-> "reload", then |-> "poll", tmp |-> Nowhere]
  /\ gap = FALSE
  /\ misfired = FALSE

\* A changed fingerprint: the file is another version than the one last seen.
Changed == watch.base # disk.version

\* The thread takes its baseline when it starts.
WatchStarts ==
  /\ watch.base = NotYet /\ loop.at # "gone" /\ ~InLoop("reload") /\ ~InLoop("rewatch")
  /\ watch' = [watch EXCEPT !.base = disk.version]
  /\ UNCHANGED <<platform, disk, host, live, login, blocked, screen, clicks, loop, gap, misfired>>

\* Mutant: the debouncer starts only from calm, and the change restarts nothing.
WatchPollsForgetful ==
  /\ watch.base # NotYet /\ loop.at # "gone"
  /\ IF Changed
     THEN watch' = [watch EXCEPT !.base = disk.version, !.since = Calm]
     ELSE /\ watch.since # Calm
          /\ watch' = [watch EXCEPT !.since = Calm, !.events = 1]
  /\ UNCHANGED <<platform, disk, host, live, login, blocked, screen, clicks, loop, gap, misfired>>

\* Every quarter of a second: a new fingerprint starts the quiet time again,
\* and a change that has been quiet for 300 ms is sent. That is two polls, or
\* one that comes late.
WatchPolls ==
  /\ watch.base # NotYet /\ loop.at # "gone"
  /\ IF Changed
     THEN watch' = [watch EXCEPT !.base = disk.version, !.since = 1]
     ELSE /\ watch.since # Calm
          /\ \/ watch.since = 1 /\ watch' = [watch EXCEPT !.since = 2]
             \/ watch' = [watch EXCEPT !.since = Calm, !.events = 1]
  /\ UNCHANGED <<platform, disk, host, live, login, blocked, screen, clicks, loop, gap, misfired>>

\* poll_file_changes
PollFile ==
  /\ InLoop("poll")
  /\ loop' = IF watch.events > 0 THEN [loop EXCEPT !.at = "reload", !.then = "model"]
             ELSE [loop EXCEPT !.at = "model"]
  /\ UNCHANGED <<platform, disk, host, live, login, blocked, watch, screen, clicks, gap, misfired>>

\* A file that is not TOML keeps the settings.
SettingsRead == IF disk.broken THEN host.settings ELSE disk.sets

\* sync: the registry is told what the settings say, unless it says so already;
\* it can refuse to be written.
SyncLogin(wanted, refused) ==
  /\ refused => platform = "windows" /\ login # wanted
  /\ login' = IF platform = "windows" /\ ~refused THEN wanted ELSE login

\* reload, up to the new watcher. Where the registry refused, a problem says so.
Reload ==
  /\ InLoop("reload")
  /\ LET settings == SettingsRead
     IN \E refused \in BOOLEAN :
          /\ SyncLogin(settings.login, refused)
          /\ host' = [host EXCEPT !.settings = settings, !.read = disk.version,
                        !.problems = (IF disk.broken THEN {"broken"} ELSE {}) \cup (IF refused THEN {"login"} ELSE {})]
          /\ live' = [live EXCEPT !.config = settings]
  /\ watch' = NewWatch
  /\ gap' = FALSE
  /\ GoTo("rewatch")
  /\ UNCHANGED <<platform, disk, blocked, screen, clicks, misfired>>

\* Mutant: the Pause switch is pushed only when the file was good.
RewatchOnly ==
  /\ InLoop("rewatch")
  /\ live' = IF disk.broken THEN live ELSE [live EXCEPT !.enabled = host.settings.enabled]
  /\ GoTo(loop.then)
  /\ UNCHANGED <<platform, disk, host, login, blocked, watch, screen, clicks, gap, misfired>>

\* app_resolver: the settings of an application are read, when it is dictated
\* into, from the configuration kept.
AppSettings == live.config

\* The rest of reload: the watcher is spawned, and the settings the running
\* daemon can adopt are pushed.
Rewatch ==
  /\ InLoop("rewatch")
  /\ live' = [live EXCEPT !.enabled = host.settings.enabled]
  /\ GoTo(loop.then)
  /\ UNCHANGED <<platform, disk, host, login, blocked, watch, screen, clicks, gap, misfired>>

\* apply: the rows drawn are those of the menu, and of nothing older.
Apply(menu) == screen' = RowsOf(menu)

\* model and apply: new actions, and new rows on the screen. On macOS the
\* clicks made on the old rows are performed next, on Windows new ones are
\* collected first.
Draw ==
  /\ InLoop("model")
  /\ LET menu == Build(platform, blocked, host.settings)
     IN /\ host' = [host EXCEPT !.actions = ActionsOf(menu)]
        /\ Apply(menu)
  /\ GoTo(IF platform = "macos" THEN "drain" ELSE "events")
  /\ UNCHANGED <<platform, disk, live, login, blocked, watch, clicks, gap, misfired>>

\* Mutant: numbers are moved up to keep clear of 0, and not moved back.
ClickMoved(row) ==
  /\ InLoop("events") /\ Len(clicks) < MaxClicks
  /\ clicks' = Append(clicks, [number |-> row + 1, asked |-> Asked(screen[row])])
  /\ UNCHANGED <<platform, disk, host, live, login, blocked, watch, screen, loop, gap, misfired>>

\* On macOS the row sends its number.
MenuAction(row) == Append(clicks, [number |-> row, asked |-> Asked(screen[row])])

\* On Windows TrackPopupMenu answers 0 for no row at all, so the row with
\* number 0 is no row.
TrackPopup(row) == IF row = 1 THEN clicks ELSE MenuAction(row)

\* A row is clicked.
Click(row) ==
  /\ InLoop("events") /\ Len(clicks) < MaxClicks
  /\ clicks' = IF platform = "windows" THEN TrackPopup(row) ELSE MenuAction(row)
  /\ UNCHANGED <<platform, disk, host, live, login, blocked, watch, screen, loop, gap, misfired>>

EventsEnd ==
  /\ InLoop("events")
  /\ GoTo(IF platform = "macos" THEN "poll" ELSE "drain")
  /\ UNCHANGED <<platform, disk, host, live, login, blocked, watch, screen, clicks, gap, misfired>>

\* update_file, and whether write_setting has anything to write.
Updated(action) == [disk.sets EXCEPT ![action[2]] = action[3]]

\* handle, for the first of the clicks: a number past the last action does
\* nothing; a setting is written and read again, also when it says so already
\* or the file cannot be changed.
Handle ==
  /\ InLoop("drain") /\ clicks # <<>>
  /\ LET click == Head(clicks)
         action == IF click.number <= Len(host.actions) THEN host.actions[click.number] ELSE Nowhere
         sets == action # Nowhere /\ action[1] = "set"
     IN /\ clicks' = Tail(clicks)
        /\ misfired' = (misfired \/ action \notin {Nowhere, click.asked})
        /\ \/ /\ sets /\ ~disk.broken /\ Updated(action) # disk.sets
              /\ loop' = [at |-> "rename", then |-> "drain", tmp |-> Updated(action)]
           \/ /\ action = <<"reload">> \/ (sets /\ (disk.broken \/ Updated(action) = disk.sets))
              /\ loop' = [loop EXCEPT !.at = "reload", !.then = "drain"]
           \/ action = <<"quit">> /\ loop' = [loop EXCEPT !.at = "gone"]
           \/ ~sets /\ action \notin {<<"reload">>, <<"quit">>} /\ loop' = loop
        /\ host' = IF sets /\ disk.broken THEN [host EXCEPT !.problems = @ \cup {"unsaved"}] ELSE host
  /\ UNCHANGED <<platform, disk, live, login, blocked, watch, screen, gap>>

DrainEnds ==
  /\ InLoop("drain") /\ clicks = <<>>
  /\ GoTo(IF platform = "macos" THEN "events" ELSE "poll")
  /\ UNCHANGED <<platform, disk, host, live, login, blocked, watch, screen, clicks, gap, misfired>>

\* The rest of write_setting; the rename fails when the folder is read-only.
Rename ==
  /\ InLoop("rename")
  /\ loop' = [loop EXCEPT !.at = "reload", !.tmp = Nowhere]
  /\ \/ /\ disk.version < MaxVersions
        /\ disk' = [sets |-> loop.tmp, broken |-> FALSE, version |-> disk.version + 1]
        /\ UNCHANGED host
     \/ /\ host' = [host EXCEPT !.problems = @ \cup {"unsaved"}]
        /\ UNCHANGED disk
  /\ UNCHANGED <<platform, live, login, blocked, watch, screen, clicks, gap, misfired>>

\* The user saves the file from an editor, well formed or not.
EditFile ==
  /\ disk.version < MaxVersions
  /\ \/ \E e \in {"true", "false"} :
          disk' = [sets |-> [disk.sets EXCEPT !.enabled = e], broken |-> FALSE, version |-> disk.version + 1]
     \/ disk' = [disk EXCEPT !.broken = TRUE, !.version = @ + 1]
  /\ gap' = (gap \/ InLoop("rewatch") \/ watch.base = NotYet)
  /\ UNCHANGED <<platform, host, live, login, blocked, watch, screen, clicks, loop, misfired>>

\* The trust poll of the macOS loop, and the capture threads of both.
Report(what) ==
  /\ loop.at # "gone"
  /\ what = "microphone" \/ platform = "macos"
  /\ blocked' = IF what \in blocked THEN blocked \ {what} ELSE blocked \cup {what}
  /\ UNCHANGED <<platform, disk, host, live, login, watch, screen, clicks, loop, gap, misfired>>

DisplayLoop ==
  PollFile \/ Reload \/ Rewatch \/ Draw \/ EventsEnd \/ Handle \/ DrainEnds \/ Rename
Watcher == WatchStarts \/ WatchPolls

MenuNext ==
  \/ DisplayLoop \/ Watcher \/ EditFile
  \/ \E row \in DOMAIN screen : Click(row)
  \/ \E what \in {"input", "microphone"} : Report(what)

MenuFairness == WF_menuVars(DisplayLoop) /\ WF_menuVars(Watcher)
MenuSpec == MenuInit /\ [][MenuNext]_menuVars /\ MenuFairness

-----------------------------------------------------------------------------
(* What the menu promises                                                  *)

(* A click on Windows is performed as the row read when it was clicked, or *)
(* not at all, whatever was reloaded, blocked or clicked in between.       *)
ClickDoesWhatItSays ==
  platform = "windows" => ~misfired

(* Whenever the user can click, the Pause switch the dictation goes by and *)
(* the configuration the per-application settings are read from agree with *)
(* the menu's settings. On Windows (macOS draws the outcome of a click one *)
(* frame later) so does the tick drawn, and the registry starts the daemon *)
(* at login just when the settings say so or a problem row says it could   *)
(* not be told.                                                            *)
MenuTellsTheTruth ==
  InLoop("events") =>
    /\ live.enabled = host.settings.enabled /\ AppSettings = host.settings
    /\ platform = "windows" =>
         /\ \E i \in DOMAIN screen : screen[i] = Row("Pause Dictation", live.enabled # "true")
         /\ login = host.settings.login \/ "login" \in host.problems

(* docs/configuration.md, hot reload: once the watcher and the loop are at *)
(* rest, the settings in use are those of the last version of the file, or *)
(* the menu shows that it is broken. The exception is an edit that falls   *)
(* into the gap between the read and the new watcher's baseline.           *)
FollowsFile ==
  /\ loop.at \in {"poll", "events"} /\ ~gap
  /\ watch.base = disk.version /\ watch.since = Calm /\ watch.events = 0
  => host.read = disk.version /\ (disk.broken \/ host.settings = disk.sets)

(* A change of the file reaches the daemon without anybody's help.         *)
EditIsPickedUp ==
  (host.read # disk.version) ~> (host.read = disk.version \/ gap \/ loop.at = "gone")

\* menuhost.rs:419, "acting on a stale index would perform some *other*
\* setting's write", which is why it must not happen. Refuted on macOS: the new
\* actions are in place before the clicks on the old rows are looked up.
StaleClicksIgnored == ~misfired

\* docs/configuration.md:298, "applies changes live". Refuted by the gap.
EveryEditApplies ==
  /\ loop.at \in {"poll", "events"}
  /\ watch.base = disk.version /\ watch.since = Calm /\ watch.events = 0
  => host.read = disk.version

(* Menu, settings, file, Pause switch and registry tell one story, a click *)
(* does what its row said, and an edit of the file is picked up in time.   *)
MenuIsTrue == [](ClickDoesWhatItSays /\ MenuTellsTheTruth /\ FollowsFile) /\ EditIsPickedUp
=============================================================================
