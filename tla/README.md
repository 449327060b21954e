# TLA+ verification of outloud

outloud is a push-to-talk dictation daemon: while a key is held the microphone
is open, a recognizer turns the audio into text, and the text is typed into the
focused field, either once at the end or streamed as it is recognized. This
directory models the parts of it whose correctness depends on the order of
things (key edges that are lost and overtake each other, a supervisor loop fed by
four threads and four timers, recognizers that are slow, hang or die, writers that
finish late, fields that change between two calls of the accessibility interface,
files that several processes rewrite) and those that decide what happens to the
user's text (grammars, word lists, splices, guardrails). TLC checks the models on
small instances and TLAPS proves the theorems in the `*Proofs` modules for every
value of the constants.

All source paths below are relative to `src/crates/`.

1. [The system](#1-the-system)
2. [Modules](#2-modules)
3. [Runs](#3-runs)
4. [Bounds](#4-bounds)
5. [Fairness](#5-fairness)
6. [Proofs](#6-proofs)
7. [Where the code and its documentation disagree](#7-where-the-code-and-its-documentation-disagree)
8. [What is not modelled](#8-what-is-not-modelled)
9. [What could come next](#9-what-could-come-next)

## 1. The system

### Threads and channels

```
 compositor execs --socket--> accept thread --+                    menu: Pause
   (one per key edge)                         | mutex                 |
                              watchdog thread-+--mpsc--> bridge thread-+
                                                              | KeyDown / KeyUp
 capture thread --> drain task ---- Chunk, CaptureUp, Issue --+
                                                              v
        +------------------ FrontendEvent channel ---> supervisor (run)
        |                                               |   ^   |    ^
   file replay                        AudioMsg channel  |   |   |    | StreamerEvent
                                      + counter         v   |   v    |
                                            recognizer thread   writer thread,
                                               AsrEvents        one per utterance
```

The supervisor is single-threaded: a biased `tokio::select!` that polls, in this
order, the readiness channel, the timers, the writers' completions, the frontend
channel and the recognizer's answers. While it awaits a delivery nothing else is polled.

### Components

| Component | State | Operations | What is hard | Correct when |
|---|---|---|---|---|
| tap-hold machine (`hotkey/taphold.rs`) | Idle, Pressed(t), Latched, LatchedPressed | key-down, key-up, toggle, reset | a tap is told from a hold only at the release | presses and commits alternate |
| Linux trigger backend (`hotkey/trigger.rs`, `backend/linux.rs`) | the machine and the press on record, under a mutex | accept a verb, watchdog poll | each edge is a process of its own: lost, doubled, overtaken | no capture is orphaned; a lost release is recovered from |
| macOS tap, Windows hook (`hotkey/backend/`, matchers) | hook installed or not, what is held | key event, disabled tap, removed hook, watchdog tick | a hook that is taken away silently; a release that is missed | a capture needs its key; every loss is told |
| chords and conflicts (`chord.rs`, `conflict.rs`) | none | parse, print, compare | two tables for one keyboard | what is bound can be struck and is read back |
| hotkey bridge, Pause (`outloud/source.rs`) | the `enabled` flag | forward an edge, flip the flag | a pause between the two edges of a gesture | a pause never swallows a commit |
| supervisor (`outloud/pipeline.rs`) | in_flight, listening, streamer, pending_final, timers, readiness | key edges, chunks, capture reports, answers, completions, four timers | one Final per utterance, matched by order only; failure at every step | every utterance ends; text goes where it belongs, once; the microphone closes; the panel tells the truth |
| overlay engine (`outloud/state.rs`) | the panel's state | transition | two users of one panel | only drawn edges |
| capture watchdog (`outloud/devlatency.rs`) | what was heard, the device, devices told of | begin, on_audio, on_utterance_end, rebind | which utterance a verdict is about | silence is reported over silence, once per device |
| main thread (`outloud/main.rs`, `runtime.rs`) | the frame loop, shared switches, clipboards still out | poll settings and grants, clicks, the ways to end | three layouts of threads; ends that race a delivery | the exit code is the pipeline's; nothing borrowed is kept |
| program start (`outloud/instance.rs`, `main.rs`) | lock file, socket file, helpers | acquire, drop, bind, reap | remove by name, check then act | one daemon |
| recognizer thread (`outloud/recognize.rs`) | recognizer or none, queue, counter | push, finalize; feed, finalize, rebuild | a bound kept beside an unbounded channel | every finalize is answered; the counter is exact |
| recognizer backends (`asr/backends/`) | buffered audio; a helper process, its pipe and events | feed, finalize, next utterance | a helper that hangs, fails or ends anywhere | a transcript is of its audio, once; what was painted is kept |
| model store (`asr/models.rs`, `llm/models.rs`) | files, partials, markers | find, verify, fetch, resume | killed between two pieces; servers that ignore ranges | only a whole, verified model has the name |
| capture, ring, segmenter (`audio/`, `source.rs`) | stream, ring, pre-roll | rebuild, push, drain, flush | overflow, device loss, cuts anywhere | no word is cut; what is dropped is the oldest and counted |
| streaming writer (`outloud/streamer.rs`, `ax_stream.rs`, crate `stream`) | session, coalescer, horizon, region | offer, release, write, settle | what was written against what was sent | the field ends with the final text; committed text is not rewritten |
| undo ring (`stream/undo.rs`) | units, capacity | begin, end, abort, undo | the field changed since | only what was dictated is undone |
| delivery (`outloud/inject.rs`) | tier, focus, clipboards out, undo | deliver, undo, restore | a tier that fails half-way; focus that moves | text lands once; the clipboard comes back |
| targets (`text-target`) | none, or a filter's idea of the line | detect, read, insert, replace | variables outlive programs; two calls for one edit | a target does what it claims, wholly, and in the right pane |
| accessible field (`ax-edit`, `text-target/ax.rs`) | handles into another process | snapshot, replace, scan | every attribute is a message; anything moves in between | a snapshot is of one field; the rest of a field is kept |
| portal (`portal.rs`) | a session and its consent | request, wait, type | answers late, early, never | no key without consent |
| menu, autostart (`menuhost.rs`, `menubar.rs`) | rows, ticks, problems, the registry | click, reload, save | clicks made on old rows; a watcher's gap | a click does what its row said; the tick is true |
| settings file, layers (`config/`) | the file, its legacy, layers, profiles | adopt, refresh, rewrite, look up | several writers; half-written files | the file says what the user set; the first valid layer wins |
| word list (`config/vocab.rs`, `fuzzy.rs`) | sets, rules, terms | load, merge, correct | rules that overlap; matches by ear | ordinary words stay; every change is logged |
| spoken edits (`edit-intent`) | none | parse, apply | scopes that are dropped; boundaries | the named unit is edited and nothing else |
| free-form edits (`freeform.rs`, `llm`) | none | classify, clean, guard | a few words over a large selection; chatty answers | text is only replaced on purpose |
| spoken commands (`app-command`) | the list of applications | discover, resolve, launch | names alike, applications gone | what is started is what was named, or nothing |
| shell bridge (`shell-bridge`) | staged edit and expiry, rc file | stage, take, apply, install | expiry against use; cursor units | an edit is used once, in time, on its line |
| doctor, replay (`diag`) | reports; a redacted record | checks, verdict; record, read, replay | facts that are not what they seem | green means it works; a divergence is a bug |
| signal processing, drawing, `spike-cli` | samples, pixels | - | - | - |

`PROJECT.json` lists the same parts with their files and how far each is
modelled, and every hazard found in the code, at its line, with the properties
that are about it.

## 2. Modules

| Module | Models | Role |
|---|---|---|
| `TapHold` | `hotkey/src/taphold.rs` | pure: each operation maps a machine to a machine and events |
| `HotkeyTrigger` | `hotkey/src/trigger.rs`, `backend/linux.rs`, `spawn_hotkey` | the threads around the machine, the channel, the bridge |
| `KeyMatch`, `KeyHook` | `matcher.rs`, `winmatch.rs`; `backend/macos.rs`, `windows.rs` | the two matchers; the tap and the hook that feed them, over the same `TapHold` |
| `Chords` | `chord.rs`, `keycode.rs`, `conflict.rs` | the grammar of chords and the conflict table |
| `MainThread` | `main.rs` (second half), `runtime.rs`, `drain_pending_restores` | the life of the process |
| `DaemonStart` | `main.rs` (first half), `instance.rs`, `bind` | processes over one lock, one socket, one set of helpers |
| `Overlay`, `StartupWatch` | `state.rs`; `devlatency.rs` | pure parts of the supervisor |
| `Recognizer` | - | abstract: what the recognizer thread promises the supervisor |
| `Pipeline` | `pipeline.rs`, `streamer.rs` | the supervisor, composed of the three above |
| `AsrWorker` | `recognize.rs` | the recognizer thread, shown to implement `Recognizer` |
| `Backends`, `ModelStore` | `asr/src/backends/`, `asr/src/models.rs`, `llm/src/models.rs` | what is behind the thread |
| `AudioChain`, `Segmenter` | `capture_cpal.rs`, `ring.rs`, `source.rs`; `segment.rs` | from the device to the recognizer |
| `StreamCommit` | `horizon.rs`, `coalesce.rs`, `diff.rs` | pure: what is committed, when it is written, as what splice |
| `StreamSession` | `session.rs`, `streamer.rs`, `ax_stream.rs` | one streamed utterance down to the field |
| `UndoRing` | `stream/src/undo.rs` | the ring against a field the user edits |
| `Delivery` | `inject.rs` | the tiers of the three platforms, clipboard, undo |
| `TargetChoice`, `Targets` | `detect.rs`; `text-target/src/targets/` | which transport, and what its calls do |
| `FieldAccess` | `ax-edit/src/macos.rs`, `lib.rs`, `targets/ax.rs` | a field read and written one message at a time |
| `Portal` | `targets/portal.rs` | the requests of the desktop portal |
| `Menu`, `ConfigFile`, `ConfigLayers` | `menuhost.rs`, `menubar.rs`, `watch.rs`; `paths.rs`, `relocate.rs`; `layers.rs`, `profile.rs` | the settings, from file to tick |
| `WordList` | `vocab.rs`, `fuzzy.rs` | the vocabulary |
| `EditIntent` | `edit-intent/src/` | the grammar of spoken edits, and the edits |
| `Rewrite` | `freeform.rs`, `llm/src/sanitize.rs`, `guardrail.rs` | free-form edits |
| `AppCommand` | `app-command/src/` | spoken commands |
| `ShellBridge` | `shell-bridge/src/` | the staged edit and the plugin |
| `Doctor`, `Replay` | `diag/src/checks.rs`, `lib.rs`; `replay.rs` | diagnosis |
| `Counting` | - | how many messages of a kind a channel holds, with the lemmas about it |
| `MC*` | - | compositions and values for TLC |
| `HotkeyTriggerProofs`, `PipelineProofs`, `AudioProofs`, `StreamProofs`, `DaemonProofs`, `HostProofs` | - | theorems and lemmas (`HotkeyTriggerProofs` has those of `MainThread` and `Chords` too, `AudioProofs` those of `AsrWorker`, `AudioChain`, `Segmenter`, `Backends` and `ModelStore`, `HostProofs` those of `UndoRing`, `Menu`, `AppCommand`, `ConfigFile` and `ConfigLayers`) |

A definition commented `Mutant:` is not part of a model. It is the definition
after it with a plausible bug, and shows that the property named in
`PROJECT.json` tells the two apart.

Modules compose where the code shares state: `Pipeline` with `Overlay`,
`StartupWatch` and `Recognizer`; `KeyHook` and `HotkeyTrigger` with `TapHold`;
`StreamSession` with `StreamCommit`; `Replay` and `Targets` with `TargetChoice`.
Parts that share none are put side by side by an `MC` module for TLC: its variable
`part` says which of them a behaviour is of, and the others rest in one state, so
that their states add up instead of multiplying.

### TapHold and HotkeyTrigger

One verb that was exec'd and has not connected is a count in `inFlight[v]`.
`Accept(v)` takes any of them, which gives every reordering; `LoseExec` and
`DuplicateExec` lose and double them. `Accept` and `WatchdogPoll` are atomic
because both threads hold the mutex of `TriggerState` from the read of the
machine to the last `send`. Time is a counter; `Tick` may not pass the moment at
which the sleeping watchdog must have woken (`PollInterval + PollDelay`).
`BridgeForward` reads `enabled` and forwards in one step: the flag is an atomic
read once per event.

`NoOrphanCapture`, `PressesAlternate` and `LiveCaptureIsTold` are about the
machine *and* the channel: `Settles(edge, told, events, n)` says what the
supervisor was last told once the first n events are drained. `PressesAlternate`
is what `Pipeline` assumes of its frontend in `PressKey`.

### Pipeline

Each arm of the select is an action. An action that reads a channel requires the
channels polled before it to be empty; a timer may fire whenever it is armed,
which stands for every duration. `delivering` is the await of `inject::deliver`:
while it is not `Nil` no arm runs, though the other threads do.

Audio and text are sets of *gestures*: the key presses during which the audio
was recorded. That is all `OwnWords` and `NeverTwice` need to tell apart. The
gesture an utterance begins with also names the utterance.

| State | Code |
|---|---|
| `frontend`, `answers`, `streamEvents` | the three channels read by `run` |
| `inFlight`, `listening`, `streamer` | `in_flight`, `listening`, its `StreamState` |
| `armed`, `warm` | `capture_opened_at`, `warm_until` |
| `pendingListen`, `recognizerReady` | the key-down that came before the model was loaded |
| `pendingFinal`, `delivering` | a settle, or a delivery, being awaited |
| `writers[g]`, `region[g]` | the command channel of g's writer thread, and what it has put in the field |
| `thread[g]` | whether that region holds all the session counts as written (`InStep`), less (`Behind`), or its thread has panicked |
| `told`, `gesture`, `typed`, `silenceShown` | environment and history |

The drain at the key-up is one operator (`Drain` and what uses it) because the
code drains in one breath: chunks are fed, everything behind the key-up is
dropped. `PausedGesture` is the release of a press the bridge swallowed.

A writer thread applies commands and reports each (`WriterApplies`), and ends with
the settle (`WriterFinishes`). A write that is refused, or that the streamer no
longer hands out because one was, leaves the region behind what the session counts
as written. The splice of the settle is computed on the session's text and slices the region's:
where that holds less, the slice may panic the thread (`WriterPanics`,
`ax_stream.rs:65`), or put the words in at the wrong place (`Landed`). It must panic when
all that was written is to be erased (`InRegion`). A
thread that panicked sends nothing, and since the loop holds a sender of its own,
nothing tells the loop either. `StreamSession` has the same at the grain of splices.

### Recognizer and AsrWorker

`Recognizer` has the audio fed since the last finalize (`open`), the audio of
each finalize not yet answered (`closed`) and the answers. `AsrWorker` is the
code at the grain of its atomic steps: `push` is counted, sent and, when the
send fails, uncounted again in three steps, and the thread receives, uncounts,
feeds, finalizes and rebuilds. The refinement maps `closed` to the segments of
the channel between finalizes, with what the thread has in hand in front.
A queue that is full drops the chunk: `PushCounts` is then disabled.

### KeyMatch, KeyHook and Chords

A key is its own keycode and a flag word is the set of modifiers held. The
callback runs in the order keys are struck, so a keystroke and its callback are one
step; `missed` and `struck` are history. The system disables the tap or removes
the hook at any moment, the procedure may panic under its lock, and elevated
windows hide keys; `TapDisabledEvent` and `WatchdogTick` are the code's answers.
`Chords` types every chord of three tokens and asks the matchers of `KeyMatch`
whether it can ever fire.

### StreamCommit and StreamSession

`StreamSession` is one utterance from its hypotheses to the field: the session
counts a write as written when it is *sent*, the region when the application has
*taken* it, and a write may be refused in between. The field around the region is
kept in the model so that a wrong offset shows.

### Delivery, Targets, FieldAccess, Portal

`Delivery` is the chain of `inject::deliver` with a field of words, a clipboard and
the threads that give it back; a tier may be refused, or cut short with half of the
text in the field. `TypingStrategy` is which of the two ways of typing a destination
gets: terminals, undos and fields that read but refuse a write are paced and never
retyped, all others are batched and retyped once when the whole of it was refused
(`Retypes`). What one tier does inside is in the other three: `Targets` has
the calls of each terminal transport as separate steps that may each fail,
`FieldAccess` has each accessibility message as a step, with the focus, the user
and the application moving between any two (`SwitchFocus`, `UserTypes`,
`UserMarks`, `FieldCloses`, `Hangs`, `BuildsTree`), and `Portal` has the session,
the subscription and the answer. `Owners` in `FieldAccess` name whose text it is,
which is what `SnapshotIsOfOneField` needs.

### Backends and ModelStore

A text is the interval of audio it is of. The helper of macOS is a process with its
own progress (`HelperHears`, `HelperEnds`, `HelperFails`), the reader thread is the
channel between. `ModelStore` may be killed between any two steps; `Find` is
`discover_whisper_model`, the rest is the fetch.

### MainThread

`plan` is the layout: system, overlay, `--once`, icon, and at most one oddity of the
machine (no window, cannot draw, hotkey taken, a flag on the command line).
`waited` counts the frames begun since something changed, and is history.
`joins.owed` is what was borrowed when main began to return.

### Menu, ConfigFile, ConfigLayers, WordList

A line of the settings file is a comment, a setting or junk. Loaders are processes
that adopt, refresh or rewrite it in the steps in which the code reads and writes it,
and may be killed between two; `mine` is what the user has set by whatever means, and
`disturbed` names the four ways a setting is lost that section 7 lists. In `WordList` a text is a sequence of words each with what follows it,
distances and sounds are computed over a small alphabet as the code computes them.

### EditIntent, Rewrite, AppCommand, ShellBridge, Doctor, Replay

These are mostly functions of their input, which the initial states or the first
step enumerate: every phrase of a vocabulary, every text of an alphabet, every answer
of a model up to a length, every machine with at most a few ills. The properties
compare the outcome with a definition of what it must be that does not follow the
code's own way of computing it.

## 3. Runs

A property that a run checks is often a conjunction of named parts, each with its
own comment in the module; the table names the parts. Every run sets
`CHECK_DEADLOCK FALSE`, and the cfg says why: daemons end when told to, behaviours
are bounded, and functions are evaluated once.

| Run | Property | Parts, and what they show |
|---|---|---|
| `hotkey_trigger` | `StuckPressRecovers`, `CapturesPaired` | `WatchdogArmed`, `OutstandingBounded`, `NoOrphanCapture`, `PressesAlternate`: lost, doubled and overtaking execs against the watchdog, paused and resumed at any moment |
| | `CaptureIsTold` | `LiveCaptureIsTold` while nothing was paused; and on macOS and Windows `CaptureNeedsTheKey`, `ChordIsHeard`, `ConsumerIsTold`, `LossIsRecovered`: no capture without its key, no loss without a reset |
| | `BoundChordsFire` | `ChordIsReadBack`, `BoundChordFires`, `ReportedConflictFires`, for every chord of three tokens |
| | `ProcessIsOrderly` | `ResultIsThePipelines`, `NothingWaitsLong`, `RestoresAreGivenBack`, `SettingsReachTheNextCapture`: how the process ends, what its frame loop owes, and the clipboards still out |
| | `TypeOK` | types of the trigger backend |
| `pipeline` | `FinalizeMatches`, `OverlayTruthful`, `OwnWordsOnce` | two gestures with a microphone that is held warm, against a slow recognizer |
| `pipeline_stream` | `TypeOK`, `NothingAfterFinish` | two streamed utterances, writers that fall behind, are refused, panic and settle late |
| | `SettlesEnd` | a settle is answered, and the panel leaves Injecting, whichever utterance the answer then settles, unless the writer waited for panicked |
| `pipeline_once` | `OnceReturns` | a `--once` run returns from its utterance, silent, typed or streamed, with writes refused, ended by the key, an endpoint or a timer, unless its writer panicked; a press begins that utterance, or the panel says why not |
| `pipeline_live` | `MicTimed`, `ComesToRest` | muted applications and a warm hold: a timer guards an open microphone; every utterance ends, the microphone closes, the panel rests |
| `pipeline_stream_live` | `SettleAnswered` | expected violation, see section 7 |
| `no_double_insert` | `NoDoubleInsert` | expected violation, see section 7 |
| `stream` | `TranscriptInPlace` | `EditsRoundTrip`, `FieldIsTranscript`, `RegionInPlace`, `OneWriteAtATime`, `ParkedIsLatest`, `RetryOnlyUntouched` |
| | `OnlyExtends`, `CommittedIsWritten` | `NeverRetracted`, `CommitsAreAgreed`, `InsertOnlyOnce`; what is committed is written |
| `daemon` | `DaemonsExclude`, `StaleFilesNeverBlock` | three processes starting, refused, quitting and crashing over one lock, one socket, one set of helpers |
| | `DeliveryIsExact` | `LandsOnce`, `ClipboardComesBack`, `UndoGivesBack`: two deliveries by every route, cut short, given the clipboard back too soon, with a user who interferes (a delivery the user touched is let off, see section 6) |
| | `TypesWithConsent` | the portal |
| | `EveryRouteIsFaithful` | `NeverTheWrongPane`, `ClaimsAreKept`, `ReplacedOrGone`, `FilterCatchesUp`; `SnapshotIsOfOneField`, `EditNeedsASelection`, `WritingKeepsTheRest`, `BlameIsFair`, `ScanFindsTheFields` |
| | `DiagIsRight` | `BlameIsDeserved`, `TwoCopiesAreSeen`, `ChecksAgree`, `GreenMeansItWorks`; `WindowRebuilds`, `RoundTrips`, `DivergenceIsTheBug` |
| `host` | `FileIsTheUsers`, `LayersAgree` | `SettingsSurvive`, `RefreshSettles`; `FirstValidLayerWins`, `AnnouncedProfileWins`, `MenuWriteTakesEffect` |
| | `EditReachesItsLine`, `UndoIsExact` | `TriedOnceInOrder`, `KeyTriesTheLast`, `CursorKeepsItsPlace`, `PluginInstalledOnce`; the undo ring |
| | `SpokenEditsAreExact` | every phrase of three words and of five common ones, every text of five characters, every answer of a model of four words |
| | `CommandsDoWhatTheySay`, `WordListIsHonoured` | spoken commands; the vocabulary |
| `menu` | `MenuIsTrue` | `ClickDoesWhatItSays`, `MenuTellsTheTruth`, `FollowsFile`, `EditIsPickedUp` |
| `audio` | `TypeOK`, `CounterExact`, `ImplementsRecognizer` | the recognizer thread, and that it implements `Recognizer` |
| | `EveryWaitEnds` | `FinalizeAnswered`, `AudioFlowsAgain`, `ThreadEnds`, `FinalizeReturns` |
| | `UtterancesAreWhole`, `CaptureKeepsUp` | the segmenter; the capture and its ring |
| | `TranscriptIsTheUtterance`, `ModelIsTheRightOne` | the backends; the model store |

`no_double_insert` and `pipeline_stream_live` are to find a violation. Each property of the
other runs has one or more mutants in `PROJECT.json`, one per part where a part has a
hazard of its own.

## 4. Bounds

| Bound | Value | Why it is enough |
|---|---|---|
| `TapThreshold`, `WatchdogTimeout`, `PollInterval`, `PollDelay` | 2, 3, 2, 1 ticks | below, at and above each limit all occur; a press can be re-armed before it expires and found late |
| `MaxInFlight`; `MaxQueue` (hotkey); `MaxClock` | 2; 3; 7 | one overtakes or doubles another; a press, its commit and the next press undrained; a timeout found one poll late and a gesture after it |
| `MaxHeld`, `MaxTokens` | 3, 3 | both sides of a modifier and the key; a modifier, a second and a key |
| `TrustPollFrames`, `MaxEdits`, `MaxRestores` | 2, 2, 2 | a look, a frame without one; an edit over an edit not yet published; a restore done and one not |
| `MaxGestures` | 2; 1 for `pipeline_once` and `pipeline_stream_live` | everything that crosses from one utterance to the next takes two |
| `MaxQueue` (pipeline), `MaxAnswers` | 1 to 3; 1 | a chunk, the key-up and a whole next press behind it, which the drain drops; a second partial replaces the first |
| `QueueDepth` | 2 | empty, partly full, full |
| `RingCapacity`, `MaxSamples`, `MaxChanges` | 2, 4, 2 | the ring overflows twice; a device goes and comes back |
| `FrameSamples`, `MinSpeech`, `Hangover`, `PreRoll`, `MaxFrames` | 2, 2, 2, 1, 8 | two words closer and further apart than the hangover |
| `MaxFed`, `MaxFinals`, `MaxFaults`, `MaxStarts`, `MaxTrouble` | 4, 3, 2, 3, 2 | a fault in one utterance and its remains in the next; a download broken off, killed and resumed |
| `Stability`, `Lookback`, `Interval`, `MaxPartials`, `MaxFailures` | 2, 1, 1, 4, 1 | agreement, a revision, a park and its release, and a refused write |
| `Procs`, `MaxInodes` | 3, 2 | the race over the lock file takes three |
| `MaxDeliveries`, `MaxMeddling` | 2, 1 | a restore still out when the next begins |
| `MaxListed`, `TextLen`, `MaxStirs`, `MaxElements` | 2, 2, 1, 3 | two copies; one disturbance between any two messages; a tree with depth, a menu and a nested field |
| `Settable`, `Levels` | two keys, two values | a row is saved beside a setting it must leave alone; the texts found at the start set one of the keys, the other being its like |
| `MaxLine`, `MaxField`, `MaxSaves`, `MaxCrashes`, `MaxWords`, `MaxCommon`, `MaxText` | 2, 2, 2, 1, 3, 5, 5 | two writers of one file, one of which dies, beside a legacy file of every kind where there is no other and of one kind where there is; verb, scope and unit, with connectives in the longer phrases; two sentences of a letter each |

Streaming with two gestures *and* a microphone is beyond what TLC enumerates in
minutes; it is checked from a file source, where the supervisor, writers and
recognizer are the same and only the hot-mic and warm timers are missing. The proofs
have no bounds.

## 5. Fairness

Safety is checked under `Spec`, without fairness. `Pipeline!FairSpec` assumes

- the recognizer loads and answers, or dies, in finite time;
- the hot-mic and warm timers fire;
- the loop takes the readiness, frontend and writer arms when it can (weak
  fairness). Answers are polled last in the biased select, so they need strong
  fairness: the microphone delivers one chunk every 30 ms, and the loop handles
  one in far less, so the frontend is empty again and again;
- an awaited delivery returns, and writer threads are scheduled: a command that is
  queued is carried out, refused, or the end of the thread.

Nothing is asked of the user, who may hold the key for ever, nor of the error timer.

The other specifications with liveness assume that a thread of the program that can
take a step takes one: the recognizer thread, whose backend calls return or panic;
the capture thread and its drain task, with strong fairness only that a device
that is tried again and again opens once; the helper's reader and the deadline of
`finalize` (nothing is assumed of the helper itself, which may hang); the display
loop and the watcher of the settings file; the writer, the coalescer's timer and the
settle of a streamed utterance. A helper that no longer *reads* blocks the write of
its audio, for which the code has no deadline; there the model, like the assumption
on backend calls, stops.

## 6. Proofs

| Theorem | Module | Says |
|---|---|---|
| `TypeCorrect` | `HotkeyTriggerProofs` | `Spec => []TypeOK` |
| `WatchdogAlwaysArmed`, `LostReleaseRecovers` | `HotkeyTriggerProofs` | a machine under a held key has a press on record, and none is older than the timeout and a poll |
| `NoOrphanedCapture`, `PressesAlwaysAlternate` | `HotkeyTriggerProofs` | the supervisor has been or will be told of every end of a capture, and never of two presses in a row, for any number of execs in any order |
| `StuckPressAlwaysRecovers`, `CapturesAlwaysPaired` | `HotkeyTriggerProofs` | the two conjunctions the run checks |
| `TypeCorrect` | `PipelineProofs` | `Spec => []TypeOK`, which includes that a streamer has its utterance |
| `MicAlwaysBounded`, `WarmHoldAlwaysQuiet`, `MicAlwaysTimed` | `PipelineProofs` | an open microphone has a timer that closes it; a warm hold is of an open, unused stream without the other timer |
| `FinalsMatchUtterances` | `PipelineProofs` | without muted applications and endpointing, a finalize is unanswered exactly while an utterance waits for it |
| `WritersEndWithFinish` | `PipelineProofs` | in every configuration a writer is asked for nothing after its Finish |
| `OverlayAlwaysTruthful` | `PipelineProofs` | of buffered dictation: the panel claims no phase that is not under way |
| `OwnWordsAlwaysOnce` | `PipelineProofs` | without muted applications and endpointing, streamed or not: a text, and what a writer puts in its field, has no words from before its press; no word is in two texts |
| `WorkerTypeCorrect`, `CounterAlwaysExact` | `AudioProofs` | the counter stays in range and is exactly the chunks that take up room |
| `WorkerImplementsRecognizer` | `AudioProofs` | `Spec => ImplementsRecognizer`: the thread is a `Recognizer`, for every queue depth |
| `LifeTypes`, `LifeIsOrderly` | `HotkeyTriggerProofs` | how the process ends, what its frames owe, and the clipboards given back |
| `DaemonsAlwaysExclude`, `StaleFilesTurnNobodyAway` | `DaemonProofs` | for any number of processes: no two daemons hold one lock file, and two are up at once only after a process locked a file whose name was removed between its open and its flock; what the dead left turns nobody away |
| `AlwaysTypesWithConsent` | `DaemonProofs` | for any text and any number of deliveries: keys are sent only with the keyboard granted, and a refused delivery sent none |
| `DeliveryAlwaysExact` | `DaemonProofs` | for any field, any number of deliveries and every transport, of a delivery the user leaves alone: the field holds what the transport that took the words puts there, also after attempts that stopped half way and with a clipboard given back too soon; an undo found what the newest edit left; the clipboard comes back unless two deliveries crossed on it |
| `CaptureAlwaysTold` | `HotkeyTriggerProofs` | a capture has its key down or a tap behind it, and the supervisor hears of its beginning and its end: over the Linux socket (until the first pause), the tap and the hook |
| `BoundAlwaysFire` | `HotkeyTriggerProofs` | for any number of tokens: a chord that is accepted is read back from its printed form, begins when it is struck on every system that binds it, and is reported only against a shortcut that sets it off |
| `TranscriptsAreTheUtterances` | `AudioProofs` | no audio is in two transcripts, what was painted is committed, and a helper without an error is heard to the last sample |
| `RingAlwaysKeepsTheNewest` | `AudioProofs` | `ChainSpec => []RingKeepsTheNewest`, the safety part of `CaptureKeepsUp`, for a ring of any size |
| `WordsAlwaysWhole` | `AudioProofs` | for any frame size, hangover and context, any speech and any chunks: words are fed whole, in order and once, an endpoint is the end of a silence, and how the audio is cut into chunks changes nothing |
| `TranscriptAlwaysInPlace` | `StreamProofs` | for all texts and hypotheses, with writes refused or not: the streamed region stands where its writer thinks, what surrounds it is untouched, a settle without a refused write leaves the final text, one delivered again had left nothing |
| `StreamAlwaysExtends` | `StreamProofs` | while the user speaks nothing in the field is taken back; what is committed was agreed on by a full window and ends at a word; an utterance that is not streamed sends one command |
| `UndoAlwaysExact` | `HostProofs` | for any capacity, field and typing: an undo leaves every piece the user typed, and right after a dictation nobody disturbed restores the field it began with |
| `MenuAlwaysTrue` | `HostProofs` | `MenuSpec => [](ClickDoesWhatItSays /\ MenuTellsTheTruth /\ FollowsFile)`, the safety part of `MenuIsTrue`, for any number of edits and clicks |
| `FileAlwaysTheUsers` | `HostProofs` | for any keys, values and processes that adopt, refresh, rewrite and save the file, and any edits, deletions and deaths: the file says what the user has set, unless disturbed, and a load leaves what the next load leaves alone |
| `LayersAlwaysAgree` | `HostProofs` | for any keys, values, layers and profiles: the first valid value from the environment down is the setting, the profile announced is the one that applies, a row of the menu takes effect unless something above speaks and moves no other setting |
| `CommandsAlwaysDoWhatTheySay` | `HostProofs` | for any phrase, scores and machine of the model: what is launched is the one thing the phrase can mean, what is started is the file that was listed, success is said only of a launch |
| `ModelAlwaysRight` | `AudioProofs` | while the user puts no file there a start loads the whole model or nothing; a good partial is not lost |

They assume the `ASSUME`s of the modules: sizes are naturals, the watchdog's
times are positive, a frame has a sample and an onset a frame (the code only ever uses
`SegmenterConfig::default()`, `segment.rs:60`), `Nil`, `NoTime` and `NoDevice` are none of the values they
stand beside, the bindings of the tap and the hook are chords, hypotheses and snapshots
are texts (sequences of `Graphemes`, of which `Space` is one), and the user sets neither the
version of the settings file nor what is no TOML. TLC evaluates the same assumptions in each run.

*The watchdog.* `WatchdogArmed` is inductive with the types; the age bound is
not. `WatchdogInv` adds that the last poll found the press on record not yet
expired, and that the clock is within one poll of it. What is bounded is the age
of the *record*; a machine may be in Pressed longer (section 7).

*The channel.* `ChannelInv` states both channel properties of the channel, the
last edge told and whether the machine captures. `SettlesAppend`, `SettlesPrefix`
and `SettlesDrain` say how `Settles` changes when an event is sent or drained,
and `ReactionAgrees` that every operation of the machine emits events that agree
with the state it moves to. Pausing does not disturb it, since only key-downs are dropped.

*The microphone.* `MicBounded` fails in a state that listens with the timer off,
`WarmHoldQuiet` in one that begins a hold without a stream. `MicInv` adds that a
listening supervisor has its stream open and its timer armed, and that a
daemon without a microphone never learns of a device. The step lemma has one
case per action; `MicUntouched` covers those that leave the microphone alone.

*Finals.* `FinInv` adds that the hot-mic timer runs only while listening and that
a listener has an utterance; then only an utterance is finalized, and once. Both
are false when an application is muted or an endpoint commits, so the theorem
excludes those; `NoInterleaving` (section 7) is what happens with muting.

*The counter.* `CounterExact` is inductive with the types: each of the three
moments of `push`, the receive and the uncount moves one unit between its terms.

*The writers.* `WriterInv` adds to `NothingAfterFinish` what makes an identity of a
gesture: the presses that wait in the frontend's channel are of gestures no later
than the count, each of its own, whose writers were never asked for anything, and
the one in flight has seen no Finish. `ChannelStep` and `ChannelGrows` say once, for
this and for the words, that the channel only loses its head or everything, and that
what is appended is of the current gesture or the next.

*The panel.* `OverlayInv` adds that a delivery leaves no utterance in flight (the loop
awaits it) and that a press during the load is remembered; with `FinInv` a Final finds
the utterance it settles. The theorem excludes muted applications and endpointing for
the reason `FinInv` does. It excludes streaming (`~MayStream`) because there it is false:
while the settle of a streamed utterance is awaited the next press is accepted, and the
panel stays on Injecting through the dictation (section 7).

*The words.* A word is the gesture it was spoken in. `WordsInv` orders, by gesture, what is
settled (written, being delivered, or waiting for a writer's report), what is on its way
to a Final (`Spoken`, the partials included) and what waits in the frontend's channel:
settled words are older than the utterance in flight, spoken ones are not, and a press
comes after every word there is. An utterance begins with nothing heard, because a Final
is the last answer of its utterance (`FinalLast`) and behind one no segment is left to
transcribe; that is where `FinInv` is needed. Then a new text has no words from before
its press (`OwnWords`) and shares none with an earlier one (`TextsApart`, which adds to
`NeverTwice` the texts still due). `StreamOwns` says the same of every command a writer has yet
to carry out and of the write the coalescer parks, so that a writer's field holds its
own utterance's words even if the writer is several utterances behind. A release reads
the channel to its end, chunks behind the release included, which is why the order of
the channel is part of it. Muting and endpointing are excluded for the reason
`FinInv` does; with muting a Final can settle the next utterance (`NoInterleaving`,
section 7). The theorem does not say that a field and the text delivered instead of it
never hold the same words: they can (`no_double_insert`).

*The refinement.* `closed` of the abstract recognizer is the sequence of segments
between the finalizes in the channel, a sequence of a length that depends on the
state. The proof rests on the lemmas of `Counting`, which say how many finalizes an append, a
removal and a shift leave, and on lemmas that say which segment a chunk belongs to
before and after them. Every step of the thread is then a step of `Recognizer` or a
stutter; the three moments of `push` are a Feed at the send.

*The process and its daemon.* `LifeInv` and `StartInv` collect what each program point has
established: which of the restores are still owed, which settings a frame has looked
at; which process holds the lock, of which file, and whose socket and helpers there are.
That a process past the lock holds the flock of the inode it has open (`LockInv`) needs no
assumption about names, and gives `OneHolder`: the kernel gives a lock to one. That this
inode is the one the *name* leads to (`NameInv`) is what the rest needs, and it fails in exactly
one way, which the history variable `raced` records: the name was removed (by a daemon that quits)
between the open and the flock of a process that then gets the lock. The code does not look at
the name again (`instance.rs:224`), so the race is there. The theorem does not exclude
it. It says that no other order of opening, locking, emptying, removing, crashing and starting
leads to two daemons, a lost socket or a helper killed under its owner.

*Consent.* That keys are sent in order and with a grant is not inductive: a grant
belongs to a session, and a session is dropped by every refusal and every end. `PortalInv`
adds that while it types the target has both, that before its turn to type it has sent
nothing, and that a step that is not waiting for an answer has no call out.

*Delivery.* `ClipInv` says that, unless two deliveries crossed on the clipboard, at most
one thread has something to give back, and that this, or what the delivery has saved, is
what the user copied. `LandInv` follows the words of a delivery whose field the user leaves alone: until a
transport writes, the field is as it was at key-down but for the first words of `past.cut` attempts that
stopped half way (`Begun`), and no keystroke is on its way; every
transport is given the words said (on macOS, for a field with nothing selected, the whole
field with the words in it), an undo what its unit had found; and what a transport leaves is either in the field or on the
clipboard with one keystroke on its way. `Landed` then says what the field holds, transport by transport.
It is not always what was wanted: a field whose selection can be set and whose value cannot
gets the whole value typed (`SpliceIsTyped`), the halves of failed attempts stay, an application on Windows that
ignores accessibility writes keeps what it has, and a keystroke handled after the clipboard was given back
pastes the user's own text (`Entered`). These are in the code and so in the property, each as exactly what happens
(section 7). Two things are left out: deliveries between whose key-down and end the user
touches the field or the clipboard, and, where two deliveries crossed on the clipboard, the clipboard
itself and a paste that came too late.

*The tap and the hook.* `HookInv` adds what the matcher remembers of the world: unless a
keystroke was missed, it is down exactly when the machine is pressed, and then the bound
key is held. On macOS, where the tap is told when it was switched off, a miss lasts only
until it is switched on again, so the chord is never struck unheard; on Windows nothing tells
the hook, which is why the two are separate conjuncts. For the Linux socket `LiveInv` says that
the events sent agree with the machine (`LiveCaptureIsTold`) until the user has paused:
pausing drops key-downs, and the claim is not made of it.

*The chords.* What is accepted is a chord (`ParsesToChord`): a side key alone, or fn alone, or a key with
modifiers. Printing one names its modifiers, each once and nothing else (`ModsAreShown`, one more at a
time), and the key is then the only token that is no modifier (`ReadWithKey`). That it can be struck is a
matter of the mask: the function row adds fn by itself, and fn counts only where the chord asks for it.
The proof found a `CASE` in the property whose arms overlapped; the event with which a chord begins is
now an operator of its own (`Struck`).

*The recognizers.* What a helper of the Apple backend says only grows. `EventsInv` orders, by
amount of audio, what was painted, what is known, the texts still in the pipe and what the
helper has read; `DoneInv` that in front of a Done, if no fault occurred, there is a text of
everything fed, or it is known already. A helper that died or went deaf falls under
neither, hence the count of faults. Of the others, `BufferInv` says that what was
transcribed ends before what is held. A drain takes the *last* text of a sequence: that
a finite set of indices has a largest is proved from the well-foundedness of the naturals
(`LastOfSome`).

*The ring.* That what was sent is in order says nothing of the next overflow. `RingInv` says
exactly what the ring holds, the last samples delivered without a gap, and that what was
sent is before them; `RingPush` that a push keeps this in each of its cases (room for all,
some of the old go, all of it and some of the callback go).

*The segmenter.* The chunks are compared with an ideal: the frames of all that was heard,
stepped one by one (`Ideal`). That the recursive function `StepAll` unfolds at every frame is
proved by the least frame at which it would not (`LeastNumber`, `StepsOfDef`); the same principle
gives an induction over frames (`UpTo`). `Good` says what the ideal has done after each frame:
what is fed ends at the frame and is in order while speech goes on; in silence what is pending is the
newest context, no longer than is kept, and joins what was fed or is cut at its length; the run
counts exactly the speech or the silence at the end. `FrameStep` keeps it over one frame.
`ChunkFollows` says that stepping the rest of one chunk with the next is stepping the ideal further,
so that `SegInv` holds whatever the chunks are, and `SegInvImplies` reads the four properties from it.

*The model.* `StoreInv` adds that a file about to get the name was hashed, and that before
the user's first file no download of the user's is under way and what was just renamed is
still there. The action property needs the types only.

*Streamed sessions.* First the data. `MinimalEditIs` proves of any two texts what
`EditsRoundTrip` has TLC check on some: the prefix and the suffix they share, drawn back to word
boundaries, do not overlap, and replacing what is between them gives the new text.
`HorizonUpdateIs` proves that what an update commits extends what was committed and is a prefix of every hypothesis
in the window; `RetreatWords` is a recursive function, and that it is one (`StepsExist`) and
stays in the text (`RetreatWordsIs`) is proved by the least number of words at which it would not,
which needs no induction theorem. `RegionTakesEdit` says that a command whose range lies
in the text of the region changes that text in the field and nothing else, wherever the
region is, with or without the lead. Then the session: `SessionPartialIs` and `SessionTickIs` say
that what is sent turns the text written into one that extends it. `StreamInv` ties these together across
the two queues. While the user speaks the gate is in one of four states: nothing under way
(`Quiet`), a write with the thread (`Sent`), its completion unread (`Answered`), a write failed
(`Broken`); a settle is behind a write (`Behind`), next (`Waiting`), answered (`Ended`) or never
answered, the thread gone (`Gone`); an utterance ends `Dropped` or `Delivered`. Each
names the one command that may be under way and the text it applies to, so that each step
goes from one of the states to another, and until the thread is done the field is
what was there with the region laid out in it. Three things in the model were found by the
proof: the arms of a `CASE` in `SessionPartial` overlapped, so that its value was not determined for
a transport that cannot revise; `CommitsAreAgreed` looked at the first grapheme of what may be
empty; and a hypothesis was any value.

*The undo ring.* `UndoInv` says of every unit that its after image holds what the user had
typed in its before image (a dictation puts pieces in and takes none out, which is a
bijection between the typed positions of the two), and of a dictation nobody disturbed that
it is the newest unit, its after image what the field holds. A dictation of something is
never an image equal to its own start, so it always becomes a unit, however full the ring.

*The menu.* `EntriesAre` and `BuildIs` say of every menu that can be built that each row has
the action of what it says. `MenuInv` then keeps rows and actions of one menu together, which is
not enough: it adds that on Windows no click is left when the loop returns to the file or
draws, so that a click is always one on the rows whose actions are looked up (on macOS it is
false, which `StaleClicksIgnored` shows). For the file, that a version which the watcher
has as its baseline, with no change on its way and none in the gap, is the version read.
`Handle` was a `CASE` whose arms applied the action's first word to no action at all; it is
now a choice of disjoint disjuncts.

*The settings file.* That the file says what the user has set is not inductive: a process
holds a text it has yet to write, and the file is empty while one fills it. `FileInv` adds that
what a process is about to write says what the user wished when it looked (with the row, for
the menu), that an empty file is being filled (`Torn`), and that while the file is missing
and there is a legacy one to adopt, no process has come further than copying it. It speaks of the *set* of
lines that set something (`Agrees`), because two texts laid over each other may set a key twice, to the
same value; `AgreesSays` reads the value from that. The lemmas on texts say what the refresh
(`RefreshIs`), the starter file, the overlay of two writers (`OverlayAgrees`) and a key written into a
text (`UpdateLineIs`) do to that set; that the recursive function `SettingsUpTo` collects it is proved
as for the segmenter. The proof found that the model was too kind: it took the menu's row to
be all the user had set, so that a row saved over an emptied file lost nothing by definition.

*The layers.* Nothing changes but the user's file, so the invariant is that documents stay
documents (`LayersTyped`); the work is in the operators. `get_for` looks for the highest layer that sets
a key, the property for the first of five that says something valid: `HighestOfFour` and `HighestOfFive`
say the one as a chain of cases, with or without a profile, `FirstSaidIs` the other, and `EffectiveIs`
joins them. A row of the menu (`MenuWrites`) is then a comparison of two such chains. That the profile
announced wins (`AnnouncedWins`) rests on a fact about names: of two prefixes of one name the shorter is
a prefix of the longer (`PrefixOfPrefix`), so two patterns that match one application overlap, and the
four cases of stars decide both the warning and the rank.

*Spoken commands.* `ResolveMeans` goes through the ways a name is resolved: exactly (a name
starts itself, so a prefix that fits another application does not matter), as the only prefix
(then nothing is named exactly, because a list has each name once), or by ear when no
prefix fits. `OneVerb` says that at most one verb begins a phrase. `CommandInv` adds that
the list is of what was on the machine, each file one entry, which is why gio cannot start another.

Only model-checked: the liveness half of `MenuIsTrue`, and what is checked of
fields, word lists and spoken edits.
Much of it is computed by recursive operators or by folds over texts, and what such an
operator returns for every text needs an induction that the provers here cannot
instantiate (of a recursive *function* a least counterexample can sometimes take its place, as above). All liveness is out of their reach too, as is `ENABLED`.

## 7. Where the code and its documentation disagree

Two runs check one sentence each, and TLC finds the behaviour that contradicts it.
In `no_double_insert`, with two settles due, the first writer's report settles the second
utterance, whose text is then inserted whole next to its own stream
(`outloud/pipeline.rs:812`, against the comment at `:941`). In `pipeline_stream_live` one
refused write leaves the writer behind its session, the splice of the settle panics its thread
(`ax_stream.rs:65`), and the answer that "arrives as `StreamerEvent::Finished`"
(`streamer.rs:145`) never does: the panel stays on Injecting, and a `--once` run does not end.

The models have further behaviours of this kind. No run is kept for them. Where the
first column names a formula it stands in the module named and can be given to TLC
as an invariant or property of the module's configuration.

| Formula | The sentence | What the code does |
|---|---|---|
| `NoInterleaving` (Pipeline) | utterances do not interleave | after a key-down over a muted application the hot-mic timeout finalizes an utterance nobody began; the next starts on top of it |
| `SilenceVerdictTrue` (Pipeline) | heard_anything covers every chunk of the utterance | chunks in the drain at the key-up are not shown to it (`pipeline.rs:613`) |
| `EmptyFinalWritesNothing` (Pipeline) | an empty final writes nothing | it erases what was streamed (`pipeline.rs:802`) |
| - (Pipeline) | a lost release recovers within two minutes (`hotkey/trigger.rs:154`) | a further press re-arms the watchdog and does not move the machine (`backend/linux.rs:176`) |
| - (Pipeline) | the microphone is on only while dictating (`mic.rs:15`) | a key-down over a muted application leaves it open until the hot-mic timeout (`pipeline.rs:527`) |
| - (Pipeline) | a slow transport folds intermediates together (`streamer.rs:14`) | a late completion unlocks the coalescer of the next utterance (`pipeline.rs:373`) |
| - (Pipeline) | an edge that is not drawn is a bug (`state.rs:100`) | Error to Injecting is asked for when text follows a silence verdict (`pipeline.rs:1039`); Injecting to Listening when a press is accepted before the settle of a streamed utterance (`:580`), where `OverlayTruthful` fails |
| - (Pipeline) | an error stays long enough to read (`pipeline.rs:27`) | the empty Final of the same utterance takes it down (`pipeline.rs:1036`) |
| - (Pipeline) | every replayed utterance commits before the process exits (`main.rs:1053`) | a recording refused while another is in flight is never counted (`source.rs:256`) |
| `FailureReported`, and `SettleAnswered` at the grain of splices (StreamSession) | the final pass reports the failure (`streamer.rs:54`) | after a refused write a settle can be counted a success |
| `FailedTextIsOnClipboard` (Delivery) | your text is on the clipboard (`inject.rs:950`, `:1070`) | not when the clipboard was refused, or was given back first |
| `NotDuplicated` (Delivery) | not retyping, because that would duplicate what landed (`inject.rs:1709`) | what was cut short is pasted from its first word |
| `IgnoredWritesAreSkipped` (Delivery) | these apps skip the AXValue tier entirely (`keys.rs:105`) | on Windows they are written to, and the write counts as delivered |
| `LandsInEveryField` (Delivery) | - | a field whose selection can be set and whose value cannot gets its whole new value typed at the caret (`inject.rs:1226`) |
| `OneDialogPerRun`, `RequestsEnd`, `NoKeyLeftDown` (Portal) | one dialog per run (`portal.rs:46`) | the session dies with the target of each delivery; the deadline is looked at between two messages only; typing cut short leaves a key down |
| `DroppedHookIsReinstalled` (KeyHook) | the watchdog reinstalls a dropped hook (`windows.rs:26`, `docs/hotkeys.md:241`) | only when installing a second one fails |
| `WindowsMatchesExactly` (KeyHook) | key-down requires the modifiers to match exactly (`winmatch.rs:18`) | one bit is kept for both sides of a modifier: with both held, the release of either counts as no modifier held |
| `SharedStrikeIsReported` (Chords) | one table for matching and conflicts (`keycode.rs:7`) | the masks differ, a conflict can go unreported |
| `ScopeIsHonoured` (EditIntent) | ignoring the scope is exactly the failure (`parse.rs:141`) | making a list and deleting a mark ignore it |
| `WordsDeletedLocally` (EditIntent) | not an unrequested edit outside the requested span (`segment.rs:169`) | deleting words closes the doubled spaces anywhere in the text |
| `BlastRadiusIsBounded` (Rewrite) | one exception, for blast radius (`freeform.rs:306`) | a phrase of fillers or marks alone replaces the whole selection |
| `OnlyChangesAreReported`, `SeparatorsStay` (WordList) | nothing is reported when nothing changed (test, `vocab.rs:620`); separators are kept (`vocab.rs:274`) | a term already written right is reported; line breaks are gone when any term is long enough |
| `NeverAnotherOne` (AppCommand) | gtk-launch cannot tell two entries apart and is not used (`launch.rs:224`) | it is used where there is no gio |
| `InterleavedCommentsKept` (ConfigFile) | a user's own comments among the settings are kept (`paths.rs:262`) | the refresh keeps settings only |
| - (ConfigFile) | every uncommented setting is the user's (`paths.rs`); a crash must never leave the user with half a config (`menuhost.rs:479`) | four ways a setting is lost (`disturbed`): the refresh and the legacy copy write what was read before an edit, and a menu row is saved over it too; a menu row is saved over a file another process has just emptied (`menuhost.rs:471`); a death in the copy or the refresh leaves an empty file (`relocate.rs:97`); a deleted file is replaced by the legacy one |
| `StaleClicksIgnored`, `EveryEditApplies` (Menu) | acting on a stale index would perform another setting's write (`menuhost.rs:419`); changes apply live (`docs/configuration.md:298`) | on macOS new actions are in place before old clicks are looked up; an edit in the gap before the new watcher's baseline is missed |
| `OwnUtteranceOnly`, `ErrorIsReported` (Backends) | an utterance never inherits state (`asr/pipeline.rs:70`); errors are surfaced (`apple.rs:237`) | nemo keeps the audio when its file cannot be written; an error during feeding is passed over |
| `PinnedIsVerified`, `ResumesAfterCrash` (ModelStore) | a pinned model is hashed once (`models.rs:186`); a download resumes (`models.rs:8`) | the daemon finds the file before fetch is asked; killed between last piece and rename, every later start asks for a range beyond the end and fails |
| `TruncatedIsRejected` (Replay) | a truncated record is rejected (`replay.rs:357`) | one cut inside its numbers may still add up |
| - (Doctor) | accessibility of the doctor itself is a confident wrong answer (`checks.rs:27`) | the check passes for the doctor's own bundle when that is trusted; Wayland fails although the portal can type (`:609`) |
| - (FieldAccess) | a snapshot is at one instant (`ax-edit/lib.rs:46`) | not when the batched read is refused; a hung application is told as a missing permission (`macos.rs:313`); a write that timed out may be applied late (`:89`); `insert` on Windows loses what is typed between its read and its write (`ax.rs:264`) |
| - (MainThread) | runs on every exit path (`main.rs:931`) | a delivery under way when the user quits registers its restore after the list was taken; restores made in line are cut short; edits are not polled when the icon could not be made |
| - (DaemonStart) | the lock excludes a second daemon (`instance.rs`) | not when its file was removed by name between the open and the flock of the next one (`raced`, `instance.rs:84`); the reaper takes a `--once` run's helper |

## 8. What is not modelled

- Signal processing (`audio/vad.rs`, `resample.rs`, `meter.rs`): numeric code over
  floating-point samples; the segmenter takes the verdict on each frame as given.
- Drawing (`overlay/layout.rs`, `text_window.rs`, the platform windows and their
  animation clocks): pixels, with no state the rest depends on but the one modelled in
  `Overlay` and `Menu`.
- Decoding inside the recognizers and the language model: an answer.
- `spike-cli`, the examples and benches: measurement tools.
- Schema tables, key code tables, option texts, suggestions in messages, log wording,
  redaction of paths: data and wording.
- The recognition of desktop entries and registry keys by `app-command`: an
  application is a record.
- The frontend channel closing, the peer check and line parsing of the sockets, the
  count of dropped chunks, the permission and offline states of the overlay, which
  the supervisor never enters.
- The drain task that checks its flag just before the microphone closes and sends its
  chunk just after: `AudioChain` has the two steps, but `Pipeline` takes chunks only
  while the microphone is open (`source.rs:173`).
- `StreamSession` follows one utterance and `Pipeline` keeps no coalescer, so the
  completion of one utterance that unlocks the next (`pipeline.rs:373`) is in neither.

## 9. What could come next

1. `StreamSession` with two utterances, and the refinement of `Pipeline`'s coarse
   writer by it.
2. Proofs of the invariants of the parts without recursion that are only model-checked: the
   calls of the field's interface; and of what remains true of the panel where utterances are streamed.
3. The delivery chain composed with `FieldAccess`, so that a tier is the messages it
   is made of.
