---------------------------- MODULE DaemonStart ----------------------------
(***************************************************************************)
(* Processes of the outloud binary coming and going on one machine: what   *)
(* main does before the pipeline runs (crates/outloud/src/main.rs), the    *)
(* single-instance lock and the reaper of speech helpers (instance.rs),    *)
(* and the trigger socket every daemon binds (hotkey backend/linux.rs).    *)
(*                                                                         *)
(* A process is one member of Procs and lives once; a restart is another   *)
(* member.  The lock file has a name and an inode: flock belongs to the    *)
(* inode, removal to the name.  The kernel drops the lock, the listener    *)
(* and nothing else when a process dies; files stay behind.                *)
(***************************************************************************)
EXTENDS Naturals, FiniteSets

CONSTANTS
  Procs,      \* the processes, each started at most once
  NoProc,     \* nobody
  MaxInodes   \* bound: lock files ever created

ASSUME StartAssumption == NoProc \notin Procs /\ MaxInodes \in Nat \ {0}

VARIABLES
  pc,         \* where each process is in main
  args,       \* its command line, as parse_args returns it
  fd,         \* the inode its lock file descriptor is on, 0 when none
  lockName,   \* the inode the name outloud.lock leads to, 0 when no file
  inodes,     \* per inode: who holds the flock and the pid written in it
  sockName,   \* whose socket file the trigger path is, NoProc when none
  helpers,    \* the processes with a live speech helper
  told,       \* the pid a refused process was told, NoProc when none
  raced,      \* a process locked a file whose name was removed since it opened it
  killed      \* the live processes whose helper was killed by another's reaper

startVars == <<pc, args, fd, lockName, inodes, sockName, helpers, told, raced, killed>>

(* What parse_args can return: a one-shot run or a daemon, with or without *)
(* recorded utterances.  --wav with --say, and files without --once, are   *)
(* refused only after the lock has been taken.                             *)
Args == [once : BOOLEAN, wav : BOOLEAN, say : 0..1]

UtterancesOf(a) == IF a.wav THEN 1 ELSE a.say
ArgsUsable(a) == ~(a.wav /\ a.say > 0) /\ (UtterancesOf(a) > 0 => a.once)

(* The Config main builds from them; Pipeline's constants are its fields.  *)
StartConfig(a) ==
  [once |-> a.once,
   onceAfter |-> IF UtterancesOf(a) > 0 THEN UtterancesOf(a) ELSE 1,
   autoEndpoint |-> a.once /\ UtterancesOf(a) = 0]

StartPcs == {"Off", "Parsed", "Opened", "Locked", "Emptied", "Owner", "Reaped", "Ready",
             "Found", "Dead", "Cleared", "Running", "Leaving", "Unnamed", "Released",
             "Gone", "Refused"}

Alive(p) == pc[p] \notin {"Off", "Gone", "Refused"}

\* A daemon that has the lock and has not been asked to go.
Daemon(p) == ~args[p].once /\ pc[p] \in
  {"Locked", "Emptied", "Owner", "Reaped", "Ready", "Found", "Dead", "Cleared", "Running"}

\* Its accept thread runs until the process is gone, whatever main has released.
Listening(p) == ~args[p].once /\ pc[p] \in {"Running", "Leaving", "Unnamed", "Released"}

\* Every variable of the processes, the files and the helpers has its type.
StartTypeOK ==
  /\ pc \in [Procs -> StartPcs]
  /\ args \in [Procs -> Args]
  /\ fd \in [Procs -> 0..MaxInodes]
  /\ lockName \in 0..MaxInodes
  /\ inodes \in [1..MaxInodes -> [holder : Procs \cup {NoProc}, pid : Procs \cup {NoProc}, used : BOOLEAN]]
  /\ sockName \in Procs \cup {NoProc}
  /\ helpers \subseteq Procs /\ killed \subseteq Procs
  /\ told \in [Procs -> Procs \cup {NoProc}]
  /\ raced \in BOOLEAN
  /\ \A i \in 1..MaxInodes : inodes[i].holder # NoProc => fd[inodes[i].holder] = i

StartInit ==
  /\ pc = [p \in Procs |-> "Off"]
  /\ args \in [Procs -> Args]
  /\ fd = [p \in Procs |-> 0] /\ lockName = 0
  /\ inodes = [i \in 1..MaxInodes |-> [holder |-> NoProc, pid |-> NoProc, used |-> FALSE]]
  /\ sockName = NoProc /\ helpers = {} /\ killed = {}
  /\ told = [p \in Procs |-> NoProc] /\ raced = FALSE

Goto(p, from, to) == pc[p] = from /\ pc' = [pc EXCEPT ![p] = to]

\* The user, a login item or a script starts the program.
StartProcess(p) ==
  /\ Goto(p, "Off", IF args[p].once THEN "Owner" ELSE "Parsed")
  /\ UNCHANGED <<args, fd, lockName, inodes, sockName, helpers, told, raced, killed>>

-----------------------------------------------------------------------------
(* The lock (acquire_at, Drop for InstanceLock)                            *)

\* Mutant: what an earlier run left is removed before the file is opened.
OpenAfresh(p) ==
  /\ Goto(p, "Parsed", "Opened")
  /\ \E i \in 1..MaxInodes :
       /\ ~inodes[i].used
       /\ inodes' = [inodes EXCEPT ![i].used = TRUE]
       /\ lockName' = i /\ fd' = [fd EXCEPT ![p] = i]
  /\ UNCHANGED <<args, sockName, helpers, told, raced, killed>>

\* open with create and without truncate: the file the name leads to, or a new one.
OpenLockFile(p) ==
  /\ Goto(p, "Parsed", "Opened")
  /\ \E i \in 1..MaxInodes :
       /\ IF lockName # 0 THEN i = lockName
          ELSE ~inodes[i].used /\ \A j \in 1..(i - 1) : inodes[j].used
       /\ inodes' = [inodes EXCEPT ![i].used = TRUE]
       /\ lockName' = i /\ fd' = [fd EXCEPT ![p] = i]
  /\ UNCHANGED <<args, sockName, helpers, told, raced, killed>>

\* Mutant: the pid in the file decides, as with a pid file.
FreeByContent(i) == inodes[i].pid = NoProc

\* Mutant: the lock is taken shared.
SharedLockFree(i) == inodes[i].used

\* flock with LOCK_EX | LOCK_NB succeeds on an inode nobody holds.
LockFree(i) == inodes[i].holder = NoProc

\* The name is not looked at again: it may lead elsewhere by now.
TryLock(p) ==
  /\ Goto(p, "Opened", "Locked") /\ LockFree(fd[p])
  /\ inodes' = [inodes EXCEPT ![fd[p]].holder = p]
  /\ raced' = (raced \/ lockName # fd[p])
  /\ UNCHANGED <<args, fd, lockName, sockName, helpers, told, killed>>

\* The refused process names whoever the file names and exits.
Refuse(p) ==
  /\ Goto(p, "Opened", "Refused") /\ ~LockFree(fd[p])
  /\ told' = [told EXCEPT ![p] = inodes[fd[p]].pid]
  /\ fd' = [fd EXCEPT ![p] = 0]
  /\ UNCHANGED <<args, lockName, inodes, sockName, helpers, raced, killed>>

EmptyLockFile(p) ==
  /\ Goto(p, "Locked", "Emptied")
  /\ inodes' = [inodes EXCEPT ![fd[p]].pid = NoProc]
  /\ UNCHANGED <<args, fd, lockName, sockName, helpers, told, raced, killed>>

WritePid(p) ==
  /\ Goto(p, "Emptied", "Owner")
  /\ inodes' = [inodes EXCEPT ![fd[p]].pid = p]
  /\ UNCHANGED <<args, fd, lockName, sockName, helpers, told, raced, killed>>

\* main returns and drops the lock: the name goes first, whatever it leads to,
\* then the descriptor and with it the flock.
RemoveLockName(p) ==
  /\ Goto(p, "Leaving", "Unnamed")
  /\ lockName' = IF fd[p] = 0 THEN lockName ELSE 0
  /\ UNCHANGED <<args, fd, inodes, sockName, helpers, told, raced, killed>>

\* Mutant: a lock stays when its holder goes, as with a lock file.
StillHeld(p) == inodes

Freed(p) == [i \in 1..MaxInodes |-> IF inodes[i].holder = p THEN [inodes[i] EXCEPT !.holder = NoProc] ELSE inodes[i]]

ReleaseLock(p) ==
  /\ Goto(p, "Unnamed", "Released")
  /\ fd' = [fd EXCEPT ![p] = 0] /\ inodes' = Freed(p)
  /\ UNCHANGED <<args, lockName, sockName, helpers, told, raced, killed>>

\* The clipboard guard, declared before the lock, runs after it; then the process ends.
ExitProcess(p) ==
  /\ Goto(p, "Released", "Gone")
  /\ helpers' = helpers \ {p}
  /\ UNCHANGED <<args, fd, lockName, inodes, sockName, told, raced, killed>>

-----------------------------------------------------------------------------
(* From the lock to the pipeline                                           *)

\* Mutant: a one-shot run, which has no lock, reaps as well.
ReapWithoutLock(p) ==
  /\ Goto(p, "Owner", "Reaped")
  /\ killed' = killed \cup {q \in helpers \ {p} : pc[q] = "Running"}
  /\ helpers' = helpers \cap {p}
  /\ UNCHANGED <<args, fd, lockName, inodes, sockName, told, raced>>

\* reap_stale_helpers: every speech helper of the machine but one's own.
ReapStaleHelpers(p) ==
  /\ Goto(p, "Owner", "Reaped")
  /\ IF args[p].once THEN UNCHANGED <<helpers, killed>>
     ELSE /\ killed' = killed \cup {q \in helpers \ {p} : pc[q] = "Running"}
          /\ helpers' = helpers \cap {p}
  /\ UNCHANGED <<args, fd, lockName, inodes, sockName, told, raced>>

\* The inputs are loaded, the configuration and the recognizer factory built;
\* an unusable command line, a missing file or a missing model ends the run.
Prepare(p) ==
  /\ \/ ArgsUsable(args[p]) /\ Goto(p, "Reaped", "Ready")
     \/ Goto(p, "Reaped", "Leaving")
  /\ UNCHANGED <<args, fd, lockName, inodes, sockName, helpers, told, raced, killed>>

\* A one-shot run binds no hotkey.
RunOnce(p) ==
  /\ args[p].once /\ Goto(p, "Ready", "Running")
  /\ UNCHANGED <<args, fd, lockName, inodes, sockName, helpers, told, raced, killed>>

\* bind: is there a socket file
Probe(p) ==
  /\ ~args[p].once
  /\ Goto(p, "Ready", IF sockName = NoProc THEN "Cleared" ELSE "Found")
  /\ UNCHANGED <<args, fd, lockName, inodes, sockName, helpers, told, raced, killed>>

\* Mutant: a socket file is taken for a live listener.
AnyFileIsLive == sockName # NoProc

\* connect succeeds while the process that made the file still accepts on it.
SocketLive == sockName # NoProc /\ Listening(sockName)

ConnectProbe(p) ==
  /\ Goto(p, "Found", IF SocketLive THEN "Leaving" ELSE "Dead")
  /\ UNCHANGED <<args, fd, lockName, inodes, sockName, helpers, told, raced, killed>>

\* remove_file of the dead socket; it fails when somebody else has removed it.
ClearSocket(p) ==
  /\ Goto(p, "Dead", IF sockName = NoProc THEN "Leaving" ELSE "Cleared")
  /\ sockName' = NoProc
  /\ UNCHANGED <<args, fd, lockName, inodes, helpers, told, raced, killed>>

\* UnixListener::bind fails on a path that exists.
BindSocket(p) ==
  /\ Goto(p, "Cleared", IF sockName = NoProc THEN "Running" ELSE "Leaving")
  /\ sockName' = IF sockName = NoProc THEN p ELSE sockName
  /\ UNCHANGED <<args, fd, lockName, inodes, helpers, told, raced, killed>>

\* A recognizer spawns its helper for an utterance and ends it after it.
SpawnHelper(p) ==
  /\ pc[p] = "Running" /\ p \notin helpers /\ helpers' = helpers \cup {p}
  /\ UNCHANGED <<pc, args, fd, lockName, inodes, sockName, told, raced, killed>>

HelperEnds(p) ==
  /\ Alive(p) /\ p \in helpers /\ helpers' = helpers \ {p}
  /\ UNCHANGED <<pc, args, fd, lockName, inodes, sockName, told, raced, killed>>

\* Quit in the menu, or the pipeline returning its result.
Quit(p) ==
  /\ Goto(p, "Running", "Leaving")
  /\ UNCHANGED <<args, fd, lockName, inodes, sockName, helpers, told, raced, killed>>

\* A kill, a signal or a power cut: no destructor runs; the helper may survive it.
Crash(p) ==
  /\ Alive(p) /\ pc' = [pc EXCEPT ![p] = "Gone"]
  /\ fd' = [fd EXCEPT ![p] = 0] /\ inodes' = Freed(p)
  /\ helpers' \in {helpers, helpers \ {p}}
  /\ UNCHANGED <<args, lockName, sockName, told, raced, killed>>

StartStep(p) ==
  \/ StartProcess(p) \/ OpenLockFile(p) \/ TryLock(p) \/ Refuse(p) \/ EmptyLockFile(p)
  \/ WritePid(p) \/ ReapStaleHelpers(p) \/ Prepare(p) \/ RunOnce(p) \/ Probe(p)
  \/ ConnectProbe(p) \/ ClearSocket(p) \/ BindSocket(p) \/ SpawnHelper(p) \/ HelperEnds(p)
  \/ Quit(p) \/ Crash(p) \/ RemoveLockName(p) \/ ReleaseLock(p) \/ ExitProcess(p)

StartNext == \E p \in Procs : StartStep(p)

StartSpec == StartInit /\ [][StartNext]_startVars

-----------------------------------------------------------------------------
(* What starting promises                                                  *)

(* instance.rs: two copies would both record and both type.  Whatever is   *)
(* removed under whom, no two daemons are up on one lock file.             *)
OneHolder == \A p, q \in Procs : Daemon(p) /\ Daemon(q) /\ fd[p] = fd[q] => p = q

(* And on two lock files only after the one race Drop for InstanceLock     *)
(* leaves: a process locked a file whose name was removed between its open *)
(* and its flock.  Names removed at any other moment, under processes that *)
(* wait, are refused or die, let no second daemon up.                      *)
OneDaemon == ~raced => \A p, q \in Procs : Daemon(p) /\ Daemon(q) => p = q

(* linux.rs bind checks and then acts; the lock makes that safe: the path  *)
(* of the trigger socket leads to the daemon that runs, never to a dead or *)
(* a removed socket (but for that race).                                   *)
TriggerReachesDaemon ==
  ~raced => \A p \in Procs : pc[p] = "Running" /\ ~args[p].once => sockName = p

(* What a dead process leaves, lock file, pid and socket, never turns away *)
(* a new one: whoever is refused, by the lock or by the socket, shares the *)
(* machine with another daemon that is alive; but that after the race it   *)
(* may find its own probe of the socket outdated.                          *)
StaleFilesNeverBlock ==
  [][\A p \in Procs :
       (pc[p] = "Opened" /\ pc'[p] = "Refused") \/ (pc[p] \in {"Found", "Dead", "Cleared"} /\ pc'[p] = "Leaving")
         => \/ raced /\ pc[p] \in {"Dead", "Cleared"}
            \/ \E q \in Procs \ {p} : Alive(q) /\ ~args[q].once]_startVars

(* The reaper runs under the lock: the helpers it kills belong to nobody   *)
(* alive, or to a one-shot run, which takes no lock, never to a daemon     *)
(* (but for that race).                                                    *)
ReaperSparesDaemons == ~raced => \A p \in killed : args[p].once

(* One daemon: it records, it owns the trigger socket, nobody kills its    *)
(* helpers.                                                                *)
DaemonsExclude == OneHolder /\ OneDaemon /\ TriggerReachesDaemon /\ ReaperSparesDaemons
=============================================================================
