---------------------------- MODULE DaemonProofs ----------------------------
(***************************************************************************)
(* Starting outloud is exclusive: DaemonsExclude and StaleFilesNeverBlock  *)
(* hold for any number of processes, started, killed and restarted in any  *)
(* order.                                                                  *)
(*                                                                         *)
(* The lock of instance.rs protects what bind in linux.rs checks and then  *)
(* does, and what the reaper kills.  It does so through two facts: whoever *)
(* is past the lock holds the flock of the inode it has open, so no two    *)
(* daemons are on one lock file; and whoever is past the lock has open the *)
(* inode the name leads to, until it removes the name.  The second holds   *)
(* up to the one race Drop for InstanceLock leaves (raced): a name removed *)
(* between another process's open and its flock.                           *)
(*                                                                         *)
(* What such a daemon types through the desktop's portal is typed with     *)
(* consent: TypesWithConsent.  And whatever transport a transcript takes   *)
(* into the focused field, DeliveryIsExact: the field holds what that      *)
(* transport puts there, the clipboard is given back, and an undo found    *)
(* what the newest edit had left.                                          *)
(***************************************************************************)
EXTENDS DaemonStart, Portal, Delivery, TLAPS

LockFiles == [1..MaxInodes -> [holder : Procs \cup {NoProc}, pid : Procs \cup {NoProc}, used : BOOLEAN]]

\* Where a process has the lock, if it takes one.
Locking == {"Locked", "Emptied", "Owner", "Reaped", "Ready", "Found", "Dead", "Cleared", "Running", "Leaving", "Unnamed"}

\* A run with --once never goes near the lock or the socket.
OnceInv ==
  \A p \in Procs : args[p].once =>
    fd[p] = 0 /\ pc[p] \notin {"Parsed", "Opened", "Locked", "Emptied", "Found", "Dead", "Cleared", "Refused"}

\* A descriptor is open from the open to the release, on a file that was made.
OpenInv ==
  /\ \A p \in Procs : fd[p] # 0 => pc[p] \in Locking \cup {"Opened"} /\ inodes[fd[p]].used
  /\ \A p \in Procs : pc[p] \in Locking \cup {"Opened"} /\ ~args[p].once => fd[p] # 0
  /\ lockName # 0 => inodes[lockName].used

\* Past the lock, the flock is held; and whoever holds one has it open.
LockInv ==
  /\ \A p \in Procs : pc[p] \in Locking /\ ~args[p].once => inodes[fd[p]].holder = p
  /\ \A i \in 1..MaxInodes : inodes[i].holder # NoProc => pc[inodes[i].holder] \in Locking

\* Until the name is removed it leads to the inode whoever is past the lock has open.
NameInv ==
  ~raced => \A p \in Procs : fd[p] # 0 /\ pc[p] \in Locking \ {"Unnamed"} => fd[p] = lockName

\* Between the probe and the bind nobody else touches the socket.
SocketInv ==
  ~raced => \A p \in Procs :
    /\ pc[p] \in {"Found", "Dead"} => sockName # NoProc
    /\ pc[p] = "Cleared" => sockName = NoProc

StartInv ==
  /\ StartTypeOK /\ OnceInv /\ OpenInv /\ LockInv /\ NameInv
  /\ TriggerReachesDaemon /\ SocketInv /\ ReaperSparesDaemons

-----------------------------------------------------------------------------
(* Every part of the invariant is kept by every step                       *)

(* What is done to a lock file leaves it one.                              *)
LEMMA FilesStayFiles ==
  ASSUME StartTypeOK, NEW q \in Procs \cup {NoProc}
  PROVE  /\ \A i \in 1..MaxInodes : /\ [inodes EXCEPT ![i].used = TRUE] \in LockFiles
                                   /\ [inodes EXCEPT ![i].holder = q] \in LockFiles
                                   /\ [inodes EXCEPT ![i].pid = q] \in LockFiles
         /\ Freed(q) \in LockFiles
<1> DEFINE File == [holder : Procs \cup {NoProc}, pid : Procs \cup {NoProc}, used : BOOLEAN]
<1>1. inodes \in [1..MaxInodes -> File]
  BY DEF StartTypeOK
<1>2. ASSUME NEW f \in File
      PROVE  [f EXCEPT !.used = TRUE] \in File /\ [f EXCEPT !.holder = q] \in File /\ [f EXCEPT !.pid = q] \in File
             /\ [f EXCEPT !.holder = NoProc] \in File
  OBVIOUS
<1> HIDE DEF File
<1>3. \A j \in 1..MaxInodes : inodes[j] \in File
  BY <1>1
<1>4. \A i \in 1..MaxInodes, f \in File : [inodes EXCEPT ![i] = f] \in [1..MaxInodes -> File]
  BY <1>1
<1>5. Freed(q) \in [1..MaxInodes -> File]
  BY <1>2, <1>3 DEF Freed
<1>6. QED
  BY <1>2, <1>3, <1>4, <1>5 DEF LockFiles, File

(* A flock belongs to a descriptor.                                        *)
LEMMA Held ==
  ASSUME StartInv
  PROVE  /\ \A p \in Procs : pc[p] \notin Locking => \A i \in 1..MaxInodes : inodes[i].holder # p
         /\ \A p \in Procs : fd[p] # 0 => fd[p] \in 1..MaxInodes
         /\ \A p \in Procs : pc[p] \in {"Parsed", "Off", "Released"} => fd[p] = 0
         /\ \A p \in Procs : pc[p] \in {"Opened", "Locked", "Emptied"} => fd[p] # 0
<1> USE StartAssumption DEF StartInv, StartTypeOK
<1>1. \A p \in Procs : pc[p] \notin Locking => \A i \in 1..MaxInodes : inodes[i].holder # p
  BY DEF LockInv
<1>2. \A p \in Procs : fd[p] # 0 => fd[p] \in 1..MaxInodes
  OBVIOUS
<1>3. \A p \in Procs : pc[p] \in {"Parsed", "Off", "Released"} => fd[p] = 0
  BY DEF OpenInv, Locking
<1>4. \A p \in Procs : pc[p] \in {"Opened", "Locked", "Emptied"} => fd[p] # 0
  <2>1. ASSUME NEW p \in Procs, pc[p] \in {"Opened", "Locked", "Emptied"} PROVE ~args[p].once
    BY <2>1 DEF OnceInv
  <2>2. QED
    BY <2>1 DEF OpenInv, Locking
<1>5. QED
  BY <1>1, <1>2, <1>3, <1>4

(* Every step keeps the types.                                             *)
LEMMA StartTypeStep == ASSUME StartInv, NEW p \in Procs, StartStep(p) PROVE StartTypeOK'
<1> USE StartAssumption DEF Goto, StartTypeOK, StartInv, StartPcs, Locking
<1>1. CASE StartProcess(p)
  BY <1>1 DEF StartProcess
<1>2. CASE OpenLockFile(p)
  <2>1. PICK i \in 1..MaxInodes : inodes' = [inodes EXCEPT ![i].used = TRUE] /\ lockName' = i /\ fd' = [fd EXCEPT ![p] = i]
    BY <1>2 DEF OpenLockFile
  <2>2. inodes' \in LockFiles
    BY <2>1, FilesStayFiles
  <2>3. \A j \in 1..MaxInodes : inodes'[j].holder = inodes[j].holder /\ inodes[j].holder # p
    BY <1>2, <2>1, Held DEF OpenLockFile
  <2>4. \A j \in 1..MaxInodes : inodes'[j].holder # NoProc => fd'[inodes'[j].holder] = j
    BY <2>1, <2>3
  <2>5. QED
    BY <1>2, <2>1, <2>2, <2>4 DEF OpenLockFile, LockFiles
<1>3. CASE TryLock(p)
  <2>1. inodes' \in LockFiles
    BY <1>3, Held, FilesStayFiles DEF TryLock
  <2>2. \A i \in 1..MaxInodes : inodes'[i].holder # NoProc => fd'[inodes'[i].holder] = i
    BY <1>3, Held DEF TryLock, LockFree
  <2>3. QED
    BY <1>3, <2>1, <2>2, Held DEF LockFiles, TryLock, LockFree
<1>4. CASE Refuse(p)
  <2>1. inodes' \in LockFiles
    BY <1>4, Held, FilesStayFiles DEF Refuse, LockFiles
  <2>2. \A i \in 1..MaxInodes : inodes'[i].holder # NoProc => fd'[inodes'[i].holder] = i
    BY <1>4, Held DEF Refuse, LockFree
  <2>3. QED
    BY <1>4, <2>1, <2>2, Held DEF LockFiles, Refuse, LockFree
<1>5. CASE EmptyLockFile(p)
  <2>1. inodes' \in LockFiles
    BY <1>5, Held, FilesStayFiles DEF EmptyLockFile
  <2>2. \A i \in 1..MaxInodes : inodes'[i].holder # NoProc => fd'[inodes'[i].holder] = i
    BY <1>5, Held DEF EmptyLockFile
  <2>3. QED
    BY <1>5, <2>1, <2>2, Held DEF LockFiles, EmptyLockFile
<1>6. CASE WritePid(p)
  <2>1. inodes' \in LockFiles
    BY <1>6, Held, FilesStayFiles DEF WritePid
  <2>2. \A i \in 1..MaxInodes : inodes'[i].holder # NoProc => fd'[inodes'[i].holder] = i
    BY <1>6, Held DEF WritePid
  <2>3. QED
    BY <1>6, <2>1, <2>2, Held DEF LockFiles, WritePid
<1>7. CASE ReapStaleHelpers(p)
  BY <1>7 DEF ReapStaleHelpers
<1>8. CASE Prepare(p)
  BY <1>8 DEF Prepare
<1>9. CASE RunOnce(p)
  BY <1>9 DEF RunOnce
<1>10. CASE Probe(p)
  BY <1>10 DEF Probe
<1>11. CASE ConnectProbe(p)
  BY <1>11 DEF ConnectProbe, SocketLive, Listening
<1>12. CASE ClearSocket(p)
  BY <1>12 DEF ClearSocket
<1>13. CASE BindSocket(p)
  BY <1>13 DEF BindSocket
<1>14. CASE SpawnHelper(p)
  BY <1>14 DEF SpawnHelper
<1>15. CASE HelperEnds(p)
  BY <1>15 DEF HelperEnds, Alive
<1>16. CASE Quit(p)
  BY <1>16 DEF Quit
<1>17. CASE Crash(p)
  <2>1. inodes' \in LockFiles
    BY <1>17, Held, FilesStayFiles DEF Crash
  <2>2. \A i \in 1..MaxInodes : inodes'[i].holder # NoProc => fd'[inodes'[i].holder] = i
    BY <1>17, Held DEF Crash, Freed, Alive
  <2>3. QED
    BY <1>17, <2>1, <2>2, Held DEF LockFiles, Crash, Freed, Alive
<1>18. CASE RemoveLockName(p)
  <2>1. lockName' \in 0..MaxInodes
    BY <1>18 DEF RemoveLockName
  <2>2. raced' \in BOOLEAN
    BY <1>18, Zenon DEF RemoveLockName
  <2>3. QED
    BY <1>18, <2>1, <2>2 DEF RemoveLockName
<1>19. CASE ReleaseLock(p)
  <2>1. inodes' \in LockFiles
    BY <1>19, Held, FilesStayFiles DEF ReleaseLock
  <2>2. \A i \in 1..MaxInodes : inodes'[i].holder # NoProc => fd'[inodes'[i].holder] = i
    BY <1>19, Held DEF ReleaseLock, Freed
  <2>3. QED
    BY <1>19, <2>1, <2>2, Held DEF LockFiles, ReleaseLock, Freed
<1>20. CASE ExitProcess(p)
  BY <1>20 DEF ExitProcess
<1>21. QED
  BY <1>1, <1>2, <1>3, <1>4, <1>5, <1>6, <1>7, <1>8, <1>9, <1>10, <1>11, <1>12, <1>13, <1>14, <1>15, <1>16, <1>17, <1>18, <1>19, <1>20 DEF StartStep

(* A one-shot run never comes near the lock.                               *)
LEMMA OnceStep == ASSUME StartTypeOK, OnceInv, NEW p \in Procs, StartStep(p) PROVE OnceInv'
<1> USE StartAssumption DEF Goto, StartTypeOK, OnceInv, StartPcs
<1>1. CASE StartProcess(p)
  BY <1>1 DEF StartProcess
<1>2. CASE OpenLockFile(p)
  BY <1>2 DEF OpenLockFile
<1>3. CASE TryLock(p)
  BY <1>3 DEF TryLock, LockFree
<1>4. CASE Refuse(p)
  BY <1>4 DEF Refuse, LockFree
<1>5. CASE EmptyLockFile(p)
  BY <1>5 DEF EmptyLockFile
<1>6. CASE WritePid(p)
  BY <1>6 DEF WritePid
<1>7. CASE ReapStaleHelpers(p)
  BY <1>7 DEF ReapStaleHelpers
<1>8. CASE Prepare(p)
  BY <1>8 DEF Prepare
<1>9. CASE RunOnce(p)
  BY <1>9 DEF RunOnce
<1>10. CASE Probe(p)
  BY <1>10 DEF Probe
<1>11. CASE ConnectProbe(p)
  BY <1>11 DEF ConnectProbe, SocketLive, Listening
<1>12. CASE ClearSocket(p)
  BY <1>12 DEF ClearSocket
<1>13. CASE BindSocket(p)
  BY <1>13 DEF BindSocket
<1>14. CASE SpawnHelper(p)
  BY <1>14 DEF SpawnHelper
<1>15. CASE HelperEnds(p)
  BY <1>15 DEF HelperEnds, Alive
<1>16. CASE Quit(p)
  BY <1>16 DEF Quit
<1>17. CASE Crash(p)
  BY <1>17 DEF Crash, Freed, Alive
<1>18. CASE RemoveLockName(p)
  BY <1>18 DEF RemoveLockName
<1>19. CASE ReleaseLock(p)
  BY <1>19 DEF ReleaseLock, Freed
<1>20. CASE ExitProcess(p)
  BY <1>20 DEF ExitProcess
<1>21. QED
  BY <1>1, <1>2, <1>3, <1>4, <1>5, <1>6, <1>7, <1>8, <1>9, <1>10, <1>11, <1>12, <1>13, <1>14, <1>15, <1>16, <1>17, <1>18, <1>19, <1>20 DEF StartStep

(* Descriptors are open where they should be.                              *)
LEMMA OpenStep == ASSUME StartTypeOK, OnceInv, OpenInv, NEW p \in Procs, StartStep(p) PROVE OpenInv'
<1> USE StartAssumption DEF Goto, StartTypeOK, OnceInv, OpenInv, Locking
<1>1. CASE StartProcess(p)
  BY <1>1 DEF StartProcess
<1>2. CASE OpenLockFile(p)
  BY <1>2 DEF OpenLockFile
<1>3. CASE TryLock(p)
  BY <1>3 DEF TryLock, LockFree
<1>4. CASE Refuse(p)
  BY <1>4 DEF Refuse, LockFree
<1>5. CASE EmptyLockFile(p)
  BY <1>5 DEF EmptyLockFile
<1>6. CASE WritePid(p)
  BY <1>6 DEF WritePid
<1>7. CASE ReapStaleHelpers(p)
  BY <1>7 DEF ReapStaleHelpers
<1>8. CASE Prepare(p)
  BY <1>8 DEF Prepare
<1>9. CASE RunOnce(p)
  BY <1>9 DEF RunOnce
<1>10. CASE Probe(p)
  BY <1>10 DEF Probe
<1>11. CASE ConnectProbe(p)
  BY <1>11 DEF ConnectProbe, SocketLive, Listening
<1>12. CASE ClearSocket(p)
  BY <1>12 DEF ClearSocket
<1>13. CASE BindSocket(p)
  BY <1>13 DEF BindSocket
<1>14. CASE SpawnHelper(p)
  BY <1>14 DEF SpawnHelper
<1>15. CASE HelperEnds(p)
  BY <1>15 DEF HelperEnds, Alive
<1>16. CASE Quit(p)
  BY <1>16 DEF Quit
<1>17. CASE Crash(p)
  BY <1>17 DEF Crash, Freed, Alive
<1>18. CASE RemoveLockName(p)
  BY <1>18 DEF RemoveLockName
<1>19. CASE ReleaseLock(p)
  BY <1>19 DEF ReleaseLock, Freed
<1>20. CASE ExitProcess(p)
  BY <1>20 DEF ExitProcess
<1>21. QED
  BY <1>1, <1>2, <1>3, <1>4, <1>5, <1>6, <1>7, <1>8, <1>9, <1>10, <1>11, <1>12, <1>13, <1>14, <1>15, <1>16, <1>17, <1>18, <1>19, <1>20 DEF StartStep

(* The flock is held where it should be.                                   *)
LEMMA LockStep == ASSUME StartTypeOK, OnceInv, OpenInv, LockInv, NEW p \in Procs, StartStep(p) PROVE LockInv'
<1> USE StartAssumption DEF Goto, StartTypeOK, OnceInv, OpenInv, LockInv, Locking
<1>1. CASE StartProcess(p)
  BY <1>1 DEF StartProcess
<1>2. CASE OpenLockFile(p)
  BY <1>2 DEF OpenLockFile
<1>3. CASE TryLock(p)
  BY <1>3 DEF TryLock, LockFree
<1>4. CASE Refuse(p)
  BY <1>4 DEF Refuse, LockFree
<1>5. CASE EmptyLockFile(p)
  BY <1>5 DEF EmptyLockFile
<1>6. CASE WritePid(p)
  BY <1>6 DEF WritePid
<1>7. CASE ReapStaleHelpers(p)
  BY <1>7 DEF ReapStaleHelpers
<1>8. CASE Prepare(p)
  <2>1. PICK to \in {"Ready", "Leaving"} : Goto(p, "Reaped", to)
    BY <1>8 DEF Prepare
  <2>2. QED
    BY <1>8, <2>1 DEF Prepare
<1>9. CASE RunOnce(p)
  BY <1>9 DEF RunOnce
<1>10. CASE Probe(p)
  BY <1>10 DEF Probe
<1>11. CASE ConnectProbe(p)
  BY <1>11 DEF ConnectProbe, SocketLive, Listening
<1>12. CASE ClearSocket(p)
  BY <1>12 DEF ClearSocket
<1>13. CASE BindSocket(p)
  BY <1>13 DEF BindSocket
<1>14. CASE SpawnHelper(p)
  BY <1>14 DEF SpawnHelper
<1>15. CASE HelperEnds(p)
  BY <1>15 DEF HelperEnds, Alive
<1>16. CASE Quit(p)
  BY <1>16 DEF Quit
<1>17. CASE Crash(p)
  BY <1>17 DEF Crash, Freed, Alive
<1>18. CASE RemoveLockName(p)
  BY <1>18 DEF RemoveLockName
<1>19. CASE ReleaseLock(p)
  BY <1>19 DEF ReleaseLock, Freed
<1>20. CASE ExitProcess(p)
  BY <1>20 DEF ExitProcess
<1>21. QED
  BY <1>1, <1>2, <1>3, <1>4, <1>5, <1>6, <1>7, <1>8, <1>9, <1>10, <1>11, <1>12, <1>13, <1>14, <1>15, <1>16, <1>17, <1>18, <1>19, <1>20 DEF StartStep

(* The name leads to what is open.                                         *)
LEMMA NameStep == ASSUME StartTypeOK, OnceInv, OpenInv, LockInv, NameInv, NEW p \in Procs, StartStep(p) PROVE NameInv'
<1> USE StartAssumption DEF Goto, StartTypeOK, OnceInv, OpenInv, NameInv, Locking
<1>1. CASE StartProcess(p)
  BY <1>1 DEF StartProcess
<1>2. CASE OpenLockFile(p)
  BY <1>2 DEF OpenLockFile
<1>3. CASE TryLock(p)
  BY <1>3 DEF TryLock, LockFree
<1>4. CASE Refuse(p)
  BY <1>4 DEF Refuse, LockFree
<1>5. CASE EmptyLockFile(p)
  BY <1>5 DEF EmptyLockFile
<1>6. CASE WritePid(p)
  BY <1>6 DEF WritePid
<1>7. CASE ReapStaleHelpers(p)
  BY <1>7 DEF ReapStaleHelpers
<1>8. CASE Prepare(p)
  BY <1>8 DEF Prepare
<1>9. CASE RunOnce(p)
  BY <1>9 DEF RunOnce
<1>10. CASE Probe(p)
  BY <1>10 DEF Probe
<1>11. CASE ConnectProbe(p)
  BY <1>11 DEF ConnectProbe, SocketLive, Listening
<1>12. CASE ClearSocket(p)
  BY <1>12 DEF ClearSocket
<1>13. CASE BindSocket(p)
  BY <1>13 DEF BindSocket
<1>14. CASE SpawnHelper(p)
  BY <1>14 DEF SpawnHelper
<1>15. CASE HelperEnds(p)
  BY <1>15 DEF HelperEnds, Alive
<1>16. CASE Quit(p)
  BY <1>16 DEF Quit
<1>17. CASE Crash(p)
  BY <1>17 DEF Crash, Freed, Alive
<1>18. CASE RemoveLockName(p)
  <2>1. CASE fd[p] = 0
    BY <1>18, <2>1 DEF RemoveLockName
  <2>2. ASSUME fd[p] # 0, ~raced, NEW q \in Procs, fd'[q] # 0, pc'[q] \in Locking \ {"Unnamed"}
        PROVE  FALSE
    <3>1. q # p /\ fd[q] = fd[p] /\ pc[q] \in Locking
      BY <1>18, <2>2 DEF RemoveLockName
    <3>2. ~args[p].once /\ ~args[q].once
      BY <2>2, <3>1
    <3>3. pc[p] \in Locking
      BY <1>18 DEF RemoveLockName
    <3>4. inodes[fd[p]].holder = p /\ inodes[fd[q]].holder = q
      BY <3>1, <3>2, <3>3 DEF LockInv
    <3>5. QED
      BY <3>1, <3>4
  <2>3. QED
    BY <1>18, <2>1, <2>2 DEF RemoveLockName
<1>19. CASE ReleaseLock(p)
  BY <1>19 DEF ReleaseLock, Freed
<1>20. CASE ExitProcess(p)
  BY <1>20 DEF ExitProcess
<1>21. QED
  BY <1>1, <1>2, <1>3, <1>4, <1>5, <1>6, <1>7, <1>8, <1>9, <1>10, <1>11, <1>12, <1>13, <1>14, <1>15, <1>16, <1>17, <1>18, <1>19, <1>20 DEF StartStep

(* The lock excludes: a flock has one holder, and all are on one inode.    *)
LEMMA LockExcludes == StartInv => OneHolder /\ OneDaemon
<1> SUFFICES ASSUME StartInv PROVE OneHolder /\ OneDaemon
  OBVIOUS
<1>1. \A p \in Procs : Daemon(p) => pc[p] \in Locking \ {"Unnamed"} /\ fd[p] # 0 /\ inodes[fd[p]].holder = p
  BY DEF StartInv, OpenInv, LockInv, Daemon, Locking
<1>2. OneHolder
  BY <1>1 DEF OneHolder
<1>3. ~raced => \A p \in Procs : Daemon(p) => fd[p] = lockName
  BY <1>1 DEF StartInv, NameInv
<1>4. OneDaemon
  BY <1>2, <1>3 DEF OneHolder, OneDaemon
<1>5. QED
  BY <1>2, <1>4

(* Who binds is alone.                                                     *)
LEMMA SocketStep == ASSUME StartInv, OneDaemon, NEW p \in Procs, StartStep(p) PROVE (SocketInv /\ TriggerReachesDaemon)'
<1> USE StartAssumption DEF Goto, StartTypeOK, StartInv, OnceInv, OpenInv, SocketInv, TriggerReachesDaemon, OneDaemon, Daemon
<1>1. CASE StartProcess(p)
  BY <1>1 DEF StartProcess
<1>2. CASE OpenLockFile(p)
  BY <1>2 DEF OpenLockFile
<1>3. CASE TryLock(p)
  BY <1>3 DEF TryLock, LockFree
<1>4. CASE Refuse(p)
  BY <1>4 DEF Refuse, LockFree
<1>5. CASE EmptyLockFile(p)
  BY <1>5 DEF EmptyLockFile
<1>6. CASE WritePid(p)
  BY <1>6 DEF WritePid
<1>7. CASE ReapStaleHelpers(p)
  BY <1>7 DEF ReapStaleHelpers
<1>8. CASE Prepare(p)
  BY <1>8 DEF Prepare
<1>9. CASE RunOnce(p)
  BY <1>9 DEF RunOnce
<1>10. CASE Probe(p)
  BY <1>10 DEF Probe
<1>11. CASE ConnectProbe(p)
  BY <1>11 DEF ConnectProbe, SocketLive, Listening
<1>12. CASE ClearSocket(p)
  BY <1>12 DEF ClearSocket
<1>13. CASE BindSocket(p)
  BY <1>13 DEF BindSocket
<1>14. CASE SpawnHelper(p)
  BY <1>14 DEF SpawnHelper
<1>15. CASE HelperEnds(p)
  BY <1>15 DEF HelperEnds, Alive
<1>16. CASE Quit(p)
  BY <1>16 DEF Quit
<1>17. CASE Crash(p)
  BY <1>17 DEF Crash, Freed, Alive
<1>18. CASE RemoveLockName(p)
  BY <1>18 DEF RemoveLockName
<1>19. CASE ReleaseLock(p)
  BY <1>19 DEF ReleaseLock, Freed
<1>20. CASE ExitProcess(p)
  BY <1>20 DEF ExitProcess
<1>21. QED
  BY <1>1, <1>2, <1>3, <1>4, <1>5, <1>6, <1>7, <1>8, <1>9, <1>10, <1>11, <1>12, <1>13, <1>14, <1>15, <1>16, <1>17, <1>18, <1>19, <1>20 DEF StartStep

(* Who reaps is alone.                                                     *)
LEMMA ReaperStep == ASSUME StartInv, OneDaemon, NEW p \in Procs, StartStep(p) PROVE ReaperSparesDaemons'
<1> USE StartAssumption DEF Goto, StartTypeOK, StartInv, ReaperSparesDaemons, OneDaemon, Daemon
<1>1. CASE StartProcess(p)
  BY <1>1 DEF StartProcess
<1>2. CASE OpenLockFile(p)
  BY <1>2 DEF OpenLockFile
<1>3. CASE TryLock(p)
  BY <1>3 DEF TryLock, LockFree
<1>4. CASE Refuse(p)
  BY <1>4 DEF Refuse, LockFree
<1>5. CASE EmptyLockFile(p)
  BY <1>5 DEF EmptyLockFile
<1>6. CASE WritePid(p)
  BY <1>6 DEF WritePid
<1>7. CASE ReapStaleHelpers(p)
  BY <1>7 DEF ReapStaleHelpers
<1>8. CASE Prepare(p)
  BY <1>8 DEF Prepare
<1>9. CASE RunOnce(p)
  BY <1>9 DEF RunOnce
<1>10. CASE Probe(p)
  BY <1>10 DEF Probe
<1>11. CASE ConnectProbe(p)
  BY <1>11 DEF ConnectProbe, SocketLive, Listening
<1>12. CASE ClearSocket(p)
  BY <1>12 DEF ClearSocket
<1>13. CASE BindSocket(p)
  BY <1>13 DEF BindSocket
<1>14. CASE SpawnHelper(p)
  BY <1>14 DEF SpawnHelper
<1>15. CASE HelperEnds(p)
  BY <1>15 DEF HelperEnds, Alive
<1>16. CASE Quit(p)
  BY <1>16 DEF Quit
<1>17. CASE Crash(p)
  BY <1>17 DEF Crash, Freed, Alive
<1>18. CASE RemoveLockName(p)
  BY <1>18 DEF RemoveLockName
<1>19. CASE ReleaseLock(p)
  BY <1>19 DEF ReleaseLock, Freed
<1>20. CASE ExitProcess(p)
  BY <1>20 DEF ExitProcess
<1>21. QED
  BY <1>1, <1>2, <1>3, <1>4, <1>5, <1>6, <1>7, <1>8, <1>9, <1>10, <1>11, <1>12, <1>13, <1>14, <1>15, <1>16, <1>17, <1>18, <1>19, <1>20 DEF StartStep

-----------------------------------------------------------------------------
(* Theorems                                                                *)

(* Before anything is started there is nothing to exclude.                 *)
LEMMA StartStarts == StartInit => StartInv
<1> SUFFICES ASSUME StartInit PROVE StartInv
  OBVIOUS
<1> USE StartAssumption DEF StartInit
<1>1. StartTypeOK
  <2>1. /\ pc \in [Procs -> StartPcs] /\ args \in [Procs -> Args] /\ fd \in [Procs -> 0..MaxInodes]
        /\ lockName \in 0..MaxInodes /\ sockName \in Procs \cup {NoProc} /\ told \in [Procs -> Procs \cup {NoProc}]
    BY DEF StartPcs
  <2>2. inodes \in [1..MaxInodes -> [holder : Procs \cup {NoProc}, pid : Procs \cup {NoProc}, used : BOOLEAN]]
    OBVIOUS
  <2>3. \A i \in 1..MaxInodes : inodes[i].holder = NoProc
    OBVIOUS
  <2>4. QED
    BY <2>1, <2>2, <2>3 DEF StartTypeOK
<1>2. OnceInv /\ OpenInv /\ LockInv /\ NameInv
  BY DEF OnceInv, OpenInv, LockInv, NameInv, Locking
<1>3. TriggerReachesDaemon /\ SocketInv /\ ReaperSparesDaemons
  BY DEF TriggerReachesDaemon, SocketInv, ReaperSparesDaemons
<1>4. QED
  BY <1>1, <1>2, <1>3 DEF StartInv

(* Whoever starts, crashes or goes keeps the invariant.                    *)
LEMMA StartInvStep == StartInv /\ [StartNext]_startVars => StartInv'
<1> SUFFICES ASSUME StartInv, [StartNext]_startVars PROVE StartInv'
  OBVIOUS
<1>1. ASSUME NEW p \in Procs, StartStep(p) PROVE StartInv'
  <2>1. StartTypeOK' /\ OnceInv' /\ OpenInv' /\ LockInv' /\ NameInv'
    BY <1>1, StartTypeStep, OnceStep, OpenStep, LockStep, NameStep DEF StartInv
  <2>2. SocketInv' /\ TriggerReachesDaemon' /\ ReaperSparesDaemons'
    BY <1>1, LockExcludes, SocketStep, ReaperStep
  <2>3. QED
    BY <2>1, <2>2 DEF StartInv
<1>2. CASE UNCHANGED startVars
  BY <1>2 DEF startVars, StartInv, StartTypeOK, OnceInv, OpenInv, LockInv, NameInv, Locking,
              TriggerReachesDaemon, SocketInv, ReaperSparesDaemons, Listening
<1>3. QED
  BY <1>1, <1>2 DEF StartNext

LEMMA StartInvHolds == StartSpec => []StartInv
BY StartStarts, StartInvStep, PTL DEF StartSpec

(* However many copies are started, killed and restarted, and at whatever  *)
(* points of main: no two daemons are ever up on one lock file.  And until *)
(* a process has locked a file whose name was removed between its open and *)
(* its flock, the only way to a second lock file, no two daemons are up,   *)
(* the one that runs owns the trigger socket, and nobody kills its helper. *)
THEOREM DaemonsAlwaysExclude == StartSpec => []DaemonsExclude
<1>1. StartInv => DaemonsExclude
  BY LockExcludes DEF StartInv, DaemonsExclude
<1>2. QED
  BY <1>1, StartInvHolds, PTL

(* A process that is turned away shares the machine with another daemon:   *)
(* what the dead left behind turns nobody away.                            *)
THEOREM StaleFilesTurnNobodyAway == StartSpec => StaleFilesNeverBlock
<1>1. ASSUME StartInv, NEW r \in Procs, StartStep(r), NEW p \in Procs,
             ~(raced /\ pc[p] \in {"Dead", "Cleared"}),
             \/ pc[p] = "Opened" /\ pc'[p] = "Refused"
             \/ pc[p] \in {"Found", "Dead", "Cleared"} /\ pc'[p] = "Leaving"
      PROVE  \E q \in Procs \ {p} : Alive(q) /\ ~args[q].once
  <2> USE StartAssumption DEF Goto, StartInv, StartTypeOK
  <2>1. CASE Refuse(r)
    <3>1. r = p
      BY <1>1, <2>1 DEF Refuse
    <3>2. PICK i \in 1..MaxInodes : i = fd[p] /\ inodes[i].holder # NoProc
      BY <1>1, <2>1, <3>1, Held DEF Refuse, LockFree
    <3>3. PICK q \in Procs : q = inodes[i].holder
      BY <1>1, <3>2
    <3>4. fd[q] = i /\ pc[q] \in Locking
      BY <1>1, <3>2, <3>3 DEF LockInv
    <3>5. pc[p] \notin Locking /\ Alive(q)
      BY <2>1, <3>1, <3>4 DEF Locking, Alive, Refuse
    <3>6. ~args[q].once
      BY <1>1, <3>2, <3>4 DEF OnceInv
    <3>7. QED
      BY <3>4, <3>5, <3>6
  <2>2. CASE ConnectProbe(r)
    <3>1. r = p /\ pc[p] = "Found" /\ sockName \in Procs /\ Listening(sockName)
      BY <1>1, <2>2 DEF ConnectProbe, SocketLive
    <3>2. Alive(sockName) /\ sockName # p
      BY <3>1 DEF Listening, Alive
    <3>3. QED
      BY <3>1, <3>2 DEF Listening
  <2>3. CASE ClearSocket(r) \/ BindSocket(r)
    BY <1>1, <2>3 DEF ClearSocket, BindSocket, SocketInv
  <2>4. CASE StartProcess(r)
    BY <1>1, <2>4 DEF StartProcess
  <2>5. CASE OpenLockFile(r)
    BY <1>1, <2>5 DEF OpenLockFile
  <2>6. CASE TryLock(r)
    BY <1>1, <2>6 DEF TryLock
  <2>7. CASE EmptyLockFile(r)
    BY <1>1, <2>7 DEF EmptyLockFile
  <2>8. CASE WritePid(r)
    BY <1>1, <2>8 DEF WritePid
  <2>9. CASE ReapStaleHelpers(r)
    BY <1>1, <2>9 DEF ReapStaleHelpers
  <2>10. CASE Prepare(r)
    BY <1>1, <2>10 DEF Prepare
  <2>11. CASE RunOnce(r)
    BY <1>1, <2>11 DEF RunOnce
  <2>12. CASE Probe(r)
    BY <1>1, <2>12 DEF Probe
  <2>13. CASE SpawnHelper(r)
    BY <1>1, <2>13 DEF SpawnHelper
  <2>14. CASE HelperEnds(r)
    BY <1>1, <2>14 DEF HelperEnds
  <2>15. CASE Quit(r)
    BY <1>1, <2>15 DEF Quit
  <2>16. CASE Crash(r)
    BY <1>1, <2>16 DEF Crash
  <2>17. CASE RemoveLockName(r)
    BY <1>1, <2>17 DEF RemoveLockName
  <2>18. CASE ReleaseLock(r)
    BY <1>1, <2>18 DEF ReleaseLock
  <2>19. CASE ExitProcess(r)
    BY <1>1, <2>19 DEF ExitProcess
  <2>20. QED
    BY <1>1, <2>1, <2>2, <2>3, <2>4, <2>5, <2>6, <2>7, <2>8, <2>9, <2>10, <2>11, <2>12, <2>13, <2>14, <2>15, <2>16, <2>17, <2>18, <2>19 DEF StartStep
<1>2. StartInv /\ [StartNext]_startVars =>
        [\A p \in Procs :
           (pc[p] = "Opened" /\ pc'[p] = "Refused") \/ (pc[p] \in {"Found", "Dead", "Cleared"} /\ pc'[p] = "Leaving")
             => \/ raced /\ pc[p] \in {"Dead", "Cleared"}
                \/ \E q \in Procs \ {p} : Alive(q) /\ ~args[q].once]_startVars
  BY <1>1 DEF StartNext
<1>3. QED
  BY <1>2, StartInvHolds, PTL DEF StartSpec, StaleFilesNeverBlock

-----------------------------------------------------------------------------
(* Typing through the portal                                               *)

\* Each key is pressed, then let go of.
InTurn(q) == \A k \in 1..Len(q) : q[k] = IF k % 2 = 1 THEN "down" ELSE "up"

PortalEnds == {"no portal", "refused", "denied", "timeout", "cut", "typed"}

Ending == [end : PortalEnds, keys : Seq({"down", "up"})]

PortalTypes ==
  /\ asks \in {"none", "CreateSession", "SelectDevices", "Start", "type"}
  /\ keys \in Seq({"down", "up"}) /\ delivered \in Seq(Ending)

\* What a delivery that has ended sent.
EndsWell(d) ==
  /\ d.end = "typed" => Len(d.keys) = 2 * PortalText
  /\ d.end \notin {"typed", "cut"} => d.keys = <<>>
  /\ InTurn(d.keys)

\* No request is left when the typing starts, and nothing is typed before.
PortalInv ==
  /\ PortalTypes
  /\ Is("type") => session /\ granted
  /\ asks \in {"none", "type"} => called = "no"
  /\ ~Is("type") => keys = <<>>
  /\ InTurn(keys)
  /\ \A i \in 1..Len(delivered) : EndsWell(delivered[i])

\* A delivery that ends well joins those that did.
LEMMA EndingJoins ==
  ASSUME PortalInv, NEW end \in PortalEnds, EndsWell([end |-> end, keys |-> keys]),
         delivered' = Append(delivered, [end |-> end, keys |-> keys])
  PROVE  delivered' \in Seq(Ending) /\ \A i \in 1..Len(delivered') : EndsWell(delivered'[i])
<1> DEFINE d == [end |-> end, keys |-> keys]
<1>1. d \in Ending /\ EndsWell(d) /\ delivered \in Seq(Ending) /\ delivered' = Append(delivered, d)
  BY DEF PortalInv, PortalTypes, Ending
<1> HIDE DEF d
<1>2. \A i \in 1..Len(delivered') : delivered'[i] = d \/ (i \in 1..Len(delivered) /\ delivered'[i] = delivered[i])
  BY <1>1
<1> QED
  BY <1>1, <1>2 DEF PortalInv

\* However a delivery is dropped, it ends well if its keys say so.
LEMMA DroppedWell ==
  ASSUME PortalInv, NEW end \in PortalEnds, EndsWell([end |-> end, keys |-> keys]), Dropped(end)
  PROVE  PortalInv'
<1>1. delivered' \in Seq(Ending) /\ \A i \in 1..Len(delivered') : EndsWell(delivered'[i])
  BY EndingJoins DEF Dropped
<1>2. asks' = "none" /\ keys' = <<>> /\ called' = "no"
  BY DEF Dropped
<1> QED
  BY <1>1, <1>2 DEF PortalInv, PortalTypes, Is, InTurn

\* Every step of a delivery keeps the invariant.
LEMMA PortalStep ==
  ASSUME PortalInv, PortalNext
  PROVE  PortalInv'
<1>0. InTurn(<<>>)
  BY DEF InTurn
\* An ending that sent nothing.
<1>1. ASSUME ~Is("type"), NEW end \in PortalEnds, end # "typed"
      PROVE  EndsWell([end |-> end, keys |-> keys])
  BY <1>0, <1>1 DEF PortalInv, EndsWell
<1> USE DEF PortalEnds
\* A step of a request.
<1>2. ASSUME ~Is("type"), asks' \in {"CreateSession", "SelectDevices", "Start"},
             UNCHANGED <<keys, delivered>>
      PROVE  PortalInv'
  BY <1>2 DEF PortalInv, PortalTypes, Is, InTurn
<1>3. CASE NewPortal
  <2>1. CASE Dropped("no portal")
    BY <1>1, <1>3, <2>1, DroppedWell DEF NewPortal, Is
  <2> QED
    BY <1>2, <1>3, <2>1 DEF NewPortal, Is
<1>4. CASE CallRequest
  <2>1. CASE Dropped("refused")
    BY <1>1, <1>4, <2>1, DroppedWell DEF CallRequest, Is
  <2> QED
    BY <1>2, <1>4, <2>1 DEF CallRequest, Is
<1>5. CASE Listen \/ Deadline
  <2>1. ~Is("type") /\ asks # "none"
    BY <1>5 DEF Listen, Deadline, PortalInv, Is
  <2> QED
    BY <1>2, <1>5, <2>1 DEF Listen, Deadline, PortalInv, PortalTypes, Is
<1>6. CASE Respond
  <2>1. ~Is("type") /\ keys' = keys /\ keys = <<>>
    BY <1>6 DEF Respond, PortalInv, Is
  <2>2. PICK code \in 0..2, keyboard \in BOOLEAN :
          /\ granted' = (Is("Start") /\ code = 0 /\ keyboard)
          /\ IF called = "called"
             THEN /\ called' = "missed" /\ UNCHANGED <<asks, session, delivered>>
             ELSE IF Accepted(asks, code, keyboard)
             THEN asks' = Then(asks) /\ called' = "no" /\ session' = Is("Start") /\ UNCHANGED delivered
             ELSE asks' = "none" /\ called' = "no" /\ delivered' = Append(delivered, [end |-> "denied", keys |-> keys])
    BY <1>6 DEF Respond
  <2>3. CASE called = "called"
    <3>1. asks' = asks /\ delivered' = delivered /\ asks \in {"CreateSession", "SelectDevices", "Start"}
      BY <2>1, <2>2, <2>3 DEF PortalInv, PortalTypes, Is
    <3> QED
      BY <1>2, <2>1, <3>1
  <2>4. CASE called # "called" /\ Accepted(asks, code, keyboard)
    <3>1. asks' = Then(asks) /\ called' = "no" /\ session' = Is("Start") /\ delivered' = delivered
      BY <2>2, <2>4
    <3>2. CASE Is("Start")
      <4>1. asks' = "type" /\ session' /\ granted'
        BY <2>2, <2>4, <3>1, <3>2 DEF Then, Is, Accepted
      <4> QED
        BY <2>1, <3>1, <4>1 DEF PortalInv, PortalTypes, Is, InTurn
    <3>3. CASE ~Is("Start")
      <4>1. called \in {"called", "listening"}
        BY <1>6 DEF Respond
      <4>2. CASE asks = "none"
        BY <4>1, <4>2 DEF PortalInv
      <4>3. CASE asks \in {"CreateSession", "SelectDevices"}
        <5>1. asks' \in {"SelectDevices", "Start"}
          BY <3>1, <4>3 DEF Then
        <5> QED
          BY <1>2, <2>1, <3>1, <5>1
      <4> QED
        BY <2>1, <3>3, <4>2, <4>3 DEF PortalInv, PortalTypes, Is
    <3> QED
      BY <3>2, <3>3
  <2>5. CASE called # "called" /\ ~Accepted(asks, code, keyboard)
    <3>1. asks' = "none" /\ called' = "no" /\ delivered' = Append(delivered, [end |-> "denied", keys |-> keys])
      BY <2>2, <2>5
    <3>2. EndsWell([end |-> "denied", keys |-> keys])
      BY <1>1, <2>1
    <3>3. delivered' \in Seq(Ending) /\ \A i \in 1..Len(delivered') : EndsWell(delivered'[i])
      BY <3>1, <3>2, EndingJoins
    <3> QED
      BY <2>1, <3>1, <3>3 DEF PortalInv, PortalTypes, Is, InTurn
  <2> QED
    BY <2>3, <2>4, <2>5
<1>7. CASE OtherMessage
  <2>1. ~Is("type")
    BY <1>7 DEF OtherMessage, PortalInv, Is
  <2> QED
    BY <1>1, <1>7, <2>1, DroppedWell DEF OtherMessage
<1>8. CASE Notify
  <2>1. CASE Dropped("cut")
    <3>1. EndsWell([end |-> "cut", keys |-> keys])
      BY DEF PortalInv, EndsWell
    <3> QED
      BY <2>1, <3>1, DroppedWell
  <2>2. CASE keys' = Append(keys, NextKey(keys)) /\ UNCHANGED <<asks, called, session, granted, delivered>>
    <3>1. NextKey(keys) \in {"down", "up"} /\ keys \in Seq({"down", "up"}) /\ Len(keys) \in Nat
      BY DEF NextKey, PortalInv, PortalTypes
    <3>2. keys' \in Seq({"down", "up"})
      BY <2>2, <3>1
    <3>3. InTurn(keys')
      <4> SUFFICES ASSUME NEW k \in 1..Len(keys') PROVE keys'[k] = IF k % 2 = 1 THEN "down" ELSE "up"
        BY DEF InTurn
      <4>1. CASE k \in 1..Len(keys)
        <5>1. keys'[k] = keys[k]
          BY <2>2, <3>1, <4>1
        <5> QED
          BY <4>1, <5>1 DEF PortalInv, InTurn
      <4>2. CASE k = Len(keys) + 1
        <5>1. keys'[k] = NextKey(keys)
          BY <2>2, <3>1, <4>2
        <5>2. (Len(keys) % 2 = 0) <=> (k % 2 = 1)
          BY <3>1, <4>2
        <5> QED
          BY <5>1, <5>2 DEF NextKey
      <4> QED
        BY <2>2, <3>1, <4>1, <4>2
    <3> QED
      BY <1>8, <2>2, <3>2, <3>3 DEF Notify, PortalInv, PortalTypes, Is
  <2> QED
    BY <1>8, <2>1, <2>2 DEF Notify
<1>9. CASE TypedAll
  <2>1. EndsWell([end |-> "typed", keys |-> keys])
    BY <1>9 DEF TypedAll, PortalInv, EndsWell
  <2> QED
    BY <1>9, <2>1, DroppedWell DEF TypedAll
<1> QED
  BY <1>3, <1>4, <1>5, <1>6, <1>7, <1>8, <1>9 DEF PortalNext

\* For texts of any length and any number of deliveries, whatever the portal and
\* the user answer and when: keys are sent only with the keyboard granted, and a
\* delivery that was refused, or ended before the grant, sent none.
THEOREM AlwaysTypesWithConsent == PortalSpec => []TypesWithConsent
<1>1. PortalInit => PortalInv
  BY DEF PortalInit, PortalInv, PortalTypes, Is, InTurn
<1>2. PortalInv /\ [PortalNext]_portalVars => PortalInv'
  <2>1. ASSUME PortalInv, UNCHANGED portalVars PROVE PortalInv'
    BY <2>1 DEF PortalInv, PortalTypes, Is, InTurn, EndsWell, portalVars
  <2> QED
    BY <2>1, PortalStep
<1>3. PortalInv => TypesWithConsent
  BY DEF PortalInv, TypesWithConsent, EndsWell, InTurn
<1> QED
  BY <1>1, <1>2, <1>3, PTL DEF PortalSpec
-----------------------------------------------------------------------------
(* Delivery of a transcript to the focused field.                            *)
\* The fields of the two records that the steps set.
JobFields == {"at", "saved", "words", "result", "edit", "spoken", "via"}
PastFields == {"crossed", "box", "done", "late", "cut", "disturbed", "ring", "meddled"}
Shaped == JobFields \subseteq DOMAIN job /\ PastFields \subseteq DOMAIN past

\* As long as no two deliveries have crossed on the clipboard: one thread at most has something
\* to give back, and that, or what the delivery has saved, is what the user copied.
ClipInv ==
  /\ Shaped
  /\ ~past.crossed =>
       /\ givebacks \in {<<>>, <<owned>>}
       /\ job.at = "paste" /\ givebacks = <<>> => job.saved = owned
       /\ job.at = "settle" => givebacks = <<>> /\ job.saved = owned
       /\ job.at # "settle" /\ givebacks = <<>> => clipboard = owned

LEMMA GoesTo ==
  ASSUME JobFields \subseteq DOMAIN job, NEW at, NEW words, Goes(at, words)
  PROVE  job'.at = at /\ job'.saved = job.saved /\ JobFields \subseteq DOMAIN job'
BY DEF Goes, JobFields

LEMMA LeftIdle ==
  ASSUME NEW result, NEW via, job' = Left(result, via)
  PROVE  job'.at = "idle" /\ JobFields \subseteq DOMAIN job'
BY DEF Left, Idle, JobFields

\* A step of a transport that does not touch the clipboard.
Quiet ==
  /\ UNCHANGED <<clipboard, owned, givebacks>>
  /\ job.at \notin {"paste", "settle"} /\ job'.at \notin {"paste", "settle"} /\ JobFields \subseteq DOMAIN job'
  /\ PastFields \subseteq DOMAIN past' /\ past'.crossed = past.crossed

LEMMA AppQuiet ==
  ASSUME Shaped, ModeAtKeydown \/ Deliver \/ InsertWithFallback \/ ReplaceSelection \/ WriteFocused
  PROVE  Quiet
<1>0. JobFields \subseteq DOMAIN job /\ PastFields \subseteq DOMAIN past
  BY DEF Shaped, JobFields, PastFields
<1>1. CASE ModeAtKeydown
  <2>1. job' = [Idle EXCEPT !.at = "heard", !.edit = HasSelection(box), !.sel = Selected(box)] /\ job.at = "idle"
    BY <1>1 DEF ModeAtKeydown
  <2>2. job'.at = "heard" /\ JobFields \subseteq DOMAIN job'
    BY <2>1 DEF Idle, JobFields
  <2>3. PastFields \subseteq DOMAIN past' /\ past'.crossed = past.crossed
    BY <1>0, <1>1 DEF ModeAtKeydown, PastFields
  <2> QED
    BY <1>1, <2>1, <2>2, <2>3 DEF ModeAtKeydown, Quiet
<1>2. CASE Deliver
  <2>1. UNCHANGED <<clipboard, owned, givebacks, past>> /\ job.at = "heard"
    BY <1>2 DEF Deliver
  <2>2. PICK spoken \in {"silence", "text", "rewrite", "mismatch", "undo"} :
          LET go == Route(spoken, job.edit)
              heard == [job EXCEPT !.spoken = spoken]
          IN job' = IF spoken = "silence" THEN [heard EXCEPT !.at = "idle", !.result = "empty"]
                    ELSE IF dest.mute THEN [heard EXCEPT !.at = "idle", !.result = "suppressed"]
                    ELSE IF StagedInShell(spoken) THEN [heard EXCEPT !.at = "idle", !.result = "staged"]
                    ELSE IF go = "decline" THEN [heard EXCEPT !.at = "idle", !.result = "declined"]
                    ELSE [heard EXCEPT !.at = go, !.words = IF go = "replace" THEN Rewritten ELSE Said]
    BY <1>2 DEF Deliver, PayloadFor
  <2> DEFINE heard == [job EXCEPT !.spoken = spoken]
  <2> DEFINE go == Route(spoken, job.edit)
  <2>3. go \in {"undo", "insert", "replace", "decline"}
    BY DEF Route
  <2>4. JobFields \subseteq DOMAIN heard
    BY <1>0 DEF JobFields
  <2> HIDE DEF heard, go
  <2>5. \/ \E result : job' = [heard EXCEPT !.at = "idle", !.result = result]
        \/ \E words : job' = [heard EXCEPT !.at = go, !.words = words]
    BY <2>2 DEF heard, go
  <2>6. ASSUME NEW result, job' = [heard EXCEPT !.at = "idle", !.result = result]
        PROVE  job'.at = "idle" /\ JobFields \subseteq DOMAIN job'
    BY <2>4, <2>6 DEF JobFields
  <2>7. ASSUME NEW words, job' = [heard EXCEPT !.at = go, !.words = words]
        PROVE  job'.at = go /\ JobFields \subseteq DOMAIN job'
    BY <2>4, <2>7 DEF JobFields
  <2> QED
    BY <1>0, <2>1, <2>3, <2>5, <2>6, <2>7 DEF Quiet
<1>3. CASE InsertWithFallback
  <2>1. UNCHANGED <<clipboard, owned, givebacks, past>> /\ job.at = "insert"
    BY <1>3 DEF InsertWithFallback
  <2>2. \/ \E at \in {"type", "write"} : \E words : Goes(at, words)
        \/ job' = [job EXCEPT !.at = "save", !.inline = TRUE]
    BY <1>3 DEF InsertWithFallback, OverSelection
  <2>3. CASE job' = [job EXCEPT !.at = "save", !.inline = TRUE]
    <3>1. job'.at = "save" /\ JobFields \subseteq DOMAIN job'
      BY <1>0, <2>3 DEF JobFields
    <3> QED
      BY <1>0, <2>1, <3>1 DEF Quiet
  <2> QED
    BY <1>0, <2>1, <2>2, <2>3, GoesTo DEF Quiet
<1>4. CASE ReplaceSelection
  <2>1. UNCHANGED <<clipboard, owned, givebacks, past>> /\ job.at = "replace"
    BY <1>4 DEF ReplaceSelection
  <2>2. \E at \in {"type", "write"} : \E words : Goes(at, words)
    BY <1>4 DEF ReplaceSelection, OverSelection
  <2> QED
    BY <1>0, <2>1, <2>2, GoesTo DEF Quiet
<1>5. CASE WriteFocused
  <2>1. UNCHANGED <<clipboard, owned, givebacks, past>> /\ job.at = "write"
    BY <1>5 DEF WriteFocused
  <2>2. Goes("type", job.words) \/ job' = Left("wrote", "ax") \/ job' = [job EXCEPT !.at = "save", !.inline = TRUE]
    BY <1>5 DEF WriteFocused, Wrote
  <2>3. CASE job' = [job EXCEPT !.at = "save", !.inline = TRUE]
    <3>1. job'.at = "save" /\ JobFields \subseteq DOMAIN job'
      BY <1>0, <2>3 DEF JobFields
    <3> QED
      BY <1>0, <2>1, <3>1 DEF Quiet
  <2> QED
    BY <1>0, <2>1, <2>2, <2>3, GoesTo, LeftIdle DEF Quiet
<1> QED
  BY <1>1, <1>2, <1>3, <1>4, <1>5

LEMMA TiersQuiet ==
  ASSUME Shaped, DeliverWithoutAx \/ UiaWrite \/ SendInput \/ Wtype \/ PortalInsert \/ ApplyUndo \/ ApplyUndoViaTiers
  PROVE  Quiet
<1>0. JobFields \subseteq DOMAIN job /\ PastFields \subseteq DOMAIN past
  BY DEF Shaped, JobFields, PastFields
<1>1. CASE DeliverWithoutAx
  <2>1. UNCHANGED <<clipboard, owned, givebacks>> /\ job.at = "type"
    BY <1>1 DEF DeliverWithoutAx
  <2>2. past' = past \/ \E end : past' = [past EXCEPT !.cut = IF end = "cut" THEN @ + 1 ELSE @]
    BY <1>1 DEF DeliverWithoutAx
  <2>3. PastFields \subseteq DOMAIN past' /\ past'.crossed = past.crossed
    BY <1>0, <2>2 DEF PastFields
  <2>4. job' = Left("wrote", "keys") \/ \E inline : job' = [job EXCEPT !.at = "save", !.inline = inline]
    BY <1>1 DEF DeliverWithoutAx, Wrote
  <2>5. ASSUME NEW inline, job' = [job EXCEPT !.at = "save", !.inline = inline]
        PROVE  job'.at = "save" /\ JobFields \subseteq DOMAIN job'
    BY <1>0, <2>5 DEF JobFields
  <2> QED
    BY <2>1, <2>3, <2>4, <2>5, LeftIdle DEF Quiet
<1>2. CASE UiaWrite
  <2>1. UNCHANGED <<clipboard, owned, givebacks, past>> /\ job.at \in {"insert", "replace", "restore"}
    BY <1>2 DEF UiaWrite
  <2>2. job' = Left("wrote", "ax") \/ \E at \in {"keys", "save"} : Goes(at, job.words)
    BY <1>2 DEF UiaWrite, Wrote
  <2> QED
    BY <1>0, <2>1, <2>2, GoesTo, LeftIdle DEF Quiet
<1>3. ASSUME NEW otherwise \in {"save", "portal"}, Types(otherwise), job.at \in {"keys", "insert", "portal"}
      PROVE  Quiet
  <2>1. UNCHANGED <<clipboard, owned, givebacks>>
    BY <1>3 DEF Types
  <2>2. \E end : past' = [past EXCEPT !.cut = IF end = "cut" THEN @ + 1 ELSE @]
    BY <1>3 DEF Types
  <2>3. PastFields \subseteq DOMAIN past' /\ past'.crossed = past.crossed
    BY <1>0, <2>2 DEF PastFields
  <2>4. job' = Left("wrote", "keys") \/ Goes(otherwise, job.words)
    BY <1>3 DEF Types, Wrote
  <2> QED
    BY <1>0, <1>3, <2>1, <2>3, <2>4, GoesTo, LeftIdle DEF Quiet
<1>4. ASSUME NEW at \in {"write", "restore"}, UndoThrough(at) PROVE Quiet
  <2>1. UNCHANGED <<clipboard, owned, givebacks, past>> /\ job.at = "undo"
    BY <1>4 DEF UndoThrough
  <2>2. (\E result : job' = Left(result, "none")) \/ \E words : Goes(at, words)
    BY <1>4 DEF UndoThrough, Ends
  <2> QED
    BY <1>0, <1>4, <2>1, <2>2, GoesTo, LeftIdle DEF Quiet
<1> QED
  BY <1>1, <1>2, <1>3, <1>4 DEF SendInput, Wtype, PortalInsert, ApplyUndo, ApplyUndoViaTiers

\* What the user and the application do.
LEMMA UserKeepsClip ==
  ASSUME ClipInv, HandlePaste \/ UserSelects \/ UserTypesWord \/ UserCopies
  PROVE  ClipInv'
<1>0. JobFields \subseteq DOMAIN job /\ PastFields \subseteq DOMAIN past
  BY DEF ClipInv, Shaped, JobFields, PastFields
<1>1. CASE HandlePaste
  BY <1>1 DEF HandlePaste, ClipInv, Shaped
<1>2. CASE UserSelects \/ UserTypesWord \/ UserCopies
  <2>1. UNCHANGED <<job, givebacks>> /\ past' = [past EXCEPT !.meddled = @ + 1, !.disturbed = TRUE]
    BY <1>2 DEF UserSelects, UserTypesWord, UserCopies, Meddles
  <2>2. PastFields \subseteq DOMAIN past' /\ past'.crossed = past.crossed
    BY <1>0, <2>1 DEF PastFields
  <2>3. Shaped'
    BY <1>0, <2>1, <2>2 DEF Shaped, JobFields, PastFields
  <2>4. UNCHANGED <<clipboard, owned>> \/ (job.at = "idle" /\ givebacks = <<>> /\ clipboard' = owned')
    BY <1>2 DEF UserSelects, UserTypesWord, UserCopies
  <2> QED
    BY <2>1, <2>2, <2>3, <2>4 DEF ClipInv
<1> QED
  BY <1>1, <1>2

\* The clipboard transport, and the threads that give it back.
LEMMA TransportKeepsClip ==
  ASSUME ClipInv, SaveClipboard \/ PasteClipboard \/ SettleAndRestore \/ DetachedRestore \/ Leave
  PROVE  ClipInv'
<1>0. JobFields \subseteq DOMAIN job /\ PastFields \subseteq DOMAIN past
  BY DEF ClipInv, Shaped, JobFields, PastFields
<1>s. ASSUME JobFields \subseteq DOMAIN job', PastFields \subseteq DOMAIN past' PROVE Shaped'
  BY <1>s DEF Shaped, JobFields, PastFields
<1>1. CASE SaveClipboard
  <2>1. UNCHANGED <<clipboard, owned, givebacks, past>> /\ job.at = "save"
    BY <1>1 DEF SaveClipboard
  <2>2. (\E result : job' = Left(result, "none")) \/ job' = [job EXCEPT !.at = "paste", !.saved = clipboard]
    BY <1>1 DEF SaveClipboard, Ends
  <2>3. CASE job' = [job EXCEPT !.at = "paste", !.saved = clipboard]
    <3>1. job'.at = "paste" /\ job'.saved = clipboard /\ JobFields \subseteq DOMAIN job'
      BY <1>0, <2>3 DEF JobFields
    <3> QED
      BY <1>0, <1>s, <2>1, <3>1 DEF ClipInv
  <2>4. CASE \E result : job' = Left(result, "none")
    <3>1. job'.at = "idle" /\ JobFields \subseteq DOMAIN job'
      BY <2>4, LeftIdle
    <3> QED
      BY <1>0, <1>s, <2>1, <3>1 DEF ClipInv
  <2> QED
    BY <2>2, <2>3, <2>4
<1>2. CASE PasteClipboard
  <2>1. job.at = "paste" /\ clipboard' = job.words
    BY <1>2 DEF PasteClipboard
  <2>2. past' = [past EXCEPT !.crossed = @ \/ givebacks # <<>>]
    BY <1>2 DEF PasteClipboard
  <2>3. PastFields \subseteq DOMAIN past' /\ past'.crossed = (past.crossed \/ givebacks # <<>>)
    BY <1>0, <2>2 DEF PastFields
  <2>4. ASSUME ~past'.crossed PROVE givebacks = <<>> /\ job.saved = owned
    BY <2>1, <2>3, <2>4 DEF ClipInv
  <2>5. CASE job' = Left("wrote", "clipboard") /\ givebacks' = Append(givebacks, job.saved) /\ owned' = owned
    <3>1. job'.at = "idle" /\ JobFields \subseteq DOMAIN job'
      BY <2>5, LeftIdle
    <3>2. Append(<<>>, job.saved) = <<job.saved>> /\ <<job.saved>> # <<>>
      OBVIOUS
    <3>3. ~past'.crossed => givebacks' = <<owned'>> /\ givebacks' # <<>>
      BY <2>4, <2>5, <3>2
    <3> QED
      BY <1>0, <1>s, <2>3, <3>1, <3>3 DEF ClipInv
  <2>6. CASE job' = [job EXCEPT !.at = "settle"] /\ givebacks' = givebacks /\ owned' = owned
    <3>1. job'.at = "settle" /\ job'.saved = job.saved /\ JobFields \subseteq DOMAIN job'
      BY <1>0, <2>6 DEF JobFields
    <3> QED
      BY <1>0, <1>s, <2>3, <2>4, <2>6, <3>1 DEF ClipInv
  <2>7. CASE job' = Left("failed", "none") /\ owned' = job.words /\ givebacks' = givebacks
    <3>1. job'.at = "idle" /\ JobFields \subseteq DOMAIN job'
      BY <2>7, LeftIdle
    <3> QED
      BY <1>0, <1>s, <2>1, <2>3, <2>4, <2>7, <3>1 DEF ClipInv
  <2> QED
    BY <1>2, <2>5, <2>6, <2>7 DEF PasteClipboard, Wrote, Ends
<1>3. CASE SettleAndRestore
  <2>1. /\ job.at = "settle" /\ clipboard' = job.saved /\ UNCHANGED <<owned, givebacks>>
        /\ job' = Left("wrote", "clipboard") /\ past' = [past EXCEPT !.late = @ \/ keystrokes > 0]
    BY <1>3 DEF SettleAndRestore, Wrote
  <2>2. PastFields \subseteq DOMAIN past' /\ past'.crossed = past.crossed
    BY <1>0, <2>1 DEF PastFields
  <2>3. job'.at = "idle" /\ JobFields \subseteq DOMAIN job'
    BY <2>1, LeftIdle
  <2> QED
    BY <1>s, <2>1, <2>2, <2>3 DEF ClipInv
<1>4. CASE DetachedRestore
  <2>1. /\ givebacks # <<>> /\ UNCHANGED <<owned, job>>
        /\ past' = [past EXCEPT !.late = @ \/ keystrokes > 0, !.crossed = @ \/ job.at \in {"paste", "settle"}]
    BY <1>4 DEF DetachedRestore
  <2>2. PICK i \in 1..Len(givebacks) : clipboard' = givebacks[i] /\ givebacks' = RemoveAt(givebacks, i)
    BY <1>4 DEF DetachedRestore
  <2>3. PastFields \subseteq DOMAIN past' /\ past'.crossed = (past.crossed \/ job.at \in {"paste", "settle"})
    BY <1>0, <2>1 DEF PastFields
  <2>4. ASSUME ~past'.crossed PROVE clipboard' = owned /\ givebacks' = <<>> /\ job.at \notin {"paste", "settle"}
    <3>1. givebacks = <<owned>> /\ job.at \notin {"paste", "settle"}
      BY <2>1, <2>3, <2>4 DEF ClipInv
    <3>2. \A k \in 1..Len(<<owned>>) : k = 1 /\ <<owned>>[1] = owned
      OBVIOUS
    <3>3. i = 1 /\ clipboard' = owned
      BY <2>2, <3>1, <3>2
    <3>4. RemoveAt(<<owned>>, 1) = <<>>
      BY DEF RemoveAt
    <3> QED
      BY <2>2, <3>1, <3>3, <3>4
  <2> QED
    BY <1>0, <1>s, <2>1, <2>3, <2>4 DEF ClipInv
<1>5. CASE Leave
  <2>1. /\ job.at = "idle" /\ job' = [job EXCEPT !.at = "gone"] /\ givebacks' = <<>> /\ owned' = owned
        /\ clipboard' = IF givebacks = <<>> THEN clipboard ELSE Last(givebacks)
        /\ past' = [past EXCEPT !.late = @ \/ (givebacks # <<>> /\ keystrokes > 0)]
    BY <1>5 DEF Leave, DrainPendingRestores
  <2>2. PastFields \subseteq DOMAIN past' /\ past'.crossed = past.crossed
    BY <1>0, <2>1 DEF PastFields
  <2>3. job'.at = "gone" /\ JobFields \subseteq DOMAIN job'
    BY <1>0, <2>1 DEF JobFields
  <2>4. Last(<<owned>>) = owned
    BY DEF Last
  <2>5. ~past'.crossed => clipboard' = owned
    BY <2>1, <2>2, <2>4 DEF ClipInv
  <2> QED
    BY <1>s, <2>1, <2>2, <2>3, <2>5 DEF ClipInv
<1> QED
  BY <1>1, <1>2, <1>3, <1>4, <1>5

\* What a delivery that nothing disturbs owes the field.
Calm == ~past.disturbed

\* Where a delivery has not entered its words yet, where it has chosen them, where they are
\* ready to be entered, and where nothing has been tried.
Choosing == {"insert", "replace", "write", "type", "keys", "portal", "save", "paste", "undo", "restore"}
Untouched == Choosing \cup {"heard"}
Sending == {"type", "keys", "portal", "save", "paste", "restore"}
Fresh == {"heard", "undo", "insert", "replace", "write", "type", "keys", "restore"}

\* What an undo found, and what a write through accessibility is given: the words said, and
\* where nothing is selected the whole field with the words in it.
Found == job.spoken = "undo" => past.ring # <<>> /\ past.box.words = Last(past.ring).after
WritesOver == job.words = Dictated /\ dest.sel /\ past.box.len > 0
WritesWhole == /\ job.words = Over(past.box, Dictated).words /\ dest.accepts = "both" /\ ~(past.box.len > 0)
               /\ dest.reads /\ (dest.value \/ dest.sel)
Given ==
  /\ job.at # "undo" => Found
  /\ job.at \in {"insert", "replace"} => job.spoken # "undo" /\ job.words = Dictated
  /\ job.at = "restore" => job.spoken = "undo"
  /\ job.at = "write" => Mac /\ IF job.spoken = "undo" THEN job.words = Sent ELSE WritesOver \/ WritesWhole
  /\ job.at \in Sending => job.words = Sent

\* The field holds what the attempts so far have left.
Started == box = Begun(past.box, Sent, past.cut)

\* The words are in the field, or the keystroke is on its way to what will be entered.
Pasted ==
  ~(past.late /\ past.crossed) =>
    \/ keystrokes = 0 /\ box = Over(Begun(past.box, Sent, past.cut), Entered)
    \/ keystrokes = 1 /\ Started /\ clipboard = Entered

WroteWell ==
  /\ job.via \in {"ax", "keys", "clipboard"} /\ Found
  /\ job.via = "ax" => keystrokes = 0 /\ box.words = SetThrough
  /\ job.via = "keys" => keystrokes = 0 /\ ~past.late /\ box = Over(Begun(past.box, Sent, past.cut), Sent)
  /\ job.via = "clipboard" => Pasted

\* Whatever the user does, the stages follow one another; undisturbed, the field follows them.
Stages ==
  /\ keystrokes \in Nat /\ dest.accepts \in Acceptances /\ past.cut \in 0..2
  /\ job.at \in Fresh => past.cut = 0
  /\ job.at = "portal" => past.cut # 2
  /\ job.at \in {"heard", "undo"} => ring = past.ring
  /\ job.at = "heard" => job.spoken = "text"
  /\ job.at = "undo" => job.spoken = "undo"
  /\ job.at \in {"heard", "replace"} => (job.edit => past.box.len > 0)
  /\ job.at = "replace" => job.edit

Follows ==
  /\ job.at \in Untouched => Started /\ keystrokes = 0 /\ ~past.late
  /\ job.at \in Choosing => Given
  /\ job.at = "settle" => Found /\ Pasted
  /\ job.at = "idle" /\ job.result = "wrote" => WroteWell

LandInv == Stages /\ (Calm => Follows)

\* A transport never changes what it was asked to deliver.
Asked ==
  /\ dest' = dest /\ job'.spoken = job.spoken /\ job'.edit = job.edit
  /\ past'.box = past.box /\ past'.ring = past.ring

\* What is sent, and what the field held, are therefore what they were.
LEMMA SentKept ==
  ASSUME Asked
  PROVE  /\ Dictated' = Dictated /\ Inserts' = Inserts /\ Mac' = Mac /\ SpliceIsTyped' = SpliceIsTyped
         /\ Sent' = Sent /\ Found' = Found
<1>1. Dictated' = Dictated /\ Inserts' = Inserts /\ Mac' = Mac
  BY DEF Asked, Dictated, Inserts, Mac
<1>2. SpliceIsTyped' = SpliceIsTyped
  BY <1>1 DEF Asked, SpliceIsTyped
<1>3. Sent' = Sent
  BY <1>1, <1>2 DEF Asked, Sent
<1>4. Found' = Found
  BY DEF Asked, Found
<1> QED
  BY <1>1, <1>2, <1>3, <1>4

\* ... and neither is what the accessibility transports have put there.
LEMMA SetThroughKept == ASSUME Asked PROVE SetThrough' = SetThrough
<1>1. dest' = dest /\ past'.box = past.box /\ job'.spoken = job.spoken
  BY DEF Asked
<1>2. Dictated' = Dictated /\ Inserts' = Inserts /\ Mac' = Mac /\ Sent' = Sent
  BY SentKept
<1>3. ReplaceFocused(past.box, Sent)' = ReplaceFocused(past.box, Sent)
  BY <1>1, <1>2 DEF ReplaceFocused
<1>4. Over(past.box, Dictated)' = Over(past.box, Dictated)
  BY <1>1, <1>2
<1> QED
  BY <1>1, <1>2, <1>3, <1>4 DEF SetThrough

\* Before the first attempt the field is as it was.
LEMMA NotBegun == ASSUME past.cut = 0 PROVE \A w : Begun(past.box, w, past.cut) = past.box
BY DEF Begun

\* Words chosen, or handed to the next transport: the field waits.
LEMMA HandsOn ==
  ASSUME LandInv, UNCHANGED <<keystrokes, dest>>, past'.late = past.late, Calm' => Calm,
         job.at \in Untouched, job'.at \in Choosing \ {"undo"},
         past'.cut \in 0..2, job'.at \in Fresh => past'.cut = 0, job'.at = "portal" => past'.cut # 2,
         job'.at # "replace",
         Calm => Started' /\ Given'
  PROVE  LandInv'
<1>1. job'.at \notin {"heard", "undo", "settle", "idle"} /\ job'.at \in Untouched
  BY DEF Choosing, Untouched
<1>2. Stages'
  BY <1>1 DEF LandInv, Stages
<1>3. ASSUME Calm' PROVE Follows'
  BY <1>1, <1>3 DEF LandInv, Follows
<1> QED
  BY <1>2, <1>3 DEF LandInv

\* A delivery that ends without writing owes nothing.
LEMMA EndsUnwritten ==
  ASSUME LandInv, UNCHANGED <<dest, keystrokes>>, past'.cut = past.cut, job'.at \in {"idle", "gone"},
         job'.at = "gone" \/ job'.result # "wrote"
  PROVE  LandInv'
BY DEF LandInv, Stages, Follows, Untouched, Choosing, Fresh

\* And one that ends in the field owes WroteWell.
LEMMA EndsWritten ==
  ASSUME LandInv, dest' = dest, keystrokes' \in Nat, past'.cut \in 0..2, job'.at = "idle", Calm' => WroteWell'
  PROVE  LandInv'
BY DEF LandInv, Stages, Follows, Untouched, Choosing, Fresh

\* What Left keeps.
LEMMA LeftKeeps ==
  ASSUME NEW result, NEW via, job' = Left(result, via)
  PROVE  /\ job'.at = "idle" /\ job'.result = result /\ job'.via = via
         /\ job'.spoken = job.spoken /\ job'.edit = job.edit /\ job'.words = job.words
BY DEF Left, Idle

\* And Goes.
LEMMA GoesKeeps ==
  ASSUME JobFields \subseteq DOMAIN job, NEW at, NEW words, Goes(at, words)
  PROVE  job'.at = at /\ job'.words = words /\ job'.spoken = job.spoken /\ job'.edit = job.edit
BY DEF Goes, JobFields

\* key-down and the routing of what was said.
LEMMA RoutingLands ==
  ASSUME Shaped, LandInv, ModeAtKeydown \/ Deliver PROVE LandInv'
<1>0. JobFields \subseteq DOMAIN job /\ PastFields \subseteq DOMAIN past
  BY DEF Shaped, JobFields, PastFields
<1>1. CASE ModeAtKeydown
  <2>1. /\ job' = [Idle EXCEPT !.at = "heard", !.edit = HasSelection(box), !.sel = Selected(box)]
        /\ past' = [past EXCEPT !.done = @ + 1, !.disturbed = keystrokes > 0, !.late = FALSE,
                                !.cut = 0, !.box = box, !.ring = ring]
        /\ UNCHANGED <<dest, box, keystrokes, ring>>
    BY <1>1 DEF ModeAtKeydown
  <2>2. job'.at = "heard" /\ job'.spoken = "text" /\ job'.edit = HasSelection(box)
    BY <2>1 DEF Idle
  <2>3. /\ past'.box = box /\ past'.ring = ring /\ past'.disturbed = (keystrokes > 0)
        /\ past'.cut = 0 /\ past'.late = FALSE
    BY <1>0, <2>1 DEF PastFields
  <2>4. ASSUME Calm' PROVE keystrokes' = 0
    <3>1. ~(keystrokes > 0)
      BY <2>3, <2>4, Zenon DEF Calm
    <3>2. keystrokes \in Nat
      BY DEF LandInv, Stages
    <3> QED
      BY <2>1, <3>1, <3>2
  <2>5. Started'
    BY <2>1, <2>3 DEF Started, Begun
  <2>6. job'.edit => past'.box.len > 0
    BY <2>2, <2>3 DEF HasSelection
  <2>7. Stages'
    BY <2>1, <2>2, <2>3, <2>6 DEF LandInv, Stages
  <2>8. ASSUME Calm' PROVE Follows'
    BY <2>2, <2>3, <2>4, <2>5, <2>8 DEF Follows, Choosing
  <2> QED
    BY <2>7, <2>8 DEF LandInv
<1>2. CASE Deliver
  <2>1. UNCHANGED <<dest, box, keystrokes, ring, past>> /\ job.at = "heard"
    BY <1>2 DEF Deliver
  <2>u. past.cut = 0 /\ ring = past.ring /\ (Calm => box = past.box /\ keystrokes = 0 /\ ~past.late)
    BY <2>1, NotBegun DEF LandInv, Stages, Follows, Fresh, Untouched, Started
  <2>2. PICK spoken \in {"silence", "text", "rewrite", "mismatch", "undo"} :
          LET go == Route(spoken, job.edit)
              heard == [job EXCEPT !.spoken = spoken]
          IN job' = IF spoken = "silence" THEN [heard EXCEPT !.at = "idle", !.result = "empty"]
                    ELSE IF dest.mute THEN [heard EXCEPT !.at = "idle", !.result = "suppressed"]
                    ELSE IF StagedInShell(spoken) THEN [heard EXCEPT !.at = "idle", !.result = "staged"]
                    ELSE IF go = "decline" THEN [heard EXCEPT !.at = "idle", !.result = "declined"]
                    ELSE [heard EXCEPT !.at = go, !.words = IF go = "replace" THEN Rewritten ELSE Said]
    BY <1>2 DEF Deliver, PayloadFor
  <2> DEFINE heard == [job EXCEPT !.spoken = spoken]
  <2> DEFINE go == Route(spoken, job.edit)
  <2>4. JobFields \subseteq DOMAIN heard /\ heard.spoken = spoken /\ heard.edit = job.edit
    BY <1>0 DEF JobFields
  <2>3. /\ go \in {"undo", "insert", "replace", "decline"}
        /\ go = "undo" <=> spoken = "undo"
        /\ go = "insert" => ~(spoken = "rewrite" /\ job.edit)
        /\ go = "replace" => spoken = "rewrite" /\ job.edit
    BY DEF Route
  <2> HIDE DEF heard, go
  <2>5. \/ \E result \in {"empty", "suppressed", "staged", "declined"} : job' = [heard EXCEPT !.at = "idle", !.result = result]
        \/ go # "decline" /\ job' = [heard EXCEPT !.at = go, !.words = IF go = "replace" THEN Rewritten ELSE Said]
    BY <2>2 DEF heard, go
  <2>6. ASSUME NEW result \in {"empty", "suppressed", "staged", "declined"}, job' = [heard EXCEPT !.at = "idle", !.result = result]
        PROVE  LandInv'
    <3>1. job'.at = "idle" /\ job'.result = result
      BY <2>4, <2>6 DEF JobFields
    <3> QED
      BY <2>1, <3>1, EndsUnwritten
  <2>7. ASSUME go # "decline", job' = [heard EXCEPT !.at = go, !.words = IF go = "replace" THEN Rewritten ELSE Said]
        PROVE  LandInv'
    <3>1. /\ job'.at = go /\ job'.words = (IF go = "replace" THEN Rewritten ELSE Said)
          /\ job'.spoken = spoken /\ job'.edit = job.edit
      BY <2>4, <2>7 DEF JobFields
    <3>2. go \in {"insert", "replace"} => spoken # "undo" /\ job'.words = Dictated'
      BY <2>3, <3>1 DEF Dictated
    <3>3. go = "undo" => job'.spoken = "undo"
      BY <2>3, <3>1
    <3>4. go \in Choosing /\ go \notin {"heard", "settle", "idle", "portal", "write"} /\ (go \in Sending => FALSE)
      BY <2>3, <2>7 DEF Choosing, Sending
    <3>5. Stages'
      <4>1. keystrokes' \in Nat /\ dest'.accepts \in Acceptances /\ past'.cut = 0 /\ past'.cut \in 0..2
        BY <2>1, <2>u DEF LandInv, Stages
      <4>2. job.edit => past'.box.len > 0
        BY <2>1 DEF LandInv, Stages
      <4> QED
        BY <2>1, <2>3, <2>u, <3>1, <3>3, <3>4, <4>1, <4>2 DEF Stages
    <3>6. Calm => Started' /\ keystrokes' = 0 /\ ~past'.late /\ Given'
      <4>1. Calm => Started'
        BY <2>1, <2>u DEF Started, Begun
      <4>2. Given'
        BY <3>1, <3>2, <3>3, <3>4, <2>3 DEF Given, Found
      <4> QED
        BY <2>1, <2>u, <4>1, <4>2
    <3>7. ASSUME Calm' PROVE Follows'
      <4>1. Calm
        BY <2>1, <3>7 DEF Calm
      <4> QED
        BY <3>1, <3>4, <3>6, <4>1 DEF Follows
    <3> QED
      BY <3>5, <3>7 DEF LandInv
  <2> QED
    BY <2>5, <2>6, <2>7
<1> QED
  BY <1>1, <1>2

\* macOS: every step that chooses a transport hands the words on, or writes them.
LEMMA AxLands ==
  ASSUME Shaped, LandInv, InsertWithFallback \/ ReplaceSelection \/ WriteFocused PROVE LandInv'
<1>0. JobFields \subseteq DOMAIN job /\ PastFields \subseteq DOMAIN past
  BY DEF Shaped, JobFields, PastFields
<1>f. ASSUME job.at \in {"insert", "replace", "write"}
      PROVE  past.cut = 0 /\ (Calm => box = past.box /\ keystrokes = 0 /\ ~past.late /\ Given)
  BY <1>f, NotBegun DEF LandInv, Stages, Follows, Fresh, Untouched, Choosing, Started
\* To the accessibility write, the keyboard or the clipboard.
<1>k. ASSUME job.at \in {"insert", "replace", "write"}, job'.at \in {"write", "type", "save"},
             job'.spoken = job.spoken, job'.edit = job.edit, UNCHANGED <<dest, box, keystrokes, past>>,
             Calm => IF job'.at = "write" THEN Mac' /\ job'.spoken # "undo" /\ (WritesOver' \/ WritesWhole')
                     ELSE job'.words = Sent
      PROVE  LandInv'
  <2>1. Asked
    BY <1>k DEF Asked
  <2>2. past'.cut = 0 /\ past'.cut \in 0..2 /\ past'.late = past.late
    BY <1>f, <1>k
  <2>3. Calm => Started'
    BY <1>f, <1>k DEF Started, Begun
  <2>4. Calm => Found'
    BY <1>f, <1>k, <2>1, SentKept DEF Given
  <2>5. Calm => Given'
    BY <1>k, <2>1, <2>4, SentKept DEF Given, Sending
  <2>6. Calm' => Calm
    BY <1>k DEF Calm
  <2> QED
    BY <1>k, <2>2, <2>3, <2>5, <2>6, HandsOn DEF Choosing, Untouched
<1>j. ASSUME job' = [job EXCEPT !.at = "save", !.inline = TRUE]
      PROVE  job'.at = "save" /\ job'.words = job.words /\ job'.spoken = job.spoken /\ job'.edit = job.edit
  BY <1>0, <1>j DEF JobFields
<1>1. CASE InsertWithFallback
  <2>1. UNCHANGED <<dest, box, keystrokes, past>> /\ job.at = "insert" /\ Mac
    BY <1>1 DEF InsertWithFallback
  <2>2. Calm => job.spoken # "undo" /\ job.words = Dictated /\ box = past.box
    BY <1>f, <2>1 DEF Given
  <2>3. CASE Goes("type", job.words) /\ (~dest.reads \/ dest.accepts = "typing" \/ ReadOnly)
    <3>1. job'.at = "type" /\ job'.words = job.words /\ job'.spoken = job.spoken /\ job'.edit = job.edit
      BY <1>0, <2>3, GoesKeeps
    <3>2. Calm => job'.words = Sent
      BY <2>2, <2>3, <3>1 DEF Sent, SpliceIsTyped, ReadOnly
    <3> QED
      BY <1>k, <2>1, <3>1, <3>2
  <2>4. CASE job' = [job EXCEPT !.at = "save", !.inline = TRUE] /\ dest.accepts = "clipboard"
    <3>1. Calm => job'.words = Sent
      BY <1>j, <2>2, <2>4 DEF Sent, SpliceIsTyped
    <3> QED
      BY <1>j, <1>k, <2>1, <2>4, <3>1
  <2>5. CASE Goes("write", job.words) /\ dest.sel /\ box.len > 0
    <3>1. job'.at = "write" /\ job'.words = job.words /\ job'.spoken = job.spoken /\ job'.edit = job.edit
      BY <1>0, <2>5, GoesKeeps
    <3>2. Asked
      BY <2>1, <3>1 DEF Asked
    <3>3. Calm => WritesOver' /\ Mac' /\ job'.spoken # "undo"
      BY <2>1, <2>2, <2>5, <3>1, <3>2, SentKept DEF WritesOver
    <3> QED
      BY <1>k, <2>1, <3>1, <3>3
  <2>6. CASE Goes("type", job.words) /\ ~dest.sel
    <3>1. job'.at = "type" /\ job'.words = job.words /\ job'.spoken = job.spoken /\ job'.edit = job.edit
      BY <1>0, <2>6, GoesKeeps
    <3>2. Calm => job'.words = Sent
      BY <2>2, <2>6, <3>1 DEF Sent, SpliceIsTyped
    <3> QED
      BY <1>k, <2>1, <3>1, <3>2
  <2>7. CASE /\ Goes("write", SplicedAtCaret(box, job.words)) /\ dest.reads /\ dest.accepts = "both"
             /\ ~ReadOnly /\ ~(box.len > 0)
    <3>1. /\ job'.at = "write" /\ job'.words = SplicedAtCaret(box, job.words)
          /\ job'.spoken = job.spoken /\ job'.edit = job.edit
      BY <1>0, <2>7, GoesKeeps
    <3>2. Asked
      BY <2>1, <3>1 DEF Asked
    <3>3. Calm => job'.words = Over(past'.box, Dictated').words
      BY <2>1, <2>2, <3>1, <3>2, SentKept DEF SplicedAtCaret
    <3>4. Calm => WritesWhole' /\ Mac' /\ job'.spoken # "undo"
      BY <2>1, <2>2, <2>7, <3>1, <3>2, <3>3, SentKept DEF WritesWhole, ReadOnly
    <3> QED
      BY <1>k, <2>1, <3>1, <3>4
  <2>8. dest.accepts \in Acceptances
    BY DEF LandInv, Stages
  <2> QED
    BY <1>1, <2>3, <2>4, <2>5, <2>6, <2>7, <2>8 DEF InsertWithFallback, OverSelection, Acceptances
<1>2. CASE ReplaceSelection
  <2>1. UNCHANGED <<dest, box, keystrokes, past>> /\ job.at = "replace" /\ Mac
    BY <1>2 DEF ReplaceSelection
  <2>2. Calm => job.spoken # "undo" /\ job.words = Dictated /\ box = past.box
    BY <1>f, <2>1 DEF Given
  <2>3. CASE Goes("type", job.words) /\ (~dest.sel \/ ~HasSelection(box))
    <3>1. job'.at = "type" /\ job'.words = job.words /\ job'.spoken = job.spoken /\ job'.edit = job.edit
      BY <1>0, <2>3, GoesKeeps
    <3>2. Calm => job'.words = Sent
      <4>1. past.box.len > 0
        BY <2>1 DEF LandInv, Stages
      <4> QED
        BY <2>2, <2>3, <3>1, <4>1 DEF Sent, SpliceIsTyped
    <3> QED
      BY <1>k, <2>1, <3>1, <3>2
  <2>4. CASE Goes("write", job.words) /\ dest.sel /\ box.len > 0
    <3>1. job'.at = "write" /\ job'.words = job.words /\ job'.spoken = job.spoken /\ job'.edit = job.edit
      BY <1>0, <2>4, GoesKeeps
    <3>2. Asked
      BY <2>1, <3>1 DEF Asked
    <3>3. Calm => WritesOver' /\ Mac' /\ job'.spoken # "undo"
      BY <2>1, <2>2, <2>4, <3>1, <3>2, SentKept DEF WritesOver
    <3> QED
      BY <1>k, <2>1, <3>1, <3>3
  <2> QED
    BY <1>2, <2>3, <2>4 DEF ReplaceSelection, OverSelection, HasSelection
<1>3. CASE WriteFocused
  <2>1. UNCHANGED <<dest, keystrokes, past>> /\ job.at = "write" /\ Mac
    BY <1>3 DEF WriteFocused
  <2>2. Calm => box = past.box /\ keystrokes = 0
                /\ IF job.spoken = "undo" THEN job.words = Sent ELSE WritesOver \/ WritesWhole
    BY <1>f, <2>1 DEF Given
  <2>3. ASSUME Calm, box' = box,
               ~(dest.accepts = "both" /\ (dest.value \/ (dest.sel /\ box.len > 0)))
        PROVE  job.words = Sent
    <3>1. CASE job.spoken = "undo"
      BY <2>2, <2>3, <3>1
    <3>2. CASE job.spoken # "undo" /\ WritesOver
      BY <2>3, <3>2 DEF WritesOver, Sent, SpliceIsTyped
    <3>3. CASE job.spoken # "undo" /\ WritesWhole
      <4>1. SpliceIsTyped
        BY <2>1, <2>2, <2>3, <3>3 DEF WritesWhole, SpliceIsTyped
      <4> QED
        BY <3>3, <4>1 DEF WritesWhole, Sent
    <3> QED
      BY <2>2, <2>3, <3>1, <3>2, <3>3
  <2>4. CASE job' = [job EXCEPT !.at = "save", !.inline = TRUE] /\ dest.accepts = "clipboard" /\ box' = box
    BY <1>j, <1>k, <2>1, <2>3, <2>4
  <2>5. CASE Goes("type", job.words) /\ box' = box /\ (dest.accepts = "both" => ~(dest.value \/ (dest.sel /\ box.len > 0)))
    <3>1. job'.at = "type" /\ job'.words = job.words /\ job'.spoken = job.spoken /\ job'.edit = job.edit
      BY <1>0, <2>5, GoesKeeps
    <3> QED
      BY <1>k, <2>1, <2>3, <2>5, <3>1
  <2>6. CASE box' = ReplaceFocused(box, job.words) /\ Wrote("ax") /\ (dest.value \/ (dest.sel /\ box.len > 0))
    <3>1. /\ job'.at = "idle" /\ job'.result = "wrote" /\ job'.via = "ax"
          /\ job'.spoken = job.spoken /\ job'.edit = job.edit /\ job'.words = job.words
      BY <2>6, LeftKeeps DEF Wrote
    <3>2. Asked
      BY <2>1, <3>1 DEF Asked
    <3>3. Calm' => Calm
      BY <2>1 DEF Calm
    <3>4. ASSUME Calm, job.spoken # "undo" PROVE box'.words = Over(past.box, Dictated).words
      <4>1. CASE WritesOver
        BY <2>2, <2>6, <3>4, <4>1 DEF WritesOver, ReplaceFocused
      <4>2. CASE WritesWhole
        BY <2>2, <2>6, <3>4, <4>2 DEF WritesWhole, ReplaceFocused, WholeField
      <4> QED
        BY <2>2, <3>4, <4>1, <4>2
    <3>5. ASSUME Calm, job.spoken = "undo" PROVE box' = ReplaceFocused(past.box, Sent)
      BY <2>2, <2>6, <3>5
    <3>6. Calm => box'.words = SetThrough'
      <4>1. ReplaceFocused(past.box, Sent)' = ReplaceFocused(past.box, Sent)
        BY <2>1, <3>2, SentKept DEF ReplaceFocused
      <4>2. Mac' /\ Dictated' = Dictated /\ past' = past /\ job'.spoken = job.spoken
        BY <2>1, <3>1, <3>2, SentKept
      <4>3. CASE job.spoken = "undo"
        BY <3>5, <4>1, <4>2, <4>3 DEF SetThrough
      <4>4. CASE job.spoken # "undo"
        BY <3>4, <4>2, <4>4 DEF SetThrough
      <4> QED
        BY <4>3, <4>4
    <3>7. Calm => Found'
      BY <1>f, <2>1, <3>2, SentKept DEF Given
    <3>8. Calm' => WroteWell'
      BY <2>1, <2>2, <3>1, <3>3, <3>6, <3>7 DEF WroteWell
    <3>9. keystrokes' \in Nat /\ past'.cut \in 0..2
      BY <2>1 DEF LandInv, Stages
    <3> QED
      BY <2>1, <3>1, <3>8, <3>9, EndsWritten
  <2> QED
    BY <1>3, <2>4, <2>5, <2>6 DEF WriteFocused
<1> QED
  BY <1>1, <1>2, <1>3

\* Typing, which ends in the field or hands the words on, all of them.
LEMMA TypesLands ==
  ASSUME Shaped, LandInv, DeliverWithoutAx \/ SendInput \/ Wtype \/ PortalInsert PROVE LandInv'
<1>0. JobFields \subseteq DOMAIN job /\ PastFields \subseteq DOMAIN past
  BY DEF Shaped, JobFields, PastFields
<1>p. ASSUME NEW end, past' = [past EXCEPT !.cut = IF end = "cut" THEN @ + 1 ELSE @]
      PROVE  /\ past'.box = past.box /\ past'.ring = past.ring /\ past'.late = past.late
             /\ past'.cut = (IF end = "cut" THEN past.cut + 1 ELSE past.cut)
             /\ Calm' => Calm
  <2>1. /\ past'.cut = (IF end = "cut" THEN past.cut + 1 ELSE past.cut) /\ past'.late = past.late
        /\ past'.disturbed = past.disturbed /\ past'.box = past.box /\ past'.ring = past.ring
    BY <1>0, <1>p DEF PastFields
  <2> QED
    BY <2>1 DEF Calm
<1>f. ASSUME \/ job.at \in {"type", "keys", "portal"}
             \/ job.at = "insert" /\ dest.os = "linux"
      PROVE  Calm => Started /\ keystrokes = 0 /\ ~past.late /\ Found /\ job.words = Sent
  <2>1. Calm => Started /\ keystrokes = 0 /\ ~past.late /\ Given
    BY <1>f DEF LandInv, Follows, Untouched, Choosing
  <2>2. Given => Found
    BY <1>f DEF Given
  <2>3. Given /\ job.at # "insert" => job.words = Sent
    BY <1>f DEF Given, Sending
  <2>4. Given /\ job.at = "insert" => job.words = Sent
    BY <1>f DEF Given, Sent, SpliceIsTyped, Mac
  <2> QED
    BY <2>1, <2>2, <2>3, <2>4
\* One attempt: it fails, half way or before, and the words go on; or they are in the field.
<1>a. ASSUME NEW end \in TypingEnds, NEW otherwise \in {"save", "portal"},
             \/ job.at \in {"type", "keys", "portal"} /\ otherwise = "save"
             \/ job.at = "insert" /\ dest.os = "linux" /\ otherwise = "portal",
             UNCHANGED <<dest, keystrokes>>, box' = Typed(box, job.words, end),
             past' = [past EXCEPT !.cut = IF end = "cut" THEN @ + 1 ELSE @],
             IF end = "typed" THEN Wrote("keys")
             ELSE job'.at = otherwise /\ job'.words = job.words /\ job'.spoken = job.spoken /\ job'.edit = job.edit
      PROVE  LandInv'
  <2>1. /\ past'.box = past.box /\ past'.ring = past.ring /\ past'.late = past.late
        /\ past'.cut = (IF end = "cut" THEN past.cut + 1 ELSE past.cut)
        /\ Calm' => Calm
    BY <1>a, <1>p
  <2>2. Calm => Started /\ keystrokes = 0 /\ ~past.late /\ Found /\ job.words = Sent
    BY <1>a, <1>f
  <2>3. /\ past.cut \in 0..2 /\ (job.at # "portal" => past.cut = 0) /\ past.cut # 2
    BY <1>a DEF LandInv, Stages, Fresh
  <2>4. CASE end = "typed"
    <3>1. /\ job'.at = "idle" /\ job'.result = "wrote" /\ job'.via = "keys"
          /\ job'.spoken = job.spoken /\ job'.edit = job.edit
      BY <1>a, <2>4, LeftKeeps DEF Wrote
    <3>2. Asked /\ past'.cut = past.cut
      BY <1>a, <2>1, <2>4, <3>1 DEF Asked
    <3>3. Calm => box' = Over(Begun(past.box, Sent, past.cut), Sent)
      BY <1>a, <2>2, <2>4 DEF Typed, Started
    <3>4. Calm => box' = Over(Begun(past'.box, Sent', past'.cut), Sent')
      BY <2>1, <3>2, <3>3, SentKept
    <3>5. Calm' => WroteWell'
      BY <1>a, <2>1, <2>2, <3>1, <3>2, <3>4, SentKept DEF WroteWell
    <3>6. keystrokes' \in Nat /\ past'.cut \in 0..2
      BY <1>a, <2>3, <3>2 DEF LandInv, Stages
    <3> QED
      BY <1>a, <3>1, <3>5, <3>6, EndsWritten
  <2>5. CASE end # "typed"
    <3>1. job'.at = otherwise /\ job'.words = job.words /\ Asked
      BY <1>a, <2>1, <2>5 DEF Asked
    <3>2. Calm => Started'
      <4>1. CASE end = "refused"
        <5>1. box' = box /\ past'.cut = past.cut
          BY <1>a, <2>1, <4>1 DEF Typed
        <5> QED
          BY <2>1, <2>2, <3>1, <5>1, SentKept DEF Started
      <4>2. CASE end = "cut"
        <5>1. Calm => box' = Over(Begun(past.box, Sent, past.cut), FirstChunk(Sent))
          BY <1>a, <2>2, <4>2 DEF Typed, Started
        <5>2. past'.cut = past.cut + 1 /\ past.cut \in {0, 1}
          BY <2>1, <2>3, <4>2
        <5>3. Calm => box' = Begun(past.box, Sent, past'.cut)
          BY <5>1, <5>2 DEF Begun
        <5> QED
          BY <2>1, <3>1, <5>3, SentKept DEF Started
      <4> QED
        BY <2>5, <4>1, <4>2 DEF TypingEnds
    <3>3. Calm => Given'
      BY <1>a, <2>2, <3>1, SentKept DEF Given, Sending
    <3>4. past'.cut \in 0..2 /\ (otherwise = "portal" => past'.cut # 2)
      BY <1>a, <2>1, <2>3
    <3> QED
      BY <1>a, <2>1, <3>1, <3>2, <3>3, <3>4, HandsOn DEF Choosing, Untouched, Fresh
  <2> QED
    BY <2>4, <2>5
<1>1. CASE DeliverWithoutAx
  <2>1. UNCHANGED <<dest, keystrokes>> /\ job.at = "type"
    BY <1>1 DEF DeliverWithoutAx
  <2>s. ASSUME NEW inline, job' = [job EXCEPT !.at = "save", !.inline = inline]
        PROVE  job'.at = "save" /\ job'.words = job.words /\ job'.spoken = job.spoken /\ job'.edit = job.edit
    BY <1>0, <2>s DEF JobFields
  <2>2. CASE job' = [job EXCEPT !.at = "save", !.inline = TRUE] /\ UNCHANGED <<box, past>>
    <3>1. job'.at = "save" /\ job'.words = job.words /\ Asked
      BY <2>1, <2>2, <2>s DEF Asked
    <3>2. Calm => Started' /\ Given'
      BY <1>f, <2>1, <2>2, <3>1, SentKept DEF Started, Given, Sending
    <3>3. past'.cut \in 0..2 /\ (Calm' => Calm)
      BY <2>2 DEF LandInv, Stages, Calm
    <3> QED
      BY <2>1, <2>2, <3>1, <3>2, <3>3, HandsOn DEF Choosing, Untouched, Fresh
  <2>3. CASE \E first \in TypingEnds :
               LET ends == IF Retypes(first) THEN TypingEnds ELSE {first}
               IN \E end \in ends :
                    LET once == Typed(box, job.words, first)
                    IN /\ box' = IF Retypes(first) THEN Typed(once, job.words, end) ELSE once
                       /\ past' = [past EXCEPT !.cut = IF end = "cut" THEN @ + 1 ELSE @]
                       /\ IF end = "typed" THEN Wrote("keys")
                          ELSE job' = [job EXCEPT !.at = "save", !.inline = FALSE]
    <3>1. PICK first \in TypingEnds, end \in TypingEnds :
             /\ ~Retypes(first) => end = first
             /\ box' = IF Retypes(first) THEN Typed(Typed(box, job.words, first), job.words, end)
                       ELSE Typed(box, job.words, first)
             /\ past' = [past EXCEPT !.cut = IF end = "cut" THEN @ + 1 ELSE @]
             /\ IF end = "typed" THEN Wrote("keys") ELSE job' = [job EXCEPT !.at = "save", !.inline = FALSE]
      BY <2>3
    <3>2. box' = Typed(box, job.words, end)
      BY <3>1 DEF Retypes, Typed
    <3>3. IF end = "typed" THEN Wrote("keys")
          ELSE job'.at = "save" /\ job'.words = job.words /\ job'.spoken = job.spoken /\ job'.edit = job.edit
      BY <2>s, <3>1
    <3> QED
      BY <1>a, <2>1, <3>1, <3>2, <3>3
  <2> QED
    BY <1>1, <2>2, <2>3 DEF DeliverWithoutAx
<1>2. ASSUME NEW otherwise \in {"save", "portal"}, Types(otherwise),
             \/ job.at \in {"keys", "portal"} /\ otherwise = "save"
             \/ job.at = "insert" /\ dest.os = "linux" /\ otherwise = "portal"
      PROVE  LandInv'
  <2>1. UNCHANGED <<dest, keystrokes>>
    BY <1>2 DEF Types
  <2>2. PICK end \in TypingEnds :
           /\ box' = Typed(box, job.words, end)
           /\ past' = [past EXCEPT !.cut = IF end = "cut" THEN @ + 1 ELSE @]
           /\ IF end = "typed" THEN Wrote("keys") ELSE Goes(otherwise, job.words)
    BY <1>2 DEF Types
  <2>3. IF end = "typed" THEN Wrote("keys")
        ELSE job'.at = otherwise /\ job'.words = job.words /\ job'.spoken = job.spoken /\ job'.edit = job.edit
    BY <1>0, <2>2, GoesKeeps
  <2> QED
    BY <1>2, <1>a, <2>1, <2>2, <2>3
<1> QED
  BY <1>1, <1>2 DEF SendInput, Wtype, PortalInsert

\* Windows: UI Automation sets a whole value or hands the words on.
LEMMA UiaLands ==
  ASSUME Shaped, LandInv, UiaWrite PROVE LandInv'
<1>0. JobFields \subseteq DOMAIN job
  BY DEF Shaped
<1>1. /\ UNCHANGED <<dest, keystrokes, past>> /\ job.at \in {"insert", "replace", "restore"}
      /\ dest.os = "windows" /\ ~Mac
  BY DEF UiaWrite, Mac
<1>2. past.cut = 0 /\ (Calm => box = past.box /\ keystrokes = 0 /\ ~past.late /\ Given)
  BY <1>1, NotBegun DEF LandInv, Stages, Follows, Fresh, Untouched, Choosing, Started
<1>3. ~SpliceIsTyped
  BY <1>1 DEF SpliceIsTyped
<1>4. Calm => Found /\ job.words = Sent
  BY <1>1, <1>2, <1>3 DEF Given, Sending, Sent
<1>s. Calm => (job.spoken = "undo" <=> job.at = "restore")
  BY <1>1, <1>2 DEF Given
<1>c. Calm' => Calm
  BY <1>1 DEF Calm
<1> DEFINE inserts == Inserts /\ job.at # "restore"
<1>5. CASE box' = UiaValue(inserts) /\ Wrote("ax")
  <2>1. /\ job'.at = "idle" /\ job'.result = "wrote" /\ job'.via = "ax"
        /\ job'.spoken = job.spoken /\ job'.edit = job.edit /\ job'.words = job.words
    BY <1>5, LeftKeeps DEF Wrote
  <2>2. Asked
    BY <1>1, <2>1 DEF Asked
  <2>3. Calm => box'.words = SetThrough
    <3>1. CASE dest.accepts = "typing"
      BY <1>1, <1>2, <1>5, <3>1 DEF UiaValue, SetThrough
    <3>2. ASSUME Calm, dest.accepts # "typing", inserts PROVE box'.words = SetThrough
      <4>1. job.spoken # "undo" /\ Inserts /\ job.words = Dictated
        BY <1>3, <1>4, <1>s, <3>2 DEF Sent
      <4>2. box'.words = box.words \o job.words
        BY <1>5, <3>2 DEF UiaValue, WholeField
      <4> QED
        BY <1>1, <1>2, <3>2, <4>1, <4>2 DEF SetThrough
    <3>3. ASSUME Calm, dest.accepts # "typing", ~inserts PROVE box'.words = SetThrough
      <4>1. box'.words = job.words
        BY <1>5, <3>3 DEF UiaValue, WholeField
      <4>2. ~(job.spoken # "undo" /\ Inserts)
        BY <1>s, <3>3
      <4> QED
        BY <1>1, <1>4, <3>3, <4>1, <4>2 DEF SetThrough
    <3> QED
      BY <3>1, <3>2, <3>3
  <2>4. Calm => SetThrough' = SetThrough
    BY <1>1, <2>1, <2>2, SentKept DEF SetThrough
  <2>5. Calm' => WroteWell'
    BY <1>1, <1>2, <1>4, <1>c, <2>1, <2>2, <2>3, <2>4, SentKept DEF WroteWell
  <2>6. keystrokes' \in Nat /\ past'.cut \in 0..2
    BY <1>1 DEF LandInv, Stages
  <2> QED
    BY <1>1, <2>1, <2>5, <2>6, EndsWritten
<1>6. ASSUME NEW at \in {"keys", "save"}, Goes(at, job.words), box' = box PROVE LandInv'
  <2>1. job'.at = at /\ job'.words = job.words /\ job'.spoken = job.spoken /\ job'.edit = job.edit
    BY <1>0, <1>6, GoesKeeps
  <2>2. Asked
    BY <1>1, <2>1 DEF Asked
  <2>3. Calm => Started'
    BY <1>1, <1>2, <1>6 DEF Started, Begun
  <2>4. Calm => Given'
    BY <1>4, <1>6, <2>1, <2>2, SentKept DEF Given, Sending
  <2> QED
    BY <1>1, <1>2, <1>6, <1>c, <2>1, <2>3, <2>4, HandsOn DEF Choosing, Untouched, Fresh
<1>7. \/ box' = UiaValue(inserts) /\ Wrote("ax")
      \/ \E at \in {"keys", "save"} : Goes(at, job.words) /\ box' = box
  BY DEF UiaWrite
<1> QED
  BY <1>5, <1>6, <1>7

\* An undo takes the newest unit, of a field that holds what that unit left.
LEMMA UndoLands ==
  ASSUME Shaped, LandInv, ApplyUndo \/ ApplyUndoViaTiers PROVE LandInv'
<1>0. JobFields \subseteq DOMAIN job
  BY DEF Shaped
<1>1. PICK at \in {"write", "restore"} : UndoThrough(at) /\ (at = "write" => Mac)
  BY DEF ApplyUndo, ApplyUndoViaTiers
<1>2. UNCHANGED <<dest, box, keystrokes, past>> /\ job.at = "undo"
  BY <1>1 DEF UndoThrough
<1>3. /\ job.spoken = "undo" /\ ring = past.ring /\ past.cut = 0
      /\ Calm => box = past.box /\ keystrokes = 0 /\ ~past.late
  BY <1>2, NotBegun DEF LandInv, Stages, Follows, Fresh, Untouched, Choosing, Started
<1>4. CASE \E result \in {"declined", "unread"} : Ends(result)
  <2>1. PICK result \in {"declined", "unread"} : Ends(result)
    BY <1>4
  <2>2. job'.at = "idle" /\ job'.result # "wrote"
    BY <2>1, LeftKeeps DEF Ends
  <2> QED
    BY <1>2, <2>2, EndsUnwritten
<1>5. CASE Resolves(box.words) /\ Goes(at, Last(ring).before)
  <2>1. job'.at = at /\ job'.words = Last(ring).before /\ job'.spoken = job.spoken /\ job'.edit = job.edit
    BY <1>0, <1>5, GoesKeeps
  <2>2. Asked
    BY <1>2, <2>1 DEF Asked
  <2>3. Calm => Found'
    BY <1>2, <1>3, <1>5, <2>1 DEF Found, Resolves
  <2>4. job'.words = Sent'
    BY <1>2, <1>3, <2>1 DEF Sent
  <2>5. Calm => Given'
    BY <1>1, <1>3, <2>1, <2>2, <2>3, <2>4, SentKept DEF Given, Sending
  <2>6. Calm => Started'
    BY <1>2, <1>3 DEF Started, Begun
  <2> QED
    BY <1>2, <1>3, <2>1, <2>5, <2>6, HandsOn DEF Choosing, Untouched, Fresh, Calm
<1>6. \/ \E result \in {"declined", "unread"} : Ends(result)
      \/ Resolves(box.words) /\ Goes(at, Last(ring).before)
  BY <1>1 DEF UndoThrough
<1> QED
  BY <1>4, <1>5, <1>6

\* What a thread gives back, as long as no two deliveries crossed, is the user's.
LEMMA GivesBackOwned ==
  ASSUME ClipInv, DetachedRestore, ~past'.crossed
  PROVE  clipboard' = owned /\ owned' = owned
<1>1. PICK i \in 1..Len(givebacks) : clipboard' = givebacks[i]
  BY DEF DetachedRestore
<1>2. past'.crossed = (past.crossed \/ job.at \in {"paste", "settle"})
  BY DEF DetachedRestore, ClipInv, Shaped, PastFields
<1>3. givebacks = <<owned>>
  BY <1>2 DEF DetachedRestore, ClipInv
<1>4. \A k \in 1..Len(<<owned>>) : <<owned>>[k] = owned
  OBVIOUS
<1> QED
  BY <1>1, <1>3, <1>4 DEF DetachedRestore

\* The clipboard transport, the keystroke on its way and the threads behind it.
LEMMA PasteLands ==
  ASSUME ClipInv, LandInv, SaveClipboard \/ PasteClipboard \/ SettleAndRestore \/ DetachedRestore \/ Leave
  PROVE  LandInv'
<1>0. JobFields \subseteq DOMAIN job /\ PastFields \subseteq DOMAIN past
  BY DEF ClipInv, Shaped, JobFields, PastFields
<1>f. ASSUME job.at \in {"save", "paste"}
      PROVE  Calm => Started /\ keystrokes = 0 /\ ~past.late /\ Found /\ job.words = Sent
  BY <1>f DEF LandInv, Follows, Untouched, Choosing, Given, Sending
<1>1. CASE SaveClipboard
  <2>1. UNCHANGED <<dest, box, keystrokes, past>> /\ job.at = "save"
    BY <1>1 DEF SaveClipboard
  <2>2. (\E result \in {"failed", "no clipboard"} : job' = Left(result, "none")) \/ job' = [job EXCEPT !.at = "paste", !.saved = clipboard]
    BY <1>1 DEF SaveClipboard, Ends
  <2>3. CASE job' = [job EXCEPT !.at = "paste", !.saved = clipboard]
    <3>1. /\ job'.at = "paste" /\ job'.words = job.words /\ job'.spoken = job.spoken /\ job'.edit = job.edit
      BY <1>0, <2>3 DEF JobFields
    <3>2. Asked
      BY <2>1, <3>1 DEF Asked
    <3>3. Calm => Started' /\ Given'
      BY <1>f, <2>1, <3>1, <3>2, SentKept DEF Started, Given, Sending
    <3>4. past'.cut \in 0..2 /\ (Calm' => Calm)
      BY <2>1 DEF LandInv, Stages, Calm
    <3> QED
      BY <2>1, <3>1, <3>3, <3>4, HandsOn DEF Choosing, Untouched, Fresh
  <2>4. CASE \E result \in {"failed", "no clipboard"} : job' = Left(result, "none")
    <3>1. PICK result \in {"failed", "no clipboard"} : job' = Left(result, "none")
      BY <2>4
    <3>2. job'.at = "idle" /\ job'.result # "wrote"
      BY <3>1, LeftKeeps
    <3> QED
      BY <2>1, <3>2, EndsUnwritten
  <2> QED
    BY <2>2, <2>3, <2>4
<1>2. CASE PasteClipboard
  <2>1. job.at = "paste" /\ clipboard' = job.words /\ UNCHANGED <<dest, box>>
    BY <1>2 DEF PasteClipboard
  <2>2. past' = [past EXCEPT !.crossed = @ \/ givebacks # <<>>]
    BY <1>2 DEF PasteClipboard
  <2>3. /\ past'.late = past.late /\ past'.cut = past.cut
        /\ past'.disturbed = past.disturbed /\ past'.box = past.box /\ past'.ring = past.ring
    BY <1>0, <2>2 DEF PastFields
  <2>4. (Calm' => Calm) /\ past'.cut \in 0..2
    BY <2>3 DEF Calm, LandInv, Stages
  <2>5. Calm => Started /\ keystrokes = 0 /\ ~past.late /\ Found /\ job.words = Sent
    BY <1>f, <2>1
  <2>6. ASSUME keystrokes' = keystrokes + 1, job'.spoken = job.spoken, job'.edit = job.edit
        PROVE  keystrokes' \in Nat /\ (Calm' => Pasted' /\ Found')
    <3>1. keystrokes' \in Nat /\ (keystrokes = 0 => keystrokes' = 1)
      BY <2>6 DEF LandInv, Stages
    <3>2. Asked
      BY <2>1, <2>3, <2>6 DEF Asked
    <3>3. Calm => Started'
      BY <2>1, <2>3, <2>5, <3>2, SentKept DEF Started
    <3>4. Calm => clipboard' = Entered'
      BY <2>1, <2>3, <2>5, <3>2, SentKept DEF Entered
    <3> QED
      BY <2>4, <2>5, <3>1, <3>2, <3>3, <3>4, SentKept DEF Pasted
  <2>7. CASE keystrokes' = keystrokes + 1 /\ job' = Left("wrote", "clipboard")
    <3>1. /\ job'.at = "idle" /\ job'.result = "wrote" /\ job'.via = "clipboard"
          /\ job'.spoken = job.spoken /\ job'.edit = job.edit
      BY <2>7, LeftKeeps
    <3>2. Calm' => WroteWell'
      BY <2>6, <2>7, <3>1 DEF WroteWell
    <3> QED
      BY <2>1, <2>4, <2>6, <2>7, <3>1, <3>2, EndsWritten
  <2>8. CASE keystrokes' = keystrokes + 1 /\ job' = [job EXCEPT !.at = "settle"]
    <3>1. job'.at = "settle" /\ job'.spoken = job.spoken /\ job'.edit = job.edit
      BY <1>0, <2>8 DEF JobFields
    <3>2. Stages'
      BY <2>1, <2>4, <2>6, <2>8, <3>1 DEF LandInv, Stages, Fresh
    <3>3. Calm' => Follows'
      BY <2>6, <2>8, <3>1 DEF Follows, Untouched, Choosing
    <3> QED
      BY <3>2, <3>3 DEF LandInv
  <2>9. CASE keystrokes' = keystrokes /\ job' = Left("failed", "none")
    <3>1. job'.at = "idle" /\ job'.result # "wrote"
      BY <2>9, LeftKeeps
    <3> QED
      BY <2>1, <2>3, <2>9, <3>1, EndsUnwritten
  <2> QED
    BY <1>2, <2>7, <2>8, <2>9 DEF PasteClipboard, Wrote, Ends
\* Giving the clipboard back before the keystroke was handled is being late.
<1>g. ASSUME UNCHANGED <<box, keystrokes, owned>>, Asked, past'.cut = past.cut,
             past'.late = (past.late \/ keystrokes > 0), past.crossed => past'.crossed,
             ~past'.crossed => clipboard' = owned, Pasted
      PROVE  Pasted'
  <2>1. ASSUME ~(past'.late /\ past'.crossed) PROVE ~(past.late /\ past.crossed)
    BY <1>g, <2>1, Zenon
  <2>2. Sent' = Sent
    BY <1>g, SentKept
  <2>3. CASE ~(past.late /\ past.crossed) /\ keystrokes = 0 /\ box = Over(Begun(past.box, Sent, past.cut), Entered)
    <3>1. ~(keystrokes > 0)
      BY <2>3
    <3>2. past'.late <=> past.late
      BY <1>g, <3>1, Zenon
    <3>3. Entered' = Entered
      BY <1>g, <2>2, <3>2 DEF Entered
    <3> QED
      BY <1>g, <2>2, <2>3, <3>3 DEF Pasted, Asked
  <2>4. CASE ~(past'.late /\ past'.crossed) /\ keystrokes = 1 /\ Started
    <3>1. keystrokes > 0
      BY <2>4
    <3>2. past'.late
      BY <1>g, <3>1, Zenon
    <3>3. clipboard' = owned /\ Entered' = owned
      BY <1>g, <2>4, <3>2 DEF Entered
    <3>4. Started'
      BY <1>g, <2>2, <2>4 DEF Started, Asked
    <3> QED
      BY <1>g, <2>4, <3>3, <3>4 DEF Pasted
  <2> QED
    BY <1>g, <2>1, <2>3, <2>4 DEF Pasted
<1>3. CASE SettleAndRestore
  <2>1. /\ job.at = "settle" /\ UNCHANGED <<dest, box, keystrokes, owned>> /\ clipboard' = job.saved
        /\ job' = Left("wrote", "clipboard") /\ past' = [past EXCEPT !.late = @ \/ keystrokes > 0]
    BY <1>3 DEF SettleAndRestore, Wrote
  <2>2. /\ past'.crossed = past.crossed /\ past'.late = (past.late \/ keystrokes > 0) /\ past'.cut = past.cut
        /\ past'.disturbed = past.disturbed /\ past'.box = past.box /\ past'.ring = past.ring
    BY <1>0, <2>1 DEF PastFields
  <2>3. /\ job'.at = "idle" /\ job'.result = "wrote" /\ job'.via = "clipboard"
        /\ job'.spoken = job.spoken /\ job'.edit = job.edit
    BY <2>1, LeftKeeps
  <2>4. Asked
    BY <2>1, <2>2, <2>3 DEF Asked
  <2>5. ~past'.crossed => clipboard' = owned
    BY <2>1, <2>2 DEF ClipInv
  <2>6. ASSUME Calm' PROVE Found /\ Pasted
    BY <2>1, <2>2, <2>6 DEF Calm, LandInv, Follows
  <2>7. ASSUME Calm' PROVE Pasted'
    BY <1>g, <2>1, <2>2, <2>4, <2>5, <2>6, <2>7
  <2>8. Calm' => WroteWell'
    BY <2>3, <2>4, <2>6, <2>7, SentKept DEF WroteWell
  <2>9. keystrokes' \in Nat /\ past'.cut \in 0..2
    BY <2>1, <2>2 DEF LandInv, Stages
  <2> QED
    BY <2>1, <2>3, <2>8, <2>9, EndsWritten
<1>4. CASE DetachedRestore
  <2>1. /\ UNCHANGED <<dest, box, keystrokes, ring, job, owned>>
        /\ past' = [past EXCEPT !.late = @ \/ keystrokes > 0, !.crossed = @ \/ job.at \in {"paste", "settle"}]
    BY <1>4 DEF DetachedRestore
  <2>2. /\ past'.crossed = (past.crossed \/ job.at \in {"paste", "settle"})
        /\ past'.late = (past.late \/ keystrokes > 0) /\ past'.cut = past.cut
        /\ past'.disturbed = past.disturbed /\ past'.box = past.box /\ past'.ring = past.ring
    BY <1>0, <2>1 DEF PastFields
  <2>3. Asked
    BY <2>1, <2>2 DEF Asked
  <2>4. ~past'.crossed => clipboard' = owned
    BY <1>4, GivesBackOwned
  <2>5. Pasted => Pasted'
    <3>1. past.crossed => past'.crossed
      BY <2>2, Zenon
    <3> QED
      BY <1>g, <2>1, <2>2, <2>3, <2>4, <3>1
  <2>6. keystrokes = 0 => (past'.late <=> past.late)
    <3>1. keystrokes = 0 => ~(keystrokes > 0)
      OBVIOUS
    <3> QED
      BY <2>2, <3>1, Zenon
  <2>7. Started' = Started /\ Given' = Given /\ SetThrough' = SetThrough
    <3>1. Started' = Started
      BY <2>1, <2>2, <2>3, SentKept DEF Started
    <3>2. Given' = Given
      BY <2>1, <2>2, <2>3, SentKept DEF Given, WritesOver, WritesWhole
    <3>3. SetThrough' = SetThrough
      BY <2>3, SetThroughKept
    <3> QED
      BY <3>1, <3>2, <3>3
  <2>8. WroteWell => WroteWell'
    <3>1. Found' = Found /\ Sent' = Sent
      BY <2>3, SentKept
    <3> QED
      BY <2>1, <2>2, <2>5, <2>6, <2>7, <3>1 DEF WroteWell
  <2>9. Stages'
    BY <2>1, <2>2 DEF LandInv, Stages
  <2>10. ASSUME Calm' PROVE Follows'
    <3>1. Follows
      BY <2>2, <2>10 DEF Calm, LandInv
    <3>2. Found' = Found
      BY <2>3, SentKept
    <3> QED
      BY <2>1, <2>5, <2>6, <2>7, <2>8, <3>1, <3>2 DEF Follows
  <2> QED
    BY <2>9, <2>10 DEF LandInv
<1>5. CASE Leave
  <2>1. /\ UNCHANGED <<dest, keystrokes>> /\ job' = [job EXCEPT !.at = "gone"]
        /\ past' = [past EXCEPT !.late = @ \/ (givebacks # <<>> /\ keystrokes > 0)]
    BY <1>5 DEF Leave, DrainPendingRestores
  <2>2. job'.at = "gone" /\ past'.cut = past.cut
    BY <1>0, <2>1 DEF JobFields, PastFields
  <2> QED
    BY <2>1, <2>2, EndsUnwritten
<1> QED
  BY <1>1, <1>2, <1>3, <1>4, <1>5

\* The application pastes; the user disturbs.
LEMMA UserLands ==
  ASSUME Shaped, LandInv, HandlePaste \/ UserSelects \/ UserTypesWord \/ UserCopies PROVE LandInv'
<1>1. CASE HandlePaste
  <2>1. /\ keystrokes > 0 /\ keystrokes' = keystrokes - 1 /\ box' = Over(box, clipboard)
        /\ UNCHANGED <<dest, clipboard, owned, ring, job, past>>
    BY <1>1 DEF HandlePaste
  <2>2. keystrokes' \in Nat /\ keystrokes # 0 /\ (keystrokes = 1 => keystrokes' = 0)
    BY <2>1 DEF LandInv, Stages
  <2>3. Asked
    BY <2>1 DEF Asked
  <2>4. Entered' = Entered /\ Found' = Found
    BY <2>1, <2>3, SentKept DEF Entered
  <2>5. ASSUME Pasted PROVE Pasted'
    <3>1. ~(past.late /\ past.crossed) => Started /\ clipboard = Entered /\ keystrokes = 1
      BY <2>2, <2>5 DEF Pasted
    <3>2. ~(past.late /\ past.crossed) => box' = Over(Begun(past.box, Sent, past.cut), Entered)
      BY <2>1, <3>1 DEF Started
    <3> QED
      BY <2>1, <2>2, <2>3, <2>4, <3>1, <3>2, SentKept DEF Pasted
  <2>6. Stages'
    BY <2>1, <2>2 DEF LandInv, Stages
  <2>7. ASSUME Calm' PROVE Follows'
    <3>1. Follows
      BY <2>1, <2>7 DEF Calm, LandInv
    <3>2. job.at \notin Untouched
      BY <2>2, <3>1 DEF Follows
    <3>3. WroteWell => WroteWell'
      BY <2>1, <2>2, <2>4, <2>5 DEF WroteWell
    <3> QED
      BY <2>1, <2>4, <2>5, <3>1, <3>2, <3>3 DEF Follows, Untouched
  <2> QED
    BY <2>6, <2>7 DEF LandInv
<1>2. CASE UserSelects \/ UserTypesWord \/ UserCopies
  <2>1. UNCHANGED <<dest, keystrokes, ring, job>> /\ past' = [past EXCEPT !.meddled = @ + 1, !.disturbed = TRUE]
    BY <1>2 DEF UserSelects, UserTypesWord, UserCopies, Meddles
  <2>2. past'.disturbed /\ past'.ring = past.ring /\ past'.cut = past.cut /\ past'.box = past.box
    BY <2>1 DEF Shaped, PastFields
  <2> QED
    BY <2>1, <2>2 DEF LandInv, Stages, Calm
<1> QED
  BY <1>1, <1>2

(* inject.rs and clipboard.rs: for fields of any words, any number of        *)
(* deliveries on every system and by every transport.  Unless the user       *)
(* touches field or clipboard between key-down and the end of a delivery,    *)
(* the field then holds exactly what the transport that took the words puts  *)
(* there: also in fields that take a selection only and in applications that *)
(* ignore accessibility writes, after attempts to type that stopped half way *)
(* (their first words stay in front), and where the clipboard was given back *)
(* before the keystroke was handled (the user's text is pasted).  An undo    *)
(* found what the newest edit left.  The clipboard is the user's again once  *)
(* nothing holds it.  Where two deliveries crossed on the clipboard, neither *)
(* it nor a paste that came too late is spoken for.                          *)
THEOREM DeliveryAlwaysExact == DeliverySpec => []DeliveryIsExact
<1> DEFINE Inv == ClipInv /\ LandInv
<1>1. ASSUME DeliveryInit PROVE Inv
  <2>1. /\ job = Idle /\ owned = <<"u">> /\ clipboard = owned /\ givebacks = <<>>
        /\ past = [box |-> box, disturbed |-> FALSE, late |-> FALSE, cut |-> 0, crossed |-> FALSE,
                   ring |-> <<>>, done |-> 0, meddled |-> 0]
    BY <1>1 DEF DeliveryInit
  <2>2. job.at = "idle" /\ JobFields \subseteq DOMAIN job /\ job.result # "wrote"
    BY <2>1 DEF Idle, JobFields
  <2>3. PastFields \subseteq DOMAIN past /\ past.cut = 0
    BY <2>1 DEF PastFields
  <2>4. Shaped
    BY <2>2, <2>3 DEF Shaped
  <2>5. keystrokes = 0 /\ dest.accepts \in Acceptances
    BY <1>1 DEF DeliveryInit
  <2>6. LandInv
    BY <2>2, <2>3, <2>5 DEF LandInv, Stages, Follows, Untouched, Choosing, Fresh
  <2> QED
    BY <2>1, <2>2, <2>4, <2>6 DEF ClipInv
<1>2. Inv /\ [DeliveryNext]_deliveryVars => Inv'
  <2>1. ASSUME Inv, UNCHANGED deliveryVars PROVE Inv'
    <3>1. ClipInv'
      BY <2>1 DEF ClipInv, Shaped, deliveryVars
    <3>2. Asked /\ UNCHANGED <<dest, box, clipboard, owned, keystrokes, ring, job, past>>
      BY <2>1 DEF deliveryVars, Asked
    <3>3. /\ Given' = Given /\ Started' = Started /\ Pasted' = Pasted /\ WroteWell' = WroteWell
          /\ Found' = Found /\ Calm' = Calm
      <4>1. Started' = Started /\ Entered' = Entered /\ Found' = Found /\ SetThrough' = SetThrough
        <5>1. SetThrough' = SetThrough
          BY <3>2, SetThroughKept
        <5>2. Started' = Started /\ Entered' = Entered /\ Found' = Found
          BY <3>2, SentKept DEF Started, Entered
        <5> QED
          BY <5>1, <5>2
      <4>2. Given' = Given
        BY <3>2, SentKept DEF Given, WritesOver, WritesWhole
      <4>3. Pasted' = Pasted
        BY <3>2, <4>1, SentKept DEF Pasted
      <4>4. WroteWell' = WroteWell
        BY <3>2, <4>1, <4>3, SentKept DEF WroteWell
      <4> QED
        BY <3>2, <4>1, <4>2, <4>3, <4>4 DEF Calm
    <3>4. Stages' = Stages /\ Follows' = Follows
      BY <3>2, <3>3 DEF Stages, Follows
    <3>5. LandInv'
      BY <2>1, <3>3, <3>4 DEF LandInv
    <3> QED
      BY <3>1, <3>5
  <2>2. ASSUME ClipInv, Quiet PROVE ClipInv'
    BY <2>2 DEF ClipInv, Quiet, Shaped, JobFields, PastFields
  <2>3. ASSUME ClipInv, DeliveryNext PROVE ClipInv'
    BY <2>2, <2>3, AppQuiet, TiersQuiet, UserKeepsClip, TransportKeepsClip DEF DeliveryNext, ClipInv
  <2>4. ASSUME ClipInv, LandInv, DeliveryNext PROVE LandInv'
    BY <2>4, RoutingLands, AxLands, TypesLands, UiaLands, UndoLands, PasteLands, UserLands DEF DeliveryNext, ClipInv
  <2> QED
    BY <2>1, <2>3, <2>4
<1>3. ASSUME Inv PROVE DeliveryIsExact
  <2>1. ClipboardComesBack
    BY <1>3 DEF ClipInv, ClipboardComesBack
  <2>2. ASSUME Undisturbed PROVE Found /\ Landed
    <3>1. WroteWell /\ keystrokes = 0
      BY <1>3, <2>2 DEF Undisturbed, LandInv, Follows, Calm
    <3>2. CASE job.via = "ax"
      BY <3>1, <3>2 DEF WroteWell, Landed
    <3>3. CASE job.via = "keys"
      BY <3>1, <3>3 DEF WroteWell, Landed, Entered
    <3>4. CASE job.via = "clipboard"
      BY <3>1, <3>4 DEF WroteWell, Landed, Pasted
    <3> QED
      BY <3>1, <3>2, <3>3, <3>4 DEF WroteWell
  <2>3. LandsOnce /\ UndoGivesBack
    BY <2>2 DEF LandsOnce, UndoGivesBack, Found
  <2> QED
    BY <2>1, <2>3 DEF DeliveryIsExact
<1> QED
  BY <1>1, <1>2, <1>3, PTL DEF DeliverySpec
=============================================================================
