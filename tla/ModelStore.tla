----------------------------- MODULE ModelStore -----------------------------
(***************************************************************************)
(* The recognizer model of `--asr whisper`: looked for when the daemon     *)
(* starts (discover_whisper_model in main.rs), and fetched into the cache  *)
(* with resume, checksum and marker (asr/src/models.rs; llm has the same). *)
(* The process may be killed between any two steps and started again, the  *)
(* connection may break, and the user may put a file there by hand.        *)
(***************************************************************************)
EXTENDS Naturals, FiniteSets

CONSTANTS
  Whole,        \* pieces of the file that is served
  MaxStarts,    \* bound: starts of the daemon
  MaxTrouble,   \* bound: broken connections and damaged pieces
  MaxUserFiles  \* bound: files put there by hand

ASSUME StoreAssumption == Whole \in Nat

VARIABLES
  cached,       \* whisper-base.en in the cache
  partial,      \* whisper-base.en.partial
  marker,       \* whisper-base.en.verified
  other,        \* is there a model beside the program, or one that the environment names
  daemon,       \* [at, length, appends, loaded]: where the process is
  curl,         \* is the user's own download still writing the cached file
  starts, trouble, userFiles

storeVars == <<cached, partial, marker, other, daemon, curl, starts, trouble, userFiles>>

\* A file: how much of it there is, and whether all that is as it was served.
File(n, good) == [size |-> n, good |-> good]
NoFile == File(0, FALSE)
Right(file) == file = File(Whole, TRUE)
\* An empty file is a file.
Exists(file) == file # NoFile

Off == [at |-> "off", verified |-> FALSE, loaded |-> NoFile]
At(step) == daemon' = [daemon EXCEPT !.at = step]
UnchangedFiles == UNCHANGED <<cached, partial, marker>>
Rest == UNCHANGED <<other, curl, starts, trouble, userFiles>>

StoreInit ==
  /\ cached = NoFile /\ partial = NoFile /\ marker = FALSE /\ curl = FALSE
  /\ other \in BOOLEAN
  /\ daemon = Off /\ starts = 0 /\ trouble = 0 /\ userFiles = 0
-----------------------------------------------------------------------------
Loads(file, verified) == daemon' = [at |-> "ready", verified |-> verified, loaded |-> file]

\* Mutant: a download in progress is found too.
FindPartial ==
  IF other THEN "other" ELSE IF Exists(cached) THEN "cached" ELSE IF Exists(partial) THEN "partial" ELSE "none"
\* The environment, the program's directories, the working directory, then the cache.
Find == IF other THEN "other" ELSE IF Exists(cached) THEN "cached" ELSE "none"

\* make_recognizer_factory: what is found is loaded as it is.
StartDaemon ==
  /\ daemon.at = "off" /\ starts < MaxStarts
  /\ starts' = starts + 1
  /\ CASE Find = "other" -> Loads(File(Whole, TRUE), FALSE)
       [] Find = "cached" -> Loads(cached, FALSE)
       [] Find = "partial" -> Loads(partial, FALSE)
       [] Find = "none" -> \E auto \in BOOLEAN : At(IF auto THEN "fetch" ELSE "failed")
  /\ UnchangedFiles /\ UNCHANGED <<other, curl, trouble, userFiles>>

\* verify_cached: hashed at most once, and removed when it is not the model.
VerifyCached ==
  /\ IF marker \/ Right(cached) THEN Loads(cached, TRUE) /\ marker' = TRUE /\ UNCHANGED cached
     ELSE At("failed") /\ cached' = NoFile /\ UNCHANGED marker
  /\ UNCHANGED partial

\* fetch begins: the file may be there by now; then what is missing is asked for.
Fetch ==
  /\ daemon.at = "fetch"
  /\ \/ Exists(cached) /\ VerifyCached /\ curl' = (curl /\ Exists(cached')) /\ UNCHANGED trouble
     \/ /\ ~Exists(cached)
        /\ \/ partial.size < Whole /\ At(IF partial.size > 0 THEN "append" ELSE "receive") /\ UNCHANGED <<partial, trouble>>
           \/ At("receive") /\ UNCHANGED <<partial, trouble>>   \* the server sends the whole
           \/ partial.size >= Whole /\ At("failed") /\ UNCHANGED <<partial, trouble>>  \* 416: nothing is left to send
           \/ trouble < MaxTrouble /\ trouble' = trouble + 1 /\ At("failed") /\ UNCHANGED partial
        /\ UNCHANGED <<cached, marker, curl>>
  /\ UNCHANGED <<other, starts, userFiles>>

\* Mutant: the file is begun anew before the answer is known.
OpenPartialAnew ==
  /\ daemon.at \in {"receive", "append"}
  /\ partial' = File(0, TRUE)
  /\ At("receiving")
  /\ UNCHANGED <<cached, marker>> /\ Rest
\* A whole answer begins the file anew, the rest of one is appended to it.
OpenPartial ==
  /\ daemon.at \in {"receive", "append"}
  /\ partial' = IF daemon.at = "append" THEN partial ELSE File(0, TRUE)
  /\ At("receiving")
  /\ UNCHANGED <<cached, marker>> /\ Rest

ReceivePiece ==
  /\ daemon.at = "receiving" /\ partial.size < Whole
  /\ \/ partial' = File(partial.size + 1, partial.good) /\ At("receiving") /\ UNCHANGED trouble
     \/ /\ trouble < MaxTrouble /\ trouble' = trouble + 1
        /\ \/ partial' = File(partial.size + 1, FALSE) /\ At("receiving")
           \/ At("failed") /\ UNCHANGED partial
  /\ UNCHANGED <<cached, marker, other, curl, starts, userFiles>>

\* Mutant: only the size is looked at.
SizeVerify ==
  /\ daemon.at = "receiving" /\ partial.size = Whole
  /\ At("rename") /\ UNCHANGED partial
  /\ UNCHANGED <<cached, marker>> /\ Rest
\* The whole file is hashed; a wrong one is removed, so that the next fetch begins anew.
Verify ==
  /\ daemon.at = "receiving" /\ partial.size = Whole
  /\ IF Right(partial) THEN At("rename") /\ UNCHANGED partial
     ELSE At("failed") /\ partial' = NoFile
  /\ UNCHANGED <<cached, marker>> /\ Rest

Rename ==
  /\ daemon.at = "rename"
  /\ cached' = partial /\ partial' = NoFile /\ curl' = FALSE
  /\ At("mark")
  /\ UNCHANGED <<marker, other, starts, trouble, userFiles>>
Mark ==
  /\ daemon.at = "mark"
  /\ marker' = TRUE /\ Loads(cached, TRUE)
  /\ UNCHANGED <<cached, partial>> /\ Rest

Killed ==
  /\ daemon.at # "off" /\ daemon' = Off
  /\ UnchangedFiles /\ Rest
-----------------------------------------------------------------------------
(* The user: `curl -L -o .../whisper-base.en`, which writes under the name *)
(* itself and may be of anything, and the removal of the model.            *)
CurlBegins ==
  /\ ~curl /\ userFiles < MaxUserFiles /\ userFiles' = userFiles + 1
  /\ curl' = TRUE /\ \E good \in BOOLEAN : cached' = File(1, good)
  /\ UNCHANGED <<partial, marker, other, daemon, starts, trouble>>
CurlGoesOn ==
  /\ curl
  /\ IF cached.size < Whole THEN cached' = [cached EXCEPT !.size = @ + 1] /\ UNCHANGED curl
     ELSE curl' = FALSE /\ UNCHANGED cached
  /\ UNCHANGED <<partial, marker, other, daemon, starts, trouble, userFiles>>
UserRemoves ==
  /\ Exists(cached) /\ userFiles < MaxUserFiles /\ userFiles' = userFiles + 1
  /\ cached' = NoFile /\ curl' = FALSE
  /\ UNCHANGED <<partial, marker, other, daemon, starts, trouble>>

StoreNext ==
  \/ StartDaemon \/ Fetch \/ OpenPartial \/ ReceivePiece \/ Verify \/ Rename \/ Mark \/ Killed
  \/ CurlBegins \/ CurlGoesOn \/ UserRemoves
StoreSpec == StoreInit /\ [][StoreNext]_storeVars
-----------------------------------------------------------------------------
(* models.rs:175: the name of the model is given to a verified file only.  *)
(* While the user puts no file there, what is under it is the whole model, *)
(* whatever was broken off, damaged, resumed or killed before.             *)
FetchedIsWhole ==
  /\ userFiles = 0 /\ Exists(cached) => Right(cached)
  /\ daemon.verified /\ userFiles = 0 => Right(daemon.loaded)

(* main.rs:281: a download in progress is never loaded for a model.  While *)
(* the user puts nothing there, a start loads the whole model or nothing.  *)
NeverHalfAModel ==
  userFiles = 0 /\ daemon.at = "ready" => Right(daemon.loaded)

(* models.rs:1: what is there already is kept.  A partial shrinks only     *)
(* when its checksum was wrong, or when the server sends the whole again;  *)
(* no crash and no broken connection takes anything from it.               *)
ResumeKeepsProgress ==
  [][/\ partial'.size < partial.size =>
          \/ ~partial.good \/ daemon.at = "receive"
          \/ daemon.at = "rename" /\ cached' = partial
     /\ partial'.size > partial.size => partial'.size = partial.size + 1]_storeVars

(* models.rs:186: a pinned model that arrived any other way is hashed once *)
(* rather than trusted.  The daemon finds it before it asks fetch, and     *)
(* loads it without a look at its hash.                                    *)
PinnedIsVerified ==
  daemon.at = "ready" /\ ~other => Right(daemon.loaded)

(* models.rs:8: a download resumes from where it stopped.  One that was    *)
(* killed between its last piece and its new name asks for what is beyond  *)
(* the end, and fails at this and at every later start.                    *)
ResumesAfterCrash ==
  [][daemon.at = "fetch" /\ ~Exists(cached) /\ partial.size >= Whole => daemon'.at # "failed"]_storeVars

ModelIsTheRightOne == []FetchedIsWhole /\ []NeverHalfAModel /\ ResumeKeepsProgress
=============================================================================
