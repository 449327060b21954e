----------------------------- MODULE ConfigFile -----------------------------
(***************************************************************************)
(* crates/config paths.rs, relocate.rs and update_file of lib.rs, with     *)
(* write_setting of outloud menuhost.rs: the user's config.toml, line by   *)
(* line, while the daemon, a second outloud process and an editor use it.  *)
(* A line is a comment, a setting or junk that is no TOML.                 *)
(***************************************************************************)
EXTENDS Naturals, Sequences, FiniteSets

CONSTANTS
  Loaders,    \* processes that load the configuration; one is the daemon
  DaemonProc,
  Settable,   \* the keys a user sets
  Levels,     \* their values
  MaxSaves,   \* bound: saves of the editor and clicks in the menu
  MaxCrashes,
  Absent      \* no such file

Comment(what) == <<"#", what>>
Preamble == Comment("preamble")
Reference == Comment("reference")
Stale == Comment("stale reference")
Note == Comment("note")
Setting(k, v) == <<k, v>>
Schema == Setting("schema-version", "1")
Junk == Setting("junk", "junk")

FileLines == ({"#", "schema-version", "junk"} \cup Settable)
           \X ({"preamble", "reference", "stale reference", "note", "1", "junk"} \cup Levels)

\* The user sets neither the version of the file nor what is no TOML.
ASSUME ConfigFileAssumption ==
  /\ DaemonProc \in Loaders /\ MaxSaves \in Nat /\ MaxCrashes \in Nat
  /\ {"#", "schema-version", "junk"} \cap Settable = {} /\ Absent \notin Seq(FileLines)

\* A line that is neither blank nor a comment.
IsSetting(line) == line[1] # "#"

\* The settings of a text, in order: those of its first i lines, for every i.
SettingsUpTo(text) ==
  LET f[i \in 0..Len(text)] ==
        IF i = 0 THEN <<>> ELSE IF IsSetting(text[i]) THEN Append(f[i - 1], text[i]) ELSE f[i - 1]
  IN  f
SettingsOf(text) == SettingsUpTo(text)[Len(text)]

KeysIn(text) == {text[i][1] : i \in {j \in DOMAIN text : IsSetting(text[j])}}
Occurs(text, k) == {i \in DOMAIN text : IsSetting(text[i]) /\ text[i][1] = k}

\* toml: no junk, and no key twice.
Parses(text) == \A i \in DOMAIN text : IsSetting(text[i]) =>
                  text[i] # Junk /\ Cardinality(Occurs(text, text[i][1])) = 1

\* What a text sets, of the keys a user sets.
Says(text) ==
  [k \in KeysIn(text) \cap Settable |-> text[CHOOSE i \in Occurs(text, k) : TRUE][2]]

\* Mutant: only what precedes the first setting is regenerated.
RefreshPrefixed(text) ==
  LET settings == SettingsOf(text)
  IN IF settings = <<>> THEN text ELSE <<Preamble>> \o text \o <<Reference>>

\* refresh_comment_block, and the text itself where it answers None.
RefreshCommentBlock(text) ==
  LET settings == SettingsOf(text)
  IN IF settings = <<>> THEN text ELSE <<Preamble>> \o settings \o <<Reference>>

StarterFile == <<Preamble, Schema, Reference>>

\* update_file: the line of the key, or a new one after the last setting.
UpdateLine(text, k, v) ==
  LET at == Occurs(text, k)
      last == CHOOSE n \in 0..Len(text) : /\ \A j \in (n + 1)..Len(text) : ~IsSetting(text[j])
                                          /\ n > 0 => IsSetting(text[n])
  IN IF at # {} THEN [i \in DOMAIN text |-> IF i \in at THEN Setting(k, v) ELSE text[i]]
     ELSE SubSeq(text, 1, last) \o <<Setting(k, v)>> \o SubSeq(text, last + 1, Len(text))

-----------------------------------------------------------------------------

VARIABLES
  file,     \* config.toml: a text, or Absent
  legacy,   \* the file under the product's old name
  loader,   \* per process: pc, the text it holds to write, the one it loaded,
            \* what the user wanted when it looked, whether it has the file
            \* of this name open for writing, and the row it is saving
  mine,     \* history: what the user has set, by any means
  noted,    \* history: the user saved a comment between two settings
  disturbed,  \* history: a write was computed from what the user has since
            \* changed, or from a file another process had just emptied, a
            \* process died half way through one, or the user deleted the file
            \* while a legacy one was there to be adopted
  saves, crashes

fileVars == <<file, legacy, loader, mine, noted, disturbed, saves, crashes>>

At(p, pc) == loader[p].pc = pc
Become(p, pc) == [loader EXCEPT ![p].pc = pc]
NoRow == <<>>
Loader(pc, text, base, row) == [pc |-> pc, text |-> text, base |-> base, fd |-> FALSE, row |-> row]
Hold(p, pc, text) == [loader EXCEPT ![p] = Loader(pc, text, mine, NoRow)]
\* Another file takes the name: who is writing, writes to the one that had it.
Replaced(loaders) == [p \in Loaders |-> [loaders[p] EXCEPT !.fd = FALSE]]

UserFiles ==
  { <<Note>>, <<Schema, Stale>> }
    \cup { <<Preamble, Setting(k, v), Stale>> : k \in Settable, v \in Levels }
    \cup { <<Setting(k, v), Note, Schema>> : k \in Settable, v \in Levels }

\* A comment of the user's between two settings.
Interleaved(text) == text # Absent /\ Len(text) = 3 /\ text[2] = Note

FileInit ==
  /\ file \in {Absent} \cup UserFiles
  /\ legacy \in {Absent} \cup {<<Setting(k, v)>> : k \in Settable, v \in Levels} \cup {<<Junk>>}
  /\ loader = [p \in Loaders |-> Loader("out", <<>>, <<>>, NoRow)]
  /\ mine = Says(IF file # Absent THEN file
                 ELSE IF legacy # Absent /\ Parses(legacy) THEN legacy ELSE <<>>)
  /\ noted = Interleaved(file)
  /\ disturbed = FALSE /\ saves = 0 /\ crashes = 0

\* Mutant: the copy is made without the file having been looked for.
AdoptAlways(p) ==
  /\ At(p, "out")
  /\ loader' = Hold(p, IF legacy # Absent /\ Parses(legacy) THEN "copy" ELSE "read",
                     IF legacy # Absent THEN legacy ELSE <<>>)
  /\ UNCHANGED <<file, legacy, mine, noted, disturbed, saves, crashes>>

\* adopt_legacy_config: only when there is no file yet, and only a legacy one
\* that parses. The check and the copy are two steps.
AdoptLegacy(p) ==
  /\ At(p, "out")
  /\ loader' = Hold(p, IF file = Absent /\ legacy # Absent /\ Parses(legacy) THEN "copy" ELSE "read",
                     IF legacy # Absent THEN legacy ELSE <<>>)
  /\ UNCHANGED <<file, legacy, mine, noted, disturbed, saves, crashes>>

\* Mutant: a file with no setting in it is taken for one that is not there.
ReadEmptyAsMissing(p) ==
  /\ At(p, "read")
  /\ loader' = IF file = Absent \/ SettingsOf(file) = <<>> THEN Hold(p, "write", StarterFile)
               ELSE Hold(p, IF RefreshCommentBlock(file) = file THEN "loaded" ELSE "write",
                         RefreshCommentBlock(file))
  /\ UNCHANGED <<file, legacy, mine, noted, disturbed, saves, crashes>>

\* The file is read, and written again when its comments are out of date or
\* when it is not there.
ReadFile(p) ==
  /\ At(p, "read")
  /\ loader' = IF file = Absent THEN Hold(p, "write", StarterFile)
               ELSE Hold(p, IF RefreshCommentBlock(file) = file THEN "loaded" ELSE "write",
                         RefreshCommentBlock(file))
  /\ UNCHANGED <<file, legacy, mine, noted, disturbed, saves, crashes>>

\* fs::write: the file is truncated, then filled. Two writers lie over each
\* other.
Truncate(p) ==
  /\ loader[p].pc \in {"copy", "write"}
  /\ file' = <<>>
  /\ disturbed' = (disturbed \/ mine # loader[p].base)
  /\ loader' = [loader EXCEPT ![p].fd = TRUE, ![p].pc = IF At(p, "copy") THEN "copying" ELSE "writing"]
  /\ UNCHANGED <<legacy, mine, noted, saves, crashes>>

Fill(p) ==
  /\ loader[p].pc \in {"copying", "writing"}
  /\ LET text == loader[p].text
     IN file' = IF loader[p].fd THEN text \o SubSeq(file, Len(text) + 1, Len(file)) ELSE file
  /\ disturbed' = (disturbed \/ (loader[p].fd /\ mine # loader[p].base))
  /\ loader' = Become(p, IF At(p, "copying") THEN "read" ELSE "loaded")
  /\ UNCHANGED <<legacy, mine, noted, saves, crashes>>

\* ensure_user_config is called again at every reload.
LoadAgain(p) ==
  /\ At(p, "loaded")
  /\ loader' = Become(p, "out")
  /\ UNCHANGED <<file, legacy, mine, noted, disturbed, saves, crashes>>

\* A process has emptied the file and not filled it yet.
Torn == \E p \in Loaders : loader[p].fd /\ loader[p].pc \in {"copying", "writing"}

\* write_setting of the menu, up to the rename of the temporary file. A file
\* that is not there is read as an empty one.
MenuReads(k, v) ==
  /\ At(DaemonProc, "loaded") /\ saves < MaxSaves
  /\ LET text == IF file = Absent THEN <<>> ELSE file
     IN /\ Parses(text) /\ UpdateLine(text, k, v) # text
        /\ loader' = [loader EXCEPT ![DaemonProc] = Loader("rename", UpdateLine(text, k, v), mine, <<k, v>>)]
  /\ disturbed' = (disturbed \/ Torn)
  /\ saves' = saves + 1
  /\ UNCHANGED <<file, legacy, mine, noted, crashes>>

\* What the user has set once the row is clicked.
WithRow(m, row) == [k \in DOMAIN m \cup {row[1]} |-> IF k = row[1] THEN row[2] ELSE m[k]]

MenuRenames ==
  /\ At(DaemonProc, "rename")
  /\ file' = loader[DaemonProc].text
  /\ disturbed' = (disturbed \/ mine # loader[DaemonProc].base)
  /\ mine' = WithRow(mine, loader[DaemonProc].row)
  /\ loader' = Replaced(Become(DaemonProc, "out"))
  /\ UNCHANGED <<legacy, noted, saves, crashes>>

\* The user's editor replaces the file, or the user deletes it.
EditorSaves ==
  /\ saves < MaxSaves
  /\ file' \in UserFiles
  /\ mine' = Says(file')
  /\ noted' = Interleaved(file')
  /\ saves' = saves + 1
  /\ loader' = Replaced(loader)
  /\ UNCHANGED <<legacy, disturbed, crashes>>

FileDeleted ==
  /\ saves < MaxSaves /\ file # Absent
  /\ file' = Absent
  /\ mine' = Says(<<>>)
  /\ noted' = FALSE
  /\ disturbed' = (disturbed \/ legacy # Absent)
  /\ saves' = saves + 1
  /\ loader' = Replaced(loader)
  /\ UNCHANGED <<legacy, crashes>>

\* The process dies; what it had truncated stays truncated.
LoaderDies(p) ==
  /\ crashes < MaxCrashes
  /\ crashes' = crashes + 1
  /\ disturbed' = (disturbed \/ loader[p].pc \in {"copying", "writing"})
  /\ loader' = Become(p, "out")
  /\ UNCHANGED <<file, legacy, mine, noted, saves>>

FileNext ==
  \/ \E p \in Loaders : AdoptLegacy(p) \/ ReadFile(p) \/ Truncate(p) \/ Fill(p) \/ LoadAgain(p) \/ LoaderDies(p)
  \/ \E k \in Settable, v \in Levels : MenuReads(k, v)
  \/ MenuRenames \/ EditorSaves \/ FileDeleted

FileSpec == FileInit /\ [][FileNext]_fileVars

-----------------------------------------------------------------------------
(* What the configuration file promises its user                           *)

Writing == \E p \in Loaders : loader[p].pc \in {"copy", "copying", "writing"}

(* paths.rs, "every uncommented setting is the user's": whatever processes *)
(* adopt, refresh or rewrite the file at the same time, it ends up saying  *)
(* what the user has set, but for the four ways disturbed names (findings  *)
(* of their own).                                                          *)
SettingsSurvive ==
  ~Writing /\ ~disturbed /\ (file # Absent) => Says(file) = mine

(* A load leaves a file that the next load leaves alone: the refresh never *)
(* answers its own write with another one, which the watcher would turn    *)
(* into an endless chain of reloads.                                       *)
RefreshSettles ==
  \A p \in Loaders : At(p, "loaded") =>
    RefreshCommentBlock(loader[p].text) = loader[p].text

\* paths.rs:262, "A user who has interleaved their own comments among real
\* settings keeps them". Refuted: the refresh keeps settings only.
InterleavedCommentsKept ==
  noted /\ file # Absent /\ ~Writing /\ ~disturbed /\ saves = 0 => \E i \in DOMAIN file : file[i] = Note

(* The settings file is the user's, whoever writes it.                     *)
FileIsTheUsers == SettingsSurvive /\ RefreshSettles
=============================================================================
