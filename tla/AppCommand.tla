----------------------------- MODULE AppCommand -----------------------------
(***************************************************************************)
(* crates/app-command behind `outloud --command`: the applications of this *)
(* machine are listed, the phrase is parsed, its name resolved to one of   *)
(* them or refused, and the launcher called.  Names are sequences of words   *)
(* and the words a small vocabulary with prefixes; how alike two words     *)
(* sound is any score.                                                     *)
(***************************************************************************)
EXTENDS Naturals, Sequences, SequencesExt, FiniteSets

CONSTANT MaxPhrase   \* bound: words of a phrase

VARIABLES
  installed,      \* the application entries, by directory and file name
  launcher,  \* how gio answers: "ok", "fails", or "absent", then gtk-launch is tried
  sounds,    \* how alike the spoken name and each name are, in hundredths
  request,   \* the words that were said
  known,     \* the registry: the applications a phrase can mean
  reply,     \* what parse made of the phrase
  started,   \* the file that was started, or none
  status     \* how the program ended: "running", 0, or 1

commandVars == <<installed, launcher, sounds, request, known, reply, started, status>>

\* Which word begins with which, and which only contains it.
Begins(w, p) == w = p \/ <<w, p>> \in {<<"firefox", "fire">>, <<"firewall", "fire">>}
Holds(w, p) == Begins(w, p) \/ <<w, p>> = <<"wildfire", "fire">>
Verbs == {<<"open">>, <<"switch", "to">>, <<"switch", "back", "to">>}
NoApp == [name |-> <<>>, file |-> <<>>]
-----------------------------------------------------------------------------
(* discover: hidden entries are left out, and of two with one name the one *)
(* in the earlier directory is kept, any of them within a directory.       *)
Earliest(apps) == {a \in apps : \A b \in apps : b.name = a.name => a.dir <= b.dir}
\* Mutant: a hidden entry is listed.
DiscoverHidden(entries) == {r \in SUBSET Earliest(entries) : \A e \in entries : Cardinality({a \in r : a.name = e.name}) = 1}
Discover(entries) ==
  LET shown == {e \in entries : e.shown}
  IN {r \in SUBSET Earliest(shown) : \A e \in shown : Cardinality({a \in r : a.name = e.name}) = 1}

(* parse.                                                                  *)
Polite(words) == IF Len(words) > 1 /\ Head(words) = "please" THEN Tail(words) ELSE words
\* Mutant: a verb in the middle of a sentence counts.
RestAfterAny(words) == {SubSeq(words, x[1] + Len(x[2]), Len(words)) : x \in
                          {y \in (1..Len(words)) \X Verbs : IsPrefix(y[2], SubSeq(words, y[1], Len(words)))}}
RestAfterVerb(words) == {SubSeq(words, Len(v) + 1, Len(words)) : v \in {x \in Verbs : IsPrefix(x, words)}}
Article(words) == IF Len(words) > 1 /\ Head(words) = "the" THEN Tail(words) ELSE words

(* resolve: exactly, then at the start of a word, then by ear; what is one *)
(* of several is refused.                                                  *)
Exact(spoken, apps) == {a \in apps : a.name = spoken}
StartsAt(name, i, spoken) ==
  /\ i + Len(spoken) - 1 <= Len(name)
  /\ \A j \in 1..Len(spoken) : IF j < Len(spoken) THEN name[i + j - 1] = spoken[j] ELSE Begins(name[i + j - 1], spoken[j])
WordPrefix(spoken, apps) ==
  {a \in apps : StartsAt(a.name, 1, spoken) \/ (Len(spoken) = 1 /\ \E w \in ToSet(a.name) : Begins(w, spoken[1]))}
HoldsName(name, spoken) ==
  \/ \E i \in 1..Len(name) : StartsAt(name, i, spoken)
  \/ Len(spoken) = 1 /\ \E w \in ToSet(name) : Holds(w, spoken[1])
ByEar(spoken, apps) == {a \in apps : ~HoldsName(a.name, spoken) /\ sounds[a.name] >= 72}
Clear(a, apps) == \A b \in apps \ {a} : sounds[a.name] > sounds[b.name] + 8

\* Mutant: the best of several is taken.
ResolveBest(spoken, apps) ==
  LET all == Exact(spoken, apps) \cup WordPrefix(spoken, apps) \cup ByEar(spoken, apps)
  IN IF all = {} THEN [kind |-> "unknown app", app |-> NoApp] ELSE [kind |-> "launch", app |-> CHOOSE a \in all : TRUE]
ResolveApp(spoken, apps) ==
  LET exact == Exact(spoken, apps)
      prefix == WordPrefix(spoken, apps)
      ear == ByEar(spoken, apps)
      only(s) == [kind |-> "launch", app |-> CHOOSE a \in s : TRUE]
  IN IF Cardinality(exact) = 1 THEN only(exact)
     ELSE IF Cardinality(prefix) = 1 THEN only(prefix)
     ELSE IF Cardinality(prefix) > 1 THEN [kind |-> "ambiguous", app |-> NoApp]
     ELSE IF ear = {} THEN [kind |-> "unknown app", app |-> NoApp]
     ELSE IF \E a \in ear : Clear(a, ear) THEN only({a \in ear : Clear(a, ear)})
     ELSE [kind |-> "ambiguous", app |-> NoApp]

ParseCommand(words, apps) ==
  LET rest == RestAfterVerb(Polite(words))
      name == Article(CHOOSE r \in rest : TRUE)
  IN IF rest = {} THEN [kind |-> "not a command", app |-> NoApp]
     ELSE IF name \in {<<>>, <<"the">>} THEN [kind |-> "no app named", app |-> NoApp]
     ELSE IF apps = {} THEN [kind |-> "no registry", app |-> NoApp]
     ELSE ResolveApp(name, apps)
-----------------------------------------------------------------------------
AppNames == {<<"firefox">>, <<"firewall">>, <<"fire", "fox">>, <<"wildfire">>}
Entries == [dir : {1, 2}, file : {"one", "two"}, name : AppNames, shown : BOOLEAN]
\* One entry for a file of a directory.
Disks == {d \in {{a, b} : a, b \in Entries} : \A x, y \in d : x.dir = y.dir /\ x.file = y.file => x = y}
SomeDisks == {{}, {[dir |-> 1, file |-> "one", name |-> <<"firefox">>, shown |-> TRUE],
                   [dir |-> 2, file |-> "two", name |-> <<"wildfire">>, shown |-> TRUE]}}
Phrases == UNION {[1..n -> {"please", "open", "switch", "to", "the", "fire", "firefox"}] : n \in 1..MaxPhrase}

\* Every phrase on a few machines, a few phrases on every machine.
CommandInit ==
  /\ \/ request \in Phrases /\ installed \in SomeDisks /\ launcher = "ok" /\ sounds = [n \in AppNames |-> 50]
     \/ /\ request \in {<<"open", "fire">>, <<"open", "firefox">>, <<"open", "the", "fyre">>}
        /\ installed \in Disks /\ launcher \in {"ok", "fails", "absent"}
        /\ sounds \in [AppNames -> {50, 75, 90}] /\ \A n \in AppNames : (\A e \in installed : e.name # n) => sounds[n] = 50
  /\ known = {} /\ reply = [kind |-> "none", app |-> NoApp] /\ started = NoApp /\ status = "running"

DiscoverApps ==
  /\ status = "running" /\ reply.kind = "none"
  /\ known' \in Discover(installed)
  /\ reply' = ParseCommand(request, known')
  /\ status' = IF reply'.kind = "launch" THEN "running" ELSE "1"
  /\ UNCHANGED <<installed, launcher, sounds, request, started>>

\* The application goes while it is being named.
Uninstall ==
  /\ status = "running" /\ reply.kind = "launch"
  /\ \E e \in installed : installed' = installed \ {e}
  /\ UNCHANGED <<launcher, sounds, request, known, reply, started, status>>

\* gio is told the path; gtk-launch only the name of the file, and looks for it itself.
Reached(app) ==
  IF launcher = "ok" THEN {e \in installed : e.dir = app.dir /\ e.file = app.file}
  ELSE IF launcher = "absent" THEN {e \in installed : e.file = app.file /\ \A o \in installed : o.file = app.file => e.dir <= o.dir}
  ELSE {}

\* Mutant: the launcher's exit code is not looked at.
Unlooked(found) == "0"
\* check: an exit code other than zero is an error.
ExitCode(found) == IF found = {} THEN "1" ELSE "0"

Launch ==
  /\ status = "running" /\ reply.kind = "launch"
  /\ LET found == Reached(reply.app)
     IN /\ started' = IF found = {} THEN NoApp ELSE CHOOSE e \in found : TRUE
        /\ status' = ExitCode(found)
  /\ UNCHANGED <<installed, launcher, sounds, request, known, reply>>

CommandNext == DiscoverApps \/ Uninstall \/ Launch
CommandSpec == CommandInit /\ [][CommandNext]_commandVars
-----------------------------------------------------------------------------
(* lib.rs: a phrasing that could mean two things must not parse.  What is  *)
(* launched is on the list and visible, the phrase begins with the verb    *)
(* and ends with the name, and no other name on the list fits as well.     *)
OneMeaning ==
  reply.kind = "launch" =>
    LET app == reply.app
        said == Polite(request)
        begun == {v \in Verbs : IsPrefix(v, said)}
        verb == CHOOSE v \in begun : TRUE
        name == Article(SubSeq(said, Len(verb) + 1, Len(said)))
    IN /\ app \in known /\ app.shown /\ begun # {}
       /\ \A other \in known \ {app} :
            /\ app.name # name => other.name # name
            /\ WordPrefix(name, {app}) = {} => WordPrefix(name, {other}) = {}
            /\ app.name # name /\ WordPrefix(name, {app}) # {} => WordPrefix(name, {other}) = {}
            /\ WordPrefix(name, {app}) = {} => sounds[app.name] >= 72 /\ (HoldsName(other.name, name) \/ sounds[other.name] < sounds[app.name])

(* launch.rs: what is started is the file that was listed, when gio is     *)
(* there to be told its path; gtk-launch starts that or another of the     *)
(* same file name.  Success is said only of a launch that took place.      *)
StartsTheNamedOne ==
  /\ started # NoApp => /\ started.file = reply.app.file
                        /\ launcher = "ok" => started = reply.app
  /\ status = "0" => started # NoApp
  /\ status = "1" => started = NoApp

(* launch.rs:224 says that gtk-launch is not used because it cannot tell   *)
(* two entries of one file name apart.  It is used where there is no gio,  *)
(* and then starts an application nobody named.                            *)
NeverAnotherOne == started # NoApp => started = reply.app

CommandsDoWhatTheySay == OneMeaning /\ StartsTheNamedOne
=============================================================================
