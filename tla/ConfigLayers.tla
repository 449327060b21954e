---------------------------- MODULE ConfigLayers ----------------------------
(***************************************************************************)
(* crates/config: what value a setting has.  Five layers, each of which    *)
(* may set it: built-in default, system file, user file, the profile of    *)
(* the application in front, environment.  A document maps every key to    *)
(* what it says of it: a value, Unset, or Bad (a value of the wrong type   *)
(* or out of range, or misspelled beyond use); Broken is a document that   *)
(* is not TOML.                                                            *)
(***************************************************************************)
EXTENDS Naturals, Sequences, FiniteSets

CONSTANTS
  Keys, Values,
  Default,      \* the built-in value of every key
  Unset, Bad, Broken

ASSUME ConfigAssumption == Default \in Values /\ {Unset, Bad, Broken} \cap Values = {}

Documents == [Keys -> Values \cup {Unset, Bad}] \cup {Broken}

-----------------------------------------------------------------------------
(* profile.rs                                                              *)

MatcherKinds == {"bundle-id", "process-name", "window-class"}
Specificity(kind) == CASE kind = "bundle-id" -> 3 [] kind = "process-name" -> 2 [] OTHER -> 1

\* A pattern is a stem, open at the end when it is starred. Case is ignored.
BeginsWith(s, prefix) == Len(prefix) <= Len(s) /\ SubSeq(s, 1, Len(prefix)) = prefix
PatternMatches(pattern, actual) ==
  IF pattern.star THEN BeginsWith(actual, pattern.stem) ELSE actual = pattern.stem

\* An application may lack any of the three names; a profile that asks for
\* one it lacks does not match.
MatchesApp(profile, app) ==
  profile.kind \in DOMAIN app /\ PatternMatches(profile.pattern, app[profile.kind])

RankOf(profile) ==
  <<Specificity(profile.kind), IF profile.pattern.star THEN 0 ELSE 1, Len(profile.pattern.stem)>>

\* Tuples of three compare from the left.
Outranks(a, b) ==
  \/ a[1] > b[1]
  \/ a[1] = b[1] /\ a[2] > b[2]
  \/ a[1] = b[1] /\ a[2] = b[2] /\ a[3] > b[3]

\* select: the set of the one winner, empty when nothing matches. Profiles do
\* not stack, and among equals the earlier one wins.
SelectProfile(profiles, app) ==
  LET matching == {i \in DOMAIN profiles : MatchesApp(profiles[i], app)}
  IN {i \in matching : \A j \in matching \ {i} :
        \/ Outranks(RankOf(profiles[i]), RankOf(profiles[j]))
        \/ ~Outranks(RankOf(profiles[j]), RankOf(profiles[i])) /\ i < j}

-----------------------------------------------------------------------------
(* validate.rs                                                             *)

\* patterns_overlap, by the four cases of one or the other being starred.
PatternsOverlap(a, b) ==
  \/ ~a.star /\ ~b.star /\ a.stem = b.stem
  \/ a.star /\ ~b.star /\ BeginsWith(b.stem, a.stem)
  \/ ~a.star /\ b.star /\ BeginsWith(a.stem, b.stem)
  \/ a.star /\ b.star /\ (BeginsWith(a.stem, b.stem) \/ BeginsWith(b.stem, a.stem))

\* Mutant: the longer pattern is announced, starred or not.
LongerIsAnnounced(a, b) == Len(b.stem) <= Len(a.stem)

\* The first of two overlapping patterns is announced as the winner: exact
\* over starred, then longer over shorter, then the order in the file.
FirstIsAnnounced(a, b) ==
  IF a.star # b.star THEN ~a.star ELSE Len(b.stem) <= Len(a.stem)

\* report_overlaps: the warnings of one document, as <<winner, loser>>.
ReportOverlaps(profiles) ==
  { IF FirstIsAnnounced(profiles[p[1]].pattern, profiles[p[2]].pattern) THEN p ELSE <<p[2], p[1]>> :
    p \in {q \in (1..Len(profiles)) \X (1..Len(profiles)) :
             /\ q[1] < q[2] /\ profiles[q[1]].kind = profiles[q[2]].kind
             /\ PatternsOverlap(profiles[q[1]].pattern, profiles[q[2]].pattern)} }

\* check_setting: what is of the type of the setting (coerce) and in its range
\* (Constraint::check) is kept; what is not becomes a warning.
ValidValues(doc) == [k \in {j \in Keys : doc[j] \in Values} |-> doc[k]]
Warned(doc) == {k \in Keys : doc[k] = Bad}

-----------------------------------------------------------------------------
(* layers.rs                                                               *)

\* A variable may be set under the new prefix and under the old one. The old
\* one is looked at only when the new one is not set at all.
EnvValue(env, k) == IF env.new[k] # Unset THEN env.new[k] ELSE env.old[k]

\* A variable is a string; parse_env reads it by the type of the setting, and
\* what it cannot read or Constraint::check refuses is left out.
EnvValues(env) == [k \in {j \in Keys : EnvValue(env, j) \in Values} |-> EnvValue(env, k)]

\* Mutant: the system file after the user's.
SystemLast(system, user, env) ==
  << [k \in Keys |-> Default], ValidValues(user), ValidValues(system), EnvValues(env) >>

\* Config::build, lowest layer first. A file that is not there has no values.
LayerStack(system, user, env) ==
  << [k \in Keys |-> Default], ValidValues(system), ValidValues(user), EnvValues(env) >>

\* A file that is not TOML fails the whole build, whichever file it is.
Builds(system, user) == system # Broken /\ user # Broken

\* Mutant: the profile above everything.
WithProfileLast(layers, overrides) == Append(layers, overrides)

\* get_for puts the winning profile just below the environment.
WithProfile(layers, overrides) ==
  SubSeq(layers, 1, Len(layers) - 1) \o <<overrides>> \o SubSeq(layers, Len(layers), Len(layers))

\* The layers that set key k, lowest first, and the value of the last one.
Hits(layers, k) == {i \in DOMAIN layers : k \in DOMAIN layers[i]}
GetFor(layers, k) == layers[CHOOSE i \in Hits(layers, k) : \A j \in Hits(layers, k) : j <= i][k]

\* update_file: one key of a document, or refusal of one that is not TOML.
UpdateFile(doc, k, v) == IF doc = Broken THEN Broken ELSE [doc EXCEPT ![k] = v]

-----------------------------------------------------------------------------
(* The files and the application in front                                  *)

VARIABLES
  system, user,   \* the two documents, as they are on disk
  env,            \* the variables of the new and of the old prefix
  profiles,       \* the profiles of the documents, in file order
  app             \* the names of the application in front

layerVars == <<system, user, env, profiles, app>>

Stacked(theUser) == LayerStack(system, theUser, env)

Effective(theUser, k) ==
  LET base == Stacked(theUser)
      won == SelectProfile(profiles, app)
  IN GetFor(IF won = {} THEN base
            ELSE WithProfile(base, ValidValues(profiles[CHOOSE i \in won : TRUE].overrides)), k)

Nothing == [k \in Keys |-> Unset]
Stems == UNION {[1..n -> {"a", "b"}] : n \in 1..2}
Profiles == [kind : MatcherKinds, pattern : [stem : Stems, star : BOOLEAN], overrides : {Nothing}]
Apps == UNION {[kinds -> {<<"a">>, <<"a", "b">>}] : kinds \in SUBSET MatcherKinds}

LayersInit ==
  \/ /\ profiles \in {<<>>} \cup {<<[kind |-> "bundle-id", pattern |-> [stem |-> <<"a">>, star |-> FALSE],
                                     overrides |-> o]>> : o \in Documents \ {Broken}}
     /\ app = [k \in {"bundle-id"} |-> <<"a">>]
     /\ system \in Documents /\ user \in Documents
     /\ env \in [new : {Nothing} \cup [Keys -> {CHOOSE v \in Values : v # Default, Bad}], old : [Keys -> {Unset, Default}]]
  \/ /\ profiles \in Profiles \X Profiles /\ app \in Apps
     /\ system = Nothing /\ user = Nothing
     /\ env = [new |-> Nothing, old |-> Nothing]

\* The menu writes one key of the user file, or the user edits it.
MenuSet ==
  /\ \E k \in Keys, v \in Values : user' = UpdateFile(user, k, v)
  /\ UNCHANGED <<system, env, profiles, app>>

LayersNext == MenuSet

LayersSpec == LayersInit /\ [][LayersNext]_layerVars

-----------------------------------------------------------------------------
(* What the configuration promises                                         *)

(* docs/configuration.md, layers.rs: a setting is what the environment     *)
(* says, else the profile of the application, else the user's file, else   *)
(* the system's, else the default; a value that is not valid counts as     *)
(* not said and never hides a valid one below it.                          *)
FirstValidLayerWins ==
  Builds(system, user) =>
    \A k \in Keys :
      LET mine == IF SelectProfile(profiles, app) = {} THEN Unset
                  ELSE profiles[CHOOSE i \in SelectProfile(profiles, app) : TRUE].overrides[k]
          said == <<EnvValue(env, k), mine, user[k], system[k], Default>>
          first == CHOOSE i \in 1..5 : said[i] \in Values /\ \A j \in 1..(i - 1) : said[j] \notin Values
      IN Effective(user, k) = said[first]

(* The overlap warning tells the user which of two profiles applies; that  *)
(* is the one select picks for every application both of them match, and   *)
(* every pair that can match one application is warned of.                 *)
AnnouncedProfileWins ==
  Len(profiles) = 2 /\ profiles[1].kind = profiles[2].kind
    /\ MatchesApp(profiles[1], app) /\ MatchesApp(profiles[2], app)
    => \E p \in ReportOverlaps(profiles) : SelectProfile(profiles, app) = {p[1]}

(* A row clicked in the menu is what the program then does, unless the     *)
(* environment or a profile says otherwise, and it moves no other setting. *)
MenuWriteTakesEffect ==
  [][Builds(system, user) =>
       \A k \in Keys :
         /\ user'[k] = user[k] => Effective(user', k) = Effective(user, k)
         /\ user'[k] # user[k] =>
              \/ Effective(user', k) = user'[k]
              \/ EnvValue(env, k) \in Values
              \/ \E i \in DOMAIN profiles : profiles[i].overrides[k] \in Values]_layerVars

(* Whoever sets a value, in a layer, a profile or the menu, gets it where  *)
(* nothing above says otherwise.                                           *)
LayersAgree == [](FirstValidLayerWins /\ AnnouncedProfileWins) /\ MenuWriteTakesEffect
=============================================================================
