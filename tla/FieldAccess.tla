---------------------------- MODULE FieldAccess ----------------------------
(***************************************************************************)
(* The text field under the keyboard as the accessibility interfaces show  *)
(* it: crates/ax-edit (macOS) and the UI Automation target of              *)
(* crates/text-target (Windows).  Every call is a message to another       *)
(* application, which may hang, build its tree only when asked, close the  *)
(* field or lose the focus between any two of them.                        *)
(***************************************************************************)
EXTENDS Naturals, Sequences, SequencesExt, FiniteSets

CONSTANTS
  MaxStirs,    \* bound: what happens to the desktop during a call
  MaxElements  \* bound: elements of a scanned tree

VARIABLES
  desk,     \* who has the focus, whose window is in front, and the permission
  fields,   \* each application's focused field
  probe,    \* the call under way and what it has read
  answer,   \* what the last call returned
  tree,     \* the elements of the application that is scanned
  stirs     \* history: the texts before the call, and who was disturbed since

accessVars == <<desk, fields, probe, answer, tree, stirs>>

Owners == {"a", "b"}
None == "none"
\* An attribute the element has not.
Absent == <<"absent">>
\* A character is named after the application it stands in; "r" is what is written.
PlainField(os, a) ==
  [there |-> TRUE,
   exposes |-> IF os = "windows" THEN {"text pattern", "value pattern"} ELSE {"value", "selected", "range", "count"},
   settable |-> {"value", "selected"}, batch |-> TRUE, asleep |-> FALSE, asked |-> FALSE, hung |-> FALSE, ranges |-> 1,
   text |-> <<a, a>>, from |-> 0, len |-> 1, late |-> None]
\* What a field may differ in.
Quirks(os) ==
  {<<"there", FALSE>>, <<"hung", TRUE>>, <<"len", 0>>, <<"len", 2>>, <<"settable", {}>>}
  \cup IF os = "windows"
       THEN {<<"exposes", x>> : x \in SUBSET {"text pattern", "value pattern"}} \cup {<<"ranges", n>> : n \in {0, 2}}
       ELSE {<<"exposes", x>> : x \in {{}, {"value"}, {"count"}, {"selected", "range"}}}
            \cup {<<"settable", {n}>> : n \in {"value", "selected"}} \cup {<<"batch", FALSE>>, <<"asleep", TRUE>>}

NoProbe == [op |-> None, pc |-> "done", app |-> None, title |-> None, value |-> Absent, selected |-> Absent,
            range |-> Absent, count |-> FALSE, way |-> None]
NoAnswer == [kind |-> None]
Failed(error) == [kind |-> "error", error |-> error]

Field(a) == fields[a]
Chosen(f) == SubSeq(f.text, f.from + 1, f.from + f.len)
Replaced(f, text) == SubSeq(f.text, 1, f.from) \o text \o SubSeq(f.text, f.from + f.len + 1, Len(f.text))
AsTheyAre == [a \in Owners |-> fields[a]]
Unstirred == [before |-> AsTheyAre, stirred |-> {}, silent |-> {}, fronts |-> {desk.front}, count |-> 0]

-----------------------------------------------------------------------------
(* A scanned tree: element 0 is the application, its children are windows. *)
Roles == {"field", "menu", "group"}
Trees == [parent : {p \in [1..MaxElements -> 0..(MaxElements - 1)] : \A n \in 1..MaxElements : p[n] < n},
          role : [1..MaxElements -> Roles], mute : 0..MaxElements, depth : 0..2]
ChildrenOf(t, n) == SelectSeq([i \in 1..MaxElements |-> i], LAMBDA c : t.parent[c] = n)
Elements(t) == 1..MaxElements
FlatTree == [parent |-> [n \in 1..MaxElements |-> 0], role |-> [n \in 1..MaxElements |-> "group"], mute |-> 0, depth |-> 0]
Aborted == <<[element |-> 0, path |-> <<>>]>>

\* Mutant: the walk goes on below a field and into menus.
CollectEverything(t) ==
  LET Below[n \in Elements(t), path \in Seq(Nat)] ==
        IF Len(path) - 1 > t.depth THEN <<>>
        ELSE LET kids == ChildrenOf(t, n)
             IN FlattenSeq(<<IF t.role[n] = "field" THEN <<[element |-> n, path |-> path]>> ELSE <<>>>>
                           \o [i \in DOMAIN kids |-> Below[kids[i], Append(path, i)]])
  IN [i \in DOMAIN ChildrenOf(t, 0) |-> Below[ChildrenOf(t, 0)[i], <<i>>]]

\* collect_text_fields: the elements found below one, each with its path.  An
\* element whose children cannot be had ends the scan with an error.
Collect(t) ==
  LET Below[n \in Elements(t), path \in Seq(Nat)] ==
        IF Len(path) - 1 > t.depth THEN <<>>
        ELSE IF t.role[n] = "field" THEN <<[element |-> n, path |-> path]>>
        ELSE IF t.role[n] = "menu" THEN <<>>
        ELSE IF t.mute = n THEN Aborted
        ELSE LET kids == ChildrenOf(t, n)
                 found == [i \in DOMAIN kids |-> Below[kids[i], Append(path, i)]]
             IN IF Aborted \in ToSet(found) THEN Aborted ELSE FlattenSeq(found)
  IN [i \in DOMAIN ChildrenOf(t, 0) |-> Below[ChildrenOf(t, 0)[i], <<i>>]]

\* find_text_fields.
Scan(t) ==
  LET found == Collect(t)
  IN IF Aborted \in ToSet(found) THEN Failed("not trusted")
     ELSE [kind |-> "scan", windows |-> Len(ChildrenOf(t, 0)), found |-> FlattenSeq(found)]

-----------------------------------------------------------------------------
(* One message to an application                                           *)

\* An application that does not answer within the timeout, and a process the
\* system does not let through, both end in kAXErrorCannotComplete or a kin of it.
Answers(a) == desk.allowed /\ ~Field(a).hung
\* is_settable is false when the question fails.
Settable(a, name) == Answers(a) /\ Field(a).there /\ name \in Field(a).settable

Calls == IF desk.os = "macos" THEN {"snapshot", "replace", "scan"}
         ELSE IF desk.os = "windows" THEN {"read", "selected", "insert", "overwrite"} ELSE {"snapshot", "replace", "scan", "read"}

Begin(op) ==
  /\ answer = NoAnswer /\ probe = NoProbe /\ op \in Calls
  /\ probe' = [NoProbe EXCEPT !.op = op, !.pc = "app"]
  /\ stirs' = Unstirred /\ UNCHANGED <<desk, fields, answer, tree>>

At(pc) == probe.pc = pc
Return(result) == answer' = result /\ probe' = [probe EXCEPT !.pc = "done"]

\* Everything is Unsupported where there is no such interface.
Unsupported ==
  /\ At("app") /\ desk.os = "linux"
  /\ Return(Failed("unsupported")) /\ UNCHANGED <<desk, fields, tree, stirs>>

-----------------------------------------------------------------------------
(* macOS                                                                   *)

\* Mutant: the owner of the front window is taken for the focused application.
FrontWindowFirst == IF desk.over # None THEN desk.over ELSE desk.front

\* frontmost_app_element: the system's word on the focus, else the owner of the
\* first ordinary window.
FrontmostApp == IF desk.route /\ desk.allowed /\ desk.front # None THEN desk.front ELSE desk.over

\* It asks a Chromium application for its tree as it goes.
ResolveApp ==
  /\ At("app") /\ desk.os = "macos" /\ probe.op # "scan"
  /\ IF FrontmostApp = None THEN Return(Failed("no focused element")) /\ UNCHANGED fields
     ELSE /\ probe' = [probe EXCEPT !.app = FrontmostApp, !.pc = IF probe.op = "snapshot" THEN "title" ELSE "focus"]
          /\ fields' = [fields EXCEPT ![FrontmostApp].asked = @ \/ Answers(FrontmostApp)]
          /\ UNCHANGED answer
  /\ UNCHANGED <<desk, tree, stirs>>

\* Mutant: the title is that of whoever is in front now.
TitleOfFront == desk.front
TitleOf == probe.app

\* app_title, bundle_id_for_element: a title that cannot be had is left out.
ReadTitle ==
  /\ At("title")
  /\ probe' = [probe EXCEPT !.title = IF Answers(probe.app) THEN TitleOf ELSE None, !.pc = "focus"]
  /\ UNCHANGED <<desk, fields, answer, tree, stirs>>

\* focused_in: whatever the trust of the process, a message that was not answered
\* is reported as missing permission.
ResolveFocused ==
  /\ At("focus")
  /\ IF ~Answers(probe.app) THEN Return(Failed("not trusted"))
     ELSE IF ~Field(probe.app).there \/ Field(probe.app).asleep THEN Return(Failed("no focused element"))
     ELSE probe' = [probe EXCEPT !.pc = IF probe.op = "snapshot" THEN "batch" ELSE "selection"] /\ UNCHANGED answer
  /\ UNCHANGED <<desk, fields, tree, stirs>>

\* copy_attribute: an attribute the element has not is no error.
WholeOf(f) == IF f.there /\ "value" \in f.exposes THEN f.text ELSE Absent
SelectedOf(f) == IF f.there /\ "selected" \in f.exposes THEN Chosen(f) ELSE Absent
RangeOf(f) == IF f.there /\ "range" \in f.exposes THEN <<f.from, f.len>> ELSE Absent

HasCount(a) == Field(a).there /\ "count" \in Field(a).exposes

\* Mutant: the attributes are read one after another.
NeverBatched(a) == FALSE
Batched(a) == Answers(a) /\ Field(a).batch

\* One round trip for all the attributes, or the way over each of them.
ReadBatch ==
  /\ At("batch")
  /\ probe' = IF Batched(probe.app)
              THEN [probe EXCEPT !.value = WholeOf(Field(probe.app)), !.selected = SelectedOf(Field(probe.app)),
                                 !.range = RangeOf(Field(probe.app)), !.count = HasCount(probe.app), !.pc = "settable"]
              ELSE [probe EXCEPT !.pc = "value"]
  /\ UNCHANGED <<desk, fields, answer, tree, stirs>>

ReadOne(pc, next) ==
  /\ At(pc)
  /\ IF ~Answers(probe.app) THEN Return(Failed("not trusted"))
     ELSE /\ probe' = CASE pc = "value" -> [probe EXCEPT !.value = WholeOf(Field(probe.app)), !.pc = next]
                        [] pc = "selected" -> [probe EXCEPT !.selected = SelectedOf(Field(probe.app)), !.pc = next]
                        [] pc = "range" -> [probe EXCEPT !.range = RangeOf(Field(probe.app)), !.pc = next]
                        [] pc = "count" -> [probe EXCEPT !.count = HasCount(probe.app), !.pc = next]
          /\ UNCHANGED answer
  /\ UNCHANGED <<desk, fields, tree, stirs>>

\* A field with no value, no selection and no length is no text field.
ReadSettable ==
  /\ At("settable")
  /\ IF probe.value = Absent /\ probe.selected = Absent /\ ~probe.count THEN Return(Failed("no text value"))
     ELSE Return([kind |-> "snapshot", app |-> probe.title, value |-> probe.value, selected |-> probe.selected,
                  range |-> probe.range, settable |-> {n \in {"value", "selected"} : Settable(probe.app, n)}])
  /\ UNCHANGED <<desk, fields, tree, stirs>>

IsSelectionEdit(snap) == snap.selected \notin {Absent, <<>>}
EditTarget(snap) == IF IsSelectionEdit(snap) THEN snap.selected ELSE snap.value
Strategy(snap) == IF "selected" \in snap.settable THEN "set-selected-text"
                  ELSE IF "value" \in snap.settable THEN "set-value" ELSE "clipboard-paste"

\* replace_focused: whether something is selected.
ReadSelection ==
  /\ At("selection")
  /\ IF ~Answers(probe.app) THEN Return(Failed("not trusted"))
     ELSE probe' = [probe EXCEPT !.selected = SelectedOf(Field(probe.app)), !.pc = "choose"] /\ UNCHANGED answer
  /\ UNCHANGED <<desk, fields, tree, stirs>>

\* Mutant: a field that is writable is written, selection or not.
WriteValueFirst(a, chosen) ==
  IF Settable(a, "value") THEN "value" ELSE IF Settable(a, "selected") THEN "selected" ELSE None

WayOfWriting(a, chosen) ==
  IF chosen \notin {Absent, <<>>} /\ Settable(a, "selected") THEN "selected"
  ELSE IF Settable(a, "value") THEN "value" ELSE None

ChooseWay ==
  /\ At("choose")
  /\ LET way == WayOfWriting(probe.app, probe.selected)
     IN IF way = None THEN Return(Failed("not settable"))
        ELSE probe' = [probe EXCEPT !.way = way, !.pc = "write"] /\ UNCHANGED answer
  /\ UNCHANGED <<desk, fields, tree, stirs>>

Written(f, way) == IF way = "selected" THEN [f EXCEPT !.text = Replaced(f, <<"r">>), !.from = @ + 1, !.len = 0]
                   ELSE [f EXCEPT !.text = <<"r">>, !.from = 1, !.len = 0]

\* A message that is not answered in time is not taken back: an application
\* that was busy carries it out when it is no longer.
WriteAttribute ==
  /\ At("write")
  /\ LET a == probe.app
     IN IF Answers(a) /\ Field(a).there
        THEN /\ fields' = [fields EXCEPT ![a] = Written(@, probe.way)]
             /\ Return([kind |-> "replaced", way |-> probe.way])
        ELSE /\ fields' = [fields EXCEPT ![a].late = IF desk.allowed /\ Field(a).there THEN probe.way ELSE None]
             /\ Return(Failed(IF Answers(a) THEN "api" ELSE "not trusted"))
  /\ UNCHANGED <<desk, tree, stirs>>

\* The application is named, not the one in front; it may not run.
ScanApp ==
  /\ At("app") /\ desk.os = "macos" /\ probe.op = "scan"
  /\ Return(IF desk.over = None THEN Failed("no focused element")
            ELSE IF ~desk.allowed THEN Failed("not trusted") ELSE Scan(tree))
  /\ UNCHANGED <<desk, fields, tree, stirs>>

-----------------------------------------------------------------------------
(* Windows: UiaTarget                                                      *)

ResolveUia ==
  /\ At("app") /\ desk.os = "windows"
  /\ IF ~desk.allowed \/ desk.front = None THEN Return(Failed("transport"))
     ELSE probe' = [probe EXCEPT !.app = desk.front, !.pc = "pattern"] /\ UNCHANGED answer
  /\ UNCHANGED <<desk, fields, tree, stirs>>

HasPattern(a, pattern) == Answers(a) /\ Field(a).there /\ pattern \in Field(a).exposes

\* Mutant: the first of several ranges is taken for the selection.
FirstRange(f) == IF f.ranges = 0 \/ f.len = 0 THEN Absent ELSE Chosen(f)
\* selected_text: only one range, and not an empty one.
OnlyRange(f) == IF f.ranges # 1 \/ f.len = 0 THEN Absent ELSE Chosen(f)

UiaSelected ==
  /\ At("pattern") /\ probe.op = "selected"
  /\ Return([kind |-> "selected",
             selected |-> IF HasPattern(probe.app, "text pattern") THEN OnlyRange(Field(probe.app)) ELSE Absent])
  /\ UNCHANGED <<desk, fields, tree, stirs>>

UiaRead ==
  /\ At("pattern") /\ probe.op = "read"
  /\ Return(IF \E p \in {"text pattern", "value pattern"} : HasPattern(probe.app, p)
            THEN [kind |-> "read", text |-> Field(probe.app).text] ELSE Failed("not readable"))
  /\ UNCHANGED <<desk, fields, tree, stirs>>

\* insert reads the value it will write back with the text behind it.
UiaCurrentValue ==
  /\ At("pattern") /\ probe.op \in {"insert", "overwrite"}
  /\ IF ~HasPattern(probe.app, "value pattern") THEN Return(Failed("unsupported"))
     ELSE /\ probe' = [probe EXCEPT !.value = IF probe.op = "insert" THEN Field(probe.app).text ELSE <<>>, !.pc = "set value"]
          /\ UNCHANGED answer
  /\ UNCHANGED <<desk, fields, tree, stirs>>

\* Mutant: the text goes in front of the value.
Prefixed(value) == <<"r">> \o value
Combined(value) == Append(value, "r")

UiaSetValue ==
  /\ At("set value")
  /\ LET a == probe.app
     IN IF Settable(a, "value")
        THEN /\ fields' = [fields EXCEPT ![a] = [@ EXCEPT !.text = Combined(probe.value), !.from = 0, !.len = 0]]
             /\ Return([kind |-> "replaced", way |-> "value"])
        ELSE Return(Failed("transport")) /\ UNCHANGED fields
  /\ UNCHANGED <<desk, tree, stirs>>

-----------------------------------------------------------------------------
(* The desktop, meanwhile                                                  *)

Stir(apps) ==
  /\ probe.pc \notin {"done", "app"} /\ stirs.count < MaxStirs
  /\ UNCHANGED <<probe, answer, tree>>
  /\ stirs' = [stirs EXCEPT !.stirred = @ \cup apps, !.count = @ + 1, !.fronts = @ \cup {desk'.front},
                            !.silent = @ \cup {a \in Owners : fields'[a].hung}]

SwitchFocus ==
  /\ desk' = [desk EXCEPT !.front = IF @ = "a" THEN "b" ELSE "a", !.over = IF desk.front = "a" THEN "b" ELSE "a"]
  /\ UNCHANGED fields /\ Stir({})
UserTypes(a) ==
  /\ Field(a).there /\ fields' = [fields EXCEPT ![a] = [@ EXCEPT !.text = Append(@, a), !.len = 0, !.from = 0]]
  /\ UNCHANGED desk /\ Stir({a})
UserMarks(a) ==
  /\ \E from \in 0..1, len \in 0..1 :
       /\ from + len <= Len(Field(a).text)
       /\ fields' = [fields EXCEPT ![a] = [@ EXCEPT !.from = from, !.len = len]]
  /\ UNCHANGED desk /\ Stir({a})
FieldCloses(a) ==
  /\ Field(a).there /\ fields' = [fields EXCEPT ![a].there = FALSE] /\ UNCHANGED desk /\ Stir({a})
Hangs(a) ==
  /\ ~Field(a).hung /\ fields' = [fields EXCEPT ![a].hung = TRUE] /\ UNCHANGED desk /\ Stir({})

\* What was left undone is done.
Recovers(a) ==
  /\ Field(a).hung
  /\ fields' = [fields EXCEPT ![a] = [(IF @.late # None /\ @.there THEN Written(@, @.late) ELSE @)
                                      EXCEPT !.hung = FALSE, !.late = None]]
  /\ UNCHANGED <<desk, probe, answer, tree, stirs>>
BuildsTree(a) ==
  /\ Field(a).asleep /\ Field(a).asked /\ fields' = [fields EXCEPT ![a].asleep = FALSE]
  /\ UNCHANGED <<desk, probe, answer, tree, stirs>>

AccessInit ==
  /\ desk \in [os : {"macos", "windows", "linux"}, front : {"a", None}, over : {"a", "b", None}, route : BOOLEAN,
               allowed : BOOLEAN]
  /\ desk.os # "macos" => desk.route /\ desk.over = desk.front
  /\ \E one, other \in Quirks(desk.os) :
       \* Where the focus is not to be had at once, one oddity of the field at a time is enough.
       /\ ~desk.allowed \/ ~desk.route \/ desk.front = None => one = other
       /\ fields = [x \in Owners |-> IF x = "b" THEN PlainField(desk.os, x)
                                     ELSE [[PlainField(desk.os, x) EXCEPT ![one[1]] = one[2]] EXCEPT ![other[1]] = other[2]]]
  /\ \/ /\ desk = [os |-> "macos", front |-> "a", over |-> "a", route |-> TRUE, allowed |-> TRUE]
        /\ fields["a"] = [PlainField("macos", "a") EXCEPT !.len = 0]
        /\ tree \in Trees
     \/ tree = FlatTree
  /\ probe = NoProbe /\ answer = NoAnswer /\ stirs = Unstirred

AccessNext ==
  \/ \E op \in {"snapshot", "replace", "scan", "read", "selected", "insert", "overwrite"} : Begin(op)
  \/ Unsupported \/ ResolveApp \/ ReadTitle \/ ResolveFocused \/ ReadBatch
  \/ ReadOne("value", "selected") \/ ReadOne("selected", "range") \/ ReadOne("range", "count") \/ ReadOne("count", "settable")
  \/ ReadSettable \/ ReadSelection \/ ChooseWay \/ WriteAttribute \/ ScanApp
  \/ ResolveUia \/ UiaSelected \/ UiaRead \/ UiaCurrentValue \/ UiaSetValue
  \/ SwitchFocus
  \/ \E a \in Owners : UserTypes(a) \/ UserMarks(a) \/ FieldCloses(a) \/ Hangs(a) \/ Recovers(a) \/ BuildsTree(a)

AccessSpec == AccessInit /\ [][AccessNext]_accessVars

-----------------------------------------------------------------------------
(* What it promises                                                        *)
Returned(kind) == answer.kind = kind
Unmeddled == probe.app \notin stirs.stirred
Before == stirs.before[probe.app]
Now == fields[probe.app]
OwnersIn(text) == IF text = Absent THEN {} ELSE ToSet(text) \ {"r"}

\* A snapshot never pairs one application's name with another's text, whoever
\* takes the focus between two of its messages; where the attributes can be had in
\* one message its parts fit each other; and with the system's word to go by it is of an application
\* that had the focus during the call.
SnapshotIsOfOneField ==
  Returned("snapshot") =>
    /\ OwnersIn(answer.value) \cup OwnersIn(answer.selected) \subseteq {probe.app}
    /\ answer.app \in {probe.app, None}
    /\ desk.route /\ None \notin stirs.fronts => probe.app \in stirs.fronts
    /\ /\ Unmeddled \/ (Before.batch /\ ~Before.hung /\ probe.app \notin stirs.silent)
       /\ Absent \notin {answer.value, answer.selected, answer.range}
       =>
         answer.selected = SubSeq(answer.value, answer.range[1] + 1, answer.range[1] + answer.range[2])

\* An edit is only read into the key when a text is selected, and then it is the
\* selected text and nothing of the rest.
EditNeedsASelection ==
  /\ Returned("snapshot") /\ IsSelectionEdit(answer) /\ Unmeddled =>
       Before.len > 0 /\ EditTarget(answer) = Chosen(Before)
  /\ Returned("selected") /\ answer.selected # Absent /\ Unmeddled =>
       Before.ranges = 1 /\ answer.selected = Chosen(Before) /\ answer.selected # <<>>

\* Writing touches the field of one application: what is not selected stays where
\* a selection can be written, and a field is only overwritten whole if nothing
\* is selected or its selection cannot be written; appending keeps what is there.
WritingKeepsTheRest ==
  probe.pc = "done" /\ answer # NoAnswer =>
    /\ \A a \in Owners \ (stirs.stirred \cup {probe.app}) : fields[a].text = stirs.before[a].text
    /\ Unmeddled /\ Returned("replaced") /\ desk.os = "macos" /\ Before.late = None =>
         \/ answer.way = "selected" /\ Before.len > 0 /\ Now.text = Replaced(Before, <<"r">>)
         \/ /\ answer.way = "value" /\ Now.text = <<"r">>
            /\ Before.len = 0 \/ "selected" \notin Before.exposes \cap Before.settable
    /\ Unmeddled /\ Returned("replaced") /\ desk.os = "windows" =>
         Now.text = (IF probe.op = "insert" THEN Before.text ELSE <<>>) \o <<"r">>
    /\ Unmeddled /\ Returned("error") /\ probe.app # None /\ probe.app \notin stirs.silent => Now.text = Before.text

\* Permission is only blamed when it is missing, or when an application did not
\* answer; and without it nothing is read or written.
BlameIsFair ==
  /\ Returned("error") /\ answer.error = "not trusted" /\ probe.op # "scan" =>
       ~desk.allowed \/ probe.app \in stirs.silent \/ Before.hung
  /\ ~desk.allowed => answer.kind \in {None, "error"}

\* Parents of an element, itself left out.
Above(n) == LET up[m \in 0..MaxElements] == IF m = 0 THEN {} ELSE {tree.parent[m]} \cup up[tree.parent[m]]
            IN up[n] \ {0}
Reached(path) ==
  LET at[i \in 0..Len(path)] == IF i = 0 THEN 0 ELSE ChildrenOf(tree, at[i - 1])[path[i]] IN at[Len(path)]

\* A scan finds every field that is neither too deep nor inside a menu or another
\* field, each once, by a path that leads to it; and it counts the windows, so
\* that an application with none is not taken for one without fields.
ScanFindsTheFields ==
  Returned("scan") =>
    /\ {answer.found[i].element : i \in DOMAIN answer.found} =
         {n \in Elements(tree) : /\ tree.role[n] = "field" /\ Cardinality(Above(n)) <= tree.depth
                                 /\ \A m \in Above(n) : tree.role[m] = "group"}
    /\ \A i, j \in DOMAIN answer.found : answer.found[i].element = answer.found[j].element => i = j
    /\ \A i \in DOMAIN answer.found : Reached(answer.found[i].path) = answer.found[i].element
    /\ answer.windows = Cardinality({n \in Elements(tree) : tree.parent[n] = 0})

FieldsAreReadRight ==
  /\ SnapshotIsOfOneField /\ EditNeedsASelection /\ WritingKeepsTheRest /\ BlameIsFair /\ ScanFindsTheFields
=============================================================================
