------------------------------- MODULE MCHost -------------------------------
(***************************************************************************)
(* The parts of the program around the supervisor that share no state with *)
(* one another: the shell bridge and its plugin, the undo ring, the        *)
(* settings layers and the settings file, the grammar of the spoken edits  *)
(* and the edits on a text, the spoken commands, the rewriting of a        *)
(* selection and the word list.  A behaviour is of one of them (part), so  *)
(* that their states add up and do not multiply; the others rest in one    *)
(* state.                                                                  *)
(***************************************************************************)
EXTENDS ShellBridge, UndoRing, ConfigLayers, ConfigFile, EditIntent, AppCommand, Rewrite, WordList

VARIABLE part

otherVars == <<commandVars, rewriteVars, wordListVars>>
hostVars == <<part, bridgeVars, rcFile, undoVars, layerVars, fileVars, phrase, typed, otherVars>>

\* The words that are said, in longer phrases too, and what is typed.
Spoken == {"undo", "this", "delete", "add", "in", "the", "first", "last", "word", "line", "comma",
           "after", "wrap", "quotes", "snake case", "join", "two", "bullet", "uppercase",
           "capitalize", "change", "to", "x", "scratch", "everything", "before"}
SpokenOften == {"the", "first", "last", "word", "line", "uppercase", "add", "comma", "after", "delete"}
Abbr == {<<"a", "a">>}

(* One state in which each of them rests.                                  *)
BridgeAsleep == line = [text |-> <<>>, cursor |-> 0, shell |-> "bash"] /\ BridgeInit
LayersAsleep == /\ system = Broken /\ user = Nothing /\ profiles = <<>>
                /\ env = [new |-> Nothing, old |-> Nothing]
                /\ app = [k \in {"bundle-id"} |-> <<"a">>]
FileAsleep == file = Absent /\ legacy = Absent /\ FileInit
CommandAsleep ==
  /\ installed = {} /\ request = <<"open">> /\ launcher = "ok" /\ sounds = [n \in AppNames |-> 50]
  /\ known = {} /\ reply = [kind |-> "none", app |-> NoApp] /\ started = NoApp /\ status = "running"
RewriteAsleep ==
  uttered = <<"we">> /\ selection = 0 /\ raw = <<>> /\ disposition = NotYet /\ offered = NotYet
WordListAsleep ==
  /\ sets = [a |-> <<>>, b |-> <<>>] /\ named = <<>> /\ said = <<>> /\ spellings = <<<<>>, <<>>>>
  /\ loaded = NoEntries /\ corrected = Uncorrected

\* A legacy file of every kind where there is no other, and of one kind where there is.
OneLegacyFile == file # Absent => legacy = <<Setting("k1", "v1")>>
\* What is set at first is one value of one key: the others are like it.
OneSetting == \A f \in {file, legacy} \ {Absent} : KeysIn(f) \cap Settable = {} \/ Says(f) = [k \in {"k1"} |-> "v1"]

\* Of the texts said with files of every kind, one or two for each way of naming the files.
OneTextPerNaming ==
  said \in FewTexts =>
    CASE named = <<"a", "b">> -> Len(said) = 2
      [] named = <<"b", "missing", "a">> -> Len(said) = 3
      [] OTHER -> said[1].word = "git"

HostInit ==
  /\ part \in {"bridge", "rc", "undo", "layers", "file", "phrase", "text", "command", "rewrite", "words"}
  /\ \/ part = "bridge" /\ BridgeInit
     \/ part # "bridge" /\ BridgeAsleep
  /\ \/ part = "rc" /\ RcInit
     \/ part # "rc" /\ rcFile = <<>>
  /\ UndoInit
  /\ \/ part = "layers" /\ LayersInit
     \/ part # "layers" /\ LayersAsleep
  /\ \/ part = "file" /\ FileInit /\ OneLegacyFile /\ OneSetting
     \/ part # "file" /\ FileAsleep
  /\ PhraseInit /\ TextInit
  /\ \/ part = "command" /\ CommandInit
     \/ part # "command" /\ CommandAsleep
  /\ \/ part = "rewrite" /\ RewriteInit
     \/ part # "rewrite" /\ RewriteAsleep
  /\ \/ part = "words" /\ WordListInit /\ OneTextPerNaming
     \/ part # "words" /\ WordListAsleep

HostNext ==
  /\ UNCHANGED part
  /\ \/ part = "bridge" /\ BridgeNext /\ UNCHANGED <<rcFile, undoVars, layerVars, fileVars, phrase, typed, otherVars>>
     \/ part = "rc" /\ RcNext /\ UNCHANGED <<bridgeVars, undoVars, layerVars, fileVars, phrase, typed, otherVars>>
     \/ part = "undo" /\ UndoNext /\ UNCHANGED <<bridgeVars, rcFile, layerVars, fileVars, phrase, typed, otherVars>>
     \/ part = "layers" /\ LayersNext /\ UNCHANGED <<bridgeVars, rcFile, undoVars, fileVars, phrase, typed, otherVars>>
     \/ part = "file" /\ FileNext /\ UNCHANGED <<bridgeVars, rcFile, undoVars, layerVars, phrase, typed, otherVars>>
     \/ part = "phrase" /\ PhraseNext /\ UNCHANGED <<bridgeVars, rcFile, undoVars, layerVars, fileVars, typed, otherVars>>
     \/ part = "text" /\ TextNext /\ UNCHANGED <<bridgeVars, rcFile, undoVars, layerVars, fileVars, phrase, otherVars>>
     \/ /\ UNCHANGED <<bridgeVars, rcFile, undoVars, layerVars, fileVars, phrase, typed>>
        /\ \/ part = "command" /\ CommandNext /\ UNCHANGED <<rewriteVars, wordListVars>>
           \/ part = "rewrite" /\ RewriteNext /\ UNCHANGED <<commandVars, wordListVars>>
           \/ part = "words" /\ WordListNext /\ UNCHANGED <<commandVars, rewriteVars>>

HostSpec == HostInit /\ [][HostNext]_hostVars

(* A spoken edit keeps the scope its phrase names, and what is then done   *)
(* to the text is what was named, all of it and nothing else; and what is  *)
(* asked of a language model comes back as a text or not at all.           *)
SpokenEditsAreExact == ScopeIsKept /\ EditsAreExact /\ PhraseIsReadRight
=============================================================================
