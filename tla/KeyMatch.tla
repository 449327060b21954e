------------------------------ MODULE KeyMatch ------------------------------
(***************************************************************************)
(* From a key event to an edge of the bound chord: chord.rs, keycode.rs,   *)
(* and the two pure matchers of crates/hotkey, matcher.rs for the macOS    *)
(* tap and winmatch.rs for the Windows hook.  A key is its own virtual     *)
(* keycode; flags are the set of generic modifiers held, with the side     *)
(* keys themselves standing for their device-specific bits.                *)
(***************************************************************************)
EXTENDS Naturals, Sequences, FiniteSets

Modifiers == {"fn", "ctrl", "alt", "shift", "cmd"}

\* Two sides of each modifier the tables name, and the bit both set.
Generic == [left \in {"left-shift", "right-shift", "left-option", "right-option"} |->
              IF left \in {"left-shift", "right-shift"} THEN "shift" ELSE "alt"]
SideKeys == DOMAIN Generic
GenericOf(keys) == {Generic[k] : k \in keys \cap SideKeys} \cup (keys \cap {"fn"})

\* Keys with a code on both systems, on macOS only ("-"), on neither ("?").
FunctionRow == {"f5"}
PlainKeys == {"space", "tab", "escape", "a", "-", "?"} \cup FunctionRow
MacKeys == PlainKeys \ {"?"}
WinKeys == PlainKeys \ {"-", "?"}

NoKey == "no key"
Chord == [mods : SUBSET Modifiers, key : PlainKeys \cup SideKeys \cup {NoKey}]
IsBare(c) == c.key \in SideKeys \/ (c.key = NoKey /\ "fn" \in c.mods)

\* Mutant: the whole compare mask for every chord.
MaskAll(c) == Modifiers
\* The fn bit counts only in a chord that asks for it: the function row sets it by itself.
Mask(c) == IF "fn" \in c.mods THEN Modifiers ELSE Modifiers \ {"fn"}

MacBindable(c) == IsBare(c) \/ c.key \in MacKeys
WinBindable(c) == /\ MacBindable(c)
                  /\ c.key \in SideKeys \/ (c.key \in WinKeys /\ "fn" \notin c.mods)

-----------------------------------------------------------------------------
(* matcher.rs.  What is remembered is only whether the chord is down.       *)

EdgeFromBit(down, now) ==
  [down |-> now, edge |-> IF now = down THEN "none" ELSE IF now THEN "down" ELSE "up"]
Silent(down) == [down |-> down, edge |-> "none"]

\* Mutant: the direction of a side key from the bit both sides set.
MacFeedAnySide(c, down, ev) ==
  CASE c.key \in SideKeys /\ ev.type = "flags" /\ ev.code = c.key
         -> EdgeFromBit(down, Generic[c.key] \in ev.flags)
    [] c.key \in PlainKeys /\ ev.code = c.key /\ ev.type = "down"
       /\ ev.flags \cap Mask(c) = c.mods
         -> EdgeFromBit(down, TRUE)
    [] c.key \in PlainKeys /\ ev.code = c.key /\ ev.type = "up"
         -> EdgeFromBit(down, FALSE)
    [] OTHER -> Silent(down)
\* Mutant: a chord fires with more modifiers than it names.
MacFeedSuperset(c, down, ev) ==
  CASE c.key \in PlainKeys /\ ev.code = c.key /\ ev.type = "down" /\ c.mods \subseteq ev.flags
         -> EdgeFromBit(down, TRUE)
    [] c.key \in PlainKeys /\ ev.code = c.key /\ ev.type = "up"
         -> EdgeFromBit(down, FALSE)
    [] OTHER -> Silent(down)

MacFeed(c, down, ev) ==
  CASE c.key = NoKey /\ ev.type = "flags" /\ ev.code = "fn"
         -> EdgeFromBit(down, "fn" \in ev.flags)
    [] c.key \in SideKeys /\ ev.type = "flags" /\ ev.code = c.key
         -> EdgeFromBit(down, c.key \in ev.flags)
    [] c.key \in PlainKeys /\ ev.code = c.key /\ ev.type = "down"
       /\ ev.flags \cap Mask(c) = c.mods
         -> EdgeFromBit(down, TRUE)
    [] c.key \in PlainKeys /\ ev.code = c.key /\ ev.type = "up"
         -> EdgeFromBit(down, FALSE)
    [] OTHER -> Silent(down)

-----------------------------------------------------------------------------
(* winmatch.rs.  Windows tells no flags: the modifiers are remembered from  *)
(* the transitions seen, one bit for both sides of each.                    *)

Tracked(mods, code, isDown) ==
  IF code \notin SideKeys THEN mods
  ELSE IF isDown THEN mods \cup {Generic[code]} ELSE mods \ {Generic[code]}

WinFeed(c, m, code, isDown) ==
  LET fires == isDown /\ ~m.down /\ (c.key \in SideKeys \/ m.mods = c.mods)
      ends  == ~isDown /\ m.down
  IN  [m |-> [down |-> IF code = c.key /\ (fires \/ ends) THEN isDown ELSE m.down,
              mods |-> Tracked(m.mods, code, isDown)],
       edge |-> IF code # c.key THEN "none"
                ELSE IF fires THEN "down" ELSE IF ends THEN "up" ELSE "none"]
=============================================================================
