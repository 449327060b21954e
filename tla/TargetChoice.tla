---------------------------- MODULE TargetChoice ----------------------------
(***************************************************************************)
(* text-target/detect.rs: which transport a destination is reached by, as  *)
(* a function of the facts about it.                                       *)
(***************************************************************************)

Vars == {"TMUX", "STY", "WEZTERM_PANE", "KITTY_WINDOW_ID"}
\* The program each of them needs.
ToolOf == [TMUX |-> "tmux", STY |-> "screen", WEZTERM_PANE |-> "wezterm", KITTY_WINDOW_ID |-> "kitten"]
Tools == {ToolOf[v] : v \in Vars}

\* Mutant: having the variable is enough.
InsideWithoutTool(env, v) == v \in env.vars
\* A variable may have outlived the program it names.
Inside(env, v) == v \in env.vars /\ ToolOf[v] \in env.commands

\* Mutant: the terminal the program was started from is taken for the destination.
SelectAncestor(env) ==
  CASE Inside(env, "TMUX") -> "tmux"
    [] ~Inside(env, "TMUX") /\ Inside(env, "STY") -> "gnu-screen"
    [] OTHER -> IF env.display /\ env.trusted THEN "macos-ax" ELSE "daemon-socket"

\* select: what the destination is inside of, then what the desktop offers.
Select(env) ==
  IF env.terminal /\ Inside(env, "TMUX") THEN "tmux"
  ELSE IF env.terminal /\ Inside(env, "STY") THEN "gnu-screen"
  ELSE IF env.terminal /\ Inside(env, "WEZTERM_PANE") THEN "wezterm-cli"
  ELSE IF env.terminal /\ Inside(env, "KITTY_WINDOW_ID") THEN "kitty-remote-control"
  ELSE IF env.terminal /\ ~env.display THEN "osc52"
  ELSE IF env.display /\ env.os = "windows" THEN "windows-uia"
  ELSE IF env.display /\ env.trusted THEN "macos-ax"
  ELSE IF env.display /\ env.os = "linux" /\ env.portal THEN "linux-portal"
  ELSE IF env.display /\ env.clipboard THEN "clipboard-paste"
  ELSE "daemon-socket"
=============================================================================
