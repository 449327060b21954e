------------------------------- MODULE Overlay -------------------------------
(***************************************************************************)
(* The product's visible state machine: the edges drawn by                 *)
(* OverlayState::allowed_transitions (crates/overlay/src/state.rs) and the *)
(* engine that walks them (crates/outloud/src/state.rs), refusing and      *)
(* remembering an edge that is not drawn.                                  *)
(***************************************************************************)

OverlayState == {"ModelLoading", "Idle", "Listening", "Transcribing",
                 "Injecting", "NoPermission", "Error", "DegradedOffline"}

AllowedTransitions ==
  [ModelLoading    |-> {"Idle", "NoPermission", "Error"},
   Idle            |-> {"Listening", "NoPermission", "ModelLoading",
                        "DegradedOffline", "Error"},
   Listening       |-> {"Transcribing", "Idle", "Error"},
   Transcribing    |-> {"Injecting", "Idle", "Error"},
   Injecting       |-> {"Idle", "Error"},
   NoPermission    |-> {"Idle"},
   Error           |-> {"Idle"},
   DegradedOffline |-> {"Idle"}]

\* Engine: the state on screen, and whether an illegal edge was ever tried.
Engine == [state : OverlayState, sawIllegal : BOOLEAN]

NewEngine == [state |-> "ModelLoading", sawIllegal |-> FALSE]

CanShow(e, next) == next = e.state \/ next \in AllowedTransitions[e.state]

\* Engine::transition.
Show(e, next) ==
  IF CanShow(e, next) THEN [e EXCEPT !.state = next]
                      ELSE [e EXCEPT !.sawIllegal = TRUE]

\* The states a key-down leaves through Idle.
ErrorShaped == {"Error", "NoPermission", "DegradedOffline"}
=============================================================================
