------------------------------- MODULE MCAudio ------------------------------
(***************************************************************************)
(* The way of the audio from the microphone to the recognizer: the capture *)
(* and its ring, the segmenter, the recognizer thread behind its feed, the *)
(* backends behind that thread and the model they need.  A behaviour is of *)
(* one of them (part), so that their states add up and do not multiply;    *)
(* the others rest in one state.                                           *)
(***************************************************************************)
EXTENDS AsrWorker, AudioChain, Segmenter, Backends, ModelStore

VARIABLE part

audioVars == <<part, vars, chainVars, segVars, backendVars, storeVars>>

AudioInit ==
  /\ part \in {"chain", "segmenter", "worker", "backend", "store"}
  /\ Init
  /\ ChainInit /\ (part # "chain" => present = {} /\ want = NoMic)
  /\ SegInit /\ (part # "segmenter" => loud = {})
  /\ BackendsInit /\ (part # "backend" => backend = "mock")
  /\ StoreInit /\ (part # "store" => ~other)

AudioNext ==
  /\ UNCHANGED part
  /\ \/ part = "worker" /\ Next /\ UNCHANGED <<chainVars, segVars, backendVars, storeVars>>
     \/ part = "chain" /\ ChainNext /\ UNCHANGED <<vars, segVars, backendVars, storeVars>>
     \/ part = "segmenter" /\ SegNext /\ UNCHANGED <<vars, chainVars, backendVars, storeVars>>
     \/ part = "backend" /\ BackendsNext /\ UNCHANGED <<vars, chainVars, segVars, storeVars>>
     \/ part = "store" /\ StoreNext /\ UNCHANGED <<vars, chainVars, segVars, backendVars>>

\* The fairness of FairSpec, ChainFair and BackendsFairness, for the part that runs.
Chain(A) == part = "chain" /\ A
AudioFairness ==
  /\ WF_vars(part = "worker" /\ Worker)
  /\ WF_chainVars(Chain(ResolveDevice)) /\ WF_chainVars(Chain(\E works \in BOOLEAN : OpenStream(works)))
  /\ SF_chainVars(Chain(OpenStream(TRUE))) /\ WF_chainVars(Chain(WatchStream))
  /\ WF_chainVars(Chain(NapEnds)) /\ WF_chainVars(Chain(CloseStream))
  /\ WF_chainVars(Chain(StreamFails /\ device \notin present))
  /\ WF_chainVars(Chain(DrainTick)) /\ WF_chainVars(Chain(DrainSends))
  /\ WF_backendVars(part = "backend" /\ AppleReceives) /\ WF_backendVars(part = "backend" /\ AppleGivesUp)

AudioSpec == AudioInit /\ [][AudioNext]_audioVars /\ AudioFairness

(* Nobody waits for ever: a finalize asked of the recognizer thread is     *)
(* answered, and so is one a backend asks of its helper; the thread ends.  *)
EveryWaitEnds == EverythingAnswered /\ FinalizeReturns
=============================================================================
