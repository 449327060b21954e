------------------------------ MODULE MCDaemon ------------------------------
(***************************************************************************)
(* The daemon against the rest of the machine: starting next to others of  *)
(* its kind, delivering a text to the focused application, asking the      *)
(* desktop portal for the keyboard, writing through a terminal or the      *)
(* accessibility of the desktop, and what the doctor and a session record  *)
(* say when something of it fails.  A behaviour is of one of them (part),  *)
(* so that their states add up and do not multiply; the others rest.       *)
(***************************************************************************)
EXTENDS DaemonStart, Delivery, Portal, Targets, FieldAccess, Doctor, Replay

VARIABLE part

daemonVars == <<part, startVars, deliveryVars, portalVars, targetVars, accessVars, doctorVars, replayVars>>

FieldOf1 == <<"o1">>

\* The processes are alike: it is enough to start with their command lines in one order.
Rank(a) == (IF a.once THEN 4 ELSE 0) + (IF a.wav THEN 2 ELSE 0) + a.say
\* What is recorded or said only matters to whether a command line can be used: a file and
\* a text together cannot.
InOrder == /\ \A p, q \in Procs : p < q => Rank(args[p]) <= Rank(args[q])
           /\ \A p \in Procs : args[p].wav <=> args[p].say > 0

\* A field with a word, the caret before it or the word selected: the second delivery
\* finds the caret at the end.  On macOS an application that takes typing only is typed
\* to, whatever can be set in it; on Windows what is not read takes anything; a terminal
\* with the plugin can be read.
Telling == /\ Len(box.words) = 1 /\ box.from = 0
           /\ dest.os = "macos" /\ dest.accepts = "typing" => dest.reads /\ ~dest.value
           /\ dest.os = "windows" /\ ~dest.reads => dest.accepts = "both"
           /\ dest.bridge => dest.reads

(* One state in which each of them rests.                                  *)
StartAsleep == args = [p \in Procs |-> [once |-> FALSE, wav |-> FALSE, say |-> 0]] /\ StartInit
DeliveryAsleep ==
  /\ dest = [os |-> "linux", accepts |-> "both", tty |-> FALSE, value |-> FALSE, sel |-> FALSE,
             reads |-> FALSE, canPaste |-> TRUE, bridge |-> FALSE, mute |-> FALSE]
  /\ box = [words |-> <<>>, from |-> 0, len |-> 0]
  /\ DeliveryInit
TargetsAsleep ==
  /\ site = [os |-> "linux", terminal |-> FALSE, display |-> FALSE, vars |-> {}, commands |-> {}, trusted |-> FALSE,
             portal |-> FALSE, clipboard |-> FALSE, clears |-> "line", pty |-> FALSE]
  /\ words = [before |-> <<>>, after |-> <<>>]
  /\ TargetsInit
AccessAsleep ==
  /\ desk = [os |-> "linux", front |-> "a", over |-> "a", route |-> TRUE, allowed |-> FALSE]
  /\ fields = [x \in Owners |-> PlainField("linux", x)]
  /\ tree = FlatTree /\ probe = NoProbe /\ answer = NoAnswer /\ stirs = Unstirred
DoctorAsleep ==
  patient = [Healthy("windows") EXCEPT !.ssh = TRUE] /\ reports = <<>> /\ moved = FALSE /\ verdict = "none"
ReplayAsleep ==
  /\ scene = [site |-> PlainSite, chosen |-> Select(PlainSite), name |-> "plain", before |-> <<>>, after |-> <<>>]
  /\ record = <<>> /\ page = <<>> /\ reread = <<>> /\ step = "record" /\ damaged = FALSE

DaemonInit ==
  /\ part \in {"start", "delivery", "portal", "targets", "fields", "doctor", "replay"}
  /\ \/ part = "start" /\ StartInit /\ InOrder
     \/ part # "start" /\ StartAsleep
  /\ \/ part = "delivery" /\ DeliveryInit /\ Telling
     \/ part # "delivery" /\ DeliveryAsleep
  /\ PortalInit
  /\ \/ part = "targets" /\ TargetsInit
     \/ part # "targets" /\ TargetsAsleep
  /\ \/ part = "fields" /\ AccessInit
     \/ part # "fields" /\ AccessAsleep
  /\ \/ part = "doctor" /\ DoctorInit
     \/ part # "doctor" /\ DoctorAsleep
  /\ \/ part = "replay" /\ ReplayInit
     \/ part # "replay" /\ ReplayAsleep

DaemonNext ==
  /\ UNCHANGED part
  /\ \/ part = "start" /\ StartNext /\ UNCHANGED <<deliveryVars, portalVars, targetVars, accessVars, doctorVars, replayVars>>
     \/ part = "delivery" /\ DeliveryNext /\ UNCHANGED <<startVars, portalVars, targetVars, accessVars, doctorVars, replayVars>>
     \/ part = "portal" /\ PortalNext /\ UNCHANGED <<startVars, deliveryVars, targetVars, accessVars, doctorVars, replayVars>>
     \/ part = "targets" /\ TargetsNext /\ UNCHANGED <<startVars, deliveryVars, portalVars, accessVars, doctorVars, replayVars>>
     \/ part = "fields" /\ AccessNext /\ UNCHANGED <<startVars, deliveryVars, portalVars, targetVars, doctorVars, replayVars>>
     \/ part = "doctor" /\ DoctorNext /\ UNCHANGED <<startVars, deliveryVars, portalVars, targetVars, accessVars, replayVars>>
     \/ part = "replay" /\ ReplayNext /\ UNCHANGED <<startVars, deliveryVars, portalVars, targetVars, accessVars, doctorVars>>

DaemonSpec == DaemonInit /\ [][DaemonNext]_daemonVars

(* What the user is told when something fails, by the doctor or by a       *)
(* record of a session, is true of the machine it is about.                *)
DiagIsRight == DoctorIsRight /\ ReplayIsFaithful

(* Whatever a text is read and written through - a terminal, a terminal    *)
(* multiplexer, a portal, the accessibility of the desktop - keeps what    *)
(* it promised about the text that is there.                               *)
EveryRouteIsFaithful == TargetsKeepTheirWord /\ FieldsAreReadRight
=============================================================================
