-------------------------------- MODULE Portal --------------------------------
(* crates/text-target/src/targets/portal.rs, and its use in inject.rs: typing  *)
(* through the desktop portal of Linux. A request is called over the bus and   *)
(* answered later by a signal; starting a session asks the user. The target,   *)
(* and with it the session, is made anew for every delivery.                   *)
EXTENDS Naturals, Sequences

CONSTANTS
  PortalRuns,  \* bound: deliveries
  PortalText   \* bound: the characters of a delivery

VARIABLES
  asks,      \* the request under way, or what the delivery does instead
  called,    \* the signal of the request: not sent, on its way, or nobody listened for it
  overdue,   \* the deadline of the request has passed
  session,   \* ensure_session: the handle this target holds
  granted,   \* the user let this session type
  dialog,    \* the consent dialog on screen
  keys,      \* what the application was sent
  delivered, \* how the deliveries ended
  dialogs    \* history: dialogs raised so far

portalVars == <<asks, called, overdue, session, granted, dialog, keys, delivered, dialogs>>

Requests == <<"CreateSession", "SelectDevices", "Start">>
Then(r) == CASE r = "CreateSession" -> "SelectDevices" [] r = "SelectDevices" -> "Start" [] r = "Start" -> "type"

PortalInit ==
  /\ asks = "none" /\ called = "no" /\ overdue = FALSE /\ session = FALSE /\ granted = FALSE
  /\ dialog = FALSE /\ keys = <<>> /\ delivered = <<>> /\ dialogs = 0

Is(r) == asks = r
\* The connection is dropped with the target, and the portal closes its session.
Dropped(end) ==
  /\ asks' = "none" /\ called' = "no" /\ overdue' = FALSE /\ session' = FALSE /\ granted' = FALSE
  /\ dialog' = FALSE /\ keys' = <<>> /\ delivered' = Append(delivered, [end |-> end, keys |-> keys])

\* PortalTarget::new: without a bus, a portal or a keyboard on offer there is no target.
NewPortal ==
  /\ Is("none") /\ Len(delivered) < PortalRuns
  /\ \/ asks' = "CreateSession" /\ UNCHANGED <<called, overdue, session, granted, dialog, keys, delivered>>
     \/ Dropped("no portal")
  /\ UNCHANGED dialogs

\* The call returns the path of the request; its Response may follow at any
\* time. It is heard by who has added a match rule by then, and opened the
\* stream of messages.
CallRequest ==
  /\ asks \in {"CreateSession", "SelectDevices", "Start"} /\ called = "no"
  /\ \/ called' = "called" /\ UNCHANGED <<asks, overdue, session, granted, keys, delivered>>
        /\ dialog' = Is("Start") /\ dialogs' = dialogs + (IF Is("Start") THEN 1 ELSE 0)
     \/ Dropped("refused") /\ UNCHANGED dialogs

Listen ==
  /\ called \in {"called", "missed"}
  /\ called' = IF called = "called" THEN "listening" ELSE "deaf"
  /\ UNCHANGED <<asks, overdue, session, granted, dialog, keys, delivered, dialogs>>

\* Mutant: whatever devices were granted will do.
AnyDevice(r, code, keyboard) == code = 0

\* A zero code, and of the started session the keyboard among its devices.
Accepted(r, code, keyboard) == code = 0 /\ (r = "Start" => keyboard)

\* await_response. Messages of others are passed over.
Respond ==
  /\ called \in {"called", "listening"} /\ \E code \in 0..2, keyboard \in BOOLEAN :
       /\ granted' = (Is("Start") /\ code = 0 /\ keyboard)
       /\ IF called = "called"
          THEN /\ called' = "missed" /\ dialog' = FALSE
               /\ UNCHANGED <<asks, overdue, session, delivered>>
          ELSE IF Accepted(asks, code, keyboard)
          THEN /\ asks' = Then(asks) /\ called' = "no" /\ overdue' = FALSE /\ dialog' = FALSE
               /\ session' = Is("Start") /\ UNCHANGED delivered
          ELSE /\ asks' = "none" /\ called' = "no" /\ overdue' = FALSE /\ session' = FALSE
               /\ dialog' = FALSE /\ delivered' = Append(delivered, [end |-> "denied", keys |-> keys])
  /\ UNCHANGED <<keys, dialogs>>

Deadline ==
  /\ called \in {"listening", "deaf"} /\ ~overdue /\ overdue' = TRUE
  /\ UNCHANGED <<asks, called, session, granted, dialog, keys, delivered, dialogs>>

\* The deadline is looked at between two messages, and the wait for the next
\* one has none.
OtherMessage ==
  /\ called \in {"listening", "deaf"} /\ overdue
  /\ Dropped("timeout") /\ UNCHANGED dialogs

\* Mutant: a key is let go of before it is pressed.
ReleasedFirst(sent) == IF Len(sent) % 2 = 0 THEN "up" ELSE "down"

\* Each character is pressed, then released.
NextKey(sent) == IF Len(sent) % 2 = 0 THEN "down" ELSE "up"

\* insert: a notify that fails ends the typing where it is.
Notify ==
  /\ Is("type") /\ Len(keys) < 2 * PortalText
  /\ \/ granted /\ keys' = Append(keys, NextKey(keys))
        /\ UNCHANGED <<asks, called, overdue, session, granted, dialog, delivered>>
     \/ Dropped("cut")
  /\ UNCHANGED dialogs

TypedAll ==
  /\ Is("type") /\ Len(keys) = 2 * PortalText
  /\ Dropped("typed") /\ UNCHANGED dialogs

PortalNext == NewPortal \/ CallRequest \/ Listen \/ Respond \/ Deadline \/ OtherMessage \/ Notify \/ TypedAll

\* The program's own steps; the portal, the user and the bus owe nothing.
PortalFairness == WF_portalVars(CallRequest) /\ WF_portalVars(Listen) /\ WF_portalVars(Notify)
                  /\ WF_portalVars(TypedAll) /\ WF_portalVars(Deadline)
PortalFair == PortalInit /\ [][PortalNext]_portalVars /\ PortalFairness
PortalSpec == PortalInit /\ [][PortalNext]_portalVars
-----------------------------------------------------------------------------
\* Typing starts with a session the user has given the keyboard to, and a
\* delivery counts as typed only after all of its keys, each pressed and let
\* go of in turn; a consent that was refused or never given sends none.
TypesWithConsent ==
  /\ Is("type") => session /\ granted
  /\ \A i \in 1..Len(delivered) :
       LET d == delivered[i]
       IN /\ d.end = "typed" => Len(d.keys) = 2 * PortalText
          /\ d.end \notin {"typed", "cut"} => d.keys = <<>>
          /\ \A k \in 1..Len(d.keys) : d.keys[k] = IF k % 2 = 1 THEN "down" ELSE "up"

\* Refuted: "One dialog per OutLoud run is acceptable; one per utterance would
\* not be" (portal.rs:46): the handle dies with the target of each delivery.
OneDialogPerRun == dialogs <= 1

\* Refuted, with the program's steps fair: a request ends by an answer or by its
\* deadline. A response sent before anybody listens, or never, is waited for.
RequestsEnd == called = "listening" ~> called = "no"

\* Refuted: a delivery that is cut short leaves no key down.
NoKeyLeftDown == \A i \in 1..Len(delivered) : Len(delivered[i].keys) % 2 = 0
=============================================================================
