--------------------------- MODULE StreamSession ---------------------------
(* One streamed utterance: the session of crates/stream/src/session.rs, the *)
(* supervisor's Streamer (outloud/src/streamer.rs), its writer thread and   *)
(* the region of the field it writes to (outloud/src/ax_stream.rs). The     *)
(* session counts a write as written when it is sent; the region only when  *)
(* the field took it.                                                       *)
EXTENDS StreamCommit

CONSTANTS
  Hypotheses,   \* what the recognizer may hear, partial or final
  Texts,        \* the texts edits are checked on
  Snapshots,    \* [before, after]: the field around the caret at key-down
  MaxPartials,  \* partials of the utterance
  MaxFailures   \* writes the target application refuses

ASSUME StreamAssumption ==
  /\ Hypotheses \subseteq Text /\ <<>> \in Hypotheses
  /\ Texts \subseteq Text /\ Snapshots \subseteq [before : Text, after : Text]
  /\ MaxPartials \in Nat /\ MaxFailures \in Nat

VARIABLES
  stage,      \* of the utterance: Idle, Speaking, Settling, Settled
  session,    \* mode, horizon, coalescer, and the text written
  dead,       \* a write failed: no further one is sent
  toWriter,   \* commands the writer thread has not received
  writer,     \* the thread: None, Running, Done, Panicked
  events,     \* its completions, unread
  region,     \* start, applied, lead and trail of the dictated region
  field,      \* what the field holds
  final,      \* the final text being settled
  outcome,    \* of the utterance: None, Streamed, Buffered, Failed, Silent
  snapshot,   \* history: the field around the caret at key-down
  partials,   \* partials so far
  failures    \* refused writes so far

streamVars == <<stage, session, dead, toWriter, writer, events, region, field,
                final, outcome, snapshot, partials, failures>>

Command(kind, edit) == [kind |-> kind, edit |-> edit]
NoEdit == [append |-> FALSE, from |-> 0, to |-> 0, insert |-> <<>>]

-----------------------------------------------------------------------------
\* The session (session.rs).

\* Streaming needs a transport that can revise what it wrote.
NewSession(canWriteInPlace, prefer) ==
  [mode |-> IF prefer /\ canWriteInPlace THEN "Streaming" ELSE "Buffered",
   horizon |-> NewHorizon, coalescer |-> NewCoalescer, written |-> <<>>]

\* What to send for target: nothing when it is already written, and an edit
\* at the end as an Append, which the region places for itself.
EmitWrite(written, target) ==
  IF target = written THEN {}
  ELSE LET edit == MinimalEdit(written, target)
       IN {[append |-> edit.from = Len(written) /\ edit.to = edit.from,
            from |-> edit.from, to |-> edit.to, insert |-> edit.insert]}

\* A released value becomes a write; one that is written already completes
\* at once, or the gate would wait for ever.
ReleaseWrite(s, released, coalescer) ==
  IF released = NoText THEN [session |-> [s EXCEPT !.coalescer = coalescer], write |-> {}]
  ELSE LET write == EmitWrite(s.written, released)
       IN [session |-> [s EXCEPT !.written = released,
             !.coalescer = IF write = {} THEN WriteDone(coalescer) ELSE coalescer],
           write |-> write]

\* Mutant: the latest hypothesis is offered, not the committed prefix.
OfferHypothesis(s, hypothesis) ==
  LET horizon == HorizonUpdate(s.horizon, hypothesis)
      offer == Offer(s.coalescer, hypothesis)
  IN ReleaseWrite([s EXCEPT !.horizon = horizon], offer.released, offer.coalescer)

\* Mutant: the committed prefix is offered even when it is written.
OfferAlways(s, hypothesis) ==
  LET horizon == HorizonUpdate(s.horizon, hypothesis)
      offer == Offer(s.coalescer, horizon.committed)
  IN ReleaseWrite([s EXCEPT !.horizon = horizon], offer.released, offer.coalescer)

SessionPartial(s, hypothesis) ==
  LET horizon == HorizonUpdate(s.horizon, hypothesis)
      offer == Offer(s.coalescer, horizon.committed)
      updated == [s EXCEPT !.horizon = horizon]
  IN CASE s.mode = "Buffered" -> [session |-> s, write |-> {}]
       [] s.mode = "Streaming" /\ horizon.committed = s.written -> [session |-> updated, write |-> {}]
       [] OTHER -> ReleaseWrite(updated, offer.released, offer.coalescer)

SessionTick(s) ==
  LET try == TryRelease(s.coalescer) IN ReleaseWrite(s, try.released, try.coalescer)

\* The last write skips the coalescer: the user is waiting.
SessionFinish(s, text) ==
  [session |-> [s EXCEPT !.written = text, !.horizon = HorizonFinish(s.horizon, text)],
   write |-> EmitWrite(s.written, text)]

-----------------------------------------------------------------------------
\* The region (ax_stream.rs).

\* A space joins the region to a word that ends, or begins, at the caret.
Joins(before, after) ==
  [lead |-> IF before # <<>> /\ before[Len(before)] # Space THEN <<Space>> ELSE <<>>,
   trail |-> IF after # <<>> /\ after[1] # Space THEN <<Space>> ELSE <<>>]

\* AxRegion::begin
NewRegion(snap) ==
  [start |-> Len(snap.before), applied |-> <<>>,
   lead |-> Joins(snap.before, snap.after).lead, trail |-> Joins(snap.before, snap.after).trail]

\* Mutant: the lead counts before it is in the field.
LeadAlwaysCounts(r, from) == r.start + Len(r.lead) + from

\* abs_range: where in the field an offset of the region is.
Location(r, from) == r.start + (IF r.applied = <<>> THEN 0 ELSE Len(r.lead)) + from

\* What the target application holds when it accepts the two attributes.
Replaced(f, from, to, text) == SubSeq(f, 1, from) \o text \o Drop(f, to)

\* The range a command addresses, in the region.
Addressed(r, cmd) ==
  IF cmd.append THEN Edit(Len(r.applied), Len(r.applied), cmd.insert)
  ELSE Edit(cmd.from, cmd.to, cmd.insert)

\* Does the range of the edit lie in what was applied? If not the thread
\* panics on the slice.
InRegion(r, edit) == edit.to <= Len(r.applied)

TextOf(r, edit) == (IF r.applied = <<>> /\ edit.from = 0 THEN r.lead ELSE <<>>) \o edit.insert

InField(r, edit, f) == Location(r, edit.to) <= Len(f)

\* Mutant: the region remembers the lead as its own text.
ApplyWithLead(r, edit, f) ==
  [region |-> [r EXCEPT !.applied = ApplyEdit([edit EXCEPT !.insert = TextOf(r, edit)], r.applied)],
   field |-> Replaced(f, Location(r, edit.from), Location(r, edit.to), TextOf(r, edit))]

\* AxRegion::apply, when the application accepts.
ApplyToRegion(r, edit, f) ==
  [region |-> [r EXCEPT !.applied = ApplyEdit(edit, r.applied)],
   field |-> Replaced(f, Location(r, edit.from), Location(r, edit.to), TextOf(r, edit))]

\* AxRegion::seal
SealRegion(r, f) ==
  IF r.applied = <<>> THEN f
  ELSE LET end == Location(r, Len(r.applied)) IN Replaced(f, end, end, r.trail)

-----------------------------------------------------------------------------
StreamInit ==
  /\ stage = "Idle" /\ snapshot \in Snapshots
  /\ field = snapshot.before \o snapshot.after
  /\ session = NewSession(FALSE, TRUE) /\ dead = FALSE
  /\ toWriter = <<>> /\ writer = "None" /\ events = <<>>
  /\ region = NewRegion(snapshot) /\ final = <<>> /\ outcome = "None"
  /\ partials = 0 /\ failures = 0

\* Streamer::begin: the field can be streamed into, and the thread is started.
\* The session also serves transports that can only insert.
BeginStream ==
  /\ stage = "Idle" /\ stage' = "Speaking"
  /\ \E inPlace \in BOOLEAN : session' = NewSession(inPlace, TRUE)
  /\ writer' = "Running"
  /\ UNCHANGED <<dead, toWriter, events, region, field, final, outcome, snapshot,
                 partials, failures>>

\* Streamer::dispatch: a writer that is gone counts as a failed write.
Dispatch(write) ==
  IF write = {} \/ dead THEN UNCHANGED <<toWriter, dead>>
  ELSE /\ dead' = (writer # "Running")
       /\ toWriter' = IF dead' THEN toWriter
                      ELSE Append(toWriter, Command("Apply", CHOOSE e \in write : TRUE))

\* Streamer::on_partial
OnPartial(hypothesis) ==
  /\ stage = "Speaking" /\ partials < MaxPartials /\ partials' = partials + 1
  /\ LET step == SessionPartial(session, hypothesis)
     IN session' = step.session /\ Dispatch(step.write)
  /\ UNCHANGED <<stage, writer, events, region, field, final, outcome, snapshot, failures>>

\* The timer of the supervisor: Streamer::deadline has come, and on_tick runs.
OnTick ==
  /\ stage = "Speaking" /\ ~dead /\ Due(session.coalescer)
  /\ LET step == SessionTick(session)
     IN session' = step.session /\ Dispatch(step.write)
  /\ UNCHANGED <<stage, writer, events, region, field, final, outcome, snapshot,
                 partials, failures>>

\* The clock, up to the interval.
Elapses ==
  /\ stage = "Speaking" /\ session.coalescer.since < Interval
  /\ session' = [session EXCEPT !.coalescer = Elapse(@)]
  /\ UNCHANGED <<stage, dead, toWriter, writer, events, region, field, final, outcome,
                 snapshot, partials, failures>>

\* Streamer::on_write_done
OnWriteDone ==
  /\ events # <<>> /\ events[1].kind = "WriteDone" /\ events' = Tail(events)
  /\ IF stage = "Speaking"
     THEN /\ session' = [session EXCEPT !.coalescer = WriteDone(@)]
          /\ dead' = (dead \/ ~events[1].ok)
     ELSE UNCHANGED <<session, dead>>
  /\ UNCHANGED <<stage, toWriter, writer, region, field, final, outcome, snapshot,
                 partials, failures>>

\* Mutant: the settle is not sent once a write has failed.
FinishUnlessDead(text) ==
  /\ stage = "Speaking" /\ final' = text
  /\ stage' = "Settling" /\ outcome' = IF text = <<>> THEN "Silent" ELSE "None"
  /\ LET step == SessionFinish(session, text)
     IN /\ session' = step.session
        /\ toWriter' = IF dead THEN toWriter
             ELSE Append(toWriter, Command("Finish", IF step.write = {} THEN NoEdit
                                                     ELSE CHOOSE e \in step.write : TRUE))
  /\ UNCHANGED <<dead, writer, events, region, field, snapshot, partials, failures>>

\* The Final arrives: Streamer::finish is sent even when dead, and consumes
\* the streamer. An empty final is not waited for.
Finish(text) ==
  /\ stage = "Speaking" /\ final' = text
  /\ stage' = "Settling" /\ outcome' = IF text = <<>> THEN "Silent" ELSE "None"
  /\ LET step == SessionFinish(session, text)
     IN /\ session' = step.session
        /\ toWriter' = Append(toWriter, Command("Finish", IF step.write = {} THEN NoEdit
                                                          ELSE CHOOSE e \in step.write : TRUE))
  /\ UNCHANGED <<dead, writer, events, region, field, snapshot, partials, failures>>

\* The utterance fails in the recognizer: the streamer is dropped, the channel
\* closes and the thread ends when it has received what is in it.
DropStreamer ==
  /\ stage = "Speaking" /\ stage' = "Settled" /\ outcome' = "Failed"
  /\ UNCHANGED <<session, dead, toWriter, writer, events, region, field, final,
                 snapshot, partials, failures>>

WriterReceives(kind) ==
  writer = "Running" /\ toWriter # <<>> /\ toWriter[1].kind = kind /\ toWriter' = Tail(toWriter)

\* The application refuses an attribute of the write: by a fault of its own,
\* or because the range is not in the field.
Refused(edit) ==
  /\ InField(region, edit, field) => failures < MaxFailures
  /\ failures' = IF InField(region, edit, field) THEN failures + 1 ELSE failures

\* One Apply, and its WriteDone. Its range is in the region: what is sent while
\* the user speaks only extends what was sent before (NeverRetracted).
WriterApply ==
  /\ WriterReceives("Apply")
  /\ LET edit == Addressed(region, toWriter[1].edit)
         done == ApplyToRegion(region, edit, field)
     IN \/ /\ Refused(edit)
           /\ events' = Append(events, [kind |-> "WriteDone", ok |-> FALSE])
           /\ UNCHANGED <<region, field>>
        \/ /\ InField(region, edit, field)
           /\ region' = done.region /\ field' = done.field
           /\ events' = Append(events, [kind |-> "WriteDone", ok |-> TRUE])
           /\ UNCHANGED failures
  /\ UNCHANGED <<stage, session, dead, writer, final, outcome, snapshot, partials>>

Finished(ok, r) == [kind |-> "Finished", ok |-> ok, wroteAny |-> r.applied # <<>>]

\* The Finish: the settle, if there is one, then the seal; either may be
\* refused. Then the thread ends.
WriterFinish ==
  /\ WriterReceives("Finish")
  /\ LET edit == Addressed(region, toWriter[1].edit)
         done == IF toWriter[1].edit = NoEdit THEN [region |-> region, field |-> field]
                 ELSE ApplyToRegion(region, edit, field)
     IN \/ /\ ~InRegion(region, edit)
           /\ writer' = "Panicked" /\ UNCHANGED <<region, field, events, failures>>
        \/ /\ InRegion(region, edit) /\ toWriter[1].edit # NoEdit /\ Refused(edit)
           /\ events' = Append(events, Finished(FALSE, region))
           /\ writer' = "Done" /\ UNCHANGED <<region, field>>
        \/ /\ InRegion(region, edit) /\ InField(region, edit, field)
           /\ region' = done.region /\ writer' = "Done"
           /\ \/ /\ field' = SealRegion(done.region, done.field)
                 /\ events' = Append(events, Finished(TRUE, done.region))
                 /\ UNCHANGED failures
              \/ /\ done.region.applied # <<>> /\ region.trail # <<>>
                 /\ failures < MaxFailures /\ failures' = failures + 1
                 /\ field' = done.field
                 /\ events' = Append(events, Finished(FALSE, done.region))
  /\ UNCHANGED <<stage, session, dead, final, outcome, snapshot, partials>>

\* The channel of a dropped streamer is empty and closed.
WriterEnds ==
  /\ writer = "Running" /\ stage = "Settled" /\ toWriter = <<>> /\ writer' = "Done"
  /\ UNCHANGED <<stage, session, dead, toWriter, events, region, field, final, outcome,
                 snapshot, partials, failures>>

\* Mutant: a settle that failed half-way is typed again.
SettleAgain ==
  /\ stage = "Settling" /\ events # <<>> /\ events[1].kind = "Finished"
  /\ events' = Tail(events) /\ stage' = "Settled"
  /\ outcome' = IF outcome = "Silent" THEN outcome
                ELSE IF events[1].ok THEN "Streamed" ELSE "Buffered"
  /\ UNCHANGED <<session, dead, toWriter, writer, region, field, final, snapshot,
                 partials, failures>>

\* settle_streamed: a settle that failed before anything was written may be
\* delivered whole; after that it is shown as an error. Nobody waits for the
\* completion of an empty final.
SettleStreamed ==
  /\ stage = "Settling" /\ events # <<>> /\ events[1].kind = "Finished"
  /\ events' = Tail(events) /\ stage' = "Settled"
  /\ outcome' = IF outcome = "Silent" THEN outcome
                ELSE IF events[1].ok THEN "Streamed"
                ELSE IF events[1].wroteAny THEN "Failed" ELSE "Buffered"
  /\ UNCHANGED <<session, dead, toWriter, writer, region, field, final, snapshot,
                 partials, failures>>

StreamSystem == OnTick \/ Elapses \/ OnWriteDone \/ SettleStreamed
StreamWriter == WriterApply \/ WriterFinish \/ WriterEnds

StreamNext ==
  \/ BeginStream \/ DropStreamer \/ StreamSystem \/ StreamWriter
  \/ \E text \in Hypotheses : OnPartial(text) \/ Finish(text)

StreamSpec == StreamInit /\ [][StreamNext]_streamVars
StreamFairSpec == StreamSpec /\ WF_streamVars(OnTick) /\ WF_streamVars(Elapses)
  /\ WF_streamVars(OnWriteDone) /\ WF_streamVars(SettleStreamed) /\ WF_streamVars(StreamWriter)

-----------------------------------------------------------------------------
\* A text of the region, joined to what stands around it.
Joined(text) ==
  IF text = <<>> THEN snapshot.before \o snapshot.after
  ELSE snapshot.before \o region.lead \o text \o region.trail \o snapshot.after

\* Every variable of the streamed utterance has its type; the window holds no
\* more hypotheses than are compared.
StreamTypeOK ==
  /\ stage \in {"Idle", "Speaking", "Settling", "Settled"}
  /\ writer \in {"None", "Running", "Done", "Panicked"}
  /\ outcome \in {"None", "Streamed", "Buffered", "Failed", "Silent"}
  /\ session.coalescer.since \in 0..Interval /\ dead \in BOOLEAN
  /\ Len(session.horizon.recent) <= Stability
  /\ partials \in 0..MaxPartials /\ failures \in 0..MaxFailures

\* An edit turns the old text into the new, and replaces whole words: its ends
\* are word boundaries of the old text, the first also of the new (diff.rs:106).
EditsRoundTrip ==
  stage = "Idle" =>
    \A old, new \in Texts :
      LET edit == MinimalEdit(old, new)
      IN /\ edit.from <= edit.to /\ {edit.from, edit.to} \subseteq Boundaries(old)
         /\ ApplyEdit(edit, old) = new
         /\ old # new => edit.from \in Boundaries(new)

\* An utterance reported as streamed, none of whose writes was refused, leaves
\* the field with exactly its final text at the caret, joined to the words
\* around it, whatever was written and revised on the way (session.rs:236,
\* ax_stream.rs:219).
FieldIsTranscript == outcome = "Streamed" /\ failures = 0 => field = Joined(final)

\* The surroundings of the region are never touched, and the region stands in
\* the field as its writer remembers it: the offsets of abs_range agree with
\* what the application holds, refused writes or not (ax_stream.rs:50).
RegionInPlace ==
  \E lead \in {<<>>, region.lead}, trail \in {<<>>, region.trail} :
    /\ field = snapshot.before \o lead \o region.applied \o trail \o snapshot.after
    /\ region.applied # <<>> => lead = region.lead
    /\ trail # <<>> => writer = "Done"

\* Back-pressure: of the mid-utterance writes at most one is anywhere between
\* the release and the completion that the session has seen, and the gate is
\* closed exactly then, until a write fails (streamer.rs:13).
OneWriteAtATime ==
  stage = "Speaking" =>
    LET outstanding == Len(toWriter) + Len(events)
    IN outstanding <= 1 /\ (~dead => (session.coalescer.inFlight <=> outstanding = 1))

\* What is parked is the latest committed prefix and is not written yet: no
\* stale state waits to be written (coalesce.rs:14).
ParkedIsLatest ==
  stage = "Speaking" /\ session.coalescer.pending # NoText =>
    session.coalescer.pending = session.horizon.committed /\ session.written # session.horizon.committed

\* A settle is only delivered a second time, whole, into a field that nothing
\* of the utterance has reached (ax_stream.rs:238, pipeline.rs:956).
RetryOnlyUntouched == outcome = "Buffered" => field = snapshot.before \o snapshot.after

\* The field holds what the session thinks it wrote, at the caret, and nothing
\* is written a second time or ahead of its turn.
TranscriptInPlace ==
  EditsRoundTrip /\ FieldIsTranscript /\ RegionInPlace /\ OneWriteAtATime /\ ParkedIsLatest /\ RetryOnlyUntouched

\* While the user speaks, text in the field is only appended to: no step takes
\* back what was written, however the hypotheses are revised (horizon.rs:3).
NeverRetracted ==
  [][stage = "Speaking" /\ stage' = "Speaking" => StartsWith(region'.applied, region.applied)]_streamVars

\* What is committed was agreed on by a full window of hypotheses, ends at a
\* word boundary of the last, and leaves its last word out (horizon.rs:7).
CommitsAreAgreed ==
  [][stage = "Speaking" /\ stage' = "Speaking" /\ session'.horizon.committed # session.horizon.committed =>
       LET committed == session'.horizon.committed
           recent == session'.horizon.recent
           rest == Drop(recent[Stability], Len(committed))
       IN /\ Len(recent) = Stability
          /\ \A i \in 1..Stability : StartsWith(recent[i], committed)
          /\ Lookback > 0 => \E i \in 1..Len(rest) : rest[i] # Space
          /\ rest # <<>> /\ rest[1] # Space => committed[Len(committed)] = Space]_streamVars

\* A transport that cannot revise gets one insert, after the utterance
\* (session.rs:11).
InsertOnlyOnce ==
  [][session.mode = "Buffered" /\ stage = "Speaking" /\ stage' # "Idle" /\ Len(toWriter') > Len(toWriter) =>
       stage' = "Settling" /\ Len(toWriter') = 1]_streamVars

\* A step of an utterance only ever adds words that were agreed on, and in the
\* mode its target can take.
OnlyExtends == NeverRetracted /\ CommitsAreAgreed /\ InsertOnlyOnce

\* What was committed is written, as long as the user goes on speaking and no
\* write fails: the gate never waits for a completion that cannot come
\* (session.rs:197).
CommittedIsWritten ==
  stage = "Speaking" /\ session.mode = "Streaming"
    ~> session.written = session.horizon.committed \/ dead \/ stage # "Speaking"

\* A failed write does not go unnoticed: the utterance is not reported as
\* streamed unless the field holds its final text ("the final pass reports
\* the failure", streamer.rs:54).
FailureReported == outcome = "Streamed" => field = Joined(final)

\* Every settle is answered ("the answer arrives as Finished", streamer.rs:145).
SettleAnswered == stage = "Settling" ~> stage = "Settled"
=============================================================================
