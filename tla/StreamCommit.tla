---------------------------- MODULE StreamCommit ----------------------------
(* crates/stream, the pure part: what is committed of the hypotheses      *)
(* (horizon.rs), how often it is written (coalesce.rs), and as what splice *)
(* (diff.rs).                                                              *)
EXTENDS Naturals, Sequences, FiniteSetsExt

(* crates/stream/src/diff.rs: the splice that turns one text into another.  *)
(* A text is a sequence of graphemes. Of the grapheme only its identity     *)
(* and whether it is Space matter, which is what word boundaries look at.   *)

CONSTANTS
  Graphemes,  \* what texts are made of
  Space

ASSUME TextAssumption == Space \in Graphemes

Text == Seq(Graphemes)

\* Extensions of a text: a is what b begins with.
StartsWith(b, a) == Len(a) <= Len(b) /\ SubSeq(b, 1, Len(a)) = a
Drop(t, n) == SubSeq(t, n + 1, Len(t))

CommonPrefix(a, b) ==
  Max({n \in 0..Min({Len(a), Len(b)}) : SubSeq(a, 1, n) = SubSeq(b, 1, n)})

CommonSuffix(a, b) ==
  Max({n \in 0..Min({Len(a), Len(b)}) : Drop(a, Len(a) - n) = Drop(b, Len(b) - n)})

\* Positions between two segments: spaces join to one segment, and so do
\* letters. The two ends are always boundaries.
Boundaries(t) ==
  {0, Len(t)} \cup {i \in 1..(Len(t) - 1) : (t[i] = Space) # (t[i + 1] = Space)}

Edit(from, to, insert) == [from |-> from, to |-> to, insert |-> insert]

ApplyEdit(edit, old) == SubSeq(old, 1, edit.from) \o edit.insert \o Drop(old, edit.to)

\* Mutant: the suffix is taken of the whole texts, not of what the common
\* prefix leaves, and may overlap it.
OverlappingEdit(old, new) ==
  LET p == Max({b \in Boundaries(old) \cap Boundaries(new) : b <= CommonPrefix(old, new)})
      s == Max({k \in 0..CommonSuffix(old, new) : /\ Len(old) - k \in Boundaries(old)
                                                  /\ Len(new) - k \in Boundaries(new)})
  IN Edit(p, Len(old) - s, SubSeq(new, p + 1, Len(new) - s))

\* The common prefix, and the common suffix of the rest, each given back as
\* far as the nearest word boundary of both texts.
MinimalEdit(old, new) ==
  LET p == CommonPrefix(old, new)
      s == CommonSuffix(Drop(old, p), Drop(new, p))
      from == Max({b \in Boundaries(old) \cap Boundaries(new) : b <= p})
      tail == Max({k \in 0..s : /\ Len(old) - k \in Boundaries(old)
                                /\ Len(new) - k \in Boundaries(new)})
  IN IF old = new THEN Edit(Len(old), Len(old), <<>>)
     ELSE Edit(from, Len(old) - tail, SubSeq(new, from + 1, Len(new) - tail))

-----------------------------------------------------------------------------
(* crates/stream/src/horizon.rs: which prefix of the hypotheses is stable   *)
(* enough to be committed. A horizon is [committed, recent], where recent   *)
(* holds the last hypotheses, oldest first.                                 *)

CONSTANTS
  Stability,  \* hypotheses that must agree on a prefix
  Lookback    \* trailing words of it that are held back

ASSUME HorizonAssumption == Stability \in Nat \ {0} /\ Lookback \in Nat

NewHorizon == [committed |-> <<>>, recent |-> <<>>]

\* The prefix that every retained hypothesis agrees on.
AgreedPrefix(recent) ==
  Min({CommonPrefix(recent[1], recent[i]) : i \in 1..Len(recent)})

\* One word back: to the start of the last word of the first n graphemes,
\* or to the start of the text when only spaces are left.
RetreatWord(t, n) ==
  Max({0} \cup {i \in 0..(n - 1) : t[i + 1] # Space /\ (i = 0 \/ t[i] = Space)})

RetreatWords(t, n, words) ==
  LET back[k \in 0..words] == IF k = 0 THEN n ELSE RetreatWord(t, back[k - 1])
  IN back[words]

\* Mutant: one hypothesis too many is kept.
WiderWindow(recent, hypothesis) ==
  LET all == Append(recent, hypothesis)
  IN Drop(all, Max({0, Len(all) - Stability - 1}))

Window(recent, hypothesis) ==
  LET all == Append(recent, hypothesis)
  IN Drop(all, Max({0, Len(all) - Stability}))

\* Mutant: a window that is not full yet counts as agreement.
EagerStableLength(recent, hypothesis) ==
  LET held == RetreatWords(hypothesis, AgreedPrefix(recent), Lookback)
  IN Max({b \in Boundaries(hypothesis) : b <= held})

\* How much of the hypothesis is stable: agreed on by a full window, without
\* the words held back, and cut at a word boundary of the hypothesis.
StableLength(recent, hypothesis) ==
  LET agreed == IF Len(recent) < Stability THEN 0 ELSE AgreedPrefix(recent)
      held == RetreatWords(hypothesis, agreed, Lookback)
  IN Max({b \in Boundaries(hypothesis) : b <= held})

\* Mutant: the commit follows the hypothesis down when it is rewritten.
FollowingUpdate(horizon, hypothesis) ==
  LET recent == Window(horizon.recent, hypothesis)
      stable == StableLength(recent, hypothesis)
  IN [committed |-> SubSeq(hypothesis, 1, stable), recent |-> recent]

\* The committed prefix is extended by what is stable beyond it, and only by
\* a hypothesis that still begins with it.
HorizonUpdate(horizon, hypothesis) ==
  LET recent == Window(horizon.recent, hypothesis)
      stable == StableLength(recent, hypothesis)
      grows == StartsWith(hypothesis, horizon.committed) /\ stable > Len(horizon.committed)
  IN [committed |-> IF grows THEN SubSeq(hypothesis, 1, stable) ELSE horizon.committed,
      recent |-> recent]

\* The unstable rest that is shown beside the committed text.
GhostTail(horizon, hypothesis) ==
  IF StartsWith(hypothesis, horizon.committed)
  THEN Drop(hypothesis, Len(horizon.committed)) ELSE hypothesis

\* The final text is committed whatever was agreed on before.
HorizonFinish(horizon, final) == [committed |-> final, recent |-> <<>>]

-----------------------------------------------------------------------------
(* crates/stream/src/coalesce.rs: one pending value, released at most once  *)
(* per interval and never while a write is under way. since is the time     *)
(* since the last release or completion, up to Interval, where it stays;    *)
(* a new coalescer is due at once.                                          *)

CONSTANTS
  Interval,   \* DEFAULT_WRITE_INTERVAL, in ticks
  NoText      \* nothing is pending, nothing is released

ASSUME CoalescerAssumption == Interval \in Nat /\ NoText \notin Text

NewCoalescer == [pending |-> NoText, since |-> Interval, inFlight |-> FALSE]

\* Mutant: a write under way does not hold back the next.
DueAnyway(coalescer) == coalescer.pending # NoText /\ coalescer.since >= Interval

\* next_deadline has come: something is parked and the interval is over.
Due(coalescer) ==
  coalescer.pending # NoText /\ ~coalescer.inFlight /\ coalescer.since >= Interval

\* try_release: the coalescer, and the value to write now or NoText.
TryRelease(coalescer) ==
  IF Due(coalescer)
  THEN [coalescer |-> [pending |-> NoText, since |-> 0, inFlight |-> TRUE],
        released |-> coalescer.pending]
  ELSE [coalescer |-> coalescer, released |-> NoText]

\* Mutant: the first value offered is kept, not the latest.
KeepFirstOffer(coalescer, value) ==
  TryRelease(IF coalescer.pending # NoText THEN coalescer
             ELSE [coalescer EXCEPT !.pending = value])

\* A newer value replaces the parked one.
Offer(coalescer, value) == TryRelease([coalescer EXCEPT !.pending = value])

\* Mutant: the end of a write does not release the gate.
WriteNotDone(coalescer) == [coalescer EXCEPT !.since = 0]

\* A write that ends, or fails, starts the interval again.
WriteDone(coalescer) == [coalescer EXCEPT !.inFlight = FALSE, !.since = 0]

Elapse(coalescer) ==
  [coalescer EXCEPT !.since = IF @ < Interval THEN @ + 1 ELSE @]
=============================================================================
