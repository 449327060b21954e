------------------------------ MODULE Counting ------------------------------
(***************************************************************************)
(* Counting the messages of one kind in a channel, which the channel       *)
(* modules' properties do.                                                 *)
(***************************************************************************)
EXTENDS Naturals, Integers, Sequences, FiniteSets, FiniteSetTheorems, TLAPS

OfKind(kind, q) == {i \in DOMAIN q : q[i].kind = kind}

Count(kind, q) == Cardinality(OfKind(kind, q))

-----------------------------------------------------------------------------
(* How Count changes as a channel is sent to and received from.             *)

\* A channel holds finitely many messages of a kind.
LEMMA CountIsNat ==
  ASSUME NEW S, NEW q \in Seq(S), NEW kind
  PROVE  IsFiniteSet(OfKind(kind, q)) /\ Count(kind, q) \in Nat
<1>1. DOMAIN q = 1..Len(q) /\ Len(q) \in Nat
  OBVIOUS
<1>2. IsFiniteSet(1..Len(q))
  BY <1>1, FS_Interval
<1>3. OfKind(kind, q) \in SUBSET (1..Len(q))
  BY <1>1 DEF OfKind
<1>4. IsFiniteSet(OfKind(kind, q))
  BY <1>2, <1>3, FS_Subset
<1> QED
  BY <1>4, FS_CardinalityType DEF Count

LEMMA CountEmpty ==
  ASSUME NEW kind
  PROVE  Count(kind, <<>>) = 0
<1>1. OfKind(kind, <<>>) = {}
  BY DEF OfKind
<1> QED
  BY <1>1, FS_EmptySet DEF Count

\* Sending adds one to the count of its kind.
LEMMA CountAppend ==
  ASSUME NEW S, NEW q \in Seq(S), NEW ev \in S, NEW kind
  PROVE  Count(kind, Append(q, ev)) = Count(kind, q) + (IF ev.kind = kind THEN 1 ELSE 0)
<1> DEFINE A == OfKind(kind, q)
           B == OfKind(kind, Append(q, ev))
<1>1. /\ DOMAIN q = 1..Len(q) /\ Len(q) \in Nat
      /\ DOMAIN Append(q, ev) = 1..(Len(q) + 1)
      /\ Append(q, ev)[Len(q) + 1] = ev
      /\ \A i \in 1..Len(q) : Append(q, ev)[i] = q[i]
  OBVIOUS
<1>2. IsFiniteSet(A) /\ Cardinality(A) \in Nat
  BY CountIsNat DEF Count
<1>3. Len(q) + 1 \notin A
  BY <1>1 DEF OfKind
<1>4. CASE ev.kind = kind
  <2>1. B = A \cup {Len(q) + 1}
    BY <1>1, <1>4 DEF OfKind
  <2>2. Cardinality(B) = Cardinality(A) + 1
    BY <1>2, <1>3, <2>1, FS_AddElement
  <2> QED
    BY <1>4, <2>2 DEF Count
<1>5. CASE ev.kind # kind
  <2>1. B = A
    BY <1>1, <1>5 DEF OfKind
  <2> QED
    BY <1>2, <1>5, <2>1 DEF Count
<1> QED
  BY <1>4, <1>5

\* Receiving moves every position down by one, and the first out of the set.
LEMMA ShiftDown ==
  ASSUME NEW A \in SUBSET (Nat \ {0}), IsFiniteSet(A), NEW B \in SUBSET (Nat \ {0}),
         \A i \in Nat \ {0} : i \in B <=> i + 1 \in A
  PROVE  IsFiniteSet(B) /\ Cardinality(B) = Cardinality(A) - (IF 1 \in A THEN 1 ELSE 0)
<1> DEFINE f == [j \in A \ {1} |-> j - 1]
<1>1. f \in [A \ {1} -> B]
  <2>1. ASSUME NEW j \in A \ {1} PROVE j - 1 \in Nat \ {0} /\ (j - 1) + 1 = j
    OBVIOUS
  <2> QED
    BY <2>1
<1>2. \A i, j \in A \ {1} : f[i] = f[j] => i = j
  OBVIOUS
<1>3. \A i \in B : \E j \in A \ {1} : f[j] = i
  <2>1. TAKE i \in B
  <2>2. i + 1 \in A \ {1} /\ (i + 1) - 1 = i
    OBVIOUS
  <2> QED
    BY <2>2
<1>4. ExistsBijection(A \ {1}, B)
  BY <1>1, <1>2, <1>3 DEF ExistsBijection, Bijection, Injection, IsInjective, Surjection
<1>5. /\ IsFiniteSet(A \ {1}) /\ Cardinality(A) \in Nat
      /\ Cardinality(A \ {1}) = IF 1 \in A THEN Cardinality(A) - 1 ELSE Cardinality(A)
  BY FS_RemoveElement, FS_CardinalityType
<1> QED
  BY <1>4, <1>5, FS_Bijection

\* Receiving takes one from the count of its kind.
LEMMA CountTail ==
  ASSUME NEW S, NEW q \in Seq(S), q # <<>>, NEW kind
  PROVE  Count(kind, Tail(q)) = Count(kind, q) - (IF Head(q).kind = kind THEN 1 ELSE 0)
<1> DEFINE A == OfKind(kind, q)
           B == OfKind(kind, Tail(q))
<1>1. /\ DOMAIN q = 1..Len(q) /\ Len(q) \in Nat \ {0}
      /\ DOMAIN Tail(q) = 1..(Len(q) - 1)
      /\ Head(q) = q[1]
      /\ \A i \in 1..(Len(q) - 1) : Tail(q)[i] = q[i + 1]
  OBVIOUS
<1>2. IsFiniteSet(A)
  BY CountIsNat
<1>3. A \in SUBSET (Nat \ {0}) /\ B \in SUBSET (Nat \ {0})
  BY <1>1 DEF OfKind
<1>4. \A i \in Nat \ {0} : i \in B <=> i + 1 \in A
  BY <1>1 DEF OfKind
<1>5. 1 \in A <=> Head(q).kind = kind
  BY <1>1 DEF OfKind
<1> HIDE DEF A, B
<1>6. Cardinality(B) = Cardinality(A) - (IF 1 \in A THEN 1 ELSE 0)
  BY <1>2, <1>3, <1>4, ShiftDown
<1> QED
  BY <1>5, <1>6 DEF Count, A, B
=============================================================================
