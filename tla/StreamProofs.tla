---------------------------- MODULE StreamProofs ----------------------------
(* Proofs about a streamed session: StreamSession, for every set of texts,   *)
(* hypotheses and snapshots.  First the texts, the edits of diff.rs and the  *)
(* horizon, then what a command does to the region and the field, then the   *)
(* session, and last StreamInv, the invariant that ties the session, the two *)
(* queues, the region and the field together.                                *)
EXTENDS StreamSession, SequenceTheorems, WellFoundedInduction, TLAPS

-----------------------------------------------------------------------------
(* The largest of some numbers.                                             *)

\* A set of numbers that is not empty and is bounded has a largest.
LEMMA LargestOfSome ==
  ASSUME NEW n \in Nat, NEW S \in SUBSET (0..n), S # {}
  PROVE  Max(S) \in S /\ \A j \in S : j <= Max(S)
<1> DEFINE Less == {p \in Nat \X Nat : p[1] < p[2]}
<1>1. IsWellFoundedOn(Less, Nat)
  BY NatLessThanWellFounded DEF OpToRel
<1> DEFINE T == {n - i : i \in S}
<1>2. T \subseteq Nat /\ T # {}
  <2>1. \A i \in S : n - i \in Nat
    OBVIOUS
  <2> QED
    BY <2>1
<1>3. PICK m \in T : \A y \in T : <<y, m>> \notin Less
  BY <1>1, <1>2, WFMin
<1>4. PICK i \in S : m = n - i
  BY <1>3
<1>5. \A j \in S : i >= j
  <2> SUFFICES ASSUME NEW j \in S PROVE i >= j
    OBVIOUS
  <2>1. n - j \in T /\ n - j \in Nat /\ n - i \in Nat
    OBVIOUS
  <2>2. ~(n - j < n - i)
    BY <1>3, <1>4, <2>1
  <2>3. i \in Nat /\ j \in Nat
    OBVIOUS
  <2>4. ASSUME NEW x \in Nat, NEW y \in Nat, ~(n - y < n - x) PROVE x >= y
    BY <2>4
  <2> QED
    BY <2>2, <2>3, <2>4
<1>6. Max(S) \in S /\ \A j \in S : Max(S) >= j
  BY <1>5 DEF Max
<1> QED
  BY <1>6

\* The smaller of two numbers is one of them and above neither.
LEMMA SmallerOfTwo ==
  ASSUME NEW a \in Nat, NEW b \in Nat
  PROVE  Min({a, b}) \in {a, b} /\ Min({a, b}) <= a /\ Min({a, b}) <= b
<1>1. \E x \in {a, b} : \A y \in {a, b} : x <= y
  OBVIOUS
<1> QED
  BY <1>1 DEF Min

\* The larger of two numbers is one of them and below neither.
LEMMA LargerOfTwo ==
  ASSUME NEW a \in Nat, NEW b \in Int
  PROVE  Max({a, b}) = IF b <= a THEN a ELSE b
<1>1. \E x \in {a, b} : \A y \in {a, b} : x >= y
  OBVIOUS
<1> QED
  BY <1>1 DEF Max

-----------------------------------------------------------------------------
(* Texts and their parts.                                                   *)

\* A text without its first n graphemes, and the first n.
LEMMA Parts ==
  ASSUME NEW t \in Text, NEW n \in 0..Len(t)
  PROVE  /\ SubSeq(t, 1, n) \in Text /\ Len(SubSeq(t, 1, n)) = n
         /\ Drop(t, n) \in Text /\ Len(Drop(t, n)) = Len(t) - n
         /\ \A i \in 1..n : SubSeq(t, 1, n)[i] = t[i]
         /\ \A i \in 1..(Len(t) - n) : Drop(t, n)[i] = t[n + i]
<1>1. Len(t) \in Nat /\ \A i \in 1..Len(t) : t[i] \in Graphemes
  BY DEF Text
<1>2. /\ SubSeq(t, 1, n) \in Text /\ Len(SubSeq(t, 1, n)) = n
      /\ \A i \in 1..n : SubSeq(t, 1, n)[i] = t[i]
  BY <1>1, SubSeqProperties DEF Text
<1>3. /\ SubSeq(t, n + 1, Len(t)) \in Text
      /\ Len(SubSeq(t, n + 1, Len(t))) = Len(t) - n
      /\ \A i \in 1..(Len(t) - n) : SubSeq(t, n + 1, Len(t))[i] = t[n + i]
  BY <1>1, SubSeqProperties DEF Text
<1> QED
  BY <1>2, <1>3 DEF Drop

\* A stretch of a text is a text of that length.
LEMMA Middle ==
  ASSUME NEW t \in Text, NEW m \in 0..Len(t), NEW n \in m..Len(t)
  PROVE  /\ SubSeq(t, m + 1, n) \in Text /\ Len(SubSeq(t, m + 1, n)) = n - m
         /\ \A i \in 1..(n - m) : SubSeq(t, m + 1, n)[i] = t[m + i]
<1>1. Len(t) \in Nat /\ \A i \in 1..Len(t) : t[i] \in Graphemes
  BY DEF Text
<1> QED
  BY <1>1, SubSeqProperties DEF Text

\* A text is its parts.
LEMMA Reassembled ==
  ASSUME NEW t \in Text, NEW m \in 0..Len(t), NEW n \in m..Len(t)
  PROVE  SubSeq(t, 1, m) \o SubSeq(t, m + 1, n) \o Drop(t, n) = t
<1>1. Len(t) \in Nat
  BY DEF Text
<1>2. SubSeq(t, 1, m) \o SubSeq(t, m + 1, n) = SubSeq(t, 1, n)
  BY <1>1, ConcatAdjacentSubSeq DEF Text
<1>3. SubSeq(t, 1, n) \o SubSeq(t, n + 1, Len(t)) = SubSeq(t, 1, Len(t))
  <2>1. 1 \in 1..Len(t) + 1 /\ n \in 1 - 1..Len(t) /\ Len(t) \in n..Len(t)
    BY <1>1
  <2> QED
    BY <2>1, ConcatAdjacentSubSeq DEF Text
<1> QED
  BY <1>2, <1>3, SubSeqFull DEF Text, Drop

\* Texts of one length with the same graphemes are one text.
LEMMA SameText ==
  ASSUME NEW s \in Text, NEW t \in Text, Len(s) = Len(t), \A i \in 1..Len(s) : s[i] = t[i]
  PROVE  s = t
BY SeqEqual DEF Text

\* The last n graphemes of a text, by their places.
LEMMA Suffix ==
  ASSUME NEW t \in Text, NEW k \in 0..Len(t)
  PROVE  /\ Drop(t, Len(t) - k) \in Text /\ Len(Drop(t, Len(t) - k)) = k
         /\ \A i \in 1..k : Drop(t, Len(t) - k)[i] = t[(Len(t) - k) + i]
<1>1. Len(t) \in Nat
  BY DEF Text
<1> DEFINE n == Len(t) - k
<1>2. n \in 0..Len(t) /\ Len(t) - n = k
  BY <1>1
<1>3. /\ Drop(t, n) \in Text /\ Len(Drop(t, n)) = Len(t) - n
      /\ \A i \in 1..(Len(t) - n) : Drop(t, n)[i] = t[n + i]
  <2> HIDE DEF n
  <2> QED
    BY <1>2, Parts
<1> QED
  BY <1>2, <1>3

\* The longest prefix, and the longest suffix, that two texts share.
LEMMA CommonPrefixIs ==
  ASSUME NEW a \in Text, NEW b \in Text
  PROVE  /\ CommonPrefix(a, b) \in Nat /\ CommonPrefix(a, b) <= Len(a) /\ CommonPrefix(a, b) <= Len(b)
         /\ \A n \in 0..CommonPrefix(a, b) : SubSeq(a, 1, n) = SubSeq(b, 1, n)
         /\ \A n \in Nat : n <= Len(a) /\ n <= Len(b) /\ SubSeq(a, 1, n) = SubSeq(b, 1, n) => n <= CommonPrefix(a, b)
<1>1. Len(a) \in Nat /\ Len(b) \in Nat
  BY DEF Text
<1> DEFINE least == Min({Len(a), Len(b)})
           S == {n \in 0..least : SubSeq(a, 1, n) = SubSeq(b, 1, n)}
<1>2. least \in Nat /\ least <= Len(a) /\ least <= Len(b) /\ least \in {Len(a), Len(b)}
  BY <1>1, SmallerOfTwo
<1>3. 0 \in S
  <2>1. SubSeq(a, 1, 0) = <<>> /\ SubSeq(b, 1, 0) = <<>>
    BY SubSeqEmpty
  <2> QED
    BY <1>2, <2>1
<1>4. Max(S) \in S /\ \A j \in S : j <= Max(S)
  BY <1>2, <1>3, LargestOfSome
<1>5. CommonPrefix(a, b) = Max(S)
  BY DEF CommonPrefix
<1> DEFINE p == Max(S)
<1> HIDE DEF least
<1>6. p \in 0..least /\ SubSeq(a, 1, p) = SubSeq(b, 1, p)
  BY <1>4
<1>7. ASSUME NEW n \in 0..p PROVE SubSeq(a, 1, n) = SubSeq(b, 1, n)
  <2>1. p \in 0..Len(a) /\ p \in 0..Len(b) /\ n \in 0..Len(a) /\ n \in 0..Len(b)
    BY <1>1, <1>2, <1>6, <1>7
  <2> HIDE DEF p
  <2>2. \A i \in 1..p : a[i] = SubSeq(a, 1, p)[i] /\ b[i] = SubSeq(b, 1, p)[i]
    BY <2>1, Parts
  <2>3. \A i \in 1..n : a[i] = b[i]
    BY <1>6, <1>7, <2>1, <2>2
  <2> QED
    BY <2>1, <2>3, Parts, SameText
<1> HIDE DEF p
<1>8. ASSUME NEW n \in Nat, n <= Len(a), n <= Len(b), SubSeq(a, 1, n) = SubSeq(b, 1, n) PROVE n \in S
  BY <1>1, <1>2, <1>8
<1>9. p \in Nat /\ p <= Len(a) /\ p <= Len(b)
  BY <1>1, <1>2, <1>6
<1>10. ASSUME NEW n \in Nat, n <= Len(a), n <= Len(b), SubSeq(a, 1, n) = SubSeq(b, 1, n) PROVE n <= p
  BY <1>4, <1>8, <1>10 DEF p
<1> QED
  BY <1>5, <1>7, <1>9, <1>10 DEF p

\* The suffix of the two lies in both, and the graphemes there are the same.
LEMMA CommonSuffixIs ==
  ASSUME NEW a \in Text, NEW b \in Text
  PROVE  /\ CommonSuffix(a, b) \in Nat /\ CommonSuffix(a, b) <= Len(a) /\ CommonSuffix(a, b) <= Len(b)
         /\ Drop(a, Len(a) - CommonSuffix(a, b)) = Drop(b, Len(b) - CommonSuffix(a, b))
<1>1. Len(a) \in Nat /\ Len(b) \in Nat
  BY DEF Text
<1> DEFINE least == Min({Len(a), Len(b)})
           S == {n \in 0..least : Drop(a, Len(a) - n) = Drop(b, Len(b) - n)}
<1>2. least \in Nat /\ least <= Len(a) /\ least <= Len(b)
  BY <1>1, SmallerOfTwo
<1>3. 0 \in S
  <2>1. SubSeq(a, Len(a) + 1, Len(a)) = <<>> /\ SubSeq(b, Len(b) + 1, Len(b)) = <<>>
    BY <1>1, SubSeqEmpty
  <2> QED
    BY <1>1, <1>2, <2>1 DEF Drop
<1>4. Max(S) \in S
  BY <1>2, <1>3, LargestOfSome
<1>5. CommonSuffix(a, b) = Max(S)
  BY DEF CommonSuffix
<1> HIDE DEF least
<1> QED
  BY <1>1, <1>2, <1>4, <1>5

-----------------------------------------------------------------------------
(* diff.rs                                                                  *)

\* Word boundaries are positions of the text, its two ends among them.
LEMMA BoundariesAre ==
  ASSUME NEW t \in Text
  PROVE  Boundaries(t) \subseteq 0..Len(t) /\ 0 \in Boundaries(t) /\ Len(t) \in Boundaries(t)
<1>1. Len(t) \in Nat
  BY DEF Text
<1> QED
  BY <1>1 DEF Boundaries

\* The fields of an edit.
LEMMA EditHas ==
  ASSUME NEW from, NEW to, NEW insert
  PROVE  Edit(from, to, insert).from = from /\ Edit(from, to, insert).to = to /\ Edit(from, to, insert).insert = insert
BY DEF Edit

\* A replacement that keeps what two texts have in common turns one into the other.
LEMMA Splice ==
  ASSUME NEW old \in Text, NEW new \in Text, NEW from \in Nat, NEW k \in Nat,
         from <= Len(old) - k, from <= Len(new) - k,
         SubSeq(old, 1, from) = SubSeq(new, 1, from), Drop(old, Len(old) - k) = Drop(new, Len(new) - k)
  PROVE  ApplyEdit(Edit(from, Len(old) - k, SubSeq(new, from + 1, Len(new) - k)), old) = new
<1>1. Len(old) \in Nat /\ Len(new) \in Nat
  BY DEF Text
<1>2. from \in 0..Len(new) /\ Len(new) - k \in from..Len(new)
  BY <1>1
<1> QED
  BY <1>2, Reassembled DEF ApplyEdit, Edit

\* The splice of two texts is of whole words, lies in the old one and gives the new one.
LEMMA MinimalEditIs ==
  ASSUME NEW old \in Text, NEW new \in Text, NEW edit, edit = MinimalEdit(old, new)
  PROVE  /\ edit.from \in Nat /\ edit.to \in Nat /\ edit.from <= edit.to /\ edit.to <= Len(old)
         /\ edit.insert \in Text /\ edit = Edit(edit.from, edit.to, edit.insert)
         /\ {edit.from, edit.to} \subseteq Boundaries(old)
         /\ ApplyEdit(edit, old) = new
         /\ old # new => edit.from \in Boundaries(new)
<1>1. Len(old) \in Nat /\ Len(new) \in Nat
  BY DEF Text
<1>2. CASE old = new
  <2>1. edit = Edit(Len(old), Len(old), <<>>)
    BY <1>2 DEF MinimalEdit
  <2>2. SubSeq(old, 1, Len(old)) \o <<>> \o Drop(old, Len(old)) = old
    <3>1. SubSeq(old, Len(old) + 1, Len(old)) = <<>>
      BY <1>1, SubSeqEmpty
    <3>2. Len(old) \in 0..Len(old) /\ Len(old) \in Len(old)..Len(old)
      BY <1>1
    <3>3. SubSeq(old, 1, Len(old)) \o SubSeq(old, Len(old) + 1, Len(old)) \o Drop(old, Len(old)) = old
      BY <3>2, Reassembled
    <3> QED
      BY <3>1, <3>3
  <2>3. <<>> \in Text
    BY DEF Text
  <2> QED
    BY <1>1, <1>2, <2>1, <2>2, <2>3, BoundariesAre DEF Edit, ApplyEdit
<1>3. CASE old # new
  <2> DEFINE p == CommonPrefix(old, new)
             s == CommonSuffix(Drop(old, p), Drop(new, p))
             F == {b \in Boundaries(old) \cap Boundaries(new) : b <= p}
             K == {k \in 0..s : Len(old) - k \in Boundaries(old) /\ Len(new) - k \in Boundaries(new)}
             begins == Max(F)
             kept == Max(K)
  <2>1. /\ p \in Nat /\ p <= Len(old) /\ p <= Len(new)
        /\ \A n \in 0..p : SubSeq(old, 1, n) = SubSeq(new, 1, n)
    BY CommonPrefixIs
  <2> HIDE DEF p
  <2>2. /\ Drop(old, p) \in Text /\ Len(Drop(old, p)) = Len(old) - p
        /\ Drop(new, p) \in Text /\ Len(Drop(new, p)) = Len(new) - p
        /\ \A i \in 1..(Len(old) - p) : Drop(old, p)[i] = old[p + i]
        /\ \A i \in 1..(Len(new) - p) : Drop(new, p)[i] = new[p + i]
    BY <1>1, <2>1, Parts
  <2>3. /\ s \in Nat /\ s <= Len(old) - p /\ s <= Len(new) - p
        /\ Drop(Drop(old, p), Len(old) - p - s) = Drop(Drop(new, p), Len(new) - p - s)
    BY <2>2, CommonSuffixIs
  <2> HIDE DEF s
  <2>4. begins \in F
    <3>1. 0 \in F /\ F \subseteq 0..Len(old)
      BY <2>1, BoundariesAre
    <3> QED
      BY <1>1, <3>1, LargestOfSome
  <2>5. kept \in K
    <3>1. 0 \in K /\ K \subseteq 0..s
      BY <1>1, <2>3, BoundariesAre
    <3> QED
      BY <2>3, <3>1, LargestOfSome
  <2>6. edit = Edit(begins, Len(old) - kept, SubSeq(new, begins + 1, Len(new) - kept))
    BY <1>3 DEF MinimalEdit, p, s
  <2> HIDE DEF begins, kept
  <2>7. begins \in Nat /\ begins <= p /\ kept \in Nat /\ kept <= s
    <3>1. begins \in 0..Len(old)
      BY <2>4, BoundariesAre
    <3> QED
      BY <1>1, <2>3, <2>4, <2>5, <3>1
  <2>8. Drop(old, Len(old) - kept) = Drop(new, Len(new) - kept)
    <3>1. /\ Drop(old, Len(old) - kept) \in Text /\ Len(Drop(old, Len(old) - kept)) = kept
          /\ Drop(new, Len(new) - kept) \in Text /\ Len(Drop(new, Len(new) - kept)) = kept
          /\ \A i \in 1..kept : Drop(old, Len(old) - kept)[i] = old[(Len(old) - kept) + i]
          /\ \A i \in 1..kept : Drop(new, Len(new) - kept)[i] = new[(Len(new) - kept) + i]
      <4>1. kept \in 0..Len(old) /\ kept \in 0..Len(new)
        BY <1>1, <2>1, <2>3, <2>7
      <4> QED
        BY <4>1, Suffix
    <3>2. ASSUME NEW j \in 1..s PROVE old[Len(old) - s + j] = new[Len(new) - s + j]
      <4>1. /\ \A i \in 1..s : Drop(Drop(old, p), Len(old) - p - s)[i] = Drop(old, p)[(Len(old) - p - s) + i]
            /\ \A i \in 1..s : Drop(Drop(new, p), Len(new) - p - s)[i] = Drop(new, p)[(Len(new) - p - s) + i]
        <5>1. s \in 0..Len(Drop(old, p)) /\ s \in 0..Len(Drop(new, p))
          BY <1>1, <2>1, <2>2, <2>3
        <5>2. /\ \A i \in 1..s : Drop(Drop(old, p), Len(Drop(old, p)) - s)[i] = Drop(old, p)[(Len(Drop(old, p)) - s) + i]
              /\ \A i \in 1..s : Drop(Drop(new, p), Len(Drop(new, p)) - s)[i] = Drop(new, p)[(Len(Drop(new, p)) - s) + i]
          BY <2>2, <5>1, Suffix
        <5> QED
          BY <2>2, <5>2
      <4>2. /\ (Len(old) - p - s) + j \in 1..(Len(old) - p) /\ p + ((Len(old) - p - s) + j) = Len(old) - s + j
            /\ (Len(new) - p - s) + j \in 1..(Len(new) - p) /\ p + ((Len(new) - p - s) + j) = Len(new) - s + j
        BY <1>1, <2>1, <2>3
      <4>3. Drop(old, p)[(Len(old) - p - s) + j] = old[Len(old) - s + j] /\ Drop(new, p)[(Len(new) - p - s) + j] = new[Len(new) - s + j]
        BY <2>2, <4>2
      <4> QED
        BY <2>3, <4>1, <4>3
    <3>3. ASSUME NEW i \in 1..kept PROVE old[Len(old) - kept + i] = new[Len(new) - kept + i]
      <4>1. (s - kept) + i \in 1..s
        BY <2>3, <2>7
      <4>2. Len(old) - s + ((s - kept) + i) = Len(old) - kept + i /\ Len(new) - s + ((s - kept) + i) = Len(new) - kept + i
        BY <1>1, <2>3, <2>7
      <4> QED
        BY <3>2, <4>1, <4>2
    <3> QED
      BY <3>1, <3>3, SameText
  <2>9. begins <= Len(old) - kept /\ begins <= Len(new) - kept /\ Len(old) - kept \in Nat /\ Len(new) - kept \in Nat
    BY <1>1, <2>1, <2>3, <2>7
  <2>10. ApplyEdit(edit, old) = new
    <3>1. SubSeq(old, 1, begins) = SubSeq(new, 1, begins)
      BY <2>1, <2>7
    <3>2. ApplyEdit(Edit(begins, Len(old) - kept, SubSeq(new, begins + 1, Len(new) - kept)), old) = new
      BY <2>7, <2>8, <2>9, <3>1, Splice
    <3> QED
      BY <2>6, <3>2, Zenon
  <2>11. SubSeq(new, begins + 1, Len(new) - kept) \in Text
    <3>1. begins \in 0..Len(new) /\ Len(new) - kept \in begins..Len(new)
      BY <1>1, <2>7, <2>9
    <3> QED
      BY <3>1, Middle
  <2>12. begins \in Boundaries(old) /\ begins \in Boundaries(new) /\ Len(old) - kept \in Boundaries(old)
    BY <2>4, <2>5
  <2>13. edit.from = begins /\ edit.to = Len(old) - kept /\ edit.insert = SubSeq(new, begins + 1, Len(new) - kept)
    <3> DEFINE to == Len(old) - kept
               insert == SubSeq(new, begins + 1, Len(new) - kept)
    <3>1. edit = Edit(begins, to, insert)
      BY <2>6
    <3> HIDE DEF to, insert
    <3>2. edit.from = begins /\ edit.to = to /\ edit.insert = insert
      BY <3>1 DEF Edit
    <3> QED
      BY <3>2 DEF to, insert
  <2>14. Len(old) - kept <= Len(old)
    BY <1>1, <2>7
  <2> QED
    BY <2>6, <2>7, <2>9, <2>10, <2>11, <2>12, <2>13, <2>14
<1> QED
  BY <1>2, <1>3

-----------------------------------------------------------------------------
(* horizon.rs                                                               *)

\* A set of naturals that is not empty has a least.
LEMMA LeastOfSome ==
  ASSUME NEW S \in SUBSET Nat, S # {}
  PROVE  \E m \in S : \A j \in S : m <= j
<1> DEFINE Less == {p \in Nat \X Nat : p[1] < p[2]}
<1>1. IsWellFoundedOn(Less, Nat)
  BY NatLessThanWellFounded DEF OpToRel
<1>2. PICK m \in S : \A y \in S : <<y, m>> \notin Less
  BY <1>1, WFMin
<1>3. ASSUME NEW j \in S PROVE m <= j
  <2>1. ~(j < m)
    BY <1>2
  <2>2. m \in Nat /\ j \in Nat
    OBVIOUS
  <2> HIDE DEF Less
  <2> QED
    BY <2>1, <2>2
<1> QED
  BY <1>3

\* A word back is to where a word begins, or to the start.
LEMMA RetreatWordIs ==
  ASSUME NEW t, NEW n \in Nat
  PROVE  /\ RetreatWord(t, n) \in Nat /\ RetreatWord(t, n) <= n
         /\ RetreatWord(t, n) # 0 => RetreatWord(t, n) < n /\ t[RetreatWord(t, n) + 1] # Space
<1> DEFINE S == {0} \cup {i \in 0..(n - 1) : t[i + 1] # Space /\ (i = 0 \/ t[i] = Space)}
<1>1. S \subseteq 0..n /\ S # {}
  OBVIOUS
<1>2. Max(S) \in S
  BY <1>1, LargestOfSome
<1>3. RetreatWord(t, n) = Max(S)
  BY DEF RetreatWord
<1> QED
  BY <1>2, <1>3

\* The step of the recursion, and the function it defines.
Steps(f, t, n, words) == f = [k \in 0..words |-> IF k = 0 THEN n ELSE RetreatWord(t, f[k - 1])]

\* By the least number of words at which it would fail: the function of the
\* recursion takes the values the recursion gives.
LEMMA StepsExist ==
  ASSUME NEW t, NEW n \in Nat, NEW words \in Nat
  PROVE  \E f : Steps(f, t, n, words)
<1> DEFINE S == {w \in Nat : ~ \E f : Steps(f, t, n, w)}
<1> SUFFICES ASSUME S # {} PROVE FALSE
  OBVIOUS
<1>1. PICK m \in S : \A j \in S : m <= j
  BY LeastOfSome
<1>2. CASE m = 0
  <2> DEFINE f == [k \in 0..0 |-> n]
  <2>1. Steps(f, t, n, 0)
    BY DEF Steps
  <2> QED
    BY <1>2, <2>1
<1>3. CASE m # 0
  <2>1. m - 1 \in Nat /\ m - 1 \notin S
    BY <1>1, <1>3
  <2>2. PICK g : Steps(g, t, n, m - 1)
    BY <2>1
  <2> DEFINE f == [k \in 0..m |-> IF k = 0 THEN n ELSE RetreatWord(t, g[k - 1])]
  <2>3. ASSUME NEW k \in 0..m PROVE f[k] = IF k = 0 THEN n ELSE RetreatWord(t, f[k - 1])
    <3>1. CASE k # 0
      <4>1. k - 1 \in 0..(m - 1) /\ k - 1 \in 0..m
        BY <1>1, <3>1
      <4>2. g[k - 1] = IF k - 1 = 0 THEN n ELSE RetreatWord(t, g[(k - 1) - 1])
        BY <2>2, <4>1 DEF Steps
      <4>3. f[k - 1] = IF k - 1 = 0 THEN n ELSE RetreatWord(t, g[(k - 1) - 1])
        BY <4>1
      <4> QED
        BY <4>2, <4>3
    <3> QED
      BY <3>1
  <2>4. f = [k \in 0..m |-> IF k = 0 THEN n ELSE RetreatWord(t, f[k - 1])]
    BY <2>3
  <2>5. Steps(f, t, n, m)
    BY <2>4 DEF Steps
  <2> QED
    BY <2>5
<1> QED
  BY <1>2, <1>3

\* Words back from a place is a place of the text no further than it.
LEMMA RetreatWordsIs ==
  ASSUME NEW t, NEW n \in Nat, NEW words \in Nat
  PROVE  /\ RetreatWords(t, n, words) \in Nat /\ RetreatWords(t, n, words) <= n
         /\ words # 0 /\ RetreatWords(t, n, words) # 0 =>
              RetreatWords(t, n, words) < n /\ t[RetreatWords(t, n, words) + 1] # Space
<1> DEFINE back == CHOOSE f : Steps(f, t, n, words)
<1>1. Steps(back, t, n, words)
  BY StepsExist
<1>2. RetreatWords(t, n, words) = back[words]
  BY DEF RetreatWords, Steps
<1> HIDE DEF back
<1>3. \A k \in 0..words : back[k] = IF k = 0 THEN n ELSE RetreatWord(t, back[k - 1])
  BY <1>1 DEF Steps
<1>4. \A k \in 0..words : back[k] \in Nat /\ back[k] <= n
  <2> DEFINE S == {k \in 0..words : ~(back[k] \in Nat /\ back[k] <= n)}
  <2> SUFFICES ASSUME S # {} PROVE FALSE
    OBVIOUS
  <2>1. PICK m \in S : \A j \in S : m <= j
    <3>1. S \in SUBSET Nat
      OBVIOUS
    <3> HIDE DEF S
    <3> QED
      BY <3>1, LeastOfSome
  <2>2. m # 0
    BY <1>3, <2>1
  <2>3. m - 1 \in 0..words /\ m - 1 \notin S
    BY <2>1, <2>2
  <2>4. back[m - 1] \in Nat /\ back[m - 1] <= n
    BY <2>3
  <2>5. back[m] = RetreatWord(t, back[m - 1])
    BY <1>3, <2>1, <2>2
  <2>6. RetreatWord(t, back[m - 1]) \in Nat /\ RetreatWord(t, back[m - 1]) <= back[m - 1]
    BY <2>4, RetreatWordIs
  <2> QED
    BY <2>1, <2>4, <2>5, <2>6
<1>5. ASSUME words # 0, back[words] # 0 PROVE back[words] < n /\ t[back[words] + 1] # Space
  <2>1. back[words] = RetreatWord(t, back[words - 1]) /\ back[words - 1] \in Nat /\ back[words - 1] <= n
    BY <1>3, <1>4, <1>5
  <2>2. back[words] < back[words - 1] /\ t[back[words] + 1] # Space
    BY <1>5, <2>1, RetreatWordIs
  <2> QED
    BY <1>4, <2>1, <2>2
<1> QED
  BY <1>2, <1>4, <1>5

\* The least of the lengths to which hypotheses agree.
LEMMA SmallestOfSome ==
  ASSUME NEW S \in SUBSET Nat, S # {}
  PROVE  Min(S) \in S /\ \A j \in S : Min(S) <= j
BY LeastOfSome DEF Min

\* What is agreed on is a prefix of every hypothesis of the window.
LEMMA AgreedPrefixIs ==
  ASSUME NEW recent \in Seq(Text), recent # <<>>
  PROVE  /\ AgreedPrefix(recent) \in Nat
         /\ \A i \in 1..Len(recent) : AgreedPrefix(recent) <= Len(recent[i])
         /\ \A i \in 1..Len(recent) : \A n \in 0..AgreedPrefix(recent) :
              SubSeq(recent[1], 1, n) = SubSeq(recent[i], 1, n)
<1>1. Len(recent) \in Nat /\ 1 \in 1..Len(recent) /\ \A i \in 1..Len(recent) : recent[i] \in Text
  OBVIOUS
<1> DEFINE S == {CommonPrefix(recent[1], recent[i]) : i \in 1..Len(recent)}
<1>2. S \in SUBSET Nat /\ S # {}
  BY <1>1, CommonPrefixIs
<1>3. Min(S) \in S /\ \A j \in S : Min(S) <= j
  <2> HIDE DEF S
  <2> QED
    BY <1>2, SmallestOfSome
<1>4. AgreedPrefix(recent) = Min(S)
  BY DEF AgreedPrefix
<1>5. ASSUME NEW i \in 1..Len(recent)
      PROVE  /\ Min(S) <= Len(recent[i])
             /\ \A n \in 0..Min(S) : SubSeq(recent[1], 1, n) = SubSeq(recent[i], 1, n)
  <2>1. CommonPrefix(recent[1], recent[i]) \in S
    OBVIOUS
  <2>2. Min(S) <= CommonPrefix(recent[1], recent[i]) /\ Min(S) \in Nat
    BY <1>2, <1>3, <2>1
  <2>3. /\ CommonPrefix(recent[1], recent[i]) \in Nat /\ CommonPrefix(recent[1], recent[i]) <= Len(recent[i])
        /\ \A n \in 0..CommonPrefix(recent[1], recent[i]) : SubSeq(recent[1], 1, n) = SubSeq(recent[i], 1, n)
    BY <1>1, CommonPrefixIs
  <2>4. Len(recent[i]) \in Nat
    BY <1>1 DEF Text
  <2> HIDE DEF S
  <2> QED
    BY <2>2, <2>3, <2>4
<1> QED
  BY <1>2, <1>3, <1>4, <1>5

\* The window holds the last hypotheses, the newest last.
LEMMA WindowIs ==
  ASSUME NEW recent \in Seq(Text), Len(recent) <= Stability, NEW hypothesis \in Text
  PROVE  /\ Window(recent, hypothesis) \in Seq(Text)
         /\ Len(Window(recent, hypothesis)) \in 1..Stability
         /\ Window(recent, hypothesis)[Len(Window(recent, hypothesis))] = hypothesis
<1> DEFINE all == Append(recent, hypothesis)
           gone == Max({0, Len(all) - Stability})
<1>1. all \in Seq(Text) /\ Len(all) = Len(recent) + 1 /\ all[Len(recent) + 1] = hypothesis /\ Len(recent) \in Nat
  BY AppendProperties
<1>2. Stability \in Nat /\ Stability > 0
  BY HorizonAssumption
<1> HIDE DEF all
<1>3. gone = IF Len(all) - Stability <= 0 THEN 0 ELSE Len(all) - Stability
  BY <1>1, <1>2, LargerOfTwo
<1> HIDE DEF gone
<1>4. gone \in Nat /\ gone + 1 <= Len(all) /\ Len(all) - gone \in 1..Stability
  BY <1>1, <1>2, <1>3
<1>5. Window(recent, hypothesis) = SubSeq(all, gone + 1, Len(all))
  BY DEF Window, Drop, all, gone
<1>6. \A i \in gone + 1..Len(all) : all[i] \in Text
  BY <1>1, <1>4
<1>7. /\ SubSeq(all, gone + 1, Len(all)) \in Seq(Text)
      /\ Len(SubSeq(all, gone + 1, Len(all))) = Len(all) - gone
      /\ \A i \in 1..(Len(all) - gone) : SubSeq(all, gone + 1, Len(all))[i] = all[gone + i]
  BY <1>1, <1>4, <1>6, SubSeqProperties
<1>8. gone + (Len(all) - gone) = Len(recent) + 1 /\ Len(all) - gone \in 1..(Len(all) - gone)
  BY <1>1, <1>4
<1> QED
  BY <1>1, <1>4, <1>5, <1>7, <1>8

\* What is stable is a prefix of what is agreed, cut where a word begins.
LEMMA StableLengthIs ==
  ASSUME NEW recent \in Seq(Text), recent # <<>>, Len(recent) <= Stability,
         NEW hypothesis \in Text, recent[Len(recent)] = hypothesis
  PROVE  /\ StableLength(recent, hypothesis) \in Boundaries(hypothesis)
         /\ StableLength(recent, hypothesis) # 0 =>
              /\ Len(recent) = Stability
              /\ \A i \in 1..Len(recent) : /\ StableLength(recent, hypothesis) <= Len(recent[i])
                                            /\ SubSeq(recent[i], 1, StableLength(recent, hypothesis))
                                                 = SubSeq(hypothesis, 1, StableLength(recent, hypothesis))
              /\ Lookback > 0 => \E i \in StableLength(recent, hypothesis) + 1..Len(hypothesis) : hypothesis[i] # Space
<1>1. /\ Len(recent) \in Nat /\ Len(recent) \in 1..Len(recent) /\ 1 \in 1..Len(recent) /\ Len(hypothesis) \in Nat
      /\ \A i \in 1..Len(recent) : Len(recent[i]) \in Nat
  BY DEF Text
<1> DEFINE agreed == IF Len(recent) < Stability THEN 0 ELSE AgreedPrefix(recent)
           held == RetreatWords(hypothesis, agreed, Lookback)
           B == {b \in Boundaries(hypothesis) : b <= held}
           stable == Max(B)
<1>2. Stability \in Nat /\ Lookback \in Nat
  BY HorizonAssumption
<1>3. /\ AgreedPrefix(recent) \in Nat /\ \A i \in 1..Len(recent) : AgreedPrefix(recent) <= Len(recent[i])
      /\ \A i \in 1..Len(recent) : \A n \in 0..AgreedPrefix(recent) : SubSeq(recent[1], 1, n) = SubSeq(recent[i], 1, n)
  BY AgreedPrefixIs
<1>4. agreed \in Nat /\ agreed <= Len(hypothesis) /\ agreed <= AgreedPrefix(recent)
      /\ (agreed # 0 => Len(recent) = Stability)
  BY <1>1, <1>2, <1>3
<1> HIDE DEF agreed
<1>5. held \in Nat /\ held <= agreed /\ (Lookback # 0 /\ held # 0 => held < agreed /\ hypothesis[held + 1] # Space)
  BY <1>2, <1>4, RetreatWordsIs
<1> HIDE DEF held
<1>6. stable \in B
  <2>1. 0 \in B /\ B \subseteq 0..Len(hypothesis)
    BY <1>5, BoundariesAre
  <2> HIDE DEF B
  <2> QED
    BY <1>1, <2>1, LargestOfSome
<1>7. StableLength(recent, hypothesis) = stable
  BY DEF StableLength, agreed, held
<1>8. stable \in Boundaries(hypothesis) /\ stable \in Nat /\ stable <= held
  <2>1. stable \in Boundaries(hypothesis) /\ stable <= held
    BY <1>6
  <2> QED
    BY <1>1, <2>1, BoundariesAre
<1> HIDE DEF stable
<1>9. ASSUME stable # 0
      PROVE  /\ Len(recent) = Stability
             /\ \A i \in 1..Len(recent) : stable <= Len(recent[i]) /\ SubSeq(recent[i], 1, stable) = SubSeq(hypothesis, 1, stable)
             /\ Lookback > 0 => \E i \in stable + 1..Len(hypothesis) : hypothesis[i] # Space
  <2>1. agreed # 0 /\ held # 0 /\ stable \in 0..AgreedPrefix(recent)
    BY <1>3, <1>4, <1>5, <1>8, <1>9
  <2>2. ASSUME NEW i \in 1..Len(recent)
        PROVE  stable <= Len(recent[i]) /\ SubSeq(recent[i], 1, stable) = SubSeq(hypothesis, 1, stable)
    <3>1. SubSeq(recent[1], 1, stable) = SubSeq(recent[i], 1, stable) /\ AgreedPrefix(recent) <= Len(recent[i])
      BY <1>3, <2>1
    <3>2. SubSeq(recent[1], 1, stable) = SubSeq(hypothesis, 1, stable)
      BY <1>1, <1>3, <2>1
    <3> QED
      BY <1>1, <1>3, <2>1, <3>1, <3>2
  <2>3. Lookback > 0 => held + 1 \in stable + 1..Len(hypothesis) /\ hypothesis[held + 1] # Space
    BY <1>1, <1>2, <1>4, <1>5, <1>8, <2>1
  <2> QED
    BY <1>4, <2>1, <2>2, <2>3
<1> QED
  BY <1>7, <1>8, <1>9

\* What a newly committed text is, beside the window it was agreed on by.
AgreedOn(committed, recent) ==
  LET rest == Drop(recent[Stability], Len(committed))
  IN /\ Len(recent) = Stability
     /\ \A i \in 1..Stability : StartsWith(recent[i], committed)
     /\ Lookback > 0 => \E i \in 1..Len(rest) : rest[i] # Space
     /\ rest # <<>> /\ rest[1] # Space => committed[Len(committed)] = Space

\* An update commits a prefix of the hypothesis, and never takes anything back.
LEMMA HorizonUpdateIs ==
  ASSUME NEW horizon, horizon.committed \in Text, horizon.recent \in Seq(Text), Len(horizon.recent) <= Stability,
         NEW hypothesis \in Text
  PROVE  /\ HorizonUpdate(horizon, hypothesis)
               = [committed |-> HorizonUpdate(horizon, hypothesis).committed,
                  recent |-> HorizonUpdate(horizon, hypothesis).recent]
         /\ HorizonUpdate(horizon, hypothesis).committed \in Text
         /\ HorizonUpdate(horizon, hypothesis).recent \in Seq(Text)
         /\ Len(HorizonUpdate(horizon, hypothesis).recent) <= Stability
         /\ StartsWith(HorizonUpdate(horizon, hypothesis).committed, horizon.committed)
         /\ HorizonUpdate(horizon, hypothesis).committed # horizon.committed =>
               AgreedOn(HorizonUpdate(horizon, hypothesis).committed, HorizonUpdate(horizon, hypothesis).recent)
<1> DEFINE old == horizon.committed
           recent == Window(horizon.recent, hypothesis)
           stable == StableLength(recent, hypothesis)
           grows == StartsWith(hypothesis, old) /\ stable > Len(old)
           new == IF grows THEN SubSeq(hypothesis, 1, stable) ELSE old
<1>1. HorizonUpdate(horizon, hypothesis) = [committed |-> new, recent |-> recent]
  BY DEF HorizonUpdate
<1>2. Stability \in Nat /\ Lookback \in Nat /\ Len(old) \in Nat /\ old \in Text /\ Len(hypothesis) \in Nat
  BY HorizonAssumption DEF Text
<1>3. recent \in Seq(Text) /\ Len(recent) \in 1..Stability /\ recent[Len(recent)] = hypothesis
  BY WindowIs
<1> HIDE DEF recent
<1>4. /\ stable \in Boundaries(hypothesis)
      /\ stable # 0 =>
           /\ Len(recent) = Stability
           /\ \A i \in 1..Len(recent) : stable <= Len(recent[i]) /\ SubSeq(recent[i], 1, stable) = SubSeq(hypothesis, 1, stable)
           /\ Lookback > 0 => \E i \in stable + 1..Len(hypothesis) : hypothesis[i] # Space
  <2>1. recent # <<>> /\ Len(recent) <= Stability
    BY <1>2, <1>3
  <2> QED
    BY <1>3, <2>1, StableLengthIs
<1> HIDE DEF stable
<1>5. stable \in 0..Len(hypothesis)
  BY <1>4, BoundariesAre
<1>6. CASE grows
  <2>1. /\ new \in Text /\ Len(new) = stable /\ new = SubSeq(hypothesis, 1, stable)
        /\ \A i \in 1..stable : new[i] = hypothesis[i]
    BY <1>5, <1>6, Parts
  <2>2. stable # 0 /\ Len(old) <= stable /\ stable \in Nat
    BY <1>2, <1>5, <1>6
  <2> HIDE DEF new
  <2>3. StartsWith(new, old)
    <3>1. SubSeq(hypothesis, 1, Len(old)) = old
      BY <1>6 DEF StartsWith
    <3>2. Len(old) \in 0..Len(hypothesis) /\ Len(old) \in 0..Len(new)
      BY <1>2, <1>5, <2>1, <2>2
    <3>3. \A i \in 1..Len(old) : SubSeq(hypothesis, 1, Len(old))[i] = hypothesis[i] /\ SubSeq(new, 1, Len(old))[i] = new[i]
      BY <2>1, <3>2, Parts
    <3>4. \A i \in 1..Len(old) : SubSeq(new, 1, Len(old))[i] = old[i]
      BY <1>2, <2>1, <2>2, <3>1, <3>3
    <3>5. SubSeq(new, 1, Len(old)) = old
      <4>1. SubSeq(new, 1, Len(old)) \in Text /\ Len(SubSeq(new, 1, Len(old))) = Len(old)
        BY <2>1, <3>2, Parts
      <4> QED
        BY <1>2, <3>4, <4>1, SameText
    <3> QED
      BY <2>1, <2>2, <3>5 DEF StartsWith
  <2>4. AgreedOn(new, recent)
    <3> DEFINE rest == Drop(recent[Stability], Len(new))
    <3>1. Len(recent) = Stability /\ recent[Stability] = hypothesis
      BY <1>3, <1>4, <2>2
    <3>2. \A i \in 1..Stability : StartsWith(recent[i], new)
      BY <1>4, <2>1, <2>2, <3>1 DEF StartsWith
    <3>3. /\ rest \in Text /\ Len(rest) = Len(hypothesis) - stable
          /\ \A i \in 1..(Len(hypothesis) - stable) : rest[i] = hypothesis[stable + i]
      BY <1>5, <2>1, <3>1, Parts
    <3> HIDE DEF rest
    <3>4. ASSUME Lookback > 0 PROVE \E i \in 1..Len(rest) : rest[i] # Space
      <4>1. PICK i \in stable + 1..Len(hypothesis) : hypothesis[i] # Space
        BY <1>4, <2>2, <3>4
      <4>2. i - stable \in 1..(Len(hypothesis) - stable) /\ stable + (i - stable) = i
        BY <1>2, <1>5
      <4> QED
        BY <3>3, <4>1, <4>2
    <3>5. ASSUME rest # <<>>, rest[1] # Space PROVE new[Len(new)] = Space
      <4>1. Len(rest) # 0
        BY <3>3, <3>5 DEF Text
      <4>2. stable < Len(hypothesis) /\ rest[1] = hypothesis[stable + 1]
        <5>1. 1 \in 1..(Len(hypothesis) - stable) /\ stable < Len(hypothesis)
          BY <1>2, <1>5, <3>3, <4>1
        <5> QED
          BY <3>3, <5>1
      <4>3. stable # 0 /\ stable # Len(hypothesis) /\ stable \in Nat
        BY <1>2, <2>2, <4>2
      <4>4. (hypothesis[stable] = Space) # (hypothesis[stable + 1] = Space)
        BY <1>4, <4>3 DEF Boundaries
      <4>5. hypothesis[stable] = Space
        BY <3>5, <4>2, <4>4
      <4>6. stable \in 1..stable
        BY <2>2
      <4> QED
        BY <2>1, <4>5, <4>6
    <3> QED
      BY <3>1, <3>2, <3>4, <3>5 DEF AgreedOn, rest
  <2> QED
    BY <1>1, <1>3, <2>1, <2>3, <2>4
<1>7. CASE ~grows
  <2>1. new = old
    BY <1>7
  <2>2. StartsWith(old, old)
    BY <1>2, SubSeqFull DEF StartsWith, Text
  <2> HIDE DEF new
  <2> QED
    BY <1>1, <1>2, <1>3, <2>1, <2>2
<1> QED
  BY <1>6, <1>7

-----------------------------------------------------------------------------
(* session.rs, ax_stream.rs: commands, and what they do to a text and to    *)
(* the field.                                                               *)

\* What a session can send.
Commands == {cmd \in [append : BOOLEAN, from : Nat, to : Nat, insert : Text] : cmd.from <= cmd.to}

\* The range a command addresses in a text, whether it lies in it, and what
\* the text becomes.
AtText(cmd, old) ==
  IF cmd.append THEN Edit(Len(old), Len(old), cmd.insert) ELSE Edit(cmd.from, cmd.to, cmd.insert)
Legal(cmd, old) == AtText(cmd, old).to <= Len(old)
Ahead(cmd, old) == ApplyEdit(AtText(cmd, old), old)

\* A command as an edit of the text.
LEMMA AtTextIs ==
  ASSUME NEW cmd \in Commands, NEW old \in Text
  PROVE  /\ AtText(cmd, old).from \in Nat /\ AtText(cmd, old).to \in Nat
         /\ AtText(cmd, old).from <= AtText(cmd, old).to /\ AtText(cmd, old).insert \in Text
<1>1. Len(old) \in Nat
  BY DEF Text
<1>2. cmd.from \in Nat /\ cmd.to \in Nat /\ cmd.from <= cmd.to /\ cmd.insert \in Text
  BY DEF Commands
<1> QED
  BY <1>1, <1>2, EditHas DEF AtText

\* Joining texts. The provers take Join as it is named, so that the laws of
\* joining are what they reason with.
Join(s, t) == s \o t

\* The length and the graphemes of two texts joined.
LEMMA Joining ==
  ASSUME NEW s \in Text, NEW t \in Text
  PROVE  /\ Join(s, t) \in Text /\ Len(Join(s, t)) = Len(s) + Len(t) /\ Len(s) \in Nat /\ Len(t) \in Nat
         /\ \A i \in 1..(Len(s) + Len(t)) : Join(s, t)[i] = IF i <= Len(s) THEN s[i] ELSE t[i - Len(s)]
BY ConcatProperties DEF Text, Join

\* Joining nothing changes nothing.
LEMMA JoiningNothing ==
  ASSUME NEW s \in Text, NEW none, none = <<>>
  PROVE  Join(s, none) = s /\ Join(none, s) = s /\ none \in Text /\ Len(none) = 0
BY ConcatEmptySeq DEF Text, Join

\* How texts are grouped when joined does not matter.
LEMMA Regrouped ==
  ASSUME NEW s \in Text, NEW t \in Text, NEW u \in Text
  PROVE  Join(Join(s, t), u) = Join(s, Join(t, u))
BY ConcatAssociative DEF Text, Join

\* A replacement of the middle of three parts.
LEMMA ReplaceMiddle ==
  ASSUME NEW p \in Text, NEW q \in Text, NEW s \in Text, NEW t \in Text
  PROVE  /\ Replaced(Join(Join(p, q), s), Len(p), Len(p) + Len(q), t) = Join(Join(p, t), s)
         /\ Len(p) + Len(q) <= Len(Join(Join(p, q), s))
<1> DEFINE pq == Join(p, q)
           f == Join(pq, s)
<1>1. /\ pq \in Text /\ Len(pq) = Len(p) + Len(q) /\ Len(p) \in Nat /\ Len(q) \in Nat
      /\ \A i \in 1..(Len(p) + Len(q)) : pq[i] = IF i <= Len(p) THEN p[i] ELSE q[i - Len(p)]
  BY Joining
<1> HIDE DEF pq
<1>2. /\ f \in Text /\ Len(f) = Len(pq) + Len(s) /\ Len(s) \in Nat
      /\ \A i \in 1..(Len(pq) + Len(s)) : f[i] = IF i <= Len(pq) THEN pq[i] ELSE s[i - Len(pq)]
  BY <1>1, Joining
<1> HIDE DEF f
<1>3. Len(p) \in 0..Len(f) /\ Len(pq) \in 0..Len(f)
  BY <1>1, <1>2
<1>4. SubSeq(f, 1, Len(p)) = p
  <2>1. /\ SubSeq(f, 1, Len(p)) \in Text /\ Len(SubSeq(f, 1, Len(p))) = Len(p)
        /\ \A i \in 1..Len(p) : SubSeq(f, 1, Len(p))[i] = f[i]
    BY <1>3, <1>2, Parts
  <2>2. \A i \in 1..Len(p) : f[i] = p[i]
    BY <1>1, <1>2
  <2> QED
    BY <2>1, <2>2, SameText
<1>5. Drop(f, Len(pq)) = s
  <2>1. /\ Drop(f, Len(pq)) \in Text /\ Len(Drop(f, Len(pq))) = Len(f) - Len(pq)
        /\ \A i \in 1..(Len(f) - Len(pq)) : Drop(f, Len(pq))[i] = f[Len(pq) + i]
    BY <1>3, <1>2, Parts
  <2>2. Len(f) - Len(pq) = Len(s)
    BY <1>1, <1>2
  <2>3. ASSUME NEW i \in 1..Len(s) PROVE Drop(f, Len(pq))[i] = s[i]
    <3>1. Len(pq) + i \in 1..(Len(pq) + Len(s)) /\ ~(Len(pq) + i <= Len(pq)) /\ (Len(pq) + i) - Len(pq) = i
      BY <1>1, <1>2
    <3>2. f[Len(pq) + i] = s[(Len(pq) + i) - Len(pq)]
      BY <1>2, <3>1
    <3> QED
      BY <2>1, <2>2, <3>1, <3>2
  <2> QED
    BY <2>1, <2>2, <2>3, SameText
<1>6. Replaced(f, Len(p), Len(pq), t) = Join(Join(p, t), s)
  BY <1>4, <1>5 DEF Replaced, Join
<1> QED
  BY <1>1, <1>2, <1>3, <1>6 DEF f, pq

\* A text under a legal command.
LEMMA AheadIs ==
  ASSUME NEW cmd \in Commands, NEW old \in Text, Legal(cmd, old)
  PROVE  /\ Ahead(cmd, old) \in Text
         /\ AtText(cmd, old).from \in 0..Len(old) /\ AtText(cmd, old).to \in AtText(cmd, old).from..Len(old)
<1> DEFINE from == AtText(cmd, old).from
           to == AtText(cmd, old).to
           insert == AtText(cmd, old).insert
<1>1. from \in Nat /\ to \in Nat /\ from <= to /\ insert \in Text /\ Len(old) \in Nat
  BY AtTextIs DEF Text
<1>2. to <= Len(old)
  BY DEF Legal
<1>3. from \in 0..Len(old) /\ to \in from..Len(old) /\ to \in 0..Len(old)
  BY <1>1, <1>2
<1>4. Ahead(cmd, old) = SubSeq(old, 1, from) \o insert \o Drop(old, to)
  BY DEF Ahead, ApplyEdit
<1> HIDE DEF from, to, insert
<1>5. SubSeq(old, 1, from) \in Text /\ Drop(old, to) \in Text
  BY <1>3, Parts
<1>6. SubSeq(old, 1, from) \o insert \o Drop(old, to) \in Text
  BY <1>1, <1>5, ConcatProperties DEF Text
<1> QED
  BY <1>3, <1>4, <1>6 DEF from, to, insert

\* The same, by the places it is from and to.
LEMMA ReplaceBetween ==
  ASSUME NEW p \in Text, NEW q \in Text, NEW s \in Text, NEW t \in Text,
         NEW f, f = Join(Join(p, q), s), NEW from, from = Len(p), NEW to, to = Len(p) + Len(q)
  PROVE  Replaced(f, from, to, t) = Join(Join(p, t), s) /\ to <= Len(f)
BY ReplaceMiddle

\* An edit of a text that stands between two others.
LEMMA EditedInPlace ==
  ASSUME NEW h \in Text, NEW old \in Text, NEW a \in Text,
         NEW from \in 0..Len(old), NEW to \in from..Len(old), NEW insert \in Text
  PROVE  /\ Replaced(Join(Join(h, old), a), Len(h) + from, Len(h) + to, insert)
              = Join(Join(h, Join(Join(SubSeq(old, 1, from), insert), Drop(old, to))), a)
         /\ Len(h) + to <= Len(Join(Join(h, old), a))
<1>1. Len(old) \in Nat /\ Len(h) \in Nat /\ from \in Nat /\ to \in Nat /\ from <= to /\ to \in 0..Len(old)
  BY DEF Text
<1>2. PICK first : first = SubSeq(old, 1, from)
  OBVIOUS
<1>3. PICK gone : gone = SubSeq(old, from + 1, to)
  OBVIOUS
<1>4. PICK last : last = Drop(old, to)
  OBVIOUS
<1>5. first \in Text /\ Len(first) = from
  BY <1>1, <1>2, Parts
<1>6. gone \in Text /\ Len(gone) = to - from
  BY <1>1, <1>3, Middle
<1>7. last \in Text
  BY <1>1, <1>4, Parts
<1>8. Join(Join(first, gone), last) = old
  BY <1>1, <1>2, <1>3, <1>4, Reassembled DEF Join
<1>9. ASSUME NEW x \in Text
      PROVE  Join(Join(h, Join(Join(first, x), last)), a) = Join(Join(Join(h, first), x), Join(last, a))
  <2>1. Join(h, first) \in Text /\ Join(first, x) \in Text /\ Join(Join(h, first), x) \in Text
    BY <1>5, Joining
  <2>2. Join(h, Join(Join(first, x), last)) = Join(Join(h, Join(first, x)), last)
    BY <1>5, <1>7, <2>1, Regrouped
  <2>3. Join(h, Join(first, x)) = Join(Join(h, first), x)
    BY <1>5, Regrouped
  <2>4. Join(Join(Join(Join(h, first), x), last), a) = Join(Join(Join(h, first), x), Join(last, a))
    BY <1>7, <2>1, Regrouped
  <2> QED
    BY <2>2, <2>3, <2>4
<1>10. Join(h, first) \in Text /\ Join(last, a) \in Text /\ Len(Join(h, first)) = Len(h) + from
  BY <1>5, <1>7, Joining
<1>11. Len(Join(h, first)) + Len(gone) = Len(h) + to
  BY <1>1, <1>6, <1>10
<1>12. PICK p \in Text, s \in Text : p = Join(h, first) /\ s = Join(last, a)
  BY <1>10
<1>13. /\ Join(Join(p, gone), s) = Join(Join(h, old), a)
       /\ Join(Join(p, insert), s) = Join(Join(h, Join(Join(first, insert), last)), a)
  BY <1>6, <1>8, <1>9, <1>12
<1>14. /\ Replaced(Join(Join(h, old), a), Len(h) + from, Len(h) + to, insert) = Join(Join(h, Join(Join(first, insert), last)), a)
       /\ Len(h) + to <= Len(Join(Join(h, old), a))
  <2>1. PICK f, m, n : f = Join(Join(h, old), a) /\ m = Len(h) + from /\ n = Len(h) + to
    OBVIOUS
  <2>2. f = Join(Join(p, gone), s) /\ m = Len(p) /\ n = Len(p) + Len(gone)
    BY <1>10, <1>11, <1>12, <1>13, <2>1
  <2>3. gone \in Text
    BY <1>6
  <2>4. Replaced(f, m, n, insert) = Join(Join(p, insert), s) /\ n <= Len(f)
    BY <2>2, <2>3, ReplaceBetween
  <2> QED
    BY <1>13, <2>1, <2>4, Zenon
<1> QED
  BY <1>2, <1>4, <1>14, Zenon

\* A region, and the field that holds it between before and after: the lead
\* stands there as soon as the region has text.
Regions == [start : Nat, applied : Text, lead : Text, trail : Text]
LeadOf(r) == IF r.applied = <<>> THEN <<>> ELSE r.lead
Laid(r, before, after) == before \o LeadOf(r) \o r.applied \o after

\* The field accepts the edit, and then holds the region with the text ahead,
\* its lead included.
TakesEdit(r, cmd, before, after) ==
  /\ InField(r, AtText(cmd, r.applied), Laid(r, before, after))
  /\ ApplyToRegion(r, AtText(cmd, r.applied), Laid(r, before, after)).region
       = [r EXCEPT !.applied = Ahead(cmd, r.applied)]
  /\ ApplyToRegion(r, AtText(cmd, r.applied), Laid(r, before, after)).field
       = before \o r.lead \o Ahead(cmd, r.applied) \o after

\* The region and the field after a legal command.
LEMMA RegionTakesEdit ==
  ASSUME NEW r \in Regions, NEW before \in Text, NEW after \in Text, r.start = Len(before),
         NEW cmd \in Commands, Legal(cmd, r.applied)
  PROVE  TakesEdit(r, cmd, before, after)
<1> SUFFICES ASSUME NEW f, f = Laid(r, before, after), NEW edit, edit = AtText(cmd, r.applied)
             PROVE  /\ InField(r, edit, f)
                    /\ ApplyToRegion(r, edit, f).region = [r EXCEPT !.applied = Ahead(cmd, r.applied)]
                    /\ ApplyToRegion(r, edit, f).field = before \o r.lead \o Ahead(cmd, r.applied) \o after
  BY Zenon DEF TakesEdit
<1>1. PICK old, lead, insert, from, to :
        old = r.applied /\ lead = r.lead /\ insert = edit.insert /\ from = edit.from /\ to = edit.to
  OBVIOUS
<1>2. old \in Text /\ lead \in Text /\ Len(old) \in Nat /\ Len(lead) \in Nat /\ Len(before) \in Nat
  BY <1>1 DEF Regions, Text
<1>3. edit = AtText(cmd, old) /\ Legal(cmd, old)
  BY <1>1
<1>4. from \in 0..Len(old) /\ to \in from..Len(old) /\ from \in Nat /\ to \in Nat /\ insert \in Text
  <2>1. /\ AtText(cmd, old).from \in 0..Len(old) /\ AtText(cmd, old).to \in AtText(cmd, old).from..Len(old)
        /\ AtText(cmd, old).insert \in Text
    BY <1>2, <1>3, AheadIs, AtTextIs
  <2>2. from = AtText(cmd, old).from /\ to = AtText(cmd, old).to /\ insert = AtText(cmd, old).insert
    BY <1>1, <1>3, Zenon
  <2> QED
    BY <1>2, <2>1, <2>2
<1>5. Ahead(cmd, old) = Join(Join(SubSeq(old, 1, from), insert), Drop(old, to))
  BY <1>1, <1>3 DEF Ahead, ApplyEdit, Join
<1>6. ApplyToRegion(r, edit, f).region = [r EXCEPT !.applied = Ahead(cmd, r.applied)]
  BY DEF ApplyToRegion, Ahead
<1>7. /\ ApplyToRegion(r, edit, f).field = Replaced(f, Location(r, from), Location(r, to), TextOf(r, edit))
      /\ InField(r, edit, f) <=> Location(r, to) <= Len(f)
  BY <1>1 DEF ApplyToRegion, InField
<1>8. before \o r.lead \o Ahead(cmd, r.applied) \o after = Join(Join(Join(before, lead), Ahead(cmd, old)), after)
  BY <1>1 DEF Join
<1>9. CASE old = <<>>
  <2>1. from = 0 /\ to = 0 /\ Len(old) = 0
    BY <1>2, <1>4, <1>9
  <2>2. Location(r, from) = Len(before) + 0 /\ Location(r, to) = Len(before) + 0
    BY <1>1, <1>2, <1>9, <2>1 DEF Location
  <2>3. PICK all : all = Join(lead, insert)
    OBVIOUS
  <2>4. TextOf(r, edit) = all
    BY <1>1, <1>9, <2>1, <2>3 DEF TextOf, Join
  <2>5. f = Join(Join(before, old), after)
    <3>1. f = Join(Join(Join(before, <<>>), old), after)
      BY <1>1, <1>9 DEF Laid, LeadOf, Join
    <3> QED
      BY <3>1, JoiningNothing
  <2>6. all \in Text
    BY <1>2, <1>4, <2>3, Joining
  <2>7. SubSeq(old, 1, from) = <<>> /\ Drop(old, to) = <<>>
    <3>1. Len(SubSeq(old, 1, from)) = 0 /\ SubSeq(old, 1, from) \in Text /\ Len(Drop(old, to)) = 0 /\ Drop(old, to) \in Text
      BY <1>2, <1>4, <2>1, Parts
    <3>2. \A t \in Text : Len(t) = 0 => t = <<>>
      BY DEF Text
    <3> QED
      BY <3>1, <3>2, Zenon
  <2>8. /\ Replaced(Join(Join(before, old), after), Len(before) + from, Len(before) + to, all)
             = Join(Join(before, Join(Join(SubSeq(old, 1, from), all), Drop(old, to))), after)
        /\ Len(before) + to <= Len(Join(Join(before, old), after))
    BY <1>2, <1>4, <2>6, EditedInPlace
  <2>9. Join(Join(SubSeq(old, 1, from), all), Drop(old, to)) = all /\ Ahead(cmd, old) = insert
    BY <1>4, <1>5, <2>6, <2>7, JoiningNothing
  <2>10. Join(before, all) = Join(Join(before, lead), insert)
    BY <1>2, <1>4, <2>3, Regrouped
  <2> QED
    BY <1>6, <1>7, <1>8, <2>1, <2>2, <2>4, <2>5, <2>8, <2>9, <2>10, Zenon
<1>10. CASE old # <<>>
  <2>1. PICK h : h = Join(before, lead)
    OBVIOUS
  <2>2. h \in Text /\ Len(h) = Len(before) + Len(lead) /\ Len(h) \in Nat
    BY <1>2, <2>1, Joining
  <2>3. Location(r, from) = Len(h) + from /\ Location(r, to) = Len(h) + to
    BY <1>1, <1>2, <1>10, <2>2 DEF Location
  <2>4. TextOf(r, edit) = insert
    <3>1. TextOf(r, edit) = Join(<<>>, insert)
      BY <1>1, <1>10 DEF TextOf, Join
    <3> QED
      BY <1>4, <3>1, JoiningNothing
  <2>5. f = Join(Join(h, old), after)
    BY <1>1, <1>10, <2>1 DEF Laid, LeadOf, Join
  <2>6. /\ Replaced(Join(Join(h, old), after), Len(h) + from, Len(h) + to, insert)
             = Join(Join(h, Join(Join(SubSeq(old, 1, from), insert), Drop(old, to))), after)
        /\ Len(h) + to <= Len(Join(Join(h, old), after))
    <3>1. h \in Text /\ old \in Text /\ insert \in Text /\ from \in 0..Len(old) /\ to \in from..Len(old)
      BY <1>2, <1>4, <2>2
    <3> QED
      BY <3>1, EditedInPlace
  <2> QED
    BY <1>5, <1>6, <1>7, <1>8, <2>1, <2>3, <2>4, <2>5, <2>6, Zenon
<1> QED
  BY <1>9, <1>10

\* Sealing puts the trail between the region and what follows.
LEMMA RegionSealed ==
  ASSUME NEW r \in Regions, NEW before \in Text, NEW after \in Text, r.start = Len(before),
         NEW f, f = Laid(r, before, after), r.applied # <<>>
  PROVE  SealRegion(r, f) = before \o r.lead \o r.applied \o r.trail \o after
<1>1. PICK old, lead, trail : old = r.applied /\ lead = r.lead /\ trail = r.trail
  OBVIOUS
<1>2. /\ old \in Text /\ lead \in Text /\ trail \in Text
      /\ Len(old) \in Nat /\ Len(lead) \in Nat /\ Len(before) \in Nat
  BY <1>1 DEF Regions, Text
<1>3. PICK p : p = Join(Join(before, lead), old)
  OBVIOUS
<1>4. p \in Text /\ Len(p) = Len(before) + Len(lead) + Len(old) /\ Len(p) \in Nat
  <2>1. Join(before, lead) \in Text /\ Len(Join(before, lead)) = Len(before) + Len(lead)
    BY <1>2, Joining
  <2> QED
    BY <1>2, <1>3, <2>1, Joining
<1>5. PICK none : none = <<>>
  OBVIOUS
<1>6. none \in Text /\ Len(none) = 0 /\ Join(p, none) = p
  BY <1>4, <1>5, JoiningNothing
<1>7. f = Join(p, after)
  BY <1>1, <1>3 DEF Laid, LeadOf, Join
<1>8. Location(r, Len(old)) = Len(p)
  BY <1>1, <1>2, <1>4 DEF Location
<1>9. Len(p) + Len(none) = Len(p)
  BY <1>4, <1>6
<1>10. Replaced(Join(Join(p, none), after), Len(p), Len(p) + Len(none), trail) = Join(Join(p, trail), after)
  <2>1. PICK g, m, n : g = Join(Join(p, none), after) /\ m = Len(p) /\ n = Len(p) + Len(none)
    OBVIOUS
  <2>2. p \in Text /\ none \in Text /\ trail \in Text
    BY <1>2, <1>4, <1>6
  <2>3. Replaced(g, m, n, trail) = Join(Join(p, trail), after)
    BY <2>1, <2>2, ReplaceBetween
  <2> QED
    BY <2>1, <2>3, Zenon
<1>11. Replaced(Join(p, after), Len(p), Len(p), trail) = Join(Join(p, trail), after)
  BY <1>6, <1>9, <1>10, Zenon
<1>12. SealRegion(r, f) = Replaced(f, Len(p), Len(p), trail)
  BY <1>1, <1>8 DEF SealRegion
<1>13. before \o r.lead \o r.applied \o r.trail \o after = Join(Join(p, trail), after)
  BY <1>1, <1>3 DEF Join
<1> QED
  BY <1>7, <1>11, <1>12, <1>13, Zenon

-----------------------------------------------------------------------------
(* Texts that extend others.                                                *)

\* A text starts with itself, and with nothing.
LEMMA StartsWithItself ==
  ASSUME NEW a \in Text
  PROVE  StartsWith(a, a) /\ StartsWith(a, <<>>)
<1>1. Len(a) \in Nat /\ SubSeq(a, 1, Len(a)) = a
  BY SubSeqFull DEF Text
<1>2. 0 \in 0..Len(a) /\ Len(<<>>) = 0
  BY <1>1
<1>3. SubSeq(a, 1, 0) \in Text /\ Len(SubSeq(a, 1, 0)) = 0
  BY <1>2, Parts
<1>4. \A t \in Text : Len(t) = 0 => t = <<>>
  BY DEF Text
<1>5. SubSeq(a, 1, 0) = <<>>
  BY <1>3, <1>4, Zenon
<1> QED
  BY <1>1, <1>2, <1>5 DEF StartsWith

\* What starts with a text starts with what that text starts with.
LEMMA StartsWithAlso ==
  ASSUME NEW a \in Text, NEW b \in Text, NEW c \in Text, StartsWith(b, a), StartsWith(c, b)
  PROVE  StartsWith(c, a)
<1>1. Len(a) \in Nat /\ Len(b) \in Nat /\ Len(c) \in Nat
  BY DEF Text
<1>2. Len(a) \in 0..Len(b) /\ Len(b) \in 0..Len(c) /\ Len(a) \in 0..Len(c)
  BY <1>1 DEF StartsWith
<1>3. SubSeq(b, 1, Len(a)) = a /\ SubSeq(c, 1, Len(b)) = b
  BY DEF StartsWith
<1>4. \A i \in 1..Len(a) : SubSeq(b, 1, Len(a))[i] = b[i]
  BY <1>2, Parts
<1>5. \A i \in 1..Len(b) : SubSeq(c, 1, Len(b))[i] = c[i]
  BY <1>2, Parts
<1>6. /\ SubSeq(c, 1, Len(a)) \in Text /\ Len(SubSeq(c, 1, Len(a))) = Len(a)
      /\ \A i \in 1..Len(a) : SubSeq(c, 1, Len(a))[i] = c[i]
  BY <1>2, Parts
<1>7. \A i \in 1..Len(a) : i \in 1..Len(b)
  BY <1>1, <1>2
<1>8. \A i \in 1..Len(SubSeq(c, 1, Len(a))) : SubSeq(c, 1, Len(a))[i] = a[i]
  BY <1>3, <1>4, <1>5, <1>6, <1>7
<1>9. SubSeq(c, 1, Len(a)) = a
  BY <1>6, <1>8, SameText
<1> QED
  BY <1>2, <1>9 DEF StartsWith

\* A text that starts with two texts, one no longer than the other.
LEMMA StartsWithEither ==
  ASSUME NEW a \in Text, NEW b \in Text, StartsWith(b, a), StartsWith(a, b)
  PROVE  a = b
<1>1. Len(a) = Len(b)
  <2>1. Len(a) <= Len(b) /\ Len(b) <= Len(a)
    BY DEF StartsWith
  <2>2. Len(a) \in Nat /\ Len(b) \in Nat
    BY DEF Text
  <2> QED
    BY <2>1, <2>2
<1>2. SubSeq(b, 1, Len(b)) = b
  BY SubSeqFull DEF Text
<1>3. SubSeq(b, 1, Len(a)) = a
  BY DEF StartsWith
<1> QED
  BY <1>1, <1>2, <1>3, Zenon

-----------------------------------------------------------------------------
(* The session.                                                             *)

\* cmd is a command whose range lies in old and that turns it into new.
Turns(cmd, old, new) == cmd \in Commands /\ Legal(cmd, old) /\ Ahead(cmd, old) = new

\* The edit between a text and itself turns it into itself.
LEMMA NoEditIs ==
  ASSUME NEW old \in Text
  PROVE  NoEdit \in Commands /\ Turns(NoEdit, old, old)
<1>1. NoEdit \in Commands
  BY DEF NoEdit, Commands, Text
<1>2. AtText(NoEdit, old) = Edit(0, 0, <<>>)
  BY DEF AtText, NoEdit
<1>3. Len(old) \in Nat /\ SubSeq(old, 1, Len(old)) = old
  BY SubSeqFull DEF Text
<1>4. SubSeq(old, 1, 0) = <<>> /\ Drop(old, 0) = old
  BY <1>3, StartsWithItself DEF Drop, StartsWith
<1>5. Ahead(NoEdit, old) = Join(Join(<<>>, <<>>), old)
  <2>1. PICK edit : edit = Edit(0, 0, <<>>)
    OBVIOUS
  <2>2. edit.from = 0 /\ edit.to = 0 /\ edit.insert = <<>>
    BY <2>1, EditHas
  <2>3. Ahead(NoEdit, old) = SubSeq(old, 1, edit.from) \o edit.insert \o Drop(old, edit.to)
    BY <1>2, <2>1 DEF Ahead, ApplyEdit
  <2> QED
    BY <1>4, <2>2, <2>3, Zenon DEF Join
<1>6. Join(Join(<<>>, <<>>), old) = old
  BY JoiningNothing
<1>7. Legal(NoEdit, old)
  BY <1>2, <1>3 DEF Legal, Edit
<1> QED
  BY <1>1, <1>5, <1>6, <1>7 DEF Turns

\* What is sent for a target turns the text written into it.
LEMMA EmitWriteIs ==
  ASSUME NEW written \in Text, NEW target \in Text, target # written
  PROVE  \E cmd : EmitWrite(written, target) = {cmd} /\ cmd # NoEdit /\ Turns(cmd, written, target)
<1>1. PICK edit : edit = MinimalEdit(written, target)
  OBVIOUS
<1>2. /\ edit.from \in Nat /\ edit.to \in Nat /\ edit.from <= edit.to /\ edit.to <= Len(written)
      /\ edit.insert \in Text /\ edit = Edit(edit.from, edit.to, edit.insert)
      /\ ApplyEdit(edit, written) = target
  BY <1>1, MinimalEditIs
<1>3. PICK from, to, insert : from = edit.from /\ to = edit.to /\ insert = edit.insert
  OBVIOUS
<1>4. PICK append : append = (from = Len(written) /\ to = from)
  OBVIOUS
<1>5. PICK cmd : cmd = [append |-> append, from |-> from, to |-> to, insert |-> insert]
  OBVIOUS
<1>6. EmitWrite(written, target) = {cmd}
  <2>1. EmitWrite(written, target)
          = {[append |-> (edit.from = Len(written) /\ edit.to = edit.from),
              from |-> edit.from, to |-> edit.to, insert |-> edit.insert]}
    BY <1>1 DEF EmitWrite
  <2> QED
    BY <1>3, <1>4, <1>5, <2>1, Zenon
<1>7. append \in BOOLEAN
  BY <1>4
<1>8. cmd \in Commands /\ cmd.append = append /\ cmd.from = from /\ cmd.to = to /\ cmd.insert = insert
  BY <1>2, <1>3, <1>5, <1>7 DEF Commands
<1>9. AtText(cmd, written) = edit
  <2>1. CASE append
    <3>1. from = Len(written) /\ to = Len(written)
      BY <1>4, <2>1, Zenon
    <3>2. edit = Edit(Len(written), Len(written), insert)
      BY <1>2, <1>3, <3>1, Zenon
    <3> QED
      BY <1>8, <2>1, <3>2, Zenon DEF AtText
  <2>2. CASE ~append
    <3>1. edit = Edit(from, to, insert)
      BY <1>2, <1>3, Zenon
    <3> QED
      BY <1>8, <2>2, <3>1, Zenon DEF AtText
  <2> QED
    BY <2>1, <2>2
<1>10. Turns(cmd, written, target)
  BY <1>2, <1>8, <1>9 DEF Turns, Legal, Ahead
<1>11. cmd # NoEdit
  BY <1>10, NoEditIs DEF Turns
<1> QED
  BY <1>6, <1>10, <1>11

Coalescers == [pending : Text \cup {NoText}, since : 0..Interval, inFlight : BOOLEAN]
Horizons == {h \in [committed : Text, recent : Seq(Text)] : Len(h.recent) <= Stability}
Sessions == [mode : {"Streaming", "Buffered"}, horizon : Horizons, coalescer : Coalescers, written : Text]

\* While the user speaks, what is written is a part of what is committed, and
\* what is parked is what is committed and not written; a buffered session
\* neither writes nor parks.
GoodSession(s) ==
  /\ s \in Sessions
  /\ StartsWith(s.horizon.committed, s.written)
  /\ s.coalescer.pending # NoText =>
       s.coalescer.pending = s.horizon.committed /\ s.written # s.horizon.committed
  /\ s.mode = "Buffered" => s.written = <<>> /\ s.coalescer.pending = NoText

\* A step of the session sends nothing, or closes the gate and sends what
\* extends the text written.
SessionStep(s, step) ==
  /\ GoodSession(step.session) /\ step.session.mode = s.mode
  /\ \/ /\ step.write = {} /\ step.session.written = s.written
        /\ step.session.coalescer.inFlight = s.coalescer.inFlight
     \/ /\ s.mode = "Streaming" /\ ~s.coalescer.inFlight /\ step.session.coalescer.inFlight
        /\ \E cmd : step.write = {cmd} /\ Turns(cmd, s.written, step.session.written)
        /\ StartsWith(step.session.written, s.written) /\ step.session.written # <<>>

\* The fields of a session.
LEMMA SessionHas ==
  ASSUME NEW s \in Sessions
  PROVE  /\ s.mode \in {"Streaming", "Buffered"} /\ s.written \in Text
         /\ s.horizon.committed \in Text /\ s.horizon.recent \in Seq(Text) /\ Len(s.horizon.recent) <= Stability
         /\ s.horizon \in Horizons /\ s.coalescer \in Coalescers
         /\ s.coalescer.pending \in Text \cup {NoText} /\ s.coalescer.since \in 0..Interval
         /\ s.coalescer.inFlight \in BOOLEAN
BY DEF Sessions, Horizons, Coalescers

\* A session begins in good order.
LEMMA NewSessionIs ==
  ASSUME NEW inPlace \in BOOLEAN, NEW prefer \in BOOLEAN
  PROVE  /\ GoodSession(NewSession(inPlace, prefer))
         /\ NewSession(inPlace, prefer).written = <<>> /\ ~NewSession(inPlace, prefer).coalescer.inFlight
<1>1. PICK mode : mode = IF prefer /\ inPlace THEN "Streaming" ELSE "Buffered"
  OBVIOUS
<1>2. PICK s : s = [mode |-> mode, horizon |-> NewHorizon, coalescer |-> NewCoalescer, written |-> <<>>]
  OBVIOUS
<1>3. NewSession(inPlace, prefer) = s
  BY <1>1, <1>2 DEF NewSession
<1>4. mode \in {"Streaming", "Buffered"} /\ <<>> \in Text
  BY <1>1 DEF Text
<1>5. NewHorizon \in Horizons /\ NewHorizon.committed = <<>>
  BY <1>4, HorizonAssumption DEF NewHorizon, Horizons
<1>6. NewCoalescer \in Coalescers /\ NewCoalescer.pending = NoText /\ ~NewCoalescer.inFlight
  BY CoalescerAssumption DEF NewCoalescer, Coalescers
<1>7. s \in Sessions
  BY <1>2, <1>4, <1>5, <1>6 DEF Sessions
<1>8. /\ s.mode = mode /\ s.written = <<>> /\ s.coalescer.pending = NoText /\ ~s.coalescer.inFlight
      /\ s.horizon.committed = <<>>
  BY <1>2, <1>5, <1>6
<1>9. StartsWith(<<>>, <<>>)
  BY <1>4, StartsWithItself
<1> QED
  BY <1>3, <1>7, <1>8, <1>9 DEF GoodSession

\* A released text that is not written is sent, and the gate stays closed.
LEMMA ReleaseWriteIs ==
  ASSUME NEW s \in Sessions, NEW released \in Text, released # s.written,
         NEW coalescer \in Coalescers, coalescer.inFlight, coalescer.pending = NoText,
         StartsWith(s.horizon.committed, released), StartsWith(released, s.written),
         ~s.coalescer.inFlight, s.mode = "Streaming",
         NEW step, step = ReleaseWrite(s, released, coalescer)
  PROVE  SessionStep(s, step) /\ step.session.horizon = s.horizon
<1>1. released # NoText
  BY CoalescerAssumption
<1>2. s.written \in Text
  BY SessionHas
<1>3. PICK cmd : EmitWrite(s.written, released) = {cmd} /\ Turns(cmd, s.written, released)
  BY <1>2, EmitWriteIs
<1>4. PICK session2 : session2 = [s EXCEPT !.written = released, !.coalescer = coalescer]
  OBVIOUS
<1>5. step.session = session2 /\ step.write = {cmd}
  <2>1. PICK write : write = {cmd}
    OBVIOUS
  <2>2. PICK after : after = IF write = {} THEN WriteDone(coalescer) ELSE coalescer
    OBVIOUS
  <2>3. step = [session |-> [s EXCEPT !.written = released, !.coalescer = after], write |-> write]
    BY <1>1, <1>3, <2>1, <2>2, Zenon DEF ReleaseWrite
  <2>4. after = coalescer
    BY <2>1, <2>2
  <2> QED
    BY <1>4, <2>1, <2>3, <2>4
<1>6. /\ session2 \in Sessions /\ session2.written = released /\ session2.coalescer = coalescer
      /\ session2.horizon = s.horizon /\ session2.mode = s.mode
  BY <1>4 DEF Sessions
<1>7. GoodSession(session2)
  BY <1>6 DEF GoodSession
<1>8. released # <<>>
  <2>1. SUFFICES ASSUME released = <<>> PROVE FALSE
    OBVIOUS
  <2>2. StartsWith(s.written, released)
    BY <1>2, <2>1, StartsWithItself
  <2> QED
    BY <1>2, <2>2, StartsWithEither
<1>9. SessionStep(s, step)
  BY <1>3, <1>5, <1>6, <1>7, <1>8 DEF SessionStep
<1> QED
  BY <1>5, <1>6, <1>9

\* A due release gives the pending target or nothing.
LEMMA DueIs ==
  ASSUME NEW c \in Coalescers
  PROVE  /\ Due(c) => /\ ~c.inFlight /\ c.pending \in Text /\ c.pending # NoText
                      /\ TryRelease(c).released = c.pending /\ TryRelease(c).coalescer \in Coalescers
                      /\ TryRelease(c).coalescer.inFlight /\ TryRelease(c).coalescer.pending = NoText
         /\ ~Due(c) => TryRelease(c).released = NoText /\ TryRelease(c).coalescer = c
<1>1. 0 \in 0..Interval
  BY CoalescerAssumption
<1>2. CASE Due(c)
  <2>1. PICK closed : closed = [pending |-> NoText, since |-> 0, inFlight |-> TRUE]
    OBVIOUS
  <2>2. TryRelease(c).released = c.pending /\ TryRelease(c).coalescer = closed
    BY <1>2, <2>1 DEF TryRelease
  <2>3. closed \in Coalescers /\ closed.inFlight /\ closed.pending = NoText
    BY <1>1, <2>1 DEF Coalescers
  <2>4. ~c.inFlight /\ c.pending \in Text /\ c.pending # NoText
    BY <1>2 DEF Due, Coalescers
  <2> QED
    BY <1>2, <2>2, <2>3, <2>4
<1>3. CASE ~Due(c)
  BY <1>3 DEF TryRelease
<1> QED
  BY <1>2, <1>3

\* Session::on_tick
LEMMA SessionTickIs ==
  ASSUME NEW s, GoodSession(s), Due(s.coalescer), NEW step, step = SessionTick(s)
  PROVE  SessionStep(s, step) /\ step.session.horizon = s.horizon
<1>1. s \in Sessions /\ s.coalescer \in Coalescers /\ s.mode \in {"Streaming", "Buffered"}
  BY SessionHas DEF GoodSession
<1>2. PICK released, closed :
        released = TryRelease(s.coalescer).released /\ closed = TryRelease(s.coalescer).coalescer
  OBVIOUS
<1>3. /\ ~s.coalescer.inFlight /\ released = s.coalescer.pending /\ released \in Text /\ released # NoText
      /\ closed \in Coalescers /\ closed.inFlight /\ closed.pending = NoText
  BY <1>1, <1>2, DueIs
<1>4. step = ReleaseWrite(s, released, closed)
  BY <1>2 DEF SessionTick
<1>5. released = s.horizon.committed /\ released # s.written
  BY <1>3 DEF GoodSession
<1>6. StartsWith(released, s.written) /\ StartsWith(s.horizon.committed, released)
  BY <1>3, <1>5, StartsWithItself DEF GoodSession
<1>7. s.mode = "Streaming"
  BY <1>1, <1>3 DEF GoodSession
<1> QED
  BY <1>1, <1>3, <1>4, <1>5, <1>6, <1>7, ReleaseWriteIs

\* Session::on_partial
LEMMA SessionPartialIs ==
  ASSUME NEW s, GoodSession(s), NEW hypothesis \in Text, NEW step, step = SessionPartial(s, hypothesis)
  PROVE  /\ SessionStep(s, step)
         /\ step.session.horizon.committed # s.horizon.committed =>
              AgreedOn(step.session.horizon.committed, step.session.horizon.recent)
<1>1. /\ s \in Sessions /\ s.coalescer \in Coalescers /\ s.mode \in {"Streaming", "Buffered"}
      /\ s.horizon \in Horizons /\ s.horizon.committed \in Text /\ s.horizon.recent \in Seq(Text)
      /\ Len(s.horizon.recent) <= Stability /\ s.written \in Text
  BY SessionHas DEF GoodSession
<1>2. PICK horizon : horizon = HorizonUpdate(s.horizon, hypothesis)
  OBVIOUS
<1>3. PICK offer : offer = Offer(s.coalescer, horizon.committed)
  OBVIOUS
<1>4. PICK updated : updated = [s EXCEPT !.horizon = horizon]
  OBVIOUS
<1>5. /\ horizon \in Horizons /\ horizon.committed \in Text
      /\ StartsWith(horizon.committed, s.horizon.committed)
      /\ horizon.committed # s.horizon.committed => AgreedOn(horizon.committed, horizon.recent)
  <2>1. /\ horizon = [committed |-> horizon.committed, recent |-> horizon.recent]
        /\ horizon.committed \in Text /\ horizon.recent \in Seq(Text) /\ Len(horizon.recent) <= Stability
        /\ StartsWith(horizon.committed, s.horizon.committed)
        /\ horizon.committed # s.horizon.committed => AgreedOn(horizon.committed, horizon.recent)
    BY <1>1, <1>2, HorizonUpdateIs
  <2> QED
    BY <2>1 DEF Horizons
<1>6. StartsWith(s.horizon.committed, s.written)
  BY DEF GoodSession
<1>7. StartsWith(horizon.committed, s.written)
  BY <1>1, <1>5, <1>6, StartsWithAlso
<1>8. /\ updated \in Sessions /\ updated.horizon = horizon /\ updated.mode = s.mode
      /\ updated.coalescer = s.coalescer /\ updated.written = s.written
  BY <1>1, <1>4, <1>5 DEF Sessions
<1>9. CASE s.mode = "Buffered"
  <2>1. step.session = s /\ step.write = {}
    BY <1>9 DEF SessionPartial
  <2> QED
    BY <2>1 DEF SessionStep
<1>10. CASE s.mode = "Streaming" /\ horizon.committed = s.written
  <2>1. step.session = updated /\ step.write = {}
    BY <1>2, <1>4, <1>10 DEF SessionPartial
  <2>2. s.coalescer.pending = NoText
    <3>1. SUFFICES ASSUME s.coalescer.pending # NoText PROVE FALSE
      OBVIOUS
    <3>2. s.written # s.horizon.committed
      BY <3>1 DEF GoodSession
    <3>3. StartsWith(s.written, s.horizon.committed)
      BY <1>5, <1>10
    <3> QED
      BY <1>1, <1>6, <3>2, <3>3, StartsWithEither
  <2>3. GoodSession(updated)
    BY <1>7, <1>8, <1>10, <2>2 DEF GoodSession
  <2> QED
    BY <1>5, <1>8, <2>1, <2>3 DEF SessionStep
<1>11. CASE s.mode = "Streaming" /\ horizon.committed # s.written
  <2>1. step = ReleaseWrite(updated, offer.released, offer.coalescer)
    BY <1>2, <1>3, <1>4, <1>11 DEF SessionPartial
  <2>2. PICK parked : parked = [s.coalescer EXCEPT !.pending = horizon.committed]
    OBVIOUS
  <2>3. /\ parked \in Coalescers /\ parked.pending = horizon.committed
        /\ parked.inFlight = s.coalescer.inFlight
    BY <1>1, <1>5, <2>2 DEF Coalescers
  <2>4. offer = TryRelease(parked)
    BY <1>3, <2>2 DEF Offer
  <2>5. CASE Due(parked)
    <3>1. /\ offer.released = horizon.committed /\ offer.coalescer \in Coalescers
          /\ offer.coalescer.inFlight /\ offer.coalescer.pending = NoText /\ ~s.coalescer.inFlight
      BY <2>3, <2>4, <2>5, DueIs
    <3>2. SessionStep(updated, step) /\ step.session.horizon = updated.horizon
      <4>1. StartsWith(updated.horizon.committed, offer.released)
        BY <1>5, <1>8, <3>1, StartsWithItself
      <4>2. StartsWith(offer.released, updated.written)
        BY <1>7, <1>8, <3>1
      <4> QED
        BY <1>5, <1>8, <1>11, <2>1, <3>1, <4>1, <4>2, ReleaseWriteIs
    <3> QED
      BY <1>5, <1>8, <3>2 DEF SessionStep
  <2>6. CASE ~Due(parked)
    <3>1. offer.released = NoText /\ offer.coalescer = parked
      BY <2>3, <2>4, <2>6, DueIs
    <3>2. PICK parking : parking = [updated EXCEPT !.coalescer = parked]
      OBVIOUS
    <3>3. step.session = parking /\ step.write = {}
      BY <2>1, <3>1, <3>2 DEF ReleaseWrite
    <3>4. /\ parking \in Sessions /\ parking.horizon = horizon /\ parking.mode = s.mode
          /\ parking.coalescer = parked /\ parking.written = s.written
      BY <1>8, <2>3, <3>2 DEF Sessions
    <3>5. GoodSession(parking)
      BY <1>7, <1>11, <2>3, <3>4 DEF GoodSession
    <3> QED
      BY <1>5, <2>3, <3>3, <3>4, <3>5 DEF SessionStep
  <2> QED
    BY <2>5, <2>6
<1> QED
  BY <1>1, <1>9, <1>10, <1>11

\* The clock, and the end of a write.
LEMMA SessionClockIs ==
  ASSUME NEW s, GoodSession(s), NEW c \in Coalescers, c.pending = s.coalescer.pending,
         NEW t, t = [s EXCEPT !.coalescer = c]
  PROVE  /\ GoodSession(t) /\ t.mode = s.mode /\ t.written = s.written /\ t.horizon = s.horizon
         /\ t.coalescer.inFlight = c.inFlight
<1>1. /\ t \in Sessions /\ t.mode = s.mode /\ t.written = s.written /\ t.horizon = s.horizon
      /\ t.coalescer = c
  BY DEF GoodSession, Sessions
<1> QED
  BY <1>1 DEF GoodSession

\* Time passing leaves the session in good order.
LEMMA ElapseIs ==
  ASSUME NEW c \in Coalescers
  PROVE  Elapse(c) \in Coalescers /\ Elapse(c).pending = c.pending /\ Elapse(c).inFlight = c.inFlight
<1>1. PICK since : since = IF c.since < Interval THEN c.since + 1 ELSE c.since
  OBVIOUS
<1>2. since \in 0..Interval
  <2>1. c.since \in 0..Interval
    BY DEF Coalescers
  <2> QED
    BY <1>1, <2>1, CoalescerAssumption
<1>3. Elapse(c) = [c EXCEPT !.since = since]
  BY <1>1 DEF Elapse
<1> QED
  BY <1>2, <1>3 DEF Coalescers

\* The end of a write leaves the session in good order, with the gate open.
LEMMA WriteDoneIs ==
  ASSUME NEW c \in Coalescers
  PROVE  WriteDone(c) \in Coalescers /\ WriteDone(c).pending = c.pending /\ ~WriteDone(c).inFlight
<1>1. 0 \in 0..Interval
  BY CoalescerAssumption
<1> QED
  BY <1>1 DEF WriteDone, Coalescers

-----------------------------------------------------------------------------
(* The writer thread, and what is between it and the session.               *)

Event(ok) == [kind |-> "WriteDone", ok |-> ok]
AtMostOneEvent == events = <<>> \/ \E ok \in BOOLEAN : events = <<Event(ok)>>

\* A write that only extends the text of the region, and gives it text.
Extends(cmd, old) ==
  cmd \in Commands /\ Legal(cmd, old) /\ StartsWith(Ahead(cmd, old), old) /\ Ahead(cmd, old) # <<>>

\* A settle, which makes the text of the region the final one unless a write
\* before it was refused.
Settles(cmd, old) == cmd \in Commands /\ (failures = 0 => Turns(cmd, old, final))

\* The four states of the gate while the user speaks: nothing is under way, a
\* write is with the thread, its completion is not read yet, a write has failed.
Quiet ==
  /\ ~dead /\ toWriter = <<>> /\ events = <<>> /\ ~session.coalescer.inFlight
  /\ region.applied = session.written
Sent ==
  /\ ~dead /\ events = <<>> /\ session.coalescer.inFlight /\ session.mode = "Streaming"
  /\ \E cmd : /\ toWriter = <<Command("Apply", cmd)>> /\ Extends(cmd, region.applied)
              /\ Ahead(cmd, region.applied) = session.written
Answered ==
  /\ ~dead /\ toWriter = <<>> /\ session.coalescer.inFlight
  /\ \E ok \in BOOLEAN : events = <<Event(ok)>> /\ IF ok THEN region.applied = session.written ELSE failures > 0
Broken == dead /\ toWriter = <<>> /\ events = <<>> /\ failures > 0

\* The four states of a settle: behind a write, next, answered, or never
\* answered because the thread is gone.
Behind ==
  /\ writer = "Running" /\ events = <<>>
  /\ \E cmd, last : /\ toWriter = <<Command("Apply", cmd), Command("Finish", last)>>
                    /\ Extends(cmd, region.applied) /\ Settles(last, Ahead(cmd, region.applied))
Waiting ==
  /\ writer = "Running" /\ AtMostOneEvent
  /\ \E last : toWriter = <<Command("Finish", last)>> /\ Settles(last, region.applied)
Answer(done) ==
  /\ done.kind = "Finished"
  /\ done.ok /\ failures = 0 /\ final # <<>> => field = Joined(final)
  /\ ~done.ok /\ ~done.wroteAny => field = snapshot.before \o snapshot.after
Ended ==
  /\ writer = "Done" /\ toWriter = <<>>
  /\ \E done : Answer(done) /\ (events = <<done>> \/ \E ok \in BOOLEAN : events = <<Event(ok), done>>)
Gone == writer = "Panicked" /\ toWriter = <<>> /\ AtMostOneEvent

\* The two ends of an utterance: its streamer was dropped, and the thread
\* does what it was sent; or its settle was answered.
Dropped ==
  /\ outcome = "Failed" /\ writer \in {"Running", "Done"}
  /\ \/ toWriter = <<>> /\ AtMostOneEvent
     \/ /\ writer = "Running" /\ events = <<>>
        /\ \E cmd : toWriter = <<Command("Apply", cmd)>> /\ Extends(cmd, region.applied)
Delivered ==
  /\ writer = "Done" /\ toWriter = <<>> /\ events = <<>>
  /\ outcome = "Streamed" /\ failures = 0 => field = Joined(final)
  /\ outcome = "Buffered" => field = snapshot.before \o snapshot.after

Types ==
  /\ stage \in {"Idle", "Speaking", "Settling", "Settled"}
  /\ dead \in BOOLEAN /\ session \in Sessions /\ final \in Text /\ failures \in Nat
  /\ snapshot \in [before : Text, after : Text]
  /\ region \in Regions /\ region.start = Len(snapshot.before)
Place ==
  IF writer = "Done" THEN RegionInPlace
  ELSE field = Laid(region, snapshot.before, snapshot.after)
IdleIs ==
  stage = "Idle" =>
    /\ writer = "None" /\ toWriter = <<>> /\ events = <<>> /\ outcome = "None"
    /\ ~dead /\ region.applied = <<>>
SpeakingIs ==
  stage = "Speaking" =>
    writer = "Running" /\ outcome = "None" /\ GoodSession(session) /\ (Quiet \/ Sent \/ Answered \/ Broken)
SettlingIs ==
  stage = "Settling" =>
    /\ outcome = "Silent" \/ (outcome = "None" /\ final # <<>>)
    /\ Behind \/ Waiting \/ Ended \/ Gone
SettledIs == stage = "Settled" => Dropped \/ Delivered

StreamInv == Types /\ Place /\ IdleIs /\ SpeakingIs /\ SettlingIs /\ SettledIs

-----------------------------------------------------------------------------
(* Short queues.                                                            *)

\* A queue of one entry.
LEMMA OneQueued ==
  ASSUME NEW x
  PROVE  <<x>> # <<>> /\ Len(<<x>>) = 1 /\ <<x>>[1] = x /\ Tail(<<x>>) = <<>> /\ Append(<<>>, x) = <<x>>
OBVIOUS

\* Two entries of a queue.
LEMMA TwoQueued ==
  ASSUME NEW x, NEW y
  PROVE  /\ <<x, y>> # <<>> /\ Len(<<x, y>>) = 2 /\ <<x, y>>[1] = x /\ Tail(<<x, y>>) = <<y>>
         /\ Append(<<x>>, y) = <<x, y>>
<1>1. <<x, y>> # <<>> /\ Len(<<x, y>>) = 2 /\ <<x, y>>[1] = x /\ Tail(<<x, y>>) = <<y>>
  OBVIOUS
<1> DEFINE S == {x, y}
<1>2. <<x>> \in Seq(S) /\ x \in S /\ y \in S /\ Len(<<x>>) = 1 /\ <<x>>[1] = x
  OBVIOUS
<1>3. <<x, y>> \in Seq(S) /\ <<x, y>>[1] = x /\ <<x, y>>[2] = y
  OBVIOUS
<1> HIDE DEF S
<1>4. PICK s : s = Append(<<x>>, y)
  OBVIOUS
<1>5. PICK t : t = <<x, y>>
  OBVIOUS
<1>6. s \in Seq(S) /\ Len(s) = 2 /\ s[1] = x /\ s[2] = y
  <2>1. PICK one \in Seq(S) : one = <<x>>
    BY <1>2
  <2>2. /\ Append(one, y) \in Seq(S) /\ Len(Append(one, y)) = Len(one) + 1
        /\ \A i \in 1..Len(one) : Append(one, y)[i] = one[i]
        /\ Append(one, y)[Len(one) + 1] = y
    BY <1>2, AppendProperties
  <2>3. Len(one) = 1 /\ one[1] = x /\ 1 \in 1..1 /\ 1 + 1 = 2
    BY <1>2, <2>1
  <2> QED
    BY <1>4, <2>1, <2>2, <2>3
<1>7. t \in Seq(S) /\ Len(t) = 2 /\ t[1] = x /\ t[2] = y
  BY <1>1, <1>3, <1>5
<1>8. \A i \in 1..Len(s) : s[i] = t[i]
  <2>1. \A i \in 1..2 : i = 1 \/ i = 2
    OBVIOUS
  <2> QED
    BY <1>6, <1>7, <2>1
<1>9. s = t
  BY <1>6, <1>7, <1>8, SeqEqual
<1> QED
  BY <1>1, <1>4, <1>5, <1>9

\* The fields of a command.
LEMMA CommandIs ==
  ASSUME NEW kind, NEW edit
  PROVE  Command(kind, edit).kind = kind /\ Command(kind, edit).edit = edit
BY DEF Command

\* The fields of an event.
LEMMA EventIs ==
  ASSUME NEW ok
  PROVE  Event(ok).kind = "WriteDone" /\ Event(ok).ok = ok
BY DEF Event

-----------------------------------------------------------------------------
(* The initial states.                                                      *)

\* A fresh region: nothing applied, nothing laid out.
LEMMA NewRegionIs ==
  ASSUME NEW snap \in [before : Text, after : Text]
  PROVE  NewRegion(snap) \in Regions /\ NewRegion(snap).start = Len(snap.before) /\ NewRegion(snap).applied = <<>>
<1>1. <<>> \in Text /\ <<Space>> \in Text /\ Len(snap.before) \in Nat
  BY TextAssumption DEF Text
<1>2. PICK lead, trail :
        lead = Joins(snap.before, snap.after).lead /\ trail = Joins(snap.before, snap.after).trail
  OBVIOUS
<1>3. lead \in Text /\ trail \in Text
  BY <1>1, <1>2 DEF Joins
<1>4. NewRegion(snap) = [start |-> Len(snap.before), applied |-> <<>>, lead |-> lead, trail |-> trail]
  BY <1>2 DEF NewRegion
<1> QED
  BY <1>1, <1>3, <1>4 DEF Regions

\* A region without text is not in the field.
LEMMA NothingLaid ==
  ASSUME NEW r, r.applied = <<>>, NEW before \in Text, NEW after
  PROVE  Laid(r, before, after) = before \o after
<1>1. Laid(r, before, after) = Join(Join(Join(before, <<>>), <<>>), after)
  BY DEF Laid, LeadOf, Join
<1>2. Join(Join(before, <<>>), <<>>) = before
  BY JoiningNothing
<1> QED
  BY <1>1, <1>2 DEF Join

\* The invariant holds at the start.
LEMMA StreamBegins == StreamInit => StreamInv
<1> SUFFICES ASSUME StreamInit PROVE StreamInv
  OBVIOUS
<1>1. snapshot \in [before : Text, after : Text] /\ snapshot.before \in Text /\ snapshot.after \in Text
  BY StreamAssumption DEF StreamInit
<1>2. region \in Regions /\ region.start = Len(snapshot.before) /\ region.applied = <<>>
  BY <1>1, NewRegionIs DEF StreamInit
<1>3. session \in Sessions
  BY NewSessionIs DEF StreamInit, GoodSession
<1>4. Types
  <2>1. final \in Text /\ failures \in Nat /\ dead \in BOOLEAN /\ stage = "Idle"
    BY StreamAssumption DEF StreamInit
  <2> QED
    BY <1>1, <1>2, <1>3, <2>1 DEF Types
<1>5. Place
  <2>1. Laid(region, snapshot.before, snapshot.after) = snapshot.before \o snapshot.after
    BY <1>1, <1>2, NothingLaid
  <2>2. writer = "None" /\ field = snapshot.before \o snapshot.after
    BY DEF StreamInit
  <2> QED
    BY <2>1, <2>2 DEF Place
<1> QED
  BY <1>2, <1>4, <1>5 DEF StreamInit, StreamInv, IdleIs, SpeakingIs, SettlingIs, SettledIs

-----------------------------------------------------------------------------
(* The steps of the supervisor.                                             *)

\* A step that leaves the region and the field alone leaves the region in place.
LEMMA PlaceKept ==
  ASSUME Place, UNCHANGED <<writer, region, field, snapshot>>
  PROVE  Place'
BY DEF Place, RegionInPlace, Laid, LeadOf

\* pipeline.rs, a press: the supervisor opens a session.
LEMMA BeginKeeps ==
  ASSUME StreamInv, BeginStream
  PROVE  StreamInv'
<1>1. PICK inPlace \in BOOLEAN : session' = NewSession(inPlace, TRUE)
  BY DEF BeginStream
<1>2. GoodSession(session') /\ session'.written = <<>> /\ ~session'.coalescer.inFlight
  BY <1>1, NewSessionIs
<1>3. /\ stage = "Idle" /\ stage' = "Speaking" /\ writer' = "Running"
      /\ UNCHANGED <<dead, toWriter, events, region, field, final, outcome, snapshot, partials, failures>>
  BY DEF BeginStream
<1>4. /\ writer = "None" /\ toWriter = <<>> /\ events = <<>> /\ outcome = "None" /\ ~dead /\ region.applied = <<>>
  BY <1>3 DEF StreamInv, IdleIs
<1>5. Types'
  BY <1>2, <1>3 DEF StreamInv, Types, GoodSession
<1>6. Place'
  BY <1>3, <1>4 DEF StreamInv, Place, Laid, LeadOf
<1>7. Quiet'
  BY <1>2, <1>3, <1>4 DEF Quiet
<1>8. SpeakingIs'
  BY <1>2, <1>3, <1>4, <1>7 DEF SpeakingIs
<1> QED
  BY <1>3, <1>5, <1>6, <1>8 DEF StreamInv, IdleIs, SettlingIs, SettledIs

\* What the session sends is dispatched: the gate stays in one of its states.
LEMMA DispatchIs ==
  ASSUME StreamInv, stage = "Speaking", NEW step, SessionStep(session, step),
         session' = step.session, Dispatch(step.write), UNCHANGED <<writer, events, region, failures>>
  PROVE  GoodSession(session') /\ dead' \in BOOLEAN /\ (Quiet' \/ Sent' \/ Answered' \/ Broken')
<1>1. writer = "Running" /\ (Quiet \/ Sent \/ Answered \/ Broken) /\ dead \in BOOLEAN
  BY DEF StreamInv, SpeakingIs, Types
<1>2. GoodSession(session') /\ session'.mode = session.mode
  BY DEF SessionStep
<1>3. CASE /\ step.write = {} /\ session'.written = session.written
           /\ session'.coalescer.inFlight = session.coalescer.inFlight
  <2>1. UNCHANGED <<toWriter, dead>>
    BY <1>3 DEF Dispatch
  <2>2. Quiet => Quiet'
    BY <1>3, <2>1 DEF Quiet
  <2>3. Sent => Sent'
    BY <1>2, <1>3, <2>1 DEF Sent
  <2>4. Answered => Answered'
    BY <1>3, <2>1 DEF Answered
  <2>5. Broken => Broken'
    BY <2>1 DEF Broken
  <2> QED
    BY <1>1, <1>2, <2>1, <2>2, <2>3, <2>4, <2>5
<1>4. CASE /\ session.mode = "Streaming" /\ ~session.coalescer.inFlight /\ session'.coalescer.inFlight
           /\ \E cmd : step.write = {cmd} /\ Turns(cmd, session.written, session'.written)
           /\ StartsWith(session'.written, session.written) /\ session'.written # <<>>
  <2>1. Quiet \/ Broken
    BY <1>1, <1>4 DEF Sent, Answered
  <2>2. CASE Broken
    <3>1. UNCHANGED <<toWriter, dead>>
      BY <2>2 DEF Dispatch, Broken
    <3> QED
      BY <1>1, <1>2, <2>2, <3>1 DEF Broken
  <2>3. CASE Quiet
    <3>1. PICK cmd : step.write = {cmd} /\ Turns(cmd, session.written, session'.written)
      BY <1>4
    <3>2. ~dead /\ toWriter = <<>> /\ events = <<>> /\ region.applied = session.written
      BY <2>3 DEF Quiet
    <3>3. (CHOOSE e \in {cmd} : TRUE) = cmd
      OBVIOUS
    <3>4. ~(step.write = {})
      BY <3>1
    <3>5. /\ dead' = (writer # "Running")
          /\ toWriter' = IF dead' THEN toWriter
                         ELSE Append(toWriter, Command("Apply", CHOOSE e \in step.write : TRUE))
      BY <3>2, <3>4 DEF Dispatch
    <3>6. ~dead'
      BY <1>1, <3>5
    <3>7. toWriter' = <<Command("Apply", cmd)>>
      BY <3>1, <3>2, <3>3, <3>5, <3>6, OneQueued
    <3>8. Extends(cmd, region'.applied) /\ Ahead(cmd, region'.applied) = session'.written
      BY <1>4, <3>1, <3>2 DEF Turns, Extends
    <3>9. Sent'
      BY <1>2, <1>4, <3>2, <3>6, <3>7, <3>8 DEF Sent
    <3>10. dead' \in BOOLEAN
      BY <3>5, Zenon
    <3> QED
      BY <1>2, <3>9, <3>10
  <2> QED
    BY <2>1, <2>2, <2>3
<1> QED
  BY <1>3, <1>4 DEF SessionStep

\* A step while the user speaks, in which only the session and the gate move.
LEMMA SpeakingKeeps ==
  ASSUME StreamInv, stage = "Speaking", GoodSession(session'), dead' \in BOOLEAN,
         Quiet' \/ Sent' \/ Answered' \/ Broken',
         UNCHANGED <<stage, writer, region, field, final, outcome, snapshot, failures>>
  PROVE  StreamInv'
<1>1. writer = "Running" /\ outcome = "None"
  BY DEF StreamInv, SpeakingIs
<1>2. Types'
  BY DEF StreamInv, Types, GoodSession
<1>3. Place'
  BY PlaceKept DEF StreamInv
<1>4. SpeakingIs'
  BY <1>1 DEF SpeakingIs
<1> QED
  BY <1>2, <1>3, <1>4 DEF StreamInv, IdleIs, SettlingIs, SettledIs

\* A partial hypothesis comes.
LEMMA PartialKeeps ==
  ASSUME StreamInv, NEW text \in Hypotheses, OnPartial(text)
  PROVE  /\ StreamInv'
         /\ session'.horizon.committed # session.horizon.committed =>
              AgreedOn(session'.horizon.committed, session'.horizon.recent)
<1>1. PICK step : step = SessionPartial(session, text)
  OBVIOUS
<1>2. /\ stage = "Speaking" /\ session' = step.session /\ Dispatch(step.write)
      /\ UNCHANGED <<stage, writer, events, region, field, final, outcome, snapshot, failures>>
  BY <1>1 DEF OnPartial
<1>3. GoodSession(session) /\ text \in Text
  BY <1>2, StreamAssumption DEF StreamInv, SpeakingIs
<1>4. /\ SessionStep(session, step)
      /\ session'.horizon.committed # session.horizon.committed =>
           AgreedOn(session'.horizon.committed, session'.horizon.recent)
  BY <1>1, <1>2, <1>3, SessionPartialIs
<1>5. GoodSession(session') /\ dead' \in BOOLEAN /\ (Quiet' \/ Sent' \/ Answered' \/ Broken')
  BY <1>2, <1>4, DispatchIs
<1> QED
  BY <1>2, <1>4, <1>5, SpeakingKeeps

\* The supervisor ticks.
LEMMA TickKeeps ==
  ASSUME StreamInv, OnTick
  PROVE  StreamInv' /\ session'.horizon = session.horizon
<1>1. PICK step : step = SessionTick(session)
  OBVIOUS
<1>2. /\ stage = "Speaking" /\ session' = step.session /\ Dispatch(step.write) /\ Due(session.coalescer)
      /\ UNCHANGED <<stage, writer, events, region, field, final, outcome, snapshot, failures>>
  BY <1>1 DEF OnTick
<1>3. GoodSession(session)
  BY <1>2 DEF StreamInv, SpeakingIs
<1>4. SessionStep(session, step) /\ session'.horizon = session.horizon
  BY <1>1, <1>2, <1>3, SessionTickIs
<1>5. GoodSession(session') /\ dead' \in BOOLEAN /\ (Quiet' \/ Sent' \/ Answered' \/ Broken')
  BY <1>2, <1>4, DispatchIs
<1> QED
  BY <1>2, <1>4, <1>5, SpeakingKeeps

\* Time passes.
LEMMA ElapsesKeeps ==
  ASSUME StreamInv, Elapses
  PROVE  StreamInv' /\ session'.horizon = session.horizon
<1>1. PICK c : c = Elapse(session.coalescer)
  OBVIOUS
<1>2. /\ stage = "Speaking" /\ session' = [session EXCEPT !.coalescer = c]
      /\ UNCHANGED <<stage, dead, toWriter, writer, events, region, field, final, outcome, snapshot, failures>>
  BY <1>1 DEF Elapses
<1>3. GoodSession(session) /\ dead \in BOOLEAN /\ (Quiet \/ Sent \/ Answered \/ Broken)
  BY <1>2 DEF StreamInv, SpeakingIs, Types
<1>4. session.coalescer \in Coalescers
  BY <1>3, SessionHas DEF GoodSession
<1>5. c \in Coalescers /\ c.pending = session.coalescer.pending /\ c.inFlight = session.coalescer.inFlight
  BY <1>1, <1>4, ElapseIs
<1>6. /\ GoodSession(session') /\ session'.mode = session.mode /\ session'.written = session.written
      /\ session'.horizon = session.horizon /\ session'.coalescer.inFlight = session.coalescer.inFlight
  BY <1>2, <1>3, <1>5, SessionClockIs
<1>7. Quiet => Quiet'
  BY <1>2, <1>6 DEF Quiet
<1>8. Sent => Sent'
  BY <1>2, <1>6 DEF Sent
<1>9. Answered => Answered'
  BY <1>2, <1>6 DEF Answered
<1>10. Broken => Broken'
  BY <1>2 DEF Broken
<1> QED
  BY <1>2, <1>3, <1>6, <1>7, <1>8, <1>9, <1>10, SpeakingKeeps

\* The supervisor hears how a write ended.
LEMMA WriteDoneKeeps ==
  ASSUME StreamInv, OnWriteDone
  PROVE  StreamInv' /\ (stage = "Speaking" => session'.horizon = session.horizon)
<1>1. /\ events # <<>> /\ events[1].kind = "WriteDone" /\ events' = Tail(events)
      /\ UNCHANGED <<stage, toWriter, writer, region, field, final, outcome, snapshot, failures>>
  BY DEF OnWriteDone
<1>2. Place'
  BY <1>1, PlaceKept DEF StreamInv
<1>3. ASSUME NEW ok, events = <<Event(ok)>> PROVE events' = <<>> /\ events[1].ok = ok
  BY <1>1, <1>3, OneQueued, EventIs
<1>4. AtMostOneEvent => events' = <<>>
  BY <1>1, <1>3 DEF AtMostOneEvent
<1>5. CASE stage = "Speaking"
  <2>1. PICK c : c = WriteDone(session.coalescer)
    OBVIOUS
  <2>2. session' = [session EXCEPT !.coalescer = c] /\ dead' = (dead \/ ~events[1].ok)
    BY <1>5, <2>1 DEF OnWriteDone
  <2>3. GoodSession(session) /\ dead \in BOOLEAN /\ Answered
    BY <1>1, <1>5 DEF StreamInv, SpeakingIs, Types, Quiet, Sent, Broken
  <2>4. session.coalescer \in Coalescers
    BY <2>3, SessionHas DEF GoodSession
  <2>5. c \in Coalescers /\ c.pending = session.coalescer.pending /\ ~c.inFlight
    BY <2>1, <2>4, WriteDoneIs
  <2>6. /\ GoodSession(session') /\ session'.written = session.written
        /\ session'.horizon = session.horizon /\ ~session'.coalescer.inFlight
    BY <2>2, <2>3, <2>5, SessionClockIs
  <2>7. PICK ok \in BOOLEAN :
          events = <<Event(ok)>> /\ IF ok THEN region.applied = session.written ELSE failures > 0
    BY <2>3 DEF Answered
  <2>8. events' = <<>> /\ toWriter' = <<>> /\ ~dead /\ dead' = ~ok
    BY <1>1, <1>3, <2>2, <2>3, <2>7 DEF Answered
  <2>9. ASSUME ok PROVE Quiet'
    BY <1>1, <2>6, <2>7, <2>8, <2>9 DEF Quiet
  <2>10. ASSUME ~ok PROVE Broken'
    BY <1>1, <2>7, <2>8, <2>10 DEF Broken
  <2>11. dead' \in BOOLEAN
    BY <2>8, Zenon
  <2> QED
    BY <1>1, <1>5, <2>6, <2>9, <2>10, <2>11, SpeakingKeeps
<1>6. CASE stage # "Speaking"
  <2>1. UNCHANGED <<session, dead>>
    BY <1>6 DEF OnWriteDone
  <2>2. Types'
    BY <1>1, <2>1 DEF StreamInv, Types
  <2>3. stage # "Idle"
    BY <1>1 DEF StreamInv, IdleIs
  <2>4. ASSUME stage = "Settling" PROVE Waiting' \/ Ended' \/ Gone'
    <3>1. Waiting \/ Ended \/ Gone
      BY <1>1, <2>4 DEF StreamInv, SettlingIs, Behind
    <3>2. CASE Waiting
      <4>1. events' = <<>>
        BY <1>4, <3>2 DEF Waiting
      <4> QED
        BY <1>1, <3>2, <4>1 DEF Waiting, AtMostOneEvent, Settles
    <3>3. CASE Ended
      <4>1. PICK done : Answer(done) /\ (events = <<done>> \/ \E ok \in BOOLEAN : events = <<Event(ok), done>>)
        BY <3>3 DEF Ended
      <4>2. events # <<done>>
        BY <1>1, <4>1, OneQueued DEF Answer
      <4>3. events' = <<done>>
        BY <1>1, <4>1, <4>2, TwoQueued
      <4>4. Answer(done)'
        BY <1>1, <4>1 DEF Answer, Joined
      <4> QED
        BY <1>1, <3>3, <4>3, <4>4 DEF Ended
    <3>4. CASE Gone
      <4>1. events' = <<>>
        BY <1>4, <3>4 DEF Gone
      <4> QED
        BY <1>1, <3>4, <4>1 DEF Gone, AtMostOneEvent
    <3> QED
      BY <3>1, <3>2, <3>3, <3>4
  <2>5. ASSUME stage = "Settled" PROVE Dropped'
    <3>1. Dropped /\ events # <<>>
      BY <1>1, <2>5 DEF StreamInv, SettledIs, Delivered
    <3>2. toWriter = <<>> /\ AtMostOneEvent
      BY <3>1 DEF Dropped
    <3>3. events' = <<>>
      BY <1>4, <3>2
    <3> QED
      BY <1>1, <3>1, <3>2, <3>3 DEF Dropped, AtMostOneEvent
  <2>6. SettlingIs'
    BY <1>1, <2>4 DEF StreamInv, SettlingIs
  <2>7. SettledIs'
    BY <1>1, <2>5 DEF SettledIs
  <2> QED
    BY <1>1, <1>2, <1>6, <2>2, <2>3, <2>6, <2>7 DEF StreamInv, IdleIs, SpeakingIs
<1> QED
  BY <1>5, <1>6

\* The settle that is sent turns the text written into the final one.
LEMMA FinishSends ==
  ASSUME NEW s \in Sessions, NEW text \in Text, NEW step, step = SessionFinish(s, text)
  PROVE  /\ step.session \in Sessions
         /\ \E last : /\ last = (IF step.write = {} THEN NoEdit ELSE CHOOSE e \in step.write : TRUE)
                      /\ Turns(last, s.written, text)
<1>1. PICK horizon : horizon = [committed |-> text, recent |-> <<>>]
  OBVIOUS
<1>2. horizon \in Horizons
  <2>1. <<>> \in Seq(Text) /\ Len(<<>>) = 0 /\ 0 <= Stability
    BY HorizonAssumption
  <2> QED
    BY <1>1, <2>1 DEF Horizons
<1>3. step.session = [s EXCEPT !.written = text, !.horizon = horizon] /\ step.write = EmitWrite(s.written, text)
  BY <1>1 DEF SessionFinish, HorizonFinish
<1>4. step.session \in Sessions
  BY <1>2, <1>3 DEF Sessions
<1>5. s.written \in Text
  BY SessionHas
<1>6. CASE text = s.written
  <2>1. step.write = {}
    BY <1>3, <1>6 DEF EmitWrite
  <2>2. Turns(NoEdit, s.written, text)
    BY <1>5, <1>6, NoEditIs
  <2> QED
    BY <1>4, <2>1, <2>2
<1>7. CASE text # s.written
  <2>1. PICK cmd : step.write = {cmd} /\ Turns(cmd, s.written, text)
    BY <1>3, <1>5, <1>7, EmitWriteIs
  <2>2. (CHOOSE e \in {cmd} : TRUE) = cmd /\ {cmd} # {}
    OBVIOUS
  <2> QED
    BY <1>4, <2>1, <2>2
<1> QED
  BY <1>6, <1>7

\* The final text comes: the settle and the finish are sent.
LEMMA FinishKeeps ==
  ASSUME StreamInv, NEW text \in Hypotheses, Finish(text)
  PROVE  StreamInv'
<1>1. PICK step : step = SessionFinish(session, text)
  OBVIOUS
<1>2. PICK last : last = IF step.write = {} THEN NoEdit ELSE CHOOSE e \in step.write : TRUE
  OBVIOUS
<1>3. /\ stage = "Speaking" /\ final' = text /\ stage' = "Settling"
      /\ outcome' = (IF text = <<>> THEN "Silent" ELSE "None")
      /\ session' = step.session /\ toWriter' = Append(toWriter, Command("Finish", last))
      /\ UNCHANGED <<dead, writer, events, region, field, snapshot, failures>>
  BY <1>1, <1>2 DEF Finish
<1>4. text \in Text /\ session \in Sessions
  BY StreamAssumption DEF StreamInv, Types
<1>5. session' \in Sessions /\ Turns(last, session.written, text)
  BY <1>1, <1>2, <1>3, <1>4, FinishSends
<1>6. writer = "Running" /\ (Quiet \/ Sent \/ Answered \/ Broken) /\ last \in Commands
  BY <1>3, <1>5 DEF StreamInv, SpeakingIs, Turns
<1>7. Types'
  BY <1>3, <1>4, <1>5 DEF StreamInv, Types
<1>8. Place'
  BY <1>3, PlaceKept DEF StreamInv
<1>9. ASSUME toWriter = <<>>, AtMostOneEvent, failures = 0 => region.applied = session.written PROVE Waiting'
  <2>1. toWriter' = <<Command("Finish", last)>>
    BY <1>3, <1>9, OneQueued
  <2>2. Settles(last, region.applied)'
    BY <1>3, <1>5, <1>6, <1>9 DEF Settles
  <2>3. AtMostOneEvent'
    BY <1>3, <1>9 DEF AtMostOneEvent
  <2> QED
    BY <1>3, <1>6, <2>1, <2>2, <2>3 DEF Waiting
<1>10. ASSUME Quiet PROVE Waiting'
  BY <1>9, <1>10 DEF Quiet, AtMostOneEvent
<1>11. ASSUME Answered PROVE Waiting'
  <2>1. PICK ok \in BOOLEAN :
          events = <<Event(ok)>> /\ IF ok THEN region.applied = session.written ELSE failures > 0
    BY <1>11 DEF Answered
  <2>2. failures = 0 => region.applied = session.written
    BY <2>1
  <2>3. AtMostOneEvent
    BY <2>1 DEF AtMostOneEvent
  <2> QED
    BY <1>9, <1>11, <2>2, <2>3 DEF Answered
<1>12. ASSUME Broken PROVE Waiting'
  BY <1>9, <1>12 DEF Broken, AtMostOneEvent
<1>13. ASSUME Sent PROVE Behind'
  <2>1. PICK cmd : /\ toWriter = <<Command("Apply", cmd)>> /\ Extends(cmd, region.applied)
                   /\ Ahead(cmd, region.applied) = session.written
    BY <1>13 DEF Sent
  <2>2. toWriter' = <<Command("Apply", cmd), Command("Finish", last)>>
    BY <1>3, <2>1, TwoQueued
  <2>3. Settles(last, Ahead(cmd, region.applied))'
    BY <1>3, <1>5, <1>6, <2>1 DEF Settles
  <2>4. Extends(cmd, region'.applied) /\ events' = <<>>
    BY <1>3, <1>13, <2>1 DEF Sent
  <2> QED
    BY <1>3, <1>6, <2>2, <2>3, <2>4 DEF Behind
<1>14. Behind' \/ Waiting'
  BY <1>6, <1>10, <1>11, <1>12, <1>13
<1>15. SettlingIs'
  BY <1>3, <1>14 DEF SettlingIs
<1> QED
  BY <1>3, <1>7, <1>8, <1>15 DEF StreamInv, IdleIs, SpeakingIs, SettledIs

\* The utterance is given up: the supervisor lets go of the writer.
LEMMA DropKeeps ==
  ASSUME StreamInv, DropStreamer
  PROVE  StreamInv'
<1>1. /\ stage = "Speaking" /\ stage' = "Settled" /\ outcome' = "Failed"
      /\ UNCHANGED <<session, dead, toWriter, writer, events, region, field, final, snapshot, failures>>
  BY DEF DropStreamer
<1>2. writer = "Running" /\ (Quiet \/ Sent \/ Answered \/ Broken)
  BY <1>1 DEF StreamInv, SpeakingIs
<1>3. Types' /\ Place'
  BY <1>1, PlaceKept DEF StreamInv, Types
<1>4. ASSUME Sent PROVE Dropped'
  BY <1>1, <1>2, <1>4 DEF Sent, Dropped
<1>5. ASSUME Quiet \/ Answered \/ Broken PROVE Dropped'
  <2>1. toWriter = <<>> /\ AtMostOneEvent
    BY <1>5 DEF Quiet, Answered, Broken, AtMostOneEvent
  <2> QED
    BY <1>1, <1>2, <2>1 DEF Dropped, AtMostOneEvent
<1>6. Dropped'
  BY <1>2, <1>4, <1>5
<1> QED
  BY <1>1, <1>3, <1>6 DEF StreamInv, IdleIs, SpeakingIs, SettlingIs, SettledIs

\* settle_streamed
LEMMA SettleKeeps ==
  ASSUME StreamInv, SettleStreamed
  PROVE  StreamInv'
<1>1. /\ stage = "Settling" /\ events # <<>> /\ events[1].kind = "Finished"
      /\ events' = Tail(events) /\ stage' = "Settled"
      /\ outcome' = IF outcome = "Silent" THEN outcome
                    ELSE IF events[1].ok THEN "Streamed"
                    ELSE IF events[1].wroteAny THEN "Failed" ELSE "Buffered"
      /\ UNCHANGED <<session, dead, toWriter, writer, region, field, final, snapshot, failures>>
  BY DEF SettleStreamed
<1>2. ~AtMostOneEvent
  BY <1>1, OneQueued, EventIs DEF AtMostOneEvent
<1>3. Ended /\ (outcome = "Silent" \/ (outcome = "None" /\ final # <<>>))
  BY <1>1, <1>2 DEF StreamInv, SettlingIs, Behind, Waiting, Gone
<1>4. PICK done : Answer(done) /\ (events = <<done>> \/ \E ok \in BOOLEAN : events = <<Event(ok), done>>)
  BY <1>3 DEF Ended
<1>5. events = <<done>>
  BY <1>1, <1>4, TwoQueued, EventIs
<1>6. events' = <<>> /\ events[1] = done
  BY <1>1, <1>5, OneQueued
<1>7. Types' /\ Place'
  BY <1>1, PlaceKept DEF StreamInv, Types
<1>8. outcome' = "Streamed" => done.ok /\ final # <<>>
  BY <1>1, <1>3, <1>6
<1>9. outcome' = "Buffered" => ~done.ok /\ ~done.wroteAny
  BY <1>1, <1>3, <1>6
<1>10. Joined(final)' = Joined(final)
  BY <1>1 DEF Joined
<1>11. Delivered'
  BY <1>1, <1>3, <1>4, <1>6, <1>8, <1>9, <1>10 DEF Delivered, Ended, Answer
<1> QED
  BY <1>1, <1>7, <1>11 DEF StreamInv, IdleIs, SpeakingIs, SettlingIs, SettledIs

-----------------------------------------------------------------------------
(* The steps of the writer thread.                                          *)

\* The region, once it has a place, is at the place it was given.
LEMMA AddressedIs ==
  ASSUME NEW cmd, NEW r
  PROVE  /\ Addressed(r, cmd) = AtText(cmd, r.applied)
         /\ InRegion(r, Addressed(r, cmd)) <=> Legal(cmd, r.applied)
BY DEF Addressed, AtText, InRegion, Legal

\* A region stands in its field: with its lead or, as long as it has no text,
\* without, and with its trail or without.
Stands(r, f, snap) ==
  \E lead \in {<<>>, r.lead}, trail \in {<<>>, r.trail} :
    /\ f = snap.before \o lead \o r.applied \o trail \o snap.after
    /\ r.applied # <<>> => lead = r.lead

\* As it is laid out, with nothing sealed.
LEMMA LaidStands ==
  ASSUME NEW r \in Regions, NEW snap, snap.before \in Text,
         NEW f, f = Laid(r, snap.before, snap.after)
  PROVE  Stands(r, f, snap)
<1>1. r.applied \in Text /\ r.lead \in Text
  BY DEF Regions
<1>2. PICK lead : lead = LeadOf(r)
  OBVIOUS
<1>3. lead \in {<<>>, r.lead} /\ (r.applied # <<>> => lead = r.lead)
  BY <1>2 DEF LeadOf
<1>4. PICK all : all = (snap.before \o lead) \o r.applied
  OBVIOUS
<1>5. all \in Text
  <2>1. lead \in Text
    BY <1>1, <1>3, JoiningNothing
  <2>2. Join(snap.before, lead) \in Text
    BY <1>1, <2>1, Joining
  <2>3. Join(Join(snap.before, lead), r.applied) \in Text
    BY <1>1, <2>2, Joining
  <2> QED
    BY <1>4, <2>3 DEF Join
<1>6. all \o <<>> = all
  BY <1>5, JoiningNothing DEF Join
<1>7. f = snap.before \o lead \o r.applied \o <<>> \o snap.after
  BY <1>2, <1>4, <1>6, Zenon DEF Laid
<1> QED
  BY <1>3, <1>7 DEF Stands

\* A write that extends the text is accepted and leaves the region laid out,
\* or is refused and changes nothing.
LEMMA ApplyIs ==
  ASSUME Types, Place, writer = "Running", NEW cmd, Extends(cmd, region.applied),
         WriterApply, toWriter[1].edit = cmd
  PROVE  /\ toWriter[1].kind = "Apply" /\ toWriter' = Tail(toWriter)
         /\ UNCHANGED <<stage, session, dead, writer, final, outcome, snapshot, partials>>
         /\ Types' /\ Place'
         /\ \/ /\ region' = region /\ failures' > 0 /\ events' = Append(events, Event(FALSE))
            \/ /\ region'.applied = Ahead(cmd, region.applied) /\ failures' = failures
               /\ events' = Append(events, Event(TRUE))
<1>1. PICK edit : edit = AtText(cmd, region.applied)
  OBVIOUS
<1>2. PICK done : done = ApplyToRegion(region, edit, field)
  OBVIOUS
<1>3. /\ toWriter[1].kind = "Apply" /\ toWriter' = Tail(toWriter)
      /\ UNCHANGED <<stage, session, dead, writer, final, outcome, snapshot, partials>>
  BY DEF WriterApply, WriterReceives
<1>4. \/ /\ Refused(edit) /\ events' = Append(events, Event(FALSE)) /\ UNCHANGED <<region, field>>
      \/ /\ InField(region, edit, field) /\ region' = done.region /\ field' = done.field
         /\ events' = Append(events, Event(TRUE)) /\ UNCHANGED failures
  BY <1>1, <1>2, AddressedIs DEF WriterApply, Event
<1>5. /\ snapshot.before \in Text /\ snapshot.after \in Text /\ region \in Regions
      /\ region.start = Len(snapshot.before) /\ cmd \in Commands /\ Legal(cmd, region.applied)
      /\ field = Laid(region, snapshot.before, snapshot.after) /\ failures \in Nat
      /\ region.applied \in Text
  BY DEF Types, Place, Extends, Regions
<1>6. PICK next : next = Ahead(cmd, region.applied)
  OBVIOUS
<1>7. /\ InField(region, edit, field) /\ done.region = [region EXCEPT !.applied = next]
      /\ done.field = snapshot.before \o region.lead \o next \o snapshot.after
  <2>1. /\ InField(region, edit, field)
        /\ ApplyToRegion(region, edit, field).region = [region EXCEPT !.applied = Ahead(cmd, region.applied)]
        /\ ApplyToRegion(region, edit, field).field
             = snapshot.before \o region.lead \o Ahead(cmd, region.applied) \o snapshot.after
    <3>1. TakesEdit(region, cmd, snapshot.before, snapshot.after)
      BY <1>5, RegionTakesEdit
    <3> QED
      BY <1>1, <1>5, <3>1, Zenon DEF TakesEdit
  <2> QED
    BY <1>2, <1>6, <2>1, Zenon
<1>8. next \in Text /\ next # <<>>
  BY <1>5, <1>6, AheadIs DEF Extends
<1>9. CASE Refused(edit) /\ events' = Append(events, Event(FALSE)) /\ UNCHANGED <<region, field>>
  <2>1. failures' = failures + 1
    BY <1>7, <1>9 DEF Refused
  <2>2. failures' > 0 /\ failures' \in Nat
    BY <1>5, <2>1
  <2>3. Types'
    BY <1>3, <1>9, <2>2 DEF Types
  <2>4. Place'
    BY <1>3, <1>9, PlaceKept
  <2> QED
    BY <1>3, <1>9, <2>2, <2>3, <2>4
<1>10. CASE /\ InField(region, edit, field) /\ region' = done.region /\ field' = done.field
            /\ events' = Append(events, Event(TRUE)) /\ UNCHANGED failures
  <2>1. /\ region' \in Regions /\ region'.applied = next /\ region'.start = region.start
        /\ region'.lead = region.lead
    BY <1>5, <1>7, <1>8, <1>10 DEF Regions
  <2>2. Types'
    BY <1>3, <1>10, <2>1 DEF Types
  <2>3. Laid(region', snapshot.before, snapshot.after) = snapshot.before \o region.lead \o next \o snapshot.after
    BY <1>8, <2>1 DEF Laid, LeadOf
  <2>4. field' = Laid(region', snapshot.before, snapshot.after)
    BY <1>7, <1>10, <2>3, Zenon
  <2>5. Place'
    BY <1>3, <2>4 DEF Place
  <2> QED
    BY <1>3, <1>6, <1>10, <2>1, <2>2, <2>5
<1> QED
  BY <1>4, <1>9, <1>10

\* What the thread has to apply, in each stage.
LEMMA ApplyHead ==
  ASSUME StreamInv, WriterApply
  PROVE  \/ stage = "Speaking" /\ Sent
         \/ stage = "Settling" /\ Behind
         \/ stage = "Settled" /\ Dropped /\ toWriter # <<>>
<1>1. writer = "Running" /\ toWriter # <<>> /\ toWriter[1].kind = "Apply"
  BY DEF WriterApply, WriterReceives
<1>2. stage \in {"Idle", "Speaking", "Settling", "Settled"}
  BY DEF StreamInv, Types
<1>3. stage # "Idle"
  BY <1>1 DEF StreamInv, IdleIs
<1>4. stage = "Speaking" => Sent
  BY <1>1 DEF StreamInv, SpeakingIs, Quiet, Answered, Broken
<1>5. ~Waiting
  <2>1. ASSUME NEW last, toWriter = <<Command("Finish", last)>> PROVE FALSE
    BY <1>1, <2>1, OneQueued, CommandIs
  <2> QED
    BY <2>1 DEF Waiting
<1>6. stage = "Settling" => Behind
  BY <1>1, <1>5 DEF StreamInv, SettlingIs, Ended, Gone
<1>7. stage = "Settled" => Dropped
  BY <1>1 DEF StreamInv, SettledIs, Delivered
<1> QED
  BY <1>1, <1>2, <1>3, <1>4, <1>6, <1>7

\* The writer applies a command.
LEMMA ApplyKeeps ==
  ASSUME StreamInv, WriterApply
  PROVE  StreamInv' /\ (stage = "Speaking" => StartsWith(region'.applied, region.applied))
<1>1. writer = "Running" /\ Types /\ Place
  BY DEF WriterApply, WriterReceives, StreamInv
<1>2. CASE stage = "Speaking" /\ Sent
  <2>1. PICK cmd : /\ toWriter = <<Command("Apply", cmd)>> /\ Extends(cmd, region.applied)
                   /\ Ahead(cmd, region.applied) = session.written
    BY <1>2 DEF Sent
  <2>2. toWriter[1].edit = cmd /\ Tail(toWriter) = <<>>
    BY <2>1, OneQueued, CommandIs
  <2>3. /\ toWriter' = <<>> /\ UNCHANGED <<stage, session, dead, writer, final, outcome, snapshot>>
        /\ Types' /\ Place'
        /\ \/ region' = region /\ failures' > 0 /\ events' = Append(events, Event(FALSE))
           \/ region'.applied = Ahead(cmd, region.applied) /\ events' = Append(events, Event(TRUE))
    BY <1>1, <2>1, <2>2, ApplyIs
  <2>4. events = <<>> /\ ~dead /\ session.coalescer.inFlight
    BY <1>2 DEF Sent
  <2>5. Answered'
    <3>1. CASE region' = region /\ failures' > 0 /\ events' = Append(events, Event(FALSE))
      <4>1. events' = <<Event(FALSE)>>
        BY <2>4, <3>1, OneQueued
      <4> QED
        BY <2>3, <2>4, <3>1, <4>1 DEF Answered
    <3>2. CASE region'.applied = Ahead(cmd, region.applied) /\ events' = Append(events, Event(TRUE))
      <4>1. events' = <<Event(TRUE)>>
        BY <2>4, <3>2, OneQueued
      <4> QED
        BY <2>1, <2>3, <2>4, <3>2, <4>1 DEF Answered
    <3> QED
      BY <2>3, <3>1, <3>2
  <2>6. SpeakingIs'
    BY <1>2, <2>3, <2>5 DEF StreamInv, SpeakingIs
  <2>7. StreamInv'
    BY <1>2, <2>3, <2>6 DEF StreamInv, IdleIs, SettlingIs, SettledIs
  <2>8. StartsWith(region'.applied, region.applied)
    <3>1. region.applied \in Text
      BY <1>1 DEF Types, Regions
    <3> QED
      BY <2>1, <2>3, <3>1, StartsWithItself DEF Extends
  <2> QED
    BY <2>7, <2>8
<1>3. CASE stage = "Settling" /\ Behind
  <2>1. PICK cmd, last : /\ toWriter = <<Command("Apply", cmd), Command("Finish", last)>>
                         /\ Extends(cmd, region.applied) /\ Settles(last, Ahead(cmd, region.applied))
    BY <1>3 DEF Behind
  <2>2. toWriter[1].edit = cmd /\ Tail(toWriter) = <<Command("Finish", last)>>
    BY <2>1, TwoQueued, CommandIs
  <2>3. /\ toWriter' = <<Command("Finish", last)>>
        /\ UNCHANGED <<stage, session, dead, writer, final, outcome, snapshot>>
        /\ Types' /\ Place'
        /\ \/ region' = region /\ failures' > 0 /\ events' = Append(events, Event(FALSE))
           \/ /\ region'.applied = Ahead(cmd, region.applied) /\ failures' = failures
              /\ events' = Append(events, Event(TRUE))
    BY <1>1, <2>1, <2>2, ApplyIs
  <2>4. events = <<>>
    BY <1>3 DEF Behind
  <2>5. AtMostOneEvent'
    <3>1. Append(events, Event(FALSE)) = <<Event(FALSE)>> /\ Append(events, Event(TRUE)) = <<Event(TRUE)>>
      BY <2>4, OneQueued
    <3>2. events' = <<Event(FALSE)>> \/ events' = <<Event(TRUE)>>
      BY <2>3, <3>1
    <3> QED
      BY <3>2 DEF AtMostOneEvent
  <2>6. Settles(last, region.applied)'
    <3>1. last \in Commands /\ (failures = 0 => Turns(last, Ahead(cmd, region.applied), final))
      BY <2>1 DEF Settles
    <3>2. failures' = 0 => failures = 0 /\ region'.applied = Ahead(cmd, region.applied)
      BY <2>3
    <3>3. failures' = 0 => Turns(last, region'.applied, final')
      BY <2>3, <3>1, <3>2
    <3> QED
      BY <3>1, <3>3 DEF Settles
  <2>7. Waiting'
    BY <1>1, <2>3, <2>5, <2>6 DEF Waiting
  <2>8. SettlingIs'
    BY <1>3, <2>3, <2>7 DEF StreamInv, SettlingIs
  <2> QED
    BY <1>3, <2>3, <2>8 DEF StreamInv, IdleIs, SpeakingIs, SettledIs
<1>4. CASE stage = "Settled" /\ Dropped /\ toWriter # <<>>
  <2>1. events = <<>> /\ outcome = "Failed"
    BY <1>4 DEF Dropped
  <2>2. PICK cmd : toWriter = <<Command("Apply", cmd)>> /\ Extends(cmd, region.applied)
    BY <1>4 DEF Dropped
  <2>3. toWriter[1].edit = cmd /\ Tail(toWriter) = <<>>
    BY <2>2, OneQueued, CommandIs
  <2>4. /\ toWriter' = <<>> /\ UNCHANGED <<stage, session, dead, writer, final, outcome, snapshot>>
        /\ Types' /\ Place'
        /\ events' = Append(events, Event(FALSE)) \/ events' = Append(events, Event(TRUE))
    BY <1>1, <2>2, <2>3, ApplyIs
  <2>5. AtMostOneEvent'
    <3>1. Append(events, Event(FALSE)) = <<Event(FALSE)>> /\ Append(events, Event(TRUE)) = <<Event(TRUE)>>
      BY <2>1, OneQueued
    <3>2. events' = <<Event(FALSE)>> \/ events' = <<Event(TRUE)>>
      BY <2>4, <3>1
    <3> QED
      BY <3>2 DEF AtMostOneEvent
  <2>6. Dropped'
    BY <1>1, <2>1, <2>4, <2>5 DEF Dropped
  <2> QED
    BY <1>4, <2>4, <2>6 DEF StreamInv, IdleIs, SpeakingIs, SettlingIs, SettledIs
<1> QED
  BY <1>2, <1>3, <1>4, ApplyHead

\* What the thread has to finish with.
LEMMA FinishHead ==
  ASSUME StreamInv, WriterFinish
  PROVE  stage = "Settling" /\ Waiting
<1>1. writer = "Running" /\ toWriter # <<>> /\ toWriter[1].kind = "Finish"
  BY DEF WriterFinish, WriterReceives
<1>2. stage \in {"Idle", "Speaking", "Settling", "Settled"}
  BY DEF StreamInv, Types
<1>3. ASSUME NEW cmd, toWriter = <<Command("Apply", cmd)>> PROVE FALSE
  BY <1>1, <1>3, OneQueued, CommandIs
<1>4. ASSUME NEW cmd, NEW last, toWriter = <<Command("Apply", cmd), Command("Finish", last)>> PROVE FALSE
  BY <1>1, <1>4, TwoQueued, CommandIs
<1>5. stage # "Idle"
  BY <1>1 DEF StreamInv, IdleIs
<1>6. stage # "Speaking"
  BY <1>1, <1>3 DEF StreamInv, SpeakingIs, Quiet, Sent, Answered, Broken
<1>7. stage # "Settled"
  BY <1>1, <1>3 DEF StreamInv, SettledIs, Dropped, Delivered
<1>8. stage = "Settling" => Waiting
  BY <1>1, <1>4 DEF StreamInv, SettlingIs, Behind, Ended, Gone
<1> QED
  BY <1>2, <1>5, <1>6, <1>7, <1>8

\* As it is sealed.
LEMMA SealedStands ==
  ASSUME NEW r, NEW f, NEW snap,
         f = snap.before \o r.lead \o r.applied \o r.trail \o snap.after
  PROVE  Stands(r, f, snap)
BY DEF Stands

\* With the lead alone, when its text was taken back altogether.
LEMMA LeadStands ==
  ASSUME NEW r \in Regions, r.applied = <<>>, NEW f, NEW snap, snap.before \in Text,
         f = snap.before \o r.lead \o r.applied \o snap.after
  PROVE  Stands(r, f, snap)
<1>1. PICK all : all = (snap.before \o r.lead) \o r.applied
  OBVIOUS
<1>2. all \in Text
  <2>1. r.lead \in Text /\ r.applied \in Text
    BY DEF Regions
  <2>2. Join(snap.before, r.lead) \in Text
    BY <2>1, Joining
  <2>3. Join(Join(snap.before, r.lead), r.applied) \in Text
    BY <2>1, <2>2, Joining
  <2> QED
    BY <1>1, <2>3 DEF Join
<1>3. all \o <<>> = all
  BY <1>2, JoiningNothing DEF Join
<1>4. f = snap.before \o r.lead \o r.applied \o <<>> \o snap.after
  BY <1>1, <1>3, Zenon
<1> QED
  BY <1>4 DEF Stands

\* The settle: what the region and the field are when it is applied, and that
\* it is accepted.
LEMMA SettleApplied ==
  ASSUME Types, Place, writer = "Running", NEW last \in Commands, Legal(last, region.applied),
         NEW edit, edit = AtText(last, region.applied),
         NEW done, done = IF last = NoEdit THEN [region |-> region, field |-> field]
                          ELSE ApplyToRegion(region, edit, field)
  PROVE  /\ InField(region, edit, field)
         /\ done.region = [region EXCEPT !.applied = Ahead(last, region.applied)]
         /\ \/ done.field = Laid(done.region, snapshot.before, snapshot.after)
            \/ /\ Ahead(last, region.applied) = <<>>
               /\ done.field = snapshot.before \o region.lead \o Ahead(last, region.applied) \o snapshot.after
<1>1. /\ snapshot.before \in Text /\ snapshot.after \in Text /\ region \in Regions
      /\ region.start = Len(snapshot.before) /\ region.applied \in Text
      /\ field = Laid(region, snapshot.before, snapshot.after)
  BY DEF Types, Place, Regions
<1>2. PICK next : next = Ahead(last, region.applied)
  OBVIOUS
<1>3. /\ InField(region, edit, field)
      /\ ApplyToRegion(region, edit, field).region = [region EXCEPT !.applied = next]
      /\ ApplyToRegion(region, edit, field).field = snapshot.before \o region.lead \o next \o snapshot.after
  <2>1. TakesEdit(region, last, snapshot.before, snapshot.after)
    BY <1>1, RegionTakesEdit
  <2> QED
    BY <1>1, <1>2, <2>1, Zenon DEF TakesEdit
<1>4. CASE last = NoEdit
  <2>1. done.region = region /\ done.field = field
    BY <1>4
  <2>2. next = region.applied
    BY <1>1, <1>2, <1>4, NoEditIs DEF Turns
  <2>3. region = [region EXCEPT !.applied = next]
    BY <1>1, <2>2 DEF Regions
  <2> QED
    BY <1>1, <1>2, <1>3, <2>1, <2>3, Zenon
<1>5. CASE last # NoEdit
  <2>1. done = ApplyToRegion(region, edit, field)
    BY <1>5
  <2>2. done.region = [region EXCEPT !.applied = next]
    BY <1>3, <2>1, Zenon
  <2>3. done.field = snapshot.before \o region.lead \o next \o snapshot.after
    BY <1>3, <2>1, Zenon
  <2>4. done.region.applied = next /\ done.region.lead = region.lead
    BY <1>1, <2>2 DEF Regions
  <2>5. next # <<>> => done.field = Laid(done.region, snapshot.before, snapshot.after)
    <3>1. ASSUME next # <<>> PROVE LeadOf(done.region) = region.lead
      BY <2>4, <3>1 DEF LeadOf
    <3> QED
      BY <2>3, <2>4, <3>1, Zenon DEF Laid
  <2> QED
    BY <1>2, <1>3, <2>2, <2>3, <2>5, Zenon
<1> QED
  BY <1>4, <1>5

\* The fields of the last event.
LEMMA FinishedIs ==
  ASSUME NEW ok \in BOOLEAN, NEW r
  PROVE  Finished(ok, r).kind = "Finished" /\ Finished(ok, r).ok = ok /\ Finished(ok, r).wroteAny = (r.applied # <<>>)
BY DEF Finished

\* The writer finishes: the field holds the final text, sealed, or what it held.
LEMMA FinishApplied ==
  ASSUME StreamInv, WriterFinish
  PROVE  StreamInv'
<1>1. stage = "Settling" /\ Waiting /\ Types /\ Place /\ writer = "Running"
  BY FinishHead DEF WriterFinish, WriterReceives, StreamInv
<1>2. PICK last : toWriter = <<Command("Finish", last)>> /\ Settles(last, region.applied)
  BY <1>1 DEF Waiting
<1>3. toWriter[1].edit = last /\ toWriter' = <<>>
  BY <1>2, OneQueued, CommandIs DEF WriterFinish, WriterReceives
<1>4. PICK edit : edit = AtText(last, region.applied)
  OBVIOUS
<1>5. PICK done : done = IF last = NoEdit THEN [region |-> region, field |-> field]
                         ELSE ApplyToRegion(region, edit, field)
  OBVIOUS
<1>6. Addressed(region, toWriter[1].edit) = edit /\ (InRegion(region, edit) <=> Legal(last, region.applied))
  BY <1>3, <1>4, AddressedIs
<1>7. UNCHANGED <<stage, session, dead, final, outcome, snapshot>>
  BY DEF WriterFinish
<1>8. \/ /\ ~Legal(last, region.applied)
         /\ writer' = "Panicked" /\ UNCHANGED <<region, field, events, failures>>
      \/ /\ Legal(last, region.applied) /\ Refused(edit)
         /\ events' = Append(events, Finished(FALSE, region))
         /\ writer' = "Done" /\ UNCHANGED <<region, field>>
      \/ /\ Legal(last, region.applied)
         /\ region' = done.region /\ writer' = "Done"
         /\ \/ /\ field' = SealRegion(done.region, done.field)
               /\ events' = Append(events, Finished(TRUE, done.region)) /\ UNCHANGED failures
            \/ /\ done.region.applied # <<>> /\ failures' = failures + 1
               /\ field' = done.field /\ events' = Append(events, Finished(FALSE, done.region))
  <2>1. done = IF toWriter[1].edit = NoEdit THEN [region |-> region, field |-> field]
               ELSE ApplyToRegion(region, edit, field)
    BY <1>3, <1>5
  <2> QED
    BY <1>6, <2>1, Zenon DEF WriterFinish
<1>9. /\ snapshot.before \in Text /\ snapshot.after \in Text /\ region \in Regions
      /\ region.start = Len(snapshot.before) /\ region.applied \in Text /\ last \in Commands
      /\ field = Laid(region, snapshot.before, snapshot.after) /\ failures \in Nat
      /\ snapshot \in [before : Text, after : Text]
  BY <1>1, <1>2 DEF Types, Place, Regions, Settles
<1>10. outcome = "Silent" \/ (outcome = "None" /\ final # <<>>)
  BY <1>1 DEF StreamInv, SettlingIs
<1>11. AtMostOneEvent
  BY <1>1 DEF Waiting
<1>12. ASSUME NEW answer, Answer(answer)', events' = Append(events, answer), writer' = "Done"
       PROVE  SettlingIs'
  <2>1. events' = <<answer>> \/ \E ok \in BOOLEAN : events' = <<Event(ok), answer>>
    <3>1. CASE events = <<>>
      BY <1>12, <3>1, OneQueued
    <3>2. ASSUME NEW ok \in BOOLEAN, events = <<Event(ok)>> PROVE events' = <<Event(ok), answer>>
      BY <1>12, <3>2, TwoQueued
    <3> QED
      BY <1>11, <3>1, <3>2 DEF AtMostOneEvent
  <2>2. Ended'
    BY <1>3, <1>12, <2>1 DEF Ended
  <2> QED
    BY <1>7, <1>10, <2>2 DEF SettlingIs
<1>13. ASSUME Types', Place', SettlingIs' PROVE StreamInv'
  BY <1>1, <1>7, <1>13 DEF StreamInv, IdleIs, SpeakingIs, SettledIs
<1>14. CASE /\ ~Legal(last, region.applied)
            /\ writer' = "Panicked" /\ UNCHANGED <<region, field, events, failures>>
  <2>1. Types'
    BY <1>1, <1>7, <1>14 DEF Types
  <2>2. Place'
    BY <1>7, <1>9, <1>14 DEF Place, Laid, LeadOf
  <2>3. Gone'
    BY <1>3, <1>11, <1>14 DEF Gone, AtMostOneEvent
  <2>4. SettlingIs'
    BY <1>7, <1>10, <2>3 DEF SettlingIs
  <2> QED
    BY <1>13, <2>1, <2>2, <2>4
<1>15. CASE /\ Legal(last, region.applied) /\ Refused(edit)
            /\ events' = Append(events, Finished(FALSE, region))
            /\ writer' = "Done" /\ UNCHANGED <<region, field>>
  <2>1. failures' \in Nat
    BY <1>9, <1>15 DEF Refused
  <2>2. Types'
    BY <1>1, <1>7, <1>15, <2>1 DEF Types
  <2>3. Stands(region, field, snapshot)
    BY <1>9, LaidStands
  <2>4. Place'
    BY <1>7, <1>15, <2>3 DEF Place, RegionInPlace, Stands
  <2>5. ASSUME region.applied = <<>> PROVE field = snapshot.before \o snapshot.after
    <3>1. Laid(region, snapshot.before, snapshot.after) = snapshot.before \o snapshot.after
      <4>1. snapshot.before \in Text
        BY <1>9
      <4> QED
        BY <2>5, <4>1, NothingLaid
    <3> QED
      BY <1>9, <3>1, Zenon
  <2>6. PICK answer : answer = Finished(FALSE, region)
    OBVIOUS
  <2>7. answer.kind = "Finished" /\ ~answer.ok /\ answer.wroteAny = (region.applied # <<>>)
    BY <2>6, FinishedIs
  <2>8. Answer(answer)'
    BY <1>7, <1>15, <2>5, <2>7 DEF Answer
  <2>9. SettlingIs'
    BY <1>12, <1>15, <2>6, <2>8
  <2> QED
    BY <1>13, <2>2, <2>4, <2>9
<1>16. CASE /\ Legal(last, region.applied) /\ region' = done.region /\ writer' = "Done"
            /\ \/ /\ field' = SealRegion(done.region, done.field)
                  /\ events' = Append(events, Finished(TRUE, done.region)) /\ UNCHANGED failures
               \/ /\ done.region.applied # <<>> /\ failures' = failures + 1
                  /\ field' = done.field /\ events' = Append(events, Finished(FALSE, done.region))
  <2>1. PICK next : next = Ahead(last, region.applied)
    OBVIOUS
  <2>2. PICK r, f : r = done.region /\ f = done.field
    OBVIOUS
  <2>3. PICK snap : snap = snapshot
    OBVIOUS
  <2>4. /\ r = [region EXCEPT !.applied = next]
        /\ \/ f = Laid(r, snap.before, snap.after)
           \/ next = <<>> /\ f = snap.before \o region.lead \o next \o snap.after
    <3>1. Types /\ Place /\ writer = "Running" /\ last \in Commands /\ Legal(last, region.applied)
      BY <1>1, <1>9, <1>16
    <3>2. /\ done.region = [region EXCEPT !.applied = Ahead(last, region.applied)]
          /\ \/ done.field = Laid(done.region, snapshot.before, snapshot.after)
             \/ /\ Ahead(last, region.applied) = <<>>
                /\ done.field = snapshot.before \o region.lead \o Ahead(last, region.applied) \o snapshot.after
      BY <1>4, <1>5, <3>1, SettleApplied, Zenon
    <3> QED
      BY <2>1, <2>2, <2>3, <3>2, Zenon
  <2>5. next \in Text
    BY <1>9, <1>16, <2>1, AheadIs
  <2>6. /\ r \in Regions /\ r.applied = next /\ r.start = region.start /\ r.lead = region.lead
        /\ r.trail = region.trail
    BY <1>9, <2>4, <2>5 DEF Regions
  <2>7. snap.before \in Text /\ snap.after \in Text /\ r.start = Len(snap.before)
    BY <1>9, <2>3, <2>6
  <2>8. Stands(r, f, snap)
    <3>1. CASE f = Laid(r, snap.before, snap.after)
      BY <2>6, <2>7, <3>1, LaidStands
    <3>2. CASE next = <<>> /\ f = snap.before \o region.lead \o next \o snap.after
      <4>1. r.applied = <<>> /\ f = snap.before \o r.lead \o r.applied \o snap.after
        BY <2>6, <3>2
      <4> QED
        BY <2>6, <2>7, <4>1, LeadStands
    <3> QED
      BY <2>4, <3>1, <3>2
  <2>9. r.applied = <<>> => SealRegion(r, f) = f
    BY DEF SealRegion
  <2>10. ASSUME r.applied # <<>>
         PROVE  SealRegion(r, f) = snap.before \o r.lead \o r.applied \o r.trail \o snap.after
    <3>1. f = Laid(r, snap.before, snap.after)
      BY <2>4, <2>6, <2>10
    <3> QED
      BY <2>6, <2>7, <2>10, <3>1, RegionSealed
  <2>11. Stands(r, SealRegion(r, f), snap)
    BY <2>8, <2>9, <2>10, SealedStands
  <2>12. Stands(r, field', snap)
    BY <1>16, <2>2, <2>8, <2>11
  <2>13. region' = r /\ snapshot' = snap /\ writer' = "Done"
    BY <1>7, <1>16, <2>2, <2>3
  <2>14. Place'
    BY <2>12, <2>13 DEF Place, RegionInPlace, Stands
  <2>15. failures' \in Nat
    <3>1. failures' = failures \/ failures' = failures + 1
      BY <1>16, Zenon
    <3> QED
      BY <1>9, <3>1
  <2>16. Types'
    BY <1>1, <1>7, <2>3, <2>6, <2>7, <2>13, <2>15 DEF Types
  <2>17. CASE /\ field' = SealRegion(done.region, done.field)
              /\ events' = Append(events, Finished(TRUE, done.region)) /\ UNCHANGED failures
    <3>1. PICK answer : answer = Finished(TRUE, r)
      OBVIOUS
    <3>2. answer.kind = "Finished" /\ answer.ok
      BY <3>1, FinishedIs
    <3>3. ASSUME failures' = 0, final' # <<>> PROVE field' = Joined(final)'
      <4>1. Turns(last, region.applied, final) /\ final # <<>> /\ final' = final
        BY <1>2, <1>7, <2>17, <3>3 DEF Settles
      <4>2. next = final
        BY <2>1, <4>1 DEF Turns
      <4>3. field' = snap.before \o r.lead \o final \o r.trail \o snap.after
        BY <2>2, <2>6, <2>10, <2>17, <4>1, <4>2, Zenon
      <4> QED
        BY <2>13, <3>3, <4>1, <4>3, Zenon DEF Joined
    <3>4. Answer(answer)'
      BY <3>2, <3>3 DEF Answer
    <3>5. SettlingIs'
      BY <1>12, <2>2, <2>13, <2>17, <3>1, <3>4
    <3> QED
      BY <1>13, <2>14, <2>16, <3>5
  <2>18. CASE /\ done.region.applied # <<>> /\ failures' = failures + 1
              /\ field' = done.field /\ events' = Append(events, Finished(FALSE, done.region))
    <3>1. PICK answer : answer = Finished(FALSE, r)
      OBVIOUS
    <3>2. answer.kind = "Finished" /\ ~answer.ok /\ answer.wroteAny
      <4>1. answer.kind = "Finished" /\ answer.ok = FALSE /\ answer.wroteAny = (r.applied # <<>>)
        BY <3>1, FinishedIs
      <4>2. r.applied # <<>>
        BY <2>2, <2>18
      <4> QED
        BY <4>1, <4>2
    <3>3. Answer(answer)'
      BY <3>2 DEF Answer
    <3>4. SettlingIs'
      BY <1>12, <2>2, <2>13, <2>18, <3>1, <3>3
    <3> QED
      BY <1>13, <2>14, <2>16, <3>4
  <2> QED
    BY <1>16, <2>17, <2>18
<1> QED
  BY <1>8, <1>14, <1>15, <1>16

\* The writer ends when the supervisor has let go of it.
LEMMA EndsKeeps ==
  ASSUME StreamInv, WriterEnds
  PROVE  StreamInv'
<1>1. /\ writer = "Running" /\ stage = "Settled" /\ toWriter = <<>> /\ writer' = "Done"
      /\ UNCHANGED <<stage, session, dead, toWriter, events, region, field, final, outcome, snapshot, failures>>
  BY DEF WriterEnds
<1>2. /\ snapshot.before \in Text /\ region \in Regions
      /\ field = Laid(region, snapshot.before, snapshot.after)
  BY <1>1 DEF StreamInv, Types, Place
<1>3. Stands(region, field, snapshot)
  BY <1>2, LaidStands
<1>4. Place'
  BY <1>1, <1>3 DEF Place, RegionInPlace, Stands
<1>5. Types'
  BY <1>1 DEF StreamInv, Types
<1>6. Dropped
  BY <1>1 DEF StreamInv, SettledIs, Delivered
<1>7. Dropped'
  BY <1>1, <1>6 DEF Dropped, AtMostOneEvent
<1> QED
  BY <1>1, <1>4, <1>5, <1>7 DEF StreamInv, IdleIs, SpeakingIs, SettlingIs, SettledIs

-----------------------------------------------------------------------------
(* The theorems.                                                            *)

\* A step that changes no variable keeps the invariant.
LEMMA StutterKeeps ==
  ASSUME StreamInv, UNCHANGED streamVars
  PROVE  StreamInv'
<1>1. UNCHANGED <<stage, session, dead, toWriter, writer, events, region, field, final, outcome, snapshot, failures>>
  BY DEF streamVars
<1>2. Types' /\ Place'
  BY <1>1, PlaceKept DEF StreamInv, Types
<1>3. IdleIs'
  BY <1>1 DEF StreamInv, IdleIs
<1>4. SpeakingIs'
  BY <1>1 DEF StreamInv, SpeakingIs, Quiet, Sent, Answered, Broken
<1>5. SettlingIs'
  BY <1>1 DEF StreamInv, SettlingIs, Behind, Waiting, Ended, Gone, AtMostOneEvent, Settles, Answer, Joined
<1>6. SettledIs'
  BY <1>1 DEF StreamInv, SettledIs, Dropped, Delivered, AtMostOneEvent, Joined
<1> QED
  BY <1>2, <1>3, <1>4, <1>5, <1>6 DEF StreamInv

\* StreamInv is inductive.
LEMMA StreamInvariant == StreamSpec => []StreamInv
<1>1. StreamInit => StreamInv
  BY StreamBegins
<1>2. StreamInv /\ [StreamNext]_streamVars => StreamInv'
  <2> SUFFICES ASSUME StreamInv, [StreamNext]_streamVars PROVE StreamInv'
    OBVIOUS
  <2>1. CASE BeginStream
    BY <2>1, BeginKeeps
  <2>2. CASE DropStreamer
    BY <2>2, DropKeeps
  <2>3. CASE StreamSystem
    BY <2>3, TickKeeps, ElapsesKeeps, WriteDoneKeeps, SettleKeeps DEF StreamSystem
  <2>4. CASE StreamWriter
    BY <2>4, ApplyKeeps, FinishApplied, EndsKeeps DEF StreamWriter
  <2>5. CASE \E text \in Hypotheses : OnPartial(text) \/ Finish(text)
    BY <2>5, PartialKeeps, FinishKeeps
  <2>6. CASE UNCHANGED streamVars
    BY <2>6, StutterKeeps
  <2> QED
    BY <2>1, <2>2, <2>3, <2>4, <2>5, <2>6 DEF StreamNext
<1> QED
  BY <1>1, <1>2, PTL DEF StreamSpec

\* Of the texts the edits are checked on, and so of any two: an edit gives the
\* new text, and replaces whole words.
LEMMA EditsAlwaysRoundTrip == EditsRoundTrip
<1> SUFFICES ASSUME NEW old \in Texts, NEW new \in Texts, NEW edit, edit = MinimalEdit(old, new)
             PROVE  /\ edit.from <= edit.to /\ {edit.from, edit.to} \subseteq Boundaries(old)
                    /\ ApplyEdit(edit, old) = new
                    /\ old # new => edit.from \in Boundaries(new)
  BY Zenon DEF EditsRoundTrip
<1> QED
  BY MinimalEditIs, StreamAssumption

\* The invariant gives the property, state by state.
LEMMA InvGivesTranscript ==
  ASSUME StreamInv
  PROVE  TranscriptInPlace
<1>1. FieldIsTranscript
  <2> SUFFICES ASSUME outcome = "Streamed", failures = 0 PROVE field = Joined(final)
    BY DEF FieldIsTranscript
  <2>1. stage = "Settled"
    BY DEF StreamInv, Types, IdleIs, SpeakingIs, SettlingIs
  <2> QED
    BY <2>1 DEF StreamInv, SettledIs, Dropped, Delivered
<1>2. RegionInPlace
  <2>1. CASE writer = "Done"
    BY <2>1 DEF StreamInv, Place
  <2>2. CASE writer # "Done"
    <3>1. /\ snapshot.before \in Text /\ region \in Regions
          /\ field = Laid(region, snapshot.before, snapshot.after)
      BY <2>2 DEF StreamInv, Types, Place
    <3>2. PICK lead : lead = LeadOf(region)
      OBVIOUS
    <3>3. lead \in {<<>>, region.lead} /\ (region.applied # <<>> => lead = region.lead)
      BY <3>2 DEF LeadOf
    <3>4. field = snapshot.before \o lead \o region.applied \o <<>> \o snapshot.after
      <4>1. PICK all : all = (snapshot.before \o lead) \o region.applied
        OBVIOUS
      <4>2. all \in Text
        <5>1. lead \in Text /\ region.applied \in Text
          BY <3>1, <3>3, JoiningNothing DEF Regions
        <5>2. Join(Join(snapshot.before, lead), region.applied) \in Text
          BY <3>1, <5>1, Joining
        <5> QED
          BY <4>1, <5>2 DEF Join
      <4>3. all \o <<>> = all
        BY <4>2, JoiningNothing DEF Join
      <4> QED
        BY <3>1, <3>2, <4>1, <4>3, Zenon DEF Laid
    <3> QED
      BY <3>3, <3>4 DEF RegionInPlace
  <2> QED
    BY <2>1, <2>2
<1>3. OneWriteAtATime
  <2> SUFFICES ASSUME stage = "Speaking"
               PROVE  /\ Len(toWriter) + Len(events) <= 1
                      /\ ~dead => (session.coalescer.inFlight <=> Len(toWriter) + Len(events) = 1)
    BY DEF OneWriteAtATime
  <2>1. Quiet \/ Sent \/ Answered \/ Broken
    BY DEF StreamInv, SpeakingIs
  <2>2. \A x : Len(<<x>>) = 1
    BY OneQueued
  <2>3. Len(<<>>) = 0
    OBVIOUS
  <2>4. CASE Quiet
    BY <2>3, <2>4 DEF Quiet
  <2>5. CASE Sent
    <3>1. Len(toWriter) = 1 /\ Len(events) = 0 /\ session.coalescer.inFlight
      BY <2>2, <2>3, <2>5 DEF Sent
    <3> QED
      BY <3>1
  <2>6. CASE Answered
    <3>1. Len(toWriter) = 0 /\ Len(events) = 1 /\ session.coalescer.inFlight
      BY <2>2, <2>3, <2>6 DEF Answered
    <3> QED
      BY <3>1
  <2>7. CASE Broken
    BY <2>3, <2>7 DEF Broken
  <2> QED
    BY <2>1, <2>4, <2>5, <2>6, <2>7
<1>4. ParkedIsLatest
  BY DEF StreamInv, SpeakingIs, GoodSession, ParkedIsLatest
<1>5. RetryOnlyUntouched
  <2> SUFFICES ASSUME outcome = "Buffered" PROVE field = snapshot.before \o snapshot.after
    BY DEF RetryOnlyUntouched
  <2>1. stage = "Settled"
    BY DEF StreamInv, Types, IdleIs, SpeakingIs, SettlingIs
  <2> QED
    BY <2>1 DEF StreamInv, SettledIs, Dropped, Delivered
<1> QED
  BY <1>1, <1>2, <1>3, <1>4, <1>5, EditsAlwaysRoundTrip DEF TranscriptInPlace

\* Whatever is dictated, however the hypotheses come and whenever the writer
\* gets to run (session.rs, horizon.rs, coalescer.rs, the writer thread and the
\* region it writes through), with writes that fail and words taken back: what
\* the field held is still there, around one stretch that is the text the writer
\* has applied; a settle reported as streamed, none of whose writes was refused,
\* leaves the final text there, and one that is delivered a second time left
\* nothing; one write at a time is under way, what is parked is the newest
\* committed text, and edits replace whole words.
THEOREM TranscriptAlwaysInPlace == StreamSpec => []TranscriptInPlace
<1>1. StreamInv => TranscriptInPlace
  BY InvGivesTranscript
<1> QED
  BY <1>1, StreamInvariant, PTL

\* What a step does to the text in the field, the horizon and the queue while
\* the user speaks.
LEMMA StepExtends ==
  ASSUME StreamInv, StreamNext, stage = "Speaking"
  PROVE  /\ stage' = "Speaking" => StartsWith(region'.applied, region.applied)
         /\ stage' = "Speaking" /\ session'.horizon.committed # session.horizon.committed =>
              AgreedOn(session'.horizon.committed, session'.horizon.recent)
         /\ session.mode = "Buffered" /\ Len(toWriter') > Len(toWriter) =>
              stage' = "Settling" /\ Len(toWriter') = 1
<1>1. region.applied \in Text
  BY DEF StreamInv, Types, Regions
<1>2. StartsWith(region.applied, region.applied)
  BY <1>1, StartsWithItself
<1>3. GoodSession(session) /\ (Quiet \/ Sent \/ Answered \/ Broken)
  BY DEF StreamInv, SpeakingIs
<1>4. toWriter = <<>> \/ Len(toWriter) = 1
  BY <1>3, OneQueued DEF Quiet, Sent, Answered, Broken
<1>5. Len(toWriter) \in Nat /\ Len(<<>>) = 0
  BY <1>4
<1>6. session.mode = "Buffered" => toWriter = <<>> /\ session.coalescer.pending = NoText
  BY <1>3 DEF GoodSession, Quiet, Sent, Answered, Broken
<1>7. ASSUME toWriter' = toWriter PROVE ~(Len(toWriter') > Len(toWriter))
  BY <1>5, <1>7
<1>8. ASSUME toWriter' = Tail(toWriter), toWriter # <<>> PROVE ~(Len(toWriter') > Len(toWriter))
  <2>1. \A x : Tail(<<x>>) = <<>>
    BY OneQueued
  <2>2. Len(toWriter) = 1 /\ toWriter' = <<>>
    BY <1>3, <1>8, <2>1, OneQueued DEF Quiet, Sent, Answered, Broken
  <2> QED
    BY <1>5, <2>2
<1>9. CASE BeginStream
  BY <1>9 DEF BeginStream
<1>10. CASE DropStreamer
  BY <1>7, <1>10 DEF DropStreamer
<1>11. CASE OnTick
  <2>1. region' = region /\ Due(session.coalescer)
    BY <1>11 DEF OnTick
  <2>2. session'.horizon = session.horizon
    BY <1>11, TickKeeps
  <2>3. session.mode # "Buffered"
    BY <1>6, <2>1 DEF Due
  <2> QED
    BY <1>2, <2>1, <2>2, <2>3
<1>12. CASE Elapses
  <2>1. region' = region /\ toWriter' = toWriter
    BY <1>12 DEF Elapses
  <2>2. session'.horizon = session.horizon
    BY <1>12, ElapsesKeeps
  <2> QED
    BY <1>2, <1>7, <2>1, <2>2
<1>13. CASE OnWriteDone
  <2>1. region' = region /\ toWriter' = toWriter
    BY <1>13 DEF OnWriteDone
  <2>2. session'.horizon = session.horizon
    BY <1>13, WriteDoneKeeps
  <2> QED
    BY <1>2, <1>7, <2>1, <2>2
<1>14. CASE SettleStreamed
  BY <1>14 DEF SettleStreamed
<1>15. CASE WriterApply
  <2>1. session' = session /\ toWriter' = Tail(toWriter) /\ toWriter # <<>>
    BY <1>15 DEF WriterApply, WriterReceives
  <2>2. StartsWith(region'.applied, region.applied)
    BY <1>15, ApplyKeeps
  <2> QED
    BY <1>8, <2>1, <2>2
<1>16. CASE WriterFinish
  BY <1>16, FinishHead
<1>17. CASE WriterEnds
  BY <1>17 DEF WriterEnds
<1>18. ASSUME NEW text \in Hypotheses, OnPartial(text)
       PROVE  /\ stage' = "Speaking" => StartsWith(region'.applied, region.applied)
              /\ stage' = "Speaking" /\ session'.horizon.committed # session.horizon.committed =>
                   AgreedOn(session'.horizon.committed, session'.horizon.recent)
              /\ session.mode = "Buffered" /\ Len(toWriter') > Len(toWriter) =>
                   stage' = "Settling" /\ Len(toWriter') = 1
  <2>1. region' = region
    BY <1>18 DEF OnPartial
  <2>2. session'.horizon.committed # session.horizon.committed =>
          AgreedOn(session'.horizon.committed, session'.horizon.recent)
    BY <1>18, PartialKeeps
  <2>3. ASSUME session.mode = "Buffered" PROVE toWriter' = toWriter
    <3>1. PICK step : step = SessionPartial(session, text)
      OBVIOUS
    <3>2. step.write = {}
      BY <2>3, <3>1 DEF SessionPartial
    <3>3. Dispatch(step.write)
      BY <1>18, <3>1 DEF OnPartial
    <3> QED
      BY <3>2, <3>3 DEF Dispatch
  <2> QED
    BY <1>2, <1>7, <2>1, <2>2, <2>3
<1>19. ASSUME NEW text \in Hypotheses, Finish(text)
       PROVE  stage' = "Settling" /\ (session.mode = "Buffered" => Len(toWriter') = 1)
  <2>1. stage' = "Settling" /\ \E command : toWriter' = Append(toWriter, command)
    BY <1>19 DEF Finish
  <2>2. \A x : Append(<<>>, x) = <<x>> /\ Len(<<x>>) = 1
    BY OneQueued
  <2> QED
    BY <1>6, <2>1, <2>2
<1>20. CASE \E text \in Hypotheses : OnPartial(text) \/ Finish(text)
  BY <1>18, <1>19, <1>20
<1> QED
  BY <1>9, <1>10, <1>11, <1>12, <1>13, <1>14, <1>15, <1>16, <1>17, <1>20
  DEF StreamNext, StreamSystem, StreamWriter

\* While the user speaks no step takes a grapheme of the field back, however the
\* hypotheses are revised (horizon.rs); what is committed was agreed on by a full
\* window and ends at a word; and an utterance that is not streamed sends one
\* command, its last (session.rs).
THEOREM StreamAlwaysExtends == StreamSpec => OnlyExtends
<1>1. StreamInv /\ [StreamNext]_streamVars =>
        [stage = "Speaking" /\ stage' = "Speaking" => StartsWith(region'.applied, region.applied)]_streamVars
  BY StepExtends
<1>2. StreamInv /\ [StreamNext]_streamVars =>
        [stage = "Speaking" /\ stage' = "Speaking" /\ session'.horizon.committed # session.horizon.committed =>
           LET committed == session'.horizon.committed
               recent == session'.horizon.recent
               rest == Drop(recent[Stability], Len(committed))
           IN /\ Len(recent) = Stability
              /\ \A i \in 1..Stability : StartsWith(recent[i], committed)
              /\ Lookback > 0 => \E i \in 1..Len(rest) : rest[i] # Space
              /\ rest # <<>> /\ rest[1] # Space => committed[Len(committed)] = Space]_streamVars
  BY StepExtends DEF AgreedOn
<1>3. StreamInv /\ [StreamNext]_streamVars =>
        [session.mode = "Buffered" /\ stage = "Speaking" /\ stage' # "Idle" /\ Len(toWriter') > Len(toWriter) =>
           stage' = "Settling" /\ Len(toWriter') = 1]_streamVars
  BY StepExtends
<1>4. StreamSpec => NeverRetracted
  BY <1>1, StreamInvariant, PTL DEF StreamSpec, NeverRetracted
<1>5. StreamSpec => CommitsAreAgreed
  BY <1>2, StreamInvariant, PTL DEF StreamSpec, CommitsAreAgreed
<1>6. StreamSpec => InsertOnlyOnce
  BY <1>3, StreamInvariant, PTL DEF StreamSpec, InsertOnlyOnce
<1> QED
  BY <1>4, <1>5, <1>6, PTL DEF OnlyExtends
=============================================================================
