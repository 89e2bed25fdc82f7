--------------------------- MODULE SequenceLemmas ---------------------------
(***************************************************************************)
(* Facts about sequences and least elements that the proofs of several     *)
(* modules rest on.                                                        *)
(***************************************************************************)
EXTENDS Naturals, SequencesExt, SequenceTheorems, WellFoundedInduction, TLAPS

\* The least element of a non-empty set of natural numbers.
LEMMA MinOfNats ==
    ASSUME NEW I, I \subseteq Nat, I # {}
    PROVE  Min(I) \in I /\ \A j \in I : Min(I) <= j
<1>1. PICK i \in I : \A j \in I : <<j, i>> \notin OpToRel(<, Nat)
  BY NatLessThanWellFounded, WFMin
<1>2. \A j \in I : ~ (j < i)
  BY <1>1, Zenon DEF OpToRel
<1>3. \A j \in I : i <= j
  BY <1>2
<1>4. QED
  BY <1>3 DEF Min

\* Elements of a sequence, of its tail and of a longer one.
LEMMA ToSetOf ==
    ASSUME NEW S, NEW q \in Seq(S)
    PROVE  ToSet(q) = {q[i] : i \in 1 .. Len(q)} /\ ToSet(q) \subseteq S
<1>1. DOMAIN q = 1 .. Len(q)
  BY LenProperties
<1>2. \A i \in 1 .. Len(q) : q[i] \in S
  BY ElementOfSeq
<1>3. QED
  BY <1>1, <1>2 DEF ToSet

\* The elements after an append.
LEMMA ToSetAppend ==
    ASSUME NEW S, NEW q \in Seq(S), NEW e \in S
    PROVE  Append(q, e) \in Seq(S) /\ ToSet(Append(q, e)) = ToSet(q) \cup {e}
<1>1. Append(q, e) \in Seq(S) /\ Len(q) \in Nat
  BY AppendProperties, LenProperties
<1>2. ToSet(Append(q, e)) = {Append(q, e)[i] : i \in 1 .. Len(q) + 1}
  BY <1>1, ToSetOf, AppendProperties
<1>3. 1 .. Len(q) + 1 = 1 .. Len(q) \cup {Len(q) + 1}
  BY <1>1
<1>4. \A i \in 1 .. Len(q) : Append(q, e)[i] = q[i]
  BY AppendProperties
<1>5. Append(q, e)[Len(q) + 1] = e
  BY AppendProperties
<1>6. ToSet(q) = {q[i] : i \in 1 .. Len(q)}
  BY ToSetOf
<1>7. QED
  BY <1>1, <1>2, <1>3, <1>4, <1>5, <1>6

\* The tail has no other elements, and with the head it has them all.
LEMMA ToSetTail ==
    ASSUME NEW S, NEW q \in Seq(S), q # <<>>
    PROVE  /\ Head(q) \in S /\ Tail(q) \in Seq(S)
           /\ ToSet(q) = {Head(q)} \cup ToSet(Tail(q))
<1>1. Tail(q) \in Seq(S) /\ Len(Tail(q)) = Len(q) - 1 /\ Head(q) \in S
  BY HeadTailProperties
<1>2. Len(q) \in Nat \ {0}
  BY EmptySeq
<1>3. ToSet(q) = {q[i] : i \in 1 .. Len(q)} /\ ToSet(Tail(q)) = {Tail(q)[i] : i \in 1 .. Len(q) - 1}
  BY <1>1, ToSetOf
<1>4. \A i \in 1 .. Len(q) - 1 : Tail(q)[i] = q[i + 1]
  BY <1>1, HeadTailProperties
<1>5. Head(q) = q[1]
  BY <1>2
<1>6. \A i \in 1 .. Len(q) : i = 1 \/ (i - 1 \in 1 .. Len(q) - 1 /\ i = (i - 1) + 1)
  BY <1>2
<1>7. \A i \in 1 .. Len(q) - 1 : i + 1 \in 1 .. Len(q)
  BY <1>2
<1>8. ToSet(q) \subseteq {Head(q)} \cup ToSet(Tail(q))
  <2>1. SUFFICES ASSUME NEW e \in ToSet(q)
                 PROVE  e \in {Head(q)} \cup ToSet(Tail(q))
    OBVIOUS
  <2>2. PICK i \in 1 .. Len(q) : e = q[i]
    BY <1>3
  <2>3. CASE i = 1
    BY <1>5, <2>2, <2>3
  <2>4. CASE i - 1 \in 1 .. Len(q) - 1 /\ i = (i - 1) + 1
    BY <1>3, <1>4, <2>2, <2>4
  <2>5. QED
    BY <1>6, <2>3, <2>4
<1>9. {Head(q)} \cup ToSet(Tail(q)) \subseteq ToSet(q)
  BY <1>2, <1>3, <1>4, <1>5, <1>7
<1>10. QED
  BY <1>1, <1>8, <1>9

\* The least of some positions of a sequence is one of them.
LEMMA FirstPosition ==
    ASSUME NEW n \in Nat, NEW I \in SUBSET (1 .. n), I # {}
    PROVE  Min(I) \in I /\ Min(I) \in 1 .. n /\ \A j \in I : Min(I) <= j
<1>1. I \subseteq Nat
  OBVIOUS
<1>2. QED
  BY <1>1, MinOfNats

\* A sequence stays one without an element, and gets no new elements.
LEMMA RemoveAtType ==
    ASSUME NEW S, NEW q \in Seq(S), NEW k \in 1 .. Len(q)
    PROVE  RemoveAt(q, k) \in Seq(S)
<1>1. Len(q) \in Nat /\ \A i \in 1 .. Len(q) : q[i] \in S
  BY LenProperties, ElementOfSeq
<1>2. /\ k - 1 \in Int /\ \A i \in 1 .. k - 1 : q[i] \in S
      /\ k + 1 \in Int /\ \A i \in k + 1 .. Len(q) : q[i] \in S
  BY <1>1
<1>3. SubSeq(q, 1, k - 1) \in Seq(S) /\ SubSeq(q, k + 1, Len(q)) \in Seq(S)
  BY <1>1, <1>2, SubSeqProperties
<1>4. QED
  BY <1>3, ConcatProperties DEF RemoveAt

\* Removing an element adds none.
LEMMA RemoveAtElements ==
    ASSUME NEW S, NEW q \in Seq(S), NEW k \in 1 .. Len(q)
    PROVE  ToSet(RemoveAt(q, k)) \subseteq ToSet(q)
<1>1. q = [i \in 1 .. Len(q) |-> q[i]] /\ Len(q) \in Nat
  BY LenProperties
<1>2. \A i \in 1 .. Len(q) : q[i] \in ToSet(q)
  BY ToSetOf
<1>3. q \in Seq(ToSet(q))
  BY <1>1, <1>2
<1>4. RemoveAt(q, k) \in Seq(ToSet(q))
  BY <1>3, RemoveAtType
<1>5. QED
  BY <1>4, ToSetOf

\* Moving the head of a sequence to the end of the one before it.
LEMMA MoveHead ==
    ASSUME NEW S, NEW p \in Seq(S), NEW q \in Seq(S), q # <<>>
    PROVE  Append(p, Head(q)) \o Tail(q) = p \o q
<1>1. Head(q) \in S /\ Tail(q) \in Seq(S) /\ <<Head(q)>> \in Seq(S)
  BY HeadTailProperties
<1>2. Append(p, Head(q)) \o Tail(q) = (p \o <<Head(q)>>) \o Tail(q)
  BY <1>1, AppendIsConcat
<1>3. (p \o <<Head(q)>>) \o Tail(q) = p \o (<<Head(q)>> \o Tail(q))
  BY <1>1, ConcatAssociative
<1>4. <<Head(q)>> \o Tail(q) = q
  <2>1. <<Head(q)>> \o Tail(q) \in Seq(S) /\ Len(<<Head(q)>>) = 1 /\ <<Head(q)>>[1] = Head(q)
    BY <1>1, ConcatProperties
  <2>2. Len(Tail(q)) = Len(q) - 1 /\ Len(q) \in Nat \ {0} /\ \A i \in 1 .. Len(q) - 1 : Tail(q)[i] = q[i + 1]
    BY <1>1, HeadTailProperties, EmptySeq
  <2>3. Len(<<Head(q)>> \o Tail(q)) = Len(q)
    BY <1>1, <2>1, <2>2, ConcatProperties
  <2>4. \A i \in 1 .. Len(q) : (<<Head(q)>> \o Tail(q))[i] = IF i <= 1 THEN Head(q) ELSE Tail(q)[i - 1]
    BY <1>1, <2>1, <2>2, ConcatProperties
  <2>5. Head(q) = q[1]
    BY <2>2
  <2>6. \A i \in 1 .. Len(q) : (<<Head(q)>> \o Tail(q))[i] = q[i]
    BY <2>2, <2>4, <2>5
  <2>7. QED
    BY <2>1, <2>3, <2>6, SeqEqual
<1>5. QED
  BY <1>2, <1>3, <1>4

\* Appending to the second of two sequences is appending to both.
LEMMA AppendConcat ==
    ASSUME NEW S, NEW p \in Seq(S), NEW q \in Seq(S), NEW e \in S
    PROVE  p \o Append(q, e) = Append(p \o q, e)
<1>1. <<e>> \in Seq(S) /\ p \o q \in Seq(S)
  BY ConcatProperties
<1>2. Append(p \o q, e) = (p \o q) \o <<e>> /\ Append(q, e) = q \o <<e>>
  BY <1>1, AppendIsConcat
<1>3. QED
  BY <1>1, <1>2, ConcatAssociative

\* Head and tail of two sequences are those of the first.
LEMMA ConcatHeadTail ==
    ASSUME NEW S, NEW p \in Seq(S), NEW q \in Seq(S), p # <<>>
    PROVE  /\ p \o q # <<>>
           /\ Head(p \o q) = Head(p)
           /\ Tail(p \o q) = Tail(p) \o q
<1>1. /\ Len(p) \in Nat \ {0} /\ Len(q) \in Nat
      /\ p \o q \in Seq(S) /\ Len(p \o q) = Len(p) + Len(q)
      /\ \A i \in 1 .. Len(p) + Len(q) :
            (p \o q)[i] = IF i <= Len(p) THEN p[i] ELSE q[i - Len(p)]
  BY EmptySeq, LenProperties, ConcatProperties
<1>2. p \o q # <<>>
  BY <1>1, EmptySeq
<1>3. Head(p \o q) = Head(p)
  BY <1>1
<1>4. /\ Tail(p) \in Seq(S) /\ Len(Tail(p)) = Len(p) - 1
      /\ \A i \in 1 .. Len(p) - 1 : Tail(p)[i] = p[i + 1]
  BY HeadTailProperties
<1> DEFINE t == Tail(p \o q)
           u == Tail(p) \o q
<1>5. t \in Seq(S) /\ Len(t) = Len(p) + Len(q) - 1 /\ \A i \in 1 .. Len(t) : t[i] = (p \o q)[i + 1]
  BY <1>1, <1>2, HeadTailProperties
<1>6. /\ u \in Seq(S) /\ Len(u) = Len(p) - 1 + Len(q)
      /\ \A i \in 1 .. Len(u) :
            u[i] = IF i <= Len(p) - 1 THEN Tail(p)[i] ELSE q[i - (Len(p) - 1)]
  BY <1>4, ConcatProperties
<1> HIDE DEF t, u
<1>7. ASSUME NEW i \in 1 .. Len(t)
      PROVE  t[i] = u[i]
  <2>1. /\ i + 1 \in 1 .. Len(p) + Len(q) /\ i \in 1 .. Len(u)
        /\ (i <= Len(p) - 1 <=> i + 1 <= Len(p))
        /\ (i <= Len(p) - 1 => i \in 1 .. Len(p) - 1)
        /\ (i + 1) - Len(p) = i - (Len(p) - 1)
    BY <1>1, <1>5, <1>6
  <2>2. QED
    BY <1>1, <1>4, <1>5, <1>6, <2>1
<1>8. t = u
  <2>1. Len(t) = Len(u)
    BY <1>1, <1>5, <1>6
  <2>2. QED
    BY <1>5, <1>6, <1>7, <2>1, SeqEqual
<1>9. QED
  BY <1>2, <1>3, <1>8 DEF t, u

-----------------------------------------------------------------------------
(* Induction.                                                              *)

\* A set with 0 and the successors of its numbers has all natural numbers.
LEMMA NatInduct ==
    ASSUME NEW I, 0 \in I, \A n \in Nat : n \in I => n + 1 \in I
    PROVE  Nat \subseteq I
<1> DEFINE J == Nat \ I
<1>1. SUFFICES ASSUME J # {}
               PROVE  FALSE
  OBVIOUS
<1>2. J \subseteq Nat
  OBVIOUS
<1> DEFINE m == Min(J)
<1> HIDE DEF J
<1>3. m \in J /\ \A j \in J : m <= j
  BY <1>1, <1>2, MinOfNats
<1> HIDE DEF m
<1> USE DEF J
<1>4. m \in Nat \ {0} /\ m - 1 \notin J
  BY <1>3
<1>5. m - 1 \in Nat /\ (m - 1) + 1 = m
  BY <1>4
<1>6. QED
  BY <1>3, <1>4, <1>5

\* By steps of one up to N.
LEMMA UpTo ==
    ASSUME NEW N \in Nat, NEW I, 0 \in I, \A n \in 1 .. N : n - 1 \in I => n \in I
    PROVE  N \in I
<1> DEFINE J == {n \in Nat : n <= N => n \in I}
<1>1. 0 \in J
  OBVIOUS
<1>2. ASSUME NEW n \in Nat, n \in J
      PROVE  n + 1 \in J
  <2>1. n + 1 <= N => n + 1 \in 1 .. N /\ (n + 1) - 1 = n /\ n <= N
    OBVIOUS
  <2>2. QED
    BY <1>2, <2>1
<1> HIDE DEF J
<1>3. Nat \subseteq J
  BY <1>1, <1>2, NatInduct
<1>4. QED
  BY <1>3 DEF J

-----------------------------------------------------------------------------
(* Ends of sequences.                                                      *)

\* The last elements of p are q.
EndsWith(p, q) ==
    /\ Len(q) <= Len(p)
    /\ \A i \in 1 .. Len(q) : q[i] = p[Len(p) - Len(q) + i]

\* Both grow by the same elements.
LEMMA EndsConcat ==
    ASSUME NEW S, NEW p \in Seq(S), NEW q \in Seq(S), NEW r \in Seq(S), EndsWith(p, q)
    PROVE  EndsWith(p \o r, q \o r)
<1>1. Len(p) \in Nat /\ Len(q) \in Nat /\ Len(r) \in Nat /\ Len(q) <= Len(p)
  BY LenProperties DEF EndsWith
<1>2. Len(p \o r) = Len(p) + Len(r) /\ Len(q \o r) = Len(q) + Len(r)
  BY ConcatProperties
<1>3. ASSUME NEW i \in 1 .. Len(q) + Len(r)
      PROVE  (q \o r)[i] = (p \o r)[Len(p) - Len(q) + i]
  <2>1. (q \o r)[i] = IF i <= Len(q) THEN q[i] ELSE r[i - Len(q)]
    BY ConcatProperties
  <2>2. Len(p) - Len(q) + i \in 1 .. Len(p) + Len(r)
    BY <1>1
  <2>3. (p \o r)[Len(p) - Len(q) + i] =
            IF Len(p) - Len(q) + i <= Len(p) THEN p[Len(p) - Len(q) + i]
            ELSE r[Len(p) - Len(q) + i - Len(p)]
    BY <2>2, ConcatProperties
  <2>4. Len(p) - Len(q) + i - Len(p) = i - Len(q) /\ (i <= Len(q) <=> Len(p) - Len(q) + i <= Len(p))
    BY <1>1
  <2>5. i <= Len(q) => q[i] = p[Len(p) - Len(q) + i]
    BY <1>1 DEF EndsWith
  <2>6. QED
    BY <2>1, <2>3, <2>4, <2>5
<1>4. ASSUME NEW i \in 1 .. Len(q) + Len(r)
      PROVE  (q \o r)[i] = (p \o r)[(Len(p) + Len(r)) - (Len(q) + Len(r)) + i]
  <2>1. (Len(p) + Len(r)) - (Len(q) + Len(r)) + i = Len(p) - Len(q) + i
    BY <1>1
  <2>2. QED
    BY <1>3, <2>1
<1>5. QED
  BY <1>1, <1>2, <1>4 DEF EndsWith

\* What is left of an end is an end.
LEMMA EndsShorter ==
    ASSUME NEW S, NEW p \in Seq(S), NEW q \in Seq(S), NEW n \in Nat, EndsWith(p, q)
    PROVE  EndsWith(p, SubSeq(q, n + 1, Len(q)))
<1> DEFINE r == SubSeq(q, n + 1, Len(q))
<1>1. Len(p) \in Nat /\ Len(q) \in Nat /\ Len(q) <= Len(p)
  BY LenProperties DEF EndsWith
<1>2. \A i \in n + 1 .. Len(q) : q[i] \in S
  BY <1>1, ElementOfSeq
<1>3. /\ Len(r) = IF n + 1 <= Len(q) THEN Len(q) - (n + 1) + 1 ELSE 0
      /\ \A i \in 1 .. Len(q) - (n + 1) + 1 : r[i] = q[(n + 1) + i - 1]
  BY <1>1, <1>2, SubSeqProperties
<1> HIDE DEF r
<1>4. ASSUME NEW i \in 1 .. Len(r)
      PROVE  r[i] = p[Len(p) - Len(r) + i]
  <2>1. Len(r) = Len(q) - n /\ i \in 1 .. Len(q) - (n + 1) + 1
    BY <1>1, <1>3
  <2>2. r[i] = q[(n + 1) + i - 1]
    BY <1>3, <2>1
  <2>3. (n + 1) + i - 1 = n + i /\ n + i \in 1 .. Len(q)
    BY <1>1, <2>1
  <2>4. q[n + i] = p[Len(p) - Len(q) + (n + i)]
    BY <2>3 DEF EndsWith
  <2>5. Len(p) - Len(q) + (n + i) = Len(p) - Len(r) + i
    BY <1>1, <2>1
  <2>6. QED
    BY <2>2, <2>3, <2>4, <2>5
<1>5. Len(r) <= Len(p)
  BY <1>1, <1>3
<1>6. QED
  BY <1>4, <1>5 DEF EndsWith, r

\* The tail of an end is an end, and its head is there.
LEMMA EndsTail ==
    ASSUME NEW S, NEW p \in Seq(S), NEW q \in Seq(S), q # <<>>, EndsWith(p, q)
    PROVE  /\ EndsWith(p, Tail(q))
           /\ Len(p) - Len(q) + 1 \in 1 .. Len(p)
           /\ Head(q) = p[Len(p) - Len(q) + 1]
<1>1. Len(p) \in Nat /\ Len(q) \in Nat \ {0} /\ Len(q) <= Len(p) /\ Head(q) = q[1]
  BY LenProperties, EmptySeq DEF EndsWith
<1>2. Tail(q) = SubSeq(q, 1 + 1, Len(q))
  BY TailIsSubSeq
<1>3. EndsWith(p, Tail(q))
  BY <1>2, EndsShorter
<1>4. q[1] = p[Len(p) - Len(q) + 1]
  BY <1>1 DEF EndsWith
<1>5. QED
  BY <1>1, <1>3, <1>4

\* Dropping from the first of two sequences is dropping from both.
LEMMA DropConcat ==
    ASSUME NEW S, NEW p \in Seq(S), NEW q \in Seq(S), NEW n \in 0 .. Len(p)
    PROVE  SubSeq(p, n + 1, Len(p)) \o q = SubSeq(p \o q, n + 1, Len(p \o q))
<1> DEFINE a == SubSeq(p, n + 1, Len(p))
           b == SubSeq(p \o q, n + 1, Len(p \o q))
<1>1. /\ Len(p) \in Nat /\ Len(q) \in Nat /\ n \in Nat /\ n <= Len(p)
      /\ p \o q \in Seq(S) /\ Len(p \o q) = Len(p) + Len(q)
      /\ \A i \in 1 .. Len(p) + Len(q) :
            (p \o q)[i] = IF i <= Len(p) THEN p[i] ELSE q[i - Len(p)]
  BY LenProperties, ConcatProperties
<1>2. /\ \A i \in n + 1 .. Len(p) : p[i] \in S
      /\ \A i \in n + 1 .. Len(p \o q) : (p \o q)[i] \in S
  BY <1>1, ElementOfSeq
<1>3. /\ a \in Seq(S)
      /\ Len(a) = Len(p) - n
      /\ \A i \in 1 .. Len(p) - (n + 1) + 1 : a[i] = p[(n + 1) + i - 1]
  BY <1>1, <1>2, SubSeqProperties
<1>4. /\ b \in Seq(S)
      /\ Len(b) = Len(p) + Len(q) - n
      /\ \A i \in 1 .. Len(p \o q) - (n + 1) + 1 : b[i] = (p \o q)[(n + 1) + i - 1]
  BY <1>1, <1>2, SubSeqProperties
<1> HIDE DEF a, b
<1>5. /\ a \o q \in Seq(S) /\ Len(a \o q) = Len(a) + Len(q)
      /\ \A i \in 1 .. Len(a) + Len(q) :
            (a \o q)[i] = IF i <= Len(a) THEN a[i] ELSE q[i - Len(a)]
  BY <1>3, ConcatProperties
<1>6. ASSUME NEW i \in 1 .. Len(a \o q)
      PROVE  (a \o q)[i] = b[i]
  <2>1. /\ i \in 1 .. Len(a) + Len(q)
        /\ i \in 1 .. Len(p \o q) - (n + 1) + 1
        /\ (n + 1) + i - 1 \in 1 .. Len(p) + Len(q)
        /\ (i <= Len(a) <=> (n + 1) + i - 1 <= Len(p))
        /\ i - Len(a) = ((n + 1) + i - 1) - Len(p)
    BY <1>1, <1>3, <1>5
  <2>2. b[i] = IF i <= Len(a) THEN p[(n + 1) + i - 1] ELSE q[i - Len(a)]
    BY <1>1, <1>4, <2>1
  <2>3. i <= Len(a) => a[i] = p[(n + 1) + i - 1]
    BY <1>1, <1>3
  <2>4. QED
    BY <1>5, <2>1, <2>2, <2>3
<1>7. Len(a \o q) = Len(b)
  BY <1>1, <1>3, <1>4, <1>5
<1>8. a \o q = b
  BY <1>4, <1>5, <1>6, <1>7, SeqEqual
<1>9. QED
  BY <1>8 DEF a, b

\* A sequence ends with itself and with nothing.
LEMMA EndsTrivially ==
    ASSUME NEW S, NEW p \in Seq(S)
    PROVE  EndsWith(p, p) /\ EndsWith(p, <<>>)
<1>1. Len(p) \in Nat /\ Len(<<>>) = 0
  BY LenProperties, EmptySeq
<1>2. \A i \in 1 .. Len(p) : Len(p) - Len(p) + i = i
  BY <1>1
<1>3. QED
  BY <1>1, <1>2 DEF EndsWith

-----------------------------------------------------------------------------
(* Sequences without repetition.                                           *)

Distinct(q) == \A i, j \in 1 .. Len(q) : q[i] = q[j] => i = j

\* A new element at the end.
LEMMA DistinctAppend ==
    ASSUME NEW S, NEW q \in Seq(S), NEW e \in S, Distinct(q), e \notin ToSet(q)
    PROVE  Distinct(Append(q, e))
<1>1. Len(q) \in Nat /\ Len(Append(q, e)) = Len(q) + 1
  BY LenProperties, AppendProperties
<1>2. /\ \A i \in 1 .. Len(q) : Append(q, e)[i] = q[i]
      /\ Append(q, e)[Len(q) + 1] = e
  BY AppendProperties
<1>3. \A i \in 1 .. Len(q) : q[i] # e
  BY ToSetOf
<1>4. ASSUME NEW i \in 1 .. Len(q) + 1, NEW j \in 1 .. Len(q) + 1,
             Append(q, e)[i] = Append(q, e)[j]
      PROVE  i = j
  <2>1. i \in 1 .. Len(q) \/ i = Len(q) + 1
    BY <1>1
  <2>2. j \in 1 .. Len(q) \/ j = Len(q) + 1
    BY <1>1
  <2>3. QED
    BY <1>2, <1>3, <1>4, <2>1, <2>2 DEF Distinct
<1>5. QED
  BY <1>1, <1>4 DEF Distinct

\* The head occurs only once.
LEMMA DistinctTail ==
    ASSUME NEW S, NEW q \in Seq(S), q # <<>>, Distinct(q)
    PROVE  Distinct(Tail(q)) /\ Head(q) \notin ToSet(Tail(q))
<1>1. /\ Len(q) \in Nat \ {0} /\ Head(q) = q[1]
      /\ Tail(q) \in Seq(S) /\ Len(Tail(q)) = Len(q) - 1
      /\ \A i \in 1 .. Len(q) - 1 : Tail(q)[i] = q[i + 1]
  BY EmptySeq, HeadTailProperties
<1>2. ASSUME NEW i \in 1 .. Len(q) - 1, NEW j \in 1 .. Len(q) - 1, Tail(q)[i] = Tail(q)[j]
      PROVE  i = j
  <2>1. i + 1 \in 1 .. Len(q) /\ j + 1 \in 1 .. Len(q) /\ q[i + 1] = q[j + 1]
    BY <1>1, <1>2
  <2>2. i + 1 = j + 1
    BY <2>1 DEF Distinct
  <2>3. QED
    BY <2>2
<1>3. ASSUME NEW i \in 1 .. Len(q) - 1, Tail(q)[i] = Head(q)
      PROVE  FALSE
  <2>1. i + 1 \in 1 .. Len(q) /\ 1 \in 1 .. Len(q) /\ q[i + 1] = q[1]
    BY <1>1, <1>3
  <2>2. i + 1 = 1
    BY <2>1 DEF Distinct
  <2>3. QED
    BY <2>2
<1>4. ToSet(Tail(q)) = {Tail(q)[i] : i \in 1 .. Len(q) - 1}
  BY <1>1, ToSetOf
<1>5. QED
  BY <1>1, <1>2, <1>3, <1>4 DEF Distinct

\* The elements that remain, in their places.
LEMMA RemoveAtProperties ==
    ASSUME NEW S, NEW q \in Seq(S), NEW k \in 1 .. Len(q)
    PROVE  /\ RemoveAt(q, k) \in Seq(S)
           /\ Len(RemoveAt(q, k)) = Len(q) - 1
           /\ \A i \in 1 .. Len(q) - 1 : RemoveAt(q, k)[i] = IF i < k THEN q[i] ELSE q[i + 1]
<1> DEFINE a == SubSeq(q, 1, k - 1)
           b == SubSeq(q, k + 1, Len(q))
<1>1. Len(q) \in Nat /\ \A i \in 1 .. Len(q) : q[i] \in S
  BY LenProperties, ElementOfSeq
<1>2. /\ 1 \in Int /\ k - 1 \in Int /\ \A i \in 1 .. k - 1 : q[i] \in S
      /\ k + 1 \in Int /\ Len(q) \in Int /\ \A i \in k + 1 .. Len(q) : q[i] \in S
  BY <1>1
<1>3. /\ a \in Seq(S) /\ Len(a) = IF 1 <= k - 1 THEN (k - 1) - 1 + 1 ELSE 0
      /\ \A i \in 1 .. (k - 1) - 1 + 1 : a[i] = q[1 + i - 1]
  BY <1>2, SubSeqProperties
<1>4. /\ b \in Seq(S) /\ Len(b) = IF k + 1 <= Len(q) THEN Len(q) - (k + 1) + 1 ELSE 0
      /\ \A i \in 1 .. Len(q) - (k + 1) + 1 : b[i] = q[k + 1 + i - 1]
  BY <1>2, SubSeqProperties
<1>5. RemoveAt(q, k) = a \o b
  BY DEF RemoveAt
<1> HIDE DEF a, b
<1>6. Len(a) = k - 1 /\ Len(b) = Len(q) - k
  BY <1>1, <1>3, <1>4
<1>7. /\ a \o b \in Seq(S) /\ Len(a \o b) = Len(a) + Len(b)
      /\ \A i \in 1 .. Len(a) + Len(b) : (a \o b)[i] = IF i <= Len(a) THEN a[i] ELSE b[i - Len(a)]
  BY <1>3, <1>4, ConcatProperties
<1>8. ASSUME NEW i \in 1 .. Len(q) - 1
      PROVE  (a \o b)[i] = IF i < k THEN q[i] ELSE q[i + 1]
  <2>1. i \in 1 .. Len(a) + Len(b) /\ (i <= Len(a) <=> i < k)
    BY <1>1, <1>6
  <2>2. CASE i < k
    <3>1. i \in 1 .. (k - 1) - 1 + 1 /\ 1 + i - 1 = i
      BY <2>2
    <3>2. QED
      BY <1>3, <1>7, <2>1, <2>2, <3>1
  <2>3. CASE ~ (i < k)
    <3>1. /\ i - Len(a) \in 1 .. Len(q) - (k + 1) + 1
          /\ k + 1 + (i - Len(a)) - 1 = i + 1
      BY <1>1, <1>6, <2>3
    <3>2. QED
      BY <1>4, <1>7, <2>1, <2>3, <3>1
  <2>4. QED
    BY <2>2, <2>3
<1>9. QED
  BY <1>1, <1>5, <1>6, <1>7, <1>8

\* Removing the first occurrence of e keeps the other elements.
LEMMA RemoveFirstKeeps ==
    ASSUME NEW S, NEW q \in Seq(S), NEW e
    PROVE  /\ \A f \in ToSet(q) : f # e => f \in ToSet(RemoveFirst(q, e))
           /\ Distinct(q) => Distinct(RemoveFirst(q, e))
<1> DEFINE I == {i \in 1 .. Len(q) : q[i] = e}
<1>1. CASE I = {}
  BY <1>1 DEF RemoveFirst
<1>2. CASE I # {}
  <2> DEFINE k == Min(I)
  <2>1. RemoveFirst(q, e) = RemoveAt(q, k)
    BY <1>2 DEF RemoveFirst, SelectInSeq
  <2>2. k \in 1 .. Len(q) /\ q[k] = e
    <3>1. I \subseteq Nat /\ I \subseteq 1 .. Len(q) /\ \A i \in I : q[i] = e
      OBVIOUS
    <3> HIDE DEF I
    <3>2. QED
      BY <1>2, <3>1, MinOfNats
  <2> HIDE DEF I, k
  <2>3. PICK r : r = RemoveAt(q, k)
    OBVIOUS
  <2>4. /\ r \in Seq(S) /\ Len(r) = Len(q) - 1 /\ Len(q) \in Nat
        /\ \A i \in 1 .. Len(q) - 1 : r[i] = IF i < k THEN q[i] ELSE q[i + 1]
    BY <2>2, <2>3, RemoveAtProperties, LenProperties
  <2>5. ToSet(r) = {r[i] : i \in 1 .. Len(q) - 1} /\ ToSet(q) = {q[i] : i \in 1 .. Len(q)}
    BY <2>4, ToSetOf
  <2>6. ASSUME NEW f \in ToSet(q), f # e
        PROVE  f \in ToSet(r)
    <3>1. PICK i \in 1 .. Len(q) : f = q[i]
      BY <2>5
    <3>2. i # k
      BY <2>2, <2>6, <3>1
    <3>3. CASE i < k
      <4>1. i \in 1 .. Len(q) - 1
        BY <2>2, <2>4, <3>3
      <4>2. r[i] = f
        BY <2>4, <3>1, <3>3, <4>1
      <4>3. QED
        BY <2>5, <4>1, <4>2
    <3>4. CASE i > k
      <4>1. i - 1 \in 1 .. Len(q) - 1 /\ ~ (i - 1 < k) /\ (i - 1) + 1 = i
        BY <2>2, <2>4, <3>4
      <4>2. r[i - 1] = f
        BY <2>4, <3>1, <4>1
      <4>3. QED
        BY <2>5, <4>1, <4>2
    <3>5. QED
      BY <2>2, <3>2, <3>3, <3>4
  <2>7. ASSUME Distinct(q), NEW i \in 1 .. Len(q) - 1, NEW j \in 1 .. Len(q) - 1, r[i] = r[j]
        PROVE  i = j
    <3>1. PICK m \in 1 .. Len(q) : r[i] = q[m] /\ m = IF i < k THEN i ELSE i + 1
      BY <2>4
    <3>2. PICK n \in 1 .. Len(q) : r[j] = q[n] /\ n = IF j < k THEN j ELSE j + 1
      BY <2>4
    <3>3. m = n
      BY <2>7, <3>1, <3>2 DEF Distinct
    <3>4. QED
      BY <2>2, <3>1, <3>2, <3>3
  <2>8. QED
    BY <2>1, <2>3, <2>4, <2>6, <2>7 DEF Distinct
<1>3. QED
  BY <1>1, <1>2

\* Removing the first occurrence of e removes one position, or none.
LEMMA RemoveFirstAt ==
    ASSUME NEW S, NEW q \in Seq(S), NEW e
    PROVE  /\ e \notin ToSet(q) => RemoveFirst(q, e) = q
           /\ e \in ToSet(q) => \E k \in 1 .. Len(q) : q[k] = e /\ RemoveFirst(q, e) = RemoveAt(q, k)
<1> DEFINE I == {i \in 1 .. Len(q) : q[i] = e}
<1>1. ToSet(q) = {q[i] : i \in 1 .. Len(q)}
  BY ToSetOf
<1>2. CASE I = {}
  <2>1. e \notin ToSet(q)
    BY <1>1, <1>2
  <2>2. RemoveFirst(q, e) = q
    BY <1>2 DEF RemoveFirst
  <2>3. QED
    BY <2>1, <2>2
<1>3. CASE I # {}
  <2>1. RemoveFirst(q, e) = RemoveAt(q, Min(I))
    BY <1>3 DEF RemoveFirst, SelectInSeq
  <2>2. Min(I) \in 1 .. Len(q) /\ q[Min(I)] = e
    <3>1. I \subseteq Nat /\ I \subseteq 1 .. Len(q) /\ \A i \in I : q[i] = e
      OBVIOUS
    <3> HIDE DEF I
    <3>2. QED
      BY <1>3, <3>1, MinOfNats
  <2>3. e \in ToSet(q)
    BY <1>1, <2>2
  <2>4. QED
    BY <2>1, <2>2, <2>3
<1>4. QED
  BY <1>2, <1>3

\* Of a sequence without repetition it leaves every element but e.
LEMMA RemoveFirstDistinct ==
    ASSUME NEW S, NEW q \in Seq(S), NEW e, Distinct(q)
    PROVE  RemoveFirst(q, e) \in Seq(S) /\ ToSet(RemoveFirst(q, e)) = ToSet(q) \ {e}
<1>1. CASE e \notin ToSet(q)
  BY <1>1, RemoveFirstAt
<1>2. CASE e \in ToSet(q)
  <2>1. PICK k \in 1 .. Len(q) : q[k] = e /\ RemoveFirst(q, e) = RemoveAt(q, k)
    BY <1>2, RemoveFirstAt
  <2>2. PICK r : r = RemoveAt(q, k)
    OBVIOUS
  <2>3. /\ r \in Seq(S) /\ Len(r) = Len(q) - 1 /\ Len(q) \in Nat
        /\ \A i \in 1 .. Len(q) - 1 : r[i] = IF i < k THEN q[i] ELSE q[i + 1]
    BY <2>2, RemoveAtProperties, LenProperties
  <2>4. ToSet(r) = {r[i] : i \in 1 .. Len(q) - 1} /\ ToSet(q) = {q[i] : i \in 1 .. Len(q)}
    BY <2>3, ToSetOf
  <2>5. \A f \in ToSet(q) : f # e => f \in ToSet(r)
    BY <2>1, <2>2, RemoveFirstKeeps
  <2>6. ASSUME NEW i \in 1 .. Len(q) - 1
        PROVE  r[i] \in ToSet(q) /\ r[i] # e
    <3>1. PICK j \in 1 .. Len(q) : r[i] = q[j] /\ j = IF i < k THEN i ELSE i + 1
      BY <2>3
    <3>2. j # k
      BY <2>1, <3>1
    <3>3. q[j] # e
      BY <2>1, <3>2 DEF Distinct
    <3>4. QED
      BY <2>4, <3>1, <3>3
  <2>7. ToSet(r) = ToSet(q) \ {e}
    BY <2>4, <2>5, <2>6
  <2>8. QED
    BY <2>1, <2>2, <2>3, <2>7
<1>3. QED
  BY <1>1, <1>2

-----------------------------------------------------------------------------
(* FlattenSeq().                                                           *)

\* What FlattenSeq() computes for the first i sequences.
FlatAt(f, q, i) == IF i = 1 THEN q[i] ELSE f[i - 1] \o q[i]

Flattens(f, q, N) == f = [i \in 1 .. N |-> FlatAt(f, q, i)]

\* The recursion of FlattenSeq() defines a function.
LEMMA FlattensExists ==
    ASSUME NEW q, NEW N \in Nat
    PROVE  \E f : Flattens(f, q, N)
<1> DEFINE I == {n \in Nat : \E f : Flattens(f, q, n)}
<1>1. 0 \in I
  <2> DEFINE f == [i \in 1 .. 0 |-> q]
  <2>1. f = [i \in 1 .. 0 |-> FlatAt(f, q, i)]
    OBVIOUS
  <2>2. Flattens(f, q, 0)
    BY <2>1 DEF Flattens
  <2>3. QED
    BY <2>2
<1>2. ASSUME NEW n \in Nat, n \in I
      PROVE  n + 1 \in I
  <2>1. PICK f : Flattens(f, q, n)
    BY <1>2
  <2> DEFINE last == FlatAt(f, q, n + 1)
             g == [i \in 1 .. n + 1 |-> IF i = n + 1 THEN last ELSE f[i]]
  <2>2. \A i \in 1 .. n : f[i] = FlatAt(f, q, i)
    BY <2>1 DEF Flattens
  <2>3. /\ \A i \in 1 .. n : i \in 1 .. n + 1 /\ i # n + 1
        /\ n + 1 \in 1 .. n + 1
        /\ \A i \in 1 .. n + 1 : i \in 1 .. n \/ i = n + 1
        /\ \A i \in 1 .. n + 1 : i # 1 => i - 1 \in 1 .. n
    OBVIOUS
  <2>4. (\A i \in 1 .. n : g[i] = f[i]) /\ g[n + 1] = last
    BY <2>3
  <2>5. \A i \in 1 .. n + 1 : FlatAt(g, q, i) = FlatAt(f, q, i)
    <3> HIDE DEF g
    <3>1. QED
      BY <2>3, <2>4 DEF FlatAt
  <2>6. \A i \in 1 .. n + 1 : g[i] = FlatAt(g, q, i)
    <3> HIDE DEF g
    <3>1. QED
      BY <2>2, <2>3, <2>4, <2>5
  <2>7. g = [i \in 1 .. n + 1 |-> g[i]]
    OBVIOUS
  <2> HIDE DEF g
  <2>8. Flattens(g, q, n + 1)
    BY <2>6, <2>7 DEF Flattens
  <2>9. QED
    BY <2>8
<1> HIDE DEF I
<1>3. Nat \subseteq I
  BY <1>1, <1>2, NatInduct
<1>4. QED
  BY <1>3 DEF I

\* f[i] is what the first i sequences of q make together.
Flat(f, q, S) ==
    /\ f[0] = <<>>
    /\ \A i \in 0 .. Len(q) : f[i] \in Seq(S)
    /\ \A i \in 1 .. Len(q) : q[i] \in Seq(S) /\ f[i] = f[i - 1] \o q[i]
    /\ FlattenSeq(q) = f[Len(q)]

\* FlattenSeq() by its steps.
LEMMA FlattenSteps ==
    ASSUME NEW S, NEW q \in Seq(Seq(S)), q # <<>>
    PROVE  \E f : Flat(f, q, S)
<1>1. /\ Len(q) \in Nat \ {0}
      /\ \A i \in 1 .. Len(q) : q[i] \in Seq(S)
  BY EmptySeq, ElementOfSeq
<1> DEFINE K == CHOOSE g : Flattens(g, q, Len(q))
<1>2. Flattens(K, q, Len(q))
  BY <1>1, FlattensExists
<1>3. FlattenSeq(q) = K[Len(q)]
  BY <1>1 DEF FlattenSeq, Flattens, FlatAt
<1>4. PICK g : g = K
  OBVIOUS
<1>5. \A i \in 1 .. Len(q) : g[i] = FlatAt(g, q, i)
  <2>1. Flattens(g, q, Len(q))
    BY <1>2, <1>4
  <2>2. QED
    BY <2>1 DEF Flattens
<1> HIDE DEF K
<1> DEFINE f == [i \in 0 .. Len(q) |-> IF i = 0 THEN <<>> ELSE g[i]]
<1>6. /\ f[0] = <<>>
      /\ \A i \in 1 .. Len(q) : f[i] = g[i]
  BY <1>1
<1> HIDE DEF f
<1>7. <<>> \in Seq(S)
  BY EmptySeq
<1>8. ASSUME NEW i \in 1 .. Len(q)
      PROVE  f[i] = f[i - 1] \o q[i]
  <2>1. CASE i = 1
    <3>1. f[i] = q[i]
      BY <1>5, <1>6, <2>1 DEF FlatAt
    <3>2. <<>> \o q[i] = q[i]
      <4>1. PICK e : e = q[i]
        OBVIOUS
      <4>2. e \in Seq(S)
        BY <1>1, <4>1
      <4>3. <<>> \o e = e
        BY <4>2, ConcatEmptySeq
      <4>4. QED
        BY <4>1, <4>3
    <3>3. f[i - 1] = <<>>
      BY <1>6, <2>1
    <3>4. QED
      BY <3>1, <3>2, <3>3
  <2>2. CASE i # 1
    <3>1. i - 1 \in 1 .. Len(q)
      BY <2>2
    <3>2. QED
      BY <1>5, <1>6, <2>2, <3>1 DEF FlatAt
  <2>3. QED
    BY <2>1, <2>2
<1>9. ASSUME NEW n \in 0 .. Len(q)
      PROVE  f[n] \in Seq(S)
  <2> DEFINE I == {i \in Nat : i <= n => f[i] \in Seq(S)}
  <2>1. 0 \in I
    BY <1>6, <1>7
  <2>2. ASSUME NEW i \in 1 .. n, i - 1 \in I
        PROVE  i \in I
    <3>1. i \in 1 .. Len(q) /\ i - 1 <= n /\ i \in Nat
      BY <1>1
    <3>2. f[i - 1] \in Seq(S) /\ q[i] \in Seq(S)
      BY <1>1, <2>2, <3>1
    <3>3. f[i - 1] \o q[i] \in Seq(S)
      BY <3>2, ConcatProperties
    <3>4. QED
      BY <1>8, <3>1, <3>3
  <2> HIDE DEF I
  <2>3. n \in I
    BY <2>1, <2>2, UpTo
  <2>4. QED
    BY <2>3 DEF I
<1>10. FlattenSeq(q) = f[Len(q)]
  BY <1>1, <1>3, <1>4, <1>6
<1>11. Flat(f, q, S)
  BY <1>1, <1>6, <1>8, <1>9, <1>10 DEF Flat
<1>12. QED
  BY <1>11

\* Together they are a sequence of the same elements.
LEMMA FlattenType ==
    ASSUME NEW S, NEW q \in Seq(Seq(S)), q # <<>>
    PROVE  FlattenSeq(q) \in Seq(S)
<1>1. PICK f : Flat(f, q, S)
  BY FlattenSteps
<1>2. Len(q) \in 0 .. Len(q)
  BY LenProperties
<1>3. QED
  BY <1>1, <1>2 DEF Flat

\* Up to i, the sequences behind f are those behind g with p before them.
Longer(f, g, p, i) == f[i] = p \o g[i]

AgreeAfter(q, r, j) == \A i \in 1 .. Len(q) : i > j => r[i] = q[i]

\* What differs before the rest of two sequences differs in the whole.
LEMMA FlatAgree ==
    ASSUME NEW S, NEW q \in Seq(Seq(S)), NEW r \in Seq(Seq(S)), NEW N \in Nat,
           Len(q) = N, Len(r) = N,
           NEW f, NEW g, Flat(f, q, S), Flat(g, r, S), NEW p \in Seq(S),
           NEW j \in 0 .. N, Longer(f, g, p, j), AgreeAfter(q, r, j)
    PROVE  Longer(f, g, p, N)
<1>0. \A x, y \in Seq(S) : (p \o x) \o y = p \o (x \o y)
  BY ConcatAssociative
<1> DEFINE I == {n \in Nat : n >= j /\ n <= N => Longer(f, g, p, n)}
<1>1. 0 \in I
  <2>1. 0 >= j => j = 0
    OBVIOUS
  <2>2. QED
    BY <2>1
<1>2. ASSUME NEW n \in 1 .. N, n - 1 \in I
      PROVE  n \in I
  <2>1. CASE n < j
    BY <2>1
  <2>2. CASE n = j
    BY <2>2
  <2>3. CASE n > j
    <3>1. /\ n - 1 >= j /\ n - 1 <= N /\ n - 1 \in 0 .. N /\ n \in 1 .. N
      BY <2>3
    <3>2. f[n - 1] = p \o g[n - 1] /\ r[n] = q[n]
      BY <1>2, <2>3, <3>1 DEF Longer, AgreeAfter
    <3>3. PICK a, b : a = g[n - 1] /\ b = q[n]
      OBVIOUS
    <3>4. a \in Seq(S) /\ b \in Seq(S)
      BY <3>1, <3>3 DEF Flat
    <3>5. /\ f[n] = f[n - 1] \o q[n]
          /\ g[n] = g[n - 1] \o r[n]
      BY <3>1 DEF Flat
    <3>6. (p \o a) \o b = p \o (a \o b)
      BY <1>0, <3>4
    <3>7. Longer(f, g, p, n)
      BY <3>2, <3>3, <3>5, <3>6 DEF Longer
    <3>8. QED
      BY <3>7
  <2>4. QED
    BY <2>1, <2>2, <2>3
<1> HIDE DEF I
<1>3. N \in I
  BY <1>1, <1>2, UpTo
<1>4. QED
  BY <1>3 DEF I

\* As long as they agree, so do the first sequences together.
LEMMA FlatPrefix ==
    ASSUME NEW S, NEW q \in Seq(Seq(S)), NEW r \in Seq(Seq(S)), NEW N \in Nat,
           Len(q) = N, Len(r) = N,
           NEW f, NEW g, Flat(f, q, S), Flat(g, r, S),
           NEW j \in 0 .. N, \A i \in 1 .. j : r[i] = q[i]
    PROVE  f[j] = g[j]
<1> DEFINE I == {n \in Nat : n <= j => f[n] = g[n]}
<1>1. 0 \in I
  BY DEF Flat
<1>2. ASSUME NEW n \in 1 .. j, n - 1 \in I
      PROVE  n \in I
  <2>1. n \in 1 .. N /\ n - 1 <= j
    OBVIOUS
  <2>2. f[n - 1] = g[n - 1]
    BY <1>2, <2>1
  <2>3. n \in 1 .. Len(q) /\ n \in 1 .. Len(r)
    BY <2>1
  <2>4. f[n] = f[n - 1] \o q[n]
    BY <2>3 DEF Flat
  <2>5. g[n] = g[n - 1] \o r[n]
    BY <2>3 DEF Flat
  <2>6. q[n] = r[n]
    OBVIOUS
  <2>7. f[n] = g[n]
    BY <2>2, <2>4, <2>5, <2>6
  <2>8. QED
    BY <2>1, <2>7
<1> HIDE DEF I
<1>3. j \in I
  BY <1>1, <1>2, UpTo
<1>4. QED
  BY <1>3 DEF I

\* What is appended to the last sequence is appended to the whole.
LEMMA FlattenGrows ==
    ASSUME NEW S, NEW q \in Seq(Seq(S)), NEW r \in Seq(Seq(S)), NEW N \in Nat \ {0},
           Len(q) = N, Len(r) = N, NEW b \in Seq(S), r[N] = q[N] \o b,
           \A i \in 1 .. N : i # N => r[i] = q[i]
    PROVE  FlattenSeq(r) = FlattenSeq(q) \o b
<1>1. q # <<>> /\ r # <<>>
  BY EmptySeq
<1>2. PICK f : Flat(f, q, S)
  BY <1>1, FlattenSteps
<1>3. PICK g : Flat(g, r, S)
  BY <1>1, FlattenSteps
<1>4. PICK j \in 0 .. N : j = N - 1
  OBVIOUS
<1>5. \A i \in 1 .. j : r[i] = q[i]
  BY <1>4
<1>6. f[j] = g[j]
  BY <1>2, <1>3, <1>5, FlatPrefix
<1>7. PICK a, e : a = f[j] /\ e = q[N]
  OBVIOUS
<1>8. a \in Seq(S) /\ e \in Seq(S)
  BY <1>2, <1>4, <1>7 DEF Flat
<1>9. FlattenSeq(q) = a \o e /\ FlattenSeq(r) = a \o (e \o b)
  <2>1. N \in 1 .. N /\ N - 1 = j
    BY <1>4
  <2>2. FlattenSeq(q) = f[N - 1] \o q[N] /\ FlattenSeq(r) = g[N - 1] \o r[N]
    BY <1>2, <1>3, <2>1 DEF Flat
  <2>3. QED
    BY <1>6, <1>7, <2>1, <2>2
<1>10. (a \o e) \o b = a \o (e \o b)
  BY <1>8, ConcatAssociative
<1>11. QED
  BY <1>9, <1>10

\* The sequence at k + 1 replaces p, the one at k.
Moved(q, r, k, p) ==
    /\ p = q[k]
    /\ r[k] = q[k + 1]
    /\ r[k + 1] = <<>>
    /\ \A i \in 1 .. Len(q) : i # k /\ i # k + 1 => r[i] = q[i]

\* A sequence moves down by one place.  Nothing changes but that the sequence
\* it replaces, which is the first one or an empty one, is lost.
LEMMA FlattenMove ==
    ASSUME NEW S, NEW q \in Seq(Seq(S)), NEW r \in Seq(Seq(S)), NEW N \in Nat,
           Len(q) = N, Len(r) = N, NEW k \in 1 .. N - 1, NEW p \in Seq(S),
           Moved(q, r, k, p), k = 1 \/ p = <<>>
    PROVE  FlattenSeq(q) = p \o FlattenSeq(r)
<1> USE DEF Moved
<1>1. q # <<>> /\ r # <<>>
  BY EmptySeq
<1>2. PICK f : Flat(f, q, S)
  BY <1>1, FlattenSteps
<1>3. PICK g : Flat(g, r, S)
  BY <1>1, FlattenSteps
<1>4. PICK j \in 0 .. N : j = k - 1
  OBVIOUS
<1>5. \A i \in 1 .. j : r[i] = q[i]
  BY <1>4
<1>6. f[j] = g[j]
  <2>1. Flat(f, q, S) /\ Flat(g, r, S) /\ Len(q) = N /\ Len(r) = N /\ (\A i \in 1 .. j : r[i] = q[i])
    BY <1>2, <1>3, <1>5
  <2>2. QED
    BY <2>1, FlatPrefix
<1>7. PICK a, e : a = f[j] /\ e = q[k + 1]
  OBVIOUS
<1>8. /\ k \in 1 .. N /\ k + 1 \in 1 .. N /\ j + 1 = k /\ (k + 1) - 1 = k
      /\ k - 1 = j
  BY <1>4
<1>9. a \in Seq(S) /\ e \in Seq(S)
  BY <1>2, <1>7, <1>8 DEF Flat
<1>10. f[k + 1] = (a \o p) \o e
  BY <1>2, <1>7, <1>8 DEF Flat
<1>11. g[k + 1] = (a \o e) \o <<>>
  BY <1>3, <1>6, <1>7, <1>8 DEF Flat
<1>12. (a \o e) \o <<>> = a \o e
  <2>1. a \o e \in Seq(S)
    BY <1>9, ConcatProperties
  <2>2. QED
    BY <2>1, ConcatEmptySeq
<1>13. f[k + 1] = p \o g[k + 1]
  <2>1. CASE k = 1
    <3>1. a = <<>>
      BY <1>2, <1>4, <1>7, <2>1 DEF Flat
    <3>2. <<>> \o p = p /\ <<>> \o e = e
      BY <1>9, ConcatEmptySeq
    <3>3. QED
      BY <1>10, <1>11, <1>12, <3>1, <3>2
  <2>2. CASE p = <<>>
    <3>1. a \o <<>> = a
      BY <1>9, ConcatEmptySeq
    <3>2. <<>> \o (a \o e) = a \o e
      <4>1. a \o e \in Seq(S)
        BY <1>9, ConcatProperties
      <4>2. QED
        BY <4>1, ConcatEmptySeq
    <3>3. QED
      BY <1>10, <1>11, <1>12, <2>2, <3>1, <3>2
  <2>3. QED
    BY <2>1, <2>2
<1>14. PICK m \in 0 .. N : m = k + 1
  BY <1>8
<1>15. AgreeAfter(q, r, m)
  BY <1>14 DEF AgreeAfter
<1>16. Longer(f, g, p, m)
  BY <1>13, <1>14 DEF Longer
<1>17. Longer(f, g, p, N)
  BY <1>2, <1>3, <1>15, <1>16, FlatAgree
<1>18. QED
  BY <1>2, <1>3, <1>17 DEF Longer, Flat

\* The elements of two sequences.
LEMMA ToSetConcat ==
    ASSUME NEW S, NEW p \in Seq(S), NEW q \in Seq(S)
    PROVE  p \o q \in Seq(S) /\ ToSet(p \o q) = ToSet(p) \cup ToSet(q)
<1>1. /\ p \o q \in Seq(S) /\ Len(p \o q) = Len(p) + Len(q)
      /\ Len(p) \in Nat /\ Len(q) \in Nat
      /\ \A i \in 1 .. Len(p) + Len(q) :
            (p \o q)[i] = IF i <= Len(p) THEN p[i] ELSE q[i - Len(p)]
  BY ConcatProperties, LenProperties
<1>2. PICK c : c = p \o q
  OBVIOUS
<1>3. /\ ToSet(c) = {c[i] : i \in 1 .. Len(p) + Len(q)}
      /\ ToSet(p) = {p[i] : i \in 1 .. Len(p)}
      /\ ToSet(q) = {q[i] : i \in 1 .. Len(q)}
  <2>1. c \in Seq(S) /\ Len(c) = Len(p) + Len(q)
    BY <1>1, <1>2
  <2>2. ToSet(c) = {c[i] : i \in 1 .. Len(c)}
    BY <2>1, ToSetOf
  <2>3. ToSet(p) = {p[i] : i \in 1 .. Len(p)} /\ ToSet(q) = {q[i] : i \in 1 .. Len(q)}
    BY ToSetOf
  <2>4. QED
    BY <2>1, <2>2, <2>3
<1>4. ASSUME NEW e \in ToSet(c)
      PROVE  e \in ToSet(p) \cup ToSet(q)
  <2>1. PICK i \in 1 .. Len(p) + Len(q) : e = c[i]
    BY <1>3
  <2>2. i <= Len(p) \/ i - Len(p) \in 1 .. Len(q)
    BY <1>1
  <2>3. QED
    BY <1>1, <1>2, <1>3, <2>1, <2>2
<1>5. ASSUME NEW e \in ToSet(p)
      PROVE  e \in ToSet(c)
  <2>1. PICK i \in 1 .. Len(p) : e = p[i]
    BY <1>3
  <2>2. i \in 1 .. Len(p) + Len(q) /\ i <= Len(p)
    BY <1>1
  <2>3. QED
    BY <1>1, <1>2, <1>3, <2>1, <2>2
<1>6. ASSUME NEW e \in ToSet(q)
      PROVE  e \in ToSet(c)
  <2>1. PICK i \in 1 .. Len(q) : e = q[i]
    BY <1>3
  <2>2. /\ i + Len(p) \in 1 .. Len(p) + Len(q) /\ ~ (i + Len(p) <= Len(p))
        /\ (i + Len(p)) - Len(p) = i
    BY <1>1
  <2>3. c[i + Len(p)] = q[i]
    BY <1>1, <1>2, <2>2
  <2>4. QED
    BY <1>3, <2>1, <2>2, <2>3
<1>7. QED
  BY <1>1, <1>2, <1>4, <1>5, <1>6

\* The elements of all sequences.
LEMMA FlattenElements ==
    ASSUME NEW S, NEW q \in Seq(Seq(S)), q # <<>>
    PROVE  ToSet(FlattenSeq(q)) = UNION {ToSet(q[i]) : i \in 1 .. Len(q)}
<1>1. PICK f : Flat(f, q, S)
  BY FlattenSteps
<1>2. Len(q) \in Nat
  BY LenProperties
<1> DEFINE U(n) == UNION {ToSet(q[i]) : i \in 1 .. n}
           I == {n \in Nat : n <= Len(q) => ToSet(f[n]) = U(n)}
<1>3. 0 \in I
  <2>1. ToSet(f[0]) = {}
    BY <1>1 DEF Flat, ToSet
  <2>2. QED
    BY <2>1
<1>4. ASSUME NEW n \in 1 .. Len(q), n - 1 \in I
      PROVE  n \in I
  <2>1. n - 1 \in 0 .. Len(q) /\ n - 1 <= Len(q) /\ n \in Nat
    BY <1>2
  <2>2. ToSet(f[n - 1]) = U(n - 1)
    BY <1>4, <2>1
  <2>3. PICK a, e : a = f[n - 1] /\ e = q[n]
    OBVIOUS
  <2>4. a \in Seq(S) /\ e \in Seq(S) /\ f[n] = a \o e
    BY <1>1, <2>1, <2>3 DEF Flat
  <2>5. ToSet(a \o e) = ToSet(a) \cup ToSet(e)
    BY <2>4, ToSetConcat
  <2>6. 1 .. n = 1 .. n - 1 \cup {n}
    BY <2>1
  <2>7. U(n) = U(n - 1) \cup ToSet(q[n])
    BY <2>6
  <2>8. ToSet(f[n]) = U(n)
    BY <2>2, <2>3, <2>4, <2>5, <2>7
  <2> HIDE DEF U
  <2>9. QED
    BY <2>1, <2>8
<1> HIDE DEF I
<1>5. Len(q) \in I
  BY <1>2, <1>3, <1>4, UpTo
<1>6. QED
  BY <1>1, <1>2, <1>5 DEF I, Flat

\* What is left when the first of two sequences is dropped.
LEMMA DropFirst ==
    ASSUME NEW S, NEW p \in Seq(S), NEW q \in Seq(S), p # <<>>, NEW k, k = p \o q,
           NEW n, n = Len(p)
    PROVE  n \in 1 .. Len(k) /\ q = SubSeq(k, n + 1, Len(k))
<1>1. n \in Nat \ {0} /\ Len(q) \in Nat /\ Len(k) = n + Len(q)
  BY EmptySeq, LenProperties, ConcatProperties
<1>2. n \in 0 .. Len(p)
  BY <1>1
<1>3. SubSeq(p, n + 1, Len(p)) = <<>>
  BY <1>1, SubSeqEmpty
<1>4. SubSeq(p, n + 1, Len(p)) \o q = SubSeq(p \o q, n + 1, Len(p \o q))
  BY <1>2, DropConcat
<1>5. <<>> \o q = q
  BY ConcatEmptySeq
<1>6. QED
  BY <1>1, <1>3, <1>4, <1>5

\* Before position n, k is p; from there on it has elements of T only.
EndsAt(k, p, n, T) ==
    /\ n \in 1 .. Len(k)
    /\ p = SubSeq(k, 1, n - 1)
    /\ \A i \in n .. Len(k) : k[i] \in T

\* What is left when the second of two sequences is dropped.
LEMMA DropLast ==
    ASSUME NEW S, NEW p \in Seq(S), NEW q \in Seq(S), q # <<>>, NEW k, k = p \o q,
           NEW n, n = Len(p) + 1
    PROVE  EndsAt(k, p, n, ToSet(q))
<1>1. /\ Len(p) \in Nat /\ Len(q) \in Nat \ {0} /\ Len(k) = Len(p) + Len(q) /\ n - 1 = Len(p)
      /\ k \in Seq(S)
      /\ \A i \in 1 .. Len(p) + Len(q) : k[i] = IF i <= Len(p) THEN p[i] ELSE q[i - Len(p)]
  BY EmptySeq, LenProperties, ConcatProperties
<1>2. ASSUME NEW i \in n .. Len(k)
      PROVE  k[i] \in ToSet(q)
  <2>1. i \in 1 .. Len(p) + Len(q) /\ ~ (i <= Len(p)) /\ i - Len(p) \in 1 .. Len(q)
    BY <1>1
  <2>2. k[i] = q[i - Len(p)]
    BY <1>1, <2>1
  <2>3. ToSet(q) = {q[j] : j \in 1 .. Len(q)}
    BY ToSetOf
  <2>4. QED
    BY <2>1, <2>2, <2>3
<1>3. p = SubSeq(k, 1, n - 1)
  <2> DEFINE r == SubSeq(k, 1, Len(p))
  <2>1. \A i \in 1 .. Len(p) : k[i] \in S
    BY <1>1, ElementOfSeq
  <2>2. /\ r \in Seq(S) /\ Len(r) = (IF 1 <= Len(p) THEN Len(p) - 1 + 1 ELSE 0)
        /\ \A i \in 1 .. Len(p) - 1 + 1 : r[i] = k[1 + i - 1]
    BY <1>1, <2>1, SubSeqProperties
  <2> HIDE DEF r
  <2>3. Len(r) = Len(p)
    BY <1>1, <2>2
  <2>4. \A i \in 1 .. Len(p) : r[i] = p[i]
    BY <1>1, <2>2
  <2>5. r = p
    BY <2>2, <2>3, <2>4, SeqEqual
  <2>6. QED
    BY <1>1, <2>5 DEF r
<1>4. QED
  BY <1>1, <1>2, <1>3 DEF EndsAt

=============================================================================
