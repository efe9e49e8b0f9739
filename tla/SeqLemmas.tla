----------------------------- MODULE SeqLemmas -----------------------------
(***************************************************************************)
(* What appending, and removing one element, do to a sequence, and what    *)
(* listing a set gives: std::list and std::multimap are sequences in the   *)
(* models, and every proof about them rests on these lemmas.               *)
(***************************************************************************)
EXTENDS Integers, Sequences, SequencesExt, Lists, FiniteSetTheorems, TLAPS

\* A function on 1 .. n is a sequence.
LEMMA FunctionToSeq ==
  ASSUME NEW S, NEW n \in Nat, NEW f \in [1 .. n -> S]
  PROVE  f \in Seq(S) /\ Len(f) = n
  OBVIOUS

\* The elements of a concatenation.
LEMMA ConcatElements ==
  ASSUME NEW S, NEW a \in Seq(S), NEW b \in Seq(S)
  PROVE  /\ a \o b \in Seq(S)
         /\ Len(a \o b) = Len(a) + Len(b)
         /\ \A j \in 1 .. Len(a) + Len(b) :
              (a \o b)[j] = IF j <= Len(a) THEN a[j] ELSE b[j - Len(a)]
  OBVIOUS

\* Erasing the element at position i moves the later ones down by one.
LEMMA RemoveAtProperties ==
  ASSUME NEW S, NEW s \in Seq(S), NEW i \in 1 .. Len(s)
  PROVE  /\ RemoveAt(s, i) \in Seq(S)
         /\ Len(RemoveAt(s, i)) = Len(s) - 1
         /\ \A j \in 1 .. Len(s) - 1 :
              RemoveAt(s, i)[j] = s[IF j < i THEN j ELSE j + 1]
  <1> DEFINE a == SubSeq(s, 1, i - 1)
             b == SubSeq(s, i + 1, Len(s))
  <1>1. /\ a \in Seq(S) /\ Len(a) = i - 1
        /\ \A j \in 1 .. i - 1 : a[j] = s[j]
    OBVIOUS
  <1>2. /\ b \in Seq(S) /\ Len(b) = Len(s) - i
        /\ \A j \in 1 .. Len(s) - i : b[j] = s[i + j]
    OBVIOUS
  <1>3. RemoveAt(s, i) = a \o b
    BY DEF RemoveAt
  <1> HIDE DEF a, b
  <1>4. /\ a \o b \in Seq(S)
        /\ Len(a \o b) = Len(a) + Len(b)
        /\ \A j \in 1 .. Len(a) + Len(b) :
             (a \o b)[j] = IF j <= Len(a) THEN a[j] ELSE b[j - Len(a)]
    BY <1>1, <1>2, ConcatElements
  <1>5. \A j \in 1 .. Len(s) - 1 : (a \o b)[j] = s[IF j < i THEN j ELSE j + 1]
    <2> SUFFICES ASSUME NEW j \in 1 .. Len(s) - 1
                 PROVE  (a \o b)[j] = s[IF j < i THEN j ELSE j + 1]
      OBVIOUS
    <2>1. CASE j < i
      BY <1>1, <1>2, <1>4, <2>1
    <2>2. CASE j >= i
      <3>0. /\ j \in 1 .. Len(a) + Len(b)
            /\ ~ (j <= Len(a))
            /\ Len(a) = i - 1
        BY <1>1, <1>2, <2>2
      <3>1. (a \o b)[j] = b[j - (i - 1)]
        BY <1>4, <3>0
      <3>2. b[j - (i - 1)] = s[i + (j - (i - 1))]
        BY <1>2, <2>2
      <3>3. QED
        BY <3>1, <3>2, <2>2
    <2>3. j < i \/ j >= i
      OBVIOUS
    <2>4. QED
      BY <2>1, <2>2, <2>3
  <1>6. QED
    BY <1>1, <1>2, <1>3, <1>4, <1>5

\* A finite set can be listed, each of its elements once.
LEMMA SetToSeqProperties ==
  ASSUME NEW S, IsFiniteSet(S)
  PROVE  /\ SetToSeq(S) \in [1 .. Cardinality(S) -> S]
         /\ SetToSeq(S) \in Seq(S)
         /\ IsInjective(SetToSeq(S))
         /\ ToSet(SetToSeq(S)) = S
  <1>1. Cardinality(S) \in Nat /\ ExistsBijection(1 .. Cardinality(S), S)
    BY FS_CardinalityType
  <1>2. \E f \in [1 .. Cardinality(S) -> S] : IsInjective(f)
    BY <1>1 DEF ExistsBijection, Bijection, Injection
  <1>3. SetToSeq(S) \in [1 .. Cardinality(S) -> S] /\ IsInjective(SetToSeq(S))
    BY <1>2 DEF SetToSeq
  <1>4. SetToSeq(S) \in Surjection(1 .. Cardinality(S), S)
    <2>1. IsFiniteSet(1 .. Cardinality(S)) /\ Cardinality(1 .. Cardinality(S)) = Cardinality(S)
      BY <1>1, FS_Interval
    <2>2. SetToSeq(S) \in Injection(1 .. Cardinality(S), S)
      BY <1>3 DEF Injection
    <2> QED
      BY <2>1, <2>2, FS_Injection
  <1>5. ToSet(SetToSeq(S)) = S
    BY <1>3, <1>4 DEF Surjection, ToSet
  <1>6. QED
    BY <1>1, <1>3, <1>5

\* Counting the positions up to each of them numbers them without gaps.
LEMMA NthProperties ==
  ASSUME NEW kept, IsFiniteSet(kept), kept \subseteq Nat
  PROVE  /\ Cardinality(kept) \in Nat
         /\ \A n \in 1 .. Cardinality(kept) : Nth(kept, n) \in kept
         /\ \A i \in kept : \E n \in 1 .. Cardinality(kept) : Nth(kept, n) = i
         /\ \A m, n \in 1 .. Cardinality(kept) : m < n => Nth(kept, m) < Nth(kept, n)
  <1> DEFINE upTo(i) == {j \in kept : j <= i}
             size == Cardinality(kept)
             count == [i \in kept |-> Cardinality(upTo(i))]
  <1>1. size \in Nat
    BY FS_CardinalityType
  <1>2. ASSUME NEW i \in kept
        PROVE  IsFiniteSet(upTo(i)) /\ Cardinality(upTo(i)) \in 1 .. size
    <2>1. IsFiniteSet(upTo(i)) /\ Cardinality(upTo(i)) <= size
      BY FS_Subset
    <2>2. Cardinality(upTo(i)) \in Nat
      BY <2>1, FS_CardinalityType
    <2>3. i \in upTo(i)
      OBVIOUS
    <2>4. Cardinality(upTo(i)) # 0
      BY <2>1, <2>3, FS_EmptySet
    <2> QED
      BY <1>1, <2>1, <2>2, <2>4
  <1>3. ASSUME NEW i \in kept, NEW j \in kept, i < j
        PROVE  Cardinality(upTo(i)) < Cardinality(upTo(j))
    <2>0. i \in Nat /\ j \in Nat
      OBVIOUS
    <2>1. \A l \in kept : l \in Nat /\ (l <= i => l <= j)
      BY <1>3
    <2>2. upTo(i) \subseteq upTo(j) /\ j \in upTo(j) /\ j \notin upTo(i)
      <3>1. upTo(i) \subseteq upTo(j)
        BY <2>1
      <3>2. j <= j /\ ~ (j <= i)
        BY <1>3, <2>0
      <3> QED
        BY <3>1, <3>2
    <2>3. /\ Cardinality(upTo(i)) <= Cardinality(upTo(j))
          /\ Cardinality(upTo(i)) # Cardinality(upTo(j))
      BY <1>2, <2>2, FS_Subset
    <2>4. Cardinality(upTo(i)) \in Nat /\ Cardinality(upTo(j)) \in Nat
      BY <1>2
    <2> QED
      BY <2>3, <2>4
  <1> HIDE DEF upTo
  <1>4. count \in Injection(kept, 1 .. size)
    <2>1. count \in [kept -> 1 .. size]
      BY <1>2
    <2>2. ASSUME NEW i \in kept, NEW j \in kept, count[i] = count[j] PROVE i = j
      <3>1. i \in Nat /\ j \in Nat
        OBVIOUS
      <3>2. ~ (i < j) /\ ~ (j < i)
        <4>1. Cardinality(upTo(i)) = Cardinality(upTo(j)) /\ Cardinality(upTo(i)) \in Nat
          BY <1>2, <2>2
        <4> QED
          BY <1>3, <4>1
      <3> QED
        BY <3>1, <3>2
    <2> QED
      BY <2>1, <2>2 DEF Injection, IsInjective
  <1>5. count \in Surjection(kept, 1 .. size)
    <2>1. IsFiniteSet(1 .. size) /\ Cardinality(1 .. size) = size
      BY <1>1, FS_Interval
    <2> QED
      BY <1>4, <2>1, FS_Injection
  <1>6. ASSUME NEW n \in 1 .. size
        PROVE  Nth(kept, n) \in kept /\ Cardinality(upTo(Nth(kept, n))) = n
    <2>1. \E i \in kept : Cardinality(upTo(i)) = n
      BY <1>5 DEF Surjection
    <2>2. Nth(kept, n) = CHOOSE i \in kept : Cardinality(upTo(i)) = n
      BY DEF Nth, upTo
    <2> QED
      BY <2>1, <2>2
  <1>7. ASSUME NEW i \in kept PROVE \E n \in 1 .. size : Nth(kept, n) = i
    <2> DEFINE n == Cardinality(upTo(i))
               j == Nth(kept, n)
    <2>1. n \in 1 .. size
      BY <1>2
    <2>2. j \in kept /\ Cardinality(upTo(j)) = n
      BY <1>6, <2>1
    <2>3. count[i] = count[j]
      BY <2>2
    <2>4. j = i
      BY <1>4, <2>2, <2>3 DEF Injection, IsInjective
    <2> QED
      BY <2>1, <2>4
  <1>8. ASSUME NEW m \in 1 .. size, NEW n \in 1 .. size, m < n
        PROVE  Nth(kept, m) < Nth(kept, n)
    <2> DEFINE a == Nth(kept, m)
               b == Nth(kept, n)
    <2>1. /\ a \in kept /\ b \in kept /\ a \in Nat /\ b \in Nat
          /\ Cardinality(upTo(a)) = m /\ Cardinality(upTo(b)) = n
      BY <1>6
    <2> HIDE DEF a, b
    <2>2. b < a => n < m
      BY <1>3, <2>1
    <2>3. a # b
      BY <1>8, <2>1
    <2>4. m \in Nat /\ n \in Nat
      BY <1>1
    <2>5. a < b
      BY <1>8, <2>1, <2>2, <2>3, <2>4
    <2> QED
      BY <2>5 DEF a, b
  <1> QED
    BY <1>1, <1>6, <1>7, <1>8

\* What is kept of a list is all of what is to be kept, in its order.
LEMMA KeptProperties ==
  ASSUME NEW S, NEW list \in Seq(S), NEW kept \in SUBSET DOMAIN list
  PROVE  /\ Kept(list, kept) \in Seq(S)
         /\ DOMAIN Kept(list, kept) \subseteq Nat
         /\ \A n \in DOMAIN Kept(list, kept) :
              Nth(kept, n) \in kept /\ Kept(list, kept)[n] = list[Nth(kept, n)]
         /\ \A i \in kept : \E n \in DOMAIN Kept(list, kept) : Nth(kept, n) = i
         /\ \A m, n \in DOMAIN Kept(list, kept) : m < n => Nth(kept, m) < Nth(kept, n)
  <1>1. IsFiniteSet(kept) /\ kept \subseteq Nat /\ kept \subseteq 1 .. Len(list)
    <2>1. kept \subseteq 1 .. Len(list) /\ Len(list) \in Nat
      OBVIOUS
    <2>2. IsFiniteSet(1 .. Len(list))
      BY <2>1, FS_Interval
    <2> QED
      BY <2>1, <2>2, FS_Subset
  <1>2. Cardinality(kept) \in Nat /\ DOMAIN Kept(list, kept) = 1 .. Cardinality(kept)
    BY <1>1, FS_CardinalityType DEF Kept
  <1>3. \A n \in 1 .. Cardinality(kept) :
          Nth(kept, n) \in kept /\ Kept(list, kept)[n] = list[Nth(kept, n)]
    BY <1>1, NthProperties DEF Kept
  <1>4. Kept(list, kept) \in Seq(S)
    <2>1. \A n \in 1 .. Cardinality(kept) : list[Nth(kept, n)] \in S
      BY <1>1, <1>3
    <2> QED
      BY <1>2, <2>1 DEF Kept
  <1>5. /\ \A i \in kept : \E n \in 1 .. Cardinality(kept) : Nth(kept, n) = i
        /\ \A m, n \in 1 .. Cardinality(kept) : m < n => Nth(kept, m) < Nth(kept, n)
    BY <1>1, NthProperties
  <1>6. 1 .. Cardinality(kept) \subseteq Nat
    BY <1>2
  <1> QED
    BY <1>2, <1>3, <1>4, <1>5, <1>6, Zenon

\* An element is kept if its position is.
LEMMA KeptElements ==
  ASSUME NEW S, NEW list \in Seq(S), NEW kept \in SUBSET DOMAIN list
  PROVE  ToSet(Kept(list, kept)) = {list[i] : i \in kept}
  BY KeptProperties DEF ToSet

\* The elements have changed places: the i-th has been the from[i]-th.
Moves(from, before, after) ==
  /\ from \in [DOMAIN before -> DOMAIN before]
  /\ DOMAIN after = DOMAIN before
  /\ \A i \in DOMAIN before : after[i] = before[from[i]]
  /\ \A i, j \in DOMAIN before : from[i] = from[j] => i = j
  /\ \A j \in DOMAIN before : \E i \in DOMAIN before : from[i] = j

\* A list that has been rotated has the same elements in other places.
LEMMA RotatedProperties ==
  ASSUME NEW S, NEW list \in Seq(S), NEW k \in 0 .. Len(list)
  PROVE  /\ Rotated(list, k) \in Seq(S)
         /\ \E from : Moves(from, list, Rotated(list, k))
  <1> DEFINE n == Len(list)
             from == [i \in 1 .. n |-> IF i + k <= n THEN i + k ELSE i + k - n]
             back == [j \in 1 .. n |-> IF j > k THEN j - k ELSE j - k + n]
  <1>1. n \in Nat /\ k \in Nat /\ k <= n /\ DOMAIN list = 1 .. n
    OBVIOUS
  <1> HIDE DEF n
  <1>2. from \in [1 .. n -> 1 .. n] /\ back \in [1 .. n -> 1 .. n]
    BY <1>1
  <1>3. \A i \in 1 .. n : back[from[i]] = i
    BY <1>1
  <1>4. \A j \in 1 .. n : from[back[j]] = j
    BY <1>1
  <1>5. /\ DOMAIN Rotated(list, k) = 1 .. n
        /\ \A i \in 1 .. n : Rotated(list, k)[i] = list[from[i]]
    BY <1>1 DEF Rotated, n
  <1> HIDE DEF from, back
  <1>6. \A i, j \in 1 .. n : from[i] = from[j] => i = j
    BY <1>3
  <1>7. \A j \in 1 .. n : \E i \in 1 .. n : from[i] = j
    BY <1>2, <1>4
  <1>8. \A j \in 1 .. n : list[j] \in S
    BY <1>1 DEF n
  <1>9. Rotated(list, k) \in [1 .. n -> S]
    BY <1>2, <1>5, <1>8 DEF Rotated, n
  <1>10. Rotated(list, k) \in Seq(S)
    BY <1>1, <1>9, FunctionToSeq
  <1>11. DOMAIN list = 1 .. n
    BY <1>1
  <1>12. Moves(from, list, Rotated(list, k))
    BY <1>2, <1>5, <1>6, <1>7, <1>11 DEF Moves
  <1> QED
    BY <1>10, <1>12

=============================================================================
