--------------------------- MODULE bdStdDhtProofs ---------------------------
(***************************************************************************)
(* Facts about the XOR metric and the bucket index, for every key length.  *)
(***************************************************************************)
EXTENDS bdStdDht, WellFoundedInduction, TLAPS

\* A metric with a set bit has a first set bit.
LEMMA FirstSetBit ==
  ASSUME NEW m \in NodeId, NEW k \in Bits, m[k] = 1
  PROVE  \E i \in Bits : m[i] = 1 /\ \A j \in 0 .. i - 1 : m[j] = 0
  <1> DEFINE T == {i \in Bits : m[i] = 1}
  <1>1. T \subseteq Nat /\ T # {}
    BY KeyAssumption DEF Bits
  <1>2. PICK i \in T : \A j \in T : ~ (<<j, i>> \in OpToRel(<, Nat))
    BY <1>1, NatLessThanWellFounded, WFMin
  <1>3. \A j \in T : ~ (j < i)
    BY <1>1, <1>2 DEF OpToRel
  <1>4. \A j \in 0 .. i - 1 : m[j] = 0
    BY <1>3, KeyAssumption DEF Bits, NodeId
  <1>5. QED
    BY <1>4

\* What the bucket index says about the bits: everything above it is clear, and
\* the bit itself is set unless the index is 0.
LEMMA BucketBits ==
  ASSUME NEW m \in NodeId
  PROVE  /\ bdStdBucketDistance(m) \in 0 .. KEY_BITLEN - 1
         /\ \A j \in 0 .. KEY_BITLEN - 2 - bdStdBucketDistance(m) : m[j] = 0
         /\ bdStdBucketDistance(m) # 0 => m[KEY_BITLEN - 1 - bdStdBucketDistance(m)] = 1
  <1>1. CASE \E i \in Bits : m[i] = 1
    <2> DEFINE IsFirst(i) == m[i] = 1 /\ \A j \in 0 .. i - 1 : m[j] = 0
               k == CHOOSE i \in Bits : IsFirst(i)
    <2>1. \E i \in Bits : IsFirst(i)
      BY <1>1, FirstSetBit
    <2>2. k \in Bits /\ IsFirst(k)
      BY <2>1
    <2>3. bdStdBucketDistance(m) = KEY_BITLEN - 1 - k
      BY <1>1 DEF bdStdBucketDistance
    <2> HIDE DEF k
    <2>4. QED
      BY <2>2, <2>3, KeyAssumption DEF Bits
  <1>2. CASE ~ \E i \in Bits : m[i] = 1
    <2>1. bdStdBucketDistance(m) = 0
      BY <1>2 DEF bdStdBucketDistance
    <2>2. \A j \in Bits : m[j] = 0
      BY <1>2 DEF NodeId
    <2>3. QED
      BY <2>1, <2>2, KeyAssumption DEF Bits
  <1>3. QED
    BY <1>1, <1>2

\* The distance is a metric value, and a bit of it is clear exactly where the two
\* ids agree.
LEMMA DistanceBits ==
  ASSUME NEW a \in NodeId, NEW b \in NodeId
  PROVE  /\ bdStdDistance(a, b) \in NodeId
         /\ \A i \in Bits : bdStdDistance(a, b)[i] = IF a[i] = b[i] THEN 0 ELSE 1
  <1>1. \A i \in Bits : (a[i] + b[i]) % 2 = IF a[i] = b[i] THEN 0 ELSE 1
    <2> SUFFICES ASSUME NEW i \in Bits
                 PROVE  (a[i] + b[i]) % 2 = IF a[i] = b[i] THEN 0 ELSE 1
      OBVIOUS
    <2>1. a[i] \in {0, 1} /\ b[i] \in {0, 1}
      BY DEF NodeId
    <2>2. QED
      BY <2>1
  <1>2. QED
    BY <1>1 DEF bdStdDistance, NodeId

-----------------------------------------------------------------------------
\* operator< on node ids and metrics is a strict total order, as the multimaps
\* keyed by bdMetric require.
THEOREM LessIsStrictTotalOrder ==
  ASSUME NEW a \in NodeId, NEW b \in NodeId, NEW c \in NodeId
  PROVE  /\ ~ Less(a, a)
         /\ Less(a, b) => ~ Less(b, a)
         /\ Less(a, b) /\ Less(b, c) => Less(a, c)
         /\ a # b => Less(a, b) \/ Less(b, a)
  <1> USE KeyAssumption DEF NodeId, Bits
  <1>1. ~ Less(a, a)
    BY DEF Less
  <1>2. ASSUME Less(a, b), Less(b, a)
        PROVE  FALSE
    <2>1. PICK i \in Bits : a[i] < b[i] /\ SamePrefix(a, b, i)
      BY <1>2 DEF Less
    <2>2. PICK j \in Bits : b[j] < a[j] /\ SamePrefix(b, a, j)
      BY <1>2 DEF Less
    <2>3. QED
      BY <2>1, <2>2 DEF SamePrefix
  <1>3. ASSUME Less(a, b), Less(b, c)
        PROVE  Less(a, c)
    <2>1. PICK i \in Bits : a[i] < b[i] /\ SamePrefix(a, b, i)
      BY <1>3 DEF Less
    <2>2. PICK j \in Bits : b[j] < c[j] /\ SamePrefix(b, c, j)
      BY <1>3 DEF Less
    <2>3. CASE i < j
      <3>1. a[i] < c[i] /\ SamePrefix(a, c, i)
        BY <2>1, <2>2, <2>3 DEF SamePrefix
      <3>2. QED
        BY <3>1 DEF Less
    <2>4. CASE j <= i
      <3>1. a[j] < c[j] /\ SamePrefix(a, c, j)
        BY <2>1, <2>2, <2>4 DEF SamePrefix
      <3>2. QED
        BY <3>1 DEF Less
    <2>5. QED
      BY <2>3, <2>4
  <1>4. ASSUME a # b
        PROVE  Less(a, b) \/ Less(b, a)
    <2> DEFINE m == bdStdDistance(a, b)
    <2>1. m \in NodeId /\ \A i \in Bits : m[i] = IF a[i] = b[i] THEN 0 ELSE 1
      BY DistanceBits
    <2> HIDE DEF m
    <2>2. PICK k \in Bits : a[k] # b[k]
      BY <1>4
    <2>3. m[k] = 1
      BY <2>1, <2>2
    <2>4. PICK i \in Bits : m[i] = 1 /\ \A j \in 0 .. i - 1 : m[j] = 0
      BY <2>1, <2>3, FirstSetBit
    <2>5. SamePrefix(a, b, i) /\ SamePrefix(b, a, i)
      BY <2>1, <2>4 DEF SamePrefix
    <2>6. a[i] # b[i]
      BY <2>1, <2>4
    <2>7. a[i] < b[i] \/ b[i] < a[i]
      BY <2>6
    <2>8. QED
      BY <2>5, <2>7 DEF Less
  <1>5. QED
    BY <1>1, <1>2, <1>3, <1>4

\* A peer that shares the bucket of the target is closer to the target than any
\* peer of another bucket: sorting by bucket and sorting by distance agree.
THEOREM SameBucketIsCloser ==
  ASSUME NEW own \in NodeId, NEW target \in NodeId,
         NEW near \in NodeId, NEW far \in NodeId,
         bdStdBucketDistance(bdStdDistance(own, near))
            = bdStdBucketDistance(bdStdDistance(own, target)),
         bdStdBucketDistance(bdStdDistance(own, far))
            # bdStdBucketDistance(bdStdDistance(own, target))
  PROVE  Less(bdStdDistance(target, near), bdStdDistance(target, far))
  <1> DEFINE ot == bdStdDistance(own, target)
             on == bdStdDistance(own, near)
             of == bdStdDistance(own, far)
             tn == bdStdDistance(target, near)
             tf == bdStdDistance(target, far)
             b  == bdStdBucketDistance(ot)
             c  == bdStdBucketDistance(of)
             k  == KEY_BITLEN - 1 - b
             kf == KEY_BITLEN - 1 - c
  <1>1. /\ ot \in NodeId /\ \A i \in Bits : ot[i] = IF own[i] = target[i] THEN 0 ELSE 1
        /\ on \in NodeId /\ \A i \in Bits : on[i] = IF own[i] = near[i] THEN 0 ELSE 1
        /\ of \in NodeId /\ \A i \in Bits : of[i] = IF own[i] = far[i] THEN 0 ELSE 1
        /\ tn \in NodeId /\ \A i \in Bits : tn[i] = IF target[i] = near[i] THEN 0 ELSE 1
        /\ tf \in NodeId /\ \A i \in Bits : tf[i] = IF target[i] = far[i] THEN 0 ELSE 1
    BY DistanceBits
  <1>2. bdStdBucketDistance(on) = b /\ c # b
    OBVIOUS
  <1> HIDE DEF ot, on, of, tn, tf
  <1>3. /\ b \in 0 .. KEY_BITLEN - 1 /\ c \in 0 .. KEY_BITLEN - 1
        /\ \A j \in 0 .. KEY_BITLEN - 2 - b : ot[j] = 0 /\ on[j] = 0
        /\ b # 0 => ot[k] = 1 /\ on[k] = 1
        /\ \A j \in 0 .. KEY_BITLEN - 2 - c : of[j] = 0
        /\ c # 0 => of[kf] = 1
    BY <1>1, <1>2, BucketBits
  <1> HIDE DEF b, c
  <1>4. k \in Bits /\ kf \in Bits
    BY <1>3, KeyAssumption DEF Bits
  <1>5. \A j \in 0 .. k - 1 : j \in Bits /\ own[j] = target[j] /\ own[j] = near[j]
    BY <1>1, <1>3, KeyAssumption DEF Bits
  <1>6. \A j \in 0 .. kf - 1 : j \in Bits /\ own[j] = far[j]
    BY <1>1, <1>3, KeyAssumption DEF Bits
  <1>7. CASE c > b
    <2>1. kf < k /\ own[kf] # far[kf]
      BY <1>1, <1>3, <1>4, <1>7, KeyAssumption
    <2>2. tn[kf] = 0 /\ tf[kf] = 1
      BY <1>1, <1>4, <1>5, <2>1 DEF Bits
    <2>3. SamePrefix(tn, tf, kf)
      BY <1>1, <1>4, <1>5, <1>6, <2>1 DEF SamePrefix, Bits
    <2>4. QED
      BY <1>4, <2>2, <2>3 DEF Less, tn, tf
  <1>8. CASE c < b
    <2>1. k < kf /\ own[k] # target[k] /\ own[k] # near[k] /\ own[k] = far[k]
      BY <1>1, <1>3, <1>4, <1>6, <1>8, KeyAssumption DEF Bits
    <2>2. tn[k] = 0 /\ tf[k] = 1
      BY <1>1, <1>4, <2>1 DEF NodeId
    <2>3. SamePrefix(tn, tf, k)
      BY <1>1, <1>4, <1>5, <1>6, <2>1 DEF SamePrefix, Bits
    <2>4. QED
      BY <1>4, <2>2, <2>3 DEF Less, tn, tf
  <1>9. QED
    BY <1>2, <1>3, <1>7, <1>8

\* Division keeps the order.
LEMMA DivMonotone ==
  ASSUME NEW i \in Nat, NEW d \in Nat, i <= d, NEW b \in Nat \ {0}
  PROVE  i \div b <= d \div b
  <1>1. /\ i \div b \in Nat /\ d \div b \in Nat
        /\ i % b \in 0 .. b - 1 /\ d % b \in 0 .. b - 1
        /\ i = b * (i \div b) + (i % b) /\ d = b * (d \div b) + (d % b)
    OBVIOUS
  <1>2. QED
    BY <1>1

\* A disguised request asks for a point that is strictly closer to the target than
\* the node it goes to, whatever the random bytes are: they start behind the byte
\* with the first difference (bdStdRandomMidId).
THEOREM MidIdIsCloser ==
  ASSUME NEW target \in NodeId, NEW other \in NodeId, other # target,
         NEW mid \in bdStdRandomMidId(target, other)
  PROVE  /\ mid \in NodeId
         /\ Less(bdStdDistance(target, mid), bdStdDistance(target, other))
  <1> DEFINE dist == bdStdDistance(target, other)
             ByteDiffers(k) == \E i \in Bits : i \div BYTE = k /\ target[i] # other[i]
  <1>1. mid \in NodeId
    BY DEF bdStdRandomMidId
  <1>2. \A i \in Bits :
          (\A k \in Bits : k < i \div BYTE => ~ ByteDiffers(k)) => mid[i] = target[i]
    BY DEF bdStdRandomMidId
  <1>3. PICK k \in Bits : target[k] # other[k]
    BY DEF NodeId
  <1>4. dist \in NodeId /\ dist[k] = 1
    BY <1>3, DistanceBits
  <1>5. PICK d \in Bits : dist[d] = 1 /\ \A j \in 0 .. d - 1 : dist[j] = 0
    BY <1>4, FirstSetBit
  <1>6. \A j \in 0 .. d - 1 : target[j] = other[j]
    BY <1>5, DistanceBits, KeyAssumption DEF Bits
  <1>7. \A i \in 0 .. d : mid[i] = target[i]
    <2> SUFFICES ASSUME NEW i \in 0 .. d PROVE mid[i] = target[i]
      OBVIOUS
    <2>1. i \in Bits
      BY KeyAssumption DEF Bits
    <2>2. ASSUME NEW c \in Bits, c < i \div BYTE PROVE ~ ByteDiffers(c)
      <3> SUFFICES ASSUME NEW j \in Bits, j \div BYTE = c, target[j] # other[j] PROVE FALSE
        OBVIOUS
      <3>1. j \in Nat /\ d \in Nat /\ i \in Nat /\ BYTE \in Nat \ {0}
        BY KeyAssumption DEF Bits
      <3>2. d <= j
        BY <1>6, <3>1 DEF Bits
      <3>3. i <= j
        BY <3>1, <3>2
      <3>4. i \div BYTE <= j \div BYTE
        BY <3>1, <3>3, DivMonotone
      <3>5. i \div BYTE \in Int /\ c \in Int
        BY <3>1 DEF Bits
      <3>6. QED
        BY <2>2, <3>4, <3>5
    <2>3. QED
      BY <1>2, <2>1, <2>2
  <1>8. \A i \in 0 .. d : bdStdDistance(target, mid)[i] = 0
    BY <1>1, <1>7, DistanceBits, KeyAssumption DEF Bits
  <1>9. Less(bdStdDistance(target, mid), dist)
    BY <1>5, <1>8, KeyAssumption DEF Less, SamePrefix, Bits
  <1>10. QED
    BY <1>1, <1>9

\* When the node asked is the target, it is asked for the target itself.
THEOREM MidIdOfTarget ==
  ASSUME NEW target \in NodeId
  PROVE  bdStdRandomMidId(target, target) = {target}
  <1>1. ASSUME NEW mid \in bdStdRandomMidId(target, target) PROVE mid = target
    <2>1. mid \in NodeId /\ \A i \in Bits : mid[i] = target[i]
      BY <1>1 DEF bdStdRandomMidId
    <2>2. QED
      BY <2>1 DEF NodeId
  <1>2. target \in bdStdRandomMidId(target, target)
    BY DEF bdStdRandomMidId
  <1>3. QED
    BY <1>1, <1>2

=============================================================================
