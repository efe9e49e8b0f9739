------------------------------ MODULE bdStdDht ------------------------------
(***************************************************************************)
(* The 160-bit identifier space of bitdht/bdstddht.cc and the comparison   *)
(* operators of bitdht/bdpeer.cc.  A node id is a vector of KEY_BITLEN     *)
(* bits; bit 0 is the most significant bit of byte 0, as the byte loops of *)
(* the source visit them.  Everything here is a pure function, so there is *)
(* no state.                                                               *)
(***************************************************************************)
EXTENDS Integers

CONSTANTS
    KEY_BITLEN,     \* BITDHT_KEY_BITLEN, 160 in the program
    BYTE            \* bits per byte of bdNodeId::data, 8 in the program

ASSUME KeyAssumption ==
    /\ KEY_BITLEN \in Nat \ {0}
    /\ BYTE \in Nat \ {0}

Bits == 0 .. KEY_BITLEN - 1

NodeId == [Bits -> {0, 1}]

\* bdMetric has the layout of bdNodeId and is compared with the same operator<.
Metric == NodeId

bdZeroNodeId == [i \in Bits |-> 0]

\* a and b agree on every bit before i.
SamePrefix(a, b, i) == \A j \in 0 .. i - 1 : a[j] = b[j]

\* operator<(bdNodeId, bdNodeId): the first difference decides.
Less(a, b) == \E i \in Bits : a[i] < b[i] /\ SamePrefix(a, b, i)

\* bdStdDistance: bytewise XOR.
bdStdDistance(a, b) == [i \in Bits |-> (a[i] + b[i]) % 2]

\* Mutant: scans the bits from the wrong end.
BucketDistanceLowBit(m) ==
    IF \E i \in Bits : m[i] = 1
    THEN KEY_BITLEN - 1 - CHOOSE i \in Bits : m[i] = 1 /\ \A j \in Bits : j > i => m[j] = 0
    ELSE 0

\* bdStdBucketDistance: the index of the highest set bit, and 0 when no bit is
\* set, so that bucket 0 holds both distance 0 and distance 1.
bdStdBucketDistance(m) ==
    IF \E i \in Bits : m[i] = 1
    THEN KEY_BITLEN - 1 - CHOOSE i \in Bits : m[i] = 1 /\ \A j \in 0 .. i - 1 : m[j] = 0
    ELSE 0

\* Mutant: stops before the differing byte.
RandomMidIdShort(target, other) ==
    LET ByteDiffers(k) == \E i \in Bits : i \div BYTE = k /\ target[i] # other[i]
    IN {mid \in NodeId :
          \A i \in Bits :
             (\A k \in Bits : k <= i \div BYTE => ~ ByteDiffers(k)) => mid[i] = target[i]}

\* bdStdRandomMidId: the target's bytes up to and including the first byte in
\* which the target differs from the other node; the remaining bits are random.
bdStdRandomMidId(target, other) ==
    LET ByteDiffers(k) == \E i \in Bits : i \div BYTE = k /\ target[i] # other[i]
    IN {mid \in NodeId :
          \A i \in Bits :
             (\A k \in Bits : k < i \div BYTE => ~ ByteDiffers(k)) => mid[i] = target[i]}

=============================================================================
