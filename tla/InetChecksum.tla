---------------------------- MODULE InetChecksum ----------------------------
(***************************************************************************)
(* The Internet checksum that the client and the driver compute over the   *)
(* ICMP part of a packet: 16-bit words added in an unsigned int, two folds *)
(* of the carries, complement. A packet verifies if the sum of its words,  *)
(* checksum included, is a multiple of 65535, the one's-complement zero.   *)
(***************************************************************************)
EXTENDS Integers, TLAPS

Base == 65536

\* What the sum of at most Base words can be; an unsigned int holds it.
IsSum(sum) == sum \in Nat /\ sum <= Base * (Base - 1)

\* sum = (sum >> 16) + (sum & 0xFFFF)
FoldCarries(sum) == (sum \div Base) + (sum % Base)

\* sum += (sum >> 16); result = ~sum, in 16 bits
Checksum(sum) ==
    LET s == FoldCarries(sum)
    IN  (Base - 1) - ((s + (s \div Base)) % Base)

-----------------------------------------------------------------------------
\* Two folds are enough for every length: after the first one the sum has at most
\* one carry, and adding it does not make another.
LEMMA FoldBound ==
    ASSUME NEW sum, IsSum(sum)
    PROVE  /\ FoldCarries(sum) \in Nat /\ FoldCarries(sum) <= 2 * Base - 2
           /\ (sum - FoldCarries(sum)) % (Base - 1) = 0
  <1> DEFINE q == sum \div Base
             r == sum % Base
  <1>1. sum \in Int /\ sum >= 0 /\ sum <= 65536 * 65535
    BY Z3 DEF IsSum, Base
  <1>2. q \in Int /\ r \in Int /\ r >= 0 /\ r <= 65535 /\ sum = 65536 * q + r
    BY <1>1, Z3 DEF Base
  <1> HIDE DEF q, r
  <1>3. q >= 0 /\ q <= 65535
    BY <1>1, <1>2, Z3
  <1>4. FoldCarries(sum) = q + r
    BY Z3 DEF FoldCarries, q, r
  <1>5. sum - FoldCarries(sum) = 65535 * q
    BY <1>1, <1>2, <1>4, Z3
  <1>6. (65535 * q) % 65535 = 0
    BY <1>2, <1>3, Z3
  <1>7. (sum - FoldCarries(sum)) % 65535 = 0
    BY <1>5, <1>6, Z3
  <1> QED
    BY <1>2, <1>3, <1>4, <1>7, Z3 DEF Base

\* The packet with the checksum in place of the zero verifies at the receiver:
\* what the client's challenge and the device's answer carry is right for
\* every content (checksum() of icmp.c and of the driver).
THEOREM ChecksumVerifies ==
    ASSUME NEW sum, IsSum(sum)
    PROVE  /\ Checksum(sum) \in Nat /\ Checksum(sum) < Base
           /\ (sum + Checksum(sum)) % (Base - 1) = 0
  <1> DEFINE s == FoldCarries(sum)
             c == s \div Base
  <1>1. sum \in Int /\ s \in Int /\ s >= 0 /\ s <= 131070 /\ (sum - s) % 65535 = 0
    BY FoldBound, Z3 DEF IsSum, Base
  <1>2. Checksum(sum) = 65535 - ((s + c) % 65536)
    BY Z3 DEF Checksum, Base
  <1>3. CASE s < 65536
    <2>1. c = 0
      BY <1>1, <1>3, Z3 DEF Base
    <2> HIDE DEF s, c
    <2>2. (s + c) % 65536 = s
      BY <1>1, <1>3, <2>1, Z3
    <2>3. (sum + (65535 - s)) % 65535 = 0
      BY <1>1, Z3
    <2> QED
      BY <1>1, <1>2, <1>3, <2>2, <2>3, Z3 DEF Base
  <1>4. CASE s >= 65536
    <2>1. c = 1
      BY <1>1, <1>4, Z3 DEF Base
    <2> HIDE DEF s, c
    <2>2. (s + c) % 65536 = s + 1 - 65536
      BY <1>1, <1>4, <2>1, Z3
    <2>3. (sum + (65535 - (s + 1 - 65536))) % 65535 = 0
      BY <1>1, Z3
    <2> QED
      BY <1>1, <1>2, <1>4, <2>2, <2>3, Z3 DEF Base
  <1> QED
    BY <1>1, <1>3, <1>4, Z3

=============================================================================
