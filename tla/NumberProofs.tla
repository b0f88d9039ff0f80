---------------------------- MODULE NumberProofs ----------------------------
(***************************************************************************)
(* Transaction numbers are counts kept modulo M (uint16_t in the relay,    *)
(* & 0xFFFF in the script): what a number says of the count it stands for. *)
(* And the least number of a set, which stands in for an induction.        *)
(***************************************************************************)
EXTENDS Integers, FiniteSetTheorems, TLAPS

\* Quotient and remainder of a natural number.
LEMMA DivMod ==
    ASSUME NEW M \in Nat \ {0}, NEW a \in Nat
    PROVE  \E p \in Nat : a = M * p + (a % M) /\ a % M \in 0..M - 1
<1>1. a \div M \in Nat /\ a % M \in 0..M - 1 /\ a = M * (a \div M) + (a % M)
  OBVIOUS
<1>2. QED BY <1>1

\* The only multiple of M between -M and M is 0.
LEMMA SmallMultiple ==
    ASSUME NEW M \in Nat \ {0}, NEW x \in Int, -M < M * x, M * x < M
    PROVE  x = 0
<1>1. CASE x >= 1
  <2>1. M * x >= M BY <1>1
  <2>2. QED BY <2>1
<1>2. CASE x <= -1
  <2>1. M * x <= -M BY <1>2
  <2>2. QED BY <2>1
<1>3. QED BY <1>1, <1>2

\* What is left of a multiple of M and a little more.
LEMMA Remainder ==
    ASSUME NEW M \in Nat \ {0}, NEW p \in Nat, NEW r \in 0..M - 1
    PROVE  (M * p + r) % M = r
  OBVIOUS

\* Two transactions with the same number are a turn apart, or one.
LEMMA SameNumber ==
    ASSUME NEW M \in Nat \ {0}, NEW a \in Nat, NEW b \in Nat,
           b <= a, a - b < M, a % M = b % M
    PROVE  a = b
<1>1. PICK p \in Nat : a = M * p + (a % M) /\ a % M \in 0..M - 1
  BY DivMod, Zenon
<1>2. PICK q \in Nat : b = M * q + (b % M) /\ b % M \in 0..M - 1
  BY DivMod, Zenon
<1> DEFINE r == a % M
<1>3. a = M * p + r /\ b = M * q + r /\ r \in Int
  BY <1>1, <1>2
<1> HIDE DEF r
<1>4. M * p \in Int /\ M * q \in Int /\ M * (p - q) = M * p - M * q
  OBVIOUS
<1>5. M * (p - q) = a - b
  BY <1>3, <1>4
<1>6. p - q = 0
  <2>1. -M < M * (p - q) /\ M * (p - q) < M
    BY <1>5
  <2>2. QED BY <2>1, SmallMultiple
<1>7. a - b = 0
  BY <1>5, <1>6
<1>8. QED BY <1>7

\* The next number, kept modulo M, is that of the next transaction.
LEMMA NextNumber ==
    ASSUME NEW M \in Nat \ {0}, NEW a \in Nat
    PROVE  ((a % M) + 1) % M = (a + 1) % M
<1> DEFINE r == a % M
<1>1. PICK p \in Nat : a = M * p + r /\ r \in 0..M - 1
  BY DivMod, Zenon
<1> HIDE DEF r
<1>2. M * p \in Nat /\ M * 0 = 0 /\ M * (p + 1) = M * p + M
  OBVIOUS
<1>3. CASE r + 1 \in 0..M - 1
  <2>1. a + 1 = M * p + (r + 1) /\ M * 0 + (r + 1) = r + 1
    BY <1>1, <1>2
  <2>2. (M * p + (r + 1)) % M = r + 1 /\ (M * 0 + (r + 1)) % M = r + 1
    BY <1>3, Remainder
  <2>3. QED BY <2>1, <2>2 DEF r
<1>4. CASE r + 1 = M
  <2>1. a + 1 = M * (p + 1) + 0 /\ r + 1 = M * 1 + 0
    BY <1>1, <1>2, <1>4
  <2>2. (M * (p + 1) + 0) % M = 0 /\ (M * 1 + 0) % M = 0
    BY Remainder
  <2>3. QED BY <2>1, <2>2 DEF r
<1>5. QED BY <1>1, <1>3, <1>4

\* A set of natural numbers has a least one: the intervals below its members are
\* finite sets, and strict inclusion of finite sets is well founded.
LEMMA LeastNumber ==
    ASSUME NEW T \in SUBSET Nat, T # {}
    PROVE  \E m \in T : \A k \in T : m <= k
<1>1. PICK t \in T : TRUE
  OBVIOUS
<1> DEFINE below == {0..k : k \in {j \in T : j <= t}}
<1>2. IsFiniteSet(0..t)
  BY <1>1, FS_Interval
<1>3. below \subseteq FiniteSubsetsOf(0..t)
  <2>1. ASSUME NEW k \in T, k <= t PROVE 0..k \in FiniteSubsetsOf(0..t)
    <3>1. IsFiniteSet(0..k)
      BY FS_Interval
    <3>2. QED BY <2>1, <3>1 DEF FiniteSubsetsOf
  <2>2. QED BY <2>1
<1>4. 0..t \in below
  OBVIOUS
<1>5. PICK x \in below : \A y \in below : ~(<<y, x>> \in StrictSubsetOrdering(0..t))
  <2> HIDE DEF below
  <2>1. below # {}
    BY <1>4
  <2>2. QED BY <1>2, <1>3, <2>1, FS_StrictSubsetOrderingWellFounded, WFMin
<1>6. PICK m \in T : m <= t /\ x = 0..m
  OBVIOUS
<1>7. ASSUME NEW k \in T PROVE m <= k
  <2>1. SUFFICES ASSUME k < m PROVE FALSE
    OBVIOUS
  <2>2. 0..k \in below
    BY <2>1, <1>6
  <2>3. <<0..k, 0..m>> \in StrictSubsetOrdering(0..t)
    BY <2>1, <1>6 DEF StrictSubsetOrdering
  <2>4. QED BY <2>2, <2>3, <1>5, <1>6
<1>8. QED BY <1>6, <1>7
=============================================================================
