------------------------ MODULE BufferPoolArithmetic ------------------------
(***************************************************************************)
(* Arithmetic of page ids: instance i of n allocates i, i + n, i + 2n, ...,  *)
(* and a page is routed to its id modulo n.                                 *)
(***************************************************************************)
EXTENDS Integers, TLAPS

\* Quotient and remainder.
LEMMA DivMod ==
  ASSUME NEW n \in Int, NEW N \in Nat \ {0}
  PROVE  /\ n % N \in 0 .. (N - 1) /\ n \div N \in Int
         /\ n = N * (n \div N) + (n % N)
BY Z3

\* A positive multiple of N is at least N.
LEMMA AtLeastOneMultiple ==
  ASSUME NEW N \in Nat \ {0}, NEW k \in Int, k >= 1
  PROVE  N * k >= N
BY Z3

\* Multiplication distributes over a difference.
LEMMA Distribute ==
  ASSUME NEW N \in Nat \ {0}, NEW a \in Int, NEW b \in Int
  PROVE  N * (b - a) = N * b - N * a /\ N * a \in Int /\ N * b \in Int
BY Z3

\* A quotient with the same dividend is not smaller.
LEMMA QuotientNotSmaller ==
  ASSUME NEW N \in Nat \ {0}, NEW a \in Int, NEW b \in Int,
         NEW r \in 0 .. (N - 1), NEW s \in 0 .. (N - 1), N * a + r = N * b + s
  PROVE  ~ (a < b)
PROOF
<1> SUFFICES ASSUME a < b PROVE FALSE
  OBVIOUS
<1>1. N * (b - a) >= N
  BY AtLeastOneMultiple, b - a >= 1
<1>2. N * (b - a) = N * b - N * a /\ N * a \in Int /\ N * b \in Int
  BY Distribute
<1> DEFINE x == N * a
           y == N * b
           z == N * (b - a)
<1>3. x + r = y + s /\ z = y - x /\ z >= N /\ x \in Int /\ y \in Int
  BY <1>1, <1>2
<1> HIDE DEF x, y, z
<1> QED BY <1>3

\* The next page id belongs to the same instance.
LEMMA NextSameInstance ==
  ASSUME NEW n \in Nat, NEW N \in Nat \ {0}
  PROVE  (n + N) % N = n % N
PROOF
<1> DEFINE a == n \div N
           r == n % N
           b == (n + N) \div N
           s == (n + N) % N
<1>1. r \in 0 .. (N - 1) /\ n = N * a + r /\ a \in Int
  BY DivMod
<1>2. s \in 0 .. (N - 1) /\ n + N = N * b + s /\ b \in Int
  BY DivMod, n + N \in Int
<1> HIDE DEF a, r, b, s
<1>3. N * (a + 1) = N * a + N /\ N * a \in Int /\ N * b \in Int
  BY <1>1, <1>2, Z3
<1>4. N * (a + 1) + r = N * b + s /\ a + 1 \in Int
  BY <1>1, <1>2, <1>3
<1>5. ~ (a + 1 < b)
  BY <1>1, <1>2, <1>4, QuotientNotSmaller
<1>6. ~ (b < a + 1)
  BY <1>1, <1>2, <1>4, QuotientNotSmaller
<1>7. a + 1 = b
  BY <1>1, <1>2, <1>5, <1>6
<1>8. r = s
  BY <1>1, <1>2, <1>3, <1>4, <1>7
<1> QED BY <1>8 DEF r, s

\* Between two ids of an instance there is no third one.
LEMMA NoneBetween ==
  ASSUME NEW n \in Nat, NEW N \in Nat \ {0}, NEW m \in Nat,
         n <= m, m < n + N, n % N = m % N
  PROVE  n = m
PROOF
<1> DEFINE a == n \div N
           r == n % N
           b == m \div N
           s == m % N
<1>1. r \in 0 .. (N - 1) /\ n = N * a + r /\ a \in Int
  BY DivMod
<1>2. s \in 0 .. (N - 1) /\ m = N * b + s /\ b \in Int /\ r = s
  BY DivMod
<1> HIDE DEF a, r, b, s
<1>3. N * (b - a) = N * b - N * a /\ N * a \in Int /\ N * b \in Int
  BY <1>1, <1>2, Distribute
<1>4. ~ (b > a)
  <2> SUFFICES ASSUME b > a PROVE FALSE
    OBVIOUS
  <2>1. N * (b - a) >= N
    BY <1>1, <1>2, b - a >= 1, AtLeastOneMultiple
  <2> QED BY <1>1, <1>2, <1>3, <2>1
<1>5. ~ (a > b)
  <2> SUFFICES ASSUME a > b PROVE FALSE
    OBVIOUS
  <2>1. N * (a - b) >= N /\ N * (a - b) = N * a - N * b
    BY <1>1, <1>2, a - b >= 1, AtLeastOneMultiple, Distribute
  <2> QED BY <1>1, <1>2, <1>3, <2>1
<1>6. a = b
  BY <1>1, <1>2, <1>4, <1>5
<1> QED BY <1>1, <1>2, <1>3, <1>6


\* A number below N is its own remainder.
LEMMA SmallRemainder ==
  ASSUME NEW N \in Nat \ {0}, NEW n \in Nat, n < N
  PROVE  n % N = n
BY Z3
=============================================================================
