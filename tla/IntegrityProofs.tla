-------------------------- MODULE IntegrityProofs --------------------------
(***************************************************************************)
(* From the field up, for every prime, every number and length of chunks:  *)
(* arithmetic modulo P, linear combinations and spans; the echelon form    *)
(* and the decoder built on it; the packets of both integrity schemes,     *)
(* what is kept of them and how they come off the wire.                    *)
(***************************************************************************)
EXTENDS Integrity, FiniteSetTheorems, WellFoundedInduction, SequenceTheorems, TLAPS

---------------------------------------------------------------------------
\* Induction.  The library's induction theorems take an operator as a parameter; here a
\* property is the set of numbers that have it.

\* A set with 0 in it that is closed under successor holds all natural numbers: the
\* least interval 1 .. n with n outside the set would be that of 0.
LEMMA Induction ==
    ASSUME NEW S, 0 \in S, \A n \in Nat : n \in S => n + 1 \in S
    PROVE  Nat \subseteq S
<1> DEFINE T == {1 .. n : n \in Nat \ S}
           R == StrictSubsetOrdering(Nat)
<1>1. SUFFICES ASSUME Nat \ S # {} PROVE FALSE
      OBVIOUS
<1>2. PICK X \in T : \A Y \in T : <<Y, X>> \notin R
  <2>1. IsWellFoundedOn(R, FiniteSubsetsOf(Nat))
        BY FS_StrictSubsetOrderingWellFounded
  <2>2. T \subseteq FiniteSubsetsOf(Nat)
    <3> SUFFICES ASSUME NEW n \in Nat PROVE 1 .. n \in FiniteSubsetsOf(Nat)
        OBVIOUS
    <3>1. IsFiniteSet(1 .. n) /\ 1 .. n \in SUBSET Nat
          BY FS_Interval
    <3> QED BY <3>1 DEF FiniteSubsetsOf
  <2>3. T # {}
        BY <1>1
  <2> HIDE DEF T, R
  <2> QED BY <2>1, <2>2, <2>3, WFMin
<1>3. PICK n \in Nat \ S : X = 1 .. n
      OBVIOUS
<1>4. n - 1 \in Nat \ S
      BY <1>3
<1>5. <<1 .. n - 1, X>> \in R
  <2>1. 1 .. n - 1 \in SUBSET Nat /\ X \in SUBSET Nat
        BY <1>3
  <2>2. n \in 1 .. n /\ n \notin 1 .. n - 1
        BY <1>4
  <2>3. 1 .. n - 1 \subseteq 1 .. n
        BY <1>3
  <2> QED BY <1>3, <2>1, <2>2, <2>3 DEF StrictSubsetOrdering
<1>6. (1 .. n - 1) \in T
      BY <1>4
<1> QED BY <1>2, <1>5, <1>6

\* A property of 0 .. n, one step at a time.
LEMMA BoundedInduction ==
    ASSUME NEW n \in Nat, NEW S, 0 \in S, \A k \in 0 .. n - 1 : k \in S => k + 1 \in S
    PROVE  0 .. n \subseteq S
<1> DEFINE T == {k \in Nat : k <= n => k \in S}
<1>1. 0 \in T
      OBVIOUS
<1>2. \A k \in Nat : k \in T => k + 1 \in T
      OBVIOUS
<1>3. Nat \subseteq T
  <2> HIDE DEF T
  <2> QED BY <1>1, <1>2, Induction
<1> QED BY <1>3

\* Every non-empty set of numbers has a least member.
LEMMA LeastMember ==
    ASSUME NEW S \in SUBSET Nat, S # {}
    PROVE  \E m \in S : \A k \in S : m <= k
<1> DEFINE T == {n \in Nat : \A k \in S : n <= k}
<1>1. SUFFICES ASSUME \A m \in S : \E k \in S : k < m PROVE FALSE
      OBVIOUS
<1>2. 0 \in T
      OBVIOUS
<1>3. \A n \in Nat : n \in T => n + 1 \in T
      BY <1>1
<1>4. Nat \subseteq T
  <2> HIDE DEF T
  <2> QED BY <1>2, <1>3, Induction
<1>5. PICK s \in S : TRUE
      OBVIOUS
<1>6. s + 1 \in T
      BY <1>4
<1> QED BY <1>5, <1>6

---------------------------------------------------------------------------
\* Arithmetic modulo P.

\* x is a multiple of P away from its remainder, which is in the field.
LEMMA Remainder ==
    ASSUME NEW x \in Int
    PROVE  x % P \in Field /\ \E q \in Int : x = q * P + (x % P)
<1> USE PrimeAssumption
<1>1. x = P * (x \div P) + (x % P) /\ x % P \in 0 .. P - 1 /\ x \div P \in Int
      BY Z3
<1>2. P * (x \div P) = (x \div P) * P
      BY <1>1, Z3
<1> QED BY <1>1, <1>2 DEF Field

\* Nothing but zero is a multiple of P within P of zero.
LEMMA SmallMultiple ==
    ASSUME NEW q \in Int, q * P < P, -P < q * P
    PROVE  q = 0
<1> USE PrimeAssumption
<1>1. q < 1
  <2> SUFFICES ASSUME q >= 1 PROVE FALSE
      OBVIOUS
  <2>1. q * P >= P
        BY Z3
  <2> QED BY <2>1, Z3
<1>2. q > -1
  <2> SUFFICES ASSUME q <= -1 PROVE FALSE
      OBVIOUS
  <2> DEFINE p == 0 - q
  <2>1. p \in Int /\ p >= 1 /\ q = 0 - p
        OBVIOUS
  <2> HIDE DEF p
  <2>2. p * P >= P
        BY <2>1, Z3
  <2>3. q * P = 0 - p * P
        BY <2>1, Z3
  <2>4. q * P \in Int /\ p * P \in Int /\ P \in Int
        BY <2>1
  <2> QED BY <2>2, <2>3, <2>4
<1> QED BY <1>1, <1>2

\* The remainder is the one number of the field a multiple of P away.
LEMMA RemainderUnique ==
    ASSUME NEW x \in Int, NEW q \in Int, NEW r \in Field, x = q * P + r
    PROVE  x % P = r
<1> USE PrimeAssumption
<1>1. PICK p \in Int : x = p * P + (x % P)
      BY Remainder
<1>2. x % P \in Field
      BY Remainder
<1> DEFINE s == x % P
<1> HIDE DEF s
<1>3. s \in Int /\ r \in Int /\ s < P /\ r < P /\ 0 <= s /\ 0 <= r
      BY <1>2 DEF Field, s
<1>4. (q - p) * P = s - r
      BY <1>1, <1>3, Z3 DEF s
<1>5. q - p = 0
  <2>1. s - r < P /\ -P < s - r
        BY <1>3
  <2>2. q - p \in Int
        OBVIOUS
  <2> QED BY <1>4, <2>1, <2>2, SmallMultiple
<1>6. (q - p) * P = 0
      BY <1>5
<1> QED BY <1>3, <1>4, <1>6 DEF s

\* Multiples of P do not change a remainder.
LEMMA AddMultiple ==
    ASSUME NEW x \in Int, NEW q \in Int
    PROVE  (x + q * P) % P = x % P
<1> USE PrimeAssumption
<1>1. PICK p \in Int : x = p * P + (x % P)
      BY Remainder
<1>2. x % P \in Field
      BY Remainder
<1> DEFINE r == x % P
<1>3. r \in Int
      BY <1>2 DEF Field
<1> HIDE DEF r
<1>4. p * P + q * P = (p + q) * P /\ p * P \in Int /\ q * P \in Int /\ p + q \in Int
      BY Z3
<1>5. x + q * P = (p + q) * P + r
      BY <1>1, <1>3, <1>4 DEF r
<1>6. x + q * P \in Int
      BY <1>4
<1> QED BY <1>2, <1>4, <1>5, <1>6, RemainderUnique DEF r

\* A member of the field is its own remainder.
LEMMA InField ==
    /\ 0 \in Field /\ 1 \in Field
    /\ \A x \in Field : x \in Int /\ x % P = x
<1>1. 0 \in Field /\ 1 \in Field /\ P \in Int
      BY PrimeAssumption DEF Field
<1>2. PICK q \in Int : q * P = 0
  <2>1. 0 * P = 0 /\ 0 \in Int
        BY <1>1
  <2> QED BY <2>1
<1>3. ASSUME NEW x \in Field PROVE x \in Int /\ x % P = x
  <2>1. x \in Int
        BY <1>1 DEF Field
  <2>2. x = q * P + x
        BY <1>2, <2>1
  <2> QED BY <2>1, <2>2, RemainderUnique
<1> QED BY <1>1, <1>3

\* Remainders may be taken before or after an operation.
LEMMA ModOps ==
    ASSUME NEW a \in Int, NEW b \in Int
    PROVE  /\ ((a % P) + b) % P = (a + b) % P
           /\ ((a % P) - b) % P = (a - b) % P
           /\ (b - (a % P)) % P = (b - a) % P
           /\ ((a % P) * b) % P = (a * b) % P
           /\ (b * (a % P)) % P = (b * a) % P
<1>0. P \in Int
      BY PrimeAssumption
<1>1. PICK q \in Int : a = q * P + (a % P)
      BY Remainder
<1>2. a % P \in Int
      BY Remainder, InField
<1> DEFINE r == a % P
<1> HIDE DEF r
<1>3. r \in Int /\ q * P \in Int /\ a = q * P + r
      BY <1>0, <1>1, <1>2 DEF r
<1>4. (r + b) % P = (a + b) % P
  <2>1. a + b = (r + b) + q * P /\ r + b \in Int
        BY <1>3
  <2>2. ((r + b) + q * P) % P = (r + b) % P
        BY <2>1, AddMultiple
  <2> QED BY <2>1, <2>2
<1>5. (r - b) % P = (a - b) % P
  <2>1. a - b = (r - b) + q * P /\ r - b \in Int
        BY <1>3
  <2>2. ((r - b) + q * P) % P = (r - b) % P
        BY <2>1, AddMultiple
  <2> QED BY <2>1, <2>2
<1>6. (b - r) % P = (b - a) % P
  <2>1. (b - r) = (b - a) + q * P /\ b - a \in Int
        BY <1>3
  <2>2. ((b - a) + q * P) % P = (b - a) % P
        BY <2>1, AddMultiple
  <2> QED BY <2>1, <2>2
<1>7. (r * b) % P = (a * b) % P
  <2>1. a * b = r * b + (q * b) * P
        BY <1>0, <1>3, Z3
  <2>2. r * b \in Int /\ q * b \in Int
        BY <1>3, Z3
  <2>3. (r * b + (q * b) * P) % P = (r * b) % P
        BY <2>2, AddMultiple
  <2> QED BY <2>1, <2>3
<1>8. r * b = b * r /\ a * b = b * a
      BY <1>3, Z3
<1> QED BY <1>4, <1>5, <1>6, <1>7, <1>8 DEF r

\* A scaled sum and a scaled difference, with remainders in all places.
LEMMA ModScaled ==
    ASSUME NEW a \in Int, NEW b \in Int, NEW c \in Int
    PROVE  /\ ((a % P) + c * (b % P)) % P = (a + c * b) % P
           /\ ((a % P) - c * (b % P)) % P = (a - c * b) % P
<1> DEFINE s == b % P
           t == c * s
           u == c * b
<1>1. s \in Int /\ t \in Int /\ u \in Int
  <2>1. s \in Int
        BY Remainder, InField
  <2> HIDE DEF s
  <2> QED BY <2>1, Z3
<1>2. t % P = u % P
      BY ModOps
<1> HIDE DEF s, t, u
<1>3. ((a % P) + t) % P = (a + t) % P /\ ((a % P) - t) % P = (a - t) % P
      BY <1>1, ModOps
<1>4. (a + t) % P = (a + u) % P
  <2>1. ((t % P) + a) % P = (t + a) % P /\ ((u % P) + a) % P = (u + a) % P
        BY <1>1, ModOps
  <2>2. t + a = a + t /\ u + a = a + u
        BY <1>1
  <2> QED BY <1>2, <2>1, <2>2
<1>5. (a - t) % P = (a - u) % P
  <2>1. (a - (t % P)) % P = (a - t) % P /\ (a - (u % P)) % P = (a - u) % P
        BY <1>1, ModOps
  <2> QED BY <1>2, <2>1
<1> QED BY <1>3, <1>4, <1>5 DEF s, t, u

\* Two members of the field with the same remainder of their difference are the same.
LEMMA SameRemainder ==
    ASSUME NEW x \in Field, NEW y \in Field, (x - y) % P = 0
    PROVE  x = y
<1>1. x \in Int /\ y \in Int /\ x < P /\ y < P /\ 0 <= x /\ 0 <= y /\ P \in Int
      BY PrimeAssumption DEF Field
<1>2. PICK q \in Int : x - y = q * P + ((x - y) % P)
  <2> DEFINE d == x - y
  <2>1. d \in Int
        BY <1>1
  <2> HIDE DEF d
  <2>2. \E q \in Int : d = q * P + (d % P)
        BY <2>1, Remainder
  <2> QED BY <2>2 DEF d
<1>3. x - y = q * P
  <2>1. q * P \in Int
        BY <1>1
  <2> QED BY <1>2, <2>1
<1>4. q = 0
      BY <1>1, <1>3, SmallMultiple
<1>5. q * P = 0
      BY <1>1, <1>4
<1> QED BY <1>1, <1>3, <1>5

\* A prime divides no product of two smaller numbers: the least m with P dividing m * x
\* would leave a remainder of P that is smaller.
LEMMA NoZeroDivisors ==
    ASSUME NEW x \in Field, NEW y \in Field, (x * y) % P = 0
    PROVE  x = 0 \/ y = 0
<1> SUFFICES ASSUME x # 0, y # 0 PROVE FALSE
    OBVIOUS
<1>1. /\ P \in Nat /\ P > 1 /\ x \in Nat /\ y \in Nat /\ x > 0 /\ y > 0 /\ x < P /\ y < P
      /\ x % P = x /\ 0 % P = 0
      BY PrimeAssumption, InField DEF Field
<1> DEFINE S == {k \in Nat \ {0} : (k * x) % P = 0}
<1>2. y \in S
  <2>1. x * y = y * x
        BY <1>1, Z3
  <2> QED BY <1>1, <2>1
<1>3. PICK m \in S : \A k \in S : m <= k
  <2>1. S \in SUBSET Nat /\ S # {}
        BY <1>2
  <2> HIDE DEF S
  <2> QED BY <2>1, LeastMember
<1>4. m \in Nat \ {0} /\ m <= y /\ (m * x) % P = 0
      BY <1>2, <1>3
<1>5. m # 1
      BY <1>1, <1>4
<1>6. m \in 2 .. P - 1
      BY <1>1, <1>4, <1>5
<1>7. P % m # 0
      BY <1>6, PrimeAssumption
<1> DEFINE r == P % m
           q == P \div m
<1>8. r \in Nat /\ r < m /\ q \in Int /\ P = m * q + r
      BY <1>1, <1>4, Z3
<1> HIDE DEF r, q
<1>9. r \in Nat \ {0}
      BY <1>7, <1>8 DEF r
<1>10. (r * x) % P = 0
  <2> DEFINE w == m * x
             z == q * w
  <2>1. w \in Int /\ z \in Int
    <3>1. w \in Int
          BY <1>1, <1>4, Z3
    <3> HIDE DEF w
    <3> QED BY <1>8, <3>1, Z3
  <2>2. z % P = 0
    <3>1. (q * (w % P)) % P = (q * w) % P
          BY <1>8, <2>1, ModOps
    <3>2. w % P = 0
          BY <1>4
    <3> HIDE DEF w
    <3>3. q * (w % P) = 0
          BY <1>8, <3>2
    <3> QED BY <1>1, <3>1, <3>3
  <2>3. r * x = x * P - z
    <3>1. x * P = x * (m * q + r)
          BY <1>8
    <3>2. x * (m * q + r) = q * (m * x) + r * x
          BY <1>1, <1>4, <1>8, Z3
    <3>3. r * x \in Int
          BY <1>1, <1>8, Z3
    <3> QED BY <2>1, <3>1, <3>2, <3>3
  <2> HIDE DEF w, z
  <2>4. (0 - z) % P = 0
    <3>1. (0 - (z % P)) % P = (0 - z) % P
          BY <2>1, ModOps
    <3> QED BY <1>1, <2>2, <3>1
  <2>5. ((0 - z) + x * P) % P = (0 - z) % P
    <3> DEFINE u == 0 - z
    <3>1. u \in Int /\ x \in Int
          BY <1>1, <2>1
    <3> HIDE DEF u
    <3>2. (u + x * P) % P = u % P
          BY <3>1, AddMultiple
    <3> QED BY <3>2 DEF u
  <2>6. (0 - z) + x * P = x * P - z
    <3>1. x * P \in Int
          BY <1>1, Z3
    <3> QED BY <2>1, <3>1
  <2> QED BY <2>3, <2>4, <2>5, <2>6
<1>11. r \in S
      BY <1>9, <1>10
<1> HIDE DEF S
<1> QED BY <1>3, <1>4, <1>8, <1>9, <1>11

\* Every member of the field but zero has an inverse: multiplication by it is injective
\* on a finite set, so it meets one.
LEMMA Inverses ==
    ASSUME NEW x \in NonZero
    PROVE  Inv(x) \in NonZero /\ (x * Inv(x)) % P = 1
<1>1. x \in Field /\ x # 0 /\ x \in Int
      BY InField DEF NonZero
<1> DEFINE f == [k \in Field |-> (x * k) % P]
<1>2. f \in [Field -> Field]
  <2> SUFFICES ASSUME NEW k \in Field PROVE (x * k) % P \in Field
      OBVIOUS
  <2>1. x * k \in Int
        BY <1>1, InField, Z3
  <2> QED BY <2>1, Remainder
<1>3. ASSUME NEW j \in Field, NEW k \in Field, f[j] = f[k] PROVE j = k
  <2>1. j \in Int /\ k \in Int /\ (x * j) % P = (x * k) % P
        BY <1>3, InField
  <2> DEFINE a == x * j
             b == x * k
             d == (j - k) % P
  <2>2. a \in Int /\ b \in Int /\ d \in Field /\ d \in Int /\ a - b = x * (j - k)
    <3>1. a \in Int /\ b \in Int /\ a - b = x * (j - k)
          BY <1>1, <2>1, Z3
    <3>2. d \in Field
          BY <2>1, Remainder
    <3> QED BY <3>1, <3>2, InField
  <2>3. (a - b) % P = 0
    <3>1. ((a % P) - b) % P = (a - b) % P /\ ((a % P) - (b % P)) % P = ((a % P) - b) % P
      <4>1. a % P \in Int
            BY <2>2, Remainder, InField
      <4> HIDE DEF a, b
      <4> QED BY <2>2, <4>1, ModOps
    <3>2. (a % P) - (b % P) = 0 /\ 0 % P = 0
      <4>1. b % P \in Int
            BY <2>2, Remainder, InField
      <4> QED BY <2>1, <4>1, InField
    <3> QED BY <3>1, <3>2
  <2>4. (x * d) % P = 0
    <3>1. (x * ((j - k) % P)) % P = (x * (j - k)) % P
          BY <1>1, <2>1, ModOps
    <3> QED BY <2>2, <2>3, <3>1
  <2>5. d = 0
        BY <1>1, <2>2, <2>4, NoZeroDivisors
  <2> QED BY <2>5, SameRemainder
<1>4. f \in Surjection(Field, Field)
  <2>1. f \in Injection(Field, Field)
        BY <1>2, <1>3 DEF Injection, IsInjective
  <2>2. IsFiniteSet(Field)
        BY PrimeAssumption, FS_Interval DEF Field
  <2> HIDE DEF f
  <2> QED BY <2>1, <2>2, FS_Injection
<1>5. PICK y \in Field : f[y] = 1
      BY <1>4, InField DEF Surjection
<1>6. (x * y) % P = 1
      BY <1>5
<1>7. Inv(x) \in Field /\ (x * Inv(x)) % P = 1
      BY <1>6 DEF Inv
<1>8. Inv(x) # 0
  <2> SUFFICES ASSUME Inv(x) = 0 PROVE FALSE
      OBVIOUS
  <2>1. x * Inv(x) = 0
        BY <1>1
  <2>2. 0 % P = 0
        BY InField
  <2> QED BY <1>7, <2>1, <2>2
<1> QED BY <1>7, <1>8 DEF NonZero

---------------------------------------------------------------------------
\* Folds.  A fold over 1 .. n is a function over the subsets of 1 .. n, which takes the
\* greatest index off at every step; here are the facts that make it computable in
\* proofs, for a step that is a function g.

\* The greatest member of a set of numbers up to k, when k is one of them.
LEMMA MaxIsLast ==
    ASSUME NEW k \in Nat, NEW s \in SUBSET (1 .. k), k \in s
    PROVE  Max(s) = k
<1>1. \A y \in s : y \in Nat /\ k >= y
      OBVIOUS
<1>2. \A x \in s : (\A y \in s : x >= y) => x = k
      BY <1>1
<1> QED BY <1>1, <1>2, Zenon DEF Max

\* The greatest member of a non-empty set of numbers is one of them.
LEMMA MaxMember ==
    ASSUME NEW n \in Nat, NEW s \in SUBSET (1 .. n), s # {}
    PROVE  Max(s) \in s
<1> DEFINE T == {n - k : k \in s}
<1>1. PICK m \in T : \A k \in T : m <= k
  <2>1. \A k \in s : n - k \in Nat
        OBVIOUS
  <2>2. T \in SUBSET Nat
        BY <2>1
  <2>3. T # {}
        OBVIOUS
  <2> HIDE DEF T
  <2> QED BY <2>2, <2>3, LeastMember
<1>2. PICK x \in s : m = n - x
      OBVIOUS
<1>3. \A y \in s : x >= y
  <2> SUFFICES ASSUME NEW y \in s PROVE x >= y
      OBVIOUS
  <2>1. n - y \in T
        OBVIOUS
  <2>2. n - x <= n - y
        BY <1>1, <1>2, <2>1
  <2>3. x \in Nat /\ y \in Nat
        OBVIOUS
  <2> QED BY <2>2, <2>3
<1> QED BY <1>3, Zenon DEF Max

\* it computes the fold of g over 1 .. n from base, with results in V.
IsFold(it, V, base, g, n) ==
    /\ it \in [SUBSET (1 .. n) -> V]
    /\ \A s \in SUBSET (1 .. n) :
           it[s] = IF s = {} THEN base ELSE g[<<it[s \ {Max(s)}], Max(s)>>]

\* There is a function that computes the fold.
LEMMA FoldExists ==
    ASSUME NEW V, NEW base \in V, NEW n \in Nat, NEW g \in [V \X (1 .. n) -> V]
    PROVE  \E it : IsFold(it, V, base, g, n)
<1> DEFINE Computes(it, k) ==
               /\ it \in [SUBSET (1 .. k) -> V]
               /\ \A s \in SUBSET (1 .. k) :
                      it[s] = IF s = {} THEN base ELSE g[<<it[s \ {Max(s)}], Max(s)>>]
           S == {k \in 0 .. n : \E it : Computes(it, k)}
<1>1. 0 \in S
  <2> DEFINE it == [s \in SUBSET (1 .. 0) |-> base]
  <2>1. \A s \in SUBSET (1 .. 0) : s = {}
        OBVIOUS
  <2>2. Computes(it, 0)
        BY <2>1
  <2> HIDE DEF Computes
  <2> QED BY <2>2
<1>2. ASSUME NEW k \in 0 .. n - 1, k \in S PROVE k + 1 \in S
  <2>1. PICK it : Computes(it, k)
        BY <1>2
  <2> DEFINE m == k + 1
             new == [s \in SUBSET (1 .. m) |->
                        IF m \in s THEN g[<<it[s \ {m}], m>>] ELSE it[s]]
  <2>2. k \in Nat /\ m \in Nat /\ m \in 1 .. n /\ 1 .. k \subseteq 1 .. m /\ m \notin 1 .. k
        OBVIOUS
  <2>3. \A s \in SUBSET (1 .. m) :
            /\ m \in s => s \ {m} \in SUBSET (1 .. k)
            /\ m \notin s => s \in SUBSET (1 .. k)
        OBVIOUS
  <2> HIDE DEF m
  <2>4. new \in [SUBSET (1 .. m) -> V]
        BY <2>1, <2>2, <2>3
  <2>5. ASSUME NEW s \in SUBSET (1 .. m)
        PROVE  new[s] = IF s = {} THEN base ELSE g[<<new[s \ {Max(s)}], Max(s)>>]
    <3>1. CASE m \in s
      <4>1. Max(s) = m
            BY <2>2, <3>1, MaxIsLast
      <4>2. s \ {m} \in SUBSET (1 .. k) /\ s \ {m} \in SUBSET (1 .. m) /\ m \notin s \ {m}
            BY <2>2, <2>3, <3>1
      <4>3. new[s \ {m}] = it[s \ {m}] /\ new[s] = g[<<it[s \ {m}], m>>]
            BY <3>1, <4>2
      <4> QED BY <3>1, <4>1, <4>3
    <3>2. CASE m \notin s
      <4>1. s \in SUBSET (1 .. k)
            BY <2>3, <3>2
      <4> DEFINE r == s \ {Max(s)}
      <4>2. r \in SUBSET (1 .. k) /\ r \in SUBSET (1 .. m) /\ m \notin r
            BY <2>2, <4>1, <3>2
      <4>3. new[r] = it[r] /\ new[s] = it[s]
            BY <3>2, <4>2
      <4>4. it[s] = IF s = {} THEN base ELSE g[<<it[r], Max(s)>>]
            BY <2>1, <4>1
      <4> HIDE DEF new
      <4> QED BY <4>3, <4>4
    <3> QED BY <3>1, <3>2
  <2>6. Computes(new, m)
        BY <2>4, <2>5
  <2> HIDE DEF Computes, new
  <2> QED BY <2>2, <2>6 DEF m
<1>3. n \in S
  <2> HIDE DEF S
  <2>1. 0 .. n \subseteq S
        BY <1>1, <1>2, BoundedInduction
  <2> QED BY <2>1
<1> QED BY <1>3 DEF IsFold

\* On the intervals 1 .. k the fold takes one step for every index, in order.
LEMMA FoldSteps ==
    ASSUME NEW k \in Nat \ {0}
    PROVE  /\ Max(1 .. k) = k /\ (1 .. k) \ {k} = 1 .. k - 1 /\ 1 .. k # {}
           /\ 1 .. 0 = {}
<1>1. Max(1 .. k) = k
      BY MaxIsLast
<1>2. k \in 1 .. k
      OBVIOUS
<1> QED BY <1>1, <1>2

\* fold, a function over sets of indices, takes the steps of g from any of its results;
\* c is the chain of such results, up to the fold's.
TakesSteps(fold, V, base, g, n) ==
    /\ fold[{}] = base
    /\ \A k \in 1 .. n : fold[1 .. k - 1] \in V => fold[1 .. k] = g[<<fold[1 .. k - 1], k>>]
IsChain(c, fold, V, base, g, n) ==
    /\ c \in [0 .. n -> V] /\ c[0] = base /\ c[n] = fold[1 .. n]
    /\ \A k \in 1 .. n : c[k] = g[<<c[k - 1], k>>]

\* A computed fold takes its steps in order and stays among its results, when each of
\* its steps from one of them is that of g.
LEMMA FoldChain ==
    ASSUME NEW V, NEW base \in V, NEW n \in Nat, NEW g \in [V \X (1 .. n) -> V], NEW fold,
           TakesSteps(fold, V, base, g, n)
    PROVE  \E c : IsChain(c, fold, V, base, g, n)
<1>0. /\ fold[{}] = base
      /\ \A k \in 1 .. n : fold[1 .. k - 1] \in V => fold[1 .. k] = g[<<fold[1 .. k - 1], k>>]
      BY DEF TakesSteps
<1> DEFINE c == [k \in 0 .. n |-> fold[1 .. k]]
           S == {k \in 0 .. n : c[k] \in V}
<1>1. c[0] = base
  <2>1. 0 \in 0 .. n /\ 1 .. 0 = {}
        OBVIOUS
  <2> QED BY <1>0, <2>1
<1>2. ASSUME NEW k \in 0 .. n - 1, k \in S PROVE k + 1 \in S
  <2>1. k + 1 \in 1 .. n /\ (k + 1) - 1 = k /\ k \in 0 .. n /\ k + 1 \in 0 .. n
        OBVIOUS
  <2>2. fold[1 .. k] \in V
        BY <1>2
  <2>3. fold[1 .. (k + 1) - 1] \in V => fold[1 .. k + 1] = g[<<fold[1 .. (k + 1) - 1], k + 1>>]
        BY <1>0, <2>1
  <2>4. fold[1 .. k + 1] = g[<<fold[1 .. k], k + 1>>]
        BY <2>1, <2>2, <2>3
  <2>5. <<fold[1 .. k], k + 1>> \in V \X (1 .. n)
        BY <2>1, <2>2
  <2> QED BY <2>1, <2>4, <2>5
<1>3. 0 .. n \subseteq S
  <2>1. 0 \in S
        BY <1>1
  <2> HIDE DEF S
  <2> QED BY <1>2, <2>1, BoundedInduction
<1>4. c \in [0 .. n -> V]
      BY <1>3
<1>5. ASSUME NEW k \in 1 .. n PROVE c[k] = g[<<c[k - 1], k>>]
  <2>1. k \in 0 .. n /\ k - 1 \in 0 .. n
        OBVIOUS
  <2> QED BY <1>0, <1>3, <2>1
<1>6. c[n] = fold[1 .. n]
      OBVIOUS
<1> HIDE DEF c
<1> QED BY <1>1, <1>4, <1>5, <1>6 DEF IsChain

---------------------------------------------------------------------------
\* Sums modulo P.

\* The sum of the first k terms, for k up to the length.
Part(t, k) == ModSum([l \in 1 .. k |-> t[l]])

\* A sum is the last of a chain of partial sums.
LEMMA ModSumChain ==
    ASSUME NEW n \in Nat, NEW t \in [1 .. n -> Int]
    PROVE  \E c \in [0 .. n -> Field] :
               /\ c[0] = 0 /\ c[n] = ModSum(t)
               /\ \A k \in 1 .. n : c[k] = (c[k - 1] + t[k]) % P
<1> DEFINE Computes(iter) ==
               iter = [s \in SUBSET DOMAIN t |->
                           IF s = {} THEN 0 ELSE (iter[s \ {Max(s)}] + t[Max(s)]) % P]
           fold == CHOOSE iter : Computes(iter)
           g == [x \in Field \X (1 .. n) |-> (x[1] + t[x[2]]) % P]
<1>1. ModSum(t) = fold[DOMAIN t]
      BY Zenon DEF ModSum, FoldLeft, MapThenFoldSet
<1>2. g \in [Field \X (1 .. n) -> Field]
  <2> SUFFICES ASSUME NEW x \in Field \X (1 .. n) PROVE (x[1] + t[x[2]]) % P \in Field
      OBVIOUS
  <2>1. x[1] \in Field /\ x[2] \in 1 .. n
        OBVIOUS
  <2>2. x[1] + t[x[2]] \in Int
        BY <2>1, InField
  <2> QED BY <2>2, Remainder
<1>3. PICK it : IsFold(it, Field, 0, g, n)
  <2>1. 0 \in Field
        BY InField
  <2> HIDE DEF g
  <2> QED BY <1>2, <2>1, FoldExists
<1>4. \A s \in SUBSET (1 .. n) : s # {} => Max(s) \in 1 .. n /\ s \ {Max(s)} \in SUBSET (1 .. n)
  <2> SUFFICES ASSUME NEW s \in SUBSET (1 .. n), s # {} PROVE Max(s) \in 1 .. n
      OBVIOUS
  <2>1. Max(s) \in s
        BY MaxMember
  <2> QED BY <2>1
<1>5. Computes(it)
  <2>1. it \in [SUBSET (1 .. n) -> Field]
        BY <1>3 DEF IsFold
  <2>2. ASSUME NEW s \in SUBSET (1 .. n)
        PROVE  it[s] = IF s = {} THEN 0 ELSE (it[s \ {Max(s)}] + t[Max(s)]) % P
    <3>1. it[s] = IF s = {} THEN 0 ELSE g[<<it[s \ {Max(s)}], Max(s)>>]
          BY <1>3 DEF IsFold
    <3> QED BY <1>4, <2>1, <3>1
  <2> QED BY <2>1, <2>2
<1>6. Computes(fold)
  <2> HIDE DEF Computes
  <2> QED BY <1>5, Zenon
<1>7. \A s \in SUBSET (1 .. n) :
          fold[s] = IF s = {} THEN 0 ELSE (fold[s \ {Max(s)}] + t[Max(s)]) % P
  <2> HIDE DEF fold
  <2> QED BY <1>6
<1> HIDE DEF Computes, fold
<1> DEFINE c == [k \in 0 .. n |-> fold[1 .. k]]
<1>8. c[0] = 0
  <2>1. 1 .. 0 = {} /\ 1 .. 0 \in SUBSET (1 .. n) /\ 0 \in 0 .. n
        OBVIOUS
  <2>2. fold[1 .. 0] = 0
        BY <1>7, <2>1
  <2> QED BY <2>1, <2>2
<1>9. \A k \in 1 .. n : c[k] = (c[k - 1] + t[k]) % P
  <2> SUFFICES ASSUME NEW k \in 1 .. n PROVE c[k] = (c[k - 1] + t[k]) % P
      OBVIOUS
  <2>1. Max(1 .. k) = k /\ (1 .. k) \ {k} = 1 .. k - 1 /\ 1 .. k # {}
    <3>1. k \in Nat \ {0}
          OBVIOUS
    <3> QED BY <3>1, FoldSteps, Zenon
  <2>2. 1 .. k \in SUBSET (1 .. n) /\ k - 1 \in 0 .. n /\ k \in 0 .. n
        OBVIOUS
  <2> QED BY <1>7, <2>1, <2>2
<1>10. c \in [0 .. n -> Field]
  <2> DEFINE S == {j \in 0 .. n : c[j] \in Field}
  <2>1. 0 \in S
        BY <1>8, InField
  <2>2. ASSUME NEW j \in 0 .. n - 1, j \in S PROVE j + 1 \in S
    <3> DEFINE u == c[j] + t[j + 1]
    <3>1. c[j] \in Field /\ j + 1 \in 1 .. n /\ j + 1 \in 0 .. n /\ (j + 1) - 1 = j
          BY <2>2
    <3>2. u \in Int
          BY <3>1, InField
    <3> HIDE DEF c
    <3>3. c[j + 1] = u % P
          BY <1>9, <3>1
    <3>4. c[j + 1] \in Field
      <4> HIDE DEF u
      <4> QED BY <3>2, <3>3, Remainder
    <3> QED BY <3>1, <3>4
  <2>3. 0 .. n \subseteq S
    <3> HIDE DEF S
    <3> QED BY <2>1, <2>2, BoundedInduction
  <2> QED BY <2>3
<1>11. c[n] = ModSum(t)
      BY <1>1
<1> HIDE DEF c
<1> QED BY <1>8, <1>9, <1>10, <1>11

\* The partial sums, one from another.
LEMMA PartSteps ==
    ASSUME NEW n \in Nat, NEW t \in [1 .. n -> Int]
    PROVE  /\ Part(t, 0) = 0 /\ Part(t, n) = ModSum(t)
           /\ \A k \in 0 .. n : Part(t, k) \in Field
           /\ \A k \in 1 .. n : Part(t, k) = (Part(t, k - 1) + t[k]) % P
<1>1. PICK c \in [0 .. n -> Field] :
          /\ c[0] = 0 /\ c[n] = ModSum(t)
          /\ \A k \in 1 .. n : c[k] = (c[k - 1] + t[k]) % P
      BY ModSumChain
<1>2. ASSUME NEW m \in 0 .. n PROVE Part(t, m) = c[m]
  <2> DEFINE s == [l \in 1 .. m |-> t[l]]
  <2>1. s \in [1 .. m -> Int] /\ m \in Nat
        OBVIOUS
  <2>2. PICK d \in [0 .. m -> Field] :
            /\ d[0] = 0 /\ d[m] = ModSum(s)
            /\ \A k \in 1 .. m : d[k] = (d[k - 1] + s[k]) % P
    <3> HIDE DEF s
    <3> QED BY <2>1, ModSumChain
  <2> DEFINE S == {k \in 0 .. m : d[k] = c[k]}
  <2>3. 0 \in S
        BY <1>1, <2>2
  <2>4. ASSUME NEW k \in 0 .. m - 1, k \in S PROVE k + 1 \in S
    <3>1. /\ k + 1 \in 1 .. m /\ k + 1 \in 1 .. n /\ k + 1 \in 0 .. m /\ (k + 1) - 1 = k
          /\ d[k] = c[k]
          BY <2>4
    <3>2. d[k + 1] = (d[k] + s[k + 1]) % P
          BY <2>2, <3>1
    <3>3. c[k + 1] = (c[k] + t[k + 1]) % P
          BY <1>1, <3>1
    <3>4. s[k + 1] = t[k + 1]
          BY <3>1
    <3> HIDE DEF s
    <3>5. d[k + 1] = c[k + 1]
          BY <3>1, <3>2, <3>3, <3>4, Zenon
    <3> QED BY <3>1, <3>5
  <2>5. 0 .. m \subseteq S
    <3> HIDE DEF S
    <3> QED BY <2>1, <2>3, <2>4, BoundedInduction
  <2>6. d[m] = c[m]
        BY <2>1, <2>5
  <2> HIDE DEF s
  <2> QED BY <2>2, <2>6 DEF Part, s
<1>3. \A k \in 1 .. n : k \in 0 .. n /\ k - 1 \in 0 .. n
      OBVIOUS
<1>4. 0 \in 0 .. n /\ n \in 0 .. n
      OBVIOUS
<1> QED BY <1>1, <1>2, <1>3, <1>4

\* Sums agree when their terms do.
LEMMA SumEqual ==
    ASSUME NEW n \in Nat, NEW s, NEW t, \A l \in 1 .. n : s[l] = t[l]
    PROVE  ModSum([l \in 1 .. n |-> s[l]]) = ModSum([l \in 1 .. n |-> t[l]])
<1>1. [l \in 1 .. n |-> s[l]] = [l \in 1 .. n |-> t[l]]
      OBVIOUS
<1> QED BY <1>1, Zenon

\* A sum of one term more.
LEMMA SumSnoc ==
    ASSUME NEW n \in Nat, NEW t \in [1 .. n + 1 -> Int]
    PROVE  ModSum(t) = (ModSum([l \in 1 .. n |-> t[l]]) + t[n + 1]) % P
<1>1. n + 1 \in Nat /\ n + 1 \in 1 .. n + 1 /\ (n + 1) - 1 = n
      OBVIOUS
<1>2. Part(t, n + 1) = ModSum(t) /\ Part(t, n + 1) = (Part(t, (n + 1) - 1) + t[n + 1]) % P
      BY <1>1, PartSteps
<1> QED BY <1>1, <1>2 DEF Part

\* A sum is in the field, and the empty one is zero.
LEMMA SumType ==
    ASSUME NEW n \in Nat, NEW t \in [1 .. n -> Int]
    PROVE  ModSum(t) \in Field /\ (n = 0 => ModSum(t) = 0)
<1>1. n \in 0 .. n /\ Part(t, 0) = 0 /\ Part(t, n) = ModSum(t) /\ \A k \in 0 .. n : Part(t, k) \in Field
      BY PartSteps
<1> QED BY <1>1

\* Sums are linear in their terms.
LEMMA SumLinear ==
    ASSUME NEW n \in Nat, NEW s \in [1 .. n -> Int], NEW t \in [1 .. n -> Int], NEW c \in Int
    PROVE  ModSum([l \in 1 .. n |-> s[l] + c * t[l]]) = (ModSum(s) + c * ModSum(t)) % P
<1> DEFINE u == [l \in 1 .. n |-> s[l] + c * t[l]]
           S == {k \in 0 .. n : Part(u, k) = (Part(s, k) + c * Part(t, k)) % P}
<1>1. u \in [1 .. n -> Int]
  <2> SUFFICES ASSUME NEW l \in 1 .. n PROVE s[l] + c * t[l] \in Int
      OBVIOUS
  <2> QED BY Z3
<1> HIDE DEF u
<1>2. 0 \in S
  <2>1. Part(u, 0) = 0 /\ Part(s, 0) = 0 /\ Part(t, 0) = 0
        BY <1>1, PartSteps
  <2>2. c * 0 = 0 /\ (0 + 0) % P = 0
        BY InField
  <2> QED BY <2>1, <2>2
<1>3. ASSUME NEW k \in 0 .. n - 1, k \in S PROVE k + 1 \in S
  <2>1. k + 1 \in 1 .. n /\ (k + 1) - 1 = k /\ k \in 0 .. n /\ k + 1 \in 0 .. n
        OBVIOUS
  <2> DEFINE a == Part(s, k)   b == Part(t, k)   x == s[k + 1]   y == t[k + 1]
  <2>2. a \in Int /\ b \in Int /\ x \in Int /\ y \in Int
        BY <2>1, PartSteps, InField
  <2>3. Part(s, k + 1) = (a + x) % P /\ Part(t, k + 1) = (b + y) % P
        BY <2>1, PartSteps
  <2>4. Part(u, k + 1) = (((a + c * b) % P) + (x + c * y)) % P
    <3>1. Part(u, k + 1) = (Part(u, k) + u[k + 1]) % P
          BY <1>1, <2>1, PartSteps
    <3>2. Part(u, k) = (a + c * b) % P
          BY <1>3
    <3>3. u[k + 1] = x + c * y
          BY <2>1 DEF u
    <3> HIDE DEF a, b, x, y
    <3> QED BY <3>1, <3>2, <3>3
  <2> HIDE DEF a, b, x, y
  <2> DEFINE p == a + c * b   q == x + c * y   v == a + x   w == b + y
  <2>5. p \in Int /\ q \in Int /\ v \in Int /\ w \in Int
        BY <2>2, Z3
  <2>6. p + q = v + c * w
        BY <2>2, Z3
  <2> HIDE DEF p, q, v, w
  <2>7. ((p % P) + q) % P = (p + q) % P
        BY <2>5, ModOps
  <2>8. ((v % P) + c * (w % P)) % P = (v + c * w) % P
        BY <2>5, ModScaled
  <2>9. Part(u, k + 1) = (Part(s, k + 1) + c * Part(t, k + 1)) % P
        BY <2>3, <2>4, <2>6, <2>7, <2>8 DEF p, q, v, w
  <2> QED BY <2>1, <2>9
<1>4. n \in S
  <2> HIDE DEF S
  <2>1. 0 .. n \subseteq S
        BY <1>2, <1>3, BoundedInduction
  <2> QED BY <2>1
<1>5. Part(u, n) = ModSum(u) /\ Part(s, n) = ModSum(s) /\ Part(t, n) = ModSum(t)
      BY <1>1, PartSteps
<1> QED BY <1>4, <1>5 DEF u

\* Sums agree when their terms agree modulo P.
LEMMA SumCongruent ==
    ASSUME NEW n \in Nat, NEW s \in [1 .. n -> Int], NEW t \in [1 .. n -> Int],
           \A l \in 1 .. n : s[l] % P = t[l] % P
    PROVE  ModSum(s) = ModSum(t)
<1> DEFINE S == {k \in 0 .. n : Part(s, k) = Part(t, k)}
<1>1. 0 \in S
      BY PartSteps
<1>2. ASSUME NEW k \in 0 .. n - 1, k \in S PROVE k + 1 \in S
  <2>1. k + 1 \in 1 .. n /\ (k + 1) - 1 = k /\ k \in 0 .. n /\ k + 1 \in 0 .. n
        OBVIOUS
  <2> DEFINE a == Part(s, k)   x == s[k + 1]   y == t[k + 1]
  <2>2. a = Part(t, k)
        BY <1>2
  <2>3. a \in Int /\ x \in Int /\ y \in Int /\ x % P = y % P
        BY <2>1, PartSteps, InField
  <2>4. Part(s, k + 1) = (a + x) % P /\ Part(t, k + 1) = (a + y) % P
        BY <2>1, <2>2, PartSteps
  <2> HIDE DEF a, x, y
  <2>5. ((x % P) + a) % P = (x + a) % P /\ ((y % P) + a) % P = (y + a) % P
        BY <2>3, ModOps
  <2>6. x + a = a + x /\ y + a = a + y
        BY <2>3
  <2>7. Part(s, k + 1) = Part(t, k + 1)
        BY <2>3, <2>4, <2>5, <2>6, Zenon
  <2> QED BY <2>1, <2>7
<1>3. n \in S
  <2> HIDE DEF S
  <2>1. 0 .. n \subseteq S
        BY <1>1, <1>2, BoundedInduction
  <2> QED BY <2>1
<1>4. Part(s, n) = ModSum(s) /\ Part(t, n) = ModSum(t)
      BY PartSteps
<1> QED BY <1>3, <1>4

\* A sum with at most one term that is not zero.
LEMMA SumOne ==
    ASSUME NEW n \in Nat, NEW t \in [1 .. n -> Int], NEW j \in Int,
           \A l \in 1 .. n : l # j => t[l] = 0
    PROVE  ModSum(t) = IF j \in 1 .. n THEN t[j] % P ELSE 0
<1> DEFINE S == {k \in 0 .. n : Part(t, k) = IF j \in 1 .. k THEN t[j] % P ELSE 0}
<1>1. 0 \in S
      BY PartSteps
<1>2. ASSUME NEW k \in 0 .. n - 1, k \in S PROVE k + 1 \in S
  <2>1. k + 1 \in 1 .. n /\ (k + 1) - 1 = k /\ k \in 0 .. n /\ k + 1 \in 0 .. n
        OBVIOUS
  <2> DEFINE a == Part(t, k)   x == t[k + 1]
  <2>2. Part(t, k + 1) = (a + x) % P
        BY <2>1, PartSteps
  <2>3. a \in Field /\ a \in Int /\ a % P = a /\ x \in Int
        BY <2>1, PartSteps, InField
  <2>4. a = IF j \in 1 .. k THEN t[j] % P ELSE 0
        BY <1>2
  <2> HIDE DEF a
  <2>5. CASE j = k + 1
    <3>1. j \notin 1 .. k /\ j \in 1 .. k + 1
          BY <2>5
    <3>2. a + x = t[j]
          BY <2>3, <2>4, <2>5, <3>1
    <3> QED BY <2>1, <2>2, <3>1, <3>2
  <2>6. CASE j # k + 1
    <3>1. j \in 1 .. k <=> j \in 1 .. k + 1
          BY <2>6
    <3>2. x = 0
          BY <2>1, <2>6
    <3>3. a + x = a
          BY <2>3, <3>2
    <3>4. Part(t, k + 1) = a
          BY <2>2, <2>3, <3>3
    <3> QED BY <2>1, <2>4, <3>1, <3>4
  <2> QED BY <2>5, <2>6
<1>3. n \in S
  <2> HIDE DEF S
  <2>1. 0 .. n \subseteq S
        BY <1>1, <1>2, BoundedInduction
  <2> QED BY <2>1
<1>4. Part(t, n) = ModSum(t)
      BY PartSteps
<1> QED BY <1>3, <1>4

---------------------------------------------------------------------------
\* Linear combinations.

Vec(m) == [1 .. m -> Field]

\* The combination of n vectors of length m; unlike LinearCombination it is there for
\* n = 0 as well.
Comb(vecs, c, n, m) == [i \in 1 .. m |-> ModSum([l \in 1 .. n |-> c[l] * vecs[l][i]])]

\* The terms of a combination are numbers.
LEMMA CombTerms ==
    ASSUME NEW n \in Nat, NEW m \in Nat, NEW vecs \in [1 .. n -> Vec(m)],
           NEW c \in [1 .. n -> Field], NEW i \in 1 .. m
    PROVE  /\ [l \in 1 .. n |-> c[l] * vecs[l][i]] \in [1 .. n -> Int]
           /\ [l \in 1 .. n |-> vecs[l][i]] \in [1 .. n -> Int]
           /\ \A l \in 1 .. n : c[l] \in Int /\ vecs[l][i] \in Int /\ c[l] * vecs[l][i] \in Int
<1>1. \A l \in 1 .. n : c[l] \in Int /\ vecs[l][i] \in Int
      BY InField DEF Vec
<1>2. ASSUME NEW l \in 1 .. n PROVE c[l] * vecs[l][i] \in Int
      BY <1>1, Z3
<1> QED BY <1>1, <1>2

\* A combination is a vector.
LEMMA CombType ==
    ASSUME NEW n \in Nat, NEW m \in Nat, NEW vecs \in [1 .. n -> Vec(m)],
           NEW c \in [1 .. n -> Field]
    PROVE  Comb(vecs, c, n, m) \in Vec(m)
<1> SUFFICES ASSUME NEW i \in 1 .. m
             PROVE  ModSum([l \in 1 .. n |-> c[l] * vecs[l][i]]) \in Field
    BY DEF Comb, Vec
<1>1. [l \in 1 .. n |-> c[l] * vecs[l][i]] \in [1 .. n -> Int]
      BY CombTerms
<1> QED BY <1>1, SumType

\* LinearCombination is the combination of all the vectors it is given.
LEMMA CombIs ==
    ASSUME NEW n \in Nat \ {0}, NEW m \in Nat, NEW vecs \in [1 .. n -> Vec(m)], NEW c
    PROVE  LinearCombination(vecs, c) = Comb(vecs, c, n, m)
<1>1. Len(vecs) = n /\ DOMAIN vecs[1] = 1 .. m
      BY DEF Vec
<1> QED BY <1>1, Zenon DEF LinearCombination, Comb

\* Combinations depend on the vectors and coefficients they have.
LEMMA CombEqual ==
    ASSUME NEW n \in Nat, NEW m \in Nat, NEW u, NEW v, NEW c, NEW d,
           \A l \in 1 .. n : c[l] = d[l] /\ \A i \in 1 .. m : u[l][i] = v[l][i]
    PROVE  Comb(u, c, n, m) = Comb(v, d, n, m)
<1>1. ASSUME NEW i \in 1 .. m
      PROVE  ModSum([l \in 1 .. n |-> c[l] * u[l][i]]) = ModSum([l \in 1 .. n |-> d[l] * v[l][i]])
  <2>1. [l \in 1 .. n |-> c[l] * u[l][i]] = [l \in 1 .. n |-> d[l] * v[l][i]]
        OBVIOUS
  <2> QED BY <2>1, Zenon
<1> QED BY <1>1, Zenon DEF Comb

\* One vector more; it makes no difference when its coefficient is zero.
LEMMA CombSnoc ==
    ASSUME NEW n \in Nat, NEW m \in Nat, NEW vecs \in [1 .. n + 1 -> Vec(m)],
           NEW c \in [1 .. n + 1 -> Field]
    PROVE  /\ \A i \in 1 .. m :
                  Comb(vecs, c, n + 1, m)[i] =
                      (Comb(vecs, c, n, m)[i] + c[n + 1] * vecs[n + 1][i]) % P
           /\ c[n + 1] = 0 => Comb(vecs, c, n + 1, m) = Comb(vecs, c, n, m)
<1>0. n + 1 \in Nat /\ n + 1 \in 1 .. n + 1 /\ 1 .. n \subseteq 1 .. n + 1
      OBVIOUS
<1>1. ASSUME NEW i \in 1 .. m
      PROVE  Comb(vecs, c, n + 1, m)[i] =
                 (Comb(vecs, c, n, m)[i] + c[n + 1] * vecs[n + 1][i]) % P
  <2> DEFINE t == [l \in 1 .. n + 1 |-> c[l] * vecs[l][i]]
             s == [l \in 1 .. n |-> c[l] * vecs[l][i]]
  <2>1. t \in [1 .. n + 1 -> Int]
        BY <1>0, CombTerms
  <2>2. [l \in 1 .. n |-> t[l]] = s
        BY <1>0
  <2>3. t[n + 1] = c[n + 1] * vecs[n + 1][i]
        BY <1>0
  <2>4. Comb(vecs, c, n + 1, m)[i] = ModSum(t) /\ Comb(vecs, c, n, m)[i] = ModSum(s)
        BY Zenon DEF Comb
  <2> HIDE DEF t, s
  <2>5. ModSum(t) = (ModSum([l \in 1 .. n |-> t[l]]) + t[n + 1]) % P
        BY <2>1, SumSnoc
  <2> QED BY <2>2, <2>3, <2>4, <2>5, Zenon
<1>2. ASSUME c[n + 1] = 0, NEW i \in 1 .. m
      PROVE  Comb(vecs, c, n + 1, m)[i] = Comb(vecs, c, n, m)[i]
  <2> DEFINE x == Comb(vecs, c, n, m)[i]   y == vecs[n + 1][i]
  <2>1. x \in Field /\ y \in Field
    <3>1. vecs \in [1 .. n + 1 -> Vec(m)] /\ [l \in 1 .. n |-> vecs[l]] \in [1 .. n -> Vec(m)]
          /\ [l \in 1 .. n |-> c[l]] \in [1 .. n -> Field]
          BY <1>0
    <3>2. Comb([l \in 1 .. n |-> vecs[l]], [l \in 1 .. n |-> c[l]], n, m) \in Vec(m)
          BY <3>1, CombType
    <3>3. Comb([l \in 1 .. n |-> vecs[l]], [l \in 1 .. n |-> c[l]], n, m) = Comb(vecs, c, n, m)
      <4> DEFINE u == [l \in 1 .. n |-> vecs[l]]   d == [l \in 1 .. n |-> c[l]]
      <4>1. \A l \in 1 .. n : d[l] = c[l] /\ \A k \in 1 .. m : u[l][k] = vecs[l][k]
            OBVIOUS
      <4> HIDE DEF u, d
      <4>2. Comb(u, d, n, m) = Comb(vecs, c, n, m)
            BY <4>1, CombEqual
      <4> QED BY <4>2 DEF u, d
    <3> QED BY <1>0, <3>2, <3>3 DEF Vec
  <2>2. Comb(vecs, c, n + 1, m)[i] = (x + 0 * y) % P
        BY <1>1, <1>2
  <2> HIDE DEF x, y
  <2>3. x + 0 * y = x /\ x % P = x
        BY <2>1, InField
  <2> QED BY <2>2, <2>3 DEF x
<1>3. Comb(vecs, c, n + 1, m) = [i \in 1 .. m |-> Comb(vecs, c, n + 1, m)[i]]
      BY Zenon DEF Comb
<1>4. Comb(vecs, c, n, m) = [i \in 1 .. m |-> Comb(vecs, c, n, m)[i]]
      BY Zenon DEF Comb
<1>5. ASSUME c[n + 1] = 0 PROVE Comb(vecs, c, n + 1, m) = Comb(vecs, c, n, m)
  <2>1. \A i \in 1 .. m : Comb(vecs, c, n + 1, m)[i] = Comb(vecs, c, n, m)[i]
        BY <1>2, <1>5
  <2> QED BY <1>3, <1>4, <2>1
<1> QED BY <1>1, <1>5

\* c and k times d, entry by entry.
Plus(c, d, k, n) == [l \in 1 .. n |-> (c[l] + k * d[l]) % P]

\* It is a vector, whatever the integers it is made of.
LEMMA PlusType ==
    ASSUME NEW n \in Nat, NEW c \in Vec(n), NEW d \in Vec(n), NEW k \in Int
    PROVE  Plus(c, d, k, n) \in Vec(n)
<1> SUFFICES ASSUME NEW l \in 1 .. n PROVE (c[l] + k * d[l]) % P \in Field
    BY DEF Plus, Vec
<1> DEFINE x == c[l] + k * d[l]
<1>1. x \in Int
  <2>1. c[l] \in Int /\ d[l] \in Int
        BY InField DEF Vec
  <2> QED BY <2>1, Z3
<1> HIDE DEF x
<1>2. x % P \in Field
      BY <1>1, Remainder
<1> QED BY <1>2 DEF x

\* Combinations are linear in their coefficients.
LEMMA CombLinear ==
    ASSUME NEW n \in Nat, NEW m \in Nat, NEW vecs \in [1 .. n -> Vec(m)],
           NEW c \in Vec(n), NEW d \in Vec(n), NEW k \in Int
    PROVE  Comb(vecs, Plus(c, d, k, n), n, m) =
               Plus(Comb(vecs, c, n, m), Comb(vecs, d, n, m), k, m)
<1> DEFINE e == Plus(c, d, k, n)
<1>a. /\ c \in [1 .. n -> Field] /\ d \in [1 .. n -> Field] /\ e \in [1 .. n -> Field]
      /\ \A l \in 1 .. n : e[l] = (c[l] + k * d[l]) % P
  <2>1. e \in Vec(n)
        BY PlusType
  <2> QED BY <2>1 DEF Plus, Vec
<1> HIDE DEF e
<1>b. SUFFICES ASSUME NEW i \in 1 .. m
               PROVE  Comb(vecs, e, n, m)[i] =
                          (Comb(vecs, c, n, m)[i] + k * Comb(vecs, d, n, m)[i]) % P
  <2>1. Comb(vecs, e, n, m) = [i \in 1 .. m |-> Comb(vecs, e, n, m)[i]]
        BY Zenon DEF Comb
  <2> QED BY <2>1 DEF e, Plus
<1> DEFINE s == [l \in 1 .. n |-> c[l] * vecs[l][i]]
           t == [l \in 1 .. n |-> d[l] * vecs[l][i]]
           u == [l \in 1 .. n |-> s[l] + k * t[l]]
           w == [l \in 1 .. n |-> e[l] * vecs[l][i]]
<1>1. /\ s \in [1 .. n -> Int] /\ t \in [1 .. n -> Int]
      /\ \A l \in 1 .. n : c[l] \in Int /\ d[l] \in Int /\ vecs[l][i] \in Int
      BY <1>a, CombTerms
<1>3. w \in [1 .. n -> Int]
      BY <1>a, CombTerms
<1>4. u \in [1 .. n -> Int]
  <2> SUFFICES ASSUME NEW l \in 1 .. n PROVE s[l] + k * t[l] \in Int
      OBVIOUS
  <2>1. s[l] \in Int /\ t[l] \in Int
        BY <1>1
  <2> HIDE DEF s, t
  <2> QED BY <2>1, Z3
<1>5. ASSUME NEW l \in 1 .. n PROVE w[l] % P = u[l] % P
  <2> DEFINE x == c[l]   y == d[l]   z == vecs[l][i]   a == x + k * y
  <2>1. x \in Int /\ y \in Int /\ z \in Int
        BY <1>1
  <2>2. w[l] = (a % P) * z /\ u[l] = x * z + k * (y * z)
        BY <1>a
  <2> HIDE DEF x, y, z, w, u
  <2>3. a \in Int /\ x * z + k * (y * z) = a * z
        BY <2>1, Z3
  <2> HIDE DEF a
  <2>4. ((a % P) * z) % P = (a * z) % P
        BY <2>1, <2>3, ModOps
  <2> QED BY <2>2, <2>3, <2>4, Zenon
<1>6. ModSum(w) = ModSum(u)
  <2> HIDE DEF w, u
  <2> QED BY <1>3, <1>4, <1>5, SumCongruent
<1>7. ModSum(u) = (ModSum(s) + k * ModSum(t)) % P
  <2> HIDE DEF s, t
  <2> QED BY <1>1, SumLinear
<1>8. /\ Comb(vecs, e, n, m)[i] = ModSum(w) /\ Comb(vecs, c, n, m)[i] = ModSum(s)
      /\ Comb(vecs, d, n, m)[i] = ModSum(t)
      BY Zenon DEF Comb
<1> HIDE DEF s, t, u, w
<1> QED BY <1>6, <1>7, <1>8, Zenon

\* The combination by a unit vector is one of the vectors, and any vector is the
\* combination of the unit vectors it is made of.
LEMMA CombUnit ==
    ASSUME NEW n \in Nat, NEW m \in Nat, NEW vecs \in [1 .. n -> Vec(m)], NEW k \in 1 .. n
    PROVE  Comb(vecs, [l \in 1 .. n |-> IF l = k THEN 1 ELSE 0], n, m) = vecs[k]
<1> DEFINE c == [l \in 1 .. n |-> IF l = k THEN 1 ELSE 0]
<1>1. c \in [1 .. n -> Field]
      BY InField
<1>2. ASSUME NEW i \in 1 .. m PROVE Comb(vecs, c, n, m)[i] = vecs[k][i]
  <2> DEFINE t == [l \in 1 .. n |-> c[l] * vecs[l][i]]
  <2>1. t \in [1 .. n -> Int] /\ \A l \in 1 .. n : vecs[l][i] \in Field /\ vecs[l][i] \in Int
    <3> HIDE DEF c
    <3>1. t \in [1 .. n -> Int] /\ \A l \in 1 .. n : vecs[l][i] \in Int
          BY <1>1, CombTerms
    <3> QED BY <3>1 DEF Vec
  <2>2. \A l \in 1 .. n : l # k => t[l] = 0
        BY <2>1
  <2>3. t[k] = vecs[k][i]
        BY <2>1
  <2>4. Comb(vecs, c, n, m)[i] = ModSum(t)
    <3> HIDE DEF c
    <3> QED BY Zenon DEF Comb
  <2>5. k \in Int
        OBVIOUS
  <2> HIDE DEF t
  <2>6. ModSum(t) = t[k] % P
        BY <2>1, <2>2, <2>5, SumOne
  <2>7. vecs[k][i] % P = vecs[k][i]
        BY <2>1, InField
  <2> QED BY <2>3, <2>4, <2>6, <2>7
<1>3. Comb(vecs, c, n, m) = [i \in 1 .. m |-> Comb(vecs, c, n, m)[i]]
  <2> HIDE DEF c
  <2> QED BY Zenon DEF Comb
<1>4. vecs[k] = [i \in 1 .. m |-> vecs[k][i]]
      BY DEF Vec
<1> HIDE DEF c
<1>5. Comb(vecs, c, n, m) = vecs[k]
      BY <1>2, <1>3, <1>4
<1> QED BY <1>5 DEF c

\* Any vector is the combination of the unit vectors, with its entries as coefficients.
LEMMA CombOfUnits ==
    ASSUME NEW b \in Vector
    PROVE  Comb([l \in 1 .. N |-> Unit(l)], b, N, N) = b
<1> DEFINE units == [l \in 1 .. N |-> Unit(l)]
<1>0. N \in Nat
      BY ChunksAssumption
<1>1. units \in [1 .. N -> Vec(N)] /\ b \in [1 .. N -> Field]
      BY InField DEF Unit, Vec, Vector
<1>2. ASSUME NEW i \in 1 .. N PROVE Comb(units, b, N, N)[i] = b[i]
  <2> DEFINE t == [l \in 1 .. N |-> b[l] * units[l][i]]
  <2>1. t \in [1 .. N -> Int] /\ \A l \in 1 .. N : b[l] \in Int
    <3> HIDE DEF units
    <3> QED BY <1>0, <1>1, <1>2, CombTerms
  <2>2. \A l \in 1 .. N : units[l][i] = IF l = i THEN 1 ELSE 0
        BY DEF Unit
  <2>3. (\A l \in 1 .. N : l # i => t[l] = 0) /\ t[i] = b[i]
    <3> HIDE DEF units
    <3> QED BY <2>1, <2>2
  <2>4. Comb(units, b, N, N)[i] = ModSum(t)
    <3> HIDE DEF units
    <3> QED BY Zenon DEF Comb
  <2>5. i \in Int
        BY <1>0
  <2> HIDE DEF t
  <2>6. ModSum(t) = t[i] % P
        BY <1>0, <2>1, <2>3, <2>5, SumOne
  <2>7. b[i] % P = b[i]
        BY <1>1, InField
  <2> QED BY <2>3, <2>4, <2>6, <2>7
<1>3. Comb(units, b, N, N) = [i \in 1 .. N |-> Comb(units, b, N, N)[i]]
  <2> HIDE DEF units
  <2> QED BY Zenon DEF Comb
<1>4. b = [i \in 1 .. N |-> b[i]]
      BY DEF Vector
<1> HIDE DEF units
<1>5. Comb(units, b, N, N) = b
      BY <1>2, <1>3, <1>4
<1> QED BY <1>5 DEF units

\* The combinations of the first vectors, one from another.
LEMMA CombSteps ==
    ASSUME NEW n \in Nat, NEW m \in Nat, NEW vecs \in [1 .. n -> Vec(m)],
           NEW c \in [1 .. n -> Field]
    PROVE  /\ \A i \in 1 .. m : Comb(vecs, c, 0, m)[i] = 0
           /\ \A k \in 0 .. n : Comb(vecs, c, k, m) \in Vec(m)
           /\ \A k \in 0 .. n - 1 : \A i \in 1 .. m :
                  Comb(vecs, c, k + 1, m)[i] =
                      (Comb(vecs, c, k, m)[i] + c[k + 1] * vecs[k + 1][i]) % P
<1>1. ASSUME NEW k \in 0 .. n
      PROVE  Comb(vecs, c, k, m) \in Vec(m)
  <2> DEFINE u == [l \in 1 .. k |-> vecs[l]]   d == [l \in 1 .. k |-> c[l]]
  <2>1. k \in Nat /\ u \in [1 .. k -> Vec(m)] /\ d \in [1 .. k -> Field]
        OBVIOUS
  <2>2. \A l \in 1 .. k : d[l] = c[l] /\ \A i \in 1 .. m : u[l][i] = vecs[l][i]
        OBVIOUS
  <2> HIDE DEF u, d
  <2>3. Comb(u, d, k, m) = Comb(vecs, c, k, m)
        BY <2>1, <2>2, CombEqual
  <2> QED BY <2>1, <2>3, CombType
<1>2. ASSUME NEW k \in 0 .. n - 1, NEW i \in 1 .. m
      PROVE  Comb(vecs, c, k + 1, m)[i] = (Comb(vecs, c, k, m)[i] + c[k + 1] * vecs[k + 1][i]) % P
  <2> DEFINE u == [l \in 1 .. k + 1 |-> vecs[l]]   d == [l \in 1 .. k + 1 |-> c[l]]
  <2>1. /\ k \in Nat /\ k + 1 \in Nat /\ 1 .. k \subseteq 1 .. k + 1 /\ k + 1 \in 1 .. k + 1
        /\ u \in [1 .. k + 1 -> Vec(m)] /\ d \in [1 .. k + 1 -> Field]
        OBVIOUS
  <2>2. \A l \in 1 .. k + 1 : d[l] = c[l] /\ u[l] = vecs[l]
        OBVIOUS
  <2> HIDE DEF u, d
  <2>3. Comb(u, d, k, m) = Comb(vecs, c, k, m)
        BY <2>1, <2>2, CombEqual
  <2>4. Comb(u, d, k + 1, m) = Comb(vecs, c, k + 1, m)
        BY <2>1, <2>2, CombEqual
  <2>5. Comb(u, d, k + 1, m)[i] = (Comb(u, d, k, m)[i] + d[k + 1] * u[k + 1][i]) % P
        BY <2>1, CombSnoc
  <2> QED BY <2>1, <2>2, <2>3, <2>4, <2>5
<1>3. ASSUME NEW i \in 1 .. m PROVE Comb(vecs, c, 0, m)[i] = 0
  <2> DEFINE t == [l \in 1 .. 0 |-> c[l] * vecs[l][i]]
  <2>1. t \in [1 .. 0 -> Int] /\ 0 \in Nat
        OBVIOUS
  <2>2. Comb(vecs, c, 0, m)[i] = ModSum(t)
        BY Zenon DEF Comb
  <2> HIDE DEF t
  <2>3. ModSum(t) = 0
        BY <2>1, SumType
  <2> QED BY <2>2, <2>3
<1> QED BY <1>1, <1>2, <1>3

AllZero(c, n) == \A l \in 1 .. n : c[l] = 0
ZeroVec(m) == [i \in 1 .. m |-> 0]

\* All coefficients zero, all entries zero.
LEMMA CombZero ==
    ASSUME NEW n \in Nat, NEW m \in Nat, NEW vecs \in [1 .. n -> Vec(m)], NEW c,
           AllZero(c, n)
    PROVE  Comb(vecs, c, n, m) = ZeroVec(m)
<1>a. \A l \in 1 .. n : c[l] = 0
      BY DEF AllZero
<1>1. ASSUME NEW i \in 1 .. m PROVE ModSum([l \in 1 .. n |-> c[l] * vecs[l][i]]) = 0
  <2> DEFINE t == [l \in 1 .. n |-> c[l] * vecs[l][i]]
  <2>1. \A l \in 1 .. n : t[l] = 0
    <3>1. \A l \in 1 .. n : vecs[l][i] \in Int
          BY InField DEF Vec
    <3> QED BY <1>a, <3>1
  <2>2. t \in [1 .. n -> Int] /\ 0 \in Int /\ 0 \notin 1 .. n
        BY <2>1
  <2> HIDE DEF t
  <2>3. ModSum(t) = 0
        BY <2>1, <2>2, SumOne
  <2> QED BY <2>3 DEF t
<1> QED BY <1>1, Zenon DEF Comb, ZeroVec

\* A combination of combinations of vecs is one of vecs: of data encoded with
\* coefficients, by coefficients encoded alike.
LEMMA CombCompose ==
    ASSUME NEW n \in Nat, NEW m \in Nat, NEW r \in Nat, NEW vecs \in [1 .. n -> Vec(m)],
           NEW b \in [1 .. r -> Vec(n)], NEW a \in [1 .. r -> Field]
    PROVE  Comb(vecs, Comb(b, a, r, n), n, m) =
               Comb([l \in 1 .. r |-> Comb(vecs, b[l], n, m)], a, r, m)
<1> DEFINE w == [l \in 1 .. r |-> Comb(vecs, b[l], n, m)]
           S == {k \in 0 .. r : Comb(vecs, Comb(b, a, k, n), n, m) = Comb(w, a, k, m)}
<1>0. ASSUME NEW v, NEW d, NEW k
      PROVE  Comb(v, d, k, m) = [i \in 1 .. m |-> Comb(v, d, k, m)[i]]
      BY Zenon DEF Comb
<1>1. w \in [1 .. r -> Vec(m)]
  <2> SUFFICES ASSUME NEW l \in 1 .. r PROVE Comb(vecs, b[l], n, m) \in Vec(m)
      OBVIOUS
  <2>1. b[l] \in [1 .. n -> Field]
        BY DEF Vec
  <2> QED BY <2>1, CombType
<1>2. \A l \in 1 .. r : w[l] = Comb(vecs, b[l], n, m)
      OBVIOUS
<1> HIDE DEF w
<1>3. 0 \in S
  <2>1. \A i \in 1 .. m : Comb(w, a, 0, m)[i] = 0
        BY <1>1, CombSteps
  <2>2. AllZero(Comb(b, a, 0, n), n)
        BY CombSteps DEF AllZero
  <2>3. Comb(vecs, Comb(b, a, 0, n), n, m) = ZeroVec(m)
        BY <2>2, CombZero
  <2>4. Comb(w, a, 0, m) = ZeroVec(m)
        BY <1>0, <2>1 DEF ZeroVec
  <2> QED BY <2>3, <2>4
<1>4. ASSUME NEW k \in 0 .. r - 1, k \in S PROVE k + 1 \in S
  <2>1. k \in 0 .. r /\ k + 1 \in 0 .. r /\ k + 1 \in 1 .. r
        OBVIOUS
  <2> DEFINE c == Comb(b, a, k, n)   d == b[k + 1]   x == a[k + 1]   e == Comb(b, a, k + 1, n)
  <2>2. c \in Vec(n) /\ d \in Vec(n) /\ x \in Int
        BY <2>1, CombSteps, InField
  <2>3. e = Plus(c, d, x, n)
    <3>1. e = [l \in 1 .. n |-> e[l]]
          BY Zenon DEF Comb
    <3>2. \A l \in 1 .. n : e[l] = (c[l] + x * d[l]) % P
          BY CombSteps
    <3> HIDE DEF c, d, x, e
    <3> QED BY <3>1, <3>2 DEF Plus
  <2>5. Comb(vecs, c, n, m) = Comb(w, a, k, m) /\ Comb(vecs, d, n, m) = w[k + 1]
        BY <1>2, <1>4, <2>1
  <2>6. Comb(w, a, k + 1, m) = Plus(Comb(w, a, k, m), w[k + 1], x, m)
    <3>1. Comb(w, a, k + 1, m) = [i \in 1 .. m |-> Comb(w, a, k + 1, m)[i]]
          BY <1>0
    <3>2. \A i \in 1 .. m : Comb(w, a, k + 1, m)[i] = (Comb(w, a, k, m)[i] + x * w[k + 1][i]) % P
          BY <1>1, CombSteps
    <3> HIDE DEF x
    <3> QED BY <3>1, <3>2 DEF Plus
  <2> HIDE DEF c, d, x, e
  <2>7. Comb(vecs, e, n, m) = Plus(Comb(vecs, c, n, m), Comb(vecs, d, n, m), x, m)
        BY <2>2, <2>3, CombLinear
  <2>9. Comb(vecs, e, n, m) = Comb(w, a, k + 1, m)
        BY <2>5, <2>6, <2>7
  <2> QED BY <2>1, <2>9 DEF e
<1>5. 0 .. r \subseteq S
  <2> HIDE DEF S
  <2> QED BY <1>3, <1>4, BoundedInduction
<1> QED BY <1>5 DEF w

\* The entries of two joined vectors.
LEMMA Joined ==
    ASSUME NEW m \in Nat, NEW k \in Nat, NEW u \in Vec(m), NEW v \in Vec(k)
    PROVE  /\ u \o v \in Vec(m + k)
           /\ \A i \in 1 .. m + k : (u \o v)[i] = IF i <= m THEN u[i] ELSE v[i - m]
<1>1. u \in Seq(Field) /\ v \in Seq(Field) /\ Len(u) = m /\ Len(v) = k
      BY DEF Vec
<1>2. u \o v \in Seq(Field) /\ Len(u \o v) = m + k
      BY <1>1
<1>3. \A i \in 1 .. m + k : (u \o v)[i] = IF i <= m THEN u[i] ELSE v[i - m]
      BY <1>1
<1> DEFINE s == u \o v
<1> HIDE DEF s
<1>4. s \in Seq(Field) /\ Len(s) = m + k
      BY <1>2 DEF s
<1>5. s \in [1 .. m + k -> Field]
      BY <1>4
<1> QED BY <1>3, <1>5 DEF s, Vec

\* z is v behind u.
Joins(z, u, v) == z = u \o v

\* Vectors are joined only from the parts they have.
LEMMA JoinedParts ==
    ASSUME NEW m \in Nat, NEW k \in Nat, NEW u \in Vec(m), NEW v \in Vec(k),
           NEW x \in Vec(m), NEW y \in Vec(k), NEW z, Joins(z, u, v), Joins(z, x, y)
    PROVE  u = x /\ v = y
<1> USE DEF Joins
<1>1. ASSUME NEW i \in 1 .. m PROVE u[i] = x[i]
  <2>1. i \in 1 .. m + k /\ i <= m
        OBVIOUS
  <2>2. (u \o v)[i] = u[i] /\ (x \o y)[i] = x[i]
        BY <2>1, Joined
  <2> QED BY <2>2
<1>2. ASSUME NEW i \in 1 .. k PROVE v[i] = y[i]
  <2>1. m + i \in 1 .. m + k /\ ~(m + i <= m) /\ (m + i) - m = i
        OBVIOUS
  <2>2. (u \o v)[m + i] = v[(m + i) - m] /\ (x \o y)[m + i] = y[(m + i) - m]
        BY <2>1, Joined
  <2> QED BY <2>1, <2>2
<1> QED BY <1>1, <1>2 DEF Vec

\* n vectors, each one of u with one of v behind it.
JoinedVectors(w, u, v, n) == \A l \in 1 .. n : w[l] = u[l] \o v[l]

\* The combination of joined vectors joins the combinations.
LEMMA CombConcat ==
    ASSUME NEW n \in Nat, NEW m \in Nat, NEW k \in Nat, NEW u \in [1 .. n -> Vec(m)],
           NEW v \in [1 .. n -> Vec(k)], NEW c \in [1 .. n -> Field], NEW w,
           JoinedVectors(w, u, v, n)
    PROVE  Joins(Comb(w, c, n, m + k), Comb(u, c, n, m), Comb(v, c, n, k))
<1> DEFINE x == Comb(u, c, n, m)
           y == Comb(v, c, n, k)
           z == Comb(w, c, n, m + k)
<1>1. x \in Vec(m) /\ y \in Vec(k)
      BY CombType
<1>2. \A l \in 1 .. n : w[l] = u[l] \o v[l]
      BY DEF JoinedVectors
<1>3. ASSUME NEW l \in 1 .. n, NEW i \in 1 .. m + k
      PROVE  w[l][i] = IF i <= m THEN u[l][i] ELSE v[l][i - m]
  <2> DEFINE f == u[l]   g == v[l]
  <2>1. f \in Vec(m) /\ g \in Vec(k) /\ w[l] = f \o g
        BY <1>2
  <2> HIDE DEF f, g
  <2>2. (f \o g)[i] = IF i <= m THEN f[i] ELSE g[i - m]
        BY <2>1, Joined
  <2> QED BY <2>1, <2>2 DEF f, g
<1>4. ASSUME NEW i \in 1 .. m + k PROVE z[i] = IF i <= m THEN x[i] ELSE y[i - m]
  <2>1. z[i] = ModSum([l \in 1 .. n |-> c[l] * w[l][i]])
        BY DEF Comb
  <2>2. CASE i <= m
    <3>1. i \in 1 .. m
          BY <2>2
    <3>2. x[i] = ModSum([l \in 1 .. n |-> c[l] * u[l][i]])
          BY <3>1 DEF Comb
    <3>3. [l \in 1 .. n |-> c[l] * w[l][i]] = [l \in 1 .. n |-> c[l] * u[l][i]]
          BY <1>3, <2>2
    <3> QED BY <2>1, <2>2, <3>2, <3>3, Zenon
  <2>3. CASE ~(i <= m)
    <3>1. i - m \in 1 .. k
          BY <2>3
    <3>2. y[i - m] = ModSum([l \in 1 .. n |-> c[l] * v[l][i - m]])
          BY <3>1 DEF Comb
    <3>3. [l \in 1 .. n |-> c[l] * w[l][i]] = [l \in 1 .. n |-> c[l] * v[l][i - m]]
          BY <1>3, <2>3
    <3> QED BY <2>1, <2>3, <3>2, <3>3, Zenon
  <2> QED BY <2>2, <2>3
<1>5. z = [i \in 1 .. m + k |-> z[i]]
      BY Zenon DEF Comb
<1> HIDE DEF x, y, z
<1>6. x \o y \in Vec(m + k) /\ \A i \in 1 .. m + k : (x \o y)[i] = z[i]
      BY <1>1, <1>4, Joined
<1>7. x \o y = [i \in 1 .. m + k |-> (x \o y)[i]]
      BY <1>6 DEF Vec
<1>8. z = x \o y
      BY <1>5, <1>6, <1>7
<1> QED BY <1>8 DEF x, y, z, Joins

---------------------------------------------------------------------------
\* Vectors and the steps the code takes on them.

\* A vector of N is Vec(N), the constant vectors are among them, and a vector is its entries.
LEMMA Vectors ==
    /\ N \in Nat /\ Vector = Vec(N) /\ Zero \in Vector
    /\ \A k \in 1 .. N : Unit(k) \in Vector
    /\ \A v \in Vector : \A i \in 1 .. N : v[i] \in Field /\ v[i] \in Int /\ v[i] % P = v[i]
<1>1. N \in Nat /\ Vector = Vec(N)
      BY ChunksAssumption DEF Vector, Vec
<1>2. Zero \in Vector /\ \A k \in 1 .. N : Unit(k) \in Vector
      BY InField DEF Zero, Unit, Vector
<1>3. \A v \in Vector : \A i \in 1 .. N : v[i] \in Field /\ v[i] \in Int /\ v[i] % P = v[i]
      BY InField DEF Vector
<1> QED BY <1>1, <1>2, <1>3

\* Sums of vectors are vectors.
LEMMA PlusVector ==
    ASSUME NEW u \in Vector, NEW v \in Vector, NEW k \in Int
    PROVE  Plus(u, v, k, N) \in Vector
BY Vectors, PlusType

\* One scaling and one elimination step are sums of this form.
LEMMA StepsArePlus ==
    ASSUME NEW v \in Vector, NEW e \in Vector, NEW c \in Int
    PROVE  SubScaled(v, e, c) = Plus(v, e, 0 - c, N) /\ Scale(v, c) = Plus(Zero, v, c, N)
<1>1. ASSUME NEW i \in 1 .. N
      PROVE  v[i] - c * e[i] = v[i] + (0 - c) * e[i] /\ v[i] * c = 0 + c * v[i]
  <2> DEFINE x == v[i]   y == e[i]
  <2>1. x \in Int /\ y \in Int
        BY Vectors
  <2> HIDE DEF x, y
  <2>2. x - c * y = x + (0 - c) * y /\ x * c = 0 + c * x
        BY <2>1, Z3
  <2> QED BY <2>2 DEF x, y
<1> QED BY <1>1 DEF SubScaled, Scale, Plus, Zero

\* Nothing of the second vector.
LEMMA PlusNone ==
    ASSUME NEW u \in Vector, NEW v \in Vector
    PROVE  Plus(u, v, 0, N) = u
<1>1. ASSUME NEW i \in 1 .. N PROVE (u[i] + 0 * v[i]) % P = u[i]
  <2>1. u[i] \in Int /\ v[i] \in Int /\ u[i] % P = u[i]
        BY Vectors
  <2>2. u[i] + 0 * v[i] = u[i]
        BY <2>1
  <2> QED BY <2>1, <2>2
<1> QED BY <1>1 DEF Plus, Vector

\* Twice the same vector is a multiple of it.
LEMMA PlusTwice ==
    ASSUME NEW u \in Vector, NEW v \in Vector, NEW a \in Int, NEW b \in Int
    PROVE  Plus(Plus(u, v, a, N), v, b, N) = Plus(u, v, a + b, N)
<1>1. ASSUME NEW i \in 1 .. N
      PROVE  (((u[i] + a * v[i]) % P) + b * v[i]) % P = (u[i] + (a + b) * v[i]) % P
  <2> DEFINE x == u[i]   y == v[i]   s == x + a * y   t == b * y
  <2>1. x \in Int /\ y \in Int
        BY Vectors
  <2> HIDE DEF x, y
  <2>2. s \in Int /\ t \in Int /\ s + t = x + (a + b) * y
        BY <2>1, Z3
  <2> HIDE DEF s, t
  <2>3. ((s % P) + t) % P = (s + t) % P
        BY <2>2, ModOps
  <2> QED BY <2>2, <2>3 DEF s, t, x, y
<1> QED BY <1>1 DEF Plus

\* A multiple of a sum, regrouped.
LEMMA PlusPlus ==
    ASSUME NEW u \in Vector, NEW v \in Vector, NEW w \in Vector, NEW a \in Int, NEW c \in Int
    PROVE  Plus(u, Plus(v, w, a, N), c, N) = Plus(Plus(u, w, c * a, N), v, c, N)
<1>1. ASSUME NEW i \in 1 .. N
      PROVE  (u[i] + c * ((v[i] + a * w[i]) % P)) % P = (((u[i] + (c * a) * w[i]) % P) + c * v[i]) % P
  <2> DEFINE x == u[i]   y == v[i]   z == w[i]   s == y + a * z   t == x + (c * a) * z   q == c * y
  <2>1. x \in Int /\ y \in Int /\ z \in Int
        BY Vectors
  <2> HIDE DEF x, y, z
  <2>2. s \in Int /\ t \in Int /\ q \in Int /\ x + c * s = t + q
        BY <2>1, Z3
  <2>3. x % P = x
        BY Vectors DEF x
  <2> HIDE DEF s, t, q
  <2>4. ((x % P) + c * (s % P)) % P = (x + c * s) % P
        BY <2>1, <2>2, ModScaled
  <2>5. ((t % P) + q) % P = (t + q) % P
        BY <2>2, ModOps
  <2>6. (x + c * (s % P)) % P = ((t % P) + q) % P
        BY <2>2, <2>3, <2>4, <2>5
  <2> QED BY <2>6 DEF s, t, q, x, y, z
<1> QED BY <1>1 DEF Plus

\* A sum of three, regrouped.
LEMMA PlusSum ==
    ASSUME NEW u \in Vector, NEW v \in Vector, NEW w \in Vector, NEW b \in Int
    PROVE  Plus(Plus(u, v, 1, N), w, b, N) = Plus(u, Plus(v, w, b, N), 1, N)
<1>1. ASSUME NEW i \in 1 .. N
      PROVE  (((u[i] + 1 * v[i]) % P) + b * w[i]) % P = (u[i] + 1 * ((v[i] + b * w[i]) % P)) % P
  <2> DEFINE x == u[i]   y == v[i]   z == w[i]   s == x + 1 * y   t == b * z   q == y + b * z
  <2>1. x \in Int /\ y \in Int /\ z \in Int
        BY Vectors
  <2>2. x % P = x
        BY Vectors
  <2> HIDE DEF x, y, z
  <2>3. s \in Int /\ t \in Int /\ q \in Int /\ s + t = x + 1 * q
        BY <2>1, Z3
  <2> HIDE DEF s, t, q
  <2>4. ((s % P) + t) % P = (s + t) % P
        BY <2>3, ModOps
  <2>5. ((x % P) + 1 * (q % P)) % P = (x + 1 * q) % P
        BY <2>1, <2>3, ModScaled
  <2>6. ((s % P) + t) % P = (x + 1 * (q % P)) % P
        BY <2>2, <2>3, <2>4, <2>5
  <2> QED BY <2>6 DEF s, t, q, x, y, z
<1> QED BY <1>1 DEF Plus

\* The entries of a sum.
LEMMA PlusAt ==
    ASSUME NEW u, NEW v, NEW k, NEW i \in 1 .. N
    PROVE  Plus(u, v, k, N)[i] = (u[i] + k * v[i]) % P
BY DEF Plus

\* A combination of few vectors is linear in coefficients of which there are more.
LEMMA CombPlus ==
    ASSUME NEW n \in 0 .. N, NEW vecs \in [1 .. n -> Vector], NEW c \in Vector, NEW d \in Vector,
           NEW k \in Int
    PROVE  Comb(vecs, Plus(c, d, k, N), n, N) =
               Plus(Comb(vecs, c, n, N), Comb(vecs, d, n, N), k, N)
<1> DEFINE a == [l \in 1 .. n |-> c[l]]   b == [l \in 1 .. n |-> d[l]]
<1>0. N \in Nat /\ Vector = Vec(N) /\ n \in Nat /\ 1 .. n \subseteq 1 .. N
      BY Vectors
<1>1. /\ a \in Vec(n) /\ b \in Vec(n) /\ vecs \in [1 .. n -> Vec(N)]
      /\ \A l \in 1 .. n : a[l] = c[l] /\ b[l] = d[l]
      BY <1>0 DEF Vec
<1> HIDE DEF a, b
<1>2. Comb(vecs, a, n, N) = Comb(vecs, c, n, N) /\ Comb(vecs, b, n, N) = Comb(vecs, d, n, N)
      BY <1>0, <1>1, CombEqual
<1>3. \A l \in 1 .. n : Plus(a, b, k, n)[l] = Plus(c, d, k, N)[l]
      BY <1>0, <1>1 DEF Plus
<1>4. Comb(vecs, Plus(a, b, k, n), n, N) = Comb(vecs, Plus(c, d, k, N), n, N)
      BY <1>0, <1>3, CombEqual
<1>5. Comb(vecs, Plus(a, b, k, n), n, N) = Plus(Comb(vecs, a, n, N), Comb(vecs, b, n, N), k, N)
      BY <1>0, <1>1, CombLinear
<1> QED BY <1>2, <1>4, <1>5

---------------------------------------------------------------------------
\* Spans.

Span(vecs, n) == {Comb(vecs, c, n, N) : c \in [1 .. n -> Field]}

\* A set of vectors with zero in it, closed under taking multiples of one from another.
Subspace(S) ==
    /\ S \subseteq Vector /\ Zero \in S
    /\ \A u \in S : \A v \in S : \A k \in Int : Plus(u, v, k, N) \in S

\* Leading zeros do not change a sum.
LEMMA SumCons ==
    ASSUME NEW n \in Nat, NEW t \in [1 .. n + 1 -> Int], t[1] = 0
    PROVE  ModSum(t) = ModSum([l \in 1 .. n |-> t[l + 1]])
<1> DEFINE s == [l \in 1 .. n |-> t[l + 1]]
           S == {k \in 0 .. n : Part(t, k + 1) = Part(s, k)}
<1>1. s \in [1 .. n -> Int] /\ n + 1 \in Nat
      OBVIOUS
<1>2. \A l \in 1 .. n : s[l] = t[l + 1]
      OBVIOUS
<1> HIDE DEF s
<1>3. 0 \in S
  <2>1. Part(t, 0) = 0 /\ 1 \in 1 .. n + 1 /\ 1 - 1 = 0 /\ Part(s, 0) = 0
        BY <1>1, PartSteps
  <2>2. Part(t, 1) = (Part(t, 1 - 1) + t[1]) % P
        BY <1>1, <2>1, PartSteps
  <2>3. Part(t, 1) = 0
        BY <2>1, <2>2, InField
  <2> QED BY <2>1, <2>3
<1>4. ASSUME NEW k \in 0 .. n - 1, k \in S PROVE k + 1 \in S
  <2>1. /\ k + 1 \in 1 .. n /\ (k + 1) - 1 = k /\ k + 1 \in 0 .. n
        /\ (k + 1) + 1 \in 1 .. n + 1 /\ ((k + 1) + 1) - 1 = k + 1
        OBVIOUS
  <2>2. Part(t, (k + 1) + 1) = (Part(t, k + 1) + t[(k + 1) + 1]) % P
        BY <1>1, <2>1, PartSteps
  <2>3. Part(s, k + 1) = (Part(s, k) + s[k + 1]) % P
        BY <1>1, <2>1, PartSteps
  <2>4. Part(t, k + 1) = Part(s, k) /\ s[k + 1] = t[(k + 1) + 1]
        BY <1>2, <1>4, <2>1
  <2>5. Part(t, (k + 1) + 1) = Part(s, k + 1)
        BY <2>2, <2>3, <2>4, Zenon
  <2> QED BY <2>1, <2>5
<1>5. n \in S
  <2> HIDE DEF S
  <2>1. 0 .. n \subseteq S
        BY <1>3, <1>4, BoundedInduction
  <2> QED BY <2>1
<1>6. Part(t, n + 1) = ModSum(t) /\ Part(s, n) = ModSum(s)
      BY <1>1, PartSteps
<1> QED BY <1>5, <1>6 DEF s

\* What SpanOf gives.
LEMMA SpanIs ==
    ASSUME NEW n \in Nat, NEW vecs \in [1 .. n -> Vector]
    PROVE  SpanOf(vecs) = Span(vecs, n)
<1> DEFINE w == <<Zero>> \o vecs
<1>0. Len(vecs) = n /\ vecs \in Seq(Vector) /\ Zero \in Vector
      BY Vectors
<1>1. w \in [1 .. n + 1 -> Vec(N)] /\ w[1] = Zero /\ \A l \in 1 .. n : w[l + 1] = vecs[l]
  <2>1. w \in Seq(Vector) /\ Len(w) = n + 1
        BY <1>0
  <2>2. w[1] = Zero /\ \A l \in 1 .. n : w[l + 1] = vecs[l]
        BY <1>0
  <2> HIDE DEF w
  <2>3. w \in [1 .. n + 1 -> Vector]
        BY <2>1
  <2> QED BY <2>2, <2>3, Vectors
<1>2. ASSUME NEW c \in [1 .. n -> Field]
      PROVE  LinearCombination(w, <<0>> \o c) = Comb(vecs, c, n, N)
  <2> DEFINE d == <<0>> \o c
  <2>1. d \in [1 .. n + 1 -> Field] /\ d[1] = 0 /\ \A l \in 1 .. n : d[l + 1] = c[l]
    <3>1. c \in Seq(Field) /\ Len(c) = n /\ 0 \in Field
          BY InField
    <3>2. d \in Seq(Field) /\ Len(d) = n + 1
          BY <3>1
    <3>3. d[1] = 0 /\ \A l \in 1 .. n : d[l + 1] = c[l]
          BY <3>1
    <3> HIDE DEF d
    <3> QED BY <3>2, <3>3
  <2> HIDE DEF d, w
  <2>2. LinearCombination(w, d) = Comb(w, d, n + 1, N)
    <3>1. n + 1 \in Nat \ {0} /\ N \in Nat
          BY Vectors
    <3> QED BY <1>1, <3>1, CombIs
  <2>3. ASSUME NEW i \in 1 .. N
        PROVE  ModSum([l \in 1 .. n + 1 |-> d[l] * w[l][i]]) = ModSum([l \in 1 .. n |-> c[l] * vecs[l][i]])
    <3> DEFINE t == [l \in 1 .. n + 1 |-> d[l] * w[l][i]]
    <3>1. t \in [1 .. n + 1 -> Int]
      <4>1. n + 1 \in Nat /\ N \in Nat
            BY Vectors
      <4> QED BY <1>1, <2>1, <4>1, CombTerms
    <3>2. t[1] = 0
      <4>1. 1 \in 1 .. n + 1 /\ w[1][i] = 0
            BY <1>1 DEF Zero
      <4> QED BY <2>1, <4>1
    <3>3. [l \in 1 .. n |-> t[l + 1]] = [l \in 1 .. n |-> c[l] * vecs[l][i]]
      <4>1. \A l \in 1 .. n : t[l + 1] = c[l] * vecs[l][i]
            BY <1>1, <2>1
      <4> HIDE DEF t
      <4> QED BY <4>1
    <3> HIDE DEF t
    <3>4. ModSum(t) = ModSum([l \in 1 .. n |-> t[l + 1]])
          BY <3>1, <3>2, SumCons
    <3> QED BY <3>3, <3>4, Zenon DEF t
  <2>4. Comb(w, d, n + 1, N) = Comb(vecs, c, n, N)
        BY <2>3, Zenon DEF Comb
  <2> QED BY <2>2, <2>4 DEF d
<1> HIDE DEF w
<1>3. SpanOf(vecs) = {LinearCombination(w, <<0>> \o c) : c \in [1 .. n -> Field]}
      BY <1>0 DEF SpanOf, w
<1>4. {LinearCombination(w, <<0>> \o c) : c \in [1 .. n -> Field]} = Span(vecs, n)
      BY <1>2 DEF Span
<1> QED BY <1>3, <1>4

\* A span is a subspace, and it holds the vectors that span it.
LEMMA SpanSubspace ==
    ASSUME NEW n \in Nat, NEW vecs \in [1 .. n -> Vector]
    PROVE  Subspace(Span(vecs, n)) /\ \A k \in 1 .. n : vecs[k] \in Span(vecs, n)
<1>0. N \in Nat /\ Vector = Vec(N) /\ vecs \in [1 .. n -> Vec(N)]
      BY Vectors
<1>1. Span(vecs, n) \subseteq Vector
      BY <1>0, CombType DEF Span
<1>2. Zero \in Span(vecs, n)
  <2> DEFINE c == [l \in 1 .. n |-> 0]
  <2>1. c \in [1 .. n -> Field] /\ AllZero(c, n)
        BY InField DEF AllZero
  <2> HIDE DEF c
  <2>2. Comb(vecs, c, n, N) = ZeroVec(N)
        BY <1>0, <2>1, CombZero
  <2> QED BY <2>1, <2>2 DEF Span, Zero, ZeroVec
<1>3. ASSUME NEW u \in Span(vecs, n), NEW v \in Span(vecs, n), NEW k \in Int
      PROVE  Plus(u, v, k, N) \in Span(vecs, n)
  <2>1. PICK c \in [1 .. n -> Field] : u = Comb(vecs, c, n, N)
        BY DEF Span
  <2>2. PICK d \in [1 .. n -> Field] : v = Comb(vecs, d, n, N)
        BY DEF Span
  <2>3. c \in Vec(n) /\ d \in Vec(n)
        BY DEF Vec
  <2>4. Plus(c, d, k, n) \in Vec(n)
        BY <2>3, PlusType
  <2>5. Comb(vecs, Plus(c, d, k, n), n, N) = Plus(u, v, k, N)
        BY <1>0, <2>1, <2>2, <2>3, CombLinear
  <2> QED BY <2>4, <2>5 DEF Span, Vec
<1>4. ASSUME NEW k \in 1 .. n PROVE vecs[k] \in Span(vecs, n)
  <2> DEFINE c == [l \in 1 .. n |-> IF l = k THEN 1 ELSE 0]
  <2>1. c \in [1 .. n -> Field]
        BY InField
  <2>2. Comb(vecs, c, n, N) = vecs[k]
        BY <1>0, CombUnit
  <2> HIDE DEF c
  <2> QED BY <2>1, <2>2 DEF Span
<1> QED BY <1>1, <1>2, <1>3, <1>4 DEF Subspace

\* What one vector more adds to a span.
LEMMA SpanSnoc ==
    ASSUME NEW n \in Nat, NEW vecs \in [1 .. n + 1 -> Vector]
    PROVE  Span(vecs, n + 1) = {Plus(u, vecs[n + 1], c, N) : u \in Span(vecs, n), c \in Field}
<1>0. /\ N \in Nat /\ Vector = Vec(N) /\ vecs \in [1 .. n + 1 -> Vec(N)]
      /\ n + 1 \in Nat /\ n + 1 \in 1 .. n + 1 /\ n \in 0 .. n + 1 /\ n \in 0 .. (n + 1) - 1
      BY Vectors
<1>1. ASSUME NEW c \in [1 .. n + 1 -> Field]
      PROVE  Comb(vecs, c, n + 1, N) = Plus(Comb(vecs, c, n, N), vecs[n + 1], c[n + 1], N)
  <2>1. \A i \in 1 .. N : Comb(vecs, c, n + 1, N)[i] =
                              (Comb(vecs, c, n, N)[i] + c[n + 1] * vecs[n + 1][i]) % P
        BY <1>0, CombSteps
  <2>2. Comb(vecs, c, n + 1, N) = [i \in 1 .. N |-> Comb(vecs, c, n + 1, N)[i]]
        BY Zenon DEF Comb
  <2> QED BY <2>1, <2>2 DEF Plus
<1>2. ASSUME NEW c \in [1 .. n + 1 -> Field]
      PROVE  Comb(vecs, c, n + 1, N) \in {Plus(u, vecs[n + 1], k, N) : u \in Span(vecs, n), k \in Field}
  <2> DEFINE d == [l \in 1 .. n |-> c[l]]
  <2>1. d \in [1 .. n -> Field] /\ c[n + 1] \in Field /\ \A l \in 1 .. n : d[l] = c[l]
        BY <1>0
  <2> HIDE DEF d
  <2>2. Comb(vecs, d, n, N) = Comb(vecs, c, n, N)
        BY <1>0, <2>1, CombEqual
  <2>3. Comb(vecs, d, n, N) \in Span(vecs, n)
        BY <2>1 DEF Span
  <2> QED BY <1>1, <2>1, <2>2, <2>3
<1>3. ASSUME NEW u \in Span(vecs, n), NEW k \in Field
      PROVE  Plus(u, vecs[n + 1], k, N) \in Span(vecs, n + 1)
  <2>1. PICK d \in [1 .. n -> Field] : u = Comb(vecs, d, n, N)
        BY DEF Span
  <2> DEFINE c == [l \in 1 .. n + 1 |-> IF l = n + 1 THEN k ELSE d[l]]
  <2>2. c \in [1 .. n + 1 -> Field] /\ c[n + 1] = k /\ \A l \in 1 .. n : c[l] = d[l]
        OBVIOUS
  <2> HIDE DEF c
  <2>3. Comb(vecs, c, n, N) = Comb(vecs, d, n, N)
        BY <1>0, <2>2, CombEqual
  <2>4. Comb(vecs, c, n + 1, N) = Plus(u, vecs[n + 1], k, N)
        BY <1>1, <2>1, <2>2, <2>3
  <2> QED BY <2>2, <2>4 DEF Span
<1>4. Span(vecs, n + 1) = {Comb(vecs, c, n + 1, N) : c \in [1 .. n + 1 -> Field]}
      BY DEF Span
<1> QED BY <1>2, <1>3, <1>4

\* The span is that of the vectors it is made of, and of no more.
LEMMA SpanEqual ==
    ASSUME NEW n \in Nat, NEW u, NEW v, \A l \in 1 .. n : u[l] = v[l]
    PROVE  Span(u, n) = Span(v, n)
<1>1. ASSUME NEW c \in [1 .. n -> Field] PROVE Comb(u, c, n, N) = Comb(v, c, n, N)
      BY Vectors, CombEqual
<1> QED BY <1>1 DEF Span

\* No vectors span the zero vector alone.
LEMMA SpanNone ==
    ASSUME NEW vecs
    PROVE  Span(vecs, 0) = {Zero}
<1> DEFINE e == [l \in 1 .. 0 |-> Zero]
<1>1. e \in [1 .. 0 -> Vec(N)] /\ N \in Nat /\ 0 \in Nat
      BY Vectors
<1>2. ASSUME NEW c \in [1 .. 0 -> Field] PROVE Comb(e, c, 0, N) = Zero
  <2> HIDE DEF e
  <2>1. \A i \in 1 .. N : Comb(e, c, 0, N)[i] = 0
        BY <1>1, CombSteps
  <2>2. Comb(e, c, 0, N) = [i \in 1 .. N |-> Comb(e, c, 0, N)[i]]
        BY Zenon DEF Comb
  <2> QED BY <2>1, <2>2 DEF Zero
<1>3. Span(e, 0) = {Zero}
  <2>1. [l \in 1 .. 0 |-> 0] \in [1 .. 0 -> Field]
        OBVIOUS
  <2> HIDE DEF e
  <2> QED BY <1>2, <2>1 DEF Span
<1>4. Span(e, 0) = Span(vecs, 0)
  <2>1. \A l \in 1 .. 0 : e[l] = vecs[l]
        OBVIOUS
  <2> HIDE DEF e
  <2> QED BY <1>1, <2>1, SpanEqual
<1> QED BY <1>3, <1>4

\* The unit vectors span everything, and the first n of them nothing but zero in the
\* columns after the n-th.
LEMMA SpanUnits ==
    ASSUME NEW n \in 0 .. N, NEW vecs, \A l \in 1 .. n : vecs[l] = Unit(l)
    PROVE  /\ n = N => Span(vecs, n) = Vector
           /\ \A u \in Span(vecs, n) : \A i \in n + 1 .. N : u[i] = 0
<1>0. N \in Nat /\ n \in Nat /\ 1 .. n \subseteq 1 .. N
      BY Vectors
<1> DEFINE units == [l \in 1 .. n |-> Unit(l)]
<1>1. units \in [1 .. n -> Vector] /\ \A l \in 1 .. n : units[l] = Unit(l)
      BY <1>0, Vectors
<1>2. Span(vecs, n) = Span(units, n)
  <2> HIDE DEF units
  <2> QED BY <1>0, <1>1, SpanEqual
<1>3. ASSUME n = N PROVE Span(units, n) = Vector
  <2>1. Span(units, n) \subseteq Vector
    <3> HIDE DEF units
    <3> QED BY <1>0, <1>1, SpanSubspace DEF Subspace
  <2>2. ASSUME NEW b \in Vector PROVE b \in Span(units, n)
    <3>1. Comb([l \in 1 .. N |-> Unit(l)], b, N, N) = b
          BY CombOfUnits
    <3>2. Comb(units, b, n, N) = b
          BY <1>3, <3>1
    <3>3. b \in [1 .. n -> Field]
          BY <1>3 DEF Vector
    <3> HIDE DEF units
    <3> QED BY <3>2, <3>3 DEF Span
  <2> QED BY <2>1, <2>2
<1>4. ASSUME NEW u \in Span(units, n), NEW i \in n + 1 .. N PROVE u[i] = 0
  <2> HIDE DEF units
  <2>1. PICK c \in [1 .. n -> Field] : u = Comb(units, c, n, N)
        BY DEF Span
  <2>2. i \in 1 .. N
        BY <1>0
  <2> DEFINE t == [l \in 1 .. n |-> c[l] * units[l][i]]
  <2>3. \A l \in 1 .. n : units[l][i] = 0 /\ c[l] \in Int
        BY <1>0, <1>1, <2>2, InField DEF Unit
  <2>4. (\A l \in 1 .. n : t[l] = 0) /\ t \in [1 .. n -> Int]
        BY <2>3
  <2>5. u[i] = ModSum(t)
        BY <2>1, <2>2 DEF Comb
  <2> HIDE DEF t
  <2>6. ModSum(t) = 0
    <3>1. 0 \in Int /\ 0 \notin 1 .. n
          BY <1>0
    <3> QED BY <1>0, <2>4, <3>1, SumOne
  <2> QED BY <2>5, <2>6
<1> HIDE DEF units
<1> QED BY <1>2, <1>3, <1>4

\* If a multiple of v and u add up to nothing, v is a multiple of u.
LEMMA MultipleOf ==
    ASSUME NEW u \in Vector, NEW v \in Vector, NEW a \in NonZero, Plus(u, v, a, N) = Zero
    PROVE  v = Plus(Zero, u, 0 - Inv(a), N)
<1> DEFINE c == Inv(a)
<1>1. c \in NonZero /\ (a * c) % P = 1 /\ a \in Int /\ c \in Int
      BY Inverses, InField DEF NonZero
<1> HIDE DEF c
<1>2. ASSUME NEW i \in 1 .. N PROVE (0 + (0 - c) * u[i]) % P = v[i]
  <2> DEFINE x == u[i]   y == v[i]
  <2>1. x \in Int /\ y \in Int /\ y % P = y
        BY Vectors
  <2>2. (x + a * y) % P = 0
    <3>1. Plus(u, v, a, N)[i] = (x + a * y) % P
          BY PlusAt
    <3>2. Zero[i] = 0
          BY DEF Zero
    <3> QED BY <3>1, <3>2
  <2> HIDE DEF x, y
  <2>3. x + a * y \in Int /\ a * c \in Int /\ -c \in Int /\ (-c) * x \in Int
    <3>1. a * y \in Int /\ a * c \in Int /\ -c \in Int
          BY <1>1, <2>1, Z3
    <3>2. (-c) * x \in Int
          BY <2>1, <3>1, Z3
    <3> QED BY <2>1, <3>1, <3>2
  <2>4. ((-c) * x + c * (x + a * y)) % P = ((-c) * x) % P
    <3>1. ((((-c) * x) % P) + c * ((x + a * y) % P)) % P = ((-c) * x + c * (x + a * y)) % P
      <4> DEFINE p == (-c) * x   q == x + a * y
      <4>1. p \in Int /\ q \in Int
            BY <2>3
      <4> HIDE DEF p, q
      <4>2. ((p % P) + c * (q % P)) % P = (p + c * q) % P
            BY <1>1, <4>1, ModScaled
      <4> QED BY <4>2 DEF p, q
    <3>2. (((-c) * x) % P) + c * 0 = ((-c) * x) % P /\ (((-c) * x) % P) % P = ((-c) * x) % P
          BY <1>1, <2>3, Remainder, InField
    <3> QED BY <2>2, <3>1, <3>2
  <2>5. (-c) * x + c * (x + a * y) = (a * c) * y
        BY <1>1, <2>1, Z3
  <2>6. ((a * c) * y) % P = y
    <3>1. (((a * c) % P) * y) % P = ((a * c) * y) % P
          BY <2>1, <2>3, ModOps
    <3>2. 1 * y = y
          BY <2>1
    <3> QED BY <1>1, <2>1, <3>1, <3>2
  <2>7. 0 + (0 - c) * x = (-c) * x
        BY <1>1, <2>1, Z3
  <2> QED BY <2>4, <2>5, <2>6, <2>7 DEF x, y
<1>3. \A i \in 1 .. N : Plus(Zero, u, 0 - c, N)[i] = v[i]
  <2>1. ASSUME NEW i \in 1 .. N PROVE Plus(Zero, u, 0 - c, N)[i] = v[i]
    <3>1. Plus(Zero, u, 0 - c, N)[i] = (Zero[i] + (0 - c) * u[i]) % P
          BY PlusAt
    <3>2. Zero[i] = 0
          BY DEF Zero
    <3> QED BY <1>2, <3>1, <3>2
  <2> QED BY <2>1
<1>4. Plus(Zero, u, 0 - c, N) \in Vector
  <2>1. 0 - c \in Int
        BY <1>1
  <2> QED BY <2>1, PlusVector, Vectors
<1>5. v = Plus(Zero, u, 0 - c, N)
  <2> DEFINE w == Plus(Zero, u, 0 - c, N)
  <2>1. w \in Vector /\ \A i \in 1 .. N : w[i] = v[i]
        BY <1>3, <1>4
  <2> HIDE DEF w
  <2>2. w = [i \in 1 .. N |-> w[i]] /\ v = [i \in 1 .. N |-> v[i]]
        BY <2>1 DEF Vector
  <2>3. [i \in 1 .. N |-> w[i]] = [i \in 1 .. N |-> v[i]]
        BY <2>1
  <2> QED BY <2>2, <2>3 DEF w
<1> QED BY <1>5 DEF c

---------------------------------------------------------------------------
\* Reduction.

\* The rows of an echelon form of rank r, as far as their types go.
RowsTyped(e, r) ==
    /\ r \in Nat /\ Len(e.rows) = r
    /\ e.rows \in [1 .. r -> Vector] /\ e.pivots \in [1 .. r -> 1 .. N]
    /\ e.transform \in [1 .. r -> Vector]
    /\ e = [rows |-> e.rows, pivots |-> e.pivots, transform |-> e.transform]

RowPair == [row : Vector, trow : Vector]

\* Clearing a pivot gives a row and a transformation again.
LEMMA ClearPivotType ==
    ASSUME NEW e, NEW r, RowsTyped(e, r), NEW x \in RowPair, NEW j \in 1 .. r
    PROVE  /\ ClearPivot(e, x, j) \in RowPair
           /\ x.row[e.pivots[j]] \in Int
           /\ ClearPivot(e, x, j).row = Plus(x.row, e.rows[j], 0 - x.row[e.pivots[j]], N)
           /\ ClearPivot(e, x, j).trow = Plus(x.trow, e.transform[j], 0 - x.row[e.pivots[j]], N)
<1> DEFINE f == x.row[e.pivots[j]]
<1>1. /\ x.row \in Vector /\ x.trow \in Vector /\ e.rows[j] \in Vector /\ e.transform[j] \in Vector
      /\ e.pivots[j] \in 1 .. N
      BY DEF RowsTyped, RowPair
<1>2. f \in Int
      BY <1>1, Vectors
<1>3. ClearPivot(e, x, j) = [row |-> SubScaled(x.row, e.rows[j], f),
                             trow |-> SubScaled(x.trow, e.transform[j], f)]
      BY Zenon DEF ClearPivot
<1> HIDE DEF f
<1>4. /\ SubScaled(x.row, e.rows[j], f) = Plus(x.row, e.rows[j], 0 - f, N)
      /\ SubScaled(x.trow, e.transform[j], f) = Plus(x.trow, e.transform[j], 0 - f, N)
      BY <1>1, <1>2, StepsArePlus
<1>5. /\ Plus(x.row, e.rows[j], 0 - f, N) \in Vector
      /\ Plus(x.trow, e.transform[j], 0 - f, N) \in Vector
  <2>1. 0 - f \in Int
        BY <1>2
  <2> QED BY <1>1, <2>1, Vectors, PlusType
<1>6. ClearPivot(e, x, j) \in RowPair
      BY <1>3, <1>4, <1>5 DEF RowPair
<1>7. /\ ClearPivot(e, x, j).row = Plus(x.row, e.rows[j], 0 - f, N)
      /\ ClearPivot(e, x, j).trow = Plus(x.trow, e.transform[j], 0 - f, N)
      BY <1>3, <1>4
<1> QED BY <1>2, <1>6, <1>7 DEF f

\* The rows a reduction goes through.
ReductionOf(c, e, row, r) ==
    /\ c \in [0 .. r -> RowPair]
    /\ c[0] = [row |-> row, trow |-> Unit(r + 1)] /\ c[r] = Reduced(e, row)
    /\ \A k \in 1 .. r : c[k] = ClearPivot(e, c[k - 1], k)

\* A reduction clears the pivots of the rows one after the other.
LEMMA ReducedChain ==
    ASSUME NEW e, NEW r, RowsTyped(e, r), NEW row \in Vector
    PROVE  \E c : ReductionOf(c, e, row, r)
<1> DEFINE base == [row |-> row, trow |-> Unit(Rank(e) + 1)]
           index == [j \in 1 .. Rank(e) |-> j]
           Computes(iter) ==
               iter = [s \in SUBSET DOMAIN index |->
                           IF s = {} THEN base
                           ELSE ClearPivot(e, iter[s \ {Max(s)}], index[Max(s)])]
           fold == CHOOSE iter : Computes(iter)
           g == [x \in RowPair \X (1 .. r) |-> ClearPivot(e, x[1], x[2])]
<1>0. r \in Nat /\ Rank(e) = r /\ DOMAIN index = 1 .. r
      BY DEF RowsTyped, Rank
<1>1. Reduced(e, row) = fold[DOMAIN index]
      BY Zenon DEF Reduced, FoldLeft, MapThenFoldSet
<1>2. g \in [RowPair \X (1 .. r) -> RowPair]
  <2> SUFFICES ASSUME NEW x \in RowPair \X (1 .. r) PROVE ClearPivot(e, x[1], x[2]) \in RowPair
      OBVIOUS
  <2> QED BY ClearPivotType
<1>3. base \in RowPair
  <2>1. Unit(Rank(e) + 1) \in Vector
        BY InField DEF Unit, Vector
  <2> QED BY <2>1 DEF RowPair
<1>4. PICK it : IsFold(it, RowPair, base, g, r)
  <2> HIDE DEF g, base
  <2> QED BY <1>0, <1>2, <1>3, FoldExists
<1>5. ASSUME NEW s \in SUBSET (1 .. r), s # {}
      PROVE  Max(s) \in 1 .. r /\ s \ {Max(s)} \in SUBSET (1 .. r) /\ index[Max(s)] = Max(s)
  <2>1. Max(s) \in s
        BY <1>0, <1>5, MaxMember
  <2> QED BY <1>0, <2>1
<1> HIDE DEF base
<1>6. Computes(it)
  <2>1. it \in [SUBSET (1 .. r) -> RowPair]
        BY <1>4 DEF IsFold
  <2>2. ASSUME NEW s \in SUBSET (1 .. r)
        PROVE  it[s] = IF s = {} THEN base ELSE ClearPivot(e, it[s \ {Max(s)}], index[Max(s)])
    <3>1. it[s] = IF s = {} THEN base ELSE g[<<it[s \ {Max(s)}], Max(s)>>]
          BY <1>4 DEF IsFold
    <3>2. ASSUME s # {} PROVE g[<<it[s \ {Max(s)}], Max(s)>>] = ClearPivot(e, it[s \ {Max(s)}], Max(s))
      <4>1. <<it[s \ {Max(s)}], Max(s)>> \in RowPair \X (1 .. r)
            BY <1>5, <2>1, <3>2
      <4> QED BY <4>1
    <3> HIDE DEF index, g
    <3> QED BY <1>5, <3>1, <3>2
  <2> HIDE DEF index, g
  <2> QED BY <1>0, <2>1, <2>2
<1>7. Computes(fold)
  <2> HIDE DEF Computes
  <2> QED BY <1>6, Zenon
<1>8. ASSUME NEW s \in SUBSET (1 .. r)
      PROVE  fold[s] = IF s = {} THEN base ELSE ClearPivot(e, fold[s \ {Max(s)}], index[Max(s)])
  <2> HIDE DEF fold, index
  <2> QED BY <1>0, <1>7
<1> HIDE DEF Computes, fold, index
<1>9. fold[{}] = base
      BY <1>8
<1>10. ASSUME NEW k \in 1 .. r, fold[1 .. k - 1] \in RowPair
       PROVE  /\ fold[1 .. k] = g[<<fold[1 .. k - 1], k>>]
              /\ fold[1 .. k] = ClearPivot(e, fold[1 .. k - 1], k)
  <2>1. k \in Nat \ {0} /\ 1 .. k \in SUBSET (1 .. r)
        BY <1>0
  <2>2. Max(1 .. k) = k /\ (1 .. k) \ {k} = 1 .. k - 1 /\ 1 .. k # {}
        BY <2>1, FoldSteps, Zenon
  <2>3. index[k] = k
        BY <1>5, <2>1, <2>2
  <2>4. fold[1 .. k] = ClearPivot(e, fold[1 .. k - 1], k)
        BY <1>8, <2>1, <2>2, <2>3
  <2>5. <<fold[1 .. k - 1], k>> \in RowPair \X (1 .. r)
        BY <1>10
  <2> QED BY <2>4, <2>5
<1>11. PICK c : IsChain(c, fold, RowPair, base, g, r)
  <2>1. TakesSteps(fold, RowPair, base, g, r)
    <3> HIDE DEF g
    <3> QED BY <1>9, <1>10 DEF TakesSteps
  <2> HIDE DEF g
  <2> QED BY <1>0, <1>2, <1>3, <2>1, FoldChain
<1>12. ASSUME NEW k \in 1 .. r PROVE c[k] = ClearPivot(e, c[k - 1], k)
  <2>1. <<c[k - 1], k>> \in RowPair \X (1 .. r)
        BY <1>0, <1>11 DEF IsChain
  <2> QED BY <1>11, <2>1 DEF IsChain
<1>13. c \in [0 .. r -> RowPair] /\ c[0] = base /\ c[r] = fold[1 .. r]
       BY <1>11 DEF IsChain
<1> QED BY <1>0, <1>1, <1>11, <1>12, <1>13 DEF base, ReductionOf

---------------------------------------------------------------------------
\* What an echelon form of r inserted rows is.

\* Every row begins with a one at its pivot, where no later row has anything.
Leads(e, r) ==
    \A j \in 1 .. r :
        /\ e.rows[j][e.pivots[j]] = 1
        /\ \A k \in 1 .. e.pivots[j] - 1 : e.rows[j][k] = 0
        /\ \A i \in 1 .. j - 1 : e.rows[j][e.pivots[i]] = 0

\* The transformation leads from the rows inserted to those of the form.
LedTo(e, vecs, r) ==
    \A j \in 1 .. r :
        /\ e.rows[j] = Comb(vecs, e.transform[j], r, N)
        /\ \A k \in r + 1 .. N : e.transform[j][k] = 0

\* Only the zero vector of S vanishes at all pivots.
Detects(e, S, r) ==
    \A u \in S : (\A j \in 1 .. r : u[e.pivots[j]] = 0) => u = Zero

EchelonOf(e, vecs, r) ==
    /\ RowsTyped(e, r) /\ r \in 0 .. N /\ vecs \in [1 .. r -> Vector]
    /\ Leads(e, r)
    /\ LedTo(e, vecs, r)
    /\ Detects(e, Span(vecs, r), r)
    /\ r # 0 => vecs[r] \notin Span(vecs, r - 1)

\* r vectors and one more.
More(vecs, row, r) == [l \in 1 .. r + 1 |-> IF l = r + 1 THEN row ELSE vecs[l]]

\* The vectors of More.
LEMMA MoreVectors ==
    ASSUME NEW r \in Nat, NEW vecs \in [1 .. r -> Vector], NEW row \in Vector
    PROVE  /\ More(vecs, row, r) \in [1 .. r + 1 -> Vector] /\ More(vecs, row, r)[r + 1] = row
           /\ \A l \in 1 .. r : More(vecs, row, r)[l] = vecs[l]
           /\ Span(More(vecs, row, r), r) = Span(vecs, r)
<1>1. /\ More(vecs, row, r) \in [1 .. r + 1 -> Vector] /\ More(vecs, row, r)[r + 1] = row
      /\ \A l \in 1 .. r : More(vecs, row, r)[l] = vecs[l]
      BY DEF More
<1>2. Span(More(vecs, row, r), r) = Span(vecs, r)
      BY <1>1, SpanEqual
<1> QED BY <1>1, <1>2

\* The rows are in the span of what was inserted, and stay the same combinations when
\* there is one more.
LEMMA RowsSpanned ==
    ASSUME NEW e, NEW r, NEW vecs, EchelonOf(e, vecs, r), NEW row \in Vector, NEW j \in 1 .. r
    PROVE  /\ e.rows[j] \in Span(vecs, r)
           /\ r < N => e.rows[j] = Comb(More(vecs, row, r), e.transform[j], r + 1, N)
<1> DEFINE t == e.transform[j]
           d == [l \in 1 .. r |-> t[l]]
           more == More(vecs, row, r)
           f == [l \in 1 .. r + 1 |-> t[l]]
<1>1. /\ r \in Nat /\ N \in Nat /\ Vector = Vec(N) /\ 1 .. r \subseteq 1 .. N
      /\ vecs \in [1 .. r -> Vector] /\ r + 1 \in Nat /\ 1 .. r \subseteq 1 .. r + 1
      /\ r < N => r + 1 \in 1 .. N /\ 1 .. r + 1 \subseteq 1 .. N /\ r + 1 \in r + 1 .. N
      BY Vectors DEF EchelonOf
<1>2. t \in Vector /\ e.rows[j] = Comb(vecs, t, r, N) /\ (r < N => t[r + 1] = 0)
      BY <1>1 DEF EchelonOf, RowsTyped, LedTo
<1>3. /\ d \in [1 .. r -> Field] /\ (\A l \in 1 .. r : d[l] = t[l])
      /\ \A l \in 1 .. r + 1 : f[l] = t[l]
      BY <1>1, <1>2 DEF Vector
<1>4. ASSUME r < N PROVE f \in [1 .. r + 1 -> Field] /\ f[r + 1] = 0
      BY <1>1, <1>2, <1>4 DEF Vector
<1> HIDE DEF t, d, f
<1>5. e.rows[j] \in Span(vecs, r)
  <2>1. Comb(vecs, d, r, N) = Comb(vecs, t, r, N)
        BY <1>1, <1>3, CombEqual
  <2> QED BY <1>2, <1>3, <2>1 DEF Span
<1>6. ASSUME r < N PROVE e.rows[j] = Comb(more, t, r + 1, N)
  <2>1. more \in [1 .. r + 1 -> Vec(N)] /\ \A l \in 1 .. r : more[l] = vecs[l]
    <3>1. r \in Nat /\ vecs \in [1 .. r -> Vector]
          BY <1>1
    <3>2. more \in [1 .. r + 1 -> Vector] /\ \A l \in 1 .. r : more[l] = vecs[l]
          BY <3>1, MoreVectors
    <3> HIDE DEF more
    <3> QED BY <1>1, <3>2
  <2> HIDE DEF more
  <2>2. Comb(more, f, r + 1, N) = Comb(more, f, r, N)
        BY <1>1, <1>4, <1>6, <2>1, CombSnoc
  <2>3. Comb(more, f, r + 1, N) = Comb(more, t, r + 1, N)
        BY <1>1, <1>3, CombEqual
  <2>4. Comb(more, f, r, N) = Comb(vecs, t, r, N)
        BY <1>1, <1>3, <2>1, CombEqual
  <2> QED BY <1>2, <2>2, <2>3, <2>4
<1> QED BY <1>5, <1>6 DEF t, more

\* What is known of a row after its first k reductions.
ReducedBy(e, vecs, row, r, k, x) ==
    /\ \A j \in 1 .. k : x.row[e.pivots[j]] = 0
    /\ \E s \in Span(vecs, r) : x.row = Plus(row, s, 1, N)
    /\ r < N => x.row = Comb(More(vecs, row, r), x.trow, r + 1, N)
    /\ \A l \in r + 2 .. N : x.trow[l] = 0

\* Before the first.
LEMMA ReductionStarts ==
    ASSUME NEW e, NEW r, NEW vecs, EchelonOf(e, vecs, r), NEW row \in Vector
    PROVE  ReducedBy(e, vecs, row, r, 0, [row |-> row, trow |-> Unit(r + 1)])
<1> DEFINE x == [row |-> row, trow |-> Unit(r + 1)]
           more == More(vecs, row, r)
           c == [l \in 1 .. r + 1 |-> IF l = r + 1 THEN 1 ELSE 0]
<1>1. /\ r \in Nat /\ r + 1 \in Nat /\ N \in Nat /\ Vector = Vec(N) /\ vecs \in [1 .. r -> Vector]
      /\ r + 1 \in 1 .. r + 1 /\ (r < N => 1 .. r + 1 \subseteq 1 .. N)
      BY Vectors DEF EchelonOf
<1>2. \E s \in Span(vecs, r) : x.row = Plus(row, s, 1, N)
  <2>1. Zero \in Span(vecs, r) /\ Zero \in Vector
        BY <1>1, SpanSubspace, Vectors DEF Subspace
  <2>2. Plus(row, Zero, 1, N) = row
    <3>1. ASSUME NEW i \in 1 .. N PROVE (row[i] + 1 * Zero[i]) % P = row[i]
      <4>1. row[i] \in Int /\ row[i] % P = row[i] /\ Zero[i] = 0
            BY Vectors DEF Zero
      <4>2. row[i] + 1 * Zero[i] = row[i]
            BY <4>1
      <4> QED BY <4>1, <4>2
    <3> QED BY <3>1 DEF Plus, Vector
  <2> QED BY <2>1, <2>2
<1>3. more \in [1 .. r + 1 -> Vec(N)] /\ more[r + 1] = row
      BY <1>1, MoreVectors
<1>4. Comb(more, c, r + 1, N) = row
  <2> HIDE DEF more
  <2> QED BY <1>1, <1>3, CombUnit
<1>6. ASSUME r < N PROVE Comb(more, c, r + 1, N) = Comb(more, Unit(r + 1), r + 1, N)
  <2>1. \A l \in 1 .. r + 1 : c[l] = Unit(r + 1)[l]
        BY <1>1, <1>6 DEF Unit
  <2> HIDE DEF more, c
  <2> QED BY <1>1, <2>1, CombEqual
<1>7. \A l \in r + 2 .. N : Unit(r + 1)[l] = 0
      BY <1>1 DEF Unit
<1> QED BY <1>2, <1>4, <1>6, <1>7 DEF ReducedBy

\* One more reduction.
LEMMA ReductionStep ==
    ASSUME NEW e, NEW r, NEW vecs, EchelonOf(e, vecs, r), NEW row \in Vector,
           NEW k \in 0 .. r - 1, NEW x \in RowPair, ReducedBy(e, vecs, row, r, k, x)
    PROVE  ReducedBy(e, vecs, row, r, k + 1, ClearPivot(e, x, k + 1))
<1> DEFINE y == ClearPivot(e, x, k + 1)
           f == x.row[e.pivots[k + 1]]
           g == 0 - f
           v == e.rows[k + 1]
           t == e.transform[k + 1]
           more == More(vecs, row, r)
<1>1. /\ r \in Nat /\ r \in 0 .. N /\ (r < N => r + 1 \in 0 .. N) /\ r + 1 \in Nat /\ N \in Nat
      /\ k + 1 \in 1 .. r /\ vecs \in [1 .. r -> Vector] /\ RowsTyped(e, r)
      BY Vectors DEF EchelonOf
<1>2. y \in RowPair /\ f \in Int /\ y.row = Plus(x.row, v, g, N) /\ y.trow = Plus(x.trow, t, g, N)
      BY <1>1, ClearPivotType
<1>3. /\ x.row \in Vector /\ x.trow \in Vector /\ v \in Vector /\ t \in Vector /\ g \in Int
      /\ \A j \in 1 .. r : e.pivots[j] \in 1 .. N
      BY <1>1, <1>2, SMTT(30) DEF RowsTyped, RowPair
<1>4. v[e.pivots[k + 1]] = 1 /\ \A j \in 1 .. k : v[e.pivots[j]] = 0
  <2>1. \A j \in 1 .. k : j \in 1 .. (k + 1) - 1
        OBVIOUS
  <2> QED BY <1>1, <2>1 DEF EchelonOf, Leads
<1>5. ASSUME NEW j \in 1 .. k + 1 PROVE y.row[e.pivots[j]] = 0
  <2> DEFINE p == e.pivots[j]
  <2>1. p \in 1 .. N
        BY <1>1, <1>3
  <2>2. y.row[p] = (x.row[p] + g * v[p]) % P
        BY <1>2, <2>1, PlusAt
  <2>3. CASE j = k + 1
    <3>1. x.row[p] = f /\ v[p] = 1
          BY <1>4, <2>3
    <3>2. f + g * 1 = 0
          BY <1>2
    <3> HIDE DEF f, g
    <3> QED BY <2>2, <3>1, <3>2, InField
  <2>4. CASE j # k + 1
    <3>1. j \in 1 .. k
          BY <2>4
    <3>2. x.row[p] = 0 /\ v[p] = 0
          BY <1>4, <3>1 DEF ReducedBy
    <3>3. 0 + g * 0 = 0
          BY <1>3
    <3> HIDE DEF g
    <3> QED BY <2>2, <3>2, <3>3, InField
  <2> QED BY <2>3, <2>4
<1> HIDE DEF y, f, g, v, t, more
<1>6. \E s \in Span(vecs, r) : y.row = Plus(row, s, 1, N)
  <2>1. PICK s \in Span(vecs, r) : x.row = Plus(row, s, 1, N)
        BY DEF ReducedBy
  <2>2. Subspace(Span(vecs, r)) /\ v \in Span(vecs, r)
        BY <1>1, SpanSubspace, RowsSpanned DEF v
  <2>3. s \in Vector /\ Plus(s, v, g, N) \in Span(vecs, r)
        BY <1>3, <2>1, <2>2 DEF Subspace
  <2>4. Plus(Plus(row, s, 1, N), v, g, N) = Plus(row, Plus(s, v, g, N), 1, N)
        BY <1>3, <2>3, PlusSum
  <2> QED BY <1>2, <2>1, <2>3, <2>4
<1>7. ASSUME r < N PROVE y.row = Comb(more, y.trow, r + 1, N)
  <2>1. x.row = Comb(more, x.trow, r + 1, N)
        BY <1>7 DEF ReducedBy, more
  <2>2. v = Comb(more, t, r + 1, N)
        BY <1>1, <1>7, RowsSpanned DEF v, t, more
  <2>3. more \in [1 .. r + 1 -> Vector]
        BY <1>1, MoreVectors DEF more
  <2>4. Comb(more, Plus(x.trow, t, g, N), r + 1, N) =
            Plus(Comb(more, x.trow, r + 1, N), Comb(more, t, r + 1, N), g, N)
        BY <1>1, <1>3, <1>7, <2>3, CombPlus
  <2> QED BY <1>2, <2>1, <2>2, <2>4
<1>8. ASSUME NEW l \in r + 2 .. N PROVE y.trow[l] = 0
  <2>1. l \in 1 .. N /\ l \in r + 1 .. N
        BY <1>1
  <2>2. x.trow[l] = 0
        BY DEF ReducedBy
  <2>3. t[l] = 0
        BY <1>1, <2>1 DEF EchelonOf, LedTo, t
  <2>4. y.trow[l] = (x.trow[l] + g * t[l]) % P
        BY <1>2, <2>1, PlusAt
  <2>5. 0 + g * 0 = 0
        BY <1>3
  <2> QED BY <2>2, <2>3, <2>4, <2>5, InField
<1> QED BY <1>5, <1>6, <1>7, <1>8 DEF ReducedBy, y, more

\* After the last: all pivots are clear.
LEMMA Reduction ==
    ASSUME NEW e, NEW r, NEW vecs, EchelonOf(e, vecs, r), NEW row \in Vector
    PROVE  Reduced(e, row) \in RowPair /\ ReducedBy(e, vecs, row, r, r, Reduced(e, row))
<1>1. RowsTyped(e, r) /\ r \in Nat
      BY DEF EchelonOf, RowsTyped
<1>a. PICK c : ReductionOf(c, e, row, r)
      BY <1>1, ReducedChain
<1>2. /\ c \in [0 .. r -> RowPair]
      /\ c[0] = [row |-> row, trow |-> Unit(r + 1)] /\ c[r] = Reduced(e, row)
      /\ \A k \in 1 .. r : c[k] = ClearPivot(e, c[k - 1], k)
      BY <1>a DEF ReductionOf
<1> DEFINE S == {k \in 0 .. r : ReducedBy(e, vecs, row, r, k, c[k])}
<1>3. 0 \in S
  <2>1. ReducedBy(e, vecs, row, r, 0, c[0])
        BY <1>2, ReductionStarts
  <2> QED BY <1>1, <2>1
<1>4. ASSUME NEW k \in 0 .. r - 1, k \in S PROVE k + 1 \in S
  <2>1. k + 1 \in 1 .. r /\ k + 1 \in 0 .. r /\ (k + 1) - 1 = k /\ c[k] \in RowPair
        BY <1>1, <1>2
  <2>2. c[k + 1] = ClearPivot(e, c[k], k + 1)
        BY <1>2, <2>1
  <2>3. ReducedBy(e, vecs, row, r, k, c[k])
        BY <1>4
  <2>4. ReducedBy(e, vecs, row, r, k + 1, ClearPivot(e, c[k], k + 1))
        BY <2>1, <2>3, ReductionStep
  <2> QED BY <2>1, <2>2, <2>4
<1>5. 0 .. r \subseteq S
  <2> HIDE DEF S
  <2> QED BY <1>1, <1>3, <1>4, BoundedInduction
<1>6. r \in S /\ r \in 0 .. r
      BY <1>1, <1>5
<1> QED BY <1>2, <1>6

---------------------------------------------------------------------------
\* Independence.

\* A reduced row is the row and something the form spans, and the other way round.
LEMMA ReducedRow ==
    ASSUME NEW e, NEW r, NEW vecs, EchelonOf(e, vecs, r), NEW row \in Vector
    PROVE  \E s \in Span(vecs, r) :
               /\ Reduced(e, row).row = Plus(row, s, 1, N)
               /\ row = Plus(Reduced(e, row).row, s, -1, N)
<1>1. PICK s \in Span(vecs, r) : Reduced(e, row).row = Plus(row, s, 1, N)
      BY Reduction DEF ReducedBy
<1>2. s \in Vector
      BY SpanSubspace DEF EchelonOf, RowsTyped, Subspace
<1>3. Plus(Plus(row, s, 1, N), s, -1, N) = Plus(row, s, 1 + (-1), N)
      BY <1>2, PlusTwice
<1>4. 1 + (-1) = 0
      OBVIOUS
<1>5. Plus(row, s, 0, N) = row
      BY <1>2, PlusNone
<1> QED BY <1>1, <1>3, <1>4, <1>5

\* A reduced row vanishes at all pivots; it is the zero vector if and only if the form
\* spans the row it came from.
LEMMA IndependentIs ==
    ASSUME NEW e, NEW r, NEW vecs, EchelonOf(e, vecs, r), NEW row \in Vector
    PROVE  Independent(e, row) <=> row \notin Span(vecs, r)
<1>1. PICK s \in Span(vecs, r) : /\ Reduced(e, row).row = Plus(row, s, 1, N)
                                 /\ row = Plus(Reduced(e, row).row, s, -1, N)
      BY ReducedRow
<1>2. Subspace(Span(vecs, r))
      BY SpanSubspace DEF EchelonOf, RowsTyped
<1>3. ASSUME row \in Span(vecs, r) PROVE Reduced(e, row).row = Zero
  <2>1. Reduced(e, row).row \in Span(vecs, r)
        BY <1>1, <1>2, <1>3 DEF Subspace
  <2>2. \A j \in 1 .. r : Reduced(e, row).row[e.pivots[j]] = 0
        BY Reduction DEF ReducedBy
  <2> QED BY <2>1, <2>2 DEF EchelonOf, Detects
<1>4. ASSUME Reduced(e, row).row = Zero PROVE row \in Span(vecs, r)
  <2>1. -1 \in Int
        OBVIOUS
  <2>2. Plus(Zero, s, -1, N) \in Span(vecs, r)
        BY <1>2, <2>1 DEF Subspace
  <2> QED BY <1>1, <1>4, <2>2
<1> QED BY <1>3, <1>4 DEF Independent

\* No two rows share a pivot.
LEMMA PivotsDiffer ==
    ASSUME NEW e, NEW r, NEW vecs, EchelonOf(e, vecs, r), NEW i \in 1 .. r, NEW j \in 1 .. r, i < j
    PROVE  e.pivots[i] # e.pivots[j]
<1>1. i \in 1 .. j - 1
      BY DEF EchelonOf
<1>2. e.rows[j][e.pivots[i]] = 0 /\ e.rows[j][e.pivots[j]] = 1
      BY <1>1 DEF EchelonOf, Leads
<1> QED BY <1>2

\* At full rank every column is the pivot of one row.
LEMMA PivotsAll ==
    ASSUME NEW e, NEW vecs, EchelonOf(e, vecs, N), NEW k \in 1 .. N
    PROVE  \E j \in 1 .. N : e.pivots[j] = k
<1>1. N \in Nat /\ e.pivots \in [1 .. N -> 1 .. N]
      BY Vectors DEF EchelonOf, RowsTyped
<1>2. e.pivots \in Injection(1 .. N, 1 .. N)
  <2>1. ASSUME NEW i \in 1 .. N, NEW j \in 1 .. N, e.pivots[i] = e.pivots[j] PROVE i = j
    <3>1. ~(i < j) /\ ~(j < i)
          BY <2>1, PivotsDiffer
    <3> QED BY <1>1, <3>1
  <2> QED BY <1>1, <2>1 DEF Injection, IsInjective
<1>3. IsFiniteSet(1 .. N)
      BY <1>1, FS_Interval
<1>4. e.pivots \in Surjection(1 .. N, 1 .. N)
      BY <1>2, <1>3, FS_Injection
<1> QED BY <1>4 DEF Surjection

\* At full rank everything is spanned.
LEMMA FullSpan ==
    ASSUME NEW e, NEW vecs, EchelonOf(e, vecs, N)
    PROVE  Span(vecs, N) = Vector
<1>1. Span(vecs, N) \subseteq Vector
      BY SpanSubspace DEF EchelonOf, RowsTyped, Subspace
<1>2. ASSUME NEW v \in Vector PROVE v \in Span(vecs, N)
  <2> DEFINE x == Reduced(e, v)
  <2>1. x.row \in Vector /\ \A j \in 1 .. N : x.row[e.pivots[j]] = 0
        BY Reduction DEF RowPair, ReducedBy
  <2>2. ASSUME NEW k \in 1 .. N PROVE x.row[k] = 0
    <3>1. PICK j \in 1 .. N : e.pivots[j] = k
          BY PivotsAll
    <3> HIDE DEF x
    <3> QED BY <2>1, <3>1
  <2>3. x.row = Zero
    <3> HIDE DEF x
    <3> QED BY <2>1, <2>2 DEF Vector, Zero
  <2> QED BY <2>3, IndependentIs DEF Independent
<1> QED BY <1>1, <1>2

---------------------------------------------------------------------------
\* Appending a row.

\* A vector that is not zero has a first column that is not.
LEMMA PivotIs ==
    ASSUME NEW v \in Vector, v # Zero
    PROVE  /\ Pivot(v) \in 1 .. N /\ v[Pivot(v)] \in NonZero
           /\ \A k \in 1 .. Pivot(v) - 1 : v[k] = 0
<1> DEFINE S == {i \in 1 .. N : v[i] # 0}
           Found(i) == v[i] # 0 /\ \A k \in 1 .. i - 1 : v[k] = 0
<1>1. S # {} /\ S \in SUBSET Nat
  <2>1. S \in SUBSET Nat
        BY Vectors
  <2>2. S # {}
        BY DEF Vector, Zero
  <2> QED BY <2>1, <2>2
<1>2. PICK m \in S : \A k \in S : m <= k
  <2> HIDE DEF S
  <2> QED BY <1>1, LeastMember
<1>3. m \in 1 .. N /\ Found(m)
  <2>1. ASSUME NEW k \in 1 .. m - 1 PROVE v[k] = 0
    <3>1. k \in 1 .. N /\ ~(m <= k)
          BY Vectors
    <3> QED BY <1>2, <3>1
  <2> QED BY <2>1
<1>4. Pivot(v) = CHOOSE i \in 1 .. N : Found(i)
      BY Zenon DEF Pivot
<1>5. Pivot(v) \in 1 .. N /\ Found(Pivot(v))
  <2> HIDE DEF Found
  <2> QED BY <1>3, <1>4, Zenon
<1>6. v[Pivot(v)] \in Field
      BY <1>5, Vectors
<1> QED BY <1>5, <1>6 DEF NonZero

\* a is s with y at its end.
Extends(a, s, y, V, r) ==
    /\ a \in [1 .. r + 1 -> V] /\ a[r + 1] = y /\ Len(a) = r + 1
    /\ \A j \in 1 .. r : a[j] = s[j]

\* The entries of an extended list.
LEMMA AppendIs ==
    ASSUME NEW V, NEW r \in Nat, NEW s \in [1 .. r -> V], NEW y \in V
    PROVE  Extends(Append(s, y), s, y, V, r)
<1>1. s \in Seq(V) /\ Len(s) = r
      OBVIOUS
<1> DEFINE a == Append(s, y)
<1>2. a \in Seq(V) /\ Len(a) = r + 1 /\ a[r + 1] = y /\ \A j \in 1 .. r : a[j] = s[j]
      BY <1>1
<1> HIDE DEF a
<1>3. a \in [1 .. r + 1 -> V]
      BY <1>2
<1> QED BY <1>1, <1>2, <1>3 DEF a, Extends

\* The row appended: the reduced row, scaled to a one at its pivot.
LEMMA NewRow ==
    ASSUME NEW v \in Vector, v # Zero
    PROVE  LET p == Pivot(v)
               c == Inv(v[p])
               y == Scale(v, c)
           IN  /\ c \in Int /\ y = Plus(Zero, v, c, N) /\ y \in Vector /\ y[p] = 1
               /\ \A k \in 1 .. N : v[k] = 0 => y[k] = 0
<1> DEFINE p == Pivot(v)
           c == Inv(v[p])
           y == Scale(v, c)
<1>1. p \in 1 .. N /\ v[p] \in NonZero
      BY PivotIs
<1>2. c \in Int /\ (v[p] * c) % P = 1
      BY <1>1, Inverses, InField DEF NonZero
<1> HIDE DEF p, c
<1>3. y = Plus(Zero, v, c, N)
      BY <1>2, Vectors, StepsArePlus
<1>4. y \in Vector
      BY <1>2, <1>3, Vectors, PlusType
<1>5. y[p] = 1
      BY <1>1, <1>2 DEF Scale
<1>6. ASSUME NEW k \in 1 .. N, v[k] = 0 PROVE y[k] = 0
  <2>1. y[k] = (v[k] * c) % P
        BY DEF Scale
  <2>2. 0 * c = 0
        BY <1>2
  <2> HIDE DEF y
  <2> QED BY <1>6, <2>1, <2>2, InField
<1> QED BY <1>2, <1>3, <1>4, <1>5, <1>6 DEF p, c

\* The only vector that vanishes at the old pivots and the new is zero: what is left of
\* it at the new pivot is a multiple of the reduced row.
LEMMA AppendedDetects ==
    ASSUME NEW e, NEW r, NEW vecs, EchelonOf(e, vecs, r), NEW row \in Vector, r < N,
           row \notin Span(vecs, r), NEW z \in Span(More(vecs, row, r), r + 1),
           \A j \in 1 .. r : z[e.pivots[j]] = 0, z[Pivot(Reduced(e, row).row)] = 0
    PROVE  z = Zero
<1> DEFINE x == Reduced(e, row).row
           p == Pivot(x)
           more == More(vecs, row, r)
<1>1. /\ r \in Nat /\ vecs \in [1 .. r -> Vector] /\ Subspace(Span(vecs, r))
      /\ \A j \in 1 .. r : e.pivots[j] \in 1 .. N
      BY SpanSubspace DEF EchelonOf, RowsTyped
<1>2. x \in Vector /\ x # Zero /\ \A j \in 1 .. r : x[e.pivots[j]] = 0
      BY Reduction, IndependentIs DEF RowPair, ReducedBy, Independent
<1>3. p \in 1 .. N /\ x[p] \in NonZero
      BY <1>2, PivotIs
<1>4. PICK s \in Span(vecs, r) : row = Plus(x, s, -1, N)
      BY ReducedRow
<1>5. PICK u \in Span(vecs, r), c \in Field : z = Plus(u, row, c, N)
  <2>1. more \in [1 .. r + 1 -> Vector] /\ more[r + 1] = row /\ Span(more, r) = Span(vecs, r)
        BY <1>1, MoreVectors
  <2> HIDE DEF more
  <2>2. Span(more, r + 1) = {Plus(u, more[r + 1], c, N) : u \in Span(more, r), c \in Field}
        BY <1>1, <2>1, SpanSnoc, SMTT(30)
  <2>3. z \in Span(more, r + 1)
        BY DEF more
  <2> QED BY <2>1, <2>2, <2>3
<1> DEFINE w == Plus(u, s, c * (-1), N)
<1>6. s \in Vector /\ u \in Vector /\ c \in Int /\ -1 \in Int /\ c * (-1) \in Int
      BY <1>1, InField DEF Subspace
<1>7. w \in Span(vecs, r) /\ w \in Vector
      BY <1>1, <1>6 DEF Subspace
<1> HIDE DEF x, p
<1>8. z = Plus(w, x, c, N)
      BY <1>2, <1>4, <1>5, <1>6, PlusPlus
<1> HIDE DEF w
<1>9. \A k \in 1 .. N : z[k] = (w[k] + c * x[k]) % P
      BY <1>8 DEF Plus
<1>10. ASSUME NEW j \in 1 .. r PROVE w[e.pivots[j]] = 0
  <2> DEFINE k == e.pivots[j]
  <2>1. k \in 1 .. N /\ x[k] = 0 /\ z[k] = 0
        BY <1>1, <1>2
  <2>2. w[k] \in Int /\ w[k] % P = w[k]
        BY <1>7, <2>1, Vectors
  <2>3. z[k] = (w[k] + c * x[k]) % P
        BY <1>9, <2>1
  <2>4. w[k] + c * 0 = w[k]
        BY <1>6, <2>2
  <2> HIDE DEF k
  <2>5. w[k] = 0
        BY <2>1, <2>2, <2>3, <2>4
  <2> QED BY <2>5 DEF k
<1>11. w = Zero
       BY <1>7, <1>10 DEF EchelonOf, Detects
<1>12. c = 0
  <2> DEFINE a == x[p]
  <2>1. a \in Field /\ a # 0 /\ a \in Int
        BY <1>3, InField DEF NonZero
  <2>2. z[p] = (w[p] + c * a) % P /\ w[p] = 0
        BY <1>3, <1>9, <1>11 DEF Zero
  <2>3. z[p] = 0
        BY DEF p, x
  <2> HIDE DEF a
  <2>4. 0 + c * a = c * a
    <3>1. c * a \in Int
          BY <1>6, <2>1, Z3
    <3> QED BY <3>1
  <2>5. (c * a) % P = 0
        BY <2>2, <2>3, <2>4
  <2> QED BY <2>1, <2>5, NoZeroDivisors
<1> QED BY <1>2, <1>7, <1>8, <1>11, <1>12, PlusNone

\* Appending a row that is not spanned keeps all an echelon form is.
LEMMA AppendedIs ==
    ASSUME NEW e, NEW r, NEW vecs, EchelonOf(e, vecs, r), NEW row \in Vector, r < N,
           row \notin Span(vecs, r)
    PROVE  EchelonOf(Appended(e, row), More(vecs, row, r), r + 1)
<1> DEFINE x == Reduced(e, row)
           p == Pivot(x.row)
           c == Inv(x.row[p])
           y == Scale(x.row, c)
           t == Scale(x.trow, c)
           a == Appended(e, row)
           more == More(vecs, row, r)
<1>1. /\ r \in Nat /\ N \in Nat /\ r \in 0 .. N /\ r + 1 \in 0 .. N /\ Len(e.rows) = r
      /\ r + 1 \in Nat /\ r + 1 \in 1 .. r + 1 /\ 1 .. r \subseteq 1 .. r + 1
      /\ e.rows \in [1 .. r -> Vector] /\ e.pivots \in [1 .. r -> 1 .. N]
      /\ e.transform \in [1 .. r -> Vector] /\ vecs \in [1 .. r -> Vector]
      BY Vectors DEF EchelonOf, RowsTyped
<1>2. /\ x.row \in Vector /\ x.trow \in Vector /\ x.row # Zero
      /\ \A j \in 1 .. r : x.row[e.pivots[j]] = 0
      /\ x.row = Comb(more, x.trow, r + 1, N)
      /\ \A l \in r + 2 .. N : x.trow[l] = 0
      BY Reduction, IndependentIs DEF RowPair, ReducedBy, Independent
<1>3. a = [rows |-> Append(e.rows, y), pivots |-> Append(e.pivots, p),
           transform |-> Append(e.transform, t)]
      BY Zenon DEF Appended
<1>4. /\ p \in 1 .. N /\ \A k \in 1 .. p - 1 : x.row[k] = 0
      BY <1>2, PivotIs
<1>5. /\ c \in Int /\ y = Plus(Zero, x.row, c, N) /\ y \in Vector /\ y[p] = 1
      /\ \A k \in 1 .. N : x.row[k] = 0 => y[k] = 0
  <2> HIDE DEF x
  <2> QED BY <1>2, NewRow
<1>6. t = Plus(Zero, x.trow, c, N) /\ t \in Vector
  <2> HIDE DEF x, c
  <2>1. t = Plus(Zero, x.trow, c, N)
        BY <1>2, <1>5, StepsArePlus
  <2>2. Zero \in Vector
        BY Vectors
  <2>3. Plus(Zero, x.trow, c, N) \in Vector
        BY <1>2, <1>5, <2>2, PlusVector
  <2> QED BY <2>1, <2>3
<1>7. /\ more \in [1 .. r + 1 -> Vector] /\ more[r + 1] = row
      /\ Span(more, r) = Span(vecs, r)
      BY <1>1, MoreVectors, ZenonT(60)
<1>d. p = Pivot(Reduced(e, row).row)
      OBVIOUS
<1> HIDE DEF x, p, c, y, t, a, more
<1>8. /\ a.rows \in [1 .. r + 1 -> Vector] /\ a.pivots \in [1 .. r + 1 -> 1 .. N]
      /\ a.transform \in [1 .. r + 1 -> Vector] /\ Len(a.rows) = r + 1
      /\ a.rows[r + 1] = y /\ a.pivots[r + 1] = p /\ a.transform[r + 1] = t
      /\ \A j \in 1 .. r : /\ a.rows[j] = e.rows[j] /\ a.pivots[j] = e.pivots[j]
                           /\ a.transform[j] = e.transform[j]
  <2>1. a.rows = Append(e.rows, y) /\ a.pivots = Append(e.pivots, p) /\ a.transform = Append(e.transform, t)
        BY <1>3
  <2>a. /\ Extends(a.rows, e.rows, y, Vector, r)
        /\ Extends(a.pivots, e.pivots, p, 1 .. N, r)
        /\ Extends(a.transform, e.transform, t, Vector, r)
        BY <1>1, <1>4, <1>5, <1>6, <2>1, AppendIs
  <2>2. /\ a.rows \in [1 .. r + 1 -> Vector] /\ a.rows[r + 1] = y
        /\ Len(a.rows) = r + 1 /\ \A j \in 1 .. r : a.rows[j] = e.rows[j]
        BY <2>a DEF Extends
  <2>3. /\ a.pivots \in [1 .. r + 1 -> 1 .. N] /\ a.pivots[r + 1] = p
        /\ \A j \in 1 .. r : a.pivots[j] = e.pivots[j]
        BY <2>a DEF Extends
  <2>4. /\ a.transform \in [1 .. r + 1 -> Vector] /\ a.transform[r + 1] = t
        /\ \A j \in 1 .. r : a.transform[j] = e.transform[j]
        BY <2>a DEF Extends
  <2> QED BY <2>2, <2>3, <2>4
<1>9. Leads(a, r + 1)
  <2> SUFFICES ASSUME NEW j \in 1 .. r + 1
               PROVE  /\ a.rows[j][a.pivots[j]] = 1
                      /\ \A k \in 1 .. a.pivots[j] - 1 : a.rows[j][k] = 0
                      /\ \A i \in 1 .. j - 1 : a.rows[j][a.pivots[i]] = 0
      BY DEF Leads
  <2>1. CASE j \in 1 .. r
    <3>1. /\ e.rows[j][e.pivots[j]] = 1
          /\ \A k \in 1 .. e.pivots[j] - 1 : e.rows[j][k] = 0
          /\ \A i \in 1 .. j - 1 : e.rows[j][e.pivots[i]] = 0
          BY <2>1 DEF EchelonOf, Leads
    <3>2. \A i \in 1 .. j - 1 : i \in 1 .. r
          BY <1>1, <2>1
    <3> QED BY <1>8, <2>1, <3>1, <3>2
  <2>2. CASE j = r + 1
    <3>1. \A k \in 1 .. p - 1 : y[k] = 0
      <4>1. \A k \in 1 .. p - 1 : k \in 1 .. N
            BY <1>1, <1>4
      <4> QED BY <1>4, <1>5, <4>1
    <3>2. \A i \in 1 .. j - 1 : i \in 1 .. r
          BY <1>1, <2>2
    <3>3. \A i \in 1 .. r : y[e.pivots[i]] = 0
          BY <1>1, <1>2, <1>5
    <3> QED BY <1>5, <1>8, <2>2, <3>1, <3>2, <3>3, ZenonT(60)
  <2> QED BY <1>1, <2>1, <2>2
<1>10. LedTo(a, more, r + 1)
  <2> SUFFICES ASSUME NEW j \in 1 .. r + 1
               PROVE  /\ a.rows[j] = Comb(more, a.transform[j], r + 1, N)
                      /\ \A k \in (r + 1) + 1 .. N : a.transform[j][k] = 0
      BY DEF LedTo
  <2>1. CASE j \in 1 .. r
    <3>1. e.rows[j] = Comb(more, e.transform[j], r + 1, N)
          BY <2>1, RowsSpanned DEF more
    <3>2. \A k \in (r + 1) + 1 .. N : k \in r + 1 .. N
          BY <1>1
    <3>3. \A k \in r + 1 .. N : e.transform[j][k] = 0
          BY <2>1 DEF EchelonOf, LedTo
    <3> QED BY <1>8, <2>1, <3>1, <3>2, <3>3
  <2>2. CASE j = r + 1
    <3>1. Comb(more, t, r + 1, N) = Plus(Comb(more, Zero, r + 1, N), Comb(more, x.trow, r + 1, N), c, N)
          BY <1>1, <1>2, <1>5, <1>6, <1>7, CombPlus, Vectors
    <3>2. Comb(more, Zero, r + 1, N) = Zero
      <4>1. AllZero(Zero, r + 1)
            BY <1>1 DEF Zero, AllZero
      <4>2. more \in [1 .. r + 1 -> Vec(N)]
            BY <1>7, Vectors
      <4>3. Comb(more, Zero, r + 1, N) = ZeroVec(N)
            BY <1>1, <4>1, <4>2, CombZero
      <4> QED BY <4>3 DEF Zero, ZeroVec
    <3>3. y = Comb(more, t, r + 1, N)
          BY <1>2, <1>5, <3>1, <3>2
    <3>4. ASSUME NEW k \in (r + 1) + 1 .. N PROVE t[k] = 0
      <4>1. k \in 1 .. N /\ k \in r + 2 .. N
            BY <1>1
      <4>2. t[k] = (Zero[k] + c * x.trow[k]) % P
            BY <1>6, <4>1, PlusAt
      <4>3. Zero[k] = 0 /\ x.trow[k] = 0
            BY <1>2, <4>1 DEF Zero
      <4>4. 0 + c * 0 = 0
            BY <1>5
      <4> QED BY <4>2, <4>3, <4>4, InField
    <3> QED BY <1>8, <2>2, <3>3, <3>4
  <2> QED BY <1>1, <2>1, <2>2
<1>11. Detects(a, Span(more, r + 1), r + 1)
  <2> SUFFICES ASSUME NEW z \in Span(more, r + 1), \A j \in 1 .. r + 1 : z[a.pivots[j]] = 0
               PROVE  z = Zero
      BY DEF Detects
  <2>1. \A j \in 1 .. r : z[e.pivots[j]] = 0
        BY <1>1, <1>8
  <2>2. z[p] = 0
        BY <1>1, <1>8
  <2>3. z \in Span(More(vecs, row, r), r + 1)
        BY DEF more
  <2> QED BY <1>d, <2>1, <2>2, <2>3, AppendedDetects
<1>12. more[r + 1] \notin Span(more, (r + 1) - 1)
  <2>1. (r + 1) - 1 = r
        BY <1>1
  <2> QED BY <1>7, <2>1
<1>13. RowsTyped(a, r + 1)
  <2>1. a = [rows |-> a.rows, pivots |-> a.pivots, transform |-> a.transform]
        BY <1>3
  <2> QED BY <1>1, <1>8, <2>1 DEF RowsTyped
<1> QED BY <1>1, <1>7, <1>9, <1>10, <1>11, <1>12, <1>13 DEF EchelonOf, a, more

---------------------------------------------------------------------------
\* Back-substitution.

\* A form of full rank.
Form == [rows : [1 .. N -> Vector], pivots : [1 .. N -> 1 .. N], transform : [1 .. N -> Vector]]

\* The multiple of row j that is added to row i, to clear the pivot of j above it.
Factor(f, i, j) == IF i < j THEN 0 - f.rows[i][f.pivots[j]] ELSE 0

\* What clearing one pivot above its row does to every row and its transformation.
ClearedAbove(f, g, j) ==
    /\ g \in Form /\ g.pivots = f.pivots
    /\ \A i \in 1 .. N : /\ g.rows[i] = Plus(f.rows[i], f.rows[j], Factor(f, i, j), N)
                         /\ g.transform[i] = Plus(f.transform[i], f.transform[j], Factor(f, i, j), N)

\* Clearing a pivot above its row gives a form of full rank, changed as ClearedAbove says.
LEMMA ClearAboveIs ==
    ASSUME NEW f \in Form, NEW j \in 1 .. N
    PROVE  ClearedAbove(f, ClearAbove(f, j), j) /\ ClearAbove(f, j) \in Form
<1> DEFINE h(i) == IF i < j THEN f.rows[i][f.pivots[j]] ELSE 0
           rows == [i \in 1 .. N |-> SubScaled(f.rows[i], f.rows[j], h(i))]
           trans == [i \in 1 .. N |-> SubScaled(f.transform[i], f.transform[j], h(i))]
           g == ClearAbove(f, j)
<1>1. /\ f.rows \in [1 .. N -> Vector] /\ f.pivots \in [1 .. N -> 1 .. N]
      /\ f.transform \in [1 .. N -> Vector]
      /\ f = [rows |-> f.rows, pivots |-> f.pivots, transform |-> f.transform]
      BY DEF Form
<1>2. g = [rows |-> rows, pivots |-> f.pivots, transform |-> trans]
  <2>1. g = [f EXCEPT !.rows = rows, !.transform = trans]
        BY DEF ClearAbove
  <2> HIDE DEF rows, trans, g
  <2> QED BY <1>1, <2>1
<1>3. ASSUME NEW i \in 1 .. N
      PROVE  /\ rows[i] = Plus(f.rows[i], f.rows[j], Factor(f, i, j), N)
             /\ trans[i] = Plus(f.transform[i], f.transform[j], Factor(f, i, j), N)
             /\ rows[i] \in Vector /\ trans[i] \in Vector
  <2>1. /\ f.rows[i] \in Vector /\ f.rows[j] \in Vector /\ f.pivots[j] \in 1 .. N
        /\ f.transform[i] \in Vector /\ f.transform[j] \in Vector
        BY <1>1
  <2>2. h(i) \in Int
        BY <2>1, Vectors
  <2>3. 0 - h(i) = Factor(f, i, j) /\ Factor(f, i, j) \in Int
        BY <2>2 DEF Factor
  <2>4. /\ rows[i] = SubScaled(f.rows[i], f.rows[j], h(i))
        /\ trans[i] = SubScaled(f.transform[i], f.transform[j], h(i))
        OBVIOUS
  <2> HIDE DEF h, rows, trans
  <2>5. /\ SubScaled(f.rows[i], f.rows[j], h(i)) = Plus(f.rows[i], f.rows[j], 0 - h(i), N)
        /\ SubScaled(f.transform[i], f.transform[j], h(i)) =
               Plus(f.transform[i], f.transform[j], 0 - h(i), N)
        BY <2>1, <2>2, StepsArePlus
  <2>6. /\ Plus(f.rows[i], f.rows[j], Factor(f, i, j), N) \in Vector
        /\ Plus(f.transform[i], f.transform[j], Factor(f, i, j), N) \in Vector
        BY <2>1, <2>3, PlusVector
  <2> QED BY <2>3, <2>4, <2>5, <2>6
<1>4. rows \in [1 .. N -> Vector] /\ trans \in [1 .. N -> Vector]
      BY <1>3
<1> HIDE DEF rows, trans, g, h
<1>5. g \in Form /\ g.pivots = f.pivots /\ g.rows = rows /\ g.transform = trans
      BY <1>1, <1>2, <1>4 DEF Form
<1> QED BY <1>3, <1>5 DEF ClearedAbove, g

\* The forms back-substitution goes through, from the last row up.
BackSubstitution(c, e) ==
    /\ c \in [0 .. N -> Form] /\ c[0] = e /\ c[N] = BackSubstituted(e)
    /\ \A k \in 1 .. N : c[k] = ClearAbove(c[k - 1], N + 1 - k)

\* Back-substitution takes its steps in order.
LEMMA BackSubstitutionChain ==
    ASSUME NEW e \in Form
    PROVE  \E c : BackSubstitution(c, e)
<1> DEFINE index == [k \in 1 .. N |-> N + 1 - k]
           Computes(iter) ==
               iter = [s \in SUBSET DOMAIN index |->
                           IF s = {} THEN e
                           ELSE ClearAbove(iter[s \ {Max(s)}], index[Max(s)])]
           fold == CHOOSE iter : Computes(iter)
           g == [x \in Form \X (1 .. N) |-> ClearAbove(x[1], N + 1 - x[2])]
<1>0. N \in Nat /\ DOMAIN index = 1 .. N
      BY Vectors
<1>1. BackSubstituted(e) = fold[DOMAIN index]
      BY Zenon DEF BackSubstituted, FoldLeft, MapThenFoldSet
<1>2. g \in [Form \X (1 .. N) -> Form]
  <2> SUFFICES ASSUME NEW x \in Form \X (1 .. N) PROVE ClearAbove(x[1], N + 1 - x[2]) \in Form
      OBVIOUS
  <2>1. x[1] \in Form /\ N + 1 - x[2] \in 1 .. N
        BY <1>0
  <2> QED BY <2>1, ClearAboveIs
<1>4. PICK it : IsFold(it, Form, e, g, N)
  <2> HIDE DEF g
  <2> QED BY <1>0, <1>2, FoldExists
<1>5. ASSUME NEW s \in SUBSET (1 .. N), s # {}
      PROVE  Max(s) \in 1 .. N /\ s \ {Max(s)} \in SUBSET (1 .. N) /\ index[Max(s)] = N + 1 - Max(s)
  <2>1. Max(s) \in s
        BY <1>0, <1>5, MaxMember
  <2> QED BY <1>0, <2>1
<1>6. Computes(it)
  <2>1. it \in [SUBSET (1 .. N) -> Form]
        BY <1>4 DEF IsFold
  <2>2. ASSUME NEW s \in SUBSET (1 .. N)
        PROVE  it[s] = IF s = {} THEN e ELSE ClearAbove(it[s \ {Max(s)}], index[Max(s)])
    <3>1. it[s] = IF s = {} THEN e ELSE g[<<it[s \ {Max(s)}], Max(s)>>]
          BY <1>4 DEF IsFold
    <3>2. ASSUME s # {}
          PROVE  g[<<it[s \ {Max(s)}], Max(s)>>] = ClearAbove(it[s \ {Max(s)}], N + 1 - Max(s))
      <4>1. <<it[s \ {Max(s)}], Max(s)>> \in Form \X (1 .. N)
            BY <1>5, <2>1, <3>2
      <4> QED BY <4>1
    <3> HIDE DEF index, g
    <3> QED BY <1>5, <3>1, <3>2
  <2> HIDE DEF index, g
  <2> QED BY <1>0, <2>1, <2>2
<1>7. Computes(fold)
  <2> HIDE DEF Computes
  <2> QED BY <1>6, Zenon
<1>8. ASSUME NEW s \in SUBSET (1 .. N)
      PROVE  fold[s] = IF s = {} THEN e ELSE ClearAbove(fold[s \ {Max(s)}], index[Max(s)])
  <2> HIDE DEF fold, index
  <2> QED BY <1>0, <1>7
<1> HIDE DEF Computes, fold, index
<1>9. fold[{}] = e
      BY <1>8
<1>10. ASSUME NEW k \in 1 .. N, fold[1 .. k - 1] \in Form
       PROVE  fold[1 .. k] = g[<<fold[1 .. k - 1], k>>]
  <2>1. k \in Nat \ {0} /\ 1 .. k \in SUBSET (1 .. N)
        BY <1>0
  <2>2. Max(1 .. k) = k /\ (1 .. k) \ {k} = 1 .. k - 1 /\ 1 .. k # {}
        BY <2>1, FoldSteps, Zenon
  <2>3. index[k] = N + 1 - k
        BY <1>5, <2>1, <2>2
  <2>4. fold[1 .. k] = ClearAbove(fold[1 .. k - 1], N + 1 - k)
        BY <1>8, <2>1, <2>2, <2>3
  <2>5. <<fold[1 .. k - 1], k>> \in Form \X (1 .. N)
        BY <1>10
  <2> QED BY <2>4, <2>5
<1>11. PICK c : IsChain(c, fold, Form, e, g, N)
  <2>1. TakesSteps(fold, Form, e, g, N)
    <3> HIDE DEF g
    <3> QED BY <1>9, <1>10 DEF TakesSteps
  <2> HIDE DEF g
  <2> QED BY <1>0, <1>2, <2>1, FoldChain
<1>12. ASSUME NEW k \in 1 .. N PROVE c[k] = ClearAbove(c[k - 1], N + 1 - k)
  <2>1. <<c[k - 1], k>> \in Form \X (1 .. N)
        BY <1>0, <1>11 DEF IsChain
  <2> QED BY <1>11, <2>1 DEF IsChain
<1>13. c \in [0 .. N -> Form] /\ c[0] = e /\ c[N] = fold[1 .. N]
       BY <1>11 DEF IsChain
<1> QED BY <1>0, <1>1, <1>12, <1>13 DEF BackSubstitution

\* What is known when the pivots of the rows after m were cleared above them: every row
\* has a one at its pivot and nothing at those of the rows before it or after m, and its
\* transformation still leads to it.
SolvedFrom(p, vecs, f, m) ==
    /\ f \in Form /\ f.pivots = p
    /\ \A i \in 1 .. N : /\ f.rows[i][p[i]] = 1
                         /\ f.rows[i] = Comb(vecs, f.transform[i], N, N)
    /\ \A i \in 1 .. N : \A l \in 1 .. N : l < i \/ (i < l /\ m < l) => f.rows[i][p[l]] = 0

\* An echelon form of full rank, before back-substitution.
LEMMA SolvedStarts ==
    ASSUME NEW e, NEW vecs, EchelonOf(e, vecs, N)
    PROVE  e \in Form /\ SolvedFrom(e.pivots, vecs, e, N)
<1>1. /\ N \in Nat /\ RowsTyped(e, N) /\ Leads(e, N) /\ LedTo(e, vecs, N)
      BY Vectors DEF EchelonOf
<1>2. e \in Form
      BY <1>1 DEF RowsTyped, Form
<1>3. ASSUME NEW i \in 1 .. N
      PROVE  e.rows[i][e.pivots[i]] = 1 /\ e.rows[i] = Comb(vecs, e.transform[i], N, N)
      BY <1>1 DEF Leads, LedTo
<1>4. ASSUME NEW i \in 1 .. N, NEW l \in 1 .. N, l < i \/ (i < l /\ N < l)
      PROVE  e.rows[i][e.pivots[l]] = 0
  <2>1. l \in 1 .. i - 1
        BY <1>1, <1>4
  <2> QED BY <1>1, <2>1 DEF Leads
<1> QED BY <1>2, <1>3, <1>4 DEF SolvedFrom

\* One more pivot cleared above its row.
LEMMA SolvedStep ==
    ASSUME NEW p, NEW vecs \in [1 .. N -> Vector], NEW f, NEW m \in 1 .. N,
           SolvedFrom(p, vecs, f, m)
    PROVE  SolvedFrom(p, vecs, ClearAbove(f, m), m - 1)
<1> DEFINE g == ClearAbove(f, m)
<1>1. f \in Form /\ f.pivots = p /\ N \in Nat /\ N \in 0 .. N
      BY Vectors DEF SolvedFrom
<1>2. ClearedAbove(f, g, m)
      BY <1>1, ClearAboveIs
<1> HIDE DEF g
<1>3. g \in Form /\ g.pivots = p
      BY <1>1, <1>2 DEF ClearedAbove
<1>4. ASSUME NEW i \in 1 .. N
      PROVE  /\ g.rows[i] = Plus(f.rows[i], f.rows[m], Factor(f, i, m), N)
             /\ g.transform[i] = Plus(f.transform[i], f.transform[m], Factor(f, i, m), N)
             /\ f.rows[i] \in Vector /\ f.transform[i] \in Vector /\ p[i] \in 1 .. N
             /\ Factor(f, i, m) \in Int
             /\ Factor(f, i, m) = IF i < m THEN 0 - f.rows[i][p[m]] ELSE 0
  <2>1. f.rows[i] \in Vector /\ f.transform[i] \in Vector /\ p[i] \in 1 .. N /\ p[m] \in 1 .. N
        BY <1>1 DEF Form
  <2>2. f.rows[i][p[m]] \in Int
        BY <2>1, Vectors
  <2> QED BY <1>1, <1>2, <2>1, <2>2 DEF ClearedAbove, Factor
<1>5. ASSUME NEW i \in 1 .. N PROVE g.rows[i] = Comb(vecs, g.transform[i], N, N)
  <2>1. /\ f.rows[i] = Comb(vecs, f.transform[i], N, N)
        /\ f.rows[m] = Comb(vecs, f.transform[m], N, N)
        BY DEF SolvedFrom
  <2>2. f.transform[i] \in Vector /\ f.transform[m] \in Vector
        BY <1>4
  <2>3. Comb(vecs, Plus(f.transform[i], f.transform[m], Factor(f, i, m), N), N, N) =
            Plus(Comb(vecs, f.transform[i], N, N), Comb(vecs, f.transform[m], N, N), Factor(f, i, m), N)
        BY <1>1, <1>4, <2>2, CombPlus
  <2> QED BY <1>4, <2>1, <2>3
<1>6. ASSUME NEW i \in 1 .. N, NEW l \in 1 .. N
      PROVE  /\ g.rows[i][p[l]] = (f.rows[i][p[l]] + Factor(f, i, m) * f.rows[m][p[l]]) % P
             /\ f.rows[i][p[l]] \in Int /\ f.rows[i][p[l]] % P = f.rows[i][p[l]]
             /\ f.rows[m][p[l]] \in Int
  <2>1. p[l] \in 1 .. N /\ f.rows[i] \in Vector /\ f.rows[m] \in Vector
        BY <1>4
  <2>2. g.rows[i] = Plus(f.rows[i], f.rows[m], Factor(f, i, m), N)
        BY <1>4
  <2>3. g.rows[i][p[l]] = (f.rows[i][p[l]] + Factor(f, i, m) * f.rows[m][p[l]]) % P
        BY <2>1, <2>2, PlusAt
  <2> QED BY <2>1, <2>3, Vectors
<1>7. ASSUME NEW i \in 1 .. N, NEW l \in 1 .. N, Factor(f, i, m) = 0 \/ f.rows[m][p[l]] = 0
      PROVE  g.rows[i][p[l]] = f.rows[i][p[l]]
  <2> DEFINE a == f.rows[i][p[l]]   b == f.rows[m][p[l]]   c == Factor(f, i, m)
  <2>1. a \in Int /\ b \in Int /\ c \in Int /\ a % P = a /\ g.rows[i][p[l]] = (a + c * b) % P
        BY <1>4, <1>6
  <2>2. c = 0 \/ b = 0
        BY <1>7
  <2> HIDE DEF a, b, c
  <2>3. a + c * b = a
        BY <2>1, <2>2
  <2>4. g.rows[i][p[l]] = a
        BY <2>1, <2>3
  <2> QED BY <2>4 DEF a
<1>8. ASSUME NEW i \in 1 .. N PROVE g.rows[i][p[i]] = 1
  <2>1. Factor(f, i, m) = 0 \/ f.rows[m][p[i]] = 0
    <3>1. CASE i < m
          BY <3>1 DEF SolvedFrom
    <3>2. CASE ~ (i < m)
          BY <1>4, <3>2
    <3> QED BY <3>1, <3>2
  <2> QED BY <1>7, <2>1 DEF SolvedFrom
<1>9. ASSUME NEW i \in 1 .. N, NEW l \in 1 .. N, l < i \/ (i < l /\ m - 1 < l)
      PROVE  g.rows[i][p[l]] = 0
  <2>1. CASE i < m /\ l = m
    <3> DEFINE a == f.rows[i][p[m]]
    <3>1. f.rows[m][p[m]] = 1 /\ Factor(f, i, m) = 0 - a /\ a \in Int
          BY <1>4, <1>6, <2>1 DEF SolvedFrom
    <3>2. g.rows[i][p[m]] = (a + (0 - a) * 1) % P
          BY <1>6, <3>1
    <3> HIDE DEF a
    <3>3. a + (0 - a) * 1 = 0
          BY <3>1
    <3> QED BY <2>1, <3>2, <3>3, InField
  <2>2. CASE ~ (i < m /\ l = m)
    <3>1. l < i \/ (i < l /\ m < l)
          BY <1>1, <1>9, <2>2
    <3>2. f.rows[i][p[l]] = 0
          BY <3>1 DEF SolvedFrom
    <3>3. Factor(f, i, m) = 0 \/ f.rows[m][p[l]] = 0
      <4>1. CASE i < m
        <5>1. l < m \/ (m < l /\ m < l)
              BY <1>1, <3>1, <4>1
        <5> QED BY <5>1 DEF SolvedFrom
      <4>2. CASE ~ (i < m)
            BY <1>4, <4>2
      <4> QED BY <4>1, <4>2
    <3> QED BY <1>7, <3>2, <3>3
  <2> QED BY <2>1, <2>2
<1>10. SolvedFrom(p, vecs, g, m - 1)
       BY <1>3, <1>5, <1>8, <1>9 DEF SolvedFrom
<1> QED BY <1>10 DEF g

\* Back-substitution leaves a single one in every row, at its pivot.
LEMMA Solved ==
    ASSUME NEW e, NEW vecs, EchelonOf(e, vecs, N)
    PROVE  /\ SolvedFrom(e.pivots, vecs, BackSubstituted(e), 0)
           /\ \A i \in 1 .. N : BackSubstituted(e).rows[i] = Unit(e.pivots[i])
<1> DEFINE p == e.pivots
           b == BackSubstituted(e)
<1>1. e \in Form /\ SolvedFrom(p, vecs, e, N)
      BY SolvedStarts
<1>2. N \in Nat /\ vecs \in [1 .. N -> Vector]
      BY Vectors DEF EchelonOf
<1>3. PICK c : BackSubstitution(c, e)
      BY <1>1, BackSubstitutionChain
<1>4. /\ c[0] = e /\ c[N] = b
      /\ \A k \in 1 .. N : c[k] = ClearAbove(c[k - 1], N + 1 - k)
      BY <1>3 DEF BackSubstitution
<1> DEFINE S == {k \in 0 .. N : SolvedFrom(p, vecs, c[k], N - k)}
<1>5. 0 \in S
      BY <1>1, <1>2, <1>4
<1>6. ASSUME NEW k \in 0 .. N - 1, k \in S PROVE k + 1 \in S
  <2>1. /\ k + 1 \in 1 .. N /\ k + 1 \in 0 .. N /\ (k + 1) - 1 = k
        /\ N + 1 - (k + 1) = N - k /\ N - k \in 1 .. N /\ (N - k) - 1 = N - (k + 1)
        BY <1>2
  <2>2. SolvedFrom(p, vecs, ClearAbove(c[k], N - k), (N - k) - 1)
        BY <1>2, <1>6, <2>1, SolvedStep
  <2>3. c[k + 1] = ClearAbove(c[k], N - k)
        BY <1>4, <2>1
  <2> QED BY <2>1, <2>2, <2>3
<1>7. 0 .. N \subseteq S
  <2> HIDE DEF S
  <2> QED BY <1>2, <1>5, <1>6, BoundedInduction
<1>8. SolvedFrom(p, vecs, b, 0)
  <2>1. N \in S /\ N - N = 0
        BY <1>2, <1>7
  <2> QED BY <1>4, <2>1
<1>9. ASSUME NEW i \in 1 .. N PROVE b.rows[i] = Unit(p[i])
  <2> HIDE DEF b
  <2>1. b.rows[i] \in Vector
        BY <1>8 DEF SolvedFrom, Form
  <2>2. ASSUME NEW k \in 1 .. N PROVE b.rows[i][k] = Unit(p[i])[k]
    <3>1. PICK l \in 1 .. N : p[l] = k
          BY PivotsAll
    <3>2. CASE l = i
      <4>1. b.rows[i][p[i]] = 1
            BY <1>8 DEF SolvedFrom
      <4> QED BY <3>1, <3>2, <4>1 DEF Unit
    <3>3. CASE l # i
      <4>1. l < i \/ i < l
            BY <1>2, <3>3
      <4>2. b.rows[i][p[l]] = 0
            BY <1>8, <4>1 DEF SolvedFrom
      <4>3. p[l] # p[i]
            BY <4>1, PivotsDiffer
      <4> QED BY <3>1, <4>2, <4>3 DEF Unit
    <3> QED BY <3>2, <3>3
  <2> QED BY <2>1, <2>2 DEF Unit, Vector
<1> QED BY <1>8, <1>9

\* Row k of the inverse combines the inserted rows to the k-th unit vector.
LEMMA InverseIs ==
    ASSUME NEW e, NEW vecs, EchelonOf(e, vecs, N), NEW k \in 1 .. N
    PROVE  InverseOf(e)[k] \in Vector /\ Comb(vecs, InverseOf(e)[k], N, N) = Unit(k)
<1> DEFINE b == BackSubstituted(e)
           j == CHOOSE i \in 1 .. N : b.pivots[i] = k
<1>1. SolvedFrom(e.pivots, vecs, b, 0) /\ \A i \in 1 .. N : b.rows[i] = Unit(e.pivots[i])
      BY Solved
<1>2. InverseOf(e)[k] = b.transform[j]
      BY DEF InverseOf
<1> HIDE DEF b
<1>3. b.pivots = e.pivots
      BY <1>1 DEF SolvedFrom
<1>4. \E i \in 1 .. N : b.pivots[i] = k
      BY <1>3, PivotsAll
<1>5. j \in 1 .. N /\ b.pivots[j] = k
      BY <1>4
<1> HIDE DEF j
<1>6. b.rows[j] = Comb(vecs, b.transform[j], N, N) /\ b.transform[j] \in Vector
      BY <1>1, <1>5 DEF SolvedFrom, Form
<1> QED BY <1>1, <1>2, <1>3, <1>5, <1>6

---------------------------------------------------------------------------
\* The decoder.

\* What is collected of a block: independent combinations of its chunks, as elements.
Collected(d, chunks, m, r) ==
    /\ m \in Nat /\ chunks \in [1 .. N -> Vec(m)]
    /\ d = [echelon |-> d.echelon, coded |-> d.coded]
    /\ d.coded \in Seq([w : Vec(m), b : Vector]) /\ Len(d.coded) = r
    /\ EchelonOf(d.echelon, Coeffs(d), r)
    /\ \A l \in 1 .. r : d.coded[l].w = Comb(chunks, d.coded[l].b, N, m)

\* The data and the coefficients collected, one by one.
LEMMA CollectedParts ==
    ASSUME NEW d, NEW chunks, NEW m, NEW r, Collected(d, chunks, m, r)
    PROVE  /\ r \in 0 .. N /\ r \in Nat /\ N \in Nat
           /\ Rank(d.echelon) = r
           /\ Coeffs(d) \in [1 .. r -> Vec(N)] /\ Datas(d) \in [1 .. r -> Vec(m)]
           /\ \A l \in 1 .. r : /\ Coeffs(d)[l] = d.coded[l].b /\ Datas(d)[l] = d.coded[l].w
                                /\ Datas(d)[l] = Comb(chunks, Coeffs(d)[l], N, m)
<1>1. /\ r \in 0 .. N /\ r \in Nat /\ N \in Nat /\ Vector = Vec(N) /\ Rank(d.echelon) = r
      BY Vectors DEF Collected, EchelonOf, RowsTyped, Rank
<1>2. ASSUME NEW l \in 1 .. r PROVE d.coded[l] \in [w : Vec(m), b : Vec(N)]
  <2> DEFINE V == [w : Vec(m), b : Vec(N)]
             s == d.coded
  <2>1. s \in Seq(V) /\ Len(s) = r
        BY <1>1 DEF Collected
  <2> HIDE DEF V, s
  <2>2. s[l] \in V
        BY <1>1, <2>1
  <2> QED BY <2>2 DEF V, s
<1>3. /\ Coeffs(d) = [l \in 1 .. r |-> d.coded[l].b] /\ Datas(d) = [l \in 1 .. r |-> d.coded[l].w]
      BY DEF Collected, Coeffs, Datas
<1> QED BY <1>1, <1>2, <1>3 DEF Collected

\* Any combination of the data is the data of the combined coefficients.
LEMMA CombineCollected ==
    ASSUME NEW d, NEW chunks, NEW m, NEW r, Collected(d, chunks, m, r),
           NEW a \in [1 .. r -> Field]
    PROVE  Comb(Datas(d), a, r, m) = Comb(chunks, Comb(Coeffs(d), a, r, N), N, m)
<1> DEFINE b == Coeffs(d)
           w == Datas(d)
           u == [l \in 1 .. r |-> Comb(chunks, b[l], N, m)]
<1>1. /\ r \in Nat /\ N \in Nat /\ m \in Nat /\ chunks \in [1 .. N -> Vec(m)]
      /\ b \in [1 .. r -> Vec(N)] /\ w \in [1 .. r -> Vec(m)]
      /\ \A l \in 1 .. r : w[l] = Comb(chunks, b[l], N, m)
      BY CollectedParts DEF Collected
<1> HIDE DEF b, w
<1>2. Comb(chunks, Comb(b, a, r, N), N, m) = Comb(u, a, r, m)
      BY <1>1, CombCompose
<1>3. w = u
      BY <1>1
<1> QED BY <1>2, <1>3 DEF b, w

\* At full rank the original chunks come out.
LEMMA DecodeIs ==
    ASSUME NEW d, NEW chunks, NEW m, Collected(d, chunks, m, N)
    PROVE  DecodedChunks(d) = chunks
<1> DEFINE inverse == InverseOf(d.echelon)
<1>1. /\ N \in Nat \ {0} /\ m \in Nat /\ chunks \in [1 .. N -> Vec(m)] /\ Vector = Vec(N)
      /\ Datas(d) \in [1 .. N -> Vec(m)] /\ EchelonOf(d.echelon, Coeffs(d), N)
      BY CollectedParts, ChunksAssumption, Vectors DEF Collected
<1> HIDE DEF inverse
<1>2. ASSUME NEW k \in 1 .. N PROVE LinearCombination(Datas(d), inverse[k]) = chunks[k]
  <2>1. inverse[k] \in Vector /\ Comb(Coeffs(d), inverse[k], N, N) = Unit(k)
        BY <1>1, InverseIs DEF inverse
  <2>2. inverse[k] \in [1 .. N -> Field]
        BY <2>1 DEF Vector
  <2>3. LinearCombination(Datas(d), inverse[k]) = Comb(Datas(d), inverse[k], N, m)
        BY <1>1, CombIs
  <2>4. Comb(Datas(d), inverse[k], N, m) = Comb(chunks, Unit(k), N, m)
        BY <2>1, <2>2, CombineCollected
  <2>5. Comb(chunks, Unit(k), N, m) = chunks[k]
        BY <1>1, CombUnit DEF Unit
  <2> QED BY <2>3, <2>4, <2>5
<1>3. DecodedChunks(d) = [k \in 1 .. N |-> LinearCombination(Datas(d), inverse[k])]
      BY DEF DecodedChunks, inverse
<1> QED BY <1>1, <1>2, <1>3

\* Nothing is collected at the start.
LEMMA NewIs ==
    ASSUME NEW m \in Nat, NEW chunks \in [1 .. N -> Vec(m)]
    PROVE  Collected(NewDecoder, chunks, m, 0) /\ Coeffs(NewDecoder) = <<>>
<1> DEFINE d == NewDecoder
           e == d.echelon
<1>1. /\ d = [echelon |-> New, coded |-> <<>>] /\ e = New /\ d.coded = <<>>
      /\ New = [rows |-> <<>>, pivots |-> <<>>, transform |-> <<>>]
      BY DEF NewDecoder, New
<1>2. /\ Len(d.coded) = 0 /\ d.coded \in Seq([w : Vec(m), b : Vector])
      /\ Len(<<>>) = 0 /\ 1 .. 0 = {} /\ 0 \in 0 .. N /\ N \in Nat
      BY <1>1, Vectors
<1>3. Coeffs(d) = <<>>
      BY <1>1, <1>2 DEF Coeffs
<1> HIDE DEF d, e
<1>4. RowsTyped(e, 0)
  <2>1. e.rows = <<>> /\ e.pivots = <<>> /\ e.transform = <<>>
        BY <1>1
  <2>2. <<>> \in [1 .. 0 -> Vector] /\ <<>> \in [1 .. 0 -> 1 .. N]
        BY <1>2
  <2> QED BY <1>1, <1>2, <2>1, <2>2 DEF RowsTyped
<1>5. EchelonOf(e, Coeffs(d), 0)
  <2>1. Coeffs(d) \in [1 .. 0 -> Vector]
        BY <1>2, <1>3
  <2>2. Span(Coeffs(d), 0) = {Zero}
        BY SpanNone
  <2>3. Leads(e, 0) /\ LedTo(e, Coeffs(d), 0)
        BY <1>2 DEF Leads, LedTo
  <2>4. Detects(e, Span(Coeffs(d), 0), 0)
        BY <2>2 DEF Detects
  <2> QED BY <1>2, <1>4, <2>1, <2>3, <2>4 DEF EchelonOf
<1>6. d = [echelon |-> d.echelon, coded |-> d.coded]
      BY <1>1
<1> QED BY <1>2, <1>3, <1>5, <1>6 DEF Collected, d, e

\* Reset forgets all of it.
LEMMA ResetIs ==
    ASSUME NEW d, NEW chunks, NEW m, NEW r, Collected(d, chunks, m, r)
    PROVE  ResetDecoder(d) = NewDecoder
<1> DEFINE e == d.echelon
<1>1. /\ d = [echelon |-> e, coded |-> d.coded]
      /\ e = [rows |-> e.rows, pivots |-> e.pivots, transform |-> e.transform]
      BY DEF Collected, EchelonOf, RowsTyped
<1> HIDE DEF e
<1>2. Cleared(e) = New
  <2>1. e \in [rows : {e.rows}, pivots : {e.pivots}, transform : {e.transform}]
        BY <1>1
  <2>2. Cleared(e) \in [rows : {<<>>}, pivots : {<<>>}, transform : {<<>>}]
        BY <2>1 DEF Cleared
  <2> HIDE DEF e
  <2> QED BY <2>2 DEF New
<1>3. ResetDecoder(d) = [d EXCEPT !.coded = <<>>, !.echelon = Cleared(e)]
      BY DEF ResetDecoder, e
<1> QED BY <1>1, <1>2, <1>3 DEF NewDecoder

\* There is room for a vector that is not spanned.
LEMMA RoomLeft ==
    ASSUME NEW e, NEW vecs, NEW r, EchelonOf(e, vecs, r), NEW v \in Vector, v \notin Span(vecs, r)
    PROVE  r < N
<1>1. r \in 0 .. N /\ N \in Nat
      BY Vectors DEF EchelonOf
<1>2. r # N
      BY FullSpan
<1> QED BY <1>1, <1>2

\* A chunk is added exactly when its coefficients are not spanned.
LEMMA AddsIs ==
    ASSUME NEW d, NEW chunks, NEW m, NEW r, Collected(d, chunks, m, r), NEW chunk,
           chunk.b \in Vector
    PROVE  Adds(d, chunk) <=> chunk.b \notin Span(Coeffs(d), r)
<1>1. EchelonOf(d.echelon, Coeffs(d), r) /\ Rank(d.echelon) = r /\ N \in Nat
  <2>1. Rank(d.echelon) = r /\ N \in Nat
        BY CollectedParts
  <2> QED BY <2>1 DEF Collected
<1>2. Independent(d.echelon, chunk.b) <=> chunk.b \notin Span(Coeffs(d), r)
      BY <1>1, IndependentIs
<1>3. chunk.b \notin Span(Coeffs(d), r) => r < N
      BY <1>1, RoomLeft
<1> QED BY <1>1, <1>2, <1>3 DEF Adds, IsComplete, IsFull

\* a is the collection d with one chunk more.
OneMore(a, d, chunks, m, r, chunk) ==
    /\ r < N /\ Collected(a, chunks, m, r + 1)
    /\ Coeffs(a) = More(Coeffs(d), chunk.b, r)
    /\ Extends(a.coded, d.coded, chunk, [w : Vec(m), b : Vector], r)

\* Adding an authentic chunk outside the span keeps a collection one.
LEMMA AddedIs ==
    ASSUME NEW d, NEW chunks, NEW m, NEW r, Collected(d, chunks, m, r),
           NEW chunk \in [w : Vec(m), b : Vector], chunk.w = Comb(chunks, chunk.b, N, m),
           chunk.b \notin Span(Coeffs(d), r)
    PROVE  OneMore(Added(d, chunk), d, chunks, m, r, chunk)
<1> DEFINE a == Added(d, chunk)
           V == [w : Vec(m), b : Vector]
           s == d.coded
<1>1. /\ r \in Nat /\ m \in Nat /\ chunks \in [1 .. N -> Vec(m)] /\ s \in Seq(V) /\ Len(s) = r
      /\ EchelonOf(d.echelon, Coeffs(d), r)
      BY CollectedParts DEF Collected
<1>2. chunk.b \in Vector /\ r < N
      BY <1>1, RoomLeft
<1>3. a = [echelon |-> Appended(d.echelon, chunk.b), coded |-> Append(s, chunk)]
      BY DEF Added
<1>4. a.echelon = Appended(d.echelon, chunk.b) /\ a.coded = Append(s, chunk)
      BY <1>3
<1>5. chunk \in V
      OBVIOUS
<1> HIDE DEF a, V, s
<1>6. s \in [1 .. r -> V]
      BY <1>1
<1>7. Extends(a.coded, s, chunk, V, r)
      BY <1>1, <1>4, <1>5, <1>6, AppendIs
<1>8. /\ a.coded \in Seq(V) /\ Len(a.coded) = r + 1 /\ a.coded[r + 1] = chunk
      /\ \A l \in 1 .. r : a.coded[l] = s[l]
  <2>1. a.coded \in Seq(V)
        BY <1>1, <1>4, <1>5
  <2> QED BY <1>7, <2>1 DEF Extends
<1>9. Coeffs(a) = More(Coeffs(d), chunk.b, r)
  <2>1. Coeffs(a) = [l \in 1 .. r + 1 |-> a.coded[l].b]
        BY <1>8 DEF Coeffs
  <2>2. ASSUME NEW l \in 1 .. r + 1
        PROVE  a.coded[l].b = IF l = r + 1 THEN chunk.b ELSE Coeffs(d)[l]
    <3>1. CASE l = r + 1
          BY <1>8, <3>1
    <3>2. CASE l # r + 1
      <4>1. l \in 1 .. r
            BY <1>1, <3>2
      <4>2. Coeffs(d)[l] = s[l].b
            BY <1>1, <4>1 DEF Coeffs, s
      <4> QED BY <1>8, <3>2, <4>1, <4>2
    <3> QED BY <3>1, <3>2
  <2> QED BY <2>1, <2>2 DEF More
<1>10. EchelonOf(a.echelon, Coeffs(a), r + 1)
       BY <1>1, <1>2, <1>4, <1>9, AppendedIs
<1>11. ASSUME NEW l \in 1 .. r + 1 PROVE a.coded[l].w = Comb(chunks, a.coded[l].b, N, m)
  <2>1. CASE l = r + 1
        BY <1>8, <2>1
  <2>2. CASE l # r + 1
    <3>1. l \in 1 .. r
          BY <1>1, <2>2
    <3>2. s[l].w = Comb(chunks, s[l].b, N, m)
          BY <3>1 DEF Collected, s
    <3> QED BY <1>8, <3>1, <3>2
  <2> QED BY <2>1, <2>2
<1>12. a = [echelon |-> a.echelon, coded |-> a.coded]
       BY <1>3
<1>13. Collected(a, chunks, m, r + 1)
       BY <1>1, <1>8, <1>10, <1>11, <1>12 DEF Collected, V
<1> QED BY <1>2, <1>7, <1>9, <1>13 DEF a, V, s, OneMore

\* The decoders the proposer's loop goes through.
FullChain(c, chunks) ==
    /\ c[0] = NewDecoder /\ c[N] = FullDecoder(chunks)
    /\ \A k \in 1 .. N : c[k] = Added(c[k - 1], [w |-> chunks[k], b |-> Unit(k)])

\* What the fold of FullDecoder is, on the indices up to n.
FillsTo(it, chunks, n) ==
    it = [s \in SUBSET (1 .. n) |->
              IF s = {} THEN NewDecoder
              ELSE Added(it[s \ {Max(s)}], [w |-> chunks[Max(s)], b |-> Unit(Max(s))])]

\* There is such a fold.
LEMMA FillsExists ==
    ASSUME NEW chunks
    PROVE  \E it : FillsTo(it, chunks, N)
<1> DEFINE S == {k \in 0 .. N : \E it : FillsTo(it, chunks, k)}
           chunk(i) == [w |-> chunks[i], b |-> Unit(i)]
<1>0. N \in Nat
      BY Vectors
<1>1. 0 \in S
  <2> DEFINE it == [s \in SUBSET (1 .. 0) |-> NewDecoder]
  <2>1. ASSUME NEW s \in SUBSET (1 .. 0) PROVE s = {}
        OBVIOUS
  <2>2. FillsTo(it, chunks, 0)
        BY <2>1 DEF FillsTo
  <2> QED BY <1>0, <2>2
<1>2. ASSUME NEW k \in 0 .. N - 1, k \in S PROVE k + 1 \in S
  <2>0. k \in Nat /\ k + 1 \in 0 .. N /\ 1 .. k \subseteq 1 .. k + 1 /\ k + 1 \in Nat
        BY <1>0
  <2>1. PICK it : FillsTo(it, chunks, k)
        BY <1>2
  <2> DEFINE up == [s \in SUBSET (1 .. k + 1) |->
                        IF k + 1 \in s THEN Added(it[s \ {k + 1}], chunk(k + 1)) ELSE it[s]]
  <2> HIDE DEF chunk
  <2>2. ASSUME NEW s \in SUBSET (1 .. k)
        PROVE  it[s] = IF s = {} THEN NewDecoder ELSE Added(it[s \ {Max(s)}], chunk(Max(s)))
        BY <2>1, Zenon DEF FillsTo, chunk
  <2>3. ASSUME NEW s \in SUBSET (1 .. k + 1)
        PROVE  up[s] = IF s = {} THEN NewDecoder ELSE Added(up[s \ {Max(s)}], chunk(Max(s)))
    <3>1. CASE k + 1 \in s
      <4>1. Max(s) = k + 1
            BY <2>0, <3>1, MaxIsLast
      <4>2. s \ {k + 1} \in SUBSET (1 .. k + 1) /\ k + 1 \notin s \ {k + 1} /\ s # {}
            BY <3>1
      <4>3. up[s \ {k + 1}] = it[s \ {k + 1}]
            BY <4>2
      <4>4. up[s] = Added(it[s \ {k + 1}], chunk(k + 1))
            BY <3>1
      <4> HIDE DEF up
      <4> QED BY <4>1, <4>2, <4>3, <4>4
    <3>2. CASE k + 1 \notin s
      <4>1. s \in SUBSET (1 .. k)
            BY <2>0, <3>2
      <4>2. up[s] = it[s]
            BY <3>2
      <4>3. ASSUME s # {} PROVE up[s \ {Max(s)}] = it[s \ {Max(s)}]
        <5>1. s \ {Max(s)} \in SUBSET (1 .. k + 1) /\ k + 1 \notin s \ {Max(s)}
              BY <3>2
        <5> QED BY <5>1
      <4> HIDE DEF up
      <4> QED BY <2>2, <4>1, <4>2, <4>3
    <3> QED BY <3>1, <3>2
  <2>4. FillsTo(up, chunks, k + 1)
    <3>1. up = [s \in SUBSET (1 .. k + 1) |-> up[s]]
          OBVIOUS
    <3> HIDE DEF up
    <3>2. [s \in SUBSET (1 .. k + 1) |-> up[s]] =
              [s \in SUBSET (1 .. k + 1) |->
                  IF s = {} THEN NewDecoder ELSE Added(up[s \ {Max(s)}], chunk(Max(s)))]
          BY <2>3
    <3> QED BY <3>1, <3>2 DEF FillsTo, chunk
  <2> HIDE DEF up
  <2> QED BY <2>0, <2>4
<1>3. 0 .. N \subseteq S
  <2> HIDE DEF S
  <2> QED BY <1>0, <1>1, <1>2, BoundedInduction
<1> QED BY <1>0, <1>3

\* The proposer's loop adds the chunks in order.
LEMMA FullDecoderChain ==
    ASSUME NEW chunks
    PROVE  \E c : FullChain(c, chunks)
<1> DEFINE index == [i \in 1 .. N |-> i]
           chunk(i) == [w |-> chunks[i], b |-> Unit(i)]
           Computes(iter) ==
               iter = [s \in SUBSET DOMAIN index |->
                           IF s = {} THEN NewDecoder
                           ELSE Added(iter[s \ {Max(s)}],
                                      [w |-> chunks[index[Max(s)]], b |-> Unit(index[Max(s)])])]
           fold == CHOOSE iter : Computes(iter)
           c == [k \in 0 .. N |-> fold[1 .. k]]
<1>0. N \in Nat /\ DOMAIN index = 1 .. N
      BY Vectors
<1>1. FullDecoder(chunks) = fold[DOMAIN index]
      BY Zenon DEF FullDecoder, FoldLeft, MapThenFoldSet
<1>2. PICK it : FillsTo(it, chunks, N)
      BY FillsExists
<1>3. ASSUME NEW s \in SUBSET (1 .. N), s # {} PROVE index[Max(s)] = Max(s)
  <2>1. Max(s) \in s
        BY <1>0, <1>3, MaxMember
  <2> QED BY <2>1
<1>4. Computes(it)
  <2>1. ASSUME NEW s \in SUBSET (1 .. N)
        PROVE  it[s] = IF s = {} THEN NewDecoder
                       ELSE Added(it[s \ {Max(s)}],
                                  [w |-> chunks[index[Max(s)]], b |-> Unit(index[Max(s)])])
    <3>1. it[s] = IF s = {} THEN NewDecoder ELSE Added(it[s \ {Max(s)}], chunk(Max(s)))
          BY <1>2, Zenon DEF FillsTo
    <3> HIDE DEF index
    <3> QED BY <1>3, <3>1
  <2>2. it = [s \in SUBSET (1 .. N) |-> it[s]]
        BY <1>2 DEF FillsTo
  <2> HIDE DEF index
  <2> QED BY <1>0, <2>1, <2>2
<1>5. Computes(fold)
  <2> HIDE DEF Computes
  <2> QED BY <1>4, Zenon
<1>6. ASSUME NEW s \in SUBSET (1 .. N)
      PROVE  fold[s] = IF s = {} THEN NewDecoder ELSE Added(fold[s \ {Max(s)}], chunk(Max(s)))
  <2>1. fold[s] = IF s = {} THEN NewDecoder
                  ELSE Added(fold[s \ {Max(s)}],
                             [w |-> chunks[index[Max(s)]], b |-> Unit(index[Max(s)])])
    <3> HIDE DEF fold, index
    <3> QED BY <1>0, <1>5
  <2> HIDE DEF fold, index
  <2> QED BY <1>3, <2>1
<1> HIDE DEF Computes, fold, index, chunk
<1>7. ASSUME NEW k \in 1 .. N PROVE c[k] = Added(c[k - 1], chunk(k))
  <2>1. k \in Nat \ {0} /\ 1 .. k \in SUBSET (1 .. N) /\ k \in 0 .. N /\ k - 1 \in 0 .. N
        BY <1>0
  <2>2. Max(1 .. k) = k /\ (1 .. k) \ {k} = 1 .. k - 1 /\ 1 .. k # {}
        BY <2>1, FoldSteps, Zenon
  <2>3. fold[1 .. k] = Added(fold[1 .. k - 1], chunk(k))
        BY <1>6, <2>1, <2>2
  <2>4. c[k] = fold[1 .. k] /\ c[k - 1] = fold[1 .. k - 1]
        BY <2>1
  <2> HIDE DEF c
  <2> QED BY <2>3, <2>4
<1>8. c[0] = NewDecoder /\ c[N] = FullDecoder(chunks)
  <2>1. fold[{}] = NewDecoder
        BY <1>6
  <2>2. 1 .. 0 = {} /\ 0 \in 0 .. N /\ N \in 0 .. N
        BY <1>0
  <2>3. c[0] = fold[1 .. 0] /\ c[N] = fold[1 .. N]
        BY <2>2
  <2> HIDE DEF c
  <2> QED BY <1>0, <1>1, <2>1, <2>2, <2>3
<1> HIDE DEF c
<1>9. FullChain(c, chunks)
      BY <1>7, <1>8 DEF FullChain, chunk
<1> QED BY <1>9

\* The first k chunks are collected, under the first k unit vectors.
Filled(d, chunks, m, k) ==
    /\ Collected(d, chunks, m, k)
    /\ \A l \in 1 .. k : d.coded[l] = [w |-> chunks[l], b |-> Unit(l)]

\* The next one is added to them.
LEMMA FilledStep ==
    ASSUME NEW d, NEW chunks, NEW m, NEW k \in 0 .. N - 1, Filled(d, chunks, m, k)
    PROVE  Filled(Added(d, [w |-> chunks[k + 1], b |-> Unit(k + 1)]), chunks, m, k + 1)
<1> DEFINE chunk == [w |-> chunks[k + 1], b |-> Unit(k + 1)]
           a == Added(d, chunk)
           V == [w : Vec(m), b : Vector]
<1>1. /\ Collected(d, chunks, m, k) /\ N \in Nat /\ k + 1 \in 1 .. N /\ k \in 0 .. N
      /\ chunks \in [1 .. N -> Vec(m)] /\ m \in Nat
      BY Vectors DEF Filled, Collected
<1>2. Unit(k + 1) \in Vector /\ chunks[k + 1] \in Vec(m)
      BY <1>1, Vectors
<1>3. chunk \in V /\ chunk.w = chunks[k + 1] /\ chunk.b = Unit(k + 1)
      BY <1>2
<1>4. Comb(chunks, Unit(k + 1), N, m) = chunks[k + 1]
      BY <1>1, CombUnit DEF Unit
<1>5. Unit(k + 1) \notin Span(Coeffs(d), k)
  <2>1. ASSUME NEW l \in 1 .. k PROVE Coeffs(d)[l] = Unit(l)
    <3>1. Coeffs(d)[l] = d.coded[l].b
          BY <1>1, CollectedParts
    <3>2. d.coded[l] = [w |-> chunks[l], b |-> Unit(l)]
          BY DEF Filled
    <3>3. d.coded[l].b = Unit(l)
          BY <3>2
    <3> QED BY <3>1, <3>3
  <2>2. \A u \in Span(Coeffs(d), k) : \A i \in k + 1 .. N : u[i] = 0
        BY <1>1, <2>1, SpanUnits
  <2>3. Unit(k + 1)[k + 1] = 1 /\ k + 1 \in k + 1 .. N
        BY <1>1 DEF Unit
  <2> QED BY <2>2, <2>3
<1> HIDE DEF chunk, V, a
<1>6. Collected(a, chunks, m, k + 1) /\ Extends(a.coded, d.coded, chunk, V, k)
      BY <1>1, <1>3, <1>4, <1>5, AddedIs DEF a, V, OneMore
<1>7. ASSUME NEW l \in 1 .. k + 1 PROVE a.coded[l] = [w |-> chunks[l], b |-> Unit(l)]
  <2>1. CASE l = k + 1
        BY <1>6, <2>1 DEF Extends, chunk
  <2>2. CASE l # k + 1
    <3>1. l \in 1 .. k
          BY <1>1, <2>2
    <3>2. a.coded[l] = d.coded[l]
          BY <1>6, <3>1 DEF Extends
    <3> QED BY <3>1, <3>2 DEF Filled
  <2> QED BY <2>1, <2>2
<1> QED BY <1>6, <1>7 DEF Filled, a, chunk

\* The proposer's decoder holds the original chunks under the unit vectors.
LEMMA FullDecoderIs ==
    ASSUME NEW m \in Nat, NEW chunks \in [1 .. N -> Vec(m)]
    PROVE  Filled(FullDecoder(chunks), chunks, m, N)
<1>0. N \in Nat
      BY Vectors
<1>1. PICK c : FullChain(c, chunks)
      BY FullDecoderChain
<1>2. /\ c[0] = NewDecoder /\ c[N] = FullDecoder(chunks)
      /\ \A k \in 1 .. N : c[k] = Added(c[k - 1], [w |-> chunks[k], b |-> Unit(k)])
      BY <1>1 DEF FullChain
<1> DEFINE S == {k \in 0 .. N : Filled(c[k], chunks, m, k)}
<1>3. 0 \in S
  <2>1. Filled(NewDecoder, chunks, m, 0)
    <3>1. Collected(NewDecoder, chunks, m, 0)
          BY NewIs
    <3> QED BY <3>1 DEF Filled
  <2> QED BY <1>0, <1>2, <2>1
<1>4. ASSUME NEW k \in 0 .. N - 1, k \in S PROVE k + 1 \in S
  <2>1. k + 1 \in 1 .. N /\ k + 1 \in 0 .. N /\ (k + 1) - 1 = k
        BY <1>0
  <2>2. Filled(Added(c[k], [w |-> chunks[k + 1], b |-> Unit(k + 1)]), chunks, m, k + 1)
        BY <1>4, FilledStep
  <2>3. c[k + 1] = Added(c[k], [w |-> chunks[k + 1], b |-> Unit(k + 1)])
        BY <1>2, <2>1
  <2> QED BY <2>1, <2>2, <2>3
<1>5. 0 .. N \subseteq S
  <2> HIDE DEF S
  <2> QED BY <1>0, <1>3, <1>4, BoundedInduction
<1>6. N \in S
      BY <1>0, <1>5
<1> QED BY <1>2, <1>6

\* Coefficients that are not zero never combine independent vectors to nothing.
LEMMA NeverZero ==
    ASSUME NEW e, NEW vecs, NEW r, EchelonOf(e, vecs, r), r # 0, NEW a \in [1 .. r -> NonZero]
    PROVE  Comb(vecs, a, r, N) # Zero
<1> DEFINE k == r - 1
           u == Comb(vecs, a, k, N)
           v == vecs[r]
<1>1. /\ r \in Nat /\ k \in Nat /\ k + 1 = r /\ r \in 1 .. r /\ N \in Nat /\ Vector = Vec(N)
      /\ vecs \in [1 .. r -> Vec(N)] /\ 1 .. k \subseteq 1 .. r
      /\ vecs[r] \notin Span(vecs, k)
      BY Vectors DEF EchelonOf
<1>2. a \in [1 .. r -> Field] /\ a[r] \in NonZero
      BY <1>1 DEF NonZero
<1> HIDE DEF k
<1>3. vecs \in [1 .. k + 1 -> Vec(N)] /\ a \in [1 .. k + 1 -> Field]
      BY <1>1, <1>2
<1>4. u \in Span(vecs, k)
  <2> DEFINE c == [l \in 1 .. k |-> a[l]]
  <2>1. c \in [1 .. k -> Field] /\ \A l \in 1 .. k : c[l] = a[l]
        BY <1>1, <1>2
  <2> HIDE DEF c
  <2>2. Comb(vecs, c, k, N) = u
        BY <1>1, <2>1, CombEqual
  <2> QED BY <2>1, <2>2 DEF Span
<1>5. Subspace(Span(vecs, k))
  <2> DEFINE w == [l \in 1 .. k |-> vecs[l]]
  <2>1. w \in [1 .. k -> Vector] /\ \A l \in 1 .. k : w[l] = vecs[l]
        BY <1>1
  <2> HIDE DEF w
  <2>2. Subspace(Span(w, k))
        BY <1>1, <2>1, SpanSubspace
  <2>3. Span(w, k) = Span(vecs, k)
        BY <1>1, <2>1, SpanEqual
  <2> QED BY <2>2, <2>3
<1>6. u \in Vector /\ v \in Vector
      BY <1>1, <1>4, <1>5 DEF Subspace
<1> HIDE DEF u, v
<1>7. Comb(vecs, a, r, N) = Plus(u, v, a[r], N)
  <2>1. \A i \in 1 .. N : Comb(vecs, a, k + 1, N)[i] =
                              (Comb(vecs, a, k, N)[i] + a[k + 1] * vecs[k + 1][i]) % P
        BY <1>1, <1>3, CombSnoc, ZenonT(60)
  <2>2. \A i \in 1 .. N : Comb(vecs, a, r, N)[i] = Plus(u, v, a[r], N)[i]
        BY <1>1, <2>1, PlusAt DEF u, v
  <2>3. Comb(vecs, a, r, N) \in Vec(N) /\ Plus(u, v, a[r], N) \in Vec(N)
    <3>1. a[r] \in Int
          BY <1>2, InField DEF NonZero
    <3> QED BY <1>1, <1>2, <1>6, <3>1, CombType, PlusVector
  <2> DEFINE x == Comb(vecs, a, r, N)   y == Plus(u, v, a[r], N)
  <2>4. x \in Vec(N) /\ y \in Vec(N) /\ \A i \in 1 .. N : x[i] = y[i]
        BY <2>2, <2>3
  <2> HIDE DEF x, y
  <2>5. x = [i \in 1 .. N |-> x[i]] /\ y = [i \in 1 .. N |-> y[i]]
        BY <2>4 DEF Vec
  <2>6. [i \in 1 .. N |-> x[i]] = [i \in 1 .. N |-> y[i]]
        BY <2>4
  <2> QED BY <2>5, <2>6 DEF x, y
<1>8. ASSUME Plus(u, v, a[r], N) = Zero PROVE FALSE
  <2>1. v = Plus(Zero, u, 0 - Inv(a[r]), N)
        BY <1>2, <1>6, <1>8, MultipleOf
  <2>2. 0 - Inv(a[r]) \in Int
        BY <1>2, Inverses, InField DEF NonZero
  <2>3. v \in Span(vecs, k)
        BY <1>4, <1>5, <2>1, <2>2 DEF Subspace
  <2> QED BY <1>1, <2>3 DEF v
<1> QED BY <1>7, <1>8

---------------------------------------------------------------------------
\* Chunks and their proofs, of a block of N chunks of m elements.

\* A coded chunk as far as its types go; the one with coefficients b.
CodedChunk(m) == [w : Vec(m), b : Vector]
ChunkOf(chunks, b) == [w |-> LinearCombination(chunks, b), b |-> b]

\* The data of a coded chunk is the combination its coefficients stand for.
LEMMA ChunkIs ==
    ASSUME NEW m \in Nat, NEW chunks \in [1 .. N -> Vec(m)], NEW b \in Vector
    PROVE  /\ LinearCombination(chunks, b) = Comb(chunks, b, N, m)
           /\ Comb(chunks, b, N, m) \in Vec(m)
           /\ ChunkOf(chunks, b) \in CodedChunk(m)
           /\ ChunkOf(chunks, b).b = b /\ ChunkOf(chunks, b).w = Comb(chunks, b, N, m)
<1>1. N \in Nat \ {0} /\ N \in Nat
      BY ChunksAssumption
<1>2. b \in [1 .. N -> Field]
      BY DEF Vector
<1>3. LinearCombination(chunks, b) = Comb(chunks, b, N, m)
      BY <1>1, CombIs
<1>4. Comb(chunks, b, N, m) \in Vec(m)
      BY <1>1, <1>2, CombType
<1> QED BY <1>3, <1>4 DEF ChunkOf, CodedChunk

\* A BFKW signature of block id.
Signature(id, w, b) == [id |-> id, message |-> w \o b]

\* Signatures of block id, of the data u and the coefficients v, n of them.
SignaturesOf(sigs, id, u, v, n, m, k) ==
    /\ n \in Nat \ {0} /\ m \in Nat /\ k \in Nat
    /\ u \in [1 .. n -> Vec(m)] /\ v \in [1 .. n -> Vec(k)]
    /\ Len(sigs) = n /\ \A l \in 1 .. n : sigs[l] = Signature(id, u[l], v[l])

\* BFKW signatures of one block combine to the signature of the combined chunk.
LEMMA SignaturesCombine ==
    ASSUME NEW n, NEW m, NEW k, NEW u, NEW v, NEW id, NEW sigs,
           SignaturesOf(sigs, id, u, v, n, m, k), NEW a \in [1 .. n -> Field]
    PROVE  BfkwCombine(sigs, a) = Signature(id, Comb(u, a, n, m), Comb(v, a, n, k))
<1> DEFINE w == [l \in 1 .. n |-> u[l] \o v[l]]
<1>0. /\ n \in Nat \ {0} /\ m \in Nat /\ k \in Nat
      /\ u \in [1 .. n -> Vec(m)] /\ v \in [1 .. n -> Vec(k)]
      BY DEF SignaturesOf
<1>1. /\ Len(sigs) = n /\ 1 \in 1 .. n /\ n \in Nat /\ m + k \in Nat
      /\ \A l \in 1 .. n : sigs[l].id = id /\ sigs[l].message = u[l] \o v[l]
  <2>1. Len(sigs) = n /\ 1 \in 1 .. n /\ n \in Nat /\ m + k \in Nat
    <3> HIDE DEF w
    <3> QED BY DEF SignaturesOf
  <2>2. ASSUME NEW l \in 1 .. n PROVE sigs[l].id = id /\ sigs[l].message = u[l] \o v[l]
    <3> HIDE DEF w
    <3> DEFINE both == u[l] \o v[l]
    <3>1. sigs[l] = [id |-> id, message |-> both]
          BY DEF SignaturesOf, Signature
    <3> HIDE DEF both
    <3>2. sigs[l].id = id /\ sigs[l].message = both
          BY <3>1
    <3> QED BY <3>2 DEF both
  <2> QED BY <2>1, <2>2
<1>2. [l \in 1 .. Len(sigs) |-> sigs[l].message] = w
      BY <1>1
<1>3. JoinedVectors(w, u, v, n)
      BY DEF JoinedVectors
<1>4. w \in [1 .. n -> Vec(m + k)]
  <2>1. ASSUME NEW l \in 1 .. n PROVE u[l] \o v[l] \in Vec(m + k)
    <3>1. u[l] \in Vec(m) /\ v[l] \in Vec(k)
          BY <1>0
    <3> QED BY <1>0, <3>1, Joined
  <2> QED BY <2>1
<1> HIDE DEF w
<1>5. LinearCombination(w, a) = Comb(w, a, n, m + k)
      BY <1>0, <1>1, <1>4, CombIs, ZenonT(60)
<1>6. Comb(w, a, n, m + k) = Comb(u, a, n, m) \o Comb(v, a, n, k)
  <2>1. Joins(Comb(w, a, n, m + k), Comb(u, a, n, m), Comb(v, a, n, k))
        BY <1>0, <1>1, <1>3, CombConcat
  <2> QED BY <2>1 DEF Joins
<1>7. (IF \A l \in 1 .. Len(sigs) : sigs[l].id = sigs[1].id THEN sigs[1].id ELSE MixedId) = id
      BY <1>1
<1> QED BY <1>2, <1>5, <1>6, <1>7 DEF BfkwCombine, Signature

\* The proof the proposer of block id gives for coefficients b.
SignFor(scheme, id, chunks, b) ==
    IF scheme = "Pedersen" THEN SignBlock(chunks) ELSE BfkwSignCoded(HashPoints(id), chunks, b)

\* What that proof is: of Pedersen's scheme one and the same for all packets of a block,
LEMMA PedersenSigns ==
    ASSUME NEW scheme, scheme = "Pedersen", NEW id, NEW b, NEW m, NEW chunks \in [1 .. N -> Vec(m)]
    PROVE  SignFor(scheme, id, chunks, b) = [commitments |-> chunks, signature |-> chunks]
<1>1. [i \in 1 .. N |-> chunks[i]] = chunks
      OBVIOUS
<1> QED BY <1>1 DEF SignFor, SignBlock, Commit

\* and of BFKW's the signature of the packet's data and coefficients.
LEMMA BfkwSigns ==
    ASSUME NEW scheme, scheme # "Pedersen", NEW id, NEW m \in Nat,
           NEW chunks \in [1 .. N -> Vec(m)], NEW b \in Vector
    PROVE  SignFor(scheme, id, chunks, b) = Signature(id, Comb(chunks, b, N, m), b)
<1> DEFINE sigs == [i \in 1 .. N |-> BfkwSign(HashPoints(id), i, chunks[i])]
           units == [l \in 1 .. N |-> Unit(l)]
<1>1. SignFor(scheme, id, chunks, b) = BfkwCombine(sigs, b)
      BY DEF SignFor, BfkwSignCoded
<1>2. SignaturesOf(sigs, id, chunks, units, N, m, N)
  <2>1. Len(sigs) = N
        BY ChunksAssumption
  <2>2. ASSUME NEW l \in 1 .. N PROVE sigs[l] = Signature(id, chunks[l], units[l])
        BY DEF BfkwSign, HashPoints, Signature
  <2>3. units \in [1 .. N -> Vec(N)] /\ N \in Nat \ {0} /\ N \in Nat
        BY ChunksAssumption, Vectors
  <2> HIDE DEF sigs, units
  <2> QED BY <2>1, <2>2, <2>3 DEF SignaturesOf
<1>3. b \in [1 .. N -> Field]
      BY DEF Vector
<1>4. Comb(units, b, N, N) = b
      BY CombOfUnits
<1> HIDE DEF sigs, units
<1>5. BfkwCombine(sigs, b) = Signature(id, Comb(chunks, b, N, m), Comb(units, b, N, N))
      BY <1>2, <1>3, SignaturesCombine
<1> QED BY <1>1, <1>4, <1>5

\* The signature of the l-th chunk alone is the one for the l-th unit vector.
LEMMA SignUnit ==
    ASSUME NEW scheme, scheme # "Pedersen", NEW id, NEW m \in Nat,
           NEW chunks \in [1 .. N -> Vec(m)], NEW l \in 1 .. N
    PROVE  BfkwSign(HashPoints(id), l, chunks[l]) = SignFor(scheme, id, chunks, Unit(l))
<1>1. N \in Nat /\ Unit(l) \in Vector
      BY Vectors
<1>2. Comb(chunks, Unit(l), N, m) = chunks[l]
      BY <1>1, CombUnit DEF Unit
<1>3. SignFor(scheme, id, chunks, Unit(l)) = Signature(id, chunks[l], Unit(l))
      BY <1>1, <1>2, BfkwSigns
<1> QED BY <1>3 DEF BfkwSign, HashPoints, Signature

\* The packet of block id with coefficients b, as its proposer makes it.
PacketFor(scheme, id, chunks, b) ==
    [chunk |-> ChunkOf(chunks, b), proof |-> SignFor(scheme, id, chunks, b)]

\* A chunk verifies under a proof of the proposer's exactly when it is the chunk of the
\* block with its coefficients and the proof the one for them.
LEMMA VerifiedIs ==
    ASSUME NEW scheme, NEW id, NEW m \in Nat, NEW chunks \in [1 .. N -> Vec(m)],
           NEW x \in CodedChunk(m), NEW c \in Vector, NEW p, p = SignFor(scheme, id, chunks, c)
    PROVE  Verify(scheme, HashPoints(id), x, p) <=>
               x = ChunkOf(chunks, x.b) /\ p = SignFor(scheme, id, chunks, x.b)
<1> DEFINE w == x.w
           b == x.b
<1>1. x = [b |-> b, w |-> w] /\ b \in Vector /\ w \in Vec(m)
      BY DEF CodedChunk
<1> HIDE DEF w, b
<1>2. /\ LinearCombination(chunks, b) = Comb(chunks, b, N, m)
      /\ Comb(chunks, b, N, m) \in Vec(m) /\ Comb(chunks, c, N, m) \in Vec(m)
      BY <1>1, ChunkIs
<1>3. x = ChunkOf(chunks, b) <=> w = Comb(chunks, b, N, m)
  <2>1. ChunkOf(chunks, b) = [w |-> Comb(chunks, b, N, m), b |-> b]
        BY <1>2 DEF ChunkOf
  <2>2. ChunkOf(chunks, b).w = Comb(chunks, b, N, m) /\ x.w = w
        BY <2>1 DEF w
  <2> QED BY <1>1, <2>1, <2>2
<1>4. ASSUME scheme = "Pedersen"
      PROVE  Verify(scheme, HashPoints(id), x, p) <=>
                 x = ChunkOf(chunks, b) /\ p = SignFor(scheme, id, chunks, b)
  <2>1. /\ SignFor(scheme, id, chunks, b) = [commitments |-> chunks, signature |-> chunks]
        /\ p = [commitments |-> chunks, signature |-> chunks]
    <3>1. ASSUME NEW v \in Vector
          PROVE  SignFor(scheme, id, chunks, v) = [commitments |-> chunks, signature |-> chunks]
          BY <1>4, PedersenSigns
    <3> QED BY <1>1, <3>1
  <2>2. p.commitments = chunks /\ p.signature = chunks
        BY <2>1
  <2>3. Verify(scheme, HashPoints(id), x, p) <=> w = LinearCombination(chunks, b)
        BY <1>4, <2>2 DEF Verify, PedersenVerify, KeyVerify, Commit, w, b
  <2> QED BY <1>2, <1>3, <2>1, <2>3
<1>5. ASSUME scheme # "Pedersen"
      PROVE  Verify(scheme, HashPoints(id), x, p) <=>
                 x = ChunkOf(chunks, b) /\ p = SignFor(scheme, id, chunks, b)
  <2> DEFINE data(v) == Comb(chunks, v, N, m)
  <2>1. SignFor(scheme, id, chunks, b) = Signature(id, data(b), b) /\ p = Signature(id, data(c), c)
        BY <1>1, <1>5, BfkwSigns
  <2>2. Verify(scheme, HashPoints(id), x, p) <=> p = Signature(id, w, b)
        BY <1>5 DEF Verify, BfkwVerify, HashPoints, Signature, w, b
  <2>3. data(c) \in Vec(m) /\ data(b) \in Vec(m) /\ c \in Vec(N) /\ b \in Vec(N) /\ N \in Nat
        BY <1>1, <1>2, Vectors
  <2> HIDE DEF data
  <2>4. ASSUME Signature(id, data(c), c) = Signature(id, w, b) PROVE data(c) = w /\ c = b
    <3>1. data(c) \o c = w \o b
      <4>1. Signature(id, data(c), c).message = Signature(id, w, b).message
            BY <2>4
      <4> QED BY <4>1 DEF Signature
    <3> DEFINE z == w \o b
    <3>2. Joins(z, w, b) /\ Joins(z, data(c), c)
          BY <3>1 DEF Joins
    <3> HIDE DEF z
    <3> QED BY <1>1, <2>3, <3>2, JoinedParts
  <2>5. x = ChunkOf(chunks, b) <=> w = data(b)
        BY <1>3 DEF data
  <2> QED BY <2>1, <2>2, <2>4, <2>5
<1> QED BY <1>4, <1>5 DEF b

---------------------------------------------------------------------------
\* What a node keeps: chunks collected of a block, and their proofs beside them.

\* The proofs are those of the chunks kept, in the order they were kept.
Signed(sigs, coded, scheme, id, chunks) ==
    sigs = [l \in 1 .. Len(coded) |-> SignFor(scheme, id, chunks, coded[l].b)]

Kept(d, sigs, scheme, id, chunks, m) ==
    Collected(d, chunks, m, Len(d.coded)) /\ Signed(sigs, d.coded, scheme, id, chunks)

\* One chunk more, one proof more.
LEMMA SignedMore ==
    ASSUME NEW scheme, NEW id, NEW chunks, NEW sigs, NEW coded, NEW more,
           NEW r \in Nat, Len(coded) = r, NEW chunk, NEW V, Extends(more, coded, chunk, V, r),
           Signed(sigs, coded, scheme, id, chunks), NEW p, p = SignFor(scheme, id, chunks, chunk.b)
    PROVE  Signed(Append(sigs, p), more, scheme, id, chunks)
<1> DEFINE S == {sigs[l] : l \in 1 .. r} \cup {p}
           t == Append(sigs, p)
<1>1. /\ Len(more) = r + 1 /\ more[r + 1] = chunk /\ \A l \in 1 .. r : more[l] = coded[l]
      BY DEF Extends
<1>2. sigs = [l \in 1 .. r |-> SignFor(scheme, id, chunks, coded[l].b)]
      BY DEF Signed
<1>3. sigs \in [1 .. r -> S] /\ p \in S
      BY <1>2
<1> HIDE DEF S, t
<1>4. Extends(t, sigs, p, S, r)
      BY <1>3, AppendIs DEF t
<1>5. t \in [1 .. r + 1 -> S] /\ t[r + 1] = p /\ \A l \in 1 .. r : t[l] = sigs[l]
      BY <1>4 DEF Extends
<1>6. ASSUME NEW l \in 1 .. r + 1 PROVE t[l] = SignFor(scheme, id, chunks, more[l].b)
  <2>1. CASE l = r + 1
        BY <1>1, <1>5, <2>1
  <2>2. CASE l # r + 1
    <3>1. l \in 1 .. r
          BY <2>2
    <3> QED BY <1>1, <1>2, <1>5, <3>1
  <2> QED BY <2>1, <2>2
<1> QED BY <1>1, <1>5, <1>6 DEF Signed, t

\* What a call of coded_receive leads to, out being what it returns: an authentic packet
\* outside the span is added and answered as innovative, and nothing else changes anything.
Outcome(out, d, sigs, packet, scheme, id, chunks, m) ==
    \/ /\ Verify(scheme, HashPoints(id), packet.chunk, packet.proof) /\ Adds(d, packet.chunk)
       /\ out.answer = "innovative" /\ out.decoder = Added(d, packet.chunk)
       /\ packet.chunk.b \notin Span(Coeffs(d), Len(d.coded))
       /\ OneMore(out.decoder, d, chunks, m, Len(d.coded), packet.chunk)
    \/ /\ Verify(scheme, HashPoints(id), packet.chunk, packet.proof) /\ ~Adds(d, packet.chunk)
       /\ out = [decoder |-> d, proofs |-> sigs, answer |-> "redundant"]
    \/ /\ ~Verify(scheme, HashPoints(id), packet.chunk, packet.proof)
       /\ out = [decoder |-> d, proofs |-> sigs, answer |-> "rejected"]

\* Receiving a chunk under a proof of the proposer's.
LEMMA ReceivedIs ==
    ASSUME NEW scheme, NEW id, NEW m \in Nat, NEW chunks \in [1 .. N -> Vec(m)], NEW d, NEW sigs,
           Kept(d, sigs, scheme, id, chunks, m), NEW packet, packet.chunk \in CodedChunk(m),
           NEW c \in Vector, packet.proof = SignFor(scheme, id, chunks, c),
           NEW out, out = CodedReceive(scheme, HashPoints(id), d, sigs, packet)
    PROVE  /\ Outcome(out, d, sigs, packet, scheme, id, chunks, m)
           /\ Kept(out.decoder, out.proofs, scheme, id, chunks, m)
<1> DEFINE r == Len(d.coded)
           chunk == packet.chunk
           authentic == Verify(scheme, HashPoints(id), chunk, packet.proof)
<1>1. Collected(d, chunks, m, r) /\ Signed(sigs, d.coded, scheme, id, chunks)
      BY DEF Kept
<1>2. chunk.b \in Vector /\ chunk \in [w : Vec(m), b : Vector]
      BY DEF CodedChunk
<1>3. CASE authentic /\ Adds(d, chunk)
  <2>1. out = [decoder |-> Added(d, chunk), proofs |-> Append(sigs, packet.proof),
               answer |-> "innovative"]
        BY <1>3 DEF CodedReceive
  <2>2. chunk = ChunkOf(chunks, chunk.b) /\ packet.proof = SignFor(scheme, id, chunks, chunk.b)
    <3> HIDE DEF chunk
    <3> QED BY <1>3, VerifiedIs DEF chunk
  <2>3. chunk.w = Comb(chunks, chunk.b, N, m)
        BY <1>2, <2>2, ChunkIs
  <2> HIDE DEF r, chunk, authentic
  <2>4. chunk.b \notin Span(Coeffs(d), r)
        BY <1>1, <1>2, <1>3, AddsIs
  <2>5. OneMore(Added(d, chunk), d, chunks, m, r, chunk)
        BY <1>1, <1>2, <2>3, <2>4, AddedIs
  <2>6. /\ Collected(Added(d, chunk), chunks, m, r + 1)
        /\ Extends(Added(d, chunk).coded, d.coded, chunk, [w : Vec(m), b : Vector], r)
        BY <2>5 DEF OneMore
  <2>7. Len(d.coded) = r /\ Len(Added(d, chunk).coded) = r + 1
        BY <1>1, <2>6 DEF Collected
  <2>8. r \in Nat
        BY <1>1, CollectedParts
  <2>9. Signed(Append(sigs, packet.proof), Added(d, chunk).coded, scheme, id, chunks)
        BY <1>1, <2>2, <2>6, <2>7, <2>8, SignedMore
  <2>10. Kept(out.decoder, out.proofs, scheme, id, chunks, m)
         BY <2>1, <2>6, <2>7, <2>9 DEF Kept
  <2> QED BY <1>3, <2>1, <2>4, <2>5, <2>7, <2>10 DEF Outcome, chunk, authentic
<1>4. CASE authentic /\ ~Adds(d, chunk)
  <2>1. out = [decoder |-> d, proofs |-> sigs, answer |-> "redundant"]
        BY <1>4 DEF CodedReceive
  <2> QED BY <1>4, <2>1 DEF Outcome
<1>5. CASE ~authentic
  <2>1. out = [decoder |-> d, proofs |-> sigs, answer |-> "rejected"]
        BY <1>5 DEF CodedReceive
  <2> QED BY <1>5, <2>1 DEF Outcome
<1> QED BY <1>3, <1>4, <1>5

\* A new decoder finds any chunk useful whose coefficients are not all zero.
LEMMA NewAdds ==
    ASSUME NEW chunk, chunk.b \in Vector \ {Zero}
    PROVE  Adds(NewDecoder, chunk)
<1> DEFINE chunks == [i \in 1 .. N |-> ZeroVec(0)]
<1>1. chunks \in [1 .. N -> Vec(0)] /\ 0 \in Nat
      BY DEF ZeroVec, Vec
<1>2. Collected(NewDecoder, chunks, 0, 0) /\ Coeffs(NewDecoder) = <<>>
  <2> HIDE DEF chunks
  <2> QED BY <1>1, NewIs
<1>3. Span(Coeffs(NewDecoder), 0) = {Zero}
      BY SpanNone
<1> QED BY <1>2, <1>3, AddsIs

\* What coded_forward makes, at any rank and with any coefficients that are not zero, is a
\* packet as the proposer makes it, and not the useless one.
LEMMA ForwardedIs ==
    ASSUME NEW scheme, NEW id, NEW m \in Nat, NEW chunks \in [1 .. N -> Vec(m)], NEW d, NEW sigs,
           Kept(d, sigs, scheme, id, chunks, m), d.coded # <<>>,
           NEW alphas \in RandomCoefficients(Len(d.coded))
    PROVE  \E b \in Vector \ {Zero} :
               CodedForward(scheme, d, sigs, alphas) = PacketFor(scheme, id, chunks, b)
<1> DEFINE r == Len(d.coded)
           b == Comb(Coeffs(d), alphas, r, N)
           w == Comb(Datas(d), alphas, r, m)
<1>1. /\ Collected(d, chunks, m, r) /\ Signed(sigs, d.coded, scheme, id, chunks)
      /\ d.coded \in Seq(CodedChunk(m)) /\ EchelonOf(d.echelon, Coeffs(d), r)
      BY DEF Kept, Collected, CodedChunk
<1>2. r \in Nat \ {0} /\ Len(d.coded) = r
      BY <1>1
<1>3. alphas \in [1 .. r -> NonZero]
      BY DEF RandomCoefficients
<1>4. CodedForward(scheme, d, sigs, alphas) =
          [chunk |-> [w |-> LinearCombination(Datas(d), alphas),
                      b |-> LinearCombination(Coeffs(d), alphas)],
           proof |-> Combine(scheme, sigs, alphas)]
      BY DEF CodedForward, ReencodeWith, Reencode
<1> HIDE DEF r
<1>5. alphas \in [1 .. r -> Field] /\ 1 \in 1 .. r /\ r # 0
      BY <1>2, <1>3 DEF NonZero
<1>6. /\ Coeffs(d) \in [1 .. r -> Vec(N)] /\ Datas(d) \in [1 .. r -> Vec(m)] /\ r \in Nat
      /\ \A l \in 1 .. r : /\ Coeffs(d)[l] = d.coded[l].b
                           /\ Datas(d)[l] = Comb(chunks, Coeffs(d)[l], N, m)
      /\ N \in Nat
      BY <1>1, CollectedParts, ChunksAssumption
<1>7. LinearCombination(Datas(d), alphas) = w /\ LinearCombination(Coeffs(d), alphas) = b
      BY <1>2, <1>6, CombIs
<1>8. b \in Vector /\ b # Zero
  <2>1. b \in Vec(N)
        BY <1>5, <1>6, CombType
  <2>2. b # Zero
        BY <1>1, <1>3, <1>5, NeverZero
  <2> QED BY <2>1, <2>2, Vectors
<1>9. w = Comb(chunks, b, N, m)
      BY <1>1, <1>5, CombineCollected
<1> HIDE DEF b, w
<1>10. ASSUME NEW l \in 1 .. r
       PROVE  /\ Coeffs(d)[l] \in Vector /\ sigs[l] = SignFor(scheme, id, chunks, Coeffs(d)[l])
              /\ Datas(d)[l] = Comb(chunks, Coeffs(d)[l], N, m)
  <2>1. Coeffs(d)[l] \in Vector
        BY <1>6, Vectors
  <2>2. sigs[l] = SignFor(scheme, id, chunks, d.coded[l].b)
        BY <1>1, <1>2 DEF Signed
  <2> QED BY <1>6, <2>1, <2>2
<1>11. Len(sigs) = r
       BY <1>1, <1>2, <1>6 DEF Signed
<1>12. Combine(scheme, sigs, alphas) = SignFor(scheme, id, chunks, b)
  <2>1. CASE scheme = "Pedersen"
    <3>1. sigs[1] = SignFor(scheme, id, chunks, Coeffs(d)[1]) /\ Coeffs(d)[1] \in Vector
          BY <1>5, <1>10
    <3>2. ASSUME NEW v \in Vector
          PROVE  SignFor(scheme, id, chunks, v) = [commitments |-> chunks, signature |-> chunks]
          BY <2>1, PedersenSigns
    <3> QED BY <1>8, <2>1, <3>1, <3>2 DEF Combine, PedersenCombine
  <2>2. CASE scheme # "Pedersen"
    <3> DEFINE u == Datas(d)   v == Coeffs(d)
    <3>1. ASSUME NEW l \in 1 .. r PROVE sigs[l] = Signature(id, u[l], v[l])
      <4>1. v[l] \in Vector /\ u[l] = Comb(chunks, v[l], N, m)
            /\ sigs[l] = SignFor(scheme, id, chunks, v[l])
            BY <1>10
      <4> QED BY <2>2, <4>1, BfkwSigns
    <3>2. SignaturesOf(sigs, id, u, v, r, m, N)
          BY <1>2, <1>6, <1>11, <3>1 DEF SignaturesOf
    <3> HIDE DEF u, v
    <3>3. BfkwCombine(sigs, alphas) = Signature(id, Comb(u, alphas, r, m), Comb(v, alphas, r, N))
          BY <1>5, <3>2, SignaturesCombine
    <3>4. SignFor(scheme, id, chunks, b) = Signature(id, w, b)
          BY <1>8, <1>9, <2>2, BfkwSigns
    <3> QED BY <2>2, <3>3, <3>4 DEF Combine, w, b, u, v
  <2> QED BY <2>1, <2>2
<1>13. ChunkOf(chunks, b) = [w |-> w, b |-> b]
       BY <1>8, <1>9, ChunkIs DEF ChunkOf
<1>14. CodedForward(scheme, d, sigs, alphas) = PacketFor(scheme, id, chunks, b)
       BY <1>4, <1>7, <1>12, <1>13 DEF PacketFor
<1> QED BY <1>8, <1>14

---------------------------------------------------------------------------
\* The wire form.

\* wire is w and b, of m and N scalars, and after them the items of the proof.
IsWire(wire, w, b, items, m, S) ==
    /\ wire \in Seq(S) /\ items \in Seq(S) /\ Len(wire) = m + N + Len(items)
    /\ \A i \in 1 .. m : wire[i] = w[i]
    /\ \A i \in 1 .. N : wire[m + i] = b[i]
    /\ \A i \in 1 .. Len(items) : wire[m + N + i] = items[i]

ProofItems(scheme, proof) ==
    IF scheme = "Pedersen" THEN SerializePedersen(proof) ELSE SerializeBfkw(proof)
ReadProof(scheme, items) ==
    IF scheme = "Pedersen" THEN DeserializePedersen(items) ELSE DeserializeBfkw(items)

\* The packet that is read, if its proof can be.
PacketRead(scheme, w, b, items) ==
    IF ReadProof(scheme, items) = Err THEN Err
    ELSE Ok([chunk |-> [w |-> w, b |-> b], proof |-> ReadProof(scheme, items)[1]])

\* z is a and after it c, of n and k values.
Follows(z, a, c, n, k, S) ==
    /\ z \in Seq(S) /\ Len(z) = n + k
    /\ \A i \in 1 .. n : z[i] = a[i]
    /\ \A i \in 1 .. k : z[n + i] = c[i]

LEMMA Concatenated ==
    ASSUME NEW S, NEW a \in Seq(S), NEW c \in Seq(S), NEW n \in Nat, NEW k \in Nat,
           Len(a) = n, Len(c) = k, NEW z, Joins(z, a, c)
    PROVE  Follows(z, a, c, n, k, S)
<1>1. /\ z \in Seq(S) /\ Len(z) = n + k
      /\ \A i \in 1 .. n + k : z[i] = IF i <= n THEN a[i] ELSE c[i - n]
  <2>1. /\ a \o c \in Seq(S) /\ Len(a \o c) = n + k
        /\ \A i \in 1 .. n + k : (a \o c)[i] = IF i <= n THEN a[i] ELSE c[i - n]
        BY ConcatProperties
  <2> QED BY <2>1 DEF Joins
<1>2. \A i \in 1 .. n : i \in 1 .. n + k /\ i <= n
      OBVIOUS
<1>3. \A i \in 1 .. k : n + i \in 1 .. n + k /\ ~(n + i <= n) /\ (n + i) - n = i
      OBVIOUS
<1> QED BY <1>1, <1>2, <1>3 DEF Follows

\* What a packet is serialised to.
LEMMA SerializedIs ==
    ASSUME NEW scheme, NEW m \in Nat, NEW packet, packet.chunk \in CodedChunk(m), NEW S,
           Field \subseteq S, ProofItems(scheme, packet.proof) \in Seq(S)
    PROVE  IsWire(Serialize(scheme, packet), packet.chunk.w, packet.chunk.b,
                  ProofItems(scheme, packet.proof), m, S)
<1> DEFINE w == packet.chunk.w
           b == packet.chunk.b
           items == ProofItems(scheme, packet.proof)
           front == w \o b
           wire == front \o items
<1>1. w \in Vec(m) /\ b \in Vec(N) /\ N \in Nat
      BY Vectors DEF CodedChunk
<1>2. w \in Seq(S) /\ Len(w) = m /\ b \in Seq(S) /\ Len(b) = N
  <2> HIDE DEF w, b
  <2>1. w \in [1 .. m -> S] /\ b \in [1 .. N -> S]
        BY <1>1 DEF Vec
  <2> QED BY <1>1, <2>1
<1>3. Serialize(scheme, packet) = wire
      BY DEF Serialize, ProofItems
<1> HIDE DEF w, b, items
<1>4. Follows(front, w, b, m, N, S)
  <2>1. Joins(front, w, b)
        BY DEF Joins
  <2> HIDE DEF front
  <2> QED BY <1>1, <1>2, <2>1, Concatenated
<1>5. items \in Seq(S) /\ Len(items) \in Nat
      BY DEF items
<1> HIDE DEF front
<1>6. Follows(wire, front, items, m + N, Len(items), S)
  <2>1. Joins(wire, front, items)
        BY DEF Joins
  <2>2. m + N \in Nat /\ front \in Seq(S) /\ Len(front) = m + N
        BY <1>1, <1>4 DEF Follows
  <2> HIDE DEF wire
  <2> DEFINE n == m + N   k == Len(items)
  <2> HIDE DEF n, k
  <2>3. Len(items) = k /\ k \in Nat /\ n \in Nat /\ Len(front) = n
        BY <1>5, <2>2 DEF n, k
  <2>4. Follows(wire, front, items, n, k, S)
        BY <1>5, <2>1, <2>2, <2>3, Concatenated
  <2> QED BY <2>4 DEF n, k
<1> HIDE DEF wire
<1>7. ASSUME NEW i \in 1 .. m PROVE wire[i] = w[i]
  <2>1. i \in 1 .. m + N
        BY <1>1
  <2> QED BY <1>4, <1>6, <2>1 DEF Follows
<1>8. ASSUME NEW i \in 1 .. N PROVE wire[m + i] = b[i]
  <2>1. m + i \in 1 .. m + N
        BY <1>1
  <2> QED BY <1>4, <1>6, <2>1 DEF Follows
<1>9. IsWire(wire, w, b, items, m, S)
      BY <1>5, <1>6, <1>7, <1>8 DEF IsWire, Follows
<1> QED BY <1>3, <1>9 DEF w, b, items

\* What a whole wire form is read as: the chunk on it, if the proof can be read.
LEMMA WireRead ==
    ASSUME NEW scheme, NEW m \in Nat, NEW w \in Vec(m), NEW b \in Vector, NEW items, NEW S,
           NEW wire, IsWire(wire, w, b, items, m, S)
    PROVE  Deserialize(scheme, wire, m) = PacketRead(scheme, w, b, items)
<1> DEFINE scalars == [i \in 1 .. m + N |-> ReadField(wire[i])]
           rest == SubSeq(wire, m + N + 1, Len(wire))
           n == Len(items)
           first == [i \in 1 .. m |-> scalars[i][1]]
           second == [i \in 1 .. N |-> scalars[m + i][1]]
<1>1. /\ N \in Nat /\ n \in Nat /\ Len(wire) = m + N + n /\ wire \in Seq(S) /\ items \in Seq(S)
      BY ChunksAssumption DEF IsWire
<1>2. rest = items
  <2>1. rest \in Seq(S) /\ Len(rest) = n
        BY <1>1
  <2>2. \A i \in 1 .. n : rest[i] = wire[m + N + i]
        BY <1>1
  <2>3. \A i \in 1 .. n : rest[i] = items[i]
        BY <2>2 DEF IsWire
  <2> HIDE DEF rest, n, scalars, first, second
  <2>4. rest \in [1 .. n -> S]
        BY <2>1
  <2>5. items \in [1 .. n -> S]
        BY <1>1 DEF n
  <2>6. rest = [i \in 1 .. n |-> rest[i]] /\ items = [i \in 1 .. n |-> items[i]]
        BY <2>4, <2>5
  <2>7. [i \in 1 .. n |-> rest[i]] = [i \in 1 .. n |-> items[i]]
        BY <2>3
  <2> QED BY <2>6, <2>7
<1>3. \A x : ReadField(x) = Ok(x)
      BY DEF ReadField, CodecReadScalar
<1>4. \A i \in 1 .. m + N : scalars[i] = Ok(wire[i]) /\ scalars[i] # Err /\ scalars[i][1] = wire[i]
      BY <1>3 DEF Ok, Err
<1> HIDE DEF scalars
<1>5. first = w
  <2>1. \A i \in 1 .. m : i \in 1 .. m + N
        BY <1>1
  <2>2. \A i \in 1 .. m : scalars[i][1] = w[i]
        BY <1>4, <2>1 DEF IsWire
  <2> QED BY <2>2 DEF Vec
<1>6. second = b
  <2>1. \A i \in 1 .. N : m + i \in 1 .. m + N
        BY <1>1
  <2>2. \A i \in 1 .. N : scalars[m + i][1] = b[i]
        BY <1>4, <2>1 DEF IsWire
  <2> QED BY <2>2 DEF Vector
<1>7. ~(Len(wire) < m + N)
      BY <1>1
<1>8. Deserialize(scheme, wire, m) =
          IF \/ Len(wire) < m + N
             \/ \E i \in 1 .. m + N : scalars[i] = Err
             \/ ReadProof(scheme, rest) = Err
          THEN Err
          ELSE Ok([chunk |-> [w |-> first, b |-> second], proof |-> ReadProof(scheme, rest)[1]])
      BY Zenon DEF Deserialize, ReadProof, scalars
<1> HIDE DEF rest, first, second
<1> QED BY <1>2, <1>4, <1>5, <1>6, <1>7, <1>8 DEF PacketRead

\* What was cut off is not read, if the proof is not once it was cut off.
LEMMA WireCut ==
    ASSUME NEW scheme, NEW m \in Nat, NEW w \in Vec(m), NEW b \in Vector, NEW items, NEW S,
           NEW wire, IsWire(wire, w, b, items, m, S),
           \A k \in 0 .. Len(items) - 1 : ReadProof(scheme, SubSeq(items, 1, k)) = Err,
           NEW k \in 0 .. Len(wire) - 1
    PROVE  Deserialize(scheme, SubSeq(wire, 1, k), m) = Err
<1> DEFINE cut == SubSeq(wire, 1, k)
           l == k - (m + N)
           short == SubSeq(items, 1, l)
<1>1. /\ N \in Nat /\ Len(items) \in Nat /\ Len(wire) = m + N + Len(items)
      /\ wire \in Seq(S) /\ items \in Seq(S) /\ k \in Nat
      BY ChunksAssumption DEF IsWire
<1>2. cut \in Seq(S) /\ Len(cut) = k /\ \A i \in 1 .. k : cut[i] = wire[i]
      BY <1>1
<1> HIDE DEF cut
<1>3. CASE k < m + N
      BY <1>2, <1>3 DEF Deserialize
<1>4. CASE ~(k < m + N)
  <2>1. l \in 0 .. Len(items) - 1 /\ l \in Nat /\ k = m + N + l
        BY <1>1, <1>4
  <2> HIDE DEF l
  <2>2. short \in Seq(S) /\ Len(short) = l /\ \A i \in 1 .. l : short[i] = items[i]
        BY <1>1, <2>1
  <2>3. ReadProof(scheme, short) = Err
        BY <2>1
  <2> HIDE DEF short
  <2>4. IsWire(cut, w, b, short, m, S)
    <3>1. ASSUME NEW i \in 1 .. m PROVE cut[i] = w[i]
      <4>1. i \in 1 .. k
            BY <1>1, <2>1
      <4> QED BY <1>2, <4>1 DEF IsWire
    <3>2. ASSUME NEW i \in 1 .. N PROVE cut[m + i] = b[i]
      <4>1. m + i \in 1 .. k
            BY <1>1, <2>1
      <4> QED BY <1>2, <4>1 DEF IsWire
    <3>3. ASSUME NEW i \in 1 .. l PROVE cut[m + N + i] = short[i]
      <4>1. m + N + i \in 1 .. k /\ i \in 1 .. Len(items)
            BY <1>1, <2>1
      <4> QED BY <1>2, <2>2, <4>1 DEF IsWire
    <3> QED BY <1>2, <2>1, <2>2, <3>1, <3>2, <3>3 DEF IsWire
  <2>5. Deserialize(scheme, cut, m) = PacketRead(scheme, w, b, short)
        BY <2>4, WireRead
  <2> QED BY <2>3, <2>5 DEF PacketRead, cut
<1> QED BY <1>3, <1>4

\* items are the first k of the count, the commitments and the signature of a block.
BeginsProof(items, chunks, k, S) ==
    /\ items \in Seq(S) /\ Len(items) = k
    /\ 1 <= k => items[1] = N
    /\ \A i \in 1 .. N : i + 1 <= k => items[i + 1] = chunks[i]
    /\ N + 2 <= k => items[N + 2] = chunks

\* A Pedersen proof is read if all of it is there: commitments to empty chunks too.
LEMMA PedersenRead ==
    ASSUME NEW m \in Nat, NEW chunks \in [1 .. N -> Vec(m)], NEW k \in 0 .. N + 2, NEW S, NEW items,
           BeginsProof(items, chunks, k, S)
    PROVE  DeserializePedersen(items) =
               IF k < N + 2 THEN Err ELSE Ok([commitments |-> chunks, signature |-> chunks])
<1>1. N \in Nat /\ N <= MaxCommitments /\ Len(items) = k /\ items \in Seq(S) /\ k \in Nat
      BY ChunksAssumption, CommitmentsAssumption DEF BeginsProof
<1>2. CASE k = 0
  <2>1. items = <<>>
        BY <1>1, <1>2
  <2> QED BY <1>1, <1>2, <2>1 DEF DeserializePedersen
<1>3. CASE k # 0 /\ k < N + 2
  <2>1. items[1] = N
        BY <1>1, <1>3 DEF BeginsProof
  <2>2. Len(items) < items[1] + 2
        BY <1>1, <1>3, <2>1
  <2> QED BY <1>3, <2>2 DEF DeserializePedersen
<1>4. CASE k = N + 2
  <2>1. items # <<>> /\ items[1] = N /\ items[N + 2] = chunks
        /\ \A i \in 1 .. N : items[i + 1] = chunks[i]
        BY <1>1, <1>4 DEF BeginsProof
  <2> DEFINE groups == [i \in 1 .. N |-> ReadGroup(items[i + 1])]
  <2>2. \A v : ReadGroup(v) = Ok(v)
        BY DEF ReadGroup, CodecReadGroup
  <2>3. \A i \in 1 .. N : groups[i] = Ok(chunks[i]) /\ groups[i] # Err /\ groups[i][1] = chunks[i]
        BY <2>1, <2>2 DEF Ok, Err
  <2>4. DeserializePedersen(items) =
            IF \/ items = <<>> \/ N > MaxCommitments \/ Len(items) < N + 2
               \/ \E i \in 1 .. N : groups[i] = Err
            THEN Err
            ELSE Ok([commitments |-> [i \in 1 .. N |-> groups[i][1]], signature |-> items[N + 2]])
        BY <2>1 DEF DeserializePedersen
  <2> HIDE DEF groups
  <2>5. [i \in 1 .. N |-> groups[i][1]] = chunks
        BY <2>3
  <2>6. ~(N > MaxCommitments) /\ ~(Len(items) < N + 2) /\ ~(k < N + 2)
        BY <1>1, <1>4 DEF MaxCommitments
  <2> QED BY <2>1, <2>3, <2>4, <2>5, <2>6
<1> QED BY <1>1, <1>2, <1>3, <1>4

\* The values on a wire.
WireValues(m, chunks, proof) == Nat \cup Vec(m) \cup {chunks, proof}

\* The items are those of a proof that is read whole, and not at all with fewer of them.
ReadsBack(items, scheme, proof, S) ==
    /\ items \in Seq(S) /\ ReadProof(scheme, items) = Ok(proof)
    /\ \A k \in 0 .. Len(items) - 1 : ReadProof(scheme, SubSeq(items, 1, k)) = Err

\* The proof of a packet that is not useless is read, and only whole.  Of a BFKW signature
\* this is so because its message ends with the coefficients, which are not all zero.
LEMMA ProofRead ==
    ASSUME NEW scheme, NEW id, NEW m \in Nat, NEW chunks \in [1 .. N -> Vec(m)],
           NEW b \in Vector \ {Zero}, NEW proof, proof = SignFor(scheme, id, chunks, b)
    PROVE  ReadsBack(ProofItems(scheme, proof), scheme, proof, WireValues(m, chunks, proof))
<1> DEFINE S == WireValues(m, chunks, proof)
           items == ProofItems(scheme, proof)
<1>1. N \in Nat /\ b \in Vector
      BY ChunksAssumption
<1>2. CASE scheme = "Pedersen"
  <2> DEFINE front == <<N>> \o chunks
             all == front \o <<chunks>>
  <2>1. proof = [commitments |-> chunks, signature |-> chunks]
    <3> HIDE DEF S, items, front, all
    <3>1. ASSUME NEW v \in Vector
          PROVE  SignFor(scheme, id, chunks, v) = [commitments |-> chunks, signature |-> chunks]
          BY <1>2, PedersenSigns
    <3> QED BY <1>1, <3>1
  <2>2. chunks \in Seq(S) /\ Len(chunks) = N /\ N \in S /\ chunks \in S
        BY <1>1 DEF WireValues
  <2>3. items = all
    <3>1. proof.commitments = chunks /\ proof.signature = chunks
          BY <2>1
    <3> QED BY <1>2, <2>2, <3>1 DEF ProofItems, SerializePedersen
  <2> HIDE DEF S, items
  <2>4. /\ front \in Seq(S) /\ Len(front) = N + 1 /\ front[1] = N
        /\ \A i \in 1 .. N : front[i + 1] = chunks[i]
    <3> DEFINE one == <<N>>
    <3>1. one \in Seq(S) /\ Len(one) = 1 /\ one[1] = N /\ Joins(front, one, chunks)
          BY <2>2 DEF Joins
    <3> HIDE DEF one, front
    <3>2. Follows(front, one, chunks, 1, N, S)
          BY <1>1, <2>2, <3>1, Concatenated
    <3>3. front \in Seq(S) /\ Len(front) = 1 + N /\ front[1] = one[1]
          /\ \A i \in 1 .. N : front[1 + i] = chunks[i]
          BY <3>2 DEF Follows
    <3>4. 1 + N = N + 1 /\ \A i \in 1 .. N : 1 + i = i + 1
          BY <1>1
    <3> QED BY <3>1, <3>3, <3>4
  <2> HIDE DEF front
  <2>5. /\ all \in Seq(S) /\ Len(all) = N + 2 /\ all[1] = N /\ all[N + 2] = chunks
        /\ \A i \in 1 .. N : all[i + 1] = chunks[i]
    <3> DEFINE n == N + 1   last == <<chunks>>
    <3>1. last \in Seq(S) /\ Len(last) = 1 /\ last[1] = chunks /\ Joins(all, front, last)
          BY <2>2 DEF Joins
    <3>2. n \in Nat /\ Len(front) = n
          BY <1>1, <2>4
    <3> HIDE DEF last, n, all
    <3>3. Follows(all, front, last, n, 1, S)
          BY <2>4, <3>1, <3>2, Concatenated
    <3>4. all \in Seq(S) /\ Len(all) = n + 1 /\ all[n + 1] = chunks
          /\ \A i \in 1 .. n : all[i] = front[i]
          BY <3>1, <3>3 DEF Follows
    <3>5. 1 \in 1 .. n /\ n + 1 = N + 2 /\ \A i \in 1 .. N : i + 1 \in 1 .. n
          BY <1>1 DEF n
    <3> QED BY <2>4, <3>4, <3>5
  <2> HIDE DEF all
  <2>6. ReadProof(scheme, items) = Ok(proof)
    <3>1. BeginsProof(all, chunks, N + 2, S) /\ N + 2 \in 0 .. N + 2 /\ ~(N + 2 < N + 2)
          BY <1>1, <2>5 DEF BeginsProof
    <3> QED BY <1>2, <2>1, <2>3, <3>1, PedersenRead DEF ReadProof
  <2>7. ASSUME NEW k \in 0 .. Len(items) - 1
        PROVE  ReadProof(scheme, SubSeq(items, 1, k)) = Err
    <3> DEFINE short == SubSeq(all, 1, k)
    <3>1. k \in 0 .. N + 2 /\ k < N + 2 /\ k \in Nat
          BY <1>1, <2>3, <2>5
    <3>2. short \in Seq(S) /\ Len(short) = k /\ \A i \in 1 .. k : short[i] = all[i]
          BY <2>5, <3>1
    <3> HIDE DEF short
    <3>3. BeginsProof(short, chunks, k, S)
      <4>1. ASSUME NEW i \in 1 .. N, i + 1 <= k PROVE short[i + 1] = chunks[i]
        <5>1. i + 1 \in 1 .. k
              BY <3>1, <4>1
        <5> QED BY <2>5, <3>2, <5>1
      <4>2. ASSUME 1 <= k PROVE short[1] = N
        <5>1. 1 \in 1 .. k
              BY <3>1, <4>2
        <5> QED BY <2>5, <3>2, <5>1
      <4>3. ~(N + 2 <= k)
            BY <1>1, <3>1
      <4> QED BY <3>2, <4>1, <4>2, <4>3 DEF BeginsProof
    <3> QED BY <1>2, <2>3, <3>1, <3>3, PedersenRead DEF ReadProof, short
  <2>8. items \in Seq(S)
        BY <2>3, <2>5
  <2> QED BY <2>6, <2>7, <2>8 DEF ReadsBack, items, S
<1>3. CASE scheme # "Pedersen"
  <2> DEFINE data == Comb(chunks, b, N, m)
  <2>1. proof = Signature(id, data, b) /\ data \in Vec(m) /\ b \in Vec(N)
        BY <1>1, <1>3, BfkwSigns, ChunkIs, Vectors
  <2> HIDE DEF data
  <2>2. proof.message = data \o b
        BY <2>1 DEF Signature
  <2>3. PICK j \in 1 .. N : b[j] # 0
        BY <1>1 DEF Zero, Vector
  <2>4. m + j \in 1 .. m + N /\ ~(m + j <= m) /\ (m + j) - m = j
        BY <1>1
  <2>5. (data \o b)[m + j] = b[j] /\ data \o b \in Vec(m + N)
    <3>1. /\ data \o b \in Vec(m + N)
          /\ \A i \in 1 .. m + N : (data \o b)[i] = IF i <= m THEN data[i] ELSE b[i - m]
          BY <1>1, <2>1, Joined
    <3> QED BY <2>4, <3>1
  <2>6. ~IsIdentity(proof.message)
    <3>1. DOMAIN (data \o b) = 1 .. m + N
          BY <2>5 DEF Vec
    <3> QED BY <2>2, <2>3, <2>4, <2>5, <3>1 DEF IsIdentity
  <2>7. items = <<proof>> /\ items \in Seq(S) /\ Len(items) = 1
        BY <1>3 DEF ProofItems, SerializeBfkw, WireValues
  <2>8. ReadProof(scheme, items) = Ok(proof)
    <3>1. items # <<>> /\ items[1] = proof
          BY <2>7
    <3> HIDE DEF items
    <3> QED BY <1>3, <2>6, <3>1 DEF ReadProof, DeserializeBfkw, CodecReadGroup
  <2>9. ASSUME NEW k \in 0 .. Len(items) - 1
        PROVE  ReadProof(scheme, SubSeq(items, 1, k)) = Err
    <3>1. k = 0
          BY <2>7
    <3>2. SubSeq(items, 1, k) = <<>>
          BY <2>7, <3>1
    <3> HIDE DEF items
    <3> QED BY <1>3, <3>2 DEF ReadProof, DeserializeBfkw
  <2> QED BY <2>7, <2>8, <2>9 DEF ReadsBack
<1> QED BY <1>2, <1>3

\* The wire form of the packet of block id with coefficients b.
PacketWire(wire, scheme, id, chunks, b, m, items, S) ==
    /\ Field \subseteq S
    /\ IsWire(wire, Comb(chunks, b, N, m), b, items, m, S)
    /\ ReadsBack(items, scheme, SignFor(scheme, id, chunks, b), S)

LEMMA HonestWire ==
    ASSUME NEW scheme, NEW id, NEW m \in Nat, NEW chunks \in [1 .. N -> Vec(m)],
           NEW b \in Vector \ {Zero}
    PROVE  \E items, S : PacketWire(Serialize(scheme, PacketFor(scheme, id, chunks, b)),
                                    scheme, id, chunks, b, m, items, S)
<1> DEFINE packet == PacketFor(scheme, id, chunks, b)
           proof == SignFor(scheme, id, chunks, b)
           S == WireValues(m, chunks, proof)
           items == ProofItems(scheme, proof)
<1>1. b \in Vector
      OBVIOUS
<1>2. /\ packet.chunk = ChunkOf(chunks, b) /\ packet.proof = proof
      /\ packet.chunk \in CodedChunk(m) /\ packet.chunk.w = Comb(chunks, b, N, m)
      /\ packet.chunk.b = b
  <2>1. packet.chunk = ChunkOf(chunks, b) /\ packet.proof = proof
        BY DEF PacketFor
  <2> HIDE DEF packet, proof
  <2> QED BY <1>1, <2>1, ChunkIs
<1>3. Field \subseteq S
      BY DEF WireValues, Field
<1> HIDE DEF packet, proof, S, items
<1>4. ReadsBack(items, scheme, proof, S)
      BY ProofRead DEF items, proof, S
<1>5. IsWire(Serialize(scheme, packet), Comb(chunks, b, N, m), b, items, m, S)
  <2>1. ProofItems(scheme, packet.proof) \in Seq(S)
        BY <1>2, <1>4 DEF ReadsBack, items
  <2>2. IsWire(Serialize(scheme, packet), packet.chunk.w, packet.chunk.b,
               ProofItems(scheme, packet.proof), m, S)
        BY <1>2, <1>3, <2>1, SerializedIs
  <2> QED BY <1>2, <2>2 DEF items
<1>6. PacketWire(Serialize(scheme, packet), scheme, id, chunks, b, m, items, S)
      BY <1>3, <1>4, <1>5 DEF PacketWire, proof
<1> QED BY <1>6 DEF packet

\* A packet comes back from its wire form.
LEMMA HonestRead ==
    ASSUME NEW scheme, NEW id, NEW m \in Nat, NEW chunks \in [1 .. N -> Vec(m)],
           NEW b \in Vector \ {Zero}
    PROVE  Deserialize(scheme, Serialize(scheme, PacketFor(scheme, id, chunks, b)), m) =
               Ok(PacketFor(scheme, id, chunks, b))
<1> DEFINE wire == Serialize(scheme, PacketFor(scheme, id, chunks, b))
           w == Comb(chunks, b, N, m)
           proof == SignFor(scheme, id, chunks, b)
<1> HIDE DEF wire
<1>1. PICK items, S : PacketWire(wire, scheme, id, chunks, b, m, items, S)
      BY HonestWire DEF wire
<1>2. b \in Vector /\ w \in Vec(m) /\ ChunkOf(chunks, b) = [w |-> w, b |-> b]
      BY ChunkIs DEF ChunkOf
<1>3. PacketFor(scheme, id, chunks, b) = [chunk |-> [w |-> w, b |-> b], proof |-> proof]
      BY <1>2 DEF PacketFor
<1> HIDE DEF w, proof
<1>4. IsWire(wire, w, b, items, m, S)
      BY <1>1 DEF PacketWire, w
<1>5. Deserialize(scheme, wire, m) = PacketRead(scheme, w, b, items)
      BY <1>2, <1>4, WireRead
<1>6. ReadProof(scheme, items) = Ok(proof) /\ Ok(proof) # Err /\ Ok(proof)[1] = proof
      BY <1>1 DEF PacketWire, ReadsBack, proof, Ok, Err
<1> QED BY <1>3, <1>5, <1>6 DEF PacketRead, wire

\* Cut off, it is not read;
LEMMA CutRead ==
    ASSUME NEW scheme, NEW id, NEW m \in Nat, NEW chunks \in [1 .. N -> Vec(m)],
           NEW b \in Vector \ {Zero}, NEW wire,
           wire = Serialize(scheme, PacketFor(scheme, id, chunks, b)), NEW k \in 0 .. Len(wire) - 1
    PROVE  Deserialize(scheme, SubSeq(wire, 1, k), m) = Err
<1> DEFINE w == Comb(chunks, b, N, m)
<1>1. PICK items, S : PacketWire(wire, scheme, id, chunks, b, m, items, S)
      BY HonestWire
<1>2. b \in Vector /\ w \in Vec(m)
      BY ChunkIs
<1> HIDE DEF w
<1>3. /\ IsWire(wire, w, b, items, m, S)
      /\ \A l \in 0 .. Len(items) - 1 : ReadProof(scheme, SubSeq(items, 1, l)) = Err
      BY <1>1 DEF PacketWire, ReadsBack, w
<1> QED BY <1>2, <1>3, WireCut

\* with one element altered, it is read and does not verify.
Altered(wire, i) == [wire EXCEPT ![i] = (@ + 1) % P]

LEMMA AlteredRead ==
    ASSUME NEW scheme, NEW id, NEW m \in Nat, NEW chunks \in [1 .. N -> Vec(m)],
           NEW b \in Vector \ {Zero}, NEW wire,
           wire = Serialize(scheme, PacketFor(scheme, id, chunks, b)), NEW i \in 1 .. m
    PROVE  \E packet :
               /\ Deserialize(scheme, Altered(wire, i), m) = Ok(packet)
               /\ ~Verify(scheme, HashPoints(id), packet.chunk, packet.proof)
<1> DEFINE w == Comb(chunks, b, N, m)
           u == Altered(w, i)
           bad == Altered(wire, i)
           proof == SignFor(scheme, id, chunks, b)
<1>1. PICK items, S : PacketWire(wire, scheme, id, chunks, b, m, items, S)
      BY HonestWire
<1>2. b \in Vector /\ w \in Vec(m)
      BY ChunkIs
<1> HIDE DEF w
<1>3. IsWire(wire, w, b, items, m, S) /\ Field \subseteq S
      BY <1>1 DEF PacketWire, w
<1>4. w[i] \in Field /\ w[i] \in Int /\ (w[i] + 1) % P \in Field /\ (w[i] + 1) % P # w[i]
  <2>1. w[i] \in Field /\ P \in Nat \ {0, 1} /\ w[i] \in 0 .. P - 1
        BY <1>2, PrimeAssumption DEF Vec, Field
  <2>2. w[i] \in Int /\ (w[i] + 1) % P \in Field
    <3>1. w[i] \in Int /\ w[i] + 1 \in Int
          BY <2>1
    <3> HIDE DEF u, bad, proof
    <3> QED BY <3>1, Remainder
  <2>3. (w[i] + 1) % P # w[i]
        BY <2>1
  <2> QED BY <2>1, <2>2, <2>3
<1>5. u \in Vec(m) /\ u # w
      BY <1>2, <1>4 DEF Altered, Vec
<1>6. IsWire(bad, u, b, items, m, S)
  <2>1. /\ N \in Nat /\ Len(items) \in Nat /\ Len(wire) = m + N + Len(items)
        /\ wire \in Seq(S) /\ items \in Seq(S) /\ wire[i] = w[i]
        BY <1>3, ChunksAssumption DEF IsWire
  <2>2. (wire[i] + 1) % P \in S /\ i \in 1 .. Len(wire)
        BY <1>3, <1>4, <2>1
  <2>3. bad \in Seq(S) /\ Len(bad) = Len(wire)
        /\ \A j \in 1 .. Len(wire) : bad[j] = IF j = i THEN (w[i] + 1) % P ELSE wire[j]
        BY <2>1, <2>2 DEF Altered
  <2> HIDE DEF bad
  <2>4. ASSUME NEW j \in 1 .. m PROVE bad[j] = u[j]
    <3>1. j \in 1 .. Len(wire) /\ wire[j] = w[j]
          BY <1>3, <2>1 DEF IsWire
    <3>2. u[j] = IF j = i THEN (w[i] + 1) % P ELSE w[j]
          BY <1>2 DEF Altered, Vec
    <3> QED BY <2>3, <3>1, <3>2
  <2>5. ASSUME NEW j \in 1 .. N PROVE bad[m + j] = b[j]
    <3>1. m + j \in 1 .. Len(wire) /\ m + j # i
          BY <2>1
    <3> QED BY <1>3, <2>3, <3>1 DEF IsWire
  <2>6. ASSUME NEW j \in 1 .. Len(items) PROVE bad[m + N + j] = items[j]
    <3>1. m + N + j \in 1 .. Len(wire) /\ m + N + j # i
          BY <2>1
    <3> QED BY <1>3, <2>3, <3>1 DEF IsWire
  <2> QED BY <2>1, <2>3, <2>4, <2>5, <2>6 DEF IsWire
<1> HIDE DEF u, bad, proof
<1>7. ReadProof(scheme, items) = Ok(proof) /\ Ok(proof) # Err /\ Ok(proof)[1] = proof
      BY <1>1 DEF PacketWire, ReadsBack, proof, Ok, Err
<1> DEFINE x == [w |-> u, b |-> b]
           packet == [chunk |-> x, proof |-> proof]
<1>8. Deserialize(scheme, bad, m) = Ok(packet)
  <2>1. Deserialize(scheme, bad, m) = PacketRead(scheme, u, b, items)
        BY <1>2, <1>5, <1>6, WireRead
  <2> QED BY <1>7, <2>1 DEF PacketRead
<1>9. ~Verify(scheme, HashPoints(id), x, proof)
  <2>1. x \in CodedChunk(m) /\ x.b = b /\ x.w = u
        BY <1>2, <1>5 DEF CodedChunk
  <2>2. ChunkOf(chunks, b).w = w
        BY <1>2, ChunkIs DEF w
  <2> HIDE DEF x
  <2>3. x # ChunkOf(chunks, x.b)
        BY <1>5, <2>1, <2>2
  <2> QED BY <1>2, <2>1, <2>3, VerifiedIs DEF proof
<1>10. packet.chunk = x /\ packet.proof = proof
       OBVIOUS
<1> HIDE DEF packet, x
<1> QED BY <1>8, <1>9, <1>10 DEF bad
=============================================================================
