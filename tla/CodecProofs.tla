----------------------------- MODULE CodecProofs ----------------------------
(***************************************************************************)
(* Blocks as bytes and as chunks, for every field, chunk count, window     *)
(* size and base: digits and numbers, windows, the length prefix, what a   *)
(* serialised block is read as, and what chunks are put together to.       *)
(***************************************************************************)
EXTENDS BlockCodec, IntegrityProofs

---------------------------------------------------------------------------
\* Quotients and powers.

\* A quotient and a remainder are the only ones.
LEMMA DivUnique ==
    ASSUME NEW x \in Nat, NEW b \in Nat \ {0}, NEW q \in Nat, NEW r \in 0 .. b - 1,
           x = b * q + r
    PROVE  x \div b = q /\ x % b = r
<1> DEFINE p == x \div b   s == x % b
<1>1. p \in Int /\ s \in 0 .. b - 1 /\ x = b * p + s
      BY Z3
<1> HIDE DEF p, s
<1>2. b * p \in Int /\ b * q \in Int
      BY <1>1, Z3
<1>3. ~(p >= q + 1)
  <2> SUFFICES ASSUME p >= q + 1 PROVE FALSE
      OBVIOUS
  <2>1. b * p >= b * (q + 1) /\ b * (q + 1) = b * q + b
        BY <1>1, Z3
  <2> QED BY <1>1, <1>2, <2>1
<1>4. ~(q >= p + 1)
  <2> SUFFICES ASSUME q >= p + 1 PROVE FALSE
      OBVIOUS
  <2>1. b * q >= b * (p + 1) /\ b * (p + 1) = b * p + b
        BY <1>1, Z3
  <2> QED BY <1>1, <1>2, <2>1
<1>5. p = q
      BY <1>1, <1>3, <1>4
<1>6. s = r
      BY <1>1, <1>2, <1>5
<1> QED BY <1>5, <1>6 DEF p, s

\* Dividing by a, then by b, is dividing by their product.
LEMMA DivDiv ==
    ASSUME NEW x \in Nat, NEW a \in Nat \ {0}, NEW b \in Nat \ {0}
    PROVE  x \div (b * a) = (x \div a) \div b
<1> DEFINE p == x \div a   r == x % a
           q == p \div b   s == p % b
<1>1. p \in Nat /\ r \in 0 .. a - 1 /\ x = a * p + r
      BY Z3
<1>2. q \in Nat /\ s \in 0 .. b - 1 /\ p = b * q + s
      BY <1>1, Z3
<1> HIDE DEF p, r, q, s
<1> DEFINE t == a * s + r   c == b * a
<1>3. c \in Nat \ {0}
      BY Z3
<1>4. t \in 0 .. c - 1
  <2>1. s <= b - 1 /\ s >= 0 /\ r >= 0 /\ r <= a - 1
        BY <1>1, <1>2
  <2>2. a * s <= a * (b - 1) /\ a * (b - 1) = b * a - a /\ a * s \in Nat
        BY <1>2, <2>1, Z3
  <2>3. b * a \in Nat
        BY Z3
  <2> QED BY <1>1, <2>1, <2>2, <2>3
<1>5. x = c * q + t
  <2>1. a * p = a * (b * q + s) /\ a * (b * q + s) = (b * a) * q + a * s
        BY <1>2, Z3
  <2>2. (b * a) * q \in Int /\ a * s \in Int
        BY <1>2, Z3
  <2> QED BY <1>1, <2>1, <2>2
<1> HIDE DEF t, c
<1>6. x \div c = q
      BY <1>2, <1>3, <1>4, <1>5, DivUnique
<1> QED BY <1>6 DEF c, q, p

\* p counts the powers of b up to the k-th.
IsPowers(p, b, k) ==
    /\ p \in [0 .. k -> Nat \ {0}] /\ p[0] = 1
    /\ \A i \in 1 .. k : p[i] = b * p[i - 1]

LEMMA PowersExist ==
    ASSUME NEW b \in Nat \ {0}, NEW k \in Nat
    PROVE  \E p : IsPowers(p, b, k)
<1> DEFINE S == {i \in 0 .. k : \E p : IsPowers(p, b, i)}
<1>1. 0 \in S
  <2>1. IsPowers([i \in 0 .. 0 |-> 1], b, 0)
        BY DEF IsPowers
  <2> QED BY <2>1
<1>2. ASSUME NEW i \in 0 .. k - 1, i \in S PROVE i + 1 \in S
  <2>1. PICK p : IsPowers(p, b, i)
        BY <1>2
  <2>2. p \in [0 .. i -> Nat \ {0}] /\ p[0] = 1 /\ \A j \in 1 .. i : p[j] = b * p[j - 1]
        BY <2>1 DEF IsPowers
  <2> DEFINE x == b * p[i]
             q == [j \in 0 .. i + 1 |-> IF j = i + 1 THEN x ELSE p[j]]
  <2>3. x \in Nat \ {0}
    <3>1. p[i] \in Nat \ {0}
          BY <2>2
    <3> QED BY <3>1, Z3
  <2>4. q \in [0 .. i + 1 -> Nat \ {0}]
    <3> HIDE DEF x
    <3> QED BY <2>2, <2>3
  <2>5. q[0] = 1
        BY <2>2
  <2>6. ASSUME NEW j \in 1 .. i + 1 PROVE q[j] = b * q[j - 1]
        BY <2>2
  <2>7. IsPowers(q, b, i + 1)
    <3> HIDE DEF q
    <3> QED BY <2>4, <2>5, <2>6 DEF IsPowers
  <2> QED BY <2>7
<1>3. 0 .. k \subseteq S
  <2> HIDE DEF S
  <2> QED BY <1>1, <1>2, BoundedInduction
<1> QED BY <1>3

\* Two counts of powers agree as far as they go.
LEMMA PowersAgree ==
    ASSUME NEW b \in Nat, NEW k \in Nat, NEW n \in Nat, k <= n, NEW p, NEW q,
           IsPowers(p, b, k), IsPowers(q, b, n)
    PROVE  p[k] = q[k]
<1> DEFINE S == {i \in 0 .. k : p[i] = q[i]}
<1>1. 0 \in S
      BY DEF IsPowers
<1>2. ASSUME NEW i \in 0 .. k - 1, i \in S PROVE i + 1 \in S
  <2>1. i + 1 \in 1 .. k /\ i + 1 \in 1 .. n /\ (i + 1) - 1 = i
        OBVIOUS
  <2>2. p[i + 1] = b * p[i] /\ q[i + 1] = b * q[i]
        BY <2>1 DEF IsPowers
  <2> QED BY <1>2, <2>2
<1>3. 0 .. k \subseteq S
  <2> HIDE DEF S
  <2> QED BY <1>1, <1>2, BoundedInduction
<1> QED BY <1>3

LEMMA PowerIs ==
    ASSUME NEW b \in Nat \ {0}, NEW k \in Nat
    PROVE  \E p : IsPowers(p, b, k) /\ Power(b, k) = p[k]
<1> DEFINE Computes(p) == p = [i \in 0 .. k |-> IF i = 0 THEN 1 ELSE b * p[i - 1]]
           p == CHOOSE p : Computes(p)
<1>1. Power(b, k) = p[k]
      BY Zenon DEF Power
<1>2. PICK q : IsPowers(q, b, k)
      BY PowersExist
<1>3. Computes(q)
      BY <1>2 DEF IsPowers
<1>4. Computes(p)
  <2> HIDE DEF Computes
  <2> QED BY <1>3, Zenon
<1>5. \A i \in 0 .. k : p[i] = IF i = 0 THEN 1 ELSE b * p[i - 1]
  <2> HIDE DEF p
  <2> QED BY <1>4
<1> HIDE DEF Computes, p
<1> DEFINE S == {i \in 0 .. k : p[i] = q[i]}
<1>6. 0 \in S
      BY <1>2, <1>5 DEF IsPowers
<1>7. ASSUME NEW i \in 0 .. k - 1, i \in S PROVE i + 1 \in S
  <2>1. i + 1 \in 1 .. k /\ i + 1 \in 0 .. k /\ (i + 1) - 1 = i /\ i + 1 # 0
        OBVIOUS
  <2>2. p[i + 1] = b * p[i] /\ q[i + 1] = b * q[i]
        BY <1>2, <1>5, <2>1 DEF IsPowers
  <2> QED BY <1>7, <2>2
<1>8. 0 .. k \subseteq S
  <2> HIDE DEF S
  <2> QED BY <1>6, <1>7, BoundedInduction
<1>9. p[k] = q[k]
      BY <1>8
<1> QED BY <1>1, <1>2, <1>9

\* A power is its base times the one before.
LEMMA Powers ==
    ASSUME NEW b \in Nat \ {0}, NEW k \in Nat
    PROVE  /\ Power(b, 0) = 1 /\ Power(b, k) \in Nat \ {0}
           /\ Power(b, k + 1) = b * Power(b, k)
<1>1. PICK p : IsPowers(p, b, k) /\ Power(b, k) = p[k]
      BY PowerIs
<1>2. PICK q : IsPowers(q, b, k + 1) /\ Power(b, k + 1) = q[k + 1]
      BY PowerIs
<1>3. PICK z : IsPowers(z, b, 0) /\ Power(b, 0) = z[0]
      BY PowerIs
<1>4. p[k] = q[k]
      BY <1>1, <1>2, PowersAgree
<1>5. q[k + 1] = b * q[k]
  <2>1. k + 1 \in 1 .. k + 1 /\ (k + 1) - 1 = k
        OBVIOUS
  <2> QED BY <1>2, <2>1 DEF IsPowers
<1> QED BY <1>1, <1>2, <1>3, <1>4, <1>5 DEF IsPowers

---------------------------------------------------------------------------
\* Numbers and their digits.

\* c holds the numbers of the first digits of w, to the base b.
IsPrefixes(c, b, w, n) ==
    /\ c \in [0 .. n -> Nat] /\ c[0] = 0
    /\ \A k \in 1 .. n : c[k] = c[k - 1] * b + w[k]

LEMMA NumberChain ==
    ASSUME NEW b \in Nat, NEW n \in Nat, NEW w \in [1 .. n -> Nat]
    PROVE  \E c : IsPrefixes(c, b, w, n) /\ c[n] = Number(b, w)
<1> DEFINE Computes(iter) ==
               iter = [s \in SUBSET DOMAIN w |->
                           IF s = {} THEN 0 ELSE iter[s \ {Max(s)}] * b + w[Max(s)]]
           fold == CHOOSE iter : Computes(iter)
           g == [x \in Nat \X (1 .. n) |-> x[1] * b + w[x[2]]]
<1>1. Number(b, w) = fold[DOMAIN w]
      BY Zenon DEF Number, FoldLeft, MapThenFoldSet
<1>2. g \in [Nat \X (1 .. n) -> Nat]
  <2> SUFFICES ASSUME NEW x \in Nat \X (1 .. n) PROVE x[1] * b + w[x[2]] \in Nat
      OBVIOUS
  <2>1. x[1] \in Nat /\ x[2] \in 1 .. n
        OBVIOUS
  <2>2. x[1] * b \in Nat /\ w[x[2]] \in Nat
        BY <2>1
  <2> QED BY <2>2
<1>3. PICK it : IsFold(it, Nat, 0, g, n)
  <2>1. 0 \in Nat
        OBVIOUS
  <2> HIDE DEF g
  <2> QED BY <1>2, <2>1, FoldExists
<1>4. \A s \in SUBSET (1 .. n) : s # {} => Max(s) \in 1 .. n /\ s \ {Max(s)} \in SUBSET (1 .. n)
  <2> SUFFICES ASSUME NEW s \in SUBSET (1 .. n), s # {} PROVE Max(s) \in 1 .. n
      OBVIOUS
  <2>1. Max(s) \in s
        BY MaxMember
  <2> QED BY <2>1
<1>5. Computes(it)
  <2>1. it \in [SUBSET (1 .. n) -> Nat]
        BY <1>3 DEF IsFold
  <2>2. ASSUME NEW s \in SUBSET (1 .. n)
        PROVE  it[s] = IF s = {} THEN 0 ELSE it[s \ {Max(s)}] * b + w[Max(s)]
    <3>1. it[s] = IF s = {} THEN 0 ELSE g[<<it[s \ {Max(s)}], Max(s)>>]
          BY <1>3 DEF IsFold
    <3> QED BY <1>4, <2>1, <3>1
  <2> QED BY <2>1, <2>2
<1>6. Computes(fold)
  <2> HIDE DEF Computes
  <2> QED BY <1>5, Zenon
<1>7. \A s \in SUBSET (1 .. n) :
          fold[s] = IF s = {} THEN 0 ELSE fold[s \ {Max(s)}] * b + w[Max(s)]
  <2> HIDE DEF fold
  <2> QED BY <1>6
<1> HIDE DEF Computes, fold
<1>8. TakesSteps(fold, Nat, 0, g, n)
  <2>1. fold[{}] = 0
        BY <1>7
  <2>2. ASSUME NEW k \in 1 .. n, fold[1 .. k - 1] \in Nat
        PROVE  fold[1 .. k] = g[<<fold[1 .. k - 1], k>>]
    <3>1. Max(1 .. k) = k /\ (1 .. k) \ {k} = 1 .. k - 1 /\ 1 .. k # {}
      <4>1. k \in Nat \ {0}
            OBVIOUS
      <4> QED BY <4>1, FoldSteps, Zenon
    <3>2. 1 .. k \in SUBSET (1 .. n)
          OBVIOUS
    <3>3. fold[1 .. k] = fold[1 .. k - 1] * b + w[k]
          BY <1>7, <3>1, <3>2
    <3> QED BY <2>2, <3>3
  <2> HIDE DEF g
  <2> QED BY <2>1, <2>2 DEF TakesSteps
<1>9. PICK c : IsChain(c, fold, Nat, 0, g, n)
  <2> HIDE DEF g
  <2> QED BY <1>2, <1>8, FoldChain
<1>10. c \in [0 .. n -> Nat] /\ c[0] = 0 /\ c[n] = fold[1 .. n]
      BY <1>9 DEF IsChain
<1>11. ASSUME NEW k \in 1 .. n PROVE c[k] = c[k - 1] * b + w[k]
  <2>1. c[k] = g[<<c[k - 1], k>>]
    <3> HIDE DEF g
    <3> QED BY <1>9 DEF IsChain
  <2>2. c[k - 1] \in Nat
    <3>1. k - 1 \in 0 .. n
          OBVIOUS
    <3> QED BY <1>10, <3>1
  <2> QED BY <2>1, <2>2
<1>12. fold[1 .. n] = Number(b, w)
      BY <1>1
<1> QED BY <1>10, <1>11, <1>12 DEF IsPrefixes

\* Dividing by the powers of the base takes the digits off, from the lowest.
LEMMA DigitsOff ==
    ASSUME NEW b \in Nat \ {0}, NEW n \in Nat, NEW w \in [1 .. n -> 0 .. b - 1], NEW c,
           IsPrefixes(c, b, w, n), NEW j \in 0 .. n
    PROVE  c[n] \div Power(b, j) = c[n - j]
<1> DEFINE x == c[n]
           S == {i \in 0 .. n : x \div Power(b, i) = c[n - i]}
<1>0. c \in [0 .. n -> Nat] /\ \A k \in 1 .. n : c[k] = c[k - 1] * b + w[k]
      BY DEF IsPrefixes
<1>1. x \in Nat
      BY <1>0
<1>2. 0 \in S
  <2>1. Power(b, 0) = 1
        BY Powers
  <2>2. x = 1 * x + 0
        BY <1>1
  <2>3. x \div 1 = x
    <3> HIDE DEF x
    <3>1. 0 \in 0 .. 1 - 1 /\ 1 \in Nat \ {0}
          OBVIOUS
    <3> QED BY <1>1, <2>2, <3>1, DivUnique
  <2> QED BY <2>1, <2>3
<1>3. ASSUME NEW i \in 0 .. n - 1, i \in S PROVE i + 1 \in S
  <2>1. i \in Nat /\ n - i \in 1 .. n /\ (n - i) - 1 = n - (i + 1) /\ n - (i + 1) \in 0 .. n
        OBVIOUS
  <2>2. x \div Power(b, i + 1) = (x \div Power(b, i)) \div b
    <3>1. Power(b, i + 1) = b * Power(b, i) /\ Power(b, i) \in Nat \ {0}
          BY <2>1, Powers
    <3> HIDE DEF x
    <3> QED BY <1>1, <3>1, DivDiv
  <2> DEFINE y == c[n - i]   z == c[n - (i + 1)]   d == w[n - i]
  <2>3. y \in Nat /\ z \in Nat /\ d \in 0 .. b - 1 /\ y = z * b + d
        BY <1>0, <2>1
  <2> HIDE DEF y, z, d
  <2>4. z * b = b * z
        BY <2>3
  <2>5. y \div b = z
        BY <2>3, <2>4, DivUnique
  <2>6. x \div Power(b, i) = y
        BY <1>3 DEF y
  <2> QED BY <2>2, <2>5, <2>6 DEF z
<1>4. 0 .. n \subseteq S
  <2> HIDE DEF S
  <2> QED BY <1>2, <1>3, BoundedInduction
<1> QED BY <1>4

\* A number has the digits it is made of.
LEMMA DigitsOfNumber ==
    ASSUME NEW b \in Nat \ {0}, NEW n \in Nat, NEW w \in [1 .. n -> 0 .. b - 1], NEW i \in 1 .. n
    PROVE  Digit(b, Number(b, w), n - i) = w[i]
<1>1. PICK c : IsPrefixes(c, b, w, n) /\ c[n] = Number(b, w)
  <2>1. w \in [1 .. n -> Nat]
        OBVIOUS
  <2> QED BY <2>1, NumberChain
<1>2. PICK j \in 0 .. n : n - i = j /\ n - j = i
      OBVIOUS
<1>3. c[n] \div Power(b, n - i) = c[i]
  <2>1. c[n] \div Power(b, j) = c[n - j]
        BY <1>1, DigitsOff
  <2> QED BY <1>2, <2>1
<1> DEFINE y == c[i]   z == c[i - 1]   d == w[i]
<1>4. y \in Nat /\ z \in Nat /\ d \in 0 .. b - 1 /\ y = z * b + d
  <2>1. i \in 0 .. n /\ i - 1 \in 0 .. n
        OBVIOUS
  <2> QED BY <1>1, <2>1 DEF IsPrefixes
<1> HIDE DEF y, z, d
<1>5. z * b = b * z
      BY <1>4
<1>6. y % b = d
      BY <1>4, <1>5, DivUnique
<1> QED BY <1>1, <1>3, <1>6 DEF Digit, y, d

\* w holds the n digits of x, from the highest.
IsDigits(w, b, x, n) ==
    /\ w \in [1 .. n -> 0 .. b - 1]
    /\ \A i \in 1 .. n : w[i] = Digit(b, x, n - i)

\* The number with the digits of x is x, if they are all of them.
LEMMA NumberOfDigits ==
    ASSUME NEW b \in Nat \ {0}, NEW n \in Nat, NEW x \in Nat, x < Power(b, n), NEW w,
           IsDigits(w, b, x, n)
    PROVE  Number(b, w) = x
<1>0. w \in [1 .. n -> 0 .. b - 1] /\ \A i \in 1 .. n : w[i] = Digit(b, x, n - i)
      BY DEF IsDigits
<1>1. PICK c : IsPrefixes(c, b, w, n) /\ c[n] = Number(b, w)
  <2>1. w \in [1 .. n -> Nat]
        BY <1>0
  <2> QED BY <2>1, NumberChain
<1> DEFINE S == {k \in 0 .. n : c[k] = x \div Power(b, n - k)}
<1>2. 0 \in S
  <2> DEFINE p == Power(b, n)
  <2>1. p \in Nat \ {0} /\ x < p
        BY Powers
  <2> HIDE DEF p
  <2>2. x = p * 0 + x /\ x \in 0 .. p - 1
        BY <2>1
  <2>3. x \div p = 0
        BY <2>1, <2>2, DivUnique
  <2>4. c[0] = 0 /\ n - 0 = n
        BY <1>1 DEF IsPrefixes
  <2> QED BY <2>3, <2>4 DEF p
<1>3. ASSUME NEW k \in 0 .. n - 1, k \in S PROVE k + 1 \in S
  <2>1. /\ k + 1 \in 1 .. n /\ k + 1 \in 0 .. n /\ (k + 1) - 1 = k
        /\ n - (k + 1) \in Nat /\ (n - (k + 1)) + 1 = n - k
        OBVIOUS
  <2> DEFINE p == Power(b, n - (k + 1))   y == x \div p
  <2>2. p \in Nat \ {0} /\ Power(b, n - k) = b * p
        BY <2>1, Powers
  <2>3. y \in Nat
    <3> HIDE DEF p
    <3> QED BY <2>2, Z3
  <2>4. x \div Power(b, n - k) = y \div b
    <3> HIDE DEF p
    <3> QED BY <2>2, DivDiv
  <2>5. c[k + 1] = c[k] * b + w[k + 1]
        BY <1>1, <2>1 DEF IsPrefixes
  <2>6. w[k + 1] = y % b
        BY <1>0, <2>1 DEF Digit
  <2>7. c[k] = y \div b
        BY <1>3, <2>4
  <2> HIDE DEF y
  <2>8. y = b * (y \div b) + (y % b) /\ y \div b \in Int /\ y % b \in Int
        BY <2>3, Z3
  <2>9. b * (y \div b) = (y \div b) * b
        BY <2>8
  <2> QED BY <2>1, <2>5, <2>6, <2>7, <2>8, <2>9 DEF y, p
<1>4. 0 .. n \subseteq S
  <2> HIDE DEF S
  <2> QED BY <1>2, <1>3, BoundedInduction
<1>5. c[n] = x \div Power(b, 0)
  <2>1. n \in S /\ n - n = 0
        BY <1>4
  <2> QED BY <2>1
<1>6. x \div 1 = x
  <2>1. x = 1 * x + 0 /\ 0 \in 0 .. 1 - 1 /\ 1 \in Nat \ {0}
        OBVIOUS
  <2> QED BY <2>1, DivUnique
<1> QED BY <1>1, <1>5, <1>6, Powers

---------------------------------------------------------------------------
\* Sequences put together.

\* s cuts F into n pieces of d elements of V.
Cuts(s, F, n, d, V) ==
    /\ F \in [1 .. n * d -> V]
    /\ s \in [1 .. n -> [1 .. d -> V]]
    /\ \A k \in 1 .. n, j \in 1 .. d : s[k][j] = F[(k - 1) * d + j]

\* The first n elements of F.
UpTo(F, n) == [p \in 1 .. n |-> F[p]]

\* The elements of the first pieces, and the next piece.
LEMMA NextPiece ==
    ASSUME NEW V, NEW n \in Nat, NEW d \in Nat, NEW F, NEW s, Cuts(s, F, n, d, V), NEW k \in 1 .. n
    PROVE  Joins(UpTo(F, k * d), UpTo(F, (k - 1) * d), s[k])
<1> DEFINE a == (k - 1) * d   e == k * d   c == n * d
           u == [p \in 1 .. a |-> F[p]]
           v == s[k]
           w == [p \in 1 .. e |-> F[p]]
<1>1. a \in Nat /\ e \in Nat /\ c \in Nat /\ e = a + d /\ e <= c
  <2>1. k - 1 \in Nat /\ k \in Nat /\ n - k \in Nat
        OBVIOUS
  <2>2. a \in Nat /\ e \in Nat /\ c \in Nat
        BY <2>1
  <2>3. e = a + d
        BY <2>1, Z3
  <2>4. c = e + (n - k) * d /\ (n - k) * d \in Nat
        BY <2>1, Z3
  <2> QED BY <2>2, <2>3, <2>4
<1>2. /\ F \in [1 .. c -> V] /\ v \in [1 .. d -> V]
      /\ \A j \in 1 .. d : v[j] = F[a + j]
      BY DEF Cuts
<1> HIDE DEF a, e, c, v
<1>3. u \in Seq(V) /\ Len(u) = a
      BY <1>1, <1>2
<1>4. v \in Seq(V) /\ Len(v) = d
      BY <1>2
<1>5. w \in Seq(V) /\ Len(w) = e
      BY <1>1, <1>2
<1>6. u \o v \in Seq(V) /\ Len(u \o v) = e
      BY <1>1, <1>3, <1>4, ConcatProperties
<1>7. ASSUME NEW p \in 1 .. e PROVE (u \o v)[p] = w[p]
  <2>1. (u \o v)[p] = IF p <= a THEN u[p] ELSE v[p - a]
    <3> HIDE DEF u
    <3> QED BY <1>1, <1>3, <1>4, ConcatProperties
  <2>2. CASE p <= a
    <3>1. u[p] = F[p]
          BY <2>2
    <3> QED BY <2>1, <2>2, <3>1
  <2>3. CASE ~(p <= a)
    <3>1. p - a \in 1 .. d /\ a + (p - a) = p
          BY <1>1, <2>3
    <3>2. v[p - a] = F[p]
          BY <1>2, <3>1
    <3> QED BY <2>1, <2>3, <3>2
  <2> QED BY <2>2, <2>3
<1>8. u \o v = w
  <2> HIDE DEF u, w
  <2> QED BY <1>5, <1>6, <1>7, SeqEqual
<1> QED BY <1>8 DEF u, v, w, a, e, UpTo, Joins

\* Pieces flattened give what was cut.
LEMMA Flattened ==
    ASSUME NEW V, NEW n \in Nat \ {0}, NEW d \in Nat, NEW F, NEW s, Cuts(s, F, n, d, V)
    PROVE  FlattenSeq(s) = F
<1> DEFINE Computes(f) == f = [i \in 1 .. Len(s) |-> IF i = 1 THEN s[i] ELSE f[i - 1] \o s[i]]
           flat == CHOOSE f : Computes(f)
           First(i) == UpTo(F, i * d)
           g == [i \in 1 .. n |-> First(i)]
<1>1. Len(s) = n
      BY DEF Cuts
<1>2. FlattenSeq(s) = flat[n]
  <2>1. FlattenSeq(s) = flat[Len(s)]
        BY <1>1, Zenon DEF FlattenSeq
  <2> QED BY <1>1, <2>1
<1>3. ASSUME NEW i \in 1 .. n PROVE First(i) = IF i = 1 THEN s[i] ELSE First(i - 1) \o s[i]
  <2>1. First(i - 1) \o s[i] = First(i)
    <3>1. n \in Nat
          OBVIOUS
    <3>2. Joins(First(i), First(i - 1), s[i])
          BY <3>1, NextPiece, Zenon
    <3> QED BY <3>2 DEF Joins
  <2>2. ASSUME i = 1 PROVE First(i) = s[i]
    <3>1. 1 * d = d /\ (1 - 1) * d = 0
          OBVIOUS
    <3>2. s[1] \in [1 .. d -> V] /\ \A j \in 1 .. d : s[1][j] = F[0 + j]
          BY <2>2, <3>1 DEF Cuts
    <3>3. \A j \in 1 .. d : 0 + j = j
          OBVIOUS
    <3> QED BY <2>2, <3>1, <3>2, <3>3 DEF UpTo
  <2> HIDE DEF First
  <2> QED BY <2>1, <2>2
<1>4. Computes(g)
  <2>1. \A i \in 1 .. n : i # 1 => i - 1 \in 1 .. n
        OBVIOUS
  <2> HIDE DEF First
  <2> QED BY <1>1, <1>3, <2>1
<1>5. Computes(flat)
  <2> HIDE DEF Computes, g
  <2> QED BY <1>4, Zenon
<1>6. \A i \in 1 .. n : flat[i] = IF i = 1 THEN s[i] ELSE flat[i - 1] \o s[i]
  <2> HIDE DEF flat
  <2> QED BY <1>1, <1>5
<1> HIDE DEF Computes, flat
<1> DEFINE S == {i \in 0 .. n - 1 : flat[i + 1] = First(i + 1)}
<1>7. 0 \in S
  <2>1. 1 \in 1 .. n /\ 0 + 1 = 1 /\ 0 \in 0 .. n - 1
        OBVIOUS
  <2> HIDE DEF First
  <2>2. flat[1] = s[1] /\ First(1) = s[1]
        BY <1>3, <1>6, <2>1
  <2> QED BY <2>1, <2>2
<1>8. ASSUME NEW i \in 0 .. (n - 1) - 1, i \in S PROVE i + 1 \in S
  <2>1. i + 2 \in 1 .. n /\ i + 2 # 1 /\ (i + 2) - 1 = i + 1 /\ (i + 1) + 1 = i + 2 /\ i + 1 \in 0 .. n - 1
        OBVIOUS
  <2> HIDE DEF First
  <2>2. flat[i + 2] = flat[i + 1] \o s[i + 2] /\ First(i + 2) = First(i + 1) \o s[i + 2]
        BY <1>3, <1>6, <2>1
  <2> QED BY <1>8, <2>1, <2>2
<1>9. 0 .. n - 1 \subseteq S
  <2>1. n - 1 \in Nat
        OBVIOUS
  <2> HIDE DEF S
  <2> QED BY <1>7, <1>8, <2>1, BoundedInduction
<1>10. flat[n] = First(n)
  <2>1. n - 1 \in S /\ (n - 1) + 1 = n
        BY <1>9
  <2> HIDE DEF First
  <2> QED BY <2>1
<1>11. First(n) = F
      BY DEF Cuts, UpTo
<1> QED BY <1>2, <1>10, <1>11

---------------------------------------------------------------------------
\* Rounding up.

LEMMA DivBounds ==
    ASSUME NEW a \in Nat, NEW b \in Nat \ {0}
    PROVE  a \div b \in Nat /\ b * (a \div b) <= a /\ a < b * (a \div b) + b
<1>1. a = b * (a \div b) + (a % b) /\ a % b \in 0 .. b - 1 /\ a \div b \in Int
    BY Z3
<1>2. a \div b >= 0
    BY Z3
<1> QED BY <1>1, <1>2, Z3

LEMMA CeilDivCovers ==
    ASSUME NEW a \in Nat, NEW b \in Nat \ {0}
    PROVE  CeilDiv(a, b) \in Nat /\ a <= b * CeilDiv(a, b)
<1>1. a + b - 1 \in Nat
    OBVIOUS
<1>2. (a + b - 1) \div b \in Nat /\ a + b - 1 < b * ((a + b - 1) \div b) + b
    BY <1>1, DivBounds
<1> DEFINE q == (a + b - 1) \div b
           c == b * q
<1>3. c \in Nat
    BY <1>2
<1> HIDE DEF q, c
<1>4. a + b - 1 < c + b
    BY <1>2 DEF c, q
<1>5. a <= c
    BY <1>3, <1>4
<1> QED BY <1>2, <1>5 DEF CeilDiv, c, q

LEMMA QuotientBelow ==
    ASSUME NEW b \in Nat \ {0}, NEW q \in Nat, NEW c \in Nat, b * q < b * c + b
    PROVE  q <= c
<1>1. SUFFICES ASSUME q >= c + 1 PROVE FALSE
    OBVIOUS
<1>2. b * q >= b * (c + 1)
    BY <1>1, Z3
<1>3. b * (c + 1) = b * c + b
    BY Z3
<1> QED BY <1>2, <1>3, Z3

LEMMA CeilDivLeast ==
    ASSUME NEW a \in Nat, NEW b \in Nat \ {0}, NEW c \in Nat, a <= b * c
    PROVE  CeilDiv(a, b) <= c
<1>1. a + b - 1 \in Nat
    OBVIOUS
<1> DEFINE q == (a + b - 1) \div b
<1>2. q \in Nat /\ b * q <= a + b - 1
    BY <1>1, DivBounds
<1> HIDE DEF q
<1>3. b * q \in Nat /\ b * c \in Nat
    BY <1>2
<1>4. b * q < b * c + b
    BY <1>2, <1>3
<1>5. q <= c
    BY <1>2, <1>4, QuotientBelow
<1> QED BY <1>5 DEF CeilDiv, q

\* The chunks of compute_m's dimension have room for a window of every DataBytes bytes
\* of a block, whose header and length prefix stay within the slack.
LEMMA Capacity ==
    ASSUME NEW size \in Nat, NEW bytes \in Nat, bytes <= size + Slack
    PROVE  /\ ComputeM(size, N) \in Nat
           /\ CeilDiv(bytes, DataBytes) <= N * ComputeM(size, N)
           /\ bytes <= (N * ComputeM(size, N)) * DataBytes
<1> USE PackingAssumption, CodecAssumption, ChunksAssumption
<1> DEFINE m == ComputeM(size, N)
           d == DataBytes * N
<1>1. size + Slack \in Nat
    OBVIOUS
<1>2. d \in Nat \ {0}
    BY Z3
<1>3. m \in Nat /\ size + Slack <= d * m
    <2> HIDE DEF d
    <2> QED BY <1>1, <1>2, CeilDivCovers DEF ComputeM, d
<1> HIDE DEF m
<1>4. d * m = DataBytes * (N * m)
    BY <1>3, Z3
<1>5. N * m \in Nat /\ d * m \in Nat
    BY <1>2, <1>3
<1>6. bytes <= DataBytes * (N * m)
    <2> DEFINE c == DataBytes * (N * m)
    <2>1. c \in Nat /\ size + Slack <= c
        BY <1>3, <1>4, <1>5
    <2> HIDE DEF c
    <2>2. bytes <= c
        BY <1>1, <2>1
    <2> QED BY <2>2 DEF c
<1>7. CeilDiv(bytes, DataBytes) <= N * m
    BY <1>5, <1>6, CeilDivLeast
<1>8. DataBytes * (N * m) = (N * m) * DataBytes
    BY <1>5
<1> QED BY <1>3, <1>6, <1>7, <1>8 DEF m

---------------------------------------------------------------------------
\* Lengths.

LEMMA PrefixIsShort == ASSUME NEW len PROVE PrefixBytes(len) \in 1 .. 4
BY DEF PrefixBytes


LEMMA ElementCount ==
    ASSUME NEW data, data # <<>>, Len(data) \in Nat
    PROVE  Len(BytesToFieldElements(data)) = CeilDiv(Len(data), DataBytes)
<1>1. CeilDiv(Len(data), DataBytes) \in Nat
    BY PackingAssumption, CeilDivCovers
<1> QED BY <1>1 DEF BytesToFieldElements


---------------------------------------------------------------------------
\* Windows.

\* The p-th byte, zero beyond the end; the first n bytes, with zeros for what there is not.
At(data, p) == IF p <= Len(data) THEN data[p] ELSE 0
Padded(data, n) == [p \in 1 .. n |-> At(data, p)]

\* The i-th element of data, zero beyond the last.
Element(data, i) ==
    IF i <= Len(BytesToFieldElements(data)) THEN BytesToFieldElements(data)[i] ELSE 0

\* w is the k-th window of data, padded.
IsWindow(w, data, k) ==
    /\ w \in [1 .. DataBytes -> Byte]
    /\ \A j \in 1 .. DataBytes : w[j] = At(data, (k - 1) * DataBytes + j)

\* A window starts within the data.
LEMMA WindowStart ==
    ASSUME NEW len \in Nat, NEW k \in 1 .. CeilDiv(len, DataBytes)
    PROVE  (k - 1) * DataBytes < len
<1> USE PackingAssumption
<1> DEFINE q == CeilDiv(len, DataBytes)   a == (k - 1) * DataBytes   c == DataBytes * q
<1>1. q \in Nat /\ c <= len + DataBytes - 1
  <2>1. len + DataBytes - 1 \in Nat
        OBVIOUS
  <2>2. q \in Nat /\ DataBytes * q <= len + DataBytes - 1
        BY <2>1, DivBounds DEF CeilDiv
  <2> QED BY <2>2
<1> HIDE DEF q
<1>2. k - 1 \in Nat /\ q - k \in Nat
      BY <1>1 DEF q
<1>3. c = a + DataBytes + (q - k) * DataBytes
      BY <1>1, <1>2, Z3
<1>4. a \in Nat /\ (q - k) * DataBytes \in Nat /\ c \in Int
      BY <1>1, <1>2, <1>3
<1> HIDE DEF a, c
<1>5. a < len
      BY <1>1, <1>3, <1>4
<1> QED BY <1>5 DEF a

\* What is packed is the window, padded.
LEMMA WindowOf ==
    ASSUME NEW data \in Seq(Byte), data # <<>>, NEW k \in 1 .. Len(BytesToFieldElements(data))
    PROVE  \E w : /\ IsWindow(w, data, k)
                  /\ BytesToFieldElements(data)[k] = Number(Base, w)
<1> USE PackingAssumption
<1> DEFINE len == Len(data)
           a == (k - 1) * DataBytes
           e == Least(k * DataBytes, len)
           window == SubSeq(data, a + 1, e)
           zeros == [i \in 1 .. DataBytes - Len(window) |-> 0]
           w == window \o zeros
<1>1. len \in Nat /\ Len(BytesToFieldElements(data)) = CeilDiv(len, DataBytes)
      BY ElementCount
<1>2. BytesToFieldElements(data)[k] = Number(Base, w)
  <2>1. k \in 1 .. CeilDiv(len, DataBytes)
        BY <1>1
  <2> QED BY <2>1, Zenon DEF BytesToFieldElements, Pack
<1>3. a \in Nat /\ a < len /\ k * DataBytes = a + DataBytes
  <2>1. k \in 1 .. CeilDiv(len, DataBytes)
        BY <1>1
  <2>2. a < len
        BY <1>1, <2>1, WindowStart
  <2>3. k - 1 \in Nat /\ k \in Nat
        BY <1>1, <2>1, PackingAssumption, CeilDivCovers
  <2>4. k * DataBytes = a + DataBytes
        BY <2>3, Z3
  <2>5. a \in Nat
        BY <2>3
  <2> QED BY <2>2, <2>4, <2>5
<1> HIDE DEF a
<1>4. e \in Nat /\ e - a \in 1 .. DataBytes /\ e <= len /\ (e = a + DataBytes \/ e = len)
      BY <1>1, <1>3 DEF Least
<1> HIDE DEF e
<1>5. /\ window \in Seq(Byte) /\ Len(window) = e - a
      /\ \A i \in 1 .. e - a : window[i] = data[a + i]
  <2>1. \A i \in a + 1 .. e : data[i] \in Byte
        BY <1>3, <1>4
  <2>2. window = [i \in 1 .. e - a |-> data[a + i]]
        BY <1>3, <1>4
  <2>3. \A i \in 1 .. e - a : data[a + i] \in Byte
        BY <1>3, <1>4
  <2>4. e - a \in Nat
        BY <1>4
  <2> HIDE DEF window
  <2> QED BY <2>2, <2>3, <2>4
<1> HIDE DEF window
<1>6. zeros \in Seq(Byte) /\ Len(zeros) = DataBytes - (e - a)
  <2>1. DataBytes - (e - a) \in Nat /\ 0 \in Byte
        BY <1>4 DEF Byte
  <2> QED BY <1>5, <2>1
<1>7. /\ w \in Seq(Byte) /\ Len(w) = DataBytes
      /\ \A j \in 1 .. DataBytes : w[j] = IF j <= e - a THEN window[j] ELSE zeros[j - (e - a)]
  <2>1. (e - a) + (DataBytes - (e - a)) = DataBytes
        BY <1>4
  <2> HIDE DEF zeros
  <2> QED BY <1>5, <1>6, <2>1, ConcatProperties
<1>8. ASSUME NEW j \in 1 .. DataBytes PROVE w[j] = At(data, a + j)
  <2>1. CASE j <= e - a
    <3>1. w[j] = data[a + j] /\ a + j <= len
          BY <1>3, <1>4, <1>5, <1>7, <2>1, SMTT(30)
    <3> QED BY <3>1 DEF At
  <2>2. CASE ~(j <= e - a)
    <3>1. j - (e - a) \in 1 .. DataBytes - Len(window) /\ ~(a + j <= len)
          BY <1>1, <1>3, <1>4, <1>5, <2>2
    <3>2. w[j] = 0
          BY <1>7, <2>2, <3>1
    <3> QED BY <3>1, <3>2 DEF At
  <2> QED BY <2>1, <2>2
<1> HIDE DEF w
<1>9. IsWindow(w, data, k)
      BY <1>7, <1>8 DEF IsWindow, a
<1> QED BY <1>2, <1>9

\* Unpacking an element gives its window of the padded data.
LEMMA Unpacked ==
    ASSUME NEW data \in Seq(Byte), data # <<>>, NEW k \in Nat \ {0}, NEW j \in 1 .. DataBytes
    PROVE  Unpack(Element(data, k))[j] = At(data, (k - 1) * DataBytes + j)
<1> USE PackingAssumption
<1>1. CASE k <= Len(BytesToFieldElements(data))
  <2>1. k \in 1 .. Len(BytesToFieldElements(data))
    <3>1. Len(BytesToFieldElements(data)) \in Nat
          BY ElementCount, CeilDivCovers
    <3> QED BY <1>1, <3>1
  <2>2. PICK w : IsWindow(w, data, k) /\ BytesToFieldElements(data)[k] = Number(Base, w)
        BY <2>1, WindowOf
  <2>3. Unpack(Element(data, k))[j] = Digit(Base, Number(Base, w), DataBytes - j)
        BY <1>1, <2>2 DEF Unpack, Element
  <2>4. Digit(Base, Number(Base, w), DataBytes - j) = w[j]
    <3>1. w \in [1 .. DataBytes -> 0 .. Base - 1] /\ Base \in Nat \ {0} /\ DataBytes \in Nat
          BY <2>2 DEF IsWindow, Byte
    <3> QED BY <3>1, DigitsOfNumber, ZenonT(60)
  <2> QED BY <2>2, <2>3, <2>4 DEF IsWindow
<1>2. CASE ~(k <= Len(BytesToFieldElements(data)))
  <2> DEFINE len == Len(data)   a == (k - 1) * DataBytes   q == CeilDiv(len, DataBytes)
  <2>1. len \in Nat /\ q \in Nat /\ len <= DataBytes * q /\ k >= q + 1
    <3>1. len \in Nat
          OBVIOUS
    <3>2. q \in Nat /\ len <= DataBytes * q
          BY <3>1, CeilDivCovers
    <3>3. ~(k <= q)
          BY <1>2, <3>1, ElementCount
    <3> HIDE DEF q
    <3> QED BY <3>1, <3>2, <3>3
  <2> HIDE DEF len, q
  <2>2. a \in Nat /\ a >= DataBytes * q
    <3>1. k - 1 \in Nat /\ (k - 1) - q \in Nat
          BY <2>1
    <3>2. a = DataBytes * q + ((k - 1) - q) * DataBytes
          BY <2>1, <3>1, Z3
    <3>3. ((k - 1) - q) * DataBytes \in Nat /\ DataBytes * q \in Nat
          BY <2>1, <3>1
    <3> QED BY <3>2, <3>3
  <2>3. ~(a + j <= len)
    <3>1. DataBytes * q \in Nat
          BY <2>1
    <3> QED BY <2>1, <2>2, <3>1
  <2>4. At(data, a + j) = 0
    <3> HIDE DEF a
    <3> QED BY <2>3 DEF At, len
  <2>5. Unpack(Element(data, k))[j] = (0 \div Power(Base, DataBytes - j)) % Base
        BY <1>2 DEF Unpack, Element, Digit
  <2> DEFINE p == Power(Base, DataBytes - j)
  <2>6. p \in Nat \ {0}
    <3>1. DataBytes - j \in Nat /\ Base \in Nat \ {0}
          OBVIOUS
    <3> QED BY <3>1, Powers
  <2>7. 0 \div p = 0 /\ 0 % Base = 0
    <3> HIDE DEF p
    <3>1. 0 = p * 0 + 0 /\ 0 \in 0 .. p - 1
          BY <2>6
    <3>2. 0 = Base * 0 + 0 /\ 0 \in 0 .. Base - 1 /\ Base \in Nat \ {0} /\ 0 \in Nat
          OBVIOUS
    <3>3. 0 \div p = 0
          BY <2>6, <3>1, <3>2, DivUnique
    <3>4. 0 % Base = 0
          BY <3>2, DivUnique
    <3> QED BY <3>3, <3>4
  <2> QED BY <2>4, <2>5, <2>7
<1> QED BY <1>1, <1>2

---------------------------------------------------------------------------
\* Chunks and bytes.

\* cs holds the elements of data in N chunks of m.
IsChunked(cs, data, m) == cs = [k \in 1 .. N |-> [j \in 1 .. m |-> Element(data, (k - 1) * m + j)]]

\* The place of an element of the k-th piece.
LEMMA PlaceInPiece ==
    ASSUME NEW n \in Nat, NEW d \in Nat, NEW k \in 1 .. n, NEW j \in 1 .. d
    PROVE  (k - 1) * d + j \in 1 .. n * d
<1> DEFINE a == (k - 1) * d   c == n * d
<1>1. k - 1 \in Nat /\ n - k \in Nat
      OBVIOUS
<1>2. c = a + d + (n - k) * d
      BY <1>1, Z3
<1>3. a \in Nat /\ c \in Nat /\ (n - k) * d \in Nat
      BY <1>1
<1> HIDE DEF a, c
<1>4. a + j \in 1 .. c
      BY <1>2, <1>3
<1> QED BY <1>4 DEF a, c

\* What chunks give back is the data, padded with zeros to the bytes of all elements.
LEMMA BytesBack ==
    ASSUME NEW data \in Seq(Byte), data # <<>>, NEW m \in Nat \ {0}, NEW cs, IsChunked(cs, data, m)
    PROVE  FieldElementsToBytes(FlattenSeq(cs)) = Padded(data, (N * m) * DataBytes)
<1> USE PackingAssumption, ChunksAssumption
<1> DEFINE n == N * m
           V == {Element(data, i) : i \in Nat}
           F == [i \in 1 .. n |-> Element(data, i)]
           s == [i \in 1 .. Len(F) |-> Unpack(F[i])]
           G == Padded(data, n * DataBytes)
<1>1. n \in Nat \ {0}
      BY Z3
<1>2. FlattenSeq(cs) = F
  <2>1. F \in [1 .. n -> V]
        BY <1>1
  <2>2. cs = [k \in 1 .. N |-> [j \in 1 .. m |-> Element(data, (k - 1) * m + j)]]
        BY DEF IsChunked
  <2>3. ASSUME NEW k \in 1 .. N, NEW j \in 1 .. m
        PROVE  /\ cs[k][j] = Element(data, (k - 1) * m + j)
               /\ (k - 1) * m + j \in 1 .. n
    <3>1. (k - 1) * m + j \in 1 .. n
          BY PlaceInPiece
    <3> QED BY <2>2, <3>1
  <2>4. cs \in [1 .. N -> [1 .. m -> V]]
    <3>1. \A k \in 1 .. N, j \in 1 .. m : Element(data, (k - 1) * m + j) \in V
          BY <1>1, <2>3
    <3> HIDE DEF V
    <3> QED BY <2>2, <3>1
  <2>5. \A k \in 1 .. N, j \in 1 .. m : cs[k][j] = F[(k - 1) * m + j]
        BY <2>3
  <2>6. Cuts(cs, F, N, m, V)
    <3> HIDE DEF V, F
    <3> QED BY <2>1, <2>4, <2>5 DEF Cuts
  <2> HIDE DEF V, F
  <2> QED BY <2>6, Flattened
<1>3. Len(F) = n /\ \A i \in 1 .. n : F[i] = Element(data, i)
      BY <1>1
<1>4. \A p \in Nat \ {0} : At(data, p) \in Byte
      BY DEF At, Byte
<1>5. FlattenSeq(s) = G
  <2>1. G \in [1 .. n * DataBytes -> Byte]
    <3>1. n * DataBytes \in Nat
          BY <1>1
    <3> QED BY <1>4, <3>1 DEF Padded
  <2>2. ASSUME NEW k \in 1 .. n, NEW j \in 1 .. DataBytes
        PROVE  s[k][j] = G[(k - 1) * DataBytes + j]
    <3>1. (k - 1) * DataBytes + j \in 1 .. n * DataBytes
      <4>1. n \in Nat /\ DataBytes \in Nat
            BY <1>1
      <4> QED BY <4>1, PlaceInPiece
    <3>2. G[(k - 1) * DataBytes + j] = At(data, (k - 1) * DataBytes + j)
          BY <3>1 DEF Padded
    <3>3. s[k] = Unpack(Element(data, k))
          BY <1>3
    <3>4. k \in Nat \ {0}
          BY <1>1
    <3> QED BY <3>2, <3>3, <3>4, Unpacked
  <2>3. s \in [1 .. n -> [1 .. DataBytes -> Byte]]
    <3>1. ASSUME NEW k \in 1 .. n PROVE s[k] \in [1 .. DataBytes -> Byte]
      <4>1. s[k] = [j \in 1 .. DataBytes |-> s[k][j]]
            BY <1>3 DEF Unpack
      <4>2. \A j \in 1 .. DataBytes : s[k][j] \in Byte
        <5> SUFFICES ASSUME NEW j \in 1 .. DataBytes PROVE s[k][j] \in Byte
            OBVIOUS
        <5>1. (k - 1) * DataBytes + j \in 1 .. n * DataBytes
          <6>1. n \in Nat /\ DataBytes \in Nat
                BY <1>1
          <6> QED BY <6>1, PlaceInPiece
        <5> HIDE DEF s, G
        <5> QED BY <2>1, <2>2, <5>1
      <4> HIDE DEF s
      <4> QED BY <4>1, <4>2
    <3>2. s = [k \in 1 .. n |-> s[k]]
          BY <1>3
    <3> HIDE DEF s
    <3> QED BY <3>1, <3>2
  <2>4. Cuts(s, G, n, DataBytes, Byte)
    <3> HIDE DEF s, G
    <3> QED BY <2>1, <2>2, <2>3 DEF Cuts
  <2> HIDE DEF s, G, n
  <2>5. DataBytes \in Nat
        OBVIOUS
  <2> QED BY <1>1, <2>4, <2>5, Flattened
<1>6. FieldElementsToBytes(F) = FlattenSeq(s)
      BY Zenon DEF FieldElementsToBytes
<1> QED BY <1>2, <1>5, <1>6

---------------------------------------------------------------------------
\* Length prefixes.

\* A length below Half^4 has as many digits as its prefix has bytes.
LEMMA PrefixFits ==
    ASSUME NEW len \in Nat, len < HalfPowers[4]
    PROVE  len < Power(Half, PrefixBytes(len))
<1>0. Half \in Nat \ {0}
      BY CodecAssumption
<1>1. Power(Half, 1) = Half
  <2>1. Power(Half, 0) = 1 /\ Power(Half, 0 + 1) = Half * Power(Half, 0)
        BY <1>0, Powers
  <2> QED BY <1>0, <2>1
<1>2. Power(Half, 2) = Half * Half
  <2>1. Power(Half, 1 + 1) = Half * Power(Half, 1)
        BY <1>0, Powers
  <2> QED BY <1>1, <2>1
<1>3. Power(Half, 3) = Half * Half * Half
  <2>1. Power(Half, 2 + 1) = Half * Power(Half, 2)
        BY <1>0, Powers
  <2>2. Half * (Half * Half) = Half * Half * Half
        BY <1>0, Z3
  <2> QED BY <1>2, <2>1, <2>2
<1>4. Power(Half, 4) = Half * Half * Half * Half
  <2>1. Power(Half, 3 + 1) = Half * Power(Half, 3)
        BY <1>0, Powers
  <2>2. Half * (Half * Half * Half) = Half * Half * Half * Half
        BY <1>0, Z3
  <2> QED BY <1>3, <2>1, <2>2
<1> DEFINE p1 == Half   p2 == Half * Half   p3 == Half * Half * Half   p4 == Half * Half * Half * Half
<1>5. HalfPowers[1] = p1 /\ HalfPowers[2] = p2 /\ HalfPowers[3] = p3 /\ HalfPowers[4] = p4
      BY DEF HalfPowers
<1> HIDE DEF p1, p2, p3, p4
<1>6. Power(Half, 1) = p1 /\ Power(Half, 2) = p2 /\ Power(Half, 3) = p3 /\ Power(Half, 4) = p4
      BY <1>1, <1>2, <1>3, <1>4 DEF p1, p2, p3, p4
<1> QED BY <1>5, <1>6 DEF PrefixBytes

\* t is the prefix of len: q bytes, all but the last marked.
IsLengthPrefix(t, len, q) ==
    /\ t \in [1 .. q -> Byte]
    /\ \A i \in 1 .. q : /\ t[i] % Half = Digit(Half, len, i - 1)
                         /\ i < q => t[i] >= Half
                         /\ i = q => t[i] < Half

LEMMA PrefixIs ==
    ASSUME NEW len \in Nat
    PROVE  IsLengthPrefix(LengthPrefix(len), len, PrefixBytes(len))
<1> DEFINE q == PrefixBytes(len)   t == LengthPrefix(len)
<1>1. ASSUME NEW i \in 1 .. q
      PROVE  /\ t[i] \in Byte
             /\ t[i] % Half = Digit(Half, len, i - 1)
             /\ i < q => t[i] >= Half
             /\ i = q => t[i] < Half
  <2> DEFINE d == Digit(Half, len, i - 1)
  <2>1. t[i] = d + (IF i < q THEN Half ELSE 0)
        BY DEF LengthPrefix
  <2>2. d \in 0 .. Half - 1 /\ Half \in Nat \ {0}
    <3> DEFINE p == Power(Half, i - 1)   x == len \div p
    <3>1. Half \in Nat \ {0} /\ i - 1 \in Nat
          BY CodecAssumption, PrefixIsShort
    <3>2. p \in Nat \ {0}
          BY <3>1, Powers
    <3>3. x \in Int
      <4> HIDE DEF p
      <4> QED BY <3>2, Z3
    <3>4. x % Half \in 0 .. Half - 1
      <4> HIDE DEF x
      <4> QED BY <3>1, <3>3, Z3
    <3> QED BY <3>1, <3>4 DEF Digit
  <2> HIDE DEF d, t
  <2>3. t[i] \in Byte
        BY <2>1, <2>2, CodecAssumption DEF Byte
  <2>4. t[i] % Half = d
    <3>1. t[i] = Half * (IF i < q THEN 1 ELSE 0) + d /\ t[i] \in Nat
          BY <2>1, <2>2
    <3>2. (IF i < q THEN 1 ELSE 0) \in Nat
          OBVIOUS
    <3> HIDE DEF q
    <3> QED BY <2>2, <3>1, <3>2, DivUnique
  <2>5. (i < q => t[i] >= Half) /\ (i = q => t[i] < Half)
        BY <2>1, <2>2, PrefixIsShort
  <2> QED BY <2>3, <2>4, <2>5 DEF d
<1>2. t = [i \in 1 .. q |-> t[i]]
      BY DEF LengthPrefix
<1> HIDE DEF t, q
<1>3. t \in [1 .. q -> Byte]
      BY <1>1, <1>2
<1>4. IsLengthPrefix(t, len, q)
      BY <1>1, <1>3 DEF IsLengthPrefix
<1> QED BY <1>4 DEF t, q

\* bytes starts with what there is of the prefix t of q bytes.
StartsWith(bytes, t, q) == \A i \in 1 .. Len(bytes) : i <= q => bytes[i] = t[i]

\* A prefix is read back, whatever follows; a part of one is not read.
LEMMA PrefixRead ==
    ASSUME NEW len \in Nat, NEW q \in Nat \ {0}, len < Power(Half, q), NEW t, IsLengthPrefix(t, len, q),
           NEW bytes \in Seq(Byte), StartsWith(bytes, t, q)
    PROVE  ReadLength(bytes) = IF Len(bytes) < q THEN Err ELSE Ok([size |-> q, value |-> len])
<1> DEFINE n == Len(bytes)
<1>0. /\ n \in Nat /\ \A i \in 1 .. n : bytes[i] \in Byte
      /\ Half \in Nat \ {0} /\ \A x \in Byte : x \in Nat
      BY CodecAssumption DEF Byte
<1>1. /\ \A i \in 1 .. n : i < q => bytes[i] >= Half
      /\ \A i \in 1 .. n : i = q => bytes[i] < Half
  <2> SUFFICES ASSUME NEW i \in 1 .. n, i <= q
               PROVE  (i < q => bytes[i] >= Half) /\ (i = q => bytes[i] < Half)
      BY <1>0
  <2>1. i \in 1 .. q /\ bytes[i] = t[i]
        BY DEF StartsWith
  <2> QED BY <2>1 DEF IsLengthPrefix
<1>2. CASE n < q
  <2>1. \A i \in 1 .. n : bytes[i] >= Half
        BY <1>0, <1>1, <1>2
  <2> QED BY <1>2, <2>1 DEF ReadLength
<1>3. CASE ~(n < q)
  <2> DEFINE Ends(i) == bytes[i] < Half /\ \A j \in 1 .. i - 1 : bytes[j] >= Half
             size == CHOOSE i \in 1 .. n : Ends(i)
             w == [i \in 1 .. q |-> bytes[q + 1 - i] % Half]
  <2>1. q \in 1 .. n /\ Ends(q)
        BY <1>0, <1>1, <1>3
  <2>2. \A i \in 1 .. n : Ends(i) => i = q
    <3> SUFFICES ASSUME NEW i \in 1 .. n, Ends(i) PROVE i = q
        OBVIOUS
    <3>1. ~(i < q)
          BY <1>0, <1>1
    <3>2. ~(q < i)
      <4> SUFFICES ASSUME q < i PROVE FALSE
          OBVIOUS
      <4>1. q \in 1 .. i - 1
            BY <2>1
      <4>2. bytes[q] >= Half /\ bytes[q] < Half /\ bytes[q] \in Nat
            BY <1>0, <2>1, <4>1
      <4> QED BY <1>0, <4>2
    <3> QED BY <2>1, <3>1, <3>2
  <2>3. size = q
    <3> HIDE DEF Ends
    <3> QED BY <2>1, <2>2
  <2>4. ~(\A i \in 1 .. n : bytes[i] >= Half)
        BY <1>0, <2>1
  <2>5. ReadLength(bytes) = Ok([size |-> size, value |-> Number(Half, [i \in 1 .. size |-> bytes[size + 1 - i] % Half])])
        BY <2>4, Zenon DEF ReadLength
  <2> HIDE DEF size
  <2>6. ReadLength(bytes) = Ok([size |-> q, value |-> Number(Half, w)])
        BY <2>3, <2>5
  <2>7. IsDigits(w, Half, len, q)
    <3>1. ASSUME NEW i \in 1 .. q
          PROVE  w[i] \in 0 .. Half - 1 /\ w[i] = Digit(Half, len, q - i)
      <4>1. q + 1 - i \in 1 .. q /\ q + 1 - i \in 1 .. n /\ (q + 1 - i) - 1 = q - i
            BY <2>1
      <4> DEFINE x == bytes[q + 1 - i]
      <4>2. x \in Nat /\ x = t[q + 1 - i]
            BY <1>0, <4>1 DEF StartsWith
      <4>3. t[q + 1 - i] % Half = Digit(Half, len, (q + 1 - i) - 1)
            BY <4>1 DEF IsLengthPrefix
      <4>4. x % Half \in 0 .. Half - 1
        <5> HIDE DEF x
        <5> QED BY <1>0, <4>2, Z3
      <4> QED BY <4>1, <4>2, <4>3, <4>4
    <3>2. w = [i \in 1 .. q |-> w[i]]
          OBVIOUS
    <3> HIDE DEF w
    <3> QED BY <3>1, <3>2 DEF IsDigits
  <2>8. Number(Half, w) = len
    <3> HIDE DEF w
    <3> QED BY <1>0, <2>7, NumberOfDigits
  <2> QED BY <1>3, <2>6, <2>8
<1> QED BY <1>2, <1>3

---------------------------------------------------------------------------
\* Blocks as bytes.

\* A block of `size` bytes of transactions, as generate_random_block makes it.
Sized(size) == [header : [1 .. HeaderBytes -> Byte], transactions : [1 .. size -> Byte]]

\* The bytes w are h of HeaderBytes, t of q, and x of n.
IsWritten(w, h, t, q, x, n) ==
    /\ w \in Seq(Byte) /\ Len(w) = HeaderBytes + q + n
    /\ \A i \in 1 .. HeaderBytes : w[i] = h[i]
    /\ \A i \in 1 .. q : w[HeaderBytes + i] = t[i]
    /\ \A i \in 1 .. n : w[HeaderBytes + q + i] = x[i]

LEMMA WrittenIs ==
    ASSUME NEW size \in Nat, NEW b \in Sized(size)
    PROVE  IsWritten(Write(b), b.header, LengthPrefix(size), PrefixBytes(size), b.transactions, size)
<1> USE CodecAssumption
<1> DEFINE h == b.header   t == LengthPrefix(size)   q == PrefixBytes(size)   x == b.transactions
           front == h \o t
           w == front \o x
<1>1. h \in Seq(Byte) /\ Len(h) = HeaderBytes
      BY DEF Sized
<1>2. x \in Seq(Byte) /\ Len(x) = size
      BY DEF Sized
<1>3. t \in Seq(Byte) /\ Len(t) = q /\ q \in Nat
  <2>1. t \in [1 .. q -> Byte] /\ q \in Nat
        BY PrefixIs, PrefixIsShort DEF IsLengthPrefix
  <2> HIDE DEF t, q
  <2> QED BY <2>1
<1>4. Write(b) = w
      BY <1>2 DEF Write
<1> HIDE DEF h, t, q, x
<1>5. /\ front \in Seq(Byte) /\ Len(front) = HeaderBytes + q
      /\ \A i \in 1 .. HeaderBytes + q : front[i] = IF i <= HeaderBytes THEN h[i] ELSE t[i - HeaderBytes]
      BY <1>1, <1>3, ConcatProperties
<1> HIDE DEF front
<1>6. /\ w \in Seq(Byte) /\ Len(w) = HeaderBytes + q + size
      /\ \A i \in 1 .. HeaderBytes + q + size :
             w[i] = IF i <= HeaderBytes + q THEN front[i] ELSE x[i - (HeaderBytes + q)]
  <2> DEFINE n == HeaderBytes + q
  <2>1. n \in Nat /\ front \in Seq(Byte) /\ Len(front) = n
        BY <1>3, <1>5
  <2> HIDE DEF n
  <2>2. /\ w \in Seq(Byte) /\ Len(w) = n + size
        /\ \A i \in 1 .. n + size : w[i] = IF i <= n THEN front[i] ELSE x[i - n]
        BY <1>2, <2>1, ConcatProperties
  <2> QED BY <2>2 DEF n
<1> HIDE DEF w
<1>7. \A i \in 1 .. HeaderBytes : w[i] = h[i]
      BY <1>3, <1>5, <1>6
<1>8. ASSUME NEW i \in 1 .. q PROVE w[HeaderBytes + i] = t[i]
  <2>1. /\ HeaderBytes + i \in 1 .. HeaderBytes + q /\ HeaderBytes + i \in 1 .. HeaderBytes + q + size
        /\ HeaderBytes + i <= HeaderBytes + q /\ ~(HeaderBytes + i <= HeaderBytes)
        /\ (HeaderBytes + i) - HeaderBytes = i
        BY <1>3
  <2> QED BY <1>5, <1>6, <2>1
<1>9. ASSUME NEW i \in 1 .. size PROVE w[HeaderBytes + q + i] = x[i]
  <2>1. /\ HeaderBytes + q + i \in 1 .. HeaderBytes + q + size
        /\ ~(HeaderBytes + q + i <= HeaderBytes + q)
        /\ (HeaderBytes + q + i) - (HeaderBytes + q) = i
        BY <1>3
  <2> QED BY <1>6, <2>1
<1>10. IsWritten(w, h, t, q, x, size)
      BY <1>6, <1>7, <1>8, <1>9 DEF IsWritten
<1> QED BY <1>4, <1>10 DEF h, t, q, x

\* s is the first l bytes of w, padded.
IsStart(s, w, l) == s \in Seq(Byte) /\ Len(s) = l /\ \A i \in 1 .. l : s[i] = At(w, i)

\* Reading what starts like a serialised block gives that block exactly if all of it is
\* there and its transactions are within the limit.
LEMMA WrittenIsRead ==
    ASSUME NEW size \in Nat, size < HalfPowers[4], NEW b \in Sized(size), NEW l \in Nat,
           NEW s, IsStart(s, Write(b), l)
    PROVE  ReadBlock(s) = IF l < EncodeSize(b) \/ size > Limit THEN Err
                          ELSE Ok([block |-> b, taken |-> EncodeSize(b)])
<1> USE CodecAssumption
<1> DEFINE h == b.header   t == LengthPrefix(size)   q == PrefixBytes(size)   x == b.transactions
           w == Write(b)   H == HeaderBytes
           rest == SubSeq(s, H + 1, Len(s))
           length == ReadLength(rest)
           first == length[1].size + 1
           last == length[1].size + length[1].value
<1>1. /\ w \in Seq(Byte) /\ Len(w) = H + q + size
      /\ \A i \in 1 .. H : w[i] = h[i]
      /\ \A i \in 1 .. q : w[H + i] = t[i]
      /\ \A i \in 1 .. size : w[H + q + i] = x[i]
      BY WrittenIs DEF IsWritten
<1>2. q \in Nat \ {0}
      BY PrefixIsShort
<1>3. IsLengthPrefix(t, size, q) /\ size < Power(Half, q)
      BY PrefixIs, PrefixFits
<1>4. /\ h \in [1 .. H -> Byte] /\ x \in [1 .. size -> Byte]
      /\ b = [header |-> h, transactions |-> x]
      BY DEF Sized
<1>5. EncodeSize(b) = H + q + size
      BY <1>4 DEF EncodeSize
<1>6. /\ s \in Seq(Byte) /\ Len(s) = l
      /\ \A i \in 1 .. l : i <= H + q + size => s[i] = w[i]
      BY <1>1, <1>2 DEF IsStart, At
<1>7. ReadBlock(s) =
          IF \/ Len(s) < H
             \/ length = Err
             \/ length[1].value > Limit
             \/ Len(rest) < last
          THEN Err
          ELSE Ok([block |-> [header |-> SubSeq(s, 1, H),
                              transactions |-> SubSeq(rest, first, last)],
                   taken |-> H + last])
      BY Zenon DEF ReadBlock
<1> HIDE DEF h, t, q, x, w
<1>8. CASE l < H
      BY <1>2, <1>5, <1>6, <1>7, <1>8
<1>9. CASE ~(l < H)
  <2>1. /\ rest \in Seq(Byte) /\ Len(rest) = l - H
        /\ \A i \in 1 .. l - H : rest[i] = s[H + i]
    <3>1. rest = [i \in 1 .. l - H |-> s[H + i]]
          BY <1>6, <1>9
    <3>2. \A i \in 1 .. l - H : s[H + i] \in Byte
          BY <1>6, <1>9
    <3>3. l - H \in Nat
          BY <1>9
    <3> HIDE DEF rest
    <3> QED BY <3>1, <3>2, <3>3
  <2> HIDE DEF rest
  <2>2. StartsWith(rest, t, q)
    <3>1. ASSUME NEW i \in 1 .. l - H, i <= q PROVE rest[i] = t[i]
      <4>1. H + i \in 1 .. l /\ H + i <= H + q + size /\ i \in 1 .. q
            BY <1>2, <3>1
      <4> QED BY <1>1, <1>6, <2>1, <4>1
    <3> QED BY <2>1, <3>1 DEF StartsWith
  <2>3. length = IF l - H < q THEN Err ELSE Ok([size |-> q, value |-> size])
        BY <1>2, <1>3, <2>1, <2>2, PrefixRead
  <2>4. CASE l - H < q
        BY <1>2, <1>5, <1>7, <2>3, <2>4
  <2>5. CASE ~(l - H < q)
    <3>1. /\ length # Err /\ first = q + 1 /\ last = q + size /\ length[1].value = size
      <4>1. length = <<[size |-> q, value |-> size]>>
            BY <2>3, <2>5 DEF Ok
      <4> HIDE DEF length
      <4> QED BY <4>1 DEF Err
    <3> HIDE DEF length, first, last
    <3>2. CASE l < H + q + size \/ size > Limit
          BY <1>2, <1>5, <1>7, <2>1, <3>1, <3>2
    <3>3. CASE ~(l < H + q + size \/ size > Limit)
      <4>1. ReadBlock(s) = Ok([block |-> [header |-> SubSeq(s, 1, H),
                                          transactions |-> SubSeq(rest, q + 1, q + size)],
                               taken |-> H + (q + size)])
        <5>1. ~(Len(s) < H) /\ ~(Len(rest) < last) /\ ~(size > Limit)
              BY <1>2, <1>6, <1>9, <2>1, <3>1, <3>3
        <5> QED BY <1>7, <3>1, <5>1
      <4>2. SubSeq(s, 1, H) = h
        <5>1. SubSeq(s, 1, H) = [i \in 1 .. H |-> s[i]]
              BY <1>6, <1>9
        <5>2. \A i \in 1 .. H : s[i] = h[i]
              BY <1>1, <1>2, <1>6, <1>9
        <5> QED BY <1>4, <5>1, <5>2
      <4>3. SubSeq(rest, q + 1, q + size) = x
        <5>1. SubSeq(rest, q + 1, q + size) = [i \in 1 .. size |-> rest[q + i]]
              BY <1>2
        <5>2. ASSUME NEW i \in 1 .. size PROVE rest[q + i] = x[i]
          <6>1. /\ q + i \in 1 .. l - H /\ H + (q + i) \in 1 .. l
                /\ H + (q + i) <= H + q + size /\ H + (q + i) = H + q + i
                BY <1>2, <3>3
          <6> QED BY <1>1, <1>6, <2>1, <6>1
        <5> QED BY <1>4, <5>1, <5>2
      <4>4. H + (q + size) = H + q + size
            BY <1>2
      <4> QED BY <1>4, <1>5, <3>3, <4>1, <4>2, <4>3, <4>4
    <3> QED BY <3>2, <3>3
  <2> QED BY <2>4, <2>5
<1> QED BY <1>8, <1>9

\* What from_chunks makes of a block's chunks and any length.
LEMMA ChunksRead ==
    ASSUME NEW size \in Nat, size < HalfPowers[4], NEW b \in Sized(size), NEW m \in Nat \ {0},
           NEW cs, IsChunked(cs, Write(b), m), NEW len \in Nat
    PROVE  FromChunks(cs, len) =
               IF len > (N * m) * DataBytes \/ len < EncodeSize(b) \/ size > Limit THEN Err ELSE Ok(b)
<1> USE ChunksAssumption, PackingAssumption
<1> DEFINE w == Write(b)
           top == (N * m) * DataBytes
           bytes == FieldElementsToBytes(FlattenSeq(cs))
           s == SubSeq(bytes, 1, len)
           read == ReadBlock(s)
<1>1. w \in Seq(Byte) /\ w # <<>>
  <2>1. w \in Seq(Byte) /\ Len(w) = HeaderBytes + PrefixBytes(size) + size
        BY WrittenIs DEF IsWritten
  <2> HIDE DEF w
  <2> QED BY <2>1, PrefixIsShort, CodecAssumption
<1>2. bytes = Padded(w, top)
  <2> HIDE DEF w
  <2> QED BY <1>1, BytesBack DEF w
<1>3. top \in Nat
      OBVIOUS
<1>4. Len(cs) = N
      BY DEF IsChunked
<1>5. FromChunks(cs, len) = IF Len(cs) # N \/ len > Len(bytes) \/ read = Err THEN Err ELSE Ok(read[1].block)
      BY Zenon DEF FromChunks
<1> HIDE DEF bytes, top, w
<1>6. Len(bytes) = top
      BY <1>2, <1>3 DEF Padded
<1>7. CASE len > top
      BY <1>5, <1>6, <1>7 DEF top
<1>8. CASE ~(len > top)
  <2>1. IsStart(s, w, len)
    <3>1. s = [i \in 1 .. len |-> At(w, i)]
          BY <1>2, <1>3, <1>6, <1>8 DEF Padded
    <3>2. \A i \in 1 .. len : At(w, i) \in Byte
      <4>1. 0 \in Byte
            BY DEF Byte
      <4> QED BY <1>1, <4>1 DEF At
    <3> HIDE DEF s
    <3> QED BY <3>1, <3>2 DEF IsStart
  <2> HIDE DEF s
  <2>2. read = IF len < EncodeSize(b) \/ size > Limit THEN Err
               ELSE Ok([block |-> b, taken |-> EncodeSize(b)])
        BY <2>1, WrittenIsRead DEF w
  <2> HIDE DEF read
  <2>3. CASE len < EncodeSize(b) \/ size > Limit
        BY <1>5, <2>2, <2>3
  <2>4. CASE ~(len < EncodeSize(b) \/ size > Limit)
    <3>1. read # Err /\ read[1].block = b
          BY <2>2, <2>4 DEF Ok, Err
    <3> QED BY <1>4, <1>5, <1>6, <1>8, <2>4, <3>1 DEF top
  <2> QED BY <2>3, <2>4
<1> QED BY <1>7, <1>8 DEF top

---------------------------------------------------------------------------
\* Splitting.

LEMMA WriteLength ==
    ASSUME NEW size \in Nat, NEW b \in Sized(size)
    PROVE  /\ Len(Write(b)) = EncodeSize(b) /\ EncodeSize(b) \in Nat \ {0}
           /\ EncodeSize(b) <= size + Slack
           /\ Write(b) # <<>>
<1>1. Write(b) \in Seq(Byte) /\ Len(Write(b)) = HeaderBytes + PrefixBytes(size) + size
    BY WrittenIs DEF IsWritten
<1>2. EncodeSize(b) = HeaderBytes + PrefixBytes(size) + size
    BY DEF EncodeSize, Sized
<1>3. PrefixBytes(size) \in 1 .. 4
    BY PrefixIsShort
<1> DEFINE w == Write(b)   q == PrefixBytes(size)
<1> HIDE DEF w, q
<1>4. Len(w) # 0
    BY <1>1, <1>3, CodecAssumption DEF w, q
<1>5. w # <<>>
    BY <1>4
<1> QED BY <1>1, <1>2, <1>3, <1>5, CodecAssumption DEF w

\* A block of the configured size is split, into chunks with room for all its bytes.
LEMMA Fits ==
    ASSUME NEW size \in Nat, NEW b \in Sized(size)
    PROVE  /\ ComputeM(size, N) \in Nat \ {0}
           /\ EncodeSize(b) <= (N * ComputeM(size, N)) * DataBytes
           /\ \E cs : /\ AsChunks(b, ComputeM(size, N)) = Ok(cs)
                      /\ IsChunked(cs, Write(b), ComputeM(size, N))
<1> USE ChunksAssumption, PackingAssumption
<1> DEFINE m == ComputeM(size, N)
           elements == BytesToFieldElements(Write(b))
           bytes == EncodeSize(b)
           cs == [k \in 1 .. N |-> [j \in 1 .. m |-> Element(Write(b), (k - 1) * m + j)]]
<1>1. /\ Len(Write(b)) = bytes /\ bytes \in Nat \ {0} /\ bytes <= size + Slack
      /\ Write(b) # <<>>
    BY WriteLength
<1>2. Len(elements) = CeilDiv(bytes, DataBytes)
    BY <1>1, ElementCount
<1>3. m \in Nat /\ CeilDiv(bytes, DataBytes) <= N * m /\ bytes <= (N * m) * DataBytes
    BY <1>1, Capacity
<1> HIDE DEF m, bytes
<1>4. m # 0
  <2>1. SUFFICES ASSUME m = 0 PROVE FALSE
      OBVIOUS
  <2>2. N * m = 0 /\ 0 * DataBytes = 0
      BY <2>1
  <2>3. (N * m) * DataBytes = 0
      BY <2>2
  <2> QED BY <1>1, <1>3, <2>3
<1>5. ~(Len(elements) > N * m \/ m = 0)
  <2>1. CeilDiv(bytes, DataBytes) \in Nat /\ N * m \in Nat
      BY <1>1, <1>3, CeilDivCovers
  <2> HIDE DEF elements
  <2> QED BY <1>2, <1>3, <1>4, <2>1
<1>6. AsChunks(b, m) = Ok(cs)
    BY <1>5, Zenon DEF AsChunks, Element
<1>7. IsChunked(cs, Write(b), m)
    BY Zenon DEF IsChunked
<1> HIDE DEF cs
<1> QED BY <1>3, <1>4, <1>6, <1>7 DEF m, bytes

---------------------------------------------------------------------------
\* What the chunks and the bytes of a block are used for.

\* A number of n digits is below the n-th power of the base.
LEMMA NumberBelow ==
    ASSUME NEW b \in Nat \ {0}, NEW n \in Nat, NEW w \in [1 .. n -> 0 .. b - 1]
    PROVE  Number(b, w) \in Nat /\ Number(b, w) < Power(b, n)
<1>1. w \in [1 .. n -> Nat] /\ b \in Nat /\ n \in 0 .. n
      OBVIOUS
<1>2. PICK c : IsPrefixes(c, b, w, n) /\ c[n] = Number(b, w)
      BY <1>1, NumberChain
<1>3. c[0] = 0 /\ c[n] \in Nat
      BY <1>1, <1>2 DEF IsPrefixes
<1>4. c[n] \div Power(b, n) = c[n - n]
      BY <1>1, <1>2, DigitsOff
<1>5. Power(b, n) \in Nat \ {0} /\ n - n = 0
  <2>1. Power(b, n) \in Nat \ {0}
        BY Powers
  <2> QED BY <2>1
<1> DEFINE x == c[n]   p == Power(b, n)
<1>6. x \in Nat /\ p \in Nat \ {0} /\ x \div p = 0
      BY <1>3, <1>4, <1>5
<1> HIDE DEF x, p
<1>7. x < p * (x \div p) + p /\ p * 0 = 0
      BY <1>6, DivBounds
<1>8. x < p
      BY <1>6, <1>7
<1> QED BY <1>2, <1>6, <1>8 DEF x, p

\* A window is a field element, since it has a byte less than the prime.
LEMMA ElementIsField ==
    ASSUME NEW data \in Seq(Byte), data # <<>>, NEW i \in Nat \ {0}
    PROVE  Element(data, i) \in Field
<1> DEFINE n == Len(BytesToFieldElements(data))
<1>1. P \in Nat
      BY PrimeAssumption
<1>2. CASE i <= n
  <2>1. i \in 1 .. n
    <3>1. Len(data) \in Nat
          OBVIOUS
    <3>2. n = CeilDiv(Len(data), DataBytes)
          BY <3>1, ElementCount
    <3>3. n \in Nat
          BY <3>1, <3>2, CeilDivCovers, PackingAssumption
    <3> HIDE DEF n
    <3> QED BY <1>2, <3>3
  <2>2. PICK w : IsWindow(w, data, i) /\ BytesToFieldElements(data)[i] = Number(Base, w)
        BY <2>1, WindowOf
  <2>3. w \in [1 .. DataBytes -> 0 .. Base - 1] /\ Base \in Nat \ {0} /\ DataBytes \in Nat
        BY <2>2, PackingAssumption DEF IsWindow, Byte
  <2>4. Number(Base, w) \in Nat /\ Number(Base, w) < Power(Base, DataBytes)
        BY <2>3, NumberBelow
  <2>5. Power(Base, DataBytes) <= P /\ Power(Base, DataBytes) \in Nat
        BY <2>3, PackingAssumption, Powers
  <2>6. Element(data, i) = Number(Base, w)
        BY <1>2, <2>2 DEF Element
  <2> DEFINE x == Number(Base, w)   p == Power(Base, DataBytes)
  <2> HIDE DEF x, p
  <2>7. x \in Nat /\ x < p /\ p <= P /\ p \in Nat
        BY <2>4, <2>5 DEF x, p
  <2>8. x \in 0 .. P - 1
        BY <1>1, <2>7
  <2> QED BY <2>6, <2>8 DEF Field, x
<1>3. CASE ~(i <= n)
  <2>1. Element(data, i) = 0
        BY <1>3 DEF Element
  <2> QED BY <2>1, InField
<1> QED BY <1>2, <1>3

\* Chunks are vectors over the field.
LEMMA ChunkedIs ==
    ASSUME NEW data \in Seq(Byte), data # <<>>, NEW m \in Nat, NEW cs, IsChunked(cs, data, m)
    PROVE  cs \in [1 .. N -> Vec(m)]
<1>1. ASSUME NEW k \in 1 .. N, NEW j \in 1 .. m PROVE Element(data, (k - 1) * m + j) \in Field
  <2>1. k - 1 \in Nat /\ j \in Nat \ {0}
        BY ChunksAssumption
  <2>2. (k - 1) * m \in Nat
        BY <2>1
  <2>3. (k - 1) * m + j \in Nat \ {0}
        BY <2>1, <2>2
  <2> QED BY <2>3, ElementIsField
<1> QED BY <1>1 DEF IsChunked, Vec

\* A serialised block is read back, all of it and nothing more.
LEMMA WriteRead ==
    ASSUME NEW size \in Nat, size < HalfPowers[4], size <= Limit, NEW b \in Sized(size)
    PROVE  ReadBlock(Write(b)) = Ok([block |-> b, taken |-> Len(Write(b))])
<1>1. Len(Write(b)) = EncodeSize(b) /\ EncodeSize(b) \in Nat \ {0}
      BY WriteLength
<1>2. IsStart(Write(b), Write(b), EncodeSize(b))
  <2>1. Write(b) \in Seq(Byte)
        BY WrittenIs DEF IsWritten
  <2> QED BY <1>1, <2>1 DEF IsStart, At
<1> DEFINE l == EncodeSize(b)   s == Write(b)
<1>3. IsStart(s, Write(b), l) /\ l \in Nat
      BY <1>1, <1>2
<1> HIDE DEF l, s
<1>4. ReadBlock(s) = IF l < EncodeSize(b) \/ size > Limit THEN Err
                     ELSE Ok([block |-> b, taken |-> EncodeSize(b)])
      BY <1>3, WrittenIsRead
<1>5. ~(l < EncodeSize(b)) /\ ~(size > Limit)
      BY <1>1, CodecAssumption DEF l
<1> QED BY <1>1, <1>4, <1>5 DEF s
=============================================================================
