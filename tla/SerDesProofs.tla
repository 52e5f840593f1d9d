--------------------------- MODULE SerDesProofs ---------------------------
(***************************************************************************)
(* Theorems about SerDes, for any even number of values of a byte, any      *)
(* wider JSON integer, any length of a binary item and any formats.         *)
(***************************************************************************)
EXTENDS SerDes, SequenceTheorems, WellFoundedInduction, NaturalsInduction, TLAPS

---------------------------------------------------------------------------
(* Recursive definitions.                                                  *)

\* A set of naturals has a least one.
LEMMA LeastNat ==
    ASSUME NEW T, T \subseteq Nat, T # {}
    PROVE  \E x \in T : \A y \in T : x <= y
<1>1. PICK x \in T : \A y \in T : ~ (<<y, x>> \in OpToRel(<, Nat))
  BY WFMin, NatLessThanWellFounded
<1>2. \A y \in T : ~ (y < x)
  BY <1>1 DEF OpToRel
<1> QED BY <1>2

\* Induction up to n: a set with 0 in it and with every number its predecessor
\* is in holds all of them.
LEMMA InductionUpTo ==
    ASSUME NEW n \in Nat, NEW S, 0 \in S,
           \A k \in 1 .. n : k - 1 \in S => k \in S
    PROVE  \A k \in 0 .. n : k \in S
<1> DEFINE T == (0 .. n) \ S
<1>1. SUFFICES ASSUME T # {} PROVE FALSE
  OBVIOUS
<1>2. PICK k \in T : \A y \in T : k <= y
  <2>1. T \subseteq Nat
    OBVIOUS
  <2> QED BY <1>1, <2>1, LeastNat
<1>3. k \in 1 .. n /\ k - 1 \in 0 .. n
  OBVIOUS
<1>4. k - 1 \notin T
  BY <1>2, <1>3
<1> QED BY <1>3, <1>4

\* A function defined by recursion on 0 .. n exists.
LEMMA Recursion ==
    ASSUME NEW n \in Nat, NEW a \in Nat, NEW step \in [(1 .. n) \X Nat -> Nat]
    PROVE  \E s \in [0 .. n -> Nat] :
              s[0] = a /\ \A k \in 1 .. n : s[k] = step[<<k, s[k - 1]>>]
<1> DEFINE Follows(s, m) == \A k \in 1 .. m : s[k] = step[<<k, s[k - 1]>>]
           S == {m \in 0 .. n : \E s \in [0 .. n -> Nat] : s[0] = a /\ Follows(s, m)}
<1>1. 0 \in S
  <2> DEFINE s == [k \in 0 .. n |-> a]
  <2>1. s \in [0 .. n -> Nat] /\ s[0] = a /\ 0 \in 0 .. n
    OBVIOUS
  <2>2. Follows(s, 0)
    OBVIOUS
  <2> HIDE DEF Follows, s
  <2> QED BY <2>1, <2>2
<1>2. ASSUME NEW m \in 1 .. n, m - 1 \in S PROVE m \in S
  <2>1. PICK s \in [0 .. n -> Nat] : s[0] = a /\ Follows(s, m - 1)
    BY <1>2
  <2>2. s[m - 1] \in Nat /\ step[<<m, s[m - 1]>>] \in Nat
    OBVIOUS
  <2> DEFINE t == [s EXCEPT ![m] = step[<<m, s[m - 1]>>]]
  <2>3. t \in [0 .. n -> Nat] /\ t[0] = a
    BY <2>1, <2>2
  <2>4. ASSUME NEW k \in 1 .. m PROVE t[k] = step[<<k, t[k - 1]>>]
    <3>1. t[k - 1] = s[k - 1] /\ k \in 0 .. n /\ k - 1 \in 0 .. n
      OBVIOUS
    <3>2. CASE k = m
      BY <3>1, <3>2
    <3>3. CASE k # m
      <4>1. k \in 1 .. m - 1
        BY <3>3
      <4>2. t[k] = s[k]
        BY <3>1, <3>3
      <4> QED BY <2>1, <3>1, <4>1, <4>2
    <3> QED BY <3>2, <3>3
  <2>5. Follows(t, m)
    BY <2>4
  <2>6. m \in 0 .. n
    OBVIOUS
  <2> HIDE DEF Follows, t
  <2> QED BY <2>3, <2>5, <2>6
<1>3. n \in S
  <2> HIDE DEF S
  <2>1. \A k \in 0 .. n : k \in S
    BY <1>1, <1>2, InductionUpTo
  <2> QED BY <2>1
<1> QED BY <1>3

\* The smaller of two naturals.
LEMMA MinOfTwo ==
    ASSUME NEW a \in Nat, NEW b \in Nat
    PROVE  Min({a, b}) = IF a <= b THEN a ELSE b
BY DEF Min

\* The largest of a set of numbers that is not empty and bounded.
LEMMA MaxFound ==
    ASSUME NEW n \in Nat, NEW T, T \subseteq 1 .. n, T # {}
    PROVE  Max(T) \in T /\ \A y \in T : y <= Max(T)
<1> DEFINE U == {n - y : y \in T}
<1>1. U \subseteq Nat /\ U # {}
  OBVIOUS
<1>2. PICK u \in U : \A v \in U : u <= v
  BY <1>1, LeastNat
<1>3. PICK x \in T : u = n - x
  OBVIOUS
<1>4. ASSUME NEW y \in T PROVE y <= x
  <2>1. u <= n - y
    BY <1>2
  <2> QED BY <1>3, <2>1
<1>5. \E z \in T : \A y \in T : y <= z
  BY <1>4
<1> QED BY <1>5 DEF Max

---------------------------------------------------------------------------
(* Integers and their bytes.                                               *)

\* Pow is what its recursive definition says.
LEMMA PowDef ==
    /\ Pow \in [0 .. JsonBytes -> Nat]
    /\ Pow[0] = 1
    /\ \A k \in 1 .. JsonBytes : Pow[k] = Base * Pow[k - 1]
<1> DEFINE step == [p \in (1 .. JsonBytes) \X Nat |-> Base * p[2]]
           body(s) == [k \in 0 .. JsonBytes |-> IF k = 0 THEN 1 ELSE Base * s[k - 1]]
           pow == CHOOSE s : s = body(s)
<1>1. step \in [(1 .. JsonBytes) \X Nat -> Nat]
  <2>1. \A x \in Nat : Base * x \in Nat
    BY BaseAssumption
  <2> QED BY <2>1
<1>2. PICK f \in [0 .. JsonBytes -> Nat] :
        f[0] = 1 /\ \A k \in 1 .. JsonBytes : f[k] = step[<<k, f[k - 1]>>]
  <2>1. 1 \in Nat /\ JsonBytes \in Nat
    BY BaseAssumption
  <2> HIDE DEF step
  <2> QED BY <1>1, <2>1, Recursion, Zenon
<1>3. ASSUME NEW k \in 1 .. JsonBytes PROVE f[k] = Base * f[k - 1]
  <2>1. k - 1 \in 0 .. JsonBytes
    BY BaseAssumption
  <2>2. <<k, f[k - 1]>> \in (1 .. JsonBytes) \X Nat
    BY <2>1
  <2>3. step[<<k, f[k - 1]>>] = Base * f[k - 1]
    BY <2>2
  <2> QED BY <1>2, <2>3
<1>4. f = body(f)
  BY <1>2, <1>3
<1>5. pow = body(pow)
  <2> HIDE DEF body
  <2> QED BY <1>4
<1>6. Pow = pow
  BY DEF Pow
<1> HIDE DEF pow
<1>7. pow[0] = 1 /\ \A k \in 1 .. JsonBytes : pow[k] = Base * pow[k - 1]
  BY <1>5, BaseAssumption
<1>8. pow \in [0 .. JsonBytes -> Nat]
  <2> DEFINE S == {k \in 0 .. JsonBytes : pow[k] \in Nat}
  <2>1. 0 \in S
    BY <1>7, BaseAssumption
  <2>2. ASSUME NEW k \in 1 .. JsonBytes, k - 1 \in S PROVE k \in S
    BY <1>7, <2>2, BaseAssumption
  <2>3. \A k \in 0 .. JsonBytes : k \in S
    <3> HIDE DEF S
    <3> QED BY <2>1, <2>2, InductionUpTo, BaseAssumption
  <2> QED BY <2>3, <1>5
<1> QED BY <1>6, <1>7, <1>8

\* A power is positive.
LEMMA PowPositive == \A k \in 0 .. JsonBytes : Pow[k] \in Nat \ {0}
<1> DEFINE S == {k \in 0 .. JsonBytes : Pow[k] # 0}
<1>1. 0 \in S
  BY PowDef, BaseAssumption
<1>2. ASSUME NEW k \in 1 .. JsonBytes, k - 1 \in S PROVE k \in S
  <2>1. Pow[k] = Base * Pow[k - 1] /\ Pow[k - 1] \in Nat \ {0}
    BY <1>2, PowDef, BaseAssumption
  <2>2. Base * Pow[k - 1] # 0
    BY <2>1, BaseAssumption
  <2> QED BY <2>1, <2>2, BaseAssumption
<1>3. \A k \in 0 .. JsonBytes : k \in S
  <2> HIDE DEF S
  <2> QED BY <1>1, <1>2, InductionUpTo, BaseAssumption
<1> QED BY <1>3, PowDef

\* The product of two naturals that are not 0 is at least either.
LEMMA ProductGrows ==
    ASSUME NEW a \in Nat \ {0}, NEW b \in Nat \ {0}
    PROVE  a * b \in Nat \ {0} /\ a * b >= b
OBVIOUS

\* One factor less is one p less.
LEMMA OneLess ==
    ASSUME NEW a \in Nat, NEW p \in Nat
    PROVE  (a - 1) * p = a * p - p
OBVIOUS

\* Quotient and remainder.
LEMMA DivMod ==
    ASSUME NEW u \in Int, NEW m \in Nat \ {0}
    PROVE  /\ u \div m \in Int
           /\ u % m \in 0 .. m - 1
           /\ u = m * (u \div m) + (u % m)
OBVIOUS

\* The remainder is the only number in its range that the dividend exceeds by a
\* multiple of the divisor.
LEMMA ModUnique ==
    ASSUME NEW m \in Nat \ {0}, NEW q \in Int, NEW r \in 0 .. m - 1
    PROVE  (m * q + r) % m = r
<1> DEFINE u == m * q + r
           p == u \div m
<1>1. u \in Int /\ p \in Int /\ u % m \in 0 .. m - 1 /\ u = m * p + (u % m)
  BY DivMod
<1> HIDE DEF p
<1>2. m * (p - q) = r - (u % m)
  BY <1>1
<1>3. m * (p - q) < m /\ m * (p - q) > - m
  BY <1>1, <1>2
<1>4. p - q = 0
  <2>1. CASE p - q >= 1
    BY <1>1, <1>3, <2>1
  <2>2. CASE p - q <= -1
    BY <1>1, <1>3, <2>2
  <2> QED BY <1>1, <2>1, <2>2
<1> QED BY <1>1, <1>2, <1>4

\* One byte more: the remainder modulo Base times p has the byte at p above the
\* remainder modulo p.
LEMMA DigitStep ==
    ASSUME NEW u \in Nat, NEW p \in Nat \ {0}
    PROVE  u % (Base * p) = (u % p) + ((u \div p) % Base) * p
<1> DEFINE q == u \div p
           r == u % p
           a == q \div Base
           d == q % Base
<1>1. q \in Int /\ r \in 0 .. p - 1 /\ u = p * q + r
  BY DivMod
<1> HIDE DEF q, r
<1>2. a \in Int /\ d \in 0 .. Base - 1 /\ q = Base * a + d
  BY <1>1, DivMod, BaseAssumption
<1> HIDE DEF a, d
<1>3. u = (Base * p) * a + (d * p + r)
  <2>1. p * (Base * a + d) = (Base * p) * a + d * p
    BY <1>1, <1>2, BaseAssumption
  <2>2. p * q = (Base * p) * a + d * p
    BY <1>2, <2>1, Zenon
  <2>3. (Base * p) * a \in Int /\ d * p \in Int /\ p * q \in Int
    BY <1>1, <1>2, BaseAssumption
  <2> QED BY <1>1, <2>2, <2>3
<1>4. d * p + r \in 0 .. Base * p - 1
  <2>1. d * p <= (Base - 1) * p /\ d * p >= 0
    BY <1>2, BaseAssumption
  <2>2. (Base - 1) * p = Base * p - p
    BY OneLess, BaseAssumption
  <2>3. d * p \in Int /\ Base * p \in Int
    BY <1>2, BaseAssumption
  <2> QED BY <1>1, <2>1, <2>2, <2>3
<1>5. Base * p \in Nat \ {0}
  BY ProductGrows, BaseAssumption
<1>6. u % (Base * p) = d * p + r
  BY <1>2, <1>3, <1>4, <1>5, ModUnique
<1> QED BY <1>1, <1>2, <1>6 DEF q, r, a, d

\* A function on 1 .. n is a sequence of length n.
LEMMA LenOf ==
    ASSUME NEW S, NEW n \in Nat, NEW b \in [1 .. n -> S]
    PROVE  b \in Seq(S) /\ Len(b) = n
OBVIOUS

\* Decode sums up the bytes, each with its power.
LEMMA DecodeDef ==
    ASSUME NEW n \in 0 .. JsonBytes, NEW b \in [1 .. n -> Nat]
    PROVE  \E s \in [0 .. n -> Nat] :
              /\ s[0] = 0
              /\ \A k \in 1 .. n : s[k] = s[k - 1] + b[k] * Pow[k - 1]
              /\ Decode(b) = s[n]
<1> DEFINE step == [p \in (1 .. n) \X Nat |-> p[2] + b[p[1]] * Pow[p[1] - 1]]
           body(s) == [k \in 0 .. n |->
                          IF k = 0 THEN 0 ELSE s[k - 1] + b[k] * Pow[k - 1]]
           sum == CHOOSE s : s = body(s)
<1>1. n \in Nat /\ Len(b) = n
  BY LenOf, BaseAssumption
<1>2. \A k \in 1 .. n : b[k] * Pow[k - 1] \in Nat
  <2> TAKE k \in 1 .. n
  <2>1. k - 1 \in 0 .. JsonBytes
    BY BaseAssumption
  <2>2. b[k] \in Nat /\ Pow[k - 1] \in Nat
    BY <2>1, PowDef
  <2> QED BY <2>2
<1>3. step \in [(1 .. n) \X Nat -> Nat]
  BY <1>2
<1>4. PICK f \in [0 .. n -> Nat] :
        f[0] = 0 /\ \A k \in 1 .. n : f[k] = step[<<k, f[k - 1]>>]
  <2>1. 0 \in Nat
    OBVIOUS
  <2>2. \A t \in [(1 .. n) \X Nat -> Nat] : \E g \in [0 .. n -> Nat] :
            g[0] = 0 /\ \A k \in 1 .. n : g[k] = t[<<k, g[k - 1]>>]
    BY <1>1, <2>1, Recursion, Zenon
  <2> HIDE DEF step
  <2> QED BY <1>3, <2>2, Zenon
<1>5. ASSUME NEW k \in 1 .. n PROVE f[k] = f[k - 1] + b[k] * Pow[k - 1]
  <2>1. k - 1 \in 0 .. n
    BY <1>1
  <2>2. <<k, f[k - 1]>> \in (1 .. n) \X Nat
    BY <2>1
  <2>3. step[<<k, f[k - 1]>>] = f[k - 1] + b[k] * Pow[k - 1]
    BY <2>2
  <2> QED BY <1>4, <2>3
<1>6. f = body(f)
  BY <1>4, <1>5
<1>7. sum = body(sum)
  <2> HIDE DEF body
  <2> QED BY <1>6
<1>8. Decode(b) = sum[n]
  BY <1>1 DEF Decode
<1> HIDE DEF sum
<1>9. sum[0] = 0 /\ \A k \in 1 .. n : sum[k] = sum[k - 1] + b[k] * Pow[k - 1]
  BY <1>1, <1>7
<1>10. sum \in [0 .. n -> Nat]
  <2> DEFINE S == {k \in 0 .. n : sum[k] \in Nat}
  <2>1. 0 \in S
    BY <1>1, <1>9
  <2>2. ASSUME NEW k \in 1 .. n, k - 1 \in S PROVE k \in S
    <3>1. sum[k - 1] \in Nat /\ b[k] * Pow[k - 1] \in Nat
      BY <1>2, <2>2
    <3>2. sum[k] \in Nat
      BY <1>9, <3>1
    <3> QED BY <1>1, <3>2
  <2>3. \A k \in 0 .. n : k \in S
    <3> HIDE DEF S
    <3> QED BY <1>1, <2>1, <2>2, InductionUpTo
  <2> QED BY <2>3, <1>7
<1> QED BY <1>8, <1>9, <1>10

\* Encode makes n bytes.
LEMMA EncodeType ==
    ASSUME NEW v \in Int, NEW n \in 0 .. JsonBytes
    PROVE  /\ Encode(v, n) \in [1 .. n -> 0 .. Base - 1]
           /\ Encode(v, n) \in Seq(0 .. Base - 1)
           /\ Len(Encode(v, n)) = n
<1>1. v % Pow[n] \in Int
  BY PowPositive, DivMod
<1>2. ASSUME NEW k \in 1 .. n
      PROVE  ((v % Pow[n]) \div Pow[k - 1]) % Base \in 0 .. Base - 1
  <2>1. k - 1 \in 0 .. JsonBytes
    BY BaseAssumption
  <2>2. (v % Pow[n]) \div Pow[k - 1] \in Int
    BY <1>1, <2>1, PowPositive, DivMod
  <2> QED BY <2>2, DivMod, BaseAssumption
<1>3. Encode(v, n) \in [1 .. n -> 0 .. Base - 1]
  BY <1>2 DEF Encode
<1> QED BY <1>3, LenOf, BaseAssumption

\* The bytes of an integer stand for it, modulo what fits.
LEMMA RoundTrip ==
    ASSUME NEW v \in Int, NEW n \in 0 .. JsonBytes
    PROVE  Decode(Encode(v, n)) = v % Pow[n]
<1> DEFINE b == Encode(v, n)
           u == v % Pow[n]
<1>1. n \in Nat /\ Pow[n] \in Nat \ {0}
  BY PowPositive, BaseAssumption
<1>2. u \in Nat /\ u \in 0 .. Pow[n] - 1
  <2>1. u \in 0 .. Pow[n] - 1
    BY <1>1, DivMod
  <2> QED BY <1>1, <2>1
<1>3. b \in [1 .. n -> Nat]
  <2>1. b \in [1 .. n -> 0 .. Base - 1]
    BY EncodeType
  <2> QED BY <2>1, BaseAssumption
<1>4. PICK s \in [0 .. n -> Nat] :
        /\ s[0] = 0
        /\ \A k \in 1 .. n : s[k] = s[k - 1] + b[k] * Pow[k - 1]
        /\ Decode(b) = s[n]
  <2> HIDE DEF b
  <2> QED BY <1>3, DecodeDef
<1>5. \A k \in 1 .. n : b[k] = (u \div Pow[k - 1]) % Base
  BY DEF Encode
<1> HIDE DEF b, u
<1> DEFINE S == {k \in 0 .. n : s[k] = u % Pow[k]}
<1>6. 0 \in S
  <2>1. u = 1 * u + 0
    BY <1>2
  <2>2. u % 1 = 0
    BY <1>2, DivMod
  <2> QED BY <1>1, <1>4, <2>2, PowDef
<1>7. ASSUME NEW k \in 1 .. n, k - 1 \in S PROVE k \in S
  <2>1. k - 1 \in 0 .. JsonBytes /\ k \in 1 .. JsonBytes /\ k \in 0 .. n
    BY BaseAssumption
  <2>2. Pow[k - 1] \in Nat \ {0} /\ Pow[k] = Base * Pow[k - 1]
    BY <2>1, PowPositive, PowDef
  <2>3. u % Pow[k] = (u % Pow[k - 1]) + ((u \div Pow[k - 1]) % Base) * Pow[k - 1]
    BY <1>2, <2>2, DigitStep
  <2>4. s[k] = (u % Pow[k - 1]) + b[k] * Pow[k - 1]
    BY <1>4, <1>7
  <2> QED BY <1>5, <2>1, <2>3, <2>4
<1>8. n \in S
  <2> HIDE DEF S
  <2>1. \A k \in 0 .. n : k \in S
    BY <1>1, <1>6, <1>7, InductionUpTo
  <2> QED BY <1>1, <2>1
<1>9. u % Pow[n] = u
  <2>1. (Pow[n] * 0 + u) % Pow[n] = u
    <3>1. 0 \in Int
      OBVIOUS
    <3> QED BY <1>1, <1>2, <3>1, ModUnique
  <2>2. Pow[n] * 0 + u = u
    BY <1>1, <1>2
  <2> QED BY <2>1, <2>2
<1> QED BY <1>4, <1>8, <1>9 DEF b, u

\* A power but the first is even.
LEMMA PowEven ==
    ASSUME NEW n \in 1 .. JsonBytes
    PROVE  Pow[n] \div 2 \in Nat \ {0} /\ Pow[n] = 2 * (Pow[n] \div 2)
<1> DEFINE h == (Base \div 2) * Pow[n - 1]
<1>1. Base \div 2 \in Nat \ {0} /\ Base = 2 * (Base \div 2)
  BY BaseAssumption
<1>2. Pow[n] = Base * Pow[n - 1] /\ Pow[n - 1] \in Nat \ {0}
  <2>1. n - 1 \in 0 .. JsonBytes
    BY BaseAssumption
  <2> QED BY <2>1, PowDef, PowPositive
<1>3. h \in Nat \ {0}
  BY <1>1, <1>2
<1>4. Pow[n] = 2 * h
  <2>1. (2 * (Base \div 2)) * Pow[n - 1] = 2 * h
    BY <1>1, <1>2
  <2> QED BY <1>1, <1>2, <2>1, Zenon
<1>5. Pow[n] \div 2 = h
  <2> HIDE DEF h
  <2> QED BY <1>3, <1>4
<1> QED BY <1>3, <1>4, <1>5

\* No power exceeds that of the JSON integer, which is a multiple of Base.
LEMMA PowLargest ==
    /\ Pow[1] = Base
    /\ Pow[JsonBytes - 1] \in Nat \ {0}
    /\ Pow[JsonBytes] = Base * Pow[JsonBytes - 1]
    /\ Base <= Pow[JsonBytes]
<1>1. Pow[1] = Base
  <2>1. 1 \in 1 .. JsonBytes /\ 1 - 1 = 0
    BY BaseAssumption
  <2>2. Pow[1] = Base * Pow[0]
    BY <2>1, PowDef
  <2> QED BY <2>2, PowDef, BaseAssumption
<1>2. /\ Pow[JsonBytes - 1] \in Nat \ {0}
      /\ Pow[JsonBytes] = Base * Pow[JsonBytes - 1]
  BY PowDef, PowPositive, BaseAssumption
<1>3. Base \in Nat \ {0}
  BY BaseAssumption
<1>4. Base <= Base * Pow[JsonBytes - 1]
  BY <1>2, <1>3
<1> QED BY <1>1, <1>2, <1>4

\* What Signed makes of an integer that fits in n bytes.
LEMMA SignedRange ==
    ASSUME NEW n \in 1 .. JsonBytes, NEW u \in 0 .. Pow[n] - 1
    PROVE  Signed(u, n) \in -(Pow[n] \div 2) .. (Pow[n] \div 2) - 1
BY PowEven DEF Signed

\* Bytes stand for an integer that fits in them.
LEMMA DecodeRange ==
    ASSUME NEW n \in 0 .. JsonBytes, NEW b \in [1 .. n -> 0 .. Base - 1]
    PROVE  Decode(b) \in 0 .. Pow[n] - 1
<1>1. n \in Nat /\ b \in [1 .. n -> Nat]
  BY BaseAssumption
<1>2. PICK s \in [0 .. n -> Nat] :
        /\ s[0] = 0
        /\ \A k \in 1 .. n : s[k] = s[k - 1] + b[k] * Pow[k - 1]
        /\ Decode(b) = s[n]
  BY <1>1, DecodeDef
<1> DEFINE S == {k \in 0 .. n : s[k] < Pow[k]}
<1>3. 0 \in S
  BY <1>1, <1>2, PowDef
<1>4. ASSUME NEW k \in 1 .. n, k - 1 \in S PROVE k \in S
  <2>1. k - 1 \in 0 .. JsonBytes /\ k \in 1 .. JsonBytes /\ k \in 0 .. n
    BY BaseAssumption
  <2>2. Pow[k - 1] \in Nat \ {0} /\ Pow[k] = Base * Pow[k - 1]
    BY <2>1, PowPositive, PowDef
  <2>3. s[k - 1] \in Nat /\ s[k - 1] < Pow[k - 1] /\ b[k] \in 0 .. Base - 1
    BY <1>4
  <2>4. b[k] * Pow[k - 1] <= (Base - 1) * Pow[k - 1]
    BY <2>2, <2>3, BaseAssumption
  <2>5. (Base - 1) * Pow[k - 1] = Base * Pow[k - 1] - Pow[k - 1]
    BY <2>2, OneLess, BaseAssumption
  <2>6. b[k] * Pow[k - 1] \in Int /\ Base * Pow[k - 1] \in Int
    BY <2>2, <2>3, BaseAssumption
  <2>7. s[k - 1] + b[k] * Pow[k - 1] < Base * Pow[k - 1]
    BY <2>2, <2>3, <2>4, <2>5, <2>6
  <2> QED BY <1>2, <2>1, <2>2, <2>7
<1>5. n \in S
  <2> HIDE DEF S
  <2>1. \A k \in 0 .. n : k \in S
    BY <1>1, <1>3, <1>4, InductionUpTo
  <2> QED BY <1>1, <2>1
<1>6. s[n] \in Nat /\ s[n] < Pow[n] /\ Pow[n] \in Nat
  BY <1>1, <1>5, PowDef
<1> QED BY <1>2, <1>6

---------------------------------------------------------------------------
(* Formats.                                                                *)

\* A format, and an array of values, is a sequence.
LEMMA UpToSeq ==
    ASSUME NEW S, NEW f \in UpTo(S)
    PROVE  /\ Len(f) \in 0 .. MaxItems /\ Len(f) \in Nat
           /\ f \in [1 .. Len(f) -> S] /\ f \in Seq(S)
<1>1. PICK k \in 0 .. MaxItems : f \in [1 .. k -> S]
  BY DEF UpTo
<1>2. k \in Nat
  BY MaxItemsAssumption
<1> QED BY <1>1, <1>2, LenOf

\* Every item has room.
LEMMA BytesPositive == \A item : Bytes(item) \in Nat \ {0}
BY BaseAssumption, BinLenAssumption DEF Bytes

\* A number has the room of a byte or of a JSON integer.
LEMMA BytesNumeric ==
    ASSUME NEW item \in Numeric
    PROVE  /\ Bytes(item) \in {1, JsonBytes}
           /\ Bytes(item) \in 0 .. JsonBytes
           /\ item \in {"u8", "s8"} => Bytes(item) = 1
           /\ item \in {"u64", "s64"} => Bytes(item) = JsonBytes
BY BaseAssumption DEF Bytes, Numeric

\* Whatever bytes a number is made of, it is a JSON integer.
LEMMA FetchType ==
    ASSUME NEW item \in Numeric, NEW b \in [1 .. Bytes(item) -> 0 .. Base - 1]
    PROVE  Fetch(item, b) \in Ints
<1> DEFINE n == Bytes(item)
           u == Decode(b)
<1>1. n \in {1, JsonBytes} /\ n \in 1 .. JsonBytes /\ n \in 0 .. JsonBytes
  BY BytesNumeric, BaseAssumption
<1>2. Len(b) = n
  BY <1>1, LenOf, BaseAssumption
<1>3. u \in 0 .. Pow[n] - 1
  BY <1>1, DecodeRange
<1>4. /\ Pow[n] \in Nat /\ Pow[JsonBytes] \in Nat /\ Pow[n] <= Pow[JsonBytes]
      /\ Pow[n] = 2 * (Pow[n] \div 2) /\ Pow[n] \div 2 \in Nat
      /\ Pow[JsonBytes] = 2 * (Pow[JsonBytes] \div 2)
      /\ Pow[JsonBytes] \div 2 \in Nat
  <2>1. JsonBytes \in 1 .. JsonBytes /\ JsonBytes \in 0 .. JsonBytes
    BY BaseAssumption
  <2>2. Pow[n] <= Pow[JsonBytes]
    BY <1>1, <2>1, PowLargest, PowDef
  <2> QED BY <1>1, <2>1, <2>2, PowEven, PowDef
<1> HIDE DEF n, u
<1>5. Signed(u, n) \in Ints
  <2>1. Signed(u, n) \in -(Pow[n] \div 2) .. (Pow[n] \div 2) - 1
    BY <1>1, <1>3, SignedRange
  <2> QED BY <1>4, <2>1 DEF Ints
<1>6. Signed(u, JsonBytes) \in Ints
  <2>1. JsonBytes \in 1 .. JsonBytes /\ u \in 0 .. Pow[JsonBytes] - 1
    BY <1>3, <1>4, BaseAssumption
  <2>2. Signed(u, JsonBytes) \in
            -(Pow[JsonBytes] \div 2) .. (Pow[JsonBytes] \div 2) - 1
    BY <2>1, SignedRange
  <2> QED BY <1>4, <2>2 DEF Ints
<1> QED BY <1>2, <1>5, <1>6 DEF Fetch, u

\* Where the sign is that of the item.
LEMMA SignedRight ==
    ASSUME NEW n \in 1 .. JsonBytes, NEW v \in Int
    PROVE  LET r == Signed(v % Pow[n], n)
           IN  /\ r % Pow[n] = v % Pow[n]
               /\ v \in -(Pow[n] \div 2) .. Pow[n] \div 2 - 1 => r = v
<1> DEFINE p == Pow[n]
           h == Pow[n] \div 2
           q == v \div Pow[n]
           u == v % Pow[n]
           r == Signed(u, n)
<1>1. p \in Nat \ {0} /\ h \in Nat \ {0} /\ p = 2 * h
  BY PowEven
<1>2. q \in Int /\ u \in 0 .. p - 1 /\ v = p * q + u
  BY <1>1, DivMod
<1>3. r = IF 2 * u >= p THEN u - p ELSE u
  BY DEF Signed
<1> HIDE DEF p, h, q, u, r
<1>4. r % p = u
  <2>1. CASE 2 * u >= p
    <3>1. r = p * (-1) + u
      BY <1>1, <1>2, <1>3, <2>1
    <3>2. -1 \in Int
      OBVIOUS
    <3>3. (p * (-1) + u) % p = u
      BY <1>1, <1>2, <3>2, ModUnique
    <3> QED BY <3>1, <3>3
  <2>2. CASE ~ (2 * u >= p)
    <3>1. r = p * 0 + u
      BY <1>1, <1>2, <1>3, <2>2
    <3>2. 0 \in Int
      OBVIOUS
    <3>3. (p * 0 + u) % p = u
      BY <1>1, <1>2, <3>2, ModUnique
    <3> QED BY <3>1, <3>3
  <2> QED BY <2>1, <2>2
<1>5. ASSUME v \in -h .. h - 1 PROVE r = v
  <2>1. CASE q >= 1
    <3>1. p * q >= p
      BY <1>1, <1>2, <2>1
    <3>2. p * q \in Int
      BY <1>1, <1>2
    <3> QED BY <1>1, <1>2, <1>5, <3>1, <3>2
  <2>2. CASE q = 0
    <3>1. v = u
      BY <1>1, <1>2, <2>2
    <3> QED BY <1>1, <1>2, <1>3, <1>5, <3>1
  <2>3. CASE q = -1
    <3>1. v = u - p
      BY <1>1, <1>2, <2>3
    <3> QED BY <1>1, <1>2, <1>3, <1>5, <3>1
  <2>4. CASE q <= -2
    <3>1. p * q <= p * (-2)
      BY <1>1, <1>2, <2>4
    <3>2. p * q \in Int
      BY <1>1, <1>2
    <3> QED BY <1>1, <1>2, <1>5, <3>1, <3>2
  <2> QED BY <1>2, <2>1, <2>2, <2>3, <2>4
<1> QED BY <1>4, <1>5 DEF p, h, u, r

\* The type announced of a number, and its integers.
LEMMA AnnouncedType ==
    ASSUME NEW f, NEW j \in DOMAIN f, f[j] \in Item
    PROVE  /\ FormatToJson(f)[j] \in IntType <=> f[j] \in Numeric
           /\ f[j] = "u64" <=> FormatToJson(f)[j] = "uint64_t"
           /\ f[j] = "u8" => IntsOf(FormatToJson(f)[j]) = 0 .. Pow[1] - 1
           /\ f[j] = "u64" => IntsOf(FormatToJson(f)[j]) = 0 .. Pow[JsonBytes] - 1
           /\ f[j] = "s8" => IntsOf(FormatToJson(f)[j])
                               = -(Pow[1] \div 2) .. Pow[1] \div 2 - 1
           /\ f[j] = "s64" => IntsOf(FormatToJson(f)[j])
                               = -(Pow[JsonBytes] \div 2) .. Pow[JsonBytes] \div 2 - 1
<1> DEFINE t == FormatToJson(f)[j]
<1>1. /\ f[j] = "u8" => t = "uint8_t"
      /\ f[j] = "s8" => t = "int8_t"
      /\ f[j] = "u64" => t = "uint64_t"
      /\ f[j] = "s64" => t = "int64_t"
      /\ f[j] = "bin" => t = "binary"
      /\ f[j] = "buf" => t = "buffer"
  BY DEF FormatToJson
<1> HIDE DEF t
<1>2. t \in IntType <=> f[j] \in Numeric
  BY <1>1 DEF IntType, Item, Numeric
<1>3. f[j] = "u64" <=> t = "uint64_t"
  BY <1>1 DEF Item, Numeric
<1>4. /\ IntsOf("uint8_t") = 0 .. Pow[1] - 1
      /\ IntsOf("int8_t") = -(Pow[1] \div 2) .. Pow[1] \div 2 - 1
      /\ IntsOf("uint64_t") = 0 .. Pow[JsonBytes] - 1
      /\ IntsOf("int64_t") = Ints
  BY DEF IntsOf
<1> QED BY <1>1, <1>2, <1>3, <1>4 DEF t, Ints

\* A number that fits is its own remainder.
LEMMA ModOfSmall ==
    ASSUME NEW m \in Nat \ {0}, NEW r \in 0 .. m - 1
    PROVE  r % m = r
<1>1. 0 \in Int /\ m * 0 + r = r
  OBVIOUS
<1> QED BY <1>1, ModUnique

\* A variable of a number's type has an integer of the type, congruent to what
\* was put into it, and the same if that fits.
LEMMA TypedRight ==
    ASSUME NEW f, NEW j \in DOMAIN f, f[j] \in Numeric, NEW v \in Int
    PROVE  LET n == Bytes(f[j])
               r == Typed(f[j], v)
           IN  /\ r \in Int
               /\ r \in IntsOf(FormatToJson(f)[j])
               /\ r % Pow[n] = v % Pow[n]
               /\ v \in IntsOf(FormatToJson(f)[j]) => r = v
               /\ Typed(f[j], v % Pow[n]) = r
<1> DEFINE n == Bytes(f[j])
           t == FormatToJson(f)[j]
           u == v % Pow[n]
           r == Typed(f[j], v)
<1>1. f[j] \in Item /\ n \in 1 .. JsonBytes
  BY BytesNumeric, BaseAssumption DEF Item
<1>2. Pow[n] \in Nat \ {0} /\ u \in 0 .. Pow[n] - 1 /\ u % Pow[n] = u
  <2>1. Pow[n] \in Nat \ {0}
    BY <1>1, PowPositive, BaseAssumption
  <2>2. u \in 0 .. Pow[n] - 1
    BY <2>1, DivMod
  <2> HIDE DEF u
  <2> QED BY <2>1, <2>2, ModOfSmall
<1>3. Typed(f[j], v % Pow[n]) = r
  BY <1>2 DEF Typed
<1>4. CASE f[j] \in WithSign
  <2>1. r = Signed(u, n)
    BY <1>4 DEF Typed
  <2>2. IntsOf(t) = -(Pow[n] \div 2) .. Pow[n] \div 2 - 1
    <3>1. f[j] = "s8" \/ f[j] = "s64"
      BY <1>4 DEF WithSign
    <3> QED BY <1>1, <3>1, AnnouncedType, BytesNumeric
  <2>3. r \in IntsOf(t)
    <3> HIDE DEF u, n
    <3> QED BY <1>1, <1>2, <2>1, <2>2, SignedRange
  <2>4. r % Pow[n] = u /\ (v \in IntsOf(t) => r = v)
    BY <1>1, <2>1, <2>2, SignedRight
  <2>5. r \in Int
    <3>1. Pow[n] \div 2 \in Nat
      BY <1>1, PowEven
    <3> QED BY <2>2, <2>3, <3>1
  <2> QED BY <1>3, <2>3, <2>4, <2>5
<1>5. CASE f[j] \notin WithSign
  <2>1. r = u
    BY <1>5 DEF Typed
  <2>2. IntsOf(t) = 0 .. Pow[n] - 1
    <3>1. f[j] = "u8" \/ f[j] = "u64"
      BY <1>5 DEF WithSign, Numeric
    <3> QED BY <1>1, <3>1, AnnouncedType, BytesNumeric
  <2>3. ASSUME v \in 0 .. Pow[n] - 1 PROVE u = v
    BY <1>2, <2>3, ModOfSmall
  <2>4. u \in Int
    BY <1>2
  <2> QED BY <1>2, <1>3, <2>1, <2>2, <2>3, <2>4
<1> QED BY <1>4, <1>5

\* A JSON integer holds twice as many integers as a byte, or more.
LEMMA JsonWider == 2 * Base <= Pow[JsonBytes]
<1>1. JsonBytes - 1 \in 1 .. JsonBytes
  BY BaseAssumption
<1>2. Pow[JsonBytes - 1] = 2 * (Pow[JsonBytes - 1] \div 2)
      /\ Pow[JsonBytes - 1] \div 2 \in Nat \ {0}
  BY <1>1, PowEven
<1>3. Pow[JsonBytes - 1] >= 2
  BY <1>2
<1>4. Base * Pow[JsonBytes - 1] >= Base * 2
  <2>1. Base \in Nat /\ Pow[JsonBytes - 1] \in Nat
    BY PowLargest, BaseAssumption
  <2> HIDE DEF Pow
  <2> QED BY <1>3, <2>1
<1> QED BY <1>4, PowLargest, BaseAssumption

\* A number comes out as the node has sent it, or negative.
LEMMA FetchRight ==
    ASSUME NEW f, NEW j \in DOMAIN f, f[j] \in Numeric,
           NEW v \in IntsOf(FormatToJson(f)[j])
    PROVE  FetchedRight(FormatToJson(f)[j], v,
                        Fetch(f[j], Encode(v, Bytes(f[j]))))
<1> DEFINE item == f[j]
           t == FormatToJson(f)[j]
           n == Bytes(item)
           p == Pow[JsonBytes]
           h == Pow[JsonBytes] \div 2
           r == Fetch(item, Encode(v, n))
<1>1. /\ item \in Item /\ n \in 1 .. JsonBytes /\ n \in 0 .. JsonBytes
      /\ JsonBytes \in 1 .. JsonBytes
  BY BytesNumeric, BaseAssumption DEF Item
<1>2. /\ p \in Nat \ {0} /\ h \in Nat \ {0} /\ p = 2 * h /\ 2 * Base <= p
      /\ Ints = -h .. h - 1
  BY <1>1, PowEven, JsonWider DEF Ints
<1>3. CASE item \in WithSign
  <2>1. IntsOf(t) = -(Pow[n] \div 2) .. Pow[n] \div 2 - 1
    <3>1. item = "s8" \/ item = "s64"
      BY <1>3 DEF WithSign
    <3> QED BY <1>1, <3>1, AnnouncedType, BytesNumeric
  <2>2. Pow[n] \div 2 \in Nat /\ Pow[n] \div 2 <= h
    <3>1. Pow[n] = 2 * (Pow[n] \div 2) /\ Pow[n] \div 2 \in Nat
      BY <1>1, PowEven
    <3>2. Pow[n] <= p
      <4>1. n = 1 \/ n = JsonBytes
        BY BytesNumeric
      <4>2. Pow[1] <= p
        BY PowLargest
      <4> QED BY <1>2, <4>1, <4>2
    <3> HIDE DEF p, h, n
    <3> QED BY <1>2, <3>1, <3>2
  <2>3. v \in Int /\ v \in Ints
    <3> HIDE DEF p, h, n
    <3> QED BY <1>2, <2>1, <2>2
  <2>4. r = Signed(v % Pow[n], n)
    <3>1. Decode(Encode(v, n)) = v % Pow[n] /\ Len(Encode(v, n)) = n
      BY <1>1, <2>3, RoundTrip, EncodeType
    <3> QED BY <1>3, <3>1 DEF Fetch
  <2>5. r = v
    BY <1>1, <2>1, <2>3, <2>4, SignedRight
  <2> QED BY <2>3, <2>5 DEF FetchedRight
<1>4. CASE item \notin WithSign
  <2>1. item = "u8" \/ item = "u64"
    BY <1>4 DEF WithSign, Numeric
  <2>2. IntsOf(t) = 0 .. Pow[n] - 1
    BY <1>1, <2>1, AnnouncedType, BytesNumeric
  <2>3. Pow[n] \in Nat \ {0} /\ v \in Int /\ v \in 0 .. Pow[n] - 1
    BY <1>1, <2>2, PowPositive
  <2>4. r = Signed(v, JsonBytes)
    <3>1. Decode(Encode(v, n)) = v % Pow[n]
      BY <1>1, <2>3, RoundTrip
    <3>2. v % Pow[n] = v
      BY <2>3, ModOfSmall
    <3> QED BY <1>4, <3>1, <3>2 DEF Fetch
  <2>5. r = IF 2 * v >= p THEN v - p ELSE v
    BY <2>4 DEF Signed
  <2> HIDE DEF p, h, r
  <2>6. v \in Ints <=> 2 * v < p
    BY <1>2, <2>3
  <2>7. CASE v \in Ints
    <3>1. r = v
      BY <1>2, <2>3, <2>5, <2>6, <2>7
    <3> QED BY <2>7, <3>1 DEF FetchedRight, r
  <2>8. CASE v \notin Ints
    <3>1. r = v - p
      BY <1>2, <2>3, <2>5, <2>6, <2>8
    <3>2. item = "u64" /\ t = "uint64_t"
      <4>1. ASSUME item = "u8" PROVE FALSE
        <5>1. Pow[n] = Base
          BY <4>1, BytesNumeric, PowLargest
        <5>2. 2 * v < p
          BY <1>2, <2>3, <5>1, BaseAssumption
        <5> QED BY <2>6, <2>8, <5>2
      <4> QED BY <1>1, <2>1, <4>1, AnnouncedType
    <3>3. Pow[n] = p
      BY <3>2, BytesNumeric DEF p
    <3>4. r \notin IntsOf(t)
      <4> HIDE DEF n, t
      <4> QED BY <1>2, <2>2, <2>3, <3>1, <3>3
    <3> QED BY <2>8, <3>1, <3>2, <3>4 DEF FetchedRight, r, p
  <2> QED BY <2>7, <2>8
<1> QED BY <1>3, <1>4

\* Offset sums up the bytes of the items in front.
LEMMA OffsetDef ==
    ASSUME NEW f, Len(f) \in Nat
    PROVE  /\ Offset(f, 1) = 0
           /\ \A j \in 1 .. Len(f) + 1 : Offset(f, j) \in Nat
           /\ \A j \in 1 .. Len(f) : Offset(f, j + 1) = Offset(f, j) + Bytes(f[j])
<1> DEFINE n == Len(f)
           step == [p \in (1 .. n) \X Nat |-> p[2] + Bytes(f[p[1]])]
           body(s) == [k \in 0 .. n |->
                          IF k = 0 THEN 0 ELSE s[k - 1] + Bytes(f[k])]
           end == CHOOSE s : s = body(s)
<1>1. \A k \in 1 .. n : Bytes(f[k]) \in Nat
  BY BytesPositive
<1>2. step \in [(1 .. n) \X Nat -> Nat]
  BY <1>1
<1>3. PICK g \in [0 .. n -> Nat] :
        g[0] = 0 /\ \A k \in 1 .. n : g[k] = step[<<k, g[k - 1]>>]
  <2>1. 0 \in Nat
    OBVIOUS
  <2> HIDE DEF step
  <2> QED BY <1>2, <2>1, Recursion, Zenon
<1>4. ASSUME NEW k \in 1 .. n PROVE g[k] = g[k - 1] + Bytes(f[k])
  <2>1. k - 1 \in 0 .. n
    OBVIOUS
  <2>2. <<k, g[k - 1]>> \in (1 .. n) \X Nat
    BY <2>1
  <2>3. step[<<k, g[k - 1]>>] = g[k - 1] + Bytes(f[k])
    BY <2>2
  <2> QED BY <1>3, <2>3
<1>5. g = body(g)
  BY <1>3, <1>4
<1>6. end = body(end)
  <2> HIDE DEF body
  <2> QED BY <1>5
<1>7. \A j : Offset(f, j) = end[j - 1]
  BY DEF Offset
<1> HIDE DEF end
<1>8. end[0] = 0 /\ \A k \in 1 .. n : end[k] = end[k - 1] + Bytes(f[k])
  BY <1>6
<1>9. \A k \in 0 .. n : end[k] \in Nat
  <2> DEFINE S == {k \in 0 .. n : end[k] \in Nat}
  <2>1. 0 \in S
    BY <1>8
  <2>2. ASSUME NEW k \in 1 .. n, k - 1 \in S PROVE k \in S
    BY <1>1, <1>8, <2>2
  <2>3. \A k \in 0 .. n : k \in S
    <3> HIDE DEF S
    <3> QED BY <2>1, <2>2, InductionUpTo
  <2> QED BY <2>3
<1>10. \A j \in 1 .. n + 1 : Offset(f, j) \in Nat
  BY <1>7, <1>9
<1>11. ASSUME NEW j \in 1 .. n PROVE Offset(f, j + 1) = Offset(f, j) + Bytes(f[j])
  <2>1. (j + 1) - 1 = j
    OBVIOUS
  <2> QED BY <1>7, <1>8, <2>1
<1>12. Offset(f, 1) = 0
  <2>1. 1 - 1 = 0
    OBVIOUS
  <2> QED BY <1>7, <1>8, <2>1
<1> QED BY <1>10, <1>11, <1>12

\* Items do not overlap.
LEMMA OffsetsApart ==
    ASSUME NEW f, Len(f) \in Nat, NEW j \in 1 .. Len(f), NEW k \in 1 .. Len(f) + 1,
           j < k
    PROVE  Offset(f, j) + Bytes(f[j]) <= Offset(f, k)
<1> DEFINE S == {m \in 0 .. Len(f) : j <= m =>
                    Offset(f, j) + Bytes(f[j]) <= Offset(f, m + 1)}
<1>1. 0 \in S
  OBVIOUS
<1>2. ASSUME NEW m \in 1 .. Len(f), m - 1 \in S PROVE m \in S
  <2>1. Offset(f, m + 1) = Offset(f, m) + Bytes(f[m])
    BY OffsetDef
  <2>2. Offset(f, m) \in Nat /\ Offset(f, j) \in Nat /\ Bytes(f[m]) \in Nat
        /\ Bytes(f[j]) \in Nat
    BY OffsetDef, BytesPositive
  <2>3. (m - 1) + 1 = m
    OBVIOUS
  <2>4. CASE m < j
    BY <2>4
  <2>5. CASE m = j
    BY <2>1, <2>2, <2>5
  <2>6. CASE m > j
    <3>1. Offset(f, j) + Bytes(f[j]) <= Offset(f, m)
      BY <1>2, <2>3, <2>6
    <3> QED BY <2>1, <2>2, <3>1
  <2> QED BY <2>4, <2>5, <2>6
<1>3. k - 1 \in S
  <2>1. \A m \in 0 .. Len(f) : m \in S
    <3> HIDE DEF S
    <3> QED BY <1>1, <1>2, InductionUpTo
  <2>2. k - 1 \in 0 .. Len(f)
    OBVIOUS
  <2> QED BY <2>1, <2>2
<1>4. (k - 1) + 1 = k /\ j <= k - 1
  OBVIOUS
<1> QED BY <1>3, <1>4

---------------------------------------------------------------------------
(* The buffer.                                                             *)

Byte == 0 .. Base - 1

\* What is appended leaves what is there in its place.
LEMMA AppendKeeps ==
    ASSUME NEW S, NEW b \in Seq(S), NEW c \in Seq(S), NEW o \in Nat, NEW n \in Nat,
           o + n <= Len(b)
    PROVE  SubSeq(b \o c, o + 1, o + n) = SubSeq(b, o + 1, o + n)
<1>1. b \o c \in Seq(S) /\ Len(b \o c) = Len(b) + Len(c)
  OBVIOUS
<1>2. \A k \in o + 1 .. o + n : b[k] \in S /\ (b \o c)[k] = b[k]
  OBVIOUS
<1>3. o + 1 \in Int /\ o + n \in Int
  OBVIOUS
<1> DEFINE s == SubSeq(b \o c, o + 1, o + n)
           t == SubSeq(b, o + 1, o + n)
<1>4. /\ s \in Seq(S)
      /\ Len(s) = IF o + 1 <= o + n THEN (o + n) - (o + 1) + 1 ELSE 0
      /\ \A k \in 1 .. (o + n) - (o + 1) + 1 : s[k] = (b \o c)[o + 1 + k - 1]
  <2>1. \A k \in o + 1 .. o + n : (b \o c)[k] \in S
    BY <1>2
  <2> QED BY <1>3, <2>1, SubSeqProperties
<1>5. /\ t \in Seq(S)
      /\ Len(t) = IF o + 1 <= o + n THEN (o + n) - (o + 1) + 1 ELSE 0
      /\ \A k \in 1 .. (o + n) - (o + 1) + 1 : t[k] = b[o + 1 + k - 1]
  BY <1>2, <1>3, SubSeqProperties
<1> HIDE DEF s, t
<1>6. Len(s) = n /\ Len(t) = n
  BY <1>4, <1>5
<1>7. ASSUME NEW k \in 1 .. n PROVE s[k] = t[k]
  <2>1. o + 1 + k - 1 \in o + 1 .. o + n /\ k \in 1 .. (o + n) - (o + 1) + 1
    OBVIOUS
  <2> QED BY <1>2, <1>4, <1>5, <2>1
<1>8. s = t
  BY <1>4, <1>5, <1>6, <1>7, SeqEqual
<1> QED BY <1>8 DEF s, t

\* ... and ends up behind it.
LEMMA AppendBehind ==
    ASSUME NEW S, NEW b \in Seq(S), NEW c \in Seq(S)
    PROVE  SubSeq(b \o c, Len(b) + 1, Len(b) + Len(c)) = c
<1> DEFINE o == Len(b)
           n == Len(c)
           s == SubSeq(b \o c, o + 1, o + n)
<1>1. o \in Nat /\ n \in Nat /\ o + 1 \in Int /\ o + n \in Int
  OBVIOUS
<1>2. \A k \in o + 1 .. o + n : (b \o c)[k] \in S /\ (b \o c)[k] = c[k - o]
  OBVIOUS
<1>3. /\ s \in Seq(S)
      /\ Len(s) = IF o + 1 <= o + n THEN (o + n) - (o + 1) + 1 ELSE 0
      /\ \A k \in 1 .. (o + n) - (o + 1) + 1 : s[k] = (b \o c)[o + 1 + k - 1]
  BY <1>1, <1>2, SubSeqProperties
<1> HIDE DEF s, o
<1>4. Len(s) = n
  BY <1>1, <1>3
<1>5. ASSUME NEW k \in 1 .. n PROVE s[k] = c[k]
  <2>1. /\ o + 1 + k - 1 \in o + 1 .. o + n
        /\ k \in 1 .. (o + n) - (o + 1) + 1
        /\ (o + 1 + k - 1) - o = k
    BY <1>1
  <2> QED BY <1>2, <1>3, <2>1
<1>6. s = c
  BY <1>3, <1>4, <1>5, SeqEqual
<1> QED BY <1>6 DEF s, o

---------------------------------------------------------------------------
(* The inductive invariant.                                                *)

Shape ==
    /\ pc \in {"marshal", "sent", "refused", "aborted", "read", "done"}
    /\ fmt \in UpTo(Item)
    /\ json \in UpTo(Value)
    /\ isarray \in BOOLEAN
    /\ i \in 0 .. Len(fmt)
    /\ buf \in Seq(Byte)
    /\ pos \in Nat
    /\ result \in Seq(Result)

\* The bytes at the offset of number j are those of the client's integer.
BytesInPlace(j) ==
    LET n == Bytes(fmt[j])
        o == Offset(fmt, j)
    IN  /\ Len(buf) >= o + n
        /\ Decode(SubSeq(buf, o + 1, o + n)) = json[j].n % Pow[n]

\* What is written so far fits the items dealt with, exactly if all binary
\* items were filled, and every number had its value.
PutSoFar ==
    /\ Len(buf) <= Offset(fmt, i + 1)
    /\ pc = "sent" => isarray /\ i = Len(fmt)
    /\ pc \in {"marshal", "sent"} =>
         /\ Filled(i + 1) => Len(buf) = Offset(fmt, i + 1)
         /\ \A j \in 1 .. i : fmt[j] \in Numeric =>
               j <= Len(json) /\ json[j].type = "int"
         /\ \A j \in 1 .. i : fmt[j] \in Numeric /\ Filled(j) => BytesInPlace(j)

\* Entry j of the result is right.
EntryRight(j) ==
    /\ result[j].type = "int" <=> FormatToJson(fmt)[j] \in IntType
    /\ (\A k \in 1 .. j : fmt[k] \in Numeric) =>
         FetchedRight(FormatToJson(fmt)[j], Sent(j), result[j].n)

\* There is an entry for every item read, and as long as all of them were
\* numbers the cursor is at the next item.
GotSoFar ==
    /\ pos <= Offset(fmt, i + 1)
    /\ Len(result) = IF pc \in {"read", "done"} THEN i ELSE 0
    /\ pc = "done" => i = Len(fmt)
    /\ pc = "read" /\ (\A k \in 1 .. i : fmt[k] \in Numeric) =>
         pos = Offset(fmt, i + 1)
    /\ \A j \in 1 .. Len(result) : EntryRight(j)

IInv == Shape /\ PutSoFar /\ GotSoFar

\* The invariant holds of every request and of every result that arrives.
LEMMA IInvInit == Init => IInv
<1> SUFFICES ASSUME Init PROVE IInv
  OBVIOUS
<1>1. Len(fmt) \in Nat
  BY UpToSeq DEF Init
<1>2. Offset(fmt, 1) = 0
  BY <1>1, OffsetDef
<1>3. i = 0 /\ i + 1 = 1 /\ Len(buf) = 0 /\ Len(result) = 0
  BY DEF Init
<1>4. isarray \in BOOLEAN
  BY DEF Init
<1>5. Shape
  BY <1>1, <1>4 DEF Init, Shape
<1>6. PutSoFar
  BY <1>2, <1>3 DEF Init, PutSoFar
<1>7. GotSoFar
  BY <1>2, <1>3 DEF Init, GotSoFar
<1> QED BY <1>5, <1>6, <1>7 DEF IInv

\* What Shape says of the format and the values.
LEMMA Shapes ==
    ASSUME Shape
    PROVE  /\ Len(fmt) \in Nat /\ i \in Nat /\ i <= Len(fmt)
           /\ \A j \in 1 .. Len(fmt) : fmt[j] \in Item
           /\ DOMAIN fmt = 1 .. Len(fmt)
           /\ Len(json) \in Nat
           /\ \A j \in 1 .. Len(json) : json[j] \in Value
           /\ \A j \in 1 .. Len(fmt) + 1 : Offset(fmt, j) \in Nat
           /\ \A j \in 1 .. Len(fmt) : Offset(fmt, j + 1) = Offset(fmt, j) + Bytes(fmt[j])
<1>1. /\ Len(fmt) \in Nat /\ fmt \in [1 .. Len(fmt) -> Item]
      /\ Len(json) \in Nat /\ json \in [1 .. Len(json) -> Value]
  BY UpToSeq DEF Shape
<1>2. i \in Nat /\ i <= Len(fmt)
  BY <1>1 DEF Shape
<1>3. /\ \A j \in 1 .. Len(fmt) : fmt[j] \in Item
      /\ DOMAIN fmt = 1 .. Len(fmt)
      /\ \A j \in 1 .. Len(json) : json[j] \in Value
  BY <1>1
<1> QED BY <1>1, <1>2, <1>3, OffsetDef

\* The integers of an array are JSON integers.
LEMMA ValueInt ==
    ASSUME Shape, NEW j \in Nat \ {0}, j <= Len(json), json[j].type = "int"
    PROVE  json[j].n \in Int
<1>1. JsonBytes \in 1 .. JsonBytes
  BY BaseAssumption
<1>2. Ints \subseteq Int
  BY <1>1, PowEven DEF Ints
<1>3. json[j] \in Value
  BY Shapes
<1>4. json[j].n \in Ints
  BY <1>3 DEF Value
<1> QED BY <1>2, <1>4

\* The node's numbers are of the types announced.
LEMMA SentInt ==
    ASSUME Shape, NEW j \in 1 .. Len(fmt), fmt[j] \in Numeric
    PROVE  Sent(j) \in Int /\ Sent(j) \in IntsOf(FormatToJson(fmt)[j])
<1> DEFINE v == IF j <= Len(json) /\ json[j].type = "int" THEN json[j].n ELSE 0
<1>1. Len(fmt) \in Nat /\ j \in DOMAIN fmt /\ j \in Nat \ {0}
  BY Shapes
<1>2. v \in Int
  BY <1>1, ValueInt
<1>3. Sent(j) = Typed(fmt[j], v)
  BY DEF Sent
<1> HIDE DEF v
<1> QED BY <1>1, <1>2, <1>3, TypedRight

---------------------------------------------------------------------------
(* ahttpd_buffer_from_json                                                 *)

\* An item is written: a number as its bytes, a binary item with no more than
\* its room, and all of it where the string fills it.
LEMMA PutStep ==
    ASSUME IInv, pc = "marshal", i < Len(fmt), NEW bytes \in Seq(Byte), Put(bytes),
           Len(bytes) <= Bytes(Next1),
           Next1 \in Numeric => /\ ValueIs("int")
                               /\ bytes = Encode(json[i + 1].n, Bytes(Next1)),
           Next1 \notin Numeric =>
               /\ Next1 = "bin"
               /\ ValueIs("string") /\ json[i + 1].n >= BinLen =>
                      Len(bytes) = Bytes(Next1)
    PROVE  IInv'
<1> DEFINE j == i + 1
           o == Offset(fmt, j)
           n == Bytes(fmt[j])
<1>1. /\ Shape /\ Len(fmt) \in Nat /\ i \in Nat /\ j \in 1 .. Len(fmt)
      /\ o \in Nat /\ n \in Nat /\ Offset(fmt, j + 1) = o + n
      /\ Len(json) \in Nat
  BY Shapes, BytesPositive DEF IInv
<1>2. /\ buf' = buf \o bytes /\ i' = j
      /\ UNCHANGED <<pc, fmt, json, isarray, pos, result>>
  BY DEF Put
<1>3. buf' \in Seq(Byte) /\ Len(buf') = Len(buf) + Len(bytes)
      /\ Len(buf) \in Nat /\ Len(bytes) \in Nat
  BY <1>1, <1>2 DEF Shape
<1>4. Shape'
  BY <1>1, <1>2, <1>3 DEF Shape
<1>5. /\ Len(buf) <= o /\ (Filled(j) => Len(buf) = o)
      /\ \A k \in 1 .. i : fmt[k] \in Numeric => k <= Len(json) /\ json[k].type = "int"
      /\ \A k \in 1 .. i : fmt[k] \in Numeric /\ Filled(k) => BytesInPlace(k)
  BY DEF IInv, PutSoFar
<1>6. fmt[j] = Next1
  BY DEF Next1
<1>7. Len(buf') <= Offset(fmt, j + 1)
  BY <1>1, <1>3, <1>5, <1>6
<1>8. ASSUME Filled(j + 1) PROVE Len(buf') = Offset(fmt, j + 1)
  <2>1. Filled(j)
    BY <1>1, <1>8 DEF Filled
  <2>2. Len(bytes) = n
    <3>1. CASE Next1 \in Numeric
      <4>1. ValueIs("int") /\ bytes = Encode(json[j].n, n)
        BY <1>6, <3>1
      <4>2. json[j].n \in Int
        <5>1. j \in Nat \ {0} /\ j <= Len(json) /\ json[j].type = "int"
          BY <1>1, <4>1 DEF ValueIs, HasValue
        <5> QED BY <1>1, <5>1, ValueInt
      <4>3. n \in 0 .. JsonBytes
        BY <1>6, <3>1, BytesNumeric
      <4> QED BY <4>1, <4>2, <4>3, EncodeType
    <3>2. CASE Next1 \notin Numeric
      <4>1. fmt[j] = "bin" /\ j \in 1 .. (j + 1) - 1
        BY <1>1, <1>6, <3>2
      <4>2. j <= Len(json) /\ json[j].type = "string" /\ json[j].n >= BinLen
        BY <1>8, <4>1 DEF Filled
      <4>3. ValueIs("string")
        BY <1>1, <4>2 DEF ValueIs, HasValue
      <4> QED BY <1>6, <3>2, <4>2, <4>3
    <3> QED BY <3>1, <3>2
  <2> QED BY <1>1, <1>3, <1>5, <2>1, <2>2
<1>9. ASSUME NEW k \in 1 .. j, fmt[k] \in Numeric
      PROVE  k <= Len(json) /\ json[k].type = "int"
  <2>1. CASE k = j
    BY <1>1, <1>6, <1>9, <2>1 DEF ValueIs, HasValue
  <2>2. CASE k # j
    BY <1>1, <1>5, <1>9, <2>2
  <2> QED BY <2>1, <2>2
<1>10. ASSUME NEW k \in 1 .. j, fmt[k] \in Numeric, Filled(k) PROVE BytesInPlace(k)'
  <2> DEFINE ok == Offset(fmt, k)
             nk == Bytes(fmt[k])
  <2>1. ok \in Nat /\ nk \in Nat /\ k \in 1 .. Len(fmt)
    BY <1>1, Shapes, BytesPositive
  <2>2. CASE k = j
    <3>1. ValueIs("int") /\ bytes = Encode(json[j].n, n)
      BY <1>6, <1>10, <2>2
    <3>2. json[j].n \in Int
      <4>1. j \in Nat \ {0} /\ j <= Len(json) /\ json[j].type = "int"
        BY <1>1, <3>1 DEF ValueIs, HasValue
      <4> QED BY <1>1, <4>1, ValueInt
    <3>3. n \in 0 .. JsonBytes
      BY <1>10, <2>2, BytesNumeric
    <3>4. Len(bytes) = n /\ Decode(bytes) = json[j].n % Pow[n]
      BY <3>1, <3>2, <3>3, EncodeType, RoundTrip
    <3>5. Len(buf) = o
      BY <1>5, <1>10, <2>2
    <3>6. SubSeq(buf', o + 1, o + n) = bytes
      <4>1. SubSeq(buf \o bytes, Len(buf) + 1, Len(buf) + Len(bytes)) = bytes
        BY <1>1, AppendBehind DEF Shape
      <4> QED BY <1>2, <3>4, <3>5, <4>1
    <3>7. Len(buf') >= o + n
      BY <1>1, <1>3, <3>4, <3>5
    <3> QED BY <1>2, <2>2, <3>4, <3>6, <3>7 DEF BytesInPlace
  <2>3. CASE k # j
    <3>1. k \in 1 .. i
      BY <1>1, <2>3
    <3>2. BytesInPlace(k)
      BY <1>5, <1>10, <3>1
    <3>3. /\ Len(buf) >= ok + nk
          /\ Decode(SubSeq(buf, ok + 1, ok + nk)) = json[k].n % Pow[nk]
      BY <3>2 DEF BytesInPlace
    <3>4. SubSeq(buf', ok + 1, ok + nk) = SubSeq(buf, ok + 1, ok + nk)
      <4>1. ok + nk <= Len(buf)
        BY <1>3, <2>1, <3>3
      <4> HIDE DEF ok, nk
      <4> QED BY <1>1, <1>2, <2>1, <4>1, AppendKeeps DEF Shape
    <3>5. Len(buf') >= ok + nk
      BY <1>3, <2>1, <3>3
    <3> QED BY <1>2, <3>3, <3>4, <3>5 DEF BytesInPlace
  <2> QED BY <2>2, <2>3
<1>11. PutSoFar'
  <2>1. \A k : Filled(k)' <=> Filled(k)
    BY <1>2 DEF Filled
  <2> QED BY <1>2, <1>7, <1>8, <1>9, <1>10, <2>1 DEF PutSoFar
<1>12. GotSoFar'
  <2>1. pos <= o /\ Len(result) = 0
    BY DEF IInv, GotSoFar
  <2>2. pos <= Offset(fmt, j + 1)
    BY <1>1, <2>1 DEF Shape
  <2> QED BY <1>2, <2>1, <2>2 DEF GotSoFar
<1> QED BY <1>4, <1>11, <1>12 DEF IInv

\* The steps of ahttpd_buffer_from_json().
LEMMA MarshalStep ==
    ASSUME IInv,
           NotArray \/ PutNumber \/ PutRefused \/ PutBin \/ PutBuf \/ Marshalled
    PROVE  IInv'
<1>1. /\ Shape /\ Len(fmt) \in Nat /\ i \in Nat
      /\ \A j \in 1 .. Len(fmt) : fmt[j] \in Item
  BY Shapes DEF IInv
<1>2. CASE PutNumber
  <2> DEFINE n == Bytes(Next1)
             bytes == Encode(json[i + 1].n, n)
  <2>1. /\ pc = "marshal" /\ i < Len(fmt) /\ Next1 \in Numeric /\ ValueIs("int")
        /\ Put(bytes)
    BY <1>2 DEF PutNumber, Marshalling
  <2>2. n \in 0 .. JsonBytes /\ n \in Nat
    BY <2>1, BytesNumeric, BaseAssumption
  <2>3. json[i + 1].n \in Int
    <3>1. i + 1 \in Nat \ {0} /\ i + 1 <= Len(json) /\ json[i + 1].type = "int"
      BY <1>1, <2>1, Shapes DEF ValueIs, HasValue
    <3> QED BY <1>1, <3>1, ValueInt
  <2>4. bytes \in Seq(Byte) /\ Len(bytes) = n
    BY <2>2, <2>3, EncodeType DEF Byte
  <2> HIDE DEF bytes
  <2>5. Len(bytes) <= n
    BY <2>2, <2>4
  <2> QED BY <2>1, <2>4, <2>5, PutStep DEF bytes
<1>3. CASE PutBin
  <2> DEFINE l == Min({json[i + 1].n, BinLen})
             ones == [k \in 1 .. l |-> 1]
             bytes == IF ValueIs("string") THEN ones ELSE <<>>
  <2>1. pc = "marshal" /\ i < Len(fmt) /\ Next1 = "bin" /\ Put(bytes)
    BY <1>3 DEF PutBin, Marshalling
  <2>2. Next1 \notin Numeric /\ Bytes(Next1) = BinLen /\ BinLen \in Nat
    BY <2>1, BinLenAssumption DEF Numeric, Bytes
  <2>3. ASSUME ValueIs("string")
        PROVE  /\ l \in Nat /\ l <= BinLen
               /\ json[i + 1].n >= BinLen => l = BinLen
    <3>1. json[i + 1].n \in Nat
      <4>1. json[i + 1] \in Value /\ json[i + 1].type = "string"
        BY <1>1, <2>3, Shapes DEF ValueIs, HasValue
      <4> QED BY <4>1, BinLenAssumption DEF Value
    <3>2. l = IF json[i + 1].n <= BinLen THEN json[i + 1].n ELSE BinLen
      BY <2>2, <3>1, MinOfTwo
    <3> HIDE DEF l
    <3> QED BY <2>2, <3>1, <3>2
  <2>4. /\ bytes \in Seq(Byte) /\ Len(bytes) <= BinLen
        /\ ValueIs("string") /\ json[i + 1].n >= BinLen => Len(bytes) = BinLen
    <3> HIDE DEF l
    <3>1. CASE ValueIs("string")
      <4>1. l \in Nat /\ ones \in [1 .. l -> Byte]
        BY <2>3, <3>1, BaseAssumption DEF Byte
      <4>2. ones \in Seq(Byte) /\ Len(ones) = l
        BY <4>1, LenOf
      <4> HIDE DEF ones
      <4> QED BY <2>3, <3>1, <4>2
    <3>2. CASE ~ValueIs("string")
      <4>1. bytes = <<>>
        BY <3>2
      <4> HIDE DEF bytes
      <4> QED BY <2>2, <3>2, <4>1
    <3> QED BY <3>1, <3>2
  <2> HIDE DEF bytes
  <2> QED BY <2>1, <2>2, <2>4, PutStep
<1>4. CASE NotArray \/ PutRefused \/ PutBuf
  <2>1. /\ UNCHANGED <<fmt, json, isarray, i, buf, pos, result>>
        /\ pc = "marshal" /\ pc' \in {"refused", "aborted"}
    BY <1>4 DEF NotArray, PutRefused, PutBuf, Marshalling
  <2>2. Shape'
    BY <1>1, <2>1 DEF Shape
  <2>3. PutSoFar'
    BY <2>1 DEF IInv, PutSoFar
  <2>4. GotSoFar'
    <3>1. Len(result) = 0
      BY <2>1 DEF IInv, GotSoFar
    <3> QED BY <2>1, <3>1 DEF IInv, GotSoFar
  <2> QED BY <2>2, <2>3, <2>4 DEF IInv
<1>5. CASE Marshalled
  <2>1. /\ UNCHANGED <<fmt, json, isarray, i, buf, pos, result>>
        /\ pc = "marshal" /\ pc' = "sent" /\ isarray /\ i = Len(fmt)
    BY <1>5 DEF Marshalled
  <2>2. Shape'
    BY <1>1, <2>1 DEF Shape
  <2>3. PutSoFar'
    BY <2>1 DEF IInv, PutSoFar, Filled, BytesInPlace
  <2>4. GotSoFar'
    <3>1. Len(result) = 0
      BY <2>1 DEF IInv, GotSoFar
    <3> QED BY <2>1, <3>1 DEF IInv, GotSoFar
  <2> QED BY <2>2, <2>3, <2>4 DEF IInv
<1> QED BY <1>2, <1>3, <1>4, <1>5

---------------------------------------------------------------------------
(* ahttpd_buffer_to_json                                                   *)

\* The item whose bytes hold position p is the last that starts at p or before.
LEMMA ItemAt ==
    ASSUME Shape, NEW p \in Nat, NEW j \in 1 .. Len(fmt),
           Offset(fmt, j) <= p, p < Offset(fmt, j) + Bytes(fmt[j])
    PROVE  Max({k \in 1 .. Len(fmt) : Offset(fmt, k) <= p}) = j
<1> DEFINE T == {k \in 1 .. Len(fmt) : Offset(fmt, k) <= p}
<1>1. Len(fmt) \in Nat /\ \A k \in 1 .. Len(fmt) : Offset(fmt, k) \in Nat
      /\ Bytes(fmt[j]) \in Nat
  BY Shapes, BytesPositive
<1>2. T \subseteq 1 .. Len(fmt) /\ j \in T
  OBVIOUS
<1>3. Max(T) \in T /\ \A y \in T : y <= Max(T)
  <2> HIDE DEF T
  <2> QED BY <1>1, <1>2, MaxFound
<1>4. ASSUME NEW k \in T PROVE k <= j
  <2>1. SUFFICES ASSUME j < k PROVE FALSE
    BY <1>1
  <2>2. Offset(fmt, j) + Bytes(fmt[j]) <= Offset(fmt, k)
    BY <1>1, <2>1, OffsetsApart
  <2> QED BY <1>1, <2>2
<1>5. Max(T) \in Nat /\ j <= Max(T) /\ Max(T) <= j
  BY <1>1, <1>2, <1>3, <1>4
<1> QED BY <1>5

\* Every position before the end lies in an item.
LEMMA PositionInItem ==
    ASSUME Shape, NEW p \in Nat, p < Size(fmt)
    PROVE  \E j \in 1 .. Len(fmt) :
              Offset(fmt, j) <= p /\ p < Offset(fmt, j) + Bytes(fmt[j])
<1> DEFINE T == {k \in 1 .. Len(fmt) : Offset(fmt, k) <= p}
<1>1. /\ Len(fmt) \in Nat
      /\ \A k \in 1 .. Len(fmt) + 1 : Offset(fmt, k) \in Nat
      /\ \A k \in 1 .. Len(fmt) : Offset(fmt, k + 1) = Offset(fmt, k) + Bytes(fmt[k])
      /\ Offset(fmt, 1) = 0 /\ p < Offset(fmt, Len(fmt) + 1)
  BY Shapes, OffsetDef DEF Size
<1>2. Len(fmt) # 0
  BY <1>1
<1>3. 1 \in T
  BY <1>1, <1>2
<1>4. Max(T) \in T /\ \A y \in T : y <= Max(T)
  <2>1. T \subseteq 1 .. Len(fmt) /\ T # {}
    BY <1>3
  <2> HIDE DEF T
  <2> QED BY <1>1, <2>1, MaxFound
<1> DEFINE j == Max(T)
<1>5. p < Offset(fmt, j + 1)
  <2>1. CASE j = Len(fmt)
    BY <1>1, <2>1
  <2>2. CASE j # Len(fmt)
    <3>1. j + 1 \in 1 .. Len(fmt) /\ ~ (j + 1 <= j)
      BY <1>1, <1>4, <2>2
    <3>2. j + 1 \notin T
      BY <1>4, <3>1
    <3> QED BY <1>1, <3>1, <3>2
  <2> QED BY <2>1, <2>2
<1>6. j \in 1 .. Len(fmt) /\ Offset(fmt, j) <= p
  BY <1>4
<1> HIDE DEF j
<1> QED BY <1>1, <1>5, <1>6

\* Within the node's buffer there are bytes.
LEMMA ArrivedType ==
    ASSUME Shape, NEW o \in Nat, NEW n \in Nat, o + n <= Size(fmt)
    PROVE  Arrived(o, n) \in [1 .. n -> Byte]
<1> SUFFICES ASSUME NEW k \in 1 .. n PROVE ByteAt(o + k - 1) \in Byte
  BY DEF Arrived
<1> DEFINE p == o + k - 1
<1>1. Len(fmt) \in Nat /\ Size(fmt) \in Nat
  BY Shapes DEF Size
<1>2. p \in Nat /\ p < Size(fmt)
  BY <1>1
<1> HIDE DEF p
<1>3. PICK j \in 1 .. Len(fmt) :
        Offset(fmt, j) <= p /\ p < Offset(fmt, j) + Bytes(fmt[j])
  BY <1>2, PositionInItem
<1>4. ByteAt(p) = IF fmt[j] \in Numeric
                  THEN Encode(Sent(j), Bytes(fmt[j]))[p - Offset(fmt, j) + 1]
                  ELSE 1
  BY <1>2, <1>3, ItemAt DEF ByteAt
<1>5. ASSUME fmt[j] \in Numeric
      PROVE  Encode(Sent(j), Bytes(fmt[j]))[p - Offset(fmt, j) + 1] \in Byte
  <2>1. Sent(j) \in Int
    BY <1>5, SentInt
  <2>2. Bytes(fmt[j]) \in 0 .. JsonBytes /\ Bytes(fmt[j]) \in Nat
    BY <1>5, BytesNumeric, BytesPositive
  <2>3. Encode(Sent(j), Bytes(fmt[j])) \in [1 .. Bytes(fmt[j]) -> Byte]
    BY <2>1, <2>2, EncodeType DEF Byte
  <2>4. Offset(fmt, j) \in Nat
    BY <1>1, Shapes
  <2>5. p - Offset(fmt, j) + 1 \in 1 .. Bytes(fmt[j])
    BY <1>2, <1>3, <2>2, <2>4
  <2> QED BY <2>3, <2>5
<1>6. 1 \in Byte
  BY BaseAssumption DEF Byte
<1> QED BY <1>4, <1>5, <1>6 DEF p

\* At the offset of a number there are its bytes.
LEMMA ArrivedNumber ==
    ASSUME Shape, NEW j \in 1 .. Len(fmt), fmt[j] \in Numeric
    PROVE  Arrived(Offset(fmt, j), Bytes(fmt[j])) = Encode(Sent(j), Bytes(fmt[j]))
<1> DEFINE o == Offset(fmt, j)
           n == Bytes(fmt[j])
           e == Encode(Sent(j), n)
<1>1. o \in Nat /\ n \in Nat /\ n \in 0 .. JsonBytes
  BY Shapes, BytesPositive, BytesNumeric
<1>2. e \in [1 .. n -> Byte]
  <2>1. Sent(j) \in Int
    BY SentInt
  <2> QED BY <1>1, <2>1, EncodeType DEF Byte
<1>3. ASSUME NEW k \in 1 .. n PROVE ByteAt(o + k - 1) = e[k]
  <2> DEFINE p == o + k - 1
  <2>1. p \in Nat /\ o <= p /\ p < o + n /\ p - o + 1 = k
    BY <1>1
  <2>2. Max({m \in 1 .. Len(fmt) : Offset(fmt, m) <= p}) = j
    <3> HIDE DEF p
    <3> QED BY <2>1, ItemAt
  <2> QED BY <2>1, <2>2 DEF ByteAt
<1> HIDE DEF o, n, e
<1>4. Arrived(o, n) = e
  BY <1>2, <1>3 DEF Arrived
<1> QED BY <1>4 DEF o, n, e

\* The items in front of j are all numbers.
AllNumbers(j) == \A k \in 1 .. j : fmt[k] \in Numeric

\* An entry that is right is added to the result.
LEMMA EntryStep ==
    ASSUME IInv, pc = "read", i < Len(fmt), NEW r \in Result,
           result' = Append(result, r), i' = i + 1,
           UNCHANGED <<pc, fmt, json, isarray, buf>>,
           pos' \in Nat, pos' <= Offset(fmt, i + 2),
           AllNumbers(i + 1) => pos' = Offset(fmt, i + 2),
           r.type = "int" <=> FormatToJson(fmt)[i + 1] \in IntType,
           AllNumbers(i + 1) => FetchedRight(FormatToJson(fmt)[i + 1], Sent(i + 1), r.n)
    PROVE  IInv'
<1>1. /\ Shape /\ Len(fmt) \in Nat /\ i \in Nat /\ (i + 1) + 1 = i + 2
      /\ Offset(fmt, i + 1) \in Nat /\ Bytes(fmt[i + 1]) \in Nat
      /\ Offset(fmt, (i + 1) + 1) = Offset(fmt, i + 1) + Bytes(fmt[i + 1])
  BY Shapes, BytesPositive DEF IInv
<1>2. /\ result' \in Seq(Result) /\ Len(result) = i /\ Len(result') = i + 1
      /\ \A j \in 1 .. i : result'[j] = result[j]
      /\ result'[i + 1] = r
  <2>1. Len(result) = i
    BY DEF IInv, GotSoFar
  <2>2. result \in Seq(Result)
    BY <1>1 DEF Shape
  <2> QED BY <1>1, <2>1, <2>2
<1>3. Shape'
  BY <1>1, <1>2 DEF Shape
<1>4. PutSoFar'
  <2>1. Len(buf) <= Offset(fmt, i + 1) /\ Len(buf) \in Nat
    <3>1. Len(buf) <= Offset(fmt, i + 1)
      BY DEF IInv, PutSoFar
    <3> QED BY <1>1, <3>1 DEF Shape
  <2>2. Len(buf) <= Offset(fmt, (i + 1) + 1)
    BY <1>1, <2>1
  <2> QED BY <2>2 DEF PutSoFar
<1>5. ASSUME NEW j \in 1 .. i + 1 PROVE EntryRight(j)'
  <2>1. CASE j = i + 1
    BY <1>2, <2>1 DEF EntryRight, AllNumbers, Sent
  <2>2. CASE j # i + 1
    <3>1. j \in 1 .. i
      BY <1>1, <2>2
    <3>2. EntryRight(j)
      BY <1>2, <3>1 DEF IInv, GotSoFar
    <3> QED BY <1>2, <3>1, <3>2 DEF EntryRight, Sent
  <2> QED BY <2>1, <2>2
<1>6. GotSoFar'
  BY <1>1, <1>2, <1>5 DEF GotSoFar, AllNumbers
<1> QED BY <1>3, <1>4, <1>6 DEF IInv

\* The steps of ahttpd_buffer_to_json().
LEMMA ReadStep ==
    ASSUME IInv, GetNumber \/ GetBuffer \/ ReadOut
    PROVE  IInv'
<1> DEFINE j == i + 1
<1>1. /\ Shape /\ Len(fmt) \in Nat /\ i \in Nat /\ pos \in Nat
      /\ pos <= Offset(fmt, j) /\ j + 1 = i + 2 /\ Next1 = fmt[j]
      /\ pc = "read" /\ AllNumbers(i) => pos = Offset(fmt, j)
  BY Shapes DEF IInv, GotSoFar, Shape, AllNumbers, Next1
<1>2. ASSUME i < Len(fmt)
      PROVE  /\ j \in 1 .. Len(fmt) /\ Offset(fmt, j) \in Nat
             /\ Bytes(fmt[j]) \in Nat /\ fmt[j] \in Item
             /\ Offset(fmt, i + 2) = Offset(fmt, j) + Bytes(fmt[j])
             /\ FormatToJson(fmt)[j] \in IntType <=> fmt[j] \in Numeric
             /\ AllNumbers(j) => AllNumbers(i) /\ fmt[j] \in Numeric
  <2>1. j \in 1 .. Len(fmt) /\ j \in 1 .. j /\ \A k \in 1 .. i : k \in 1 .. j
    BY <1>1, <1>2
  <2>2. fmt[j] \in Item /\ j \in DOMAIN fmt
    BY <1>1, <2>1, Shapes
  <2>3. FormatToJson(fmt)[j] \in IntType <=> fmt[j] \in Numeric
    BY <2>2, AnnouncedType
  <2>4. Offset(fmt, j + 1) = Offset(fmt, j) + Bytes(fmt[j]) /\ Offset(fmt, j) \in Nat
    BY <1>1, <2>1, Shapes
  <2> QED BY <1>1, <2>1, <2>2, <2>3, <2>4, BytesPositive DEF AllNumbers
<1>3. CASE GetNumber
  <2> DEFINE n == Bytes(fmt[j])
             b == Arrived(pos, n)
             r == [type |-> "int", n |-> Fetch(fmt[j], b)]
  <2>1. /\ pc = "read" /\ i < Len(fmt) /\ fmt[j] \in Numeric
        /\ result' = Append(result, r) /\ pos' = pos + n /\ i' = j
        /\ UNCHANGED <<pc, fmt, json, isarray, buf>>
    BY <1>1, <1>3 DEF GetNumber, Reading
  <2>2. pos + n <= Offset(fmt, i + 2) /\ pos' \in Nat
    BY <1>1, <1>2, <2>1
  <2>3. Offset(fmt, i + 2) <= Size(fmt)
    <3>1. CASE j = Len(fmt)
      <4>1. Size(fmt) = Offset(fmt, i + 2) /\ Size(fmt) \in Nat
        BY <1>1, <3>1, Shapes DEF Size
      <4> QED BY <4>1
    <3>2. CASE j # Len(fmt)
      <4>1. Len(fmt) + 1 \in 1 .. Len(fmt) + 1 /\ j < Len(fmt) + 1
        BY <1>1, <1>2, <2>1, <3>2
      <4> QED BY <1>1, <1>2, <2>1, <4>1, OffsetsApart DEF Size
    <3> QED BY <3>1, <3>2
  <2>4. pos + n <= Size(fmt)
    <3>1. Size(fmt) \in Nat /\ Offset(fmt, i + 2) \in Nat
      BY <1>1, <1>2, <2>1, Shapes DEF Size
    <3> QED BY <1>1, <1>2, <2>1, <2>2, <2>3, <3>1
  <2>5. b \in [1 .. n -> Byte]
    BY <1>1, <1>2, <2>1, <2>4, ArrivedType
  <2>6. Fetch(fmt[j], b) \in Ints
    <3> HIDE DEF b
    <3> QED BY <2>1, <2>5, FetchType DEF Byte
  <2>7. r \in Result
    BY <2>6 DEF Result
  <2>8. ASSUME AllNumbers(j)
        PROVE  pos' = Offset(fmt, i + 2) /\ FetchedRight(FormatToJson(fmt)[j], Sent(j), r.n)
    <3>1. pos = Offset(fmt, j)
      BY <1>1, <1>2, <2>1, <2>8
    <3>2. b = Encode(Sent(j), n)
      BY <1>1, <1>2, <2>1, <3>1, ArrivedNumber
    <3>3. j \in DOMAIN fmt /\ Sent(j) \in IntsOf(FormatToJson(fmt)[j])
      BY <1>1, <1>2, <2>1, SentInt, Shapes
    <3>4. FetchedRight(FormatToJson(fmt)[j], Sent(j),
                         Fetch(fmt[j], Encode(Sent(j), n)))
      BY <2>1, <3>3, FetchRight
    <3> QED BY <1>2, <2>1, <3>1, <3>2, <3>4
  <2>9. r.type = "int" <=> FormatToJson(fmt)[j] \in IntType
    BY <1>2, <2>1
  <2> HIDE DEF r
  <2> QED BY <2>1, <2>2, <2>7, <2>8, <2>9, EntryStep
<1>4. CASE GetBuffer
  <2> DEFINE r == [type |-> "buffer", n |-> 0]
  <2>1. /\ pc = "read" /\ i < Len(fmt) /\ fmt[j] \in {"bin", "buf"}
        /\ result' = Append(result, r) /\ i' = j
        /\ UNCHANGED <<pc, fmt, json, isarray, buf, pos>>
    BY <1>1, <1>4 DEF GetBuffer, Reading
  <2>2. fmt[j] \notin Numeric /\ r \in Result
    BY <2>1 DEF Numeric, Result
  <2>3. ~AllNumbers(j)
    BY <1>2, <2>1, <2>2
  <2>4. r.type # "int" /\ FormatToJson(fmt)[j] \notin IntType
    BY <1>2, <2>1, <2>2
  <2>5. pos' \in Nat /\ pos' <= Offset(fmt, i + 2)
    BY <1>1, <1>2, <2>1
  <2> HIDE DEF r
  <2> QED BY <2>1, <2>2, <2>3, <2>4, <2>5, EntryStep
<1>5. CASE ReadOut
  <2>1. /\ UNCHANGED <<fmt, json, isarray, i, buf, pos, result>>
        /\ pc = "read" /\ pc' = "done" /\ i = Len(fmt)
    BY <1>5 DEF ReadOut
  <2>2. Shape'
    BY <1>1, <2>1 DEF Shape
  <2>3. PutSoFar'
    BY <2>1 DEF IInv, PutSoFar
  <2>4. GotSoFar'
    BY <2>1 DEF IInv, GotSoFar, EntryRight, Sent
  <2> QED BY <2>2, <2>3, <2>4 DEF IInv
<1> QED BY <1>3, <1>4, <1>5

\* Every step keeps the invariant.
LEMMA IInvStep == IInv /\ [Next]_vars => IInv'
<1> SUFFICES ASSUME IInv, [Next]_vars PROVE IInv'
  OBVIOUS
<1>1. CASE UNCHANGED vars
  BY <1>1 DEF vars, IInv, Shape, PutSoFar, GotSoFar, Filled, BytesInPlace, EntryRight, Sent
<1>2. CASE Next
  BY <1>2, MarshalStep, ReadStep DEF Next
<1> QED BY <1>1, <1>2

\* The invariant is inductive.
LEMMA Inductive == Spec => []IInv
BY IInvInit, IInvStep, PTL DEF Spec

\* No item starts behind the end.
LEMMA OffsetInSize ==
    ASSUME Shape
    PROVE  Offset(fmt, i + 1) \in Nat /\ Size(fmt) \in Nat
           /\ Offset(fmt, i + 1) <= Size(fmt)
<1>1. /\ Len(fmt) \in Nat /\ i \in Nat /\ i <= Len(fmt)
      /\ \A j \in 1 .. Len(fmt) + 1 : Offset(fmt, j) \in Nat
  BY Shapes
<1>2. Offset(fmt, i + 1) \in Nat /\ Size(fmt) \in Nat
  BY <1>1 DEF Size
<1>3. CASE i = Len(fmt)
  BY <1>2, <1>3 DEF Size
<1>4. CASE i # Len(fmt)
  <2>1. /\ i + 1 \in 1 .. Len(fmt) /\ Len(fmt) + 1 \in 1 .. Len(fmt) + 1
        /\ i + 1 < Len(fmt) + 1
    BY <1>1, <1>4
  <2>2. Offset(fmt, i + 1) + Bytes(fmt[i + 1]) <= Size(fmt)
    BY <1>1, <2>1, OffsetsApart DEF Size
  <2> QED BY <1>2, <2>2, BytesPositive
<1> QED BY <1>2, <1>3, <1>4

---------------------------------------------------------------------------
\* Bytes are bytes, results are JSON integers, and ahttpd_buffer_to_json() never
\* reads behind the end of the buffer.
THEOREM TypeCorrect == Spec => []TypeOK
<1>1. IInv => TypeOK
  <2> SUFFICES ASSUME IInv PROVE TypeOK
    OBVIOUS
  <2>1. Shape /\ pos <= Offset(fmt, i + 1)
    BY DEF IInv, GotSoFar
  <2>2. pos \in 0 .. Size(fmt)
    BY <2>1, OffsetInSize DEF Shape
  <2> QED BY <2>1, <2>2 DEF TypeOK, Shape, Byte
<1> QED BY <1>1, Inductive, PTL

\* Whatever a client sends, ahttpd_buffer_from_json() stays within o->arglen
\* bytes and no call with a number missing or ill-typed reaches the node. Behind
\* binary items that the client's strings fill, the node reads at the offset of
\* a number the client's integer, cut to the type of the item; where all of them
\* are filled the buffer is full.
THEOREM ArgsAlwaysInPlace == Spec => []ArgsInPlace
<1>1. IInv => ArgsInPlace
  <2> SUFFICES ASSUME IInv PROVE ArgsInPlace
    OBVIOUS
  <2>1. Shape /\ DOMAIN fmt = 1 .. Len(fmt)
    BY Shapes DEF IInv
  <2>2. Len(buf) <= Size(fmt)
    <3>1. Len(buf) <= Offset(fmt, i + 1)
      BY DEF IInv, PutSoFar
    <3>2. Len(buf) \in Nat
      BY <2>1 DEF Shape
    <3> QED BY <2>1, <3>1, <3>2, OffsetInSize
  <2>3. ASSUME pc = "sent"
        PROVE  /\ isarray /\ i = Len(fmt)
               /\ \A j \in 1 .. Len(fmt) : fmt[j] \in Numeric =>
                     j <= Len(json) /\ json[j].type = "int"
               /\ Filled(Len(fmt) + 1) => Len(buf) = Size(fmt)
    <3>1. isarray /\ i = Len(fmt)
      BY <2>3 DEF IInv, PutSoFar
    <3>2. Filled(i + 1) => Len(buf) = Offset(fmt, i + 1)
      BY <2>3 DEF IInv, PutSoFar
    <3>3. \A j \in 1 .. i : fmt[j] \in Numeric =>
             j <= Len(json) /\ json[j].type = "int"
      BY <2>3 DEF IInv, PutSoFar
    <3> QED BY <3>1, <3>2, <3>3 DEF Size
  <2>4. ASSUME pc \in {"marshal", "sent"},
               NEW j \in 1 .. i, fmt[j] \in Numeric, Filled(j)
        PROVE  InPlace(j)
    <3> DEFINE n == Bytes(fmt[j])
               o == Offset(fmt, j)
               v == json[j].n
    <3>1. /\ Len(buf) >= o + n /\ Decode(SubSeq(buf, o + 1, o + n)) = v % Pow[n]
          /\ j <= Len(json) /\ json[j].type = "int"
      BY <2>4 DEF IInv, PutSoFar, BytesInPlace
    <3>2. j \in DOMAIN fmt /\ j \in Nat \ {0}
      BY <2>1, Shapes
    <3>3. v \in Int
      BY <2>1, <3>1, <3>2, ValueInt
    <3> DEFINE r == Typed(fmt[j], v % Pow[n])
    <3>4. r % Pow[n] = v % Pow[n] /\ (v \in IntsOf(FormatToJson(fmt)[j]) => r = v)
      BY <2>4, <3>2, <3>3, TypedRight
    <3> QED BY <3>1, <3>4 DEF InPlace
  <2> QED BY <2>1, <2>2, <2>3, <2>4 DEF ArgsInPlace
<1> QED BY <1>1, Inductive, PTL

\* What ahttpd_buffer_to_json() makes of a result has an entry for each item of
\* the format, an integer for exactly the items announced as one. Up to the first
\* binary item or buffer it is the integer the node has sent, in the range of the
\* announced type, except that a uint64_t too large for a JSON integer comes out
\* negative.
THEOREM ResultAlwaysRight == Spec => []ResultRight
<1>1. IInv => ResultRight
  <2> SUFFICES ASSUME IInv PROVE ResultRight
    OBVIOUS
  <2>1. DOMAIN result = 1 .. Len(result)
    BY DEF IInv, Shape
  <2>2. pc = "done" => Len(result) = Len(fmt)
    BY DEF IInv, GotSoFar
  <2>3. \A j \in 1 .. Len(result) : EntryRight(j)
    BY DEF IInv, GotSoFar
  <2> QED BY <2>1, <2>2, <2>3 DEF ResultRight, EntryRight
<1> QED BY <1>1, Inductive, PTL
===========================================================================
