---------------------------- MODULE FieldsProofs ----------------------------
(***************************************************************************)
(* Arithmetic of the integers of a field, for every width of the types:    *)
(* powers of 2, remainders, and that a cast to a type keeps a number that  *)
(* the type can hold.                                                      *)
(***************************************************************************)
EXTENDS Fields, TLAPS, FiniteSetTheorems

-----------------------------------------------------------------------------
(* Powers of 2: the number of subsets of 1..n.                             *)

LEMMA PowerCounts ==
    ASSUME NEW n \in Nat
    PROVE  IsFiniteSet(SUBSET (1..n)) /\ Cardinality(SUBSET (1..n)) = 2^n
<1>1. IsFiniteSet(1..n) /\ Cardinality(1..n) = n
  BY FS_Interval
<1> QED  BY <1>1, FS_SUBSET

LEMMA PowerPositive ==
    ASSUME NEW n \in Nat
    PROVE  2^n \in Nat /\ 2^n > 0
<1>1. 2^n \in Nat
  BY PowerCounts, FS_CardinalityType
<1>2. 2^n # 0
  <2>1. {} \in SUBSET (1..n)
    OBVIOUS
  <2> DEFINE A == SUBSET (1..n)
  <2>2. IsFiniteSet(A) /\ Cardinality(A) = 2^n /\ A # {}
    BY <2>1, PowerCounts
  <2> HIDE DEF A
  <2> QED  BY <2>2, FS_EmptySet
<1> QED  BY <1>1, <1>2

LEMMA PowerGrows ==
    ASSUME NEW n \in Nat, NEW m \in 0..n
    PROVE  2^m <= 2^n
<1>1. SUBSET (1..m) \subseteq SUBSET (1..n) /\ m \in Nat
  OBVIOUS
<1>2. Cardinality(SUBSET (1..m)) <= Cardinality(SUBSET (1..n))
  BY <1>1, PowerCounts, FS_Subset
<1> QED  BY <1>1, <1>2, PowerCounts

\* Half of the subsets have n + 1 in them.
LEMMA PowerDoubles ==
    ASSUME NEW n \in Nat
    PROVE  2^(n + 1) = 2 * 2^n
<1> DEFINE A == SUBSET (1..n)
           B == {X \cup {n + 1} : X \in A}
           f == [X \in A |-> X \cup {n + 1}]
<1>1. n + 1 \in Nat /\ 1..n + 1 = (1..n) \cup {n + 1} /\ n + 1 \notin 1..n
  OBVIOUS
<1>2. SUBSET (1..n + 1) = A \cup B
  <2>1. ASSUME NEW X \in SUBSET (1..n + 1) PROVE X \in A \cup B
    <3>1. CASE n + 1 \in X
      <4>1. X \ {n + 1} \in A /\ X = (X \ {n + 1}) \cup {n + 1}
        BY <1>1, <3>1
      <4> QED  BY <4>1
    <3>2. CASE n + 1 \notin X
      BY <1>1, <3>2
    <3> QED  BY <3>1, <3>2
  <2>2. A \cup B \subseteq SUBSET (1..n + 1)
    BY <1>1
  <2> QED  BY <2>1, <2>2
<1>3. A \cap B = {}
  BY <1>1
<1>4. f \in Bijection(A, B)
  <2>1. f \in [A -> B] /\ \A Y \in B : \E X \in A : f[X] = Y
    OBVIOUS
  <2>2. ASSUME NEW X \in A, NEW Y \in A, f[X] = f[Y] PROVE X = Y
    <3>1. X \cup {n + 1} = Y \cup {n + 1} /\ n + 1 \notin X /\ n + 1 \notin Y
      BY <1>1, <2>2
    <3> QED  BY <3>1
  <2> HIDE DEF A, B, f
  <2> QED  BY <2>1, <2>2 DEF Bijection, Injection, Surjection, IsInjective
<1>5. IsFiniteSet(A) /\ Cardinality(A) = 2^n /\ 2^n \in Nat
  BY PowerCounts, PowerPositive
<1> HIDE DEF A, B, f
<1>6. ExistsBijection(A, B)
  BY <1>4 DEF ExistsBijection
<1>7. IsFiniteSet(B) /\ Cardinality(B) = 2^n
  BY <1>5, <1>6, FS_Bijection
<1>8. Cardinality(A \cup B) = 2^n + 2^n
  <2>1. Cardinality(A \cup B) = Cardinality(A) + Cardinality(B) - Cardinality({})
    BY <1>3, <1>5, <1>7, FS_Union
  <2> QED  BY <1>5, <1>7, <2>1, FS_EmptySet
<1>9. Cardinality(SUBSET (1..n + 1)) = 2^(n + 1)
  BY <1>1, PowerCounts
<1>10. 2^(n + 1) = 2^n + 2^n
  BY <1>2, <1>8, <1>9, Zenon
<1> DEFINE p == 2^n
<1>11. p \in Nat /\ 2^(n + 1) = p + p
  BY <1>5, <1>10
<1> HIDE DEF p
<1>12. 2^(n + 1) = 2 * p
  BY <1>11
<1> QED  BY <1>12 DEF p

\* The two powers in a signed integer's range.
LEMMA HalfPower ==
    ASSUME NEW b \in Nat \ {0}
    PROVE  2^(b - 1) \in Nat /\ 2^(b - 1) > 0 /\ 2^b \in Nat /\ 2^b = 2 * 2^(b - 1)
<1>1. b - 1 \in Nat /\ (b - 1) + 1 = b
  OBVIOUS
<1>2. 2^((b - 1) + 1) = 2 * 2^(b - 1)
  BY <1>1, PowerDoubles
<1> QED  BY <1>1, <1>2, PowerPositive

-----------------------------------------------------------------------------
(* Remainders.                                                             *)

LEMMA ModRange ==
    ASSUME NEW n \in Nat, n > 0, NEW x \in Int
    PROVE  x % n \in 0..n - 1
OBVIOUS

LEMMA ModSmall ==
    ASSUME NEW n \in Nat, NEW x \in 0..n - 1
    PROVE  x % n = x
OBVIOUS

\* A number less than n, and less by n.
LEMMA ModBelow ==
    ASSUME NEW n \in Nat, NEW x \in 0..n - 1
    PROVE  (x - n) % n = x
<1> DEFINE y == x - n  q == y \div n  r == y % n
<1>1. n > 0 /\ y \in Int /\ y < 0 /\ y >= -n
  OBVIOUS
<1>2. q \in Int /\ r \in 0..n - 1 /\ y = n * q + r
  BY <1>1
<1> HIDE DEF q, r
<1>3. q < 0
  <2>1. q >= 0 => n * q >= 0
    BY <1>1, <1>2
  <2> QED  BY <1>1, <1>2, <2>1
<1>4. q >= -1
  <2>1. q <= -2 => n * q <= n * (-2)
    BY <1>1, <1>2
  <2> QED  BY <1>1, <1>2, <2>1
<1>5. q = -1
  BY <1>2, <1>3, <1>4
<1>6. n * q = -n
  BY <1>5
<1>7. r = x
  BY <1>2, <1>6
<1> QED  BY <1>7 DEF r

LEMMA ModAbove ==
    ASSUME NEW n \in Nat, NEW x \in 0..n - 1
    PROVE  (n + x) % n = x
<1> DEFINE y == n + x  q == y \div n  r == y % n
<1>1. n > 0 /\ y \in Int /\ y >= n /\ y < n + n
  OBVIOUS
<1>2. q \in Int /\ r \in 0..n - 1 /\ y = n * q + r
  BY <1>1
<1> HIDE DEF q, r
<1>3. q >= 1
  <2>1. q <= 0 => n * q <= 0
    BY <1>1, <1>2
  <2> QED  BY <1>1, <1>2, <2>1
<1>4. q < 2
  <2>1. q >= 2 => n * q >= n * 2
    BY <1>1, <1>2
  <2> QED  BY <1>1, <1>2, <2>1
<1>5. q = 1
  BY <1>2, <1>3, <1>4
<1>6. n * q = n
  BY <1>5
<1>7. r = x
  BY <1>2, <1>6
<1> QED  BY <1>7 DEF r

\* A multiple of a number, divided by it.
LEMMA DivExact ==
    ASSUME NEW u \in Nat \ {0}, NEW q \in Int
    PROVE  (u * q) \div u = q
<1> DEFINE x == u * q  d == x \div u  r == x % u
<1>1. x \in Int /\ d \in Int /\ r \in 0..u - 1 /\ x = u * d + r
  OBVIOUS
<1> HIDE DEF d, r
<1>2. u * (q - d) = r
  BY <1>1
<1>3. q - d >= 1 => u * (q - d) >= u
  BY <1>1
<1>4. q - d <= -1 => u * (q - d) <= -u
  BY <1>1
<1>5. q = d
  BY <1>1, <1>2, <1>3, <1>4
<1> QED  BY <1>5 DEF d

\* A multiple leaves no remainder.
LEMMA ModExact ==
    ASSUME NEW u \in Nat \ {0}, NEW q \in Int
    PROVE  (u * q) % u = 0
<1> DEFINE x == u * q  d == x \div u  r == x % u
<1>1. x \in Int /\ d \in Int /\ r \in 0..u - 1 /\ x = u * d + r
  OBVIOUS
<1>2. d = q
  BY DivExact
<1> HIDE DEF d, r
<1>3. r = 0
  BY <1>1, <1>2
<1> QED  BY <1>3 DEF r

\* A multiple of a number, negative or not.
LEMMA DivTruncates ==
    ASSUME NEW u \in Nat \ {0}, NEW n \in Int, n % u = 0
    PROVE  n \div u \in Int /\ -((-n) \div u) = n \div u
<1> DEFINE q == n \div u
<1>1. q \in Int /\ n = u * q
  OBVIOUS
<1> HIDE DEF q
<1>2. -n = u * (-q) /\ -q \in Int
  BY <1>1
<1>3. (-n) \div u = -q
  BY <1>2, DivExact
<1> QED  BY <1>1, <1>3 DEF q

-----------------------------------------------------------------------------
(* Casts.                                                                  *)

LEMMA UnsignedInRange ==
    ASSUME NEW b \in Nat, NEW v \in Int
    PROVE  ToUnsigned(v, b) \in UnsignedRange(b) /\ UnsignedRange(b) \subseteq Int
<1> DEFINE p == 2^b
<1>1. p \in Nat /\ p > 0
  BY PowerPositive
<1> HIDE DEF p
<1>2. v % p \in 0..p - 1 /\ 0..p - 1 \subseteq Int
  BY <1>1
<1> QED  BY <1>2 DEF ToUnsigned, UnsignedRange, p

LEMMA SignedInRange ==
    ASSUME NEW b \in Nat \ {0}, NEW v \in Int
    PROVE  ToSigned(v, b) \in SignedRange(b) /\ SignedRange(b) \subseteq Int
<1> DEFINE h == 2^(b - 1)  p == 2^b
<1>1. h \in Nat /\ h > 0 /\ p \in Nat /\ p = 2 * h
  BY HalfPower
<1> HIDE DEF h, p
<1>2. (v + h) % p \in 0..p - 1
  BY <1>1
<1>3. ((v + h) % p) - h \in -h..h - 1 /\ -h..h - 1 \subseteq Int
  BY <1>1, <1>2
<1> QED  BY <1>3 DEF ToSigned, SignedRange, h, p

LEMMA UnsignedKeeps ==
    ASSUME NEW b \in Nat, NEW v \in UnsignedRange(b)
    PROVE  ToUnsigned(v, b) = v
<1> DEFINE p == 2^b
<1>1. p \in Nat /\ v \in 0..p - 1
  BY PowerPositive DEF UnsignedRange
<1> HIDE DEF p
<1>2. v % p = v
  BY <1>1, ModSmall
<1> QED  BY <1>2 DEF ToUnsigned, p

LEMMA SignedKeeps ==
    ASSUME NEW b \in Nat \ {0}, NEW v \in SignedRange(b)
    PROVE  ToSigned(v, b) = v
<1> DEFINE h == 2^(b - 1)  p == 2^b
<1>1. h \in Nat /\ h > 0 /\ p \in Nat /\ p = 2 * h /\ v \in -h..h - 1
  BY HalfPower DEF SignedRange, Sint64
<1> HIDE DEF h, p
<1>2. v + h \in 0..p - 1
  BY <1>1
<1>3. (v + h) % p = v + h
  BY <1>1, <1>2, ModSmall
<1>4. ((v + h) % p) - h = v
  BY <1>1, <1>3
<1> QED  BY <1>4 DEF ToSigned, h, p

\* A larger type holds what a smaller one does.
LEMMA RangesGrow ==
    ASSUME NEW b \in Nat \ {0}, NEW a \in 1..b
    PROVE  /\ UnsignedRange(a) \subseteq UnsignedRange(b)
           /\ SignedRange(a) \subseteq SignedRange(b)
           /\ a < b => UnsignedRange(a) \subseteq SignedRange(b)
<1>1. a \in 0..b /\ a - 1 \in 0..b - 1 /\ b - 1 \in Nat /\ a \in Nat
  OBVIOUS
<1> DEFINE pa == 2^a  pb == 2^b  ha == 2^(a - 1)  hb == 2^(b - 1)
<1>2. pa \in Nat /\ pb \in Nat /\ pa <= pb
  BY <1>1, PowerPositive, PowerGrows
<1>3. ha \in Nat /\ hb \in Nat /\ ha <= hb
  BY <1>1, PowerPositive, PowerGrows
<1>4. a < b => pa <= hb
  <2>1. a < b => a \in 0..b - 1
    BY <1>1
  <2> QED  BY <1>1, <2>1, PowerGrows
<1> HIDE DEF pa, pb, ha, hb
<1>5. 0..pa - 1 \subseteq 0..pb - 1 /\ -ha..ha - 1 \subseteq -hb..hb - 1
  BY <1>2, <1>3
<1>6. a < b => 0..pa - 1 \subseteq -hb..hb - 1
  BY <1>2, <1>3, <1>4
<1> QED  BY <1>5, <1>6 DEF UnsignedRange, SignedRange, pa, pb, ha, hb

\* Passing an unsigned number through the signed type of the same width.
LEMMA UnsignedSurvives ==
    ASSUME NEW b \in Nat \ {0}, NEW v \in UnsignedRange(b)
    PROVE  ToUnsigned(ToSigned(v, b), b) = v
<1> DEFINE h == 2^(b - 1)  p == 2^b
<1>1. h \in Nat /\ h > 0 /\ p \in Nat /\ p = 2 * h /\ v \in 0..p - 1
  BY HalfPower DEF UnsignedRange
<1> HIDE DEF h, p
<1>2. CASE v < h
  <2>1. (v + h) % p = v + h
    BY <1>1, <1>2, ModSmall
  <2>2. (((v + h) % p) - h) % p = v
    BY <1>1, <2>1, ModSmall
  <2> QED  BY <2>2 DEF ToSigned, ToUnsigned, h, p
<1>3. CASE v >= h
  <2>1. v - h \in 0..p - 1 /\ (v + h) - p = v - h /\ v + h = p + (v - h)
    BY <1>1, <1>3
  <2>2. (v + h) % p = v - h
    BY <1>1, <1>3, <2>1, ModAbove
  <2>3. ((v + h) % p) - h = v - p
    BY <1>1, <2>2
  <2>4. (((v + h) % p) - h) % p = v
    BY <1>1, <2>3, ModBelow
  <2> QED  BY <2>4 DEF ToSigned, ToUnsigned, h, p
<1> QED  BY <1>1, <1>2, <1>3

\* The types with a width.
LEMMA BitsType ==
    ASSUME NEW t \in IntTypes
    PROVE  /\ Bits(t) \in Nat \ {0} /\ Width["LONGLONG"] \in Nat \ {0}
           /\ Bits(t) \in 1..Width["LONGLONG"]
           /\ t \in Sized => Bits(t) = Width[t]
<1>1. "LONGLONG" \in Sized /\ "TIMESTAMP" \notin Sized
  BY DEF Sized
<1>2. Width["LONGLONG"] \in Nat \ {0}
  BY <1>1, WidthAssumption
<1>3. CASE t = "TIMESTAMP"
  BY <1>1, <1>2, <1>3 DEF Bits
<1>4. CASE t \in Sized
  <2>1. Bits(t) = Width[t]
    BY <1>1, <1>4 DEF Bits
  <2>2. Width[t] \in Nat \ {0} /\ Width[t] <= Width["LONGLONG"]
    BY <1>2, <1>4, WidthAssumption
  <2> QED  BY <1>2, <1>4, <2>1, <2>2
<1> QED  BY <1>3, <1>4 DEF IntTypes

\* `_val = v` in an integer field: within the range of its type, and v if it is.
LEMMA CastInRange ==
    ASSUME NEW d, d.type \in IntTypes, NEW v \in Int
    PROVE  /\ Cast(v, d) \in RangeOf(d) /\ RangeOf(d) \subseteq Int
           /\ v \in RangeOf(d) => Cast(v, d) = v
<1>1. Bits(d.type) \in Nat \ {0} /\ Bits(d.type) \in Nat
  BY BitsType
<1>2. CASE d.unsigned
  <2>1. Cast(v, d) = ToUnsigned(v, Bits(d.type)) /\ RangeOf(d) = UnsignedRange(Bits(d.type))
    BY <1>2 DEF Cast, RangeOf
  <2> QED  BY <1>1, <2>1, UnsignedInRange, UnsignedKeeps
<1>3. CASE ~d.unsigned
  <2>1. Cast(v, d) = ToSigned(v, Bits(d.type)) /\ RangeOf(d) = SignedRange(Bits(d.type))
    BY <1>3 DEF Cast, RangeOf
  <2> QED  BY <1>1, <2>1, SignedInRange, SignedKeeps
<1> QED  BY <1>2, <1>3

\* 0 is in the range of every integer type.
LEMMA ZeroInRange ==
    ASSUME NEW d, d.type \in IntTypes
    PROVE  0 \in RangeOf(d)
<1>1. Bits(d.type) \in Nat \ {0}
  BY BitsType
<1> DEFINE b == Bits(d.type)  p == 2^b  h == 2^(b - 1)
<1>2. p \in Nat /\ p > 0 /\ h \in Nat /\ h > 0
  BY <1>1, PowerPositive, HalfPower
<1>3. RangeOf(d) = IF d.unsigned THEN 0..p - 1 ELSE -h..h - 1
  BY DEF RangeOf, UnsignedRange, SignedRange
<1> HIDE DEF b, p, h
<1> QED  BY <1>2, <1>3

\* atoll saturates, and keeps what a sint64 can be.
LEMMA AtollInRange ==
    ASSUME NEW n \in Int
    PROVE  /\ Atoll(n) \in Sint64
           /\ n \in Sint64 => Atoll(n) = n
<1> DEFINE h == 2^(Width["LONGLONG"] - 1)
<1>1. h \in Nat /\ h > 0
  <2>1. Width["LONGLONG"] \in Nat \ {0}
    BY WidthAssumption DEF Sized
  <2> QED  BY <2>1, HalfPower
<1>2. Atoll(n) = IF n >= h THEN h - 1 ELSE IF n < -h THEN -h ELSE n
  BY DEF Atoll
<1>3. Sint64 = -h..h - 1
  BY DEF SignedRange, Sint64
<1> HIDE DEF h
<1> QED  BY <1>1, <1>2, <1>3

\* What a field of the type holds is read back from its digits.
LEMMA DigitsReadBack ==
    ASSUME NEW d, d.type \in IntTypes, NEW v \in RangeOf(d),
           v < 2^(Width["LONGLONG"] - 1)
    PROVE  v \in Sint64 /\ Cast(Atoll(v), d) = v
<1> DEFINE h == 2^(Width["LONGLONG"] - 1)
<1>1. /\ Bits(d.type) \in Nat \ {0} /\ Width["LONGLONG"] \in Nat \ {0}
      /\ Bits(d.type) \in 1..Width["LONGLONG"]
  BY BitsType
<1>2. h \in Nat /\ v < h /\ Sint64 = -h..h - 1
  BY <1>1, HalfPower DEF SignedRange, Sint64
<1>3. v \in Int
  BY CastInRange, 0 \in Int
<1>4. v \in -h..h - 1
  <2>1. CASE d.unsigned
    <3> DEFINE p == 2^Bits(d.type)
    <3>1. v \in 0..p - 1 /\ p \in Nat
      BY <1>1, <2>1, PowerPositive DEF RangeOf, UnsignedRange
    <3> HIDE DEF p, h
    <3> QED  BY <1>2, <3>1
  <2>2. CASE ~d.unsigned
    <3>1. RangeOf(d) \subseteq Sint64
      BY <1>1, <2>2, RangesGrow DEF RangeOf, Sint64
    <3> QED  BY <1>2, <3>1
  <2> QED  BY <2>1, <2>2
<1>5. Atoll(v) = v
  BY <1>2, <1>3, <1>4, AtollInRange
<1> QED  BY <1>2, <1>3, <1>4, <1>5, CastInRange

-----------------------------------------------------------------------------
(* Doubles.                                                                *)

\* The numbers up to 2^Mantissa are as near to each other as integers are.
LEMMA SpacingType ==
    ASSUME NEW m \in Nat
    PROVE  /\ Spacing(m) \in Nat /\ Spacing(m) > 0
           /\ m <= 2^Mantissa => Spacing(m) = 1
<1> DEFINE A == {j \in Mantissa..Width["LONGLONG"] - 1 : 2^j < m}
           I == Mantissa..Width["LONGLONG"] - 1
<1>1. Mantissa \in Nat /\ Width["LONGLONG"] \in Nat
  BY WidthAssumption DEF Sized
<1>2. IsFiniteSet(I) /\ A \subseteq I
  BY <1>1, FS_Interval
<1>3. Cardinality(A) \in Nat
  <2> HIDE DEF A, I
  <2> QED  BY <1>2, FS_Subset, FS_CardinalityType
<1>4. Spacing(m) = 2^Cardinality(A)
  BY DEF Spacing
<1>5. ASSUME m <= 2^Mantissa PROVE A = {}
  <2>1. ASSUME NEW j \in I PROVE ~(2^j < m)
    <3>1. j \in Nat /\ Mantissa \in 0..j
      BY <1>1
    <3>2. 2^Mantissa <= 2^j
      BY <3>1, PowerGrows
    <3> DEFINE p == 2^j  q == 2^Mantissa
    <3>3. p \in Nat /\ q \in Nat /\ q <= p /\ m <= q
      BY <1>1, <1>5, <3>1, <3>2, PowerPositive
    <3> HIDE DEF p, q
    <3>4. ~(p < m)
      BY <3>3
    <3> QED  BY <3>4 DEF p
  <2> QED  BY <2>1
<1>6. 2^0 = 1
  BY PowerCounts
<1> HIDE DEF A
<1>7. ASSUME m <= 2^Mantissa PROVE Spacing(m) = 1
  BY <1>4, <1>5, <1>6, <1>7, FS_EmptySet
<1> QED  BY <1>3, <1>4, <1>7, PowerPositive

LEMMA NearestType ==
    ASSUME NEW m \in Nat
    PROVE  Nearest(m) \in Nat /\ (m <= 2^Mantissa => Nearest(m) = m)
<1> DEFINE s == Spacing(m)
<1>1. s \in Nat /\ s > 0 /\ (m <= 2^Mantissa => s = 1)
  BY SpacingType
<1> DEFINE q == m \div s  r == m % s
<1>2. Nearest(m) = IF 2 * r < s \/ (2 * r = s /\ q % 2 = 0) THEN s * q ELSE s * (q + 1)
  BY DEF Nearest
<1> HIDE DEF s
<1>3. q \in Nat /\ r \in 0..s - 1
  BY <1>1
<1>4. s = 1 => q = m /\ r = 0
  BY <1>1
<1> HIDE DEF q, r
<1>5. s * q \in Nat /\ s * (q + 1) \in Nat
  BY <1>1, <1>3
<1>6. s = 1 => s * q = m /\ 2 * r < s
  BY <1>3, <1>4
<1> QED  BY <1>1, <1>2, <1>5, <1>6

\* An integer becomes a double, the same up to 2^Mantissa.
LEMMA ToDoubleType ==
    ASSUME NEW n \in Int
    PROVE  /\ ToDouble(n) \in Int
           /\ n \in -(2^Mantissa)..2^Mantissa => ToDouble(n) = n
<1> DEFINE p == 2^Mantissa
<1>1. p \in Nat
  BY WidthAssumption, PowerPositive
<1>2. \A m \in Nat : Nearest(m) \in Nat /\ (m <= p => Nearest(m) = m)
  BY NearestType
<1> HIDE DEF p
<1>3. ToDouble(n) \in Int /\ (n \in -p..p => ToDouble(n) = n)
  <2>1. CASE n < 0
    <3>1. -n \in Nat
      BY <2>1
    <3> QED  BY <1>1, <1>2, <2>1, <3>1 DEF ToDouble
  <2>2. CASE ~(n < 0)
    BY <1>1, <1>2, <2>2 DEF ToDouble
  <2> QED  BY <2>1, <2>2
<1> QED  BY <1>3 DEF p
=============================================================================
