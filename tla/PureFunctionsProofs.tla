-------------------------- MODULE PureFunctionsProofs --------------------------
(***************************************************************************)
(* The algorithms without state, for every value of the constants: bytes   *)
(* of any number of values, fields of a version of any numbers of bits.    *)
(* A number is proved equal to another by its digits; what is defined by   *)
(* recursion along a number is proved by well-ordering (SetInduction).     *)
(***************************************************************************)
EXTENDS PureFunctions, DebugBlockProofs, NaturalsInduction, WellFoundedInduction, TLAPS

\* Induction over a set of numbers, by the least number outside of it.
LEMMA SetInduction ==
  ASSUME NEW S, 0 \in S, \A k \in Nat : k \in S => k + 1 \in S
  PROVE  Nat \subseteq S
<1> DEFINE R == {ss \in Nat \X Nat : ss[1] < ss[2]}
           T == Nat \ S
<1>1. IsWellFoundedOn(R, Nat)
  BY NatLessThanWellFounded DEF OpToRel
<1>2. SUFFICES ASSUME T # {} PROVE FALSE
  OBVIOUS
<1>3. PICK d \in T : \A e \in T : <<e, d>> \notin R
  <2> HIDE DEF R
  <2>1. T \subseteq Nat
    OBVIOUS
  <2> HIDE DEF T
  <2>2. QED
    BY <1>1, <1>2, <2>1, WFMin
<1>4. d # 0 /\ d - 1 \in Nat
  OBVIOUS
<1>5. d - 1 \in S
  <2>1. <<d - 1, d>> \in R
    BY <1>4
  <2>2. d - 1 \notin T
    BY <1>3, <2>1
  <2>3. QED
    BY <1>4, <2>2
<1>6. (d - 1) + 1 \in S
  BY <1>4, <1>5
<1>7. QED
  BY <1>3, <1>6

\* Division with remainder,
LEMMA DivMod ==
  ASSUME NEW v \in Nat, NEW d \in Nat \ {0}
  PROVE  /\ v \div d \in Nat
         /\ v % d \in 0..(d - 1)
         /\ v = (v \div d) * d + (v % d)
BY SMT

\* A product is not smaller than its other factor.
LEMMA ProductGrows ==
  ASSUME NEW a \in Nat \ {0}, NEW b \in Nat
  PROVE  a * b >= b /\ a * b \in Nat
BY SMT

\* its uniqueness,
LEMMA DivIs ==
  ASSUME NEW d \in Nat \ {0}, NEW q \in Nat, NEW r \in 0..(d - 1)
  PROVE  (q * d + r) \div d = q /\ (q * d + r) % d = r
<1>1. PICK x : x = q * d + r
  OBVIOUS
<1>2. x \in Nat
  BY <1>1
<1>3. x \div d \in Nat /\ x % d \in 0..(d - 1) /\ x = (x \div d) * d + (x % d)
  BY <1>2, DivMod
<1>4. PICK s \in Nat, t \in 0..(d - 1) : s = x \div d /\ t = x % d
  BY <1>3
<1>5. s * d + t = q * d + r
  BY <1>1, <1>3, <1>4
<1>6. ~(s < q)
  <2> SUFFICES ASSUME s < q PROVE FALSE
    OBVIOUS
  <2>1. PICK e \in Nat : q = s + 1 + e
    BY SMT
  <2>2. q * d = s * d + d + e * d /\ e * d \in Nat
    BY <2>1, SMT
  <2>3. s * d \in Nat /\ q * d \in Nat
    OBVIOUS
  <2>4. QED
    BY <1>5, <2>2, <2>3
<1>7. ~(q < s)
  <2> SUFFICES ASSUME q < s PROVE FALSE
    OBVIOUS
  <2>1. PICK e \in Nat : s = q + 1 + e
    BY SMT
  <2>2. s * d = q * d + d + e * d /\ e * d \in Nat
    BY <2>1, SMT
  <2>3. s * d \in Nat /\ q * d \in Nat
    OBVIOUS
  <2>4. QED
    BY <1>5, <2>2, <2>3
<1>8. s = q
  BY <1>6, <1>7
<1>9. t = r
  BY <1>5, <1>8
<1>10. QED
  BY <1>1, <1>4, <1>8, <1>9

\* and division by a product.
LEMMA DivTwice ==
  ASSUME NEW v \in Nat, NEW a \in Nat \ {0}, NEW b \in Nat \ {0}
  PROVE  (v \div a) \div b = v \div (a * b)
<1>1. PICK q \in Nat, r \in 0..(a - 1) : q = v \div a /\ v = q * a + r
  BY DivMod
<1>2. PICK s \in Nat, t \in 0..(b - 1) : s = q \div b /\ q = s * b + t
  BY DivMod
<1>3. t * a + r \in 0..(a * b - 1)
  <2>1. PICK e \in Nat : b = t + 1 + e
    BY SMT
  <2>2. a * b = t * a + a + e * a /\ e * a \in Nat /\ t * a \in Nat
    BY <2>1, SMT
  <2>3. QED
    BY <2>2
<1>4. v = s * (a * b) + (t * a + r)
  <2>1. (s * b + t) * a = s * (a * b) + t * a
    BY SMT
  <2>2. PICK e \in Nat : e = s * (a * b)
    BY SMT
  <2>3. PICK f \in Nat : f = t * a
    BY SMT
  <2>4. v = (e + f) + r
    BY <1>1, <1>2, <2>1, <2>2, <2>3
  <2>5. QED
    BY <2>2, <2>3, <2>4
<1>5. a * b \in Nat \ {0}
  BY SMT
<1>6. v \div (a * b) = s
  <2>1. PICK d \in Nat \ {0} : d = a * b
    BY <1>5
  <2>2. PICK m \in 0..(d - 1) : m = t * a + r
    BY <1>3, <2>1
  <2>3. (s * d + m) \div d = s
    BY DivIs
  <2>4. QED
    BY <1>4, <2>1, <2>2, <2>3
<1>7. QED
  BY <1>1, <1>2, <1>6

\* Powers up to top, from how they begin and go on.
LEMMA PowersOf ==
  ASSUME NEW base \in Nat \ {0}, NEW top \in Nat,
         base^0 = 1, \A k \in 0..(top - 1) : base^(k + 1) = base^k * base
  PROVE  /\ \A k \in 0..top : base^k \in Nat \ {0}
         /\ \A i, j \in Nat : i + j <= top => base^(i + j) = base^i * base^j
<1>1. ASSUME NEW i \in Nat, i <= top PROVE base^i \in Nat \ {0}
  <2> DEFINE S == {k \in Nat : k <= top => base^k \in Nat \ {0}}
  <2>1. 0 \in S
    OBVIOUS
  <2>2. ASSUME NEW k \in Nat, k \in S PROVE k + 1 \in S
    <3> SUFFICES ASSUME k + 1 <= top PROVE base^(k + 1) \in Nat \ {0}
      OBVIOUS
    <3>1. base^(k + 1) = base^k * base
      <4>1. k \in 0..(top - 1)
        OBVIOUS
      <4>2. QED
        BY <4>1
    <3>2. PICK p \in Nat \ {0} : p = base^k
      BY <2>2
    <3>3. p * base \in Nat \ {0}
      BY ProductGrows
    <3>4. QED
      BY <3>1, <3>2, <3>3
  <2>3. Nat \subseteq S
    <3> HIDE DEF S
    <3>1. QED
      BY <2>1, <2>2, SetInduction
  <2>4. QED
    BY <1>1, <2>3
<1>2. ASSUME NEW i \in Nat, NEW j \in Nat, i + j <= top
      PROVE  base^(i + j) = base^i * base^j
  <2> DEFINE S == {k \in Nat : i + k <= top => base^(i + k) = base^i * base^k}
  <2>1. 0 \in S
    <3> SUFFICES ASSUME i <= top PROVE base^i = base^i * base^0
      OBVIOUS
    <3>1. PICK p \in Nat : p = base^i
      BY <1>1
    <3>2. QED
      BY <3>1
  <2>2. ASSUME NEW k \in Nat, k \in S PROVE k + 1 \in S
    <3> SUFFICES ASSUME i + (k + 1) <= top
                 PROVE  base^(i + (k + 1)) = base^i * base^(k + 1)
      OBVIOUS
    <3>1. base^((i + k) + 1) = base^(i + k) * base /\ base^(k + 1) = base^k * base
      <4>1. i + k \in 0..(top - 1) /\ k \in 0..(top - 1)
        OBVIOUS
      <4>2. QED
        BY <4>1
    <3>2. i + (k + 1) = (i + k) + 1
      OBVIOUS
    <3>3. PICK p \in Nat, q \in Nat : p = base^i /\ q = base^k
      BY <1>1
    <3>4. base^(i + k) = p * q
      BY <2>2, <3>3
    <3>5. (p * q) * base = p * (q * base)
      BY SMT
    <3>6. QED
      BY <3>1, <3>2, <3>3, <3>4, <3>5
  <2>3. Nat \subseteq S
    <3> HIDE DEF S
    <3>1. QED
      BY <2>1, <2>2, SetInduction
  <2>4. QED
    BY <1>2, <2>3
<1>3. QED
  BY <1>1, <1>2

\* The powers of the base.
LEMMA BytePowers ==
  /\ \A k \in 0..16 : Base^k \in Nat \ {0}
  /\ \A i, j \in Nat : i + j <= 16 => Base^(i + j) = Base^i * Base^j
<1>1. PICK b \in Nat \ {0} : b = Base
  BY BaseAssumption
<1>2. b^0 = 1 /\ \A k \in 0..(16 - 1) : b^(k + 1) = b^k * b
  <2>1. 16 - 1 = 15
    OBVIOUS
  <2>2. QED
    BY <1>1, <2>1, PowersOfBase, Zenon
<1>3. /\ \A k \in 0..16 : b^k \in Nat \ {0}
      /\ \A i, j \in Nat : i + j <= 16 => b^(i + j) = b^i * b^j
  <2>1. 16 \in Nat
    OBVIOUS
  <2>2. QED
    BY <1>2, <2>1, PowersOf, Zenon
<1>4. QED
  BY <1>1, <1>3, Zenon

\* They are positive,
LEMMA PowerIs == \A k \in 0..16 : Base^k \in Nat \ {0}
BY BytePowers

\* and their exponents add.
LEMMA PowersAdd ==
  ASSUME NEW i \in Nat, NEW j \in Nat, i + j <= 16
  PROVE  Base^(i + j) = Base^i * Base^j
BY BytePowers
-----------------------------------------------------------------------------
\* Byte i of v, and: the n bytes of v are d[f], d[f + 1] and so on.
Digit(v, i) == Shr(v, i) % Base

Bytes(d, f, n) == \A i \in 0..(n - 1) : d[f + i] \in 0..(Base - 1)

Shows(v, n, d, f) == /\ v \in 0..(Base^n - 1)
                     /\ \A i \in 0..(n - 1) : Digit(v, i) = d[f + i]

\* A byte of a number is one.
LEMMA DigitIn ==
  ASSUME NEW v \in Nat, NEW i \in 0..16
  PROVE  Shr(v, i) \in Nat /\ Digit(v, i) \in 0..(Base - 1)
<1>1. PICK p \in Nat \ {0} : p = Base^i
  BY PowerIs
<1>2. PICK q \in Nat : q = v \div p
  BY DivMod
<1>3. q % Base \in 0..(Base - 1)
  BY BaseAssumption, DivMod
<1>4. QED
  BY <1>1, <1>2, <1>3 DEF Shr, Digit

\* A number of one byte is its byte.
LEMMA LowDigit ==
  ASSUME NEW v \in 0..(Base - 1)
  PROVE  Digit(v, 0) = v
<1>1. v = 0 * Base + v /\ v \in Nat /\ Base \in Nat \ {0}
  BY BaseAssumption
<1>2. v % Base = v
  BY <1>1, DivIs
<1>3. v = v * 1 + 0 /\ 0 \in 0..(1 - 1)
  BY <1>1
<1>4. v \div 1 = v
  BY <1>1, <1>3, DivIs
<1>5. QED
  BY <1>2, <1>4, PowersOfBase DEF Digit, Shr

\* Bytes above the lowest k, and those below.
LEMMA HighPart ==
  ASSUME NEW x \in Nat, NEW k \in Nat, NEW i \in Nat, k + i <= 16,
         NEW y \in 0..(Base^k - 1)
  PROVE  Shr(x * Base^k + y, k + i) = Shr(x, i)
<1>1. PICK p \in Nat \ {0} : p = Base^k
  BY PowerIs
<1>2. PICK q \in Nat \ {0} : q = Base^i
  BY PowerIs
<1>3. Base^(k + i) = p * q
  BY <1>1, <1>2, PowersAdd
<1>4. x * p + y \in Nat /\ (x * p + y) \div p = x
  <2>1. y \in 0..(p - 1)
    BY <1>1
  <2>2. x * p \in Nat
    OBVIOUS
  <2>3. QED
    BY <2>1, <2>2, DivIs
<1>5. ((x * p + y) \div p) \div q = (x * p + y) \div (p * q)
  BY <1>4, DivTwice
<1>6. QED
  BY <1>1, <1>2, <1>3, <1>4, <1>5 DEF Shr

\* The bytes of a number below another are its own.
LEMMA LowPart ==
  ASSUME NEW x \in Nat, NEW k \in 0..16, NEW y \in 0..(Base^k - 1), NEW i \in 0..(k - 1)
  PROVE  Digit(x * Base^k + y, i) = Digit(y, i)
<1>1. PICK p \in Nat \ {0} : p = Base^i
  BY PowerIs
<1>2. PICK e \in Nat : k = i + (e + 1)
  BY SMT
<1>3. PICK q \in Nat \ {0} : q = Base^e
  BY <1>2, PowerIs
<1>4. Base^k = p * (q * Base)
  <2>1. e \in 0..15 /\ e + 1 \in Nat /\ i \in Nat /\ i + (e + 1) <= 16
    BY <1>2
  <2>2. Base^(e + 1) = q * Base
    BY <1>3, <2>1, PowersOfBase
  <2>3. Base^(i + (e + 1)) = Base^i * Base^(e + 1)
    BY <2>1, PowersAdd
  <2>4. QED
    BY <1>1, <1>2, <2>2, <2>3
<1>5. y \in Nat
  <2>1. Base^k \in Nat
    BY PowerIs
  <2>2. QED
    BY <2>1
<1>6. PICK s \in Nat, r \in 0..(p - 1) : y = s * p + r /\ s = y \div p
  BY <1>5, DivMod
<1>7. x * Base^k + y = ((x * q) * Base + s) * p + r
  <2>1. x * (p * (q * Base)) = ((x * q) * Base) * p
    BY BaseAssumption, SMT
  <2>2. PICK g \in Nat : g = (x * q) * Base
    BY BaseAssumption, SMT
  <2>3. (g + s) * p = g * p + s * p /\ g * p \in Nat /\ s * p \in Nat
    BY SMT
  <2>4. QED
    BY <1>4, <1>6, <2>1, <2>2, <2>3
<1>8. PICK g \in Nat : g = x * q
  BY SMT
<1>9. PICK h \in Nat : h = g * Base + s
  BY BaseAssumption, SMT
<1>10. (h * p + r) \div p = h
  BY DivIs
<1>11. h % Base = s % Base
  <2>1. PICK u \in Nat, w \in 0..(Base - 1) : s = u * Base + w /\ w = s % Base
    BY BaseAssumption, DivMod
  <2>2. h = (g + u) * Base + w
    <3>1. (g + u) * Base = g * Base + u * Base /\ g * Base \in Nat /\ u * Base \in Nat
      BY BaseAssumption, SMT
    <3>2. QED
      BY <1>9, <2>1, <3>1
  <2>3. PICK gu \in Nat : gu = g + u
    OBVIOUS
  <2>4. (gu * Base + w) % Base = w
    BY BaseAssumption, DivIs
  <2>5. QED
    BY <2>1, <2>2, <2>3, <2>4
<1>12. QED
  BY <1>1, <1>6, <1>7, <1>8, <1>9, <1>10, <1>11 DEF Digit, Shr

\* Numbers put one above the other have the bytes of both.
LEMMA Joined ==
  ASSUME NEW k \in Nat, NEW m \in Nat, k + m <= 16, NEW d, NEW f \in Nat,
         NEW y, Shows(y, k, d, f), NEW x, Shows(x, m, d, f + k)
  PROVE  Shows(x * Base^k + y, m + k, d, f)
<1>1. PICK p \in Nat \ {0}, q \in Nat \ {0} : p = Base^k /\ q = Base^m
  BY PowerIs
<1>2. Base^(m + k) = q * p
  BY <1>1, PowersAdd
<1>3. x \in 0..(q - 1) /\ y \in 0..(p - 1)
  BY <1>1 DEF Shows
<1> x \in Nat /\ y \in 0..(Base^k - 1) /\ k \in 0..16
  BY <1>1, <1>3
<1>4. x * p + y \in 0..(q * p - 1)
  <2>1. PICK e \in Nat : q = x + 1 + e
    BY <1>3, SMT
  <2>2. q * p = x * p + p + e * p /\ e * p \in Nat /\ x * p \in Nat
    BY <1>3, <2>1, SMT
  <2>3. QED
    BY <1>3, <2>2
<1>5. ASSUME NEW i \in 0..(m + k - 1)
      PROVE  Digit(x * Base^k + y, i) = d[f + i]
  <2>1. CASE i < k
    <3>1. Digit(x * Base^k + y, i) = Digit(y, i)
      <4>1. i \in 0..(k - 1)
        BY <2>1
      <4>2. QED
        BY <4>1, LowPart
    <3>2. QED
      BY <2>1, <3>1 DEF Shows
  <2>2. CASE i >= k
    <3>1. PICK j \in 0..(m - 1) : i = k + j
      BY <2>2, SMT
    <3>2. Shr(x * Base^k + y, k + j) = Shr(x, j)
      <4>1. j \in Nat /\ k + j <= 16
        BY <3>1
      <4>2. QED
        BY <4>1, HighPart
    <3>3. Digit(x, j) = d[(f + k) + j]
      BY DEF Shows
    <3>4. (f + k) + j = f + i
      BY <3>1
    <3>5. QED
      BY <3>1, <3>2, <3>3, <3>4 DEF Digit
  <2>3. QED
    BY <2>1, <2>2
<1>6. QED
  BY <1>1, <1>2, <1>4, <1>5 DEF Shows

\* A number is shifted twice like once by the sum.
LEMMA Scaled ==
  ASSUME NEW c \in Nat, NEW i \in Nat, NEW k \in Nat, i + k <= 16
  PROVE  /\ (c * Base^i) * Base^k = c * Base^(i + k)
         /\ c * Base^i \in Nat
<1>1. PICK p \in Nat, q \in Nat : p = Base^i /\ q = Base^k
  BY PowerIs
<1>2. Base^(i + k) = p * q
  BY <1>1, PowersAdd
<1>3. (c * p) * q = c * (p * q) /\ c * p \in Nat
  BY SMT
<1>4. QED
  BY <1>1, <1>2, <1>3

\* A number put together of one byte shows it,
LEMMA One ==
  ASSUME NEW d, NEW f \in Nat, d[f] \in 0..(Base - 1)
  PROVE  Shows(d[f], 1, d, f)
<1>1. Base^1 = Base
  <2>1. Base^(0 + 1) = Base^0 * Base
    BY PowersOfBase
  <2>2. QED
    BY <2>1, BaseAssumption, PowersOfBase
<1>2. Digit(d[f], 0) = d[f]
  BY LowDigit
<1>3. QED
  BY <1>1, <1>2 DEF Shows

\* one of two bytes shows both,
LEMMA Two ==
  ASSUME NEW d, NEW f \in Nat, Bytes(d, f, 2)
  PROVE  Shows(d[f + 1] * Base^1 + d[f], 2, d, f)
<1>1. d[f] \in 0..(Base - 1) /\ d[f + 1] \in 0..(Base - 1)
  <2>1. f + 0 = f
    OBVIOUS
  <2>2. QED
    BY <2>1 DEF Bytes
<1>2. Shows(d[f], 1, d, f) /\ Shows(d[f + 1], 1, d, f + 1)
  BY <1>1, One
<1>3. Shows(d[f + 1] * Base^1 + d[f], 1 + 1, d, f)
  BY <1>2, Joined
<1>4. QED
  BY <1>3

\* the sum of four bytes in halves,
LEMMA FourRegrouped ==
  ASSUME NEW c0 \in Nat, NEW c1 \in Nat, NEW c2 \in Nat, NEW c3 \in Nat
  PROVE  (c3 * Base^1 + c2) * Base^2 + (c1 * Base^1 + c0)
           = c3 * Base^3 + c2 * Base^2 + c1 * Base^1 + c0
<1>1. 1 \in Nat /\ 2 \in Nat /\ 1 + 2 <= 16 /\ 1 + 2 = 3
  OBVIOUS
<1>2. (c3 * Base^1) * Base^2 = c3 * Base^3 /\ c3 * Base^1 \in Nat
  BY <1>1, Scaled
<1>3. c1 * Base^1 \in Nat
  BY <1>1, Scaled
<1>4. PICK p \in Nat : p = Base^2
  BY PowerIs
<1>5. PICK e \in Nat : e = c3 * Base^1
  BY <1>2
<1>6. PICK g \in Nat : g = c1 * Base^1
  BY <1>3
<1>7. (e + c2) * p + (g + c0) = e * p + c2 * p + g + c0
  <2>1. (e + c2) * p = e * p + c2 * p /\ e * p \in Nat /\ c2 * p \in Nat
    BY SMT
  <2>2. QED
    BY <2>1
<1>8. QED
  BY <1>2, <1>4, <1>5, <1>6, <1>7

\* one of four bytes shows all,
LEMMA Four ==
  ASSUME NEW d, NEW f \in Nat, Bytes(d, f, 4)
  PROVE  Shows(d[f + 3] * Base^3 + d[f + 2] * Base^2 + d[f + 1] * Base^1 + d[f], 4, d, f)
<1>1. d[f] \in Nat /\ d[f + 1] \in Nat /\ d[f + 2] \in Nat /\ d[f + 3] \in Nat
  <2>1. d[f + 0] \in Nat /\ d[f + 1] \in Nat /\ d[f + 2] \in Nat /\ d[f + 3] \in Nat
    BY BaseAssumption DEF Bytes
  <2>2. f + 0 = f
    OBVIOUS
  <2>3. QED
    BY <2>1, <2>2
<1>2. Shows(d[f + 1] * Base^1 + d[f], 2, d, f)
  <2>1. Bytes(d, f, 2)
    BY DEF Bytes
  <2>2. QED
    BY <2>1, Two
<1>3. Shows(d[f + 3] * Base^1 + d[f + 2], 2, d, f + 2)
  <2>1. Bytes(d, f + 2, 2)
    <3>1. \A i \in 0..1 : (f + 2) + i = f + (2 + i) /\ 2 + i \in 0..3
      OBVIOUS
    <3>2. QED
      BY <3>1 DEF Bytes
  <2>2. Shows(d[(f + 2) + 1] * Base^1 + d[f + 2], 2, d, f + 2)
    BY <2>1, Two
  <2>3. (f + 2) + 1 = f + 3
    OBVIOUS
  <2>4. QED
    BY <2>2, <2>3
<1>4. Shows((d[f + 3] * Base^1 + d[f + 2]) * Base^2 + (d[f + 1] * Base^1 + d[f]), 2 + 2, d, f)
  BY <1>2, <1>3, Joined
<1>5. QED
  BY <1>1, <1>4, FourRegrouped

\* four bytes above four others,
LEMMA FourShifted ==
  ASSUME NEW c4 \in Nat, NEW c5 \in Nat, NEW c6 \in Nat, NEW c7 \in Nat
  PROVE  (c7 * Base^3 + c6 * Base^2 + c5 * Base^1 + c4) * Base^4
           = c7 * Base^7 + c6 * Base^6 + c5 * Base^5 + c4 * Base^4
<1>1. 4 \in Nat /\ 1 + 4 = 5 /\ 2 + 4 = 6 /\ 3 + 4 = 7
  OBVIOUS
<1>2. (c7 * Base^3) * Base^4 = c7 * Base^7 /\ c7 * Base^3 \in Nat
  <2>1. 3 \in Nat /\ 3 + 4 <= 16
    OBVIOUS
  <2>2. QED
    BY <1>1, <2>1, Scaled
<1>3. (c6 * Base^2) * Base^4 = c6 * Base^6 /\ c6 * Base^2 \in Nat
  <2>1. 2 \in Nat /\ 2 + 4 <= 16
    OBVIOUS
  <2>2. QED
    BY <1>1, <2>1, Scaled
<1>4. (c5 * Base^1) * Base^4 = c5 * Base^5 /\ c5 * Base^1 \in Nat
  <2>1. 1 \in Nat /\ 1 + 4 <= 16
    OBVIOUS
  <2>2. QED
    BY <1>1, <2>1, Scaled
<1>5. PICK p \in Nat : p = Base^4
  BY PowerIs
<1>6. PICK e7 \in Nat : e7 = c7 * Base^3
  BY <1>2
<1>7. PICK e6 \in Nat : e6 = c6 * Base^2
  BY <1>3
<1>8. PICK e5 \in Nat : e5 = c5 * Base^1
  BY <1>4
<1>9. (e7 + e6 + e5 + c4) * p = e7 * p + e6 * p + e5 * p + c4 * p
  BY SMT
<1>10. QED
  BY <1>2, <1>3, <1>4, <1>5, <1>6, <1>7, <1>8, <1>9

\* one of eight bytes shows all.
LEMMA Eight ==
  ASSUME NEW d, Bytes(d, 0, 8)
  PROVE  Shows(d[0] + d[1] * Base^1 + d[2] * Base^2 + d[3] * Base^3 + d[4] * Base^4
               + d[5] * Base^5 + d[6] * Base^6 + d[7] * Base^7, 8, d, 0)
<1>1. \A i \in 0..7 : d[i] \in Nat
  <2>1. \A i \in 0..7 : d[0 + i] \in Nat
    BY BaseAssumption DEF Bytes
  <2>2. \A i \in 0..7 : 0 + i = i
    OBVIOUS
  <2>3. QED
    BY <2>1, <2>2
<1>2. Shows(d[3] * Base^3 + d[2] * Base^2 + d[1] * Base^1 + d[0], 4, d, 0)
  <2>1. Bytes(d, 0, 4)
    BY DEF Bytes
  <2>2. Shows(d[0 + 3] * Base^3 + d[0 + 2] * Base^2 + d[0 + 1] * Base^1 + d[0], 4, d, 0)
    BY <2>1, Four
  <2>3. 0 + 3 = 3 /\ 0 + 2 = 2 /\ 0 + 1 = 1
    OBVIOUS
  <2>4. QED
    BY <2>2, <2>3
<1>3. Shows(d[7] * Base^3 + d[6] * Base^2 + d[5] * Base^1 + d[4], 4, d, 0 + 4)
  <2>1. Bytes(d, 4, 4)
    <3>1. \A i \in 0..3 : 0 + (4 + i) = 4 + i /\ 4 + i \in 0..7
      OBVIOUS
    <3>2. QED
      BY <3>1 DEF Bytes
  <2>2. Shows(d[4 + 3] * Base^3 + d[4 + 2] * Base^2 + d[4 + 1] * Base^1 + d[4], 4, d, 4)
    BY <2>1, Four
  <2>3. 4 + 3 = 7 /\ 4 + 2 = 6 /\ 4 + 1 = 5 /\ 0 + 4 = 4
    OBVIOUS
  <2>4. QED
    BY <2>2, <2>3
<1>4. Shows((d[7] * Base^3 + d[6] * Base^2 + d[5] * Base^1 + d[4]) * Base^4
            + (d[3] * Base^3 + d[2] * Base^2 + d[1] * Base^1 + d[0]), 4 + 4, d, 0)
  BY <1>2, <1>3, Joined
<1>5. PICK c4 \in Nat : c4 = d[4]
  BY <1>1
<1>6. PICK c5 \in Nat : c5 = d[5]
  BY <1>1
<1>7. PICK c6 \in Nat : c6 = d[6]
  BY <1>1
<1>8. PICK c7 \in Nat : c7 = d[7]
  BY <1>1
<1>9. (c7 * Base^3 + c6 * Base^2 + c5 * Base^1 + c4) * Base^4
        = c7 * Base^7 + c6 * Base^6 + c5 * Base^5 + c4 * Base^4
  BY FourShifted
<1>10. ASSUME NEW i \in 0..7 PROVE d[i] * Base^i \in Nat
  <2>1. PICK c \in Nat : c = d[i]
    BY <1>1
  <2>2. i \in Nat /\ i + 0 <= 16
    OBVIOUS
  <2>3. c * Base^i \in Nat
    BY <2>2, Scaled
  <2>4. QED
    BY <2>1, <2>3
<1>11. PICK e1 \in Nat : e1 = d[1] * Base^1
  BY <1>10
<1>12. PICK e2 \in Nat : e2 = d[2] * Base^2
  BY <1>10
<1>13. PICK e3 \in Nat : e3 = d[3] * Base^3
  BY <1>10
<1>14. PICK e4 \in Nat : e4 = d[4] * Base^4
  BY <1>10
<1>15. PICK e5 \in Nat : e5 = d[5] * Base^5
  BY <1>10
<1>16. PICK e6 \in Nat : e6 = d[6] * Base^6
  BY <1>10
<1>17. PICK e7 \in Nat : e7 = d[7] * Base^7
  BY <1>10
<1>18. PICK e0 \in Nat : e0 = d[0]
  BY <1>1
<1>19. (e7 + e6 + e5 + e4) + (e3 + e2 + e1 + e0) = e0 + e1 + e2 + e3 + e4 + e5 + e6 + e7
  OBVIOUS
<1>20. Shows((e7 + e6 + e5 + e4) + (e3 + e2 + e1 + e0), 4 + 4, d, 0)
  BY <1>4, <1>5, <1>6, <1>7, <1>8, <1>9, <1>11, <1>12, <1>13, <1>14, <1>15, <1>16, <1>17, <1>18,
     Zenon
<1>21. 4 + 4 = 8
  OBVIOUS
<1>22. QED
  BY <1>11, <1>12, <1>13, <1>14, <1>15, <1>16, <1>17, <1>18, <1>19, <1>20, <1>21, Zenon
-----------------------------------------------------------------------------
\* A higher power is not smaller.
LEMMA PowersGrow ==
  ASSUME NEW i \in Nat, NEW k \in 0..16, i <= k
  PROVE  Base^i <= Base^k
<1>1. PICK e \in Nat : k = i + e
  BY SMT
<1>2. PICK p \in Nat \ {0}, q \in Nat \ {0} : p = Base^i /\ q = Base^e
  BY <1>1, PowerIs
<1>3. Base^k = p * q
  BY <1>1, <1>2, PowersAdd
<1>4. p * q >= p
  BY SMT
<1>5. QED
  BY <1>2, <1>3, <1>4

\* The shift that leaves the highest byte,
LEMMA Highest ==
  ASSUME NEW n \in 1..16, NEW v \in 0..(Base^n - 1)
  PROVE  Shr(v, n - 1) = Digit(v, n - 1)
<1>1. PICK p \in Nat \ {0} : p = Base^(n - 1)
  BY PowerIs
<1>2. Base^n = p * Base
  <2>1. n - 1 \in 0..15 /\ (n - 1) + 1 = n
    OBVIOUS
  <2>2. QED
    BY <1>1, <2>1, PowersOfBase
<1>3. v \in Nat /\ v < p * Base
  BY <1>1, <1>2, BaseAssumption
<1>4. PICK q \in Nat, r \in 0..(p - 1) : q = v \div p /\ v = q * p + r
  BY <1>3, DivMod
<1>5. q < Base
  <2> SUFFICES ASSUME q >= Base PROVE FALSE
    BY BaseAssumption
  <2>1. PICK e \in Nat : q = Base + e
    BY BaseAssumption, SMT
  <2>2. q * p = p * Base + e * p /\ e * p \in Nat /\ p * Base \in Nat
    BY <2>1, BaseAssumption, SMT
  <2>3. QED
    BY <1>3, <1>4, <2>2
<1>6. q % Base = q
  <2>1. q = 0 * Base + q /\ q \in 0..(Base - 1)
    BY <1>5, BaseAssumption
  <2>2. QED
    BY <2>1, BaseAssumption, DivIs
<1>7. QED
  BY <1>1, <1>4, <1>6 DEF Shr, Digit

\* the shift of one byte down,
LEMMA Lowered ==
  ASSUME NEW v \in Nat, NEW i \in 0..16, NEW k \in 0..i
  PROVE  Shr(Only(v, i), k) = Digit(v, i) * Base^(i - k)
<1>1. PICK c \in Nat : c = Digit(v, i)
  <2>1. Digit(v, i) \in 0..(Base - 1)
    BY DigitIn
  <2>2. QED
    BY <2>1, BaseAssumption
<1>2. PICK e \in Nat : i = e + k
  BY SMT
<1>3. (c * Base^e) * Base^k = c * Base^(e + k) /\ c * Base^e \in Nat
  BY <1>2, Scaled
<1>4. PICK p \in Nat \ {0}, g \in Nat : p = Base^k /\ g = c * Base^e
  BY <1>2, <1>3, PowerIs
<1>5. g * p = g * p + 0 /\ 0 \in 0..(p - 1)
  BY SMT
<1>6. (g * p) \div p = g
  BY <1>5, DivIs
<1>7. Only(v, i) = g * p
  BY <1>1, <1>2, <1>3, <1>4 DEF Only, Digit
<1>8. QED
  BY <1>1, <1>2, <1>4, <1>6, <1>7 DEF Shr

\* the shift of one byte up,
LEMMA Raised ==
  ASSUME NEW v \in Nat, NEW n \in 0..16, NEW i \in Nat, NEW k \in Nat, i + k < n
  PROVE  Shl(Only(v, i), k, n) = Digit(v, i) * Base^(i + k)
<1>1. PICK c \in 0..(Base - 1) : c = Digit(v, i)
  <2>1. i \in 0..16
    OBVIOUS
  <2>2. QED
    BY <2>1, DigitIn
<1> c \in Nat
  BY BaseAssumption
<1>2. (c * Base^i) * Base^k = c * Base^(i + k)
  <2>1. i + k <= 16
    OBVIOUS
  <2>2. QED
    BY <2>1, Scaled
<1>3. PICK p \in Nat \ {0}, q \in Nat \ {0} : p = Base^(i + k) /\ q = Base^n
  BY PowerIs
<1>4. p * Base <= q
  <2>1. Base^((i + k) + 1) = p * Base
    BY <1>3, PowersOfBase
  <2>2. Base^((i + k) + 1) <= Base^n
    BY PowersGrow
  <2>3. QED
    BY <1>3, <2>1, <2>2
<1>5. c * p \in 0..(q - 1)
  <2>1. PICK e \in Nat : Base = c + 1 + e
    <3>1. Base - (c + 1) \in Nat /\ Base = c + 1 + (Base - (c + 1))
      BY BaseAssumption
    <3>2. QED
      BY <3>1
  <2>2. p * Base = c * p + p + e * p /\ e * p \in Nat /\ c * p \in Nat
    BY <1>2, <2>1, SMT
  <2>3. QED
    BY <1>4, <2>2
<1>6. (c * p) % q = c * p
  <2>1. c * p = 0 * q + c * p
    BY <1>5
  <2>2. PICK g \in 0..(q - 1) : g = c * p
    BY <1>5
  <2>3. (0 * q + g) % q = g
    BY DivIs
  <2>4. QED
    BY <2>1, <2>2, <2>3
<1>7. QED
  BY <1>1, <1>2, <1>3, <1>6 DEF Shl, Only, Digit

\* and the shift that leaves the lowest byte on top.
LEMMA Lowest ==
  ASSUME NEW v \in Nat, NEW n \in 1..16
  PROVE  Shl(v, n - 1, n) = Digit(v, 0) * Base^(n - 1)
<1>1. PICK p \in Nat \ {0} : p = Base^(n - 1)
  BY PowerIs
<1>2. Base^n = p * Base
  <2>1. n - 1 \in 0..15 /\ (n - 1) + 1 = n
    OBVIOUS
  <2>2. QED
    BY <1>1, <2>1, PowersOfBase
<1>3. PICK q \in Nat, c \in 0..(Base - 1) : v = q * Base + c /\ c = v % Base
  BY BaseAssumption, DivMod
<1> c \in Nat
  BY BaseAssumption
<1>4. Digit(v, 0) = c
  <2>1. v = v * 1 + 0 /\ 0 \in 0..(1 - 1)
    OBVIOUS
  <2>2. v \div 1 = v
    BY <2>1, DivIs
  <2>3. QED
    BY <1>3, <2>2, PowersOfBase DEF Digit, Shr
<1>5. v * p = q * (p * Base) + c * p
  BY <1>3, BaseAssumption, SMT
<1>6. PICK m \in Nat \ {0} : m = p * Base
  BY BaseAssumption, ProductGrows
<1>7. c * p \in 0..(m - 1)
  <2>1. PICK e \in Nat : Base = c + 1 + e
    <3>1. Base - (c + 1) \in Nat /\ Base = c + 1 + (Base - (c + 1))
      BY BaseAssumption
    <3>2. QED
      BY <3>1
  <2>2. p * Base = c * p + p + e * p /\ e * p \in Nat /\ c * p \in Nat
    BY <2>1, SMT
  <2>3. QED
    BY <1>6, <2>2
<1>8. PICK g \in 0..(m - 1) : g = c * p
  BY <1>7
<1>9. (q * m + g) % m = g
  BY DivIs
<1>10. QED
  BY <1>1, <1>2, <1>4, <1>5, <1>6, <1>8, <1>9 DEF Shl
-----------------------------------------------------------------------------
\* The bytes of v from the other end.
Reversed(v, n) == [i \in 0..(n - 1) |-> Digit(v, n - 1 - i)]

\* The bytes of a number the other way round are bytes.
LEMMA ReversedIs ==
  ASSUME NEW n \in 1..16, NEW v \in 0..(Base^n - 1)
  PROVE  /\ v \in Nat
         /\ \A i \in 0..(n - 1) : Reversed(v, n)[i] = Digit(v, n - 1 - i)
         /\ Bytes(Reversed(v, n), 0, n)
<1>1. v \in Nat
  <2>1. Base^n \in Nat
    BY PowerIs
  <2>2. QED
    BY <2>1
<1>2. \A i \in 0..(n - 1) : Reversed(v, n)[i] = Digit(v, n - 1 - i)
  BY DEF Reversed
<1>3. ASSUME NEW i \in 0..(n - 1) PROVE Reversed(v, n)[0 + i] \in 0..(Base - 1)
  <2>1. n - 1 - i \in 0..16 /\ 0 + i = i
    OBVIOUS
  <2>2. Digit(v, n - 1 - i) \in 0..(Base - 1)
    BY <1>1, <2>1, DigitIn
  <2>3. QED
    BY <1>2, <2>1, <2>2
<1>4. QED
  BY <1>1, <1>2, <1>3 DEF Bytes

\* _Bswap16 shows the bytes the other way round,
LEMMA Swap16 ==
  ASSUME NEW v \in 0..(Base^2 - 1)
  PROVE  Shows(Bswap16(v), 2, Reversed(v, 2), 0)
<1>1. /\ v \in Nat
      /\ Reversed(v, 2)[0] = Digit(v, 1) /\ Reversed(v, 2)[1] = Digit(v, 0)
      /\ Bytes(Reversed(v, 2), 0, 2)
  <2>1. /\ v \in Nat /\ Bytes(Reversed(v, 2), 0, 2)
        /\ \A i \in 0..(2 - 1) : Reversed(v, 2)[i] = Digit(v, 2 - 1 - i)
    BY ReversedIs
  <2>2. 0 \in 0..(2 - 1) /\ 1 \in 0..(2 - 1) /\ 2 - 1 - 0 = 1 /\ 2 - 1 - 1 = 0
    OBVIOUS
  <2>3. QED
    BY <2>1, <2>2
<1>2. Shr(v, 1) = Digit(v, 1)
  <2>1. Shr(v, 2 - 1) = Digit(v, 2 - 1)
    BY Highest
  <2>2. QED
    BY <2>1
<1>3. Shl(v, 1, 2) = Digit(v, 0) * Base^1
  <2>1. Shl(v, 2 - 1, 2) = Digit(v, 0) * Base^(2 - 1)
    BY <1>1, Lowest
  <2>2. QED
    BY <2>1
<1>4. Shows(Reversed(v, 2)[0 + 1] * Base^1 + Reversed(v, 2)[0], 2, Reversed(v, 2), 0)
  BY <1>1, Two
<1>5. Digit(v, 0) * Base^1 + Digit(v, 1) = Digit(v, 1) + Digit(v, 0) * Base^1
  <2>1. Digit(v, 0) \in Nat /\ Digit(v, 1) \in Nat
    BY <1>1, DigitIn, BaseAssumption
  <2>2. PICK a \in Nat, b \in Nat, p \in Nat : a = Digit(v, 0) /\ b = Digit(v, 1) /\ p = Base^1
    BY <2>1, PowerIs
  <2>3. a * p + b = b + a * p
    BY SMT
  <2>4. QED
    BY <2>2, <2>3
<1>6. QED
  BY <1>1, <1>2, <1>3, <1>4, <1>5 DEF Bswap16

\* so do _Bswap32
LEMMA Swap32 ==
  ASSUME NEW v \in 0..(Base^4 - 1)
  PROVE  Shows(Bswap32(v), 4, Reversed(v, 4), 0)
<1> DEFINE d == Reversed(v, 4)
<1>1. /\ v \in Nat /\ Bytes(d, 0, 4)
      /\ d[0] = Digit(v, 3) /\ d[1] = Digit(v, 2) /\ d[2] = Digit(v, 1) /\ d[3] = Digit(v, 0)
  <2>1. /\ v \in Nat /\ Bytes(d, 0, 4)
        /\ \A i \in 0..(4 - 1) : d[i] = Digit(v, 4 - 1 - i)
    BY ReversedIs
  <2>2. \A i \in 0..3 : d[i] = Digit(v, 3 - i)
    BY <2>1
  <2>3. 3 - 0 = 3 /\ 3 - 1 = 2 /\ 3 - 2 = 1 /\ 3 - 3 = 0
    OBVIOUS
  <2>4. QED
    BY <2>1, <2>2, <2>3
<1> HIDE DEF d
<1>2. Shr(v, 3) = d[0]
  <2>1. Shr(v, 4 - 1) = Digit(v, 4 - 1)
    BY Highest
  <2>2. QED
    BY <1>1, <2>1
<1>3. Shr(Only(v, 2), 1) = d[1] * Base^1
  <2>1. Shr(Only(v, 2), 1) = Digit(v, 2) * Base^(2 - 1)
    BY <1>1, Lowered
  <2>2. QED
    BY <1>1, <2>1
<1>4. Shl(Only(v, 1), 1, 4) = d[2] * Base^2
  <2>1. 1 + 1 < 4 /\ 1 + 1 = 2 /\ 1 \in Nat
    OBVIOUS
  <2>2. Shl(Only(v, 1), 1, 4) = Digit(v, 1) * Base^(1 + 1)
    BY <1>1, <2>1, Raised
  <2>3. QED
    BY <1>1, <2>1, <2>2
<1>5. Shl(v, 3, 4) = d[3] * Base^3
  <2>1. Shl(v, 4 - 1, 4) = Digit(v, 0) * Base^(4 - 1)
    BY <1>1, Lowest
  <2>2. QED
    BY <1>1, <2>1
<1>6. Shows(d[0 + 3] * Base^3 + d[0 + 2] * Base^2 + d[0 + 1] * Base^1 + d[0], 4, d, 0)
  BY <1>1, Four
<1>7. d[3] * Base^3 + d[2] * Base^2 + d[1] * Base^1 + d[0]
        = d[0] + d[1] * Base^1 + d[2] * Base^2 + d[3] * Base^3
  <2>1. ASSUME NEW i \in 0..3 PROVE d[i] \in Nat /\ d[i] * Base^i \in Nat
    <3>1. d[0 + i] \in Nat /\ 0 + i = i
      BY <1>1, BaseAssumption DEF Bytes
    <3>2. PICK c \in Nat : c = d[i]
      BY <3>1
    <3>3. i \in Nat /\ i + 0 <= 16
      OBVIOUS
    <3>4. c * Base^i \in Nat
      BY <3>3, Scaled
    <3>5. QED
      BY <3>2, <3>4
  <2>2. PICK e0 \in Nat : e0 = d[0]
    BY <2>1
  <2>3. PICK e1 \in Nat : e1 = d[1] * Base^1
    BY <2>1
  <2>4. PICK e2 \in Nat : e2 = d[2] * Base^2
    BY <2>1
  <2>5. PICK e3 \in Nat : e3 = d[3] * Base^3
    BY <2>1
  <2>6. e3 + e2 + e1 + e0 = e0 + e1 + e2 + e3
    OBVIOUS
  <2>7. QED
    BY <2>2, <2>3, <2>4, <2>5, <2>6, Zenon
<1>8. Shows(d[0] + d[1] * Base^1 + d[2] * Base^2 + d[3] * Base^3, 4, d, 0)
  BY <1>6, <1>7
<1>9. QED
  BY <1>2, <1>3, <1>4, <1>5, <1>8, Zenon DEF Bswap32, d

\* and _Bswap64,
LEMMA Swap64 ==
  ASSUME NEW v \in 0..(Base^8 - 1)
  PROVE  Shows(Bswap64(v), 8, Reversed(v, 8), 0)
<1> DEFINE d == Reversed(v, 8)
<1>1. v \in Nat /\ Bytes(d, 0, 8) /\ \A i \in 0..7 : d[i] = Digit(v, 7 - i)
  <2>1. /\ v \in Nat /\ Bytes(d, 0, 8)
        /\ \A i \in 0..(8 - 1) : d[i] = Digit(v, 8 - 1 - i)
    BY ReversedIs
  <2>2. QED
    BY <2>1
<1> HIDE DEF d
<1>2. /\ d[0] = Digit(v, 7) /\ d[1] = Digit(v, 6) /\ d[2] = Digit(v, 5) /\ d[3] = Digit(v, 4)
      /\ d[4] = Digit(v, 3) /\ d[5] = Digit(v, 2) /\ d[6] = Digit(v, 1) /\ d[7] = Digit(v, 0)
  <2>1. /\ 7 - 0 = 7 /\ 7 - 1 = 6 /\ 7 - 2 = 5 /\ 7 - 3 = 4
        /\ 7 - 4 = 3 /\ 7 - 5 = 2 /\ 7 - 6 = 1 /\ 7 - 7 = 0
    OBVIOUS
  <2>2. QED
    BY <1>1, <2>1
<1>3. Shr(v, 7) = d[0]
  <2>1. Shr(v, 8 - 1) = Digit(v, 8 - 1)
    BY Highest
  <2>2. QED
    BY <1>2, <2>1
<1>4. Shr(Only(v, 6), 5) = d[1] * Base^1
  <2>1. Shr(Only(v, 6), 5) = Digit(v, 6) * Base^(6 - 5)
    BY <1>1, Lowered
  <2>2. QED
    BY <1>2, <2>1
<1>5. Shr(Only(v, 5), 3) = d[2] * Base^2
  <2>1. Shr(Only(v, 5), 3) = Digit(v, 5) * Base^(5 - 3)
    BY <1>1, Lowered
  <2>2. QED
    BY <1>2, <2>1
<1>6. Shr(Only(v, 4), 1) = d[3] * Base^3
  <2>1. Shr(Only(v, 4), 1) = Digit(v, 4) * Base^(4 - 1)
    BY <1>1, Lowered
  <2>2. QED
    BY <1>2, <2>1
<1>7. Shl(Only(v, 3), 1, 8) = d[4] * Base^4
  <2>1. 3 + 1 < 8 /\ 3 + 1 = 4 /\ 3 \in Nat /\ 1 \in Nat
    OBVIOUS
  <2>2. Shl(Only(v, 3), 1, 8) = Digit(v, 3) * Base^(3 + 1)
    BY <1>1, <2>1, Raised
  <2>3. QED
    BY <1>2, <2>1, <2>2
<1>8. Shl(Only(v, 2), 3, 8) = d[5] * Base^5
  <2>1. 2 + 3 < 8 /\ 2 + 3 = 5 /\ 2 \in Nat /\ 3 \in Nat
    OBVIOUS
  <2>2. Shl(Only(v, 2), 3, 8) = Digit(v, 2) * Base^(2 + 3)
    BY <1>1, <2>1, Raised
  <2>3. QED
    BY <1>2, <2>1, <2>2
<1>9. Shl(Only(v, 1), 5, 8) = d[6] * Base^6
  <2>1. 1 + 5 < 8 /\ 1 + 5 = 6 /\ 1 \in Nat /\ 5 \in Nat
    OBVIOUS
  <2>2. Shl(Only(v, 1), 5, 8) = Digit(v, 1) * Base^(1 + 5)
    BY <1>1, <2>1, Raised
  <2>3. QED
    BY <1>2, <2>1, <2>2
<1>10. Shl(v, 7, 8) = d[7] * Base^7
  <2>1. Shl(v, 8 - 1, 8) = Digit(v, 0) * Base^(8 - 1)
    BY <1>1, Lowest
  <2>2. QED
    BY <1>2, <2>1
<1>11. Shows(d[0] + d[1] * Base^1 + d[2] * Base^2 + d[3] * Base^3 + d[4] * Base^4
             + d[5] * Base^5 + d[6] * Base^6 + d[7] * Base^7, 8, d, 0)
  BY <1>1, Eight
<1>12. QED
  BY <1>3, <1>4, <1>5, <1>6, <1>7, <1>8, <1>9, <1>10, <1>11, Zenon DEF Bswap64, d

\* A number that fits is split in two by division.
LEMMA Split ==
  ASSUME NEW k \in Nat, NEW m \in Nat, k + m <= 16, NEW v \in 0..(Base^(k + m) - 1)
  PROVE  /\ v % Base^k \in 0..(Base^k - 1)
         /\ Shr(v, k) \in 0..(Base^m - 1)
         /\ v = Shr(v, k) * Base^k + (v % Base^k)
<1>1. PICK p \in Nat \ {0} : p = Base^k
  BY PowerIs
<1>2. PICK q \in Nat \ {0} : q = Base^m
  BY PowerIs
<1>3. Base^(k + m) = p * q
  BY <1>1, <1>2, PowersAdd
<1>4. v \in Nat /\ v < p * q
  <2>1. p * q \in Nat
    BY SMT
  <2>2. QED
    BY <1>3, <2>1
<1>5. PICK h \in Nat, r \in 0..(p - 1) : h = v \div p /\ r = v % p /\ v = h * p + r
  BY <1>4, DivMod
<1>6. h < q
  <2> SUFFICES ASSUME h >= q PROVE FALSE
    OBVIOUS
  <2>1. PICK e \in Nat : h = q + e
    BY SMT
  <2>2. h * p = p * q + e * p /\ e * p \in Nat /\ p * q \in Nat
    BY <2>1, SMT
  <2>3. QED
    BY <1>4, <1>5, <2>2
<1>7. QED
  BY <1>1, <1>2, <1>5, <1>6 DEF Shr

\* _Bswap128, by its halves,
LEMMA Swap128 ==
  ASSUME NEW v \in 0..(Base^16 - 1)
  PROVE  Shows(Bswap128(v), 16, Reversed(v, 16), 0)
<1> DEFINE d == Reversed(v, 16)
<1>1. v \in Nat /\ \A i \in 0..15 : d[i] = Digit(v, 15 - i)
  <2>1. v \in Nat /\ \A i \in 0..(16 - 1) : d[i] = Digit(v, 16 - 1 - i)
    BY ReversedIs
  <2>2. QED
    BY <2>1
<1> HIDE DEF d
<1>2. PICK l : l = v % Base^8
  OBVIOUS
<1>3. PICK h : h = Shr(v, 8)
  OBVIOUS
<1>4. /\ l \in 0..(Base^8 - 1) /\ h \in 0..(Base^8 - 1) /\ v = h * Base^8 + l
  <2>1. 8 + 8 = 16 /\ 8 + 8 <= 16 /\ 8 \in Nat
    OBVIOUS
  <2>2. v \in 0..(Base^(8 + 8) - 1)
    BY <2>1
  <2>3. QED
    BY <1>2, <1>3, <2>1, <2>2, Split
<1>5. h \in Nat /\ l \in Nat
  <2>1. Base^8 \in Nat
    BY PowerIs
  <2>2. QED
    BY <1>4, <2>1
<1>6. Shows(Bswap64(h), 8, d, 0)
  <2>1. Shows(Bswap64(h), 8, Reversed(h, 8), 0)
    BY <1>4, Swap64
  <2>2. \A i \in 0..(8 - 1) : Reversed(h, 8)[i] = Digit(h, 8 - 1 - i)
    BY <1>4, ReversedIs
  <2>3. ASSUME NEW i \in 0..7 PROVE Reversed(h, 8)[0 + i] = d[0 + i]
    <3>1. PICK j \in 0..7 : j = 7 - i
      OBVIOUS
    <3>2. j \in Nat /\ 8 + j <= 16 /\ 8 \in Nat
      OBVIOUS
    <3>3. Shr(h * Base^8 + l, 8 + j) = Shr(h, j)
      BY <1>4, <1>5, <3>2, HighPart
    <3>4. Digit(v, 8 + j) = Digit(h, j)
      BY <1>4, <3>3 DEF Digit
    <3>5. 0 + i = i /\ 8 + j = 15 - i /\ i \in 0..15 /\ 8 - 1 - i = j
      BY <3>1
    <3>6. d[i] = Digit(v, 15 - i)
      BY <1>1, <3>5
    <3>7. Reversed(h, 8)[i] = Digit(h, j)
      BY <2>2, <3>5
    <3>8. QED
      BY <3>4, <3>5, <3>6, <3>7
  <2>4. 8 - 1 = 7
    OBVIOUS
  <2>5. QED
    BY <2>1, <2>3, <2>4 DEF Shows
<1>7. Shows(Bswap64(l), 8, d, 0 + 8)
  <2>1. Shows(Bswap64(l), 8, Reversed(l, 8), 0)
    BY <1>4, Swap64
  <2>2. \A i \in 0..(8 - 1) : Reversed(l, 8)[i] = Digit(l, 8 - 1 - i)
    BY <1>4, ReversedIs
  <2>3. ASSUME NEW i \in 0..7 PROVE Reversed(l, 8)[0 + i] = d[(0 + 8) + i]
    <3>1. PICK j \in 0..7 : j = 7 - i
      OBVIOUS
    <3>2. j \in 0..(8 - 1) /\ 8 \in 0..16
      OBVIOUS
    <3>3. Digit(h * Base^8 + l, j) = Digit(l, j)
      BY <1>4, <1>5, <3>2, LowPart
    <3>4. /\ 0 + i = i /\ (0 + 8) + i = 8 + i /\ 15 - (8 + i) = j
          /\ 8 + i \in 0..15 /\ 8 - 1 - i = j
      BY <3>1
    <3>5. d[8 + i] = Digit(v, 15 - (8 + i))
      BY <1>1, <3>4
    <3>6. Reversed(l, 8)[i] = Digit(l, j)
      BY <2>2, <3>4
    <3>7. QED
      BY <1>4, <3>3, <3>4, <3>5, <3>6
  <2>4. 8 - 1 = 7
    OBVIOUS
  <2>5. QED
    BY <2>1, <2>3, <2>4 DEF Shows
<1>8. Shows(Bswap64(l) * Base^8 + Bswap64(h), 8 + 8, d, 0)
  <2>1. 8 \in Nat /\ 8 + 8 <= 16 /\ 0 \in Nat
    OBVIOUS
  <2>2. QED
    BY <1>6, <1>7, <2>1, Joined
<1>9. Shl(Bswap64(l), 8, 16) = Bswap64(l) * Base^8
  <2>1. PICK p \in Nat \ {0} : p = Base^8
    BY PowerIs
  <2>2. PICK x \in 0..(p - 1) : x = Bswap64(l)
    BY <1>7, <2>1 DEF Shows
  <2>3. Base^16 = p * p
    <3>1. 8 \in Nat /\ 8 + 8 <= 16 /\ 8 + 8 = 16
      OBVIOUS
    <3>2. QED
      BY <2>1, <3>1, PowersAdd
  <2>4. PICK m \in Nat \ {0} : m = p * p
    BY SMT
  <2>5. x * p \in 0..(m - 1)
    <3>1. PICK e \in Nat : p = x + 1 + e
      <4>1. p - (x + 1) \in Nat /\ p = x + 1 + (p - (x + 1))
        OBVIOUS
      <4>2. QED
        BY <4>1
    <3>2. p * p = x * p + p + e * p /\ e * p \in Nat /\ x * p \in Nat
      BY <3>1, SMT
    <3>3. QED
      BY <2>4, <3>2
  <2>6. PICK g \in 0..(m - 1) : g = x * p
    BY <2>5
  <2>7. g = 0 * m + g
    BY <2>4
  <2>8. (0 * m + g) % m = g
    BY DivIs
  <2>9. QED
    BY <2>1, <2>2, <2>3, <2>4, <2>6, <2>7, <2>8 DEF Shl
<1>10. 8 + 8 = 16
  OBVIOUS
<1>11. QED
  BY <1>2, <1>3, <1>8, <1>9, <1>10 DEF Bswap128, d

\* and one byte, which stays what it is.
LEMMA Swap8 ==
  ASSUME NEW v \in 0..(Base^1 - 1)
  PROVE  Shows(v, 1, Reversed(v, 1), 0)
<1>1. \A i \in 0..(1 - 1) : Reversed(v, 1)[i] = Digit(v, 1 - 1 - i)
  BY ReversedIs
<1>2. ASSUME NEW i \in 0..(1 - 1)
      PROVE  Digit(v, i) = Reversed(v, 1)[0 + i]
  <2>1. i = 0 /\ 0 + 0 = 0 /\ 1 - 1 - 0 = 0
    OBVIOUS
  <2>2. QED
    BY <1>1, <2>1
<1>3. QED
  BY <1>2 DEF Shows

\* swap_endian shows the bytes the other way round, for every width.
LEMMA SwapReverses ==
  ASSUME NEW n \in Widths, NEW v \in 0..(Base^n - 1)
  PROVE  Shows(SwapEndian(v, n), n, Reversed(v, n), 0)
<1>1. CASE n = 1
  BY <1>1, Swap8 DEF SwapEndian
<1>2. CASE n = 2
  BY <1>2, Swap16 DEF SwapEndian
<1>3. CASE n = 4
  BY <1>3, Swap32 DEF SwapEndian
<1>4. CASE n = 8
  BY <1>4, Swap64 DEF SwapEndian
<1>5. CASE n = 16
  BY <1>5, Swap128 DEF SwapEndian
<1>6. QED
  BY <1>1, <1>2, <1>3, <1>4, <1>5 DEF Widths
-----------------------------------------------------------------------------
\* Numbers of n bytes that show the same bytes are the same number.
LEMMA BytesDetermine ==
  ASSUME NEW n \in 0..16, NEW d, NEW u, NEW v, Shows(u, n, d, 0), Shows(v, n, d, 0)
  PROVE  u = v
<1> DEFINE Unique(k) == \A f \in Nat, x, y \in 0..(Base^k - 1) :
                          Shows(x, k, d, f) /\ Shows(y, k, d, f) => x = y
           S == {k \in Nat : k <= 16 => Unique(k)}
<1>1. 0 \in S
  <2>1. \A x, y \in 0..(Base^0 - 1) : x = y
    BY PowersOfBase
  <2>2. Unique(0)
    BY <2>1
  <2> HIDE DEF Unique
  <2>3. QED
    BY <2>2
<1>2. ASSUME NEW k \in Nat, k \in S PROVE k + 1 \in S
  <2>1. SUFFICES ASSUME k + 1 <= 16,
                        NEW f \in Nat, NEW x \in 0..(Base^(k + 1) - 1), NEW y \in 0..(Base^(k + 1) - 1),
                        Shows(x, k + 1, d, f), Shows(y, k + 1, d, f)
                 PROVE  x = y
    OBVIOUS
  <2>2. ASSUME NEW z \in 0..(Base^(k + 1) - 1), Shows(z, k + 1, d, f)
        PROVE  /\ Shows(Shr(z, 1), k, d, f + 1)
               /\ z = Shr(z, 1) * Base^1 + d[f]
    <3>1. 1 \in Nat /\ 1 + k = k + 1 /\ 1 + k <= 16
      BY <2>1
    <3>2. /\ z % Base^1 \in 0..(Base^1 - 1)
          /\ Shr(z, 1) \in 0..(Base^k - 1)
          /\ z = Shr(z, 1) * Base^1 + (z % Base^1)
      <4>1. z \in 0..(Base^(1 + k) - 1)
        BY <3>1
      <4>2. QED
        BY <3>1, <4>1, Split
    <3>3. PICK l : l = z % Base^1
      OBVIOUS
    <3>4. PICK h \in Nat : h = Shr(z, 1)
      <4>1. Base^k \in Nat
        BY <2>1, PowerIs
      <4>2. QED
        BY <3>2, <4>1
    <3>5. Digit(z, 0) = l
      <4>1. z \in Nat
        <5>1. Base^(k + 1) \in Nat
          BY <2>1, PowerIs
        <5>2. QED
          BY <5>1
      <4>2. z = z * 1 + 0 /\ 0 \in 0..(1 - 1)
        BY <4>1
      <4>3. z \div 1 = z
        BY <4>1, <4>2, DivIs
      <4>4. Base^1 = Base
        <5>1. Base^(0 + 1) = Base^0 * Base
          BY PowersOfBase
        <5>2. QED
          BY <5>1, BaseAssumption, PowersOfBase
      <4>5. QED
        BY <3>3, <4>3, <4>4, PowersOfBase DEF Digit, Shr
    <3>6. d[f + 0] = l /\ f + 0 = f
      <4>1. 0 \in 0..((k + 1) - 1) /\ f + 0 = f
        OBVIOUS
      <4>2. QED
        BY <2>2, <3>5, <4>1 DEF Shows
    <3>7. ASSUME NEW i \in 0..(k - 1) PROVE Digit(h, i) = d[(f + 1) + i]
      <4>1. i \in Nat /\ 1 + i <= 16 /\ 1 + i \in 0..((k + 1) - 1) /\ f + (1 + i) = (f + 1) + i
        BY <2>1
      <4>2. Shr(h * Base^1 + l, 1 + i) = Shr(h, i)
        BY <3>1, <3>2, <3>3, <3>4, <4>1, HighPart
      <4>3. Digit(z, 1 + i) = Digit(h, i)
        BY <3>2, <3>3, <3>4, <4>2 DEF Digit
      <4>4. QED
        BY <2>2, <4>1, <4>3 DEF Shows
    <3>8. QED
      BY <3>2, <3>3, <3>4, <3>6, <3>7 DEF Shows
  <2>3. Shr(x, 1) = Shr(y, 1)
    <3>1. /\ Shows(Shr(x, 1), k, d, f + 1) /\ Shows(Shr(y, 1), k, d, f + 1)
          /\ Shr(x, 1) \in 0..(Base^k - 1) /\ Shr(y, 1) \in 0..(Base^k - 1)
      BY <2>1, <2>2 DEF Shows
    <3>2. k <= 16 /\ f + 1 \in Nat
      BY <2>1
    <3>3. QED
      BY <1>2, <3>1, <3>2
  <2>4. x = Shr(x, 1) * Base^1 + d[f] /\ y = Shr(y, 1) * Base^1 + d[f]
    BY <2>1, <2>2
  <2>5. QED
    BY <2>3, <2>4
<1>3. Nat \subseteq S
  <2> HIDE DEF S
  <2>1. QED
    BY <1>1, <1>2, SetInduction
<1>4. Unique(n)
  BY <1>3
<1>5. QED
  BY <1>4 DEF Shows
-----------------------------------------------------------------------------
\* A number read digit by digit, from the most significant down, is well defined.
LEMMA ValueExists ==
  ASSUME NEW g, NEW c, NEW n \in Nat
  PROVE  \E f : f = [k \in 0..n |-> IF k = 0 THEN 0 ELSE f[k - 1] * c + g[k]]
<1> DEFINE Is(f, m) == f = [k \in 0..m |-> IF k = 0 THEN 0 ELSE f[k - 1] * c + g[k]]
           S == {m \in Nat : \E f : Is(f, m)}
<1>1. 0 \in S
  <2>1. PICK f : f = [k \in 0..0 |-> 0]
    OBVIOUS
  <2>2. Is(f, 0)
    BY <2>1
  <2> HIDE DEF Is
  <2>3. QED
    BY <2>2
<1>2. ASSUME NEW m \in Nat, m \in S PROVE m + 1 \in S
  <2>1. PICK f : Is(f, m)
    BY <1>2
  <2>2. PICK h : h = [k \in 0..(m + 1) |-> IF k = m + 1 THEN f[m] * c + g[m + 1] ELSE f[k]]
    OBVIOUS
  <2>3. ASSUME NEW k \in 0..(m + 1)
        PROVE  h[k] = IF k = 0 THEN 0 ELSE h[k - 1] * c + g[k]
    <3>1. CASE k = m + 1
      <4>1. k # 0 /\ k - 1 = m /\ m \in 0..(m + 1) /\ m # m + 1
        BY <3>1
      <4>2. h[m] = f[m]
        BY <2>2, <4>1
      <4>3. h[k] = f[m] * c + g[m + 1]
        BY <2>2, <3>1
      <4>4. QED
        BY <3>1, <4>1, <4>2, <4>3
    <3>2. CASE k # m + 1
      <4>1. k \in 0..m
        BY <3>2
      <4>2. h[k] = f[k]
        BY <2>2, <3>2
      <4>3. f[k] = IF k = 0 THEN 0 ELSE f[k - 1] * c + g[k]
        BY <2>1, <4>1
      <4>4. k # 0 => k - 1 \in 0..(m + 1) /\ k - 1 # m + 1
        BY <4>1
      <4>5. k # 0 => h[k - 1] = f[k - 1]
        BY <2>2, <4>4
      <4>6. QED
        BY <4>2, <4>3, <4>5
    <3>3. QED
      BY <3>1, <3>2
  <2>4. Is(h, m + 1)
    <3>1. h = [k \in 0..(m + 1) |-> h[k]]
      BY <2>2
    <3>2. QED
      BY <2>3, <3>1
  <2> HIDE DEF Is
  <2>5. QED
    BY <2>4
<1>3. Nat \subseteq S
  <2> HIDE DEF S
  <2>1. QED
    BY <1>1, <1>2, SetInduction
<1>4. QED
  BY <1>3

\* The bytes in memory, from the least significant up.
Upwards(bytes, n, order) == [i \in 0..(n - 1) |-> bytes[IF order = "little" THEN i ELSE n - 1 - i]]

\* An integer read from memory shows the bytes that are there.
LEMMA ReadShows ==
  ASSUME NEW n \in 1..16, NEW order \in Orders, NEW bytes,
         \A i \in 0..(n - 1) : bytes[i] \in 0..(Base - 1)
  PROVE  Shows(InInteger(bytes, n, order), n, Upwards(bytes, n, order), 0)
<1> DEFINE d == Upwards(bytes, n, order)
           g == [k \in 1..n |-> bytes[IF order = "little" THEN n - k ELSE k - 1]]
           value[k \in 0..n] ==
             IF k = 0 THEN 0
             ELSE value[k - 1] * Base + bytes[IF order = "little" THEN n - k ELSE k - 1]
<1>1. value = [k \in 0..n |->
                 IF k = 0 THEN 0
                 ELSE value[k - 1] * Base + bytes[IF order = "little" THEN n - k ELSE k - 1]]
  <2>1. PICK f : f = [k \in 0..n |-> IF k = 0 THEN 0 ELSE f[k - 1] * Base + g[k]]
    <3> HIDE DEF g, value
    <3>1. n \in Nat
      OBVIOUS
    <3>2. QED
      BY <3>1, ValueExists, Zenon
  <2>2. \A k \in 0..n : k # 0 => g[k] = bytes[IF order = "little" THEN n - k ELSE k - 1]
    OBVIOUS
  <2>3. f = [k \in 0..n |->
                 IF k = 0 THEN 0
                 ELSE f[k - 1] * Base + bytes[IF order = "little" THEN n - k ELSE k - 1]]
    <3> HIDE DEF g
    <3>1. QED
      BY <2>1, <2>2
  <2>4. QED
    BY <2>3
<1>2. InInteger(bytes, n, order) = value[n]
  BY DEF InInteger
<1> HIDE DEF value
<1>3. ASSUME NEW k \in 0..(n - 1)
      PROVE  /\ k + 1 \in 0..n
             /\ value[k + 1] = value[k] * Base + d[n - (k + 1)]
             /\ d[n - (k + 1)] \in 0..(Base - 1)
  <2>1. k + 1 \in 0..n /\ k + 1 # 0 /\ (k + 1) - 1 = k
    OBVIOUS
  <2>2. value[k + 1] = value[k] * Base + bytes[IF order = "little" THEN n - (k + 1) ELSE k]
    BY <1>1, <2>1
  <2>3. n - (k + 1) \in 0..(n - 1) /\ n - 1 - (n - (k + 1)) = k
    OBVIOUS
  <2>4. d[n - (k + 1)] = bytes[IF order = "little" THEN n - (k + 1) ELSE k]
    BY <2>3 DEF Upwards
  <2>5. d[n - (k + 1)] \in 0..(Base - 1)
    BY <2>3, <2>4
  <2>6. QED
    BY <2>1, <2>2, <2>4, <2>5
<1> HIDE DEF d
<1> DEFINE S == {k \in Nat : k <= n => Shows(value[k], k, d, n - k)}
<1>4. 0 \in S
  <2>1. value[0] = 0
    BY <1>1
  <2>2. Shows(0, 0, d, n - 0)
    BY PowersOfBase DEF Shows
  <2>3. QED
    BY <2>1, <2>2
<1>5. ASSUME NEW k \in Nat, k \in S PROVE k + 1 \in S
  <2> SUFFICES ASSUME k + 1 <= n PROVE Shows(value[k + 1], k + 1, d, n - (k + 1))
    OBVIOUS
  <2>1. k \in 0..(n - 1) /\ n - (k + 1) \in Nat /\ (n - (k + 1)) + 1 = n - k
        /\ 1 + k <= 16 /\ 1 \in Nat
    OBVIOUS
  <2>2. Shows(value[k], k, d, (n - (k + 1)) + 1)
    BY <1>5, <2>1
  <2>3. Shows(d[n - (k + 1)], 1, d, n - (k + 1))
    BY <1>3, <2>1, One
  <2>4. Shows(value[k] * Base^1 + d[n - (k + 1)], k + 1, d, n - (k + 1))
    BY <2>1, <2>2, <2>3, Joined
  <2>5. Base^1 = Base
    <3>1. Base^(0 + 1) = Base^0 * Base
      BY PowersOfBase
    <3>2. QED
      BY <3>1, BaseAssumption, PowersOfBase
  <2>6. QED
    BY <1>3, <2>1, <2>4, <2>5
<1>6. Nat \subseteq S
  <2> HIDE DEF S
  <2>1. QED
    BY <1>4, <1>5, SetInduction
<1>7. Shows(value[n], n, d, n - n) /\ n - n = 0
  BY <1>6
<1>8. QED
  BY <1>2, <1>7 DEF d
-----------------------------------------------------------------------------
\* swap_endian keeps a number within its width and turns its bytes round.
LEMMA SwapTurnsRound ==
  ASSUME NEW n \in Widths, NEW v \in 0..(Base^n - 1)
  PROVE  /\ SwapEndian(v, n) \in 0..(Base^n - 1)
         /\ \A i \in 0..(n - 1) : Digit(SwapEndian(v, n), i) = Digit(v, n - 1 - i)
<1>1. Shows(SwapEndian(v, n), n, Reversed(v, n), 0)
  BY SwapReverses
<1>2. n \in 1..16
  BY DEF Widths
<1>3. \A i \in 0..(n - 1) : Reversed(v, n)[i] = Digit(v, n - 1 - i)
  BY <1>2, ReversedIs
<1>4. ASSUME NEW i \in 0..(n - 1)
      PROVE  Digit(SwapEndian(v, n), i) = Digit(v, n - 1 - i)
  <2>1. 0 + i = i
    BY <1>2
  <2>2. QED
    BY <1>1, <1>3, <2>1 DEF Shows
<1>5. QED
  BY <1>1, <1>4 DEF Shows

\* What a machine of the other order writes of the swapped number.
LEMMA SwappedInMemory ==
  ASSUME NEW n \in Widths, NEW v \in 0..(Base^n - 1),
         NEW order \in Orders, NEW native \in Orders, native # order
  PROVE  InMemory(SwapEndian(v, n), n, native) = InMemory(v, n, order)
<1>1. \A i \in 0..(n - 1) : Digit(SwapEndian(v, n), i) = Digit(v, n - 1 - i)
  BY SwapTurnsRound
<1> n \in 1..16
  BY DEF Widths
<1>2. ASSUME NEW i \in 0..(n - 1)
      PROVE  Digit(SwapEndian(v, n), IF native = "little" THEN i ELSE n - 1 - i)
               = Digit(v, IF order = "little" THEN i ELSE n - 1 - i)
  <2>1. n - 1 - i \in 0..(n - 1) /\ n - 1 - (n - 1 - i) = i
    OBVIOUS
  <2>2. CASE native = "little"
    <3>1. order # "little"
      BY <2>2
    <3>2. QED
      BY <1>1, <2>2, <3>1
  <2>3. CASE native # "little"
    <3>1. order = "little"
      BY <2>3 DEF Orders
    <3>2. Digit(SwapEndian(v, n), n - 1 - i) = Digit(v, n - 1 - (n - 1 - i))
      BY <1>1, <2>1
    <3>3. QED
      BY <2>1, <2>3, <3>1, <3>2
  <2>4. QED
    BY <2>2, <2>3
<1>3. QED
  BY <1>2 DEF InMemory, Digit

\* A machine reads back what it wrote.
LEMMA ReadsWhatItWrote ==
  ASSUME NEW n \in 1..16, NEW u \in 0..(Base^n - 1), NEW order \in Orders
  PROVE  InInteger(InMemory(u, n, order), n, order) = u
<1>1. PICK bytes : bytes = InMemory(u, n, order)
  OBVIOUS
<1>2. u \in Nat
  <2>1. Base^n \in Nat
    BY PowerIs
  <2>2. QED
    BY <2>1
<1>3. \A i \in 0..(n - 1) :
        bytes[i] = Digit(u, IF order = "little" THEN i ELSE n - 1 - i)
  BY <1>1 DEF InMemory, Digit
<1>4. \A i \in 0..(n - 1) : bytes[i] \in 0..(Base - 1)
  <2>1. \A i \in 0..(n - 1) : (IF order = "little" THEN i ELSE n - 1 - i) \in 0..16
    OBVIOUS
  <2>2. \A i \in 0..16 : Digit(u, i) \in 0..(Base - 1)
    BY <1>2, DigitIn
  <2>3. QED
    BY <1>3, <2>1, <2>2
<1>5. Shows(InInteger(bytes, n, order), n, Upwards(bytes, n, order), 0)
  BY <1>4, ReadShows
<1>6. ASSUME NEW i \in 0..(n - 1)
      PROVE  Digit(u, i) = Upwards(bytes, n, order)[0 + i]
  <2>1. 0 + i = i /\ n - 1 - i \in 0..(n - 1) /\ n - 1 - (n - 1 - i) = i
    OBVIOUS
  <2>2. Upwards(bytes, n, order)[i] = bytes[IF order = "little" THEN i ELSE n - 1 - i]
    BY DEF Upwards
  <2>3. QED
    BY <1>3, <2>1, <2>2
<1>7. Shows(u, n, Upwards(bytes, n, order), 0)
  BY <1>6 DEF Shows
<1>8. n \in 0..16
  OBVIOUS
<1>9. QED
  BY <1>1, <1>5, <1>7, <1>8, BytesDetermine

\* To swap twice is to do nothing.
LEMMA SwapTwice ==
  ASSUME NEW n \in Widths, NEW v \in 0..(Base^n - 1)
  PROVE  SwapEndian(SwapEndian(v, n), n) = v
<1> DEFINE d == [i \in 0..(n - 1) |-> Digit(v, i)]
<1> n \in 0..16
  BY DEF Widths
<1>1. PICK u : u = SwapEndian(v, n)
  OBVIOUS
<1>2. /\ u \in 0..(Base^n - 1)
      /\ \A i \in 0..(n - 1) : Digit(u, i) = Digit(v, n - 1 - i)
  BY <1>1, SwapTurnsRound
<1>3. /\ SwapEndian(u, n) \in 0..(Base^n - 1)
      /\ \A i \in 0..(n - 1) : Digit(SwapEndian(u, n), i) = Digit(u, n - 1 - i)
  BY <1>2, SwapTurnsRound
<1>4. ASSUME NEW i \in 0..(n - 1)
      PROVE  Digit(v, i) = d[0 + i] /\ Digit(SwapEndian(u, n), i) = d[0 + i]
  <2>1. 0 + i = i /\ n - 1 - i \in 0..(n - 1) /\ n - 1 - (n - 1 - i) = i
    OBVIOUS
  <2>2. Digit(SwapEndian(u, n), i) = Digit(u, n - 1 - i)
    BY <1>3
  <2>3. Digit(u, n - 1 - i) = Digit(v, i)
    BY <1>2, <2>1
  <2>4. QED
    BY <2>1, <2>2, <2>3
<1> HIDE DEF d
<1>5. Shows(v, n, d, 0) /\ Shows(SwapEndian(u, n), n, d, 0)
  BY <1>3, <1>4 DEF Shows
<1>6. QED
  BY <1>1, <1>5, BytesDetermine

(***************************************************************************)
(* A number converted to an order is in memory in that order, and a        *)
(* machine of whichever order that reads it and converts it back has the   *)
(* number (to_ and from_little_endian and big_endian): for every width,    *)
(* every number of that width and bytes of any number of values.           *)
(***************************************************************************)
THEOREM EveryNumberIsPortable ==
  ASSUME NEW n \in Widths, NEW v \in 0..(Base^n - 1),
         NEW order \in Orders, NEW native \in Orders
  PROVE  /\ InMemory(ToEndian(v, n, native, order), n, native) = InMemory(v, n, order)
         /\ FromEndian(InInteger(InMemory(v, n, order), n, native), n, native, order) = v
<1> n \in 1..16
  BY DEF Widths
<1>1. CASE native = order
  <2>1. InInteger(InMemory(v, n, order), n, order) = v
    BY ReadsWhatItWrote
  <2>2. QED
    BY <1>1, <2>1 DEF ToEndian, FromEndian
<1>2. CASE native # order
  <2>1. InMemory(SwapEndian(v, n), n, native) = InMemory(v, n, order)
    BY <1>2, SwappedInMemory
  <2>2. SwapEndian(v, n) \in 0..(Base^n - 1)
    BY SwapTurnsRound
  <2>3. InInteger(InMemory(SwapEndian(v, n), n, native), n, native) = SwapEndian(v, n)
    BY <2>2, ReadsWhatItWrote
  <2>4. SwapEndian(SwapEndian(v, n), n) = v
    BY SwapTwice
  <2>5. QED
    BY <1>2, <2>1, <2>3, <2>4 DEF ToEndian, FromEndian
<1>3. QED
  BY <1>1, <1>2
-----------------------------------------------------------------------------
\* The powers of two up to the integer of a version.
LEMMA BitPowers ==
  /\ Bits \in Nat
  /\ \A k \in 0..Bits : 2^k \in Nat \ {0}
  /\ \A i, j \in Nat : i + j <= Bits => 2^(i + j) = 2^i * 2^j
<1>1. Bits \in Nat
  BY VersionAssumption DEF Bits
<1>2. 2 \in Nat \ {0}
  OBVIOUS
<1>3. QED
  BY <1>1, <1>2, VersionPowers, PowersOf, Zenon

\* A bit is 0 or 1, and the bits from one up are those above and the one.
LEMMA BitIs ==
  ASSUME NEW v \in Nat, NEW i \in Nat, i < Bits
  PROVE  /\ Bit(v, i) \in {0, 1}
         /\ v \div 2^i \in Nat
         /\ v \div 2^(i + 1) \in Nat
         /\ v \div 2^i = (v \div 2^(i + 1)) * 2 + Bit(v, i)
<1>1. PICK p \in Nat \ {0} : p = 2^i
  <2>1. i \in 0..Bits
    BY BitPowers
  <2>2. QED
    BY <2>1, BitPowers
<1>2. 2^(i + 1) = p * 2
  <2>1. i \in 0..(Bits - 1)
    BY BitPowers
  <2>2. QED
    BY <1>1, <2>1, VersionPowers
<1>3. PICK q \in Nat : q = v \div p
  BY DivMod
<1>4. q \div 2 \in Nat /\ q % 2 \in 0..1 /\ q = (q \div 2) * 2 + (q % 2)
  BY SMT
<1>5. (v \div p) \div 2 = v \div (p * 2)
  BY DivTwice
<1>6. PICK h \in Nat, b \in {0, 1} : h = q \div 2 /\ b = q % 2 /\ q = h * 2 + b
  BY <1>4
<1>7. Bit(v, i) = b
  BY <1>1, <1>3, <1>6, Zenon DEF Bit
<1>8. v \div 2^i = q /\ v \div 2^(i + 1) = h
  BY <1>1, <1>2, <1>3, <1>5, <1>6, Zenon
<1>9. QED
  BY <1>6, <1>7, <1>8

\* What the operator | is: its value follows from the bits above each bit.
LEMMA OrValue ==
  ASSUME NEW x, NEW y
  PROVE  \E value : /\ Or(x, y) = value[Bits]
                    /\ value[0] = 0
                    /\ \A k \in 0..(Bits - 1) :
                         value[k + 1] = value[k] * 2 + Either(x, y, Bits - (k + 1))
<1> DEFINE g == [k \in 0..Bits |-> Either(x, y, Bits - k)]
           value[k \in 0..Bits] ==
             IF k = 0 THEN 0 ELSE value[k - 1] * 2 + Either(x, y, Bits - k)
<1>1. Bits \in Nat
  BY BitPowers
<1>2. value = [k \in 0..Bits |->
                 IF k = 0 THEN 0 ELSE value[k - 1] * 2 + Either(x, y, Bits - k)]
  <2>1. PICK f : f = [k \in 0..Bits |-> IF k = 0 THEN 0 ELSE f[k - 1] * 2 + g[k]]
    <3> HIDE DEF g, value
    <3>1. QED
      BY <1>1, ValueExists, Zenon
  <2>2. \A k \in 0..Bits : g[k] = Either(x, y, Bits - k)
    OBVIOUS
  <2>3. f = [k \in 0..Bits |->
               IF k = 0 THEN 0 ELSE f[k - 1] * 2 + Either(x, y, Bits - k)]
    <3> HIDE DEF g
    <3>1. QED
      BY <2>1, <2>2
  <2>4. QED
    BY <2>3
<1>3. Or(x, y) = value[Bits]
  BY DEF Or
<1> HIDE DEF value
<1>4. value[0] = 0
  BY <1>1, <1>2
<1>5. ASSUME NEW k \in 0..(Bits - 1)
      PROVE  value[k + 1] = value[k] * 2 + Either(x, y, Bits - (k + 1))
  <2>1. k + 1 \in 0..Bits /\ k + 1 # 0 /\ (k + 1) - 1 = k
    BY <1>1
  <2>2. QED
    BY <1>2, <2>1
<1>6. QED
  BY <1>3, <1>4, <1>5

\* The result of | fits into the integer.
LEMMA OrFits ==
  ASSUME NEW x, NEW y
  PROVE  Or(x, y) \in 0..(2^Bits - 1)
<1>1. Bits \in Nat
  BY BitPowers
<1>2. PICK value : /\ Or(x, y) = value[Bits]
                   /\ value[0] = 0
                   /\ \A k \in 0..(Bits - 1) :
                        value[k + 1] = value[k] * 2 + Either(x, y, Bits - (k + 1))
  BY OrValue
<1> DEFINE S == {k \in Nat : k <= Bits => value[k] \in 0..(2^k - 1)}
<1>3. 0 \in S
  BY <1>2, VersionPowers
<1>4. ASSUME NEW k \in Nat, k \in S PROVE k + 1 \in S
  <2> SUFFICES ASSUME k + 1 <= Bits PROVE value[k + 1] \in 0..(2^(k + 1) - 1)
    OBVIOUS
  <2>1. k \in 0..(Bits - 1) /\ k \in 0..Bits /\ k <= Bits
    BY <1>1
  <2>2. PICK p \in Nat \ {0} : p = 2^k
    BY <2>1, BitPowers
  <2>3. 2^(k + 1) = p * 2
    BY <2>1, <2>2, VersionPowers
  <2>4. PICK u \in 0..(p - 1) : u = value[k]
    BY <1>4, <2>1, <2>2
  <2>5. PICK b \in {0, 1} : b = Either(x, y, Bits - (k + 1))
    BY DEF Either
  <2>6. value[k + 1] = u * 2 + b
    BY <1>2, <2>1, <2>4, <2>5
  <2>7. u * 2 + b \in 0..(p * 2 - 1)
    OBVIOUS
  <2>8. QED
    BY <2>3, <2>6, <2>7
<1>5. Nat \subseteq S
  <2> HIDE DEF S
  <2>1. QED
    BY <1>3, <1>4, SetInduction
<1>6. QED
  BY <1>1, <1>2, <1>5

\* Numbers without a bit in common have their sum as the result of |.
LEMMA OrOfDisjoint ==
  ASSUME NEW x \in 0..(2^Bits - 1), NEW y \in 0..(2^Bits - 1),
         \A i \in 0..(Bits - 1) : Bit(x, i) = 0 \/ Bit(y, i) = 0
  PROVE  Or(x, y) = x + y
<1>1. Bits \in Nat
  BY BitPowers
<1>2. PICK p \in Nat \ {0} : p = 2^Bits
  <2>1. Bits \in 0..Bits
    BY <1>1
  <2>2. QED
    BY <2>1, BitPowers
<1>3. x \in 0..(p - 1) /\ y \in 0..(p - 1) /\ x \in Nat /\ y \in Nat
  BY <1>2
<1>4. PICK value : /\ Or(x, y) = value[Bits]
                   /\ value[0] = 0
                   /\ \A k \in 0..(Bits - 1) :
                        value[k + 1] = value[k] * 2 + Either(x, y, Bits - (k + 1))
  BY OrValue
<1> DEFINE S == {k \in Nat : k <= Bits =>
                   value[k] = x \div 2^(Bits - k) + y \div 2^(Bits - k)}
<1>5. 0 \in S
  <2>1. x \div p = 0 /\ y \div p = 0
    <3>1. x = 0 * p + x /\ y = 0 * p + y
      BY <1>3
    <3>2. (0 * p + x) \div p = 0 /\ (0 * p + y) \div p = 0
      BY <1>3, DivIs
    <3>3. QED
      BY <3>1, <3>2
  <2>2. Bits - 0 = Bits
    BY <1>1
  <2>3. 0 + 0 = 0
    OBVIOUS
  <2>4. value[0] = x \div 2^(Bits - 0) + y \div 2^(Bits - 0)
    BY <1>2, <1>4, <2>1, <2>2, <2>3, Zenon
  <2>5. QED
    BY <2>4
<1>6. ASSUME NEW k \in Nat, k \in S PROVE k + 1 \in S
  <2> SUFFICES ASSUME k + 1 <= Bits
               PROVE  value[k + 1] = x \div 2^(Bits - (k + 1)) + y \div 2^(Bits - (k + 1))
    OBVIOUS
  <2>1. PICK i \in Nat : i = Bits - (k + 1)
    BY <1>1
  <2>2. i < Bits /\ i \in 0..(Bits - 1) /\ i + 1 = Bits - k /\ k \in 0..(Bits - 1) /\ k <= Bits
    BY <1>1, <2>1
  <2>3. PICK xa \in Nat : xa = x \div 2^(i + 1)
    BY <1>3, <2>2, BitIs
  <2>4. PICK ya \in Nat : ya = y \div 2^(i + 1)
    BY <1>3, <2>2, BitIs
  <2>5. PICK xb \in {0, 1} : xb = Bit(x, i)
    BY <1>3, <2>2, BitIs
  <2>6. PICK yb \in {0, 1} : yb = Bit(y, i)
    BY <1>3, <2>2, BitIs
  <2>7. x \div 2^i = xa * 2 + xb
    BY <1>3, <2>2, <2>3, <2>5, BitIs
  <2>8. y \div 2^i = ya * 2 + yb
    BY <1>3, <2>2, <2>4, <2>6, BitIs
  <2>9. Either(x, y, i) = xb + yb
    <3>1. xb = 0 \/ yb = 0
      BY <2>2, <2>5, <2>6
    <3>2. QED
      BY <2>5, <2>6, <3>1 DEF Either
  <2>10. value[k] = xa + ya
    BY <1>6, <2>2, <2>3, <2>4
  <2>11. value[k + 1] = (xa + ya) * 2 + (xb + yb)
    BY <1>4, <2>1, <2>2, <2>9, <2>10
  <2>12. (xa + ya) * 2 + (xb + yb) = (xa * 2 + xb) + (ya * 2 + yb)
    OBVIOUS
  <2>13. QED
    BY <2>1, <2>7, <2>8, <2>11, <2>12
<1>7. Nat \subseteq S
  <2> HIDE DEF S
  <2>1. QED
    BY <1>5, <1>6, SetInduction
<1>8. value[Bits] = x \div 1 + y \div 1
  <2>1. Bits - Bits = 0 /\ Bits <= Bits
    BY <1>1
  <2>2. QED
    BY <1>1, <1>7, <2>1, VersionPowers
<1>9. x \div 1 = x /\ y \div 1 = y
  <2>1. x = x * 1 + 0 /\ y = y * 1 + 0 /\ 0 \in 0..(1 - 1)
    BY <1>3
  <2>2. (x * 1 + 0) \div 1 = x /\ (y * 1 + 0) \div 1 = y
    BY <1>3, <2>1, DivIs
  <2>3. QED
    BY <2>1, <2>2
<1>10. QED
  BY <1>4, <1>8, <1>9

\* A number shifted to the left above another has no bit in common with it.
LEMMA OrOfFields ==
  ASSUME NEW s \in Nat, s <= Bits, NEW high \in Nat, NEW low \in 0..(2^s - 1),
         high * 2^s \in 0..(2^Bits - 1)
  PROVE  Or(high * 2^s, low) = high * 2^s + low
<1>1. Bits \in Nat /\ s \in 0..Bits
  BY BitPowers
<1>2. PICK p \in Nat \ {0} : p = 2^s
  BY <1>1, BitPowers
<1>3. low \in 0..(p - 1) /\ low \in Nat
  BY <1>2
<1>4. low \in 0..(2^Bits - 1)
  <2>1. PICK e \in Nat : Bits = s + e
    BY <1>1, SMT
  <2>2. PICK q \in Nat \ {0} : q = 2^e
    <3>1. e \in 0..Bits
      BY <1>1, <2>1
    <3>2. QED
      BY <3>1, BitPowers
  <2>3. 2^Bits = p * q
    BY <1>1, <1>2, <2>1, <2>2, BitPowers
  <2>4. q * p >= p /\ q * p \in Nat /\ q * p = p * q
    BY SMT
  <2>5. QED
    BY <1>3, <2>3, <2>4
<1>5. ASSUME NEW i \in 0..(Bits - 1)
      PROVE  Bit(high * 2^s, i) = 0 \/ Bit(low, i) = 0
  <2> i \in Nat /\ i < Bits /\ i \in 0..Bits
    BY <1>1
  <2>1. CASE i < s
    <3>1. PICK e \in Nat : s = i + (e + 1)
      BY <2>1, SMT
    <3>2. PICK r \in Nat \ {0} : r = 2^i
      BY BitPowers
    <3>3. PICK q \in Nat \ {0} : q = 2^e
      <4>1. e \in 0..Bits
        BY <1>1, <3>1
      <4>2. QED
        BY <4>1, BitPowers
    <3>4. 2^(e + 1) = q * 2
      <4>1. e \in 0..(Bits - 1)
        BY <1>1, <3>1
      <4>2. QED
        BY <3>3, <4>1, VersionPowers
    <3>5. p = r * (q * 2)
      <4>1. e + 1 \in Nat /\ i + (e + 1) <= Bits
        BY <1>1, <3>1
      <4>2. 2^(i + (e + 1)) = 2^i * 2^(e + 1)
        BY <4>1, BitPowers
      <4>3. QED
        BY <1>2, <3>1, <3>2, <3>4, <4>2
    <3>6. PICK h \in Nat : h = high * q
      BY SMT
    <3>7. high * p = (h * 2) * r + 0
      <4>1. high * (r * (q * 2)) = ((high * q) * 2) * r
        BY SMT
      <4>2. h * 2 \in Nat /\ (h * 2) * r \in Nat
        BY SMT
      <4>3. QED
        BY <3>5, <3>6, <4>1, <4>2
    <3>8. ((h * 2) * r + 0) \div r = h * 2
      <4>1. h * 2 \in Nat /\ 0 \in 0..(r - 1)
        OBVIOUS
      <4>2. QED
        BY <4>1, DivIs
    <3>9. (h * 2) % 2 = 0
      BY SMT
    <3>10. QED
      BY <1>2, <3>2, <3>7, <3>8, <3>9 DEF Bit
  <2>2. CASE i >= s
    <3>1. PICK e \in Nat : i = s + e
      BY <2>2, SMT
    <3>2. PICK q \in Nat \ {0} : q = 2^e
      <4>1. e \in 0..Bits
        BY <1>1, <3>1
      <4>2. QED
        BY <4>1, BitPowers
    <3>3. 2^i = p * q
      BY <1>1, <1>2, <3>1, <3>2, BitPowers
    <3>4. low \div p = 0
      <4>1. low = 0 * p + low
        BY <1>3
      <4>2. (0 * p + low) \div p = 0
        BY <1>3, DivIs
      <4>3. QED
        BY <4>1, <4>2
    <3>5. 0 \div q = 0
      <4>1. 0 = 0 * q + 0 /\ 0 \in 0..(q - 1)
        OBVIOUS
      <4>2. (0 * q + 0) \div q = 0
        BY <4>1, DivIs
      <4>3. QED
        BY <4>1, <4>2
    <3>6. (low \div p) \div q = low \div (p * q)
      BY <1>3, DivTwice
    <3>7. 0 % 2 = 0
      BY SMT
    <3>8. QED
      BY <3>3, <3>4, <3>5, <3>6, <3>7 DEF Bit
  <2>3. QED
    BY <2>1, <2>2
<1>6. QED
  BY <1>4, <1>5, OrOfDisjoint
-----------------------------------------------------------------------------
\* A quotient is small when the number is.
LEMMA DivBelow ==
  ASSUME NEW a \in Nat \ {0}, NEW b \in Nat \ {0}, NEW v \in Nat, v < a * b
  PROVE  v \div a < b
<1>1. PICK h \in Nat, r \in 0..(a - 1) : h = v \div a /\ v = h * a + r
  BY DivMod
<1>2. SUFFICES ASSUME h >= b PROVE FALSE
  BY <1>1
<1>3. PICK e \in Nat : h = b + e
  BY <1>2, SMT
<1>4. h * a = a * b + e * a /\ e * a \in Nat /\ a * b \in Nat
  BY <1>3, SMT
<1>5. QED
  BY <1>1, <1>4

\* The fields of a version in the powers of two.
LEMMA FieldPowers ==
  \E p, q \in Nat \ {0} :
    /\ p = 2^FieldBits
    /\ q = 2^MajorBits
    /\ 2^(2 * FieldBits) = p * p
    /\ 2^Bits = (p * p) * q
<1>1. /\ FieldBits \in Nat /\ MajorBits \in Nat /\ 2 * FieldBits \in Nat
      /\ FieldBits \in 0..Bits /\ MajorBits \in 0..Bits
      /\ FieldBits + FieldBits = 2 * FieldBits /\ FieldBits + FieldBits <= Bits
      /\ 2 * FieldBits + MajorBits = Bits /\ 2 * FieldBits + MajorBits <= Bits
  BY VersionAssumption DEF Bits
<1>2. PICK p \in Nat \ {0} : p = 2^FieldBits
  BY <1>1, BitPowers
<1>3. PICK q \in Nat \ {0} : q = 2^MajorBits
  BY <1>1, BitPowers
<1>4. 2^(FieldBits + FieldBits) = 2^FieldBits * 2^FieldBits
  BY <1>1, BitPowers
<1>5. 2^(2 * FieldBits + MajorBits) = 2^(2 * FieldBits) * 2^MajorBits
  BY <1>1, BitPowers
<1>6. QED
  BY <1>1, <1>2, <1>3, <1>4, <1>5, Zenon

\* One field above another.
LEMMA FieldAbove ==
  ASSUME NEW a \in Nat \ {0}, NEW b \in Nat \ {0}, NEW high \in 0..(b - 1), NEW low \in 0..(a - 1)
  PROVE  /\ high * a \in Nat
         /\ high * a + low \in 0..(a * b - 1)
         /\ a * b \in Nat
<1>1. PICK e \in Nat : b = high + 1 + e
  <2>1. b - (high + 1) \in Nat /\ b = high + 1 + (b - (high + 1))
    OBVIOUS
  <2>2. QED
    BY <2>1
<1>2. a * b = high * a + a + e * a /\ high * a \in Nat /\ e * a \in Nat
  BY <1>1, SMT
<1>3. QED
  BY <1>2

\* _MJX_ENCODE_VERSION of fields that fit puts them one above the other.
LEMMA EncodeIs ==
  ASSUME NEW major \in 0..(2^MajorBits - 1), NEW minor \in 0..(2^FieldBits - 1),
         NEW patch \in 0..(2^FieldBits - 1)
  PROVE  Encode(major, minor, patch) = (major * 2^FieldBits + minor) * 2^FieldBits + patch
<1>1. PICK p \in Nat \ {0}, q \in Nat \ {0} :
        /\ p = 2^FieldBits /\ q = 2^MajorBits
        /\ 2^(2 * FieldBits) = p * p /\ 2^Bits = (p * p) * q
  BY FieldPowers
<1>2. major \in 0..(q - 1) /\ minor \in 0..(p - 1) /\ patch \in 0..(p - 1)
  BY <1>1
<1>3. PICK w \in Nat \ {0} : w = p * p
  BY SMT
<1>4. PICK f \in 0..(w - 1) : f = minor * p
  <2>1. minor * p + 0 \in 0..(p * p - 1) /\ minor * p \in Nat
    <3>1. 0 \in 0..(p - 1)
      OBVIOUS
    <3>2. QED
      BY <1>2, <3>1, FieldAbove
  <2>2. minor * p + 0 = minor * p
    BY <2>1
  <2>3. QED
    BY <1>3, <2>1, <2>2
<1>5. PICK x \in 0..(w * q - 1) : x = major * w
  <2>1. major * w + 0 \in 0..(w * q - 1) /\ major * w \in Nat
    <3>1. 0 \in 0..(w - 1)
      OBVIOUS
    <3>2. QED
      BY <1>2, <3>1, FieldAbove
  <2>2. major * w + 0 = major * w
    BY <2>1
  <2>3. QED
    BY <2>1, <2>2
<1>6. x + f \in 0..(w * q - 1)
  BY <1>2, <1>5, FieldAbove
<1>7. 2 * FieldBits \in Nat /\ 2 * FieldBits <= Bits /\ FieldBits \in Nat /\ FieldBits <= Bits
  BY VersionAssumption DEF Bits
<1>8. Or(major * 2^(2 * FieldBits), f) = major * 2^(2 * FieldBits) + f
  <2>1. major \in Nat
    BY <1>2
  <2>2. f \in 0..(2^(2 * FieldBits) - 1) /\ major * 2^(2 * FieldBits) \in 0..(2^Bits - 1)
    BY <1>1, <1>3, <1>5
  <2>3. QED
    BY <1>7, <2>1, <2>2, OrOfFields
<1>9. Or(major * 2^MajorShift, minor * 2^MinorShift) = x + f
  BY <1>1, <1>3, <1>4, <1>5, <1>8, Zenon DEF MajorShift, MinorShift
<1>10. PICK u \in Nat : u = major * p + minor
  BY <1>2, SMT
<1>11. u * p = x + f
  <2>1. (major * p + minor) * p = major * (p * p) + minor * p
    BY <1>2, SMT
  <2>2. QED
    BY <1>3, <1>4, <1>5, <1>10, <2>1
<1>12. Or(u * 2^FieldBits, patch) = u * 2^FieldBits + patch
  <2>1. u * 2^FieldBits \in 0..(2^Bits - 1)
    BY <1>1, <1>3, <1>6, <1>11
  <2>2. QED
    BY <1>7, <2>1, OrOfFields
<1>13. QED
  BY <1>1, <1>9, <1>10, <1>11, <1>12, Zenon DEF Encode

(***************************************************************************)
(* A version is decoded to what was encoded exactly if each of its fields  *)
(* fits (_MJX_ENCODE_VERSION and the three macros that decode), for every  *)
(* version and fields of any numbers of bits.                              *)
(***************************************************************************)
THEOREM FittingVersionsAreDecoded ==
  ASSUME NEW major \in Nat, NEW minor \in Nat, NEW patch \in Nat
  PROVE  /\ major < 2^MajorBits /\ minor < 2^FieldBits /\ patch < 2^FieldBits
         <=> /\ DecodeMajor(Encode(major, minor, patch)) = major
             /\ DecodeMinor(Encode(major, minor, patch)) = minor
             /\ DecodePatch(Encode(major, minor, patch)) = patch
<1>1. PICK p \in Nat \ {0}, q \in Nat \ {0} :
        /\ p = 2^FieldBits /\ q = 2^MajorBits
        /\ 2^(2 * FieldBits) = p * p /\ 2^Bits = (p * p) * q
  BY FieldPowers
<1>2. PICK w \in Nat \ {0} : w = p * p
  BY SMT
<1>3. PICK v \in Nat : v = Encode(major, minor, patch) /\ v < w * q
  <2>1. Encode(major, minor, patch) \in 0..(2^Bits - 1)
    BY OrFits DEF Encode
  <2>2. w * q \in Nat
    BY SMT
  <2>3. QED
    BY <1>1, <1>2, <2>1, <2>2
<1>4. /\ DecodeMajor(v) = v \div w
      /\ DecodeMinor(v) = (v % w) \div p
      /\ DecodePatch(v) = v % p
  BY <1>1, <1>2, Zenon DEF DecodeMajor, DecodeMinor, DecodePatch, MajorShift
<1>5. ASSUME major < q, minor < p, patch < p
      PROVE  v \div w = major /\ (v % w) \div p = minor /\ v % p = patch
  <2>1. major \in 0..(q - 1) /\ minor \in 0..(p - 1) /\ patch \in 0..(p - 1)
    BY <1>5
  <2>2. v = (major * p + minor) * p + patch
    BY <1>1, <1>3, <2>1, EncodeIs
  <2>3. PICK u \in Nat : u = major * p + minor
    BY SMT
  <2>4. v % p = patch
    BY <2>1, <2>2, <2>3, DivIs
  <2>5. PICK r \in 0..(w - 1) : r = minor * p + patch
    BY <1>2, <2>1, FieldAbove
  <2>6. v = major * w + r
    <3>1. (major * p + minor) * p = major * (p * p) + minor * p
      BY SMT
    <3>2. PICK x \in Nat : x = major * w
      BY SMT
    <3>3. PICK f \in Nat : f = minor * p
      BY SMT
    <3>4. v = (x + f) + patch
      BY <1>2, <2>2, <3>1, <3>2, <3>3
    <3>5. QED
      BY <2>5, <3>2, <3>3, <3>4
  <2>7. v \div w = major /\ v % w = r
    BY <2>6, DivIs
  <2>8. r \div p = minor
    BY <2>1, <2>5, DivIs
  <2>9. QED
    BY <2>4, <2>7, <2>8
<1>6. v \div w < q /\ (v % w) \div p < p /\ v % p < p
  <2>1. v \div w < q
    BY <1>3, DivBelow
  <2>2. PICK r \in 0..(w - 1) : r = v % w
    BY DivMod
  <2>3. r \in Nat /\ r < p * p
    BY <1>2, <2>2
  <2>4. r \div p < p
    BY <2>3, DivBelow
  <2>5. v % p < p
    <3>1. v % p \in 0..(p - 1)
      BY DivMod
    <3>2. QED
      BY <3>1
  <2>6. QED
    BY <2>1, <2>2, <2>4, <2>5
<1>7. QED
  BY <1>1, <1>3, <1>4, <1>5, <1>6

\* Numbers of two fields compare like the fields in turn.
LEMMA ComparesInTurn ==
  ASSUME NEW p \in Nat \ {0}, NEW a \in Nat, NEW c \in Nat,
         NEW b \in 0..(p - 1), NEW d \in 0..(p - 1)
  PROVE  a * p + b <= c * p + d <=> a < c \/ (a = c /\ b <= d)
<1>1. a * p \in Nat /\ c * p \in Nat
  BY SMT
<1>2. CASE a < c
  <2>1. PICK e \in Nat : c = a + 1 + e
    BY <1>2, SMT
  <2>2. c * p = a * p + p + e * p /\ e * p \in Nat
    BY <2>1, SMT
  <2>3. QED
    BY <1>1, <1>2, <2>2
<1>3. CASE a = c
  BY <1>1, <1>3
<1>4. CASE a > c
  <2>1. PICK e \in Nat : a = c + 1 + e
    BY <1>4, SMT
  <2>2. a * p = c * p + p + e * p /\ e * p \in Nat
    BY <2>1, SMT
  <2>3. QED
    BY <1>1, <1>4, <2>2
<1>5. QED
  BY <1>2, <1>3, <1>4

(***************************************************************************)
(* Encoded versions compare like major, minor and patch in turn, so that   *)
(* _MJXSDK_VERSION_SUPPORTED holds of the versions up to the own one: for  *)
(* every two versions whose fields fit.                                    *)
(***************************************************************************)
THEOREM VersionsAreOrdered ==
  ASSUME NEW major \in 0..(2^MajorBits - 1), NEW minor \in 0..(2^FieldBits - 1),
         NEW patch \in 0..(2^FieldBits - 1),
         NEW ownMajor \in 0..(2^MajorBits - 1), NEW ownMinor \in 0..(2^FieldBits - 1),
         NEW ownPatch \in 0..(2^FieldBits - 1)
  PROVE  Supported(<<ownMajor, ownMinor, ownPatch>>, major, minor, patch) <=>
           \/ major < ownMajor
           \/ major = ownMajor /\ minor < ownMinor
           \/ major = ownMajor /\ minor = ownMinor /\ patch <= ownPatch
<1>1. PICK p \in Nat \ {0}, q \in Nat \ {0} : p = 2^FieldBits /\ q = 2^MajorBits
  BY FieldPowers
<1>2. /\ major \in 0..(q - 1) /\ minor \in 0..(p - 1) /\ patch \in 0..(p - 1)
      /\ ownMajor \in 0..(q - 1) /\ ownMinor \in 0..(p - 1) /\ ownPatch \in 0..(p - 1)
  BY <1>1
<1>3. Encode(major, minor, patch) = (major * p + minor) * p + patch
  BY <1>1, EncodeIs
<1>4. Encode(ownMajor, ownMinor, ownPatch) = (ownMajor * p + ownMinor) * p + ownPatch
  BY <1>1, EncodeIs
<1>5. PICK u \in Nat : u = major * p + minor
  BY <1>2, SMT
<1>6. PICK o \in Nat : o = ownMajor * p + ownMinor
  BY <1>2, SMT
<1>7. u * p + patch <= o * p + ownPatch <=> u < o \/ (u = o /\ patch <= ownPatch)
  BY <1>2, ComparesInTurn
<1>8. /\ u <= o <=> major < ownMajor \/ (major = ownMajor /\ minor <= ownMinor)
      /\ o <= u <=> ownMajor < major \/ (ownMajor = major /\ ownMinor <= minor)
  <2>1. major \in Nat /\ ownMajor \in Nat
    BY <1>2
  <2>2. QED
    BY <1>2, <1>5, <1>6, <2>1, ComparesInTurn
<1>9. PICK x \in Int, y \in Int : x = u * p + patch /\ y = o * p + ownPatch
  BY <1>2, SMT
<1>10. Supported(<<ownMajor, ownMinor, ownPatch>>, major, minor, patch) <=> y >= x
  BY <1>3, <1>4, <1>5, <1>6, <1>9, Zenon DEF Supported
<1>11. QED
  BY <1>2, <1>7, <1>8, <1>9, <1>10
-----------------------------------------------------------------------------
\* Every state is an input of its algorithm.
IsInput == /\ algorithm \in DOMAIN Inputs
           /\ input \in 0..(Inputs[algorithm] - 1)
           /\ algorithm = "layout" => align \in Alignments

\* A field of a version goes through natural numbers.
LEMMA FieldsAreNatural ==
  /\ Radix \in Nat \ {0}
  /\ \A k \in Nat : Major(k) \in Nat /\ Minor(k) \in Nat /\ Patch(k) \in Nat
<1>1. FieldBits + 1 \in 0..Bits
  BY VersionAssumption DEF Bits
<1>2. PICK r \in Nat \ {0} : r = Radix
  BY <1>1, BitPowers DEF Radix
<1>3. r * r \in Nat \ {0}
  BY SMT
<1>4. ASSUME NEW k \in Nat
      PROVE  k \div (r * r) \in Nat /\ (k \div r) % r \in Nat /\ k % r \in Nat
  <2>1. k \div (r * r) \in Nat
    BY <1>3, DivMod
  <2>2. PICK h \in Nat : h = k \div r
    BY DivMod
  <2>3. h % r \in 0..(r - 1) /\ k % r \in 0..(r - 1)
    BY DivMod
  <2>4. QED
    BY <2>1, <2>2, <2>3
<1>5. QED
  BY <1>2, <1>4, Zenon DEF Major, Minor, Patch

\* There is an input of each algorithm.
LEMMA InputsAre ==
  /\ DOMAIN Inputs = {"layout", "endian", "version"}
  /\ Inputs["layout"] = Word
  /\ \A a \in DOMAIN Inputs : Inputs[a] \in Nat \ {0}
<1>1. DOMAIN Inputs = {"layout", "endian", "version"}
  BY DEF Inputs
<1>2. Inputs["layout"] = Word /\ Word \in Nat \ {0}
  BY WordIsLarge DEF Inputs
<1>3. Inputs["endian"] \in Nat \ {0}
  <2>1. Inputs["endian"] = Base^16
    BY DEF Inputs
  <2>2. Base^16 \in Nat \ {0}
    BY PowerIs
  <2>3. QED
    BY <2>1, <2>2
<1>4. Inputs["version"] \in Nat \ {0}
  <2>1. Inputs["version"] = 2^(MajorBits + 1) * Radix * Radix
    BY DEF Inputs
  <2>2. MajorBits + 1 \in 0..Bits
    BY VersionAssumption DEF Bits
  <2>3. PICK m \in Nat \ {0} : m = 2^(MajorBits + 1)
    BY <2>2, BitPowers
  <2>4. PICK r \in Nat \ {0} : r = Radix
    BY FieldsAreNatural
  <2>5. PICK x \in Nat \ {0} : x = m * r
    BY SMT
  <2>6. x * r \in Nat \ {0}
    BY SMT
  <2>7. QED
    BY <2>1, <2>3, <2>4, <2>5, <2>6
<1>5. QED
  BY <1>1, <1>2, <1>3, <1>4

\* Every reachable state is an input of its algorithm.
LEMMA InputsOnly == Spec => []IsInput
<1>1. Init => IsInput
  <2> SUFFICES ASSUME Init PROVE IsInput
    OBVIOUS
  <2>1. algorithm \in DOMAIN Inputs /\ input = 0
    BY DEF Init
  <2>2. PICK m \in Nat \ {0} : m = Inputs[algorithm]
    BY <2>1, InputsAre
  <2>3. 0 \in 0..(m - 1)
    OBVIOUS
  <2>4. algorithm = "layout" => align \in Alignments
    BY DEF Init
  <2>5. QED
    BY <2>1, <2>2, <2>3, <2>4 DEF IsInput
<1>2. IsInput /\ [Next]_<<algorithm, input, align>> => IsInput'
  <2> SUFFICES ASSUME IsInput, [Next]_<<algorithm, input, align>> PROVE IsInput'
    OBVIOUS
  <2>1. CASE NextInput
    <3>1. PICK m \in Nat \ {0} : m = Inputs[algorithm]
      BY InputsAre DEF IsInput
    <3>2. PICK i \in Nat : i = input + 1
      <4>1. input \in 0..(m - 1)
        BY <3>1 DEF IsInput
      <4>2. QED
        BY <4>1
    <3>3. i % m \in 0..(m - 1)
      BY DivMod
    <3>4. input' = i % m /\ algorithm' = algorithm /\ align' = align
      BY <2>1, <3>1, <3>2 DEF NextInput
    <3>5. Inputs' = Inputs
      BY DEF Inputs, Word, Radix
    <3>6. QED
      BY <3>1, <3>3, <3>4, <3>5 DEF IsInput
  <2>2. CASE UNCHANGED <<algorithm, input, align>>
    BY <2>2 DEF IsInput
  <2>3. QED
    BY <2>1, <2>2 DEF Next
<1>3. QED
  BY <1>1, <1>2, PTL DEF Spec

\* An input is a natural number.
LEMMA InputIsNatural ==
  ASSUME IsInput
  PROVE  input \in Nat /\ (algorithm = "layout" => input < Word)
<1>1. PICK m \in Nat \ {0} : m = Inputs[algorithm]
  BY InputsAre DEF IsInput
<1>2. input \in 0..(m - 1)
  BY <1>1 DEF IsInput
<1>3. algorithm = "layout" => m = Word
  BY <1>1, InputsAre
<1>4. QED
  BY <1>2, <1>3

(***************************************************************************)
(* Every block that fits into the address space is divided into its parts  *)
(* (_Block_offset and the three _Calculate functions).                     *)
(***************************************************************************)
THEOREM BlocksAreTiled == Spec => []PartsTileTheBlock
<1>1. IsInput => PartsTileTheBlock
  <2> SUFFICES ASSUME IsInput, algorithm = "layout", Fits(input, align)
               PROVE  Tiles(input, align)
    BY DEF PartsTileTheBlock
  <2>1. input \in Nat
    BY InputIsNatural
  <2>2. align \in Nat \ {0}
    BY PowersOfTwo DEF IsInput
  <2>3. QED
    BY <2>1, <2>2, FittingBlocksAreTiled
<1>2. QED
  BY <1>1, InputsOnly, PTL

(***************************************************************************)
(* _Align_value returns the least multiple of the alignment that is not    *)
(* below the value, for every width of size_t.                             *)
(***************************************************************************)
THEOREM AlignedValuesAreLeast == Spec => []AlignIsLeast
<1>1. IsInput => AlignIsLeast
  <2> SUFFICES ASSUME IsInput, algorithm = "layout" PROVE RoundsUp(input, align)
    BY DEF AlignIsLeast
  <2>1. input \in Nat /\ input < Word
    BY InputIsNatural
  <2>2. align \in Nat \ {0} /\ Word % align = 0
    BY PowersOfTwo DEF IsInput
  <2>3. QED
    BY <2>1, <2>2, AlignmentIsLeast
<1>2. QED
  BY <1>1, InputsOnly, PTL

(***************************************************************************)
(* A value converted to an order has its bytes in that order, and is read  *)
(* back as itself by a machine of whichever order.                         *)
(***************************************************************************)
THEOREM BytesAreAlwaysPortable == Spec => []BytesArePortable
<1>1. IsInput => BytesArePortable
  <2> SUFFICES ASSUME IsInput,
                      NEW w \in Widths, input < Base^w,
                      NEW order \in Orders, NEW native \in Orders
               PROVE  /\ InMemory(ToEndian(input, w, native, order), w, native)
                           = InMemory(input, w, order)
                      /\ FromEndian(InInteger(InMemory(input, w, order), w, native),
                                    w, native, order) = input
    BY DEF BytesArePortable
  <2>1. input \in Nat
    BY InputIsNatural
  <2>2. PICK m \in Nat : m = Base^w
    <3>1. w \in 0..16
      BY DEF Widths
    <3>2. QED
      BY <3>1, PowerIs
  <2>3. input \in 0..(m - 1)
    BY <2>1, <2>2
  <2>4. input \in 0..(Base^w - 1)
    BY <2>2, <2>3
  <2>5. QED
    BY <2>4, EveryNumberIsPortable
<1>2. QED
  BY <1>1, InputsOnly, PTL

(***************************************************************************)
(* A version is decoded to what was encoded exactly if its fields fit.     *)
(***************************************************************************)
THEOREM VersionsAreDecodedAsEncoded == Spec => []DecodedAsEncoded
<1>1. IsInput => DecodedAsEncoded
  <2> SUFFICES ASSUME IsInput PROVE DecodedAsEncoded
    OBVIOUS
  <2>1. input \in Nat
    BY InputIsNatural
  <2>2. Major(input) \in Nat /\ Minor(input) \in Nat /\ Patch(input) \in Nat
    BY <2>1, FieldsAreNatural
  <2>3. QED
    BY <2>2, FittingVersionsAreDecoded DEF DecodedAsEncoded, FieldsFit
<1>2. QED
  BY <1>1, InputsOnly, PTL

(***************************************************************************)
(* Whatever its own version is, the library supports the versions up to    *)
(* it.                                                                     *)
(***************************************************************************)
THEOREM VersionsUpToOwnAreSupported == Spec => []SupportedUpToOwn
<1>1. ASSUME NEW k \in Nat, FieldsFit(k)
      PROVE  /\ Major(k) \in 0..(2^MajorBits - 1)
             /\ Minor(k) \in 0..(2^FieldBits - 1)
             /\ Patch(k) \in 0..(2^FieldBits - 1)
  <2>1. PICK p \in Nat \ {0}, q \in Nat \ {0} : p = 2^FieldBits /\ q = 2^MajorBits
    BY FieldPowers
  <2>2. /\ Major(k) \in Nat /\ Major(k) < q
        /\ Minor(k) \in Nat /\ Minor(k) < p
        /\ Patch(k) \in Nat /\ Patch(k) < p
    BY <1>1, <2>1, FieldsAreNatural DEF FieldsFit
  <2>3. Major(k) \in 0..(q - 1) /\ Minor(k) \in 0..(p - 1) /\ Patch(k) \in 0..(p - 1)
    BY <2>2
  <2>4. QED
    BY <2>1, <2>3
<1>2. IsInput => SupportedUpToOwn
  <2> SUFFICES ASSUME IsInput, FieldsFit(input),
                      NEW m \in 0..(Inputs.version - 1), FieldsFit(m)
               PROVE  Supported(<<Major(m), Minor(m), Patch(m)>>,
                                Major(input), Minor(input), Patch(input)) <=>
                        \/ Major(input) < Major(m)
                        \/ Major(input) = Major(m) /\ Minor(input) < Minor(m)
                        \/ /\ Major(input) = Major(m) /\ Minor(input) = Minor(m)
                           /\ Patch(input) <= Patch(m)
    BY DEF SupportedUpToOwn
  <2>1. input \in Nat
    BY InputIsNatural
  <2>2. m \in Nat
    <3>1. PICK u \in Nat : u = Inputs["version"]
      BY InputsAre
    <3>2. QED
      BY <3>1
  <2>3. QED
    BY <1>1, <2>1, <2>2, VersionsAreOrdered
<1>3. QED
  BY <1>2, InputsOnly, PTL
=============================================================================
