---------------------------- MODULE MulDivProofs ----------------------------
(***************************************************************************)
(* The multiplication and division instructions compute what the ISA says, *)
(* for all operands and both register widths.                              *)
(***************************************************************************)
EXTENDS MulDiv, TLAPS

-----------------------------------------------------------------------------
(* Division with remainder, for a positive divisor.                        *)

(* Quotient and remainder are determined by n = q * d + r with 0 <= r < d. *)
LEMMA DivModUnique ==
    ASSUME NEW d \in Nat \ {0}, NEW q \in Int, NEW r \in 0..(d - 1), NEW n,
           n = q * d + r
    PROVE  n \div d = q /\ n % d = r
BY SMTT(30)

(* Every integer has a quotient and a remainder.                           *)
LEMMA DivModExists ==
    ASSUME NEW d \in Nat \ {0}, NEW n \in Int
    PROVE  /\ n \div d \in Int
           /\ n % d \in 0..(d - 1)
           /\ n = (n \div d) * d + (n % d)
BY SMTT(30)

(* A product of halves: bounds, and its own halves.                        *)
LEMMA ProductBound ==
    ASSUME NEW h \in Nat, NEW x \in 0..(h - 1), NEW y \in 0..(h - 1)
    PROVE  x * y \in Nat /\ x * y <= (h - 1) * (h - 1)
BY SMTT(30)

(* The argument of the wrapped shifts: p * h keeps the lower half of p.    *)
LEMMA ShiftedProduct ==
    ASSUME NEW h \in Nat, h >= 4, NEW u \in Nat, NEW v \in 0..(h - 1)
    PROVE  ((u * h + v) * h) % (h * h) = v * h
<1> DEFINE B == h * h
           w == v * h
           n == (u * h + v) * h
<1>1. B \in Nat \ {0} BY SMTT(30)
<1>2. w \in 0..(B - 1)
  <2>1. v * h <= (h - 1) * h BY SMTT(30)
  <2>2. (h - 1) * h < h * h BY SMTT(30)
  <2>3. v * h \in Nat BY SMTT(30)
  <2> QED BY <1>1, <2>1, <2>2, <2>3, SMTT(30)
<1>3. n = u * B + w BY SMTT(30)
<1> HIDE DEF B, w, n
<1>4. n % B = w
  <2>1. u \in Int OBVIOUS
  <2> QED BY <1>1, <1>2, <1>3, <2>1, DivModUnique
<1> QED BY <1>4 DEF B, w, n

-----------------------------------------------------------------------------
(* The wide product                                                        *)

(* The four partial products, put together with the carry as umul32wide    *)
(* does it, are the product: two registers hold it exactly.                *)
LEMMA CarryExact ==
    ASSUME NEW h \in Nat, h >= 4,
           NEW u0 \in Nat, NEW v0 \in 0..(h - 1), u0 < h,
           NEW v1 \in 0..(h - 1), NEW v2 \in 0..(h - 1),
           NEW S, S = u0 + v1 + v2,
           NEW c, c = S \div h, NEW s, s = S % h
    PROVE  /\ c \in 0..2
           /\ s * h + v0 \in 0..(h * h - 1)
           /\ u0 * h + v0 + v1 * h + v2 * h = c * (h * h) + (s * h + v0)
<1>1. S \in Nat /\ S < 3 * h BY SMTT(30)
<1>2. c \in Int /\ s \in 0..(h - 1) /\ S = c * h + s 
  <2>1. h \in Nat \ {0} /\ S \in Int BY <1>1
  <2> QED BY <2>1, DivModExists
<1>3. c \in 0..2 BY <1>1, <1>2, SMTT(30)
<1>4. s * h + v0 \in 0..(h * h - 1)
  <2>1. s * h <= (h - 1) * h BY <1>2, SMTT(30)
  <2>2. s * h \in Nat BY <1>2, SMTT(30)
  <2>3. (h - 1) * h = h * h - h BY SMTT(30)
  <2> QED BY <1>2, <2>1, <2>2, <2>3, SMTT(30)
<1>5. u0 * h + v0 + v1 * h + v2 * h = S * h + v0 BY SMTT(30)
<1>6. S * h = c * (h * h) + s * h BY <1>1, <1>2, SMTT(30)
<1> QED BY <1>1, <1>2, <1>3, <1>4, <1>5, <1>6, SMTT(30)

(* The halves of a register.                                               *)
LEMMA Halves ==
    ASSUME NEW h \in Nat, h >= 4, NEW p \in 0..(h * h - 1)
    PROVE  /\ p \div h \in 0..(h - 1)
           /\ p % h \in 0..(h - 1)
           /\ p = (p \div h) * h + (p % h)
<1>1. h \in Nat \ {0} /\ p \in Int BY SMTT(30)
<1>2. /\ p \div h \in Int
      /\ p % h \in 0..(h - 1)
      /\ p = (p \div h) * h + (p % h)
  BY <1>1, DivModExists
<1> DEFINE q == p \div h
           r == p % h
<1> HIDE DEF q, r
<1>3. q \in Int /\ r \in 0..(h - 1) /\ p = q * h + r BY <1>2 DEF q, r
<1>4. q >= 0
  <2>1. SUFFICES ASSUME q <= -1 PROVE FALSE BY <1>3
  <2>2. q * h <= (-1) * h BY <1>3, <2>1, SMTT(30)
  <2> QED BY <1>3, <2>2, SMTT(30)
<1>5. q < h
  <2>1. SUFFICES ASSUME q >= h PROVE FALSE BY <1>3
  <2>2. q * h >= h * h BY <1>3, <2>1, SMTT(30)
  <2>3. q * h \in Int /\ h * h \in Int BY <1>3, SMTT(30)
  <2> QED BY <1>3, <2>2, <2>3, SMTT(30)
<1> QED BY <1>2, <1>3, <1>4, <1>5 DEF q, r

(* The product of two registers in terms of their halves.                  *)
LEMMA ProductOfHalves ==
    ASSUME NEW h \in Nat, NEW al \in Nat, NEW ah \in Nat, NEW bl \in Nat, NEW bh \in Nat
    PROVE  (ah * h + al) * (bh * h + bl)
             = (ah * bh) * (h * h) + (al * bh) * h + (ah * bl) * h + al * bl
BY SMTT(30)

(* The same with every partial product split, and the carry collected.     *)
LEMMA Collect ==
    ASSUME NEW h \in Nat, NEW p3 \in Nat, NEW u1 \in Nat, NEW v1 \in Nat,
           NEW u2 \in Nat, NEW v2 \in Nat, NEW p0 \in Nat, NEW c \in Nat, NEW l \in Nat,
           p0 + v1 * h + v2 * h = c * (h * h) + l
    PROVE  p3 * (h * h) + (u1 * h + v1) * h + (u2 * h + v2) * h + p0
             = (p3 + u1 + u2 + c) * (h * h) + l
<1>1. (u1 * h + v1) * h = u1 * (h * h) + v1 * h BY SMTT(30)
<1>2. (u2 * h + v2) * h = u2 * (h * h) + v2 * h BY SMTT(30)
<1>3. (p3 + u1 + u2 + c) * (h * h)
        = p3 * (h * h) + u1 * (h * h) + u2 * (h * h) + c * (h * h) BY SMTT(30)
<1> QED BY <1>1, <1>2, <1>3, SMTT(30)

(* The product of two registers fits in two registers.                     *)
LEMMA ProductFits ==
    ASSUME NEW B \in Nat \ {0}, NEW a \in 0..(B - 1), NEW b \in 0..(B - 1),
           NEW q \in Nat, NEW r \in Nat, a * b = q * B + r
    PROVE  q \in 0..(B - 1)
<1>1. a * b <= (B - 1) * (B - 1) BY ProductBound
<1>2. (B - 1) * (B - 1) < B * B BY SMTT(30)
<1>3. SUFFICES ASSUME q >= B PROVE FALSE BY SMTT(30)
<1>4. q * B >= B * B BY <1>3, SMTT(30)
<1>5. a * b \in Int /\ q * B \in Int /\ B * B \in Int /\ (B - 1) * (B - 1) \in Int BY SMTT(30)
<1> QED BY <1>1, <1>2, <1>4, <1>5, SMTT(30)

(* umul32wide and umul64wide compute the exact product of two registers in *)
(* two registers, carries included.                                        *)
THEOREM UmulExact ==
    ASSUME NEW h \in Nat, h >= 4, NEW a \in Register(h), NEW b \in Register(h)
    PROVE  /\ umulwide(h, a, b).hi = (a * b) \div Base(h)
           /\ umulwide(h, a, b).lo = (a * b) % Base(h)
<1> DEFINE al == a % h  ah == a \div h  bl == b % h  bh == b \div h
           p0 == al * bl  p1 == al * bh  p2 == ah * bl  p3 == ah * bh
           u0 == p0 \div h  v0 == p0 % h
           u1 == p1 \div h  v1 == p1 % h
           u2 == p2 \div h  v2 == p2 % h
           S == u0 + v1 + v2
           c == S \div h  s == S % h
           l == s * h + v0
           B == h * h
<1>1. /\ al \in 0..(h - 1) /\ ah \in 0..(h - 1) /\ a = ah * h + al
      /\ bl \in 0..(h - 1) /\ bh \in 0..(h - 1) /\ b = bh * h + bl
  BY Halves DEF Register, Base
<1>2. \A y, z \in 0..(h - 1) : y * z \in 0..(h * h - 1)
  <2> TAKE y, z \in 0..(h - 1)
  <2>1. y * z \in Nat /\ y * z <= (h - 1) * (h - 1) BY ProductBound
  <2>2. (h - 1) * (h - 1) < h * h BY SMTT(30)
  <2>3. h * h \in Nat /\ (h - 1) * (h - 1) \in Int BY SMTT(30)
  <2> QED BY <2>1, <2>2, <2>3, SMTT(30)
<1>3. p0 \in 0..(h * h - 1) /\ p1 \in 0..(h * h - 1) /\ p2 \in 0..(h * h - 1) /\ p3 \in 0..(h * h - 1)
  BY <1>1, <1>2
<1> HIDE DEF p0, p1, p2, p3
<1>4. /\ u0 \in 0..(h - 1) /\ v0 \in 0..(h - 1) /\ p0 = u0 * h + v0
      /\ u1 \in 0..(h - 1) /\ v1 \in 0..(h - 1) /\ p1 = u1 * h + v1
      /\ u2 \in 0..(h - 1) /\ v2 \in 0..(h - 1) /\ p2 = u2 * h + v2
  BY <1>3, Halves
<1> HIDE DEF u0, v0, u1, v1, u2, v2
<1>5. /\ c \in 0..2 /\ l \in 0..(h * h - 1)
      /\ u0 * h + v0 + v1 * h + v2 * h = c * (h * h) + l
  <2>1. u0 \in Nat /\ u0 < h BY <1>4
  <2> QED BY <1>4, <2>1, CarryExact
<1> HIDE DEF S, c, s, l
<1>6. a * b = (p3 + u1 + u2 + c) * (h * h) + l
  <2>1. a * b = p3 * (h * h) + p1 * h + p2 * h + p0
    BY <1>1, ProductOfHalves DEF p0, p1, p2, p3
  <2>2. p0 + v1 * h + v2 * h = c * (h * h) + l BY <1>4, <1>5
  <2>3. p3 * (h * h) + (u1 * h + v1) * h + (u2 * h + v2) * h + p0
          = (p3 + u1 + u2 + c) * (h * h) + l
    BY <1>3, <1>4, <1>5, <2>2, Collect
  <2> QED BY <1>4, <2>1, <2>3
<1>7. B \in Nat \ {0} BY SMTT(30)
<1>8. /\ p3 + u1 + u2 + c \in Nat /\ l \in 0..(B - 1)
      /\ a * b = (p3 + u1 + u2 + c) * B + l
      /\ a \in 0..(B - 1) /\ b \in 0..(B - 1)
  BY <1>3, <1>4, <1>5, <1>6 DEF Register, Base
<1>9. (p1 * h) % B = v1 * h /\ (p2 * h) % B = v2 * h
  <2>1. u1 \in Nat /\ u2 \in Nat /\ v1 \in 0..(h - 1) /\ v2 \in 0..(h - 1) BY <1>4
  <2>2. ((u1 * h + v1) * h) % (h * h) = v1 * h BY <2>1, ShiftedProduct
  <2>3. ((u2 * h + v2) * h) % (h * h) = v2 * h BY <2>1, ShiftedProduct
  <2>4. p1 = u1 * h + v1 /\ p2 = u2 * h + v2 BY <1>4
  <2> QED BY ONLY <2>2, <2>3, <2>4
<1>10. p0 + v1 * h + v2 * h = c * B + l BY <1>4, <1>5
<1>11. c % h = c
  <2>1. h \in Nat \ {0} /\ c \in Int /\ c \in 0..(h - 1) /\ 0 \in Int /\ c = 0 * h + c BY <1>5, SMTT(30)
  <2> QED BY <2>1, DivModUnique
<1> DEFINE q == p3 + u1 + u2 + c
           n == p0 + v1 * h + v2 * h
           P == a * b
<1>12. n = c * B + l /\ q \in Nat /\ P = q * B + l BY <1>8, <1>10
<1> HIDE DEF B, q, n, P
<1>13. P \div B = q /\ P % B = l
  <2>1. q \in Int /\ P = q * B + l /\ l \in 0..(B - 1) BY <1>8, <1>12
  <2> QED BY ONLY <1>7, <2>1, DivModUnique
<1>14. n % B = l
  <2>1. c \in Int /\ n = c * B + l /\ l \in 0..(B - 1) BY <1>5, <1>8, <1>12
  <2> QED BY ONLY <1>7, <2>1, DivModUnique
<1>15. q % B = q
  <2>1. q \in 0..(B - 1) BY <1>7, <1>8, <1>12, ProductFits DEF P
  <2>2. q = 0 * B + q BY <1>12, <1>7
  <2> QED BY <1>7, <2>1, <2>2, DivModUnique
<1>16. umulwide(h, a, b).hi = q % B
  BY <1>11 DEF umulwide, Wrap, Base, q, B, c, S, p0, p1, p2, p3, u0, u1, u2, v1, v2
<1>17. umulwide(h, a, b).lo = n % B
  BY <1>9 DEF umulwide, Wrap, Base, n, B, p0, p1, p2, v1, v2
<1> QED BY <1>13, <1>14, <1>15, <1>16, <1>17 DEF Base, B, P

-----------------------------------------------------------------------------
(* Signed operands                                                         *)

(* A multiple of the divisor does not change the remainder.                *)
LEMMA ModShift ==
    ASSUME NEW B \in Nat \ {0}, NEW m \in Int, NEW k \in Int, NEW n, n = m + k * B
    PROVE  n % B = m % B
<1> DEFINE q == m \div B
           r == m % B
<1>1. q \in Int /\ r \in 0..(B - 1) /\ m = q * B + r BY DivModExists
<1> HIDE DEF q, r
<1>2. n = (q + k) * B + r /\ q + k \in Int BY <1>1, SMTT(30)
<1>3. n % B = r BY <1>1, <1>2, DivModUnique
<1> QED BY <1>3 DEF r

(* Wrapping around on the way does not change the remainder.               *)
LEMMA ModSub ==
    ASSUME NEW B \in Nat \ {0}, NEW n \in Int, NEW m \in Int
    PROVE  ((n % B) - m) % B = (n - m) % B
<1> DEFINE q == n \div B
           r == n % B
<1>1. q \in Int /\ r \in 0..(B - 1) /\ n = q * B + r BY DivModExists
<1> HIDE DEF q, r
<1>2. n - m = (r - m) + q * B /\ r - m \in Int BY <1>1, SMTT(30)
<1> DEFINE d == r - m
           e == n - m
<1>3. d \in Int /\ e = d + q * B BY <1>2
<1> HIDE DEF d, e
<1>4. e % B = d % B BY <1>1, <1>3, ModShift
<1> QED BY <1>4 DEF r, d, e

(* The words of a product from those of the unsigned product, for operands *)
(* that are smaller by x and y times B, x and y being 0 or 1.              *)
LEMMA SignCorrection ==
    ASSUME NEW B \in Nat \ {0}, NEW a \in 0..(B - 1), NEW b \in 0..(B - 1),
           NEW x \in {0, 1}, NEW y \in {0, 1}
    PROVE  /\ ((a - x * B) * (b - y * B)) \div B
                 = ((a * b) \div B) - x * b - y * a + x * y * B
           /\ ((a - x * B) * (b - y * B)) % B = (a * b) % B
<1> DEFINE p == a * b
           q == p \div B
           r == p % B
           k == q - x * b - y * a + x * y * B
           n == (a - x * B) * (b - y * B)
<1>1. p \in Int BY SMTT(30)
<1>2. q \in Int /\ r \in 0..(B - 1) /\ p = q * B + r BY <1>1, DivModExists
<1> HIDE DEF q, r
<1>3. k \in Int
  <2>1. CASE x = 0 /\ y = 0 BY <1>2, <2>1, SMTT(30)
  <2>2. CASE x = 1 /\ y = 0 BY <1>2, <2>2, SMTT(30)
  <2>3. CASE x = 0 /\ y = 1 BY <1>2, <2>3, SMTT(30)
  <2>4. CASE x = 1 /\ y = 1 BY <1>2, <2>4, SMTT(30)
  <2> QED BY <2>1, <2>2, <2>3, <2>4
<1>4. n = k * B + r
  <2>1. CASE x = 0 /\ y = 0 BY <1>2, <2>1, SMTT(30)
  <2>2. CASE x = 1 /\ y = 0 BY <1>2, <2>2, SMTT(30)
  <2>3. CASE x = 0 /\ y = 1 BY <1>2, <2>3, SMTT(30)
  <2>4. CASE x = 1 /\ y = 1 BY <1>2, <2>4, SMTT(30)
  <2> QED BY <2>1, <2>2, <2>3, <2>4
<1> HIDE DEF n, k
<1>5. n \div B = k /\ n % B = r BY ONLY <1>2, <1>3, <1>4, B \in Nat \ {0}, DivModUnique
<1> QED BY <1>5 DEF n, k, p, q, r

(* A register is its own remainder.                                        *)
LEMMA ModSmall ==
    ASSUME NEW B \in Nat \ {0}, NEW n \in 0..(B - 1)
    PROVE  n % B = n
<1>1. n = 0 * B + n BY SMTT(30)
<1> QED BY <1>1, DivModUnique

(* The upper word of an unsigned product is a register.                    *)
LEMMA HighWord ==
    ASSUME NEW B \in Nat \ {0}, NEW a \in 0..(B - 1), NEW b \in 0..(B - 1)
    PROVE  (a * b) \div B \in 0..(B - 1)
<1> DEFINE p == a * b
           q == p \div B
           r == p % B
<1>1. p \in Nat BY SMTT(30)
<1>2. q \in Int /\ r \in 0..(B - 1) /\ p = q * B + r BY <1>1, DivModExists
<1> HIDE DEF q, r
<1>3. q \in Nat
  <2>1. SUFFICES ASSUME q <= -1 PROVE FALSE BY <1>2
  <2>2. q * B <= (-1) * B BY <1>2, <2>1, SMTT(30)
  <2> HIDE DEF p
  <2> QED BY <1>1, <1>2, <2>2, SMTT(30)
<1>4. q \in 0..(B - 1) BY <1>2, <1>3, ProductFits
<1> QED BY <1>4 DEF q

(* The sign of a register as a number to subtract a multiple of Base by.   *)
SignBit(h, r) == IF Signed(h, r) < 0 THEN 1 ELSE 0

(* A register read as signed is the register less Base times its sign.     *)
LEMMA SignedValue ==
    ASSUME NEW h \in Nat, h >= 4, NEW r \in Register(h)
    PROVE  /\ Base(h) \in Nat \ {0}
           /\ r \in 0..(Base(h) - 1)
           /\ SignBit(h, r) \in {0, 1}
           /\ Signed(h, r) = r - SignBit(h, r) * Base(h)
           /\ Signed(h, r) \in Int
           /\ -Base(h) <= 2 * Signed(h, r) /\ 2 * Signed(h, r) < Base(h)
<1>1. Base(h) \in Nat \ {0} BY SMTT(30) DEF Base
<1>2. r \in 0..(Base(h) - 1) BY DEF Register
<1> QED BY <1>1, <1>2, SMTT(30) DEF SignBit, Signed

(* MUL returns the lower word of the product, whatever the signs are.      *)
THEOREM MulExact ==
    ASSUME NEW h \in Nat, h >= 4, NEW a \in Register(h), NEW b \in Register(h)
    PROVE  MUL(h, a, b) = (a * b) % Base(h)
<1> DEFINE B == Base(h)
           x == SignBit(h, a)
           y == SignBit(h, b)
<1>1. /\ B \in Nat \ {0} /\ a \in 0..(B - 1) /\ b \in 0..(B - 1)
      /\ x \in {0, 1} /\ y \in {0, 1}
      /\ Signed(h, a) = a - x * B /\ Signed(h, b) = b - y * B
  BY SignedValue
<1>2. MUL(h, a, b) = (Signed(h, a) * Signed(h, b)) % B BY DEF MUL, Wrap
<1> HIDE DEF B, x, y
<1>3. ((a - x * B) * (b - y * B)) % B = (a * b) % B BY <1>1, SignCorrection
<1> QED BY <1>1, <1>2, <1>3 DEF B

(* MULHU returns the upper word of the unsigned product.                   *)
THEOREM MulhuExact ==
    ASSUME NEW h \in Nat, h >= 4, NEW a \in Register(h), NEW b \in Register(h)
    PROVE  MULHU(h, a, b) = (a * b) \div Base(h)
BY UmulExact DEF MULHU

(* MULHSU returns the upper word of the product of a signed and an         *)
(* unsigned operand.                                                       *)
THEOREM MulhsuExact ==
    ASSUME NEW h \in Nat, h >= 4, NEW a \in Register(h), NEW b \in Register(h)
    PROVE  MULHSU(h, a, b) = ((Signed(h, a) * b) \div Base(h)) % Base(h)
<1> DEFINE B == Base(h)
           x == SignBit(h, a)
           q == (a * b) \div B
<1>1. /\ B \in Nat \ {0} /\ a \in 0..(B - 1) /\ b \in 0..(B - 1)
      /\ x \in {0, 1} /\ Signed(h, a) = a - x * B
  BY SignedValue
<1>2. umulwide(h, a, b).hi = q BY UmulExact
<1>3. MULHSU(h, a, b) = IF x = 1 THEN (q - b) % B ELSE q
  BY <1>2 DEF MULHSU, mulhsuwide, Wrap, SignBit
<1> HIDE DEF B, x
<1>4. ((a - x * B) * (b - 0 * B)) \div B = q - x * b - 0 * a + x * 0 * B
  BY <1>1, SignCorrection
<1>5. q \in 0..(B - 1) BY <1>1, HighWord
<1> HIDE DEF q
<1>6. CASE x = 0
  <2>1. Signed(h, a) * b = (a - x * B) * (b - 0 * B) BY <1>1, <1>6, SMTT(30)
  <2>2. (Signed(h, a) * b) \div B = q BY <1>1, <1>4, <1>5, <1>6, <2>1, SMTT(30)
  <2>3. q % B = q BY <1>1, <1>5, ModSmall
  <2> QED BY <1>3, <1>6, <2>2, <2>3 DEF B
<1>7. CASE x = 1
  <2>1. Signed(h, a) * b = (a - x * B) * (b - 0 * B) BY <1>1, <1>7, SMTT(30)
  <2>2. (Signed(h, a) * b) \div B = q - b BY <1>1, <1>4, <1>5, <1>7, <2>1, SMTT(30)
  <2> QED BY <1>3, <1>7, <2>2 DEF B
<1> QED BY <1>1, <1>6, <1>7

(* MULH returns the upper word of the signed product.                      *)
THEOREM MulhExact ==
    ASSUME NEW h \in Nat, h >= 4, NEW a \in Register(h), NEW b \in Register(h)
    PROVE  MULH(h, a, b) = ((Signed(h, a) * Signed(h, b)) \div Base(h)) % Base(h)
<1> DEFINE B == Base(h)
           x == SignBit(h, a)
           y == SignBit(h, b)
           sa == Signed(h, a)
           sb == Signed(h, b)
           q == (a * b) \div B
           n == (sa * sb) \div B
<1>1. /\ B \in Nat \ {0} /\ a \in 0..(B - 1) /\ b \in 0..(B - 1)
      /\ x \in {0, 1} /\ y \in {0, 1} /\ sa \in Int /\ sb \in Int
      /\ sa = a - x * B /\ sb = b - y * B
  BY SignedValue
<1>2. umulwide(h, a, b).hi = q BY UmulExact
<1>3. /\ x = 1 <=> sa < 0
      /\ y = 1 <=> sb < 0
  BY DEF SignBit
<1>4. MULH(h, a, b) = LET hi1 == IF x = 1 THEN (q - sb) % B ELSE q
                      IN  IF y = 1 THEN (hi1 - sa) % B ELSE hi1
  BY <1>2, <1>3 DEF MULH, mulwide, Wrap
<1>5. q \in 0..(B - 1) BY <1>1, HighWord
<1> HIDE DEF B, x, y, sa, sb, q
<1>6. ((a - x * B) * (b - y * B)) \div B = q - x * b - y * a + x * y * B
  BY <1>1, SignCorrection DEF q
<1>7. n = q - x * b - y * a + x * y * B BY <1>1, <1>6
<1> HIDE DEF n
<1>8. CASE x = 0 /\ y = 0
  <2>1. n = q BY <1>1, <1>5, <1>7, <1>8, SMTT(30)
  <2> QED BY <1>1, <1>4, <1>5, <1>8, <2>1, ModSmall DEF n, B, sa, sb
<1>9. CASE x = 1 /\ y = 0
  <2>1. n = q - sb BY <1>1, <1>5, <1>7, <1>9, SMTT(30)
  <2> QED BY <1>4, <1>9, <2>1 DEF n, B, sa, sb
<1>10. CASE x = 0 /\ y = 1
  <2>1. n = q - sa BY <1>1, <1>5, <1>7, <1>10, SMTT(30)
  <2> QED BY <1>4, <1>10, <2>1 DEF n, B, sa, sb
<1>11. CASE x = 1 /\ y = 1
  <2> DEFINE m == q - sb
             k == m - sa
             one == 1
  <2>1. m \in Int /\ k \in Int /\ n \in Int /\ one \in Int /\ k = n + one * B
    BY <1>1, <1>5, <1>7, <1>11, SMTT(30)
  <2>2. MULH(h, a, b) = ((m % B) - sa) % B BY <1>4, <1>11
  <2> HIDE DEF m
  <2>3. ((m % B) - sa) % B = (m - sa) % B BY <1>1, <2>1, ModSub
  <2> HIDE DEF k, one
  <2>4. k % B = n % B BY <1>1, <2>1, ModShift
  <2> QED BY <2>2, <2>3, <2>4 DEF k, n, B, sa, sb
<1> QED BY <1>1, <1>8, <1>9, <1>10, <1>11

-----------------------------------------------------------------------------
(* Division                                                                *)

(* What division in C and its remainder are.                               *)
LEMMA Truncated ==
    ASSUME NEW n \in Int, NEW d \in Int \ {0}
    PROVE  LET q == Quotient(n, d)
               r == Remainder(n, d)
           IN  /\ q \in Int /\ r \in Int
               /\ n = q * d + r
               /\ Abs(r) < Abs(d)
               /\ n < 0 => r <= 0
               /\ n >= 0 => r >= 0
<1> DEFINE an == Abs(n)
           ad == Abs(d)
           q == an \div ad
           r == an % ad
<1>1. an \in Nat /\ ad \in Nat \ {0} BY DEF Abs
<1>2. /\ an = IF n < 0 THEN -n ELSE n
      /\ ad = IF d < 0 THEN -d ELSE d
  BY DEF Abs
<1> HIDE DEF an, ad
<1>3. q \in Int /\ r \in 0..(ad - 1) /\ an = q * ad + r BY <1>1, DivModExists
<1>4. /\ Quotient(n, d) = IF (n < 0) = (d < 0) THEN q ELSE -q
      /\ Remainder(n, d) = IF n < 0 THEN -r ELSE r
  BY DEF Quotient, Remainder, an, ad
<1> HIDE DEF q, r
<1>5. n = Quotient(n, d) * d + Remainder(n, d)
  <2>1. CASE n < 0 /\ d < 0
    <3>1. n = -(q * (-d)) - r BY <1>2, <1>3, <2>1, SMTT(30)
    <3>2. -(q * (-d)) = q * d BY <1>3, SMTT(30)
    <3> QED BY <1>3, <1>4, <2>1, <3>1, <3>2, SMTT(30)
  <2>2. CASE n < 0 /\ d >= 0
    <3>1. n = -(q * d) - r BY <1>2, <1>3, <2>2, SMTT(30)
    <3>2. -(q * d) = (-q) * d BY <1>3, SMTT(30)
    <3> QED BY <1>3, <1>4, <2>2, <3>1, <3>2, SMTT(30)
  <2>3. CASE n >= 0 /\ d < 0
    <3>1. n = q * (-d) + r BY <1>2, <1>3, <2>3, SMTT(30)
    <3>2. q * (-d) = (-q) * d BY <1>3, SMTT(30)
    <3> QED BY <1>3, <1>4, <2>3, <3>1, <3>2, SMTT(30)
  <2>4. CASE n >= 0 /\ d >= 0 BY <1>2, <1>3, <1>4, <2>4, SMTT(30)
  <2> QED BY <2>1, <2>2, <2>3, <2>4, SMTT(30)
<1>6. Abs(Remainder(n, d)) < Abs(d)
  <2>1. Abs(Remainder(n, d)) = r BY <1>3, <1>4, <1>1 DEF Abs
  <2> QED BY <1>1, <1>3, <2>1 DEF ad
<1> QED BY <1>3, <1>4, <1>5, <1>6, SMTT(30)

(* Reading back a wrapped number that is in the range of a register.       *)
LEMMA SignedWrap ==
    ASSUME NEW h \in Nat, h >= 4, NEW n \in Int,
           -Base(h) <= 2 * n, 2 * n < Base(h)
    PROVE  Signed(h, Wrap(h, n)) = n
<1> DEFINE B == Base(h)
<1>1. B \in Nat \ {0} BY SMTT(30) DEF Base
<1> HIDE DEF B
<1>2. CASE n >= 0
  <2>1. n \in 0..(B - 1) BY <1>1, <1>2 DEF B
  <2>2. n % B = n BY <1>1, <2>1, ModSmall
  <2> QED BY <1>1, <2>2 DEF Signed, Wrap, B
<1>3. CASE n < 0
  <2> DEFINE m == n + B
             one == 1
  <2>1. m \in 0..(B - 1) /\ one \in Int /\ m = n + one * B /\ n = m - B /\ 2 * m >= B
    BY <1>1, <1>3, SMTT(30) DEF B
  <2> HIDE DEF m, one
  <2>2. m % B = n % B BY <1>1, <2>1, ModShift
  <2>3. n % B = m BY <1>1, <2>1, <2>2, ModSmall
  <2> QED BY <1>1, <2>1, <2>3 DEF Signed, Wrap, B
<1> QED BY <1>2, <1>3

(* The quotient of two registers is in the range of a register, unless the *)
(* smallest number is divided by -1.                                       *)
LEMMA QuotientInRange ==
    ASSUME NEW B \in Nat, NEW n \in Int, -B <= 2 * n, 2 * n < B,
           NEW d \in Int \ {0}, ~(2 * n = -B /\ d = -1)
    PROVE  -B <= 2 * Quotient(n, d) /\ 2 * Quotient(n, d) < B
<1> DEFINE q == Quotient(n, d)
           r == Remainder(n, d)
<1>1. q \in Int /\ r \in Int /\ n = q * d + r
      /\ Abs(r) < Abs(d) /\ (n < 0 => r <= 0) /\ (n >= 0 => r >= 0)
  BY Truncated
<1> HIDE DEF q, r
<1>2. CASE d = 1 \/ d = -1
  <2>1. r = 0 BY <1>1, <1>2 DEF Abs
  <2>2. q = n \/ (d = -1 /\ q = -n) BY <1>1, <1>2, <2>1, SMTT(30)
  <2>3. -B <= 2 * q /\ 2 * q < B BY <1>1, <2>2, SMTT(30)
  <2> QED BY <2>3 DEF q
<1>3. CASE d >= 2 \/ d <= -2
  <2>1. q * d = n - r BY <1>1, SMTT(30)
  <2>2. n - r <= Abs(n) /\ n - r >= -Abs(n)
    <3>1. CASE n < 0
      <4>1. n - r <= 0 \/ n - r <= -n
        BY <1>1, <1>3, <2>1, <3>1, SMTT(30) DEF Abs
      <4> QED BY <1>1, <3>1, <4>1, SMTT(30) DEF Abs
    <3>2. CASE n >= 0
      <4>1. n - r >= -n
        BY <1>1, <3>2, <1>3, <2>1, SMTT(30) DEF Abs
      <4> QED BY <1>1, <3>2, <4>1, SMTT(30) DEF Abs
    <3> QED BY <3>1, <3>2
  <2>3. SUFFICES ASSUME 2 * q >= B \/ 2 * q < -B PROVE FALSE BY <1>1, SMTT(30) DEF q
  <2>4. CASE q = 0 BY <1>1, <2>3, <2>4, SMTT(30)
  <2>5. CASE q > 0 /\ d >= 2
    <3>1. q * d >= q * 2 BY <1>1, <2>5, SMTT(30)
    <3> QED BY <1>1, <2>1, <2>2, <2>3, <2>5, <3>1, SMTT(30) DEF Abs
  <2>6. CASE q > 0 /\ d <= -2
    <3>1. q * d <= q * (-2) BY <1>1, <2>6, SMTT(30)
    <3> QED BY <1>1, <2>1, <2>2, <2>3, <2>6, <3>1, SMTT(30) DEF Abs
  <2>7. CASE q < 0 /\ d >= 2
    <3>1. q * d <= q * 2 BY <1>1, <2>7, SMTT(30)
    <3> QED BY <1>1, <2>1, <2>2, <2>3, <2>7, <3>1, SMTT(30) DEF Abs
  <2>8. CASE q < 0 /\ d <= -2
    <3>1. q * d >= q * (-2) BY <1>1, <2>8, SMTT(30)
    <3> QED BY <1>1, <2>1, <2>2, <2>3, <2>8, <3>1, SMTT(30) DEF Abs
  <2> QED BY <1>1, <1>3, <2>4, <2>5, <2>6, <2>7, <2>8, SMTT(30)
<1> QED BY <1>2, <1>3, SMTT(30)

(* DIV and REM return the quotient rounded towards zero and the remainder  *)
(* with the sign of the dividend, except for the two cases that the code   *)
(* treats by themselves.                                                   *)
THEOREM DivRemExact ==
    ASSUME NEW h \in Nat, h >= 4, NEW a \in Register(h), NEW b \in Register(h) \ {0},
           ~(IntMin(h, a) /\ Signed(h, b) = -1)
    PROVE  LET q == Signed(h, DIV(h, a, b))
               r == Signed(h, REM(h, a, b))
           IN  /\ Signed(h, a) = q * Signed(h, b) + r
               /\ Abs(r) < Abs(Signed(h, b))
               /\ Signed(h, a) < 0 => r <= 0
               /\ Signed(h, a) >= 0 => r >= 0
<1> DEFINE B == Base(h)
           n == Signed(h, a)
           d == Signed(h, b)
<1>1. /\ B \in Nat \ {0}
      /\ n \in Int /\ -B <= 2 * n /\ 2 * n < B
      /\ d \in Int /\ -B <= 2 * d /\ 2 * d < B
  BY SignedValue
<1>2. d # 0
  <2>1. b \in 0..(B - 1) /\ b # 0 BY SignedValue
  <2> QED BY <1>1, <2>1, SMTT(30) DEF Signed
<1>3. ~(2 * n = -B /\ d = -1) BY DEF IntMin
<1>4. DIV(h, a, b) = Wrap(h, Quotient(n, d)) /\ REM(h, a, b) = Wrap(h, Remainder(n, d))
  BY DEF DIV, REM
<1> HIDE DEF B, n, d
<1> DEFINE q == Quotient(n, d)
           r == Remainder(n, d)
<1>5. /\ q \in Int /\ r \in Int /\ n = q * d + r
      /\ Abs(r) < Abs(d) /\ (n < 0 => r <= 0) /\ (n >= 0 => r >= 0)
  BY <1>1, <1>2, Truncated
<1>6. -B <= 2 * q /\ 2 * q < B BY <1>1, <1>2, <1>3, QuotientInRange
<1> HIDE DEF q, r
<1>7. -B <= 2 * r /\ 2 * r < B BY <1>1, <1>5, SMTT(30) DEF Abs
<1>8. Signed(h, Wrap(h, q)) = q BY <1>5, <1>6, SignedWrap DEF B
<1>9. Signed(h, Wrap(h, r)) = r BY <1>5, <1>7, SignedWrap DEF B
<1> QED BY <1>4, <1>5, <1>8, <1>9 DEF q, r, n, d

(* DIVU and REMU return the quotient and the remainder of the registers.   *)
THEOREM DivuRemuExact ==
    ASSUME NEW h \in Nat, h >= 4, NEW a \in Register(h), NEW b \in Register(h) \ {0}
    PROVE  /\ a = DIVU(h, a, b) * b + REMU(h, a, b)
           /\ REMU(h, a, b) \in 0..(b - 1)
<1>1. a \in Int /\ b \in Nat \ {0} BY SignedValue, SMTT(30)
<1>2. DIVU(h, a, b) = a \div b /\ REMU(h, a, b) = a % b BY DEF DIVU, REMU
<1>3. a = (a \div b) * b + (a % b) /\ a % b \in 0..(b - 1) BY <1>1, DivModExists
<1> QED BY <1>2, <1>3

(* The two cases keep the identity that software relies on, modulo the     *)
(* size of a register: for a zero divisor and for the quotient that does   *)
(* not fit, rs1 still is DIV * rs2 + REM.                                  *)
THEOREM DivRemIdentityAtEdges ==
    ASSUME NEW h \in Nat, h >= 4, NEW a \in Register(h), NEW b \in Register(h),
           b = 0 \/ (IntMin(h, a) /\ Signed(h, b) = -1)
    PROVE  Wrap(h, DIV(h, a, b) * Signed(h, b) + REM(h, a, b)) = a
<1> DEFINE B == Base(h)
<1>1. B \in Nat \ {0} /\ a \in 0..(B - 1) /\ b \in 0..(B - 1) BY SignedValue
<1> HIDE DEF B
<1>2. a % B = a BY <1>1, ModSmall
<1>3. CASE b = 0
  <2>1. Signed(h, b) = 0 BY <1>1, <1>3, SMTT(30) DEF Signed, B
  <2>2. REM(h, a, b) = a /\ DIV(h, a, b) = (-1) % B BY <1>3 DEF REM, DIV, Wrap, B
  <2>3. (-1) % B \in Int BY <1>1, DivModExists
  <2>4. DIV(h, a, b) * Signed(h, b) + REM(h, a, b) = a BY <1>1, <2>1, <2>2, <2>3, SMTT(30)
  <2> QED BY <1>2, <2>4 DEF Wrap, B
<1>4. CASE b # 0
  <2>1. IntMin(h, a) /\ Signed(h, b) = -1 BY <1>4
  <2>2. DIV(h, a, b) = a /\ REM(h, a, b) = 0 BY <1>4, <2>1 DEF DIV, REM
  <2>3. 2 * a = B BY <1>1, <2>1, SMTT(30) DEF IntMin, Signed, B
  <2> DEFINE m == a * (-1) + 0
             one == 1
  <2>4. m \in Int /\ one \in Int /\ a = m + one * B BY <1>1, <2>3, SMTT(30)
  <2>5. DIV(h, a, b) * Signed(h, b) + REM(h, a, b) = m BY <2>1, <2>2
  <2> HIDE DEF m, one
  <2>6. a % B = m % B BY <1>1, <2>4, ModShift
  <2> QED BY <1>2, <2>5, <2>6 DEF Wrap, B
<1> QED BY <1>3, <1>4
=============================================================================
