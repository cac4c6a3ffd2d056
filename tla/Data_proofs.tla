----------------------------- MODULE Data_proofs -----------------------------
(***************************************************************************)
(* What the pure functions of the firmware compute, for every input: the   *)
(* check byte of a packet, comp_crc and compCRC, and the digits of a       *)
(* number on the display, dwtoa.                                           *)
(***************************************************************************)
EXTENDS Crc8, Lcd, SequenceTheorems, WellFoundedInduction, TLAPS

-----------------------------------------------------------------------------
(* Induction over the natural numbers, for a set instead of a predicate.   *)

Below == {p \in Nat \X Nat : p[1] < p[2]}

LEMMA BelowWF == IsWellFoundedOn(Below, Nat)
BY NatLessThanWellFounded DEF OpToRel, Below

LEMMA SetInduction ==
  ASSUME NEW S, 0 \in S, \A n \in Nat : n \in S => n + 1 \in S
  PROVE  Nat \subseteq S
<1> DEFINE T == Nat \ S
<1> SUFFICES ASSUME T # {} PROVE FALSE
  OBVIOUS
<1>1. PICK x \in T : \A y \in T : <<y, x>> \notin Below
  <2>1. T \subseteq Nat
    OBVIOUS
  <2> HIDE DEF T
  <2> QED BY <2>1, BelowWF, WFMin
<1>2. x \in Nat /\ x # 0
  OBVIOUS
<1>3. x - 1 \in Nat /\ x - 1 \in T
  BY <1>2
<1>4. <<x - 1, x>> \in Below
  BY <1>2, <1>3 DEF Below
<1> QED BY <1>1, <1>3, <1>4

-----------------------------------------------------------------------------
(* The check byte.                                                         *)

Byte == 0 .. 255

\* One pass of the loop, spelled out.
Low(c, b)  == (c + b) % 2
Shift(c, b) == IF Low(c, b) = 1 THEN XorPoly(c) \div 2 + 128 ELSE c \div 2

\* Inverting bits 3 and 4 of the check byte is inverting bits 2 and 3 of its half.
LEMMA PolyHalf ==
  ASSUME NEW c \in Byte
  PROVE  \E q \in 0 .. 7, m, r \in 0 .. 3 :
           /\ c \div 2 = 16 * q + 4 * m + r
           /\ XorPoly(c) \div 2 = 16 * q + 4 * (3 - m) + r
<1> DEFINE h == c \div 2
           m == (c \div 8) % 4
           q == c \div 32
           r == h % 4
<1>1. c \in Nat /\ c <= 255
  BY DEF Byte
<1>2. h \in 0 .. 127 /\ 2 * h <= c /\ c <= 2 * h + 1
  BY <1>1
<1>3. q \in 0 .. 7 /\ m \in 0 .. 3 /\ r \in 0 .. 3
  BY <1>1
<1>4. h = 16 * q + 4 * m + r
  <2>1. c \div 8 = 4 * q + m
    BY <1>1
  <2>2. h = 4 * (c \div 8) + r
    BY <1>1
  <2> QED BY <2>1, <2>2, <1>3
<1>5. XorPoly(c) \div 2 = 16 * q + 4 * (3 - m) + r
  <2>1. XorPoly(c) = c - 8 * m + 8 * (3 - m)
    BY DEF XorPoly
  <2>2. XorPoly(c) \div 2 = h - 4 * m + 4 * (3 - m)
    BY <1>1, <1>2, <1>3, <2>1
  <2> QED BY <1>3, <1>4, <2>2
<1> QED BY <1>3, <1>4, <1>5

LEMMA ShiftBitValue ==
  ASSUME NEW c \in Byte, NEW b \in Byte
  PROVE  ShiftBit[<<c, b>>] = <<Shift(c, b), b \div 2>>
BY DEF ShiftBit, Shift, Low, Byte

LEMMA ShiftType ==
  ASSUME NEW c \in Byte, NEW b \in Byte
  PROVE  /\ Shift(c, b) \in Byte /\ b \div 2 \in Byte
         /\ Shift(c, b) \div 128 = Low(c, b)
<1>1. c \in 0 .. 255 /\ b \in 0 .. 255 /\ Low(c, b) \in {0, 1}
  BY DEF Byte, Low
<1>2. PICK q \in 0 .. 7, m \in 0 .. 3, r \in 0 .. 3 :
        /\ c \div 2 = 16 * q + 4 * m + r
        /\ XorPoly(c) \div 2 = 16 * q + 4 * (3 - m) + r
  BY PolyHalf
<1>3. c \div 2 \in 0 .. 127 /\ XorPoly(c) \div 2 \in 0 .. 127 /\ b \div 2 \in Byte
  BY <1>1, <1>2 DEF Byte
<1>4. \A x \in 0 .. 127 : /\ x + 128 \in Byte /\ (x + 128) \div 128 = 1
                         /\ x \in Byte /\ x \div 128 = 0
  BY DEF Byte
<1>5. Shift(c, b) \in Byte /\ Shift(c, b) \div 128 = Low(c, b)
  <2>1. CASE Low(c, b) = 1
    <3>1. Shift(c, b) = XorPoly(c) \div 2 + 128
      BY <2>1 DEF Shift
    <3> QED BY <1>3, <1>4, <2>1, <3>1
  <2>2. CASE Low(c, b) = 0
    <3>1. Shift(c, b) = c \div 2
      BY <2>2 DEF Shift
    <3> QED BY <1>3, <1>4, <2>2, <3>1
  <2> QED BY <1>1, <2>1, <2>2
<1> QED BY <1>3, <1>5

\* The upper bits of the result tell the bit that was shifted in and the upper bits there
\* were before.
LEMMA ShiftTop ==
  ASSUME NEW c1 \in Byte, NEW b1 \in Byte, NEW c2 \in Byte, NEW b2 \in Byte,
         NEW P \in {1, 2, 4, 8, 16, 32, 64},
         Shift(c1, b1) \div P = Shift(c2, b2) \div P
  PROVE  Low(c1, b1) = Low(c2, b2) /\ c1 \div (2 * P) = c2 \div (2 * P)
<1> DEFINE s1 == Shift(c1, b1)
           s2 == Shift(c2, b2)
<1>1. /\ s1 \in 0 .. 255 /\ s2 \in 0 .. 255 /\ s1 \div 128 = Low(c1, b1)
      /\ s2 \div 128 = Low(c2, b2)
  <2> HIDE DEF s1, s2
  <2>1. s1 \in Byte /\ s1 \div 128 = Low(c1, b1)
    BY ShiftType DEF s1
  <2>2. s2 \in Byte /\ s2 \div 128 = Low(c2, b2)
    BY ShiftType DEF s2
  <2> QED BY <2>1, <2>2 DEF Byte
<1>2. PICK q1 \in 0 .. 7, m1 \in 0 .. 3, r1 \in 0 .. 3 :
        /\ c1 \div 2 = 16 * q1 + 4 * m1 + r1
        /\ XorPoly(c1) \div 2 = 16 * q1 + 4 * (3 - m1) + r1
  BY PolyHalf
<1>3. PICK q2 \in 0 .. 7, m2 \in 0 .. 3, r2 \in 0 .. 3 :
        /\ c2 \div 2 = 16 * q2 + 4 * m2 + r2
        /\ XorPoly(c2) \div 2 = 16 * q2 + 4 * (3 - m2) + r2
  BY PolyHalf
<1>4. c1 \in Nat /\ c2 \in Nat
  BY DEF Byte
<1>5. s1 \div 128 = s2 \div 128
  <2> HIDE DEF s1, s2
  <2>1. s1 \div P = s2 \div P
    BY DEF s1, s2
  <2> QED BY <1>1, <2>1
<1>6. (c1 \div 2) \div P = (c2 \div 2) \div P
  <2>1. CASE Low(c1, b1) = 1
    <3>1. s1 = 16 * q1 + 4 * (3 - m1) + r1 + 128 /\ s2 = 16 * q2 + 4 * (3 - m2) + r2 + 128
      BY <1>1, <1>2, <1>3, <1>5, <2>1 DEF Shift
    <3>2. s1 \div P = s2 \div P
      OBVIOUS
    <3> HIDE DEF s1, s2
    <3>3. CASE P = 1
      BY <1>2, <1>3, <3>1, <3>2, <3>3
    <3>4. CASE P = 2
      BY <1>2, <1>3, <3>1, <3>2, <3>4
    <3>5. CASE P = 4
      BY <1>2, <1>3, <3>1, <3>2, <3>5
    <3>6. CASE P = 8
      BY <1>2, <1>3, <3>1, <3>2, <3>6
    <3>7. CASE P = 16
      BY <1>2, <1>3, <3>1, <3>2, <3>7
    <3>8. CASE P = 32
      BY <1>2, <1>3, <3>1, <3>2, <3>8
    <3>9. CASE P = 64
      BY <1>2, <1>3, <3>1, <3>2, <3>9
    <3> QED BY <3>3, <3>4, <3>5, <3>6, <3>7, <3>8, <3>9
  <2>2. CASE Low(c1, b1) # 1
    <3>1. s1 = c1 \div 2 /\ s2 = c2 \div 2
      BY <1>1, <1>5, <2>2 DEF Shift
    <3> QED BY <3>1
  <2> QED BY <2>1, <2>2
<1>7. c1 \div (2 * P) = (c1 \div 2) \div P /\ c2 \div (2 * P) = (c2 \div 2) \div P
  BY <1>4
<1> QED BY <1>1, <1>5, <1>6, <1>7

\* With the same data byte, different check bytes stay different.
LEMMA ShiftInjective ==
  ASSUME NEW c1 \in Byte, NEW c2 \in Byte, NEW b \in Byte, Shift(c1, b) = Shift(c2, b)
  PROVE  c1 = c2
<1>1. Shift(c1, b) \div 1 = Shift(c2, b) \div 1
  OBVIOUS
<1>2. Low(c1, b) = Low(c2, b) /\ c1 \div (2 * 1) = c2 \div (2 * 1)
  BY <1>1, ShiftTop
<1> QED BY SMTT(30), <1>2 DEF Low, Byte

\* The loop of comp_crc, as the check byte x and the data byte y after each pass.
CrcRun(x, y, c, b) ==
  /\ x[0] = c /\ y[0] = b
  /\ \A j \in 0 .. 8 : x[j] \in Byte /\ y[j] \in Byte
  /\ \A j \in 0 .. 7 : x[j + 1] = Shift(x[j], y[j]) /\ y[j + 1] = y[j] \div 2

LEMMA CompCrcRun ==
  ASSUME NEW c \in Byte, NEW b \in Byte
  PROVE  \E x, y : CrcRun(x, y, c, b) /\ comp_crc(c, b) = x[8]
<1> DEFINE After(f, n) == f = [j \in 0 .. n |-> IF j = 0 THEN <<c, b>> ELSE ShiftBit[f[j - 1]]]
           S == {n \in Nat : \E f : After(f, n)}
<1>1. 0 \in S
  <2>1. After([j \in 0 .. 0 |-> <<c, b>>], 0)
    OBVIOUS
  <2> QED BY <2>1
<1>2. ASSUME NEW n \in S PROVE n + 1 \in S
  <2>1. PICK f : After(f, n)
    OBVIOUS
  <2> DEFINE g == [j \in 0 .. n + 1 |-> IF j <= n THEN f[j] ELSE ShiftBit[f[n]]]
  <2>2. \A j \in 0 .. n : f[j] = IF j = 0 THEN <<c, b>> ELSE ShiftBit[f[j - 1]]
    BY <2>1
  <2>3. ASSUME NEW j \in 0 .. n + 1
        PROVE  g[j] = IF j = 0 THEN <<c, b>> ELSE ShiftBit[g[j - 1]]
    <3>1. CASE j <= n
      <4>1. j \in 0 .. n /\ g[j] = f[j]
        BY <3>1
      <4>2. ASSUME j # 0 PROVE g[j - 1] = f[j - 1]
        BY <3>1, <4>2
      <4> HIDE DEF g
      <4> QED BY <2>2, <4>1, <4>2
    <3>2. CASE j = n + 1
      BY <3>2
    <3> QED BY <3>1, <3>2
  <2>4. g = [j \in 0 .. n + 1 |-> g[j]]
    OBVIOUS
  <2> HIDE DEF g
  <2>5. After(g, n + 1)
    BY <2>3, <2>4
  <2> QED BY SMTT(30), <2>5
<1>3. 8 \in S
  <2> HIDE DEF S
  <2>1. Nat \subseteq S
    BY <1>1, <1>2, SetInduction
  <2> QED BY <2>1
<1> DEFINE after == CHOOSE f : After(f, 8)
<1>4. After(after, 8)
  BY <1>3
<1>5. comp_crc(c, b) = after[8][1]
  BY DEF comp_crc
<1> HIDE DEF after
<1>6. after[0] = <<c, b>> /\ \A j \in 0 .. 7 : after[j + 1] = ShiftBit[after[j]]
  <2>1. \A j \in 0 .. 8 : after[j] = IF j = 0 THEN <<c, b>> ELSE ShiftBit[after[j - 1]]
    BY <1>4
  <2> QED BY <2>1
<1> DEFINE P(j) == \E u \in Byte, v \in Byte : after[j] = <<u, v>>
           x == [j \in 0 .. 8 |-> after[j][1]]
           y == [j \in 0 .. 8 |-> after[j][2]]
<1>7. ASSUME NEW j \in 0 .. 7, P(j)
      PROVE  /\ P(j + 1) /\ after[j + 1][1] = Shift(after[j][1], after[j][2])
             /\ after[j + 1][2] = after[j][2] \div 2
  <2>1. PICK u \in Byte, v \in Byte : after[j] = <<u, v>>
    BY <1>7
  <2>2. after[j + 1] = <<Shift(u, v), v \div 2>>
    BY ZenonT(40), <1>6, <2>1, ShiftBitValue
  <2>3. Shift(u, v) \in Byte /\ v \div 2 \in Byte
    BY ShiftType
  <2> QED BY <2>1, <2>2, <2>3
<1>8. \A j \in 0 .. 8 : P(j)
  <2>0. P(0)
    BY <1>6
  <2> HIDE DEF P
  <2>1. P(1)
    BY <1>7, <2>0
  <2>2. P(2)
    BY <1>7, <2>1
  <2>3. P(3)
    BY <1>7, <2>2
  <2>4. P(4)
    BY <1>7, <2>3
  <2>5. P(5)
    BY <1>7, <2>4
  <2>6. P(6)
    BY <1>7, <2>5
  <2>7. P(7)
    BY <1>7, <2>6
  <2>8. P(8)
    BY <1>7, <2>7
  <2> QED BY <2>0, <2>1, <2>2, <2>3, <2>4, <2>5, <2>6, <2>7, <2>8
<1>9. \A j \in 0 .. 8 : after[j][1] \in Byte /\ after[j][2] \in Byte
  BY <1>8
<1>10. \A j \in 0 .. 7 : /\ after[j + 1][1] = Shift(after[j][1], after[j][2])
                         /\ after[j + 1][2] = after[j][2] \div 2
  BY <1>7, <1>8
<1>11. CrcRun(x, y, c, b)
  BY <1>6, <1>9, <1>10 DEF CrcRun
<1> QED BY <1>5, <1>11

\* Different check bytes stay different while the same data goes through.
LEMMA CrcInjective ==
  ASSUME NEW c1 \in Byte, NEW c2 \in Byte, NEW b \in Byte, comp_crc(c1, b) = comp_crc(c2, b)
  PROVE  c1 = c2
<1>1. PICK x1, y1 : CrcRun(x1, y1, c1, b) /\ comp_crc(c1, b) = x1[8]
  BY CompCrcRun
<1>2. PICK x2, y2 : CrcRun(x2, y2, c2, b) /\ comp_crc(c2, b) = x2[8]
  BY CompCrcRun
<1>3. /\ y1[0] = y2[0]
      /\ \A j \in 0 .. 7 : y1[j] = y2[j] => y1[j + 1] = y2[j + 1]
  BY <1>1, <1>2 DEF CrcRun
<1>4. y1[1] = y2[1] /\ y1[2] = y2[2] /\ y1[3] = y2[3] /\ y1[4] = y2[4]
      /\ y1[5] = y2[5] /\ y1[6] = y2[6] /\ y1[7] = y2[7]
  BY <1>3
<1>5. ASSUME NEW j \in 0 .. 7, y1[j] = y2[j], x1[j + 1] = x2[j + 1] PROVE x1[j] = x2[j]
  <2>1. /\ x1[j] \in Byte /\ x2[j] \in Byte /\ y1[j] \in Byte
        /\ x1[j + 1] = Shift(x1[j], y1[j]) /\ x2[j + 1] = Shift(x2[j], y2[j])
    BY <1>1, <1>2 DEF CrcRun
  <2>2. Shift(x1[j], y1[j]) = Shift(x2[j], y1[j])
    BY <1>5, <2>1
  <2>3. x1[j] \in Byte /\ x2[j] \in Byte /\ y1[j] \in Byte
    BY <2>1
  <2> QED BY <2>2, <2>3, ShiftInjective
<1>6. x1[8] = x2[8]
  BY <1>1, <1>2
<1>7. x1[7] = x2[7]
  BY <1>4, <1>5, <1>6
<1>8. x1[6] = x2[6]
  BY <1>4, <1>5, <1>7
<1>9. x1[5] = x2[5]
  BY <1>4, <1>5, <1>8
<1>10. x1[4] = x2[4]
  BY <1>4, <1>5, <1>9
<1>11. x1[3] = x2[3]
  BY <1>4, <1>5, <1>10
<1>12. x1[2] = x2[2]
  BY <1>4, <1>5, <1>11
<1>13. x1[1] = x2[1]
  BY <1>4, <1>5, <1>12
<1>14. x1[0] = x2[0]
  BY <1>3, <1>5, <1>13
<1> QED BY <1>1, <1>2, <1>14 DEF CrcRun

\* A byte that differs makes the check byte differ.
LEMMA CrcTells ==
  ASSUME NEW c \in Byte, NEW b1 \in Byte, NEW b2 \in Byte, comp_crc(c, b1) = comp_crc(c, b2)
  PROVE  b1 = b2
<1>1. PICK x1, y1 : CrcRun(x1, y1, c, b1) /\ comp_crc(c, b1) = x1[8]
  BY CompCrcRun
<1>2. PICK x2, y2 : CrcRun(x2, y2, c, b2) /\ comp_crc(c, b2) = x2[8]
  BY CompCrcRun
<1> DEFINE L(j) == Low(x1[j], y1[j]) = Low(x2[j], y2[j])
           H(j, P) == x1[j] \div P = x2[j] \div P
<1>3. \A j \in 0 .. 7 :
        /\ x1[j] \in Byte /\ x2[j] \in Byte /\ y1[j] \in Byte /\ y2[j] \in Byte
        /\ x1[j + 1] = Shift(x1[j], y1[j]) /\ x2[j + 1] = Shift(x2[j], y2[j])
        /\ y1[j + 1] = y1[j] \div 2 /\ y2[j + 1] = y2[j] \div 2
  BY <1>1, <1>2 DEF CrcRun
\* backwards: what is left of the check byte tells every bit that was shifted in
<1>4. ASSUME NEW j \in 0 .. 7, NEW P \in {1, 2, 4, 8, 16, 32, 64}, H(j + 1, P)
      PROVE  L(j) /\ H(j, 2 * P)
  <2>1. Shift(x1[j], y1[j]) \div P = Shift(x2[j], y2[j]) \div P
    BY <1>3, <1>4
  <2>2. x1[j] \in Byte /\ x2[j] \in Byte /\ y1[j] \in Byte /\ y2[j] \in Byte
    BY <1>3
  <2> QED BY <2>1, <2>2, ShiftTop
<1>5. ASSUME NEW j \in 0 .. 7, H(j + 1, 128) PROVE L(j)
  <2>1. Shift(x1[j], y1[j]) \div 128 = Shift(x2[j], y2[j]) \div 128
    BY <1>3, <1>5
  <2>2. x1[j] \in Byte /\ x2[j] \in Byte /\ y1[j] \in Byte /\ y2[j] \in Byte
    BY <1>3
  <2>3. Low(x1[j], y1[j]) = Shift(x1[j], y1[j]) \div 128
    BY <2>2, ShiftType
  <2>4. Low(x2[j], y2[j]) = Shift(x2[j], y2[j]) \div 128
    BY <2>2, ShiftType
  <2> QED BY <2>1, <2>3, <2>4
<1>6. x1[8] = x2[8] /\ H(8, 1)
  BY <1>1, <1>2
<1> HIDE DEF L, H
<1>7. L(7) /\ H(7, 2)
  BY <1>4, <1>6
<1>8. L(6) /\ H(6, 4)
  BY <1>4, <1>7
<1>9. L(5) /\ H(5, 8)
  BY <1>4, <1>8
<1>10. L(4) /\ H(4, 16)
  BY <1>4, <1>9
<1>11. L(3) /\ H(3, 32)
  BY <1>4, <1>10
<1>12. L(2) /\ H(2, 64)
  BY <1>4, <1>11
<1>13. L(1) /\ H(1, 128)
  BY <1>4, <1>12
<1>14. L(0)
  BY <1>5, <1>13
\* forwards: the check bytes are the same all the way, and so are the bits of the data
<1>15. ASSUME NEW j \in 0 .. 7, x1[j] = x2[j], L(j)
       PROVE  x1[j + 1] = x2[j + 1] /\ y1[j] % 2 = y2[j] % 2
  <2>1. x1[j + 1] = x2[j + 1]
    BY <1>3, <1>15 DEF L, Shift
  <2>2. PICK u \in 0 .. 255, v \in 0 .. 255, w \in 0 .. 255 : u = x1[j] /\ v = y1[j] /\ w = y2[j]
    BY ZenonT(40), <1>3 DEF Byte
  <2>3. (u + v) % 2 = (u + w) % 2
    BY <1>15, <2>2 DEF L, Low
  <2>4. v % 2 = w % 2
    BY <2>3
  <2>5. y1[j] % 2 = y2[j] % 2
    BY <2>2, <2>4
  <2> QED BY <2>1, <2>5
<1>16. x1[0] = x2[0]
  BY <1>1, <1>2 DEF CrcRun
<1>17. x1[1] = x2[1] /\ y1[0] % 2 = y2[0] % 2
  BY <1>14, <1>15, <1>16
<1>18. x1[2] = x2[2] /\ y1[1] % 2 = y2[1] % 2
  BY <1>13, <1>15, <1>17
<1>19. x1[3] = x2[3] /\ y1[2] % 2 = y2[2] % 2
  BY <1>12, <1>15, <1>18
<1>20. x1[4] = x2[4] /\ y1[3] % 2 = y2[3] % 2
  BY <1>11, <1>15, <1>19
<1>21. x1[5] = x2[5] /\ y1[4] % 2 = y2[4] % 2
  BY <1>10, <1>15, <1>20
<1>22. x1[6] = x2[6] /\ y1[5] % 2 = y2[5] % 2
  BY <1>9, <1>15, <1>21
<1>23. x1[7] = x2[7] /\ y1[6] % 2 = y2[6] % 2
  BY <1>8, <1>15, <1>22
<1>24. y1[7] % 2 = y2[7] % 2
  BY <1>7, <1>15, <1>23
\* and nothing is left of the data
<1>25. ASSUME NEW j \in 0 .. 7, y1[j + 1] = y2[j + 1], y1[j] % 2 = y2[j] % 2
       PROVE  y1[j] = y2[j]
  <2>1. y1[j] \in 0 .. 255 /\ y2[j] \in 0 .. 255
    BY <1>3 DEF Byte
  <2>2. y1[j] \div 2 = y2[j] \div 2
    BY <1>3, <1>25
  <2>3. \A u, v \in 0 .. 255 : u \div 2 = v \div 2 /\ u % 2 = v % 2 => u = v
    OBVIOUS
  <2> QED BY <1>25, <2>1, <2>2, <2>3
<1>26. y1[8] = 0 /\ y2[8] = 0
  <2>1. ASSUME NEW y, y[0] \in 0 .. 255, \A j \in 0 .. 7 : y[j + 1] = y[j] \div 2
        PROVE  y[8] = 0
    <3>1. y[1] \in 0 .. 127
      BY <2>1
    <3>2. y[2] \in 0 .. 63
      BY <2>1, <3>1
    <3>3. y[3] \in 0 .. 31
      BY <2>1, <3>2
    <3>4. y[4] \in 0 .. 15
      BY <2>1, <3>3
    <3>5. y[5] \in 0 .. 7
      BY <2>1, <3>4
    <3>6. y[6] \in 0 .. 3
      BY <2>1, <3>5
    <3>7. y[7] \in 0 .. 1
      BY <2>1, <3>6
    <3> QED BY <2>1, <3>7
  <2>2. y1[0] \in 0 .. 255 /\ y2[0] \in 0 .. 255
    BY <1>1, <1>2 DEF CrcRun, Byte
  <2> QED BY <1>3, <2>1, <2>2
<1>27. y1[7] = y2[7]
  BY <1>24, <1>25, <1>26
<1>28. y1[6] = y2[6]
  BY <1>23, <1>25, <1>27
<1>29. y1[5] = y2[5]
  BY <1>22, <1>25, <1>28
<1>30. y1[4] = y2[4]
  BY <1>21, <1>25, <1>29
<1>31. y1[3] = y2[3]
  BY <1>20, <1>25, <1>30
<1>32. y1[2] = y2[2]
  BY <1>19, <1>25, <1>31
<1>33. y1[1] = y2[1]
  BY <1>18, <1>25, <1>32
<1>34. y1[0] = y2[0]
  BY <1>17, <1>25, <1>33
<1> QED BY <1>1, <1>2, <1>34 DEF CrcRun

\* compCRC as the check byte x after each byte of the packet.
PacketRun(x, p) ==
  /\ x[0] = 0
  /\ \A j \in 0 .. Len(p) : x[j] \in Byte
  /\ \A j \in 0 .. Len(p) - 1 : x[j + 1] = comp_crc(x[j], p[j + 1])
  /\ compCRC(p) = x[Len(p)]

LEMMA CompCrcType ==
  ASSUME NEW c \in Byte, NEW b \in Byte
  PROVE  comp_crc(c, b) \in Byte
<1>1. PICK x, y : CrcRun(x, y, c, b) /\ comp_crc(c, b) = x[8]
  BY CompCrcRun
<1> QED BY <1>1 DEF CrcRun

LEMMA HasPacketRun ==
  ASSUME NEW p \in Seq(Byte)
  PROVE  \E x : PacketRun(x, p)
<1> DEFINE After(f, n) == f = [j \in 0 .. n |-> IF j = 0 THEN 0 ELSE comp_crc(f[j - 1], p[j])]
           S == {n \in Nat : \E f : After(f, n)}
           N == Len(p)
<1>1. 0 \in S
  <2>1. After([j \in 0 .. 0 |-> 0], 0)
    OBVIOUS
  <2> QED BY <2>1
<1>2. ASSUME NEW n \in S PROVE n + 1 \in S
  <2>1. PICK f : After(f, n)
    OBVIOUS
  <2> DEFINE g == [j \in 0 .. n + 1 |-> IF j <= n THEN f[j] ELSE comp_crc(f[n], p[n + 1])]
  <2>2. \A j \in 0 .. n : f[j] = IF j = 0 THEN 0 ELSE comp_crc(f[j - 1], p[j])
    BY <2>1
  <2>3. ASSUME NEW j \in 0 .. n + 1
        PROVE  g[j] = IF j = 0 THEN 0 ELSE comp_crc(g[j - 1], p[j])
    <3>1. CASE j <= n
      <4>1. j \in 0 .. n /\ g[j] = f[j]
        BY <3>1
      <4>2. ASSUME j # 0 PROVE g[j - 1] = f[j - 1]
        BY <3>1, <4>2
      <4> HIDE DEF g
      <4> QED BY <2>2, <4>1, <4>2
    <3>2. CASE j = n + 1
      BY <3>2
    <3> QED BY <3>1, <3>2
  <2>4. g = [j \in 0 .. n + 1 |-> g[j]]
    OBVIOUS
  <2> HIDE DEF g
  <2>5. After(g, n + 1)
    BY <2>3, <2>4
  <2> QED BY <2>5
<1>3. N \in S /\ N \in Nat
  <2> HIDE DEF S
  <2>1. Nat \subseteq S
    BY <1>1, <1>2, SetInduction
  <2> QED BY <2>1, LenProperties
<1> DEFINE crc == CHOOSE f : After(f, N)
<1>4. After(crc, N)
  BY <1>3
<1>5. compCRC(p) = crc[N]
  BY DEF compCRC
<1> HIDE DEF crc, N
<1>6. \A j \in 0 .. N : crc[j] = IF j = 0 THEN 0 ELSE comp_crc(crc[j - 1], p[j])
  BY <1>4
<1>7. crc[0] = 0 /\ \A j \in 0 .. N - 1 : crc[j + 1] = comp_crc(crc[j], p[j + 1])
  BY <1>3, <1>6
<1> DEFINE T == {n \in Nat : n <= N => crc[n] \in Byte}
<1>8. \A n \in Nat : n <= N => crc[n] \in Byte
  <2>1. 0 \in T
    BY <1>7 DEF Byte
  <2>2. ASSUME NEW n \in Nat, n \in T PROVE n + 1 \in T
    <3>1. CASE n + 1 <= N
      <4>1. crc[n] \in Byte /\ n \in 0 .. N - 1
        BY <1>3, <2>2, <3>1
      <4>2. p[n + 1] \in Byte
        BY <1>3, <3>1, ElementOfSeq DEF N
      <4>3. crc[n + 1] \in Byte
        BY <1>7, <4>1, <4>2, CompCrcType
      <4> QED BY <4>3
    <3> QED BY <3>1
  <2> HIDE DEF T
  <2>3. Nat \subseteq T
    BY <2>1, <2>2, SetInduction
  <2> QED BY <2>3 DEF T
<1>9. PacketRun(crc, p)
  BY <1>5, <1>7, <1>8 DEF PacketRun, N
<1> QED BY <1>9

\* The check byte of every packet is a byte.
THEOREM CheckByteIsByte == \A p \in Seq(Byte) : compCRC(p) \in Byte
<1> SUFFICES ASSUME NEW p \in Seq(Byte) PROVE compCRC(p) \in Byte
  OBVIOUS
<1>1. PICK x : PacketRun(x, p)
  BY HasPacketRun
<1>2. Len(p) \in 0 .. Len(p)
  BY LenProperties
<1> QED BY <1>1, <1>2 DEF PacketRun

\* A packet of which one byte has changed has another check byte.
LEMMA DamageShows ==
  ASSUME NEW p \in Seq(Byte), NEW q \in Seq(Byte), Len(q) = Len(p), NEW i \in 1 .. Len(p),
         p[i] # q[i], \A j \in 1 .. Len(p) : j # i => p[j] = q[j]
  PROVE  compCRC(p) # compCRC(q)
<1> DEFINE n == Len(p)
<1>1. PICK x : PacketRun(x, p)
  BY HasPacketRun
<1>2. PICK y : PacketRun(y, q)
  BY HasPacketRun
<1>3. n \in Nat /\ i \in 1 .. n /\ \A j \in 1 .. n : p[j] \in Byte /\ q[j] \in Byte
  BY LenProperties, ElementOfSeq
<1>4. /\ x[0] = y[0]
      /\ \A j \in 0 .. n : x[j] \in Byte /\ y[j] \in Byte
      /\ \A j \in 0 .. n - 1 : /\ x[j + 1] = comp_crc(x[j], p[j + 1])
                               /\ y[j + 1] = comp_crc(y[j], q[j + 1])
      /\ compCRC(p) = x[n] /\ compCRC(q) = y[n]
  BY <1>1, <1>2 DEF PacketRun
<1>5. \A j \in 1 .. n : j # i => p[j] = q[j]
  OBVIOUS
<1> HIDE DEF n
<1> DEFINE S == {m \in Nat : m < i => x[m] = y[m]}
           T == {m \in Nat : i + m <= n => x[i + m] # y[i + m]}
<1>6. \A m \in Nat : m < i => x[m] = y[m]
  <2>1. 0 \in S
    BY <1>4
  <2>2. ASSUME NEW m \in Nat, m \in S PROVE m + 1 \in S
    <3>1. CASE m + 1 < i
      <4>1. m \in 0 .. n - 1 /\ m + 1 \in 1 .. n /\ m + 1 # i /\ x[m] = y[m]
        BY <1>3, <2>2, <3>1
      <4>2. x[m + 1] = y[m + 1]
        BY <1>4, <1>5, <4>1
      <4> QED BY <4>2
    <3> QED BY <3>1
  <2> HIDE DEF S
  <2>3. Nat \subseteq S
    BY <2>1, <2>2, SetInduction
  <2> QED BY <2>3 DEF S
<1>7. x[i] # y[i]
  <2>1. i - 1 \in 0 .. n - 1 /\ (i - 1) + 1 = i /\ i - 1 \in Nat /\ i - 1 < i /\ i - 1 \in 0 .. n
    BY <1>3
  <2>2. x[i] = comp_crc(x[i - 1], p[i]) /\ y[i] = comp_crc(x[i - 1], q[i]) /\ x[i - 1] \in Byte
    BY <1>4, <1>6, <2>1
  <2>3. p[i] \in Byte /\ q[i] \in Byte
    BY <1>3
  <2> QED BY <2>2, <2>3, CrcTells
<1>8. \A m \in Nat : i + m <= n => x[i + m] # y[i + m]
  <2>1. 0 \in T
    BY <1>3, <1>7
  <2>2. ASSUME NEW m \in Nat, m \in T PROVE m + 1 \in T
    <3>1. CASE i + (m + 1) <= n
      <4>1. /\ i + m \in 0 .. n - 1 /\ i + m \in 0 .. n /\ (i + m) + 1 = i + (m + 1)
            /\ (i + m) + 1 \in 1 .. n /\ (i + m) + 1 # i
        BY <1>3, <3>1
      <4>2. x[i + m] # y[i + m]
        BY <1>3, <2>2, <3>1, <4>1
      <4> DEFINE k == i + m
      <4>3. /\ x[k] # y[k] /\ x[k] \in Byte /\ y[k] \in Byte /\ p[k + 1] = q[k + 1]
            /\ q[k + 1] \in Byte
            /\ x[k + 1] = comp_crc(x[k], p[k + 1]) /\ y[k + 1] = comp_crc(y[k], q[k + 1])
        BY <1>3, <1>4, <1>5, <4>1, <4>2
      <4> HIDE DEF k
      <4>4. x[k + 1] # y[k + 1]
        BY <4>3, CrcInjective
      <4> QED BY <4>1, <4>4 DEF k
    <3> QED BY <3>1
  <2> HIDE DEF T
  <2>3. Nat \subseteq T
    BY <2>1, <2>2, SetInduction
  <2> QED BY <2>3 DEF T
<1>9. n - i \in Nat /\ i + (n - i) = n
  BY <1>3
<1> QED BY <1>4, <1>8, <1>9

\* What checkpacket accepts: the last byte is the check byte of those before it.
Front(p) == [i \in 1 .. Len(p) - 1 |-> p[i]]
Checked(p) == compCRC(Front(p)) = p[Len(p)]

\* The check byte finds every packet of which a single byte has changed, wherever that
\* byte is, the check byte itself included.
THEOREM OneDamagedByteIsFound ==
  ASSUME NEW r \in Seq(Byte), Checked(r), NEW i \in 1 .. Len(r), NEW b \in Byte
  PROVE  Checked([r EXCEPT ![i] = b]) <=> b = r[i]
<1> DEFINE q == [r EXCEPT ![i] = b]
           n == Len(r)
<1>1. n \in Nat /\ n >= 1 /\ i \in 1 .. n /\ \A j \in 1 .. n : r[j] \in Byte
  BY LenProperties, ElementOfSeq
<1>2. /\ q \in Seq(Byte) /\ Len(q) = n /\ q[i] = b
      /\ \A j \in 1 .. n : j # i => q[j] = r[j]
  BY <1>1
<1>3. ASSUME b = r[i] PROVE Checked(q)
  <2>1. q = r
    BY <1>1, <1>3
  <2> QED BY <2>1
<1>4. ASSUME b # r[i] PROVE ~Checked(q)
  <2> HIDE DEF q, n
  <2>1. /\ Front(q) \in Seq(Byte) /\ Len(Front(q)) = n - 1
        /\ \A j \in 1 .. n - 1 : Front(q)[j] = q[j]
    <3>1. \A j \in 1 .. n - 1 : q[j] \in Byte
      BY <1>1, <1>2, ElementOfSeq
    <3> QED BY <1>1, <1>2, <3>1 DEF Front
  <2>2. /\ Front(r) \in Seq(Byte) /\ Len(Front(r)) = n - 1
        /\ \A j \in 1 .. n - 1 : Front(r)[j] = r[j]
    <3>1. \A j \in 1 .. n - 1 : r[j] \in Byte
      BY <1>1
    <3> QED BY <1>1, <3>1 DEF Front, n
  <2>3. CASE i = n
    <3>1. Front(q) = Front(r)
      <4>1. \A j \in 1 .. n - 1 : q[j] = r[j]
        BY <1>1, <1>2, <2>3
      <4> QED BY <1>2, <4>1 DEF Front, n
    <3>2. q[Len(q)] # r[Len(r)]
      BY <1>2, <1>4, <2>3 DEF n
    <3> QED BY <3>1, <3>2 DEF Checked
  <2>4. CASE i # n
    <3>1. i \in 1 .. n - 1 /\ n \in 1 .. n
      BY <1>1, <2>4
    <3>2. /\ Front(r)[i] # Front(q)[i]
          /\ \A j \in 1 .. n - 1 : j # i => Front(r)[j] = Front(q)[j]
      BY <1>1, <1>2, <1>4, <2>1, <2>2, <3>1
    <3>3. compCRC(Front(r)) # compCRC(Front(q))
      BY <2>1, <2>2, <3>1, <3>2, DamageShows
    <3>4. q[Len(q)] = r[Len(r)]
      BY <1>2, <2>4, <3>1 DEF n
    <3> QED BY <3>3, <3>4 DEF Checked
  <2> QED BY <2>3, <2>4
<1> QED BY <1>3, <1>4

-----------------------------------------------------------------------------
(* The digits of a number.                                                 *)

Numeral(f, n) == IF n < 10 THEN <<Zero0 + n>> ELSE Append(f[n \div 10], Zero0 + (n % 10))

\* A table of the numerals up to m, built from itself.
Table(f, m) == f = [n \in 0 .. m |-> Numeral(f, n)]

LEMMA TableExists == \A m \in Nat : \E f : Table(f, m)
<1> DEFINE S == {m \in Nat : \E f : Table(f, m)}
<1>1. 0 \in S
  <2>1. Table([n \in 0 .. 0 |-> <<Zero0 + n>>], 0)
    BY DEF Table, Numeral
  <2> QED BY <2>1
<1>2. ASSUME NEW m \in Nat, m \in S PROVE m + 1 \in S
  <2>1. PICK f : Table(f, m)
    BY <1>2
  <2> DEFINE g == [n \in 0 .. m + 1 |-> IF n <= m THEN f[n] ELSE Numeral(f, n)]
  <2>2. \A n \in 0 .. m : f[n] = Numeral(f, n)
    BY <2>1 DEF Table
  <2>3. ASSUME NEW n \in 0 .. m + 1 PROVE g[n] = Numeral(g, n)
    <3>1. g[n] = Numeral(f, n)
      BY <2>2
    <3>2. ASSUME n >= 10 PROVE g[n \div 10] = f[n \div 10]
      <4>1. n \div 10 \in 0 .. m
        BY <3>2
      <4> QED BY <4>1
    <3> HIDE DEF g
    <3> QED BY <3>1, <3>2 DEF Numeral
  <2>4. g = [n \in 0 .. m + 1 |-> g[n]]
    OBVIOUS
  <2> HIDE DEF g
  <2>5. Table(g, m + 1)
    BY <2>3, <2>4 DEF Table
  <2> QED BY <2>5
<1> HIDE DEF S
<1>3. Nat \subseteq S
  BY <1>1, <1>2, SetInduction
<1> QED BY <1>3 DEF S

\* Two tables agree where both are defined.
LEMMA TablesAgree ==
  ASSUME NEW m1 \in Nat, NEW m2 \in Nat, NEW f, NEW g, Table(f, m1), Table(g, m2)
  PROVE  \A n \in Nat : n <= m1 /\ n <= m2 => f[n] = g[n]
<1> DEFINE S == {k \in Nat : \A n \in 0 .. k : n <= m1 /\ n <= m2 => f[n] = g[n]}
<1>1. /\ \A n \in 0 .. m1 : f[n] = Numeral(f, n)
      /\ \A n \in 0 .. m2 : g[n] = Numeral(g, n)
  BY DEF Table
<1>2. 0 \in S
  <2>1. f[0] = Numeral(f, 0) /\ g[0] = Numeral(g, 0)
    <3>1. 0 \in 0 .. m1 /\ 0 \in 0 .. m2
      OBVIOUS
    <3> QED BY <1>1, <3>1
  <2>2. \A n \in 0 .. 0 : n = 0
    OBVIOUS
  <2> QED BY <2>1, <2>2 DEF Numeral
<1>3. ASSUME NEW k \in Nat, k \in S PROVE k + 1 \in S
  <2>1. \A n \in 0 .. k : n <= m1 /\ n <= m2 => f[n] = g[n]
    BY <1>3
  <2>2. ASSUME k + 1 <= m1, k + 1 <= m2 PROVE f[k + 1] = g[k + 1]
    <3>1. f[k + 1] = Numeral(f, k + 1) /\ g[k + 1] = Numeral(g, k + 1)
      BY <1>1, <2>2
    <3>2. ASSUME k + 1 >= 10 PROVE f[(k + 1) \div 10] = g[(k + 1) \div 10]
      <4>1. (k + 1) \div 10 \in 0 .. k
        BY <3>2
      <4> QED BY <2>1, <2>2, <4>1
    <3> QED BY <3>1, <3>2 DEF Numeral
  <2> QED BY <2>1, <2>2
<1> HIDE DEF S
<1>4. Nat \subseteq S
  BY <1>2, <1>3, SetInduction
<1> QED BY <1>4 DEF S

\* dwtoa is what its loop says: the digits of n \div 10, and the last one.
LEMMA DwtoaLoop == \A n \in Nat : dwtoa[n] = Numeral(dwtoa, n)
<1> DEFINE T(m) == CHOOSE f : Table(f, m)
           F == [n \in Nat |-> T(n)[n]]
           Eq(f) == f = [n \in Nat |-> Numeral(f, n)]
<1>1. \A m \in Nat : Table(T(m), m)
  BY TableExists
<1>2. ASSUME NEW n \in Nat PROVE F[n] = Numeral(F, n)
  <2> DEFINE f == T(n)
             g == T(n \div 10)
  <2>1. n \div 10 \in Nat /\ n \div 10 <= n
    OBVIOUS
  <2>2. Table(f, n) /\ Table(g, n \div 10)
    BY <1>1, <2>1
  <2> HIDE DEF f, g
  <2>3. f[n] = Numeral(f, n)
    BY <2>2 DEF Table
  <2>4. f[n \div 10] = g[n \div 10]
    BY <2>1, <2>2, TablesAgree
  <2>5. F[n] = f[n] /\ F[n \div 10] = g[n \div 10]
    BY <2>1 DEF f, g
  <2> HIDE DEF F
  <2> QED BY <2>3, <2>4, <2>5 DEF Numeral
<1>3. Eq(F)
  <2>1. F = [n \in Nat |-> F[n]]
    OBVIOUS
  <2> HIDE DEF F
  <2> QED BY <1>2, <2>1
<1>4. Eq(CHOOSE f : Eq(f))
  BY <1>3
<1>5. dwtoa = CHOOSE f : Eq(f)
  BY DEF dwtoa, Numeral
<1> HIDE DEF Eq
<1>6. Eq(dwtoa)
  BY <1>4, <1>5
<1> QED BY <1>6 DEF Eq

Digits == Zero0 .. Zero0 + 9

\* dwtoa writes digits only, at least one, and no leading zeros; all but the last are
\* those of n \div 10.
LEMMA DwtoaShape ==
  \A n \in Nat : /\ dwtoa[n] \in Seq(Digits) /\ Len(dwtoa[n]) \in Nat /\ Len(dwtoa[n]) >= 1
                 /\ n >= 1 => dwtoa[n][1] # Zero0
<1> DEFINE P(n) == /\ dwtoa[n] \in Seq(Digits) /\ Len(dwtoa[n]) \in Nat /\ Len(dwtoa[n]) >= 1
                   /\ n >= 1 => dwtoa[n][1] # Zero0
           S == {k \in Nat : \A n \in 0 .. k : P(n)}
<1>1. ASSUME NEW n \in Nat, n < 10 PROVE P(n)
  <2>1. dwtoa[n] = <<Zero0 + n>>
    BY <1>1, DwtoaLoop DEF Numeral
  <2>2. Zero0 + n \in Digits /\ (n >= 1 => Zero0 + n # Zero0)
    BY <1>1 DEF Digits, Zero0
  <2> QED BY <2>1, <2>2
<1>2. ASSUME NEW n \in Nat, n >= 10, P(n \div 10) PROVE P(n)
  <2>1. dwtoa[n] = Append(dwtoa[n \div 10], Zero0 + (n % 10))
    <3>1. dwtoa[n] = Numeral(dwtoa, n) /\ ~(n < 10)
      BY <1>2, DwtoaLoop
    <3> QED BY <3>1 DEF Numeral
  <2> DEFINE s == dwtoa[n \div 10]
             d == Zero0 + (n % 10)
  <2>2. d \in Digits /\ n \div 10 >= 1
    BY <1>2 DEF Digits, Zero0
  <2>3. s \in Seq(Digits) /\ Len(s) \in Nat /\ Len(s) >= 1 /\ s[1] # Zero0
    BY <1>2, <2>2
  <2>4. dwtoa[n] = Append(s, d)
    BY <2>1
  <2> HIDE DEF s, d
  <2>5. Append(s, d) \in Seq(Digits) /\ Len(Append(s, d)) = Len(s) + 1 /\ Append(s, d)[1] = s[1]
    BY <2>2, <2>3, AppendProperties
  <2> QED BY <2>3, <2>4, <2>5
<1> HIDE DEF P
<1>3. 0 \in S
  <2>1. P(0)
    BY <1>1
  <2> QED BY <2>1
<1>4. ASSUME NEW k \in Nat, k \in S PROVE k + 1 \in S
  <2>1. P(k + 1)
    <3>1. CASE k + 1 < 10
      BY <1>1, <3>1
    <3>2. CASE k + 1 >= 10
      <4>1. (k + 1) \div 10 \in 0 .. k
        BY <3>2
      <4>2. P((k + 1) \div 10)
        BY <1>4, <4>1
      <4> QED BY <1>2, <3>2, <4>2
    <3> QED BY <3>1, <3>2
  <2> QED BY <1>4, <2>1
<1> HIDE DEF S
<1>5. Nat \subseteq S
  BY <1>3, <1>4, SetInduction
<1>6. ASSUME NEW n \in Nat PROVE P(n)
  BY <1>5 DEF S
<1> QED BY <1>6 DEF P

LEMMA DwtoaAppends ==
  ASSUME NEW n \in Nat, n >= 10
  PROVE  /\ Len(dwtoa[n]) = Len(dwtoa[n \div 10]) + 1
         /\ \A i \in 1 .. Len(dwtoa[n \div 10]) : dwtoa[n][i] = dwtoa[n \div 10][i]
         /\ dwtoa[n][Len(dwtoa[n \div 10]) + 1] = Zero0 + (n % 10)
<1>1. dwtoa[n] = Append(dwtoa[n \div 10], Zero0 + (n % 10))
  <2>1. dwtoa[n] = Numeral(dwtoa, n) /\ ~(n < 10)
    BY DwtoaLoop
  <2> QED BY <2>1 DEF Numeral
<1> DEFINE s == dwtoa[n \div 10]
           d == Zero0 + (n % 10)
<1>2. dwtoa[n] = Append(s, d) /\ d \in Digits /\ n \div 10 \in Nat
  BY <1>1 DEF Digits, Zero0
<1>3. s \in Seq(Digits)
  BY <1>2, DwtoaShape
<1> HIDE DEF s, d
<1>4. /\ Len(Append(s, d)) = Len(s) + 1
      /\ \A i \in 1 .. Len(s) : Append(s, d)[i] = s[i]
      /\ Append(s, d)[Len(s) + 1] = d
  BY <1>2, <1>3, AppendProperties
<1> QED BY <1>2, <1>4 DEF s, d

\* The number a reader sees, one column at a time.
Reading(f, row, label, m) ==
  f = [i \in 0 .. m |-> IF i = 0 THEN 0 ELSE 10 * f[i - 1] + row[label + i] - Zero0]

LEMMA ReadingExists == \A row, label : \A m \in Nat : \E f : Reading(f, row, label, m)
<1> SUFFICES ASSUME NEW row, NEW label
             PROVE  \A m \in Nat : \E f : Reading(f, row, label, m)
  OBVIOUS
<1> DEFINE S == {m \in Nat : \E f : Reading(f, row, label, m)}
<1>1. 0 \in S
  <2>1. Reading([i \in 0 .. 0 |-> 0], row, label, 0)
    BY DEF Reading
  <2> QED BY <2>1
<1>2. ASSUME NEW m \in Nat, m \in S PROVE m + 1 \in S
  <2>1. PICK f : Reading(f, row, label, m)
    BY <1>2
  <2> DEFINE last == 10 * f[m] + row[label + (m + 1)] - Zero0
             g == [i \in 0 .. m + 1 |-> IF i <= m THEN f[i] ELSE last]
  <2>2. \A i \in 0 .. m : f[i] = IF i = 0 THEN 0 ELSE 10 * f[i - 1] + row[label + i] - Zero0
    BY <2>1 DEF Reading
  <2>3. ASSUME NEW i \in 0 .. m + 1
        PROVE  g[i] = IF i = 0 THEN 0 ELSE 10 * g[i - 1] + row[label + i] - Zero0
    <3>1. CASE i <= m
      <4>1. i \in 0 .. m /\ g[i] = f[i]
        BY <3>1
      <4>2. ASSUME i # 0 PROVE g[i - 1] = f[i - 1]
        BY <3>1, <4>2
      <4> HIDE DEF g
      <4> QED BY <2>2, <4>1, <4>2
    <3>2. CASE i = m + 1
      <4> HIDE DEF last
      <4>1. g[i] = last /\ g[i - 1] = f[m] /\ i # 0
        BY <3>2
      <4> HIDE DEF g
      <4>2. last = 10 * f[m] + row[label + i] - Zero0
        BY <3>2 DEF last
      <4> QED BY <4>1, <4>2
    <3> QED BY <3>1, <3>2
  <2>4. g = [i \in 0 .. m + 1 |-> g[i]]
    OBVIOUS
  <2> HIDE DEF g
  <2>5. Reading(g, row, label, m + 1)
    BY <2>3, <2>4 DEF Reading
  <2> QED BY <2>5
<1> HIDE DEF S
<1>3. Nat \subseteq S
  BY <1>1, <1>2, SetInduction
<1> QED BY <1>3 DEF S

LEMMA ReadingsAgree ==
  ASSUME NEW row, NEW label, NEW m \in Nat, NEW f, NEW g,
         Reading(f, row, label, m), Reading(g, row, label, m + 1)
  PROVE  f[m] = g[m]
<1> DEFINE S == {i \in Nat : i <= m => f[i] = g[i]}
<1>1. /\ \A i \in 0 .. m : f[i] = IF i = 0 THEN 0 ELSE 10 * f[i - 1] + row[label + i] - Zero0
      /\ \A i \in 0 .. m + 1 : g[i] = IF i = 0 THEN 0 ELSE 10 * g[i - 1] + row[label + i] - Zero0
  BY DEF Reading
<1>2. 0 \in S
  <2>1. 0 \in 0 .. m /\ 0 \in 0 .. m + 1
    OBVIOUS
  <2>2. f[0] = 0 /\ g[0] = 0
    BY <1>1, <2>1
  <2> QED BY <2>2
<1>3. ASSUME NEW i \in Nat, i \in S PROVE i + 1 \in S
  <2>1. ASSUME i + 1 <= m PROVE f[i + 1] = g[i + 1]
    <3>1. i + 1 \in 0 .. m /\ i + 1 \in 0 .. m + 1 /\ (i + 1) - 1 = i /\ i + 1 # 0 /\ f[i] = g[i]
      BY <1>3, <2>1
    <3>2. f[i + 1] = 10 * f[i] + row[label + (i + 1)] - Zero0
      BY <1>1, <3>1
    <3>3. g[i + 1] = 10 * g[i] + row[label + (i + 1)] - Zero0
      BY <1>1, <3>1
    <3> QED BY <3>1, <3>2, <3>3
  <2> QED BY <2>1
<1> HIDE DEF S
<1>4. Nat \subseteq S
  BY <1>2, <1>3, SetInduction
<1> QED BY <1>4 DEF S

LEMMA NumberLoop ==
  ASSUME NEW row, NEW label
  PROVE  /\ Number(row, label, 0) = 0
         /\ \A k \in Nat :
              Number(row, label, k + 1) = 10 * Number(row, label, k) + row[label + (k + 1)] - Zero0
<1> DEFINE num(k) == CHOOSE f : Reading(f, row, label, k)
<1>1. \A k \in Nat : Reading(num(k), row, label, k)
  BY ReadingExists
<1>2. \A k \in Nat : Number(row, label, k) = num(k)[k]
  BY DEF Number, Reading
<1> HIDE DEF num
<1>3. Number(row, label, 0) = 0
  <2>1. Reading(num(0), row, label, 0)
    BY <1>1
  <2>2. num(0)[0] = 0
    BY <2>1 DEF Reading
  <2> QED BY <1>2, <2>2
<1>4. ASSUME NEW k \in Nat
      PROVE  Number(row, label, k + 1) = 10 * Number(row, label, k) + row[label + (k + 1)] - Zero0
  <2> DEFINE f == num(k)
             g == num(k + 1)
  <2>1. Reading(f, row, label, k) /\ Reading(g, row, label, k + 1)
    BY <1>1
  <2>2. Number(row, label, k) = f[k] /\ Number(row, label, k + 1) = g[k + 1]
    BY <1>2
  <2> HIDE DEF f, g
  <2>3. f[k] = g[k]
    BY <2>1, ReadingsAgree
  <2>4. g[k + 1] = 10 * g[k] + row[label + (k + 1)] - Zero0
    <3>1. k + 1 \in 0 .. k + 1 /\ k + 1 # 0 /\ (k + 1) - 1 = k
      OBVIOUS
    <3>2. \A i \in 0 .. k + 1 :
            g[i] = IF i = 0 THEN 0 ELSE 10 * g[i - 1] + row[label + i] - Zero0
      BY <2>1 DEF Reading
    <3> QED BY <3>1, <3>2
  <2> QED BY <2>2, <2>3, <2>4
<1> QED BY <1>3, <1>4

\* Read from the row, the digits of n are n.
LEMMA DwtoaValue ==
  ASSUME NEW n \in Nat, NEW row, NEW label \in Nat,
         \A i \in 1 .. Len(dwtoa[n]) : row[label + i] = dwtoa[n][i]
  PROVE  Number(row, label, Len(dwtoa[n])) = n
<1> DEFINE Written(m) == \A i \in 1 .. Len(dwtoa[m]) : row[label + i] = dwtoa[m][i]
           P(m) == Written(m) => Number(row, label, Len(dwtoa[m])) = m
           S == {k \in Nat : \A m \in 0 .. k : P(m)}
<1>1. ASSUME NEW m \in Nat, m < 10 PROVE P(m)
  <2>1. dwtoa[m] = <<Zero0 + m>>
    <3>1. dwtoa[m] = Numeral(dwtoa, m)
      BY DwtoaLoop
    <3> QED BY <1>1, <3>1 DEF Numeral
  <2>2. Len(dwtoa[m]) = 1 /\ dwtoa[m][1] = Zero0 + m
    BY <2>1
  <2>3. ASSUME Written(m) PROVE Number(row, label, 1) = m
    <3>1. PICK z \in Nat : z = 0
      OBVIOUS
    <3>2. Number(row, label, z + 1) = 10 * Number(row, label, z) + row[label + (z + 1)] - Zero0
      BY ZenonT(40), NumberLoop
    <3>3. Number(row, label, z) = 0
      BY <3>1, NumberLoop
    <3>4. row[label + (z + 1)] = Zero0 + m
      BY <2>2, <2>3, <3>1
    <3>5. Number(row, label, z + 1) = 10 * 0 + (Zero0 + m) - Zero0
      BY <3>2, <3>3, <3>4
    <3>6. Number(row, label, z + 1) = m
      BY <3>5 DEF Zero0
    <3> QED BY <3>1, <3>6
  <2> QED BY <2>2, <2>3
<1>2. ASSUME NEW m \in Nat, m >= 10, P(m \div 10) PROVE P(m)
  <2> DEFINE t == m \div 10
             k == Len(dwtoa[t])
  <2>1. t \in Nat /\ m = 10 * t + (m % 10) /\ m % 10 \in Nat
    OBVIOUS
  <2>2. /\ Len(dwtoa[m]) = k + 1 /\ dwtoa[m][k + 1] = Zero0 + (m % 10)
        /\ \A i \in 1 .. k : dwtoa[m][i] = dwtoa[t][i]
    BY <1>2, DwtoaAppends
  <2>3. k \in Nat
    BY <2>1, DwtoaShape
  <2> HIDE DEF t, k
  <2>4. ASSUME Written(m) PROVE Number(row, label, k + 1) = m
    <3>1. \A i \in 1 .. k + 1 : row[label + i] = dwtoa[m][i]
      BY <2>2, <2>4
    <3>2. \A i \in 1 .. k : row[label + i] = dwtoa[t][i]
      BY <2>2, <2>3, <3>1
    <3>3. Number(row, label, k) = t
      BY <1>2, <3>2 DEF t, k
    <3>4. row[label + (k + 1)] = Zero0 + (m % 10)
      BY <2>2, <2>3, <3>1
    <3>5. Number(row, label, k + 1) = 10 * Number(row, label, k) + row[label + (k + 1)] - Zero0
      BY ZenonT(40), <2>3, NumberLoop
    <3>6. Number(row, label, k + 1) = 10 * t + (Zero0 + (m % 10)) - Zero0
      BY <3>3, <3>4, <3>5
    <3> QED BY <2>1, <3>6 DEF Zero0
  <2> QED BY <2>2, <2>4
<1> HIDE DEF P
<1>3. 0 \in S
  <2>1. P(0)
    BY <1>1
  <2> QED BY <2>1
<1>4. ASSUME NEW k \in Nat, k \in S PROVE k + 1 \in S
  <2>1. P(k + 1)
    <3>1. CASE k + 1 < 10
      BY <1>1, <3>1
    <3>2. CASE k + 1 >= 10
      <4>1. (k + 1) \div 10 \in 0 .. k
        BY <3>2
      <4>2. P((k + 1) \div 10)
        BY <1>4, <4>1
      <4> QED BY <1>2, <3>2, <4>2
    <3> QED BY <3>1, <3>2
  <2> QED BY <1>4, <2>1
<1> HIDE DEF S
<1>5. Nat \subseteq S
  BY <1>3, <1>4, SetInduction
<1>6. P(n)
  BY <1>5 DEF S
<1> QED BY <1>6 DEF P

\* How many digits a number has.
LEMMA OneDigitMore ==
  ASSUME NEW p \in Nat, NEW k \in Nat, p >= 1, k >= 1,
         \A n \in Nat : /\ n < p => Len(dwtoa[n]) <= k
                        /\ n >= p => Len(dwtoa[n]) >= k + 1
  PROVE  \A n \in Nat : /\ n < 10 * p => Len(dwtoa[n]) <= k + 1
                        /\ n >= 10 * p => Len(dwtoa[n]) >= k + 2
<1> SUFFICES ASSUME NEW n \in Nat
             PROVE  /\ n < 10 * p => Len(dwtoa[n]) <= k + 1
                    /\ n >= 10 * p => Len(dwtoa[n]) >= k + 2
  OBVIOUS
<1>1. CASE n < 10
  <2>1. dwtoa[n] = <<Zero0 + n>>
    <3>1. dwtoa[n] = Numeral(dwtoa, n)
      BY DwtoaLoop
    <3> QED BY <1>1, <3>1 DEF Numeral
  <2>2. Len(dwtoa[n]) = 1
    BY <2>1
  <2> QED BY <1>1, <2>2
<1>2. CASE n >= 10
  <2> DEFINE t == n \div 10
  <2>1. t \in Nat /\ (n < 10 * p => t < p) /\ (n >= 10 * p => t >= p)
    OBVIOUS
  <2>2. Len(dwtoa[n]) = Len(dwtoa[t]) + 1
    BY <1>2, DwtoaAppends
  <2>3. Len(dwtoa[t]) \in Nat
    BY <2>1, DwtoaShape
  <2> HIDE DEF t
  <2>4. (t < p => Len(dwtoa[t]) <= k) /\ (t >= p => Len(dwtoa[t]) >= k + 1)
    BY <2>1
  <2> QED BY <2>1, <2>2, <2>3, <2>4
<1> QED BY <1>1, <1>2

LEMMA DwtoaLength ==
  \A n \in Nat : /\ n < 10000 => Len(dwtoa[n]) <= 4
                 /\ n < 100000 => Len(dwtoa[n]) <= 5
                 /\ n < 10000000 => Len(dwtoa[n]) <= 7
                 /\ n >= 1000000 => Len(dwtoa[n]) >= 7
<1> DEFINE D(p, k) == \A n \in Nat : /\ n < p => Len(dwtoa[n]) <= k
                                     /\ n >= p => Len(dwtoa[n]) >= k + 1
<1>1. D(10, 1)
  <2> SUFFICES ASSUME NEW n \in Nat
               PROVE  /\ n < 10 => Len(dwtoa[n]) <= 1
                      /\ n >= 10 => Len(dwtoa[n]) >= 1 + 1
    OBVIOUS
  <2>1. dwtoa[n] = Numeral(dwtoa, n)
    BY DwtoaLoop
  <2>2. CASE n < 10
    <3>1. dwtoa[n] = <<Zero0 + n>>
      BY <2>1, <2>2 DEF Numeral
    <3>2. Len(dwtoa[n]) = 1
      BY <3>1
    <3> QED BY <2>2, <3>2
  <2>3. CASE n >= 10
    <3>1. Len(dwtoa[n]) = Len(dwtoa[n \div 10]) + 1 /\ n \div 10 \in Nat
      BY <2>3, DwtoaAppends
    <3>2. Len(dwtoa[n \div 10]) \in Nat /\ Len(dwtoa[n \div 10]) >= 1
      BY <3>1, DwtoaShape
    <3> QED BY <2>3, <3>1, <3>2
  <2> QED BY <2>2, <2>3
<1>2. ASSUME NEW p \in Nat, NEW k \in Nat, p >= 1, k >= 1, D(p, k) PROVE D(10 * p, k + 1)
  <2>1. \A n \in Nat : /\ n < 10 * p => Len(dwtoa[n]) <= k + 1
                       /\ n >= 10 * p => Len(dwtoa[n]) >= k + 2
    BY <1>2, OneDigitMore
  <2>2. (k + 1) + 1 = k + 2
    OBVIOUS
  <2> QED BY <2>1, <2>2
<1> HIDE DEF D
<1>3. D(100, 2)
  <2>1. D(10 * 10, 1 + 1)
    BY <1>1, <1>2
  <2> QED BY <2>1
<1>4. D(1000, 3)
  <2>1. D(10 * 100, 2 + 1)
    BY <1>2, <1>3
  <2> QED BY <2>1
<1>5. D(10000, 4)
  <2>1. D(10 * 1000, 3 + 1)
    BY <1>2, <1>4
  <2> QED BY <2>1
<1>6. D(100000, 5)
  <2>1. D(10 * 10000, 4 + 1)
    BY <1>2, <1>5
  <2> QED BY <2>1
<1>7. D(1000000, 6)
  <2>1. D(10 * 100000, 5 + 1)
    BY <1>2, <1>6
  <2> QED BY <2>1
<1>8. D(10000000, 7)
  <2>1. D(10 * 1000000, 6 + 1)
    BY <1>2, <1>7
  <2> QED BY <2>1
<1> QED BY <1>5, <1>6, <1>7, <1>8 DEF D

-----------------------------------------------------------------------------
(* The rows of the display.                                                *)

LEMMA TextAt ==
  ASSUME NEW label \in Nat, NEW unit \in Nat, NEW s \in Seq(Nat)
  PROVE  LET t == Text(label, s, unit)
             L == label + Len(s)
         IN  /\ Len(t) = L + unit
             /\ \A i \in 1 .. label : t[i] = LABEL
             /\ \A i \in 1 .. Len(s) : t[label + i] = s[i]
             /\ \A i \in L + 1 .. L + unit : t[i] = UNIT
<1> DEFINE a == [i \in 1 .. label |-> LABEL]
           u == [i \in 1 .. unit |-> UNIT]
           b == a \o s
           t == Text(label, s, unit)
<1>1. /\ a \in Seq(Nat) /\ Len(a) = label /\ \A i \in 1 .. label : a[i] = LABEL
      /\ u \in Seq(Nat) /\ Len(u) = unit /\ \A i \in 1 .. unit : u[i] = UNIT
      /\ Len(s) \in Nat
  BY LenProperties DEF LABEL, UNIT
<1>2. t = b \o u
  BY DEF Text
<1> HIDE DEF a, u, t
<1>3. /\ b \in Seq(Nat) /\ Len(b) = Len(a) + Len(s)
      /\ \A i \in 1 .. Len(a) + Len(s) : b[i] = IF i <= Len(a) THEN a[i] ELSE s[i - Len(a)]
  BY <1>1, ConcatProperties
<1> HIDE DEF b
<1>4. /\ Len(b \o u) = Len(b) + Len(u)
      /\ \A i \in 1 .. Len(b) + Len(u) : (b \o u)[i] = IF i <= Len(b) THEN b[i] ELSE u[i - Len(b)]
  BY ZenonT(40), <1>1, <1>3, ConcatProperties
<1> DEFINE L == label + Len(s)
<1>5. Len(b) = L /\ Len(t) = L + unit /\ L \in Nat /\ label <= L
  BY <1>1, <1>2, <1>3, <1>4
<1>6. \A i \in 1 .. L + unit : t[i] = IF i <= L THEN b[i] ELSE u[i - L]
  BY <1>1, <1>2, <1>4, <1>5
<1>7. \A i \in 1 .. L : b[i] = IF i <= label THEN a[i] ELSE s[i - label]
  BY <1>1, <1>3
<1>8. ASSUME NEW i \in 1 .. label PROVE t[i] = LABEL
  <2>1. i \in 1 .. L /\ i \in 1 .. L + unit /\ i <= L /\ i <= label
    BY <1>1, <1>5
  <2> QED BY <1>1, <1>6, <1>7, <2>1
<1>9. ASSUME NEW i \in 1 .. Len(s) PROVE t[label + i] = s[i]
  <2> DEFINE j == label + i
  <2>1. j \in 1 .. L /\ j \in 1 .. L + unit /\ j <= L /\ ~(j <= label) /\ j - label = i
    BY <1>1, <1>5
  <2> HIDE DEF j, L
  <2>2. t[j] = s[i]
    BY <1>6, <1>7, <2>1
  <2> QED BY <2>2 DEF j
<1>10. ASSUME NEW i \in L + 1 .. L + unit PROVE t[i] = UNIT
  <2>1. i \in 1 .. L + unit /\ ~(i <= L) /\ i - L \in 1 .. unit
    BY <1>1, <1>5
  <2> HIDE DEF L
  <2> QED BY <1>1, <1>6, <2>1
<1> QED BY <1>5, <1>8, <1>9, <1>10 DEF t

\* A row that is label, digits, unit and blanks shows the number.
LEMMA RowShows ==
  ASSUME NEW row, NEW label \in Nat, NEW unit \in Nat, NEW n \in Nat,
         label + Len(dwtoa[n]) + unit <= Columns,
         \A i \in 1 .. label : row[i] = LABEL,
         \A i \in 1 .. Len(dwtoa[n]) : row[label + i] = dwtoa[n][i],
         \A i \in label + Len(dwtoa[n]) + 1 .. label + Len(dwtoa[n]) + unit : row[i] = UNIT,
         \A i \in label + Len(dwtoa[n]) + unit + 1 .. Columns : row[i] = Blank
  PROVE  Shows(row, label, n, unit)
<1> DEFINE k == Len(dwtoa[n])
<1>1. dwtoa[n] \in Seq(Digits) /\ k \in Nat /\ k >= 1 /\ (n >= 1 => dwtoa[n][1] # Zero0)
  BY DwtoaShape
<1>2. \A i \in 1 .. k : dwtoa[n][i] \in Digits
  BY <1>1, ElementOfSeq
<1>3. Number(row, label, k) = n
  BY DwtoaValue
<1>4. ASSUME k > 1 PROVE row[label + 1] # Zero0
  <2>1. n >= 1
    <3>1. ASSUME n = 0 PROVE k = 1
      <4>1. dwtoa[n] = Numeral(dwtoa, n)
        BY DwtoaLoop
      <4>2. dwtoa[n] = <<Zero0 + n>>
        BY <3>1, <4>1 DEF Numeral
      <4> QED BY <4>2
    <3> QED BY <1>1, <1>4, <3>1
  <2>2. 1 \in 1 .. k
    BY <1>1
  <2> QED BY <1>1, <2>1, <2>2
<1>5. Columns = 12 /\ k \in 1 .. Columns - label
  BY <1>1 DEF Columns
<1>6. ASSUME NEW i \in 1 .. Columns
      PROVE  /\ i <= label => row[i] = LABEL
             /\ label < i /\ i <= label + k => Digit(row[i])
             /\ label + k < i /\ i <= label + k + unit => row[i] = UNIT
             /\ label + k + unit < i => row[i] = Blank
  <2>1. ASSUME label < i, i <= label + k PROVE Digit(row[i])
    <3>1. i - label \in 1 .. k /\ label + (i - label) = i
      BY <1>1, <2>1
    <3>2. row[i] = dwtoa[n][i - label] /\ dwtoa[n][i - label] \in Digits
      BY <1>2, <3>1
    <3> QED BY SMTT(30), <3>2 DEF Digit, Digits, Zero0
  <2> HIDE DEF k
  <2>2. i <= label => i \in 1 .. label
    OBVIOUS
  <2>3. label + k < i /\ i <= label + k + unit => i \in label + k + 1 .. label + k + unit
    BY <1>1
  <2>4. label + k + unit < i => i \in label + k + unit + 1 .. Columns
    BY <1>1, <1>5
  <2> QED BY <2>1, <2>2, <2>3, <2>4 DEF k
<1> HIDE DEF k
<1> QED BY <1>3, <1>4, <1>5, <1>6 DEF Shows

\* What a row that has been written holds in each column.
LEMMA UpdateAt ==
  ASSUME NEW row, NEW text, Len(text) \in Nat
  PROVE  \A i \in 1 .. Columns : Update(row, text)[i] = IF i <= Len(text) THEN text[i] ELSE Blank
<1>1. BlankRow \in Seq({Blank}) /\ Len(BlankRow) = 12 /\ \A i \in 1 .. 12 : BlankRow[i] = Blank
  BY DEF BlankRow, Columns
<1> DEFINE r == lcdprintstr(row, BlankRow)
<1>2. \A i \in 1 .. 12 : r[i] = Blank
  BY <1>1 DEF lcdprintstr, Columns
<1> HIDE DEF r
<1>3. Update(row, text) = [i \in 1 .. 12 |-> IF i <= Len(text) THEN text[i] ELSE r[i]]
  BY DEF Update, lcdprintstr, Columns, r
<1> QED BY <1>2, <1>3 DEF Columns

\* A number that fits in its row is shown.
LEMMA NumberShown ==
  ASSUME NEW row, NEW label \in Nat, NEW unit \in Nat, NEW n \in Nat,
         label + Len(dwtoa[n]) + unit <= Columns
  PROVE  Shows(Update(row, Text(label, dwtoa[n], unit)), label, n, unit)
<1> DEFINE s == dwtoa[n]
           t == Text(label, s, unit)
           L == label + Len(s)
           r == Update(row, t)
<1>1. s \in Seq(Nat) /\ Len(s) \in Nat /\ L + unit <= Columns
  <2>1. dwtoa[n] \in Seq(Digits) /\ Len(dwtoa[n]) \in Nat
    BY DwtoaShape
  <2>2. Digits \subseteq Nat
    BY DEF Digits, Zero0
  <2> QED BY <2>1, <2>2, SeqMonotonic
<1> HIDE DEF s, t, r
<1>2. /\ Len(t) = L + unit
      /\ \A i \in 1 .. label : t[i] = LABEL
      /\ \A i \in 1 .. Len(s) : t[label + i] = s[i]
      /\ \A i \in L + 1 .. L + unit : t[i] = UNIT
  BY ZenonT(40), <1>1, TextAt DEF t
<1>3. \A i \in 1 .. Columns : r[i] = IF i <= L + unit THEN t[i] ELSE Blank
  BY <1>1, <1>2, UpdateAt DEF r
<1>4. Columns = 12
  BY DEF Columns
<1>5. ASSUME NEW i \in 1 .. label PROVE r[i] = LABEL
  <2>1. i \in 1 .. Columns /\ i <= L + unit
    BY <1>1, <1>4
  <2> QED BY <1>2, <1>3, <2>1
<1>6. ASSUME NEW i \in 1 .. Len(s) PROVE r[label + i] = s[i]
  <2>1. label + i \in 1 .. Columns /\ label + i <= L + unit
    BY <1>1, <1>4
  <2> QED BY <1>2, <1>3, <2>1
<1>7. ASSUME NEW i \in L + 1 .. L + unit PROVE r[i] = UNIT
  <2>1. i \in 1 .. Columns /\ i <= L + unit
    BY <1>1, <1>4
  <2> QED BY <1>2, <1>3, <2>1
<1>8. ASSUME NEW i \in L + unit + 1 .. Columns PROVE r[i] = Blank
  <2>1. i \in 1 .. Columns /\ ~(i <= L + unit)
    BY <1>1, <1>4
  <2> QED BY <1>3, <2>1
<1>9. Shows(r, label, n, unit)
  BY <1>1, <1>5, <1>6, <1>7, <1>8, RowShows DEF s
<1> QED BY <1>9 DEF r, t, s

\* Of a number that is too long a row without a unit shows the digits that fit.
LEMMA StartShown ==
  ASSUME NEW row, NEW label \in Nat, NEW n \in Nat, NEW c \in Nat,
         label + Len(dwtoa[c]) = Columns, Len(dwtoa[c]) <= Len(dwtoa[n]),
         \A i \in 1 .. Len(dwtoa[c]) : dwtoa[n][i] = dwtoa[c][i]
  PROVE  Shows(Update(row, Text(label, dwtoa[n], 0)), label, c, 0)
<1> DEFINE s == dwtoa[n]
           t == Text(label, s, 0)
           r == Update(row, t)
           k == Len(dwtoa[c])
<1>1. s \in Seq(Nat) /\ Len(s) \in Nat /\ k \in Nat /\ k <= Len(s) /\ label + k = 12 /\ Columns = 12
  <2>1. dwtoa[n] \in Seq(Digits) /\ Len(dwtoa[n]) \in Nat /\ Len(dwtoa[c]) \in Nat
    BY DwtoaShape
  <2>2. Digits \subseteq Nat
    BY DEF Digits, Zero0
  <2> QED BY <2>1, <2>2, SeqMonotonic DEF Columns
<1>2. \A i \in 1 .. k : s[i] = dwtoa[c][i]
  OBVIOUS
<1> HIDE DEF s, t, r, k
<1>3. /\ Len(t) = label + Len(s) + 0
      /\ \A i \in 1 .. label : t[i] = LABEL
      /\ \A i \in 1 .. Len(s) : t[label + i] = s[i]
  <2>1. PICK z \in Nat : z = 0
    OBVIOUS
  <2> DEFINE T == Text(label, s, z)
  <2> HIDE DEF T
  <2>2. /\ Len(T) = label + Len(s) + z
        /\ \A i \in 1 .. label : T[i] = LABEL
        /\ \A i \in 1 .. Len(s) : T[label + i] = s[i]
        /\ \A i \in label + Len(s) + 1 .. label + Len(s) + z : T[i] = UNIT
    <3>1. s \in Seq(Nat)
      BY <1>1
    <3> QED BY ZenonT(40), <3>1, TextAt DEF T
  <2>3. t = T
    BY <2>1 DEF t, T
  <2> QED BY <2>1, <2>2, <2>3
<1>4. Len(t) \in Nat /\ Len(t) >= 12
  BY <1>1, <1>3
<1>5. \A i \in 1 .. 12 : r[i] = t[i]
  <2>1. \A i \in 1 .. Columns : r[i] = IF i <= Len(t) THEN t[i] ELSE Blank
    BY <1>4, UpdateAt DEF r
  <2>2. Columns = 12
    BY <1>1
  <2>3. \A i \in 1 .. 12 : i <= Len(t)
    BY <1>4
  <2> QED BY <2>1, <2>2, <2>3
<1>6. ASSUME NEW i \in 1 .. label PROVE r[i] = LABEL
  <2>1. i \in 1 .. 12
    BY <1>1
  <2> QED BY <1>3, <1>5, <2>1
<1>7. ASSUME NEW i \in 1 .. k PROVE r[label + i] = dwtoa[c][i]
  <2>1. k \in Nat /\ Len(s) \in Nat /\ k <= Len(s) /\ label + k = 12
    BY <1>1
  <2>2. label + i \in 1 .. 12 /\ i \in 1 .. Len(s)
    BY <2>1
  <2> QED BY <1>2, <1>3, <1>5, <2>2
<1>8. /\ label + k + 0 <= Columns /\ label + k + 1 .. label + k + 0 = {}
      /\ label + k + 0 + 1 .. Columns = {} /\ 0 \in Nat
  BY <1>1
<1>9. Shows(r, label, c, 0)
  BY <1>6, <1>7, <1>8, RowShows DEF k
<1> QED BY <1>9 DEF r, t, s

LEMMA DwtoaNats == \A n \in Nat : dwtoa[n] \in Seq(Nat) /\ Len(dwtoa[n]) \in Nat
<1>1. Digits \subseteq Nat
  BY DEF Digits, Zero0
<1>2. \A s \in Seq(Digits) : s \in Seq(Nat)
  BY <1>1, SeqMonotonic
<1> QED BY <1>2, DwtoaShape

LEMMA AfterSign ==
  ASSUME NEW a \in Seq(Nat), NEW s \in Seq(Nat), Len(a) = 1
  PROVE  a \o s \in Seq(Nat) /\ Len(a \o s) >= 1 /\ (a \o s)[1] = a[1]
<1>1. Len(s) \in Nat
  BY LenProperties
<1>2. /\ a \o s \in Seq(Nat) /\ Len(a \o s) = Len(a) + Len(s)
      /\ \A i \in 1 .. Len(a) + Len(s) : (a \o s)[i] = IF i <= Len(a) THEN a[i] ELSE s[i - Len(a)]
  BY ConcatProperties
<1>3. 1 \in 1 .. Len(a) + Len(s) /\ 1 <= Len(a) /\ Len(a) + Len(s) >= 1
  BY <1>1
<1> QED BY <1>2, <1>3

\* What itoa makes of a word with the sign bit set starts with the sign.
LEMMA ItoaSign ==
  ASSUME NEW w \in Nat, w >= 32768, w < 65536
  PROVE  itoa(w) \in Seq(Nat) /\ Len(itoa(w)) >= 1 /\ itoa(w)[1] = Minus
<1> DEFINE a == <<Minus>>
<1>1. a \in Seq(Nat) /\ Len(a) = 1 /\ a[1] = Minus
  BY DEF Minus
<1>2. CASE w = 32768
  <2>1. itoa(w) = <<Minus, Zero0 - 8>> /\ Minus \in Nat /\ Zero0 - 8 \in Nat
    BY <1>2 DEF itoa, Minus, Zero0
  <2> QED BY <2>1
<1>3. CASE w # 32768
  <2>1. PICK m \in Nat : m = 65536 - w
    OBVIOUS
  <2>2. itoa(w) = a \o dwtoa[m]
    BY <1>3, <2>1 DEF itoa
  <2>3. dwtoa[m] \in Seq(Nat)
    BY DwtoaNats
  <2> HIDE DEF a
  <2> QED BY <1>1, <2>2, <2>3, AfterSign
<1> QED BY <1>2, <1>3

\* The digits of c are the first ones of n.
Starts(c, n) ==
  /\ Len(dwtoa[c]) <= Len(dwtoa[n])
  /\ \A i \in 1 .. Len(dwtoa[c]) : dwtoa[n][i] = dwtoa[c][i]

LEMMA TenthStarts ==
  ASSUME NEW n \in Nat, n >= 10
  PROVE  Starts(n \div 10, n)
<1>1. Len(dwtoa[n]) = Len(dwtoa[n \div 10]) + 1
      /\ \A i \in 1 .. Len(dwtoa[n \div 10]) : dwtoa[n][i] = dwtoa[n \div 10][i]
  BY DwtoaAppends
<1>2. Len(dwtoa[n \div 10]) \in Nat
  <2>1. n \div 10 \in Nat
    OBVIOUS
  <2> QED BY <2>1, DwtoaShape
<1> QED BY <1>1, <1>2 DEF Starts

LEMMA StartsTransitive ==
  ASSUME NEW a \in Nat, NEW b \in Nat, NEW c \in Nat, Starts(a, b), Starts(b, c)
  PROVE  Starts(a, c)
<1>1. Len(dwtoa[a]) \in Nat /\ Len(dwtoa[b]) \in Nat /\ Len(dwtoa[c]) \in Nat
  BY DwtoaShape
<1>2. Len(dwtoa[a]) <= Len(dwtoa[b]) /\ Len(dwtoa[b]) <= Len(dwtoa[c])
  BY DEF Starts
<1>3. ASSUME NEW i \in 1 .. Len(dwtoa[a]) PROVE dwtoa[c][i] = dwtoa[a][i]
  <2>1. i \in 1 .. Len(dwtoa[b])
    BY <1>1, <1>2
  <2> QED BY <2>1 DEF Starts
<1> QED BY <1>1, <1>2, <1>3 DEF Starts

\* The first seven digits of a number of 32 bits.
LEMMA SevenDigits ==
  ASSUME NEW n \in Nat, n \div 65536 < 65536, n >= 10000000
  PROVE  \E cut \in {10, 100, 1000} :
           /\ Starts(n \div cut, n) /\ n \div cut \in Nat
           /\ n \div cut >= 1000000 /\ n \div cut < 10000000
<1>1. n \div 100 = (n \div 10) \div 10 /\ n \div 1000 = (n \div 100) \div 10
      /\ n \div 10 \in Nat /\ n \div 100 \in Nat /\ n \div 1000 \in Nat
  OBVIOUS
<1>2. n >= 10 /\ n \div 10 >= 1000000
  OBVIOUS
<1>3. Starts(n \div 10, n)
  BY <1>2, TenthStarts
<1>4. CASE n \div 10 < 10000000
  BY <1>1, <1>2, <1>3, <1>4
<1>5. CASE n \div 10 >= 10000000
  <2>1. n \div 10 >= 10 /\ n \div 100 >= 1000000
    BY <1>1, <1>5
  <2>2. Starts(n \div 100, n \div 10)
    BY <1>1, <2>1, TenthStarts
  <2>3. Starts(n \div 100, n)
    BY <1>1, <1>3, <2>2, StartsTransitive
  <2>4. CASE n \div 100 < 10000000
    BY <1>1, <2>1, <2>3, <2>4
  <2>5. CASE n \div 100 >= 10000000
    <3>1. n \div 100 >= 10 /\ n \div 1000 >= 1000000 /\ n \div 1000 < 10000000
      BY <1>1, <2>5
    <3>2. Starts(n \div 1000, n \div 100)
      BY <1>1, <3>1, TenthStarts
    <3>3. Starts(n \div 1000, n)
      BY <1>1, <2>3, <3>2, StartsTransitive
    <3> QED BY <1>1, <3>1, <3>3
  <2> QED BY <1>1, <2>4, <2>5
<1> QED BY <1>1, <1>4, <1>5
=============================================================================
