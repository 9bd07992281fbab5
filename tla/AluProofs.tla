----------------------------- MODULE AluProofs -----------------------------
(***************************************************************************)
(* The arithmetic helpers of recomp_rt.h compute what the operations mean, *)
(* for every accumulator, operand, carry and mode.                         *)
(***************************************************************************)
EXTENDS Alu, TLAPS

(* The machines the helpers are called on, with nothing in memory.          *)
Calm ==
  [a : Byte, x : Byte, y : Byte, s : Byte, pc : Word, n : {0, 1}, v : {0, 1},
   d : {0, 1}, i : {0, 1}, z : {0, 1}, c : {0, 1}, mem : {<<>>}]

Shifts == {"ASL", "LSR", "ROL", "ROR", "INC", "DEC"}

(* The machine is what the helper called made of the one before.            *)
AluInv ==
  /\ prev \in Calm /\ val \in Byte
  /\ last \in {"none", "adc", "sbc", "cmp"} \cup Shifts
  /\ last = "none" => m = prev
  /\ last = "adc" => m = vic_adc(prev, val)
  /\ last = "sbc" => m = vic_sbc(prev, val)
  /\ last = "cmp" => m = vic_cmp_reg(prev, prev.a, val)
  /\ last \in Shifts =>
       LET r == vic_alu(prev, last, prev.a)
       IN  m = [r.m EXCEPT !.a = r.value]

-----------------------------------------------------------------------------
(* Bytes. *)

(* A byte as an interval. *)
LEMMA Bytes8 == Byte = 0..255
  BY DEF Byte, ByteSize

(* The conversion to a byte near its range.                                 *)
LEMMA Wrap8 ==
  ASSUME NEW x \in Int, x >= 0 - 256, x < 512
  PROVE  /\ B(x) = IF x < 0 THEN x + 256 ELSE IF x < 256 THEN x ELSE x - 256
         /\ B(x) \in Byte
<1>1. B(x) = x % 256
  BY DEF B, ByteSize
<1> QED
  BY <1>1, Bytes8

(* The highest and the lowest bit of a byte, and its value as signed.       *)
LEMMA SignBit ==
  ASSUME NEW b \in Byte
  PROVE  /\ Bit(b, 7) = IF b < 128 THEN 0 ELSE 1
         /\ Bit(b, 0) = b % 2
         /\ Signed(b) = IF b < 128 THEN b ELSE b - 256
<1>1. b \in 0..255
  BY Bytes8
<1>2. Bit(b, 7) = (b \div 128) % 2 /\ Bit(b, 0) = (b \div 1) % 2
  BY DEF Bit
<1> QED
  BY <1>1, <1>2 DEF Signed, ByteSize

(* The two digits of a byte. *)
LEMMA Digits ==
  ASSUME NEW b \in Byte
  PROVE  b \div 16 \in 0..15 /\ b % 16 \in 0..15 /\ b = 16 * (b \div 16) + (b % 16)
<1>1. b \in 0..255
  BY Bytes8
<1> QED
  BY <1>1

(* Z and N of a byte. *)
LEMMA SetNZ ==
  ASSUME NEW mc \in Calm, NEW b \in Byte
  PROVE  /\ vic_set_nz(mc, b) \in Calm
         /\ vic_set_nz(mc, b) = [mc EXCEPT !.z = IF b = 0 THEN 1 ELSE 0,
                                           !.n = IF b < 128 THEN 0 ELSE 1]
<1>1. vic_set_nz(mc, b) = [mc EXCEPT !.z = Flag(b = 0), !.n = Flag(~(b < 128))]
  <2>1. Bit(b, 7) = Flag(~(b < 128))
    BY SignBit DEF Flag
  <2> QED
    BY <2>1, Zenon DEF vic_set_nz
<1>2. Flag(b = 0) \in {0, 1} /\ Flag(~(b < 128)) \in {0, 1}
  BY DEF Flag
<1>3. /\ Flag(b = 0) = IF b = 0 THEN 1 ELSE 0
      /\ Flag(~(b < 128)) = IF b < 128 THEN 0 ELSE 1
  BY DEF Flag
<1>4. \A z, n \in {0, 1} : [mc EXCEPT !.z = z, !.n = n] \in Calm
  BY DEF Calm
<1> QED
  BY <1>1, <1>2, <1>3, <1>4

-----------------------------------------------------------------------------
(* The sum and the difference of two bytes. *)

(* The byte sum, its carry and its overflow. *)
LEMMA ByteSum ==
  ASSUME NEW a \in Byte, NEW v \in Byte, NEW c \in {0, 1}
  PROVE  /\ B(a + v + c) \in Byte
         /\ B(a + v + c) + 256 * Flag(a + v + c > 255) = a + v + c
         /\ AddOverflow(a, v, B(a + v + c)) = 0
              <=> Signed(B(a + v + c)) = Signed(a) + Signed(v) + c
<1>1. a \in 0..255 /\ v \in 0..255
  BY Bytes8
<1>2. PICK sum \in 0..511 : sum = a + v + c
  BY <1>1
<1>3. B(sum) \in Byte /\ B(sum) = IF sum < 256 THEN sum ELSE sum - 256
  BY Wrap8
<1>4. PICK r \in 0..255 : r = B(sum)
  BY <1>3, Bytes8
<1>5. r + 256 * Flag(sum > 255) = sum
  BY <1>3, <1>4 DEF Flag
<1>6. AddOverflow(a, v, r) = 0 <=> Signed(r) = Signed(a) + Signed(v) + c
  <2>1. Bit(a, 7) = (IF a < 128 THEN 0 ELSE 1) /\ Signed(a) = IF a < 128 THEN a ELSE a - 256
    BY SignBit
  <2>2. Bit(v, 7) = (IF v < 128 THEN 0 ELSE 1) /\ Signed(v) = IF v < 128 THEN v ELSE v - 256
    BY SignBit
  <2>3. Bit(r, 7) = (IF r < 128 THEN 0 ELSE 1) /\ Signed(r) = IF r < 128 THEN r ELSE r - 256
    BY SignBit, <1>3, <1>4
  <2>4. AddOverflow(a, v, r) = 0 <=> ~(Bit(a, 7) = Bit(v, 7) /\ Bit(a, 7) # Bit(r, 7))
    BY DEF AddOverflow, Flag
  <2>5. r = a + v + c \/ r = a + v + c - 256
    BY <1>1, <1>2, <1>3, <1>4
  <2> QED
    BY <1>1, <2>1, <2>2, <2>3, <2>4, <2>5
<1> QED
  BY <1>2, <1>3, <1>4, <1>5, <1>6

(* The byte difference, its borrow and its overflow. *)
LEMMA ByteDifference ==
  ASSUME NEW a \in Byte, NEW v \in Byte, NEW c \in {0, 1}
  PROVE  LET diff == a - v - (1 - c)
         IN  /\ B(diff) \in Byte /\ diff \in Int
             /\ diff >= 0 <=> a >= v + 1 - c
             /\ SubOverflow(a, v, B(diff)) = 0
                  <=> Signed(B(diff)) = Signed(a) - Signed(v) - (1 - c)
<1>1. a \in 0..255 /\ v \in 0..255
  BY Bytes8
<1>2. PICK diff \in -256..255 : diff = a - v - (1 - c)
  BY <1>1
<1>3. B(diff) \in Byte /\ B(diff) = IF diff < 0 THEN diff + 256 ELSE diff
  BY Wrap8
<1>4. PICK r \in 0..255 : r = B(diff)
  BY <1>3, Bytes8
<1>5. diff >= 0 <=> a >= v + 1 - c
  BY <1>1, <1>2
<1>6. SubOverflow(a, v, r) = 0 <=> Signed(r) = Signed(a) - Signed(v) - (1 - c)
  <2>1. Bit(a, 7) = (IF a < 128 THEN 0 ELSE 1) /\ Signed(a) = IF a < 128 THEN a ELSE a - 256
    BY SignBit
  <2>2. Bit(v, 7) = (IF v < 128 THEN 0 ELSE 1) /\ Signed(v) = IF v < 128 THEN v ELSE v - 256
    BY SignBit
  <2>3. Bit(r, 7) = (IF r < 128 THEN 0 ELSE 1) /\ Signed(r) = IF r < 128 THEN r ELSE r - 256
    BY SignBit, <1>3, <1>4
  <2>4. SubOverflow(a, v, r) = 0 <=> ~(Bit(a, 7) # Bit(v, 7) /\ Bit(a, 7) # Bit(r, 7))
    BY DEF SubOverflow, Flag
  <2>5. r = a - v - (1 - c) \/ r = a - v - (1 - c) + 256
    BY <1>1, <1>2, <1>3, <1>4
  <2> QED
    BY <1>1, <2>1, <2>2, <2>3, <2>4, <2>5
<1> QED
  BY <1>2, <1>3, <1>4, <1>5, <1>6

-----------------------------------------------------------------------------
(* The helpers. *)

(* ADC in binary mode. *)
LEMMA AdcBinary ==
  ASSUME NEW mc \in Calm, NEW v \in Byte, mc.d = 0
  PROVE  LET r == vic_adc(mc, v)
         IN  /\ r.a + 256 * r.c = mc.a + v + mc.c
             /\ r.v = 0 <=> Signed(r.a) = Signed(mc.a) + Signed(v) + mc.c
             /\ r.z = 1 <=> r.a = 0
             /\ r.n = 1 <=> Signed(r.a) < 0
<1> DEFINE sum == mc.a + v + mc.c
           r == vic_adc(mc, v)
<1>1. mc.a \in Byte /\ mc.c \in {0, 1}
  BY DEF Calm
<1>2. /\ r.a = B(sum) /\ r.c = Flag(sum > 255) /\ r.v = AddOverflow(mc.a, v, B(sum))
      /\ r.z = Flag(B(sum) = 0) /\ r.n = Bit(B(sum), 7)
  BY DEF vic_adc, vic_set_nz, Calm
<1>3. /\ B(sum) \in Byte /\ B(sum) + 256 * Flag(sum > 255) = sum
      /\ AddOverflow(mc.a, v, B(sum)) = 0
           <=> Signed(B(sum)) = Signed(mc.a) + Signed(v) + mc.c
  BY <1>1, ByteSum
<1>4. Bit(B(sum), 7) = 1 <=> Signed(B(sum)) < 0
  <2>1. B(sum) \in 0..255
    BY <1>3, Bytes8
  <2> QED
    BY <1>3, <2>1, SignBit
<1> HIDE DEF r
<1> QED
  BY <1>2, <1>3, <1>4 DEF Flag, r

(* SBC in both modes: its flags, and its result in binary mode.             *)
LEMMA SbcFlags ==
  ASSUME NEW mc \in Calm, NEW v \in Byte
  PROVE  LET s == vic_sbc(mc, v)
             r == B(mc.a - v - (1 - mc.c))
         IN  /\ s.c = 1 <=> mc.a >= v + 1 - mc.c
             /\ s.v = 0 <=> Signed(r) = Signed(mc.a) - Signed(v) - (1 - mc.c)
             /\ s.z = 1 <=> r = 0
             /\ s.n = 1 <=> Signed(r) < 0
             /\ mc.d = 0 => s.a = r
<1> DEFINE diff == mc.a - v - (1 - mc.c)
           s == vic_sbc(mc, v)
<1>1. mc.a \in Byte /\ mc.c \in {0, 1}
  BY DEF Calm
<1>2. /\ s.c = Flag(diff >= 0) /\ s.v = SubOverflow(mc.a, v, B(diff))
      /\ s.z = Flag(B(diff) = 0) /\ s.n = Bit(B(diff), 7)
      /\ mc.d = 0 => s.a = B(diff)
  BY DEF vic_sbc, vic_set_nz, Calm
<1>3. /\ B(diff) \in Byte /\ diff \in Int
      /\ diff >= 0 <=> mc.a >= v + 1 - mc.c
      /\ SubOverflow(mc.a, v, B(diff)) = 0
           <=> Signed(B(diff)) = Signed(mc.a) - Signed(v) - (1 - mc.c)
  BY <1>1, ByteDifference
<1>4. Bit(B(diff), 7) = 1 <=> Signed(B(diff)) < 0
  <2>1. B(diff) \in 0..255
    BY <1>3, Bytes8
  <2> QED
    BY <1>3, <2>1, SignBit
<1> HIDE DEF diff, s
<1> QED
  BY <1>2, <1>3, <1>4 DEF Flag, diff, s

(* A byte of two decimal digits. *)
LEMMA OfDigits ==
  ASSUME NEW h \in 0..9, NEW l \in 0..9
  PROVE  TwoDigits(16 * h + l) /\ FromBCD(16 * h + l) = 10 * h + l
<1>1. (16 * h + l) \div 16 = h /\ (16 * h + l) % 16 = l
  OBVIOUS
<1> QED
  BY <1>1 DEF TwoDigits, FromBCD

(* The digits h and l that the corrections leave of the digit sums, or      *)
(* differences, hi and lo.                                                  *)
Sum10(a1, a0, v1, v0, c, hi, lo) ==
  \E h, l \in 0..9 :
    /\ B((hi + 6 * DigitCarry(hi)) * 16) = 16 * h
    /\ (lo + 6 * DigitCarry(lo)) % 16 = l
    /\ 10 * h + l + 100 * Flag(hi + 6 * DigitCarry(hi) > 15)
         = 10 * a1 + a0 + 10 * v1 + v0 + c

Difference10(a1, a0, v1, v0, c, hi, lo) ==
  \E h, l \in 0..9 :
    /\ B((IF hi < 0 THEN hi - 6 ELSE hi) * 16) = 16 * h
    /\ (IF lo < 0 THEN lo - 6 ELSE lo) % 16 = l
    /\ 10 * h + l = ((10 * a1 + a0) - (10 * v1 + v0) - (1 - c)) % 100

(* The decimal corrections of a sum: a digit from 10 on is a carry.         *)
LEMMA DecimalSum ==
  ASSUME NEW a1 \in 0..9, NEW a0 \in 0..9, NEW v1 \in 0..9, NEW v0 \in 0..9, NEW c \in {0, 1},
         NEW lo, lo = a0 + v0 + c,
         NEW hi, hi = a1 + v1 + DigitCarry(lo)
  PROVE  Sum10(a1, a0, v1, v0, c, hi, lo)
<1>1. lo \in 0..19 /\ DigitCarry(lo) = IF lo > 9 THEN 1 ELSE 0
  BY DEF DigitCarry, Flag
<1>2. hi \in 0..19 /\ DigitCarry(hi) = IF hi > 9 THEN 1 ELSE 0
  BY <1>1 DEF DigitCarry, Flag
<1> DEFINE hi2 == hi + 6 * DigitCarry(hi)
<1>3. PICK h, l \in 0..9 : /\ l = IF lo > 9 THEN lo - 10 ELSE lo
                           /\ h = IF hi > 9 THEN hi - 10 ELSE hi
  BY <1>1, <1>2
<1>4. (lo + 6 * DigitCarry(lo)) % 16 = l
  BY <1>1, <1>3
<1>5. hi2 = (IF hi > 9 THEN hi + 6 ELSE hi) /\ hi2 \in 0..25
  BY <1>2
<1>6. B(hi2 * 16) = 16 * h
  <2>1. hi2 * 16 \in 0..511
    BY <1>5
  <2>2. B(hi2 * 16) = IF hi2 * 16 < 256 THEN hi2 * 16 ELSE hi2 * 16 - 256
    BY <2>1, Wrap8
  <2> QED
    BY <1>2, <1>3, <1>5, <2>2
<1>7. Flag(hi2 > 15) = IF hi > 9 THEN 1 ELSE 0
  BY <1>2, <1>5 DEF Flag
<1>8. 10 * h + l + 100 * Flag(hi2 > 15) = 10 * a1 + a0 + 10 * v1 + v0 + c
  <2>1. lo = IF lo > 9 THEN l + 10 ELSE l
    BY <1>1, <1>3
  <2>2. hi = IF hi > 9 THEN h + 10 ELSE h
    BY <1>2, <1>3
  <2> HIDE DEF hi2
  <2> QED
    BY <1>1, <1>2, <1>7, <2>1, <2>2
<1> QED
  BY <1>4, <1>6, <1>8 DEF Sum10

(* The decimal corrections of a difference: a negative digit is a borrow.   *)
LEMMA DecimalDifference ==
  ASSUME NEW a1 \in 0..9, NEW a0 \in 0..9, NEW v1 \in 0..9, NEW v0 \in 0..9, NEW c \in {0, 1},
         NEW lo, lo = a0 - v0 - (1 - c),
         NEW hi, hi = a1 - v1 - Flag(lo < 0)
  PROVE  Difference10(a1, a0, v1, v0, c, hi, lo)
<1>1. lo \in -10..9 /\ Flag(lo < 0) = IF lo < 0 THEN 1 ELSE 0
  BY DEF Flag
<1>2. hi \in -10..9
  BY <1>1
<1> DEFINE hi2 == IF hi < 0 THEN hi - 6 ELSE hi
           diff == (10 * a1 + a0) - (10 * v1 + v0) - (1 - c)
<1>3. PICK h, l \in 0..9 : /\ l = IF lo < 0 THEN lo + 10 ELSE lo
                           /\ h = IF hi < 0 THEN hi + 10 ELSE hi
  BY <1>1, <1>2
<1>4. (IF lo < 0 THEN lo - 6 ELSE lo) % 16 = l
  BY <1>1, <1>3
<1>5. B(hi2 * 16) = 16 * h
  <2>1. hi2 * 16 \in -256..255
    BY <1>2
  <2>2. B(hi2 * 16) = IF hi2 * 16 < 0 THEN hi2 * 16 + 256 ELSE hi2 * 16
    BY <2>1, Wrap8
  <2> QED
    BY <1>2, <1>3, <2>2
<1>6. diff \in -100..99 /\ diff = 10 * hi + l
  BY <1>1, <1>2, <1>3
<1>7. 10 * h + l = IF diff < 0 THEN diff + 100 ELSE diff
  BY <1>2, <1>3, <1>6
<1>8. \A n \in -100..99 : n % 100 = IF n < 0 THEN n + 100 ELSE n
  OBVIOUS
<1>9. 10 * h + l = diff % 100
  BY <1>6, <1>7, <1>8
<1> QED
  BY <1>4, <1>5, <1>9 DEF Difference10

(* The two digits of a byte that holds two. *)
LEMMA DigitsOf ==
  ASSUME NEW b \in Byte, TwoDigits(b)
  PROVE  b \div 16 \in 0..9 /\ b % 16 \in 0..9 /\ FromBCD(b) = 10 * (b \div 16) + (b % 16)
BY Digits DEF TwoDigits, FromBCD

(* ADC in decimal mode. *)
LEMMA AdcDecimal ==
  ASSUME NEW mc \in Calm, NEW v \in Byte, mc.d = 1, TwoDigits(mc.a), TwoDigits(v)
  PROVE  LET r == vic_adc(mc, v)
         IN  /\ TwoDigits(r.a)
             /\ FromBCD(r.a) + 100 * r.c = FromBCD(mc.a) + FromBCD(v) + mc.c
<1> DEFINE lo == (mc.a % 16) + (v % 16) + mc.c
           hi == (mc.a \div 16) + (v \div 16) + DigitCarry(lo)
           hi2 == hi + 6 * DigitCarry(hi)
           r == vic_adc(mc, v)
<1>1. mc.a \in Byte /\ mc.c \in {0, 1}
  BY DEF Calm
<1>2. r.a = B(hi2 * 16) + ((lo + 6 * DigitCarry(lo)) % 16) /\ r.c = Flag(hi2 > 15)
  BY DEF vic_adc, Calm
<1>3. /\ mc.a \div 16 \in 0..9 /\ mc.a % 16 \in 0..9
      /\ FromBCD(mc.a) = 10 * (mc.a \div 16) + (mc.a % 16)
  BY <1>1, DigitsOf
<1>4. v \div 16 \in 0..9 /\ v % 16 \in 0..9 /\ FromBCD(v) = 10 * (v \div 16) + (v % 16)
  BY DigitsOf
<1>5. lo = (mc.a % 16) + (v % 16) + mc.c /\ hi = (mc.a \div 16) + (v \div 16) + DigitCarry(lo)
  OBVIOUS
<1> HIDE DEF lo, hi
<1>6. Sum10(mc.a \div 16, mc.a % 16, v \div 16, v % 16, mc.c, hi, lo)
  BY <1>1, <1>3, <1>4, <1>5, DecimalSum
<1>7. PICK h, l \in 0..9 :
        /\ B(hi2 * 16) = 16 * h
        /\ (lo + 6 * DigitCarry(lo)) % 16 = l
        /\ 10 * h + l + 100 * Flag(hi2 > 15)
             = 10 * (mc.a \div 16) + (mc.a % 16) + 10 * (v \div 16) + (v % 16) + mc.c
  BY <1>6 DEF Sum10
<1>8. r.a = 16 * h + l /\ TwoDigits(r.a) /\ FromBCD(r.a) = 10 * h + l
  BY <1>2, <1>7, OfDigits
<1>9. 10 * h + l + 100 * r.c = FromBCD(mc.a) + FromBCD(v) + mc.c
  BY <1>1, <1>2, <1>3, <1>4, <1>7
<1> QED
  BY <1>8, <1>9

(* The flags of ADC in decimal mode. *)
LEMMA AdcDecimalFlags ==
  ASSUME NEW mc \in Calm, NEW v \in Byte, mc.d = 1
  PROVE  LET r     == vic_adc(mc, v)
             carry == (mc.a % 16) + (v % 16) + mc.c >= 10
             high  == 16 * ((mc.a \div 16) + (v \div 16)) + (IF carry THEN 16 ELSE 0)
         IN  /\ r.z = 1 <=> (mc.a + v + mc.c) % 256 = 0
             /\ r.n = 1 <=> high % 256 >= 128
             /\ r.v = 0 <=> Signed(high % 256) = Signed(16 * (mc.a \div 16))
                              + Signed(16 * (v \div 16)) + (IF carry THEN 16 ELSE 0)
<1> DEFINE lo == (mc.a % 16) + (v % 16) + mc.c
           hi == (mc.a \div 16) + (v \div 16) + DigitCarry(lo)
           r == vic_adc(mc, v)
<1>1. mc.a \in Byte /\ mc.c \in {0, 1}
  BY DEF Calm
<1>2. /\ r.z = Flag(B(mc.a + v + mc.c) = 0) /\ r.n = Bit(hi, 3)
      /\ r.v = AddOverflow(mc.a, v, B(hi * 16))
  BY DEF vic_adc, Calm
<1>3. PICK a1 \in 0..15, a0 \in 0..15 :
        a1 = mc.a \div 16 /\ a0 = mc.a % 16 /\ mc.a = 16 * a1 + a0
  BY <1>1, Digits
<1>4. PICK v1 \in 0..15, v0 \in 0..15 : v1 = v \div 16 /\ v0 = v % 16 /\ v = 16 * v1 + v0
  BY Digits
<1>5. lo \in 0..31 /\ DigitCarry(lo) = IF lo >= 10 THEN 1 ELSE 0
  <2>1. lo = a0 + v0 + mc.c
    BY <1>3, <1>4
  <2>2. lo \in 0..31
    BY <1>1, <2>1
  <2> HIDE DEF lo
  <2>3. lo > 9 <=> lo >= 10
    BY <2>2
  <2> QED
    BY <2>2, <2>3 DEF DigitCarry, Flag
<1> HIDE DEF lo
<1>6. PICK k \in {0, 1} : k = DigitCarry(lo) /\ 16 * k = IF lo >= 10 THEN 16 ELSE 0
  BY <1>5
<1>7. PICK h \in 0..31 : h = hi /\ h = a1 + v1 + k
  <2>1. hi = a1 + v1 + k
    BY <1>3, <1>4, <1>6
  <2>2. a1 + v1 + k \in 0..31
    OBVIOUS
  <2> QED
    BY <2>1, <2>2
<1>8. PICK t \in 0..255 : t = B(h * 16) /\ t = IF h < 16 THEN 16 * h ELSE 16 * h - 256
  <2>1. h * 16 \in 0..511 /\ h * 16 = 16 * h /\ (h * 16 < 256 <=> h < 16)
    OBVIOUS
  <2> QED
    BY <2>1, Wrap8, Bytes8
<1>9. t = (16 * h) % 256
  BY <1>8
<1>10. 16 * (a1 + v1) + 16 * k = 16 * h
  BY <1>7
<1>11. Bit(h, 3) = 1 <=> t >= 128
  <2>1. Bit(h, 3) = (h \div 8) % 2
    BY DEF Bit
  <2> QED
    BY <1>8, <2>1
<1>12. AddOverflow(mc.a, v, t) = 0 <=> Signed(t) = Signed(16 * a1) + Signed(16 * v1) + 16 * k
  <2>1. Bit(mc.a, 7) = (IF a1 < 8 THEN 0 ELSE 1)
    <3>1. mc.a < 128 <=> a1 < 8
      BY <1>3
    <3> QED
      BY <1>1, <3>1, SignBit
  <2>2. Bit(v, 7) = (IF v1 < 8 THEN 0 ELSE 1)
    <3>1. v < 128 <=> v1 < 8
      BY <1>4
    <3> QED
      BY <3>1, SignBit
  <2>3. /\ Bit(t, 7) = (IF t < 128 THEN 0 ELSE 1)
        /\ Signed(t) = IF t < 128 THEN t ELSE t - 256
    BY SignBit, Bytes8
  <2>4. \A b \in 0..15 : Signed(16 * b) = IF b < 8 THEN 16 * b ELSE 16 * b - 256
    <3> SUFFICES ASSUME NEW b \in 0..15 PROVE Signed(16 * b) = IF b < 8 THEN 16 * b ELSE 16 * b - 256
      OBVIOUS
    <3>1. 16 * b \in Byte /\ (16 * b < 128 <=> b < 8)
      BY Bytes8
    <3> QED
      BY <3>1, SignBit
  <2>5. AddOverflow(mc.a, v, t) = 0 <=> ~(Bit(mc.a, 7) = Bit(v, 7) /\ Bit(mc.a, 7) # Bit(t, 7))
    BY DEF AddOverflow, Flag
  <2>6. /\ Signed(16 * a1) = IF a1 < 8 THEN 16 * a1 ELSE 16 * a1 - 256
        /\ Signed(16 * v1) = IF v1 < 8 THEN 16 * v1 ELSE 16 * v1 - 256
    BY <2>4
  <2> QED
    BY <1>7, <1>8, <2>1, <2>2, <2>3, <2>5, <2>6
<1>13. B(mc.a + v + mc.c) = (mc.a + v + mc.c) % 256
  BY DEF B, ByteSize
<1> HIDE DEF hi, r
<1>14. r.z = 1 <=> (mc.a + v + mc.c) % 256 = 0
  BY <1>2, <1>13 DEF Flag
<1>15. 16 * ((mc.a \div 16) + (v \div 16)) + (IF lo >= 10 THEN 16 ELSE 0) = 16 * h
  BY <1>3, <1>4, <1>6, <1>10
<1> DEFINE sixteen == IF lo >= 10 THEN 16 ELSE 0
           high == 16 * ((mc.a \div 16) + (v \div 16)) + sixteen
<1>16. high = 16 * h /\ high % 256 = t
  BY <1>9, <1>15
<1>17. r.n = 1 <=> high % 256 >= 128
  BY <1>2, <1>7, <1>11, <1>16
<1>18. Signed(high % 256)
         = Signed(16 * (mc.a \div 16)) + Signed(16 * (v \div 16)) + sixteen <=>
       Signed(t) = Signed(16 * a1) + Signed(16 * v1) + 16 * k
  BY <1>3, <1>4, <1>6, <1>16
<1>19. r.v = 0 <=> Signed(high % 256)
                     = Signed(16 * (mc.a \div 16)) + Signed(16 * (v \div 16)) + sixteen
  BY <1>2, <1>7, <1>8, <1>12, <1>18
<1> QED
  BY <1>14, <1>17, <1>19 DEF lo, r

(* SBC in decimal mode. *)
LEMMA SbcDecimal ==
  ASSUME NEW mc \in Calm, NEW v \in Byte, mc.d = 1, TwoDigits(mc.a), TwoDigits(v)
  PROVE  LET r == vic_sbc(mc, v)
         IN  /\ TwoDigits(r.a)
             /\ FromBCD(r.a) = (FromBCD(mc.a) - FromBCD(v) - (1 - mc.c)) % 100
<1> DEFINE lo == (mc.a % 16) - (v % 16) - (1 - mc.c)
           hi == (mc.a \div 16) - (v \div 16) - Flag(lo < 0)
           lo2 == IF lo < 0 THEN lo - 6 ELSE lo
           hi2 == IF hi < 0 THEN hi - 6 ELSE hi
           r == vic_sbc(mc, v)
<1>1. mc.a \in Byte /\ mc.c \in {0, 1}
  BY DEF Calm
<1>2. r.a = B(hi2 * 16) + (lo2 % 16)
  BY DEF vic_sbc, vic_set_nz, Calm
<1>3. /\ mc.a \div 16 \in 0..9 /\ mc.a % 16 \in 0..9
      /\ FromBCD(mc.a) = 10 * (mc.a \div 16) + (mc.a % 16)
  BY <1>1, DigitsOf
<1>4. v \div 16 \in 0..9 /\ v % 16 \in 0..9 /\ FromBCD(v) = 10 * (v \div 16) + (v % 16)
  BY DigitsOf
<1>5. /\ lo = (mc.a % 16) - (v % 16) - (1 - mc.c)
      /\ hi = (mc.a \div 16) - (v \div 16) - Flag(lo < 0)
  OBVIOUS
<1> HIDE DEF lo, hi
<1>6. Difference10(mc.a \div 16, mc.a % 16, v \div 16, v % 16, mc.c, hi, lo)
  BY <1>1, <1>3, <1>4, <1>5, DecimalDifference
<1>7. PICK h, l \in 0..9 :
        /\ B(hi2 * 16) = 16 * h
        /\ lo2 % 16 = l
        /\ 10 * h + l = ((10 * (mc.a \div 16) + (mc.a % 16))
                           - (10 * (v \div 16) + (v % 16)) - (1 - mc.c)) % 100
  BY <1>6 DEF Difference10
<1>8. r.a = 16 * h + l /\ TwoDigits(r.a) /\ FromBCD(r.a) = 10 * h + l
  BY <1>2, <1>7, OfDigits
<1> QED
  BY <1>3, <1>4, <1>7, <1>8

(* A comparison sets the flags of a binary subtraction without borrow.      *)
LEMMA CompareFlags ==
  ASSUME NEW mc \in Calm, NEW v \in Byte
  PROVE  LET r == vic_cmp_reg(mc, mc.a, v)
             s == vic_sbc([mc EXCEPT !.d = 0, !.c = 1], v)
         IN  r.c = s.c /\ r.z = s.z /\ r.n = s.n /\ r.a = mc.a
<1> DEFINE m0 == [mc EXCEPT !.d = 0, !.c = 1]
<1>1. m0.a = mc.a /\ m0.c = 1
  BY DEF Calm
<1>2. mc.a \in 0..255 /\ v \in 0..255
  BY Bytes8 DEF Calm
<1> HIDE DEF m0
<1>3. mc.a - v - (1 - m0.c) = mc.a - v /\ (mc.a - v >= 0 <=> mc.a >= v)
  <2>1. \A a, b \in 0..255 : a - b - (1 - 1) = a - b /\ (a - b >= 0 <=> a >= b)
    OBVIOUS
  <2> QED
    BY <1>1, <1>2, <2>1
<1>4. LET s == vic_sbc(m0, v)
      IN  /\ s.c = Flag(mc.a - v - (1 - m0.c) >= 0)
          /\ s.z = Flag(B(mc.a - v - (1 - m0.c)) = 0)
          /\ s.n = Bit(B(mc.a - v - (1 - m0.c)), 7)
  BY <1>1 DEF vic_sbc, vic_set_nz, Calm
<1>5. LET r == vic_cmp_reg(mc, mc.a, v)
      IN  /\ r.c = Flag(mc.a >= v) /\ r.z = Flag(B(mc.a - v) = 0)
          /\ r.n = Bit(B(mc.a - v), 7) /\ r.a = mc.a
  BY DEF vic_cmp_reg, vic_set_nz, Calm
<1>6. Flag(mc.a - v >= 0) = Flag(mc.a >= v)
  BY <1>3 DEF Flag
<1> QED
  BY <1>3, <1>4, <1>5, <1>6 DEF m0

(* The machine after a shift of the accumulator. *)
Shifted(mc, mn) == LET r == vic_alu(mc, mn, mc.a) IN [r.m EXCEPT !.a = r.value]

(* What a shift puts into the accumulator and the carry. *)
LEMMA ShiftedIs ==
  ASSUME NEW mc \in Calm, NEW mn \in {"ASL", "LSR", "ROL"}
  PROVE  /\ mn = "ASL" => Shifted(mc, mn).a = B(2 * mc.a) /\ Shifted(mc, mn).c = Bit(mc.a, 7)
         /\ mn = "LSR" => Shifted(mc, mn).a = mc.a \div 2 /\ Shifted(mc, mn).c = Bit(mc.a, 0)
         /\ mn = "ROL" => Shifted(mc, mn).a = B(2 * mc.a) + mc.c
                            /\ Shifted(mc, mn).c = Bit(mc.a, 7)
BY DEF Shifted, vic_alu, vic_set_nz, Calm

(* ASL and LSR move the bit they drop to the carry. *)
LEMMA ShiftKeepsBits ==
  ASSUME NEW mc \in Calm
  PROVE  /\ Shifted(mc, "ASL").a + 256 * Shifted(mc, "ASL").c = 2 * mc.a
         /\ 2 * Shifted(mc, "LSR").a + Shifted(mc, "LSR").c = mc.a
<1>1. PICK a \in 0..255 : mc.a = a
  BY Bytes8 DEF Calm
<1>2. Bit(a, 7) = (IF a < 128 THEN 0 ELSE 1) /\ Bit(a, 0) = a % 2
  BY SignBit, Bytes8
<1>3. B(2 * a) = IF 2 * a < 256 THEN 2 * a ELSE 2 * a - 256
  BY Wrap8
<1>4. B(2 * a) + 256 * Bit(a, 7) = 2 * a
  BY <1>2, <1>3
<1>5. 2 * (a \div 2) + Bit(a, 0) = a
  BY <1>2
<1> QED
  BY <1>1, <1>4, <1>5, ShiftedIs

(* ROR undoes ROL. *)
LEMMA RotateBack ==
  ASSUME NEW mc \in Calm
  PROVE  LET r == vic_alu(Shifted(mc, "ROL"), "ROR", Shifted(mc, "ROL").a)
         IN  r.value = mc.a /\ r.m.c = mc.c
<1> DEFINE rol == Shifted(mc, "ROL")
<1>1. PICK a \in 0..255 : mc.a = a
  BY Bytes8 DEF Calm
<1>2. PICK c \in {0, 1} : mc.c = c
  BY DEF Calm
<1>3. rol.a = B(2 * a) + c /\ rol.c = Bit(a, 7)
  BY <1>1, <1>2, ShiftedIs
<1>4. Bit(a, 7) = (IF a < 128 THEN 0 ELSE 1)
  BY SignBit, Bytes8
<1>5. B(2 * a) = IF 2 * a < 256 THEN 2 * a ELSE 2 * a - 256
  BY Wrap8
<1>6. PICK b \in 0..255 : b = B(2 * a) + c
  BY <1>5
<1>7. Bit(b, 0) = c
  <2>1. Bit(b, 0) = b % 2
    BY SignBit, Bytes8
  <2> QED
    BY <1>5, <1>6, <2>1
<1>8. (b \div 2) + 128 * Bit(a, 7) = a
  BY <1>4, <1>5, <1>6
<1>9. LET r == vic_alu(rol, "ROR", rol.a)
      IN  r.value = (rol.a \div 2) + 128 * rol.c /\ r.m.c = Bit(rol.a, 0)
  BY DEF vic_alu, vic_set_nz, Shifted, Calm
<1> QED
  BY <1>1, <1>2, <1>3, <1>6, <1>7, <1>8, <1>9

-----------------------------------------------------------------------------
(* The calls. *)

(* The machine that is called on is one after reset. *)
LEMMA AluInit == Init => AluInv
<1> SUFFICES ASSUME Init PROVE AluInv
  OBVIOUS
<1> DEFINE boot == vic_cpu_reset(<<>>)
<1>1. boot \in Calm
  <2>1. \A mc : mc.mem = <<>> => vic_mem_read(mc, VIC_VEC_RESET) = 0
                                   /\ vic_mem_read(mc, W(VIC_VEC_RESET + 1)) = 0
    BY DEF vic_mem_read
  <2>2. 0 \in Byte /\ 255 \in Byte /\ 0 \in Word
    BY DEF Byte, Word, ByteSize, WordSize
  <2> QED
    BY <2>1, <2>2 DEF vic_cpu_reset, vic_mem_read16, Calm, ByteSize
<1>2. \A a \in Byte, d \in {0, 1}, c \in {0, 1} :
        [boot EXCEPT !.a = a, !.d = d, !.c = c] \in Calm
  BY <1>1 DEF Calm
<1>3. PICK a \in Byte, d \in {0, 1}, c \in {0, 1} : m = [boot EXCEPT !.a = a, !.d = d, !.c = c]
  BY AluAssumption DEF Init, AluAssumption
<1>4. m \in Calm /\ prev = m /\ last = "none" /\ val \in Byte
  BY <1>2, <1>3, AluAssumption DEF Init, AluAssumption
<1> QED
  BY <1>4 DEF AluInv, Shifts

(* A call leaves what the helper makes of the machine. *)
LEMMA AluStep == AluInv /\ [Next]_vars => AluInv'
<1> SUFFICES ASSUME AluInv, [Next]_vars PROVE AluInv'
  OBVIOUS
<1> USE DEF AluInv, Called, Shifts
<1>1. CASE Adc
  BY <1>1 DEF Adc
<1>2. CASE Sbc
  BY <1>2 DEF Sbc
<1>3. CASE Cmp
  BY <1>3 DEF Cmp
<1>4. CASE Shift
  BY <1>4 DEF Shift
<1>5. CASE UNCHANGED vars
  BY <1>5 DEF vars
<1> QED
  BY <1>1, <1>2, <1>3, <1>4, <1>5 DEF Next

(* Hence after every call. *)
LEMMA AluInvariant == Spec => []AluInv
BY AluInit, AluStep, PTL DEF Spec

(* vic_adc in binary mode: the accumulator and the carry are the sum, and   *)
(* overflow says that the signed sum does not fit.                          *)
THEOREM AddsInBinary == Spec => []BinaryAdd
<1>1. AluInv => BinaryAdd
  BY AdcBinary DEF AluInv, BinaryAdd
<1> QED
  BY <1>1, AluInvariant, PTL

(* vic_sbc: the difference, its borrow and its overflow, with the flags of  *)
(* the binary difference in decimal mode too.                               *)
THEOREM Subtracts == Spec => []Subtract
<1>1. AluInv => Subtract
  BY SbcFlags DEF AluInv, Subtract
<1> QED
  BY <1>1, AluInvariant, PTL

(* vic_adc and vic_sbc in decimal mode, on pairs of decimal digits.         *)
THEOREM CountsInDecimal == Spec => []DecimalArithmetic
<1>1. AluInv => DecimalArithmetic
  BY AdcDecimal, SbcDecimal DEF AluInv, DecimalArithmetic
<1> QED
  BY <1>1, AluInvariant, PTL

(* vic_adc in decimal mode, on all operands: which sums Z, N and V are of.  *)
THEOREM FlagsInDecimal == Spec => []DecimalFlags
<1>1. AluInv => DecimalFlags
  BY AdcDecimalFlags DEF AluInv, DecimalFlags
<1> QED
  BY <1>1, AluInvariant, PTL

(* vic_cmp_reg sets the flags of vic_sbc, and the shifts lose no bit.       *)
THEOREM ComparesAndRotates == Spec => []CompareAndRotate
<1>1. AluInv => CompareAndRotate
  <2> SUFFICES ASSUME AluInv PROVE CompareAndRotate
    OBVIOUS
  <2>1. prev \in Calm /\ val \in Byte
    BY DEF AluInv
  <2>2. \A mn \in {"ASL", "LSR", "ROL"} : last = mn => m = Shifted(prev, mn)
    BY DEF AluInv, Shifts, Shifted
  <2>3. ASSUME last = "cmp"
        PROVE  LET s == vic_sbc([prev EXCEPT !.d = 0, !.c = 1], val)
               IN  m.c = s.c /\ m.z = s.z /\ m.n = s.n /\ m.a = prev.a
    <3>1. m = vic_cmp_reg(prev, prev.a, val)
      BY <2>3 DEF AluInv
    <3> QED
      BY <2>1, <3>1, CompareFlags
  <2> QED
    BY <2>1, <2>2, <2>3, ShiftKeepsBits, RotateBack DEF CompareAndRotate
<1> QED
  BY <1>1, AluInvariant, PTL
=============================================================================
