-------------------------------- MODULE Alu --------------------------------
(***************************************************************************)
(* The arithmetic helpers of recomp_rt.h against what the operation means: *)
(* one call, on a machine and an operand of a given set.                   *)
(***************************************************************************)
EXTENDS Cpu

CONSTANTS Accumulators, Operands, Decimal

ASSUME AluAssumption ==
  Accumulators \subseteq Byte /\ Operands \subseteq Byte /\ Decimal \subseteq {0, 1}

VARIABLES
  m, val,   \* the machine and the operand
  prev,     \* the machine before the call
  last      \* the helper called, or "none"

vars == <<m, val, prev, last>>

Init ==
  /\ \E a \in Accumulators, d \in Decimal, c \in {0, 1} :
       m = [vic_cpu_reset(<<>>) EXCEPT !.a = a, !.d = d, !.c = c]
  /\ val \in Operands
  /\ prev = m
  /\ last = "none"

Called(helper, after) ==
  /\ last = "none"
  /\ last' = helper
  /\ m' = after
  /\ prev' = m
  /\ val' = val

Adc == Called("adc", vic_adc(m, val))
Sbc == Called("sbc", vic_sbc(m, val))
Cmp == Called("cmp", vic_cmp_reg(m, m.a, val))
Shift ==
  \E mn \in {"ASL", "LSR", "ROL", "ROR", "INC", "DEC"} :
    LET r == vic_alu(m, mn, m.a)
    IN  Called(mn, [r.m EXCEPT !.a = r.value])

Next == Adc \/ Sbc \/ Cmp \/ Shift

Spec == Init /\ [][Next]_vars

-----------------------------------------------------------------------------
(* Properties. *)

(* The sum of the operands as unsigned and as signed numbers: the carry is  *)
(* the ninth bit, and overflow says that the signed result does not fit; N  *)
(* and Z are those of the result.                                           *)
BinaryAdd ==
  last = "adc" /\ prev.d = 0 =>
    /\ m.a + 256 * m.c = prev.a + val + prev.c
    /\ m.v = 0 <=> Signed(m.a) = Signed(prev.a) + Signed(val) + prev.c
    /\ m.z = 1 <=> m.a = 0
    /\ m.n = 1 <=> Signed(m.a) < 0

(* The difference likewise, the carry being the complement of the borrow,   *)
(* in both modes: the flags of a decimal subtraction are the binary ones.   *)
Subtract ==
  last = "sbc" =>
    LET r == B(prev.a - val - (1 - prev.c))
    IN  /\ m.c = 1 <=> prev.a >= val + 1 - prev.c
        /\ m.v = 0 <=> Signed(r) = Signed(prev.a) - Signed(val) - (1 - prev.c)
        /\ m.z = 1 <=> r = 0
        /\ m.n = 1 <=> Signed(r) < 0
        /\ prev.d = 0 => m.a = r

FromBCD(b) == 10 * (b \div 16) + (b % 16)

TwoDigits(b) == b \div 16 <= 9 /\ b % 16 <= 9

(* On operands that are pairs of decimal digits, decimal mode computes the  *)
(* decimal sum and difference, again a pair of digits, with a decimal carry.*)
DecimalArithmetic ==
  prev.d = 1 /\ TwoDigits(prev.a) /\ TwoDigits(val) =>
    /\ last = "adc" =>
         /\ TwoDigits(m.a)
         /\ FromBCD(m.a) + 100 * m.c = FromBCD(prev.a) + FromBCD(val) + prev.c
    /\ last = "sbc" =>
         /\ TwoDigits(m.a)
         /\ FromBCD(m.a) = (FromBCD(prev.a) - FromBCD(val) - (1 - prev.c)) % 100

(* A comparison sets the flags a subtraction without borrow would, and a    *)
(* rotation the other way undoes a rotation, carry included.                *)
CompareAndRotate ==
  /\ last = "cmp" =>
       LET s == vic_sbc([prev EXCEPT !.d = 0, !.c = 1], val)
       IN  m.c = s.c /\ m.z = s.z /\ m.n = s.n /\ m.a = prev.a
  /\ last = "ROL" => LET r == vic_alu(m, "ROR", m.a)
                     IN  r.value = prev.a /\ r.m.c = prev.c
  /\ last = "ASL" => m.a + 256 * m.c = 2 * prev.a
  /\ last = "LSR" => 2 * m.a + m.c = prev.a

(* The flags of a decimal addition: Z is that of the binary sum, but N and V *)
(* are those of the sum of the high digits and the carry out of the low one, *)
(* as a signed number, before it is corrected itself.                        *)
DecimalFlags ==
  last = "adc" /\ prev.d = 1 =>
    LET carry == (prev.a % 16) + (val % 16) + prev.c >= 10
        high  == 16 * ((prev.a \div 16) + (val \div 16)) + (IF carry THEN 16 ELSE 0)
    IN  /\ m.z = 1 <=> (prev.a + val + prev.c) % 256 = 0
        /\ m.n = 1 <=> high % 256 >= 128
        /\ m.v = 0 <=> Signed(high % 256) = Signed(16 * (prev.a \div 16))
                         + Signed(16 * (val \div 16)) + (IF carry THEN 16 ELSE 0)
=============================================================================
