-------------------------------- MODULE Cpu --------------------------------
(***************************************************************************)
(* The runtime library that recompiled code calls: the 6502 state of cpu.c,*)
(* the flat memory of mem.c and the helpers of recomp_rt.h and recomp_rt.c.*)
(* Every helper is an operator from a machine to a machine.                *)
(*                                                                         *)
(* A machine is a record of the registers a x y s pc, the flags n v d i z  *)
(* c (0 or 1) and mem, the bytes of vic_ram that were ever loaded or       *)
(* written: all others are 0, as vic_mem_init leaves them.  No I/O hook is *)
(* installed (vic_io_hook is NULL by default).                             *)
(***************************************************************************)
EXTENDS Words

-----------------------------------------------------------------------------
(* Bytes. *)

(* The byte whose bit i is bit(i). *)
FromBits(bit(_)) ==
  bit(0) + 2 * bit(1) + 4 * bit(2) + 8 * bit(3)
    + 16 * bit(4) + 32 * bit(5) + 64 * bit(6) + 128 * bit(7)

Or(p, q)  == FromBits(LAMBDA i : IF Bit(p, i) + Bit(q, i) > 0 THEN 1 ELSE 0)
And(p, q) == FromBits(LAMBDA i : Bit(p, i) * Bit(q, i))
Xor(p, q) == FromBits(LAMBDA i : (Bit(p, i) + Bit(q, i)) % 2)

Flag(P) == IF P THEN 1 ELSE 0

-----------------------------------------------------------------------------
(* mem.c *)

vic_mem_read(m, a) == IF a \in DOMAIN m.mem THEN m.mem[a] ELSE 0

vic_mem_write(m, a, val) ==
  [m EXCEPT !.mem = [b \in DOMAIN m.mem \cup {a} |-> IF b = a THEN val ELSE m.mem[b]]]

vic_mem_read16(m, a) == vic_mem_read(m, a) + ByteSize * vic_mem_read(m, W(a + 1))

(* JMP ($xxFF) takes the high byte from $xx00. *)
vic_mem_read16_bug(m, a) ==
  vic_mem_read(m, a) + ByteSize * vic_mem_read(m, (Hi(a) * ByteSize) + Lo(a + 1))

vic_zp_ptr(m, zp) == vic_mem_read(m, zp) + ByteSize * vic_mem_read(m, B(zp + 1))

-----------------------------------------------------------------------------
(* cpu.c *)

(* P is N V 1 B D I Z C. *)
vic_p_pack(m) ==
  128 * m.n + 64 * m.v + 32 + 16 + 8 * m.d + 4 * m.i + 2 * m.z + m.c

vic_p_unpack(m, p) ==
  [m EXCEPT !.n = Bit(p, 7), !.v = Bit(p, 6), !.d = Bit(p, 3),
            !.i = Bit(p, 2), !.z = Bit(p, 1), !.c = Bit(p, 0)]

VIC_VEC_RESET == 65532
VIC_VEC_IRQ   == 65534

vic_cpu_reset(mem) ==
  LET m == [a |-> 0, x |-> 0, y |-> 0, s |-> 255, pc |-> 0, n |-> 0, v |-> 0,
            d |-> 0, i |-> 1, z |-> 0, c |-> 0, mem |-> mem]
  IN  [m EXCEPT !.pc = vic_mem_read16(m, VIC_VEC_RESET)]

-----------------------------------------------------------------------------
(* recomp_rt.h: flags, loads, logic. *)

vic_set_nz(m, v) == [m EXCEPT !.z = Flag(v = 0), !.n = Bit(v, 7)]

LoadA(m, v) == vic_set_nz([m EXCEPT !.a = v], v)     \* vic_lda, vic_txa, vic_tya
LoadX(m, v) == vic_set_nz([m EXCEPT !.x = v], v)     \* vic_ldx, vic_tax, vic_tsx
LoadY(m, v) == vic_set_nz([m EXCEPT !.y = v], v)     \* vic_ldy, vic_tay

vic_bit(m, v) == [m EXCEPT !.z = Flag(And(m.a, v) = 0), !.n = Bit(v, 7), !.v = Bit(v, 6)]

-----------------------------------------------------------------------------
(* recomp_rt.h: arithmetic. *)

(* Mutants: the signs of the operands are not compared, the borrow is taken *)
(* for an addition, and a digit sum of ten is no carry.                     *)
AddOverflow_NoOperands(a, v, r) == Flag(Bit(a, 7) # Bit(r, 7))
SubOverflow_AsAdd(a, v, r) == Flag(Bit(a, 7) = Bit(v, 7) /\ Bit(a, 7) # Bit(r, 7))
DigitCarry_OffByOne(x) == Flag(x > 10)

(* Bit 7 of ~(a ^ v) & (a ^ r): equal signs in, another sign out. *)
AddOverflow(a, v, r) == Flag(Bit(a, 7) = Bit(v, 7) /\ Bit(a, 7) # Bit(r, 7))
SubOverflow(a, v, r) == Flag(Bit(a, 7) # Bit(v, 7) /\ Bit(a, 7) # Bit(r, 7))

(* A sum of two digits that is not a digit. *)
DigitCarry(x) == Flag(x > 9)

(* Mutant: the high digit is corrected before the flags are taken from it.  *)
vic_adc_FlagsLate(m, v) ==
  LET sum == m.a + v + m.c
      lo  == (m.a % 16) + (v % 16) + m.c
      hi  == (m.a \div 16) + (v \div 16) + DigitCarry(lo)
      hi2 == hi + 6 * DigitCarry(hi)
      res == B(hi2 * 16) + ((lo + 6 * DigitCarry(lo)) % 16)
  IN  IF m.d = 0
      THEN vic_set_nz([m EXCEPT !.a = B(sum), !.c = Flag(sum > 255),
                                !.v = AddOverflow(m.a, v, B(sum))], B(sum))
      ELSE [m EXCEPT !.z = Flag(B(sum) = 0), !.n = Bit(res, 7), !.v = AddOverflow(m.a, v, res),
                     !.c = Flag(hi2 > 15), !.a = res]

vic_adc(m, v) ==
  LET sum == m.a + v + m.c
      lo  == (m.a % 16) + (v % 16) + m.c
      hi  == (m.a \div 16) + (v \div 16) + DigitCarry(lo)
      lo2 == lo + 6 * DigitCarry(lo)
      hi2 == hi + 6 * DigitCarry(hi)
  IN  IF m.d = 0
      THEN vic_set_nz([m EXCEPT !.a = B(sum), !.c = Flag(sum > 255),
                                !.v = AddOverflow(m.a, v, B(sum))], B(sum))
      ELSE [m EXCEPT !.z = Flag(B(sum) = 0),
                     !.n = Bit(hi, 3),
                     !.v = AddOverflow(m.a, v, B(hi * 16)),
                     !.c = Flag(hi2 > 15),
                     !.a = B(hi2 * 16) + (lo2 % 16)]

vic_sbc(m, v) ==
  LET diff == m.a - v - (1 - m.c)
      lo   == (m.a % 16) - (v % 16) - (1 - m.c)
      hi   == (m.a \div 16) - (v \div 16) - Flag(lo < 0)
      lo2  == IF lo < 0 THEN lo - 6 ELSE lo
      hi2  == IF hi < 0 THEN hi - 6 ELSE hi
      res  == IF m.d = 0 THEN B(diff) ELSE B(hi2 * 16) + (lo2 % 16)
  IN  vic_set_nz([m EXCEPT !.a = res, !.c = Flag(diff >= 0),
                           !.v = SubOverflow(m.a, v, B(diff))], B(diff))

(* Mutant: equality is a borrow. *)
vic_cmp_reg_Strict(m, reg, v) == vic_set_nz([m EXCEPT !.c = Flag(reg > v)], B(reg - v))

vic_cmp_reg(m, reg, v) == vic_set_nz([m EXCEPT !.c = Flag(reg >= v)], B(reg - v))

(* The vic_alu_ helpers yield a value and set flags. *)
vic_alu(m, mn, v) ==
  LET res == CASE mn = "INC" -> B(v + 1)
               [] mn = "DEC" -> B(v - 1)
               [] mn = "ASL" -> B(2 * v)
               [] mn = "LSR" -> v \div 2
               [] mn = "ROL" -> B(2 * v) + m.c
               [] mn = "ROR" -> (v \div 2) + 128 * m.c
      car == CASE mn \in {"INC", "DEC"} -> m.c
               [] mn \in {"ASL", "ROL"} -> Bit(v, 7)
               [] mn \in {"LSR", "ROR"} -> Bit(v, 0)
  IN  [value |-> res, m |-> vic_set_nz([m EXCEPT !.c = car], res)]

-----------------------------------------------------------------------------
(* recomp_rt.h: the stack. *)

vic_push(m, v) == [vic_mem_write(m, 256 + m.s, v) EXCEPT !.s = B(m.s - 1)]

(* The machine after a pull; the pulled byte is then at the stack pointer. *)
Pulled(m) == [m EXCEPT !.s = B(m.s + 1)]
Top(m)    == vic_mem_read(m, 256 + m.s)

(* Mutant: the low byte is pushed first. *)
vic_push16_LowFirst(m, a) == vic_push(vic_push(m, Lo(a)), Hi(a))

vic_push16(m, a) == vic_push(vic_push(m, Hi(a)), Lo(a))

vic_rts_ret(m) ==
  LET m1 == Pulled(m)
      m2 == Pulled(m1)
  IN  [m2 EXCEPT !.pc = W(Top(m1) + ByteSize * Top(m2) + 1)]

(* Mutant: the pulled address is that of the byte before, as for RTS. *)
vic_rti_AsRts(m) == vic_rts_ret(vic_p_unpack(Pulled(m), Top(Pulled(m))))

vic_rti(m) ==
  LET m1 == Pulled(m)
      m2 == Pulled(vic_p_unpack(m1, Top(m1)))
      m3 == Pulled(m2)
  IN  [m3 EXCEPT !.pc = Top(m2) + ByteSize * Top(m3)]

(* The frame vic_irq_deliver pushes: PC, then P with the B flag clear. *)
IrqFrame(m) == [vic_push(vic_push16(m, m.pc), vic_p_pack(m) - 16) EXCEPT !.i = 1]
=============================================================================
