------------------------------- MODULE Image -------------------------------
(***************************************************************************)
(* The code image the recompiler reads: rom, mapped at the CPU address     *)
(* Base, of which the addresses in span are followed.  The helpers of      *)
(* tools/m6502recomp/analyze.c that look at it, and where control goes     *)
(* from an instruction.                                                    *)
(***************************************************************************)
EXTENDS Decode, Sequences

CONSTANTS
  Base,       \* CPU address of rom[0]
  BlockCap    \* 0x1000: the longest straight-line block, in bytes

ASSUME ImageAssumption ==
  /\ Base \in Word
  /\ BlockCap \in Word \ {0}

VARIABLES
  rom,
  span        \* analyze_code_lo and analyze_code_hi

Spans == [lo : Word, hi : Word]

(* Nothing is restricted by default. *)
Everything == [lo |-> 0, hi |-> WordSize - 1]

(* Images are shorter than 64 KiB: a full one at Base 0 makes img_rd16 read *)
(* the byte behind it.                                                      *)
Roms == {r \in Seq(Byte) : Len(r) < WordSize}

Off(a) == a - Base

in_image(a) ==
  /\ a >= Base
  /\ Off(a) < Len(rom)
  /\ a >= span.lo
  /\ a <= span.hi

(* A byte of the image; the operand bytes missing at its end read as 0. *)
RomByte(off) == IF off \in 0..(Len(rom) - 1) THEN rom[off + 1] ELSE 0

Insn(a) == decode(RomByte(Off(a)), RomByte(Off(a) + 1), RomByte(Off(a) + 2), a)

(* Mutant: the address does not wrap. *)
Next16_NoWrap(a) == a + Insn(a).len

Next16(a) == W(a + Insn(a).len)

Truncated(a) == Insn(a).len > Len(rom) - Off(a)

img_rd16(a) ==
  IF in_image(a) /\ in_image(W(a + 1))
  THEN RomByte(Off(a)) + ByteSize * RomByte(Off(a) + 1)
  ELSE 0

(* A block with leader l goes on at a while a whole instruction of the      *)
(* image, within the cap, is there.                                         *)
WithinBlock(l, a) ==
  /\ in_image(a)
  /\ W(a - l) < BlockCap
  /\ ~Truncated(a)

(* The addresses a control transfer at a names, as far as the image tells:  *)
(* a call also names its return address, a branch its fall-through.         *)
JumpTarget(in) == IF in.mode = "ind" THEN img_rd16(in.operand) ELSE in.target

Transfers(a) ==
  LET in == Insn(a)
  IN  CASE in.cflow \in {"call", "branch"} -> {in.target, Next16(a)}
        [] in.cflow = "jmp" /\ (in.mode = "ind" \/ in.target # 0) -> {JumpTarget(in)}
        [] OTHER -> {}

(* The address at which the straight line from l ends.                      *)
LineEnd(l) ==
  LET at[n \in 0..BlockCap] ==
        IF n = 0 THEN l
        ELSE LET a == at[n - 1]
             IN  IF WithinBlock(l, a) /\ Insn(a).cflow = "normal" THEN Next16(a) ELSE a
  IN  at[BlockCap]

(* The leaders that the straight line from l leads to. *)
Successors(l) ==
  LET a == LineEnd(l)
  IN  IF WithinBlock(l, a) THEN {t \in Transfers(a) : in_image(t)} ELSE {}
=============================================================================
