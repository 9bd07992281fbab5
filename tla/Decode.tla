------------------------------- MODULE Decode -------------------------------
(***************************************************************************)
(* The instruction decoder of tools/m6502recomp/decode.c over an opcode    *)
(* table given as the constant Optab (module Opcodes has the real one), so *)
(* that what is proved of the analyzer holds for every table.              *)
(***************************************************************************)
EXTENDS Words

CONSTANT Optab      \* opcode byte -> mnemonic, addressing mode, control-flow class

OneByteModes   == {"imp", "acc"}
TwoByteModes   == {"imm", "zp", "zpx", "zpy", "izx", "izy", "rel"}
ThreeByteModes == {"abs", "abx", "aby", "ind"}
Modes  == OneByteModes \cup TwoByteModes \cup ThreeByteModes
CFlows == {"normal", "branch", "jmp", "call", "ret", "break", "stop"}

ASSUME OptabType ==
  \A op \in Byte : Optab[op].mode \in Modes /\ Optab[op].cflow \in CFlows

(* Exactly the relative instructions branch, and the targets of jumps and  *)
(* calls are absolute or, for JMP, indirect.                               *)
ASSUME OptabShape ==
  \A op \in Byte :
    /\ Optab[op].mode = "rel" <=> Optab[op].cflow = "branch"
    /\ Optab[op].mode = "ind" => Optab[op].cflow = "jmp"
    /\ Optab[op].cflow \in {"jmp", "call"} => Optab[op].mode \in {"abs", "ind"}

mode_len(mode) ==
  IF mode \in ThreeByteModes THEN 3 ELSE IF mode \in TwoByteModes THEN 2 ELSE 1

(* Decode the bytes b0 b1 b2 found at address pc. *)
decode(b0, b1, b2, pc) ==
  LET oi == Optab[b0]
  IN  [pc      |-> pc,
       opcode  |-> b0,
       mn      |-> oi.mn,
       mode    |-> oi.mode,
       cflow   |-> oi.cflow,
       len     |-> mode_len(oi.mode),
       operand |-> IF oi.mode \in OneByteModes THEN 0
                   ELSE IF oi.mode \in TwoByteModes THEN b1
                   ELSE b1 + ByteSize * b2,
       target  |-> IF oi.mode = "rel" THEN W(pc + 2 + Signed(b1))
                   ELSE IF oi.mode = "abs" /\ oi.cflow \in {"jmp", "call"}
                        THEN b1 + ByteSize * b2
                   ELSE 0]
=============================================================================
