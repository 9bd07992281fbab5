------------------------------ MODULE MCRecomp ------------------------------
(* Small programs, recompiled and run. *)
EXTENDS Recomp, Opcodes, SequencesExt, TLC

Programs(palette, n) == {FlattenSeq(p) : p \in [1..n -> palette]}

LDA(t)  == <<173, t, 0>>
STA(t)  == <<141, t, 0>>
JMP(t)  == <<76, t, 0>>
JSR(t)  == <<32, t, 0>>
JMPI(t) == <<108, t, 0>>
BNE(b)  == <<208, b>>
BEQ(b)  == <<240, b>>
RTS     == <<96>>
RTI     == <<64>>
PHA     == <<72>>
TAX     == <<170>>
CLI     == <<88>>
PLA     == <<104>>
PHP     == <<8>>
PLP     == <<40>>
BRK     == <<0>>
JAM     == <<2>>
SLO(b)  == <<7, b>>
LDX(v)  == <<162, v>>
TXS     == <<154>>
INX     == <<232>>
STAX(t) == <<157, t, 0>>
LDAX(t) == <<189, t, 0>>
STAI(z) == <<129, z>>
LDAI(z) == <<177, z>>
INC(t)  == <<238, t, 0>>
ROL(t)  == <<46, t, 0>>

NoHostMem == <<>>

(* Control flow and stores into the program itself. *)
PatchingPrograms ==
  Programs({RTS, PHA, BNE(1), BNE(254), BEQ(253)}
           \cup {LDA(t) : t \in {0, 4}} \cup {STA(t) : t \in 1..8}
           \cup {JMP(t) : t \in {0, 4, 6}} \cup {JSR(t) : t \in {0, 3, 6}}
           \cup {JMPI(t) : t \in {1, 4}}, 3)

(* Gaps: BRK, JAM and SLO are not translated, and jumps leave the image.    *)
GapPrograms ==
  Programs({RTS, BRK, JAM, SLO(0), BNE(1), LDA(4), STA(3)}
           \cup {JMP(t) : t \in {0, 5, 32}} \cup {JSR(t) : t \in {0, 4}}, 3)

(* Every addressing mode on the program's own bytes, which are also its     *)
(* pointers; TXS wraps the stack.                                           *)
IndexPrograms ==
  Programs({LDX(1), INX, TXS, STAX(3), LDAX(1), STAI(0), LDAI(0), INC(1), INC(4), ROL(4),
            STA(1), STA(4), JMP(0), BNE(251), JSR(6), RTS}, 3)

FlowInputs ==
  {[rom |-> p, span |-> Everything, seeds |-> <<0>>] :
     p \in PatchingPrograms \cup GapPrograms \cup IndexPrograms}

(* A main loop with interrupts enabled, at 0, and a handler at Handler.     *)
Handler == 7
IrqMain == {CLI \o op \o JMP(1) : op \in {LDA(1), LDA(4), STA(32)}}
             \cup {CLI \o op \o JMP(0) \o <<234>> : op \in {BNE(1), BEQ(254), TAX \o TAX}}
IrqHandler == {op \o RTI : op \in {TAX, PHA \o PLA, LDA(3) \o CLI, PHP \o PLA \o PLP,
                                   BEQ(0) \o TAX, LDA(0), JSR(11)}}

(* Handlers that unmask in a block before the one that returns, so that     *)
(* they are interrupted themselves: after a jump, between the two sides of  *)
(* a branch, and in a subroutine called over a saved register.              *)
NestingHandler == {CLI \o JMP(11) \o RTI, CLI \o BEQ(1) \o TAX \o RTI,
                   PHA \o CLI \o JSR(14) \o PLA \o RTI}
IrqInputs ==
  {[rom |-> p \o h \o RTS, span |-> Everything, seeds |-> <<0, Handler>>] :
     p \in IrqMain, h \in IrqHandler \cup NestingHandler}

Vector == 65534 :> Handler

(* The same without a seed for the handler.                                 *)
NoHandlerInputs ==
  {[rom |-> CLI \o LDA(1) \o JMP(1) \o RTI, span |-> Everything, seeds |-> <<0>>]}

(* The stack stays near its top. *)
ShallowStack == cpu.s \in (0..2) \cup (249..255)
=============================================================================
