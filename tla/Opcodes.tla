------------------------------ MODULE Opcodes ------------------------------
(***************************************************************************)
(* The opcode table m6502_optab of tools/m6502recomp/decode.c: mnemonic,   *)
(* addressing mode and control-flow class of each of the 256 opcodes of    *)
(* the NMOS 6502.  The undoc flag, which only the disassembler's listing   *)
(* and a comment of the emitted code show, is left out.                    *)
(***************************************************************************)
EXTENDS Naturals, Sequences

(* One row per high nibble of the opcode, one column per low nibble. *)
Mnemonics == <<
  <<"BRK","ORA","JAM","SLO","NOP","ORA","ASL","SLO","PHP","ORA","ASL","ANC","NOP","ORA","ASL","SLO">>,
  <<"BPL","ORA","JAM","SLO","NOP","ORA","ASL","SLO","CLC","ORA","NOP","SLO","NOP","ORA","ASL","SLO">>,
  <<"JSR","AND","JAM","RLA","BIT","AND","ROL","RLA","PLP","AND","ROL","ANC","BIT","AND","ROL","RLA">>,
  <<"BMI","AND","JAM","RLA","NOP","AND","ROL","RLA","SEC","AND","NOP","RLA","NOP","AND","ROL","RLA">>,
  <<"RTI","EOR","JAM","SRE","NOP","EOR","LSR","SRE","PHA","EOR","LSR","ALR","JMP","EOR","LSR","SRE">>,
  <<"BVC","EOR","JAM","SRE","NOP","EOR","LSR","SRE","CLI","EOR","NOP","SRE","NOP","EOR","LSR","SRE">>,
  <<"RTS","ADC","JAM","RRA","NOP","ADC","ROR","RRA","PLA","ADC","ROR","ARR","JMP","ADC","ROR","RRA">>,
  <<"BVS","ADC","JAM","RRA","NOP","ADC","ROR","RRA","SEI","ADC","NOP","RRA","NOP","ADC","ROR","RRA">>,
  <<"NOP","STA","NOP","SAX","STY","STA","STX","SAX","DEY","NOP","TXA","ANE","STY","STA","STX","SAX">>,
  <<"BCC","STA","JAM","SHA","STY","STA","STX","SAX","TYA","STA","TXS","TAS","SHY","STA","SHX","SHA">>,
  <<"LDY","LDA","LDX","LAX","LDY","LDA","LDX","LAX","TAY","LDA","TAX","LXA","LDY","LDA","LDX","LAX">>,
  <<"BCS","LDA","JAM","LAX","LDY","LDA","LDX","LAX","CLV","LDA","TSX","LAS","LDY","LDA","LDX","LAX">>,
  <<"CPY","CMP","NOP","DCP","CPY","CMP","DEC","DCP","INY","CMP","DEX","SBX","CPY","CMP","DEC","DCP">>,
  <<"BNE","CMP","JAM","DCP","NOP","CMP","DEC","DCP","CLD","CMP","NOP","DCP","NOP","CMP","DEC","DCP">>,
  <<"CPX","SBC","NOP","ISC","CPX","SBC","INC","ISC","INX","SBC","NOP","USB","CPX","SBC","INC","ISC">>,
  <<"BEQ","SBC","JAM","ISC","NOP","SBC","INC","ISC","SED","SBC","NOP","ISC","NOP","SBC","INC","ISC">>>>

(* The table's AM_ columns: rows of one kind share their modes, and JSR    *)
(* ($20) and JMP indirect ($6C) stand out of theirs.                       *)
RowModes(hi) ==
  CASE hi \in {0, 2, 4, 6}    -> <<"imp","izx","imp","izx","zp","zp","zp","zp",
                                   "imp","imm","acc","imm","abs","abs","abs","abs">>
    [] hi \in {8, 10, 12, 14} -> <<"imm","izx","imm","izx","zp","zp","zp","zp",
                                   "imp","imm","imp","imm","abs","abs","abs","abs">>
    [] hi \in {9, 11}         -> <<"rel","izy","imp","izy","zpx","zpx","zpy","zpy",
                                   "imp","aby","imp","aby","abx","abx","aby","aby">>
    [] OTHER                  -> <<"rel","izy","imp","izy","zpx","zpx","zpx","zpx",
                                   "imp","aby","imp","aby","abx","abx","abx","abx">>

(* The table's CF_ column. *)
ClassOf(mn, mode) ==
  CASE mode = "rel"          -> "branch"
    [] mn = "JMP"            -> "jmp"
    [] mn = "JSR"            -> "call"
    [] mn \in {"RTS", "RTI"} -> "ret"
    [] mn = "BRK"            -> "break"
    [] mn = "JAM"            -> "stop"
    [] OTHER                 -> "normal"

m6502_optab ==
  [op \in 0..255 |->
     LET mn   == Mnemonics[op \div 16 + 1][(op % 16) + 1]
         mode == CASE op = 32  -> "abs"
                   [] op = 108 -> "ind"
                   [] OTHER    -> RowModes(op \div 16)[(op % 16) + 1]
     IN  [mn |-> mn, mode |-> mode, cflow |-> ClassOf(mn, mode)]]
=============================================================================
