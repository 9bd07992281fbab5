------------------------------- MODULE Lines -------------------------------
(***************************************************************************)
(* What one emitted line of C does to the machine: emit_insn() of          *)
(* tools/m6502recomp/emit.c.  A line is a decoded instruction in and the   *)
(* flag dyn, TRUE if its absolute operand is read from memory when the     *)
(* line runs instead of being a literal of the C text.                     *)
(***************************************************************************)
EXTENDS Cpu, Decode

abs_base(m, l) ==
  IF l.dyn THEN vic_mem_read(m, W(l.in.pc + 1)) + ByteSize * vic_mem_read(m, W(l.in.pc + 2))
           ELSE l.in.operand

addr_expr(m, l) ==
  LET o == l.in.operand
  IN  CASE l.in.mode = "zp"  -> o
        [] l.in.mode = "zpx" -> B(o + m.x)
        [] l.in.mode = "zpy" -> B(o + m.y)
        [] l.in.mode = "abs" -> abs_base(m, l)
        [] l.in.mode = "abx" -> W(abs_base(m, l) + m.x)
        [] l.in.mode = "aby" -> W(abs_base(m, l) + m.y)
        [] l.in.mode = "izx" -> vic_zp_ptr(m, B(o + m.x))
        [] l.in.mode = "izy" -> W(vic_zp_ptr(m, o) + m.y)
        [] OTHER -> 0

rd_expr(m, l) ==
  IF l.in.mode = "imm" THEN l.in.operand ELSE vic_mem_read(m, addr_expr(m, l))

branch_cond(m, mn) ==
  CASE mn = "BPL" -> m.n = 0 [] mn = "BMI" -> m.n = 1
    [] mn = "BVC" -> m.v = 0 [] mn = "BVS" -> m.v = 1
    [] mn = "BCC" -> m.c = 0 [] mn = "BCS" -> m.c = 1
    [] mn = "BNE" -> m.z = 0 [] mn = "BEQ" -> m.z = 1

ImpliedOps == {"NOP", "CLC", "SEC", "CLI", "SEI", "CLD", "SED", "CLV", "INX", "INY", "DEX",
               "DEY", "TAX", "TAY", "TXA", "TYA", "TSX", "TXS", "PHA", "PHP", "PLA", "PLP"}
ReadOps    == {"LDA", "LDX", "LDY", "ORA", "AND", "EOR", "ADC", "SBC", "CMP", "CPX", "CPY", "BIT"}
StoreOps   == {"STA", "STX", "STY"}
ModifyOps  == {"INC", "DEC", "ASL", "LSR", "ROL", "ROR"}
ReturnOps  == {"RTS", "RTI"}

(* The opcodes that emit_insn routes to vic_unimpl: BRK, JAM and the        *)
(* undocumented ones.                                                       *)
Unimplemented(in) ==
  /\ in.cflow \notin {"branch", "jmp", "call"}
  /\ in.mn \notin ImpliedOps \cup ReadOps \cup StoreOps \cup ModifyOps \cup ReturnOps

(* Simple register and flag operations.                                     *)
Implied(m, mn) ==
  CASE mn = "NOP" -> m
    [] mn = "CLC" -> [m EXCEPT !.c = 0] [] mn = "SEC" -> [m EXCEPT !.c = 1]
    [] mn = "CLI" -> [m EXCEPT !.i = 0] [] mn = "SEI" -> [m EXCEPT !.i = 1]
    [] mn = "CLD" -> [m EXCEPT !.d = 0] [] mn = "SED" -> [m EXCEPT !.d = 1]
    [] mn = "CLV" -> [m EXCEPT !.v = 0]
    [] mn = "INX" -> LoadX(m, B(m.x + 1)) [] mn = "DEX" -> LoadX(m, B(m.x - 1))
    [] mn = "INY" -> LoadY(m, B(m.y + 1)) [] mn = "DEY" -> LoadY(m, B(m.y - 1))
    [] mn = "TAX" -> LoadX(m, m.a) [] mn = "TAY" -> LoadY(m, m.a)
    [] mn = "TXA" -> LoadA(m, m.x) [] mn = "TYA" -> LoadA(m, m.y)
    [] mn = "TSX" -> LoadX(m, m.s) [] mn = "TXS" -> [m EXCEPT !.s = m.x]
    [] mn = "PHA" -> vic_push(m, m.a)
    [] mn = "PHP" -> vic_push(m, vic_p_pack(m))
    [] mn = "PLA" -> LoadA(Pulled(m), Top(Pulled(m)))
    [] mn = "PLP" -> vic_p_unpack(Pulled(m), Top(Pulled(m)))

(* Loads, logic, arithmetic and comparison on the value v.                  *)
OnValue(m, mn, v) ==
  CASE mn = "LDA" -> LoadA(m, v) [] mn = "LDX" -> LoadX(m, v) [] mn = "LDY" -> LoadY(m, v)
    [] mn = "ORA" -> LoadA(m, Or(m.a, v))
    [] mn = "AND" -> LoadA(m, And(m.a, v))
    [] mn = "EOR" -> LoadA(m, Xor(m.a, v))
    [] mn = "ADC" -> vic_adc(m, v) [] mn = "SBC" -> vic_sbc(m, v)
    [] mn = "CMP" -> vic_cmp_reg(m, m.a, v)
    [] mn = "CPX" -> vic_cmp_reg(m, m.x, v)
    [] mn = "CPY" -> vic_cmp_reg(m, m.y, v)
    [] mn = "BIT" -> vic_bit(m, v)

Stored(m, mn) == CASE mn = "STA" -> m.a [] mn = "STX" -> m.x [] mn = "STY" -> m.y

Modify(m, l) ==
  IF l.in.mode = "acc"
  THEN LET r == vic_alu(m, l.in.mn, m.a) IN [r.m EXCEPT !.a = r.value]
  ELSE LET ea == addr_expr(m, l)
           r  == vic_alu(m, l.in.mn, vic_mem_read(m, ea))
       IN  vic_mem_write(r.m, ea, r.value)

(* The lines that set the PC and return to the driver.                      *)
Transfer(m, in) ==
  CASE in.cflow = "branch" ->
         [m EXCEPT !.pc = IF branch_cond(m, in.mn) THEN in.target ELSE W(in.pc + in.len)]
    [] in.cflow = "jmp" ->
         [m EXCEPT !.pc = IF in.mode = "ind" THEN vic_mem_read16_bug(m, in.operand)
                          ELSE in.target]
    [] in.cflow = "call" -> [vic_push16(m, W(in.pc + 2)) EXCEPT !.pc = in.target]
    [] in.mn = "RTS" -> vic_rts_ret(m)
    [] in.mn = "RTI" -> vic_rti(m)

TransferClasses == {"branch", "jmp", "call", "ret"}

(* The machine after the line, vic_unimpl aside: its hook leaves it alone.  *)
RunLine(m, l) ==
  CASE l.in.cflow \in TransferClasses -> Transfer(m, l.in)
    [] l.in.mn \in ImpliedOps  -> Implied(m, l.in.mn)
    [] l.in.mn \in ReadOps     -> OnValue(m, l.in.mn, rd_expr(m, l))
    [] l.in.mn \in StoreOps    -> vic_mem_write(m, addr_expr(m, l), Stored(m, l.in.mn))
    [] l.in.mn \in ModifyOps   -> Modify(m, l)
    [] OTHER -> m
=============================================================================
