-------------------------------- MODULE Emit --------------------------------
(***************************************************************************)
(* Code emission: emit_functions() of tools/m6502recomp/emit.c.  For every *)
(* block that is not self-modifying a C function is written, one line per  *)
(* instruction, and registered in the dispatch table when the program      *)
(* starts.  A line is abstracted to the instruction it lowers and to       *)
(* whether its operand was baked into the C text or is read from memory    *)
(* when the line runs.                                                     *)
(***************************************************************************)
EXTENDS Discover

VARIABLES
  stage,      \* "analyze", "emit", "emitted"
  code,       \* block start -> its C function: lines, and the final PC or NoExit
  lines       \* the lines of the block being emitted, whose next address is at
              \* addr and whose index is k

emitVars == <<stage, code, lines>>
allVars  == <<vars, emitVars>>

NoExit == WordSize

(* Only these modes compute an address from abs_base. *)
AbsBaseModes == {"abs", "abx", "aby"}

(* Mutant: only the low byte of the operand is looked at. *)
FromMemory_LowOnly(in) ==
  in.mode \in AbsBaseModes /\ in.cflow = "normal" /\ W(in.pc + 1) \in patched

(* abs_base: a patched operand is read from memory at run time.             *)
FromMemory(in) ==
  /\ in.mode \in AbsBaseModes
  /\ in.cflow = "normal"
  /\ W(in.pc + 1) \in patched \/ W(in.pc + 2) \in patched

Line(a) == [in |-> Insn(a), dyn |-> FromMemory(Insn(a))]

EmitBegin ==
  /\ code = <<>>
  /\ lines = <<>>

EmitInit == Init /\ EmitBegin /\ stage = "analyze"

Analyze == stage = "analyze" /\ Next /\ UNCHANGED emitVars

BeginEmit ==
  /\ stage = "analyze" /\ phase = "analyzed"
  /\ stage' = "emit"
  /\ k' = 1 /\ addr' = FirstAddr
  /\ UNCHANGED <<rom, span, seeds, phase, d, funcs, ext, patched, fs, code, lines>>

GoToNextBlock ==
  /\ k' = k + 1
  /\ addr' = IF k < Len(funcs) THEN funcs[k + 1].start ELSE 0
  /\ lines' = <<>>

EmitKeeps == UNCHANGED <<rom, span, seeds, phase, d, funcs, ext, patched, fs>>

(* Mutant: the block is skipped without going on to the next one. *)
SkipSelfModifying_Stuck ==
  /\ stage = "emit" /\ k <= Len(funcs)
  /\ funcs[k].self_mod
  /\ UNCHANGED <<stage, code, lines, k, addr>> /\ EmitKeeps

SkipSelfModifying ==
  /\ stage = "emit" /\ k <= Len(funcs)
  /\ funcs[k].self_mod
  /\ GoToNextBlock
  /\ UNCHANGED <<stage, code>> /\ EmitKeeps

(* Mutant: the last byte of a block is left out. *)
MoreLines_OneShort == addr + 1 < funcs[k].end /\ ~Truncated(addr)

MoreLines == addr < funcs[k].end /\ ~Truncated(addr)

EmitLine ==
  /\ stage = "emit" /\ k <= Len(funcs)
  /\ ~funcs[k].self_mod
  /\ MoreLines
  /\ lines' = Append(lines, Line(addr))
  /\ addr' = Next16(addr)
  /\ UNCHANGED <<stage, code, k>> /\ EmitKeeps

(* Mutant: a block that has lines is taken to end in a terminator. *)
EndsNormally_IfEmpty == lines = <<>>

(* lastcf: the class of the last line, "normal" if there is none.           *)
EndsNormally == lines = <<>> \/ lines[Len(lines)].in.cflow = "normal"

EmitEnd ==
  /\ stage = "emit" /\ k <= Len(funcs)
  /\ ~funcs[k].self_mod
  /\ ~MoreLines
  /\ code' = [b \in DOMAIN code \cup {funcs[k].start} |->
                IF b = funcs[k].start
                THEN [lines |-> lines, exit |-> IF EndsNormally THEN funcs[k].end ELSE NoExit]
                ELSE code[b]]
  /\ GoToNextBlock
  /\ UNCHANGED stage /\ EmitKeeps

EmitDone ==
  /\ stage = "emit" /\ k > Len(funcs)
  /\ stage' = "emitted"
  /\ UNCHANGED <<code, lines, k, addr>> /\ EmitKeeps

EmitStep == BeginEmit \/ SkipSelfModifying \/ EmitLine \/ EmitEnd \/ EmitDone

EmitNext == Analyze \/ EmitStep

EmitSpec == EmitInit /\ [][EmitNext]_allVars /\ WF_allVars(EmitNext)
-----------------------------------------------------------------------------
(* Properties. *)

LastLine(c) == c.lines[Len(c.lines)]

Leaves(l) == l.in.cflow # "normal"

(* A C function has one way out and it is at its end: no statement follows a *)
(* return, and only a function whose last line returns has no final PC.      *)
OneWayOut ==
  \A b \in DOMAIN code :
    LET c == code[b]
    IN  /\ \A j \in 1..(Len(c.lines) - 1) : ~Leaves(c.lines[j])
        /\ c.exit = NoExit <=> c.lines # <<>> /\ Leaves(LastLine(c))

(* Where a compiled block hands control to, as far as the C text tells: the  *)
(* cap may cut a block where no leader is.                                   *)
StaticExits(c) ==
  IF c.exit = NoExit THEN Transfers(LastLine(c).in.pc) ELSE {c.exit} \cap d.seen

(* Every edge of the compiled program leads to a compiled block, except to   *)
(* code that is patched, or when the table was full: otherwise the driver    *)
(* would leave the C code for the interpreter in the middle of the program.  *)
EdgesCompiled ==
  stage = "emitted" =>
    \A b \in DOMAIN code : \A t \in StaticExits(code[b]) :
      in_image(t) =>
        \/ t \in DOMAIN code
        \/ Len(funcs) = MaxFuncs
        \/ \E i \in 1..Len(funcs) : funcs[i].start = t /\ funcs[i].self_mod

(* emit.c, of a block without a terminator, "split at an interior leader (or *)
(* that ran to the image edge)": it will "continue to the next block", not    *)
(* hand control back to itself.                                              *)
ContinuesElsewhere == \A b \in DOMAIN code : code[b].exit # b

(* emit.c, of the operand bytes: "unless the instruction's operand bytes are *)
(* self-modified, in which case it's read from memory at run time".          *)
PatchedOperandsRead ==
  stage = "emitted" =>
    \A b \in DOMAIN code : \A j \in 1..Len(code[b].lines) :
      LET l == code[b].lines[j]
      IN  (\E n \in 1..(l.in.len - 1) : StoreIntoCode(W(l.in.pc + n))) => l.dyn

(* The emitter ends.                                                         *)
Emits == <>(stage = "emitted")
=============================================================================
