------------------------------- MODULE Recomp -------------------------------
(***************************************************************************)
(* A recompiled program from its image to its execution: the analyzer and  *)
(* the emitter (module Emit), and then the emitted blocks under a host     *)
(* driver with the dispatch table, the interrupt delivery and the fallback *)
(* of src/recomp_rt.c.                                                     *)
(*                                                                         *)
(* The host is outside the repository and modelled from what the code says *)
(* of it: it maps the image, boots at the first seed, dispatches the block *)
(* at the PC over and over, ticks between two blocks, and has the bundled  *)
(* interpreter run what no block covers (README.md, emit.c).               *)
(***************************************************************************)
EXTENDS Emit, Lines

CONSTANTS
  HostMem,      \* bytes the host loads outside the image, such as vectors
  MaxTicks      \* bound on the ticks of a behaviour

ASSUME RecompAssumption == MaxTicks \in Nat

VARIABLES
  cpu,        \* vic_cpu and vic_ram
  at,         \* where C execution is: a block and its next line, or Driver
  fallback,   \* vic_dispatch_fallback is set
  fixed,      \* the bytes of compiled code that are not known to be patched
  pending,    \* vic_irq_pending
  ticks,      \* g_cycles \div VIC_TICK_CYCLES
  lastExt,    \* vic_last_ext_addr
  trap,       \* vic_unimpl was called, or the interpreter met such an opcode
  stale       \* one of the fixed bytes was changed

runVars == <<cpu, at, fallback, fixed, pending, ticks, lastExt, trap, stale>>
everything == <<allVars, runVars>>

Driver    == [block |-> NoExit, line |-> 1]
NotBooted == [block |-> NoExit, line |-> 0]

(* Memory when the host has mapped the image.                               *)
Loaded ==
  [a \in {Base + o : o \in 0..(Len(rom) - 1)} \cup DOMAIN HostMem |->
     IF a - Base \in 0..(Len(rom) - 1) THEN rom[a - Base + 1] ELSE HostMem[a]]

Booted == [vic_cpu_reset(Loaded) EXCEPT !.pc = seeds[1]]

RecompInit ==
  /\ EmitInit
  /\ cpu = Booted
  /\ at = NotBooted
  /\ fallback = FALSE
  /\ fixed = {}
  /\ pending = FALSE
  /\ ticks = 0
  /\ lastExt = 0
  /\ trap = FALSE
  /\ stale = FALSE

Recompile == EmitNext /\ UNCHANGED runVars

-----------------------------------------------------------------------------
(* The dispatch table, and the code that was translated ahead of time.      *)

vic_has_func(a) == a \in DOMAIN code

CompiledInsns == UNION {{code[b].lines[j].in : j \in 1..Len(code[b].lines)} : b \in DOMAIN code}

BytesOf(in) == {W(in.pc + n) : n \in 0..(in.len - 1)}

(* The bytes of code that an absolute store of a discovered block writes    *)
(* are known to be patched, and analyze_discover's comment promises to      *)
(* handle them.  It is kept but for operands of the immediate and zero-page *)
(* modes, which are literals of the C text all the same; and it says        *)
(* nothing of code changed by an indexed, indirect or interpreted store.    *)
LiteralModes == {"imm", "zp", "zpx", "zpy", "izx", "izy"}

Patchable ==
  {o \in UNION {BytesOf(in) : in \in CompiledInsns} :
     /\ StoreIntoCode(o)
     /\ \A in \in CompiledInsns : in.mode \in LiteralModes => o # W(in.pc + 1)}

FixedBytes == UNION {BytesOf(in) : in \in CompiledInsns} \ Patchable

Become(n) ==
  /\ cpu' = n
  /\ stale' = (stale \/ \E b \in fixed : vic_mem_read(n, b) # vic_mem_read(cpu, b))

(* The host registers the blocks, has an interpreter or not, and boots.     *)
Boot ==
  /\ stage = "emitted" /\ at = NotBooted
  /\ at' = Driver
  /\ fallback' \in BOOLEAN
  /\ fixed' = FixedBytes
  /\ UNCHANGED <<allVars, cpu, pending, ticks, lastExt, trap, stale>>

Running  == at # NotBooted
AtDriver == at = Driver

-----------------------------------------------------------------------------
(* The driver. *)

(* vic_call_addr(vic_cpu.pc), a block being there.                          *)
Dispatch ==
  /\ AtDriver
  /\ vic_has_func(cpu.pc)
  /\ at' = [block |-> cpu.pc, line |-> 1]
  /\ UNCHANGED <<allVars, fallback, cpu, fixed, pending, ticks, lastExt, trap, stale>>

(* The fallback interprets the instruction at the PC.                       *)
Fetched ==
  decode(vic_mem_read(cpu, cpu.pc), vic_mem_read(cpu, W(cpu.pc + 1)),
         vic_mem_read(cpu, W(cpu.pc + 2)), cpu.pc)

Interpreted(in) ==
  LET n == RunLine(cpu, [in |-> in, dyn |-> FALSE])
  IN  IF in.cflow \in TransferClasses THEN n ELSE [n EXCEPT !.pc = W(cpu.pc + in.len)]

Fallback ==
  /\ AtDriver
  /\ ~vic_has_func(cpu.pc)
  /\ fallback
  /\ IF Unimplemented(Fetched)
     THEN trap' = TRUE /\ UNCHANGED <<cpu, stale>>
     ELSE Become(Interpreted(Fetched)) /\ UNCHANGED trap
  /\ UNCHANGED <<allVars, fallback, at, fixed, pending, ticks, lastExt>>

(* Without one the address is recorded, and nothing happens.                *)
RecordExternal ==
  /\ AtDriver
  /\ ~vic_has_func(cpu.pc)
  /\ ~fallback
  /\ lastExt' = cpu.pc
  /\ UNCHANGED <<allVars, fallback, cpu, at, fixed, pending, ticks, trap, stale>>

-----------------------------------------------------------------------------
(* A block. *)

InBlockCode == at.block # NoExit

TheLine == code[at.block].lines[at.line]

OnLine == at.line <= Len(code[at.block].lines)

NextLine == [at EXCEPT !.line = @ + 1]

(* A statement that goes on to the next line.                               *)
RunStatement ==
  /\ InBlockCode /\ OnLine
  /\ ~Unimplemented(TheLine.in)
  /\ TheLine.in.cflow \notin TransferClasses
  /\ Become(RunLine(cpu, TheLine))
  /\ at' = NextLine
  /\ UNCHANGED <<allVars, fallback, fixed, pending, ticks, lastExt, trap>>

(* Mutant: a transfer to the start of its own block is a goto in C. *)
RunTransfer_Goto ==
  /\ InBlockCode /\ OnLine
  /\ TheLine.in.cflow \in TransferClasses
  /\ Become(RunLine(cpu, TheLine))
  /\ at' = IF cpu'.pc = at.block THEN [at EXCEPT !.line = 1] ELSE Driver
  /\ UNCHANGED <<allVars, fallback, fixed, pending, ticks, lastExt, trap>>

(* A line that sets the PC and returns to the driver.                       *)
RunTransfer ==
  /\ InBlockCode /\ OnLine
  /\ TheLine.in.cflow \in TransferClasses
  /\ Become(RunLine(cpu, TheLine))
  /\ at' = Driver
  /\ UNCHANGED <<allVars, fallback, fixed, pending, ticks, lastExt, trap>>

(* vic_unimpl: BRK and JAM return, the PC being left as it was; after an    *)
(* undocumented opcode the block goes on.                                   *)
RunUnimplemented ==
  /\ InBlockCode /\ OnLine
  /\ Unimplemented(TheLine.in)
  /\ trap' = TRUE
  /\ at' = IF TheLine.in.mn \in {"BRK", "JAM"} THEN Driver ELSE NextLine
  /\ UNCHANGED <<allVars, fallback, cpu, fixed, pending, ticks, lastExt, stale>>

(* The end of a block that no terminator ends.                              *)
FallThrough ==
  /\ InBlockCode /\ ~OnLine
  /\ cpu' = [cpu EXCEPT !.pc = code[at.block].exit]
  /\ at' = Driver
  /\ UNCHANGED <<allVars, fallback, fixed, pending, ticks, lastExt, trap, stale>>

-----------------------------------------------------------------------------
(* Time and interrupts. *)

(* A peripheral of the host raises the interrupt, or a handler clears it.   *)
SetPending ==
  /\ Running
  /\ ticks < MaxTicks
  /\ pending' = ~pending
  /\ UNCHANGED <<allVars, fallback, cpu, at, fixed, ticks, lastExt, trap, stale>>

(* vic_tick, called by the host between two blocks.                         *)
Tick ==
  /\ AtDriver
  /\ ticks < MaxTicks
  /\ ~(pending /\ cpu.i = 0)
  /\ ticks' = ticks + 1
  /\ UNCHANGED <<allVars, fallback, cpu, at, fixed, pending, lastExt, trap, stale>>

(* Mutant: the interrupt mask is not looked at. *)
TickDeliver_Unmasked ==
  /\ AtDriver
  /\ ticks < MaxTicks
  /\ pending
  /\ ticks' = ticks + 1
  /\ Become(IrqFrame(cpu))
  /\ LET vec == vic_mem_read16(cpu', VIC_VEC_IRQ)
     IN  at' = IF vic_has_func(vec) THEN [block |-> vec, line |-> 1] ELSE Driver
  /\ UNCHANGED <<allVars, fallback, fixed, pending, lastExt, trap>>

(* vic_tick with vic_irq_deliver: the handler's first block is called.      *)
TickDeliver ==
  /\ AtDriver
  /\ ticks < MaxTicks
  /\ pending /\ cpu.i = 0
  /\ ticks' = ticks + 1
  /\ Become(IrqFrame(cpu))
  /\ LET vec == vic_mem_read16(cpu', VIC_VEC_IRQ)
     IN  at' = IF vic_has_func(vec) THEN [block |-> vec, line |-> 1] ELSE Driver
  /\ UNCHANGED <<allVars, fallback, fixed, pending, lastExt, trap>>

-----------------------------------------------------------------------------
Run == \/ Boot \/ Dispatch \/ Fallback \/ RecordExternal
       \/ RunStatement \/ RunTransfer \/ RunUnimplemented \/ FallThrough

Host == SetPending \/ Tick \/ TickDeliver

RecompNext == Recompile \/ Run \/ Host

RecompSpec == RecompInit /\ [][RecompNext]_everything

(* The recompiler runs to its end and the host's driver never stops.        *)
FairRecompSpec == RecompSpec /\ WF_everything(Recompile) /\ WF_everything(Run)

-----------------------------------------------------------------------------
(* Properties. *)

(* The PC of the machine a block is halfway through: that of its next line. *)
VirtualPC ==
  CASE ~InBlockCode -> cpu.pc
    [] InBlockCode /\ OnLine  -> TheLine.in.pc
    [] OTHER -> code[at.block].exit

M == INSTANCE Machine6502 WITH
       m     <- [cpu EXCEPT !.pc = VirtualPC],
       irq   <- pending,
       fixed <- fixed,
       off   <- trap \/ stale

(* The recompiled program is the 6502 program: whatever is compiled, cut at *)
(* leaders, patched at absolute operands or left to the interpreter, every  *)
(* step is one of the machine or none.                                      *)
IsThe6502 == M!Spec

(* C execution always comes back to the driver: no block, whatever the       *)
(* program's loops, keeps it from ticking and from delivering interrupts.    *)
ReturnsToDriver == InBlockCode ~> AtDriver

(* Execution stays in compiled code: a branch, a jump, a call, the end of a  *)
(* cut block and the return of a call find a block, unless they leave the    *)
(* image or enter code that is left to the interpreter.  A return that takes *)
(* from an empty stack and a jump through a pointer may go anywhere.         *)
StepsToBlock ==
  \/ RunTransfer /\ TheLine.in.mode # "ind" /\ (TheLine.in.cflow = "ret" => cpu.s \in 3..253)
  \/ FallThrough

StaysCompiled ==
  [][StepsToBlock =>
       \/ vic_has_func(cpu'.pc)
       \/ ~in_image(cpu'.pc)
       \/ Len(funcs) = MaxFuncs
       \/ \E i \in 1..Len(funcs) : funcs[i].start = cpu'.pc /\ funcs[i].self_mod]_everything

(* recomp_rt.c, of an interrupt: "Push PC + P like the CPU's IRQ sequence,   *)
(* then run the $FFFE handler".                                              *)
IrqRunsHandler ==
  [][TickDeliver => LET vec == vic_mem_read16(cpu', VIC_VEC_IRQ)
                    IN  at'.block = vec \/ cpu'.pc = vec]_everything
=============================================================================
