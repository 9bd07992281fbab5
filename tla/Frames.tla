------------------------------- MODULE Frames -------------------------------
(***************************************************************************)
(* The 6502 stack of recompiled code: calls, interrupts and saved registers*)
(* share page one, whose pointer is a byte.  Which frame a return takes is *)
(* decided by nothing but that pointer (recomp_rt.h, recomp_rt.c).         *)
(*                                                                         *)
(* The program is any that returns the way it entered, as properly nested  *)
(* code does: held and frames say what is on the stack and why, and no     *)
(* step of the machine depends on them otherwise.                          *)
(***************************************************************************)
EXTENDS Cpu, Sequences

CONSTANTS
  Depth,      \* bytes the program keeps on the stack at most
  Pcs,        \* where the program calls from, and goes to
  Values,     \* what A and P are loaded with
  Machines    \* the machines the program starts on

IsMachine(mc) ==
  /\ mc \in [a : Byte, x : Byte, y : Byte, s : Byte, pc : Word, n : {0, 1}, v : {0, 1},
             d : {0, 1}, i : {0, 1}, z : {0, 1}, c : {0, 1}, mem : {mc.mem}]
  /\ DOMAIN mc.mem \subseteq Word
  /\ mc.mem \in [DOMAIN mc.mem -> Byte]

(* More than 256 bytes would overwrite the oldest.                          *)
ASSUME FramesAssumption ==
  /\ Depth \in 0..256
  /\ Pcs \subseteq Word /\ Values \subseteq Byte
  /\ \A mc \in Machines : IsMachine(mc)

VARIABLES
  cpu,        \* vic_cpu and vic_ram
  top,        \* the stack pointer at the start
  held,       \* the bytes on the stack, newest last
  frames      \* what they are: kind, the state saved, bytes below

frameVars == <<cpu, top, held, frames>>

Flags(mc) == [n |-> mc.n, v |-> mc.v, d |-> mc.d, i |-> mc.i, z |-> mc.z, c |-> mc.c]

(* What is restored when the frame is popped.                               *)
Frame(kind, pc) ==
  [kind |-> kind, pc |-> pc, a |-> cpu.a, flags |-> Flags(cpu), below |-> Len(held)]

(* The bytes of a frame.  JSR pushes the address of its last byte; the B    *)
(* flag of an interrupt's P is clear.                                       *)
Bytes(f) ==
  CASE f.kind = "call" -> <<Hi(W(f.pc - 1)), Lo(W(f.pc - 1))>>
    [] f.kind = "irq"  -> <<Hi(f.pc), Lo(f.pc), vic_p_pack(f.flags) - 16>>
    [] f.kind = "a"    -> <<f.a>>
    [] f.kind = "p"    -> <<vic_p_pack(f.flags)>>

(* The cell of page one that byte j of held is in. *)
Cell(j) == 256 + B(top - j + 1)

FramesInit ==
  /\ cpu \in Machines
  /\ top = cpu.s
  /\ held = <<>>
  /\ frames = <<>>

Pushed(f) ==
  /\ Len(held) + Len(Bytes(f)) <= Depth
  /\ frames' = Append(frames, f)
  /\ held' = held \o Bytes(f)
  /\ top' = top

(* The statement emitted for a JSR at the PC.                               *)
Call ==
  /\ cpu.pc \in Pcs
  /\ Pushed(Frame("call", W(cpu.pc + 3)))
  /\ \E pc \in Pcs : cpu' = [vic_push16(cpu, W(cpu.pc + 2)) EXCEPT !.pc = pc]

(* vic_irq_deliver, if not masked; its handler then sets the PC.            *)
Interrupt ==
  /\ cpu.i = 0
  /\ Pushed(Frame("irq", cpu.pc))
  /\ \E pc \in Pcs : cpu' = [IrqFrame(cpu) EXCEPT !.pc = pc]

vic_pha ==
  /\ Pushed(Frame("a", cpu.pc))
  /\ cpu' = vic_push(cpu, cpu.a)

vic_php ==
  /\ Pushed(Frame("p", cpu.pc))
  /\ cpu' = vic_push(cpu, vic_p_pack(cpu))

Newest == frames[Len(frames)]

Popped(kind) ==
  /\ frames # <<>>
  /\ Newest.kind = kind
  /\ frames' = SubSeq(frames, 1, Len(frames) - 1)
  /\ held' = SubSeq(held, 1, Newest.below)
  /\ top' = top

Rts     == Popped("call") /\ cpu' = vic_rts_ret(cpu)
Rti     == Popped("irq")  /\ cpu' = vic_rti(cpu)
vic_pla == Popped("a")    /\ cpu' = LoadA(Pulled(cpu), Top(Pulled(cpu)))
vic_plp == Popped("p")    /\ cpu' = vic_p_unpack(Pulled(cpu), Top(Pulled(cpu)))

(* Code in between changes the PC, A and the flags.                         *)
Compute ==
  /\ \E v \in Values, pc \in Pcs : cpu' = vic_p_unpack([cpu EXCEPT !.a = v, !.pc = pc], v)
  /\ UNCHANGED <<top, held, frames>>

FramesNext ==
  \/ Call \/ Interrupt \/ vic_pha \/ vic_php
  \/ Rts \/ Rti \/ vic_pla \/ vic_plp
  \/ Compute

FramesSpec == FramesInit /\ [][FramesNext]_frameVars
-----------------------------------------------------------------------------
(* Properties. *)

(* Page one holds the bytes pushed and not yet pulled, wherever the pointer *)
(* started: it may wrap from $0100 to $01FF between two bytes of a frame.   *)
StackHolds ==
  /\ cpu.s = B(top - Len(held))
  /\ \A j \in 1..Len(held) : vic_mem_read(cpu, Cell(j)) = held[j]

(* A frame is undone by its return: the PC, the flags or A are what they    *)
(* were, and so is the stack pointer, whatever was called, interrupted,     *)
(* saved and restored meanwhile.                                            *)
Restored(f) ==
  /\ f.kind \in {"call", "irq"} => cpu'.pc = f.pc
  /\ f.kind \in {"irq", "p"} => Flags(cpu') = f.flags
  /\ f.kind = "a" => cpu'.a = f.a
  /\ cpu'.s = B(top - f.below)

ReturnsRestore ==
  [][Len(frames') < Len(frames) => Restored(frames[Len(frames)])]_frameVars
=============================================================================
