---------------------------- MODULE Machine6502 ----------------------------
(***************************************************************************)
(* What a recompiled program promises to be: the 6502 that fetches its     *)
(* instructions from memory, one at a time, and takes an interrupt between *)
(* two of them.  The promise ends (off) when an opcode is executed that the*)
(* emitter does not translate, or when one of the bytes in fixed, which    *)
(* were translated ahead of time, is changed: from then on m is free.      *)
(***************************************************************************)
EXTENDS Lines

VARIABLES
  m,        \* the machine
  irq,      \* a peripheral asserts the interrupt line
  fixed,    \* the bytes of code that must not change
  off       \* the promise has ended

vars == <<m, irq, fixed, off>>

Fetched ==
  decode(vic_mem_read(m, m.pc), vic_mem_read(m, W(m.pc + 1)),
         vic_mem_read(m, W(m.pc + 2)), m.pc)

Executed(in) ==
  LET n == RunLine(m, [in |-> in, dyn |-> FALSE])
  IN  IF in.cflow \in TransferClasses THEN n ELSE [n EXCEPT !.pc = W(m.pc + in.len)]

Interrupted ==
  LET n == IrqFrame(m) IN [n EXCEPT !.pc = vic_mem_read16(n, VIC_VEC_IRQ)]

Changes(n) == \E b \in fixed : vic_mem_read(n, b) # vic_mem_read(m, b)

Init ==
  /\ off = FALSE
  /\ irq = FALSE
  /\ fixed = {}

Become(n) ==
  /\ m' = n
  /\ off' = Changes(n)
  /\ UNCHANGED <<irq, fixed>>

Step == ~off /\ ~Unimplemented(Fetched) /\ Become(Executed(Fetched))

Untranslated ==
  /\ ~off /\ Unimplemented(Fetched)
  /\ off' = TRUE

Interrupt == ~off /\ irq /\ m.i = 0 /\ Become(Interrupted)

(* The translation, ahead of time, which decides the bytes that are fixed.  *)
Translate == fixed = {} /\ UNCHANGED <<m, irq, off>>

SetLine == irq' = ~irq /\ UNCHANGED <<m, fixed, off>>

Unspecified == off /\ off' = TRUE

Next == Translate \/ Step \/ Untranslated \/ Interrupt \/ SetLine \/ Unspecified

Spec == Init /\ [][Next]_vars
=============================================================================
