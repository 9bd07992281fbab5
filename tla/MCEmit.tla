------------------------------- MODULE MCEmit -------------------------------
(* Small programs for the emitter. *)
EXTENDS Emit, Opcodes, SequencesExt

Programs(palette, n) == {FlattenSeq(p) : p \in [1..n -> palette]}

NOPs == {<<234>>}
Ends == {<<96>>, <<0>>}                                   \* RTS, BRK
Branches == {<<208, b>> : b \in {0, 1, 253, 254}}         \* BNE
Jumps == {<<76, t, 0>> : t \in {0, 3, 4, 6}}           \* JMP t
Calls == {<<32, t, 0>> : t \in {0, 3, 5}}              \* JSR t
Stores == {<<141, t, 0>> : t \in {0, 1, 3, 4, 5}}         \* STA t

IndexedStores == {<<157, t, 0>> : t \in {0, 4}}           \* STA t,X

EdgeInputs ==
  {[rom |-> p, span |-> Everything, seeds |-> <<0>>] :
     p \in Programs(NOPs \cup Ends \cup Branches \cup Jumps \cup Calls \cup Stores
                    \cup IndexedStores, 3)}

(* A program whose last instruction is cut short by the end of the image:   *)
(* BNE +0, and the first byte of a JMP.                                     *)
TruncatedInputs == {[rom |-> <<208, 0, 76>>, span |-> Everything, seeds |-> <<0>>]}

(* LDA #0 and ORA 0, whose operand the STA before it patches.               *)
OperandInputs ==
  {[rom |-> <<141, 4, 0>> \o in \o <<96>>, span |-> Everything, seeds |-> <<0>>] :
     in \in {<<169, 0>>, <<5, 0>>}}
=============================================================================
