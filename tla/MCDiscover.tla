----------------------------- MODULE MCDiscover -----------------------------
(* Small programs for the analyzer: every sequence of MaxInsns instructions *)
(* of a palette, operands pointing at each byte of the image and past it.   *)
EXTENDS Discover, Opcodes, SequencesExt

Targets == 0..6

NOPs == {<<234>>}
Ends == {<<96>>, <<0>>}                                        \* RTS, BRK
Branches == {<<208, b>> : b \in {0, 1, 2, 253, 254, 255}}      \* BNE
Jumps == {<<76, t, 0>> : t \in Targets}                        \* JMP t
IndJumps == {<<108, t, 0>> : t \in {1, 3}}                     \* JMP (t)
Calls == {<<32, t, 0>> : t \in Targets}                        \* JSR t

Programs(palette, n) ==
  {FlattenSeq(p) : p \in [1..n -> palette]}

ControlInputs ==
  {[rom |-> p, span |-> Everything, seeds |-> s] :
     p \in Programs(NOPs \cup Ends \cup Branches \cup Jumps \cup IndJumps \cup Calls, 3),
     s \in {<<0>>, <<1, 9>>}}

(* Programs that fill a table of two or three blocks, with more seeds than  *)
(* it holds.                                                                *)
CrowdedInputs ==
  {[rom |-> p, span |-> Everything, seeds |-> s] :
     p \in Programs(NOPs \cup Ends \cup {<<208, b>> : b \in {0, 1, 254}}
                    \cup {<<76, t, 0>> : t \in {0, 2, 4}} \cup {<<32, t, 0>> : t \in {2, 4, 5}}, 3),
     s \in {<<0>>, <<2, 0, 1>>}}

(* JMP ($00FF) at 2: the pointer's high byte is the 1 at address 0, not the *)
(* 0 at address $0100.                                                      *)
PointerInputs ==
  {[rom |-> [i \in 1..288 |-> CASE i = 1 -> 1 [] i = 3 -> 108 [] i = 4 -> 255
                                [] i = 256 -> 16 [] i \in {17, 273} -> 96
                                [] OTHER -> 0],
    span |-> Everything, seeds |-> <<2>>]}
=============================================================================
