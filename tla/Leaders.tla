------------------------------ MODULE Leaders ------------------------------
(***************************************************************************)
(* What function discovery promises (analyze.h: "Recursive-descent         *)
(* function discovery from seeds"): the leaders are the addresses of the   *)
(* image that the roots reach by control transfers, nothing else is taken  *)
(* for one, and none is missed unless Room leaders were found first.  In   *)
(* which order they are found is left open.                                *)
(***************************************************************************)
EXTENDS Image, FiniteSets

CONSTANT Room

VARIABLES
  roots,      \* the addresses discovery starts from
  found,      \* the leaders found so far
  closed      \* discovery has ended

vars == <<rom, span, roots, found, closed>>

Candidates == {a \in roots : in_image(a)} \cup UNION {Successors(l) : l \in found}

Init ==
  /\ rom \in Roms
  /\ span \in Spans
  /\ roots \subseteq Word
  /\ found = {}
  /\ closed = FALSE

Find ==
  /\ ~closed
  /\ \E S \in SUBSET (Candidates \ found) : S # {} /\ found' = found \cup S
  /\ UNCHANGED <<rom, span, roots, closed>>

Close ==
  /\ ~closed
  /\ Candidates \subseteq found \/ Cardinality(found) >= Room
  /\ closed' = TRUE
  /\ UNCHANGED <<rom, span, roots, found>>

Next == Find \/ Close

Spec == Init /\ [][Next]_vars
=============================================================================
