---------------------------- MODULE BlockProofs ----------------------------
(***************************************************************************)
(* Theorems about the blocks that module Discover makes: what a block is   *)
(* made of, that no leader is inside one, and what the passes over its     *)
(* stores find, for every opcode table, image, seeds, capacity and cap.    *)
(* Decoding is recursive, so each lemma about the addresses it reaches     *)
(* argues from a least counterexample.                                     *)
(***************************************************************************)
EXTENDS DiscoverProofs, WellFoundedInduction, FiniteSetTheorems

-----------------------------------------------------------------------------
(* Least elements. *)

Less == OpToRel(<, Nat)

(* The order of the natural numbers is well-founded. *)
LEMMA LessFounded == IsWellFoundedOn(Less, Nat)
BY NatLessThanWellFounded, Zenon DEF Less

(* Less relates a smaller number to a larger one. *)
LEMMA LessIs == \A i, j \in Nat : i < j => <<i, j>> \in Less
BY DEF Less, OpToRel

(* A set of natural numbers has a least element.                           *)
LEMMA Least ==
  ASSUME NEW S, S \subseteq Nat, S # {}
  PROVE  \E n \in S : \A m \in S : n <= m
<1>1. \E x \in S : \A y \in S : ~(<<y, x>> \in Less)
  BY LessFounded, WFMin, Zenon
<1>2. PICK x \in S : \A y \in S : ~(<<y, x>> \in Less)
  BY <1>1
<1>3. ASSUME NEW y \in S PROVE x <= y
  <2>1. ~(<<y, x>> \in Less) /\ x \in Nat /\ y \in Nat
    BY <1>2
  <2>2. ~(y < x)
    BY <2>1, LessIs
  <2>3. QED
    BY <2>1, <2>2
<1>4. QED
  BY <1>3

-----------------------------------------------------------------------------
(* Decoding from an address on. *)

After(a) == a + Insn(a).len

Closed(S) == \A b \in S : After(b) \in S

(* The addresses decoding steps on from s, as if addresses did not wrap. *)
Steps(s) == {a \in Nat : \A S \in SUBSET Nat : s \in S /\ Closed(S) => a \in S}

(* An instruction advances by one to three bytes, at whatever address. *)
LEMMA AfterType ==
  ASSUME NEW a \in Nat
  PROVE  Insn(a).len \in {1, 2, 3} /\ After(a) \in {a + 1, a + 2, a + 3}
<1>1. \A m : mode_len(m) \in {1, 2, 3}
  BY ModeLen
<1>2. Insn(a).len \in {1, 2, 3}
  BY <1>1 DEF Insn, decode
<1>3. QED
  BY <1>2 DEF After

(* Steps(s) starts at s, goes on after each of its addresses, and is the   *)
(* smallest set that does.                                                 *)
LEMMA StepsClosed ==
  ASSUME NEW s \in Nat
  PROVE  /\ s \in Steps(s)
         /\ Steps(s) \subseteq Nat
         /\ \A a \in Steps(s) : After(a) \in Steps(s)
<1>1. ASSUME NEW a \in Steps(s) PROVE After(a) \in Steps(s)
  <2>1. a \in Nat /\ After(a) \in Nat
    BY AfterType DEF Steps
  <2>2. QED
    BY <2>1 DEF Steps, Closed
<1>2. QED
  BY <1>1 DEF Steps

(* Any set that has s and is closed has all that decoding reaches. *)
LEMMA StepsLeast ==
  ASSUME NEW s, NEW S \in SUBSET Nat, s \in S, Closed(S)
  PROVE  Steps(s) \subseteq S
BY DEF Steps

(* Decoding only goes up. *)
LEMMA StepsUp ==
  ASSUME NEW s \in Nat, NEW a \in Steps(s) PROVE a \in Nat /\ s <= a
<1> DEFINE S == {b \in Nat : s <= b}
<1>1. Closed(S)
  BY AfterType DEF Closed
<1>2. Steps(s) \subseteq S
  BY <1>1, StepsLeast
<1>3. QED
  BY <1>2

(* Each address but the first is the one after another. *)
LEMMA StepsBefore ==
  ASSUME NEW s \in Nat, NEW a \in Steps(s), a # s
  PROVE  \E b \in Steps(s) : After(b) = a
<1> SUFFICES ASSUME \A b \in Steps(s) : After(b) # a PROVE FALSE
  OBVIOUS
<1> DEFINE S == Steps(s) \ {a}
<1>1. S \in SUBSET Nat /\ s \in S /\ Closed(S)
  BY StepsClosed DEF Closed
<1>2. a \in S
  BY <1>1, StepsLeast
<1>3. QED
  BY <1>2

(* Instructions decoded from one address do not overlap.                   *)
LEMMA StepsApart ==
  ASSUME NEW s \in Nat, NEW a \in Steps(s), NEW b \in Steps(s), a < b
  PROVE  After(a) <= b
<1> SUFFICES ASSUME ~(After(a) <= b) PROVE FALSE
  OBVIOUS
<1> DEFINE S == {y \in Steps(s) : \E x \in Steps(s) : x < y /\ ~(After(x) <= y)}
<1>1. S \subseteq Nat /\ b \in S
  BY StepsClosed
<1>2. PICK y \in S : \A m \in S : y <= m
  BY <1>1, Least
<1>3. PICK x \in Steps(s) : x < y /\ ~(After(x) <= y)
  BY <1>2
<1>4. x \in Nat /\ y \in Nat /\ y \in Steps(s) /\ s <= x
  BY <1>1, <1>2, <1>3, StepsUp
<1>5. PICK z \in Steps(s) : After(z) = y
  BY <1>3, <1>4, StepsBefore
<1>6. z \in Nat /\ z < y /\ z \notin S
  BY <1>1, <1>2, <1>4, <1>5, AfterType, StepsUp
<1>7. CASE x < z
  BY <1>3, <1>4, <1>5, <1>6, <1>7, AfterType
<1>8. CASE x = z
  BY <1>3, <1>5, <1>8, <1>4
<1>9. CASE z < x
  <2>1. x \notin S
    BY <1>1, <1>2, <1>3, <1>4
  <2>2. After(z) <= x
    BY <1>3, <1>6, <1>9, <2>1
  <2>3. QED
    BY <1>3, <1>4, <1>5, <2>2
<1>10. QED
  BY <1>4, <1>6, <1>7, <1>8, <1>9

(* Decoding from an address that decoding from s reaches joins it.         *)
LEMMA StepsFrom ==
  ASSUME NEW s \in Nat, NEW l \in Steps(s)
  PROVE  Steps(l) = {a \in Steps(s) : l <= a}
<1>0. l \in Nat /\ s <= l
  BY StepsUp
<1>1. Steps(l) \subseteq Steps(s)
  BY StepsClosed, StepsLeast DEF Closed
<1> DEFINE S == {a \in Steps(s) : a < l} \cup Steps(l)
<1>2. Closed(S)
  <2>1. ASSUME NEW a \in Steps(s), a < l PROVE After(a) \in S
    <3>1. After(a) <= l /\ After(a) \in Steps(s) /\ After(a) \in Nat
      BY <2>1, StepsApart, StepsClosed
    <3>2. After(a) < l \/ After(a) = l
      BY <1>0, <3>1
    <3>3. QED
      BY <1>0, <3>1, <3>2, StepsClosed
  <2>2. QED
    BY <1>0, <2>1, StepsClosed DEF Closed
<1>3. s \in S /\ S \in SUBSET Nat
  BY <1>0, StepsClosed
<1>4. Steps(s) \subseteq S
  BY <1>2, <1>3, StepsLeast
<1>5. \A a \in Steps(l) : l <= a
  BY <1>0, StepsUp
<1>6. \A a \in Steps(s) : l <= a => ~(a < l)
  BY <1>0, StepsClosed
<1>7. QED
  BY <1>1, <1>4, <1>5, <1>6

-----------------------------------------------------------------------------
(* Boundaries and LineEnd are recursive functions: what they return.       *)

IsBoundary(h, s, e) ==
  h = [a \in s..e |-> \/ a = s
                      \/ \E b \in (a - 3)..(a - 1) : b >= s /\ b + Insn(b).len = a /\ h[b]]

(* The recursion has a solution, the addresses that decoding reaches. *)
LEMMA BoundaryExists ==
  ASSUME NEW s \in Nat, NEW e \in Nat
  PROVE  IsBoundary([a \in s..e |-> a \in Steps(s)], s, e)
<1> DEFINE g == [a \in s..e |-> a \in Steps(s)]
<1>1. ASSUME NEW a \in s..e
      PROVE  (a \in Steps(s)) =
               \/ a = s
               \/ \E b \in (a - 3)..(a - 1) : b >= s /\ b + Insn(b).len = a /\ g[b]
  <2>1. ASSUME a \in Steps(s), a # s
        PROVE  \E b \in (a - 3)..(a - 1) : b >= s /\ b + Insn(b).len = a /\ g[b]
    <3>1. PICK b \in Steps(s) : After(b) = a
      BY <2>1, StepsBefore
    <3>2. b \in Nat /\ s <= b /\ a \in {b + 1, b + 2, b + 3}
      BY <3>1, StepsUp, AfterType
    <3>3. b \in s..e /\ b \in (a - 3)..(a - 1)
      BY <3>2
    <3>4. QED
      BY <3>1, <3>2, <3>3 DEF After
  <2>2. ASSUME NEW b \in (a - 3)..(a - 1), b >= s, b + Insn(b).len = a, g[b]
        PROVE  a \in Steps(s)
    <3>1. b \in s..e
      BY <2>2
    <3>2. b \in Steps(s)
      BY <2>2, <3>1
    <3>3. QED
      BY <2>2, <3>2, StepsClosed DEF After
  <2>3. s \in Steps(s)
    BY StepsClosed
  <2> DEFINE P == a \in Steps(s)
             Q == \/ a = s
                  \/ \E b \in (a - 3)..(a - 1) : b >= s /\ b + Insn(b).len = a /\ g[b]
  <2>4. P <=> Q
    BY <2>1, <2>2, <2>3
  <2>5. P \in BOOLEAN /\ Q \in BOOLEAN
    OBVIOUS
  <2> HIDE DEF P, Q
  <2>6. P = Q
    BY <2>4, <2>5
  <2>7. QED
    BY <2>6 DEF P, Q
<1>2. QED
  BY <1>1, Zenon DEF IsBoundary

(* It has no other. *)
LEMMA BoundaryUnique ==
  ASSUME NEW s \in Nat, NEW e \in Nat, NEW h, IsBoundary(h, s, e)
  PROVE  \A a \in s..e : h[a] <=> a \in Steps(s)
<1> DEFINE g == [a \in s..e |-> a \in Steps(s)]
           S == {a \in s..e : ~(h[a] <=> g[a])}
<1>1. IsBoundary(g, s, e)
  BY BoundaryExists
<1>2. \A a \in s..e : g[a] <=> a \in Steps(s)
  OBVIOUS
<1>3. \A a \in s..e : h[a] <=>
        (a = s \/ \E b \in (a - 3)..(a - 1) : b >= s /\ b + Insn(b).len = a /\ h[b])
  BY DEF IsBoundary
<1>4. \A a \in s..e : g[a] <=>
        (a = s \/ \E b \in (a - 3)..(a - 1) : b >= s /\ b + Insn(b).len = a /\ g[b])
  BY <1>1 DEF IsBoundary
<1> HIDE DEF g
<1>5. S = {}
  <2> SUFFICES ASSUME S # {} PROVE FALSE
    OBVIOUS
  <2>1. PICK a \in S : \A m \in S : a <= m
    <3>1. S \subseteq Nat
      OBVIOUS
    <3> HIDE DEF S
    <3>2. QED
      BY <3>1, Least
  <2>2. \A b \in (a - 3)..(a - 1) : b >= s => b \in s..e /\ b \notin S
    BY <2>1
  <2>3. \A b \in (a - 3)..(a - 1) : b >= s => (h[b] <=> g[b])
    BY <2>2
  <2>4. QED
    BY <1>3, <1>4, <2>1, <2>3
<1>6. QED
  BY <1>2, <1>5

(* The boundaries of a block are the addresses decoding from its start      *)
(* reaches before its end.                                                  *)
LEMMA BoundariesAre ==
  ASSUME NEW f, f.start \in Nat, f.end \in Nat
  PROVE  Boundaries(f) = {a \in Steps(f.start) : a < f.end}
<1> DEFINE s == f.start
           e == f.end
           at == CHOOSE h : IsBoundary(h, s, e)
<1>1. IsBoundary(at, s, e)
  BY BoundaryExists
<1>2. Boundaries(f) = {a \in s..(e - 1) : at[a]}
  BY DEF Boundaries, at, IsBoundary
<1> HIDE DEF at
<1>3. \A a \in s..e : at[a] <=> a \in Steps(s)
  BY <1>1, BoundaryUnique
<1>4. \A a \in s..(e - 1) : a \in s..e
  OBVIOUS
<1>5. \A a \in Steps(s) : a < e => a \in s..(e - 1)
  BY StepsUp
<1>6. QED
  BY <1>2, <1>3, <1>4, <1>5

(* Only words are in the image. *)
LEMMA InImageWord ==
  ASSUME span \in Spans, NEW a \in Nat, in_image(a) PROVE a \in Word
<1>1. a <= span.hi /\ span.hi \in Word
  BY DEF in_image, Spans
<1>2. QED
  BY <1>1, WordIsInt, Sizes

(* Addresses of whole instructions in the image: the next one is there, or  *)
(* wraps to an address below the image.                                     *)
LEMMA NoWrap ==
  ASSUME NEW a \in Nat, After(a) < WordSize PROVE Next16(a) = After(a)
<1>1. After(a) \in Nat /\ WordSize \in Nat
  BY Sizes, AfterType
<1>2. \A n \in Nat : n < WordSize => n % WordSize = n
  BY <1>1
<1>3. Next16(a) = After(a) % WordSize
  BY DEF Next16, After, W
<1>4. QED
  BY <1>1, <1>2, <1>3

(* The next address follows the instruction, or is below the image. *)
LEMMA NextInImage ==
  ASSUME rom \in Roms, NEW a \in Word, in_image(a), ~Truncated(a)
  PROVE  \/ Next16(a) = After(a) /\ After(a) \in Word
         \/ Next16(a) < Base /\ ~in_image(Next16(a))
<1>1. /\ a \in Nat /\ a < WordSize /\ Base \in Nat /\ Len(rom) \in Nat /\ Len(rom) < WordSize
      /\ After(a) \in Nat /\ After(a) \in {a + 1, a + 2, a + 3}
  BY ConstantTypes, WordIsInt, AfterType, Sizes DEF Roms
<1>2. After(a) <= Base + Len(rom)
  BY <1>1, AfterType DEF Truncated, Off, After
<1>3. CASE After(a) < WordSize
  BY <1>1, <1>3, NoWrap, WordIsInt
<1>4. CASE ~(After(a) < WordSize)
  <2>1. Next16(a) = After(a) - WordSize
    BY <1>1, <1>4, Sizes DEF Next16, After, W
  <2>2. Next16(a) < Base /\ Next16(a) \in Int
    BY <1>1, <1>2, <2>1, Sizes
  <2>3. QED
    BY <1>1, <2>2 DEF in_image
<1>5. QED
  BY <1>3, <1>4

LineNext(l, a) == IF WithinBlock(l, a) /\ Insn(a).cflow = "normal" THEN Next16(a) ELSE a

IsLine(h, l, n) ==
  h = [m \in 0..n |-> IF m = 0 THEN l ELSE LineNext(l, h[m - 1])]

(* The recursion of LineEnd has a solution. *)
LEMMA LineExists ==
  ASSUME NEW l, NEW n \in Nat PROVE \E h : IsLine(h, l, n)
<1> DEFINE S == {m \in Nat : ~ \E h : IsLine(h, l, m)}
<1>1. S = {}
  <2> SUFFICES ASSUME S # {} PROVE FALSE
    OBVIOUS
  <2>1. PICK m \in S : \A i \in S : m <= i
    BY Least
  <2>2. CASE m = 0
    <3>1. IsLine([i \in 0..0 |-> l], l, 0)
      BY DEF IsLine
    <3>2. QED
      BY <2>1, <2>2, <3>1
  <2>3. CASE m # 0
    <3>1. m - 1 \in Nat /\ m - 1 \notin S
      BY <2>1, <2>3
    <3>2. PICK h : IsLine(h, l, m - 1)
      BY <3>1
    <3> DEFINE g == [i \in 0..m |-> IF i = m THEN LineNext(l, h[m - 1]) ELSE h[i]]
    <3>3. h = [i \in 0..(m - 1) |-> IF i = 0 THEN l ELSE LineNext(l, h[i - 1])]
      BY <3>2 DEF IsLine
    <3>4. \A i \in 0..(m - 1) : h[i] = IF i = 0 THEN l ELSE LineNext(l, h[i - 1])
      BY <3>3
    <3>5. \A i \in 0..(m - 1) : i \in 0..m /\ i # m
      BY <3>1
    <3>6. \A i \in 0..m : i # 0 => i - 1 \in 0..(m - 1) /\ (i # m => i \in 0..(m - 1))
      BY <3>1
    <3>7. \A i \in 0..(m - 1) : g[i] = h[i]
      BY <3>5
    <3>8. \A i \in 0..m : g[i] = IF i = 0 THEN l ELSE LineNext(l, g[i - 1])
      <4> TAKE i \in 0..m
      <4>1. CASE i = 0
        <5>1. 0 \in 0..(m - 1)
          BY <3>1
        <5>2. QED
          BY <3>4, <3>7, <4>1, <5>1
      <4>2. CASE i # 0 /\ i # m
        <5>1. i \in 0..(m - 1) /\ i - 1 \in 0..(m - 1)
          BY <3>6, <4>2
        <5>2. QED
          BY <3>4, <3>7, <4>2, <5>1
      <4>3. CASE i = m
        <5>1. i - 1 \in 0..(m - 1) /\ i # 0
          BY <2>3, <3>6, <4>3
        <5>2. g[i - 1] = h[i - 1]
          BY <3>7, <5>1
        <5>3. g[i] = LineNext(l, h[m - 1])
          BY <4>3
        <5>4. QED
          BY <4>3, <5>1, <5>2, <5>3
      <4>4. QED
        BY <4>1, <4>2, <4>3
    <3>9. IsLine(g, l, m)
      <4>1. g = [i \in 0..m |-> g[i]]
        OBVIOUS
      <4> HIDE DEF g
      <4>2. QED
        BY <3>8, <4>1 DEF IsLine
    <3>10. QED
      BY <2>1, <3>9
  <2>4. QED
    BY <2>2, <2>3
<1>2. QED
  BY <1>1

-----------------------------------------------------------------------------
(* The straight line that a scan follows. *)

(* From l to e there are whole instructions within the cap, none of which   *)
(* transfers control.                                                       *)
Straight(l, e) ==
  /\ e \in Steps(l)
  /\ \A a \in Steps(l) : a < e => WithinBlock(l, a) /\ Insn(a).cflow = "normal"

(* The scan from l comes to e, in the end past the top of the address space. *)
ScannedTo(l, e) ==
  \/ Straight(l, e)
  \/ /\ e < Base
     /\ \E a \in Steps(l) :
          /\ Straight(l, a) /\ WithinBlock(l, a)
          /\ Insn(a).cflow = "normal" /\ Next16(a) = e

(* A scan starts on its line. *)
LEMMA LineStart ==
  ASSUME NEW l \in Nat PROVE ScannedTo(l, l)
<1>1. \A a \in Steps(l) : ~(a < l)
  BY StepsUp
<1>2. QED
  BY <1>1, StepsClosed DEF ScannedTo, Straight

(* Above Base the line is straight. *)
LEMMA LineStraight ==
  ASSUME NEW l, NEW e \in Nat, ScannedTo(l, e), ~(e < Base) PROVE Straight(l, e)
BY DEF ScannedTo

(* Past an instruction that does not transfer control the scan stays on it. *)
LEMMA LineStep ==
  ASSUME rom \in Roms, NEW l \in Word, NEW a \in Word,
         Straight(l, a), WithinBlock(l, a), Insn(a).cflow = "normal"
  PROVE  ScannedTo(l, Next16(a))
<1>0. l \in Nat /\ a \in Nat /\ a \in Steps(l) /\ in_image(a) /\ ~Truncated(a)
  BY WordIsInt DEF Straight, WithinBlock
<1>1. CASE Next16(a) = After(a) /\ After(a) \in Word
  <2>1. After(a) \in Steps(l)
    BY <1>0, StepsClosed
  <2>2. ASSUME NEW b \in Steps(l), b < After(a)
        PROVE  WithinBlock(l, b) /\ Insn(b).cflow = "normal"
    <3>1. b \in Nat /\ After(a) \in Nat
      BY <1>0, <2>1, StepsUp
    <3>2. ~(a < b)
      BY <1>0, <2>2, <3>1, StepsApart
    <3>3. b < a \/ b = a
      BY <1>0, <3>1, <3>2
    <3>4. QED
      BY <3>3 DEF Straight
  <2>3. QED
    BY <1>1, <2>1, <2>2 DEF ScannedTo, Straight
<1>2. CASE Next16(a) < Base
  BY <1>0, <1>2 DEF ScannedTo
<1>3. QED
  BY <1>0, <1>1, <1>2, NextInImage

(* One iteration of LineEnd on the line, a being the last address on it     *)
(* before it ends at e.                                                     *)
LEMMA LineAdvances ==
  ASSUME NEW l \in Word, NEW a \in Word, NEW e \in Word, Straight(l, a),
         \/ e = a
         \/ WithinBlock(l, a) /\ Insn(a).cflow = "normal" /\ Next16(a) = e,
         LineNext(l, e) = e,
         NEW b \in Steps(l), b <= a
  PROVE  \/ LineNext(l, b) = e
         \/ LineNext(l, b) \in Steps(l) /\ LineNext(l, b) > b /\ LineNext(l, b) <= a
<1>0. l \in Nat /\ a \in Nat /\ a < WordSize /\ a \in Steps(l) /\ b \in Nat
  BY WordIsInt, StepsUp DEF Straight
<1>1. CASE b < a
  <2>1. WithinBlock(l, b) /\ Insn(b).cflow = "normal"
    BY <1>1 DEF Straight
  <2>2. After(b) <= a /\ After(b) \in Steps(l) /\ After(b) \in Nat /\ After(b) > b
    BY <1>0, <1>1, StepsApart, StepsClosed, AfterType
  <2>3. Next16(b) = After(b)
    BY <1>0, <2>2, NoWrap, Sizes
  <2>4. QED
    BY <2>1, <2>2, <2>3 DEF LineNext
<1>2. CASE b = a
  BY <1>2 DEF LineNext
<1>3. QED
  BY <1>0, <1>1, <1>2

(* LineEnd comes to the end of the line in as many iterations as the cap    *)
(* has bytes.                                                               *)
LEMMA LineReaches ==
  ASSUME NEW l \in Word, NEW a \in Word, NEW e \in Word, Straight(l, a),
         \/ e = a
         \/ WithinBlock(l, a) /\ Insn(a).cflow = "normal" /\ Next16(a) = e,
         LineNext(l, e) = e,
         NEW h, IsLine(h, l, BlockCap),
         NEW n \in 0..BlockCap
  PROVE  h[n] = e \/ (h[n] \in Steps(l) /\ h[n] >= l + n /\ h[n] <= a)
<1> DEFINE Good(m) == h[m] = e \/ (h[m] \in Steps(l) /\ h[m] >= l + m /\ h[m] <= a)
           S == {m \in 0..BlockCap : ~Good(m)}
<1>0. /\ l \in Nat /\ a \in Nat /\ BlockCap \in Nat /\ l \in Steps(l) /\ l <= a
      /\ 0 \in 0..BlockCap
  <2>1. l \in Nat /\ a \in Nat /\ BlockCap \in Nat
    BY WordIsInt, ConstantTypes
  <2>2. QED
    BY <2>1, StepsClosed, StepsUp DEF Straight
<1>1. \A m \in 0..BlockCap : h[m] = IF m = 0 THEN l ELSE LineNext(l, h[m - 1])
  BY DEF IsLine
<1>2. Good(0)
  BY <1>0, <1>1
<1>3. ASSUME NEW m \in 0..BlockCap, m # 0, Good(m - 1) PROVE Good(m)
  <2>1. h[m] = LineNext(l, h[m - 1]) /\ m \in Nat
    BY <1>1, <1>3
  <2>2. CASE h[m - 1] = e
    BY <2>1, <2>2
  <2>3. CASE h[m - 1] \in Steps(l) /\ h[m - 1] >= l + (m - 1) /\ h[m - 1] <= a
    <3> DEFINE b == h[m - 1]
    <3>1. b \in Steps(l) /\ b \in Nat /\ b <= a
      BY <1>0, <2>3, StepsClosed
    <3> HIDE DEF b
    <3>2. \/ LineNext(l, b) = e
          \/ LineNext(l, b) \in Steps(l) /\ LineNext(l, b) > b /\ LineNext(l, b) <= a
      BY <3>1, LineAdvances
    <3>3. ASSUME LineNext(l, b) \in Steps(l), LineNext(l, b) > b, LineNext(l, b) <= a
          PROVE  h[m] \in Steps(l) /\ h[m] >= l + m /\ h[m] <= a
      <4>1. h[m] \in Steps(l) /\ h[m] > b /\ h[m] <= a /\ h[m] \in Nat
        BY <1>0, <2>1, <3>3, StepsClosed DEF b
      <4>2. b >= l + (m - 1)
        BY <2>3 DEF b
      <4>3. QED
        BY <1>0, <2>1, <3>1, <4>1, <4>2
    <3>4. QED
      BY <2>1, <3>2, <3>3 DEF b
  <2>4. QED
    BY <1>3, <2>2, <2>3
<1> HIDE DEF Good
<1>4. S = {}
  <2> SUFFICES ASSUME S # {} PROVE FALSE
    OBVIOUS
  <2>1. S \subseteq Nat
    BY <1>0
  <2>2. PICK m \in S : \A i \in S : m <= i
    <3> HIDE DEF S
    <3>1. QED
      BY <2>1, Least
  <2>3. m # 0
    BY <1>2, <2>2
  <2>4. m - 1 \in 0..BlockCap /\ m - 1 \notin S
    BY <1>0, <2>2, <2>3
  <2>5. QED
    BY <1>3, <2>2, <2>3, <2>4
<1>5. QED
  BY <1>4 DEF Good

(* The straight line from l ends where the scan from l stops.              *)
LEMMA LineEndIs ==
  ASSUME rom \in Roms, span \in Spans, NEW l \in Word, NEW e \in Word, ScannedTo(l, e),
         ~(WithinBlock(l, e) /\ Insn(e).cflow = "normal")
  PROVE  LineEnd(l) = e
<1> DEFINE at == CHOOSE h : IsLine(h, l, BlockCap)
<1>0. l \in Nat /\ BlockCap \in Nat /\ WordSize \in Nat
  BY WordIsInt, ConstantTypes, Sizes
<1>1. IsLine(at, l, BlockCap)
  BY <1>0, LineExists
<1>2. LineEnd(l) = at[BlockCap]
  BY DEF LineEnd, at, IsLine, LineNext
<1>3. LineNext(l, e) = e
  BY DEF LineNext
<1>4. PICK a \in Word :
        /\ Straight(l, a)
        /\ \/ e = a
           \/ WithinBlock(l, a) /\ Insn(a).cflow = "normal" /\ Next16(a) = e
  <2>1. ASSUME NEW a, WithinBlock(l, a), a \in Steps(l) PROVE a \in Word
    <3>1. a \in Nat /\ in_image(a)
      BY <1>0, <2>1, StepsUp DEF WithinBlock
    <3>2. a \in Word
      BY <3>1, InImageWord
    <3>3. QED
      BY <3>2
  <2>2. QED
    BY <2>1 DEF ScannedTo
<1> HIDE DEF at
<1>5. BlockCap \in 0..BlockCap
  BY <1>0
<1>6. \/ at[BlockCap] = e
      \/ at[BlockCap] \in Steps(l) /\ at[BlockCap] >= l + BlockCap /\ at[BlockCap] <= a
  BY <1>1, <1>3, <1>4, <1>5, LineReaches
<1>7. ASSUME NEW b \in Steps(l), b >= l + BlockCap, b <= a PROVE b = a /\ e = a
  <2>1. b \in Nat /\ a \in Nat /\ a < WordSize /\ l <= b
    BY <1>0, StepsUp, WordIsInt
  <2>2. W(b - l) = b - l
    BY <1>0, <1>7, <2>1, Sizes DEF W
  <2>3. ~WithinBlock(l, b)
    BY <1>0, <1>7, <2>1, <2>2 DEF WithinBlock
  <2>4. ~(b < a)
    BY <1>4, <2>3 DEF Straight
  <2>5. b = a
    BY <1>7, <2>1, <2>4
  <2>6. QED
    BY <1>4, <2>3, <2>5
<1>8. QED
  BY <1>2, <1>4, <1>6, <1>7

(* LineEnd stays on the line, and does not come past its end.               *)
LEMMA LineEndScanned ==
  ASSUME rom \in Roms, span \in Spans, NEW l \in Word
  PROVE  LineEnd(l) \in Word /\ ScannedTo(l, LineEnd(l))
<1> DEFINE at == CHOOSE h : IsLine(h, l, BlockCap)
           Good(m) == at[m] \in Word /\ ScannedTo(l, at[m])
           S == {m \in 0..BlockCap : ~Good(m)}
<1>0. l \in Nat /\ BlockCap \in Nat /\ BlockCap \in 0..BlockCap /\ 0 \in 0..BlockCap
  BY WordIsInt, ConstantTypes
<1>1. IsLine(at, l, BlockCap)
  BY <1>0, LineExists
<1>2. LineEnd(l) = at[BlockCap]
  BY DEF LineEnd, at, IsLine, LineNext
<1> HIDE DEF at
<1>3. \A m \in 0..BlockCap : at[m] = IF m = 0 THEN l ELSE LineNext(l, at[m - 1])
  BY <1>1 DEF IsLine
<1>4. Good(0)
  BY <1>0, <1>3, LineStart
<1>5. ASSUME NEW a \in Word, ScannedTo(l, a)
      PROVE  LineNext(l, a) \in Word /\ ScannedTo(l, LineNext(l, a))
  <2>1. CASE WithinBlock(l, a) /\ Insn(a).cflow = "normal"
    <3>1. a \in Nat /\ ~(a < Base)
      BY <2>1, WordIsInt, ConstantTypes DEF WithinBlock, in_image
    <3>2. Straight(l, a)
      BY <1>5, <3>1, LineStraight
    <3>3. Next16(a) \in Word /\ ScannedTo(l, Next16(a))
      BY <2>1, <3>2, LineStep, Next16Type
    <3>4. QED
      BY <2>1, <3>3 DEF LineNext
  <2>2. CASE ~(WithinBlock(l, a) /\ Insn(a).cflow = "normal")
    BY <1>5, <2>2 DEF LineNext
  <2>3. QED
    BY <2>1, <2>2
<1> HIDE DEF Good
<1>6. S = {}
  <2> SUFFICES ASSUME S # {} PROVE FALSE
    OBVIOUS
  <2>1. S \subseteq Nat
    BY <1>0
  <2>2. PICK m \in S : \A i \in S : m <= i
    <3> HIDE DEF S
    <3>1. QED
      BY <2>1, Least
  <2>3. m # 0
    BY <1>4, <2>2
  <2>4. m - 1 \in 0..BlockCap /\ m - 1 \notin S
    BY <1>0, <2>2, <2>3
  <2>5. Good(m - 1)
    BY <2>4
  <2>6. at[m] = LineNext(l, at[m - 1])
    BY <1>3, <2>2, <2>3
  <2>7. Good(m)
    BY <1>5, <2>5, <2>6 DEF Good
  <2>8. QED
    BY <2>2, <2>7
<1>7. QED
  BY <1>0, <1>2, <1>6 DEF Good

-----------------------------------------------------------------------------
(* The invariant of the blocks.                                            *)

(* A block that does not wrap is whole instructions of one straight line,   *)
(* all of them but a last one that transfers control, or falls through to a *)
(* leader or to where no block can go on.                                   *)
Sound(f) ==
  f.start <= f.end =>
    /\ f.end \in Steps(f.start)
    /\ \A a \in Steps(f.start) : a < f.end =>
         /\ WithinBlock(f.start, a)
         /\ Insn(a).cflow = "normal" <=> f.fallthrough \/ After(a) # f.end
    /\ f.fallthrough => f.end \in d.seen \/ ~WithinBlock(f.start, f.end)

Inside  == \A a \in d.seen : in_image(a)
Outside == \A a \in ext : ~in_image(a)
Emptied == ~Discovering => d.work = <<>>
InLine  == phase = "scan" => ScannedTo(fs, addr)
Blocks  == \A i \in 1..Len(funcs) : Sound(funcs[i])

InPasses == phase \in {"split", "stores", "patches"}

(* The cursor of a pass is at an instruction of its block, or at its end.   *)
Cursor ==
  InPasses =>
    \/ Len(funcs) = 0 /\ k = 1
    \/ /\ k <= Len(funcs)
       /\ addr \in Steps(funcs[k].start)
       /\ addr = funcs[k].start \/ addr <= funcs[k].end

BlockInv == /\ IInv
            /\ Inside
            /\ Outside
            /\ Emptied
            /\ InLine
            /\ Blocks
            /\ Cursor

(* No step changes what is analyzed. *)
LEMMA ImageKept ==
  [Next]_vars => rom' = rom /\ span' = span /\ seeds' = seeds
BY DEF Next, Descent, Passes, vars, PushSeed, SeedsDone, PopWork, ScanNormal, ScanCall,
       ScanBranch, ScanJump, ScanStop, ScanRunsOff, AddBlock, WorkDone, BlockDone,
       SplitHere, SplitSkip, ScanStore, MarkPatched

(* What is decoded depends on the image alone. *)
LEMMA SameImage ==
  ASSUME rom' = rom, span' = span
  PROVE  /\ \A a : in_image(a)' <=> in_image(a)
         /\ \A a : Insn(a)' = Insn(a)
         /\ \A a : After(a)' = After(a)
         /\ \A a : Next16(a)' = Next16(a)
         /\ \A l, a : WithinBlock(l, a)' <=> WithinBlock(l, a)
         /\ \A s : Steps(s)' = Steps(s)
         /\ \A l, e : Straight(l, e)' <=> Straight(l, e)
         /\ \A l, e : ScannedTo(l, e)' <=> ScannedTo(l, e)
<1>1. \A a : in_image(a)' <=> in_image(a)
  BY DEF in_image
<1>2. \A a : Insn(a)' = Insn(a)
  BY DEF Insn, RomByte
<1>3. \A a : After(a)' = After(a) /\ Next16(a)' = Next16(a)
  BY <1>2 DEF After, Next16
<1>4. \A l, a : WithinBlock(l, a)' <=> WithinBlock(l, a)
  BY <1>1, <1>2 DEF WithinBlock, Truncated
<1>5. \A s : Steps(s)' = Steps(s)
  <2>1. \A S : Closed(S)' <=> Closed(S)
    BY <1>3 DEF Closed
  <2>2. QED
    BY <2>1 DEF Steps
<1>6. \A l, e : Straight(l, e)' <=> Straight(l, e)
  BY <1>2, <1>4, <1>5 DEF Straight
<1>7. \A l, e : ScannedTo(l, e)' <=> ScannedTo(l, e)
  BY <1>2, <1>3, <1>4, <1>5, <1>6 DEF ScannedTo
<1>8. QED
  BY <1>1, <1>2, <1>3, <1>4, <1>5, <1>6, <1>7

(* A push marks an address of the image only. *)
LEMMA PushSeen ==
  ASSUME NEW dd \in DiscT, NEW a \in Word
  PROVE  /\ dd.seen \subseteq push_func(dd, a).seen
         /\ \A x \in push_func(dd, a).seen : x \in dd.seen \/ in_image(x)
<1>1. \/ push_func(dd, a) = dd
      \/ in_image(a) /\ push_func(dd, a).seen = dd.seen \cup {a}
  BY DEF push_func
<1>2. QED
  BY <1>1

(* An external is recorded once its target was found outside. *)
LEMMA AddExtOutside ==
  ASSUME NEW a, ~in_image(a) PROVE \A x \in add_ext(a) : x \in ext \/ ~in_image(x)
BY DEF add_ext

(* Each step marks addresses of the image and records externals outside it. *)
LEMMA SeenGrows ==
  ASSUME IInv, [Next]_vars
  PROVE  /\ d.seen \subseteq d'.seen
         /\ \A x \in d'.seen : x \in d.seen \/ in_image(x)
         /\ \A x \in ext' : x \in ext \/ ~in_image(x)
<1>0. /\ d \in DiscT /\ rom \in Roms /\ addr \in Word
      /\ Insn(addr).target \in Word /\ Next16(addr) \in Word
      /\ JumpTarget(Insn(addr)) \in Word
  BY InsnType, Next16Type, JumpTargetType DEF IInv, TypeOK, DiscT
<1>1. CASE PushSeed
  <2>1. seeds[k] \in Word
    BY <1>1 DEF PushSeed, IInv, TypeOK
  <2>2. QED
    BY <1>0, <1>1, <2>1, PushSeen DEF PushSeed
<1>2. CASE PopWork
  <2>1. d'.seen = d.seen /\ ext' = ext
    BY <1>0, <1>2 DEF PopWork, DiscT
  <2>2. QED
    BY <2>1
<1>3. CASE ScanCall
  <2> DEFINE t == Insn(addr).target
             e == IF in_image(t) THEN push_func(d, t) ELSE d
  <2>1. d' = push_func(e, Next16(addr)) /\ (ext' = IF in_image(t) THEN ext ELSE add_ext(t))
    BY <1>3 DEF ScanCall
  <2>2. /\ e \in DiscT /\ d.seen \subseteq e.seen
        /\ \A x \in e.seen : x \in d.seen \/ in_image(x)
    BY <1>0, PushSeen, PushFuncType
  <2> HIDE DEF e
  <2>3. /\ e.seen \subseteq d'.seen
        /\ \A x \in d'.seen : x \in e.seen \/ in_image(x)
    BY <1>0, <2>1, <2>2, PushSeen
  <2>4. QED
    BY <2>1, <2>2, <2>3, AddExtOutside
<1>4. CASE ScanBranch
  <2> DEFINE e == push_func(d, Insn(addr).target)
  <2>1. d' = push_func(e, Next16(addr)) /\ ext' = ext
    BY <1>4 DEF ScanBranch
  <2>2. /\ e \in DiscT /\ d.seen \subseteq e.seen
        /\ \A x \in e.seen : x \in d.seen \/ in_image(x)
    BY <1>0, PushSeen, PushFuncType
  <2> HIDE DEF e
  <2>3. /\ e.seen \subseteq d'.seen
        /\ \A x \in d'.seen : x \in e.seen \/ in_image(x)
    BY <1>0, <2>1, <2>2, PushSeen
  <2>4. QED
    BY <2>1, <2>2, <2>3
<1>5. CASE ScanJump
  <2> DEFINE t == JumpTarget(Insn(addr))
  <2>1. d' = push_func(d, t) \/ d' = d
    BY <1>5 DEF ScanJump
  <2>2. ext' = ext \/ (~in_image(t) /\ ext' = add_ext(t))
    BY <1>5 DEF ScanJump
  <2> HIDE DEF t
  <2>3. QED
    BY <1>0, <2>1, <2>2, PushSeen, AddExtOutside DEF t
<1>6. CASE d' = d /\ ext' = ext
  BY <1>6
<1>7. QED
  BY <1>1, <1>2, <1>3, <1>4, <1>5, <1>6
     DEF Next, Descent, Passes, vars, SeedsDone, ScanNormal, ScanStop, ScanRunsOff,
         WorkDone, BlockDone, SplitHere, SplitSkip, ScanStore, MarkPatched

(* A sound block stays so as leaders are found, its flags aside. *)
LEMMA SoundKept ==
  ASSUME rom' = rom, span' = span, d.seen \subseteq d'.seen, NEW f, NEW g, Sound(f),
         g.start = f.start, g.end = f.end, g.fallthrough = f.fallthrough
  PROVE  Sound(g)'
<1>1. Sound(g)' <=>
        (g.start <= g.end =>
          /\ g.end \in Steps(g.start)
          /\ \A a \in Steps(g.start) : a < g.end =>
               /\ WithinBlock(g.start, a)
               /\ Insn(a).cflow = "normal" <=> g.fallthrough \/ After(a) # g.end
          /\ g.fallthrough => g.end \in d'.seen \/ ~WithinBlock(g.start, g.end))
  BY SameImage DEF Sound
<1>2. QED
  BY <1>1 DEF Sound

(* Where a scan is. *)
LEMMA ScanAt ==
  ASSUME BlockInv, phase = "scan"
  PROVE  /\ fs \in Word /\ fs \in Nat /\ addr \in Word /\ addr \in Nat /\ rom \in Roms
         /\ Base \in Nat /\ Base <= fs /\ fs \in d.seen /\ in_image(fs)
         /\ ScannedTo(fs, addr)
         /\ Scanning => /\ Straight(fs, addr) /\ fs <= addr
                        /\ in_image(addr) /\ ~Truncated(addr)
<1>1. /\ fs \in Word /\ fs \in Nat /\ addr \in Word /\ addr \in Nat /\ rom \in Roms
      /\ Base \in Nat
  BY ConstantTypes, WordIsInt DEF BlockInv, IInv, TypeOK
<1>2. fs \in d.seen /\ in_image(fs)
  BY DEF BlockInv, IInv, OnePlace, Placed, InHand, Inside
<1>3. ScannedTo(fs, addr) /\ Base <= fs
  BY <1>1, <1>2 DEF BlockInv, InLine, in_image
<1>4. ASSUME Scanning
      PROVE  Straight(fs, addr) /\ fs <= addr /\ in_image(addr) /\ ~Truncated(addr)
  <2>1. in_image(addr) /\ ~Truncated(addr)
    BY <1>4 DEF Scanning, WithinBlock
  <2>2. ~(addr < Base)
    BY <1>1, <2>1 DEF in_image
  <2>3. Straight(fs, addr)
    BY <1>1, <1>3, <2>2, LineStraight
  <2>4. QED
    BY <1>1, <2>1, <2>3, StepsUp DEF Straight
<1>5. QED
  BY <1>1, <1>2, <1>3, <1>4

(* A block that ends in a transfer is sound. *)
LEMMA TransferSound ==
  ASSUME BlockInv, phase = "scan", Scanning, Insn(addr).cflow # "normal",
         NEW g, g.start = fs, g.end = Next16(addr), g.fallthrough = FALSE
  PROVE  Sound(g)
<1> SUFFICES ASSUME fs <= Next16(addr) PROVE Sound(g)
  BY DEF Sound
<1>1. /\ fs \in Nat /\ addr \in Word /\ addr \in Nat /\ rom \in Roms /\ Base \in Nat
      /\ Base <= fs /\ Straight(fs, addr) /\ in_image(addr) /\ ~Truncated(addr)
  BY ScanAt
<1>2. Next16(addr) \in Word
  BY <1>1, Next16Type
<1>3. Next16(addr) = After(addr) /\ After(addr) \in Nat
  <2>1. ~(Next16(addr) < Base)
    BY <1>1, <1>2, WordIsInt
  <2>2. QED
    BY <1>1, <2>1, NextInImage, AfterType
<1>4. addr \in Steps(fs) /\ After(addr) \in Steps(fs) /\ addr < After(addr)
  BY <1>1, StepsClosed, AfterType DEF Straight
<1>5. ASSUME NEW a \in Steps(fs), a < After(addr)
      PROVE  /\ WithinBlock(fs, a)
             /\ Insn(a).cflow = "normal" <=> After(a) # After(addr)
  <2>1. a \in Nat /\ ~(addr < a)
    BY <1>1, <1>3, <1>4, <1>5, StepsUp, StepsApart
  <2>2. CASE a = addr
    BY <2>2 DEF Scanning
  <2>3. CASE a < addr
    <3>1. WithinBlock(fs, a) /\ Insn(a).cflow = "normal"
      BY <1>1, <2>3 DEF Straight
    <3>2. After(a) <= addr /\ After(a) \in Nat
      BY <1>1, <1>4, <2>1, <2>3, StepsApart, AfterType
    <3>3. QED
      BY <1>1, <1>3, <1>4, <3>1, <3>2
  <2>4. QED
    BY <1>1, <2>1, <2>2, <2>3
<1>6. QED
  BY <1>3, <1>4, <1>5 DEF Sound

(* A block that runs off the image or the cap is sound. *)
LEMMA RunsOffSound ==
  ASSUME BlockInv, phase = "scan", ~Scanning,
         NEW g, g.start = fs, g.end = addr, g.fallthrough = TRUE
  PROVE  Sound(g)
<1> SUFFICES ASSUME fs <= addr PROVE Sound(g)
  BY DEF Sound
<1>1. /\ fs \in Nat /\ addr \in Nat /\ Base \in Nat /\ Base <= fs /\ ScannedTo(fs, addr)
  BY ScanAt
<1>2. Straight(fs, addr)
  BY <1>1, LineStraight
<1>3. QED
  BY <1>2 DEF Sound, Straight, Scanning

(* A new block joins the sound ones. *)
LEMMA AddSound ==
  ASSUME BlockInv, rom' = rom, span' = span, d.seen \subseteq d'.seen,
         NEW e, NEW r, NEW f, AddBlock(e, r, f),
         \A g : g.start = fs /\ g.end = e /\ g.fallthrough = f => Sound(g)
  PROVE  Blocks'
<1> DEFINE b == [start |-> fs, end |-> e, reaches_ret |-> r,
                 fallthrough |-> f, self_mod |-> FALSE]
<1>1. funcs' = Append(funcs, b) /\ funcs \in Seq(Block) /\ Len(funcs) \in Nat
  BY DEF AddBlock, BlockInv, IInv, TypeOK
<1>2. b.start = fs /\ b.end = e /\ b.fallthrough = f
  OBVIOUS
<1>3. Sound(b)
  BY <1>2
<1> HIDE DEF b
<1>4. /\ Len(funcs') = Len(funcs) + 1
      /\ \A i \in 1..Len(funcs) : funcs'[i] = funcs[i]
      /\ funcs'[Len(funcs) + 1] = b
  BY <1>1
<1>5. \A i \in 1..Len(funcs') : Sound(funcs'[i])
  BY <1>1, <1>3, <1>4 DEF BlockInv, Blocks
<1>6. \A g : Sound(g) => Sound(g)'
  BY SoundKept
<1>7. QED
  BY <1>5, <1>6 DEF Blocks

(* Where a pass is: at an instruction of its block, which does not wrap.    *)
LEMMA PassAt ==
  ASSUME BlockInv, InPasses, InPass
  PROVE  LET f == funcs[k]
         IN  /\ k \in 1..Len(funcs) /\ f \in Block /\ rom \in Roms
             /\ f.start \in Nat /\ f.end \in Nat /\ f.end \in Word
             /\ addr \in Nat /\ addr \in Word
             /\ f.start <= addr /\ addr < f.end
             /\ addr \in Steps(f.start) /\ f.end \in Steps(f.start)
             /\ Next16(addr) = After(addr)
             /\ After(addr) \in Steps(f.start) /\ After(addr) \in Nat
             /\ After(addr) <= f.end /\ addr < After(addr)
             /\ Sound(f)
<1> DEFINE f == funcs[k]
<1>1. k \in 1..Len(funcs) /\ f \in Block
  BY BlockInPass DEF BlockInv, IInv
<1>2. f.start \in Word /\ f.end \in Word /\ addr \in Word /\ rom \in Roms
  BY <1>1 DEF BlockInv, IInv, TypeOK, Block
<1>3. f.start \in Nat /\ f.end \in Nat /\ f.end < WordSize /\ addr \in Nat /\ WordSize \in Nat
  BY <1>2, WordIsInt, Sizes
<1>4. addr < f.end
  BY DEF InPass
<1>5. Sound(f)
  BY <1>1 DEF BlockInv, Blocks
<1>6. addr \in Steps(f.start)
  <2>1. Len(funcs) # 0
    BY <1>1 DEF BlockInv, IInv, TypeOK
  <2>2. QED
    BY <2>1 DEF BlockInv, Cursor
<1> HIDE DEF f
<1>7. f.start <= addr /\ f.start <= f.end
  BY <1>3, <1>4, <1>6, StepsUp
<1>8. f.end \in Steps(f.start)
  BY <1>5, <1>7 DEF Sound
<1>9. After(addr) \in Steps(f.start) /\ After(addr) \in Nat /\ After(addr) <= f.end
      /\ addr < After(addr)
  BY <1>3, <1>4, <1>6, <1>8, StepsClosed, StepsApart, AfterType
<1>10. Next16(addr) = After(addr)
  BY <1>3, <1>9, NoWrap
<1>11. QED
  BY <1>1, <1>2, <1>3, <1>4, <1>5, <1>6, <1>7, <1>8, <1>9, <1>10 DEF f

(* A block cut at a leader is sound. *)
LEMMA CutSound ==
  ASSUME BlockInv, InPasses, InPass, Next16(addr) \in d.seen, Next16(addr) < funcs[k].end,
         NEW g, g.start = funcs[k].start, g.end = Next16(addr), g.fallthrough = TRUE
  PROVE  Sound(g)
<1> DEFINE f == funcs[k]
           n == After(addr)
<1>1. /\ f.start \in Nat /\ f.end \in Nat /\ addr \in Nat /\ n \in Nat
      /\ f.start <= addr /\ addr < f.end /\ n \in Steps(f.start) /\ f.end \in Steps(f.start)
      /\ Next16(addr) = n /\ Sound(f)
  BY PassAt
<1> HIDE DEF f, n
<1>2. ASSUME NEW a \in Steps(f.start), a < n
      PROVE  WithinBlock(f.start, a) /\ Insn(a).cflow = "normal"
  <2>1. a \in Nat /\ n < f.end
    BY <1>1, StepsUp DEF f, n
  <2>2. After(a) <= n /\ After(a) \in Nat
    BY <1>1, <1>2, StepsApart, <2>1, AfterType
  <2>3. After(a) # f.end /\ a < f.end /\ f.start <= f.end
    BY <1>1, <1>2, <2>1, <2>2
  <2>4. QED
    BY <1>1, <2>3 DEF Sound
<1>3. g.start = f.start /\ g.end = n /\ n \in d.seen
  BY <1>1 DEF f
<1>4. QED
  BY <1>1, <1>2, <1>3 DEF Sound

(* The table after a step that moves no start. *)
SameStarts == /\ Len(funcs') = Len(funcs)
              /\ \A i \in 1..Len(funcs) : funcs'[i].start = funcs[i].start

(* ... and no end either. *)
SameExtents ==
  /\ Len(funcs') = Len(funcs)
  /\ \A i \in 1..Len(funcs) : /\ funcs'[i].start = funcs[i].start
                              /\ funcs'[i].end = funcs[i].end
                              /\ funcs'[i].fallthrough = funcs[i].fallthrough

(* A cursor at the start of a block. *)
LEMMA CursorAtStart ==
  ASSUME TypeOK, SameStarts, rom' = rom, span' = span,
         \/ Len(funcs) = 0 /\ k' = 1
         \/ k' \in 1..Len(funcs) /\ addr' = funcs[k'].start
  PROVE  Cursor'
<1>1. CASE Len(funcs) = 0 /\ k' = 1
  BY <1>1 DEF Cursor, SameStarts
<1>2. CASE k' \in 1..Len(funcs) /\ addr' = funcs[k'].start
  <2>1. funcs[k'] \in Block
    BY <1>2 DEF TypeOK
  <2>2. funcs[k'].start \in Nat
    BY <2>1, WordIsInt DEF Block
  <2>3. k' <= Len(funcs') /\ addr' = funcs'[k'].start
    BY <1>2 DEF SameStarts
  <2>4. addr' \in Steps(addr')
    BY <1>2, <2>2, StepsClosed
  <2>5. (addr \in Steps(funcs[k].start))'
    BY <2>3, <2>4, SameImage
  <2>6. QED
    BY <2>3, <2>5 DEF Cursor
<1>3. QED
  BY <1>1, <1>2

(* A table without blocks, or with a first one. *)
LEMMA FirstBlock ==
  ASSUME TypeOK
  PROVE  \/ Len(funcs) = 0 /\ FirstAddr = 0
         \/ 1 \in 1..Len(funcs) /\ FirstAddr = funcs[1].start
BY DEF FirstAddr, TypeOK

(* The passes go on at a start. *)
LEMMA CursorNextBlock ==
  ASSUME BlockInv, InPasses, NextBlock, SameStarts, rom' = rom, span' = span
  PROVE  Cursor'
<1>1. TypeOK /\ funcs \in Seq(Block) /\ Len(funcs) \in Nat /\ k \in Nat \ {0}
  BY DEF BlockInv, IInv, TypeOK
<1>2. CASE k < Len(funcs)
  <2>1. k' \in 1..Len(funcs) /\ addr' = funcs[k'].start
    BY <1>1, <1>2 DEF NextBlock
  <2>2. QED
    BY <1>1, <2>1, CursorAtStart
<1>3. CASE ~(k < Len(funcs))
  <2>1. k' = 1 /\ addr' = FirstAddr
    BY <1>3 DEF NextBlock
  <2>2. CASE Len(funcs) = 0
    BY <1>1, <2>1, <2>2, CursorAtStart
  <2>3. CASE 1 \in 1..Len(funcs) /\ FirstAddr = funcs[1].start
    BY <1>1, <2>1, <2>3, CursorAtStart
  <2>4. QED
    BY <1>1, <2>2, <2>3, FirstBlock
<1>4. QED
  BY <1>2, <1>3

(* Within a block a pass goes on at the next instruction. *)
LEMMA CursorNextInsn ==
  ASSUME BlockInv, InPasses, InPass, NextInsn, SameExtents, rom' = rom, span' = span
  PROVE  Cursor'
<1> DEFINE f == funcs[k]
<1>1. /\ k \in 1..Len(funcs) /\ Next16(addr) = After(addr) /\ After(addr) <= f.end
      /\ After(addr) \in Steps(f.start) /\ f.start <= addr /\ addr < After(addr)
      /\ f.start \in Nat /\ addr \in Nat /\ After(addr) \in Nat
  BY PassAt
<1>2. addr' = After(addr) /\ k' = k
  BY <1>1 DEF NextInsn
<1>3. f.start = funcs'[k'].start /\ f.end = funcs'[k'].end /\ k' <= Len(funcs')
  BY <1>1, <1>2 DEF SameExtents
<1> HIDE DEF f
<1>4. addr' <= f.end
  BY <1>1, <1>2
<1>5. (addr \in Steps(funcs[k].start))'
  BY <1>1, <1>2, <1>3, SameImage
<1>6. QED
  BY <1>3, <1>4, <1>5 DEF Cursor

(* A step that leaves the extents of the blocks keeps them sound. *)
LEMMA BlocksKept ==
  ASSUME BlockInv, rom' = rom, span' = span, d.seen \subseteq d'.seen, SameExtents
  PROVE  Blocks'
<1>1. \A i \in 1..Len(funcs) : Sound(funcs[i])
  BY DEF BlockInv, Blocks
<1>2. \A f, g :
        Sound(f) /\ g.start = f.start /\ g.end = f.end /\ g.fallthrough = f.fallthrough
          => Sound(g)'
  BY SoundKept
<1>3. QED
  BY <1>1, <1>2 DEF Blocks, SameExtents

(* The table after a step of the self-modification passes.                 *)
LEMMA MarkExtents ==
  ASSUME TypeOK, ScanStore \/ MarkPatched
  PROVE  SameExtents
<1>0. funcs \in Seq(Block) /\ Len(funcs) \in Nat
      /\ \A i \in 1..Len(funcs) : funcs[i] \in Block
  BY DEF TypeOK
<1>1. CASE ScanStore
  <2> DEFINE mark(g) == IF InBlock(Insn(addr).operand, funcs[g])
                        THEN [funcs[g] EXCEPT !.self_mod = TRUE] ELSE funcs[g]
  <2>1. \A g \in 1..Len(funcs) :
          /\ mark(g).start = funcs[g].start /\ mark(g).end = funcs[g].end
          /\ mark(g).fallthrough = funcs[g].fallthrough
    BY <1>0 DEF Block
  <2>2. funcs' = [g \in 1..Len(funcs) |-> mark(g)] \/ funcs' = funcs
    BY <1>1 DEF ScanStore
  <2> HIDE DEF mark
  <2>3. QED
    BY <1>0, <2>1, <2>2 DEF SameExtents
<1>2. CASE MarkPatched
  <2>1. k \in 1..Len(funcs) /\ funcs[k] \in Block
    BY <1>2, BlockInPass DEF MarkPatched
  <2> DEFINE b == [funcs[k] EXCEPT !.self_mod = TRUE]
  <2>2. b.start = funcs[k].start /\ b.end = funcs[k].end /\ b.fallthrough = funcs[k].fallthrough
    BY <2>1 DEF Block
  <2>3. funcs' = [funcs EXCEPT ![k] = b] \/ funcs' = funcs
    BY <1>2 DEF MarkPatched
  <2> HIDE DEF b
  <2>4. QED
    BY <1>0, <2>1, <2>2, <2>3 DEF SameExtents
<1>3. QED
  BY <1>1, <1>2

(* The table after a cut: block k ends at the leader, the others are as     *)
(* before.                                                                  *)
LEMMA CutTable ==
  ASSUME TypeOK, SplitHere
  PROVE  /\ SameStarts
         /\ k \in 1..Len(funcs)
         /\ funcs'[k].start = funcs[k].start
         /\ funcs'[k].end = Next16(addr)
         /\ funcs'[k].fallthrough = TRUE
         /\ \A i \in 1..Len(funcs) : i # k => funcs'[i] = funcs[i]
<1>0. funcs \in Seq(Block) /\ Len(funcs) \in Nat
  BY DEF TypeOK
<1>1. k \in 1..Len(funcs) /\ funcs[k] \in Block
  BY BlockInPass DEF SplitHere
<1> DEFINE b == [funcs[k] EXCEPT !.end = Next16(addr), !.fallthrough = TRUE,
                                 !.reaches_ret = FALSE]
<1>2. b.start = funcs[k].start /\ b.end = Next16(addr) /\ b.fallthrough = TRUE
  BY <1>1 DEF Block
<1>3. funcs' = [funcs EXCEPT ![k] = b]
  BY DEF SplitHere
<1> HIDE DEF b
<1>4. /\ Len(funcs') = Len(funcs) /\ funcs'[k] = b
      /\ \A i \in 1..Len(funcs) : i # k => funcs'[i] = funcs[i]
  BY <1>0, <1>1, <1>3
<1>5. QED
  BY <1>1, <1>2, <1>4 DEF SameStarts

(* The blocks stay sound. *)
LEMMA BlocksStep ==
  ASSUME BlockInv, [Next]_vars PROVE Blocks'
<1>0. /\ rom' = rom /\ span' = span /\ d.seen \subseteq d'.seen /\ TypeOK
      /\ Len(funcs) \in Nat
  BY ImageKept, SeenGrows DEF BlockInv, IInv, TypeOK
<1>1. CASE funcs' = funcs
  BY <1>0, <1>1, BlocksKept DEF SameExtents
<1>2. CASE ScanCall \/ ScanBranch \/ ScanJump \/ ScanStop
  <2>1. PICK r : AddBlock(Next16(addr), r, FALSE)
    BY <1>2 DEF ScanCall, ScanBranch, ScanJump, ScanStop
  <2>2. phase = "scan" /\ Scanning /\ Insn(addr).cflow # "normal"
    BY <1>2 DEF ScanCall, ScanBranch, ScanJump, ScanStop
  <2>3. QED
    BY <1>0, <2>1, <2>2, TransferSound, AddSound
<1>3. CASE ScanRunsOff
  <2>1. AddBlock(addr, FALSE, TRUE) /\ phase = "scan" /\ ~Scanning
    BY <1>3 DEF ScanRunsOff
  <2>2. QED
    BY <1>0, <2>1, RunsOffSound, AddSound
<1>4. CASE SplitHere
  <2>1. /\ phase = "split" /\ InPass
        /\ Next16(addr) \in d.seen /\ Next16(addr) < funcs[k].end
    BY <1>4 DEF SplitHere, LeaderNext
  <2>2. InPasses
    BY <2>1 DEF InPasses
  <2>3. /\ k \in 1..Len(funcs) /\ Len(funcs') = Len(funcs)
        /\ funcs'[k].start = funcs[k].start
        /\ funcs'[k].end = Next16(addr)
        /\ funcs'[k].fallthrough = TRUE
        /\ \A i \in 1..Len(funcs) : i # k => funcs'[i] = funcs[i]
    BY <1>0, <1>4, CutTable DEF SameStarts
  <2>4. Sound(funcs'[k])
    BY <2>1, <2>2, <2>3, CutSound
  <2>5. \A i \in 1..Len(funcs') : Sound(funcs'[i])
    BY <2>3, <2>4 DEF BlockInv, Blocks
  <2>6. \A g : Sound(g) => Sound(g)'
    BY <1>0, SoundKept
  <2>7. QED
    BY <2>5, <2>6 DEF Blocks
<1>5. CASE ScanStore \/ MarkPatched
  BY <1>0, <1>5, MarkExtents, BlocksKept
<1>6. QED
  BY <1>1, <1>2, <1>3, <1>4, <1>5
     DEF Next, Descent, Passes, vars, PushSeed, SeedsDone, PopWork, ScanNormal, WorkDone,
         BlockDone, SplitSkip

(* The cursor of a pass stays on instructions. *)
LEMMA CursorStep ==
  ASSUME BlockInv, [Next]_vars PROVE Cursor'
<1>0. rom' = rom /\ span' = span /\ TypeOK /\ Len(funcs) \in Nat
  BY ImageKept DEF BlockInv, IInv, TypeOK
<1>1. CASE ~InPasses'
  BY <1>1 DEF Cursor
<1>2. CASE WorkDone
  <2>1. funcs' = funcs /\ k' = 1 /\ addr' = FirstAddr
    BY <1>2 DEF WorkDone
  <2>2. QED
    BY <1>0, <2>1, FirstBlock, CursorAtStart DEF SameStarts
<1>3. CASE BlockDone
  BY <1>0, <1>3, CursorNextBlock DEF BlockDone, SameStarts, InPasses
<1>4. CASE SplitHere
  BY <1>0, <1>4, CutTable, CursorNextBlock DEF SplitHere, InPasses
<1>5. CASE SplitSkip \/ ScanStore \/ MarkPatched
  <2>1. SameExtents
    BY <1>0, <1>5, MarkExtents DEF SplitSkip, SameExtents
  <2>2. InPasses /\ InPass /\ NextInsn
    BY <1>5 DEF SplitSkip, ScanStore, MarkPatched, InPasses
  <2>3. QED
    BY <1>0, <2>1, <2>2, CursorNextInsn
<1>6. CASE UNCHANGED vars
  <2>1. UNCHANGED <<phase, funcs, k, addr>>
    BY <1>6 DEF vars
  <2>2. (addr \in Steps(funcs[k].start))' <=> addr \in Steps(funcs[k].start)
    BY <1>0, <2>1, SameImage
  <2>3. QED
    BY <2>1, <2>2 DEF BlockInv, Cursor, InPasses
<1>7. QED
  BY <1>1, <1>2, <1>3, <1>4, <1>5, <1>6
     DEF Next, Descent, Passes, PushSeed, SeedsDone, PopWork, ScanNormal, ScanCall,
         ScanBranch, ScanJump, ScanStop, ScanRunsOff, AddBlock, InPasses

(* A scan stays on its line. *)
LEMMA InLineStep ==
  ASSUME BlockInv, [Next]_vars PROVE InLine'
<1>0. rom' = rom /\ span' = span /\ TypeOK
  BY ImageKept DEF BlockInv, IInv
<1>1. CASE phase' # "scan"
  BY <1>1 DEF InLine
<1>2. CASE PopWork
  <2> DEFINE n == Len(d.work)
  <2>1. d.work \in Seq(Word) /\ d.work # <<>>
    BY <1>0, <1>2 DEF PopWork, TypeOK
  <2>2. n \in 1..Len(d.work)
    BY <2>1
  <2>3. d.work[n] \in Nat
    BY <2>1, <2>2, WordIsInt
  <2>4. (phase' = phase /\ phase = "work") \/ (fs' = d.work[n] /\ addr' = d.work[n])
    BY <1>2 DEF PopWork
  <2>5. ScannedTo(d.work[n], d.work[n])
    BY <2>3, LineStart
  <2>6. phase' # "scan" \/ ScannedTo(fs, addr)'
    BY <1>0, <2>4, <2>5, SameImage
  <2>7. QED
    BY <2>6 DEF InLine
<1>3. CASE ScanNormal
  <2>1. /\ phase = "scan" /\ Scanning /\ Insn(addr).cflow = "normal"
        /\ addr' = Next16(addr) /\ fs' = fs
    BY <1>3 DEF ScanNormal
  <2>2. ScannedTo(fs, Next16(addr))
    BY <2>1, ScanAt, LineStep DEF Scanning
  <2>3. ScannedTo(fs, addr)'
    BY <1>0, <2>1, <2>2, SameImage
  <2>4. QED
    BY <2>3 DEF InLine
<1>4. CASE UNCHANGED vars
  <2>1. UNCHANGED <<phase, fs, addr>>
    BY <1>4 DEF vars
  <2>2. ScannedTo(fs, addr)' <=> ScannedTo(fs, addr)
    BY <1>0, <2>1, SameImage
  <2>3. QED
    BY <2>1, <2>2 DEF BlockInv, InLine
<1>5. QED
  BY <1>1, <1>2, <1>3, <1>4, NextBlockPhase
     DEF Next, Descent, Passes, PushSeed, SeedsDone, ScanCall, ScanBranch, ScanJump,
         ScanStop, ScanRunsOff, AddBlock, WorkDone, BlockDone, SplitHere, SplitSkip,
         ScanStore, MarkPatched

(* The passes begin once the work is done, and push nothing. *)
LEMMA EmptiedStep ==
  ASSUME BlockInv, [Next]_vars PROVE Emptied'
<1>1. \/ phase' \in {"seed", "work", "scan"}
      \/ d' = d /\ (d.work = <<>> \/ ~Discovering)
  BY DEF Next, Descent, Passes, vars, PushSeed, SeedsDone, PopWork, ScanNormal, ScanCall,
         ScanBranch, ScanJump, ScanStop, ScanRunsOff, AddBlock, WorkDone, BlockDone,
         SplitHere, SplitSkip, ScanStore, MarkPatched, Discovering
<1>2. QED
  BY <1>1 DEF BlockInv, Emptied, Discovering

(* The invariant of the blocks is one. *)
LEMMA BeginBlocks == Begin /\ TypeOK => BlockInv
<1> SUFFICES ASSUME Begin, TypeOK PROVE BlockInv
  OBVIOUS
<1>1. IInv /\ d.seen = {} /\ ext = {} /\ funcs = <<>> /\ phase = "seed"
  BY BeginPlaced DEF Begin
<1>2. Inside /\ Outside /\ Emptied /\ InLine /\ Blocks /\ Cursor
  BY <1>1 DEF Inside, Outside, Emptied, Discovering, InLine, Blocks, Cursor, InPasses
<1>3. QED
  BY <1>1, <1>2 DEF BlockInv

(* No block is there at first. *)
LEMMA BlockInit == Init => BlockInv
BY BeginBlocks, TypeInit DEF Init

(* Each step keeps the invariant of the blocks. *)
LEMMA BlockStep == BlockInv /\ [Next]_vars => BlockInv'
<1> SUFFICES ASSUME BlockInv, [Next]_vars PROVE BlockInv'
  OBVIOUS
<1>1. IInv'
  BY PlacedStep DEF BlockInv
<1>2. Inside' /\ Outside'
  <2>1. \A a : in_image(a)' <=> in_image(a)
    BY ImageKept, SameImage
  <2>2. QED
    BY <2>1, SeenGrows DEF BlockInv, Inside, Outside
<1>3. Emptied' /\ InLine' /\ Blocks' /\ Cursor'
  BY EmptiedStep, InLineStep, BlocksStep, CursorStep
<1>4. QED
  BY <1>1, <1>2, <1>3 DEF BlockInv

(* The invariant of the blocks is one of the specification. *)
LEMMA BlocksInvariant == Spec => []BlockInv
BY BlockInit, BlockStep, PTL DEF Spec

(* The invariant implies the property. *)
LEMMA ExternalsAre == BlockInv => ExternalsOutside
BY DEF BlockInv, Inside, Outside, ExternalsOutside

(* No block is ever made for an address that was recorded as external.     *)
THEOREM ExternalsStayOutside == Spec => []ExternalsOutside
BY ExternalsAre, BlocksInvariant, PTL

-----------------------------------------------------------------------------
(* What the passes have done when they are done.                           *)

(* The cursor has not gone past instruction a of block i. *)
Ahead(i, a) == i > k \/ (i = k /\ a >= addr)

(* No leader is left inside the part of the table that was split.          *)
SplitDone ==
  phase \in {"split", "stores", "patches", "analyzed"} =>
    \A i \in Unwrapped : \A a \in Boundaries(funcs[i]) \cap d.seen :
      \/ a = funcs[i].start
      \/ phase = "split" /\ Ahead(i, a) /\ ~(i = k /\ a = addr)

StoreOnCode(a) ==
  is_store(Insn(a)) /\ Insn(a).mode = "abs" /\ in_code(Insn(a).operand)

(* What absolute stores patch is known of the part that was searched.      *)
StoresDone ==
  phase \in {"stores", "patches", "analyzed"} =>
    \A i \in Unwrapped : \A a \in Boundaries(funcs[i]) :
      StoreOnCode(a) =>
        \/ Insn(a).operand \in patched
        \/ phase = "stores" /\ Ahead(i, a)

(* The blocks that cannot be compiled are marked up to the cursor.         *)
PatchesDone ==
  phase \in {"patches", "analyzed"} =>
    \A i \in Unwrapped : \A a \in Boundaries(funcs[i]) :
      CannotRecompile(a) =>
        \/ funcs[i].self_mod
        \/ phase = "patches" /\ Ahead(i, a)

PassInv == /\ BlockInv
           /\ SplitDone
           /\ StoresDone
           /\ PatchesDone

(* The boundaries of a block of the table. *)
LEMMA BlockBoundaries ==
  ASSUME TypeOK, NEW i \in 1..Len(funcs)
  PROVE  /\ funcs[i] \in Block /\ funcs[i].start \in Nat /\ funcs[i].end \in Nat
         /\ Boundaries(funcs[i]) = {a \in Steps(funcs[i].start) : a < funcs[i].end}
<1>1. funcs[i] \in Block
  BY DEF TypeOK
<1>2. funcs[i].start \in Nat /\ funcs[i].end \in Nat
  BY <1>1, WordIsInt DEF Block
<1>3. QED
  BY <1>1, <1>2, BoundariesAre

(* Where the instructions of a block are depends on the image alone. *)
LEMMA SameBoundaries ==
  ASSUME rom' = rom, span' = span
  PROVE  \A f : Boundaries(f)' = Boundaries(f)
BY DEF Boundaries, Insn, RomByte

(* The boundaries that the table has after a step that moves no extent. *)
LEMMA KeptBoundaries ==
  ASSUME TypeOK, rom' = rom, span' = span, SameExtents
  PROVE  /\ Unwrapped' = Unwrapped
         /\ \A i \in 1..Len(funcs) : Boundaries(funcs[i])' = Boundaries(funcs[i])
<1>1. Unwrapped' = Unwrapped
  BY DEF Unwrapped, SameExtents
<1>2. \A f, g : f.start = g.start /\ f.end = g.end => Boundaries(f) = Boundaries(g)
  BY DEF Boundaries
<1>3. QED
  BY <1>1, <1>2, SameBoundaries DEF SameExtents

(* Where nothing is skipped: the cursor passes an instruction only from it. *)
LEMMA PassMoves ==
  ASSUME BlockInv, InPasses,
         (InPass /\ NextInsn) \/ (~InPass /\ NextBlock),
         NEW i \in Unwrapped, NEW a \in Boundaries(funcs[i]),
         Ahead(i, a), ~(InPass /\ i = k /\ a = addr)
  PROVE  phase' = phase /\ (i > k' \/ (i = k' /\ a >= addr'))
<1> DEFINE f == funcs[i]
<1>1. /\ i \in 1..Len(funcs) /\ Len(funcs) \in Nat /\ k \in Nat /\ addr \in Nat /\ TypeOK
      /\ f.start <= f.end
  BY WordIsInt DEF Unwrapped, BlockInv, IInv, TypeOK
<1>2. /\ a \in Steps(f.start) /\ a \in Nat /\ a < f.end
      /\ f.start \in Nat /\ f.end \in Nat /\ f.start <= a
  BY <1>1, BlockBoundaries, StepsUp
<1>3. ASSUME InPass, NextInsn PROVE phase' = phase /\ (i > k' \/ (i = k' /\ a >= addr'))
  <2>1. /\ Next16(addr) = After(addr) /\ After(addr) \in Nat
        /\ addr \in Steps(funcs[k].start) /\ funcs[k].start <= addr /\ addr < After(addr)
        /\ funcs[k].start \in Nat
    BY <1>3, PassAt
  <2>2. phase' = phase /\ k' = k /\ addr' = After(addr)
    BY <1>1, <1>3, <2>1 DEF NextInsn
  <2>3. CASE i = k
    <3>1. addr < a
      BY <1>1, <1>2, <1>3, <2>3 DEF Ahead
    <3>2. After(addr) <= a
      BY <1>2, <2>1, <2>3, <3>1, StepsApart
    <3>3. QED
      BY <1>2, <2>1, <2>2, <2>3, <3>2
  <2>4. CASE i > k
    BY <2>2, <2>4
  <2>5. QED
    BY <2>3, <2>4 DEF Ahead
<1>4. ASSUME ~InPass, NextBlock PROVE phase' = phase /\ (i > k' \/ (i = k' /\ a >= addr'))
  <2>1. i # k
    <3> SUFFICES ASSUME i = k PROVE FALSE
      OBVIOUS
    <3>1. addr <= a
      BY <1>1, <1>2 DEF Ahead
    <3>2. addr < f.end /\ addr \in Steps(f.start)
      BY <1>1, <1>2, <3>1 DEF BlockInv, Cursor
    <3>3. in_image(addr)
      BY <1>1, <3>2 DEF BlockInv, Blocks, Sound, WithinBlock
    <3>4. Off(addr) \in 0..(Len(rom) - 1)
      <4>1. Base \in Nat /\ rom \in Seq(Byte)
        BY ConstantTypes, WordIsInt DEF BlockInv, IInv, TypeOK, Roms
      <4>2. Len(rom) \in Nat /\ Off(addr) \in Int
        BY <1>1, <4>1 DEF Off
      <4>3. addr >= Base /\ Off(addr) < Len(rom)
        BY <3>3 DEF in_image
      <4>4. QED
        BY <1>1, <4>1, <4>2, <4>3 DEF Off
    <3>5. QED
      BY <1>1, <1>4, <3>2, <3>3, <3>4 DEF InPass
  <2>2. i > k /\ k < Len(funcs)
    BY <1>1, <2>1 DEF Ahead
  <2>3. k' = k + 1 /\ addr' = funcs[k + 1].start /\ phase' = phase
    BY <1>4, <2>2 DEF NextBlock
  <2>4. i > k + 1 \/ i = k + 1
    BY <1>1, <2>2
  <2>5. QED
    BY <1>2, <2>3, <2>4
<1>5. QED
  BY <1>3, <1>4

(* A pass that begins has everything ahead. *)
LEMMA PassStarts ==
  ASSUME TypeOK, k' = 1, addr' = FirstAddr, NEW i \in 1..Len(funcs),
         NEW a \in Steps(funcs[i].start)
  PROVE  i > k' \/ (i = k' /\ a >= addr')
<1>1. 1 \in 1..Len(funcs) /\ FirstAddr = funcs[1].start
  BY FirstBlock DEF TypeOK
<1>2. funcs[i].start \in Nat
  BY BlockBoundaries
<1>3. a \in Nat /\ funcs[i].start <= a
  BY <1>2, StepsUp
<1>4. QED
  BY <1>1, <1>2, <1>3

(* A step of a pass goes on in it, or to the start of the next one.        *)
LEMMA PassPhase ==
  ASSUME BlockInv, InPasses
  PROVE  /\ InPass /\ NextInsn => phase' = phase
         /\ NextBlock => \/ phase' = phase
                         \/ phase' = PassAfter[phase] /\ k' = 1 /\ addr' = FirstAddr
<1>1. ASSUME InPass, NextInsn PROVE phase' = phase
  <2>1. /\ Next16(addr) \in Nat /\ funcs[k].start \in Nat /\ addr \in Nat
        /\ funcs[k].start <= addr /\ addr < Next16(addr)
    BY <1>1, PassAt
  <2>2. QED
    BY <1>1, <2>1 DEF NextInsn
<1>2. QED
  BY <1>1 DEF NextBlock

(* The split leaves no leader behind its cursor. *)
LEMMA SplitDoneStep ==
  ASSUME PassInv, [Next]_vars PROVE SplitDone'
<1>0. rom' = rom /\ span' = span /\ TypeOK /\ BlockInv /\ Len(funcs) \in Nat
  BY ImageKept DEF PassInv, BlockInv, IInv, TypeOK
<1>1. CASE Discovering /\ ~WorkDone
  <2>1. Discovering' \/ (UNCHANGED vars)
    BY <1>1 DEF Next, Descent, Passes, PushSeed, SeedsDone, PopWork, ScanNormal, ScanCall,
           ScanBranch, ScanJump, ScanStop, ScanRunsOff, AddBlock, BlockDone,
           SplitHere, SplitSkip, ScanStore, MarkPatched, Discovering
  <2>2. phase' \in {"seed", "work", "scan"}
    BY <1>1, <2>1 DEF Discovering, vars
  <2>3. QED
    BY <2>2 DEF SplitDone
<1>2. CASE WorkDone
  <2>1. funcs' = funcs /\ d' = d /\ phase' = "split" /\ k' = 1 /\ addr' = FirstAddr
    BY <1>2 DEF WorkDone
  <2>2. SameExtents
    BY <2>1 DEF SameExtents
  <2>3. ASSUME NEW i \in Unwrapped, NEW a \in Boundaries(funcs[i])
        PROVE  \/ a = funcs[i].start
               \/ (i > k' \/ (i = k' /\ a >= addr')) /\ ~(i = k' /\ a = addr')
    <3>1. i \in 1..Len(funcs) /\ a \in Steps(funcs[i].start)
      BY <1>0, <2>3, BlockBoundaries DEF Unwrapped
    <3>2. i > k' \/ (i = k' /\ a >= addr')
      BY <1>0, <2>1, <3>1, PassStarts
    <3>3. 1 \in 1..Len(funcs) /\ FirstAddr = funcs[1].start
      BY <1>0, <3>1, FirstBlock
    <3>4. QED
      BY <2>1, <3>2, <3>3
  <2>4. QED
    BY <1>0, <2>1, <2>2, <2>3, KeptBoundaries DEF SplitDone, Ahead, Unwrapped
<1>3. CASE phase = "split" /\ (BlockDone \/ SplitSkip)
  <2>1. /\ funcs' = funcs /\ d' = d /\ InPasses
        /\ (InPass /\ NextInsn /\ ~LeaderNext) \/ (~InPass /\ NextBlock)
    BY <1>3 DEF BlockDone, SplitSkip, InPasses
  <2>2. SameExtents
    BY <2>1 DEF SameExtents
  <2>3. ASSUME NEW i \in Unwrapped, NEW a \in Boundaries(funcs[i]) \cap d.seen
        PROVE  \/ a = funcs[i].start
               \/ /\ phase' = phase
                  /\ i > k' \/ (i = k' /\ a >= addr')
                  /\ ~(i = k' /\ a = addr')
    <3>1. CASE a # funcs[i].start
      <4>1. Ahead(i, a) /\ ~(i = k /\ a = addr)
        BY <1>3, <3>1 DEF PassInv, SplitDone
      <4>2. phase' = phase /\ (i > k' \/ (i = k' /\ a >= addr'))
        BY <1>0, <2>1, <4>1, PassMoves
      <4>3. ~(i = k' /\ a = addr')
        <5> SUFFICES ASSUME i = k', a = addr' PROVE FALSE
          OBVIOUS
        <5>1. i \in 1..Len(funcs) /\ a < funcs[i].end
          BY <1>0, BlockBoundaries DEF Unwrapped
        <5>2. CASE InPass /\ NextInsn /\ ~LeaderNext
          <6>1. addr' = Next16(addr) /\ k' = k
            BY <1>3, <5>2 DEF NextInsn
          <6>2. QED
            BY <5>1, <5>2, <6>1 DEF LeaderNext
        <5>3. CASE ~InPass /\ NextBlock
          <6>1. CASE k < Len(funcs)
            BY <3>1, <5>3, <6>1 DEF NextBlock
          <6>2. CASE ~(k < Len(funcs))
            BY <1>3, <4>2, <5>3, <6>2 DEF NextBlock, PassAfter
          <6>3. QED
            BY <6>1, <6>2
        <5>4. QED
          BY <2>1, <5>2, <5>3
      <4>4. QED
        BY <4>2, <4>3
    <3>2. QED
      BY <3>1
  <2>4. /\ Unwrapped' = Unwrapped
        /\ \A i \in 1..Len(funcs) : Boundaries(funcs[i])' = Boundaries(funcs[i])
    BY <1>0, <2>2, KeptBoundaries
  <2>5. ASSUME NEW i \in Unwrapped, NEW a \in Boundaries(funcs[i])' \cap d'.seen
        PROVE  \/ a = funcs[i].start
               \/ /\ phase' = phase
                  /\ i > k' \/ (i = k' /\ a >= addr')
                  /\ ~(i = k' /\ a = addr')
    BY <2>1, <2>3, <2>4 DEF Unwrapped
  <2>6. QED
    BY <1>3, <2>1, <2>4, <2>5 DEF SplitDone, Ahead
<1>4. CASE SplitHere
  <2>1. /\ d' = d /\ InPasses /\ InPass /\ NextBlock /\ phase = "split"
        /\ Next16(addr) < funcs[k].end
    BY <1>4 DEF SplitHere, LeaderNext, InPasses
  <2>2. /\ SameStarts /\ k \in 1..Len(funcs)
        /\ funcs'[k].end = Next16(addr)
        /\ \A i \in 1..Len(funcs) : i # k => funcs'[i] = funcs[i]
    BY <1>0, <1>4, CutTable
  <2>3. /\ Next16(addr) = After(addr) /\ addr \in Steps(funcs[k].start) /\ addr \in Nat
        /\ funcs[k].start \in Nat /\ funcs[k].end \in Nat /\ After(addr) \in Nat
        /\ funcs[k].start <= addr /\ addr < After(addr)
    BY <1>0, <2>1, PassAt
  <2>4. \A f, g : f.start = g.start /\ f.end = g.end => Boundaries(f) = Boundaries(g)
    BY DEF Boundaries
  <2>5. ASSUME NEW i \in 1..Len(funcs), i # k, funcs'[i].start <= funcs'[i].end,
               NEW a \in Boundaries(funcs'[i]) \cap d.seen
        PROVE  \/ a = funcs'[i].start
               \/ /\ phase' = "split"
                  /\ i > k' \/ (i = k' /\ a >= addr')
                  /\ ~(i = k' /\ a = addr')
    <3>1. i \in Unwrapped /\ a \in Boundaries(funcs[i]) \cap d.seen /\ funcs'[i] = funcs[i]
      BY <2>2, <2>5 DEF Unwrapped
    <3>2. CASE a # funcs[i].start
      <4>1. i > k
        BY <2>1, <2>5, <3>1, <3>2 DEF PassInv, SplitDone, Ahead
      <4>2. /\ a \in Nat /\ funcs[i].start <= a /\ funcs[i].start \in Nat
        BY <1>0, <3>1, BlockBoundaries, StepsUp
      <4>3. k \in Nat /\ k < Len(funcs) /\ (i = k + 1 \/ i > k + 1)
        BY <1>0, <2>2, <4>1
      <4>4. k' = k + 1 /\ addr' = funcs[k + 1].start /\ phase' = "split"
        BY <2>1, <4>3 DEF NextBlock
      <4>5. QED
        BY <3>2, <4>2, <4>3, <4>4
    <3>3. QED
      BY <3>1, <3>2
  <2>6. ASSUME NEW a \in Boundaries(funcs'[k]) \cap d.seen
        PROVE  a = funcs'[k].start
    <3>1. funcs'[k].start = funcs[k].start
      BY <2>2 DEF SameStarts
    <3>2. a \in Steps(funcs[k].start) /\ a < After(addr)
      BY <2>2, <2>3, <3>1, BoundariesAre
    <3>3. a \in Nat /\ a < funcs[k].end /\ k \in Unwrapped
      <4>1. a \in Nat
        BY <2>3, <3>2, StepsUp
      <4>2. a < funcs[k].end /\ funcs[k].start <= funcs[k].end
        BY <2>1, <2>3, <3>2, <4>1
      <4>3. QED
        BY <2>2, <4>1, <4>2 DEF Unwrapped
    <3>4. ~(addr < a)
      BY <2>3, <3>2, <3>3, StepsApart
    <3>5. a \in Boundaries(funcs[k]) \cap d.seen
      BY <1>0, <2>2, <3>2, <3>3, BlockBoundaries
    <3>6. a = funcs[k].start \/ (Ahead(k, a) /\ ~(k = k /\ a = addr))
      BY <2>1, <3>3, <3>5 DEF PassInv, SplitDone
    <3>7. k \in Nat
      BY <2>2
    <3>8. a = funcs[k].start
      BY <2>3, <3>3, <3>4, <3>6, <3>7 DEF Ahead
    <3>9. QED
      BY <3>1, <3>8
  <2>7. \A f : Boundaries(f)' = Boundaries(f)
    BY <1>0, SameBoundaries
  <2>8. QED
    BY <2>1, <2>2, <2>5, <2>6, <2>7 DEF SplitDone, Ahead, Unwrapped, SameStarts
<1>5. CASE phase \in {"stores", "patches", "analyzed"}
  <2>1. d' = d /\ SameExtents /\ phase' \in {"stores", "patches", "analyzed"}
    <3>1. CASE ScanStore \/ MarkPatched
      <4>1. SameExtents /\ d' = d
        BY <1>0, <3>1, MarkExtents DEF ScanStore, MarkPatched
      <4>2. phase' = phase
        BY <1>0, <3>1, PassPhase DEF ScanStore, MarkPatched, InPasses
      <4>3. QED
        BY <1>5, <4>1, <4>2
    <3>2. CASE BlockDone \/ UNCHANGED vars
      BY <1>0, <1>5, <3>2 DEF BlockDone, NextBlock, PassAfter, vars, SameExtents
    <3>3. QED
      BY <1>5, <3>1, <3>2 DEF Next, Descent, Passes, PushSeed, SeedsDone, PopWork, ScanNormal,
           ScanCall, ScanBranch, ScanJump, ScanStop, ScanRunsOff, WorkDone, SplitHere, SplitSkip
  <2>2. \A i \in Unwrapped : \A a \in Boundaries(funcs[i]) \cap d.seen : a = funcs[i].start
    BY <1>5 DEF PassInv, SplitDone
  <2>3. /\ Unwrapped' = Unwrapped
        /\ \A i \in 1..Len(funcs) : Boundaries(funcs[i])' = Boundaries(funcs[i])
    BY <1>0, <2>1, KeptBoundaries
  <2>4. QED
    BY <2>1, <2>2, <2>3 DEF SplitDone, Unwrapped, SameExtents
<1>6. CASE phase = "split" /\ UNCHANGED vars
  <2>1. UNCHANGED <<phase, funcs, d, k, addr>> /\ SameExtents
    BY <1>6 DEF vars, SameExtents
  <2>2. /\ Unwrapped' = Unwrapped
        /\ \A i \in 1..Len(funcs) : Boundaries(funcs[i])' = Boundaries(funcs[i])
    BY <1>0, <2>1, KeptBoundaries
  <2>3. QED
    BY <2>1, <2>2 DEF PassInv, SplitDone, Unwrapped, Ahead
<1>7. phase \in Phases
  BY <1>0 DEF TypeOK
<1>8. QED
  BY <1>1, <1>2, <1>3, <1>4, <1>5, <1>6, <1>7
     DEF Next, Descent, Passes, Discovering, Phases, PushSeed, SeedsDone, PopWork, ScanNormal,
         ScanCall, ScanBranch, ScanJump, ScanStop, ScanRunsOff, ScanStore, MarkPatched

(* The code does not move while the self-modification passes search it.    *)
LEMMA SameCode ==
  ASSUME rom' = rom, span' = span, SameExtents
  PROVE  \A a : StoreOnCode(a)' <=> StoreOnCode(a)
<1>1. \A a : Insn(a)' = Insn(a)
  BY SameImage
<1>2. \A o : in_code(o)' <=> in_code(o)
  BY DEF in_code, InBlock, SameExtents
<1>3. QED
  BY <1>1, <1>2 DEF StoreOnCode

(* Entering a pass, everything is ahead of the cursor. *)
LEMMA EnterPass ==
  ASSUME TypeOK, rom' = rom, span' = span, SameStarts, TypeOK', k' = 1, addr' = FirstAddr,
         NEW i \in 1..Len(funcs), NEW a \in Boundaries(funcs[i])'
  PROVE  i > k' \/ (i = k' /\ a >= addr')
<1>1. funcs'[i] \in Block /\ funcs'[i].start = funcs[i].start
  BY DEF TypeOK, SameStarts
<1>2. a \in Boundaries(funcs'[i])
  BY SameBoundaries
<1>3. a \in Steps(funcs[i].start)
  BY <1>1, <1>2, BoundariesAre, WordIsInt DEF Block
<1>4. QED
  BY <1>3, PassStarts

(* The absolute stores behind the cursor are known. *)
LEMMA StoresDoneStep ==
  ASSUME PassInv, [Next]_vars PROVE StoresDone'
<1>0. /\ rom' = rom /\ span' = span /\ TypeOK /\ TypeOK' /\ BlockInv
      /\ Len(funcs) \in Nat
  BY ImageKept, TypeStep DEF PassInv, BlockInv, IInv, TypeOK
<1>1. CASE phase \in {"seed", "work", "scan", "split"} /\ phase' # "stores"
  <2>1. phase' \in {"seed", "work", "scan", "split"}
    <3>1. CASE InPasses
      <4>1. PassAfter[phase] = "stores"
        BY <1>1, <3>1 DEF InPasses, PassAfter
      <4>2. QED
        BY <1>0, <1>1, <3>1, <4>1, PassPhase
           DEF Next, Descent, Passes, PushSeed, SeedsDone, PopWork, ScanNormal, ScanCall,
               ScanBranch, ScanJump, ScanStop, ScanRunsOff, WorkDone, InPasses,
               BlockDone, SplitHere, SplitSkip, ScanStore, MarkPatched, vars
    <3>2. CASE ~InPasses
      BY <1>1, <3>2 DEF Next, Descent, Passes, PushSeed, SeedsDone, PopWork, ScanNormal,
           ScanCall, ScanBranch, ScanJump, ScanStop, ScanRunsOff, AddBlock, WorkDone, InPasses,
           BlockDone, SplitHere, SplitSkip, ScanStore, MarkPatched, vars
    <3>3. QED
      BY <3>1, <3>2
  <2>2. QED
    BY <2>1 DEF StoresDone
<1>2. CASE phase \in {"seed", "work", "scan", "split"} /\ phase' = "stores"
  <2>1. (BlockDone \/ SplitHere \/ SplitSkip) /\ phase = "split"
    <3>1. ~(UNCHANGED vars) /\ ~Descent
      BY <1>2 DEF Descent, PushSeed, SeedsDone, PopWork, ScanNormal,
           ScanCall, ScanBranch, ScanJump, ScanStop, ScanRunsOff, AddBlock, WorkDone, vars
    <3>2. QED
      BY <1>2, <3>1 DEF Next, Passes, BlockDone, SplitHere, SplitSkip, ScanStore, MarkPatched
  <2>2. k' = 1 /\ addr' = FirstAddr
    BY <1>0, <1>2, <2>1, PassPhase DEF InPasses, BlockDone, SplitHere, SplitSkip
  <2>3. SameStarts
    BY <1>0, <2>1, CutTable DEF BlockDone, SplitSkip, SameStarts
  <2>4. \A i \in 1..Len(funcs) : \A a \in Boundaries(funcs[i])' :
          i > k' \/ (i = k' /\ a >= addr')
    BY <1>0, <2>2, <2>3, EnterPass
  <2>5. QED
    BY <1>2, <2>3, <2>4 DEF StoresDone, Unwrapped, Ahead, SameStarts
<1>3. CASE phase = "stores" /\ (ScanStore \/ BlockDone)
  <2>1. SameExtents
    BY <1>0, <1>3, MarkExtents DEF BlockDone, SameExtents
  <2>2. /\ Unwrapped' = Unwrapped
        /\ \A i \in 1..Len(funcs) : Boundaries(funcs[i])' = Boundaries(funcs[i])
        /\ \A a : StoreOnCode(a)' <=> StoreOnCode(a)
        /\ \A a : Insn(a)' = Insn(a)
    BY <1>0, <2>1, KeptBoundaries, SameCode, SameImage
  <2>3. /\ InPasses /\ patched \subseteq patched'
        /\ (InPass /\ NextInsn) \/ (~InPass /\ NextBlock)
    BY <1>3 DEF ScanStore, BlockDone, InPasses
  <2>4. ASSUME NEW i \in Unwrapped, NEW a \in Boundaries(funcs[i]), StoreOnCode(a)
        PROVE  \/ Insn(a).operand \in patched'
               \/ phase' = "stores" /\ (i > k' \/ (i = k' /\ a >= addr'))
    <3>1. CASE Insn(a).operand \in patched
      BY <2>3, <3>1
    <3>2. CASE Ahead(i, a) /\ ~(InPass /\ i = k /\ a = addr)
      BY <1>0, <1>3, <2>3, <3>2, PassMoves
    <3>3. CASE InPass /\ i = k /\ a = addr
      BY <1>3, <2>4, <3>3 DEF ScanStore, BlockDone, StoreOnCode
    <3>4. QED
      BY <1>3, <2>4, <3>1, <3>2, <3>3 DEF PassInv, StoresDone
  <2>5. QED
    BY <2>2, <2>4 DEF StoresDone, Ahead, Unwrapped
<1>4. CASE \/ phase \in {"patches", "analyzed"}
           \/ UNCHANGED vars
  <2>1. /\ SameExtents /\ patched' = patched
        /\ \/ phase \in {"patches", "analyzed"}
           \/ UNCHANGED <<phase, k, addr>>
    BY <1>0, <1>4, MarkExtents
       DEF Next, Descent, Passes, PushSeed, SeedsDone, PopWork, ScanNormal,
           ScanCall, ScanBranch, ScanJump, ScanStop, ScanRunsOff, WorkDone,
           BlockDone, SplitHere, SplitSkip, ScanStore, MarkPatched, vars, SameExtents
  <2>2. /\ Unwrapped' = Unwrapped
        /\ \A i \in 1..Len(funcs) : Boundaries(funcs[i])' = Boundaries(funcs[i])
        /\ \A a : StoreOnCode(a)' <=> StoreOnCode(a)
        /\ \A a : Insn(a)' = Insn(a)
    BY <1>0, <2>1, KeptBoundaries, SameCode, SameImage
  <2>3. QED
    BY <2>1, <2>2 DEF PassInv, StoresDone, Ahead, Unwrapped
<1>5. phase \in Phases
  BY <1>0 DEF TypeOK
<1>6. QED
  BY <1>1, <1>2, <1>3, <1>4, <1>5
     DEF Phases, Next, Descent, Passes, PushSeed, SeedsDone, PopWork, ScanNormal,
         ScanCall, ScanBranch, ScanJump, ScanStop, ScanRunsOff, WorkDone,
         SplitHere, SplitSkip, MarkPatched

(* A block once marked stays so. *)
LEMMA MarksKept ==
  ASSUME TypeOK, ScanStore \/ MarkPatched, NEW i \in 1..Len(funcs), funcs[i].self_mod
  PROVE  funcs'[i].self_mod
<1>0. funcs \in Seq(Block) /\ Len(funcs) \in Nat /\ funcs[i] \in Block
  BY DEF TypeOK
<1>1. CASE ScanStore
  <2> DEFINE mark(g) == IF InBlock(Insn(addr).operand, funcs[g])
                        THEN [funcs[g] EXCEPT !.self_mod = TRUE] ELSE funcs[g]
  <2>1. mark(i).self_mod
    BY <1>0 DEF Block
  <2>2. funcs' = [g \in 1..Len(funcs) |-> mark(g)] \/ funcs' = funcs
    BY <1>1 DEF ScanStore
  <2> HIDE DEF mark
  <2>3. QED
    BY <1>0, <2>1, <2>2
<1>2. CASE MarkPatched
  <2>1. k \in 1..Len(funcs) /\ funcs[k] \in Block
    BY <1>2, BlockInPass DEF MarkPatched
  <2> DEFINE b == [funcs[k] EXCEPT !.self_mod = TRUE]
  <2>2. b.self_mod
    BY <2>1 DEF Block
  <2>3. funcs' = [funcs EXCEPT ![k] = b] \/ funcs' = funcs
    BY <1>2 DEF MarkPatched
  <2> HIDE DEF b
  <2>4. QED
    BY <1>0, <2>1, <2>2, <2>3
<1>3. QED
  BY <1>1, <1>2

(* MarkPatched marks the block at the cursor. *)
LEMMA MarksPatched ==
  ASSUME TypeOK, MarkPatched, CannotRecompile(addr)
  PROVE  funcs'[k].self_mod
<1>1. k \in 1..Len(funcs) /\ funcs[k] \in Block /\ funcs \in Seq(Block)
  BY BlockInPass DEF MarkPatched, TypeOK
<1> DEFINE b == [funcs[k] EXCEPT !.self_mod = TRUE]
<1>2. b.self_mod
  BY <1>1 DEF Block
<1>3. funcs' = [funcs EXCEPT ![k] = b]
  BY DEF MarkPatched
<1> HIDE DEF b
<1>4. QED
  BY <1>1, <1>2, <1>3

(* The blocks behind the cursor that cannot be compiled are marked. *)
LEMMA PatchesDoneStep ==
  ASSUME PassInv, [Next]_vars PROVE PatchesDone'
<1>0. /\ rom' = rom /\ span' = span /\ TypeOK /\ TypeOK' /\ BlockInv
      /\ Len(funcs) \in Nat
  BY ImageKept, TypeStep DEF PassInv, BlockInv, IInv, TypeOK
<1>1. CASE phase' \notin {"patches", "analyzed"}
  BY <1>1 DEF PatchesDone
<1>2. CASE phase = "stores" /\ phase' = "patches"
  <2>1. BlockDone
    <3>1. ~(UNCHANGED vars) /\ ~ScanStore
      BY <1>0, <1>2, PassPhase DEF ScanStore, InPasses, vars
    <3>2. QED
      BY <1>2, <3>1 DEF Next, Descent, Passes, PushSeed, SeedsDone, PopWork, ScanNormal,
           ScanCall, ScanBranch, ScanJump, ScanStop, ScanRunsOff, WorkDone,
           SplitHere, SplitSkip, MarkPatched
  <2>2. k' = 1 /\ addr' = FirstAddr /\ SameStarts
    BY <1>0, <1>2, <2>1, PassPhase DEF InPasses, BlockDone, SameStarts
  <2>3. \A i \in 1..Len(funcs) : \A a \in Boundaries(funcs[i])' :
          i > k' \/ (i = k' /\ a >= addr')
    BY <1>0, <2>2, EnterPass
  <2>4. QED
    BY <1>2, <2>2, <2>3 DEF PatchesDone, Unwrapped, Ahead, SameStarts
<1>3. CASE phase = "patches" /\ (MarkPatched \/ BlockDone)
  <2>1. SameExtents /\ patched' = patched
    BY <1>0, <1>3, MarkExtents DEF MarkPatched, BlockDone, SameExtents
  <2>2. /\ Unwrapped' = Unwrapped
        /\ \A i \in 1..Len(funcs) : Boundaries(funcs[i])' = Boundaries(funcs[i])
        /\ \A a : CannotRecompile(a)' <=> CannotRecompile(a)
    BY <1>0, <2>1, KeptBoundaries, SameImage DEF CannotRecompile
  <2>3. /\ InPasses
        /\ (InPass /\ NextInsn) \/ (~InPass /\ NextBlock)
        /\ \A i \in 1..Len(funcs) : funcs[i].self_mod => funcs'[i].self_mod
    BY <1>0, <1>3, MarksKept DEF MarkPatched, BlockDone, InPasses
  <2>4. ASSUME NEW i \in Unwrapped, NEW a \in Boundaries(funcs[i]), CannotRecompile(a)
        PROVE  \/ funcs'[i].self_mod
               \/ phase' = "patches" /\ (i > k' \/ (i = k' /\ a >= addr'))
    <3>1. CASE funcs[i].self_mod
      BY <2>3, <3>1 DEF Unwrapped
    <3>2. CASE Ahead(i, a) /\ ~(InPass /\ i = k /\ a = addr)
      BY <1>0, <1>3, <2>3, <3>2, PassMoves
    <3>3. CASE InPass /\ i = k /\ a = addr
      BY <1>0, <1>3, <2>4, <3>3, MarksPatched DEF BlockDone
    <3>4. QED
      BY <1>3, <2>4, <3>1, <3>2, <3>3 DEF PassInv, PatchesDone
  <2>5. QED
    BY <2>2, <2>4 DEF PatchesDone, Ahead, Unwrapped
<1>4. CASE phase = "analyzed" \/ UNCHANGED vars
  <2>1. UNCHANGED vars
    BY <1>4 DEF Next, Descent, Passes, PushSeed, SeedsDone, PopWork, ScanNormal,
           ScanCall, ScanBranch, ScanJump, ScanStop, ScanRunsOff, WorkDone,
           BlockDone, SplitHere, SplitSkip, ScanStore, MarkPatched
  <2>2. UNCHANGED <<phase, k, addr, funcs, patched>> /\ SameExtents
    BY <2>1 DEF vars, SameExtents
  <2>3. /\ Unwrapped' = Unwrapped
        /\ \A i \in 1..Len(funcs) : Boundaries(funcs[i])' = Boundaries(funcs[i])
        /\ \A a : CannotRecompile(a)' <=> CannotRecompile(a)
    BY <1>0, <2>2, KeptBoundaries, SameImage DEF CannotRecompile
  <2>4. QED
    BY <2>2, <2>3 DEF PassInv, PatchesDone, Ahead, Unwrapped
<1>5. \/ phase' \notin {"patches", "analyzed"}
      \/ phase = "stores" /\ phase' = "patches"
      \/ phase = "patches" /\ (MarkPatched \/ BlockDone)
      \/ phase = "analyzed" \/ UNCHANGED vars
  <2>1. CASE Descent
    BY <2>1 DEF Descent, PushSeed, SeedsDone, PopWork, ScanNormal,
           ScanCall, ScanBranch, ScanJump, ScanStop, ScanRunsOff, AddBlock, WorkDone
  <2>2. CASE BlockDone
    BY <1>0, <2>2, PassPhase DEF BlockDone, InPasses, PassAfter
  <2>3. CASE SplitHere \/ SplitSkip
    BY <1>0, <2>3, PassPhase DEF SplitHere, SplitSkip, InPasses, PassAfter
  <2>4. CASE ScanStore
    BY <1>0, <2>4, PassPhase DEF ScanStore, InPasses
  <2>5. CASE MarkPatched
    BY <2>5 DEF MarkPatched
  <2>6. QED
    BY <2>1, <2>2, <2>3, <2>4, <2>5 DEF Next, Passes
<1>6. QED
  BY <1>1, <1>2, <1>3, <1>4, <1>5

(* The invariant of the passes is one. *)
LEMMA BeginPasses == Begin /\ TypeOK => PassInv
BY BeginBlocks DEF Begin, PassInv, SplitDone, StoresDone, PatchesDone

(* It holds at first. *)
LEMMA PassInit == Init => PassInv
BY BeginPasses, TypeInit DEF Init

(* Each step keeps it. *)
LEMMA PassStep == PassInv /\ [Next]_vars => PassInv'
BY BlockStep, SplitDoneStep, StoresDoneStep, PatchesDoneStep DEF PassInv

(* It is an invariant of the specification. *)
LEMMA PassInvariant == Spec => []PassInv
BY PassInit, PassStep, PTL DEF Spec

(* The invariant implies the property. *)
LEMMA SplitIsComplete == PassInv => SplitComplete
<1> SUFFICES ASSUME PassInv, phase \in {"stores", "patches", "analyzed"}, NEW i \in Unwrapped
             PROVE  /\ Boundaries(funcs[i]) \cap d.seen \subseteq {funcs[i].start}
                    /\ funcs[i].fallthrough =>
                         \/ funcs[i].end \in d.seen
                         \/ ~WithinBlock(funcs[i].start, funcs[i].end)
  BY DEF SplitComplete
<1>1. Boundaries(funcs[i]) \cap d.seen \subseteq {funcs[i].start}
  BY DEF PassInv, SplitDone
<1>2. Sound(funcs[i]) /\ funcs[i].start <= funcs[i].end
  BY DEF PassInv, BlockInv, Blocks, Unwrapped
<1>3. QED
  BY <1>1, <1>2 DEF Sound

(* After the split no leader is left inside a block that does not wrap, and *)
(* a cut block falls through to a leader.                                   *)
THEOREM NoLeaderInside == Spec => []SplitComplete
BY SplitIsComplete, PassInvariant, PTL

(* The invariant implies the property. *)
LEMMA PatchedIsInterpreted == PassInv => PatchedOpcodesInterpreted
<1> SUFFICES ASSUME PassInv, phase = "analyzed", NEW i \in Unwrapped,
                    NEW a \in Boundaries(funcs[i]), ~funcs[i].self_mod
             PROVE  /\ ~StoreIntoCode(a)
                    /\ Insn(a).cflow \notin {"normal", "ret"} =>
                         ~StoreIntoCode(W(a + 1)) /\ ~StoreIntoCode(W(a + 2))
  BY DEF PatchedOpcodesInterpreted
<1>1. \A o : StoreIntoCode(o) => o \in patched
  <2> SUFFICES ASSUME NEW o, StoreIntoCode(o) PROVE o \in patched
    OBVIOUS
  <2>1. PICK b \in Covered : is_store(Insn(b)) /\ Insn(b).mode = "abs" /\ Insn(b).operand = o
                             /\ in_code(o)
    BY DEF StoreIntoCode, in_code
  <2>2. PICK j \in Unwrapped : b \in Boundaries(funcs[j])
    BY <2>1 DEF Covered
  <2>3. QED
    BY <2>1, <2>2 DEF PassInv, StoresDone, StoreOnCode
<1>2. ~CannotRecompile(a)
  BY DEF PassInv, PatchesDone
<1>3. QED
  BY <1>1, <1>2 DEF CannotRecompile

(* No block is compiled of which an absolute store, in any block, patches   *)
(* an opcode or the operand of a transfer.                                  *)
THEOREM PatchedCodeInterpreted == Spec => []PatchedOpcodesInterpreted
BY PatchedIsInterpreted, PassInvariant, PTL
=============================================================================
