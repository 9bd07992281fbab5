---------------------------- MODULE LeaderProofs ----------------------------
(***************************************************************************)
(* Theorems about the leaders that module Discover finds: every transfer   *)
(* is followed, nothing else is, which is that Discover implements module  *)
(* Leaders, and the split loses no code.                                   *)
(***************************************************************************)
EXTENDS BlockProofs

-----------------------------------------------------------------------------
(* Where the transfers lead: every leader is followed, until the table is   *)
(* full.                                                                    *)

(* Leaders waiting, in hand, and with a block. *)
InHandCount == IF phase = "scan" THEN 1 ELSE 0

Places == Len(d.work) + Len(funcs) + InHandCount

SeedsPushed ==
  \A j \in 1..Len(seeds) :
    (phase = "seed" => j < k) /\ in_image(seeds[j]) => seeds[j] \in d.seen

Followed ==
  \/ Places >= MaxFuncs
  \/ /\ SeedsPushed
     /\ \A l \in Starts : Successors(l) \subseteq d.seen

FollowInv == BlockInv /\ Followed

(* push_func marks an address of the image while there is room. *)
LEMMA PushMarks ==
  ASSUME NEW dd \in DiscT, NEW a \in Word, Len(funcs) < MaxFuncs, Len(funcs) \in Nat
  PROVE  LET ee == push_func(dd, a)
         IN  /\ ee \in DiscT
             /\ dd.seen \subseteq ee.seen
             /\ \A x \in ee.seen : x \in dd.seen \/ (x = a /\ in_image(a))
             /\ Len(ee.work) \in Nat /\ Len(dd.work) \in Nat /\ Len(ee.work) >= Len(dd.work)
             /\ (in_image(a) => a \in ee.seen) \/ Len(ee.work) >= MaxFuncs
<1> DEFINE ee == push_func(dd, a)
<1>1. dd.work \in Seq(Word) /\ Len(dd.work) \in Nat /\ MaxFuncs \in Nat /\ ee \in DiscT
  BY ConstantTypes, PushFuncType DEF DiscT
<1>2. Len(Append(dd.work, a)) = Len(dd.work) + 1
  BY <1>1
<1>3. \/ ee = dd /\ (in_image(a) => a \in dd.seen \/ Len(dd.work) >= MaxFuncs)
      \/ /\ ee.work = Append(dd.work, a) /\ ee.seen = dd.seen \cup {a}
         /\ in_image(a)
  BY <1>1 DEF push_func
<1> HIDE DEF ee
<1>4. CASE ee = dd /\ (in_image(a) => a \in dd.seen \/ Len(dd.work) >= MaxFuncs)
  BY <1>1, <1>4 DEF ee
<1>5. CASE /\ ee.work = Append(dd.work, a) /\ ee.seen = dd.seen \cup {a}
           /\ in_image(a)
  BY <1>1, <1>2, <1>5 DEF ee
<1>6. QED
  BY <1>3, <1>4, <1>5

(* What a line leads to depends on the image alone. *)
LEMMA SameSuccessors ==
  ASSUME rom' = rom, span' = span
  PROVE  \A l : Successors(l)' = Successors(l)
<1>1. \A l : LineEnd(l)' = LineEnd(l)
  BY DEF LineEnd, WithinBlock, Next16, Insn, in_image, Truncated, Off, RomByte
<1>2. \A in : JumpTarget(in)' = JumpTarget(in)
  BY DEF JumpTarget, img_rd16, in_image, RomByte
<1>3. \A a : Transfers(a)' = Transfers(a)
  BY <1>2, SameImage DEF Transfers
<1>4. QED
  BY <1>1, <1>3, SameImage DEF Successors

(* The leaders that a scan finds are those its line leads to.              *)
LEMMA ScanSuccessors ==
  ASSUME BlockInv, phase = "scan", ~(Scanning /\ Insn(addr).cflow = "normal")
  PROVE  Successors(fs) = IF Scanning THEN {t \in Transfers(addr) : in_image(t)} ELSE {}
<1>1. /\ fs \in Word /\ addr \in Word /\ rom \in Roms /\ span \in Spans /\ ScannedTo(fs, addr)
  BY ScanAt DEF BlockInv, IInv, TypeOK
<1>2. LineEnd(fs) = addr
  BY <1>1, LineEndIs DEF Scanning
<1>3. QED
  BY <1>2 DEF Successors, Scanning

(* The scan of a block pushes all of them, while there is room, and no other. *)
LEMMA ScanPushes ==
  ASSUME BlockInv, ScanCall \/ ScanBranch \/ ScanJump \/ ScanStop \/ ScanRunsOff
  PROVE  /\ d' \in DiscT /\ Len(d'.work) >= Len(d.work)
         /\ d.seen \subseteq d'.seen /\ d'.seen \subseteq d.seen \cup Successors(fs)
         /\ Successors(fs) \subseteq d'.seen \/ Len(d'.work) >= MaxFuncs
<1> DEFINE in == Insn(addr)
           t  == in.target
           n  == Next16(addr)
           j  == JumpTarget(in)
<1>0. /\ d \in DiscT /\ rom \in Roms /\ addr \in Word /\ Len(d.work) \in Nat
      /\ t \in Word /\ n \in Word /\ j \in Word
      /\ phase = "scan" /\ Len(funcs) < MaxFuncs /\ Len(funcs) \in Nat
  <2>1. phase = "scan"
    BY DEF ScanCall, ScanBranch, ScanJump, ScanStop, ScanRunsOff
  <2>2. /\ d \in DiscT /\ rom \in Roms /\ addr \in Word /\ funcs \in Seq(Block)
        /\ Len(funcs) < MaxFuncs
    BY <2>1 DEF BlockInv, IInv, TypeOK, TableBounds, DiscT
  <2>3. QED
    BY <2>1, <2>2, InsnType, Next16Type, JumpTargetType DEF DiscT
<1>01. MaxFuncs \in Nat
  BY ConstantTypes
<1>1. CASE ScanCall
  <2> DEFINE e == IF in_image(t) THEN push_func(d, t) ELSE d
  <2>1. d' = push_func(e, n) /\ Scanning /\ in.cflow = "call"
    BY <1>1 DEF ScanCall
  <2>2. Successors(fs) = {x \in {t, n} : in_image(x)}
    BY <1>0, <2>1, ScanSuccessors DEF Transfers
  <2> HIDE DEF in, t, n
  <2>3. /\ e \in DiscT /\ d.seen \subseteq e.seen /\ Len(e.work) >= Len(d.work)
        /\ \A x \in e.seen : x \in d.seen \/ (x = t /\ in_image(t))
        /\ (in_image(t) => t \in e.seen) \/ Len(e.work) >= MaxFuncs
    <3>1. CASE in_image(t)
      BY <1>0, <3>1, PushMarks
    <3>2. CASE ~in_image(t)
      BY <1>0, <3>2
    <3>3. QED
      BY <3>1, <3>2
  <2> HIDE DEF e
  <2>4. /\ d' \in DiscT /\ e.seen \subseteq d'.seen /\ Len(d'.work) >= Len(e.work)
        /\ \A x \in d'.seen : x \in e.seen \/ (x = n /\ in_image(n))
        /\ (in_image(n) => n \in d'.seen) \/ Len(d'.work) >= MaxFuncs
    BY <1>0, <2>1, <2>3, PushMarks
  <2>5. Len(e.work) \in Nat /\ Len(d'.work) \in Nat
    BY <2>3, <2>4 DEF DiscT
  <2>6. QED
    BY <1>0, <1>01, <2>2, <2>3, <2>4, <2>5
<1>2. CASE ScanBranch
  <2> DEFINE e == push_func(d, t)
  <2>1. d' = push_func(e, n) /\ Scanning /\ in.cflow = "branch"
    BY <1>2 DEF ScanBranch
  <2>2. Successors(fs) = {x \in {t, n} : in_image(x)}
    BY <1>0, <2>1, ScanSuccessors DEF Transfers
  <2> HIDE DEF in, t, n
  <2>3. /\ e \in DiscT /\ d.seen \subseteq e.seen /\ Len(e.work) >= Len(d.work)
        /\ \A x \in e.seen : x \in d.seen \/ (x = t /\ in_image(t))
        /\ (in_image(t) => t \in e.seen) \/ Len(e.work) >= MaxFuncs
    BY <1>0, PushMarks
  <2> HIDE DEF e
  <2>4. /\ d' \in DiscT /\ e.seen \subseteq d'.seen /\ Len(d'.work) >= Len(e.work)
        /\ \A x \in d'.seen : x \in e.seen \/ (x = n /\ in_image(n))
        /\ (in_image(n) => n \in d'.seen) \/ Len(d'.work) >= MaxFuncs
    BY <1>0, <2>1, <2>3, PushMarks
  <2>5. Len(e.work) \in Nat /\ Len(d'.work) \in Nat
    BY <2>3, <2>4 DEF DiscT
  <2>6. QED
    BY <1>0, <1>01, <2>2, <2>3, <2>4, <2>5
<1>3. CASE ScanJump
  <2>1. /\ Scanning /\ in.cflow = "jmp"
        /\ d' = IF in.mode = "ind" \/ j # 0 THEN push_func(d, j) ELSE d
    BY <1>3 DEF ScanJump
  <2>2. Successors(fs) = {x \in (IF in.mode = "ind" \/ t # 0 THEN {j} ELSE {}) : in_image(x)}
    BY <1>0, <2>1, ScanSuccessors DEF Transfers
  <2>3. in.mode # "ind" => j = t
    BY DEF JumpTarget
  <2> HIDE DEF in, t, j
  <2>4. CASE d' = push_func(d, j) /\ (in.mode = "ind" \/ t # 0)
    <3>1. Successors(fs) = {x \in {j} : in_image(x)}
      BY <2>2, <2>4
    <3>2. /\ d' \in DiscT /\ Len(d'.work) >= Len(d.work)
          /\ d.seen \subseteq d'.seen
          /\ \A x \in d'.seen : x \in d.seen \/ (x = j /\ in_image(j))
          /\ (in_image(j) => j \in d'.seen) \/ Len(d'.work) >= MaxFuncs
      BY <1>0, <2>4, PushMarks
    <3>3. QED
      BY <3>1, <3>2
  <2>5. CASE d' = d /\ ~(in.mode = "ind" \/ t # 0)
    BY <1>0, <2>2, <2>5
  <2>6. QED
    BY <2>1, <2>3, <2>4, <2>5
<1>4. CASE ScanStop
  <2>1. Scanning /\ in.cflow \in {"ret", "break", "stop"} /\ d' = d
    BY <1>4 DEF ScanStop
  <2>2. Successors(fs) = {}
    BY <1>0, <2>1, ScanSuccessors DEF Transfers
  <2>3. QED
    BY <1>0, <2>1, <2>2
<1>5. CASE ScanRunsOff
  BY <1>0, <1>5, ScanSuccessors DEF ScanRunsOff
<1>6. QED
  BY <1>1, <1>2, <1>3, <1>4, <1>5

(* A new block and the start it brings. *)
LEMMA AddStart ==
  ASSUME TypeOK, NEW e, NEW r, NEW f, AddBlock(e, r, f)
  PROVE  Len(funcs') = Len(funcs) + 1 /\ Starts' = Starts \cup {fs} /\ phase' = "work"
<1> DEFINE b == [start |-> fs, end |-> e, reaches_ret |-> r,
                 fallthrough |-> f, self_mod |-> FALSE]
<1>1. funcs' = Append(funcs, b) /\ funcs \in Seq(Block) /\ Len(funcs) \in Nat /\ b.start = fs
  BY DEF AddBlock, TypeOK
<1> HIDE DEF b
<1>2. /\ Len(funcs') = Len(funcs) + 1
      /\ \A i \in 1..Len(funcs) : funcs'[i] = funcs[i]
      /\ funcs'[Len(funcs) + 1] = b
  BY <1>1
<1>3. \A x \in Starts' : x \in Starts \cup {fs}
  BY <1>1, <1>2 DEF Starts
<1>4. \A x \in Starts : x \in Starts'
  BY <1>1, <1>2 DEF Starts
<1>5. fs \in Starts'
  BY <1>1, <1>2 DEF Starts
<1>6. QED
  BY <1>2, <1>3, <1>4, <1>5 DEF AddBlock

(* A block is added by the scans that end. *)
LEMMA ScanAdds ==
  ASSUME ScanCall \/ ScanBranch \/ ScanJump \/ ScanStop \/ ScanRunsOff
  PROVE  phase = "scan" /\ \E e, r, f : AddBlock(e, r, f)
BY DEF ScanCall, ScanBranch, ScanJump, ScanStop, ScanRunsOff

(* The passes move no start. *)
LEMMA PassStarts2 ==
  ASSUME TypeOK, Passes PROVE SameStarts /\ d' = d /\ InPasses
BY CutTable, MarkExtents
   DEF Passes, BlockDone, SplitHere, SplitSkip, ScanStore, MarkPatched, SameStarts,
       SameExtents, InPasses

(* Places, as the three numbers it adds up. *)
LEMMA PlacesIs ==
  ASSUME TypeOK
  PROVE  /\ Len(d.work) \in Nat /\ Len(funcs) \in Nat /\ InHandCount \in Nat
         /\ Places = Len(d.work) + Len(funcs) + InHandCount
         /\ InHandCount = 1 \/ InHandCount = 0
         /\ InHandCount = 1 <=> phase = "scan"
<1>1. Len(d.work) \in Nat /\ Len(funcs) \in Nat
  BY DEF TypeOK
<1>2. QED
  BY <1>1 DEF InHandCount, Places

(* What the three numbers do in a step, and what their sum then does. *)
LEMMA SumGrows ==
  ASSUME NEW w \in Nat, NEW f \in Nat, NEW h \in Nat,
         NEW w1 \in Nat, NEW f1 \in Nat, NEW h1 \in Nat, NEW m \in Nat,
         \/ w + f + h <= w1 + f1 + h1
         \/ f >= m /\ f1 = f
  PROVE  /\ w + f + h >= m => w1 + f1 + h1 >= m
         /\ w1 >= m => w1 + f1 + h1 >= m
OBVIOUS

(* No leader that has a place loses it before the table is full. *)
LEMMA PlacesGrow ==
  ASSUME BlockInv, [Next]_vars
  PROVE  /\ Places \in Nat /\ Places' \in Nat
         /\ Places >= MaxFuncs => Places' >= MaxFuncs
         /\ Len(d'.work) >= MaxFuncs => Places' >= MaxFuncs
<1> DEFINE w == Len(d.work)
           w1 == Len(d'.work)
           f == Len(funcs)
           f1 == Len(funcs')
           h == InHandCount
           h1 == InHandCount'
<1>0. /\ TypeOK /\ d \in DiscT /\ d.work \in Seq(Word) /\ funcs \in Seq(Block)
      /\ MaxFuncs \in Nat
  BY ConstantTypes DEF BlockInv, IInv, TypeOK, DiscT
<1>1. /\ w \in Nat /\ f \in Nat /\ h \in Nat /\ Places = w + f + h
      /\ h = 1 \/ h = 0
      /\ h = 1 <=> phase = "scan"
  BY <1>0, PlacesIs
<1>2. TypeOK'
  BY TypeStep DEF BlockInv, IInv
<1>3. /\ w1 \in Nat /\ f1 \in Nat /\ h1 \in Nat /\ Places' = w1 + f1 + h1
      /\ h1 = 1 \/ h1 = 0
      /\ h1 = 1 <=> phase' = "scan"
  <2>1. w1 \in Nat /\ f1 \in Nat
    BY <1>2 DEF TypeOK
  <2>2. h1 = (IF phase' = "scan" THEN 1 ELSE 0) /\ Places' = w1 + f1 + h1
    BY DEF InHandCount, Places
  <2> HIDE DEF w1, f1, h1
  <2>3. QED
    BY <2>1, <2>2
<1>4. \/ w <= w1 /\ f = f1 /\ (h = 1 => h1 = 1)
      \/ w <= w1 /\ f1 = f + 1
      \/ w - 1 <= w1 /\ f = f1 /\ h = 0 /\ h1 = 1
      \/ f >= MaxFuncs /\ f1 = f
  <2>1. CASE PushSeed
    <3>1. seeds[k] \in Word /\ phase' = phase /\ funcs' = funcs /\ d' = push_func(d, seeds[k])
      BY <1>0, <2>1 DEF PushSeed, TypeOK
    <3>2. d' = d \/ d' = [work |-> Append(d.work, seeds[k]), seen |-> d.seen \cup {seeds[k]}]
      BY <1>0, <3>1, PushFunc
    <3>3. Len(Append(d.work, seeds[k])) = Len(d.work) + 1
      BY <1>0, <3>1
    <3>4. w <= w1
      BY <1>1, <3>2, <3>3
    <3>5. QED
      BY <1>1, <1>3, <3>1, <3>4
  <2>2. CASE PopWork
    <3> DEFINE u == SubSeq(d.work, 1, Len(d.work) - 1)
    <3>1. d' = [d EXCEPT !.work = u] /\ funcs' = funcs /\ phase = "work" /\ d.work # <<>>
      BY <2>2 DEF PopWork
    <3>2. Len(u) = Len(d.work) - 1
      BY <1>0, <3>1
    <3>3. d'.work = u
      BY <1>0, <3>1 DEF DiscT
    <3>4. Len(funcs) >= MaxFuncs \/ phase' = "scan"
      BY <2>2 DEF PopWork
    <3> HIDE DEF u
    <3>5. f1 = f /\ w1 = w - 1 /\ (f >= MaxFuncs \/ h1 = 1) /\ h = 0
      BY <1>1, <1>3, <3>1, <3>2, <3>3, <3>4
    <3> HIDE DEF w, w1, f, f1, h, h1
    <3>6. QED
      BY <1>1, <1>3, <3>5
  <2>3. CASE ScanCall \/ ScanBranch \/ ScanJump \/ ScanStop \/ ScanRunsOff
    <3>1. Len(funcs') = Len(funcs) + 1
      BY <1>0, <2>3, ScanAdds, AddStart
    <3>2. Len(d'.work) >= Len(d.work)
      BY <2>3, <1>0, ScanPushes
    <3>3. QED
      BY <1>1, <1>3, <3>1, <3>2
  <2>4. CASE Passes
    <3>1. Len(funcs') = Len(funcs) /\ d' = d /\ InPasses
      BY <1>0, <2>4, PassStarts2 DEF SameStarts
    <3>2. phase # "scan"
      BY <3>1 DEF InPasses
    <3>3. QED
      BY <1>1, <1>3, <3>1, <3>2
  <2>5. CASE SeedsDone \/ ScanNormal \/ WorkDone \/ UNCHANGED vars
    <3>1. funcs' = funcs /\ d' = d /\ (phase = "scan" => phase' = "scan")
      BY <2>5 DEF SeedsDone, ScanNormal, WorkDone, vars
    <3>2. QED
      BY <1>1, <1>3, <3>1
  <2>6. QED
    BY <2>1, <2>2, <2>3, <2>4, <2>5 DEF Next, Descent
<1> HIDE DEF w, w1, f, f1, h, h1
<1>5. w + f + h <= w1 + f1 + h1 \/ (f >= MaxFuncs /\ f1 = f)
  BY <1>1, <1>3, <1>4
<1>6. /\ w + f + h >= MaxFuncs => w1 + f1 + h1 >= MaxFuncs
      /\ w1 >= MaxFuncs => w1 + f1 + h1 >= MaxFuncs
  BY <1>0, <1>1, <1>3, <1>5, SumGrows
<1>7. /\ Places \in Nat /\ Places' \in Nat
      /\ Places >= MaxFuncs => Places' >= MaxFuncs
      /\ w1 >= MaxFuncs => Places' >= MaxFuncs
  BY <1>1, <1>3, <1>6
<1>8. QED
  BY <1>7 DEF w1

(* Starts are a set. *)
LEMMA SameStartsSet ==
  ASSUME SameStarts PROVE Starts' = Starts
BY DEF SameStarts, Starts

(* Each step keeps every leader followed. *)
LEMMA FollowedStep ==
  ASSUME FollowInv, [Next]_vars PROVE Followed'
<1>0. /\ TypeOK /\ BlockInv /\ d \in DiscT /\ Len(funcs) \in Nat
      /\ MaxFuncs \in Nat /\ Len(seeds) \in Nat /\ k \in Nat
  BY ConstantTypes DEF FollowInv, BlockInv, IInv, TypeOK, DiscT
<1>1. /\ rom' = rom /\ span' = span /\ seeds' = seeds /\ d.seen \subseteq d'.seen
      /\ \A l : Successors(l)' = Successors(l)
  BY <1>0, ImageKept, SeenGrows, SameSuccessors DEF BlockInv
<1>2. CASE Places' >= MaxFuncs
  BY <1>2 DEF Followed
<1>3. CASE ~(Places' >= MaxFuncs)
  <2>1. /\ SeedsPushed
        /\ \A l \in Starts : Successors(l) \subseteq d.seen
        /\ ~(Len(d'.work) >= MaxFuncs)
    BY <1>0, <1>3, PlacesGrow DEF FollowInv, Followed
  <2>2. SeedsPushed'
    <3>1. CASE PushSeed
      <4>1. /\ seeds[k] \in Word /\ phase = "seed" /\ phase' = phase /\ k' = k + 1
            /\ d' = push_func(d, seeds[k])
        BY <1>0, <3>1 DEF PushSeed, TypeOK
      <4>2. CASE Len(funcs) < MaxFuncs
        <5>1. in_image(seeds[k]) => seeds[k] \in d'.seen
          BY <1>0, <2>1, <4>1, <4>2, PushMarks
        <5>2. \A j \in 1..Len(seeds) : j < k + 1 => j < k \/ j = k
          BY <1>0
        <5>3. QED
          BY <1>1, <2>1, <4>1, <5>1, <5>2, SameImage DEF SeedsPushed
      <4>3. CASE ~(Len(funcs) < MaxFuncs)
        <5>1. Len(funcs') = Len(funcs) /\ Len(d'.work) \in Nat /\ phase' # "scan"
          BY <3>1, TypeStep, <1>0, <4>1 DEF PushSeed, TypeOK
        <5>2. QED
          BY <1>0, <1>3, <4>3, <5>1 DEF Places, InHandCount
      <4>4. QED
        BY <4>2, <4>3
    <3>2. CASE ~PushSeed
      <4>1. \/ phase' = phase /\ k' = k
            \/ phase # "seed" /\ phase' # "seed"
            \/ SeedsDone
        BY <3>2 DEF Next, Descent, Passes, vars, PopWork, ScanNormal, ScanCall,
             ScanBranch, ScanJump, ScanStop, ScanRunsOff, AddBlock, WorkDone, BlockDone,
             SplitHere, SplitSkip, ScanStore, MarkPatched, NextInsn, NextBlock, PassAfter
      <4>2. CASE SeedsDone
        <5>1. phase' = "work" /\ \A j \in 1..Len(seeds) : j < k
          BY <1>0, <4>2 DEF SeedsDone
        <5>2. QED
          BY <1>1, <2>1, <5>1, SameImage DEF SeedsPushed
      <4>3. CASE (phase' = phase /\ k' = k) \/ (phase # "seed" /\ phase' # "seed")
        BY <1>1, <2>1, <4>3, SameImage DEF SeedsPushed
      <4>4. QED
        BY <4>1, <4>2, <4>3
    <3>3. QED
      BY <3>1, <3>2
  <2>3. \A l \in Starts' : Successors(l) \subseteq d'.seen
    <3>1. CASE ScanCall \/ ScanBranch \/ ScanJump \/ ScanStop \/ ScanRunsOff
      <4>1. Starts' = Starts \cup {fs}
        BY <1>0, <3>1, ScanAdds, AddStart
      <4>2. Successors(fs) \subseteq d'.seen
        BY <1>0, <2>1, <3>1, ScanPushes
      <4>3. QED
        BY <1>1, <2>1, <4>1, <4>2
    <3>2. CASE Passes
      <4>1. Starts' = Starts
        BY <1>0, <3>2, PassStarts2, SameStartsSet
      <4>2. QED
        BY <1>1, <2>1, <4>1
    <3>3. CASE PushSeed \/ SeedsDone \/ PopWork \/ ScanNormal \/ WorkDone \/ UNCHANGED vars
      <4>1. Starts' = Starts
        BY <3>3 DEF Starts, PushSeed, SeedsDone, PopWork, ScanNormal, WorkDone, vars
      <4>2. QED
        BY <1>1, <2>1, <4>1
    <3>4. QED
      BY <3>1, <3>2, <3>3 DEF Next, Descent
  <2>4. QED
    BY <1>1, <2>2, <2>3 DEF Followed
<1>4. QED
  BY <1>2, <1>3

(* Every leader is followed, from the first seed on. *)
LEMMA BeginFollow == Begin /\ TypeOK => FollowInv
<1> SUFFICES ASSUME Begin, TypeOK PROVE FollowInv
  OBVIOUS
<1>1. funcs = <<>> /\ phase = "seed" /\ k = 1
  BY DEF Begin
<1>2. SeedsPushed /\ Starts = {}
  BY <1>1 DEF SeedsPushed, Starts
<1>3. QED
  BY <1>2, BeginBlocks DEF FollowInv, Followed

(* The invariant of what was followed holds at first. *)
LEMMA FollowInit == Init => FollowInv
BY BeginFollow, TypeInit DEF Init

(* Each step keeps it. *)
LEMMA FollowStep == FollowInv /\ [Next]_vars => FollowInv'
BY BlockStep, FollowedStep DEF FollowInv

(* It is an invariant of the specification. *)
LEMMA FollowInvariant == Spec => []FollowInv
BY FollowInit, FollowStep, PTL DEF Spec

-----------------------------------------------------------------------------
(* Every transfer that a block ends in finds a block.                       *)

(* The last instruction of a block is where the straight line from its      *)
(* leader ends, so the block hands over to successors of its leader.        *)
LEMMA ExitsAreSuccessors ==
  ASSUME BlockInv, NEW i \in Unwrapped, NEW t \in Exits(funcs[i]), in_image(t)
  PROVE  t \in Successors(funcs[i].start)
<1> DEFINE f == funcs[i]
           s == f.start
           e == f.end
<1>1. /\ i \in 1..Len(funcs) /\ s <= e /\ ~f.fallthrough /\ Sound(f)
      /\ \E a \in LastInsn(f) : t \in Transfers(a)
  BY DEF Unwrapped, Exits, BlockInv, Blocks
<1>2. PICK a \in LastInsn(f) : t \in Transfers(a)
  BY <1>1
<1>3. /\ s \in Word /\ s \in Nat /\ e \in Word /\ e \in Nat /\ rom \in Roms /\ span \in Spans
      /\ Base \in Nat /\ f \in Block
      /\ Boundaries(f) = {b \in Steps(s) : b < e}
  BY <1>1, BlockBoundaries, ConstantTypes, WordIsInt DEF BlockInv, IInv, TypeOK, Block
<1>4. a \in Steps(s) /\ a < e /\ Next16(a) = e
  BY <1>2, <1>3 DEF LastInsn
<1> HIDE DEF f, s, e
<1>5. /\ \A b \in Steps(s) : b < e =>
           /\ WithinBlock(s, b)
           /\ Insn(b).cflow = "normal" <=> After(b) # e
  BY <1>1 DEF Sound, s, e
<1>6. a \in Nat /\ s <= a /\ s \in Steps(s)
  BY <1>3, <1>4, StepsUp, StepsClosed
<1>7. WithinBlock(s, a) /\ WithinBlock(s, s)
  BY <1>3, <1>4, <1>5, <1>6
<1>8. in_image(a) /\ ~Truncated(a) /\ Base <= s /\ a \in Word
  BY <1>3, <1>6, <1>7, InImageWord DEF WithinBlock, in_image
<1>9. After(a) = e
  <2>1. ~(Next16(a) < Base)
    BY <1>1, <1>3, <1>4, <1>8 DEF s, e
  <2>2. QED
    BY <1>3, <1>4, <1>8, <2>1, NextInImage
<1>10. Insn(a).cflow # "normal"
  BY <1>4, <1>5, <1>9
<1>11. ASSUME NEW b \in Steps(s), b < a PROVE WithinBlock(s, b) /\ Insn(b).cflow = "normal"
  <2>1. b \in Nat /\ After(b) \in Nat /\ After(b) <= a
    BY <1>3, <1>4, <1>11, StepsUp, StepsApart, AfterType
  <2>2. b < e /\ After(b) # e
    BY <1>3, <1>4, <1>6, <1>11, <2>1
  <2>3. QED
    BY <1>5, <2>2
<1>12. LineEnd(s) = a
  BY <1>3, <1>4, <1>8, <1>10, <1>11, LineEndIs DEF ScannedTo, Straight
<1>13. t \in Successors(s)
  BY <1>2, <1>7, <1>12 DEF Successors
<1>14. QED
  BY <1>13 DEF s, f

(* When discovery is over every leader seen has its block, unless the table *)
(* is full.                                                                 *)
LEMMA SeenHasBlock ==
  ASSUME BlockInv, ~Discovering, Len(funcs) # MaxFuncs
  PROVE  d.seen = Starts
<1>1. d.work = <<>> /\ InHand = {}
  BY DEF BlockInv, Emptied, InHand, Discovering
<1>2. Accounted(d, Starts) /\ Starts \subseteq d.seen
  BY <1>1 DEF BlockInv, IInv, SeenGetsABlock, OnePlace, Placed
<1>3. \A j : j \notin 1..Len(d.work)
  BY <1>1
<1>4. QED
  BY <1>2, <1>3 DEF Accounted

(* The invariant implies the property. *)
LEMMA ExitsHave == FollowInv => ExitsHaveBlocks
<1> SUFFICES ASSUME FollowInv, ~Discovering, Len(funcs) # MaxFuncs, NEW i \in Unwrapped,
                    NEW t \in Exits(funcs[i]), in_image(t)
             PROVE  t \in Starts
  BY DEF ExitsHaveBlocks
<1>1. BlockInv
  BY DEF FollowInv
<1>2. d.seen = Starts
  BY <1>1, SeenHasBlock
<1>3. ~(Places >= MaxFuncs)
  <2>1. d.work = <<>> /\ InHandCount = 0
    BY <1>1 DEF BlockInv, Emptied, InHandCount, Discovering
  <2>2. Len(d.work) = 0
    BY <2>1
  <2>3. Len(funcs) \in Nat /\ MaxFuncs \in Nat /\ Len(funcs) <= MaxFuncs
    BY <1>1, ConstantTypes DEF BlockInv, IInv, TypeOK, TableBounds
  <2>4. Places = Len(funcs)
    BY <2>1, <2>2, <2>3 DEF Places
  <2>5. QED
    BY <2>3, <2>4
<1>4. funcs[i].start \in Starts
  BY DEF Unwrapped, Starts
<1>5. QED
  BY <1>1, <1>2, <1>3, <1>4, ExitsAreSuccessors DEF FollowInv, Followed

(* Every transfer that a block ends in, to an address of the image, has a   *)
(* block there when discovery is over, unless the table is full.            *)
THEOREM TransfersHaveBlocks == Spec => []ExitsHaveBlocks
BY ExitsHave, FollowInvariant, PTL

-----------------------------------------------------------------------------
(* Discover implements Leaders.                                             *)

Roots == {seeds[i] : i \in 1..Len(seeds)}

(* The abstract specification reads the image as Discover does.             *)
LEMMA LeadersSuccessors == \A l : L!Successors(l) = Successors(l)
<1>1. \A a : L!Insn(a) = Insn(a)
  BY DEF L!Insn, L!RomByte, L!Off, L!decode, L!mode_len, L!OneByteModes, L!TwoByteModes,
         L!ThreeByteModes, L!ByteSize, L!WordSize, L!W, L!Signed,
         Insn, RomByte, Off, decode, mode_len, OneByteModes, TwoByteModes,
         ThreeByteModes, ByteSize, WordSize, W, Signed
<1>2. \A a : L!in_image(a) <=> in_image(a)
  BY DEF L!in_image, L!Off, in_image, Off
<1>3. \A a : L!Next16(a) = Next16(a)
  BY <1>1 DEF L!Next16, L!W, L!WordSize, L!ByteSize, Next16, W, WordSize, ByteSize
<1>4. \A l, a : L!WithinBlock(l, a) <=> WithinBlock(l, a)
  BY <1>1, <1>2 DEF L!WithinBlock, L!Truncated, L!Off, L!W, L!WordSize, L!ByteSize,
                    WithinBlock, Truncated, Off, W, WordSize, ByteSize
<1>5. \A l : L!LineEnd(l) = LineEnd(l)
  BY <1>1, <1>3, <1>4 DEF L!LineEnd, LineEnd
<1>6. \A in : L!JumpTarget(in) = JumpTarget(in)
  BY <1>2 DEF L!JumpTarget, L!img_rd16, L!RomByte, L!Off, L!W, L!WordSize, L!ByteSize,
              JumpTarget, img_rd16, RomByte, Off, W, WordSize, ByteSize
<1>7. \A a : L!Transfers(a) = Transfers(a)
  BY <1>1, <1>3, <1>6 DEF L!Transfers, Transfers
<1>8. QED
  BY <1>2, <1>4, <1>5, <1>7 DEF L!Successors, Successors

(* What may be found next.                                                  *)
Reachable == {a \in Roots : in_image(a)} \cup UNION {Successors(l) : l \in d.seen}

(* What the abstract specification may find next is what was reached. *)
LEMMA LeadersCandidates == L!Candidates = Reachable
<1>1. \A a : L!in_image(a) <=> in_image(a)
  BY DEF L!in_image, L!Off, in_image, Off
<1>2. QED
  BY <1>1, LeadersSuccessors DEF L!Candidates, Reachable, Roots

(* A push marks at most the address it is given.                            *)
LEMMA PushSeenIs ==
  ASSUME NEW dd \in DiscT, NEW a
  PROVE  /\ dd.seen \subseteq push_func(dd, a).seen
         /\ \A x \in push_func(dd, a).seen : x \in dd.seen \/ (x = a /\ in_image(a))
BY DEF push_func, DiscT

(* A step of discovery that marks only such addresses finds leaders.        *)
LEMMA FindingStep ==
  ASSUME Discovering, Discovering', rom' = rom, span' = span, seeds' = seeds,
         d.seen \subseteq d'.seen, d'.seen \subseteq d.seen \cup Reachable
  PROVE  [L!Next]_(L!vars)
<1>1. CASE d'.seen = d.seen
  BY <1>1 DEF L!vars
<1>2. CASE d'.seen # d.seen
  <2> DEFINE S == d'.seen \ d.seen
  <2>1. S # {} /\ S \in SUBSET (L!Candidates \ d.seen) /\ d'.seen = d.seen \cup S
    BY <1>2, LeadersCandidates
  <2>2. L!Find
    BY <2>1 DEF L!Find
  <2>3. QED
    BY <2>2 DEF L!Next
<1>3. QED
  BY <1>1, <1>2

(* The size of a set is the same in both modules.                           *)
LEMMA LeadersCardinality == \A S : L!Cardinality(S) = Cardinality(S)
BY DEF L!Cardinality, Cardinality

(* An interval from one has as many members as its end says. *)
LEMMA IntervalSize == \A n \in Nat : Cardinality(1..n) = n
<1> TAKE n \in Nat
<1>1. Cardinality(1..n) = IF 1 > n THEN 0 ELSE n - 1 + 1
  BY FS_Interval
<1>2. QED
  BY <1>1

(* A full table has as many leaders as blocks.                              *)
LEMMA FullTable ==
  ASSUME IInv, Len(funcs) >= MaxFuncs
  PROVE  Cardinality(d.seen) >= MaxFuncs
<1> DEFINE n == Len(funcs)
           g == [i \in 1..n |-> funcs[i].start]
<1>1. n \in Nat /\ MaxFuncs \in Nat /\ d.seen \in SUBSET Word /\ WordSize \in Nat
  BY ConstantTypes, Sizes DEF IInv, TypeOK
<1>2. IsFiniteSet(Word)
  <2>1. 0 \in Int /\ WordSize - 1 \in Int
    BY <1>1
  <2>2. IsFiniteSet(0..(WordSize - 1))
    BY <2>1, FS_Interval
  <2>3. QED
    BY <2>2 DEF Word
<1>3. IsFiniteSet(d.seen) /\ Cardinality(d.seen) \in Nat
  BY <1>1, <1>2, FS_Subset, FS_CardinalityType
<1>4. Starts \subseteq d.seen
  BY DEF IInv, OnePlace, Placed
<1>5. g \in [1..n -> d.seen]
  BY <1>4 DEF Starts
<1>6. \A i, j \in 1..n : g[i] = g[j] => i = j
  BY DEF IInv, NoDuplicateBlock
<1>7. g \in Injection(1..n, d.seen)
  BY <1>5, <1>6 DEF Injection, IsInjective
<1>8. Cardinality(1..n) = n
  BY <1>1, IntervalSize
<1>9. Cardinality(1..n) <= Cardinality(d.seen)
  BY <1>3, <1>7, FS_Injection
<1>10. QED
  BY <1>1, <1>3, <1>8, <1>9

(* When the work is done every leader is found, or the table is full.       *)
LEMMA ClosingStep ==
  ASSUME FollowInv, WorkDone PROVE L!Close
<1>1. /\ phase = "work" /\ phase' = "split" /\ d' = d /\ d.work = <<>>
      /\ rom' = rom /\ span' = span /\ seeds' = seeds
      /\ BlockInv /\ IInv /\ Len(funcs) \in Nat /\ MaxFuncs \in Nat
  BY ConstantTypes DEF WorkDone, FollowInv, BlockInv, IInv, TypeOK
<1>2. CASE Len(funcs) >= MaxFuncs
  BY <1>1, <1>2, FullTable, LeadersCardinality DEF L!Close, Discovering
<1>3. CASE ~(Len(funcs) >= MaxFuncs)
  <2>1. InHandCount = 0 /\ InHand = {} /\ Len(d.work) = 0
    BY <1>1 DEF InHandCount, InHand
  <2>2. ~(Places >= MaxFuncs)
    BY <1>1, <1>3, <2>1 DEF Places
  <2>3. SeedsPushed /\ \A l \in Starts : Successors(l) \subseteq d.seen
    BY <2>2 DEF FollowInv, Followed
  <2>4. Accounted(d, Starts)
    BY <1>1, <1>3, <2>1 DEF IInv, SeenGetsABlock
  <2>5. d.seen \subseteq Starts
    BY <2>1, <2>4 DEF Accounted
  <2>6. Reachable \subseteq d.seen
    BY <1>1, <2>3, <2>5 DEF Reachable, Roots, SeedsPushed
  <2>7. QED
    BY <1>1, <2>6, LeadersCandidates DEF L!Close, Discovering
<1>4. QED
  BY <1>2, <1>3

(* Every step finds leaders, closes discovery or leaves both alone.         *)
LEMMA LeadersStep == FollowInv /\ [Next]_vars => [L!Next]_(L!vars)
<1> SUFFICES ASSUME FollowInv, [Next]_vars PROVE [L!Next]_(L!vars)
  OBVIOUS
<1>1. /\ BlockInv /\ TypeOK /\ d \in DiscT
      /\ rom' = rom /\ span' = span /\ seeds' = seeds
  BY ImageKept DEF FollowInv, BlockInv, IInv, TypeOK, DiscT
<1>2. CASE PushSeed
  <2>1. /\ seeds[k] \in Roots /\ seeds[k] \in Word /\ d' = push_func(d, seeds[k])
        /\ Discovering /\ Discovering'
    BY <1>1, <1>2 DEF PushSeed, Roots, TypeOK, Discovering
  <2>2. /\ d.seen \subseteq d'.seen
        /\ \A x \in d'.seen : x \in d.seen \/ (x = seeds[k] /\ in_image(seeds[k]))
    BY <1>1, <2>1, PushSeenIs
  <2>3. d'.seen \subseteq d.seen \cup Reachable
    BY <2>1, <2>2 DEF Reachable
  <2>4. QED
    BY <1>1, <2>1, <2>2, <2>3, FindingStep
<1>3. CASE ScanCall \/ ScanBranch \/ ScanJump \/ ScanStop \/ ScanRunsOff
  <2>1. Discovering /\ Discovering' /\ phase = "scan"
    BY <1>3 DEF ScanCall, ScanBranch, ScanJump, ScanStop, ScanRunsOff, AddBlock, Discovering
  <2>2. d.seen \subseteq d'.seen /\ d'.seen \subseteq d.seen \cup Successors(fs)
    BY <1>1, <1>3, ScanPushes
  <2>3. fs \in d.seen
    BY <1>1, <2>1, ScanAt
  <2>4. d'.seen \subseteq d.seen \cup Reachable
    BY <2>2, <2>3 DEF Reachable
  <2>5. QED
    BY <1>1, <2>1, <2>2, <2>4, FindingStep
<1>4. CASE SeedsDone \/ PopWork \/ ScanNormal
  <2>1. Discovering /\ Discovering' /\ d'.seen = d.seen
    BY <1>1, <1>4 DEF SeedsDone, PopWork, ScanNormal, Discovering, DiscT
  <2>2. QED
    BY <1>1, <2>1 DEF L!vars
<1>5. CASE WorkDone
  BY <1>5, ClosingStep DEF L!Next
<1>6. CASE Passes
  <2>1. InPasses /\ d' = d /\ (InPasses' \/ phase' = "analyzed")
    BY <1>6 DEF Passes, BlockDone, SplitHere, SplitSkip, ScanStore, MarkPatched, NextInsn,
                NextBlock, PassAfter, InPasses
  <2>2. ~Discovering /\ ~Discovering'
    BY <2>1 DEF InPasses, Discovering
  <2>3. QED
    BY <1>1, <2>1, <2>2 DEF L!vars
<1>7. CASE UNCHANGED vars
  BY <1>7 DEF vars, L!vars, Discovering
<1>8. QED
  BY <1>2, <1>3, <1>4, <1>5, <1>6, <1>7 DEF Next, Descent

(* Discovery starts with no leader found.                                   *)
LEMMA LeadersInit == Init => L!Init
<1> SUFFICES ASSUME Init PROVE L!Init
  OBVIOUS
<1>1. /\ rom \in Roms /\ span \in Spans /\ seeds \in Seq(Word)
      /\ d.seen = {} /\ Discovering
  BY TypeInit DEF TypeOK, Init, Begin, Discovering
<1>2. Roots \subseteq Word
  BY <1>1 DEF Roots
<1>3. QED
  BY <1>1, <1>2 DEF L!Init, L!Roms, L!Spans, L!Word, L!Byte, L!WordSize, L!ByteSize,
                    Roms, Spans, Word, Byte, WordSize, ByteSize, Roots

(* Discovery finds what the roots reach by control transfers, nothing else, *)
(* and leaves none out unless as many leaders as the table has room for     *)
(* were found.                                                              *)
THEOREM LeadersFound == Spec => FindsLeaders
BY LeadersInit, LeadersStep, FollowInvariant, PTL DEF Spec, FindsLeaders, L!Spec

-----------------------------------------------------------------------------
(* The split loses no code.  A block whose end wrapped is skipped by the    *)
(* passes and has no boundaries: if the leader of what a cut removes has    *)
(* such a block, as it may at the top of the address space where the cap    *)
(* ended the cut block before it wrapped, that code is not covered.  So the *)
(* theorem is about images none of whose blocks wraps.                      *)

NoneWrapped == \A i \in 1..Len(funcs) : funcs[i].start <= funcs[i].end

(* The scan from l decodes an instruction at a. *)
OnLine(l, a) ==
  /\ a \in Steps(l)
  /\ \A b \in Steps(l) : b <= a => /\ WithinBlock(l, b)
                                   /\ b < a => Insn(b).cflow = "normal"

InCode(f, a) == a \in Steps(f.start) /\ a < f.end

(* A block from l on has it. *)
Kept(l, a) == \E j \in 1..Len(funcs) : funcs[j].start >= l /\ InCode(funcs[j], a)

Full == Len(funcs) = MaxFuncs

(* What was on the straight line of a leader, and so in its block when that *)
(* was made, stays in its block or goes to one further up.                  *)
LinesKept ==
  NoneWrapped => \/ Full
                 \/ \A l \in Starts, a \in Nat : OnLine(l, a) => Kept(l, a)

LinesInv == BlockInv /\ LinesKept

(* The image is what it was, and so is what is on a line and in a block.    *)
LEMMA SameLines ==
  ASSUME rom' = rom, span' = span
  PROVE  /\ \A l, a : OnLine(l, a)' <=> OnLine(l, a)
         /\ \A f, a : InCode(f, a)' <=> InCode(f, a)
BY SameImage DEF OnLine, InCode

(* A new block has all that is on its line. *)
LEMMA NewBlockWhole ==
  ASSUME BlockInv, phase = "scan", NEW e \in Nat, fs <= e,
         \/ Scanning /\ Insn(addr).cflow # "normal" /\ e = Next16(addr)
         \/ ~Scanning /\ e = addr,
         NEW a \in Nat, OnLine(fs, a)
  PROVE  a < e
<1>1. /\ fs \in Nat /\ addr \in Word /\ addr \in Nat /\ rom \in Roms /\ Base \in Nat
      /\ Base <= fs /\ ScannedTo(fs, addr)
  BY ScanAt
<1>2. Straight(fs, addr)
  <2>1. CASE Scanning
    BY <2>1, ScanAt
  <2>2. CASE ~Scanning
    BY <1>1, <2>2, LineStraight
  <2>3. QED
    BY <2>1, <2>2
<1>3. addr \in Steps(fs)
  BY <1>2 DEF Straight
<1>4. CASE Scanning
  <2>1. in_image(addr) /\ ~Truncated(addr) /\ e = Next16(addr) /\ Insn(addr).cflow # "normal"
    BY <1>4, ScanAt
  <2>2. ~(Next16(addr) < Base)
    BY <1>1, <2>1
  <2>3. e = After(addr)
    BY <1>1, <2>1, <2>2, NextInImage
  <2>4. ~(addr < a)
    BY <1>3, <2>1 DEF OnLine
  <2>5. QED
    BY <1>1, <2>3, <2>4, AfterType
<1>5. CASE ~Scanning
  <2>1. ~(addr <= a)
    BY <1>3, <1>5 DEF OnLine, Scanning
  <2>2. QED
    BY <1>1, <1>5, <2>1
<1>6. QED
  BY <1>4, <1>5

(* The new block is at the end of the table. *)
LEMMA AddedBlock ==
  ASSUME TypeOK, NEW e, NEW r, NEW f, AddBlock(e, r, f)
  PROVE  /\ Len(funcs') = Len(funcs) + 1
         /\ \A i \in 1..Len(funcs) : funcs'[i] = funcs[i]
         /\ funcs'[Len(funcs) + 1].start = fs
         /\ funcs'[Len(funcs) + 1].end = e
<1> DEFINE b == [start |-> fs, end |-> e, reaches_ret |-> r,
                 fallthrough |-> f, self_mod |-> FALSE]
<1>1. funcs' = Append(funcs, b) /\ funcs \in Seq(Block) /\ b.start = fs /\ b.end = e
  BY DEF AddBlock, TypeOK
<1> HIDE DEF b
<1>2. QED
  BY <1>1

(* Adding a block keeps what was there. *)
LEMMA LinesAdd ==
  ASSUME LinesInv, rom' = rom, span' = span, phase = "scan",
         NEW e \in Nat, NEW r, NEW f, AddBlock(e, r, f),
         \/ Scanning /\ Insn(addr).cflow # "normal" /\ e = Next16(addr)
         \/ ~Scanning /\ e = addr
  PROVE  LinesKept'
<1>0. /\ BlockInv /\ TypeOK /\ Len(funcs) \in Nat /\ Len(funcs) < MaxFuncs /\ MaxFuncs \in Nat
      /\ fs \in Nat
  BY ScanAt, ConstantTypes DEF LinesInv, BlockInv, IInv, TypeOK, TableBounds
<1> DEFINE n == Len(funcs) + 1
<1>1. /\ Len(funcs') = n /\ n \in 1..n /\ Starts' = Starts \cup {fs}
      /\ \A i \in 1..Len(funcs) : funcs'[i] = funcs[i] /\ i \in 1..n
      /\ funcs'[n].start = fs /\ funcs'[n].end = e
  BY <1>0, AddedBlock, AddStart
<1> HIDE DEF n
<1> SUFFICES ASSUME NoneWrapped', NEW l \in Starts', NEW a \in Nat, OnLine(l, a)
             PROVE  \E j \in 1..n : funcs'[j].start >= l /\ InCode(funcs'[j], a)
  BY <1>1, SameLines DEF LinesKept, Kept
<1>2. CASE l \in Starts
  <2>1. NoneWrapped /\ ~Full
    BY <1>0, <1>1 DEF NoneWrapped, Full
  <2>2. PICK j \in 1..Len(funcs) : funcs[j].start >= l /\ InCode(funcs[j], a)
    BY <1>2, <2>1 DEF LinesInv, LinesKept, Kept
  <2>3. QED
    BY <1>1, <2>2
<1>3. CASE l = fs
  <2>1. fs <= e
    BY <1>1 DEF NoneWrapped
  <2>2. a < e
    BY <1>0, <1>3, <2>1, NewBlockWhole
  <2>3. InCode(funcs'[n], a)
    BY <1>1, <1>3, <2>2 DEF InCode, OnLine
  <2>4. QED
    BY <1>0, <1>1, <1>3, <2>3
<1>4. QED
  BY <1>1, <1>2, <1>3

(* What a cut at a leader removes is on the straight line of that leader.   *)
LEMMA CutOnLine ==
  ASSUME BlockInv, InPasses, InPass,
         NEW a \in Steps(funcs[k].start), Next16(addr) <= a, a < funcs[k].end
  PROVE  OnLine(Next16(addr), a)
<1> DEFINE s == funcs[k].start
           e == funcs[k].end
           n == Next16(addr)
<1>1. /\ rom \in Roms /\ span \in Spans /\ s \in Nat /\ e \in Nat /\ e < WordSize /\ n \in Nat
      /\ s <= addr /\ addr < n /\ addr \in Nat
      /\ n \in Steps(s) /\ e \in Steps(s) /\ n = After(addr) /\ Sound(funcs[k])
      /\ WordSize \in Nat /\ BlockCap \in Nat
  BY PassAt, WordIsInt, Sizes, ConstantTypes DEF BlockInv, IInv, TypeOK
<1>2. \A b \in Steps(s) : b < e => /\ WithinBlock(s, b)
                                   /\ Insn(b).cflow = "normal" \/ After(b) = e
  <2>1. s <= e
    BY <1>1, StepsUp
  <2>2. QED
    BY <1>1, <2>1 DEF Sound
<1> HIDE DEF s, e, n
<1>3. Steps(n) = {b \in Steps(s) : n <= b} /\ a \in Steps(s) /\ n <= a /\ a < e
  BY <1>1, StepsFrom DEF s, n, e
<1>4. ASSUME NEW b \in Steps(n), b <= a
      PROVE  WithinBlock(n, b) /\ (b < a => Insn(b).cflow = "normal")
  <2>0. b \in Steps(s) /\ n <= b /\ b \in Nat /\ a \in Nat
    <3>1. b \in Steps(s) /\ n <= b /\ a \in Steps(s)
      BY <1>3
    <3>2. QED
      BY <1>1, <3>1, StepsUp
  <2>1. b \in Steps(s) /\ n <= b /\ b \in Nat /\ a \in Nat /\ b < e
    BY <1>1, <1>3, <1>4, <2>0
  <2>2. WithinBlock(s, b) /\ (Insn(b).cflow = "normal" \/ After(b) = e)
    BY <1>2, <2>1
  <2>3. W(b - n) = b - n /\ W(b - s) = b - s
    BY <1>1, <2>1, Sizes DEF W
  <2>4. WithinBlock(n, b)
    BY <1>1, <2>1, <2>2, <2>3 DEF WithinBlock
  <2>5. b < a => After(b) # e
    BY <1>1, <1>3, <2>1, StepsApart, AfterType
  <2>6. QED
    BY <2>2, <2>4, <2>5
<1>5. QED
  BY <1>1, <1>3, <1>4 DEF OnLine, n

(* ... and so still in a block, that of the leader or one further up.       *)
LEMMA CutKeeps ==
  ASSUME FollowInv, LinesInv, NoneWrapped, ~Full, SplitHere,
         NEW a \in Steps(funcs[k].start), Next16(addr) <= a, a < funcs[k].end
  PROVE  \E j \in 1..Len(funcs) : /\ j # k
                                  /\ funcs[j].start >= Next16(addr)
                                  /\ funcs[j].start > funcs[k].start
                                  /\ InCode(funcs[j], a)
<1>1. /\ BlockInv /\ InPasses /\ InPass /\ ~Discovering /\ Next16(addr) \in d.seen
      /\ TypeOK
  BY DEF LinesInv, BlockInv, IInv, SplitHere, LeaderNext, InPasses, Discovering
<1>2. /\ Next16(addr) \in Nat /\ funcs[k].start \in Nat /\ addr \in Nat
      /\ funcs[k].start <= addr /\ addr < Next16(addr) /\ a \in Nat
  BY <1>1, PassAt, StepsUp
<1>3. Next16(addr) \in Starts
  BY <1>1, SeenHasBlock DEF Full
<1>4. OnLine(Next16(addr), a)
  BY <1>1, CutOnLine
<1>5. PICK j \in 1..Len(funcs) : funcs[j].start >= Next16(addr) /\ InCode(funcs[j], a)
  BY <1>2, <1>3, <1>4 DEF LinesInv, LinesKept, Kept
<1>6. funcs[j].start \in Nat
  BY <1>1, BlockBoundaries
<1>7. funcs[j].start > funcs[k].start
  BY <1>2, <1>5, <1>6
<1>8. QED
  BY <1>2, <1>5, <1>7

(* A cut keeps what was there.                                              *)
LEMMA LinesCut ==
  ASSUME FollowInv, LinesInv, rom' = rom, span' = span, SplitHere
  PROVE  LinesKept'
<1>0. /\ BlockInv /\ TypeOK /\ Len(funcs) \in Nat /\ InPasses /\ InPass
  BY DEF LinesInv, BlockInv, IInv, TypeOK, SplitHere, InPasses
<1>1. /\ k \in 1..Len(funcs) /\ Len(funcs') = Len(funcs) /\ SameStarts
      /\ funcs'[k].start = funcs[k].start
      /\ funcs'[k].end = Next16(addr)
      /\ \A i \in 1..Len(funcs) : i # k => funcs'[i] = funcs[i]
  BY <1>0, CutTable DEF SameStarts
<1>2. Starts' = Starts
  BY <1>1, SameStartsSet
<1>3. /\ Next16(addr) \in Nat /\ funcs[k].start \in Nat /\ funcs[k].end \in Nat
      /\ funcs[k].start <= funcs[k].end
  <2>1. /\ Next16(addr) \in Nat /\ funcs[k].start \in Nat /\ funcs[k].end \in Nat /\ addr \in Nat
        /\ funcs[k].start <= addr /\ addr < funcs[k].end
    BY <1>0, PassAt
  <2>2. QED
    BY <2>1
<1> SUFFICES ASSUME NoneWrapped', ~Full', NEW l \in Starts, NEW a \in Nat, OnLine(l, a)
             PROVE  \E j \in 1..Len(funcs) : funcs'[j].start >= l /\ InCode(funcs'[j], a)
  BY <1>1, <1>2, SameLines DEF LinesKept, Kept
<1>4. NoneWrapped /\ ~Full
  BY <1>1, <1>3 DEF NoneWrapped, Full
<1>5. PICK j \in 1..Len(funcs) : funcs[j].start >= l /\ InCode(funcs[j], a)
  BY <1>4 DEF LinesInv, LinesKept, Kept
<1>6. CASE j # k
  BY <1>1, <1>5, <1>6
<1>7. CASE j = k /\ a < Next16(addr)
  BY <1>1, <1>5, <1>7 DEF InCode
<1>8. CASE j = k /\ ~(a < Next16(addr))
  <2>1. a \in Steps(funcs[k].start) /\ a < funcs[k].end /\ Next16(addr) <= a
    BY <1>3, <1>5, <1>8 DEF InCode
  <2>2. PICK i \in 1..Len(funcs) : /\ i # k
                                   /\ funcs[i].start > funcs[k].start
                                   /\ InCode(funcs[i], a)
    BY <1>4, <2>1, CutKeeps
  <2>3. funcs[i].start \in Nat /\ l \in Nat
    <3>1. PICK m \in 1..Len(funcs) : l = funcs[m].start
      BY DEF Starts
    <3>2. QED
      BY <1>0, <3>1, BlockBoundaries
  <2>4. funcs[i].start >= l
    BY <1>3, <1>5, <1>8, <2>2, <2>3
  <2>5. QED
    BY <1>1, <2>2, <2>4
<1>9. QED
  BY <1>6, <1>7, <1>8

(* Each step keeps the lines. *)
LEMMA LinesStep ==
  ASSUME FollowInv, LinesInv, [Next]_vars PROVE LinesKept'
<1>0. /\ BlockInv /\ TypeOK /\ rom' = rom /\ span' = span /\ Len(funcs) \in Nat
  BY ImageKept DEF LinesInv, BlockInv, IInv, TypeOK
<1>1. CASE ScanCall \/ ScanBranch \/ ScanJump \/ ScanStop
  <2>1. PICK r : AddBlock(Next16(addr), r, FALSE)
    BY <1>1 DEF ScanCall, ScanBranch, ScanJump, ScanStop
  <2>2. phase = "scan" /\ Scanning /\ Insn(addr).cflow # "normal"
    BY <1>1 DEF ScanCall, ScanBranch, ScanJump, ScanStop
  <2>3. Next16(addr) \in Nat
    BY <1>0, Next16Type, WordIsInt DEF TypeOK
  <2>4. QED
    BY <1>0, <2>1, <2>2, <2>3, LinesAdd
<1>2. CASE ScanRunsOff
  <2>1. AddBlock(addr, FALSE, TRUE) /\ phase = "scan" /\ ~Scanning
    BY <1>2 DEF ScanRunsOff
  <2>2. addr \in Nat
    BY <1>0, <2>1, ScanAt
  <2>3. QED
    BY <1>0, <2>1, <2>2, LinesAdd
<1>3. CASE SplitHere
  BY <1>0, <1>3, LinesCut
<1>4. CASE SameExtents
  <2>1. /\ Len(funcs') = Len(funcs)
        /\ \A i \in 1..Len(funcs) :
              funcs'[i].start = funcs[i].start /\ funcs'[i].end = funcs[i].end
    BY <1>4 DEF SameExtents
  <2>2. Starts' = Starts
    BY <2>1, SameStartsSet DEF SameStarts
  <2>3. (NoneWrapped' <=> NoneWrapped) /\ (Full' <=> Full)
    BY <2>1 DEF NoneWrapped, Full
  <2>4. ASSUME NEW l, NEW a PROVE Kept(l, a)' <=> Kept(l, a)
    BY <1>0, <2>1, SameImage DEF Kept, InCode
  <2>5. QED
    BY <1>0, <2>2, <2>3, <2>4, SameLines DEF LinesInv, LinesKept
<1>5. funcs' = funcs => SameExtents
  BY DEF SameExtents
<1>6. QED
  BY <1>0, <1>1, <1>2, <1>3, <1>4, <1>5, MarkExtents
     DEF Next, Descent, Passes, vars, PushSeed, SeedsDone, PopWork, ScanNormal, WorkDone,
         BlockDone, SplitSkip

(* Before the first block there is nothing to keep.                         *)
LEMMA LinesInit == Init => LinesInv
<1>1. Init => Starts = {}
  BY DEF Init, Begin, Starts
<1>2. QED
  BY <1>1, BlockInit DEF LinesInv, LinesKept

(* The invariant of the lines is one of the specification. *)
LEMMA LinesInvariant == Spec => []LinesInv
<1>1. FollowInv /\ LinesInv /\ [Next]_vars => LinesInv'
  BY LinesStep, BlockStep DEF LinesInv
<1>2. QED
  BY <1>1, LinesInit, FollowInvariant, PTL DEF Spec

(* What is covered changes in no step of the split.                         *)
LEMMA CoverageStep ==
  ASSUME FollowInv, LinesInv, NoneWrapped, [Next]_vars, phase = "split", ~Full
  PROVE  Covered' = Covered
<1>0. /\ BlockInv /\ TypeOK /\ TypeOK' /\ rom' = rom /\ span' = span /\ Len(funcs) \in Nat
  BY ImageKept, TypeStep DEF LinesInv, BlockInv, IInv, TypeOK
<1>1. CASE SameExtents
  BY <1>0, <1>1, KeptBoundaries DEF Covered, Unwrapped, SameExtents
<1>2. CASE SplitHere
  <2>1. /\ k \in 1..Len(funcs) /\ Len(funcs') = Len(funcs)
        /\ funcs'[k].start = funcs[k].start
        /\ funcs'[k].end = Next16(addr)
        /\ \A i \in 1..Len(funcs) : i # k => funcs'[i] = funcs[i]
    BY <1>0, <1>2, CutTable DEF SameStarts
  <2>2. /\ InPasses /\ InPass
    BY <1>2 DEF SplitHere, InPasses
  <2>3. /\ Next16(addr) \in Nat /\ funcs[k].start \in Nat /\ funcs[k].end \in Nat
        /\ funcs[k].start < Next16(addr) /\ Next16(addr) <= funcs[k].end
    <3>1. /\ Next16(addr) \in Nat /\ funcs[k].start \in Nat /\ funcs[k].end \in Nat
          /\ addr \in Nat /\ funcs[k].start <= addr /\ addr < Next16(addr)
          /\ Next16(addr) <= funcs[k].end
      BY <1>0, <2>2, PassAt
    <3>2. QED
      BY <3>1
  <2>4. Unwrapped = 1..Len(funcs) /\ Unwrapped' = 1..Len(funcs)
    <3>1. \A i \in 1..Len(funcs) : funcs'[i].start <= funcs'[i].end
      BY <2>1, <2>3 DEF NoneWrapped
    <3>2. QED
      BY <2>1, <3>1 DEF Unwrapped, NoneWrapped
  <2>5. \A i \in 1..Len(funcs) : \A a : a \in Boundaries(funcs[i]) <=> InCode(funcs[i], a)
    BY <1>0, BlockBoundaries DEF InCode
  <2>6. \A i \in 1..Len(funcs) : \A a : (a \in Boundaries(funcs[i]))' <=> InCode(funcs'[i], a)
    <3>1. \A i \in 1..Len(funcs) : funcs'[i].start \in Nat /\ funcs'[i].end \in Nat
      <4>1. \A i \in 1..Len(funcs) : funcs[i].start \in Nat /\ funcs[i].end \in Nat
        BY <1>0, BlockBoundaries
      <4>2. QED
        BY <2>1, <2>3, <4>1
    <3>2. \A f : f.start \in Nat /\ f.end \in Nat =>
                   \A a : a \in Boundaries(f) <=> InCode(f, a)
      BY BoundariesAre DEF InCode
    <3>3. QED
      BY <1>0, <3>1, <3>2, SameBoundaries
  <2>7. ASSUME NEW i \in 1..Len(funcs), NEW a, InCode(funcs'[i], a)
        PROVE  \E j \in 1..Len(funcs) : InCode(funcs[j], a)
    <3>1. CASE i # k
      BY <2>1, <2>7, <3>1
    <3>2. CASE i = k
      <4>1. a \in Steps(funcs[k].start) /\ a < Next16(addr) /\ a \in Nat
        BY <2>1, <2>3, <2>7, <3>2, StepsUp DEF InCode
      <4>2. InCode(funcs[k], a)
        BY <2>3, <4>1 DEF InCode
      <4>3. QED
        BY <2>1, <4>2
    <3>3. QED
      BY <3>1, <3>2
  <2>8. ASSUME NEW i \in 1..Len(funcs), NEW a, InCode(funcs[i], a)
        PROVE  \E j \in 1..Len(funcs) : InCode(funcs'[j], a)
    <3>1. CASE i # k
      BY <2>1, <2>8, <3>1
    <3>2. CASE i = k /\ a < Next16(addr)
      BY <2>1, <2>8, <3>2 DEF InCode
    <3>3. CASE i = k /\ ~(a < Next16(addr))
      <4>1. a \in Steps(funcs[k].start) /\ Next16(addr) <= a /\ a < funcs[k].end
        BY <2>3, <2>8, <3>3, StepsUp DEF InCode
      <4>2. PICK j \in 1..Len(funcs) : j # k /\ InCode(funcs[j], a)
        BY <1>2, <4>1, CutKeeps
      <4>3. QED
        BY <2>1, <4>2
    <3>4. QED
      BY <3>1, <3>2, <3>3
  <2>9. \A a : a \in Covered <=> \E i \in 1..Len(funcs) : InCode(funcs[i], a)
    BY <2>4, <2>5 DEF Covered
  <2>10. \A a : a \in Covered' <=> \E i \in 1..Len(funcs) : InCode(funcs'[i], a)
    BY <2>4, <2>6 DEF Covered
  <2>11. QED
    BY <2>7, <2>8, <2>9, <2>10
<1>3. funcs' = funcs => SameExtents
  BY DEF SameExtents
<1>4. QED
  BY <1>1, <1>2, <1>3
     DEF Next, Descent, Passes, vars, PushSeed, SeedsDone, PopWork, ScanNormal, ScanCall,
         ScanBranch, ScanJump, ScanStop, ScanRunsOff, WorkDone, BlockDone, SplitSkip,
         ScanStore, MarkPatched

(* The split loses no code as long as no block wraps.                       *)
THEOREM SplitLosesNothing == Spec /\ []NoneWrapped => SplitKeepsCode
<1>1. FollowInv /\ LinesInv /\ NoneWrapped /\ [Next]_vars =>
        [phase = "split" => \/ Covered' = Covered
                            \/ Len(funcs) = MaxFuncs]_vars
  BY CoverageStep DEF Full
<1>2. QED
  BY <1>1, FollowInvariant, LinesInvariant, PTL DEF Spec, SplitKeepsCode

(* No block wraps in an image that ends below the top of the address space. *)
ImagesBelowTop == \A i \in Inputs : Base + Len(i.rom) < WordSize

BelowTop == Base + Len(rom) < WordSize

(* A scan in such an image stays on its line. *)
LEMMA ScanBelowTop ==
  ASSUME BlockInv, phase = "scan", BelowTop
  PROVE  /\ Straight(fs, addr) /\ fs <= addr
         /\ Scanning => Next16(addr) = After(addr) /\ addr < After(addr)
                        /\ After(addr) \in Nat
<1>0. /\ fs \in Nat /\ addr \in Word /\ addr \in Nat /\ rom \in Roms /\ span \in Spans
      /\ Base \in Nat /\ Len(rom) \in Nat /\ ScannedTo(fs, addr) /\ WordSize \in Nat
  BY ScanAt, Sizes DEF BlockInv, IInv, TypeOK, Roms
<1>1. ASSUME NEW a \in Word, in_image(a), ~Truncated(a)
      PROVE  Next16(a) = After(a) /\ a < After(a) /\ Base <= a /\ After(a) \in Nat
  <2>1. a \in Nat /\ After(a) \in Nat /\ a < After(a) /\ Base <= a
    BY <1>0, <1>1, WordIsInt, AfterType DEF in_image
  <2>2. Insn(a).len \in {1, 2, 3}
    BY <2>1, AfterType
  <2>3. After(a) < WordSize
    BY <1>0, <1>1, <2>1, <2>2 DEF Truncated, Off, After, BelowTop
  <2>4. QED
    BY <2>1, <2>3, NoWrap
<1>2. Straight(fs, addr)
  <2>1. ~(\E a \in Steps(fs) : /\ WithinBlock(fs, a) /\ Next16(a) = addr /\ addr < Base)
    <3> SUFFICES ASSUME NEW a \in Steps(fs), WithinBlock(fs, a), Next16(a) = addr,
                        addr < Base
                 PROVE  FALSE
      OBVIOUS
    <3>1. in_image(a) /\ ~Truncated(a) /\ a \in Nat /\ a \in Word
      BY <1>0, StepsUp, InImageWord DEF WithinBlock
    <3>2. QED
      BY <1>0, <1>1, <3>1
  <2>2. QED
    BY <1>0, <2>1 DEF ScannedTo
<1>3. fs <= addr
  BY <1>0, <1>2, StepsUp DEF Straight
<1>4. Scanning => in_image(addr) /\ ~Truncated(addr)
  BY DEF Scanning, WithinBlock
<1>5. QED
  BY <1>0, <1>1, <1>2, <1>3, <1>4

(* The invariant for such images.                                           *)
LEMMA NoneWrapsStep ==
  ASSUME BlockInv, BelowTop, NoneWrapped, [Next]_vars
  PROVE  BelowTop' /\ NoneWrapped'
<1>0. /\ TypeOK /\ rom' = rom /\ span' = span /\ Len(funcs) \in Nat
  BY ImageKept DEF BlockInv, IInv, TypeOK
<1>1. BelowTop'
  BY <1>0 DEF BelowTop
<1>2. ASSUME NEW e, NEW r, NEW f, AddBlock(e, r, f), fs <= e
      PROVE  NoneWrapped'
  BY <1>0, <1>2, AddedBlock DEF NoneWrapped
<1>3. CASE ScanCall \/ ScanBranch \/ ScanJump \/ ScanStop
  <2>1. PICK r : AddBlock(Next16(addr), r, FALSE)
    BY <1>3 DEF ScanCall, ScanBranch, ScanJump, ScanStop
  <2>2. phase = "scan" /\ Scanning
    BY <1>3 DEF ScanCall, ScanBranch, ScanJump, ScanStop
  <2>3. fs \in Nat /\ addr \in Nat
    BY <2>2, ScanAt
  <2>4. fs <= Next16(addr)
    BY <2>2, <2>3, ScanBelowTop
  <2>5. QED
    BY <1>1, <1>2, <2>1, <2>4
<1>4. CASE ScanRunsOff
  <2>1. AddBlock(addr, FALSE, TRUE) /\ phase = "scan"
    BY <1>4 DEF ScanRunsOff
  <2>2. QED
    BY <1>1, <1>2, <2>1, ScanBelowTop
<1>5. CASE SplitHere
  <2>1. /\ k \in 1..Len(funcs) /\ Len(funcs') = Len(funcs)
        /\ funcs'[k].start = funcs[k].start
        /\ funcs'[k].end = Next16(addr)
        /\ \A i \in 1..Len(funcs) : i # k => funcs'[i] = funcs[i]
    BY <1>0, <1>5, CutTable DEF SameStarts
  <2>2. InPasses /\ InPass
    BY <1>5 DEF SplitHere, InPasses
  <2>3. funcs[k].start \in Nat /\ addr \in Nat /\ Next16(addr) \in Nat
        /\ funcs[k].start <= addr /\ addr < Next16(addr)
    BY <2>2, PassAt
  <2>4. funcs[k].start <= Next16(addr)
    BY <2>3
  <2>5. QED
    BY <1>1, <2>1, <2>4 DEF NoneWrapped
<1>6. CASE SameExtents
  BY <1>1, <1>6 DEF SameExtents, NoneWrapped
<1>7. funcs' = funcs => SameExtents
  BY DEF SameExtents
<1>8. QED
  BY <1>0, <1>3, <1>4, <1>5, <1>6, <1>7, MarkExtents
     DEF Next, Descent, Passes, vars, PushSeed, SeedsDone, PopWork, ScanNormal, WorkDone,
         BlockDone, SplitSkip

(* In images that end below the top of the address space no block wraps.    *)
LEMMA NoneWraps == ASSUME ImagesBelowTop PROVE Spec => []NoneWrapped
<1>1. Init => BelowTop /\ NoneWrapped
  BY DEF ImagesBelowTop, BelowTop, NoneWrapped, Init, Begin
<1>2. BlockInv /\ (BelowTop /\ NoneWrapped) /\ [Next]_vars => (BelowTop /\ NoneWrapped)'
  BY NoneWrapsStep
<1>3. QED
  BY <1>1, <1>2, BlocksInvariant, PTL DEF Spec

(* ... so there the split loses no code.                                    *)
THEOREM SplitLosesNothingBelowTop ==
  ASSUME ImagesBelowTop PROVE Spec => SplitKeepsCode
BY NoneWraps, SplitLosesNothing, PTL
=============================================================================
