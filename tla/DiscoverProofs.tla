--------------------------- MODULE DiscoverProofs ---------------------------
(***************************************************************************)
(* Theorems about module Discover, for every opcode table, image, seeds,   *)
(* capacity and cap that its assumptions allow.                            *)
(***************************************************************************)
EXTENDS Discover, SequenceTheorems, TLAPS

DiscT == [work : Seq(Word), seen : SUBSET Word]

-----------------------------------------------------------------------------
(* The decoder. *)

(* The constants, from their assumptions. *)
LEMMA ConstantTypes ==
  /\ Base \in Word
  /\ BlockCap \in Word
  /\ MaxFuncs \in Nat \ {0}
BY ImageAssumption, MaxFuncsAssumption DEF ImageAssumption, MaxFuncsAssumption

(* Words and bytes, without their sizes.                                   *)
LEMMA Sizes ==
  /\ ByteSize = 256
  /\ WordSize = 256 * 256
  /\ WordSize \in Nat
BY DEF ByteSize, WordSize

(* A word and a byte as intervals of integers. *)
LEMMA WordIsInt == \A a : a \in Word <=> a \in Int /\ a >= 0 /\ a < WordSize
<1>1. WordSize \in Nat
  BY Sizes
<1>2. QED
  BY <1>1 DEF Word

(* A byte as an interval of integers. *)
LEMMA ByteIsInt == \A b : b \in Byte <=> b \in Int /\ b >= 0 /\ b < ByteSize
BY Sizes DEF Byte

(* What RomByte returns past the end of the image. *)
LEMMA ZeroIsByte == 0 \in Byte /\ 0 \in Word
BY Sizes, WordIsInt, ByteIsInt

(* A byte is a word, and so are two bytes together. *)
LEMMA ByteIsWord == \A b \in Byte : b \in Word
BY Sizes, WordIsInt, ByteIsInt

(* Two bytes make a word. *)
LEMMA TwoBytes ==
  ASSUME NEW b \in Byte, NEW c \in Byte PROVE b + ByteSize * c \in Word
<1>1. b \in Int /\ b >= 0 /\ b < 256 /\ c \in Int /\ c >= 0 /\ c < 256
  BY ByteIsInt, Sizes
<1>2. b + 256 * c \in Int /\ b + 256 * c >= 0 /\ b + 256 * c < 256 * 256
  BY <1>1
<1>3. QED
  BY <1>2, Sizes, WordIsInt

(* W wraps any integer to a word, as a conversion to uint16_t does. *)
LEMMA WType ==
  ASSUME NEW x \in Int PROVE W(x) \in Word
BY Sizes, WordIsInt DEF W

(* An instruction has one to three bytes in every addressing mode. *)
LEMMA ModeLen ==
  ASSUME NEW m PROVE mode_len(m) \in {1, 2, 3}
BY DEF mode_len

(* A byte of the image is a byte, at whatever offset. *)
LEMMA RomByteType ==
  ASSUME rom \in Roms, NEW o \in Int PROVE RomByte(o) \in Byte
<1>1. rom \in Seq(Byte)
  BY DEF Roms
<1>2. CASE o \in 0..(Len(rom) - 1)
  <2>1. o + 1 \in 1..Len(rom)
    BY <1>1, <1>2
  <2>2. QED
    BY <1>1, <1>2, <2>1 DEF RomByte
<1>3. CASE o \notin 0..(Len(rom) - 1)
  BY <1>3, ZeroIsByte DEF RomByte
<1>4. QED
  BY <1>2, <1>3

(* What the rest of the analyzer relies on in a decoded instruction.       *)
LEMMA InsnType ==
  ASSUME rom \in Roms, NEW a \in Word
  PROVE  /\ Insn(a).len \in {1, 2, 3}
         /\ Insn(a).operand \in Word
         /\ Insn(a).target \in Word
         /\ Insn(a).mode \in Modes
         /\ Insn(a).cflow \in CFlows
<1> DEFINE b0 == RomByte(Off(a))
           b1 == RomByte(Off(a) + 1)
           b2 == RomByte(Off(a) + 2)
<1>1. a \in Int /\ Off(a) \in Int
  BY ConstantTypes, WordIsInt DEF Off
<1>2. b0 \in Byte /\ b1 \in Byte /\ b2 \in Byte
  BY <1>1, RomByteType
<1> HIDE DEF b0, b1, b2
<1>3. Insn(a) = decode(b0, b1, b2, a)
  BY DEF Insn, b0, b1, b2
<1>4. W(a + 2 + Signed(b1)) \in Word
  <2>1. Signed(b1) \in Int
    BY <1>2, ByteIsInt, Sizes DEF Signed
  <2>2. QED
    BY <1>1, <2>1, WType
<1>5. decode(b0, b1, b2, a).len \in {1, 2, 3}
  BY ModeLen DEF decode
<1>6. decode(b0, b1, b2, a).operand \in Word
  BY <1>2, ZeroIsByte, ByteIsWord, TwoBytes DEF decode
<1>7. decode(b0, b1, b2, a).target \in Word
  BY <1>2, <1>4, ZeroIsByte, TwoBytes DEF decode
<1>8. /\ decode(b0, b1, b2, a).mode = Optab[b0].mode
      /\ decode(b0, b1, b2, a).cflow = Optab[b0].cflow
  BY DEF decode
<1>9. QED
  BY <1>2, <1>3, <1>5, <1>6, <1>7, <1>8, OptabType DEF OptabType

(* The address of the next instruction wraps to a word. *)
LEMMA Next16Type ==
  ASSUME rom \in Roms, NEW a \in Word PROVE Next16(a) \in Word
<1>1. a + Insn(a).len \in Int
  BY InsnType, WordIsInt
<1>2. QED
  BY <1>1, WType DEF Next16

(* A jump names a word, through a pointer too. *)
LEMMA JumpTargetType ==
  ASSUME rom \in Roms, NEW a \in Word PROVE JumpTarget(Insn(a)) \in Word
<1> DEFINE o == Insn(a).operand
<1>1. o \in Word /\ Insn(a).target \in Word
  BY InsnType
<1> HIDE DEF o
<1>2. Off(o) \in Int /\ Off(o) + 1 \in Int
  BY <1>1, ConstantTypes, WordIsInt DEF Off
<1>3. RomByte(Off(o)) \in Byte /\ RomByte(Off(o) + 1) \in Byte
  BY <1>2, RomByteType
<1>4. RomByte(Off(o)) + ByteSize * RomByte(Off(o) + 1) \in Word
  BY <1>3, TwoBytes
<1>5. img_rd16(o) \in Word
  BY <1>4, ZeroIsByte DEF img_rd16
<1>6. QED
  BY <1>1, <1>5 DEF JumpTarget, o

-----------------------------------------------------------------------------
(* push_func. *)

(* push_func does nothing or marks and pushes a new leader. *)
LEMMA PushFunc ==
  ASSUME NEW dd \in DiscT, NEW a \in Word
  PROVE  \/ push_func(dd, a) = dd
         \/ /\ a \notin dd.seen /\ Len(dd.work) < MaxFuncs
            /\ push_func(dd, a) = [work |-> Append(dd.work, a), seen |-> dd.seen \cup {a}]
<1>1. Len(dd.work) \in Nat
  BY DEF DiscT
<1>2. QED
  BY <1>1, ConstantTypes DEF push_func

(* push_func keeps the types of disc_t. *)
LEMMA PushFuncType ==
  ASSUME NEW dd \in DiscT, NEW a \in Word
  PROVE  push_func(dd, a) \in DiscT
<1>1. dd.work \in Seq(Word) /\ dd.seen \in SUBSET Word
  BY DEF DiscT
<1>2. Append(dd.work, a) \in Seq(Word) /\ dd.seen \cup {a} \in SUBSET Word
  BY <1>1
<1>3. [work |-> Append(dd.work, a), seen |-> dd.seen \cup {a}] \in DiscT
  BY <1>2 DEF DiscT
<1>4. QED
  BY <1>3, PushFunc

(* push_func never overruns the work stack. *)
LEMMA PushFuncBound ==
  ASSUME NEW dd \in DiscT, NEW a \in Word, Len(dd.work) <= MaxFuncs
  PROVE  Len(push_func(dd, a).work) <= MaxFuncs
BY PushFunc, ConstantTypes DEF DiscT

(* push_func keeps each leader in one place only: what it pushes is new. *)
LEMMA PushFuncPlaced ==
  ASSUME NEW dd \in DiscT, NEW a \in Word, NEW T, Placed(dd, T)
  PROVE  Placed(push_func(dd, a), T)
<1> DEFINE ee == [work |-> Append(dd.work, a), seen |-> dd.seen \cup {a}]
<1>1. CASE push_func(dd, a) = dd
  BY <1>1
<1>2. CASE a \notin dd.seen /\ push_func(dd, a) = ee
  <2>1. dd.work \in Seq(Word) /\ Len(dd.work) \in Nat
    BY DEF DiscT
  <2>2. /\ Len(ee.work) = Len(dd.work) + 1
        /\ \A i \in 1..Len(dd.work) : ee.work[i] = dd.work[i]
        /\ ee.work[Len(dd.work) + 1] = a
    BY <2>1
  <2>3. \A i \in 1..Len(dd.work) : dd.work[i] # a
    BY <1>2 DEF Placed
  <2>4. a \notin T
    BY <1>2 DEF Placed
  <2>5. QED
    BY <1>2, <2>1, <2>2, <2>3, <2>4 DEF Placed
<1>3. QED
  BY <1>1, <1>2, PushFunc

(* push_func keeps account of each leader seen. *)
LEMMA PushFuncAccounted ==
  ASSUME NEW dd \in DiscT, NEW a \in Word, NEW T, Accounted(dd, T)
  PROVE  Accounted(push_func(dd, a), T)
<1> DEFINE ee == [work |-> Append(dd.work, a), seen |-> dd.seen \cup {a}]
<1>1. CASE push_func(dd, a) = dd
  BY <1>1
<1>2. CASE push_func(dd, a) = ee
  <2>1. dd.work \in Seq(Word) /\ Len(dd.work) \in Nat
    BY DEF DiscT
  <2>2. /\ Len(ee.work) = Len(dd.work) + 1
        /\ \A i \in 1..Len(dd.work) : ee.work[i] = dd.work[i]
        /\ ee.work[Len(dd.work) + 1] = a
    BY <2>1
  <2>3. QED
    BY <1>2, <2>1, <2>2 DEF Accounted
<1>3. QED
  BY <1>1, <1>2, PushFunc

-----------------------------------------------------------------------------
(* Type correctness. *)

(* The inputs have the types of the C parameters. *)
LEMMA InputType ==
  ASSUME NEW i \in Inputs PROVE i.rom \in Roms /\ i.span \in Spans /\ i.seeds \in Seq(Word)
BY InputsAssumption DEF InputsAssumption, Roms

(* analyze_discover starts with empty tables of the right types. *)
LEMMA BeginType ==
  ASSUME Begin, rom \in Roms, span \in Spans, seeds \in Seq(Word) PROVE TypeOK
<1>1. d \in [work : Seq(Word), seen : SUBSET Word]
  BY DEF Begin
<1>2. funcs \in Seq(Block)
  BY DEF Begin
<1>3. phase \in Phases /\ k \in Nat \ {0}
  BY DEF Begin, Phases
<1>4. ext \in SUBSET Word /\ patched \in SUBSET Word
  BY DEF Begin
<1>5. fs \in Word /\ addr \in Word
  BY ZeroIsByte DEF Begin
<1>6. QED
  BY <1>1, <1>2, <1>3, <1>4, <1>5 DEF TypeOK

(* The types hold initially. *)
LEMMA TypeInit == Init => TypeOK
<1> SUFFICES ASSUME Init PROVE TypeOK
  OBVIOUS
<1>1. rom \in Roms /\ span \in Spans /\ seeds \in Seq(Word) /\ Begin
  BY InputType DEF Init
<1>2. QED
  BY <1>1, BeginType

(* The slot discover_one fills is a block. *)
LEMMA AddBlockType ==
  ASSUME TypeOK, NEW e \in Word, NEW r \in BOOLEAN, NEW f \in BOOLEAN, AddBlock(e, r, f)
  PROVE  /\ funcs' \in Seq(Block)
         /\ UNCHANGED <<rom, span, seeds, patched, fs, k, addr>>
         /\ phase' \in Phases
<1> DEFINE b == [start |-> fs, end |-> e, reaches_ret |-> r,
                 fallthrough |-> f, self_mod |-> FALSE]
<1>1. b \in Block
  BY DEF TypeOK, Block
<1>2. funcs' = Append(funcs, b)
  BY DEF AddBlock
<1> HIDE DEF b
<1>3. funcs' \in Seq(Block)
  BY <1>1, <1>2 DEF TypeOK
<1>4. QED
  BY <1>3 DEF AddBlock, Phases

(* The externals are words. *)
LEMMA AddExtType ==
  ASSUME ext \in SUBSET Word, NEW a \in Word PROVE add_ext(a) \in SUBSET Word
BY DEF add_ext

(* The parts of TypeOK that one block ending in a transfer changes.         *)
LEMMA ScanType ==
  ASSUME TypeOK, d' \in DiscT, ext' \in SUBSET Word,
         NEW e \in Word, NEW r \in BOOLEAN, NEW f \in BOOLEAN, AddBlock(e, r, f)
  PROVE  TypeOK'
BY AddBlockType DEF TypeOK, DiscT

(* A pass begins at the start of a block, or at no address. *)
LEMMA FirstAddrType == TypeOK => FirstAddr \in Word
<1> SUFFICES ASSUME TypeOK PROVE FirstAddr \in Word
  OBVIOUS
<1>1. CASE funcs = <<>>
  BY <1>1, ZeroIsByte DEF FirstAddr
<1>2. CASE funcs # <<>>
  <2>1. 1 \in 1..Len(funcs)
    BY <1>2 DEF TypeOK
  <2>2. funcs[1] \in Block
    BY <2>1 DEF TypeOK
  <2>3. QED
    BY <1>2, <2>2 DEF FirstAddr, Block
<1>3. QED
  BY <1>1, <1>2

(* The cursors of the passes keep their types from block to block. *)
LEMMA NextBlockType ==
  ASSUME TypeOK, phase \in {"split", "stores", "patches"}, NextBlock
  PROVE  /\ phase' \in Phases /\ addr' \in Word /\ k' \in Nat \ {0}
<1>1. CASE k < Len(funcs)
  <2>1. k + 1 \in 1..Len(funcs)
    BY <1>1 DEF TypeOK
  <2>2. funcs[k + 1] \in Block
    BY <2>1 DEF TypeOK
  <2>3. QED
    BY <1>1, <2>2 DEF NextBlock, TypeOK, Block
<1>2. CASE ~(k < Len(funcs))
  <2>1. PassAfter[phase] \in Phases
    BY DEF PassAfter, Phases
  <2>2. QED
    BY <1>2, <2>1, FirstAddrType DEF NextBlock
<1>3. QED
  BY <1>1, <1>2

(* The cursors keep their types from instruction to instruction. *)
LEMMA NextInsnType ==
  ASSUME TypeOK, phase \in {"split", "stores", "patches"}, NextInsn
  PROVE  /\ phase' \in Phases /\ addr' \in Word /\ k' \in Nat \ {0}
<1>1. Next16(addr) \in Word
  BY Next16Type DEF TypeOK
<1>2. QED
  BY <1>1, NextBlockType DEF NextInsn, TypeOK

(* A block of the table with some of its flags or its end changed.          *)
LEMMA BlockInPass ==
  ASSUME TypeOK, InPass
  PROVE  k \in 1..Len(funcs) /\ funcs[k] \in Block
BY DEF InPass, TypeOK

(* A block marked self-modifying, or cut at a leader, is a block. *)
LEMMA MarkBlock == \A b \in Block : [b EXCEPT !.self_mod = TRUE] \in Block
BY DEF Block

(* A block that is cut stays a block. *)
LEMMA CutBlock ==
  ASSUME NEW b \in Block, NEW e \in Word
  PROVE  [b EXCEPT !.end = e, !.fallthrough = TRUE, !.reaches_ret = FALSE] \in Block
BY DEF Block

(* Each step keeps the types. *)
LEMMA TypeStep == TypeOK /\ [Next]_vars => TypeOK'
<1> SUFFICES ASSUME TypeOK, [Next]_vars PROVE TypeOK'
  OBVIOUS
<1>0. /\ rom \in Roms /\ fs \in Word /\ addr \in Word /\ d \in DiscT
      /\ ext \in SUBSET Word
  BY DEF TypeOK, DiscT
<1>1. CASE PushSeed
  <2>1. seeds[k] \in Word
    BY <1>1 DEF PushSeed, TypeOK
  <2>2. d' \in DiscT
    BY <1>0, <1>1, <2>1, PushFuncType DEF PushSeed
  <2>3. QED
    BY <1>1, <2>2 DEF PushSeed, TypeOK, DiscT
<1>2. CASE SeedsDone
  BY <1>2 DEF SeedsDone, TypeOK, Phases
<1>3. CASE PopWork
  <2>1. d.work \in Seq(Word) /\ d.work # <<>>
    BY <1>0, <1>3 DEF PopWork, DiscT
  <2>2. Len(d.work) \in 1..Len(d.work)
    BY <2>1
  <2>3. d.work[Len(d.work)] \in Word
    BY <2>1, <2>2
  <2>4. SubSeq(d.work, 1, Len(d.work) - 1) \in Seq(Word)
    BY <2>1
  <2>5. d' = [d EXCEPT !.work = SubSeq(d.work, 1, Len(d.work) - 1)]
    BY <1>3 DEF PopWork
  <2>6. d' \in DiscT
    BY <1>0, <2>4, <2>5 DEF DiscT
  <2>7. QED
    BY <1>3, <2>3, <2>6 DEF PopWork, TypeOK, DiscT, Phases
<1>4. CASE ScanNormal
  BY <1>0, <1>4, Next16Type DEF ScanNormal, TypeOK
<1>5. CASE ScanCall
  <2>1. Insn(addr).target \in Word /\ Next16(addr) \in Word
    BY <1>0, InsnType, Next16Type
  <2>2. d' \in DiscT
    BY <1>0, <1>5, <2>1, PushFuncType DEF ScanCall
  <2>3. ext' \in SUBSET Word
    BY <1>0, <1>5, <2>1, AddExtType DEF ScanCall
  <2>4. AddBlock(Next16(addr), FALSE, FALSE)
    BY <1>5 DEF ScanCall
  <2>5. QED
    BY <2>1, <2>2, <2>3, <2>4, ScanType
<1>6. CASE ScanBranch
  <2>1. Insn(addr).target \in Word /\ Next16(addr) \in Word
    BY <1>0, InsnType, Next16Type
  <2>2. d' \in DiscT
    BY <1>0, <1>6, <2>1, PushFuncType DEF ScanBranch
  <2>3. AddBlock(Next16(addr), FALSE, FALSE) /\ ext' = ext
    BY <1>6 DEF ScanBranch
  <2>4. QED
    BY <1>0, <2>1, <2>2, <2>3, ScanType
<1>7. CASE ScanJump
  <2>1. JumpTarget(Insn(addr)) \in Word /\ Next16(addr) \in Word
    BY <1>0, JumpTargetType, Next16Type
  <2>2. d' \in DiscT
    BY <1>0, <1>7, <2>1, PushFuncType DEF ScanJump
  <2>3. ext' \in SUBSET Word
    BY <1>0, <1>7, <2>1, AddExtType DEF ScanJump
  <2>4. AddBlock(Next16(addr), FALSE, FALSE)
    BY <1>7 DEF ScanJump
  <2>5. QED
    BY <2>1, <2>2, <2>3, <2>4, ScanType
<1>8. CASE ScanStop
  <2>1. Next16(addr) \in Word
    BY <1>0, Next16Type
  <2>2. AddBlock(Next16(addr), Insn(addr).cflow = "ret", FALSE) /\ d' = d /\ ext' = ext
    BY <1>8 DEF ScanStop
  <2>3. QED
    BY <1>0, <2>1, <2>2, ScanType
<1>9. CASE ScanRunsOff
  BY <1>0, <1>9, ScanType DEF ScanRunsOff
<1>10. CASE WorkDone
  BY <1>10, FirstAddrType DEF WorkDone, TypeOK, Phases
<1>11. CASE BlockDone
  BY <1>11, NextBlockType DEF BlockDone, TypeOK
<1>12. CASE SplitHere
  <2>1. Next16(addr) \in Word
    BY <1>0, Next16Type
  <2>2. k \in 1..Len(funcs) /\ funcs[k] \in Block /\ funcs \in Seq(Block)
    BY <1>12, BlockInPass DEF SplitHere, TypeOK
  <2>3. funcs' \in Seq(Block)
    <3> DEFINE b == [funcs[k] EXCEPT !.end = Next16(addr), !.fallthrough = TRUE,
                                     !.reaches_ret = FALSE]
    <3>1. b \in Block
      BY <2>1, <2>2, CutBlock
    <3>2. funcs' = [funcs EXCEPT ![k] = b]
      BY <1>12 DEF SplitHere
    <3> HIDE DEF b
    <3>3. QED
      BY <2>2, <3>1, <3>2, ExceptSeq
  <2>4. QED
    BY <1>12, <2>3, NextBlockType DEF SplitHere, TypeOK
<1>13. CASE SplitSkip
  BY <1>13, NextInsnType DEF SplitSkip, TypeOK
<1>14. CASE ScanStore
  <2>1. Insn(addr).operand \in Word
    BY <1>0, InsnType
  <2>2. patched' \in SUBSET Word
    BY <1>14, <2>1 DEF ScanStore, TypeOK
  <2>3. funcs' \in Seq(Block)
    <3>1. funcs \in Seq(Block) /\ Len(funcs) \in Nat
      BY DEF TypeOK
    <3>2. \A g \in 1..Len(funcs) :
            funcs[g] \in Block /\ [funcs[g] EXCEPT !.self_mod = TRUE] \in Block
      BY <3>1, MarkBlock
    <3>3. [g \in 1..Len(funcs) |->
             IF InBlock(Insn(addr).operand, funcs[g])
             THEN [funcs[g] EXCEPT !.self_mod = TRUE] ELSE funcs[g]] \in Seq(Block)
      BY <3>1, <3>2, IsASeq
    <3>4. QED
      BY <1>14, <3>1, <3>3 DEF ScanStore
  <2>4. QED
    BY <1>14, <2>2, <2>3, NextInsnType DEF ScanStore, TypeOK
<1>15. CASE MarkPatched
  <2>1. k \in 1..Len(funcs) /\ funcs[k] \in Block /\ funcs \in Seq(Block)
    BY <1>15, BlockInPass DEF MarkPatched, TypeOK
  <2>2. funcs' \in Seq(Block)
    <3> DEFINE b == [funcs[k] EXCEPT !.self_mod = TRUE]
    <3>1. b \in Block
      BY <2>1, MarkBlock
    <3>2. funcs' = [funcs EXCEPT ![k] = b] \/ funcs' = funcs
      BY <1>15 DEF MarkPatched
    <3> HIDE DEF b
    <3>3. QED
      BY <2>1, <3>1, <3>2, ExceptSeq
  <2>3. QED
    BY <1>15, <2>2, NextInsnType DEF MarkPatched, TypeOK
<1>16. CASE UNCHANGED vars
  BY <1>16 DEF vars, TypeOK
<1>17. QED
  BY <1>1, <1>2, <1>3, <1>4, <1>5, <1>6, <1>7, <1>8, <1>9, <1>10, <1>11,
     <1>12, <1>13, <1>14, <1>15, <1>16 DEF Next, Descent, Passes

(* Type correctness of the analyzer, for every program and capacity.        *)
THEOREM TypeCorrect == Spec => []TypeOK
BY TypeInit, TypeStep, PTL DEF Spec

-----------------------------------------------------------------------------
(* Where the leaders are.  A push is guarded by seen[] and by the fill of   *)
(* the two arrays, a block is added long after its leader was pushed, and   *)
(* func_table_t itself is never searched: that no leader is lost and none   *)
(* gets two blocks follows from where each one is at every step.            *)

IInv == /\ TypeOK
        /\ TableBounds
        /\ NoDuplicateBlock
        /\ OnePlace
        /\ SeenGetsABlock

(* With empty tables no leader is anywhere. *)
LEMMA BeginPlaced == Begin /\ TypeOK => IInv
<1> SUFFICES ASSUME Begin, TypeOK PROVE IInv
  OBVIOUS
<1>1. d.work = <<>> /\ d.seen = {} /\ funcs = <<>> /\ phase = "seed"
  BY DEF Begin
<1>2. Starts = {} /\ InHand = {}
  BY <1>1 DEF Starts, InHand
<1>3. TableBounds
  BY <1>1, ConstantTypes DEF TableBounds
<1>4. NoDuplicateBlock /\ OnePlace /\ SeenGetsABlock
  BY <1>1, <1>2 DEF NoDuplicateBlock, OnePlace, Placed, SeenGetsABlock, Accounted
<1>5. QED
  BY <1>3, <1>4 DEF IInv

(* The invariant holds initially. *)
LEMMA PlacedInit == Init => IInv
BY TypeInit, BeginPlaced DEF Init

(* What a push does to the invariant, T being Starts and the leader in hand. *)
LEMMA PushKeeps ==
  ASSUME NEW T, NEW a \in Word, NEW dd \in DiscT, Len(dd.work) <= MaxFuncs, Placed(dd, T)
  PROVE  /\ push_func(dd, a) \in DiscT
         /\ Len(push_func(dd, a).work) <= MaxFuncs
         /\ Placed(push_func(dd, a), T)
         /\ Accounted(dd, T) => Accounted(push_func(dd, a), T)
BY PushFuncType, PushFuncBound, PushFuncPlaced, PushFuncAccounted

(* discover_one moves the leader in hand to the table, and nothing is lost. *)
LEMMA AddBlockKeeps ==
  ASSUME IInv, TypeOK', phase = "scan",
         NEW e, NEW r, NEW f, AddBlock(e, r, f),
         Len(d'.work) <= MaxFuncs,
         Placed(d', Starts \cup InHand),
         Accounted(d, Starts \cup InHand) => Accounted(d', Starts \cup InHand)
  PROVE  IInv'
<1> DEFINE b == [start |-> fs, end |-> e, reaches_ret |-> r,
                 fallthrough |-> f, self_mod |-> FALSE]
<1>1. /\ funcs \in Seq(Block) /\ Len(funcs) \in Nat
      /\ funcs' = Append(funcs, b) /\ phase' = "work"
  BY DEF IInv, TypeOK, AddBlock
<1>2. b.start = fs
  OBVIOUS
<1> HIDE DEF b
<1>3. /\ Len(funcs') = Len(funcs) + 1
      /\ \A i \in 1..Len(funcs) : funcs'[i] = funcs[i]
      /\ funcs'[Len(funcs) + 1] = b
  BY <1>1
<1>4. InHand = {fs} /\ InHand' = {}
  BY <1>1 DEF InHand
<1>5. fs \notin Starts
  BY <1>4 DEF IInv, OnePlace
<1>6. Starts' = Starts \cup {fs}
  <2>1. \A x \in Starts' : x \in Starts \cup {fs}
    BY <1>1, <1>2, <1>3 DEF Starts
  <2>2. \A x \in Starts : x \in Starts'
    BY <1>1, <1>3 DEF Starts
  <2>3. fs \in Starts'
    BY <1>1, <1>2, <1>3 DEF Starts
  <2>4. QED
    BY <2>1, <2>2, <2>3
<1>7. TableBounds'
  BY <1>1, <1>3, ConstantTypes DEF IInv, TableBounds
<1>8. NoDuplicateBlock'
  <2>1. \A i \in 1..Len(funcs) : funcs'[i].start # fs
    BY <1>3, <1>5 DEF Starts
  <2>2. QED
    BY <1>1, <1>2, <1>3, <2>1 DEF IInv, NoDuplicateBlock
<1>9. OnePlace'
  <2>1. (Starts \cup InHand)' = Starts \cup InHand
    BY <1>4, <1>6
  <2>2. QED
    BY <1>4, <2>1 DEF OnePlace, Placed
<1>10. SeenGetsABlock'
  <2>1. Len(funcs) # MaxFuncs
    BY <1>1, ConstantTypes DEF IInv, TableBounds
  <2>2. (Starts \cup InHand)' = Starts \cup InHand
    BY <1>4, <1>6
  <2>3. QED
    BY <2>1, <2>2 DEF IInv, SeenGetsABlock, Accounted
<1>11. QED
  BY <1>7, <1>8, <1>9, <1>10 DEF IInv

(* The passes move no start and push nothing.                               *)
LEMMA PassKeeps ==
  ASSUME IInv, TypeOK', phase # "scan", phase' # "scan", d' = d,
         Len(funcs') = Len(funcs),
         \A i \in 1..Len(funcs) : funcs'[i].start = funcs[i].start
  PROVE  IInv'
<1>1. Starts' = Starts /\ InHand = {} /\ InHand' = {}
  BY DEF Starts, InHand
<1>2. TableBounds'
  BY DEF IInv, TableBounds
<1>3. NoDuplicateBlock'
  BY DEF IInv, NoDuplicateBlock
<1>4. OnePlace' /\ SeenGetsABlock'
  BY <1>1 DEF IInv, OnePlace, Placed, SeenGetsABlock, Accounted
<1>5. QED
  BY <1>2, <1>3, <1>4 DEF IInv

(* The passes do not come back to the scan. *)
LEMMA NextBlockPhase ==
  ASSUME phase \in {"split", "stores", "patches"}, NextBlock \/ NextInsn
  PROVE  phase' # "scan"
BY DEF NextBlock, NextInsn, PassAfter

(* Each step keeps the invariant. *)
LEMMA PlacedStep == IInv /\ [Next]_vars => IInv'
<1> SUFFICES ASSUME IInv, [Next]_vars PROVE IInv'
  OBVIOUS
<1>0. /\ TypeOK /\ TypeOK' /\ rom \in Roms /\ addr \in Word /\ d \in DiscT
      /\ Len(d.work) <= MaxFuncs /\ Placed(d, Starts \cup InHand)
      /\ d.work \in Seq(Word) /\ funcs \in Seq(Block)
  BY TypeStep DEF IInv, TypeOK, DiscT, TableBounds, OnePlace
<1>1. CASE PushSeed
  <2>1. seeds[k] \in Word
    BY <1>0, <1>1 DEF PushSeed, TypeOK
  <2>2. /\ Len(d'.work) <= MaxFuncs
        /\ Placed(d', Starts \cup InHand)
        /\ Accounted(d, Starts \cup InHand) => Accounted(d', Starts \cup InHand)
    BY <1>0, <1>1, <2>1, PushKeeps DEF PushSeed
  <2>3. phase' = phase /\ funcs' = funcs /\ phase = "seed" /\ fs' = fs
    BY <1>1 DEF PushSeed
  <2>4. Starts' = Starts /\ InHand' = InHand
    BY <2>3 DEF Starts, InHand
  <2>5. QED
    BY <1>0, <2>2, <2>3, <2>4 DEF IInv, TableBounds, NoDuplicateBlock, OnePlace, Placed,
                                  SeenGetsABlock, Accounted
<1>2. CASE SeedsDone
  BY <1>0, <1>2, PassKeeps DEF SeedsDone
<1>3. CASE PopWork
  <2> DEFINE n == Len(d.work)
             w == SubSeq(d.work, 1, n - 1)
  <2>1. /\ phase = "work" /\ d.work # <<>> /\ d' = [d EXCEPT !.work = w] /\ funcs' = funcs
    BY <1>3 DEF PopWork
  <2>2. n \in Nat \ {0}
    BY <1>0, <2>1
  <2>3. /\ Len(w) = n - 1
        /\ \A i \in 1..(n - 1) : w[i] = d.work[i]
    BY <1>0, <2>2
  <2>4. d'.work = w /\ d'.seen = d.seen
    BY <1>0, <2>1 DEF DiscT
  <2> HIDE DEF w
  <2>5. InHand = {} /\ Starts' = Starts
    BY <2>1 DEF InHand, Starts
  <2>6. TableBounds'
    <3>1. Len(d'.work) <= MaxFuncs
      BY <1>0, <2>2, <2>3, <2>4, ConstantTypes
    <3>2. phase' = "scan" => Len(funcs) < MaxFuncs
      BY <1>0, <1>3, ConstantTypes DEF PopWork
    <3>3. QED
      BY <2>1, <3>1, <3>2 DEF IInv, TableBounds
  <2>7. NoDuplicateBlock'
    BY <2>1 DEF IInv, NoDuplicateBlock
  <2>8. CASE Len(funcs) >= MaxFuncs
    <3>1. phase' = phase /\ InHand' = {}
      BY <1>3, <2>1, <2>8 DEF PopWork, InHand
    <3>2. OnePlace'
      <4>1. \A i \in 1..(n - 1) : i \in 1..n
        BY <2>2
      <4>2. Placed(d', Starts)
        <5>1. Placed(d, Starts)
          BY <1>0, <2>5
        <5>2. QED
          BY <2>3, <2>4, <4>1, <5>1 DEF Placed
      <4>3. Starts' \cup InHand' = Starts
        BY <2>5, <3>1
      <4>4. Placed(d, Starts \cup InHand)' /\ InHand' \cap Starts' = {}
        BY <3>1, <4>2, <4>3
      <4>5. QED
        BY <4>4 DEF OnePlace
    <3>3. Len(funcs) = MaxFuncs
      BY <1>0, <2>8, ConstantTypes DEF IInv, TableBounds
    <3>4. SeenGetsABlock'
      BY <2>1, <3>3 DEF SeenGetsABlock
    <3>5. QED
      BY <1>0, <2>6, <2>7, <3>2, <3>4 DEF IInv
  <2>9. CASE ~(Len(funcs) >= MaxFuncs)
    <3>1. phase' = "scan" /\ fs' = d.work[n]
      BY <1>3, <2>9 DEF PopWork
    <3>2. InHand' = {d.work[n]}
      BY <3>1 DEF InHand
    <3>3. n \in 1..n /\ d.work[n] \in d.seen \ Starts
      BY <1>0, <2>2, <2>5 DEF Placed
    <3>4. \A i \in 1..(n - 1) : d.work[i] # d.work[n]
      <4>1. \A i, j \in 1..n : d.work[i] = d.work[j] => i = j
        BY <1>0, <2>5 DEF Placed
      <4>2. \A i \in 1..(n - 1) : i \in 1..n /\ n \in 1..n /\ i # n
        BY <2>2
      <4>3. QED
        BY <4>1, <4>2
    <3>5. OnePlace'
      <4> DEFINE T == Starts \cup {d.work[n]}
      <4>1. (Starts \cup InHand)' = T
        BY <2>5, <3>2
      <4>2. T \subseteq d.seen
        BY <1>0, <2>5, <3>3 DEF Placed
      <4>3. \A i \in 1..(n - 1) : w[i] \in d.seen \ T
        BY <1>0, <2>2, <2>3, <2>5, <3>4 DEF Placed
      <4>4. \A i, j \in 1..(n - 1) : w[i] = w[j] => i = j
        BY <1>0, <2>2, <2>3 DEF Placed
      <4>5. Placed(d', T)
        BY <2>2, <2>3, <2>4, <4>2, <4>3, <4>4 DEF Placed
      <4>6. InHand' \cap Starts' = {}
        BY <2>5, <3>2, <3>3
      <4>7. QED
        BY <4>1, <4>5, <4>6 DEF OnePlace, Placed
    <3>6. SeenGetsABlock'
      <4>1. Accounted(d, Starts)
        BY <1>0, <2>5, <2>9, ConstantTypes DEF IInv, SeenGetsABlock
      <4>2. Accounted(d', Starts \cup {d.work[n]})
        BY <2>2, <2>3, <2>4, <4>1 DEF Accounted
      <4>3. QED
        BY <2>5, <3>2, <4>2 DEF SeenGetsABlock, Accounted
    <3>7. QED
      BY <1>0, <2>6, <2>7, <3>5, <3>6 DEF IInv
  <2>10. QED
    BY <2>8, <2>9
<1>4. CASE ScanNormal
  <2>1. UNCHANGED <<phase, d, funcs, fs>>
    BY <1>4 DEF ScanNormal
  <2>2. QED
    BY <1>0, <2>1 DEF IInv, TableBounds, NoDuplicateBlock, OnePlace, Placed, InHand,
                      Starts, SeenGetsABlock, Accounted
<1>5. CASE ScanCall
  <2> DEFINE t == Insn(addr).target
             n == Next16(addr)
             e == IF in_image(t) THEN push_func(d, t) ELSE d
             T == Starts \cup InHand
  <2>1. t \in Word /\ n \in Word
    BY <1>0, InsnType, Next16Type
  <2>2. d' = push_func(e, n) /\ AddBlock(n, FALSE, FALSE) /\ phase = "scan"
    BY <1>5 DEF ScanCall
  <2> HIDE DEF t, n, T
  <2>3. /\ e \in DiscT /\ Len(e.work) <= MaxFuncs /\ Placed(e, T)
        /\ Accounted(d, T) => Accounted(e, T)
    BY <1>0, <2>1, PushKeeps DEF T
  <2> HIDE DEF e
  <2>4. /\ Len(d'.work) <= MaxFuncs /\ Placed(d', T)
        /\ Accounted(e, T) => Accounted(d', T)
    BY <2>1, <2>2, <2>3, PushKeeps
  <2>5. QED
    BY <1>0, <2>2, <2>3, <2>4, AddBlockKeeps DEF T
<1>6. CASE ScanBranch
  <2> DEFINE t == Insn(addr).target
             n == Next16(addr)
             e == push_func(d, t)
             T == Starts \cup InHand
  <2>1. t \in Word /\ n \in Word
    BY <1>0, InsnType, Next16Type
  <2>2. d' = push_func(e, n) /\ AddBlock(n, FALSE, FALSE) /\ phase = "scan"
    BY <1>6 DEF ScanBranch
  <2> HIDE DEF t, n, T
  <2>3. /\ e \in DiscT /\ Len(e.work) <= MaxFuncs /\ Placed(e, T)
        /\ Accounted(d, T) => Accounted(e, T)
    BY <1>0, <2>1, PushKeeps DEF T
  <2> HIDE DEF e
  <2>4. /\ Len(d'.work) <= MaxFuncs /\ Placed(d', T)
        /\ Accounted(e, T) => Accounted(d', T)
    BY <2>1, <2>2, <2>3, PushKeeps
  <2>5. QED
    BY <1>0, <2>2, <2>3, <2>4, AddBlockKeeps DEF T
<1>7. CASE ScanJump
  <2> DEFINE t == JumpTarget(Insn(addr))
             T == Starts \cup InHand
  <2>1. t \in Word
    BY <1>0, JumpTargetType
  <2>2. d' = push_func(d, t) \/ d' = d
    BY <1>7 DEF ScanJump
  <2>3. AddBlock(Next16(addr), FALSE, FALSE) /\ phase = "scan"
    BY <1>7 DEF ScanJump
  <2> HIDE DEF t, T
  <2>4. /\ Len(d'.work) <= MaxFuncs /\ Placed(d', T)
        /\ Accounted(d, T) => Accounted(d', T)
    BY <1>0, <2>1, <2>2, PushKeeps DEF T
  <2>5. QED
    BY <1>0, <2>3, <2>4, AddBlockKeeps DEF T
<1>8. CASE ScanStop
  BY <1>0, <1>8, AddBlockKeeps DEF ScanStop
<1>9. CASE ScanRunsOff
  BY <1>0, <1>9, AddBlockKeeps DEF ScanRunsOff
<1>10. CASE WorkDone
  BY <1>0, <1>10, PassKeeps DEF WorkDone
<1>11. CASE BlockDone
  BY <1>0, <1>11, PassKeeps, NextBlockPhase DEF BlockDone
<1>12. CASE SplitHere
  <2>1. k \in 1..Len(funcs) /\ funcs[k] \in Block
    BY <1>0, <1>12, BlockInPass DEF SplitHere
  <2> DEFINE b == [funcs[k] EXCEPT !.end = Next16(addr), !.fallthrough = TRUE,
                                   !.reaches_ret = FALSE]
  <2>2. b.start = funcs[k].start
    BY <2>1 DEF Block
  <2>3. funcs' = [funcs EXCEPT ![k] = b]
    BY <1>12 DEF SplitHere
  <2> HIDE DEF b
  <2>4. /\ Len(funcs') = Len(funcs)
        /\ \A i \in 1..Len(funcs) : funcs'[i].start = funcs[i].start
    BY <1>0, <2>1, <2>2, <2>3
  <2>5. QED
    BY <1>0, <1>12, <2>4, PassKeeps, NextBlockPhase DEF SplitHere
<1>13. CASE SplitSkip
  BY <1>0, <1>13, PassKeeps, NextBlockPhase DEF SplitSkip
<1>14. CASE ScanStore
  <2> DEFINE mark(g) == IF InBlock(Insn(addr).operand, funcs[g])
                        THEN [funcs[g] EXCEPT !.self_mod = TRUE] ELSE funcs[g]
  <2>1. \A g \in 1..Len(funcs) : mark(g).start = funcs[g].start
    BY <1>0 DEF Block
  <2>2. funcs' = [g \in 1..Len(funcs) |-> mark(g)] \/ funcs' = funcs
    BY <1>14 DEF ScanStore
  <2> HIDE DEF mark
  <2>3. /\ Len(funcs') = Len(funcs)
        /\ \A i \in 1..Len(funcs) : funcs'[i].start = funcs[i].start
    BY <1>0, <2>1, <2>2
  <2>4. QED
    BY <1>0, <1>14, <2>3, PassKeeps, NextBlockPhase DEF ScanStore
<1>15. CASE MarkPatched
  <2>1. k \in 1..Len(funcs) /\ funcs[k] \in Block
    BY <1>0, <1>15, BlockInPass DEF MarkPatched
  <2> DEFINE b == [funcs[k] EXCEPT !.self_mod = TRUE]
  <2>2. b.start = funcs[k].start
    BY <2>1 DEF Block
  <2>3. funcs' = [funcs EXCEPT ![k] = b] \/ funcs' = funcs
    BY <1>15 DEF MarkPatched
  <2> HIDE DEF b
  <2>4. /\ Len(funcs') = Len(funcs)
        /\ \A i \in 1..Len(funcs) : funcs'[i].start = funcs[i].start
    BY <1>0, <2>1, <2>2, <2>3
  <2>5. QED
    BY <1>0, <1>15, <2>4, PassKeeps, NextBlockPhase DEF MarkPatched
<1>16. CASE UNCHANGED vars
  BY <1>0, <1>16 DEF vars, IInv, TableBounds, NoDuplicateBlock, OnePlace, Placed, InHand,
                     Starts, SeenGetsABlock, Accounted
<1>17. QED
  BY <1>1, <1>2, <1>3, <1>4, <1>5, <1>6, <1>7, <1>8, <1>9, <1>10, <1>11,
     <1>12, <1>13, <1>14, <1>15, <1>16 DEF Next, Descent, Passes

(* The invariant is one of the specification. *)
LEMMA Placement == Spec => []IInv
BY PlacedInit, PlacedStep, PTL DEF Spec

(* The arrays of disc_t and func_table_t are never overrun.                 *)
THEOREM BoundsHold == Spec => []TableBounds
<1>1. IInv => TableBounds
  BY DEF IInv
<1>2. QED
  BY <1>1, Placement, PTL

(* No address ever gets two blocks.                                         *)
THEOREM BlocksUnique == Spec => []NoDuplicateBlock
<1>1. IInv => NoDuplicateBlock
  BY DEF IInv
<1>2. QED
  BY <1>1, Placement, PTL

(* A leader is waiting, being scanned, or has its block, never two of these. *)
THEOREM PlacesDisjoint == Spec => []OnePlace
<1>1. IInv => OnePlace
  BY DEF IInv
<1>2. QED
  BY <1>1, Placement, PTL

(* A leader that was seen is never lost before its block is made, unless    *)
(* the table is full.                                                       *)
THEOREM LeadersKept == Spec => []SeenGetsABlock
<1>1. IInv => SeenGetsABlock
  BY DEF IInv
<1>2. QED
  BY <1>1, Placement, PTL

=============================================================================
