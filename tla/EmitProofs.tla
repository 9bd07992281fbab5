----------------------------- MODULE EmitProofs -----------------------------
(***************************************************************************)
(* Theorems about module Emit: what is proved of the analyzer holds while  *)
(* its result is emitted, each C function has the instructions of its      *)
(* block, one way out, and leads to compiled code.                         *)
(***************************************************************************)
EXTENDS Emit, LeaderProofs

-----------------------------------------------------------------------------
(* Emission leaves the result of the analysis alone.                        *)

(* The emitter moves the cursor over the finished table and changes nothing. *)
LEMMA EmitterKeeps ==
  ASSUME IInv, EmitKeeps, k' \in Nat \ {0}, addr' \in Word
  PROVE  IInv'
<1>1. UNCHANGED <<rom, span, seeds, phase, d, funcs, ext, patched, fs>>
  BY DEF EmitKeeps
<1>2. TypeOK'
  BY <1>1 DEF IInv, TypeOK
<1>3. Starts' = Starts /\ InHand' = InHand
  BY <1>1 DEF Starts, InHand
<1>4. QED
  BY <1>1, <1>2, <1>3 DEF IInv, TableBounds, NoDuplicateBlock, OnePlace, Placed,
                          SeenGetsABlock, Accounted

(* The emitter's cursor keeps its type from block to block. *)
LEMMA GoToNextBlockType ==
  ASSUME TypeOK, k <= Len(funcs), GoToNextBlock
  PROVE  k' \in Nat \ {0} /\ addr' \in Word
<1>1. k \in Nat \ {0} /\ funcs \in Seq(Block)
  BY DEF TypeOK
<1>2. k' \in Nat \ {0}
  BY <1>1 DEF GoToNextBlock
<1>3. CASE k < Len(funcs)
  <2>1. k + 1 \in 1..Len(funcs)
    BY <1>1, <1>3
  <2>2. funcs[k + 1] \in Block
    BY <1>1, <2>1
  <2>3. QED
    BY <1>2, <1>3, <2>2 DEF GoToNextBlock, Block
<1>4. CASE ~(k < Len(funcs))
  BY <1>2, <1>4, ZeroIsByte DEF GoToNextBlock
<1>5. QED
  BY <1>3, <1>4

(* The analyzer does not change its arguments.                              *)
LEMMA AnalysisArguments == Next => seeds' = seeds
BY DEF Next, Descent, Passes, PushSeed, SeedsDone, PopWork, ScanNormal, ScanCall, ScanBranch,
       ScanJump, ScanStop, ScanRunsOff, AddBlock, WorkDone, BlockDone, SplitHere, SplitSkip,
       ScanStore, MarkPatched

(* Analysis and emission keep the invariant of the tables. *)
LEMMA TranslateKeeps == IInv /\ EmitNext => IInv'
<1> SUFFICES ASSUME IInv, EmitNext PROVE IInv'
  OBVIOUS
<1>0. TypeOK /\ rom \in Roms /\ addr \in Word /\ k \in Nat \ {0}
  BY DEF IInv, TypeOK
<1>1. CASE Analyze
  BY <1>1, PlacedStep DEF Analyze
<1>2. CASE BeginEmit
  <2>1. EmitKeeps /\ k' = 1 /\ addr' = FirstAddr
    BY <1>2 DEF BeginEmit, EmitKeeps
  <2>2. QED
    BY <1>0, <2>1, FirstAddrType, EmitterKeeps
<1>3. CASE SkipSelfModifying
  BY <1>0, <1>3, GoToNextBlockType, EmitterKeeps DEF SkipSelfModifying
<1>4. CASE EmitLine
  BY <1>0, <1>4, Next16Type, EmitterKeeps DEF EmitLine
<1>5. CASE EmitEnd
  BY <1>0, <1>5, GoToNextBlockType, EmitterKeeps DEF EmitEnd
<1>6. CASE EmitDone
  BY <1>0, <1>6, EmitterKeeps DEF EmitDone
<1>7. QED
  BY <1>1, <1>2, <1>3, <1>4, <1>5, <1>6 DEF EmitNext, EmitStep

(* What holds of the analysis: see modules BlockProofs and LeaderProofs.    *)
AnalysisInv == FollowInv /\ PassInv

(* What holds of the analysis holds before it starts. *)
LEMMA BeginAnalysis == Begin /\ TypeOK => AnalysisInv
BY BeginFollow, BeginPasses DEF AnalysisInv

(* Each step of the analyzer keeps it. *)
LEMMA AnalysisStep == AnalysisInv /\ [Next]_vars => AnalysisInv'
BY FollowStep, PassStep DEF AnalysisInv

(* The image, the table and the marks that it reads are kept.               *)
LEMMA EmitSame ==
  ASSUME AnalysisInv, EmitKeeps
  PROVE  /\ \A s : Steps(s)' = Steps(s)
         /\ \A a : After(a)' = After(a) /\ Insn(a)' = Insn(a)
         /\ \A f : Boundaries(f)' = Boundaries(f)
         /\ Unwrapped' = Unwrapped
BY SameImage, SameBoundaries DEF EmitKeeps, Unwrapped

(* When the passes are over, their cursor is free for the emitter.          *)
LEMMA AnalysisKept ==
  ASSUME AnalysisInv, EmitKeeps, phase = "analyzed", k' \in Nat \ {0}, addr' \in Word
  PROVE  AnalysisInv'
<1>1. UNCHANGED <<rom, span, seeds, phase, d, funcs, ext, patched, fs>>
  BY DEF EmitKeeps
<1>2. IInv'
  BY EmitterKeeps DEF AnalysisInv, PassInv, BlockInv
<1>3. /\ \A a : in_image(a)' <=> in_image(a)
      /\ \A f : Sound(f)' <=> Sound(f)
  BY <1>1, SameImage DEF Sound
<1>4. BlockInv'
  BY <1>1, <1>2, <1>3 DEF AnalysisInv, PassInv, BlockInv, Inside, Outside, Emptied, InLine,
     Blocks, Cursor, Discovering, InPasses
<1>5. PassInv'
  <2>1. /\ \A a : CannotRecompile(a)' <=> CannotRecompile(a)
        /\ \A a : StoreOnCode(a)' <=> StoreOnCode(a)
    BY <1>1, EmitSame DEF CannotRecompile, StoreOnCode, in_code
  <2>2. QED
    BY <1>1, <1>4, <2>1, EmitSame
       DEF AnalysisInv, PassInv, SplitDone, StoresDone, PatchesDone
<1>6. FollowInv'
  <2>1. \A l : Successors(l)' = Successors(l)
    BY <1>1, SameSuccessors
  <2>2. Starts' = Starts /\ Places' = Places
    BY <1>1 DEF Starts, Places, InHandCount
  <2>3. QED
    BY <1>1, <1>3, <1>4, <2>1, <2>2 DEF AnalysisInv, FollowInv, Followed, SeedsPushed
<1>7. QED
  BY <1>5, <1>6 DEF AnalysisInv

-----------------------------------------------------------------------------
(* The lines of a block.                                                    *)

CodeLines == [in : {Insn(a) : a \in Word}, dyn : BOOLEAN]

(* ls are the instructions from s up to a, each below e.                    *)
Chain(ls, s, e, a) ==
  /\ ls \in Seq(CodeLines)
  /\ a \in Steps(s)
  /\ \A j \in 1..Len(ls) : /\ ls[j].in.pc \in Steps(s)
                           /\ ls[j].in.pc < e
                           /\ ls[j].in = Insn(ls[j].in.pc)
                           /\ After(ls[j].in.pc) = IF j = Len(ls) THEN a ELSE ls[j + 1].in.pc
  /\ s = IF ls = <<>> THEN a ELSE ls[1].in.pc

(* A C function c is what block f compiles to; if the end of f wrapped that *)
(* is no line.                                                              *)
CompiledAs(c, f) ==
  /\ IF f.start <= f.end THEN Chain(c.lines, f.start, f.end, f.end) ELSE c.lines = <<>>
  /\ c.exit = IF c.lines = <<>> \/ ~Leaves(LastLine(c)) THEN f.end ELSE NoExit

HasCode(i) == funcs[i].self_mod \/ funcs[i].start \in DOMAIN code

EmitOK ==
  /\ stage \in {"emit", "emitted"} => phase = "analyzed"
  /\ stage \notin {"emit", "emitted"} => code = <<>> /\ lines = <<>>
  /\ \A b \in DOMAIN code :
       \E i \in 1..Len(funcs) : funcs[i].start = b /\ CompiledAs(code[b], funcs[i])
  /\ stage = "emit" => \A i \in 1..Len(funcs) : i < k => HasCode(i)
  /\ stage = "emitted" => \A i \in 1..Len(funcs) : HasCode(i)
  /\ stage = "emit" /\ k <= Len(funcs) =>
       Chain(lines, funcs[k].start, funcs[k].end, addr)

(* No lines are at the start of a block.                                    *)
LEMMA ChainStart ==
  ASSUME NEW s \in Nat, NEW e PROVE Chain(<<>>, s, e, s)
BY StepsClosed DEF Chain

(* One line more.                                                           *)
LEMMA ChainAppend ==
  ASSUME NEW s \in Nat, NEW e, NEW a \in Word, NEW ls, Chain(ls, s, e, a), a < e
  PROVE  Chain(Append(ls, Line(a)), s, e, After(a))
<1> DEFINE l == Line(a)
           n == Len(ls)
           ms == Append(ls, l)
<1>1. ls \in Seq(CodeLines) /\ n \in Nat
  BY DEF Chain
<1>2. l.in = Insn(a) /\ l.in.pc = a /\ l \in CodeLines
  BY DEF Line, FromMemory, Insn, decode, CodeLines
<1> HIDE DEF l
<1>3. /\ ms \in Seq(CodeLines) /\ Len(ms) = n + 1 /\ ms # <<>> /\ ms[n + 1] = l
      /\ \A j \in 1..n : ms[j] = ls[j]
  BY <1>1, <1>2
<1>4. a \in Steps(s) /\ After(a) \in Steps(s)
  BY StepsClosed DEF Chain
<1>5. ASSUME NEW j \in 1..(n + 1)
      PROVE  /\ ms[j].in.pc \in Steps(s)
             /\ ms[j].in.pc < e
             /\ ms[j].in = Insn(ms[j].in.pc)
             /\ After(ms[j].in.pc) = IF j = n + 1 THEN After(a) ELSE ms[j + 1].in.pc
  <2>1. CASE j = n + 1
    BY <1>2, <1>3, <1>4, <2>1
  <2>2. CASE j # n + 1
    <3>1. j \in 1..n /\ (j + 1 \in 1..n \/ j = n)
      BY <1>1, <2>2
    <3>2. /\ ms[j].in.pc \in Steps(s) /\ ms[j].in.pc < e /\ ms[j].in = Insn(ms[j].in.pc)
          /\ After(ms[j].in.pc) = IF j = n THEN a ELSE ls[j + 1].in.pc
      BY <1>3, <3>1 DEF Chain
    <3>3. ms[j + 1].in.pc = IF j = n THEN a ELSE ls[j + 1].in.pc
      BY <1>1, <1>2, <1>3, <3>1
    <3>4. QED
      BY <2>2, <3>2, <3>3
  <2>3. QED
    BY <2>1, <2>2
<1>6. s = ms[1].in.pc
  <2>1. CASE ls = <<>>
    BY <1>2, <1>3, <2>1 DEF Chain
  <2>2. CASE ls # <<>>
    <3>1. 1 \in 1..n
      BY <1>1, <2>2
    <3>2. QED
      BY <1>3, <2>2, <3>1 DEF Chain
  <2>3. QED
    BY <2>1, <2>2
<1>7. QED
  BY <1>3, <1>4, <1>5, <1>6 DEF Chain, l

(* The lines up to the end of the block are all its instructions, in order. *)
LEMMA ChainWhole ==
  ASSUME NEW s \in Nat, NEW e \in Nat, NEW ls, Chain(ls, s, e, e)
  PROVE  /\ {ls[j].in.pc : j \in 1..Len(ls)} = {a \in Steps(s) : a < e}
         /\ \A j \in 2..Len(ls) : ls[j - 1].in.pc < ls[j].in.pc
<1> DEFINE n == Len(ls)
           P == {ls[j].in.pc : j \in 1..n}
           S == P \cup {a \in Nat : a >= e}
<1>1. ls \in Seq(CodeLines) /\ n \in Nat
  BY DEF Chain
<1>2. P \subseteq {a \in Steps(s) : a < e}
  BY DEF Chain
<1>3. S \in SUBSET Nat
  BY <1>2, StepsClosed
<1>4. s \in S
  <2>1. CASE ls = <<>>
    BY <2>1 DEF Chain
  <2>2. CASE ls # <<>>
    <3>1. 1 \in 1..n
      BY <1>1, <2>2
    <3>2. QED
      BY <2>2, <3>1 DEF Chain
  <2>3. QED
    BY <2>1, <2>2
<1>5. Closed(S)
  <2> SUFFICES ASSUME NEW b \in S PROVE After(b) \in S
    BY DEF Closed
  <2>1. CASE b \in P
    <3>1. PICK j \in 1..n : b = ls[j].in.pc
      BY <2>1
    <3>2. After(b) = IF j = n THEN e ELSE ls[j + 1].in.pc
      BY <3>1 DEF Chain
    <3>3. CASE j = n
      BY <3>2, <3>3
    <3>4. CASE j # n
      <4>1. j + 1 \in 1..n
        BY <1>1, <3>4
      <4>2. QED
        BY <3>2, <3>4, <4>1
    <3>5. QED
      BY <3>3, <3>4
  <2>2. CASE b \in Nat /\ b >= e
    BY <2>2, AfterType
  <2>3. QED
    BY <2>1, <2>2
<1>6. Steps(s) \subseteq S
  BY <1>3, <1>4, <1>5, StepsLeast
<1>7. P = {a \in Steps(s) : a < e}
  BY <1>2, <1>6, StepsClosed
<1>8. ASSUME NEW j \in 2..n PROVE ls[j - 1].in.pc < ls[j].in.pc
  <2>1. j - 1 \in 1..n /\ j - 1 # n /\ (j - 1) + 1 = j
    BY <1>1
  <2>2. ls[j - 1].in.pc \in Steps(s) /\ After(ls[j - 1].in.pc) = ls[j].in.pc
    BY <2>1 DEF Chain
  <2>3. QED
    BY <2>2, StepsUp, AfterType
<1>9. QED
  BY <1>7, <1>8

(* A line but the last does not transfer control.                           *)
LEMMA ChainStraight ==
  ASSUME NEW f, f.start \in Nat, f.end \in Nat, f.start <= f.end, Sound(f),
         NEW ls, Chain(ls, f.start, f.end, f.end)
  PROVE  /\ \A j \in 1..(Len(ls) - 1) : ~Leaves(ls[j])
         /\ ls # <<>> =>
              LET a == ls[Len(ls)].in.pc
              IN  /\ a \in Steps(f.start) /\ a < f.end /\ After(a) = f.end
                  /\ ls[Len(ls)].in = Insn(a)
<1> DEFINE n == Len(ls)
<1>1. ls \in Seq(CodeLines) /\ n \in Nat
  BY DEF Chain
<1>2. ASSUME NEW j \in 1..(n - 1) PROVE ~Leaves(ls[j])
  <2>1. j \in 1..n /\ j # n /\ j + 1 \in 1..n
    BY <1>1
  <2>2. /\ ls[j].in.pc \in Steps(f.start) /\ ls[j].in.pc < f.end
        /\ ls[j].in = Insn(ls[j].in.pc)
        /\ After(ls[j].in.pc) = ls[j + 1].in.pc
        /\ ls[j + 1].in.pc < f.end
    BY <2>1 DEF Chain
  <2>3. ls[j + 1].in.pc \in Nat
    BY <2>1, StepsClosed DEF Chain
  <2>4. After(ls[j].in.pc) # f.end
    BY <2>2, <2>3
  <2>5. QED
    BY <2>2, <2>4 DEF Sound, Leaves
<1>3. ls # <<>> => n \in 1..n
  BY <1>1
<1>4. QED
  BY <1>2, <1>3 DEF Chain

-----------------------------------------------------------------------------
(* The emitter's steps.                                                     *)

(* Chains and functions read only the image, and Chain what patched is      *)
(* through the type of its lines.                                           *)
LEMMA EmitSameLines ==
  ASSUME AnalysisInv, EmitKeeps
  PROVE  /\ \A ls, s, e, a : Chain(ls, s, e, a)' <=> Chain(ls, s, e, a)
         /\ \A c, f : CompiledAs(c, f)' <=> CompiledAs(c, f)
<1>1. CodeLines' = CodeLines
  BY EmitSame DEF CodeLines
<1>2. \A ls, s, e, a : Chain(ls, s, e, a)' <=> Chain(ls, s, e, a)
  BY <1>1, EmitSame DEF Chain
<1>3. QED
  BY <1>2 DEF CompiledAs

(* On to the next block, with no line.                                      *)
LEMMA NextBlockChain ==
  ASSUME AnalysisInv, GoToNextBlock, k \in Nat, k + 1 <= Len(funcs)
  PROVE  Chain(lines', funcs[k + 1].start, funcs[k + 1].end, addr')
<1>1. k + 1 \in 1..Len(funcs) /\ k < Len(funcs) /\ TypeOK
  BY DEF AnalysisInv, PassInv, BlockInv, IInv, TypeOK
<1>2. funcs[k + 1].start \in Nat
  BY <1>1, BlockBoundaries
<1>3. lines' = <<>> /\ addr' = funcs[k + 1].start
  BY <1>1 DEF GoToNextBlock
<1>4. QED
  BY <1>2, <1>3, ChainStart

(* A line is added to the block.                                            *)
LEMMA LineChain ==
  ASSUME AnalysisInv, EmitOK, EmitLine
  PROVE  Chain(lines', funcs[k].start, funcs[k].end, addr')
<1> DEFINE f == funcs[k]
<1>1. /\ k \in 1..Len(funcs) /\ TypeOK /\ addr \in Word /\ addr \in Nat /\ addr < f.end
      /\ Chain(lines, f.start, f.end, addr)
      /\ lines' = Append(lines, Line(addr)) /\ addr' = Next16(addr)
  BY WordIsInt DEF AnalysisInv, PassInv, BlockInv, IInv, TypeOK, EmitOK, EmitLine, MoreLines
<1>2. /\ f.start \in Nat /\ f.end \in Nat /\ f.end \in Word /\ f.end < WordSize
      /\ WordSize \in Nat
  BY <1>1, BlockBoundaries, WordIsInt, Sizes DEF Block
<1>3. Sound(f)
  BY <1>1 DEF AnalysisInv, PassInv, BlockInv, Blocks
<1> HIDE DEF f
<1>4. addr \in Steps(f.start) /\ f.start <= addr
  BY <1>1, <1>2, StepsUp DEF Chain
<1>5. f.end \in Steps(f.start)
  BY <1>1, <1>2, <1>3, <1>4 DEF Sound
<1>6. After(addr) <= f.end /\ After(addr) \in Nat
  BY <1>1, <1>2, <1>4, <1>5, StepsApart, AfterType
<1>7. Next16(addr) = After(addr)
  BY <1>1, <1>2, <1>6, NoWrap
<1>8. QED
  BY <1>1, <1>2, <1>7, ChainAppend DEF f

(* The function that is finished is what its block compiles to.             *)
LEMMA BlockCompiled ==
  ASSUME AnalysisInv, EmitOK, EmitEnd
  PROVE  CompiledAs([lines |-> lines,
                     exit  |-> IF EndsNormally THEN funcs[k].end ELSE NoExit], funcs[k])
<1> DEFINE f == funcs[k]
           c == [lines |-> lines, exit |-> IF EndsNormally THEN f.end ELSE NoExit]
<1>1. /\ k \in 1..Len(funcs) /\ TypeOK /\ addr \in Nat
      /\ ~(addr < f.end) \/ Truncated(addr)
      /\ Chain(lines, f.start, f.end, addr)
  BY WordIsInt DEF AnalysisInv, PassInv, BlockInv, IInv, TypeOK, EmitOK, EmitEnd, MoreLines
<1>2. f.start \in Nat /\ f.end \in Nat /\ f \in Block
  BY <1>1, BlockBoundaries
<1>3. Sound(f)
  BY <1>1 DEF AnalysisInv, PassInv, BlockInv, Blocks
<1>4. c.exit = IF c.lines = <<>> \/ ~Leaves(LastLine(c)) THEN f.end ELSE NoExit
  BY DEF EndsNormally, Leaves, LastLine
<1>5. c.lines = lines
  OBVIOUS
<1> HIDE DEF f, c
<1>6. lines \in Seq(CodeLines) /\ Len(lines) \in Nat /\ addr \in Steps(f.start)
      /\ f.start <= addr
  BY <1>1, <1>2, StepsUp DEF Chain
<1>7. CASE f.start <= f.end
  <2>1. f.end \in Steps(f.start)
    BY <1>3, <1>7 DEF Sound
  <2>2. ~(addr < f.end)
    BY <1>1, <1>3, <1>6, <1>7 DEF Sound, WithinBlock
  <2>3. addr <= f.end
    <3>1. CASE lines = <<>>
      BY <1>1, <1>2, <1>7, <3>1 DEF Chain
    <3>2. CASE lines # <<>>
      <4>1. Len(lines) \in 1..Len(lines)
        BY <1>6, <3>2
      <4>2. lines[Len(lines)].in.pc \in Steps(f.start) /\ lines[Len(lines)].in.pc < f.end
            /\ After(lines[Len(lines)].in.pc) = addr
        BY <1>1, <4>1 DEF Chain
      <4>3. QED
        BY <1>2, <2>1, <4>2, StepsApart
    <3>3. QED
      BY <3>1, <3>2
  <2>4. addr = f.end
    BY <1>1, <1>2, <2>2, <2>3
  <2>5. QED
    BY <1>1, <1>4, <1>5, <1>7, <2>4 DEF CompiledAs, c, f
<1>8. CASE ~(f.start <= f.end)
  <2>1. lines = <<>>
    <3> SUFFICES ASSUME lines # <<>> PROVE FALSE
      OBVIOUS
    <3>1. 1 \in 1..Len(lines)
      BY <1>6
    <3>2. lines[1].in.pc < f.end /\ lines[1].in.pc = f.start
      BY <1>1, <3>1 DEF Chain
    <3>3. QED
      BY <1>2, <1>8, <3>2
  <2>2. QED
    BY <1>4, <1>5, <1>8, <2>1 DEF CompiledAs, c, f
<1>9. QED
  BY <1>7, <1>8

(* No code, and no line, is what emission begins with.                      *)
LEMMA NoCode == DOMAIN <<>> = {}
OBVIOUS

(* Before emission nothing is emitted. *)
LEMMA BeginEmitOK ==
  ASSUME EmitBegin, stage \notin {"emit", "emitted"} PROVE EmitOK
BY NoCode DEF EmitOK, EmitBegin

(* Each step of the emitter keeps its part of the invariant.                *)
LEMMA EmitOKStep ==
  ASSUME AnalysisInv, EmitOK, EmitStep PROVE EmitOK'
<1>0. /\ TypeOK /\ funcs \in Seq(Block) /\ Len(funcs) \in Nat /\ k \in Nat \ {0} /\ addr \in Word
      /\ Len(funcs) > 0 <=> funcs # <<>>
  BY DEF AnalysisInv, PassInv, BlockInv, IInv, TypeOK
<1>1. EmitKeeps /\ (phase = "analyzed")
  BY DEF EmitStep, BeginEmit, SkipSelfModifying, EmitLine, EmitEnd, EmitDone, EmitKeeps, EmitOK
<1>2. /\ \A ls, s, e, a : Chain(ls, s, e, a)' <=> Chain(ls, s, e, a)
      /\ \A c, f : CompiledAs(c, f)' <=> CompiledAs(c, f)
      /\ funcs' = funcs /\ phase' = phase
  BY <1>1, EmitSameLines DEF EmitKeeps
<1>3. CASE BeginEmit
  <2>1. stage' = "emit" /\ k' = 1 /\ addr' = FirstAddr /\ code' = <<>> /\ lines' = <<>>
    BY <1>3 DEF BeginEmit, EmitOK
  <2>2. ASSUME 1 <= Len(funcs)
        PROVE  Chain(<<>>, funcs[1].start, funcs[1].end, FirstAddr)
    <3>1. 1 \in 1..Len(funcs) /\ funcs # <<>>
      BY <1>0, <2>2
    <3>2. funcs[1].start \in Nat /\ FirstAddr = funcs[1].start
      BY <1>0, <3>1, BlockBoundaries DEF FirstAddr
    <3>3. QED
      BY <3>2, ChainStart
  <2>3. (\A i \in 1..Len(funcs) : ~(i < 1)) /\ (\A b \in DOMAIN code' : FALSE)
    BY <1>0, <2>1, NoCode
  <2>4. QED
    BY <1>1, <1>2, <2>1, <2>2, <2>3 DEF EmitOK
<1>4. CASE SkipSelfModifying \/ EmitEnd
  <2>1. /\ stage' = "emit" /\ stage = "emit" /\ k' = k + 1 /\ k <= Len(funcs) /\ GoToNextBlock
        /\ k \in 1..Len(funcs)
    BY <1>0, <1>4 DEF SkipSelfModifying, EmitEnd, GoToNextBlock
  <2>2. k + 1 <= Len(funcs) => Chain(lines', funcs[k + 1].start, funcs[k + 1].end, addr')
    BY <1>0, <2>1, NextBlockChain
  <2>3. /\ DOMAIN code \subseteq DOMAIN code'
        /\ funcs[k].self_mod \/ funcs[k].start \in DOMAIN code'
        /\ \A b \in DOMAIN code' :
             \E i \in 1..Len(funcs) : funcs[i].start = b /\ CompiledAs(code'[b], funcs[i])
    <3>1. CASE SkipSelfModifying
      BY <1>2, <2>1, <3>1 DEF SkipSelfModifying, HasCode, EmitOK
    <3>2. CASE EmitEnd
      <4> DEFINE c == [lines |-> lines,
                       exit  |-> IF EndsNormally THEN funcs[k].end ELSE NoExit]
                 s == funcs[k].start
      <4>1. code' = [b \in DOMAIN code \cup {s} |-> IF b = s THEN c ELSE code[b]]
        BY <3>2 DEF EmitEnd
      <4>2. CompiledAs(c, funcs[k])
        BY <3>2, BlockCompiled
      <4> HIDE DEF c
      <4>3. /\ DOMAIN code' = DOMAIN code \cup {s}
            /\ code'[s] = c
            /\ \A b \in DOMAIN code : b # s => code'[b] = code[b]
        BY <4>1
      <4>4. s \in DOMAIN code'
        BY <4>3
      <4>5. ASSUME NEW b \in DOMAIN code'
            PROVE  \E i \in 1..Len(funcs) :
                     funcs[i].start = b /\ CompiledAs(code'[b], funcs[i])
        <5>1. CASE b = s
          BY <2>1, <4>2, <4>3, <5>1
        <5>2. CASE b # s
          BY <4>3, <5>2 DEF EmitOK
        <5>3. QED
          BY <5>1, <5>2
      <4>6. QED
        BY <4>3, <4>4, <4>5
    <3>3. QED
      BY <1>4, <3>1, <3>2
  <2>4. ASSUME NEW i \in 1..Len(funcs), i < k + 1 PROVE HasCode(i)'
    <3>1. CASE i < k
      <4>1. HasCode(i)
        BY <2>1, <3>1 DEF EmitOK
      <4>2. QED
        BY <1>2, <2>3, <4>1 DEF HasCode
    <3>2. CASE i = k
      BY <1>2, <2>3, <3>2 DEF HasCode
    <3>3. QED
      BY <1>0, <2>4, <3>1, <3>2
  <2>5. QED
    BY <1>1, <1>2, <2>1, <2>2, <2>3, <2>4 DEF EmitOK
<1>5. CASE EmitLine
  <2>1. /\ stage' = stage /\ stage = "emit" /\ k' = k /\ code' = code
    BY <1>5 DEF EmitLine
  <2>2. Chain(lines', funcs[k].start, funcs[k].end, addr')
    BY <1>5, LineChain
  <2>3. \A i : HasCode(i)' <=> HasCode(i)
    BY <1>2, <2>1 DEF HasCode
  <2>4. QED
    BY <1>1, <1>2, <2>1, <2>2, <2>3 DEF EmitOK
<1>6. CASE EmitDone
  <2>1. /\ stage' = "emitted" /\ stage = "emit" /\ k > Len(funcs) /\ code' = code
    BY <1>6 DEF EmitDone
  <2>2. \A i \in 1..Len(funcs) : i < k
    BY <1>0, <2>1
  <2>3. \A i : HasCode(i)' <=> HasCode(i)
    BY <1>2, <2>1 DEF HasCode
  <2>4. QED
    BY <1>1, <1>2, <2>1, <2>2, <2>3 DEF EmitOK
<1>7. QED
  BY <1>3, <1>4, <1>5, <1>6 DEF EmitStep

-----------------------------------------------------------------------------
(* The invariant of analysis and emission together.                         *)

EmitInv == AnalysisInv /\ EmitOK

(* The invariant of the emitter holds before it starts. *)
LEMMA BeginEmitInv ==
  Begin /\ TypeOK /\ EmitBegin /\ stage \notin {"emit", "emitted"} => EmitInv
BY BeginAnalysis, BeginEmitOK DEF EmitInv

(* Where nothing is emitted yet there is nothing to show.                   *)
LEMMA NothingEmitted ==
  ASSUME EmitOK, stage \notin {"emit", "emitted"}, stage' \notin {"emit", "emitted"},
         UNCHANGED <<code, lines>>
  PROVE  EmitOK'
BY NoCode DEF EmitOK

(* Each step of analysis and emission keeps it. *)
LEMMA EmitNextKeeps == EmitInv /\ EmitNext => EmitInv'
<1> SUFFICES ASSUME EmitInv, EmitNext PROVE EmitInv'
  OBVIOUS
<1>1. AnalysisInv /\ EmitOK /\ IInv
  BY DEF EmitInv, AnalysisInv, PassInv, BlockInv
<1>2. CASE Analyze
  <2>1. AnalysisInv'
    BY <1>1, <1>2, AnalysisStep DEF Analyze
  <2>2. stage = "analyze" /\ stage' = "analyze" /\ UNCHANGED <<code, lines>>
    BY <1>2 DEF Analyze, emitVars
  <2>3. QED
    BY <1>1, <2>1, <2>2, NothingEmitted DEF EmitInv
<1>3. CASE EmitStep
  <2>1. EmitKeeps /\ phase = "analyzed"
    BY <1>1, <1>3
       DEF EmitStep, BeginEmit, SkipSelfModifying, EmitLine, EmitEnd, EmitDone, EmitKeeps, EmitOK
  <2>2. k' \in Nat \ {0} /\ addr' \in Word
    BY <1>1, TranslateKeeps DEF IInv, TypeOK
  <2>3. QED
    BY <1>1, <1>3, <2>1, <2>2, AnalysisKept, EmitOKStep DEF EmitInv
<1>4. QED
  BY <1>2, <1>3 DEF EmitNext

(* A step that changes none of their variables keeps it. *)
LEMMA EmitStutters ==
  ASSUME EmitInv, UNCHANGED <<vars, code, lines>>,
         \/ stage' = stage
         \/ stage \notin {"emit", "emitted"} /\ stage' \notin {"emit", "emitted"}
  PROVE  EmitInv'
<1>1. AnalysisInv /\ EmitOK /\ EmitKeeps /\ UNCHANGED <<funcs, phase, k, addr>>
  BY DEF EmitInv, EmitKeeps, vars
<1>2. AnalysisInv'
  BY <1>1, AnalysisStep
<1>3. CASE stage' = stage
  <2>1. \A i : HasCode(i)' <=> HasCode(i)
    BY <1>1 DEF HasCode
  <2>2. /\ \A ls, s, e, a : Chain(ls, s, e, a)' <=> Chain(ls, s, e, a)
        /\ \A c, f : CompiledAs(c, f)' <=> CompiledAs(c, f)
    BY <1>1, EmitSameLines
  <2>3. code' = code /\ lines' = lines
    OBVIOUS
  <2>4. EmitOK'
    BY <1>1, <1>3, <2>1, <2>2, <2>3 DEF EmitOK
  <2>5. QED
    BY <1>2, <2>4 DEF EmitInv
<1>4. CASE stage \notin {"emit", "emitted"} /\ stage' \notin {"emit", "emitted"}
  BY <1>1, <1>2, <1>4, NothingEmitted DEF EmitInv
<1>5. QED
  BY <1>3, <1>4

(* It is an invariant of the specification. *)
LEMMA EmitInvariant == EmitSpec => []EmitInv
<1>1. EmitInit => EmitInv
  BY TypeInit, BeginEmitInv DEF EmitInit, Init
<1>2. EmitInv /\ [EmitNext]_allVars => EmitInv'
  <2>1. UNCHANGED allVars => UNCHANGED <<vars, code, lines>> /\ stage' = stage
    BY DEF allVars, emitVars
  <2>2. QED
    BY <2>1, EmitNextKeeps, EmitStutters
<1>3. QED
  BY <1>1, <1>2, PTL DEF EmitSpec

(* A block that compiled code was made from, its start and its lines.       *)
LEMMA CodeOfBlock ==
  ASSUME EmitInv, NEW b \in DOMAIN code
  PROVE  \E i \in 1..Len(funcs) :
           LET f == funcs[i]
               c == code[b]
           IN  /\ f.start = b /\ CompiledAs(c, f) /\ Sound(f)
               /\ f.start \in Nat /\ f.end \in Nat /\ f.end # NoExit
               /\ c.lines = <<>> \/ (i \in Unwrapped /\ Chain(c.lines, f.start, f.end, f.end))
<1>1. TypeOK /\ Blocks
  BY DEF EmitInv, AnalysisInv, PassInv, BlockInv, IInv
<1>2. PICK i \in 1..Len(funcs) : funcs[i].start = b /\ CompiledAs(code[b], funcs[i])
  BY DEF EmitInv, EmitOK
<1>3. /\ funcs[i].start \in Nat /\ funcs[i].end \in Nat /\ funcs[i].end # NoExit
      /\ Sound(funcs[i])
  <2>1. funcs[i] \in Block /\ funcs[i].start \in Nat /\ funcs[i].end \in Nat
    BY <1>1, BlockBoundaries
  <2>2. funcs[i].end \in Int /\ funcs[i].end < WordSize /\ WordSize \in Nat
    BY <2>1, WordIsInt, Sizes DEF Block
  <2>3. funcs[i].end # WordSize
    BY <2>2
  <2>4. QED
    BY <1>1, <2>1, <2>3 DEF Blocks, NoExit
<1>4. \/ code[b].lines = <<>>
      \/ /\ i \in Unwrapped
         /\ Chain(code[b].lines, funcs[i].start, funcs[i].end, funcs[i].end)
  BY <1>2 DEF CompiledAs, Unwrapped
<1>5. QED
  BY <1>2, <1>3, <1>4

(* A C function has one way out and it is at its end.                       *)
LEMMA OneWay == EmitInv => OneWayOut
<1> SUFFICES ASSUME EmitInv, NEW b \in DOMAIN code
             PROVE  LET c == code[b]
                    IN  /\ \A j \in 1..(Len(c.lines) - 1) : ~Leaves(c.lines[j])
                        /\ c.exit = NoExit <=> c.lines # <<>> /\ Leaves(LastLine(c))
  BY DEF OneWayOut
<1> DEFINE c == code[b]
<1>1. PICK i \in 1..Len(funcs) :
        /\ CompiledAs(c, funcs[i]) /\ Sound(funcs[i])
        /\ funcs[i].start \in Nat /\ funcs[i].end \in Nat /\ funcs[i].end # NoExit
        /\ c.lines = <<>> \/ (i \in Unwrapped
                                /\ Chain(c.lines, funcs[i].start, funcs[i].end, funcs[i].end))
  BY CodeOfBlock
<1> HIDE DEF c
<1>2. c.exit = NoExit <=> c.lines # <<>> /\ Leaves(LastLine(c))
  BY <1>1 DEF CompiledAs
<1>3. \A j \in 1..(Len(c.lines) - 1) : ~Leaves(c.lines[j])
  <2>1. CASE c.lines = <<>>
    BY <2>1
  <2>2. CASE c.lines # <<>>
    BY <1>1, <2>2, ChainStraight DEF Unwrapped
  <2>3. QED
    BY <2>1, <2>2
<1>4. QED
  BY <1>2, <1>3 DEF c

(* Every edge of the compiled program leads to a compiled block, except to  *)
(* code that is patched, or when the table was full.                        *)
LEMMA Edges == EmitInv => EdgesCompiled
<1> SUFFICES ASSUME EmitInv, stage = "emitted", NEW b \in DOMAIN code,
                    NEW t \in StaticExits(code[b]), in_image(t), Len(funcs) # MaxFuncs
             PROVE  \/ t \in DOMAIN code
                    \/ \E i \in 1..Len(funcs) : funcs[i].start = t /\ funcs[i].self_mod
  BY DEF EdgesCompiled
<1>1. /\ FollowInv /\ BlockInv /\ phase = "analyzed" /\ ~Discovering /\ TypeOK
      /\ Len(funcs) \in Nat /\ MaxFuncs \in Nat /\ Len(funcs) <= MaxFuncs
  BY ConstantTypes DEF EmitInv, AnalysisInv, FollowInv, BlockInv, IInv, EmitOK, Discovering,
     TypeOK, TableBounds
<1>2. d.seen = Starts
  BY <1>1, SeenHasBlock
<1>3. \A l \in Starts : Successors(l) \subseteq d.seen
  <2>1. InHandCount = 0 /\ d.work = <<>>
    BY <1>1 DEF InHandCount, BlockInv, Emptied
  <2>2. Len(d.work) = 0
    BY <2>1
  <2>3. ~(Places >= MaxFuncs)
    BY <1>1, <2>1, <2>2 DEF Places
  <2>4. QED
    BY <1>1, <2>3 DEF FollowInv, Followed
<1> DEFINE c == code[b]
<1>4. PICK i \in 1..Len(funcs) :
        /\ CompiledAs(c, funcs[i]) /\ Sound(funcs[i])
        /\ funcs[i].start \in Nat /\ funcs[i].end \in Nat /\ funcs[i].end # NoExit
        /\ c.lines = <<>> \/ (i \in Unwrapped
                                /\ Chain(c.lines, funcs[i].start, funcs[i].end, funcs[i].end))
  BY CodeOfBlock
<1>5. t \in StaticExits(c)
  OBVIOUS
<1> HIDE DEF c
<1>6. t \in Starts
  <2>1. CASE c.exit # NoExit
    BY <1>2, <1>5, <2>1 DEF StaticExits
  <2>2. CASE c.exit = NoExit
    <3>1. c.lines # <<>> /\ Leaves(LastLine(c))
      BY <1>4, <2>2 DEF CompiledAs
    <3> DEFINE a == c.lines[Len(c.lines)].in.pc
               f == funcs[i]
    <3>2. /\ a \in Steps(f.start) /\ a < f.end /\ After(a) = f.end
          /\ c.lines[Len(c.lines)].in = Insn(a)
          /\ i \in Unwrapped
      BY <1>4, <3>1, ChainStraight DEF Unwrapped
    <3>3. Insn(a).cflow # "normal" /\ t \in Transfers(a)
      BY <1>5, <2>2, <3>1, <3>2 DEF Leaves, LastLine, StaticExits
    <3> HIDE DEF a
    <3>4. f.start <= f.end /\ f \in Block /\ f.end < WordSize /\ f.start \in Nat
      BY <1>1, <3>2, BlockBoundaries, WordIsInt DEF Unwrapped, Block
    <3>5. ~f.fallthrough
      BY <1>4, <3>2, <3>3, <3>4 DEF Sound
    <3>6. a \in Boundaries(f) /\ a \in Nat
      BY <1>1, <3>2, <3>4, BlockBoundaries, StepsUp
    <3>7. Next16(a) = f.end
      BY <3>2, <3>4, <3>6, NoWrap
    <3>8. t \in Exits(f)
      BY <3>3, <3>5, <3>6, <3>7 DEF Exits, LastInsn
    <3>9. t \in Successors(f.start) /\ f.start \in Starts
      BY <1>1, <3>2, <3>8, ExitsAreSuccessors DEF Starts
    <3>10. QED
      BY <1>2, <1>3, <3>9
  <2>3. QED
    BY <2>1, <2>2
<1>7. QED
  BY <1>6 DEF Starts, EmitInv, EmitOK, HasCode

(* No statement of a C function follows a return, and only a function whose *)
(* last line returns sets no final PC.                                      *)
THEOREM FunctionsHaveOneWayOut == EmitSpec => []OneWayOut
BY OneWay, EmitInvariant, PTL

(* The compiled program leaves its own blocks only for code that is patched *)
(* or that the image does not have, unless the table was full.              *)
THEOREM EdgesStayCompiled == EmitSpec => []EdgesCompiled
BY Edges, EmitInvariant, PTL
=============================================================================
