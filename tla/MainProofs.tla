----------------------------- MODULE MainProofs -----------------------------
(***************************************************************************)
(* Theorems about module Main, for every command line: what is proved of   *)
(* the analyzer and of the emitter (modules BlockProofs, LeaderProofs and  *)
(* EmitProofs) holds of the whole program, from its options to the last    *)
(* line emitted; the listing shows the code the analyzer finds; and what   *)
(* is compiled is what the arguments ask for.                              *)
(***************************************************************************)
EXTENDS Main, EmitProofs

(* The loop cursors of main() point at arguments that are there.           *)
CursorOK ==
  /\ arg \in Nat \ {0} /\ item \in Nat
  /\ stage = "file" => arg + 1 <= Len(args) /\ args[arg + 1].kind = "file" /\ item >= 1
  /\ stage = "table" => arg + 3 <= Len(args)

ToolInv == IInv /\ SeedsFit /\ Readable(args) /\ CursorOK

(* There is room for a seed at least. *)
LEMMA SeedsBound == MaxSeeds \in Nat \ {0}
BY MainAssumption DEF MainAssumption

(* Without --code the range is all words. *)
LEMMA SpanType == Everything \in Spans
BY Sizes, WordIsInt DEF Everything, Spans

(* A number read from an argument wraps to a word. *)
LEMMA NumberType ==
  ASSUME Readable(args), NEW i \in 1..Len(args) PROVE Number(args[i]) \in Word
BY WType DEF Readable, Number

-----------------------------------------------------------------------------
(* The invariant holds when the program starts. *)
LEMMA ToolInit == MainInit => ToolInv
<1> SUFFICES ASSUME MainInit PROVE ToolInv
  OBVIOUS
<1>1. PICK c \in Commands : rom = c.rom /\ args = c.args /\ stage \in {"sweep", "options"}
  BY DEF MainInit
<1>2. rom \in Roms /\ Readable(args)
  BY <1>1, MainAssumption DEF MainAssumption, Roms
<1>3. Begin /\ span = Everything /\ seeds = <<>> /\ arg = 1 /\ item = 0
  BY DEF MainInit
<1>4. IInv
  BY <1>2, <1>3, SpanType, BeginType, BeginPlaced
<1>5. SeedsFit
  BY <1>3, SeedsBound DEF SeedsFit
<1>6. CursorOK
  BY <1>1, <1>3 DEF CursorOK
<1>7. QED
  BY <1>2, <1>4, <1>5, <1>6 DEF ToolInv

(* The option loop changes no variable of the analyzer but its arguments.  *)
LEMMA OptionsKeep ==
  ASSUME IInv, AnalysisWaits, seeds' \in Seq(Word), span' \in Spans
  PROVE  IInv'
<1>1. UNCHANGED <<rom, phase, d, funcs, ext, patched, fs, k, addr>>
  BY DEF AnalysisWaits
<1>2. TypeOK'
  BY <1>1 DEF IInv, TypeOK
<1>3. Starts' = Starts /\ InHand' = InHand
  BY <1>1 DEF Starts, InHand
<1>4. QED
  BY <1>1, <1>2, <1>3 DEF IInv, TableBounds, NoDuplicateBlock, OnePlace, Placed,
                          SeenGetsABlock, Accounted

-----------------------------------------------------------------------------
(* The option loop. *)

(* A seed is appended while there is room for it.                           *)
LEMMA CollectType ==
  ASSUME seeds \in Seq(Word), Room, NEW a \in Word, Collect(a)
  PROVE  seeds' \in Seq(Word) /\ SeedsFit'
<1>1. Len(seeds) \in Nat /\ seeds' = Append(seeds, a)
  BY DEF Collect
<1>2. seeds' \in Seq(Word) /\ Len(seeds') = Len(seeds) + 1
  BY <1>1
<1>3. QED
  BY <1>1, <1>2, SeedsBound DEF Room, SeedsFit

(* The cursor of the option loop stays a position. *)
LEMMA SkipToType ==
  ASSUME NEW a \in Nat \ {0}, SkipTo(a) PROVE CursorOK'
BY DEF SkipTo, CursorOK

(* The word of an entry is one, and one only if its bytes are in the image.  *)
LEMMA EntryWordsType ==
  ASSUME rom \in Roms, NEW o \in Int, NEW adj \in Int
  PROVE  /\ \A v \in EntryWords(o, adj) : v \in Word
         /\ o # -1 => \E v \in Word : EntryWords(o, adj) = {v}
<1>1. ASSUME NEW low \in Byte PROVE W(low + ByteSize * RomByte(o + 1) + adj) \in Word
  <2>1. RomByte(o + 1) \in Byte
    BY RomByteType
  <2>2. low + ByteSize * RomByte(o + 1) \in Word
    BY <2>1, TwoBytes
  <2>3. low + ByteSize * RomByte(o + 1) + adj \in Int
    BY <2>2, WordIsInt
  <2>4. QED
    BY <2>3, WType
<1>2. RomByte(o) \in Byte
  BY RomByteType
<1>3. QED
  BY <1>1, <1>2 DEF EntryWords

(* The option loop keeps the invariant: it touches no table. *)
LEMMA OptionsStep ==
  ASSUME ToolInv, Options PROVE ToolInv'
<1>0. /\ IInv /\ Readable(args) /\ seeds \in Seq(Word) /\ span \in Spans /\ SeedsFit
      /\ arg \in Nat \ {0} /\ item \in Nat /\ Len(args) \in Nat
  BY DEF ToolInv, IInv, TypeOK, CursorOK, Readable
<1>1. AnalysisWaits /\ args' = args
  BY DEF Options, TakeCode, OpenSeeds, ReadLine, CloseSeeds, OpenTable, ReadEntry, CloseTable,
         TakeNumber, OptionsDone, optVars
<1>2. Readable(args)'
  BY <1>0, <1>1
<1>3. SUFFICES seeds' \in Seq(Word) /\ span' \in Spans /\ SeedsFit' /\ CursorOK'
  BY <1>0, <1>1, <1>2, OptionsKeep DEF ToolInv
<1>4. CASE TakeCode
  <2>1. arg + 1 \in 1..Len(args) /\ arg + 2 \in 1..Len(args)
    BY <1>0, <1>4 DEF TakeCode, Option
  <2>2. span' \in Spans
    BY <1>0, <1>4, <2>1, NumberType DEF TakeCode, Spans
  <2>3. CursorOK'
    BY <1>0, <1>4, SkipToType DEF TakeCode
  <2>4. QED
    BY <1>0, <1>4, <2>2, <2>3 DEF TakeCode, SeedsFit
<1>5. CASE OpenSeeds
  <2>1. CursorOK'
    <3>1. arg + 1 <= Len(args)
      BY <1>5 DEF OpenSeeds, Option
    <3>2. CASE args[arg + 1].kind = "file"
      BY <1>0, <1>1, <1>5, <3>1, <3>2 DEF OpenSeeds, CursorOK
    <3>3. CASE args[arg + 1].kind # "file"
      BY <1>0, <1>5, <3>3, SkipToType DEF OpenSeeds
    <3>4. QED
      BY <3>2, <3>3
  <2>2. QED
    BY <1>0, <1>5, <2>1 DEF OpenSeeds, SeedsFit
<1>6. CASE ReadLine
  <2>1. /\ arg + 1 \in 1..Len(args) /\ args[arg + 1].kind = "file" /\ item >= 1
        /\ stage = "file" /\ item <= Len(FileLines)
    BY <1>0, <1>6 DEF ReadLine, ToolInv, CursorOK
  <2>2. item \in 1..Len(FileLines)
    BY <1>0, <2>1 DEF FileLines, Readable
  <2>3. SeedLine(FileLines[item]) => LineNumber(FileLines[item]) \in Word
    BY <1>0, <2>1, <2>2 DEF FileLines, Readable
  <2>4. seeds' \in Seq(Word) /\ SeedsFit'
    BY <1>0, <1>6, <2>3, CollectType DEF ReadLine, SeedsFit
  <2>5. CursorOK'
    BY <1>0, <1>1, <1>6, <2>1 DEF ReadLine, CursorOK
  <2>6. QED
    BY <1>0, <1>6, <2>4, <2>5 DEF ReadLine
<1>7. CASE CloseSeeds
  BY <1>0, <1>7, SkipToType DEF CloseSeeds, SeedsFit
<1>8. CASE OpenTable
  BY <1>0, <1>1, <1>8 DEF OpenTable, Option, CursorOK, SeedsFit
<1>9. CASE ReadEntry
  <2>1. /\ stage = "table" /\ stage' = stage /\ arg' = arg /\ item' = item + 1
        /\ span' = span /\ Room
    BY <1>9 DEF ReadEntry, AtEntry
  <2>2. arg + 1 \in 1..Len(args) /\ arg + 3 \in 1..Len(args)
    BY <1>0, <2>1 DEF ToolInv, CursorOK
  <2> DEFINE o   == EntryOffset(args[arg + 1], item)
             adj == strtoul(args[arg + 3])
  <2>3. o \in Int /\ adj \in Int
    BY <1>0, <2>2, NumberType, WordIsInt, ConstantTypes DEF EntryOffset, Readable
  <2>4. \A v \in EntryWords(o, adj) : v \in Word
    <3> HIDE DEF o, adj
    <3>1. QED
      BY <1>0, <2>3, EntryWordsType DEF IInv, TypeOK
  <2>5. PICK v \in EntryWords(o, adj) : IF InRom(v) THEN Collect(v) ELSE UNCHANGED seeds
    BY <1>9 DEF ReadEntry
  <2>6. seeds' \in Seq(Word) /\ SeedsFit'
    BY <1>0, <2>1, <2>4, <2>5, CollectType DEF SeedsFit
  <2>7. CursorOK'
    BY <1>0, <1>1, <2>1 DEF ToolInv, CursorOK
  <2>8. QED
    BY <1>0, <2>1, <2>6, <2>7
<1>10. CASE CloseTable
  BY <1>0, <1>10, SkipToType DEF CloseTable, SeedsFit
<1>11. CASE TakeNumber
  <2>1. arg \in 1..Len(args) /\ Room
    BY <1>0, <1>11 DEF TakeNumber, AtArg
  <2>2. seeds' \in Seq(Word) /\ SeedsFit'
    BY <1>0, <1>11, <2>1, NumberType, CollectType DEF TakeNumber
  <2>3. CursorOK'
    BY <1>0, <1>11, SkipToType DEF TakeNumber
  <2>4. QED
    BY <1>0, <1>11, <2>2, <2>3 DEF TakeNumber
<1>12. CASE OptionsDone
  <2>1. seeds' \in Seq(Word) /\ SeedsFit'
    BY <1>0, <1>12, ConstantTypes, SeedsBound DEF OptionsDone, SeedsFit
  <2>2. CursorOK'
    BY <1>0, <1>12 DEF OptionsDone, CursorOK, optVars
  <2>3. QED
    BY <1>0, <1>12, <2>1, <2>2 DEF OptionsDone
<1>13. QED
  BY <1>4, <1>5, <1>6, <1>7, <1>8, <1>9, <1>10, <1>11, <1>12 DEF Options

-----------------------------------------------------------------------------
(* What the properties of the analyzer read is unchanged.                   *)
LEMMA AnalysisUnchanged ==
  ASSUME IInv, UNCHANGED vars PROVE IInv'
<1>1. [Next]_vars
  OBVIOUS
<1>2. QED
  BY <1>1, PlacedStep

(* Each step of the tool keeps the invariant. *)
LEMMA ToolStep == ToolInv /\ [MainNext]_mainVars => ToolInv'
<1> SUFFICES ASSUME ToolInv, [MainNext]_mainVars PROVE ToolInv'
  OBVIOUS
<1>0. IInv /\ SeedsFit /\ Readable(args) /\ CursorOK
  BY DEF ToolInv
<1>1. CASE Options
  BY <1>1, OptionsStep
<1>2. CASE List
  <2>1. UNCHANGED <<vars, stage, args, arg, item>>
    BY <1>2 DEF List, allVars, emitVars, optVars
  <2>2. IInv' /\ seeds' = seeds
    BY <1>0, <2>1, AnalysisUnchanged DEF vars
  <2>3. QED
    BY <1>0, <2>1, <2>2 DEF ToolInv, SeedsFit, CursorOK
<1>3. CASE ListDone
  <2>1. UNCHANGED <<vars, args, arg, item>> /\ stage' = "listed"
    BY <1>3 DEF ListDone, optVars
  <2>2. IInv' /\ seeds' = seeds
    BY <1>0, <2>1, AnalysisUnchanged DEF vars
  <2>3. QED
    BY <1>0, <2>1, <2>2 DEF ToolInv, SeedsFit, CursorOK
<1>4. CASE Translate
  <2>1. IInv'
    BY <1>0, <1>4, TranslateKeeps DEF Translate
  <2>2. UNCHANGED <<seeds, args, arg, item>> /\ stage' \notin {"file", "table"}
    <3>1. CASE Analyze
      BY <1>4, <3>1, AnalysisArguments DEF Translate, Analyze, optVars, emitVars
    <3>2. CASE EmitStep
      BY <1>4, <3>2 DEF Translate, EmitStep, BeginEmit, SkipSelfModifying, EmitLine, EmitEnd,
                        EmitDone, EmitKeeps, optVars
    <3>3. QED
      BY <1>4, <3>1, <3>2 DEF Translate, EmitNext
  <2>3. QED
    BY <1>0, <2>1, <2>2 DEF ToolInv, SeedsFit, CursorOK
<1>5. CASE UNCHANGED mainVars
  <2>1. UNCHANGED <<vars, stage, args, arg, item>>
    BY <1>5 DEF mainVars, allVars, emitVars, optVars
  <2>2. IInv' /\ seeds' = seeds
    BY <1>0, <2>1, AnalysisUnchanged DEF vars
  <2>3. QED
    BY <1>0, <2>1, <2>2 DEF ToolInv, SeedsFit, CursorOK
<1>6. QED
  BY <1>1, <1>2, <1>3, <1>4, <1>5 DEF MainNext

(* The invariant is one of the specification. *)
LEMMA ToolSafe == MainSpec => []ToolInv
BY ToolInit, ToolStep, PTL DEF MainSpec

(* Whatever the arguments, seed files and tables are, the array of seeds is *)
(* not overrun.                                                             *)
THEOREM SeedsNeverOverrun == MainSpec => []SeedsFit
<1>1. ToolInv => SeedsFit
  BY DEF ToolInv
<1>2. QED
  BY <1>1, ToolSafe, PTL

(* The analyzer's arrays are not overrun, every variable keeps its type and *)
(* no address gets two blocks in the whole program, whatever was asked for. *)
THEOREM ToolKeepsTables == MainSpec => [](TypeOK /\ TableBounds /\ NoDuplicateBlock)
<1>1. ToolInv => TypeOK /\ TableBounds /\ NoDuplicateBlock
  BY DEF ToolInv, IInv
<1>2. QED
  BY <1>1, ToolSafe, PTL

-----------------------------------------------------------------------------
(* The whole program.                                                       *)

Translating == stage \in {"analyze", "emit", "emitted"}

(* Until the options are read nothing is analyzed.                          *)
ProgramInv ==
  /\ ToolInv
  /\ EmitInv
  /\ ~Translating => Begin /\ EmitBegin

(* The program starts with nothing analyzed. *)
LEMMA ProgramInit == MainInit => ProgramInv
<1> SUFFICES ASSUME MainInit PROVE ProgramInv
  OBVIOUS
<1>1. /\ ToolInv /\ TypeOK /\ Begin /\ EmitBegin
      /\ stage \notin {"emit", "emitted"}
  BY ToolInit DEF MainInit, ToolInv, IInv
<1>2. QED
  BY <1>1, BeginEmitInv DEF ProgramInv

(* The step into the analysis, and those before it.                         *)
LEMMA BeginLater ==
  (Begin /\ TypeOK /\ EmitBegin /\ stage \notin {"emit", "emitted"})' => EmitInv'
BY BeginEmitInv, PTL

(* Each step of the program keeps its invariant. *)
LEMMA ProgramStep == ProgramInv /\ [MainNext]_mainVars => ProgramInv'
<1> SUFFICES ASSUME ProgramInv, [MainNext]_mainVars PROVE ProgramInv'
  OBVIOUS
<1>0. ToolInv /\ EmitInv /\ ToolInv' /\ TypeOK'
  BY ToolStep DEF ProgramInv, ToolInv, IInv
<1>1. CASE Options
  <2>1. /\ ~Translating /\ stage' \notin {"emit", "emitted"}
        /\ AnalysisWaits
    BY <1>1 DEF Options, TakeCode, OpenSeeds, ReadLine, CloseSeeds, OpenTable, ReadEntry,
       CloseTable, TakeNumber, OptionsDone, AtArg, SkipTo, Translating
  <2>2. (Begin /\ EmitBegin)'
    BY <2>1 DEF ProgramInv, AnalysisWaits, Begin, EmitBegin
  <2>3. QED
    BY <1>0, <2>1, <2>2, BeginLater DEF ProgramInv
<1>2. CASE Translate
  <2>1. Translating'
    BY <1>2 DEF Translate, EmitNext, Analyze, EmitStep, BeginEmit, SkipSelfModifying, EmitLine,
       EmitEnd, EmitDone, emitVars, Translating
  <2>2. EmitInv'
    BY <1>0, <1>2, EmitNextKeeps DEF Translate
  <2>3. QED
    BY <1>0, <2>1, <2>2 DEF ProgramInv
<1>3. CASE List \/ ListDone \/ UNCHANGED mainVars
  <2>1. /\ UNCHANGED <<vars, code, lines>>
        /\ \/ stage' = stage
           \/ stage \notin {"emit", "emitted"} /\ stage' \notin {"emit", "emitted"}
        /\ Translating' <=> Translating
    BY <1>3 DEF List, ListDone, mainVars, allVars, emitVars, Translating
  <2>2. EmitInv'
    BY <1>0, <2>1, EmitStutters
  <2>3. (Begin <=> Begin') /\ (EmitBegin <=> EmitBegin')
    BY <2>1 DEF vars, Begin, EmitBegin
  <2>4. QED
    BY <1>0, <2>1, <2>2, <2>3 DEF ProgramInv
<1>4. QED
  BY <1>1, <1>2, <1>3 DEF MainNext

(* It is an invariant of the specification. *)
LEMMA ProgramSafe == MainSpec => []ProgramInv
BY ProgramInit, ProgramStep, PTL DEF MainSpec

(* Each instruction of a compiled block has its line, in order and once.    *)
LEMMA Emitted == ProgramInv => EachInstructionEmitted
<1> SUFFICES ASSUME ProgramInv, NEW i \in Unwrapped, funcs[i].start \in DOMAIN code
             PROVE  LET ls == code[funcs[i].start].lines
                    IN  /\ {ls[j].in.pc : j \in 1..Len(ls)} = Boundaries(funcs[i])
                        /\ \A j \in 2..Len(ls) : ls[j - 1].in.pc < ls[j].in.pc
  BY DEF EachInstructionEmitted
<1>1. EmitInv /\ IInv /\ TypeOK /\ i \in 1..Len(funcs) /\ funcs[i].start <= funcs[i].end
  BY DEF ProgramInv, ToolInv, IInv, Unwrapped
<1> DEFINE ls == code[funcs[i].start].lines
<1>2. PICK j \in 1..Len(funcs) :
        /\ funcs[j].start = funcs[i].start
        /\ CompiledAs(code[funcs[i].start], funcs[j])
  BY <1>1 DEF EmitInv, EmitOK
<1>3. j = i
  BY <1>1, <1>2 DEF IInv, NoDuplicateBlock
<1>4. Chain(ls, funcs[i].start, funcs[i].end, funcs[i].end)
  BY <1>1, <1>2, <1>3 DEF CompiledAs
<1> HIDE DEF ls
<1>5. /\ funcs[i].start \in Nat /\ funcs[i].end \in Nat
      /\ Boundaries(funcs[i]) = {a \in Steps(funcs[i].start) : a < funcs[i].end}
  BY <1>1, BlockBoundaries
<1> DEFINE s == funcs[i].start
           e == funcs[i].end
<1>6. /\ {ls[m].in.pc : m \in 1..Len(ls)} = Boundaries(funcs[i])
      /\ \A m \in 2..Len(ls) : ls[m - 1].in.pc < ls[m].in.pc
  <2>1. s \in Nat /\ e \in Nat /\ Boundaries(funcs[i]) = {a \in Steps(s) : a < e}
    BY <1>5
  <2>2. Chain(ls, s, e, e)
    BY <1>4
  <2> HIDE DEF s, e
  <2>3. /\ {ls[m].in.pc : m \in 1..Len(ls)} = {a \in Steps(s) : a < e}
        /\ \A m \in 2..Len(ls) : ls[m - 1].in.pc < ls[m].in.pc
    BY <2>1, <2>2, ChainWhole
  <2>4. QED
    BY <2>1, <2>3
<1>7. QED
  BY <1>6 DEF ls

(* Each instruction of each compiled block has one line, in their order,    *)
(* whatever the command line.                                               *)
THEOREM InstructionsEmitted == MainSpec => []EachInstructionEmitted
BY Emitted, ProgramSafe, PTL

(* What recompbin compiles is closed under its edges, has one way out of    *)
(* each function, and comes from blocks that were split at every leader,    *)
(* whose transfers have blocks, and of which the patched are not compiled.  *)
THEOREM ToolKeepsProgram ==
  MainSpec => [](/\ ExternalsOutside
                 /\ ExitsHaveBlocks
                 /\ SplitComplete
                 /\ PatchedOpcodesInterpreted
                 /\ OneWayOut
                 /\ EdgesCompiled)
<1>1. ProgramInv => /\ ExternalsOutside
                    /\ ExitsHaveBlocks
                    /\ SplitComplete
                    /\ PatchedOpcodesInterpreted
                    /\ OneWayOut
                    /\ EdgesCompiled
  BY ExternalsAre, ExitsHave, SplitIsComplete, PatchedIsInterpreted, OneWay, Edges
     DEF ProgramInv, EmitInv, AnalysisInv, PassInv
<1>2. QED
  BY <1>1, ProgramSafe, PTL

-----------------------------------------------------------------------------
(* The listing.                                                             *)

ListedAt(o) == decode(RomByte(o), RomByte(o + 1), RomByte(o + 2), W(Base + o))

(* The sweep steps over the instructions that decoding from Base on reaches, *)
(* and has listed those behind it.                                           *)
SweepInv ==
  /\ TypeOK
  /\ off \in Nat
  /\ Base + off \in Steps(Base)
  /\ listing \in Seq({ListedAt(o) : o \in Nat})
  /\ \A b \in Steps(Base) : b < Base + off =>
       \E j \in 1..Len(listing) : listing[j].pc = W(b)
  /\ stage = "listed" => ~MoreToList

(* Nothing is listed at first. *)
LEMMA SweepInit == MainInit => SweepInv
<1> SUFFICES ASSUME MainInit PROVE SweepInv
  OBVIOUS
<1>1. TypeOK /\ off = 0 /\ listing = <<>> /\ stage \in {"sweep", "options"}
  BY ToolInit DEF MainInit, ToolInv, IInv
<1>2. Base \in Nat /\ Base + off = Base
  BY <1>1, ConstantTypes, WordIsInt
<1>3. Base \in Steps(Base) /\ \A b \in Steps(Base) : b \in Nat /\ Base <= b
  BY <1>2, StepsClosed, StepsUp
<1>4. QED
  BY <1>1, <1>2, <1>3 DEF SweepInv

(* Of an instruction the address counts for its target and pc only.         *)
LEMMA ListedLength ==
  ASSUME NEW o \in Nat
  PROVE  /\ ListedAt(o).len = Insn(Base + o).len
         /\ ListedAt(o).pc = W(Base + o)
<1>1. Off(Base + o) = o
  BY ConstantTypes, WordIsInt DEF Off
<1>2. QED
  BY <1>1 DEF ListedAt, Insn, decode

(* Each step of the sweep lists the instruction it steps over. *)
LEMMA ListStep == SweepInv /\ List => SweepInv'
<1> SUFFICES ASSUME SweepInv, List PROVE SweepInv'
  OBVIOUS
<1> DEFINE a == Base + off
<1>0. /\ off \in Nat /\ Base \in Nat /\ a \in Nat /\ a \in Steps(Base)
      /\ listing \in Seq({ListedAt(o) : o \in Nat}) /\ Len(listing) \in Nat
  BY ConstantTypes, WordIsInt DEF SweepInv
<1>1. /\ UNCHANGED <<vars, stage>> /\ stage = "sweep"
      /\ listing' = Append(listing, ListedAt(off))
      /\ off' = off + ListedAt(off).len
  BY DEF List, allVars, emitVars, ListedInsn, ListedAt
<1>2. off' \in Nat /\ Base + off' = After(a)
  <2>1. ListedAt(off).len = Insn(a).len /\ Insn(a).len \in {1, 2, 3}
    BY <1>0, ListedLength, AfterType
  <2> DEFINE len == Insn(a).len
  <2>2. off' = off + len /\ len \in {1, 2, 3} /\ After(a) = a + len
    BY <1>1, <2>1 DEF After
  <2> HIDE DEF len
  <2>3. off \in Nat /\ Base \in Nat
    BY <1>0
  <2>4. QED
    BY <2>2, <2>3
<1>3. /\ \A s : Steps(s)' = Steps(s)
      /\ \A o : ListedAt(o)' = ListedAt(o)
  BY <1>1, SameImage DEF vars, ListedAt, RomByte
<1>4. TypeOK'
  BY <1>1 DEF SweepInv, TypeOK, vars
<1>5. After(a) \in Steps(Base)
  BY <1>0, StepsClosed
<1>6. listing' \in Seq({ListedAt(o) : o \in Nat})
  BY <1>0, <1>1
<1>7. /\ Len(listing') = Len(listing) + 1
      /\ listing'[Len(listing) + 1] = ListedAt(off)
      /\ \A j \in 1..Len(listing) : listing'[j] = listing[j]
  BY <1>0, <1>1
<1>8. ASSUME NEW b \in Steps(Base), b < After(a)
      PROVE  \E j \in 1..Len(listing') : listing'[j].pc = W(b)
  <2>1. b \in Nat
    BY <1>0, StepsUp
  <2>2. CASE b < a
    <3>1. PICK j \in 1..Len(listing) : listing[j].pc = W(b)
      BY <2>2 DEF SweepInv
    <3>2. j \in 1..Len(listing')
      BY <1>0, <1>7
    <3>3. QED
      BY <1>7, <3>1, <3>2
  <2>3. CASE b = a
    <3>1. Len(listing) + 1 \in 1..Len(listing')
      BY <1>0, <1>7
    <3>2. ListedAt(off).pc = W(b)
      BY <1>0, <2>3, ListedLength
    <3>3. QED
      BY <1>7, <3>1, <3>2
  <2>4. CASE a < b
    <3>1. After(a) <= b /\ After(a) \in Nat
      BY <1>0, <2>4, StepsApart, AfterType
    <3>2. QED
      BY <1>8, <2>1, <3>1
  <2>5. QED
    BY <1>0, <2>1, <2>2, <2>3, <2>4
<1> HIDE DEF a
<1>9. QED
  BY <1>1, <1>2, <1>3, <1>4, <1>5, <1>6, <1>8 DEF SweepInv

(* The invariant of the sweep is one. *)
LEMMA SweepStep == ToolInv' /\ SweepInv /\ [MainNext]_mainVars => SweepInv'
<1> SUFFICES ASSUME ToolInv', SweepInv, [MainNext]_mainVars PROVE SweepInv'
  OBVIOUS
<1>1. CASE List
  BY <1>1, ListStep
<1>2. CASE ~List
  <2>1. /\ UNCHANGED <<rom, off, listing>>
        /\ \/ stage' # "listed"
           \/ stage' = stage /\ args' = args
           \/ ListDone
    <3>1. CASE Options
      BY <3>1 DEF Options, TakeCode, OpenSeeds, ReadLine, CloseSeeds, OpenTable, ReadEntry,
         CloseTable, TakeNumber, OptionsDone, SkipTo, AnalysisWaits, listVars
    <3>2. CASE ListDone
      BY <3>2 DEF ListDone, vars, listVars
    <3>3. CASE Translate
      <4>1. rom' = rom
        <5>1. CASE Analyze
          BY <5>1, ImageKept DEF Analyze
        <5>2. CASE EmitStep
          BY <5>2 DEF EmitStep, BeginEmit, SkipSelfModifying, EmitLine, EmitEnd, EmitDone,
                      EmitKeeps
        <5>3. QED
          BY <3>3, <5>1, <5>2 DEF Translate, EmitNext
      <4>2. UNCHANGED <<off, listing>> /\ stage' # "listed"
        BY <3>3 DEF Translate, EmitNext, Analyze, EmitStep, BeginEmit, SkipSelfModifying,
           EmitLine, EmitEnd, EmitDone, emitVars, listVars
      <4>3. QED
        BY <4>1, <4>2
    <3>4. CASE UNCHANGED mainVars
      BY <3>4 DEF mainVars, allVars, emitVars, vars, optVars, listVars
    <3>5. QED
      BY <1>2, <3>1, <3>2, <3>3, <3>4 DEF MainNext
  <2>2. (stage = "listed")' => ~(MoreToList')
    <3>1. CASE ListDone
      <4>1. UNCHANGED <<rom, args, off, listing>> /\ ~MoreToList
        BY <3>1 DEF ListDone, vars, optVars, listVars
      <4>2. QED
        BY <4>1 DEF MoreToList, Count, ListedInsn, RomByte
    <3>2. CASE stage' = stage /\ args' = args
      BY <2>1, <3>2 DEF SweepInv, MoreToList, Count, ListedInsn, RomByte
    <3>3. QED
      BY <2>1, <3>1, <3>2
  <2>3. /\ Steps(Base)' = Steps(Base)
        /\ \A o : ListedAt(o)' = ListedAt(o)
    <3>1. \A o : RomByte(o)' = RomByte(o)
      BY <2>1 DEF RomByte
    <3>2. \A a : Insn(a)' = Insn(a)
      BY <3>1 DEF Insn
    <3>3. QED
      BY <3>1, <3>2 DEF Steps, Closed, After, ListedAt
  <2>4. TypeOK'
    BY DEF ToolInv, IInv
  <2>5. QED
    BY <2>1, <2>2, <2>3, <2>4 DEF SweepInv
<1>3. QED
  BY <1>1, <1>2

(* The invariant of the sweep is one of the specification. *)
LEMMA SweepSafe == MainSpec => []SweepInv
BY ToolSafe, SweepInit, SweepStep, PTL DEF MainSpec

(* What is whole and before the end of the image is behind a finished sweep. *)
LEMMA SweptOver ==
  ASSUME SweepInv, stage = "listed", Count <= 0, NEW b \in Steps(Base), WithinBlock(Base, b)
  PROVE  b \in Word /\ \E j \in 1..Len(listing) : listing[j].pc = b
<1>0. /\ off \in Nat /\ Base \in Nat /\ Len(rom) \in Nat /\ Base + off \in Steps(Base)
      /\ Base + off \in Nat /\ WordSize \in Nat
  BY ConstantTypes, WordIsInt, Sizes DEF SweepInv, TypeOK, Roms
<1>1. b \in Nat /\ Base <= b /\ in_image(b) /\ ~Truncated(b)
  BY <1>0, StepsUp DEF WithinBlock
<1>2. /\ off < Len(rom) => Insn(Base + off).len > Len(rom) - off
  <2>1. ListedInsn.len = Insn(Base + off).len
    BY <1>0, ListedLength DEF ListedInsn, ListedAt
  <2>2. ListedInsn.len \in Nat /\ ~MoreToList
    BY <1>0, <2>1, AfterType DEF SweepInv
  <2>3. off < Len(rom) => ~(ListedInsn.len <= Len(rom) - off)
    BY <2>2 DEF MoreToList
  <2>4. QED
    BY <1>0, <2>1, <2>2, <2>3
<1>3. b < Base + Len(rom) /\ After(b) <= Base + Len(rom)
  <2>1. b - Base < Len(rom) /\ ~(Insn(b).len > Len(rom) - (b - Base))
    BY <1>1 DEF in_image, Truncated, Off
  <2>2. Insn(b).len \in {1, 2, 3}
    BY <1>1, AfterType
  <2> DEFINE len == Insn(b).len
             n == Len(rom)
  <2>3. b \in Nat /\ Base \in Nat /\ n \in Nat
    BY <1>0, <1>1
  <2> HIDE DEF len, n
  <2>4. b < Base + n /\ b + len <= Base + n
    BY <2>1, <2>2, <2>3 DEF len, n
  <2>5. QED
    BY <2>4 DEF After, len, n
<1>4. b < Base + off
  <2> SUFFICES ASSUME ~(b < Base + off) PROVE FALSE
    OBVIOUS
  <2>1. off < Len(rom) /\ After(Base + off) > Base + Len(rom)
    BY <1>0, <1>1, <1>2, <1>3, AfterType DEF After
  <2>2. CASE b = Base + off
    BY <1>0, <1>3, <2>1, <2>2, AfterType
  <2>3. CASE Base + off < b
    <3>1. After(Base + off) <= b /\ After(Base + off) \in Nat
      BY <1>0, <2>3, StepsApart, AfterType
    <3>2. QED
      BY <1>0, <1>1, <1>3, <2>1, <3>1
  <2>4. QED
    BY <1>0, <1>1, <2>2, <2>3
<1>5. b \in Word /\ W(b) = b
  <2>1. b \in Word
    BY <1>1, InImageWord DEF SweepInv, TypeOK
  <2>2. QED
    BY <2>1, WordIsInt, Sizes DEF W
<1>6. QED
  BY <1>4, <1>5 DEF SweepInv

(* The listing and the analyzer agree on where the code is. *)
LEMMA Shown == SweepInv => SweepShowsTheLine
<1> DEFINE e     == LineEnd(Base)
           shown == {listing[j].pc : j \in 1..Len(listing)}
<1> SUFFICES ASSUME SweepInv, stage = "listed", Count <= 0, Base <= e
             PROVE  /\ Boundaries([start |-> Base, end |-> e]) \subseteq shown
                    /\ WithinBlock(Base, e) => e \in shown
  BY DEF SweepShowsTheLine
<1>1. rom \in Roms /\ span \in Spans /\ Base \in Word /\ Base \in Nat
  BY ConstantTypes, WordIsInt DEF SweepInv, TypeOK
<1>2. e \in Word /\ ScannedTo(Base, e)
  BY <1>1, LineEndScanned
<1> HIDE DEF e
<1>3. e \in Nat /\ ~(e < Base)
  BY <1>1, <1>2, WordIsInt
<1>4. Straight(Base, e)
  BY <1>2, <1>3, LineStraight
<1>5. Boundaries([start |-> Base, end |-> e]) = {a \in Steps(Base) : a < e}
  BY <1>1, <1>3, BoundariesAre
<1>6. \A a \in Steps(Base) : WithinBlock(Base, a) => a \in shown
  BY SweptOver
<1>7. QED
  BY <1>4, <1>5, <1>6 DEF Straight

(* What disbin lists without a limit shows each instruction of the block at *)
(* the first address of the image, as the analyzer carves it.               *)
THEOREM ListingShowsTheLine == MainSpec => []SweepShowsTheLine
BY Shown, SweepSafe, PTL

-----------------------------------------------------------------------------
(* What the seeds lead to.  Reached is a recursive function: it grows until  *)
(* it is closed, which the size of the image bounds.                        *)

(* A set of leaders that has the addresses A of the image and all that they *)
(* lead to.                                                                 *)
HasRoots(A, S) == \A a \in A : in_image(a) => a \in S
Follows(S)     == \A l \in S : Successors(l) \subseteq S

Grow(S) == S \cup UNION {Successors(l) : l \in S}

IsReach(h, A, n) ==
  h = [m \in 0..n |-> IF m = 0 THEN {a \in A : in_image(a)} ELSE Grow(h[m - 1])]

(* The recursion of Reached has a solution. *)
LEMMA ReachExists ==
  ASSUME NEW A, NEW n \in Nat PROVE \E h : IsReach(h, A, n)
<1> DEFINE R == {a \in A : in_image(a)}
           S == {m \in Nat : ~ \E h : IsReach(h, A, m)}
<1>1. S = {}
  <2> SUFFICES ASSUME S # {} PROVE FALSE
    OBVIOUS
  <2>1. PICK m \in S : \A i \in S : m <= i
    BY Least
  <2>2. CASE m = 0
    <3>1. IsReach([i \in 0..0 |-> R], A, 0)
      BY DEF IsReach
    <3>2. QED
      BY <2>1, <2>2, <3>1
  <2>3. CASE m # 0
    <3>1. m - 1 \in Nat /\ m - 1 \notin S
      BY <2>1, <2>3
    <3>2. PICK h : IsReach(h, A, m - 1)
      BY <3>1
    <3> DEFINE g == [i \in 0..m |-> IF i = m THEN Grow(h[m - 1]) ELSE h[i]]
    <3>3. h = [i \in 0..(m - 1) |-> IF i = 0 THEN R ELSE Grow(h[i - 1])]
      BY <3>2 DEF IsReach
    <3> HIDE DEF R
    <3>4. \A i \in 0..(m - 1) : h[i] = IF i = 0 THEN R ELSE Grow(h[i - 1])
      BY <3>3
    <3>5. \A i \in 0..(m - 1) : i \in 0..m /\ i # m
      BY <3>1
    <3>6. \A i \in 0..m : i # 0 => i - 1 \in 0..(m - 1) /\ (i # m => i \in 0..(m - 1))
      BY <3>1
    <3>7. \A i \in 0..(m - 1) : g[i] = h[i]
      BY <3>5
    <3>8. \A i \in 0..m : g[i] = IF i = 0 THEN R ELSE Grow(g[i - 1])
      <4> TAKE i \in 0..m
      <4>1. CASE i = 0
        <5>1. 0 \in 0..(m - 1)
          BY <3>1
        <5>2. QED
          BY <3>4, <3>7, <4>1, <5>1
      <4>2. CASE i # 0 /\ i # m
        <5>1. i \in 0..(m - 1) /\ i - 1 \in 0..(m - 1)
          BY <3>6, <4>2
        <5>2. QED
          BY <3>4, <3>7, <4>2, <5>1
      <4>3. CASE i = m
        <5>1. i - 1 \in 0..(m - 1) /\ i # 0
          BY <2>3, <3>6, <4>3
        <5>2. g[i - 1] = h[i - 1]
          BY <3>7, <5>1
        <5>3. g[i] = Grow(h[m - 1])
          BY <4>3
        <5>4. QED
          BY <4>3, <5>1, <5>2, <5>3
      <4>4. QED
        BY <4>1, <4>2, <4>3
    <3>9. IsReach(g, A, m)
      <4>1. g = [i \in 0..m |-> g[i]]
        OBVIOUS
      <4> HIDE DEF g
      <4>2. g = [i \in 0..m |-> IF i = 0 THEN R ELSE Grow(g[i - 1])]
        BY <3>8, <4>1
      <4>3. QED
        BY <4>2 DEF IsReach, R
    <3>10. QED
      BY <2>1, <3>9
  <2>4. QED
    BY <2>2, <2>3
<1>2. QED
  BY <1>1

(* What a leader leads to is in the image. *)
LEMMA SuccessorsInImage ==
  ASSUME rom \in Roms, span \in Spans, NEW l \in Word
  PROVE  \A t \in Successors(l) : t \in Word /\ in_image(t)
<1>1. LineEnd(l) \in Word
  BY LineEndScanned
<1>2. Transfers(LineEnd(l)) \subseteq Word
  BY <1>1, InsnType, Next16Type, JumpTargetType DEF Transfers
<1>3. QED
  BY <1>2 DEF Successors

(* At most as many addresses as the image has bytes are in it. *)
LEMMA ImageSize ==
  ASSUME rom \in Roms, NEW S \in SUBSET Word, \A a \in S : in_image(a)
  PROVE  IsFiniteSet(S) /\ Cardinality(S) <= Len(rom) /\ Cardinality(S) \in Nat
<1> DEFINE I == Base..(Base + Len(rom) - 1)
<1>0. Base \in Nat /\ Len(rom) \in Nat
  BY ConstantTypes, WordIsInt DEF Roms
<1>1. IsFiniteSet(I) /\ Cardinality(I) = Len(rom)
  <2>1. Base \in Int /\ Base + Len(rom) - 1 \in Int
    BY <1>0
  <2>2. IsFiniteSet(I) /\ Cardinality(I) = IF Base > Base + Len(rom) - 1 THEN 0
                                           ELSE Base + Len(rom) - 1 - Base + 1
    BY <2>1, FS_Interval
  <2>3. QED
    BY <1>0, <2>2
<1>2. S \subseteq I
  <2> SUFFICES ASSUME NEW a \in S PROVE a \in I
    OBVIOUS
  <2>1. a \in Nat /\ a >= Base /\ a - Base < Len(rom)
    BY WordIsInt DEF in_image, Off
  <2>2. QED
    BY <1>0, <2>1
<1>3. QED
  BY <1>1, <1>2, FS_Subset, FS_CardinalityType

(* All that A leads to is the smallest set of leaders that has A and        *)
(* follows its members.                                                     *)
LEMMA ReachedIs ==
  ASSUME rom \in Roms, span \in Spans, NEW A \in SUBSET Word
  PROVE  /\ Reached(A) \in SUBSET Word
         /\ HasRoots(A, Reached(A)) /\ Follows(Reached(A))
         /\ \A T : HasRoots(A, T) /\ Follows(T) => Reached(A) \subseteq T
<1> DEFINE N  == Len(rom)
           to == CHOOSE h : IsReach(h, A, N)
           R  == {a \in A : in_image(a)}
<1>0. N \in Nat
  BY DEF Roms
<1>1. IsReach(to, A, N)
  BY <1>0, ReachExists
<1>2. Reached(A) = to[N]
  BY DEF Reached, to, IsReach, Grow
<1> HIDE DEF to, N
<1>3. to[0] = R /\ \A m \in 0..N : m # 0 => m - 1 \in 0..N /\ to[m] = Grow(to[m - 1])
  <2>1. to = [m \in 0..N |-> IF m = 0 THEN R ELSE Grow(to[m - 1])]
    BY <1>1 DEF IsReach
  <2>2. 0 \in 0..N /\ \A m \in 0..N : m # 0 => m - 1 \in 0..N
    BY <1>0
  <2> HIDE DEF R
  <2>3. \A m \in 0..N : to[m] = IF m = 0 THEN R ELSE Grow(to[m - 1])
    BY <2>1
  <2>4. QED
    BY <2>2, <2>3
<1> HIDE DEF R
<1> DEFINE Good(m) == /\ to[m] \in SUBSET Word
                      /\ \A a \in to[m] : in_image(a)
                      /\ R \subseteq to[m]
                      /\ \A T : HasRoots(A, T) /\ Follows(T) => to[m] \subseteq T
                      /\ Grow(to[m]) = to[m] \/ Cardinality(to[m]) > m
           S == {m \in 0..N : ~Good(m)}
<1>4. Good(0)
  <2>1. to[0] = R /\ R \in SUBSET Word /\ \A a \in R : in_image(a)
    BY <1>3 DEF R
  <2>2. \A T : HasRoots(A, T) => R \subseteq T
    BY DEF HasRoots, R
  <2>3. CASE R = {}
    <3>1. Grow({}) = {}
      BY DEF Grow
    <3>2. QED
      BY <2>1, <2>2, <2>3, <3>1
  <2>4. CASE R # {}
    <3>1. IsFiniteSet(R) /\ Cardinality(R) \in Nat
      BY <2>1, ImageSize
    <3>2. Cardinality(R) > 0
      BY <2>4, <3>1, FS_EmptySet
    <3>3. QED
      BY <2>1, <2>2, <3>2
  <2>5. QED
    BY <2>3, <2>4
<1>5. ASSUME NEW m \in 0..N, m # 0, Good(m - 1) PROVE Good(m)
  <2> DEFINE X == to[m - 1]
             Y == to[m]
  <2>1. X \in SUBSET Word /\ (\A a \in X : in_image(a)) /\ R \subseteq X
    BY <1>5
  <2>2. Y = Grow(X)
    BY <1>3, <1>5
  <2>3. \A T : HasRoots(A, T) /\ Follows(T) => X \subseteq T
    BY <1>5
  <2>4. Grow(X) = X \/ Cardinality(X) > m - 1
    BY <1>5
  <2> HIDE DEF X, Y
  <2>5. Y \in SUBSET Word /\ (\A a \in Y : in_image(a)) /\ X \subseteq Y
    BY <2>1, <2>2, SuccessorsInImage DEF Grow
  <2>6. \A T : HasRoots(A, T) /\ Follows(T) => Y \subseteq T
    BY <2>2, <2>3 DEF Grow, Follows
  <2>7. Grow(Y) = Y \/ Cardinality(Y) > m
    <3>1. CASE Grow(X) = X
      BY <2>2, <3>1
    <3>2. CASE Grow(X) # X
      <4>1. IsFiniteSet(Y) /\ Cardinality(Y) \in Nat /\ IsFiniteSet(X) /\ Cardinality(X) \in Nat
        BY <2>1, <2>5, ImageSize
      <4>2. Cardinality(X) < Cardinality(Y)
        BY <2>2, <2>5, <3>2, <4>1, FS_Subset
      <4>3. m \in Nat
        BY <1>0
      <4>4. QED
        BY <2>4, <3>2, <4>1, <4>2, <4>3
    <3>3. QED
      BY <3>1, <3>2
  <2>8. QED
    BY <2>1, <2>5, <2>6, <2>7 DEF X, Y
<1> HIDE DEF Good
<1>6. S = {}
  <2> SUFFICES ASSUME S # {} PROVE FALSE
    OBVIOUS
  <2>1. PICK m \in S : \A i \in S : m <= i
    <3>1. S \subseteq Nat
      BY <1>0
    <3> HIDE DEF S
    <3>2. QED
      BY <3>1, Least
  <2>2. m \in Nat /\ m \in 0..N /\ m # 0
    BY <1>0, <1>4, <2>1
  <2>3. m - 1 \in 0..N /\ m - 1 \notin S
    BY <1>3, <2>1, <2>2
  <2>4. QED
    BY <1>5, <2>1, <2>2, <2>3
<1>7. Good(N)
  BY <1>0, <1>6
<1>8. /\ to[N] \in SUBSET Word
      /\ \A a \in to[N] : in_image(a)
      /\ R \subseteq to[N]
      /\ \A T : HasRoots(A, T) /\ Follows(T) => to[N] \subseteq T
      /\ Grow(to[N]) = to[N] \/ Cardinality(to[N]) > N
  BY <1>7 DEF Good
<1>9. Grow(to[N]) = to[N]
  <2>1. Cardinality(to[N]) <= N /\ Cardinality(to[N]) \in Nat
    BY <1>8, ImageSize DEF N
  <2>2. QED
    BY <1>0, <1>8, <2>1
<1>10. HasRoots(A, to[N]) /\ Follows(to[N])
  BY <1>8, <1>9 DEF HasRoots, Follows, Grow, R
<1>11. QED
  BY <1>2, <1>8, <1>10

(* No address is taken for a leader that the seeds do not lead to.          *)
OnlyReached == \A T : HasRoots(Roots, T) /\ Follows(T) => d.seen \subseteq T

(* A step of the analyzer keeps to what the seeds lead to. *)
LEMMA OnlyReachedStep ==
  ASSUME FollowInv, OnlyReached, [Next]_vars PROVE OnlyReached'
<1>1. rom' = rom /\ span' = span /\ seeds' = seeds
  BY ImageKept
<1>2. \A T : HasRoots(Roots, T)' => HasRoots(Roots, T)
  BY <1>1 DEF HasRoots, Roots, in_image, Off
<1>3. \A T : Follows(T)' => Follows(T)
  BY <1>1, SameSuccessors DEF Follows
<1>4. d'.seen \subseteq d.seen \cup Reachable
  <2>1. [L!Next]_(L!vars)
    BY LeadersStep DEF FollowInv
  <2>2. d'.seen = d.seen \/ \E S \in SUBSET (L!Candidates \ d.seen) : d'.seen = d.seen \cup S
    BY <2>1 DEF L!Next, L!Find, L!Close, L!vars
  <2>3. QED
    BY <2>2, LeadersCandidates
<1>5. ASSUME NEW T, HasRoots(Roots, T), Follows(T) PROVE d'.seen \subseteq T
  <2>1. d.seen \subseteq T
    BY <1>5 DEF OnlyReached
  <2>2. Reachable \subseteq T
    BY <1>5, <2>1 DEF Reachable, HasRoots, Follows
  <2>3. QED
    BY <1>4, <2>1, <2>2
<1>6. QED
  BY <1>2, <1>3, <1>5 DEF OnlyReached

(* Where nothing is seen yet nothing is too much. *)
LEMMA BeginReached == ASSUME Begin PROVE OnlyReached
BY DEF Begin, OnlyReached

(* When all is emitted the leaders are what the seeds lead to ...           *)
LEMMA SeenIsReached ==
  ASSUME FollowInv, OnlyReached, phase = "analyzed", Len(funcs) # MaxFuncs
  PROVE  Starts = Reached(Roots)
<1>1. /\ rom \in Roms /\ span \in Spans /\ Roots \in SUBSET Word
      /\ Len(funcs) \in Nat /\ MaxFuncs \in Nat /\ Len(funcs) <= MaxFuncs
  BY ConstantTypes DEF FollowInv, BlockInv, IInv, TypeOK, TableBounds, Roots
<1>2. d.seen = Starts /\ d.work = <<>>
  BY SeenHasBlock DEF FollowInv, BlockInv, Emptied, Discovering
<1>3. ~(Places >= MaxFuncs)
  BY <1>1, <1>2 DEF Places, InHandCount
<1>4. SeedsPushed /\ \A l \in Starts : Successors(l) \subseteq d.seen
  BY <1>3 DEF FollowInv, Followed
<1>5. HasRoots(Roots, Starts) /\ Follows(Starts)
  BY <1>2, <1>4 DEF SeedsPushed, HasRoots, Follows, Roots
<1>6. Reached(Roots) \subseteq Starts
  BY <1>1, <1>5, ReachedIs
<1>7. Starts \subseteq Reached(Roots)
  BY <1>1, <1>2, ReachedIs DEF OnlyReached
<1>8. QED
  BY <1>6, <1>7

(* ... and each has its code, unless it is patched. *)
LEMMA StartsHaveCode ==
  ASSUME EmitInv, stage = "emitted"
  PROVE  DOMAIN code \cup {funcs[i].start : i \in {j \in 1..Len(funcs) : funcs[j].self_mod}}
           = Starts
<1>1. \A b \in DOMAIN code : b \in Starts
  BY DEF EmitInv, EmitOK, Starts
<1>2. \A i \in 1..Len(funcs) : HasCode(i)
  BY DEF EmitInv, EmitOK
<1>3. QED
  BY <1>1, <1>2 DEF HasCode, Starts

-----------------------------------------------------------------------------
(* What the arguments ask for: where items start, again by recursion.       *)

(* Where the item behind that at q starts, and where items start, as if the *)
(* arguments had no end.                                                    *)
Behind(q) == q + Width(q)

ClosedItems(S) == \A q \in S : Behind(q) \in S

Positions == {p \in Nat : \A S \in SUBSET Nat : 1 \in S /\ ClosedItems(S) => p \in S}

(* The option name with its n operands is at q. *)
OptionAt(q, name, n) == args[q] = [kind |-> "option", name |-> name] /\ q + n <= Len(args)

(* An item has one to four arguments, by its option. *)
LEMMA WidthIs ==
  ASSUME NEW q
  PROVE  /\ Width(q) \in {1, 2, 3, 4}
         /\ OptionAt(q, "--code", 2) <=> Width(q) = 3
         /\ OptionAt(q, "--seeds", 1) <=> Width(q) = 2
         /\ OptionAt(q, "--table", 3) <=> Width(q) = 4
<1>1. \A n, m : n # m => [kind |-> "option", name |-> n] # [kind |-> "option", name |-> m]
  <2>1. \A n : [kind |-> "option", name |-> n].name = n
    OBVIOUS
  <2>2. QED
    BY <2>1
<1>2. /\ ~(OptionAt(q, "--code", 2) /\ OptionAt(q, "--seeds", 1))
      /\ ~(OptionAt(q, "--code", 2) /\ OptionAt(q, "--table", 3))
      /\ ~(OptionAt(q, "--seeds", 1) /\ OptionAt(q, "--table", 3))
  BY <1>1 DEF OptionAt
<1> DEFINE c == OptionAt(q, "--code", 2)
           s == OptionAt(q, "--seeds", 1)
           t == OptionAt(q, "--table", 3)
<1>3. Width(q) = CASE c -> 3 [] s -> 2 [] t -> 4 [] OTHER -> 1
  BY DEF Width, OptionAt
<1> HIDE DEF c, s, t
<1>4. /\ Width(q) \in {1, 2, 3, 4}
      /\ c <=> Width(q) = 3
      /\ s <=> Width(q) = 2
      /\ t <=> Width(q) = 4
  <2>1. ~(c /\ s) /\ ~(c /\ t) /\ ~(s /\ t)
    BY <1>2 DEF c, s, t
  <2>2. QED
    BY <1>3, <2>1
<1>5. QED
  BY <1>4 DEF c, s, t

(* The next item is one to four arguments further on. *)
LEMMA BehindType ==
  ASSUME NEW q \in Nat PROVE Behind(q) \in Nat /\ q < Behind(q) /\ Behind(q) <= q + 4
<1>1. Width(q) \in {1, 2, 3, 4}
  BY WidthIs
<1>2. QED
  BY <1>1 DEF Behind

(* Items start at 1 and behind every item, and nowhere else.                *)
LEMMA PositionsClosed ==
  /\ 1 \in Positions
  /\ \A q \in Positions : q \in Nat /\ 1 <= q /\ Behind(q) \in Positions
<1>1. ASSUME NEW q \in Positions PROVE Behind(q) \in Positions
  <2>1. q \in Nat /\ Behind(q) \in Nat
    BY BehindType DEF Positions
  <2>2. QED
    BY <2>1 DEF Positions, ClosedItems
<1>2. \A q \in Positions : 1 <= q
  <2> DEFINE S == {n \in Nat : 1 <= n}
  <2>1. ClosedItems(S)
    BY BehindType DEF ClosedItems
  <2>2. QED
    BY <2>1 DEF Positions
<1>3. QED
  BY <1>1, <1>2 DEF Positions

(* Each item but the first is behind another. *)
LEMMA PositionsBefore ==
  ASSUME NEW p \in Positions, p # 1 PROVE \E q \in Positions : Behind(q) = p
<1> SUFFICES ASSUME \A q \in Positions : Behind(q) # p PROVE FALSE
  OBVIOUS
<1> DEFINE S == Positions \ {p}
<1>1. S \in SUBSET Nat /\ 1 \in S /\ ClosedItems(S)
  BY PositionsClosed DEF ClosedItems
<1>2. p \in S
  BY <1>1 DEF Positions
<1>3. QED
  BY <1>2

(* Items do not overlap. *)
LEMMA PositionsApart ==
  ASSUME NEW a \in Positions, NEW b \in Positions, a < b PROVE Behind(a) <= b
<1> SUFFICES ASSUME ~(Behind(a) <= b) PROVE FALSE
  OBVIOUS
<1> DEFINE S == {y \in Positions : \E x \in Positions : x < y /\ ~(Behind(x) <= y)}
<1>1. S \subseteq Nat /\ b \in S
  BY PositionsClosed
<1>2. PICK y \in S : \A m \in S : y <= m
  BY <1>1, Least
<1>3. PICK x \in Positions : x < y /\ ~(Behind(x) <= y)
  BY <1>2
<1>4. x \in Nat /\ y \in Nat /\ y \in Positions /\ 1 <= x
  BY <1>1, <1>2, <1>3, PositionsClosed
<1>5. PICK z \in Positions : Behind(z) = y
  BY <1>3, <1>4, PositionsBefore
<1>6. z \in Nat /\ z < y /\ z \notin S
  BY <1>1, <1>2, <1>4, <1>5, BehindType, PositionsClosed
<1>7. CASE x < z
  BY <1>3, <1>4, <1>5, <1>6, <1>7, BehindType
<1>8. CASE x = z
  BY <1>3, <1>5, <1>8, <1>4
<1>9. CASE z < x
  <2>1. x \notin S
    BY <1>1, <1>2, <1>3, <1>4
  <2>2. Behind(z) <= x
    BY <1>3, <1>6, <1>9, <2>1
  <2>3. QED
    BY <1>3, <1>4, <1>5, <2>2
<1>10. QED
  BY <1>4, <1>6, <1>7, <1>8, <1>9

IsItems(h) ==
  h = [p \in 1..Len(args) |->
         p = 1 \/ \E q \in 1..(p - 1) : p - q <= 4 /\ h[q] /\ q + Width(q) = p]

(* The recursion of Items has a solution. *)
LEMMA ItemsExist ==
  ASSUME Len(args) \in Nat PROVE IsItems([p \in 1..Len(args) |-> p \in Positions])
<1> DEFINE g == [p \in 1..Len(args) |-> p \in Positions]
<1>1. ASSUME NEW p \in 1..Len(args)
      PROVE  (p \in Positions) =
               (p = 1 \/ \E q \in 1..(p - 1) : p - q <= 4 /\ g[q] /\ q + Width(q) = p)
  <2>1. ASSUME p \in Positions, p # 1
        PROVE  \E q \in 1..(p - 1) : p - q <= 4 /\ g[q] /\ q + Width(q) = p
    <3>1. PICK q \in Positions : Behind(q) = p
      BY <2>1, PositionsBefore
    <3>2. q \in Nat /\ 1 <= q /\ q < p /\ p <= q + 4
      BY <3>1, PositionsClosed, BehindType
    <3>3. q \in 1..Len(args) /\ q \in 1..(p - 1) /\ p - q <= 4
      BY <3>2
    <3>4. QED
      BY <3>1, <3>3 DEF Behind
  <2>2. ASSUME NEW q \in 1..(p - 1), g[q], q + Width(q) = p
        PROVE  p \in Positions
    <3>1. q \in 1..Len(args)
      OBVIOUS
    <3>2. q \in Positions
      BY <2>2, <3>1
    <3>3. QED
      BY <2>2, <3>2, PositionsClosed DEF Behind
  <2>3. 1 \in Positions
    BY PositionsClosed
  <2> DEFINE P == p \in Positions
             Q == p = 1 \/ \E q \in 1..(p - 1) : p - q <= 4 /\ g[q] /\ q + Width(q) = p
  <2>4. P <=> Q
    BY <2>1, <2>2, <2>3
  <2>5. P \in BOOLEAN /\ Q \in BOOLEAN
    OBVIOUS
  <2> HIDE DEF P, Q
  <2>6. P = Q
    BY <2>4, <2>5
  <2>7. QED
    BY <2>6 DEF P, Q
<1>2. QED
  BY <1>1, Zenon DEF IsItems

(* It has no other. *)
LEMMA ItemsUnique ==
  ASSUME Len(args) \in Nat, NEW h, IsItems(h)
  PROVE  \A p \in 1..Len(args) : h[p] <=> p \in Positions
<1> DEFINE g == [p \in 1..Len(args) |-> p \in Positions]
           S == {p \in 1..Len(args) : ~(h[p] <=> g[p])}
<1>1. IsItems(g)
  BY ItemsExist
<1>2. \A p \in 1..Len(args) : g[p] <=> p \in Positions
  OBVIOUS
<1>3. \A p \in 1..Len(args) : h[p] <=>
        (p = 1 \/ \E q \in 1..(p - 1) : p - q <= 4 /\ h[q] /\ q + Width(q) = p)
  BY DEF IsItems
<1>4. \A p \in 1..Len(args) : g[p] <=>
        (p = 1 \/ \E q \in 1..(p - 1) : p - q <= 4 /\ g[q] /\ q + Width(q) = p)
  BY <1>1 DEF IsItems
<1> HIDE DEF g
<1>5. S = {}
  <2> SUFFICES ASSUME S # {} PROVE FALSE
    OBVIOUS
  <2>1. PICK p \in S : \A m \in S : p <= m
    <3>1. S \subseteq Nat
      OBVIOUS
    <3> HIDE DEF S
    <3>2. QED
      BY <3>1, Least
  <2>2. \A q \in 1..(p - 1) : q \in 1..Len(args) /\ q \notin S
    BY <2>1
  <2>3. \A q \in 1..(p - 1) : h[q] <=> g[q]
    BY <2>2
  <2>4. QED
    BY <1>3, <1>4, <2>1, <2>3
<1>6. QED
  BY <1>2, <1>5

(* Items are where items start, up to the last argument. *)
LEMMA ItemsAre ==
  Len(args) \in Nat => Items = {p \in Positions : p <= Len(args)}
<1> SUFFICES ASSUME Len(args) \in Nat PROVE Items = {p \in Positions : p <= Len(args)}
  OBVIOUS
<1> DEFINE at == CHOOSE h : IsItems(h)
<1>1. IsItems(at)
  BY ItemsExist
<1>2. Items = {p \in 1..Len(args) : at[p]}
  BY DEF Items, at, IsItems
<1> HIDE DEF at
<1>3. \A p \in 1..Len(args) : at[p] <=> p \in Positions
  BY <1>1, ItemsUnique
<1>4. \A p \in Positions : p <= Len(args) => p \in 1..Len(args)
  BY PositionsClosed
<1>5. QED
  BY <1>2, <1>3, <1>4

(* The range that the --code items C ask for, and what the items before q do. *)
RangeOf(C) ==
  IF C = {} THEN Everything
  ELSE LET p == CHOOSE x \in C : \A r \in C : r <= x
       IN  [lo |-> Number(args[p + 1]), hi |-> Number(args[p + 2])]

RangeBefore(q) == RangeOf({p \in CodeItems : p < q})

AskedBefore(q) == UNION {AskedAt(p) : p \in {r \in Items : r < q}}

(* The seeds of the lines before n of the file, and the entries before n of *)
(* the table, that the item at arg names.                                   *)
LinesBefore(n) ==
  {LineNumber(FileLines[j]) : j \in {i \in 1..Len(FileLines) : i < n /\ SeedLine(FileLines[i])}}

TableOffset(e) == EntryOffset(args[arg + 1], e)

EntrySeeds(e) == {v \in EntryWords(TableOffset(e), strtoul(args[arg + 3])) : InRom(v)}

EntriesBefore(n) == UNION {EntrySeeds(e) : e \in 0..(n - 1)}

(* Items of the next state. *)
LEMMA ItemsLater ==
  (Len(args) \in Nat => Items = {p \in Positions : p <= Len(args)})'
BY ItemsAre, PTL

(* Nothing changes what the arguments ask for. *)
LEMMA SameArguments ==
  ASSUME args' = args, rom' = rom, Len(args) \in Nat
  PROVE  /\ \A p : Width(p)' = Width(p)
         /\ \A p : AskedAt(p)' = AskedAt(p)
         /\ Positions' = Positions /\ Items' = Items /\ CodeItems' = CodeItems
         /\ \A q : RangeBefore(q)' = RangeBefore(q)
         /\ \A q : AskedBefore(q)' = AskedBefore(q)
         /\ ReadsBefore' <=> ReadsBefore
         /\ Asked' = Asked /\ AskedSpan' = AskedSpan
<1>1. \A p : Width(p)' = Width(p)
  BY DEF Width
<1>2. /\ \A o : RomByte(o)' = RomByte(o)
      /\ \A v : InRom(v)' <=> InRom(v)
  BY DEF RomByte, InRom
<1>3. \A o, a : EntryWords(o, a)' = EntryWords(o, a)
  BY <1>2 DEF EntryWords
<1>4. \A p : AskedAt(p)' = AskedAt(p)
  <2> TAKE p
  <2>1. CASE Width(p) = 3
    BY <1>1, <2>1 DEF AskedAt
  <2>2. CASE Width(p) = 2
    BY <1>1, <2>2 DEF AskedAt
  <2>3. CASE Width(p) = 4
    <3> DEFINE O == {EntryOffset(args[p + 1], e) : e \in 0..(strtoul(args[p + 2]) - 1)}
                      \cap 0..(Len(rom) - 2)
               V == {v \in UNION {EntryWords(o, strtoul(args[p + 3])) : o \in O} : InRom(v)}
               Out == EntryOffset(args[p + 1], 0) < 0
               In == EntryOffset(args[p + 1], 0) >= 0
    <3>1. O' = O /\ (Out' <=> Out) /\ (In' <=> In)
      OBVIOUS
    <3>2. AskedAt(p) = CASE Out -> {} [] In -> V [] OTHER -> {Number(args[p])}
      BY <2>3 DEF AskedAt
    <3>3. AskedAt(p)' = CASE Out' -> {} [] In' -> V' [] OTHER -> {Number(args[p])}
      BY <1>1, <2>3 DEF AskedAt
    <3>4. V' = V
      <4>1. strtoul(args'[p + 3]) = strtoul(args[p + 3])
        OBVIOUS
      <4> HIDE DEF O
      <4>2. QED
        BY <1>2, <1>3, <3>1, <4>1
    <3> HIDE DEF V, Out, In
    <3>5. QED
      BY <3>1, <3>2, <3>3, <3>4
  <2>4. CASE Width(p) = 1
    BY <1>1, <2>4 DEF AskedAt
  <2>5. QED
    BY <2>1, <2>2, <2>3, <2>4, WidthIs
<1>5. Positions' = Positions
  BY <1>1 DEF Positions, ClosedItems, Behind
<1>6. Items' = Items
  BY <1>5, ItemsAre, ItemsLater
<1>7. CodeItems' = CodeItems /\ AskedItems' = AskedItems /\ (ReadsBefore' <=> ReadsBefore)
  BY <1>1, <1>4, <1>6 DEF CodeItems, AskedItems, ReadsBefore
<1>8. \A C : RangeOf(C)' = RangeOf(C)
  BY DEF RangeOf
<1>9. QED
  BY <1>1, <1>4, <1>5, <1>6, <1>7, <1>8 DEF RangeBefore, AskedBefore, Asked, AskedSpan

(* What the item at arg asks for joins what those before it do. *)
LEMMA ItemBehind ==
  ASSUME Len(args) \in Nat, NEW q \in Positions, q <= Len(args)
  PROVE  /\ Behind(q) \in Positions
         /\ AskedBefore(Behind(q)) = AskedBefore(q) \cup AskedAt(q)
         /\ RangeBefore(Behind(q)) =
              IF Width(q) = 3 THEN [lo |-> Number(args[q + 1]), hi |-> Number(args[q + 2])]
              ELSE RangeBefore(q)
<1> DEFINE n == Behind(q)
<1>1. n \in Positions /\ q \in Nat /\ n \in Nat /\ q < n
  BY PositionsClosed, BehindType
<1>2. q \in Items /\ \A r \in Items : r \in Positions /\ r \in Nat
  BY ItemsAre, PositionsClosed
<1>3. \A r \in Items : r < n <=> r < q \/ r = q
  <2> SUFFICES ASSUME NEW r \in Items PROVE r < n <=> r < q \/ r = q
    OBVIOUS
  <2>1. q < r => n <= r
    BY <1>2, PositionsApart
  <2>2. QED
    BY <1>1, <1>2, <2>1
<1> HIDE DEF n
<1>4. AskedBefore(n) = AskedBefore(q) \cup AskedAt(q)
  BY <1>2, <1>3 DEF AskedBefore
<1>5. CASE Width(q) = 3
  <2> DEFINE C == {p \in CodeItems : p < n}
  <2>1. q \in C /\ \A r \in C : r \in Nat /\ r <= q
    BY <1>1, <1>2, <1>3, <1>5 DEF CodeItems
  <2>2. \A x \in C : (\A r \in C : r <= x) => x = q
    BY <1>1, <2>1
  <2> HIDE DEF C
  <2>3. (CHOOSE x \in C : \A r \in C : r <= x) = q
    BY <2>1, <2>2
  <2>4. RangeOf(C) = [lo |-> Number(args[q + 1]), hi |-> Number(args[q + 2])]
    BY <2>1, <2>3 DEF RangeOf
  <2>5. QED
    BY <1>1, <1>4, <1>5, <2>4 DEF RangeBefore, C, n
<1>6. CASE Width(q) # 3
  <2>1. \A p : p \in CodeItems /\ p < n <=> p \in CodeItems /\ p < q
    BY <1>3, <1>6 DEF CodeItems
  <2>2. {p \in CodeItems : p < n} = {p \in CodeItems : p < q}
    BY <2>1
  <2>3. QED
    BY <1>1, <1>4, <1>6, <2>2 DEF RangeBefore, n
<1>7. QED
  BY <1>5, <1>6

(* Behind the arguments all of them have asked. *)
LEMMA AllAsked ==
  ASSUME Len(args) \in Nat, NEW q \in Positions, ~(q <= Len(args))
  PROVE  /\ AskedBefore(q) = UNION {AskedAt(p) : p \in Items}
         /\ RangeBefore(q) = AskedSpan
<1>0. q \in Nat /\ \A p \in Items : p \in Nat /\ p <= Len(args)
  BY ItemsAre, PositionsClosed
<1>1. \A p \in Items : p < q
  BY <1>0
<1>2. {p \in Items : p < q} = Items /\ {p \in CodeItems : p < q} = CodeItems
  BY <1>1 DEF CodeItems
<1>3. RangeOf(CodeItems) = AskedSpan
  BY DEF RangeOf, AskedSpan
<1>4. QED
  BY <1>2, <1>3 DEF AskedBefore, RangeBefore

(* A --code item asks for no address. *)
LEMMA AskedIs ==
  LET U == UNION {AskedAt(p) : p \in Items} IN Asked = IF U = {} THEN {Base} ELSE U
<1>1. \A p : Width(p) = 3 => AskedAt(p) = {}
  BY DEF AskedAt
<1>2. UNION {AskedAt(p) : p \in AskedItems} = UNION {AskedAt(p) : p \in Items}
  BY <1>1 DEF AskedItems
<1>3. AskedItems = {} <=> UNION {AskedAt(p) : p \in Items} = {}
  BY <1>1 DEF AskedItems
<1>4. QED
  BY <1>2, <1>3 DEF Asked

(* What a seed file asks for, line by line. *)
LEMMA LinesAsked ==
  ASSUME Len(FileLines) \in Nat, NEW n \in Nat
  PROVE  /\ LinesBefore(1) = {}
         /\ n \in 1..Len(FileLines) =>
              LinesBefore(n + 1) = LinesBefore(n) \cup
                IF SeedLine(FileLines[n]) THEN {LineNumber(FileLines[n])} ELSE {}
         /\ n > Len(FileLines) /\ Width(arg) = 2 /\ args[arg + 1].kind = "file" =>
              LinesBefore(n) = AskedAt(arg)
<1> DEFINE ls == FileLines
           J(m) == {i \in 1..Len(ls) : i < m /\ SeedLine(ls[i])}
<1>1. \A m : LinesBefore(m) = {LineNumber(ls[j]) : j \in J(m)}
  BY DEF LinesBefore
<1>2. Len(ls) \in Nat
  OBVIOUS
<1>3. J(1) = {}
  BY <1>2
<1>4. ASSUME n \in 1..Len(ls)
      PROVE  J(n + 1) = J(n) \cup IF SeedLine(ls[n]) THEN {n} ELSE {}
  <2>1. \A i \in 1..Len(ls) : i < n + 1 <=> i < n \/ i = n
    BY <1>2
  <2> HIDE DEF ls
  <2>2. QED
    BY <1>2, <1>4, <2>1
<1>5. ASSUME n > Len(ls) PROVE J(n) = {i \in 1..Len(ls) : SeedLine(ls[i])}
  <2>1. \A i \in 1..Len(ls) : i < n
    BY <1>2, <1>5
  <2>2. QED
    BY <2>1
<1>6. ASSUME Width(arg) = 2, args[arg + 1].kind = "file"
      PROVE  AskedAt(arg) = {LineNumber(l) : l \in {ls[j] : j \in
                               {i \in 1..Len(ls) : SeedLine(ls[i])}}}
  BY <1>6 DEF AskedAt, FileLines
<1> HIDE DEF ls
<1>7. ASSUME n > Len(ls), Width(arg) = 2, args[arg + 1].kind = "file"
      PROVE  LinesBefore(n) = AskedAt(arg)
  <2> HIDE DEF J
  <2>1. LinesBefore(n) = {LineNumber(ls[j]) : j \in {i \in 1..Len(ls) : SeedLine(ls[i])}}
    BY <1>1, <1>5, <1>7
  <2>2. QED
    BY <1>6, <1>7, <2>1
<1>8. ASSUME n \in 1..Len(ls)
      PROVE  LinesBefore(n + 1) = LinesBefore(n) \cup
                IF SeedLine(ls[n]) THEN {LineNumber(ls[n])} ELSE {}
  <2> HIDE DEF J
  <2>1. CASE SeedLine(ls[n])
    BY <1>1, <1>4, <1>8, <2>1
  <2>2. CASE ~SeedLine(ls[n])
    BY <1>1, <1>4, <1>8, <2>2
  <2>3. QED
    BY <2>1, <2>2
<1>9. LinesBefore(1) = {}
  BY <1>1, <1>3
<1>10. QED
  BY <1>7, <1>8, <1>9 DEF ls

(* Entries of a table lie behind each other. *)
LEMMA OffsetType ==
  ASSUME Readable(args), arg + 1 \in 1..Len(args)
  PROVE  TableOffset(0) \in Int /\ \A e \in Nat : TableOffset(e) = TableOffset(0) + 2 * e
<1>1. Number(args[arg + 1]) \in Word
  BY NumberType
<1> DEFINE w == Number(args[arg + 1])
<1>2. w \in Int /\ Base \in Int
  BY <1>1, WordIsInt, ConstantTypes
<1>3. \A e : TableOffset(e) = w - Base + 2 * e
  BY DEF TableOffset, EntryOffset
<1> HIDE DEF w
<1>4. QED
  BY <1>2, <1>3

(* What a table asks for, entry by entry: an entry that is not read is      *)
(* behind the last one asked for, or does not end in the image.             *)
LEMMA EntriesAsked ==
  ASSUME Readable(args), rom \in Roms, arg + 3 <= Len(args), arg \in Nat \ {0}, NEW n \in Nat
  PROVE  /\ EntriesBefore(0) = {}
         /\ EntriesBefore(n + 1) = EntriesBefore(n) \cup EntrySeeds(n)
         /\ Width(arg) = 4 /\ TableOffset(0) < 0 => AskedAt(arg) = {}
         /\ /\ Width(arg) = 4 /\ TableOffset(0) >= 0
            /\ \A e \in 0..(n - 1) : e < strtoul(args[arg + 2]) /\ EntryThere(TableOffset(e))
            /\ ~(n < strtoul(args[arg + 2]) /\ EntryThere(TableOffset(n)))
            => EntriesBefore(n) = AskedAt(arg)
<1> DEFINE cnt == strtoul(args[arg + 2])
           adj == strtoul(args[arg + 3])
           t   == TableOffset(0)
<1>0. /\ arg + 1 \in 1..Len(args) /\ arg + 2 \in 1..Len(args) /\ Len(rom) \in Nat
      /\ cnt \in Int /\ t \in Int /\ \A e \in Nat : TableOffset(e) = t + 2 * e
  <2>1. arg + 1 \in 1..Len(args) /\ arg + 2 \in 1..Len(args) /\ Len(rom) \in Nat
    BY DEF Readable, Roms
  <2>2. QED
    BY <2>1, OffsetType DEF Readable
<1>1. EntriesBefore(0) = {}
  BY DEF EntriesBefore
<1>2. EntriesBefore(n + 1) = EntriesBefore(n) \cup EntrySeeds(n)
  <2>1. 0..(n + 1 - 1) = 0..(n - 1) \cup {n}
    OBVIOUS
  <2>2. QED
    BY <2>1 DEF EntriesBefore
<1>3. ASSUME Width(arg) = 4, t < 0 PROVE AskedAt(arg) = {}
  <2>1. ~(t >= 0)
    BY <1>0, <1>3
  <2>2. QED
    BY <1>3, <2>1 DEF AskedAt, TableOffset
<1>4. ASSUME Width(arg) = 4, t >= 0,
             \A e \in 0..(n - 1) : e < cnt /\ EntryThere(TableOffset(e)),
             ~(n < cnt /\ EntryThere(TableOffset(n)))
      PROVE  EntriesBefore(n) = AskedAt(arg)
  <2> DEFINE E == {e \in 0..(cnt - 1) : TableOffset(e) \in 0..(Len(rom) - 2)}
  <2>1. AskedAt(arg) = {v \in UNION {EntryWords(TableOffset(e), adj) : e \in E} : InRom(v)}
    <3>1. ~(t < 0)
      BY <1>0, <1>4
    <3>2. AskedAt(arg) = {v \in UNION {EntryWords(o, adj) : o \in
                             {TableOffset(e) : e \in 0..(cnt - 1)} \cap 0..(Len(rom) - 2)} :
                             InRom(v)}
      BY <1>4, <3>1 DEF AskedAt, TableOffset
    <3>3. {TableOffset(e) : e \in 0..(cnt - 1)} \cap 0..(Len(rom) - 2)
            = {TableOffset(e) : e \in E}
      OBVIOUS
    <3> HIDE DEF cnt, adj, E
    <3>4. QED
      BY <3>2, <3>3
  <2>2. E = 0..(n - 1)
    <3> DEFINE o(e) == TableOffset(e)
               m    == Len(rom)
    <3>1. cnt \in Int /\ t \in Int /\ t >= 0 /\ m \in Nat
      BY <1>0, <1>4
    <3>2. \A e \in Nat : o(e) = t + 2 * e
      BY <1>0
    <3>3. \A e : EntryThere(o(e)) <=> o(e) >= -1 /\ o(e) + 1 < m
      BY DEF EntryThere
    <3>4. \A e \in 0..(n - 1) : e < cnt /\ EntryThere(o(e))
      BY <1>4
    <3>5. ~(n < cnt /\ EntryThere(o(n)))
      BY <1>4
    <3>6. \A e : e \in E <=> e \in 0..(cnt - 1) /\ o(e) \in 0..(m - 2)
      OBVIOUS
    <3> HIDE DEF cnt, t, m, o, E
    <3>7. ASSUME NEW e \in 0..(n - 1) PROVE e \in E
      <4>1. e \in Nat /\ e < cnt /\ o(e) = t + 2 * e /\ o(e) + 1 < m
        BY <3>2, <3>3, <3>4
      <4>2. e \in 0..(cnt - 1) /\ o(e) \in 0..(m - 2)
        BY <3>1, <4>1
      <4>3. QED
        BY <3>6, <4>2
    <3>8. ASSUME NEW e \in E PROVE e \in 0..(n - 1)
      <4>1. e \in 0..(cnt - 1) /\ o(e) \in 0..(m - 2)
        BY <3>6
      <4>2. e \in Nat /\ e < cnt /\ o(e) + 2 <= m /\ o(e) = t + 2 * e
        BY <3>1, <3>2, <4>1
      <4>3. ~(n < cnt) \/ ~(t + 2 * n + 1 < m)
        <5>1. o(n) = t + 2 * n
          BY <3>2
        <5>2. t + 2 * n >= -1
          BY <3>1
        <5>3. EntryThere(o(n)) <=> t + 2 * n + 1 < m
          BY <3>3, <5>1, <5>2
        <5>4. QED
          BY <3>5, <5>3
      <4>4. QED
        BY <3>1, <4>2, <4>3
    <3>9. QED
      BY <3>7, <3>8
  <2>3. EntriesBefore(n) =
          UNION {{v \in EntryWords(TableOffset(e), adj) : InRom(v)} : e \in 0..(n - 1)}
    BY DEF EntriesBefore, EntrySeeds
  <2> HIDE DEF E, adj
  <2>4. QED
    BY <2>1, <2>2, <2>3
<1>5. QED
  BY <1>1, <1>2, <1>3, <1>4

-----------------------------------------------------------------------------
(* The option loop gathers it.                                             *)

(* What the property leaves open: no more room for seeds, or a table that   *)
(* begins a byte before the image.                                          *)
Exempt == Len(seeds) = MaxSeeds \/ ReadsBefore

(* The range and the seeds are what the items before arg ask for, and the   *)
(* lines or entries before item of the one at arg.                          *)
Gathered ==
  /\ stage \in {"options", "file", "table"} => arg \in Positions /\ span = RangeBefore(arg)
  /\ stage = "options" => Roots = AskedBefore(arg)
  /\ stage = "file" =>
       /\ Width(arg) = 2
       /\ Roots = AskedBefore(arg) \cup LinesBefore(item)
  /\ stage = "table" =>
       /\ Width(arg) = 4
       /\ IF TableOffset(0) < 0
          THEN item = 0 /\ Roots = AskedBefore(arg)
          ELSE /\ Roots = AskedBefore(arg) \cup EntriesBefore(item)
               /\ \A e \in 0..(item - 1) :
                    e < strtoul(args[arg + 2]) /\ EntryThere(TableOffset(e))
  /\ Translating => span = AskedSpan /\ Roots = Asked

GatherInv == Exempt \/ Gathered

(* A seed more. *)
LEMMA RootsAppend ==
  ASSUME seeds \in Seq(Word), NEW a \in Word, Collect(a) PROVE Roots' = Roots \cup {a}
<1>1. /\ Len(seeds') = Len(seeds) + 1 /\ seeds'[Len(seeds) + 1] = a /\ Len(seeds) \in Nat
      /\ \A i \in 1..Len(seeds) : seeds'[i] = seeds[i]
  BY DEF Collect
<1>2. \A i : i \in 1..Len(seeds') <=> i \in 1..Len(seeds) \/ i = Len(seeds) + 1
  BY <1>1
<1>3. QED
  BY <1>1, <1>2 DEF Roots

(* At first nothing is asked for. *)
LEMMA GatherInit == MainInit => GatherInv
<1> SUFFICES ASSUME MainInit PROVE Gathered
  BY DEF GatherInv
<1>1. /\ arg = 1 /\ seeds = <<>> /\ span = Everything /\ stage \in {"options", "sweep"}
      /\ Len(args) \in Nat
  BY ToolInit DEF MainInit, ToolInv, Readable
<1>2. \A p \in Items : ~(p < 1)
  <2>1. \A p \in Items : p \in Positions
    BY <1>1, ItemsAre
  <2>2. \A p \in Positions : p \in Nat /\ 1 <= p
    BY PositionsClosed
  <2>3. QED
    BY <2>1, <2>2
<1>3. {p \in Items : p < 1} = {} /\ {p \in CodeItems : p < 1} = {}
  <2>1. {p \in Items : p < 1} = {}
    BY <1>2
  <2>2. \A p \in CodeItems : ~(p < 1)
    BY <1>2 DEF CodeItems
  <2>3. QED
    BY <2>1, <2>2
<1>4. span = RangeBefore(arg) /\ Roots = AskedBefore(arg)
  <2>1. span = RangeBefore(arg)
    BY <1>1, <1>3 DEF RangeBefore, RangeOf
  <2>2. Roots = {}
    BY <1>1 DEF Roots
  <2>3. AskedBefore(arg) = {}
    BY <1>1, <1>3 DEF AskedBefore
  <2>4. QED
    BY <2>1, <2>2, <2>3
<1>5. QED
  BY <1>1, <1>4, PositionsClosed DEF Gathered, Translating

(* What is asked for before a place does not change.                        *)
LEMMA SamePlace ==
  ASSUME args' = args, rom' = rom, Len(args) \in Nat, NEW n, arg' = n
  PROVE  AskedBefore(arg)' = AskedBefore(n) /\ RangeBefore(arg)' = RangeBefore(n)
<1>1. /\ Items' = Items /\ CodeItems' = CodeItems
      /\ \A p : AskedAt(p)' = AskedAt(p)
  BY SameArguments
<1>2. {r \in Items' : r < arg'} = {r \in Items : r < n}
  BY <1>1
<1>3. AskedBefore(arg)' = AskedBefore(n)
  BY <1>1, <1>2 DEF AskedBefore
<1>4. \A C : RangeOf(C)' = RangeOf(C)
  BY DEF RangeOf
<1>5. PICK C : C = {p \in CodeItems : p < n}
  OBVIOUS
<1>6. {p \in CodeItems' : p < arg'} = C
  BY <1>1, <1>5
<1>7. RangeBefore(arg)' = RangeOf(C)'
  BY <1>6 DEF RangeBefore, RangeOf
<1>8. QED
  BY <1>3, <1>4, <1>5, <1>7 DEF RangeBefore

(* Having read the item at arg, the option loop goes on behind it.          *)
LEMMA ItemDone ==
  ASSUME Len(args) \in Nat, args' = args, rom' = rom, arg \in Positions, arg <= Len(args),
         SkipTo(Behind(arg)), Roots' = AskedBefore(arg) \cup AskedAt(arg),
         span' = IF Width(arg) = 3
                 THEN [lo |-> Number(args[arg + 1]), hi |-> Number(args[arg + 2])]
                 ELSE RangeBefore(arg)
  PROVE  Gathered'
<1>1. /\ Behind(arg) \in Positions
      /\ Roots' = AskedBefore(Behind(arg)) /\ span' = RangeBefore(Behind(arg))
  BY ItemBehind
<1>2. stage' = "options" /\ arg' = Behind(arg)
  BY DEF SkipTo
<1>3. AskedBefore(arg)' = AskedBefore(Behind(arg)) /\ RangeBefore(arg)' = RangeBefore(Behind(arg))
  BY <1>2, SamePlace
<1>4. Positions' = Positions
  BY SameArguments
<1>5. QED
  BY <1>1, <1>2, <1>3, <1>4 DEF Gathered, Translating

(* What is read of the item at arg stays so while the cursor stays there.   *)
LEMMA SameItem ==
  ASSUME args' = args, rom' = rom, Len(args) \in Nat, arg' = arg, NEW n, item' = n
  PROVE  /\ AskedBefore(arg)' = AskedBefore(arg) /\ RangeBefore(arg)' = RangeBefore(arg)
         /\ Positions' = Positions /\ Width(arg)' = Width(arg)
         /\ LinesBefore(item)' = LinesBefore(n)
         /\ EntriesBefore(item)' = EntriesBefore(n)
         /\ \A e : TableOffset(e)' = TableOffset(e)
         /\ \A o : EntryThere(o)' <=> EntryThere(o)
<1>1. PICK q : q = arg
  OBVIOUS
<1>2. AskedBefore(arg)' = AskedBefore(arg) /\ RangeBefore(arg)' = RangeBefore(arg)
  <2>1. arg' = q
    BY <1>1
  <2>2. AskedBefore(arg)' = AskedBefore(q) /\ RangeBefore(arg)' = RangeBefore(q)
    BY <2>1, SamePlace
  <2>3. QED
    BY <1>1, <2>2
<1>3. Positions' = Positions
  BY SameArguments
<1>4. Width(arg)' = Width(arg)
  BY DEF Width
<1>5. FileLines' = FileLines
  BY DEF FileLines
<1>6. LinesBefore(item)' = LinesBefore(n)
  <2>1. PICK ls : ls = FileLines
    OBVIOUS
  <2>2. QED
    BY <1>5, <2>1 DEF LinesBefore
<1>7. \A e : TableOffset(e)' = TableOffset(e)
  BY DEF TableOffset, EntryOffset
<1>8. /\ \A o : RomByte(o)' = RomByte(o)
      /\ \A v : InRom(v)' <=> InRom(v)
      /\ \A o : EntryThere(o)' <=> EntryThere(o)
  BY DEF RomByte, InRom, EntryThere
<1>9. \A o, a : EntryWords(o, a)' = EntryWords(o, a)
  BY <1>8 DEF EntryWords
<1>10. \A e : EntrySeeds(e)' = EntrySeeds(e)
  <2>1. strtoul(args'[arg' + 3]) = strtoul(args[arg + 3])
    OBVIOUS
  <2>2. QED
    BY <1>7, <1>8, <1>9, <2>1 DEF EntrySeeds
<1>11. EntriesBefore(item)' = EntriesBefore(n)
  BY <1>10 DEF EntriesBefore
<1>12. QED
  BY <1>2, <1>3, <1>4, <1>6, <1>7, <1>8, <1>11

(* The property leaves as much open later. *)
LEMMA ExemptStep ==
  ASSUME ToolInv, Options, Exempt PROVE Exempt'
<1>1. args' = args /\ rom' = rom /\ Len(args) \in Nat
  BY DEF Options, TakeCode, OpenSeeds, ReadLine, CloseSeeds, OpenTable, ReadEntry, CloseTable,
         TakeNumber, OptionsDone, optVars, AnalysisWaits, ToolInv, Readable
<1>2. ReadsBefore' <=> ReadsBefore
  BY <1>1, SameArguments
<1>3. Len(seeds) = MaxSeeds => seeds' = seeds
  <2>1. Len(seeds) = MaxSeeds => ~Room /\ seeds # <<>>
    BY SeedsBound DEF Room
  <2>2. QED
    BY <2>1 DEF Options, TakeCode, OpenSeeds, ReadLine, CloseSeeds, OpenTable, ReadEntry,
       CloseTable, TakeNumber, OptionsDone, AtArg, AtEntry
<1>4. QED
  BY <1>2, <1>3 DEF Exempt

(* An entry is read of a table that begins in the image.                    *)
LEMMA TableInside ==
  ASSUME ToolInv, ~ReadsBefore, Gathered, stage = "table"
  PROVE  /\ arg + 3 <= Len(args) /\ arg <= Len(args) /\ arg \in Items
         /\ Width(arg) = 4 /\ TableOffset(0) \in Int /\ strtoul(args[arg + 3]) \in Int
         /\ \A e \in Nat : TableOffset(e) = TableOffset(0) + 2 * e
         /\ TableOffset(0) # -1
<1>1. /\ Readable(args) /\ Len(args) \in Nat /\ arg \in Nat \ {0} /\ arg + 3 <= Len(args)
      /\ Width(arg) = 4 /\ arg \in Positions
  BY DEF ToolInv, CursorOK, Readable, Gathered
<1>2. arg \in 1..Len(args) /\ arg + 1 \in 1..Len(args) /\ arg + 3 \in 1..Len(args)
  BY <1>1
<1>3. arg \in Items
  BY <1>1, <1>2, ItemsAre
<1>4. TableOffset(0) # -1
  BY <1>1, <1>3 DEF ReadsBefore, TableOffset
<1>5. /\ TableOffset(0) \in Int
      /\ \A e \in Nat : TableOffset(e) = TableOffset(0) + 2 * e
  BY <1>1, <1>2, OffsetType
<1>6. strtoul(args[arg + 3]) \in Int /\ arg <= Len(args)
  BY <1>1, <1>2 DEF Readable
<1>7. QED
  BY <1>1, <1>3, <1>4, <1>5, <1>6

(* The option loop collects what the arguments ask for. *)
LEMMA GatherOptions ==
  ASSUME ToolInv, ~Exempt, Gathered, Options PROVE GatherInv'
<1>0. /\ Readable(args) /\ Len(args) \in Nat /\ seeds \in Seq(Word) /\ CursorOK /\ rom \in Roms
      /\ arg \in Nat \ {0} /\ item \in Nat
  BY DEF ToolInv, IInv, TypeOK, Readable, CursorOK
<1>1. args' = args /\ rom' = rom /\ Room
  <2>1. args' = args /\ rom' = rom
    BY DEF Options, TakeCode, OpenSeeds, ReadLine, CloseSeeds, OpenTable, ReadEntry, CloseTable,
           TakeNumber, OptionsDone, optVars, AnalysisWaits
  <2>2. Room
    BY <1>0, SeedsBound DEF Exempt, Room, ToolInv, SeedsFit
  <2>3. QED
    BY <2>1, <2>2
<1>2. SUFFICES Gathered'
  BY DEF GatherInv
<1>3. /\ Option("--code", 2) <=> Width(arg) = 3
      /\ Option("--seeds", 1) <=> Width(arg) = 2
      /\ Option("--table", 3) <=> Width(arg) = 4
      /\ Width(arg) \in {1, 2, 3, 4} /\ Behind(arg) = arg + Width(arg)
  <2>1. \A name, n : Option(name, n) <=> OptionAt(arg, name, n)
    BY DEF Option, OptionAt
  <2>2. QED
    BY <2>1, WidthIs DEF Behind
<1>4. seeds' = seeds => Roots' = Roots
  BY DEF Roots
<1>5. /\ stage \in {"options", "file", "table"} => arg \in Positions /\ span = RangeBefore(arg)
      /\ stage = "options" => Roots = AskedBefore(arg)
  BY DEF Gathered
<1>6. ASSUME arg \in Positions, arg <= Len(args), SkipTo(Behind(arg)),
             Roots' = AskedBefore(arg) \cup AskedAt(arg), Width(arg) # 3,
             span = RangeBefore(arg), span' = span
      PROVE  Gathered'
  BY <1>0, <1>1, <1>6, ItemDone
<1>7. CASE TakeCode
  <2>1. /\ Width(arg) = 3 /\ arg <= Len(args) /\ SkipTo(Behind(arg)) /\ AskedAt(arg) = {}
        /\ stage = "options" /\ seeds' = seeds
        /\ span' = [lo |-> Number(args[arg + 1]), hi |-> Number(args[arg + 2])]
    BY <1>3, <1>7 DEF TakeCode, AtArg, AskedAt
  <2>2. QED
    BY <1>0, <1>1, <1>4, <1>5, <2>1, ItemDone
<1>8. CASE OpenSeeds
  <2>1. /\ Width(arg) = 2 /\ arg <= Len(args) /\ stage = "options" /\ seeds' = seeds
        /\ span' = span
    BY <1>3, <1>8 DEF OpenSeeds, AtArg
  <2>2. CASE args[arg + 1].kind = "file"
    <3>1. stage' = "file" /\ item' = 1 /\ arg' = arg
      BY <1>8, <2>2 DEF OpenSeeds
    <3>2. Len(FileLines) \in Nat
      <4>1. arg + 1 \in 1..Len(args)
        BY <1>0, <1>8 DEF OpenSeeds, Option
      <4>2. QED
        BY <1>0, <2>2, <4>1 DEF Readable, FileLines
    <3>3. LinesBefore(1) = {}
      BY <3>2, LinesAsked
    <3>4. /\ AskedBefore(arg)' = AskedBefore(arg) /\ RangeBefore(arg)' = RangeBefore(arg)
          /\ Positions' = Positions /\ Width(arg)' = Width(arg)
          /\ LinesBefore(item)' = LinesBefore(1)
      BY <1>0, <1>1, <3>1, SameItem
    <3>5. QED
      BY <1>4, <1>5, <2>1, <3>1, <3>3, <3>4 DEF Gathered, Translating
  <2>3. CASE args[arg + 1].kind # "file"
    <3>1. SkipTo(Behind(arg)) /\ AskedAt(arg) = {}
      BY <1>3, <1>8, <2>1, <2>3 DEF OpenSeeds, AskedAt
    <3>2. QED
      BY <1>4, <1>5, <1>6, <2>1, <3>1
  <2>4. QED
    BY <2>2, <2>3
<1>9. CASE ReadLine
  <2>1. /\ stage = "file" /\ item <= Len(FileLines) /\ item' = item + 1
        /\ UNCHANGED <<stage, span, arg>>
        /\ IF SeedLine(FileLines[item]) THEN Collect(LineNumber(FileLines[item]))
           ELSE seeds' = seeds
    BY <1>9 DEF ReadLine
  <2>2. /\ Width(arg) = 2 /\ Roots = AskedBefore(arg) \cup LinesBefore(item)
        /\ arg + 1 <= Len(args) /\ args[arg + 1].kind = "file" /\ item >= 1
    BY <1>0, <2>1 DEF Gathered, CursorOK
  <2>3. /\ Len(FileLines) \in Nat /\ item \in 1..Len(FileLines)
        /\ SeedLine(FileLines[item]) => LineNumber(FileLines[item]) \in Word
    <3>1. arg + 1 \in 1..Len(args)
      BY <1>0, <2>2
    <3>2. Len(FileLines) \in Nat
      BY <1>0, <2>2, <3>1 DEF Readable, FileLines
    <3>3. item \in 1..Len(FileLines)
      BY <1>0, <2>1, <2>2, <3>2
    <3>4. QED
      BY <1>0, <2>2, <3>1, <3>2, <3>3 DEF Readable, FileLines
  <2>4. Roots' = Roots \cup
          IF SeedLine(FileLines[item]) THEN {LineNumber(FileLines[item])} ELSE {}
    <3>1. CASE SeedLine(FileLines[item])
      BY <1>0, <2>1, <2>3, <3>1, RootsAppend
    <3>2. CASE ~SeedLine(FileLines[item])
      BY <1>4, <2>1, <3>2
    <3>3. QED
      BY <3>1, <3>2
  <2>5. LinesBefore(item + 1) = LinesBefore(item) \cup
          IF SeedLine(FileLines[item]) THEN {LineNumber(FileLines[item])} ELSE {}
    BY <1>0, <2>3, LinesAsked
  <2>6. /\ AskedBefore(arg)' = AskedBefore(arg) /\ RangeBefore(arg)' = RangeBefore(arg)
        /\ Positions' = Positions /\ Width(arg)' = Width(arg)
        /\ LinesBefore(item)' = LinesBefore(item + 1)
    <3>1. PICK n : n = item + 1
      OBVIOUS
    <3>2. QED
      BY <1>0, <1>1, <2>1, <3>1, SameItem
  <2>7. Roots' = AskedBefore(arg) \cup LinesBefore(item + 1)
    BY <2>2, <2>4, <2>5
  <2>8. QED
    BY <1>5, <2>1, <2>2, <2>6, <2>7 DEF Gathered, Translating
<1>10. CASE CloseSeeds
  <2>1. /\ stage = "file" /\ SkipTo(arg + 2) /\ seeds' = seeds /\ span' = span
        /\ ~(item <= Len(FileLines))
    BY <1>1, <1>10 DEF CloseSeeds
  <2>2. /\ Width(arg) = 2 /\ Roots = AskedBefore(arg) \cup LinesBefore(item)
        /\ arg + 1 <= Len(args) /\ args[arg + 1].kind = "file"
    BY <1>0, <2>1 DEF Gathered, CursorOK
  <2>3. arg + 1 \in 1..Len(args) /\ arg <= Len(args)
    BY <1>0, <2>2
  <2>4. Len(FileLines) \in Nat
    BY <1>0, <2>2, <2>3 DEF Readable, FileLines
  <2>5. LinesBefore(item) = AskedAt(arg)
    BY <1>0, <2>1, <2>2, <2>4, LinesAsked
  <2>6. SkipTo(Behind(arg))
    BY <1>3, <2>1, <2>2
  <2>7. QED
    BY <1>4, <1>5, <1>6, <2>1, <2>2, <2>3, <2>5, <2>6
<1>11. CASE OpenTable
  <2>1. /\ Width(arg) = 4 /\ arg + 3 <= Len(args) /\ stage = "options" /\ stage' = "table"
        /\ item' = 0 /\ UNCHANGED <<seeds, span, arg>>
    BY <1>3, <1>11 DEF OpenTable, AtArg, Option
  <2>2. EntriesBefore(0) = {}
    BY <1>0, <2>1, EntriesAsked
  <2>3. /\ AskedBefore(arg)' = AskedBefore(arg) /\ RangeBefore(arg)' = RangeBefore(arg)
        /\ Positions' = Positions /\ Width(arg)' = Width(arg)
        /\ EntriesBefore(item)' = EntriesBefore(0)
        /\ TableOffset(0)' = TableOffset(0)
    BY <1>0, <1>1, <2>1, SameItem
  <2>4. 0..(item' - 1) = {}
    BY <2>1
  <2>5. QED
    BY <1>4, <1>5, <2>1, <2>2, <2>3, <2>4 DEF Gathered, Translating
<1>12. CASE ReadEntry
  <2> DEFINE o   == TableOffset(item)
             adj == strtoul(args[arg + 3])
             cnt == strtoul(args[arg + 2])
  <2>1. /\ stage = "table" /\ item < cnt /\ EntryThere(o) /\ item' = item + 1
        /\ UNCHANGED <<stage, span, arg>>
        /\ \E v \in EntryWords(o, adj) : IF InRom(v) THEN Collect(v) ELSE seeds' = seeds
    BY <1>12 DEF ReadEntry, AtEntry, TableOffset
  <2>2. /\ arg + 3 <= Len(args) /\ Width(arg) = 4 /\ TableOffset(0) \in Int /\ adj \in Int
        /\ o = TableOffset(0) + 2 * item /\ TableOffset(0) # -1
    BY <1>0, <2>1, TableInside DEF Exempt
  <2>3. o \in Int /\ o >= -1
    BY <1>0, <2>1, <2>2 DEF EntryThere
  <2>4. ~(TableOffset(0) < 0)
    <3> SUFFICES ASSUME TableOffset(0) < 0 PROVE FALSE
      OBVIOUS
    <3>1. item = 0
      BY <2>1 DEF Gathered
    <3> HIDE DEF o
    <3>2. QED
      BY <2>2, <2>3, <3>1
  <2>5. /\ Roots = AskedBefore(arg) \cup EntriesBefore(item)
        /\ \A e \in 0..(item - 1) : e < cnt /\ EntryThere(TableOffset(e))
    BY <2>1, <2>4 DEF Gathered
  <2>6. o # -1
    <3> HIDE DEF o
    <3>1. QED
      BY <1>0, <2>2, <2>4
  <2>7. PICK v \in Word : EntryWords(o, adj) = {v}
    <3> HIDE DEF o, adj
    <3>1. QED
      BY <1>0, <2>2, <2>3, <2>6, EntryWordsType
  <2>8. EntrySeeds(item) = IF InRom(v) THEN {v} ELSE {}
    BY <2>7 DEF EntrySeeds
  <2>9. Roots' = Roots \cup EntrySeeds(item)
    <3>1. CASE InRom(v)
      BY <1>0, <2>1, <2>7, <2>8, <3>1, RootsAppend
    <3>2. CASE ~InRom(v)
      BY <1>4, <2>1, <2>7, <2>8, <3>2
    <3>3. QED
      BY <3>1, <3>2
  <2>10. EntriesBefore(item + 1) = EntriesBefore(item) \cup EntrySeeds(item)
    BY <1>0, <2>2, EntriesAsked
  <2>11. \A e \in 0..(item + 1 - 1) : e < cnt /\ EntryThere(TableOffset(e))
    <3>1. \A e \in 0..(item + 1 - 1) : e \in 0..(item - 1) \/ e = item
      BY <1>0
    <3>2. QED
      BY <2>1, <2>5, <3>1
  <2>12. /\ AskedBefore(arg)' = AskedBefore(arg) /\ RangeBefore(arg)' = RangeBefore(arg)
         /\ Positions' = Positions /\ Width(arg)' = Width(arg)
         /\ EntriesBefore(item)' = EntriesBefore(item + 1)
         /\ \A e : TableOffset(e)' = TableOffset(e)
         /\ \A a : EntryThere(a)' <=> EntryThere(a)
    <3>1. PICK n : n = item + 1
      OBVIOUS
    <3>2. QED
      BY <1>0, <1>1, <2>1, <3>1, SameItem
  <2>13. Roots' = AskedBefore(arg) \cup EntriesBefore(item + 1)
    BY <2>5, <2>9, <2>10
  <2>14. (\A e \in 0..(item - 1) : e < strtoul(args[arg + 2]) /\ EntryThere(TableOffset(e)))'
    <3>1. ASSUME NEW e \in 0..(item + 1 - 1) PROVE EntryThere(TableOffset(e))'
      <4>1. PICK a : a = TableOffset(e)
        OBVIOUS
      <4>2. EntryThere(a)' /\ TableOffset(e)' = a
        BY <2>11, <2>12, <4>1
      <4>3. QED
        BY <4>2 DEF EntryThere
    <3>2. strtoul(args'[arg' + 2]) = cnt
      BY <1>1, <2>1
    <3>3. \A e \in 0..(item + 1 - 1) : e < cnt
      BY <2>11
    <3>4. item' - 1 = item + 1 - 1
      BY <1>0, <2>1
    <3> HIDE DEF cnt
    <3>5. QED
      BY <3>1, <3>2, <3>3, <3>4
  <2>15. ~(TableOffset(0) < 0)'
    BY <2>4, <2>12
  <2>16. QED
    BY <1>5, <2>1, <2>2, <2>12, <2>13, <2>14, <2>15 DEF Gathered, Translating
<1>13. CASE CloseTable
  <2>1. /\ stage = "table" /\ SkipTo(arg + 4) /\ seeds' = seeds /\ span' = span
        /\ ~(item < strtoul(args[arg + 2]) /\ EntryThere(TableOffset(item)))
    BY <1>1, <1>13 DEF CloseTable, AtEntry, TableOffset
  <2>2. /\ arg + 3 <= Len(args) /\ arg <= Len(args) /\ Width(arg) = 4
        /\ TableOffset(0) \in Int
    BY <2>1, TableInside DEF Exempt
  <2>3. Roots = AskedBefore(arg) \cup AskedAt(arg)
    <3>1. CASE TableOffset(0) < 0
      <4>1. AskedAt(arg) = {}
        BY <1>0, <2>2, <3>1, EntriesAsked
      <4>2. QED
        BY <2>1, <3>1, <4>1 DEF Gathered
    <3>2. CASE ~(TableOffset(0) < 0)
      <4>1. /\ Roots = AskedBefore(arg) \cup EntriesBefore(item)
            /\ \A e \in 0..(item - 1) :
                 e < strtoul(args[arg + 2]) /\ EntryThere(TableOffset(e))
        BY <2>1, <3>2 DEF Gathered
      <4>2. TableOffset(0) >= 0
        BY <2>2, <3>2
      <4>3. EntriesBefore(item) = AskedAt(arg)
        BY <1>0, <2>1, <2>2, <4>1, <4>2, EntriesAsked
      <4>4. QED
        BY <4>1, <4>3
    <3>3. QED
      BY <3>1, <3>2
  <2>4. SkipTo(Behind(arg))
    BY <1>3, <2>1, <2>2
  <2>5. QED
    BY <1>4, <1>5, <1>6, <2>1, <2>2, <2>3, <2>4
<1>14. CASE TakeNumber
  <2>1. /\ Width(arg) = 1 /\ arg <= Len(args) /\ SkipTo(Behind(arg))
        /\ AskedAt(arg) = {Number(args[arg])}
        /\ stage = "options" /\ Collect(Number(args[arg])) /\ span' = span
    BY <1>3, <1>14 DEF TakeNumber, AtArg, AskedAt
  <2>2. Number(args[arg]) \in Word
    <3>1. arg \in 1..Len(args)
      BY <1>0, <2>1
    <3>2. QED
      BY <1>0, <3>1, NumberType
  <2>3. Roots' = Roots \cup {Number(args[arg])}
    BY <1>0, <2>1, <2>2, RootsAppend
  <2>4. QED
    BY <1>5, <1>6, <2>1, <2>3
<1>15. CASE OptionsDone
  <2>1. stage = "options" /\ ~(arg <= Len(args)) /\ stage' = "analyze" /\ span' = span
    BY <1>1, <1>15 DEF OptionsDone, AtArg
  <2>2. /\ AskedBefore(arg) = UNION {AskedAt(p) : p \in Items}
        /\ RangeBefore(arg) = AskedSpan
    BY <1>0, <1>5, <2>1, AllAsked
  <2>3. Roots' = IF Roots = {} THEN {Base} ELSE Roots
    <3>1. CASE seeds = <<>>
      <4>1. seeds' = <<Base>> /\ Roots = {}
        BY <1>15, <3>1 DEF OptionsDone, Roots
      <4>2. QED
        BY <4>1 DEF Roots
    <3>2. CASE seeds # <<>>
      <4>1. seeds' = seeds
        BY <1>15, <3>2 DEF OptionsDone
      <4>2. 1 \in 1..Len(seeds)
        BY <1>0, <3>2
      <4>3. seeds[1] \in Roots
        BY <4>2 DEF Roots
      <4>4. QED
        BY <1>4, <4>1, <4>3
    <3>3. QED
      BY <3>1, <3>2
  <2>4. Roots' = Asked
    BY <1>5, <2>1, <2>2, <2>3, AskedIs
  <2>5. Asked' = Asked /\ AskedSpan' = AskedSpan
    BY <1>0, <1>1, SameArguments
  <2>6. QED
    BY <1>5, <2>1, <2>2, <2>4, <2>5 DEF Gathered, Translating
<1>16. QED
  BY <1>7, <1>8, <1>9, <1>10, <1>11, <1>12, <1>13, <1>14, <1>15 DEF Options

-----------------------------------------------------------------------------
(* So the program does what it is asked.                                   *)

(* No step of the emitter or of the listing changes what was reached.       *)
LEMMA ReachedKept ==
  ASSUME OnlyReached, UNCHANGED <<rom, span, seeds>>, d'.seen = d.seen PROVE OnlyReached'
<1>1. \A T : HasRoots(Roots, T)' => HasRoots(Roots, T)
  BY DEF HasRoots, Roots, in_image, Off
<1>2. \A T : Follows(T)' => Follows(T)
  BY SameSuccessors DEF Follows
<1>3. QED
  BY <1>1, <1>2 DEF OnlyReached

(* The program analyzes and emits what its arguments ask for.               *)
AskInv == ProgramInv /\ GatherInv /\ OnlyReached

(* At first nothing was asked for. *)
LEMMA AskInit == MainInit => AskInv
<1>1. MainInit => OnlyReached
  BY BeginReached DEF MainInit
<1>2. QED
  BY <1>1, ProgramInit, GatherInit DEF AskInv

(* Each step of the program keeps to what is asked for. *)
LEMMA AskStep == AskInv /\ [MainNext]_mainVars => AskInv'
<1> SUFFICES ASSUME AskInv, [MainNext]_mainVars PROVE GatherInv' /\ OnlyReached'
  BY ProgramStep DEF AskInv
<1>0. ToolInv /\ EmitInv /\ GatherInv /\ OnlyReached /\ Len(args) \in Nat
  BY DEF AskInv, ProgramInv, ToolInv, Readable
<1>1. CASE Options
  <2>1. GatherInv'
    BY <1>0, <1>1, ExemptStep, GatherOptions DEF GatherInv
  <2>2. ~Translating /\ AnalysisWaits
    BY <1>1 DEF Options, TakeCode, OpenSeeds, ReadLine, CloseSeeds, OpenTable, ReadEntry,
       CloseTable, TakeNumber, OptionsDone, AtArg, Translating
  <2>3. d'.seen = {}
    BY <2>2 DEF AskInv, ProgramInv, Begin, AnalysisWaits
  <2>4. OnlyReached'
    BY <2>3 DEF OnlyReached
  <2>5. QED
    BY <2>1, <2>4
<1>2. CASE Translate
  <2>1. UNCHANGED <<rom, span, seeds, args>> /\ Translating /\ Translating' /\ OnlyReached'
    <3>1. CASE Analyze
      <4>1. UNCHANGED <<rom, span, seeds, args>> /\ Translating /\ Translating' /\ Next
        BY <1>2, <3>1, ImageKept DEF Analyze, Translate, optVars, emitVars, Translating
      <4>2. QED
        BY <1>0, <4>1, OnlyReachedStep DEF EmitInv, AnalysisInv
    <3>2. CASE EmitStep
      <4>1. UNCHANGED <<rom, span, seeds, args, d>> /\ Translating /\ Translating'
        BY <1>2, <3>2 DEF Translate, EmitStep, BeginEmit, SkipSelfModifying, EmitLine, EmitEnd,
           EmitDone, EmitKeeps, optVars, Translating
      <4>2. QED
        BY <1>0, <4>1, ReachedKept
    <3>3. QED
      BY <1>2, <3>1, <3>2 DEF Translate, EmitNext
  <2>2. Asked' = Asked /\ AskedSpan' = AskedSpan /\ (ReadsBefore' <=> ReadsBefore)
    BY <1>0, <2>1, SameArguments
  <2>3. Roots' = Roots
    BY <2>1 DEF Roots
  <2>4. GatherInv'
    BY <1>0, <2>1, <2>2, <2>3 DEF GatherInv, Exempt, Gathered, Translating
  <2>5. QED
    BY <2>1, <2>4
<1>3. CASE List \/ ListDone
  <2>1. /\ UNCHANGED <<vars, args>>
        /\ stage' \in {"sweep", "listed"}
    BY <1>3 DEF List, ListDone, allVars, emitVars, optVars
  <2>2. OnlyReached'
    BY <1>0, <2>1, ReachedKept DEF vars
  <2>3. Gathered'
    BY <2>1 DEF Gathered, Translating
  <2>4. QED
    BY <2>2, <2>3 DEF GatherInv
<1>4. CASE UNCHANGED mainVars
  <2>1. UNCHANGED <<vars, stage, args, arg, item>>
    BY <1>4 DEF mainVars, allVars, emitVars, optVars
  <2>2. OnlyReached'
    BY <1>0, <2>1, ReachedKept DEF vars
  <2>3. UNCHANGED <<rom, span, seeds>> /\ Roots' = Roots
    BY <2>1 DEF vars, Roots
  <2>4. Asked' = Asked /\ AskedSpan' = AskedSpan /\ (ReadsBefore' <=> ReadsBefore)
    BY <1>0, <2>1, <2>3, SameArguments
  <2>5. /\ AskedBefore(arg)' = AskedBefore(arg) /\ RangeBefore(arg)' = RangeBefore(arg)
        /\ Positions' = Positions /\ Width(arg)' = Width(arg)
        /\ LinesBefore(item)' = LinesBefore(item)
        /\ EntriesBefore(item)' = EntriesBefore(item)
        /\ \A e : TableOffset(e)' = TableOffset(e)
        /\ \A o : EntryThere(o)' <=> EntryThere(o)
    <3>1. PICK n : n = item
      OBVIOUS
    <3>2. QED
      BY <1>0, <2>1, <2>3, <3>1, SameItem
  <2>6. \A e : EntryThere(TableOffset(e)) => EntryThere(TableOffset(e))'
    <3> TAKE e
    <3>1. PICK a : a = TableOffset(e)
      OBVIOUS
    <3>2. (EntryThere(a)' <=> EntryThere(a)) /\ TableOffset(e)' = a
      BY <2>5, <3>1
    <3>3. QED
      BY <3>1, <3>2 DEF EntryThere
  <2>7. Gathered => Gathered'
    BY <2>1, <2>3, <2>4, <2>5, <2>6 DEF Gathered, Translating
  <2>8. QED
    BY <1>0, <2>2, <2>3, <2>4, <2>7 DEF GatherInv, Exempt
<1>5. QED
  BY <1>1, <1>2, <1>3, <1>4 DEF MainNext

(* It is an invariant of the specification. *)
LEMMA AskSafe == MainSpec => []AskInv
BY AskInit, AskStep, PTL DEF MainSpec

(* The invariant implies the property. *)
LEMMA AskedIsCompiled == AskInv => CompilesWhatIsAsked
<1> SUFFICES ASSUME AskInv, stage = "emitted", ~Exempt, Len(funcs) # MaxFuncs
             PROVE  /\ span = AskedSpan
                    /\ DOMAIN code \cup
                         {funcs[i].start : i \in {j \in 1..Len(funcs) : funcs[j].self_mod}}
                         = Reached(Asked)
  BY DEF CompilesWhatIsAsked, Exempt
<1>1. span = AskedSpan /\ Roots = Asked
  BY DEF AskInv, GatherInv, Gathered, Translating
<1>2. EmitInv /\ FollowInv /\ phase = "analyzed"
  BY DEF AskInv, ProgramInv, EmitInv, EmitOK, AnalysisInv
<1>3. Starts = Reached(Roots)
  BY <1>2, SeenIsReached DEF AskInv
<1>4. QED
  BY <1>1, <1>2, <1>3, StartsHaveCode

(* Whatever the command line, image and tables are, recompbin compiles (or  *)
(* leaves to the interpreter as self-modifying) the blocks that the         *)
(* addresses asked for lead to within the range asked for, and no others.   *)
THEOREM CompilesAsAsked == MainSpec => []CompilesWhatIsAsked
BY AskedIsCompiled, AskSafe, PTL
=============================================================================
