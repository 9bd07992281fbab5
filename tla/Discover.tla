------------------------------ MODULE Discover ------------------------------
(***************************************************************************)
(* Function discovery: analyze_discover() of tools/m6502recomp/analyze.c.  *)
(*                                                                         *)
(* A code image rom, mapped at Base, is carved into basic blocks by        *)
(* recursive descent from the seeds (phases "seed", "work", "scan"); blocks*)
(* are split at interior leaders ("split"); then two passes look for       *)
(* self-modifying code ("stores", "patches").  Every action is one         *)
(* iteration of one of the C loops.                                        *)
(***************************************************************************)
EXTENDS Image, FiniteSets

CONSTANTS
  MaxFuncs,   \* MAX_FUNCS (16384): capacity of work[], funcs[] and ext[]
  Inputs      \* what analyze_discover is called with: [rom, span, seeds]

ASSUME MaxFuncsAssumption == MaxFuncs \in Nat \ {0}

ASSUME InputsAssumption ==
  \A i \in Inputs :
    /\ i.rom \in Seq(Byte) /\ Len(i.rom) < WordSize
    /\ i.span \in Spans
    /\ i.seeds \in Seq(Word)

VARIABLES
  seeds,      \* an argument of the call, as rom is; span is a global
  phase,      \* which loop of analyze_discover is running
  d,          \* disc_t: the work stack and the set of function starts seen
  funcs,      \* func_table_t.funcs, in discovery order
  ext,        \* func_table_t.ext
  patched,    \* analyze_patched: addresses an absolute store writes
  fs,         \* leader of the block being scanned
  k, addr     \* cursor of the running loop: index into seeds or funcs, address

vars == <<rom, span, seeds, phase, d, funcs, ext, patched, fs, k, addr>>

-----------------------------------------------------------------------------
(* Helpers. *)

(* Mutant: only the addresses still waiting count as seen. *)
push_func_WaitingOnly(dd, a) ==
  IF ~in_image(a) \/ (\E i \in 1..Len(dd.work) : dd.work[i] = a) \/ Len(funcs) >= MaxFuncs
  THEN dd
  ELSE [work |-> Append(dd.work, a), seen |-> dd.seen \cup {a}]

(* Mutant: the capacity is checked too late by one. *)
push_func_OneTooMany(dd, a) ==
  IF ~in_image(a) \/ a \in dd.seen \/ Len(dd.work) > MaxFuncs \/ Len(funcs) > MaxFuncs
  THEN dd
  ELSE [work |-> Append(dd.work, a), seen |-> dd.seen \cup {a}]

(* Mutant: an address is marked before the capacity is checked. *)
push_func_MarkFirst(dd, a) ==
  IF ~in_image(a) \/ a \in dd.seen
  THEN dd
  ELSE [work |-> IF Len(dd.work) >= MaxFuncs \/ Len(funcs) >= MaxFuncs
                 THEN dd.work ELSE Append(dd.work, a),
        seen |-> dd.seen \cup {a}]

push_func(dd, a) ==
  IF \/ ~in_image(a)
     \/ a \in dd.seen
     \/ Len(dd.work) >= MaxFuncs
     \/ Len(funcs) >= MaxFuncs
  THEN dd
  ELSE [work |-> Append(dd.work, a), seen |-> dd.seen \cup {a}]

add_ext(a) ==
  IF a \notin ext /\ Cardinality(ext) < MaxFuncs THEN ext \cup {a} ELSE ext

InBlock(a, f) == f.start <= a /\ a < f.end

-----------------------------------------------------------------------------
(* Seeding and recursive descent. *)

(* The call of analyze_discover. *)
Begin ==
  /\ phase = "seed"
  /\ d = [work |-> <<>>, seen |-> {}]
  /\ funcs = <<>>
  /\ ext = {}
  /\ patched = {}
  /\ fs = 0
  /\ k = 1
  /\ addr = 0

Init ==
  /\ \E i \in Inputs : rom = i.rom /\ span = i.span /\ seeds = i.seeds
  /\ Begin

PushSeed ==
  /\ phase = "seed"
  /\ k <= Len(seeds)
  /\ d' = push_func(d, seeds[k])
  /\ k' = k + 1
  /\ UNCHANGED <<rom, span, seeds, phase, funcs, ext, patched, fs, addr>>

SeedsDone ==
  /\ phase = "seed"
  /\ k > Len(seeds)
  /\ phase' = "work"
  /\ UNCHANGED <<rom, span, seeds, d, funcs, ext, patched, fs, k, addr>>

(* Mutant: a full table is noticed before the entry is taken off the stack. *)
PopWork_FullFirst ==
  /\ phase = "work"
  /\ d.work # <<>>
  /\ Len(funcs) < MaxFuncs
  /\ LET n == Len(d.work)
     IN  d' = [d EXCEPT !.work = SubSeq(d.work, 1, n - 1)]
           /\ phase' = "scan" /\ fs' = d.work[n] /\ addr' = d.work[n]
  /\ UNCHANGED <<rom, span, seeds, funcs, ext, patched, k>>

(* d.work[--d.nwork], and the entry of discover_one: a full table drops it. *)
PopWork ==
  /\ phase = "work"
  /\ d.work # <<>>
  /\ LET n == Len(d.work)
     IN  /\ d' = [d EXCEPT !.work = SubSeq(d.work, 1, n - 1)]
         /\ IF Len(funcs) >= MaxFuncs
            THEN UNCHANGED <<phase, fs, addr>>
            ELSE phase' = "scan" /\ fs' = d.work[n] /\ addr' = d.work[n]
  /\ UNCHANGED <<rom, span, seeds, funcs, ext, patched, k>>

Scanning == WithinBlock(fs, addr)

(* f->end = e; t->nfuncs++ *)
AddBlock(e, isret, isfall) ==
  /\ funcs' = Append(funcs, [start |-> fs, end |-> e, reaches_ret |-> isret,
                             fallthrough |-> isfall, self_mod |-> FALSE])
  /\ phase' = "work"
  /\ UNCHANGED <<rom, span, seeds, patched, fs, k, addr>>

(* Mutant: a BRK does not end the block. *)
ScanNormal_Break ==
  /\ phase = "scan" /\ Scanning
  /\ Insn(addr).cflow \in {"normal", "break"}
  /\ addr' = Next16(addr)
  /\ UNCHANGED <<rom, span, seeds, phase, d, funcs, ext, patched, fs, k>>

ScanNormal ==
  /\ phase = "scan" /\ Scanning
  /\ Insn(addr).cflow = "normal"
  /\ addr' = Next16(addr)
  /\ UNCHANGED <<rom, span, seeds, phase, d, funcs, ext, patched, fs, k>>

(* Mutant: the target of a call is not recorded as external. *)
ScanCall_NoExternal ==
  /\ phase = "scan" /\ Scanning
  /\ Insn(addr).cflow = "call"
  /\ d' = push_func(push_func(d, Insn(addr).target), Next16(addr))
  /\ ext' = ext
  /\ AddBlock(Next16(addr), FALSE, FALSE)

(* Mutant: the return address is not seeded. *)
ScanCall_NoReturn ==
  /\ phase = "scan" /\ Scanning
  /\ Insn(addr).cflow = "call"
  /\ LET tgt == Insn(addr).target
     IN  /\ d'   = push_func(d, tgt)
         /\ ext' = IF in_image(tgt) THEN ext ELSE add_ext(tgt)
  /\ AddBlock(Next16(addr), FALSE, FALSE)

ScanCall ==
  /\ phase = "scan" /\ Scanning
  /\ Insn(addr).cflow = "call"
  /\ LET tgt == Insn(addr).target
     IN  /\ d'   = push_func(IF in_image(tgt) THEN push_func(d, tgt) ELSE d, Next16(addr))
         /\ ext' = IF in_image(tgt) THEN ext ELSE add_ext(tgt)
  /\ AddBlock(Next16(addr), FALSE, FALSE)

(* Mutant: the fall-through of a branch is not seeded. *)
ScanBranch_NoFallThrough ==
  /\ phase = "scan" /\ Scanning
  /\ Insn(addr).cflow = "branch"
  /\ d' = push_func(d, Insn(addr).target)
  /\ ext' = ext
  /\ AddBlock(Next16(addr), FALSE, FALSE)

ScanBranch ==
  /\ phase = "scan" /\ Scanning
  /\ Insn(addr).cflow = "branch"
  /\ d' = push_func(push_func(d, Insn(addr).target), Next16(addr))
  /\ ext' = ext
  /\ AddBlock(Next16(addr), FALSE, FALSE)

(* Mutant: every direct target is recorded as external. *)
ScanJump_AllExternal ==
  /\ phase = "scan" /\ Scanning
  /\ Insn(addr).cflow = "jmp"
  /\ LET in == Insn(addr)
     IN  /\ d'   = push_func(d, JumpTarget(in))
         /\ ext' = IF in.mode # "ind" THEN add_ext(in.target) ELSE ext
  /\ AddBlock(Next16(addr), FALSE, FALSE)

ScanJump ==
  /\ phase = "scan" /\ Scanning
  /\ Insn(addr).cflow = "jmp"
  /\ LET in  == Insn(addr)
         tgt == JumpTarget(in)
     IN  /\ d'   = IF in.mode = "ind" \/ tgt # 0 THEN push_func(d, tgt) ELSE d
         /\ ext' = IF in.mode # "ind" /\ tgt # 0 /\ ~in_image(tgt)
                   THEN add_ext(tgt) ELSE ext
  /\ AddBlock(Next16(addr), FALSE, FALSE)

ScanStop ==
  /\ phase = "scan" /\ Scanning
  /\ Insn(addr).cflow \in {"ret", "break", "stop"}
  /\ UNCHANGED <<d, ext>>
  /\ AddBlock(Next16(addr), Insn(addr).cflow = "ret", FALSE)

(* Mutant: an empty block is not added. *)
ScanRunsOff_DropEmpty ==
  /\ phase = "scan" /\ ~Scanning
  /\ UNCHANGED <<d, ext>>
  /\ IF addr = fs
     THEN phase' = "work" /\ UNCHANGED <<rom, span, seeds, funcs, patched, fs, k, addr>>
     ELSE AddBlock(addr, FALSE, TRUE)

ScanRunsOff ==
  /\ phase = "scan" /\ ~Scanning
  /\ UNCHANGED <<d, ext>>
  /\ AddBlock(addr, FALSE, TRUE)

-----------------------------------------------------------------------------
(* The passes over the finished table: split_at_leaders, then the two      *)
(* self-modification passes.  Each visits the instructions of every block. *)

FirstAddr == IF funcs = <<>> THEN 0 ELSE funcs[1].start

PassAfter == [split |-> "stores", stores |-> "patches", patches |-> "analyzed"]

NextBlock ==
  IF k < Len(funcs)
  THEN k' = k + 1 /\ addr' = funcs[k + 1].start /\ UNCHANGED phase
  ELSE k' = 1 /\ addr' = FirstAddr /\ phase' = PassAfter[phase]

(* The self-modification passes also stop where the address space wraps. *)
NextInsn ==
  IF phase # "split" /\ Next16(addr) <= funcs[k].start
  THEN NextBlock
  ELSE addr' = Next16(addr) /\ UNCHANGED <<phase, k>>

WorkDone ==
  /\ phase = "work"
  /\ d.work = <<>>
  /\ phase' = "split" /\ k' = 1 /\ addr' = FirstAddr
  /\ UNCHANGED <<rom, span, seeds, d, funcs, ext, patched, fs>>

InPass ==
  /\ k <= Len(funcs)
  /\ addr < funcs[k].end
  /\ IF phase = "split" THEN Off(addr) \in 0..(Len(rom) - 1) ELSE in_image(addr)

BlockDone ==
  /\ phase \in {"split", "stores", "patches"}
  /\ ~InPass
  /\ NextBlock
  /\ UNCHANGED <<rom, span, seeds, d, funcs, ext, patched, fs>>

(* Mutant: a leader at the last byte of the block is overlooked. *)
LeaderNext_OffByOne == Next16(addr) + 1 < funcs[k].end /\ Next16(addr) \in d.seen

(* A leader at an instruction boundary inside block k. *)
LeaderNext == Next16(addr) < funcs[k].end /\ Next16(addr) \in d.seen

(* Mutant: the block is cut before its last instruction. *)
SplitHere_TooEarly ==
  /\ phase = "split" /\ InPass
  /\ LeaderNext
  /\ funcs' = [funcs EXCEPT ![k].end = addr,
                            ![k].fallthrough = TRUE,
                            ![k].reaches_ret = FALSE]
  /\ NextBlock
  /\ UNCHANGED <<rom, span, seeds, d, ext, patched, fs>>

SplitHere ==
  /\ phase = "split" /\ InPass
  /\ LeaderNext
  /\ funcs' = [funcs EXCEPT ![k].end = Next16(addr),
                            ![k].fallthrough = TRUE,
                            ![k].reaches_ret = FALSE]
  /\ NextBlock
  /\ UNCHANGED <<rom, span, seeds, d, ext, patched, fs>>

SplitSkip ==
  /\ phase = "split" /\ InPass
  /\ ~LeaderNext
  /\ NextInsn
  /\ UNCHANGED <<rom, span, seeds, d, funcs, ext, patched, fs>>

is_store(in) == in.mn \in {"STA", "STX", "STY"}

in_code(a) ==
  \E g \in 1..Len(funcs) : funcs[g].start = a \/ InBlock(a, funcs[g])

ScanStore ==
  /\ phase = "stores" /\ InPass
  /\ LET in  == Insn(addr)
         hit == is_store(in) /\ in_code(in.operand)
     IN  /\ patched' = IF hit /\ in.mode = "abs" THEN patched \cup {in.operand}
                       ELSE patched
         /\ funcs' = IF hit /\ in.mode \in {"abx", "aby"}
                     THEN [g \in 1..Len(funcs) |->
                             IF InBlock(in.operand, funcs[g])
                             THEN [funcs[g] EXCEPT !.self_mod = TRUE] ELSE funcs[g]]
                     ELSE funcs
  /\ NextInsn
  /\ UNCHANGED <<rom, span, seeds, d, ext, fs>>

(* Mutant: the high byte of a transfer's operand is forgotten. *)
CannotRecompile_LowOnly(a) ==
  a \in patched \/ (Insn(a).cflow \notin {"normal", "ret"} /\ W(a + 1) \in patched)

(* The opcode, or an operand that decides the control flow, is patched. *)
CannotRecompile(a) ==
  \/ a \in patched
  \/ /\ Insn(a).cflow \notin {"normal", "ret"}
     /\ W(a + 1) \in patched \/ W(a + 2) \in patched

MarkPatched ==
  /\ phase = "patches" /\ InPass
  /\ funcs' = IF CannotRecompile(addr)
              THEN [funcs EXCEPT ![k].self_mod = TRUE] ELSE funcs
  /\ NextInsn
  /\ UNCHANGED <<rom, span, seeds, d, ext, patched, fs>>

-----------------------------------------------------------------------------
Descent == \/ PushSeed   \/ SeedsDone  \/ PopWork  \/ ScanNormal  \/ ScanCall
           \/ ScanBranch \/ ScanJump   \/ ScanStop \/ ScanRunsOff \/ WorkDone

Passes == BlockDone \/ SplitHere \/ SplitSkip \/ ScanStore \/ MarkPatched

Next == Descent \/ Passes

Spec     == Init /\ [][Next]_vars
FairSpec == Spec /\ WF_vars(Next)
-----------------------------------------------------------------------------
(* Properties. *)

Block == [start : Word, end : Word, reaches_ret : BOOLEAN,
          fallthrough : BOOLEAN, self_mod : BOOLEAN]

Phases == {"seed", "work", "scan", "split", "stores", "patches", "analyzed"}

(* Every variable keeps the type its C declaration gives it. *)
TypeOK ==
  /\ rom \in Roms
  /\ span \in Spans
  /\ seeds \in Seq(Word)
  /\ phase \in Phases
  /\ d \in [work : Seq(Word), seen : SUBSET Word]
  /\ funcs \in Seq(Block)
  /\ ext \in SUBSET Word
  /\ patched \in SUBSET Word
  /\ fs \in Word
  /\ k \in Nat \ {0}
  /\ addr \in Word

Discovering == phase \in {"seed", "work", "scan"}
Starts      == {funcs[i].start : i \in 1..Len(funcs)}
InHand      == IF phase = "scan" THEN {fs} ELSE {}

(* The fixed arrays of disc_t and func_table_t are never overrun, although  *)
(* discover_one writes its slot funcs[nfuncs] long after it checked it.     *)
TableBounds ==
  /\ Len(d.work) <= MaxFuncs
  /\ Len(funcs) <= MaxFuncs
  /\ phase = "scan" => Len(funcs) < MaxFuncs

(* No address gets two blocks: func_table_find and the emitter's            *)
(* vic_register_func rely on starts being unique.  A leader is pushed by    *)
(* many predecessors, while it waits, is scanned, or has its block.         *)
NoDuplicateBlock ==
  \A i, j \in 1..Len(funcs) : funcs[i].start = funcs[j].start => i = j

(* Each entry of dd.work is there once and not among the addresses T already *)
(* taken off it, and all of them are marked seen.                            *)
Placed(dd, T) ==
  /\ \A i, j \in 1..Len(dd.work) : dd.work[i] = dd.work[j] => i = j
  /\ \A i \in 1..Len(dd.work) : dd.work[i] \in dd.seen \ T
  /\ T \subseteq dd.seen

(* What makes it so: a leader is waiting, being scanned, or has its block,  *)
(* never two of these, and is marked as seen in each.                       *)
OnePlace ==
  /\ Placed(d, Starts \cup InHand)
  /\ InHand \cap Starts = {}

(* Each address marked seen is waiting in dd.work or among the addresses T.  *)
Accounted(dd, T) ==
  \A a \in dd.seen : a \in T \/ \E i \in 1..Len(dd.work) : dd.work[i] = a

(* seen is marked when a leader is pushed, not when its block is there: no  *)
(* leader is lost between the two unless the table is full.                 *)
SeenGetsABlock == Accounted(d, Starts \cup InHand) \/ Len(funcs) = MaxFuncs

(* Instruction boundaries of the block f, decoding from its start. *)
Boundaries(f) ==
  LET at[a \in f.start..f.end] ==
        \/ a = f.start
        \/ \E b \in (a - 3)..(a - 1) : b >= f.start /\ b + Insn(b).len = a /\ at[b]
  IN  {a \in f.start..(f.end - 1) : at[a]}

(* The blocks whose end did not wrap past $FFFF: the passes walk only these. *)
Unwrapped == {i \in 1..Len(funcs) : funcs[i].start <= funcs[i].end}

Covered == UNION {Boundaries(funcs[i]) : i \in Unwrapped}

(* The last instruction of block f, and where f hands control over to. *)
LastInsn(f) == {a \in Boundaries(f) : Next16(a) = f.end}

Exits(f) ==
  IF f.fallthrough THEN {} ELSE UNION {Transfers(a) : a \in LastInsn(f)}

(* Every transfer that a block ends in, including the address a call returns *)
(* to, finds a block at its target if that is in the image ("every inter-    *)
(* block edge can be dispatched", analyze.c) unless the table is full.       *)
ExitsHaveBlocks ==
  ~Discovering =>
    \/ Len(funcs) = MaxFuncs
    \/ \A i \in Unwrapped : \A t \in Exits(funcs[i]) : in_image(t) => t \in Starts

(* After the split no leader is left at an instruction boundary inside a     *)
(* block, and a cut block falls through to a leader: a leader pushed after   *)
(* the block around it was made is found too.                                *)
SplitComplete ==
  phase \in {"stores", "patches", "analyzed"} =>
    \A i \in Unwrapped :
      /\ Boundaries(funcs[i]) \cap d.seen \subseteq {funcs[i].start}
      /\ funcs[i].fallthrough =>
           \/ funcs[i].end \in d.seen
           \/ ~WithinBlock(funcs[i].start, funcs[i].end)

(* Splitting loses no code: what a cut removes from one block is in the      *)
(* block of the leader it was cut at, or that leader got none as the table   *)
(* is full.                                                                  *)
SplitKeepsCode ==
  [][phase = "split" => \/ Covered' = Covered
                        \/ Len(funcs) = MaxFuncs]_vars

StoreIntoCode(o) ==
  \E i \in 1..Len(funcs), a \in Covered :
     /\ is_store(Insn(a)) /\ Insn(a).mode = "abs" /\ Insn(a).operand = o
     /\ funcs[i].start = o \/ InBlock(o, funcs[i])

(* A block is compiled only if no absolute store in any block patches one of *)
(* its opcodes or the operand of its jump, call or branch, wherever the      *)
(* store is, before or after the block in the table.                         *)
PatchedOpcodesInterpreted ==
  phase = "analyzed" =>
    \A i \in Unwrapped : \A a \in Boundaries(funcs[i]) :
      \/ funcs[i].self_mod
      \/ /\ ~StoreIntoCode(a)
         /\ Insn(a).cflow \notin {"normal", "ret"} =>
              ~StoreIntoCode(W(a + 1)) /\ ~StoreIntoCode(W(a + 2))

(* An external target is outside the followed range and is recorded once:   *)
(* no block is ever made for it, whatever order targets come in.            *)
ExternalsOutside ==
  /\ \A a \in ext : ~in_image(a)
  /\ ext \cap d.seen = {}

(* What is recorded as external are the targets of calls and direct jumps    *)
(* that are not followed, all of them, in whatever order the blocks that     *)
(* name them are found and cut; those of branches, and of a jump to 0, are   *)
(* dropped.  What a full table has no block for is not looked for.           *)
OutsideTargetsRecorded ==
  phase = "analyzed" /\ Len(funcs) < MaxFuncs =>
    ext = {Insn(a).target :
             a \in {b \in UNION {LastInsn(funcs[i]) : i \in Unwrapped} :
                     LET in == Insn(b)
                     IN  /\ ~in_image(in.target)
                         /\ \/ in.cflow = "call"
                            \/ in.cflow = "jmp" /\ in.mode # "ind" /\ in.target # 0}}

(* Discovery and the passes end: every leader is pushed once, every scan    *)
(* ends within the cap, and each pass visits every block once.              *)
Terminates == <>(phase = "analyzed")

(* The leaders found are those the abstract specification allows.           *)
L == INSTANCE Leaders WITH
       roots  <- {seeds[i] : i \in 1..Len(seeds)},
       found  <- d.seen,
       closed <- ~Discovering,
       Room   <- MaxFuncs

FindsLeaders == L!Spec

(* analyze.h: discovery "follows the one pointer an indirect jump reads",    *)
(* which by decode and mem.c is the word whose high byte is in the same page.*)
PointerRead(o) ==
  RomByte(Off(o)) + ByteSize * RomByte(Off((Hi(o) * ByteSize) + Lo(o + 1)))

IndirectTargetsFollowed ==
  phase = "analyzed" =>
    \A i \in Unwrapped : \A a \in LastInsn(funcs[i]) :
      Insn(a).mode = "ind" /\ in_image(PointerRead(Insn(a).operand)) =>
        PointerRead(Insn(a).operand) \in Starts
=============================================================================
