-------------------------------- MODULE Main --------------------------------
(***************************************************************************)
(* The command line of tools/m6502recomp/main.c: recompbin collects seeds  *)
(* and the address range from its arguments, then analyses and emits       *)
(* (module Emit); disbin lists the image from its first byte.              *)
(*                                                                         *)
(* args are the arguments behind the base address and the output           *)
(* directory.  One is a numeral, an option name or a file, by its content. *)
(***************************************************************************)
EXTENDS Emit

CONSTANTS
  MaxSeeds,   \* 1000: the option loops stop there; seeds[] holds 1024
  Commands    \* the [cmd, rom, args] the program is started with

VARIABLES
  args, arg,  \* argv and i
  item,       \* the line of the seed file, or the table entry e, that is next
  off,        \* disbin: offset of the next instruction
  listing     \* disbin: the instructions printed

optVars  == <<args, arg, item>>
listVars == <<off, listing>>
mainVars == <<allVars, optVars, listVars>>

-----------------------------------------------------------------------------
(* Arguments. *)

IsNumeral(t) == t.kind = "numeral"

(* How many digits strtoul reads: those up to the first that is none.       *)
ValidDigits(ds, radix) ==
  CHOOSE n \in 0..Len(ds) :
    /\ \A i \in 1..n : ds[i] < radix
    /\ n < Len(ds) => ds[n + 1] >= radix

DigitValue(ds, radix) ==
  LET val[n \in 0..Len(ds)] == IF n = 0 THEN 0 ELSE radix * val[n - 1] + ds[n]
  IN  val[ValidDigits(ds, radix)]

(* Base 0 of strtoul: the prefix 0x or a leading 0 decides.                 *)
Radix(t) ==
  IF t.prefix = "0x" THEN 16
  ELSE IF t.digits # <<>> /\ t.digits[1] = 0 THEN 8
  ELSE 10

(* strtoul(s, NULL, 0) and strtol: anything else, $ included, reads as 0.   *)
strtoul(t) ==
  IF ~IsNumeral(t) \/ t.prefix = "$" THEN 0
  ELSE IF t.prefix = "-" THEN 0 - DigitValue(t.digits, Radix(t))
  ELSE DigitValue(t.digits, Radix(t))

Number(t) == W(strtoul(t))

(* A line of a seed file counts if it begins with $, a digit or A to F.     *)
SeedLine(t) ==
  /\ IsNumeral(t)
  /\ \/ t.prefix \in {"0x", "$"}
     \/ t.prefix = "" /\ t.digits # <<>> /\ (t.digits[1] < 10 \/ t.upper)

LineNumber(t) == Number(IF t.prefix = "$" THEN [t EXCEPT !.prefix = ""] ELSE t)

(* The arguments as are texts that C can read numbers from. *)
Readable(as) ==
  /\ Len(as) \in Nat
  /\ \A i \in 1..Len(as) :
       /\ strtoul(as[i]) \in Int
       /\ as[i].kind = "file" =>
            /\ Len(as[i].lines) \in Nat
            /\ \A j \in 1..Len(as[i].lines) :
                 SeedLine(as[i].lines[j]) => LineNumber(as[i].lines[j]) \in Word

ASSUME MainAssumption ==
  /\ MaxSeeds \in Nat \ {0}
  /\ \A c \in Commands :
       /\ c.rom \in Seq(Byte) /\ Len(c.rom) < WordSize
       /\ Readable(c.args)

-----------------------------------------------------------------------------
(* recompbin: the option loop. *)

MainInit ==
  /\ \E c \in Commands :
       /\ rom = c.rom /\ args = c.args
       /\ stage = IF c.cmd = "disbin" THEN "sweep" ELSE "options"
  /\ span = Everything
  /\ seeds = <<>>
  /\ arg = 1 /\ item = 0
  /\ off = 0 /\ listing = <<>>
  /\ Begin /\ EmitBegin

Room     == Len(seeds) < MaxSeeds
AtArg    == stage = "options" /\ arg <= Len(args) /\ Room

(* args[arg] is the option name with its n operands. *)
Option(name, n) == args[arg] = [kind |-> "option", name |-> name] /\ arg + n <= Len(args)

AnalysisWaits == UNCHANGED <<rom, phase, d, funcs, ext, patched, fs, k, addr, code, lines>>

(* Mutant: an argument is skipped. *)
SkipTo_OneFurther(a) == arg' = a + 1 /\ stage' = "options" /\ item' = 0

SkipTo(a) == arg' = a /\ stage' = "options" /\ item' = 0

Collect(a) == seeds' = Append(seeds, a)

TakeCode ==
  /\ AtArg /\ Option("--code", 2)
  /\ span' = [lo |-> Number(args[arg + 1]), hi |-> Number(args[arg + 2])]
  /\ SkipTo(arg + 3)
  /\ UNCHANGED <<seeds, args>> /\ AnalysisWaits /\ UNCHANGED listVars

(* A file that cannot be opened is passed over. *)
OpenSeeds ==
  /\ AtArg /\ Option("--seeds", 1)
  /\ IF args[arg + 1].kind = "file"
     THEN stage' = "file" /\ item' = 1 /\ arg' = arg
     ELSE SkipTo(arg + 2)
  /\ UNCHANGED <<seeds, span, args>> /\ AnalysisWaits /\ UNCHANGED listVars

FileLines == args[arg + 1].lines

(* Mutant: the loop over the lines does not look at the room left. *)
ReadLine_NoLimit ==
  /\ stage = "file" /\ item <= Len(FileLines)
  /\ IF SeedLine(FileLines[item]) THEN Collect(LineNumber(FileLines[item])) ELSE UNCHANGED seeds
  /\ item' = item + 1
  /\ UNCHANGED <<stage, span, args, arg>> /\ AnalysisWaits /\ UNCHANGED listVars

ReadLine ==
  /\ stage = "file" /\ Room /\ item <= Len(FileLines)
  /\ IF SeedLine(FileLines[item]) THEN Collect(LineNumber(FileLines[item])) ELSE UNCHANGED seeds
  /\ item' = item + 1
  /\ UNCHANGED <<stage, span, args, arg>> /\ AnalysisWaits /\ UNCHANGED listVars

CloseSeeds ==
  /\ stage = "file" /\ ~(Room /\ item <= Len(FileLines))
  /\ SkipTo(arg + 2)
  /\ UNCHANGED <<seeds, span, args>> /\ AnalysisWaits /\ UNCHANGED listVars

OpenTable ==
  /\ AtArg /\ Option("--table", 3)
  /\ stage' = "table" /\ item' = 0
  /\ UNCHANGED <<seeds, span, args, arg>> /\ AnalysisWaits /\ UNCHANGED listVars

(* The offset of entry e of the table at t.  It is a size_t in C: all that  *)
(* are negative fail the check off + 1 < size but -1, for which off + 1 is 0.*)
EntryOffset(t, e) == Number(t) - Base + 2 * e
EntryThere(o)     == o >= -1 /\ o + 1 < Len(rom)

(* The word there plus adj; the byte before the image can be any.           *)
EntryWords(o, adj) ==
  {W(low + ByteSize * RomByte(o + 1) + adj) : low \in IF o = -1 THEN Byte ELSE {RomByte(o)}}

InRom(v) == v >= Base /\ Off(v) < Len(rom)

AtEntry ==
  /\ item < strtoul(args[arg + 2])
  /\ Room
  /\ EntryThere(EntryOffset(args[arg + 1], item))

ReadEntry ==
  /\ stage = "table" /\ AtEntry
  /\ \E v \in EntryWords(EntryOffset(args[arg + 1], item), strtoul(args[arg + 3])) :
       IF InRom(v) THEN Collect(v) ELSE UNCHANGED seeds
  /\ item' = item + 1
  /\ UNCHANGED <<stage, span, args, arg>> /\ AnalysisWaits /\ UNCHANGED listVars

CloseTable ==
  /\ stage = "table" /\ ~AtEntry
  /\ SkipTo(arg + 4)
  /\ UNCHANGED <<seeds, span, args>> /\ AnalysisWaits /\ UNCHANGED listVars

(* Anything else is taken for an address, an incomplete option too.         *)
TakeNumber ==
  /\ AtArg
  /\ ~Option("--code", 2) /\ ~Option("--seeds", 1) /\ ~Option("--table", 3)
  /\ Collect(Number(args[arg]))
  /\ SkipTo(arg + 1)
  /\ UNCHANGED <<span, args>> /\ AnalysisWaits /\ UNCHANGED listVars

OptionsDone ==
  /\ stage = "options" /\ ~AtArg
  /\ seeds' = IF seeds = <<>> THEN <<Base>> ELSE seeds
  /\ stage' = "analyze"
  /\ UNCHANGED <<span, optVars>> /\ AnalysisWaits /\ UNCHANGED listVars

Options == \/ TakeCode  \/ OpenSeeds \/ ReadLine   \/ CloseSeeds  \/ OpenTable
           \/ ReadEntry \/ CloseTable \/ TakeNumber \/ OptionsDone

-----------------------------------------------------------------------------
(* disbin: analyze_linear from the first byte. *)

ListedInsn == decode(RomByte(off), RomByte(off + 1), RomByte(off + 2), W(Base + off))

(* The count is 64 if it is missing, 0 is no limit, and a negative one is   *)
(* large as a size_t.                                                       *)
Count == IF args = <<>> THEN 64 ELSE strtoul(args[1])

(* Mutant: an instruction that ends with the image is taken for truncated. *)
MoreToList_OneShort ==
  /\ off < Len(rom)
  /\ Count <= 0 \/ Len(listing) < Count
  /\ ListedInsn.len < Len(rom) - off

MoreToList ==
  /\ off < Len(rom)
  /\ Count <= 0 \/ Len(listing) < Count
  /\ ListedInsn.len <= Len(rom) - off

List ==
  /\ stage = "sweep" /\ MoreToList
  /\ listing' = Append(listing, ListedInsn)
  /\ off' = off + ListedInsn.len
  /\ UNCHANGED <<allVars, optVars>>

ListDone ==
  /\ stage = "sweep" /\ ~MoreToList
  /\ stage' = "listed"
  /\ UNCHANGED <<vars, code, lines, optVars, listVars>>

-----------------------------------------------------------------------------
Translate == EmitNext /\ UNCHANGED <<optVars, listVars>>

MainNext == Options \/ List \/ ListDone \/ Translate

MainSpec == MainInit /\ [][MainNext]_mainVars

(* The program is one thread that runs to its end. *)
FairMainSpec == MainSpec /\ WF_mainVars(MainNext)
-----------------------------------------------------------------------------
(* Properties. *)

(* How many arguments the item at p takes, and at which ones items start.   *)
Width(p) ==
  LET Is(name, n) == args[p] = [kind |-> "option", name |-> name] /\ p + n <= Len(args)
  IN  CASE Is("--code", 2) -> 3 [] Is("--seeds", 1) -> 2 [] Is("--table", 3) -> 4 [] OTHER -> 1

Items ==
  LET at[p \in 1..Len(args)] ==
        p = 1 \/ \E q \in 1..(p - 1) : p - q <= 4 /\ at[q] /\ q + Width(q) = p
  IN  {p \in 1..Len(args) : at[p]}

CodeItems == {p \in Items : Width(p) = 3}

(* The range asked for is that of the last --code, wherever it stands.      *)
AskedSpan ==
  IF CodeItems = {} THEN Everything
  ELSE LET p == CHOOSE q \in CodeItems : \A r \in CodeItems : r <= q
       IN  [lo |-> Number(args[p + 1]), hi |-> Number(args[p + 2])]

(* The addresses an item asks for: of a table that begins before the image, *)
(* none, even if it reaches into it.                                        *)
AskedAt(p) ==
  CASE Width(p) = 3 -> {}
    [] Width(p) = 2 ->
         IF args[p + 1].kind # "file" THEN {}
         ELSE {LineNumber(l) : l \in {args[p + 1].lines[j] : j \in
                 {i \in 1..Len(args[p + 1].lines) : SeedLine(args[p + 1].lines[i])}}}
    [] Width(p) = 4 /\ EntryOffset(args[p + 1], 0) < 0 -> {}
    [] Width(p) = 4 /\ EntryOffset(args[p + 1], 0) >= 0 ->
         {v \in UNION {EntryWords(o, strtoul(args[p + 3])) : o \in
              {EntryOffset(args[p + 1], e) : e \in 0..(strtoul(args[p + 2]) - 1)}
                \cap 0..(Len(rom) - 2)} : InRom(v)}
    [] OTHER -> {Number(args[p])}

AskedItems == {p \in Items : Width(p) # 3 /\ AskedAt(p) # {}}

Asked == IF AskedItems = {} THEN {Base} ELSE UNION {AskedAt(p) : p \in AskedItems}

(* Everything the addresses A lead to.                                      *)
Reached(A) ==
  LET to[n \in 0..Len(rom)] ==
        IF n = 0 THEN {a \in A : in_image(a)}
        ELSE to[n - 1] \cup UNION {Successors(l) : l \in to[n - 1]}
  IN  to[Len(rom)]

(* A table that begins one byte before the image. *)
ReadsBefore == \E p \in Items : Width(p) = 4 /\ EntryOffset(args[p + 1], 0) = -1

(* recompbin compiles, or leaves to the interpreter as self-modifying, the  *)
(* blocks that the addresses asked for lead to within the range asked for,  *)
(* and no others, in whatever order the arguments come, while there is room *)
(* for the seeds and the blocks.                                            *)
CompilesWhatIsAsked ==
  stage = "emitted" =>
    \/ Len(seeds) = MaxSeeds \/ Len(funcs) = MaxFuncs \/ ReadsBefore
    \/ /\ span = AskedSpan
       /\ DOMAIN code \cup {funcs[i].start : i \in {j \in 1..Len(funcs) : funcs[j].self_mod}}
            = Reached(Asked)

(* The seeds fit: three nested loops fill one array.                        *)
SeedsFit == Len(seeds) <= MaxSeeds

(* Each instruction of a compiled block has its line, in order and once,    *)
(* unless the end of the block wrapped.                                     *)
EachInstructionEmitted ==
  stage = "emitted" =>
    \A i \in Unwrapped : funcs[i].start \in DOMAIN code =>
      LET ls == code[funcs[i].start].lines
      IN  /\ {ls[j].in.pc : j \in 1..Len(ls)} = Boundaries(funcs[i])
          /\ \A j \in 2..Len(ls) : ls[j - 1].in.pc < ls[j].in.pc

(* The listing and the analyzer agree on where the code from Base on is: up *)
(* to its first transfer, its cap or its end, nothing is left out.          *)
SweepShowsTheLine ==
  stage = "listed" /\ Count <= 0 =>
    LET shown == {listing[j].pc : j \in 1..Len(listing)}
        e     == LineEnd(Base)
    IN  Base <= e =>
          /\ Boundaries([start |-> Base, end |-> e]) \subseteq shown
          /\ WithinBlock(Base, e) => e \in shown

(* The program ends.                                                        *)
Finishes == <>(stage \in {"emitted", "listed"})
=============================================================================
