# A TLA+ model of vic20recomp

vic20recomp translates the 6502 code of a VIC-20 cartridge to C ahead of time. This directory models the
translator (`tools/m6502recomp`) and the runtime its output links against (`src/`, `include/`), checks them with TLC
on small programs, and proves with TLAPS what holds for every program. Paths below are relative to the repository root.

## The system

| Part | State | Operations | Hard because | Correct when |
|---|---|---|---|---|
| Opcode table, decoder (`decode.c`) | none | `m6502_decode`, `m6502_mode_len`, `m6502_format` | 16-bit wrap of branch targets | every opcode has its real length and class |
| Function discovery (`analyze.c`) | `disc_t` (work stack, seen set), `func_table_t` (blocks, externals), `analyze_patched` | `analyze_discover` = seed, descend, split at leaders, two self-modification passes | leaders turn up after the block around them; capacity; code at the edge of the image or address space; code that stores into itself | every address control can reach has one block that starts there, no code is lost, patched code is not frozen |
| Linear sweep (`analyze_linear`) | none | one loop over the image | instructions that end with the image or past it, PCs that wrap | it lists what the analyzer follows |
| Emitter (`emit.c`) | the generated C | `emit_functions`, `emit_insn` | operands baked at translation time; a 16-bit loop bound | each compiled block does what its instructions do and hands over to the right address |
| CPU, memory (`cpu.c`, `mem.c`) | `vic_cpu`, `vic_ram` | reset, P packing, reads and writes, default registers | page wrap, the indirect-jump quirk | it is the 6502's (below) |
| Helpers (`recomp_rt.h`) | - | loads, arithmetic, shifts, stack | decimal mode, flags; frames that wrap and interleave | they compute what the 6502 does; a return restores what the entry saved |
| Dispatch, time, interrupts (`recomp_rt.c`) | dispatch table, `g_cycles`, `vic_irq_pending`, `vic_last_ext_addr` | `vic_call_addr`, `vic_tick`, `vic_irq_deliver`, `vic_rti`, hooks | interrupts between any two blocks, addresses without a block | recompiled and interpreted execution together are the 6502 program |
| Command line (`main.c`) | `seeds`, `analyze_code_lo/hi` | `recompbin`, `disbin` | options in any order, three loops into one array, number formats | what is compiled is what the addresses asked for lead to |
| Video readout (`video.c`) | none (reads `vic_ram`) | `vic_describe`, `vic_render_rgba`, `vic_lit_pixels` | sizes, addresses and bit orders come from registers and memory the program writes | the frame fits the host's buffer and is what the chip shows |
| Register names (`a2regs.c`) | none | lookup for comments | - | - |

They interact by calls and shared globals: `main` passes an image and seeds to `analyze_discover`, and the table to
`emit_functions`, which also reads the global `analyze_patched`. The generated C sets `vic_cpu.pc` and returns; a host
(not in the repository) calls `vic_call_addr(vic_cpu.pc)` over and over and `vic_tick` from time to time, which may
deliver an interrupt. For a frame the host calls `vic_render_rgba`. Nothing runs in parallel: the only interleaving is that of ticks and device events with the
blocks. `PROJECT.json` lists each hazard at its line.

## Modules

* `Words`, `Opcodes`, `Decode`: integers of the C code, the opcode table, the decoder. `Decode` takes the table as a
  constant, so proofs hold for every table with the shape stated in its assumptions; the runs use `m6502_optab`.
* `Image`: the image `rom` and the code range `span`, the image-reading helpers of `analyze.c`, and where control goes
  from an instruction.
* `Discover`: `analyze_discover`, one action per loop iteration. `phase` says which loop runs; `d`, `funcs`, `ext` and
  `patched` are the C tables, `fs`, `k` and `addr` the loop cursors. `PushSeed`/`SeedsDone` are the seed loop, `PopWork`
  the work loop and the entry of `discover_one`, `Scan...` one arm each of its `switch`, `SplitHere`/`SplitSkip` the body
  of `split_at_leaders`, `ScanStore` pass 1, `MarkPatched` pass 2, `BlockDone` the end of an inner loop.
* `Leaders`: the abstract specification of discovery. The leaders are exactly the addresses of the image reached from
  the roots by transfers; the order is left open; some may be missing only after `Room` were found. `Discover`
  implements it with `found <- d.seen`.
* `Cpu`: `cpu.c`, `mem.c` and the helpers of `recomp_rt.h` and `recomp_rt.c` as operators on a machine record.
* `Alu`: one call of an arithmetic helper, against integer arithmetic.
* `Lines`: what the C statement emitted for an instruction does (`emit_insn`, `addr_expr`, `rd_expr`, ...).
* `Emit`: `emit_functions` after `Discover`. `code` maps the start of each registered block to its lines and final PC; a
  line keeps the instruction and whether its operand is read at run time (`dyn`).
* `Recomp`: translation (`Emit`) followed by execution (`Lines`) under the host's driver. `at` is where C execution is:
  at the driver, or before a line of a block. `Dispatch`, `Fallback` and `RecordExternal` are the three arms of
  `vic_call_addr`; `RunStatement`, `RunTransfer`, `RunUnimplemented` and `FallThrough` run one line or the end of a block;
  `Tick` and `TickDeliver` are `vic_tick`; `SetPending` is a device.
* `Machine6502`: the abstract specification of `Recomp`: a 6502 that fetches from memory and takes interrupts between
  instructions. In the refinement its PC is that of the next line (`VirtualPC`).
* `Main`: the program of `main.c`. `recompbin` is the option loop followed by `Emit`: `arg` is its `i`, `item` the line of
  a seed file or the entry of a table; one action per option, line and entry (`TakeCode`, `OpenSeeds`, `ReadLine`,
  `CloseSeeds`, `OpenTable`, `ReadEntry`, `CloseTable`, `TakeNumber`), and `OptionsDone` with the default seed. An argument
  is a numeral (prefix and digits), an option or a file, and `strtoul` is modelled by what it does with base 0. `disbin` is
  `analyze_linear`, an action `List` per instruction.
* `Frames`: the stack helpers under a program that calls, is interrupted, saves and restores in any nesting. `held` and
  `frames` are what was pushed and why; no step of the machine looks at them.
* `Video`: the readout, as one call per frame: `BeginFrame` up to the loop, `DrawCell` one cell. Pixels are colour
  indices. Before it the host sets the default registers (`vic_set_default_regs`) and the program writes what it likes.
* `DiscoverProofs`, `BlockProofs`, `LeaderProofs`, `EmitProofs`, `MainProofs` (each extends the one before), `AluProofs`,
  `FramesProofs`, `VideoProofs`: theorems. `MCDiscover`, `MCMain`, `MCEmit`, `MCRecomp`,
  `MCRuntime`: inputs for TLC. `MCRuntime` runs `Alu`, `Frames` and `Video`, which share no state, each in its own behaviours.

Operators named `<definition>_<Bug>` are mutants: plausible bugs in that definition. They are in no specification; each
checked property is violated when the definition is replaced by its mutant.

The host is modelled from the code's comments and `README.md`: it loads the image, boots at the first seed, dispatches,
ticks only between blocks (no emitted code ticks), and has an interpreter behind `vic_dispatch_fallback` (or none). The
interpreter runs one instruction like the emitted code would, as the shared front-end is said to do. `vic_io_hook`
and the other hooks keep their defaults.

## What the runs check

* `discover_control`: all programs of three instructions from NOP, RTS, BRK, BNE, JMP, JMP (ind) and JSR with operands
  at each byte of the image and beyond, from two seed lists. Blocks are unique, no seen leader is lost, each edge
  leads to a block, the split is complete and loses no code; the targets of calls and direct jumps out of the image are
  recorded as external, those and no others (`OutsideTargetsRecorded`). Three instructions suffice for a branch into an earlier,
  a later and its own block, and into the middle of an instruction, so decodings overlap.
* `discover_crowded`: tables of two blocks with a cap of four bytes; both arrays fill up, in either order. No overrun;
  discovery ends, and implements `Leaders`.
* `recompbin`: both commands, on images that end at, before and beyond $FFFF, so that addresses and block ends wrap: all
  programs of four instructions and six bytes, and five images under eighteen argument lists (ranges before and after
  the seeds, seed files, tables that begin before, in and at the end of the image, missing operands, too many seeds).
  What is compiled, or left to the interpreter as self-modifying, is exactly what the addresses asked for lead to within
  the range asked for (`CompilesWhatIsAsked`); every instruction of a compiled block has its line; the seeds fit; the
  listing agrees with the analyzer; the program ends.
* `emit_edges`: control flow and absolute and indexed stores onto the program's own bytes, analysed and emitted. A
  patched opcode or transfer operand leaves its block to the interpreter, whether the store comes before or after it.
  Each C function has one way out, at its end; each edge leads to a compiled block unless that block is patched; the
  emitter ends.
* `recomp_flow`: three-instruction programs that jump, call, push, return to pushed addresses and patch their own
  operands, or read, write and modify their own bytes in the other addressing modes, or have untranslated opcodes and
  leave the image, run with and without an interpreter behind `vic_dispatch_fallback`. Blocks are cut at six bytes, so that
  programs go on behind a cut where nothing is compiled. What runs is the 6502 (`IsThe6502`). Until when is said by `off`: a BRK, JAM or undocumented opcode, or a change
  of a code byte that the translator does not claim to handle. What it claims to handle are the bytes written by
  absolute stores of discovered blocks, the literal operands of `emit_operand` excepted. Both machines compute the effect of
  an instruction with `RunLine`, so this is about which code runs and when, not about what one instruction does: a
  fault of an arithmetic or stack helper would be on both sides, and is looked for by `runtime` instead.
* `recomp_irq`: a main loop and a handler, the interrupt line toggling at any moment, three ticks at any block boundary,
  handlers that unmask, call, push or return early. Ticks come between blocks, so a handler can be interrupted itself
  only if a block ends between its CLI and its RTI: `NestingHandler` has a jump, a branch or a subroutine there, and frames
  lie up to three deep. Still the 6502; C execution always comes back to the driver; and (`StaysCompiled`) calls, their
  returns and returns from interrupts find a block.
* `runtime`: the arithmetic helpers on all 256 x 256 operands, both carries and modes; up to four bytes of frames in every
  nesting, from the PC $FFFD, whose return address carries into the page and wraps to 0, and a stack pointer one byte
  before its wrap; frames of the display: every odd register value described, one to four cells drawn with the built-in
  font, a ROM and a RAM font, high-resolution, multicolour and reversed, both buffers of the screen. The defaults of
  `mem.c` are the display that its comment describes, and a drawn frame shows at each pixel what the chip scans out there
  (`FrameShows`). What that is (`Shown`) is said from memory and registers alone, after `video.h`, with none of the
  operators that draw: an address of the chip is one of 14 lines that see $8000 at 0, a built-in glyph is substituted
  when the character base is in an empty ROM, and codes from 128 are the glyph reversed. Two cases are left out. One is
  `InWindow`: the code adds up addresses of the CPU, which go on past $1FFF or $9FFF where the 14 lines would wrap; the
  documents say nothing about these cells. The other is `ReversedGlyph`, where the code is wrong: see `reverse_bit`.

Each of the other runs looks for one thing that a comment says and the code does not do, and finds it:

| Run | The comment | What happens |
|---|---|---|
| `discover_pointer` | `analyze.h:8-9`, the pointer of an indirect jump is followed | `JMP ($00FF)`: the high byte is taken from $0100, at run time from $0000 |
| `emit_truncated` | `emit.c:303-304`, continue to the next block | a truncated instruction becomes a function that dispatches itself forever |
| `emit_operand` | `emit.c:51-52`, `analyze.c:175-177`, patched operands are read from memory | immediate and zero-page operands are literals |
| `recomp_no_handler` | `recomp_rt.c:58`, then run the $FFFE handler | without a block at the vector, the frame is pushed and nothing runs |
| `reverse_bit` | `video.c:61`, "drop reverse bit; handled by caller" | no caller does: reversed text is drawn plain in the built-in font |

The properties of the passing runs state the same cases as conditions: `ExternalsOutside` and
`OutsideTargetsRecorded` speak only of what is recorded, `SplitComplete` and `EdgesCompiled` of blocks that a cap did not cut, `EachInstructionEmitted` of blocks that do not wrap,
`CompilesWhatIsAsked` of no entry of a table that begins before the image (and of no table one byte before it, of which the
first entry is read and its low byte can be any), `FrameShows` of no reversed built-in glyph, `LitPixelsAreDrawn` of plain
text.

Further differences between comments and code, each within what the model does and outside what the properties claim:

* `emit.c:3-5`, each instruction of a block is lowered: a block that ends at $FFFF has `end` 0, and its C function has no
  line and sets the PC to 0 (`emit.c:282`, 305-306). `EachInstructionEmitted` leaves out exactly such blocks.
* `emit.c:303-304`, a block without a terminator was split or ran to the image edge: a block may also have reached the cap,
  and the code behind it is not seeded (`analyze.c:122-127`). The interpreter runs it, as `recomp_flow` shows.
* `analyze.h:56-58`, targets outside the image are recorded: those of branches and of a jump to 0 are not (`analyze.c:97`, 106).
* `main.c:92-93`, a seed file has hex addresses: it is read with base 0 (`main.c:108`), so without 0x `FFFB` is 0, and 1000
  is decimal.
* `main.c:94-95`, each entry of a table is seeded: a table that begins before the image is given up at its first entry,
  those in the image included (`main.c:117-118`).
* `recomp_rt.h:108-109`, N, V and Z of a decimal addition are of the binary sum: only Z is. What N and V are of is
  `DecimalFlags`.
* `video.h:41`, `vic_lit_pixels` counts pixels that are not background: it counts set bits, also in reversed and
  multicoloured frames. `LitPixelsAreDrawn` leaves these out.
* `recomp_rt.h:68-69`, emitted code ticks: no emitted statement calls `vic_tick`.

Bounds. Programs have three or four instructions, as each property is about at most three places (a leader, the block
around it, the instruction that names it). `MaxFuncs` is 16384 as in C, or 2 to fill it; `BlockCap` is 4096 as in C, 4 or 6
to reach it, or 16, longer than any program of the run (smaller tables make `Successors` cheap). `MaxTicks` bounds
ticks. `ShallowStack` bounds the stack to within seven bytes of its top and three past its wrap: deeper recursion only
repeats what happened. `MaxSeeds` is 1000 as in C, or 3 to fill it. `TopBase` is $FFFA, six bytes from the end. `Depth` 4
holds an interrupt over a saved byte, or two calls. `VIC_BORDER` 2 and `MaxCells` 4 make the frames small: each cell is
drawn like the next, and a border of any width is 16 pixels in C. `CHECK_DEADLOCK` is off as the tool, a frame, an
arithmetic call and a program without interpreter do stop.

Fairness. `analyze_discover`, `emit_functions` and `main` are plain loops of one thread, so weak fairness of `Next`,
`EmitNext` and `MainNext` says only that they are executed. `FairRecompSpec` adds weak fairness of `Run`: the host's
driver loop and the C functions it calls are executed. Nothing is assumed of ticks or devices.

## What is proved

For every image shorter than 64 KiB, base, code range, cap, capacity, list of seeds, and every opcode table of the
assumed shape. The theorems follow the program: each module extends the one before it and adds to its invariant.

`DiscoverProofs`, the tables (`IInv`):

* `TypeCorrect`: `TypeOK`. By cases on the actions; each address is computed by an operator that wraps (`WType`,
  `Next16Type`, `InsnType`).
* `BoundsHold`, `BlocksUnique`, `PlacesDisjoint`, `LeadersKept`: the arrays are not overrun, blocks are unique, a seen
  leader is in exactly one of work stack, scan and table unless the table is full. `NoDuplicateBlock` alone is not
  inductive: that a popped leader has no block yet needs the fact that what waits is not in the table, and keeping this
  across a push needs `seen` to cover all three places. The lemmas about `push_func` (`PushFuncPlaced`,
  `PushFuncAccounted`) carry the argument; the passes keep starts (`PassKeeps`).

`BlockProofs`, what is in a block (`BlockInv`, `PassInv`):

* `NoLeaderInside` (`SplitComplete`), `PatchedCodeInterpreted` (`PatchedOpcodesInterpreted`), `ExternalsStayOutside`.
  `Steps(s)` is the smallest set that has s and the address behind each of its instructions. `Sound` says of a block
  that its end is in it, that its instructions before the end are whole, within the cap and no transfers, but for the
  last one, and that a block without a transfer ends at a leader or where the line ends. The scan keeps it as it walks
  the line of its leader (`ScannedTo`), a cut keeps it as it cuts at a step. `PassInv` adds what each pass has done to
  the blocks and instructions behind its cursor: the split left no leader there, the store pass recorded their stores,
  the last pass marked those that are patched. That the stores are all recorded before the last pass starts is why the
  order of store and block does not matter.
* The recursive functions `Boundaries` and `LineEnd` are shown to have a solution and only one, by the least argument
  at which they would not (natural numbers are well-founded): `BoundariesAre` says that the boundaries are `Steps` below
  the end, `LineEndIs` and `LineEndScanned` that `LineEnd` is where the scan stops.

`LeaderProofs`, what is found (`FollowInv`, `LinesInv`):

* `LeadersFound`: `Discover` implements `Leaders`. A scan marks only successors of its leader (`ScanPushes`), so a step
  finds candidates or stutters (`LeadersStep`); at `WorkDone` every successor of a block is marked, or the places taken
  reached the capacity, and since `seen` has one element per place (`FullTable`) the abstract `Close` is enabled.
* `TransfersHaveBlocks` (`ExitsHaveBlocks`): the last instruction of a block is where the line of its leader ends, so its
  targets are successors of the leader.
* `SplitLosesNothing` (`SplitKeepsCode`), while no block wraps (`NoneWrapped`), and `SplitLosesNothingBelowTop`: so it is
  for images that end below $FFFF, where none does. `LinesInv`: what was on the line of a leader is in its block or in
  one further up. The condition is needed: the passes skip a block that wrapped and it has no boundaries. If a cap
  cuts a block just before the top, and its tail is cut off at a leader whose own line wraps, that code is in no block.

`EmitProofs`, the C text (`EmitInv`): `FunctionsHaveOneWayOut`, `EdgesStayCompiled`. `Chain` says that the lines of a
function are the instructions of its block, each behind the one before; with `Sound` only the last can transfer.

`MainProofs`, for every command line in addition:

* `SeedsNeverOverrun`: the seeds fit the array. Each of the three loops checks the room before it adds one; the default
  seed is added to none. That the cursors stay inside the arguments (`CursorOK`) is needed for the numbers read
  through them to be words.
* `ToolKeepsTables`, `ToolKeepsProgram`, `InstructionsEmitted` (`EachInstructionEmitted`): what is proved of analyzer and
  emitter holds of the whole program. The option loop changes only the arguments of the analyzer (`OptionsKeep`), and
  nothing is analyzed before it ends (`ProgramInv`).
* `CompilesAsAsked` (`CompilesWhatIsAsked`), from `AskInv`. `Gathered`: at each turn of the option loop the range is that
  of the last `--code` before `arg`, and the seeds are those asked for by the items before it and by the lines or entries
  before `item` of the one at it. Where items start is again a smallest set (`Positions`, `ItemsAre`), and items do not
  overlap (`PositionsApart`). `OnlyReached`: any set that has the seeds and the successors of its members has what was
  marked. `Reached` is the smallest such set (`ReachedIs`): it grows by an address in each round until it is closed,
  and the image has only so many (`ImageSize`).
* `ListingShowsTheLine` (`SweepShowsTheLine`), from `SweepInv`: the sweep is at a step from the base, and has listed those
  before it.

`AluProofs`, for all operands, carries and modes: `AddsInBinary`, `Subtracts`, `CountsInDecimal`, `FlagsInDecimal`,
`ComparesAndRotates`
(`AluInv`: the call was made with these operands and returned what the operator computes).

`FramesProofs`, for every depth up to 256 bytes, stack pointer, set of PCs and values:

* `StackKept` (`StackHolds`) and `FramesReturn` (`ReturnsRestore`), from `FInv`: types, `Holds` (page one holds `held`)
  and `Nested`. `StackHolds` alone does not say what the bytes on top are: `Nested` says that the frames lie one after
  the other in `held` and the newest ends where it ends, so a return reads its own frame. A push writes one cell, and
  cells less than 256 apart are different (`CellsApart`); the sums of JSR, RTS and RTI are those of `WordStep`; P survives
  with the B flag set or clear (`PackUnpack`).

`VideoProofs`, for every memory content, font and border:

* `FrameFits` (`InsideBuffer`): `BInv` adds the range of columns and rows; `RowMajor`, `CellPlace` and `PixelInside` say
  that a pixel of a cell is one of the frame. `DefaultFrame` (`DefaultDisplay`).
* `FrameDrawn` (`FrameShows`), in two steps. `DrawInv`: the cells before the cursor are drawn (`Drawn`, in the terms of the
  readout), and a cell drawn later touches none of their pixels (`AllDrawn`). Then what is drawn is what the chip shows
  (`CellRight`): inside the window sums of CPU addresses are addresses of the chip (`Window`), so the readout finds codes,
  colours and glyphs where the chip does (`CodeRead`, `GlyphRead`), and it uses the font in the same cases (`FontUsed`).
* `LitPixelsCount` (`LitPixelsAreDrawn`): a bijection from the foreground pixels to the set bits of the glyphs.

Assumptions: `ImageAssumption`, `MaxFuncsAssumption`, `InputsAssumption`, `OptabType`, `OptabShape`, `MainAssumption`,
`AluAssumption`, `FramesAssumption`, `VideoAssumption`, evaluated by TLC in the runs, with the real opcode table.

Only model-checked: the properties of `Recomp` (`IsThe6502`, `StaysCompiled`, `ReturnsToDriver`), and the liveness
properties (`Terminates`, `Emits`, `Finishes`), which are out of reach of the prover (no ENABLED, no liveness).

## Not modelled

* `m6502_format`, the wording of the generated files, `emit_skeleton`, usage errors, and image or output files that cannot
  be opened: text, or the end of the program before anything happens.
* Lines of 64 and more characters in a seed file, which `fgets` splits.
* `vic_io_hook` (NULL by default; what it answers is up to the host; the readout goes round it) and the ext hooks: no
  emitted code calls `vic_ext_call`, `vic_ext_jmp` or `vic_jmp_indirect`. `vic_pop_ret` has no caller.
* `vic_palette` and the shapes in `VIC_FONT`: data. 8 by 16 characters (bit 0 of $9003), which `video.c` ignores.
* Register names (`a2regs.c`): a table for comments in the generated code.
* Images of the full 64 KiB: `img_rd16` would read the byte behind the image at $FFFF, whose value the code does not decide.

## Plan

1. Done: decoder, discovery with its abstract specification, emission, the machine, their composition.
2. Done: the command line composed with all of it, the linear sweep, the stack discipline, the video readout; programs of
   all addressing modes in `recomp_flow`.
3. Done: each safety property of the tool chain from the first argument to the last emitted line, the refinement of
   `Leaders`, the arithmetic and the readout are proved.
4. Proofs about `Recomp`: step by step that execution is the 6502 (`IsThe6502`), that no call or return leaves the
   compiled code (`StaysCompiled`).
5. Images of the full 64 KiB, with the byte behind them as a constant.
