------------------------------- MODULE MCMain -------------------------------
(* Command lines and images at the top of the address space. *)
EXTENDS Main, Opcodes, SequencesExt

TopBase  == 65530
NoInputs == {}

-----------------------------------------------------------------------------
(* Arguments. *)

Text(prefix, digits) ==
  [kind |-> "numeral", prefix |-> prefix, digits |-> digits, upper |-> TRUE]

Digit(n, i) == (n \div 16^i) % 16

HexDigits(n) == IF n < 16 THEN <<n>> ELSE [i \in 1..4 |-> Digit(n, 4 - i)]

Hex(n)  == Text("0x", HexDigits(n))
Bare(n) == Text("", HexDigits(n))
Opt(name)    == [kind |-> "option", name |-> name]
File(ls)     == [kind |-> "file", lines |-> ls]
Unreadable   == [kind |-> "option", name |-> "missing.txt"]

(* Number below 10, as it is written in decimal. *)
Small(n) == IF n < 0 THEN Text("-", <<0 - n>>) ELSE Text("", <<n>>)

At(n) == Hex(TopBase + n)

Code(lo, hi)       == <<Opt("--code"), At(lo), At(hi)>>
Seeds(ls)          == <<Opt("--seeds"), File(ls)>>
Table(t, cnt, adj) == <<Opt("--table"), At(t), Small(cnt), Small(adj)>>

(* 65532 in decimal, 0177772 in octal, a comment and a lower-case line.     *)
Lines == <<[kind |-> "comment"], Text("$", <<6, 5, 5, 3, 2>>),
           [Bare(TopBase) EXCEPT !.upper = FALSE], Text("", <<0, 1, 7, 7, 7, 7, 2>>)>>

ArgLines ==
  {<<>>, <<At(0)>>, <<At(1), Small(9)>>, <<At(0), Opt("--code"), At(2)>>,
   <<At(3)>> \o Code(0, 3), Code(2, 4) \o <<At(2), At(0)>>,
   Code(0, 1) \o Code(2, 5) \o <<At(0), At(4)>>,
   Seeds(Lines), <<At(4), Opt("--seeds"), Unreadable, At(1)>>,
   Seeds(<<At(0), At(1), At(2), At(3)>>) \o Code(0, 1),
   <<At(0)>> \o Seeds(<<At(2)>>) \o <<Opt("--seeds")>>,
   Table(0, 2, 0), Table(2, 4, 1) \o <<At(3)>>, Table(1, 1, 0 - 1),
   Table(0 - 2, 3, 0), Table(0 - 1, 1, 0),
   <<At(0), At(0), At(1), At(2), At(3)>>, <<Opt("--table"), At(0), Small(2)>>}

Counts == {<<>>, <<Small(0)>>, <<Small(2)>>, <<Small(0 - 1)>>}

-----------------------------------------------------------------------------
(* Images: all short programs of a palette, and words that point back.      *)

Programs(palette, n) == {FlattenSeq(p) : p \in [1..n -> palette]}

NOP      == {<<234>>}
Ends     == {<<96>>, <<0>>}                                       \* RTS, BRK
Branches == {<<208, b>> : b \in {0, 1, 3, 254}}                   \* BNE
Jumps    == {<<76, t, 255>> : t \in {250, 253, 255}}              \* JMP
Calls    == {<<32, t, 255>> : t \in {252, 254}}                   \* JSR
Stores   == {<<141, t, 255>> : t \in {250, 253}}                  \* STA

TopImages ==
  {r \in Programs(NOP \cup Ends \cup Branches \cup Jumps \cup Calls \cup Stores, 4) : Len(r) = 6}

(* Code with a table in it, an instruction cut short by the end of the      *)
(* image, and an image that goes on past the top of the address space.      *)
Words2 == <<252, 255, 251, 255>>
ArgImages ==
  {<<96, 234>> \o Words2, <<208, 2>> \o Words2, Words2 \o <<76>>, <<234, 234, 96, 208, 251>>,
   <<234, 208, 1, 96, 96, 234, 234, 96>>}

TopCommands ==
  {[cmd |-> "recompbin", rom |-> r, args |-> <<At(0), At(2)>>] : r \in TopImages}
  \cup {[cmd |-> "recompbin", rom |-> r, args |-> a] : r \in ArgImages, a \in ArgLines}
  \cup {[cmd |-> "disbin", rom |-> r, args |-> c] : r \in TopImages \cup ArgImages, c \in Counts}
=============================================================================
