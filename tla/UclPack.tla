-------------------------------- MODULE UclPack -------------------------------
(***************************************************************************)
(* What is done with the codes of Nrv: a caller of the library compresses a *)
(* text and decompresses it with one of its decompressors, or uclpack       *)
(* (ucl-1.02/examples/uclpack.c) packs a file block by block and unpacks    *)
(* it.  Between the two the data may be damaged.                            *)
(***************************************************************************)
EXTENDS Nrv, FiniteSets

CONSTANTS
  Bytes,        \* literals
  Lens, Offs,   \* of matches
  LongTexts,    \* longest matches a text may begin with
  MaxOps,       \* literals and matches of other texts and of blocks
  MaxBlocks,
  BlockSizes, MinBlock, MaxBlock,  \* 1024 and 8 MB in the code
  Overhead,     \* the constant part of get_overhead, 256 in the code
  Tails,        \* literals at the end of a block that begins with a match
  Damages,      \* values a damaged byte may take
  Pads          \* what may lie in memory behind the data

ASSUME UclAssumption ==
  /\ Bytes \subseteq 0 .. 255 /\ Pads \subseteq 0 .. 255
  /\ Lens \subseteq Nat /\ Offs \subseteq Nat /\ LongTexts \subseteq Nat
  /\ Tails \subseteq Nat /\ Overhead \in Nat

VARIABLES
  tool,     \* "lib" or "pack"
  opt,      \* method, width, mode, block size; -F when packing and unpacking
  pc,
  ops,      \* literals and matches coded so far, of this block
  enc,      \* the compressor
  text,     \* what was packed, byte by byte
  packed,   \* what was stored
  solid,    \* places in it that nothing but a check looks at, or a copy
  damaged,  \* "cut", or at a place that is "solid" or "coded"; or "no"
  pos,      \* bytes read of it
  sum,      \* checksum so far
  dec,      \* the decompressor
  out,      \* what uclpack has written when unpacking
  status    \* its exit status

uclVars == <<tool, opt, pc, ops, enc, text, packed, solid, damaged, pos, sum, dec, out, status>>

Idle == NewDecoder("2b", 8, "safe", <<>>, 0, 0, 0)

\* Overlapping copies repeat what they have just written.
Expand(s) ==
  FoldLeft(LAMBDA t, o :
             IF o.op = "lit" THEN Append(t, o.byte)
             ELSE t \o [i \in 1 .. o.len |-> t[Len(t) - o.off + 1 + ((i - 1) % o.off)]],
           <<>>, s)

\* The sums s1 and s2; the checksum is s2 * 65536 + s1, and 1 for no data.
NoSum == <<1, 0>>
\* Slip: every block starts anew.
ucl_adler32_Restart(adler, buf) ==
  FoldLeft(LAMBDA p, c : <<(p[1] + c) % 65521, (p[2] + p[1] + c) % 65521>>, NoSum, buf)
ucl_adler32(adler, buf) ==
  FoldLeft(LAMBDA p, c : <<(p[1] + c) % 65521, (p[2] + p[1] + c) % 65521>>, adler, buf)
SumWord(s) == <<s[2] \div 256, s[2] % 256, s[1] \div 256, s[1] % 256>>

Word(v) == <<v \div 16777216, (v \div 65536) % 256, (v \div 256) % 256, v % 256>>
Magic == <<0, 233, 85, 67, 76, 255, 1, 26>>
MethodByte(m) == CASE m = "2b" -> 43 [] m = "2d" -> 45 [] m = "2e" -> 46
Level == 7

\* Steps 1 and 2 of do_compress.
Header(method, flags, size) ==
  Magic \o Word(flags) \o <<MethodByte(method), Level>> \o Word(size)

\* So that far offsets occur.
Starts == {<<>>} \cup {<<Lit(1)>> \o [i \in 1 .. n |-> Copy(2048, 1)] : n \in LongTexts}
\* So that what is left of a block grows while it is unpacked.
Block(n) == <<Lit(1), Copy(24, 1)>> \o [i \in 1 .. n |-> Lit(1)]
UclInit ==
  /\ \/ /\ tool = "lib"
        /\ opt \in [method : Methods, width : Widths, mode : Modes, packfast : {FALSE}, fast : {FALSE},
                   size : {0}]
        /\ packed = <<>> /\ ops \in Starts
     \/ /\ tool = "pack"
        /\ opt \in [method : Methods, width : {8}, mode : {"safe"}, packfast : BOOLEAN, fast : BOOLEAN,
                   size : BlockSizes]
        /\ packed = Header(opt.method, Flag(~opt.packfast), opt.size)
        /\ ops \in {<<>>} \cup {b \in {Block(n) : n \in Tails} : TextLen(b) < opt.size}
  /\ pc = "code"
  /\ enc = FoldLeft(LAMBDA e, o : Code(opt.method, e, o), NewEncoder(opt.width), ops)
  /\ text = <<>> /\ solid = (IF tool = "pack" THEN 1 .. 8 ELSE {}) /\ damaged = "no"
  /\ pos = 0 /\ sum = NoSum /\ dec = Idle /\ out = <<>> /\ status = -1

------------------------------------------------------------------------------
(* Compression *)

Room == IF tool = "pack" THEN opt.size ELSE 100000
Offered(n) ==
  {Lit(c) : c \in Bytes} \cup
  {Copy(len, off) : len \in Lens, off \in {o \in Offs : o <= n}}

\* Every block but the last is full.
MoreBlocks == tool = "pack" => Len(text) < MaxBlocks * opt.size /\ Len(text) % opt.size = 0
CodeOp ==
  /\ pc = "code" /\ MoreBlocks
  /\ \E s \in Starts : IsPrefix(s, ops) /\ Len(ops) < Len(s) + (IF s = <<>> THEN MaxOps ELSE 1)
  /\ \E o \in Offered(TextLen(ops)) :
       /\ o.op = "copy" => MayCode(opt.method, o.len, o.off, TextLen(ops))
       /\ TextLen(ops) + o.len <= Room
       /\ ops' = Append(ops, o) /\ enc' = Code(opt.method, enc, o)
  /\ UNCHANGED <<tool, opt, pc, text, packed, solid, damaged, pos, sum, dec, out, status>>

\* The library: the stream is complete.
CodeEnd ==
  /\ tool = "lib" /\ pc = "code"
  /\ enc' = code_end(opt.method, enc) /\ packed' = enc'.out /\ pc' = "stored"
  /\ UNCHANGED <<tool, opt, ops, text, solid, damaged, pos, sum, dec, out, status>>

\* Slip: nothing for the literals.
get_overhead_Flat(size) == Overhead
get_overhead(size) == size \div 8 + Overhead

\* The two sizes and the block, coded only if that is shorter.
Stored(z, t) ==
  IF Len(z) < Len(t) THEN Word(Len(t)) \o Word(Len(z)) \o z
  ELSE Word(Len(t)) \o Word(Len(t)) \o t

\* One block of do_compress; one that is not full is the last.
PackBlock ==
  LET t == Expand(ops)
      z == code_end(opt.method, enc).out
  IN /\ tool = "pack" /\ pc = "code" /\ ops # <<>>
     /\ IF Len(z) > Len(t) + get_overhead(Len(t))       \* "this should NEVER happen"
        THEN status' = 2 /\ pc' = "done" /\ UNCHANGED <<packed, solid, sum, text>>
        ELSE /\ solid' = solid \cup {Len(packed) + 8 + i : i \in {j \in DOMAIN t : Len(z) >= Len(t)}}
             /\ packed' = packed \o Stored(z, t) /\ text' = text \o t
             /\ sum' = IF opt.packfast THEN sum ELSE ucl_adler32(sum, t)
             /\ UNCHANGED <<status, pc>>
     /\ ops' = <<>> /\ enc' = NewEncoder(8)
     /\ UNCHANGED <<tool, opt, damaged, pos, dec, out>>

\* The end marker and, without -F, the checksum.
PackEnd ==
  /\ tool = "pack" /\ pc = "code" /\ ops = <<>>
  /\ packed' = packed \o Word(0) \o (IF opt.packfast THEN <<>> ELSE SumWord(sum))
  /\ solid' = solid \cup (Len(packed) + 1 .. Len(packed'))
  /\ pc' = "stored"
  /\ UNCHANGED <<tool, opt, ops, enc, text, damaged, pos, sum, dec, out, status>>

\* The data lose their end (uclpack out of memory, killed, disk full), or a byte
\* changes.  (The fast decompressors trust their input, and -F gives up the sum.)
Damage ==
  /\ pc = "stored" /\ damaged = "no" /\ opt.mode = "safe" /\ Len(ops) <= MaxOps
  /\ \/ /\ damaged' = "cut"
        /\ \E n \in 0 .. Len(packed) - 1 : packed' = SubSeq(packed, 1, n)
     \/ /\ ~opt.packfast /\ ~opt.fast
        /\ \E i \in DOMAIN packed, c \in Damages :
             /\ c # packed[i] /\ packed' = [packed EXCEPT ![i] = c]
             /\ damaged' = IF i \in solid THEN "solid" ELSE "coded"
  /\ UNCHANGED <<tool, opt, pc, ops, enc, text, solid, pos, sum, dec, out, status>>

------------------------------------------------------------------------------
(* The library's decompressors *)

\* In place, the stream lies at the end of a buffer that is a little longer than
\* the text; elsewhere the caller knows the length of the text, or one less.
LibStart ==
  LET n == TextLen(ops)
      gap == IF n > Len(packed) THEN n - Len(packed) ELSE 0
  IN /\ tool = "lib" /\ pc = "stored" /\ pc' = "decode"
     /\ \E pad \in Pads, more \in 0 .. 14 :
          dec' = IF opt.mode = "overlap"
                 THEN NewDecoder(opt.method, opt.width, opt.mode, packed, gap + more, n, pad)
                 ELSE NewDecoder(opt.method, opt.width, opt.mode, packed, 0,
                                 IF more > 0 /\ opt.mode = "safe" /\ n > 0 THEN n - 1 ELSE n, pad)
     /\ UNCHANGED <<tool, opt, ops, enc, text, packed, solid, damaged, pos, sum, out, status>>

\* Called by the program or by uclpack.
Decompress ==
  /\ pc = "decode" /\ dec.r = "go"
  /\ dec' = Decode(dec)
  /\ UNCHANGED <<tool, opt, pc, ops, enc, text, packed, solid, damaged, pos, sum, out, status>>

------------------------------------------------------------------------------
(* do_decompress of uclpack *)

\* xread32.  A word of 2^31 or more is as good as any other that is too large.
WordAt(p) == IF packed[p + 1] >= 128 THEN 2147483647
             ELSE packed[p + 1] * 16777216 + packed[p + 2] * 65536 + packed[p + 3] * 256 + packed[p + 4]
Has(n) == pos + n <= Len(packed)
Exit(code) == status' = code /\ pc' = "done"
EofExit == 100                        \* premature end of file: exit(1)

GoOn == -1
HeaderStatus ==
  IF ~Has(8) \/ SubSeq(packed, 1, 8) # Magic THEN 1
  ELSE IF ~Has(18) THEN EofExit
  ELSE IF ~(packed[13] \in {MethodByte(m) : m \in Methods} /\ packed[14] \in 1 .. 10) THEN 2
  ELSE IF ~(WordAt(14) \in MinBlock .. MaxBlock) THEN 3
  ELSE GoOn

ReadHeader ==
  /\ tool = "pack" /\ pc = "stored" /\ pos' = 18 /\ sum' = NoSum
  /\ IF HeaderStatus = GoOn THEN pc' = "block" /\ UNCHANGED status ELSE Exit(HeaderStatus)
  /\ UNCHANGED <<tool, opt, ops, enc, text, packed, solid, damaged, dec, out>>

FileMethod == CHOOSE m \in Methods : MethodByte(m) = packed[13]

\* The block at pos: its sizes, its data, and what they are unpacked to.
OutLen == WordAt(pos)
InLen == WordAt(pos + 4)
BlockData == SubSeq(packed, pos + 9, pos + 8 + InLen)
\* At the top of the buffer, whose beginning the text goes to.
BlockPlace == WordAt(14) + get_overhead(WordAt(14)) - InLen
BlockDecoder(pad) == NewDecoder(FileMethod, 8, IF opt.fast THEN "fast" ELSE "safe",
                                BlockData, BlockPlace, OutLen, pad)
BlockStatus ==
  IF ~Has(8) THEN EofExit
  ELSE IF InLen > WordAt(14) \/ OutLen > WordAt(14) \/ InLen = 0 \/ InLen > OutLen THEN 5
  ELSE IF ~Has(8 + InLen) THEN EofExit
  ELSE GoOn

\* An outlen of 0 is the end marker.
ReadMarker ==
  /\ tool = "pack" /\ pc = "block" /\ (Has(4) => OutLen = 0)
  /\ IF Has(4) THEN pc' = "sum" /\ pos' = pos + 4 /\ UNCHANGED status
     ELSE Exit(EofExit) /\ UNCHANGED pos
  /\ UNCHANGED <<tool, opt, ops, enc, text, packed, solid, damaged, sum, dec, out>>

\* The block that was read, or its text, is written.
Write(t) ==
  /\ out' = out \o t /\ pos' = pos + 8 + InLen
  /\ sum' = IF packed[12] % 2 = 1 /\ ~opt.fast THEN ucl_adler32(sum, t) ELSE sum

ReadBlock ==
  /\ tool = "pack" /\ pc = "block" /\ Has(4) /\ OutLen # 0
  /\ CASE BlockStatus # GoOn -> Exit(BlockStatus) /\ UNCHANGED <<pos, sum, out, dec>>
       [] BlockStatus = GoOn /\ InLen < OutLen ->
            dec' \in {BlockDecoder(pad) : pad \in Pads} /\ pc' = "decode" /\ UNCHANGED <<pos, sum, out, status>>
       [] OTHER -> Write(BlockData) /\ UNCHANGED <<status, pc, dec>>
  /\ UNCHANGED <<tool, opt, ops, enc, text, packed, solid, damaged>>

\* The decompressor has returned.
WriteText ==
  /\ tool = "pack" /\ pc = "decode" /\ dec.r # "go"
  /\ IF dec.r = "OK" /\ dec.olen = OutLen
     THEN Write(Expand(dec.ops)) /\ pc' = "block" /\ UNCHANGED status
     ELSE Exit(6) /\ UNCHANGED <<pos, sum, out>>
  /\ UNCHANGED <<tool, opt, ops, enc, text, packed, solid, damaged, dec>>

ReadSum ==
  /\ tool = "pack" /\ pc = "sum"
  /\ CASE packed[12] % 2 = 0 -> Exit(0)
       [] packed[12] % 2 = 1 /\ ~Has(4) -> Exit(EofExit)
       [] OTHER -> Exit(IF ~opt.fast /\ SubSeq(packed, pos + 1, pos + 4) # SumWord(sum) THEN 7 ELSE 0)
  /\ UNCHANGED <<tool, opt, ops, enc, text, packed, solid, damaged, pos, sum, dec, out>>

------------------------------------------------------------------------------
UclNext ==
  \/ CodeOp \/ CodeEnd \/ PackBlock \/ PackEnd \/ Damage
  \/ LibStart \/ Decompress
  \/ ReadHeader \/ ReadMarker \/ ReadBlock \/ WriteText \/ ReadSum
UclSpec == UclInit /\ [][UclNext]_uclVars
------------------------------------------------------------------------------
\* Every variable keeps its type.
UclTypeOK ==
  /\ tool \in {"lib", "pack"} /\ pc \in {"code", "stored", "decode", "block", "sum", "done"}
  /\ packed \in Seq(0 .. 255)
  /\ dec.r \in {"go", "OK", "INPUT_OVERRUN", "OUTPUT_OVERRUN", "LOOKBEHIND_OVERRUN",
                "OVERLAP_OVERRUN", "INPUT_NOT_CONSUMED"}

\* An undamaged stream is decompressed, whatever the method and the bit buffer,
\* into exactly the literals and matches that were coded, and is consumed to
\* its last byte; an undamaged file is unpacked without a complaint to what
\* was packed, whether either side uses -F or not.
RoundTrip ==
  /\ UclTypeOK
  /\ tool = "lib" /\ pc = "decode" /\ damaged = "no" /\ dec.oend = TextLen(ops) =>
       /\ IsPrefix(dec.ops, ops)
       /\ dec.r \in {"go", "OK", "OVERLAP_OVERRUN"}
       /\ dec.r = "OK" => dec.ops = ops
  /\ tool = "pack" /\ pc = "done" /\ damaged = "no" => status = 0 /\ out = text

\* The safe decompressors, whatever they are fed, read no more than one word of
\* their bit buffer behind the input and, their test of the output being one
\* short, write no more than one byte behind the output; a copy never starts
\* before the output.
SafeBounds ==
  dec.mode # "fast" =>
    /\ dec.ilen <= dec.srclen + dec.width \div 8
    /\ dec.olen <= dec.oend + 1
    /\ \A i \in DOMAIN dec.ops :
         dec.ops[i].op = "copy" => dec.ops[i].off <= TextLen(SubSeq(dec.ops, 1, i - 1))

\* If test-overlap accepts an offset then decompressing in place reads no byte
\* that it has overwritten; nor does uclpack, in its buffer that is longer than a
\* block by the overhead.
NothingOverwritten == dec.mode = "overlap" /\ dec.r = "OK" => dec.late = 0
BlocksInPlace == tool = "pack" /\ damaged = "no" => dec.late = 0
InPlace == NothingOverwritten /\ BlocksInPlace

\* uclpack never reports success for a file that has lost its end, with -F or
\* without, or in which a byte of the magic, of a block that is stored as it is,
\* of the end marker or of the checksum has changed, without -F.  (No checksum of
\* 32 bits promises that of lengths and of coded bytes.)
DamageSeen ==
  tool = "pack" /\ pc = "done" /\ damaged \in {"cut", "solid"} => status # 0

------------------------------------------------------------------------------
(* The inductive invariant of a decompressor, whatever it is fed. *)

Results == {"go", "OK", "INPUT_OVERRUN", "OUTPUT_OVERRUN", "LOOKBEHIND_OVERRUN",
            "OVERLAP_OVERRUN", "INPUT_NOT_CONSUMED"}
Byte == 0 .. 255
Ops == [op : {"lit", "copy"}, byte : Byte, len : Nat, off : Nat]
Decoders ==
  [method : Methods, width : Widths, mode : Modes, src : Seq(Byte), pad : Byte,
   srcoff : Nat, srclen : Nat, oend : Nat,
   bb : Nat, bc : Nat, word : Seq(Byte), bit : {0, 1},
   ilen : Nat, olen : Nat, last : Nat, off : Nat, len : Nat,
   ops : Seq(Ops), at : {"op", "prefix", "long"}, late : {0, 1}, r : Results]

\* The bit buffer has at least k bits left.
Ahead(d, k) ==
  \/ k = 0
  \/ d.width = 8 /\ d.bb % <<128, 64, 32, 16, 8, 4, 2>>[k] # 0
  \/ d.width = 16 /\ d.bb % <<32768, 16384, 8192, 4096, 2048, 1024, 512>>[k] # 0
  \/ d.width = 32 /\ d.bc >= k

\* The end of the input has been passed by one word at most, and then k more bits
\* can be had without a byte: enough to reach the next test of the input.
Pace(d, k) ==
  d.mode # "fast" => \/ d.ilen <= d.srclen
                     \/ d.ilen <= d.srclen + d.width \div 8 /\ Ahead(d, k)
Needed(d) == IF d.at = "op" THEN 2 ELSE 1

\* The output is the text of the operations, and they stay in it.
Text(d) ==
  /\ d.olen = TextLen(d.ops)
  /\ d.mode # "fast" =>
       /\ d.olen <= d.oend + 1
       /\ \A i \in DOMAIN d.ops :
            d.ops[i].op = "copy" => d.ops[i].off <= TextLen(SubSeq(d.ops, 1, i - 1))
\* In place, the output has not caught up with the input.
Place(d) == d.mode = "overlap" => d.late = 0 /\ (d.r = "go" => d.olen <= d.ilen)

Steady(d) ==
  /\ d \in Decoders /\ d.srcoff <= d.ilen /\ d.srclen = Len(d.src) + d.srcoff
  /\ Text(d) /\ Place(d)
Ready(d) ==
  /\ Steady(d) /\ Pace(d, 0)
  /\ d.r = "go" => Pace(d, Needed(d)) /\ (d.at = "prefix" => d.off >= 1)
DecoderReady == Ready(dec)

\* A decompressor by itself, called with any arguments and fed any bytes.
AnyCall ==
  \E method \in Methods, width \in Widths, mode \in Modes, src \in Seq(Byte),
    srcoff \in Nat, dstlen \in Nat, pad \in Byte :
      dec = NewDecoder(method, width, mode, src, srcoff, dstlen, pad)
AnyInput == AnyCall /\ [][dec.r = "go" /\ dec' = Decode(dec)]_dec

\* What uclpack has found in the file: the header, with the method, and a block of which the sizes are there.
Found ==
  /\ pos \in Nat
  /\ tool = "pack" /\ pc \in {"block", "decode", "sum"} =>
       pos >= 18 /\ \E m \in Methods : packed[13] = MethodByte(m)
  /\ tool = "pack" /\ pc = "decode" => Has(8)
UclInv ==
  /\ opt.method \in Methods /\ opt.width \in Widths /\ opt.mode \in Modes /\ ops \in Seq(Ops)
  /\ Found /\ DecoderReady
==============================================================================
