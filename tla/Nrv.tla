--------------------------------- MODULE Nrv ---------------------------------
(***************************************************************************)
(* The NRV2B, NRV2D and NRV2E codes of the UCL library (ucl-1.02/src): how  *)
(* the compressor writes its literals and matches into a stream of bits     *)
(* mixed with bytes, and how the decompressors, fast, safe and              *)
(* test-overlap, for bit buffers of 8, 16 and 32 bits, read it back.        *)
(*                                                                          *)
(* The contents of the output never steer a decompressor: its output is the *)
(* sequence of operations it performs, literals and copies.                 *)
(***************************************************************************)
EXTENDS Integers, Sequences, SequencesExt

Methods == {"2b", "2d", "2e"}
Widths == {8, 16, 32}

\* M2_MAX_OFFSET: matches farther back are a byte longer than their code says.
M2(method) == IF method = "2b" THEN 3328 ELSE 1280

Lit(c) == [op |-> "lit", byte |-> c, len |-> 1, off |-> 0]
Copy(len, off) == [op |-> "copy", byte |-> 0, len |-> len, off |-> off]
TextLen(ops) ==
  LET upTo[i \in 0 .. Len(ops)] == IF i = 0 THEN 0 ELSE upTo[i - 1] + ops[i].len
  IN upTo[Len(ops)]

Flag(b) == IF b THEN 1 ELSE 0
Bit(i, t) == Flag((i \div t) % 2 = 1)

------------------------------------------------------------------------------
(* The compressor's bit buffer: the bits of a word gather in b while its place p
   in the output is reserved; whole bytes go behind it. *)

NewEncoder(width) == [out |-> <<>>, width |-> width, p |-> 0, b |-> <<>>, last |-> 1]

ByteOf(bits) == FoldLeft(LAMBDA v, x : 2 * v + x, 0, bits)

\* The low byte first.
bbWriteBits(e) ==
  [e EXCEPT !.out = [i \in DOMAIN @ |->
     LET j == i - e.p
     IN IF j \in 0 .. e.width \div 8 - 1
        THEN ByteOf(SubSeq(e.b, e.width - 8 * j - 7, e.width - 8 * j)) ELSE @[i]]]

Reserve(e, bit) ==
  [e EXCEPT !.p = Len(e.out) + 1, !.b = <<bit>>,
            !.out = @ \o [i \in 1 .. e.width \div 8 |-> 0]]

bbPutBit(e, bit) ==
  CASE e.b = <<>>         -> Reserve(e, bit)
    [] Len(e.b) < e.width -> [e EXCEPT !.b = Append(@, bit)]
    [] OTHER              -> Reserve(bbWriteBits(e), bit)

PutBits(e, bits) == FoldLeft(bbPutBit, e, bits)
bbPutByte(e, c) == [e EXCEPT !.out = Append(@, c)]

\* Slip: a buffer that is just full is taken for an empty one.
bbFlushBits_Multiple(e) ==
  IF Len(e.b) % e.width = 0 THEN e
  ELSE [bbWriteBits(PutBits(e, [i \in 1 .. e.width - Len(e.b) |-> 0])) EXCEPT !.b = <<>>, !.p = 0]
bbFlushBits(e) ==
  IF e.b = <<>> THEN e
  ELSE [bbWriteBits(PutBits(e, [i \in 1 .. e.width - Len(e.b) |-> 0])) EXCEPT !.b = <<>>, !.p = 0]

\* The digits of i + 2 behind the first, each followed by whether it is the last.
code_prefix_ss11(i) ==
  LET Digits[n \in Nat] == IF n < 2 THEN <<>> ELSE Digits[n \div 2] \o <<n % 2, 0>>
      d == Digits[i + 2]
  IN [d EXCEPT ![Len(d)] = 1]

\* One digit, a continuation bit, and two digits at each continuation.
code_prefix_ss12(i) ==
  LET Skip[j \in Nat, t \in Nat] == IF j >= t THEN Skip[j - t, 4 * t] ELSE <<j, t>>
      Digits[j \in Nat, t \in Nat] ==
        IF t = 2 THEN <<j % 2, 1>>
        ELSE <<Bit(j, t \div 2), 0, Bit(j, t \div 4)>> \o Digits[j, t \div 4]
      s == Skip[i, 2]
  IN Digits[s[1], s[2]]

------------------------------------------------------------------------------
(* code_run and code_match.  Here len is m_len - 1 - (m_off > M2_MAX_OFFSET). *)

code_run(e, c) == bbPutByte(bbPutBit(e, 1), c)

CodeMatch2b(e, len, off) ==
  LET e1 == IF off = e.last THEN PutBits(e, <<0, 0, 1>>)
            ELSE bbPutByte(PutBits(e, <<0>> \o code_prefix_ss11(1 + (off - 1) \div 256)),
                           (off - 1) % 256)
  IN PutBits(e1, IF len >= 4 THEN <<0, 0>> \o code_prefix_ss11(len - 4)
                 ELSE <<Flag(len > 1), len % 2>>)

CodeMatch2d(e, len, off) ==
  LET low == IF len >= 4 THEN 0 ELSE len
      e1 == IF off = e.last THEN PutBits(e, <<0, 0, 1, Flag(low > 1)>>)
            ELSE bbPutByte(PutBits(e, <<0>> \o code_prefix_ss12(1 + (off - 1) \div 128)),
                           2 * ((off - 1) % 128) + Flag(low <= 1))
  IN PutBits(e1, <<low % 2>> \o (IF len >= 4 THEN code_prefix_ss11(len - 4) ELSE <<>>))

CodeMatch2e(e, len, off) ==
  LET low == len <= 2
      e1 == IF off = e.last THEN PutBits(e, <<0, 0, 1, Flag(low)>>)
            ELSE bbPutByte(PutBits(e, <<0>> \o code_prefix_ss12(1 + (off - 1) \div 128)),
                           2 * ((off - 1) % 128) + Flag(~low))
  IN PutBits(e1, CASE low      -> <<len - 1>>
                   [] len \in {3, 4} -> <<1, len - 3>>
                   [] OTHER    -> <<0>> \o code_prefix_ss11(len - 5))

code_match(method, e, m_len, off) ==
  LET len == m_len - 1 - Flag(off > M2(method))
      e1 == CASE method = "2b" -> CodeMatch2b(e, len, off)
              [] method = "2d" -> CodeMatch2d(e, len, off)
              [] method = "2e" -> CodeMatch2e(e, len, off)
  IN [e1 EXCEPT !.last = off]

\* Which literals and matches the compressor may choose: the search only offers
\* true matches, and short ones that are far away are coded as literals.
MayCode(method, len, off, textlen) ==
  /\ off \in 1 .. textlen
  /\ len >= 2 + Flag(off > M2(method))

Code(method, e, o) ==
  IF o.op = "lit" THEN code_run(e, o.byte) ELSE code_match(method, e, o.len, o.off)

\* The end of the stream is a match with an offset of 32 ones.
code_end(method, e) ==
  bbFlushBits(bbPutByte(
    PutBits(e, <<0>> \o (IF method = "2b" THEN code_prefix_ss11(16777216)
                         ELSE code_prefix_ss12(16777216))), 255))

------------------------------------------------------------------------------
(* The decompressors.  A decoder d reads src, placed srcoff bytes behind the beginning
   of the output for test-overlap and in place; a byte behind its end, or one that the
   output has overwritten, is any, pad.  Its result r is "go" until it returns.
   at is the loop it is in: over literals and matches, over the digits of an offset,
   over those of a long length. *)

Modes == {"fast", "safe", "overlap"}
NewDecoder(method, width, mode, src, srcoff, dstlen, pad) ==
  [method |-> method, width |-> width, mode |-> mode, src |-> src, pad |-> pad,
   srcoff |-> srcoff, srclen |-> Len(src) + srcoff, oend |-> dstlen,
   bb |-> 0, bc |-> 0, word |-> <<>>, bit |-> 0,
   ilen |-> srcoff, olen |-> 0, last |-> 1, off |-> 0, len |-> 0,
   ops |-> <<>>, at |-> "op", late |-> 0,
   r |-> IF mode = "overlap" /\ dstlen >= Len(src) + srcoff THEN "OVERLAP_OVERRUN" ELSE "go"]

Fail(d, x, code) == IF d.r = "go" /\ d.mode # "fast" /\ x THEN [d EXCEPT !.r = code] ELSE d
\* The output goes to the same buffer, in front of the input.
InBuffer(d) == d.mode # "overlap" /\ d.srcoff > 0
Src(d, i) ==
  LET j == i - d.srcoff + 1
  IN IF j <= Len(d.src) /\ ~(InBuffer(d) /\ i < d.olen) THEN d.src[j] ELSE d.pad
\* n bytes are read; late notes that in-place decompression had overwritten one.
Fetched(d, n) ==
  [d EXCEPT !.ilen = @ + n, !.late = IF d.olen > d.ilen /\ d.ilen < d.srclen THEN 1 ELSE @]

\* The bit behind the byte is the sentinel: seven doublings later it is alone.
getbit_8(d) ==
  LET bb == IF d.bb % 128 # 0 THEN 2 * d.bb ELSE 2 * Src(d, d.ilen) + 1
  IN [(IF d.bb % 128 # 0 THEN d ELSE Fetched(d, 1)) EXCEPT !.bb = bb, !.bit = Bit(bb, 256)]

\* The doubled buffer is kept to its 17 low bits, the ones that are looked at.
getbit_le16(d) ==
  LET twice == (2 * d.bb) % 131072
      more == twice % 65536 # 0
      bb == IF more THEN twice ELSE 2 * (Src(d, d.ilen) + 256 * Src(d, d.ilen + 1)) + 1
  IN [(IF more THEN d ELSE Fetched(d, 2)) EXCEPT !.bb = bb, !.bit = Bit(bb, 65536)]

\* word holds the four bytes of bb.
getbit_le32(d) ==
  IF d.bc > 0
  THEN [d EXCEPT !.bc = @ - 1, !.bit = Bit(d.word[(d.bc - 1) \div 8 + 1], 2 ^ ((d.bc - 1) % 8))]
  ELSE [Fetched(d, 4) EXCEPT !.bc = 31, !.word = [i \in 1 .. 4 |-> Src(d, d.ilen + i - 1)],
                             !.bit = Bit(Src(d, d.ilen + 3), 128)]

getbit(d) ==
  CASE d.width = 8  -> getbit_8(d)
    [] d.width = 16 -> getbit_le16(d)
    [] d.width = 32 -> getbit_le32(d)

\* m * 2 + getbit(bb), in the field named by the caller.
LenBit(d, m) == LET d1 == getbit(d) IN [d1 EXCEPT !.len = 2 * m + d1.bit]
OffBit(d, m) == LET d1 == getbit(d) IN [d1 EXCEPT !.off = 2 * m + d1.bit]

FarPrefix == 16777218                             \* 0xffffff + 3
\* Slip: the end of the input is left to other checks.
OffChecks_Far(d) == Fail(d, d.off > FarPrefix, "LOOKBEHIND_OVERRUN")
OffChecks(d) ==
  Fail(Fail(d, d.ilen >= d.srclen, "INPUT_OVERRUN"), d.off > FarPrefix, "LOOKBEHIND_OVERRUN")

\* (m_off - 3) * 256 + the next byte.  All ones end the stream; offsets of 2^30 and
\* more, beyond any output shorter than that, are cut to TooFar.
TooFar == 1073741824
ReadEnd(d) ==
  [d EXCEPT !.r = CASE d.ilen = d.srclen -> "OK" [] d.ilen < d.srclen -> "INPUT_NOT_CONSUMED"
                    [] OTHER -> "INPUT_OVERRUN"]
ReadByte(d, per) ==                               \* offsets per prefix: 256, or 128
  LET d1 == Fail(d, d.ilen >= d.srclen, "INPUT_OVERRUN")
      c == Src(d, d.ilen)
      hi == d.off - 3
      d2 == Fetched(d1, 1)
      far == IF hi >= TooFar \div per THEN TooFar ELSE hi * per + (c * per) \div 256 + 1
  IN CASE d1.r # "go" -> d1
       [] d1.r = "go" /\ hi = 16777215 /\ c = 255 -> ReadEnd(d2)
       [] OTHER -> [d2 EXCEPT !.off = far, !.last = far, !.len = 1 - (c % 2)]

Offset2b(d) == IF d.off = 2 THEN [d EXCEPT !.off = d.last] ELSE ReadByte(d, 256)
Offset2d(d) == IF d.off = 2 THEN LenBit([d EXCEPT !.off = d.last], 0) ELSE ReadByte(d, 128)

\* The copy is one byte longer than m_len.
DoCopy(d, n) ==
  LET len == n + Flag(d.off > M2(d.method))
      d1 == Fail(Fail(d, d.olen + len > d.oend, "OUTPUT_OVERRUN"),
                 d.off > d.olen, "LOOKBEHIND_OVERRUN")
      d2 == [d1 EXCEPT !.olen = @ + len + 1, !.ops = Append(@, Copy(len + 1, d.off)), !.at = "op"]
  IN IF d1.r # "go" THEN d1
     ELSE Fail(d2, d2.mode = "overlap" /\ d2.olen > d2.ilen, "OVERLAP_OVERRUN")

DoLit(d) ==
  LET d1 == Fail(Fail(d, d.ilen >= d.srclen, "INPUT_OVERRUN"), d.olen >= d.oend, "OUTPUT_OVERRUN")
      d2 == Fail(d1, d1.mode = "overlap" /\ d1.olen > d1.ilen, "OVERLAP_OVERRUN")
  IN IF d2.r # "go" THEN d2
     ELSE [Fetched(d2, 1) EXCEPT !.olen = @ + 1, !.ops = Append(@, Lit(Src(d, d.ilen)))]

\* The first bits of the length; all zero, a long one follows.
Long(d) == [d EXCEPT !.len = 1, !.at = "long"]
Length2b(d) == LET d1 == LenBit(d, 0)
                   d2 == LenBit(d1, d1.len)
               IN IF d2.len = 0 THEN Long(d2) ELSE DoCopy(d2, d2.len)
Length2d(d) == LET d1 == LenBit(d, d.len) IN IF d1.len = 0 THEN Long(d1) ELSE DoCopy(d1, d1.len)
Length2e(d) ==
  LET d1 == getbit(d)
      d2 == getbit(d1)
  IN CASE d.len = 1 -> DoCopy(d1, 1 + d1.bit)
       [] d.len = 0 /\ d1.bit = 1 -> DoCopy(d2, 3 + d2.bit)
       [] OTHER -> Long(d1)

\* The offset is complete unless reading it failed.
Match2b(d) == LET d1 == Offset2b(d) IN IF d1.r = "go" THEN Length2b(d1) ELSE d1
Match2d(d) == LET d1 == Offset2d(d) IN IF d1.r = "go" THEN Length2d(d1) ELSE d1
Match2e(d) == LET d1 == Offset2d(d) IN IF d1.r = "go" THEN Length2e(d1) ELSE d1
Match(d) ==
  CASE d.method = "2b" -> Match2b(d) [] d.method = "2d" -> Match2d(d) [] d.method = "2e" -> Match2e(d)

\* Once round the loop over the digits of an offset.
Prefix(d) ==
  LET d1 == OffChecks(OffBit(d, d.off))
      d2 == getbit(d1)
  IN CASE d1.r # "go" -> d1
       [] d1.r = "go" /\ d2.bit = 1 -> Match(d2)
       [] OTHER -> IF d.method = "2b" THEN d2 ELSE OffBit(d2, d2.off - 1)

\* Once round the loop over the digits of a long length.
LongLen(d) ==
  LET d1 == LenBit(d, d.len)
      d2 == Fail(Fail(d1, d1.ilen >= d1.srclen, "INPUT_OVERRUN"), d1.len >= d1.oend, "OUTPUT_OVERRUN")
      d3 == getbit(d2)
  IN CASE d2.r # "go" -> d2
       [] d2.r = "go" /\ d3.bit = 1 -> DoCopy(d3, d3.len + IF d.method = "2e" THEN 3 ELSE 2)
       [] OTHER -> d3

\* A literal, or the beginning of a match.
NextOp(d) ==
  LET d1 == getbit(d)
  IN IF d1.bit = 1 THEN DoLit(d1) ELSE [d1 EXCEPT !.at = "prefix", !.off = 1]

Decode(d) ==
  CASE d.at = "op" -> NextOp(d) [] d.at = "prefix" -> Prefix(d) [] d.at = "long" -> LongLen(d)
==============================================================================
