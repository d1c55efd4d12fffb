----------------------------- MODULE PackerProofs -----------------------------
(***************************************************************************)
(* Proofs about the packers.                                               *)
(*                                                                         *)
(* UclPack: a decompressor, called with any arguments and fed any bytes,   *)
(* stays within bounds and reads nothing that in-place decompression has   *)
(* overwritten.                                                            *)
(*                                                                         *)
(* ExePak, for any number of blocks, runs, names and attempts: the program *)
(* is lost only by the mishaps NeverLost names, and what is run is whole   *)
(* and leaves nothing behind.                                              *)
(***************************************************************************)
EXTENDS ExePak, UclPack, SequenceTheorems, WellFoundedInduction, TLAPS

------------------------------------------------------------------------------
(* The length of a text *)

(* Induction up to n, by the set of the numbers for which it holds. *)
LEMMA UpTo ==
  ASSUME NEW n \in Nat, NEW S, 0 \in S, \A i \in 1 .. n : i - 1 \in S => i \in S
  PROVE  \A i \in 0 .. n : i \in S
<1> DEFINE T == (0 .. n) \ S
<1> SUFFICES ASSUME T # {} PROVE FALSE
  OBVIOUS
<1>1. T \subseteq Nat
  OBVIOUS
<1>2. PICK m \in T : \A y \in T : ~(<<y, m>> \in OpToRel(<, Nat))
  BY <1>1, NatLessThanWellFounded, WFMin
<1>3. \A y \in T : ~(y < m)
  BY <1>1, <1>2 DEF OpToRel
<1>4. m \in 1 .. n /\ m - 1 \in 0 .. n /\ m - 1 < m
  BY <1>1
<1>5. m - 1 \in S
  BY <1>3, <1>4
<1> QED
  BY <1>4, <1>5

(* f adds up the lengths of the first n operations. *)
Adds(f, s, n) == f = [i \in 0 .. n |-> IF i = 0 THEN 0 ELSE f[i - 1] + s[i].len]

(* There is such a function. *)
LEMMA SumExists ==
  ASSUME NEW s, NEW n \in Nat
  PROVE  \E f : Adds(f, s, n)
<1> DEFINE S == {i \in 0 .. n : \E f : Adds(f, s, i)}
<1>1. 0 \in S
  <2> DEFINE g == [i \in 0 .. 0 |-> 0]
  <2>1. g = [i \in 0 .. 0 |-> IF i = 0 THEN 0 ELSE g[i - 1] + s[i].len]
    OBVIOUS
  <2>2. Adds(g, s, 0)
    BY <2>1 DEF Adds
  <2> QED
    BY <2>2
<1>2. ASSUME NEW i \in 1 .. n, i - 1 \in S PROVE i \in S
  <2>1. PICK f : Adds(f, s, i - 1)
    BY <1>2
  <2> DEFINE g == [j \in 0 .. i |-> IF j = i THEN f[i - 1] + s[i].len ELSE f[j]]
             h == [j \in 0 .. i |-> IF j = 0 THEN 0 ELSE g[j - 1] + s[j].len]
  <2>2. ASSUME NEW j \in 0 .. i PROVE g[j] = h[j]
    <3>1. CASE j = i
      BY <3>1
    <3>2. CASE j # i
      <4>1. j \in 0 .. i - 1 /\ f[j] = IF j = 0 THEN 0 ELSE f[j - 1] + s[j].len
        BY <2>1, <3>2 DEF Adds
      <4>2. j # 0 => j - 1 \in 0 .. i /\ j - 1 # i
        BY <3>2
      <4> QED
        BY <3>2, <4>1, <4>2
    <3> QED
      BY <3>1, <3>2
  <2>3. g = h
    BY <2>2
  <2>4. Adds(g, s, i)
    <3> HIDE DEF g
    <3> QED
      BY <2>3 DEF Adds
  <2> HIDE DEF g
  <2> QED
    BY <2>4
<1> HIDE DEF S
<1>3. \A i \in 0 .. n : i \in S
  BY <1>1, <1>2, UpTo
<1>4. n \in S
  BY <1>3
<1> QED
  BY <1>4 DEF S

(* Two of them agree where both are defined and the sequences agree. *)
LEMMA SumsAgree ==
  ASSUME NEW s, NEW t, NEW m \in Nat, NEW n \in Nat, n <= m, NEW f, NEW g,
         Adds(f, s, n), Adds(g, t, m), \A i \in 1 .. n : s[i] = t[i]
  PROVE  f[n] = g[n]
<1> DEFINE S == {i \in 0 .. n : f[i] = g[i]}
<1>1. 0 \in S
  BY DEF Adds
<1>2. ASSUME NEW i \in 1 .. n, i - 1 \in S PROVE i \in S
  <2>1. i \in 0 .. n /\ i \in 0 .. m /\ i # 0
    OBVIOUS
  <2>2. f[i] = f[i - 1] + s[i].len /\ g[i] = g[i - 1] + t[i].len
    BY <2>1 DEF Adds
  <2> QED
    BY <1>2, <2>1, <2>2
<1> HIDE DEF S
<1>3. \A i \in 0 .. n : i \in S
  BY <1>1, <1>2, UpTo
<1>4. n \in S
  BY <1>3
<1> QED
  BY <1>4 DEF S

(* TextLen is what such a function ends with. *)
LEMMA TextLenIs ==
  ASSUME NEW s, Len(s) \in Nat, NEW f, Adds(f, s, Len(s))
  PROVE  TextLen(s) = f[Len(s)]
<1> DEFINE g == CHOOSE g : g = [i \in 0 .. Len(s) |-> IF i = 0 THEN 0 ELSE g[i - 1] + s[i].len]
<1>1. TextLen(s) = g[Len(s)]
  BY DEF TextLen
<1>2. Adds(g, s, Len(s))
  BY DEF Adds
<1> HIDE DEF g
<1>3. f[Len(s)] = g[Len(s)]
  BY <1>2, SumsAgree
<1> QED
  BY <1>1, <1>3

(* The length of a text is a number, and an operation adds its own length. *)
LEMMA TextLenFacts ==
  ASSUME NEW s \in Seq(Ops)
  PROVE  /\ TextLen(s) \in Nat
         /\ \A o \in Ops : TextLen(Append(s, o)) = TextLen(s) + o.len
<1>1. PICK f : Adds(f, s, Len(s))
  BY SumExists
<1>2. TextLen(s) = f[Len(s)]
  BY <1>1, TextLenIs
<1>3. TextLen(s) \in Nat
  <2> DEFINE S == {i \in 0 .. Len(s) : f[i] \in Nat}
  <2>1. 0 \in S
    BY <1>1 DEF Adds
  <2>2. ASSUME NEW i \in 1 .. Len(s), i - 1 \in S PROVE i \in S
    <3>1. f[i] = f[i - 1] + s[i].len
      BY <1>1 DEF Adds
    <3>2. s[i] \in Ops
      OBVIOUS
    <3> QED
      BY <2>2, <3>1, <3>2 DEF Ops
  <2> HIDE DEF S
  <2>3. Len(s) \in Nat
    OBVIOUS
  <2>4. \A i \in 1 .. Len(s) : i - 1 \in S => i \in S
    BY <2>2
  <2>5. \A i \in 0 .. Len(s) : i \in S
    BY <2>1, <2>3, <2>4, UpTo
  <2>6. Len(s) \in S
    BY <2>3, <2>5
  <2> QED
    BY <1>2, <2>6 DEF S
<1>4. ASSUME NEW o \in Ops PROVE TextLen(Append(s, o)) = TextLen(s) + o.len
  <2> DEFINE t == Append(s, o)
             n == Len(s)
  <2>1. Len(t) = n + 1 /\ t[n + 1] = o /\ n \in Nat /\ \A i \in 1 .. n : s[i] = t[i]
    OBVIOUS
  <2> HIDE DEF t
  <2>6. n + 1 \in Nat
    BY <2>1
  <2>2. PICK g : Adds(g, t, n + 1)
    BY <2>6, SumExists
  <2>3. TextLen(t) = g[n + 1]
    BY <2>1, <2>2, TextLenIs
  <2>4. g[n + 1] = g[n] + t[n + 1].len
    BY <2>1, <2>2 DEF Adds
  <2>5. f[n] = g[n]
    BY <1>1, <2>1, <2>2, SumsAgree
  <2> QED
    BY <1>2, <2>1, <2>3, <2>4, <2>5 DEF t
<1> QED
  BY <1>3, <1>4

------------------------------------------------------------------------------
(* A decompressor that has not returned *)

Live(d, k) == Steady(d) /\ d.r = "go" /\ Pace(d, k)

(* The parameters of d are those of e. *)
SameCall(d, e) ==
  /\ e.method = d.method /\ e.width = d.width /\ e.mode = d.mode /\ e.src = d.src
  /\ e.pad = d.pad /\ e.srcoff = d.srcoff /\ e.srclen = d.srclen /\ e.oend = d.oend

(* From d to e only input was read. *)
ReadsOnly(d, e) ==
  /\ e \in Decoders /\ SameCall(d, e)
  /\ e.olen = d.olen /\ e.ops = d.ops /\ e.r = d.r
  /\ d.ilen <= e.ilen

(* A field of a decompressor has its type. *)
LEMMA FieldTypes ==
  ASSUME NEW d \in Decoders
  PROVE  /\ d.method \in Methods /\ d.width \in Widths /\ d.mode \in Modes
         /\ d.src \in Seq(Byte) /\ d.pad \in Byte /\ d.ops \in Seq(Ops)
         /\ d.srcoff \in Nat /\ d.srclen \in Nat /\ d.oend \in Nat
         /\ d.bb \in Nat /\ d.bc \in Nat /\ d.bit \in {0, 1}
         /\ d.ilen \in Nat /\ d.olen \in Nat /\ d.last \in Nat
         /\ d.off \in Nat /\ d.len \in Nat
         /\ d.at \in {"op", "prefix", "long"} /\ d.late \in {0, 1} /\ d.r \in Results
BY DEF Decoders

(* So has one that is changed to a value of that type. *)
LEMMA ReadTyped ==
  ASSUME NEW d \in Decoders, NEW x \in Nat, NEW y \in {0, 1}
  PROVE  [d EXCEPT !.ilen = x, !.late = y] \in Decoders
BY DEF Decoders
LEMMA BitTyped ==
  ASSUME NEW d \in Decoders, NEW x \in Nat, NEW y \in {0, 1}
  PROVE  [d EXCEPT !.bb = x, !.bit = y] \in Decoders
BY DEF Decoders
LEMMA CountTyped ==
  ASSUME NEW d \in Decoders, NEW x \in Nat, NEW y \in {0, 1}
  PROVE  [d EXCEPT !.bc = x, !.bit = y] \in Decoders
BY DEF Decoders
LEMMA WordTyped ==
  ASSUME NEW d \in Decoders, NEW x \in Nat, NEW w \in Seq(Byte), NEW y \in {0, 1}
  PROVE  [d EXCEPT !.bc = x, !.word = w, !.bit = y] \in Decoders
BY DEF Decoders
LEMMA LenTyped ==
  ASSUME NEW d \in Decoders, NEW x \in Nat
  PROVE  [d EXCEPT !.len = x] \in Decoders
BY DEF Decoders
LEMMA OffTyped ==
  ASSUME NEW d \in Decoders, NEW x \in Nat
  PROVE  [d EXCEPT !.off = x] \in Decoders
BY DEF Decoders
LEMMA FarTyped ==
  ASSUME NEW d \in Decoders, NEW x \in Nat, NEW y \in Nat
  PROVE  [d EXCEPT !.off = x, !.last = x, !.len = y] \in Decoders
BY DEF Decoders
LEMMA ResultTyped ==
  ASSUME NEW d \in Decoders, NEW x \in Results
  PROVE  [d EXCEPT !.r = x] \in Decoders
BY DEF Decoders
LEMMA LongTyped ==
  ASSUME NEW d \in Decoders
  PROVE  [d EXCEPT !.len = 1, !.at = "long"] \in Decoders
BY DEF Decoders
LEMMA PrefixTyped ==
  ASSUME NEW d \in Decoders
  PROVE  [d EXCEPT !.at = "prefix", !.off = 1] \in Decoders
BY DEF Decoders
LEMMA CopyTyped ==
  ASSUME NEW d \in Decoders, NEW x \in Nat, NEW s \in Seq(Ops)
  PROVE  [d EXCEPT !.olen = x, !.ops = s, !.at = "op"] \in Decoders
BY DEF Decoders
LEMMA LitTyped ==
  ASSUME NEW d \in Decoders, NEW x \in Nat, NEW s \in Seq(Ops)
  PROVE  [d EXCEPT !.olen = x, !.ops = s] \in Decoders
BY DEF Decoders

(* A decompressor that only read its input, in time, is steady. *)
LEMMA StaysSteady ==
  ASSUME NEW d, NEW e, Steady(d), ReadsOnly(d, e), e.late = d.late
  PROVE  Steady(e)
<1>1. d \in Decoders /\ e \in Decoders
  BY DEF Steady, ReadsOnly
<1>2. Text(e)
  BY DEF Text, Steady, ReadsOnly, SameCall
<1>3. d.ilen \in Nat /\ e.ilen \in Nat /\ d.olen \in Nat /\ d.srcoff \in Nat
  BY <1>1, FieldTypes
<1>4. Place(e)
  BY <1>3 DEF Place, Steady, ReadsOnly, SameCall
<1>5. e.srcoff <= e.ilen /\ e.srclen = Len(e.src) + e.srcoff
  BY <1>3 DEF Steady, ReadsOnly, SameCall
<1> QED
  BY <1>1, <1>2, <1>4, <1>5 DEF Steady

(* A byte of the input, or of what is behind it. *)
LEMMA SrcByte ==
  ASSUME NEW d, Steady(d), NEW i \in Nat, d.ilen <= i
  PROVE  Src(d, i) \in Byte
<1>1. d \in Decoders /\ d.srcoff <= d.ilen
  BY DEF Steady
<1>2. i - d.srcoff + 1 \in Nat \ {0}
  BY <1>1, FieldTypes
<1>3. d.src \in Seq(Byte) /\ d.pad \in Byte
  BY <1>1, FieldTypes
<1> QED
  BY <1>2, <1>3 DEF Src

(* Reading bytes is in time: the input has not been overwritten. *)
LEMMA FetchedFacts ==
  ASSUME NEW d, Steady(d), d.r = "go", NEW n \in Nat
  PROVE  /\ Fetched(d, n) \in Decoders /\ Steady(Fetched(d, n))
         /\ ReadsOnly(d, Fetched(d, n)) /\ Fetched(d, n).ilen = d.ilen + n
<1> DEFINE y == IF d.olen > d.ilen /\ d.ilen < d.srclen THEN 1 ELSE d.late
           e == [d EXCEPT !.ilen = d.ilen + n, !.late = y]
<1>1. d \in Decoders
  BY DEF Steady
<1>2. d.ilen + n \in Nat /\ y \in {0, 1} /\ d.ilen \in Nat /\ d.olen \in Nat
  BY <1>1, FieldTypes
<1>3. Fetched(d, n) = e
  BY DEF Fetched
<1>4. d.mode = "overlap" => y = 0 /\ d.olen <= d.ilen
  BY <1>2 DEF Steady, Place
<1> HIDE DEF y
<1>5. e \in Decoders
  BY <1>1, <1>2, ReadTyped
<1>6. /\ SameCall(d, e) /\ e.olen = d.olen /\ e.ops = d.ops /\ e.r = d.r
      /\ e.ilen = d.ilen + n /\ e.late = y
  BY <1>1 DEF SameCall, Decoders
<1> HIDE DEF e
<1>7. ReadsOnly(d, e)
  BY <1>2, <1>5, <1>6 DEF ReadsOnly
<1>8. Text(e)
  BY <1>6 DEF Text, Steady, SameCall
<1>9. Place(e)
  BY <1>2, <1>4, <1>6 DEF Place, SameCall
<1>10. e.srcoff <= e.ilen /\ e.srclen = Len(e.src) + e.srcoff
  BY <1>1, <1>2, <1>6, FieldTypes DEF Steady, SameCall
<1> QED
  BY <1>3, <1>5, <1>6, <1>7, <1>8, <1>9, <1>10 DEF Steady

------------------------------------------------------------------------------
(* One bit *)

(* From d to e one bit was read. *)
BitRead(d, e) ==
  /\ ReadsOnly(d, e)
  /\ e.off = d.off /\ e.len = d.len /\ e.last = d.last /\ e.at = d.at

(* If the buffer has a bit left it is taken from there, and one less is left. *)
(* If not then the input is read, and seven more bits are left at least.      *)
OneBit(d, e) ==
  /\ Steady(e) /\ BitRead(d, e)
  /\ \/ e.ilen = d.ilen /\ \A k \in 0 .. 6 : Ahead(d, k + 1) => Ahead(e, k)
     \/ /\ e.ilen = d.ilen + d.width \div 8
        /\ \A k \in 0 .. 6 : Ahead(e, k) /\ ~Ahead(d, k + 1)

(* A bit is 0 or 1, whatever it is taken from. *)
LEMMA BitIsBit == ASSUME NEW i, NEW t PROVE Bit(i, t) \in {0, 1}
BY DEF Bit, Flag

(* Bytes are fetched for the buffer, or not. *)
LEMMA MaybeFetched ==
  ASSUME NEW d, Steady(d), d.r = "go", NEW n \in Nat, NEW more
  PROVE  LET f == IF more THEN d ELSE Fetched(d, n)
         IN /\ f \in Decoders /\ Steady(f) /\ BitRead(d, f)
            /\ f.ilen = d.ilen + IF more THEN 0 ELSE n
<1> DEFINE f == IF more THEN d ELSE Fetched(d, n)
<1>1. d \in Decoders /\ d.ilen \in Nat
  BY FieldTypes DEF Steady
<1>2. CASE more
  BY <1>1, <1>2 DEF BitRead, ReadsOnly, SameCall
<1>3. CASE ~more
  <2>1. f = Fetched(d, n)
    BY <1>3
  <2>2. f.off = d.off /\ f.len = d.len /\ f.last = d.last /\ f.at = d.at
    BY <1>1, <2>1 DEF Fetched, Decoders
  <2> QED
    BY <1>3, <2>1, <2>2, FetchedFacts DEF BitRead
<1> QED
  BY <1>2, <1>3

(* Then a bit is taken from it. *)
LEMMA BitTaken ==
  ASSUME NEW d, Steady(d), NEW f, f \in Decoders, Steady(f), BitRead(d, f), NEW e, e \in Decoders,
         SameCall(f, e), e.olen = f.olen, e.ops = f.ops, e.r = f.r, e.ilen = f.ilen, e.late = f.late,
         e.off = f.off, e.len = f.len, e.last = f.last, e.at = f.at
  PROVE  Steady(e) /\ BitRead(d, e)
<1>1. f.ilen \in Nat
  BY FieldTypes
<1>2. ReadsOnly(f, e) /\ ReadsOnly(d, e)
  BY <1>1 DEF BitRead, ReadsOnly, SameCall
<1> QED
  BY <1>2, StaysSteady DEF BitRead

(* The buffer of 8 bits. *)
LEMMA GetBit8 ==
  ASSUME NEW d, Steady(d), d.r = "go", d.width = 8
  PROVE  OneBit(d, getbit_8(d))
<1> DEFINE more == d.bb % 128 # 0
           c == Src(d, d.ilen)
           bb == IF more THEN 2 * d.bb ELSE 2 * c + 1
           f == IF more THEN d ELSE Fetched(d, 1)
           y == Bit(bb, 256)
           e == [f EXCEPT !.bb = bb, !.bit = y]
           left(k) == k = 0 \/ bb % <<128, 64, 32, 16, 8, 4, 2>>[k] # 0
<1>1. getbit_8(d) = e
  BY DEF getbit_8
<1>2. d \in Decoders /\ d.bb \in Nat /\ d.ilen \in Nat
  BY FieldTypes DEF Steady
<1>3. c \in Nat
  BY <1>2, SrcByte DEF Byte
<1> HIDE DEF c
<1>4. bb \in Nat /\ y \in {0, 1}
  BY <1>2, <1>3, BitIsBit
<1>5. /\ f \in Decoders /\ Steady(f) /\ BitRead(d, f)
      /\ f.ilen = d.ilen + IF more THEN 0 ELSE 1
  <2> HIDE DEF more
  <2> QED
    BY MaybeFetched
<1>6. ASSUME NEW k \in 0 .. 6
      PROVE  /\ more /\ Ahead(d, k + 1) => left(k)
             /\ ~more => left(k) /\ ~Ahead(d, k + 1)
  <2>1. k = 0 \/ k = 1 \/ k = 2 \/ k = 3 \/ k = 4 \/ k = 5 \/ k = 6
    OBVIOUS
  <2>2. CASE k = 0
    BY <1>2, <1>3, <2>2 DEF Ahead
  <2>3. CASE k = 1
    BY <1>2, <1>3, <2>3 DEF Ahead
  <2>4. CASE k = 2
    BY <1>2, <1>3, <2>4 DEF Ahead
  <2>5. CASE k = 3
    BY <1>2, <1>3, <2>5 DEF Ahead
  <2>6. CASE k = 4
    BY <1>2, <1>3, <2>6 DEF Ahead
  <2>7. CASE k = 5
    BY <1>2, <1>3, <2>7 DEF Ahead
  <2>8. CASE k = 6
    BY <1>2, <1>3, <2>8 DEF Ahead
  <2> QED
    BY <2>1, <2>2, <2>3, <2>4, <2>5, <2>6, <2>7, <2>8
<1> HIDE DEF bb, f, y, more
<1>7. e \in Decoders
  BY <1>4, <1>5, BitTyped
<1>8. /\ SameCall(f, e) /\ e.olen = f.olen /\ e.ops = f.ops /\ e.r = f.r /\ e.ilen = f.ilen
      /\ e.late = f.late /\ e.off = f.off /\ e.len = f.len /\ e.last = f.last /\ e.at = f.at
      /\ e.bb = bb
  BY <1>5 DEF SameCall, Decoders
<1> HIDE DEF e
<1>9. Steady(e) /\ BitRead(d, e)
  BY <1>5, <1>7, <1>8, BitTaken
<1>10. \A k \in 0 .. 6 : left(k) <=> Ahead(e, k)
  BY <1>8, <1>9 DEF Ahead, BitRead, ReadsOnly, SameCall
<1> HIDE DEF left
<1>11. more => e.ilen = d.ilen
  BY <1>2, <1>5, <1>8
<1>12. ~more => e.ilen = d.ilen + 1 /\ d.width \div 8 = 1
  BY <1>5, <1>8
<1>13. OneBit(d, e)
  BY <1>6, <1>9, <1>10, <1>11, <1>12 DEF OneBit
<1> QED
  BY <1>1, <1>13

(* The buffer of 16 bits. *)
LEMMA GetBit16 ==
  ASSUME NEW d, Steady(d), d.r = "go", d.width = 16
  PROVE  OneBit(d, getbit_le16(d))
<1> DEFINE twice == (2 * d.bb) % 131072
           more == twice % 65536 # 0
           c == Src(d, d.ilen) + 256 * Src(d, d.ilen + 1)
           bb == IF more THEN twice ELSE 2 * c + 1
           f == IF more THEN d ELSE Fetched(d, 2)
           y == Bit(bb, 65536)
           e == [f EXCEPT !.bb = bb, !.bit = y]
           left(k) == k = 0 \/ bb % <<32768, 16384, 8192, 4096, 2048, 1024, 512>>[k] # 0
<1>1. getbit_le16(d) = e
  BY DEF getbit_le16
<1>2. d \in Decoders /\ d.bb \in Nat /\ d.ilen \in Nat
  BY FieldTypes DEF Steady
<1>3. c \in Nat
  <2>1. d.ilen + 1 \in Nat /\ d.ilen <= d.ilen + 1
    BY <1>2
  <2>2. Src(d, d.ilen) \in Byte /\ Src(d, d.ilen + 1) \in Byte
    BY <1>2, <2>1, SrcByte
  <2> DEFINE x == Src(d, d.ilen)
             z == Src(d, d.ilen + 1)
  <2> HIDE DEF x, z
  <2>3. x \in Nat /\ z \in Nat
    BY <2>2 DEF Byte, x, z
  <2>4. x + 256 * z \in Nat
    BY <2>3
  <2> QED
    BY <2>4 DEF x, z
<1> HIDE DEF c
<1>4. bb \in Nat /\ y \in {0, 1}
  BY <1>2, <1>3, BitIsBit
<1>5. /\ f \in Decoders /\ Steady(f) /\ BitRead(d, f)
      /\ f.ilen = d.ilen + IF more THEN 0 ELSE 2
  <2> HIDE DEF more
  <2> QED
    BY MaybeFetched
<1>6. ASSUME NEW k \in 0 .. 6
      PROVE  /\ more /\ Ahead(d, k + 1) => left(k)
             /\ ~more => left(k) /\ ~Ahead(d, k + 1)
  <2>1. k = 0 \/ k = 1 \/ k = 2 \/ k = 3 \/ k = 4 \/ k = 5 \/ k = 6
    OBVIOUS
  <2>2. CASE k = 0
    BY <1>2, <1>3, <2>2 DEF Ahead
  <2>3. CASE k = 1
    BY <1>2, <1>3, <2>3 DEF Ahead
  <2>4. CASE k = 2
    BY <1>2, <1>3, <2>4 DEF Ahead
  <2>5. CASE k = 3
    BY <1>2, <1>3, <2>5 DEF Ahead
  <2>6. CASE k = 4
    BY <1>2, <1>3, <2>6 DEF Ahead
  <2>7. CASE k = 5
    BY <1>2, <1>3, <2>7 DEF Ahead
  <2>8. CASE k = 6
    BY <1>2, <1>3, <2>8 DEF Ahead
  <2> QED
    BY <2>1, <2>2, <2>3, <2>4, <2>5, <2>6, <2>7, <2>8
<1> HIDE DEF bb, f, y, more
<1>7. e \in Decoders
  BY <1>4, <1>5, BitTyped
<1>8. /\ SameCall(f, e) /\ e.olen = f.olen /\ e.ops = f.ops /\ e.r = f.r /\ e.ilen = f.ilen
      /\ e.late = f.late /\ e.off = f.off /\ e.len = f.len /\ e.last = f.last /\ e.at = f.at
      /\ e.bb = bb
  BY <1>5 DEF SameCall, Decoders
<1> HIDE DEF e
<1>9. Steady(e) /\ BitRead(d, e)
  BY <1>5, <1>7, <1>8, BitTaken
<1>10. \A k \in 0 .. 6 : left(k) <=> Ahead(e, k)
  BY <1>8, <1>9 DEF Ahead, BitRead, ReadsOnly, SameCall
<1> HIDE DEF left
<1>11. more => e.ilen = d.ilen
  BY <1>2, <1>5, <1>8
<1>12. ~more => e.ilen = d.ilen + 2 /\ d.width \div 8 = 2
  BY <1>5, <1>8
<1>13. OneBit(d, e)
  BY <1>6, <1>9, <1>10, <1>11, <1>12 DEF OneBit
<1> QED
  BY <1>1, <1>13

(* The buffer of 32 bits. *)
LEMMA GetBit32 ==
  ASSUME NEW d, Steady(d), d.r = "go", d.width = 32
  PROVE  OneBit(d, getbit_le32(d))
<1>1. d \in Decoders /\ d.bc \in Nat /\ d.ilen \in Nat
  BY FieldTypes DEF Steady
<1>2. CASE d.bc > 0
  <2> DEFINE x == d.bc - 1
             y == Bit(d.word[(d.bc - 1) \div 8 + 1], 2 ^ ((d.bc - 1) % 8))
             e == [d EXCEPT !.bc = x, !.bit = y]
  <2>1. getbit_le32(d) = e
    BY <1>2 DEF getbit_le32
  <2>2. x \in Nat /\ y \in {0, 1}
    BY <1>1, <1>2, BitIsBit
  <2> HIDE DEF y
  <2>3. e \in Decoders
    BY <1>1, <2>2, CountTyped
  <2>4. /\ SameCall(d, e) /\ e.olen = d.olen /\ e.ops = d.ops /\ e.r = d.r /\ e.ilen = d.ilen
        /\ e.late = d.late /\ e.off = d.off /\ e.len = d.len /\ e.last = d.last /\ e.at = d.at
        /\ e.bc = d.bc - 1
    BY <1>1 DEF SameCall, Decoders
  <2> HIDE DEF e, x
  <2>5. BitRead(d, d)
    BY <1>1 DEF BitRead, ReadsOnly, SameCall
  <2>6. Steady(e) /\ BitRead(d, e)
    BY <1>1, <2>3, <2>4, <2>5, BitTaken
  <2>7. \A k \in 0 .. 6 : Ahead(d, k + 1) => Ahead(e, k)
    BY <1>1, <2>4 DEF Ahead, SameCall
  <2> QED
    BY <1>2, <2>1, <2>4, <2>6, <2>7 DEF OneBit
<1>3. CASE ~(d.bc > 0)
  <2> DEFINE w == [i \in 1 .. 4 |-> Src(d, d.ilen + i - 1)]
             y == Bit(Src(d, d.ilen + 3), 128)
             f == Fetched(d, 4)
             e == [f EXCEPT !.bc = 31, !.word = w, !.bit = y]
  <2>1. getbit_le32(d) = e
    BY <1>3 DEF getbit_le32
  <2>2. y \in {0, 1}
    BY BitIsBit
  <2>3. w \in Seq(Byte)
    <3>1. ASSUME NEW i \in 1 .. 4 PROVE Src(d, d.ilen + i - 1) \in Byte
      <4>1. d.ilen + i - 1 \in Nat /\ d.ilen <= d.ilen + i - 1
        BY <1>1
      <4> QED
        BY <4>1, SrcByte
    <3>2. w \in [1 .. 4 -> Byte]
      BY <3>1
    <3> HIDE DEF w
    <3> QED
      BY <3>2, SeqDef
  <2>4. f \in Decoders /\ Steady(f) /\ BitRead(d, f) /\ f.ilen = d.ilen + 4
    <3>1. f.off = d.off /\ f.len = d.len /\ f.last = d.last /\ f.at = d.at
      BY <1>1 DEF Fetched, Decoders
    <3> QED
      BY <3>1, FetchedFacts DEF BitRead
  <2> HIDE DEF w, y, f
  <2>5. e \in Decoders
    BY <2>2, <2>3, <2>4, WordTyped
  <2>6. /\ SameCall(f, e) /\ e.olen = f.olen /\ e.ops = f.ops /\ e.r = f.r /\ e.ilen = f.ilen
        /\ e.late = f.late /\ e.off = f.off /\ e.len = f.len /\ e.last = f.last /\ e.at = f.at
        /\ e.bc = 31
    BY <2>4 DEF SameCall, Decoders
  <2> HIDE DEF e
  <2>7. Steady(e) /\ BitRead(d, e)
    BY <2>4, <2>5, <2>6, BitTaken
  <2>8. \A k \in 0 .. 6 : Ahead(e, k) /\ ~Ahead(d, k + 1)
    BY <1>1, <1>3, <2>6, <2>7 DEF Ahead, BitRead, ReadsOnly, SameCall
  <2> QED
    BY <1>3, <2>1, <2>4, <2>6, <2>7, <2>8 DEF OneBit
<1> QED
  BY <1>2, <1>3

(* A bit can be had in time, and leaves one less to be had. *)
LEMMA GetBit ==
  ASSUME NEW k \in 0 .. 6, NEW d, Live(d, k + 1)
  PROVE  Live(getbit(d), k) /\ BitRead(d, getbit(d)) /\ getbit(d).bit \in {0, 1}
<1> DEFINE e == getbit(d)
<1>1. Steady(d) /\ d.r = "go" /\ d \in Decoders /\ d.width \in {8, 16, 32}
  BY FieldTypes DEF Live, Steady, Widths
<1>2. OneBit(d, e)
  <2>1. CASE d.width = 8
    BY <1>1, <2>1, GetBit8 DEF getbit
  <2>2. CASE d.width = 16
    BY <1>1, <2>2, GetBit16 DEF getbit
  <2>3. CASE d.width = 32
    BY <1>1, <2>3, GetBit32 DEF getbit
  <2> QED
    BY <1>1, <2>1, <2>2, <2>3
<1> HIDE DEF e
<1>3. Steady(e) /\ BitRead(d, e) /\ e \in Decoders /\ e.bit \in {0, 1}
  BY <1>2, FieldTypes DEF OneBit, Steady
<1>4. /\ d.ilen \in Nat /\ d.srclen \in Nat /\ d.width \div 8 \in {1, 2, 4}
      /\ e.width = d.width /\ e.mode = d.mode /\ e.srclen = d.srclen /\ e.r = "go"
  BY <1>1, <1>3, FieldTypes DEF BitRead, ReadsOnly, SameCall
<1>5. Pace(e, k)
  BY <1>2, <1>4 DEF OneBit, Live, Pace
<1> QED
  BY <1>3, <1>4, <1>5 DEF Live, e

------------------------------------------------------------------------------
(* Bits that stay in the buffer, digits, and failures *)

(* More bits than are needed are enough. *)
LEMMA Enough ==
  ASSUME NEW k \in 0 .. 7, NEW d, Live(d, k)
  PROVE  \A j \in 0 .. 2 : j <= k => Live(d, j)
<1> SUFFICES ASSUME NEW j \in 0 .. 2, j <= k, Ahead(d, k) PROVE Ahead(d, j)
  BY DEF Live, Pace
<1>1. d.width \in {8, 16, 32} /\ d.bb \in Nat /\ d.bc \in Nat
  BY FieldTypes DEF Live, Steady, Widths
<1>0. j = 0 \/ j = 1 \/ j = 2
  OBVIOUS
<1>2. CASE j = 0
  BY <1>2 DEF Ahead
<1>3. CASE j = 1 /\ k = 1
  BY <1>1, <1>3 DEF Ahead
<1>4. CASE j = 1 /\ k = 2
  BY <1>1, <1>4 DEF Ahead
<1>5. CASE j = 1 /\ k = 3
  BY <1>1, <1>5 DEF Ahead
<1>6. CASE j = 1 /\ k = 4
  BY <1>1, <1>6 DEF Ahead
<1>7. CASE j = 1 /\ k = 5
  BY <1>1, <1>7 DEF Ahead
<1>8. CASE j = 1 /\ k = 6
  BY <1>1, <1>8 DEF Ahead
<1>9. CASE j = 1 /\ k = 7
  BY <1>1, <1>9 DEF Ahead
<1>10. CASE j = 2 /\ k = 2
  BY <1>1, <1>10 DEF Ahead
<1>11. CASE j = 2 /\ k = 3
  BY <1>1, <1>11 DEF Ahead
<1>12. CASE j = 2 /\ k = 4
  BY <1>1, <1>12 DEF Ahead
<1>13. CASE j = 2 /\ k = 5
  BY <1>1, <1>13 DEF Ahead
<1>14. CASE j = 2 /\ k = 6
  BY <1>1, <1>14 DEF Ahead
<1>15. CASE j = 2 /\ k = 7
  BY <1>1, <1>15 DEF Ahead
<1>16. k = 0 \/ k = 1 \/ k = 2 \/ k = 3 \/ k = 4 \/ k = 5 \/ k = 6 \/ k = 7
  OBVIOUS
<1> QED
  BY <1>0, <1>2, <1>3, <1>4, <1>5, <1>6, <1>7, <1>8, <1>9, <1>10, <1>11, <1>12, <1>13, <1>14, <1>15, <1>16

(* With input left any number of bits can be had. *)
LEMMA InputLeft ==
  ASSUME NEW d, Steady(d), d.r = "go", d.mode # "fast" => d.ilen <= d.srclen, NEW k
  PROVE  Live(d, k)
BY DEF Live, Pace

(* What the next bits are depends on these fields only. *)
LEMMA StaysLive ==
  ASSUME NEW k, NEW d, Live(d, k), NEW e, ReadsOnly(d, e),
         e.ilen = d.ilen, e.late = d.late, e.bb = d.bb, e.bc = d.bc
  PROVE  Live(e, k)
<1>1. Steady(e)
  BY StaysSteady DEF Live
<1> QED
  BY <1>1 DEF Live, Pace, Ahead, ReadsOnly, SameCall

(* Another digit of a length. *)
LEMMA LenBitFacts ==
  ASSUME NEW k \in 0 .. 6, NEW d, Live(d, k + 1), NEW m \in Nat
  PROVE  LET e == LenBit(d, m)
         IN Live(e, k) /\ ReadsOnly(d, e) /\ e.off = d.off /\ e.at = d.at
<1> DEFINE f == getbit(d)
           x == 2 * m + f.bit
           e == [f EXCEPT !.len = x]
<1>1. Live(f, k) /\ BitRead(d, f) /\ f.bit \in {0, 1} /\ f \in Decoders
  BY GetBit DEF Live, Steady
<1>2. LenBit(d, m) = e
  BY DEF LenBit
<1> HIDE DEF f
<1>3. x \in Nat
  BY <1>1
<1> HIDE DEF x
<1>4. e \in Decoders
  BY <1>1, <1>3, LenTyped
<1>5. /\ SameCall(f, e) /\ e.olen = f.olen /\ e.ops = f.ops /\ e.r = f.r /\ e.ilen = f.ilen
      /\ e.late = f.late /\ e.off = f.off /\ e.at = f.at /\ e.bb = f.bb /\ e.bc = f.bc
  BY <1>1 DEF SameCall, Decoders
<1> HIDE DEF e
<1>6. f.ilen \in Nat
  BY <1>1, FieldTypes
<1>7. ReadsOnly(f, e) /\ ReadsOnly(d, e)
  BY <1>1, <1>4, <1>5, <1>6 DEF BitRead, ReadsOnly, SameCall
<1>8. Live(e, k)
  BY <1>1, <1>5, <1>7, StaysLive
<1> QED
  BY <1>1, <1>2, <1>5, <1>7, <1>8 DEF BitRead

(* Another digit of an offset. *)
LEMMA OffBitFacts ==
  ASSUME NEW k \in 0 .. 6, NEW d, Live(d, k + 1), NEW m \in Nat
  PROVE  LET e == OffBit(d, m)
         IN Live(e, k) /\ ReadsOnly(d, e) /\ e.off >= 2 * m /\ e.at = d.at
<1> DEFINE f == getbit(d)
           x == 2 * m + f.bit
           e == [f EXCEPT !.off = x]
<1>1. Live(f, k) /\ BitRead(d, f) /\ f.bit \in {0, 1} /\ f \in Decoders
  BY GetBit DEF Live, Steady
<1>2. OffBit(d, m) = e
  BY DEF OffBit
<1> HIDE DEF f
<1>3. x \in Nat /\ x >= 2 * m
  BY <1>1
<1> HIDE DEF x
<1>4. e \in Decoders
  BY <1>1, <1>3, OffTyped
<1>5. /\ SameCall(f, e) /\ e.olen = f.olen /\ e.ops = f.ops /\ e.r = f.r /\ e.ilen = f.ilen
      /\ e.late = f.late /\ e.off = x /\ e.at = f.at /\ e.bb = f.bb /\ e.bc = f.bc
  BY <1>1 DEF SameCall, Decoders
<1> HIDE DEF e
<1>6. f.ilen \in Nat
  BY <1>1, FieldTypes
<1>7. ReadsOnly(f, e) /\ ReadsOnly(d, e)
  BY <1>1, <1>4, <1>5, <1>6 DEF BitRead, ReadsOnly, SameCall
<1>8. Live(e, k)
  BY <1>1, <1>5, <1>7, StaysLive
<1> QED
  BY <1>1, <1>2, <1>3, <1>5, <1>7, <1>8 DEF BitRead

(* A decompressor that has returned. *)
Stopped(d) == Steady(d) /\ d.r # "go" /\ Pace(d, 0)

(* It keeps the invariant. *)
LEMMA StoppedReady == ASSUME NEW d, Stopped(d) PROVE Ready(d)
BY DEF Stopped, Ready

(* A check that fails stops it. *)
LEMMA Stops ==
  ASSUME NEW d, Live(d, 0), NEW code \in Results \ {"go"}
  PROVE  Stopped([d EXCEPT !.r = code])
<1> DEFINE e == [d EXCEPT !.r = code]
<1>1. d \in Decoders
  BY DEF Live, Steady
<1>2. e \in Decoders
  BY <1>1, ResultTyped
<1>3. /\ SameCall(d, e) /\ e.olen = d.olen /\ e.ops = d.ops /\ e.r = code /\ e.ilen = d.ilen
      /\ e.late = d.late
  BY <1>1 DEF SameCall, Decoders
<1> HIDE DEF e
<1>4. Text(e)
  BY <1>3 DEF Live, Steady, Text, SameCall
<1>5. Place(e)
  BY <1>3 DEF Live, Steady, Place, SameCall
<1>6. Pace(e, 0)
  BY <1>3 DEF Live, Pace, SameCall, Ahead
<1>7. Steady(e)
  BY <1>2, <1>3, <1>4, <1>5 DEF Live, Steady, SameCall
<1> QED
  BY <1>3, <1>6, <1>7 DEF Stopped, e

(* The checks in the loop over the digits of an offset: if they pass there is *)
(* input left.                                                                *)
LEMMA OffChecksFacts ==
  ASSUME NEW d, Live(d, 0)
  PROVE  LET e == OffChecks(d)
         IN \/ e = d /\ (d.mode # "fast" => d.ilen < d.srclen)
            \/ Stopped(e)
<1>1. d \in Decoders /\ d.r = "go" /\ d.ilen \in Nat /\ d.srclen \in Nat
  BY FieldTypes DEF Live, Steady
<1>2. CASE d.mode # "fast" /\ d.ilen >= d.srclen
  <2> DEFINE f == [d EXCEPT !.r = "INPUT_OVERRUN"]
  <2>1. Stopped(f)
    BY Stops DEF Results
  <2>2. Fail(d, d.ilen >= d.srclen, "INPUT_OVERRUN") = f
    BY <1>1, <1>2 DEF Fail
  <2> HIDE DEF f
  <2>3. OffChecks(d) = f
    BY <2>1, <2>2 DEF OffChecks, Fail, Stopped
  <2> QED
    BY <2>1, <2>3
<1>3. CASE ~(d.mode # "fast" /\ d.ilen >= d.srclen)
  <2>1. Fail(d, d.ilen >= d.srclen, "INPUT_OVERRUN") = d
    BY <1>3 DEF Fail
  <2>2. \/ OffChecks(d) = d
        \/ OffChecks(d) = [d EXCEPT !.r = "LOOKBEHIND_OVERRUN"]
    BY <2>1 DEF OffChecks, Fail
  <2>3. Stopped([d EXCEPT !.r = "LOOKBEHIND_OVERRUN"])
    BY Stops DEF Results
  <2> QED
    BY <1>1, <1>3, <2>2, <2>3
<1> QED
  BY <1>2, <1>3

------------------------------------------------------------------------------
(* The byte of an offset *)

(* Between the digits of an offset and those of the length. *)
LEMMA ReadByteFacts ==
  ASSUME NEW d, Live(d, 0), d.off >= 3, NEW per \in {128, 256}
  PROVE  LET e == ReadByte(d, per)
         IN Live(e, 7) \/ Stopped(e)
<1> DEFINE f == Fail(d, d.ilen >= d.srclen, "INPUT_OVERRUN")
           g == Fetched(f, 1)
           c == Src(d, d.ilen)
           hi == d.off - 3
           far == IF hi >= TooFar \div per THEN TooFar ELSE hi * per + (c * per) \div 256 + 1
           e == ReadByte(d, per)
<1>1. /\ d \in Decoders /\ d.r = "go" /\ d.ilen \in Nat /\ d.srclen \in Nat /\ d.off \in Nat
      /\ Steady(d)
  BY FieldTypes DEF Live, Steady
<1>2. c \in Byte
  BY <1>1, SrcByte
<1>3. CASE d.mode # "fast" /\ d.ilen >= d.srclen
  <2>1. f = [d EXCEPT !.r = "INPUT_OVERRUN"]
    BY <1>1, <1>3 DEF Fail
  <2>2. Stopped(f)
    BY <2>1, Stops DEF Results
  <2> HIDE DEF f
  <2>3. f.r # "go"
    BY <2>2 DEF Stopped
  <2>4. ReadByte(d, per) = f
    BY <2>3 DEF ReadByte, f
  <2> QED
    BY <2>2, <2>4
<1>4. CASE ~(d.mode # "fast" /\ d.ilen >= d.srclen)
  <2>1. f = d
    BY <1>4 DEF Fail
  <2>2. g \in Decoders /\ Steady(g) /\ ReadsOnly(d, g) /\ g.ilen = d.ilen + 1
    BY <1>1, <2>1, FetchedFacts
  <2>3. Live(g, 7) /\ Live(g, 0) /\ g.r = "go" /\ (g.mode # "fast" => g.ilen <= g.srclen)
    <3>1. g.r = "go" /\ (g.mode # "fast" => g.ilen <= g.srclen)
      BY <1>1, <1>4, <2>2 DEF ReadsOnly, SameCall
    <3> QED
      BY <2>2, <3>1, InputLeft
  <2>4. far \in Nat /\ 1 - (c % 2) \in Nat
    BY <1>1, <1>2 DEF Byte, TooFar
  <2>5. \/ e = ReadEnd(g)
        \/ e = [g EXCEPT !.off = far, !.last = far, !.len = 1 - (c % 2)]
    <3>1. CASE hi = 16777215 /\ c = 255
      BY <1>1, <2>1, <3>1 DEF ReadByte
    <3>2. CASE ~(hi = 16777215 /\ c = 255)
      BY <1>1, <2>1, <3>2 DEF ReadByte
    <3> QED
      BY <3>1, <3>2
  <2> HIDE DEF f, g, c, far, e
  <2>6. CASE e = ReadEnd(g)
    <3> DEFINE x == CASE g.ilen = g.srclen -> "OK" [] g.ilen < g.srclen -> "INPUT_NOT_CONSUMED"
                      [] OTHER -> "INPUT_OVERRUN"
    <3>1. x \in Results \ {"go"}
      BY DEF Results
    <3>2. e = [g EXCEPT !.r = x]
      BY <2>6 DEF ReadEnd
    <3> HIDE DEF x
    <3> QED
      BY <2>3, <3>1, <3>2, Stops DEF e
  <2>7. CASE e = [g EXCEPT !.off = far, !.last = far, !.len = 1 - (c % 2)]
    <3> DEFINE y == 1 - (c % 2)
               h == [g EXCEPT !.off = far, !.last = far, !.len = y]
    <3>1. y \in Nat /\ e = h
      BY <2>4, <2>7
    <3> HIDE DEF y
    <3>2. h \in Decoders
      BY <2>2, <2>4, <3>1, FarTyped
    <3>3. /\ SameCall(g, h) /\ h.olen = g.olen /\ h.ops = g.ops /\ h.r = g.r /\ h.ilen = g.ilen
          /\ h.late = g.late /\ h.bb = g.bb /\ h.bc = g.bc
      BY <2>2 DEF SameCall, Decoders
    <3> HIDE DEF h
    <3>4. g.ilen \in Nat
      BY <2>2, FieldTypes
    <3>5. ReadsOnly(g, h)
      BY <3>2, <3>3, <3>4 DEF ReadsOnly
    <3>6. Live(h, 7)
      BY <2>3, <3>3, <3>5, StaysLive
    <3> QED
      BY <3>1, <3>6 DEF e
  <2> QED
    BY <2>5, <2>6, <2>7
<1> QED
  BY <1>3, <1>4

(* The offset is the last one again. *)
LEMMA OffAgain ==
  ASSUME NEW k, NEW d, Live(d, k)
  PROVE  Live([d EXCEPT !.off = d.last], k)
<1> DEFINE e == [d EXCEPT !.off = d.last]
<1>1. d \in Decoders /\ d.last \in Nat /\ d.ilen \in Nat
  BY FieldTypes DEF Live, Steady
<1>2. e \in Decoders
  BY <1>1, OffTyped
<1>3. /\ SameCall(d, e) /\ e.olen = d.olen /\ e.ops = d.ops /\ e.r = d.r /\ e.ilen = d.ilen
      /\ e.late = d.late /\ e.bb = d.bb /\ e.bc = d.bc
  BY <1>1 DEF SameCall, Decoders
<1> HIDE DEF e
<1>4. ReadsOnly(d, e)
  BY <1>1, <1>2, <1>3 DEF ReadsOnly
<1>5. Live(e, k)
  BY <1>3, <1>4, StaysLive
<1> QED
  BY <1>5 DEF e

(* Then five bits at least can be had. *)
LEMMA OffsetFacts ==
  ASSUME NEW d, Live(d, 6), d.off >= 2
  PROVE  /\ Live(Offset2b(d), 6) \/ Live(Offset2b(d), 7) \/ Stopped(Offset2b(d))
         /\ Live(Offset2d(d), 5) \/ Live(Offset2d(d), 7) \/ Stopped(Offset2d(d))
<1>1. d.off \in Nat /\ Live(d, 0)
  BY Enough, FieldTypes DEF Live, Steady
<1>2. CASE d.off = 2
  <2>1. Live([d EXCEPT !.off = d.last], 5 + 1)
    BY OffAgain
  <2>2. Live(LenBit([d EXCEPT !.off = d.last], 0), 5)
    BY <2>1, LenBitFacts
  <2> QED
    BY <1>2, <2>1, <2>2 DEF Offset2b, Offset2d
<1>3. CASE d.off # 2
  <2>1. d.off >= 3
    BY <1>1, <1>3
  <2>2. /\ Live(ReadByte(d, 256), 7) \/ Stopped(ReadByte(d, 256))
        /\ Live(ReadByte(d, 128), 7) \/ Stopped(ReadByte(d, 128))
    BY <1>1, <2>1, ReadByteFacts
  <2> QED
    BY <1>3, <2>2 DEF Offset2b, Offset2d
<1> QED
  BY <1>2, <1>3

------------------------------------------------------------------------------
(* Literals and copies *)

(* Every copy starts in the text before it. *)
InText(s) == \A i \in DOMAIN s : s[i].op = "copy" => s[i].off <= TextLen(SubSeq(s, 1, i - 1))

(* The length and the copies of a text with one more operation. *)
LEMMA StaysInText ==
  ASSUME NEW s \in Seq(Ops), NEW o \in Ops
  PROVE  /\ Append(s, o) \in Seq(Ops) /\ TextLen(s) \in Nat
         /\ TextLen(Append(s, o)) = TextLen(s) + o.len
         /\ InText(s) /\ (o.op = "copy" => o.off <= TextLen(s)) => InText(Append(s, o))
<1> DEFINE t == Append(s, o)
<1>1. t \in Seq(Ops) /\ Len(t) = Len(s) + 1 /\ DOMAIN t = 1 .. Len(s) + 1 /\ Len(s) \in Nat
  OBVIOUS
<1>2. \A i \in 1 .. Len(s) : t[i] = s[i] /\ SubSeq(t, 1, i - 1) = SubSeq(s, 1, i - 1)
  OBVIOUS
<1>3. t[Len(s) + 1] = o /\ SubSeq(t, 1, Len(s) + 1 - 1) = s
  OBVIOUS
<1>4. ASSUME InText(s), o.op = "copy" => o.off <= TextLen(s) PROVE InText(t)
  <2> SUFFICES ASSUME NEW i \in 1 .. Len(s) + 1, t[i].op = "copy"
               PROVE  t[i].off <= TextLen(SubSeq(t, 1, i - 1))
    BY <1>1 DEF InText
  <2> HIDE DEF t
  <2>1. CASE i = Len(s) + 1
    <3>1. t[i] = o /\ SubSeq(t, 1, i - 1) = s
      BY <1>3, <2>1
    <3> QED
      BY <1>4, <3>1
  <2>2. CASE i # Len(s) + 1
    <3>1. i \in 1 .. Len(s) /\ i \in DOMAIN s
      BY <1>1, <2>2
    <3>2. t[i] = s[i] /\ SubSeq(t, 1, i - 1) = SubSeq(s, 1, i - 1)
      BY <1>2, <3>1
    <3> QED
      BY <1>4, <3>1, <3>2 DEF InText
  <2> QED
    BY <2>1, <2>2
<1> QED
  BY <1>1, <1>4, TextLenFacts

(* Room for an operation was checked for: a copy of len + 1 bytes, a literal *)
(* of len + 1 = 1.                                                           *)
LEMMA Written ==
  ASSUME NEW d \in Decoders, Text(d), NEW len \in Nat, NEW o \in Ops, o.len = len + 1,
         d.mode # "fast" => d.olen + len <= d.oend /\ (o.op = "copy" => o.off <= d.olen),
         NEW e, SameCall(d, e), e.olen = d.olen + len + 1, e.ops = Append(d.ops, o)
  PROVE  Text(e)
<1>1. d.ops \in Seq(Ops) /\ d.olen \in Nat /\ d.oend \in Nat /\ d.olen = TextLen(d.ops)
  BY FieldTypes DEF Text
<1>2. e.olen = TextLen(e.ops)
  BY <1>1, StaysInText
<1>3. ASSUME d.mode # "fast" PROVE e.olen <= e.oend + 1 /\ InText(e.ops)
  <2>1. InText(d.ops)
    BY <1>3 DEF Text, InText
  <2> QED
    BY <1>1, <1>3, <2>1, StaysInText DEF SameCall
<1> QED
  BY <1>2, <1>3 DEF Text, InText, SameCall

(* A copy, with bits enough for the next operation. *)
LEMMA DoCopyFacts ==
  ASSUME NEW d, Live(d, 2), NEW n \in Nat
  PROVE  Ready(DoCopy(d, n))
<1> DEFINE len == n + Flag(d.off > M2(d.method))
           f == Fail(d, d.olen + len > d.oend, "OUTPUT_OVERRUN")
           d1 == Fail(f, d.off > d.olen, "LOOKBEHIND_OVERRUN")
           o == Copy(len + 1, d.off)
           d2 == [d1 EXCEPT !.olen = @ + len + 1, !.ops = Append(@, o), !.at = "op"]
           g == Fail(d2, d2.mode = "overlap" /\ d2.olen > d2.ilen, "OVERLAP_OVERRUN")
<1>1. DoCopy(d, n) = IF d1.r # "go" THEN d1 ELSE g
  BY DEF DoCopy
<1>2. len \in Nat
  BY DEF Flag
<1> HIDE DEF len
<1>3. /\ d \in Decoders /\ d.r = "go" /\ d.off \in Nat /\ d.olen \in Nat /\ d.oend \in Nat
      /\ d.ops \in Seq(Ops) /\ d.ilen \in Nat
  BY FieldTypes DEF Live, Steady
<1>4. Live(d, 0) /\ Live(d, 2) /\ Text(d)
  BY Enough DEF Live, Steady
<1>5. \/ Stopped(d1)
      \/ d1 = d /\ (d.mode # "fast" => d.olen + len <= d.oend /\ d.off <= d.olen)
  <2>1. CASE d.mode # "fast" /\ d.olen + len > d.oend
    <3>1. f = [d EXCEPT !.r = "OUTPUT_OVERRUN"]
      BY <1>3, <2>1 DEF Fail
    <3>2. Stopped(f)
      BY <1>4, <3>1, Stops DEF Results
    <3> HIDE DEF f
    <3> QED
      BY <3>2 DEF Stopped, Fail
  <2>2. CASE ~(d.mode # "fast" /\ d.olen + len > d.oend)
    <3>1. f = d
      BY <2>2 DEF Fail
    <3>2. Stopped([d EXCEPT !.r = "LOOKBEHIND_OVERRUN"])
      BY <1>4, Stops DEF Results
    <3> HIDE DEF f
    <3>3. d1 = [d EXCEPT !.r = "LOOKBEHIND_OVERRUN"] \/ (d1 = d /\ (d.mode # "fast" => ~(d.off > d.olen)))
      BY <1>3, <3>1 DEF Fail
    <3> QED
      BY <1>2, <1>3, <2>2, <3>2, <3>3
  <2> QED
    BY <2>1, <2>2
<1> HIDE DEF d1
<1>6. CASE Stopped(d1)
  <2>1. d1.r # "go"
    BY <1>6 DEF Stopped
  <2> QED
    BY <1>1, <1>6, <2>1, StoppedReady
<1>7. CASE d1 = d /\ (d.mode # "fast" => d.olen + len <= d.oend /\ d.off <= d.olen)
  <2> DEFINE x == d.olen + len + 1
             s == Append(d.ops, o)
             e == [d EXCEPT !.olen = x, !.ops = s, !.at = "op"]
  <2>1. d2 = e
    BY <1>7
  <2>2. o \in Ops /\ o.len = len + 1 /\ o.off = d.off
    BY <1>2, <1>3 DEF Ops, Copy, Byte
  <2> HIDE DEF o
  <2>3. x \in Nat /\ s \in Seq(Ops)
    BY <1>2, <1>3, <2>2
  <2> HIDE DEF d2, g, x, s
  <2>4. e \in Decoders
    BY <1>3, <2>3, CopyTyped
  <2>5. /\ SameCall(d, e) /\ e.olen = x /\ e.ops = s /\ e.r = d.r /\ e.ilen = d.ilen
        /\ e.late = d.late /\ e.bb = d.bb /\ e.bc = d.bc /\ e.at = "op"
    BY <1>3 DEF SameCall, Decoders
  <2>6. \/ g = [e EXCEPT !.r = "OVERLAP_OVERRUN"]
        \/ g = e /\ ~(e.mode = "overlap" /\ e.olen > e.ilen)
    <3> HIDE DEF e
    <3> QED
      BY <1>3, <2>1, <2>5 DEF g, Fail
  <2> DEFINE h == [e EXCEPT !.r = "OVERLAP_OVERRUN"]
  <2>7. h \in Decoders
    <3> HIDE DEF e
    <3> QED
      BY <2>4, ResultTyped DEF Results
  <2>8. /\ SameCall(d, h) /\ h.olen = x /\ h.ops = s /\ h.r = "OVERLAP_OVERRUN" /\ h.ilen = d.ilen
        /\ h.late = d.late
    <3> HIDE DEF e
    <3> QED
      BY <2>4, <2>5 DEF SameCall, Decoders
  <2> HIDE DEF e, h
  <2>9. Text(e) /\ Text(h)
    BY <1>2, <1>3, <1>4, <1>7, <2>2, <2>5, <2>8, Written DEF x, s
  <2>10. CASE g = h
    <3>1. Place(h)
      BY <2>8 DEF Live, Steady, Place, SameCall
    <3>2. Pace(h, 0)
      BY <1>4, <2>8 DEF Live, Pace, SameCall, Ahead
    <3>3. Steady(h)
      BY <2>7, <2>8, <2>9, <3>1 DEF Live, Steady, SameCall
    <3>4. Stopped(h)
      BY <2>8, <3>2, <3>3 DEF Stopped
    <3> QED
      BY <1>1, <1>3, <1>7, <2>10, <3>4, StoppedReady
  <2>11. CASE g = e /\ ~(e.mode = "overlap" /\ e.olen > e.ilen)
    <3>1. Place(e)
      BY <1>3, <2>3, <2>5, <2>11 DEF Live, Steady, Place, SameCall
    <3>2. Pace(e, 0) /\ Pace(e, 2)
      BY <1>4, <2>5 DEF Live, Pace, SameCall, Ahead
    <3>3. Steady(e)
      BY <2>4, <2>5, <2>9, <3>1 DEF Live, Steady, SameCall
    <3>4. Ready(e)
      BY <2>5, <3>2, <3>3 DEF Ready, Needed
    <3> QED
      BY <1>1, <1>3, <1>7, <2>11, <3>4
  <2> QED
    BY <2>6, <2>10, <2>11 DEF h
<1> QED
  BY <1>5, <1>6, <1>7

(* A literal. *)
LEMMA DoLitFacts ==
  ASSUME NEW d, Live(d, 0), d.at = "op"
  PROVE  Ready(DoLit(d))
<1> DEFINE f == Fail(d, d.ilen >= d.srclen, "INPUT_OVERRUN")
           d1 == Fail(f, d.olen >= d.oend, "OUTPUT_OVERRUN")
           d2 == Fail(d1, d1.mode = "overlap" /\ d1.olen > d1.ilen, "OVERLAP_OVERRUN")
           o == Lit(Src(d, d.ilen))
           g == [Fetched(d2, 1) EXCEPT !.olen = @ + 1, !.ops = Append(@, o)]
<1>1. DoLit(d) = IF d2.r # "go" THEN d2 ELSE g
  BY DEF DoLit
<1>2. /\ d \in Decoders /\ d.r = "go" /\ d.olen \in Nat /\ d.oend \in Nat
      /\ d.ops \in Seq(Ops) /\ d.ilen \in Nat /\ d.srclen \in Nat /\ Steady(d) /\ Text(d)
  BY FieldTypes DEF Live, Steady
<1>3. \/ Stopped(d1)
      \/ d1 = d /\ (d.mode # "fast" => d.ilen < d.srclen /\ d.olen < d.oend)
  <2>1. CASE d.mode # "fast" /\ d.ilen >= d.srclen
    <3>1. f = [d EXCEPT !.r = "INPUT_OVERRUN"]
      BY <1>2, <2>1 DEF Fail
    <3>2. Stopped(f)
      BY <3>1, Stops DEF Results
    <3> HIDE DEF f
    <3> QED
      BY <3>2 DEF Stopped, Fail
  <2>2. CASE ~(d.mode # "fast" /\ d.ilen >= d.srclen)
    <3>1. f = d
      BY <2>2 DEF Fail
    <3>2. Stopped([d EXCEPT !.r = "OUTPUT_OVERRUN"])
      BY Stops DEF Results
    <3> HIDE DEF f
    <3>3. d1 = [d EXCEPT !.r = "OUTPUT_OVERRUN"] \/ (d1 = d /\ (d.mode # "fast" => ~(d.olen >= d.oend)))
      BY <1>2, <3>1 DEF Fail
    <3> QED
      BY <1>2, <2>2, <3>2, <3>3
  <2> QED
    BY <2>1, <2>2
<1> HIDE DEF d1
<1>4. CASE Stopped(d1)
  <2>1. d1.r # "go"
    BY <1>4 DEF Stopped
  <2>2. d2 = d1
    BY <2>1 DEF Fail
  <2> QED
    BY <1>1, <1>4, <2>1, <2>2, StoppedReady
<1>5. CASE d1 = d /\ (d.mode # "fast" => d.ilen < d.srclen /\ d.olen < d.oend)
  <2>1. d.mode = "overlap" => d.olen <= d.ilen
    BY <1>2 DEF Steady, Place
  <2>2. d2 = d
    BY <1>2, <1>5, <2>1 DEF Fail
  <2> HIDE DEF d2
  <2> DEFINE h == Fetched(d, 1)
             x == d.olen + 1
             s == Append(d.ops, o)
             e == [h EXCEPT !.olen = x, !.ops = s]
  <2>3. h \in Decoders /\ Steady(h) /\ ReadsOnly(d, h) /\ h.ilen = d.ilen + 1 /\ h.at = "op"
    <3>1. h.at = d.at
      BY <1>2 DEF Fetched, Decoders
    <3> QED
      BY <1>2, <3>1, FetchedFacts
  <2>4. o \in Ops /\ o.len = 0 + 1 /\ o.op = "lit"
    <3>1. Src(d, d.ilen) \in Byte
      BY <1>2, SrcByte
    <3> QED
      BY <3>1 DEF Ops, Lit
  <2> HIDE DEF o, h
  <2>5. g = e
    BY <2>2, <2>3 DEF ReadsOnly, h
  <2>6. x \in Nat /\ s \in Seq(Ops)
    BY <1>2, <2>4
  <2> HIDE DEF g, s, x
  <2>7. e \in Decoders
    BY <2>3, <2>6, LitTyped
  <2>8. /\ SameCall(h, e) /\ e.olen = x /\ e.ops = s /\ e.r = h.r /\ e.ilen = h.ilen
        /\ e.late = h.late /\ e.at = "op"
    BY <2>3 DEF SameCall, Decoders
  <2> HIDE DEF e
  <2>9. SameCall(d, e) /\ e.ilen = d.ilen + 1 /\ e.r = "go" /\ e.olen = d.olen + 0 + 1
    BY <1>2, <2>3, <2>8 DEF ReadsOnly, SameCall, x
  <2>10. Text(e)
    <3>1. d.mode # "fast" => d.olen + 0 <= d.oend /\ (o.op = "copy" => o.off <= d.olen)
      BY <1>2, <1>5, <2>4
    <3> QED
      BY <1>2, <2>4, <2>8, <2>9, <3>1, Written DEF s
  <2>11. Place(e)
    <3>1. e.mode = "overlap" => e.late = 0
      BY <2>3, <2>8 DEF Steady, Place, SameCall
    <3> QED
      BY <1>2, <2>1, <2>9, <3>1 DEF Place, SameCall
  <2>12. Steady(e)
    BY <1>2, <2>3, <2>7, <2>8, <2>10, <2>11 DEF Steady, SameCall
  <2>13. \A k : Pace(e, k)
    BY <1>2, <1>5, <2>9 DEF Pace, SameCall
  <2>14. Ready(e)
    BY <2>8, <2>12, <2>13 DEF Ready
  <2> QED
    BY <1>1, <1>2, <2>2, <2>5, <2>14
<1> QED
  BY <1>3, <1>4, <1>5

------------------------------------------------------------------------------
(* Lengths *)

(* A long length follows. *)
LEMMA LongFacts ==
  ASSUME NEW d, Live(d, 1)
  PROVE  Ready(Long(d))
<1> DEFINE e == [d EXCEPT !.len = 1, !.at = "long"]
<1>1. d \in Decoders /\ d.ilen \in Nat
  BY FieldTypes DEF Live, Steady
<1>2. e \in Decoders
  BY <1>1, LongTyped
<1>3. /\ SameCall(d, e) /\ e.olen = d.olen /\ e.ops = d.ops /\ e.r = d.r /\ e.ilen = d.ilen
      /\ e.late = d.late /\ e.bb = d.bb /\ e.bc = d.bc /\ e.at = "long"
  BY <1>1 DEF SameCall, Decoders
<1> HIDE DEF e
<1>4. ReadsOnly(d, e)
  BY <1>1, <1>2, <1>3 DEF ReadsOnly
<1>5. Live(e, 1)
  BY <1>3, <1>4, StaysLive
<1>6. Live(e, 0)
  BY <1>5, Enough
<1>7. Ready(e)
  BY <1>3, <1>5, <1>6 DEF Ready, Live, Needed
<1> QED
  BY <1>7 DEF Long, e

(* One or two bits of the length, with five to be had. *)
LEMMA LengthFacts ==
  ASSUME NEW d, Live(d, 5) \/ Live(d, 6) \/ Live(d, 7)
  PROVE  Ready(Length2b(d)) /\ Ready(Length2d(d)) /\ Ready(Length2e(d))
<1>1. PICK k \in 3 .. 5 : Live(d, k + 2)
  <2>1. CASE Live(d, 5)
    BY <2>1
  <2>2. CASE Live(d, 6)
    BY <2>2
  <2>3. CASE Live(d, 7)
    BY <2>3
  <2> QED
    BY <2>1, <2>2, <2>3
<1>2. k \in 0 .. 6 /\ k + 1 \in 0 .. 6 /\ k \in 0 .. 7 /\ k + 1 \in 0 .. 7 /\ k + 2 = (k + 1) + 1
  OBVIOUS
<1>3. d.len \in Nat
  BY <1>1, FieldTypes DEF Live, Steady
<1>4. ASSUME NEW e, NEW j \in 3 .. 6, Live(e, j)
      PROVE  /\ e.len \in Nat /\ Ready(Long(e))
             /\ \A n \in Nat : Ready(DoCopy(e, n))
  <2>1. j \in 0 .. 7 /\ 1 <= j /\ 2 <= j
    OBVIOUS
  <2>2. Live(e, 1) /\ Live(e, 2)
    BY <1>4, <2>1, Enough
  <2>3. e.len \in Nat
    BY <1>4, FieldTypes DEF Live, Steady
  <2> QED
    BY <2>2, <2>3, DoCopyFacts, LongFacts
<1>5. Ready(Length2b(d))
  <2> DEFINE d1 == LenBit(d, 0)
             d2 == LenBit(d1, d1.len)
  <2>1. Live(d1, k + 1)
    BY <1>1, <1>2, LenBitFacts
  <2>2. d1.len \in Nat
    BY <1>4, <2>1
  <2> HIDE DEF d1
  <2>3. Live(d2, k)
    BY <1>2, <2>1, <2>2, LenBitFacts
  <2> HIDE DEF d2
  <2>4. Ready(IF d2.len = 0 THEN Long(d2) ELSE DoCopy(d2, d2.len))
    BY <1>4, <2>3
  <2> QED
    BY <2>4 DEF Length2b, d1, d2
<1>6. Ready(Length2d(d))
  <2> DEFINE d1 == LenBit(d, d.len)
  <2>1. Live(d1, k + 1)
    BY <1>1, <1>2, <1>3, LenBitFacts
  <2> HIDE DEF d1
  <2>2. Ready(IF d1.len = 0 THEN Long(d1) ELSE DoCopy(d1, d1.len))
    BY <1>4, <2>1
  <2> QED
    BY <2>2 DEF Length2d, d1
<1>7. Ready(Length2e(d))
  <2> DEFINE d1 == getbit(d)
             d2 == getbit(d1)
  <2>1. Live(d1, k + 1) /\ d1.bit \in {0, 1}
    BY <1>1, <1>2, GetBit
  <2> HIDE DEF d1
  <2>2. Live(d2, k) /\ d2.bit \in {0, 1}
    BY <1>2, <2>1, GetBit
  <2> HIDE DEF d2
  <2>3. 1 + d1.bit \in Nat /\ 3 + d2.bit \in Nat
    BY <2>1, <2>2
  <2>4. Ready(DoCopy(d1, 1 + d1.bit)) /\ Ready(DoCopy(d2, 3 + d2.bit)) /\ Ready(Long(d1))
    BY <1>4, <2>1, <2>2, <2>3
  <2>5. Ready(CASE d.len = 1 -> DoCopy(d1, 1 + d1.bit)
                [] d.len = 0 /\ d1.bit = 1 -> DoCopy(d2, 3 + d2.bit)
                [] OTHER -> Long(d1))
    BY <2>4
  <2> QED
    BY <2>5 DEF Length2e, d1, d2
<1> QED
  BY <1>5, <1>6, <1>7

(* The offset, then the length. *)
LEMMA MatchFacts ==
  ASSUME NEW d, Live(d, 6), d.off >= 2
  PROVE  Ready(Match(d))
<1>1. d.method \in {"2b", "2d", "2e"}
  BY FieldTypes DEF Live, Steady, Methods
<1>2. ASSUME NEW e, Live(e, 5) \/ Live(e, 6) \/ Live(e, 7) \/ Stopped(e)
      PROVE  /\ Ready(IF e.r = "go" THEN Length2b(e) ELSE e)
             /\ Ready(IF e.r = "go" THEN Length2d(e) ELSE e)
             /\ Ready(IF e.r = "go" THEN Length2e(e) ELSE e)
  <2>1. CASE Stopped(e)
    <3>1. e.r # "go" /\ Ready(e)
      BY <2>1, StoppedReady DEF Stopped
    <3> QED
      BY <3>1
  <2>2. CASE Live(e, 5) \/ Live(e, 6) \/ Live(e, 7)
    <3>1. e.r = "go"
      BY <2>2 DEF Live
    <3> QED
      BY <2>2, <3>1, LengthFacts
  <2> QED
    BY <1>2, <2>1, <2>2
<1>3. Ready(Match2b(d))
  <2> DEFINE e == Offset2b(d)
  <2>1. Live(e, 6) \/ Live(e, 7) \/ Stopped(e)
    BY OffsetFacts
  <2> HIDE DEF e
  <2>2. Ready(IF e.r = "go" THEN Length2b(e) ELSE e)
    BY <1>2, <2>1
  <2> QED
    BY <2>2 DEF Match2b, e
<1>4. Ready(Match2d(d)) /\ Ready(Match2e(d))
  <2> DEFINE e == Offset2d(d)
  <2>1. Live(e, 5) \/ Live(e, 7) \/ Stopped(e)
    BY OffsetFacts
  <2> HIDE DEF e
  <2>2. /\ Ready(IF e.r = "go" THEN Length2d(e) ELSE e)
        /\ Ready(IF e.r = "go" THEN Length2e(e) ELSE e)
    BY <1>2, <2>1
  <2> QED
    BY <2>2 DEF Match2d, Match2e, e
<1>5. CASE d.method = "2b"
  BY <1>3, <1>5 DEF Match
<1>6. CASE d.method = "2d"
  BY <1>4, <1>6 DEF Match
<1>7. CASE d.method = "2e"
  BY <1>4, <1>7 DEF Match
<1> QED
  BY <1>1, <1>5, <1>6, <1>7

------------------------------------------------------------------------------
(* The loops *)

(* Any number of bits can be had before the end of the input. *)
LEMMA LiveReady ==
  ASSUME NEW d, NEW k \in 2 .. 7, Live(d, k), d.at = "prefix" => d.off >= 1
  PROVE  Ready(d)
<1>1. k \in 0 .. 7 /\ 0 <= k /\ 1 <= k /\ 2 <= k
  OBVIOUS
<1>2. Live(d, 0) /\ Live(d, 1) /\ Live(d, 2)
  BY <1>1, Enough
<1> QED
  BY <1>2 DEF Live, Ready, Needed

(* Once round the loop over the digits of an offset. *)
LEMMA PrefixFacts ==
  ASSUME NEW d, Live(d, 1), d.at = "prefix", d.off >= 1
  PROVE  Ready(Prefix(d))
<1> DEFINE c == OffBit(d, d.off)
           d1 == OffChecks(c)
           d2 == getbit(d1)
           d3 == OffBit(d2, d2.off - 1)
<1>1. Prefix(d) = CASE d1.r # "go" -> d1
                    [] d1.r = "go" /\ d2.bit = 1 -> Match(d2)
                    [] OTHER -> IF d.method = "2b" THEN d2 ELSE d3
  BY DEF Prefix
<1>2. d.off \in Nat /\ d.off >= 1
  BY FieldTypes DEF Live, Steady
<1>3. Live(c, 0) /\ ReadsOnly(d, c) /\ c.off >= 2 * d.off /\ c.at = "prefix"
  BY <1>2, OffBitFacts
<1> HIDE DEF c
<1>4. (d1 = c /\ (c.mode # "fast" => c.ilen < c.srclen)) \/ Stopped(d1)
  BY <1>3, OffChecksFacts
<1> HIDE DEF d1, d3
<1>5. CASE Stopped(d1)
  <2>1. d1.r # "go" /\ Ready(d1)
    BY <1>5, StoppedReady DEF Stopped
  <2>2. Prefix(d) = d1
    <3> HIDE DEF d2
    <3> QED
      BY <1>1, <2>1
  <2> QED
    BY <2>1, <2>2
<1>6. CASE d1 = c /\ (c.mode # "fast" => c.ilen < c.srclen)
  <2>1. /\ Steady(c) /\ c.r = "go" /\ c.off \in Nat /\ c.ilen \in Nat /\ c.srclen \in Nat
        /\ c.off >= 2
    <3>1. Steady(c) /\ c.r = "go" /\ c \in Decoders
      BY <1>3 DEF Live, Steady
    <3>2. c.off \in Nat /\ c.ilen \in Nat /\ c.srclen \in Nat
      BY <3>1, FieldTypes
    <3> QED
      BY <1>2, <1>3, <3>1, <3>2
  <2>2. Live(d1, 6 + 1)
    BY <1>6, <2>1, InputLeft
  <2>3. Live(d2, 6) /\ BitRead(d1, d2) /\ d2.bit \in {0, 1}
    BY <2>2, GetBit
  <2> HIDE DEF d2
  <2>4. d2.off \in Nat /\ d2.off >= 2 /\ d2.at = "prefix"
    BY <1>3, <1>6, <2>1, <2>3 DEF BitRead
  <2>5. Ready(d2)
    BY <2>3, <2>4, LiveReady
  <2>6. Ready(Match(d2))
    BY <2>3, <2>4, MatchFacts
  <2>7. Ready(d3)
    <3> DEFINE m == d2.off - 1
    <3>1. m \in Nat /\ m >= 1 /\ Live(d2, 5 + 1) /\ d3 = OffBit(d2, m)
      BY <2>3, <2>4 DEF d3
    <3> HIDE DEF m
    <3>5. LET e == OffBit(d2, m)
          IN Live(e, 5) /\ ReadsOnly(d2, e) /\ e.off >= 2 * m /\ e.at = d2.at
      BY <3>1, OffBitFacts, 5 \in 0 .. 6
    <3>2. Live(d3, 5) /\ d3.off >= 2 * m /\ d3.at = "prefix"
      BY <2>4, <3>1, <3>5
    <3>3. d3.off \in Nat
      BY <3>2, FieldTypes DEF Live, Steady
    <3>4. d3.off >= 1
      BY <3>1, <3>2, <3>3
    <3> QED
      BY <3>2, <3>4, LiveReady
  <2>8. Prefix(d) \in {Match(d2), d2, d3}
    BY <1>1, <1>6, <2>1
  <2> QED
    BY <2>5, <2>6, <2>7, <2>8
<1> QED
  BY <1>4, <1>5, <1>6

(* Once round the loop over the digits of a long length. *)
LEMMA LongLenFacts ==
  ASSUME NEW d, Live(d, 1), d.at = "long"
  PROVE  Ready(LongLen(d))
<1> DEFINE d1 == LenBit(d, d.len)
           f == Fail(d1, d1.ilen >= d1.srclen, "INPUT_OVERRUN")
           d2 == Fail(f, d1.len >= d1.oend, "OUTPUT_OVERRUN")
           d3 == getbit(d2)
           n == d3.len + IF d.method = "2e" THEN 3 ELSE 2
<1>1. LongLen(d) = CASE d2.r # "go" -> d2
                     [] d2.r = "go" /\ d3.bit = 1 -> DoCopy(d3, n)
                     [] OTHER -> d3
  BY DEF LongLen
<1>2. d.len \in Nat
  BY FieldTypes DEF Live, Steady
<1>3. Live(d1, 0) /\ d1.at = "long"
  BY <1>2, LenBitFacts
<1> HIDE DEF d1
<1>4. d1.r = "go" /\ d1.ilen \in Nat /\ d1.srclen \in Nat /\ Steady(d1)
  BY <1>3, FieldTypes DEF Live, Steady
<1>5. (d2 = d1 /\ (d1.mode # "fast" => d1.ilen < d1.srclen)) \/ Stopped(d2)
  <2>1. CASE d1.mode # "fast" /\ d1.ilen >= d1.srclen
    <3>1. f = [d1 EXCEPT !.r = "INPUT_OVERRUN"]
      BY <1>4, <2>1 DEF Fail
    <3>2. Stopped(f)
      BY <1>3, <3>1, Stops DEF Results
    <3> HIDE DEF f
    <3> QED
      BY <3>2 DEF Stopped, Fail
  <2>2. CASE ~(d1.mode # "fast" /\ d1.ilen >= d1.srclen)
    <3>1. f = d1
      BY <2>2 DEF Fail
    <3>2. Stopped([d1 EXCEPT !.r = "OUTPUT_OVERRUN"])
      BY <1>3, Stops DEF Results
    <3> HIDE DEF f
    <3>3. d2 = [d1 EXCEPT !.r = "OUTPUT_OVERRUN"] \/ d2 = d1
      BY <3>1 DEF Fail
    <3> QED
      BY <1>4, <2>2, <3>2, <3>3
  <2> QED
    BY <2>1, <2>2
<1> HIDE DEF d2
<1>6. CASE Stopped(d2)
  <2>1. d2.r # "go" /\ Ready(d2)
    BY <1>6, StoppedReady DEF Stopped
  <2>2. LongLen(d) = d2
    <3> HIDE DEF d3, n
    <3> QED
      BY <1>1, <2>1
  <2> QED
    BY <2>1, <2>2
<1>7. CASE d2 = d1 /\ (d1.mode # "fast" => d1.ilen < d1.srclen)
  <2>1. Live(d2, 6 + 1) /\ d2.r = "go"
    BY <1>4, <1>7, InputLeft
  <2>2. Live(d3, 6) /\ BitRead(d2, d3)
    BY <2>1, GetBit
  <2> HIDE DEF d3
  <2>3. Live(d3, 2) /\ d3.at = "long" /\ d3.len \in Nat
    BY <1>3, <1>7, <2>2, Enough, FieldTypes DEF BitRead, Live, Steady
  <2>4. n \in Nat
    BY <2>3
  <2> HIDE DEF n
  <2>5. Ready(DoCopy(d3, n))
    BY <2>3, <2>4, DoCopyFacts
  <2>6. Ready(d3)
    BY <2>2, <2>3, LiveReady
  <2>7. LongLen(d) \in {DoCopy(d3, n), d3}
    BY <1>1, <2>1
  <2> QED
    BY <2>5, <2>6, <2>7
<1> QED
  BY <1>5, <1>6, <1>7

(* Once round the loop over literals and matches. *)
LEMMA NextOpFacts ==
  ASSUME NEW d, Live(d, 2), d.at = "op"
  PROVE  Ready(NextOp(d))
<1> DEFINE f == getbit(d)
           e == [f EXCEPT !.at = "prefix", !.off = 1]
<1>1. NextOp(d) = IF f.bit = 1 THEN DoLit(f) ELSE e
  BY DEF NextOp
<1>2. Live(d, 1 + 1)
  OBVIOUS
<1>3. Live(f, 1) /\ BitRead(d, f)
  BY <1>2, GetBit
<1> HIDE DEF f
<1>4. Live(f, 0) /\ f.at = "op" /\ f \in Decoders /\ f.ilen \in Nat
  BY <1>3, Enough, FieldTypes DEF BitRead, Live, Steady
<1>5. Ready(DoLit(f))
  BY <1>4, DoLitFacts
<1>6. e \in Decoders
  BY <1>4, PrefixTyped
<1>7. /\ SameCall(f, e) /\ e.olen = f.olen /\ e.ops = f.ops /\ e.r = f.r /\ e.ilen = f.ilen
      /\ e.late = f.late /\ e.bb = f.bb /\ e.bc = f.bc /\ e.at = "prefix" /\ e.off = 1
  BY <1>4 DEF SameCall, Decoders
<1> HIDE DEF e
<1>8. ReadsOnly(f, e)
  BY <1>4, <1>6, <1>7 DEF ReadsOnly
<1>9. Live(e, 1) /\ Live(e, 0)
  BY <1>3, <1>4, <1>7, <1>8, StaysLive
<1>10. Ready(e)
  BY <1>7, <1>9 DEF Live, Ready, Needed
<1> QED
  BY <1>1, <1>5, <1>10

(* Whatever the input, a decompressor stays ready. *)
LEMMA DecodeReady ==
  ASSUME NEW d, Ready(d), d.r = "go"
  PROVE  Ready(Decode(d))
<1>1. d.at \in {"op", "prefix", "long"}
  BY FieldTypes DEF Ready, Steady
<1>2. CASE d.at = "op"
  <2>1. Live(d, 2)
    BY <1>2 DEF Ready, Live, Needed
  <2> QED
    BY <1>2, <2>1, NextOpFacts DEF Decode
<1>3. CASE d.at = "prefix"
  <2>1. Live(d, 1) /\ d.off >= 1
    BY <1>3 DEF Ready, Live, Needed
  <2> QED
    BY <1>3, <2>1, PrefixFacts DEF Decode
<1>4. CASE d.at = "long"
  <2>1. Live(d, 1)
    BY <1>4 DEF Ready, Live, Needed
  <2> QED
    BY <1>4, <2>1, LongLenFacts DEF Decode
<1> QED
  BY <1>1, <1>2, <1>3, <1>4

(* It is when it is called. *)
LEMMA NewReady ==
  ASSUME NEW method \in Methods, NEW width \in Widths, NEW mode \in Modes, NEW src \in Seq(Byte),
         NEW srcoff \in Nat, NEW dstlen \in Nat, NEW pad \in Byte
  PROVE  Ready(NewDecoder(method, width, mode, src, srcoff, dstlen, pad))
<1> DEFINE d == NewDecoder(method, width, mode, src, srcoff, dstlen, pad)
           x == IF mode = "overlap" /\ dstlen >= Len(src) + srcoff THEN "OVERLAP_OVERRUN" ELSE "go"
<1>1. Len(src) \in Nat /\ Len(src) + srcoff \in Nat /\ x \in Results
  BY DEF Results
<1>2. <<>> \in Seq(Byte) /\ <<>> \in Seq(Ops)
  OBVIOUS
<1>3. d \in Decoders
  BY <1>1, <1>2 DEF NewDecoder, Decoders
<1>4. /\ d.srcoff = srcoff /\ d.ilen = srcoff /\ d.srclen = Len(src) + srcoff /\ d.src = src
      /\ d.ops = <<>> /\ d.olen = 0 /\ d.oend = dstlen /\ d.late = 0 /\ d.at = "op"
  BY DEF NewDecoder
<1> HIDE DEF d, x
<1>5. TextLen(<<>>) = 0
  <2>1. PICK f : Adds(f, <<>>, 0)
    BY SumExists
  <2>2. Len(<<>>) = 0
    OBVIOUS
  <2>3. TextLen(<<>>) = f[0]
    BY <2>1, <2>2, TextLenIs
  <2>4. f[0] = 0
    BY <2>1 DEF Adds
  <2> QED
    BY <2>3, <2>4
<1>6. Text(d)
  BY <1>4, <1>5 DEF Text
<1>7. Place(d)
  BY <1>4 DEF Place
<1>8. \A k : Pace(d, k)
  BY <1>1, <1>4 DEF Pace
<1>9. Steady(d)
  BY <1>3, <1>4, <1>6, <1>7 DEF Steady
<1>10. Ready(d)
  BY <1>4, <1>8, <1>9 DEF Ready
<1> QED
  BY <1>10 DEF d

(* A ready decompressor is within bounds. *)
LEMMA ReadyBounds ==
  ASSUME DecoderReady
  PROVE  SafeBounds /\ NothingOverwritten
<1>1. /\ dec \in Decoders /\ Text(dec) /\ Place(dec) /\ Pace(dec, 0)
      /\ dec.ilen \in Nat /\ dec.srclen \in Nat /\ dec.width \in {8, 16, 32}
  BY FieldTypes DEF DecoderReady, Ready, Steady, Widths
<1>2. ASSUME dec.mode # "fast" PROVE dec.ilen <= dec.srclen + dec.width \div 8
  BY <1>1, <1>2 DEF Pace
<1> QED
  BY <1>1, <1>2 DEF SafeBounds, NothingOverwritten, Text, Place

(* A decompressor called with any arguments and fed any bytes, by the library's *)
(* users or by uclpack, stays within the bounds of SafeBounds and reads nothing *)
(* that in-place decompression has overwritten.                                 *)
THEOREM AnyInputBounded == AnyInput => [](SafeBounds /\ NothingOverwritten)
<1>1. AnyCall => DecoderReady
  BY NewReady DEF AnyCall, DecoderReady
<1>2. DecoderReady /\ [dec.r = "go" /\ dec' = Decode(dec)]_dec => DecoderReady'
  <2>1. ASSUME DecoderReady, dec.r = "go" /\ dec' = Decode(dec) PROVE DecoderReady'
    BY <2>1, DecodeReady DEF DecoderReady
  <2>2. ASSUME DecoderReady, UNCHANGED dec PROVE DecoderReady'
    BY <2>2 DEF DecoderReady
  <2> QED
    BY <2>1, <2>2
<1>3. DecoderReady => SafeBounds /\ NothingOverwritten
  BY ReadyBounds
<1> QED
  BY <1>1, <1>2, <1>3, PTL DEF AnyInput

------------------------------------------------------------------------------
(* The library and uclpack *)

(* The literals and matches offered are operations. *)
LEMMA OfferedAreOps ==
  ASSUME NEW n
  PROVE  Offered(n) \subseteq Ops
BY UclAssumption DEF Offered, Lit, Copy, Ops, Byte

(* So are the long texts. *)
LEMMA StartsAreOps == Starts \subseteq Seq(Ops)
<1>1. <<>> \in Seq(Ops)
  OBVIOUS
<1>2. Lit(1) \in Ops /\ Copy(2048, 1) \in Ops
  BY DEF Lit, Copy, Ops, Byte
<1>3. ASSUME NEW n \in LongTexts
      PROVE  <<Lit(1)>> \o [i \in 1 .. n |-> Copy(2048, 1)] \in Seq(Ops)
  <2> DEFINE t == [i \in 1 .. n |-> Copy(2048, 1)]
  <2>1. n \in Nat
    BY UclAssumption
  <2>2. t \in [1 .. n -> Ops]
    BY <1>2
  <2> HIDE DEF t
  <2>3. t \in Seq(Ops)
    BY <2>1, <2>2, SeqDef
  <2>4. <<Lit(1)>> \in Seq(Ops)
    BY <1>2
  <2>5. <<Lit(1)>> \o t \in Seq(Ops)
    BY <2>3, <2>4
  <2> QED
    BY <2>5 DEF t
<1> SUFFICES ASSUME NEW s \in Starts PROVE s \in Seq(Ops)
  OBVIOUS
<1>4. s = <<>> \/ \E n \in LongTexts : s = <<Lit(1)>> \o [i \in 1 .. n |-> Copy(2048, 1)]
  BY Zenon DEF Starts
<1> QED
  BY <1>1, <1>3, <1>4

(* And the blocks with a tail. *)
LEMMA BlocksAreOps ==
  ASSUME NEW n \in Tails
  PROVE  Block(n) \in Seq(Ops)
<1> DEFINE t == [i \in 1 .. n |-> Lit(1)]
<1>1. Lit(1) \in Ops /\ Copy(24, 1) \in Ops
  BY DEF Lit, Copy, Ops, Byte
<1>2. n \in Nat /\ t \in [1 .. n -> Ops]
  BY <1>1, UclAssumption
<1> HIDE DEF t
<1>3. t \in Seq(Ops)
  BY <1>2, SeqDef
<1>4. <<Lit(1), Copy(24, 1)>> \in Seq(Ops)
  BY <1>1
<1>5. <<Lit(1), Copy(24, 1)>> \o t \in Seq(Ops)
  BY <1>3, <1>4
<1> QED
  BY <1>5 DEF Block, t

(* A word of the file. *)
LEMMA WordAtNat ==
  ASSUME packed \in Seq(Byte), NEW p \in Nat, p + 4 <= Len(packed)
  PROVE  WordAt(p) \in Nat
<1>1. p + 1 \in 1 .. Len(packed) /\ p + 2 \in 1 .. Len(packed) /\ p + 3 \in 1 .. Len(packed)
      /\ p + 4 \in 1 .. Len(packed)
  OBVIOUS
<1>2. /\ packed[p + 1] \in Nat /\ packed[p + 2] \in Nat /\ packed[p + 3] \in Nat
      /\ packed[p + 4] \in Nat
  <2>1. \A i \in 1 .. Len(packed) : packed[i] \in Byte
    OBVIOUS
  <2>2. \A c \in Byte : c \in Nat
    BY DEF Byte
  <2> QED
    BY <1>1, <2>1, <2>2
<1> DEFINE a == packed[p + 1]
           b == packed[p + 2]
           c == packed[p + 3]
           e == packed[p + 4]
<1> HIDE DEF a, b, c, e
<1>3. a \in Nat /\ b \in Nat /\ c \in Nat /\ e \in Nat
  BY <1>2 DEF a, b, c, e
<1>4. a * 16777216 + b * 65536 + c * 256 + e \in Nat
  BY <1>3, SMT
<1>5. WordAt(p) = IF a >= 128 THEN 2147483647 ELSE a * 16777216 + b * 65536 + c * 256 + e
  BY SMT DEF WordAt, a, b, c, e
<1> QED
  BY <1>4, <1>5, SMT

(* The sizes of a block. *)
LEMMA BlockSizesNat ==
  ASSUME packed \in Seq(Byte), pos \in Nat, Has(8)
  PROVE  OutLen \in Nat /\ InLen \in Nat
<1>1. pos + 4 \in Nat /\ pos + 4 <= Len(packed) /\ (pos + 4) + 4 <= Len(packed)
  BY DEF Has
<1> QED
  BY <1>1, WordAtNat DEF OutLen, InLen

(* A block that passes the checks is given to a ready decompressor. *)
LEMMA BlockDecoderReady ==
  ASSUME packed \in Seq(Byte), pos \in Nat, pos >= 18, BlockStatus = GoOn, NEW pad \in Pads,
         \E m \in Methods : packed[13] = MethodByte(m)
  PROVE  Ready(BlockDecoder(pad))
<1>0. Has(8) /\ Has(8 + InLen)
  BY DEF BlockStatus, GoOn, EofExit
<1>1. OutLen \in Nat /\ InLen \in Nat
  BY <1>0, BlockSizesNat
<1>2. FileMethod \in Methods
  BY DEF FileMethod
<1>3. BlockData \in Seq(Byte)
  <2>1. /\ pos + 9 \in 1 .. Len(packed) + 1 /\ pos + 8 + InLen \in 0 .. Len(packed)
    BY <1>0, <1>1 DEF Has
  <2> QED
    BY <1>1, <2>1 DEF BlockData
<1>4. 8 \in Widths /\ pad \in Byte /\ (IF opt.fast THEN "fast" ELSE "safe") \in Modes
  BY UclAssumption DEF Widths, Byte, Modes
<1>5. BlockPlace \in Nat
  <2>1. 14 \in Nat /\ 14 + 4 <= Len(packed)
    BY <1>0 DEF Has
  <2>2. WordAt(14) \in Nat
    BY <2>1, WordAtNat
  <2>3. WordAt(14) \div 8 \in Nat /\ InLen <= WordAt(14)
    BY <1>0, <1>1, <2>2 DEF BlockStatus, GoOn, EofExit
  <2> QED
    BY <1>1, <2>2, <2>3, UclAssumption DEF BlockPlace, get_overhead
<1> QED
  BY <1>1, <1>2, <1>3, <1>4, <1>5, NewReady DEF BlockDecoder

(* The program before anything is packed. *)
LEMMA UclInvInit == UclInit => UclInv
<1> SUFFICES ASSUME UclInit PROVE UclInv
  OBVIOUS
<1>1. opt.method \in Methods /\ opt.width \in Widths /\ opt.mode \in Modes
  BY DEF UclInit, Widths, Modes
<1>2. ops \in Seq(Ops)
  BY StartsAreOps, BlocksAreOps DEF UclInit, Starts
<1>3. Found
  BY DEF UclInit, Found
<1>4. DecoderReady
  <2>1. "2b" \in Methods /\ 8 \in Widths /\ "safe" \in Modes /\ <<>> \in Seq(Byte) /\ 0 \in Byte
    BY DEF Methods, Widths, Modes, Byte
  <2>2. Ready(Idle)
    BY <2>1, NewReady DEF Idle
  <2> QED
    BY <2>2 DEF UclInit, DecoderReady
<1> QED
  BY <1>1, <1>2, <1>3, <1>4 DEF UclInv

(* Every step keeps the invariant if bytes are what is stored. *)
LEMMA UclInvStep ==
  ASSUME packed \in Seq(Byte), UclInv, [UclNext]_uclVars
  PROVE  UclInv'
<1> USE DEF UclInv
<1>0. ops \in Seq(Ops) /\ TextLen(ops) \in Nat /\ pos \in Nat
  BY TextLenFacts DEF Found
<1>1. CASE CodeOp
  <2>1. PICK o \in Offered(TextLen(ops)) : ops' = Append(ops, o)
    BY <1>1 DEF CodeOp
  <2>2. o \in Ops
    BY <2>1, OfferedAreOps
  <2>3. ops' \in Seq(Ops)
    BY <2>1, <2>2
  <2>4. UNCHANGED <<tool, opt, pc, packed, pos, dec>>
    BY <1>1 DEF CodeOp
  <2> QED
    BY <2>3, <2>4 DEF Found, DecoderReady, Has
<1>2. CASE CodeEnd
  BY <1>2 DEF CodeEnd, Found, DecoderReady
<1>3. CASE PackBlock
  <2>1. ops' = <<>> /\ pc' \in {"code", "done"} /\ UNCHANGED <<tool, opt, pos, dec>>
    BY <1>3 DEF PackBlock
  <2> QED
    BY <2>1 DEF Found, DecoderReady
<1>4. CASE PackEnd
  <2>1. pc' = "stored" /\ UNCHANGED <<tool, opt, ops, pos, dec>>
    BY <1>4 DEF PackEnd
  <2> QED
    BY <2>1 DEF Found, DecoderReady
<1>5. CASE Damage
  <2>1. pc' = "stored" /\ UNCHANGED <<tool, opt, ops, pos, dec>>
    BY <1>5 DEF Damage
  <2> QED
    BY <2>1 DEF Found, DecoderReady
<1>6. CASE LibStart
  <2> DEFINE n == TextLen(ops)
             gap == IF n > Len(packed) THEN n - Len(packed) ELSE 0
  <2>1. gap \in Nat /\ Len(packed) \in Nat /\ 0 \in Nat /\ 0 \in Byte
    BY <1>0 DEF Byte
  <2>2. PICK pad \in Pads, more \in 0 .. 14 :
          \/ dec' = NewDecoder(opt.method, opt.width, opt.mode, packed, gap + more, n, pad)
          \/ dec' = NewDecoder(opt.method, opt.width, opt.mode, packed, 0, n, pad)
          \/ n > 0 /\ dec' = NewDecoder(opt.method, opt.width, opt.mode, packed, 0, n - 1, pad)
    BY <1>6 DEF LibStart
  <2>3. pad \in Byte /\ gap + more \in Nat /\ (n > 0 => n - 1 \in Nat)
    BY <1>0, <2>1, UclAssumption DEF Byte
  <2>4. DecoderReady'
    <3> HIDE DEF gap, n
    <3>1. n \in Nat
      BY <1>0 DEF n
    <3> QED
      BY <2>1, <2>2, <2>3, <3>1, NewReady DEF DecoderReady
  <2>5. tool = "lib" /\ UNCHANGED <<tool, opt, ops, pos>>
    BY <1>6 DEF LibStart
  <2> QED
    BY <2>4, <2>5 DEF Found
<1>7. CASE Decompress
  <2>1. DecoderReady'
    BY <1>7, DecodeReady DEF Decompress, DecoderReady
  <2>2. UNCHANGED <<tool, opt, ops, packed, pc, pos>>
    BY <1>7 DEF Decompress
  <2> QED
    BY <2>1, <2>2 DEF Found, Has
<1>8. CASE ReadHeader
  <2>1. pos' = 18 /\ UNCHANGED <<tool, opt, ops, packed, dec>>
    BY <1>8 DEF ReadHeader
  <2>2. pc' = "done" \/ (pc' = "block" /\ HeaderStatus = GoOn)
    BY <1>8 DEF ReadHeader, Exit
  <2>3. HeaderStatus = GoOn => \E m \in Methods : packed[13] = MethodByte(m)
    BY DEF HeaderStatus, GoOn, EofExit
  <2> QED
    BY <2>1, <2>2, <2>3 DEF Found, DecoderReady
<1>9. CASE ReadMarker
  <2>1. pos' \in Nat /\ pos' >= pos /\ pc = "block" /\ pc' \in {"sum", "done"} /\ UNCHANGED <<tool, opt, ops, packed, dec>>
    BY <1>0, <1>9 DEF ReadMarker, Exit
  <2> QED
    BY <2>1 DEF Found, DecoderReady
<1>10. CASE ReadBlock
  <2>1. pc = "block" /\ tool = "pack" /\ UNCHANGED <<tool, opt, ops, packed>>
    BY <1>10 DEF ReadBlock
  <2>2. pos >= 18 /\ \E m \in Methods : packed[13] = MethodByte(m)
    BY <2>1 DEF Found
  <2>3. CASE BlockStatus # GoOn
    <3>1. pc' = "done" /\ UNCHANGED <<pos, dec>>
      BY <1>10, <2>3 DEF ReadBlock, Exit
    <3> QED
      BY <2>1, <3>1 DEF Found, DecoderReady
  <2>4. CASE BlockStatus = GoOn
    <3>1. Has(8) /\ InLen \in Nat
      BY <1>0, <2>4, BlockSizesNat DEF BlockStatus, GoOn, EofExit
    <3>2. CASE InLen < OutLen
      <4>1. PICK pad \in Pads : dec' = BlockDecoder(pad) /\ pc' = "decode" /\ UNCHANGED pos
        BY <1>10, <2>4, <3>2 DEF ReadBlock
      <4>2. DecoderReady'
        BY <1>0, <2>2, <2>4, <4>1, BlockDecoderReady DEF DecoderReady
      <4>3. Found'
        BY <1>0, <2>1, <2>2, <3>1, <4>1 DEF Found, Has
      <4> QED
        BY <2>1, <4>2, <4>3
    <3>3. CASE ~(InLen < OutLen)
      <4>1. pos' = pos + 8 + InLen /\ UNCHANGED <<pc, dec>>
        BY <1>10, <2>4, <3>3 DEF ReadBlock, Write
      <4>2. pos' \in Nat /\ pos' >= 18
        BY <2>2, <1>0, <3>1, <4>1
      <4> QED
        BY <2>1, <2>2, <4>1, <4>2 DEF Found, DecoderReady
    <3> QED
      BY <3>2, <3>3
  <2> QED
    BY <2>3, <2>4
<1>11. CASE WriteText
  <2>1. tool = "pack" /\ pc = "decode" /\ UNCHANGED <<tool, opt, ops, packed, dec>>
    BY <1>11 DEF WriteText
  <2>2. Has(8) /\ pos >= 18 /\ \E m \in Methods : packed[13] = MethodByte(m)
    BY <2>1 DEF Found
  <2>3. InLen \in Nat
    BY <1>0, <2>2, BlockSizesNat
  <2>4. (pc' = "block" /\ pos' = pos + 8 + InLen) \/ (pc' = "done" /\ pos' = pos)
    BY <1>11 DEF WriteText, Write, Exit
  <2>5. pos' \in Nat /\ pos' >= 18
    BY <1>0, <2>2, <2>3, <2>4
  <2>6. Found'
    BY <2>1, <2>2, <2>4, <2>5 DEF Found
  <2> QED
    BY <2>1, <2>6 DEF DecoderReady
<1>12. CASE ReadSum
  <2>1. pc' = "done" /\ UNCHANGED <<tool, opt, ops, packed, pos, dec>>
    BY <1>12 DEF ReadSum, Exit
  <2> QED
    BY <2>1 DEF Found, DecoderReady
<1>13. CASE UNCHANGED uclVars
  BY <1>13 DEF uclVars, Found, Has, DecoderReady
<1> QED
  BY <1>1, <1>2, <1>3, <1>4, <1>5, <1>6, <1>7, <1>8, <1>9, <1>10, <1>11, <1>12, <1>13 DEF UclNext

(* The same for the decompressors as the library's users and uclpack call them, *)
(* damage to what was stored included: SafeBounds and NothingOverwritten hold   *)
(* as long as what is stored consists of bytes, whatever these are.             *)
THEOREM DecompressionBounded ==
  UclSpec /\ [](packed \in Seq(Byte)) => [](SafeBounds /\ NothingOverwritten)
<1>1. UclInit => UclInv
  BY UclInvInit
<1>2. packed \in Seq(Byte) /\ UclInv /\ [UclNext]_uclVars => UclInv'
  BY UclInvStep
<1>3. UclInv => SafeBounds /\ NothingOverwritten
  BY ReadyBounds DEF UclInv
<1> QED
  BY <1>1, <1>2, <1>3, PTL DEF UclSpec

------------------------------------------------------------------------------
(* exepak and its stub *)

USE ExePakAssumption

------------------------------------------------------------------------------
(* Contents *)

LEMMA WholeFacts ==
  /\ Whole \in Seq(Blocks) /\ Len(Whole) = NBlocks /\ Whole # <<>>
  /\ \A i \in 1..NBlocks : Whole[i] = i
<1>1. \A i \in 1..NBlocks : i \in Blocks
  BY DEF Blocks
<1>2. Whole \in [1..NBlocks -> Blocks]
  BY <1>1 DEF Whole
<1>3. Whole \in Seq(Blocks) /\ Len(Whole) = NBlocks
  BY <1>2
<1>4. \A i \in 1..NBlocks : Whole[i] = i
  BY DEF Whole
<1> QED
  BY <1>3, <1>4

(* All blocks in their order are the program. *)
LEMMA OrderedIsWhole ==
  ASSUME NEW S, NEW b \in Seq(S), Len(b) = NBlocks, \A i \in 1 .. Len(b) : b[i] = i
  PROVE  b = Whole
<1>1. DOMAIN b = 1..NBlocks /\ \A i \in 1..NBlocks : b[i] = i
  BY LenProperties
<1>2. b = [i \in DOMAIN b |-> b[i]]
  BY LenProperties
<1> QED
  BY <1>1, <1>2 DEF Whole

Contents == [kind : {"plain", "packed", "other", "absent"}, blocks : Seq(Blocks)]

LEMMA ContentFacts ==
  ASSUME NEW k \in {"plain", "packed", "other", "absent"}, NEW b \in Seq(Blocks)
  PROVE  Content(k, b) \in Contents /\ Content(k, b).kind = k /\ Content(k, b).blocks = b
  BY DEF Content, Contents

LEMMA RuinFacts ==
  /\ Ruin \in Contents /\ Ruin.kind = "other" /\ Ruin.blocks = <<>>
  /\ Absent \in Contents /\ Absent.kind = "absent" /\ Absent.blocks = <<>>
  /\ Len(<<>>) <= NBlocks + 1
<1>1. <<>> \in Seq(Blocks)
  OBVIOUS
<1>2. Len(<<>>) <= NBlocks + 1
  OBVIOUS
<1>3. Ruin \in Contents /\ Ruin.kind = "other" /\ Ruin.blocks = <<>>
  BY <1>1, ContentFacts DEF Ruin
<1>4. Absent \in Contents /\ Absent.kind = "absent" /\ Absent.blocks = <<>>
  BY <1>1, ContentFacts DEF Absent
<1> QED
  BY <1>2, <1>3, <1>4

(* What a write that broke off has left. *)
LEMMA CutFacts ==
  ASSUME NEW b \in Seq(Blocks), NEW c \in Cut(b)
  PROVE  c \in Seq(Blocks) /\ Len(c) <= Len(b) /\ Len(c) \in Nat
<1>1. PICK n \in 0 .. Len(b) : c = SubSeq(b, 1, n)
  BY DEF Cut
<1>2. Len(b) \in Nat /\ \A i \in 1..n : i \in 1..Len(b) /\ b[i] \in Blocks
  BY LenProperties, ElementOfSeq
<1>3. 1 \in Int /\ n \in Int
  BY <1>2
<1>4. c \in Seq(Blocks) /\ Len(c) = IF 1 <= n THEN n - 1 + 1 ELSE 0
  BY <1>1, <1>2, <1>3, SubSeqProperties
<1> QED
  BY <1>2, <1>4
------------------------------------------------------------------------------
(* The packer *)

LEMMA PackInit == Init => PackType /\ PackOK
<1> SUFFICES ASSUME Init PROVE PackType /\ PackOK
  OBVIOUS
<1>1. /\ file = Content("plain", Whole) /\ backup \in BOOLEAN /\ job = "idle" /\ tmp = <<-1>>
      /\ child = "none" /\ pipe = <<>> /\ sent = 0 /\ mishap = FALSE
  BY DEF Init, NoFile
<1>2. file \in Contents /\ file.kind = "plain" /\ file.blocks = Whole
  BY <1>1, WholeFacts, ContentFacts
<1>3. PackType
  <2>1. <<-1>> \in Seq(Blocks \cup {-1}) /\ sent \in 0 .. NBlocks
    BY <1>1
  <2>2. <<>> \in Seq(Blocks)
    OBVIOUS
  <2>3. Len(file.blocks) <= NBlocks + 1
    BY <1>2, WholeFacts
  <2> QED
    BY <1>1, <1>2, <2>1, <2>2, <2>3 DEF PackType, Contents
<1> QED
  BY <1>1, <1>2, <1>3 DEF PackOK, Safe

LEMMA PipeNumbers ==
  ASSUME PackType
  PROVE  /\ Len(tmp) \in Nat /\ Len(pipe) \in Nat /\ sent \in 0..NBlocks /\ sent \in Nat
         /\ pipe \in Seq(Blocks) /\ file \in Contents
         /\ file.blocks \in Seq(Blocks) /\ Len(file.blocks) \in Nat
         /\ backup \in BOOLEAN /\ mishap \in BOOLEAN
<1>1. tmp \in Seq(Blocks \cup {-1}) /\ pipe \in Seq(Blocks) /\ sent \in 0..NBlocks
      /\ file.blocks \in Seq(Blocks) /\ file \in Contents
      /\ backup \in BOOLEAN /\ mishap \in BOOLEAN
  BY DEF PackType, Contents
<1> QED
  BY <1>1, LenProperties

(* A temporary file of blocks is one like any other. *)
LEMMA TempTyped == ASSUME NEW b \in Seq(Blocks) PROVE b \in Seq(Blocks \cup {-1})
<1>1. Len(b) \in Nat /\ b \in [1..Len(b) -> Blocks]
  BY LenProperties
<1>2. b \in [1..Len(b) -> Blocks \cup {-1}]
  BY <1>1
<1> QED
  BY <1>1, <1>2

(* A command that ends, well or not. *)
LEMMA CommandDone ==
  ASSUME PackType, job' = "idle", tmp' = NoFile, child' = "none", pipe' = <<>>, sent' = 0,
         backup' \in BOOLEAN, mishap' \in BOOLEAN,
         file' \in Contents, Len(file'.blocks) <= NBlocks + 1,
         file'.kind = "packed" => Len(file'.blocks) <= NBlocks, Safe'
  PROVE  PackType' /\ PackOK'
<1>1. <<-1>> \in Seq(Blocks \cup {-1})
  OBVIOUS
<1>2. <<>> \in Seq(Blocks)
  OBVIOUS
<1>3. PackType'
  BY <1>1, <1>2 DEF PackType, NoFile, Contents
<1>4. file'.kind = "packed" => file'.blocks = Whole \/ mishap'
  <2>1. CASE file' = Content("plain", Whole)
    BY <2>1, WholeFacts, ContentFacts
  <2>2. CASE file' = Content("packed", Whole)
    BY <2>2, WholeFacts, ContentFacts
  <2> QED
    BY <2>1, <2>2 DEF Safe
<1> QED
  BY <1>3, <1>4 DEF PackOK

(* The way back: whatever infile is left as, or the backup in its place. *)
LEMMA RestoreDone ==
  ASSUME PackType, NEW f \in Contents, RestoreBackup(f),
         job' = "idle", tmp' = NoFile, child' = "none", pipe' = <<>>, sent' = 0,
         mishap' \in BOOLEAN, Len(f.blocks) <= NBlocks + 1,
         f.kind = "packed" => Len(f.blocks) <= NBlocks,
         backup => mishap',
         mishap' \/ f \in {Content("plain", Whole), Content("packed", Whole)}
  PROVE  PackType' /\ PackOK'
<1>1. backup' \in BOOLEAN /\ file' = IF backup THEN Ruin ELSE f
  BY DEF RestoreBackup
<1>2. CASE backup
  BY <1>1, <1>2, RuinFacts, CommandDone DEF Safe
<1>3. CASE ~backup
  <2>1. file' = f
    BY <1>1, <1>3
  <2>2. Safe'
    BY <2>1 DEF Safe
  <2> QED
    BY <1>1, <2>1, <2>2, CommandDone
<1> QED
  BY <1>2, <1>3

(* What there is while the original is read. *)
LEMMA AtOriginal ==
  ASSUME PackType, PackOK, job \in {"compress", "size", "truncate"}
  PROVE  /\ file = Content("plain", Whole) /\ file \in Contents /\ file.kind = "plain"
         /\ file.blocks = Whole /\ Len(file.blocks) <= NBlocks + 1
         /\ tmp \in Seq(Blocks) /\ Len(tmp) \in Nat /\ Len(tmp) <= NBlocks
         /\ child = "none" /\ pipe = <<>> /\ sent = 0 /\ mishap \in BOOLEAN
         /\ backup \in BOOLEAN
<1>1. file = Content("plain", Whole) /\ tmp \in Seq(Blocks) /\ Len(tmp) <= NBlocks
      /\ child = "none" /\ pipe = <<>> /\ sent = 0
  BY DEF PackOK, PackType
<1> QED
  BY <1>1, WholeFacts, ContentFacts, PipeNumbers

(* The command goes on, with the original as it is. *)
LEMMA CompressGoesOn ==
  ASSUME PackType, PackOK, job \in {"compress", "size", "truncate"},
         job' \in {"compress", "size", "truncate"},
         tmp' \in Seq(Blocks), Len(tmp') <= NBlocks,
         UNCHANGED <<file, backup, child, pipe, sent, mishap>>
  PROVE  PackType' /\ PackOK'
<1>1. tmp' \in Seq(Blocks \cup {-1})
  BY TempTyped
<1>2. PackType'
  BY <1>1 DEF PackType
<1> QED
  BY <1>2, AtOriginal DEF PackOK, Safe

LEMMA CompressGivesUp ==
  ASSUME PackType, PackOK, job \in {"compress", "size", "truncate"},
         UNCHANGED <<child, pipe, sent>>,
         GiveUp \/ (DropTemp /\ job' = "idle" /\ UNCHANGED <<file, backup, mishap>>)
  PROVE  PackType' /\ PackOK'
<1>1. CASE GiveUp
  <2>1. RestoreBackup(file) /\ tmp' = NoFile /\ job' = "idle"
        /\ (backup => mishap') /\ (~backup => UNCHANGED mishap)
    BY <1>1 DEF GiveUp, DropTemp, Mishap
  <2>2. mishap' \in BOOLEAN
    BY <1>1, PipeNumbers DEF GiveUp, Mishap
  <2> QED
    BY <2>1, <2>2, AtOriginal, RestoreDone
<1>2. CASE DropTemp /\ job' = "idle" /\ UNCHANGED <<file, backup, mishap>>
  BY <1>2, AtOriginal, CommandDone DEF DropTemp, Safe
<1> QED
  BY <1>1, <1>2

(* create_sfx_binary. *)
LEMMA PackCompress ==
  ASSUME PackType, PackOK, CompressStart \/ CompressBlock \/ CompressEnd
  PROVE  PackType' /\ PackOK'
<1>1. CASE CompressStart
  <2>1. /\ job = "idle" /\ file.kind = "plain" /\ ~mishap /\ tmp' = <<>> /\ job' = "compress"
        /\ UNCHANGED <<file, backup, child, pipe, sent, mishap>>
    BY <1>1 DEF CompressStart, IsExecutable
  <2>2. file = Content("plain", Whole)
    BY <2>1 DEF PackOK, Safe, Content
  <2>3. PackType'
    BY <2>1 DEF PackType
  <2>4. <<>> \in Seq(Blocks) /\ Len(<<>>) <= NBlocks
    OBVIOUS
  <2> QED
    BY <2>1, <2>2, <2>3, <2>4 DEF PackOK
<1>2. CASE CompressBlock
  <2>1. job = "compress" /\ Len(tmp) < NBlocks /\ UNCHANGED <<file, backup, child, pipe, sent, mishap>>
    BY <1>2, AtOriginal, WholeFacts DEF CompressBlock
  <2>2. CASE tmp' = Append(tmp, file.blocks[Len(tmp) + 1]) /\ UNCHANGED job
    <3>1. Len(tmp) + 1 \in 1..NBlocks
      BY <2>1, AtOriginal
    <3>2. file.blocks[Len(tmp) + 1] \in Blocks
      BY <2>1, <3>1, AtOriginal, WholeFacts DEF Blocks
    <3>3. tmp' \in Seq(Blocks) /\ Len(tmp') = Len(tmp) + 1
      BY <2>1, <2>2, <3>2, AtOriginal, AppendProperties
    <3> QED
      BY <2>1, <2>2, <3>1, <3>3, CompressGoesOn
  <2>3. CASE DropTemp /\ job' = "idle"
    BY <2>1, <2>3, CompressGivesUp
  <2> QED
    BY <1>2, <2>2, <2>3 DEF CompressBlock
<1>3. CASE CompressEnd
  <2>1. job = "compress" /\ UNCHANGED <<file, backup, child, pipe, sent, mishap>>
    BY <1>3 DEF CompressEnd
  <2>2. CASE tmp # <<>> /\ job' = "size" /\ UNCHANGED tmp
    BY <2>1, <2>2, AtOriginal, CompressGoesOn
  <2>3. CASE tmp = <<>> /\ job' = "idle" /\ DropTemp
    BY <2>1, <2>3, CompressGivesUp
  <2>4. CASE Len(tmp) < Len(file.blocks) /\ job' = "size" /\ tmp' = Append(tmp, Torn)
    <3>1. Torn \in Blocks
      BY DEF Torn, Blocks
    <3>2. tmp' \in Seq(Blocks) /\ Len(tmp') = Len(tmp) + 1
      BY <2>1, <2>4, <3>1, AtOriginal, AppendProperties
    <3>3. Len(tmp') <= NBlocks
      BY <2>1, <2>4, <3>2, AtOriginal, WholeFacts
    <3> QED
      BY <2>1, <2>4, <3>2, <3>3, CompressGoesOn
  <2> QED
    BY <1>3, <2>2, <2>3, <2>4 DEF CompressEnd
<1> QED
  BY <1>1, <1>2, <1>3

LEMMA PackReplace ==
  ASSUME PackType, PackOK, CompressSize \/ Truncate
  PROVE  PackType' /\ PackOK'
<1>1. job \in {"size", "truncate"} /\ UNCHANGED <<child, pipe, sent>>
  BY DEF CompressSize, Truncate
<1>2. CASE GiveUp
  BY <1>1, <1>2, CompressGivesUp
<1>3. CASE CompressSize /\ job' = "truncate" /\ UNCHANGED <<file, backup, tmp, mishap>>
  BY <1>1, <1>3, AtOriginal, CompressGoesOn
<1>4. CASE /\ Truncate /\ file' = Ruin /\ job' = "append" /\ UNCHANGED <<backup, tmp>>
           /\ IF tmp # Whole THEN Mishap ELSE UNCHANGED mishap
  <2>1. mishap' \in BOOLEAN /\ (tmp = Whole \/ mishap')
    BY <1>4, PipeNumbers DEF Mishap
  <2>2. /\ tmp \in Seq(Blocks) /\ Len(tmp) <= NBlocks /\ child = "none" /\ pipe = <<>> /\ sent = 0
    BY <1>1, AtOriginal
  <2>3. PackType'
    BY <1>1, <1>4, <2>1, RuinFacts DEF PackType, Contents
  <2> QED
    BY <1>1, <1>4, <2>1, <2>2, <2>3, RuinFacts DEF PackOK
<1> QED
  BY <1>2, <1>3, <1>4 DEF CompressSize, Truncate

LEMMA PackAppend ==
  ASSUME PackType, PackOK, AppendStub
  PROVE  PackType' /\ PackOK'
<1>1. /\ job = "append" /\ job' = "idle" /\ tmp' = NoFile /\ (tmp = Whole \/ mishap)
      /\ tmp \in Seq(Blocks) /\ Len(tmp) \in Nat /\ Len(tmp) <= NBlocks
      /\ child' = "none" /\ pipe' = <<>> /\ sent' = 0
  BY PipeNumbers DEF AppendStub, DropTemp, PackOK
<1>2. CASE file' = Content("packed", tmp) /\ UNCHANGED <<backup, mishap>>
  <2>1. file' \in Contents /\ file'.blocks = tmp /\ Len(tmp) <= NBlocks + 1
    BY <1>1, <1>2, ContentFacts
  <2>2. Safe'
    BY <1>1, <1>2 DEF Safe
  <2> QED
    BY <1>1, <1>2, <2>1, <2>2, PipeNumbers, CommandDone
<1>3. ASSUME NEW b \in Cut(tmp), file' = Content("packed", b), UNCHANGED backup, Mishap
      PROVE  PackType' /\ PackOK'
  <2>1. b \in Seq(Blocks) /\ Len(b) <= NBlocks
    BY <1>1, CutFacts
  <2>2. file' \in Contents /\ file'.blocks = b
    BY <1>3, <2>1, ContentFacts
  <2>3. mishap' = TRUE /\ Len(b) <= NBlocks + 1
    BY <1>1, <1>3, <2>1, CutFacts DEF Mishap
  <2> QED
    BY <1>1, <1>3, <2>1, <2>2, <2>3, PipeNumbers, CommandDone DEF Safe
<1>4. ASSUME NEW f \in {file} \cup {Content("packed", b) : b \in Cut(tmp)}, RestoreBackup(f), Mishap
      PROVE  PackType' /\ PackOK'
  <2>1. f \in Contents /\ Len(f.blocks) <= NBlocks + 1 /\ (f.kind = "packed" => Len(f.blocks) <= NBlocks)
    <3>1. CASE f = file
      BY <3>1, PipeNumbers DEF PackType, PackOK
    <3>2. ASSUME NEW b \in Cut(tmp), f = Content("packed", b)
          PROVE  f \in Contents /\ Len(f.blocks) <= NBlocks
      BY <1>1, <3>2, CutFacts, ContentFacts
    <3>3. CASE f # file
      <4>1. f \in Contents /\ Len(f.blocks) <= NBlocks
        BY <1>4, <3>2, <3>3
      <4>2. Len(f.blocks) \in Nat
        BY <4>1, LenProperties DEF Contents
      <4> QED
        BY <4>1, <4>2
    <3> QED
      BY <3>1, <3>3
  <2>2. mishap' = TRUE
    BY <1>4 DEF Mishap
  <2> QED
    BY <1>1, <1>4, <2>1, <2>2, RestoreDone
<1> QED
  BY <1>2, <1>3, <1>4 DEF AppendStub

(* decompress_sfx_binary and the child it reads from. *)
LEMMA UnpackStart ==
  ASSUME PackType, PackOK, DecompressStart
  PROVE  PackType' /\ PackOK'
<1>1. /\ job = "idle" /\ file.kind = "packed" /\ Safe /\ child = "none" /\ pipe = <<>> /\ sent = 0
      /\ tmp' = <<>> /\ UNCHANGED <<file, backup, pipe, sent, mishap>>
      /\ \/ job' = "read" /\ child' = "write"
         \/ job' = "hung" /\ UNCHANGED child
  BY DEF DecompressStart, AlreadyCompressed, PackOK
<1>2. PackType'
  BY <1>1 DEF PackType
<1>3. Len(tmp') = 0 /\ Len(pipe') = 0 /\ 1..0 = {} /\ tmp' \in Seq(Blocks)
  BY <1>1
<1>4. job' = "read" => Flow'
  BY <1>1, <1>3 DEF Flow
<1> QED
  BY <1>1, <1>2, <1>4 DEF PackOK, Safe

(* What there is while the child is read from. *)
LEMMA AtPipe ==
  ASSUME PackType, PackOK, job = "read" \/ child # "none"
  PROVE  /\ job = "read" /\ child # "none" /\ file.kind = "packed" /\ Safe /\ Flow
         /\ Len(file.blocks) <= NBlocks /\ (file.blocks = Whole \/ mishap)
  BY DEF PackOK

(* The pipe goes on. *)
LEMMA PipeGoesOn ==
  ASSUME PackType, PackOK, job = "read", UNCHANGED <<file, backup, job>>,
         child' \in {"write", "done"}, sent' \in 0 .. NBlocks, mishap' \in BOOLEAN,
         mishap => mishap', tmp' \in Seq(Blocks), pipe' \in Seq(Blocks), Flow'
  PROVE  PackType' /\ PackOK'
<1>1. tmp' \in Seq(Blocks \cup {-1})
  BY TempTyped
<1>2. PackType'
  BY <1>1 DEF PackType
<1> QED
  BY <1>2, AtPipe DEF PackOK, Safe

LEMMA UnpackWrite ==
  ASSUME PackType, PackOK, ChildWrite
  PROVE  PackType' /\ PackOK'
<1>1. /\ child = "write" /\ job = "read" /\ Flow
      /\ sent < Len(file.blocks) /\ sent' = sent + 1
      /\ pipe' = Append(pipe, file.blocks[sent + 1])
      /\ UNCHANGED <<file, backup, job, tmp, child, mishap>>
      /\ Len(file.blocks) <= NBlocks /\ (file.blocks = Whole \/ mishap)
  BY AtPipe DEF ChildWrite
<1>2. /\ Len(tmp) \in Nat /\ Len(pipe) \in Nat /\ sent \in Nat /\ Len(file.blocks) \in Nat
      /\ pipe \in Seq(Blocks) /\ Len(tmp) + Len(pipe) = sent /\ tmp \in Seq(Blocks)
  BY <1>1, PipeNumbers DEF Flow
<1>3. sent + 1 \in 1..Len(file.blocks) /\ sent + 1 \in 1..NBlocks
  BY <1>1, <1>2
<1>4. file.blocks[sent + 1] \in Blocks
  BY <1>3, PipeNumbers, ElementOfSeq
<1>5. /\ pipe' \in Seq(Blocks) /\ Len(pipe') = Len(pipe) + 1
      /\ pipe'[Len(pipe) + 1] = file.blocks[sent + 1]
      /\ \A i \in 1..Len(pipe) : pipe'[i] = pipe[i]
  BY <1>1, <1>2, <1>4, AppendProperties
<1>6. Len(tmp') + Len(pipe') = sent'
  BY <1>1, <1>2, <1>5
<1>7. ASSUME ~mishap, NEW i \in 1..Len(pipe')
      PROVE  pipe'[i] = Len(tmp) + i
  <2>1. CASE i \in 1..Len(pipe)
    BY <1>1, <1>5, <1>7, <2>1 DEF Flow
  <2>2. CASE i = Len(pipe) + 1
    <3>1. Len(tmp) + i = sent + 1
      BY <1>2, <2>2
    <3>2. file.blocks[sent + 1] = sent + 1
      BY <1>1, <1>3, <1>7, WholeFacts
    <3> QED
      BY <1>5, <2>2, <3>1, <3>2
  <2> QED
    BY <1>2, <1>5, <2>1, <2>2
<1>8. Flow'
  <2>1. Len(tmp') + Len(pipe') <= sent' + 1
    BY <1>1, <1>2, <1>6
  <2> QED
    BY <1>1, <1>2, <1>6, <1>7, <2>1 DEF Flow
<1> QED
  BY <1>1, <1>2, <1>3, <1>5, <1>8, PipeNumbers, PipeGoesOn

(* The child stops: what it has added is nothing or one item more. *)
LEMMA ChildStops ==
  ASSUME PackType, PackOK, child = "write", child' = "done",
         UNCHANGED <<file, backup, job, tmp, sent>>, mishap' \in BOOLEAN, mishap => mishap',
         UNCHANGED pipe \/ (mishap' /\ \E x \in Blocks : pipe' = Append(pipe, x)),
         mishap' \/ sent \in {0, NBlocks}
  PROVE  PackType' /\ PackOK'
<1>1. job = "read" /\ Flow
  BY AtPipe
<1>2. /\ Len(tmp) \in Nat /\ Len(pipe) \in Nat /\ sent \in 0..NBlocks
      /\ pipe \in Seq(Blocks) /\ Len(tmp) + Len(pipe) = sent /\ tmp \in Seq(Blocks)
  BY <1>1, PipeNumbers DEF Flow
<1>3. CASE UNCHANGED pipe
  <2>1. Len(tmp') + Len(pipe') <= sent' + 1
    BY <1>2, <1>3
  <2>2. Flow'
    BY <1>1, <1>2, <1>3, <2>1 DEF Flow
  <2> QED
    BY <1>1, <1>2, <1>3, <2>2, PipeGoesOn
<1>4. CASE mishap' /\ \E x \in Blocks : pipe' = Append(pipe, x)
  <2>1. pipe' \in Seq(Blocks) /\ Len(pipe') = Len(pipe) + 1
    BY <1>2, <1>4, AppendProperties
  <2>2. Len(tmp') + Len(pipe') <= sent' + 1
    BY <1>2, <2>1
  <2>3. Flow'
    BY <1>2, <1>4, <2>2 DEF Flow
  <2> QED
    BY <1>1, <1>2, <2>1, <2>3, PipeGoesOn
<1> QED
  BY <1>3, <1>4

LEMMA UnpackEnd ==
  ASSUME PackType, PackOK, ChildEnd \/ ChildKilled
  PROVE  PackType' /\ PackOK'
<1>1. /\ child = "write" /\ child' = "done" /\ UNCHANGED <<file, backup, job, tmp, sent>>
      /\ file.blocks = Whole \/ mishap
      /\ Message \in Blocks /\ Torn \in Blocks
  BY AtPipe DEF ChildEnd, ChildKilled, Message, Torn, Blocks
<1>2. CASE ChildEnd
  <2>1. mishap' \in BOOLEAN /\ mishap' = mishap /\ sent = Len(file.blocks)
    BY <1>2, PipeNumbers DEF ChildEnd
  <2>2. mishap' \/ sent \in {0, NBlocks}
    BY <1>1, <2>1, WholeFacts
  <2>3. UNCHANGED pipe \/ (mishap' /\ \E x \in Blocks : pipe' = Append(pipe, x))
    BY <1>1, <1>2, <2>1 DEF ChildEnd
  <2> QED
    BY <1>1, <2>1, <2>2, <2>3, ChildStops
<1>3. CASE ChildKilled
  <2>1. CASE UNCHANGED pipe /\ IF sent = 0 THEN UNCHANGED mishap ELSE Mishap
    <3>1. mishap' \in BOOLEAN /\ (mishap => mishap') /\ (mishap' \/ sent \in {0, NBlocks})
      BY <2>1, PipeNumbers DEF Mishap
    <3> QED
      BY <1>1, <2>1, <3>1, ChildStops
  <2>2. CASE pipe' = Append(pipe, Torn) /\ Mishap
    <3>1. mishap' = TRUE
      BY <2>2 DEF Mishap
    <3> QED
      BY <1>1, <2>2, <3>1, ChildStops
  <2> QED
    BY <1>3, <2>1, <2>2 DEF ChildKilled
<1> QED
  BY <1>2, <1>3

LEMMA UnpackRead ==
  ASSUME PackType, PackOK, ReadPipe
  PROVE  PackType' /\ PackOK'
<1>1. job = "read" /\ Flow /\ file.kind = "packed" /\ Safe /\ Len(file.blocks) <= NBlocks
      /\ child \in {"write", "done"} /\ pipe # <<>> /\ UNCHANGED <<file, backup, mishap>>
  BY AtPipe DEF ReadPipe, PackType
<1>2. /\ Len(tmp) \in Nat /\ Len(pipe) \in Nat /\ sent \in 0..NBlocks
      /\ pipe \in Seq(Blocks) /\ tmp \in Seq(Blocks) /\ mishap \in BOOLEAN
  BY <1>1, PipeNumbers DEF Flow
<1>3. CASE tmp' = Append(tmp, Head(pipe)) /\ pipe' = Tail(pipe) /\ UNCHANGED <<job, child, sent>>
  <2>1. /\ Head(pipe) \in Blocks /\ Head(pipe) = pipe[1] /\ Tail(pipe) \in Seq(Blocks)
        /\ Len(Tail(pipe)) = Len(pipe) - 1 /\ \A i \in 1..Len(pipe) - 1 : Tail(pipe)[i] = pipe[i + 1]
        /\ Len(pipe) > 0
    BY <1>1, <1>2
  <2>2. /\ tmp' \in Seq(Blocks) /\ Len(tmp') = Len(tmp) + 1
        /\ tmp'[Len(tmp) + 1] = pipe[1] /\ \A i \in 1..Len(tmp) : tmp'[i] = tmp[i]
    BY <1>2, <1>3, <2>1, AppendProperties
  <2>3. ASSUME ~mishap, NEW i \in 1..Len(tmp') PROVE tmp'[i] = i
    <3>1. pipe[1] = Len(tmp) + 1
      BY <1>1, <1>2, <2>1, <2>3 DEF Flow
    <3>2. i \in 1..Len(tmp) \/ i = Len(tmp) + 1
      BY <1>2, <2>2
    <3> QED
      BY <1>1, <2>2, <2>3, <3>1, <3>2 DEF Flow
  <2>4. ASSUME ~mishap, NEW i \in 1..Len(pipe') PROVE pipe'[i] = Len(tmp') + i
    <3>1. i \in 1..Len(pipe) - 1 /\ i + 1 \in 1..Len(pipe) /\ Len(tmp') + i = Len(tmp) + (i + 1)
      BY <1>2, <1>3, <2>1, <2>2
    <3>2. pipe[i + 1] = Len(tmp) + (i + 1)
      BY <1>1, <2>4, <3>1 DEF Flow
    <3> QED
      BY <1>3, <2>1, <3>1, <3>2
  <2>5. Len(tmp') + Len(pipe') = Len(tmp) + Len(pipe)
    BY <1>2, <1>3, <2>1, <2>2
  <2>6. Flow'
    BY <1>1, <1>3, <2>2, <2>3, <2>4, <2>5 DEF Flow
  <2> QED
    BY <1>1, <1>2, <1>3, <2>1, <2>2, <2>6, PipeGoesOn
<1>4. CASE DropTemp /\ job' = "idle" /\ pipe' = <<>> /\ child' = "none" /\ sent' = 0
  BY <1>1, <1>2, <1>4, PipeNumbers, CommandDone DEF PackType, DropTemp, Safe
<1> QED
  BY <1>3, <1>4 DEF ReadPipe

LEMMA UnpackDone ==
  ASSUME PackType, PackOK, PipeEnd
  PROVE  PackType' /\ PackOK'
<1>1. /\ job = "read" /\ Flow /\ file.kind = "packed" /\ Safe /\ Len(file.blocks) <= NBlocks
      /\ pipe = <<>> /\ child = "done" /\ child' = "none" /\ sent' = 0
      /\ UNCHANGED <<backup, pipe>>
  BY AtPipe DEF PipeEnd, PipeEof
<1>2. /\ Len(tmp) \in Nat /\ Len(pipe) = 0 /\ sent \in 0..NBlocks
      /\ tmp \in Seq(Blocks) /\ Len(tmp) <= NBlocks + 1 /\ mishap \in BOOLEAN
  BY <1>1, PipeNumbers DEF Flow
<1>3. CASE LooksUnpacked(tmp)
  <2>1. /\ job' = "replace" /\ file' = Absent
        /\ \/ UNCHANGED <<tmp, mishap>>
           \/ tmp' \in Cut(tmp) /\ Mishap
    BY <1>3 DEF PipeEnd
  <2>2. tmp = Whole \/ mishap
    <3> SUFFICES ASSUME ~mishap PROVE tmp = Whole
      OBVIOUS
    <3>1. Len(tmp) # 0
      BY <1>2, <1>3 DEF LooksUnpacked
    <3>2. Len(tmp) = NBlocks /\ \A i \in 1..Len(tmp) : tmp[i] = i
      BY <1>1, <1>2, <3>1 DEF Flow
    <3> QED
      BY <1>2, <3>2, OrderedIsWhole
  <2>3. /\ tmp' \in Seq(Blocks) /\ Len(tmp') <= NBlocks + 1 /\ (tmp' = Whole \/ mishap')
        /\ mishap' \in BOOLEAN
    <3>1. CASE UNCHANGED <<tmp, mishap>>
      BY <1>2, <2>2, <3>1
    <3>2. CASE tmp' \in Cut(tmp) /\ Mishap
      <4>1. tmp' \in Seq(Blocks) /\ Len(tmp') <= Len(tmp) /\ Len(tmp') \in Nat
        BY <1>2, <3>2, CutFacts
      <4> QED
        BY <1>2, <3>2, <4>1 DEF Mishap
    <3> QED
      BY <2>1, <3>1, <3>2
  <2>4. tmp' \in Seq(Blocks \cup {-1})
    BY <2>3, TempTyped
  <2>5. PackType'
    BY <1>1, <2>1, <2>3, <2>4, RuinFacts DEF PackType, Contents
  <2> QED
    BY <1>1, <2>1, <2>3, <2>5, RuinFacts DEF PackOK
<1>4. CASE ~LooksUnpacked(tmp)
  <2>1. job' = "idle" /\ tmp' = NoFile /\ UNCHANGED <<file, mishap>>
    BY <1>4 DEF PipeEnd, DropTemp
  <2> QED
    BY <1>1, <1>2, <2>1, PipeNumbers, CommandDone DEF PackType, Safe
<1> QED
  BY <1>3, <1>4

LEMMA UnpackReplace ==
  ASSUME PackType, PackOK, Replace
  PROVE  PackType' /\ PackOK'
<1>1. /\ job = "replace" /\ job' = "idle" /\ tmp' = NoFile /\ child' = "none" /\ pipe' = <<>>
      /\ sent' = 0
      /\ tmp \in Seq(Blocks) /\ Len(tmp) <= NBlocks + 1 /\ (tmp = Whole \/ mishap)
      /\ backup \in BOOLEAN /\ mishap \in BOOLEAN /\ Len(tmp) \in Nat
  BY PipeNumbers DEF Replace, DropTemp, PackOK
<1>2. CASE file' = Content("plain", tmp) /\ UNCHANGED <<backup, mishap>>
  <2>1. file' \in Contents /\ file'.kind = "plain" /\ file'.blocks = tmp
    BY <1>1, <1>2, ContentFacts
  <2>2. Safe'
    BY <1>1, <1>2 DEF Safe
  <2> QED
    BY <1>1, <1>2, <2>1, <2>2, CommandDone
<1>3. ASSUME NEW f \in {Absent} \cup {Content("plain", b) : b \in Cut(tmp)}, RestoreBackup(f), Mishap
      PROVE  PackType' /\ PackOK'
  <2>1. f \in Contents /\ f.kind # "packed" /\ Len(f.blocks) <= NBlocks + 1
    <3>1. CASE f = Absent
      BY <3>1, RuinFacts
    <3>2. ASSUME NEW b \in Cut(tmp), f = Content("plain", b)
          PROVE  f \in Contents /\ f.kind # "packed" /\ Len(f.blocks) <= NBlocks + 1
      <4>1. b \in Seq(Blocks) /\ Len(b) <= NBlocks + 1
        BY <1>1, CutFacts
      <4> QED
        BY <3>2, <4>1, ContentFacts
    <3> QED
      BY <1>3, <3>1, <3>2
  <2>2. mishap' = TRUE
    BY <1>3 DEF Mishap
  <2> QED
    BY <1>1, <1>3, <2>1, <2>2, RestoreDone
<1>4. ASSUME NEW b \in Cut(tmp), file' = Content("plain", b), UNCHANGED backup, Mishap
      PROVE  PackType' /\ PackOK'
  <2>1. b \in Seq(Blocks) /\ Len(b) <= NBlocks + 1
    BY <1>1, CutFacts
  <2>2. file' \in Contents /\ file'.kind = "plain" /\ file'.blocks = b
    BY <1>4, <2>1, ContentFacts
  <2>3. mishap' = TRUE /\ Safe'
    BY <1>4 DEF Mishap, Safe
  <2> QED
    BY <1>1, <1>4, <2>1, <2>2, <2>3, CommandDone
<1> QED
  BY <1>2, <1>3, <1>4 DEF Replace

LEMMA PackKill ==
  ASSUME PackType, PackOK, Kill
  PROVE  PackType' /\ PackOK'
<1>1. /\ job' = "idle" /\ tmp' = NoFile /\ child' = "none" /\ pipe' = <<>> /\ sent' = 0
      /\ backup' \in BOOLEAN
      /\ IF job \in {"append", "replace"} THEN Mishap ELSE UNCHANGED mishap
  BY PipeNumbers DEF Kill, DropTemp
<1>2. mishap' \in BOOLEAN
  BY <1>1, PipeNumbers DEF Mishap
<1>3. CASE file' = file
  <2>1. Safe'
    <3>1. CASE job \in {"append", "replace"}
      BY <1>1, <3>1 DEF Mishap, Safe
    <3>2. CASE job \notin {"append", "replace"}
      BY <1>1, <1>3, <3>2 DEF PackOK, PackType, Safe
    <3> QED
      BY <3>1, <3>2
  <2> QED
    BY <1>1, <1>2, <1>3, <2>1, PipeNumbers, CommandDone DEF PackType, PackOK
<1>4. CASE file' # file
  <2>1. CASE job = "append"
    <3>1. PICK b \in Cut(tmp) : file' = Content("packed", b)
      BY <1>4, <2>1 DEF Kill
    <3>2. tmp \in Seq(Blocks) /\ Len(tmp) <= NBlocks /\ Len(tmp) \in Nat
      BY <2>1, PipeNumbers DEF PackOK
    <3>3. b \in Seq(Blocks) /\ Len(b) <= NBlocks /\ Len(b) <= NBlocks + 1
      BY <3>2, CutFacts
    <3>4. file' \in Contents /\ file'.blocks = b
      BY <3>1, <3>3, ContentFacts
    <3>5. mishap' = TRUE
      BY <1>1, <2>1 DEF Mishap
    <3> QED
      BY <1>1, <3>3, <3>4, <3>5, CommandDone DEF Safe
  <2>2. CASE job = "replace"
    <3>1. PICK b \in Cut(tmp) : file' = Content("plain", b)
      BY <1>4, <2>2 DEF Kill
    <3>2. tmp \in Seq(Blocks) /\ Len(tmp) <= NBlocks + 1 /\ Len(tmp) \in Nat
      BY <2>2, PipeNumbers DEF PackOK
    <3>3. b \in Seq(Blocks) /\ Len(b) <= NBlocks + 1
      BY <3>2, CutFacts
    <3>4. file' \in Contents /\ file'.kind = "plain" /\ file'.blocks = b
      BY <3>1, <3>3, ContentFacts
    <3>5. mishap' = TRUE
      BY <1>1, <2>2 DEF Mishap
    <3> QED
      BY <1>1, <3>3, <3>4, <3>5, CommandDone DEF Safe
  <2>3. job \in {"append", "replace"}
    BY <1>4 DEF Kill
  <2> QED
    BY <2>1, <2>2, <2>3
<1> QED
  BY <1>3, <1>4

Packer == CompressStart \/ DecompressStart \/ JobStep \/ Kill

(* The packer's steps leave the runs alone. *)
LEMMA PackerKeeps ==
  ASSUME IInv, Packer
  PROVE  IInv'
<1>1. PackType /\ PackOK
  BY DEF IInv, TypeOK
<1>2. PackType' /\ PackOK'
  BY <1>1, PackCompress, PackReplace, PackAppend, UnpackStart, UnpackWrite, UnpackEnd, UnpackRead,
     UnpackDone, UnpackReplace, PackKill DEF Packer, JobStep
<1>3. UNCHANGED <<run, cleaner, dirs, litter>>
  BY DEF Packer, JobStep, CompressStart, CompressBlock, CompressEnd, CompressSize, Truncate,
         AppendStub, DecompressStart, ChildWrite, ChildEnd, ChildKilled, ReadPipe, PipeEnd,
         Replace, Kill, runVars
<1>4. mishap => mishap'
  BY DEF Packer, JobStep, CompressStart, CompressBlock, CompressEnd, CompressSize, Truncate,
         AppendStub, DecompressStart, ChildWrite, ChildEnd, ChildKilled, ReadPipe, PipeEnd,
         Replace, Kill, GiveUp, Mishap
<1>5. RunType'
  BY <1>3 DEF IInv, TypeOK, RunType
<1>6. Broken => Broken'
  BY <1>3, <1>4 DEF Broken
<1>7. ASSUME NEW r \in Runs PROVE RunOK(r)'
  BY <1>3, <1>6 DEF IInv, RunOK
<1>8. ASSUME NEW n \in Names PROVE DirOK(n)'
  <2>1. Writing(n) => Writing(n)'
    BY <1>3 DEF Writing
  <2>2. \A r \in Runs : Holds(r) => Holds(r)'
    BY <1>3 DEF Holds
  <2> QED
    BY <1>3, <1>6, <2>1, <2>2 DEF IInv, DirOK
<1> QED
  BY <1>2, <1>5, <1>7, <1>8 DEF IInv, TypeOK
------------------------------------------------------------------------------
------------------------------------------------------------------------------
(* The runs *)

LEMMA StubFacts ==
  ASSUME NEW p \in {"idle", "mkdir", "open", "badfd", "write", "fork", "exec", "running", "late"},
         NEW n \in Names, NEW t \in 1 .. Tries, NEW i \in Seq(Blocks), NEW o \in Seq(Blocks)
  PROVE  /\ Stub(p, n, t, i, o) \in Stubs
         /\ Stub(p, n, t, i, o).pc = p /\ Stub(p, n, t, i, o).name = n
         /\ Stub(p, n, t, i, o).image = i /\ Stub(p, n, t, i, o).out = o
  BY DEF Stub, Stubs

LEMMA NoDirFacts == NoDir \in Folders /\ NoDir.maker = NoRun /\ NoDir.owner = NoRun /\ NoDir.blocks = <<>>
<1>1. <<>> \in Seq(Blocks)
  OBVIOUS
<1> QED
  BY <1>1 DEF NoDir, Dir, Folders

LEMMA IdleFacts ==
  /\ IdleRun \in Stubs /\ IdleRun.pc = "idle" /\ AnyName \in Names /\ Tries \in 1 .. Tries
  /\ <<>> \in Seq(Blocks)
<1>1. AnyName \in Names /\ Tries \in 1 .. Tries
  BY DEF AnyName
<1>2. <<>> \in Seq(Blocks)
  OBVIOUS
<1> QED
  BY <1>1, <1>2 DEF IdleRun, Stub, Stubs

(* What is known of the runs and the directories, in one. *)
RunPart == RunType /\ (\A r \in Runs : RunOK(r)) /\ (\A n \in Names : DirOK(n))

LEMMA RunFacts ==
  ASSUME RunPart, NEW r \in Runs
  PROVE  /\ run[r] \in Stubs /\ run[r].name \in Names /\ run[r].tries \in 1 .. Tries
         /\ run[r].image \in Seq(Blocks) /\ run[r].out \in Seq(Blocks)
         /\ cleaner[r] \in BOOLEAN /\ RunOK(r) /\ r # NoRun
         /\ dirs[run[r].name] \in Folders
         /\ dirs[run[r].name].maker \in Runs \cup {NoRun}
         /\ dirs[run[r].name].owner \in Runs \cup {NoRun}
         /\ dirs[run[r].name].blocks \in Seq(Blocks)
         /\ dirs = [dirs EXCEPT ![run[r].name] = dirs[run[r].name]]
         /\ cleaner = [cleaner EXCEPT ![r] = cleaner[r]]
         /\ run = [run EXCEPT ![r] = run[r]]
<1>1. run[r] \in Stubs /\ cleaner[r] \in BOOLEAN /\ RunOK(r) /\ r # NoRun
  BY DEF RunPart, RunType
<1>2. /\ run[r].name \in Names /\ run[r].tries \in 1 .. Tries
      /\ run[r].image \in Seq(Blocks) /\ run[r].out \in Seq(Blocks)
  BY <1>1 DEF Stubs
<1>3. dirs[run[r].name] \in Folders
  BY <1>2 DEF RunPart, RunType
<1>4. /\ dirs[run[r].name].maker \in Runs \cup {NoRun}
      /\ dirs[run[r].name].owner \in Runs \cup {NoRun}
      /\ dirs[run[r].name].blocks \in Seq(Blocks)
  BY <1>3 DEF Folders
<1>5. /\ dirs = [dirs EXCEPT ![run[r].name] = dirs[run[r].name]]
      /\ cleaner = [cleaner EXCEPT ![r] = cleaner[r]]
      /\ run = [run EXCEPT ![r] = run[r]]
  BY DEF RunPart, RunType
<1> QED
  BY <1>1, <1>2, <1>3, <1>4, <1>5

(* Run r goes on as s, with clean-up process c, and name m now stands for d. *)
Moves(r, m, s, c, d) ==
  /\ run' = [run EXCEPT ![r] = s] /\ cleaner' = [cleaner EXCEPT ![r] = c]
  /\ dirs' = [dirs EXCEPT ![m] = d]
  /\ litter \subseteq litter' /\ litter' \subseteq {"dir", "cut"}
  /\ mishap => mishap'

(* What s, c and d must be like for the run itself ... *)
Sound(s, c) ==
  /\ c => s.pc \in {"exec", "running", "late"}
  /\ s.pc # "idle" => s.image = Whole \/ Broken'
  /\ s.pc \in {"mkdir", "open", "badfd"} => s.out = <<>>
OwnGood(r, m, s, c, d) ==
  /\ Sound(s, c)
  /\ s.pc = "write" => s.name = m /\ (d.owner = r => d.blocks = s.out)
  /\ d = dirs[m] \/ d.owner \in {r, NoRun}

(* ... for the directories that are there ... *)
Keeps(r, s, c) == (s.pc \in {"open", "badfd", "write", "fork"} \/ c) /\ s.name = run[r].name
PlaceGood(r, m, s, c, d) ==
  \/ litter' # {}
  \/ /\ ~Holds(r) \/ run[r].name = m \/ Keeps(r, s, c)
     /\ \/ d = NoDir
        \/ d.maker = r /\ (s.pc \in {"open", "badfd", "write", "fork"} \/ c) /\ s.name = m
        \/ d.maker = dirs[m].maker /\ d.maker # r /\ dirs[m] # NoDir

(* ... and for the files in them. *)
FileGood(r, m, s, d) ==
  \/ Broken'
  \/ /\ run[r].pc = "write" => m = run[r].name
     /\ \/ d.owner = NoRun
        \/ d.blocks = Whole
        \/ d.owner = r /\ s.pc = "write" /\ s.name = m
        \/ d.owner = dirs[m].owner /\ d.owner # r /\ d.blocks = dirs[m].blocks

LEMMA RunMoves ==
  ASSUME RunPart, NEW r \in Runs, NEW m \in Names, NEW s \in Stubs, NEW c \in BOOLEAN,
         NEW d \in Folders, Moves(r, m, s, c, d),
         OwnGood(r, m, s, c, d), PlaceGood(r, m, s, c, d), FileGood(r, m, s, d)
  PROVE  RunPart'
<1>1. /\ run' = [run EXCEPT ![r] = s] /\ cleaner' = [cleaner EXCEPT ![r] = c]
      /\ dirs' = [dirs EXCEPT ![m] = d] /\ run \in [Runs -> Stubs]
      /\ cleaner \in [Runs -> BOOLEAN] /\ dirs \in [Names -> Folders]
  BY DEF Moves, RunPart, RunType
<1>2. /\ run'[r] = s /\ cleaner'[r] = c /\ dirs'[m] = d
      /\ \A q \in Runs : q # r => run'[q] = run[q] /\ cleaner'[q] = cleaner[q]
      /\ \A n \in Names : n # m => dirs'[n] = dirs[n]
  BY <1>1
<1>3. (Broken => Broken') /\ (litter # {} => litter' # {})
  BY DEF Moves, Broken
<1>4. RunType'
  BY <1>1 DEF Moves, RunType
<1>5. ASSUME NEW q \in Runs PROVE RunOK(q)'
  <2>1. CASE q = r
    BY <1>2, <2>1 DEF OwnGood, Sound, RunOK
  <2>2. CASE q # r
    <3>1. RunOK(q) /\ run'[q] = run[q] /\ cleaner'[q] = cleaner[q] /\ run[q].name \in Names
      BY <1>2, <2>2, RunFacts DEF RunPart
    <3>2. run[q].pc = "write" /\ dirs'[run[q].name].owner = q =>
            dirs'[run[q].name].blocks = run[q].out
      <4>1. CASE run[q].name = m
        <5>1. q # NoRun
          OBVIOUS
        <5> QED
          BY <1>2, <2>2, <3>1, <4>1, <5>1 DEF OwnGood, RunOK
      <4>2. CASE run[q].name # m
        BY <1>2, <3>1, <4>2 DEF RunOK
      <4> QED
        BY <4>1, <4>2
    <3> QED
      BY <1>3, <3>1, <3>2 DEF RunOK
  <2> QED
    BY <2>1, <2>2
<1>6. ASSUME NEW q \in Runs, Holds(q), q # r \/ Keeps(r, s, c)
      PROVE  Holds(q)' /\ run'[q].name = run[q].name
  <2>1. CASE q = r
    BY <1>2, <1>6, <2>1 DEF Keeps, Holds
  <2>2. CASE q # r
    BY <1>2, <1>6, <2>2 DEF Holds
  <2> QED
    BY <2>1, <2>2
<1>7. ASSUME NEW n \in Names
      PROVE  litter' # {} \/ dirs'[n] = NoDir
               \/ \E q \in Runs : dirs'[n].maker = q /\ Holds(q)' /\ run'[q].name = n
  <2> SUFFICES ASSUME litter' = {}, dirs'[n] # NoDir
               PROVE  \E q \in Runs : dirs'[n].maker = q /\ Holds(q)' /\ run'[q].name = n
    OBVIOUS
  <2>1. DirOK(n) /\ litter = {}
    BY <1>3 DEF RunPart
  <2>2. CASE n = m /\ d.maker = r /\ (s.pc \in {"open", "badfd", "write", "fork"} \/ c) /\ s.name = m
    BY <1>2, <2>2 DEF Holds
  <2>3. CASE ~(n = m /\ d.maker = r /\ (s.pc \in {"open", "badfd", "write", "fork"} \/ c) /\ s.name = m)
    <3>1. dirs[n] # NoDir /\ dirs'[n].maker = dirs[n].maker
      BY <1>2, <2>3 DEF PlaceGood
    <3>2. PICK q \in Runs : dirs[n].maker = q /\ Holds(q) /\ run[q].name = n
      BY <2>1, <3>1 DEF DirOK
    <3>3. q # r \/ Keeps(r, s, c)
      <4>1. CASE n = m
        BY <1>2, <2>3, <3>1, <3>2, <4>1 DEF PlaceGood
      <4>2. CASE n # m
        BY <3>2, <4>2 DEF PlaceGood
      <4> QED
        BY <4>1, <4>2
    <3> QED
      BY <1>6, <3>1, <3>2, <3>3
  <2> QED
    BY <2>2, <2>3
<1>8. ASSUME NEW n \in Names
      PROVE  dirs'[n].owner = NoRun \/ dirs'[n].blocks = Whole \/ Broken' \/ Writing(n)'
  <2> SUFFICES ASSUME ~Broken', dirs'[n].owner # NoRun, dirs'[n].blocks # Whole
               PROVE  Writing(n)'
    OBVIOUS
  <2>1. DirOK(n) /\ ~Broken
    BY <1>3 DEF RunPart
  <2>2. CASE n = m /\ d.owner = r /\ s.pc = "write" /\ s.name = m
    BY <1>2, <2>2 DEF Writing
  <2>3. CASE ~(n = m /\ d.owner = r /\ s.pc = "write" /\ s.name = m)
    <3>1. dirs'[n].owner = dirs[n].owner /\ dirs'[n].blocks = dirs[n].blocks
      BY <1>2, <2>3 DEF FileGood
    <3>2. Writing(n) /\ dirs[n].owner \in Runs
      <4>1. dirs[n].owner \in Runs \cup {NoRun}
        BY <1>1 DEF Folders
      <4> QED
        BY <2>1, <3>1, <4>1 DEF DirOK
    <3>3. dirs[n].owner # r
      <4>1. CASE n = m
        BY <1>2, <2>3, <4>1 DEF FileGood
      <4>2. CASE n # m
        BY <3>2, <4>2 DEF FileGood, Writing
      <4> QED
        BY <4>1, <4>2
    <3> QED
      BY <1>2, <3>1, <3>2, <3>3 DEF Writing
  <2> QED
    BY <2>2, <2>3
<1> QED
  BY <1>4, <1>5, <1>7, <1>8 DEF RunPart, DirOK

(* A run goes on and leaves the directories alone. *)
LEMMA RunStays ==
  ASSUME RunPart, NEW r \in Runs, NEW s \in Stubs, NEW c \in BOOLEAN,
         run' = [run EXCEPT ![r] = s], cleaner' = [cleaner EXCEPT ![r] = c], UNCHANGED dirs,
         litter \subseteq litter', litter' \subseteq {"dir", "cut"}, mishap => mishap',
         Sound(s, c), s.pc # "write",
         run[r].pc = "write" => run[r].out = Whole \/ Broken',
         litter' # {} \/ ~Holds(r) \/ Keeps(r, s, c)
  PROVE  RunPart'
<1> DEFINE m == run[r].name
           d == dirs[m]
<1>1. /\ m \in Names /\ d \in Folders /\ RunOK(r) /\ DirOK(m)
      /\ Moves(r, m, s, c, d)
  BY RunFacts DEF Moves, RunPart
<1>2. OwnGood(r, m, s, c, d)
  BY DEF OwnGood
<1>3. PlaceGood(r, m, s, c, d)
  <2> SUFFICES ASSUME litter' = {}, d # NoDir, d.maker = r
               PROVE  Keeps(r, s, c)
    BY DEF PlaceGood, Keeps
  <2>1. Holds(r)
    BY <1>1 DEF DirOK
  <2> QED
    BY <2>1
<1>4. FileGood(r, m, s, d)
  <2> SUFFICES ASSUME d.owner = r, ~Broken' PROVE d.blocks = Whole
    BY DEF FileGood
  <2>1. ~Broken /\ r # NoRun
    BY RunFacts DEF Broken
  <2>2. CASE run[r].pc = "write"
    BY <1>1, <2>2 DEF RunOK
  <2>3. CASE run[r].pc # "write"
    BY <1>1, <2>1, <2>3 DEF DirOK, Writing
  <2> QED
    BY <2>2, <2>3
<1> HIDE DEF m, d
<1> QED
  BY <1>1, <1>2, <1>3, <1>4, RunMoves

(* A run goes on and removes what there is under its name. *)
LEMMA RunRemoves ==
  ASSUME RunPart, NEW r \in Runs, NEW s \in Stubs, NEW c \in BOOLEAN,
         run' = [run EXCEPT ![r] = s], cleaner' = [cleaner EXCEPT ![r] = c], RmDir(r),
         UNCHANGED <<litter, mishap>>, Sound(s, c), s.pc # "write"
  PROVE  RunPart'
<1>1. run[r].name \in Names /\ Moves(r, run[r].name, s, c, NoDir)
  BY RunFacts DEF Moves, RmDir, RunPart, RunType
<1>2. /\ OwnGood(r, run[r].name, s, c, NoDir)
      /\ PlaceGood(r, run[r].name, s, c, NoDir) /\ FileGood(r, run[r].name, s, NoDir)
  BY NoDirFacts DEF OwnGood, PlaceGood, FileGood
<1> QED
  BY <1>1, <1>2, NoDirFacts, RunMoves

(* The next place in the code. *)
LEMMA GotoIs ==
  ASSUME RunPart, NEW r \in Runs, NEW p \in {"badfd", "write", "fork", "exec", "late"}, Goto(r, p)
  PROVE  \E s \in Stubs : /\ run' = [run EXCEPT ![r] = s] /\ s.pc = p /\ s.name = run[r].name
                          /\ s.image = run[r].image /\ s.out = run[r].out
<1> DEFINE s == Stub(p, run[r].name, Tries, run[r].image, run[r].out)
<1>1. /\ s \in Stubs /\ s.pc = p /\ s.name = run[r].name
      /\ s.image = run[r].image /\ s.out = run[r].out
  BY RunFacts, IdleFacts, StubFacts
<1>2. run' = [run EXCEPT ![r] = s]
  BY DEF Goto, Set
<1> HIDE DEF s
<1> QED
  BY <1>1, <1>2

LEMMA Again ==
  ASSUME RunPart, NEW r \in Runs, TryAgain(r), run[r].pc \in {"mkdir", "open"},
         UNCHANGED <<litter, mishap>>
  PROVE  \E s \in Stubs : /\ run' = [run EXCEPT ![r] = s] /\ s.pc \in {"idle", "mkdir"}
                          /\ Sound(s, cleaner[r]) /\ ~cleaner[r]
<1>1. ~cleaner[r] /\ run[r].out = <<>> /\ (run[r].image = Whole \/ Broken')
  BY RunFacts DEF RunOK, Broken
<1>2. CASE run[r].tries > 1
  <2> DEFINE s == Stub("mkdir", run[r].name, run[r].tries - 1, run[r].image, run[r].out)
  <2>1. run[r].tries - 1 \in 1 .. Tries
    BY <1>2, RunFacts
  <2>2. s \in Stubs /\ s.pc = "mkdir" /\ s.image = run[r].image /\ s.out = run[r].out
    BY <2>1, RunFacts, StubFacts
  <2>3. run' = [run EXCEPT ![r] = s]
    BY <1>2 DEF TryAgain, Set
  <2> HIDE DEF s
  <2> QED
    BY <1>1, <2>2, <2>3 DEF Sound
<1>3. CASE ~(run[r].tries > 1)
  BY <1>1, <1>3, IdleFacts DEF TryAgain, Set, Sound
<1> QED
  BY <1>2, <1>3

(* The way out of every error. *)
LEMMA ErrorKeeps ==
  ASSUME RunPart, NEW r \in Runs, Error(r), run[r].pc # "idle", UNCHANGED <<cleaner, litter, mishap>>
  PROVE  RunPart'
<1>1. /\ RmDir(r) /\ cleaner' = [cleaner EXCEPT ![r] = cleaner[r]] /\ cleaner[r] \in BOOLEAN
      /\ (run[r].image = Whole \/ Broken')
  BY RunFacts DEF Error, RunOK, Broken
<1>2. CASE cleaner[r]
  <2>1. PICK s \in Stubs : /\ run' = [run EXCEPT ![r] = s] /\ s.pc = "late"
                           /\ s.image = run[r].image
    BY <1>2, GotoIs DEF Error
  <2>2. Sound(s, cleaner[r])
    BY <1>1, <2>1 DEF Sound
  <2> QED
    BY <1>1, <2>1, <2>2, RunRemoves
<1>3. CASE ~cleaner[r]
  <2>1. run' = [run EXCEPT ![r] = IdleRun]
    BY <1>3 DEF Error, Set
  <2>2. Sound(IdleRun, cleaner[r])
    BY <1>3, IdleFacts DEF Sound
  <2> QED
    BY <1>1, <2>1, <2>2, IdleFacts, RunRemoves
<1> QED
  BY <1>2, <1>3
------------------------------------------------------------------------------
(* The stub, step by step *)

LEMMA StubExec == ASSUME PackType, PackOK, RunPart, NEW r \in Runs, Exec(r) PROVE RunPart'
<1> DEFINE s == Stub("mkdir", AnyName, Tries, file.blocks, <<>>)
<1>1. /\ run[r].pc = "idle" /\ ~cleaner[r] /\ ~Holds(r)
      /\ cleaner' = [cleaner EXCEPT ![r] = cleaner[r]] /\ cleaner[r] \in BOOLEAN
      /\ UNCHANGED <<dirs, litter, mishap>> /\ litter \subseteq {"dir", "cut"}
  BY RunFacts, IdleFacts DEF Exec, Holds, RunPart, RunType
<1>2. file.blocks = Whole \/ Broken'
  BY <1>1 DEF Exec, PackOK, Broken
<1>3. s \in Stubs /\ s.pc = "mkdir" /\ s.image = file.blocks /\ s.out = <<>>
  BY IdleFacts, PipeNumbers DEF Stub, Stubs
<1>4. run' = [run EXCEPT ![r] = s]
  BY DEF Exec, Set
<1> HIDE DEF s
<1>5. Sound(s, cleaner[r])
  BY <1>1, <1>2, <1>3 DEF Sound
<1> QED
  BY <1>1, <1>3, <1>4, <1>5, RunStays

LEMMA StubMkdir == ASSUME RunPart, NEW r \in Runs, Mkdir(r) PROVE RunPart'
<1>1. /\ run[r].pc = "mkdir" /\ ~cleaner[r] /\ ~Holds(r) /\ run[r].out = <<>>
      /\ cleaner' = [cleaner EXCEPT ![r] = cleaner[r]] /\ cleaner[r] \in BOOLEAN
      /\ UNCHANGED <<litter, mishap>> /\ litter \subseteq {"dir", "cut"}
      /\ (run[r].image = Whole \/ Broken')
  <2>1. run[r].pc = "mkdir" /\ UNCHANGED <<cleaner, litter, mishap>>
    BY DEF Mkdir
  <2> QED
    BY <2>1, RunFacts DEF RunOK, Holds, RunPart, RunType, Broken
<1>2. ASSUME NEW n \in Names, dirs[n] = NoDir, dirs' = [dirs EXCEPT ![n] = Dir(r, NoRun, <<>>)],
             Set(r, Stub("open", n, run[r].tries, run[r].image, <<>>))
      PROVE  RunPart'
  <2> DEFINE s == Stub("open", n, run[r].tries, run[r].image, <<>>)
             d == Dir(r, NoRun, <<>>)
  <2>1. /\ s \in Stubs /\ s.pc = "open" /\ s.name = n /\ s.image = run[r].image /\ s.out = <<>>
    BY RunFacts, IdleFacts DEF Stub, Stubs
  <2>2. d \in Folders /\ d.maker = r /\ d.owner = NoRun
    BY IdleFacts DEF Dir, Folders
  <2>3. run' = [run EXCEPT ![r] = s] /\ dirs' = [dirs EXCEPT ![n] = d]
    BY <1>2 DEF Set
  <2> HIDE DEF s, d
  <2>4. Moves(r, n, s, cleaner[r], d)
    BY <1>1, <2>3 DEF Moves
  <2>5. OwnGood(r, n, s, cleaner[r], d) /\ PlaceGood(r, n, s, cleaner[r], d) /\ FileGood(r, n, s, d)
    BY <1>1, <2>1, <2>2 DEF OwnGood, Sound, PlaceGood, FileGood
  <2> QED
    BY <1>1, <2>1, <2>2, <2>4, <2>5, RunMoves
<1>3. CASE TryAgain(r) /\ UNCHANGED dirs
  <2>1. PICK s \in Stubs : /\ run' = [run EXCEPT ![r] = s] /\ s.pc \in {"idle", "mkdir"}
                           /\ Sound(s, cleaner[r])
    BY <1>1, <1>3, Again
  <2> QED
    BY <1>1, <1>3, <2>1, RunStays
<1> QED
  BY <1>2, <1>3 DEF Mkdir

(* What a run that has a directory, and has not forked, has. *)
LEMMA AtWork ==
  ASSUME RunPart, NEW r \in Runs, run[r].pc \in {"open", "badfd", "write", "fork"},
         UNCHANGED <<cleaner, mishap>>
  PROVE  /\ ~cleaner[r] /\ cleaner' = [cleaner EXCEPT ![r] = cleaner[r]] /\ cleaner[r] \in BOOLEAN
         /\ litter \subseteq {"dir", "cut"}
         /\ litter \subseteq litter' => run[r].image = Whole \/ Broken'
         /\ run[r].pc \in {"open", "badfd"} => run[r].out = <<>>
         /\ run[r].pc = "write" /\ dirs[run[r].name].owner = r =>
              dirs[run[r].name].blocks = run[r].out
  BY RunFacts DEF RunOK, RunPart, RunType, Broken

LEMMA StubOpen == ASSUME RunPart, NEW r \in Runs, Open(r) PROVE RunPart'
<1>1. run[r].pc = "open" /\ UNCHANGED <<cleaner, litter, mishap>>
  BY DEF Open
<1>2. /\ ~cleaner[r] /\ cleaner' = [cleaner EXCEPT ![r] = cleaner[r]] /\ cleaner[r] \in BOOLEAN
      /\ litter \subseteq {"dir", "cut"} /\ (run[r].image = Whole \/ Broken') /\ run[r].out = <<>>
  BY <1>1, AtWork
<1>3. CASE /\ FileFree(run[r].name) /\ Goto(r, "write")
           /\ dirs' = [dirs EXCEPT ![run[r].name] = Dir(@.maker, r, <<>>)]
  <2> DEFINE m == run[r].name
             d == Dir(dirs[m].maker, r, <<>>)
  <2>1. PICK s \in Stubs : /\ run' = [run EXCEPT ![r] = s] /\ s.pc = "write" /\ s.name = m
                           /\ s.image = run[r].image /\ s.out = run[r].out
    BY <1>3, GotoIs
  <2>2. d \in Folders /\ d.maker = dirs[m].maker /\ d.owner = r /\ d.blocks = <<>>
    BY RunFacts, IdleFacts DEF Dir, Folders
  <2>3. m \in Names /\ dirs' = [dirs EXCEPT ![m] = d] /\ dirs[m] # NoDir
    BY <1>3, RunFacts DEF FileFree
  <2> HIDE DEF d
  <2>4. Moves(r, m, s, cleaner[r], d)
    BY <1>1, <1>2, <2>1, <2>3 DEF Moves
  <2>5. OwnGood(r, m, s, cleaner[r], d)
    BY <1>2, <2>1, <2>2 DEF OwnGood, Sound
  <2>6. PlaceGood(r, m, s, cleaner[r], d) /\ FileGood(r, m, s, d)
    BY <1>1, <2>1, <2>2, <2>3 DEF PlaceGood, FileGood
  <2> QED
    BY <1>2, <2>2, <2>3, <2>4, <2>5, <2>6, RunMoves
<1>4. CASE RmDir(r) /\ TryAgain(r)
  <2>1. PICK s \in Stubs : /\ run' = [run EXCEPT ![r] = s] /\ s.pc \in {"idle", "mkdir"}
                           /\ Sound(s, cleaner[r])
    BY <1>1, <1>4, Again
  <2> QED
    BY <1>1, <1>2, <1>4, <2>1, RunRemoves
<1>5. CASE Goto(r, "badfd") /\ UNCHANGED dirs
  <2>1. PICK s \in Stubs : /\ run' = [run EXCEPT ![r] = s] /\ s.pc = "badfd"
                           /\ s.name = run[r].name /\ s.image = run[r].image /\ s.out = run[r].out
    BY <1>5, GotoIs
  <2>2. Sound(s, cleaner[r]) /\ Keeps(r, s, cleaner[r])
    BY <1>2, <2>1 DEF Sound, Keeps
  <2> QED
    BY <1>1, <1>2, <1>5, <2>1, <2>2, RunStays
<1> QED
  BY <1>3, <1>4, <1>5 DEF Open

(* On to the fork, with the directory. *)
LEMMA ToFork ==
  ASSUME RunPart, NEW r \in Runs, run[r].pc \in {"badfd", "write"}, Goto(r, "fork"),
         UNCHANGED <<cleaner, dirs, litter, mishap>>,
         run[r].pc = "write" => run[r].out = run[r].image
  PROVE  RunPart'
<1>1. PICK s \in Stubs : /\ run' = [run EXCEPT ![r] = s] /\ s.pc = "fork"
                         /\ s.name = run[r].name /\ s.image = run[r].image /\ s.out = run[r].out
  BY GotoIs
<1>2. /\ ~cleaner[r] /\ cleaner' = [cleaner EXCEPT ![r] = cleaner[r]] /\ cleaner[r] \in BOOLEAN
      /\ litter \subseteq {"dir", "cut"} /\ (run[r].image = Whole \/ Broken')
  BY AtWork
<1>3. Sound(s, cleaner[r]) /\ Keeps(r, s, cleaner[r])
  BY <1>1, <1>2 DEF Sound, Keeps
<1> QED
  BY <1>1, <1>2, <1>3, RunStays

LEMMA StubBadFd == ASSUME RunPart, NEW r \in Runs, BadFd(r) PROVE RunPart'
<1>1. run[r].pc = "badfd" /\ UNCHANGED <<cleaner, litter, mishap>>
  BY DEF BadFd
<1> QED
  BY <1>1, ToFork, ErrorKeeps DEF BadFd

LEMMA StubWriteBlock == ASSUME RunPart, NEW r \in Runs, WriteBlock(r) PROVE RunPart'
<1> DEFINE i == Len(run[r].out) + 1
           b == Append(run[r].out, run[r].image[i])
           m == run[r].name
<1>1. run[r].pc = "write" /\ i <= Len(run[r].image) /\ UNCHANGED <<cleaner, litter, mishap>>
  BY DEF WriteBlock
<1>2. b \in Seq(Blocks)
  <2>1. Len(run[r].out) \in Nat /\ Len(run[r].image) \in Nat
    BY RunFacts, LenProperties
  <2>2. i \in 1..Len(run[r].image)
    BY <1>1, <2>1
  <2>3. run[r].image[i] \in Blocks
    BY <2>2, RunFacts, ElementOfSeq
  <2> QED
    BY <2>3, RunFacts, AppendProperties
<1>3. CASE /\ Set(r, Stub("write", m, Tries, run[r].image, b))
           /\ dirs' = [dirs EXCEPT ![m] = IF @.owner = r THEN Dir(@.maker, r, b) ELSE @]
  <2> DEFINE s == Stub("write", m, Tries, run[r].image, b)
             d == IF dirs[m].owner = r THEN Dir(dirs[m].maker, r, b) ELSE dirs[m]
  <2>1. /\ s \in Stubs /\ s.pc = "write" /\ s.name = m /\ s.image = run[r].image /\ s.out = b
    BY <1>2, RunFacts, IdleFacts DEF Stub, Stubs
  <2>2. /\ m \in Names /\ d \in Folders /\ d.maker = dirs[m].maker /\ d.owner = dirs[m].owner
        /\ IF d.owner = r THEN d.blocks = b ELSE d = dirs[m]
    BY <1>2, RunFacts DEF Dir, Folders
  <2>3. dirs' = [dirs EXCEPT ![m] = d] /\ run' = [run EXCEPT ![r] = s]
    BY <1>3 DEF Set
  <2>4. dirs[m] = NoDir => d = NoDir
    BY <2>2, RunFacts, NoDirFacts
  <2> HIDE DEF s, d, b
  <2>5. /\ ~cleaner[r] /\ cleaner' = [cleaner EXCEPT ![r] = cleaner[r]] /\ cleaner[r] \in BOOLEAN
        /\ litter \subseteq {"dir", "cut"} /\ (run[r].image = Whole \/ Broken')
    BY <1>1, AtWork
  <2>6. Moves(r, m, s, cleaner[r], d)
    BY <1>1, <2>3, <2>5 DEF Moves
  <2>7. OwnGood(r, m, s, cleaner[r], d)
    BY <2>1, <2>2, <2>5 DEF OwnGood, Sound
  <2>8. PlaceGood(r, m, s, cleaner[r], d)
    BY <2>1, <2>2, <2>4 DEF PlaceGood
  <2>9. FileGood(r, m, s, d)
    BY <2>1, <2>2 DEF FileGood
  <2> QED
    BY <2>1, <2>2, <2>5, <2>6, <2>7, <2>8, <2>9, RunMoves
<1>4. CASE Error(r)
  BY <1>1, <1>4, ErrorKeeps
<1> QED
  BY <1>3, <1>4 DEF WriteBlock

LEMMA StubWriteEnd == ASSUME RunPart, NEW r \in Runs, WriteEnd(r) PROVE RunPart'
<1>1. /\ run[r].pc = "write" /\ run[r].out = run[r].image /\ UNCHANGED <<cleaner, litter, mishap>>
      /\ (Goto(r, "fork") /\ UNCHANGED dirs) \/ Error(r)
  BY DEF WriteEnd
<1> QED
  BY <1>1, ToFork, ErrorKeeps

LEMMA StubFork == ASSUME RunPart, NEW r \in Runs, Fork(r) PROVE RunPart'
<1>1. run[r].pc = "fork" /\ UNCHANGED <<dirs, mishap>> /\ Goto(r, "exec")
  BY DEF Fork
<1>2. /\ ~cleaner[r] /\ cleaner = [cleaner EXCEPT ![r] = cleaner[r]] /\ cleaner[r] \in BOOLEAN
      /\ litter \subseteq {"dir", "cut"} /\ (run[r].image = Whole \/ Broken)
  BY <1>1, RunFacts DEF RunOK, RunPart, RunType
<1>3. PICK s \in Stubs : /\ run' = [run EXCEPT ![r] = s] /\ s.pc = "exec"
                         /\ s.name = run[r].name /\ s.image = run[r].image
  BY <1>1, GotoIs
<1>4. CASE cleaner' = [cleaner EXCEPT ![r] = TRUE] /\ UNCHANGED litter
  <2>1. Sound(s, TRUE) /\ Keeps(r, s, TRUE)
    BY <1>1, <1>2, <1>3, <1>4 DEF Sound, Keeps, Broken
  <2> QED
    BY <1>1, <1>2, <1>3, <1>4, <2>1, RunStays
<1>5. CASE litter' = litter \cup {"dir"} /\ UNCHANGED cleaner
  <2>1. litter \subseteq litter' /\ litter' \subseteq {"dir", "cut"} /\ litter' # {}
    BY <1>2, <1>5
  <2>2. Sound(s, cleaner[r])
    BY <1>1, <1>2, <1>3, <2>1 DEF Sound, Broken
  <2>3. /\ cleaner[r] \in BOOLEAN /\ cleaner' = [cleaner EXCEPT ![r] = cleaner[r]]
        /\ run' = [run EXCEPT ![r] = s] /\ s.pc # "write" /\ run[r].pc # "write"
        /\ UNCHANGED dirs /\ (mishap => mishap')
    BY <1>1, <1>2, <1>3, <1>5
  <2> QED
    BY <2>1, <2>2, <2>3, RunStays
<1> QED
  BY <1>4, <1>5 DEF Fork

(* What is executed is whole: a file that is not is open for writing. *)
LEMMA ExecutableIsWhole ==
  ASSUME RunPart, NEW n \in Names, Executable(n)
  PROVE  dirs[n].blocks = Whole \/ Broken
  BY DEF RunPart, DirOK, Executable

LEMMA StubExecve == ASSUME RunPart, NEW r \in Runs, Execve(r) PROVE RunPart'
<1>1. run[r].pc = "exec" /\ UNCHANGED <<cleaner, litter, mishap>> /\ litter \subseteq {"dir", "cut"}
  BY DEF Execve, RunPart, RunType
<1> DEFINE b == dirs[run[r].name].blocks
<1>2. CASE /\ Executable(run[r].name) /\ UNCHANGED dirs
           /\ Set(r, Stub("running", run[r].name, Tries, b, <<>>))
  <2> DEFINE s == Stub("running", run[r].name, Tries, b, <<>>)
  <2>1. b = Whole \/ Broken'
    BY <1>1, <1>2, RunFacts, ExecutableIsWhole DEF Broken
  <2>2. s \in Stubs /\ s.pc = "running" /\ s.name = run[r].name /\ s.image = b
    BY RunFacts, IdleFacts DEF Stub, Stubs
  <2>3. run' = [run EXCEPT ![r] = s]
    BY <1>2 DEF Set
  <2> HIDE DEF s, b
  <2>4. Sound(s, cleaner[r]) /\ (~Holds(r) \/ Keeps(r, s, cleaner[r]))
    BY <1>1, <2>1, <2>2 DEF Sound, Holds, Keeps
  <2>5. cleaner' = [cleaner EXCEPT ![r] = cleaner[r]] /\ cleaner[r] \in BOOLEAN
    BY <1>1, RunFacts
  <2> QED
    BY <1>1, <1>2, <2>2, <2>3, <2>4, <2>5, RunStays
<1>3. CASE Error(r)
  BY <1>1, <1>3, ErrorKeeps
<1> QED
  BY <1>2, <1>3 DEF Execve

LEMMA StubCleanUp == ASSUME RunPart, NEW r \in Runs, CleanUp(r) PROVE RunPart'
<1>1. /\ cleaner[r] /\ cleaner' = [cleaner EXCEPT ![r] = FALSE] /\ RmDir(r)
      /\ UNCHANGED <<run, litter, mishap>>
  BY DEF CleanUp
<1>2. PICK s \in Stubs : s = run[r] /\ run' = [run EXCEPT ![r] = s]
  BY <1>1, RunFacts
<1>3. Sound(s, FALSE) /\ s.pc # "write"
  BY <1>1, <1>2, RunFacts DEF Sound, RunOK, Broken
<1> QED
  BY <1>1, <1>2, <1>3, RunRemoves

LEMMA StubEnd == ASSUME RunPart, NEW r \in Runs, RunEnd(r) PROVE RunPart'
<1>1. /\ ~Holds(r) /\ run[r].pc # "write" /\ run' = [run EXCEPT ![r] = IdleRun]
      /\ UNCHANGED <<cleaner, dirs, litter, mishap>> /\ ~cleaner[r]
  BY DEF RunEnd, Set, Holds
<1>2. /\ cleaner' = [cleaner EXCEPT ![r] = cleaner[r]] /\ cleaner[r] \in BOOLEAN
      /\ litter \subseteq {"dir", "cut"}
  BY <1>1, RunFacts DEF RunPart, RunType
<1>3. Sound(IdleRun, cleaner[r])
  BY <1>1, IdleFacts DEF Sound
<1> QED
  BY <1>1, <1>2, <1>3, IdleFacts, RunStays

LEMMA StubKilled == ASSUME RunPart, NEW r \in Runs, Killed(r) PROVE RunPart'
<1>1. UNCHANGED <<dirs, mishap>> /\ RunOK(r) /\ cleaner[r] \in BOOLEAN /\ litter \subseteq {"dir", "cut"}
  BY RunFacts DEF Killed, RunPart, RunType
<1>2. CASE /\ run[r].pc \in {"mkdir", "open", "badfd", "write", "fork", "exec"}
           /\ (IF cleaner[r] THEN Goto(r, "late") ELSE Set(r, IdleRun))
           /\ litter' = litter \cup {x \in {"dir"} : run[r].pc \in {"open", "badfd", "write", "fork"}}
                               \cup {x \in {"cut"} : run[r].pc = "write"}
           /\ UNCHANGED cleaner
  <2>1. /\ litter \subseteq litter' /\ litter' \subseteq {"dir", "cut"}
        /\ run[r].pc \in {"open", "badfd", "write", "fork"} => litter' # {}
        /\ run[r].pc = "write" => Broken'
    BY <1>1, <1>2 DEF Broken
  <2>2. cleaner' = [cleaner EXCEPT ![r] = cleaner[r]] /\ (run[r].image = Whole \/ Broken')
    BY <1>1, <1>2, <2>1, RunFacts DEF RunOK, Broken
  <2>3. CASE cleaner[r]
    <3>1. PICK s \in Stubs : /\ run' = [run EXCEPT ![r] = s] /\ s.pc = "late"
                             /\ s.name = run[r].name /\ s.image = run[r].image
      BY <1>2, <2>3, GotoIs
    <3>2. Sound(s, cleaner[r]) /\ Keeps(r, s, cleaner[r])
      BY <2>2, <2>3, <3>1 DEF Sound, Keeps
    <3> QED
      BY <1>1, <2>1, <2>2, <3>1, <3>2, RunStays
  <2>4. CASE ~cleaner[r]
    <3>1. run' = [run EXCEPT ![r] = IdleRun] /\ (litter' # {} \/ ~Holds(r))
      BY <1>2, <2>1, <2>4 DEF Set, Holds
    <3>2. Sound(IdleRun, cleaner[r])
      BY <2>4, IdleFacts DEF Sound
    <3> QED
      BY <1>1, <2>1, <2>2, <3>1, <3>2, IdleFacts, RunStays
  <2> QED
    BY <2>3, <2>4
<1>3. CASE /\ cleaner[r] /\ cleaner' = [cleaner EXCEPT ![r] = FALSE]
           /\ litter' = litter \cup {"dir"} /\ UNCHANGED run
  <2>1. litter \subseteq litter' /\ litter' \subseteq {"dir", "cut"} /\ litter' # {}
    BY <1>1, <1>3
  <2>2. PICK s \in Stubs : s = run[r] /\ run' = [run EXCEPT ![r] = s]
    BY <1>3, RunFacts
  <2>3. Sound(s, FALSE) /\ s.pc # "write"
    BY <1>1, <1>3, <2>1, <2>2 DEF Sound, RunOK, Broken
  <2> QED
    BY <1>1, <1>3, <2>1, <2>2, <2>3, RunStays
<1> QED
  BY <1>2, <1>3 DEF Killed
------------------------------------------------------------------------------
(* The theorems *)

Stepping(r) == Exec(r) \/ RunStep(r) \/ CleanUp(r) \/ RunEnd(r) \/ Killed(r)

(* The runs' steps leave the packer alone. *)
LEMMA RunKeeps ==
  ASSUME IInv, NEW r \in Runs, Stepping(r)
  PROVE  IInv'
<1>1. RunPart /\ PackType /\ PackOK
  BY DEF IInv, TypeOK, RunPart
<1>2. RunPart'
  BY <1>1, StubExec, StubMkdir, StubOpen, StubBadFd, StubWriteBlock, StubWriteEnd, StubFork,
     StubExecve, StubCleanUp, StubEnd, StubKilled DEF Stepping, RunStep
<1>3. UNCHANGED <<file, backup, job, tmp, child, pipe, sent, mishap>>
  BY DEF Stepping, RunStep, Exec, Mkdir, Open, BadFd, WriteBlock, WriteEnd, Fork, Execve, CleanUp,
         RunEnd, Killed, packVars
<1>4. PackType'
  BY <1>1, <1>3 DEF PackType
<1>5. PackOK'
  BY <1>1, <1>3 DEF PackOK, Flow, Safe
<1> QED
  BY <1>2, <1>4, <1>5 DEF IInv, TypeOK, RunPart

LEMMA RunInit == Init => RunPart
<1> SUFFICES ASSUME Init PROVE RunPart
  OBVIOUS
<1>1. /\ run = [r \in Runs |-> IdleRun] /\ cleaner = [r \in Runs |-> FALSE]
      /\ dirs = [n \in Names |-> NoDir] /\ litter = {}
  BY DEF Init
<1>2. RunType
  BY <1>1, IdleFacts, NoDirFacts DEF RunType
<1>3. \A r \in Runs : RunOK(r)
  BY <1>1, IdleFacts DEF RunOK
<1>4. \A n \in Names : DirOK(n)
  BY <1>1, NoDirFacts DEF DirOK
<1> QED
  BY <1>2, <1>3, <1>4 DEF RunPart

(* Where the program is while a command is at work, what has passed through the *)
(* pipe, and whose every directory under /tmp is: an invariant of exepak and of *)
(* any number of packed programs being run.                                     *)
THEOREM PackInvariant == Spec => []IInv
<1>1. Init => IInv
  BY PackInit, RunInit DEF IInv, TypeOK, RunPart
<1>2. ASSUME IInv, [Next]_vars PROVE IInv'
  <2>1. CASE Packer
    BY <1>2, <2>1, PackerKeeps
  <2>2. CASE \E r \in Runs : Stepping(r)
    BY <1>2, <2>2, RunKeeps
  <2>3. CASE UNCHANGED vars
    <3>1. UNCHANGED <<file, backup, job, tmp, child, pipe, sent, run, cleaner, dirs, mishap, litter>>
      BY <2>3 DEF vars
    <3>2. PackType' /\ PackOK'
      BY <1>2, <3>1 DEF IInv, TypeOK, PackType, PackOK, Flow, Safe
    <3>3. RunType' /\ (\A r \in Runs : RunOK(r)') /\ (\A n \in Names : DirOK(n)')
      BY <1>2, <3>1 DEF IInv, TypeOK, RunType, RunOK, DirOK, Holds, Writing, Broken
    <3> QED
      BY <3>2, <3>3 DEF IInv, TypeOK
  <2> QED
    BY <1>2, <2>1, <2>2, <2>3 DEF Next, Packer, Stepping
<1> QED
  BY <1>1, <1>2, PTL DEF Spec

(* Between commands the program is there and whole, whatever fails and whenever *)
(* the command is interrupted, except after one of the mishaps NeverLost names. *)
THEOREM ProgramIsNeverLost == Spec => []NeverLost
<1>1. IInv => NeverLost
  BY DEF IInv, NeverLost, PackOK, Safe
<1> QED
  BY <1>1, PackInvariant, PTL

(* A packed program that is run is whole, however many others are unpacked and  *)
(* removed under its name at the same time, and nothing is left behind when all *)
(* are over.                                                                    *)
THEOREM RunsAreClean == Spec => []RunsClean
<1>1. IInv => RunsClean
  <2> SUFFICES ASSUME IInv PROVE RunsClean
    OBVIOUS
  <2>1. RunsWhole
    BY DEF IInv, RunOK, RunsWhole, Broken
  <2>2. ASSUME \A r \in Runs : run[r] = IdleRun /\ ~cleaner[r], litter = {}, NEW n \in Names
        PROVE  dirs[n] = NoDir
    <3>1. \A r \in Runs : ~Holds(r)
      BY <2>2, IdleFacts DEF Holds
    <3> QED
      BY <2>2, <3>1 DEF IInv, DirOK
  <2> QED
    BY <2>1, <2>2 DEF RunsClean, NothingLeft
<1> QED
  BY <1>1, PackInvariant, PTL
==============================================================================
