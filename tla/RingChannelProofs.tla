-------------------------- MODULE RingChannelProofs --------------------------
(***************************************************************************)
(* Proofs about RingChannel for any number of CPUs, slots and requests:    *)
(* the ring delivers requests and responses unharmed over the wrap-around  *)
(* of slots and indices, and once a verdict has wedged it, it stays so.    *)
(***************************************************************************)
EXTENDS RingChannel, FiniteSetTheorems, SequenceTheorems, TLAPS

------------------------------------------------------------------------------
(* Unsigned indices *)

(* Division with remainder. *)
LEMMA DivMod ==
  ASSUME NEW x \in Int, NEW m \in Nat \ {0}
  PROVE  /\ x \div m \in Int /\ x % m \in 0..(m - 1)
         /\ x = m * (x \div m) + (x % m)
  OBVIOUS

(* A multiple of m that lies between -m and m is none. *)
LEMMA SmallMultiple ==
  ASSUME NEW m \in Nat \ {0}, NEW d \in Int, -m < m * d, m * d < m
  PROVE  d = 0
<1>1. ~(d >= 1)
  <2> SUFFICES ASSUME d >= 1 PROVE FALSE
    OBVIOUS
  <2>1. m * d >= m * 1
    OBVIOUS
  <2> QED
    BY <2>1
<1>2. ~(d <= -1)
  <2> SUFFICES ASSUME d <= -1 PROVE FALSE
    OBVIOUS
  <2>1. m * d <= m * (-1)
    OBVIOUS
  <2> QED
    BY <2>1
<1> QED
  BY <1>1, <1>2

(* The remainder is the only number below m that differs from x by a       *)
(* multiple of m.                                                          *)
LEMMA ModIs ==
  ASSUME NEW x \in Int, NEW m \in Nat \ {0}, NEW q \in Int, NEW r \in 0..(m - 1),
         x = m * q + r
  PROVE  x % m = r
<1> DEFINE d == (x \div m) - q
<1>1. /\ x \div m \in Int /\ x % m \in 0..(m - 1)
      /\ x = m * (x \div m) + (x % m)
  BY DivMod
<1>2. d \in Int /\ m * d = m * (x \div m) - m * q
  BY <1>1
<1>3. m * d = r - (x % m)
  BY <1>1, <1>2
<1> HIDE DEF d
<1>4. d = 0
  BY <1>1, <1>2, <1>3, SmallMultiple
<1>5. m * d = 0
  BY <1>4
<1> QED
  BY <1>1, <1>3, <1>5

(* The next index, over the wrap-around. *)
LEMMA ModOnce ==
  ASSUME NEW m \in Nat \ {0}, NEW x \in 0..(2 * m - 1)
  PROVE  x % m = IF x < m THEN x ELSE x - m
<1>1. CASE x < m
  <2>1. x = m * 0 + x
    OBVIOUS
  <2> QED
    BY <1>1, <2>1, ModIs
<1>2. CASE x >= m
  <2>1. x = m * 1 + (x - m) /\ x - m \in 0..(m - 1)
    BY <1>2
  <2> QED
    BY <1>2, <2>1, ModIs
<1> QED
  BY <1>1, <1>2

(* Two numbers less than m apart have different remainders. *)
LEMMA ModApart ==
  ASSUME NEW m \in Nat \ {0}, NEW x \in Int, NEW y \in Int, x < y, y < x + m
  PROVE  x % m # y % m
<1> SUFFICES ASSUME x % m = y % m PROVE FALSE
  OBVIOUS
<1> DEFINE d == (y \div m) - (x \div m)
<1>1. /\ x \div m \in Int /\ x % m \in 0..(m - 1) /\ x = m * (x \div m) + (x % m)
      /\ y \div m \in Int /\ y % m \in 0..(m - 1) /\ y = m * (y \div m) + (y % m)
  BY DivMod
<1>2. d \in Int /\ m * d = m * (y \div m) - m * (x \div m)
  BY <1>1
<1>3. m * d = y - x
  BY <1>1, <1>2
<1> HIDE DEF d
<1>4. d = 0
  BY <1>2, <1>3, SmallMultiple
<1>5. m * d = 0
  BY <1>4
<1> QED
  BY <1>3, <1>5

(* Reducing by a multiple of m first changes nothing. *)
LEMMA ModMod ==
  ASSUME NEW m \in Nat \ {0}, NEW n \in Nat \ {0}, n % m = 0, NEW x \in 0..(2 * n - 1)
  PROVE  (x % n) % m = x % m
<1> DEFINE q == x \div m
           k == n \div m
<1>1. q \in Int /\ x % m \in 0..(m - 1) /\ x = m * q + (x % m)
  BY DivMod
<1>2. k \in Int /\ n = m * k
  BY DivMod
<1> HIDE DEF q, k
<1> DEFINE z == x - n
<1>0. x % n = IF x < n THEN x ELSE z
  BY ModOnce
<1>3. CASE x < n
  BY <1>0, <1>3
<1>4. CASE x >= n
  <2>1. x % n = z
    BY <1>0, <1>4
  <2>2. m * (q - k) = m * q - m * k /\ q - k \in Int
    BY <1>1, <1>2
  <2>3. z \in Int /\ z = m * (q - k) + (x % m)
    BY <1>1, <1>2, <2>2
  <2> HIDE DEF z
  <2>4. z % m = x % m
    BY <1>1, <2>2, <2>3, ModIs
  <2> QED
    BY <2>1, <2>4
<1> QED
  BY <1>3, <1>4

USE RingAssumption

(* The index after n steps, by cases. *)
LEMMA PosIs ==
  ASSUME NEW n \in 0..MaxOps
  PROVE  /\ Pos(n) = IF StartIdx + n < IdxMod THEN StartIdx + n ELSE StartIdx + n - IdxMod
         /\ Pos(n) \in Idx
<1> DEFINE x == StartIdx + n
<1>1. IdxMod \in Nat \ {0} /\ x \in 0..(2 * IdxMod - 1)
  OBVIOUS
<1>2. Pos(n) = x % IdxMod
  BY DEF Pos
<1> HIDE DEF x
<1>3. x % IdxMod = IF x < IdxMod THEN x ELSE x - IdxMod
  BY <1>1, ModOnce
<1>4. Pos(n) = IF x < IdxMod THEN x ELSE x - IdxMod
  BY <1>2, <1>3
<1>5. Pos(n) \in Idx
  BY <1>1, <1>4 DEF Idx
<1> QED
  BY <1>4, <1>5 DEF x

(* Incrementing an index is one step. *)
LEMMA IncPos ==
  ASSUME NEW n \in 0..MaxOps, n < MaxOps
  PROVE  Inc(Pos(n)) = Pos(n + 1)
<1>1. /\ Pos(n) = IF StartIdx + n < IdxMod THEN StartIdx + n ELSE StartIdx + n - IdxMod
      /\ Pos(n) \in Idx
  BY PosIs
<1>2. /\ Pos(n + 1) = IF StartIdx + (n + 1) < IdxMod
                      THEN StartIdx + (n + 1) ELSE StartIdx + (n + 1) - IdxMod
  BY PosIs
<1> DEFINE x == Pos(n) + 1
<1>3. IdxMod \in Nat \ {0} /\ x \in 0..(2 * IdxMod - 1)
  BY <1>1 DEF Idx
<1> HIDE DEF x
<1>4. x % IdxMod = IF x < IdxMod THEN x ELSE x - IdxMod
  BY <1>3, ModOnce
<1>5. Inc(Pos(n)) = x % IdxMod
  BY DEF Inc, x
<1>6. x = Pos(n) + 1
  BY DEF x
<1> QED
  BY <1>1, <1>2, <1>4, <1>5, <1>6

LEMMA IdxFacts == 0 \in Idx /\ Idx \subseteq Int /\ IdxMod \in Nat \ {0} /\ StartIdx \in Idx
  BY DEF Idx

(* Any increment leaves an index. *)
LEMMA IncIdx == \A i \in Idx : Inc(i) \in Idx
<1> SUFFICES ASSUME NEW i \in Idx PROVE (i + 1) % IdxMod \in 0..(IdxMod - 1)
  BY DEF Inc, Idx
<1>1. i + 1 \in Int /\ IdxMod \in Nat \ {0}
  BY DEF Idx
<1> QED
  BY <1>1, DivMod

(* The difference of two indices is the number of steps between them. *)
LEMMA MinusPos ==
  ASSUME NEW m \in 0..MaxOps, NEW n \in 0..MaxOps
  PROVE  Minus(Pos(n), Pos(m)) = IF m <= n THEN n - m ELSE n - m + IdxMod
<1>1. /\ Pos(n) = IF StartIdx + n < IdxMod THEN StartIdx + n ELSE StartIdx + n - IdxMod
      /\ Pos(m) = IF StartIdx + m < IdxMod THEN StartIdx + m ELSE StartIdx + m - IdxMod
      /\ Pos(n) \in Int /\ Pos(m) \in Int
  BY PosIs DEF Idx
<1> DEFINE r == IF m <= n THEN n - m ELSE n - m + IdxMod
           x == Pos(n) - Pos(m)
<1>2. IdxMod \in Nat \ {0} /\ r \in 0..(IdxMod - 1)
  OBVIOUS
<1>3. x \in Int /\ \E q \in {-1, 0, 1} : x = IdxMod * q + r
  <2>1. x \in Int /\ (x = r \/ x = r + IdxMod \/ x = r - IdxMod)
    BY <1>1
  <2>2. IdxMod * 0 = 0 /\ IdxMod * 1 = IdxMod /\ IdxMod * (-1) = -IdxMod
    OBVIOUS
  <2> QED
    BY <1>2, <2>1, <2>2
<1> HIDE DEF r, x
<1>4. x % IdxMod = r
  BY <1>2, <1>3, ModIs
<1> QED
  BY <1>4 DEF Minus, r, x

(* The slot of the n-th request or response, whatever index it is got by. *)
LEMMA AtPos ==
  ASSUME NEW n \in 0..MaxOps
  PROVE  At(Pos(n)) = Place(n) /\ At(StartIdx + n) = Place(n) /\ Place(n) \in 0..(Size - 1)
<1>1. IdxMod \in Nat \ {0} /\ StartIdx + n \in 0..(2 * IdxMod - 1) /\ Size \in Nat \ {0}
  OBVIOUS
<1>2. ((StartIdx + n) % IdxMod) % Size = (StartIdx + n) % Size
  BY <1>1, ModMod
<1>3. (StartIdx + n) % Size \in 0..(Size - 1)
  BY <1>1, DivMod
<1> QED
  BY <1>2, <1>3 DEF At, Pos, Place

LEMMA AtSlot == \A i \in Int : At(i) \in 0..(Size - 1)
<1> SUFFICES ASSUME NEW i \in Int PROVE i % Size \in 0..(Size - 1)
  BY DEF At
<1>1. Size \in Nat \ {0}
  OBVIOUS
<1> QED
  BY <1>1, DivMod

(* Fewer steps apart than there are slots, the slots differ. *)
LEMMA PlacesApart ==
  ASSUME NEW m \in Int, NEW n \in Int, m # n, m < n + Size, n < m + Size
  PROVE  Place(m) # Place(n)
<1> DEFINE x == StartIdx + m
           y == StartIdx + n
<1>1. /\ Size \in Nat \ {0} /\ x \in Int /\ y \in Int
      /\ x # y /\ x < y + Size /\ y < x + Size
  OBVIOUS
<1>2. Place(m) = x % Size /\ Place(n) = y % Size
  BY DEF Place
<1> HIDE DEF x, y
<1>3. x < y \/ y < x
  BY <1>1
<1>4. x % Size # y % Size
  BY <1>1, <1>3, ModApart
<1> QED
  BY <1>2, <1>4

------------------------------------------------------------------------------
(* What slots hold *)

LEMMA ContentsFacts ==
  /\ Requests \subseteq Contents /\ Responses \subseteq Contents
  /\ \A x \in Contents : \A r \in Requests : [op |-> r.op, pid |-> x.pid] \in Contents
  /\ \A x \in Contents : \A r \in Requests :
       x.op # "none" => [op |-> x.op, pid |-> r.pid] \in Contents
  /\ \A x \in Contents : x = [op |-> x.op, pid |-> x.pid]
  /\ \A r \in Requests \cup Responses : r.op # "none"
<1>1. Requests \subseteq Contents /\ Responses \subseteq Contents
  BY DEF Contents
<1>2. \A x \in Contents : x.pid \in Pids \cup {NoPid} /\ x = [op |-> x.op, pid |-> x.pid]
  BY DEF Contents, Requests, Responses, NoReq
<1>3. \A r \in Requests : r.op \in {"MMUUPDATE", "NXVIOLATION"} /\ r.pid \in Pids
  BY DEF Requests
<1>4. \A x \in Contents : \A r \in Requests : [op |-> r.op, pid |-> x.pid] \in Contents
  BY <1>2, <1>3 DEF Contents
<1>5. \A x \in Contents : x.op # "none" =>
        x.op \in {"MMUUPDATE", "NXVIOLATION"} \cup {"NONOP", "NX", "REPORT", "RESUME", "KILL"}
  BY DEF Contents, Requests, Responses, NoReq
<1>6. \A x \in Contents : \A r \in Requests :
        x.op # "none" => [op |-> x.op, pid |-> r.pid] \in Contents
  BY <1>3, <1>5 DEF Contents, Responses, Requests
<1>7. \A r \in Requests \cup Responses : r.op # "none"
  BY DEF Requests, Responses
<1> QED
  BY <1>1, <1>2, <1>4, <1>6, <1>7

(* The monitor's switch. *)
LEMMA AnswerFacts ==
  ASSUME watched \in SUBSET Pids, NEW r \in Contents
  PROVE  /\ Answer(r) \in Responses
         /\ Answer(r).op = "REPORT" =>
              /\ Answer(r).pid \in watched
              /\ r.op = "NXVIOLATION" /\ r.pid = Answer(r).pid
  BY DEF Answer, Responses

------------------------------------------------------------------------------
(* Types *)

LEMMA TypeInit == Init => TypeOK
<1> SUFFICES ASSUME Init PROVE TypeOK
  OBVIOUS
<1>1. NoReq \in Contents /\ 0 \in Idx /\ StartIdx \in Idx
  BY IdxFacts DEF Contents
<1>2. slot \in [0..(Size - 1) -> Contents]
  BY <1>1 DEF Init
<1>3. {reqProdPvt, reqProd, rspCons, rspProdPvt, rspProd, reqCons, brc, brp} \subseteq Idx
  BY <1>1 DEF Init
<1>4. fpc \in [Cpus -> {"idle", "inc", "fill", "push"}] /\ fidx \in [Cpus -> Idx]
      /\ freq \in [Cpus -> Requests \cup {NoReq}]
  BY <1>1 DEF Init
<1>5. claims \in Seq(Requests) /\ seen \in Seq(Contents)
      /\ sent \in Seq(Responses) /\ got \in Seq(Contents)
  BY EmptySeq DEF Init
<1>6. verdicts \in 0..MaxVerdicts
  BY DEF Init
<1> QED
  BY <1>2, <1>3, <1>4, <1>5, <1>6 DEF Init, TypeOK

LEMMA TypeFront ==
  ASSUME IInv, FrontStep
  PROVE  TypeOK'
<1>t. TypeOK /\ \A c \in Cpus : HookOK(c)
  BY DEF IInv
<1> USE DEF TypeOK
<1>0. reqProdPvt \in Idx /\ reqProdPvt \in Int /\ Inc(reqProdPvt) \in Idx
  BY <1>t, IncIdx, IdxFacts
<1>1. ASSUME NEW c \in Cpus, NEW r \in Requests, FrontGet(c, r)
      PROVE  TypeOK'
  <2>1. slot' \in [0..(Size - 1) -> Contents]
    BY <1>t, <1>0, <1>1, AtSlot, ContentsFacts DEF FrontGet
  <2>2. claims' \in Seq(Requests)
    BY <1>t, <1>1, AppendProperties DEF FrontGet
  <2> QED
    BY <1>t, <1>0, <1>1, <2>1, <2>2 DEF FrontGet, backVars, verdVars, guestVars, rspVars
<1>2. ASSUME NEW c \in Cpus, FrontInc(c) \/ \E d \in Cpus : FrontIncLost(c, d)
      PROVE  TypeOK'
  <2>1. fpc' \in [Cpus -> {"idle", "inc", "fill", "push"}] /\ reqProdPvt' \in Idx
    <3>1. CASE FrontInc(c)
      BY <1>t, <1>0, <3>1 DEF FrontInc
    <3>2. CASE \E d \in Cpus : FrontIncLost(c, d)
      BY <1>t, <1>0, <3>2 DEF FrontIncLost
    <3> QED
      BY <1>2, <3>1, <3>2
  <2>2. /\ UNCHANGED <<slot, reqProd, mmuLock, fidx, freq, claims, raced, overrun>>
        /\ UNCHANGED <<backVars, verdVars, guestVars, rspVars>>
    BY <1>2 DEF FrontInc, FrontIncLost
  <2> QED
    BY <1>t, <2>1, <2>2 DEF backVars, verdVars, guestVars, rspVars
<1>3. ASSUME NEW c \in Cpus, FrontFill(c)
      PROVE  TypeOK'
  <2>1. /\ freq[c] \in Requests /\ slot[At(fidx[c])].op # "none"
        /\ fidx[c] \in Int /\ At(fidx[c]) \in 0..(Size - 1)
    <3>1. fpc[c] = "fill" /\ HookOK(c)
      BY <1>t, <1>3 DEF FrontFill
    <3>2. fidx[c] \in Int
      BY <1>t, IdxFacts
    <3> QED
      BY <3>1, <3>2, AtSlot DEF HookOK, InRing
  <2>2. slot' \in [0..(Size - 1) -> Contents]
    BY <1>t, <1>3, <2>1, ContentsFacts DEF FrontFill
  <2> QED
    BY <1>t, <1>3, <2>2 DEF FrontFill, backVars, verdVars, guestVars, rspVars
<1>4. ASSUME NEW c \in Cpus, FrontPush(c)
      PROVE  TypeOK'
  BY <1>t, <1>4, IdxFacts DEF FrontPush, verdVars, guestVars, rspVars
<1> QED
  BY <1>1, <1>2, <1>3, <1>4 DEF FrontStep

LEMMA TypeBack ==
  ASSUME IInv, BackStep
  PROVE  TypeOK'
<1>t. TypeOK /\ (bpc \in {"write", "inc"} => bresp \in Responses)
  BY DEF IInv
<1> USE DEF TypeOK
<1>0. /\ brc \in Int /\ rspProdPvt \in Int /\ Inc(brc) \in Idx /\ Inc(rspProdPvt) \in Idx
      /\ 0 \in Idx
  BY <1>t, IncIdx, IdxFacts
<1>1. CASE BackEnter
  BY <1>t, <1>1 DEF BackEnter, frontVars, verdVars, guestVars, rspVars
<1>2. CASE BackFetch
  <2>1. slot[At(brc)] \in Contents
    BY <1>t, <1>0, AtSlot
  <2>2. seen' \in Seq(Contents) /\ bresp' \in Responses
    BY <1>t, <1>2, <2>1, AnswerFacts, AppendProperties DEF BackFetch
  <2> QED
    BY <1>t, <1>0, <1>2, <2>2 DEF BackFetch, frontVars, verdVars, guestVars, rspVars
<1>3. CASE BackDone
  BY <1>t, <1>0, <1>3 DEF BackDone, frontVars, verdVars, guestVars, rspVars
<1>4. CASE BackWrite
  <2>1. bresp \in Responses /\ At(ResponseIdx) \in 0..(Size - 1)
    BY <1>t, <1>0, <1>4, AtSlot DEF BackWrite, ResponseIdx
  <2>2. slot' \in [0..(Size - 1) -> Contents]
    BY <1>t, <1>4, <2>1, ContentsFacts DEF BackWrite
  <2>3. sent' \in Seq(Responses)
    BY <1>t, <1>4, <2>1, AppendProperties DEF BackWrite
  <2> QED
    BY <1>t, <1>4, <2>2, <2>3 DEF BackWrite, frontVars, verdVars, guestVars
<1>5. CASE BackPush
  BY <1>t, <1>0, <1>5 DEF BackPush, frontVars, verdVars
<1>6. CASE BackCheck
  BY <1>t, <1>6 DEF BackCheck, frontVars, verdVars, guestVars, rspVars
<1> QED
  BY <1>1, <1>2, <1>3, <1>4, <1>5, <1>6 DEF BackStep

LEMMA TypeRest ==
  ASSUME IInv, VerdictStep \/ PushLost \/ GuestIrq
  PROVE  TypeOK'
<1>t. TypeOK
  BY DEF IInv
<1>0. rspProdPvt \in Int /\ Inc(rspProdPvt) \in Idx /\ At(ResponseIdx) \in 0..(Size - 1)
  BY <1>t, IncIdx, IdxFacts, AtSlot DEF ResponseIdx, TypeOK
<1>1. ASSUME NEW op \in {"RESUME", "KILL"}, NEW p \in watched, VerdictWrite(op, p)
      PROVE  TypeOK'
  <2>1. [op |-> op, pid |-> p] \in Responses
    BY <1>t DEF Responses, TypeOK
  <2>2. slot' \in [0..(Size - 1) -> Contents] /\ sent' \in Seq(Responses)
    BY <1>t, <1>0, <1>1, <2>1, ContentsFacts, AppendProperties DEF VerdictWrite, TypeOK
  <2> QED
    BY <1>t, <1>1, <2>2, SMTT(30) DEF TypeOK, VerdictWrite, frontVars, backVars, guestVars
<1>2. CASE VerdictPush
  BY <1>t, <1>0, <1>2 DEF TypeOK, VerdictPush, frontVars, backVars
<1>3. CASE PushLost
  BY <1>t, <1>0, <1>3 DEF TypeOK, PushLost, frontVars, backVars
<1>4. CASE GuestIrq
  <2> DEFINE fresh == Minus(rspProd, StartIdx + Len(got))
             base == StartIdx + Len(got)
             new == [k \in 1..fresh |-> slot[At(base + k - 1)]]
  <2>1. fresh \in Nat
    <3>1. rspProd - (StartIdx + Len(got)) \in Int
      <4>1. rspProd \in Int /\ StartIdx \in Int
        BY <1>t, IdxFacts DEF TypeOK
      <4>2. Len(got) \in Int
        BY <1>t, LenProperties DEF TypeOK
      <4> QED
        BY <4>1, <4>2
    <3> DEFINE x == rspProd - (StartIdx + Len(got))
    <3>2. fresh = x % IdxMod
      BY DEF Minus
    <3> HIDE DEF x
    <3>3. x % IdxMod \in 0..(IdxMod - 1)
      BY <3>1, DivMod, IdxFacts DEF x
    <3> QED
      BY <3>2, <3>3, IdxFacts
  <2>2. base \in Int
    BY <1>t, IdxFacts DEF TypeOK
  <2>3. got' = got \o new /\ rspCons' \in Idx
    BY <1>t, <1>4 DEF GuestIrq, TypeOK
  <2> HIDE DEF fresh, base
  <2>4. \A k \in 1..fresh : slot[At(base + k - 1)] \in Contents
    <3>1. \A k \in 1..fresh : base + k - 1 \in Int
      BY <2>1, <2>2
    <3> QED
      BY <1>t, <3>1, AtSlot DEF TypeOK
  <2>5. new \in Seq(Contents)
    BY <2>1, <2>4, IsASeq
  <2> HIDE DEF new
  <2>6. got' \in Seq(Contents)
    BY <1>t, <2>3, <2>5, ConcatProperties DEF TypeOK
  <2> QED
    BY <1>t, <1>4, <2>3, <2>6, ZenonT(30) DEF TypeOK, GuestIrq, frontVars, backVars, verdVars, rspVars
<1> QED
  BY <1>1, <1>2, <1>3, <1>4 DEF VerdictStep

------------------------------------------------------------------------------
(* Indices *)

(* The counts behind the indices, and what orderly use means for them. *)
LEMMA Numbers ==
  ASSUME IInv
  PROVE  /\ Len(claims) \in Nat /\ Len(seen) \in Nat /\ Len(sent) \in Nat /\ Len(got) \in Nat
         /\ verdicts \in Nat /\ Len(claims) + verdicts <= MaxOps
         /\ Len(seen) <= Len(claims)
         /\ bpc \in {"write", "inc"} => Len(seen) > 0
         /\ Orderly => verdicts = 0 /\ vpc = "idle"
         /\ Orderly => Len(sent) = Len(seen) - Bit(bpc = "write")
         /\ Orderly => rspProdPvt = Pos(Len(sent) - Bit(bpc = "inc"))
         /\ rspProd = rspProdPvt
         /\ Len(sent) \in 0..MaxOps
<1>1. /\ claims \in Seq(Requests) /\ seen \in Seq(Contents) /\ sent \in Seq(Responses)
      /\ got \in Seq(Contents) /\ vpc \in {"idle", "inc"} /\ verdicts \in Nat
  BY DEF IInv, TypeOK
<1>2. Len(claims) \in Nat /\ Len(seen) \in Nat /\ Len(sent) \in Nat /\ Len(got) \in Nat
  BY <1>1, LenProperties
<1>3. /\ Len(claims) + verdicts <= MaxOps
      /\ Len(sent) = Len(seen) + verdicts - Bit(bpc = "write")
      /\ bpc \in {"write", "inc"} => seen # <<>>
  BY DEF IInv, Indices
<1>4. PICK p \in 0..MaxOps, q \in 0..MaxOps, x \in 0..MaxOps : RequestsAt(p, q, x)
  BY DEF IInv, Indices
<1>5. Len(seen) <= Len(claims)
  <2>1. Len(seen) <= x /\ x <= q /\ q <= p /\ Cardinality(Incs) \in Nat
        /\ p + Cardinality(Incs) <= Len(claims)
    BY <1>4, FS_CardinalityType DEF RequestsAt
  <2> QED
    BY <1>2, <2>1
<1>6. bpc \in {"write", "inc"} => Len(seen) > 0
  BY <1>1, <1>2, <1>3, EmptySeq
<1>7. PICK r \in 0..MaxOps, lost \in 0..MaxOps : ResponsesAt(r, lost)
  BY DEF IInv, Indices
<1>8. Orderly => verdicts = 0 /\ vpc = "idle" /\ lost = 0
  BY <1>1, <1>7 DEF Orderly, ResponsesAt, Bit
<1>9. rspProd = rspProdPvt
  BY <1>7 DEF ResponsesAt
<1>10. Orderly => Len(sent) = Len(seen) - Bit(bpc = "write")
  BY <1>2, <1>3, <1>8 DEF Bit
<1>11. Orderly => rspProdPvt = Pos(Len(sent) - Bit(bpc = "inc"))
  <2>1. Orderly => r = Len(sent) - Bit(bpc = "inc")
    BY <1>2, <1>7, <1>8 DEF ResponsesAt, Bit
  <2> QED
    BY <1>7, <2>1 DEF ResponsesAt
<1>12. Len(sent) \in 0..MaxOps
  BY <1>1, <1>2, <1>3, <1>5 DEF Bit
<1> QED
  BY <1>1, <1>2, <1>3, <1>5, <1>6, <1>8, <1>9, <1>10, <1>11, <1>12

(* Nothing makes up for disorder. *)
LEMMA StaysDisorderly ==
  ASSUME IInv, Next, Orderly'
  PROVE  Orderly
<1>1. verdicts \in Nat /\ raced \in BOOLEAN /\ overrun \in BOOLEAN
  BY DEF IInv, TypeOK
<1>2. CASE FrontStep
  <2>1. ASSUME NEW c \in Cpus, NEW r \in Requests, FrontGet(c, r)
        PROVE  Orderly
    <3>1. (raced => raced') /\ (overrun => overrun') /\ verdicts' = verdicts
      BY <2>1 DEF FrontGet, verdVars
    <3> QED
      BY <3>1 DEF Orderly
  <2>2. ASSUME NEW c \in Cpus,
               \/ FrontInc(c) \/ FrontFill(c) \/ FrontPush(c)
               \/ \E d \in Cpus : FrontIncLost(c, d)
        PROVE  Orderly
    BY <2>2 DEF FrontInc, FrontIncLost, FrontFill, FrontPush, Orderly, verdVars
  <2> QED
    BY <1>2, <2>1, <2>2 DEF FrontStep
<1>3. CASE BackStep
  BY <1>1, <1>3 DEF BackStep, BackEnter, BackCheck, BackFetch, BackDone, BackWrite, BackPush, Orderly,
                    frontVars, verdVars
<1>4. CASE VerdictStep
  <2>1. ~(verdicts' = verdicts + 1)
    BY <1>1 DEF Orderly
  <2>2. VerdictPush
    BY <1>4, <2>1 DEF VerdictStep, VerdictWrite
  <2> QED
    BY <2>2 DEF VerdictPush, Orderly, frontVars
<1>5. CASE PushLost
  BY <1>1, <1>5 DEF PushLost, Orderly, frontVars
<1>6. CASE GuestIrq
  BY <1>1, <1>6 DEF GuestIrq, Orderly, frontVars, verdVars
<1> QED
  BY <1>2, <1>3, <1>4, <1>5, <1>6 DEF Next

(* Under orderly use at most one hook is in the ring. *)
LEMMA OneHook ==
  ASSUME IInv, Orderly, NEW c \in Cpus, fpc[c] # "idle"
  PROVE  /\ InRing = {c} /\ Len(claims) > 0
         /\ Incs = IF fpc[c] = "inc" THEN {c} ELSE {}
         /\ \A d \in Cpus : d # c => fpc[d] = "idle"
         /\ fidx[c] = Pos(Len(claims) - 1) /\ freq[c] = claims[Len(claims)]
         /\ freq[c] \in Requests
         /\ slot[Place(Len(claims) - 1)].op = freq[c].op
         /\ fpc[c] = "push" => slot[Place(Len(claims) - 1)] = freq[c]
<1>1. c \in InRing
  BY DEF InRing
<1>2. /\ InRing = {c} /\ claims # <<>>
      /\ fidx[c] = Pos(Len(claims) - 1) /\ freq[c] = claims[Len(claims)]
      /\ freq[c] \in Requests
      /\ slot[Place(Len(claims) - 1)].op = freq[c].op
      /\ fpc[c] = "push" => slot[Place(Len(claims) - 1)] = freq[c]
  BY <1>1 DEF IInv, HookOK
<1>3. \A d \in Cpus : d # c => fpc[d] = "idle"
  BY <1>2 DEF InRing
<1>4. Incs = IF fpc[c] = "inc" THEN {c} ELSE {}
  BY <1>3 DEF Incs
<1>5. Len(claims) > 0
  BY <1>2, EmptySeq DEF IInv, TypeOK
<1> QED
  BY <1>2, <1>3, <1>4, <1>5

(* The counts a step leaves alone. *)
LEMMA IndicesInit == Init => Indices
<1> SUFFICES ASSUME Init PROVE Indices
  OBVIOUS
<1>1. Incs = {} /\ InRing = {}
  BY DEF Init, Incs, InRing
<1>2. IsFiniteSet(Incs) /\ Cardinality(Incs) = 0
  BY <1>1, FS_EmptySet
<1>3. /\ claims = <<>> /\ seen = <<>> /\ sent = <<>> /\ Len(<<>>) = 0 /\ verdicts = 0
      /\ bpc = "idle" /\ vpc = "idle"
  BY DEF Init
<1>4. StartIdx = Pos(0)
  BY PosIs
<1>5. RequestsAt(0, 0, 0)
  BY <1>1, <1>2, <1>3, <1>4 DEF Init, RequestsAt, Published, Bit
<1>6. ResponsesAt(0, 0)
  BY <1>3, <1>4 DEF Init, ResponsesAt, Bit
<1>7. 0 \in 0..MaxOps /\ Len(claims) + verdicts <= MaxOps
  BY <1>3
<1> QED
  BY <1>3, <1>5, <1>6, <1>7 DEF Indices, Bit

(* The response side, for a step that leaves it alone. *)
LEMMA ResponsesSame ==
  ASSUME IInv, UNCHANGED <<sent, vpc, verdicts, rspProdPvt, rspProd>>,
         (bpc = "inc") <=> (bpc' = "inc")
  PROVE  \E r, lost \in 0..MaxOps : ResponsesAt(r, lost)'
<1>1. PICK r \in 0..MaxOps, lost \in 0..MaxOps : ResponsesAt(r, lost)
  BY DEF IInv, Indices
<1>2. ResponsesAt(r, lost)'
  BY <1>1 DEF ResponsesAt, Bit
<1> QED
  BY <1>2

LEMMA IndicesFront ==
  ASSUME IInv, FrontStep
  PROVE  Indices'
<1> USE DEF backVars, verdVars, guestVars, rspVars
<1>1. PICK p \in 0..MaxOps, q \in 0..MaxOps, x \in 0..MaxOps : RequestsAt(p, q, x)
  BY DEF IInv, Indices
<1>2. /\ Len(claims) \in Nat /\ verdicts \in Nat /\ Len(claims) + verdicts <= MaxOps
      /\ Len(seen) \in Nat /\ fpc \in [Cpus -> {"idle", "inc", "fill", "push"}]
      /\ claims \in Seq(Requests)
  BY Numbers DEF IInv, TypeOK
<1>3. IsFiniteSet(Incs) /\ Cardinality(Incs) \in Nat /\ p + Cardinality(Incs) <= Len(claims)
  BY <1>1, FS_CardinalityType DEF RequestsAt
<1>4. Orderly' => Orderly
  BY StaysDisorderly DEF Next
<1>5. /\ UNCHANGED <<sent, seen, verdicts, vpc, bpc, rspProdPvt, rspProd, reqCons, brc, brp>>
      /\ \E r, lost \in 0..MaxOps : ResponsesAt(r, lost)'
  <2>1. UNCHANGED <<sent, seen, verdicts, vpc, bpc, rspProdPvt, rspProd, reqCons, brc, brp>>
    BY DEF FrontStep, FrontGet, FrontInc, FrontIncLost, FrontFill, FrontPush
  <2> QED
    BY <2>1, ResponsesSame
<1> SUFFICES /\ Len(claims') + verdicts' <= MaxOps
             /\ \E a, b, e \in 0..MaxOps : RequestsAt(a, b, e)'
  BY <1>5 DEF Indices, IInv
<1>6. ASSUME NEW c \in Cpus, NEW r \in Requests, FrontGet(c, r)
      PROVE  /\ Len(claims') + verdicts' <= MaxOps
             /\ \E a, b, e \in 0..MaxOps : RequestsAt(a, b, e)'
  <2>1. Len(claims') = Len(claims) + 1 /\ Len(claims') + verdicts' <= MaxOps
    BY <1>2, <1>6, AppendProperties, SMTT(30) DEF FrontGet
  <2>2. Incs' = Incs \cup {c} /\ c \notin Incs
    BY <1>2, <1>6 DEF FrontGet, Incs
  <2>3. IsFiniteSet(Incs') /\ Cardinality(Incs') = Cardinality(Incs) + 1
    BY <1>3, <2>2, FS_AddElement
  <2>4. Orderly' => InRing = {}
    <3>1. Orderly' => \A d \in Cpus \ {c} : fpc[d] = "idle"
      BY <1>6 DEF FrontGet, Orderly
    <3> QED
      BY <1>6, <3>1 DEF FrontGet, InRing
  <2>5. InRing' # {}
    BY <1>2, <1>6 DEF FrontGet, InRing
  <2>6. Incs \subseteq InRing
    BY DEF Incs, InRing
  <2>7. Orderly' => p = Len(claims') - Bit(Incs' # {}) /\ q = Published'
    <3> SUFFICES ASSUME Orderly' PROVE p = Len(claims') - Bit(Incs' # {}) /\ q = Published'
      OBVIOUS
    <3>1. p = Len(claims) - Bit(Incs # {}) /\ q = Len(claims) - Bit(InRing # {})
      BY <1>1, <1>4 DEF RequestsAt, Published
    <3>2. InRing = {} /\ Incs = {}
      BY <2>4, <2>6
    <3>3. p = Len(claims) /\ q = Len(claims)
      BY <1>2, <3>1, <3>2 DEF Bit
    <3>4. Bit(Incs' # {}) = 1 /\ Published' = Len(claims') - 1
      BY <2>2, <2>5 DEF Bit, Published
    <3> QED
      BY <1>2, <2>1, <3>3, <3>4
  <2>8. UNCHANGED <<reqProdPvt, reqProd>>
    BY <1>6 DEF FrontGet
  <2>9. p + Cardinality(Incs') <= Len(claims')
    BY <1>2, <1>3, <2>1, <2>3
  <2>10. RequestsAt(p, q, x)'
    BY <1>1, <1>5, <2>3, <2>7, <2>8, <2>9 DEF RequestsAt
  <2> QED
    BY <2>1, <2>10
<1>7. ASSUME NEW c \in Cpus, FrontInc(c)
      PROVE  /\ Len(claims') + verdicts' <= MaxOps
             /\ \E a, b, e \in 0..MaxOps : RequestsAt(a, b, e)'
  <2>1. Incs' = Incs \ {c} /\ c \in Incs /\ InRing' = InRing /\ claims' = claims
    BY <1>2, <1>7 DEF FrontInc, Incs, InRing
  <2>2. IsFiniteSet(Incs') /\ Cardinality(Incs') = Cardinality(Incs) - 1
    BY <1>3, <2>1, FS_RemoveElement
  <2>3. Cardinality(Incs) >= 1 /\ p + 1 \in 0..MaxOps /\ p < MaxOps
    <3>1. Cardinality(Incs') \in Nat
      BY <2>2, FS_CardinalityType
    <3> QED
      BY <1>2, <1>3, <2>2, <3>1
  <2>4. reqProdPvt' = Pos(p + 1)
    BY <1>1, <1>7, <2>3, IncPos DEF FrontInc, RequestsAt
  <2>5. Orderly' => p + 1 = Len(claims') - Bit(Incs' # {}) /\ q = Published'
    <3> SUFFICES ASSUME Orderly'
                 PROVE  p + 1 = Len(claims') - Bit(Incs' # {}) /\ q = Published'
      OBVIOUS
    <3>1. Incs = {c}
      BY <1>4, <1>7, OneHook DEF FrontInc
    <3>2. p = Len(claims) - 1 /\ q = Published
      BY <1>1, <1>4, <3>1 DEF RequestsAt, Bit
    <3>3. Bit(Incs' # {}) = 0 /\ Published' = Published
      BY <2>1, <3>1 DEF Bit, Published
    <3> QED
      BY <1>2, <2>1, <3>2, <3>3
  <2>6. RequestsAt(p + 1, q, x)'
    BY <1>1, <1>2, <1>3, <1>5, <1>7, <2>1, <2>2, <2>3, <2>4, <2>5 DEF RequestsAt, FrontInc
  <2> QED
    BY <1>2, <1>5, <2>1, <2>3, <2>6
<1>8. ASSUME NEW c \in Cpus, NEW d \in Cpus, FrontIncLost(c, d)
      PROVE  /\ Len(claims') + verdicts' <= MaxOps
             /\ \E a, b, e \in 0..MaxOps : RequestsAt(a, b, e)'
  <2>1. /\ Incs' = (Incs \ {c}) \ {d} /\ c \in Incs /\ d \in Incs \ {c}
        /\ claims' = claims
    BY <1>2, <1>8 DEF FrontIncLost, Incs
  <2>2. IsFiniteSet(Incs \ {c}) /\ Cardinality(Incs \ {c}) = Cardinality(Incs) - 1
    BY <1>3, <2>1, FS_RemoveElement
  <2>3. IsFiniteSet(Incs') /\ Cardinality(Incs') = Cardinality(Incs) - 2
    <3> DEFINE rest == Incs \ {c}
    <3>1. IsFiniteSet(rest) /\ d \in rest /\ Incs' = rest \ {d}
          /\ Cardinality(rest) = Cardinality(Incs) - 1
      BY <2>1, <2>2
    <3> HIDE DEF rest
    <3>2. IsFiniteSet(Incs') /\ Cardinality(Incs') = Cardinality(rest) - 1
      BY <3>1, FS_RemoveElement
    <3> QED
      BY <1>3, <3>1, <3>2
  <2>4. Cardinality(Incs) >= 2 /\ p + 1 \in 0..MaxOps /\ p < MaxOps
    <3>1. Cardinality(Incs') \in Nat
      BY <2>3, FS_CardinalityType
    <3> QED
      BY <1>2, <1>3, <2>3, <3>1
  <2>5. reqProdPvt' = Pos(p + 1)
    BY <1>1, <1>8, <2>4, IncPos DEF FrontIncLost, RequestsAt
  <2>6. ~Orderly'
    BY <1>4, <1>8, OneHook DEF FrontIncLost
  <2>7. RequestsAt(p + 1, q, x)'
    BY <1>1, <1>2, <1>3, <1>5, <1>8, <2>1, <2>3, <2>4, <2>5, <2>6 DEF RequestsAt, FrontIncLost
  <2> QED
    BY <1>2, <1>5, <2>1, <2>4, <2>7
<1>9. ASSUME NEW c \in Cpus, FrontFill(c)
      PROVE  /\ Len(claims') + verdicts' <= MaxOps
             /\ \E a, b, e \in 0..MaxOps : RequestsAt(a, b, e)'
  <2>1. Incs' = Incs /\ InRing' = InRing /\ claims' = claims
    BY <1>2, <1>9 DEF FrontFill, Incs, InRing
  <2>2. RequestsAt(p, q, x)'
    BY <1>1, <1>4, <1>5, <1>9, <2>1 DEF RequestsAt, FrontFill, Published, Bit
  <2> QED
    BY <1>2, <1>5, <2>1, <2>2
<1>10. ASSUME NEW c \in Cpus, FrontPush(c)
      PROVE  /\ Len(claims') + verdicts' <= MaxOps
             /\ \E a, b, e \in 0..MaxOps : RequestsAt(a, b, e)'
  <2>1. Incs' = Incs /\ InRing' = InRing \ {c} /\ claims' = claims
    BY <1>2, <1>10 DEF FrontPush, Incs, InRing
  <2>2. Orderly' => p = Len(claims') - Bit(Incs' # {}) /\ p = Published'
    <3> SUFFICES ASSUME Orderly'
                 PROVE  p = Len(claims') - Bit(Incs' # {}) /\ p = Published'
      OBVIOUS
    <3>1. Incs = {} /\ InRing = {c}
      BY <1>4, <1>10, OneHook DEF FrontPush
    <3>2. p = Len(claims)
      BY <1>1, <1>2, <1>4, <3>1 DEF RequestsAt, Bit
    <3>3. Bit(Incs' # {}) = 0 /\ Published' = Len(claims')
      BY <1>2, <2>1, <3>1 DEF Bit, Published
    <3> QED
      BY <1>2, <2>1, <3>2, <3>3
  <2>3. RequestsAt(p, p, x)'
    BY <1>1, <1>2, <1>3, <1>5, <1>10, <2>1, <2>2 DEF RequestsAt, FrontPush
  <2> QED
    BY <1>2, <1>5, <2>1, <2>3
<1> QED
  BY <1>6, <1>7, <1>8, <1>9, <1>10 DEF FrontStep

(* The request side, for a step of the other side that takes none. *)
LEMMA RequestsSame ==
  ASSUME IInv, Orderly' => Orderly,
         UNCHANGED <<claims, seen, fpc, reqProdPvt, reqProd, reqCons, brc, brp>>,
         bpc' # "idle" => bpc # "idle", bpc' = "fetch" => bpc = "fetch"
  PROVE  \E p, q, x \in 0..MaxOps : RequestsAt(p, q, x)'
<1>1. PICK p \in 0..MaxOps, q \in 0..MaxOps, x \in 0..MaxOps : RequestsAt(p, q, x)
  BY DEF IInv, Indices
<1>2. Incs' = Incs /\ InRing' = InRing
  BY DEF Incs, InRing
<1>3. Published' = Published
  BY <1>2 DEF Published
<1>4. RequestsAt(p, q, x)'
  BY <1>1, <1>2, <1>3 DEF RequestsAt
<1> QED
  BY <1>4

(* A push of k responses that counts as one. *)
LEMMA ResponsePush ==
  ASSUME IInv, NEW lost \in Nat, NEW r \in Nat, r < MaxOps, rspProdPvt = Pos(r),
         rspProdPvt' = Inc(rspProdPvt), rspProd' = rspProdPvt',
         lost <= MaxOps, lost + Bit(vpc' = "inc") <= verdicts',
         r + 1 = Len(sent') - lost - Bit(bpc' = "inc") - Bit(vpc' = "inc")
  PROVE  \E a, b \in 0..MaxOps : ResponsesAt(a, b)'
<1>1. rspProdPvt' = Pos(r + 1) /\ r + 1 \in 0..MaxOps /\ lost \in 0..MaxOps
  BY IncPos
<1>2. ResponsesAt(r + 1, lost)'
  BY <1>1 DEF ResponsesAt
<1> QED
  BY <1>1, <1>2

LEMMA IndicesRest ==
  ASSUME IInv, BackStep \/ VerdictStep \/ PushLost \/ GuestIrq
  PROVE  Indices'
<1> USE DEF frontVars, verdVars, guestVars
<1>1. /\ Len(claims) \in Nat /\ verdicts \in Nat /\ Len(claims) + verdicts <= MaxOps
      /\ Len(seen) \in Nat /\ Len(sent) \in Nat /\ Len(seen) <= Len(claims)
      /\ Len(sent) \in 0..MaxOps
      /\ bpc \in {"write", "inc"} => Len(seen) > 0
      /\ seen \in Seq(Contents) /\ sent \in Seq(Responses)
      /\ bpc \in {"idle", "loop", "fetch", "write", "inc"} /\ vpc \in {"idle", "inc"}
  BY Numbers DEF IInv, TypeOK
<1>2. /\ Len(sent) = Len(seen) + verdicts - Bit(bpc = "write")
      /\ bpc \in {"write", "inc"} => seen # <<>>
  BY DEF IInv, Indices
<1>3. Orderly' => Orderly
  BY StaysDisorderly DEF Next
<1>4. PICK r \in 0..MaxOps, lost \in 0..MaxOps : ResponsesAt(r, lost)
  BY DEF IInv, Indices
<1>5. /\ r = Len(sent) - lost - Bit(bpc = "inc") - Bit(vpc = "inc")
      /\ lost + Bit(vpc = "inc") <= verdicts /\ rspProdPvt = Pos(r)
  BY <1>4 DEF ResponsesAt
<1>6. CASE BackEnter
  <2>1. PICK p \in 0..MaxOps, q \in 0..MaxOps, x \in 0..MaxOps : RequestsAt(p, q, x)
    BY DEF IInv, Indices
  <2>2. Incs' = Incs /\ InRing' = InRing /\ Published' = Published
    BY <1>6 DEF Incs, InRing, Published, BackEnter
  <2>3. RequestsAt(p, q, q)'
    BY <1>1, <1>3, <1>6, <2>1, <2>2 DEF RequestsAt, BackEnter
  <2>4. \E a, b \in 0..MaxOps : ResponsesAt(a, b)'
    BY <1>6, ResponsesSame DEF BackEnter, rspVars
  <2> QED
    BY <1>1, <1>2, <1>6, <2>3, <2>4 DEF Indices, BackEnter, rspVars, Bit
<1>7. CASE BackFetch
  <2>1. PICK p \in 0..MaxOps, q \in 0..MaxOps, x \in 0..MaxOps : RequestsAt(p, q, x)
    BY DEF IInv, Indices
  <2>2. Incs' = Incs /\ InRing' = InRing /\ Published' = Published
    BY <1>7 DEF Incs, InRing, Published, BackFetch
  <2>3. Len(seen) < x /\ brc = Pos(Len(seen)) /\ Len(seen) \in 0..MaxOps
    BY <1>1, <1>7, <2>1 DEF RequestsAt, BackFetch
  <2>4. Len(seen') = Len(seen) + 1 /\ seen' # <<>>
    <3>1. slot[At(brc)] \in Contents
      BY <2>3, PosIs, IdxFacts, AtSlot DEF IInv, TypeOK
    <3> QED
      BY <1>1, <1>7, <3>1, AppendProperties, SMTT(30) DEF BackFetch
  <2>5. brc' = Pos(Len(seen')) /\ reqCons' = brc'
    BY <1>7, <2>3, <2>4, IncPos DEF BackFetch
  <2>6. RequestsAt(p, q, x)'
    BY <1>1, <1>3, <1>7, <2>1, <2>2, <2>3, <2>4, <2>5 DEF RequestsAt, BackFetch
  <2>7. \E a, b \in 0..MaxOps : ResponsesAt(a, b)'
    BY <1>7, ResponsesSame DEF BackFetch, rspVars
  <2>8. /\ bpc = "fetch" /\ bpc' = "write"
        /\ UNCHANGED <<sent, verdicts, claims>>
    BY <1>7 DEF BackFetch, rspVars
  <2>9. Len(sent') = Len(seen') + verdicts' - Bit(bpc' = "write")
    BY <1>1, <1>2, <2>4, <2>8 DEF Bit
  <2> QED
    BY <1>1, <2>4, <2>6, <2>7, <2>8, <2>9 DEF Indices
<1>15. CASE BackCheck
  <2>1. PICK p \in 0..MaxOps, q \in 0..MaxOps, x \in 0..MaxOps : RequestsAt(p, q, x)
    BY DEF IInv, Indices
  <2>2. Incs' = Incs /\ InRing' = InRing /\ Published' = Published
    BY <1>15 DEF Incs, InRing, Published, BackCheck
  <2>3. RequestsAt(p, q, x)'
    BY <1>3, <1>15, <2>1, <2>2 DEF RequestsAt, BackCheck
  <2>4. \E a, b \in 0..MaxOps : ResponsesAt(a, b)'
    BY <1>15, ResponsesSame DEF BackCheck, rspVars
  <2> QED
    BY <1>1, <1>2, <1>15, <2>3, <2>4 DEF Indices, BackCheck, rspVars, Bit
<1>8. CASE BackDone
  <2>1. PICK p \in 0..MaxOps, q \in 0..MaxOps, x \in 0..MaxOps : RequestsAt(p, q, x)
    BY DEF IInv, Indices
  <2>2. Incs' = Incs /\ InRing' = InRing /\ Published' = Published
    BY <1>8 DEF Incs, InRing, Published, BackDone
  <2>3. RequestsAt(p, q, x)'
    BY <1>3, <1>8, <2>1, <2>2 DEF RequestsAt, BackDone
  <2>4. \E a, b \in 0..MaxOps : ResponsesAt(a, b)'
    BY <1>8, ResponsesSame DEF BackDone, rspVars
  <2> QED
    BY <1>1, <1>2, <1>8, <2>3, <2>4 DEF Indices, BackDone, rspVars, Bit
<1>9. CASE BackWrite
  <2>1. \E p, q, x \in 0..MaxOps : RequestsAt(p, q, x)'
    BY <1>3, <1>9, RequestsSame DEF BackWrite
  <2>2. Len(sent') = Len(sent) + 1
    BY <1>1, <1>9, AppendProperties DEF BackWrite, IInv
  <2>3. ResponsesAt(r, lost)'
    BY <1>1, <1>4, <1>9, <2>2 DEF ResponsesAt, BackWrite, Bit
  <2> QED
    BY <1>1, <1>2, <1>9, <2>1, <2>2, <2>3 DEF Indices, BackWrite, Bit
<1>10. CASE BackPush
  <2>1. \E p, q, x \in 0..MaxOps : RequestsAt(p, q, x)'
    BY <1>3, <1>10, RequestsSame DEF BackPush
  <2>2. /\ r < MaxOps /\ r + 1 = Len(sent') - lost - Bit(bpc' = "inc") - Bit(vpc' = "inc")
        /\ lost + Bit(vpc' = "inc") <= verdicts'
    BY <1>1, <1>5, <1>10 DEF BackPush, Bit
  <2>3. \E a, b \in 0..MaxOps : ResponsesAt(a, b)'
    <3>1. rspProdPvt' = Inc(rspProdPvt) /\ rspProd' = rspProdPvt'
      BY <1>10 DEF BackPush
    <3> QED
      BY <1>5, <2>2, <3>1, ResponsePush
  <2> QED
    BY <1>1, <1>2, <1>10, <2>1, <2>3 DEF Indices, BackPush, Bit
<1>11. ASSUME NEW op \in {"RESUME", "KILL"}, NEW p \in watched, VerdictWrite(op, p)
       PROVE  Indices'
  <2>1. \E a, b, e \in 0..MaxOps : RequestsAt(a, b, e)'
    BY <1>3, <1>11, RequestsSame DEF VerdictWrite, backVars
  <2>2. Len(sent') = Len(sent) + 1
    <3>1. [op |-> op, pid |-> p] \in Responses
      BY DEF IInv, TypeOK, Responses
    <3> QED
      BY <1>1, <1>11, <3>1, AppendProperties DEF VerdictWrite
  <2>3. ResponsesAt(r, lost)'
    BY <1>1, <1>4, <1>11, <2>2 DEF ResponsesAt, VerdictWrite, backVars, Bit
  <2> QED
    BY <1>1, <1>2, <1>11, <2>1, <2>2, <2>3, SMTT(30) DEF Indices, VerdictWrite, backVars, Bit
<1>12. CASE VerdictPush
  <2>1. \E p, q, x \in 0..MaxOps : RequestsAt(p, q, x)'
    BY <1>3, <1>12, RequestsSame DEF VerdictPush, backVars
  <2>2. /\ r < MaxOps /\ r + 1 = Len(sent') - lost - Bit(bpc' = "inc") - Bit(vpc' = "inc")
        /\ lost + Bit(vpc' = "inc") <= verdicts'
    BY <1>1, <1>5, <1>12 DEF VerdictPush, backVars, Bit
  <2>3. \E a, b \in 0..MaxOps : ResponsesAt(a, b)'
    BY <1>5, <1>12, <2>2, ResponsePush DEF VerdictPush
  <2> QED
    BY <1>1, <1>2, <1>12, <2>1, <2>3 DEF Indices, VerdictPush, backVars, Bit
<1>13. CASE PushLost
  <2>1. \E p, q, x \in 0..MaxOps : RequestsAt(p, q, x)'
    BY <1>3, <1>13, RequestsSame DEF PushLost
  <2>2. /\ r < MaxOps /\ lost + 1 <= MaxOps /\ lost + 1 \in Nat
        /\ r + 1 = Len(sent') - (lost + 1) - Bit(bpc' = "inc") - Bit(vpc' = "inc")
        /\ lost + 1 + Bit(vpc' = "inc") <= verdicts'
    BY <1>1, <1>5, <1>13 DEF PushLost, Bit
  <2>3. \E a, b \in 0..MaxOps : ResponsesAt(a, b)'
    <3>1. rspProdPvt' = Inc(rspProdPvt) /\ rspProd' = rspProdPvt'
      BY <1>13 DEF PushLost
    <3> DEFINE l == lost + 1
    <3>2. l \in Nat /\ l <= MaxOps /\ l + Bit(vpc' = "inc") <= verdicts'
          /\ r + 1 = Len(sent') - l - Bit(bpc' = "inc") - Bit(vpc' = "inc")
      BY <2>2
    <3> HIDE DEF l
    <3> QED
      BY <1>5, <2>2, <3>1, <3>2, ResponsePush
  <2> QED
    BY <1>1, <1>2, <1>13, <2>1, <2>3 DEF Indices, PushLost, Bit
<1>14. CASE GuestIrq
  <2>1. \E p, q, x \in 0..MaxOps : RequestsAt(p, q, x)'
    BY <1>3, <1>14, RequestsSame DEF GuestIrq, backVars
  <2>2. \E a, b \in 0..MaxOps : ResponsesAt(a, b)'
    BY <1>14, ResponsesSame DEF GuestIrq, backVars, rspVars
  <2> QED
    BY <1>1, <1>2, <1>14, <2>1, <2>2 DEF Indices, GuestIrq, backVars, rspVars
<1> QED
  BY <1>6, <1>7, <1>8, <1>9, <1>10, <1>11, <1>12, <1>13, <1>14, <1>15 DEF BackStep, VerdictStep

------------------------------------------------------------------------------
(* Slots *)

(* In orderly use the stretch of the ring in use, from the first response  *)
(* not read to the last request, is no longer than the ring.               *)
LEMMA Stretch ==
  ASSUME IInv, Orderly
  PROVE  /\ Len(got) <= Len(sent) - Bit(bpc = "inc") /\ Len(sent) <= Len(seen)
         /\ Len(seen) <= Published /\ Published <= Len(claims) /\ Published \in Nat
         /\ Len(claims) - Len(got) <= Size
         /\ reqProdPvt = Pos(Len(claims) - Bit(Incs # {}))
         /\ reqCons = Pos(Len(seen))
         /\ bpc = "fetch" => brc = Pos(Len(seen)) /\ Len(seen) < Published
<1>1. PICK p \in 0..MaxOps, q \in 0..MaxOps, x \in 0..MaxOps : RequestsAt(p, q, x)
  BY DEF IInv, Indices
<1>2. Len(got) <= Len(sent) - Bit(bpc = "inc") /\ Len(claims) - Len(got) <= Size
  BY DEF IInv, SlotsOK
<1>3. /\ Len(claims) \in Nat /\ Len(seen) \in Nat /\ Len(sent) \in Nat
      /\ Len(sent) = Len(seen) - Bit(bpc = "write")
  BY Numbers
<1>4. /\ Len(seen) <= x /\ x <= q /\ q = Published
      /\ p = Len(claims) - Bit(Incs # {})
      /\ reqProdPvt = Pos(p) /\ reqCons = Pos(Len(seen))
      /\ bpc # "idle" => brc = reqCons /\ brp = Pos(x)
  BY <1>1 DEF RequestsAt
<1>5. Published <= Len(claims)
  BY <1>3 DEF Published, Bit
<1>6. Len(sent) <= Len(seen)
  BY <1>3 DEF Bit
<1>7. bpc = "fetch" => brc = Pos(Len(seen)) /\ Len(seen) < Published
  <2> SUFFICES ASSUME bpc = "fetch"
               PROVE  brc = Pos(Len(seen)) /\ Len(seen) < Published
    OBVIOUS
  <2>1. brc = Pos(Len(seen)) /\ brp = Pos(x)
    BY <1>4
  <2>2. Len(seen) # x
    BY <1>1, <2>1 DEF RequestsAt
  <2> QED
    BY <1>3, <1>4, <2>1, <2>2
<1> QED
  BY <1>1, <1>2, <1>3, <1>4, <1>5, <1>6, <1>7

LEMMA HooksFront ==
  ASSUME IInv, FrontStep
  PROVE  \A e \in Cpus : HookOK(e)'
<1> USE CpuAssumption
<1>1. /\ fpc \in [Cpus -> {"idle", "inc", "fill", "push"}] /\ fidx \in [Cpus -> Idx]
      /\ freq \in [Cpus -> Requests \cup {NoReq}] /\ slot \in [0..(Size - 1) -> Contents]
      /\ claims \in Seq(Requests) /\ Len(claims) \in Nat /\ Len(claims) <= MaxOps
      /\ reqProdPvt \in Int
      /\ \A d \in Cpus : HookOK(d) /\ At(fidx[d]) \in 0..(Size - 1)
  <2>1. /\ fpc \in [Cpus -> {"idle", "inc", "fill", "push"}] /\ fidx \in [Cpus -> Idx]
        /\ freq \in [Cpus -> Requests \cup {NoReq}] /\ slot \in [0..(Size - 1) -> Contents]
        /\ claims \in Seq(Requests) /\ reqProdPvt \in Idx
        /\ \A d \in Cpus : HookOK(d)
    BY DEF IInv, TypeOK
  <2>2. \A d \in Cpus : At(fidx[d]) \in 0..(Size - 1)
    BY <2>1, IdxFacts, AtSlot
  <2>3. Len(claims) \in Nat /\ Len(claims) <= MaxOps
    BY Numbers
  <2> QED
    BY <2>1, <2>2, <2>3, IdxFacts
<1>2. Orderly' => Orderly
  BY StaysDisorderly DEF Next
<1>3. ASSUME NEW c \in Cpus, NEW r \in Requests, FrontGet(c, r), NEW e \in Cpus
      PROVE  HookOK(e)'
  <2>1. /\ fpc[c] = "idle" /\ fpc' = [fpc EXCEPT ![c] = "inc"]
        /\ fidx' = [fidx EXCEPT ![c] = reqProdPvt] /\ freq' = [freq EXCEPT ![c] = r]
        /\ claims' = Append(claims, r)
        /\ r.op = "MMUUPDATE" => mmuLock = "free"
        /\ mmuLock' = IF r.op = "MMUUPDATE" THEN c ELSE mmuLock
    BY <1>3 DEF FrontGet, MayEnter
  <2>2. /\ At(reqProdPvt) \in 0..(Size - 1)
        /\ slot' = [slot EXCEPT ![At(reqProdPvt)] =
                      [op |-> r.op, pid |-> slot[At(reqProdPvt)].pid]]
    BY <1>1, <1>3, AtSlot DEF FrontGet
  <2>3. InRing' = InRing \cup {c} /\ c \notin InRing
    BY <1>1, <2>1 DEF InRing
  <2>4. mmuLock' = e <=> e \in InRing' /\ freq'[e].op = "MMUUPDATE"
    <3>1. mmuLock = e <=> e \in InRing /\ freq[e].op = "MMUUPDATE"
      BY <1>1 DEF HookOK
    <3>2. CASE e = c
      BY <1>1, <2>1, <2>3, <3>1, <3>2
    <3>3. CASE e # c
      BY <1>1, <2>1, <2>3, <3>1, <3>3
    <3> QED
      BY <3>2, <3>3
  <2>5. e \in InRing' => freq'[e] \in Requests /\ slot'[At(fidx'[e])].op # "none"
    <3>1. e \in InRing => freq[e] \in Requests /\ slot[At(fidx[e])].op # "none"
      BY <1>1 DEF HookOK
    <3>2. r.op # "none"
      BY ContentsFacts
    <3>3. CASE e = c
      BY <1>1, <2>1, <2>2, <3>2, <3>3
    <3>4. CASE e # c
      <4>1. fidx'[e] = fidx[e] /\ freq'[e] = freq[e] /\ (e \in InRing' => e \in InRing)
        BY <1>1, <2>1, <2>3, <3>4
      <4>2. slot'[At(fidx[e])].op \in {slot[At(fidx[e])].op, r.op}
        BY <1>1, <2>2
      <4> QED
        BY <3>1, <3>2, <4>1, <4>2
    <3> QED
      BY <3>3, <3>4
  <2>6. e \in InRing' /\ Orderly' =>
         /\ InRing' = {e} /\ claims' # <<>>
         /\ fidx'[e] = Pos(Len(claims') - 1) /\ freq'[e] = claims'[Len(claims')]
         /\ slot'[Place(Len(claims') - 1)].op = freq'[e].op
         /\ fpc'[e] = "push" => slot'[Place(Len(claims') - 1)] = freq'[e]
    <3> SUFFICES ASSUME e \in InRing', Orderly'
                 PROVE  /\ InRing' = {e} /\ claims' # <<>>
                        /\ fidx'[e] = Pos(Len(claims') - 1) /\ freq'[e] = claims'[Len(claims')]
                        /\ slot'[Place(Len(claims') - 1)].op = freq'[e].op
                        /\ fpc'[e] # "push"
      OBVIOUS
    <3>1. InRing = {}
      <4>1. \A d \in Cpus \ {c} : fpc[d] = "idle"
        BY <1>3 DEF FrontGet, Orderly
      <4> QED
        BY <2>1, <4>1 DEF InRing
    <3>2. e = c /\ InRing' = {c}
      BY <2>3, <3>1
    <3>3. /\ Len(claims') = Len(claims) + 1 /\ claims'[Len(claims')] = r /\ claims' # <<>>
          /\ Len(claims') - 1 = Len(claims)
      BY <1>1, <2>1, AppendProperties
    <3>4. reqProdPvt = Pos(Len(claims))
      <4>1. Incs = {}
        BY <3>1 DEF Incs, InRing
      <4>2. Len(claims) - Bit(Incs # {}) = Len(claims)
        BY <1>1, <4>1 DEF Bit
      <4> QED
        BY <1>2, <4>2, Stretch
    <3>5. At(reqProdPvt) = Place(Len(claims))
      BY <1>1, <3>4, AtPos
    <3>6. slot'[Place(Len(claims))].op = r.op
      BY <1>1, <2>2, <3>5
    <3> QED
      BY <1>1, <2>1, <3>2, <3>3, <3>4, <3>6
  <2> QED
    BY <2>4, <2>5, <2>6 DEF HookOK
<1>4. ASSUME NEW c \in Cpus, FrontInc(c), NEW e \in Cpus
      PROVE  HookOK(e)'
  <2>1. InRing' = InRing
    BY <1>1, <1>4 DEF InRing, FrontInc
  <2>2. UNCHANGED <<slot, mmuLock, fidx, freq, claims>> /\ (fpc'[e] = "push" => fpc[e] = "push")
    BY <1>1, <1>4 DEF FrontInc
  <2> QED
    BY <1>1, <1>2, <2>1, <2>2 DEF HookOK
<1>5. ASSUME NEW c \in Cpus, NEW d \in Cpus, FrontIncLost(c, d), NEW e \in Cpus
      PROVE  HookOK(e)'
  <2>1. InRing' = InRing
    BY <1>1, <1>5 DEF InRing, FrontIncLost
  <2>2. UNCHANGED <<slot, mmuLock, fidx, freq, claims>> /\ (fpc'[e] = "push" => fpc[e] = "push")
    BY <1>1, <1>5 DEF FrontIncLost
  <2> QED
    BY <1>1, <1>2, <2>1, <2>2 DEF HookOK
<1>6. ASSUME NEW c \in Cpus, FrontFill(c), NEW e \in Cpus
      PROVE  HookOK(e)'
  <2> DEFINE i == At(fidx[c])
             v == [op |-> slot[i].op, pid |-> freq[c].pid]
  <2>1. /\ InRing' = InRing /\ c \in InRing /\ UNCHANGED <<mmuLock, fidx, freq, claims>>
        /\ slot' = [slot EXCEPT ![i] = v] /\ i \in 0..(Size - 1)
        /\ fpc[c] = "fill" /\ fpc' = [fpc EXCEPT ![c] = "push"]
    BY <1>1, <1>6 DEF InRing, FrontFill
  <2>2. v.op = slot[i].op /\ slot[i].op # "none"
    BY <1>1, <2>1 DEF HookOK
  <2> HIDE DEF v
  <2>3. \A j \in 0..(Size - 1) : slot'[j].op = slot[j].op
    BY <1>1, <2>1, <2>2
  <2>4. e \in InRing => freq'[e] \in Requests /\ slot'[At(fidx'[e])].op # "none"
    BY <1>1, <2>1, <2>3 DEF HookOK
  <2>5. e \in InRing' /\ Orderly' =>
         /\ InRing' = {e} /\ claims' # <<>>
         /\ fidx'[e] = Pos(Len(claims') - 1) /\ freq'[e] = claims'[Len(claims')]
         /\ slot'[Place(Len(claims') - 1)].op = freq'[e].op
         /\ fpc'[e] = "push" => slot'[Place(Len(claims') - 1)] = freq'[e]
    <3> SUFFICES ASSUME e \in InRing, Orderly'
                 PROVE  /\ InRing = {e} /\ claims # <<>>
                        /\ fidx[e] = Pos(Len(claims) - 1) /\ freq[e] = claims[Len(claims)]
                        /\ slot'[Place(Len(claims) - 1)].op = freq[e].op
                        /\ slot'[Place(Len(claims) - 1)] = freq[e]
      BY <2>1
    <3>1. e = c
      BY <1>2, <2>1, OneHook DEF InRing
    <3>2. /\ InRing = {e} /\ claims # <<>> /\ Len(claims) - 1 \in 0..MaxOps
          /\ fidx[e] = Pos(Len(claims) - 1) /\ freq[e] = claims[Len(claims)]
          /\ slot[Place(Len(claims) - 1)].op = freq[e].op /\ freq[e] \in Requests
      BY <1>1, <1>2, OneHook, EmptySeq DEF InRing
    <3>3. i = Place(Len(claims) - 1)
      BY <3>1, <3>2, AtPos
    <3>4. v = [op |-> freq[e].op, pid |-> freq[e].pid]
      BY <3>1, <3>2, <3>3 DEF v
    <3>5. v = freq[e]
      BY <3>2, <3>4, ContentsFacts
    <3> QED
      BY <1>1, <2>1, <3>2, <3>3, <3>5
  <2>6. HookOK(e)
    BY <1>1
  <2> QED
    BY <2>1, <2>4, <2>5, <2>6 DEF HookOK
<1>7. ASSUME NEW c \in Cpus, FrontPush(c), NEW e \in Cpus
      PROVE  HookOK(e)'
  <2>1. /\ InRing' = InRing \ {c} /\ c \in InRing /\ UNCHANGED <<slot, claims>>
        /\ mmuLock' = IF mmuLock = c THEN "free" ELSE mmuLock
        /\ e # c => fidx'[e] = fidx[e] /\ freq'[e] = freq[e] /\ fpc'[e] = fpc[e]
    BY <1>1, <1>7 DEF InRing, FrontPush
  <2>2. mmuLock' = e <=> e # c /\ mmuLock = e
    BY <2>1
  <2>3. CASE e = c
    BY <2>1, <2>2, <2>3 DEF HookOK
  <2>4. CASE e # c
    <3>1. e \in InRing' /\ Orderly' => FALSE
      BY <1>2, <2>1, <2>4, OneHook DEF InRing
    <3>2. HookOK(e) /\ (e \in InRing' <=> e \in InRing)
      BY <1>1, <2>1, <2>4
    <3> QED
      BY <2>1, <2>2, <2>4, <3>1, <3>2 DEF HookOK
  <2> QED
    BY <2>3, <2>4
<1> QED
  BY <1>3, <1>4, <1>5, <1>6, <1>7 DEF FrontStep

(* A response is written where neither a hook's request nor anything else  *)
(* in use is.                                                              *)
LEMMA ResponseSlot ==
  ASSUME IInv, Orderly, bpc = "write"
  PROVE  /\ At(ResponseIdx) = Place(Len(sent)) /\ Len(sent) = Len(seen) - 1
         /\ \A k \in Int : Len(got) <= k /\ k < Len(claims) /\ k # Len(sent)
                             => Place(k) # Place(Len(sent))
<1>1. /\ Len(sent) \in 0..MaxOps /\ Len(sent) = Len(seen) - 1
      /\ Len(got) \in Nat /\ Len(claims) \in Nat /\ Len(seen) \in Nat
  BY Numbers DEF Bit
<1>2. rspProdPvt = Pos(Len(sent))
  <2>1. Len(sent) - Bit(bpc = "inc") = Len(sent)
    BY <1>1 DEF Bit
  <2> QED
    BY <2>1, Numbers
<1>3. At(ResponseIdx) = Place(Len(sent))
  BY <1>1, <1>2, AtPos DEF ResponseIdx
<1>4. Len(got) <= Len(sent) /\ Len(seen) <= Len(claims) /\ Len(claims) - Len(got) <= Size
  <2>1. /\ Len(got) <= Len(sent) - Bit(bpc = "inc") /\ Len(seen) <= Published
        /\ Published <= Len(claims) /\ Len(claims) - Len(got) <= Size /\ Published \in Nat
    BY Stretch
  <2> QED
    BY <1>1, <2>1 DEF Bit
<1>5. ASSUME NEW k \in Int, Len(got) <= k, k < Len(claims), k # Len(sent)
      PROVE  Place(k) # Place(Len(sent))
  <2>1. k < Len(sent) + Size /\ Len(sent) < k + Size /\ Len(sent) \in Int
    BY <1>1, <1>4, <1>5
  <2> QED
    BY <1>5, <2>1, PlacesApart
<1> QED
  BY <1>1, <1>3, <1>5

LEMMA HooksRest ==
  ASSUME IInv, BackStep \/ VerdictStep \/ PushLost \/ GuestIrq, NEW e \in Cpus
  PROVE  HookOK(e)'
<1> USE DEF frontVars
<1>1. /\ UNCHANGED <<mmuLock, fpc, fidx, freq, claims>> /\ InRing' = InRing
      /\ HookOK(e) /\ slot \in [0..(Size - 1) -> Contents]
      /\ At(fidx[e]) \in 0..(Size - 1)
      /\ At(ResponseIdx) \in 0..(Size - 1)
  <2>1. UNCHANGED <<mmuLock, fpc, fidx, freq, claims>>
    BY DEF BackStep, BackEnter, BackCheck, BackFetch, BackDone, BackWrite, BackPush,
           VerdictStep, VerdictWrite, VerdictPush, PushLost, GuestIrq
  <2>2. InRing' = InRing
    BY <2>1 DEF InRing
  <2>3. HookOK(e) /\ slot \in [0..(Size - 1) -> Contents] /\ fidx[e] \in Idx
        /\ ResponseIdx \in Idx
    BY DEF IInv, TypeOK, ResponseIdx
  <2> QED
    BY <2>1, <2>2, <2>3, IdxFacts, AtSlot
<1>2. Orderly' => Orderly
  BY StaysDisorderly DEF Next
<1>3. CASE slot' = slot
  BY <1>1, <1>2, <1>3 DEF HookOK
<1>4. ASSUME NEW v \in Responses, slot' = [slot EXCEPT ![At(ResponseIdx)] = v],
             bpc = "write" \/ ~Orderly'
      PROVE  HookOK(e)'
  <2>1. v.op # "none"
    BY ContentsFacts
  <2>2. e \in InRing => slot'[At(fidx[e])].op # "none"
    BY <1>1, <1>4, <2>1 DEF HookOK
  <2>3. ASSUME e \in InRing, Orderly'
        PROVE  slot'[Place(Len(claims) - 1)] = slot[Place(Len(claims) - 1)]
    <3>1. fpc[e] # "idle" /\ Orderly /\ bpc = "write"
      BY <1>2, <1>4, <2>3 DEF InRing
    <3>2. InRing # {} /\ Len(claims) > 0
      BY <3>1, OneHook
    <3>3. /\ Len(claims) \in Nat /\ Len(seen) \in Nat /\ Len(got) \in Nat
          /\ Len(claims) <= MaxOps
      BY Numbers
    <3>4. Len(seen) <= Len(claims) - 1
      BY <3>1, <3>2, Stretch DEF Published, Bit
    <3>5. /\ At(ResponseIdx) = Place(Len(sent)) /\ Len(sent) = Len(seen) - 1
          /\ \A k \in Int : Len(got) <= k /\ k < Len(claims) /\ k # Len(sent)
                             => Place(k) # Place(Len(sent))
      BY <3>1, ResponseSlot
    <3>6. Len(got) <= Len(sent)
      BY <3>1, <3>3, <3>5, Stretch DEF Bit
    <3>7. /\ Len(claims) - 1 \in 0..MaxOps /\ Len(got) <= Len(claims) - 1
          /\ Len(claims) - 1 < Len(claims) /\ Len(claims) - 1 # Len(sent)
      BY <3>2, <3>3, <3>4, <3>5, <3>6
    <3>8. Place(Len(claims) - 1) # At(ResponseIdx) /\ Place(Len(claims) - 1) \in 0..(Size - 1)
      <4> DEFINE k == Len(claims) - 1
      <4>1. k \in 0..MaxOps /\ k \in Int /\ Len(got) <= k /\ k < Len(claims) /\ k # Len(sent)
        BY <3>7
      <4> HIDE DEF k
      <4>2. Place(k) # At(ResponseIdx)
        BY <3>5, <4>1
      <4>3. Place(k) \in 0..(Size - 1)
        BY <4>1, AtPos
      <4> QED
        BY <4>2, <4>3 DEF k
    <3> QED
      BY <1>1, <1>4, <3>8
  <2> QED
    BY <1>1, <1>2, <2>2, <2>3 DEF HookOK
<1>5. CASE BackWrite
  BY <1>4, <1>5 DEF BackWrite, IInv
<1>6. ASSUME NEW op \in {"RESUME", "KILL"}, NEW p \in watched, VerdictWrite(op, p)
      PROVE  HookOK(e)'
  <2>1. [op |-> op, pid |-> p] \in Responses
    BY DEF IInv, TypeOK, Responses
  <2>2. ~Orderly'
    BY <1>6, Numbers DEF VerdictWrite, Orderly
  <2> QED
    BY <1>4, <1>6, <2>1, <2>2 DEF VerdictWrite
<1>7. CASE BackEnter \/ BackCheck \/ BackFetch \/ BackDone \/ BackPush \/ VerdictPush \/ PushLost \/ GuestIrq
  <2>1. slot' = slot
    BY <1>7 DEF BackEnter, BackCheck, BackFetch, BackDone, BackPush, VerdictPush, PushLost, GuestIrq
  <2> QED
    BY <1>3, <2>1
<1> QED
  BY <1>5, <1>6, <1>7 DEF BackStep, VerdictStep

(* What the handler holds in hand is a response. *)
LEMMA ResponseInHand ==
  ASSUME IInv, Next
  PROVE  bpc' \in {"write", "inc"} => bresp' \in Responses
<1>1. bpc \in {"write", "inc"} => bresp \in Responses
  BY DEF IInv
<1>2. CASE FrontStep
  <2>1. UNCHANGED <<bpc, bresp>>
    BY <1>2 DEF FrontStep, FrontGet, FrontInc, FrontIncLost, FrontFill, FrontPush, backVars
  <2> QED
    BY <1>1, <2>1
<1>3. CASE BackFetch
  <2>1. slot[At(brc)] \in Contents /\ watched \in SUBSET Pids
    BY IdxFacts, AtSlot DEF IInv, TypeOK
  <2> QED
    BY <1>3, <2>1, AnswerFacts DEF BackFetch
<1>4. CASE BackEnter \/ BackCheck \/ BackDone \/ BackWrite \/ BackPush \/ PushLost
  BY <1>1, <1>4 DEF BackEnter, BackCheck, BackDone, BackWrite, BackPush, PushLost
<1>5. CASE VerdictStep \/ GuestIrq
  <2>1. UNCHANGED <<bpc, bresp>>
    BY <1>5 DEF VerdictStep, VerdictWrite, VerdictPush, GuestIrq, backVars
  <2> QED
    BY <1>1, <2>1
<1> QED
  BY <1>2, <1>3, <1>4, <1>5 DEF Next, BackStep

(* A step that moves nothing in the stretch. *)
LEMMA SlotsSame ==
  ASSUME IInv, Orderly,
         UNCHANGED <<watched, slot, claims, seen, sent, got>>, Published' = Published,
         bpc' = "inc" => bpc = "inc",
         bpc' \in {"write", "inc"} => bpc = bpc' /\ bresp' = bresp
  PROVE  SlotsOK'
<1>1. SlotsOK
  BY DEF IInv
<1>2. Len(got) <= Len(sent) - Bit(bpc' = "inc")
  BY <1>1, Numbers DEF SlotsOK, Bit
<1>3. \A x : Answer(x)' = Answer(x)
  BY DEF Answer
<1> QED
  BY <1>1, <1>2, <1>3 DEF SlotsOK, Answer

(* The hooks: a new request goes behind the stretch, a finished one is at  *)
(* its end.                                                                *)
LEMMA SlotsFront ==
  ASSUME IInv, FrontStep, Orderly'
  PROVE  SlotsOK'
<1> USE DEF backVars, guestVars, rspVars, verdVars
<1>1. Orderly /\ SlotsOK
  BY StaysDisorderly DEF Next, IInv
<1>2. /\ fpc \in [Cpus -> {"idle", "inc", "fill", "push"}] /\ claims \in Seq(Requests)
      /\ slot \in [0..(Size - 1) -> Contents]
      /\ Len(claims) \in Nat /\ Len(seen) \in Nat /\ Len(sent) \in Nat /\ Len(got) \in Nat
      /\ Len(claims) <= MaxOps /\ Len(sent) \in 0..MaxOps
  BY Numbers DEF IInv, TypeOK
<1>3. /\ Len(got) <= Len(sent) - Bit(bpc = "inc") /\ Len(sent) <= Len(seen)
      /\ Len(seen) <= Published /\ Published <= Len(claims) /\ Published \in Nat
      /\ Len(claims) - Len(got) <= Size
      /\ reqProdPvt = Pos(Len(claims) - Bit(Incs # {}))
  BY <1>1, Stretch
<1>4. Len(got) <= Len(sent)
  BY <1>2, <1>3 DEF Bit
<1>5. UNCHANGED <<watched, seen, sent, got, bpc, bresp>>
  BY DEF FrontStep, FrontGet, FrontInc, FrontIncLost, FrontFill, FrontPush
<1>6. ASSUME NEW c \in Cpus, NEW r \in Requests, FrontGet(c, r)
      PROVE  SlotsOK'
  <2>1. /\ claims' = Append(claims, r) /\ Len(claims) - Len(got) < Size
        /\ fpc[c] = "idle" /\ \A d \in Cpus \ {c} : fpc[d] = "idle"
    <3>1. ~overrun' /\ ~raced'
      BY DEF Orderly
    <3>2. ~(Len(claims) - Len(got) >= Size)
      BY <1>6, <3>1 DEF FrontGet
    <3>3. Len(claims) - Len(got) < Size
      BY <1>2, <3>2
    <3>4. \A d \in Cpus \ {c} : fpc[d] = "idle"
      BY <1>6, <3>1 DEF FrontGet
    <3> QED
      BY <1>6, <3>3, <3>4 DEF FrontGet
  <2>2. InRing = {} /\ Incs = {} /\ InRing' # {}
    BY <1>2, <1>6, <2>1 DEF FrontGet, InRing, Incs
  <2>3. /\ Len(claims') = Len(claims) + 1
        /\ \A k \in 1..Len(claims) : claims'[k] = claims[k]
    BY <1>2, <2>1, AppendProperties
  <2>4. Published = Len(claims) /\ Published' = Len(claims) /\ reqProdPvt = Pos(Len(claims))
    <3>1. Bit(InRing # {}) = 0 /\ Bit(InRing' # {}) = 1 /\ Bit(Incs # {}) = 0
      BY <2>2 DEF Bit
    <3>2. Len(claims) - 0 = Len(claims) /\ Len(claims') - 1 = Len(claims)
      BY <1>2, <2>3
    <3>3. reqProdPvt = Pos(Len(claims) - 0)
      BY <1>3, <3>1
    <3> QED
      BY <3>1, <3>2, <3>3 DEF Published
  <2>5. At(reqProdPvt) = Place(Len(claims)) /\ Place(Len(claims)) \in 0..(Size - 1)
    BY <1>2, <2>4, AtPos
  <2>6. ASSUME NEW k \in Int, Len(got) <= k, k < Len(claims)
        PROVE  slot'[Place(k)] = slot[Place(k)]
    <3>1. Place(k) # Place(Len(claims))
      BY <1>2, <2>1, <2>6, PlacesApart
    <3>2. Place(k) \in 0..(Size - 1)
      BY <1>2, <2>6, AtPos
    <3> QED
      BY <1>2, <1>6, <2>5, <3>1, <3>2 DEF FrontGet
  <2>7. \A k \in (Len(seen) + 1)..Published' : slot'[Place(k - 1)] = claims'[k]
    <3> SUFFICES ASSUME NEW k \in (Len(seen) + 1)..Len(claims)
                 PROVE  slot'[Place(k - 1)] = claims'[k]
      BY <2>4
    <3>1. k - 1 \in Int /\ Len(got) <= k - 1 /\ k - 1 < Len(claims) /\ k \in 1..Len(claims)
      BY <1>2, <1>3, <1>4
    <3>2. slot[Place(k - 1)] = claims[k]
      BY <1>1, <2>4 DEF SlotsOK
    <3> QED
      BY <2>3, <2>6, <3>1, <3>2
  <2>8. \A k \in (Len(got) + 1)..Len(sent) : slot'[Place(k - 1)] = sent[k]
    <3> SUFFICES ASSUME NEW k \in (Len(got) + 1)..Len(sent)
                 PROVE  slot'[Place(k - 1)] = sent[k]
      OBVIOUS
    <3>1. k - 1 \in Int /\ Len(got) <= k - 1 /\ k - 1 < Len(claims)
      BY <1>2, <1>3, <1>4
    <3>2. slot[Place(k - 1)] = sent[k]
      BY <1>1 DEF SlotsOK
    <3> QED
      BY <2>6, <3>1, <3>2
  <2>9. \A k \in 1..Len(seen) : seen[k] = claims'[k]
    <3>1. \A k \in 1..Len(seen) : k \in 1..Len(claims)
      BY <1>2, <1>3
    <3> QED
      BY <1>1, <2>3, <3>1 DEF SlotsOK
  <2>10. Len(claims') - Len(got) <= Size
    BY <1>2, <2>1, <2>3
  <2>11. \A x : Answer(x)' = Answer(x)
    BY <1>5 DEF Answer
  <2> QED
    BY <1>1, <1>5, <2>7, <2>8, <2>9, <2>10, <2>11 DEF SlotsOK, Answer
<1>7. ASSUME NEW c \in Cpus, FrontInc(c)
      PROVE  SlotsOK'
  <2>1. InRing' = InRing /\ UNCHANGED <<slot, claims>>
    BY <1>2, <1>7 DEF FrontInc, InRing
  <2>2. Published' = Published
    BY <2>1 DEF Published
  <2> QED
    BY <1>1, <1>5, <2>1, <2>2, SlotsSame
<1>8. ASSUME NEW c \in Cpus, NEW d \in Cpus
      PROVE  ~FrontIncLost(c, d)
  BY <1>1, OneHook DEF FrontIncLost
<1>9. ASSUME NEW c \in Cpus, FrontFill(c)
      PROVE  SlotsOK'
  <2>1. InRing' = InRing /\ claims' = claims /\ fpc[c] = "fill"
    BY <1>2, <1>9 DEF FrontFill, InRing
  <2>2. Published' = Published /\ InRing = {c} /\ Len(claims) > 0
        /\ fidx[c] = Pos(Len(claims) - 1)
    BY <1>1, <2>1, OneHook DEF Published
  <2>3. Published = Len(claims) - 1
    BY <2>2 DEF Published, Bit
  <2> DEFINE z == Len(claims) - 1
  <2>4. z \in 0..MaxOps /\ z \in Int
    BY <1>2, <2>2
  <2>5. At(fidx[c]) = Place(z) /\ Place(z) \in 0..(Size - 1)
    <3> HIDE DEF z
    <3>1. fidx[c] = Pos(z)
      BY <2>2 DEF z
    <3> QED
      BY <2>4, <3>1, AtPos
  <2>6. ASSUME NEW k \in Int, Len(got) <= k, k < Len(claims) - 1
        PROVE  slot'[Place(k)] = slot[Place(k)]
    <3>1. k # z /\ k < z + Size /\ z < k + Size
      BY <1>2, <1>3, <2>6
    <3> HIDE DEF z
    <3>2. Place(k) # Place(z)
      BY <2>4, <3>1, PlacesApart
    <3>3. k \in 0..MaxOps
      BY <1>2, <2>6
    <3>4. Place(k) \in 0..(Size - 1)
      BY <3>3, AtPos
    <3> QED
      BY <1>2, <1>9, <2>5, <3>2, <3>4 DEF FrontFill
  <2>7. \A k \in (Len(seen) + 1)..Published : slot'[Place(k - 1)] = claims[k]
    <3> SUFFICES ASSUME NEW k \in (Len(seen) + 1)..Published
                 PROVE  slot'[Place(k - 1)] = claims[k]
      OBVIOUS
    <3>1. k - 1 \in Int /\ Len(got) <= k - 1 /\ k - 1 < Len(claims) - 1
      BY <1>2, <1>3, <1>4, <2>3
    <3>2. slot[Place(k - 1)] = claims[k]
      BY <1>1 DEF SlotsOK
    <3> QED
      BY <2>6, <3>1, <3>2
  <2>8. \A k \in (Len(got) + 1)..Len(sent) : slot'[Place(k - 1)] = sent[k]
    <3> SUFFICES ASSUME NEW k \in (Len(got) + 1)..Len(sent)
                 PROVE  slot'[Place(k - 1)] = sent[k]
      OBVIOUS
    <3>1. k - 1 \in Int /\ Len(got) <= k - 1 /\ k - 1 < Len(claims) - 1
      BY <1>2, <1>3, <1>4, <2>3
    <3>2. slot[Place(k - 1)] = sent[k]
      BY <1>1 DEF SlotsOK
    <3> QED
      BY <2>6, <3>1, <3>2
  <2>9. \A x : Answer(x)' = Answer(x)
    BY <1>5 DEF Answer
  <2> QED
    BY <1>1, <1>5, <2>1, <2>2, <2>7, <2>8, <2>9 DEF SlotsOK, Answer
<1>10. ASSUME NEW c \in Cpus, FrontPush(c)
       PROVE  SlotsOK'
  <2>1. /\ fpc[c] = "push" /\ InRing = {c} /\ Len(claims) > 0
        /\ slot[Place(Len(claims) - 1)] = claims[Len(claims)]
    BY <1>1, <1>10, OneHook DEF FrontPush
  <2>2. InRing' = {} /\ UNCHANGED <<slot, claims>>
    BY <1>2, <1>10, <2>1 DEF FrontPush, InRing
  <2>3. Published = Len(claims) - 1 /\ Published' = Len(claims)
    BY <1>2, <2>1, <2>2 DEF Published, Bit
  <2>4. \A k \in (Len(seen) + 1)..Published' : slot'[Place(k - 1)] = claims'[k]
    <3> SUFFICES ASSUME NEW k \in (Len(seen) + 1)..Len(claims)
                 PROVE  slot[Place(k - 1)] = claims[k]
      BY <2>2, <2>3
    <3>1. k = Len(claims) \/ k \in (Len(seen) + 1)..Published
      BY <1>2, <2>3
    <3> QED
      BY <1>1, <2>1, <3>1 DEF SlotsOK
  <2>5. \A x : Answer(x)' = Answer(x)
    BY <1>5 DEF Answer
  <2> QED
    BY <1>1, <1>5, <2>2, <2>4, <2>5 DEF SlotsOK, Answer
<1> QED
  BY <1>6, <1>7, <1>8, <1>9, <1>10 DEF FrontStep

(* The handlers: a request is taken from the front of the stretch, its     *)
(* answer goes where it stood, and the guest reads what was pushed.        *)
LEMMA SlotsRest ==
  ASSUME IInv, BackStep \/ VerdictStep \/ PushLost \/ GuestIrq, Orderly'
  PROVE  SlotsOK'
<1> USE DEF frontVars, guestVars, rspVars, verdVars
<1>1. Orderly /\ SlotsOK /\ vpc = "idle" /\ verdicts = 0
  BY StaysDisorderly, Numbers DEF Next, IInv
<1>2. /\ claims \in Seq(Requests) /\ seen \in Seq(Contents) /\ sent \in Seq(Responses)
      /\ got \in Seq(Contents) /\ slot \in [0..(Size - 1) -> Contents]
      /\ Len(claims) \in Nat /\ Len(seen) \in Nat /\ Len(sent) \in Nat /\ Len(got) \in Nat
      /\ Len(claims) <= MaxOps /\ Len(sent) \in 0..MaxOps
  BY Numbers DEF IInv, TypeOK
<1>3. /\ Len(got) <= Len(sent) - Bit(bpc = "inc") /\ Len(sent) <= Len(seen)
      /\ Len(seen) <= Published /\ Published <= Len(claims) /\ Published \in Nat
      /\ Len(claims) - Len(got) <= Size
  BY <1>1, Stretch
<1>4. Len(got) <= Len(sent)
  BY <1>2, <1>3 DEF Bit
<1>5. UNCHANGED <<watched, claims>> /\ Published' = Published /\ \A x : Answer(x)' = Answer(x)
  <2>1. UNCHANGED <<watched, claims, fpc>>
    BY DEF BackStep, BackEnter, BackCheck, BackFetch, BackDone, BackWrite, BackPush,
           VerdictStep, VerdictWrite, VerdictPush, PushLost, GuestIrq, backVars
  <2>2. InRing' = InRing
    BY <2>1 DEF InRing
  <2> QED
    BY <2>1, <2>2 DEF Published, Answer
<1>6. CASE BackEnter \/ BackCheck \/ BackDone \/ BackPush
  <2>1. /\ UNCHANGED <<slot, seen, sent, got>> /\ bpc' \in {"idle", "loop", "fetch"}
    BY <1>6 DEF BackEnter, BackCheck, BackDone, BackPush
  <2> QED
    BY <1>1, <1>5, <2>1, SlotsSame
<1>7. CASE BackFetch
  <2>1. brc = Pos(Len(seen)) /\ Len(seen) < Published
    BY <1>1, <1>7, Stretch DEF BackFetch
  <2>2. At(brc) = Place(Len(seen)) /\ Place(Len(seen)) \in 0..(Size - 1)
    <3>1. Len(seen) \in 0..MaxOps
      BY <1>2, <1>3, <2>1
    <3> QED
      BY <2>1, <3>1, AtPos
  <2>3. slot[At(brc)] = claims[Len(seen) + 1]
    <3> DEFINE k == Len(seen) + 1
    <3>1. k \in (Len(seen) + 1)..Published /\ k - 1 = Len(seen)
      BY <1>2, <1>3, <2>1
    <3> HIDE DEF k
    <3>2. slot[Place(k - 1)] = claims[k]
      BY <1>1, <3>1 DEF SlotsOK
    <3> QED
      BY <2>2, <3>1, <3>2 DEF k
  <2>4. slot[At(brc)] \in Contents
    BY <1>2, <2>2
  <2>5. /\ Len(seen') = Len(seen) + 1 /\ seen'[Len(seen) + 1] = slot[At(brc)]
        /\ \A k \in 1..Len(seen) : seen'[k] = seen[k]
    BY <1>2, <1>7, <2>4, AppendProperties DEF BackFetch
  <2>6. /\ UNCHANGED <<slot, sent, got>> /\ bpc = "fetch" /\ bpc' = "write"
        /\ bresp' = Answer(slot[At(brc)])
    BY <1>7 DEF BackFetch
  <2>7. \A k \in 1..Len(seen') : seen'[k] = claims'[k]
    <3> SUFFICES ASSUME NEW k \in 1..Len(seen') PROVE seen'[k] = claims[k]
      BY <1>5
    <3>1. k \in 1..Len(seen) \/ k = Len(seen) + 1
      BY <1>2, <2>5
    <3> QED
      BY <1>1, <2>3, <2>5, <3>1 DEF SlotsOK
  <2>8. \A k \in 1..Len(sent) : sent[k] = Answer(seen'[k])
    <3>1. \A k \in 1..Len(sent) : k \in 1..Len(seen)
      BY <1>2, <1>3
    <3> QED
      BY <1>1, <2>5, <3>1 DEF SlotsOK
  <2>9. \A k \in (Len(seen') + 1)..Published : slot[Place(k - 1)] = claims[k]
    <3>1. \A k \in (Len(seen') + 1)..Published : k \in (Len(seen) + 1)..Published
      BY <1>2, <1>3, <2>5
    <3> QED
      BY <1>1, <3>1 DEF SlotsOK
  <2>10. bresp' = Answer(seen'[Len(seen')])
    BY <2>5, <2>6
  <2>11. Len(got) <= Len(sent) - Bit(bpc' = "inc")
    BY <1>2, <1>4, <2>6 DEF Bit
  <2> QED
    BY <1>1, <1>3, <1>5, <2>6, <2>7, <2>8, <2>9, <2>10, <2>11 DEF SlotsOK, Answer
<1>8. CASE BackWrite
  <2>1. /\ bpc = "write" /\ bpc' = "inc" /\ slot' = [slot EXCEPT ![At(ResponseIdx)] = bresp]
        /\ sent' = Append(sent, bresp) /\ UNCHANGED <<seen, got, bresp>>
        /\ bresp \in Responses
    BY <1>8 DEF BackWrite, IInv
  <2>2. /\ At(ResponseIdx) = Place(Len(sent)) /\ Len(sent) = Len(seen) - 1
        /\ \A k \in Int : Len(got) <= k /\ k < Len(claims) /\ k # Len(sent)
                             => Place(k) # Place(Len(sent))
    BY <1>1, <2>1, ResponseSlot
  <2>3. Place(Len(sent)) \in 0..(Size - 1)
    BY <1>2, AtPos
  <2>4. ASSUME NEW k \in Int, Len(got) <= k, k < Len(claims), k # Len(sent)
        PROVE  slot'[Place(k)] = slot[Place(k)]
    <3>1. Place(k) # Place(Len(sent))
      BY <2>2, <2>4
    <3>2. k \in 0..MaxOps
      BY <1>2, <2>4
    <3>3. Place(k) \in 0..(Size - 1)
      BY <3>2, AtPos
    <3> QED
      BY <1>2, <2>1, <2>2, <3>1, <3>3
  <2>5. slot'[Place(Len(sent))] = bresp
    BY <1>2, <2>1, <2>2, <2>3
  <2>6. /\ Len(sent') = Len(sent) + 1 /\ sent'[Len(sent) + 1] = bresp
        /\ \A k \in 1..Len(sent) : sent'[k] = sent[k]
    BY <1>2, <2>1, AppendProperties
  <2>7. bresp = Answer(seen[Len(seen)]) /\ Len(seen) = Len(sent) + 1
    BY <1>1, <1>2, <2>1, <2>2 DEF SlotsOK
  <2>8. \A k \in 1..Len(sent') : sent'[k] = Answer(seen[k])
    <3> SUFFICES ASSUME NEW k \in 1..Len(sent') PROVE sent'[k] = Answer(seen[k])
      OBVIOUS
    <3>1. k \in 1..Len(sent) \/ k = Len(sent) + 1
      BY <1>2, <2>6
    <3> QED
      BY <1>1, <2>6, <2>7, <3>1 DEF SlotsOK
  <2>9. \A k \in 1..Len(got) : got[k] = sent'[k]
    <3>1. \A k \in 1..Len(got) : k \in 1..Len(sent)
      BY <1>2, <1>4
    <3> QED
      BY <1>1, <2>6, <3>1 DEF SlotsOK
  <2>10. \A k \in (Len(seen) + 1)..Published : slot'[Place(k - 1)] = claims[k]
    <3> SUFFICES ASSUME NEW k \in (Len(seen) + 1)..Published
                 PROVE  slot'[Place(k - 1)] = claims[k]
      OBVIOUS
    <3>1. k - 1 \in Int /\ Len(got) <= k - 1 /\ k - 1 < Len(claims) /\ k - 1 # Len(sent)
      BY <1>2, <1>3, <1>4, <2>2
    <3>2. slot[Place(k - 1)] = claims[k]
      BY <1>1 DEF SlotsOK
    <3> QED
      BY <2>4, <3>1, <3>2
  <2>11. \A k \in (Len(got) + 1)..Len(sent') : slot'[Place(k - 1)] = sent'[k]
    <3> SUFFICES ASSUME NEW k \in (Len(got) + 1)..Len(sent')
                 PROVE  slot'[Place(k - 1)] = sent'[k]
      OBVIOUS
    <3>1. CASE k = Len(sent) + 1
      <4>1. k - 1 = Len(sent)
        BY <1>2, <3>1
      <4> QED
        BY <2>5, <2>6, <3>1, <4>1
    <3>2. CASE k # Len(sent) + 1
      <4>1. /\ k \in (Len(got) + 1)..Len(sent) /\ k \in 1..Len(sent)
            /\ k - 1 \in Int /\ Len(got) <= k - 1 /\ k - 1 < Len(claims) /\ k - 1 # Len(sent)
        <5>1. k \in (Len(got) + 1)..Len(sent)
          BY <1>2, <2>6, <3>2
        <5>2. Len(sent) <= Len(claims)
          BY <1>2, <1>3
        <5> QED
          BY <1>2, <5>1, <5>2
      <4>2. slot[Place(k - 1)] = sent[k]
        BY <1>1, <4>1 DEF SlotsOK
      <4> QED
        BY <2>4, <2>6, <4>1, <4>2
    <3> QED
      BY <3>1, <3>2
  <2>12. Len(got) <= Len(sent') - Bit(bpc' = "inc")
    BY <1>2, <1>4, <2>1, <2>6 DEF Bit
  <2> QED
    <3>1. /\ \A k \in 1..Len(seen') : seen'[k] = claims'[k]
          /\ \A k \in 1..Len(sent') : sent'[k] = Answer(seen'[k])
          /\ bresp' = Answer(seen'[Len(seen')]) /\ Len(claims') - Len(got') <= Size
      BY <1>1, <1>3, <1>5, <2>1, <2>7, <2>8 DEF SlotsOK
    <3>2. claims' = claims /\ got' = got /\ seen' = seen /\ Published' = Published
      BY <1>5, <2>1
    <3>3. /\ Len(got') <= Len(sent') - Bit(bpc' = "inc")
          /\ \A k \in 1..Len(got') : got'[k] = sent'[k]
      BY <2>9, <2>12, <3>2
    <3>4. /\ \A k \in (Len(seen') + 1)..Published' : slot'[Place(k - 1)] = claims'[k]
          /\ \A k \in (Len(got') + 1)..Len(sent') : slot'[Place(k - 1)] = sent'[k]
      BY <2>10, <2>11, <3>2
    <3> QED
      BY <3>1, <3>3, <3>4, <1>5, <2>1 DEF SlotsOK, Answer
<1>9. CASE GuestIrq
  <2> DEFINE base == StartIdx + Len(got)
             fresh == Minus(rspProd, base)
             new == [k \in 1..fresh |-> slot[At(base + k - 1)]]
             R == Len(sent) - Bit(bpc = "inc")
  <2>1. /\ got' = got \o new /\ UNCHANGED <<slot, seen, sent, bpc, bresp>>
    BY <1>9 DEF GuestIrq, backVars
  <2>2. R \in 0..MaxOps /\ Len(got) \in 0..MaxOps /\ Len(got) <= R /\ R <= Len(sent)
    <3>1. bpc = "inc" => Len(sent) > 0
      BY <1>2, Numbers, <1>1 DEF Bit
    <3> QED
      BY <1>2, <1>3, <3>1 DEF Bit
  <2>3. rspProd = Pos(R)
    BY <1>1, Numbers
  <2> HIDE DEF R
  <2>4. fresh = R - Len(got)
    <3>1. Minus(Pos(R), base) = R - Len(got)
      <4>1. Pos(R) = IF StartIdx + R < IdxMod THEN StartIdx + R ELSE StartIdx + R - IdxMod
        BY <2>2, PosIs
      <4> DEFINE x == Pos(R) - base
                 r == R - Len(got)
      <4>2. r \in 0..(IdxMod - 1) /\ IdxMod \in Nat \ {0}
        BY <2>2
      <4>3. x \in Int /\ (x = r \/ x = r - IdxMod)
        BY <2>2, <4>1
      <4>4. IdxMod * 0 = 0 /\ IdxMod * (-1) = -IdxMod
        OBVIOUS
      <4> HIDE DEF r
      <4>5. \E q \in Int : x = IdxMod * q + r
        <5>1. CASE x = r
          <6>1. x = IdxMod * 0 + r
            BY <4>2, <4>4, <5>1
          <6> WITNESS 0 \in Int
          <6> QED
            BY <6>1
        <5>2. CASE x = r - IdxMod
          <6>1. x = IdxMod * (-1) + r
            BY <4>2, <4>4, <5>2
          <6> QED
            BY <6>1
        <5> QED
          BY <4>3, <5>1, <5>2
      <4> HIDE DEF x
      <4>6. x % IdxMod = r
        BY <4>2, <4>3, <4>5, ModIs
      <4> QED
        BY <4>6 DEF Minus, x, r
    <3> QED
      BY <2>3, <3>1
  <2>5. \A k \in 1..fresh : slot[At(base + k - 1)] = sent[Len(got) + k]
    <3> SUFFICES ASSUME NEW k \in 1..fresh
                 PROVE  slot[At(base + k - 1)] = sent[Len(got) + k]
      OBVIOUS
    <3> DEFINE n == Len(got) + k - 1
               j == Len(got) + k
    <3>1. n \in 0..MaxOps /\ base + k - 1 = StartIdx + n
      BY <1>2, <2>2, <2>4
    <3>2. j \in (Len(got) + 1)..Len(sent) /\ j - 1 = n
      BY <1>2, <2>2, <2>4
    <3> HIDE DEF n, j
    <3>3. At(base + k - 1) = Place(n)
      BY <3>1, AtPos
    <3>4. slot[Place(j - 1)] = sent[j]
      BY <1>1, <3>2 DEF SlotsOK
    <3> QED
      BY <3>2, <3>3, <3>4 DEF j
  <2>6. fresh \in Nat
    BY <2>2, <2>4
  <2> HIDE DEF base, fresh
  <2>7. \A k \in 1..fresh : slot[At(base + k - 1)] \in Contents
    <3>1. \A k \in 1..fresh : Len(got) + k \in 1..Len(sent)
      BY <1>2, <2>2, <2>4
    <3> QED
      BY <1>2, <2>5, <3>1, ElementOfSeq, ContentsFacts
  <2>8. new \in Seq(Contents) /\ Len(new) = fresh
        /\ \A k \in 1..fresh : new[k] = sent[Len(got) + k]
    <3>1. new \in Seq(Contents)
      BY <2>6, <2>7, IsASeq
    <3>2. DOMAIN new = 1..fresh /\ \A k \in 1..fresh : new[k] = slot[At(base + k - 1)]
      OBVIOUS
    <3> HIDE DEF new
    <3>3. Len(new) = fresh
      BY <2>6, <3>1, <3>2, LenProperties
    <3> QED
      BY <2>5, <3>1, <3>2, <3>3
  <2> HIDE DEF new
  <2>9. /\ Len(got') = Len(got) + fresh
        /\ \A k \in 1..Len(got') : got'[k] = IF k <= Len(got) THEN got[k] ELSE new[k - Len(got)]
    <3>1. got \in Seq(Contents) /\ new \in Seq(Contents)
      BY <1>2, <2>8
    <3>2. /\ Len(got \o new) = Len(got) + Len(new)
          /\ \A k \in 1..(Len(got) + Len(new)) :
               (got \o new)[k] = IF k <= Len(got) THEN got[k] ELSE new[k - Len(got)]
      BY <3>1, ConcatProperties
    <3>3. Len(new) = fresh /\ got' = got \o new
      BY <2>1, <2>8
    <3> QED
      BY <3>2, <3>3
  <2>10. Len(got') = R
    BY <1>2, <2>2, <2>4, <2>9
  <2>11. \A k \in 1..Len(got') : got'[k] = sent[k]
    <3> SUFFICES ASSUME NEW k \in 1..Len(got') PROVE got'[k] = sent[k]
      OBVIOUS
    <3>1. CASE k <= Len(got)
      <4>1. k \in 1..Len(got) /\ got'[k] = got[k]
        <5>1. got'[k] = got[k]
          BY <2>9, <3>1
        <5>2. k \in 1..Len(got)
          BY <1>2, <2>2, <2>10, <3>1
        <5> QED
          BY <5>1, <5>2
      <4> QED
        BY <1>1, <4>1 DEF SlotsOK
    <3>2. CASE ~(k <= Len(got))
      <4> DEFINE i == k - Len(got)
      <4>1. i \in 1..fresh /\ Len(got) + i = k
        BY <1>2, <2>2, <2>4, <2>10, <3>2
      <4>2. got'[k] = new[i]
        BY <2>9, <3>2
      <4> HIDE DEF i
      <4> QED
        BY <2>8, <4>1, <4>2
    <3> QED
      BY <3>1, <3>2
  <2>12. \A k \in (Len(got') + 1)..Len(sent) : slot[Place(k - 1)] = sent[k]
    <3>1. \A k \in (Len(got') + 1)..Len(sent) : k \in (Len(got) + 1)..Len(sent)
      BY <1>2, <2>2, <2>10
    <3> QED
      BY <1>1, <3>1 DEF SlotsOK
  <2>13. Len(got') <= Len(sent) - Bit(bpc = "inc") /\ Len(claims) - Len(got') <= Size
    <3>1. Len(claims) - R <= Size /\ R <= R
      BY <1>2, <1>3, <2>2
    <3> QED
      BY <2>10, <3>1 DEF R
  <2> QED
    BY <1>1, <1>5, <2>1, <2>11, <2>12, <2>13 DEF SlotsOK, Answer
<1>10. ASSUME NEW op \in {"RESUME", "KILL"}, NEW p \in watched
       PROVE  ~VerdictWrite(op, p)
  BY <1>1 DEF VerdictWrite, Orderly
<1>11. ~VerdictPush /\ ~PushLost
  BY <1>1 DEF VerdictPush, PushLost
<1> QED
  BY <1>6, <1>7, <1>8, <1>9, <1>10, <1>11 DEF BackStep, VerdictStep

LEMMA InitGood == Init => IInv
<1> SUFFICES ASSUME Init PROVE IInv
  OBVIOUS
<1>1. TypeOK /\ Indices
  BY TypeInit, IndicesInit
<1>2. /\ slot = [i \in 0..(Size - 1) |-> NoReq] /\ mmuLock = "free"
      /\ fpc = [c \in Cpus |-> "idle"] /\ bpc = "idle"
      /\ claims = <<>> /\ seen = <<>> /\ sent = <<>> /\ got = <<>>
  BY DEF Init
<1>3. InRing = {}
  BY <1>2 DEF InRing
<1>4. ASSUME NEW c \in Cpus PROVE HookOK(c)
  <2>1. mmuLock # c
    BY <1>2, CpuAssumption
  <2> QED
    BY <1>3, <2>1 DEF HookOK
<1>5. Len(claims) = 0 /\ Len(seen) = 0 /\ Len(sent) = 0 /\ Len(got) = 0
  BY <1>2
<1>6. SlotsOK
  <2>1. Published = 0 /\ Bit(bpc = "inc") = 0
    BY <1>2, <1>3, <1>5 DEF Published, Bit
  <2>2. 1..0 = {} /\ (0 + 1)..0 = {}
    OBVIOUS
  <2> QED
    BY <1>2, <1>5, <2>1, <2>2 DEF SlotsOK
<1> QED
  BY <1>1, <1>2, <1>4, <1>6 DEF IInv

LEMMA StepGood ==
  ASSUME IInv, Next
  PROVE  IInv'
<1>1. CASE FrontStep
  <2>1. TypeOK' /\ Indices' /\ \A c \in Cpus : HookOK(c)'
    BY <1>1, TypeFront, IndicesFront, HooksFront DEF IInv
  <2>2. (bpc \in {"write", "inc"} => bresp \in Responses)'
    BY ResponseInHand
  <2>3. Orderly' => SlotsOK'
    BY <1>1, SlotsFront
  <2> QED
    BY <2>1, <2>2, <2>3 DEF IInv
<1>2. CASE BackStep \/ VerdictStep \/ PushLost \/ GuestIrq
  <2>1. TypeOK'
    BY <1>2, TypeBack, TypeRest DEF IInv
  <2>2. Indices' /\ \A c \in Cpus : HookOK(c)'
    BY <1>2, IndicesRest, HooksRest
  <2>3. (bpc \in {"write", "inc"} => bresp \in Responses)'
    BY ResponseInHand
  <2>4. Orderly' => SlotsOK'
    BY <1>2, SlotsRest
  <2> QED
    BY <2>1, <2>2, <2>3, <2>4 DEF IInv
<1> QED
  BY <1>1, <1>2 DEF Next

(* The inductive invariant of the shared ring, for every size of the ring, *)
(* every width and start of the indices and every number of CPUs: the      *)
(* indices of both ends are what the histories say, a hook on its way has  *)
(* its slot, and while the users keep to what the code relies on, so have  *)
(* the requests and responses in flight.                                   *)
THEOREM RingInvariant == Spec => []IInv
<1>1. Init => IInv
  BY InitGood
<1>2. IInv /\ [Next]_vars => IInv'
  <2> SUFFICES ASSUME IInv, [Next]_vars PROVE IInv'
    OBVIOUS
  <2>1. CASE Next
    BY <2>1, StepGood
  <2>2. CASE UNCHANGED vars
    <3> USE <2>2 DEF vars, frontVars, backVars, verdVars, guestVars, rspVars
    <3>1. InRing' = InRing /\ Incs' = Incs /\ Orderly' = Orderly
      BY DEF InRing, Incs, Orderly
    <3>2. Published' = Published
      BY <3>1 DEF Published
    <3>3. TypeOK'
      BY DEF IInv, TypeOK
    <3>4. Indices'
      BY <3>1, <3>2 DEF IInv, Indices, RequestsAt, ResponsesAt
    <3>5. \A c \in Cpus : HookOK(c)'
      BY <3>1 DEF IInv, HookOK
    <3>6. Orderly => SlotsOK'
      <4> SUFFICES ASSUME Orderly PROVE SlotsOK'
        OBVIOUS
      <4> QED
        BY <3>2, SlotsSame
    <3> QED
      BY <3>1, <3>3, <3>4, <3>5, <3>6 DEF IInv
  <2> QED
    BY <2>1, <2>2
<1> QED
  BY <1>1, <1>2, PTL DEF Spec

(* A sequence that agrees with a longer one is a prefix of it. *)
LEMMA AgreeingIsPrefix ==
  ASSUME NEW S, NEW s \in Seq(S), NEW T, NEW t \in Seq(T), Len(s) <= Len(t),
         \A k \in 1..Len(s) : s[k] = t[k]
  PROVE  IsPrefix(s, t)
<1>1. Len(s) \in Nat /\ Len(t) \in Nat /\ DOMAIN s = 1..Len(s) /\ DOMAIN t = 1..Len(t)
  BY LenProperties
<1> QED
  BY <1>1 DEF IsPrefix

(* What the index invariant says of the slots a hook takes: only an mmu    *)
(* hook holds malpage_mmu_info_lock.                                       *)
LEMMA HooksApart == IInv => MmuHooksApart
<1> SUFFICES ASSUME IInv, NEW c \in Cpus, NEW d \in Cpus,
                    fpc[c] # "idle", freq[c].op = "MMUUPDATE",
                    fpc[d] # "idle", freq[d].op = "MMUUPDATE"
             PROVE  c = d
  BY DEF MmuHooksApart
<1>1. c \in InRing /\ d \in InRing
  BY DEF InRing
<1>2. mmuLock = c /\ mmuLock = d
  BY <1>1 DEF IInv, HookOK
<1> QED
  BY <1>2

(* The ring delivers: what the monitor copied out of the slots are the     *)
(* requests the guest put there, in order, and what the guest read are the *)
(* responses, as long as no two hooks met in the ring, none overran it and *)
(* no verdict was sent; and the mmu hooks are apart always.                *)
THEOREM RingDelivers == Spec => []RingIntact
<1>1. IInv => RingIntact
  <2> SUFFICES ASSUME IInv PROVE RingIntact
    OBVIOUS
  <2>1. TypeOK /\ MmuHooksApart
    BY HooksApart DEF IInv
  <2>2. ASSUME Orderly PROVE IsPrefix(seen, claims) /\ IsPrefix(got, sent)
    <3>1. SlotsOK
      BY <2>2 DEF IInv
    <3>2. /\ claims \in Seq(Requests) /\ seen \in Seq(Contents)
          /\ sent \in Seq(Responses) /\ got \in Seq(Contents)
      BY DEF IInv, TypeOK
    <3>3. Len(seen) <= Len(claims) /\ Len(got) <= Len(sent)
      BY <3>1, Numbers DEF SlotsOK, Bit
    <3>4. /\ \A k \in 1..Len(seen) : seen[k] = claims[k]
          /\ \A k \in 1..Len(got) : got[k] = sent[k]
      BY <3>1 DEF SlotsOK
    <3> QED
      BY <3>2, <3>3, <3>4, AgreeingIsPrefix
  <2> QED
    BY <2>1, <2>2 DEF RingIntact, RequestsIntact, ResponsesIntact
<1> QED
  BY <1>1, RingInvariant, PTL

(* A report is asked of the guest only for a watched process whose         *)
(* page-fault hook put a request: the i-th response the monitor wrote      *)
(* answers the i-th request of the guest.                                  *)
THEOREM ReportsAreJustified == Spec => []ReportJustified
<1>1. IInv => ReportJustified
  <2> SUFFICES ASSUME IInv, Orderly, NEW i \in 1..Len(sent), sent[i].op = "REPORT"
               PROVE  /\ sent[i].pid \in watched
                      /\ claims[i] = [op |-> "NXVIOLATION", pid |-> sent[i].pid]
    BY DEF ReportJustified
  <2>1. SlotsOK /\ claims \in Seq(Requests)
    BY DEF IInv, TypeOK
  <2>2. i \in 1..Len(seen) /\ i \in 1..Len(claims)
    BY Numbers DEF Bit
  <2>3. sent[i] = Answer(claims[i])
    BY <2>1, <2>2 DEF SlotsOK
  <2>4. claims[i] \in Requests
    BY <2>1, <2>2, ElementOfSeq
  <2>5. PICK o \in {"MMUUPDATE", "NXVIOLATION"}, q \in Pids : claims[i] = [op |-> o, pid |-> q]
    BY <2>4 DEF Requests
  <2> QED
    BY <2>3, <2>5 DEF Answer
<1> QED
  BY <1>1, RingInvariant, PTL
------------------------------------------------------------------------------
(* The wedged ring *)

(* The indices are as wide as the ring or at least twice as wide. *)
LEMMA WideEnough == IdxMod = Size \/ IdxMod >= 2 * Size
<1> DEFINE d == IdxMod \div Size
<1>1. d \in Int /\ IdxMod = Size * d
  BY DivMod
<1> HIDE DEF d
<1>2. d >= 1
  <2> SUFFICES ASSUME d <= 0 PROVE FALSE
    BY <1>1
  <2>1. Size * d <= Size * 0
    BY <1>1
  <2> QED
    BY <1>1, <2>1
<1>3. CASE d = 1
  BY <1>1, <1>3
<1>4. CASE d >= 2
  <2>1. Size * d >= Size * 2
    BY <1>1, <1>4
  <2> QED
    BY <1>1, <2>1
<1> QED
  BY <1>1, <1>2, <1>3, <1>4

(* RING_REQUEST_CONS_OVERFLOW, when at most one request taken is not yet   *)
(* answered: true just when there are more responses than requests.        *)
LEMMA OverflowIs ==
  ASSUME NEW s \in 0..MaxOps, NEW r \in 0..MaxOps, s - r <= 1
  PROVE  Minus(Pos(s), Pos(r)) >= Size <=> s < r /\ IdxMod # Size
<1>1. Minus(Pos(s), Pos(r)) = IF r <= s THEN s - r ELSE s - r + IdxMod
  BY MinusPos
<1>2. CASE r <= s
  BY <1>1, <1>2
<1>3. CASE ~(r <= s)
  <2>1. Minus(Pos(s), Pos(r)) = s - r + IdxMod /\ s < r
    BY <1>1, <1>3
  <2>2. CASE IdxMod = Size
    BY <2>1, <2>2
  <2>3. CASE IdxMod # Size
    <3>1. IdxMod >= 2 * Size
      BY <2>3, WideEnough
    <3>2. s - r + IdxMod >= Size
      BY <3>1
    <3> QED
      BY <2>1, <2>3, <3>2
  <2> QED
    BY <2>2, <2>3
<1> QED
  BY <1>2, <1>3

(* Once more responses were sent than requests taken, the monitor takes no *)
(* request of this guest any more, but for one it had checked for before:  *)
(* the indices wrap, the verdicts stay sent, and nothing makes up for them.*)
THEOREM StaysWedged == Spec => WedgedForGood
<1>1. IInv /\ [Next]_vars => [Stuck => Stuck' /\ UNCHANGED reqCons]_vars
  <2> SUFFICES ASSUME IInv, Next, Wedged, bpc # "fetch" PROVE Stuck' /\ UNCHANGED reqCons
    BY DEF Stuck
  <2> DEFINE s == Len(seen)
  <2>1. s \in 0..MaxOps /\ Len(sent) \in 0..MaxOps /\ verdicts \in Nat
    BY Numbers
  <2>2. PICK r \in 0..MaxOps, lost \in 0..MaxOps : ResponsesAt(r, lost)
    BY DEF IInv, Indices
  <2>3. /\ reqCons = Pos(s) /\ rspProdPvt = Pos(r) /\ (bpc = "loop" => brc = reqCons)
    <3>1. PICK p, q, x \in 0..MaxOps : RequestsAt(p, q, x)
      BY DEF IInv, Indices
    <3> QED
      BY <2>2, <3>1 DEF RequestsAt, ResponsesAt
  <2>4. /\ s - r <= 1 /\ (bpc = "inc" \/ vpc = "inc" => r + 1 \in 0..MaxOps)
    <3>1. /\ r = Len(sent) - lost - Bit(bpc = "inc") - Bit(vpc = "inc")
          /\ lost + Bit(vpc = "inc") <= verdicts
      BY <2>2 DEF ResponsesAt
    <3>2. Len(sent) = s + verdicts - Bit(bpc = "write")
      BY DEF IInv, Indices
    <3> HIDE DEF s
    <3> QED
      BY <2>1, <3>1, <3>2 DEF Bit
  <2>5. s < r /\ IdxMod # Size
    BY <2>1, <2>3, <2>4, OverflowIs DEF Wedged
  <2>6. ~BackFetch /\ ~BackCheck
    BY <2>3 DEF BackFetch, BackCheck, Overflow, Wedged
  <2>7. /\ reqCons' = reqCons /\ bpc' # "fetch"
        /\ \/ rspProdPvt' = rspProdPvt
           \/ (bpc = "inc" \/ vpc = "inc") /\ rspProdPvt' = Inc(rspProdPvt)
    <3>1. CASE FrontStep
      BY <3>1 DEF FrontStep, FrontGet, FrontInc, FrontIncLost, FrontFill, FrontPush,
                  backVars, rspVars
    <3>2. CASE BackStep
      BY <2>6, <3>2 DEF BackStep, BackEnter, BackDone, BackWrite, BackPush, rspVars
    <3>3. CASE VerdictStep \/ PushLost \/ GuestIrq
      BY <3>3 DEF VerdictStep, VerdictWrite, VerdictPush, PushLost, GuestIrq, backVars, rspVars
    <3> QED
      BY <3>1, <3>2, <3>3 DEF Next
  <2>8. \E t \in 0..MaxOps : rspProdPvt' = Pos(t) /\ s < t
    <3>1. CASE rspProdPvt' = rspProdPvt
      BY <2>3, <2>5, <3>1
    <3>2. CASE (bpc = "inc" \/ vpc = "inc") /\ rspProdPvt' = Inc(rspProdPvt)
      <4>1. r + 1 \in 0..MaxOps /\ r < MaxOps
        BY <2>4, <3>2
      <4>2. rspProdPvt' = Pos(r + 1)
        BY <2>3, <3>2, <4>1, IncPos
      <4>3. s < r + 1
        BY <2>1, <2>5
      <4> QED
        BY <4>1, <4>2, <4>3
    <3> QED
      BY <2>7, <3>1, <3>2
  <2> HIDE DEF s
  <2>9. PICK t \in 0..MaxOps : rspProdPvt' = Pos(t) /\ s < t
    BY <2>8
  <2>10. Minus(Pos(s), Pos(t)) >= Size
    <3>1. s - t <= 1
      BY <2>1, <2>9
    <3> QED
      BY <2>1, <2>5, <2>9, <3>1, OverflowIs
  <2> QED
    BY <2>3, <2>7, <2>9, <2>10 DEF Stuck, Wedged
<1> QED
  BY <1>1, RingInvariant, PTL DEF Spec, WedgedForGood

(* A response misses the count only when a verdict and the handler push at *)
(* the same time: without verdicts every response has an index.            *)
THEOREM ResponsesAreCounted == Spec => []ResponsesCounted
<1>1. IInv => ResponsesCounted
  <2> SUFFICES ASSUME IInv PROVE ResponsesCounted
    OBVIOUS
  <2>1. PICK r \in 0..MaxOps, lost \in 0..MaxOps : ResponsesAt(r, lost)
    BY DEF IInv, Indices
  <2>2. /\ r = Len(sent) - lost - Bit(bpc = "inc") - Bit(vpc = "inc")
        /\ lost + Bit(vpc = "inc") <= verdicts /\ rspProd = Pos(r)
    BY <2>1 DEF ResponsesAt
  <2>3. Minus(rspProd, StartIdx) = r
    <3>1. Pos(0) = StartIdx /\ 0 \in 0..MaxOps
      BY PosIs
    <3>2. Minus(Pos(r), Pos(0)) = r
      BY <3>1, MinusPos
    <3> QED
      BY <2>2, <3>1, <3>2
  <2>4. Len(sent) \in Nat /\ verdicts \in Nat
    BY Numbers
  <2> QED
    BY <2>2, <2>3, <2>4 DEF ResponsesCounted, Bit
<1> QED
  BY <1>1, RingInvariant, PTL
==============================================================================
