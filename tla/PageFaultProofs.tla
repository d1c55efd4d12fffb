--------------------------- MODULE PageFaultProofs ---------------------------
(***************************************************************************)
(* Proofs about PageFault for any number of threads: do_page_fault keeps   *)
(* to mmap_sem, the hook sees mapped accesses only, and every fault ends   *)
(* as its page and mode call for.                                          *)
(***************************************************************************)
EXTENDS PageFault, SequenceTheorems, TLAPS

USE NoneAssumption

------------------------------------------------------------------------------
(* Instructions and fates *)

(* The bit tests of check_prefetch_opcode pick out the legacy prefixes and *)
(* in 64-bit code the REX prefixes, of all bytes.                          *)
LEMMA PrefixBytes ==
  ASSUME NEW long \in BOOLEAN
  PROVE  \A b \in 0..255 : PrefixByte(b, long) <=> b \in Prefixes(long)
<1>1. CASE long
  BY <1>1 DEF PrefixByte, Prefixes, Legacy
<1>2. CASE ~long
  BY <1>2 DEF PrefixByte, Prefixes, Legacy
<1> QED
  BY <1>1, <1>2

(* For any instruction of at most 16 bytes the loop of                     *)
(* check_prefetch_opcode finds a prefetch exactly if it is one.            *)
LEMMA PrefetchFound ==
  ASSUME NEW code \in Seq(0..255), Len(code) <= 16, NEW long \in BOOLEAN
  PROVE  PrefetchOpcode(code, long) <=> PrefetchInstr(code, long)
<1> DEFINE Byte == 0..255
<1>0. \A i \in 1..Len(code) : code[i] \in Byte
  BY ElementOfSeq
<1>1. ASSUME NEW n \in 0..14, n + 2 <= Len(code)
      PROVE  SubSeq(code, n + 1, n + 2) = <<code[n + 1], code[n + 2]>>
  <2> DEFINE s == SubSeq(code, n + 1, n + 2)
             u == <<code[n + 1], code[n + 2]>>
  <2>1. \A i \in (n + 1)..(n + 2) : code[i] \in Byte
    <3>1. \A i \in (n + 1)..(n + 2) : i \in 1..Len(code)
      BY <1>1
    <3> QED
      BY <1>0, <3>1
  <2>2. s \in Seq(Byte) /\ Len(s) = 2 /\ \A i \in 1..2 : s[i] = code[n + i]
    <3> DEFINE lo == n + 1
               hi == n + 2
    <3>1. lo \in Int /\ hi \in Int /\ lo <= hi /\ hi - lo + 1 = 2
          /\ \A i \in 1..2 : lo + i - 1 = n + i
      OBVIOUS
    <3> HIDE DEF Byte, lo, hi
    <3>2. /\ SubSeq(code, lo, hi) \in Seq(Byte)
          /\ Len(SubSeq(code, lo, hi)) = IF lo <= hi THEN hi - lo + 1 ELSE 0
          /\ \A i \in 1..(hi - lo + 1) : SubSeq(code, lo, hi)[i] = code[lo + i - 1]
      <4>1. \A i \in lo..hi : code[i] \in Byte
        BY <2>1 DEF lo, hi
      <4> QED
        BY <3>1, <4>1, SubSeqProperties
    <3>3. /\ SubSeq(code, lo, hi) \in Seq(Byte) /\ Len(SubSeq(code, lo, hi)) = 2
          /\ \A i \in 1..2 : SubSeq(code, lo, hi)[i] = code[n + i]
      BY <3>1, <3>2
    <3> QED
      BY <3>3 DEF lo, hi
  <2>3. u \in Seq(Byte) /\ Len(u) = 2 /\ u[1] = code[n + 1] /\ u[2] = code[n + 2]
    <3> DEFINE a == code[n + 1]
               b == code[n + 2]
    <3>1. n + 1 \in 1..Len(code) /\ n + 2 \in 1..Len(code)
      BY <1>1
    <3> HIDE DEF Byte
    <3>2. a \in Byte /\ b \in Byte
      BY <1>0, <3>1
    <3> HIDE DEF a, b
    <3>3. <<a, b>> \in Seq(Byte) /\ Len(<<a, b>>) = 2
          /\ <<a, b>>[1] = a /\ <<a, b>>[2] = b
      BY <3>2
    <3> QED
      BY <3>3 DEF a, b
  <2>4. \A i \in 1..2 : i = 1 \/ i = 2
    OBVIOUS
  <2>5. s[1] = u[1] /\ s[2] = u[2]
    BY <2>2, <2>3
  <2> HIDE DEF s, u
  <2>6. s = u
    BY <2>2, <2>3, <2>4, <2>5, SeqEqual
  <2> QED
    BY <2>6 DEF s, u
<1>2. ASSUME NEW n \in 0..14, n + 2 <= Len(code)
      PROVE  /\ \A i \in 1..n : PrefixByte(code[i], long) <=> code[i] \in Prefixes(long)
             /\ SubSeq(code, n + 1, n + 2) \in {<<15, 13>>, <<15, 24>>}
                   <=> code[n + 1] = 15 /\ code[n + 2] \in {13, 24}
  <2>1. \A i \in 1..n : code[i] \in 0..255
    BY <1>0, <1>2
  <2>2. \A i \in 1..n : PrefixByte(code[i], long) <=> code[i] \in Prefixes(long)
    BY <2>1, PrefixBytes, ZenonT(30)
  <2>3. SubSeq(code, n + 1, n + 2) \in {<<15, 13>>, <<15, 24>>}
           <=> code[n + 1] = 15 /\ code[n + 2] \in {13, 24}
    <3> DEFINE a == code[n + 1]
               b == code[n + 2]
    <3> HIDE DEF a, b
    <3>1. <<a, b>> \in {<<15, 13>>, <<15, 24>>} <=> a = 15 /\ b \in {13, 24}
      OBVIOUS
    <3> QED
      BY <1>1, <1>2, <3>1 DEF a, b
  <2> QED
    BY <2>2, <2>3
<1>3. ASSUME PrefetchOpcode(code, long)
      PROVE  PrefetchInstr(code, long)
  <2>1. PICK n \in 0..14 :
           /\ n + 2 <= Len(code)
           /\ \A i \in 1..n : PrefixByte(code[i], long)
           /\ code[n + 1] = 15
           /\ code[n + 2] \in {13, 24}
    BY <1>3 DEF PrefetchOpcode
  <2>2. n \in 0..Len(code) - 2
    BY <2>1
  <2>3. /\ \A i \in 1..n : code[i] \in Prefixes(long)
        /\ SubSeq(code, n + 1, n + 2) \in {<<15, 13>>, <<15, 24>>}
    BY <1>2, <2>1
  <2> QED
    BY <2>2, <2>3 DEF PrefetchInstr
<1>4. ASSUME PrefetchInstr(code, long)
      PROVE  PrefetchOpcode(code, long)
  <2>1. PICK n \in 0..Len(code) - 2 :
           /\ \A i \in 1..n : code[i] \in Prefixes(long)
           /\ SubSeq(code, n + 1, n + 2) \in {<<15, 13>>, <<15, 24>>}
    BY <1>4 DEF PrefetchInstr
  <2>2. n \in 0..14 /\ n + 2 <= Len(code)
    OBVIOUS
  <2>3. /\ \A i \in 1..n : PrefixByte(code[i], long)
        /\ code[n + 1] = 15 /\ code[n + 2] \in {13, 24}
    BY <1>2, <2>1, <2>2
  <2> QED
    BY <2>2, <2>3 DEF PrefetchOpcode
<1> QED
  BY <1>3, <1>4

(* Every instruction the model takes is of that kind. *)
LEMMA CodesAreBytes == \A code \in Codes : code \in Seq(0..255) /\ Len(code) <= 16
<1> DEFINE Byte == 0..255
           long == <<102, 102, 102, 102, 102, 102, 102, 102, 102, 102, 102, 102, 102, 15, 24>>
<1>1. {0, 13, 15, 24, 62, 72, 102, 139, 182} \subseteq Byte
  OBVIOUS
<1> HIDE DEF Byte
<1>2. /\ <<15, 13, 0>> \in Seq(Byte) /\ Len(<<15, 13, 0>>) <= 16
      /\ <<62, 102, 15, 24>> \in Seq(Byte) /\ Len(<<62, 102, 15, 24>>) <= 16
      /\ <<72, 15, 13>> \in Seq(Byte) /\ Len(<<72, 15, 13>>) <= 16
  BY <1>1
<1>3. /\ <<139, 15, 13>> \in Seq(Byte) /\ Len(<<139, 15, 13>>) <= 16
      /\ <<15, 182>> \in Seq(Byte) /\ Len(<<15, 182>>) <= 16
      /\ <<>> \in Seq(Byte) /\ Len(<<>>) <= 16
      /\ <<15>> \in Seq(Byte) /\ Len(<<15>>) <= 16
      /\ <<62>> \in Seq(Byte) /\ Len(<<62>>) <= 16
  BY <1>1
<1>4. long \in Seq(Byte) /\ Len(long) <= 16
  BY <1>1
<1> QED
  BY <1>2, <1>3, <1>4, ZenonT(30) DEF Codes, Byte

(* is_prefetch finds what there is to be found, for every fault. *)
LEMMA SightsAreTrue ==
  ASSUME NEW f, NEW s \in SightsOf(f)
  PROVE  s.found <=> s.there
<1>1. PICK bytes \in Codes, m \in BOOLEAN, far \in BOOLEAN :
         s = [long |-> m, beyond |-> far, found |-> PrefetchOpcode(bytes, m),
              there |-> PrefetchInstr(bytes, m)]
  BY DEF SightsOf, Sights
<1>2. PrefetchOpcode(bytes, m) <=> PrefetchInstr(bytes, m)
  BY CodesAreBytes, PrefetchFound
<1> QED
  BY <1>1, <1>2

(* What JustEnds asks of an end that handle_mm_fault did not resolve. *)
Just(w) ==
  /\ w.what # "resolved"
  /\ w.what = "oops" => w.rsvd \/ (~w.user /\ ~w.prefetch)
  /\ w.what \in {"maperr", "accerr", "sigbus"} => w.user /\ ~w.prefetch
  /\ w.what = "ignored" => w.prefetch
Signals == {"maperr", "accerr", "sigbus"}

(* An end that is_prefetch has been asked about. *)
LEMMA AskedIsJust ==
  ASSUME NEW f \in PossibleFaults, NEW x \in Signals \cup {"oops"},
         x = "oops" => ~f.user, x \in Signals => f.user,
         NEW w \in Asked(f, x)
  PROVE  Just(w)
<1>1. PICK s \in SightsOf(f), y \in {x, "erratum"} :
         w = Fate(IF IsPrefetch(f, s) THEN "ignored" ELSE y, Looks(f, s) /\ s.there, f)
  BY DEF Asked
<1>2. /\ w.what = IF IsPrefetch(f, s) THEN "ignored" ELSE y
      /\ w.user = f.user
      /\ w.prefetch = (Looks(f, s) /\ s.there)
  BY <1>1 DEF Fate
<1>3. IsPrefetch(f, s) <=> Looks(f, s) /\ s.there
  BY SightsAreTrue DEF IsPrefetch
<1>4. CASE IsPrefetch(f, s)
  <2>1. w.what = "ignored" /\ w.prefetch
    BY <1>2, <1>3, <1>4
  <2> QED
    BY <2>1 DEF Just
<1>5. CASE ~IsPrefetch(f, s)
  <2>1. w.what = y /\ ~w.prefetch /\ w.user = f.user
    BY <1>2, <1>3, <1>5
  <2> QED
    BY <2>1 DEF Just, Signals
<1> QED
  BY <1>4, <1>5

(* Ends for which nobody is asked are none that JustEnds speaks of. *)
LEMMA PlainIsJust ==
  ASSUME NEW f, NEW x \in {"fixup", "killed", "oom", "synced", "spurious"}
  PROVE  Just(Plain(x, f))
  BY DEF Just, Plain, Fate

(* pgtable_bad's oops. *)
LEMMA BadTableIsJust ==
  ASSUME NEW f, f.addr = "user" /\ f.rsvd
  PROVE  Just(Plain("oops", f))
  BY DEF Just, Plain, Fate

(* no_context, force_sig_info_fault and what leads there. *)
LEMMA FatesAreJust ==
  ASSUME NEW f \in PossibleFaults
  PROVE  /\ ~f.user => \A w \in NoContextFates(f) : Just(w)
         /\ f.user => \A sig \in Signals : \A w \in SignalFates(f, sig) : Just(w)
         /\ \A sig \in Signals : \A w \in BadAreaFates(f, sig) : Just(w)
         /\ \A w \in KilledFates(f) : Just(w)
         /\ \A r \in {"oom", "sigbus"} : \A w \in ErrorFates(f, r) : Just(w)
         /\ \A w \in KernelFates(f) : Just(w)
<1>1. ~f.user => \A w \in NoContextFates(f) : Just(w)
  BY AskedIsJust, PlainIsJust DEF NoContextFates, Signals
<1>2. f.user => \A sig \in Signals : \A w \in SignalFates(f, sig) : Just(w)
  BY AskedIsJust DEF SignalFates, Signals
<1>3. \A sig \in Signals : \A w \in BadAreaFates(f, sig) : Just(w)
  BY <1>1, <1>2 DEF BadAreaFates
<1>4. \A w \in KilledFates(f) : Just(w)
  BY <1>1, PlainIsJust DEF KilledFates
<1>5. \A r \in {"oom", "sigbus"} : \A w \in ErrorFates(f, r) : Just(w)
  BY <1>1, <1>2, PlainIsJust DEF ErrorFates, Signals
<1>6. \A w \in KernelFates(f) : Just(w)
  BY <1>3, PlainIsJust DEF KernelFates, Signals
<1> QED
  BY <1>1, <1>2, <1>3, <1>4, <1>5, <1>6

(* The faults that end before mmap_sem is asked for. *)
LEMMA EarlyEndsAreJust ==
  ASSUME NEW place \in {"idle", "kern"}
  PROVE  \A w \in KernelEnds[place] \cup PgtableEnds[place] \cup AtomicEnds[place] : Just(w)
<1>1. \A w \in KernelEnds[place] : Just(w)
  BY FatesAreJust DEF KernelEnds, EndsOf
<1>2. \A w \in PgtableEnds[place] : Just(w)
  BY BadTableIsJust DEF PgtableEnds, EndsOf
<1>3. \A w \in AtomicEnds[place] : Just(w)
  BY FatesAreJust DEF AtomicEnds, EndsOf, Signals
<1> QED
  BY <1>1, <1>2, <1>3

(* The record a thread without a fault keeps is a fault like any other. *)
LEMMA NoFaultPossible == NoFault \in PossibleFaults
<1> DEFINE f == [addr |-> "user", user |-> TRUE, write |-> FALSE, prot |-> FALSE,
                 instr |-> FALSE, rsvd |-> FALSE, exc |-> FALSE, atomic |-> FALSE]
<1>1. f \in PossibleFaults /\ f.addr = "user" /\ f.user
  BY DEF PossibleFaults, Possible, Faults
<1> QED
  BY <1>1 DEF NoFault

------------------------------------------------------------------------------
(* mmap_sem and the counts of a fault *)

Waiting == {"wantread", "wantwrite", "wait"}
PCs == {"idle", "kern", "wantread", "wantwrite", "wait", "area", "handle", "again", "dead"}

(* A thread that does not wait may go anywhere but into the queue. *)
LEMMA QueueSame ==
  ASSUME IInv, NEW t \in Threads, NEW s \in PCs, pc[t] \notin Waiting,
         Goto(t, s), waitq' = waitq
  PROVE  Queued'
<1>1. \A i \in 1..Len(waitq) : waitq[i] \in Threads
  BY ElementOfSeq DEF IInv, TypeOK
<1>2. \A i \in 1..Len(waitq) : waitq[i] # t
  BY DEF IInv, Queued, Waiting
<1> QED
  BY <1>1, <1>2 DEF IInv, TypeOK, Queued, Goto

(* It queues up behind the others. *)
LEMMA QueueJoin ==
  ASSUME IInv, NEW t \in Threads, NEW s \in Waiting, pc[t] \notin Waiting,
         Goto(t, s), Wait(t)
  PROVE  Queued' /\ waitq' \in Seq(Threads)
<1>1. /\ waitq \in Seq(Threads) /\ waitq' = Append(waitq, t)
      /\ \A i \in 1..Len(waitq) : waitq[i] \in Threads /\ waitq[i] # t
  BY ElementOfSeq DEF IInv, TypeOK, Queued, Waiting, Wait
<1>2. /\ waitq' \in Seq(Threads) /\ Len(waitq') = Len(waitq) + 1
      /\ \A i \in 1..Len(waitq) : waitq'[i] = waitq[i]
      /\ waitq'[Len(waitq) + 1] = t
  BY <1>1, AppendProperties
<1>3. Len(waitq) \in Nat
  BY <1>1
<1>4. ASSUME NEW i \in 1..Len(waitq')
      PROVE  pc'[waitq'[i]] \in Waiting
  BY <1>1, <1>2, <1>3 DEF IInv, TypeOK, Queued, Goto, Waiting
<1>5. ASSUME NEW i \in 1..Len(waitq'), NEW j \in 1..Len(waitq'), waitq'[i] = waitq'[j]
      PROVE  i = j
  BY <1>1, <1>2, <1>3, <1>5 DEF IInv, Queued
<1> QED
  BY <1>2, <1>4, <1>5 DEF Queued, Waiting

(* The first of the queue leaves it. *)
LEMMA QueueLeave ==
  ASSUME IInv, NEW t \in Threads, NEW s \in PCs,
         waitq # <<>>, t = Head(waitq), waitq' = Tail(waitq), Goto(t, s)
  PROVE  Queued' /\ waitq' \in Seq(Threads) /\ pc[t] \in Waiting
<1>1. /\ waitq \in Seq(Threads) /\ Len(waitq) \in Nat \ {0} /\ waitq[1] = t
      /\ \A i \in 1..Len(waitq) : waitq[i] \in Threads
  BY ElementOfSeq, EmptySeq DEF IInv, TypeOK
<1>2. /\ waitq' \in Seq(Threads) /\ Len(waitq') = Len(waitq) - 1
      /\ \A i \in 1..Len(waitq') : waitq'[i] = waitq[i + 1]
  BY <1>1, HeadTailProperties
<1>3. pc[t] \in Waiting
  BY <1>1 DEF IInv, Queued, Waiting
<1>4. ASSUME NEW i \in 1..Len(waitq')
      PROVE  i + 1 \in 1..Len(waitq) /\ waitq'[i] # t
  BY <1>1, <1>2 DEF IInv, Queued
<1>5. ASSUME NEW i \in 1..Len(waitq')
      PROVE  pc'[waitq'[i]] \in Waiting
  BY <1>1, <1>2, <1>4 DEF IInv, TypeOK, Queued, Goto, Waiting
<1>6. ASSUME NEW i \in 1..Len(waitq'), NEW j \in 1..Len(waitq'), waitq'[i] = waitq'[j]
      PROVE  i = j
  BY <1>1, <1>2, <1>4, <1>6 DEF IInv, Queued
<1> QED
  BY <1>2, <1>3, <1>5, <1>6 DEF Queued, Waiting

(* At the start nobody holds the semaphore and nothing is counted. *)
LEMMA InitGood == Init => IInv /\ Outcomes
<1> SUFFICES ASSUME Init PROVE IInv /\ Outcomes
  OBVIOUS
<1>1. TypeOK
  BY NoFaultPossible DEF Init, TypeOK, Mappings
<1>2. (\A t \in Threads : Holds(t) /\ Attempts(t)) /\ Queued /\ HookSeesMapping
  BY DEF Init, Holds, Attempts, Queued, HookSeesMapping
<1>3. Outcomes
  BY DEF Init, Outcomes, ReportedAndAccounted, JustEnds, Ended, NoFate, Plain, Fate
<1> QED
  BY <1>1, <1>2, <1>3 DEF IInv, Init

(* What a step records about ends of faults. *)
LEMMA QuietOutcome == GoesOn => Outcomes'
  BY DEF GoesOn, Outcomes, ReportedAndAccounted, JustEnds, Ended, NoFate, Plain, Fate

LEMMA JustOutcome ==
  ASSUME NEW w, Just(w), NEW c, NEW n, NEW r, last' = Ended(w, c, n, r)
  PROVE  Outcomes'
  BY DEF Outcomes, ReportedAndAccounted, JustEnds, Ended, Just

(* A fault that takes no lock leaves the semaphore to those who hold it, *)
(* the dead included.                                                     *)
LEMMA EndAtOnceKeeps ==
  ASSUME IInv, NEW t \in Threads, pc[t] \in {"idle", "kern"}, NEW w, Just(w),
         EndAtOnce(t, w)
  PROVE  IInv' /\ Outcomes'
<1> DEFINE s == IF w.what = "oops" THEN "dead" ELSE pc[t]
<1>1. s \in PCs /\ (s = "dead" \/ s = pc[t]) /\ Goto(t, s)
  BY DEF EndAtOnce, PCs
<1> HIDE DEF s
<1> USE DEF EndAtOnce, faultVars, semVars
<1>2. TypeOK'
  BY <1>1 DEF IInv, TypeOK, Goto, PCs
<1>3. Queued'
  BY <1>1, QueueSame DEF Waiting
<1>4. ASSUME NEW u \in Threads
      PROVE  (Holds(u) /\ Attempts(u))'
  BY <1>1 DEF IInv, TypeOK, Holds, Attempts, FromCall, Goto
<1>5. HookSeesMapping'
  BY <1>1 DEF IInv, TypeOK, HookSeesMapping, Goto
<1>6. Outcomes'
  BY JustOutcome
<1> QED
  BY <1>2, <1>3, <1>4, <1>5, <1>6 DEF IInv

(* up_read at the end of a fault gives back the one lock it took. *)
LEMMA EndKeeps ==
  ASSUME IInv, NEW t \in Threads, pc[t] \in {"area", "handle"},
         NEW w, NEW n, End(t, w, n), UpRead(t), UNCHANGED mem \/ ExpandStack
  PROVE  IInv'
<1> DEFINE s == IF w.what = "oops" THEN "dead" ELSE home[t]
<1>1. s \in {"dead", "idle", "kern"} /\ (s = "dead" \/ s = home[t]) /\ Goto(t, s)
  BY DEF End, IInv, TypeOK
<1> HIDE DEF s
<1> USE DEF End, UpRead
<1>2. /\ reads[t] = FromCall(t) + 1 /\ FromCall(t) \in 0..1
      /\ reads' = [reads EXCEPT ![t] = FromCall(t)]
  <2>1. reads[t] = FromCall(t) + 1 /\ FromCall(t) \in 0..1
    BY DEF IInv, Holds, FromCall
  <2>2. reads[t] - 1 = FromCall(t)
    BY <2>1
  <2> QED
    BY <2>1, <2>2
<1>3. writer = None
  BY <1>2 DEF IInv, TypeOK
<1>4. mem' \in Mappings /\ mem'.rights = mem.rights /\ (mem.kind = "area" => mem' = mem)
  BY DEF IInv, TypeOK, Mappings, NoMem, ExpandStack
<1>5. TypeOK'
  BY <1>1, <1>2, <1>4, NoFaultPossible DEF IInv, TypeOK, Goto
<1>6. Queued'
  BY <1>1, QueueSame DEF Waiting, PCs
<1>7. ASSUME NEW u \in Threads
      PROVE  (Holds(u) /\ Attempts(u))'
  <2>1. CASE u = t
    BY <1>1, <1>2, <1>3, <2>1 DEF IInv, TypeOK, Holds, Attempts, FromCall, Goto
  <2>2. CASE u # t
    BY <1>1, <1>2, <1>3, <2>2 DEF IInv, TypeOK, Holds, Attempts, FromCall, Goto
  <2> QED
    BY <2>1, <2>2
<1>8. HookSeesMapping'
  BY <1>1, <1>2, <1>4 DEF IInv, TypeOK, HookSeesMapping, Goto, AccessError
<1> QED
  BY <1>3, <1>5, <1>6, <1>7, <1>8 DEF IInv
(* __down_read and __down_write of the first waiter. *)
LEMMA WakeKeeps ==
  ASSUME IInv, NEW t \in Threads, Wake(t)
  PROVE  IInv' /\ Outcomes'
<1> DEFINE s == IF pc[t] = "wait" THEN "area" ELSE "kern"
<1>1. s \in PCs /\ Goto(t, s) /\ waitq # <<>> /\ t = Head(waitq) /\ waitq' = Tail(waitq)
  BY DEF Wake, PCs
<1>2. Queued' /\ waitq' \in Seq(Threads) /\ pc[t] \in Waiting
  BY <1>1, QueueLeave
<1> USE DEF Wake, faultVars
<1>3. writer = None /\ reads[t] \in 0..1
  BY <1>2 DEF IInv, TypeOK, Holds, FromCall, Waiting
<1>4. TypeOK'
  <2>1. pc' \in [Threads -> PCs]
    BY <1>1 DEF IInv, TypeOK, Goto, PCs
  <2>2. reads' \in [Threads -> 0..2] /\ writer' \in Threads \cup {None}
    BY <1>3 DEF IInv, TypeOK
  <2> QED
    BY <1>2, <2>1, <2>2 DEF IInv, TypeOK, PCs
<1>5. writer' # None => \A u \in Threads : reads'[u] = 0
  BY <1>3 DEF IInv
<1>6. ASSUME NEW u \in Threads
      PROVE  (Holds(u) /\ Attempts(u))'
  <2>1. CASE u = t
    BY <1>2, <1>3, <2>1 DEF IInv, TypeOK, Holds, Attempts, FromCall, Goto, Waiting
  <2>2. CASE u # t
    BY <1>2, <1>3, <2>2 DEF IInv, TypeOK, Holds, Attempts, FromCall, Goto
  <2> QED
    BY <2>1, <2>2
<1>7. HookSeesMapping'
  <2> SUFFICES ASSUME NEW u \in Threads, pc'[u] = "handle"
               PROVE  /\ reads'[u] > 0 /\ writer' = None
                      /\ mem'.kind = "area" /\ ~AccessError(flt'[u], mem'.rights)
    BY DEF HookSeesMapping, AccessError
  <2>1. u # t /\ pc[u] = "handle" /\ mem' = mem /\ flt' = flt
    BY DEF IInv, TypeOK, Goto
  <2>2. reads[u] > 0 /\ mem.kind = "area" /\ ~AccessError(flt[u], mem.rights)
    BY <2>1 DEF IInv, HookSeesMapping
  <2>3. writer' = None /\ reads'[u] = reads[u]
    BY <1>3, <2>1, <2>2 DEF IInv, TypeOK
  <2> QED
    BY <2>1, <2>2, <2>3
<1>8. Outcomes'
  BY QuietOutcome
<1> QED
  BY <1>2, <1>4, <1>5, <1>6, <1>7, <1>8 DEF IInv

(* A system call takes mmap_sem, or queues up for it ... *)
LEMMA SysLockKeeps ==
  ASSUME IInv, NEW t \in Threads, SysLock(t)
  PROVE  IInv' /\ Outcomes'
<1> USE DEF SysLock, faultVars
<1>1. pc[t] = "idle" /\ reads[t] = 0 /\ writer # t
  BY DEF IInv, Holds
<1>2. Queued' /\ waitq' \in Seq(Threads)
  <2>1. CASE Wait(t) /\ (Goto(t, "wantread") \/ Goto(t, "wantwrite"))
    BY <1>1, <2>1, QueueJoin DEF Waiting
  <2>2. CASE Goto(t, "kern") /\ waitq' = waitq
    BY <1>1, <2>2, QueueSame DEF Waiting, PCs, IInv, TypeOK
  <2> QED
    BY <2>1, <2>2 DEF Got
<1>3. ReadFree => writer = None
  BY DEF ReadFree
<1>4. WriteFree => writer = None /\ \A u \in Threads : reads[u] = 0
  BY DEF WriteFree, ReadFree
<1>5. \/ writer = None /\ Got(t) /\ Goto(t, "kern")
      \/ Wait(t) /\ (Goto(t, "wantread") \/ Goto(t, "wantwrite"))
      \/ /\ writer = None /\ \A u \in Threads : reads[u] = 0
         /\ writer' = t /\ Goto(t, "kern") /\ UNCHANGED <<reads, waitq>>
  BY <1>3, <1>4
<1>6. TypeOK'
  BY <1>1, <1>2, <1>5 DEF IInv, TypeOK, Goto, Got, Wait
<1>7. writer' # None => \A u \in Threads : reads'[u] = 0
  BY <1>5 DEF IInv, Got, Wait
<1>8. ASSUME NEW u \in Threads
      PROVE  (Holds(u) /\ Attempts(u))'
  <2>1. CASE u = t
    BY <1>1, <1>5, <2>1 DEF IInv, TypeOK, Holds, Attempts, FromCall, Goto, Got, Wait
  <2>2. CASE u # t
    BY <1>5, <2>2 DEF IInv, TypeOK, Holds, Attempts, FromCall, Goto, Got, Wait
  <2> QED
    BY <2>1, <2>2
<1>9. HookSeesMapping'
  <2> SUFFICES ASSUME NEW u \in Threads, pc'[u] = "handle"
               PROVE  /\ reads'[u] > 0 /\ writer' = None
                      /\ mem'.kind = "area" /\ ~AccessError(flt'[u], mem'.rights)
    BY DEF HookSeesMapping, AccessError
  <2>1. u # t /\ pc[u] = "handle" /\ mem' = mem /\ flt' = flt
    BY <1>5 DEF IInv, TypeOK, Goto
  <2>2. reads[u] > 0 /\ writer = None /\ mem.kind = "area" /\ ~AccessError(flt[u], mem.rights)
    BY <2>1 DEF IInv, HookSeesMapping
  <2>3. writer' = None /\ reads'[u] = reads[u]
    BY <1>5, <2>1, <2>2 DEF IInv, TypeOK, Got, Wait
  <2> QED
    BY <2>1, <2>2, <2>3
<1>10. Outcomes'
  BY QuietOutcome
<1> QED
  BY <1>2, <1>6, <1>7, <1>8, <1>9, <1>10 DEF IInv

(* ... and gives back what it took; only the writer changes the mapping. *)
LEMMA SysUnlockKeeps ==
  ASSUME IInv, NEW t \in Threads, SysUnlock(t)
  PROVE  IInv' /\ Outcomes'
<1> USE DEF SysUnlock, faultVars, UpRead
<1>1. pc[t] = "kern" /\ (reads[t] = 1 <=> writer # t) /\ Goto(t, "idle")
  BY DEF IInv, Holds
<1>2. TypeOK'
  BY <1>1 DEF IInv, TypeOK, Goto
<1>3. Queued'
  BY <1>1, QueueSame DEF Waiting, PCs
<1>4. writer' # None => \A u \in Threads : reads'[u] = 0
  BY <1>1 DEF IInv, TypeOK
<1>5. ASSUME NEW u \in Threads
      PROVE  (Holds(u) /\ Attempts(u))'
  <2>1. CASE u = t
    BY <1>1, <2>1 DEF IInv, TypeOK, Holds, Attempts, FromCall, Goto
  <2>2. CASE u # t
    BY <1>1, <2>2 DEF IInv, TypeOK, Holds, Attempts, FromCall, Goto
  <2> QED
    BY <2>1, <2>2
<1>6. HookSeesMapping'
  <2> SUFFICES ASSUME NEW u \in Threads, pc'[u] = "handle"
               PROVE  /\ reads'[u] > 0 /\ writer' = None
                      /\ mem'.kind = "area" /\ ~AccessError(flt'[u], mem'.rights)
    BY DEF HookSeesMapping, AccessError
  <2>1. u # t /\ pc[u] = "handle" /\ flt' = flt
    BY <1>1 DEF IInv, TypeOK, Goto
  <2>2. reads[u] > 0 /\ writer = None /\ mem.kind = "area" /\ ~AccessError(flt[u], mem.rights)
    BY <2>1 DEF IInv, HookSeesMapping
  <2>3. writer' = None /\ reads'[u] = reads[u] /\ mem' = mem
    BY <2>1, <2>2 DEF IInv, TypeOK
  <2> QED
    BY <2>1, <2>2, <2>3
<1>7. Outcomes'
  BY QuietOutcome
<1> QED
  BY <1>2, <1>3, <1>4, <1>5, <1>6, <1>7 DEF IInv

(* The first down_read of a fault, by trylock or in the queue. *)
LEMMA LockFaultKeeps ==
  ASSUME IInv, NEW t \in Threads, NEW f \in PossibleFaults, LockFault(t, f)
  PROVE  IInv' /\ Outcomes'
<1>1. pc[t] \in {"idle", "kern"} /\ (pc[t] = "kern" => ~MayWait(f))
  BY DEF LockFault, MayFault, MayWait
<1>2. CASE \E w \in BadAreaFates(f, "maperr") : EndAtOnce(t, w)
  BY <1>1, <1>2, FatesAreJust, EndAtOnceKeeps DEF Signals
<1>3. CASE /\ Begin(t, f)
           /\ \/ writer = None /\ Got(t) /\ Goto(t, "area")
              \/ pc[t] = "idle" /\ Wait(t) /\ Goto(t, "wait")
  <2> USE DEF Begin
  <2>1. Queued' /\ waitq' \in Seq(Threads)
    <3>1. CASE Wait(t) /\ Goto(t, "wait")
      BY <1>1, <3>1, QueueJoin DEF Waiting
    <3>2. CASE Goto(t, "area") /\ waitq' = waitq
      BY <1>1, <3>2, QueueSame DEF Waiting, PCs, IInv, TypeOK
    <3> QED
      BY <1>3, <3>1, <3>2 DEF Got
  <2>2. reads[t] \in 0..1 /\ (writer = None => reads[t] = IF pc[t] = "kern" THEN 1 ELSE 0)
    BY <1>1 DEF IInv, Holds, TypeOK
  <2>3. pc' \in [Threads -> PCs] /\ reads' \in [Threads -> 0..2]
        /\ home' \in [Threads -> {"idle", "kern"}]
    BY <1>1, <1>3, <2>2 DEF IInv, TypeOK, Goto, Got, Wait, PCs
  <2>4. TypeOK'
    BY <1>3, <2>1, <2>3 DEF IInv, TypeOK, PCs, Got, Wait
  <2>5. writer' # None => \A u \in Threads : reads'[u] = 0
    BY <1>3 DEF IInv, Got, Wait
  <2>6. ASSUME NEW u \in Threads
        PROVE  (Holds(u) /\ Attempts(u))'
    <3>1. CASE u = t
      BY <1>1, <1>3, <2>2, <3>1 DEF IInv, TypeOK, Holds, Attempts, FromCall, Goto, Got, Wait
    <3>2. CASE u # t
      BY <1>3, <3>2 DEF IInv, TypeOK, Holds, Attempts, FromCall, Goto, Got, Wait
    <3> QED
      BY <3>1, <3>2
  <2>7. HookSeesMapping'
    <3> SUFFICES ASSUME NEW u \in Threads, pc'[u] = "handle"
                 PROVE  /\ reads'[u] > 0 /\ writer' = None
                        /\ mem'.kind = "area" /\ ~AccessError(flt'[u], mem'.rights)
      BY DEF HookSeesMapping, AccessError
    <3>1. u # t /\ pc[u] = "handle" /\ mem' = mem
      BY <1>3 DEF IInv, TypeOK, Goto
    <3>2. reads[u] > 0 /\ writer = None /\ mem.kind = "area"
          /\ ~AccessError(flt[u], mem.rights)
      BY <3>1 DEF IInv, HookSeesMapping
    <3>3. writer' = None /\ reads'[u] = reads[u] /\ flt'[u] = flt[u]
      BY <1>3, <3>1, <3>2 DEF IInv, TypeOK, Got, Wait
    <3> QED
      BY <3>1, <3>2, <3>3
  <2>8. Outcomes'
    BY <1>3, QuietOutcome
  <2> QED
    BY <2>1, <2>4, <2>5, <2>6, <2>7, <2>8 DEF IInv
<1> QED
  BY <1>1, <1>2, <1>3 DEF LockFault, ReadFree

(* down_read of the second attempt. *)
LEMMA AgainKeeps ==
  ASSUME IInv, NEW t \in Threads, Again(t)
  PROVE  IInv' /\ Outcomes'
<1> USE DEF Again, faultVars
<1>1. pc[t] = "again" /\ reads[t] = FromCall(t) /\ FromCall(t) \in 0..1 /\ writer # t
  BY DEF IInv, Holds, FromCall
<1>2. \/ writer = None /\ Got(t) /\ Goto(t, "area")
      \/ Wait(t) /\ Goto(t, "wait")
  BY DEF ReadFree
<1>3. Queued' /\ waitq' \in Seq(Threads)
  <2>1. CASE Wait(t) /\ Goto(t, "wait")
    BY <1>1, <2>1, QueueJoin DEF Waiting
  <2>2. CASE Goto(t, "area") /\ waitq' = waitq
    BY <1>1, <2>2, QueueSame DEF Waiting, PCs, IInv, TypeOK
  <2> QED
    BY <1>2, <2>1, <2>2 DEF Got
<1>4. TypeOK'
  <2>1. pc' \in [Threads -> PCs] /\ reads' \in [Threads -> 0..2] /\ writer' = writer
    BY <1>1, <1>2, SMTT(30) DEF IInv, TypeOK, Goto, Got, Wait, PCs
  <2> QED
    BY <1>3, <2>1 DEF IInv, TypeOK, PCs
<1>5. writer' # None => \A u \in Threads : reads'[u] = 0
  BY <1>2 DEF IInv, Got, Wait
<1>6. ASSUME NEW u \in Threads
      PROVE  (Holds(u) /\ Attempts(u))'
  <2>1. CASE u = t
    BY <1>1, <1>2, <2>1 DEF IInv, TypeOK, Holds, Attempts, FromCall, Goto, Got, Wait
  <2>2. CASE u # t
    BY <1>2, <2>2 DEF IInv, TypeOK, Holds, Attempts, FromCall, Goto, Got, Wait
  <2> QED
    BY <2>1, <2>2
<1>7. HookSeesMapping'
  <2> SUFFICES ASSUME NEW u \in Threads, pc'[u] = "handle"
               PROVE  /\ reads'[u] > 0 /\ writer' = None
                      /\ mem'.kind = "area" /\ ~AccessError(flt'[u], mem'.rights)
    BY DEF HookSeesMapping, AccessError
  <2>1. u # t /\ pc[u] = "handle" /\ mem' = mem /\ flt' = flt
    BY <1>2 DEF IInv, TypeOK, Goto
  <2>2. reads[u] > 0 /\ writer = None /\ mem.kind = "area" /\ ~AccessError(flt[u], mem.rights)
    BY <2>1 DEF IInv, HookSeesMapping
  <2>3. writer' = None /\ reads'[u] = reads[u]
    BY <1>2, <2>1, <2>2 DEF IInv, TypeOK, Got, Wait
  <2> QED
    BY <2>1, <2>2, <2>3
<1>8. Outcomes'
  BY QuietOutcome
<1> QED
  BY <1>3, <1>4, <1>5, <1>6, <1>7, <1>8 DEF IInv

(* find_vma, access_error and the hook. *)
LEMMA AreaKeeps ==
  ASSUME IInv, NEW t \in Threads, Area(t)
  PROVE  IInv' /\ Outcomes'
<1>1. pc[t] = "area" /\ (UNCHANGED mem \/ ExpandStack) /\ flt[t] \in PossibleFaults
  BY DEF Area, GoodArea, IInv, TypeOK
<1>2. CASE (\E w \in BadAreaFates(flt[t], "accerr") : End(t, w, acct[t])) /\ UpRead(t)
  <2>1. PICK w \in BadAreaFates(flt[t], "accerr") : End(t, w, acct[t])
    BY <1>2
  <2>2. Just(w)
    BY <1>1, FatesAreJust DEF Signals
  <2>3. Outcomes'
    BY <2>1, <2>2, JustOutcome DEF End
  <2> QED
    BY <1>1, <1>2, <2>1, <2>3, EndKeeps
<1>3. CASE /\ ~AccessError(flt[t], mem.rights)
           /\ hooks' = [hooks EXCEPT ![t] = IF @ < MaxHooks THEN @ + 1 ELSE @]
           /\ Goto(t, "handle") /\ GoesOn
           /\ UNCHANGED <<semVars, flt, home, retry, acct>>
  <2> USE DEF semVars
  <2>1. reads[t] = FromCall(t) + 1 /\ FromCall(t) \in 0..1 /\ writer = None
    BY <1>1 DEF IInv, TypeOK, Holds, FromCall
  <2>2. hooks[t] = acct[t] /\ acct[t] \in 0..1 /\ hooks' = [hooks EXCEPT ![t] = acct[t] + 1]
    <3>1. hooks[t] = acct[t] /\ acct[t] \in 0..1
      BY <1>1 DEF IInv, TypeOK, Attempts
    <3>2. (IF hooks[t] < MaxHooks THEN hooks[t] + 1 ELSE hooks[t]) = acct[t] + 1
      BY <3>1 DEF MaxHooks
    <3> QED
      BY <1>3, <3>1, <3>2
  <2>3. /\ mem' \in Mappings /\ mem'.rights = mem.rights /\ mem'.kind = "area"
        /\ mem.kind = "area" => mem' = mem
    BY DEF Area, GoodArea, ExpandStack, IInv, TypeOK, Mappings, NoMem
  <2>4. TypeOK'
    BY <1>3, <2>2, <2>3 DEF IInv, TypeOK, Goto
  <2>5. Queued'
    BY <1>1, <1>3, QueueSame DEF Waiting, PCs
  <2>6. ASSUME NEW u \in Threads
        PROVE  (Holds(u) /\ Attempts(u))'
    <3>1. CASE u = t
      BY <1>1, <1>3, <2>1, <2>2, <3>1 DEF IInv, TypeOK, Holds, Attempts, FromCall, Goto
    <3>2. CASE u # t
      BY <1>3, <2>2, <3>2 DEF IInv, TypeOK, Holds, Attempts, FromCall, Goto
    <3> QED
      BY <3>1, <3>2
  <2>7. HookSeesMapping'
    <3> SUFFICES ASSUME NEW u \in Threads, pc'[u] = "handle"
                 PROVE  /\ reads'[u] > 0 /\ writer' = None
                        /\ mem'.kind = "area" /\ ~AccessError(flt'[u], mem'.rights)
      BY DEF HookSeesMapping, AccessError
    <3>1. CASE u = t
      BY <1>3, <2>1, <2>3, <3>1
    <3>2. CASE u # t
      <4>1. pc[u] = "handle"
        BY <1>3, <3>2 DEF IInv, TypeOK, Goto
      <4> QED
        BY <1>3, <2>3, <4>1 DEF IInv, HookSeesMapping
    <3> QED
      BY <3>1, <3>2
  <2>8. Outcomes'
    BY <1>3, QuietOutcome
  <2> QED
    BY <1>3, <2>4, <2>5, <2>6, <2>7, <2>8 DEF IInv
<1> QED
  BY <1>2, <1>3 DEF Area

(* handle_mm_fault gives the lock back to wait for the page, once. *)
LEMMA HandleRetryKeeps ==
  ASSUME IInv, NEW t \in Threads, HandleRetry(t)
  PROVE  IInv' /\ Outcomes'
<1>1. pc[t] = "handle" /\ retry[t] /\ UpRead(t) /\ UNCHANGED mem /\ flt[t] \in PossibleFaults
  BY DEF HandleRetry, MayRetry, IInv, TypeOK
<1>2. CASE \E w \in KilledFates(flt[t]) : End(t, w, acct[t])
  <2>1. PICK w \in KilledFates(flt[t]) : End(t, w, acct[t])
    BY <1>2
  <2>2. Just(w)
    BY <1>1, FatesAreJust
  <2>3. Outcomes'
    BY <2>1, <2>2, JustOutcome DEF End
  <2> QED
    BY <1>1, <2>1, <2>3, EndKeeps
<1>3. CASE /\ acct' = [acct EXCEPT ![t] = Account(t)]
           /\ retry' = [retry EXCEPT ![t] = FALSE]
           /\ Goto(t, "again") /\ GoesOn
           /\ UNCHANGED <<flt, home, hooks>>
  <2>1. /\ reads[t] = FromCall(t) + 1 /\ FromCall(t) \in 0..1 /\ writer = None
        /\ UNCHANGED <<writer, waitq>>
    BY <1>1 DEF IInv, TypeOK, Holds, FromCall, UpRead
  <2>2. reads' = [reads EXCEPT ![t] = FromCall(t)]
    <3>1. reads[t] - 1 = FromCall(t)
      BY <2>1
    <3> QED
      BY <1>1, <3>1 DEF UpRead
  <2>3. hooks[t] = 1 /\ acct' = [acct EXCEPT ![t] = 1]
    <3>1. acct[t] = 0 /\ hooks[t] = 1
      BY <1>1 DEF IInv, Attempts
    <3>2. Account(t) = 1
      BY <1>1, <3>1 DEF Account
    <3> QED
      BY <1>3, <3>1, <3>2
  <2>4. TypeOK'
    BY <1>1, <1>3, <2>1, <2>2, <2>3 DEF IInv, TypeOK, Goto
  <2>5. Queued'
    BY <1>1, <1>3, <2>1, QueueSame DEF Waiting, PCs
  <2>6. ASSUME NEW u \in Threads
        PROVE  (Holds(u) /\ Attempts(u))'
    <3>1. CASE u = t
      BY <1>1, <1>3, <2>1, <2>2, <2>3, <3>1
      DEF IInv, TypeOK, Holds, Attempts, FromCall, Goto
    <3>2. CASE u # t
      BY <1>3, <2>1, <2>2, <2>3, <3>2 DEF IInv, TypeOK, Holds, Attempts, FromCall, Goto
    <3> QED
      BY <3>1, <3>2
  <2>7. HookSeesMapping'
    BY <1>1, <1>3, <2>1, <2>2 DEF IInv, TypeOK, HookSeesMapping, Goto, AccessError
  <2>8. Outcomes'
    BY <1>3, QuietOutcome
  <2> QED
    BY <2>1, <2>4, <2>5, <2>6, <2>7, <2>8 DEF IInv
<1> QED
  BY <1>2, <1>3 DEF HandleRetry

(* bad_area, and the other ends of a fault that holds the lock. *)
LEMMA ReleasingKeeps ==
  ASSUME IInv, NEW t \in Threads, BadArea(t) \/ HandleDone(t) \/ HandleError(t)
  PROVE  IInv' /\ Outcomes'
<1>1. /\ pc[t] \in {"area", "handle"} /\ UpRead(t) /\ UNCHANGED mem
      /\ flt[t] \in PossibleFaults
  BY DEF BadArea, HandleDone, HandleError, IInv, TypeOK
<1>2. CASE BadArea(t) \/ HandleError(t)
  <2>1. PICK w : End(t, w, acct[t]) /\ Just(w)
    BY <1>1, <1>2, FatesAreJust DEF BadArea, HandleError, Signals
  <2>2. Outcomes'
    BY <2>1, JustOutcome DEF End
  <2> QED
    BY <1>1, <2>1, <2>2, EndKeeps
<1>3. CASE HandleDone(t)
  <2> DEFINE w == Plain("resolved", flt[t])
  <2>1. pc[t] = "handle" /\ End(t, w, Account(t))
    BY <1>3 DEF HandleDone
  <2>2. IInv'
    BY <1>1, <2>1, EndKeeps
  <2>3. w.what = "resolved" /\ last' = Ended(w, hooks[t], Account(t), ~retry[t])
    BY <2>1 DEF Plain, Fate, End
  <2> HIDE DEF w
  <2>4. /\ last'.what = "resolved" /\ last'.acct = Account(t)
        /\ last'.hooks = hooks[t] /\ last'.retried = ~retry[t]
    BY <2>3 DEF Ended
  <2>5. retry[t] \in BOOLEAN /\ acct[t] = (IF retry[t] THEN 0 ELSE 1) /\ hooks[t] = acct[t] + 1
    BY <2>1 DEF IInv, TypeOK, Attempts
  <2>6. Account(t) = 1 /\ hooks[t] = IF ~retry[t] THEN 2 ELSE 1
    BY <2>5 DEF Account
  <2>7. Outcomes'
    BY <2>4, <2>6 DEF Outcomes, ReportedAndAccounted, JustEnds
  <2> QED
    BY <2>2, <2>7
<1> QED
  BY <1>2, <1>3

------------------------------------------------------------------------------
(* The invariant holds of every behaviour, whatever the number of threads: *)
(* who holds mmap_sem can be told from where each thread is, and the       *)
(* counts of a fault from its attempts.                                    *)
THEOREM FaultInvariant == Spec => [](IInv /\ Outcomes)
<1>1. Init => IInv /\ Outcomes
  BY InitGood
<1>2. ASSUME IInv /\ Outcomes, [Next]_vars
      PROVE  IInv' /\ Outcomes'
  <2>1. CASE UNCHANGED vars
    <3>1. IInv'
      BY <1>2, <2>1
      DEF vars, IInv, TypeOK, Holds, Attempts, FromCall, Queued, HookSeesMapping, AccessError
    <3>2. Outcomes'
      BY <1>2, <2>1 DEF vars, Outcomes, ReportedAndAccounted, JustEnds
    <3> QED
      BY <3>1, <3>2
  <2>2. ASSUME NEW t \in Threads, Fault(t)
        PROVE  IInv' /\ Outcomes'
    <3>1. CASE KernelAddress(t) \/ PgtableBad(t) \/ Atomic(t)
      <4>1. pc[t] \in {"idle", "kern"}
        BY <3>1 DEF KernelAddress, PgtableBad, Atomic
      <4>2. PICK w \in KernelEnds[pc[t]] \cup PgtableEnds[pc[t]] \cup AtomicEnds[pc[t]] :
               EndAtOnce(t, w)
        BY <3>1 DEF KernelAddress, PgtableBad, Atomic
      <4>3. Just(w)
        BY <4>1, EarlyEndsAreJust
      <4> QED
        BY <1>2, <4>1, <4>2, <4>3, EndAtOnceKeeps
    <3>2. CASE \E f \in PossibleFaults : LockFault(t, f)
      BY <1>2, <3>2, LockFaultKeeps
    <3> QED
      BY <2>2, <3>1, <3>2 DEF Fault
  <2>3. ASSUME NEW t \in Threads, Step(t)
        PROVE  IInv' /\ Outcomes'
    BY <1>2, <2>3, ReleasingKeeps, AreaKeeps, HandleRetryKeeps, AgainKeeps DEF Step
  <2>4. ASSUME NEW t \in Threads, SysLock(t) \/ SysUnlock(t) \/ Wake(t)
        PROVE  IInv' /\ Outcomes'
    BY <1>2, <2>4, SysLockKeeps, SysUnlockKeeps, WakeKeeps
  <2> QED
    BY <1>2, <2>1, <2>2, <2>3, <2>4 DEF Next
<1> QED
  BY <1>1, <1>2, PTL DEF Spec

(* do_page_fault releases mmap_sem once on every path, a stray kernel      *)
(* access never waits for its own lock, and kmalpage_do_page_fault is      *)
(* called for accesses the mapping allows, under the lock.                 *)
THEOREM LockKept == Spec => []LockDiscipline
<1>1. IInv => LockDiscipline
  <2> SUFFICES ASSUME IInv PROVE LockDiscipline
    OBVIOUS
  <2>1. TypeOK /\ HookSeesMapping
    BY DEF IInv
  <2>2. SemBalanced
    BY DEF IInv, Holds, SemBalanced
  <2>3. NoSelfWait
    BY DEF IInv, Holds, Attempts, FromCall, NoSelfWait
  <2> QED
    BY <2>1, <2>2, <2>3 DEF LockDiscipline
<1> QED
  BY <1>1, FaultInvariant, PTL

(* A resolved fault was reported once per attempt and accounted once; only *)
(* kernel code oopses, or an address with reserved bits in its tables; no  *)
(* signal and no other oops is given for a prefetch whose bytes is_prefetch *)
(* can read below TASK_SIZE.                                               *)
THEOREM FaultsEndWell == Spec => []Outcomes
  BY FaultInvariant, PTL
==============================================================================
