------------------------------- MODULE PageFault -------------------------------
(***************************************************************************)
(* do_page_fault (arch/x86/mm/fault.c) with the malpage hook: threads of    *)
(* one process fault, in user mode and inside the kernel, while others map  *)
(* and unmap memory under mmap_sem, a fair read-write semaphore.            *)
(*                                                                          *)
(* One address is looked at; mem is what the process has mapped there.      *)
(***************************************************************************)
EXTENDS Integers, Sequences

CONSTANTS
  Threads,   \* threads of the process
  None       \* no thread

ASSUME NoneAssumption == None \notin Threads

VARIABLES
  pc,       \* where each thread is
  flt,      \* the fault it handles: error code, mode, context
  home,     \* where the thread goes on after the fault
  retry,    \* FAULT_FLAG_ALLOW_RETRY still set
  reads,    \* how often each thread holds mmap_sem for reading
  writer,   \* thread that holds mmap_sem for writing, or None
  waitq,    \* threads queued for mmap_sem, in order
  mem,      \* the mapping at the address: kind and rights
  hooks,    \* calls of kmalpage_do_page_fault for this fault
  acct,     \* min_flt or maj_flt increments for this fault
  last      \* how a fault ended, if the last step ended one

vars == <<pc, flt, home, retry, reads, writer, waitq, mem, hooks, acct, last>>
semVars == <<reads, writer, waitq>>
faultVars == <<flt, home, retry, hooks, acct>>

\* A fault: addr is "user" or "kernel"; the error code's bits user, write,
\* prot, rsvd, instr; exc says that the instruction is in the exception table,
\* atomic that in_atomic() holds or the task has no mm.
Faults ==
  [addr : {"user", "kernel"}, user : BOOLEAN, write : BOOLEAN, prot : BOOLEAN,
   instr : BOOLEAN, rsvd : BOOLEAN, exc : BOOLEAN, atomic : BOOLEAN]

\* Faults the processor and the kernel can produce: user code is neither in
\* the exception table nor atomic, a fetch is no write, a reserved bit implies
\* a present page; for kernel addresses nobody asks whether it is atomic.
Possible(f) ==
  /\ f.user => ~f.exc /\ ~f.atomic
  /\ f.instr => ~f.write /\ ~f.exc
  /\ f.rsvd => f.prot
  /\ f.addr = "kernel" => ~f.atomic
PossibleFaults == {f \in Faults : Possible(f)}

NoMem == [kind |-> "none", rights |-> {}]
\* "area": a vma covers the address; "above": the next vma is a stack above it
\* that can grow down to it; "none": there is no such vma.
Mappings == {NoMem} \cup [kind : {"area", "above"}, rights : {{}, {"r"}, {"r", "w"}}]

NoFault == CHOOSE f \in PossibleFaults : f.addr = "user" /\ f.user


------------------------------------------------------------------------------
(* is_prefetch: the instruction at the faulting ip.  bytes are those that   *)
(* probe_kernel_address can read, up to the first it cannot; long tells     *)
(* that it is kernel code or user_64bit_mode; beyond that the ip is not     *)
(* below TASK_SIZE.                                                         *)

\* check_prefetch_opcode's table of prefixes.
PrefixByte(b, long) ==
  LET hi == b \div 16
      lo == b % 16
  IN \/ hi \in {2, 3} /\ lo % 8 = 6
     \/ hi = 4 /\ long
     \/ hi = 6 /\ (lo \div 4) % 4 = 1
     \/ hi = 15 /\ (lo = 0 \/ lo \div 2 = 1)

\* The loop skips prefixes, reads at most 15 bytes, and at the first that is no
\* prefix looks at the byte after it; a byte that cannot be read ends it.
PrefetchOpcode(bytes, long) ==
  \E n \in 0..14 :
    /\ n + 2 <= Len(bytes)
    /\ \A i \in 1..n : PrefixByte(bytes[i], long)
    /\ bytes[n + 1] = 15
    /\ bytes[n + 2] \in {13, 24}
\* Bytes a fault may find: none to be read; a prefetch, whole, behind prefixes,
\* behind REX, at the length limit, cut short; a load; a load whose second byte
\* looks like prefetch; a two-byte opcode.
Codes ==
  {<<>>, <<15, 13, 0>>, <<62, 102, 15, 24>>, <<72, 15, 13>>,
   <<102, 102, 102, 102, 102, 102, 102, 102, 102, 102, 102, 102, 102, 15, 24>>,
   <<15>>, <<62>>, <<139, 15, 13>>, <<15, 182>>}

\* What the processor means by a prefetch: the two opcodes behind any legacy
\* prefixes and, in 64-bit code, REX prefixes.
Legacy == {38, 46, 54, 62, 100, 101, 102, 103, 240, 242, 243}
Prefixes(long) == IF long THEN Legacy \cup 64..79 ELSE Legacy
PrefetchInstr(bytes, long) ==
  \E n \in 0..Len(bytes) - 2 :
    /\ \A i \in 1..n : bytes[i] \in Prefixes(long)
    /\ SubSeq(bytes, n + 1, n + 2) \in {<<15, 13>>, <<15, 24>>}

\* What the loop finds in the bytes and what is there to be found.
Sights ==
  {[long |-> m, beyond |-> far, found |-> PrefetchOpcode(bytes, m),
    there |-> PrefetchInstr(bytes, m)] :
     bytes \in Codes, m \in BOOLEAN, far \in BOOLEAN}
SightsOf(f) == {s \in Sights : ~f.user => s.long}
\* The faults for which the bytes are looked at at all.
Looks(f, s) == ~f.instr /\ ~(f.user /\ s.beyond)
IsPrefetch(f, s) == Looks(f, s) /\ s.found

\* How a fault ends, whether a prefetch that can be seen caused it, its mode, and
\* whether a user address had reserved bits set in its tables.
Fate(w, seen, f) ==
  [what |-> w, user |-> f.user, prefetch |-> seen, rsvd |-> f.rsvd /\ f.addr = "user"]
Plain(w, f) == Fate(w, FALSE, f)
NoFate == Plain("none", NoFault)
\* The same with how often the hook was called and the fault accounted.
Ended(w, calls, n, again) ==
  [what |-> w.what, user |-> w.user, prefetch |-> w.prefetch, rsvd |-> w.rsvd,
   hooks |-> calls, acct |-> n, retried |-> again]

------------------------------------------------------------------------------
(* Ends of a fault that nothing maps. *)

\* is_prefetch is asked first; an erratum or a quirk may explain the fault too.
Asked(f, what) ==
  {Fate(IF IsPrefetch(f, s) THEN "ignored" ELSE w, Looks(f, s) /\ s.there, f) :
     s \in SightsOf(f), w \in {what, "erratum"}}

\* no_context: exception fixup, prefetch and errata, else an oops.
NoContextFates(f) == IF f.exc THEN {Plain("fixup", f)} ELSE Asked(f, "oops")

\* A signal for user mode, unless is_prefetch or a quirk (erratum 100, the
\* vsyscall page) explains the fault.
SignalFates(f, sig) == Asked(f, sig)

\* __bad_area_nosemaphore.
BadAreaFates(f, sig) == IF f.user THEN SignalFates(f, sig) ELSE NoContextFates(f)

\* mm_fault_error when a fatal signal is pending.
KilledFates(f) == IF f.user THEN {Plain("killed", f)} ELSE NoContextFates(f)

\* mm_fault_error for what handle_mm_fault reports.
ErrorFates(f, r) ==
  CASE r = "oom"    -> IF f.user THEN {Plain("oom", f)} ELSE NoContextFates(f)
    [] r = "sigbus" -> IF f.user THEN SignalFates(f, "sigbus") ELSE NoContextFates(f)

\* spurious_fault over the reference tables of init_mm: k tells at which level
\* the address is mapped, and what that entry and its pmd allow.
KernelTables == [level : {"none", "pud", "pmd", "pte"}, entry : SUBSET {"w", "x"},
                 pmd : SUBSET {"w", "x"}]
Allows(f, rights) == (f.write => "w" \in rights) /\ (f.instr => "x" \in rights)
SpuriousFault(f, k) ==
  /\ ~f.user /\ ~f.rsvd
  /\ k.level # "none"
  /\ Allows(f, k.entry)
  /\ k.level = "pte" => Allows(f, k.pmd)

\* access_error.
AccessError(f, rights) ==
  IF f.write THEN "w" \notin rights
  ELSE f.prot \/ rights = {}

------------------------------------------------------------------------------
(* mmap_sem *)

ReadFree == writer = None /\ waitq = <<>>
WriteFree == ReadFree /\ \A t \in Threads : reads[t] = 0
Got(t) == reads' = [reads EXCEPT ![t] = @ + 1] /\ UNCHANGED <<writer, waitq>>
UpRead(t) == reads' = [reads EXCEPT ![t] = @ - 1] /\ UNCHANGED <<writer, waitq>>
Wait(t) == waitq' = Append(waitq, t) /\ UNCHANGED <<reads, writer>>
Goto(t, s) == pc' = [pc EXCEPT ![t] = s]
GoesOn == last' = Ended(NoFate, 0, 0, FALSE)     \* no fault ends in this step

Init ==
  /\ pc = [t \in Threads |-> "idle"]
  /\ flt = [t \in Threads |-> NoFault] /\ home = [t \in Threads |-> "idle"]
  /\ retry = [t \in Threads |-> FALSE]
  /\ reads = [t \in Threads |-> 0] /\ writer = None /\ waitq = <<>>
  /\ mem = NoMem
  /\ hooks = [t \in Threads |-> 0] /\ acct = [t \in Threads |-> 0]
  /\ last = Ended(NoFate, 0, 0, FALSE)

\* The first waiter gets the semaphore as soon as it is compatible.
Wake(t) ==
  /\ waitq # <<>> /\ t = Head(waitq) /\ writer = None
  /\ waitq' = Tail(waitq)
  /\ IF pc[t] = "wantwrite"
     THEN (\A u \in Threads : reads[u] = 0) /\ writer' = t /\ UNCHANGED reads
     ELSE reads' = [reads EXCEPT ![t] = @ + 1] /\ UNCHANGED writer
  /\ Goto(t, IF pc[t] = "wait" THEN "area" ELSE "kern") /\ GoesOn
  /\ UNCHANGED <<faultVars, mem>>

\* A system call takes mmap_sem for reading or for writing ...
SysLock(t) ==
  /\ pc[t] = "idle"
  /\ \/ ReadFree /\ Got(t) /\ Goto(t, "kern")
     \/ ~ReadFree /\ Wait(t) /\ Goto(t, "wantread")
     \/ WriteFree /\ writer' = t /\ Goto(t, "kern") /\ UNCHANGED <<reads, waitq>>
     \/ ~WriteFree /\ Wait(t) /\ Goto(t, "wantwrite")
  /\ GoesOn
  /\ UNCHANGED <<faultVars, mem>>

\* ... and releases it, having changed the mapping if it was the writer.
SysUnlock(t) ==
  /\ pc[t] = "kern" /\ Goto(t, "idle") /\ GoesOn
  /\ \/ writer = t /\ writer' = None /\ mem' \in Mappings /\ UNCHANGED <<reads, waitq>>
     \/ writer # t /\ UpRead(t) /\ UNCHANGED mem
  /\ UNCHANGED faultVars

------------------------------------------------------------------------------
(* do_page_fault *)

\* Code that holds mmap_sem touches user memory only by mistake or with
\* faults disabled.
MayFault(place, f) ==
  \/ place = "idle"
  \/ place = "kern" /\ ~f.user /\ (f.exc => f.atomic)
\* The ends that ends(f) gives the faults of a kind, by where they are raised.
EndsOf(kind(_), ends(_)) ==
  [place \in {"idle", "kern"} |->
     UNION {ends(f) : f \in {g \in PossibleFaults : MayFault(place, g) /\ kind(g)}}]

\* The fault ends where it was raised: no lock was taken.
EndAtOnce(t, w) ==
  /\ last' = Ended(w, 0, 0, FALSE)
  /\ Goto(t, IF w.what = "oops" THEN "dead" ELSE pc[t])
  /\ UNCHANGED <<faultVars, semVars, mem>>

\* A kernel address: synchronised by vmalloc_fault, spurious, or bad.
KernelFates(f) ==
  {w \in {Plain("synced", f)} : ~f.rsvd /\ ~f.user /\ ~f.prot}
    \cup {w \in {Plain("spurious", f)} : \E k \in KernelTables : SpuriousFault(f, k)}
    \cup {w \in BadAreaFates(f, "maperr") : \E k \in KernelTables : ~SpuriousFault(f, k)}
KernelEnds == EndsOf(LAMBDA f : f.addr = "kernel", KernelFates)
KernelAddress(t) ==
  /\ pc[t] \in {"idle", "kern"}
  /\ \E w \in KernelEnds[pc[t]] : EndAtOnce(t, w)

\* pgtable_bad: an oops, in user mode too.  (A notifier that stops it lets the
\* fault go on like the same one without the bit.)
PgtableEnds == EndsOf(LAMBDA f : f.addr = "user" /\ f.rsvd, LAMBDA f : {Plain("oops", f)})
PgtableBad(t) ==
  /\ pc[t] \in {"idle", "kern"}
  /\ \E w \in PgtableEnds[pc[t]] : EndAtOnce(t, w)

\* In an interrupt, in an atomic region, without an mm.
AtomicEnds == EndsOf(LAMBDA f : f.addr = "user" /\ f.atomic /\ ~f.rsvd,
                     LAMBDA f : BadAreaFates(f, "maperr"))
Atomic(t) ==
  /\ pc[t] \in {"idle", "kern"}
  /\ \E w \in AtomicEnds[pc[t]] : EndAtOnce(t, w)

\* Slip: everybody waits.
MayWait_Always(f) == TRUE
\* down_read_trylock; if it fails, kernel code outside the exception table is
\* not allowed to wait.
MayWait(f) == f.user \/ f.exc
Begin(t, f) ==
  /\ flt' = [flt EXCEPT ![t] = f] /\ home' = [home EXCEPT ![t] = pc[t]]
  /\ retry' = [retry EXCEPT ![t] = TRUE]
  /\ GoesOn
  /\ UNCHANGED <<mem, hooks, acct>>
LockFault(t, f) ==
  /\ f.addr = "user" /\ ~f.atomic /\ ~f.rsvd /\ MayFault(pc[t], f)
  /\ \/ ReadFree /\ Begin(t, f) /\ Got(t) /\ Goto(t, "area")
     \/ ~ReadFree /\ MayWait(f) /\ Begin(t, f) /\ Wait(t) /\ Goto(t, "wait")
     \/ /\ ~ReadFree /\ ~MayWait(f)
        /\ \E w \in BadAreaFates(f, "maperr") : EndAtOnce(t, w)

\* up_read and the end of the fault.
End(t, w, n) ==
  /\ last' = Ended(w, hooks[t], n, ~retry[t])
  /\ Goto(t, IF w.what = "oops" THEN "dead" ELSE home[t])
  /\ flt' = [flt EXCEPT ![t] = NoFault] /\ home' = [home EXCEPT ![t] = "idle"]
  /\ retry' = [retry EXCEPT ![t] = FALSE]
  /\ hooks' = [hooks EXCEPT ![t] = 0] /\ acct' = [acct EXCEPT ![t] = 0]

\* Calls of the hook are counted as far as this.
MaxHooks == 3
\* find_vma, expand_stack, access_error; then the malpage hook.
GoodArea == mem.kind = "area" /\ UNCHANGED mem
ExpandStack == mem.kind = "above" /\ mem' = [kind |-> "area", rights |-> mem.rights]
BadArea(t) ==
  /\ pc[t] = "area" /\ mem.kind # "area"
  /\ \E w \in BadAreaFates(flt[t], "maperr") : End(t, w, acct[t])
  /\ UpRead(t) /\ UNCHANGED mem
Area(t) ==
  /\ pc[t] = "area"
  /\ GoodArea \/ ExpandStack
  /\ IF AccessError(flt[t], mem.rights)
     THEN /\ \E w \in BadAreaFates(flt[t], "accerr") : End(t, w, acct[t])
          /\ UpRead(t)
     ELSE /\ hooks' = [hooks EXCEPT ![t] = IF @ < MaxHooks THEN @ + 1 ELSE @]
          /\ Goto(t, "handle") /\ GoesOn
          /\ UNCHANGED <<semVars, flt, home, retry, acct>>

\* Slip: every attempt is accounted.
Account_Always(t) == acct[t] + 1
\* The fault is accounted on the first attempt only.
Account(t) == IF retry[t] THEN acct[t] + 1 ELSE acct[t]

\* handle_mm_fault did it.
HandleDone(t) ==
  /\ pc[t] = "handle"
  /\ End(t, Plain("resolved", flt[t]), Account(t))
  /\ UpRead(t) /\ UNCHANGED mem

\* handle_mm_fault failed.
HandleError(t) ==
  /\ pc[t] = "handle"
  /\ \E r \in {"oom", "sigbus"} :
       \E w \in KilledFates(flt[t]) \cup ErrorFates(flt[t], r) : End(t, w, acct[t])
  /\ UpRead(t) /\ UNCHANGED mem

\* handle_mm_fault has released mmap_sem to wait for the page, which it does
\* only on the first attempt; a killed thread gives up.
MayRetry(t) == retry[t]
HandleRetry(t) ==
  /\ pc[t] = "handle" /\ MayRetry(t)
  /\ UpRead(t)
  /\ \/ \E w \in KilledFates(flt[t]) : End(t, w, acct[t])
     \/ /\ acct' = [acct EXCEPT ![t] = Account(t)]
        /\ retry' = [retry EXCEPT ![t] = FALSE]
        /\ Goto(t, "again") /\ GoesOn
        /\ UNCHANGED <<flt, home, hooks>>
  /\ UNCHANGED mem

\* Slip: trylock again and again, without a place in the queue.
Again_Polls(t) ==
  /\ pc[t] = "again" /\ ReadFree /\ Got(t) /\ Goto(t, "area")
  /\ GoesOn
  /\ UNCHANGED <<faultVars, mem>>
\* down_read of the second attempt.
Again(t) ==
  /\ pc[t] = "again"
  /\ \/ ReadFree /\ Got(t) /\ Goto(t, "area")
     \/ ~ReadFree /\ Wait(t) /\ Goto(t, "wait")
  /\ GoesOn
  /\ UNCHANGED <<faultVars, mem>>

------------------------------------------------------------------------------
Fault(t) ==
  \/ KernelAddress(t) \/ PgtableBad(t) \/ Atomic(t)
  \/ \E f \in PossibleFaults : LockFault(t, f)
Step(t) ==
  \/ BadArea(t) \/ Area(t) \/ HandleDone(t) \/ HandleError(t) \/ HandleRetry(t)
  \/ Again(t)

Next == \E t \in Threads :
  Fault(t) \/ Step(t) \/ SysLock(t) \/ SysUnlock(t) \/ Wake(t)
\* Threads dead of an oops may leave nothing to do.
Spec == Init /\ [][Next]_vars

\* Handlers go on, system calls end, the semaphore wakes its first waiter.
Fairness == \A t \in Threads :
  WF_vars(Step(t)) /\ WF_vars(Wake(t)) /\ SF_vars(SysUnlock(t))
FairSpec == Spec /\ Fairness
------------------------------------------------------------------------------
\* Every variable keeps its type.
TypeOK ==
  /\ pc \in [Threads -> {"idle", "kern", "wantread", "wantwrite", "wait", "area",
                           "handle", "again", "dead"}]
  /\ flt \in [Threads -> PossibleFaults] /\ home \in [Threads -> {"idle", "kern"}]
  /\ retry \in [Threads -> BOOLEAN]
  /\ reads \in [Threads -> 0..2] /\ writer \in Threads \cup {None}
  /\ waitq \in Seq(Threads)
  /\ mem \in Mappings
  /\ hooks \in [Threads -> 0..2] /\ acct \in [Threads -> 0..1]

\* Every path through do_page_fault leaves mmap_sem as it found it: whoever
\* released it (bad_area, out_of_memory, do_sigbus, mm_fault_error, the page
\* lock's wait), it is released once.
SemBalanced ==
  /\ writer # None => \A t \in Threads : reads[t] = 0
  /\ \A t \in Threads :
       /\ pc[t] \in {"idle", "wantread", "wantwrite"} => reads[t] = 0 /\ writer # t
       /\ pc[t] = "kern" => (reads[t] = 1 <=> writer # t)

\* The comment at down_read_trylock: a stray kernel access never waits for an
\* mmap_sem that its own thread holds.  (A thread that holds it for reading can
\* only meet that when handle_mm_fault asked for a second attempt.)
NoSelfWait ==
  \A t \in Threads : pc[t] = "wait" => writer # t /\ (reads[t] > 0 => ~retry[t])

\* The malpage hook reports accesses the mapping allows, under mmap_sem.
HookSeesMapping ==
  \A t \in Threads : pc[t] = "handle" =>
    /\ reads[t] > 0 /\ writer = None
    /\ mem.kind = "area" /\ ~AccessError(flt[t], mem.rights)

\* A fault that is resolved was reported by the hook once per attempt, and
\* accounted once whatever the attempts.
ReportedAndAccounted ==
  last.what = "resolved" =>
    last.acct = 1 /\ last.hooks = (IF last.retried THEN 2 ELSE 1)

\* An oops is given to kernel code only, unless reserved bits are set in the
\* tables of a user address (pgtable_bad), and signals to user code only.
\* Neither is given for a prefetch, behind whatever prefixes of its mode, if its
\* bytes can be read as far as the opcode and a user-mode ip is below TASK_SIZE;
\* and nothing but such a prefetch is ignored as one.
JustEnds ==
  /\ last.what = "oops" => last.rsvd \/ (~last.user /\ ~last.prefetch)
  /\ last.what \in {"maperr", "accerr", "sigbus"} => last.user /\ ~last.prefetch
  /\ last.what = "ignored" => last.prefetch

\* How do_page_fault treats mmap_sem: the four above together.
LockDiscipline == TypeOK /\ SemBalanced /\ NoSelfWait /\ HookSeesMapping

\* How faults end: the two above together.
Outcomes == ReportedAndAccounted /\ JustEnds

\* The inductive invariant behind both.  Who holds mmap_sem, told by where each
\* thread is: a fault raised inside a system call came on top of a read lock,
\* since with the write lock it would have ended at once.
FromCall(t) == IF home[t] = "kern" THEN 1 ELSE 0
Holds(t) ==
  /\ pc[t] \in {"idle", "wantread", "wantwrite"} => reads[t] = 0 /\ writer # t
  /\ pc[t] = "kern"               => (reads[t] = 1 <=> writer # t)
  /\ pc[t] \in {"wait", "again"}  => reads[t] = FromCall(t) /\ writer # t
  /\ pc[t] \in {"area", "handle"} => reads[t] = FromCall(t) + 1
  /\ pc[t] = "dead"               => reads[t] \in {0, 1}
\* Every queued thread waits for the semaphore, in one place of the queue.
Queued ==
  /\ \A i \in 1..Len(waitq) : pc[waitq[i]] \in {"wantread", "wantwrite", "wait"}
  /\ \A i, j \in 1..Len(waitq) : waitq[i] = waitq[j] => i = j
\* The attempts a fault has had, by its counts; no thread without one has any.
Attempts(t) ==
  /\ pc[t] \in {"wait", "area", "again"} => hooks[t] = acct[t]
  /\ pc[t] = "handle" => hooks[t] = acct[t] + 1
  /\ pc[t] \in {"wait", "area", "again", "handle"} => acct[t] = IF retry[t] THEN 0 ELSE 1
  /\ pc[t] \notin {"wait", "area", "again", "handle"} => hooks[t] = 0 /\ acct[t] = 0
  /\ pc[t] = "again" => ~retry[t]
  /\ pc[t] = "wait" /\ home[t] = "kern" => ~retry[t]
IInv ==
  /\ TypeOK
  /\ writer # None => \A t \in Threads : reads[t] = 0
  /\ \A t \in Threads : Holds(t) /\ Attempts(t)
  /\ Queued /\ HookSeesMapping

\* Every fault comes to an end, unless a thread died inside the kernel with
\* mmap_sem held or waits for itself after a second attempt.
Handling(t) == pc[t] \in {"wait", "area", "handle", "again"}
Stuck == \E t \in Threads :
  \/ pc[t] = "dead" /\ (reads[t] > 0 \/ writer = t)
  \/ pc[t] = "wait" /\ reads[t] > 0
FaultEnds == \A t \in Threads : Handling(t) ~> ~Handling(t) \/ Stuck
==============================================================================
