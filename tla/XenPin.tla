-------------------------------- MODULE XenPin --------------------------------
(***************************************************************************)
(* Life of the page tables of one process under Xen                        *)
(* (arch/x86/xen/mmu.c): how they are pinned when the process starts, kept  *)
(* consistent while it runs, unpinned when it exits, and pinned for a       *)
(* moment when the domain is saved.                                         *)
(*                                                                          *)
(* A table page has a flag (PagePinned) that the kernel sets at once, and   *)
(* two properties the hypervisor knows: its lowmem mapping is read-only or  *)
(* not, and it is pinned as a page table or not.  The hypervisor's side     *)
(* changes only when a CPU flushes its queue of multicalls.  64-bit kernel  *)
(* (a kernel pgd with a user pgd beside it, no highmem), split pte locks.   *)
(***************************************************************************)
EXTENDS Integers, FiniteSets, SequencesExt

CONSTANTS
  Cpus,      \* virtual CPUs
  Ptes,      \* pte pages below the process's one pmd
  MCBatch,   \* multicalls per batch (MC_BATCH)
  NoCpu

ASSUME XenPinAssumption ==
  /\ NoCpu \notin Cpus
  /\ MCBatch \in Nat \ {0, 1}
  /\ IsFiniteSet(Ptes) /\ Ptes \cap {"pgd", "upgd", "pud", "pmd"} = {}

Inner == {"pud", "pmd"} \cup Ptes     \* what hangs below the pgd
Tables == {"pgd", "upgd"} \cup Inner
Parent(p) == IF p = "pud" THEN "pgd" ELSE IF p = "pmd" THEN "pud" ELSE "pmd"

VARIABLES
  life,    \* where the address space is in its life
  boss,    \* CPU that builds it or tears it down
  flag,    \* pages with PagePinned set
  saved,   \* PageSavePinned of the pgd
  ptl,     \* holder of mm->page_table_lock
  pl,      \* holder of each pte page's own lock
  xen,     \* what the hypervisor has: ro, pin, tree, base, ubase, refused
  q,       \* multicalls each CPU has queued
  cb,      \* callbacks of each CPU's batch
  cur3,    \* xen_current_cr3 of each CPU
  mask,    \* mm_cpumask
  user,    \* CPUs whose current->mm is this mm
  active,  \* CPUs whose active_mm is this mm
  lazy,    \* CPUs with cpu_tlbstate.state = TLBSTATE_LAZY
  pc,      \* what each CPU is in the middle of
  tgt,     \* page it works on
  todo,    \* pages the pin or unpin walk has left
  ipi,     \* CPUs that have yet to run drop_other_mm_ref
  scan,    \* CPUs xen_drop_mm_ref has yet to look at, when it has no mask
  kmiss,   \* init_mm has a pgd entry (of a vmalloc area) that this pgd lacks
  oops     \* a plain store hit a page that was read-only and no page table

mmVars == <<life, boss, flag, saved, ptl>>
cpuVars == <<mask, user, active, lazy>>
dropVars == <<ipi, scan>>
vars == <<life, boss, flag, saved, ptl, pl, xen, q, cb, cur3, mask, user,
          active, lazy, pc, tgt, todo, ipi, scan, kmiss, oops>>

Swapper == "swapper"

------------------------------------------------------------------------------
(* The hypervisor, as the code relies on it. *)

\* Xen holds p as a page table: pinned, in use as a base, or below such a one.
Typed(x, p) ==
  LET root == "pgd" \in x.pin \/ \E c \in Cpus : x.base[c] = "pgd"
      uroot == "upgd" \in x.pin \/ \E c \in Cpus : x.ubase[c] = "upgd"
  IN CASE p = "pgd"  -> root
       [] p = "upgd" -> uroot
       [] OTHER      -> p \in x.pin \/ (p \in x.tree /\ (root \/ uroot))

\* All of the tree below root r (and r itself) is mapped read-only.
AllRO(x, r) == ({r} \cup x.tree) \subseteq x.ro

\* A multicall is [op, p] with p a page, or [op, p, c] for a base pointer.
Accepts(x, o) ==
  CASE o.op = "rw"    -> ~Typed(x, o.p)
    [] o.op = "pin"   -> /\ o.p \notin x.pin
                         /\ IF o.p \in Ptes THEN o.p \in x.ro ELSE AllRO(x, o.p)
    [] o.op = "unpin" -> o.p \in x.pin
    [] o.op \in {"base", "ubase"} -> o.p = Swapper \/ AllRO(x, o.p)
    [] o.op = "link"  -> Typed(x, Parent(o.p)) => o.p \in x.ro
    [] OTHER          -> TRUE

Effect(x, o) ==
  CASE o.op = "ro"     -> [x EXCEPT !.ro = @ \cup {o.p}]
    [] o.op = "rw"     -> [x EXCEPT !.ro = @ \ {o.p}]
    [] o.op = "pin"    -> [x EXCEPT !.pin = @ \cup {o.p}]
    [] o.op = "unpin"  -> [x EXCEPT !.pin = @ \ {o.p}]
    [] o.op = "base"   -> [x EXCEPT !.base[o.c] = o.p]
    [] o.op = "ubase"  -> [x EXCEPT !.ubase[o.c] = o.p]
    [] o.op = "link"   -> [x EXCEPT !.tree = @ \cup {o.p}]
    [] o.op = "unlink" -> [x EXCEPT !.tree = @ \ {o.p}]
    [] OTHER           -> x

Outcome(x, o) == IF Accepts(x, o) THEN Effect(x, o) ELSE [x EXCEPT !.refused = TRUE]
\* (The set of one element makes TLC evaluate x once.)
Exec(x, o) == CHOOSE y \in {Outcome(z, o) : z \in {x}} : TRUE
ExecAll(x, ops) ==
  LET run[n \in 0 .. Len(ops)] == IF n = 0 THEN x ELSE Exec(run[n - 1], ops[n])
  IN run[Len(ops)]

------------------------------------------------------------------------------
(* Queueing multicalls. *)

Op(o, p) == [op |-> o, p |-> p]

\* Of the ops in all, how many stay queued: a full batch is flushed when the
\* next multicall asks for room.
Kept(all) == IF all = <<>> THEN 0 ELSE ((Len(all) - 1) % MCBatch) + 1

\* The callbacks of a batch: xen_pte_unlock of a page, set_current_cr3.
Unlocked(locks, calls) ==
  [p \in Ptes |-> IF \E i \in DOMAIN calls : calls[i] = Op("unlock", p)
                  THEN NoCpu ELSE locks[p]]
CurrentCr3(c, calls) ==
  LET sets == {i \in DOMAIN calls : calls[i].op = "cr3"}
  IN IF sets = {} THEN cur3 ELSE [cur3 EXCEPT ![c] = calls[Max(sets)].p]

\* xen_mc_flush with ops and calls as the last ones of the batch; locks are the
\* pte locks as the step leaves them before the callbacks run.
FlushNow(c, ops, calls, locks) ==
  /\ xen' = ExecAll(xen, q[c] \o ops)
  /\ pl' = Unlocked(locks, cb[c] \o calls)
  /\ cur3' = CurrentCr3(c, cb[c] \o calls)
  /\ q' = [q EXCEPT ![c] = <<>>]
  /\ cb' = [cb EXCEPT ![c] = <<>>]

\* Queue ops one after the other, then the callbacks calls.
Enqueue(c, ops, calls, locks) ==
  LET all == q[c] \o ops
      done == Len(all) - Kept(all)
  IN /\ xen' = ExecAll(xen, SubSeq(all, 1, done))
     /\ q' = [q EXCEPT ![c] = SubSeq(all, done + 1, Len(all))]
     /\ pl' = IF done > 0 THEN Unlocked(locks, cb[c]) ELSE locks
     /\ cur3' = IF done > 0 THEN CurrentCr3(c, cb[c]) ELSE cur3
     /\ cb' = [cb EXCEPT ![c] = (IF done > 0 THEN <<>> ELSE @) \o calls]

\* xen_write_cr3: the kernel's base, its callback, and the user's base.
Cr3Ops(c, t) == <<[op |-> "base", p |-> t, c |-> c],
                  [op |-> "ubase", p |-> IF t = "pgd" THEN "upgd" ELSE t, c |-> c]>>
Cr3Call(t) == <<Op("cr3", t)>>
LoadCr3(c, t) == FlushNow(c, Cr3Ops(c, t), Cr3Call(t), pl)

------------------------------------------------------------------------------
Init ==
  /\ life = "none" /\ boss = NoCpu
  /\ flag = {} /\ saved = FALSE
  /\ ptl = NoCpu /\ pl = [p \in Ptes |-> NoCpu]
  /\ xen = [ro |-> {}, pin |-> {}, tree |-> {}, refused |-> FALSE,
            base |-> [c \in Cpus |-> Swapper], ubase |-> [c \in Cpus |-> Swapper]]
  /\ q = [c \in Cpus |-> <<>>] /\ cb = [c \in Cpus |-> <<>>]
  /\ cur3 = [c \in Cpus |-> Swapper]
  /\ mask = {} /\ user = {} /\ active = {} /\ lazy = {}
  /\ pc = [c \in Cpus |-> "run"] /\ tgt = [c \in Cpus |-> "pgd"]
  /\ todo = <<>> /\ ipi = {} /\ scan = {}
  /\ kmiss = FALSE /\ oops = FALSE

Goto(c, s) == pc' = [pc EXCEPT ![c] = s]
Running(c) == pc[c] = "run" /\ \A d \in Cpus : pc[d] # "saved"

\* xen_pgd_alloc, after which the pgd, with init_mm's kernel entries, is on
\* pgd_list (both pages are clean).
PgdAlloc(c) ==
  /\ Running(c) /\ life = "none"
  /\ life' = "build" /\ boss' = c
  /\ UNCHANGED <<flag, saved, ptl, pl, xen, q, cb, cur3, cpuVars, pc, tgt, todo, dropVars, kmiss, oops>>

\* xen_pgd_free, once no CPU borrows the mm any more.
PgdFree ==
  /\ life = "down" /\ xen.tree = {} /\ active = {}
  /\ Running(boss) /\ \A d \in Cpus : pc[d] # "sync"
  /\ life' = "none" /\ boss' = NoCpu /\ kmiss' = FALSE
  /\ UNCHANGED <<flag, saved, ptl, pl, xen, q, cb, cur3, cpuVars, pc, tgt, todo, dropVars, oops>>

------------------------------------------------------------------------------
(* Growing and shrinking the tree. *)

\* The builder, or a thread that faults, holds mmap_sem against Unlink.
MayGrow(c) ==
  /\ \/ life = "build" /\ c = boss
     \/ life = "live" /\ c \in user
  /\ \A d \in Cpus : pc[d] # "unlinked"

\* What xen_alloc_ptpage does to a page that joins a pinned tree.
AllocOps(p) ==
  IF "pgd" \in flag
  THEN <<Op("ro", p)>> \o (IF p \in Ptes THEN <<Op("pin", p)>> ELSE <<>>)
  ELSE <<>>
AllocFlag(p) == IF "pgd" \in flag THEN flag \cup {p} ELSE flag

\* __pte_alloc and its like: page_table_lock, then xen_alloc_pte/pmd/pud.
AllocTable(c, p) ==
  /\ Running(c) /\ MayGrow(c) /\ ptl = NoCpu
  /\ p \notin xen.tree
  /\ Parent(p) \in {"pgd"} \cup xen.tree
  /\ \A d \in Cpus : pc[d] = "filled" => tgt[d] # p
  /\ ptl' = c /\ flag' = AllocFlag(p)
  /\ FlushNow(c, AllocOps(p), <<>>, pl)
  /\ Goto(c, "filled") /\ tgt' = [tgt EXCEPT ![c] = p]
  /\ UNCHANGED <<life, boss, saved, cpuVars, todo, dropVars, kmiss, oops>>

\* xen_set_pmd, xen_set_pud, xen_set_pgd: a plain store when the page that
\* holds the entry is not flagged, a hypercall when it is (for the pgd, the
\* user pgd's entry goes the same way).
SetEntry(c, p, o) ==
  IF Parent(p) \notin flag
  THEN /\ xen' = Effect(xen, Op(o, p))
       /\ oops' = (oops \/ Parent(p) \in xen.ro
                        \/ (Parent(p) = "pgd" /\ "upgd" \in xen.ro))
       /\ UNCHANGED <<pl, q, cb, cur3>>
  ELSE FlushNow(c, <<Op(o, p)>>, <<>>, pl) /\ UNCHANGED oops

\* pmd_populate and its like: the entry is set, page_table_lock released.
Populate(c) ==
  /\ pc[c] = "filled"
  /\ SetEntry(c, tgt[c], "link")
  /\ ptl' = NoCpu
  /\ Goto(c, "run")
  /\ UNCHANGED <<life, boss, flag, saved, cpuVars, tgt, todo, dropVars, kmiss>>

\* free_pgtables, in munmap or at exit: the entry is cleared (no one reaches
\* the page through rmap any more) ...
Unlink(c, p) ==
  /\ Running(c)
  /\ \/ life = "live" /\ c \in user
     \/ life = "down" /\ c = boss
  /\ \A d \in Cpus : pc[d] \notin {"unlinked", "filled"}
  /\ p \in xen.tree
  /\ \A r \in xen.tree : Parent(r) # p
  /\ p \in Ptes => pl[p] = NoCpu
  /\ SetEntry(c, p, "unlink")
  /\ Goto(c, "unlinked") /\ tgt' = [tgt EXCEPT ![c] = p]
  /\ UNCHANGED <<mmVars, cpuVars, todo, dropVars, kmiss>>

\* ... and xen_release_ptpage gives the page back as ordinary memory.
ReleaseOps(p) ==
  IF p \in flag
  THEN (IF p \in Ptes THEN <<Op("unpin", p)>> ELSE <<>>) \o <<Op("rw", p)>>
  ELSE <<>>
Release(c) ==
  /\ pc[c] = "unlinked"
  /\ FlushNow(c, ReleaseOps(tgt[c]), <<>>, pl)
  /\ flag' = flag \ {tgt[c]}
  /\ Goto(c, "run")
  /\ UNCHANGED <<life, boss, saved, ptl, cpuVars, tgt, todo, dropVars, kmiss, oops>>

------------------------------------------------------------------------------
(* Kernel entries of the pgd, copied from init_mm on demand. *)

\* vmalloc puts a new table into init_mm.
VmallocNew ==
  /\ life # "none" /\ kmiss' = TRUE
  /\ \A d \in Cpus : pc[d] # "saved"
  /\ UNCHANGED <<mmVars, pl, xen, q, cb, cur3, cpuVars, pc, tgt, todo, dropVars, oops>>

\* vmalloc_fault: a CPU on this pgd misses the entry; interrupts are off.
VmallocFault(c) ==
  /\ Running(c) /\ xen.base[c] = "pgd" /\ c \in active /\ kmiss
  /\ Goto(c, "vfault")
  /\ UNCHANGED <<mmVars, pl, xen, q, cb, cur3, cpuVars, tgt, todo, dropVars, kmiss, oops>>

\* Slip: page_table_lock is not taken.
SyncLock_Skipped(c) == UNCHANGED ptl

\* vmalloc_sync_all, for this pgd: page_table_lock is taken "only for Xen".
SyncLock(c) == ptl = NoCpu /\ ptl' = c
SyncAll(c) ==
  /\ Running(c) /\ life # "none" /\ kmiss
  /\ SyncLock(c)
  /\ Goto(c, "sync")
  /\ UNCHANGED <<life, boss, flag, saved, pl, xen, q, cb, cur3, cpuVars, tgt, todo, dropVars, kmiss, oops>>

\* xen_set_pgd for a kernel entry, which the user pgd does not have.
SetKernelEntry(c) ==
  /\ pc[c] \in {"vfault", "sync"}
  /\ kmiss' = FALSE
  /\ IF "pgd" \notin flag
     THEN oops' = (oops \/ "pgd" \in xen.ro) /\ UNCHANGED <<pl, xen, q, cb, cur3>>
     ELSE FlushNow(c, <<Op("set", "pgd")>>, <<>>, pl) /\ UNCHANGED oops
  /\ ptl' = IF pc[c] = "sync" THEN NoCpu ELSE ptl
  /\ Goto(c, "run")
  /\ UNCHANGED <<life, boss, flag, saved, cpuVars, tgt, todo, dropVars>>

------------------------------------------------------------------------------
(* Entries of a pte page, written by the process, by reclaim, by anyone who *)
(* takes the page's lock.                                                   *)

PteLock(c, p) ==
  /\ Running(c)
  /\ p \in Ptes \cap xen.tree /\ pl[p] = NoCpu
  /\ pl' = [pl EXCEPT ![p] = c]
  /\ \E s \in {"direct", "batched"} : Goto(c, s)
  /\ tgt' = [tgt EXCEPT ![c] = p]
  /\ UNCHANGED <<mmVars, xen, q, cb, cur3, cpuVars, todo, dropVars, kmiss, oops>>

\* native_set_pte outside lazy mode.  Xen emulates the store if the page is a
\* page table; if it is merely read-only the kernel faults.
SetPteDirect(c) ==
  /\ pc[c] = "direct"
  /\ oops' = (oops \/ (tgt[c] \in xen.ro /\ ~Typed(xen, tgt[c])))
  /\ pl' = [pl EXCEPT ![tgt[c]] = NoCpu]
  /\ Goto(c, "run")
  /\ UNCHANGED <<mmVars, xen, q, cb, cur3, cpuVars, tgt, todo, dropVars, kmiss>>

\* xen_batched_set_pte, and xen_ptep_modify_prot_commit in lazy mode.
SetPteBatched(c) ==
  /\ pc[c] = "batched"
  /\ Enqueue(c, <<Op("pte", tgt[c])>>, <<>>, pl)
  /\ Goto(c, "lazymmu")
  /\ UNCHANGED <<mmVars, cpuVars, tgt, todo, dropVars, kmiss, oops>>

\* xen_leave_lazy_mmu, then the pte lock is released.
LeaveLazyMmu(c) ==
  /\ pc[c] = "lazymmu"
  /\ FlushNow(c, <<>>, <<>>, [pl EXCEPT ![tgt[c]] = NoCpu])
  /\ Goto(c, "run")
  /\ UNCHANGED <<mmVars, cpuVars, tgt, todo, dropVars, kmiss, oops>>

------------------------------------------------------------------------------
(* Pinning. *)

\* The order of __xen_pgd_walk: top down, the pgd last.
IfIn(p, tree) == IF p \in tree THEN <<p>> ELSE <<>>
WalkOrder(tree) ==
  IfIn("pud", tree) \o IfIn("pmd", tree) \o SetToSeq(tree \cap Ptes) \o <<"pgd">>

\* xen_activate_mm or xen_dup_mmap takes page_table_lock and starts the walk.
PinStart(c) ==
  /\ Running(c) /\ life = "build" /\ c = boss /\ ptl = NoCpu
  /\ ptl' = c /\ todo' = WalkOrder(xen.tree)
  /\ Goto(c, "pin")
  /\ UNCHANGED <<life, boss, flag, saved, pl, xen, q, cb, cur3, cpuVars, tgt, dropVars, kmiss, oops>>

PinPageOps(p) ==
  <<Op("ro", p)>> \o (IF p \in Ptes THEN <<Op("pin", p)>> ELSE <<>>)
UnpinPageOps(p) ==
  (IF p \in Ptes THEN <<Op("unpin", p)>> ELSE <<>>) \o <<Op("rw", p)>>

\* Slip: the batch gets no callback that releases the lock.
WalkPage_NoCallback(c, p, ops) ==
  IF p \in Ptes
  THEN pl[p] = NoCpu /\ Enqueue(c, ops, <<>>, [pl EXCEPT ![p] = c])
  ELSE Enqueue(c, ops, <<>>, pl)

\* One callback of the walk on page p: xen_pte_lock takes the page's own lock,
\* the batch gets the operations, and its completion will release the lock.
WalkPage(c, p, ops) ==
  IF p \in Ptes
  THEN /\ pl[p] = NoCpu
       /\ Enqueue(c, ops, <<Op("unlock", p)>>, [pl EXCEPT ![p] = c])
  ELSE Enqueue(c, ops, <<>>, pl)

\* A full batch goes out before the step waits for the pte lock.
MakeRoom(c) ==
  /\ pc[c] \in {"pin", "unpin"} /\ Len(q[c]) = MCBatch
  /\ FlushNow(c, <<>>, <<>>, pl)
  /\ UNCHANGED <<mmVars, cpuVars, pc, tgt, todo, dropVars, kmiss, oops>>

\* xen_pin_page.
PinPage(c) ==
  /\ pc[c] = "pin" /\ todo # <<>> /\ Len(q[c]) < MCBatch
  /\ LET p == Head(todo) IN
     /\ todo' = Tail(todo)
     /\ flag' = flag \cup {p}
     /\ IF p \in flag THEN UNCHANGED <<xen, q, cb, cur3, pl>>
        ELSE WalkPage(c, p, PinPageOps(p))
  /\ UNCHANGED <<life, boss, saved, ptl, cpuVars, pc, tgt, dropVars, kmiss, oops>>

\* The end of __xen_pgd_pin: the kernel's L4, the user's pgd and its L4.
PinTopOps ==
  <<Op("pin", "pgd"), Op("ro", "upgd"), Op("pin", "upgd")>>
PinTop(c) ==
  /\ pc[c] = "pin" /\ todo = <<>>
  /\ flag' = flag \cup {"upgd"}
  /\ FlushNow(c, PinTopOps, <<>>, pl)
  /\ ptl' = NoCpu /\ life' = "live"
  /\ Goto(c, "run")
  /\ UNCHANGED <<boss, saved, cpuVars, tgt, todo, dropVars, kmiss, oops>>

\* exec_mmap switches to the mm it has just activated.
ExecSwitch(c) ==
  /\ Running(c) /\ life = "live" /\ c = boss /\ user = {}
  /\ c \notin active
  /\ user' = {c} /\ active' = active \cup {c} /\ mask' = mask \cup {c}
  /\ lazy' = lazy \ {c}
  /\ LoadCr3(c, "pgd")
  /\ UNCHANGED <<mmVars, pc, tgt, todo, dropVars, kmiss, oops>>

------------------------------------------------------------------------------
(* Context switches: cr3 is queued and reaches Xen at their end. *)

\* switch_mm to a thread of the mm.  A CPU that kept the mm while it ran a
\* kernel thread reloads cr3 only if leave_mm took it out of the mask.
SwitchIn(c) ==
  /\ Running(c) /\ life = "live" /\ c \notin user
  /\ user' = user \cup {c} /\ active' = active \cup {c}
  /\ lazy' = lazy \ {c} /\ mask' = mask \cup {c}
  /\ IF c \in active /\ c \in mask
     THEN UNCHANGED <<xen, q, cb, cur3, pl, pc>>
     ELSE Enqueue(c, Cr3Ops(c, "pgd"), Cr3Call("pgd"), pl) /\ Goto(c, "switch")
  /\ UNCHANGED <<mmVars, tgt, todo, dropVars, kmiss, oops>>

\* To a kernel thread: enter_lazy_tlb, the page tables stay loaded.
SwitchLazy(c) ==
  /\ Running(c) /\ c \in user
  /\ user' = user \ {c} /\ lazy' = lazy \cup {c}
  /\ UNCHANGED <<mmVars, pl, xen, q, cb, cur3, mask, active, pc, tgt, todo, dropVars, kmiss, oops>>

\* switch_mm to another process.
SwitchOut(c) ==
  /\ Running(c) /\ c \in active
  /\ user' = user \ {c} /\ active' = active \ {c}
  /\ lazy' = lazy \ {c} /\ mask' = mask \ {c}
  /\ Enqueue(c, Cr3Ops(c, Swapper), Cr3Call(Swapper), pl)
  /\ Goto(c, "switch")
  /\ UNCHANGED <<mmVars, tgt, todo, dropVars, kmiss, oops>>

\* The end of the context switch flushes the batch.
SwitchEnd(c) ==
  /\ pc[c] = "switch"
  /\ FlushNow(c, <<>>, <<>>, pl)
  /\ Goto(c, "run")
  /\ UNCHANGED <<mmVars, cpuVars, tgt, todo, dropVars, kmiss, oops>>

------------------------------------------------------------------------------
(* xen_exit_mmap. *)

\* mmput by the last user of the mm: exit_mm has made its CPU lazy.  In the
\* error path of execve the mm was never activated.
ExitStart(c) ==
  /\ Running(c)
  /\ \/ life = "build" /\ c = boss
     \/ life = "live" /\ user \subseteq {c}
  /\ life' = "exit" /\ boss' = c
  /\ user' = {} /\ lazy' = lazy \cup user
  /\ Goto(c, "exit")
  /\ UNCHANGED <<flag, saved, ptl, pl, xen, q, cb, cur3, mask, active, tgt, todo, dropVars, kmiss, oops>>

\* xen_drop_mm_ref on its own CPU: leave_mm if it still borrows the mm; then
\* the official set of CPUs is copied, or, without memory for a copy, all
\* CPUs are to be looked at one by one.
DropSelf(c) ==
  /\ pc[c] = "exit"
  /\ IF c \in active
     THEN mask' = mask \ {c} /\ LoadCr3(c, Swapper)
     ELSE UNCHANGED <<mask, xen, pl, cur3, q, cb>>
  /\ \/ ipi' = mask' /\ UNCHANGED scan /\ Goto(c, "masked")
     \/ scan' = Cpus /\ UNCHANGED ipi /\ Goto(c, "drop")
  /\ UNCHANGED <<mmVars, user, active, lazy, tgt, todo, kmiss, oops>>

\* Slip: only the official mask is used.
StaleCpus_None == {}

\* CPUs whose cr3 still points here (a switch they have not flushed) join in.
StaleCpus == {d \in Cpus : cur3[d] = "pgd"}
AddStale(c) ==
  /\ pc[c] = "masked"
  /\ ipi' = (ipi \cup StaleCpus) \ {c}
  /\ Goto(c, "drop")
  /\ UNCHANGED <<mmVars, pl, xen, q, cb, cur3, cpuVars, tgt, todo, scan, kmiss, oops>>

\* The loop used without a mask: one CPU, one call, wait for it.
CallOne(c, d) ==
  /\ pc[c] = "drop" /\ d \in scan /\ ipi = {}
  /\ scan' = scan \ {d}
  /\ ipi' = IF d \in mask \/ d \in StaleCpus THEN {d} ELSE {}
  /\ UNCHANGED <<mmVars, pl, xen, q, cb, cur3, cpuVars, pc, tgt, todo, kmiss, oops>>

\* Interrupts are off in a context switch and during a walk.
TakesIpi(d) == pc[d] \notin {"switch", "pin", "unpin", "exit", "masked", "vfault"}

\* drop_other_mm_ref.
MustLeave(d) == (d \in active /\ d \in lazy) \/ cur3[d] = "pgd"
DropOther(d) ==
  /\ d \in ipi /\ TakesIpi(d)
  /\ ipi' = ipi \ {d}
  /\ mask' = IF d \in active /\ d \in lazy THEN mask \ {d} ELSE mask
  /\ IF MustLeave(d) THEN LoadCr3(d, Swapper) ELSE UNCHANGED <<xen, pl, cur3, q, cb>>
  /\ UNCHANGED <<mmVars, user, active, lazy, pc, tgt, todo, scan, kmiss, oops>>

\* page_table_lock, and the start of xen_pgd_unpin if there is a pin to undo.
UnpinTopOps ==
  <<Op("unpin", "pgd"), Op("unpin", "upgd"), Op("rw", "upgd")>>
UnpinStart(c) ==
  /\ pc[c] = "drop" /\ ipi = {} /\ scan = {} /\ ptl = NoCpu
  /\ IF "pgd" \in flag
     THEN /\ ptl' = c /\ flag' = flag \ {"upgd"}
          /\ todo' = WalkOrder(xen.tree)
          /\ Enqueue(c, UnpinTopOps, <<>>, pl)
          /\ Goto(c, "unpin") /\ UNCHANGED life
     ELSE /\ life' = "down" /\ Goto(c, "run")
          /\ UNCHANGED <<ptl, flag, todo, xen, q, pl, cur3, cb>>
  /\ UNCHANGED <<boss, saved, cpuVars, tgt, dropVars, kmiss, oops>>

\* xen_unpin_page.
UnpinPage(c) ==
  /\ pc[c] = "unpin" /\ todo # <<>>
  /\ LET p == Head(todo) IN
     /\ todo' = Tail(todo)
     /\ flag' = flag \ {p}
     /\ IF p \in flag THEN WalkPage(c, p, UnpinPageOps(p))
        ELSE UNCHANGED <<xen, q, cb, cur3, pl>>
  /\ UNCHANGED <<life, boss, saved, ptl, cpuVars, pc, tgt, dropVars, kmiss, oops>>

UnpinEnd(c) ==
  /\ pc[c] = "unpin" /\ todo = <<>>
  /\ FlushNow(c, <<>>, <<>>, pl)
  /\ ptl' = NoCpu /\ life' = "down"
  /\ Goto(c, "run")
  /\ UNCHANGED <<boss, flag, saved, cpuVars, tgt, todo, dropVars, kmiss, oops>>

------------------------------------------------------------------------------
(* Save and resume of the domain, in stop_machine. *)

\* The whole walk at once, page by page.
PinPages(x, pages) ==
  LET run[n \in 0 .. Len(pages)] ==
        IF n = 0 THEN x ELSE ExecAll(run[n - 1], PinPageOps(pages[n]))
  IN run[Len(pages)]
UnpinPages(x, pages) ==
  LET run[n \in 0 .. Len(pages)] ==
        IF n = 0 THEN x ELSE ExecAll(run[n - 1], UnpinPageOps(pages[n]))
  IN run[Len(pages)]

\* xen_mm_pin_all.
PinAll(c) ==
  /\ life # "none" /\ \A d \in Cpus : pc[d] = "run"
  /\ IF "pgd" \in flag THEN UNCHANGED <<flag, saved, xen>>
     ELSE /\ xen' = ExecAll(PinPages(xen, WalkOrder(xen.tree)), PinTopOps)
          /\ flag' = flag \cup {"pgd", "upgd"} \cup xen.tree
          /\ saved' = TRUE
  /\ Goto(c, "saved")
  /\ UNCHANGED <<life, boss, ptl, pl, q, cb, cur3, cpuVars, tgt, todo, dropVars, kmiss, oops>>

\* xen_mm_unpin_all.
UnpinAll(c) ==
  /\ pc[c] = "saved"
  /\ IF saved
     THEN /\ xen' = UnpinPages(ExecAll(xen, UnpinTopOps), WalkOrder(xen.tree))
          /\ flag' = flag \ ({"pgd", "upgd"} \cup xen.tree)
     ELSE UNCHANGED <<flag, xen>>
  /\ saved' = FALSE
  /\ Goto(c, "run")
  /\ UNCHANGED <<life, boss, ptl, pl, q, cb, cur3, cpuVars, tgt, todo, dropVars, kmiss, oops>>

------------------------------------------------------------------------------
\* Steps a CPU has begun and goes on with.
Step(c) ==
  \/ Populate(c) \/ Release(c) \/ SetKernelEntry(c)
  \/ SetPteDirect(c) \/ SetPteBatched(c) \/ LeaveLazyMmu(c)
  \/ MakeRoom(c) \/ PinPage(c) \/ PinTop(c)
  \/ SwitchEnd(c)
  \/ DropSelf(c) \/ AddStale(c) \/ DropOther(c)
  \/ UnpinStart(c) \/ UnpinPage(c) \/ UnpinEnd(c)
  \/ UnpinAll(c)
  \/ \E d \in Cpus : CallOne(c, d)

\* What the rest of the kernel asks for.
Request(c) ==
  \/ PgdAlloc(c) \/ PinStart(c) \/ ExecSwitch(c)
  \/ SwitchIn(c) \/ SwitchLazy(c) \/ SwitchOut(c)
  \/ ExitStart(c) \/ PinAll(c) \/ VmallocFault(c) \/ SyncAll(c)
  \/ \E p \in Inner : AllocTable(c, p) \/ Unlink(c, p)
  \/ \E p \in Ptes : PteLock(c, p)

Next == PgdFree \/ VmallocNew \/ \E c \in Cpus : Step(c) \/ Request(c)

Spec == Init /\ [][Next]_vars

\* A CPU inside the kernel goes on; a spinning CPU gets a lock that is free
\* again and again, and interrupts are taken once they are enabled.  (No CPU
\* has two of these to do at a time.)
Spin(c) == PinPage(c) \/ UnpinPage(c) \/ UnpinStart(c) \/ DropOther(c)
Fairness == \A c \in Cpus : WF_vars(Step(c)) /\ SF_vars(Spin(c))
FairSpec == Spec /\ Fairness
------------------------------------------------------------------------------
\* Every variable keeps its type; a batch is never fuller than a batch is.
TypeOK ==
  /\ life \in {"none", "build", "live", "exit", "down"}
  /\ boss \in Cpus \cup {NoCpu} /\ ptl \in Cpus \cup {NoCpu}
  /\ flag \subseteq Tables /\ saved \in BOOLEAN /\ oops \in BOOLEAN
  /\ pl \in [Ptes -> Cpus \cup {NoCpu}]
  /\ xen.ro \subseteq Tables /\ xen.pin \subseteq Tables /\ xen.tree \subseteq Inner
  /\ xen.base \in [Cpus -> {Swapper, "pgd"}] /\ xen.ubase \in [Cpus -> {Swapper, "upgd"}]
  /\ \A c \in Cpus : Len(q[c]) <= MCBatch
  /\ cur3 \in [Cpus -> {Swapper, "pgd"}]
  /\ kmiss \in BOOLEAN /\ mask \subseteq Cpus /\ user \subseteq Cpus /\ active \subseteq Cpus
  /\ lazy \subseteq Cpus /\ ipi \subseteq Cpus /\ scan \subseteq Cpus

\* No plain store ever hits a page that is read-only without being a page
\* table (comment at xen_pin_page): set_pte, set_pmd and set_pgd look at locks
\* and PagePinned only, while mappings and pins change when batches flush.
NoStrayStore == ~oops

\* Xen refuses no multicall: a page is pinned when all of it is read-only and
\* made writable only when nothing uses it as a page table.
NeverRefused == ~xen.refused

\* What the pinning code promises the hypervisor, and the hypervisor it.
XenObeyed == NoStrayStore /\ NeverRefused

\* No CPU has its base pointer on tables that are not pinned.
BasesPinned ==
  \A c \in Cpus : xen.base[c] = "pgd" \/ xen.ubase[c] = "upgd" =>
                    {"pgd", "upgd"} \subseteq xen.pin

\* While nobody walks or grows the tree, PagePinned tells the truth, page by
\* page: a tree is pinned as a whole or not at all, and pages outside it are
\* ordinary memory.
TreePage(p) == p \in {"pgd", "upgd"} \cup xen.tree
FlagsTruthful ==
  ptl = NoCpu =>
    \A p \in Tables :
      \/ \E c \in Cpus : pc[c] = "unlinked" /\ tgt[c] = p
      \/ IF TreePage(p) /\ "pgd" \in flag
         THEN p \in flag /\ p \in xen.ro /\ (p \in Ptes \/ p = "pgd" \/ p = "upgd" => p \in xen.pin)
         ELSE p \notin flag /\ p \notin xen.ro /\ p \notin xen.pin

\* The kernel's picture of the pins, and that of the CPUs that run on them.
PinsTruthful == TypeOK /\ BasesPinned /\ FlagsTruthful

\* xen_exit_mmap ends: every CPU is called off and every pte lock is got.
ExitEnds == life = "exit" ~> life = "down"

------------------------------------------------------------------------------
(* The inductive invariant. *)

\* What the first n operations of a batch on table pages make of the
\* hypervisor's state, and that it accepts each of them in its turn.
Named(s, n, o) == {s[i].p : i \in {i \in 1 .. n : s[i].op = o}}
After(x, s, n) ==
  [x EXCEPT !.ro = (@ \cup Named(s, n, "ro")) \ Named(s, n, "rw"),
            !.pin = (@ \cup Named(s, n, "pin")) \ Named(s, n, "unpin")]
Legal(x, s) == \A i \in 1 .. Len(s) : Accepts(After(x, s, i - 1), s[i])

\* The variables TypeOK does not speak of.
Walk(c) == pc[c] \in {"pin", "unpin"}
AtPte(c) == pc[c] \in {"direct", "batched", "lazymmu"}
PCs == {"run", "filled", "unlinked", "vfault", "sync", "direct", "batched", "lazymmu",
        "switch", "pin", "unpin", "exit", "masked", "drop", "saved"}
XenStates ==
  [ro : SUBSET Tables, pin : SUBSET Tables, tree : SUBSET Inner, refused : BOOLEAN,
   base : [Cpus -> {Swapper, "pgd"}], ubase : [Cpus -> {Swapper, "upgd"}]]
Multicalls ==
  LET Ops == {"ro", "rw", "pin", "unpin", "pte", "base", "ubase"}
      Args == Tables \cup {Swapper}
  IN [op : Ops, p : Args] \cup [op : Ops, p : Args, c : Cpus]
Callbacks == [op : {"unlock", "cr3"}, p : Tables \cup {Swapper}]
Locals ==
  /\ xen \in XenStates /\ q \in [Cpus -> Seq(Multicalls)] /\ cb \in [Cpus -> Seq(Callbacks)]
  /\ pc \in [Cpus -> PCs] /\ tgt \in [Cpus -> Tables] /\ todo \in Seq(Tables)
  /\ \A c \in Cpus : AtPte(c) => tgt[c] \in Ptes

\* What a CPU has queued, by what it is in the middle of.
Queued(c) ==
  /\ pc[c] = "switch" => \E t \in {Swapper, "pgd"} :
       q[c] = Cr3Ops(c, t) /\ cb[c] = Cr3Call(t) /\ (t = "pgd" => c \in user)
  /\ pc[c] = "lazymmu" => q[c] \in {<<>>, <<Op("pte", tgt[c])>>} /\ cb[c] = <<>>
  /\ pc[c] = "pin" => q[c] \in Seq([op : {"ro", "pin"}, p : Tables])
  /\ pc[c] = "unpin" => q[c] \in Seq([op : {"rw", "unpin"}, p : Tables])
  /\ Walk(c) => /\ cb[c] \in Seq([op : {"unlock"}, p : Ptes])
                /\ \A i \in 1 .. Len(q[c]) : q[c][i].p \in Ptes => Op("unlock", q[c][i].p) \in Range(cb[c])
  /\ pc[c] \notin {"switch", "lazymmu", "pin", "unpin"} => q[c] = <<>> /\ cb[c] = <<>>

\* Who may be where: page_table_lock, the boss of each stage of life, and that
\* nobody else is at work on a tree that is walked.
Turns ==
  /\ \A c \in Cpus : pc[c] \in {"filled", "sync", "pin", "unpin"} <=> ptl = c
  /\ \A c \in Cpus : pc[c] = "pin" => life = "build" /\ boss = c
  /\ \A c \in Cpus : pc[c] \in {"exit", "masked", "drop", "unpin"} <=> life = "exit" /\ boss = c
  /\ life = "exit" => boss \in Cpus
  /\ \A c \in Cpus : pc[c] = "saved" => \A d \in Cpus \ {c} : pc[d] = "run"
  /\ user \subseteq active /\ (user # {} => life = "live")
Loose(c) == pc[c] \in {"filled", "unlinked"}
LooseOK(c) ==
  /\ tgt[c] \in Inner \ xen.tree
  /\ \A d \in Cpus : Loose(d) => d = c
  /\ pc[c] = "filled" =>
       /\ (life = "build" /\ boss = c) \/ (life = "live" /\ c \in user)
       /\ Parent(tgt[c]) \in {"pgd"} \cup xen.tree
  /\ pc[c] = "unlinked" => (life = "down" /\ boss = c) \/ (life = "live" /\ c \in user)

\* A pte lock is held by who works on the page, which is in the tree, or by the
\* walk until its batch is through.
Locks ==
  /\ \A p \in Ptes, c \in Cpus :
       pl[p] = c <=> \/ AtPte(c) /\ tgt[c] = p
                     \/ Walk(c) /\ Op("unlock", p) \in Range(cb[c])
  /\ \A p \in Ptes : pl[p] # NoCpu => p \in xen.tree

\* When the batch of the CPU that walks is through, the hypervisor's state is
\* what the flags say; and which pages have the flag, outside a walk and in one.
Walking == \E c \in Cpus : Walk(c)
Rest == IF Walking THEN q[ptl] ELSE <<>>
Flags ==
  /\ Legal(xen, Rest)
  /\ LET y == After(xen, Rest, Len(Rest))
     IN /\ y.ro = flag
        /\ y.pin = flag \cap (Ptes \cup {"upgd"} \cup (IF Walking THEN {} ELSE {"pgd"}))
Tagged ==
  /\ ~Walking => \/ flag = {}
                  \/ flag = {"pgd", "upgd"} \cup xen.tree \cup {tgt[c] : c \in {c \in Cpus : Loose(c)}}
  /\ \A c \in Cpus : pc[c] = "pin" => flag = ({"pgd"} \cup xen.tree) \ Range(todo)
  /\ \A c \in Cpus : pc[c] = "unpin" => flag = Range(todo)
  /\ Walking => /\ Range(todo) \subseteq {"pgd"} \cup xen.tree
                /\ \A i, j \in 1 .. Len(todo) : todo[i] = todo[j] => i = j
Staged ==
  /\ life = "live" => "pgd" \in flag
  /\ life \in {"none", "build", "down"} /\ ~saved /\ ~Walking => flag = {}
  /\ saved => life \in {"build", "down"} /\ "pgd" \in flag /\ \E c \in Cpus : pc[c] = "saved"

\* Which CPUs run on the tables: what the kernel thinks is what the hypervisor
\* has, and whoever still does is going to be called off.
OnTables(c) ==
  /\ cur3[c] = "pgd" <=> xen.base[c] = "pgd"
  /\ cur3[c] = "pgd" <=> xen.ubase[c] = "upgd"
  /\ pc[c] = "vfault" => cur3[c] = "pgd"
  /\ cur3[c] = "pgd" =>
       /\ "pgd" \in flag /\ (c \in active \/ pc[c] = "switch")
       /\ \/ life = "live"
          \/ /\ life = "exit" /\ pc[boss] # "unpin"
             /\ pc[boss] = "masked" => c # boss
             /\ pc[boss] = "drop" => c \in ipi \cup scan

IInv ==
  /\ TypeOK /\ Locals /\ Turns /\ Locks /\ Flags /\ Tagged /\ Staged /\ XenObeyed
  /\ \A c \in Cpus : Queued(c) /\ (Loose(c) => LooseOK(c)) /\ OnTables(c)
==============================================================================
