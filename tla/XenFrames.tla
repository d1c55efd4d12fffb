------------------------------- MODULE XenFrames -------------------------------
(***************************************************************************)
(* Frames of a domain under Xen (arch/x86/xen/mmu.c): pseudo-physical page  *)
(* numbers (pfn) and machine frames (mfn), how page table entries are       *)
(* translated between them, how a region of pages is given contiguous       *)
(* frames and gives them back, and how frames of another domain are mapped. *)
(*                                                                          *)
(* The pages of the regions are 0 .. Pages-1; beside them there is a page   *)
(* that is mapped one to one, one that stands for another domain's frame    *)
(* and one that is missing.                                                 *)
(***************************************************************************)
EXTENDS Integers, FiniteSets, SequencesExt

CONSTANTS
  Cpus,
  NRegions,    \* regions callers own
  Len2,        \* pages of each, 1 << order
  NMfn,        \* frames the domain can be given, 0 .. NMfn-1
  RemapBatch,  \* REMAP_BATCH_SIZE
  NRemap,      \* frames of another domain that are mapped together
  NoCpu

ASSUME XenFramesAssumption ==
  /\ NRegions \in Nat /\ Len2 \in Nat \ {0} /\ NRemap \in Nat
  /\ RemapBatch \in Nat \ {0}
  /\ NMfn \in Nat /\ NMfn >= NRegions * Len2
  /\ NoCpu \notin Cpus

Pages == 0 .. NRegions * Len2 - 1
Regions == {r * Len2 : r \in 0 .. NRegions - 1}    \* vstart of each region
RegionPages(v) == v .. v + Len2 - 1
OwnMfns == 0 .. NMfn - 1
IdentityPfn == NMfn             \* mapped one to one
ForeignPfn == NMfn + 1          \* stands for ForeignMfn
MissingPfn == NMfn + 2
ForeignMfn == NMfn + 3
OtherDomain == NMfn + 4 .. NMfn + 3 + NRemap    \* frames mapped by remap
IsaEnd == 1                     \* ISA_END_ADDRESS, as a frame number
NoPfn == -1
Void == -1                      \* VOID_PTE

\* An entry of the p2m: a frame number and its marks.  INVALID_P2M_ENTRY has
\* all bits set, those of both marks too.
Marks == {"foreign", "identity"}
Entry(mfn, marks) == [mfn |-> mfn, marks |-> marks]
Invalid == Entry(-1, Marks)

VARIABLES
  p2m,     \* entry of each region page
  m2p,     \* the hypervisor's reverse table, for the domain's frames
  lin,     \* frame at each region page's linear address, or Void
  owned,   \* frames the domain has
  dirty,   \* frames with data in them
  lock,    \* holder of xen_reservation_lock
  pc,      \* what each CPU does
  op,      \* create or destroy a region, and whether the exchange succeeded
  base,    \* vstart of the region it works on
  at,      \* loop index
  first,   \* in_frame of destroy, out_frame of create
  frames,  \* discontig_frames, shared
  queued,  \* linear mappings in the CPU's batch: page and frame
  umap,    \* frames the CPU's remap has mapped so far
  stale    \* CPUs whose remap has changed entries and not yet flushed the TLBs

tables == <<p2m, m2p, lin, owned>>
remap == <<umap, stale>>
vars == <<p2m, m2p, lin, owned, dirty, lock, pc, op, base, at, first,
          frames, queued, umap, stale>>

------------------------------------------------------------------------------
(* Translation of entries.  An entry value has a frame number and flags.      *)

get_phys_to_machine(pfn) ==
  IF pfn \in Pages THEN p2m[pfn]
  ELSE IF pfn = IdentityPfn THEN Entry(pfn, {"identity"})
  ELSE IF pfn = ForeignPfn THEN Entry(ForeignMfn, {"foreign"})
  ELSE Invalid

\* mfn_to_pfn: the reverse table if the p2m agrees, the overrides for foreign
\* frames, one to one pages.
mfn_to_pfn(mfn) ==
  IF mfn \in OwnMfns /\ m2p[mfn] # NoPfn
     /\ get_phys_to_machine(m2p[mfn]) = Entry(mfn, {}) THEN m2p[mfn]
  ELSE IF mfn = ForeignMfn THEN ForeignPfn
  ELSE IF get_phys_to_machine(mfn) = Entry(mfn, {"identity"}) THEN mfn
  ELSE NoPfn

Val(frame, flags) == [frame |-> frame, flags |-> flags]
Present(v) == "P" \in v.flags

pte_mfn_to_pfn(v) == IF Present(v) THEN Val(mfn_to_pfn(v.frame), v.flags) ELSE v

\* Slip: the identity mark is looked at before the test for a missing frame.
pte_pfn_to_mfn_MarkFirst(v) ==
  LET e == get_phys_to_machine(v.frame)
  IN IF ~Present(v) THEN v
     ELSE Val(e.mfn, v.flags \cup (IF "identity" \in e.marks THEN {"IO"} ELSE {}))

pte_pfn_to_mfn(v) ==
  LET e == get_phys_to_machine(v.frame)
  IN IF ~Present(v) THEN v
     ELSE IF e = Invalid THEN Val(0, {})
     ELSE Val(e.mfn, v.flags \cup (IF "identity" \in e.marks THEN {"IO"} ELSE {}))

\* Memory type bits: Linux's write-combining is PWT, Xen's is PAT.
FromXenPat(v) ==
  IF v.flags \cap {"PAT", "PCD", "PWT"} = {"PAT"}
  THEN Val(v.frame, (v.flags \ {"PAT"}) \cup {"PWT"}) ELSE v
ToXenPat(v, pat) ==
  IF pat /\ v.flags \cap {"PAT", "PCD", "PWT"} = {"PWT"}
  THEN Val(v.frame, (v.flags \ {"PWT"}) \cup {"PAT"}) ELSE v

xen_pte_val(v, dom0) ==
  LET w == FromXenPat(v)
  IN IF dom0 /\ "IO" \in w.flags THEN w ELSE pte_mfn_to_pfn(w)

\* iomap_pte takes the frame number as it is.
IsIomap(v, dom0) == "IO" \in v.flags /\ (dom0 \/ v.frame >= IsaEnd)
xen_make_pte(v, dom0, pat) ==
  LET w == ToXenPat(v, pat)
  IN IF IsIomap(v, dom0) THEN w
     ELSE pte_pfn_to_mfn(Val(w.frame, w.flags \ {"IO"}))

\* xen_set_fixmap: what a fixed slot is made to map.
FixKinds == {"local", "vsyscall", "apic", "bootmap", "hardware"}
FixmapPte(kind, frame, dom0, pat) ==
  IF kind \in {"local", "vsyscall"} THEN xen_make_pte(Val(frame, {"P"}), dom0, pat)
  ELSE IF kind = "apic" THEN xen_make_pte(Val(0, {"P"}), dom0, pat)  \* dummy_mapping
  ELSE Val(frame, IF kind = "bootmap" THEN {"P"} ELSE {"P", "IO"})

\* arbitrary_virt_to_machine: by the p2m for a linear address, else by walking
\* the page table to entry v.
virt_to_machine(pfn) == get_phys_to_machine(pfn).mfn
arbitrary_virt_to_machine(linear, pfn, v) == IF linear THEN virt_to_machine(pfn) ELSE v.frame

------------------------------------------------------------------------------
NoOp == [kind |-> "create", ok |-> FALSE]
NoFrames == [i \in 0 .. Len2 - 1 |-> 0]
Goto(c, s) == pc' = [pc EXCEPT ![c] = s]

\* A domain starts with any frames, scattered as they may be.
Init ==
  /\ lin \in Injection(Pages, OwnMfns)
  /\ p2m = [p \in Pages |-> Entry(lin[p], {})]
  /\ owned = {lin[p] : p \in Pages} /\ dirty = owned
  /\ m2p = [x \in OwnMfns |-> IF x \in owned
                              THEN CHOOSE p \in Pages : lin[p] = x ELSE NoPfn]
  /\ lock = NoCpu
  /\ pc = [c \in Cpus |-> "idle"]
  /\ op = [c \in Cpus |-> NoOp]
  /\ base = [c \in Cpus |-> 0] /\ at = [c \in Cpus |-> 0] /\ first = [c \in Cpus |-> 0]
  /\ frames = NoFrames
  /\ queued = [c \in Cpus |-> <<>>]
  /\ umap = [c \in Cpus |-> <<>>] /\ stale = {}

InUse(v) == \E c \in Cpus : pc[c] \in {"lock", "zap", "exchange", "map"} /\ base[c] = v
Contiguous(v) == \A p \in RegionPages(v) : p2m[p].mfn = p2m[v].mfn + (p - v)

\* The owner of a region writes to its pages.
Use(v) ==
  /\ ~InUse(v)
  /\ dirty' = dirty \cup {lin[p] : p \in RegionPages(v)}
  /\ UNCHANGED <<tables, lock, pc, op, base, at, first, frames, queued, remap>>

------------------------------------------------------------------------------
(* xen_create_contiguous_region and xen_destroy_contiguous_region *)

\* Slip: the pages are not cleared.
Cleared_Not(v) == {}

\* memset of the region, before the lock is taken.
Cleared(v) == {lin[p] : p \in RegionPages(v)}
Begin(c, v, kind) ==
  /\ pc[c] = "idle" /\ ~InUse(v)
  /\ kind = "destroy" => Contiguous(v)
  /\ dirty' = dirty \ Cleared(v)
  /\ op' = [op EXCEPT ![c] = [kind |-> kind, ok |-> FALSE]]
  /\ base' = [base EXCEPT ![c] = v]
  /\ Goto(c, "lock")
  /\ UNCHANGED <<tables, lock, at, first, frames, queued, remap>>

\* Slip: the reservation lock is not waited for.
LockFree_Unchecked == TRUE
LockFree == lock = NoCpu

\* Destroy notes the first frame, create the pfn that Xen will enter into its
\* reverse table.
Lock(c) ==
  /\ pc[c] = "lock" /\ LockFree
  /\ lock' = c /\ at' = [at EXCEPT ![c] = 0]
  /\ first' = [first EXCEPT ![c] = IF op[c].kind = "destroy"
                                   THEN virt_to_machine(base[c]) ELSE base[c]]
  /\ Goto(c, "zap")
  /\ UNCHANGED <<tables, dirty, op, base, frames, queued, remap>>

\* xen_mc_issue: the batch's linear mappings take effect, the last one for a
\* page over those before it.
LastFor(b, p) ==
  CHOOSE i \in DOMAIN b : b[i][1] = p /\ \A j \in DOMAIN b : b[j][1] = p => j <= i
Issued(b) ==
  [p \in Pages |-> IF \E i \in DOMAIN b : b[i][1] = p THEN b[LastFor(b, p)][2] ELSE lin[p]]
IsLast(c) == at[c] = Len2 - 1

\* One step of a loop over the region that queues frame x for page p's linear
\* address; the last one issues the batch and goes on at s.
LoopStep(c, p, x, s) ==
  LET b == Append(queued[c], <<p, x>>)
  IN /\ queued' = [queued EXCEPT ![c] = IF IsLast(c) THEN <<>> ELSE b]
     /\ lin' = IF IsLast(c) THEN Issued(b) ELSE lin
     /\ at' = [at EXCEPT ![c] = IF IsLast(c) THEN 0 ELSE @ + 1]
     /\ pc' = [pc EXCEPT ![c] = IF IsLast(c) THEN s ELSE @]

\* xen_zap_pfn_range: create keeps the frames, destroy the pfns.
ZapPage(c) ==
  LET p == base[c] + at[c]
  IN /\ pc[c] = "zap"
     /\ frames' = [frames EXCEPT ![at[c]] = IF op[c].kind = "create"
                                            THEN virt_to_machine(p) ELSE p]
     /\ p2m' = [p2m EXCEPT ![p] = Invalid]
     /\ LoopStep(c, p, Void, "exchange")
     /\ UNCHANGED <<m2p, owned, dirty, lock, op, base, first, remap>>

\* What create and destroy hand in.
Given(c) ==
  IF op[c].kind = "create" THEN {frames[i] : i \in DOMAIN frames}
  ELSE first[c] .. first[c] + Len2 - 1
\* What they may get: an aligned extent, or frames one by one; the arrays tell
\* Xen which pfn each new frame is for.
Extents(c) ==
  IF op[c].kind = "create"
  THEN {[i \in 0 .. Len2 - 1 |-> s + i] : s \in {x \in OwnMfns : x % Len2 = 0 /\ x + Len2 <= NMfn}}
  ELSE Injection(0 .. Len2 - 1, OwnMfns \ owned)
PfnFor(c, i) == IF op[c].kind = "create" THEN first[c] + i ELSE frames[i]

\* XENMEM_exchange takes only frames nothing maps.
ExchangeDone(c) ==
  /\ pc[c] = "exchange"
  /\ Given(c) \subseteq owned /\ \A p \in Pages : lin[p] \notin Given(c)
  /\ \E g \in Extents(c) :
       LET new == {g[i] : i \in DOMAIN g}
       IN /\ new \cap owned = {}
          /\ owned' = (owned \ Given(c)) \cup new
          /\ m2p' = [x \in OwnMfns |->
                       IF x \in new THEN PfnFor(c, CHOOSE i \in DOMAIN g : g[i] = x)
                       ELSE IF x \in Given(c) THEN NoPfn ELSE m2p[x]]
          /\ IF op[c].kind = "create"
             THEN first' = [first EXCEPT ![c] = g[0]] /\ UNCHANGED frames
             ELSE frames' = g /\ UNCHANGED first
  /\ op' = [op EXCEPT ![c] = [kind |-> op[c].kind, ok |-> TRUE]]
  /\ Goto(c, "map")
  /\ UNCHANGED <<p2m, lin, dirty, lock, base, at, queued, remap>>

\* No memory: nothing was exchanged.
ExchangeFailed(c) ==
  /\ pc[c] = "exchange"
  /\ Goto(c, "map")
  /\ UNCHANGED <<tables, dirty, lock, op, base, at, first, frames, queued, remap>>

\* Create maps the new extent, or its old frames from the array; destroy maps
\* the new frames from the array, or its old extent.
FromArray(c) == (op[c].kind = "create") # op[c].ok

\* (Locals and the array mean nothing once the lock is released.)
Forget(c) ==
  /\ op' = [op EXCEPT ![c] = NoOp] /\ base' = [base EXCEPT ![c] = 0]
  /\ first' = [first EXCEPT ![c] = 0] /\ frames' = NoFrames
\* xen_remap_exchanged_ptes; after the last page the lock is released.
MapPage(c) ==
  LET p == base[c] + at[c]
      x == IF FromArray(c) THEN frames[at[c]] ELSE first[c] + at[c]
  IN /\ pc[c] = "map"
     /\ p2m' = [p2m EXCEPT ![p] = Entry(x, {})]
     /\ LoopStep(c, p, x, "idle")
     /\ IF IsLast(c)
        THEN lock' = NoCpu /\ Forget(c)
        ELSE UNCHANGED <<lock, op, base, first, frames>>
     /\ UNCHANGED <<m2p, owned, dirty, remap>>

------------------------------------------------------------------------------
(* xen_remap_domain_mfn_range *)

\* Slip: the last batch is as long as the others.
BatchSize_Whole(c) == RemapBatch
BatchSize(c) == IF NRemap - Len(umap[c]) < RemapBatch THEN NRemap - Len(umap[c]) ELSE RemapBatch

\* remap_area_mfn_pte_fn: entries of the next n frames.
BatchFrames(c, n) ==
  [j \in 1 .. n |-> xen_make_pte(Val(NMfn + 3 + Len(umap[c]) + j, {"P", "IO"}), TRUE, FALSE).frame]

RemapStart(c) ==
  /\ pc[c] = "idle" /\ NRemap > 0
  /\ umap' = [umap EXCEPT ![c] = <<>>]
  /\ Goto(c, "remap")
  /\ UNCHANGED <<tables, dirty, lock, op, base, at, first, frames, queued, stale>>

RemapDone(c) ==
  /\ pc[c] = "remap"
  /\ LET n == BatchSize(c)
         u == umap[c] \o BatchFrames(c, n)
     IN /\ umap' = [umap EXCEPT ![c] = u]
        /\ Goto(c, IF Len(u) >= NRemap THEN "mapped" ELSE "remap")
  /\ stale' = stale \cup {c}
  /\ UNCHANGED <<tables, dirty, lock, op, base, at, first, frames, queued>>

\* No page table, or Xen stops somewhere in the batch.
RemapFailed(c) ==
  /\ pc[c] = "remap"
  /\ \E n \in 0 .. BatchSize(c) - 1 :
       umap' = [umap EXCEPT ![c] = @ \o BatchFrames(c, n)]
  /\ stale' = stale \cup {c}
  /\ Goto(c, "failed")
  /\ UNCHANGED <<tables, dirty, lock, op, base, at, first, frames, queued>>

\* flush_tlb_all, whatever happened; then the mapping is used and undone.
RemapReturn(c) ==
  /\ pc[c] \in {"mapped", "failed"}
  /\ stale' = stale \ {c} /\ umap' = [umap EXCEPT ![c] = <<>>]
  /\ Goto(c, "idle")
  /\ UNCHANGED <<tables, dirty, lock, op, base, at, first, frames, queued>>

------------------------------------------------------------------------------
Step(c) ==
  \/ Lock(c) \/ ZapPage(c) \/ ExchangeDone(c) \/ ExchangeFailed(c) \/ MapPage(c)
  \/ RemapDone(c) \/ RemapFailed(c) \/ RemapReturn(c)
Request(c) ==
  \/ RemapStart(c)
  \/ \E v \in Regions : Begin(c, v, "create") \/ Begin(c, v, "destroy")
Next == \/ \E c \in Cpus : Step(c) \/ Request(c)
        \/ \E v \in Regions : Use(v)
Spec == Init /\ [][Next]_vars

Symmetry == Permutations(Cpus)
------------------------------------------------------------------------------
\* Every variable keeps its type.
TypeOK ==
  /\ p2m \in [Pages -> {Entry(x, {}) : x \in OwnMfns} \cup {Invalid}]
  /\ m2p \in [OwnMfns -> Pages \cup {NoPfn}] /\ lin \in [Pages -> OwnMfns \cup {Void}]
  /\ owned \subseteq OwnMfns /\ dirty \subseteq OwnMfns
  /\ lock \in Cpus \cup {NoCpu}

\* Between operations, whether their exchanges succeeded or not, every page has
\* a frame of its own, the linear mapping and both tables agree on it, and the
\* domain has no frame beside these.
FramesConsistent ==
  /\ TypeOK
  /\ lock = NoCpu =>
       /\ \A p \in Pages : p2m[p] = Entry(lin[p], {}) /\ lin[p] \in owned /\ m2p[lin[p]] = p
       /\ owned = {lin[p] : p \in Pages}

\* A frame that goes back to the hypervisor holds no data of the domain, even
\* when the region's owner wrote to it up to the call.
CleanHandover == dirty \subseteq owned

\* Entries survive the way to machine frames and back: Linux reads what it
\* wrote, up to the I/O mark; an entry for a page that has no frame (one in the
\* middle of an exchange) is empty, never a wild mapping.
Busy(p) == \E v \in Regions : p \in RegionPages(v) /\ InUse(v)
Values == [frame : Pages \cup {IdentityPfn, ForeignPfn, MissingPfn},
           flags : SUBSET {"P", "IO", "PCD", "PWT"}]
RoundTrip(v, dom0, pat) ==
  LET made == xen_make_pte(v, dom0, pat)
      back == xen_pte_val(made, dom0)
      same == back.frame = v.frame /\ back.flags \ {"IO"} = v.flags \ {"IO"}
  IN /\ ~Present(v) => same
     /\ Present(v) /\ IsIomap(v, dom0) => made.frame = v.frame /\ (dom0 => back = v)
     /\ Present(v) /\ ~IsIomap(v, dom0) =>
          \/ Present(made) /\ same
          \/ ~Present(made) /\ made.flags = {} /\ (v.frame = MissingPfn \/ Busy(v.frame))
TranslationFaithful ==
  /\ \A v \in Values : \A dom0, pat \in BOOLEAN : RoundTrip(v, dom0, pat)
  /\ \A kind \in FixKinds, p \in Pages, dom0 \in BOOLEAN :
       kind \in {"local", "vsyscall"} /\ ~Busy(p) =>
         LET v == FixmapPte(kind, p, dom0, TRUE)
         IN /\ xen_pte_val(v, dom0) = Val(p, {"P"})
            /\ arbitrary_virt_to_machine(FALSE, p, v) = arbitrary_virt_to_machine(TRUE, p, v)

\* A remap that returns 0 has mapped the frames asked for, each at its place;
\* one that fails has mapped a beginning of them, and either way no TLB keeps
\* an old entry.
RemapExact ==
  \A c \in Cpus :
    /\ Len(umap[c]) <= NRemap
    /\ \A j \in DOMAIN umap[c] : umap[c][j] = NMfn + 3 + j
    /\ pc[c] = "mapped" => Len(umap[c]) = NRemap
    /\ pc[c] = "idle" => c \notin stale

\* The inductive invariant.  Frame: the frame of each page, which the holder of
\* the lock keeps in its array or as an extent while the address maps nothing.
Held(c, i) == IF FromArray(c) THEN frames[i] ELSE first[c] + i
Away == IF lock # NoCpu /\ pc[lock] \in {"exchange", "map"} THEN RegionPages(base[lock]) ELSE {}
Frame == [p \in Pages |-> IF p \in Away THEN Held(lock, p - base[lock]) ELSE lin[p]]
Locals ==
  /\ pc \in [Cpus -> {"idle", "lock", "zap", "exchange", "map", "remap", "mapped", "failed"}]
  /\ op \in [Cpus -> [kind : {"create", "destroy"}, ok : BOOLEAN]]
  /\ base \in [Cpus -> Nat] /\ at \in [Cpus -> 0 .. Len2 - 1] /\ first \in [Cpus -> Nat]
  /\ frames \in [0 .. Len2 - 1 -> Nat]
  /\ queued \in [Cpus -> Seq(Pages \X (OwnMfns \cup {Void}))]
  /\ umap \in [Cpus -> Seq(Nat)] /\ stale \subseteq Cpus
\* One CPU at a time changes the tables, and no two are at work on a region.
InOp(c) == pc[c] \in {"lock", "zap", "exchange", "map"}
Turns ==
  /\ \A c \in Cpus : pc[c] \in {"zap", "exchange", "map"} <=> lock = c
  /\ \A c \in Cpus : InOp(c) => base[c] \in Regions
  /\ \A c, d \in Cpus : InOp(c) /\ InOp(d) /\ base[c] = base[d] => c = d
\* Each page has its frame, and the tables say so, except for the pages that
\* are zapped.
Zapped ==
  IF lock = NoCpu THEN {}
  ELSE IF pc[lock] = "zap" THEN {p \in RegionPages(base[lock]) : p < base[lock] + at[lock]}
  ELSE IF pc[lock] = "map" THEN {p \in RegionPages(base[lock]) : p >= base[lock] + at[lock]}
  ELSE RegionPages(base[lock])
Tables ==
  /\ \A p \in Pages : Frame[p] \in owned /\ m2p[Frame[p]] = p
  /\ \A x \in owned : \E p \in Pages : Frame[p] = x
  /\ \A p \in Pages : p2m[p] = IF p \in Zapped THEN Invalid ELSE Entry(Frame[p], {})
\* A CPU that does not hold the lock has queued nothing; one that waits for it
\* to destroy a region knows an extent.
Extent(v) == \A i \in 0 .. Len2 - 1 : Frame[v + i] = Frame[v] + i
Waiting ==
  \A c \in Cpus \ {lock} :
    /\ at[c] = 0 /\ queued[c] = <<>>
    /\ pc[c] = "lock" => ~op[c].ok /\ (op[c].kind = "destroy" => Extent(base[c]))
\* What the holder has noted of its region, up to the page it is at.
Batch ==
  /\ pc[lock] = "exchange" => at[lock] = 0
  /\ Len(queued[lock]) = at[lock]
  /\ \A i \in 1 .. at[lock] :
       queued[lock][i] = <<base[lock] + (i - 1),
                           IF pc[lock] = "zap" THEN Void ELSE Held(lock, i - 1)>>
Notes ==
  /\ pc[lock] # "map" => ~op[lock].ok
  /\ pc[lock] = "zap" /\ op[lock].kind = "create" =>
       first[lock] = base[lock] /\ \A i \in 0 .. at[lock] - 1 : frames[i] = Frame[base[lock] + i]
  /\ pc[lock] = "zap" /\ op[lock].kind = "destroy" =>
       /\ first[lock] = Frame[base[lock]] /\ Extent(base[lock])
       /\ \A i \in 0 .. at[lock] - 1 : frames[i] = base[lock] + i
  /\ pc[lock] = "exchange" => \A i \in 0 .. Len2 - 1 : PfnFor(lock, i) = base[lock] + i
Clean ==
  /\ dirty \subseteq owned
  /\ \A c \in Cpus : pc[c] \in {"lock", "zap", "exchange"} =>
       \A p \in RegionPages(base[c]) : Frame[p] \notin dirty
FInv ==
  /\ TypeOK /\ Locals /\ Turns /\ Tables /\ Waiting /\ Clean
  /\ lock # NoCpu => Batch /\ Notes
Remapped ==
  /\ RemapExact
  /\ \A c \in Cpus : pc[c] \notin {"remap", "mapped", "failed"} => c \notin stale
IInv == FInv /\ Remapped
==============================================================================
