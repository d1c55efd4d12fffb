------------------------------- MODULE XenBoot -------------------------------
(***************************************************************************)
(* How the kernel takes over its page tables at boot                       *)
(* (arch/x86/xen/mmu.c): it leaves the tables the hypervisor built for its  *)
(* own ones, maps the rest of memory with pages that it turns into tables   *)
(* on the way, and at last hands the bookkeeping to the page flags.  One    *)
(* CPU, no interleaving: what can go wrong is the order.  A refused         *)
(* hypercall is a BUG, a store to a read-only page that is no pte table a   *)
(* fault, and at this point neither can be survived.                        *)
(*                                                                          *)
(* A function of the code is a script, the sequence of the stores and       *)
(* hypercalls it makes; one step carries out the next of them.  Both builds *)
(* are here: 64-bit, and 32-bit PAE.                                        *)
(***************************************************************************)
EXTENDS Integers, FiniteSets, SequencesExt

CONSTANTS
  NIdent,    \* pages of ptes in level1_ident_pgt (LEVEL1_IDENT_ENTRIES)
  MaxMem,    \* most pmds of memory beyond what the hypervisor mapped
  NBuf       \* pages set aside for the tables of one init_memory_mapping

ASSUME XenBootAssumption == NIdent \in Nat \ {0} /\ MaxMem \in Nat /\ NBuf \in Nat \ {0, 1}

VARIABLES
  width,    \* 64 or 32: which kernel
  dom0,     \* this is the initial domain
  mem,      \* pmds of memory beyond what the hypervisor mapped
  bufLow,   \* the pages for new tables lie in memory that is mapped already
  x,        \* ent: the entries of every table; pin, base: the hypervisor's
            \* roots; bufEnd: pgt_buf_end - 1; bug, oops: what has gone wrong
  todo,     \* what the function running now has left to do
  phase,    \* last function entered
  region,   \* pmd of memory to map next
  flag      \* pages with PagePinned set

vars == <<width, dom0, mem, bufLow, x, todo, phase, region, flag>>

------------------------------------------------------------------------------
(* Pages.  The tables the hypervisor built, and the kernel's own. *)

XL4 == <<"xen_l4">>
XL3 == <<"xen_l3">>
XL2 == <<"xen_l2">>
XL1 == <<"xen_l1">>
L4 == <<"init_level4_pgt">>
L3i == <<"level3_ident_pgt">>
L3k == <<"level3_kernel_pgt">>
L3v == <<"level3_user_vsyscall">>
L2i == <<"level2_ident_pgt">>
L2k == <<"level2_kernel_pgt">>
L2f == <<"level2_fixmap_pgt">>
Ipt == <<"initial_page_table">>
Ikp == <<"initial_kernel_pmd">>
Swp == <<"swapper_pg_dir">>
Skp == <<"swapper_kernel_pmd">>
Zero == <<"empty_zero_page">>
Fix == <<"bm_pte">>
Lo == <<"low_memory">>
Isa == <<"isa">>
Kmap == << <<"kmap", 1>>, <<"kmap", 2>> >>
L1i(k) == <<"level1_ident_pgt", k>>
Data(k) == <<"data", k>>
Buf(k) == [i \in 1..NBuf |-> <<"pgt_buf", k, i>>]

XenTables == IF width = 64 THEN {XL4, XL3, XL2, XL1} ELSE {XL3, XL2, XL1}
Own == {L1i(k) : k \in 1..NIdent} \cup {Fix} \cup
       IF width = 64 THEN {L4, L3i, L3k, L3v, L2i, L2k, L2f}
                     ELSE {Ipt, Ikp, Swp, Skp, Zero, Kmap[1], Kmap[2]}

Early == IF mem < NIdent THEN mem ELSE NIdent
Regions == (Early + 1)..mem
\* The frames of the k-th pmd of memory.
Frames(k) ==
  {Data(k)} \cup (IF ~bufLow THEN (IF k \in Regions THEN Range(Buf(k)) ELSE {})
                  ELSE IF k = 1 THEN UNION {Range(Buf(r)) : r \in Regions} ELSE {})
LowFrames == XenTables \cup Own \cup {Lo, Isa}
Memory == LowFrames \cup UNION {Frames(k) : k \in 1..mem}

------------------------------------------------------------------------------
(* Entries: as is "pfn" (a table by its pseudo-physical number), "table" (by *)
(* its machine number), or for a frame "ro", "rw" or "io".  A pte table has  *)
(* one entry at most for a frame, under the frame itself.                    *)

Entry(p, as) == [to |-> p, as |-> as]
At(i, p, as) == [s \in {i} |-> Entry(p, as)]
Nothing == [s \in {} |-> 0]
With(f, g) == [s \in DOMAIN f \cup DOMAIN g |-> IF s \in DOMAIN g THEN g[s] ELSE f[s]]
Without(f, s) == [r \in DOMAIN f \ {s} |-> f[r]]

Kids(e, p) == {e[p][s].to : s \in {s \in DOMAIN e[p] : e[p][s].as = "table"}}
Below(e, S) == S \cup UNION {Kids(e, p) : p \in S}
Reach(e, S) == Below(e, Below(e, Below(e, S)))
IsPte(y, t) == \A s \in DOMAIN y.ent[t] : y.ent[t][s].as \in {"ro", "rw", "io"}

(* The hypervisor, as the code relies on it: the pages it holds as tables, and *)
(* what it refuses: a table in pseudo-physical numbers, a writable mapping of  *)
(* a table, and (PAE) a kernel pmd below two roots.                            *)
Typed(y) == Reach(y.ent, y.pin \cup {y.base})
Sound(y) ==
  LET T == Typed(y) IN
  /\ \A p \in T : \A s \in DOMAIN y.ent[p] :
       /\ y.ent[p][s].as # "pfn"
       /\ y.ent[p][s].as = "rw" => y.ent[p][s].to \notin T
  /\ width = 32 => \A p, r \in T \cap {XL3, Ipt, Swp} :
       p # r => Kids(y.ent, p) \cap Kids(y.ent, r) = {}
Hyper(y, z) == IF Sound(z) THEN z ELSE [y EXCEPT !.bug = TRUE]

\* The pte table through which the live tables map frame f in the direct map.
Home(y, f) ==
  {t \in Reach(y.ent, {y.base}) \ {Fix} : IsPte(y, t) /\ f \in DOMAIN y.ent[t]}
As(y, f) == {y.ent[t][f].as : t \in Home(y, f)}

\* A plain store to page p: writable in the direct map or through a fixmap
\* slot, or a pte table, whose stores the hypervisor carries out itself.
Store(y, p, new) ==
  LET z == [y EXCEPT !.ent[p] = new]
  IN IF "rw" \in As(y, p) \/ (p \in DOMAIN y.ent[Fix] /\ y.ent[Fix][p].as = "rw")
     THEN Hyper(y, z)
     ELSE IF p \in Typed(y) /\ IsPte(y, p) THEN Hyper(y, z)
     ELSE [y EXCEPT !.oops = TRUE]

------------------------------------------------------------------------------
(* The pieces the scripts are made of. *)

\* m2v: from a machine number to the page.  (Of a pseudo-physical number it
\* makes some other page; Lo stands for that one.)
m2v(e) == IF e.as = "pfn" THEN Lo ELSE e.to

\* set_page_prot: a refusal is a BUG, an address that is not mapped too.
set_page_prot(y, f, as) ==
  IF Home(y, f) = {} THEN [y EXCEPT !.bug = TRUE]
  ELSE LET t == CHOOSE t \in Home(y, f) : TRUE
       IN Hyper(y, [y EXCEPT !.ent[t][f].as = as])

\* make_lowmem_page_readonly, make_lowmem_page_readwrite: nothing to do when
\* the direct map does not have the page yet.
make_lowmem_page(y, f, as) == IF Home(y, f) = {} THEN y ELSE set_page_prot(y, f, as)

\* pin_pagetable_pfn
pin_pagetable_pfn(y, p) == Hyper(y, [y EXCEPT !.pin = @ \cup {p}])
unpin_pagetable_pfn(y, p) ==
  IF p \in y.pin THEN [y EXCEPT !.pin = @ \ {p}] ELSE [y EXCEPT !.bug = TRUE]

\* convert_pfn_mfn: xen_make_pte of every entry of a table.
convert_pfn_mfn(e) ==
  [s \in DOMAIN e |-> [e[s] EXCEPT !.as = IF @ = "pfn" THEN "table" ELSE @]]

\* xen_map_identity_early, the inner loop: map what is not mapped.
FillIdent(e, fs) == [f \in DOMAIN e \cup fs |->
                       IF f \in DOMAIN e THEN e[f] ELSE Entry(f, "rw")]

\* Slip: pages for tables are mapped writable like any other.
mask_rw_pte_64_Not(y, t, f, k) == IF t = Fix /\ f # y.bufEnd THEN "ro" ELSE "rw"

\* mask_rw_pte of the 64-bit kernel, for frame f of region k in table t: the
\* pages set aside for tables are read-only, except in the fixmap slot through
\* which the newest of them is filled.
mask_rw_pte_64(y, t, f, k) ==
  IF \/ t # Fix /\ k # 0 /\ f \in Range(Buf(k))
     \/ t = Fix /\ f # y.bufEnd
  THEN "ro" ELSE "rw"

\* mask_rw_pte of the 32-bit kernel: what is read-only stays so.
mask_rw_pte_32(y, t, f) ==
  IF f \in DOMAIN y.ent[t] /\ y.ent[t][f].as = "ro" THEN "ro" ELSE "rw"

\* xen_set_pte_init of a writable mapping of each frame in fs.
xen_set_pte_init(y, t, fs, k) ==
  LET as(f) == IF width = 64 THEN mask_rw_pte_64(y, t, f, k) ELSE mask_rw_pte_32(y, t, f)
  IN Store(y, t, With(y.ent[t], [f \in fs |-> Entry(f, as(f))]))

------------------------------------------------------------------------------
(* One step of a script. *)

Do(y, o) ==
  CASE o.op = "store"    -> Store(y, o.p, o.new)
    [] o.op = "add"      -> Store(y, o.p, With(y.ent[o.p], o.new))
    [] o.op = "copy"     -> Store(y, o.p, y.ent[o.from])
    [] o.op = "zap"      -> Store(y, o.p, Without(y.ent[o.p], o.at))
    [] o.op = "convert"  -> Store(y, o.p, convert_pfn_mfn(y.ent[o.p]))
    [] o.op = "fill"     -> Store(y, o.p, FillIdent(y.ent[o.p], o.fs))
    [] o.op = "prot"     -> set_page_prot(y, o.p, o.as)
    [] o.op = "lowmem"   -> make_lowmem_page(y, o.p, o.as)
    [] o.op = "pin"      -> pin_pagetable_pfn(y, o.p)
    [] o.op = "unpin"    -> unpin_pagetable_pfn(y, o.p)
    [] o.op = "base"     -> Hyper(y, [y EXCEPT !.base = o.p])
    [] o.op = "link"     -> Hyper(y, [y EXCEPT !.ent[o.p] = With(@, o.new)])
    [] o.op = "alloc"    -> [y EXCEPT !.bufEnd = o.p]
    [] o.op = "setpte"   -> xen_set_pte_init(y, o.p, o.fs, o.k)
    [] o.op = "unmap"    -> Store(y, Fix, Without(y.ent[Fix], o.p))

Prot(p, as) == [op |-> "prot", p |-> p, as |-> as]
ReadOnly(ps) == [i \in DOMAIN ps |-> Prot(ps[i], "ro")]
Lowmem(p, as) == [op |-> "lowmem", p |-> p, as |-> as]
Pin(p) == [op |-> "pin", p |-> p]
Unpin(p) == [op |-> "unpin", p |-> p]
Base(p) == [op |-> "base", p |-> p]
Copy(from, p) == [op |-> "copy", from |-> from, p |-> p]
Add(p, new) == [op |-> "add", p |-> p, new |-> new]
Link(p, new) == [op |-> "link", p |-> p, new |-> new]
SetPtes(t, fs, k) == <<[op |-> "setpte", p |-> t, fs |-> fs, k |-> k]>>

\* xen_map_identity_early: the ptes the hypervisor's tables left free, then as
\* many fresh pages of ptes as memory asks for and level1_ident_pgt has.
xen_map_identity_early(pmd) ==
  <<[op |-> "fill", p |-> m2v(x.ent[XL2][0]), fs |-> LowFrames]>>
  \o FlattenSeq([k \in 1..Early |->
       <<Add(pmd, At(k, L1i(k), "table")),
         [op |-> "fill", p |-> L1i(k), fs |-> Frames(k)]>>])
  \o ReadOnly([k \in 1..Early |-> L1i(k)])
  \o <<Prot(pmd, "ro")>>

\* xen_setup_kernel_pagetable of the 64-bit kernel.
xen_setup_kernel_pagetable_64 ==
  LET l3 == m2v(x.ent[XL4][511])
      l2 == m2v(x.ent[l3][510])
  IN <<[op |-> "zap", p |-> L4, at |-> 0]>>
     \o [i \in 1..3 |-> [op |-> "convert", p |-> <<L4, L3i, L3k>>[i]]]
     \o <<Copy(l2, L2i), Copy(l2, L2k), Copy(l2, L2f)>>
     \o xen_map_identity_early(L2i)
     \o ReadOnly(<<L4, L3i, L3k, L3v, L2k, L2f>>)
     \o <<Pin(L4), Unpin(XL4), Base(L4)>>

\* xen_setup_kernel_pagetable of the 32-bit kernel.
xen_setup_kernel_pagetable_32 ==
  <<Copy(m2v(x.ent[XL3][3]), Ikp)>>
  \o xen_map_identity_early(Ikp)
  \o <<Copy(XL3, Ipt), Add(Ipt, At(3, Ikp, "table"))>>
  \o ReadOnly(<<Ikp, Ipt, Zero>>)
  \o <<Unpin(XL3), Pin(Ipt), Base(Ipt)>>

\* setup_arch clones initial_page_table into swapper_pg_dir, shared kernel pmd
\* and all, and loads it: xen_write_cr3_init.
xen_write_cr3_init ==
  <<Copy(Ipt, Swp), Copy(Ikp, Skp), Add(Swp, At(3, Skp, "table"))>>
  \o ReadOnly(<<Skp, Swp>>)
  \o <<Base(Swp), Pin(Swp), Unpin(Ipt), Prot(Ipt, "rw"), Prot(Ikp, "rw")>>

\* xen_ident_map_ISA: only the initial domain sees the real ISA range.
xen_ident_map_ISA == IF dom0 THEN <<Prot(Isa, "io")>> ELSE <<>>

\* A new table early in the boot, when all of init_mm is pinned.
xen_alloc_pte_init(p) == <<Lowmem(p, "ro"), Pin(p)>>
xen_alloc_pmd_init(p) == <<Lowmem(p, "ro")>>

\* Slip: the pin is forgotten.
xen_release_pte_init_Pinned(p) == <<>>

xen_release_pte_init(p) == <<Unpin(p), Lowmem(p, "rw")>>

\* Slip: all that was set aside stays as it is.
xen_mapping_pagetable_reserve_Only(k, used) == <<>>

\* xen_mapping_pagetable_reserve: what the mapping did not use is writable again.
xen_mapping_pagetable_reserve(k, used) ==
  [i \in 1..(NBuf - used) |-> Lowmem(Buf(k)[used + i], "rw")]

------------------------------------------------------------------------------
(* The callers, outside the sources, as far as they use these operations. *)

Pmd == IF width = 64 THEN L2i ELSE Skp

\* alloc_low_page and unmap_low_page of the 64-bit kernel: the newest page, by
\* a fixmap slot.
alloc_low_page(p) == <<[op |-> "alloc", p |-> p]>> \o SetPtes(Fix, {p}, 0)
                     \o <<[op |-> "store", p |-> p, new |-> Nothing]>>
unmap_low_page(p) == <<[op |-> "unmap", p |-> p]>>

\* init_memory_mapping of pmd k, with a new pmd page or below the one there is.
\* 64-bit: a pte page is filled, then given to the hypervisor; 32-bit: the
\* other way round, and all that is mapped already is mapped once more.
init_memory_mapping(k, newPmd) ==
  LET p == Buf(k)[1]
      t == Buf(k)[IF newPmd THEN 2 ELSE 1]
      filled == alloc_low_page(t) \o SetPtes(t, Frames(k), k) \o unmap_low_page(t)
                \o xen_alloc_pte_init(t)
  IN IF width = 32
     THEN <<[op |-> "store", p |-> t, new |-> Nothing]>> \o xen_alloc_pte_init(t)
          \o <<Link(Pmd, At(k, t, "table"))>>
          \o SetPtes(XL1, LowFrames, k)
          \o FlattenSeq([j \in 1..Early |-> SetPtes(L1i(j), Frames(j), k)])
          \o SetPtes(t, Frames(k), k)
     ELSE IF newPmd
     THEN alloc_low_page(p) \o filled \o <<Link(p, At(k, t, "table"))>>
          \o unmap_low_page(p) \o xen_alloc_pmd_init(p) \o <<Link(L3i, At(k, p, "table"))>>
     ELSE filled \o <<Link(Pmd, At(k, t, "table"))>>

\* early_ioremap_init gives bm_pte to the fixmap's pmd.
early_ioremap_init ==
  xen_alloc_pte_init(Fix) \o <<Link(IF width = 64 THEN L2f ELSE Skp, At(506, Fix, "table"))>>

\* page_table_kmap_check moves a pte page: the new one in, the old one out.
page_table_kmap_check ==
  xen_alloc_pte_init(Kmap[1]) \o <<Link(Skp, At(400, Kmap[1], "table")),
                                   Copy(Kmap[1], Kmap[2])>>
  \o xen_alloc_pte_init(Kmap[2]) \o <<Link(Skp, At(400, Kmap[2], "table"))>>
  \o xen_release_pte_init(Kmap[1])

------------------------------------------------------------------------------
(* The boot. *)

\* The machine as the hypervisor hands it over: its own tables, pinned, its
\* own pages read-only in them; the kernel's tables as head_64.S has them.
Given ==
  LET xl1 == [f \in LowFrames \ {Lo, Isa} |-> Entry(f, IF f \in XenTables THEN "ro" ELSE "rw")]
      root == IF width = 64 THEN XL4 ELSE XL3
      ent == [p \in Memory |->
                CASE p = XL4 -> At(511, XL3, "table")
                  [] p = XL3 -> At(IF width = 64 THEN 510 ELSE 3, XL2, "table")
                  [] p = XL2 -> At(0, XL1, "table")
                  [] p = XL1 -> xl1
                  [] p = L4  -> With(At(0, L3i, "pfn"),
                                     With(At(272, L3i, "pfn"), At(511, L3k, "pfn")))
                  [] p = L3i -> At(0, L2i, "pfn")
                  [] p = L3k -> With(At(510, L2k, "pfn"), At(511, L2f, "pfn"))
                  [] OTHER   -> Nothing]
  IN [ent |-> ent, pin |-> {root}, base |-> root, bufEnd |-> Lo,
      bug |-> FALSE, oops |-> FALSE]

Init ==
  /\ width \in {32, 64} /\ dom0 \in BOOLEAN /\ mem \in 0..MaxMem
  /\ bufLow \in IF width = 64 THEN BOOLEAN ELSE {TRUE}
  /\ x = Given
  /\ todo = <<>> /\ phase = "given" /\ region = Early + 1 /\ flag = {}

Fixed == UNCHANGED <<width, dom0, mem, bufLow>>
Enter(from, to, script) ==
  /\ todo = <<>> /\ ~x.bug /\ ~x.oops
  /\ phase \in from /\ phase' = to
  /\ todo' = script

\* The next store or hypercall of the function that runs.
Step ==
  /\ todo # <<>> /\ ~x.bug /\ ~x.oops
  /\ x' = Do(x, Head(todo))
  /\ todo' = Tail(todo)
  /\ UNCHANGED <<phase, region, flag>> /\ Fixed

SetupKernelPagetable ==
  /\ Enter({"given"}, "setup", IF width = 64 THEN xen_setup_kernel_pagetable_64
                                             ELSE xen_setup_kernel_pagetable_32)
  /\ UNCHANGED <<x, region, flag>> /\ Fixed

IdentMapISA ==
  /\ Enter({"setup"}, "isa", xen_ident_map_ISA)
  /\ UNCHANGED <<x, region, flag>> /\ Fixed

LoadSwapper ==
  /\ width = 32
  /\ Enter({"isa"}, "swapper", xen_write_cr3_init)
  /\ UNCHANGED <<x, region, flag>> /\ Fixed

EarlyIoremapInit ==
  /\ Enter(IF width = 64 THEN {"isa"} ELSE {"swapper"}, "ioremap", early_ioremap_init)
  /\ UNCHANGED <<x, region, flag>> /\ Fixed

MapRegion ==
  /\ region \in Regions
  /\ \E newPmd \in IF width = 64 THEN BOOLEAN ELSE {FALSE} :
       Enter({"ioremap"}, "ioremap",
             init_memory_mapping(region, newPmd)
             \o xen_mapping_pagetable_reserve(region, IF newPmd THEN 2 ELSE 1))
  /\ region' = region + 1
  /\ UNCHANGED <<x, flag>> /\ Fixed

KmapCheck ==
  /\ width = 32 /\ region \notin Regions
  /\ Enter({"ioremap"}, "kmap", page_table_kmap_check)
  /\ UNCHANGED <<x, region, flag>> /\ Fixed

\* xen_mark_init_mm_pinned: xen_pgd_walk over init_mm.
InitMmTables(e, pgd) == Reach(e, {pgd})

\* xen_pagetable_setup_done: from here on the flags say what is pinned
\* (xen_post_allocator_init).
SetupDone ==
  /\ region \notin Regions
  /\ Enter({"ioremap", "kmap"}, "done", <<>>)
  /\ flag' = InitMmTables(x.ent, IF width = 64 THEN L4 ELSE Swp)
             \cup IF width = 64 THEN {L3v} ELSE {}
  /\ UNCHANGED <<x, region>> /\ Fixed

\* The kernel goes on with its flags; nothing of this module runs again.
Booted == phase = "done" /\ UNCHANGED vars

Next ==
  \/ Step \/ SetupKernelPagetable \/ IdentMapISA \/ LoadSwapper
  \/ EarlyIoremapInit \/ MapRegion \/ KmapCheck \/ SetupDone \/ Booted

Spec == Init /\ [][Next]_vars

------------------------------------------------------------------------------
(* Properties. *)

\* The hypervisor refuses nothing (every refusal is a BUG() of
\* pin_pagetable_pfn, set_page_prot or make_lowmem_page_*), and no store hits a
\* page that is read-only already: the order in which tables are filled, made
\* read-only, pinned and loaded is right for every size of memory.
BootSurvives == ~x.bug /\ ~x.oops

\* When xen_post_allocator_init hands over to the page flags, the pages marked
\* pinned are exactly those the hypervisor holds as tables (and the vsyscall
\* table, which only user pgds refer to), and the direct map has all of them
\* read-only.
FlagsMatchXen ==
  phase = "done" => /\ flag \ {L3v} = Typed(x)
                    /\ \A p \in flag : As(x, p) = {"ro"}

\* After the boot all of memory is in the direct map, and whatever is neither a
\* table nor one of the hypervisor's old ones can be written: no page lent to
\* the mapping stays read-only for its next owner.
MemoryHandedBack ==
  phase = "done" =>
    \A f \in Memory \ (Typed(x) \cup XenTables \cup {L3v, Zero}) :
      \/ As(x, f) = {"rw"}
      \/ f = Isa /\ dom0 /\ As(x, f) = {"io"}

\* What the boot leaves behind: every page is a table, flagged, pinned and
\* read-only, or free to be written.
PagesSettled == FlagsMatchXen /\ MemoryHandedBack

==============================================================================
