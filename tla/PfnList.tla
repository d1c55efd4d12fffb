------------------------------ MODULE PfnList -------------------------------
(***************************************************************************)
(* The pages of a process in a report (malpage.c): pfnlist_vmarea walks    *)
(* the process's memory regions, pfnlist_mkunique drops the frames found   *)
(* twice, pfnlist_mkarray copies the list, and malpage_report grants every *)
(* frame to dom0.                                                          *)
(*                                                                         *)
(* The process goes on meanwhile: the SIGSTOP it was sent takes effect     *)
(* later, a killed process is gone at once, and the kernel may take a page *)
(* back at any time.  Regions change under mmap_sem, which the walk holds; *)
(* page table entries do not need it (page_table_lock does not guard them  *)
(* on a kernel with split page table locks).                               *)
(*                                                                         *)
(* pc = "undefined": the code has used a pointer to nothing.               *)
(***************************************************************************)
EXTENDS Integers, Sequences, FiniteSets, SequencesExt

CONSTANTS NPages,      \* pages of the address space
          Frames,      \* machine frames
          TableSize,   \* entries of the grant table
          MaxReports,  \* bound: reports
          MaxChanges   \* bound: changes of the regions and the page table

ASSUME SizeAssumption == NPages \in Nat \ {0}
ASSUME BoundAssumption == {TableSize, MaxReports, MaxChanges} \subseteq Nat
ASSUME FramesAssumption == Frames \subseteq Nat \ {0}

VARIABLES
    vmas,      \* the memory regions of the process
    pt,        \* its page table
    life,      \* running, stopped or gone
    changes,   \* changes of the two so far
    pc,        \* the reporter in malpage_report
    root,      \* pfn_root: not set (junk or NULL), or a node
    cur,       \* current_vma
    total,     \* vma_total, map_count when the walk began
    walked,    \* vma_count
    length,    \* current_vma_vm_length, in half pages
    list,      \* the list of frames
    front,     \* pfnlist_mkunique: the node whose copies are sought
    pfns,      \* rep->pfn_list
    grefs,     \* rep->gref_list; 0 where the grant failed
    used,      \* grants in use: none is ever ended
    reports,   \* reports begun
    must,      \* history: pages that keep their frame during the walk, with it
    may,       \* history: frames the process has at some time of the walk
    grown,     \* history: a region was added after the head and the count were read
    stale      \* history: the region read as the head is gone

procVars == <<vmas, pt, life, changes>>
walkVars == <<root, cur, total, walked, length, list>>
histVars == <<must, may, grown, stale>>
vars == <<procVars, pc, walkVars, front, pfns, grefs, used, reports, histVars>>

Region == {r \in [start : 0..NPages, end : 0..NPages] : r.start < r.end}
Pte == [present : BOOLEAN, mfn : Frames \cup {0}]
None == [present |-> FALSE, mfn |-> 0]
Page == 0..(NPages - 1)

In(p, r) == r.start <= p /\ p < r.end
Disjoint(r, s) == r.end <= s.start \/ s.end <= r.start
Lowest(S) == CHOOSE r \in S : \A s \in S : r.start <= s.start
Mapped(table) == {table[p].mfn : p \in {q \in Page : table[q].present}}

Init ==
    /\ vmas \in {V \in SUBSET Region : V # {} /\ \A r, s \in V : r = s \/ Disjoint(r, s)}
    /\ pt \in [Page -> {None} \cup [present : {TRUE}, mfn : Frames]]
    /\ \A p \in Page : pt[p] = None \/ \E r \in vmas : In(p, r)
    /\ life = "running" /\ changes = 0
    /\ pc = "idle" /\ root = "null" /\ cur = Lowest(vmas)
    /\ total = 0 /\ walked = 0 /\ length = 0 /\ list = <<>> /\ front = 1
    /\ pfns = <<>> /\ grefs = <<>> /\ used = 0 /\ reports = 0
    /\ must = {} /\ may = {} /\ grown = FALSE /\ stale = FALSE
-----------------------------------------------------------------------------
(* The process and the kernel it runs on. *)
Walking == pc = "walk"
Change == changes < MaxChanges /\ changes' = changes + 1

Fault(p, f) ==
    /\ Change /\ life = "running" /\ ~pt[p].present
    /\ \E r \in vmas : In(p, r)
    /\ pt' = [pt EXCEPT ![p] = [present |-> TRUE, mfn |-> f]]
    /\ may' = IF Walking THEN may \cup {f} ELSE may
    /\ UNCHANGED <<vmas, life, pc, walkVars, front, pfns, grefs, used, reports,
                   must, grown, stale>>

(* The frame is taken; the entry keeps where the page went. *)
Reclaim(p) ==
    /\ Change /\ life # "gone" /\ pt[p].present
    /\ pt' = [pt EXCEPT ![p].present = FALSE]
    /\ must' = IF Walking THEN must \ {<<p, pt[p].mfn>>} ELSE must
    /\ UNCHANGED <<vmas, life, pc, walkVars, front, pfns, grefs, used, reports,
                   may, grown, stale>>

Mmap(r) ==
    /\ Change /\ life = "running" /\ ~Walking
    /\ \A s \in vmas : Disjoint(r, s)
    /\ vmas' = vmas \cup {r}
    /\ grown' = (grown \/ pc = "begun")
    /\ UNCHANGED <<pt, life, pc, walkVars, front, pfns, grefs, used, reports,
                   must, may, stale>>

Munmap(r) ==
    /\ Change /\ life = "running" /\ ~Walking
    /\ vmas # {r}
    /\ vmas' = vmas \ {r}
    /\ pt' = [p \in Page |-> IF In(p, r) THEN None ELSE pt[p]]
    /\ stale' = (stale \/ (pc = "begun" /\ r = cur))
    /\ UNCHANGED <<life, pc, walkVars, front, pfns, grefs, used, reports,
                   must, may, grown>>

Stop == /\ life = "running" /\ life' = "stopped"
        /\ UNCHANGED <<vmas, pt, changes, pc, walkVars, front, pfns, grefs,
                       used, reports, histVars>>

(* exit_mm: task->mm is NULL, and the memory descriptor goes. *)
Exit == /\ life # "gone" /\ life' = "gone"
        /\ UNCHANGED <<vmas, pt, changes, pc, walkVars, front, pfns, grefs,
                       used, reports, histVars>>
-----------------------------------------------------------------------------
(* The reporter.  Names with an underscore are the same code with a        *)
(* plausible slip in it; the specification does not use them.              *)

(* malpage_report, malpage_generate_report and the start of pfnlist_vmarea *)
(* before it takes a lock.  pfn_root has no initial value.                 *)
Begin ==
    /\ pc \in {"idle", "done"} /\ reports < MaxReports
    /\ reports' = reports + 1
    /\ IF life = "gone"
       THEN pc' = "undefined" /\ UNCHANGED <<root, cur, total>>
       ELSE /\ pc' = "begun"
            /\ root' \in {"null", "junk"}
            /\ cur' = Lowest(vmas) /\ total' = Cardinality(vmas)
    /\ walked' = 0 /\ length' = 0 /\ list' = <<>> /\ front' = 1
    /\ pfns' = <<>> /\ grefs' = <<>>
    /\ must' = {} /\ may' = {} /\ grown' = FALSE /\ stale' = FALSE
    /\ UNCHANGED <<procVars, used>>

Length(r) == 2 * (r.end - r.start)

(* down_read(mmap_sem), page_table_lock, and the first region. *)
Lock ==
    /\ pc = "begun"
    /\ IF stale \/ life = "gone"
       THEN pc' = "undefined" /\ UNCHANGED <<length, must, may>>
       ELSE /\ pc' = "walk" /\ length' = Length(cur)
            /\ must' = {<<p, pt[p].mfn>> : p \in {q \in Page : pt[q].present}}
            /\ may' = Mapped(pt)
    /\ UNCHANGED <<procVars, root, cur, total, walked, list, front, pfns, grefs,
                   used, reports, grown, stale>>

AddrToMfn_Unchecked(h) == IF h \div 2 \in Page THEN pt[h \div 2].mfn ELSE 0

(* addr_to_mfn, for the address of a half page. *)
AddrToMfn(h) ==
    IF h \div 2 \in Page /\ pt[h \div 2].present THEN pt[h \div 2].mfn ELSE 0

NextLength_Stuck(n) == IF n < 2 THEN 1 ELSE n - 1
NextLength(n) == IF n < 1 THEN 0 ELSE n - 1

MoreVmas_OneShort(after) == after # {} /\ walked + 2 < total
MoreVmas(after) == after # {} /\ walked + 1 < total

(* One address of a region: its frame goes to the end of the list.  After  *)
(* the address vm_end itself comes the next region, and after the last one *)
(* the locks are given back.                                               *)
Look ==
    /\ pc = "walk" /\ life # "gone"
    /\ LET mfn == AddrToMfn(2 * cur.end - length)
           after == {r \in vmas : r.start >= cur.end}
       IN  /\ ~(mfn > 0 /\ root = "junk")
           /\ list' = IF mfn > 0 THEN Append(list, mfn) ELSE list
           /\ root' = IF mfn > 0 THEN "node" ELSE root
           /\ IF length > 0
              THEN length' = NextLength(length) /\ UNCHANGED <<pc, cur, walked>>
              ELSE /\ walked' = walked + 1
                   /\ IF MoreVmas(after)
                      THEN /\ cur' = Lowest(after) /\ length' = Length(Lowest(after))
                           /\ UNCHANGED pc
                      ELSE pc' = "unique" /\ UNCHANGED <<cur, length>>
    /\ UNCHANGED <<procVars, total, front, pfns, grefs, used, reports, histVars>>

(* The first page is linked behind a junk root, or the regions vanish. *)
LookUndefined ==
    /\ pc = "walk"
    /\ \/ life = "gone"
       \/ root = "junk" /\ AddrToMfn(2 * cur.end - length) > 0
    /\ pc' = "undefined"
    /\ UNCHANGED <<procVars, walkVars, front, pfns, grefs, used, reports, histVars>>
-----------------------------------------------------------------------------
(* pfnlist_find_parent_of: the nodes behind front with its frame. *)
Copies == {j \in (front + 1)..Len(list) : list[j] = list[front]}

(* pfnlist_mkunique. *)
Unlink ==
    /\ pc = "unique" /\ root # "junk" /\ front <= Len(list) /\ Copies # {}
    /\ \E j \in Copies : /\ \A k \in Copies : j <= k
                         /\ list' = RemoveAt(list, j)
    /\ UNCHANGED <<procVars, pc, root, cur, total, walked, length, front, pfns,
                   grefs, used, reports, histVars>>

NextFront ==
    /\ pc = "unique" /\ root # "junk" /\ front <= Len(list) /\ Copies = {}
    /\ front' = front + 1
    /\ UNCHANGED <<procVars, pc, walkVars, pfns, grefs, used, reports, histVars>>

(* pfnlist_size, pfnlist_mkarray.  The list is not freed. *)
MkArray ==
    /\ pc = "unique"
    /\ IF root = "junk"
       THEN pc' = "undefined" /\ UNCHANGED pfns
       ELSE front > Len(list) /\ pfns' = list /\ pc' = "grant"
    /\ UNCHANGED <<procVars, walkVars, front, grefs, used, reports, histVars>>

(* malpage_grant_mfn.  The error of a full table is kept as a reference:   *)
(* gref is unsigned and never below 0.                                     *)
Grant ==
    /\ pc = "grant" /\ Len(grefs) < Len(pfns)
    /\ IF used < TableSize
       THEN used' = used + 1 /\ grefs' = Append(grefs, used + 1)
       ELSE grefs' = Append(grefs, 0) /\ UNCHANGED used
    /\ UNCHANGED <<procVars, pc, walkVars, front, pfns, reports, histVars>>

(* malpage_xs_report, and malpage_report returns. *)
Done ==
    /\ pc = "grant" /\ Len(grefs) = Len(pfns)
    /\ pc' = "done"
    /\ UNCHANGED <<procVars, walkVars, front, pfns, grefs, used, reports, histVars>>
-----------------------------------------------------------------------------
Process == \/ Stop \/ Exit
           \/ \E p \in Page : Reclaim(p) \/ \E f \in Frames : Fault(p, f)
           \/ \E r \in Region : Mmap(r)
           \/ \E r \in vmas : Munmap(r)
Reporter == \/ Lock \/ Look \/ LookUndefined \/ Unlink \/ NextFront
            \/ MkArray \/ Grant \/ Done
Next == Process \/ Begin \/ Reporter

Spec == Init /\ [][Next]_vars

(* The reporter thread runs; nobody has to fault or to ask for a report. *)
FairSpec == Spec /\ WF_vars(Reporter)
-----------------------------------------------------------------------------
(* Properties. *)

(* Every variable keeps its type. *)
TypeOK ==
    /\ vmas \in SUBSET Region /\ vmas # {}
    /\ pt \in [Page -> Pte] /\ life \in {"running", "stopped", "gone"}
    /\ changes \in 0..MaxChanges
    /\ pc \in {"idle", "begun", "walk", "unique", "grant", "done", "undefined"}
    /\ root \in {"null", "junk", "node"} /\ cur \in Region
    /\ total \in Nat /\ walked \in Nat /\ length \in 0..(2 * NPages)
    /\ list \in Seq(Frames) /\ front \in Nat \ {0}
    /\ pfns \in Seq(Frames) /\ grefs \in Seq(0..TableSize) /\ used \in 0..TableSize
    /\ reports \in 0..MaxReports
    /\ must \subseteq Page \X Frames /\ may \subseteq Frames
    /\ grown \in BOOLEAN /\ stale \in BOOLEAN

(* A frame is reported once, although the walk looks at every page twice,  *)
(* at vm_end once more, and processes map one frame at several pages.      *)
FrameOnce == \A i, j \in 1..Len(pfns) : pfns[i] = pfns[j] => i = j

(* Only frames that the process had while its regions were locked are      *)
(* granted to dom0: the walk looks past the end of every region.           *)
OwnFrames == \A i \in 1..Len(pfns) : pfns[i] \in may

(* A report names the process's own frames, each of them once. *)
ListSound == FrameOnce /\ OwnFrames

(* A report holds the frame of every page that kept it during the walk,    *)
(* whatever comes and goes at other addresses meanwhile, unless a region   *)
(* was added after the head of the regions and their number were read,     *)
(* which is before mmap_sem is taken.                                      *)
Complete ==
    (pc = "done" /\ ~grown) => \A m \in must : \E i \in 1..Len(pfns) : pfns[i] = m[2]

(* The inductive invariant: what the list holds while it is made. *)
Found ==
    /\ \A p \in Page : pt[p].present => pt[p].mfn \in Frames
    /\ pc = "walk" => Mapped(pt) \subseteq may
    /\ pc \in {"begun", "walk"} => front = 1
    /\ pc = "begun" => list = <<>>
    /\ pc \in {"idle", "begun", "walk", "unique"} => pfns = <<>>
    /\ pc \in {"walk", "unique"} => \A i \in 1..Len(list) : list[i] \in may
FrontUnique ==
    \A i, j \in 1..Len(list) : (i < front /\ i < j) => list[i] # list[j]
IInv == TypeOK /\ Found /\ FrontUnique /\ FrameOnce /\ OwnFrames

(* For Complete: where the frame of a page that keeps it is, or where the  *)
(* walk will still find it.  The count of regions, read without a lock, is *)
(* at least that of the regions still to come.                             *)
Listed(f, s) == \E i \in 1..Len(s) : s[i] = f
After(r) == {s \in vmas : s.start >= r.end}
Ahead(p) == \/ In(p, cur) /\ 2 * p + 1 >= 2 * cur.end - length
            \/ \E r \in After(cur) : In(p, r)
Regions ==
    /\ \A r, s \in vmas : r = s \/ Disjoint(r, s)
    /\ \A p \in Page : pt[p].present => \E r \in vmas : In(p, r)
Counted ==
    /\ pc = "begun" => /\ walked = 0 /\ Cardinality(vmas) <= total
                       /\ ~stale => cur \in vmas /\ \A r \in vmas : cur.start <= r.start
    /\ pc = "walk" => walked + 1 + Cardinality(After(cur)) <= total
Kept(m) ==
    /\ pc = "walk" => /\ pt[m[1]].present /\ pt[m[1]].mfn = m[2]
                      /\ Listed(m[2], list) \/ Ahead(m[1])
    /\ pc = "unique" => Listed(m[2], list)
    /\ pc \in {"grant", "done"} => Listed(m[2], pfns)
Covered == ~grown => Counted /\ \A m \in must : Kept(m)
CInv == IInv /\ Regions /\ Covered

(* Every report ends: both loops of the walk, the two of pfnlist_mkunique  *)
(* and the grants.                                                         *)
ReportEnds == (pc = "begun") ~> (pc \in {"done", "undefined"})
=============================================================================
