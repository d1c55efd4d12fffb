---------------------------- MODULE XenFramesProofs ----------------------------
(***************************************************************************)
(* Proofs about XenFrames for any number of CPUs, regions and frames and a  *)
(* region of any length: the tables agree on one frame for every page,      *)
(* frames go back without data, entries survive the translation both ways   *)
(* and a remap maps what it is asked to map.                                *)
(***************************************************************************)
EXTENDS XenFrames, SequenceTheorems, TLAPS

USE XenFramesAssumption

------------------------------------------------------------------------------
(* Regions *)

LEMMA Products ==
  ASSUME NEW a \in Nat, NEW b \in Nat, NEW n \in Nat, a < b
  PROVE  a * n + n <= b * n
<1>1. PICK k \in Nat : b = a + 1 + k
  <2>1. b - a - 1 \in Nat /\ b = a + 1 + (b - a - 1)
    OBVIOUS
  <2> QED
    BY <2>1
<1>2. (a + 1 + k) * n = a * n + n + k * n
  OBVIOUS
<1>3. k * n \in Nat /\ a * n \in Nat
  OBVIOUS
<1>4. b * n = a * n + n + k * n
  BY <1>1, <1>2
<1> QED
  BY <1>3, <1>4

LEMMA RegionFacts ==
  ASSUME NEW v \in Regions
  PROVE  /\ v \in Nat /\ v + Len2 <= NRegions * Len2 /\ NRegions * Len2 \in Nat
         /\ RegionPages(v) \subseteq Pages
         /\ \A i \in 0 .. Len2 - 1 : v + i \in RegionPages(v) /\ v + i \in Pages
         /\ \A p \in RegionPages(v) : p - v \in 0 .. Len2 - 1 /\ v + (p - v) = p /\ v <= p
         /\ v \in RegionPages(v)
<1>1. PICK r \in 0 .. NRegions - 1 : v = r * Len2
  BY DEF Regions
<1>2. r \in Nat /\ r < NRegions /\ r * Len2 \in Nat /\ NRegions * Len2 \in Nat
  <2>1. r \in Nat /\ r < NRegions
    OBVIOUS
  <2>2. \A a, b \in Nat : a * b \in Nat
    OBVIOUS
  <2> QED
    BY <2>1, <2>2
<1>3. v \in Nat /\ v + Len2 <= NRegions * Len2
  BY <1>1, <1>2, Products
<1>4. /\ \A i \in 0 .. Len2 - 1 : v + i \in v .. v + Len2 - 1 /\ v + i \in 0 .. NRegions * Len2 - 1
      /\ \A p \in v .. v + Len2 - 1 : p - v \in 0 .. Len2 - 1 /\ v + (p - v) = p /\ v <= p
                                      /\ p \in 0 .. NRegions * Len2 - 1
      /\ v \in v .. v + Len2 - 1
  BY <1>2, <1>3
<1> QED
  BY <1>2, <1>3, <1>4 DEF RegionPages, Pages

LEMMA RegionsApart ==
  ASSUME NEW v \in Regions, NEW w \in Regions, v # w
  PROVE  RegionPages(v) \cap RegionPages(w) = {}
<1>1. PICK r \in 0 .. NRegions - 1 : v = r * Len2
  BY DEF Regions
<1>2. PICK s \in 0 .. NRegions - 1 : w = s * Len2
  BY DEF Regions
<1>3. r \in Nat /\ s \in Nat /\ v \in Nat /\ w \in Nat /\ r # s
  BY <1>1, <1>2, RegionFacts
<1>4. v + Len2 <= w \/ w + Len2 <= v
  <2>1. CASE r < s
    BY <1>1, <1>2, <1>3, <2>1, Products
  <2>2. CASE s < r
    BY <1>1, <1>2, <1>3, <2>2, Products
  <2> QED
    BY <1>3, <2>1, <2>2
<1> QED
  BY <1>3, <1>4 DEF RegionPages

(* Pages are pseudo-physical; their frames are numbered below NMfn too. *)
LEMMA PageFacts ==
  /\ Pages \subseteq OwnMfns /\ Pages \subseteq Nat /\ OwnMfns \subseteq Nat
  /\ IdentityPfn \notin OwnMfns /\ ForeignPfn \notin OwnMfns /\ MissingPfn \notin OwnMfns
  /\ ForeignMfn \notin OwnMfns /\ Void \notin OwnMfns /\ Void \notin Nat /\ NoPfn \notin Nat
<1>1. NRegions * Len2 \in Nat
  <2>1. \A a, b \in Nat : a * b \in Nat
    OBVIOUS
  <2> QED
    BY <2>1
<1> QED
  BY <1>1 DEF Pages, OwnMfns, IdentityPfn, ForeignPfn, MissingPfn, ForeignMfn, Void, NoPfn

LEMMA EntryFacts ==
  /\ \A x, y, m, n : Entry(x, m) = Entry(y, n) <=> x = y /\ m = n
  /\ \A x, m : Entry(x, m).mfn = x /\ Entry(x, m).marks = m
  /\ \A x : Entry(x, {}) # Invalid
<1>1. Marks # {}
  BY DEF Marks
<1> QED
  BY <1>1 DEF Entry, Invalid
------------------------------------------------------------------------------
(* xen_remap_domain_mfn_range *)

(* The entries of a batch hold the frames asked for: they are I/O mappings, *)
(* which xen_make_pte leaves as they are.                                   *)
LEMMA BatchIs ==
  ASSUME NEW c, NEW n
  PROVE  BatchFrames(c, n) = [j \in 1 .. n |-> NMfn + 3 + Len(umap[c]) + j]
<1>1. \A x : xen_make_pte(Val(x, {"P", "IO"}), TRUE, FALSE).frame = x
  BY DEF xen_make_pte, IsIomap, ToXenPat, Val
<1> QED
  BY <1>1 DEF BatchFrames

LEMMA BatchExtends ==
  ASSUME Locals, Remapped, NEW c \in Cpus, NEW n \in 0 .. BatchSize(c)
  PROVE  LET u == umap[c] \o BatchFrames(c, n)
         IN  /\ u \in Seq(Nat) /\ Len(u) = Len(umap[c]) + n /\ Len(u) <= NRemap
             /\ \A j \in DOMAIN u : u[j] = NMfn + 3 + j
<1> DEFINE s == umap[c]
           b == BatchFrames(c, n)
           u == s \o b
<1>1. /\ s \in Seq(Nat) /\ Len(s) \in Nat /\ Len(s) <= NRemap
      /\ \A j \in 1 .. Len(s) : s[j] = NMfn + 3 + j
  BY LenProperties, SMTT(30) DEF Locals, Remapped, RemapExact
<1>2. n \in Nat /\ n <= NRemap - Len(s)
  BY <1>1 DEF BatchSize
<1>3. b = [j \in 1 .. n |-> NMfn + 3 + Len(s) + j]
  BY BatchIs
<1> HIDE DEF s
<1>4. PICK l \in Nat : l = Len(s)
  BY <1>1
<1>10. \A j \in 1 .. n : NMfn + 3 + l + j \in Nat
  BY <1>2
<1>11. b = [j \in 1 .. n |-> NMfn + 3 + l + j]
  BY <1>3, <1>4
<1>5. b \in Seq(Nat) /\ Len(b) = n /\ \A j \in 1 .. n : b[j] = NMfn + 3 + Len(s) + j
  BY <1>2, <1>4, <1>10, <1>11
<1> HIDE DEF b
<1>6. /\ u \in Seq(Nat) /\ Len(u) = Len(s) + n
      /\ \A i \in 1 .. Len(s) + n : u[i] = IF i <= Len(s) THEN s[i] ELSE b[i - Len(s)]
  BY <1>1, <1>5, ConcatProperties, ZenonT(30)
<1> HIDE DEF u
<1>7. DOMAIN u = 1 .. Len(s) + n
  BY <1>6, LenProperties
<1>8. ASSUME NEW j \in 1 .. Len(s) + n PROVE u[j] = NMfn + 3 + j
  <2>1. CASE j <= Len(s)
    <3>1. j \in 1 .. Len(s)
      BY <1>1, <1>2, <2>1
    <3> QED
      BY <1>1, <1>6, <2>1, <3>1
  <2>2. CASE ~(j <= Len(s))
    <3>1. j - Len(s) \in 1 .. n
      BY <1>1, <1>2, <2>2
    <3>2. u[j] = NMfn + 3 + Len(s) + (j - Len(s))
      BY <1>5, <1>6, <2>2, <3>1
    <3> QED
      BY <1>1, <1>2, <3>2
  <2> QED
    BY <2>1, <2>2
<1>9. Len(u) <= NRemap
  BY <1>1, <1>2, <1>6
<1> QED
  BY <1>6, <1>7, <1>8, <1>9 DEF u, s, b

Remapping(c) == RemapStart(c) \/ RemapDone(c) \/ RemapFailed(c) \/ RemapReturn(c)

(* A remap changes nothing but what it maps, its place, and whose TLBs are old. *)
LEMMA RemapSteps ==
  ASSUME Locals, Remapped, NEW c \in Cpus, Remapping(c)
  PROVE  /\ Remapped' /\ umap' \in [Cpus -> Seq(Nat)] /\ stale' \subseteq Cpus
         /\ \E s \in {"idle", "remap", "mapped", "failed"} : pc' = [pc EXCEPT ![c] = s]
         /\ pc[c] \in {"idle", "remap", "mapped", "failed"}
         /\ UNCHANGED <<p2m, m2p, lin, owned, dirty, lock, op, base, at, first, frames, queued>>
<1>1. /\ UNCHANGED <<p2m, m2p, lin, owned, dirty, lock, op, base, at, first, frames, queued>>
      /\ pc[c] \in {"idle", "remap", "mapped", "failed"}
  BY DEF Remapping, RemapStart, RemapDone, RemapFailed, RemapReturn, tables
<1>2. ASSUME NEW u \in Seq(Nat), NEW s \in {"idle", "remap", "mapped", "failed"},
             umap' = [umap EXCEPT ![c] = u], pc' = [pc EXCEPT ![c] = s],
             Len(u) <= NRemap, \A j \in DOMAIN u : u[j] = NMfn + 3 + j,
             s = "mapped" => Len(u) = NRemap,
             \/ stale' = stale \cup {c} /\ s # "idle"
             \/ stale' = stale \ {c}
             \/ stale' = stale /\ s # "idle"
      PROVE  Remapped' /\ umap' \in [Cpus -> Seq(Nat)] /\ stale' \subseteq Cpus
  <2>1. /\ umap' \in [Cpus -> Seq(Nat)] /\ stale' \subseteq Cpus
        /\ umap'[c] = u /\ pc'[c] = s
        /\ \A d \in Cpus \ {c} : umap'[d] = umap[d] /\ pc'[d] = pc[d] /\ (d \in stale' <=> d \in stale)
    BY <1>2 DEF Locals
  <2>2. ASSUME NEW d \in Cpus
        PROVE  /\ Len(umap'[d]) <= NRemap
               /\ \A j \in DOMAIN umap'[d] : umap'[d][j] = NMfn + 3 + j
               /\ pc'[d] = "mapped" => Len(umap'[d]) = NRemap
               /\ pc'[d] \notin {"remap", "mapped", "failed"} => d \notin stale'
    <3>1. CASE d = c
      BY <1>2, <2>1, <3>1
    <3>2. CASE d # c
      BY <2>1, <3>2 DEF Remapped, RemapExact
    <3> QED
      BY <3>1, <3>2
  <2> QED
    BY <2>1, <2>2 DEF Remapped, RemapExact
<1>3. /\ <<>> \in Seq(Nat) /\ Len(<<>>) <= NRemap
      /\ \A j \in DOMAIN <<>> : <<>>[j] = NMfn + 3 + j
  OBVIOUS
<1>4. CASE RemapStart(c)
  BY <1>1, <1>2, <1>3, <1>4 DEF RemapStart, Goto
<1>5. CASE RemapDone(c)
  <2> DEFINE n == BatchSize(c)
             u == umap[c] \o BatchFrames(c, n)
             s == IF Len(u) >= NRemap THEN "mapped" ELSE "remap"
  <2>1. n \in 0 .. BatchSize(c)
    <3>1. Len(umap[c]) \in Nat /\ Len(umap[c]) <= NRemap
      BY LenProperties DEF Locals, Remapped, RemapExact
    <3> QED
      BY <3>1 DEF BatchSize
  <2>2. /\ u \in Seq(Nat) /\ Len(u) <= NRemap /\ \A j \in DOMAIN u : u[j] = NMfn + 3 + j
    BY <2>1, BatchExtends
  <2>3. umap' = [umap EXCEPT ![c] = u] /\ pc' = [pc EXCEPT ![c] = s] /\ stale' = stale \cup {c}
    BY <1>5 DEF RemapDone, Goto
  <2> HIDE DEF u
  <2>4. /\ s = "mapped" => Len(u) = NRemap
        /\ s \in {"mapped", "remap"}
    BY <2>2, LenProperties
  <2> HIDE DEF s
  <2>5. s # "idle" /\ s \in {"idle", "remap", "mapped", "failed"}
    BY <2>4
  <2> QED
    BY <1>1, <1>2, <2>2, <2>3, <2>4, <2>5
<1>6. CASE RemapFailed(c)
  <2>1. PICK n \in 0 .. BatchSize(c) - 1 : umap' = [umap EXCEPT ![c] = @ \o BatchFrames(c, n)]
    BY <1>6 DEF RemapFailed
  <2> DEFINE u == umap[c] \o BatchFrames(c, n)
  <2>2. n \in 0 .. BatchSize(c)
    <3>1. Len(umap[c]) \in Nat
      BY LenProperties DEF Locals
    <3>2. BatchSize(c) \in Int
      BY <3>1 DEF BatchSize
    <3> QED
      BY <3>2
  <2>3. /\ u \in Seq(Nat) /\ Len(u) <= NRemap /\ \A j \in DOMAIN u : u[j] = NMfn + 3 + j
    BY <2>2, BatchExtends
  <2>4. umap' = [umap EXCEPT ![c] = u]
    BY <2>1 DEF Locals
  <2> HIDE DEF u
  <2> QED
    BY <1>1, <1>2, <1>6, <2>3, <2>4 DEF RemapFailed, Goto
<1>7. CASE RemapReturn(c)
  BY <1>1, <1>2, <1>3, <1>7 DEF RemapReturn, Goto
<1> QED
  BY <1>4, <1>5, <1>6, <1>7 DEF Remapping
------------------------------------------------------------------------------
(* Translation of entries *)

LEMMA ValFacts == \A x, F : Val(x, F).frame = x /\ Val(x, F).flags = F
  BY DEF Val

(* What Linux knows of a page's frame, and how it finds the page again. *)
LEMMA Translations ==
  ASSUME FInv, NEW f \in Pages \cup {IdentityPfn, ForeignPfn, MissingPfn}
  PROVE  \/ get_phys_to_machine(f) = Invalid /\ (f = MissingPfn \/ Busy(f))
         \/ \E x, K : /\ get_phys_to_machine(f) = Entry(x, K) /\ Entry(x, K) # Invalid
                      /\ mfn_to_pfn(x) = f /\ ("identity" \in K => x = f)
<1>1. CASE f \in Pages
  <2>1. get_phys_to_machine(f) = p2m[f]
    BY <1>1 DEF get_phys_to_machine
  <2>2. CASE f \in Zapped
    <3>1. lock # NoCpu /\ f \in RegionPages(base[lock])
      BY <2>2 DEF Zapped
    <3>2. lock \in Cpus
      BY <3>1 DEF FInv, TypeOK
    <3>3. pc[lock] \in {"zap", "exchange", "map"} /\ InOp(lock) /\ base[lock] \in Regions
      BY <3>2 DEF FInv, Turns, InOp
    <3>4. Busy(f)
      BY <3>1, <3>2, <3>3 DEF Busy, InUse
    <3> QED
      BY <1>1, <2>1, <2>2, <3>4 DEF FInv, Tables
  <2>3. CASE f \notin Zapped
    <3> DEFINE x == Frame[f]
    <3>1. p2m[f] = Entry(x, {}) /\ x \in owned /\ m2p[x] = f /\ x \in OwnMfns
      BY <1>1, <2>3 DEF FInv, Tables, TypeOK
    <3> HIDE DEF x
    <3>2. f # NoPfn
      BY <1>1, PageFacts
    <3>3. mfn_to_pfn(x) = f
      BY <2>1, <3>1, <3>2 DEF mfn_to_pfn
    <3> QED
      BY <2>1, <3>1, <3>3, EntryFacts
  <2> QED
    BY <2>2, <2>3
<1>2. CASE f = IdentityPfn
  <2>1. f \notin Pages /\ f \notin OwnMfns /\ f # ForeignMfn
    BY <1>2, PageFacts DEF IdentityPfn, ForeignMfn
  <2>2. get_phys_to_machine(f) = Entry(f, {"identity"})
    BY <1>2, <2>1 DEF get_phys_to_machine
  <2>3. mfn_to_pfn(f) = f
    BY <2>1, <2>2 DEF mfn_to_pfn
  <2>4. Entry(f, {"identity"}) # Invalid
    BY EntryFacts DEF Invalid, Marks
  <2> QED
    BY <2>2, <2>3, <2>4
<1>3. CASE f = ForeignPfn
  <2>1. f \notin Pages /\ f # IdentityPfn /\ ForeignMfn \notin OwnMfns
    BY <1>3, PageFacts DEF IdentityPfn, ForeignPfn
  <2>2. get_phys_to_machine(f) = Entry(ForeignMfn, {"foreign"})
    BY <1>3, <2>1 DEF get_phys_to_machine
  <2>3. mfn_to_pfn(ForeignMfn) = f
    BY <1>3, <2>1 DEF mfn_to_pfn
  <2>4. Entry(ForeignMfn, {"foreign"}) # Invalid /\ "identity" \notin {"foreign"}
    BY EntryFacts DEF Invalid, Marks
  <2> QED
    BY <2>2, <2>3, <2>4
<1>4. CASE f = MissingPfn
  <2>1. f \notin Pages /\ f # IdentityPfn /\ f # ForeignPfn
    BY <1>4, PageFacts DEF IdentityPfn, ForeignPfn, MissingPfn
  <2> QED
    BY <1>4, <2>1 DEF get_phys_to_machine
<1> QED
  BY <1>1, <1>2, <1>3, <1>4

(* The memory type survives: Xen's write-combining comes only from Linux's. *)
LEMMA MemoryType ==
  ASSUME NEW x, NEW y, NEW F \in SUBSET {"P", "IO", "PCD", "PWT"}, NEW pat \in BOOLEAN, NEW H,
         H \ {"IO"} = ToXenPat(Val(x, F), pat).flags \ {"IO"}
  PROVE  \E G : /\ FromXenPat(Val(y, H)) = Val(y, G)
                /\ G \ {"IO"} = F \ {"IO"} /\ ("IO" \in G <=> "IO" \in H)
<1> DEFINE T == {"PAT", "PCD", "PWT"}
           Q == ToXenPat(Val(x, F), pat).flags
<1>1. CASE pat /\ F \cap T = {"PWT"}
  <2>1. Q = (F \ {"PWT"}) \cup {"PAT"}
    BY <1>1, ValFacts DEF ToXenPat
  <2>2. "PAT" \in H /\ "PCD" \notin H /\ "PWT" \notin H
    BY <1>1, <2>1
  <2>3. H \cap T = {"PAT"}
    BY <2>2
  <2>4. FromXenPat(Val(y, H)) = Val(y, (H \ {"PAT"}) \cup {"PWT"})
    BY <2>3, ValFacts DEF FromXenPat
  <2>5. ((H \ {"PAT"}) \cup {"PWT"}) \ {"IO"} = F \ {"IO"}
    <3>1. "PWT" \in F /\ "PAT" \notin F
      BY <1>1
    <3>2. \A e : e \in H /\ e # "IO" <=> e \in Q /\ e # "IO"
      OBVIOUS
    <3> HIDE DEF Q
    <3> QED
      BY <2>1, <3>1, <3>2
  <2> QED
    BY <2>4, <2>5
<1>2. CASE ~(pat /\ F \cap T = {"PWT"})
  <2>1. Q = F
    BY <1>2, ValFacts DEF ToXenPat
  <2>2. "PAT" \notin H
    BY <2>1
  <2>3. H \cap T # {"PAT"}
    BY <2>2
  <2>4. FromXenPat(Val(y, H)) = Val(y, H)
    BY <2>3, ValFacts DEF FromXenPat
  <2> QED
    BY <2>1, <2>4
<1> QED
  BY <1>1, <1>2

(* pte_pfn_to_mfn for a page that has a frame. *)
LEMMA MadeOf ==
  ASSUME NEW f, NEW R, NEW x, NEW K, get_phys_to_machine(f) = Entry(x, K), Entry(x, K) # Invalid,
         "P" \in R
  PROVE  pte_pfn_to_mfn(Val(f, R)) = Val(x, R \cup (IF "identity" \in K THEN {"IO"} ELSE {}))
<1> DEFINE e == get_phys_to_machine(f)
<1>1. e # Invalid /\ e.mfn = x /\ e.marks = K
  BY EntryFacts
<1>2. Val(f, R).frame = f /\ Val(f, R).flags = R /\ Present(Val(f, R))
  BY ValFacts DEF Present
<1>3. pte_pfn_to_mfn(Val(f, R)) = Val(e.mfn, R \cup (IF "identity" \in e.marks THEN {"IO"} ELSE {}))
  BY <1>1, <1>2, Zenon DEF pte_pfn_to_mfn
<1> QED
  BY <1>1, <1>3, Zenon

(* xen_make_pte and back, for every entry value and both kinds of domain. *)
LEMMA EntryRoundTrip ==
  ASSUME FInv, NEW v \in Values, NEW dom0 \in BOOLEAN, NEW pat \in BOOLEAN
  PROVE  RoundTrip(v, dom0, pat)
<1> DEFINE f == v.frame
           F == v.flags
           Q == ToXenPat(v, pat).flags
           made == xen_make_pte(v, dom0, pat)
           back == xen_pte_val(made, dom0)
<1>1. /\ f \in Pages \cup {IdentityPfn, ForeignPfn, MissingPfn}
      /\ F \in SUBSET {"P", "IO", "PCD", "PWT"} /\ v = Val(f, F)
  BY DEF Values, Val
<1>2. /\ ToXenPat(v, pat) = Val(f, Q)
      /\ "IO" \in Q <=> "IO" \in F
      /\ "P" \in Q <=> "P" \in F
  <2>1. CASE pat /\ v.flags \cap {"PAT", "PCD", "PWT"} = {"PWT"}
    BY <2>1, ValFacts DEF ToXenPat
  <2>2. CASE ~(pat /\ v.flags \cap {"PAT", "PCD", "PWT"} = {"PWT"})
    BY <1>1, <2>2, ValFacts DEF ToXenPat
  <2> QED
    BY <2>1, <2>2
<1>3. ASSUME NEW y, NEW H, H \ {"IO"} = Q \ {"IO"}
      PROVE  \E G : /\ FromXenPat(Val(y, H)) = Val(y, G)
                    /\ G \ {"IO"} = F \ {"IO"} /\ ("IO" \in G <=> "IO" \in H)
                    /\ "P" \in G <=> "P" \in F
  <2>1. H \ {"IO"} = ToXenPat(Val(f, F), pat).flags \ {"IO"}
    BY <1>1, <1>3
  <2>2. PICK G : /\ FromXenPat(Val(y, H)) = Val(y, G)
                 /\ G \ {"IO"} = F \ {"IO"} /\ ("IO" \in G <=> "IO" \in H)
    <3> HIDE DEF f, F, Q
    <3> QED
      BY <1>1, <2>1, MemoryType
  <2>3. "P" \in G <=> "P" \in F
    BY <2>2
  <2> QED
    BY <2>2, <2>3
<1> HIDE DEF f, F, Q
<1>4. Present(v) <=> "P" \in F
  BY DEF Present, F
<1>5. CASE IsIomap(v, dom0)
  <2>1. made = Val(f, Q)
    BY <1>2, <1>5 DEF xen_make_pte
  <2>2. PICK G : /\ FromXenPat(Val(f, Q)) = Val(f, G)
                 /\ G \ {"IO"} = F \ {"IO"} /\ ("IO" \in G <=> "IO" \in Q)
                 /\ "P" \in G <=> "P" \in F
    BY <1>3
  <2>3. G = F
    BY <1>2, <2>2
  <2>4. "IO" \in F
    BY <1>5 DEF IsIomap, F
  <2>5. dom0 => back = v
    BY <1>1, <2>1, <2>2, <2>3, <2>4, ValFacts DEF xen_pte_val
  <2>6. ~Present(v) => back = v
    BY <1>1, <1>4, <2>1, <2>2, <2>3, ValFacts DEF xen_pte_val, pte_mfn_to_pfn, Present
  <2>7. made.frame = v.frame
    BY <2>1, ValFacts DEF f
  <2> HIDE DEF made, back
  <2> QED
    BY <1>5, <2>5, <2>6, <2>7 DEF RoundTrip, made, back
<1>6. CASE ~IsIomap(v, dom0)
  <2> DEFINE u == Val(f, Q \ {"IO"})
  <2>1. made = pte_pfn_to_mfn(u)
    BY <1>2, <1>6, ValFacts DEF xen_make_pte
  <2>2. Present(u) <=> "P" \in F
    BY <1>2, ValFacts DEF Present
  <2>3. ~Present(v) => back.frame = v.frame /\ back.flags \ {"IO"} = v.flags \ {"IO"}
    <3> SUFFICES ASSUME "P" \notin F PROVE back.frame = f /\ back.flags \ {"IO"} = F \ {"IO"}
      BY <1>4 DEF f, F
    <3>1. made = u
      BY <2>1, <2>2 DEF pte_pfn_to_mfn
    <3>2. PICK G : /\ FromXenPat(Val(f, Q \ {"IO"})) = Val(f, G)
                   /\ G \ {"IO"} = F \ {"IO"} /\ ("IO" \in G <=> "IO" \in Q \ {"IO"})
                   /\ "P" \in G <=> "P" \in F
      <4>1. (Q \ {"IO"}) \ {"IO"} = Q \ {"IO"}
        OBVIOUS
      <4> QED
        BY <1>3, <4>1
    <3>3. back = Val(f, G)
      BY <3>1, <3>2, ValFacts DEF xen_pte_val, pte_mfn_to_pfn, Present
    <3> QED
      BY <3>2, <3>3, ValFacts
  <2>4. ASSUME "P" \in F
        PROVE  \/ /\ Present(made) /\ back.frame = f /\ back.flags \ {"IO"} = F \ {"IO"}
               \/ ~Present(made) /\ made.flags = {} /\ (f = MissingPfn \/ Busy(f))
    <3>1. CASE get_phys_to_machine(f) = Invalid /\ (f = MissingPfn \/ Busy(f))
      <4>1. made = Val(0, {})
        BY <2>1, <2>2, <2>4, <3>1, ValFacts DEF pte_pfn_to_mfn
      <4> QED
        BY <3>1, <4>1, ValFacts DEF Present
    <3>2. ASSUME NEW x, NEW K, get_phys_to_machine(f) = Entry(x, K), Entry(x, K) # Invalid,
                 mfn_to_pfn(x) = f, "identity" \in K => x = f
          PROVE  Present(made) /\ back.frame = f /\ back.flags \ {"IO"} = F \ {"IO"}
      <4> DEFINE H == (Q \ {"IO"}) \cup (IF "identity" \in K THEN {"IO"} ELSE {})
      <4>1. made = Val(x, H)
        <5>1. "P" \in Q \ {"IO"}
          BY <1>2, <2>4
        <5> QED
          BY <2>1, <3>2, <5>1, MadeOf
      <4>2. /\ H \ {"IO"} = Q \ {"IO"}
            /\ "IO" \in H => "identity" \in K
            /\ "P" \in H
        BY <1>2, <2>4
      <4> HIDE DEF H
      <4>3. PICK G : /\ FromXenPat(Val(x, H)) = Val(x, G)
                     /\ G \ {"IO"} = F \ {"IO"} /\ ("IO" \in G <=> "IO" \in H)
                     /\ "P" \in G <=> "P" \in F
        BY <1>3, <4>2
      <4>4. Present(made)
        BY <4>1, <4>2, ValFacts DEF Present
      <4>5. back = Val(f, G)
        <5>1. CASE dom0 /\ "IO" \in G
          <6>1. x = f
            BY <3>2, <4>2, <4>3, <5>1
          <6> QED
            BY <4>1, <4>3, <5>1, <6>1, ValFacts DEF xen_pte_val
        <5>2. CASE ~(dom0 /\ "IO" \in G)
          BY <2>4, <3>2, <4>1, <4>3, <5>2, ValFacts DEF xen_pte_val, pte_mfn_to_pfn, Present
        <5> QED
          BY <5>1, <5>2
      <4> QED
        BY <4>3, <4>4, <4>5, ValFacts
    <3> QED
      BY <1>1, <3>1, <3>2, Translations
  <2> HIDE DEF made, back
  <2> QED
    BY <1>4, <1>6, <2>3, <2>4 DEF RoundTrip, made, back, f, F
<1> QED
  BY <1>5, <1>6

LEMMA FixmapFaithful ==
  ASSUME FInv, NEW kind \in {"local", "vsyscall"}, NEW p \in Pages, NEW dom0 \in BOOLEAN, ~Busy(p)
  PROVE  LET v == FixmapPte(kind, p, dom0, TRUE)
         IN /\ xen_pte_val(v, dom0) = Val(p, {"P"})
            /\ arbitrary_virt_to_machine(FALSE, p, v) = arbitrary_virt_to_machine(TRUE, p, v)
<1> DEFINE v == FixmapPte(kind, p, dom0, TRUE)
<1>1. PICK x, K : /\ get_phys_to_machine(p) = Entry(x, K) /\ Entry(x, K) # Invalid
                  /\ mfn_to_pfn(x) = p
  <2>1. p # MissingPfn
    BY PageFacts
  <2> QED
    BY <2>1, Translations
<1>2. K = {}
  <2>1. p2m[p] = Entry(x, K)
    BY <1>1 DEF get_phys_to_machine
  <2>2. p2m[p] # Invalid
    BY <1>1, <2>1
  <2> QED
    BY <2>1, <2>2, EntryFacts DEF FInv, Tables
<1>3. v = xen_make_pte(Val(p, {"P"}), dom0, TRUE)
  BY DEF FixmapPte
<1>4. /\ ToXenPat(Val(p, {"P"}), TRUE) = Val(p, {"P"}) /\ ~IsIomap(Val(p, {"P"}), dom0)
      /\ {"P"} \ {"IO"} = {"P"}
  BY ValFacts DEF ToXenPat, IsIomap
<1>5. v = pte_pfn_to_mfn(Val(p, {"P"}))
  BY <1>3, <1>4, ValFacts DEF xen_make_pte
<1>6. v = Val(x, {"P"})
  <2>1. {"P"} \cup (IF "identity" \in K THEN {"IO"} ELSE {}) = {"P"}
    BY <1>2
  <2>2. "P" \in {"P"}
    OBVIOUS
  <2>3. pte_pfn_to_mfn(Val(p, {"P"})) = Val(x, {"P"} \cup (IF "identity" \in K THEN {"IO"} ELSE {}))
    BY <1>1, <2>2, MadeOf, Zenon
  <2> QED
    BY <1>5, <2>1, <2>3, Zenon
<1> HIDE DEF v
<1>7. FromXenPat(Val(x, {"P"})) = Val(x, {"P"})
  BY ValFacts DEF FromXenPat
<1>8. xen_pte_val(v, dom0) = Val(p, {"P"})
  BY <1>1, <1>6, <1>7, ValFacts DEF xen_pte_val, pte_mfn_to_pfn, Present
<1>9. arbitrary_virt_to_machine(FALSE, p, v) = arbitrary_virt_to_machine(TRUE, p, v)
  BY <1>1, <1>6, ValFacts, EntryFacts DEF arbitrary_virt_to_machine, virt_to_machine
<1> QED
  BY <1>8, <1>9 DEF v

LEMMA Faithful == FInv => TranslationFaithful
<1> SUFFICES ASSUME FInv PROVE TranslationFaithful
  OBVIOUS
<1>1. \A v \in Values : \A dom0, pat \in BOOLEAN : RoundTrip(v, dom0, pat)
  BY EntryRoundTrip
<1>2. ASSUME NEW kind \in FixKinds, NEW p \in Pages, NEW dom0 \in BOOLEAN,
             kind \in {"local", "vsyscall"} /\ ~Busy(p)
      PROVE  LET v == FixmapPte(kind, p, dom0, TRUE)
             IN /\ xen_pte_val(v, dom0) = Val(p, {"P"})
                /\ arbitrary_virt_to_machine(FALSE, p, v) = arbitrary_virt_to_machine(TRUE, p, v)
  BY <1>2, FixmapFaithful
<1> QED
  BY <1>1, <1>2 DEF TranslationFaithful
------------------------------------------------------------------------------
(* Frames of pages.  Who holds the lock is in the middle of an operation; its *)
(* pages, and no others, may be missing from the tables.                      *)
LEMMA HolderFacts ==
  ASSUME FInv, lock # NoCpu
  PROVE  /\ lock \in Cpus /\ pc[lock] \in {"zap", "exchange", "map"}
         /\ base[lock] \in Regions /\ Batch /\ Notes
BY DEF FInv, TypeOK, Turns, InOp

LEMMA FrameFacts ==
  ASSUME FInv
  PROVE  /\ \A p \in Pages : Frame[p] \in owned /\ Frame[p] \in OwnMfns /\ m2p[Frame[p]] = p
         /\ \A p, q \in Pages : Frame[p] = Frame[q] => p = q
         /\ \A p \in Pages \ Zapped : p2m[p] = Entry(Frame[p], {}) /\ p2m[p].mfn = Frame[p]
         /\ \A x \in owned : \E p \in Pages : Frame[p] = x
<1>1. \A p \in Pages : Frame[p] \in owned /\ m2p[Frame[p]] = p
  BY DEF FInv, Tables
<1>2. owned \subseteq OwnMfns
  BY DEF FInv, TypeOK
<1>3. \A p \in Pages \ Zapped : p2m[p] = Entry(Frame[p], {})
  BY DEF FInv, Tables
<1>4. \A x \in owned : \E p \in Pages : Frame[p] = x
  BY DEF FInv, Tables
<1> HIDE DEF Frame
<1>5. \A p, q \in Pages : Frame[p] = Frame[q] => p = q
  <2> TAKE p \in Pages, q \in Pages
  <2> HAVE Frame[p] = Frame[q]
  <2>1. m2p[Frame[p]] = p /\ m2p[Frame[q]] = q
    BY <1>1
  <2> QED
    BY <2>1
<1>6. \A p \in Pages \ Zapped : p2m[p].mfn = Frame[p]
  BY <1>3, EntryFacts
<1> QED
  BY <1>1, <1>2, <1>3, <1>4, <1>5, <1>6

(* Outside the region the holder works on, the linear address has the frame. *)
LEMMA ElsewhereFacts ==
  ASSUME FInv, NEW v \in Regions, ~(lock # NoCpu /\ base[lock] = v)
  PROVE  \A p \in RegionPages(v) :
           p \in Pages /\ p \notin Away /\ p \notin Zapped /\ Frame[p] = lin[p]
<1> SUFFICES ASSUME NEW p \in RegionPages(v)
             PROVE  p \in Pages /\ p \notin Away /\ p \notin Zapped /\ Frame[p] = lin[p]
  OBVIOUS
<1>1. p \in Pages
  BY RegionFacts
<1>2. ASSUME lock # NoCpu PROVE p \notin RegionPages(base[lock])
  BY <1>2, HolderFacts, RegionsApart
<1>3. p \notin Away /\ p \notin Zapped
  BY <1>2 DEF Away, Zapped
<1> QED
  BY <1>1, <1>3 DEF Frame

(* A region no operation works on is not the holder's. *)
LEMMA UnusedFacts ==
  ASSUME FInv, NEW v \in Regions, ~InUse(v)
  PROVE  ~(lock # NoCpu /\ base[lock] = v)
BY HolderFacts DEF InUse

(* A step that leaves the holder of the lock, its locals and the linear      *)
(* mapping alone leaves every page its frame.                                *)
LEMMA SameFrames ==
  ASSUME UNCHANGED <<lin, frames, lock>>,
         lock # NoCpu => /\ pc'[lock] = pc[lock] /\ base'[lock] = base[lock] /\ at'[lock] = at[lock]
                         /\ op'[lock] = op[lock] /\ first'[lock] = first[lock]
                         /\ queued'[lock] = queued[lock]
  PROVE  /\ Frame' = Frame /\ Zapped' = Zapped
         /\ lock # NoCpu /\ Batch /\ Notes => Batch' /\ Notes'
<1>1. CASE lock = NoCpu
  BY <1>1 DEF Frame, Away, Zapped
<1>2. CASE lock # NoCpu
  <2>1. Away' = Away /\ Zapped' = Zapped
    BY <1>2 DEF Away, Zapped
  <2>3. Frame' = Frame
    BY <1>2, <2>1 DEF Frame, Held, FromArray
  <2>4. Batch => Batch'
    BY <1>2 DEF Batch, Held, FromArray
  <2>5. Notes => Notes'
    BY <1>2, <2>3 DEF Notes, PfnFor, Extent
  <2> QED
    BY <2>1, <2>3, <2>4, <2>5
<1> QED
  BY <1>1, <1>2
------------------------------------------------------------------------------
(* Steps outside the lock *)

LEMMA RemapKeeps ==
  ASSUME FInv, Remapped, NEW c \in Cpus, Remapping(c)
  PROVE  FInv'
<1>1. PICK s \in {"idle", "remap", "mapped", "failed"} : pc' = [pc EXCEPT ![c] = s]
  BY RemapSteps DEF FInv
<1>2. /\ umap' \in [Cpus -> Seq(Nat)] /\ stale' \subseteq Cpus
      /\ pc[c] \in {"idle", "remap", "mapped", "failed"}
      /\ UNCHANGED <<p2m, m2p, lin, owned, dirty, lock, op, base, at, first, frames, queued>>
  BY RemapSteps DEF FInv
<1>3. /\ \A d \in Cpus : InOp(d)' <=> InOp(d)
      /\ \A d \in Cpus : d # c => pc'[d] = pc[d]
      /\ pc'[c] = s
  BY <1>1, <1>2 DEF FInv, Locals, InOp
<1>4. lock # c
  BY <1>2 DEF FInv, Turns
<1>5. Frame' = Frame /\ Zapped' = Zapped /\ (lock # NoCpu /\ Batch /\ Notes => Batch' /\ Notes')
  <2>1. lock # NoCpu => lock \in Cpus /\ pc'[lock] = pc[lock]
    BY <1>3, <1>4, HolderFacts
  <2> QED
    BY <1>2, <2>1, SameFrames
<1>6. TypeOK' /\ Locals'
  BY <1>1, <1>2 DEF FInv, TypeOK, Locals
<1>7. Turns'
  BY <1>2, <1>3, <1>4 DEF FInv, Turns
<1>8. Tables'
  BY <1>2, <1>5 DEF FInv, Tables
<1>9. Waiting'
  <2>1. \A d \in Cpus : pc'[d] = "lock" => pc[d] = "lock"
    BY <1>3
  <2> QED
    BY <1>2, <1>5, <2>1 DEF FInv, Waiting, Extent
<1>10. Clean'
  <2>1. \A d \in Cpus : pc'[d] \in {"lock", "zap", "exchange"} => pc[d] \in {"lock", "zap", "exchange"}
    BY <1>3
  <2> QED
    BY <1>2, <1>5, <2>1 DEF FInv, Clean
<1> QED
  BY <1>2, <1>5, <1>6, <1>7, <1>8, <1>9, <1>10, HolderFacts DEF FInv

LEMMA UseKeeps ==
  ASSUME FInv, NEW v \in Regions, Use(v)
  PROVE  FInv'
<1>1. UNCHANGED <<p2m, m2p, lin, owned, lock, pc, op, base, at, first, frames, queued, umap, stale>>
  BY DEF Use, tables, remap
<1>2. Frame' = Frame /\ Zapped' = Zapped /\ (lock # NoCpu /\ Batch /\ Notes => Batch' /\ Notes')
  BY <1>1, SameFrames
<1>3. \A p \in RegionPages(v) : p \in Pages /\ Frame[p] = lin[p]
  BY ElsewhereFacts, UnusedFacts DEF Use
<1>4. \A x \in dirty' : x \in dirty \/ \E p \in RegionPages(v) : x = Frame[p]
  BY <1>3 DEF Use
<1>5. dirty' \subseteq owned /\ dirty' \subseteq OwnMfns
  BY <1>3, <1>4, FrameFacts DEF FInv, Clean, TypeOK
<1>6. TypeOK' /\ Locals'
  BY <1>1, <1>5 DEF FInv, TypeOK, Locals
<1>7. Turns'
  BY <1>1 DEF FInv, Turns, InOp
<1>8. Tables' /\ Waiting'
  BY <1>1, <1>2 DEF FInv, Tables, Waiting, Extent
<1>9. ASSUME NEW d \in Cpus, pc[d] \in {"lock", "zap", "exchange"}, NEW p \in RegionPages(base[d])
      PROVE  Frame[p] \notin dirty'
  <2>1. base[d] \in Regions /\ base[d] # v
    BY <1>9 DEF FInv, Turns, InOp, Use, InUse
  <2>2. p \in Pages /\ p \notin RegionPages(v)
    BY <1>9, <2>1, RegionFacts, RegionsApart
  <2>3. \A q \in RegionPages(v) : Frame[p] # Frame[q]
    BY <1>3, <2>2, FrameFacts
  <2>4. Frame[p] \notin dirty
    BY <1>9 DEF FInv, Clean
  <2> QED
    BY <1>4, <2>3, <2>4
<1>10. Clean'
  BY <1>1, <1>2, <1>5, <1>9 DEF Clean
<1> QED
  BY <1>1, <1>2, <1>6, <1>7, <1>8, <1>10, HolderFacts DEF FInv

(* The caller clears its region, which nobody else works on. *)
LEMMA BeginKeeps ==
  ASSUME FInv, NEW c \in Cpus, NEW v \in Regions, NEW kind \in {"create", "destroy"},
         Begin(c, v, kind)
  PROVE  FInv'
<1>1. /\ UNCHANGED <<p2m, m2p, lin, owned, lock, at, first, frames, queued, umap, stale>>
      /\ pc[c] = "idle" /\ pc' = [pc EXCEPT ![c] = "lock"]
      /\ base' = [base EXCEPT ![c] = v]
      /\ op' = [op EXCEPT ![c] = [kind |-> kind, ok |-> FALSE]]
      /\ dirty' = dirty \ {lin[p] : p \in RegionPages(v)}
      /\ ~InUse(v) /\ (kind = "destroy" => Contiguous(v))
  BY DEF Begin, tables, remap, Goto, Cleared
<1>2. /\ \A d \in Cpus : d # c => pc'[d] = pc[d] /\ base'[d] = base[d] /\ op'[d] = op[d]
      /\ pc'[c] = "lock" /\ base'[c] = v /\ op'[c] = [kind |-> kind, ok |-> FALSE]
  BY <1>1 DEF FInv, Locals
<1>3. lock # c
  BY <1>1 DEF FInv, Turns
<1>4. Frame' = Frame /\ Zapped' = Zapped /\ (lock # NoCpu /\ Batch /\ Notes => Batch' /\ Notes')
  <2>1. lock # NoCpu => /\ lock \in Cpus /\ pc'[lock] = pc[lock]
                        /\ base'[lock] = base[lock] /\ op'[lock] = op[lock]
    BY <1>2, <1>3, HolderFacts
  <2> QED
    BY <1>1, <2>1, SameFrames
<1>5. \A p \in RegionPages(v) : p \in Pages /\ p \notin Zapped /\ Frame[p] = lin[p]
  BY <1>1, ElsewhereFacts, UnusedFacts
<1>6. TypeOK'
  BY <1>1 DEF FInv, TypeOK
<1>7. Locals'
  <2>1. v \in Nat
    BY RegionFacts
  <2> QED
    BY <1>1, <2>1 DEF FInv, Locals
<1>8. Turns'
  <2>1. \A d \in Cpus : pc'[d] \in {"zap", "exchange", "map"} <=> lock' = d
    BY <1>1, <1>2, <1>3 DEF FInv, Turns
  <2>2. \A d \in Cpus : InOp(d)' => base'[d] \in Regions
    BY <1>2 DEF FInv, Turns, InOp
  <2>3. \A d \in Cpus \ {c} : InOp(d)' => base'[d] # v
    BY <1>1, <1>2 DEF InUse, InOp
  <2>4. \A d, e \in Cpus \ {c} : InOp(d)' /\ InOp(e)' /\ base'[d] = base'[e] => d = e
    BY <1>2 DEF FInv, Turns, InOp
  <2>5. \A d, e \in Cpus : InOp(d)' /\ InOp(e)' /\ base'[d] = base'[e] => d = e
    BY <1>2, <2>3, <2>4
  <2> QED
    BY <2>1, <2>2, <2>5 DEF Turns
<1>9. Tables'
  BY <1>1, <1>4 DEF FInv, Tables
<1>10. Waiting'
  <2>1. kind = "destroy" => \A i \in 0 .. Len2 - 1 : Frame[v + i] = Frame[v] + i
    <3> SUFFICES ASSUME kind = "destroy", NEW i \in 0 .. Len2 - 1 PROVE Frame[v + i] = Frame[v] + i
      OBVIOUS
    <3>1. v + i \in RegionPages(v) /\ v \in RegionPages(v) /\ v \in Nat /\ (v + i) - v = i
      BY RegionFacts
    <3>2. p2m[v + i].mfn = p2m[v].mfn + ((v + i) - v)
      BY <1>1, <3>1 DEF Contiguous
    <3>3. p2m[v + i].mfn = Frame[v + i] /\ p2m[v].mfn = Frame[v]
      BY <1>5, <3>1, FrameFacts
    <3> QED
      BY <3>1, <3>2, <3>3
  <2>2. at[c] = 0 /\ queued[c] = <<>>
    BY <1>3 DEF FInv, Waiting
  <2>3. ~op'[c].ok /\ op'[c].kind = kind
    BY <1>2
  <2>4. ASSUME NEW d \in Cpus \ {lock'}
        PROVE  /\ at'[d] = 0 /\ queued'[d] = <<>>
               /\ pc'[d] = "lock" => /\ ~op'[d].ok
                                     /\ op'[d].kind = "destroy" => \A i \in 0 .. Len2 - 1 :
                                          Frame'[base'[d] + i] = Frame'[base'[d]] + i
    <3>1. CASE d = c
      BY <1>1, <1>2, <1>4, <2>1, <2>2, <2>3, <3>1
    <3>2. CASE d # c
      BY <1>1, <1>2, <1>4, <3>2 DEF FInv, Waiting, Extent
    <3> QED
      BY <3>1, <3>2
  <2> QED
    BY <2>4 DEF Waiting, Extent
<1>11. Clean'
  <2>1. dirty' \subseteq owned'
    BY <1>1 DEF FInv, Clean
  <2>2. ASSUME NEW d \in Cpus, pc'[d] \in {"lock", "zap", "exchange"}, NEW p \in RegionPages(base'[d])
        PROVE  Frame[p] \notin dirty'
    <3>1. CASE d = c
      BY <1>1, <1>2, <1>5, <2>2, <3>1
    <3>2. CASE d # c
      BY <1>1, <1>2, <2>2, <3>2 DEF FInv, Clean
    <3> QED
      BY <3>1, <3>2
  <2> QED
    BY <1>4, <2>1, <2>2 DEF Clean
<1> QED
  BY <1>1, <1>4, <1>6, <1>7, <1>8, <1>9, <1>10, <1>11, HolderFacts DEF FInv
------------------------------------------------------------------------------
(* Steps under the lock *)

LEMMA LockKeeps ==
  ASSUME FInv, NEW c \in Cpus, Lock(c)
  PROVE  FInv'
<1> DEFINE v == base[c]
           f == IF op[c].kind = "destroy" THEN virt_to_machine(v) ELSE v
<1>1. /\ UNCHANGED <<p2m, m2p, lin, owned, dirty, op, base, frames, queued, umap, stale>>
      /\ pc[c] = "lock" /\ pc' = [pc EXCEPT ![c] = "zap"] /\ lock = NoCpu /\ lock' = c
      /\ at' = [at EXCEPT ![c] = 0] /\ first' = [first EXCEPT ![c] = f]
  BY DEF Lock, LockFree, tables, remap, Goto
<1>2. /\ \A d \in Cpus : d # c => pc'[d] = pc[d] /\ at'[d] = at[d] /\ first'[d] = first[d]
      /\ pc'[c] = "zap" /\ at'[c] = 0 /\ first'[c] = f /\ c # NoCpu
  BY <1>1 DEF FInv, Locals
<1>3. v \in Regions /\ v \in Nat
  BY <1>1, RegionFacts DEF FInv, Turns, InOp
<1>4. Frame' = Frame /\ Zapped = {} /\ Zapped' = {}
  <2>1. Away = {} /\ Away' = {}
    BY <1>1, <1>2 DEF Away
  <2>2. Zapped' = {}
    <3>1. \A p \in RegionPages(v) : ~(p < v + 0)
      BY <1>3, RegionFacts
    <3> QED
      BY <1>1, <1>2, <3>1 DEF Zapped
  <2>3. Zapped = {}
    BY <1>1 DEF Zapped
  <2> QED
    BY <1>1, <2>1, <2>2, <2>3 DEF Frame
<1>5. \A p \in Pages : p2m[p].mfn = Frame[p] /\ Frame[p] \in Nat
  BY <1>4, FrameFacts, PageFacts
<1>6. f = IF op[c].kind = "destroy" THEN Frame[v] ELSE v
  <2>1. v \in Pages
    BY <1>3, RegionFacts
  <2> QED
    BY <1>5, <2>1 DEF virt_to_machine, get_phys_to_machine
<1>7. f \in Nat
  <2>1. v \in Pages
    BY <1>3, RegionFacts
  <2> QED
    BY <1>3, <1>5, <1>6, <2>1
<1> HIDE DEF f
<1>8. TypeOK' /\ Locals'
  <2>1. 0 \in 0 .. Len2 - 1
    OBVIOUS
  <2> QED
    BY <1>1, <1>7, <2>1 DEF FInv, TypeOK, Locals
<1>9. Turns'
  <2>1. \A d \in Cpus : InOp(d)' <=> InOp(d)
    BY <1>1, <1>2 DEF InOp
  <2>2. \A d \in Cpus : d # c => pc'[d] \notin {"zap", "exchange", "map"}
    BY <1>1, <1>2 DEF FInv, Turns
  <2> QED
    BY <1>1, <1>2, <2>1, <2>2 DEF FInv, Turns
<1>10. Tables'
  BY <1>1, <1>4 DEF FInv, Tables
<1>11. Waiting'
  BY <1>1, <1>2, <1>4 DEF FInv, Waiting, Extent
<1>12. Clean'
  <2>1. \A d \in Cpus : pc'[d] \in {"lock", "zap", "exchange"} => pc[d] \in {"lock", "zap", "exchange"}
    BY <1>1, <1>2
  <2> QED
    BY <1>1, <1>4, <2>1 DEF FInv, Clean
<1>13. c \in Cpus \ {lock} /\ op[c] \in [kind : {"create", "destroy"}, ok : BOOLEAN]
  BY <1>1, <1>2 DEF FInv, Locals
<1>14. Batch'
  <2>1. queued[c] = <<>> /\ Len(<<>>) = 0 /\ 1 .. 0 = {}
    BY <1>13 DEF FInv, Waiting
  <2> QED
    BY <1>1, <1>2, <2>1 DEF Batch
<1>15. Notes'
  <2>1. ~op[c].ok /\ (op[c].kind = "destroy" => Extent(v))
    BY <1>1, <1>13 DEF FInv, Waiting
  <2>2. 0 .. 0 - 1 = {}
    OBVIOUS
  <2> QED
    BY <1>1, <1>2, <1>4, <1>6, <2>1, <2>2 DEF Notes, Extent
<1> QED
  BY <1>8, <1>9, <1>10, <1>11, <1>12, <1>14, <1>15 DEF FInv

(* What every other CPU keeps while the holder works on its region. *)
Alone(c) ==
  \A d \in Cpus : d # c =>
    pc'[d] = pc[d] /\ base'[d] = base[d] /\ op'[d] = op[d] /\ at'[d] = at[d] /\ queued'[d] = queued[d]

LEMMA OthersKept ==
  ASSUME FInv, NEW c \in Cpus, lock = c, Alone(c),
         \A p \in Pages : p \notin RegionPages(base[c]) => Frame'[p] = Frame[p]
  PROVE  \A d \in Cpus : d # c =>
           /\ pc[d] \notin {"zap", "exchange", "map"}
           /\ at[d] = 0 /\ queued[d] = <<>>
           /\ InOp(d) => \A p \in RegionPages(base[d]) : p \in Pages /\ Frame'[p] = Frame[p]
           /\ pc[d] = "lock" => ~op[d].ok /\ (op[d].kind = "destroy" =>
                \A i \in 0 .. Len2 - 1 : Frame'[base[d] + i] = Frame'[base[d]] + i)
<1> SUFFICES ASSUME NEW d \in Cpus, d # c
             PROVE  /\ pc[d] \notin {"zap", "exchange", "map"}
                    /\ at[d] = 0 /\ queued[d] = <<>>
                    /\ InOp(d) => \A p \in RegionPages(base[d]) : p \in Pages /\ Frame'[p] = Frame[p]
                    /\ pc[d] = "lock" => ~op[d].ok /\ (op[d].kind = "destroy" =>
                         \A i \in 0 .. Len2 - 1 : Frame'[base[d] + i] = Frame'[base[d]] + i)
  OBVIOUS
<1>1. pc[d] \notin {"zap", "exchange", "map"} /\ at[d] = 0 /\ queued[d] = <<>>
  BY DEF FInv, Turns, Waiting
<1>2. ASSUME InOp(d)
      PROVE  base[d] \in Regions /\ \A p \in RegionPages(base[d]) : p \in Pages /\ Frame'[p] = Frame[p]
  <2>1. pc[c] \in {"zap", "exchange", "map"} /\ base[c] \in Regions /\ InOp(c)
    BY DEF FInv, Turns, InOp
  <2>2. base[d] \in Regions /\ base[d] # base[c]
    BY <1>2, <2>1 DEF FInv, Turns
  <2> QED
    BY <2>1, <2>2, RegionFacts, RegionsApart
<1>3. ASSUME pc[d] = "lock"
      PROVE  ~op[d].ok /\ (op[d].kind = "destroy" =>
                \A i \in 0 .. Len2 - 1 : Frame'[base[d] + i] = Frame'[base[d]] + i)
  <2>1. ~op[d].ok /\ (op[d].kind = "destroy" => Extent(base[d]))
    BY <1>3 DEF FInv, Waiting
  <2>2. InOp(d)
    BY <1>3 DEF InOp
  <2>3. /\ base[d] \in RegionPages(base[d])
        /\ \A i \in 0 .. Len2 - 1 : base[d] + i \in RegionPages(base[d])
    BY <1>2, <2>2, RegionFacts
  <2> QED
    BY <1>2, <2>1, <2>2, <2>3 DEF Extent
<1> QED
  BY <1>1, <1>2, <1>3

LEMMA HolderStep ==
  ASSUME FInv, NEW c \in Cpus, lock = c, lock' = c, Alone(c),
         pc'[c] \in {"zap", "exchange", "map"}, base'[c] = base[c],
         \A p \in Pages : p \notin RegionPages(base[c]) => Frame'[p] = Frame[p],
         dirty' = dirty, dirty \subseteq owned',
         pc'[c] # "map" => pc[c] # "map" /\ \A p \in RegionPages(base[c]) : Frame'[p] = Frame[p]
  PROVE  Turns' /\ Waiting' /\ Clean'
<1>1. \A d \in Cpus : d # c =>
           /\ pc[d] \notin {"zap", "exchange", "map"}
           /\ at[d] = 0 /\ queued[d] = <<>>
           /\ InOp(d) => \A p \in RegionPages(base[d]) : p \in Pages /\ Frame'[p] = Frame[p]
           /\ pc[d] = "lock" => ~op[d].ok /\ (op[d].kind = "destroy" =>
                \A i \in 0 .. Len2 - 1 : Frame'[base[d] + i] = Frame'[base[d]] + i)
  BY OthersKept
<1>2. pc[c] \in {"zap", "exchange", "map"} /\ base[c] \in Regions
  BY DEF FInv, Turns, InOp
<1>3. Turns'
  <2>1. \A d \in Cpus : InOp(d)' <=> InOp(d)
    BY <1>2 DEF InOp, Alone
  <2>2. \A d \in Cpus : base'[d] = base[d]
    BY DEF Alone
  <2>3. \A d \in Cpus : pc'[d] \in {"zap", "exchange", "map"} <=> lock' = d
    BY <1>1 DEF Alone
  <2> QED
    BY <2>1, <2>2, <2>3 DEF FInv, Turns
<1>4. Waiting'
  BY <1>1 DEF Waiting, Extent, Alone
<1>5. ASSUME NEW d \in Cpus, pc'[d] \in {"lock", "zap", "exchange"}, NEW p \in RegionPages(base'[d])
      PROVE  Frame'[p] \notin dirty
  <2>1. CASE d = c
    <3>1. pc[c] \in {"zap", "exchange"}
      BY <1>2, <1>5, <2>1
    <3>2. Frame[p] \notin dirty
      BY <1>5, <2>1, <3>1 DEF FInv, Clean
    <3> QED
      BY <1>5, <2>1, <3>2
  <2>2. CASE d # c
    <3>1. pc[d] = "lock" /\ base'[d] = base[d] /\ InOp(d)
      BY <1>1, <1>5, <2>2 DEF Alone, InOp
    <3>2. Frame[p] \notin dirty
      BY <1>5, <3>1 DEF FInv, Clean
    <3> QED
      BY <1>1, <1>5, <2>2, <3>1, <3>2
  <2> QED
    BY <2>1, <2>2
<1>6. Clean'
  BY <1>5 DEF Clean
<1> QED
  BY <1>3, <1>4, <1>6

(* One round of a loop over the holder's region, which queues h[i] for its *)
(* i-th page: nothing, or the frame it holds.  The last round issues a batch *)
(* with one mapping for each page.                                           *)
LEMMA LoopFacts ==
  ASSUME FInv, NEW c \in Cpus, lock = c, NEW v \in Regions, v = base[c],
         NEW k \in 0 .. Len2 - 1, k = at[c],
         NEW h \in [0 .. Len2 - 1 -> OwnMfns \cup {Void}],
         \A i \in 0 .. Len2 - 1 : h[i] = IF pc[c] = "zap" THEN Void ELSE Held(c, i),
         NEW s \in {"idle", "exchange"}, pc[c] \in {"zap", "map"}, LoopStep(c, v + k, h[k], s)
  PROVE  /\ \A d \in Cpus : d # c => queued'[d] = queued[d] /\ at'[d] = at[d] /\ pc'[d] = pc[d]
         /\ at' \in [Cpus -> 0 .. Len2 - 1]
         /\ queued' \in [Cpus -> Seq(Pages \X (OwnMfns \cup {Void}))]
         /\ pc' = [pc EXCEPT ![c] = IF k = Len2 - 1 THEN s ELSE pc[c]]
         /\ k # Len2 - 1 =>
              /\ lin' = lin /\ at'[c] = k + 1 /\ k + 1 <= Len2 - 1
              /\ lock' = c /\ base'[c] = v /\ (\A i \in 0 .. k : pc[c] # "zap" => Held(c, i)' = h[i])
                   => Batch'
         /\ k = Len2 - 1 =>
              /\ queued'[c] = <<>> /\ at'[c] = 0
              /\ lin' = [q \in Pages |-> IF q \in RegionPages(v) THEN h[q - v] ELSE lin[q]]
<1> DEFINE S == Pages \X (OwnMfns \cup {Void})
           b == Append(queued[c], <<v + k, h[k]>>)
<1>1. /\ pc \in [Cpus -> {"idle", "lock", "zap", "exchange", "map", "remap", "mapped", "failed"}]
      /\ at \in [Cpus -> 0 .. Len2 - 1] /\ queued \in [Cpus -> Seq(S)]
  BY DEF FInv, Locals
<1>2. c # NoCpu /\ Batch /\ k \in Nat /\ v \in Nat /\ v + k \in Pages
  BY HolderFacts, RegionFacts
<1>3. <<v + k, h[k]>> \in S /\ queued[c] \in Seq(S) /\ Len(queued[c]) = k
  BY <1>1, <1>2 DEF Batch
<1>4. /\ b \in Seq(S) /\ Len(b) = k + 1
      /\ b[k + 1] = <<v + k, h[k]>> /\ \A i \in 1 .. k : b[i] = queued[c][i]
  <2>1. PICK e : e = <<v + k, h[k]>>
    OBVIOUS
  <2>2. e \in S /\ queued[c] \in Seq(S) /\ b = Append(queued[c], e)
    BY <1>3, <2>1
  <2> HIDE DEF S, b
  <2>3. /\ b \in Seq(S) /\ Len(b) = k + 1
        /\ b[k + 1] = e /\ \A i \in 1 .. k : b[i] = queued[c][i]
    BY <1>2, <1>3, <2>2, AppendProperties
  <2> QED
    BY <2>1, <2>3
<1>5. /\ queued' = [queued EXCEPT ![c] = IF k = Len2 - 1 THEN <<>> ELSE b]
      /\ lin' = IF k = Len2 - 1 THEN Issued(b) ELSE lin
      /\ at' = [at EXCEPT ![c] = IF k = Len2 - 1 THEN 0 ELSE k + 1]
      /\ pc' = [pc EXCEPT ![c] = IF k = Len2 - 1 THEN s ELSE pc[c]]
  BY <1>1 DEF LoopStep, IsLast
<1> HIDE DEF b
<1>6. \A i \in 1 .. k + 1 : b[i] = <<v + (i - 1), h[i - 1]>>
  <2> SUFFICES ASSUME NEW i \in 1 .. k + 1 PROVE b[i] = <<v + (i - 1), h[i - 1]>>
    OBVIOUS
  <2>1. CASE i \in 1 .. k
    <3>1. i - 1 \in 0 .. Len2 - 1
      BY <2>1
    <3>2. queued[c][i] = <<v + (i - 1), IF pc[c] = "zap" THEN Void ELSE Held(c, i - 1)>>
      BY <1>2, <2>1 DEF Batch
    <3>3. h[i - 1] = IF pc[c] = "zap" THEN Void ELSE Held(c, i - 1)
      BY <3>1
    <3> QED
      BY <1>4, <2>1, <3>2, <3>3
  <2>2. CASE i = k + 1
    <3>1. i - 1 = k
      BY <2>2
    <3> QED
      BY <1>4, <2>2, <3>1
  <2> QED
    BY <2>1, <2>2
<1>7. \A d \in Cpus : d # c => queued'[d] = queued[d] /\ at'[d] = at[d] /\ pc'[d] = pc[d]
  BY <1>1, <1>5
<1>8. CASE k = Len2 - 1
  <2>1. 0 \in 0 .. Len2 - 1 /\ <<>> \in Seq(S)
    OBVIOUS
  <2>2. queued' \in [Cpus -> Seq(S)] /\ at' \in [Cpus -> 0 .. Len2 - 1]
    BY <1>1, <1>5, <1>8, <2>1
  <2>3. queued'[c] = <<>> /\ at'[c] = 0
    BY <1>1, <1>5, <1>8
  <2>4. DOMAIN b = 1 .. Len2 /\ \A i \in 1 .. Len2 : b[i][1] = v + (i - 1) /\ b[i][2] = h[i - 1]
    <3>1. DOMAIN b = 1 .. Len(b) /\ Len(b) = Len2
      BY <1>4, <1>8
    <3>2. \A i \in 1 .. Len2 : b[i] = <<v + (i - 1), h[i - 1]>>
      BY <1>6, <1>8
    <3>3. \A x, y : <<x, y>>[1] = x /\ <<x, y>>[2] = y
      OBVIOUS
    <3> QED
      BY <3>1, <3>2, <3>3
  <2>5. ASSUME NEW q \in Pages
        PROVE  Issued(b)[q] = IF q \in RegionPages(v) THEN h[q - v] ELSE lin[q]
    <3>1. CASE q \in RegionPages(v)
      <4>1. PICK j \in 1 .. Len2 : q = v + (j - 1) /\ q - v = j - 1
        <5> DEFINE w == q - v
        <5>1. w \in 0 .. Len2 - 1 /\ v + w = q
          BY <3>1, RegionFacts, PageFacts
        <5> HIDE DEF w
        <5>2. w + 1 \in 1 .. Len2 /\ w = (w + 1) - 1
          BY <5>1
        <5>3. q = v + ((w + 1) - 1) /\ q - v = (w + 1) - 1
          BY <5>1, <5>2 DEF w
        <5> QED
          BY <5>2, <5>3
      <4>2. \A i \in 1 .. Len2 : b[i][1] = q <=> i = j
        <5>1. \A i \in 1 .. Len2 : v + (i - 1) = v + (j - 1) <=> i = j
          BY <1>2
        <5> QED
          BY <2>4, <4>1, <5>1
      <4> DEFINE P(i) == b[i][1] = q /\ \A m \in DOMAIN b : b[m][1] = q => m <= i
      <4>3. j \in DOMAIN b /\ P(j)
        BY <2>4, <4>2
      <4>4. LastFor(b, q) \in DOMAIN b /\ P(LastFor(b, q))
        <5>1. \E i \in DOMAIN b : P(i)
          BY <4>3
        <5>2. LastFor(b, q) = CHOOSE i \in DOMAIN b : P(i)
          BY DEF LastFor
        <5> HIDE DEF P
        <5> QED
          BY <5>1, <5>2
      <4>5. LastFor(b, q) = j
        BY <2>4, <4>2, <4>4
      <4>6. Issued(b)[q] = b[j][2]
        BY <4>3, <4>5 DEF Issued
      <4> QED
        BY <2>4, <3>1, <4>1, <4>6
    <3>2. CASE q \notin RegionPages(v)
      <4>1. \A i \in 1 .. Len2 : b[i][1] # q
        <5> SUFFICES ASSUME NEW i \in 1 .. Len2 PROVE v + (i - 1) # q
          BY <2>4
        <5>1. i - 1 \in 0 .. Len2 - 1
          OBVIOUS
        <5> QED
          BY <3>2, <5>1, RegionFacts
      <4> QED
        BY <2>4, <3>2, <4>1 DEF Issued
    <3> QED
      BY <3>1, <3>2
  <2>6. lin' = [q \in Pages |-> IF q \in RegionPages(v) THEN h[q - v] ELSE lin[q]]
    BY <1>5, <1>8, <2>5 DEF Issued
  <2> QED
    BY <1>5, <1>7, <1>8, <2>2, <2>3, <2>6
<1>9. CASE k # Len2 - 1
  <2>1. k + 1 \in 0 .. Len2 - 1
    BY <1>9
  <2>2. queued' \in [Cpus -> Seq(S)] /\ at' \in [Cpus -> 0 .. Len2 - 1]
    BY <1>1, <1>4, <1>5, <1>9, <2>1
  <2>3. queued'[c] = b /\ lin' = lin /\ at'[c] = k + 1 /\ pc'[c] = pc[c]
    BY <1>1, <1>5, <1>9
  <2>4. ASSUME lock' = c, base'[c] = v, \A i \in 0 .. k : pc[c] # "zap" => Held(c, i)' = h[i]
        PROVE  Batch'
    <3>1. \A i \in 1 .. k + 1 :
            b[i] = <<v + (i - 1), IF pc[c] = "zap" THEN Void ELSE Held(c, i - 1)'>>
      <4> SUFFICES ASSUME NEW i \in 1 .. k + 1
                   PROVE  h[i - 1] = IF pc[c] = "zap" THEN Void ELSE Held(c, i - 1)'
        BY <1>6
      <4>1. i - 1 \in 0 .. k /\ i - 1 \in 0 .. Len2 - 1
        OBVIOUS
      <4> QED
        BY <2>4, <4>1
    <3> QED
      BY <1>4, <2>3, <2>4, <3>1 DEF Batch, Held, FromArray
  <2> QED
    BY <1>5, <1>7, <1>9, <2>1, <2>2, <2>3, <2>4
<1> QED
  BY <1>8, <1>9

(* xen_zap_pfn_range: the region's pages leave the tables, and the holder has *)
(* noted their frames when the last one goes.                                 *)
LEMMA ZapKeeps ==
  ASSUME FInv, NEW c \in Cpus, ZapPage(c)
  PROVE  FInv'
<1>1. /\ pc[c] = "zap" /\ lock = c /\ c # NoCpu
      /\ op[c] \in [kind : {"create", "destroy"}, ok : BOOLEAN]
      /\ at[c] \in 0 .. Len2 - 1 /\ frames \in [0 .. Len2 - 1 -> Nat]
      /\ first \in [Cpus -> Nat]
  BY DEF FInv, Turns, Locals, ZapPage
<1>2. base[c] \in Regions /\ Batch /\ Notes
  BY <1>1, HolderFacts
<1>3. PICK v \in Regions : v = base[c]
  BY <1>2
<1>4. PICK k \in 0 .. Len2 - 1 : k = at[c]
  BY <1>1
<1>5. PICK p \in Pages : p = v + k /\ p \in RegionPages(v)
  BY RegionFacts
<1>6. PICK y : y = IF op[c].kind = "create" THEN virt_to_machine(p) ELSE p
  OBVIOUS
<1>7. /\ frames' = [frames EXCEPT ![k] = y] /\ p2m' = [p2m EXCEPT ![p] = Invalid]
      /\ LoopStep(c, v + k, Void, "exchange")
      /\ UNCHANGED <<m2p, owned, dirty, lock, op, base, first, umap, stale>>
  BY <1>3, <1>4, <1>5, <1>6 DEF ZapPage, remap
<1>8. PICK h \in [0 .. Len2 - 1 -> OwnMfns \cup {Void}] : \A i \in 0 .. Len2 - 1 : h[i] = Void
  <2>1. [i \in 0 .. Len2 - 1 |-> Void] \in [0 .. Len2 - 1 -> OwnMfns \cup {Void}]
    OBVIOUS
  <2> QED
    BY <2>1
<1>9. /\ \A d \in Cpus : d # c => queued'[d] = queued[d] /\ at'[d] = at[d] /\ pc'[d] = pc[d]
      /\ at' \in [Cpus -> 0 .. Len2 - 1]
      /\ queued' \in [Cpus -> Seq(Pages \X (OwnMfns \cup {Void}))]
      /\ pc' = [pc EXCEPT ![c] = IF k = Len2 - 1 THEN "exchange" ELSE "zap"]
      /\ k # Len2 - 1 =>
           /\ lin' = lin /\ at'[c] = k + 1 /\ k + 1 <= Len2 - 1
           /\ lock' = c /\ base'[c] = v => Batch'
      /\ k = Len2 - 1 =>
           /\ queued'[c] = <<>> /\ at'[c] = 0
           /\ lin' = [q \in Pages |-> IF q \in RegionPages(v) THEN Void ELSE lin[q]]
  <2>1. LoopStep(c, v + k, h[k], "exchange") /\ "exchange" \in {"idle", "exchange"}
    BY <1>7, <1>8
  <2>2. \A q \in RegionPages(v) : h[q - v] = Void
    BY <1>8, RegionFacts
  <2>3. /\ v = base[c] /\ k = at[c] /\ lock = c /\ pc[c] \in {"zap", "map"} /\ pc[c] = "zap"
        /\ \A i \in 0 .. Len2 - 1 : h[i] = IF pc[c] = "zap" THEN Void ELSE Held(c, i)
    BY <1>1, <1>3, <1>4, <1>8
  <2>4. /\ \A d \in Cpus : d # c => queued'[d] = queued[d] /\ at'[d] = at[d] /\ pc'[d] = pc[d]
        /\ at' \in [Cpus -> 0 .. Len2 - 1]
        /\ queued' \in [Cpus -> Seq(Pages \X (OwnMfns \cup {Void}))]
        /\ pc' = [pc EXCEPT ![c] = IF k = Len2 - 1 THEN "exchange" ELSE pc[c]]
    BY <2>1, <2>3, LoopFacts
  <2>5. k # Len2 - 1 =>
          /\ lin' = lin /\ at'[c] = k + 1 /\ k + 1 <= Len2 - 1
          /\ lock' = c /\ base'[c] = v => Batch'
    BY <2>1, <2>3, LoopFacts
  <2>6. k = Len2 - 1 =>
          /\ queued'[c] = <<>> /\ at'[c] = 0
          /\ lin' = [q \in Pages |-> IF q \in RegionPages(v) THEN h[q - v] ELSE lin[q]]
    BY <2>1, <2>3, LoopFacts
  <2> QED
    BY <2>2, <2>3, <2>4, <2>5, <2>6
<1>10. pc \in [Cpus -> {"idle", "lock", "zap", "exchange", "map", "remap", "mapped", "failed"}]
  BY DEF FInv, Locals
<1>11. Alone(c)
  BY <1>7, <1>9 DEF Alone
<1>12. \A q \in Pages : Frame[q] = lin[q]
  <2>1. Away = {}
    BY <1>1 DEF Away
  <2> QED
    BY <2>1 DEF Frame
<1>13. Zapped = {q \in RegionPages(v) : q < v + k}
  BY <1>1, <1>3, <1>4 DEF Zapped
<1>14. v \in Nat /\ p \notin Zapped
  BY <1>5, <1>13, RegionFacts
<1>15. p2m[p].mfn = Frame[p] /\ Frame[p] \in OwnMfns /\ Frame[p] \in Nat /\ p \in Nat
  BY <1>14, FrameFacts, PageFacts
<1>16. y = (IF op[c].kind = "create" THEN Frame[p] ELSE p) /\ y \in Nat
  BY <1>6, <1>15 DEF virt_to_machine, get_phys_to_machine
<1>18. frames' \in [0 .. Len2 - 1 -> Nat] /\ frames'[k] = y
       /\ \A i \in 0 .. k - 1 : frames'[i] = frames[i]
  BY <1>1, <1>7, <1>16
<1>19. \A i \in 0 .. k : frames'[i] = IF op[c].kind = "create" THEN Frame[v + i] ELSE v + i
  <2> SUFFICES ASSUME NEW i \in 0 .. k
               PROVE  frames'[i] = IF op[c].kind = "create" THEN Frame[v + i] ELSE v + i
    OBVIOUS
  <2>1. CASE i \in 0 .. k - 1
    BY <1>1, <1>2, <1>3, <1>4, <1>18, <2>1 DEF Notes
  <2>2. CASE i = k
    BY <1>5, <1>16, <1>18, <2>2
  <2> QED
    BY <2>1, <2>2
<1>20. /\ ~op[c].ok
       /\ op[c].kind = "create" => first[c] = v
       /\ op[c].kind = "destroy" =>
            first[c] = Frame[v] /\ \A i \in 0 .. Len2 - 1 : Frame[v + i] = Frame[v] + i
  BY <1>1, <1>2, <1>3 DEF Notes, Extent
<1>21. Locals'
  BY <1>7, <1>9, <1>10, <1>18 DEF FInv, Locals
<1>22. p2m' \in [Pages -> {Entry(z, {}) : z \in OwnMfns} \cup {Invalid}]
  BY <1>7 DEF FInv, TypeOK
<1>23. ASSUME lin' \in [Pages -> OwnMfns \cup {Void}], Frame' = Frame,
              \A q \in Pages : q \in Zapped' <=> q \in Zapped \/ q = p,
              Batch', Notes'
       PROVE  FInv'
  <2>1. TypeOK'
    BY <1>7, <1>22, <1>23 DEF FInv, TypeOK
  <2>2. Tables'
    <3>1. \A q \in Pages : p2m'[q] = IF q \in Zapped' THEN Invalid ELSE Entry(Frame[q], {})
      <4> SUFFICES ASSUME NEW q \in Pages
                   PROVE  p2m'[q] = IF q \in Zapped' THEN Invalid ELSE Entry(Frame[q], {})
        OBVIOUS
      <4>1. CASE q = p
        BY <1>7, <1>23, <4>1 DEF FInv, TypeOK
      <4>2. CASE q # p
        BY <1>7, <1>23, <4>2 DEF FInv, TypeOK, Tables
      <4> QED
        BY <4>1, <4>2
    <3> QED
      BY <1>7, <1>23, <3>1 DEF FInv, Tables
  <2>3. Turns' /\ Waiting' /\ Clean'
    <3>1. pc'[c] \in {"zap", "exchange"}
      BY <1>9, <1>10
    <3>2. dirty \subseteq owned'
      BY <1>7 DEF FInv, Clean
    <3> QED
      BY <1>1, <1>7, <1>11, <1>23, <3>1, <3>2, HolderStep
  <2> QED
    BY <1>21, <1>23, <2>1, <2>2, <2>3 DEF FInv
<1>24. CASE k # Len2 - 1
  <2>1. /\ pc'[c] = "zap" /\ lock' = c /\ base'[c] = v /\ at'[c] = k + 1 /\ lin' = lin
        /\ op'[c] = op[c] /\ first'[c] = first[c]
    BY <1>1, <1>3, <1>7, <1>9, <1>10, <1>24
  <2>2. Frame' = Frame
    <3>1. Away' = {} /\ Away = {}
      BY <1>1, <2>1 DEF Away
    <3> QED
      BY <2>1, <3>1 DEF Frame
  <2>3. \A q \in Pages : q \in Zapped' <=> q \in Zapped \/ q = p
    <3>1. Zapped' = {q \in RegionPages(v) : q < v + (k + 1)}
      BY <1>1, <2>1 DEF Zapped
    <3>2. \A q \in Pages : q \in Nat
      BY PageFacts
    <3> QED
      BY <1>5, <1>13, <1>14, <3>1, <3>2
  <2>4. Batch'
    BY <1>9, <1>24, <2>1
  <2>5. Notes'
    <3>1. (k + 1) - 1 = k
      OBVIOUS
    <3> QED
      BY <1>1, <1>19, <1>20, <2>1, <2>2, <3>1 DEF Notes, Extent
  <2>6. lin' \in [Pages -> OwnMfns \cup {Void}]
    BY <2>1 DEF FInv, TypeOK
  <2> QED
    BY <1>23, <2>2, <2>3, <2>4, <2>5, <2>6
<1>25. CASE k = Len2 - 1
  <2>1. /\ pc'[c] = "exchange" /\ lock' = c /\ base'[c] = v /\ at'[c] = 0
        /\ lin' = [q \in Pages |-> IF q \in RegionPages(v) THEN Void ELSE lin[q]]
        /\ op'[c] = op[c] /\ first'[c] = first[c] /\ queued'[c] = <<>>
    BY <1>1, <1>3, <1>7, <1>9, <1>10, <1>25
  <2>2. \A q \in Pages : lin'[q] = IF q \in RegionPages(v) THEN Void ELSE lin[q]
    BY <2>1
  <2>3. lin' \in [Pages -> OwnMfns \cup {Void}]
    <3>1. lin' = [q \in Pages |-> lin'[q]]
      BY <2>1
    <3> QED
      BY <2>2, <3>1 DEF FInv, TypeOK
  <2>4. ASSUME NEW i \in 0 .. Len2 - 1 PROVE Held(c, i)' = Frame[v + i]
    BY <1>1, <1>19, <1>20, <1>25, <2>1 DEF Held, FromArray
  <2>5. Frame' = Frame
    <3>1. Away' = RegionPages(v)
      BY <1>1, <2>1 DEF Away
    <3>2. Frame' = [q \in Pages |-> IF q \in RegionPages(v) THEN Held(c, q - v)' ELSE lin'[q]]
      BY <2>1, <3>1 DEF Frame, Held, FromArray
    <3>3. \A q \in RegionPages(v) : Held(c, q - v)' = Frame[q]
      <4> SUFFICES ASSUME NEW q \in RegionPages(v) PROVE Held(c, q - v)' = Frame[q]
        OBVIOUS
      <4>1. q - v \in 0 .. Len2 - 1 /\ v + (q - v) = q
        BY RegionFacts
      <4>2. Held(c, q - v)' = Frame[v + (q - v)]
        BY <2>4, <4>1
      <4> QED
        BY <4>1, <4>2
    <3>4. \A q \in Pages : Frame'[q] = Frame[q]
      BY <1>12, <2>2, <3>2, <3>3
    <3> QED
      BY <3>4 DEF Frame
  <2>6. \A q \in Pages : q \in Zapped' <=> q \in Zapped \/ q = p
    <3>1. Zapped' = RegionPages(v)
      BY <1>1, <2>1 DEF Zapped
    <3>2. \A q \in RegionPages(v) : q \in Nat /\ q <= v + k
      BY <1>14, <1>25 DEF RegionPages
    <3> QED
      BY <1>5, <1>13, <1>14, <3>1, <3>2
  <2>7. Batch'
    <3>1. Len(<<>>) = 0 /\ 1 .. 0 = {}
      OBVIOUS
    <3> QED
      BY <2>1, <3>1 DEF Batch
  <2>8. Notes'
    <3>1. \A i \in 0 .. Len2 - 1 : PfnFor(c, i)' = v + i
      BY <1>1, <1>19, <1>20, <1>25, <2>1 DEF PfnFor
    <3> QED
      BY <1>1, <1>20, <2>1, <3>1 DEF Notes, PfnFor
  <2> QED
    BY <1>23, <2>3, <2>5, <2>6, <2>7, <2>8
<1> QED
  BY <1>24, <1>25

(* What the holder keeps of a region whose addresses map nothing. *)
LEMMA HeldFrames ==
  ASSUME FInv, NEW c \in Cpus, lock = c, pc[c] \in {"exchange", "map"}
  PROVE  /\ Away = RegionPages(base[c])
         /\ \A i \in 0 .. Len2 - 1 : /\ Held(c, i) = Frame[base[c] + i]
                                     /\ Held(c, i) \in OwnMfns /\ Held(c, i) \in owned
         /\ \A p \in Pages : p \notin RegionPages(base[c]) => Frame[p] = lin[p]
<1>1. c # NoCpu /\ base[c] \in Regions
  BY HolderFacts
<1>2. Away = RegionPages(base[c])
  BY <1>1 DEF Away
<1>3. ASSUME NEW i \in 0 .. Len2 - 1
      PROVE  Held(c, i) = Frame[base[c] + i] /\ Held(c, i) \in OwnMfns /\ Held(c, i) \in owned
  <2>1. base[c] + i \in RegionPages(base[c]) /\ base[c] + i \in Pages /\ (base[c] + i) - base[c] = i
    BY <1>1, RegionFacts
  <2>2. Frame[base[c] + i] = Held(c, (base[c] + i) - base[c])
    BY <1>2, <2>1 DEF Frame
  <2> QED
    BY <2>1, <2>2, FrameFacts
<1>4. \A p \in Pages : p \notin RegionPages(base[c]) => Frame[p] = lin[p]
  BY <1>2 DEF Frame
<1> QED
  BY <1>2, <1>3, <1>4

(* xen_remap_exchanged_ptes: page by page the tables say again what the holder *)
(* has, and with the last one the lock goes.                                   *)
LEMMA MapKeeps ==
  ASSUME FInv, NEW c \in Cpus, MapPage(c)
  PROVE  FInv'
<1>1. /\ pc[c] = "map" /\ lock = c /\ c # NoCpu
      /\ at[c] \in 0 .. Len2 - 1
      /\ pc \in [Cpus -> {"idle", "lock", "zap", "exchange", "map", "remap", "mapped", "failed"}]
  BY DEF FInv, Turns, Locals, MapPage
<1>2. base[c] \in Regions /\ Batch /\ Notes
  BY <1>1, HolderFacts
<1>3. PICK v \in Regions : v = base[c]
  BY <1>2
<1>4. PICK k \in 0 .. Len2 - 1 : k = at[c]
  BY <1>1
<1>5. PICK p \in Pages : p = v + k /\ p \in RegionPages(v)
  BY RegionFacts
<1>6. PICK h \in [0 .. Len2 - 1 -> OwnMfns \cup {Void}] :
        \A i \in 0 .. Len2 - 1 : h[i] = Held(c, i)
  <2>1. [i \in 0 .. Len2 - 1 |-> Held(c, i)] \in [0 .. Len2 - 1 -> OwnMfns \cup {Void}]
    BY <1>1, HeldFrames
  <2> QED
    BY <2>1
<1>7. /\ p2m' = [p2m EXCEPT ![p] = Entry(h[k], {})]
      /\ LoopStep(c, v + k, h[k], "idle")
      /\ IF k = Len2 - 1
         THEN lock' = NoCpu /\ Forget(c)
         ELSE UNCHANGED <<lock, op, base, first, frames>>
      /\ UNCHANGED <<m2p, owned, dirty, umap, stale>>
  BY <1>3, <1>4, <1>5, <1>6 DEF MapPage, remap, Held, IsLast
<1>8. /\ \A i \in 0 .. Len2 - 1 : h[i] = Frame[v + i] /\ h[i] \in OwnMfns /\ h[i] \in owned
      /\ \A q \in RegionPages(v) : h[q - v] = Frame[q]
      /\ \A q \in Pages : q \notin RegionPages(v) => Frame[q] = lin[q]
      /\ Away = RegionPages(v)
  <2>1. \A i \in 0 .. Len2 - 1 : h[i] = Frame[v + i] /\ h[i] \in OwnMfns /\ h[i] \in owned
    BY <1>1, <1>3, <1>6, HeldFrames
  <2>2. \A q \in RegionPages(v) : q - v \in 0 .. Len2 - 1 /\ v + (q - v) = q
    BY RegionFacts
  <2>3. \A q \in Pages : q \notin RegionPages(v) => Frame[q] = lin[q]
    BY <1>1, <1>3, HeldFrames
  <2>4. Away = RegionPages(v)
    BY <1>1, <1>3, HeldFrames
  <2> QED
    BY <2>1, <2>2, <2>3, <2>4
<1>9. /\ \A d \in Cpus : d # c => queued'[d] = queued[d] /\ at'[d] = at[d] /\ pc'[d] = pc[d]
      /\ at' \in [Cpus -> 0 .. Len2 - 1]
      /\ queued' \in [Cpus -> Seq(Pages \X (OwnMfns \cup {Void}))]
      /\ pc' = [pc EXCEPT ![c] = IF k = Len2 - 1 THEN "idle" ELSE "map"]
      /\ k # Len2 - 1 =>
           /\ lin' = lin /\ at'[c] = k + 1 /\ k + 1 <= Len2 - 1
           /\ Batch'
      /\ k = Len2 - 1 =>
           /\ queued'[c] = <<>> /\ at'[c] = 0
           /\ lin' = [q \in Pages |-> IF q \in RegionPages(v) THEN h[q - v] ELSE lin[q]]
  <2>1. LoopStep(c, v + k, h[k], "idle") /\ "idle" \in {"idle", "exchange"}
    BY <1>7
  <2>3. /\ v = base[c] /\ k = at[c] /\ lock = c /\ pc[c] \in {"zap", "map"}
        /\ \A i \in 0 .. Len2 - 1 : h[i] = IF pc[c] = "zap" THEN Void ELSE Held(c, i)
    BY <1>1, <1>3, <1>4, <1>6
  <2>4. /\ \A d \in Cpus : d # c => queued'[d] = queued[d] /\ at'[d] = at[d] /\ pc'[d] = pc[d]
        /\ at' \in [Cpus -> 0 .. Len2 - 1]
        /\ queued' \in [Cpus -> Seq(Pages \X (OwnMfns \cup {Void}))]
        /\ pc' = [pc EXCEPT ![c] = IF k = Len2 - 1 THEN "idle" ELSE pc[c]]
    BY <2>1, <2>3, LoopFacts
  <2>5. k # Len2 - 1 =>
          /\ lin' = lin /\ at'[c] = k + 1 /\ k + 1 <= Len2 - 1
          /\ lock' = c /\ base'[c] = v /\ (\A i \in 0 .. k : pc[c] # "zap" => Held(c, i)' = h[i]) => Batch'
    BY <2>1, <2>3, LoopFacts
  <2>6. k = Len2 - 1 =>
          /\ queued'[c] = <<>> /\ at'[c] = 0
          /\ lin' = [q \in Pages |-> IF q \in RegionPages(v) THEN h[q - v] ELSE lin[q]]
    BY <2>1, <2>3, LoopFacts
  <2>7. k # Len2 - 1 => lock' = c /\ base'[c] = v /\ \A i \in 0 .. Len2 - 1 : Held(c, i)' = h[i]
    BY <1>1, <1>3, <1>6, <1>7 DEF Held, FromArray
  <2>8. \A i \in 0 .. k : i \in 0 .. Len2 - 1
    OBVIOUS
  <2> QED
    BY <1>1, <2>3, <2>4, <2>5, <2>6, <2>7, <2>8
<1>10. v \in Nat /\ Zapped = {q \in RegionPages(v) : q >= v + k}
  BY <1>1, <1>3, <1>4, RegionFacts DEF Zapped
<1>11. p2m' \in [Pages -> {Entry(z, {}) : z \in OwnMfns} \cup {Invalid}]
  BY <1>7, <1>8 DEF FInv, TypeOK
<1>12. \A q \in Pages : p2m'[q] = IF q \in Zapped /\ q # p THEN Invalid ELSE Entry(Frame[q], {})
  <2> SUFFICES ASSUME NEW q \in Pages
               PROVE  p2m'[q] = IF q \in Zapped /\ q # p THEN Invalid ELSE Entry(Frame[q], {})
    OBVIOUS
  <2>1. CASE q = p
    BY <1>5, <1>7, <1>8, <2>1 DEF FInv, TypeOK
  <2>2. CASE q # p
    BY <1>7, <2>2 DEF FInv, TypeOK, Tables
  <2> QED
    BY <2>1, <2>2
<1>13. CASE k # Len2 - 1
  <2>1. /\ pc'[c] = "map" /\ lock' = c /\ base'[c] = v /\ at'[c] = k + 1 /\ lin' = lin
        /\ UNCHANGED <<op, first, frames, base>>
    BY <1>1, <1>3, <1>7, <1>9, <1>13
  <2>2. Frame' = Frame
    <3>1. Away' = Away
      BY <1>1, <1>3, <1>8, <2>1 DEF Away
    <3> QED
      BY <1>1, <1>3, <2>1, <3>1 DEF Frame, Held, FromArray
  <2>3. \A q \in Pages : q \in Zapped' <=> q \in Zapped /\ q # p
    <3>1. Zapped' = {q \in RegionPages(v) : q >= v + (k + 1)}
      BY <1>1, <2>1 DEF Zapped
    <3>2. \A q \in Pages : q \in Nat
      BY PageFacts
    <3> QED
      BY <1>5, <1>10, <3>1, <3>2
  <2>4. Tables'
    BY <1>7, <1>12, <2>2, <2>3 DEF FInv, Tables
  <2>5. Notes'
    BY <2>1 DEF Notes
  <2>6. TypeOK'
    BY <1>1, <1>7, <1>11, <2>1 DEF FInv, TypeOK
  <2>7. Locals'
    BY <1>1, <1>7, <1>9, <2>1 DEF FInv, Locals
  <2>8. Turns' /\ Waiting' /\ Clean'
    <3>1. Alone(c)
      BY <1>9, <2>1 DEF Alone
    <3>2. dirty \subseteq owned'
      BY <1>7 DEF FInv, Clean
    <3>3. pc'[c] \in {"zap", "exchange", "map"} /\ base'[c] = base[c]
      BY <1>3, <2>1
    <3> QED
      BY <1>1, <1>7, <2>1, <2>2, <3>1, <3>2, <3>3, HolderStep
  <2> QED
    BY <1>9, <1>13, <2>4, <2>5, <2>6, <2>7, <2>8 DEF FInv
<1>14. CASE k = Len2 - 1
  <2>1. /\ pc' = [pc EXCEPT ![c] = "idle"] /\ lock' = NoCpu
        /\ op' = [op EXCEPT ![c] = NoOp] /\ base' = [base EXCEPT ![c] = 0]
        /\ first' = [first EXCEPT ![c] = 0] /\ frames' = NoFrames
        /\ queued'[c] = <<>> /\ at'[c] = 0
        /\ lin' = [q \in Pages |-> IF q \in RegionPages(v) THEN h[q - v] ELSE lin[q]]
    BY <1>7, <1>9, <1>14 DEF Forget
  <2>2. Frame' = Frame /\ Zapped' = {}
    <3>1. Away' = {} /\ Zapped' = {}
      BY <2>1 DEF Away, Zapped
    <3>2. \A q \in Pages : lin'[q] = Frame[q]
      BY <1>8, <2>1
    <3>3. Frame' = [q \in Pages |-> lin'[q]]
      BY <3>1 DEF Frame
    <3>4. Frame = [q \in Pages |-> Frame[q]]
      BY DEF Frame
    <3> QED
      BY <3>1, <3>2, <3>3, <3>4
  <2>3. \A q \in Zapped : q = p
    <3>1. \A q \in RegionPages(v) : q \in Nat /\ q <= v + k
      BY <1>10, <1>14 DEF RegionPages
    <3> QED
      BY <1>5, <1>10, <3>1
  <2>4. Tables'
    BY <1>7, <1>12, <2>2, <2>3 DEF FInv, Tables
  <2>5. TypeOK'
    <3>1. lin' \in [Pages -> OwnMfns \cup {Void}]
      <4>1. \A q \in RegionPages(v) : q - v \in 0 .. Len2 - 1
        BY RegionFacts
      <4> QED
        BY <2>1, <4>1 DEF FInv, TypeOK
    <3> QED
      BY <1>7, <1>11, <2>1, <3>1 DEF FInv, TypeOK
  <2>6. Locals'
    <3>1. NoOp \in [kind : {"create", "destroy"}, ok : BOOLEAN] /\ NoFrames \in [0 .. Len2 - 1 -> Nat]
      BY DEF NoOp, NoFrames
    <3> QED
      BY <1>7, <1>9, <2>1, <3>1 DEF FInv, Locals
  <2>7. /\ \A d \in Cpus : d # c => pc'[d] = pc[d] /\ base'[d] = base[d] /\ op'[d] = op[d]
        /\ pc'[c] = "idle"
    BY <1>1, <2>1 DEF FInv, Locals
  <2>8. Alone(c)
    BY <1>9, <2>7 DEF Alone
  <2>9. \A d \in Cpus : d # c =>
           /\ pc[d] \notin {"zap", "exchange", "map"}
           /\ at[d] = 0 /\ queued[d] = <<>>
           /\ InOp(d) => \A q \in RegionPages(base[d]) : q \in Pages /\ Frame'[q] = Frame[q]
           /\ pc[d] = "lock" => ~op[d].ok /\ (op[d].kind = "destroy" =>
                \A i \in 0 .. Len2 - 1 : Frame'[base[d] + i] = Frame'[base[d]] + i)
    BY <1>1, <2>2, <2>8, OthersKept
  <2>10. Turns'
    <3>1. \A d \in Cpus : pc'[d] \notin {"zap", "exchange", "map"}
      BY <2>7, <2>9
    <3>2. \A d \in Cpus : InOp(d)' => d # c /\ InOp(d) /\ base'[d] = base[d]
      BY <2>7 DEF InOp
    <3> QED
      BY <2>1, <3>1, <3>2 DEF FInv, Turns
  <2>11. Waiting'
    <3>1. ASSUME NEW d \in Cpus
          PROVE  /\ at'[d] = 0 /\ queued'[d] = <<>>
                 /\ pc'[d] = "lock" => /\ ~op'[d].ok
                                       /\ op'[d].kind = "destroy" => \A i \in 0 .. Len2 - 1 :
                                            Frame'[base'[d] + i] = Frame'[base'[d]] + i
      <4>1. CASE d = c
        BY <2>1, <2>7, <4>1
      <4>2. CASE d # c
        <5>1. /\ pc'[d] = pc[d] /\ base'[d] = base[d] /\ op'[d] = op[d]
              /\ at'[d] = at[d] /\ queued'[d] = queued[d]
          BY <1>9, <2>7, <4>2
        <5> QED
          BY <2>9, <4>2, <5>1
      <4> QED
        BY <4>1, <4>2
    <3> QED
      BY <3>1 DEF Waiting, Extent
  <2>12. Clean'
    <3>1. \A d \in Cpus : pc'[d] \in {"lock", "zap", "exchange"} =>
                            base'[d] = base[d] /\ pc[d] \in {"lock", "zap", "exchange"}
      BY <2>7
    <3> QED
      BY <1>7, <2>2, <3>1 DEF FInv, Clean
  <2> QED
    BY <2>1, <2>4, <2>5, <2>6, <2>10, <2>11, <2>12 DEF FInv
<1> QED
  BY <1>13, <1>14

LEMMA FailKeeps ==
  ASSUME FInv, NEW c \in Cpus, ExchangeFailed(c)
  PROVE  FInv'
<1>1. /\ pc[c] = "exchange" /\ lock = c /\ c # NoCpu
      /\ pc' = [pc EXCEPT ![c] = "map"]
      /\ UNCHANGED <<p2m, m2p, lin, owned, dirty, lock, op, base, at, first, frames, queued, umap, stale>>
  BY DEF FInv, Turns, ExchangeFailed, tables, remap, Goto
<1>2. pc'[c] = "map" /\ \A d \in Cpus : d # c => pc'[d] = pc[d]
  BY <1>1 DEF FInv, Locals
<1>3. base[c] \in Regions /\ Batch /\ Notes
  BY <1>1, HolderFacts
<1>4. at[c] = 0
  BY <1>1, <1>3 DEF Batch
<1>5. Frame' = Frame
  <2>1. Away' = Away
    BY <1>1, <1>2 DEF Away
  <2> QED
    BY <1>1, <2>1 DEF Frame, Held, FromArray
<1>6. Zapped' = Zapped
  <2>1. Zapped = RegionPages(base[c])
    BY <1>1 DEF Zapped
  <2>2. Zapped' = {p \in RegionPages(base[c]) : p >= base[c] + 0}
    BY <1>1, <1>2, <1>4 DEF Zapped
  <2>3. \A p \in RegionPages(base[c]) : p >= base[c] + 0
    BY <1>3, RegionFacts, PageFacts
  <2> QED
    BY <2>1, <2>2, <2>3
<1>7. TypeOK' /\ Locals'
  BY <1>1 DEF FInv, TypeOK, Locals
<1>8. Tables'
  BY <1>1, <1>5, <1>6 DEF FInv, Tables
<1>9. Batch' /\ Notes'
  <2>1. 1 .. 0 = {}
    OBVIOUS
  <2>2. Len(queued[c]) = 0
    BY <1>1, <1>3, <1>4 DEF Batch
  <2> QED
    BY <1>1, <1>2, <1>4, <2>1, <2>2 DEF Batch, Notes
<1>10. Turns' /\ Waiting' /\ Clean'
  <2>1. Alone(c)
    BY <1>1, <1>2 DEF Alone
  <2>2. dirty \subseteq owned'
    BY <1>1 DEF FInv, Clean
  <2>3. pc'[c] \in {"zap", "exchange", "map"} /\ base'[c] = base[c]
    BY <1>1, <1>2
  <2> QED
    BY <1>1, <1>2, <1>5, <2>1, <2>2, <2>3, HolderStep
<1> QED
  BY <1>7, <1>8, <1>9, <1>10 DEF FInv

(* Both kinds hand in the frames of the region's pages. *)
LEMMA GivenFrames ==
  ASSUME FInv, NEW c \in Cpus, pc[c] = "exchange"
  PROVE  \A x : x \in Given(c) <=> \E p \in RegionPages(base[c]) : x = Frame[p]
<1>1. lock = c /\ c # NoCpu
  BY DEF FInv, Turns
<1>2. base[c] \in Regions /\ Notes
  BY <1>1, HolderFacts
<1>3. ~op[c].ok /\ op[c].kind \in {"create", "destroy"} /\ frames \in [0 .. Len2 - 1 -> Nat]
      /\ first[c] \in Nat
  BY <1>1, <1>2 DEF Notes, FInv, Locals
<1>4. \A i \in 0 .. Len2 - 1 : Held(c, i) = Frame[base[c] + i]
  BY <1>1, HeldFrames
<1>5. \A x : x \in Given(c) <=> \E i \in 0 .. Len2 - 1 : x = Held(c, i)
  <2>1. CASE op[c].kind = "create"
    BY <1>3, <2>1 DEF Given, Held, FromArray
  <2>2. CASE op[c].kind = "destroy"
    <3>1. Given(c) = first[c] .. first[c] + Len2 - 1
      BY <2>2 DEF Given
    <3>4. ~FromArray(c)
      <4>1. op[c].ok \in BOOLEAN
        BY DEF FInv, Locals
      <4> QED
        BY <1>3, <2>2, <4>1 DEF FromArray
    <3>2. \A i : Held(c, i) = first[c] + i
      BY <3>4 DEF Held
    <3>3. ASSUME NEW x PROVE x \in first[c] .. first[c] + Len2 - 1
                             <=> \E i \in 0 .. Len2 - 1 : x = first[c] + i
      <4>1. ASSUME x \in first[c] .. first[c] + Len2 - 1
            PROVE  \E i \in 0 .. Len2 - 1 : x = first[c] + i
        <5>1. x - first[c] \in 0 .. Len2 - 1 /\ x = first[c] + (x - first[c])
          BY <1>3, <4>1
        <5> QED
          BY <5>1
      <4>2. ASSUME NEW i \in 0 .. Len2 - 1, x = first[c] + i
            PROVE  x \in first[c] .. first[c] + Len2 - 1
        BY <1>3, <4>2
      <4> QED
        BY <4>1, <4>2
    <3> QED
      BY <3>1, <3>2, <3>3
  <2> QED
    BY <1>3, <2>1, <2>2
<1>6. /\ \A i \in 0 .. Len2 - 1 : base[c] + i \in RegionPages(base[c])
      /\ \A p \in RegionPages(base[c]) : p - base[c] \in 0 .. Len2 - 1 /\ base[c] + (p - base[c]) = p
  BY <1>2, RegionFacts
<1>7. ASSUME NEW x, x \in Given(c) PROVE \E p \in RegionPages(base[c]) : x = Frame[p]
  <2>1. PICK i \in 0 .. Len2 - 1 : x = Held(c, i)
    BY <1>5, <1>7
  <2>2. base[c] + i \in RegionPages(base[c]) /\ x = Frame[base[c] + i]
    BY <1>4, <1>6, <2>1
  <2> QED
    BY <2>2
<1>8. ASSUME NEW x, NEW p \in RegionPages(base[c]), x = Frame[p] PROVE x \in Given(c)
  <2>1. p - base[c] \in 0 .. Len2 - 1 /\ x = Frame[base[c] + (p - base[c])]
    BY <1>6, <1>8
  <2>2. x = Held(c, p - base[c])
    BY <1>4, <2>1
  <2> QED
    BY <1>5, <2>1, <2>2
<1> QED
  BY <1>7, <1>8

(* The frames a successful exchange brings: as many as the region's pages, *)
(* none twice.                                                             *)
LEMMA ExtentFacts ==
  ASSUME FInv, NEW c \in Cpus, NEW g \in Extents(c)
  PROVE  /\ g \in [0 .. Len2 - 1 -> OwnMfns]
         /\ \A i, j \in 0 .. Len2 - 1 : g[i] = g[j] => i = j
         /\ op[c].kind = "create" => \A i \in 0 .. Len2 - 1 : g[i] = g[0] + i
<1>1. CASE op[c].kind = "create"
  <2>1. PICK s \in OwnMfns : s + Len2 <= NMfn /\ g = [i \in 0 .. Len2 - 1 |-> s + i]
    BY <1>1 DEF Extents
  <2>2. s \in Nat /\ \A i \in 0 .. Len2 - 1 : s + i \in OwnMfns
    BY <2>1 DEF OwnMfns
  <2>3. g[0] = s + 0 /\ s + 0 = s /\ \A i \in 0 .. Len2 - 1 : g[i] = s + i
    BY <2>1, <2>2
  <2>4. \A i, j \in 0 .. Len2 - 1 : s + i = s + j => i = j
    BY <2>2
  <2> QED
    BY <2>1, <2>2, <2>3, <2>4
<1>2. CASE op[c].kind # "create"
  BY <1>2 DEF Extents, Injection, IsInjective
<1> QED
  BY <1>1, <1>2

(* XENMEM_exchange: the region's pages get the new frames, in order, and the *)
(* old ones leave the domain without data.                                   *)
LEMMA DoneKeeps ==
  ASSUME FInv, NEW c \in Cpus, ExchangeDone(c)
  PROVE  FInv'
<1>1. /\ pc[c] = "exchange" /\ lock = c /\ c # NoCpu
      /\ pc' = [pc EXCEPT ![c] = "map"]
      /\ op' = [op EXCEPT ![c] = [kind |-> op[c].kind, ok |-> TRUE]]
      /\ UNCHANGED <<p2m, lin, dirty, lock, base, at, queued, umap, stale>>
  BY DEF FInv, Turns, ExchangeDone, remap, Goto
<1>2. base[c] \in Regions /\ Batch /\ Notes
  BY <1>1, HolderFacts
<1>3. PICK v \in Regions : v = base[c]
  BY <1>2
<1>4. PICK G : G = Given(c)
  OBVIOUS
<1>5. PICK g \in Extents(c) :
        LET new == {g[i] : i \in DOMAIN g}
        IN /\ new \cap owned = {}
           /\ owned' = (owned \ G) \cup new
           /\ m2p' = [x \in OwnMfns |->
                        IF x \in new THEN PfnFor(c, CHOOSE i \in DOMAIN g : g[i] = x)
                        ELSE IF x \in G THEN NoPfn ELSE m2p[x]]
           /\ IF op[c].kind = "create"
              THEN first' = [first EXCEPT ![c] = g[0]] /\ UNCHANGED frames
              ELSE frames' = g /\ UNCHANGED first
  BY <1>4 DEF ExchangeDone
<1>6. /\ g \in [0 .. Len2 - 1 -> OwnMfns]
      /\ \A i, j \in 0 .. Len2 - 1 : g[i] = g[j] => i = j
      /\ op[c].kind = "create" => \A i \in 0 .. Len2 - 1 : g[i] = g[0] + i
  BY ExtentFacts
<1>7. PICK N : N = {g[i] : i \in DOMAIN g}
  OBVIOUS
<1>8. /\ N \cap owned = {} /\ owned' = (owned \ G) \cup N
      /\ m2p' = [x \in OwnMfns |->
                   IF x \in N THEN PfnFor(c, CHOOSE i \in DOMAIN g : g[i] = x)
                   ELSE IF x \in G THEN NoPfn ELSE m2p[x]]
      /\ op[c].kind = "create" => first' = [first EXCEPT ![c] = g[0]] /\ UNCHANGED frames
      /\ op[c].kind # "create" => frames' = g /\ UNCHANGED first
  BY <1>5, <1>7
<1>9. /\ \A x : x \in N <=> \E i \in 0 .. Len2 - 1 : x = g[i]
      /\ N \subseteq OwnMfns
  BY <1>6, <1>7
<1>10. \A x : x \in G <=> \E p \in RegionPages(v) : x = Frame[p]
  BY <1>1, <1>3, <1>4, GivenFrames
<1>11. /\ op[c].kind \in {"create", "destroy"} /\ op[c].ok \in BOOLEAN
       /\ op'[c].kind = op[c].kind /\ op'[c].ok = TRUE /\ pc'[c] = "map"
       /\ first \in [Cpus -> Nat] /\ frames \in [0 .. Len2 - 1 -> Nat]
       /\ \A d \in Cpus : d # c => pc'[d] = pc[d] /\ op'[d] = op[d]
  BY <1>1 DEF FInv, Locals
<1>12. at[c] = 0 /\ Len(queued[c]) = 0
  BY <1>1, <1>2 DEF Batch
<1>13. \A i \in 0 .. Len2 - 1 : g[i] \in Nat
  BY <1>6, PageFacts
<1>14. \A i \in 0 .. Len2 - 1 : Held(c, i)' = g[i]
  <2>1. CASE op[c].kind = "create"
    <3>1. FromArray(c)' = FALSE
      BY <1>11, <2>1 DEF FromArray
    <3>2. first'[c] = g[0]
      BY <1>8, <1>11, <2>1
    <3> QED
      BY <1>6, <2>1, <3>1, <3>2 DEF Held, FromArray
  <2>2. CASE op[c].kind = "destroy"
    BY <1>8, <1>11, <2>2 DEF Held, FromArray
  <2> QED
    BY <1>11, <2>1, <2>2
<1>15. /\ \A p \in RegionPages(v) : Frame'[p] = g[p - v] /\ p - v \in 0 .. Len2 - 1
       /\ \A p \in Pages : p \notin RegionPages(v) => Frame'[p] = Frame[p]
  <2>1. Away' = RegionPages(v) /\ Away = RegionPages(v)
    BY <1>1, <1>3, <1>11 DEF Away
  <2>2. Frame' = [p \in Pages |-> IF p \in RegionPages(v) THEN Held(c, p - v)' ELSE lin[p]]
    BY <1>1, <1>3, <2>1 DEF Frame, Held, FromArray
  <2>3. \A p \in RegionPages(v) : p \in Pages /\ p - v \in 0 .. Len2 - 1
    BY RegionFacts
  <2>4. \A p \in Pages : p \notin RegionPages(v) => Frame[p] = lin[p]
    BY <2>1 DEF Frame
  <2> QED
    BY <1>14, <2>2, <2>3, <2>4
<1>16. /\ Zapped = RegionPages(v) /\ Zapped' = RegionPages(v)
  <2>1. Zapped = RegionPages(v)
    BY <1>1, <1>3 DEF Zapped
  <2>2. Zapped' = {p \in RegionPages(v) : p >= v + 0}
    BY <1>1, <1>3, <1>11, <1>12 DEF Zapped
  <2>3. \A p \in RegionPages(v) : p >= v + 0
    BY RegionFacts, PageFacts
  <2> QED
    BY <2>1, <2>2, <2>3
<1>17. \A i \in 0 .. Len2 - 1 : m2p'[g[i]] = v + i
  <2> SUFFICES ASSUME NEW i \in 0 .. Len2 - 1 PROVE m2p'[g[i]] = v + i
    OBVIOUS
  <2>1. g[i] \in N /\ g[i] \in OwnMfns /\ DOMAIN g = 0 .. Len2 - 1
    BY <1>6, <1>9
  <2>2. (CHOOSE j \in DOMAIN g : g[j] = g[i]) = i
    <3>1. \A j \in 0 .. Len2 - 1 : g[j] = g[i] <=> j = i
      BY <1>6
    <3> QED
      BY <2>1, <3>1
  <2>3. m2p'[g[i]] = PfnFor(c, CHOOSE j \in DOMAIN g : g[j] = g[i])
    BY <1>8, <2>1
  <2>4. PfnFor(c, i) = v + i
    BY <1>1, <1>2, <1>3 DEF Notes
  <2> QED
    BY <2>2, <2>3, <2>4
<1>18. \A p \in Pages : p \notin RegionPages(v) =>
         Frame[p] \in owned' /\ Frame[p] \notin N /\ Frame[p] \notin G /\ m2p'[Frame[p]] = p
  <2> SUFFICES ASSUME NEW p \in Pages, p \notin RegionPages(v)
               PROVE  Frame[p] \in owned' /\ Frame[p] \notin N /\ Frame[p] \notin G
                      /\ m2p'[Frame[p]] = p
    OBVIOUS
  <2>1. Frame[p] \in owned /\ Frame[p] \in OwnMfns /\ m2p[Frame[p]] = p
    BY FrameFacts
  <2>2. Frame[p] \notin N
    BY <1>8, <2>1
  <2>3. Frame[p] \notin G
    <3>1. \A q \in RegionPages(v) : q \in Pages /\ Frame[p] # Frame[q]
      BY RegionFacts, FrameFacts
    <3> QED
      BY <1>10, <3>1
  <2> QED
    BY <1>8, <2>1, <2>2, <2>3
<1>19. TypeOK'
  <2>1. \A i \in DOMAIN g : PfnFor(c, i) \in Pages
    <3>1. \A i \in 0 .. Len2 - 1 : PfnFor(c, i) = v + i
      BY <1>1, <1>2, <1>3 DEF Notes
    <3> QED
      BY <1>6, <3>1, RegionFacts
  <2>2. \A x \in N : (CHOOSE i \in DOMAIN g : g[i] = x) \in DOMAIN g
    BY <1>6, <1>9
  <2>3. m2p' \in [OwnMfns -> Pages \cup {NoPfn}]
    BY <1>8, <2>1, <2>2, SMTT(30) DEF FInv, TypeOK
  <2>4. owned' \subseteq OwnMfns
    BY <1>8, <1>9 DEF FInv, TypeOK
  <2> QED
    BY <1>1, <2>3, <2>4 DEF FInv, TypeOK
<1>20. Locals'
  <2>1. first' \in [Cpus -> Nat] /\ frames' \in [0 .. Len2 - 1 -> Nat]
    <3>1. CASE op[c].kind = "create"
      <4>1. g[0] \in Nat
        BY <1>13
      <4> QED
        BY <1>8, <1>11, <3>1, <4>1
    <3>2. CASE op[c].kind # "create"
      BY <1>6, <1>8, <1>11, <1>13, <3>2
    <3> QED
      BY <3>1, <3>2
  <2>2. op' \in [Cpus -> [kind : {"create", "destroy"}, ok : BOOLEAN]]
    BY <1>1, <1>11 DEF FInv, Locals
  <2> QED
    BY <1>1, <2>1, <2>2 DEF FInv, Locals
<1>21. Tables'
  <2>1. ASSUME NEW p \in Pages PROVE Frame'[p] \in owned' /\ m2p'[Frame'[p]] = p
    <3>1. CASE p \in RegionPages(v)
      <4>1. Frame'[p] = g[p - v] /\ p - v \in 0 .. Len2 - 1 /\ v + (p - v) = p
        BY <1>15, <3>1, RegionFacts
      <4>2. g[p - v] \in owned'
        BY <1>8, <1>9, <4>1
      <4>3. m2p'[g[p - v]] = v + (p - v)
        BY <1>17, <4>1
      <4> QED
        BY <4>1, <4>2, <4>3
    <3>2. CASE p \notin RegionPages(v)
      BY <1>15, <1>18, <3>2
    <3> QED
      BY <3>1, <3>2
  <2>2. ASSUME NEW x \in owned' PROVE \E p \in Pages : Frame'[p] = x
    <3>1. CASE x \in N
      <4>1. PICK i \in 0 .. Len2 - 1 : x = g[i]
        BY <1>9, <3>1
      <4>2. v + i \in RegionPages(v) /\ v + i \in Pages /\ (v + i) - v = i
        BY RegionFacts
      <4>3. Frame'[v + i] = g[(v + i) - v]
        BY <1>15, <4>2
      <4> QED
        BY <4>1, <4>2, <4>3
    <3>2. CASE x \in owned /\ x \notin G
      <4>1. PICK p \in Pages : Frame[p] = x
        BY <3>2, FrameFacts
      <4>2. p \notin RegionPages(v)
        BY <1>10, <3>2, <4>1
      <4> QED
        BY <1>15, <4>1, <4>2
    <3> QED
      BY <1>8, <3>1, <3>2
  <2>3. \A p \in Pages : p2m'[p] = IF p \in Zapped' THEN Invalid ELSE Entry(Frame'[p], {})
    BY <1>1, <1>15, <1>16 DEF FInv, Tables
  <2> QED
    BY <2>1, <2>2, <2>3 DEF Tables
<1>22. Batch' /\ Notes'
  <2>1. 1 .. 0 = {}
    OBVIOUS
  <2> QED
    BY <1>1, <1>11, <1>12, <2>1 DEF Batch, Notes
<1>23. Turns' /\ Waiting' /\ Clean'
  <2>1. Alone(c)
    BY <1>1, <1>11 DEF Alone
  <2>2. dirty \subseteq owned'
    <3>1. \A x \in dirty : x \in owned /\ x \notin G
      BY <1>1, <1>3, <1>10 DEF FInv, Clean
    <3> QED
      BY <1>8, <3>1
  <2>3. pc'[c] \in {"zap", "exchange", "map"} /\ base'[c] = base[c]
    BY <1>1, <1>11
  <2> QED
    BY <1>1, <1>3, <1>11, <1>15, <2>1, <2>2, <2>3, HolderStep
<1> QED
  BY <1>19, <1>20, <1>21, <1>22, <1>23 DEF FInv
------------------------------------------------------------------------------
(* The invariant *)

LEMMA InitFrames == Init => FInv
<1> SUFFICES ASSUME Init PROVE FInv
  OBVIOUS
<1>1. /\ lin \in [Pages -> OwnMfns] /\ \A p, q \in Pages : lin[p] = lin[q] => p = q
      /\ lock = NoCpu /\ pc = [c \in Cpus |-> "idle"]
      /\ p2m = [p \in Pages |-> Entry(lin[p], {})]
      /\ owned = {lin[p] : p \in Pages} /\ dirty = owned
      /\ m2p = [x \in OwnMfns |-> IF x \in owned
                                  THEN CHOOSE p \in Pages : lin[p] = x ELSE NoPfn]
  BY DEF Init, Injection, IsInjective
<1>2. Away = {} /\ Zapped = {}
  BY <1>1 DEF Away, Zapped
<1>3. \A p \in Pages : Frame[p] = lin[p]
  BY <1>2 DEF Frame
<1>4. TypeOK
  <2>1. \A x \in owned : (CHOOSE p \in Pages : lin[p] = x) \in Pages
    BY <1>1
  <2>2. m2p \in [OwnMfns -> Pages \cup {NoPfn}]
    BY <1>1, <2>1
  <2> QED
    BY <1>1, <2>2 DEF TypeOK
<1>5. Locals
  <2>1. NoOp \in [kind : {"create", "destroy"}, ok : BOOLEAN] /\ NoFrames \in [0 .. Len2 - 1 -> Nat]
        /\ 0 \in 0 .. Len2 - 1
    BY DEF NoOp, NoFrames
  <2> QED
    BY <2>1 DEF Init, Locals
<1>6. Turns
  BY <1>1 DEF Turns, InOp
<1>7. Tables
  <2>1. ASSUME NEW p \in Pages PROVE lin[p] \in owned /\ m2p[lin[p]] = p
    <3>1. lin[p] \in owned /\ lin[p] \in OwnMfns
      BY <1>1
    <3>2. m2p[lin[p]] = CHOOSE q \in Pages : lin[q] = lin[p]
      BY <1>1, <3>1
    <3> QED
      BY <1>1, <3>1, <3>2
  <2>2. \A x \in owned : \E p \in Pages : lin[p] = x
    BY <1>1
  <2> QED
    BY <1>1, <1>2, <1>3, <2>1, <2>2 DEF Tables
<1>8. Waiting
  BY <1>1 DEF Init, Waiting
<1>9. Clean
  BY <1>1 DEF Clean
<1> QED
  BY <1>1, <1>4, <1>5, <1>6, <1>7, <1>8, <1>9 DEF FInv

LEMMA InitRemapped == Init => Remapped
<1> SUFFICES ASSUME Init, NEW c \in Cpus
             PROVE  umap[c] = <<>> /\ pc[c] = "idle" /\ stale = {}
  <2>1. Len(<<>>) <= NRemap /\ DOMAIN <<>> = {}
    OBVIOUS
  <2> QED
    BY <2>1 DEF Remapped, RemapExact, Init
<1> QED
  BY DEF Init

(* A step that is none of a remap's leaves every remap alone. *)
LEMMA RemapsKept ==
  ASSUME Locals, Remapped, UNCHANGED <<umap, stale>>, NEW c \in Cpus,
         pc[c] \notin {"remap", "mapped", "failed"},
         NEW s \in {"idle", "lock", "zap", "exchange", "map"}, pc' = [pc EXCEPT ![c] = s]
  PROVE  Remapped'
<1>1. pc'[c] = s /\ \A d \in Cpus : d # c => pc'[d] = pc[d]
  BY DEF Locals
<1>2. c \notin stale
  BY DEF Remapped
<1> QED
  BY <1>1, <1>2 DEF Remapped, RemapExact

LEMMA StepKeeps ==
  ASSUME IInv, [Next]_vars
  PROVE  IInv'
<1>1. FInv /\ Remapped /\ Locals
  BY DEF IInv, FInv
<1>2. CASE UNCHANGED vars
  <2>1. UNCHANGED <<p2m, m2p, lin, owned, dirty, lock, pc, op, base, at, first, frames, queued,
                    umap, stale>>
    BY <1>2 DEF vars
  <2>2. Frame' = Frame /\ Zapped' = Zapped /\ (lock # NoCpu /\ Batch /\ Notes => Batch' /\ Notes')
    BY <2>1, SameFrames
  <2>3. TypeOK' /\ Locals' /\ Turns' /\ Remapped'
    BY <1>1, <2>1 DEF FInv, TypeOK, Locals, Turns, InOp, Remapped, RemapExact
  <2>4. Tables' /\ Waiting' /\ Clean'
    BY <1>1, <2>1, <2>2 DEF FInv, Tables, Waiting, Extent, Clean
  <2> QED
    BY <1>1, <2>1, <2>2, <2>3, <2>4 DEF IInv, FInv
<1>3. ASSUME NEW v \in Regions, Use(v) PROVE IInv'
  <2>1. FInv'
    BY <1>1, <1>3, UseKeeps
  <2>2. Remapped'
    BY <1>1, <1>3 DEF Use, remap, Remapped, RemapExact
  <2> QED
    BY <2>1, <2>2 DEF IInv
<1>4. ASSUME NEW c \in Cpus, Remapping(c) PROVE IInv'
  BY <1>1, <1>4, RemapKeeps, RemapSteps DEF IInv
<1>5. ASSUME NEW c \in Cpus, NEW v \in Regions, NEW kind \in {"create", "destroy"}, Begin(c, v, kind)
      PROVE  IInv'
  <2>1. FInv'
    BY <1>1, <1>5, BeginKeeps
  <2>2. /\ UNCHANGED <<umap, stale>> /\ pc[c] \notin {"remap", "mapped", "failed"}
        /\ pc' = [pc EXCEPT ![c] = "lock"]
    BY <1>5 DEF Begin, Goto, remap
  <2>3. Remapped'
    BY <1>1, <2>2, RemapsKept
  <2> QED
    BY <2>1, <2>3 DEF IInv
<1>6. ASSUME NEW c \in Cpus, Lock(c) PROVE IInv'
  <2>1. FInv'
    BY <1>1, <1>6, LockKeeps
  <2>2. /\ UNCHANGED <<umap, stale>> /\ pc[c] \notin {"remap", "mapped", "failed"}
        /\ pc' = [pc EXCEPT ![c] = "zap"]
    BY <1>6 DEF Lock, Goto, remap
  <2>3. Remapped'
    BY <1>1, <2>2, RemapsKept
  <2> QED
    BY <2>1, <2>3 DEF IInv
<1>7. ASSUME NEW c \in Cpus, ZapPage(c) PROVE IInv'
  <2>1. FInv'
    BY <1>1, <1>7, ZapKeeps
  <2>2. PICK s : s = IF IsLast(c) THEN "exchange" ELSE "zap"
    OBVIOUS
  <2>3. /\ UNCHANGED <<umap, stale>> /\ pc[c] \notin {"remap", "mapped", "failed"}
        /\ pc' = [pc EXCEPT ![c] = s] /\ s \in {"idle", "lock", "zap", "exchange", "map"}
    BY <1>1, <1>7, <2>2 DEF ZapPage, LoopStep, remap, Locals
  <2>4. Remapped'
    BY <1>1, <2>3, RemapsKept
  <2> QED
    BY <2>1, <2>4 DEF IInv
<1>8. ASSUME NEW c \in Cpus, ExchangeDone(c) \/ ExchangeFailed(c) PROVE IInv'
  <2>1. FInv'
    BY <1>1, <1>8, DoneKeeps, FailKeeps
  <2>2. /\ UNCHANGED <<umap, stale>> /\ pc[c] \notin {"remap", "mapped", "failed"}
        /\ pc' = [pc EXCEPT ![c] = "map"]
    BY <1>8 DEF ExchangeDone, ExchangeFailed, Goto, remap
  <2>3. Remapped'
    BY <1>1, <2>2, RemapsKept
  <2> QED
    BY <2>1, <2>3 DEF IInv
<1>9. ASSUME NEW c \in Cpus, MapPage(c) PROVE IInv'
  <2>1. FInv'
    BY <1>1, <1>9, MapKeeps
  <2>2. PICK s : s = IF IsLast(c) THEN "idle" ELSE "map"
    OBVIOUS
  <2>3. /\ UNCHANGED <<umap, stale>> /\ pc[c] \notin {"remap", "mapped", "failed"}
        /\ pc' = [pc EXCEPT ![c] = s] /\ s \in {"idle", "lock", "zap", "exchange", "map"}
    BY <1>1, <1>9, <2>2 DEF MapPage, LoopStep, remap, Locals
  <2>4. Remapped'
    BY <1>1, <2>3, RemapsKept
  <2> QED
    BY <2>1, <2>4 DEF IInv
<1>10. CASE Next
  BY <1>3, <1>4, <1>5, <1>6, <1>7, <1>8, <1>9, <1>10 DEF Next, Step, Request, Remapping
<1> QED
  BY <1>2, <1>10

(* Frames, translations and remaps keep their invariant, whatever the order  *)
(* in which CPUs ask for regions and whether or not Xen has memory for them. *)
THEOREM FramesInvariant == Spec => []IInv
<1>1. Init => IInv
  BY InitFrames, InitRemapped DEF IInv
<1>2. IInv /\ [Next]_vars => IInv'
  BY StepKeeps
<1> QED
  BY <1>1, <1>2, PTL DEF Spec

(* Between two exchanges every page has a frame of its own on which the linear *)
(* mapping and both tables agree, and the domain has no other                  *)
(* (xen_create_contiguous_region, xen_destroy_contiguous_region).              *)
THEOREM TablesAgree == Spec => []FramesConsistent
<1>1. IInv => FramesConsistent
  <2> SUFFICES ASSUME IInv, lock = NoCpu
               PROVE  /\ \A p \in Pages : p2m[p] = Entry(lin[p], {}) /\ lin[p] \in owned /\ m2p[lin[p]] = p
                      /\ owned = {lin[p] : p \in Pages}
    BY DEF FramesConsistent, IInv, FInv
  <2>1. FInv
    BY DEF IInv
  <2>2. Away = {} /\ Zapped = {}
    BY DEF Away, Zapped
  <2>3. \A p \in Pages : Frame[p] = lin[p]
    BY <2>2 DEF Frame
  <2>4. /\ \A p \in Pages : Frame[p] \in owned /\ m2p[Frame[p]] = p /\ p2m[p] = Entry(Frame[p], {})
        /\ \A x \in owned : \E p \in Pages : Frame[p] = x
    BY <2>1, <2>2, FrameFacts
  <2> QED
    BY <2>3, <2>4
<1> QED
  BY <1>1, FramesInvariant, PTL

(* A frame that Xen takes back holds no data: the caller's memset comes before *)
(* the lock, yet nothing writes to the region until the exchange.              *)
THEOREM FramesLeaveClean == Spec => []CleanHandover
<1>1. IInv => CleanHandover
  BY DEF IInv, FInv, Clean, CleanHandover
<1> QED
  BY <1>1, FramesInvariant, PTL

(* xen_make_pte and xen_pte_val undo each other for every value, in the middle *)
(* of an exchange too (xen_pte_val, xen_make_pte, xen_set_fixmap).             *)
THEOREM EntriesSurvive == Spec => []TranslationFaithful
<1>1. IInv => TranslationFaithful
  BY Faithful DEF IInv
<1> QED
  BY <1>1, FramesInvariant, PTL

(* xen_remap_domain_mfn_range maps the frames asked for, or a beginning of them *)
(* when it fails, and flushes the TLBs before it returns, for every batch size. *)
THEOREM RemapsAreExact == Spec => []RemapExact
<1>1. IInv => RemapExact
  BY DEF IInv, Remapped
<1> QED
  BY <1>1, FramesInvariant, PTL
==============================================================================
