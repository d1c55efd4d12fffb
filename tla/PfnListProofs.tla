---------------------------- MODULE PfnListProofs ----------------------------
(***************************************************************************)
(* Proofs about PfnList for an address space of any size and any number of *)
(* reports and changes: a report names no frame twice, no frame that the   *)
(* process did not have while its regions were locked, and every frame     *)
(* that a page kept meanwhile.                                             *)
(***************************************************************************)
EXTENDS PfnList, FiniteSetTheorems, SequenceTheorems, WellFoundedInduction, TLAPS

USE SizeAssumption, BoundAssumption, FramesAssumption

(* There are finitely many regions, so map_count is a number. *)
LEMMA RegionsFinite ==
  ASSUME NEW V \in SUBSET Region
  PROVE  IsFiniteSet(V) /\ Cardinality(V) \in Nat
<1> DEFINE N == 0..NPages
           f == [x \in N \X N |-> [start |-> x[1], end |-> x[2]]]
           R == [start : N, end : N]
<1>1. IsFiniteSet(N \X N)
  <2>1. IsFiniteSet(N)
    BY FS_Interval
  <2> QED
    BY <2>1, FS_Product
<1>2. f \in Surjection(N \X N, R)
  <2>1. ASSUME NEW r \in R PROVE \E x \in N \X N : f[x] = r
    <3>1. <<r.start, r.end>> \in N \X N /\ f[<<r.start, r.end>>] = r
      OBVIOUS
    <3> QED
      BY <3>1
  <2> QED
    BY <2>1 DEF Surjection
<1>3. IsFiniteSet(R)
  BY <1>1, <1>2, FS_Surjection
<1> QED
  BY <1>3, FS_Subset, FS_CardinalityType DEF Region

(* The list of regions has a head. *)
LEMMA LowestIn ==
  ASSUME NEW S \in SUBSET Region, S # {}
  PROVE  Lowest(S) \in S /\ \A s \in S : Lowest(S).start <= s.start
<1> DEFINE T == {r.start : r \in S}
<1>1. T \subseteq Nat /\ T # {}
  BY DEF Region
<1>2. PICK x \in T : \A y \in T : ~(<<y, x>> \in OpToRel(<, Nat))
  BY <1>1, NatLessThanWellFounded, WFMin
<1>3. \A y \in T : ~(y < x)
  BY <1>1, <1>2 DEF OpToRel
<1>4. PICK r \in S : r.start = x
  OBVIOUS
<1>5. \A s \in S : r.start <= s.start
  BY <1>1, <1>3, <1>4
<1> QED
  BY <1>4, <1>5 DEF Lowest

(* pfnlist_mkunique takes one node out and keeps the order of the others. *)
LEMMA UnlinkFacts ==
  ASSUME NEW s \in Seq(Frames), NEW j \in 1..Len(s)
  PROVE  /\ RemoveAt(s, j) \in Seq(Frames)
         /\ Len(RemoveAt(s, j)) = Len(s) - 1
         /\ \A i \in 1..(Len(s) - 1) :
               RemoveAt(s, j)[i] = IF i < j THEN s[i] ELSE s[i + 1]
<1> DEFINE a == SubSeq(s, 1, j - 1)
           b == SubSeq(s, j + 1, Len(s))
<1>1. a \in Seq(Frames) /\ Len(a) = j - 1 /\ \A i \in 1..(j - 1) : a[i] = s[i]
  OBVIOUS
<1>2. /\ b \in Seq(Frames) /\ Len(b) = Len(s) - j
      /\ \A i \in 1..(Len(s) - j) : b[i] = s[i + j]
  OBVIOUS
<1>3. /\ a \o b \in Seq(Frames) /\ Len(a \o b) = Len(s) - 1
      /\ \A i \in 1..(Len(s) - 1) : (a \o b)[i] = IF i < j THEN a[i] ELSE b[i - (j - 1)]
  <2>1. a \o b \in Seq(Frames) /\ Len(a \o b) = Len(a) + Len(b)
    BY <1>1, <1>2
  <2>2. \A i \in 1..(Len(a) + Len(b)) :
           (a \o b)[i] = IF i <= Len(a) THEN a[i] ELSE b[i - Len(a)]
    <3> HIDE DEF a, b
    <3> QED
      BY <1>1, <1>2, ConcatProperties
  <2> HIDE DEF a, b
  <2>3. Len(a) + Len(b) = Len(s) - 1 /\ Len(a) = j - 1
    BY <1>1, <1>2
  <2>4. \A i \in 1..(Len(s) - 1) : i <= j - 1 <=> i < j
    OBVIOUS
  <2>5. ASSUME NEW i \in 1..(Len(s) - 1)
        PROVE  (a \o b)[i] = IF i < j THEN a[i] ELSE b[i - (j - 1)]
    <3>1. i \in 1..(Len(a) + Len(b))
      BY <2>3
    <3>2. (a \o b)[i] = IF i <= Len(a) THEN a[i] ELSE b[i - Len(a)]
      BY <2>2, <3>1, Zenon
    <3> QED
      BY <2>3, <2>4, <3>2, Zenon
  <2> QED
    BY <2>1, <2>3, <2>5, Zenon
<1>4. \A i \in 1..(Len(s) - 1) : ~(i < j) => /\ i - (j - 1) \in 1..(Len(s) - j)
                                            /\ b[i - (j - 1)] = s[i + 1]
  BY <1>2
<1>5. RemoveAt(s, j) = a \o b
  BY DEF RemoveAt
<1> HIDE DEF a, b
<1>6. ASSUME NEW i \in 1..(Len(s) - 1)
      PROVE  (a \o b)[i] = IF i < j THEN s[i] ELSE s[i + 1]
  <2>1. CASE i < j
    <3>1. i \in 1..(j - 1)
      BY <2>1
    <3> QED
      BY <1>1, <1>3, <2>1, <3>1
  <2>2. CASE ~(i < j)
    BY <1>3, <1>4, <2>2
  <2> QED
    BY <2>1, <2>2
<1>7. /\ RemoveAt(s, j) \in Seq(Frames)
      /\ Len(RemoveAt(s, j)) = Len(s) - 1
  BY <1>3, <1>5, Zenon
<1>8. \A i \in 1..(Len(s) - 1) :
         RemoveAt(s, j)[i] = IF i < j THEN s[i] ELSE s[i + 1]
  BY <1>5, <1>6, Zenon
<1> QED
  BY <1>7, <1>8, Zenon

(* A fresh report has the right types. *)
LEMMA FreshTypes ==
  /\ <<>> \in Seq(Frames) /\ <<>> \in Seq(0..TableSize)
  /\ 0 \in 0..(2 * NPages) /\ 0 \in 0..MaxChanges
  /\ 0 \in 0..TableSize /\ 0 \in 0..MaxReports
  /\ 0 \in Nat /\ 1 \in Nat \ {0}
OBVIOUS

(* A frame that addr_to_mfn finds is one of the process. *)
LEMMA MfnFacts ==
  ASSUME TypeOK, Found, NEW h
  PROVE  \/ AddrToMfn(h) = 0
         \/ AddrToMfn(h) \in Frames /\ AddrToMfn(h) \in Mapped(pt)
BY DEF TypeOK, Found, AddrToMfn, Mapped
-----------------------------------------------------------------------------
LEMMA InitIInv == Init => IInv
<1> SUFFICES ASSUME Init PROVE IInv
  OBVIOUS
<1>1. vmas \in SUBSET Region /\ vmas # {} /\ cur \in Region
  BY LowestIn DEF Init
<1>2. pt \in [Page -> Pte] /\ \A p \in Page : pt[p].present => pt[p].mfn \in Frames
  <2>1. ASSUME NEW p \in Page
        PROVE  pt[p] \in Pte /\ (pt[p].present => pt[p].mfn \in Frames)
    <3>1. pt[p] = None \/ pt[p] \in [present : {TRUE}, mfn : Frames]
      BY DEF Init
    <3>2. CASE pt[p] = None
      BY <3>2 DEF None, Pte
    <3>3. CASE pt[p] \in [present : {TRUE}, mfn : Frames]
      BY <3>3 DEF Pte
    <3> QED
      BY <3>1, <3>2, <3>3
  <2>2. pt = [p \in Page |-> pt[p]]
    BY DEF Init
  <2> QED
    BY <2>1, <2>2
<1>3. TypeOK
  <2>1. /\ life = "running" /\ changes = 0 /\ pc = "idle" /\ root = "null"
        /\ total = 0 /\ walked = 0 /\ length = 0 /\ list = <<>> /\ front = 1
        /\ pfns = <<>> /\ grefs = <<>> /\ used = 0 /\ reports = 0
        /\ must = {} /\ may = {} /\ grown = FALSE /\ stale = FALSE
    BY DEF Init
  <2> QED
    BY <1>1, <1>2, <2>1, FreshTypes, Zenon DEF TypeOK
<1>4. Found
  BY <1>2 DEF Init, Found
<1>5. FrontUnique /\ FrameOnce /\ OwnFrames
  BY DEF Init, FrontUnique, FrameOnce, OwnFrames
<1> QED
  BY <1>3, <1>4, <1>5 DEF IInv

(* A step of the process leaves the reporter's variables alone. *)
LEMMA ProcessIInv ==
  ASSUME IInv, Process PROVE IInv'
<1> USE DEF IInv
<1>1. UNCHANGED <<pc, walkVars, front, pfns, grefs, used, reports>>
  BY DEF Process, Stop, Exit, Reclaim, Fault, Mmap, Munmap
<1>2. FrontUnique' /\ FrameOnce'
  BY <1>1 DEF walkVars, FrontUnique, FrameOnce
<1>3. TypeOK' /\ Found' /\ OwnFrames'
  <2>1. CASE Stop \/ Exit
    <3>1. /\ UNCHANGED <<vmas, pt, changes, must, may, grown, stale>>
          /\ life' \in {"running", "stopped", "gone"}
      BY <2>1 DEF Stop, Exit, histVars
    <3>2. TypeOK'
      BY <1>1, <3>1 DEF walkVars, TypeOK
    <3>3. Found' /\ OwnFrames'
      BY <1>1, <3>1 DEF walkVars, Found, OwnFrames, Mapped
    <3> QED
      BY <3>2, <3>3
  <2>2. ASSUME NEW p \in Page, Reclaim(p) PROVE TypeOK' /\ Found' /\ OwnFrames'
    <3>1. pt' \in [Page -> Pte]
      BY <2>2 DEF Reclaim, TypeOK, Pte
    <3>2. changes' \in 0..MaxChanges
      BY <2>2, SMTT(30) DEF Reclaim, Change, TypeOK
    <3>3. must' \subseteq Page \X Frames
      BY <2>2 DEF Reclaim, TypeOK
    <3>4. TypeOK'
      BY <1>1, <2>2, <3>1, <3>2, <3>3 DEF Reclaim, walkVars, TypeOK
    <3>5. Found' /\ OwnFrames'
      BY <1>1, <2>2, SMTT(30) DEF Reclaim, walkVars, TypeOK, Pte, Found, OwnFrames, Mapped
    <3> QED
      BY <3>4, <3>5
  <2>3. ASSUME NEW p \in Page, NEW f \in Frames, Fault(p, f)
        PROVE  TypeOK' /\ Found' /\ OwnFrames'
    <3>1. TypeOK'
      BY <1>1, <2>3 DEF Fault, Change, walkVars, TypeOK, Pte
    <3>2. Found' /\ OwnFrames'
      BY <1>1, <2>3 DEF Fault, Walking, walkVars, TypeOK, Pte, Found, OwnFrames, Mapped
    <3> QED
      BY <3>1, <3>2
  <2>4. ASSUME NEW r \in Region, Mmap(r) PROVE TypeOK' /\ Found' /\ OwnFrames'
    BY <1>1, <2>4 DEF Mmap, Change, walkVars, TypeOK, Found, OwnFrames, Mapped
  <2>5. ASSUME NEW r \in vmas, Munmap(r) PROVE TypeOK' /\ Found' /\ OwnFrames'
    <3>1. TypeOK'
      BY <1>1, <2>5 DEF Munmap, Change, walkVars, TypeOK, Pte, None
    <3>2. Found' /\ OwnFrames'
      BY <1>1, <2>5 DEF Munmap, Walking, walkVars, TypeOK, Found, OwnFrames, None
    <3> QED
      BY <3>1, <3>2
  <2> QED
    BY <2>1, <2>2, <2>3, <2>4, <2>5 DEF Process
<1> QED
  BY <1>2, <1>3

LEMMA BeginIInv ==
  ASSUME IInv, Begin PROVE IInv'
<1> USE DEF IInv
<1>1. Lowest(vmas) \in Region /\ Cardinality(vmas) \in Nat
  BY LowestIn, RegionsFinite DEF TypeOK
<1>2. TypeOK'
  <2>1. /\ pc' = "undefined" \/ pc' = "begun"
        /\ root' \in {"null", "junk", "node"}
        /\ cur' \in Region /\ total' \in Nat
    BY <1>1 DEF Begin, TypeOK
  <2>2. /\ walked' = 0 /\ length' = 0 /\ list' = <<>> /\ front' = 1
        /\ pfns' = <<>> /\ grefs' = <<>> /\ must' = {} /\ may' = {}
        /\ grown' = FALSE /\ stale' = FALSE /\ reports' \in 0..MaxReports
        /\ UNCHANGED <<procVars, used>>
    BY DEF Begin, TypeOK
  <2> QED
    BY <2>1, <2>2, FreshTypes, Zenon DEF procVars, TypeOK
<1>3. Found' /\ FrontUnique' /\ FrameOnce' /\ OwnFrames'
  BY DEF Begin, procVars, TypeOK, Found, FrontUnique, FrameOnce, OwnFrames
<1> QED
  BY <1>2, <1>3

LEMMA LookIInv ==
  ASSUME IInv, Look PROVE IInv'
<1> DEFINE mfn == AddrToMfn(2 * cur.end - length)
           after == {r \in vmas : r.start >= cur.end}
<1> USE DEF IInv
<1>1. mfn = 0 \/ (mfn \in Frames /\ mfn \in may)
  BY MfnFacts DEF Look, Found
<1>2. list' \in Seq(Frames) /\ \A i \in 1..Len(list') : list'[i] \in may
  BY <1>1 DEF Look, TypeOK, Found
<1>3. front' = 1 /\ pfns' = pfns /\ may' = may /\ pt' = pt
  BY DEF Look, Found, histVars, procVars
<1>4. FrontUnique' /\ FrameOnce' /\ OwnFrames'
  BY <1>2, <1>3 DEF FrontUnique, FrameOnce, OwnFrames
<1>5. Found'
  BY <1>2, <1>3 DEF Look, TypeOK, Found, Mapped
<1>6. cur' \in Region /\ length' \in 0..(2 * NPages)
  <2>1. CASE length > 0
    BY <2>1, SMTT(30) DEF Look, TypeOK, NextLength
  <2>2. CASE ~(length > 0) /\ MoreVmas(after)
    <3>1. Lowest(after) \in Region
      BY <2>2, LowestIn DEF MoreVmas, TypeOK
    <3>2. Length(Lowest(after)) \in 0..(2 * NPages)
      BY <3>1 DEF Length, Region
    <3> QED
      BY <2>2, <3>1, <3>2 DEF Look
  <2>3. CASE ~(length > 0) /\ ~MoreVmas(after)
    BY <2>3 DEF Look, TypeOK
  <2> QED
    BY <2>1, <2>2, <2>3
<1>7. TypeOK'
  BY <1>2, <1>6, SMTT(30) DEF Look, TypeOK, procVars, histVars
<1> QED
  BY <1>4, <1>5, <1>7

LEMMA UnlinkIInv ==
  ASSUME IInv, Unlink PROVE IInv'
<1> USE DEF IInv
<1>1. PICK j \in Copies : (\A k \in Copies : j <= k) /\ list' = RemoveAt(list, j)
  BY DEF Unlink
<1>2. list \in Seq(Frames) /\ j \in (front + 1)..Len(list) /\ front \in Nat \ {0}
  BY <1>1 DEF Copies, TypeOK
<1>3. /\ list' \in Seq(Frames) /\ Len(list') = Len(list) - 1
      /\ \A i \in 1..(Len(list) - 1) : list'[i] = IF i < j THEN list[i] ELSE list[i + 1]
  <2>1. j \in 1..Len(list)
    BY <1>2
  <2> QED
    BY <1>1, <1>2, <2>1, UnlinkFacts
<1>4. FrontUnique'
  <2>1. ASSUME NEW i \in 1..Len(list'), NEW k \in 1..Len(list'), i < front, i < k
        PROVE  list'[i] # list'[k]
    <3>1. list'[i] = list[i] /\ i \in 1..Len(list)
      BY <1>2, <1>3, <2>1
    <3>2. PICK m \in 1..Len(list) : list'[k] = list[m] /\ i < m
      BY <1>2, <1>3, <2>1
    <3> QED
      BY <2>1, <3>1, <3>2 DEF FrontUnique
  <2>2. front' = front
    BY DEF Unlink
  <2> QED
    BY <2>1, <2>2 DEF FrontUnique
<1>5. Found'
  <2>1. \A i \in 1..Len(list') : \E m \in 1..Len(list) : list'[i] = list[m]
    BY <1>2, <1>3
  <2> QED
    BY <2>1 DEF Unlink, Found, procVars, histVars, Mapped
<1>6. TypeOK' /\ FrameOnce' /\ OwnFrames'
  BY <1>3 DEF Unlink, TypeOK, FrameOnce, OwnFrames, procVars, histVars
<1> QED
  BY <1>4, <1>5, <1>6

LEMMA NextFrontIInv ==
  ASSUME IInv, NextFront PROVE IInv'
<1> USE DEF IInv
<1>1. FrontUnique'
  <2>1. list' = list /\ front' = front + 1 /\ front \in Nat \ {0}
        /\ Len(list) \in Nat
    BY DEF NextFront, walkVars, TypeOK
  <2>2. \A j \in (front + 1)..Len(list) : list[j] # list[front]
    BY DEF NextFront, Copies
  <2>3. ASSUME NEW i \in 1..Len(list), NEW j \in 1..Len(list), i < front + 1, i < j
        PROVE  list[i] # list[j]
    <3>1. CASE i < front
      BY <2>3, <3>1 DEF FrontUnique
    <3>2. CASE i = front
      <4>1. j \in (front + 1)..Len(list)
        BY <2>1, <2>3, <3>2
      <4> QED
        BY <2>2, <3>2, <4>1
    <3> QED
      BY <2>1, <2>3, <3>1, <3>2
  <2> QED
    BY <2>1, <2>3 DEF FrontUnique
<1>2. TypeOK' /\ Found' /\ FrameOnce' /\ OwnFrames'
  BY DEF NextFront, TypeOK, Found, FrameOnce, OwnFrames, procVars, walkVars,
         histVars, Mapped
<1> QED
  BY <1>1, <1>2

LEMMA MkArrayIInv ==
  ASSUME IInv, MkArray PROVE IInv'
<1> USE DEF IInv
<1>1. TypeOK' /\ Found' /\ FrontUnique'
  BY ZenonT(30) DEF MkArray, TypeOK, Found, FrontUnique, procVars, walkVars, histVars, Mapped
<1>2. FrameOnce' /\ OwnFrames'
  <2>1. CASE root = "junk"
    BY <2>1 DEF MkArray, FrameOnce, OwnFrames, histVars
  <2>2. CASE root # "junk"
    <3>1. pfns' = list /\ front > Len(list) /\ may' = may /\ list \in Seq(Frames)
      BY <2>2 DEF MkArray, histVars, TypeOK
    <3>2. \A i, j \in 1..Len(list) : list[i] = list[j] => i = j
      BY <3>1 DEF FrontUnique, TypeOK
    <3> QED
      BY <3>1, <3>2 DEF MkArray, FrameOnce, OwnFrames, Found
  <2> QED
    BY <2>1, <2>2
<1> QED
  BY <1>1, <1>2

LEMMA NextIInv == IInv /\ [Next]_vars => IInv'
<1> SUFFICES ASSUME IInv, [Next]_vars PROVE IInv'
  OBVIOUS
<1> USE DEF IInv
<1>1. CASE Lock
  <2> USE <1>1
  <2>1. Length(cur) \in 0..(2 * NPages)
    <3>1. cur \in [start : 0..NPages, end : 0..NPages] /\ cur.start < cur.end
      BY DEF TypeOK, Region
    <3> QED
      BY <3>1 DEF Length
  <2>2. must' \subseteq Page \X Frames /\ may' \subseteq Frames
    <3>1. Mapped(pt) \subseteq Frames
      BY DEF Found, Mapped
    <3>2. {<<p, pt[p].mfn>> : p \in {q \in Page : pt[q].present}} \subseteq Page \X Frames
      BY DEF Found
    <3> QED
      BY <3>1, <3>2 DEF Lock, TypeOK
  <2>3. length' \in 0..(2 * NPages) /\ (pc' = "walk" \/ pc' = "undefined")
    BY <2>1 DEF Lock, TypeOK
  <2>4. TypeOK'
    BY <2>2, <2>3, Zenon DEF Lock, TypeOK, procVars
  <2>5. UNCHANGED <<pt, list, front, pfns>> /\ pfns = <<>> /\ front = 1
    BY DEF Lock, Found, procVars
  <2>6. FrontUnique' /\ FrameOnce' /\ OwnFrames'
    BY <2>5 DEF FrontUnique, FrameOnce, OwnFrames
  <2>7. Found'
    <3>1. Mapped(pt)' = Mapped(pt) /\ (pc' = "walk" => may' = Mapped(pt))
      BY <2>5 DEF Lock, Mapped
    <3>2. list = <<>>
      BY DEF Lock, Found
    <3> QED
      BY <2>3, <2>5, <3>1, <3>2 DEF Found
  <2> QED
    BY <2>4, <2>6, <2>7
<1>2. CASE Grant
  <2>1. used' \in 0..TableSize /\ grefs' \in Seq(0..TableSize)
    <3>1. used + 1 \in 0..TableSize \/ ~(used < TableSize)
      BY DEF TypeOK
    <3>2. 0 \in 0..TableSize
      OBVIOUS
    <3>3. grefs \in Seq(0..TableSize) /\ used \in 0..TableSize
      BY DEF TypeOK
    <3> DEFINE R == 0..TableSize
    <3>4. used' \in R /\ \E x \in R : grefs' = Append(grefs, x)
      BY <1>2, <3>1, <3>2, <3>3 DEF Grant
    <3>5. grefs \in Seq(R)
      BY <3>3
    <3> HIDE DEF R
    <3>6. grefs' \in Seq(R)
      BY <3>4, <3>5
    <3> QED
      BY <3>4, <3>6 DEF R
  <2>2. TypeOK'
    BY <1>2, <2>1, Zenon DEF Grant, TypeOK, procVars, walkVars, histVars
  <2>3. Found' /\ FrontUnique' /\ FrameOnce' /\ OwnFrames'
    BY <1>2 DEF Grant, Found, FrontUnique, FrameOnce, OwnFrames, procVars,
                walkVars, histVars, Mapped
  <2> QED
    BY <2>2, <2>3
<1>3. CASE LookUndefined \/ Done
  <2>1. /\ pc' = "undefined" \/ pc' = "done"
        /\ UNCHANGED <<procVars, walkVars, front, pfns, grefs, used, reports, histVars>>
    BY <1>3 DEF LookUndefined, Done
  <2>2. TypeOK'
    BY <2>1, Zenon DEF TypeOK, procVars, walkVars, histVars
  <2>3. Found' /\ FrontUnique' /\ FrameOnce' /\ OwnFrames'
    BY <2>1 DEF Found, FrontUnique, FrameOnce, OwnFrames, procVars, walkVars,
                histVars, Mapped
  <2> QED
    BY <2>2, <2>3
<1>4. CASE UNCHANGED vars
  BY <1>4 DEF vars, TypeOK, Found, FrontUnique, FrameOnce, OwnFrames, procVars,
              walkVars, histVars, Mapped
<1> QED
  BY <1>1, <1>2, <1>3, <1>4, ProcessIInv, BeginIInv, LookIInv, UnlinkIInv,
     NextFrontIInv, MkArrayIInv DEF Next, Reporter
-----------------------------------------------------------------------------
(* The inductive invariant holds. *)
THEOREM Invariance == Spec => []IInv
BY InitIInv, NextIInv, PTL DEF Spec

(* Every variable keeps its type. *)
THEOREM TypeCorrect == Spec => []TypeOK
<1>1. IInv => TypeOK
  BY DEF IInv
<1> QED
  BY <1>1, Invariance, PTL

(* pfnlist_mkunique leaves each frame once, for a list of any length. *)
THEOREM FrameReportedOnce == Spec => []FrameOnce
<1>1. IInv => FrameOnce
  BY DEF IInv
<1> QED
  BY <1>1, Invariance, PTL

(* What is granted to dom0 was the process's own during the walk. *)
THEOREM OnlyOwnFrames == Spec => []OwnFrames
<1>1. IInv => OwnFrames
  BY DEF IInv
<1> QED
  BY <1>1, Invariance, PTL

(* Both together: the list malpage_report grants and reports. *)
THEOREM SoundList == Spec => []ListSound
<1>1. IInv => ListSound
  BY DEF IInv, ListSound
<1> QED
  BY <1>1, Invariance, PTL
-----------------------------------------------------------------------------
(* Complete: what the walk has not found yet is ahead of it. *)

LEMMA RegionFacts ==
  ASSUME NEW r \in Region
  PROVE  r.start \in 0..NPages /\ r.end \in 0..NPages /\ r.start < r.end
BY DEF Region

(* The walk steps from a region to the lowest of those after it. *)
LEMMA NextRegion ==
  ASSUME TypeOK, Regions, NEW r \in Region, After(r) # {}
  PROVE  LET n == Lowest(After(r))
         IN  /\ n \in After(r) /\ n \in Region
             /\ After(n) = After(r) \ {n}
             /\ Cardinality(After(r)) = Cardinality(After(n)) + 1
<1> DEFINE n == Lowest(After(r))
<1>1. After(r) \in SUBSET Region /\ After(r) \subseteq vmas
  BY DEF After, TypeOK
<1>2. n \in After(r) /\ n \in Region /\ \A s \in After(r) : n.start <= s.start
  BY <1>1, LowestIn
<1> HIDE DEF n
<1>3. ASSUME NEW s \in vmas
      PROVE  s \in After(n) <=> s \in After(r) /\ s # n
  <2>1. s \in Region /\ n \in vmas
    BY <1>1, <1>2 DEF TypeOK
  <2>2. r.end <= n.start
    BY <1>2, RegionFacts DEF After
  <2>3. s = n \/ s.end <= n.start \/ n.end <= s.start
    BY <2>1 DEF Regions, Disjoint
  <2> QED
    BY <1>2, <2>1, <2>2, <2>3, RegionFacts DEF After
<1>4. After(n) = After(r) \ {n}
  BY <1>1, <1>3 DEF After
<1>5. IsFiniteSet(After(r)) /\ Cardinality(After(r)) \in Nat
  BY <1>1, RegionsFinite
<1>6. Cardinality(After(r) \ {n}) = Cardinality(After(r)) - 1
  BY <1>2, <1>5, FS_RemoveElement
<1>7. Cardinality(After(r)) = Cardinality(After(n)) + 1
  BY <1>4, <1>5, <1>6
<1> QED
  BY <1>2, <1>4, <1>7 DEF n

LEMMA InitCovered == Init => Regions /\ Covered
<1> SUFFICES ASSUME Init PROVE Regions /\ Covered
  OBVIOUS
<1>1. Regions
  BY DEF Init, Regions, None
<1>2. Covered
  BY DEF Init, Covered, Counted
<1> QED
  BY <1>1, <1>2

(* The process: regions do not change during the walk, and a page that loses  *)
(* its frame no longer counts.                                                *)
LEMMA ProcessCovered ==
  ASSUME CInv, Process PROVE Regions' /\ Covered'
<1> USE DEF CInv, IInv
<1>1. UNCHANGED <<pc, root, cur, total, walked, length, list, pfns>>
  BY DEF Process, Stop, Exit, Reclaim, Fault, Mmap, Munmap, walkVars
<1>2. CASE Stop \/ Exit
  <2>1. UNCHANGED <<vmas, pt, must, grown, stale>>
    BY <1>2 DEF Stop, Exit, histVars
  <2> QED
    BY <1>1, <2>1 DEF Regions, Covered, Counted, Kept, Listed, Ahead, After
<1>3. ASSUME NEW p \in Page, Reclaim(p) PROVE Regions' /\ Covered'
  <2>1. UNCHANGED <<vmas, grown, stale>>
    BY <1>3 DEF Reclaim
  <2>2. /\ pt'[p].present = FALSE
        /\ \A q \in Page : pt'[q].present => pt[q].present
        /\ \A q \in Page \ {p} : pt'[q] = pt[q]
    BY <1>3 DEF Reclaim, TypeOK, Pte
  <2>3. Regions'
    BY <2>1, <2>2 DEF Regions
  <2>4. Counted => Counted'
    BY <1>1, <2>1 DEF Counted, After
  <2>5. ASSUME NEW m \in must', Covered, ~grown PROVE Kept(m)'
    <3>1. m \in must /\ Kept(m) /\ m[1] \in Page
      BY <1>3, <2>5 DEF Reclaim, Covered, TypeOK
    <3>2. CASE pc = "walk"
      <4>1. m # <<p, pt[p].mfn>>
        BY <1>3, <3>2 DEF Reclaim, Walking
      <4>2. m = <<m[1], m[2]>>
        BY <3>1 DEF TypeOK
      <4>3. m[1] # p
        BY <3>1, <3>2, <4>1, <4>2 DEF Kept
      <4> QED
        BY <1>1, <2>1, <2>2, <3>1, <3>2, <4>3 DEF Kept, Listed, Ahead, After
    <3>3. CASE pc # "walk"
      BY <1>1, <3>1, <3>3 DEF Kept, Listed
    <3> QED
      BY <3>2, <3>3
  <2> QED
    BY <2>1, <2>3, <2>4, <2>5 DEF Covered
<1>4. ASSUME NEW p \in Page, NEW f \in Frames, Fault(p, f) PROVE Regions' /\ Covered'
  <2>1. UNCHANGED <<vmas, must, grown, stale>> /\ ~pt[p].present /\ \E r \in vmas : In(p, r)
    BY <1>4 DEF Fault
  <2>2. \A q \in Page \ {p} : pt'[q] = pt[q]
    BY <1>4 DEF Fault, TypeOK
  <2>3. Regions'
    BY <2>1, <2>2 DEF Regions
  <2>4. Counted => Counted'
    BY <1>1, <2>1 DEF Counted, After
  <2>5. ASSUME NEW m \in must, Kept(m) PROVE Kept(m)'
    <3>1. m[1] \in Page /\ (pc = "walk" => m[1] # p)
      BY <2>1, <2>5 DEF Kept, TypeOK
    <3> QED
      BY <1>1, <2>1, <2>2, <2>5, <3>1 DEF Kept, Listed, Ahead, After
  <2> QED
    BY <2>1, <2>3, <2>4, <2>5 DEF Covered
<1>5. ASSUME NEW r \in Region, Mmap(r) PROVE Regions' /\ Covered'
  <2>1. /\ pc # "walk" /\ vmas' = vmas \cup {r} /\ UNCHANGED <<pt, must, stale>>
        /\ \A s \in vmas : Disjoint(r, s)
        /\ grown' = (grown \/ pc = "begun")
    BY <1>5 DEF Mmap, Walking
  <2>2. Regions'
    BY <2>1 DEF Regions, Disjoint
  <2>3. ~grown' => ~grown /\ pc # "begun"
    BY <2>1
  <2> QED
    BY <1>1, <2>1, <2>2, <2>3 DEF Covered, Counted, Kept, Listed
<1>6. ASSUME NEW r \in vmas, Munmap(r) PROVE Regions' /\ Covered'
  <2>1. /\ pc # "walk" /\ vmas' = vmas \ {r} /\ UNCHANGED <<must, grown>>
        /\ pt' = [p \in Page |-> IF In(p, r) THEN None ELSE pt[p]]
        /\ stale' = (stale \/ (pc = "begun" /\ r = cur))
    BY <1>6 DEF Munmap, Walking
  <2>2. Regions'
    BY <2>1 DEF Regions, None
  <2>3. Cardinality(vmas') <= Cardinality(vmas) /\ Cardinality(vmas') \in Nat /\ Cardinality(vmas) \in Nat
    <3>1. vmas \in SUBSET Region /\ vmas' \in SUBSET Region /\ vmas' \subseteq vmas
      BY <2>1 DEF TypeOK
    <3> QED
      BY <3>1, RegionsFinite, FS_Subset
  <2>4. Counted => Counted'
    <3>1. pc = "begun" /\ Counted => Cardinality(vmas') <= total
      BY <2>3 DEF Counted, TypeOK
    <3> QED
      BY <1>1, <2>1, <3>1 DEF Counted
  <2> QED
    BY <1>1, <2>1, <2>2, <2>4 DEF Covered, Kept, Listed
<1> QED
  BY <1>2, <1>3, <1>4, <1>5, <1>6 DEF Process

(* The head and the number of the regions, read without a lock. *)
LEMMA BeginCovered ==
  ASSUME CInv, Begin PROVE Regions' /\ Covered'
<1> USE DEF CInv, IInv
<1>1. /\ UNCHANGED <<vmas, pt>> /\ must' = {} /\ walked' = 0 /\ pc' \in {"begun", "undefined"}
      /\ pc' = "begun" => cur' = Lowest(vmas) /\ total' = Cardinality(vmas)
  BY DEF Begin, procVars
<1>2. /\ Lowest(vmas) \in vmas /\ \A r \in vmas : Lowest(vmas).start <= r.start
      /\ Cardinality(vmas) \in Nat
  BY LowestIn, RegionsFinite DEF TypeOK
<1>3. Regions'
  BY <1>1 DEF Regions
<1>4. Counted'
  BY <1>1, <1>2 DEF Counted
<1> QED
  BY <1>1, <1>3, <1>4 DEF Covered

(* mmap_sem is taken: every region but the head is after it, and the pages   *)
(* that are there are in one of them.                                        *)
LEMMA LockCovered ==
  ASSUME CInv, Lock PROVE Regions' /\ Covered'
<1> USE DEF CInv, IInv
<1>1. /\ pc = "begun" /\ UNCHANGED <<vmas, pt, cur, total, walked, list, grown, stale>>
      /\ pc' \in {"walk", "undefined"}
      /\ pc' = "walk" => /\ ~stale /\ length' = Length(cur)
                         /\ must' = {<<p, pt[p].mfn>> : p \in {q \in Page : pt[q].present}}
  BY DEF Lock, procVars
<1>2. Regions'
  BY <1>1 DEF Regions
<1>3. CASE pc' = "undefined"
  BY <1>2, <1>3 DEF Covered, Counted, Kept
<1>4. CASE pc' = "walk" /\ grown
  BY <1>1, <1>2, <1>4 DEF Covered
<1>5. CASE pc' = "walk" /\ ~grown
  <2>1. /\ walked = 0 /\ Cardinality(vmas) <= total /\ cur \in vmas /\ cur \in Region
        /\ \A r \in vmas : cur.start <= r.start
    BY <1>1, <1>5 DEF Covered, Counted, TypeOK
  <2>2. After(cur) = vmas \ {cur}
    <3>1. ASSUME NEW s \in vmas PROVE s.start >= cur.end <=> s # cur
      <4>1. s \in Region /\ (s = cur \/ s.end <= cur.start \/ cur.end <= s.start) /\ cur.start <= s.start
        BY <2>1 DEF Regions, Disjoint, TypeOK
      <4> QED
        BY <2>1, <4>1, RegionFacts
    <3> QED
      BY <3>1 DEF After
  <2>3. Cardinality(After(cur)) = Cardinality(vmas) - 1 /\ Cardinality(vmas) \in Nat /\ total \in Nat
    BY <2>1, <2>2, RegionsFinite, FS_RemoveElement DEF TypeOK
  <2>4. Counted'
    BY <1>1, <1>5, <2>1, <2>3 DEF Counted, After
  <2>5. ASSUME NEW m \in must' PROVE Kept(m)'
    <3>1. PICK p \in Page : m = <<p, pt[p].mfn>> /\ pt[p].present
      BY <1>1, <1>5, <2>5
    <3>2. PICK r \in vmas : In(p, r)
      BY <3>1 DEF Regions
    <3>3. 2 * cur.end - Length(cur) = 2 * cur.start
      BY <2>1, RegionFacts DEF Length
    <3>4. CASE r = cur
      <4>1. In(p, cur) /\ 2 * p + 1 >= 2 * cur.end - Length(cur)
        BY <2>1, <3>2, <3>3, <3>4, RegionFacts DEF In, Page
      <4> QED
        BY <1>1, <1>5, <3>1, <4>1 DEF Kept, Ahead, In
    <3>5. CASE r # cur
      BY <1>1, <1>5, <2>2, <3>1, <3>2, <3>5 DEF Kept, Ahead, After, In
    <3> QED
      BY <3>4, <3>5
  <2> QED
    BY <1>1, <1>2, <1>5, <2>4, <2>5 DEF Covered
<1> QED
  BY <1>1, <1>3, <1>4, <1>5

(* One address: its page is found, the others of the region are still ahead,  *)
(* and after vm_end come the regions that the count allows, which are all.    *)
LEMMA LookCovered ==
  ASSUME CInv, Look PROVE Regions' /\ Covered'
<1> USE DEF CInv, IInv
<1> DEFINE h == 2 * cur.end - length
           mfn == AddrToMfn(h)
<1>1. /\ pc = "walk" /\ UNCHANGED <<vmas, pt, total, must, grown, stale>>
      /\ list' = IF mfn > 0 THEN Append(list, mfn) ELSE list
      /\ IF length > 0
         THEN length' = NextLength(length) /\ UNCHANGED <<pc, cur, walked>>
         ELSE /\ walked' = walked + 1
              /\ IF MoreVmas(After(cur))
                 THEN /\ cur' = Lowest(After(cur)) /\ length' = Length(Lowest(After(cur)))
                      /\ UNCHANGED pc
                 ELSE pc' = "unique" /\ UNCHANGED <<cur, length>>
  BY DEF Look, procVars, histVars, After
<1>2. Regions'
  BY <1>1 DEF Regions
<1>3. CASE grown
  BY <1>1, <1>2, <1>3 DEF Covered
<1>4. CASE ~grown
  <2>1. Counted /\ walked + 1 + Cardinality(After(cur)) <= total /\ \A m \in must : Kept(m)
    BY <1>1, <1>4 DEF Covered, Counted
  <2>2. /\ cur \in Region /\ length \in 0..(2 * NPages) /\ walked \in Nat /\ total \in Nat
        /\ list \in Seq(Frames) /\ cur.end \in Nat /\ cur.start \in Nat /\ length \in Nat
        /\ After(cur) \in SUBSET Region /\ Cardinality(After(cur)) \in Nat
    <3>1. cur \in Region /\ After(cur) \in SUBSET Region
      BY DEF TypeOK, After
    <3> QED
      BY <3>1, RegionFacts, RegionsFinite DEF TypeOK
  <2>3. mfn > 0 => mfn \in Frames
    BY MfnFacts
  <2>4. \A f \in Frames : Listed(f, list) => Listed(f, list)'
    <3>1. CASE mfn > 0
      <4>1. list' = Append(list, mfn)
        BY <1>1, <3>1
      <4>2. Len(list') = Len(list) + 1 /\ Len(list) \in Nat /\ \A i \in 1..Len(list) : list'[i] = list[i]
        BY <2>2, <2>3, <3>1, <4>1, AppendProperties
      <4>3. \A i \in 1..Len(list) : i \in 1..Len(list')
        BY <4>2
      <4> QED
        BY <4>2, <4>3 DEF Listed
    <3>2. CASE ~(mfn > 0)
      BY <1>1, <3>2 DEF Listed
    <3> QED
      BY <3>1, <3>2
  <2>5. ASSUME NEW m \in must, h = 2 * m[1] + 1 PROVE Listed(m[2], list)'
    <3>1. m[1] \in Page /\ m[2] \in Frames /\ pt[m[1]].present /\ pt[m[1]].mfn = m[2]
      BY <1>1, <2>1 DEF Kept, TypeOK
    <3>2. h \div 2 = m[1]
      BY <2>5, <3>1 DEF Page
    <3>3. mfn = m[2] /\ mfn > 0
      <4> HIDE DEF h
      <4>1. mfn = m[2]
        BY <3>1, <3>2 DEF AddrToMfn
      <4>2. m[2] \in Nat \ {0}
        BY <3>1
      <4> HIDE DEF mfn
      <4> QED
        BY <4>1, <4>2
    <3>4. list' = Append(list, mfn) /\ mfn \in Frames
      BY <1>1, <2>3, <3>3
    <3>5. Len(list') = Len(list) + 1 /\ Len(list) \in Nat /\ list'[Len(list) + 1] = mfn
      BY <2>2, <3>4, AppendProperties
    <3>6. Len(list) + 1 \in 1..Len(list')
      BY <3>5
    <3> QED
      BY <3>3, <3>5, <3>6 DEF Listed
  <2> HIDE DEF mfn
  <2>6. CASE length > 0
    <3>1. length' = length - 1 /\ UNCHANGED <<pc, cur, walked>> /\ pc' = "walk"
      BY <1>1, <2>2, <2>6 DEF NextLength
    <3>2. Counted'
      BY <1>1, <2>1, <3>1 DEF Counted, After
    <3>3. ASSUME NEW m \in must PROVE Kept(m)'
      <4>1. /\ m[1] \in Page /\ m[2] \in Frames /\ pt[m[1]].present /\ pt[m[1]].mfn = m[2]
            /\ Listed(m[2], list) \/ Ahead(m[1])
        BY <1>1, <2>1 DEF Kept, TypeOK
      <4>2. CASE Listed(m[2], list)
        BY <1>1, <2>4, <3>1, <4>1, <4>2 DEF Kept
      <4>3. CASE In(m[1], cur) /\ 2 * m[1] + 1 >= h
        <5>1. CASE 2 * m[1] + 1 = h
          BY <1>1, <2>5, <3>1, <4>1, <5>1 DEF Kept
        <5>2. CASE 2 * m[1] + 1 # h
          <6>1. 2 * m[1] + 1 >= 2 * cur.end - length'
            <7>1. ASSUME NEW a \in Nat, NEW e \in Nat, NEW l \in Nat,
                         2 * a + 1 >= 2 * e - l, 2 * a + 1 # 2 * e - l
                  PROVE  2 * a + 1 >= 2 * e - (l - 1)
              BY <7>1
            <7>2. m[1] \in Nat
              BY <4>1 DEF Page
            <7> QED
              BY <2>2, <3>1, <4>3, <5>2, <7>1, <7>2
          <6> QED
            BY <1>1, <3>1, <4>1, <4>3, <6>1 DEF Kept, Ahead, In
        <5> QED
          BY <5>1, <5>2
      <4>4. CASE \E r \in After(cur) : In(m[1], r)
        BY <1>1, <3>1, <4>1, <4>4 DEF Kept, Ahead, After, In
      <4> QED
        BY <4>1, <4>2, <4>3, <4>4 DEF Ahead
    <3> QED
      BY <1>1, <1>2, <3>2, <3>3 DEF Covered
  <2>7. CASE ~(length > 0)
    <3>1. ASSUME NEW m \in must
          PROVE  /\ pt[m[1]].present /\ pt[m[1]].mfn = m[2] /\ m[1] \in Page
                 /\ Listed(m[2], list)' \/ \E r \in After(cur) : In(m[1], r)
      <4>1. /\ m[1] \in Page /\ m[2] \in Frames /\ pt[m[1]].present /\ pt[m[1]].mfn = m[2]
            /\ Listed(m[2], list) \/ Ahead(m[1])
        BY <1>1, <2>1 DEF Kept, TypeOK
      <4>2. ~(In(m[1], cur) /\ 2 * m[1] + 1 >= h)
        BY <2>2, <2>7, <4>1 DEF In, Page
      <4> QED
        BY <2>4, <4>1, <4>2 DEF Ahead
    <3>2. CASE MoreVmas(After(cur))
      <4> DEFINE n == Lowest(After(cur))
      <4>1. After(cur) # {}
        BY <3>2 DEF MoreVmas
      <4>2. /\ n \in After(cur) /\ n \in Region /\ After(n) = After(cur) \ {n}
            /\ Cardinality(After(cur)) = Cardinality(After(n)) + 1
        BY <2>2, <4>1, NextRegion
      <4> HIDE DEF n
      <4>3. cur' = n /\ length' = Length(n) /\ pc' = "walk" /\ walked' = walked + 1
        BY <1>1, <2>7, <3>2 DEF n
      <4>4. After(n) \in SUBSET Region /\ After(cur)' = After(n)
        BY <1>1, <2>2, <4>2, <4>3 DEF After
      <4>5. Cardinality(After(n)) \in Nat
        BY <4>4, RegionsFinite
      <4>6. Counted'
        <5>1. walked' + 1 + Cardinality(After(cur)') <= total
          BY <2>1, <2>2, <4>2, <4>3, <4>4, <4>5
        <5> QED
          BY <1>1, <4>3, <5>1 DEF Counted
      <4>7. ASSUME NEW m \in must, NEW r \in After(cur), In(m[1], r) PROVE Ahead(m[1])'
        <5>1. CASE r = n
          <6>1. m[1] \in Page /\ n.start \in Nat /\ n.end \in Nat /\ In(m[1], n)
            BY <3>1, <4>2, <4>7, <5>1, RegionFacts
          <6>2. 2 * m[1] + 1 >= 2 * n.end - Length(n)
            BY <6>1 DEF In, Page, Length
          <6> QED
            BY <4>3, <6>1, <6>2 DEF Ahead, In
        <5>2. CASE r # n
          <6>1. r \in After(cur)'
            BY <4>2, <4>4, <5>2
          <6> QED
            BY <4>7, <6>1 DEF Ahead, In
        <5> QED
          BY <5>1, <5>2
      <4>8. \A m \in must : Kept(m)'
        BY <1>1, <3>1, <4>3, <4>7 DEF Kept
      <4> QED
        BY <1>1, <1>2, <4>6, <4>8 DEF Covered
    <3>3. CASE ~MoreVmas(After(cur))
      <4>1. pc' = "unique"
        BY <1>1, <2>7, <3>3
      <4>2. After(cur) = {}
        <5> SUFFICES ASSUME After(cur) # {} PROVE FALSE
          OBVIOUS
        <5>1. ~(walked + 1 < total)
          BY <3>3 DEF MoreVmas
        <5>2. Cardinality(After(cur)) = 0
          BY <2>1, <2>2, <5>1
        <5> QED
          BY <2>2, <5>2, RegionsFinite, FS_EmptySet
      <4>3. Counted'
        BY <4>1 DEF Counted
      <4>4. \A m \in must : Kept(m)'
        BY <3>1, <4>1, <4>2 DEF Kept
      <4> QED
        BY <1>1, <1>2, <4>3, <4>4 DEF Covered
    <3> QED
      BY <3>2, <3>3
  <2> QED
    BY <2>6, <2>7
<1> QED
  BY <1>3, <1>4

(* A copy is taken out: its frame is still at front. *)
LEMMA UnlinkCovered ==
  ASSUME CInv, Unlink PROVE Regions' /\ Covered'
<1> USE DEF CInv, IInv
<1>1. /\ pc = "unique" /\ UNCHANGED <<vmas, pt, pc, must, grown>> /\ front <= Len(list)
      /\ \E j \in Copies : list' = RemoveAt(list, j)
  BY DEF Unlink, procVars, histVars
<1>2. PICK j \in Copies : list' = RemoveAt(list, j)
  BY <1>1
<1>3. /\ list \in Seq(Frames) /\ Len(list) \in Nat /\ front \in Nat \ {0}
      /\ j \in (front + 1)..Len(list) /\ list[j] = list[front]
  BY <1>2 DEF Copies, TypeOK
<1>4. /\ Len(list') = Len(list) - 1
      /\ \A i \in 1..(Len(list) - 1) : list'[i] = IF i < j THEN list[i] ELSE list[i + 1]
  <2>1. j \in 1..Len(list)
    BY <1>3
  <2> QED
    BY <1>2, <1>3, <2>1, UnlinkFacts
<1>5. ASSUME NEW f, Listed(f, list) PROVE Listed(f, list)'
  <2>1. PICK i \in 1..Len(list) : list[i] = f
    BY <1>5 DEF Listed
  <2>2. \E k \in 1..Len(list') : list'[k] = f
    <3>1. CASE i < j
      <4>1. i \in 1..(Len(list) - 1)
        BY <1>3, <3>1
      <4> QED
        BY <1>4, <2>1, <3>1, <4>1
    <3>2. CASE i = j
      <4>1. front \in 1..(Len(list) - 1) /\ front < j
        BY <1>3
      <4> QED
        BY <1>3, <1>4, <2>1, <3>2, <4>1
    <3>3. CASE i > j
      <4>1. i - 1 \in 1..(Len(list) - 1) /\ ~(i - 1 < j) /\ (i - 1) + 1 = i
        BY <1>3, <3>3
      <4> QED
        BY <1>4, <2>1, <4>1
    <3> QED
      BY <1>3, <3>1, <3>2, <3>3
  <2> QED
    BY <2>2 DEF Listed
<1>6. Regions'
  BY <1>1 DEF Regions
<1>7. ASSUME NEW m \in must, Kept(m) PROVE Kept(m)'
  <2>1. Listed(m[2], list)'
    BY <1>1, <1>5, <1>7 DEF Kept
  <2> QED
    BY <1>1, <2>1 DEF Kept
<1>8. Counted'
  BY <1>1 DEF Counted
<1> QED
  BY <1>1, <1>6, <1>7, <1>8 DEF Covered

(* The other steps of the reporter. *)
LEMMA RestCovered ==
  ASSUME CInv, LookUndefined \/ NextFront \/ MkArray \/ Grant \/ Done
  PROVE  Regions' /\ Covered'
<1> USE DEF CInv, IInv
<1>1. UNCHANGED <<vmas, pt, list, must, grown>>
  BY DEF LookUndefined, NextFront, MkArray, Grant, Done, procVars, walkVars, histVars
<1>2. Regions'
  BY <1>1 DEF Regions
<1>3. pc' \notin {"begun", "walk"}
  BY DEF LookUndefined, NextFront, MkArray, Grant, Done
<1>4. \/ pc' = "undefined"
      \/ pc = "unique" /\ pc' = "unique"
      \/ pc = "unique" /\ pc' = "grant" /\ pfns' = list
      \/ pc = "grant" /\ pc' \in {"grant", "done"} /\ pfns' = pfns
  BY DEF LookUndefined, NextFront, MkArray, Grant, Done
<1>5. ASSUME NEW m \in must, Kept(m) PROVE Kept(m)'
  BY <1>1, <1>3, <1>4, <1>5 DEF Kept, Listed
<1>6. Counted'
  BY <1>3 DEF Counted
<1> QED
  BY <1>1, <1>2, <1>5, <1>6 DEF Covered

(* Where every frame of the process is, from the first lock to the report. *)
THEOREM CoverInvariant == Spec => []CInv
<1>1. Init => CInv
  BY InitIInv, InitCovered DEF CInv
<1>2. ASSUME CInv, [Next]_vars PROVE CInv'
  <2>1. IInv'
    BY <1>2, NextIInv DEF CInv
  <2>2. Regions' /\ Covered'
    <3>1. CASE UNCHANGED vars
      BY <1>2, <3>1 DEF CInv, vars, procVars, walkVars, histVars, Regions, Covered, Counted, Kept,
                        Listed, Ahead, After
    <3> QED
      BY <1>2, <3>1, ProcessCovered, BeginCovered, LockCovered, LookCovered, UnlinkCovered,
         RestCovered DEF Next, Reporter
  <2> QED
    BY <2>1, <2>2 DEF CInv
<1> QED
  BY <1>1, <1>2, PTL DEF Spec

(* pfnlist_vmarea and pfnlist_mkunique lose no page, for any regions and page *)
(* table and whatever the process does meanwhile.                             *)
THEOREM ReportIsComplete == Spec => []Complete
<1>1. CInv => Complete
  BY DEF CInv, Covered, Kept, Listed, Complete
<1> QED
  BY <1>1, CoverInvariant, PTL
==============================================================================
