----------------------------- MODULE XenPinProofs -----------------------------
(***************************************************************************)
(* Proofs about XenPin for any CPUs, any number of pte pages and any size  *)
(* of a batch: the hypervisor refuses nothing, no store faults, PagePinned *)
(* is the truth about every page and no CPU runs on unpinned tables.       *)
(*                                                                         *)
(* A batch is all of one kind, read-only and pin or their reverse; what it *)
(* leaves when everything in it is accepted is After, which says it with   *)
(* sets instead of a recursion.  The invariant states the hypervisor's     *)
(* state with the walk's queue carried out; a flush then only moves what   *)
(* is queued into what is done.                                            *)
(***************************************************************************)
EXTENDS XenPin, FiniteSetTheorems, SequenceTheorems, WellFoundedInduction, TLAPS

USE XenPinAssumption

------------------------------------------------------------------------------
(* Batches *)

(* Induction up to N, by the set of the numbers for which it holds. *)
LEMMA Induct ==
  ASSUME NEW N \in Nat, NEW S, 0 \in S, \A n \in 1 .. N : n - 1 \in S => n \in S
  PROVE  \A n \in 0 .. N : n \in S
<1> DEFINE T == (0 .. N) \ S
<1> SUFFICES ASSUME T # {} PROVE FALSE
  OBVIOUS
<1>1. T \subseteq Nat
  OBVIOUS
<1>2. PICK x \in T : \A y \in T : ~(<<y, x>> \in OpToRel(<, Nat))
  BY <1>1, NatLessThanWellFounded, WFMin
<1>3. \A y \in T : ~(y < x)
  BY <1>1, <1>2 DEF OpToRel
<1>4. x \in 1 .. N /\ x - 1 \in 0 .. N /\ x - 1 < x
  BY <1>1
<1>5. x - 1 \in S
  BY <1>3, <1>4
<1> QED
  BY <1>4, <1>5

(* Whatever satisfies the equation of ExecAll is what it computes. *)
LEMMA RunIs ==
  ASSUME NEW x, NEW ops, Len(ops) \in Nat, NEW f,
         f = [n \in 0 .. Len(ops) |-> IF n = 0 THEN x ELSE Exec(f[n - 1], ops[n])]
  PROVE  ExecAll(x, ops) = f[Len(ops)]
<1> DEFINE Eq(r) == r = [n \in 0 .. Len(ops) |-> IF n = 0 THEN x ELSE Exec(r[n - 1], ops[n])]
           run == CHOOSE r : Eq(r)
<1>1. ExecAll(x, ops) = run[Len(ops)]
  BY DEF ExecAll
<1>2. Eq(f)
  OBVIOUS
<1>3. Eq(run)
  BY <1>2
<1> HIDE DEF run
<1> DEFINE S == {n \in 0 .. Len(ops) : run[n] = f[n]}
<1>4. 0 \in S
  BY <1>2, <1>3
<1>5. ASSUME NEW n \in 1 .. Len(ops), n - 1 \in S PROVE n \in S
  <2>1. n \in 0 .. Len(ops) /\ n # 0
    OBVIOUS
  <2>2. run[n] = Exec(run[n - 1], ops[n]) /\ f[n] = Exec(f[n - 1], ops[n])
    BY <1>2, <1>3, <2>1
  <2> QED
    BY <1>5, <2>1, <2>2
<1>6. Len(ops) \in S
  <2>1. \A n \in 1 .. Len(ops) : n - 1 \in S => n \in S
    BY <1>5, Zenon
  <2> HIDE DEF S
  <2>2. \A n \in 0 .. Len(ops) : n \in S
    BY <1>4, <2>1, Induct, Zenon
  <2> QED
    BY <2>2
<1> QED
  BY <1>1, <1>6

(* One multicall by its outcome. *)
LEMMA ExecIs ==
  ASSUME NEW x, NEW o
  PROVE  Exec(x, o) = Outcome(x, o)
  BY DEF Exec

(* The operations of a walk, and what running n of them has done. *)
PageOps == [op : {"ro", "rw", "pin", "unpin"}, p : Tables]
Upward(s) == \A i \in 1 .. Len(s) : s[i].op \in {"ro", "pin"}
Downward(s) == \A i \in 1 .. Len(s) : s[i].op \in {"rw", "unpin"}

(* Which pages the first n operations of a batch name, by operation. *)
LEMMA NamedFacts ==
  ASSUME NEW s \in Seq(PageOps), NEW o
  PROVE  /\ Named(s, 0, o) = {}
         /\ \A n \in 0 .. Len(s) : Named(s, n, o) \subseteq Tables
         /\ \A n \in 1 .. Len(s) :
              Named(s, n, o) = Named(s, n - 1, o) \cup (IF s[n].op = o THEN {s[n].p} ELSE {})
<1>1. \A i \in 1 .. Len(s) : s[i].p \in Tables
  <2>1. \A i \in 1 .. Len(s) : s[i] \in PageOps
    BY ElementOfSeq
  <2> QED
    BY <2>1 DEF PageOps
<1>2. ASSUME NEW n \in 1 .. Len(s)
      PROVE  Named(s, n, o) = Named(s, n - 1, o) \cup (IF s[n].op = o THEN {s[n].p} ELSE {})
  <2>1. 1 .. n = (1 .. (n - 1)) \cup {n}
    OBVIOUS
  <2> QED
    BY <2>1 DEF Named
<1> QED
  BY <1>1, <1>2 DEF Named

(* With no operation carried out nothing has changed. *)
LEMMA AfterNone ==
  ASSUME NEW x \in XenStates, NEW s \in Seq(PageOps)
  PROVE  After(x, s, 0) = x
<1>1. \A o : Named(s, 0, o) = {}
  BY NamedFacts
<1> QED
  BY <1>1 DEF After, XenStates

(* The hypervisor's state after n operations, field by field. *)
LEMMA AfterFields ==
  ASSUME NEW x \in XenStates, NEW s \in Seq(PageOps), NEW n \in 0 .. Len(s)
  PROVE  /\ After(x, s, n) \in XenStates
         /\ After(x, s, n).ro = (x.ro \cup Named(s, n, "ro")) \ Named(s, n, "rw")
         /\ After(x, s, n).pin = (x.pin \cup Named(s, n, "pin")) \ Named(s, n, "unpin")
         /\ After(x, s, n).tree = x.tree /\ After(x, s, n).refused = x.refused
         /\ After(x, s, n).base = x.base /\ After(x, s, n).ubase = x.ubase
<1>1. Named(s, n, "ro") \subseteq Tables /\ Named(s, n, "pin") \subseteq Tables
  BY NamedFacts
<1> QED
  BY <1>1 DEF After, XenStates

(* A batch that pins names nothing to unpin, and the reverse. *)
LEMMA KindFacts ==
  ASSUME NEW s \in Seq(PageOps), NEW n \in 0 .. Len(s)
  PROVE  /\ Upward(s) => Named(s, n, "rw") = {} /\ Named(s, n, "unpin") = {}
         /\ Downward(s) => Named(s, n, "ro") = {} /\ Named(s, n, "pin") = {}
  BY DEF Named, Upward, Downward

(* Equal fields, equal states. *)
LEMMA SameState ==
  ASSUME NEW x \in XenStates, NEW y \in XenStates, x.ro = y.ro, x.pin = y.pin,
         x.tree = y.tree, x.refused = y.refused, x.base = y.base, x.ubase = y.ubase
  PROVE  x = y
  BY DEF XenStates

(* One operation on a table page that is accepted, field by field. *)
LEMMA PageOpFields ==
  ASSUME NEW x \in XenStates, NEW o \in PageOps, Accepts(x, o)
  PROVE  /\ Exec(x, o) \in XenStates
         /\ Exec(x, o).ro = IF o.op = "ro" THEN x.ro \cup {o.p}
                            ELSE IF o.op = "rw" THEN x.ro \ {o.p} ELSE x.ro
         /\ Exec(x, o).pin = IF o.op = "pin" THEN x.pin \cup {o.p}
                             ELSE IF o.op = "unpin" THEN x.pin \ {o.p} ELSE x.pin
         /\ Exec(x, o).tree = x.tree /\ Exec(x, o).refused = x.refused
         /\ Exec(x, o).base = x.base /\ Exec(x, o).ubase = x.ubase
<1>1. Exec(x, o) = Effect(x, o)
  BY ExecIs DEF Outcome
<1>2. o.p \in Tables /\ o.op \in {"ro", "rw", "pin", "unpin"}
  BY DEF PageOps
<1>3. CASE o.op = "ro"
  BY <1>1, <1>2, <1>3 DEF Effect, XenStates
<1>4. CASE o.op = "rw"
  BY <1>1, <1>2, <1>4 DEF Effect, XenStates
<1>5. CASE o.op = "pin"
  BY <1>1, <1>2, <1>5 DEF Effect, XenStates
<1>6. CASE o.op = "unpin"
  BY <1>1, <1>2, <1>6 DEF Effect, XenStates
<1> QED
  BY <1>2, <1>3, <1>4, <1>5, <1>6

(* One more accepted operation of a batch does what After says of it. *)
LEMMA StepAfter ==
  ASSUME NEW x \in XenStates, NEW s \in Seq(PageOps), Upward(s) \/ Downward(s),
         NEW n \in 1 .. Len(s), Accepts(After(x, s, n - 1), s[n])
  PROVE  Exec(After(x, s, n - 1), s[n]) = After(x, s, n)
<1> DEFINE y == After(x, s, n - 1)
           z == After(x, s, n)
           o == s[n]
<1>1. n - 1 \in 0 .. Len(s) /\ n \in 0 .. Len(s) /\ o \in PageOps
  OBVIOUS
<1>2. /\ y \in XenStates /\ z \in XenStates
      /\ y.ro = (x.ro \cup Named(s, n - 1, "ro")) \ Named(s, n - 1, "rw")
      /\ y.pin = (x.pin \cup Named(s, n - 1, "pin")) \ Named(s, n - 1, "unpin")
      /\ z.ro = (x.ro \cup Named(s, n, "ro")) \ Named(s, n, "rw")
      /\ z.pin = (x.pin \cup Named(s, n, "pin")) \ Named(s, n, "unpin")
      /\ y.tree = z.tree /\ y.refused = z.refused /\ y.base = z.base /\ y.ubase = z.ubase
  BY <1>1, AfterFields
<1>3. \A k \in {"ro", "rw", "pin", "unpin"} :
        Named(s, n, k) = Named(s, n - 1, k) \cup (IF o.op = k THEN {o.p} ELSE {})
  BY NamedFacts
<1>4. /\ Upward(s) => Named(s, n, "rw") = {} /\ Named(s, n, "unpin") = {}
      /\ Downward(s) => Named(s, n, "ro") = {} /\ Named(s, n, "pin") = {}
      /\ Upward(s) => Named(s, n - 1, "rw") = {} /\ Named(s, n - 1, "unpin") = {}
      /\ Downward(s) => Named(s, n - 1, "ro") = {} /\ Named(s, n - 1, "pin") = {}
  BY <1>1, KindFacts
<1>5. /\ Upward(s) => o.op \in {"ro", "pin"}
      /\ Downward(s) => o.op \in {"rw", "unpin"}
  BY DEF Upward, Downward
<1> HIDE DEF y, z, o
<1>6. /\ Exec(y, o) \in XenStates
      /\ Exec(y, o).ro = IF o.op = "ro" THEN y.ro \cup {o.p}
                         ELSE IF o.op = "rw" THEN y.ro \ {o.p} ELSE y.ro
      /\ Exec(y, o).pin = IF o.op = "pin" THEN y.pin \cup {o.p}
                          ELSE IF o.op = "unpin" THEN y.pin \ {o.p} ELSE y.pin
      /\ Exec(y, o).tree = y.tree /\ Exec(y, o).refused = y.refused
      /\ Exec(y, o).base = y.base /\ Exec(y, o).ubase = y.ubase
  BY <1>1, <1>2, PageOpFields DEF y, o
<1>7. Exec(y, o).ro = z.ro
  BY <1>2, <1>3, <1>4, <1>5, <1>6
<1>8. Exec(y, o).pin = z.pin
  BY <1>2, <1>3, <1>4, <1>5, <1>6
<1>9. Exec(y, o) = z
  BY <1>2, <1>6, <1>7, <1>8, SameState, ZenonT(30)
<1> QED
  BY <1>9 DEF y, z, o

(* A batch of page operations that are all accepted does what it says. *)
LEMMA BatchRuns ==
  ASSUME NEW x \in XenStates, NEW s \in Seq(PageOps), Upward(s) \/ Downward(s),
         NEW n \in 0 .. Len(s), \A i \in 1 .. n : Accepts(After(x, s, i - 1), s[i])
  PROVE  ExecAll(x, SubSeq(s, 1, n)) = After(x, s, n)
<1> DEFINE t == SubSeq(s, 1, n)
           f == [k \in 0 .. n |-> After(x, s, k)]
<1>1. Len(t) = n /\ \A i \in 1 .. n : t[i] = s[i]
  OBVIOUS
<1>2. ASSUME NEW k \in 0 .. n
      PROVE  f[k] = IF k = 0 THEN x ELSE Exec(f[k - 1], t[k])
  <2>1. CASE k = 0
    BY <2>1, AfterNone
  <2>2. CASE k # 0
    <3>1. k \in 1 .. Len(s) /\ k \in 1 .. n /\ k - 1 \in 0 .. n
      BY <2>2
    <3>2. Exec(After(x, s, k - 1), s[k]) = After(x, s, k)
      BY <3>1, StepAfter
    <3> QED
      BY <1>1, <2>2, <3>1, <3>2
  <2> QED
    BY <2>1, <2>2
<1>3. f = [k \in 0 .. Len(t) |-> IF k = 0 THEN x ELSE Exec(f[k - 1], t[k])]
  BY <1>1, <1>2
<1>4. Len(t) \in Nat
  BY <1>1
<1>5. f[n] = After(x, s, n)
  OBVIOUS
<1> HIDE DEF t, f
<1>6. ExecAll(x, t) = f[Len(t)]
  BY <1>3, <1>4, RunIs
<1> QED
  BY <1>1, <1>5, <1>6 DEF t

(* Of a batch in two parts. *)
LEMMA NamedCat ==
  ASSUME NEW s \in Seq(PageOps), NEW t \in Seq(PageOps), NEW o
  PROVE  /\ \A n \in 0 .. Len(s) : Named(s \o t, n, o) = Named(s, n, o)
         /\ \A n \in 0 .. Len(t) :
              Named(s \o t, Len(s) + n, o) = Named(s, Len(s), o) \cup Named(t, n, o)
<1> DEFINE u == s \o t
<1>1. /\ Len(s) \in Nat /\ Len(t) \in Nat /\ u \in Seq(PageOps) /\ Len(u) = Len(s) + Len(t)
      /\ \A i \in 1 .. Len(s) : u[i] = s[i]
      /\ \A i \in 1 .. Len(t) : u[Len(s) + i] = t[i]
  <2>1. /\ u \in Seq(PageOps) /\ Len(u) = Len(s) + Len(t)
        /\ \A i \in 1 .. Len(s) + Len(t) : u[i] = IF i <= Len(s) THEN s[i] ELSE t[i - Len(s)]
    BY ConcatProperties
  <2>2. Len(s) \in Nat /\ Len(t) \in Nat
    OBVIOUS
  <2> HIDE DEF u
  <2>3. ASSUME NEW i \in 1 .. Len(t) PROVE u[Len(s) + i] = t[i]
    <3>1. Len(s) + i \in 1 .. Len(s) + Len(t) /\ ~(Len(s) + i <= Len(s)) /\ (Len(s) + i) - Len(s) = i
      BY <2>2
    <3> QED
      BY <2>1, <3>1
  <2> QED
    BY <2>1, <2>2, <2>3
<1> HIDE DEF u
<1>2. ASSUME NEW n \in 0 .. Len(s) PROVE Named(u, n, o) = Named(s, n, o)
  <2>1. \A i \in 1 .. n : u[i] = s[i]
    BY <1>1
  <2> QED
    BY <2>1 DEF Named
<1>3. ASSUME NEW n \in 0 .. Len(t)
      PROVE  Named(u, Len(s) + n, o) = Named(s, Len(s), o) \cup Named(t, n, o)
  <2> DEFINE l == Len(s)
  <2>0. l \in Nat /\ (\A i \in 1 .. l : u[i] = s[i]) /\ (\A i \in 1 .. n : u[l + i] = t[i])
    BY <1>1
  <2> HIDE DEF l
  <2>1. ASSUME NEW p, p \in Named(u, l + n, o) PROVE p \in Named(s, l, o) \cup Named(t, n, o)
    <3>1. PICK i \in 1 .. l + n : u[i].op = o /\ p = u[i].p
      BY <2>1 DEF Named
    <3>2. CASE i \in 1 .. l
      BY <2>0, <3>1, <3>2 DEF Named
    <3>3. CASE i - l \in 1 .. n
      <4>1. u[i] = t[i - l]
        <5>1. l + (i - l) = i
          BY <2>0
        <5> QED
          BY <2>0, <3>3, <5>1
      <4> QED
        BY <3>1, <3>3, <4>1 DEF Named
    <3> QED
      BY <2>0, <3>2, <3>3
  <2>2. ASSUME NEW p, p \in Named(s, l, o) PROVE p \in Named(u, l + n, o)
    <3>1. PICK i \in 1 .. l : s[i].op = o /\ p = s[i].p
      BY <2>2 DEF Named
    <3>2. i \in 1 .. l + n
      BY <2>0
    <3> QED
      BY <2>0, <3>1, <3>2 DEF Named
  <2>3. ASSUME NEW p, p \in Named(t, n, o) PROVE p \in Named(u, l + n, o)
    <3>1. PICK i \in 1 .. n : t[i].op = o /\ p = t[i].p
      BY <2>3 DEF Named
    <3>2. l + i \in 1 .. l + n /\ u[l + i] = t[i]
      BY <2>0
    <3> QED
      BY <3>1, <3>2 DEF Named
  <2>4. Named(u, l + n, o) = Named(s, l, o) \cup Named(t, n, o)
    BY <2>1, <2>2, <2>3
  <2> QED
    BY <2>4 DEF l
<1> QED
  BY <1>2, <1>3 DEF u

(* What the second half of a batch adds to the first. *)
LEMMA NamedRight ==
  ASSUME NEW s \in Seq(PageOps), NEW t \in Seq(PageOps), NEW n \in 0 .. Len(t)
  PROVE  \A o \in {"ro", "rw", "pin", "unpin"} :
           Named(s \o t, Len(s) + n, o) = Named(s, Len(s), o) \cup Named(t, n, o)
<1> SUFFICES ASSUME NEW o PROVE Named(s \o t, Len(s) + n, o) = Named(s, Len(s), o) \cup Named(t, n, o)
  OBVIOUS
<1> QED
  BY NamedCat, SMTT(30)

SameKind(s, t) == (Upward(s) /\ Upward(t)) \/ (Downward(s) /\ Downward(t))

(* Two batches of one kind make a batch of that kind. *)
LEMMA KindCat ==
  ASSUME NEW s \in Seq(PageOps), NEW t \in Seq(PageOps)
  PROVE  /\ s \o t \in Seq(PageOps)
         /\ Upward(s) /\ Upward(t) <=> Upward(s \o t)
         /\ Downward(s) /\ Downward(t) <=> Downward(s \o t)
<1> DEFINE u == s \o t
<1>1. /\ u \in Seq(PageOps) /\ Len(u) = Len(s) + Len(t) /\ Len(s) \in Nat /\ Len(t) \in Nat
      /\ \A i \in 1 .. Len(s) + Len(t) : u[i] = IF i <= Len(s) THEN s[i] ELSE t[i - Len(s)]
  BY ConcatProperties
<1> HIDE DEF u
<1>2. ASSUME NEW i \in 1 .. Len(s) PROVE i \in 1 .. Len(u) /\ u[i] = s[i]
  BY <1>1
<1>3. ASSUME NEW i \in 1 .. Len(t) PROVE Len(s) + i \in 1 .. Len(u) /\ u[Len(s) + i] = t[i]
  <2>1. Len(s) + i \in 1 .. Len(s) + Len(t) /\ ~(Len(s) + i <= Len(s)) /\ (Len(s) + i) - Len(s) = i
    BY <1>1
  <2> QED
    BY <1>1, <2>1
<1>4. ASSUME NEW i \in 1 .. Len(u)
      PROVE  \/ i \in 1 .. Len(s) /\ u[i] = s[i]
             \/ i - Len(s) \in 1 .. Len(t) /\ u[i] = t[i - Len(s)]
  BY <1>1
<1> QED
  BY <1>1, <1>2, <1>3, <1>4 DEF Upward, Downward, u

(* Two batches one after the other do what the joined batch does ... *)
LEMMA AfterCat ==
  ASSUME NEW x \in XenStates, NEW s \in Seq(PageOps), NEW t \in Seq(PageOps), SameKind(s, t)
  PROVE  /\ \A n \in 0 .. Len(s) : After(x, s \o t, n) = After(x, s, n)
         /\ \A n \in 0 .. Len(t) :
              After(x, s \o t, Len(s) + n) = After(After(x, s, Len(s)), t, n)
<1>1. ASSUME NEW n \in 0 .. Len(s) PROVE After(x, s \o t, n) = After(x, s, n)
  <2>1. \A o \in {"ro", "rw", "pin", "unpin"} : Named(s \o t, n, o) = Named(s, n, o)
    BY NamedCat
  <2> QED
    BY <2>1 DEF After
<1>2. ASSUME NEW n \in 0 .. Len(t)
      PROVE  After(x, s \o t, Len(s) + n) = After(After(x, s, Len(s)), t, n)
  <2> DEFINE y == After(x, s, Len(s))
             l == Len(s)
             u == s \o t
             z == After(y, t, n)
             w == After(x, u, l + n)
  <2>1. l \in 0 .. Len(s) /\ l + n \in 0 .. Len(u) /\ u \in Seq(PageOps)
    <3>1. s \o t \in Seq(PageOps) /\ Len(s \o t) = Len(s) + Len(t)
      BY ConcatProperties
    <3> QED
      BY <3>1
  <2>2. /\ y \in XenStates
        /\ y.ro = (x.ro \cup Named(s, l, "ro")) \ Named(s, l, "rw")
        /\ y.pin = (x.pin \cup Named(s, l, "pin")) \ Named(s, l, "unpin")
        /\ y.tree = x.tree /\ y.refused = x.refused /\ y.base = x.base /\ y.ubase = x.ubase
    BY <2>1, AfterFields
  <2>5. \A o \in {"ro", "rw", "pin", "unpin"} :
          Named(u, l + n, o) = Named(s, l, o) \cup Named(t, n, o)
    BY NamedRight
  <2> HIDE DEF y, u, l
  <2>3. /\ w \in XenStates
        /\ w.ro = (x.ro \cup Named(u, l + n, "ro")) \ Named(u, l + n, "rw")
        /\ w.pin = (x.pin \cup Named(u, l + n, "pin")) \ Named(u, l + n, "unpin")
        /\ w.tree = x.tree /\ w.refused = x.refused /\ w.base = x.base /\ w.ubase = x.ubase
    BY <2>1, AfterFields
  <2>4. /\ z \in XenStates
        /\ z.ro = (y.ro \cup Named(t, n, "ro")) \ Named(t, n, "rw")
        /\ z.pin = (y.pin \cup Named(t, n, "pin")) \ Named(t, n, "unpin")
        /\ z.tree = y.tree /\ z.refused = y.refused /\ z.base = y.base /\ z.ubase = y.ubase
    BY <2>2, AfterFields
  <2>6. /\ Upward(s) => Named(s, l, "rw") = {} /\ Named(s, l, "unpin") = {}
        /\ Downward(s) => Named(s, l, "ro") = {} /\ Named(s, l, "pin") = {}
        /\ Upward(t) => Named(t, n, "rw") = {} /\ Named(t, n, "unpin") = {}
        /\ Downward(t) => Named(t, n, "ro") = {} /\ Named(t, n, "pin") = {}
    BY <2>1, KindFacts
  <2> HIDE DEF z, w
  <2>7. z.ro = w.ro
    BY <2>2, <2>3, <2>4, <2>5, <2>6 DEF SameKind
  <2>8. z.pin = w.pin
    BY <2>2, <2>3, <2>4, <2>5, <2>6 DEF SameKind
  <2>9. z = w
    BY <2>2, <2>3, <2>4, <2>7, <2>8, SameState, ZenonT(90)
  <2> QED
    BY <2>9 DEF y, z, w, l, u
<1> QED
  BY <1>1, <1>2

(* ... and are accepted exactly when the joined batch is. *)
LEMMA LegalCat ==
  ASSUME NEW x \in XenStates, NEW s \in Seq(PageOps), NEW t \in Seq(PageOps), SameKind(s, t)
  PROVE  Legal(x, s \o t) <=> Legal(x, s) /\ Legal(After(x, s, Len(s)), t)
<1> DEFINE u == s \o t
           y == After(x, s, Len(s))
<1>1. /\ u \in Seq(PageOps) /\ Len(u) = Len(s) + Len(t) /\ Len(s) \in Nat /\ Len(t) \in Nat
      /\ \A i \in 1 .. Len(s) + Len(t) : u[i] = IF i <= Len(s) THEN s[i] ELSE t[i - Len(s)]
  BY ConcatProperties
<1>2. /\ \A n \in 0 .. Len(s) : After(x, u, n) = After(x, s, n)
      /\ \A n \in 0 .. Len(t) : After(x, u, Len(s) + n) = After(y, t, n)
  BY AfterCat
<1> HIDE DEF u, y
<1>3. ASSUME NEW i \in 1 .. Len(s)
      PROVE  i \in 1 .. Len(u) /\ (Accepts(After(x, u, i - 1), u[i]) <=> Accepts(After(x, s, i - 1), s[i]))
  <2>1. i \in 1 .. Len(u) /\ i - 1 \in 0 .. Len(s) /\ u[i] = s[i]
    BY <1>1
  <2> QED
    BY <1>2, <2>1
<1>4. ASSUME NEW i \in 1 .. Len(t)
      PROVE  /\ Len(s) + i \in 1 .. Len(u)
             /\ Accepts(After(x, u, (Len(s) + i) - 1), u[Len(s) + i]) <=> Accepts(After(y, t, i - 1), t[i])
  <2>1. /\ Len(s) + i \in 1 .. Len(s) + Len(t) /\ ~(Len(s) + i <= Len(s)) /\ (Len(s) + i) - Len(s) = i
        /\ i - 1 \in 0 .. Len(t) /\ (Len(s) + i) - 1 = Len(s) + (i - 1)
    BY <1>1
  <2>2. u[Len(s) + i] = t[i] /\ After(x, u, (Len(s) + i) - 1) = After(y, t, i - 1)
    BY <1>1, <1>2, <2>1
  <2> QED
    BY <1>1, <2>1, <2>2
<1>5. ASSUME NEW i \in 1 .. Len(u)
      PROVE  i \in 1 .. Len(s) \/ (i - Len(s) \in 1 .. Len(t) /\ Len(s) + (i - Len(s)) = i)
  BY <1>1
<1> QED
  BY <1>3, <1>4, <1>5 DEF Legal, u, y

(* A batch and what follows it; the first n operations of one, and the rest. *)
Cat(s, t) == s \o t
FirstN(s, n) == SubSeq(s, 1, n)
Back(s, n) == SubSeq(s, n + 1, Len(s))

(* A batch may be cut anywhere. *)
LEMMA Cut ==
  ASSUME NEW s \in Seq(PageOps), Upward(s) \/ Downward(s), NEW n \in 0 .. Len(s)
  PROVE  /\ FirstN(s, n) \in Seq(PageOps) /\ Back(s, n) \in Seq(PageOps)
         /\ Len(FirstN(s, n)) = n /\ Len(Back(s, n)) = Len(s) - n
         /\ \A i \in 1 .. Len(s) - n : Back(s, n)[i] = s[n + i]
         /\ s = Cat(FirstN(s, n), Back(s, n))
         /\ SameKind(FirstN(s, n), Back(s, n))
<1> DEFINE a == SubSeq(s, 1, n)
           b == SubSeq(s, n + 1, Len(s))
<1>1. /\ a \in Seq(PageOps) /\ b \in Seq(PageOps) /\ Len(a) = n /\ Len(b) = Len(s) - n
      /\ \A i \in 1 .. n : a[i] = s[i]
      /\ \A i \in 1 .. Len(s) - n : b[i] = s[n + i]
  OBVIOUS
<1>2. s \in Seq(PageOps) /\ Len(s) \in Nat
  OBVIOUS
<1> HIDE DEF a, b
<1> DEFINE u == a \o b
<1>a. a \in Seq(PageOps) /\ b \in Seq(PageOps)
  BY <1>1
<1>3. /\ u \in Seq(PageOps) /\ Len(u) = Len(a) + Len(b)
      /\ \A i \in 1 .. Len(a) + Len(b) : u[i] = IF i <= Len(a) THEN a[i] ELSE b[i - Len(a)]
  BY <1>a, ConcatProperties
<1>7. Upward(a) /\ Upward(b) <=> Upward(u)
  BY <1>a, KindCat
<1>8. Downward(a) /\ Downward(b) <=> Downward(u)
  BY <1>a, KindCat
<1> HIDE DEF u
<1>4. Len(u) = Len(s)
  BY <1>1, <1>2, <1>3
<1>5. ASSUME NEW i \in 1 .. Len(s) PROVE u[i] = s[i]
  <2>1. CASE i <= n
    BY <1>1, <1>2, <1>3, <2>1
  <2>2. CASE i > n
    <3>1. i - n \in 1 .. Len(s) - n /\ n + (i - n) = i /\ ~(i <= Len(a)) /\ i \in 1 .. Len(a) + Len(b)
      BY <1>1, <1>2, <2>2
    <3>2. u[i] = b[i - n]
      BY <1>1, <1>3, <3>1
    <3> QED
      BY <1>1, <3>1, <3>2
  <2> QED
    BY <2>1, <2>2
<1>6. u = s
  BY <1>2, <1>3, <1>4, <1>5, SeqEqual
<1>9. SameKind(a, b)
  BY <1>6, <1>7, <1>8 DEF SameKind
<1> QED
  BY <1>1, <1>6, <1>9 DEF a, b, u, Cat, FirstN, Back

(* What stays queued: at most a batch, all of it if there was room. *)
LEMMA DivMod ==
  ASSUME NEW x \in Nat, NEW m \in Nat \ {0}
  PROVE  /\ x % m \in 0 .. m - 1 /\ x \div m \in Nat
         /\ x = m * (x \div m) + (x % m)
  OBVIOUS

(* What stays queued when a full buffer was flushed on the way. *)
LEMMA KeptFacts ==
  ASSUME NEW S, NEW s \in Seq(S)
  PROVE  /\ Kept(s) \in 0 .. Len(s) /\ Kept(s) <= MCBatch
         /\ Len(s) <= MCBatch => Kept(s) = Len(s)
         /\ Len(s) - Kept(s) > 0 => Len(s) - Kept(s) >= MCBatch
         /\ Len(s) > 0 => Kept(s) > 0
<1>1. CASE s = <<>>
  BY <1>1 DEF Kept
<1>2. CASE s # <<>>
  <2> DEFINE l == Len(s)
             x == l - 1
             m == MCBatch
             r == x % m
             d == x \div m
  <2>1. l \in Nat /\ l > 0 /\ x \in Nat /\ m \in Nat \ {0, 1} /\ Kept(s) = r + 1
    BY <1>2 DEF Kept
  <2>2. r \in 0 .. m - 1 /\ d \in Nat /\ x = m * d + r
    BY <2>1, DivMod
  <2> HIDE DEF m, r, d
  <2>3. m * d \in Nat
    BY <2>1, <2>2
  <2>4. d = 0 => m * d = 0
    BY <2>1
  <2>5. d # 0 => m * d >= m
    <3> SUFFICES ASSUME d # 0 PROVE m * d >= m * 1
      BY <2>1
    <3> QED
      BY <2>1, <2>2
  <2>6. l = m * d + r + 1
    BY <2>1, <2>2, <2>3
  <2> HIDE DEF x, l
  <2>7. d # 0 => l > m
    BY <2>1, <2>2, <2>3, <2>5, <2>6
  <2> QED
    BY <2>1, <2>2, <2>3, <2>4, <2>5, <2>6, <2>7 DEF l, m
<1> QED
  BY <1>1, <1>2

(* A flushed batch of page operations. *)
LEMMA Flushed ==
  ASSUME NEW x \in XenStates, NEW s \in Seq(PageOps), Upward(s) \/ Downward(s), Legal(x, s)
  PROVE  ExecAll(x, s) = After(x, s, Len(s))
<1>1. SubSeq(s, 1, Len(s)) = s /\ Len(s) \in 0 .. Len(s)
  OBVIOUS
<1>2. \A i \in 1 .. Len(s) : Accepts(After(x, s, i - 1), s[i])
  BY DEF Legal
<1> QED
  BY <1>1, <1>2, BatchRuns

(* A batch of which the first n operations go out. *)
LEMMA SentPart ==
  ASSUME NEW x \in XenStates, NEW s \in Seq(PageOps), Upward(s) \/ Downward(s), Legal(x, s),
         NEW n \in 0 .. Len(s)
  PROVE  /\ ExecAll(x, FirstN(s, n)) = After(x, s, n)
         /\ After(x, s, n) \in XenStates
         /\ Legal(After(x, s, n), Back(s, n))
         /\ After(After(x, s, n), Back(s, n), Len(Back(s, n))) = After(x, s, Len(s))
<1> DEFINE a == FirstN(s, n)
           b == Back(s, n)
<1>1. /\ a \in Seq(PageOps) /\ b \in Seq(PageOps) /\ Len(a) = n /\ Len(b) = Len(s) - n
      /\ s = a \o b /\ SameKind(a, b)
  BY Cut DEF Cat
<1>2. ExecAll(x, a) = After(x, s, n)
  <2>1. \A i \in 1 .. n : Accepts(After(x, s, i - 1), s[i])
    BY DEF Legal
  <2> QED
    BY <2>1, BatchRuns DEF FirstN
<1> HIDE DEF a, b
<1>3. After(x, s, n) \in XenStates
  BY AfterFields
<1>4. /\ \A k \in 0 .. Len(a) : After(x, a \o b, k) = After(x, a, k)
      /\ \A k \in 0 .. Len(b) : After(x, a \o b, Len(a) + k) = After(After(x, a, Len(a)), b, k)
  BY <1>1, AfterCat, ZenonT(30)
<1>5. Legal(x, a \o b) <=> Legal(x, a) /\ Legal(After(x, a, Len(a)), b)
  BY <1>1, LegalCat
<1>6. n \in 0 .. Len(a) /\ Len(b) \in 0 .. Len(b) /\ Len(a) + Len(b) = Len(s)
  <2> DEFINE l == Len(s)
             k == Len(b)
  <2>1. l \in Nat /\ n \in 0 .. l
    OBVIOUS
  <2>2. Len(a) = n /\ k = l - n
    BY <1>1
  <2> HIDE DEF l, k
  <2>3. n \in 0 .. n /\ k \in 0 .. k /\ n + k = l
    BY <2>1, <2>2
  <2> QED
    BY <2>2, <2>3, Zenon DEF l, k
<1>7. After(x, s, n) = After(x, a, n)
  BY <1>1, <1>4, <1>6
<1>8. After(x, s, Len(s)) = After(After(x, a, n), b, Len(b))
  BY <1>1, <1>4, <1>6
<1> QED
  BY <1>1, <1>2, <1>3, <1>5, <1>7, <1>8 DEF a, b

(* Short batches. *)
LEMMA ExecNone ==
  ASSUME NEW x
  PROVE  ExecAll(x, <<>>) = x
<1> DEFINE f == [n \in 0 .. 0 |-> x]
           s == <<>>
<1>1. Len(s) = 0 /\ f[Len(s)] = x
  OBVIOUS
<1>2. f = [n \in 0 .. Len(s) |-> IF n = 0 THEN x ELSE Exec(f[n - 1], s[n])]
  OBVIOUS
<1> HIDE DEF f, s
<1>3. ExecAll(x, s) = f[Len(s)]
  BY <1>1, <1>2, RunIs
<1> QED
  BY <1>1, <1>3 DEF s

(* ExecAll on batches of one, two and three operations. *)
LEMMA ExecOne ==
  ASSUME NEW x, NEW a
  PROVE  ExecAll(x, <<a>>) = Exec(x, a)
<1> DEFINE f == [n \in 0 .. 1 |-> IF n = 0 THEN x ELSE Exec(x, a)]
           s == <<a>>
<1>1. Len(s) = 1 /\ s[1] = a /\ f[0] = x /\ f[1] = Exec(x, a)
  OBVIOUS
<1>2. f = [n \in 0 .. Len(s) |-> IF n = 0 THEN x ELSE Exec(f[n - 1], s[n])]
  OBVIOUS
<1> HIDE DEF f, s
<1>3. ExecAll(x, s) = f[Len(s)]
  BY <1>1, <1>2, RunIs
<1> QED
  BY <1>1, <1>3 DEF s

(* Two operations, in order. *)
LEMMA ExecTwo ==
  ASSUME NEW x, NEW a, NEW b
  PROVE  ExecAll(x, <<a, b>>) = Exec(Exec(x, a), b)
<1> DEFINE f == [n \in 0 .. 2 |-> IF n = 0 THEN x ELSE IF n = 1 THEN Exec(x, a)
                                  ELSE Exec(Exec(x, a), b)]
           s == <<a, b>>
<1>1. Len(s) = 2 /\ s[1] = a /\ s[2] = b /\ f[0] = x /\ f[1] = Exec(x, a) /\ f[2] = Exec(Exec(x, a), b)
  OBVIOUS
<1>2. f = [n \in 0 .. Len(s) |-> IF n = 0 THEN x ELSE Exec(f[n - 1], s[n])]
  OBVIOUS
<1> HIDE DEF f, s
<1>3. ExecAll(x, s) = f[Len(s)]
  BY <1>1, <1>2, RunIs, SMTT(30)
<1> QED
  BY <1>1, <1>3 DEF s

(* Three operations, in order. *)
LEMMA ExecThree ==
  ASSUME NEW x, NEW a, NEW b, NEW d
  PROVE  ExecAll(x, <<a, b, d>>) = Exec(Exec(Exec(x, a), b), d)
<1> DEFINE f == [n \in 0 .. 3 |-> IF n = 0 THEN x ELSE IF n = 1 THEN Exec(x, a)
                                  ELSE IF n = 2 THEN Exec(Exec(x, a), b)
                                  ELSE Exec(Exec(Exec(x, a), b), d)]
           s == <<a, b, d>>
<1>1. /\ Len(s) = 3 /\ s[1] = a /\ s[2] = b /\ s[3] = d /\ f[0] = x /\ f[1] = Exec(x, a)
      /\ f[2] = Exec(Exec(x, a), b) /\ f[3] = Exec(Exec(Exec(x, a), b), d)
  OBVIOUS
<1>2. f = [n \in 0 .. Len(s) |-> IF n = 0 THEN x ELSE Exec(f[n - 1], s[n])]
  OBVIOUS
<1> HIDE DEF f, s
<1>3. ExecAll(x, s) = f[Len(s)]
  BY <1>1, <1>2, RunIs
<1> QED
  BY <1>1, <1>3 DEF s

(* An empty batch is legal and changes nothing. *)
LEMMA EmptyBatch ==
  ASSUME NEW x \in XenStates
  PROVE  <<>> \in Seq(PageOps) /\ Legal(x, <<>>) /\ After(x, <<>>, Len(<<>>)) = x
<1>1. <<>> \in Seq(PageOps) /\ Len(<<>>) = 0
  OBVIOUS
<1>2. After(x, <<>>, 0) = x
  BY <1>1, AfterNone
<1> QED
  BY <1>1, <1>2 DEF Legal

(* What one, two or three page operations make of a state. *)
LEMMA AfterOne ==
  ASSUME NEW x \in XenStates, NEW a \in PageOps, Accepts(x, a)
  PROVE  /\ <<a>> \in Seq(PageOps) /\ Len(<<a>>) = 1 /\ Legal(x, <<a>>)
         /\ After(x, <<a>>, Len(<<a>>)) = Exec(x, a)
<1> DEFINE s == <<a>>
<1>1. s \in Seq(PageOps) /\ Len(s) = 1 /\ s[1] = a /\ 1 \in 1 .. Len(s)
  OBVIOUS
<1>2. Upward(s) \/ Downward(s)
  BY DEF Upward, Downward, PageOps
<1> HIDE DEF s
<1>3. After(x, s, 1 - 1) = x
  BY <1>1, AfterNone
<1>4. Exec(After(x, s, 1 - 1), s[1]) = After(x, s, 1)
  BY <1>1, <1>2, <1>3, StepAfter
<1>5. Legal(x, s)
  BY <1>1, <1>3 DEF Legal
<1> QED
  BY <1>1, <1>3, <1>4, <1>5 DEF s

(* Two accepted operations of one kind are a legal batch ... *)
LEMMA AfterTwo ==
  ASSUME NEW x \in XenStates, NEW a \in PageOps, NEW b \in PageOps,
         {a.op, b.op} \subseteq {"ro", "pin"} \/ {a.op, b.op} \subseteq {"rw", "unpin"},
         Accepts(x, a), Accepts(Exec(x, a), b)
  PROVE  /\ <<a, b>> \in Seq(PageOps) /\ Len(<<a, b>>) = 2 /\ Legal(x, <<a, b>>)
         /\ After(x, <<a, b>>, Len(<<a, b>>)) = Exec(Exec(x, a), b)
<1> DEFINE s == <<a, b>>
<1>1. s \in Seq(PageOps) /\ Len(s) = 2 /\ s[1] = a /\ s[2] = b
  OBVIOUS
<1>2. Upward(s) \/ Downward(s)
  BY DEF Upward, Downward
<1> HIDE DEF s
<1>3. After(x, s, 1 - 1) = x /\ 1 \in 1 .. Len(s) /\ 2 \in 1 .. Len(s)
  BY <1>1, AfterNone
<1>4. Exec(After(x, s, 1 - 1), s[1]) = After(x, s, 1)
  BY <1>1, <1>2, <1>3, StepAfter
<1>5. After(x, s, 2 - 1) = Exec(x, a)
  BY <1>1, <1>3, <1>4
<1>6. Exec(After(x, s, 2 - 1), s[2]) = After(x, s, 2)
  BY <1>1, <1>2, <1>3, <1>5, StepAfter
<1>7. Legal(x, s)
  BY <1>1, <1>3, <1>5 DEF Legal
<1> QED
  BY <1>1, <1>3, <1>4, <1>5, <1>6, <1>7 DEF s

(* ... and so are three. *)
LEMMA AfterThree ==
  ASSUME NEW x \in XenStates, NEW a \in PageOps, NEW b \in PageOps, NEW d \in PageOps,
         \/ {a.op, b.op, d.op} \subseteq {"ro", "pin"}
         \/ {a.op, b.op, d.op} \subseteq {"rw", "unpin"},
         Accepts(x, a), Accepts(Exec(x, a), b), Accepts(Exec(Exec(x, a), b), d)
  PROVE  /\ <<a, b, d>> \in Seq(PageOps) /\ Len(<<a, b, d>>) = 3 /\ Legal(x, <<a, b, d>>)
         /\ After(x, <<a, b, d>>, Len(<<a, b, d>>)) = Exec(Exec(Exec(x, a), b), d)
<1> DEFINE s == <<a, b, d>>
<1>1. s \in Seq(PageOps) /\ Len(s) = 3 /\ s[1] = a /\ s[2] = b /\ s[3] = d
  OBVIOUS
<1>2. Upward(s) \/ Downward(s)
  BY DEF Upward, Downward
<1> HIDE DEF s
<1>3. After(x, s, 1 - 1) = x /\ 1 \in 1 .. Len(s) /\ 2 \in 1 .. Len(s) /\ 3 \in 1 .. Len(s)
  BY <1>1, AfterNone
<1>4. Exec(After(x, s, 1 - 1), s[1]) = After(x, s, 1)
  BY <1>1, <1>2, <1>3, StepAfter
<1>5. After(x, s, 2 - 1) = Exec(x, a)
  BY <1>1, <1>3, <1>4
<1>6. Exec(After(x, s, 2 - 1), s[2]) = After(x, s, 2)
  BY <1>1, <1>2, <1>3, <1>5, StepAfter
<1>7. After(x, s, 3 - 1) = Exec(Exec(x, a), b)
  BY <1>1, <1>5, <1>6
<1>8. Exec(After(x, s, 3 - 1), s[3]) = After(x, s, 3)
  BY <1>1, <1>2, <1>3, <1>7, StepAfter
<1>9. Legal(x, s)
  BY <1>1, <1>3, <1>5, <1>7 DEF Legal
<1> QED
  BY <1>1, <1>5, <1>6, <1>7, <1>8, <1>9 DEF s

(* A legal batch, and more that is legal after it. *)
LEMMA Joined ==
  ASSUME NEW x \in XenStates, NEW s \in Seq(PageOps), NEW t \in Seq(PageOps), SameKind(s, t),
         Legal(x, s), Legal(After(x, s, Len(s)), t)
  PROVE  /\ Cat(s, t) \in Seq(PageOps) /\ Len(Cat(s, t)) = Len(s) + Len(t) /\ Legal(x, Cat(s, t))
         /\ \A i \in 1 .. Len(t) : Cat(s, t)[Len(s) + i] = t[i]
         /\ Upward(Cat(s, t)) \/ Downward(Cat(s, t))
         /\ Upward(s) /\ Upward(t) => Upward(Cat(s, t))
         /\ Downward(s) /\ Downward(t) => Downward(Cat(s, t))
         /\ After(x, Cat(s, t), Len(Cat(s, t))) = After(After(x, s, Len(s)), t, Len(t))
<1>1. /\ s \o t \in Seq(PageOps) /\ (Upward(s) /\ Upward(t) <=> Upward(s \o t))
      /\ (Downward(s) /\ Downward(t) <=> Downward(s \o t))
  BY KindCat
<1>2. Len(s \o t) = Len(s) + Len(t) /\ \A i \in 1 .. Len(t) : (s \o t)[Len(s) + i] = t[i]
  OBVIOUS
<1>3. Legal(x, s \o t)
  BY LegalCat
<1>4. Len(t) \in 0 .. Len(t)
  OBVIOUS
<1>5. \A n \in 0 .. Len(t) : After(x, s \o t, Len(s) + n) = After(After(x, s, Len(s)), t, n)
  BY AfterCat
<1>6. After(x, s \o t, Len(s) + Len(t)) = After(After(x, s, Len(s)), t, Len(t))
  BY <1>4, <1>5
<1>7. After(x, s \o t, Len(s \o t)) = After(After(x, s, Len(s)), t, Len(t))
  BY <1>2, <1>6
<1>8. Cat(s, t) = s \o t
  BY DEF Cat
<1> QED
  BY <1>1, <1>2, <1>3, <1>7, <1>8 DEF SameKind

(* Page operations queued behind others of the kind: what has gone to the   *)
(* hypervisor and what is left make the same of its state.                  *)
LEMMA EnqueuePages ==
  ASSUME xen \in XenStates, DOMAIN q = Cpus, DOMAIN cb = Cpus, NEW c \in Cpus,
         q[c] \in Seq(PageOps), Len(q[c]) <= MCBatch, NEW ops \in Seq(PageOps), SameKind(q[c], ops),
         Legal(xen, q[c]), Legal(After(xen, q[c], Len(q[c])), ops),
         NEW calls, calls \in Seq(Callbacks), NEW locks, Enqueue(c, ops, calls, locks)
  PROVE  /\ xen' \in XenStates /\ xen'.tree = xen.tree /\ xen'.refused = xen.refused
         /\ xen'.base = xen.base /\ xen'.ubase = xen.ubase
         /\ q'[c] \in Seq(PageOps) /\ Len(q'[c]) <= MCBatch
         /\ Upward(q[c]) /\ Upward(ops) => Upward(q'[c])
         /\ Downward(q[c]) /\ Downward(ops) => Downward(q'[c])
         /\ Legal(xen', q'[c])
         /\ After(xen', q'[c], Len(q'[c])) = After(After(xen, q[c], Len(q[c])), ops, Len(ops))
         /\ \/ /\ q'[c] = q[c] \o ops /\ cb'[c] = cb[c] \o calls
               /\ pl' = locks /\ cur3' = cur3
            \/ /\ \A i \in 1 .. Len(q'[c]) : \E j \in 1 .. Len(ops) : q'[c][i] = ops[j]
               /\ cb'[c] = calls /\ pl' = Unlocked(locks, cb[c]) /\ cur3' = CurrentCr3(c, cb[c])
         /\ \A d \in Cpus \ {c} : q'[d] = q[d] /\ cb'[d] = cb[d]
         /\ DOMAIN q' = Cpus /\ DOMAIN cb' = Cpus
<1> DEFINE all == Cat(q[c], ops)
           l == Len(all)
           done == l - Kept(all)
           sent == FirstN(all, done)
           left == Back(all, done)
           z == After(xen, all, done)
<1>0. l = Len(all) /\ all = q[c] \o ops
  BY DEF Cat
<1>1. /\ xen' = ExecAll(xen, sent) /\ q' = [q EXCEPT ![c] = left]
      /\ pl' = IF done > 0 THEN Unlocked(locks, cb[c]) ELSE locks
      /\ cur3' = IF done > 0 THEN CurrentCr3(c, cb[c]) ELSE cur3
      /\ cb' = [cb EXCEPT ![c] = (IF done > 0 THEN <<>> ELSE @) \o calls]
  BY DEF Enqueue, Cat, FirstN, Back
<1>2. /\ all \in Seq(PageOps) /\ l = Len(q[c]) + Len(ops) /\ Legal(xen, all)
      /\ \A i \in 1 .. Len(ops) : all[Len(q[c]) + i] = ops[i]
      /\ Upward(all) \/ Downward(all)
      /\ Upward(q[c]) /\ Upward(ops) => Upward(all)
      /\ Downward(q[c]) /\ Downward(ops) => Downward(all)
      /\ After(xen, all, l) = After(After(xen, q[c], Len(q[c])), ops, Len(ops))
  BY Joined
<1>3. /\ Kept(all) \in 0 .. l /\ Kept(all) <= MCBatch
      /\ l - Kept(all) > 0 => l - Kept(all) >= MCBatch
  BY <1>0, <1>2, KeptFacts
<1>4. l \in Nat /\ Len(q[c]) \in Nat /\ Len(ops) \in Nat /\ MCBatch \in Nat
  BY <1>0, <1>2
<1>5. done \in 0 .. l /\ l - done <= MCBatch /\ (done > 0 => done >= MCBatch)
  BY <1>3, <1>4
<1>6. calls = <<>> \o calls
  OBVIOUS
<1> HIDE DEF all, l, done
<1>8. /\ left \in Seq(PageOps) /\ Len(left) = l - done
      /\ \A i \in 1 .. l - done : left[i] = all[done + i]
      /\ all = Cat(sent, left) /\ SameKind(sent, left)
      /\ Upward(all) => Upward(left)
      /\ Downward(all) => Downward(left)
  <2>1. done \in 0 .. Len(all) /\ l = Len(all)
    BY <1>0, <1>5
  <2>2. /\ left \in Seq(PageOps) /\ Len(left) = Len(all) - done /\ sent \in Seq(PageOps)
        /\ \A i \in 1 .. Len(all) - done : left[i] = all[done + i]
        /\ all = Cat(sent, left) /\ SameKind(sent, left)
    BY <1>2, <2>1, Cut
  <2>3. (Upward(Cat(sent, left)) => Upward(left)) /\ (Downward(Cat(sent, left)) => Downward(left))
    BY <2>2, KindCat DEF Cat
  <2> QED
    BY <2>1, <2>2, <2>3
<1>9. /\ ExecAll(xen, sent) = z /\ z \in XenStates /\ Legal(z, left)
      /\ After(z, left, Len(left)) = After(xen, all, l)
  <2>1. done \in 0 .. Len(all) /\ l = Len(all)
    BY <1>0, <1>5
  <2> QED
    BY <1>2, <2>1, SentPart
<1>10. z.tree = xen.tree /\ z.refused = xen.refused /\ z.base = xen.base /\ z.ubase = xen.ubase
  <2>1. done \in 0 .. Len(all)
    BY <1>0, <1>5
  <2> QED
    BY <1>2, <2>1, AfterFields
<1>11. q'[c] = left /\ (\A d \in Cpus \ {c} : q'[d] = q[d] /\ cb'[d] = cb[d]) /\ DOMAIN q' = Cpus /\ DOMAIN cb' = Cpus
  BY <1>1
<1>a. /\ xen' \in XenStates /\ xen'.tree = xen.tree /\ xen'.refused = xen.refused
      /\ xen'.base = xen.base /\ xen'.ubase = xen.ubase /\ Legal(xen', q'[c])
      /\ After(xen', q'[c], Len(q'[c])) = After(After(xen, q[c], Len(q[c])), ops, Len(ops))
  BY <1>1, <1>2, <1>9, <1>10, <1>11
<1>b. /\ q'[c] \in Seq(PageOps) /\ Len(q'[c]) <= MCBatch
      /\ Upward(q[c]) /\ Upward(ops) => Upward(q'[c])
      /\ Downward(q[c]) /\ Downward(ops) => Downward(q'[c])
  BY <1>2, <1>5, <1>8, <1>11
<1>12. CASE done > 0
  <2>1. ASSUME NEW i \in 1 .. Len(left) PROVE \E j \in 1 .. Len(ops) : left[i] = ops[j]
    <3> DEFINE j == (done + i) - Len(q[c])
    <3>1. j \in 1 .. Len(ops) /\ Len(q[c]) + j = done + i
      BY <1>2, <1>4, <1>5, <1>8, <1>12
    <3>2. left[i] = ops[j]
      BY <1>2, <1>8, <3>1
    <3> QED
      BY <3>1, <3>2
  <2>2. cb'[c] = calls /\ pl' = Unlocked(locks, cb[c]) /\ cur3' = CurrentCr3(c, cb[c])
    BY <1>1, <1>6, <1>12
  <2> QED
    BY <1>a, <1>b, <1>11, <2>1, <2>2
<1>13. CASE ~(done > 0)
  <2>1. done = 0
    BY <1>5, <1>13
  <2>2. left = all
    <3>1. Len(left) = Len(all) /\ \A i \in 1 .. Len(all) : left[i] = all[i]
      BY <1>0, <1>2, <1>4, <1>8, <2>1
    <3> QED
      BY <1>2, <1>8, <3>1, SeqEqual
  <2>3. cb'[c] = cb[c] \o calls /\ pl' = locks /\ cur3' = cur3
    BY <1>1, <1>13
  <2> QED
    BY <1>0, <1>a, <1>b, <1>11, <2>2, <2>3
<1> QED
  BY <1>12, <1>13

(* The same with a flush at the end. *)
LEMMA FlushPages ==
  ASSUME xen \in XenStates, DOMAIN q = Cpus, DOMAIN cb = Cpus, NEW c \in Cpus,
         q[c] \in Seq(PageOps), NEW ops \in Seq(PageOps), SameKind(q[c], ops),
         Legal(xen, q[c]), Legal(After(xen, q[c], Len(q[c])), ops),
         NEW calls, NEW locks, FlushNow(c, ops, calls, locks)
  PROVE  /\ xen' = After(After(xen, q[c], Len(q[c])), ops, Len(ops))
         /\ xen' \in XenStates /\ xen'.tree = xen.tree /\ xen'.refused = xen.refused
         /\ xen'.base = xen.base /\ xen'.ubase = xen.ubase
<1> DEFINE s == q[c]
           all == Cat(s, ops)
           y == After(xen, s, Len(s))
           z == After(y, ops, Len(ops))
<1>0. /\ y = After(xen, s, Len(s)) /\ s \in Seq(PageOps) /\ SameKind(s, ops)
      /\ Legal(xen, s) /\ Legal(y, ops)
  OBVIOUS
<1>1. xen' = ExecAll(xen, all)
  BY DEF FlushNow, Cat
<1> HIDE DEF y, s
<1>2. /\ all \in Seq(PageOps) /\ Legal(xen, all) /\ (Upward(all) \/ Downward(all))
      /\ After(xen, all, Len(all)) = z
  BY <1>0, Joined
<1>3. Len(all) \in 0 .. Len(all)
  BY <1>2
<1> HIDE DEF all
<1>4. ExecAll(xen, all) = After(xen, all, Len(all))
  BY <1>2, Flushed
<1> QED
  BY <1>1, <1>2, <1>3, <1>4, AfterFields DEF y, s

------------------------------------------------------------------------------
(* The order of a walk *)

Once(s) == \A i, j \in 1 .. Len(s) : s[i] = s[j] => i = j

(* The elements of a sequence. *)
LEMMA RangeSeq ==
  ASSUME NEW T, NEW s \in Seq(T)
  PROVE  Range(s) = {s[i] : i \in 1 .. Len(s)} /\ Range(s) \subseteq T
<1>1. DOMAIN s = 1 .. Len(s)
  OBVIOUS
<1>2. \A i \in 1 .. Len(s) : s[i] \in T
  OBVIOUS
<1>3. Range(s) = {s[i] : i \in 1 .. Len(s)}
  BY <1>1, Zenon DEF Range
<1> QED
  BY <1>2, <1>3

(* Those of the shortest ones. *)
LEMMA RangeShort ==
  ASSUME NEW T, NEW a \in T
  PROVE  /\ <<>> \in Seq(T) /\ Once(<<>>) /\ Range(<<>>) = {}
         /\ <<a>> \in Seq(T) /\ Once(<<a>>) /\ Range(<<a>>) = {a}
<1>1. <<>> \in Seq(T) /\ <<a>> \in Seq(T) /\ Len(<<a>>) = 1 /\ <<a>>[1] = a
  OBVIOUS
<1>2. Range(<<>>) = {}
  BY DEF Range
<1>3. Range(<<a>>) = {<<a>>[i] : i \in 1 .. Len(<<a>>)}
  BY <1>1, RangeSeq, Zenon
<1>4. Range(<<a>>) = {a}
  BY <1>1, <1>3
<1> QED
  BY <1>1, <1>2, <1>4 DEF Once

(* A finite set as a sequence: each element once. *)
LEMMA SetToSeqFacts ==
  ASSUME NEW S, IsFiniteSet(S)
  PROVE  SetToSeq(S) \in Seq(S) /\ Once(SetToSeq(S)) /\ Range(SetToSeq(S)) = S
<1> DEFINE n == Cardinality(S)
           f == SetToSeq(S)
<1>1. n \in Nat /\ ExistsBijection(1 .. n, S)
  BY FS_CardinalityType
<1>2. \E g \in [1 .. n -> S] : IsInjective(g)
  BY <1>1 DEF ExistsBijection, Bijection, Injection
<1>3. f \in [1 .. n -> S] /\ IsInjective(f)
  BY <1>2 DEF SetToSeq
<1> HIDE DEF f
<1>4. f \in Seq(S) /\ Len(f) = n
  BY <1>1, <1>3
<1>5. Once(f)
  BY <1>3, <1>4 DEF Once, IsInjective
<1>6. ASSUME NEW t \in S, t \notin Range(f) PROVE FALSE
  <2>1. f \in [1 .. n -> S \ {t}]
    BY <1>3, <1>6 DEF Range
  <2>2. IsFiniteSet(S \ {t}) /\ Cardinality(S \ {t}) = n - 1
    BY FS_RemoveElement
  <2>3. IsFiniteSet(1 .. n) /\ Cardinality(1 .. n) = n
    BY <1>1, FS_Interval
  <2>4. \E x, y \in 1 .. n : x # y /\ f[x] = f[y]
    BY <1>1, <2>1, <2>2, <2>3, FS_PigeonHole
  <2> QED
    BY <1>3, <2>4 DEF IsInjective
<1>7. Range(f) \subseteq S
  BY <1>3 DEF Range
<1> QED
  BY <1>4, <1>5, <1>6, <1>7 DEF f

(* Two sequences without repetitions that have nothing in common. *)
LEMMA OnceCat ==
  ASSUME NEW T, NEW s \in Seq(T), NEW t \in Seq(T), Once(s), Once(t), Range(s) \cap Range(t) = {}
  PROVE  s \o t \in Seq(T) /\ Once(s \o t) /\ Range(s \o t) = Range(s) \cup Range(t)
<1> DEFINE u == s \o t
<1>1. /\ u \in Seq(T) /\ Len(u) = Len(s) + Len(t) /\ Len(s) \in Nat /\ Len(t) \in Nat
      /\ \A i \in 1 .. Len(s) + Len(t) : u[i] = IF i <= Len(s) THEN s[i] ELSE t[i - Len(s)]
  BY ConcatProperties
<1> HIDE DEF u
<1>2. /\ Range(s) = {s[i] : i \in 1 .. Len(s)} /\ Range(t) = {t[i] : i \in 1 .. Len(t)}
      /\ Range(u) = {u[i] : i \in 1 .. Len(u)}
  <2>1. ASSUME NEW v \in Seq(T) PROVE Range(v) = {v[i] : i \in 1 .. Len(v)}
    BY RangeSeq
  <2> QED
    BY <1>1, <2>1, Zenon
<1>3. ASSUME NEW i \in 1 .. Len(u)
      PROVE  \/ i \in 1 .. Len(s) /\ u[i] = s[i]
             \/ i - Len(s) \in 1 .. Len(t) /\ u[i] = t[i - Len(s)]
  BY <1>1
<1>4. ASSUME NEW i \in 1 .. Len(s) PROVE i \in 1 .. Len(u) /\ u[i] = s[i]
  BY <1>1
<1>5. ASSUME NEW i \in 1 .. Len(t) PROVE Len(s) + i \in 1 .. Len(u) /\ u[Len(s) + i] = t[i]
  <2>1. Len(s) + i \in 1 .. Len(s) + Len(t) /\ ~(Len(s) + i <= Len(s)) /\ (Len(s) + i) - Len(s) = i
    BY <1>1
  <2> QED
    BY <1>1, <2>1
<1>6. Range(u) = Range(s) \cup Range(t)
  <2>1. Range(u) \subseteq Range(s) \cup Range(t)
    BY <1>2, <1>3
  <2>2. Range(s) \subseteq Range(u)
    BY <1>2, <1>4
  <2>3. Range(t) \subseteq Range(u)
    BY <1>2, <1>5
  <2> QED
    BY <2>1, <2>2, <2>3
<1>7. Once(u)
  <2> SUFFICES ASSUME NEW i \in 1 .. Len(u), NEW j \in 1 .. Len(u), u[i] = u[j] PROVE i = j
    BY DEF Once
  <2>1. CASE i \in 1 .. Len(s) /\ u[i] = s[i] /\ j \in 1 .. Len(s) /\ u[j] = s[j]
    BY <2>1 DEF Once
  <2>2. CASE i - Len(s) \in 1 .. Len(t) /\ u[i] = t[i - Len(s)] /\ j - Len(s) \in 1 .. Len(t) /\ u[j] = t[j - Len(s)]
    <3>1. i - Len(s) = j - Len(s)
      BY <2>2 DEF Once
    <3> QED
      BY <1>1, <3>1
  <2>3. CASE i \in 1 .. Len(s) /\ u[i] = s[i] /\ j - Len(s) \in 1 .. Len(t) /\ u[j] = t[j - Len(s)]
    BY <1>2, <2>3
  <2>4. CASE j \in 1 .. Len(s) /\ u[j] = s[j] /\ i - Len(s) \in 1 .. Len(t) /\ u[i] = t[i - Len(s)]
    BY <1>2, <2>4
  <2> QED
    BY <1>3, <2>1, <2>2, <2>3, <2>4
<1> QED
  BY <1>1, <1>6, <1>7 DEF u

(* A walk sees the tree's pages and the pgd, each once. *)
LEMMA WalkFacts ==
  ASSUME NEW tree \in SUBSET Inner
  PROVE  /\ WalkOrder(tree) \in Seq(Tables) /\ Once(WalkOrder(tree))
         /\ Range(WalkOrder(tree)) = {"pgd"} \cup tree
<1> DEFINE a == IfIn("pud", tree)
           b == IfIn("pmd", tree)
           d == SetToSeq(tree \cap Ptes)
           e == <<"pgd">>
<1>1. IsFiniteSet(tree \cap Ptes)
  BY FS_Subset
<1>2. d \in Seq(Tables) /\ Once(d) /\ Range(d) = tree \cap Ptes
  <2>1. d \in Seq(tree \cap Ptes) /\ Once(d) /\ Range(d) = tree \cap Ptes
    BY <1>1, SetToSeqFacts
  <2> HIDE DEF d
  <2>2. tree \cap Ptes \subseteq Tables
    BY DEF Tables, Inner
  <2> QED
    BY <2>1, <2>2
<1>3. a \in Seq(Tables) /\ Once(a) /\ Range(a) = tree \cap {"pud"}
  <2>1. "pud" \in Tables
    BY DEF Tables, Inner
  <2>2. CASE "pud" \in tree
    BY <2>1, <2>2, RangeShort DEF IfIn
  <2>3. CASE "pud" \notin tree
    BY <2>1, <2>3, RangeShort DEF IfIn
  <2> QED
    BY <2>2, <2>3
<1>4. b \in Seq(Tables) /\ Once(b) /\ Range(b) = tree \cap {"pmd"}
  <2>1. "pmd" \in Tables
    BY DEF Tables, Inner
  <2>2. CASE "pmd" \in tree
    BY <2>1, <2>2, RangeShort DEF IfIn
  <2>3. CASE "pmd" \notin tree
    BY <2>1, <2>3, RangeShort DEF IfIn
  <2> QED
    BY <2>2, <2>3
<1>5. e \in Seq(Tables) /\ Once(e) /\ Range(e) = {"pgd"}
  BY DEF Once, Range, Tables
<1> HIDE DEF a, b, d, e
<1>6. a \o b \in Seq(Tables) /\ Once(a \o b) /\ Range(a \o b) = tree \cap {"pud", "pmd"}
  BY <1>3, <1>4, OnceCat
<1> DEFINE ab == a \o b
<1> HIDE DEF ab
<1>7. ab \o d \in Seq(Tables) /\ Once(ab \o d) /\ Range(ab \o d) = tree
  <2>1. ab \in Seq(Tables) /\ Once(ab) /\ Range(ab) = tree \cap {"pud", "pmd"}
    BY <1>6 DEF ab
  <2>2. Range(ab) \cap Range(d) = {}
    BY <1>2, <2>1
  <2>3. ab \o d \in Seq(Tables) /\ Once(ab \o d) /\ Range(ab \o d) = Range(ab) \cup Range(d)
    BY <1>2, <2>1, <2>2, OnceCat
  <2> QED
    BY <1>2, <2>1, <2>3 DEF Inner
<1> DEFINE abd == ab \o d
<1> HIDE DEF abd
<1>8. abd \o e \in Seq(Tables) /\ Once(abd \o e) /\ Range(abd \o e) = {"pgd"} \cup tree
  <2>1. abd \in Seq(Tables) /\ Once(abd) /\ Range(abd) = tree
    BY <1>7 DEF abd
  <2>2. Range(abd) \cap Range(e) = {}
    BY <1>5, <2>1 DEF Inner
  <2>3. abd \o e \in Seq(Tables) /\ Once(abd \o e) /\ Range(abd \o e) = Range(abd) \cup Range(e)
    BY <1>5, <2>1, <2>2, OnceCat
  <2> QED
    BY <1>5, <2>1, <2>3
<1> QED
  BY <1>8 DEF WalkOrder, a, b, d, e, ab, abd

(* The page a walk is at, and the ones it has left. *)
LEMMA TailFacts ==
  ASSUME NEW T, NEW s \in Seq(T), s # <<>>, Once(s)
  PROVE  /\ Head(s) \in T /\ Tail(s) \in Seq(T) /\ Once(Tail(s))
         /\ Range(s) = {Head(s)} \cup Range(Tail(s)) /\ Head(s) \notin Range(Tail(s))
<1> DEFINE l == Len(s)
           t == Tail(s)
<1>1. /\ l \in Nat \ {0} /\ t \in Seq(T) /\ Len(t) = l - 1 /\ Head(s) = s[1] /\ Head(s) \in T
      /\ \A i \in 1 .. l - 1 : t[i] = s[i + 1]
  OBVIOUS
<1>2. Range(s) = {s[i] : i \in 1 .. l} /\ Range(t) = {t[i] : i \in 1 .. l - 1}
  <2>1. Range(s) = {s[i] : i \in 1 .. l}
    BY RangeSeq
  <2> HIDE DEF l, t
  <2>2. Range(t) = {t[i] : i \in 1 .. Len(t)}
    BY <1>1, RangeSeq
  <2> QED
    BY <1>1, <2>1, <2>2
<1>3. \A i, j \in 1 .. l : s[i] = s[j] => i = j
  BY DEF Once
<1> HIDE DEF l, t
<1>4. Once(t)
  <2> SUFFICES ASSUME NEW i \in 1 .. l - 1, NEW j \in 1 .. l - 1, t[i] = t[j] PROVE i = j
    BY <1>1 DEF Once
  <2>1. i + 1 \in 1 .. l /\ j + 1 \in 1 .. l /\ s[i + 1] = s[j + 1]
    BY <1>1
  <2>2. i + 1 = j + 1
    BY <1>3, <2>1
  <2> QED
    BY <2>2
<1>5. s[1] \notin Range(t)
  <2> SUFFICES ASSUME NEW i \in 1 .. l - 1, t[i] = s[1] PROVE FALSE
    BY <1>2
  <2>1. i + 1 \in 1 .. l /\ 1 \in 1 .. l /\ s[i + 1] = s[1]
    BY <1>1
  <2>2. i + 1 = 1
    BY <1>3, <2>1
  <2> QED
    BY <2>2
<1>6. ASSUME NEW i \in 1 .. l PROVE s[i] \in {s[1]} \cup Range(t)
  <2>1. CASE i = 1
    BY <2>1
  <2>2. CASE i # 1
    <3>1. i - 1 \in 1 .. l - 1 /\ (i - 1) + 1 = i
      BY <1>1, <2>2
    <3>2. t[i - 1] = s[i]
      BY <1>1, <3>1
    <3> QED
      BY <1>2, <3>1, <3>2
  <2> QED
    BY <2>1, <2>2
<1>7. ASSUME NEW i \in 1 .. l - 1 PROVE t[i] \in Range(s)
  <2>1. i + 1 \in 1 .. l
    BY <1>1
  <2> QED
    BY <1>1, <1>2, <2>1
<1>8. s[1] \in Range(s)
  BY <1>1, <1>2
<1>9. Range(s) = {s[1]} \cup Range(t)
  BY <1>2, <1>6, <1>7, <1>8
<1> QED
  BY <1>1, <1>4, <1>5, <1>9 DEF t

------------------------------------------------------------------------------
(* The invariant *)

(* What the invariant says of a walk: there is one walker, who holds        *)
(* page_table_lock, and no one else is at work on the tables or runs on them. *)
LEMMA WalkAlone ==
  ASSUME IInv
  PROVE  /\ \A c \in Cpus : Walk(c) => ptl = c
         /\ Walking => ptl \in Cpus /\ Walk(ptl) /\ life \in {"build", "exit"} /\ user = {}
         /\ Walking => \A d \in Cpus : /\ ~Loose(d) /\ pc[d] \notin {"vfault", "sync", "saved"}
                                       /\ cur3[d] = Swapper /\ xen.base[d] = Swapper /\ xen.ubase[d] = Swapper
<1>1. \A c \in Cpus : Walk(c) => ptl = c
  BY DEF IInv, Turns, Walk
<1>2. ASSUME NEW c \in Cpus, Walk(c)
      PROVE  /\ ptl = c /\ life \in {"build", "exit"} /\ user = {} /\ boss = c
             /\ life = "exit" => pc[c] = "unpin"
  BY <1>2 DEF IInv, Turns, Walk
<1>3. ASSUME NEW c \in Cpus, Walk(c), NEW d \in Cpus
      PROVE  /\ ~Loose(d) /\ pc[d] \notin {"vfault", "sync", "saved"}
             /\ cur3[d] = Swapper /\ xen.base[d] = Swapper /\ xen.ubase[d] = Swapper
  <2>1. cur3[d] # "pgd"
    <3>1. OnTables(d)
      BY DEF IInv
    <3> QED
      BY <1>2, <1>3, <3>1 DEF OnTables
  <2>2. cur3[d] = Swapper /\ xen.base[d] = Swapper /\ xen.ubase[d] = Swapper /\ pc[d] # "vfault"
    <3>1. OnTables(d) /\ cur3 \in [Cpus -> {Swapper, "pgd"}]
          /\ xen.base \in [Cpus -> {Swapper, "pgd"}] /\ xen.ubase \in [Cpus -> {Swapper, "upgd"}]
      BY DEF IInv, TypeOK
    <3> QED
      BY <2>1, <3>1 DEF OnTables
  <2>3. ~Loose(d)
    <3>1. Loose(d) => LooseOK(d)
      BY DEF IInv
    <3>2. pc[d] # "filled"
      BY <1>2, <1>3 DEF IInv, Turns, Walk
    <3> QED
      BY <1>2, <1>3, <3>1, <3>2 DEF Loose, LooseOK
  <2>4. pc[d] # "sync"
    BY <1>2, <1>3 DEF IInv, Turns, Walk
  <2>5. pc[d] # "saved"
    BY <1>2, <1>3 DEF IInv, Turns, Walk
  <2> QED
    BY <2>2, <2>3, <2>4, <2>5
<1> QED
  BY <1>1, <1>2, <1>3 DEF Walking

(* Outside a walk the hypervisor has what the flags say. *)
LEMMA StillFlags ==
  ASSUME IInv, ~Walking
  PROVE  xen.ro = flag /\ xen.pin = flag \cap (Ptes \cup {"upgd", "pgd"})
<1>1. xen \in XenStates /\ Flags /\ Rest = <<>>
  BY DEF IInv, Locals, Rest
<1>2. After(xen, <<>>, Len(<<>>)) = xen
  BY <1>1, EmptyBatch
<1> QED
  BY <1>1, <1>2 DEF Flags

(* Steps that change neither the hypervisor's state nor the flags nor the walk. *)
LEMMA FlagsSame ==
  ASSUME Flags, xen' = xen, flag' = flag, Walking' <=> Walking, Rest' = Rest
  PROVE  Flags'
  BY DEF Flags

(* A step that leaves PagePinned, the tree and the walk alone keeps Tagged. *)
LEMMA TaggedSame ==
  ASSUME Tagged, flag' = flag, xen'.tree = xen.tree, todo' = todo, Walking' <=> Walking,
         \A d \in Cpus : /\ Loose(d)' <=> Loose(d)
                         /\ Loose(d) => tgt'[d] = tgt[d]
                         /\ pc'[d] = "pin" <=> pc[d] = "pin"
                         /\ pc'[d] = "unpin" <=> pc[d] = "unpin"
  PROVE  Tagged'
<1> DEFINE L == {tgt[c] : c \in {c \in Cpus : Loose(c)}}
<1>1. {c \in Cpus : Loose(c)}' = {c \in Cpus : Loose(c)}
  OBVIOUS
<1>2. L' = L
  BY <1>1
<1> HIDE DEF L
<1>3. ~Walking => flag = {} \/ flag = {"pgd", "upgd"} \cup xen.tree \cup L
  BY DEF Tagged, L
<1>4. ~Walking' => flag' = {} \/ flag' = {"pgd", "upgd"} \cup xen'.tree \cup L'
  BY <1>2, <1>3
<1> QED
  BY <1>4 DEF Tagged, L


(* Sequences of operations of one kind, in both readings. *)
LEMMA SeqOfKind ==
  ASSUME NEW K \in SUBSET {"ro", "rw", "pin", "unpin"}, NEW s
  PROVE  s \in Seq([op : K, p : Tables])
           <=> s \in Seq(PageOps) /\ \A i \in 1 .. Len(s) : s[i].op \in K
<1> DEFINE R == [op : K, p : Tables]
<1>1. \A o : o \in R <=> o \in PageOps /\ o.op \in K
  BY DEF PageOps
<1> HIDE DEF R
<1>2. ASSUME s \in Seq(R)
      PROVE  s \in Seq(PageOps) /\ \A i \in 1 .. Len(s) : s[i].op \in K
  <2>1. \A i \in 1 .. Len(s) : s[i] \in R
    BY <1>2
  <2>2. \A i \in 1 .. Len(s) : s[i] \in PageOps /\ s[i].op \in K
    BY <1>1, <2>1
  <2>3. s \in [1 .. Len(s) -> PageOps] /\ Len(s) \in Nat
    BY <1>2, <2>2
  <2>4. s \in Seq(PageOps)
    BY <2>3, SeqDef
  <2> QED
    BY <2>2, <2>4
<1>3. ASSUME s \in Seq(PageOps), \A i \in 1 .. Len(s) : s[i].op \in K
      PROVE  s \in Seq(R)
  <2>1. \A i \in 1 .. Len(s) : s[i] \in PageOps
    BY <1>3
  <2>2. \A i \in 1 .. Len(s) : s[i] \in R
    BY <1>1, <1>3, <2>1
  <2>3. s \in [1 .. Len(s) -> R] /\ Len(s) \in Nat
    BY <1>3, <2>2
  <2> QED
    BY <2>3, SeqDef
<1> QED
  BY <1>2, <1>3 DEF R

(* The batches of a pinning walk as a set of sequences ... *)
LEMMA UpwardSeq ==
  ASSUME NEW s
  PROVE  s \in Seq([op : {"ro", "pin"}, p : Tables]) <=> s \in Seq(PageOps) /\ Upward(s)
  BY SeqOfKind DEF Upward

(* ... and those of an unpinning walk. *)
LEMMA DownwardSeq ==
  ASSUME NEW s
  PROVE  s \in Seq([op : {"rw", "unpin"}, p : Tables]) <=> s \in Seq(PageOps) /\ Downward(s)
  BY SeqOfKind DEF Downward

(* Of a walk, what is queued: page operations of one kind. *)
LEMMA RestKind ==
  ASSUME IInv, NEW c \in Cpus, Walk(c)
  PROVE  /\ Walking /\ ptl = c /\ Rest = q[c] /\ q[c] \in Seq(PageOps)
         /\ pc[c] = "pin" => Upward(q[c])
         /\ pc[c] = "unpin" => Downward(q[c])
<1>1. Walking /\ ptl = c /\ Rest = q[c]
  BY WalkAlone DEF Walking, Rest
<1>2. CASE pc[c] = "pin"
  <2> DEFINE s == q[c]
  <2>1. s \in Seq([op : {"ro", "pin"}, p : Tables])
    BY <1>2 DEF IInv, Queued
  <2> HIDE DEF s
  <2>2. s \in Seq(PageOps) /\ Upward(s)
    BY <2>1, UpwardSeq
  <2> QED
    BY <1>1, <1>2, <2>2 DEF s
<1>3. CASE pc[c] = "unpin"
  <2> DEFINE s == q[c]
  <2>1. s \in Seq([op : {"rw", "unpin"}, p : Tables])
    BY <1>3 DEF IInv, Queued
  <2> HIDE DEF s
  <2>2. s \in Seq(PageOps) /\ Downward(s)
    BY <2>1, DownwardSeq
  <2> QED
    BY <1>1, <1>3, <2>2 DEF s
<1> QED
  BY <1>2, <1>3 DEF Walk

(* A pte page whose lock is held by one who writes an entry is pinned if it *)
(* is read-only, even while a walk's batch is on its way.                   *)
LEMMA PteWriter ==
  ASSUME IInv, NEW c \in Cpus, AtPte(c)
  PROVE  tgt[c] \in xen.tree /\ (tgt[c] \in xen.ro => tgt[c] \in xen.pin)
<1> DEFINE p == tgt[c]
<1>1. p \in Ptes /\ p \in Tables
  BY DEF IInv, Locals
<1>2. pl[p] = c
  BY <1>1 DEF IInv, Locks
<1>3. p \in xen.tree
  BY <1>1, <1>2 DEF IInv, Locks
<1>4. CASE ~Walking
  BY <1>1, <1>3, <1>4, StillFlags
<1>5. CASE Walking
  <2>1. PICK w \in Cpus : Walk(w)
    BY <1>5 DEF Walking
  <2>2. w # c
    BY <2>1 DEF Walk, AtPte
  <2> DEFINE s == q[w]
             n == Len(s)
             y == After(xen, s, n)
  <2>3. /\ Rest = s /\ s \in Seq(PageOps) /\ (Upward(s) \/ Downward(s))
    BY <2>1, RestKind DEF Walk
  <2>4. y.ro = flag /\ (p \in flag => p \in y.pin)
    BY <1>1, <2>3 DEF IInv, Flags
  <2>5. \A i \in 1 .. n : s[i].p # p
    <3>1. Op("unlock", p) \notin Range(cb[w])
      BY <1>1, <1>2, <2>1, <2>2 DEF IInv, Locks
    <3>2. \A i \in 1 .. n : s[i].p \in Ptes => Op("unlock", s[i].p) \in Range(cb[w])
      BY <2>1 DEF IInv, Queued
    <3> QED
      BY <1>1, <3>1, <3>2
  <2> HIDE DEF s, p
  <2>6. \A o : p \notin Named(s, n, o)
    BY <2>5 DEF Named
  <2>7. n \in 0 .. Len(s) /\ xen \in XenStates
    BY <2>3 DEF IInv, Locals
  <2>8. /\ y.ro = (xen.ro \cup Named(s, n, "ro")) \ Named(s, n, "rw")
        /\ y.pin = (xen.pin \cup Named(s, n, "pin")) \ Named(s, n, "unpin")
    BY <2>3, <2>7, AfterFields
  <2>9. p \in xen.ro => p \in xen.pin
    BY <2>4, <2>6, <2>8
  <2> QED
    BY <1>3, <2>9 DEF p
<1> QED
  BY <1>4, <1>5

(* PgdAlloc: a new mm. *)
LEMMA PgdAllocKeeps ==
  ASSUME IInv, NEW c \in Cpus, PgdAlloc(c)
  PROVE  IInv'
<1> USE DEF IInv
<1>1. TypeOK'
  BY DEF PgdAlloc, Goto, Running, mmVars, cpuVars, dropVars, TypeOK, Tables, Locals, PCs
<1>2. Locals'
  BY DEF PgdAlloc, Goto, Running, mmVars, cpuVars, dropVars, Locals, AtPte, PCs
<1>3. Turns'
  BY DEF PgdAlloc, Goto, Running, mmVars, cpuVars, dropVars, Turns, Locals, TypeOK
<1>4. Locks'
  BY DEF PgdAlloc, Goto, Running, mmVars, cpuVars, dropVars, Locks, AtPte, Walk, Locals
<1>5. (Walking' <=> Walking) /\ Rest' = Rest
  BY DEF PgdAlloc, Goto, Running, mmVars, cpuVars, dropVars, Walking, Walk, Rest, Locals, Turns
<1>6. Flags'
  BY <1>5, FlagsSame DEF PgdAlloc, Goto, Running, mmVars, cpuVars, dropVars
<1>7. Tagged'
  BY <1>5, TaggedSame DEF PgdAlloc, Goto, Running, mmVars, cpuVars, dropVars, Loose, Locals
<1>8. Staged'
  BY <1>5 DEF PgdAlloc, Goto, Running, mmVars, cpuVars, dropVars, Staged, Locals
<1>9. XenObeyed'
  BY DEF PgdAlloc, Goto, Running, mmVars, cpuVars, dropVars, XenObeyed, NoStrayStore, NeverRefused
<1>10. ASSUME NEW d \in Cpus PROVE Queued(d)'
  BY DEF PgdAlloc, Goto, Running, mmVars, cpuVars, dropVars, Queued, Walk, Locals, Turns
<1>11. ASSUME NEW d \in Cpus, Loose(d)' PROVE LooseOK(d)'
  BY <1>11 DEF PgdAlloc, Goto, Running, mmVars, cpuVars, dropVars, LooseOK, Loose, Locals, Turns
<1>12. ASSUME NEW d \in Cpus PROVE OnTables(d)'
  BY DEF PgdAlloc, Goto, Running, mmVars, cpuVars, dropVars, OnTables, Locals, TypeOK
<1> QED
  BY <1>1, <1>2, <1>3, <1>4, <1>6, <1>7, <1>8, <1>9, <1>10, <1>11, <1>12

(* PgdFree: the mm is gone. *)
LEMMA PgdFreeKeeps ==
  ASSUME IInv, PgdFree
  PROVE  IInv'
<1> USE DEF IInv
<1>1. TypeOK'
  BY DEF PgdFree, Goto, Running, mmVars, cpuVars, dropVars, TypeOK, Tables, Locals, PCs
<1>2. Locals'
  BY DEF PgdFree, Goto, Running, mmVars, cpuVars, dropVars, Locals, AtPte, PCs
<1>3. Turns'
  BY DEF PgdFree, Goto, Running, mmVars, cpuVars, dropVars, Turns, Locals, TypeOK
<1>4. Locks'
  BY DEF PgdFree, Goto, Running, mmVars, cpuVars, dropVars, Locks, AtPte, Walk, Locals
<1>5. (Walking' <=> Walking) /\ Rest' = Rest
  BY DEF PgdFree, Goto, Running, mmVars, cpuVars, dropVars, Walking, Walk, Rest, Locals, Turns
<1>6. Flags'
  BY <1>5, FlagsSame DEF PgdFree, Goto, Running, mmVars, cpuVars, dropVars
<1>7. Tagged'
  BY <1>5, TaggedSame DEF PgdFree, Goto, Running, mmVars, cpuVars, dropVars, Loose, Locals
<1>8. Staged'
  BY <1>5 DEF PgdFree, Goto, Running, mmVars, cpuVars, dropVars, Staged, Locals
<1>9. XenObeyed'
  BY DEF PgdFree, Goto, Running, mmVars, cpuVars, dropVars, XenObeyed, NoStrayStore, NeverRefused
<1>10. ASSUME NEW d \in Cpus PROVE Queued(d)'
  BY DEF PgdFree, Goto, Running, mmVars, cpuVars, dropVars, Queued, Walk, Locals, Turns
<1>11. ASSUME NEW d \in Cpus, Loose(d)' PROVE LooseOK(d)'
  BY <1>11 DEF PgdFree, Goto, Running, mmVars, cpuVars, dropVars, LooseOK, Loose, Locals, Turns
<1>12. ASSUME NEW d \in Cpus PROVE OnTables(d)'
  BY DEF PgdFree, Goto, Running, mmVars, cpuVars, dropVars, OnTables, Locals, TypeOK
<1> QED
  BY <1>1, <1>2, <1>3, <1>4, <1>6, <1>7, <1>8, <1>9, <1>10, <1>11, <1>12

(* VmallocNew: a vmalloc area of the kernel. *)
LEMMA VmallocNewKeeps ==
  ASSUME IInv, VmallocNew
  PROVE  IInv'
<1> USE DEF IInv
<1>1. TypeOK'
  BY DEF VmallocNew, Goto, Running, mmVars, cpuVars, dropVars, TypeOK, Tables, Locals, PCs
<1>2. Locals'
  BY DEF VmallocNew, Goto, Running, mmVars, cpuVars, dropVars, Locals, AtPte, PCs
<1>3. Turns'
  BY DEF VmallocNew, Goto, Running, mmVars, cpuVars, dropVars, Turns, Locals, TypeOK
<1>4. Locks'
  BY DEF VmallocNew, Goto, Running, mmVars, cpuVars, dropVars, Locks, AtPte, Walk, Locals
<1>5. (Walking' <=> Walking) /\ Rest' = Rest
  BY DEF VmallocNew, Goto, Running, mmVars, cpuVars, dropVars, Walking, Walk, Rest, Locals, Turns
<1>6. Flags'
  BY <1>5, FlagsSame DEF VmallocNew, Goto, Running, mmVars, cpuVars, dropVars
<1>7. Tagged'
  BY <1>5, TaggedSame DEF VmallocNew, Goto, Running, mmVars, cpuVars, dropVars, Loose, Locals
<1>8. Staged'
  BY <1>5 DEF VmallocNew, Goto, Running, mmVars, cpuVars, dropVars, Staged, Locals
<1>9. XenObeyed'
  BY DEF VmallocNew, Goto, Running, mmVars, cpuVars, dropVars, XenObeyed, NoStrayStore, NeverRefused
<1>10. ASSUME NEW d \in Cpus PROVE Queued(d)'
  BY DEF VmallocNew, Goto, Running, mmVars, cpuVars, dropVars, Queued, Walk, Locals, Turns
<1>11. ASSUME NEW d \in Cpus, Loose(d)' PROVE LooseOK(d)'
  BY <1>11 DEF VmallocNew, Goto, Running, mmVars, cpuVars, dropVars, LooseOK, Loose, Locals, Turns
<1>12. ASSUME NEW d \in Cpus PROVE OnTables(d)'
  BY DEF VmallocNew, Goto, Running, mmVars, cpuVars, dropVars, OnTables, Locals, TypeOK
<1> QED
  BY <1>1, <1>2, <1>3, <1>4, <1>6, <1>7, <1>8, <1>9, <1>10, <1>11, <1>12

(* VmallocFault: a fault copies a kernel entry. *)
LEMMA VmallocFaultKeeps ==
  ASSUME IInv, NEW c \in Cpus, VmallocFault(c)
  PROVE  IInv'
<1> USE DEF IInv
<1>1. TypeOK'
  BY DEF VmallocFault, Goto, Running, mmVars, cpuVars, dropVars, TypeOK, Tables, Locals, PCs
<1>2. Locals'
  BY DEF VmallocFault, Goto, Running, mmVars, cpuVars, dropVars, Locals, AtPte, PCs
<1>3. Turns'
  BY DEF VmallocFault, Goto, Running, mmVars, cpuVars, dropVars, Turns, Locals, TypeOK
<1>4. Locks'
  BY DEF VmallocFault, Goto, Running, mmVars, cpuVars, dropVars, Locks, AtPte, Walk, Locals
<1>5. (Walking' <=> Walking) /\ Rest' = Rest
  BY DEF VmallocFault, Goto, Running, mmVars, cpuVars, dropVars, Walking, Walk, Rest, Locals, Turns
<1>6. Flags'
  BY <1>5, FlagsSame DEF VmallocFault, Goto, Running, mmVars, cpuVars, dropVars
<1>7. Tagged'
  BY <1>5, TaggedSame DEF VmallocFault, Goto, Running, mmVars, cpuVars, dropVars, Loose, Locals
<1>8. Staged'
  BY <1>5 DEF VmallocFault, Goto, Running, mmVars, cpuVars, dropVars, Staged, Locals
<1>9. XenObeyed'
  BY DEF VmallocFault, Goto, Running, mmVars, cpuVars, dropVars, XenObeyed, NoStrayStore, NeverRefused
<1>10. ASSUME NEW d \in Cpus PROVE Queued(d)'
  BY DEF VmallocFault, Goto, Running, mmVars, cpuVars, dropVars, Queued, Walk, Locals, Turns
<1>11. ASSUME NEW d \in Cpus, Loose(d)' PROVE LooseOK(d)'
  BY <1>11 DEF VmallocFault, Goto, Running, mmVars, cpuVars, dropVars, LooseOK, Loose, Locals, Turns
<1>12. ASSUME NEW d \in Cpus PROVE OnTables(d)'
  BY DEF VmallocFault, Goto, Running, mmVars, cpuVars, dropVars, OnTables, Locals, TypeOK
<1> QED
  BY <1>1, <1>2, <1>3, <1>4, <1>6, <1>7, <1>8, <1>9, <1>10, <1>11, <1>12

(* SyncAll: vmalloc_sync_all. *)
LEMMA SyncAllKeeps ==
  ASSUME IInv, NEW c \in Cpus, SyncAll(c)
  PROVE  IInv'
<1> USE DEF IInv
<1>1. TypeOK'
  BY DEF SyncAll, SyncLock, Goto, Running, mmVars, cpuVars, dropVars, TypeOK, Tables, Locals, PCs
<1>2. Locals'
  BY DEF SyncAll, SyncLock, Goto, Running, mmVars, cpuVars, dropVars, Locals, AtPte, PCs
<1>3. Turns'
  BY DEF SyncAll, SyncLock, Goto, Running, mmVars, cpuVars, dropVars, Turns, Locals, TypeOK
<1>4. Locks'
  BY DEF SyncAll, SyncLock, Goto, Running, mmVars, cpuVars, dropVars, Locks, AtPte, Walk, Locals
<1>5. (Walking' <=> Walking) /\ Rest' = Rest
  BY DEF SyncAll, SyncLock, Goto, Running, mmVars, cpuVars, dropVars, Walking, Walk, Rest, Locals, Turns
<1>6. Flags'
  BY <1>5, FlagsSame DEF SyncAll, Goto, Running, mmVars, cpuVars, dropVars
<1>7. Tagged'
  BY <1>5, TaggedSame DEF SyncAll, Goto, Running, mmVars, cpuVars, dropVars, Loose, Locals
<1>8. Staged'
  BY <1>5 DEF SyncAll, Goto, Running, mmVars, cpuVars, dropVars, Staged, Locals
<1>9. XenObeyed'
  BY DEF SyncAll, SyncLock, Goto, Running, mmVars, cpuVars, dropVars, XenObeyed, NoStrayStore, NeverRefused
<1>10. ASSUME NEW d \in Cpus PROVE Queued(d)'
  BY DEF SyncAll, SyncLock, Goto, Running, mmVars, cpuVars, dropVars, Queued, Walk, Locals, Turns
<1>11. ASSUME NEW d \in Cpus, Loose(d)' PROVE LooseOK(d)'
  BY <1>11 DEF SyncAll, Goto, Running, mmVars, cpuVars, dropVars, LooseOK, Loose, Locals, Turns
<1>12. ASSUME NEW d \in Cpus PROVE OnTables(d)'
  BY DEF SyncAll, SyncLock, Goto, Running, mmVars, cpuVars, dropVars, OnTables, Locals, TypeOK
<1> QED
  BY <1>1, <1>2, <1>3, <1>4, <1>6, <1>7, <1>8, <1>9, <1>10, <1>11, <1>12

(* SwitchLazy: a switch to a kernel thread. *)
LEMMA SwitchLazyKeeps ==
  ASSUME IInv, NEW c \in Cpus, SwitchLazy(c)
  PROVE  IInv'
<1> USE DEF IInv
<1>1. TypeOK'
  BY DEF SwitchLazy, Goto, Running, mmVars, cpuVars, dropVars, TypeOK, Tables, Locals, PCs
<1>2. Locals'
  BY DEF SwitchLazy, Goto, Running, mmVars, cpuVars, dropVars, Locals, AtPte, PCs
<1>3. Turns'
  BY DEF SwitchLazy, Goto, Running, mmVars, cpuVars, dropVars, Turns, Locals, TypeOK
<1>4. Locks'
  BY DEF SwitchLazy, Goto, Running, mmVars, cpuVars, dropVars, Locks, AtPte, Walk, Locals
<1>5. (Walking' <=> Walking) /\ Rest' = Rest
  BY DEF SwitchLazy, Goto, Running, mmVars, cpuVars, dropVars, Walking, Walk, Rest, Locals, Turns
<1>6. Flags'
  BY <1>5, FlagsSame DEF SwitchLazy, Goto, Running, mmVars, cpuVars, dropVars
<1>7. Tagged'
  BY <1>5, TaggedSame DEF SwitchLazy, Goto, Running, mmVars, cpuVars, dropVars, Loose, Locals
<1>8. Staged'
  BY <1>5 DEF SwitchLazy, Goto, Running, mmVars, cpuVars, dropVars, Staged, Locals
<1>9. XenObeyed'
  BY DEF SwitchLazy, Goto, Running, mmVars, cpuVars, dropVars, XenObeyed, NoStrayStore, NeverRefused
<1>10. ASSUME NEW d \in Cpus PROVE Queued(d)'
  BY DEF SwitchLazy, Goto, Running, mmVars, cpuVars, dropVars, Queued, Walk, Locals, Turns
<1>11. ASSUME NEW d \in Cpus, Loose(d)' PROVE LooseOK(d)'
  BY <1>11 DEF SwitchLazy, Goto, Running, mmVars, cpuVars, dropVars, LooseOK, Loose, Locals, Turns
<1>12. ASSUME NEW d \in Cpus PROVE OnTables(d)'
  BY DEF SwitchLazy, Goto, Running, mmVars, cpuVars, dropVars, OnTables, Locals, TypeOK
<1> QED
  BY <1>1, <1>2, <1>3, <1>4, <1>6, <1>7, <1>8, <1>9, <1>10, <1>11, <1>12

(* AddStale: CPUs with a stale cr3 join the call. *)
LEMMA AddStaleKeeps ==
  ASSUME IInv, NEW c \in Cpus, AddStale(c)
  PROVE  IInv'
<1> USE DEF IInv
<1>1. TypeOK'
  BY DEF AddStale, StaleCpus, Goto, Running, mmVars, cpuVars, dropVars, TypeOK, Tables, Locals, PCs
<1>2. Locals'
  BY DEF AddStale, StaleCpus, Goto, Running, mmVars, cpuVars, dropVars, Locals, AtPte, PCs
<1>3. Turns'
  BY DEF AddStale, StaleCpus, Goto, Running, mmVars, cpuVars, dropVars, Turns, Locals, TypeOK
<1>4. Locks'
  BY DEF AddStale, StaleCpus, Goto, Running, mmVars, cpuVars, dropVars, Locks, AtPte, Walk, Locals
<1>5. (Walking' <=> Walking) /\ Rest' = Rest
  BY DEF AddStale, StaleCpus, Goto, Running, mmVars, cpuVars, dropVars, Walking, Walk, Rest, Locals, Turns
<1>6. Flags'
  BY <1>5, FlagsSame DEF AddStale, StaleCpus, Goto, Running, mmVars, cpuVars, dropVars
<1>7. Tagged'
  BY <1>5, TaggedSame DEF AddStale, StaleCpus, Goto, Running, mmVars, cpuVars, dropVars, Loose, Locals
<1>8. Staged'
  BY <1>5 DEF AddStale, StaleCpus, Goto, Running, mmVars, cpuVars, dropVars, Staged, Locals
<1>9. XenObeyed'
  BY DEF AddStale, StaleCpus, Goto, Running, mmVars, cpuVars, dropVars, XenObeyed, NoStrayStore, NeverRefused
<1>10. ASSUME NEW d \in Cpus PROVE Queued(d)'
  BY DEF AddStale, StaleCpus, Goto, Running, mmVars, cpuVars, dropVars, Queued, Walk, Locals, Turns
<1>11. ASSUME NEW d \in Cpus, Loose(d)' PROVE LooseOK(d)'
  BY <1>11 DEF AddStale, StaleCpus, Goto, Running, mmVars, cpuVars, dropVars, LooseOK, Loose, Locals, Turns
<1>12. ASSUME NEW d \in Cpus PROVE OnTables(d)'
  BY DEF AddStale, StaleCpus, Goto, Running, mmVars, cpuVars, dropVars, OnTables, Turns, Locals, TypeOK
<1> QED
  BY <1>1, <1>2, <1>3, <1>4, <1>6, <1>7, <1>8, <1>9, <1>10, <1>11, <1>12

(* ExitStart: exit_mmap begins. *)
LEMMA ExitStartKeeps ==
  ASSUME IInv, NEW c \in Cpus, ExitStart(c)
  PROVE  IInv'
<1> USE DEF IInv
<1>1. TypeOK'
  BY DEF ExitStart, Goto, Running, mmVars, cpuVars, dropVars, TypeOK, Tables, Locals, PCs
<1>2. Locals'
  BY DEF ExitStart, Goto, Running, mmVars, cpuVars, dropVars, Locals, AtPte, PCs
<1>3. Turns'
  BY DEF ExitStart, Goto, Running, mmVars, cpuVars, dropVars, Turns, Locals, TypeOK
<1>4. Locks'
  BY DEF ExitStart, Goto, Running, mmVars, cpuVars, dropVars, Locks, AtPte, Walk, Locals
<1>5. (Walking' <=> Walking) /\ Rest' = Rest
  BY DEF ExitStart, Goto, Running, mmVars, cpuVars, dropVars, Walking, Walk, Rest, Locals, Turns
<1>6. Flags'
  BY <1>5, FlagsSame DEF ExitStart, Goto, Running, mmVars, cpuVars, dropVars
<1>7. Tagged'
  BY <1>5, TaggedSame DEF ExitStart, Goto, Running, mmVars, cpuVars, dropVars, Loose, Locals
<1>8. Staged'
  BY <1>5 DEF ExitStart, Goto, Running, mmVars, cpuVars, dropVars, Staged, Locals
<1>9. XenObeyed'
  BY DEF ExitStart, Goto, Running, mmVars, cpuVars, dropVars, XenObeyed, NoStrayStore, NeverRefused
<1>10. ASSUME NEW d \in Cpus PROVE Queued(d)'
  BY DEF ExitStart, Goto, Running, mmVars, cpuVars, dropVars, Queued, Walk, Locals, Turns
<1>11. ASSUME NEW d \in Cpus, Loose(d)' PROVE LooseOK(d)'
  BY <1>11 DEF ExitStart, Goto, Running, mmVars, cpuVars, dropVars, LooseOK, Loose, Locals, Turns
<1>12. ASSUME NEW d \in Cpus PROVE OnTables(d)'
  BY DEF ExitStart, Goto, Running, mmVars, cpuVars, dropVars, OnTables, Locals, TypeOK
<1> QED
  BY <1>1, <1>2, <1>3, <1>4, <1>6, <1>7, <1>8, <1>9, <1>10, <1>11, <1>12

(* CallOne: a CPU is asked to drop its reference. *)
LEMMA CallOneKeeps ==
  ASSUME IInv, NEW c \in Cpus, NEW e \in Cpus, CallOne(c, e)
  PROVE  IInv'
<1> USE DEF IInv
<1>1. TypeOK'
  BY DEF CallOne, StaleCpus, Goto, Running, mmVars, cpuVars, dropVars, TypeOK, Tables, Locals, PCs
<1>2. Locals'
  BY DEF CallOne, StaleCpus, Goto, Running, mmVars, cpuVars, dropVars, Locals, AtPte, PCs
<1>3. Turns'
  BY DEF CallOne, StaleCpus, Goto, Running, mmVars, cpuVars, dropVars, Turns, Locals, TypeOK
<1>4. Locks'
  BY DEF CallOne, StaleCpus, Goto, Running, mmVars, cpuVars, dropVars, Locks, AtPte, Walk, Locals
<1>5. (Walking' <=> Walking) /\ Rest' = Rest
  BY DEF CallOne, StaleCpus, Goto, Running, mmVars, cpuVars, dropVars, Walking, Walk, Rest, Locals, Turns
<1>6. Flags'
  BY <1>5, FlagsSame DEF CallOne, StaleCpus, Goto, Running, mmVars, cpuVars, dropVars
<1>7. Tagged'
  BY <1>5, TaggedSame DEF CallOne, StaleCpus, Goto, Running, mmVars, cpuVars, dropVars, Loose, Locals
<1>8. Staged'
  BY <1>5 DEF CallOne, StaleCpus, Goto, Running, mmVars, cpuVars, dropVars, Staged, Locals
<1>9. XenObeyed'
  BY DEF CallOne, StaleCpus, Goto, Running, mmVars, cpuVars, dropVars, XenObeyed, NoStrayStore, NeverRefused
<1>10. ASSUME NEW d \in Cpus PROVE Queued(d)'
  BY DEF CallOne, StaleCpus, Goto, Running, mmVars, cpuVars, dropVars, Queued, Walk, Locals, Turns
<1>11. ASSUME NEW d \in Cpus, Loose(d)' PROVE LooseOK(d)'
  BY <1>11 DEF CallOne, StaleCpus, Goto, Running, mmVars, cpuVars, dropVars, LooseOK, Loose, Locals, Turns
<1>12. ASSUME NEW d \in Cpus PROVE OnTables(d)'
  BY DEF CallOne, StaleCpus, Goto, Running, mmVars, cpuVars, dropVars, OnTables, Turns, Locals, TypeOK
<1> QED
  BY <1>1, <1>2, <1>3, <1>4, <1>6, <1>7, <1>8, <1>9, <1>10, <1>11, <1>12

(* PteLock: a pte page is locked for an update. *)
LEMMA PteLockKeeps ==
  ASSUME IInv, NEW c \in Cpus, NEW p \in Ptes, PteLock(c, p)
  PROVE  IInv'
<1> USE DEF IInv
<1>1. TypeOK'
  BY DEF PteLock, Goto, Running, mmVars, cpuVars, dropVars, TypeOK, Tables, Inner, Locals, PCs
<1>2. Locals'
  BY DEF PteLock, Goto, Running, mmVars, cpuVars, dropVars, Locals, Tables, Inner, AtPte, PCs
<1>3. Turns'
  <2>1. /\ pc[c] = "run" /\ pc'[c] \in {"direct", "batched"} /\ \A d \in Cpus \ {c} : pc'[d] = pc[d]
        /\ \A d \in Cpus : pc[d] # "saved"
        /\ UNCHANGED <<ptl, life, boss, user, active>>
    BY DEF PteLock, Goto, Running, mmVars, cpuVars, Locals
  <2> QED
    BY <2>1, SMTT(30) DEF Turns
<1>4. Locks'
  <2>1. ~AtPte(c) /\ ~Walk(c) /\ AtPte(c)' /\ ~Walk(c)' /\ tgt'[c] = p
    BY DEF PteLock, Goto, Running, AtPte, Walk, Locals
  <2>2. \A e \in Cpus \ {c} : (AtPte(e)' <=> AtPte(e)) /\ (Walk(e)' <=> Walk(e)) /\ tgt'[e] = tgt[e]
    BY DEF PteLock, Goto, AtPte, Walk, Locals
  <2>3. /\ pl \in [Ptes -> Cpus \cup {NoCpu}] /\ pl' = [pl EXCEPT ![p] = c] /\ cb' = cb /\ xen' = xen
        /\ p \in xen.tree /\ pl[p] = NoCpu
    BY DEF PteLock, TypeOK
  <2> QED
    BY <2>1, <2>2, <2>3 DEF Locks
<1>5. (Walking' <=> Walking) /\ Rest' = Rest
  BY DEF PteLock, Goto, Running, mmVars, cpuVars, dropVars, Walking, Walk, Rest, Locals, Turns
<1>6. Flags'
  BY <1>5, FlagsSame DEF PteLock, Goto, Running, mmVars, cpuVars, dropVars
<1>7. Tagged'
  BY <1>5, TaggedSame DEF PteLock, Goto, Running, mmVars, cpuVars, dropVars, Loose, Locals
<1>8. Staged'
  BY <1>5 DEF PteLock, Goto, Running, mmVars, cpuVars, dropVars, Staged, Locals
<1>9. XenObeyed'
  BY DEF PteLock, Goto, Running, mmVars, cpuVars, dropVars, XenObeyed, NoStrayStore, NeverRefused
<1>10. ASSUME NEW d \in Cpus PROVE Queued(d)'
  BY ZenonT(30) DEF PteLock, Goto, Running, mmVars, cpuVars, dropVars, Queued, Walk, Locals, Turns
<1>11. ASSUME NEW d \in Cpus, Loose(d)' PROVE LooseOK(d)'
  BY <1>11 DEF PteLock, Goto, Running, mmVars, cpuVars, dropVars, LooseOK, Loose, Locals, Turns
<1>12. ASSUME NEW d \in Cpus PROVE OnTables(d)'
  BY DEF PteLock, Goto, Running, mmVars, cpuVars, dropVars, OnTables, Locals, TypeOK
<1> QED
  BY <1>1, <1>2, <1>3, <1>4, <1>6, <1>7, <1>8, <1>9, <1>10, <1>11, <1>12

(* SetPteDirect: an entry is set at once. *)
LEMMA SetPteDirectKeeps ==
  ASSUME IInv, NEW c \in Cpus, SetPteDirect(c)
  PROVE  IInv'
<1> USE DEF IInv
<1>1. TypeOK'
  BY DEF SetPteDirect, Goto, Running, mmVars, cpuVars, dropVars, TypeOK, Tables, Inner, Locals, PCs
<1>2. Locals'
  BY DEF SetPteDirect, Goto, Running, mmVars, cpuVars, dropVars, Locals, AtPte, PCs
<1>3. Turns'
  BY DEF SetPteDirect, Goto, Running, mmVars, cpuVars, dropVars, Turns, Locals, TypeOK
<1>4. Locks'
  <2>1. AtPte(c) /\ ~Walk(c) /\ ~AtPte(c)' /\ ~Walk(c)' /\ tgt' = tgt /\ tgt[c] \in Ptes
    BY DEF SetPteDirect, Goto, AtPte, Walk, Locals
  <2>2. \A e \in Cpus \ {c} : (AtPte(e)' <=> AtPte(e)) /\ (Walk(e)' <=> Walk(e))
    BY DEF SetPteDirect, Goto, AtPte, Walk, Locals
  <2>3. /\ pl \in [Ptes -> Cpus \cup {NoCpu}] /\ pl' = [pl EXCEPT ![tgt[c]] = NoCpu] /\ cb' = cb /\ xen' = xen
    BY DEF SetPteDirect, TypeOK
  <2>4. pl[tgt[c]] = c
    BY <2>1 DEF Locks
  <2> QED
    BY <2>1, <2>2, <2>3, <2>4 DEF Locks
<1>5. (Walking' <=> Walking) /\ Rest' = Rest
  BY DEF SetPteDirect, Goto, Running, mmVars, cpuVars, dropVars, Walking, Walk, Rest, Locals, Turns
<1>6. Flags'
  BY <1>5, FlagsSame DEF SetPteDirect, Goto, Running, mmVars, cpuVars, dropVars
<1>7. Tagged'
  BY <1>5, TaggedSame DEF SetPteDirect, Goto, Running, mmVars, cpuVars, dropVars, Loose, Locals
<1>8. Staged'
  BY <1>5 DEF SetPteDirect, Goto, Running, mmVars, cpuVars, dropVars, Staged, Locals
<1>9. XenObeyed'
  <2>1. pc[c] = "direct" /\ AtPte(c) /\ ~Walk(c) /\ tgt[c] \in Ptes /\ tgt[c] \in Tables
    BY DEF SetPteDirect, AtPte, Walk, Locals
  <2>2. tgt[c] \in xen.ro => tgt[c] \in xen.pin
    BY <2>1, PteWriter
  <2>3. tgt[c] \in xen.pin => Typed(xen, tgt[c])
    BY <2>1 DEF Typed
  <2> QED
    BY <2>2, <2>3 DEF SetPteDirect, XenObeyed, NoStrayStore, NeverRefused
<1>10. ASSUME NEW d \in Cpus PROVE Queued(d)'
  BY DEF SetPteDirect, Goto, Running, mmVars, cpuVars, dropVars, Queued, Walk, Locals, Turns
<1>11. ASSUME NEW d \in Cpus, Loose(d)' PROVE LooseOK(d)'
  BY <1>11 DEF SetPteDirect, Goto, Running, mmVars, cpuVars, dropVars, LooseOK, Loose, Locals, Turns
<1>12. ASSUME NEW d \in Cpus PROVE OnTables(d)'
  BY DEF SetPteDirect, Goto, Running, mmVars, cpuVars, dropVars, OnTables, Locals, TypeOK
<1> QED
  BY <1>1, <1>2, <1>3, <1>4, <1>6, <1>7, <1>8, <1>9, <1>10, <1>11, <1>12

(* PinStart: __xen_pgd_pin begins. *)
LEMMA PinStartKeeps ==
  ASSUME IInv, NEW c \in Cpus, PinStart(c)
  PROVE  IInv'
<1> USE DEF IInv
<1>1. TypeOK'
  BY DEF PinStart, Goto, Running, mmVars, cpuVars, dropVars, TypeOK, Tables, Locals, PCs
<1>2. Locals'
  BY WalkFacts DEF PinStart, Goto, Locals, AtPte, PCs, TypeOK, dropVars, cpuVars
<1>3. Turns'
  BY DEF PinStart, Goto, Running, mmVars, cpuVars, dropVars, Turns, Locals, TypeOK
<1>0. /\ ~Walking /\ pc[c] = "run" /\ ~Walk(c) /\ flag = {} /\ q[c] = <<>> /\ cb[c] = <<>>
      /\ \A d \in Cpus : ~Walk(d)
  <2>1. ~Walking
    BY WalkAlone DEF PinStart
  <2>2. pc[c] = "run" /\ life = "build" /\ ~saved
    BY DEF PinStart, Running, Staged, TypeOK
  <2> QED
    BY <2>1, <2>2 DEF Staged, Queued, Walk, Walking
<1>4. Locks'
  <2>1. \A d \in Cpus : (AtPte(d)' <=> AtPte(d)) /\ tgt'[d] = tgt[d] /\ cb'[d] = cb[d] /\ pl' = pl /\ xen' = xen
    BY <1>0 DEF PinStart, Goto, Locals, AtPte
  <2>2. \A d \in Cpus : Walk(d)' => cb'[d] = <<>>
    BY <1>0 DEF PinStart, Goto, Locals, Walk
  <2>3. Range(<<>>) = {}
    BY DEF Range
  <2> QED
    BY <1>0, <2>1, <2>2, <2>3 DEF Locks
<1>5. Walking' /\ Rest' = <<>>
  BY <1>0 DEF PinStart, Goto, Locals, Walking, Walk, Rest
<1>6. Flags'
  <2>1. xen.ro = {} /\ xen.pin = {} /\ xen' = xen /\ flag' = {} /\ xen \in XenStates
    BY <1>0, StillFlags DEF PinStart, Locals
  <2>2. Legal(xen, <<>>) /\ After(xen, <<>>, Len(<<>>)) = xen
    BY <2>1, EmptyBatch
  <2> QED
    BY <1>5, <2>1, <2>2 DEF Flags
<1>7. Tagged'
  <2>1. xen.tree \in SUBSET Inner /\ todo' = WalkOrder(xen.tree) /\ xen' = xen /\ flag' = {}
    BY <1>0 DEF PinStart, TypeOK
  <2>2. Once(todo') /\ Range(todo') = {"pgd"} \cup xen.tree
    BY <2>1, WalkFacts
  <2>3. \A d \in Cpus : pc'[d] # "unpin"
    BY <1>0 DEF PinStart, Goto, Locals, Walk
  <2> QED
    BY <1>5, <2>1, <2>2, <2>3 DEF Tagged, Once
<1>8. Staged'
  BY <1>5 DEF PinStart, Goto, Running, mmVars, cpuVars, dropVars, Staged, Locals
<1>9. XenObeyed'
  BY DEF PinStart, Goto, Running, mmVars, cpuVars, dropVars, XenObeyed, NoStrayStore, NeverRefused
<1>10. ASSUME NEW d \in Cpus PROVE Queued(d)'
  BY DEF PinStart, Goto, Running, mmVars, cpuVars, dropVars, Queued, Walk, Locals, Turns
<1>11. ASSUME NEW d \in Cpus, Loose(d)' PROVE LooseOK(d)'
  BY <1>11 DEF PinStart, Goto, Running, mmVars, cpuVars, dropVars, LooseOK, Loose, Locals, Turns
<1>12. ASSUME NEW d \in Cpus PROVE OnTables(d)'
  BY DEF PinStart, Goto, Running, mmVars, cpuVars, dropVars, OnTables, Locals, TypeOK
<1> QED
  BY <1>1, <1>2, <1>3, <1>4, <1>6, <1>7, <1>8, <1>9, <1>10, <1>11, <1>12

(* A flush of a CPU that had nothing queued. *)
LEMMA FlushIdle ==
  ASSUME pl \in [Ptes -> Cpus \cup {NoCpu}], q \in [Cpus -> Seq(Multicalls)], cb \in [Cpus -> Seq(Callbacks)],
         NEW c \in Cpus, q[c] = <<>>, cb[c] = <<>>,
         NEW S, NEW ops \in Seq(S), FlushNow(c, ops, <<>>, pl)
  PROVE  /\ xen' = ExecAll(xen, ops) /\ pl' = pl /\ cur3' = cur3
         /\ q' = q /\ cb' = cb
<1>1. <<>> \o ops = ops /\ <<>> \o <<>> = <<>> /\ DOMAIN <<>> = {}
  OBVIOUS
<1>2. xen' = ExecAll(xen, ops)
  BY <1>1, Zenon DEF FlushNow
<1>3. pl' = Unlocked(pl, <<>>) /\ cur3' = CurrentCr3(c, <<>>)
  BY <1>1, Zenon DEF FlushNow
<1>4. Unlocked(pl, <<>>) = pl /\ CurrentCr3(c, <<>>) = cur3
  BY <1>1 DEF Unlocked, CurrentCr3
<1>5. q' = [q EXCEPT ![c] = <<>>] /\ cb' = [cb EXCEPT ![c] = <<>>]
  BY DEF FlushNow
<1>6. q' = q /\ cb' = cb
  BY <1>5
<1> QED
  BY <1>2, <1>3, <1>4, <1>6

(* Setting or clearing an entry outside a walk: no store goes astray, and   *)
(* the hypervisor takes a page into the tree that has the flag its parent has. *)
LEMMA SetEntryDoes ==
  ASSUME IInv, ~Walking, NEW c \in Cpus, q[c] = <<>>, cb[c] = <<>>,
         NEW p \in Inner, NEW o \in {"link", "unlink"}, SetEntry(c, p, o),
         o = "link" /\ Parent(p) \in flag => p \in flag
  PROVE  /\ xen' \in XenStates /\ xen'.ro = xen.ro /\ xen'.pin = xen.pin /\ xen'.refused = xen.refused
         /\ xen'.base = xen.base /\ xen'.ubase = xen.ubase
         /\ xen'.tree = IF o = "link" THEN xen.tree \cup {p} ELSE xen.tree \ {p}
         /\ oops' = oops /\ pl' = pl /\ q' = q /\ cb' = cb /\ cur3' = cur3
<1> DEFINE y == Effect(xen, Op(o, p))
<1>1. /\ xen \in XenStates /\ q \in [Cpus -> Seq(Multicalls)] /\ cb \in [Cpus -> Seq(Callbacks)]
      /\ pl \in [Ptes -> Cpus \cup {NoCpu}] /\ xen.ro = flag /\ oops \in BOOLEAN
  BY StillFlags DEF IInv, Locals, TypeOK
<1>2. "upgd" \in flag => "pgd" \in flag
  BY DEF IInv, Tagged
<1>3. xen' = y /\ oops' = oops /\ pl' = pl /\ q' = q /\ cb' = cb /\ cur3' = cur3
  <2>1. CASE Parent(p) \notin flag
    BY <1>1, <1>2, <2>1 DEF SetEntry
  <2>2. CASE Parent(p) \in flag
    <3>1. FlushNow(c, <<Op(o, p)>>, <<>>, pl) /\ oops' = oops
      BY <2>2 DEF SetEntry
    <3>2. <<Op(o, p)>> \in Seq({Op(o, p)})
      OBVIOUS
    <3>3. xen' = ExecAll(xen, <<Op(o, p)>>) /\ pl' = pl /\ q' = q /\ cb' = cb /\ cur3' = cur3
      BY <1>1, <3>1, <3>2, FlushIdle
    <3>4. ExecAll(xen, <<Op(o, p)>>) = Exec(xen, Op(o, p))
      BY ExecOne
    <3>5. Accepts(xen, Op(o, p))
      BY <1>1, <2>2 DEF Accepts, Op
    <3>6. Exec(xen, Op(o, p)) = y
      BY <3>5, ExecIs DEF Outcome
    <3> QED
      BY <3>1, <3>3, <3>4, <3>6
  <2> QED
    BY <2>1, <2>2
<1>4. /\ y \in XenStates /\ y.ro = xen.ro /\ y.pin = xen.pin /\ y.refused = xen.refused
      /\ y.base = xen.base /\ y.ubase = xen.ubase
      /\ y.tree = IF o = "link" THEN xen.tree \cup {p} ELSE xen.tree \ {p}
  BY <1>1 DEF Effect, Op, XenStates
<1> HIDE DEF y
<1> QED
  BY <1>3, <1>4

(* Outside a walk: what has the flag, with and without a page on its way   *)
(* into the tree or out of it, before a step and after it.                 *)
LEMMA NoneLoose ==
  ASSUME IInv, ~Walking, \A d \in Cpus : ~Loose(d)
  PROVE  flag = {} \/ flag = {"pgd", "upgd"} \cup xen.tree
<1>1. {d \in Cpus : Loose(d)} = {}
  OBVIOUS
<1>2. {tgt[d] : d \in {d \in Cpus : Loose(d)}} = {}
  BY <1>1
<1> QED
  BY <1>2 DEF IInv, Tagged

(* While a page is between its table and the free list no walk runs. *)
LEMMA OneLoose ==
  ASSUME IInv, NEW c \in Cpus, Loose(c)
  PROVE  ~Walking /\ (flag = {} \/ flag = {"pgd", "upgd"} \cup xen.tree \cup {tgt[c]})
<1>0. ~Walking
  BY WalkAlone
<1>1. {d \in Cpus : Loose(d)} = {c}
  BY DEF IInv, LooseOK
<1>2. {tgt[d] : d \in {d \in Cpus : Loose(d)}} = {tgt[c]}
  BY <1>1
<1> QED
  BY <1>0, <1>2 DEF IInv, Tagged

(* How a step shows Tagged when it leaves no such page behind ... *)
LEMMA NoneLooseNext ==
  ASSUME ~Walking', \A d \in Cpus : ~Loose(d)', flag' = {} \/ flag' = {"pgd", "upgd"} \cup xen'.tree
  PROVE  Tagged'
<1>1. {d \in Cpus : Loose(d)}' = {}
  OBVIOUS
<1>2. {tgt[d] : d \in {d \in Cpus : Loose(d)}}' = {}
  BY <1>1
<1>3. \A d \in Cpus : pc'[d] \notin {"pin", "unpin"}
  BY DEF Walking, Walk
<1> QED
  BY <1>2, <1>3 DEF Tagged

(* ... and when it leaves one. *)
LEMMA OneLooseNext ==
  ASSUME ~Walking', NEW c \in Cpus, \A d \in Cpus : Loose(d)' <=> d = c,
         flag' = {} \/ flag' = {"pgd", "upgd"} \cup xen'.tree \cup {tgt'[c]}
  PROVE  Tagged'
<1>1. {d \in Cpus : Loose(d)}' = {c}
  OBVIOUS
<1>2. {tgt[d] : d \in {d \in Cpus : Loose(d)}}' = {tgt'[c]}
  BY <1>1
<1>3. \A d \in Cpus : pc'[d] \notin {"pin", "unpin"}
  BY DEF Walking, Walk
<1> QED
  BY <1>2, <1>3 DEF Tagged

(* How a step outside a walk shows Flags. *)
LEMMA FlagsNext ==
  ASSUME xen' \in XenStates, ~Walking', xen'.ro = flag',
         xen'.pin = flag' \cap (Ptes \cup {"upgd", "pgd"})
  PROVE  Flags'
<1>1. Rest' = <<>>
  BY DEF Rest
<1>2. Legal(xen', <<>>) /\ After(xen', <<>>, Len(<<>>)) = xen'
  BY EmptyBatch
<1> QED
  BY <1>1, <1>2 DEF Flags

(* Populate: a table joins the tree. *)
LEMMA PopulateKeeps ==
  ASSUME IInv, NEW c \in Cpus, Populate(c)
  PROVE  IInv'
<1> USE DEF IInv
<1> DEFINE p == tgt[c]
<1>a. /\ pc[c] = "filled" /\ Loose(c) /\ LooseOK(c) /\ q[c] = <<>> /\ cb[c] = <<>> /\ p \in Inner
      /\ \A d \in Cpus : Loose(d) => d = c
  BY DEF Populate, Loose, LooseOK, Queued
<1>b. ~Walking /\ (flag = {} \/ flag = {"pgd", "upgd"} \cup xen.tree \cup {p})
  BY <1>a, OneLoose
<1>c. /\ xen' \in XenStates /\ xen'.ro = xen.ro /\ xen'.pin = xen.pin /\ xen'.refused = xen.refused
      /\ xen'.base = xen.base /\ xen'.ubase = xen.ubase /\ xen'.tree = xen.tree \cup {p}
      /\ oops' = oops /\ pl' = pl /\ q' = q /\ cb' = cb /\ cur3' = cur3
  <2>1. SetEntry(c, p, "link")
    BY DEF Populate
  <2>2. Parent(p) \in flag => p \in flag
    BY <1>b
  <2> QED
    BY <1>a, <1>b, <2>1, <2>2, SetEntryDoes
<1>d. /\ pc' = [pc EXCEPT ![c] = "run"] /\ pc \in [Cpus -> PCs] /\ ptl' = NoCpu /\ tgt' = tgt /\ flag' = flag
      /\ UNCHANGED <<life, boss, saved, todo, mask, user, active, lazy, ipi, scan, kmiss>>
  BY DEF Populate, Goto, Locals, cpuVars, dropVars
<1> HIDE DEF p
<1>e. /\ pc'[c] = "run" /\ \A d \in Cpus : d # c => pc'[d] = pc[d]
      /\ ~Walking' /\ \A d \in Cpus : ~Loose(d)'
  BY <1>a, <1>b, <1>d DEF Walking, Walk, Loose
<1>1. TypeOK'
  BY <1>a, <1>c, <1>d DEF TypeOK, XenStates
<1>2. Locals'
  BY <1>c, <1>d, <1>e DEF Locals, AtPte, PCs
<1>3. Turns'
  BY <1>a, <1>d, <1>e DEF Turns
<1>4. Locks'
  BY <1>a, <1>c, <1>d, <1>e DEF Locks, AtPte, Walk
<1>5. Flags'
  BY <1>b, <1>c, <1>d, <1>e, StillFlags, FlagsNext
<1>6. Tagged'
  BY <1>b, <1>c, <1>d, <1>e, NoneLooseNext
<1>7. Staged'
  BY <1>a, <1>b, <1>d, <1>e DEF Staged
<1>8. XenObeyed'
  BY <1>c DEF XenObeyed, NoStrayStore, NeverRefused
<1>9. ASSUME NEW d \in Cpus PROVE Queued(d)'
  BY <1>a, <1>c, <1>d, <1>e DEF Queued, Walk
<1>10. ASSUME NEW d \in Cpus PROVE ~Loose(d)'
  BY <1>e
<1>11. ASSUME NEW d \in Cpus PROVE OnTables(d)'
  BY <1>a, <1>c, <1>d, <1>e DEF OnTables
<1> QED
  BY <1>1, <1>2, <1>3, <1>4, <1>5, <1>6, <1>7, <1>8, <1>9, <1>10, <1>11

(* Joining one-element batches. *)
LEMMA Pair ==
  ASSUME NEW a, NEW b
  PROVE  <<a>> \o <<b>> = <<a, b>>
<1> DEFINE T == {a, b}
           u == <<a>> \o <<b>>
           v == <<a, b>>
<1>1. <<a>> \in Seq(T) /\ <<b>> \in Seq(T) /\ Len(<<a>>) = 1 /\ Len(<<b>>) = 1
  OBVIOUS
<1>2. u \in Seq(T) /\ Len(u) = 2 /\ u[1] = a /\ u[2] = b
  BY <1>1
<1>3. v \in Seq(T) /\ Len(v) = 2 /\ v[1] = a /\ v[2] = b
  OBVIOUS
<1> HIDE DEF u, v
<1>4. \A i \in 1 .. Len(u) : u[i] = v[i]
  BY <1>2, <1>3
<1>5. u = v
  BY <1>2, <1>3, <1>4, SeqEqual
<1> QED
  BY <1>5 DEF u, v

(* Joining one operation and two. *)
LEMMA Triple ==
  ASSUME NEW a, NEW b, NEW d
  PROVE  <<a>> \o <<b, d>> = <<a, b, d>>
<1> DEFINE T == {a, b, d}
           u == <<a>> \o <<b, d>>
           v == <<a, b, d>>
<1>1. <<a>> \in Seq(T) /\ <<b, d>> \in Seq(T) /\ Len(<<a>>) = 1 /\ Len(<<b, d>>) = 2
  OBVIOUS
<1>2. u \in Seq(T) /\ Len(u) = 3 /\ u[1] = a /\ u[2] = b /\ u[3] = d
  BY <1>1
<1>3. v \in Seq(T) /\ Len(v) = 3 /\ v[1] = a /\ v[2] = b /\ v[3] = d
  OBVIOUS
<1> HIDE DEF u, v
<1>4. \A i \in 1 .. Len(u) : u[i] = v[i]
  BY <1>2, <1>3
<1>5. u = v
  BY <1>2, <1>3, <1>4, SeqEqual
<1> QED
  BY <1>5 DEF u, v

(* What pinning or unpinning a page in a walk makes of the state. *)
PagePin(x, p) == [x EXCEPT !.ro = @ \cup {p}, !.pin = @ \cup ({p} \cap Ptes)]
PageUnpin(x, p) == [x EXCEPT !.ro = @ \ {p}, !.pin = @ \ {p}]

(* What pinning and unpinning one page leave in the hypervisor. *)
LEMMA PagedFields ==
  ASSUME NEW x \in XenStates, NEW p \in Tables
  PROVE  /\ PagePin(x, p) \in XenStates
         /\ PagePin(x, p).ro = x.ro \cup {p} /\ PagePin(x, p).pin = x.pin \cup ({p} \cap Ptes)
         /\ PagePin(x, p).tree = x.tree /\ PagePin(x, p).refused = x.refused
         /\ PagePin(x, p).base = x.base /\ PagePin(x, p).ubase = x.ubase
         /\ PageUnpin(x, p) \in XenStates
         /\ PageUnpin(x, p).ro = x.ro \ {p} /\ PageUnpin(x, p).pin = x.pin \ {p}
         /\ PageUnpin(x, p).tree = x.tree /\ PageUnpin(x, p).refused = x.refused
         /\ PageUnpin(x, p).base = x.base /\ PageUnpin(x, p).ubase = x.ubase
  BY DEF PagePin, PageUnpin, XenStates

(* The two operations of a walk on a page. *)
LEMMA PinPageDoes ==
  ASSUME NEW x \in XenStates, NEW p \in Tables, p \notin x.pin
  PROVE  /\ PinPageOps(p) \in Seq(PageOps) /\ Upward(PinPageOps(p)) /\ Legal(x, PinPageOps(p))
         /\ \A i \in 1 .. Len(PinPageOps(p)) : PinPageOps(p)[i].p = p
         /\ After(x, PinPageOps(p), Len(PinPageOps(p)))
              = PagePin(x, p)
<1> DEFINE a == Op("ro", p)
           b == Op("pin", p)
           y == Exec(x, a)
           z == PagePin(x, p)
<1>1. a \in PageOps /\ b \in PageOps /\ a.op = "ro" /\ b.op = "pin" /\ a.p = p /\ b.p = p
  BY DEF PageOps, Op
<1> HIDE DEF a, b
<1>2. Accepts(x, a)
  BY <1>1 DEF Accepts
<1>3. /\ y \in XenStates /\ y.ro = x.ro \cup {p} /\ y.pin = x.pin
      /\ y.tree = x.tree /\ y.refused = x.refused /\ y.base = x.base /\ y.ubase = x.ubase
  BY <1>1, <1>2, PageOpFields
<1>4. /\ z \in XenStates /\ z.ro = x.ro \cup {p} /\ z.pin = x.pin \cup ({p} \cap Ptes)
      /\ z.tree = x.tree /\ z.refused = x.refused /\ z.base = x.base /\ z.ubase = x.ubase
  BY PagedFields
<1> HIDE DEF z
<1>5. CASE p \in Ptes
  <2>1. PinPageOps(p) = <<a, b>>
    <3>1. <<a>> \o <<b>> = <<a, b>>
      BY Pair
    <3> QED
      BY <1>5, <3>1, Zenon DEF PinPageOps, a, b
  <2>2. Accepts(y, b)
    BY <1>1, <1>3, <1>5 DEF Accepts
  <2>3. /\ <<a, b>> \in Seq(PageOps) /\ Legal(x, <<a, b>>) /\ Len(<<a, b>>) = 2
        /\ After(x, <<a, b>>, Len(<<a, b>>)) = Exec(y, b)
    BY <1>1, <1>2, <2>2, AfterTwo
  <2>4. Upward(<<a, b>>) /\ \A i \in 1 .. Len(<<a, b>>) : <<a, b>>[i].p = p
    BY <1>1 DEF Upward
  <2>5. /\ Exec(y, b) \in XenStates /\ Exec(y, b).ro = y.ro /\ Exec(y, b).pin = y.pin \cup {p}
        /\ Exec(y, b).tree = y.tree /\ Exec(y, b).refused = y.refused
        /\ Exec(y, b).base = y.base /\ Exec(y, b).ubase = y.ubase
    <3> HIDE DEF y
    <3> QED
      BY <1>1, <1>3, <2>2, PageOpFields, ZenonT(90)
  <2>6. Exec(y, b) = z
    <3> HIDE DEF y
    <3>1. Exec(y, b).ro = z.ro /\ Exec(y, b).pin = z.pin
      BY <1>3, <1>4, <1>5, <2>5
    <3> QED
      BY <1>3, <1>4, <2>5, <3>1, SameState
  <2> QED
    BY <2>1, <2>3, <2>4, <2>6 DEF z
<1>6. CASE p \notin Ptes
  <2>1. PinPageOps(p) = <<a>>
    BY <1>6 DEF PinPageOps, a
  <2>2. /\ <<a>> \in Seq(PageOps) /\ Legal(x, <<a>>) /\ Len(<<a>>) = 1
        /\ After(x, <<a>>, Len(<<a>>)) = y
    BY <1>1, <1>2, AfterOne
  <2>3. Upward(<<a>>) /\ \A i \in 1 .. Len(<<a>>) : <<a>>[i].p = p
    BY <1>1 DEF Upward
  <2>4. y = z
    <3> HIDE DEF y
    <3>1. y.ro = z.ro /\ y.pin = z.pin
      BY <1>3, <1>4, <1>6
    <3> QED
      BY <1>3, <1>4, <3>1, SameState, ZenonT(30)
  <2> QED
    BY <2>1, <2>2, <2>3, <2>4 DEF z
<1> QED
  BY <1>5, <1>6

(* The operations of unpin_page are accepted and undo pin_page. *)
LEMMA UnpinPageDoes ==
  ASSUME NEW x \in XenStates, NEW p \in Tables \ {"upgd"}, p \in x.pin <=> p \in Ptes,
         \/ p \notin x.tree /\ p # "pgd"
         \/ "pgd" \notin x.pin /\ "upgd" \notin x.pin /\ \A c \in Cpus : x.base[c] = Swapper /\ x.ubase[c] = Swapper
  PROVE  /\ UnpinPageOps(p) \in Seq(PageOps) /\ Downward(UnpinPageOps(p)) /\ Legal(x, UnpinPageOps(p))
         /\ \A i \in 1 .. Len(UnpinPageOps(p)) : UnpinPageOps(p)[i].p = p
         /\ After(x, UnpinPageOps(p), Len(UnpinPageOps(p)))
              = PageUnpin(x, p)
<1> DEFINE a == Op("unpin", p)
           b == Op("rw", p)
           y == Exec(x, a)
           z == PageUnpin(x, p)
<1>1. a \in PageOps /\ b \in PageOps /\ a.op = "unpin" /\ b.op = "rw" /\ a.p = p /\ b.p = p
  BY DEF PageOps, Op
<1> HIDE DEF a, b
<1>4. /\ z \in XenStates /\ z.ro = x.ro \ {p} /\ z.pin = x.pin \ {p}
      /\ z.tree = x.tree /\ z.refused = x.refused /\ z.base = x.base /\ z.ubase = x.ubase
  BY PagedFields
<1> HIDE DEF z
<1>5. CASE p \in Ptes
  <2>1. UnpinPageOps(p) = <<a, b>>
    <3>1. <<a>> \o <<b>> = <<a, b>>
      BY Pair
    <3> QED
      BY <1>5, <3>1, Zenon DEF UnpinPageOps, a, b
  <2>a. Accepts(x, a)
    BY <1>1, <1>5 DEF Accepts
  <2>b. /\ y \in XenStates /\ y.ro = x.ro /\ y.pin = x.pin \ {p}
        /\ y.tree = x.tree /\ y.refused = x.refused /\ y.base = x.base /\ y.ubase = x.ubase
    BY <1>1, <2>a, PageOpFields, ZenonT(30)
  <2>2. Accepts(y, b)
    <3> HIDE DEF y
    <3>1. ~Typed(y, p)
      BY <1>5, <2>b DEF Typed, Swapper
    <3> QED
      BY <1>1, <3>1 DEF Accepts
  <2>3. /\ <<a, b>> \in Seq(PageOps) /\ Legal(x, <<a, b>>) /\ Len(<<a, b>>) = 2
        /\ After(x, <<a, b>>, Len(<<a, b>>)) = Exec(y, b)
    BY <1>1, <2>a, <2>2, AfterTwo
  <2>4. Downward(<<a, b>>) /\ \A i \in 1 .. Len(<<a, b>>) : <<a, b>>[i].p = p
    BY <1>1 DEF Downward
  <2>5. /\ Exec(y, b) \in XenStates /\ Exec(y, b).ro = y.ro \ {p} /\ Exec(y, b).pin = y.pin
        /\ Exec(y, b).tree = y.tree /\ Exec(y, b).refused = y.refused
        /\ Exec(y, b).base = y.base /\ Exec(y, b).ubase = y.ubase
    <3> HIDE DEF y
    <3>1. y \in XenStates /\ b \in PageOps /\ b.op = "rw" /\ b.p = p
      BY <1>1, <2>b
    <3> QED
      BY <2>2, <3>1, PageOpFields
  <2>6. Exec(y, b) = z
    <3> HIDE DEF y
    <3>1. Exec(y, b).ro = z.ro /\ Exec(y, b).pin = z.pin
      BY <1>4, <2>b, <2>5
    <3> QED
      BY <1>4, <2>b, <2>5, <3>1, SameState, ZenonT(30)
  <2> QED
    BY <2>1, <2>3, <2>4, <2>6 DEF z
<1>6. CASE p \notin Ptes
  <2> DEFINE w == Exec(x, b)
  <2>1. UnpinPageOps(p) = <<b>>
    BY <1>6 DEF UnpinPageOps, b
  <2>2. Accepts(x, b)
    <3>1. ~Typed(x, p)
      BY <1>6 DEF Typed, Swapper
    <3> QED
      BY <1>1, <3>1 DEF Accepts
  <2>3. /\ <<b>> \in Seq(PageOps) /\ Legal(x, <<b>>) /\ Len(<<b>>) = 1
        /\ After(x, <<b>>, Len(<<b>>)) = w
    BY <1>1, <2>2, AfterOne
  <2>4. Downward(<<b>>) /\ \A i \in 1 .. Len(<<b>>) : <<b>>[i].p = p
    BY <1>1 DEF Downward
  <2>5. /\ w \in XenStates /\ w.ro = x.ro \ {p} /\ w.pin = x.pin
        /\ w.tree = x.tree /\ w.refused = x.refused /\ w.base = x.base /\ w.ubase = x.ubase
    BY <1>1, <2>2, PageOpFields, ZenonT(30)
  <2> HIDE DEF w
  <2>6. w = z
    <3>1. w.ro = z.ro /\ w.pin = z.pin
      BY <1>4, <1>6, <2>5
    <3> QED
      BY <1>4, <2>5, <3>1, SameState, ZenonT(30)
  <2> QED
    BY <2>1, <2>3, <2>4, <2>6 DEF z
<1> QED
  BY <1>5, <1>6

(* What alloc_ptpage has the hypervisor do to a new table ... *)
LEMMA AllocDoes ==
  ASSUME IInv, ~Walking, NEW c \in Cpus, q[c] = <<>>, cb[c] = <<>>,
         NEW p \in Inner, p \notin flag, FlushNow(c, AllocOps(p), <<>>, pl)
  PROVE  /\ xen' \in XenStates /\ xen'.tree = xen.tree /\ xen'.refused = xen.refused
         /\ xen'.base = xen.base /\ xen'.ubase = xen.ubase
         /\ xen'.ro = AllocFlag(p) /\ xen'.pin = AllocFlag(p) \cap (Ptes \cup {"upgd", "pgd"})
         /\ pl' = pl /\ q' = q /\ cb' = cb /\ cur3' = cur3
<1>1. /\ xen \in XenStates /\ q \in [Cpus -> Seq(Multicalls)] /\ cb \in [Cpus -> Seq(Callbacks)]
      /\ pl \in [Ptes -> Cpus \cup {NoCpu}]
      /\ xen.ro = flag /\ xen.pin = flag \cap (Ptes \cup {"upgd", "pgd"})
  BY StillFlags DEF IInv, Locals, TypeOK
<1>2. p \in Tables /\ p \notin {"pgd", "upgd"}
  BY DEF Tables, Inner
<1>3. CASE "pgd" \in flag
  <2>1. AllocOps(p) = PinPageOps(p) /\ AllocFlag(p) = flag \cup {p}
    BY <1>3 DEF AllocOps, PinPageOps, AllocFlag
  <2>2. /\ PinPageOps(p) \in Seq(PageOps) /\ Upward(PinPageOps(p)) /\ Legal(xen, PinPageOps(p))
        /\ After(xen, PinPageOps(p), Len(PinPageOps(p))) = PagePin(xen, p)
    BY <1>1, <1>2, PinPageDoes
  <2>3. xen' = ExecAll(xen, PinPageOps(p)) /\ pl' = pl /\ q' = q /\ cb' = cb /\ cur3' = cur3
    BY <1>1, <2>1, <2>2, FlushIdle
  <2>4. xen' = PagePin(xen, p)
    BY <1>1, <2>2, <2>3, Flushed
  <2>5. /\ xen' \in XenStates /\ xen'.ro = xen.ro \cup {p} /\ xen'.pin = xen.pin \cup ({p} \cap Ptes)
        /\ xen'.tree = xen.tree /\ xen'.refused = xen.refused
        /\ xen'.base = xen.base /\ xen'.ubase = xen.ubase
    BY <1>1, <1>2, <2>4, PagedFields
  <2> QED
    BY <1>1, <1>2, <2>1, <2>3, <2>5
<1>4. CASE "pgd" \notin flag
  <2>1. AllocOps(p) = <<>> /\ AllocFlag(p) = flag
    BY <1>4 DEF AllocOps, AllocFlag
  <2>2. <<>> \in Seq(PageOps)
    OBVIOUS
  <2>3. xen' = ExecAll(xen, <<>>) /\ pl' = pl /\ q' = q /\ cb' = cb /\ cur3' = cur3
    BY <1>1, <2>1, <2>2, FlushIdle
  <2>4. xen' = xen
    BY <2>3, ExecNone
  <2> QED
    BY <1>1, <2>1, <2>3, <2>4
<1> QED
  BY <1>3, <1>4

(* ... and release_ptpage to a table that left the tree. *)
LEMMA ReleaseDoes ==
  ASSUME IInv, ~Walking, NEW c \in Cpus, q[c] = <<>>, cb[c] = <<>>,
         NEW p \in Inner \ xen.tree, FlushNow(c, ReleaseOps(p), <<>>, pl)
  PROVE  /\ xen' \in XenStates /\ xen'.tree = xen.tree /\ xen'.refused = xen.refused
         /\ xen'.base = xen.base /\ xen'.ubase = xen.ubase
         /\ xen'.ro = flag \ {p} /\ xen'.pin = (flag \ {p}) \cap (Ptes \cup {"upgd", "pgd"})
         /\ pl' = pl /\ q' = q /\ cb' = cb /\ cur3' = cur3
<1>1. /\ xen \in XenStates /\ q \in [Cpus -> Seq(Multicalls)] /\ cb \in [Cpus -> Seq(Callbacks)]
      /\ pl \in [Ptes -> Cpus \cup {NoCpu}]
      /\ xen.ro = flag /\ xen.pin = flag \cap (Ptes \cup {"upgd", "pgd"})
  BY StillFlags DEF IInv, Locals, TypeOK
<1>2. p \in Tables \ {"upgd"} /\ p # "pgd" /\ p \in Tables
  BY DEF Tables, Inner
<1>3. CASE p \in flag
  <2>1. ReleaseOps(p) = UnpinPageOps(p)
    BY <1>3 DEF ReleaseOps, UnpinPageOps
  <2>a. p \in xen.pin <=> p \in Ptes
    BY <1>1, <1>2, <1>3
  <2>2. /\ UnpinPageOps(p) \in Seq(PageOps) /\ Downward(UnpinPageOps(p)) /\ Legal(xen, UnpinPageOps(p))
        /\ After(xen, UnpinPageOps(p), Len(UnpinPageOps(p))) = PageUnpin(xen, p)
    BY <1>1, <1>2, <2>a, UnpinPageDoes
  <2>3. xen' = ExecAll(xen, UnpinPageOps(p)) /\ pl' = pl /\ q' = q /\ cb' = cb /\ cur3' = cur3
    BY <1>1, <2>1, <2>2, FlushIdle
  <2>4. xen' = PageUnpin(xen, p)
    BY <1>1, <2>2, <2>3, Flushed
  <2>5. /\ xen' \in XenStates /\ xen'.ro = xen.ro \ {p} /\ xen'.pin = xen.pin \ {p}
        /\ xen'.tree = xen.tree /\ xen'.refused = xen.refused
        /\ xen'.base = xen.base /\ xen'.ubase = xen.ubase
    BY <1>1, <1>2, <2>4, PagedFields
  <2> QED
    BY <1>1, <2>3, <2>5
<1>4. CASE p \notin flag
  <2>1. ReleaseOps(p) = <<>>
    BY <1>4 DEF ReleaseOps
  <2>2. <<>> \in Seq(PageOps)
    OBVIOUS
  <2>3. xen' = ExecAll(xen, <<>>) /\ pl' = pl /\ q' = q /\ cb' = cb /\ cur3' = cur3
    BY <1>1, <2>1, <2>2, FlushIdle
  <2>4. xen' = xen
    BY <2>3, ExecNone
  <2> QED
    BY <1>1, <1>4, <2>3, <2>4
<1> QED
  BY <1>3, <1>4

(* AllocTable: a new table. *)
LEMMA AllocTableKeeps ==
  ASSUME IInv, NEW c \in Cpus, NEW p \in Inner, AllocTable(c, p)
  PROVE  IInv'
<1> USE DEF IInv
<1>a. /\ ~Walking /\ pc[c] = "run" /\ q[c] = <<>> /\ cb[c] = <<>> /\ ptl = NoCpu
      /\ \A d \in Cpus : ~Loose(d) /\ pc[d] # "saved"
      /\ (life = "build" /\ c = boss) \/ (life = "live" /\ c \in user)
      /\ p \notin xen.tree /\ Parent(p) \in {"pgd"} \cup xen.tree
  <2>1. ptl = NoCpu /\ pc[c] = "run" /\ \A d \in Cpus : pc[d] \notin {"unlinked", "saved"}
    BY DEF AllocTable, Running, MayGrow
  <2>2. \A d \in Cpus : pc[d] # "filled"
    BY <2>1 DEF Turns
  <2> QED
    BY <2>1, <2>2, WalkAlone DEF AllocTable, MayGrow, Loose, Queued
<1>b. (flag = {} \/ flag = {"pgd", "upgd"} \cup xen.tree) /\ p \notin flag /\ p \in Tables
  BY <1>a, NoneLoose DEF Inner, Tables
<1>c. /\ xen' \in XenStates /\ xen'.tree = xen.tree /\ xen'.refused = xen.refused
      /\ xen'.base = xen.base /\ xen'.ubase = xen.ubase
      /\ xen'.ro = flag' /\ xen'.pin = flag' \cap (Ptes \cup {"upgd", "pgd"})
      /\ pl' = pl /\ q' = q /\ cb' = cb /\ cur3' = cur3
  BY <1>a, <1>b, AllocDoes DEF AllocTable
<1>d. /\ pc' = [pc EXCEPT ![c] = "filled"] /\ pc \in [Cpus -> PCs] /\ ptl' = c
      /\ tgt' = [tgt EXCEPT ![c] = p] /\ tgt \in [Cpus -> Tables]
      /\ flag' = IF "pgd" \in flag THEN flag \cup {p} ELSE flag
      /\ UNCHANGED <<life, boss, saved, todo, mask, user, active, lazy, ipi, scan, kmiss, oops>>
  BY DEF AllocTable, AllocFlag, Goto, Locals, cpuVars, dropVars
<1>e. /\ pc'[c] = "filled" /\ \A d \in Cpus : d # c => pc'[d] = pc[d] /\ tgt'[d] = tgt[d]
      /\ tgt'[c] = p /\ ~Walking' /\ \A d \in Cpus : Loose(d)' <=> d = c
  BY <1>a, <1>d DEF Walking, Walk, Loose
<1>1. TypeOK'
  BY <1>b, <1>c, <1>d DEF TypeOK, XenStates
<1>2. Locals'
  BY <1>b, <1>c, <1>d, <1>e DEF Locals, AtPte, PCs
<1>3. Turns'
  BY <1>a, <1>d, <1>e DEF Turns
<1>4. Locks'
  BY <1>a, <1>c, <1>d, <1>e DEF Locks, AtPte, Walk
<1>5. Flags'
  BY <1>c, <1>e, FlagsNext
<1>6. Tagged'
  <2>1. flag' = {} \/ flag' = {"pgd", "upgd"} \cup xen'.tree \cup {tgt'[c]}
    BY <1>b, <1>c, <1>d, <1>e
  <2> QED
    BY <1>e, <2>1, OneLooseNext
<1>7. Staged'
  BY <1>a, <1>b, <1>d, <1>e DEF Staged
<1>8. XenObeyed'
  BY <1>c, <1>d DEF XenObeyed, NoStrayStore, NeverRefused
<1>9. ASSUME NEW d \in Cpus PROVE Queued(d)'
  BY <1>a, <1>c, <1>d, <1>e, ZenonT(30) DEF Queued, Walk
<1>10. ASSUME NEW d \in Cpus, Loose(d)' PROVE LooseOK(d)'
  BY <1>a, <1>b, <1>c, <1>d, <1>e, <1>10 DEF LooseOK
<1>11. ASSUME NEW d \in Cpus PROVE OnTables(d)'
  BY <1>a, <1>c, <1>d, <1>e DEF OnTables
<1> QED
  BY <1>1, <1>2, <1>3, <1>4, <1>5, <1>6, <1>7, <1>8, <1>9, <1>10, <1>11

(* Unlink: a table leaves the tree. *)
LEMMA UnlinkKeeps ==
  ASSUME IInv, NEW c \in Cpus, NEW p \in Inner, Unlink(c, p)
  PROVE  IInv'
<1> USE DEF IInv
<1>a. /\ ~Walking /\ pc[c] = "run" /\ q[c] = <<>> /\ cb[c] = <<>>
      /\ \A d \in Cpus : ~Loose(d) /\ pc[d] # "saved"
      /\ (life = "down" /\ c = boss) \/ (life = "live" /\ c \in user)
      /\ p \in xen.tree /\ (p \in Ptes => pl[p] = NoCpu) /\ p \in Tables
  BY WalkAlone DEF Unlink, Running, Loose, Queued, Tables
<1>b. flag = {} \/ flag = {"pgd", "upgd"} \cup xen.tree
  BY <1>a, NoneLoose
<1>c. /\ xen' \in XenStates /\ xen'.ro = xen.ro /\ xen'.pin = xen.pin /\ xen'.refused = xen.refused
      /\ xen'.base = xen.base /\ xen'.ubase = xen.ubase /\ xen'.tree = xen.tree \ {p}
      /\ oops' = oops /\ pl' = pl /\ q' = q /\ cb' = cb /\ cur3' = cur3
  <2>1. SetEntry(c, p, "unlink")
    BY DEF Unlink
  <2> QED
    BY <1>a, <2>1, SetEntryDoes
<1>d. /\ pc' = [pc EXCEPT ![c] = "unlinked"] /\ pc \in [Cpus -> PCs] /\ ptl' = ptl
      /\ tgt' = [tgt EXCEPT ![c] = p] /\ tgt \in [Cpus -> Tables] /\ flag' = flag
      /\ UNCHANGED <<life, boss, saved, todo, mask, user, active, lazy, ipi, scan, kmiss>>
  BY DEF Unlink, Goto, Locals, mmVars, cpuVars, dropVars
<1>e. /\ pc'[c] = "unlinked" /\ \A d \in Cpus : d # c => pc'[d] = pc[d] /\ tgt'[d] = tgt[d]
      /\ tgt'[c] = p /\ ~Walking' /\ \A d \in Cpus : Loose(d)' <=> d = c
  BY <1>a, <1>d DEF Walking, Walk, Loose
<1>1. TypeOK'
  BY <1>b, <1>c, <1>d DEF TypeOK, XenStates
<1>2. Locals'
  BY <1>a, <1>c, <1>d, <1>e DEF Locals, AtPte, PCs
<1>3. Turns'
  BY <1>a, <1>d, <1>e DEF Turns
<1>4. Locks'
  BY <1>a, <1>c, <1>d, <1>e DEF Locks, AtPte, Walk
<1>5. Flags'
  BY <1>a, <1>c, <1>d, <1>e, StillFlags, FlagsNext
<1>6. Tagged'
  <2>1. flag' = {} \/ flag' = {"pgd", "upgd"} \cup xen'.tree \cup {tgt'[c]}
    BY <1>a, <1>b, <1>c, <1>d, <1>e
  <2> QED
    BY <1>e, <2>1, OneLooseNext
<1>7. Staged'
  BY <1>a, <1>d, <1>e DEF Staged
<1>8. XenObeyed'
  BY <1>c, <1>d DEF XenObeyed, NoStrayStore, NeverRefused
<1>9. ASSUME NEW d \in Cpus PROVE Queued(d)'
  BY <1>a, <1>c, <1>d, <1>e DEF Queued, Walk
<1>10. ASSUME NEW d \in Cpus, Loose(d)' PROVE LooseOK(d)'
  BY <1>a, <1>b, <1>c, <1>d, <1>e, <1>10 DEF LooseOK
<1>11. ASSUME NEW d \in Cpus PROVE OnTables(d)'
  BY <1>a, <1>c, <1>d, <1>e DEF OnTables
<1> QED
  BY <1>1, <1>2, <1>3, <1>4, <1>5, <1>6, <1>7, <1>8, <1>9, <1>10, <1>11

(* Release: it is given back. *)
LEMMA ReleaseKeeps ==
  ASSUME IInv, NEW c \in Cpus, Release(c)
  PROVE  IInv'
<1> USE DEF IInv
<1> DEFINE p == tgt[c]
<1>a. /\ pc[c] = "unlinked" /\ Loose(c) /\ LooseOK(c) /\ q[c] = <<>> /\ cb[c] = <<>>
      /\ p \in Inner \ xen.tree /\ \A d \in Cpus : Loose(d) => d = c
      /\ (life = "down" /\ boss = c) \/ (life = "live" /\ c \in user)
  BY DEF Release, Loose, LooseOK, Queued
<1>b. ~Walking /\ (flag = {} \/ flag = {"pgd", "upgd"} \cup xen.tree \cup {p})
  BY <1>a, OneLoose
<1>c. /\ xen' \in XenStates /\ xen'.tree = xen.tree /\ xen'.refused = xen.refused
      /\ xen'.base = xen.base /\ xen'.ubase = xen.ubase
      /\ xen'.ro = flag' /\ xen'.pin = flag' \cap (Ptes \cup {"upgd", "pgd"})
      /\ pl' = pl /\ q' = q /\ cb' = cb /\ cur3' = cur3
  BY <1>a, <1>b, ReleaseDoes DEF Release
<1>d. /\ pc' = [pc EXCEPT ![c] = "run"] /\ pc \in [Cpus -> PCs] /\ ptl' = ptl /\ tgt' = tgt /\ flag' = flag \ {p}
      /\ UNCHANGED <<life, boss, saved, todo, mask, user, active, lazy, ipi, scan, kmiss, oops>>
  BY DEF Release, Goto, Locals, cpuVars, dropVars
<1> HIDE DEF p
<1>e. /\ pc'[c] = "run" /\ \A d \in Cpus : d # c => pc'[d] = pc[d]
      /\ ~Walking' /\ \A d \in Cpus : ~Loose(d)'
  BY <1>a, <1>b, <1>d DEF Walking, Walk, Loose
<1>f. p # "pgd" /\ p # "upgd"
  BY <1>a DEF Inner
<1>1. TypeOK'
  BY <1>a, <1>c, <1>d DEF TypeOK, XenStates
<1>2. Locals'
  BY <1>c, <1>d, <1>e DEF Locals, AtPte, PCs
<1>3. Turns'
  BY <1>a, <1>d, <1>e DEF Turns
<1>4. Locks'
  BY <1>a, <1>c, <1>d, <1>e DEF Locks, AtPte, Walk
<1>5. Flags'
  BY <1>c, <1>e, FlagsNext
<1>6. Tagged'
  <2>1. flag' = {} \/ flag' = {"pgd", "upgd"} \cup xen'.tree
    BY <1>a, <1>b, <1>c, <1>d, <1>f
  <2> QED
    BY <1>e, <2>1, NoneLooseNext
<1>7. Staged'
  BY <1>a, <1>b, <1>d, <1>e, <1>f DEF Staged
<1>8. XenObeyed'
  BY <1>c, <1>d DEF XenObeyed, NoStrayStore, NeverRefused
<1>9. ASSUME NEW d \in Cpus PROVE Queued(d)'
  BY <1>a, <1>c, <1>d, <1>e DEF Queued, Walk
<1>10. ASSUME NEW d \in Cpus PROVE ~Loose(d)'
  BY <1>e
<1>11. ASSUME NEW d \in Cpus PROVE OnTables(d)'
  BY <1>a, <1>c, <1>d, <1>e, <1>f DEF OnTables
<1> QED
  BY <1>1, <1>2, <1>3, <1>4, <1>5, <1>6, <1>7, <1>8, <1>9, <1>10, <1>11

(* SetKernelEntry: an entry of a kernel table. *)
LEMMA SetKernelEntryKeeps ==
  ASSUME IInv, NEW c \in Cpus, SetKernelEntry(c)
  PROVE  IInv'
<1> USE DEF IInv
<1>a. /\ ~Walking /\ pc[c] \in {"vfault", "sync"} /\ q[c] = <<>> /\ cb[c] = <<>>
  BY WalkAlone DEF SetKernelEntry, Queued
<1>b. xen' = xen /\ oops' = oops /\ pl' = pl /\ q' = q /\ cb' = cb /\ cur3' = cur3
  <2>1. /\ xen \in XenStates /\ q \in [Cpus -> Seq(Multicalls)] /\ cb \in [Cpus -> Seq(Callbacks)]
        /\ pl \in [Ptes -> Cpus \cup {NoCpu}] /\ oops \in BOOLEAN /\ xen.ro = flag
    BY <1>a, StillFlags DEF Locals, TypeOK
  <2>2. CASE "pgd" \notin flag
    BY <2>1, <2>2 DEF SetKernelEntry
  <2>3. CASE "pgd" \in flag
    <3> DEFINE o == Op("set", "pgd")
    <3>1. FlushNow(c, <<o>>, <<>>, pl) /\ oops' = oops
      BY <2>3 DEF SetKernelEntry
    <3>2. <<o>> \in Seq({o})
      OBVIOUS
    <3>3. xen' = ExecAll(xen, <<o>>) /\ pl' = pl /\ q' = q /\ cb' = cb /\ cur3' = cur3
      BY <1>a, <2>1, <3>1, <3>2, FlushIdle
    <3>4. ExecAll(xen, <<o>>) = Exec(xen, o)
      BY ExecOne
    <3>5. Exec(xen, o) = xen
      BY ExecIs DEF Outcome, Accepts, Effect, Op
    <3> QED
      BY <3>1, <3>3, <3>4, <3>5
  <2> QED
    BY <2>2, <2>3
<1>d. /\ pc' = [pc EXCEPT ![c] = "run"] /\ pc \in [Cpus -> PCs] /\ tgt' = tgt /\ flag' = flag
      /\ ptl' = IF pc[c] = "sync" THEN NoCpu ELSE ptl
      /\ kmiss' = FALSE
      /\ UNCHANGED <<life, boss, saved, todo, mask, user, active, lazy, ipi, scan>>
  BY DEF SetKernelEntry, Goto, Locals, cpuVars, dropVars
<1>e. /\ pc'[c] = "run" /\ \A d \in Cpus : d # c => pc'[d] = pc[d]
      /\ ~Walking' /\ \A d \in Cpus : Loose(d)' <=> Loose(d)
  BY <1>a, <1>d DEF Walking, Walk, Loose
<1>1. TypeOK'
  BY <1>b, <1>d DEF TypeOK
<1>2. Locals'
  BY <1>b, <1>d, <1>e DEF Locals, AtPte, PCs
<1>3. Turns'
  BY <1>a, <1>d, <1>e DEF Turns
<1>4. Locks'
  BY <1>a, <1>b, <1>d, <1>e DEF Locks, AtPte, Walk
<1>5. Flags'
  BY <1>a, <1>b, <1>d, <1>e, StillFlags, FlagsNext DEF Locals
<1>6. Tagged'
  BY <1>a, <1>b, <1>d, <1>e, TaggedSame
<1>7. Staged'
  BY <1>a, <1>d, <1>e DEF Staged
<1>8. XenObeyed'
  BY <1>b DEF XenObeyed, NoStrayStore, NeverRefused
<1>9. ASSUME NEW d \in Cpus PROVE Queued(d)'
  BY <1>a, <1>b, <1>d, <1>e DEF Queued, Walk
<1>10. ASSUME NEW d \in Cpus, Loose(d)' PROVE LooseOK(d)'
  BY <1>a, <1>b, <1>d, <1>e, <1>10 DEF LooseOK, Loose
<1>11. ASSUME NEW d \in Cpus PROVE OnTables(d)'
  BY <1>a, <1>b, <1>d, <1>e DEF OnTables
<1> QED
  BY <1>1, <1>2, <1>3, <1>4, <1>5, <1>6, <1>7, <1>8, <1>9, <1>10, <1>11

(* Operations queued by a CPU that had nothing queued, when they fit. *)
LEMMA EnqueueIdle ==
  ASSUME q \in [Cpus -> Seq(Multicalls)], cb \in [Cpus -> Seq(Callbacks)],
         NEW c \in Cpus, q[c] = <<>>, cb[c] = <<>>,
         NEW S, NEW ops \in Seq(S), Len(ops) <= MCBatch,
         NEW T, NEW calls \in Seq(T), NEW locks, Enqueue(c, ops, calls, locks)
  PROVE  /\ xen' = xen /\ pl' = locks /\ cur3' = cur3
         /\ q' = [q EXCEPT ![c] = ops] /\ cb' = [cb EXCEPT ![c] = calls]
<1> DEFINE all == q[c] \o ops
           l == Len(all)
           done == l - Kept(all)
<1>1. all = ops /\ <<>> \o calls = calls
  OBVIOUS
<1>2. Len(ops) \in Nat /\ Kept(ops) = Len(ops)
  BY KeptFacts
<1>3. done = 0
  BY <1>1, <1>2
<1>4. /\ xen' = ExecAll(xen, SubSeq(all, 1, done))
      /\ q' = [q EXCEPT ![c] = SubSeq(all, done + 1, l)]
      /\ pl' = IF done > 0 THEN Unlocked(locks, cb[c]) ELSE locks
      /\ cur3' = IF done > 0 THEN CurrentCr3(c, cb[c]) ELSE cur3
      /\ cb' = [cb EXCEPT ![c] = (IF done > 0 THEN <<>> ELSE @) \o calls]
  BY DEF Enqueue
<1>5. SubSeq(ops, 1, 0) = <<>> /\ SubSeq(ops, 0 + 1, Len(ops)) = ops
  OBVIOUS
<1>6. ExecAll(xen, <<>>) = xen
  BY ExecNone
<1> HIDE DEF done, all
<1>7. xen' = xen /\ pl' = locks /\ cur3' = cur3
  <2>1. ~(done > 0) /\ SubSeq(all, 1, done) = <<>>
    BY <1>1, <1>3, <1>5
  <2> QED
    BY <1>4, <1>6, <2>1
<1>8. q' = [q EXCEPT ![c] = ops]
  BY <1>1, <1>3, <1>4, <1>5
<1>9. cb' = [cb EXCEPT ![c] = calls]
  BY <1>1, <1>3, <1>4
<1> QED
  BY <1>7, <1>8, <1>9

(* xen_write_cr3, at once or at the end of a context switch. *)
NewBase(x, c, t) ==
  [x EXCEPT !.base[c] = t, !.ubase[c] = IF t = "pgd" THEN "upgd" ELSE t]

(* A CPU that loads new base pointers changes nothing else. *)
LEMMA NewBaseFields ==
  ASSUME NEW x \in XenStates, NEW c \in Cpus, NEW t \in {Swapper, "pgd"}
  PROVE  /\ NewBase(x, c, t) \in XenStates
         /\ NewBase(x, c, t).ro = x.ro /\ NewBase(x, c, t).pin = x.pin
         /\ NewBase(x, c, t).tree = x.tree /\ NewBase(x, c, t).refused = x.refused
         /\ NewBase(x, c, t).base = [x.base EXCEPT ![c] = t]
         /\ NewBase(x, c, t).ubase = [x.ubase EXCEPT ![c] = IF t = "pgd" THEN "upgd" ELSE t]
  BY DEF NewBase, XenStates, Swapper

(* The two base pointer operations are accepted when the tree is read-only. *)
LEMMA Cr3Runs ==
  ASSUME NEW x \in XenStates, NEW c \in Cpus, NEW t \in {Swapper, "pgd"},
         t = "pgd" => {"pgd", "upgd"} \cup x.tree \subseteq x.ro
  PROVE  /\ ExecAll(x, Cr3Ops(c, t)) = NewBase(x, c, t)
         /\ \A p : ExecAll(x, <<Op("pte", p)>> \o Cr3Ops(c, t)) = NewBase(x, c, t)
<1> DEFINE a == [op |-> "base", p |-> t, c |-> c]
           b == [op |-> "ubase", p |-> IF t = "pgd" THEN "upgd" ELSE t, c |-> c]
           y == [x EXCEPT !.base[c] = t]
<1>1. Cr3Ops(c, t) = <<a, b>>
  BY DEF Cr3Ops
<1>2. Exec(x, a) = y
  <2>1. Accepts(x, a)
    BY DEF Accepts, AllRO
  <2>2. Effect(x, a) = y
    BY DEF Effect
  <2> QED
    BY <2>1, <2>2, ExecIs DEF Outcome
<1>3. Exec(y, b) = NewBase(x, c, t)
  <2>1. y.ro = x.ro /\ y.tree = x.tree
    BY DEF XenStates
  <2>2. Accepts(y, b)
    <3> HIDE DEF y
    <3> QED
      BY <2>1 DEF Accepts, AllRO, Swapper
  <2>3. Effect(y, b) = [y EXCEPT !.ubase[c] = IF t = "pgd" THEN "upgd" ELSE t]
    BY DEF Effect
  <2>4. Effect(y, b) = NewBase(x, c, t)
    BY <2>3 DEF NewBase, XenStates
  <2> QED
    BY <2>2, <2>4, ExecIs DEF Outcome
<1>4. ExecAll(x, <<a, b>>) = Exec(Exec(x, a), b)
  BY ExecTwo
<1>5. ASSUME NEW p PROVE ExecAll(x, <<Op("pte", p)>> \o <<a, b>>) = NewBase(x, c, t)
  <2> DEFINE e == Op("pte", p)
  <2>1. Exec(x, e) = x
    BY ExecIs DEF Outcome, Accepts, Effect, Op
  <2> HIDE DEF a, b, e, y
  <2>2. ExecAll(x, <<e, a, b>>) = Exec(Exec(Exec(x, e), a), b)
    BY ExecThree
  <2>3. <<e>> \o <<a, b>> = <<e, a, b>>
    BY Triple
  <2>4. ExecAll(x, <<e>> \o <<a, b>>) = NewBase(x, c, t)
    BY <1>2, <1>3, <2>1, <2>2, <2>3, Zenon
  <2> QED
    BY <2>4 DEF e
<1> QED
  BY <1>1, <1>2, <1>3, <1>4, <1>5, Zenon

(* The callback of a queued cr3 write unlocks nothing and notes the new cr3. *)
LEMMA Cr3Callback ==
  ASSUME pl \in [Ptes -> Cpus \cup {NoCpu}], NEW c \in Cpus, NEW t
  PROVE  /\ Unlocked(pl, Cr3Call(t)) = pl
         /\ CurrentCr3(c, Cr3Call(t)) = [cur3 EXCEPT ![c] = t]
<1> DEFINE s == Cr3Call(t)
<1>1. DOMAIN s = {1} /\ s[1] = Op("cr3", t)
  BY DEF Cr3Call
<1>2. s[1].op = "cr3" /\ s[1].p = t /\ \A p : s[1] # Op("unlock", p)
  BY <1>1 DEF Op
<1> HIDE DEF s
<1>3. Unlocked(pl, s) = pl
  BY <1>1, <1>2 DEF Unlocked
<1>4. {i \in DOMAIN s : s[i].op = "cr3"} = {1}
  BY <1>1, <1>2
<1>5. Max({1}) = 1
  BY DEF Max
<1>6. CurrentCr3(c, s) = [cur3 EXCEPT ![c] = t]
  BY <1>2, <1>4, <1>5 DEF CurrentCr3
<1> QED
  BY <1>3, <1>6 DEF s

(* Live tables are read-only as a whole. *)
LEMMA LiveReadOnly ==
  ASSUME IInv, life = "live"
  PROVE  ~Walking /\ "pgd" \in flag /\ {"pgd", "upgd"} \cup xen.tree \subseteq xen.ro
<1>1. ~Walking
  BY WalkAlone
<1>2. "pgd" \in flag
  BY DEF IInv, Staged
<1>3. {"pgd", "upgd"} \cup xen.tree \subseteq flag
  BY <1>1, <1>2 DEF IInv, Tagged
<1> QED
  BY <1>1, <1>2, <1>3, StillFlags

(* A flushed cr3 write moves the base pointers, whether queued or immediate. *)
LEMMA FlushCr3 ==
  ASSUME IInv, NEW c \in Cpus, NEW t \in {Swapper, "pgd"}, t = "pgd" => life = "live",
         \/ /\ q[c] = <<>> \/ \E p : q[c] = <<Op("pte", p)>>
            /\ cb[c] = <<>> /\ FlushNow(c, Cr3Ops(c, t), Cr3Call(t), pl)
         \/ q[c] = Cr3Ops(c, t) /\ cb[c] = Cr3Call(t) /\ FlushNow(c, <<>>, <<>>, pl)
  PROVE  /\ xen' = NewBase(xen, c, t) /\ pl' = pl /\ cur3' = [cur3 EXCEPT ![c] = t]
         /\ q' = [q EXCEPT ![c] = <<>>] /\ cb' = [cb EXCEPT ![c] = <<>>]
<1>1. xen \in XenStates /\ pl \in [Ptes -> Cpus \cup {NoCpu}]
  BY DEF IInv, Locals, TypeOK
<1>2. t = "pgd" => {"pgd", "upgd"} \cup xen.tree \subseteq xen.ro
  BY LiveReadOnly
<1>3. /\ ExecAll(xen, Cr3Ops(c, t)) = NewBase(xen, c, t)
      /\ \A p : ExecAll(xen, <<Op("pte", p)>> \o Cr3Ops(c, t)) = NewBase(xen, c, t)
  BY <1>1, <1>2, Cr3Runs
<1>4. Unlocked(pl, Cr3Call(t)) = pl /\ CurrentCr3(c, Cr3Call(t)) = [cur3 EXCEPT ![c] = t]
  BY <1>1, Cr3Callback
<1>5. /\ <<>> \o Cr3Ops(c, t) = Cr3Ops(c, t) /\ Cr3Ops(c, t) \o <<>> = Cr3Ops(c, t)
      /\ <<>> \o Cr3Call(t) = Cr3Call(t) /\ Cr3Call(t) \o <<>> = Cr3Call(t)
  BY DEF Cr3Ops, Cr3Call
<1>6. CASE /\ q[c] = <<>> \/ \E p : q[c] = <<Op("pte", p)>>
           /\ cb[c] = <<>> /\ FlushNow(c, Cr3Ops(c, t), Cr3Call(t), pl)
  <2>1. /\ xen' = ExecAll(xen, q[c] \o Cr3Ops(c, t)) /\ pl' = Unlocked(pl, cb[c] \o Cr3Call(t))
        /\ cur3' = CurrentCr3(c, cb[c] \o Cr3Call(t))
        /\ q' = [q EXCEPT ![c] = <<>>] /\ cb' = [cb EXCEPT ![c] = <<>>]
    BY <1>6, Zenon DEF FlushNow
  <2>2. pl' = pl /\ cur3' = [cur3 EXCEPT ![c] = t]
    BY <1>4, <1>5, <1>6, <2>1, Zenon
  <2>3. CASE q[c] = <<>>
    BY <1>3, <1>5, <2>1, <2>2, <2>3, Zenon
  <2>4. CASE \E p : q[c] = <<Op("pte", p)>>
    BY <1>3, <2>1, <2>2, <2>4, Zenon
  <2> QED
    BY <1>6, <2>3, <2>4
<1>7. CASE q[c] = Cr3Ops(c, t) /\ cb[c] = Cr3Call(t) /\ FlushNow(c, <<>>, <<>>, pl)
  <2>1. /\ xen' = ExecAll(xen, q[c] \o <<>>) /\ pl' = Unlocked(pl, cb[c] \o <<>>)
        /\ cur3' = CurrentCr3(c, cb[c] \o <<>>)
        /\ q' = [q EXCEPT ![c] = <<>>] /\ cb' = [cb EXCEPT ![c] = <<>>]
    BY <1>7, Zenon DEF FlushNow
  <2>2. xen' = NewBase(xen, c, t)
    BY <1>3, <1>5, <1>7, <2>1, Zenon
  <2>3. pl' = pl /\ cur3' = [cur3 EXCEPT ![c] = t]
    BY <1>4, <1>5, <1>7, <2>1, Zenon
  <2> QED
    BY <2>1, <2>2, <2>3
<1> QED
  BY <1>6, <1>7

(* During a walk no CPU runs on the tables, so such a step changes nothing. *)
LEMMA BaseInWalk ==
  ASSUME IInv, Walking, NEW c \in Cpus
  PROVE  NewBase(xen, c, Swapper) = xen
<1>1. xen \in XenStates /\ xen.base[c] = Swapper /\ xen.ubase[c] = Swapper
  BY WalkAlone DEF IInv, Locals
<1>2. NewBase(xen, c, Swapper) \in XenStates
  BY <1>1, NewBaseFields
<1> QED
  BY <1>1 DEF NewBase, XenStates, Swapper

(* The rest of the hypervisor after such a write. *)
LEMMA MovedBase ==
  ASSUME IInv, NEW c \in Cpus, NEW t \in {Swapper, "pgd"}, xen' = NewBase(xen, c, t)
  PROVE  /\ xen' \in XenStates /\ xen'.ro = xen.ro /\ xen'.pin = xen.pin
         /\ xen'.tree = xen.tree /\ xen'.refused = xen.refused
         /\ xen'.base = [xen.base EXCEPT ![c] = t]
         /\ xen'.ubase = [xen.ubase EXCEPT ![c] = IF t = "pgd" THEN "upgd" ELSE Swapper]
<1>1. xen \in XenStates
  BY DEF IInv, Locals
<1>2. CASE t = Swapper
  BY <1>1, <1>2 DEF NewBase, XenStates, Swapper
<1>3. CASE t = "pgd"
  BY <1>1, <1>3 DEF NewBase, XenStates, Swapper
<1> QED
  BY <1>2, <1>3

(* It keeps the hypervisor in step with PagePinned. *)
LEMMA FlagsBase ==
  ASSUME IInv, NEW c \in Cpus, NEW t \in {Swapper, "pgd"}, t = "pgd" => life = "live",
         xen' = NewBase(xen, c, t), flag' = flag, Walking' <=> Walking, Rest' = Rest
  PROVE  Flags'
<1>1. CASE Walking
  <2>1. t = Swapper
    BY <1>1, WalkAlone
  <2>2. xen' = xen
    BY <1>1, <2>1, BaseInWalk
  <2> QED
    BY <2>2, FlagsSame DEF IInv
<1>2. CASE ~Walking
  <2>1. xen \in XenStates /\ xen.ro = flag /\ xen.pin = flag \cap (Ptes \cup {"upgd", "pgd"})
    BY <1>2, StillFlags DEF IInv, Locals
  <2>2. xen' \in XenStates /\ xen'.ro = xen.ro /\ xen'.pin = xen.pin
    BY MovedBase
  <2> QED
    BY <1>2, <2>1, <2>2, FlagsNext
<1> QED
  BY <1>1, <1>2

(* SetPteBatched: an entry is queued in lazy mode. *)
LEMMA SetPteBatchedKeeps ==
  ASSUME IInv, NEW c \in Cpus, SetPteBatched(c)
  PROVE  IInv'
<1> USE DEF IInv
<1> DEFINE o == Op("pte", tgt[c])
<1>a. /\ pc[c] = "batched" /\ q[c] = <<>> /\ cb[c] = <<>> /\ tgt[c] \in Ptes /\ ~Walk(c) /\ AtPte(c)
  BY DEF SetPteBatched, Queued, Locals, AtPte, Walk
<1>o. <<o>> \in Seq(Multicalls) /\ Len(<<o>>) = 1 /\ <<>> \in Seq(Callbacks)
  <2>1. tgt[c] \in Tables
    BY DEF Locals
  <2>2. o \in Multicalls
    BY <2>1 DEF Multicalls, Op
  <2> HIDE DEF o
  <2> QED
    BY <2>2
<1> HIDE DEF o
<1>b. /\ xen' = xen /\ pl' = pl /\ cur3' = cur3
      /\ q' = [q EXCEPT ![c] = <<o>>] /\ cb' = [cb EXCEPT ![c] = <<>>]
  <2>1. Enqueue(c, <<o>>, <<>>, pl) /\ q \in [Cpus -> Seq(Multicalls)] /\ cb \in [Cpus -> Seq(Callbacks)]
    BY DEF SetPteBatched, Locals, o
  <2>2. Len(<<o>>) <= MCBatch
    BY <1>o
  <2> QED
    BY <1>a, <1>o, <2>1, <2>2, EnqueueIdle, ZenonT(30)
<1>c. cb' = cb /\ q'[c] = <<o>> /\ (\A d \in Cpus : d # c => q'[d] = q[d]) /\ q' \in [Cpus -> Seq(Multicalls)]
  BY <1>a, <1>b, <1>o DEF Locals
<1>d. /\ pc' = [pc EXCEPT ![c] = "lazymmu"] /\ pc \in [Cpus -> PCs] /\ tgt' = tgt /\ flag' = flag
      /\ UNCHANGED <<life, boss, saved, ptl, todo, mask, user, active, lazy, ipi, scan, kmiss, oops>>
  BY DEF SetPteBatched, Goto, Locals, mmVars, cpuVars, dropVars
<1>e. /\ pc'[c] = "lazymmu" /\ \A d \in Cpus : d # c => pc'[d] = pc[d]
      /\ \A d \in Cpus : /\ Loose(d)' <=> Loose(d)
                         /\ Walk(d)' <=> Walk(d)
                         /\ AtPte(d)' <=> AtPte(d)
  BY <1>a, <1>d DEF Walk, Loose, AtPte
<1>f. (Walking' <=> Walking) /\ Rest' = Rest
  <2>1. Walking' <=> Walking
    BY <1>e DEF Walking
  <2>2. Walking => ptl # c /\ ptl \in Cpus
    BY <1>a, WalkAlone
  <2> QED
    BY <1>c, <1>d, <2>1, <2>2 DEF Rest
<1>1. TypeOK'
  <2>1. ASSUME NEW d \in Cpus PROVE Len(q'[d]) <= MCBatch
    <3>1. CASE d = c
      <4>1. Len(q'[d]) = 1
        BY <1>c, <1>o, <3>1, Zenon
      <4> QED
        BY <4>1
    <3>2. CASE d # c
      BY <1>c, <3>2 DEF TypeOK
    <3> QED
      BY <3>1, <3>2
  <2> QED
    BY <1>b, <1>d, <2>1 DEF TypeOK
<1>2. Locals'
  BY <1>b, <1>c, <1>d, <1>e DEF Locals, PCs
<1>3. Turns'
  BY <1>a, <1>d, <1>e DEF Turns
<1>4. Locks'
  BY <1>b, <1>c, <1>d, <1>e DEF Locks
<1>5. Flags'
  BY <1>b, <1>d, <1>f, FlagsSame
<1>6. Tagged'
  <2>1. \A d \in Cpus : (pc'[d] = "pin" <=> pc[d] = "pin") /\ (pc'[d] = "unpin" <=> pc[d] = "unpin")
    BY <1>a, <1>e
  <2> QED
    BY <1>b, <1>d, <1>e, <1>f, <2>1, TaggedSame
<1>7. Staged'
  BY <1>a, <1>d, <1>e, <1>f DEF Staged
<1>8. XenObeyed'
  BY <1>b, <1>d DEF XenObeyed, NoStrayStore, NeverRefused
<1>9. ASSUME NEW d \in Cpus PROVE Queued(d)'
  BY <1>a, <1>c, <1>d, <1>e, ZenonT(30) DEF Queued, Walk, o
<1>10. ASSUME NEW d \in Cpus, Loose(d)' PROVE LooseOK(d)'
  BY <1>a, <1>b, <1>d, <1>e, <1>10 DEF LooseOK, Loose
<1>11. ASSUME NEW d \in Cpus PROVE OnTables(d)'
  BY <1>a, <1>b, <1>d, <1>e DEF OnTables
<1> QED
  BY <1>1, <1>2, <1>3, <1>4, <1>5, <1>6, <1>7, <1>8, <1>9, <1>10, <1>11

(* LeaveLazyMmu: the queue is flushed. *)
LEMMA LeaveLazyMmuKeeps ==
  ASSUME IInv, NEW c \in Cpus, LeaveLazyMmu(c)
  PROVE  IInv'
<1> USE DEF IInv
<1> DEFINE locks == [pl EXCEPT ![tgt[c]] = NoCpu]
<1>a. /\ pc[c] = "lazymmu" /\ q[c] \in {<<>>, <<Op("pte", tgt[c])>>} /\ cb[c] = <<>> /\ tgt[c] \in Ptes
      /\ ~Walk(c) /\ AtPte(c)
  BY DEF LeaveLazyMmu, Queued, Locals, AtPte, Walk
<1>b. /\ xen' = xen /\ pl' = locks /\ cur3' = cur3
      /\ q' = [q EXCEPT ![c] = <<>>] /\ cb' = [cb EXCEPT ![c] = <<>>]
  <2>1. /\ xen' = ExecAll(xen, q[c] \o <<>>) /\ pl' = Unlocked(locks, <<>> \o <<>>)
        /\ cur3' = CurrentCr3(c, <<>> \o <<>>)
        /\ q' = [q EXCEPT ![c] = <<>>] /\ cb' = [cb EXCEPT ![c] = <<>>]
    BY <1>a DEF LeaveLazyMmu, FlushNow
  <2>2. <<>> \o <<>> = <<>> /\ DOMAIN <<>> = {}
    OBVIOUS
  <2>3. locks \in [Ptes -> Cpus \cup {NoCpu}]
    BY DEF TypeOK
  <2> HIDE DEF locks
  <2>4. Unlocked(locks, <<>>) = locks /\ CurrentCr3(c, <<>>) = cur3
    BY <2>2, <2>3 DEF Unlocked, CurrentCr3
  <2> DEFINE o == Op("pte", tgt[c])
  <2>5. q[c] \o <<>> = q[c]
    BY <1>a
  <2>6. ExecAll(xen, <<>>) = xen
    BY ExecNone
  <2>7. ExecAll(xen, <<o>>) = xen
    <3>1. ExecAll(xen, <<o>>) = Exec(xen, o)
      BY ExecOne
    <3>2. Exec(xen, o) = xen
      BY ExecIs DEF Outcome, Accepts, Effect, Op
    <3> QED
      BY <3>1, <3>2
  <2>8. xen' = xen
    BY <1>a, <2>1, <2>5, <2>6, <2>7, Zenon
  <2> QED
    BY <2>1, <2>2, <2>4, <2>8
<1>c. /\ cb' = cb /\ q'[c] = <<>> /\ (\A d \in Cpus : d # c => q'[d] = q[d]) /\ q' \in [Cpus -> Seq(Multicalls)]
  BY <1>a, <1>b DEF Locals
<1>d. /\ pc' = [pc EXCEPT ![c] = "run"] /\ pc \in [Cpus -> PCs] /\ tgt' = tgt /\ flag' = flag
      /\ UNCHANGED <<life, boss, saved, ptl, todo, mask, user, active, lazy, ipi, scan, kmiss, oops>>
  BY DEF LeaveLazyMmu, Goto, Locals, mmVars, cpuVars, dropVars
<1>e. /\ pc'[c] = "run" /\ \A d \in Cpus : d # c => pc'[d] = pc[d]
      /\ ~AtPte(c)' /\ \A d \in Cpus \ {c} : AtPte(d)' <=> AtPte(d)
      /\ \A d \in Cpus : (Loose(d)' <=> Loose(d)) /\ (Walk(d)' <=> Walk(d))
  BY <1>a, <1>d DEF Walk, Loose, AtPte
<1>f. (Walking' <=> Walking) /\ Rest' = Rest
  <2>1. Walking' <=> Walking
    BY <1>e DEF Walking
  <2>2. Walking => ptl # c /\ ptl \in Cpus
    BY <1>a, WalkAlone
  <2> QED
    BY <1>c, <1>d, <2>1, <2>2 DEF Rest
<1>1. TypeOK'
  <2>1. ASSUME NEW d \in Cpus PROVE Len(q'[d]) <= MCBatch
    <3>1. CASE d = c
      <4>1. Len(q'[d]) = 0
        BY <1>c, <3>1
      <4> QED
        BY <4>1
    <3>2. CASE d # c
      BY <1>c, <3>2 DEF TypeOK
    <3> QED
      BY <3>1, <3>2
  <2> QED
    BY <1>b, <1>d, <2>1 DEF TypeOK
<1>2. Locals'
  BY <1>b, <1>c, <1>d, <1>e DEF Locals, PCs
<1>3. Turns'
  BY <1>a, <1>d, <1>e DEF Turns
<1>4. Locks'
  <2>1. pl[tgt[c]] = c
    BY <1>a DEF Locks
  <2>2. pl \in [Ptes -> Cpus \cup {NoCpu}]
    BY DEF TypeOK
  <2> QED
    BY <1>a, <1>b, <1>c, <1>d, <1>e, <2>1, <2>2 DEF Locks
<1>5. Flags'
  BY <1>b, <1>d, <1>f, FlagsSame
<1>6. Tagged'
  <2>1. \A d \in Cpus : (pc'[d] = "pin" <=> pc[d] = "pin") /\ (pc'[d] = "unpin" <=> pc[d] = "unpin")
    BY <1>a, <1>e
  <2> QED
    BY <1>b, <1>d, <1>e, <1>f, <2>1, TaggedSame
<1>7. Staged'
  BY <1>a, <1>d, <1>e, <1>f DEF Staged
<1>8. XenObeyed'
  BY <1>b, <1>d DEF XenObeyed, NoStrayStore, NeverRefused
<1>9. ASSUME NEW d \in Cpus PROVE Queued(d)'
  BY <1>a, <1>c, <1>d, <1>e DEF Queued, Walk
<1>10. ASSUME NEW d \in Cpus, Loose(d)' PROVE LooseOK(d)'
  BY <1>a, <1>b, <1>d, <1>e, <1>10 DEF LooseOK, Loose
<1>11. ASSUME NEW d \in Cpus PROVE OnTables(d)'
  BY <1>a, <1>b, <1>d, <1>e DEF OnTables
<1> QED
  BY <1>1, <1>2, <1>3, <1>4, <1>5, <1>6, <1>7, <1>8, <1>9, <1>10, <1>11

(* The types of what it queues. *)
LEMMA Cr3Types ==
  ASSUME NEW c \in Cpus, NEW t \in {Swapper, "pgd"}
  PROVE  /\ Cr3Ops(c, t) \in Seq(Multicalls) /\ Len(Cr3Ops(c, t)) = 2
         /\ Cr3Call(t) \in Seq(Callbacks)
<1> DEFINE a == [op |-> "base", p |-> t, c |-> c]
           b == [op |-> "ubase", p |-> IF t = "pgd" THEN "upgd" ELSE t, c |-> c]
           d == Op("cr3", t)
<1>1. a \in Multicalls
  BY DEF Multicalls, Tables, Swapper
<1>2. b \in Multicalls
  BY DEF Multicalls, Tables, Swapper
<1>3. d \in Callbacks
  BY DEF Callbacks, Op, Tables, Swapper
<1>4. Cr3Ops(c, t) = <<a, b>> /\ Cr3Call(t) = <<d>>
  BY DEF Cr3Ops, Cr3Call
<1> HIDE DEF a, b, d
<1> QED
  BY <1>1, <1>2, <1>3, <1>4

(* What the two kinds of context switch have in common. *)
LEMMA SwitchQueues ==
  ASSUME IInv, NEW c \in Cpus, pc[c] = "run", NEW t \in {Swapper, "pgd"}, t = "pgd" => c \in user',
         Enqueue(c, Cr3Ops(c, t), Cr3Call(t), pl), Goto(c, "switch"),
         UNCHANGED <<mmVars, tgt, todo, dropVars, kmiss, oops>>,
         \A d \in Cpus \ {c} : pc[d] # "saved" /\ (d \in user' <=> d \in user)
  PROVE  /\ xen' = xen /\ pl' = pl /\ cur3' = cur3 /\ Locals' /\ Locks' /\ Flags' /\ Tagged'
         /\ (\A d \in Cpus : Len(q'[d]) <= MCBatch) /\ (Walking' <=> Walking)
         /\ \A d \in Cpus : Queued(d)' /\ (Loose(d)' <=> Loose(d))
         /\ pc'[c] = "switch" /\ \A d \in Cpus : d # c => pc'[d] = pc[d]
<1> USE DEF IInv
<1> DEFINE ops == Cr3Ops(c, t)
           calls == Cr3Call(t)
<1>a. /\ q[c] = <<>> /\ cb[c] = <<>> /\ ~Walk(c) /\ ~AtPte(c) /\ ~Loose(c)
      /\ q \in [Cpus -> Seq(Multicalls)] /\ cb \in [Cpus -> Seq(Callbacks)]
  BY DEF Queued, Walk, AtPte, Loose, Locals
<1>o. ops \in Seq(Multicalls) /\ Len(ops) = 2 /\ Len(ops) <= MCBatch /\ calls \in Seq(Callbacks)
  <2>1. ops \in Seq(Multicalls) /\ Len(ops) = 2 /\ calls \in Seq(Callbacks)
    BY Cr3Types
  <2> HIDE DEF ops, calls
  <2> QED
    BY <2>1
<1>b. /\ xen' = xen /\ pl' = pl /\ cur3' = cur3
      /\ q' = [q EXCEPT ![c] = ops] /\ cb' = [cb EXCEPT ![c] = calls]
  <2>1. Enqueue(c, ops, calls, pl)
    OBVIOUS
  <2>2. /\ q[c] = <<>> /\ cb[c] = <<>> /\ ops \in Seq(Multicalls) /\ Len(ops) <= MCBatch
        /\ calls \in Seq(Callbacks)
        /\ q \in [Cpus -> Seq(Multicalls)] /\ cb \in [Cpus -> Seq(Callbacks)]
    BY <1>a, <1>o, Zenon
  <2> HIDE DEF ops, calls, IInv
  <2> QED
    BY <2>1, <2>2, EnqueueIdle, ZenonT(30)
<1>x. t = "pgd" => c \in user'
  OBVIOUS
<1> HIDE DEF ops, calls
<1>c. /\ q'[c] = ops /\ cb'[c] = calls /\ (\A d \in Cpus : d # c => q'[d] = q[d] /\ cb'[d] = cb[d])
      /\ q' \in [Cpus -> Seq(Multicalls)] /\ cb' \in [Cpus -> Seq(Callbacks)]
  BY <1>a, <1>b, <1>o
<1>d. /\ pc' = [pc EXCEPT ![c] = "switch"] /\ pc \in [Cpus -> PCs] /\ tgt' = tgt /\ flag' = flag
      /\ todo' = todo /\ ptl' = ptl
  BY DEF Goto, Locals, mmVars, dropVars
<1>e. /\ pc'[c] = "switch" /\ \A d \in Cpus : d # c => pc'[d] = pc[d]
      /\ \A d \in Cpus : /\ Loose(d)' <=> Loose(d)
                         /\ Walk(d)' <=> Walk(d)
                         /\ AtPte(d)' <=> AtPte(d)
  BY <1>a, <1>d DEF Walk, Loose, AtPte
<1>f. (Walking' <=> Walking) /\ Rest' = Rest
  <2>1. Walking' <=> Walking
    BY <1>e DEF Walking
  <2>2. Walking => ptl # c /\ ptl \in Cpus
    BY <1>a, WalkAlone
  <2> QED
    BY <1>c, <1>d, <2>1, <2>2 DEF Rest
<1>1. ASSUME NEW d \in Cpus PROVE Len(q'[d]) <= MCBatch
  BY <1>c, <1>o DEF TypeOK
<1>2. Locals'
  BY <1>b, <1>c, <1>d, <1>e DEF Locals, PCs
<1>3. Locks'
  BY <1>a, <1>b, <1>c, <1>d, <1>e DEF Locks
<1>4. Flags'
  BY <1>b, <1>d, <1>f, FlagsSame
<1>5. Tagged'
  <2>1. \A d \in Cpus : (pc'[d] = "pin" <=> pc[d] = "pin") /\ (pc'[d] = "unpin" <=> pc[d] = "unpin")
    BY <1>e
  <2> QED
    BY <1>b, <1>d, <1>e, <1>f, <2>1, TaggedSame
<1>6. ASSUME NEW d \in Cpus PROVE Queued(d)'
  <2>1. CASE d = c
    BY <1>c, <1>e, <1>x, <2>1 DEF Queued, Walk, ops, calls
  <2>2. CASE d # c
    BY <1>c, <1>d, <1>e, <2>2, ZenonT(30) DEF Queued, Walk
  <2> QED
    BY <2>1, <2>2
<1> QED
  BY <1>b, <1>e, <1>f, <1>1, <1>2, <1>3, <1>4, <1>5, <1>6

(* SwitchIn: switch_mm to the process. *)
LEMMA SwitchInKeeps ==
  ASSUME IInv, NEW c \in Cpus, SwitchIn(c)
  PROVE  IInv'
<1> USE DEF IInv
<1>a. /\ pc[c] = "run" /\ \A d \in Cpus : pc[d] # "saved"
      /\ life = "live" /\ user' = user \cup {c} /\ active' = active \cup {c}
      /\ lazy' = lazy \ {c} /\ mask' = mask \cup {c}
      /\ UNCHANGED <<life, boss, flag, saved, ptl, tgt, todo, ipi, scan, kmiss, oops>>
  BY DEF SwitchIn, Running, mmVars, dropVars
<1>b. /\ xen' = xen /\ pl' = pl /\ cur3' = cur3 /\ Locals' /\ Locks' /\ Flags' /\ Tagged'
      /\ (\A d \in Cpus : Len(q'[d]) <= MCBatch) /\ (Walking' <=> Walking)
      /\ \A d \in Cpus : Queued(d)' /\ (Loose(d)' <=> Loose(d))
      /\ pc'[c] \in {"run", "switch"} /\ \A d \in Cpus : d # c => pc'[d] = pc[d]
  <2>1. CASE c \in active /\ c \in mask
    <3>1. UNCHANGED <<xen, q, cb, cur3, pl, pc>>
      BY <2>1 DEF SwitchIn
    <3>2. (\A d \in Cpus : (Loose(d)' <=> Loose(d)) /\ (Walk(d)' <=> Walk(d)) /\ (AtPte(d)' <=> AtPte(d)))
          /\ (Walking' <=> Walking) /\ Rest' = Rest
      BY <1>a, <3>1 DEF Loose, Walk, AtPte, Walking, Rest
    <3>3. Locals'
      BY <1>a, <3>1, <3>2 DEF Locals
    <3>4. Locks'
      BY <1>a, <3>1, <3>2 DEF Locks
    <3>5. Flags'
      BY <1>a, <3>1, <3>2, FlagsSame
    <3>6. Tagged'
      BY <1>a, <3>1, <3>2, TaggedSame
    <3>7. \A d \in Cpus : Queued(d)'
      BY <1>a, <3>1 DEF Queued, Walk
    <3> QED
      BY <1>a, <3>1, <3>2, <3>3, <3>4, <3>5, <3>6, <3>7 DEF TypeOK
  <2>2. CASE ~(c \in active /\ c \in mask)
    <3>1. /\ Enqueue(c, Cr3Ops(c, "pgd"), Cr3Call("pgd"), pl) /\ Goto(c, "switch")
          /\ UNCHANGED <<mmVars, tgt, todo, dropVars, kmiss, oops>>
      BY <2>2 DEF SwitchIn
    <3>2. c \in user' /\ \A d \in Cpus \ {c} : pc[d] # "saved" /\ (d \in user' <=> d \in user)
      BY <1>a
    <3>3. "pgd" \in {Swapper, "pgd"}
      OBVIOUS
    <3> QED
      BY <1>a, <3>1, <3>2, <3>3, SwitchQueues
  <2> QED
    BY <2>1, <2>2
<1>1. TypeOK'
  BY <1>a, <1>b DEF TypeOK
<1>2. Turns'
  BY <1>a, <1>b DEF Turns
<1>3. Staged'
  BY <1>a, <1>b DEF Staged
<1>4. XenObeyed'
  BY <1>a, <1>b DEF XenObeyed, NoStrayStore, NeverRefused
<1>5. ASSUME NEW d \in Cpus, Loose(d)' PROVE LooseOK(d)'
  BY <1>a, <1>b, <1>5 DEF LooseOK, Loose
<1>6. ASSUME NEW d \in Cpus PROVE OnTables(d)'
  BY <1>a, <1>b DEF OnTables, TypeOK
<1> QED
  BY <1>b, <1>1, <1>2, <1>3, <1>4, <1>5, <1>6

(* SwitchOut: switch_mm away from it. *)
LEMMA SwitchOutKeeps ==
  ASSUME IInv, NEW c \in Cpus, SwitchOut(c)
  PROVE  IInv'
<1> USE DEF IInv
<1>a. /\ pc[c] = "run" /\ \A d \in Cpus : pc[d] # "saved"
      /\ user' = user \ {c} /\ active' = active \ {c} /\ lazy' = lazy \ {c} /\ mask' = mask \ {c}
      /\ UNCHANGED <<life, boss, flag, saved, ptl, tgt, todo, ipi, scan, kmiss, oops>>
  BY DEF SwitchOut, Running, mmVars, dropVars
<1>b. /\ xen' = xen /\ pl' = pl /\ cur3' = cur3 /\ Locals' /\ Locks' /\ Flags' /\ Tagged'
      /\ (\A d \in Cpus : Len(q'[d]) <= MCBatch) /\ (Walking' <=> Walking)
      /\ \A d \in Cpus : Queued(d)' /\ (Loose(d)' <=> Loose(d))
      /\ pc'[c] = "switch" /\ \A d \in Cpus : d # c => pc'[d] = pc[d]
  <2>1. /\ Enqueue(c, Cr3Ops(c, Swapper), Cr3Call(Swapper), pl) /\ Goto(c, "switch")
        /\ UNCHANGED <<mmVars, tgt, todo, dropVars, kmiss, oops>>
    BY DEF SwitchOut
  <2>2. \A d \in Cpus \ {c} : pc[d] # "saved" /\ (d \in user' <=> d \in user)
    BY <1>a
  <2>3. Swapper \in {Swapper, "pgd"} /\ Swapper # "pgd"
    BY DEF Swapper
  <2> QED
    BY <1>a, <2>1, <2>2, <2>3, SwitchQueues
<1>1. TypeOK'
  BY <1>a, <1>b DEF TypeOK
<1>2. Turns'
  BY <1>a, <1>b DEF Turns
<1>3. Staged'
  BY <1>a, <1>b DEF Staged
<1>4. XenObeyed'
  BY <1>a, <1>b DEF XenObeyed, NoStrayStore, NeverRefused
<1>5. ASSUME NEW d \in Cpus, Loose(d)' PROVE LooseOK(d)'
  BY <1>a, <1>b, <1>5 DEF LooseOK, Loose
<1>6. ASSUME NEW d \in Cpus PROVE OnTables(d)'
  <2>1. life = "exit" => pc'[boss] = pc[boss]
    BY <1>a, <1>b DEF Turns
  <2>2. (d \in active' \/ pc'[d] = "switch") <=> (d \in active \/ pc[d] = "switch" \/ d = c)
    BY <1>a, <1>b
  <2>3. pc'[d] = "vfault" => pc[d] = "vfault"
    BY <1>b
  <2> QED
    BY <1>a, <1>b, <2>1, <2>2, <2>3 DEF OnTables
<1> QED
  BY <1>b, <1>1, <1>2, <1>3, <1>4, <1>5, <1>6

(* What the steps that load cr3 and flush have in common. *)
LEMMA Reloaded ==
  ASSUME IInv, NEW c \in Cpus, NEW t \in {Swapper, "pgd"}, t = "pgd" => life = "live",
         \/ /\ q[c] = <<>> \/ \E p : q[c] = <<Op("pte", p)>>
            /\ cb[c] = <<>> /\ FlushNow(c, Cr3Ops(c, t), Cr3Call(t), pl)
         \/ q[c] = Cr3Ops(c, t) /\ cb[c] = Cr3Call(t) /\ FlushNow(c, <<>>, <<>>, pl),
         ~Walk(c), pc' \in [Cpus -> PCs], \A d \in Cpus \ {c} : pc'[d] = pc[d],
         pc'[c] \notin {"switch", "pin", "unpin"}, Loose(c)' <=> Loose(c), AtPte(c)' <=> AtPte(c),
         UNCHANGED <<flag, ptl, tgt, todo>>,
         \A d \in Cpus \ {c} : d \in user' <=> d \in user
  PROVE  /\ Locals' /\ Locks' /\ Flags' /\ Tagged' /\ (Walking' <=> Walking)
         /\ (\A d \in Cpus : Len(q'[d]) <= MCBatch /\ Queued(d)' /\ (Loose(d)' <=> Loose(d)))
         /\ pl' = pl /\ cur3' = [cur3 EXCEPT ![c] = t]
         /\ xen'.ro = xen.ro /\ xen'.pin = xen.pin /\ xen'.tree = xen.tree /\ xen'.refused = xen.refused
         /\ xen' \in XenStates /\ xen'.base = [xen.base EXCEPT ![c] = t]
         /\ xen'.ubase = [xen.ubase EXCEPT ![c] = IF t = "pgd" THEN "upgd" ELSE Swapper]
<1> USE DEF IInv
<1>a. /\ xen' = NewBase(xen, c, t) /\ pl' = pl /\ cur3' = [cur3 EXCEPT ![c] = t]
      /\ q' = [q EXCEPT ![c] = <<>>] /\ cb' = [cb EXCEPT ![c] = <<>>]
  <2> HIDE DEF IInv
  <2> QED
    BY FlushCr3, Zenon
<1>b. /\ xen' \in XenStates /\ xen'.ro = xen.ro /\ xen'.pin = xen.pin
      /\ xen'.tree = xen.tree /\ xen'.refused = xen.refused
      /\ xen'.base = [xen.base EXCEPT ![c] = t]
      /\ xen'.ubase = [xen.ubase EXCEPT ![c] = IF t = "pgd" THEN "upgd" ELSE Swapper]
  <2> HIDE DEF IInv
  <2> QED
    BY <1>a, MovedBase, Zenon
<1>c. /\ q'[c] = <<>> /\ cb'[c] = <<>> /\ (\A d \in Cpus \ {c} : q'[d] = q[d] /\ cb'[d] = cb[d])
      /\ q' \in [Cpus -> Seq(Multicalls)] /\ cb' \in [Cpus -> Seq(Callbacks)]
  <2>1. q \in [Cpus -> Seq(Multicalls)] /\ cb \in [Cpus -> Seq(Callbacks)]
    BY DEF Locals
  <2>2. <<>> \in Seq(Multicalls) /\ <<>> \in Seq(Callbacks)
    OBVIOUS
  <2> HIDE DEF IInv
  <2> QED
    BY <1>a, <2>1, <2>2
<1>d. UNCHANGED <<flag, ptl, tgt, todo>> /\ ~Walk(c)' /\ pc'[c] # "switch"
      /\ (\A d \in Cpus \ {c} : pc'[d] = pc[d]) /\ pc' \in [Cpus -> PCs]
      /\ (pc[c] = "pin" <=> pc'[c] = "pin") /\ (pc[c] = "unpin" <=> pc'[c] = "unpin")
      /\ \A d \in Cpus \ {c} : d \in user' <=> d \in user
  BY DEF Walk
<1>e. \A d \in Cpus : (Loose(d)' <=> Loose(d)) /\ (Walk(d)' <=> Walk(d)) /\ (AtPte(d)' <=> AtPte(d))
  BY <1>d DEF Walk, Loose, AtPte
<1>f. (Walking' <=> Walking) /\ Rest' = Rest
  <2>1. Walking' <=> Walking
    BY <1>e DEF Walking
  <2>2. Walking => ptl # c /\ ptl \in Cpus
    BY WalkAlone
  <2> QED
    BY <1>c, <1>d, <2>1, <2>2 DEF Rest
<1>1. ASSUME NEW d \in Cpus PROVE Len(q'[d]) <= MCBatch
  <2>1. CASE d = c
    BY <1>c, <2>1
  <2>2. CASE d # c
    BY <1>c, <2>2 DEF TypeOK
  <2> QED
    BY <2>1, <2>2
<1>2. Locals'
  <2>1. \A d \in Cpus : AtPte(d)' => tgt'[d] \in Ptes
    BY <1>d, <1>e DEF Locals
  <2> QED
    BY <1>b, <1>c, <1>d, <2>1 DEF Locals
<1>3. Locks'
  <2>1. pl' = pl /\ xen'.tree = xen.tree /\ tgt' = tgt
    BY <1>a, <1>b, <1>d
  <2>2. \A d \in Cpus : Walk(d) => cb'[d] = cb[d]
    BY <1>c, Zenon
  <2> QED
    BY <1>e, <2>1, <2>2 DEF Locks
<1>4. Flags'
  <2> HIDE DEF IInv
  <2> QED
    BY <1>a, <1>d, <1>f, FlagsBase
<1>5. Tagged'
  <2>1. \A d \in Cpus : (pc'[d] = "pin" <=> pc[d] = "pin") /\ (pc'[d] = "unpin" <=> pc[d] = "unpin")
    BY <1>d
  <2> QED
    BY <1>b, <1>d, <1>e, <1>f, <2>1, TaggedSame
<1>6. ASSUME NEW d \in Cpus PROVE Queued(d)'
  <2>1. CASE d = c
    BY <1>c, <1>d, <2>1 DEF Queued, Walk
  <2>2. CASE d # c
    BY <1>c, <1>d, <2>2 DEF Queued, Walk
  <2> QED
    BY <2>1, <2>2
<1> QED
  BY <1>a, <1>b, <1>e, <1>f, <1>1, <1>2, <1>3, <1>4, <1>5, <1>6

(* SwitchEnd: the queued switch is carried out. *)
LEMMA SwitchEndKeeps ==
  ASSUME IInv, NEW c \in Cpus, SwitchEnd(c)
  PROVE  IInv'
<1> USE DEF IInv
<1>a. /\ pc[c] = "switch" /\ pc' = [pc EXCEPT ![c] = "run"] /\ pc \in [Cpus -> PCs]
      /\ UNCHANGED <<life, boss, flag, saved, ptl, mask, user, active, lazy, tgt, todo, ipi, scan, kmiss, oops>>
      /\ FlushNow(c, <<>>, <<>>, pl)
  BY DEF SwitchEnd, Goto, Locals, mmVars, cpuVars, dropVars
<1>b. PICK t \in {Swapper, "pgd"} :
        q[c] = Cr3Ops(c, t) /\ cb[c] = Cr3Call(t) /\ (t = "pgd" => c \in user)
  BY <1>a DEF Queued
<1>c. t = "pgd" => life = "live" /\ c \in active /\ "pgd" \in flag
  BY <1>b DEF Turns, Staged
<1>d. pc'[c] = "run" /\ (\A d \in Cpus \ {c} : pc'[d] = pc[d]) /\ pc' \in [Cpus -> PCs]
  BY <1>a DEF PCs
<1>e. ~Walk(c) /\ ~Loose(c) /\ ~AtPte(c) /\ ~Loose(c)' /\ ~AtPte(c)' /\ pc'[c] \notin {"switch", "pin", "unpin"}
  BY <1>a, <1>d DEF Walk, Loose, AtPte
<1>f. /\ Locals' /\ Locks' /\ Flags' /\ Tagged' /\ (Walking' <=> Walking)
      /\ (\A d \in Cpus : Len(q'[d]) <= MCBatch /\ Queued(d)' /\ (Loose(d)' <=> Loose(d)))
      /\ pl' = pl /\ cur3' = [cur3 EXCEPT ![c] = t]
      /\ xen'.ro = xen.ro /\ xen'.pin = xen.pin /\ xen'.tree = xen.tree /\ xen'.refused = xen.refused
      /\ xen' \in XenStates /\ xen'.base = [xen.base EXCEPT ![c] = t]
      /\ xen'.ubase = [xen.ubase EXCEPT ![c] = IF t = "pgd" THEN "upgd" ELSE Swapper]
  <2>1. UNCHANGED <<flag, ptl, tgt, todo>> /\ \A d \in Cpus \ {c} : d \in user' <=> d \in user
    BY <1>a
  <2> HIDE DEF IInv
  <2> QED
    BY <1>a, <1>b, <1>c, <1>d, <1>e, <2>1, Reloaded, ZenonT(30)
<1>1. TypeOK'
  BY <1>a, <1>f DEF TypeOK, XenStates
<1>2. Turns'
  BY <1>a, <1>d DEF Turns
<1>3. Staged'
  BY <1>a, <1>d, <1>f DEF Staged
<1>4. XenObeyed'
  BY <1>a, <1>f DEF XenObeyed, NoStrayStore, NeverRefused
<1>5. ASSUME NEW d \in Cpus, Loose(d)' PROVE LooseOK(d)'
  BY <1>a, <1>d, <1>f, <1>5 DEF LooseOK, Loose
<1>6. ASSUME NEW d \in Cpus PROVE OnTables(d)'
  <2>1. cur3 \in [Cpus -> {Swapper, "pgd"}] /\ xen.base \in [Cpus -> {Swapper, "pgd"}]
        /\ xen.ubase \in [Cpus -> {Swapper, "upgd"}] /\ Swapper # "pgd" /\ Swapper # "upgd"
    BY DEF TypeOK, Swapper
  <2>2. life = "exit" => pc'[boss] = pc[boss]
    BY <1>a, <1>d DEF Turns
  <2>3. CASE d = c
    BY <1>a, <1>c, <1>d, <1>f, <2>1, <2>3 DEF OnTables
  <2>4. CASE d # c
    BY <1>a, <1>d, <1>f, <2>1, <2>2, <2>4 DEF OnTables
  <2> QED
    BY <2>3, <2>4
<1> QED
  BY <1>f, <1>1, <1>2, <1>3, <1>4, <1>5, <1>6

(* ExecSwitch: activate_mm. *)
LEMMA ExecSwitchKeeps ==
  ASSUME IInv, NEW c \in Cpus, ExecSwitch(c)
  PROVE  IInv'
<1> USE DEF IInv
<1>a. /\ pc[c] = "run" /\ (\A d \in Cpus : pc[d] # "saved") /\ life = "live" /\ user = {} /\ user' = {c}
      /\ active' = active \cup {c} /\ mask' = mask \cup {c} /\ lazy' = lazy \ {c}
      /\ UNCHANGED <<life, boss, flag, saved, ptl, pc, tgt, todo, ipi, scan, kmiss, oops>>
      /\ FlushNow(c, Cr3Ops(c, "pgd"), Cr3Call("pgd"), pl)
  BY DEF ExecSwitch, Running, LoadCr3, mmVars, dropVars
<1>b. q[c] = <<>> /\ cb[c] = <<>> /\ "pgd" \in {Swapper, "pgd"}
  BY <1>a DEF Queued
<1>d. pc'[c] = "run" /\ (\A d \in Cpus \ {c} : pc'[d] = pc[d]) /\ pc' \in [Cpus -> PCs]
  BY <1>a DEF Locals
<1>e. ~Walk(c) /\ ~Loose(c) /\ ~AtPte(c) /\ ~Loose(c)' /\ ~AtPte(c)' /\ pc'[c] \notin {"switch", "pin", "unpin"}
  BY <1>a, <1>d DEF Walk, Loose, AtPte
<1>f. /\ Locals' /\ Locks' /\ Flags' /\ Tagged' /\ (Walking' <=> Walking)
      /\ (\A d \in Cpus : Len(q'[d]) <= MCBatch /\ Queued(d)' /\ (Loose(d)' <=> Loose(d)))
      /\ pl' = pl /\ cur3' = [cur3 EXCEPT ![c] = "pgd"]
      /\ xen'.ro = xen.ro /\ xen'.pin = xen.pin /\ xen'.tree = xen.tree /\ xen'.refused = xen.refused
      /\ xen' \in XenStates /\ xen'.base = [xen.base EXCEPT ![c] = "pgd"]
      /\ xen'.ubase = [xen.ubase EXCEPT ![c] = IF "pgd" = "pgd" THEN "upgd" ELSE Swapper]
  <2>1. UNCHANGED <<flag, ptl, tgt, todo>> /\ \A d \in Cpus \ {c} : d \in user' <=> d \in user
    BY <1>a
  <2> HIDE DEF IInv
  <2> QED
    BY <1>a, <1>b, <1>d, <1>e, <2>1, Reloaded
<1>1. TypeOK'
  BY <1>a, <1>f DEF TypeOK, XenStates
<1>2. Turns'
  BY <1>a, <1>d DEF Turns
<1>3. Staged'
  BY <1>a, <1>d, <1>f DEF Staged
<1>4. XenObeyed'
  BY <1>a, <1>f DEF XenObeyed, NoStrayStore, NeverRefused
<1>5. ASSUME NEW d \in Cpus, Loose(d)' PROVE LooseOK(d)'
  BY <1>a, <1>d, <1>f, <1>5 DEF LooseOK, Loose
<1>6. ASSUME NEW d \in Cpus PROVE OnTables(d)'
  <2>1. cur3 \in [Cpus -> {Swapper, "pgd"}] /\ xen.base \in [Cpus -> {Swapper, "pgd"}]
        /\ xen.ubase \in [Cpus -> {Swapper, "upgd"}] /\ "pgd" \in flag
    BY <1>a DEF TypeOK, Staged
  <2>2. CASE d = c
    BY <1>a, <1>d, <1>f, <2>1, <2>2 DEF OnTables
  <2>3. CASE d # c
    BY <1>a, <1>d, <1>f, <2>1, <2>3 DEF OnTables
  <2> QED
    BY <2>2, <2>3
<1> QED
  BY <1>f, <1>1, <1>2, <1>3, <1>4, <1>5, <1>6

(* The same steps when there is nothing to load. *)
LEMMA Untouched ==
  ASSUME IInv, NEW c \in Cpus, UNCHANGED <<xen, q, cb, cur3, pl, flag, ptl, tgt, todo, user>>,
         ~Walk(c), pc' \in [Cpus -> PCs], \A d \in Cpus \ {c} : pc'[d] = pc[d],
         pc'[c] = pc[c] \/ {pc[c], pc'[c]} \cap {"switch", "lazymmu", "pin", "unpin"} = {},
         Loose(c)' <=> Loose(c), AtPte(c)' <=> AtPte(c)
  PROVE  /\ Locals' /\ Locks' /\ Flags' /\ Tagged' /\ (Walking' <=> Walking)
         /\ (\A d \in Cpus : Len(q'[d]) <= MCBatch /\ Queued(d)' /\ (Loose(d)' <=> Loose(d)))
<1> USE DEF IInv
<1>d. UNCHANGED <<xen, q, cb, cur3, pl, flag, ptl, tgt, todo>> /\ ~Walk(c)' /\ pc' \in [Cpus -> PCs]
      /\ (\A d \in Cpus : (pc[d] = "pin" <=> pc'[d] = "pin") /\ (pc[d] = "unpin" <=> pc'[d] = "unpin"))
  BY DEF Walk
<1>e. \A d \in Cpus : (Loose(d)' <=> Loose(d)) /\ (Walk(d)' <=> Walk(d)) /\ (AtPte(d)' <=> AtPte(d))
  BY <1>d DEF Walk, Loose, AtPte
<1>f. (Walking' <=> Walking) /\ Rest' = Rest
  BY <1>d, <1>e DEF Walking, Rest
<1>1. ASSUME NEW d \in Cpus PROVE Len(q'[d]) <= MCBatch
  BY <1>d DEF TypeOK
<1>2. Locals'
  BY <1>d, <1>e DEF Locals
<1>3. Locks'
  BY <1>d, <1>e DEF Locks
<1>4. Flags'
  BY <1>d, <1>f, FlagsSame
<1>5. Tagged'
  BY <1>d, <1>e, <1>f, TaggedSame
<1>6. ASSUME NEW d \in Cpus PROVE Queued(d)'
  <2>1. pc'[d] = pc[d] \/ {pc[d], pc'[d]} \cap {"switch", "lazymmu", "pin", "unpin"} = {}
    OBVIOUS
  <2>2. Queued(d)
    OBVIOUS
  <2>3. CASE pc'[d] = pc[d]
    BY <1>d, <2>2, <2>3 DEF Queued, Walk
  <2>4. CASE {pc[d], pc'[d]} \cap {"switch", "lazymmu", "pin", "unpin"} = {}
    BY <1>d, <2>2, <2>4 DEF Queued, Walk
  <2> QED
    BY <2>1, <2>3, <2>4
<1> QED
  BY <1>e, <1>f, <1>1, <1>2, <1>3, <1>4, <1>5, <1>6

(* DropSelf: the exiting CPU leaves the tables. *)
LEMMA DropSelfKeeps ==
  ASSUME IInv, NEW c \in Cpus, DropSelf(c)
  PROVE  IInv'
<1> USE DEF IInv
<1>a. /\ pc[c] = "exit" /\ pc \in [Cpus -> PCs]
      /\ UNCHANGED <<life, boss, flag, saved, ptl, user, active, lazy, tgt, todo, kmiss, oops>>
      /\ mask' \subseteq mask
      /\ \/ ipi' = mask' /\ scan' = scan /\ pc' = [pc EXCEPT ![c] = "masked"]
         \/ scan' = Cpus /\ ipi' = ipi /\ pc' = [pc EXCEPT ![c] = "drop"]
  BY DEF DropSelf, Goto, Locals, mmVars
<1>b. q[c] = <<>> /\ cb[c] = <<>> /\ life = "exit" /\ boss = c /\ user = {}
  BY <1>a DEF Queued, Turns
<1>d. /\ pc'[c] \in {"masked", "drop"} /\ (\A d \in Cpus \ {c} : pc'[d] = pc[d]) /\ pc' \in [Cpus -> PCs]
      /\ (pc'[c] = "drop" => scan' = Cpus)
  BY <1>a DEF PCs
<1>e. /\ ~Walk(c) /\ ~Loose(c) /\ ~AtPte(c) /\ ~Loose(c)' /\ ~AtPte(c)' /\ pc'[c] \notin {"switch", "pin", "unpin"}
      /\ {pc[c], pc'[c]} \cap {"switch", "lazymmu", "pin", "unpin"} = {}
  BY <1>a, <1>d DEF Walk, Loose, AtPte
<1>g. /\ cur3 \in [Cpus -> {Swapper, "pgd"}] /\ xen.base \in [Cpus -> {Swapper, "pgd"}]
      /\ xen.ubase \in [Cpus -> {Swapper, "upgd"}] /\ Swapper # "pgd" /\ Swapper # "upgd"
  BY DEF TypeOK, Swapper
<1>f. /\ Locals' /\ Locks' /\ Flags' /\ Tagged' /\ (Walking' <=> Walking)
      /\ (\A d \in Cpus : Len(q'[d]) <= MCBatch /\ Queued(d)' /\ (Loose(d)' <=> Loose(d)))
      /\ pl' = pl /\ xen'.ro = xen.ro /\ xen'.pin = xen.pin /\ xen'.tree = xen.tree
      /\ xen'.refused = xen.refused /\ xen' \in XenStates
      /\ cur3' \in [Cpus -> {Swapper, "pgd"}]
      /\ cur3'[c] = Swapper /\ xen'.base[c] = Swapper /\ xen'.ubase[c] = Swapper
      /\ \A d \in Cpus \ {c} : cur3'[d] = cur3[d] /\ xen'.base[d] = xen.base[d] /\ xen'.ubase[d] = xen.ubase[d]
  <2>1. UNCHANGED <<flag, ptl, tgt, todo, user>>
    BY <1>a
  <2>2. CASE c \in active
    <3>1. FlushNow(c, Cr3Ops(c, Swapper), Cr3Call(Swapper), pl)
      BY <2>2 DEF DropSelf, LoadCr3
    <3>2. Swapper \in {Swapper, "pgd"} /\ (Swapper = "pgd" => life = "live")
          /\ \A d \in Cpus \ {c} : d \in user' <=> d \in user
      BY <1>g, <2>1
    <3>3. /\ Locals' /\ Locks' /\ Flags' /\ Tagged' /\ (Walking' <=> Walking)
          /\ (\A d \in Cpus : Len(q'[d]) <= MCBatch /\ Queued(d)' /\ (Loose(d)' <=> Loose(d)))
          /\ pl' = pl /\ cur3' = [cur3 EXCEPT ![c] = Swapper]
          /\ xen'.ro = xen.ro /\ xen'.pin = xen.pin /\ xen'.tree = xen.tree /\ xen'.refused = xen.refused
          /\ xen' \in XenStates /\ xen'.base = [xen.base EXCEPT ![c] = Swapper]
          /\ xen'.ubase = [xen.ubase EXCEPT ![c] = IF Swapper = "pgd" THEN "upgd" ELSE Swapper]
      <4> HIDE DEF IInv
      <4> QED
        BY <1>b, <1>d, <1>e, <2>1, <3>1, <3>2, Reloaded
    <3> QED
      BY <1>g, <3>3
  <2>3. CASE c \notin active
    <3>1. UNCHANGED <<xen, q, cb, cur3, pl, flag, ptl, tgt, todo, user>>
      BY <2>1, <2>3 DEF DropSelf
    <3>2. /\ Locals' /\ Locks' /\ Flags' /\ Tagged' /\ (Walking' <=> Walking)
          /\ (\A d \in Cpus : Len(q'[d]) <= MCBatch /\ Queued(d)' /\ (Loose(d)' <=> Loose(d)))
      <4> HIDE DEF IInv
      <4> QED
        BY <1>d, <1>e, <3>1, Untouched
    <3>3. cur3[c] = Swapper /\ xen.base[c] = Swapper /\ xen.ubase[c] = Swapper
      BY <1>a, <1>g, <2>3 DEF OnTables
    <3> QED
      BY <1>g, <3>1, <3>2, <3>3 DEF Locals
  <2> QED
    BY <2>2, <2>3
<1>1. TypeOK'
  BY <1>a, <1>f DEF TypeOK, XenStates
<1>2. Turns'
  BY <1>a, <1>b, <1>d DEF Turns
<1>3. Staged'
  BY <1>a, <1>b, <1>d, <1>f DEF Staged
<1>4. XenObeyed'
  BY <1>a, <1>f DEF XenObeyed, NoStrayStore, NeverRefused
<1>5. ASSUME NEW d \in Cpus, Loose(d)' PROVE LooseOK(d)'
  BY <1>a, <1>d, <1>e, <1>f, <1>5 DEF LooseOK, Loose
<1>6. ASSUME NEW d \in Cpus PROVE OnTables(d)'
  <2>1. CASE d = c
    BY <1>d, <1>f, <1>g, <2>1 DEF OnTables
  <2>2. CASE d # c
    BY <1>a, <1>b, <1>d, <1>f, <2>2 DEF OnTables
  <2> QED
    BY <2>1, <2>2
<1> QED
  BY <1>f, <1>1, <1>2, <1>3, <1>4, <1>5, <1>6

(* DropOther: another one does, in the call. *)
LEMMA DropOtherKeeps ==
  ASSUME IInv, NEW c \in Cpus, DropOther(c)
  PROVE  IInv'
<1> USE DEF IInv
<1>a. /\ pc[c] \notin {"switch", "pin", "unpin", "exit", "masked", "vfault"} /\ pc \in [Cpus -> PCs]
      /\ UNCHANGED <<life, boss, flag, saved, ptl, user, active, lazy, pc, tgt, todo, scan, kmiss, oops>>
      /\ mask' \subseteq mask /\ ipi' = ipi \ {c}
  BY DEF DropOther, TakesIpi, Locals, mmVars
<1>b. (q[c] = <<>> \/ \E p : q[c] = <<Op("pte", p)>>) /\ cb[c] = <<>>
  BY <1>a DEF Queued
<1>d. pc' \in [Cpus -> PCs] /\ (\A d \in Cpus \ {c} : pc'[d] = pc[d]) /\ pc'[c] = pc[c]
      /\ pc'[c] \notin {"switch", "pin", "unpin"}
      /\ ~Walk(c) /\ (Loose(c)' <=> Loose(c)) /\ (AtPte(c)' <=> AtPte(c))
  BY <1>a DEF Walk, Loose, AtPte
<1>g. /\ cur3 \in [Cpus -> {Swapper, "pgd"}] /\ xen.base \in [Cpus -> {Swapper, "pgd"}]
      /\ xen.ubase \in [Cpus -> {Swapper, "upgd"}] /\ Swapper # "pgd" /\ Swapper # "upgd"
  BY DEF TypeOK, Swapper
<1>f. /\ Locals' /\ Locks' /\ Flags' /\ Tagged' /\ (Walking' <=> Walking)
      /\ (\A d \in Cpus : Len(q'[d]) <= MCBatch /\ Queued(d)' /\ (Loose(d)' <=> Loose(d)))
      /\ pl' = pl /\ xen'.ro = xen.ro /\ xen'.pin = xen.pin /\ xen'.tree = xen.tree
      /\ xen'.refused = xen.refused /\ xen' \in XenStates
      /\ cur3' \in [Cpus -> {Swapper, "pgd"}]
      /\ cur3'[c] = Swapper /\ xen'.base[c] = Swapper /\ xen'.ubase[c] = Swapper
      /\ \A d \in Cpus \ {c} : cur3'[d] = cur3[d] /\ xen'.base[d] = xen.base[d] /\ xen'.ubase[d] = xen.ubase[d]
  <2>1. UNCHANGED <<flag, ptl, tgt, todo, user>>
    BY <1>a
  <2>2. CASE MustLeave(c)
    <3>1. FlushNow(c, Cr3Ops(c, Swapper), Cr3Call(Swapper), pl)
      BY <2>2 DEF DropOther, LoadCr3
    <3>2. Swapper \in {Swapper, "pgd"} /\ (Swapper = "pgd" => life = "live")
          /\ \A d \in Cpus \ {c} : d \in user' <=> d \in user
      BY <1>g, <2>1
    <3>3. /\ Locals' /\ Locks' /\ Flags' /\ Tagged' /\ (Walking' <=> Walking)
          /\ (\A d \in Cpus : Len(q'[d]) <= MCBatch /\ Queued(d)' /\ (Loose(d)' <=> Loose(d)))
          /\ pl' = pl /\ cur3' = [cur3 EXCEPT ![c] = Swapper]
          /\ xen'.ro = xen.ro /\ xen'.pin = xen.pin /\ xen'.tree = xen.tree /\ xen'.refused = xen.refused
          /\ xen' \in XenStates /\ xen'.base = [xen.base EXCEPT ![c] = Swapper]
          /\ xen'.ubase = [xen.ubase EXCEPT ![c] = IF Swapper = "pgd" THEN "upgd" ELSE Swapper]
      <4> HIDE DEF IInv
      <4> QED
        BY <1>b, <1>d, <2>1, <3>1, <3>2, Reloaded
    <3> QED
      BY <1>g, <3>3
  <2>3. CASE ~MustLeave(c)
    <3>1. UNCHANGED <<xen, q, cb, cur3, pl, flag, ptl, tgt, todo, user>>
      BY <2>1, <2>3 DEF DropOther
    <3>2. /\ Locals' /\ Locks' /\ Flags' /\ Tagged' /\ (Walking' <=> Walking)
          /\ (\A d \in Cpus : Len(q'[d]) <= MCBatch /\ Queued(d)' /\ (Loose(d)' <=> Loose(d)))
      <4> HIDE DEF IInv
      <4> QED
        BY <1>d, <3>1, Untouched
    <3>3. cur3[c] = Swapper /\ xen.base[c] = Swapper /\ xen.ubase[c] = Swapper
      BY <1>a, <1>g, <2>3 DEF OnTables, MustLeave
    <3> QED
      BY <1>g, <3>1, <3>2, <3>3 DEF Locals
  <2> QED
    BY <2>2, <2>3
<1>1. TypeOK'
  BY <1>a, <1>f DEF TypeOK, XenStates
<1>2. Turns'
  BY <1>a DEF Turns
<1>3. Staged'
  BY <1>a, <1>f DEF Staged
<1>4. XenObeyed'
  BY <1>a, <1>f DEF XenObeyed, NoStrayStore, NeverRefused
<1>5. ASSUME NEW d \in Cpus, Loose(d)' PROVE LooseOK(d)'
  BY <1>a, <1>f, <1>5 DEF LooseOK, Loose
<1>6. ASSUME NEW d \in Cpus PROVE OnTables(d)'
  <2>1. CASE d = c
    BY <1>a, <1>f, <1>g, <2>1 DEF OnTables
  <2>2. CASE d # c
    BY <1>a, <1>f, <2>2 DEF OnTables
  <2> QED
    BY <2>1, <2>2
<1> QED
  BY <1>f, <1>1, <1>2, <1>3, <1>4, <1>5, <1>6

(* The callbacks of a walk's batch: they unlock the pages it names, no more. *)
LEMMA WalkCallbacks ==
  ASSUME IInv, NEW c \in Cpus, Walk(c), NEW locks
  PROVE  /\ CurrentCr3(c, cb[c]) = cur3
         /\ Unlocked(locks, cb[c]) =
              [p \in Ptes |-> IF Op("unlock", p) \in Range(cb[c]) THEN NoCpu ELSE locks[p]]
<1> DEFINE R == [op : {"unlock"}, p : Ptes]
           s == cb[c]
<1>1. s \in Seq(R)
  BY DEF IInv, Queued
<1>2. \A o \in R : o.op = "unlock"
  OBVIOUS
<1> HIDE DEF R, s
<1>3. DOMAIN s = 1 .. Len(s) /\ (\A i \in DOMAIN s : s[i] \in R) /\ Range(s) = {s[i] : i \in DOMAIN s}
  BY <1>1, RangeSeq
<1>4. {i \in DOMAIN s : s[i].op = "cr3"} = {}
  BY <1>2, <1>3
<1>5. \A p : (\E i \in DOMAIN s : s[i] = Op("unlock", p)) <=> Op("unlock", p) \in Range(s)
  BY <1>3
<1> QED
  BY <1>4, <1>5 DEF Unlocked, CurrentCr3, s

(* Flushing a walk carries out its queue and then its last operations, *)
(* and drops the pte locks its callbacks hold.                         *)
LEMMA WalkFlush ==
  ASSUME IInv, NEW c \in Cpus, Walk(c), NEW ops \in Seq(PageOps), SameKind(q[c], ops),
         Legal(After(xen, q[c], Len(q[c])), ops), FlushNow(c, ops, <<>>, pl)
  PROVE  /\ xen' = After(After(xen, q[c], Len(q[c])), ops, Len(ops))
         /\ xen' \in XenStates /\ xen'.tree = xen.tree /\ xen'.refused = xen.refused
         /\ xen'.base = xen.base /\ xen'.ubase = xen.ubase /\ cur3' = cur3
         /\ q' \in [Cpus -> Seq(Multicalls)] /\ cb' \in [Cpus -> Seq(Callbacks)]
         /\ q'[c] = <<>> /\ cb'[c] = <<>> /\ (\A d \in Cpus \ {c} : q'[d] = q[d] /\ cb'[d] = cb[d])
         /\ (\A d \in Cpus : Len(q'[d]) <= MCBatch) /\ pl' \in [Ptes -> Cpus \cup {NoCpu}]
         /\ \A p \in Ptes : pl'[p] = IF pl[p] = c THEN NoCpu ELSE pl[p]
<1>1. xen \in XenStates /\ q \in [Cpus -> Seq(Multicalls)] /\ cb \in [Cpus -> Seq(Callbacks)]
      /\ pl \in [Ptes -> Cpus \cup {NoCpu}]
  BY DEF IInv, Locals, TypeOK
<1>2. q[c] \in Seq(PageOps) /\ Legal(xen, q[c])
  BY RestKind DEF IInv, Flags
<1>3. /\ xen' = After(After(xen, q[c], Len(q[c])), ops, Len(ops))
      /\ xen' \in XenStates /\ xen'.tree = xen.tree /\ xen'.refused = xen.refused
      /\ xen'.base = xen.base /\ xen'.ubase = xen.ubase
  <2>1. DOMAIN q = Cpus /\ DOMAIN cb = Cpus
    BY <1>1
  <2> QED
    BY <1>1, <1>2, <2>1, FlushPages
<1>4. /\ pl' = Unlocked(pl, cb[c] \o <<>>) /\ cur3' = CurrentCr3(c, cb[c] \o <<>>)
      /\ q' = [q EXCEPT ![c] = <<>>] /\ cb' = [cb EXCEPT ![c] = <<>>]
  BY Zenon DEF FlushNow
<1>5. cb[c] \o <<>> = cb[c]
  BY <1>1
<1>6. /\ cur3' = cur3
      /\ pl' = [p \in Ptes |-> IF Op("unlock", p) \in Range(cb[c]) THEN NoCpu ELSE pl[p]]
  <2>1. pl' = Unlocked(pl, cb[c]) /\ cur3' = CurrentCr3(c, cb[c])
    BY <1>4, <1>5, Zenon
  <2> QED
    BY <2>1, WalkCallbacks, Zenon
<1>7. \A p \in Ptes : pl[p] = c <=> Op("unlock", p) \in Range(cb[c])
  <2>1. ~AtPte(c)
    BY DEF Walk, AtPte
  <2> QED
    BY <2>1 DEF IInv, Locks
<1>8. /\ q'[c] = <<>> /\ cb'[c] = <<>> /\ (\A d \in Cpus \ {c} : q'[d] = q[d] /\ cb'[d] = cb[d])
      /\ q' \in [Cpus -> Seq(Multicalls)] /\ cb' \in [Cpus -> Seq(Callbacks)]
  BY <1>1, <1>4
<1>9. ASSUME NEW d \in Cpus PROVE Len(q'[d]) <= MCBatch
  <2>1. CASE d = c
    BY <1>8, <2>1
  <2>2. CASE d # c
    BY <1>8, <2>2 DEF IInv, TypeOK
  <2> QED
    BY <2>1, <2>2
<1> QED
  BY <1>1, <1>3, <1>6, <1>7, <1>8, <1>9

(* The pte locks when a walker's batch is through. *)
LEMMA WalkUnlocks ==
  ASSUME IInv, NEW c \in Cpus, Walk(c), cb'[c] = <<>>, \A d \in Cpus \ {c} : cb'[d] = cb[d],
         \A p \in Ptes : pl'[p] = IF pl[p] = c THEN NoCpu ELSE pl[p],
         tgt' = tgt, xen'.tree = xen.tree, ~AtPte(c)', \A d \in Cpus \ {c} : pc'[d] = pc[d]
  PROVE  Locks'
<1>1. \A d \in Cpus \ {c} : AtPte(d)' <=> AtPte(d)
  BY DEF AtPte
<1>2. \A d \in Cpus \ {c} : Walk(d)' <=> Walk(d)
  BY DEF Walk
<1>3. Range(<<>>) = {}
  BY DEF Range
<1>4. \A p \in Ptes, d \in Cpus :
       pl[p] = d <=> \/ AtPte(d) /\ tgt[d] = p
                     \/ Walk(d) /\ Op("unlock", p) \in Range(cb[d])
  BY DEF IInv, Locks
<1>5. \A p \in Ptes, d \in Cpus :
       pl'[p] = d <=> \/ AtPte(d)' /\ tgt'[d] = p
                      \/ Walk(d)' /\ Op("unlock", p) \in Range(cb'[d])
  <2>1. \A p \in Ptes : pl'[p] # c /\ \A d \in Cpus \ {c} : pl'[p] = d <=> pl[p] = d
    OBVIOUS
  <2> QED
    BY <1>1, <1>2, <1>3, <1>4, <2>1
<1>6. \A p \in Ptes : pl'[p] # NoCpu => p \in xen'.tree
  BY DEF IInv, Locks
<1> QED
  BY <1>5, <1>6 DEF Locks

(* MakeRoom: a walk flushes a full buffer. *)
LEMMA MakeRoomKeeps ==
  ASSUME IInv, NEW c \in Cpus, MakeRoom(c)
  PROVE  IInv'
<1> USE DEF IInv
<1>a. /\ Walk(c) /\ FlushNow(c, <<>>, <<>>, pl)
      /\ UNCHANGED <<life, boss, flag, saved, ptl, mask, user, active, lazy, pc, tgt, todo, ipi, scan, kmiss, oops>>
  BY DEF MakeRoom, Walk, mmVars, cpuVars, dropVars
<1> DEFINE y == After(xen, q[c], Len(q[c]))
<1>b. /\ Walking /\ ptl = c /\ Rest = q[c] /\ q[c] \in Seq(PageOps) /\ xen \in XenStates
      /\ SameKind(q[c], <<>>) /\ y \in XenStates
  <2>1. Upward(<<>>) /\ Downward(<<>>)
    BY DEF Upward, Downward
  <2>2. Len(q[c]) \in 0 .. Len(q[c])
    BY <1>a, RestKind
  <2> QED
    BY <1>a, <2>1, <2>2, RestKind, AfterFields DEF SameKind, Walk, Locals
<1>c. /\ xen' = y /\ xen' \in XenStates /\ xen'.tree = xen.tree /\ xen'.refused = xen.refused
      /\ xen'.base = xen.base /\ xen'.ubase = xen.ubase /\ cur3' = cur3
      /\ q' \in [Cpus -> Seq(Multicalls)] /\ cb' \in [Cpus -> Seq(Callbacks)]
      /\ q'[c] = <<>> /\ cb'[c] = <<>> /\ (\A d \in Cpus \ {c} : q'[d] = q[d] /\ cb'[d] = cb[d])
      /\ (\A d \in Cpus : Len(q'[d]) <= MCBatch) /\ pl' \in [Ptes -> Cpus \cup {NoCpu}]
      /\ \A p \in Ptes : pl'[p] = IF pl[p] = c THEN NoCpu ELSE pl[p]
  <2> HIDE DEF IInv
  <2>1. <<>> \in Seq(PageOps) /\ Legal(y, <<>>) /\ After(y, <<>>, Len(<<>>)) = y
    BY <1>b, EmptyBatch
  <2> QED
    BY <1>a, <1>b, <2>1, WalkFlush, ZenonT(30)
<1> HIDE DEF y
<1>d. \A d \in Cpus : (Walk(d)' <=> Walk(d)) /\ (AtPte(d)' <=> AtPte(d)) /\ (Loose(d)' <=> Loose(d))
  BY <1>a DEF Walk, AtPte, Loose
<1>e. Walking' /\ Rest' = <<>>
  BY <1>a, <1>b, <1>c, <1>d DEF Walking, Rest
<1>1. TypeOK'
  BY <1>a, <1>c DEF TypeOK, XenStates
<1>2. Locals'
  BY <1>a, <1>c, <1>d DEF Locals
<1>3. Turns'
  BY <1>a DEF Turns
<1>4. Locks'
  <2>1. ~AtPte(c)'
    BY <1>a DEF Walk, AtPte
  <2> HIDE DEF IInv
  <2> QED
    BY <1>a, <1>c, <2>1, WalkUnlocks
<1>5. Flags'
  <2>1. Legal(xen', <<>>) /\ After(xen', <<>>, Len(<<>>)) = xen'
    BY <1>c, EmptyBatch
  <2>2. xen'.ro = flag /\ xen'.pin = flag \cap (Ptes \cup {"upgd"})
    BY <1>b, <1>c DEF Flags, y
  <2> QED
    BY <1>a, <1>e, <2>1, <2>2 DEF Flags
<1>6. Tagged'
  BY <1>a, <1>b, <1>c, <1>d, <1>e, TaggedSame
<1>7. Staged'
  BY <1>a, <1>b, <1>e DEF Staged
<1>8. XenObeyed'
  BY <1>a, <1>c DEF XenObeyed, NoStrayStore, NeverRefused
<1>9. ASSUME NEW d \in Cpus PROVE Queued(d)'
  <2>1. CASE d = c
    BY <1>a, <1>c, <2>1 DEF Queued, Walk
  <2>2. CASE d # c
    BY <1>a, <1>c, <2>2 DEF Queued, Walk
  <2> QED
    BY <2>1, <2>2
<1>10. ASSUME NEW d \in Cpus, Loose(d)' PROVE LooseOK(d)'
  BY <1>a, <1>c, <1>10 DEF LooseOK, Loose
<1>11. ASSUME NEW d \in Cpus PROVE OnTables(d)'
  BY <1>a, <1>c DEF OnTables
<1> QED
  BY <1>1, <1>2, <1>3, <1>4, <1>5, <1>6, <1>7, <1>8, <1>9, <1>10, <1>11

(* UnpinEnd: the unpinning walk ends. *)
LEMMA UnpinEndKeeps ==
  ASSUME IInv, NEW c \in Cpus, UnpinEnd(c)
  PROVE  IInv'
<1> USE DEF IInv
<1>a. /\ pc[c] = "unpin" /\ Walk(c) /\ todo = <<>> /\ FlushNow(c, <<>>, <<>>, pl) /\ life' = "down" /\ ptl' = NoCpu
      /\ pc' = [pc EXCEPT ![c] = "run"] /\ pc \in [Cpus -> PCs]
      /\ UNCHANGED <<boss, flag, saved, mask, user, active, lazy, tgt, todo, ipi, scan, kmiss, oops>>
  BY DEF UnpinEnd, Walk, Goto, Locals, mmVars, cpuVars, dropVars
<1> DEFINE y == After(xen, q[c], Len(q[c]))
<1>b. /\ Walking /\ ptl = c /\ Rest = q[c] /\ q[c] \in Seq(PageOps) /\ xen \in XenStates
      /\ SameKind(q[c], <<>>) /\ y \in XenStates
  <2>1. Upward(<<>>) /\ Downward(<<>>)
    BY DEF Upward, Downward
  <2>2. Len(q[c]) \in 0 .. Len(q[c])
    BY <1>a, RestKind
  <2> QED
    BY <1>a, <2>1, <2>2, RestKind, AfterFields DEF SameKind, Walk, Locals
<1>c. /\ xen' = y /\ xen' \in XenStates /\ xen'.tree = xen.tree /\ xen'.refused = xen.refused
      /\ xen'.base = xen.base /\ xen'.ubase = xen.ubase /\ cur3' = cur3
      /\ q' \in [Cpus -> Seq(Multicalls)] /\ cb' \in [Cpus -> Seq(Callbacks)]
      /\ q'[c] = <<>> /\ cb'[c] = <<>> /\ (\A d \in Cpus \ {c} : q'[d] = q[d] /\ cb'[d] = cb[d])
      /\ (\A d \in Cpus : Len(q'[d]) <= MCBatch) /\ pl' \in [Ptes -> Cpus \cup {NoCpu}]
      /\ \A p \in Ptes : pl'[p] = IF pl[p] = c THEN NoCpu ELSE pl[p]
  <2> HIDE DEF IInv
  <2>1. <<>> \in Seq(PageOps) /\ Legal(y, <<>>) /\ After(y, <<>>, Len(<<>>)) = y
    BY <1>b, EmptyBatch
  <2> QED
    BY <1>a, <1>b, <2>1, WalkFlush, ZenonT(30)
<1> HIDE DEF y
<1>d. /\ pc'[c] = "run" /\ (\A d \in Cpus \ {c} : pc'[d] = pc[d]) /\ pc' \in [Cpus -> PCs]
      /\ life = "exit" /\ boss = c /\ user = {}
  BY <1>a DEF PCs, Turns
<1>e. /\ ~AtPte(c)' /\ \A d \in Cpus : ~Walk(d)' /\ ~Loose(d)' /\ cur3[d] = Swapper /\ xen.base[d] = Swapper
                                      /\ xen.ubase[d] = Swapper /\ pc[d] # "vfault"
  <2>1. \A d \in Cpus \ {c} : ~Walk(d)
    BY <1>a, <1>b, WalkAlone
  <2>2. \A d \in Cpus : ~Loose(d) /\ cur3[d] = Swapper /\ xen.base[d] = Swapper
                                      /\ xen.ubase[d] = Swapper /\ pc[d] # "vfault"
    BY <1>b, WalkAlone
  <2> QED
    BY <1>d, <2>1, <2>2 DEF Walk, Loose, AtPte
<1>f. ~Walking' /\ flag = {}
  <2>1. Range(<<>>) = {}
    BY DEF Range
  <2> QED
    BY <1>a, <1>e, <2>1 DEF Walking, Tagged
<1>1. TypeOK'
  BY <1>a, <1>c DEF TypeOK, XenStates
<1>2. Locals'
  <2>1. \A d \in Cpus : AtPte(d)' => tgt[d] \in Ptes
    BY <1>d, <1>e DEF Locals, AtPte
  <2> QED
    BY <1>a, <1>c, <1>d, <2>1 DEF Locals
<1>3. Turns'
  BY <1>a, <1>d, <1>b DEF Turns
<1>4. Locks'
  <2> HIDE DEF IInv
  <2> QED
    BY <1>a, <1>c, <1>d, <1>e, WalkUnlocks
<1>5. Flags'
  <2>2. xen'.ro = {} /\ xen'.pin = {} /\ flag' = {}
    BY <1>a, <1>b, <1>c, <1>f DEF Flags, y
  <2> QED
    BY <1>c, <1>f, <2>2, FlagsNext
<1>6. Tagged'
  BY <1>a, <1>d, <1>e, <1>f DEF Tagged, Walk, Walking
<1>7. Staged'
  BY <1>a, <1>b, <1>d, <1>f DEF Staged
<1>8. XenObeyed'
  BY <1>a, <1>c DEF XenObeyed, NoStrayStore, NeverRefused
<1>9. ASSUME NEW d \in Cpus PROVE Queued(d)'
  <2>1. CASE d = c
    BY <1>a, <1>c, <1>d, <2>1 DEF Queued, Walk
  <2>2. CASE d # c
    BY <1>a, <1>c, <1>d, <2>2, ZenonT(30) DEF Queued, Walk
  <2> QED
    BY <2>1, <2>2
<1>11. ASSUME NEW d \in Cpus PROVE OnTables(d)'
  BY <1>a, <1>c, <1>d, <1>e DEF OnTables, Swapper
<1> QED
  BY <1>e, <1>1, <1>2, <1>3, <1>4, <1>5, <1>6, <1>7, <1>8, <1>9, <1>11

(* The ends of a walk: the pins of the two roots. *)
LEMMA PinTopDoes ==
  ASSUME NEW x \in XenStates, {"pgd"} \cup x.tree \subseteq x.ro, "pgd" \notin x.pin, "upgd" \notin x.pin,
         NEW z, z = After(x, PinTopOps, Len(PinTopOps))
  PROVE  /\ PinTopOps \in Seq(PageOps) /\ Upward(PinTopOps) /\ Legal(x, PinTopOps)
         /\ z \in XenStates /\ z.ro = x.ro \cup {"upgd"} /\ z.pin = x.pin \cup {"pgd", "upgd"}
         /\ z.tree = x.tree /\ z.refused = x.refused /\ z.base = x.base /\ z.ubase = x.ubase
<1> DEFINE a == Op("pin", "pgd")
           b == Op("ro", "upgd")
           d == Op("pin", "upgd")
           u == Exec(x, a)
           v == Exec(u, b)
           w == Exec(v, d)
<1>1. /\ a \in PageOps /\ a.op = "pin" /\ a.p = "pgd"
      /\ b \in PageOps /\ b.op = "ro" /\ b.p = "upgd"
      /\ d \in PageOps /\ d.op = "pin" /\ d.p = "upgd"
  BY DEF PageOps, Op, Tables
<1>2. PinTopOps = <<a, b, d>>
  BY DEF PinTopOps
<1> HIDE DEF a, b, d
<1>a. "pgd" \notin Ptes /\ "upgd" \notin Ptes
  OBVIOUS
<1>3. Accepts(x, a)
  BY <1>1, <1>a DEF Accepts, AllRO
<1>4. /\ u \in XenStates /\ u.ro = x.ro /\ u.pin = x.pin \cup {"pgd"}
      /\ u.tree = x.tree /\ u.refused = x.refused /\ u.base = x.base /\ u.ubase = x.ubase
  BY <1>1, <1>3, PageOpFields
<1> HIDE DEF u
<1>5. Accepts(u, b)
  BY <1>1 DEF Accepts
<1>6. /\ v \in XenStates /\ v.ro = u.ro \cup {"upgd"} /\ v.pin = u.pin
      /\ v.tree = u.tree /\ v.refused = u.refused /\ v.base = u.base /\ v.ubase = u.ubase
  <2>1. u \in XenStates /\ b \in PageOps /\ b.op = "ro" /\ b.p = "upgd"
    BY <1>1, <1>4
  <2> QED
    BY <1>5, <2>1, PageOpFields, ZenonT(30)
<1> HIDE DEF v
<1>7. Accepts(v, d)
  BY <1>1, <1>a, <1>4, <1>6 DEF Accepts, AllRO
<1>8. /\ w \in XenStates /\ w.ro = v.ro /\ w.pin = v.pin \cup {"upgd"}
      /\ w.tree = v.tree /\ w.refused = v.refused /\ w.base = v.base /\ w.ubase = v.ubase
  <2>1. v \in XenStates /\ d \in PageOps /\ d.op = "pin" /\ d.p = "upgd"
    BY <1>1, <1>6
  <2> QED
    BY <1>7, <2>1, PageOpFields, ZenonT(30)
<1> HIDE DEF w
<1>9. /\ <<a, b, d>> \in Seq(PageOps) /\ Legal(x, <<a, b, d>>) /\ z = w
  <2>1. Accepts(x, a) /\ Accepts(Exec(x, a), b) /\ Accepts(Exec(Exec(x, a), b), d)
    BY <1>3, <1>5, <1>7 DEF u, v
  <2>2. {a.op, b.op, d.op} \subseteq {"ro", "pin"}
    BY <1>1
  <2> QED
    BY <1>1, <1>2, <2>1, <2>2, AfterThree DEF u, v, w
<1>10. Upward(<<a, b, d>>)
  BY <1>1 DEF Upward
<1>11. z.ro = x.ro \cup {"upgd"} /\ z.pin = x.pin \cup {"pgd", "upgd"}
  BY <1>4, <1>6, <1>8, <1>9
<1> QED
  BY <1>2, <1>4, <1>6, <1>8, <1>9, <1>10, <1>11

(* Unpinning the two top pages is accepted once no CPU uses them. *)
LEMMA UnpinTopDoes ==
  ASSUME NEW x \in XenStates, {"pgd", "upgd"} \subseteq x.pin, \A c \in Cpus : x.ubase[c] = Swapper,
         NEW z, z = After(x, UnpinTopOps, Len(UnpinTopOps))
  PROVE  /\ UnpinTopOps \in Seq(PageOps) /\ Downward(UnpinTopOps) /\ Legal(x, UnpinTopOps)
         /\ (\A i \in 1 .. Len(UnpinTopOps) : UnpinTopOps[i].p \in {"pgd", "upgd"})
         /\ z \in XenStates /\ z.ro = x.ro \ {"upgd"} /\ z.pin = x.pin \ {"pgd", "upgd"}
         /\ z.tree = x.tree /\ z.refused = x.refused /\ z.base = x.base /\ z.ubase = x.ubase
<1> DEFINE a == Op("unpin", "pgd")
           b == Op("unpin", "upgd")
           d == Op("rw", "upgd")
           u == Exec(x, a)
           v == Exec(u, b)
           w == Exec(v, d)
<1>1. /\ a \in PageOps /\ a.op = "unpin" /\ a.p = "pgd"
      /\ b \in PageOps /\ b.op = "unpin" /\ b.p = "upgd"
      /\ d \in PageOps /\ d.op = "rw" /\ d.p = "upgd"
  BY DEF PageOps, Op, Tables
<1>2. UnpinTopOps = <<a, b, d>>
  BY DEF UnpinTopOps
<1> HIDE DEF a, b, d
<1>3. Accepts(x, a)
  BY <1>1 DEF Accepts
<1>4. /\ u \in XenStates /\ u.ro = x.ro /\ u.pin = x.pin \ {"pgd"}
      /\ u.tree = x.tree /\ u.refused = x.refused /\ u.base = x.base /\ u.ubase = x.ubase
  BY <1>1, <1>3, PageOpFields, ZenonT(30)
<1> HIDE DEF u
<1>5. Accepts(u, b)
  BY <1>1, <1>4 DEF Accepts
<1>6. /\ v \in XenStates /\ v.ro = u.ro /\ v.pin = u.pin \ {"upgd"}
      /\ v.tree = u.tree /\ v.refused = u.refused /\ v.base = u.base /\ v.ubase = u.ubase
  <2>1. u \in XenStates /\ b \in PageOps /\ b.op = "unpin" /\ b.p = "upgd"
    BY <1>1, <1>4
  <2> QED
    BY <1>5, <2>1, PageOpFields, ZenonT(30)
<1> HIDE DEF v
<1>7. Accepts(v, d)
  <2>1. ~Typed(v, "upgd")
    BY <1>4, <1>6 DEF Typed, Swapper
  <2> QED
    BY <1>1, <2>1 DEF Accepts
<1>8. /\ w \in XenStates /\ w.ro = v.ro \ {"upgd"} /\ w.pin = v.pin
      /\ w.tree = v.tree /\ w.refused = v.refused /\ w.base = v.base /\ w.ubase = v.ubase
  <2>1. v \in XenStates /\ d \in PageOps /\ d.op = "rw" /\ d.p = "upgd"
    BY <1>1, <1>6
  <2>2. w \in XenStates /\ w.tree = v.tree /\ w.refused = v.refused /\ w.base = v.base /\ w.ubase = v.ubase
    BY <1>7, <2>1, PageOpFields
  <2>3. w.ro = v.ro \ {"upgd"}
    <3>1. w.ro = IF d.op = "ro" THEN v.ro \cup {d.p} ELSE IF d.op = "rw" THEN v.ro \ {d.p} ELSE v.ro
      BY <1>7, <2>1, PageOpFields, Zenon
    <3> QED
      BY <2>1, <3>1
  <2>4. w.pin = v.pin
    BY <1>7, <2>1, PageOpFields
  <2> QED
    BY <2>2, <2>3, <2>4
<1> HIDE DEF w
<1>9. /\ <<a, b, d>> \in Seq(PageOps) /\ Legal(x, <<a, b, d>>) /\ z = w
  <2>1. Accepts(x, a) /\ Accepts(Exec(x, a), b) /\ Accepts(Exec(Exec(x, a), b), d)
    BY <1>3, <1>5, <1>7 DEF u, v
  <2>2. {a.op, b.op, d.op} \subseteq {"rw", "unpin"}
    BY <1>1
  <2> QED
    BY <1>1, <1>2, <2>1, <2>2, AfterThree DEF u, v, w
<1>10. Downward(<<a, b, d>>) /\ \A i \in 1 .. Len(<<a, b, d>>) : <<a, b, d>>[i].p \in {"pgd", "upgd"}
  BY <1>1 DEF Downward
<1>11. z.ro = x.ro \ {"upgd"} /\ z.pin = x.pin \ {"pgd", "upgd"}
  BY <1>4, <1>6, <1>8, <1>9
<1> QED
  BY <1>2, <1>4, <1>6, <1>8, <1>9, <1>10, <1>11

(* PinTop: the pinning walk ends with the top pages. *)
LEMMA PinTopKeeps ==
  ASSUME IInv, NEW c \in Cpus, PinTop(c)
  PROVE  IInv'
<1> USE DEF IInv
<1>a. /\ pc[c] = "pin" /\ Walk(c) /\ todo = <<>> /\ FlushNow(c, PinTopOps, <<>>, pl) /\ life' = "live" /\ ptl' = NoCpu
      /\ pc' = [pc EXCEPT ![c] = "run"] /\ pc \in [Cpus -> PCs] /\ flag' = flag \cup {"upgd"}
      /\ UNCHANGED <<boss, saved, mask, user, active, lazy, tgt, todo, ipi, scan, kmiss, oops>>
  BY DEF PinTop, Walk, Goto, Locals, mmVars, cpuVars, dropVars
<1> DEFINE y == After(xen, q[c], Len(q[c]))
           z == After(y, PinTopOps, Len(PinTopOps))
<1>b. /\ Walking /\ ptl = c /\ Rest = q[c] /\ q[c] \in Seq(PageOps) /\ xen \in XenStates
      /\ y \in XenStates /\ y.tree = xen.tree /\ Upward(q[c])
  <2>2. Len(q[c]) \in 0 .. Len(q[c])
    BY <1>a, RestKind
  <2> QED
    BY <1>a, <2>2, RestKind, AfterFields DEF Locals
<1>g. /\ y.ro = {"pgd"} \cup xen.tree /\ y.pin = xen.tree \cap Ptes /\ flag = {"pgd"} \cup xen.tree
      /\ xen.tree \subseteq Inner /\ "pgd" \notin Inner /\ "upgd" \notin Inner
  <2>1. Range(<<>>) = {}
    BY DEF Range
  <2>2. flag = {"pgd"} \cup xen.tree
    BY <1>a, <2>1 DEF Tagged
  <2>3. y.ro = flag /\ y.pin = flag \cap (Ptes \cup {"upgd"})
    BY <1>b DEF Flags
  <2>4. xen.tree \subseteq Inner /\ "pgd" \notin Inner /\ "upgd" \notin Inner
    BY DEF TypeOK, Inner
  <2> HIDE DEF y
  <2> QED
    BY <2>2, <2>3, <2>4
<1>h. /\ PinTopOps \in Seq(PageOps) /\ Upward(PinTopOps) /\ Legal(y, PinTopOps)
      /\ z.ro = y.ro \cup {"upgd"} /\ z.pin = y.pin \cup {"pgd", "upgd"}
  <2> HIDE DEF y
  <2>1. {"pgd"} \cup y.tree \subseteq y.ro /\ "pgd" \notin y.pin /\ "upgd" \notin y.pin
    BY <1>b, <1>g
  <2> QED
    BY <1>b, <2>1, PinTopDoes
<1>c. /\ xen' = z /\ xen' \in XenStates /\ xen'.tree = xen.tree /\ xen'.refused = xen.refused
      /\ xen'.base = xen.base /\ xen'.ubase = xen.ubase /\ cur3' = cur3
      /\ q' \in [Cpus -> Seq(Multicalls)] /\ cb' \in [Cpus -> Seq(Callbacks)]
      /\ q'[c] = <<>> /\ cb'[c] = <<>> /\ (\A d \in Cpus \ {c} : q'[d] = q[d] /\ cb'[d] = cb[d])
      /\ (\A d \in Cpus : Len(q'[d]) <= MCBatch) /\ pl' \in [Ptes -> Cpus \cup {NoCpu}]
      /\ \A p \in Ptes : pl'[p] = IF pl[p] = c THEN NoCpu ELSE pl[p]
  <2> HIDE DEF IInv
  <2>1. SameKind(q[c], PinTopOps)
    BY <1>b, <1>h DEF SameKind
  <2> QED
    BY <1>a, <1>h, <2>1, WalkFlush
<1> HIDE DEF y, z
<1>d. /\ pc'[c] = "run" /\ (\A d \in Cpus \ {c} : pc'[d] = pc[d]) /\ pc' \in [Cpus -> PCs]
      /\ life = "build" /\ boss = c /\ user = {} /\ ~saved
  <2>1. life = "build" /\ boss = c /\ user = {}
    BY <1>a DEF Turns
  <2>2. ~saved
    BY <1>b, WalkAlone DEF Staged
  <2> QED
    BY <1>a, <2>1, <2>2 DEF PCs
<1>e. /\ ~AtPte(c)' /\ \A d \in Cpus : ~Walk(d)' /\ ~Loose(d)' /\ cur3[d] = Swapper /\ xen.base[d] = Swapper
                                      /\ xen.ubase[d] = Swapper /\ pc[d] # "vfault"
  <2>1. \A d \in Cpus \ {c} : ~Walk(d)
    BY <1>a, <1>b, WalkAlone
  <2>2. \A d \in Cpus : ~Loose(d) /\ cur3[d] = Swapper /\ xen.base[d] = Swapper
                                      /\ xen.ubase[d] = Swapper /\ pc[d] # "vfault"
    BY <1>b, WalkAlone
  <2> QED
    BY <1>d, <2>1, <2>2 DEF Walk, Loose, AtPte
<1>f. ~Walking' /\ {d \in Cpus : Loose(d)'} = {}
  BY <1>e DEF Walking
<1>1. TypeOK'
  BY <1>a, <1>c DEF TypeOK, XenStates, Tables
<1>2. Locals'
  <2>1. \A d \in Cpus : AtPte(d)' => tgt[d] \in Ptes
    BY <1>d, <1>e DEF Locals, AtPte
  <2> QED
    BY <1>a, <1>c, <1>d, <2>1 DEF Locals
<1>3. Turns'
  BY <1>a, <1>d, <1>b DEF Turns
<1>4. Locks'
  <2> HIDE DEF IInv
  <2> QED
    BY <1>a, <1>c, <1>d, <1>e, WalkUnlocks
<1>5. Flags'
  <2>1. xen'.ro = flag' /\ xen'.pin = flag' \cap (Ptes \cup {"upgd", "pgd"})
    BY <1>a, <1>c, <1>g, <1>h
  <2> QED
    BY <1>c, <1>f, <2>1, FlagsNext
<1>6. Tagged'
  <2>1. flag' = {"pgd", "upgd"} \cup xen'.tree
    BY <1>a, <1>c, <1>g
  <2>2. {tgt[d] : d \in {d \in Cpus : Loose(d)}}' = {}
    BY <1>f
  <2> QED
    BY <1>e, <1>f, <2>1, <2>2 DEF Tagged, Walk
<1>7. Staged'
  BY <1>a, <1>d, <1>g DEF Staged
<1>8. XenObeyed'
  BY <1>a, <1>c DEF XenObeyed, NoStrayStore, NeverRefused
<1>9. ASSUME NEW d \in Cpus PROVE Queued(d)'
  <2>1. CASE d = c
    BY <1>a, <1>c, <1>d, <2>1 DEF Queued, Walk
  <2>2. CASE d # c
    BY <1>a, <1>c, <1>d, <2>2, ZenonT(30) DEF Queued, Walk
  <2> QED
    BY <2>1, <2>2
<1>11. ASSUME NEW d \in Cpus PROVE OnTables(d)'
  BY <1>a, <1>c, <1>d, <1>e DEF OnTables, Swapper
<1> QED
  BY <1>e, <1>1, <1>2, <1>3, <1>4, <1>5, <1>6, <1>7, <1>8, <1>9, <1>11

(* The elements of a sequence put behind another. *)
LEMMA Behind ==
  ASSUME NEW T, NEW s \in Seq(T), NEW t \in Seq(T)
  PROVE  /\ Cat(s, t) \in Seq(T) /\ Range(Cat(s, t)) = Range(s) \cup Range(t)
         /\ \A i \in 1 .. Len(Cat(s, t)) : \/ \E j \in 1 .. Len(s) : Cat(s, t)[i] = s[j]
                                           \/ \E j \in 1 .. Len(t) : Cat(s, t)[i] = t[j]
<1> DEFINE u == s \o t
<1>1. /\ u \in Seq(T) /\ Len(u) = Len(s) + Len(t) /\ Len(s) \in Nat /\ Len(t) \in Nat
      /\ \A i \in 1 .. Len(s) + Len(t) : u[i] = IF i <= Len(s) THEN s[i] ELSE t[i - Len(s)]
  BY ConcatProperties
<1> HIDE DEF u
<1>2. /\ Range(s) = {s[i] : i \in 1 .. Len(s)} /\ Range(t) = {t[i] : i \in 1 .. Len(t)}
      /\ Range(u) = {u[i] : i \in 1 .. Len(u)}
  BY <1>1, RangeSeq
<1>3. ASSUME NEW i \in 1 .. Len(u)
      PROVE  (\E j \in 1 .. Len(s) : u[i] = s[j]) \/ (\E j \in 1 .. Len(t) : u[i] = t[j])
  <2>1. CASE i <= Len(s)
    BY <1>1, <2>1
  <2>2. CASE ~(i <= Len(s))
    <3>1. i - Len(s) \in 1 .. Len(t) /\ u[i] = t[i - Len(s)]
      BY <1>1, <2>2
    <3> QED
      BY <3>1
  <2> QED
    BY <2>1, <2>2
<1>4. ASSUME NEW j \in 1 .. Len(s) PROVE s[j] \in Range(u)
  <2>1. j \in 1 .. Len(u) /\ u[j] = s[j]
    BY <1>1
  <2> QED
    BY <1>2, <2>1
<1>5. ASSUME NEW j \in 1 .. Len(t) PROVE t[j] \in Range(u)
  <2>1. Len(s) + j \in 1 .. Len(u) /\ ~(Len(s) + j <= Len(s)) /\ (Len(s) + j) - Len(s) = j
    BY <1>1
  <2>2. u[Len(s) + j] = t[j]
    BY <1>1, <2>1
  <2> QED
    BY <1>2, <2>1, <2>2
<1>6. Range(u) = Range(s) \cup Range(t)
  BY <1>2, <1>3, <1>4, <1>5, ZenonT(30)
<1> QED
  BY <1>1, <1>3, <1>6 DEF u, Cat

(* Page operations are multicalls, and the walk's callbacks are callbacks. *)
LEMMA SeqWider ==
  ASSUME NEW s, NEW A, NEW B, A \subseteq B, s \in Seq(A)
  PROVE  s \in Seq(B)
<1>1. s \in [1 .. Len(s) -> B] /\ Len(s) \in Nat
  <2>1. \A i \in 1 .. Len(s) : s[i] \in B
    OBVIOUS
  <2> QED
    BY <2>1
<1> QED
  BY <1>1, SeqDef

(* A walk at page p: its operations behind those of the batch, its lock and  *)
(* the callback that will release it.                                        *)
LEMMA WalkStep ==
  ASSUME IInv, NEW c \in Cpus, Walk(c), NEW p \in {"pgd"} \cup xen.tree, NEW ops \in Seq(PageOps),
         SameKind(q[c], ops), pc[c] = "pin" => Upward(ops), pc[c] = "unpin" => Downward(ops),
         Legal(After(xen, q[c], Len(q[c])), ops), \A i \in 1 .. Len(ops) : ops[i].p = p,
         WalkPage(c, p, ops), UNCHANGED <<pc, tgt, user>>
  PROVE  /\ xen' \in XenStates /\ xen'.tree = xen.tree /\ xen'.refused = xen.refused
         /\ xen'.base = xen.base /\ xen'.ubase = xen.ubase /\ cur3' = cur3
         /\ Legal(xen', q'[c])
         /\ After(xen', q'[c], Len(q'[c])) = After(After(xen, q[c], Len(q[c])), ops, Len(ops))
         /\ q' \in [Cpus -> Seq(Multicalls)] /\ cb' \in [Cpus -> Seq(Callbacks)]
         /\ (\A d \in Cpus : Len(q'[d]) <= MCBatch /\ Queued(d)') /\ Locks'
         /\ pl' \in [Ptes -> Cpus \cup {NoCpu}]
<1> DEFINE calls == IF p \in Ptes THEN <<Op("unlock", p)>> ELSE <<>>
           locks == IF p \in Ptes THEN [pl EXCEPT ![p] = c] ELSE pl
           R == [op : {"unlock"}, p : Ptes]
<1>1. xen \in XenStates /\ q \in [Cpus -> Seq(Multicalls)] /\ cb \in [Cpus -> Seq(Callbacks)]
      /\ pl \in [Ptes -> Cpus \cup {NoCpu}] /\ Len(q[c]) <= MCBatch
  BY DEF IInv, Locals, TypeOK
<1>2. /\ q[c] \in Seq(PageOps) /\ Legal(xen, q[c])
      /\ (pc[c] = "pin" => Upward(q[c])) /\ (pc[c] = "unpin" => Downward(q[c]))
  BY RestKind DEF IInv, Flags
<1>3. Enqueue(c, ops, calls, locks) /\ (p \in Ptes => pl[p] = NoCpu)
  BY DEF WalkPage
<1>4. R \subseteq Callbacks /\ PageOps \subseteq Multicalls
  BY DEF Callbacks, PageOps, Multicalls, Tables, Inner
<1>5. calls \in Seq(R) /\ Range(calls) = (IF p \in Ptes THEN {Op("unlock", p)} ELSE {})
  <2>1. CASE p \in Ptes
    <3> DEFINE o == Op("unlock", p)
    <3>1. o \in R
      BY <2>1 DEF Op
    <3> HIDE DEF o, R
    <3>2. <<o>> \in Seq(R) /\ Range(<<o>>) = {o}
      BY <3>1, RangeShort
    <3>3. calls = <<o>>
      BY <2>1 DEF o
    <3> QED
      BY <2>1, <3>2, <3>3 DEF o
  <2>2. CASE p \notin Ptes
    <3>1. calls = <<>> /\ Range(<<>>) = {}
      BY <2>2 DEF Range
    <3> QED
      BY <2>2, <3>1
  <2> QED
    BY <2>1, <2>2
<1>6. cb[c] \in Seq(R) /\ \A i \in 1 .. Len(q[c]) : q[c][i].p \in Ptes => Op("unlock", q[c][i].p) \in Range(cb[c])
  BY DEF IInv, Queued
<1>7. /\ locks \in [Ptes -> Cpus \cup {NoCpu}]
      /\ \A r \in Ptes : locks[r] = IF r = p THEN c ELSE pl[r]
  BY <1>1
<1>8. calls \in Seq(Callbacks)
  <2> HIDE DEF calls, R
  <2> QED
    BY <1>4, <1>5, SeqWider
<1> HIDE DEF calls, locks, R
<1>9. /\ xen' \in XenStates /\ xen'.tree = xen.tree /\ xen'.refused = xen.refused
      /\ xen'.base = xen.base /\ xen'.ubase = xen.ubase
      /\ q'[c] \in Seq(PageOps) /\ Len(q'[c]) <= MCBatch
      /\ (Upward(q[c]) /\ Upward(ops) => Upward(q'[c]))
      /\ (Downward(q[c]) /\ Downward(ops) => Downward(q'[c]))
      /\ Legal(xen', q'[c])
      /\ After(xen', q'[c], Len(q'[c])) = After(After(xen, q[c], Len(q[c])), ops, Len(ops))
      /\ \/ /\ q'[c] = q[c] \o ops /\ cb'[c] = cb[c] \o calls
            /\ pl' = locks /\ cur3' = cur3
         \/ /\ \A i \in 1 .. Len(q'[c]) : \E j \in 1 .. Len(ops) : q'[c][i] = ops[j]
            /\ cb'[c] = calls /\ pl' = Unlocked(locks, cb[c]) /\ cur3' = CurrentCr3(c, cb[c])
      /\ \A d \in Cpus \ {c} : q'[d] = q[d] /\ cb'[d] = cb[d]
  <2>1. DOMAIN q = Cpus /\ DOMAIN cb = Cpus
    BY <1>1
  <2> QED
    BY <1>1, <1>2, <1>3, <1>8, <2>1, EnqueuePages
<1>10. cb'[c] \in Seq(R) /\ Range(cb'[c]) \in {Range(calls), Range(cb[c]) \cup Range(calls)}
       /\ \A i \in 1 .. Len(q'[c]) : q'[c][i].p \in Ptes => Op("unlock", q'[c][i].p) \in Range(cb'[c])
  <2>1. CASE q'[c] = q[c] \o ops /\ cb'[c] = cb[c] \o calls
    <3> DEFINE s == q[c]
               u == q'[c]
    <3>0. u = Cat(s, ops) /\ cb'[c] = Cat(cb[c], calls)
      BY <2>1 DEF Cat
    <3>1. cb'[c] \in Seq(R) /\ Range(cb'[c]) = Range(cb[c]) \cup Range(calls)
      <4>1. Cat(cb[c], calls) \in Seq(R) /\ Range(Cat(cb[c], calls)) = Range(cb[c]) \cup Range(calls)
        BY <1>5, <1>6, Behind
      <4> QED
        BY <3>0, <4>1
    <3>2. \A i \in 1 .. Len(u) : (\E j \in 1 .. Len(s) : u[i] = s[j]) \/ (\E j \in 1 .. Len(ops) : u[i] = ops[j])
      <4>1. s \in Seq(PageOps)
        BY <1>2
      <4> HIDE DEF s, u
      <4> QED
        BY <3>0, <4>1, Behind
    <3>3. \A i \in 1 .. Len(s) : s[i].p \in Ptes => Op("unlock", s[i].p) \in Range(cb[c])
      BY <1>6
    <3> HIDE DEF s, u
    <3>4. \A i \in 1 .. Len(u) : u[i].p \in Ptes => Op("unlock", u[i].p) \in Range(cb[c]) \cup Range(calls)
      BY <1>5, <3>2, <3>3
    <3> QED
      BY <3>1, <3>4 DEF u
  <2>2. CASE /\ \A i \in 1 .. Len(q'[c]) : \E j \in 1 .. Len(ops) : q'[c][i] = ops[j]
             /\ cb'[c] = calls
    BY <1>5, <2>2
  <2> QED
    BY <1>9, <2>1, <2>2
<1>11. ~AtPte(c) /\ \A r \in Ptes : pl[r] = c <=> Op("unlock", r) \in Range(cb[c])
  <2>1. ~AtPte(c)
    BY DEF Walk, AtPte
  <2> QED
    BY <2>1 DEF IInv, Locks
<1>12. /\ cur3' = cur3 /\ pl' \in [Ptes -> Cpus \cup {NoCpu}]
       /\ \A r \in Ptes : /\ pl'[r] = c <=> Op("unlock", r) \in Range(cb'[c])
                          /\ \A d \in Cpus \ {c} : pl'[r] = d <=> pl[r] = d
                          /\ pl'[r] # NoCpu => pl[r] # NoCpu \/ r = p
  <2>0. \A r \in Ptes : Op("unlock", r) \in Range(calls) <=> r = p
    <3>1. \A r \in Ptes : Op("unlock", r) = Op("unlock", p) <=> r = p
      BY DEF Op
    <3> QED
      BY <1>5, <3>1
  <2>1. CASE q'[c] = q[c] \o ops /\ cb'[c] = cb[c] \o calls /\ pl' = locks /\ cur3' = cur3
    <3>1. Range(cb'[c]) = Range(cb[c]) \cup Range(calls)
      <4>1. Range(Cat(cb[c], calls)) = Range(cb[c]) \cup Range(calls)
        BY <1>5, <1>6, Behind
      <4> QED
        BY <2>1, <4>1 DEF Cat
    <3> QED
      BY <1>3, <1>7, <1>11, <2>0, <2>1, <3>1
  <2>2. CASE cb'[c] = calls /\ pl' = Unlocked(locks, cb[c]) /\ cur3' = CurrentCr3(c, cb[c])
    <3>1. /\ cur3' = cur3
          /\ pl' = [r \in Ptes |-> IF Op("unlock", r) \in Range(cb[c]) THEN NoCpu ELSE locks[r]]
      BY <2>2, WalkCallbacks
    <3>2. \A r \in Ptes : pl'[r] = IF pl[r] = c THEN NoCpu ELSE locks[r]
      BY <1>11, <3>1
    <3>3. pl' \in [Ptes -> Cpus \cup {NoCpu}]
      BY <1>7, <3>1
    <3> QED
      BY <1>3, <1>7, <2>0, <2>2, <3>1, <3>2, <3>3
  <2> QED
    BY <1>9, <2>1, <2>2
<1>13. Locks'
  <2>1. \A d \in Cpus : (AtPte(d)' <=> AtPte(d)) /\ (Walk(d)' <=> Walk(d)) /\ tgt'[d] = tgt[d]
    BY DEF AtPte, Walk
  <2>2. ASSUME NEW r \in Ptes, NEW d \in Cpus
        PROVE  pl'[r] = d <=> \/ AtPte(d)' /\ tgt'[d] = r
                              \/ Walk(d)' /\ Op("unlock", r) \in Range(cb'[d])
    <3>1. CASE d = c
      BY <1>11, <1>12, <2>1, <3>1
    <3>2. CASE d # c
      BY <1>9, <1>12, <2>1, <3>2 DEF IInv, Locks
    <3> QED
      BY <3>1, <3>2
  <2>3. \A r \in Ptes : pl'[r] # NoCpu => r \in xen'.tree
    <3>1. p \in Ptes => p \in xen.tree
      OBVIOUS
    <3> QED
      BY <1>9, <1>12, <3>1 DEF IInv, Locks
  <2> QED
    BY <2>2, <2>3 DEF Locks
<1>14. ASSUME NEW d \in Cpus PROVE Len(q'[d]) <= MCBatch /\ Queued(d)'
  <2>1. CASE d = c
    <3> DEFINE s == q'[c]
    <3>1. /\ s \in Seq(PageOps) /\ (pc[c] = "pin" => Upward(s)) /\ (pc[c] = "unpin" => Downward(s))
      BY <1>2, <1>9
    <3> HIDE DEF s
    <3>2. /\ pc[c] = "pin" => s \in Seq([op : {"ro", "pin"}, p : Tables])
          /\ pc[c] = "unpin" => s \in Seq([op : {"rw", "unpin"}, p : Tables])
      BY <3>1, UpwardSeq, DownwardSeq
    <3>3. pc'[c] = pc[c]
      OBVIOUS
    <3> QED
      BY <1>9, <1>10, <2>1, <3>2, <3>3 DEF Queued, Walk, s, R
  <2>2. CASE d # c
    BY <1>9, <2>2, ZenonT(30) DEF IInv, TypeOK, Queued, Walk
  <2> QED
    BY <2>1, <2>2
<1>15. q' \in [Cpus -> Seq(Multicalls)] /\ cb' \in [Cpus -> Seq(Callbacks)]
  <2>1. q'[c] \in Seq(Multicalls) /\ cb'[c] \in Seq(Callbacks)
    BY <1>4, <1>9, <1>10, SeqWider
  <2>2. (\E l : q' = [q EXCEPT ![c] = l]) /\ (\E l : cb' = [cb EXCEPT ![c] = l])
    BY <1>3 DEF Enqueue
  <2> QED
    BY <1>1, <2>1, <2>2
<1> QED
  BY <1>9, <1>12, <1>13, <1>14, <1>15

(* What the two walks have in common. *)
LEMMA WalkPageKeeps ==
  ASSUME IInv, NEW c \in Cpus, Walk(c), todo # <<>>, NEW p, p = Head(todo), NEW ops \in Seq(PageOps),
         pc[c] = "pin" => Upward(ops), pc[c] = "unpin" => Downward(ops), SameKind(q[c], ops),
         Legal(After(xen, q[c], Len(q[c])), ops), \A i \in 1 .. Len(ops) : ops[i].p = p,
         WalkPage(c, p, ops), todo' = Tail(todo), flag' \subseteq Tables,
         UNCHANGED <<life, boss, saved, ptl, mask, user, active, lazy, pc, tgt, ipi, scan, kmiss, oops>>,
         NEW z, z = After(After(xen, q[c], Len(q[c])), ops, Len(ops)),
         z.ro = flag', z.pin = flag' \cap (Ptes \cup {"upgd"}),
         pc[c] = "pin" => flag' = ({"pgd"} \cup xen.tree) \ Range(Tail(todo)),
         pc[c] = "unpin" => flag' = Range(Tail(todo))
  PROVE  IInv'
<1> USE DEF IInv
<1>a. /\ UNCHANGED <<life, boss, saved, ptl, mask, user, active, lazy, pc, tgt, ipi, scan, kmiss, oops>>
      /\ todo' = Tail(todo)
  OBVIOUS
<1>b. Walking /\ ptl = c
  BY RestKind
<1>c. /\ p \in {"pgd"} \cup xen.tree /\ Tail(todo) \in Seq(Tables) /\ Once(Tail(todo))
      /\ Range(Tail(todo)) \subseteq {"pgd"} \cup xen.tree
  <2>1. todo \in Seq(Tables) /\ Once(todo) /\ Range(todo) \subseteq {"pgd"} \cup xen.tree
    BY <1>b DEF Locals, Tagged, Once
  <2>2. Tail(todo) \in Seq(Tables) /\ Once(Tail(todo)) /\ Range(todo) = {p} \cup Range(Tail(todo))
    BY <2>1, TailFacts
  <2> QED
    BY <2>1, <2>2
<1>d. /\ xen' \in XenStates /\ xen'.tree = xen.tree /\ xen'.refused = xen.refused
      /\ xen'.base = xen.base /\ xen'.ubase = xen.ubase /\ cur3' = cur3
      /\ Legal(xen', q'[c]) /\ After(xen', q'[c], Len(q'[c])) = z
      /\ q' \in [Cpus -> Seq(Multicalls)] /\ cb' \in [Cpus -> Seq(Callbacks)]
      /\ (\A d \in Cpus : Len(q'[d]) <= MCBatch /\ Queued(d)') /\ Locks'
      /\ pl' \in [Ptes -> Cpus \cup {NoCpu}]
  <2> HIDE DEF IInv
  <2>1. UNCHANGED <<pc, tgt, user>>
    BY <1>a
  <2> QED
    BY <1>c, <2>1, WalkStep
<1>e. (\A d \in Cpus : (Walk(d)' <=> Walk(d)) /\ (Loose(d)' <=> Loose(d)) /\ (AtPte(d)' <=> AtPte(d)))
      /\ Walking' /\ Rest' = q'[c]
  <2>1. \A d \in Cpus : (Walk(d)' <=> Walk(d)) /\ (Loose(d)' <=> Loose(d)) /\ (AtPte(d)' <=> AtPte(d))
    BY <1>a DEF Walk, Loose, AtPte
  <2>2. Walking'
    BY <1>b, <2>1 DEF Walking
  <2> QED
    BY <1>a, <1>b, <2>1, <2>2 DEF Rest
<1>1. TypeOK'
  BY <1>a, <1>d DEF TypeOK, XenStates
<1>2. Locals'
  BY <1>a, <1>c, <1>d, <1>e DEF Locals
<1>3. Turns'
  BY <1>a DEF Turns
<1>5. Flags'
  BY <1>d, <1>e DEF Flags
<1>6. Tagged'
  <2>1. \A d \in Cpus : Walk(d)' => d = c
    BY <1>b, <1>e, WalkAlone
  <2> QED
    BY <1>a, <1>c, <1>d, <1>e, <2>1 DEF Tagged, Once, Walk
<1>7. Staged'
  <2>1. life # "live" /\ ~saved
    BY <1>b, WalkAlone DEF Staged
  <2> QED
    BY <1>a, <1>e, <2>1 DEF Staged
<1>8. XenObeyed'
  BY <1>a, <1>d DEF XenObeyed, NoStrayStore, NeverRefused
<1>9. ASSUME NEW d \in Cpus PROVE ~Loose(d)' /\ OnTables(d)'
  BY <1>a, <1>b, <1>d, <1>e, WalkAlone DEF OnTables, Swapper
<1> QED
  BY <1>d, <1>1, <1>2, <1>3, <1>5, <1>6, <1>7, <1>8, <1>9

(* What is queued of a walk, once through, leaves what the flags say. *)
LEMMA WalkState ==
  ASSUME IInv, NEW c \in Cpus, Walk(c), NEW y, y = After(xen, q[c], Len(q[c]))
  PROVE  /\ y \in XenStates /\ y.ro = flag /\ y.pin = flag \cap (Ptes \cup {"upgd"})
         /\ y.tree = xen.tree /\ y.base = xen.base /\ y.ubase = xen.ubase
         /\ q[c] \in Seq(PageOps)
         /\ pc[c] = "pin" => Upward(q[c])
         /\ pc[c] = "unpin" => Downward(q[c])
<1>1. /\ Walking /\ Rest = q[c] /\ q[c] \in Seq(PageOps)
      /\ (pc[c] = "pin" => Upward(q[c])) /\ (pc[c] = "unpin" => Downward(q[c]))
  BY RestKind
<1>2. Len(q[c]) \in 0 .. Len(q[c]) /\ xen \in XenStates
  BY <1>1 DEF IInv, Locals
<1>3. y \in XenStates /\ y.tree = xen.tree /\ y.base = xen.base /\ y.ubase = xen.ubase
  BY <1>1, <1>2, AfterFields
<1>4. y.ro = flag /\ y.pin = flag \cap (Ptes \cup {"upgd"})
  BY <1>1 DEF IInv, Flags
<1> QED
  BY <1>1, <1>3, <1>4

(* PinPage: a page of the pinning walk. *)
LEMMA PinPageKeeps ==
  ASSUME IInv, NEW c \in Cpus, PinPage(c)
  PROVE  IInv'
<1> DEFINE p == Head(todo)
           y == After(xen, q[c], Len(q[c]))
           ops == PinPageOps(p)
           z == After(y, ops, Len(ops))
<1>1. /\ pc[c] = "pin" /\ Walk(c) /\ todo # <<>> /\ todo' = Tail(todo) /\ flag' = flag \cup {p}
      /\ UNCHANGED <<life, boss, saved, ptl, mask, user, active, lazy, pc, tgt, ipi, scan, kmiss, oops>>
      /\ (p \notin flag => WalkPage(c, p, ops))
  BY DEF PinPage, Walk, cpuVars, dropVars
<1>2. /\ y \in XenStates /\ y.ro = flag /\ y.pin = flag \cap (Ptes \cup {"upgd"})
      /\ q[c] \in Seq(PageOps) /\ Upward(q[c])
  BY <1>1, WalkState
<1>3. /\ p \in {"pgd"} \cup xen.tree /\ p \notin flag /\ p \in Tables /\ p # "upgd" /\ flag \subseteq Tables
      /\ flag' = ({"pgd"} \cup xen.tree) \ Range(Tail(todo))
  <2>1. /\ todo \in Seq(Tables) /\ Once(todo) /\ Range(todo) \subseteq {"pgd"} \cup xen.tree
        /\ flag = ({"pgd"} \cup xen.tree) \ Range(todo)
    BY <1>1, RestKind DEF IInv, Locals, Tagged, Once
  <2>2. Range(todo) = {p} \cup Range(Tail(todo)) /\ p \notin Range(Tail(todo))
    BY <1>1, <2>1, TailFacts
  <2>3. xen.tree \subseteq Inner /\ "upgd" \notin Inner /\ Inner \subseteq Tables /\ "pgd" \in Tables /\ flag \subseteq Tables
    BY DEF IInv, TypeOK, Inner, Tables
  <2> HIDE DEF p
  <2> QED
    BY <1>1, <2>1, <2>2, <2>3
<1> HIDE DEF p, y
<1>4. /\ ops \in Seq(PageOps) /\ Upward(ops) /\ Legal(y, ops) /\ (\A i \in 1 .. Len(ops) : ops[i].p = p)
      /\ z = PagePin(y, p)
  <2>1. p \notin y.pin
    BY <1>2, <1>3
  <2> QED
    BY <1>2, <1>3, <2>1, PinPageDoes
<1>5. z.ro = flag \cup {p} /\ z.pin = y.pin \cup ({p} \cap Ptes)
  BY <1>2, <1>3, <1>4, PagedFields
<1> HIDE DEF ops, z
<1>6. z.ro = flag' /\ z.pin = flag' \cap (Ptes \cup {"upgd"}) /\ flag' \subseteq Tables
  BY <1>1, <1>2, <1>3, <1>5
<1>7. SameKind(q[c], ops)
  BY <1>2, <1>4 DEF SameKind
<1>8. z = After(After(xen, q[c], Len(q[c])), ops, Len(ops)) /\ Legal(After(xen, q[c], Len(q[c])), ops)
      /\ p = Head(todo) /\ WalkPage(c, p, ops)
  BY <1>1, <1>3, <1>4 DEF y, z, p
<1> QED
  BY <1>1, <1>3, <1>4, <1>6, <1>7, <1>8, WalkPageKeeps

(* UnpinPage: a page of the unpinning walk. *)
LEMMA UnpinPageKeeps ==
  ASSUME IInv, NEW c \in Cpus, UnpinPage(c)
  PROVE  IInv'
<1> DEFINE p == Head(todo)
           y == After(xen, q[c], Len(q[c]))
           ops == UnpinPageOps(p)
           z == After(y, ops, Len(ops))
<1>1. /\ pc[c] = "unpin" /\ Walk(c) /\ todo # <<>> /\ todo' = Tail(todo) /\ flag' = flag \ {p}
      /\ UNCHANGED <<life, boss, saved, ptl, mask, user, active, lazy, pc, tgt, ipi, scan, kmiss, oops>>
      /\ (p \in flag => WalkPage(c, p, ops))
  BY DEF UnpinPage, Walk, cpuVars, dropVars
<1>2. /\ y \in XenStates /\ y.ro = flag /\ y.pin = flag \cap (Ptes \cup {"upgd"})
      /\ q[c] \in Seq(PageOps) /\ Downward(q[c]) /\ y.base = xen.base /\ y.ubase = xen.ubase
  BY <1>1, WalkState
<1>3. /\ p \in flag /\ p \in Tables /\ p # "upgd" /\ flag \subseteq Tables /\ "upgd" \notin flag
      /\ flag' = Range(Tail(todo))
  <2>1. /\ todo \in Seq(Tables) /\ Once(todo) /\ Range(todo) \subseteq {"pgd"} \cup xen.tree
        /\ flag = Range(todo)
    BY <1>1, RestKind DEF IInv, Locals, Tagged, Once
  <2>2. Range(todo) = {p} \cup Range(Tail(todo)) /\ p \notin Range(Tail(todo))
    BY <1>1, <2>1, TailFacts
  <2>3. xen.tree \subseteq Inner /\ "upgd" \notin Inner /\ Inner \subseteq Tables /\ "pgd" \in Tables /\ flag \subseteq Tables
    BY DEF IInv, TypeOK, Inner, Tables
  <2> HIDE DEF p
  <2> QED
    BY <1>1, <2>1, <2>2, <2>3
<1> HIDE DEF p, y
<1>4. /\ ops \in Seq(PageOps) /\ Downward(ops) /\ Legal(y, ops) /\ (\A i \in 1 .. Len(ops) : ops[i].p = p)
      /\ z = PageUnpin(y, p)
  <2>1. (p \in y.pin <=> p \in Ptes) /\ "pgd" \notin y.pin /\ "upgd" \notin y.pin
    BY <1>2, <1>3
  <2>2. \A d \in Cpus : y.base[d] = Swapper /\ y.ubase[d] = Swapper
    BY <1>1, <1>2, RestKind, WalkAlone
  <2>3. p \in Tables \ {"upgd"}
    BY <1>3
  <2> QED
    BY <1>2, <2>1, <2>2, <2>3, UnpinPageDoes
<1>5. z.ro = flag \ {p} /\ z.pin = y.pin \ {p}
  BY <1>2, <1>3, <1>4, PagedFields
<1> HIDE DEF ops, z
<1>6. z.ro = flag' /\ z.pin = flag' \cap (Ptes \cup {"upgd"}) /\ flag' \subseteq Tables
  BY <1>1, <1>2, <1>3, <1>5
<1>7. SameKind(q[c], ops)
  BY <1>2, <1>4 DEF SameKind
<1>8. z = After(After(xen, q[c], Len(q[c])), ops, Len(ops)) /\ Legal(After(xen, q[c], Len(q[c])), ops)
      /\ p = Head(todo) /\ WalkPage(c, p, ops)
  BY <1>1, <1>3, <1>4 DEF y, z, p
<1> QED
  BY <1>1, <1>3, <1>4, <1>6, <1>7, <1>8, WalkPageKeeps

(* UnpinStart: __xen_pgd_unpin begins. *)
LEMMA UnpinStartKeeps ==
  ASSUME IInv, NEW c \in Cpus, UnpinStart(c)
  PROVE  IInv'
<1> USE DEF IInv
<1>a. /\ pc[c] = "drop" /\ ipi = {} /\ scan = {} /\ ptl = NoCpu
      /\ UNCHANGED <<boss, saved, mask, user, active, lazy, tgt, ipi, scan, kmiss, oops>>
      /\ pc \in [Cpus -> PCs] /\ q[c] = <<>> /\ cb[c] = <<>>
      /\ xen \in XenStates /\ q \in [Cpus -> Seq(Multicalls)] /\ cb \in [Cpus -> Seq(Callbacks)]
      /\ pl \in [Ptes -> Cpus \cup {NoCpu}]
  BY DEF UnpinStart, Locals, Queued, TypeOK, cpuVars, dropVars
<1>b. life = "exit" /\ boss = c /\ user = {} /\ ~saved
  BY <1>a DEF Turns, Staged
<1>c. ~Walking /\ \A d \in Cpus : ~Loose(d) /\ ~Walk(d)
  <2>1. ~Walking
    BY <1>a, WalkAlone
  <2>2. \A d \in Cpus : ~Loose(d)
    BY <1>b DEF LooseOK, Loose
  <2> QED
    BY <2>1, <2>2 DEF Walking
<1>d. \A d \in Cpus : cur3[d] # "pgd" /\ xen.base[d] = Swapper /\ xen.ubase[d] = Swapper /\ pc[d] # "vfault"
  <2>1. \A d \in Cpus : cur3[d] # "pgd"
    BY <1>a, <1>b DEF OnTables
  <2> QED
    BY <2>1 DEF OnTables, TypeOK
<1>e. flag = {} \/ flag = {"pgd", "upgd"} \cup xen.tree
  <2>1. {tgt[d] : d \in {d \in Cpus : Loose(d)}} = {}
    BY <1>c
  <2> QED
    BY <1>c, <2>1 DEF Tagged
<1>s. xen.ro = flag /\ xen.pin = flag \cap (Ptes \cup {"upgd", "pgd"})
  BY <1>c, StillFlags
<1>1. CASE "pgd" \notin flag
  <2>a. /\ life' = "down" /\ pc' = [pc EXCEPT ![c] = "run"] /\ flag = {}
        /\ UNCHANGED <<ptl, flag, todo, xen, q, pl, cur3, cb>>
    BY <1>1, <1>e DEF UnpinStart, Goto
  <2>b. /\ pc'[c] = "run" /\ (\A d \in Cpus \ {c} : pc'[d] = pc[d]) /\ pc' \in [Cpus -> PCs]
    BY <1>a, <2>a DEF PCs
  <2>c. \A d \in Cpus : (Walk(d)' <=> Walk(d)) /\ (Loose(d)' <=> Loose(d)) /\ (AtPte(d)' <=> AtPte(d))
    BY <1>a, <2>b DEF Walk, Loose, AtPte
  <2>d. (Walking' <=> Walking) /\ Rest' = Rest
    BY <1>c, <2>a, <2>c DEF Walking, Rest
  <2>1. TypeOK'
    BY <1>a, <2>a DEF TypeOK
  <2>2. Locals'
    BY <1>a, <2>a, <2>b, <2>c DEF Locals
  <2>3. Turns'
    BY <1>a, <1>b, <2>a, <2>b DEF Turns
  <2>4. Locks'
    BY <1>a, <2>a, <2>c DEF Locks
  <2>5. Flags'
    BY <2>a, <2>d, FlagsSame
  <2>6. Tagged'
    BY <1>c, <2>a, <2>c, <2>d DEF Tagged, Walk
  <2>7. Staged'
    BY <1>a, <1>b, <2>a, <2>d DEF Staged
  <2>8. XenObeyed'
    BY <1>a, <2>a DEF XenObeyed, NoStrayStore, NeverRefused
  <2>9. ASSUME NEW d \in Cpus PROVE Queued(d)'
    BY <1>a, <2>a, <2>b DEF Queued, Walk
  <2>10. ASSUME NEW d \in Cpus PROVE ~Loose(d)' /\ OnTables(d)'
    BY <1>a, <1>c, <1>d, <2>a, <2>b, <2>c DEF OnTables
  <2> QED
    BY <2>1, <2>2, <2>3, <2>4, <2>5, <2>6, <2>7, <2>8, <2>9, <2>10
<1>2. CASE "pgd" \in flag
  <2> DEFINE z == After(xen, UnpinTopOps, Len(UnpinTopOps))
             s == q'[c]
  <2>a. /\ ptl' = c /\ flag' = flag \ {"upgd"} /\ todo' = WalkOrder(xen.tree) /\ life' = life
        /\ pc' = [pc EXCEPT ![c] = "unpin"] /\ Enqueue(c, UnpinTopOps, <<>>, pl)
    BY <1>2 DEF UnpinStart, Goto
  <2>b. /\ pc'[c] = "unpin" /\ (\A d \in Cpus \ {c} : pc'[d] = pc[d]) /\ pc' \in [Cpus -> PCs]
    BY <1>a, <2>a DEF PCs
  <2>c. /\ \A d \in Cpus : (Loose(d)' <=> Loose(d)) /\ (AtPte(d)' <=> AtPte(d))
        /\ Walk(c)' /\ (\A d \in Cpus \ {c} : ~Walk(d)') /\ Walking' /\ Rest' = s /\ ~AtPte(c)
    <3>1. /\ \A d \in Cpus : (Loose(d)' <=> Loose(d)) /\ (AtPte(d)' <=> AtPte(d))
          /\ Walk(c)' /\ (\A d \in Cpus \ {c} : ~Walk(d)') /\ ~AtPte(c)
      BY <1>a, <1>c, <2>b DEF Walk, Loose, AtPte
    <3> QED
      BY <2>a, <3>1 DEF Walking, Rest
  <2>d. /\ xen.tree \subseteq Inner /\ "pgd" \notin Inner /\ "upgd" \notin Inner /\ Inner \subseteq Tables /\ "pgd" \in Tables
        /\ flag = {"pgd", "upgd"} \cup xen.tree /\ flag' = {"pgd"} \cup xen.tree
    <3>1. xen.tree \subseteq Inner /\ "pgd" \notin Inner /\ "upgd" \notin Inner /\ Inner \subseteq Tables /\ "pgd" \in Tables
      BY DEF TypeOK, Inner, Tables
    <3> QED
      BY <1>2, <1>e, <2>a, <3>1
  <2>e. /\ UnpinTopOps \in Seq(PageOps) /\ Downward(UnpinTopOps) /\ Legal(xen, UnpinTopOps)
        /\ (\A i \in 1 .. Len(UnpinTopOps) : UnpinTopOps[i].p \in {"pgd", "upgd"})
        /\ z.ro = xen.ro \ {"upgd"} /\ z.pin = xen.pin \ {"pgd", "upgd"}
    <3>1. {"pgd", "upgd"} \subseteq xen.pin
      BY <1>s, <2>d
    <3> HIDE DEF IInv
    <3> QED
      BY <1>a, <1>d, <3>1, UnpinTopDoes
  <2>f. /\ xen' \in XenStates /\ xen'.tree = xen.tree /\ xen'.refused = xen.refused
        /\ xen'.base = xen.base /\ xen'.ubase = xen.ubase
        /\ s \in Seq(PageOps) /\ Len(s) <= MCBatch /\ Downward(s) /\ Legal(xen', s)
        /\ After(xen', s, Len(s)) = z
        /\ \A d \in Cpus \ {c} : q'[d] = q[d] /\ cb'[d] = cb[d]
        /\ \/ s = q[c] \o UnpinTopOps /\ cb'[c] = cb[c] \o <<>> /\ pl' = pl /\ cur3' = cur3
           \/ /\ \A i \in 1 .. Len(s) : \E j \in 1 .. Len(UnpinTopOps) : s[i] = UnpinTopOps[j]
              /\ cb'[c] = <<>> /\ pl' = Unlocked(pl, cb[c]) /\ cur3' = CurrentCr3(c, cb[c])
    <3>1. DOMAIN q = Cpus /\ DOMAIN cb = Cpus /\ <<>> \in Seq(Callbacks)
      BY <1>a
    <3>2. q[c] \in Seq(PageOps) /\ Legal(xen, q[c]) /\ After(xen, q[c], Len(q[c])) = xen
      BY <1>a, EmptyBatch
    <3>3. Downward(q[c]) /\ SameKind(q[c], UnpinTopOps)
      BY <1>a, <2>e DEF SameKind, Downward
    <3>4. Len(q[c]) <= MCBatch
      BY DEF TypeOK
    <3>5. Legal(After(xen, q[c], Len(q[c])), UnpinTopOps)
      BY <2>e, <3>2
    <3> DEFINE nil == <<>>
    <3>6. Enqueue(c, UnpinTopOps, nil, pl) /\ nil \in Seq(Callbacks)
      BY <2>a
    <3> HIDE DEF IInv, nil, z, s
    <3>7. /\ xen' \in XenStates /\ xen'.tree = xen.tree /\ xen'.refused = xen.refused
          /\ xen'.base = xen.base /\ xen'.ubase = xen.ubase
          /\ q'[c] \in Seq(PageOps) /\ Len(q'[c]) <= MCBatch
          /\ (Downward(q[c]) /\ Downward(UnpinTopOps) => Downward(q'[c])) /\ Legal(xen', q'[c])
          /\ After(xen', q'[c], Len(q'[c]))
               = After(After(xen, q[c], Len(q[c])), UnpinTopOps, Len(UnpinTopOps))
          /\ \A d \in Cpus \ {c} : q'[d] = q[d] /\ cb'[d] = cb[d]
          /\ \/ q'[c] = q[c] \o UnpinTopOps /\ cb'[c] = cb[c] \o nil /\ pl' = pl /\ cur3' = cur3
             \/ /\ \A i \in 1 .. Len(q'[c]) : \E j \in 1 .. Len(UnpinTopOps) : q'[c][i] = UnpinTopOps[j]
                /\ cb'[c] = nil /\ pl' = Unlocked(pl, cb[c]) /\ cur3' = CurrentCr3(c, cb[c])
      <4>1. /\ xen \in XenStates /\ q[c] \in Seq(PageOps) /\ Legal(xen, q[c]) /\ SameKind(q[c], UnpinTopOps)
            /\ UnpinTopOps \in Seq(PageOps)
        BY <1>a, <2>e, <3>2, <3>3
      <4> QED
        BY <3>1, <3>4, <3>5, <3>6, <4>1, EnqueuePages
    <3>8. After(xen', q'[c], Len(q'[c])) = z
      BY <3>2, <3>7 DEF z
    <3> QED
      BY <2>e, <3>3, <3>7, <3>8, Zenon DEF s, nil
  <2>g. cb'[c] = <<>> /\ pl' = pl /\ cur3' = cur3 /\ \A i \in 1 .. Len(s) : s[i].p \in {"pgd", "upgd"}
    <3>1. Unlocked(pl, <<>>) = pl /\ CurrentCr3(c, <<>>) = cur3
      <4>1. DOMAIN <<>> = {}
        OBVIOUS
      <4> QED
        BY <1>a, <4>1 DEF Unlocked, CurrentCr3
    <3>2. <<>> \o UnpinTopOps = UnpinTopOps /\ <<>> \o <<>> = <<>>
      BY <2>e
    <3>3. CASE s = q[c] \o UnpinTopOps /\ cb'[c] = cb[c] \o <<>> /\ pl' = pl /\ cur3' = cur3
      <4>1. s = UnpinTopOps /\ cb'[c] = <<>>
        BY <1>a, <3>2, <3>3, Zenon
      <4> HIDE DEF s
      <4> QED
        BY <2>e, <3>3, <4>1
    <3>4. CASE /\ \A i \in 1 .. Len(s) : \E j \in 1 .. Len(UnpinTopOps) : s[i] = UnpinTopOps[j]
               /\ cb'[c] = <<>> /\ pl' = Unlocked(pl, cb[c]) /\ cur3' = CurrentCr3(c, cb[c])
      BY <1>a, <2>e, <3>1, <3>4
    <3> QED
      BY <2>f, <3>3, <3>4
  <2>h. q' \in [Cpus -> Seq(Multicalls)] /\ cb' \in [Cpus -> Seq(Callbacks)]
    <3>1. PageOps \subseteq Multicalls
      BY DEF PageOps, Multicalls
    <3>2. s \in Seq(Multicalls) /\ <<>> \in Seq(Callbacks)
      BY <2>f, <3>1, SeqWider
    <3>3. (\E l : q' = [q EXCEPT ![c] = l]) /\ (\E l : cb' = [cb EXCEPT ![c] = l])
      BY <2>a DEF Enqueue
    <3> QED
      BY <1>a, <2>g, <3>2, <3>3
  <2>w. todo' \in Seq(Tables) /\ Once(todo') /\ Range(todo') = {"pgd"} \cup xen.tree
    BY <2>a, <2>d, WalkFacts
  <2> HIDE DEF z, s
  <2>1. TypeOK'
    <3>1. \A d \in Cpus : Len(q'[d]) <= MCBatch
      BY <2>f DEF TypeOK, s
    <3>2. flag' \subseteq Tables
      BY <2>d
    <3> QED
      BY <1>a, <2>a, <2>f, <2>g, <3>1, <3>2 DEF TypeOK, XenStates
  <2>2. Locals'
    <3>1. \A d \in Cpus : AtPte(d)' => tgt'[d] \in Ptes
      BY <1>a, <2>c DEF Locals
    <3> QED
      BY <1>a, <2>b, <2>f, <2>h, <2>w, <3>1 DEF Locals
  <2>3. Turns'
    BY <1>a, <1>b, <2>a, <2>b DEF Turns
  <2>4. Locks'
    <3>1. Range(<<>>) = {}
      BY DEF Range
    <3> QED
      BY <1>a, <1>c, <2>c, <2>f, <2>g, <3>1 DEF Locks
  <2>5. Flags'
    <3>1. z.ro = flag' /\ z.pin = flag' \cap (Ptes \cup {"upgd"})
      BY <1>s, <2>a, <2>d, <2>e
    <3> QED
      BY <2>c, <2>f, <3>1 DEF Flags
  <2>6. Tagged'
    BY <2>b, <2>c, <2>d, <2>f, <2>w DEF Tagged, Once, Walk
  <2>7. Staged'
    BY <1>a, <1>b, <2>a, <2>c DEF Staged
  <2>8. XenObeyed'
    BY <1>a, <2>f DEF XenObeyed, NoStrayStore, NeverRefused
  <2>9. ASSUME NEW d \in Cpus PROVE Queued(d)'
    <3>1. CASE d = c
      <4>1. s \in Seq([op : {"rw", "unpin"}, p : Tables])
        BY <2>f, DownwardSeq
      <4>2. \A i \in 1 .. Len(s) : s[i].p \notin Ptes
        BY <2>g
      <4>3. /\ pc'[c] = "unpin" /\ cb'[c] = <<>> /\ q'[c] \in Seq([op : {"rw", "unpin"}, p : Tables])
            /\ <<>> \in Seq([op : {"unlock"}, p : Ptes])
        BY <2>b, <2>g, <4>1 DEF s
      <4>4. \A i \in 1 .. Len(q'[c]) : q'[c][i].p \notin Ptes
        BY <4>2 DEF s
      <4> HIDE DEF IInv
      <4> QED
        BY <3>1, <4>3, <4>4, Zenon DEF Queued, Walk
    <3>2. CASE d # c
      BY <1>a, <2>b, <2>f, <3>2 DEF Queued, Walk
    <3> QED
      BY <3>1, <3>2
  <2>10. ASSUME NEW d \in Cpus PROVE ~Loose(d)' /\ OnTables(d)'
    BY <1>a, <1>c, <1>d, <2>b, <2>c, <2>f, <2>g DEF OnTables, Swapper
  <2> QED
    BY <2>1, <2>2, <2>3, <2>4, <2>5, <2>6, <2>7, <2>8, <2>9, <2>10
<1> QED
  BY <1>1, <1>2

(* The walks of save and resume, at once: the same steps, by induction. *)
LEMMA PinRunIs ==
  ASSUME NEW x, NEW s, Len(s) \in Nat, NEW f,
         f = [n \in 0 .. Len(s) |-> IF n = 0 THEN x ELSE ExecAll(f[n - 1], PinPageOps(s[n]))]
  PROVE  PinPages(x, s) = f[Len(s)]
<1> DEFINE Eq(r) == r = [n \in 0 .. Len(s) |-> IF n = 0 THEN x ELSE ExecAll(r[n - 1], PinPageOps(s[n]))]
           run == CHOOSE r : Eq(r)
<1>1. PinPages(x, s) = run[Len(s)]
  BY DEF PinPages
<1>2. Eq(f)
  OBVIOUS
<1>3. Eq(run)
  BY <1>2
<1> HIDE DEF run
<1> DEFINE S == {n \in 0 .. Len(s) : run[n] = f[n]}
<1>4. 0 \in S
  BY <1>2, <1>3
<1>5. ASSUME NEW n \in 1 .. Len(s), n - 1 \in S PROVE n \in S
  <2>1. n \in 0 .. Len(s) /\ n # 0
    OBVIOUS
  <2>2. run[n] = ExecAll(run[n - 1], PinPageOps(s[n])) /\ f[n] = ExecAll(f[n - 1], PinPageOps(s[n]))
    BY <1>2, <1>3, <2>1
  <2> QED
    BY <1>5, <2>1, <2>2
<1>6. Len(s) \in S
  <2>1. \A n \in 1 .. Len(s) : n - 1 \in S => n \in S
    BY <1>5, Zenon
  <2> HIDE DEF S
  <2>2. \A n \in 0 .. Len(s) : n \in S
    BY <1>4, <2>1, Induct, Zenon
  <2> QED
    BY <2>2
<1> QED
  BY <1>1, <1>6

(* Whatever satisfies the equation of UnpinPages is what it computes. *)
LEMMA UnpinRunIs ==
  ASSUME NEW x, NEW s, Len(s) \in Nat, NEW f,
         f = [n \in 0 .. Len(s) |-> IF n = 0 THEN x ELSE ExecAll(f[n - 1], UnpinPageOps(s[n]))]
  PROVE  UnpinPages(x, s) = f[Len(s)]
<1> DEFINE Eq(r) == r = [n \in 0 .. Len(s) |-> IF n = 0 THEN x ELSE ExecAll(r[n - 1], UnpinPageOps(s[n]))]
           run == CHOOSE r : Eq(r)
<1>1. UnpinPages(x, s) = run[Len(s)]
  BY DEF UnpinPages
<1>2. Eq(f)
  OBVIOUS
<1>3. Eq(run)
  BY <1>2
<1> HIDE DEF run
<1> DEFINE S == {n \in 0 .. Len(s) : run[n] = f[n]}
<1>4. 0 \in S
  BY <1>2, <1>3
<1>5. ASSUME NEW n \in 1 .. Len(s), n - 1 \in S PROVE n \in S
  <2>1. n \in 0 .. Len(s) /\ n # 0
    OBVIOUS
  <2>2. run[n] = ExecAll(run[n - 1], UnpinPageOps(s[n])) /\ f[n] = ExecAll(f[n - 1], UnpinPageOps(s[n]))
    BY <1>2, <1>3, <2>1
  <2> QED
    BY <1>5, <2>1, <2>2
<1>6. Len(s) \in S
  <2>1. \A n \in 1 .. Len(s) : n - 1 \in S => n \in S
    BY <1>5, Zenon
  <2> HIDE DEF S
  <2>2. \A n \in 0 .. Len(s) : n \in S
    BY <1>4, <2>1, Induct, Zenon
  <2> QED
    BY <2>2
<1> QED
  BY <1>1, <1>6

(* A state with a set of pages pinned or unpinned, and one page more. *)
SetPin(x, S) == [x EXCEPT !.ro = @ \cup S, !.pin = @ \cup (S \cap Ptes)]
SetUnpin(x, S) == [x EXCEPT !.ro = @ \ S, !.pin = @ \ S]

(* What pinning and unpinning a set of pages leave in the hypervisor. *)
LEMMA SetFields ==
  ASSUME NEW x \in XenStates, NEW S \in SUBSET Tables
  PROVE  /\ SetPin(x, S) \in XenStates
         /\ SetPin(x, S).ro = x.ro \cup S /\ SetPin(x, S).pin = x.pin \cup (S \cap Ptes)
         /\ SetPin(x, S).tree = x.tree /\ SetPin(x, S).refused = x.refused
         /\ SetPin(x, S).base = x.base /\ SetPin(x, S).ubase = x.ubase
         /\ SetUnpin(x, S) \in XenStates
         /\ SetUnpin(x, S).ro = x.ro \ S /\ SetUnpin(x, S).pin = x.pin \ S
         /\ SetUnpin(x, S).tree = x.tree /\ SetUnpin(x, S).refused = x.refused
         /\ SetUnpin(x, S).base = x.base /\ SetUnpin(x, S).ubase = x.ubase
         /\ SetPin(x, {}) = x /\ SetUnpin(x, {}) = x
  BY ZenonT(30) DEF SetPin, SetUnpin, XenStates

(* One more page of a walk over all mms that pins ... *)
LEMMA SetPinMore ==
  ASSUME NEW x \in XenStates, NEW S \in SUBSET Tables, NEW p \in Tables, p \notin x.pin \cup S
  PROVE  ExecAll(SetPin(x, S), PinPageOps(p)) = SetPin(x, S \cup {p})
<1> DEFINE y == SetPin(x, S)
           z == SetPin(x, S \cup {p})
           w == PagePin(y, p)
<1>1. /\ y \in XenStates /\ y.ro = x.ro \cup S /\ y.pin = x.pin \cup (S \cap Ptes)
      /\ y.tree = x.tree /\ y.refused = x.refused /\ y.base = x.base /\ y.ubase = x.ubase
  BY SetFields
<1>2. /\ z \in XenStates /\ z.ro = x.ro \cup (S \cup {p}) /\ z.pin = x.pin \cup ((S \cup {p}) \cap Ptes)
      /\ z.tree = x.tree /\ z.refused = x.refused /\ z.base = x.base /\ z.ubase = x.ubase
  <2>1. S \cup {p} \in SUBSET Tables
    OBVIOUS
  <2> QED
    BY <2>1, SetFields
<1> HIDE DEF y, z
<1>3. p \notin y.pin
  BY <1>1
<1>4. ExecAll(y, PinPageOps(p)) = w
  BY <1>1, <1>3, PinPageDoes, Flushed
<1>5. /\ w \in XenStates /\ w.ro = y.ro \cup {p} /\ w.pin = y.pin \cup ({p} \cap Ptes)
      /\ w.tree = y.tree /\ w.refused = y.refused /\ w.base = y.base /\ w.ubase = y.ubase
  BY <1>1, PagedFields
<1> HIDE DEF w
<1>6. w.ro = z.ro /\ w.pin = z.pin
  BY <1>1, <1>2, <1>5
<1>7. w = z
  <2>1. /\ w \in XenStates /\ z \in XenStates /\ w.tree = z.tree /\ w.refused = z.refused
        /\ w.base = z.base /\ w.ubase = z.ubase
    BY <1>1, <1>2, <1>5
  <2> QED
    BY <1>6, <2>1, SameState
<1> QED
  BY <1>4, <1>7 DEF y, z

(* No CPU has its base on the tables, and neither root is pinned. *)
Idle(x) == /\ "pgd" \notin x.pin /\ "upgd" \notin x.pin
           /\ \A c \in Cpus : x.base[c] = Swapper /\ x.ubase[c] = Swapper

(* ... and of one that unpins. *)
LEMMA SetUnpinMore ==
  ASSUME NEW x \in XenStates, Idle(x), NEW S \in SUBSET Tables, NEW p \in Tables \ {"upgd"}, p \notin S,
         p \in x.pin <=> p \in Ptes
  PROVE  ExecAll(SetUnpin(x, S), UnpinPageOps(p)) = SetUnpin(x, S \cup {p})
<1> DEFINE y == SetUnpin(x, S)
           z == SetUnpin(x, S \cup {p})
           w == PageUnpin(y, p)
<1>1. /\ y \in XenStates /\ y.ro = x.ro \ S /\ y.pin = x.pin \ S
      /\ y.tree = x.tree /\ y.refused = x.refused /\ y.base = x.base /\ y.ubase = x.ubase
  BY SetFields
<1>2. /\ z \in XenStates /\ z.ro = x.ro \ (S \cup {p}) /\ z.pin = x.pin \ (S \cup {p})
      /\ z.tree = x.tree /\ z.refused = x.refused /\ z.base = x.base /\ z.ubase = x.ubase
  <2>1. S \cup {p} \in SUBSET Tables
    OBVIOUS
  <2> QED
    BY <2>1, SetFields
<1> HIDE DEF y, z
<1>3. (p \in y.pin <=> p \in Ptes) /\ "pgd" \notin y.pin /\ "upgd" \notin y.pin
      /\ \A c \in Cpus : y.base[c] = Swapper /\ y.ubase[c] = Swapper
  BY <1>1 DEF Idle
<1>4. ExecAll(y, UnpinPageOps(p)) = w
  <2>1. /\ UnpinPageOps(p) \in Seq(PageOps) /\ Downward(UnpinPageOps(p)) /\ Legal(y, UnpinPageOps(p))
        /\ After(y, UnpinPageOps(p), Len(UnpinPageOps(p))) = w
    BY <1>1, <1>3, UnpinPageDoes
  <2> QED
    BY <1>1, <2>1, Flushed
<1>5. /\ w \in XenStates /\ w.ro = y.ro \ {p} /\ w.pin = y.pin \ {p}
      /\ w.tree = y.tree /\ w.refused = y.refused /\ w.base = y.base /\ w.ubase = y.ubase
  BY <1>1, PagedFields
<1> HIDE DEF w
<1>6. w.ro = z.ro /\ w.pin = z.pin
  BY <1>1, <1>2, <1>5
<1>7. w = z
  <2>1. /\ w \in XenStates /\ z \in XenStates /\ w.tree = z.tree /\ w.refused = z.refused
        /\ w.base = z.base /\ w.ubase = z.ubase
    BY <1>1, <1>2, <1>5
  <2> QED
    BY <1>6, <2>1, SameState
<1> QED
  BY <1>4, <1>7 DEF y, z

(* The pages among the first n of a walk. *)
Firsts(s, n) == {s[i] : i \in 1 .. n}

(* The pages a walk has passed. *)
LEMMA FirstsFacts ==
  ASSUME NEW T, NEW s \in Seq(T), Once(s)
  PROVE  /\ Firsts(s, 0) = {} /\ Firsts(s, Len(s)) = Range(s)
         /\ \A n \in 1 .. Len(s) : /\ n - 1 \in 0 .. Len(s) /\ s[n] \in T \cap Range(s) /\ s[n] \notin Firsts(s, n - 1)
                                   /\ Firsts(s, n) = Firsts(s, n - 1) \cup {s[n]}
                                   /\ Firsts(s, n - 1) \subseteq T
<1>1. Range(s) = {s[i] : i \in 1 .. Len(s)} /\ Len(s) \in Nat /\ \A i \in 1 .. Len(s) : s[i] \in T
  BY RangeSeq
<1>2. ASSUME NEW n \in 1 .. Len(s)
      PROVE  /\ n - 1 \in 0 .. Len(s) /\ s[n] \in T \cap Range(s) /\ s[n] \notin Firsts(s, n - 1)
             /\ Firsts(s, n) = Firsts(s, n - 1) \cup {s[n]} /\ Firsts(s, n - 1) \subseteq T
  <2>1. n - 1 \in 0 .. Len(s) /\ n \in Nat
    BY <1>1
  <2>2. \A i \in 1 .. n - 1 : i \in 1 .. Len(s) /\ i # n
    BY <1>1
  <2>3. 1 .. n = (1 .. n - 1) \cup {n}
    BY <2>1
  <2>4. s[n] \notin Firsts(s, n - 1) /\ Firsts(s, n - 1) \subseteq T
    BY <1>1, <2>2 DEF Once, Firsts
  <2>5. Firsts(s, n) = Firsts(s, n - 1) \cup {s[n]}
    BY <2>3 DEF Firsts
  <2> QED
    BY <1>1, <2>1, <2>4, <2>5
<1>3. Firsts(s, 0) = {} /\ Firsts(s, Len(s)) = Range(s)
  BY <1>1 DEF Firsts
<1> QED
  BY <1>2, <1>3

(* Pinning a whole order of pages, for any number of them, pins its range ... *)
LEMMA PinPagesDoes ==
  ASSUME NEW x \in XenStates, NEW s \in Seq(Tables), Once(s), Range(s) \cap x.pin = {}
  PROVE  PinPages(x, s) = SetPin(x, Range(s))
<1> DEFINE f == [n \in 0 .. Len(s) |-> SetPin(x, Firsts(s, n))]
<1>1. /\ Firsts(s, 0) = {} /\ Firsts(s, Len(s)) = Range(s)
      /\ \A n \in 1 .. Len(s) : /\ n - 1 \in 0 .. Len(s) /\ s[n] \in Tables \cap Range(s) /\ s[n] \notin Firsts(s, n - 1)
                                /\ Firsts(s, n) = Firsts(s, n - 1) \cup {s[n]}
                                /\ Firsts(s, n - 1) \subseteq Tables
  BY FirstsFacts
<1>2. Len(s) \in Nat
  OBVIOUS
<1>3. ASSUME NEW n \in 0 .. Len(s)
      PROVE  f[n] = IF n = 0 THEN x ELSE ExecAll(f[n - 1], PinPageOps(s[n]))
  <2>1. CASE n = 0
    <3>1. f[n] = SetPin(x, {})
      BY <1>1, <2>1
    <3> QED
      BY <2>1, <3>1, SetFields
  <2>2. CASE n # 0
    <3>1. n \in 1 .. Len(s)
      BY <1>2, <2>2
    <3> DEFINE S == Firsts(s, n - 1)
               p == s[n]
    <3>2. f[n - 1] = SetPin(x, S) /\ f[n] = SetPin(x, S \cup {p}) /\ S \subseteq Tables /\ p \in Tables
          /\ p \notin x.pin \cup S
      BY <1>1, <3>1
    <3> HIDE DEF S, p, f
    <3>3. ExecAll(f[n - 1], PinPageOps(p)) = f[n]
      BY <3>2, SetPinMore
    <3> QED
      BY <2>2, <3>3 DEF p
  <2> QED
    BY <2>1, <2>2
<1>4. f = [n \in 0 .. Len(s) |-> IF n = 0 THEN x ELSE ExecAll(f[n - 1], PinPageOps(s[n]))]
  BY <1>3
<1>5. f[Len(s)] = SetPin(x, Range(s))
  BY <1>1, <1>2
<1> HIDE DEF f
<1> QED
  BY <1>2, <1>4, <1>5, PinRunIs

(* ... and unpinning one unpins its range. *)
LEMMA UnpinPagesDoes ==
  ASSUME NEW x \in XenStates, Idle(x), NEW s \in Seq(Tables), Once(s), "upgd" \notin Range(s),
         \A p \in Range(s) : p \in x.pin <=> p \in Ptes
  PROVE  UnpinPages(x, s) = SetUnpin(x, Range(s))
<1> DEFINE f == [n \in 0 .. Len(s) |-> SetUnpin(x, Firsts(s, n))]
<1>1. /\ Firsts(s, 0) = {} /\ Firsts(s, Len(s)) = Range(s)
      /\ \A n \in 1 .. Len(s) : /\ n - 1 \in 0 .. Len(s) /\ s[n] \in Tables \cap Range(s) /\ s[n] \notin Firsts(s, n - 1)
                                /\ Firsts(s, n) = Firsts(s, n - 1) \cup {s[n]}
                                /\ Firsts(s, n - 1) \subseteq Tables
  BY FirstsFacts
<1>2. Len(s) \in Nat
  OBVIOUS
<1>3. ASSUME NEW n \in 0 .. Len(s)
      PROVE  f[n] = IF n = 0 THEN x ELSE ExecAll(f[n - 1], UnpinPageOps(s[n]))
  <2>1. CASE n = 0
    <3>1. f[n] = SetUnpin(x, {})
      BY <1>1, <2>1
    <3> QED
      BY <2>1, <3>1, SetFields
  <2>2. CASE n # 0
    <3>1. n \in 1 .. Len(s)
      BY <1>2, <2>2
    <3> DEFINE S == Firsts(s, n - 1)
               p == s[n]
    <3>2. f[n - 1] = SetUnpin(x, S) /\ f[n] = SetUnpin(x, S \cup {p}) /\ S \subseteq Tables
          /\ p \in Tables /\ p \in Range(s) /\ p \notin S
      BY <1>1, <3>1
    <3> HIDE DEF S, p, f
    <3>3. p \in Tables \ {"upgd"} /\ (p \in x.pin <=> p \in Ptes)
      BY <3>2
    <3>4. ExecAll(f[n - 1], UnpinPageOps(p)) = f[n]
      BY <3>2, <3>3, SetUnpinMore
    <3> QED
      BY <2>2, <3>4 DEF p
  <2> QED
    BY <2>1, <2>2
<1>4. f = [n \in 0 .. Len(s) |-> IF n = 0 THEN x ELSE ExecAll(f[n - 1], UnpinPageOps(s[n]))]
  BY <1>3
<1>5. f[Len(s)] = SetUnpin(x, Range(s))
  BY <1>1, <1>2
<1> HIDE DEF f
<1> QED
  BY <1>2, <1>4, <1>5, UnpinRunIs

(* What save and resume leave alone: only one CPU's pc, the flags and the    *)
(* hypervisor's ro and pin.                                                  *)
LEMMA StoppedKeeps ==
  ASSUME IInv, NEW c \in Cpus, \A d \in Cpus \ {c} : pc[d] = "run", pc[c] \in {"run", "saved"},
         NEW l \in {"run", "saved"}, Goto(c, l),
         UNCHANGED <<life, boss, ptl, pl, q, cb, cur3, cpuVars, tgt, todo, dropVars, kmiss, oops>>,
         flag' \subseteq Tables, saved' \in BOOLEAN, xen' \in XenStates, xen'.ro = flag',
         xen'.pin = flag' \cap (Ptes \cup {"upgd", "pgd"}), xen'.tree = xen.tree, xen'.refused = xen.refused,
         xen'.base = xen.base, xen'.ubase = xen.ubase,
         flag' = {} \/ flag' = {"pgd", "upgd"} \cup xen.tree, "pgd" \in flag => "pgd" \in flag' \/ saved, Staged'
  PROVE  IInv'
<1> USE DEF IInv
<1>a. /\ UNCHANGED <<life, boss, ptl, pl, q, cb, cur3, mask, user, active, lazy, tgt, todo, ipi, scan, kmiss, oops>>
      /\ pc' = [pc EXCEPT ![c] = l] /\ pc \in [Cpus -> PCs]
  BY DEF Goto, cpuVars, dropVars, Locals
<1>b. /\ pc'[c] = l /\ pc' \in [Cpus -> PCs] /\ \A d \in Cpus \ {c} : pc'[d] = "run" /\ pc[d] = "run"
  BY <1>a DEF PCs
<1>c. \A d \in Cpus : ~Walk(d)' /\ ~Walk(d) /\ ~Loose(d)' /\ ~AtPte(d)' /\ ~AtPte(d)
  BY <1>b DEF Walk, Loose, AtPte
<1>d. ~Walking'
  BY <1>c DEF Walking
<1>e. life # "exit"
  BY <1>b DEF Turns
<1>1. TypeOK'
  BY <1>a DEF TypeOK, XenStates
<1>2. Locals'
  BY <1>a, <1>b, <1>c DEF Locals
<1>3. Turns'
  BY <1>a, <1>b DEF Turns
<1>4. Locks'
  BY <1>a, <1>c DEF Locks
<1>5. Flags'
  BY <1>d, FlagsNext
<1>6. Tagged'
  <2>1. {tgt[d] : d \in {d \in Cpus : Loose(d)}}' = {}
    BY <1>c
  <2>2. \A d \in Cpus : pc'[d] \notin {"pin", "unpin"}
    BY <1>b
  <2> QED
    BY <1>d, <2>1, <2>2 DEF Tagged
<1>7. XenObeyed'
  BY <1>a DEF XenObeyed, NoStrayStore, NeverRefused
<1>8. ASSUME NEW d \in Cpus PROVE Queued(d)'
  BY <1>a, <1>b DEF Queued, Walk
<1>9. ASSUME NEW d \in Cpus PROVE OnTables(d)'
  <2>1. cur3[d] = "pgd" => life = "live" /\ "pgd" \in flag /\ d \in active
    BY <1>b, <1>e DEF OnTables
  <2>2. life = "live" => ~saved
    BY DEF Staged
  <2>3. (cur3[d] = "pgd" <=> xen.base[d] = "pgd") /\ (cur3[d] = "pgd" <=> xen.ubase[d] = "upgd")
    BY DEF OnTables
  <2> QED
    BY <1>a, <1>b, <2>1, <2>2, <2>3 DEF OnTables
<1> QED
  BY <1>c, <1>1, <1>2, <1>3, <1>4, <1>5, <1>6, <1>7, <1>8, <1>9

(* While all other CPUs are stopped, the tree is pinned as a whole or not at all. *)
LEMMA StoppedFlags ==
  ASSUME IInv, NEW c \in Cpus, \A d \in Cpus \ {c} : pc[d] = "run", pc[c] \in {"run", "saved"}
  PROVE  /\ ~Walking /\ (flag = {} \/ flag = {"pgd", "upgd"} \cup xen.tree)
         /\ xen.ro = flag /\ xen.pin = flag \cap (Ptes \cup {"upgd", "pgd"})
         /\ life # "exit" /\ xen \in XenStates /\ flag \subseteq Tables /\ xen.tree \subseteq Inner
         /\ "pgd" \notin Inner /\ "upgd" \notin Inner /\ Inner \subseteq Tables /\ {"pgd", "upgd"} \subseteq Tables
<1>1. \A d \in Cpus : ~Walk(d) /\ ~Loose(d)
  BY DEF Walk, Loose
<1>2. ~Walking
  BY <1>1 DEF Walking
<1>3. {tgt[d] : d \in {d \in Cpus : Loose(d)}} = {}
  BY <1>1
<1>4. flag = {} \/ flag = {"pgd", "upgd"} \cup xen.tree
  BY <1>2, <1>3 DEF IInv, Tagged
<1>5. xen.ro = flag /\ xen.pin = flag \cap (Ptes \cup {"upgd", "pgd"})
  BY <1>2, StillFlags
<1>6. life # "exit"
  BY DEF IInv, Turns
<1>7. xen \in XenStates /\ flag \subseteq Tables /\ xen.tree \subseteq Inner
      /\ "pgd" \notin Inner /\ "upgd" \notin Inner /\ Inner \subseteq Tables /\ {"pgd", "upgd"} \subseteq Tables
  BY DEF IInv, Locals, TypeOK, Inner, Tables
<1> QED
  BY <1>2, <1>4, <1>5, <1>6, <1>7

(* PinAll: xen_mm_pin_all. *)
LEMMA PinAllKeeps ==
  ASSUME IInv, NEW c \in Cpus, PinAll(c)
  PROVE  IInv'
<1>a. /\ \A d \in Cpus : pc[d] = "run"
      /\ Goto(c, "saved") /\ life # "none"
      /\ UNCHANGED <<life, boss, ptl, pl, q, cb, cur3, cpuVars, tgt, todo, dropVars, kmiss, oops>>
  BY DEF PinAll
<1>b. /\ ~Walking /\ (flag = {} \/ flag = {"pgd", "upgd"} \cup xen.tree)
      /\ xen.ro = flag /\ xen.pin = flag \cap (Ptes \cup {"upgd", "pgd"})
      /\ life # "exit" /\ xen \in XenStates /\ flag \subseteq Tables /\ xen.tree \subseteq Inner
      /\ "pgd" \notin Inner /\ "upgd" \notin Inner /\ Inner \subseteq Tables /\ {"pgd", "upgd"} \subseteq Tables
  BY <1>a, StoppedFlags
<1>c. ~saved /\ (life = "live" => "pgd" \in flag)
  BY <1>a DEF IInv, Staged, TypeOK
<1>d. \E d \in Cpus : pc'[d] = "saved"
  BY <1>a DEF Goto, IInv, Locals
<1>e. life' = life /\ ~Walking'
  <2>1. \A d \in Cpus : ~Walk(d)'
    BY <1>a DEF Goto, IInv, Locals, Walk
  <2> QED
    BY <1>a, <2>1 DEF Walking
<1>1. CASE "pgd" \in flag
  <2>1. UNCHANGED <<flag, saved, xen>>
    BY <1>1 DEF PinAll
  <2>2. Staged'
    BY <1>b, <1>c, <1>e, <2>1 DEF IInv, Staged
  <2>3. saved' \in BOOLEAN /\ "saved" \in {"run", "saved"} /\ pc[c] \in {"run", "saved"}
        /\ \A d \in Cpus \ {c} : pc[d] = "run"
    BY <1>a, <2>1 DEF IInv, TypeOK
  <2>4. /\ flag' \subseteq Tables /\ xen' \in XenStates /\ xen'.ro = flag'
        /\ xen'.pin = flag' \cap (Ptes \cup {"upgd", "pgd"}) /\ xen'.tree = xen.tree /\ xen'.refused = xen.refused
        /\ xen'.base = xen.base /\ xen'.ubase = xen.ubase
        /\ flag' = {} \/ flag' = {"pgd", "upgd"} \cup xen.tree
        /\ "pgd" \in flag => "pgd" \in flag' \/ saved
    BY <1>b, <2>1
  <2> QED
    BY <1>a, <2>2, <2>3, <2>4, StoppedKeeps
<1>2. CASE "pgd" \notin flag
  <2> DEFINE s == WalkOrder(xen.tree)
             S == {"pgd"} \cup xen.tree
             x == SetPin(xen, S)
             z == After(x, PinTopOps, Len(PinTopOps))
  <2>1. /\ xen' = ExecAll(PinPages(xen, s), PinTopOps) /\ flag' = flag \cup {"pgd", "upgd"} \cup xen.tree /\ saved' = TRUE
    BY <1>2 DEF PinAll
  <2>2. flag = {} /\ xen.ro = {} /\ xen.pin = {}
    BY <1>2, <1>b
  <2>3. PinPages(xen, s) = x
    <3>1. s \in Seq(Tables) /\ Once(s) /\ Range(s) = S
      BY <1>b, WalkFacts
    <3> HIDE DEF s, S
    <3>2. Range(s) \cap xen.pin = {}
      BY <2>2
    <3> QED
      BY <1>b, <3>1, <3>2, PinPagesDoes
  <2>4. /\ x \in XenStates /\ x.ro = S /\ x.pin = S \cap Ptes /\ x.tree = xen.tree /\ x.refused = xen.refused
        /\ x.base = xen.base /\ x.ubase = xen.ubase
    <3>1. S \in SUBSET Tables
      BY <1>b
    <3> HIDE DEF S
    <3>2. /\ x \in XenStates /\ x.ro = xen.ro \cup S /\ x.pin = xen.pin \cup (S \cap Ptes)
          /\ x.tree = xen.tree /\ x.refused = xen.refused /\ x.base = xen.base /\ x.ubase = xen.ubase
      BY <1>b, <3>1, SetFields
    <3> HIDE DEF x
    <3> QED
      BY <2>2, <3>2
  <2> HIDE DEF x
  <2>5. /\ PinTopOps \in Seq(PageOps) /\ Upward(PinTopOps) /\ Legal(x, PinTopOps)
        /\ z \in XenStates /\ z.ro = x.ro \cup {"upgd"} /\ z.pin = x.pin \cup {"pgd", "upgd"}
        /\ z.tree = x.tree /\ z.refused = x.refused /\ z.base = x.base /\ z.ubase = x.ubase
    <3>1. {"pgd"} \cup x.tree \subseteq x.ro /\ "pgd" \notin x.pin /\ "upgd" \notin x.pin
      BY <2>4
    <3> QED
      BY <2>4, <3>1, PinTopDoes
  <2>6. xen' = z
    <3>1. ExecAll(x, PinTopOps) = z
      BY <2>4, <2>5, Flushed
    <3> QED
      BY <2>1, <2>3, <3>1
  <2> HIDE DEF z
  <2>7. flag' = {"pgd", "upgd"} \cup xen.tree /\ saved' \in BOOLEAN
    BY <2>1, <2>2
  <2>8. /\ flag' \subseteq Tables /\ xen' \in XenStates /\ xen'.ro = flag'
        /\ xen'.pin = flag' \cap (Ptes \cup {"upgd", "pgd"}) /\ xen'.tree = xen.tree /\ xen'.refused = xen.refused
        /\ xen'.base = xen.base /\ xen'.ubase = xen.ubase
        /\ flag' = {} \/ flag' = {"pgd", "upgd"} \cup xen.tree
        /\ "pgd" \in flag => "pgd" \in flag' \/ saved
    BY <1>b, <2>4, <2>5, <2>6, <2>7
  <2>9. Staged'
    <3>1. life \in {"build", "down"}
      BY <1>2, <1>a, <1>b, <1>c DEF IInv, TypeOK
    <3> QED
      BY <1>d, <1>e, <2>1, <2>7, <3>1 DEF Staged
  <2>10. "saved" \in {"run", "saved"} /\ pc[c] \in {"run", "saved"} /\ \A d \in Cpus \ {c} : pc[d] = "run"
    BY <1>a
  <2> QED
    BY <1>a, <2>7, <2>8, <2>9, <2>10, StoppedKeeps
<1> QED
  BY <1>1, <1>2

(* UnpinAll: xen_mm_unpin_all. *)
LEMMA UnpinAllKeeps ==
  ASSUME IInv, NEW c \in Cpus, UnpinAll(c)
  PROVE  IInv'
<1>a. /\ pc[c] = "saved" /\ Goto(c, "run") /\ saved' = FALSE
      /\ UNCHANGED <<life, boss, ptl, pl, q, cb, cur3, cpuVars, tgt, todo, dropVars, kmiss, oops>>
  BY DEF UnpinAll
<1>o. /\ \A d \in Cpus \ {c} : pc[d] = "run"
      /\ saved' \in BOOLEAN /\ "run" \in {"run", "saved"} /\ pc[c] \in {"run", "saved"}
  BY <1>a DEF IInv, Turns
<1>b. /\ ~Walking /\ (flag = {} \/ flag = {"pgd", "upgd"} \cup xen.tree)
      /\ xen.ro = flag /\ xen.pin = flag \cap (Ptes \cup {"upgd", "pgd"})
      /\ life # "exit" /\ xen \in XenStates /\ flag \subseteq Tables /\ xen.tree \subseteq Inner
      /\ "pgd" \notin Inner /\ "upgd" \notin Inner /\ Inner \subseteq Tables /\ {"pgd", "upgd"} \subseteq Tables
  BY <1>a, <1>o, StoppedFlags
<1>e. life' = life /\ ~Walking'
  <2>1. \A d \in Cpus : ~Walk(d)'
    BY <1>a, <1>o DEF Goto, IInv, Locals, Walk
  <2> QED
    BY <1>a, <2>1 DEF Walking
<1>1. CASE ~saved
  <2>1. UNCHANGED <<flag, xen>>
    BY <1>1 DEF UnpinAll
  <2>2. Staged'
    BY <1>1, <1>a, <1>b, <1>e, <2>1 DEF IInv, Staged
  <2>4. /\ flag' \subseteq Tables /\ xen' \in XenStates /\ xen'.ro = flag'
        /\ xen'.pin = flag' \cap (Ptes \cup {"upgd", "pgd"}) /\ xen'.tree = xen.tree /\ xen'.refused = xen.refused
        /\ xen'.base = xen.base /\ xen'.ubase = xen.ubase
        /\ flag' = {} \/ flag' = {"pgd", "upgd"} \cup xen.tree
        /\ "pgd" \in flag => "pgd" \in flag' \/ saved
    BY <1>b, <2>1
  <2> QED
    BY <1>a, <1>o, <2>2, <2>4, StoppedKeeps
<1>2. CASE saved
  <2> DEFINE s == WalkOrder(xen.tree)
             S == {"pgd"} \cup xen.tree
             x == After(xen, UnpinTopOps, Len(UnpinTopOps))
             z == SetUnpin(x, S)
  <2>1. xen' = UnpinPages(ExecAll(xen, UnpinTopOps), s) /\ flag' = flag \ ({"pgd", "upgd"} \cup xen.tree)
    BY <1>2 DEF UnpinAll
  <2>2. life \in {"build", "down"} /\ flag = {"pgd", "upgd"} \cup xen.tree
    BY <1>2, <1>b DEF IInv, Staged
  <2>3. \A d \in Cpus : xen.base[d] = Swapper /\ xen.ubase[d] = Swapper
    <3>1. \A d \in Cpus : xen.base[d] # "pgd" /\ xen.ubase[d] # "upgd"
      BY <2>2 DEF IInv, OnTables
    <3> QED
      BY <1>b, <3>1 DEF XenStates
  <2>4. /\ UnpinTopOps \in Seq(PageOps) /\ Downward(UnpinTopOps) /\ Legal(xen, UnpinTopOps)
        /\ x \in XenStates /\ x.ro = xen.ro \ {"upgd"} /\ x.pin = xen.pin \ {"pgd", "upgd"}
        /\ x.tree = xen.tree /\ x.refused = xen.refused /\ x.base = xen.base /\ x.ubase = xen.ubase
    <3>1. {"pgd", "upgd"} \subseteq xen.pin
      BY <1>b, <2>2
    <3> QED
      BY <1>b, <2>3, <3>1, UnpinTopDoes
  <2>5. ExecAll(xen, UnpinTopOps) = x
    BY <1>b, <2>4, Flushed
  <2> HIDE DEF x
  <2>6. UnpinPages(x, s) = z
    <3>1. s \in Seq(Tables) /\ Once(s) /\ Range(s) = S
      BY <1>b, WalkFacts
    <3>2. "upgd" \notin S /\ \A p \in S : p \in x.pin <=> p \in Ptes
      BY <1>b, <2>2, <2>4
    <3>3. Idle(x)
      BY <2>3, <2>4 DEF Idle
    <3> HIDE DEF s, S
    <3> QED
      BY <2>4, <3>1, <3>2, <3>3, UnpinPagesDoes
  <2>7. /\ z \in XenStates /\ z.ro = x.ro \ S /\ z.pin = x.pin \ S
        /\ z.tree = x.tree /\ z.refused = x.refused /\ z.base = x.base /\ z.ubase = x.ubase
    <3>1. S \in SUBSET Tables
      BY <1>b
    <3> HIDE DEF S
    <3> QED
      BY <2>4, <3>1, SetFields
  <2>8. xen' = z
    BY <2>1, <2>5, <2>6
  <2> HIDE DEF z
  <2>9. flag' = {} /\ xen'.ro = {} /\ xen'.pin = {}
    BY <1>b, <2>1, <2>2, <2>4, <2>7, <2>8
  <2>10. /\ flag' \subseteq Tables /\ xen' \in XenStates /\ xen'.ro = flag'
         /\ xen'.pin = flag' \cap (Ptes \cup {"upgd", "pgd"}) /\ xen'.tree = xen.tree /\ xen'.refused = xen.refused
         /\ xen'.base = xen.base /\ xen'.ubase = xen.ubase
         /\ flag' = {} \/ flag' = {"pgd", "upgd"} \cup xen.tree
         /\ "pgd" \in flag => "pgd" \in flag' \/ saved
    BY <1>2, <2>4, <2>7, <2>8, <2>9
  <2>11. Staged'
    BY <1>a, <1>e, <2>2, <2>9 DEF Staged
  <2> QED
    BY <1>a, <1>o, <2>10, <2>11, StoppedKeeps
<1> QED
  BY <1>1, <1>2 DEF IInv, TypeOK

------------------------------------------------------------------------------
(* The theorems *)

(* Before the process exists nothing is pinned, locked or queued. *)
LEMMA InitHolds ==
  ASSUME Init
  PROVE  IInv
<1>a. /\ life = "none" /\ boss = NoCpu /\ flag = {} /\ saved = FALSE /\ ptl = NoCpu
      /\ pl = [p \in Ptes |-> NoCpu] /\ mask = {} /\ user = {} /\ active = {} /\ lazy = {}
      /\ cur3 = [c \in Cpus |-> Swapper] /\ pc = [c \in Cpus |-> "run"] /\ tgt = [c \in Cpus |-> "pgd"]
      /\ todo = <<>> /\ ipi = {} /\ scan = {} /\ kmiss = FALSE /\ oops = FALSE
      /\ q = [c \in Cpus |-> <<>>] /\ cb = [c \in Cpus |-> <<>>]
  BY DEF Init
<1>b. /\ xen \in XenStates /\ xen.ro = {} /\ xen.pin = {} /\ xen.tree = {} /\ xen.refused = FALSE
      /\ xen.base = [c \in Cpus |-> Swapper] /\ xen.ubase = [c \in Cpus |-> Swapper]
  BY DEF Init, XenStates
<1>c. \A c \in Cpus : ~Walk(c) /\ ~Loose(c) /\ ~AtPte(c) /\ pc[c] = "run" /\ q[c] = <<>> /\ cb[c] = <<>>
  BY <1>a DEF Walk, Loose, AtPte
<1>d. ~Walking /\ Rest = <<>>
  BY <1>c DEF Walking, Rest
<1>1. TypeOK
  <2>1. \A c \in Cpus : Len(q[c]) <= MCBatch
    BY <1>c
  <2> QED
    BY <1>a, <1>b, <2>1 DEF TypeOK
<1>2. Locals
  <2>1. <<>> \in Seq(Multicalls) /\ <<>> \in Seq(Callbacks) /\ <<>> \in Seq(Tables)
    OBVIOUS
  <2> QED
    BY <1>a, <1>b, <1>c, <2>1 DEF Locals, PCs, Tables
<1>3. Turns
  BY <1>a, <1>c DEF Turns
<1>4. Locks
  BY <1>a, <1>c DEF Locks
<1>5. Flags
  <2>1. Legal(xen, <<>>) /\ After(xen, <<>>, Len(<<>>)) = xen
    BY <1>b, EmptyBatch
  <2> QED
    BY <1>a, <1>b, <1>d, <2>1 DEF Flags
<1>6. Tagged
  BY <1>a, <1>c, <1>d DEF Tagged
<1>7. Staged
  BY <1>a DEF Staged
<1>8. XenObeyed
  BY <1>a, <1>b DEF XenObeyed, NoStrayStore, NeverRefused
<1>9. ASSUME NEW c \in Cpus PROVE Queued(c) /\ OnTables(c)
  BY <1>a, <1>b, <1>c DEF Queued, OnTables, Walk, Swapper
<1> QED
  BY <1>c, <1>1, <1>2, <1>3, <1>4, <1>5, <1>6, <1>7, <1>8, <1>9 DEF IInv

(* The invariant speaks of the variables of the specification only. *)
LEMMA StutterKeeps ==
  ASSUME IInv, UNCHANGED vars
  PROVE  IInv'
<1> USE DEF IInv
<1>a. UNCHANGED <<life, boss, flag, saved, ptl, pl, xen, q, cb, cur3, mask, user, active, lazy, pc, tgt,
                  todo, ipi, scan, kmiss, oops>>
  BY DEF vars
<1>b. \A d \in Cpus : (Walk(d)' <=> Walk(d)) /\ (Loose(d)' <=> Loose(d)) /\ (AtPte(d)' <=> AtPte(d))
  BY <1>a DEF Walk, Loose, AtPte
<1>c. (Walking' <=> Walking) /\ Rest' = Rest
  BY <1>a, <1>b DEF Walking, Rest
<1>1. TypeOK' /\ XenObeyed'
  BY <1>a DEF TypeOK, XenObeyed, NoStrayStore, NeverRefused
<1>2. Locals' /\ Turns'
  BY <1>a, <1>b DEF Locals, Turns
<1>3. Locks'
  BY <1>a, <1>b DEF Locks
<1>4. Flags' /\ Tagged'
  BY <1>a, <1>b, <1>c, FlagsSame, TaggedSame
<1>5. Staged'
  BY <1>a, <1>c DEF Staged
<1>6. ASSUME NEW d \in Cpus PROVE Queued(d)' /\ OnTables(d)'
  BY <1>a, <1>b DEF Queued, OnTables
<1>7. ASSUME NEW d \in Cpus, Loose(d)' PROVE LooseOK(d)'
  BY <1>a, <1>b, <1>7 DEF LooseOK
<1> QED
  BY <1>1, <1>2, <1>3, <1>4, <1>5, <1>6, <1>7

(* The inductive invariant of the pinning code: with the batches of a walk  *)
(* carried out, the hypervisor has of the table pages what PagePinned says. *)
THEOREM PinInvariant == Spec => []IInv
<1>1. Init => IInv
  BY InitHolds
<1>2. IInv /\ [Next]_vars => IInv'
  <2> SUFFICES ASSUME IInv, [Next]_vars PROVE IInv'
    OBVIOUS
  <2>1. ASSUME NEW c \in Cpus, Step(c) PROVE IInv'
    <3>1. CASE Populate(c) \/ Release(c) \/ SetKernelEntry(c)
      BY <3>1, PopulateKeeps, ReleaseKeeps, SetKernelEntryKeeps
    <3>2. CASE SetPteDirect(c) \/ SetPteBatched(c) \/ LeaveLazyMmu(c)
      BY <3>2, SetPteDirectKeeps, SetPteBatchedKeeps, LeaveLazyMmuKeeps
    <3>3. CASE MakeRoom(c) \/ PinPage(c) \/ PinTop(c)
      BY <3>3, MakeRoomKeeps, PinPageKeeps, PinTopKeeps
    <3>4. CASE SwitchEnd(c) \/ DropSelf(c) \/ AddStale(c) \/ DropOther(c)
      BY <3>4, SwitchEndKeeps, DropSelfKeeps, AddStaleKeeps, DropOtherKeeps
    <3>5. CASE UnpinStart(c) \/ UnpinPage(c) \/ UnpinEnd(c) \/ UnpinAll(c)
      BY <3>5, UnpinStartKeeps, UnpinPageKeeps, UnpinEndKeeps, UnpinAllKeeps
    <3>6. CASE \E d \in Cpus : CallOne(c, d)
      BY <3>6, CallOneKeeps
    <3> QED
      BY <2>1, <3>1, <3>2, <3>3, <3>4, <3>5, <3>6 DEF Step
  <2>2. ASSUME NEW c \in Cpus, Request(c) PROVE IInv'
    <3>1. CASE PgdAlloc(c) \/ PinStart(c) \/ ExecSwitch(c)
      BY <3>1, PgdAllocKeeps, PinStartKeeps, ExecSwitchKeeps
    <3>2. CASE SwitchIn(c) \/ SwitchLazy(c) \/ SwitchOut(c)
      BY <3>2, SwitchInKeeps, SwitchLazyKeeps, SwitchOutKeeps
    <3>3. CASE ExitStart(c) \/ PinAll(c) \/ VmallocFault(c) \/ SyncAll(c)
      BY <3>3, ExitStartKeeps, PinAllKeeps, VmallocFaultKeeps, SyncAllKeeps
    <3>4. CASE \E p \in Inner : AllocTable(c, p) \/ Unlink(c, p)
      BY <3>4, AllocTableKeeps, UnlinkKeeps
    <3>5. CASE \E p \in Ptes : PteLock(c, p)
      BY <3>5, PteLockKeeps
    <3> QED
      BY <2>2, <3>1, <3>2, <3>3, <3>4, <3>5 DEF Request
  <2>3. CASE PgdFree \/ VmallocNew
    BY <2>3, PgdFreeKeeps, VmallocNewKeeps
  <2>4. CASE UNCHANGED vars
    BY <2>4, StutterKeeps
  <2> QED
    BY <2>1, <2>2, <2>3, <2>4 DEF Next
<1> QED
  BY <1>1, <1>2, PTL DEF Spec

(* Xen refuses no multicall and no plain store hits a read-only page that is *)
(* not a page table, whatever the CPUs, the batches and the tree.            *)
THEOREM XenIsObeyed == Spec => []XenObeyed
<1>1. IInv => XenObeyed
  BY DEF IInv
<1> QED
  BY <1>1, PinInvariant, PTL

(* The flags, the base pointers and the hypervisor's pins agree. *)
THEOREM PinsAreTruthful == Spec => []PinsTruthful
<1>1. ASSUME IInv PROVE BasesPinned
  <2> SUFFICES ASSUME NEW c \in Cpus, xen.base[c] = "pgd" \/ xen.ubase[c] = "upgd"
               PROVE  {"pgd", "upgd"} \subseteq xen.pin
    BY DEF BasesPinned
  <2>1. cur3[c] = "pgd"
    BY <1>1 DEF IInv, OnTables
  <2>2. "pgd" \in flag
    BY <1>1, <2>1 DEF IInv, OnTables
  <2>3. ~Walking
    BY <1>1, <2>1, WalkAlone DEF Swapper
  <2>4. {"pgd", "upgd"} \subseteq flag
    BY <1>1, <2>2, <2>3 DEF IInv, Tagged
  <2> QED
    BY <1>1, <2>3, <2>4, StillFlags
<1>2. ASSUME IInv PROVE FlagsTruthful
  <2> SUFFICES ASSUME ptl = NoCpu, NEW p \in Tables, ~\E c \in Cpus : pc[c] = "unlinked" /\ tgt[c] = p
               PROVE  IF TreePage(p) /\ "pgd" \in flag
                      THEN p \in flag /\ p \in xen.ro /\ (p \in Ptes \/ p = "pgd" \/ p = "upgd" => p \in xen.pin)
                      ELSE p \notin flag /\ p \notin xen.ro /\ p \notin xen.pin
    BY DEF FlagsTruthful
  <2>1. ~Walking
    BY <1>2, WalkAlone
  <2>2. xen.ro = flag /\ xen.pin = flag \cap (Ptes \cup {"upgd", "pgd"})
    BY <1>2, <2>1, StillFlags
  <2>3. \A c \in Cpus : Loose(c) => pc[c] = "unlinked"
    BY <1>2 DEF IInv, Turns, Loose
  <2>4. p \notin {tgt[c] : c \in {c \in Cpus : Loose(c)}}
    BY <2>3
  <2>5. flag = {} \/ (p \in flag <=> p \in {"pgd", "upgd"} \cup xen.tree)
    BY <1>2, <2>1, <2>4 DEF IInv, Tagged
  <2>6. flag = {} \/ "pgd" \in flag
    BY <1>2, <2>1 DEF IInv, Tagged
  <2> QED
    BY <2>2, <2>5, <2>6 DEF TreePage
<1>3. IInv => PinsTruthful
  BY <1>1, <1>2 DEF PinsTruthful, IInv
<1> QED
  BY <1>3, PinInvariant, PTL
==============================================================================
