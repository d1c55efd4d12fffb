-------------------------- MODULE ReportQueueProofs --------------------------
(***************************************************************************)
(* Proofs about ReportQueue for any set of processes and CPUs and any      *)
(* bounds: the types, that the reporter never bails out and reads stopped  *)
(* processes only, that no response is skipped, and that the driver        *)
(* implements ReportService.                                               *)
(***************************************************************************)
EXTENDS ReportQueue, TLAPS

USE PidsAssumption, CpuAssumption, BoundAssumption

(* Every start of the driver satisfies the inductive invariant. *)
LEMMA InitIInv == Init => IInv
<1> SUFFICES ASSUME Init PROVE IInv
  OBVIOUS
<1>1. TypeOK
  <2>1. rsps \in Seq(Slots) /\ unanswered \in Seq(Pids) /\ queue \in Seq(Pids)
    BY DEF Init
  <2>2. isnap \in Seq(Pids) /\ tsnap \in Seq(Pids)
    BY DEF Init
  <2>3. pending \in BOOLEAN /\ skip \in BOOLEAN
    BY DEF Init
  <2>4. proc \in [Pids -> {"running", "stopped", "zombie", "gone"}]
    BY DEF Init
  <2> QED
    BY <2>1, <2>2, <2>3, <2>4 DEF Init, TypeOK, IrqPcs, ThreadPcs
<1>2. LockHeld /\ FreshLinks /\ PidsKnown /\ NoBailOut
  BY DEF Init, LockHeld, FreshLinks, PidsKnown, NoBailOut
<1>3. SemCounts
  BY DEF Init, SemCounts, Unannounced, Claimed
<1>4. IndicesInOrder /\ SeenSoFar /\ AheadOfRequests
  BY DEF Init, IndicesInOrder, SeenSoFar, NothingSkipped, AheadOfRequests
<1> QED
  BY <1>1, <1>2, <1>3, <1>4 DEF IInv

(* A slot the handler looks at holds an operation and a known pid. *)
LEMMA SlotType ==
  ASSUME TypeOK, IndicesInOrder, ipc # "idle", rc # rp
  PROVE  Slot \in Slots /\ Slot.pid \in Pids
<1>1. rc + 1 \in 1..Len(rsps)
  BY DEF TypeOK, IndicesInOrder
<1>2. Slot \in Slots
  BY <1>1 DEF TypeOK, Slot
<1> QED
  BY <1>2 DEF Slots

(* Every step preserves the inductive invariant. *)
LEMMA NextIInv == IInv /\ [Next]_vars => IInv'
<1> SUFFICES ASSUME IInv, [Next]_vars PROVE IInv'
  OBVIOUS
<1>1. ASSUME NEW p \in Pids, PutRequest(p) PROVE IInv'
  <2> USE <1>1 DEF IInv, PutRequest, ringVars, irqVars, threadVars, queueVars,
    procVars
  <2>0. [op |-> "NXVIOLATION", pid |-> p] \in Slots
    BY DEF Slots, RingOps
  <2>6. rsps' \in Seq(Slots)
    <3>1. CASE reqProd < Len(rsps)
      BY <2>0, <3>1 DEF TypeOK
    <3>2. CASE ~(reqProd < Len(rsps))
      BY <3>2 DEF TypeOK
    <3> QED
      BY <3>1, <3>2
  <2>1. TypeOK'
    BY <2>6 DEF TypeOK
  <2>2. LockHeld' /\ FreshLinks' /\ PidsKnown' /\ NoBailOut'
    BY DEF TypeOK, LockHeld, FreshLinks, PidsKnown, NoBailOut
  <2>3. SemCounts'
    BY DEF TypeOK, SemCounts, Unannounced, Claimed
  <2>7. Len(rsps') = Len(rsps)
    <3>1. CASE reqProd < Len(rsps)
      BY <3>1 DEF TypeOK
    <3>2. CASE ~(reqProd < Len(rsps))
      BY <3>2
    <3> QED
      BY <3>1, <3>2
  <2>8. Len(unanswered') = Len(unanswered) + 1
    BY DEF TypeOK
  <2>4. IndicesInOrder' /\ AheadOfRequests'
    <3>1. Len(rsps) \in Nat /\ Len(unanswered) \in Nat
      BY DEF TypeOK
    <3>2. UNCHANGED <<ahead, rspCons, rc, rp, ipc>> /\ reqProd' = reqProd + 1
      OBVIOUS
    <3>3. AheadOfRequests'
      BY <2>7, <2>8, <3>1, <3>2 DEF TypeOK, AheadOfRequests
    <3> QED
      BY <2>7, <3>2, <3>3 DEF IndicesInOrder
  <2>9. \A i \in 1..Len(rsps) : rsps'[i] = rsps[i] \/ (i = reqProd + 1 /\ WrittenOver(i)')
    BY DEF TypeOK, WrittenOver
  <2>10. reqProd + 1 <= Len(rsps) => ahead \in 1..(reqProd + 1)
    BY DEF TypeOK, AheadOfRequests
  <2>5. SeenSoFar'
    <3>1. \A i \in 1..Len(rsps) : WrittenOver(i) => WrittenOver(i)'
      BY <2>9 DEF WrittenOver
    <3>2. \A i \in 1..Len(rsps) : WrittenOver(i)' => ahead \in 1..i
      BY <2>9, <2>10 DEF WrittenOver, SeenSoFar, NothingSkipped
    <3> QED
      BY <2>7, <3>1, <3>2 DEF TypeOK, IndicesInOrder, SeenSoFar, NothingSkipped
  <2> QED
    BY <2>1, <2>2, <2>3, <2>4, <2>5
<1>2. ASSUME NEW p \in Pids, StopSelf(p) PROVE IInv'
  <2> USE <1>2 DEF IInv, StopSelf, ringVars, irqVars, threadVars, queueVars, procVars
  <2>1. TypeOK'
    BY DEF TypeOK
  <2>2. LockHeld' /\ FreshLinks' /\ PidsKnown' /\ NoBailOut'
    BY DEF TypeOK, LockHeld, FreshLinks, PidsKnown, NoBailOut
  <2>3. SemCounts'
    BY DEF TypeOK, SemCounts, Unannounced, Claimed
  <2>4. IndicesInOrder' /\ AheadOfRequests'
    BY DEF TypeOK, IndicesInOrder, AheadOfRequests
  <2>5. SeenSoFar'
    BY DEF TypeOK, IndicesInOrder, SeenSoFar, NothingSkipped, WrittenOver
  <2> QED
    BY <2>1, <2>2, <2>3, <2>4, <2>5
<1>3. ASSUME NEW p \in Pids, Exit(p) PROVE IInv'
  <2> USE <1>3 DEF IInv, Exit, ringVars, irqVars, threadVars, queueVars, procVars
  <2>1. TypeOK'
    BY DEF TypeOK
  <2>2. LockHeld' /\ FreshLinks' /\ PidsKnown' /\ NoBailOut'
    BY DEF TypeOK, LockHeld, FreshLinks, PidsKnown, NoBailOut
  <2>3. SemCounts'
    BY DEF TypeOK, SemCounts, Unannounced, Claimed
  <2>4. IndicesInOrder' /\ AheadOfRequests'
    BY DEF TypeOK, IndicesInOrder, AheadOfRequests
  <2>5. SeenSoFar'
    BY DEF TypeOK, IndicesInOrder, SeenSoFar, NothingSkipped, WrittenOver
  <2> QED
    BY <2>1, <2>2, <2>3, <2>4, <2>5
<1>4. ASSUME NEW p \in Pids, Reap(p) PROVE IInv'
  <2> USE <1>4 DEF IInv, Reap, ringVars, irqVars, threadVars, queueVars, procVars
  <2>1. TypeOK'
    BY DEF TypeOK
  <2>2. LockHeld' /\ FreshLinks' /\ PidsKnown' /\ NoBailOut'
    BY DEF TypeOK, LockHeld, FreshLinks, PidsKnown, NoBailOut
  <2>3. SemCounts'
    BY DEF TypeOK, SemCounts, Unannounced, Claimed
  <2>4. IndicesInOrder' /\ AheadOfRequests'
    BY DEF TypeOK, IndicesInOrder, AheadOfRequests
  <2>5. SeenSoFar'
    BY DEF TypeOK, IndicesInOrder, SeenSoFar, NothingSkipped, WrittenOver
  <2> QED
    BY <2>1, <2>2, <2>3, <2>4, <2>5
<1>5. ASSUME NEW op \in AnswerOps, PushAnswer(op) PROVE IInv'
  <2> USE <1>5 DEF IInv, PushAnswer, ringVars, irqVars, threadVars, queueVars,
    procVars
  <2>1. TypeOK'
    BY DEF TypeOK, Slots, RingOps, AnswerOps, VerdictOps
  <2>2. LockHeld' /\ FreshLinks' /\ PidsKnown' /\ NoBailOut'
    BY DEF TypeOK, LockHeld, FreshLinks, PidsKnown, NoBailOut
  <2>3. SemCounts'
    BY DEF TypeOK, SemCounts, Unannounced, Claimed
  <2>4. IndicesInOrder' /\ AheadOfRequests'
    BY DEF TypeOK, IndicesInOrder, AheadOfRequests
  <2>5. SeenSoFar'
    <3>1. Len(rsps') = Len(rsps) + 1 /\ \A i \in 1..Len(rsps) : rsps'[i] = rsps[i]
      BY DEF TypeOK
    <3>2. rsps'[Len(rsps) + 1].op # "NXVIOLATION"
      BY DEF TypeOK, AnswerOps, VerdictOps
    <3>3. \A i \in 1..Len(rsps) : WrittenOver(i)' <=> WrittenOver(i)
      BY <3>1 DEF WrittenOver
    <3>4. ahead \in 1..Len(rsps) => ahead' = ahead
      BY DEF TypeOK
    <3>5. \A i \in 1..Len(rsps') : WrittenOver(i)' => ahead' \in 1..i
      <4>1. TAKE i \in 1..Len(rsps')
      <4>2. HAVE WrittenOver(i)'
      <4>3. Len(rsps) \in Nat
        BY DEF TypeOK
      <4>4. i \in 1..Len(rsps)
        BY <3>1, <3>2, <4>2, <4>3 DEF WrittenOver
      <4>5. ahead \in 1..i
        BY <3>3, <4>2, <4>4 DEF SeenSoFar, NothingSkipped
      <4> QED
        BY <3>4, <4>3, <4>4, <4>5
    <3>6. UNCHANGED <<rspCons, rc, ipc, handled>>
      OBVIOUS
    <3> QED
      BY <3>1, <3>3, <3>5, <3>6 DEF TypeOK, IndicesInOrder, SeenSoFar, NothingSkipped
  <2> QED
    BY <2>1, <2>2, <2>3, <2>4, <2>5
<1>6. ASSUME NEW op \in VerdictOps, NEW p \in Pids, PushVerdict(op, p) PROVE IInv'
  <2> USE <1>6 DEF IInv, PushVerdict, ringVars, irqVars, threadVars, queueVars,
    procVars
  <2>1. TypeOK'
    BY DEF TypeOK, Slots, RingOps, AnswerOps, VerdictOps
  <2>2. LockHeld' /\ FreshLinks' /\ PidsKnown' /\ NoBailOut'
    BY DEF TypeOK, LockHeld, FreshLinks, PidsKnown, NoBailOut
  <2>3. SemCounts'
    BY DEF TypeOK, SemCounts, Unannounced, Claimed
  <2>4. IndicesInOrder' /\ AheadOfRequests'
    BY DEF TypeOK, IndicesInOrder, AheadOfRequests
  <2>5. SeenSoFar'
    <3>1. Len(rsps') = Len(rsps) + 1 /\ \A i \in 1..Len(rsps) : rsps'[i] = rsps[i]
      BY DEF TypeOK
    <3>2. rsps'[Len(rsps) + 1].op # "NXVIOLATION"
      BY DEF TypeOK, AnswerOps, VerdictOps
    <3>3. \A i \in 1..Len(rsps) : WrittenOver(i)' <=> WrittenOver(i)
      BY <3>1 DEF WrittenOver
    <3>4. ahead \in 1..Len(rsps) => ahead' = ahead
      BY DEF TypeOK
    <3>5. \A i \in 1..Len(rsps') : WrittenOver(i)' => ahead' \in 1..i
      <4>1. TAKE i \in 1..Len(rsps')
      <4>2. HAVE WrittenOver(i)'
      <4>3. Len(rsps) \in Nat
        BY DEF TypeOK
      <4>4. i \in 1..Len(rsps)
        BY <3>1, <3>2, <4>2, <4>3 DEF WrittenOver
      <4>5. ahead \in 1..i
        BY <3>3, <4>2, <4>4 DEF SeenSoFar, NothingSkipped
      <4> QED
        BY <3>4, <4>3, <4>4, <4>5
    <3>6. UNCHANGED <<rspCons, rc, ipc, handled>>
      OBVIOUS
    <3> QED
      BY <3>1, <3>3, <3>5, <3>6 DEF TypeOK, IndicesInOrder, SeenSoFar, NothingSkipped
  <2> QED
    BY <2>1, <2>2, <2>3, <2>4, <2>5
<1>7. ASSUME IrqEnter PROVE IInv'
  <2> USE <1>7 DEF IInv, IrqEnter, ringVars, irqVars, threadVars, queueVars, procVars
  <2>6. skip' \in BOOLEAN
    OBVIOUS
  <2>0. rp' \in Nat /\ rc' \in Nat
    BY DEF TypeOK
  <2>1. TypeOK'
    BY <2>0, <2>6 DEF TypeOK, IrqPcs
  <2>2. LockHeld' /\ FreshLinks' /\ PidsKnown' /\ NoBailOut'
    BY DEF TypeOK, LockHeld, FreshLinks, PidsKnown, NoBailOut
  <2>3. SemCounts'
    BY DEF TypeOK, SemCounts, Unannounced, Claimed
  <2>4. IndicesInOrder' /\ AheadOfRequests'
    BY DEF TypeOK, IndicesInOrder, AheadOfRequests
  <2>5. SeenSoFar'
    BY DEF TypeOK, IndicesInOrder, SeenSoFar, NothingSkipped, WrittenOver
  <2> QED
    BY <2>1, <2>2, <2>3, <2>4, <2>5
<1>8. ASSUME IrqOther PROVE IInv'
  <2> USE <1>8 DEF IInv, IrqOther, IrqCase, ringVars, irqVars, threadVars,
    queueVars, procVars
  <2>1. TypeOK'
    BY DEF TypeOK, IrqPcs
  <2>2. LockHeld' /\ FreshLinks' /\ PidsKnown' /\ NoBailOut'
    BY DEF TypeOK, LockHeld, FreshLinks, PidsKnown, NoBailOut
  <2>3. SemCounts'
    BY DEF TypeOK, SemCounts, Unannounced, Claimed
  <2>4. IndicesInOrder' /\ AheadOfRequests'
    BY DEF TypeOK, IndicesInOrder, AheadOfRequests
  <2>5. SeenSoFar'
    BY DEF TypeOK, IndicesInOrder, SeenSoFar, NothingSkipped, WrittenOver
  <2> QED
    BY <2>1, <2>2, <2>3, <2>4, <2>5
<1>9. ASSUME IrqKill PROVE IInv'
  <2> USE <1>9 DEF IInv, IrqKill, IrqCase, KillProcess, ringVars, irqVars,
    threadVars, queueVars, procVars
  <2>0. Slot.pid \in Pids
    BY SlotType
  <2>6. skip' \in BOOLEAN
    OBVIOUS
  <2>1. TypeOK'
    BY <2>6, <2>0 DEF TypeOK, IrqPcs
  <2>2. LockHeld' /\ FreshLinks' /\ PidsKnown' /\ NoBailOut'
    BY DEF TypeOK, LockHeld, FreshLinks, PidsKnown, NoBailOut
  <2>3. SemCounts'
    BY DEF TypeOK, SemCounts, Unannounced, Claimed
  <2>4. IndicesInOrder' /\ AheadOfRequests'
    BY DEF TypeOK, IndicesInOrder, AheadOfRequests
  <2>5. SeenSoFar'
    BY DEF TypeOK, IndicesInOrder, SeenSoFar, NothingSkipped, WrittenOver, Slot
  <2> QED
    BY <2>1, <2>2, <2>3, <2>4, <2>5
<1>10. ASSUME IrqResume PROVE IInv'
  <2> USE <1>10 DEF IInv, IrqResume, IrqCase, ringVars, irqVars, threadVars,
    queueVars, procVars
  <2>6. skip' \in BOOLEAN
    OBVIOUS
  <2>1. TypeOK'
    BY <2>6 DEF TypeOK, IrqPcs
  <2>2. LockHeld' /\ FreshLinks' /\ PidsKnown' /\ NoBailOut'
    BY DEF TypeOK, LockHeld, FreshLinks, PidsKnown, NoBailOut
  <2>3. SemCounts'
    BY DEF TypeOK, SemCounts, Unannounced, Claimed
  <2>4. IndicesInOrder' /\ AheadOfRequests'
    BY DEF TypeOK, IndicesInOrder, AheadOfRequests
  <2>5. SeenSoFar'
    BY DEF TypeOK, IndicesInOrder, SeenSoFar, NothingSkipped, WrittenOver, Slot
  <2> QED
    BY <2>1, <2>2, <2>3, <2>4, <2>5
<1>11. ASSUME IrqNx PROVE IInv'
  <2> USE <1>11 DEF IInv, IrqNx, IrqCase, ringVars, irqVars, threadVars, queueVars,
    procVars
  <2>1. TypeOK'
    BY DEF TypeOK, IrqPcs
  <2>2. LockHeld' /\ FreshLinks' /\ PidsKnown' /\ NoBailOut'
    BY DEF TypeOK, LockHeld, FreshLinks, PidsKnown, NoBailOut
  <2>3. SemCounts'
    BY DEF TypeOK, SemCounts, Unannounced, Claimed
  <2>4. IndicesInOrder' /\ AheadOfRequests'
    BY DEF TypeOK, IndicesInOrder, AheadOfRequests
  <2>5. SeenSoFar'
    BY DEF TypeOK, IndicesInOrder, SeenSoFar, NothingSkipped, WrittenOver
  <2> QED
    BY <2>1, <2>2, <2>3, <2>4, <2>5
<1>12. ASSUME IrqReport PROVE IInv'
  <2> USE <1>12 DEF IInv, IrqReport, IrqCase, ringVars, irqVars, threadVars,
    queueVars, procVars
  <2>1. TypeOK'
    BY DEF TypeOK, IrqPcs
  <2>2. LockHeld' /\ FreshLinks' /\ PidsKnown' /\ NoBailOut'
    BY DEF TypeOK, LockHeld, FreshLinks, PidsKnown, NoBailOut
  <2>3. SemCounts'
    BY DEF TypeOK, SemCounts, Unannounced, Claimed
  <2>4. IndicesInOrder' /\ AheadOfRequests'
    BY DEF TypeOK, IndicesInOrder, AheadOfRequests
  <2>5. SeenSoFar'
    BY DEF TypeOK, IndicesInOrder, SeenSoFar, NothingSkipped, WrittenOver, Slot
  <2> QED
    BY <2>1, <2>2, <2>3, <2>4, <2>5
<1>13. ASSUME IrqLock PROVE IInv'
  <2> USE <1>13 DEF IInv, LockFree, IrqLock, ringVars, irqVars, threadVars,
    queueVars, procVars
  <2>1. TypeOK'
    BY DEF TypeOK, IrqPcs
  <2>2. LockHeld' /\ FreshLinks' /\ PidsKnown' /\ NoBailOut'
    BY DEF TypeOK, LockHeld, FreshLinks, PidsKnown, NoBailOut
  <2>3. SemCounts'
    BY DEF TypeOK, SemCounts, Unannounced, Claimed
  <2>4. IndicesInOrder' /\ AheadOfRequests'
    BY DEF TypeOK, IndicesInOrder, AheadOfRequests
  <2>5. SeenSoFar'
    BY DEF TypeOK, IndicesInOrder, SeenSoFar, NothingSkipped, WrittenOver
  <2> QED
    BY <2>1, <2>2, <2>3, <2>4, <2>5
<1>14. ASSUME IrqRead PROVE IInv'
  <2> USE <1>14 DEF IInv, IrqRead, ringVars, irqVars, threadVars, queueVars, procVars
  <2>0. Slot.pid \in Pids
    BY SlotType DEF TypeOK, IndicesInOrder
  <2>1. TypeOK'
    BY <2>0 DEF TypeOK, IrqPcs
  <2>2. LockHeld' /\ FreshLinks' /\ PidsKnown' /\ NoBailOut'
    BY <2>0 DEF TypeOK, LockHeld, FreshLinks, PidsKnown, NoBailOut
  <2>3. SemCounts'
    BY DEF TypeOK, SemCounts, Unannounced, Claimed
  <2>4. IndicesInOrder' /\ AheadOfRequests'
    BY DEF TypeOK, IndicesInOrder, AheadOfRequests
  <2>5. SeenSoFar'
    BY DEF TypeOK, IndicesInOrder, SeenSoFar, NothingSkipped, WrittenOver
  <2> QED
    BY <2>1, <2>2, <2>3, <2>4, <2>5
<1>15. ASSUME IrqLink PROVE IInv'
  <2> USE <1>15 DEF IInv, IrqLink, ringVars, irqVars, threadVars, queueVars, procVars
  <2>1. TypeOK'
    BY DEF TypeOK, IrqPcs, PidsKnown
  <2>2. LockHeld' /\ FreshLinks' /\ PidsKnown' /\ NoBailOut'
    BY DEF TypeOK, LockHeld, FreshLinks, PidsKnown, NoBailOut
  <2>3. SemCounts'
    BY DEF TypeOK, FreshLinks, PidsKnown, SemCounts, Unannounced, Claimed
  <2>4. IndicesInOrder' /\ AheadOfRequests'
    BY DEF TypeOK, IndicesInOrder, AheadOfRequests
  <2>5. SeenSoFar'
    BY DEF TypeOK, IndicesInOrder, SeenSoFar, NothingSkipped, WrittenOver
  <2> QED
    BY <2>1, <2>2, <2>3, <2>4, <2>5
<1>16. ASSUME IrqUnlock PROVE IInv'
  <2> USE <1>16 DEF IInv, Unlock, IrqUnlock, ringVars, irqVars, threadVars,
    queueVars, procVars
  <2>1. TypeOK'
    BY DEF TypeOK, IrqPcs
  <2>2. LockHeld' /\ FreshLinks' /\ PidsKnown' /\ NoBailOut'
    BY DEF TypeOK, LockHeld, FreshLinks, PidsKnown, NoBailOut
  <2>3. SemCounts'
    BY DEF TypeOK, SemCounts, Unannounced, Claimed
  <2>4. IndicesInOrder' /\ AheadOfRequests'
    BY DEF TypeOK, IndicesInOrder, AheadOfRequests
  <2>5. SeenSoFar'
    BY DEF TypeOK, IndicesInOrder, SeenSoFar, NothingSkipped, WrittenOver
  <2> QED
    BY <2>1, <2>2, <2>3, <2>4, <2>5
<1>17. ASSUME IrqUp PROVE IInv'
  <2> USE <1>17 DEF IInv, Up, IrqUp, ringVars, irqVars, threadVars, queueVars,
    procVars
  <2>1. TypeOK'
    BY DEF TypeOK, IrqPcs
  <2>2. LockHeld' /\ FreshLinks' /\ PidsKnown' /\ NoBailOut'
    BY DEF TypeOK, LockHeld, FreshLinks, PidsKnown, NoBailOut
  <2>3. SemCounts'
    BY DEF TypeOK, SemCounts, Unannounced, Claimed
  <2>4. IndicesInOrder' /\ AheadOfRequests'
    BY DEF TypeOK, IndicesInOrder, AheadOfRequests
  <2>5. SeenSoFar'
    BY DEF TypeOK, IndicesInOrder, SeenSoFar, NothingSkipped, WrittenOver
  <2> QED
    BY <2>1, <2>2, <2>3, <2>4, <2>5
<1>18. ASSUME IrqEnd PROVE IInv'
  <2> USE <1>18 DEF IInv, NextCons, IrqEnd, ringVars, irqVars, threadVars,
    queueVars, procVars
  <2>1. TypeOK'
    BY DEF TypeOK, IrqPcs
  <2>2. LockHeld' /\ FreshLinks' /\ PidsKnown' /\ NoBailOut'
    BY DEF TypeOK, LockHeld, FreshLinks, PidsKnown, NoBailOut
  <2>3. SemCounts'
    BY DEF TypeOK, SemCounts, Unannounced, Claimed
  <2>4. IndicesInOrder' /\ AheadOfRequests'
    BY DEF TypeOK, IndicesInOrder, AheadOfRequests
  <2>5. SeenSoFar'
    BY DEF TypeOK, IndicesInOrder, SeenSoFar, NothingSkipped, WrittenOver
  <2> QED
    BY <2>1, <2>2, <2>3, <2>4, <2>5
<1>19. ASSUME ThreadDown PROVE IInv'
  <2> USE <1>19 DEF IInv, Down, ThreadDown, ringVars, irqVars, threadVars,
    queueVars, procVars
  <2>1. TypeOK'
    BY DEF TypeOK, ThreadPcs
  <2>2. LockHeld' /\ FreshLinks' /\ PidsKnown' /\ NoBailOut'
    BY DEF TypeOK, LockHeld, FreshLinks, PidsKnown, NoBailOut
  <2>3. SemCounts'
    BY DEF TypeOK, SemCounts, Unannounced, Claimed
  <2>4. IndicesInOrder' /\ AheadOfRequests'
    BY DEF TypeOK, IndicesInOrder, AheadOfRequests
  <2>5. SeenSoFar'
    BY DEF TypeOK, IndicesInOrder, SeenSoFar, NothingSkipped, WrittenOver
  <2> QED
    BY <2>1, <2>2, <2>3, <2>4, <2>5
<1>20. ASSUME ThreadLock PROVE IInv'
  <2> USE <1>20 DEF IInv, LockFree, ThreadLock, ringVars, irqVars, threadVars,
    queueVars, procVars
  <2>1. TypeOK'
    BY DEF TypeOK, ThreadPcs
  <2>2. LockHeld' /\ FreshLinks' /\ PidsKnown' /\ NoBailOut'
    BY DEF TypeOK, LockHeld, FreshLinks, PidsKnown, NoBailOut
  <2>3. SemCounts'
    BY DEF TypeOK, SemCounts, Unannounced, Claimed
  <2>4. IndicesInOrder' /\ AheadOfRequests'
    BY DEF TypeOK, IndicesInOrder, AheadOfRequests
  <2>5. SeenSoFar'
    BY DEF TypeOK, IndicesInOrder, SeenSoFar, NothingSkipped, WrittenOver
  <2> QED
    BY <2>1, <2>2, <2>3, <2>4, <2>5
<1>21. ASSUME ThreadCheck PROVE IInv'
  <2> USE <1>21 DEF IInv, ThreadCheck, ringVars, irqVars, threadVars, queueVars,
    procVars
  <2>1. TypeOK'
    BY DEF TypeOK, ThreadPcs
  <2>0. queue # <<>>
    BY DEF TypeOK, SemCounts, Claimed, Unannounced
  <2>2. LockHeld' /\ FreshLinks' /\ PidsKnown' /\ NoBailOut'
    BY <2>0 DEF TypeOK, LockHeld, FreshLinks, PidsKnown, NoBailOut
  <2>3. SemCounts'
    BY DEF TypeOK, SemCounts, Unannounced, Claimed
  <2>4. IndicesInOrder' /\ AheadOfRequests'
    BY DEF TypeOK, IndicesInOrder, AheadOfRequests
  <2>5. SeenSoFar'
    BY DEF TypeOK, IndicesInOrder, SeenSoFar, NothingSkipped, WrittenOver
  <2> QED
    BY <2>1, <2>2, <2>3, <2>4, <2>5
<1>22. ASSUME ThreadUnlink PROVE IInv'
  <2> USE <1>22 DEF IInv, ThreadUnlink, ringVars, irqVars, threadVars, queueVars,
    procVars
  <2>1. TypeOK'
    BY DEF TypeOK, ThreadPcs, FreshLinks
  <2>2. LockHeld' /\ FreshLinks' /\ PidsKnown' /\ NoBailOut'
    BY DEF TypeOK, LockHeld, FreshLinks, PidsKnown, NoBailOut
  <2>3. SemCounts'
    BY DEF TypeOK, FreshLinks, SemCounts, Unannounced, Claimed
  <2>4. IndicesInOrder' /\ AheadOfRequests'
    BY DEF TypeOK, IndicesInOrder, AheadOfRequests
  <2>5. SeenSoFar'
    BY DEF TypeOK, IndicesInOrder, SeenSoFar, NothingSkipped, WrittenOver
  <2> QED
    BY <2>1, <2>2, <2>3, <2>4, <2>5
<1>23. ASSUME ThreadUnlock PROVE IInv'
  <2> USE <1>23 DEF IInv, Unlock, ThreadUnlock, ringVars, irqVars, threadVars,
    queueVars, procVars
  <2>1. TypeOK'
    BY DEF TypeOK, ThreadPcs
  <2>2. LockHeld' /\ FreshLinks' /\ PidsKnown' /\ NoBailOut'
    BY DEF TypeOK, LockHeld, FreshLinks, PidsKnown, NoBailOut
  <2>3. SemCounts'
    BY DEF TypeOK, SemCounts, Unannounced, Claimed
  <2>4. IndicesInOrder' /\ AheadOfRequests'
    BY DEF TypeOK, IndicesInOrder, AheadOfRequests
  <2>5. SeenSoFar'
    BY DEF TypeOK, IndicesInOrder, SeenSoFar, NothingSkipped, WrittenOver
  <2> QED
    BY <2>1, <2>2, <2>3, <2>4, <2>5
<1>24. ASSUME ThreadHalt PROVE IInv'
  <2> USE <1>24 DEF IInv, ThreadHalt, HaltProcess, ringVars, irqVars, threadVars,
    queueVars, procVars
  <2>1. TypeOK'
    BY DEF TypeOK, ThreadPcs, PidsKnown
  <2>2. LockHeld' /\ FreshLinks' /\ PidsKnown' /\ NoBailOut'
    BY DEF TypeOK, LockHeld, FreshLinks, PidsKnown, NoBailOut
  <2>3. SemCounts'
    BY DEF TypeOK, SemCounts, Unannounced, Claimed
  <2>4. IndicesInOrder' /\ AheadOfRequests'
    BY DEF TypeOK, IndicesInOrder, AheadOfRequests
  <2>5. SeenSoFar'
    BY DEF TypeOK, IndicesInOrder, SeenSoFar, NothingSkipped, WrittenOver
  <2> QED
    BY <2>1, <2>2, <2>3, <2>4, <2>5
<1>25. ASSUME ThreadReport PROVE IInv'
  <2> USE <1>25 DEF IInv, ThreadReport, Alive, ringVars, irqVars, threadVars,
    queueVars, procVars
  <2>1. TypeOK'
    BY DEF TypeOK, ThreadPcs, PidsKnown
  <2>2. LockHeld' /\ FreshLinks' /\ PidsKnown' /\ NoBailOut'
    BY DEF TypeOK, LockHeld, FreshLinks, PidsKnown, NoBailOut
  <2>3. SemCounts'
    BY DEF TypeOK, SemCounts, Unannounced, Claimed
  <2>4. IndicesInOrder' /\ AheadOfRequests'
    BY DEF TypeOK, IndicesInOrder, AheadOfRequests
  <2>5. SeenSoFar'
    BY DEF TypeOK, IndicesInOrder, SeenSoFar, NothingSkipped, WrittenOver
  <2> QED
    BY <2>1, <2>2, <2>3, <2>4, <2>5
<1>26. ASSUME ThreadResume PROVE IInv'
  <2> USE <1>26 DEF IInv, ThreadResume, ResumeProcess, ringVars, irqVars,
    threadVars, queueVars, procVars
  <2>1. TypeOK'
    BY DEF TypeOK, ThreadPcs, PidsKnown
  <2>2. LockHeld' /\ FreshLinks' /\ PidsKnown' /\ NoBailOut'
    BY DEF TypeOK, LockHeld, FreshLinks, PidsKnown, NoBailOut
  <2>3. SemCounts'
    BY DEF TypeOK, SemCounts, Unannounced, Claimed
  <2>4. IndicesInOrder' /\ AheadOfRequests'
    BY DEF TypeOK, IndicesInOrder, AheadOfRequests
  <2>5. SeenSoFar'
    BY DEF TypeOK, IndicesInOrder, SeenSoFar, NothingSkipped, WrittenOver
  <2> QED
    BY <2>1, <2>2, <2>3, <2>4, <2>5
<1>27. ASSUME Migrate PROVE IInv'
  <2> USE <1>27 DEF IInv, Migrate, ringVars, irqVars, threadVars, queueVars, procVars
  <2>1. TypeOK'
    BY DEF TypeOK
  <2>2. LockHeld' /\ FreshLinks' /\ PidsKnown' /\ NoBailOut'
    BY DEF TypeOK, LockHeld, FreshLinks, PidsKnown, NoBailOut
  <2>3. SemCounts'
    BY DEF TypeOK, SemCounts, Unannounced, Claimed
  <2>4. IndicesInOrder' /\ AheadOfRequests'
    BY DEF TypeOK, IndicesInOrder, AheadOfRequests
  <2>5. SeenSoFar'
    BY DEF TypeOK, IndicesInOrder, SeenSoFar, NothingSkipped, WrittenOver
  <2> QED
    BY <2>1, <2>2, <2>3, <2>4, <2>5
<1>28. CASE UNCHANGED vars
  BY <1>28 DEF vars, ringVars, irqVars, threadVars, queueVars, procVars, IInv,
    TypeOK, LockHeld, FreshLinks, PidsKnown, NoBailOut, SemCounts, Unannounced,
      Claimed, IndicesInOrder, SeenSoFar, NothingSkipped, WrittenOver, AheadOfRequests
<1> QED
  BY <1>1, <1>2, <1>3, <1>4, <1>5, <1>6, <1>7, <1>8, <1>9, <1>10, <1>11, <1>12,
    <1>13, <1>14, <1>15, <1>16, <1>17, <1>18, <1>19, <1>20, <1>21, <1>22, <1>23,
      <1>24, <1>25, <1>26, <1>27, <1>28 DEF Next, EnvStep, IrqStep, ThreadStep

(* The invariant holds in every reachable state. *)
LEMMA SpecIInv == Spec => []IInv
  BY InitIInv, NextIInv, PTL DEF Spec

(* The variables of the driver keep their types. *)
THEOREM TypeCorrect == Spec => []TypeOK
<1>1. IInv => TypeOK
  BY DEF IInv
<1> QED
  BY <1>1, SpecIInv, PTL

(* The reporter never takes the branch "report list was empty! Bailing     *)
(* out.", whatever the number of processes, CPUs, requests and responses.  *)
THEOREM NeverBailsOut == Spec => []NoBailOut
<1>1. IInv => NoBailOut
  BY DEF IInv
<1> QED
  BY <1>1, SpecIInv, PTL

(* A process that the reporter has told to stop does not run until the     *)
(* reporter tells it to: nobody else sends SIGCONT, and acting on the      *)
(* signal, dying and being reaped all keep it still.                       *)
LEMMA StaysStopped == IInv /\ ReportUnderStop /\ [Next]_vars => ReportUnderStop'
<1> SUFFICES ASSUME IInv, ReportUnderStop, [Next]_vars PROVE ReportUnderStop'
  OBVIOUS
<1> USE DEF IInv, TypeOK, PidsKnown, ReportUnderStop
<1>1. ASSUME NEW p \in Pids, StopSelf(p) \/ Exit(p) \/ Reap(p)
      PROVE  ReportUnderStop'
  BY <1>1 DEF StopSelf, Exit, Reap, threadVars
<1>2. ASSUME UNCHANGED <<tpc, tpid, proc, sigstop>> PROVE ReportUnderStop'
  BY <1>2
<1>3. CASE EnvStep
  BY <1>1, <1>2, <1>3 DEF EnvStep, PutRequest, PushAnswer, PushVerdict, threadVars,
    procVars
<1>4. CASE IrqStep
  BY <1>2, <1>4 DEF IrqStep, IrqEnter, IrqCase, IrqOther, IrqKill, KillProcess,
    IrqResume, IrqNx, IrqReport, IrqLock, IrqRead, IrqLink, IrqUnlock, IrqUp, IrqEnd,
    threadVars, procVars
<1>5. CASE ThreadHalt
  BY <1>5 DEF ThreadHalt, HaltProcess
<1>6. ASSUME tpc' # "report" PROVE ReportUnderStop'
  BY <1>6
<1>7. CASE ThreadStep
  BY <1>5, <1>6, <1>7 DEF ThreadStep, ThreadDown, ThreadLock, ThreadCheck, ThreadUnlink,
    ThreadUnlock, ThreadReport, ThreadResume
<1>8. CASE Migrate \/ UNCHANGED vars
  BY <1>2, <1>8 DEF Migrate, vars, threadVars, procVars
<1> QED
  BY <1>3, <1>4, <1>7, <1>8 DEF Next

(* The reporter never bails out with the lock held, and the pages it reads *)
(* are those of a process that malpage_op_process stopped before.          *)
THEOREM ReporterIsSafe == Spec => []ReporterSafe
<1>1. Init => ReportUnderStop
  BY DEF Init, ReportUnderStop
<1>2. IInv => NoBailOut
  BY DEF IInv
<1>3. NoBailOut /\ ReportUnderStop => ReporterSafe
  BY DEF ReporterSafe
<1> QED
  BY SpecIInv, StaysStopped, <1>1, <1>2, <1>3, PTL DEF Spec

(* The handler never moves rsp_cons past a response it has not looked at,  *)
(* except one that a request was written over, and no response before the  *)
(* first verdict is written over.                                          *)
THEOREM NoResponseSkipped == Spec => []NothingSkipped
<1>1. IInv => NothingSkipped
  BY DEF IInv, SeenSoFar
<1> QED
  BY <1>1, SpecIInv, PTL

(* Within one interrupt no response is handled twice: the index only grows. *)
THEOREM HandlesOnce == Spec => OncePerInterrupt
<1>1. IInv /\ [Next]_vars => [ipc # "idle" /\ ipc' # "idle" => rc' >= rc]_vars
  <2> SUFFICES ASSUME IInv, Next, ipc # "idle", ipc' # "idle" PROVE rc' >= rc
    OBVIOUS
  <2> USE DEF IInv, TypeOK, IndicesInOrder
  <2>1. CASE IrqStep
    BY <2>1 DEF IrqStep, IrqEnter, IrqCase, IrqOther, IrqKill, IrqResume,
         IrqNx, IrqReport, IrqLock, IrqRead, IrqLink, IrqUnlock, IrqUp, IrqEnd,
         NextCons
  <2>2. CASE EnvStep \/ ThreadStep \/ Migrate
    <3>1. UNCHANGED rc
      BY <2>2 DEF EnvStep, PutRequest, StopSelf, Exit, Reap, PushAnswer,
           PushVerdict, ThreadStep, ThreadDown, ThreadLock, ThreadCheck,
           ThreadUnlink, ThreadUnlock, ThreadHalt, ThreadReport, ThreadResume,
           Migrate, irqVars
    <3> QED
      BY <3>1
  <2> QED
    BY <2>1, <2>2 DEF Next
<1> QED
  BY <1>1, SpecIInv, PTL DEF Spec, OncePerInterrupt

(* The driver implements ReportService: requests are served one at a time, *)
(* oldest first, none lost to a concurrent list operation.                 *)
THEOREM ImplementsService == Spec => ServesInOrder
<1> USE DEF Service!vars
<1>1. Init => Service!Init
  BY DEF Init, Service!Init
<1>2. IInv /\ [Next]_vars => [Service!Next]_(Service!vars)
  <2> SUFFICES ASSUME IInv, [Next]_vars PROVE [Service!Next]_(Service!vars)
    OBVIOUS
  <2>1. CASE IrqLink
    <3>1. queue' = Append(queue, ipid) /\ ipid \in Pids
      BY <2>1 DEF IrqLink, IInv, FreshLinks, PidsKnown
    <3>2. UNCHANGED <<tpc, tpid>>
      BY <2>1 DEF IrqLink, threadVars
    <3> QED
      BY <3>1, <3>2 DEF Service!Next, Service!Accept
  <2>2. CASE ThreadUnlink
    <3>1. queue # <<>> /\ queue' = Tail(queue) /\ tpid' = Head(queue)
      BY <2>2 DEF ThreadUnlink, IInv, FreshLinks
    <3>2. tpc = "unlink" /\ tpc' = "unlock"
      BY <2>2 DEF ThreadUnlink
    <3> QED
      BY <3>1, <3>2 DEF Service!Next, Service!TakeUp
  <2>3. CASE ThreadResume
    <3>1. tpc = "resume" /\ tpc' = "sleep" /\ tpid # NoPid
      BY <2>3 DEF ThreadResume, IInv, PidsKnown
    <3>2. UNCHANGED queue
      BY <2>3 DEF ThreadResume, queueVars
    <3> QED
      BY <3>1, <3>2 DEF Service!Next, Service!Finish
  <2>4. CASE ThreadDown \/ ThreadLock \/ ThreadCheck \/ ThreadUnlock
             \/ ThreadHalt \/ ThreadReport \/ Migrate
    BY <2>4 DEF ThreadDown, ThreadLock, ThreadCheck, ThreadUnlock, ThreadHalt,
         ThreadReport, Migrate, queueVars
  <2>5. CASE EnvStep \/ UNCHANGED vars
    BY <2>5 DEF EnvStep, PutRequest, StopSelf, Exit, Reap, PushAnswer,
         PushVerdict, vars, threadVars, queueVars
  <2>6. CASE IrqStep /\ ~IrqLink
    BY <2>6 DEF IrqStep, IrqEnter, IrqCase, IrqOther, IrqKill, IrqResume,
         IrqNx, IrqReport, IrqLock, IrqRead, IrqUnlock, IrqUp, IrqEnd,
         threadVars, queueVars
  <2> QED
    BY <2>1, <2>2, <2>3, <2>4, <2>5, <2>6 DEF Next, ThreadStep, IrqStep
<1> QED
  BY <1>1, <1>2, SpecIInv, PTL DEF Spec, ServesInOrder, Service!Spec
=============================================================================
