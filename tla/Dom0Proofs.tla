---------------------------- MODULE Dom0Proofs ------------------------------
(***************************************************************************)
(* Proofs about the programs of domain 0.                                  *)
(*                                                                         *)
(* Daemon, for any number of domains, processes, pages, reports and        *)
(* faults: an orderly guest never makes the daemon's thread hang, the      *)
(* monitor scans whole reports, no report is judged twice, and the dump    *)
(* misses no text it could see.                                            *)
(*                                                                         *)
(* HashCache, the table of the scanning client that judges those dumps,    *)
(* for any number of clients, pages and entries: it has one entry per      *)
(* page, outgrows MaxSize by less than the number of clients, and a cached *)
(* verdict does not change.                                                *)
(***************************************************************************)
EXTENDS Daemon, HashCache, FiniteSetTheorems, SequenceTheorems, TLAPS

USE NoneAssumption, BoundAssumption

------------------------------------------------------------------------------
(* Types *)

(* The pages of the reports are finitely many. *)
LEMMA FiniteGrefs ==
  ASSUME NEW s, s \subseteq Grefs
  PROVE  /\ IsFiniteSet(s) /\ Cardinality(s) \in Nat
         /\ Cardinality(s) <= MaxReports * NPages
<1>1. /\ IsFiniteSet(1..MaxReports) /\ Cardinality(1..MaxReports) = MaxReports
      /\ IsFiniteSet(1..NPages) /\ Cardinality(1..NPages) = NPages
  <2>1. ASSUME NEW n \in Nat PROVE IsFiniteSet(1..n) /\ Cardinality(1..n) = n
    <3>1. /\ IsFiniteSet(1..n)
          /\ Cardinality(1..n) = IF 1 > n THEN 0 ELSE n - 1 + 1
      BY n \in Int, 1 \in Int, FS_Interval
    <3> QED
      BY <3>1
  <2> QED
    BY <2>1
<1>2. IsFiniteSet(Grefs) /\ Cardinality(Grefs) = MaxReports * NPages
  <2> DEFINE S == 1..MaxReports
             T == 1..NPages
  <2>1. IsFiniteSet(S) /\ IsFiniteSet(T)
    BY <1>1
  <2>2. Cardinality(S) = MaxReports /\ Cardinality(T) = NPages
    BY <1>1
  <2> HIDE DEF S, T
  <2>3. IsFiniteSet(S \X T) /\ Cardinality(S \X T) = Cardinality(S) * Cardinality(T)
    BY ONLY <2>1, FS_Product
  <2>4. Grefs = S \X T
    BY DEF Grefs, S, T
  <2> QED
    BY <2>2, <2>3, <2>4
<1> QED
  BY <1>2, FS_Subset, FS_CardinalityType

(* Events in the queue, with one more or one less. *)
LEMMA Queues ==
  ASSUME TypeOK
  PROVE  /\ events # <<>> => Tail(events) \in Seq(Kinds \X Doms)
         /\ \A k \in Kinds, d \in Doms : Fired(k, d) \in Seq(Kinds \X Doms)
         /\ \A k \in Kinds, d \in Doms :
              events # <<>> => Append(Tail(events), <<k, d>>) \in Seq(Kinds \X Doms)
<1>1. events \in Seq(Kinds \X Doms)
  BY DEF TypeOK, CallbackType
<1>2. events # <<>> => Tail(events) \in Seq(Kinds \X Doms)
  BY <1>1, HeadTailProperties
<1>3. ASSUME NEW k \in Kinds, NEW d \in Doms, NEW q \in Seq(Kinds \X Doms)
      PROVE  Append(q, <<k, d>>) \in Seq(Kinds \X Doms)
  BY AppendProperties
<1> QED
  BY <1>1, <1>2, <1>3 DEF Fired

LEMMA TypeInit == Init => TypeOK
  BY DEF Init, TypeOK, StoreType, GuestType, CallbackType, MonitorType, Reports, NoReport,
         NoText, Texts, Grefs, Kinds

(* A transaction that changes nothing of a type, and one that is refused. *)
LEMMA TypeFaults ==
  ASSUME TypeOK, Commit \/ Refuse
  PROVE  refusals' \in 0..MaxFaults /\ restarts' \in 0..MaxFaults
  BY DEF TypeOK, CallbackType, Commit, Refuse, Fault

(* The toolstack and the guests. *)
LEMMA TypeGuest ==
  ASSUME TypeOK, NEW d \in Doms,
         DomainUp(d) \/ GuestLoad(d) \/ \E p \in Pids : GuestWatch(d, p) \/ GuestReport(d, p)
  PROVE  TypeOK'
<1> USE DEF storeVars, guestVars, eventVars, cbVars, monVars
<1>1. MonitorType'
  BY DEF TypeOK, MonitorType, DomainUp, GuestLoad, GuestWatch, GuestReport
<1>2. CallbackType'
  <2>1. events' \in Seq(Kinds \X Doms)
    BY Queues DEF TypeOK, CallbackType, DomainUp, GuestLoad, Register, GuestWatch, GuestReport, Kinds
  <2>2. Commit \/ Refuse
    BY DEF DomainUp, GuestLoad, Register, GuestWatch, GuestReport, Commit
  <2>3. UNCHANGED <<watches, sem, dpc, ddom, dpid, dgrefs>>
    BY DEF DomainUp, GuestLoad, GuestWatch, GuestReport
  <2> QED
    BY <2>1, <2>2, <2>3, TypeFaults DEF TypeOK, CallbackType
<1>3. StoreType'
  <2>1. CASE DomainUp(d)
    BY <2>1 DEF TypeOK, StoreType, DomainUp
  <2>2. CASE GuestLoad(d)
    BY <2>2 DEF TypeOK, StoreType, GuestLoad, Register
  <2>3. ASSUME NEW p \in Pids, GuestWatch(d, p) PROVE StoreType'
    BY <2>3 DEF TypeOK, StoreType, GuestWatch
  <2>4. ASSUME NEW p \in Pids, GuestReport(d, p) PROVE StoreType'
    BY <2>4 DEF TypeOK, StoreType, GuestReport
  <2> QED
    BY <2>1, <2>2, <2>3, <2>4
<1>4. GuestType'
  BY DEF TypeOK, GuestType, DomainUp, GuestLoad, GuestWatch, GuestReport
<1> QED
  BY <1>1, <1>2, <1>3, <1>4 DEF TypeOK

(* A report's steps: which record the transaction writes. *)
Record(d, r) ==
  \/ /\ gpc[d] = "mkdir"
     /\ r = [ready |-> report[d].ready, pid |-> report[d].pid, dir |-> TRUE,
             grefs |-> report[d].grefs]
  \/ /\ gpc[d] = "grefs" /\ gtodo[d] > 0
     /\ r = [ready |-> report[d].ready, pid |-> report[d].pid, dir |-> TRUE,
             grefs |-> report[d].grefs \cup {<<count[d], gtodo[d]>>}]
  \/ /\ gpc[d] = "grefs" /\ ~(gtodo[d] > 0)
     /\ r = [ready |-> TRUE, pid |-> gpid[d], dir |-> report[d].dir, grefs |-> report[d].grefs]

LEMMA TypeReport ==
  ASSUME TypeOK, NEW d \in Doms, Begun(d) => count[d] > 0, GuestStep(d)
  PROVE  TypeOK'
<1> USE DEF storeVars, guestVars, eventVars, cbVars, monVars
<1>1. PICK r : Record(d, r) /\ Put(d, r)
  BY DEF GuestStep, GuestMkdir, GuestGref, GuestReady, Record, PageLeft
<1>2. MonitorType'
  BY <1>1 DEF TypeOK, MonitorType, Put
<1>3. CallbackType'
  <2>1. events' \in Seq(Kinds \X Doms)
    BY Queues DEF TypeOK, CallbackType, GuestStep, GuestMkdir, GuestGref, GuestReady, Kinds
  <2>2. Commit \/ Refuse
    BY <1>1 DEF Put
  <2>3. UNCHANGED <<watches, sem, dpc, ddom, dpid, dgrefs>>
    BY <1>1 DEF Put
  <2> QED
    BY <2>1, <2>2, <2>3, TypeFaults DEF TypeOK, CallbackType
<1>4. StoreType'
  <2>1. r \in Reports
    <3>1. /\ report[d] \in Reports /\ gpid[d] \in Pids \cup {NoPid}
          /\ count[d] \in 0..MaxReports /\ gtodo[d] \in 0..NPages
      BY DEF TypeOK, StoreType, GuestType
    <3>2. gpc[d] = "grefs" /\ gtodo[d] > 0 => <<count[d], gtodo[d]>> \in Grefs
      BY <3>1 DEF Grefs, Begun
    <3>3. /\ report[d].ready \in BOOLEAN /\ report[d].pid \in Pids \cup {NoPid}
          /\ report[d].dir \in BOOLEAN /\ report[d].grefs \subseteq Grefs
      BY <3>1 DEF Reports
    <3>4. ASSUME NEW a \in BOOLEAN, NEW q \in Pids \cup {NoPid}, NEW b \in BOOLEAN,
                 NEW g \in SUBSET Grefs
          PROVE  [ready |-> a, pid |-> q, dir |-> b, grefs |-> g] \in Reports
      BY DEF Reports
    <3>5. CASE gpc[d] = "mkdir"
      BY <1>1, <3>3, <3>4, <3>5, ZenonT(30) DEF Record
    <3>6. CASE gpc[d] = "grefs" /\ gtodo[d] > 0
      <4>1. report[d].grefs \cup {<<count[d], gtodo[d]>>} \subseteq Grefs
        BY <3>2, <3>3, <3>6
      <4>2. r = [ready |-> report[d].ready, pid |-> report[d].pid, dir |-> TRUE,
                 grefs |-> report[d].grefs \cup {<<count[d], gtodo[d]>>}]
        BY <1>1, <3>6, ZenonT(30) DEF Record
      <4>3. TRUE \in BOOLEAN
        OBVIOUS
      <4> QED
        BY <3>3, <3>4, <4>1, <4>2, <4>3, ZenonT(30)
    <3>7. CASE gpc[d] = "grefs" /\ ~(gtodo[d] > 0)
      BY <1>1, <3>1, <3>3, <3>4, <3>7, ZenonT(30) DEF Record
    <3> QED
      BY <1>1, <3>5, <3>6, <3>7 DEF Record
  <2>2. report' \in [Doms -> Reports]
    BY <1>1, <2>1 DEF Put, TypeOK, StoreType
  <2> QED
    BY <1>1, <2>2 DEF Put, TypeOK, StoreType
<1>5. GuestType'
  <2>1. gpc' \in [Doms -> {"unloaded", "idle", "mkdir", "grefs"}]
    BY DEF TypeOK, GuestType, GuestStep, GuestMkdir, GuestGref, GuestReady
  <2>2. gtodo' \in [Doms -> 0..NPages]
    BY DEF TypeOK, GuestType, GuestStep, GuestMkdir, GuestGref, GuestReady, PageLeft
  <2>3. overlap' \subseteq Doms
    BY <1>1 DEF Put, TypeOK, GuestType
  <2> QED
    BY <1>1, <2>1, <2>2, <2>3 DEF Put, TypeOK, GuestType
<1> QED
  BY <1>2, <1>3, <1>4, <1>5 DEF TypeOK

(* The callbacks: events taken and watches changed. *)
LEMMA TypeEvents ==
  ASSUME TypeOK, NEW d \in Doms,
         \/ DropEvent \/ OnUp(d) \/ OnRegister(d) \/ OnRegisterEarly(d)
         \/ OnWatch(d) \/ OnWatchEarly(d) \/ OnReport(d) \/ OnReportEarly(d)
  PROVE  TypeOK'
<1> USE DEF storeVars, guestVars, eventVars, cbVars, monVars
<1>1. events # <<>> /\ Tail(events) \in Seq(Kinds \X Doms)
  BY Queues DEF DropEvent, OnUp, OnRegister, OnRegisterEarly, OnWatch, OnWatchEarly,
                OnReport, OnReportEarly, Handles
<1>2. CASE \/ DropEvent \/ OnRegisterEarly(d) \/ OnWatchEarly(d) \/ OnReportEarly(d)
           \/ OnWatch(d) \/ OnReport(d)
  <2>1. /\ UNCHANGED <<storeVars, guestVars, monVars, watches, sem, dpid, dgrefs, refusals, restarts>>
        /\ events' = Tail(events)
        /\ UNCHANGED <<dpc, ddom>> \/ (dpc' \in {"wpid", "rls"} /\ ddom' = d)
    BY <1>2 DEF DropEvent, OnRegisterEarly, OnWatch, OnWatchEarly, OnReport, OnReportEarly, Ignore
  <2>2. StoreType' /\ GuestType' /\ MonitorType'
    BY <2>1 DEF TypeOK, StoreType, GuestType, MonitorType
  <2>3. CallbackType'
    BY <1>1, <2>1 DEF TypeOK, CallbackType
  <2> QED
    BY <2>2, <2>3 DEF TypeOK
<1>3. CASE OnUp(d)
  <2>1. GuestType' /\ MonitorType'
    BY <1>3 DEF TypeOK, GuestType, MonitorType, OnUp
  <2>2. StoreType'
    BY <1>3 DEF TypeOK, StoreType, OnUp
  <2>3. CallbackType'
    <3>1. events' \in Seq(Kinds \X Doms) /\ watches' \subseteq Kinds \X Doms
      <4>1. watches' \subseteq Kinds \X Doms
        BY <1>3 DEF OnUp, TypeOK, CallbackType, Kinds
      <4>2. events' = Append(Tail(events), <<"register", d>>) /\ "register" \in Kinds
        BY <1>3 DEF OnUp, Kinds
      <4> QED
        BY <1>1, <4>1, <4>2, Queues
    <3>2. refusals' \in 0..MaxFaults /\ restarts' \in 0..MaxFaults
      BY <1>3, TypeFaults DEF OnUp
    <3> QED
      BY <1>3, <3>1, <3>2 DEF OnUp, TypeOK, CallbackType
  <2> QED
    BY <2>1, <2>2, <2>3 DEF TypeOK
<1>4. CASE OnRegister(d)
  <2>1. GuestType'
    BY <1>4 DEF TypeOK, GuestType, OnRegister
  <2>2. MonitorType'
    BY <1>4 DEF TypeOK, MonitorType, OnRegister, MonitorRegister
  <2>3. StoreType'
    BY <1>4 DEF TypeOK, StoreType, OnRegister, RegisterRemoved, DirsMade
  <2>4. CallbackType'
    <3>1. watches' \subseteq Kinds \X Doms
      BY <1>4 DEF OnRegister, TypeOK, CallbackType, Kinds
    <3>2. events' \in Seq(Kinds \X Doms)
      <4>1. << <<"report", d>>, <<"watch", d>> >> \in Seq(Kinds \X Doms)
        BY DEF Kinds
      <4> QED
        BY <1>1, <1>4, <4>1, ConcatProperties DEF OnRegister
    <3>3. refusals' \in 0..MaxFaults /\ restarts' \in 0..MaxFaults
      BY <1>4, TypeFaults DEF OnRegister
    <3> QED
      BY <1>4, <3>1, <3>2, <3>3 DEF OnRegister, TypeOK, CallbackType
  <2> QED
    BY <2>1, <2>2, <2>3, <2>4 DEF TypeOK
<1> QED
  BY <1>2, <1>3, <1>4

(* The callbacks: their later steps. *)
LEMMA TypeWork ==
  ASSUME TypeOK, AtWork,
         \/ WatchPid \/ WatchRemove \/ ReportLs \/ ReportRead \/ ReportNuke \/ ReportSend \/ Verdict
  PROVE  TypeOK'
<1> USE DEF storeVars, guestVars, eventVars, cbVars, monVars
<1>1. ddom \in Doms
  BY DEF AtWork, WatchPid, WatchRemove, ReportLs, ReportRead, ReportNuke, ReportSend, Verdict
<1>2. GuestType'
  BY DEF TypeOK, GuestType, WatchPid, WatchRemove, ReportLs, ReportRead, ReportNuke, ReportSend, Verdict
<1>3. CASE WatchPid \/ ReportLs \/ ReportRead
  <2>1. StoreType' /\ MonitorType'
    BY <1>3 DEF TypeOK, StoreType, MonitorType, WatchPid, ReportLs, ReportRead
  <2>2. report[ddom] \in Reports /\ watchNode[ddom] \in Pids \cup {NoPid}
    BY <1>1 DEF TypeOK, StoreType
  <2>3. report[ddom].pid \in Pids \cup {NoPid} /\ report[ddom].grefs \subseteq Grefs
    BY <2>2 DEF Reports
  <2>4. CallbackType'
    BY <1>3, <2>2, <2>3 DEF TypeOK, CallbackType, WatchPid, ReportLs, ReportRead
  <2> QED
    BY <1>2, <2>1, <2>4 DEF TypeOK
<1>4. CASE WatchRemove
  <2>1. StoreType'
    BY <1>1, <1>4 DEF TypeOK, StoreType, WatchRemove
  <2>2. MonitorType'
    <3>1. dpid \in Pids
      BY <1>4 DEF WatchRemove, AtWork, TypeOK, CallbackType
    <3>2. domList' \in [Doms -> SUBSET Pids]
      BY <1>1, <1>4, <3>1 DEF TypeOK, MonitorType, WatchRemove, MonitorWatch
    <3> QED
      BY <1>4, <3>2 DEF TypeOK, MonitorType, WatchRemove
  <2>3. CallbackType'
    BY <1>4, TypeFaults DEF TypeOK, CallbackType, WatchRemove, Release
  <2> QED
    BY <1>2, <2>1, <2>2, <2>3 DEF TypeOK
<1>5. CASE ReportNuke
  <2>1. StoreType'
    <3>1. NoReport \in Reports
      BY DEF NoReport, Reports
    <3> QED
      BY <1>1, <1>5, <3>1 DEF TypeOK, StoreType, ReportNuke, Nuked
  <2>2. MonitorType'
    BY <1>5 DEF TypeOK, MonitorType, ReportNuke
  <2>3. CallbackType'
    <3>1. events' \in Seq(Kinds \X Doms)
      BY <1>1, <1>5, Queues DEF ReportNuke, TypeOK, CallbackType, Kinds
    <3> QED
      BY <1>5, <3>1, TypeFaults DEF TypeOK, CallbackType, ReportNuke, Release
  <2> QED
    BY <1>2, <2>1, <2>2, <2>3 DEF TypeOK
<1>6. CASE ReportSend
  <2>1. StoreType' /\ CallbackType'
    BY <1>6 DEF TypeOK, StoreType, CallbackType, ReportSend
  <2>2. dgrefs \subseteq Grefs /\ dpid \in Pids \cup {NoPid}
    BY DEF TypeOK, CallbackType
  <2>3. /\ mapped' \subseteq dgrefs /\ currProc' = dpid /\ text' \in Texts
        /\ bad' \subseteq dgrefs
        /\ UNCHANGED <<shareInfo, domList, registered, judged>>
    BY <1>6 DEF ReportSend, MonitorReport
  <2>5. MonitorType'
    BY <2>2, <2>3 DEF TypeOK, MonitorType
  <2> QED
    BY <1>2, <2>1, <2>5 DEF TypeOK
<1>7. CASE Verdict
  <2>1. StoreType' /\ CallbackType'
    BY <1>7 DEF TypeOK, StoreType, CallbackType, Verdict, Grefs
  <2>2. MonitorType'
    BY <1>1, <1>7 DEF TypeOK, MonitorType, Verdict, MonitorOp, Texts
  <2> QED
    BY <1>2, <2>1, <2>2 DEF TypeOK
<1> QED
  BY <1>3, <1>4, <1>5, <1>6, <1>7

LEMMA TypeRestart ==
  ASSUME TypeOK, DaemonRestart
  PROVE  TypeOK'
<1> USE DEF storeVars, guestVars, eventVars, cbVars, monVars
<1>1. StoreType' /\ GuestType' /\ MonitorType'
  BY DEF DaemonRestart, TypeOK, StoreType, GuestType, MonitorType, Texts
<1>2. events' \in Seq(Kinds \X Doms)
  <2> DEFINE S == {d \in Doms : up[d]}
  <2>1. PICK s \in SetToSeqs(S) : events' = [i \in DOMAIN s |-> <<"up", s[i]>>]
    BY DEF DaemonRestart
  <2>2. Cardinality(S) \in Nat
    BY DomsAssumption, FS_Subset, FS_CardinalityType
  <2>3. s \in [1..Cardinality(S) -> S]
    BY <2>1 DEF SetToSeqs
  <2>4. \A i \in 1..Cardinality(S) : <<"up", s[i]>> \in Kinds \X Doms
    BY <2>3 DEF Kinds
  <2>5. events' \in [1..Cardinality(S) -> Kinds \X Doms]
    BY <2>1, <2>3, <2>4
  <2> HIDE DEF S
  <2> QED
    BY <2>2, <2>5
<1>3. CallbackType'
  BY <1>2 DEF DaemonRestart, Fault, TypeOK, CallbackType, Kinds, Grefs
<1> QED
  BY <1>1, <1>3 DEF TypeOK
------------------------------------------------------------------------------
(* The invariant *)

LEMMA InitGood == Init => IInv
<1> SUFFICES ASSUME Init PROVE IInv
  OBVIOUS
<1>1. TypeOK
  BY TypeInit
<1>2. AtWork /\ Known
  BY DEF Init, AtWork, Known
<1>3. ASSUME NEW d \in Doms PROVE Accounted(d) /\ Enrolled(d) /\ Stored(d)
  <2>1. /\ report[d] = NoReport /\ gpc[d] = "unloaded" /\ reg[d] = "absent" /\ registered = {}
        /\ judged[d] = 0 /\ count[d] = 0 /\ dpc = "wait"
    BY DEF Init
  <2>2. report[d].ready = FALSE /\ report[d].grefs = {}
    BY <2>1 DEF NoReport
  <2> QED
    BY <2>1, <2>2 DEF Accounted, Enrolled, Stored, Bit, Begun, Removed
<1>4. Carried
  BY DEF Init, Carried
<1> QED
  BY <1>1, <1>2, <1>3, <1>4 DEF IInv

Guest(d) == \/ DomainUp(d) \/ GuestLoad(d) \/ GuestStep(d)
            \/ \E p \in Pids : GuestWatch(d, p) \/ GuestReport(d, p)

(* What the toolstack and the guests leave alone: the daemon, the monitor, *)
(* and that a report or a request for a watch is there.                    *)
LEMMA GuestMoves ==
  ASSUME TypeOK, NEW d \in Doms, Guest(d)
  PROVE  /\ UNCHANGED <<watches, sem, cbVars, monVars, mayReport>>
         /\ \A e \in Doms : report[e].ready => report'[e].ready
         /\ \A e \in Doms : watchNode[e] # NoPid => watchNode'[e] # NoPid
         /\ \A e \in Doms \ {d} : /\ report'[e] = report[e] /\ gpc'[e] = gpc[e]
                                  /\ count'[e] = count[e] /\ gtodo'[e] = gtodo[e]
                                  /\ gpid'[e] = gpid[e] /\ reg'[e] = reg[e]
         /\ overlap \subseteq overlap' /\ refusals' \in Nat /\ refusals' >= refusals
<1> USE DEF storeVars, guestVars, eventVars
<1>1. refusals \in Nat /\ report \in [Doms -> Reports] /\ watchNode \in [Doms -> Pids \cup {NoPid}]
      /\ reg \in [Doms -> {"absent", "empty", "value"}]
      /\ gpc \in [Doms -> {"unloaded", "idle", "mkdir", "grefs"}]
      /\ gpid \in [Doms -> Pids \cup {NoPid}] /\ gtodo \in [Doms -> 0..NPages]
      /\ count \in [Doms -> 0..MaxReports]
  BY DEF TypeOK, CallbackType, StoreType, GuestType
<1>2. CASE DomainUp(d)
  BY <1>1, <1>2 DEF DomainUp
<1>3. CASE GuestLoad(d)
  BY <1>1, <1>3 DEF GuestLoad, Register, Commit, Refuse
<1>4. ASSUME NEW p \in Pids, GuestWatch(d, p)
      PROVE  /\ UNCHANGED <<watches, sem, cbVars, monVars, mayReport, report, gpc, count, gtodo,
                            gpid, reg, overlap>>
             /\ \A e \in Doms : watchNode[e] # NoPid => watchNode'[e] # NoPid
             /\ refusals' \in Nat /\ refusals' >= refusals
  BY <1>1, <1>4 DEF GuestWatch, Commit, Refuse
<1>5. ASSUME NEW p \in Pids, GuestReport(d, p)
      PROVE  /\ UNCHANGED <<watches, sem, cbVars, monVars, mayReport, report, watchNode,
                            reg, overlap, refusals>>
             /\ \A e \in Doms \ {d} : /\ gpc'[e] = gpc[e] /\ count'[e] = count[e]
                                      /\ gtodo'[e] = gtodo[e] /\ gpid'[e] = gpid[e]
  BY <1>1, <1>5 DEF GuestReport
<1>6. CASE GuestStep(d)
  <2>1. PICK r : Record(d, r) /\ Put(d, r)
    BY <1>6 DEF GuestStep, GuestMkdir, GuestGref, GuestReady, Record, PageLeft
  <2>2. report[d].ready => r.ready
    BY <2>1 DEF Record
  <2>3. \A e \in Doms \ {d} : gpc'[e] = gpc[e] /\ gtodo'[e] = gtodo[e]
    BY <1>1, <1>6 DEF GuestStep, GuestMkdir, GuestGref, GuestReady
  <2>4. /\ \A e \in Doms : report[e].ready => report'[e].ready
        /\ \A e \in Doms \ {d} : report'[e] = report[e]
    BY <1>1, <2>1, <2>2 DEF Put
  <2>5. refusals' \in Nat /\ refusals' >= refusals /\ overlap \subseteq overlap'
    BY <1>1, <2>1 DEF Put, Commit, Refuse
  <2> QED
    BY <2>1, <2>3, <2>4, <2>5 DEF Put
<1> QED
  BY <1>1, <1>2, <1>3, <1>4, <1>5, <1>6 DEF Guest

LEMMA AtWorkGuest ==
  ASSUME TypeOK, AtWork, NEW d \in Doms, Guest(d)
  PROVE  AtWork'
<1>1. /\ UNCHANGED <<watches, sem, cbVars, monVars, mayReport>>
      /\ \A e \in Doms : report[e].ready => report'[e].ready
      /\ \A e \in Doms : watchNode[e] # NoPid => watchNode'[e] # NoPid
  BY GuestMoves
<1> QED
  BY <1>1 DEF AtWork, cbVars, monVars

LEMMA AtWorkDaemon ==
  ASSUME TypeOK, AtWork, Known, CallbackStep
  PROVE  AtWork'
<1> USE DEF storeVars, eventVars, cbVars, monVars
<1>1. CASE \/ DropEvent \/ \E d \in Doms : OnRegisterEarly(d) \/ OnWatchEarly(d) \/ OnReportEarly(d)
  BY <1>1 DEF DropEvent, OnRegisterEarly, OnWatchEarly, OnReportEarly, Ignore, AtWork
<1>2. ASSUME NEW d \in Doms, OnUp(d) \/ OnRegister(d) PROVE AtWork'
  BY <1>2 DEF OnUp, OnRegister, Handles, AtWork
<1>3. ASSUME NEW d \in Doms, OnWatch(d) PROVE AtWork'
  BY <1>3 DEF OnWatch, AtWork
<1>4. ASSUME NEW d \in Doms, OnReport(d) PROVE AtWork'
  BY <1>4 DEF OnReport, Handles, Known, AtWork
<1>5. CASE WatchPid
  BY <1>5 DEF WatchPid, AtWork
<1>6. CASE WatchRemove
  BY <1>6 DEF WatchRemove, AtWork
<1>7. CASE ReportLs \/ ReportRead
  BY <1>7 DEF ReportLs, ReportRead, AtWork
<1>8. CASE ReportNuke
  BY <1>8 DEF ReportNuke, AtWork
<1>9. CASE ReportSend
  BY <1>9 DEF ReportSend, MonitorReport, AtWork
<1>10. CASE Verdict
  BY <1>10 DEF Verdict, AtWork
<1> QED
  BY <1>1, <1>2, <1>3, <1>4, <1>5, <1>6, <1>7, <1>8, <1>9, <1>10 DEF CallbackStep

LEMMA KnownDaemon ==
  ASSUME TypeOK, AtWork, Known, CallbackStep
  PROVE  Known'
<1> USE DEF storeVars, eventVars, cbVars, monVars
<1>1. domList \in [Doms -> SUBSET Pids] /\ registered \subseteq Doms
  BY DEF TypeOK, MonitorType
<1>2. CASE \/ DropEvent \/ WatchPid \/ ReportLs \/ ReportRead \/ ReportNuke \/ ReportSend
           \/ \E d \in Doms : \/ OnRegisterEarly(d) \/ OnWatchEarly(d) \/ OnReportEarly(d)
                              \/ OnWatch(d) \/ OnReport(d)
  <2>1. UNCHANGED <<watches, domList, registered, shareInfo, last>>
    BY <1>2 DEF DropEvent, WatchPid, ReportLs, ReportRead, ReportNuke, ReportSend,
                OnRegisterEarly, OnWatchEarly, OnReportEarly, Ignore, OnWatch, OnReport
  <2> QED
    BY <2>1 DEF Known
<1>3. ASSUME NEW d \in Doms, OnUp(d) PROVE Known'
  BY <1>3 DEF OnUp, Known
<1>4. ASSUME NEW d \in Doms, OnRegister(d) PROVE Known'
  BY <1>1, <1>4 DEF OnRegister, MonitorRegister, Known
<1>5. CASE WatchRemove
  BY <1>1, <1>5 DEF WatchRemove, MonitorWatch, AtWork, Known
<1>6. CASE Verdict
  <2>1. ddom \in registered /\ shareInfo \in registered
    BY <1>6 DEF Verdict, AtWork, Known
  <2>2. last'.from = ddom /\ last'.to = shareInfo
    BY <1>6 DEF Verdict, MonitorOp
  <2> QED
    BY <1>6, <2>1, <2>2 DEF Verdict, Known
<1> QED
  BY <1>2, <1>3, <1>4, <1>5, <1>6 DEF CallbackStep

LEMMA AccountTypes ==
  ASSUME TypeOK, NEW d \in Doms
  PROVE  /\ judged[d] \in Nat /\ count[d] \in Nat /\ refusals \in Nat
         /\ Bit(report[d].ready) \in {0, 1} /\ Bit(Removed(d)) \in {0, 1}
         /\ Bit(Begun(d)) \in {0, 1}
  BY DEF TypeOK, MonitorType, GuestType, CallbackType, Bit

LEMMA AccountedGuest ==
  ASSUME IInv, NEW d \in Doms, Guest(d), NEW e \in Doms
  PROVE  Accounted(e)'
<1> USE DEF storeVars, guestVars, eventVars, cbVars, monVars
<1>1. TypeOK /\ Accounted(e)
  BY DEF IInv
<1>2. /\ UNCHANGED <<dpc, ddom, judged>> /\ refusals' >= refusals
      /\ refusals \in Nat /\ refusals' \in Nat
      /\ judged[e] \in Nat /\ count[e] \in Nat
  BY <1>1, GuestMoves, AccountTypes
<1>3. Removed(e)' = Removed(e)
  BY <1>2 DEF Removed
<1>4. CASE e # d
  <2>1. report'[e] = report[e] /\ gpc'[e] = gpc[e] /\ count'[e] = count[e]
    BY <1>1, <1>4, GuestMoves
  <2> QED
    BY <1>1, <1>2, <1>3, <2>1 DEF Accounted, Begun
<1>5. CASE e = d
  <2>1. /\ gpc \in [Doms -> {"unloaded", "idle", "mkdir", "grefs"}]
        /\ count \in [Doms -> 0..MaxReports] /\ report \in [Doms -> Reports]
    BY <1>1 DEF TypeOK, GuestType, StoreType
  <2>2. ASSUME NEW p \in Pids, DomainUp(d) \/ GuestLoad(d) \/ GuestWatch(d, p)
        PROVE  Accounted(d)'
    <3>1. report'[d] = report[d] /\ count'[d] = count[d] /\ (Begun(d)' = Begun(d))
      BY <2>1, <2>2 DEF DomainUp, GuestLoad, GuestWatch, Begun
    <3> QED
      BY <1>1, <1>2, <1>3, <1>5, <3>1 DEF Accounted
  <2>3. ASSUME NEW p \in Pids, GuestReport(d, p)
        PROVE  Accounted(d)'
    <3>1. report'[d] = report[d] /\ count'[d] = count[d] + 1 /\ ~Begun(d) /\ Begun(d)'
      BY <2>1, <2>3 DEF GuestReport, Begun
    <3> QED
      BY <1>1, <1>2, <1>3, <1>5, <3>1 DEF Accounted, Bit
  <2>4. CASE GuestStep(d)
    <3>1. PICK r : Record(d, r) /\ Put(d, r)
      BY <2>4 DEF GuestStep, GuestMkdir, GuestGref, GuestReady, Record, PageLeft
    <3>2. count'[d] = count[d] /\ (report'[d] = report[d] \/ report'[d] = r)
      BY <2>1, <3>1 DEF Put
    <3>3. CASE Begun(d)' /\ Begun(d)
      <4>1. GuestMkdir(d) \/ GuestGref(d)
        BY <2>1, <2>4, <3>3 DEF GuestStep, GuestReady, Begun
      <4>2. r.ready = report[d].ready
        BY <3>1, <4>1 DEF Record, GuestMkdir, GuestGref, PageLeft
      <4>3. report'[d].ready = report[d].ready
        BY <3>2, <4>2
      <4>4. Bit(Begun(d)') = Bit(Begun(d)) /\ Bit(report'[d].ready) = Bit(report[d].ready)
            /\ Bit(Removed(d)') = Bit(Removed(d))
        BY <1>3, <1>5, <3>3, <4>3 DEF Bit
      <4>5. refusals' = 0 => refusals = 0
        BY <1>2
      <4>6. count'[d] > 0
        BY <1>1, <1>5, <3>2, <3>3 DEF Accounted
      <4>7. refusals' = 0 => judged'[d] + Bit(report'[d].ready) + Bit(Removed(d)') + Bit(Begun(d)')
                               <= count'[d]
        BY <1>1, <1>2, <1>5, <3>2, <4>4, <4>5 DEF Accounted
      <4> QED
        BY <1>5, <4>6, <4>7 DEF Accounted
    <3>4. CASE ~Begun(d)' /\ Begun(d)
      BY <1>1, <1>2, <1>3, <1>5, <3>2, <3>4 DEF Accounted, Bit
    <3>5. Begun(d)
      BY <3>1 DEF Record, Begun
    <3> QED
      BY <3>3, <3>4, <3>5
  <2>5. CASE DomainUp(d) \/ GuestLoad(d)
    <3>1. report'[d] = report[d] /\ count'[d] = count[d] /\ (Begun(d)' = Begun(d))
      BY <2>1, <2>5 DEF DomainUp, GuestLoad, Begun
    <3> QED
      BY <1>1, <1>2, <1>3, <1>5, <3>1 DEF Accounted
  <2> QED
    BY <1>5, <2>2, <2>3, <2>4, <2>5 DEF Guest
<1> QED
  BY <1>4, <1>5

LEMMA AccountedDaemon ==
  ASSUME IInv, CallbackStep \/ DaemonRestart, NEW e \in Doms
  PROVE  Accounted(e)'
<1> USE DEF storeVars, guestVars, eventVars, cbVars, monVars
<1>1. TypeOK /\ Accounted(e) /\ AtWork
  BY DEF IInv
<1>2. /\ judged[e] \in Nat /\ count[e] \in Nat /\ refusals \in Nat
      /\ Bit(report[e].ready) \in {0, 1} /\ Bit(Removed(e)) \in {0, 1}
      /\ Bit(Begun(e)) \in {0, 1}
  BY <1>1, AccountTypes
<1>3. UNCHANGED <<count, gpc>> /\ Begun(e)' = Begun(e)
  BY DEF CallbackStep, DropEvent, WatchPid, WatchRemove, ReportLs, ReportRead, ReportNuke,
         ReportSend, Verdict, OnUp, OnRegister, OnRegisterEarly, OnWatch, OnWatchEarly,
         OnReport, OnReportEarly, Ignore, DaemonRestart, Begun
<1>4. refusals' = 0 => refusals = 0
  <2>1. CASE Commit \/ Refuse
    BY <1>2, <2>1 DEF Commit, Refuse
  <2>2. CASE UNCHANGED refusals
    BY <2>2
  <2>3. (Commit \/ Refuse) \/ UNCHANGED refusals
    BY DEF CallbackStep, DropEvent, WatchPid, WatchRemove, ReportLs, ReportRead, ReportNuke,
         ReportSend, Verdict, OnUp, OnRegister, OnRegisterEarly, OnWatch, OnWatchEarly,
         OnReport, OnReportEarly, Ignore, DaemonRestart
  <2> QED
    BY <2>1, <2>2, <2>3
<1>5. CASE \/ DropEvent \/ WatchPid \/ WatchRemove \/ ReportLs \/ ReportRead \/ ReportSend
           \/ DaemonRestart
           \/ \E d \in Doms : \/ OnUp(d) \/ OnRegister(d) \/ OnRegisterEarly(d)
                              \/ OnWatch(d) \/ OnWatchEarly(d) \/ OnReport(d) \/ OnReportEarly(d)
  <2>1. UNCHANGED <<report, judged>>
    BY <1>5 DEF DropEvent, WatchPid, WatchRemove, ReportLs, ReportRead, ReportSend, DaemonRestart,
         OnUp, OnRegister, OnRegisterEarly, OnWatch, OnWatchEarly, OnReport, OnReportEarly, Ignore
  <2>2. Removed(e)' => Removed(e)
    BY <1>5 DEF Removed, DropEvent, WatchPid, WatchRemove, ReportLs, ReportRead, ReportSend,
         DaemonRestart, OnUp, OnRegister, OnRegisterEarly, OnWatch, OnWatchEarly, OnReport,
         OnReportEarly, Ignore
  <2>3. Bit(Removed(e)') <= Bit(Removed(e))
    BY <2>2 DEF Bit
  <2>4. Bit(Removed(e)') \in {0, 1}
    BY DEF Bit
  <2> QED
    BY <1>1, <1>2, <1>3, <1>4, <2>1, <2>3, <2>4 DEF Accounted
<1>6. CASE ReportNuke
  <2>1. /\ UNCHANGED judged /\ ddom \in Doms /\ report[ddom].ready /\ ~Removed(e)
        /\ Removed(e)' <=> e = ddom
    BY <1>1, <1>6 DEF ReportNuke, AtWork, Removed
  <2>2. refusals' = 0 => report' = [report EXCEPT ![ddom] = NoReport]
    BY <1>2, <1>6 DEF ReportNuke, Nuked, Refuse
  <2>3. report \in [Doms -> Reports] /\ ~NoReport.ready
    BY <1>1 DEF TypeOK, StoreType, NoReport
  <2>4. refusals' = 0 /\ e = ddom => ~report'[e].ready
    BY <2>2, <2>3
  <2>5. refusals' = 0 /\ e # ddom => report'[e] = report[e]
    BY <2>2, <2>3
  <2> QED
    BY <1>1, <1>2, <1>3, <1>4, <2>1, <2>4, <2>5 DEF Accounted, Bit
<1>7. CASE Verdict
  <2>1. /\ UNCHANGED report /\ ddom \in Doms /\ ~Removed(e)' /\ (Removed(e) <=> e = ddom)
        /\ judged' = [judged EXCEPT ![ddom] = @ + 1] /\ judged \in [Doms -> Nat]
    BY <1>1, <1>7 DEF Verdict, AtWork, Removed, TypeOK, MonitorType
  <2> QED
    BY <1>1, <1>2, <1>3, <1>4, <2>1 DEF Accounted, Bit
<1> QED
  BY <1>5, <1>6, <1>7 DEF CallbackStep

(* Registering: once, and before any report. *)
LEMMA EnrolledGuest ==
  ASSUME IInv, NEW d \in Doms, Guest(d), refusals' = 0, NEW e \in Doms
  PROVE  Enrolled(e)'
<1> USE DEF storeVars, guestVars, eventVars, cbVars, monVars
<1>1. TypeOK /\ refusals = 0 /\ Enrolled(e)
  BY GuestMoves DEF IInv, TypeOK, CallbackType
<1>2. UNCHANGED <<registered, mayReport, domList>>
  BY <1>1, GuestMoves
<1>3. CASE e # d
  <2>1. gpc'[e] = gpc[e] /\ gpid'[e] = gpid[e] /\ reg'[e] = reg[e]
    BY <1>1, <1>3, GuestMoves
  <2> QED
    BY <1>1, <1>2, <2>1 DEF Enrolled, Begun
<1>4. CASE e = d
  <2>1. /\ gpc \in [Doms -> {"unloaded", "idle", "mkdir", "grefs"}]
        /\ gpid \in [Doms -> Pids \cup {NoPid}]
        /\ reg \in [Doms -> {"absent", "empty", "value"}]
    BY <1>1 DEF TypeOK, GuestType, StoreType
  <2>2. CASE DomainUp(d)
    BY <1>1, <1>2, <1>4, <2>2 DEF DomainUp, Enrolled, Begun
  <2>3. CASE GuestLoad(d)
    <3>1. gpc[d] = "unloaded" /\ gpc'[d] = "idle"
      BY <2>1, <2>3 DEF GuestLoad
    <3> QED
      BY <1>1, <1>2, <1>4, <3>1 DEF Enrolled, Begun
  <2>4. ASSUME NEW p \in Pids, GuestWatch(d, p) PROVE Enrolled(d)'
    BY <1>1, <1>2, <1>4, <2>4 DEF GuestWatch, Enrolled, Begun
  <2>5. ASSUME NEW p \in Pids, GuestReport(d, p) PROVE Enrolled(d)'
    BY <1>1, <1>2, <1>4, <2>1, <2>5 DEF GuestReport, Enrolled, Begun
  <2>6. CASE GuestStep(d)
    <3>1. Begun(d) /\ gpc'[d] # "unloaded" /\ UNCHANGED <<gpid, reg>>
      BY <2>1, <2>6 DEF GuestStep, GuestMkdir, GuestGref, GuestReady, Put, Begun
    <3> QED
      BY <1>1, <1>2, <1>4, <3>1 DEF Enrolled, Begun
  <2> QED
    BY <1>4, <2>2, <2>3, <2>4, <2>5, <2>6 DEF Guest
<1> QED
  BY <1>3, <1>4

(* What the daemon's steps leave alone: the guests, and the lists of the   *)
(* monitor only grow.                                                      *)
LEMMA DaemonMoves ==
  ASSUME IInv, CallbackStep \/ DaemonRestart
  PROVE  /\ UNCHANGED guestVars
         /\ refusals' = 0 => refusals = 0 /\ \A e \in Doms : domList[e] \subseteq domList'[e]
<1> USE DEF storeVars, guestVars, eventVars, cbVars, monVars
<1>1. TypeOK /\ Known /\ refusals \in Nat /\ domList \in [Doms -> SUBSET Pids]
  BY DEF IInv, TypeOK, CallbackType, MonitorType
<1>2. UNCHANGED guestVars
  BY DEF CallbackStep, DropEvent, WatchPid, WatchRemove, ReportLs, ReportRead, ReportNuke,
         ReportSend, Verdict, OnUp, OnRegister, OnRegisterEarly, OnWatch, OnWatchEarly,
         OnReport, OnReportEarly, Ignore, DaemonRestart
<1>3. refusals' = 0 => refusals = 0
  <2>1. CASE Commit \/ Refuse
    BY <1>1, <2>1 DEF Commit, Refuse
  <2>2. CASE UNCHANGED refusals
    BY <2>2
  <2>3. (Commit \/ Refuse) \/ UNCHANGED refusals
    BY DEF CallbackStep, DropEvent, WatchPid, WatchRemove, ReportLs, ReportRead, ReportNuke,
         ReportSend, Verdict, OnUp, OnRegister, OnRegisterEarly, OnWatch, OnWatchEarly,
         OnReport, OnReportEarly, Ignore, DaemonRestart
  <2> QED
    BY <2>1, <2>2, <2>3
<1>4. ASSUME refusals' = 0 PROVE \A e \in Doms : domList[e] \subseteq domList'[e]
  <2>1. ASSUME NEW d \in Doms, OnRegister(d) PROVE \A e \in Doms : domList[e] \subseteq domList'[e]
    <3>1. d \notin registered
      BY <1>3, <1>4, <2>1 DEF OnRegister, IInv, Enrolled
    <3>2. domList[d] = {}
      BY <1>1, <3>1 DEF Known
    <3> QED
      BY <1>1, <2>1, <3>2 DEF OnRegister, MonitorRegister
  <2>2. CASE WatchRemove
    BY <1>1, <2>2 DEF WatchRemove, MonitorWatch
  <2>3. CASE ~WatchRemove /\ \A d \in Doms : ~OnRegister(d)
    <3>1. UNCHANGED domList
      BY <2>3 DEF CallbackStep, DropEvent, WatchPid, ReportLs, ReportRead, ReportNuke,
         ReportSend, Verdict, OnUp, OnRegisterEarly, OnWatch, OnWatchEarly,
         OnReport, OnReportEarly, Ignore, DaemonRestart
    <3> QED
      BY <3>1
  <2> QED
    BY <2>1, <2>2, <2>3
<1> QED
  BY <1>2, <1>3, <1>4

LEMMA EnrolledDaemon ==
  ASSUME IInv, CallbackStep \/ DaemonRestart, refusals' = 0, NEW e \in Doms
  PROVE  Enrolled(e)'
<1> USE DEF storeVars, guestVars, eventVars, cbVars, monVars
<1>1. /\ TypeOK /\ Known /\ refusals = 0 /\ Enrolled(e) /\ UNCHANGED <<gpc, gpid>>
      /\ domList[e] \subseteq domList'[e]
  BY DaemonMoves DEF IInv
<1>2. /\ reg \in [Doms -> {"absent", "empty", "value"}] /\ mayReport \in [Doms -> BOOLEAN]
      /\ watchDir \in [Doms -> BOOLEAN]
  BY <1>1 DEF TypeOK, StoreType
<1>3. ~Refuse
  BY <1>1 DEF Refuse
<1>4. ASSUME NEW d \in Doms, OnUp(d) PROVE Enrolled(e)'
  <2>1. reg' = [reg EXCEPT ![d] = "empty"] /\ UNCHANGED <<mayReport, registered>>
    BY <1>3, <1>4 DEF OnUp
  <2> QED
    BY <1>1, <1>2, <2>1 DEF Enrolled, Begun
<1>5. ASSUME NEW d \in Doms, OnRegister(d) PROVE Enrolled(e)'
  <2>1. /\ reg[d] = "value" /\ reg' = [reg EXCEPT ![d] = "absent"]
        /\ mayReport' = [mayReport EXCEPT ![d] = TRUE] /\ registered' = registered \cup {d}
    BY <1>3, <1>5 DEF OnRegister, RegisterRemoved, DirsMade, MonitorRegister
  <2> QED
    BY <1>1, <1>2, <2>1 DEF Enrolled, Begun
<1>6. CASE \A d \in Doms : ~OnUp(d) /\ ~OnRegister(d)
  <2>1. UNCHANGED <<reg, mayReport, registered>>
    BY <1>6 DEF CallbackStep, DropEvent, WatchPid, WatchRemove, ReportLs, ReportRead, ReportNuke,
         ReportSend, Verdict, OnRegisterEarly, OnWatch, OnWatchEarly,
         OnReport, OnReportEarly, Ignore, DaemonRestart
  <2> QED
    BY <1>1, <2>1 DEF Enrolled, Begun
<1> QED
  BY <1>4, <1>5, <1>6

(* Order is lost for good. *)
LEMMA StaysDisorderly ==
  ASSUME IInv, Next, Orderly'
  PROVE  Orderly /\ refusals = 0 /\ refusals' = 0 /\ overlap = {} /\ overlap' = {}
<1>1. TypeOK /\ refusals \in Nat
  BY DEF IInv, TypeOK, CallbackType
<1>2. ASSUME NEW d \in Doms, Guest(d) PROVE Orderly
  BY <1>1, <1>2, GuestMoves DEF Orderly
<1>3. CASE CallbackStep \/ DaemonRestart
  BY <1>3, DaemonMoves DEF Orderly, guestVars
<1> QED
  BY <1>2, <1>3 DEF Next, Guest, Orderly

(* A report of an orderly guest, page by page. *)
LEMMA StoredStep ==
  ASSUME IInv, NEW d \in Doms, GuestStep(d), Orderly, refusals' = 0, overlap' = {}
  PROVE  Stored(d)'
<1> USE DEF storeVars, guestVars, eventVars, cbVars, monVars
<1>1. /\ TypeOK /\ Known /\ Stored(d) /\ Enrolled(d) /\ Accounted(d)
  BY DEF IInv, Orderly
<1>2. /\ gpc \in [Doms -> {"unloaded", "idle", "mkdir", "grefs"}]
      /\ gtodo \in [Doms -> 0..NPages] /\ report \in [Doms -> Reports]
      /\ count[d] \in 0..MaxReports
  BY <1>1 DEF TypeOK, GuestType, StoreType
<1>3. PICK r : Record(d, r) /\ Put(d, r)
  BY DEF GuestStep, GuestMkdir, GuestGref, GuestReady, Record, PageLeft
<1>4. ~report[d].ready
  BY <1>3 DEF Put
<1>5. Begun(d) /\ mayReport[d] /\ gpid[d] \in domList[d] /\ count[d] > 0
  BY <1>1, <1>3 DEF Record, Begun, Enrolled, Known, Accounted
<1>6. report'[d] = r /\ UNCHANGED <<count, domList, gpid>>
  <2>1. ~Refuse
    BY DEF Orderly, Refuse
  <2> QED
    BY <1>2, <1>3, <1>5, <2>1 DEF Put
<1>7. CASE GuestMkdir(d)
  <2>1. /\ gpc[d] = "mkdir" /\ gpc'[d] = "grefs" /\ gtodo'[d] = gtodo[d] /\ gtodo[d] = NPages
        /\ report[d].grefs = {}
    BY <1>1, <1>2, <1>4, <1>7 DEF GuestMkdir, Stored
  <2>2. r.dir /\ r.grefs = {} /\ r.ready = report[d].ready
    BY <1>3, <2>1 DEF Record
  <2>3. (gtodo'[d] + 1)..NPages = {}
    BY <2>1
  <2> QED
    BY <1>4, <1>6, <2>1, <2>2, <2>3 DEF Stored
<1>8. CASE GuestGref(d)
  <2>1. /\ gpc[d] = "grefs" /\ gpc'[d] = "grefs" /\ gtodo[d] > 0 /\ gtodo'[d] = gtodo[d] - 1
        /\ report[d].grefs = {count[d]} \X ((gtodo[d] + 1)..NPages) /\ gtodo[d] \in 0..NPages
    BY <1>1, <1>2, <1>8 DEF GuestGref, PageLeft, Stored
  <2>2. r.dir /\ r.grefs = report[d].grefs \cup {<<count[d], gtodo[d]>>} /\ r.ready = report[d].ready
    BY <1>3, <2>1 DEF Record
  <2>3. (gtodo'[d] + 1)..NPages = ((gtodo[d] + 1)..NPages) \cup {gtodo[d]}
    BY <2>1
  <2>4. r.grefs = {count[d]} \X ((gtodo'[d] + 1)..NPages)
    BY <2>1, <2>2, <2>3
  <2> QED
    BY <1>4, <1>6, <2>1, <2>2, <2>4 DEF Stored
<1>9. CASE GuestReady(d)
  <2>1. /\ gpc[d] = "grefs" /\ gpc'[d] = "idle" /\ ~(gtodo[d] > 0) /\ report[d].dir
        /\ report[d].grefs = {count[d]} \X ((gtodo[d] + 1)..NPages) /\ gtodo[d] \in 0..NPages
    BY <1>1, <1>2, <1>9 DEF GuestReady, PageLeft, Stored
  <2>2. r.ready /\ r.pid = gpid[d] /\ r.dir /\ r.grefs = report[d].grefs
    <3>1. r = [ready |-> TRUE, pid |-> gpid[d], dir |-> report[d].dir, grefs |-> report[d].grefs]
      BY <1>3, <2>1 DEF Record
    <3> QED
      BY <2>1, <3>1
  <2>3. gtodo[d] + 1 = 1 /\ count[d] \in 1..MaxReports
    BY <1>2, <1>5, <2>1
  <2>4. Whole(r.grefs)
    BY <2>1, <2>2, <2>3 DEF Whole
  <2> QED
    BY <1>5, <1>6, <2>1, <2>2, <2>4 DEF Stored, Whole
<1> QED
  BY <1>7, <1>8, <1>9 DEF GuestStep

LEMMA StoredGuest ==
  ASSUME IInv, NEW d \in Doms, Guest(d), Orderly, refusals' = 0, overlap' = {}, NEW e \in Doms
  PROVE  Stored(e)'
<1> USE DEF storeVars, guestVars, eventVars, cbVars, monVars
<1>1. TypeOK /\ Stored(e) /\ UNCHANGED domList
  BY GuestMoves DEF IInv
<1>2. CASE e # d
  <2>1. /\ report'[e] = report[e] /\ gpc'[e] = gpc[e] /\ count'[e] = count[e]
        /\ gtodo'[e] = gtodo[e]
    BY <1>1, <1>2, GuestMoves
  <2> QED
    BY <1>1, <2>1 DEF Stored, Whole
<1>3. CASE e = d
  <2>1. /\ gpc \in [Doms -> {"unloaded", "idle", "mkdir", "grefs"}]
        /\ gtodo \in [Doms -> 0..NPages]
    BY <1>1 DEF TypeOK, GuestType
  <2>2. CASE DomainUp(d)
    BY <1>1, <1>3, <2>2 DEF DomainUp, Stored, Whole
  <2>3. CASE GuestLoad(d)
    <3>1. /\ gpc[d] = "unloaded" /\ gpc'[d] = "idle" /\ UNCHANGED <<report, gtodo, count>>
      BY <2>1, <2>3 DEF GuestLoad
    <3> QED
      BY <1>1, <1>3, <3>1 DEF Stored, Whole
  <2>4. ASSUME NEW p \in Pids, GuestWatch(d, p) PROVE Stored(d)'
    BY <1>1, <1>3, <2>4 DEF GuestWatch, Stored, Whole
  <2>5. ASSUME NEW p \in Pids, GuestReport(d, p) PROVE Stored(d)'
    <3>1. /\ gpc[d] = "idle" /\ gpc'[d] = "mkdir" /\ gtodo'[d] = NPages /\ UNCHANGED report
      BY <2>1, <2>5 DEF GuestReport
    <3> QED
      BY <1>1, <1>3, <3>1 DEF Stored, Whole
  <2>6. CASE GuestStep(d)
    BY <1>3, <2>6, StoredStep
  <2> QED
    BY <1>3, <2>2, <2>3, <2>4, <2>5, <2>6 DEF Guest
<1> QED
  BY <1>2, <1>3

LEMMA StoredDaemon ==
  ASSUME IInv, CallbackStep \/ DaemonRestart, Orderly, refusals' = 0, NEW e \in Doms
  PROVE  Stored(e)'
<1> USE DEF storeVars, guestVars, eventVars, cbVars, monVars
<1>1. /\ TypeOK /\ AtWork /\ Stored(e) /\ UNCHANGED <<gpc, gtodo, count>>
      /\ domList[e] \subseteq domList'[e]
  BY DaemonMoves DEF IInv
<1>2. CASE ReportNuke
  <2>1. ddom \in Doms /\ report[ddom].ready /\ report \in [Doms -> Reports]
    BY <1>1, <1>2 DEF ReportNuke, AtWork, TypeOK, StoreType
  <2>2. report' = [report EXCEPT ![ddom] = NoReport]
    BY <1>2 DEF ReportNuke, Nuked, Refuse, Orderly
  <2>3. CASE e = ddom
    <3>1. report'[e] = NoReport
      BY <2>1, <2>2, <2>3
    <3>2. ~report'[e].ready /\ report'[e].grefs = {}
      BY <3>1 DEF NoReport
    <3> QED
      BY <1>1, <2>1, <2>3, <3>2 DEF Stored
  <2>4. CASE e # ddom
    <3>1. report'[e] = report[e]
      BY <2>1, <2>2, <2>4
    <3> QED
      BY <1>1, <3>1 DEF Stored, Whole
  <2> QED
    BY <2>3, <2>4
<1>3. CASE ~ReportNuke
  <2>1. UNCHANGED report
    BY <1>3 DEF CallbackStep, DropEvent, WatchPid, WatchRemove, ReportLs, ReportRead,
         ReportSend, Verdict, OnUp, OnRegister, OnRegisterEarly, OnWatch, OnWatchEarly,
         OnReport, OnReportEarly, Ignore, DaemonRestart
  <2> QED
    BY <1>1, <2>1 DEF Stored, Whole
<1> QED
  BY <1>2, <1>3

LEMMA CarriedDaemon ==
  ASSUME IInv, CallbackStep \/ DaemonRestart, Orderly, refusals' = 0
  PROVE  Carried'
<1> USE DEF storeVars, guestVars, eventVars, cbVars, monVars
<1>1. /\ TypeOK /\ AtWork /\ Carried /\ \A e \in Doms : Stored(e)
      /\ \A e \in Doms : domList[e] \subseteq domList'[e]
  BY DaemonMoves DEF IInv
<1>2. CASE \/ DropEvent \/ \E d \in Doms : \/ OnUp(d) \/ OnRegister(d) \/ OnRegisterEarly(d)
                                           \/ OnWatch(d) \/ OnWatchEarly(d)
                                           \/ OnReport(d) \/ OnReportEarly(d)
  <2>1. /\ dpc = "wait" /\ UNCHANGED <<sem, dpid, dgrefs>> /\ dpc' \in {"wait", "wpid", "rls"}
    BY <1>2 DEF DropEvent, OnUp, OnRegister, OnRegisterEarly, OnWatch, OnWatchEarly,
         OnReport, OnReportEarly, Ignore, Handles
  <2> QED
    BY <1>1, <2>1 DEF Carried
<1>3. CASE WatchPid \/ WatchRemove \/ DaemonRestart
  BY <1>3 DEF WatchPid, WatchRemove, DaemonRestart, Release, Carried
<1>4. CASE ReportLs
  <2>1. ddom \in Doms /\ report[ddom].dir /\ Whole(report[ddom].grefs)
    BY <1>1, <1>4 DEF ReportLs, AtWork, Stored
  <2> QED
    BY <1>4, <2>1 DEF ReportLs, Carried, Whole
<1>5. CASE ReportRead
  <2>1. ddom \in Doms /\ report[ddom].pid \in domList[ddom] /\ Whole(dgrefs)
    BY <1>1, <1>5 DEF ReportRead, AtWork, Stored, Carried
  <2> QED
    BY <1>5, <2>1 DEF ReportRead, Carried, Whole
<1>6. CASE ReportNuke \/ ReportSend
  <2>1. ddom \in Doms /\ Whole(dgrefs) /\ dpid \in domList[ddom]
    BY <1>1, <1>6 DEF ReportNuke, ReportSend, AtWork, Carried
  <2>2. /\ UNCHANGED <<ddom, dpid, dgrefs, domList>> /\ dpc' \in {"rsend", "verdict"}
        /\ sem' = "free"
    BY <1>1, <1>6 DEF ReportNuke, ReportSend, Release, Carried
  <2> QED
    BY <2>1, <2>2 DEF Carried, Whole
<1>7. CASE Verdict
  BY <1>1, <1>7 DEF Verdict, Carried
<1> QED
  BY <1>2, <1>3, <1>4, <1>5, <1>6, <1>7 DEF CallbackStep

LEMMA StepGood ==
  ASSUME IInv, Next
  PROVE  IInv'
<1>1. TypeOK /\ AtWork /\ Known /\ \A d \in Doms : Accounted(d)
  BY DEF IInv
<1>2. ASSUME NEW d \in Doms, Guest(d) PROVE IInv'
  <2>1. TypeOK'
    BY <1>1, <1>2, TypeGuest, TypeReport DEF Guest, Accounted
  <2>2. AtWork' /\ \A e \in Doms : Accounted(e)'
    BY <1>1, <1>2, AtWorkGuest, AccountedGuest
  <2>3. Known' /\ (Carried => Carried')
    <3>1. UNCHANGED <<watches, sem, cbVars, monVars>>
      BY <1>1, <1>2, GuestMoves
    <3> QED
      BY <1>1, <3>1 DEF Known, Carried, Whole, cbVars, monVars
  <2>4. refusals' = 0 => \A e \in Doms : Enrolled(e)'
    BY <1>2, EnrolledGuest
  <2>5. Orderly' => Carried' /\ \A e \in Doms : Stored(e)'
    BY <1>2, <2>3, StaysDisorderly, StoredGuest DEF IInv
  <2> QED
    BY <2>1, <2>2, <2>3, <2>4, <2>5 DEF IInv
<1>3. CASE CallbackStep \/ DaemonRestart
  <2>1. TypeOK'
    <3>1. CASE DropEvent
      <4>1. \E d : d \in Doms
        <5>1. events \in Seq(Kinds \X Doms) /\ events # <<>>
          BY <1>1, <3>1 DEF DropEvent, TypeOK, CallbackType
        <5>2. Head(events) \in Kinds \X Doms
          BY <5>1, HeadTailProperties
        <5> QED
          BY <5>2
      <4> QED
        BY <1>1, <3>1, <4>1, TypeEvents
    <3> QED
      BY <1>1, <1>3, <3>1, TypeEvents, TypeWork, TypeRestart DEF CallbackStep
  <2>2. AtWork' /\ Known'
    <3>1. DaemonRestart => AtWork' /\ Known'
      BY <1>1 DEF DaemonRestart, AtWork, Known, storeVars, guestVars, monVars
    <3> QED
      BY <1>1, <1>3, <3>1, AtWorkDaemon, KnownDaemon
  <2>3. /\ \A e \in Doms : Accounted(e)'
        /\ refusals' = 0 => \A e \in Doms : Enrolled(e)'
    BY <1>3, AccountedDaemon, EnrolledDaemon
  <2>4. Orderly' => Carried' /\ \A e \in Doms : Stored(e)'
    BY <1>3, StaysDisorderly, StoredDaemon, CarriedDaemon
  <2> QED
    BY <2>1, <2>2, <2>3, <2>4 DEF IInv
<1> QED
  BY <1>2, <1>3 DEF Next, Guest

(* The inductive invariant of guests, daemon and monitor together: who may *)
(* be at work on what, how the reports are accounted for, and what a       *)
(* report in the store consists of.                                        *)
THEOREM DaemonInvariant == Spec => []IInv
<1>1. Init => IInv
  BY InitGood
<1>2. IInv /\ [Next]_vars => IInv'
  <2> SUFFICES ASSUME IInv, [Next]_vars PROVE IInv'
    OBVIOUS
  <2>1. CASE Next
    BY <2>1, StepGood
  <2>2. CASE UNCHANGED vars
    <3> USE <2>2 DEF vars, storeVars, guestVars, eventVars, cbVars, monVars
    <3>1. TypeOK' /\ AtWork' /\ Known'
      <4>1. StoreType' /\ GuestType'
        BY DEF IInv, TypeOK, StoreType, GuestType
      <4>2. CallbackType' /\ MonitorType'
        BY DEF IInv, TypeOK, CallbackType, MonitorType
      <4>3. AtWork' /\ Known'
        BY DEF IInv, AtWork, Known
      <4> QED
        BY <4>1, <4>2, <4>3 DEF TypeOK
    <3>2. (\A d \in Doms : Accounted(d)') /\ (refusals' = 0 => \A d \in Doms : Enrolled(d)')
      BY DEF IInv, Accounted, Enrolled, Begun, Removed
    <3>3. Orderly' => Carried' /\ \A d \in Doms : Stored(d)'
      BY DEF IInv, Orderly, Carried, Stored, Whole
    <3> QED
      BY <3>1, <3>2, <3>3 DEF IInv
  <2> QED
    BY <2>1, <2>2
<1> QED
  BY <1>1, <1>2, PTL DEF Spec

(* While guests wait for their last report to be removed and xenstore      *)
(* refuses nothing, the daemon waits for events only with global_sem free, *)
(* so that the next callback can take it.                                  *)
THEOREM DaemonStaysAlive == Spec => []DaemonLives
<1>1. IInv => DaemonLives
  BY DEF IInv, DaemonLives, Carried
<1> QED
  BY <1>1, DaemonInvariant, PTL

(* What the monitor scans is then the whole of one report and nothing      *)
(* else, as that of a process its domain asked to watch.                   *)
THEOREM ReportsAreWhole == Spec => []ReportWhole
<1>1. IInv => ReportWhole
  BY DEF IInv, ReportWhole, Carried, Whole, AtWork
<1> QED
  BY <1>1, DaemonInvariant, PTL

(* No report is judged twice, and the verdict reaches the domain it is     *)
(* about as long as only one has registered.                               *)
THEOREM VerdictsAreSound == Spec => []VerdictsSound
<1>1. IInv => VerdictsSound
  <2> SUFFICES ASSUME IInv PROVE VerdictsSound
    OBVIOUS
  <2>1. TypeOK
    BY DEF IInv
  <2>2. JudgedOnce
    <3> SUFFICES ASSUME refusals = 0, NEW d \in Doms PROVE judged[d] <= count[d]
      BY DEF JudgedOnce
    <3> QED
      BY <2>1, AccountTypes DEF IInv, Accounted
  <2>3. VerdictReachesDomain
    <3> SUFFICES ASSUME last # NoVerdict, Cardinality(registered) = 1
                 PROVE  last.to = last.from
      BY DEF VerdictReachesDomain
    <3>1. IsFiniteSet(registered)
      BY <2>1, DomsAssumption, FS_Subset DEF TypeOK, MonitorType
    <3>2. \E x : registered = {x}
      BY <3>1, FS_Singleton
    <3> QED
      BY <3>2 DEF IInv, Known
  <2> QED
    BY <2>1, <2>2, <2>3 DEF VerdictsSound
<1> QED
  BY <1>1, DaemonInvariant, PTL
------------------------------------------------------------------------------
(* What the dump shows *)

(* The b-th block stdio asks the device for is of page b / 2, rounded up:  *)
(* monitor_read steps by MONITOR_VMSTRUCT_SIZE, twice a page.              *)
LEMMA BlockIs ==
  ASSUME NEW n \in Nat, NEW b \in Nat, NEW q \in Nat,
         b = 2 * q \/ b = 2 * q - 1, q < n
  PROVE  Block(b, n)[1].page = q /\ Delivered(b, n)
<1>1. FirstIndex(b * PAGE_SIZE) = q
  BY DEF FirstIndex, MONITOR_VMSTRUCT_SIZE, PAGE_SIZE
<1> DEFINE room == (n - q) * MONITOR_VMSTRUCT_SIZE
           left == IF PAGE_SIZE > room THEN room ELSE PAGE_SIZE
           size(k) == IF left - k * MONITOR_VMSTRUCT_SIZE > PAGE_SIZE
                      THEN PAGE_SIZE ELSE left - k * MONITOR_VMSTRUCT_SIZE
           rec(k) == [page |-> q + k - 1, bytes |-> size(k - 1)]
<1>2. left = PAGE_SIZE /\ ~(b * PAGE_SIZE > n * MONITOR_VMSTRUCT_SIZE)
  BY DEF MONITOR_VMSTRUCT_SIZE, PAGE_SIZE
<1>3. (left + MONITOR_VMSTRUCT_SIZE - 1) \div MONITOR_VMSTRUCT_SIZE = 1
  BY <1>2 DEF MONITOR_VMSTRUCT_SIZE, PAGE_SIZE
<1>4. Block(b, n) = [k \in 1..1 |-> rec(k)]
  BY <1>1, <1>2, <1>3 DEF Block, Copies
<1>5. rec(1).page = q /\ rec(1).bytes = PAGE_SIZE
  BY <1>2 DEF MONITOR_VMSTRUCT_SIZE, PAGE_SIZE
<1> HIDE DEF rec
<1>6. Block(b, n)[1] = rec(1) /\ Block(b, n) # <<>>
  BY <1>4
<1> QED
  BY <1>5, <1>6 DEF Delivered, PAGE_SIZE

(* Behind the last page the device answers with nothing. *)
LEMMA BlockEnds ==
  ASSUME NEW n \in Nat, NEW b \in Nat, b = 2 * n \/ b = 2 * n - 1
  PROVE  ~Delivered(b, n)
<1>1. FirstIndex(b * PAGE_SIZE) = n
  BY DEF FirstIndex, MONITOR_VMSTRUCT_SIZE, PAGE_SIZE
<1> DEFINE left == IF PAGE_SIZE > (n - n) * MONITOR_VMSTRUCT_SIZE
                   THEN (n - n) * MONITOR_VMSTRUCT_SIZE ELSE PAGE_SIZE
<1>2. left = 0 /\ ~(b * PAGE_SIZE > n * MONITOR_VMSTRUCT_SIZE)
  BY DEF MONITOR_VMSTRUCT_SIZE, PAGE_SIZE
<1>3. (left + MONITOR_VMSTRUCT_SIZE - 1) \div MONITOR_VMSTRUCT_SIZE = 0
  BY <1>2 DEF MONITOR_VMSTRUCT_SIZE, PAGE_SIZE
<1>4. DOMAIN Block(b, n) = 1..0
  BY <1>1, <1>2, <1>3 DEF Block, Copies
<1>5. Block(b, n) = <<>>
  BY <1>1, <1>2, <1>3, <1>4 DEF Block, Copies
<1> QED
  BY <1>5 DEF Delivered

(* The daemon's seeks leave out the bytes between its first two reads, and *)
(* no others.                                                              *)
LEMMA ChunksCover ==
  ASSUME NEW f \in Nat, f \notin Chunk..(2 * Chunk - 1)
  PROVE  InSomeChunk(f)
<1> DEFINE q == f \div Chunk
<1>1. q \in Nat /\ Chunk * q <= f /\ f < Chunk * q + Chunk
  BY DEF Chunk
<1> HIDE DEF q
<1>2. CASE q = 0
  <2>1. 0 \in 0..q /\ ReadAt(0) <= f /\ f < ReadAt(0) + Chunk
    BY <1>1, <1>2 DEF ReadAt, Chunk
  <2> QED
    BY <2>1 DEF InSomeChunk, q
<1>3. CASE q >= 2
  <2>1. q - 1 \in 0..q /\ ReadAt(q - 1) <= f /\ f < ReadAt(q - 1) + Chunk
    BY <1>1, <1>3 DEF ReadAt, Chunk
  <2> QED
    BY <2>1 DEF InSomeChunk, q
<1>4. q # 1
  BY <1>1 DEF Chunk
<1> QED
  BY <1>1, <1>2, <1>3, <1>4

(* Every byte of every page in the list reaches the dump, except those of  *)
(* the first page that the seeks leave out.                                *)
LEMMA DumpShows ==
  ASSUME NEW n \in Nat, NEW p \in 0..(n - 1), NEW o \in 0..(PAGE_SIZE - 1),
         p = 0 => o \notin Chunk..(2 * Chunk - 1)
  PROVE  Dumped(p, o, n)
<1> DEFINE b == 2 * p
<1>1. b \in 0..(2 * n) /\ b \in Nat
  OBVIOUS
<1>2. ASSUME NEW a \in 0..b PROVE Delivered(a, n)
  <2>1. \E q \in 0..p : a = 2 * q \/ a = 2 * q - 1
    <3> DEFINE h == (a + 1) \div 2
    <3>1. h \in 0..p /\ (a = 2 * h \/ a = 2 * h - 1)
      OBVIOUS
    <3> QED
      BY <3>1
  <2>2. PICK q \in 0..p : a = 2 * q \/ a = 2 * q - 1
    BY <2>1
  <2>3. a \in Nat /\ q \in Nat /\ q < n
    BY <1>1
  <2> QED
    BY <2>2, <2>3, BlockIs
<1>3. Block(b, n)[1].page = p
  BY <1>1, BlockIs
<1>4. InSomeChunk(b * PAGE_SIZE + o)
  <2> DEFINE f == b * PAGE_SIZE + o
  <2>1. f \in Nat /\ f \notin Chunk..(2 * Chunk - 1)
    BY DEF PAGE_SIZE, Chunk
  <2> HIDE DEF f
  <2>2. InSomeChunk(f)
    BY <2>1, ChunksCover
  <2> QED
    BY <2>2 DEF f
<1> HIDE DEF b
<1> QED
  BY <1>1, <1>2, <1>3, <1>4 DEF Dumped

(* And those do not reach it. *)
LEMMA DumpHides ==
  ASSUME NEW n \in Nat, NEW o \in Chunk..(2 * Chunk - 1)
  PROVE  ~Dumped(0, o, n)
<1> SUFFICES ASSUME NEW b \in 0..(2 * n), Delivered(b, n), Block(b, n)[1].page = 0,
                    InSomeChunk(b * PAGE_SIZE + o)
             PROVE  FALSE
  BY DEF Dumped
<1>1. b = 0
  <2> SUFFICES ASSUME b > 0 PROVE FALSE
    OBVIOUS
  <2> DEFINE q == (b + 1) \div 2
  <2>1. q \in 1..n /\ (b = 2 * q \/ b = 2 * q - 1)
    OBVIOUS
  <2> HIDE DEF q
  <2>2. CASE q = n
    BY <2>1, <2>2, BlockEnds
  <2>3. CASE q < n
    <3>1. b \in Nat /\ q \in Nat /\ q # 0
      BY <2>1
    <3>2. Block(b, n)[1].page = q
      BY <2>1, <2>3, <3>1, BlockIs
    <3> QED
      BY <3>1, <3>2
  <2> QED
    BY <2>1, <2>2, <2>3
<1>2. b * PAGE_SIZE + o = o /\ o \in Nat
  BY <1>1 DEF PAGE_SIZE, Chunk
<1>3. PICK k \in 0..(o \div Chunk) : ReadAt(k) <= o /\ o < ReadAt(k) + Chunk
  BY <1>2 DEF InSomeChunk
<1>4. k \in Nat
  BY DEF Chunk
<1>5. CASE k = 0
  BY <1>3, <1>5 DEF ReadAt, Chunk
<1>6. CASE k >= 1
  BY <1>3, <1>4, <1>6 DEF ReadAt, Chunk
<1> QED
  BY <1>4, <1>5, <1>6

(* A page of the list has a place in it, the first if none comes before.   *)
LEMMA PlaceIs ==
  ASSUME IInv, NEW g \in mapped
  PROVE  /\ Cardinality(mapped) \in Nat /\ Place(g) \in 0..(Cardinality(mapped) - 1)
         /\ Place(g) = 0 <=> ~\E h \in mapped : Before(h, g)
<1> DEFINE B == {h \in mapped : Before(h, g)}
<1>1. mapped \subseteq Grefs /\ IsFiniteSet(mapped) /\ Cardinality(mapped) \in Nat
  BY FiniteGrefs DEF IInv, TypeOK, MonitorType
<1>2. ~Before(g, g)
  <2>1. g[1] \in Int /\ g[2] \in Int
    BY <1>1, BoundAssumption DEF Grefs
  <2> QED
    BY <2>1 DEF Before
<1>3. IsFiniteSet(mapped \ {g}) /\ Cardinality(mapped \ {g}) = Cardinality(mapped) - 1
  BY <1>1, FS_RemoveElement
<1>4. B \subseteq mapped \ {g}
  BY <1>2
<1>5. IsFiniteSet(B) /\ Cardinality(B) <= Cardinality(mapped) - 1
  BY <1>3, <1>4, FS_Subset
<1>6. Cardinality(B) \in Nat /\ (Cardinality(B) = 0 <=> B = {})
  BY <1>5, FS_CardinalityType, FS_EmptySet
<1>7. Place(g) = Cardinality(B)
  BY DEF Place
<1>8. B = {} <=> ~\E h \in mapped : Before(h, g)
  OBVIOUS
<1> HIDE DEF B
<1> QED
  BY <1>1, <1>5, <1>6, <1>7, <1>8

(* The verdict is grep's on what the mapped pages hold: a process is       *)
(* killed just when one of them has the text, unless it stands where the   *)
(* dump does not reach, whatever pages the hypervisor refused.             *)
THEOREM TextIsFound == Spec => TextFound
<1> DEFINE Seen == /\ text # NoText /\ text.page \in mapped
                   /\ \/ text.at \notin Chunk..(2 * Chunk - 1)
                      \/ \E h \in mapped : Before(h, text.page)
           Judges == dpc = "verdict" /\ judged' # judged => (last'.op = "KILL" <=> Seen)
<1>1. IInv /\ [Next]_vars => [Judges]_vars
  <2> SUFFICES ASSUME IInv, Next, dpc = "verdict", judged' # judged
               PROVE  last'.op = "KILL" <=> Seen
    OBVIOUS
  <2>1. Verdict
    <3>1. ASSUME NEW d \in Doms, Guest(d) PROVE FALSE
      BY <3>1, GuestMoves DEF IInv, monVars
    <3>2. CallbackStep \/ DaemonRestart
      BY <3>1 DEF Next, Guest
    <3> QED
      BY <3>2 DEF CallbackStep, DropEvent, WatchPid, WatchRemove, ReportLs, ReportRead, ReportNuke,
         ReportSend, OnUp, OnRegister, OnRegisterEarly, OnWatch, OnWatchEarly,
         OnReport, OnReportEarly, Ignore, DaemonRestart, monVars
  <2>2. last'.op = Grep
    BY <2>1 DEF Verdict, MonitorOp
  <2>3. CASE ~(text # NoText /\ text.page \in mapped)
    BY <2>2, <2>3 DEF Grep
  <2>4. CASE text # NoText /\ text.page \in mapped
    <3> DEFINE n == Cardinality(mapped)
               g == text.page
    <3>1. /\ n \in Nat /\ Place(g) \in 0..(n - 1)
          /\ Place(g) = 0 <=> ~\E h \in mapped : Before(h, g)
      BY <2>4, PlaceIs
    <3>2. text.at \in 0..(PAGE_SIZE - 1)
      BY <2>4 DEF IInv, TypeOK, MonitorType, Texts, PAGE_SIZE
    <3>3. Dumped(Place(g), text.at, n) <=>
            (text.at \notin Chunk..(2 * Chunk - 1) \/ Place(g) # 0)
      <4> DEFINE pl == Place(g)
      <4>1. pl \in 0..(n - 1)
        BY <3>1
      <4> HIDE DEF n, pl, g
      <4>2. CASE text.at \notin Chunk..(2 * Chunk - 1) \/ pl # 0
        BY <3>1, <3>2, <4>1, <4>2, DumpShows DEF pl
      <4>3. CASE text.at \in Chunk..(2 * Chunk - 1) /\ pl = 0
        BY <3>1, <4>3, DumpHides DEF pl
      <4> QED
        BY <4>2, <4>3 DEF pl
    <3> QED
      BY <2>2, <2>4, <3>1, <3>3 DEF Grep
  <2> QED
    BY <2>3, <2>4
<1> QED
  BY <1>1, DaemonInvariant, PTL DEF Spec, TextFound

------------------------------------------------------------------------------
(* The hash table of the scanning client *)

USE ClientsAssumption, SizeAssumption, RepeatsAssumption, MaxPagesAssumption

(* What Call stores is a sequence of pages. *)
LEMMA PageListsAreSeqs == \A ps \in PageLists : ps \in Seq(Pages)
<1> SUFFICES ASSUME NEW ps \in PageLists PROVE ps \in Seq(Pages)
  OBVIOUS
<1>1. PICK n \in 0..MaxPages : ps \in [1..n -> Pages]
  BY DEF PageLists
<1> QED
  BY <1>1

(* The page a client asks about. *)
LEMMA LastPageType ==
  ASSUME HCTypeOK, HasPages, NEW c \in Clients, pc[c] # "idle"
  PROVE  LastPage(c) \in Pages
<1>1. pages[c] \in Seq(Pages) /\ pages[c] # <<>>
  BY DEF HCTypeOK, HasPages
<1> QED
  BY <1>1 DEF LastPage

(* Making room keeps the order of what stays and drops at most the head. *)
LEMMA CleanUpFacts ==
  ASSUME table \in Seq(Entry)
  PROVE  /\ CleanUp \in Seq(Entry)
         /\ Len(CleanUp) = IF Len(table) >= MaxSize THEN Len(table) - 1
                                                    ELSE Len(table)
         /\ \A i \in 1..Len(CleanUp) :
               CleanUp[i] = table[IF Len(table) >= MaxSize THEN i + 1 ELSE i]
<1>1. CASE Len(table) >= MaxSize
  <2>1. table # <<>>
    BY <1>1
  <2> QED
    BY <1>1, <2>1 DEF CleanUp
<1>2. CASE ~(Len(table) >= MaxSize)
  BY <1>2 DEF CleanUp
<1> QED
  BY <1>1, <1>2

(* Adding keeps every entry in its place and adds at most one, at the end. *)
LEMMA AddedFacts ==
  ASSUME table \in Seq(Entry), NEW p \in Pages, NEW s \in Verdicts
  PROVE  /\ Added(p, s) \in Seq(Entry)
         /\ Len(Added(p, s)) = IF Cached(p) THEN Len(table) ELSE Len(table) + 1
         /\ \A i \in 1..Len(table) : Added(p, s)[i] = table[i]
         /\ ~Cached(p) => Added(p, s)[Len(table) + 1] = [page |-> p, status |-> s]
<1>1. [page |-> p, status |-> s] \in Entry
  BY DEF Entry
<1>2. CASE Cached(p)
  BY <1>2 DEF Added
<1>3. CASE ~Cached(p)
  BY <1>1, <1>3 DEF Added
<1> QED
  BY <1>2, <1>3

(* The clients between Clean and AddAndReturn are finitely many. *)
LEMMA AddingFinite ==
  /\ IsFiniteSet(Adding)
  /\ Cardinality(Adding) \in Nat
  /\ Cardinality(Clients) \in Nat
  /\ Cardinality(Adding) <= Cardinality(Clients)
  BY FS_Subset, FS_CardinalityType DEF Adding

(* The invariant holds of the empty table. *)
LEMMA HCInitInv == HCInit => HCInv
<1> SUFFICES ASSUME HCInit PROVE HCInv
  OBVIOUS
<1>1. HCTypeOK /\ HasPages /\ HasTries /\ NoDuplicates
  BY DEF HCInit, HCTypeOK, HasPages, HasTries, NoDuplicates, Verdicts
<1>2. Adding = {}
  BY DEF HCInit, Adding
<1>3. OvershootBounded
  BY <1>2, AddingFinite, FS_EmptySet DEF HCInit, OvershootBounded
<1> QED
  BY <1>1, <1>3 DEF HCInv

(* The steps that leave the table and the clients about to add alone. *)
LEMMA TableUntouched ==
  ASSUME HCInv, UNCHANGED table, Adding' = Adding
  PROVE  NoDuplicates' /\ OvershootBounded'
  BY DEF HCInv, NoDuplicates, OvershootBounded

(* A call that ends leaves well-typed locals behind. *)
LEMMA ReturnFacts ==
  ASSUME HCTypeOK, HasPages, HasTries, NEW c \in Clients, Return(c), table' \in Seq(Entry)
  PROVE  HCTypeOK' /\ HasPages' /\ HasTries'
<1>1. pages' \in [Clients -> Seq(Pages)]
  BY DEF Return, HCTypeOK
<1>2. HCTypeOK'
  BY <1>1 DEF Return, HCTypeOK, Verdicts
<1>3. HasPages' /\ HasTries'
  BY DEF Return, HCTypeOK, HasPages, HasTries
<1> QED
  BY <1>2, <1>3

(* Every step preserves the invariant. *)
LEMMA HCNextInv == HCInv /\ [HCNext]_hcVars => HCInv'
<1> SUFFICES ASSUME HCInv, [HCNext]_hcVars PROVE HCInv'
  OBVIOUS
<1> USE DEF HCInv
<1>1. ASSUME NEW c \in Clients, Call(c) PROVE HCInv'
  <2>1. PICK ps \in PageLists \ {<<>>} : pages' = [pages EXCEPT ![c] = ps]
    BY <1>1 DEF Call
  <2>2. HCTypeOK' /\ HasPages' /\ HasTries'
    BY <1>1, <2>1, PageListsAreSeqs DEF Call, HCTypeOK, HasPages, HasTries
  <2>3. Adding' = Adding
    BY <1>1 DEF Call, Adding, HCTypeOK
  <2> QED
    BY <1>1, <2>2, <2>3, TableUntouched DEF Call
<1>2. ASSUME NEW c \in Clients, Search(c) PROVE HCInv'
  <2>1. HCTypeOK' /\ HasPages' /\ HasTries'
    <3>1. CASE Cached(LastPage(c))
      BY <1>2, <3>1, ReturnFacts DEF Search, HCTypeOK
    <3>2. CASE ~Cached(LastPage(c))
      <4>1. MaxRepeats \in -1..MaxRepeats /\ MaxRepeats >= 0
        OBVIOUS
      <4>2. HCTypeOK'
        BY <1>2, <3>2, <4>1 DEF Search, HCTypeOK
      <4>3. HasPages'
        BY <1>2, <3>2 DEF Search, HCTypeOK, HasPages
      <4>4. HasTries'
        BY <1>2, <3>2, <4>1 DEF Search, HCTypeOK, HasTries
      <4> QED
        BY <4>2, <4>3, <4>4
    <3> QED
      BY <3>1, <3>2
  <2>2. Adding' = Adding
    BY <1>2 DEF Search, Return, Adding, HCTypeOK
  <2> QED
    BY <1>2, <2>1, <2>2, TableUntouched DEF Search
<1>3. ASSUME NEW c \in Clients, Denied(c) PROVE HCInv'
  <2>1. HCTypeOK' /\ HasPages' /\ HasTries'
    <3>1. CASE Return(c)
      BY <1>3, <3>1, ReturnFacts DEF Denied, HCTypeOK
    <3>2. CASE ~Return(c)
      BY <1>3, <3>2 DEF Denied, HCTypeOK, HasPages, HasTries
    <3> QED
      BY <3>1, <3>2
  <2>2. Adding' = Adding
    BY <1>3 DEF Denied, Return, Adding, HCTypeOK
  <2> QED
    BY <1>3, <2>1, <2>2, TableUntouched DEF Denied
<1>4. ASSUME NEW c \in Clients, NEW r \in Verdicts, Answer(c, r) PROVE HCInv'
  <2>1. HCTypeOK' /\ HasPages' /\ HasTries'
    BY <1>4 DEF Answer, AskAgain, TriesLeft, HCTypeOK, HasPages, HasTries
  <2>2. Adding' = Adding
    BY <1>4 DEF Answer, Adding, HCTypeOK
  <2> QED
    BY <1>4, <2>1, <2>2, TableUntouched DEF Answer
<1>5. ASSUME NEW c \in Clients, Clean(c) PROVE HCInv'
  <2>1. HCTypeOK' /\ HasPages' /\ HasTries'
    BY <1>5, CleanUpFacts DEF Clean, HCTypeOK, HasPages, HasTries
  <2>2. NoDuplicates'
    <3>1. table' = CleanUp /\ table \in Seq(Entry)
      BY <1>5 DEF Clean, HCTypeOK
    <3>2. CASE Len(table) >= MaxSize
      <4>1. /\ Len(table') = Len(table) - 1
            /\ \A i \in 1..Len(table') : table'[i] = table[i + 1]
        BY <3>1, <3>2, CleanUpFacts
      <4>2. ASSUME NEW i \in 1..Len(table'), NEW j \in 1..Len(table'),
                   table'[i].page = table'[j].page
            PROVE  i = j
        <5>1. i + 1 \in 1..Len(table) /\ j + 1 \in 1..Len(table)
          BY <3>1, <4>1
        <5>2. table[i + 1].page = table[j + 1].page
          BY <4>1, <4>2
        <5>3. i + 1 = j + 1
          BY <5>1, <5>2 DEF NoDuplicates
        <5> QED
          BY <5>3
      <4> QED
        BY <4>2 DEF NoDuplicates
    <3>3. CASE ~(Len(table) >= MaxSize)
      BY <3>1, <3>3 DEF CleanUp, NoDuplicates
    <3> QED
      BY <3>2, <3>3
  <2>3. Adding' = Adding \cup {c} /\ c \notin Adding
    BY <1>5 DEF Clean, Adding, HCTypeOK
  <2>4. Cardinality(Adding') = Cardinality(Adding) + 1
    BY <2>3, AddingFinite, FS_AddElement
  <2>5. Cardinality(Adding') <= Cardinality(Clients)
    BY FS_Subset DEF Adding
  <2>6. Len(table') = IF Len(table) >= MaxSize THEN Len(table) - 1
                                               ELSE Len(table)
    BY <1>5, CleanUpFacts DEF Clean, HCTypeOK
  <2>7. OvershootBounded'
    BY <2>4, <2>5, <2>6, AddingFinite, SMTT(30) DEF OvershootBounded, HCTypeOK
  <2> QED
    BY <2>1, <2>2, <2>7
<1>6. ASSUME NEW c \in Clients, AddAndReturn(c) PROVE HCInv'
  <2> DEFINE p == LastPage(c)
  <2>1. p \in Pages /\ result[c] \in Verdicts /\ table \in Seq(Entry)
    BY <1>6, LastPageType DEF AddAndReturn, HCTypeOK
  <2>2. table' = Added(p, result[c])
    BY <1>6 DEF AddAndReturn
  <2> HIDE DEF p
  <2>0. /\ table' \in Seq(Entry)
        /\ Len(table') = IF Cached(p) THEN Len(table) ELSE Len(table) + 1
        /\ \A i \in 1..Len(table) : table'[i] = table[i]
        /\ ~Cached(p) => table'[Len(table) + 1]
                          = [page |-> p, status |-> result[c]]
    <3> DEFINE s == result[c]
    <3>1. s \in Verdicts /\ table' = Added(p, s)
      BY <2>1, <2>2
    <3> HIDE DEF s
    <3>2. /\ table' \in Seq(Entry)
          /\ Len(table') = IF Cached(p) THEN Len(table) ELSE Len(table) + 1
          /\ \A i \in 1..Len(table) : table'[i] = table[i]
          /\ ~Cached(p) => table'[Len(table) + 1] = [page |-> p, status |-> s]
      BY <2>1, <3>1, AddedFacts, ZenonT(30)
    <3> QED
      BY <3>2 DEF s
  <2>3. HCTypeOK' /\ HasPages' /\ HasTries'
    BY <1>6, <2>0, ReturnFacts DEF AddAndReturn
  <2>4. NoDuplicates'
    <3>1. CASE Cached(p)
      BY <2>2, <3>1 DEF Added, NoDuplicates
    <3>2. CASE ~Cached(p)
      <4>1. /\ Len(table') = Len(table) + 1
            /\ \A i \in 1..Len(table) : table'[i] = table[i]
            /\ table'[Len(table) + 1].page = p
        BY <2>0, <3>2
      <4>2. \A i \in 1..Len(table) : table[i].page # p
        BY <3>2 DEF Cached
      <4>3. ASSUME NEW i \in 1..Len(table'), NEW j \in 1..Len(table'),
                   table'[i].page = table'[j].page
            PROVE  i = j
        <5>1. CASE i = Len(table) + 1 \/ j = Len(table) + 1
          BY <2>1, <4>1, <4>2, <4>3, <5>1
        <5>2. CASE i # Len(table) + 1 /\ j # Len(table) + 1
          BY <2>1, <4>1, <4>3, <5>2 DEF NoDuplicates
        <5> QED
          BY <5>1, <5>2
      <4> QED
        BY <4>3 DEF NoDuplicates
    <3> QED
      BY <3>1, <3>2
  <2>5. Adding' = Adding \ {c} /\ c \in Adding
    BY <1>6 DEF AddAndReturn, Return, Adding, HCTypeOK
  <2>6. Cardinality(Adding') = Cardinality(Adding) - 1
    BY <2>5, AddingFinite, FS_RemoveElement
  <2>7. Len(table') <= Len(table) + 1 /\ Len(table') \in Nat
    BY <2>0, <2>1
  <2>8. OvershootBounded'
    BY <2>1, <2>6, <2>7, AddingFinite DEF OvershootBounded
  <2> QED
    BY <2>3, <2>4, <2>8
<1>7. CASE UNCHANGED hcVars
  BY <1>7 DEF hcVars, HCTypeOK, HasPages, HasTries, NoDuplicates, OvershootBounded, Adding
<1> QED
  BY <1>1, <1>2, <1>3, <1>4, <1>5, <1>6, <1>7 DEF HCNext

(* The invariant holds in every reachable state. *)
LEMMA HCSpecInv == HCSpec => []HCInv
  BY HCInitInv, HCNextInv, PTL DEF HCSpec

(* The table and the clients keep their types. *)
THEOREM HCTypeCorrect == HCSpec => []HCTypeOK
<1>1. HCInv => HCTypeOK
  BY DEF HCInv
<1> QED
  BY <1>1, HCSpecInv, PTL

(* One entry per page, for any number of racing clients. *)
THEOREM OneEntryPerPage == HCSpec => []NoDuplicates
<1>1. HCInv => NoDuplicates
  BY DEF HCInv
<1> QED
  BY <1>1, HCSpecInv, PTL

(* The table exceeds MaxSize by at most the number of clients less one. *)
THEOREM BoundedOvershoot == HCSpec => []OvershootBounded
<1>1. HCInv => OvershootBounded
  BY DEF HCInv
<1> QED
  BY <1>1, HCSpecInv, PTL

(* Both together: the table every search relies on. *)
THEOREM SoundTable == HCSpec => []TableSound
<1>1. HCInv => TableSound
  BY DEF HCInv, TableSound
<1> QED
  BY <1>1, HCSpecInv, PTL

(* What a step does to the entries: an entry of a page that stays is the   *)
(* same, and only the first one may go.                                    *)
LEMMA StepKeepsEntries ==
  ASSUME HCInv, HCNext
  PROVE  /\ \A i \in 1..Len(table), j \in 1..Len(table') :
              table[i].page = table'[j].page => table[i] = table'[j]
         /\ \A i \in 2..Len(table) : \E j \in 1..Len(table') : table'[j] = table[i]
<1> DEFINE Stable == \A i \in 1..Len(table), j \in 1..Len(table') :
                       table[i].page = table'[j].page => table[i] = table'[j]
           Kept == \A i \in 2..Len(table) : \E j \in 1..Len(table') : table'[j] = table[i]
<1> USE DEF HCInv
<1>1. ASSUME UNCHANGED table PROVE Stable /\ Kept
  <2>1. Stable
    BY <1>1 DEF NoDuplicates
  <2>2. Kept
    <3> SUFFICES ASSUME NEW i \in 2..Len(table)
                 PROVE  \E j \in 1..Len(table') : table'[j] = table[i]
      OBVIOUS
    <3>1. i \in 1..Len(table') /\ table'[i] = table[i]
      BY <1>1 DEF HCTypeOK
    <3> QED
      BY <3>1
  <2> QED
    BY <2>1, <2>2
<1>2. ASSUME NEW c \in Clients, Clean(c) PROVE Stable /\ Kept
  <2> USE CleanUpFacts, <1>2 DEF Clean, HCTypeOK, NoDuplicates
  <2>1. Stable
    <3> SUFFICES ASSUME NEW i \in 1..Len(table), NEW j \in 1..Len(table'),
                        table[i].page = table'[j].page
                 PROVE  table[i] = table'[j]
      OBVIOUS
    <3> DEFINE k == IF Len(table) >= MaxSize THEN j + 1 ELSE j
    <3>1. k \in 1..Len(table) /\ table'[j] = table[k]
      OBVIOUS
    <3> QED
      BY <3>1
  <2>2. Kept
    <3> SUFFICES ASSUME NEW i \in 2..Len(table)
                 PROVE  \E j \in 1..Len(table') : table'[j] = table[i]
      OBVIOUS
    <3>1. CASE Len(table) >= MaxSize
      <4>1. i - 1 \in 1..Len(table') /\ table'[i - 1] = table[i]
        BY <3>1, SMTT(30)
      <4> QED
        BY <4>1
    <3>2. CASE ~(Len(table) >= MaxSize)
      <4>1. i \in 1..Len(table') /\ table'[i] = table[i]
        BY <3>2
      <4> QED
        BY <4>1
    <3> QED
      BY <3>1, <3>2
  <2> QED
    BY <2>1, <2>2
<1>3. ASSUME NEW c \in Clients, AddAndReturn(c) PROVE Stable /\ Kept
  <2>1. LastPage(c) \in Pages /\ result[c] \in Verdicts
    BY <1>3, LastPageType DEF AddAndReturn, HCTypeOK
  <2>2. /\ Len(table') \in {Len(table), Len(table) + 1}
        /\ \A i \in 1..Len(table) : table'[i] = table[i]
        /\ Len(table') # Len(table) =>
             ~Cached(LastPage(c)) /\ table'[Len(table')].page = LastPage(c)
    <3> DEFINE p == LastPage(c)
               s == result[c]
    <3>1. table' = Added(p, s) /\ table \in Seq(Entry) /\ p \in Pages /\ s \in Verdicts
      BY <1>3, <2>1 DEF AddAndReturn, HCTypeOK
    <3> HIDE DEF p, s
    <3>2. /\ Len(table') = IF Cached(p) THEN Len(table) ELSE Len(table) + 1
          /\ \A i \in 1..Len(table) : table'[i] = table[i]
          /\ ~Cached(p) => table'[Len(table) + 1] = [page |-> p, status |-> s]
      BY <3>1, AddedFacts
    <3>3. Len(table') # Len(table) => ~Cached(p) /\ table'[Len(table')].page = p
      BY <3>1, <3>2
    <3> QED
      BY <3>1, <3>2, <3>3 DEF p
  <2>3. Kept
    <3>1. Len(table) \in Nat
      BY DEF HCTypeOK
    <3>2. ASSUME NEW i \in 2..Len(table) PROVE i \in 1..Len(table') /\ table'[i] = table[i]
      BY <2>2, <3>1
    <3> QED
      BY <3>2
  <2>4. Stable
    <3> SUFFICES ASSUME NEW i \in 1..Len(table), NEW j \in 1..Len(table'),
                        table[i].page = table'[j].page
                 PROVE  table[i] = table'[j]
      OBVIOUS
    <3>1. CASE j \in 1..Len(table)
      BY <2>2, <3>1 DEF NoDuplicates
    <3>2. CASE j = Len(table') /\ Len(table') # Len(table)
      BY <2>2, <3>2 DEF Cached
    <3> QED
      BY <2>2, <3>1, <3>2 DEF HCTypeOK
  <2> QED
    BY <2>3, <2>4
<1> QED
  BY <1>1, <1>2, <1>3 DEF HCNext, Call, Search, Denied, Answer

(* A verdict once cached stays as it is until its entry is the oldest: no  *)
(* race of two clients over one page replaces it, and making room drops    *)
(* nothing else.                                                           *)
THEOREM VerdictsKept == HCSpec => EntriesKept
<1>1. HCInv /\ [HCNext]_hcVars =>
        /\ [\A i \in 1..Len(table), j \in 1..Len(table') :
               table[i].page = table'[j].page => table[i] = table'[j]]_hcVars
        /\ [\A i \in 2..Len(table) : \E j \in 1..Len(table') : table'[j] = table[i]]_hcVars
  BY StepKeepsEntries
<1> QED
  BY <1>1, HCSpecInv, PTL DEF HCSpec, EntriesKept, VerdictStable, ForgetsOldest
==============================================================================
