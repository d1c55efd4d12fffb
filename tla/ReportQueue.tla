---------------------------- MODULE ReportQueue ----------------------------
(***************************************************************************)
(* The guest side of Maitland (drivers/xen/malpage/malpage.c): the         *)
(* interrupt handler that walks the monitor's responses, the queue of pids *)
(* it fills, and the "reporter" kernel thread that empties the queue: stop *)
(* a process, report its pages, let it run again.                          *)
(*                                                                         *)
(* The handler and the thread run on CPUs.  A handler that runs on the     *)
(* thread's CPU has interrupted it, so the thread takes no step until the  *)
(* handler returns.  report_queue_lock is taken with plain spin_lock in    *)
(* both.  A list operation is two steps, reading the links and writing     *)
(* them back, so that it is the lock and not the model that keeps two of   *)
(* them apart.                                                             *)
(*                                                                         *)
(* The ring is seen from the guest.  Request i and response i share slot   *)
(* i, so a request overwrites an unread response that ran ahead of it.     *)
(* MaxReqs and MaxRsps are at most the ring's size: no slot is used a      *)
(* second time (RingChannel.tla has the wrap-around).                      *)
(***************************************************************************)
EXTENDS Integers, Sequences, FiniteSets

CONSTANTS Pids,          \* process ids of the guest
          NoPid,         \* no process
          Cpus,          \* the guest's CPUs
          IrqCpu,        \* the CPU the event channel is bound to
          MaxReqs,       \* bound: requests the page-fault hook puts on the ring
          MaxRsps        \* bound: responses the monitor puts on the ring

ASSUME PidsAssumption == NoPid \notin Pids
ASSUME CpuAssumption  == IrqCpu \in Cpus
ASSUME BoundAssumption == MaxReqs \in Nat /\ MaxRsps \in Nat

VARIABLES
    rsps,        \* ring slots the monitor has answered in; Len = sring->rsp_prod
    reqProd,     \* fring.req_prod_pvt
    unanswered,  \* processes whose requests the monitor has not answered yet
    due,         \* processes whose report waits for the daemon's verdict
    ahead,       \* history: the slot of the first verdict, 0 before there is one
    pending,     \* the event channel's pending bit
    rspCons,     \* fring.rsp_cons
    handled,     \* history: the slots whose response the handler looked at
    ipc, rc, rp, skip, isnap, ipid,      \* malpage_irq_handle and its locals
    tpc, tsnap, tpid, cpu,               \* malpage_report_thread, and its CPU
    lock, queue, sem,     \* report_queue_lock, report_queue, thread_report_sem
    proc,        \* what a process is doing
    sigstop,     \* processes with SIGSTOP sent and not yet acted on
    sigkill      \* processes with SIGKILL sent

ringVars   == <<rsps, reqProd, unanswered, due, ahead>>
irqVars    == <<pending, rspCons, handled, ipc, rc, rp, skip, isnap, ipid>>
threadVars == <<tpc, tsnap, tpid, cpu>>
queueVars  == <<lock, queue, sem>>
procVars   == <<proc, sigstop, sigkill>>
vars == <<ringVars, irqVars, threadVars, queueVars, procVars>>

IrqPcs    == {"idle", "scan", "lock", "read", "link", "unlock", "up"}
ThreadPcs == {"sleep", "lock", "check", "unlink", "unlock", "halt", "report",
              "resume", "bailed", "oops"}

(* An answer is sent for a request; a verdict comes from the daemon. *)
AnswerOps  == {"NONOP", "NX", "REPORT"}
VerdictOps == {"RESUME", "KILL"}
RingOps    == AnswerOps \cup VerdictOps \cup {"NXVIOLATION"}

Init ==
    /\ rsps = <<>> /\ reqProd = 0 /\ unanswered = <<>> /\ due = {} /\ ahead = 0
    /\ pending = FALSE /\ rspCons = 0 /\ handled = {}
    /\ ipc = "idle" /\ rc = 0 /\ rp = 0 /\ skip = FALSE
    /\ isnap = <<>> /\ ipid = NoPid
    /\ tpc = "sleep" /\ tsnap = <<>> /\ tpid = NoPid /\ cpu \in Cpus
    /\ lock = "free" /\ queue = <<>> /\ sem = 0
    /\ proc = [p \in Pids |-> "running"] /\ sigstop = {} /\ sigkill = {}
-----------------------------------------------------------------------------
(* The guest's processes and the monitor: what the driver runs among. *)

(* The page-fault hook puts a request of p on the ring, over whatever the  *)
(* slot holds.                                                             *)
PutRequest(p) ==
    /\ proc[p] = "running" /\ reqProd < MaxReqs
    /\ reqProd' = reqProd + 1
    /\ unanswered' = Append(unanswered, p)
    /\ rsps' = IF reqProd < Len(rsps)
               THEN [rsps EXCEPT ![reqProd + 1] =
                                    [op |-> "NXVIOLATION", pid |-> p]]
               ELSE rsps
    /\ UNCHANGED <<due, ahead, irqVars, threadVars, queueVars, procVars>>

(* The monitor answers a request and raises the event channel. *)
PushAnswer(op) ==
    /\ unanswered # <<>> /\ Len(rsps) < MaxRsps
    /\ rsps' = Append(rsps, [op |-> op, pid |-> Head(unanswered)])
    /\ unanswered' = Tail(unanswered)
    /\ pending' = TRUE
    /\ UNCHANGED <<reqProd, due, ahead, rspCons, handled, ipc, rc, rp, skip,
                   isnap, ipid, threadVars, queueVars, procVars>>

(* The daemon's verdict on a reported process, an answer to no request. *)
PushVerdict(op, p) ==
    /\ p \in due /\ Len(rsps) < MaxRsps
    /\ rsps' = Append(rsps, [op |-> op, pid |-> p])
    /\ due' = due \ {p}
    /\ ahead' = IF ahead = 0 THEN Len(rsps) + 1 ELSE ahead
    /\ pending' = TRUE
    /\ UNCHANGED <<reqProd, unanswered, rspCons, handled, ipc, rc, rp, skip,
                   isnap, ipid, threadVars, queueVars, procVars>>

(* A process acts on SIGSTOP. *)
StopSelf(p) ==
    /\ p \in sigstop /\ proc[p] = "running"
    /\ proc' = [proc EXCEPT ![p] = "stopped"]
    /\ sigstop' = sigstop \ {p}
    /\ UNCHANGED <<sigkill, ringVars, irqVars, threadVars, queueVars>>

(* A process ends, of its own accord or because of SIGKILL. *)
Exit(p) ==
    /\ \/ proc[p] = "running"
       \/ proc[p] = "stopped" /\ p \in sigkill
    /\ proc' = [proc EXCEPT ![p] = "zombie"]
    /\ sigstop' = sigstop \ {p}
    /\ sigkill' = sigkill \ {p}
    /\ UNCHANGED <<ringVars, irqVars, threadVars, queueVars>>

(* Its parent waits for it: for_each_process finds it no more. *)
Reap(p) ==
    /\ proc[p] = "zombie"
    /\ proc' = [proc EXCEPT ![p] = "gone"]
    /\ UNCHANGED <<sigstop, sigkill, ringVars, irqVars, threadVars, queueVars>>
-----------------------------------------------------------------------------
(* malpage_op_process.  A pid that is not found ends the walk at init_task, *)
(* whose pid 0 is never signalled.                                         *)
Alive(p) == proc[p] \in {"running", "stopped"}

HaltProcess_NoSignal(p) == UNCHANGED <<proc, sigstop, sigkill>>

HaltProcess(p) ==
    /\ sigstop' = IF proc[p] = "running" THEN sigstop \cup {p} ELSE sigstop
    /\ UNCHANGED <<proc, sigkill>>

ResumeProcess_KeepsStopped(p) ==
    sigstop' = sigstop \ {p} /\ UNCHANGED <<proc, sigkill>>

ResumeProcess(p) ==    \* SIGCONT also withdraws a SIGSTOP that still waits
    /\ sigstop' = sigstop \ {p}
    /\ proc' = IF proc[p] = "stopped"
               THEN [proc EXCEPT ![p] = "running"] ELSE proc
    /\ UNCHANGED sigkill

KillProcess(p) ==
    /\ sigkill' = IF Alive(p) THEN sigkill \cup {p} ELSE sigkill
    /\ UNCHANGED <<proc, sigstop>>

(* The primitives on report_queue_lock and thread_report_sem.  The names   *)
(* with an underscore, here and below, are the same code with a plausible  *)
(* slip in it; the specification does not use them.                        *)
LockFree_Unchecked == TRUE
LockFree == lock = "free"

Unlock_Forgotten == UNCHANGED lock
Unlock == lock' = "free"

Up_Forgotten == UNCHANGED sem
Up == sem' = sem + 1

Down_Interrupted == sem' \in {sem, sem - 1} \cap Nat
Down == sem > 0 /\ sem' = sem - 1
-----------------------------------------------------------------------------
(* malpage_irq_handle, which never interrupts itself. *)

(* Entry.  skip is a local nobody initialises: either value. *)
IrqEnter ==
    /\ ipc = "idle" /\ pending
    /\ pending' = FALSE
    /\ ipc' = "scan" /\ rp' = Len(rsps) /\ rc' = rspCons
    /\ skip' \in BOOLEAN
    /\ UNCHANGED <<rspCons, handled, isnap, ipid, ringVars, threadVars,
                   queueVars, procVars>>

(* One iteration of the loop, for each case of the switch.  HALT is in the *)
(* code; the monitor never sends it.  A slot a request was written over    *)
(* shows the request: its response is not seen any more.                   *)
Slot == rsps[rc + 1]
WrittenOver(i) == rsps[i].op = "NXVIOLATION"

IrqCase ==
    /\ ipc = "scan" /\ rc # rp
    /\ handled' = IF WrittenOver(rc + 1) THEN handled ELSE handled \cup {rc + 1}
    /\ UNCHANGED <<pending, rspCons, rp, isnap, ipid, ringVars, threadVars,
                   queueVars>>

IrqOther ==
    /\ IrqCase /\ Slot.op \in {"NONOP", "NXVIOLATION"}
    /\ rc' = rc + 1
    /\ UNCHANGED <<ipc, skip, procVars>>

IrqKill ==
    /\ IrqCase /\ Slot.op = "KILL"
    /\ KillProcess(Slot.pid)
    /\ skip' = FALSE /\ rc' = rc + 1
    /\ UNCHANGED ipc

IrqResume ==
    /\ IrqCase /\ Slot.op = "RESUME"
    /\ skip' = FALSE /\ rc' = rc + 1
    /\ UNCHANGED <<ipc, procVars>>

IrqNx ==      \* malpage_flipnx_page returns at once
    /\ IrqCase /\ Slot.op \in {"NX", "HALT"}
    /\ skip' = TRUE /\ rc' = rc + 1
    /\ UNCHANGED <<ipc, procVars>>

IrqReport ==
    /\ IrqCase /\ Slot.op = "REPORT"
    /\ ipc' = "lock"
    /\ UNCHANGED <<rc, skip, procVars>>

(* The REPORT case goes on: spin_lock, list_add_tail, spin_unlock, up.     *)
(* The pid is read from the slot inside the critical section.              *)
IrqLock ==
    /\ ipc = "lock" /\ LockFree
    /\ lock' = "irq" /\ ipc' = "read"
    /\ UNCHANGED <<pending, rspCons, handled, rc, rp, skip, isnap, ipid, queue,
                   sem, ringVars, threadVars, procVars>>

IrqRead ==
    /\ ipc = "read"
    /\ isnap' = queue /\ ipid' = Slot.pid /\ ipc' = "link"
    /\ UNCHANGED <<pending, rspCons, handled, rc, rp, skip, ringVars,
                   threadVars, queueVars, procVars>>

IrqLink ==
    /\ ipc = "link"
    /\ queue' = Append(isnap, ipid) /\ ipc' = "unlock"
    /\ UNCHANGED <<pending, rspCons, handled, rc, rp, skip, isnap, ipid, lock,
                   sem, ringVars, threadVars, procVars>>

IrqUnlock ==
    /\ ipc = "unlock"
    /\ Unlock /\ ipc' = "up"
    /\ UNCHANGED <<pending, rspCons, handled, rc, rp, skip, isnap, ipid, queue,
                   sem, ringVars, threadVars, procVars>>

IrqUp ==
    /\ ipc = "up"
    /\ Up
    /\ skip' = TRUE /\ rc' = rc + 1 /\ ipc' = "scan"
    /\ UNCHANGED <<pending, rspCons, handled, rp, isnap, ipid, lock, queue,
                   ringVars, threadVars, procVars>>

(* After the loop.  With skip set rsp_cons stays behind, and the next      *)
(* interrupt walks the same responses again.  Otherwise the final check    *)
(* looks for responses that came in, while requests are outstanding.       *)
NextCons_ToProducer == IF skip THEN rspCons ELSE Len(rsps)
NextCons == IF skip THEN rspCons ELSE rc

IrqEnd ==
    /\ ipc = "scan" /\ rc = rp
    /\ rspCons' = NextCons
    /\ IF ~skip /\ rc # reqProd /\ Len(rsps) # rc
       THEN rp' = Len(rsps) /\ rc' = rspCons' /\ UNCHANGED ipc    \* goto again
       ELSE ipc' = "idle" /\ UNCHANGED <<rp, rc>>
    /\ UNCHANGED <<pending, handled, skip, isnap, ipid, ringVars, threadVars,
                   queueVars, procVars>>

IrqStep == \/ IrqEnter \/ IrqOther \/ IrqKill \/ IrqResume \/ IrqNx
           \/ IrqReport \/ IrqLock \/ IrqRead \/ IrqLink \/ IrqUnlock
           \/ IrqUp \/ IrqEnd
-----------------------------------------------------------------------------
(* malpage_report_thread. *)
Runs == ipc = "idle" \/ cpu # IrqCpu    \* the handler has not interrupted it

(* msleep and down_interruptible; a kernel thread takes no signals. *)
ThreadDown ==
    /\ tpc = "sleep" /\ Runs
    /\ Down /\ tpc' = "lock"
    /\ UNCHANGED <<tsnap, tpid, cpu, lock, queue, ringVars, irqVars, procVars>>

ThreadLock ==
    /\ tpc = "lock" /\ LockFree /\ Runs
    /\ lock' = "thread" /\ tpc' = "check"
    /\ UNCHANGED <<tsnap, tpid, cpu, queue, sem, ringVars, irqVars, procVars>>

(* list_empty_careful and list_first_entry.  An empty list ends the        *)
(* thread, which never gives the lock back.                                *)
ThreadCheck ==
    /\ tpc = "check" /\ Runs
    /\ tsnap' = queue
    /\ tpc' = IF queue = <<>> THEN "bailed" ELSE "unlink"
    /\ UNCHANGED <<tpid, cpu, ringVars, irqVars, queueVars, procVars>>

ThreadUnlink ==
    /\ tpc = "unlink" /\ Runs
    /\ tpid' = Head(tsnap) /\ queue' = Tail(tsnap) /\ tpc' = "unlock"
    /\ UNCHANGED <<tsnap, cpu, lock, sem, ringVars, irqVars, procVars>>

ThreadUnlock ==
    /\ tpc = "unlock" /\ Runs
    /\ Unlock /\ tpc' = "halt"
    /\ UNCHANGED <<tsnap, tpid, cpu, queue, sem, ringVars, irqVars, procVars>>

ThreadHalt ==
    /\ tpc = "halt" /\ Runs
    /\ HaltProcess(tpid)
    /\ tpc' = "report"
    /\ UNCHANGED <<tsnap, tpid, cpu, ringVars, irqVars, queueVars>>

(* malpage_report: nothing for a pid it does not find.  A zombie has no mm, *)
(* which pfnlist_vmarea dereferences: the thread dies there.  It may die   *)
(* on a live process too: on the uninitialised pfn_root of a process with  *)
(* no page present, on a first region freed before mmap_sem is taken, on   *)
(* an exit during the walk (PfnList.tla has the walk and when it happens). *)
ThreadReport ==
    /\ tpc = "report" /\ Runs
    /\ \/ /\ proc[tpid] # "zombie"
          /\ due' = IF Alive(tpid) THEN due \cup {tpid} ELSE due
          /\ tpc' = "resume"
       \/ /\ proc[tpid] # "gone"
          /\ tpc' = "oops"
          /\ UNCHANGED due
    /\ UNCHANGED <<rsps, reqProd, unanswered, ahead, tsnap, tpid, cpu, irqVars,
                   queueVars, procVars>>

ThreadResume ==
    /\ tpc = "resume" /\ Runs
    /\ ResumeProcess(tpid)
    /\ tpc' = "sleep"
    /\ UNCHANGED <<tsnap, tpid, cpu, ringVars, irqVars, queueVars>>

ThreadStep == \/ ThreadDown \/ ThreadLock \/ ThreadCheck \/ ThreadUnlink
              \/ ThreadUnlock \/ ThreadHalt \/ ThreadReport \/ ThreadResume

(* The scheduler moves the sleeping thread to another CPU. *)
Migrate ==
    /\ tpc = "sleep"
    /\ \E c \in Cpus \ {cpu} : cpu' = c
    /\ UNCHANGED <<tpc, tsnap, tpid, ringVars, irqVars, queueVars, procVars>>
-----------------------------------------------------------------------------
EnvStep ==
    \/ \E p \in Pids : PutRequest(p) \/ StopSelf(p) \/ Exit(p) \/ Reap(p)
    \/ \E op \in AnswerOps : PushAnswer(op)
    \/ \E op \in VerdictOps, p \in Pids : PushVerdict(op, p)

Next == EnvStep \/ IrqStep \/ ThreadStep \/ Migrate

(* The handler and the thread run whenever they can; a signalled process   *)
(* acts on its signal.  Nobody has to fault, answer, judge or exit.        *)
Fairness ==
    /\ WF_vars(IrqStep)
    /\ WF_vars(ThreadStep)
    /\ \A p \in Pids : /\ WF_vars(StopSelf(p))
                       /\ WF_vars(p \in sigkill /\ Exit(p))

Spec     == Init /\ [][Next]_vars
FairSpec == Spec /\ Fairness
-----------------------------------------------------------------------------
(* Properties. *)

Slots == [op : RingOps, pid : Pids]

(* Every variable keeps the type its C declaration and use give it. *)
TypeOK ==
    /\ rsps \in Seq(Slots) /\ unanswered \in Seq(Pids)
    /\ reqProd \in Nat /\ due \subseteq Pids /\ ahead \in Nat
    /\ pending \in BOOLEAN /\ skip \in BOOLEAN
    /\ rspCons \in Nat /\ rc \in Nat /\ rp \in Nat /\ handled \subseteq Nat
    /\ ipc \in IrqPcs /\ isnap \in Seq(Pids) /\ ipid \in Pids \cup {NoPid}
    /\ tpc \in ThreadPcs /\ tsnap \in Seq(Pids) /\ tpid \in Pids \cup {NoPid}
    /\ cpu \in Cpus
    /\ lock \in {"free", "irq", "thread"} /\ queue \in Seq(Pids) /\ sem \in Nat
    /\ proc \in [Pids -> {"running", "stopped", "zombie", "gone"}]
    /\ sigstop \subseteq Pids /\ sigkill \subseteq Pids

(* The reporter never finds the list empty: "report list was empty!        *)
(* Bailing out." (malpage.c:205) would end the thread with the lock held,  *)
(* and every later REPORT response would hang the handler.                 *)
NoBailOut == tpc # "bailed"

(* A process is reported between SIGSTOP and SIGCONT: when malpage_report   *)
(* reads its pages it is stopped, or about to, or has ended.               *)
ReportUnderStop ==
    tpc = "report" => \/ proc[tpid] \in {"stopped", "zombie", "gone"}
                      \/ tpid \in sigstop

(* The reporter's two obligations: never to bail out, and to report only   *)
(* what stands still.                                                      *)
ReporterSafe == NoBailOut /\ ReportUnderStop

(* rsp_cons never passes a response whose operation no pass of the handler *)
(* read, however responses and interrupts interleave, but for one that a   *)
(* request was written over; and that takes a response which ran ahead of  *)
(* the requests, so none before the daemon's first verdict is lost.        *)
NothingSkipped ==
    /\ \A i \in 1..rspCons : i \in handled \/ WrittenOver(i)
    /\ \A i \in 1..Len(rsps) : WrittenOver(i) => ahead \in 1..i

(* Within one interrupt the handler goes forward: "goto again" handles no  *)
(* response a second time (only the next interrupt does).                  *)
OncePerInterrupt == [][ipc # "idle" /\ ipc' # "idle" => rc' >= rc]_vars

(* The handler spins for a lock its own CPU's reporter holds. *)
SelfDeadlock == ipc = "lock" /\ lock = "thread" /\ cpu = IrqCpu

(* An interrupt handler that has started returns, unless it interrupted    *)
(* the reporter inside its critical section (plain spin_lock, not          *)
(* spin_lock_irqsave, in malpage_report_thread).                           *)
IrqReturns == (ipc # "idle") ~> (ipc = "idle" \/ SelfDeadlock)

(* Every queued report is taken up: the queue empties, unless the reporter *)
(* died in malpage_report or is stuck under SelfDeadlock.                  *)
QueueDrains == (queue # <<>>) ~> (queue = <<>> \/ tpc = "oops" \/ SelfDeadlock)

(* Responses are handled and reports are made, whatever the order of       *)
(* interrupts, thread steps and signals, outside those two traps.          *)
ReportsServed == IrqReturns /\ QueueDrains

(* No process stays stopped, even when the verdict, the reporter's other   *)
(* work or a late SIGSTOP come in any order: SIGCONT follows every SIGSTOP, *)
(* but for the one process on which the reporter died in malpage_report.   *)
StoppedGoesOn ==
    \A p \in Pids : (proc[p] = "stopped")
                       ~> (proc[p] # "stopped" \/ (tpc = "oops" /\ tpid = p))

(* The driver implements the one-at-a-time, first-come-first-served report *)
(* service.                                                                *)
Service == INSTANCE ReportService WITH
    waiting <- queue,
    current <- IF tpc \in {"unlock", "halt", "report", "resume", "oops"}
               THEN tpid ELSE NoPid
ServesInOrder == Service!Spec

(* The inductive invariant behind NoBailOut and NothingSkipped: who holds  *)
(* the lock, that a list operation works on the current links, that the    *)
(* semaphore counts the queued pids less those claimed or not yet          *)
(* announced, where the handler's indices stand, which slots it saw, and   *)
(* that without a verdict every response has a request before it.          *)
LockHeld ==
    /\ lock = "irq" <=> ipc \in {"read", "link", "unlock"}
    /\ lock = "thread" <=> tpc \in {"check", "unlink", "unlock", "bailed"}
FreshLinks ==
    /\ ipc = "link" => isnap = queue
    /\ tpc = "unlink" => tsnap = queue /\ queue # <<>>
Unannounced == IF ipc \in {"unlock", "up"} THEN 1 ELSE 0
Claimed     == IF tpc \in {"lock", "check", "unlink"} THEN 1 ELSE 0
SemCounts   == Len(queue) = sem + Unannounced + Claimed
PidsKnown ==
    /\ ipc = "link" => ipid \in Pids
    /\ tpc \in {"unlock", "halt", "report", "resume", "oops"} => tpid \in Pids
IndicesInOrder ==
    /\ rspCons <= Len(rsps)
    /\ ipc # "idle" => rspCons <= rc /\ rc <= rp /\ rp <= Len(rsps)
    /\ ipc \notin {"idle", "scan"} => rc < rp
SeenSoFar ==
    /\ NothingSkipped
    /\ ipc # "idle" => \A i \in 1..rc : i \in handled \/ WrittenOver(i)
    /\ ipc \notin {"idle", "scan"} => rc + 1 \in handled
AheadOfRequests ==
    IF ahead = 0 THEN Len(rsps) + Len(unanswered) = reqProd
                 ELSE ahead <= reqProd + 1 /\ ahead <= Len(rsps)
IInv == /\ TypeOK /\ LockHeld /\ FreshLinks /\ SemCounts /\ PidsKnown
        /\ IndicesInOrder /\ SeenSoFar /\ AheadOfRequests /\ NoBailOut
=============================================================================
