---------------------------- MODULE RingChannel ----------------------------
(***************************************************************************)
(* The shared ring between a guest and the monitor.  In the guest the two  *)
(* kernel hooks of malpage.c put requests on it: multi_mmu_update under    *)
(* malpage_mmu_info_lock, do_page_fault without a lock.  In dom0           *)
(* monitor_irq_handle (monitor.c) answers each request, and the daemon's   *)
(* ioctl sends verdicts through monitor_op_process, on another CPU and     *)
(* with no lock either.                                                    *)
(*                                                                         *)
(* Requests and responses share the slots (a union), free-running indices  *)
(* are unsigned and wrap at IdxMod, and nobody asks whether the ring is    *)
(* full.  The guest's handler is one step here; ReportQueue.tla has its    *)
(* interleavings.  A push, one load and one store, is one step.            *)
(***************************************************************************)
EXTENDS Integers, Sequences, FiniteSets, SequencesExt

CONSTANTS Cpus,         \* the guest's CPUs
          Pids,         \* its processes
          NoPid,        \* no process
          Size,         \* nr_ents: slots of the ring
          IdxMod,       \* the width of RING_IDX: indices are below it
          StartIdx,     \* the index both ends have come to when we look
          MaxOps,       \* bound: requests put and verdicts sent from then on
          MaxVerdicts   \* bound: verdicts among them

ASSUME RingAssumption ==
    /\ Size \in Nat \ {0, 1} /\ IdxMod \in Nat /\ IdxMod % Size = 0
    /\ StartIdx \in 0..(IdxMod - 1)
    /\ MaxOps \in Nat /\ MaxVerdicts \in 0..MaxOps /\ 2 * MaxOps < IdxMod
ASSUME PidAssumption == NoPid \notin Pids
ASSUME CpuAssumption == "free" \notin Cpus

VARIABLES
    watched,       \* the processes the monitor was told to watch
    slot,          \* the ring: what a slot holds
    reqProdPvt, reqProd, rspCons,      \* fring.req_prod_pvt, sring, fring
    rspProdPvt, rspProd, reqCons,      \* bring.rsp_prod_pvt, sring, bring
    mmuLock,       \* malpage_mmu_info_lock
    fpc, fidx, freq,         \* a hook on a CPU: where it is, slot, request
    backPending, bpc, brc, brp, bresp, \* monitor_irq_handle
    vpc,                               \* monitor_op_process
    frontPending,                      \* the guest's pending bit
    claims, seen,  \* history: requests put, requests the monitor copied
    sent, got,     \* history: responses written, responses the guest read
    raced,         \* history: two hooks were in the ring at the same time
    overrun,       \* history: a slot was claimed before its use was over
    verdicts       \* history: verdicts sent

frontVars == <<reqProdPvt, reqProd, mmuLock, fpc, fidx, freq, claims, raced, overrun>>
backVars  == <<watched, reqCons, backPending, bpc, brc, brp, bresp, seen>>
verdVars  == <<vpc, verdicts>>
guestVars == <<rspCons, frontPending, got>>
rspVars   == <<rspProdPvt, rspProd, sent>>
vars == <<slot, frontVars, backVars, verdVars, guestVars, rspVars>>

Requests  == [op : {"MMUUPDATE", "NXVIOLATION"}, pid : Pids]
Responses == [op : {"NONOP", "NX", "REPORT", "RESUME", "KILL"}, pid : Pids \cup {NoPid}]
NoReq     == [op |-> "none", pid |-> NoPid]

(* Unsigned arithmetic.  Here and below the names with an underscore are   *)
(* the same code with a plausible slip in it; the specification does not   *)
(* use them.                                                               *)
Inc(i)       == (i + 1) % IdxMod
Minus(i, j)  == (i - j) % IdxMod
At(i)        == i % Size              \* RING_GET_REQUEST, RING_GET_RESPONSE

Init ==
    /\ watched \in SUBSET Pids
    /\ slot = [i \in 0..(Size - 1) |-> NoReq]
    /\ reqProdPvt = StartIdx /\ reqProd = StartIdx /\ rspCons = StartIdx
    /\ rspProdPvt = StartIdx /\ rspProd = StartIdx /\ reqCons = StartIdx
    /\ mmuLock = "free"
    /\ fpc = [c \in Cpus |-> "idle"] /\ fidx = [c \in Cpus |-> 0]
    /\ freq = [c \in Cpus |-> NoReq]
    /\ backPending = FALSE /\ bpc = "idle" /\ brc = 0 /\ brp = 0 /\ bresp = NoReq
    /\ vpc = "idle"
    /\ frontPending = FALSE
    /\ claims = <<>> /\ seen = <<>> /\ sent = <<>> /\ got = <<>>
    /\ raced = FALSE /\ overrun = FALSE /\ verdicts = 0
-----------------------------------------------------------------------------
(* The guest's hooks. *)
MayEnter(c, r) == r.op = "MMUUPDATE" => mmuLock = "free"

(* RING_GET_REQUEST, and the operation is written. *)
FrontGet(c, r) ==
    /\ fpc[c] = "idle" /\ Len(claims) + verdicts < MaxOps /\ MayEnter(c, r)
    /\ mmuLock' = IF r.op = "MMUUPDATE" THEN c ELSE mmuLock
    /\ fidx' = [fidx EXCEPT ![c] = reqProdPvt]
    /\ freq' = [freq EXCEPT ![c] = r]
    /\ slot' = [slot EXCEPT ![At(reqProdPvt)] = [op |-> r.op, pid |-> @.pid]]
    /\ fpc' = [fpc EXCEPT ![c] = "inc"]
    /\ claims' = Append(claims, r)
    /\ raced' = (raced \/ \E d \in Cpus \ {c} : fpc[d] # "idle")
    /\ overrun' = (overrun \/ Len(claims) - Len(got) >= Size)
    /\ UNCHANGED <<reqProdPvt, reqProd, backVars, verdVars, guestVars, rspVars>>

FrontInc_Publishes(c) ==
    /\ fpc[c] = "inc"
    /\ reqProdPvt' = Inc(reqProdPvt) /\ reqProd' = reqProdPvt'
    /\ backPending' = TRUE
    /\ fpc' = [fpc EXCEPT ![c] = "fill"]
    /\ UNCHANGED <<watched, slot, mmuLock, fidx, freq, claims, raced, overrun, reqCons,
                   bpc, brc, brp, bresp, seen, verdVars, guestVars, rspVars>>

(* req_prod_pvt += 1 *)
FrontInc(c) ==
    /\ fpc[c] = "inc"
    /\ reqProdPvt' = Inc(reqProdPvt)
    /\ fpc' = [fpc EXCEPT ![c] = "fill"]
    /\ UNCHANGED <<slot, reqProd, mmuLock, fidx, freq, claims, raced, overrun,
                   backVars, verdVars, guestVars, rspVars>>

(* Two increments at once, neither locked: one is lost. *)
FrontIncLost(c, d) ==
    /\ c # d /\ fpc[c] = "inc" /\ fpc[d] = "inc"
    /\ reqProdPvt' = Inc(reqProdPvt)
    /\ fpc' = [fpc EXCEPT ![c] = "fill", ![d] = "fill"]
    /\ UNCHANGED <<slot, reqProd, mmuLock, fidx, freq, claims, raced, overrun,
                   backVars, verdVars, guestVars, rspVars>>

(* The other fields of the request. *)
FrontFill(c) ==
    /\ fpc[c] = "fill"
    /\ slot' = [slot EXCEPT ![At(fidx[c])] = [op |-> @.op, pid |-> freq[c].pid]]
    /\ fpc' = [fpc EXCEPT ![c] = "push"]
    /\ UNCHANGED <<reqProdPvt, reqProd, mmuLock, fidx, freq, claims, raced,
                   overrun, backVars, verdVars, guestVars, rspVars>>

(* RING_PUSH_REQUESTS, notify, unlock. *)
FrontPush(c) ==
    /\ fpc[c] = "push"
    /\ reqProd' = reqProdPvt
    /\ backPending' = TRUE
    /\ mmuLock' = IF mmuLock = c THEN "free" ELSE mmuLock
    /\ fpc' = [fpc EXCEPT ![c] = "idle"]
    /\ fidx' = [fidx EXCEPT ![c] = 0] /\ freq' = [freq EXCEPT ![c] = NoReq]
    /\ UNCHANGED <<watched, slot, reqProdPvt, claims, raced, overrun, reqCons,
                   bpc, brc, brp, bresp, seen, verdVars, guestVars, rspVars>>
-----------------------------------------------------------------------------
(* monitor_irq_handle. *)

(* RING_REQUEST_CONS_OVERFLOW(rc) *)
Overflow(rc) == Minus(rc, rspProdPvt) >= Size

BackEnter ==
    /\ bpc = "idle" /\ backPending
    /\ backPending' = FALSE
    /\ brc' = reqCons /\ brp' = reqProd /\ bpc' = "loop"
    /\ UNCHANGED <<watched, slot, reqCons, bresp, seen, frontVars, verdVars, guestVars, rspVars>>

Answer_Swapped(r) ==
    IF r.pid \in watched /\ r.op \in {"MMUUPDATE", "NXVIOLATION"}
    THEN [op |-> IF r.op = "MMUUPDATE" THEN "REPORT" ELSE "NX", pid |-> r.pid]
    ELSE [op |-> "NONOP", pid |-> NoPid]

(* The switch: report_in_progress is never set, and the domain is one the  *)
(* monitor accepts.                                                        *)
Answer(r) ==
    IF r.pid \in watched /\ r.op \in {"MMUUPDATE", "NXVIOLATION"}
    THEN [op |-> IF r.op = "MMUUPDATE" THEN "NX" ELSE "REPORT", pid |-> r.pid]
    ELSE [op |-> "NONOP", pid |-> NoPid]

(* There is a request, and the ring does not look overdrawn.  Nothing      *)
(* keeps monitor_op_process from moving rsp_prod_pvt after the check.      *)
BackCheck ==
    /\ bpc = "loop" /\ brc # brp /\ ~Overflow(brc)
    /\ bpc' = "fetch"
    /\ UNCHANGED <<watched, slot, reqCons, backPending, brc, brp, bresp, seen, frontVars,
                   verdVars, guestVars, rspVars>>

(* One request is copied and decided upon. *)
BackFetch ==
    /\ bpc = "fetch"
    /\ seen' = Append(seen, slot[At(brc)])
    /\ bresp' = Answer(slot[At(brc)])
    /\ brc' = Inc(brc) /\ reqCons' = Inc(brc) /\ bpc' = "write"
    /\ UNCHANGED <<watched, slot, backPending, brp, frontVars, verdVars, guestVars, rspVars>>

BackDone_DropsEvent ==
    /\ bpc = "loop" /\ (brc = brp \/ Overflow(brc))
    /\ bpc' = "idle" /\ brc' = 0 /\ brp' = 0 /\ backPending' = FALSE
    /\ UNCHANGED <<watched, slot, reqCons, bresp, seen, frontVars, verdVars, guestVars, rspVars>>

(* Nothing left, or "out of things to process": the handler returns. *)
BackDone ==
    /\ bpc = "loop" /\ (brc = brp \/ Overflow(brc))
    /\ bpc' = "idle" /\ brc' = 0 /\ brp' = 0
    /\ UNCHANGED <<watched, slot, reqCons, backPending, bresp, seen, frontVars, verdVars,
                   guestVars, rspVars>>

ResponseIdx == rspProdPvt

BackWrite ==
    /\ bpc = "write"
    /\ slot' = [slot EXCEPT ![At(ResponseIdx)] = bresp]
    /\ sent' = Append(sent, bresp)
    /\ bpc' = "inc"
    /\ UNCHANGED <<watched, rspProdPvt, rspProd, reqCons, backPending, brc, brp, bresp,
                   seen, frontVars, verdVars, guestVars>>

BackPush_BeforeInc ==
    /\ bpc = "inc"
    /\ rspProdPvt' = Inc(rspProdPvt) /\ rspProd' = rspProdPvt
    /\ frontPending' = TRUE
    /\ bpc' = "loop" /\ bresp' = NoReq
    /\ UNCHANGED <<watched, slot, sent, reqCons, backPending, brc, brp, seen,
                   rspCons, got, frontVars, verdVars>>

BackPush ==
    /\ bpc = "inc"
    /\ rspProdPvt' = Inc(rspProdPvt) /\ rspProd' = rspProdPvt'
    /\ frontPending' = TRUE
    /\ bpc' = "loop" /\ bresp' = NoReq
    /\ UNCHANGED <<watched, slot, sent, reqCons, backPending, brc, brp, seen,
                   rspCons, got, frontVars, verdVars>>
-----------------------------------------------------------------------------
(* monitor_op_process, for the daemon's ioctl. *)
VerdictWrite(op, p) ==
    /\ vpc = "idle" /\ verdicts < MaxVerdicts /\ Len(claims) + verdicts < MaxOps
    /\ slot' = [slot EXCEPT ![At(ResponseIdx)] = [op |-> op, pid |-> p]]
    /\ sent' = Append(sent, [op |-> op, pid |-> p])
    /\ verdicts' = verdicts + 1
    /\ vpc' = "inc"
    /\ UNCHANGED <<rspProdPvt, rspProd, frontVars, backVars, guestVars>>

VerdictPush ==
    /\ vpc = "inc"
    /\ rspProdPvt' = Inc(rspProdPvt) /\ rspProd' = rspProdPvt'
    /\ frontPending' = TRUE
    /\ vpc' = "idle"
    /\ UNCHANGED <<slot, sent, verdicts, rspCons, got, frontVars, backVars>>

(* Handler and ioctl increment rsp_prod_pvt at once: one is lost. *)
PushLost ==
    /\ bpc = "inc" /\ vpc = "inc"
    /\ rspProdPvt' = Inc(rspProdPvt) /\ rspProd' = rspProdPvt'
    /\ frontPending' = TRUE
    /\ bpc' = "loop" /\ vpc' = "idle" /\ bresp' = NoReq
    /\ UNCHANGED <<watched, slot, sent, verdicts, rspCons, got, reqCons, backPending, brc,
                   brp, seen, frontVars>>
-----------------------------------------------------------------------------
(* malpage_irq_handle, in one step: the loop reads every response from     *)
(* rsp_cons on, the last one that sets skip decides, and if none did skip  *)
(* is whatever the stack held.                                             *)
Skips == {"NX", "HALT", "REPORT"}
Moves == {"KILL", "RESUME"}

GuestIrq ==
    LET n     == Minus(rspProd, rspCons)
        op(k) == slot[At(rspCons + k)].op
        sets  == {k \in 0..(n - 1) : op(k) \in Skips \cup Moves}
        fresh == Minus(rspProd, StartIdx + Len(got))
    IN  /\ frontPending
        /\ frontPending' = FALSE
        /\ got' = got \o [k \in 1..fresh |-> slot[At(StartIdx + Len(got) + k - 1)]]
        /\ \E skip \in BOOLEAN :
             /\ \A k \in sets : (\A j \in sets : j <= k) => (skip <=> op(k) \in Skips)
             /\ rspCons' = IF skip THEN rspCons ELSE rspProd
        /\ UNCHANGED <<slot, frontVars, backVars, verdVars, rspVars>>
-----------------------------------------------------------------------------
FrontStep == \E c \in Cpus : \/ \E r \in Requests : FrontGet(c, r)
                             \/ FrontInc(c) \/ FrontFill(c) \/ FrontPush(c)
                             \/ \E d \in Cpus : FrontIncLost(c, d)
BackStep  == BackEnter \/ BackCheck \/ BackFetch \/ BackDone \/ BackWrite \/ BackPush
VerdictStep == \/ \E op \in {"RESUME", "KILL"}, p \in watched : VerdictWrite(op, p)
               \/ VerdictPush

Next == FrontStep \/ BackStep \/ VerdictStep \/ PushLost \/ GuestIrq

(* The handlers run when they are pending, and a hook or an ioctl that     *)
(* started goes on.  Nobody has to fault or to judge.                      *)
Fairness ==
    /\ \A c \in Cpus : WF_vars(FrontInc(c) \/ FrontFill(c) \/ FrontPush(c))
    /\ WF_vars(BackStep)
    /\ WF_vars(VerdictPush)
    /\ WF_vars(GuestIrq)

Spec     == Init /\ [][Next]_vars
FairSpec == Spec /\ Fairness
-----------------------------------------------------------------------------
(* Properties. *)

Idx == 0..(IdxMod - 1)
Contents == Requests \cup Responses \cup {NoReq}
            \cup [op : {"MMUUPDATE", "NXVIOLATION"}, pid : Pids \cup {NoPid}]

(* Every variable keeps its type; a slot holds a request, a response, or a *)
(* request whose fields are not all written.                               *)
TypeOK ==
    /\ watched \in SUBSET Pids
    /\ slot \in [0..(Size - 1) -> Contents]
    /\ {reqProdPvt, reqProd, rspCons, rspProdPvt, rspProd, reqCons, brc, brp} \subseteq Idx
    /\ mmuLock \in Cpus \cup {"free"}
    /\ fpc \in [Cpus -> {"idle", "inc", "fill", "push"}] /\ fidx \in [Cpus -> Idx]
    /\ freq \in [Cpus -> Requests \cup {NoReq}]
    /\ bpc \in {"idle", "loop", "fetch", "write", "inc"} /\ bresp \in Responses \cup {NoReq}
    /\ vpc \in {"idle", "inc"}
    /\ claims \in Seq(Requests) /\ seen \in Seq(Contents)
    /\ sent \in Seq(Responses) /\ got \in Seq(Contents)
    /\ {backPending, frontPending, raced, overrun} \subseteq BOOLEAN
    /\ verdicts \in 0..MaxVerdicts

(* What the code relies on and nothing enforces: no two hooks in the ring  *)
(* at once, no more requests than slots, no response without a request.    *)
Orderly == ~raced /\ ~overrun /\ verdicts = 0

(* While that holds, the monitor reads every request as the guest wrote    *)
(* it, in the order of the indices, and the guest reads every response as  *)
(* the monitor wrote it: over the wrap-around of slots and indices,        *)
(* although requests and responses go into the same slots and rsp_cons may *)
(* lag behind.                                                             *)
RequestsIntact  == Orderly => IsPrefix(seen, claims)
ResponsesIntact == Orderly => IsPrefix(got, sent)

(* The two mmu hooks never share a slot, whatever the page-fault hook      *)
(* does: malpage_mmu_info_lock covers claim to push.                       *)
MmuHooksApart ==
    \A c, d \in Cpus :
        (/\ fpc[c] # "idle" /\ freq[c].op = "MMUUPDATE"
         /\ fpc[d] # "idle" /\ freq[d].op = "MMUUPDATE") => c = d

(* The ring delivers what was put on it, as long as its users keep to what *)
(* the code relies on; and the one lock there is keeps its two users apart.*)
RingIntact == TypeOK /\ RequestsIntact /\ ResponsesIntact /\ MmuHooksApart

(* And a report is asked of the guest only for a watched process that      *)
(* executed a page it should not have: response i answers request i.       *)
ReportJustified ==
    Orderly => \A i \in 1..Len(sent) :
        sent[i].op = "REPORT" => /\ sent[i].pid \in watched
                                 /\ claims[i] = [op |-> "NXVIOLATION",
                                                 pid |-> sent[i].pid]

(* The inductive invariant.  The index after n steps, and the slot it is   *)
(* for; indices and counters of both ends are told by the histories.  A    *)
(* hook that lost its increment, or a response that lost its push, leaves  *)
(* the index behind.                                                       *)
Pos(n) == (StartIdx + n) % IdxMod
Place(n) == (StartIdx + n) % Size
Bit(b) == IF b THEN 1 ELSE 0
InRing == {c \in Cpus : fpc[c] # "idle"}
Incs == {c \in Cpus : fpc[c] = "inc"}
Published == Len(claims) - Bit(InRing # {})
RequestsAt(p, q, x) ==
    /\ Len(seen) <= x /\ x <= q /\ q <= p
    /\ IsFiniteSet(Incs) /\ p + Cardinality(Incs) <= Len(claims)
    /\ reqProdPvt = Pos(p) /\ reqProd = Pos(q) /\ reqCons = Pos(Len(seen))
    /\ bpc # "idle" => brc = reqCons /\ brp = Pos(x)
    /\ bpc = "fetch" => brc # brp
    /\ Orderly => p = Len(claims) - Bit(Incs # {}) /\ q = Published
ResponsesAt(r, lost) ==
    /\ r = Len(sent) - lost - Bit(bpc = "inc") - Bit(vpc = "inc")
    /\ lost + Bit(vpc = "inc") <= verdicts
    /\ rspProdPvt = Pos(r) /\ rspProd = rspProdPvt
Indices ==
    /\ Len(claims) + verdicts <= MaxOps
    /\ \E p, q, x \in 0..MaxOps : RequestsAt(p, q, x)
    /\ Len(sent) = Len(seen) + verdicts - Bit(bpc = "write")
    /\ bpc \in {"write", "inc"} => seen # <<>>
    /\ \E r, lost \in 0..MaxOps : ResponsesAt(r, lost)

(* What a hook on its way has written. *)
HookOK(c) ==
    /\ mmuLock = c <=> c \in InRing /\ freq[c].op = "MMUUPDATE"
    /\ c \in InRing => freq[c] \in Requests /\ slot[At(fidx[c])].op # "none"
    /\ c \in InRing /\ Orderly =>
         /\ InRing = {c} /\ claims # <<>>
         /\ fidx[c] = Pos(Len(claims) - 1) /\ freq[c] = claims[Len(claims)]
         /\ slot[Place(Len(claims) - 1)].op = freq[c].op
         /\ fpc[c] = "push" => slot[Place(Len(claims) - 1)] = freq[c]

(* And the slots, from the responses not yet read to the last request: no  *)
(* more than there are.                                                    *)
SlotsOK ==
    /\ Len(got) <= Len(sent) - Bit(bpc = "inc") /\ Len(claims) - Len(got) <= Size
    /\ \A k \in 1..Len(seen) : seen[k] = claims[k]
    /\ \A k \in 1..Len(sent) : sent[k] = Answer(seen[k])
    /\ \A k \in 1..Len(got) : got[k] = sent[k]
    /\ \A k \in (Len(seen) + 1)..Published : slot[Place(k - 1)] = claims[k]
    /\ \A k \in (Len(got) + 1)..Len(sent) : slot[Place(k - 1)] = sent[k]
    /\ bpc \in {"write", "inc"} => bresp = Answer(seen[Len(seen)])

IInv ==
    /\ TypeOK /\ Indices
    /\ \A c \in Cpus : HookOK(c)
    /\ bpc \in {"write", "inc"} => bresp \in Responses
    /\ Orderly => SlotsOK

(* rsp_prod counts the responses written, but for one per verdict at most: *)
(* an increment of rsp_prod_pvt that monitor_op_process and the handler    *)
(* lost to each other.  Without a verdict none is lost.                    *)
ResponsesCounted ==
    LET counted == Minus(rspProd, StartIdx) + Bit(bpc = "inc") + Bit(vpc = "inc")
    IN  counted <= Len(sent) /\ Len(sent) <= counted + verdicts

(* The back end has sent more responses than it took requests: the         *)
(* unsigned difference RING_REQUEST_CONS_OVERFLOW computes is huge.  A     *)
(* handler past its check takes one more request all the same.             *)
Wedged == Minus(reqCons, rspProdPvt) >= Size
Stuck  == Wedged /\ bpc # "fetch"

(* From then on the monitor never takes another request of this guest: no  *)
(* response it has still to push and no verdict undoes it.                 *)
WedgedForGood == [][Stuck => Stuck' /\ UNCHANGED reqCons]_vars

(* Every published request is taken, until the ring is wedged. *)
FetchedUnlessWedged == (reqCons # reqProd) ~> (reqCons = reqProd \/ Stuck)

(* monitor_irq_handle serves the guest until a verdict the ring has no     *)
(* request for makes RING_REQUEST_CONS_OVERFLOW true, and never again but  *)
(* for a request whose check was done before the verdict.                  *)
FetchedUntilWedged == FetchedUnlessWedged /\ WedgedForGood
=============================================================================
