------------------------------- MODULE Daemon -------------------------------
(***************************************************************************)
(* How guests and the monitor meet: the xenstore directories, the guests'  *)
(* driver that writes into them (malpage.c), the helper daemon that        *)
(* watches them (dom0/python_server/main.py) and the monitor's ioctls that *)
(* it calls (monitor.c).                                                   *)
(*                                                                         *)
(* Every callback of the daemon runs in xswatch's one thread, which takes  *)
(* the events in order and survives an exception; global_sem does not: it  *)
(* stays taken.  A transaction is one step.  It may be refused when other  *)
(* writes came in between (EAGAIN), and nobody looks at the result.  Every *)
(* report numbers its grants anew, so a grant reference is a pair of the   *)
(* report's number and the page.                                           *)
(***************************************************************************)
EXTENDS MonitorRead, FiniteSets, SequencesExt

CONSTANTS Doms,        \* guest domains
          Pids,        \* process ids, which two domains may both use
          NoPid, NoDom,
          NPages,      \* pages of a process
          MaxReports,  \* bound: reports of one domain
          MaxBad,      \* bound: pages of a report that cannot be mapped
          MaxFaults    \* bound: transactions refused and restarts of the daemon

ASSUME NoneAssumption  == NoPid \notin Pids /\ NoDom \notin Doms
ASSUME DomsAssumption  == IsFiniteSet(Doms)
ASSUME BoundAssumption == {NPages, MaxReports, MaxBad, MaxFaults} \subseteq Nat

VARIABLES
    up,          \* /local/domain/<d>/domid exists
    reg,         \* /malpage/register/<d>: absent, empty or the guest's value
    mayReport,   \* /malpage/report/<d> exists and the guest may write in it
    watchDir,    \* /malpage/watch/<d> likewise
    watchNode,   \* the process in it, once "ready"; NoPid: not ready
    report,      \* /malpage/report/<d>
    gpc, gpid, gtodo,    \* malpage_xs_report: where, for whom, pages left
    count,       \* reports begun
    asked,       \* history: processes the client asked to watch
    watches, events,     \* xswatch's watches, and events not yet read
    sem,                 \* global_sem
    dpc, ddom, dpid, dgrefs,      \* a callback of the daemon and its locals
    shareInfo,   \* monitor_share_info: the last domain to register
    domList,     \* monitor_dom_list: the watched processes of a domain
    registered,  \* the domains that have a list in it
    currProc, mapped,    \* curr_proc, vm_struct_list
    text, bad,   \* where the mapped pages hold the searched text; pages not mapped
    judged, last,        \* history: verdicts on a domain's reports, the last one
    overlap,     \* history: domains that wrote while a report was not removed
    refusals,    \* history: transactions refused
    restarts     \* history: restarts of the daemon

storeVars == <<up, reg, mayReport, watchDir, watchNode, report>>
guestVars == <<gpc, gpid, gtodo, count, asked, overlap>>
eventVars == <<watches, events>>
cbVars    == <<dpc, ddom, dpid, dgrefs>>
monVars   == <<shareInfo, domList, registered, currProc, mapped, judged, last, text, bad>>
vars == <<storeVars, guestVars, eventVars, sem, cbVars, monVars, refusals, restarts>>

Kinds == {"up", "register", "report", "watch"}
Grefs == (1..MaxReports) \X (1..NPages)
NoReport == [ready |-> FALSE, pid |-> NoPid, dir |-> FALSE, grefs |-> {}]
(* Places of a text: a reported page and the first byte, one of them in    *)
(* the part of the first page that no read covers.                         *)
NoText == [page |-> <<0, 0>>, at |-> 0]
Texts == {NoText} \cup [page : Grefs, at : {1500, 3000}]
NoVerdict == [op |-> "none", from |-> NoDom, to |-> NoDom, pid |-> NoPid]

Init ==
    /\ up = [d \in Doms |-> FALSE] /\ reg = [d \in Doms |-> "absent"]
    /\ mayReport = [d \in Doms |-> FALSE] /\ watchDir = [d \in Doms |-> FALSE]
    /\ watchNode = [d \in Doms |-> NoPid] /\ report = [d \in Doms |-> NoReport]
    /\ gpc = [d \in Doms |-> "unloaded"] /\ gpid = [d \in Doms |-> NoPid]
    /\ gtodo = [d \in Doms |-> 0] /\ count = [d \in Doms |-> 0]
    /\ asked = [d \in Doms |-> {}]
    /\ watches = {"up"} \X Doms /\ events = <<>> /\ sem = "free"
    /\ dpc = "wait" /\ ddom = NoDom /\ dpid = NoPid /\ dgrefs = {}
    /\ shareInfo = NoDom /\ domList = [d \in Doms |-> {}] /\ registered = {}
    /\ currProc = NoPid /\ mapped = {}
    /\ judged = [d \in Doms |-> 0] /\ last = NoVerdict
    /\ overlap = {} /\ refusals = 0 /\ restarts = 0
    /\ text = NoText /\ bad = {}
-----------------------------------------------------------------------------
(* xenstore. *)

(* The queue with an event for k of d, if that is watched. *)
Fired(k, d) == IF <<k, d>> \in watches THEN Append(events, <<k, d>>) ELSE events

Fault == refusals + restarts < MaxFaults
Commit == UNCHANGED <<refusals, restarts>>
Refuse == Fault /\ refusals' = refusals + 1 /\ UNCHANGED restarts

(* The toolstack starts a domain. *)
DomainUp(d) ==
    /\ ~up[d]
    /\ up' = [up EXCEPT ![d] = TRUE]
    /\ events' = Fired("up", d)
    /\ UNCHANGED <<reg, mayReport, watchDir, watchNode, report, guestVars,
                   watches, sem, cbVars, monVars, refusals, restarts>>
-----------------------------------------------------------------------------
(* The guest's driver. *)

(* Names with an underscore, here and below, are the same code with a      *)
(* plausible slip in it; the specification does not use them.              *)

(* malpage_register: a write the daemon has not yet allowed fails, and     *)
(* nobody notices.                                                         *)
Register(d) ==
    \/ /\ Commit
       /\ reg' = IF reg[d] = "empty" THEN [reg EXCEPT ![d] = "value"] ELSE reg
       /\ events' = IF reg[d] = "empty" THEN Fired("register", d) ELSE events
    \/ Refuse /\ UNCHANGED <<reg, events>>

(* malpage_init: registers, then starts the reporter and sets the hooks. *)
GuestLoad(d) ==
    /\ up[d] /\ gpc[d] = "unloaded"
    /\ Register(d)
    /\ gpc' = [gpc EXCEPT ![d] = "idle"]
    /\ UNCHANGED <<up, mayReport, watchDir, watchNode, report, gpid, gtodo,
                   count, asked, overlap, watches, sem, cbVars, monVars>>

(* malpage_watch, for the client's ioctl: once per process.  Without the   *)
(* directory the write fails.                                              *)
GuestWatch(d, p) ==
    /\ gpc[d] # "unloaded" /\ p \notin asked[d]
    /\ asked' = [asked EXCEPT ![d] = @ \cup {p}]
    /\ \/ /\ watchDir[d] /\ Commit
          /\ watchNode' = [watchNode EXCEPT ![d] = p]
          /\ events' = Fired("watch", d)
       \/ watchDir[d] /\ Refuse /\ UNCHANGED <<watchNode, events>>
       \/ ~watchDir[d] /\ Commit /\ UNCHANGED <<watchNode, events>>
    /\ UNCHANGED <<up, reg, mayReport, watchDir, report, gpc, gpid, gtodo, count,
                   overlap, watches, sem, cbVars, monVars>>

(* malpage_report: the reporter thread's next report, of a process that is *)
(* watched.  The pages are granted here.                                   *)
GuestReport(d, p) ==
    /\ gpc[d] = "idle" /\ p \in domList[d] /\ count[d] < MaxReports
    /\ gpc' = [gpc EXCEPT ![d] = "mkdir"]
    /\ gpid' = [gpid EXCEPT ![d] = p]
    /\ gtodo' = [gtodo EXCEPT ![d] = NPages]
    /\ count' = [count EXCEPT ![d] = @ + 1]
    /\ UNCHANGED <<asked, overlap, storeVars, eventVars, sem, cbVars, monVars, refusals, restarts>>

(* A transaction of malpage_xs_report that changes the report to r.  It    *)
(* never asks whether the last report is still there.                      *)
Put(d, r) ==
    /\ \/ Commit /\ report' = IF mayReport[d] THEN [report EXCEPT ![d] = r] ELSE report
       \/ Refuse /\ UNCHANGED report
    /\ overlap' = IF report[d].ready THEN overlap \cup {d} ELSE overlap
    /\ UNCHANGED <<up, reg, mayReport, watchDir, watchNode, gpid, count, asked,
                   watches, sem, cbVars, monVars>>

GuestMkdir(d) ==
    /\ gpc[d] = "mkdir"
    /\ Put(d, [ready |-> report[d].ready, pid |-> report[d].pid, dir |-> TRUE,
               grefs |-> report[d].grefs])
    /\ gpc' = [gpc EXCEPT ![d] = "grefs"]
    /\ UNCHANGED <<gtodo, events>>

PageLeft(d) == gtodo[d] > 0

GuestGref(d) ==
    /\ gpc[d] = "grefs" /\ PageLeft(d)
    /\ Put(d, [ready |-> report[d].ready, pid |-> report[d].pid, dir |-> TRUE,
               grefs |-> report[d].grefs \cup {<<count[d], gtodo[d]>>}])
    /\ gtodo' = [gtodo EXCEPT ![d] = @ - 1]
    /\ UNCHANGED <<gpc, events>>

(* domid, pid and ready are one transaction. *)
GuestReady(d) ==
    /\ gpc[d] = "grefs" /\ ~PageLeft(d)
    /\ Put(d, [ready |-> TRUE, pid |-> gpid[d], dir |-> report[d].dir,
               grefs |-> report[d].grefs])
    /\ gpc' = [gpc EXCEPT ![d] = "idle"]
    /\ events' = IF report'[d].ready THEN Fired("report", d) ELSE events
    /\ UNCHANGED gtodo
-----------------------------------------------------------------------------
(* The daemon: the event at the head of the queue, and its callback. *)
Handles(k, d) == /\ dpc = "wait" /\ events # <<>> /\ Head(events) = <<k, d>>
                 /\ <<k, d>> \in watches

(* xs.read_watch drops an event whose watch is gone. *)
DropEvent ==
    /\ dpc = "wait" /\ events # <<>> /\ Head(events) \notin watches
    /\ events' = Tail(events)
    /\ UNCHANGED <<storeVars, guestVars, watches, sem, cbVars, monVars, refusals, restarts>>

Ignore_Unwatches(k, d) ==
    /\ events' = Tail(events) /\ watches' = watches \ {<<k, d>>}
    /\ UNCHANGED <<storeVars, guestVars, sem, cbVars, monVars, refusals, restarts>>

(* The callback returns True, or raises with global_sem free. *)
Ignore(k, d) ==
    /\ events' = Tail(events)
    /\ UNCHANGED <<storeVars, guestVars, watches, sem, cbVars, monVars, refusals, restarts>>

(* watch_domain_up.  The watch on the register directory fires at once, as *)
(* every new watch does.                                                   *)
OnUp(d) ==
    /\ Handles("up", d) /\ up[d]
    /\ \/ Commit /\ reg' = [reg EXCEPT ![d] = "empty"]
       \/ Refuse /\ UNCHANGED reg
    /\ watches' = (watches \ {<<"up", d>>}) \cup {<<"register", d>>}
    /\ events' = Append(Tail(events), <<"register", d>>)
    /\ UNCHANGED <<up, mayReport, watchDir, watchNode, report, guestVars, sem,
                   cbVars, monVars>>

RegisterRemoved(d) == reg' = [reg EXCEPT ![d] = "absent"]
DirsMade(d) == /\ mayReport' = [mayReport EXCEPT ![d] = TRUE]
               /\ watchDir' = [watchDir EXCEPT ![d] = TRUE]

(* MONITOR_REGISTER: the domain gets an empty list of processes, and       *)
(* monitor_share_info is its.                                              *)
MonitorRegister(d) ==
    /\ shareInfo' = d
    /\ domList' = [domList EXCEPT ![d] = {}]
    /\ registered' = registered \cup {d}

(* watch_domain_register.  The watch on the domain going down is left out: *)
(* its callback raises NameError before it does a thing.                   *)
OnRegister(d) ==
    /\ Handles("register", d) /\ sem = "free" /\ reg[d] = "value"
    /\ \/ Commit /\ RegisterRemoved(d) /\ DirsMade(d)
       \/ Refuse /\ UNCHANGED reg /\ DirsMade(d)
       \/ Refuse /\ RegisterRemoved(d) /\ UNCHANGED <<mayReport, watchDir>>
    /\ MonitorRegister(d)
    /\ watches' = (watches \ {<<"register", d>>})
                     \cup {<<"report", d>>, <<"watch", d>>}
    /\ events' = Tail(events) \o << <<"report", d>>, <<"watch", d>> >>
    /\ UNCHANGED <<up, watchNode, report, guestVars, sem, cbVars, currProc,
                   mapped, judged, last, text, bad>>

OnRegisterEarly(d) ==
    /\ Handles("register", d) /\ sem = "free" /\ reg[d] # "value"
    /\ Ignore("register", d)

(* The end of a section under global_sem. *)
Release_Forgotten == UNCHANGED sem
Release == sem' = "free"

(* watch_domain_watchreport.  The first read; a missing node raises. *)
OnWatchEarly(d) ==
    /\ Handles("watch", d) /\ sem = "free" /\ watchNode[d] = NoPid
    /\ Ignore("watch", d)

OnWatch(d) ==
    /\ Handles("watch", d) /\ sem = "free" /\ watchNode[d] # NoPid
    /\ events' = Tail(events)
    /\ dpc' = "wpid" /\ ddom' = d
    /\ UNCHANGED <<storeVars, guestVars, watches, sem, dpid, dgrefs, monVars, refusals, restarts>>

WatchPid ==
    /\ dpc = "wpid"
    /\ sem' = "held" /\ dpid' = watchNode[ddom] /\ dpc' = "wrm"
    /\ UNCHANGED <<storeVars, guestVars, eventVars, ddom, dgrefs, monVars, refusals, restarts>>

(* MONITOR_WATCH. *)
MonitorWatch(d, p) ==
    domList' = IF d \in registered THEN [domList EXCEPT ![d] = @ \cup {p}] ELSE domList

(* The removal takes the guest's directory along; the ioctl adds the       *)
(* process; the callback returns False, which ends this watch.             *)
WatchRemove ==
    /\ dpc = "wrm"
    /\ \/ /\ Commit
          /\ watchDir' = [watchDir EXCEPT ![ddom] = FALSE]
          /\ watchNode' = [watchNode EXCEPT ![ddom] = NoPid]
       \/ Refuse /\ UNCHANGED <<watchDir, watchNode>>
    /\ Release
    /\ MonitorWatch(ddom, dpid)
    /\ watches' = watches \ {<<"watch", ddom>>}
    /\ dpc' = "wait" /\ ddom' = NoDom /\ dpid' = NoPid
    /\ UNCHANGED <<up, reg, mayReport, report, guestVars, events, dgrefs,
                   shareInfo, registered, currProc, mapped, judged, last, text, bad>>

(* watch_domain_report. *)
OnReportEarly(d) ==
    /\ Handles("report", d) /\ sem = "free" /\ ~report[d].ready
    /\ Ignore("report", d)

OnReport(d) ==
    /\ Handles("report", d) /\ sem = "free" /\ report[d].ready
    /\ events' = Tail(events)
    /\ dpc' = "rls" /\ ddom' = d
    /\ UNCHANGED <<storeVars, guestVars, watches, sem, dpid, dgrefs, monVars, refusals, restarts>>

(* xs.ls of the grants: without the directory the loop over its result     *)
(* raises, and global_sem stays taken.                                     *)
ReportLs ==
    /\ dpc = "rls"
    /\ sem' = "held"
    /\ IF report[ddom].dir
       THEN dgrefs' = report[ddom].grefs /\ dpc' = "rread" /\ UNCHANGED ddom
       ELSE dpc' = "wait" /\ ddom' = NoDom /\ UNCHANGED dgrefs
    /\ UNCHANGED <<storeVars, guestVars, eventVars, dpid, monVars, refusals, restarts>>

ReportRead ==
    /\ dpc = "rread"
    /\ dpid' = report[ddom].pid /\ dpc' = "rnuke"
    /\ UNCHANGED <<storeVars, guestVars, eventVars, sem, ddom, dgrefs, monVars, refusals, restarts>>

(* What is left of a report: the loop removes every node there is by now. *)
Nuked_KeepsGrefs(r) == [r EXCEPT !.ready = FALSE, !.pid = NoPid]
Nuked_KeepsReady(r) == [r EXCEPT !.dir = FALSE, !.grefs = {}]
Nuked(r) == NoReport

(* "Nuke the report".  The removal of ready fires the watch again. *)
ReportNuke ==
    /\ dpc = "rnuke"
    /\ \/ /\ Commit /\ report' = [report EXCEPT ![ddom] = Nuked(@)]
          /\ events' = Fired("report", ddom)
       \/ Refuse /\ UNCHANGED <<report, events>>
    /\ Release /\ dpc' = "rsend"
    /\ UNCHANGED <<up, reg, mayReport, watchDir, watchNode, guestVars, watches,
                   ddom, dpid, dgrefs, monVars>>

(* MONITOR_REPORT: monitor_report maps the grants one by one and keeps     *)
(* those the hypervisor did not refuse: the next page takes the place of   *)
(* one that was refused.  Those that are mapped hold what they hold.       *)
MonitorReport(grefs, pid) ==
    /\ bad' \in {b \in SUBSET grefs : Cardinality(b) <= MaxBad} /\ currProc' = pid
    /\ mapped' = grefs \ bad'
    /\ text' \in {t \in Texts : t = NoText \/ t.page \in mapped'}

ReportSend ==
    /\ dpc = "rsend"
    /\ MonitorReport(dgrefs, dpid)
    /\ dpc' = "verdict"
    /\ UNCHANGED <<storeVars, guestVars, eventVars, sem, ddom, dpid, dgrefs,
                   shareInfo, domList, registered, judged, last, refusals, restarts>>

(* MONITOR_RESUME, MONITOR_KILL: curr_proc, by way of the ring of          *)
(* monitor_share_info.                                                     *)
MonitorOp(op) ==
    /\ last' = [op |-> op, from |-> ddom, to |-> shareInfo, pid |-> currProc]
    /\ currProc' = NoPid

(* Where a page stands in vm_struct_list.  xenstore lists a directory in   *)
(* the order its nodes were made, and the guest counts its pages down.     *)
Before(g, h) == g[1] < h[1] \/ (g[1] = h[1] /\ g[2] > h[2])
Place(g) == Cardinality({h \in mapped : Before(h, g)})

(* The dump, and grep's answer. *)
Grep == IF /\ text # NoText /\ text.page \in mapped
           /\ Dumped(Place(text.page), text.at, Cardinality(mapped))
        THEN "KILL" ELSE "RESUME"

(* The list stays; nobody reads it before the next report replaces it, so  *)
(* the model forgets it.                                                   *)
Verdict ==
    /\ dpc = "verdict"
    /\ judged' = [judged EXCEPT ![ddom] = @ + 1]
    /\ MonitorOp(Grep)
    /\ dpc' = "wait" /\ ddom' = NoDom /\ dpid' = NoPid /\ dgrefs' = {}
    /\ text' = NoText /\ bad' = {} /\ mapped' = {}
    /\ UNCHANGED <<storeVars, guestVars, eventVars, sem, shareInfo, domList,
                   registered, refusals, restarts>>

(* The daemon is killed and started anew (main): its callback, its queue   *)
(* and global_sem are gone, and it knows of no domain but by the watches   *)
(* on domid, which fire at once.  The store and the monitor keep all.      *)
DaemonRestart ==
    /\ Fault /\ restarts' = restarts + 1
    /\ watches' = {"up"} \X Doms
    /\ \E s \in SetToSeqs({d \in Doms : up[d]}) :
         events' = [i \in DOMAIN s |-> <<"up", s[i]>>]
    /\ sem' = "free" /\ dpc' = "wait" /\ ddom' = NoDom /\ dpid' = NoPid /\ dgrefs' = {}
    /\ text' = NoText /\ bad' = {} /\ mapped' = {}
    /\ UNCHANGED <<storeVars, guestVars, shareInfo, domList, registered, currProc,
                   judged, last, refusals>>
-----------------------------------------------------------------------------
GuestStep(d) == \/ GuestMkdir(d) \/ GuestGref(d) \/ GuestReady(d)
CallbackStep == \/ DropEvent \/ WatchPid \/ WatchRemove
                \/ ReportLs \/ ReportRead \/ ReportNuke \/ ReportSend
                \/ Verdict
                \/ \E d \in Doms : \/ OnUp(d) \/ OnRegister(d) \/ OnRegisterEarly(d)
                                   \/ OnWatch(d) \/ OnWatchEarly(d)
                                   \/ OnReport(d) \/ OnReportEarly(d)

Next == \/ \E d \in Doms : \/ DomainUp(d) \/ GuestLoad(d) \/ GuestStep(d)
                           \/ \E p \in Pids : GuestWatch(d, p) \/ GuestReport(d, p)
        \/ CallbackStep \/ DaemonRestart

(* A report that began goes on, and the daemon's thread runs.  Nobody has  *)
(* to start a domain, to ask for a watch or to fault.                      *)
Fairness == WF_vars(CallbackStep) /\ \A d \in Doms : WF_vars(GuestStep(d))

Spec     == Init /\ [][Next]_vars
FairSpec == Spec /\ Fairness
-----------------------------------------------------------------------------
(* Properties. *)

(* Every variable keeps its type. *)
Reports == [ready : BOOLEAN, pid : Pids \cup {NoPid}, dir : BOOLEAN, grefs : SUBSET Grefs]
StoreType ==
    /\ up \in [Doms -> BOOLEAN] /\ mayReport \in [Doms -> BOOLEAN]
    /\ watchDir \in [Doms -> BOOLEAN] /\ reg \in [Doms -> {"absent", "empty", "value"}]
    /\ watchNode \in [Doms -> Pids \cup {NoPid}] /\ report \in [Doms -> Reports]
GuestType ==
    /\ gpc \in [Doms -> {"unloaded", "idle", "mkdir", "grefs"}]
    /\ gpid \in [Doms -> Pids \cup {NoPid}] /\ gtodo \in [Doms -> 0..NPages]
    /\ count \in [Doms -> 0..MaxReports]
    /\ asked \in [Doms -> SUBSET Pids] /\ overlap \subseteq Doms
CallbackType ==
    /\ watches \subseteq Kinds \X Doms /\ events \in Seq(Kinds \X Doms)
    /\ sem \in {"free", "held"}
    /\ dpc \in {"wait", "wpid", "wrm", "rls", "rread", "rnuke", "rsend", "verdict"}
    /\ ddom \in Doms \cup {NoDom} /\ dpid \in Pids \cup {NoPid} /\ dgrefs \subseteq Grefs
    /\ refusals \in 0..MaxFaults /\ restarts \in 0..MaxFaults
MonitorType ==
    /\ shareInfo \in Doms \cup {NoDom} /\ domList \in [Doms -> SUBSET Pids]
    /\ registered \subseteq Doms
    /\ currProc \in Pids \cup {NoPid} /\ mapped \subseteq Grefs
    /\ judged \in [Doms -> Nat]
    /\ text \in Texts /\ bad \subseteq Grefs
TypeOK == StoreType /\ GuestType /\ CallbackType /\ MonitorType

(* What the code relies on and nothing enforces: MALPAGE_REPORT_MIN_INTERVAL *)
(* is long enough for the daemon to remove the last report, and xenstore   *)
(* refuses no transaction.                                                 *)
Orderly == overlap = {} /\ refusals = 0

(* While that holds the daemon's thread lives: no callback raised with     *)
(* global_sem taken, which would block every later one.                    *)
DaemonLives == Orderly => (dpc = "wait" => sem = "free")

(* And the monitor scans one whole report, all its pages that the          *)
(* hypervisor would map and no others, as that of the process it will      *)
(* judge.                                                                  *)
ReportWhole ==
    (Orderly /\ dpc = "verdict") =>
        /\ \E n \in 1..MaxReports : mapped = ({n} \X (1..NPages)) \ bad
        /\ currProc \in domList[ddom]

(* No report is judged twice, however the reports overlap and although     *)
(* removing a report fires its watch again, unless a removal was refused.  *)
JudgedOnce == refusals = 0 => \A d \in Doms : judged[d] <= count[d]

(* While one domain is registered a verdict goes to the domain that        *)
(* reported; with two, monitor_share_info is that of the last one.         *)
VerdictReachesDomain ==
    (last # NoVerdict /\ Cardinality(registered) = 1) => last.to = last.from

(* What the guests get to feel of the daemon's bookkeeping. *)
VerdictsSound == TypeOK /\ JudgedOnce /\ VerdictReachesDomain

(* The inductive invariant.  Who is at work: a callback on a report is for *)
(* a domain that registered, and only it removes the report; the node of a *)
(* watch request likewise.                                                 *)
Bit(b) == IF b THEN 1 ELSE 0
Begun(d) == gpc[d] \in {"mkdir", "grefs"}
Removed(d) == ddom = d /\ dpc \in {"rsend", "verdict"}
AtWork ==
    /\ dpc # "wait" => ddom \in Doms
    /\ dpc = "wpid" => watchNode[ddom] # NoPid
    /\ dpc = "wrm" => dpid # NoPid
    /\ dpc \in {"rls", "rread", "rnuke", "rsend", "verdict"} => ddom \in registered
    /\ dpc \in {"rls", "rread", "rnuke"} => report[ddom].ready
    /\ dpc = "verdict" => mapped = dgrefs \ bad /\ currProc = dpid
Known ==
    /\ \A d \in Doms : <<"report", d>> \in watches => d \in registered
    /\ \A d \in Doms : domList[d] # {} => d \in registered
    /\ registered # {} => shareInfo \in registered
    /\ last # NoVerdict => last.from \in registered /\ last.to \in registered

(* A report counts as begun, as ready in the store, as removed from it and *)
(* as judged; and without refusals a domain registers once.                *)
Accounted(d) ==
    /\ Begun(d) => count[d] > 0
    /\ refusals = 0 => judged[d] + Bit(report[d].ready) + Bit(Removed(d)) + Bit(Begun(d))
                          <= count[d]
Enrolled(d) ==
    /\ reg[d] = "value" => gpc[d] # "unloaded" /\ d \notin registered
    /\ d \in registered => mayReport[d] /\ gpc[d] # "unloaded"
    /\ Begun(d) => gpid[d] \in domList[d]

(* And of an orderly guest, the report in the store is a part of the one   *)
(* that is being written or the whole of the one that is done.             *)
Whole(s) == \E n \in 1..MaxReports : s = {n} \X (1..NPages)
Stored(d) ==
    /\ report[d].ready => /\ report[d].dir /\ Whole(report[d].grefs)
                          /\ report[d].pid \in domList[d]
    /\ ~report[d].ready /\ gpc[d] # "grefs" => report[d].grefs = {}
    /\ gpc[d] = "mkdir" => gtodo[d] = NPages
    /\ gpc[d] = "grefs" => /\ ~report[d].ready /\ report[d].dir
                           /\ report[d].grefs = {count[d]} \X ((gtodo[d] + 1)..NPages)
Carried ==
    /\ dpc \in {"rread", "rnuke", "rsend", "verdict"} => Whole(dgrefs)
    /\ dpc \in {"rnuke", "rsend", "verdict"} => dpid \in domList[ddom]
    /\ dpc \in {"wait", "rsend", "verdict"} => sem = "free"
IInv ==
    /\ TypeOK /\ AtWork /\ Known
    /\ \A d \in Doms : Accounted(d)
    /\ refusals = 0 => \A d \in Doms : Enrolled(d)
    /\ Orderly => Carried /\ \A d \in Doms : Stored(d)

(* The verdict is grep's on the pages of the report: a process is killed   *)
(* just when a page that could be mapped holds the text, wherever it       *)
(* stands and whatever pages were refused, except for the bytes between    *)
(* the daemon's first two reads in the first page of the list.             *)
TextFound ==
    [][dpc = "verdict" /\ judged' # judged =>
         (last'.op = "KILL" <=>
            /\ text # NoText /\ text.page \in mapped
            /\ \/ text.at \notin Chunk..(2 * Chunk - 1)
               \/ \E h \in mapped : Before(h, text.page))]_vars

(* A registration that the daemon watches for is served, and the domain's  *)
(* reports are watched from then on, unless the daemon is started anew in  *)
(* between: then the directory is emptied and the guest, which writes only *)
(* once, is lost.  A guest that loads after a restart is served.           *)
RegistrationServed ==
    \A d \in Doms : \A n \in 0..MaxFaults :
        (reg[d] = "value" /\ <<"register", d>> \in watches /\ restarts = n)
            ~> \/ d \in registered /\ <<"report", d>> \in watches
               \/ ~Orderly \/ restarts > n

(* The first watch request of a domain is honoured. *)
FirstWatchHonoured ==
    \A d \in Doms :
        (watchNode[d] # NoPid) ~> (domList[d] # {} \/ ~Orderly \/ restarts > 0)

(* Both directories a guest's driver writes into are answered. *)
RequestsServed == RegistrationServed /\ FirstWatchHonoured

(* Every report of an orderly guest is judged, if no restart comes between. *)
ReportJudged ==
    \A d \in Doms : \A n \in 1..MaxReports :
        (report[d].ready /\ count[d] = n) ~> (judged[d] >= n \/ ~Orderly \/ restarts > 0)
=============================================================================
