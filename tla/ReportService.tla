--------------------------- MODULE ReportService ---------------------------
(***************************************************************************)
(* What the domU driver promises of its report path, whatever the threads  *)
(* and interrupts behind it: report requests are served one at a time, in  *)
(* the order in which they were accepted, and none is lost or invented.    *)
(* ReportQueue.tla (malpage.c) is shown to implement it.                   *)
(***************************************************************************)
EXTENDS Sequences

CONSTANTS Pids,    \* process ids of the guest
          NoPid    \* "no process is being reported"

VARIABLES waiting,   \* accepted and not yet taken up, oldest first
          current    \* the process being reported, or NoPid

vars == <<waiting, current>>

Init == waiting = <<>> /\ current = NoPid

(* A report request is accepted. *)
Accept(p) == waiting' = Append(waiting, p) /\ UNCHANGED current

(* The oldest request is taken up, only when no other one is being served. *)
TakeUp ==
    /\ waiting # <<>>
    /\ current = NoPid
    /\ current' = Head(waiting)
    /\ waiting' = Tail(waiting)

(* The report that was being made is done with. *)
Finish == current # NoPid /\ current' = NoPid /\ UNCHANGED waiting

Next == (\E p \in Pids : Accept(p)) \/ TakeUp \/ Finish

Spec == Init /\ [][Next]_vars
=============================================================================
