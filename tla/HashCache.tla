----------------------------- MODULE HashCache -----------------------------
(***************************************************************************)
(* The scanning service's client (dom0/service_interface): every client    *)
(* first asks a hash table shared on its machine whether a process's page  *)
(* is known, ships the process to the remote scanner if not, makes room in *)
(* the table and adds the verdict.                                         *)
(*                                                                         *)
(* The table is a Pyro SynchronizedObjBase: each of its methods is one     *)
(* atomic step, but the clients' calls interleave.  A page stands for what *)
(* searchHashList compares: the hash key, id1 and id2.                     *)
(***************************************************************************)
EXTENDS Integers, Sequences, FiniteSets

CONSTANTS Clients,     \* processes that call monitorSubmitHash
          Pages,       \* page identities
          MaxSize,     \* LOCAL_HASH_TABLE_MAX_SIZE
          MaxRepeats,  \* REPEATS_IF_CONN_DENIED, capped by arg1
          MaxPages     \* bound: pages of one process

ASSUME ClientsAssumption == IsFiniteSet(Clients)
ASSUME SizeAssumption    == MaxSize \in Nat \ {0}
ASSUME RepeatsAssumption == MaxRepeats \in Nat
ASSUME MaxPagesAssumption == MaxPages \in Nat

VARIABLES table,     \* LocalHashTableList, oldest entry first
          pc,        \* where a client is in monitorSubmitHash
          pages,     \* processData[0] of the call
          repeats,   \* tries left
          result     \* the client's result

hcVars == <<table, pc, pages, repeats, result>>

Verdicts == {"g", "b", "0"}     \* "0": the remote scanner has no answer yet
Entry    == [page : Pages, status : Verdicts]
PageLists == UNION {[1..n -> Pages] : n \in 0..MaxPages}

HCInit ==
    /\ table = <<>>
    /\ pc = [c \in Clients |-> "idle"]
    /\ pages = [c \in Clients |-> <<>>]
    /\ repeats = [c \in Clients |-> 0]
    /\ result = [c \in Clients |-> "0"]
-----------------------------------------------------------------------------
(* ClientSideHashTableClass. *)

(* searchHashList: an entry matches. *)
Cached(p) == \E i \in 1..Len(table) : table[i].page = p

(* The names with an underscore are the same code with a plausible slip in *)
(* it; the specification does not use them.                                *)
CleanUp_Late == IF Len(table) > MaxSize THEN Tail(table) ELSE table
CleanUp_Newest ==
    IF Len(table) >= MaxSize THEN SubSeq(table, 1, Len(table) - 1) ELSE table

(* masterCleanUp and cleanup: drop the oldest entry of a full table. *)
CleanUp == IF Len(table) >= MaxSize THEN Tail(table) ELSE table

Added_Unchecked(p, s) == Append(table, [page |-> p, status |-> s])
Added_Replacing(p, s) ==
    IF Cached(p)
    THEN [i \in 1..Len(table) |-> IF table[i].page = p
                                  THEN [page |-> p, status |-> s]
                                  ELSE table[i]]
    ELSE Append(table, [page |-> p, status |-> s])

(* appendList: looks again before it appends. *)
Added(p, s) ==
    IF Cached(p) THEN table ELSE Append(table, [page |-> p, status |-> s])
-----------------------------------------------------------------------------
(* monitorSubmitHash. *)
LastPage(c) == pages[c][Len(pages[c])]

(* The call ends, by a return or an exception; its locals are gone. *)
Return(c) ==
    /\ pc' = [pc EXCEPT ![c] = "idle"]
    /\ pages' = [pages EXCEPT ![c] = <<>>]
    /\ repeats' = [repeats EXCEPT ![c] = 0]
    /\ result' = [result EXCEPT ![c] = "0"]

(* A call that has found the table's proxy.  With no pages the loop does   *)
(* not run and n < 0 says "g": no step.                                    *)
Call(c) ==
    /\ pc[c] = "idle"
    /\ \E ps \in PageLists \ {<<>>} : pages' = [pages EXCEPT ![c] = ps]
    /\ pc' = [pc EXCEPT ![c] = "search"]
    /\ UNCHANGED <<table, repeats, result>>

(* The loop over the pages returns the status on a hit of the last page    *)
(* and breaks on a miss of it: it never looks at another page.             *)
Search(c) ==
    /\ pc[c] = "search"
    /\ IF Cached(LastPage(c))
       THEN Return(c)
       ELSE /\ pc' = [pc EXCEPT ![c] = "submit"]
            /\ repeats' = [repeats EXCEPT ![c] = MaxRepeats]
            /\ UNCHANGED <<pages, result>>
    /\ UNCHANGED table

TriesLeft_NotCounted(c) == repeats[c]
TriesLeft(c) == repeats[c] - 1

AskAgain(c, r) == r = "0" /\ TriesLeft(c) >= 0

(* An answer of the remote scanner: "0" is asked again while tries last. *)
Answer(c, r) ==
    /\ pc[c] \in {"submit", "denied"}
    /\ repeats' = [repeats EXCEPT ![c] = TriesLeft(c)]
    /\ result' = [result EXCEPT ![c] = r]
    /\ pc' = [pc EXCEPT ![c] = IF AskAgain(c, r)
                               THEN "submit" ELSE "clean"]
    /\ UNCHANGED <<table, pages>>

(* ConnectionDeniedError: once is caught, and asked again after a sleep; a *)
(* second one, outside the try, ends the call.                             *)
Denied(c) ==
    /\ \/ /\ pc[c] = "submit" /\ pc' = [pc EXCEPT ![c] = "denied"]
          /\ UNCHANGED <<pages, repeats, result>>
       \/ pc[c] = "denied" /\ Return(c)
    /\ UNCHANGED table

Clean(c) ==
    /\ pc[c] = "clean"
    /\ table' = CleanUp
    /\ pc' = [pc EXCEPT ![c] = "append"]
    /\ UNCHANGED <<pages, repeats, result>>

AddAndReturn(c) ==
    /\ pc[c] = "append"
    /\ table' = Added(LastPage(c), result[c])
    /\ Return(c)
-----------------------------------------------------------------------------
HCNext == \E c \in Clients : \/ Call(c) \/ Search(c) \/ Denied(c) \/ Clean(c)
                             \/ AddAndReturn(c)
                             \/ \E r \in Verdicts : Answer(c, r)

HCSpec == HCInit /\ [][HCNext]_hcVars

(* A client in a call goes on; the remote scanner answers or refuses. *)
HCFairness == \A c \in Clients :
    WF_hcVars(\/ Search(c) \/ Denied(c) \/ Clean(c) \/ AddAndReturn(c)
              \/ \E r \in Verdicts : Answer(c, r))
HCFairSpec == HCSpec /\ HCFairness
-----------------------------------------------------------------------------
(* Properties. *)

(* Every variable keeps its type. *)
HCTypeOK ==
    /\ table \in Seq(Entry)
    /\ pc \in [Clients -> {"idle", "search", "submit", "denied", "clean", "append"}]
    /\ pages \in [Clients -> Seq(Pages)]
    /\ repeats \in [Clients -> -1..MaxRepeats]
    /\ result \in [Clients -> Verdicts]

(* No page has two entries, although two clients may both miss it, both    *)
(* ask the scanner and both come to add it (appendList looks again).       *)
NoDuplicates ==
    \A i, j \in 1..Len(table) : table[i].page = table[j].page => i = j

(* Making room and adding are two calls: clients between them may take the *)
(* table past MaxSize, by one less than their number and never further.    *)
Adding == {c \in Clients : pc[c] = "append"}
OvershootBounded ==
    Len(table) + Cardinality(Adding) <= MaxSize - 1 + Cardinality(Clients)

(* What other clients may rely on when they search the table. *)
TableSound == NoDuplicates /\ OvershootBounded

(* A client in a call has a page to ask about, and one that asks the       *)
(* scanner a try left.                                                     *)
HasPages == \A c \in Clients : pc[c] # "idle" => pages[c] # <<>>
HasTries == \A c \in Clients : pc[c] \in {"submit", "denied"} => repeats[c] >= 0

(* The inductive invariant. *)
HCInv == HCTypeOK /\ HasPages /\ HasTries /\ NoDuplicates /\ OvershootBounded

(* A cached verdict never changes while its page stays cached: of two      *)
(* scans of one page the first one added counts.                           *)
VerdictStable ==
    [][\A i \in 1..Len(table), j \in 1..Len(table') :
          table[i].page = table'[j].page => table[i] = table'[j]]_hcVars

(* The table forgets its oldest entry first, one at a time. *)
ForgetsOldest ==
    [][\A i \in 2..Len(table) :
          \E j \in 1..Len(table') : table'[j] = table[i]]_hcVars

(* A verdict once given stays, until it is the oldest. *)
EntriesKept == VerdictStable /\ ForgetsOldest

(* Every call ends, however often the scanner refuses or has no answer. *)
CallsEnd == \A c \in Clients : (pc[c] # "idle") ~> (pc[c] = "idle")
=============================================================================
