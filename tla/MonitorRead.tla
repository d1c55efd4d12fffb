----------------------------- MODULE MonitorRead -----------------------------
(***************************************************************************)
(* What of a report the dom0 side gets to see: monitor_read (monitor.c)    *)
(* copies from the pages in vm_struct_list, and the daemon                 *)
(* (dom0/python_server/main.py) dumps the device in chunks through stdio,  *)
(* which asks the device for aligned blocks.  Bytes have their real        *)
(* numbers; the list has n pages, 0 .. n - 1, those that could be mapped.  *)
(***************************************************************************)
EXTENDS Integers

PAGE_SIZE == 4096
MONITOR_VMSTRUCT_SIZE == 2 * PAGE_SIZE

(* Slip: the block after the offset's. *)
FirstIndex_Next(off) == off \div MONITOR_VMSTRUCT_SIZE + 1

(* The index monitor_read starts at: the offset, rounded up. *)
FirstIndex(off) == (off + MONITOR_VMSTRUCT_SIZE - 1) \div MONITOR_VMSTRUCT_SIZE

(* The copies one monitor_read makes: from which page, how many bytes.  A  *)
(* copy of more than a page runs into the guard page behind it.            *)
Copies(off, count, n) ==
    LET i    == FirstIndex(off)
        room == (n - i) * MONITOR_VMSTRUCT_SIZE
        left == IF count > room THEN room ELSE count
        size(k) == IF left - k * MONITOR_VMSTRUCT_SIZE > PAGE_SIZE
                   THEN PAGE_SIZE ELSE left - k * MONITOR_VMSTRUCT_SIZE
    IN IF off > n * MONITOR_VMSTRUCT_SIZE THEN <<>>
       ELSE [k \in 1..((left + MONITOR_VMSTRUCT_SIZE - 1) \div MONITOR_VMSTRUCT_SIZE) |->
               [page |-> i + k - 1, bytes |-> size(k - 1)]]

(* stdio's b-th block: the page its bytes are of.  An empty answer is the  *)
(* end of the file.                                                        *)
Block(b, n) == Copies(b * PAGE_SIZE, PAGE_SIZE, n)
Delivered(b, n) == Block(b, n) # <<>> /\ Block(b, n)[1].bytes > 0

(* The daemon's reads: the first at 0, and before every other one a seek   *)
(* one chunk too far.                                                      *)
Chunk == 1096
ReadAt(k) == IF k = 0 THEN 0 ELSE Chunk + k * Chunk
InSomeChunk(f) == \E k \in 0..(f \div Chunk) : ReadAt(k) <= f /\ f < ReadAt(k) + Chunk

(* Byte o of page p reaches the dump: by way of some block, none before it *)
(* having ended the loop.                                                  *)
Dumped(p, o, n) ==
    \E b \in 0..(2 * n) :
        /\ \A a \in 0..b : Delivered(a, n)
        /\ Block(b, n)[1].page = p
        /\ InSomeChunk(b * PAGE_SIZE + o)
=============================================================================
