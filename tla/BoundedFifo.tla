---------------------------- MODULE BoundedFifo ----------------------------
(***************************************************************************)
(* What a byte fifo of this library promises its callers, without          *)
(* threads' program counters, locks, ring positions or 32-bit counters: a  *)
(* sequence of at most Capacity bytes to which a write appends a whole     *)
(* payload at once, and from which a read, a peek or a delete takes,       *)
(* copies or drops a whole prefix at once.  The fifo modules are shown to  *)
(* implement it under refinement mappings of their own.                    *)
(***************************************************************************)
EXTENDS Naturals, Sequences

CONSTANTS
    Capacity,   \* the fifo's size in bytes
    Payloads,   \* the byte sequences a write may pass
    Lens,       \* the lengths a read, a peek or a delete may ask for
    Readers     \* the threads that take bytes out

VARIABLES
    queue,      \* the bytes in the fifo, oldest first
    result,     \* what the call a reader is returning from delivered
    closed      \* HyFifo...Destroy has begun: nothing is promised any more

vars == <<queue, result, closed>>

Init ==
    /\ queue = <<>>
    /\ result = [r \in Readers |-> <<>>]
    /\ closed = FALSE

Prefix(s, n) == SubSeq(s, 1, n)
Rest(s, n)   == SubSeq(s, n + 1, Len(s))

Put(p) ==
    /\ Len(queue) + Len(p) <= Capacity
    /\ queue' = queue \o p
    /\ UNCHANGED <<result, closed>>

Get(r, n) ==
    /\ n <= Len(queue)
    /\ queue' = Rest(queue, n)
    /\ result' = [result EXCEPT ![r] = Prefix(queue, n)]
    /\ UNCHANGED closed

Peek(r, n) ==
    /\ n <= Len(queue)
    /\ result' = [result EXCEPT ![r] = Prefix(queue, n)]
    /\ UNCHANGED <<queue, closed>>

Drop(n) ==
    /\ n <= Len(queue)
    /\ queue' = Rest(queue, n)
    /\ UNCHANGED <<result, closed>>

Return(r) ==
    /\ result' = [result EXCEPT ![r] = <<>>]
    /\ UNCHANGED <<queue, closed>>

Clear ==
    /\ queue' = <<>>
    /\ UNCHANGED <<result, closed>>

Close ==
    /\ closed' = TRUE
    /\ queue' = <<>>
    /\ result' = [r \in Readers |-> <<>>]

Next ==
    /\ ~closed
    /\ \/ \E p \in Payloads : Put(p)
       \/ \E r \in Readers, n \in Lens : Get(r, n) \/ Peek(r, n)
       \/ \E n \in Lens : Drop(n)
       \/ \E r \in Readers : Return(r)
       \/ Clear
       \/ Close

Spec == Init /\ [][Next]_vars
=============================================================================
