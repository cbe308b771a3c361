------------------------------ MODULE FifoRing ------------------------------
(***************************************************************************)
(* The ring under the byte fifos of the library (hy_fifo.c, hy_fifo_lock.c *)
(* and hy_fifo_lock_discard.c hold the same code): two unsigned 32-bit     *)
(* counters that only grow, until they wrap, and a buffer whose size       *)
(* divides 2^32.                                                           *)
(***************************************************************************)
EXTENDS Integers, Sequences

CONSTANTS
    Capacity,       \* save_c.capacity after rounding up to a power of two
    Modulus         \* 2^32, the range of in and out, scaled down

(* The ring position is in & (capacity - 1): capacity divides 2^32.        *)
ASSUME SizeAssumption ==
    /\ Capacity \in Nat \ {0}
    /\ Modulus \in Nat /\ Capacity < Modulus /\ Modulus % Capacity = 0

VARIABLES
    in, out,        \* the write and the read counter
    buf             \* the bytes

Slots == 0 .. Capacity - 1

RingInit ==
    /\ in = 0 /\ out = 0
    /\ buf = [i \in Slots |-> 0]

(* Reset clears the bytes, too.                                            *)
RingReset ==
    /\ in' = 0 /\ out' = 0
    /\ buf' = [i \in Slots |-> 0]

(* Unsigned addition and subtraction, and the position of a counter.       *)
U32(x) == IF x >= Modulus THEN x - Modulus ELSE IF x < 0 THEN x + Modulus ELSE x
Used   == U32(in - out)
Free   == U32(Capacity - Used)
Pos(x) == x % Capacity
Lesser(a, b) == IF a < b THEN a ELSE b

(* Mutation: the write forgets the part that wraps to the ring's start.    *)
CopyIn_OnePart(p) ==
    [i \in Slots |-> IF Pos(in) <= i /\ i < Pos(in) + Len(p) THEN p[i - Pos(in) + 1]
                     ELSE buf[i]]

(* The two memcpy of a write, and of a read: up to the end of the ring,    *)
(* then from its start.                                                    *)
CopyIn(p) ==
    LET pos == Pos(in)
        l   == Lesser(Len(p), Capacity - pos)
    IN  [i \in Slots |-> IF i < Len(p) - l THEN p[l + i + 1]
                         ELSE IF pos <= i /\ i < pos + l THEN p[i - pos + 1]
                         ELSE buf[i]]

(* Mutation: the second memcpy reads on after the ring's end instead.      *)
CopyOut_OnePart(ring, n) ==
    [k \in 1 .. n |-> ring[Lesser(Pos(out) + k - 1, Capacity - 1)]]

CopyOut(ring, n) ==
    LET pos == Pos(out)
        l   == Lesser(n, Capacity - pos)
    IN  [k \in 1 .. n |-> IF k <= l THEN ring[pos + k - 1] ELSE ring[k - l - 1]]

(* The slots of n bytes from a counter on, and the bytes in the ring.      *)
SlotsFrom(counter, n) == {Pos(counter + k) : k \in 0 .. n - 1}
Contents == [k \in 1 .. Used |-> buf[Pos(out + k - 1)]]

RingTypeOK ==
    /\ in \in 0 .. Modulus - 1 /\ out \in 0 .. Modulus - 1
    /\ buf \in [Slots -> Nat]
=============================================================================
