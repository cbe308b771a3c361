------------------------------ MODULE HyQueue ------------------------------
(***************************************************************************)
(* The blocking queue of src/linux/thread/queue.c, as its users see it:    *)
(* state, and one operator per critical section of its functions.          *)
(* Everything but HyQueueWakeup runs under the one mutex, waits included,  *)
(* so a critical section is one step.  Users always move items of one      *)
(* size, a power of two, so positions count items and no item wraps.       *)
(*                                                                         *)
(* A thread that blocks is in notEmpty or notFull; a signal takes one out, *)
(* whose next step is to reacquire the mutex.                              *)
(***************************************************************************)
EXTENDS Naturals, Sequences

CONSTANTS
    QueueCapacity,  \* save_c.capacity, in items
    ItemSize,       \* bytes per item
    NoItem          \* what a fresh slot holds

ASSUME QueueAssumption == QueueCapacity \in Nat \ {0} /\ ItemSize \in Nat \ {0}

VARIABLES
    ring,               \* buf
    len,                \* items in the queue
    readPos, writePos,
    notEmpty, notFull   \* the threads waiting on either condition variable

queueVars == <<ring, len, readPos, writePos, notEmpty, notFull>>

QueueInit ==
    /\ ring = [i \in 0 .. QueueCapacity - 1 |-> NoItem]
    /\ len = 0 /\ readPos = 0 /\ writePos = 0
    /\ notEmpty = {} /\ notFull = {}

Advance(pos) == (pos + 1) % QueueCapacity

(* A signal lets one waiter go, if there is one.                           *)
Released(waiting) == IF waiting = {} THEN {{}} ELSE {waiting \ {t} : t \in waiting}

(* HyQueueRead and HyQueueRemove past their wait, and HyQueueReadPeek.     *)
Front == ring[readPos]

(* Mutation: reading forgets to make room in the count.                    *)
TakeFront_NoCount ==
    /\ len > 0
    /\ readPos' = Advance(readPos)
    /\ notFull' \in Released(notFull)
    /\ UNCHANGED <<ring, writePos, notEmpty, len>>

TakeFront ==
    /\ len > 0
    /\ readPos' = Advance(readPos)
    /\ len' = len - 1
    /\ notFull' \in Released(notFull)
    /\ UNCHANGED <<ring, writePos, notEmpty>>

BlockOnEmpty(t) ==
    /\ len = 0
    /\ notEmpty' = notEmpty \cup {t}
    /\ UNCHANGED <<ring, len, readPos, writePos, notFull>>

(* Mutation: the write position is left where it was.                      *)
PutBack_NoAdvance(x) ==
    /\ len < QueueCapacity
    /\ ring' = [ring EXCEPT ![writePos] = x]
    /\ len' = len + 1
    /\ notEmpty' \in Released(notEmpty)
    /\ UNCHANGED <<readPos, writePos, notFull>>

(* HyQueueWrite.                                                           *)
PutBack(x) ==
    /\ len < QueueCapacity
    /\ ring' = [ring EXCEPT ![writePos] = x]
    /\ writePos' = Advance(writePos)
    /\ len' = len + 1
    /\ notEmpty' \in Released(notEmpty)
    /\ UNCHANGED <<readPos, notFull>>

BlockOnFull(t) ==
    /\ len = QueueCapacity
    /\ notFull' = notFull \cup {t}
    /\ UNCHANGED <<ring, len, readPos, writePos, notEmpty>>

(* HyQueueWakeup signals without the mutex and without changing the queue. *)
Wakeup ==
    /\ notEmpty' \in Released(notEmpty)
    /\ UNCHANGED <<ring, len, readPos, writePos, notFull>>

(* A wait that ends without a signal.                                      *)
WaitEndsSpuriously(t) ==
    /\ t \in notEmpty \cup notFull
    /\ notEmpty' = notEmpty \ {t}
    /\ notFull' = notFull \ {t}
    /\ UNCHANGED <<ring, len, readPos, writePos>>

LenInBytes == ItemSize * len

QueueContents == [k \in 1 .. len |-> ring[(readPos + k - 1) % QueueCapacity]]

QueueTypeOK(Threads, Items) ==
    /\ ring \in [0 .. QueueCapacity - 1 -> Items \cup {NoItem}]
    /\ len \in 0 .. QueueCapacity
    /\ readPos \in 0 .. QueueCapacity - 1 /\ writePos \in 0 .. QueueCapacity - 1
    /\ notEmpty \subseteq Threads /\ notFull \subseteq Threads
=============================================================================
