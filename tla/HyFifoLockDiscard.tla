-------------------------- MODULE HyFifoLockDiscard --------------------------
(***************************************************************************)
(* The discarding fifo, src/linux/fifo/hy_fifo_lock_discard.c: a write     *)
(* never waits, it pushes the oldest bytes out.  A writer is alone under   *)
(* full_mutex and a reader under empty_mutex, so there is one of each; but *)
(* both store the read counter and neither has the other's mutex.  Each    *)
(* load and each store of `out' is a step of its own: a reader loads it    *)
(* once for where its bytes are cut in two and once for where they are.    *)
(* It copies byte by byte while the writer may overwrite them.             *)
(*                                                                         *)
(* The bytes are numbered in the order they are written; Outside stands    *)
(* for whatever lies behind the buffer.                                    *)
(***************************************************************************)
EXTENDS FifoRing

CONSTANTS
    WriteLens, ReadLens,    \* lengths passed; at most the capacity
    MaxBytes                \* bound: bytes written in one behaviour

VARIABLES
    sent,           \* bytes written since Create or Reset
    writer,         \* the writer: where it is and the length it writes
    reader,         \* the reader: where it is, its call and length; `out' as
                    \* loaded for the length of its first part, that length,
                    \* `out' as loaded for its place and for adding to it;
                    \* the first byte it is due, those it got
    fifoEnd         \* Destroy: "run", "exit", "told", "freed"

discardVars == <<in, out, buf, sent, writer, reader, fifoEnd>>

Idle == [pc |-> "idle", op |-> "read", n |-> 0, first |-> 0, part |-> 0, from |-> 0,
         old |-> 0, due |-> 0, got |-> <<>>]
Outside == 0

(* Create sets the counters just below the end of their range, so that     *)
(* they wrap early.                                                        *)
DiscardInit ==
    /\ in = Modulus - 3 /\ out = in
    /\ buf = [i \in Slots |-> 0]
    /\ sent = 0 /\ fifoEnd = "run"
    /\ writer = [pc |-> "idle", n |-> 0]
    /\ reader = Idle

-----------------------------------------------------------------------------
(* HyFifoLockDiscardWrite.  What it signals may be lost, since it does not *)
(* hold the readers' mutex; a reader that waits looks again with the next. *)
WriteCopy(n) ==
    /\ writer.pc = "idle" /\ fifoEnd = "run" /\ sent + n <= MaxBytes
    /\ buf' = CopyIn([k \in 1 .. n |-> sent + k])
    /\ writer' = [pc |-> "advance", n |-> n]
    /\ UNCHANGED <<in, out, sent, reader, fifoEnd>>

WriteAdvance ==
    /\ writer.pc = "advance"
    /\ in' = U32(in + writer.n) /\ sent' = sent + writer.n
    /\ writer' = [writer EXCEPT !.pc = "test"]
    /\ UNCHANGED <<out, buf, reader, fifoEnd>>

WriteTest ==
    /\ writer.pc = "test"
    /\ writer' = [writer EXCEPT !.pc = IF Used >= Capacity THEN "discard" ELSE "signal"]
    /\ UNCHANGED <<in, out, buf, sent, reader, fifoEnd>>

WriteDiscard ==
    /\ writer.pc = "discard"
    /\ out' = U32(in - Capacity)
    /\ writer' = [writer EXCEPT !.pc = "signal"]
    /\ UNCHANGED <<in, buf, sent, reader, fifoEnd>>

WriteSignal ==
    /\ writer.pc = "signal"
    /\ writer' = [pc |-> "idle", n |-> 0]
    /\ reader' \in {reader, IF reader.pc = "wait" THEN [reader EXCEPT !.pc = "woken"] ELSE reader}
    /\ UNCHANGED <<in, out, buf, sent, fifoEnd>>

-----------------------------------------------------------------------------
(* HyFifoLockDiscardReadPeek, -Read and -ReadDel.                          *)
ReadCall(op, n) ==
    /\ reader.pc = "idle" /\ fifoEnd = "run"
    /\ reader' = [Idle EXCEPT !.pc = "test", !.op = op, !.n = n]
    /\ UNCHANGED <<in, out, buf, sent, writer, fifoEnd>>

(* Mutation: one byte too few is enough.                                   *)
ReadTest_OffByOne ==
    /\ reader.pc = "test"
    /\ reader' = [reader EXCEPT !.pc = IF reader.n > Used + 1 THEN "wait"
                                       ELSE IF reader.op = "del" THEN "load" ELSE "part"]
    /\ UNCHANGED <<in, out, buf, sent, writer, fifoEnd>>

ReadTest ==
    /\ reader.pc = "test"
    /\ reader' = [reader EXCEPT !.pc = IF reader.n > Used THEN "wait"
                                       ELSE IF reader.op = "del" THEN "load" ELSE "part"]
    /\ UNCHANGED <<in, out, buf, sent, writer, fifoEnd>>

(* How much of it lies before the end of the buffer, and, by another load, *)
(* where it starts: a discard may come between.                            *)
ReadPart ==
    /\ reader.pc = "part"
    /\ reader' = [reader EXCEPT !.pc = "place", !.first = out, !.due = sent - Used + 1,
                                !.part = Lesser(reader.n, Capacity - Pos(out))]
    /\ UNCHANGED <<in, out, buf, sent, writer, fifoEnd>>

ReadPlace ==
    /\ reader.pc = "place"
    /\ reader' = [reader EXCEPT !.pc = "copy", !.from = out,
                                !.due = Lesser(reader.due, sent - Used + 1)]
    /\ UNCHANGED <<in, out, buf, sent, writer, fifoEnd>>

(* The byte the two memcpy put at k + 1: the first goes on from the place, *)
(* though the buffer ends, and the second starts at the buffer's start.    *)
ByteAt(k) ==
    IF k >= reader.part THEN buf[k - reader.part]
    ELSE IF Pos(reader.from) + k < Capacity THEN buf[Pos(reader.from) + k] ELSE Outside

ReadCopy ==
    /\ reader.pc = "copy"
    /\ LET got == Append(reader.got, ByteAt(Len(reader.got)))
       IN  reader' = [reader EXCEPT !.got = got,
                                    !.pc = IF Len(got) < reader.n THEN "copy"
                                           ELSE IF reader.op = "peek" THEN "idle" ELSE "load"]
    /\ UNCHANGED <<in, out, buf, sent, writer, fifoEnd>>

(* out += len: the load, and the store.                                    *)
ReadLoad ==
    /\ reader.pc = "load"
    /\ reader' = [reader EXCEPT !.pc = "store", !.old = out]
    /\ UNCHANGED <<in, out, buf, sent, writer, fifoEnd>>

ReadStore ==
    /\ reader.pc = "store"
    /\ out' = U32(reader.old + reader.n)
    /\ reader' = Idle
    /\ UNCHANGED <<in, buf, sent, writer, fifoEnd>>

(* A reader woken while Destroy is under way leaves with nothing.          *)
ReadWoken ==
    /\ reader.pc = "woken" \/ (reader.pc = "wait" /\ fifoEnd = "told")
    /\ reader' = IF fifoEnd = "run" THEN [reader EXCEPT !.pc = "test"] ELSE Idle
    /\ UNCHANGED <<in, out, buf, sent, writer, fifoEnd>>

(* Both mutexes: nobody is inside, but a reader may wait.                  *)
Reset ==
    /\ fifoEnd = "run" /\ writer.pc = "idle" /\ reader.pc \in {"idle", "wait", "woken"}
    /\ RingReset
    /\ sent' = 0
    /\ UNCHANGED <<writer, reader, fifoEnd>>

(* HyFifoLockDiscardDestroy, its two sleeps long enough for every call to  *)
(* come to rest and for a reader that waits to leave.                      *)
DiscardDestroy ==
    /\ \/ fifoEnd = "run" /\ fifoEnd' = "exit"
       \/ fifoEnd = "exit" /\ writer.pc = "idle" /\ reader.pc \in {"idle", "wait"} /\ fifoEnd' = "told"
       \/ fifoEnd = "told" /\ reader.pc = "idle" /\ fifoEnd' = "freed"
    /\ UNCHANGED <<in, out, buf, sent, writer, reader>>

DiscardNext ==
    \/ \E n \in WriteLens : WriteCopy(n)
    \/ WriteAdvance \/ WriteTest \/ WriteDiscard \/ WriteSignal
    \/ \E n \in ReadLens, op \in {"peek", "read", "del"} : ReadCall(op, n)
    \/ ReadTest \/ ReadPart \/ ReadPlace \/ ReadCopy \/ ReadLoad \/ ReadStore \/ ReadWoken
    \/ Reset \/ DiscardDestroy

-----------------------------------------------------------------------------
(* Although both sides store the read counter and either store may undo    *)
(* the other's, it never passes the write counter nor goes back before the *)
(* first byte; and no byte a reader gets is older than its place counted   *)
(* from the older of the two positions it loaded, however far the writer   *)
(* overtakes it.  A reader whose two loads differ may get bytes from       *)
(* behind the buffer instead, and no other reader does.                    *)
ReadsAreFresh ==
    /\ Used <= sent
    /\ \A k \in DOMAIN reader.got :
        \/ reader.got[k] >= reader.due + k - 1
        \/ reader.got[k] = Outside /\ reader.first # reader.from
=============================================================================
