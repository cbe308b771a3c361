------------------------------- MODULE HyFifo -------------------------------
(***************************************************************************)
(* The lock-free byte fifo of src/hy_fifo.c, for one producer and one      *)
(* consumer: the producer alone moves `in', the consumer alone moves       *)
(* `out', each reads the other's counter at any time.  Nothing blocks: a   *)
(* write stores what fits, a read returns what is there, and a call that   *)
(* would move nothing returns at once (no action here).                    *)
(*                                                                         *)
(* A full barrier stands between either memcpy and the counter's update,   *)
(* so the other side sees them in that order.  No barrier stands between   *)
(* the consumer's load of `in' and its loads of the bytes: where the       *)
(* processor reorders loads (the ARM targets of build-script/) the bytes   *)
(* may have been loaded first.                                             *)
(***************************************************************************)
EXTENDS FifoRing

CONSTANTS
    Payloads,       \* byte sequences the producer may pass
    Lens,           \* lengths the consumer may ask for
    LoadsReordered, \* a later load may be served before an earlier one
    ResetAnytime    \* HyFifoReset may run while the other side is in a call

ASSUME CallAssumption ==
    /\ \A p \in Payloads : p \in Seq(Nat) /\ Len(p) < Modulus
    /\ Lens \subseteq 0 .. Modulus - 1

VARIABLES
    isExit, freed,  \* Destroy has begun; it has freed the handle
    wpc, rpc,       \* where the producer and the consumer are
    arg,            \* what of the payload the current write stores
    op, want, dst,  \* the consumer's call, its length, the caller's buffer
    early           \* the ring as the consumer loaded it ahead of `in'

wvars == <<wpc, arg>>
rvars == <<rpc, op, want, dst, early>>
vars  == <<in, out, buf, isExit, freed, wvars, rvars>>

NotEarly == <<>>

-----------------------------------------------------------------------------
Init ==
    /\ RingInit
    /\ isExit = FALSE /\ freed = FALSE
    /\ wpc = "idle" /\ arg = <<>>
    /\ rpc = "idle" /\ op = "read" /\ want = 0 /\ dst = <<>> /\ early = NotEarly

-----------------------------------------------------------------------------
(* HyFifoWrite: one look at the free length, which truncates the payload.  *)

(* Mutation: the free length is taken of the capacity plus one.            *)
WriteTest_OffByOne ==
    /\ wpc = "idle" /\ ~isExit
    /\ \E p \in Payloads :
          LET n == Lesser(Len(p), Free + 1)
          IN  n > 0 /\ arg' = SubSeq(p, 1, n)
    /\ wpc' = "copy"
    /\ UNCHANGED <<in, out, buf, isExit, freed, rvars>>

WriteTest ==
    /\ wpc = "idle" /\ ~isExit
    /\ \E p \in Payloads :
          LET n == Lesser(Len(p), Free)
          IN  n > 0 /\ arg' = SubSeq(p, 1, n)
    /\ wpc' = "copy"
    /\ UNCHANGED <<in, out, buf, isExit, freed, rvars>>

WriteCopy ==
    /\ wpc = "copy" /\ ~freed
    /\ buf' = CopyIn(arg)
    /\ wpc' = "commit"
    /\ UNCHANGED <<in, out, isExit, freed, arg, rvars>>

WriteCommit ==
    /\ wpc = "commit" /\ ~freed
    /\ in' = U32(in + Len(arg))
    /\ wpc' = "idle" /\ arg' = <<>>
    /\ UNCHANGED <<out, buf, isExit, freed, rvars>>

-----------------------------------------------------------------------------
(* HyFifoRead, HyFifoReadPeek and HyFifoReadDel.                           *)

ReadTest ==
    /\ rpc = "idle" /\ ~isExit
    /\ \E o \in {"read", "peek", "del"}, m \in Lens :
          LET n == Lesser(m, Used)
          IN  /\ n > 0
              /\ op' = o /\ want' = n
              /\ rpc' = IF o = "del" THEN "commit" ELSE "copy"
    /\ UNCHANGED <<in, out, buf, isExit, freed, wvars, dst, early>>

ReadCopy ==
    /\ rpc = "copy" /\ ~freed
    /\ dst' = CopyOut(IF early = NotEarly THEN buf ELSE early, want)
    /\ rpc' = IF op = "peek" THEN "return" ELSE "commit"
    /\ UNCHANGED <<in, out, buf, isExit, freed, wvars, op, want, early>>

ReadCommit ==
    /\ rpc = "commit" /\ ~freed
    /\ out' = U32(out + want)
    /\ rpc' = "return"
    /\ UNCHANGED <<in, buf, isExit, freed, wvars, op, want, dst, early>>

(* Once the call has passed its barrier the processor may load the bytes   *)
(* of the next call ahead of that call's load of `in'.                     *)
ReadReturn ==
    /\ rpc = "return" /\ ~freed
    /\ rpc' = "idle" /\ op' = "read" /\ want' = 0 /\ dst' = <<>>
    /\ early' \in {NotEarly} \cup (IF LoadsReordered THEN {buf} ELSE {})
    /\ UNCHANGED <<in, out, buf, isExit, freed, wvars>>

-----------------------------------------------------------------------------
(* HyFifoReset, by either side between two calls of its own: it takes no   *)
(* lock and writes both counters.  The model keeps its three writes        *)
(* together; ResetAnytime lets them fall into the other side's call.       *)
Reset ==
    /\ ~isExit
    /\ IF ResetAnytime THEN wpc = "idle" \/ rpc = "idle"
                       ELSE wpc = "idle" /\ rpc = "idle"
    /\ RingReset
    /\ early' = NotEarly
    /\ UNCHANGED <<isExit, freed, wvars, rpc, op, want, dst>>

(* HyFifoDestroy: the flag, a sleep of a millisecond that guarantees       *)
(* nothing about calls under way, free.                                    *)
DestroyBegin ==
    /\ ~isExit
    /\ isExit' = TRUE
    /\ UNCHANGED <<in, out, buf, freed, wvars, rvars>>

DestroyFree ==
    /\ isExit /\ ~freed
    /\ freed' = TRUE
    /\ UNCHANGED <<in, out, buf, isExit, wvars, rvars>>

-----------------------------------------------------------------------------
Next ==
    \/ WriteTest \/ WriteCopy \/ WriteCommit
    \/ ReadTest \/ ReadCopy \/ ReadCommit \/ ReadReturn
    \/ Reset
    \/ DestroyBegin \/ DestroyFree

Spec == Init /\ [][Next]_vars

-----------------------------------------------------------------------------
(* Every variable keeps its type; the counters stay in hy_u32_t's range.   *)
TypeOK ==
    /\ RingTypeOK
    /\ isExit \in BOOLEAN /\ freed \in BOOLEAN
    /\ wpc \in {"idle", "copy", "commit"}
    /\ arg \in Seq(Nat) /\ Len(arg) < Modulus
    /\ rpc \in {"idle", "copy", "commit", "return"}
    /\ op \in {"read", "peek", "del"}
    /\ want \in 0 .. Modulus - 1
    /\ early = NotEarly \/ early \in [Slots -> Nat]
    /\ dst \in Seq(Nat)

(* Without any lock, what either side found when it looked at the counters *)
(* still holds while it copies: the other side can only have made room, or *)
(* brought bytes.  So the slots being filled and those being read have     *)
(* none in common, also across both wrap-arounds.                          *)
WindowSafe ==
    /\ Used <= Capacity
    /\ wpc \in {"copy", "commit"} => Used + Len(arg) <= Capacity
    /\ rpc \in {"copy", "commit"} => want <= Used

CopiesDisjoint ==
    wpc \in {"copy", "commit"} /\ rpc \in {"copy", "commit"}
        => SlotsFrom(in, Len(arg)) \cap SlotsFrom(out, want) = {}

(* The lock-free ring is a bounded fifo whose writes may store a prefix    *)
(* and whose reads may deliver fewer bytes than asked for, but never bytes *)
(* that are not the oldest ones: a call takes effect when it moves its     *)
(* counter, a peek when it copies.                                         *)
Fifo == INSTANCE BoundedFifo WITH
            Payloads <- UNION {{SubSeq(p, 1, n) : n \in 1 .. Len(p)} : p \in Payloads},
            Lens     <- 1 .. Capacity,
            Readers  <- {"consumer"},
            queue    <- IF isExit THEN <<>> ELSE Contents,
            result   <- [r \in {"consumer"} |->
                            IF ~isExit /\ rpc = "return" /\ op # "del" THEN dst ELSE <<>>],
            closed   <- isExit

ImplementsFifo == Fifo!Spec

(* What the header promises of a read by the single consumer: the bytes    *)
(* about to be given back to the producer are the ones that were           *)
(* delivered.  It holds where loads stay in order, and a run in which they *)
(* do not refutes it.                                                      *)
ReadsWhatItRemoves ==
    ~isExit /\ rpc = "commit" /\ op = "read"
        => dst = [k \in 1 .. want |-> buf[Pos(out + k - 1)]]
=============================================================================
