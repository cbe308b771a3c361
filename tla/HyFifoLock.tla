----------------------------- MODULE HyFifoLock -----------------------------
(***************************************************************************)
(* The blocking byte fifo of src/linux/fifo/hy_fifo_lock.c: any number of  *)
(* writers and readers around one ring.  Writers exclude one another with  *)
(* full_mutex and advance `in'; readers exclude one another with           *)
(* empty_mutex and advance `out'.  A writer and a reader therefore run     *)
(* side by side, each reading the other's counter without the other's      *)
(* lock.  One owner thread resets and finally destroys the fifo.           *)
(*                                                                         *)
(* An action is one step of one thread between two shared accesses.  A     *)
(* memcpy is one action: CopiesDisjoint says why that loses nothing.       *)
(*                                                                         *)
(* Mutexes and condition variables come from the hy_os library and behave  *)
(* like the POSIX ones it wraps: a wait may end spuriously, a signal with  *)
(* no waiter is lost, unlocking releases whoever holds the mutex.          *)
(***************************************************************************)
EXTENDS FifoRing

CONSTANTS
    Writers,        \* threads that call HyFifoLockWrite
    Readers,        \* threads that call HyFifoLockRead, ReadPeek, ReadDel
    Owner,          \* the thread that calls HyFifoLockReset and Destroy
    NoThread,       \* "nobody holds the mutex"
    Payloads,       \* byte sequences a writer may pass
    Lens,           \* lengths a reader may ask for
    SleepSettles    \* each usleep of Destroy outlasts every call's progress

Threads == Writers \cup Readers \cup {Owner}

ASSUME ThreadsAssumption ==
    /\ Writers \cap Readers = {}
    /\ Owner \notin Writers \cup Readers
    /\ NoThread \notin Threads

ASSUME CallAssumption ==
    /\ \A p \in Payloads : p \in Seq(Nat) /\ Len(p) < Modulus
    /\ Lens \subseteq 0 .. Modulus - 1

VARIABLES
    fullOwner,      \* holder of full_mutex, or NoThread
    emptyOwner,     \* holder of empty_mutex, or NoThread
    fullWait,       \* writers waiting on full_cond
    emptyWait,      \* readers waiting on empty_cond
    isExit,         \* is_exit
    freed,          \* Destroy has freed the handle
    pc,             \* where each thread is; "idle" between two calls
    arg,            \* the payload of a writer's call
    op, want, dst   \* a reader's call, its length, and the caller's buffer

locks == <<fullOwner, emptyOwner>>
calls == <<arg, op, want, dst>>
vars  == <<in, out, buf, locks, fullWait, emptyWait, isExit, freed, pc, calls>>

Ops == {"read", "peek", "del"}

(* Once the handle is freed no thread has defined behaviour left.          *)
At(t, label)   == ~freed /\ pc[t] = label
Goto(t, label) == pc' = [pc EXCEPT ![t] = label]

(* pthread_cond_signal by thread t, whose call ends there: one waiter, if  *)
(* there is one, goes on to reacquire its mutex.                           *)
SignalAndReturn(t, waiting) ==
    \/ /\ waiting = {}
       /\ Goto(t, "idle")
       /\ waiting' = {}
    \/ \E s \in waiting :
          /\ waiting' = waiting \ {s}
          /\ pc' = [pc EXCEPT ![t] = "idle", ![s] = "relock"]

-----------------------------------------------------------------------------
Init ==
    /\ RingInit
    /\ fullOwner = NoThread /\ emptyOwner = NoThread
    /\ fullWait = {} /\ emptyWait = {}
    /\ isExit = FALSE /\ freed = FALSE
    /\ pc = [t \in Threads |-> "idle"]
    /\ arg = [w \in Writers |-> <<>>]
    /\ op = [r \in Readers |-> "read"]
    /\ want = [r \in Readers |-> 0]
    /\ dst = [r \in Readers |-> <<>>]

-----------------------------------------------------------------------------
(* HyFifoLockWrite.  A call that finds is_exit set returns -1 and changes  *)
(* nothing: it is no action here, nor in the readers.                      *)

WriteCall(w) ==
    /\ At(w, "idle") /\ ~isExit
    /\ \E p \in Payloads : arg' = [arg EXCEPT ![w] = p]
    /\ Goto(w, "lock")
    /\ UNCHANGED <<in, out, buf, locks, fullWait, emptyWait, isExit, freed, op, want, dst>>

WriteLock(w) ==
    /\ At(w, "lock") /\ fullOwner = NoThread
    /\ fullOwner' = w
    /\ Goto(w, "test")
    /\ UNCHANGED <<in, out, buf, emptyOwner, fullWait, emptyWait, isExit, freed, calls>>

(* Mutation: room for one byte more than there is.                         *)
WriteTest_OffByOne(w) ==
    /\ At(w, "test")
    /\ Goto(w, IF Len(arg[w]) > Free + 1 THEN "park" ELSE "copy")
    /\ UNCHANGED <<in, out, buf, locks, fullWait, emptyWait, isExit, freed, calls>>

WriteTest(w) ==
    /\ At(w, "test")
    /\ Goto(w, IF Len(arg[w]) > Free THEN "park" ELSE "copy")
    /\ UNCHANGED <<in, out, buf, locks, fullWait, emptyWait, isExit, freed, calls>>

WritePark(w) ==
    /\ At(w, "park")
    /\ fullWait' = fullWait \cup {w}
    /\ fullOwner' = NoThread
    /\ Goto(w, "wait")
    /\ UNCHANGED <<in, out, buf, emptyOwner, emptyWait, isExit, freed, calls>>

WriteWoken(w) ==
    /\ At(w, "relock") /\ fullOwner = NoThread
    /\ fullOwner' = w
    /\ Goto(w, IF isExit THEN "abort" ELSE "test")
    /\ UNCHANGED <<in, out, buf, emptyOwner, fullWait, emptyWait, isExit, freed, calls>>

(* Line 74: the writer holds full_mutex and unlocks empty_mutex.           *)
WriteAbort(w) ==
    /\ At(w, "abort")
    /\ emptyOwner' = NoThread
    /\ Goto(w, "idle")
    /\ arg' = [arg EXCEPT ![w] = <<>>]
    /\ UNCHANGED <<in, out, buf, fullOwner, fullWait, emptyWait, isExit, freed, op, want, dst>>

WriteCopy(w) ==
    /\ At(w, "copy")
    /\ buf' = CopyIn(arg[w])
    /\ Goto(w, "commit")
    /\ UNCHANGED <<in, out, locks, fullWait, emptyWait, isExit, freed, calls>>

WriteCommit(w) ==
    /\ At(w, "commit")
    /\ in' = U32(in + Len(arg[w]))
    /\ fullOwner' = NoThread
    /\ Goto(w, "signal")
    /\ arg' = [arg EXCEPT ![w] = <<>>]
    /\ UNCHANGED <<out, buf, emptyOwner, fullWait, emptyWait, isExit, freed, op, want, dst>>

WriteSignal(w) ==
    /\ At(w, "signal")
    /\ SignalAndReturn(w, emptyWait)
    /\ UNCHANGED <<in, out, buf, locks, fullWait, isExit, freed, calls>>

-----------------------------------------------------------------------------
(* HyFifoLockRead, HyFifoLockReadPeek and HyFifoLockReadDel.               *)

ReadCall(r) ==
    /\ At(r, "idle") /\ ~isExit
    /\ \E o \in Ops, n \in Lens :
          /\ op' = [op EXCEPT ![r] = o]
          /\ want' = [want EXCEPT ![r] = n]
    /\ Goto(r, "lock")
    /\ UNCHANGED <<in, out, buf, locks, fullWait, emptyWait, isExit, freed, arg, dst>>

ReadLock(r) ==
    /\ At(r, "lock") /\ emptyOwner = NoThread
    /\ emptyOwner' = r
    /\ Goto(r, "test")
    /\ UNCHANGED <<in, out, buf, fullOwner, fullWait, emptyWait, isExit, freed, calls>>

ReadTest(r) ==
    /\ At(r, "test")
    /\ Goto(r, IF want[r] > Used THEN "park" ELSE "copy")
    /\ UNCHANGED <<in, out, buf, locks, fullWait, emptyWait, isExit, freed, calls>>

ReadPark(r) ==
    /\ At(r, "park")
    /\ emptyWait' = emptyWait \cup {r}
    /\ emptyOwner' = NoThread
    /\ Goto(r, "wait")
    /\ UNCHANGED <<in, out, buf, fullOwner, fullWait, isExit, freed, calls>>

(* Mutation: `if' for `while', the condition is not tested again.          *)
ReadWoken_NoRetest(r) ==
    /\ At(r, "relock") /\ emptyOwner = NoThread
    /\ emptyOwner' = r
    /\ Goto(r, IF isExit THEN "abort" ELSE "copy")
    /\ UNCHANGED <<in, out, buf, fullOwner, fullWait, emptyWait, isExit, freed, calls>>

ReadWoken(r) ==
    /\ At(r, "relock") /\ emptyOwner = NoThread
    /\ emptyOwner' = r
    /\ Goto(r, IF isExit THEN "abort" ELSE "test")
    /\ UNCHANGED <<in, out, buf, fullOwner, fullWait, emptyWait, isExit, freed, calls>>

ReadAbort(r) ==
    /\ At(r, "abort")
    /\ emptyOwner' = NoThread
    /\ Goto(r, "idle")
    /\ want' = [want EXCEPT ![r] = 0]
    /\ op' = [op EXCEPT ![r] = "read"]
    /\ UNCHANGED <<in, out, buf, fullOwner, fullWait, emptyWait, isExit, freed, arg, dst>>

(* ReadDel copies nothing. *)
ReadCopy(r) ==
    /\ At(r, "copy")
    /\ dst' = [dst EXCEPT ![r] = IF op[r] = "del" THEN <<>> ELSE CopyOut(buf, want[r])]
    /\ Goto(r, "commit")
    /\ UNCHANGED <<in, out, buf, locks, fullWait, emptyWait, isExit, freed, arg, op, want>>

(* ReadPeek only unlocks and returns; it signals nobody.                   *)
ReadCommit(r) ==
    /\ At(r, "commit")
    /\ out' = IF op[r] = "peek" THEN out ELSE U32(out + want[r])
    /\ emptyOwner' = NoThread
    /\ Goto(r, IF op[r] = "peek" THEN "leave" ELSE "signal")
    /\ want' = [want EXCEPT ![r] = 0]
    /\ UNCHANGED <<in, buf, fullOwner, fullWait, emptyWait, isExit, freed, arg, op, dst>>

ReadSignal(r) ==
    /\ At(r, "signal")
    /\ SignalAndReturn(r, fullWait)
    /\ dst' = [dst EXCEPT ![r] = <<>>]
    /\ op' = [op EXCEPT ![r] = "read"]
    /\ UNCHANGED <<in, out, buf, locks, emptyWait, isExit, freed, arg, want>>

ReadLeave(r) ==
    /\ At(r, "leave")
    /\ Goto(r, "idle")
    /\ dst' = [dst EXCEPT ![r] = <<>>]
    /\ op' = [op EXCEPT ![r] = "read"]
    /\ UNCHANGED <<in, out, buf, locks, fullWait, emptyWait, isExit, freed, arg, want>>

(* A condition variable may let a waiter go without a signal.              *)
SpuriousWake(t) ==
    /\ At(t, "wait")
    /\ fullWait' = fullWait \ {t}
    /\ emptyWait' = emptyWait \ {t}
    /\ Goto(t, "relock")
    /\ UNCHANGED <<in, out, buf, locks, isExit, freed, calls>>

-----------------------------------------------------------------------------
(* HyFifoLockReset: both mutexes, in this order; nobody is signalled.      *)

ResetCall ==
    /\ At(Owner, "idle") /\ ~isExit
    /\ Goto(Owner, "lock")
    /\ UNCHANGED <<in, out, buf, locks, fullWait, emptyWait, isExit, freed, calls>>

ResetLockEmpty ==
    /\ At(Owner, "lock") /\ emptyOwner = NoThread
    /\ emptyOwner' = Owner
    /\ Goto(Owner, "lock2")
    /\ UNCHANGED <<in, out, buf, fullOwner, fullWait, emptyWait, isExit, freed, calls>>

ResetLockFull ==
    /\ At(Owner, "lock2") /\ fullOwner = NoThread
    /\ fullOwner' = Owner
    /\ Goto(Owner, "clear")
    /\ UNCHANGED <<in, out, buf, emptyOwner, fullWait, emptyWait, isExit, freed, calls>>

ResetClear ==
    /\ At(Owner, "clear")
    /\ RingReset
    /\ fullOwner' = NoThread /\ emptyOwner' = NoThread
    /\ Goto(Owner, "idle")
    /\ UNCHANGED <<fullWait, emptyWait, isExit, freed, calls>>

-----------------------------------------------------------------------------
(* HyFifoLockDestroy.                                                      *)

(* No other thread can take a step of its call.                            *)
Settled ==
    \A t \in Writers \cup Readers :
        \/ pc[t] \in {"idle", "wait"}
        \/ /\ pc[t] \in {"lock", "relock"}
           /\ (IF t \in Writers THEN fullOwner ELSE emptyOwner) # NoThread

SleepOver == SleepSettles => Settled

DestroyBegin ==
    /\ At(Owner, "idle") /\ ~isExit
    /\ isExit' = TRUE
    /\ Goto(Owner, "sleep1")
    /\ UNCHANGED <<in, out, buf, locks, fullWait, emptyWait, freed, calls>>

(* Mutation: only the writers' condition variable is broadcast.            *)
DestroyBroadcast_WritersOnly ==
    /\ At(Owner, "sleep1") /\ SleepOver
    /\ pc' = [t \in Threads |-> IF t = Owner THEN "sleep2"
                                ELSE IF t \in fullWait THEN "relock" ELSE pc[t]]
    /\ fullWait' = {}
    /\ UNCHANGED <<in, out, buf, locks, emptyWait, isExit, freed, calls>>

DestroyBroadcast ==
    /\ At(Owner, "sleep1") /\ SleepOver
    /\ pc' = [t \in Threads |-> IF t = Owner THEN "sleep2"
                                ELSE IF t \in fullWait \cup emptyWait THEN "relock"
                                ELSE pc[t]]
    /\ fullWait' = {} /\ emptyWait' = {}
    /\ UNCHANGED <<in, out, buf, locks, isExit, freed, calls>>

DestroyFree ==
    /\ At(Owner, "sleep2") /\ SleepOver
    /\ freed' = TRUE
    /\ Goto(Owner, "gone")
    /\ UNCHANGED <<in, out, buf, locks, fullWait, emptyWait, isExit, calls>>

-----------------------------------------------------------------------------
(* What a thread does once its call has begun.                             *)
WriteStep(w) ==
    \/ WriteLock(w) \/ WriteTest(w) \/ WritePark(w) \/ WriteWoken(w)
    \/ WriteAbort(w) \/ WriteCopy(w) \/ WriteCommit(w) \/ WriteSignal(w)

ReadStep(r) ==
    \/ ReadLock(r) \/ ReadTest(r) \/ ReadPark(r) \/ ReadWoken(r) \/ ReadAbort(r)
    \/ ReadCopy(r) \/ ReadCommit(r) \/ ReadSignal(r) \/ ReadLeave(r)

ResetStep   == ResetLockEmpty \/ ResetLockFull \/ ResetClear
DestroyStep == DestroyBroadcast \/ DestroyFree

Next ==
    \/ \E w \in Writers : WriteCall(w) \/ WriteStep(w) \/ SpuriousWake(w)
    \/ \E r \in Readers : ReadCall(r) \/ ReadStep(r) \/ SpuriousWake(r)
    \/ ResetCall \/ ResetStep
    \/ DestroyBegin \/ DestroyStep

(* A thread that can run does run; nothing obliges anybody to start a      *)
(* call, nor a condition variable to wake anybody spuriously.              *)
Fairness ==
    /\ \A w \in Writers : WF_vars(WriteStep(w))
    /\ \A r \in Readers : WF_vars(ReadStep(r))
    /\ WF_vars(ResetStep)
    /\ WF_vars(DestroyStep)

Spec == Init /\ [][Next]_vars /\ Fairness

-----------------------------------------------------------------------------
WriterPC == {"idle", "lock", "test", "park", "wait", "relock", "abort", "copy",
             "commit", "signal"}
ReaderPC == WriterPC \cup {"leave"}
OwnerPC  == {"idle", "lock", "lock2", "clear", "sleep1", "sleep2", "gone"}

(* Every variable keeps its type; in particular the counters stay in the   *)
(* range of a hy_u32_t.  Line 74 lets two readers in during Destroy, whose *)
(* copies may then leave the ring: nothing is said of dst from there on.   *)
TypeOK ==
    /\ RingTypeOK
    /\ fullOwner \in Threads \cup {NoThread}
    /\ emptyOwner \in Threads \cup {NoThread}
    /\ fullWait \subseteq Writers
    /\ emptyWait \subseteq Readers
    /\ isExit \in BOOLEAN
    /\ freed \in BOOLEAN
    /\ pc \in [Threads -> WriterPC \cup ReaderPC \cup OwnerPC]
    /\ \A w \in Writers : pc[w] \in WriterPC
    /\ \A r \in Readers : pc[r] \in ReaderPC
    /\ pc[Owner] \in OwnerPC
    /\ arg \in [Writers -> Payloads \cup {<<>>}]
    /\ op \in [Readers -> Ops]
    /\ want \in [Readers -> Lens \cup {0}]
    /\ ~isExit => dst \in [Readers -> Seq(Nat)]

(* Between HyFifoLockCreate and Destroy, whoever is between the lock and   *)
(* the unlock of its call holds the mutex of its side, although the two    *)
(* sides use different mutexes and a reset takes both; and nobody is on    *)
(* its way out through the exit branch.                                    *)
HoldsLock ==
    ~isExit =>
        /\ \A t \in Threads : pc[t] # "abort"
        /\ \A w \in Writers : pc[w] \in {"test", "park", "copy", "commit"}
                                => fullOwner = w
        /\ \A r \in Readers : pc[r] \in {"test", "park", "copy", "commit"}
                                => emptyOwner = r
        /\ pc[Owner] \in {"lock2", "clear"} => emptyOwner = Owner
        /\ pc[Owner] = "clear" => fullOwner = Owner

(* The fifo never holds more than its capacity, and what a thread found    *)
(* when it tested the counters still holds when it moves the bytes: the    *)
(* other side, which it does not exclude, can only have helped.            *)
WindowSafe ==
    ~isExit =>
        /\ Used <= Capacity
        /\ \A w \in Writers : pc[w] \in {"copy", "commit"}
                                => Used + Len(arg[w]) <= Capacity
        /\ \A r \in Readers : pc[r] \in {"copy", "commit"}
                                => want[r] <= Used

(* The invariant the proof goes through.                                   *)
FifoInv == TypeOK /\ HoldsLock /\ WindowSafe

(* The slots a writer fills and those a reader copies or gives back have   *)
(* none in common, across the end of the ring and across the counters'     *)
(* wrap-around, so no byte is read while it is written.                    *)
CopiesDisjoint ==
    ~isExit => \A w \in Writers, r \in Readers :
        pc[w] \in {"copy", "commit"} /\ pc[r] \in {"copy", "commit"}
            => SlotsFrom(in, Len(arg[w])) \cap SlotsFrom(out, want[r]) = {}

(* Until Destroy begins, the ring is a bounded fifo: the bytes between the *)
(* counters are the queue, a call takes effect when it moves its counter,  *)
(* and what a read delivers was the head of the queue at that moment.      *)
Fifo == INSTANCE BoundedFifo WITH
            queue  <- IF isExit THEN <<>> ELSE Contents,
            result <- [r \in Readers |-> IF ~isExit /\ pc[r] \in {"signal", "leave"}
                                          THEN dst[r] ELSE <<>>],
            closed <- isExit

ImplementsFifo == Fifo!Spec

(* Destroy releases the blocked readers: once it has begun, and provided   *)
(* its sleeps are long enough, every reader has returned from its call     *)
(* when the handle is freed, and it is freed.                              *)
DestroyReleasesReaders ==
    isExit ~> freed /\ \A r \in Readers : pc[r] = "idle"

(* The comments of Destroy (lines 312 and 319) and the header's promise    *)
(* for a blocked call, as the runs that refute them check them.            *)

(* A thread is left waiting only for what is not there: bytes for a        *)
(* reader, room for a writer.                                              *)
NobodyStranded ==
    (\A t \in Threads : pc[t] \in {"idle", "wait"}) =>
        /\ \A r \in emptyWait : want[r] > Used
        /\ \A w \in fullWait : Len(arg[w]) > Free

(* When the mutexes are destroyed, every woken call has released its own.  *)
LocksReleased == freed => fullOwner = NoThread /\ emptyOwner = NoThread
=============================================================================
