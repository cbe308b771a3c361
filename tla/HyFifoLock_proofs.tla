------------------------- MODULE HyFifoLock_proofs -------------------------
(***************************************************************************)
(* For every number of threads, capacity, counter width and set of calls:  *)
(* the blocking fifo never overfills, and no slot is copied by a reader    *)
(* while a writer fills it, until Destroy begins.                          *)
(***************************************************************************)
EXTENDS HyFifoLock, FifoRing_proofs

(* A payload, and a reader's length, is a length the counters can hold.    *)
LEMMA CallTypes ==
    ASSUME TypeOK
    PROVE  /\ \A w \in Writers : arg[w] \in Seq(Nat) /\ Len(arg[w]) \in 0 .. Modulus - 1
           /\ \A r \in Readers : want[r] \in 0 .. Modulus - 1
<1>1. ASSUME NEW w \in Writers
      PROVE  arg[w] \in Seq(Nat) /\ Len(arg[w]) \in 0 .. Modulus - 1
  <2>1. arg[w] \in Payloads \cup {<<>>}
    BY DEF TypeOK
  <2>2. CASE arg[w] \in Payloads
    BY <2>2, CallAssumption, SizeAssumption
  <2>3. CASE arg[w] = <<>>
    BY <2>3, SizeAssumption
  <2> QED BY <2>1, <2>2, <2>3
<1>2. ASSUME NEW r \in Readers
      PROVE  want[r] \in 0 .. Modulus - 1
  <2>1. want[r] \in Lens \cup {0}
    BY DEF TypeOK
  <2>2. 0 \in 0 .. Modulus - 1
    BY SizeAssumption
  <2> QED BY <2>1, <2>2, CallAssumption
<1> QED BY <1>1, <1>2

-----------------------------------------------------------------------------
(* FifoInv is inductive.                                                   *)

LEMMA InitInv == Init => FifoInv
<1> SUFFICES ASSUME Init PROVE FifoInv
  OBVIOUS
<1>1. TypeOK
  <2>1. dst \in [Readers -> Seq(Nat)]
    <3>1. <<>> \in Seq(Nat)
      OBVIOUS
    <3> QED BY <3>1 DEF Init
  <2>2. buf \in [Slots -> Nat] /\ in \in 0 .. Modulus - 1 /\ out \in 0 .. Modulus - 1
    BY SizeAssumption DEF Init, RingInit
  <2>3. pc \in [Threads -> WriterPC \cup ReaderPC \cup OwnerPC]
    BY DEF Init, WriterPC
  <2>4. /\ \A w \in Writers : pc[w] \in WriterPC
        /\ \A r \in Readers : pc[r] \in ReaderPC
        /\ pc[Owner] \in OwnerPC
    BY DEF Init, Threads, WriterPC, ReaderPC, OwnerPC
  <2>5. arg \in [Writers -> Payloads \cup {<<>>}]
    BY DEF Init
  <2>6. op \in [Readers -> Ops] /\ want \in [Readers -> Lens \cup {0}]
    BY DEF Init, Ops
  <2> QED BY <2>1, <2>2, <2>3, <2>4, <2>5, <2>6 DEF Init, TypeOK, RingTypeOK
<1>2. HoldsLock
  BY ThreadsAssumption DEF Init, HoldsLock, Threads
<1>3. WindowSafe
  BY SizeAssumption, ThreadsAssumption DEF Init, RingInit, WindowSafe, Used, U32, Threads
<1> QED BY <1>1, <1>2, <1>3 DEF FifoInv

USE DEF At, Goto
LEMMA TypeWrite ==
    ASSUME FifoInv, NEW w \in Writers, WriteCall(w) \/ WriteStep(w)
    PROVE  TypeOK'
<1> USE ThreadsAssumption DEF FifoInv, TypeOK, RingTypeOK, Threads, locks, calls, WriterPC, ReaderPC, OwnerPC
<1>1. CASE WriteCall(w)
  BY <1>1 DEF WriteCall
<1>2. CASE WriteLock(w)
  BY <1>2 DEF WriteLock
<1>3. CASE WriteTest(w)
  BY <1>3 DEF WriteTest
<1>4. CASE WritePark(w)
  BY <1>4 DEF WritePark
<1>5. CASE WriteWoken(w)
  BY <1>5 DEF WriteWoken
<1>6. CASE WriteAbort(w)
  BY <1>6 DEF WriteAbort
<1>7. CASE WriteCopy(w)
  <2>1. CopyIn(arg[w]) \in [Slots -> Nat]
    BY CallTypes, CopyInType
  <2> QED BY <1>7, <2>1 DEF WriteCopy
<1>8. CASE WriteCommit(w)
  <2>1. Len(arg[w]) \in 0 .. Modulus - 1
    BY CallTypes
  <2>2. U32(in + Len(arg[w])) \in 0 .. Modulus - 1
    <3> HIDE DEF U32
    <3> QED BY <2>1, U32Range, SizeAssumption
  <2> QED BY <1>8, <2>2 DEF WriteCommit
<1>9. CASE WriteSignal(w)
  BY <1>9 DEF WriteSignal, SignalAndReturn
<1> QED BY <1>1, <1>2, <1>3, <1>4, <1>5, <1>6, <1>7, <1>8, <1>9 DEF WriteStep

LEMMA TypeRead ==
    ASSUME FifoInv, NEW r \in Readers, ReadCall(r) \/ ReadStep(r)
    PROVE  TypeOK'
<1> USE ThreadsAssumption DEF FifoInv, TypeOK, RingTypeOK, Threads, locks, calls, WriterPC, ReaderPC, OwnerPC
<1>1. CASE ReadCall(r)
  BY <1>1 DEF ReadCall, Ops
<1>2. CASE ReadLock(r)
  BY <1>2 DEF ReadLock
<1>3. CASE ReadTest(r)
  BY <1>3 DEF ReadTest
<1>4. CASE ReadPark(r)
  BY <1>4 DEF ReadPark
<1>5. CASE ReadWoken(r)
  BY <1>5 DEF ReadWoken
<1>6. CASE ReadAbort(r)
  BY <1>6 DEF ReadAbort, Ops
<1>7. CASE ReadCopy(r)
  <2>1. ~isExit => CopyOut(buf, want[r]) \in Seq(Nat)
    <3> SUFFICES ASSUME ~isExit PROVE CopyOut(buf, want[r]) \in Seq(Nat)
      OBVIOUS
    <3>1. want[r] \in Nat /\ want[r] <= Capacity
      BY <1>7, CallTypes, UsedRange, SizeAssumption DEF ReadCopy, WindowSafe
    <3> QED BY <3>1, CopyOutType
  <2> QED BY <1>7, <2>1 DEF ReadCopy
<1>8. CASE ReadCommit(r)
  <2>1. U32(out + want[r]) \in 0 .. Modulus - 1
    BY CallTypes, U32Range, SizeAssumption
  <2> QED BY <1>8, <2>1 DEF ReadCommit
<1>9. CASE ReadSignal(r)
  <2>1. CASE fullWait = {} /\ Goto(r, "idle")
    BY <1>9, <2>1 DEF ReadSignal, SignalAndReturn, Ops
  <2>2. ASSUME NEW s \in fullWait,
               pc' = [pc EXCEPT ![r] = "idle", ![s] = "relock"],
               fullWait' = fullWait \ {s}
        PROVE  TypeOK'
    <3>1. s \in Threads /\ s # r /\ s # Owner
      OBVIOUS
    <3>2. /\ pc' \in [Threads -> WriterPC \cup ReaderPC \cup OwnerPC]
          /\ \A w_1 \in Writers : pc'[w_1] \in WriterPC
          /\ \A r_1 \in Readers : pc'[r_1] \in ReaderPC
          /\ pc'[Owner] \in OwnerPC
      BY <2>2, <3>1
    <3>3. fullWait' \subseteq Writers
      BY <2>2
    <3>4. op' \in [Readers -> Ops] /\ (~isExit' => dst' \in [Readers -> Seq(Nat)])
      BY <1>9 DEF ReadSignal, Ops
    <3>5. UNCHANGED <<in, out, buf, locks, emptyWait, isExit, freed, arg, want>>
      BY <1>9 DEF ReadSignal
    <3> QED BY <3>2, <3>3, <3>4, <3>5
  <2> QED BY <1>9, <2>1, <2>2 DEF ReadSignal, SignalAndReturn
<1>10. CASE ReadLeave(r)
  BY <1>10 DEF ReadLeave, Ops
<1> QED BY <1>1, <1>2, <1>3, <1>4, <1>5, <1>6, <1>7, <1>8, <1>9, <1>10 DEF ReadStep

LEMMA TypeOwner ==
    ASSUME FifoInv, ResetCall \/ ResetStep \/ DestroyBegin \/ DestroyStep
    PROVE  TypeOK'
<1> USE ThreadsAssumption DEF FifoInv, TypeOK, RingTypeOK, Threads, locks, calls, WriterPC, ReaderPC, OwnerPC
<1>1. CASE ResetCall
  BY <1>1 DEF ResetCall
<1>2. CASE ResetStep
  BY <1>2, SizeAssumption DEF ResetStep, ResetLockEmpty, ResetLockFull, ResetClear, RingReset, Slots
<1>3. CASE DestroyBegin
  BY <1>3 DEF DestroyBegin
<1>4. CASE DestroyBroadcast
  BY <1>4 DEF DestroyBroadcast
<1>5. CASE DestroyFree
  BY <1>5 DEF DestroyFree
<1> QED BY <1>1, <1>2, <1>3, <1>4, <1>5 DEF DestroyStep

LEMMA TypeSpurious ==
    ASSUME FifoInv, NEW t \in Writers \cup Readers, SpuriousWake(t)
    PROVE  TypeOK'
BY ThreadsAssumption DEF FifoInv, TypeOK, RingTypeOK, Threads, locks, calls, WriterPC, ReaderPC,
   OwnerPC, SpuriousWake

-----------------------------------------------------------------------------
(* Mutual exclusion on either side, and what the test found stays true.    *)

LEMMA LockWrite ==
    ASSUME FifoInv, NEW w \in Writers, WriteCall(w) \/ WriteStep(w)
    PROVE  HoldsLock'
<1> SUFFICES ASSUME ~isExit PROVE HoldsLock'
  BY DEF WriteStep, WriteCall, WriteLock, WriteTest, WritePark, WriteWoken, WriteAbort,
     WriteCopy, WriteCommit, WriteSignal, HoldsLock
<1> USE ThreadsAssumption DEF FifoInv, TypeOK, RingTypeOK, HoldsLock, Threads, locks, calls
<1>1. CASE WriteCall(w)
  BY <1>1 DEF WriteCall
<1>2. CASE WriteLock(w)
  BY <1>2 DEF WriteLock
<1>3. CASE WriteTest(w)
  BY <1>3 DEF WriteTest
<1>4. CASE WritePark(w)
  BY <1>4 DEF WritePark
<1>5. CASE WriteWoken(w)
  BY <1>5 DEF WriteWoken
<1>6. CASE WriteAbort(w)
  BY <1>6 DEF WriteAbort
<1>7. CASE WriteCopy(w)
  BY <1>7 DEF WriteCopy
<1>8. CASE WriteCommit(w)
  BY <1>8 DEF WriteCommit
<1>9. CASE WriteSignal(w)
  <2>1. CASE pc' = [pc EXCEPT ![w] = "idle"]
    BY <1>9, <2>1 DEF WriteSignal
  <2>2. ASSUME NEW s \in emptyWait, pc' = [pc EXCEPT ![w] = "idle", ![s] = "relock"]
        PROVE  HoldsLock'
    <3>1. s \in Threads /\ s # Owner
      OBVIOUS
    <3>2. \A u \in Threads : pc'[u] \in {"idle", "relock"} \/ pc'[u] = pc[u]
      BY <2>2, <3>1
    <3>3. pc'[Owner] = pc[Owner]
      BY <2>2, <3>1
    <3> QED BY <1>9, <3>2, <3>3 DEF WriteSignal
  <2> QED BY <1>9, <2>1, <2>2 DEF WriteSignal, SignalAndReturn
<1> QED BY <1>1, <1>2, <1>3, <1>4, <1>5, <1>6, <1>7, <1>8, <1>9 DEF WriteStep

LEMMA LockRead ==
    ASSUME FifoInv, NEW r \in Readers, ReadCall(r) \/ ReadStep(r)
    PROVE  HoldsLock'
<1> SUFFICES ASSUME ~isExit PROVE HoldsLock'
  BY DEF ReadStep, ReadCall, ReadLock, ReadTest, ReadPark, ReadWoken, ReadAbort,
     ReadCopy, ReadCommit, ReadSignal, ReadLeave, HoldsLock
<1> USE ThreadsAssumption DEF FifoInv, TypeOK, RingTypeOK, HoldsLock, Threads, locks, calls
<1>1. CASE ReadCall(r)
  BY <1>1 DEF ReadCall
<1>2. CASE ReadLock(r)
  BY <1>2 DEF ReadLock
<1>3. CASE ReadTest(r)
  BY <1>3 DEF ReadTest
<1>4. CASE ReadPark(r)
  BY <1>4 DEF ReadPark
<1>5. CASE ReadWoken(r)
  BY <1>5 DEF ReadWoken
<1>6. CASE ReadAbort(r)
  BY <1>6 DEF ReadAbort
<1>7. CASE ReadCopy(r)
  BY <1>7 DEF ReadCopy
<1>8. CASE ReadCommit(r)
  BY <1>8 DEF ReadCommit
<1>9. CASE ReadSignal(r)
  <2>1. CASE pc' = [pc EXCEPT ![r] = "idle"]
    BY <1>9, <2>1 DEF ReadSignal
  <2>2. ASSUME NEW s \in fullWait, pc' = [pc EXCEPT ![r] = "idle", ![s] = "relock"]
        PROVE  HoldsLock'
    <3>1. s \in Threads /\ s # Owner
      OBVIOUS
    <3>2. \A u \in Threads : pc'[u] \in {"idle", "relock"} \/ pc'[u] = pc[u]
      BY <2>2, <3>1
    <3>3. pc'[Owner] = pc[Owner]
      BY <2>2, <3>1
    <3> QED BY <1>9, <3>2, <3>3 DEF ReadSignal
  <2> QED BY <1>9, <2>1, <2>2 DEF ReadSignal, SignalAndReturn
<1>10. CASE ReadLeave(r)
  BY <1>10 DEF ReadLeave
<1> QED BY <1>1, <1>2, <1>3, <1>4, <1>5, <1>6, <1>7, <1>8, <1>9, <1>10 DEF ReadStep

LEMMA LockOwner ==
    ASSUME FifoInv, ResetCall \/ ResetStep \/ DestroyBegin \/ DestroyStep
    PROVE  HoldsLock'
<1> USE ThreadsAssumption DEF FifoInv, TypeOK, RingTypeOK, HoldsLock, Threads, locks, calls, OwnerPC
<1>1. CASE ResetCall
  BY <1>1 DEF ResetCall
<1>2. CASE ResetLockEmpty
  BY <1>2 DEF ResetLockEmpty
<1>3. CASE ResetLockFull
  BY <1>3 DEF ResetLockFull
<1>4. CASE ResetClear
  BY <1>4 DEF ResetClear
<1>5. CASE DestroyBegin
  BY <1>5 DEF DestroyBegin
<1>6. CASE DestroyBroadcast
  BY <1>6 DEF DestroyBroadcast
<1>7. CASE DestroyFree
  BY <1>7 DEF DestroyFree
<1> QED BY <1>1, <1>2, <1>3, <1>4, <1>5, <1>6, <1>7 DEF ResetStep, DestroyStep

LEMMA LockSpurious ==
    ASSUME FifoInv, NEW t \in Writers \cup Readers, SpuriousWake(t)
    PROVE  HoldsLock'
BY ThreadsAssumption DEF FifoInv, TypeOK, RingTypeOK, HoldsLock, Threads, locks, calls, SpuriousWake

(* A step that moves no counter and brings no thread into its copy.        *)
LEMMA WindowFrame ==
    ASSUME WindowSafe, in' = in, out' = out, isExit => isExit',
           \A w \in Writers : pc'[w] \in {"copy", "commit"} =>
               pc[w] \in {"copy", "commit"} /\ arg'[w] = arg[w],
           \A r \in Readers : pc'[r] \in {"copy", "commit"} =>
               pc[r] \in {"copy", "commit"} /\ want'[r] = want[r]
    PROVE  WindowSafe'
<1>1. Used' = Used
  BY DEF Used, U32
<1> QED BY <1>1 DEF WindowSafe

LEMMA WindowWrite ==
    ASSUME FifoInv, NEW w \in Writers, WriteCall(w) \/ WriteStep(w)
    PROVE  WindowSafe'
<1> USE ThreadsAssumption DEF FifoInv, TypeOK, RingTypeOK, HoldsLock, Threads, locks, calls
<1>1. CASE WriteCall(w)
  BY <1>1, WindowFrame DEF WriteCall
<1>2. CASE WriteLock(w)
  BY <1>2, WindowFrame DEF WriteLock
<1>3. CASE WriteTest(w)
  <2>1. ~isExit => Free = Capacity - Used
    BY FreeIsRoom DEF WindowSafe
  <2>2. Len(arg[w]) \in Nat /\ Used \in Nat
    BY CallTypes, UsedRange, SizeAssumption
  <2>3. Used' = Used
    BY <1>3 DEF WriteTest, Used, U32
  <2> QED BY <1>3, <2>1, <2>2, <2>3, SizeAssumption DEF WriteTest, WindowSafe
<1>4. CASE WritePark(w)
  BY <1>4, WindowFrame DEF WritePark
<1>5. CASE WriteWoken(w)
  BY <1>5, WindowFrame DEF WriteWoken
<1>6. CASE WriteAbort(w)
  BY <1>6, WindowFrame DEF WriteAbort
<1>7. CASE WriteCopy(w)
  BY <1>7, WindowFrame DEF WriteCopy
<1>8. CASE WriteCommit(w)
  <2> SUFFICES ASSUME ~isExit PROVE WindowSafe'
    BY <1>8 DEF WriteCommit, WindowSafe
  <2>1. Len(arg[w]) \in Nat /\ Used + Len(arg[w]) <= Capacity
    BY <1>8, CallTypes, SizeAssumption DEF WriteCommit, WindowSafe
  <2>2. Used' = Used + Len(arg[w])
    BY <1>8, <2>1, UsedAfterWrite DEF WriteCommit
  <2>3. \A v \in Writers : pc'[v] \notin {"copy", "commit"}
    BY <1>8 DEF WriteCommit
  <2>4. \A r \in Readers : pc'[r] = pc[r] /\ want'[r] = want[r] /\ want[r] \in Nat
    BY <1>8, CallTypes, SizeAssumption DEF WriteCommit
  <2>5. Used \in Nat
    BY UsedRange, SizeAssumption
  <2> QED BY <2>1, <2>2, <2>3, <2>4, <2>5, SizeAssumption DEF WindowSafe
<1>9. CASE WriteSignal(w)
  <2>1. \A u \in Threads : pc'[u] \in {"idle", "relock"} \/ pc'[u] = pc[u]
    BY <1>9 DEF WriteSignal, SignalAndReturn
  <2> QED BY <1>9, <2>1, WindowFrame DEF WriteSignal
<1> QED BY <1>1, <1>2, <1>3, <1>4, <1>5, <1>6, <1>7, <1>8, <1>9 DEF WriteStep

LEMMA WindowRead ==
    ASSUME FifoInv, NEW r \in Readers, ReadCall(r) \/ ReadStep(r)
    PROVE  WindowSafe'
<1> USE ThreadsAssumption DEF FifoInv, TypeOK, RingTypeOK, HoldsLock, Threads, locks, calls
<1>1. CASE ReadCall(r)
  BY <1>1, WindowFrame DEF ReadCall
<1>2. CASE ReadLock(r)
  BY <1>2, WindowFrame DEF ReadLock
<1>3. CASE ReadTest(r)
  <2>1. want[r] \in Nat /\ Used \in Nat
    BY CallTypes, UsedRange, SizeAssumption
  <2>2. Used' = Used
    BY <1>3 DEF ReadTest, Used, U32
  <2> QED BY <1>3, <2>1, <2>2, SizeAssumption DEF ReadTest, WindowSafe
<1>4. CASE ReadPark(r)
  BY <1>4, WindowFrame DEF ReadPark
<1>5. CASE ReadWoken(r)
  BY <1>5, WindowFrame DEF ReadWoken
<1>6. CASE ReadAbort(r)
  BY <1>6, WindowFrame DEF ReadAbort
<1>7. CASE ReadCopy(r)
  BY <1>7, WindowFrame DEF ReadCopy
<1>8. CASE ReadCommit(r)
  <2>1. CASE op[r] = "peek"
    BY <1>8, <2>1, WindowFrame DEF ReadCommit
  <2>2. CASE op[r] # "peek"
    <3> SUFFICES ASSUME ~isExit PROVE WindowSafe'
      BY <1>8 DEF ReadCommit, WindowSafe
    <3>1. want[r] \in Nat /\ want[r] <= Used
      BY <1>8, CallTypes, SizeAssumption DEF ReadCommit, WindowSafe
    <3>2. Used' = Used - want[r]
      BY <1>8, <2>2, <3>1, UsedAfterRead DEF ReadCommit
    <3>3. \A s \in Readers : pc'[s] \notin {"copy", "commit"}
      BY <1>8 DEF ReadCommit
    <3>4. \A w \in Writers : pc'[w] = pc[w] /\ arg'[w] = arg[w] /\ Len(arg[w]) \in Nat
      BY <1>8, CallTypes, SizeAssumption DEF ReadCommit
    <3>5. Used \in Nat
      BY UsedRange, SizeAssumption
    <3> QED BY <3>1, <3>2, <3>3, <3>4, <3>5, SizeAssumption DEF WindowSafe
  <2> QED BY <2>1, <2>2
<1>9. CASE ReadSignal(r)
  <2>1. \A u \in Threads : pc'[u] \in {"idle", "relock"} \/ pc'[u] = pc[u]
    BY <1>9 DEF ReadSignal, SignalAndReturn
  <2> QED BY <1>9, <2>1, WindowFrame DEF ReadSignal
<1>10. CASE ReadLeave(r)
  BY <1>10, WindowFrame DEF ReadLeave
<1> QED BY <1>1, <1>2, <1>3, <1>4, <1>5, <1>6, <1>7, <1>8, <1>9, <1>10 DEF ReadStep

LEMMA WindowOwner ==
    ASSUME FifoInv, ResetCall \/ ResetStep \/ DestroyBegin \/ DestroyStep
    PROVE  WindowSafe'
<1> USE ThreadsAssumption DEF FifoInv, TypeOK, RingTypeOK, HoldsLock, Threads, locks, calls
<1>1. CASE ResetCall
  BY <1>1, WindowFrame DEF ResetCall
<1>2. CASE ResetLockEmpty
  BY <1>2, WindowFrame DEF ResetLockEmpty
<1>3. CASE ResetLockFull
  BY <1>3, WindowFrame DEF ResetLockFull
<1>4. CASE ResetClear
  <2> SUFFICES ASSUME ~isExit PROVE WindowSafe'
    BY <1>4 DEF ResetClear, WindowSafe
  <2>1. Used' = 0
    BY <1>4, SizeAssumption DEF ResetClear, RingReset, Used, U32
  <2>2. \A t \in Writers \cup Readers : pc'[t] \notin {"copy", "commit"}
    BY <1>4 DEF ResetClear
  <2> QED BY <2>1, <2>2, SizeAssumption DEF WindowSafe
<1>5. CASE DestroyBegin
  BY <1>5, WindowFrame DEF DestroyBegin
<1>6. CASE DestroyBroadcast
  BY <1>6, WindowFrame DEF DestroyBroadcast
<1>7. CASE DestroyFree
  BY <1>7, WindowFrame DEF DestroyFree
<1> QED BY <1>1, <1>2, <1>3, <1>4, <1>5, <1>6, <1>7 DEF ResetStep, DestroyStep

LEMMA WindowSpurious ==
    ASSUME FifoInv, NEW t \in Writers \cup Readers, SpuriousWake(t)
    PROVE  WindowSafe'
BY WindowFrame DEF FifoInv, TypeOK, RingTypeOK, Threads, locks, calls, SpuriousWake

-----------------------------------------------------------------------------
(* Until Destroy begins the blocking fifo never overfills or underflows,   *)
(* whatever the threads do, and its mutexes exclude.                       *)
THEOREM FifoSafe == Spec => [](TypeOK /\ HoldsLock /\ WindowSafe)
<1>1. Init => FifoInv
  BY InitInv
<1>2. FifoInv /\ [Next]_vars => FifoInv'
  <2> SUFFICES ASSUME FifoInv, [Next]_vars PROVE FifoInv'
    OBVIOUS
  <2>1. ASSUME NEW w \in Writers, WriteCall(w) \/ WriteStep(w)
        PROVE  FifoInv'
    BY <2>1, TypeWrite, LockWrite, WindowWrite DEF FifoInv
  <2>2. ASSUME NEW r \in Readers, ReadCall(r) \/ ReadStep(r)
        PROVE  FifoInv'
    BY <2>2, TypeRead, LockRead, WindowRead DEF FifoInv
  <2>3. ASSUME NEW t \in Writers \cup Readers, SpuriousWake(t)
        PROVE  FifoInv'
    BY <2>3, TypeSpurious, LockSpurious, WindowSpurious DEF FifoInv
  <2>4. CASE ResetCall \/ ResetStep \/ DestroyBegin \/ DestroyStep
    BY <2>4, TypeOwner, LockOwner, WindowOwner DEF FifoInv
  <2>5. CASE UNCHANGED vars
    BY <2>5 DEF vars, locks, calls, FifoInv, TypeOK, RingTypeOK, HoldsLock, WindowSafe, Used, U32
  <2> QED BY <2>1, <2>2, <2>3, <2>4, <2>5 DEF Next
<1> QED BY <1>1, <1>2, PTL DEF Spec, FifoInv

-----------------------------------------------------------------------------
(* What the window says of counters, in terms of slots.                    *)
LEMMA WindowDisjoint == TypeOK /\ WindowSafe => CopiesDisjoint
BY WindowsDisjoint, CallTypes DEF TypeOK, RingTypeOK, WindowSafe, CopiesDisjoint

(* No byte of the ring is copied out while it is filled, until Destroy     *)
(* begins: a memcpy under one mutex is as good as atomic for the threads   *)
(* that hold the other.                                                    *)
THEOREM CopiesNeverOverlap == Spec => []CopiesDisjoint
<1>1. TypeOK /\ HoldsLock /\ WindowSafe => CopiesDisjoint
  BY WindowDisjoint
<1> QED BY <1>1, FifoSafe, PTL

-----------------------------------------------------------------------------
(* Whoever waits is where a wake-up finds it, and a call under way has the *)
(* arguments it was given.                                                 *)
CallsInv ==
    /\ \A w \in fullWait : pc[w] = "wait"
    /\ \A r \in emptyWait : pc[r] = "wait"
    /\ \A w \in Writers : pc[w] \notin {"idle", "signal"} => arg[w] \in Payloads
    /\ \A r \in Readers : pc[r] \notin {"idle", "signal", "leave"} => want[r] \in Lens

(* What a call has copied, or a reader is to return with, is what lies in  *)
(* the ring when the call moves its counter.                               *)
BytesInv ==
    ~isExit =>
        /\ \A w \in Writers : pc[w] = "commit" =>
              \A k \in 1 .. Len(arg[w]) : buf[Pos(in + k - 1)] = arg[w][k]
        /\ \A r \in Readers : pc[r] = "commit" =>
              dst[r] = IF op[r] = "del" THEN <<>>
                       ELSE [k \in 1 .. want[r] |-> buf[Pos(out + k - 1)]]

BytesOK == FifoInv /\ CallsInv /\ BytesInv

LEMMA CallsWrite ==
    ASSUME FifoInv, CallsInv, NEW w \in Writers, WriteCall(w) \/ WriteStep(w)
    PROVE  CallsInv'
<1> USE ThreadsAssumption DEF FifoInv, TypeOK, Threads, locks, calls, CallsInv
<1>1. CASE WriteCall(w)
  BY <1>1 DEF WriteCall
<1>2. CASE WriteLock(w) \/ WriteTest(w) \/ WritePark(w)
  BY <1>2 DEF WriteLock, WriteTest, WritePark
<1>3. CASE WriteWoken(w) \/ WriteAbort(w) \/ WriteCopy(w) \/ WriteCommit(w)
  BY <1>3 DEF WriteWoken, WriteAbort, WriteCopy, WriteCommit
<1>4. CASE WriteSignal(w)
  <2>1. CASE emptyWait = {} /\ Goto(w, "idle") /\ emptyWait' = {}
    BY <1>4, <2>1 DEF WriteSignal
  <2>2. ASSUME NEW s \in emptyWait, emptyWait' = emptyWait \ {s},
               pc' = [pc EXCEPT ![w] = "idle", ![s] = "relock"]
        PROVE  CallsInv'
    <3>1. s \in Readers /\ pc[s] = "wait" /\ want[s] \in Lens /\ s # w
      OBVIOUS
    <3>2. \A t \in Threads : pc'[t] = IF t = s THEN "relock" ELSE IF t = w THEN "idle" ELSE pc[t]
      BY <2>2, <3>1
    <3> QED BY <1>4, <2>2, <3>1, <3>2 DEF WriteSignal
  <2> QED BY <1>4, <2>1, <2>2 DEF WriteSignal, SignalAndReturn
<1> QED BY <1>1, <1>2, <1>3, <1>4 DEF WriteStep

LEMMA CallsRead ==
    ASSUME FifoInv, CallsInv, NEW r \in Readers, ReadCall(r) \/ ReadStep(r)
    PROVE  CallsInv'
<1> USE ThreadsAssumption DEF FifoInv, TypeOK, Threads, locks, calls, CallsInv
<1>1. CASE ReadCall(r)
  BY <1>1 DEF ReadCall
<1>2. CASE ReadLock(r) \/ ReadTest(r) \/ ReadPark(r)
  BY <1>2 DEF ReadLock, ReadTest, ReadPark
<1>3. CASE ReadWoken(r) \/ ReadAbort(r) \/ ReadCopy(r) \/ ReadCommit(r) \/ ReadLeave(r)
  BY <1>3 DEF ReadWoken, ReadAbort, ReadCopy, ReadCommit, ReadLeave
<1>4. CASE ReadSignal(r)
  <2>1. CASE fullWait = {} /\ Goto(r, "idle") /\ fullWait' = {}
    BY <1>4, <2>1 DEF ReadSignal
  <2>2. ASSUME NEW s \in fullWait, fullWait' = fullWait \ {s},
               pc' = [pc EXCEPT ![r] = "idle", ![s] = "relock"]
        PROVE  CallsInv'
    <3>1. s \in Writers /\ pc[s] = "wait" /\ arg[s] \in Payloads /\ s # r
      OBVIOUS
    <3>2. \A t \in Threads : pc'[t] = IF t = s THEN "relock" ELSE IF t = r THEN "idle" ELSE pc[t]
      BY <2>2, <3>1
    <3> QED BY <1>4, <2>2, <3>1, <3>2 DEF ReadSignal
  <2> QED BY <1>4, <2>1, <2>2 DEF ReadSignal, SignalAndReturn
<1> QED BY <1>1, <1>2, <1>3, <1>4 DEF ReadStep

LEMMA CallsOther ==
    ASSUME FifoInv, CallsInv,
           \/ ResetCall \/ ResetStep \/ DestroyBegin \/ DestroyStep
           \/ \E t \in Writers \cup Readers : SpuriousWake(t)
           \/ UNCHANGED vars
    PROVE  CallsInv'
<1> USE ThreadsAssumption DEF FifoInv, TypeOK, Threads, locks, calls, CallsInv
<1>1. CASE ResetCall \/ ResetStep
  BY <1>1 DEF ResetCall, ResetStep, ResetLockEmpty, ResetLockFull, ResetClear
<1>2. CASE DestroyBegin \/ DestroyFree
  BY <1>2 DEF DestroyBegin, DestroyFree
<1>3. CASE DestroyBroadcast
  BY <1>3 DEF DestroyBroadcast
<1>4. ASSUME NEW t \in Writers \cup Readers, SpuriousWake(t)
      PROVE  CallsInv'
  BY <1>4 DEF SpuriousWake
<1>5. CASE UNCHANGED vars
  BY <1>5 DEF vars
<1> QED BY <1>1, <1>2, <1>3, <1>4, <1>5 DEF DestroyStep

-----------------------------------------------------------------------------
(* A step that moves no byte and brings no call to its commit.             *)
LEMMA BytesFrame ==
    ASSUME BytesInv, UNCHANGED <<in, out, buf>>, isExit => isExit',
           \A w \in Writers : pc'[w] = "commit" => pc[w] = "commit" /\ arg'[w] = arg[w],
           \A r \in Readers : pc'[r] = "commit" => pc[r] = "commit" /\ op'[r] = op[r]
                                                  /\ want'[r] = want[r] /\ dst'[r] = dst[r]
    PROVE  BytesInv'
BY DEF BytesInv

LEMMA BytesWrite ==
    ASSUME FifoInv, BytesInv, NEW w \in Writers, WriteCall(w) \/ WriteStep(w)
    PROVE  BytesInv'
<1> SUFFICES ASSUME ~isExit PROVE BytesInv'
  BY DEF WriteStep, WriteCall, WriteLock, WriteTest, WritePark, WriteWoken, WriteAbort,
     WriteCopy, WriteCommit, WriteSignal, BytesInv
<1> USE ThreadsAssumption DEF TypeOK, Threads, locks, calls
<1>0. TypeOK
  BY DEF FifoInv
<1>1. CASE WriteCall(w) \/ WriteLock(w) \/ WriteTest(w) \/ WritePark(w)
  BY <1>0, <1>1, BytesFrame DEF WriteCall, WriteLock, WriteTest, WritePark
<1>2. CASE WriteWoken(w) \/ WriteAbort(w)
  BY <1>0, <1>2, BytesFrame DEF WriteWoken, WriteAbort
<1>3. CASE WriteCopy(w)
  <2>1. arg[w] \in Seq(Nat) /\ Used + Len(arg[w]) <= Capacity
    BY <1>3, CallTypes DEF WriteCopy, FifoInv, WindowSafe
  <2>2. /\ \A k \in 1 .. Used : buf'[Pos(out + k - 1)] = buf[Pos(out + k - 1)]
        /\ \A k \in 1 .. Len(arg[w]) : buf'[Pos(in + k - 1)] = arg[w][k]
    BY <1>0, <1>3, <2>1, ContentsAfterCopy DEF WriteCopy
  <2>3. \A v \in Writers : pc'[v] = "commit" => v = w
    BY <1>0, <1>3 DEF WriteCopy, FifoInv, HoldsLock
  <2>4. ASSUME NEW r \in Readers, pc'[r] = "commit", op[r] # "del"
        PROVE  dst[r] = [k \in 1 .. want[r] |-> buf'[Pos(out + k - 1)]]
    <3>1. pc[r] = "commit" /\ want[r] \in Nat /\ Used \in Nat /\ want[r] <= Used
      BY <1>0, <1>3, <2>4, CallTypes, ContentsType, SizeAssumption
         DEF WriteCopy, FifoInv, WindowSafe
    <3>2. dst[r] = [k \in 1 .. want[r] |-> buf[Pos(out + k - 1)]]
      BY <2>4, <3>1 DEF BytesInv
    <3> QED BY <2>2, <3>1, <3>2
  <2>5. /\ UNCHANGED <<in, out, isExit, calls>>
        /\ \A r \in Readers : pc'[r] = "commit" => pc[r] = "commit"
    BY <1>0, <1>3 DEF WriteCopy
  <2>6. \A v \in Writers : pc'[v] = "commit" =>
            \A k \in 1 .. Len(arg'[v]) : buf'[Pos(in' + k - 1)] = arg'[v][k]
    BY <2>2, <2>3, <2>5
  <2>7. \A r \in Readers : pc'[r] = "commit" =>
            dst'[r] = IF op'[r] = "del" THEN <<>>
                      ELSE [k \in 1 .. want'[r] |-> buf'[Pos(out' + k - 1)]]
    <3> SUFFICES ASSUME NEW r \in Readers, pc'[r] = "commit"
                 PROVE  dst'[r] = IF op'[r] = "del" THEN <<>>
                                  ELSE [k \in 1 .. want'[r] |-> buf'[Pos(out' + k - 1)]]
      OBVIOUS
    <3>1. op[r] = "del" => dst[r] = <<>>
      BY <2>5 DEF BytesInv
    <3>2. dst'[r] = dst[r] /\ op'[r] = op[r] /\ want'[r] = want[r] /\ out' = out
      BY <2>5
    <3> QED BY <2>4, <3>1, <3>2
  <2> QED BY <2>6, <2>7 DEF BytesInv
<1>4. CASE WriteCommit(w)
  <2>1. \A v \in Writers : pc'[v] # "commit"
    BY <1>0, <1>4 DEF WriteCommit, FifoInv, HoldsLock
  <2> QED BY <1>0, <1>4, <2>1 DEF WriteCommit, BytesInv
<1>5. CASE WriteSignal(w)
  <2>1. \A u \in Threads : pc'[u] \in {"idle", "relock"} \/ pc'[u] = pc[u]
    BY <1>0, <1>5 DEF WriteSignal, SignalAndReturn
  <2> QED BY <1>0, <1>5, <2>1, BytesFrame DEF WriteSignal
<1> QED BY <1>1, <1>2, <1>3, <1>4, <1>5 DEF WriteStep

LEMMA BytesRead ==
    ASSUME FifoInv, BytesInv, NEW r \in Readers, ReadCall(r) \/ ReadStep(r)
    PROVE  BytesInv'
<1> SUFFICES ASSUME ~isExit PROVE BytesInv'
  BY DEF ReadStep, ReadCall, ReadLock, ReadTest, ReadPark, ReadWoken, ReadAbort,
     ReadCopy, ReadCommit, ReadSignal, ReadLeave, BytesInv
<1> USE ThreadsAssumption DEF TypeOK, Threads, locks, calls
<1>0. TypeOK
  BY DEF FifoInv
<1>1. CASE ReadCall(r) \/ ReadLock(r) \/ ReadTest(r) \/ ReadPark(r)
  BY <1>0, <1>1, BytesFrame DEF ReadCall, ReadLock, ReadTest, ReadPark
<1>2. CASE ReadWoken(r) \/ ReadAbort(r) \/ ReadLeave(r)
  BY <1>0, <1>2, BytesFrame DEF ReadWoken, ReadAbort, ReadLeave
<1>3. CASE ReadCopy(r)
  <2>1. want[r] \in Nat /\ want[r] <= Capacity
    BY <1>0, <1>3, CallTypes, ContentsType, SizeAssumption DEF ReadCopy, FifoInv, WindowSafe
  <2>2. dst'[r] = IF op[r] = "del" THEN <<>>
                  ELSE [k \in 1 .. want[r] |-> buf[Pos(out + k - 1)]]
    BY <1>0, <1>3, <2>1, CopyOutIs DEF ReadCopy
  <2>3. /\ UNCHANGED <<in, out, buf, isExit, arg, op, want>>
        /\ \A t \in Threads : t # r => pc'[t] = pc[t]
        /\ \A s \in Readers : s # r => dst'[s] = dst[s]
    BY <1>0, <1>3 DEF ReadCopy
  <2>4. \A w \in Writers : pc'[w] = "commit" =>
            \A k \in 1 .. Len(arg'[w]) : buf'[Pos(in' + k - 1)] = arg'[w][k]
    BY <2>3 DEF BytesInv
  <2>5. ASSUME NEW s \in Readers, pc'[s] = "commit"
        PROVE  dst'[s] = IF op'[s] = "del" THEN <<>>
                         ELSE [k \in 1 .. want'[s] |-> buf'[Pos(out' + k - 1)]]
    <3>1. UNCHANGED <<out, buf, op, want>>
      BY <2>3
    <3>2. CASE s = r
      BY <2>2, <3>1, <3>2
    <3>3. CASE s # r
      BY <2>3, <2>5, <3>1, <3>3 DEF BytesInv
    <3> QED BY <3>2, <3>3
  <2> QED BY <2>4, <2>5 DEF BytesInv
<1>4. CASE ReadCommit(r)
  <2>1. \A s \in Readers : pc'[s] # "commit"
    BY <1>0, <1>4 DEF ReadCommit, FifoInv, HoldsLock
  <2> QED BY <1>0, <1>4, <2>1 DEF ReadCommit, BytesInv
<1>5. CASE ReadSignal(r)
  <2>1. \A u \in Threads : pc'[u] \in {"idle", "relock"} \/ pc'[u] = pc[u]
    BY <1>0, <1>5 DEF ReadSignal, SignalAndReturn
  <2>2. \A s \in Readers : s # r => dst'[s] = dst[s] /\ op'[s] = op[s]
    BY <1>0, <1>5 DEF ReadSignal
  <2>3. pc'[r] # "commit"
    BY <1>0, <1>5 DEF ReadSignal, SignalAndReturn
  <2> QED BY <1>0, <1>5, <2>1, <2>2, <2>3, BytesFrame DEF ReadSignal
<1> QED BY <1>1, <1>2, <1>3, <1>4, <1>5 DEF ReadStep

LEMMA BytesOther ==
    ASSUME FifoInv, BytesInv,
           \/ ResetCall \/ ResetStep \/ DestroyBegin \/ DestroyStep
           \/ \E t \in Writers \cup Readers : SpuriousWake(t)
           \/ UNCHANGED vars
    PROVE  BytesInv'
<1> USE ThreadsAssumption DEF TypeOK, Threads, locks, calls
<1>0. TypeOK
  BY DEF FifoInv
<1>1. CASE ResetCall \/ ResetLockEmpty \/ ResetLockFull
  BY <1>0, <1>1, BytesFrame DEF ResetCall, ResetLockEmpty, ResetLockFull
<1>2. CASE ResetClear
  <2>1. ~isExit => \A t \in Writers \cup Readers : pc'[t] # "commit"
    BY <1>0, <1>2 DEF ResetClear, FifoInv, HoldsLock
  <2> QED BY <1>2, <2>1 DEF ResetClear, BytesInv
<1>3. CASE DestroyBegin
  BY <1>3 DEF DestroyBegin, BytesInv
<1>4. CASE DestroyBroadcast \/ DestroyFree
  BY <1>0, <1>4, BytesFrame DEF DestroyBroadcast, DestroyFree
<1>5. ASSUME NEW t \in Writers \cup Readers, SpuriousWake(t)
      PROVE  BytesInv'
  BY <1>0, <1>5, BytesFrame DEF SpuriousWake
<1>6. CASE UNCHANGED vars
  BY <1>6 DEF vars, BytesInv
<1> QED BY <1>1, <1>2, <1>3, <1>4, <1>5, <1>6 DEF ResetStep, DestroyStep

LEMMA BytesSafe == Spec => []BytesOK
<1>1. Init => CallsInv /\ BytesInv
  BY ThreadsAssumption DEF Init, CallsInv, BytesInv, Threads
<1>2. FifoInv /\ CallsInv /\ BytesInv /\ [Next]_vars => CallsInv' /\ BytesInv'
  BY CallsWrite, CallsRead, CallsOther, BytesWrite, BytesRead, BytesOther DEF Next
<1>3. Spec => []FifoInv
  BY FifoSafe DEF FifoInv
<1> QED BY <1>1, <1>2, <1>3, PTL DEF Spec, BytesOK

-----------------------------------------------------------------------------
(* The refinement: until Destroy begins each step of any thread is a step  *)
(* of the bounded fifo, or none.                                           *)

(* What a reader that is about to return has got.                          *)
Shown(r) == IF ~isExit /\ pc[r] \in {"signal", "leave"} THEN dst[r] ELSE <<>>
Results  == [r \in Readers |-> Shown(r)]

LEMMA RefineStutter ==
    ASSUME isExit' = isExit,
           isExit \/ (Contents' = Contents /\ \A r \in Readers : Shown(r)' = Shown(r))
    PROVE  UNCHANGED Fifo!vars
<1>1. \A r \in Readers : Shown(r)' = Shown(r)
  BY DEF Shown
<1>2. Results' = Results
  BY <1>1 DEF Results
<1> QED BY <1>2 DEF Results, Shown, Fifo!vars

(* Moving one reader's program counter.                                    *)
LEMMA ShownExcept ==
    ASSUME NEW r \in Readers, NEW v, Shown(r)' = v,
           \A s \in Readers : s # r => Shown(s)' = Shown(s)
    PROVE  Results' = [Results EXCEPT ![r] = v]
<1>1. Results' = [s \in Readers |-> IF s = r THEN v ELSE Shown(s)]
  BY DEF Results
<1>2. [Results EXCEPT ![r] = v] = [s \in Readers |-> IF s = r THEN v ELSE Shown(s)]
  BY DEF Results
<1> QED BY <1>1, <1>2

LEMMA RefineWrite ==
    ASSUME BytesOK, ~isExit, NEW w \in Writers, WriteCall(w) \/ WriteStep(w)
    PROVE  [Fifo!Next]_Fifo!vars
<1> USE ThreadsAssumption DEF Threads, locks, calls
<1>0. /\ isExit' = isExit /\ dst' = dst /\ RingTypeOK /\ TypeOK
      /\ pc \in [Threads -> WriterPC \cup ReaderPC \cup OwnerPC]
  BY DEF WriteStep, WriteCall, WriteLock, WriteTest, WritePark, WriteWoken, WriteAbort,
     WriteCopy, WriteCommit, WriteSignal, BytesOK, FifoInv, TypeOK
<1>1. \A r \in Readers : Shown(r)' = Shown(r)
  <2>1. ASSUME ~WriteSignal(w) PROVE \A r \in Readers : pc'[r] = pc[r]
    BY <1>0, <2>1 DEF WriteStep, WriteCall, WriteLock, WriteTest, WritePark, WriteWoken,
       WriteAbort, WriteCopy, WriteCommit
  <2>2. ASSUME WriteSignal(w), NEW r \in Readers
        PROVE  pc'[r] = pc[r] \/ (pc[r] = "wait" /\ pc'[r] = "relock")
    BY <1>0, <2>2 DEF WriteSignal, SignalAndReturn, BytesOK, CallsInv
  <2> QED BY <1>0, <2>1, <2>2 DEF Shown
<1>2. CASE WriteCopy(w)
  <2>1. arg[w] \in Seq(Nat) /\ Used + Len(arg[w]) <= Capacity
    BY <1>2, <1>0, CallTypes DEF WriteCopy, BytesOK, FifoInv, WindowSafe
  <2>2. Contents' = Contents
    BY <1>0, <1>2, <2>1, ContentsAfterCopy DEF WriteCopy
  <2> QED BY <1>0, <1>1, <2>2, RefineStutter
<1>3. CASE WriteCommit(w)
  <2>1. /\ arg[w] \in Payloads /\ arg[w] \in Seq(Nat) /\ Used + Len(arg[w]) <= Capacity
        /\ \A k \in 1 .. Len(arg[w]) : buf[Pos(in + k - 1)] = arg[w][k]
    BY <1>3, <1>0, CallTypes
       DEF WriteCommit, BytesOK, FifoInv, WindowSafe, CallsInv, BytesInv
  <2>2. Contents' = Contents \o arg[w] /\ Len(Contents) = Used
    BY <1>0, <1>3, <2>1, ContentsAfterWrite, ContentsType DEF WriteCommit
  <2>3. Results' = Results
    BY <1>1 DEF Results
  <2>4. Fifo!Put(arg[w])
    BY <1>0, <2>1, <2>2, <2>3 DEF Fifo!Put, Results, Shown
  <2> QED BY <2>1, <2>4 DEF Fifo!Next
<1>4. CASE ~WriteCopy(w) /\ ~WriteCommit(w)
  <2>1. UNCHANGED <<in, out, buf>>
    BY <1>4 DEF WriteStep, WriteCall, WriteLock, WriteTest, WritePark, WriteWoken,
       WriteAbort, WriteSignal
  <2>2. Contents' = Contents
    BY <2>1 DEF Contents, Used, U32
  <2> QED BY <1>0, <1>1, <2>2, RefineStutter
<1> QED BY <1>2, <1>3, <1>4

LEMMA RefineReadCommit ==
    ASSUME BytesOK, ~isExit, NEW r \in Readers, ReadCommit(r)
    PROVE  Fifo!Next
<1> USE ThreadsAssumption DEF Threads, locks, calls
<1>0. TypeOK /\ RingTypeOK /\ CallsInv
  BY DEF BytesOK, FifoInv, TypeOK
<1>1. /\ want[r] \in Lens /\ want[r] \in Nat /\ want[r] <= Used /\ Used \in Nat
      /\ Contents \in Seq(Nat) /\ Len(Contents) = Used
  BY <1>0, CallTypes, ContentsType, SizeAssumption
     DEF ReadCommit, BytesOK, FifoInv, WindowSafe, CallsInv
<1>2. /\ pc[r] = "commit" /\ pc' = [pc EXCEPT ![r] = IF op[r] = "peek" THEN "leave" ELSE "signal"]
      /\ isExit' = isExit /\ dst' = dst /\ in' = in /\ buf' = buf
      /\ out' = IF op[r] = "peek" THEN out ELSE U32(out + want[r])
  BY DEF ReadCommit
<1>3. Results' = [Results EXCEPT ![r] = dst[r]]
  <2>1. Shown(r)' = dst[r]
    BY <1>0, <1>2 DEF Shown, TypeOK
  <2>2. \A s \in Readers : s # r => Shown(s)' = Shown(s)
    BY <1>0, <1>2 DEF Shown, TypeOK
  <2> QED BY <2>1, <2>2, ShownExcept
<1>4. dst[r] = IF op[r] = "del" THEN <<>> ELSE Fifo!Prefix(Contents, want[r])
  BY <1>0, <1>1, <1>2, ContentsPrefix DEF BytesOK, BytesInv, Fifo!Prefix
<1>5. op[r] # "peek" => Contents' = Fifo!Rest(Contents, want[r])
  BY <1>0, <1>1, <1>2, ContentsAfterRead DEF Fifo!Rest
<1>9. PICK n \in Lens : n = want[r]
  BY <1>1
<1>6. CASE op[r] = "peek"
  <2>1. Contents' = Contents
    BY <1>2, <1>6 DEF Contents, Used, U32
  <2>2. Fifo!Peek(r, n)
    BY <1>1, <1>9, <1>2, <1>3, <1>4, <1>6, <2>1 DEF Fifo!Peek, Results, Shown
  <2> QED BY <1>2, <2>2 DEF Fifo!Next
<1>7. CASE op[r] = "read"
  <2>1. Fifo!Get(r, n)
    BY <1>1, <1>9, <1>2, <1>3, <1>4, <1>5, <1>7 DEF Fifo!Get, Results, Shown
  <2> QED BY <1>2, <2>1 DEF Fifo!Next
<1>8. CASE op[r] = "del"
  <2>1. Results' = Results
    <3>1. Shown(r) = <<>> /\ dst[r] = <<>>
      BY <1>2, <1>4, <1>8 DEF Shown
    <3>2. [Results EXCEPT ![r] = <<>>] = Results
      BY <3>1 DEF Results
    <3> QED BY <1>3, <3>1, <3>2
  <2>2. Fifo!Drop(n)
    BY <1>1, <1>9, <1>2, <1>5, <1>8, <2>1 DEF Fifo!Drop, Results, Shown
  <2> QED BY <1>2, <2>2 DEF Fifo!Next
<1> QED BY <1>0, <1>6, <1>7, <1>8 DEF TypeOK, Ops

LEMMA RefineRead ==
    ASSUME BytesOK, ~isExit, NEW r \in Readers, ReadCall(r) \/ ReadStep(r)
    PROVE  [Fifo!Next]_Fifo!vars
<1> USE ThreadsAssumption DEF Threads, locks, calls
<1>0. TypeOK /\ CallsInv /\ pc \in [Threads -> WriterPC \cup ReaderPC \cup OwnerPC]
  BY DEF BytesOK, FifoInv, TypeOK
<1>1. CASE ReadCommit(r)
  BY <1>1, RefineReadCommit
<1>2. ~ReadCommit(r) => isExit' = isExit /\ Contents' = Contents
  <2>1. ~ReadCommit(r) => isExit' = isExit /\ UNCHANGED <<in, out, buf>>
    BY DEF ReadStep, ReadCall, ReadLock, ReadTest, ReadPark, ReadWoken, ReadAbort, ReadCopy,
       ReadSignal, ReadLeave
  <2> QED BY <2>1 DEF Contents, Used, U32
<1>3. CASE ReadSignal(r) \/ ReadLeave(r)
  <2>1. ~ReadCommit(r)
    BY <1>3 DEF ReadSignal, ReadLeave, ReadCommit
  <2>2. pc'[r] = "idle"
    BY <1>0, <1>3 DEF ReadSignal, ReadLeave, SignalAndReturn, TypeOK
  <2>3. \A s \in Readers : s # r => pc'[s] = pc[s] /\ dst'[s] = dst[s]
    BY <1>0, <1>3 DEF ReadSignal, ReadLeave, SignalAndReturn, TypeOK
  <2>4. Results' = [Results EXCEPT ![r] = <<>>]
    <3>1. Shown(r)' = <<>> /\ \A s \in Readers : s # r => Shown(s)' = Shown(s)
      BY <1>2, <2>1, <2>2, <2>3 DEF Shown
    <3> QED BY <3>1, ShownExcept
  <2>5. Fifo!Return(r)
    BY <1>2, <2>1, <2>4 DEF Fifo!Return, Results, Shown
  <2> QED BY <2>1, <2>5 DEF Fifo!Next
<1>4. CASE ReadCall(r) \/ ReadLock(r) \/ ReadTest(r) \/ ReadPark(r)
  <2>1. \A s \in Readers : Shown(s)' = Shown(s)
    BY <1>0, <1>4 DEF ReadCall, ReadLock, ReadTest, ReadPark, Shown
  <2>2. ~ReadCommit(r)
    BY <1>4 DEF ReadCall, ReadLock, ReadTest, ReadPark, ReadCommit
  <2> QED BY <1>2, <2>1, <2>2, RefineStutter
<1>5. CASE ReadWoken(r) \/ ReadAbort(r) \/ ReadCopy(r)
  <2>1. \A s \in Readers : Shown(s)' = Shown(s)
    BY <1>0, <1>5 DEF ReadWoken, ReadAbort, ReadCopy, TypeOK, Shown
  <2>2. ~ReadCommit(r)
    BY <1>5 DEF ReadWoken, ReadAbort, ReadCopy, ReadCommit
  <2> QED BY <1>2, <2>1, <2>2, RefineStutter
<1> QED BY <1>1, <1>3, <1>4, <1>5 DEF ReadStep

LEMMA RefineOther ==
    ASSUME BytesOK, ~isExit,
           \/ ResetCall \/ ResetStep \/ DestroyBegin \/ DestroyStep
           \/ \E t \in Writers \cup Readers : SpuriousWake(t)
           \/ UNCHANGED vars
    PROVE  [Fifo!Next]_Fifo!vars
<1> USE ThreadsAssumption DEF Threads, locks, calls
<1>0. TypeOK /\ pc \in [Threads -> WriterPC \cup ReaderPC \cup OwnerPC]
  BY DEF BytesOK, FifoInv, TypeOK
<1>1. CASE DestroyBegin
  <2>1. isExit'
    BY <1>1 DEF DestroyBegin
  <2>2. Fifo!Close
    BY <2>1 DEF Fifo!Close
  <2> QED BY <2>2 DEF Fifo!Next
<1>2. CASE ResetClear
  <2>1. Used' = 0 /\ isExit' = isExit
    BY <1>2, SizeAssumption DEF ResetClear, RingReset, Used, U32
  <2>2. Contents' = <<>>
    BY <2>1 DEF Contents
  <2>3. \A r \in Readers : Shown(r)' = Shown(r)
    BY <1>0, <1>2 DEF ResetClear, Shown
  <2>4. Results' = Results
    BY <2>3 DEF Results
  <2>5. Fifo!Clear
    BY <2>1, <2>2, <2>4 DEF Fifo!Clear, Results, Shown
  <2> QED BY <2>5 DEF Fifo!Next
<1>3. CASE \/ ResetCall \/ ResetLockEmpty \/ ResetLockFull \/ DestroyStep
           \/ \E t \in Writers \cup Readers : SpuriousWake(t)
           \/ UNCHANGED vars
  <2>1. UNCHANGED <<in, out, buf, dst, isExit>>
    BY <1>3 DEF ResetCall, ResetLockEmpty, ResetLockFull, DestroyStep, DestroyBroadcast,
       DestroyFree, SpuriousWake, vars
  <2>2. Contents' = Contents
    BY <2>1 DEF Contents, Used, U32
  <2>3. ASSUME NEW r \in Readers
        PROVE  pc'[r] = pc[r] \/ (pc[r] = "wait" /\ pc'[r] = "relock")
    <3>1. CASE DestroyBroadcast
      BY <1>0, <3>1 DEF DestroyBroadcast, BytesOK, CallsInv, TypeOK
    <3>2. ASSUME NEW t \in Writers \cup Readers, SpuriousWake(t)
          PROVE  pc'[r] = pc[r] \/ (pc[r] = "wait" /\ pc'[r] = "relock")
      BY <1>0, <3>2 DEF SpuriousWake
    <3>3. CASE ResetCall \/ ResetLockEmpty \/ ResetLockFull \/ DestroyFree \/ UNCHANGED vars
      BY <1>0, <3>3 DEF ResetCall, ResetLockEmpty, ResetLockFull, DestroyFree, vars
    <3> QED BY <1>3, <3>1, <3>2, <3>3 DEF DestroyStep
  <2>4. \A r \in Readers : Shown(r)' = Shown(r)
    BY <2>1, <2>3 DEF Shown
  <2> QED BY <2>1, <2>2, <2>4, RefineStutter
<1> QED BY <1>1, <1>2, <1>3 DEF ResetStep

(* Any number of threads around the ring, its two mutexes and its          *)
(* conditions: until Destroy begins they see a bounded fifo, from which    *)
(* each read takes or copies the oldest bytes, whole and in order.         *)
THEOREM RingImplementsFifo == Spec => ImplementsFifo
<1>1. Init => Fifo!Init
  <2> SUFFICES ASSUME Init PROVE Fifo!Init
    OBVIOUS
  <2>1. Used = 0 /\ ~isExit /\ \A r \in Readers : Shown(r) = <<>>
    BY SizeAssumption, ThreadsAssumption DEF Init, RingInit, Used, U32, Shown, Threads
  <2>2. Contents = <<>> /\ Results = [r \in Readers |-> <<>>]
    BY <2>1 DEF Contents, Results
  <2> QED BY <2>1, <2>2 DEF Fifo!Init, Results, Shown, Init
<1>2. BytesOK /\ [Next]_vars => [Fifo!Next]_Fifo!vars
  <2> SUFFICES ASSUME BytesOK, [Next]_vars PROVE [Fifo!Next]_Fifo!vars
    OBVIOUS
  <2>1. CASE isExit
    <3>1. isExit' = isExit
      BY <2>1 DEF Next, vars, WriteCall, WriteStep, WriteLock, WriteTest, WritePark, WriteWoken,
         WriteAbort, WriteCopy, WriteCommit, WriteSignal, ReadCall, ReadStep, ReadLock, ReadTest,
         ReadPark, ReadWoken, ReadAbort, ReadCopy, ReadCommit, ReadSignal, ReadLeave,
         SpuriousWake, ResetCall, ResetStep, ResetLockEmpty, ResetLockFull, ResetClear,
         DestroyBegin, DestroyStep, DestroyBroadcast, DestroyFree
    <3> QED BY <2>1, <3>1, RefineStutter
  <2>2. CASE ~isExit
    BY <2>2, RefineWrite, RefineRead, RefineOther DEF Next
  <2> QED BY <2>1, <2>2
<1> QED BY <1>1, <1>2, BytesSafe, PTL DEF Spec, ImplementsFifo, Fifo!Spec
=============================================================================
