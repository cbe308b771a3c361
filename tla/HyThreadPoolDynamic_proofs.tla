---------------------- MODULE HyThreadPoolDynamic_proofs ----------------------
(***************************************************************************)
(* For every size of the pool and of its queue, and any number of tasks:   *)
(* no task is lost or run twice, the live count is the number of workers   *)
(* that serve, Destroy frees the pool when all of them have ended, and the *)
(* queue is a plain bounded fifo.                                          *)
(***************************************************************************)
EXTENDS HyThreadPoolDynamic, FiniteSetTheorems, TLAPS

(* The representation of the queue: the write position is where the items  *)
(* end, and the items are the latest tasks added, in order.                *)
Wrap(pos) == IF pos < QueueCapacity THEN pos ELSE pos - QueueCapacity
Taken     == added - len

QueueInv ==
    /\ writePos = Wrap(readPos + len)
    /\ len <= added
    /\ \A k \in 1 .. len : ring[Wrap(readPos + k - 1)] = Taken + k

(* A task that was taken has run, or one worker holds it and it has not.   *)
Holds(s) == wpc[s] \in {"took", "run"}

TaskInv ==
    /\ \A s \in Slots : task[s] # NoTask <=> Holds(s)
    /\ \A s \in Slots : Holds(s) => task[s] <= Taken /\ ran[task[s]] = 0
    /\ \A s, r \in Slots : Holds(s) /\ task[s] = task[r] => s = r
    /\ \A t \in Tasks : t > Taken => ran[t] = 0
    /\ \A t \in Tasks : t <= Taken =>
          ran[t] = 1 \/ (ran[t] = 0 /\ \E s \in Slots : task[s] = t)

(* How far the manager and Destroy are.                                    *)
PhaseInv ==
    /\ isExit <=> cpc \in {"joinManager", "wake", "join", "gone"}
    /\ freed <=> cpc = "gone"
    /\ ~isExit => minThreads = MinThreads
    /\ cpc \in {"wake", "join", "gone"} => mpc = "dead"
    /\ cpc = "full" => added < TaskCount
    /\ cpc = "wake" => joined <= MinThreads
    /\ cpc = "join" => joined >= 1
    /\ cpc = "gone" => joined = MaxThreads + 1
    /\ held <=> mpc \in {"create", "record"}
    /\ mpc = "record" => next \in Slots /\ live < MaxThreads /\ count < Batch
    /\ mpc = "wake" => count < Batch

(* A slot without a handle has no thread, but for the one the manager is   *)
(* about to record and those Destroy has joined, whose threads have ended. *)
SlotInv ==
    \A s \in Slots :
        IF mpc = "record" /\ s = next
        THEN ~handle[s] /\ ~flag[s] /\ wpc[s] # "none"
        ELSE /\ IF cpc \in {"join", "gone"} /\ s < joined
                THEN ~handle[s] /\ wpc[s] \in {"none", "dead"}
                ELSE handle[s] <=> wpc[s] # "none"
             /\ flag[s] => wpc[s] # "none"

(* The counts; live_num lags one behind while the manager stores a handle. *)
Servers == {s \in Slots : Serving(s)}
Running == {s \in Slots : wpc[s] = "run"}

CountInv ==
    /\ busy = Cardinality(Running)
    /\ ~StartMayFail /\ ~isExit =>
          /\ Cardinality(Servers) = IF mpc = "record" THEN live + 1 ELSE live
          /\ live >= MinThreads

PoolInv == TypeOK /\ QueueInv /\ TaskInv /\ PhaseInv /\ SlotInv /\ CountInv

-----------------------------------------------------------------------------
(* The queue.                                                              *)

LEMMA ModIsWrap ==
    ASSUME NEW x \in 0 .. 2 * QueueCapacity - 1
    PROVE  x % QueueCapacity = Wrap(x) /\ Wrap(x) \in 0 .. QueueCapacity - 1
BY QueueAssumption DEF Wrap

(* Where the items are, without a division.                                *)
LEMMA ContentsAre ==
    ASSUME TypeOK
    PROVE  /\ QueueContents = [k \in 1 .. len |-> ring[Wrap(readPos + k - 1)]]
           /\ \A k \in 1 .. len : Wrap(readPos + k - 1) \in 0 .. QueueCapacity - 1
           /\ Advance(readPos) = Wrap(readPos + 1) /\ Advance(writePos) = Wrap(writePos + 1)
<1> USE QueueAssumption DEF TypeOK, QueueTypeOK
<1>1. ASSUME NEW k \in 1 .. len
      PROVE  /\ (readPos + k - 1) % QueueCapacity = Wrap(readPos + k - 1)
             /\ Wrap(readPos + k - 1) \in 0 .. QueueCapacity - 1
  <2>1. readPos + k - 1 \in 0 .. 2 * QueueCapacity - 1
    OBVIOUS
  <2> QED BY <2>1, ModIsWrap
<1>2. readPos + 1 \in 0 .. 2 * QueueCapacity - 1 /\ writePos + 1 \in 0 .. 2 * QueueCapacity - 1
  OBVIOUS
<1>3. Advance(readPos) = Wrap(readPos + 1) /\ Advance(writePos) = Wrap(writePos + 1)
  BY <1>2, ModIsWrap DEF Advance
<1> QED BY <1>1, <1>3 DEF QueueContents

LEMMA ReleasedSubset ==
    ASSUME NEW W, NEW V \in Released(W)
    PROVE  V \subseteq W
BY DEF Released

LEMMA PoolConstants ==
    /\ MinThreads \in Nat /\ MaxThreads \in Nat /\ MinThreads <= MaxThreads
    /\ Batch \in Nat \ {0} /\ TaskCount \in Nat /\ StartMayFail \in BOOLEAN
    /\ QueueCapacity \in Nat \ {0} /\ ItemSize \in Nat \ {0} /\ NoItem = 0
BY PoolAssumption, QueueAssumption, ItemAssumption DEF NoTask

(* What the operations of the queue do to its types.                       *)
LEMMA QueueStepTypes ==
    ASSUME TypeOK
    PROVE  LET Q == QueueTypeOK(Slots \cup {Client}, Tasks)' IN
           /\ Front \in Tasks \cup {NoTask}
           /\ TakeFront => Q
           /\ \A s \in Slots : BlockOnEmpty(s) => Q
           /\ \A x \in Tasks : PutBack(x) => Q
           /\ BlockOnFull(Client) => Q
           /\ Wakeup => Q
           /\ \A t : WaitEndsSpuriously(t) => Q
           /\ UNCHANGED queueVars => Q
<1> USE PoolConstants DEF QueueTypeOK
<1>1. /\ readPos \in 0 .. QueueCapacity - 1 /\ writePos \in 0 .. QueueCapacity - 1
      /\ len \in 0 .. QueueCapacity /\ ring \in [0 .. QueueCapacity - 1 -> Tasks \cup {NoTask}]
      /\ notEmpty \subseteq Slots \cup {Client} /\ notFull \subseteq Slots \cup {Client}
  BY DEF TypeOK, NoTask
<1>2. Advance(readPos) \in 0 .. QueueCapacity - 1 /\ Advance(writePos) \in 0 .. QueueCapacity - 1
  <2>1. readPos + 1 \in 0 .. 2 * QueueCapacity - 1 /\ writePos + 1 \in 0 .. 2 * QueueCapacity - 1
    BY <1>1
  <2> QED BY <2>1, ModIsWrap DEF Advance
<1>3. Front \in Tasks \cup {NoTask}
  BY <1>1 DEF Front
<1>4. TakeFront => QueueTypeOK(Slots \cup {Client}, Tasks)'
  BY <1>1, <1>2, ReleasedSubset DEF TakeFront, NoTask
<1>5. ASSUME NEW s \in Slots, BlockOnEmpty(s)
      PROVE  QueueTypeOK(Slots \cup {Client}, Tasks)'
  BY <1>1, <1>5 DEF BlockOnEmpty, NoTask
<1>6. ASSUME NEW x \in Tasks, PutBack(x)
      PROVE  QueueTypeOK(Slots \cup {Client}, Tasks)'
  BY <1>1, <1>2, <1>6, ReleasedSubset DEF PutBack, NoTask
<1>7. BlockOnFull(Client) => QueueTypeOK(Slots \cup {Client}, Tasks)'
  BY <1>1 DEF BlockOnFull, NoTask
<1>8. Wakeup => QueueTypeOK(Slots \cup {Client}, Tasks)'
  BY <1>1, ReleasedSubset DEF Wakeup, NoTask
<1>9. ASSUME NEW t, WaitEndsSpuriously(t)
      PROVE  QueueTypeOK(Slots \cup {Client}, Tasks)'
  BY <1>1, <1>9 DEF WaitEndsSpuriously, NoTask
<1>10. UNCHANGED queueVars => QueueTypeOK(Slots \cup {Client}, Tasks)'
  BY <1>1 DEF queueVars, NoTask
<1> QED BY <1>3, <1>4, <1>5, <1>6, <1>7, <1>8, <1>9, <1>10

-----------------------------------------------------------------------------
(* PoolInv is inductive: the types.                                        *)

LEMMA TypeInit == Init => TypeOK
<1> SUFFICES ASSUME Init PROVE TypeOK
  OBVIOUS
<1> USE PoolConstants
<1>1. QueueTypeOK(Slots \cup {Client}, Tasks)
  BY DEF Init, QueueInit, QueueTypeOK
<1>2. /\ handle \in [Slots -> BOOLEAN] /\ flag \in [Slots -> BOOLEAN]
      /\ wpc \in [Slots -> {"none", "start"}]
  BY DEF Init
<1>3. load \in [queue : {ItemSize * n : n \in 0 .. QueueCapacity},
                live : 0 .. MaxThreads, busy : 0 .. MaxThreads]
  <2>1. 0 = ItemSize * 0
    OBVIOUS
  <2> QED BY <2>1 DEF Init, NoLoad
<1>4. /\ live \in 0 .. MaxThreads /\ exitNum \in 0 .. Batch /\ busy \in 0 .. MaxThreads
      /\ next \in 1 .. MaxThreads + 1 /\ count \in 0 .. Batch
      /\ added \in 0 .. TaskCount /\ joined \in 0 .. MaxThreads + 1
  BY DEF Init
<1>5. ran \in [Tasks -> Nat] /\ task \in [Slots -> Tasks \cup {NoTask}]
  BY DEF Init
<1> QED BY <1>1, <1>2, <1>3, <1>4, <1>5 DEF Init, TypeOK

(* Some of the slots: how many, and what one slot more or less changes.    *)
LEMMA SlotCount ==
    ASSUME NEW S \in SUBSET Slots, NEW s \in Slots
    PROVE  /\ IsFiniteSet(S) /\ Cardinality(S) \in 0 .. MaxThreads
           /\ s \in S => Cardinality(S \ {s}) = Cardinality(S) - 1 /\ Cardinality(S) > 0
           /\ s \notin S => /\ Cardinality(S \cup {s}) = Cardinality(S) + 1
                           /\ Cardinality(S) < MaxThreads
<1>1. IsFiniteSet(Slots) /\ Cardinality(Slots) = MaxThreads
  BY FS_Interval, PoolConstants DEF Slots
<1>2. IsFiniteSet(S) /\ Cardinality(S) <= MaxThreads /\ Cardinality(S) \in Nat
  BY <1>1, FS_Subset, FS_CardinalityType
<1>3. CASE s \in S
  <2>1. Cardinality(S \ {s}) = Cardinality(S) - 1 /\ Cardinality(S \ {s}) \in Nat
    BY <1>2, <1>3, FS_RemoveElement, FS_CardinalityType
  <2> QED BY <1>2, <1>3, <2>1, PoolConstants
<1>4. CASE s \notin S
  <2>1. Cardinality(S \cup {s}) = Cardinality(S) + 1
    BY <1>2, <1>4, FS_AddElement
  <2>2. S \cup {s} \in SUBSET Slots /\ Cardinality(S \cup {s}) <= MaxThreads
    BY <1>1, FS_Subset
  <2> QED BY <1>2, <1>4, <2>1, <2>2, PoolConstants
<1> QED BY <1>3, <1>4

USE DEF WorkerAt, ManagerAt, ClientAt, Goto

LEMMA TypeWorker ==
    ASSUME PoolInv, NEW s \in Slots, WorkerStep(s)
    PROVE  TypeOK'
<1> USE PoolConstants DEF PoolInv, manager, client, counts
<1>0. UNCHANGED queueVars => QueueTypeOK(Slots \cup {Client}, Tasks)'
  BY QueueStepTypes
<1>1. CASE WorkerStart(s)
  BY <1>1, <1>0 DEF WorkerStart, TypeOK
<1>2. CASE WorkerLoop(s)
  BY <1>2, <1>0 DEF WorkerLoop, TypeOK
<1>3. CASE WorkerGate(s)
  <2>1. exitNum' \in 0 .. Batch /\ live' \in 0 .. MaxThreads
    BY <1>3 DEF WorkerGate, TypeOK
  <2> QED BY <1>3, <1>0, <2>1 DEF WorkerGate, TypeOK
<1>4. CASE WorkerRead(s)
  <2>1. QueueTypeOK(Slots \cup {Client}, Tasks)' /\ Front \in Tasks \cup {NoTask}
    BY <1>4, QueueStepTypes DEF WorkerRead
  <2> QED BY <1>4, <2>1 DEF WorkerRead, TypeOK
<1>5. CASE WorkerWoken(s)
  <2>1. QueueTypeOK(Slots \cup {Client}, Tasks)' /\ Front \in Tasks \cup {NoTask}
    BY <1>5, QueueStepTypes DEF WorkerWoken
  <2> QED BY <1>5, <2>1 DEF WorkerWoken, TypeOK
<1>6. CASE WorkerBusy(s)
  <2>1. s \notin Running /\ Running \subseteq Slots /\ busy = Cardinality(Running)
    BY <1>6 DEF WorkerBusy, Running, CountInv
  <2>2. busy + 1 \in 0 .. MaxThreads
    BY <2>1, SlotCount
  <2> QED BY <1>6, <1>0, <2>2 DEF WorkerBusy, TypeOK
<1>7. CASE WorkerRun(s)
  <2>1. s \in Running /\ Running \subseteq Slots /\ busy = Cardinality(Running)
    BY <1>7 DEF WorkerRun, Running, CountInv
  <2>2. busy - 1 \in 0 .. MaxThreads
    BY <2>1, SlotCount
  <2>3. ran' \in [Tasks -> Nat] /\ task' \in [Slots -> Tasks \cup {NoTask}]
    BY <1>7 DEF WorkerRun, TypeOK, TaskInv, Holds, Tasks, NoTask
  <2> QED BY <1>7, <1>0, <2>2, <2>3 DEF WorkerRun, TypeOK
<1>8. CASE WorkerExit(s)
  BY <1>8, <1>0 DEF WorkerExit, TypeOK
<1>9. CASE WorkerReturn(s)
  BY <1>9, <1>0 DEF WorkerReturn, TypeOK
<1> QED BY <1>1, <1>2, <1>3, <1>4, <1>5, <1>6, <1>7, <1>8, <1>9 DEF WorkerStep

LEMMA TypeManager ==
    ASSUME PoolInv, ManagerStep
    PROVE  TypeOK'
<1> USE PoolConstants DEF PoolInv, workers, client, counts
<1>0. UNCHANGED queueVars => QueueTypeOK(Slots \cup {Client}, Tasks)'
  BY QueueStepTypes
<1>1. CASE ManagerWakes
  <2>1. load' \in [queue : {ItemSize * n : n \in 0 .. QueueCapacity},
                   live : 0 .. MaxThreads, busy : 0 .. MaxThreads]
    <3>1. len \in 0 .. QueueCapacity /\ 0 = ItemSize * 0
      BY DEF TypeOK, QueueTypeOK
    <3> QED BY <1>1, <3>1 DEF ManagerWakes, LenInBytes, NoLoad, TypeOK
  <2> QED BY <1>1, <1>0, <2>1 DEF ManagerWakes, TypeOK
<1>2. CASE ManagerSampleLive
  BY <1>2, <1>0 DEF ManagerSampleLive, TypeOK
<1>3. CASE ManagerSampleBusy
  BY <1>3, <1>0 DEF ManagerSampleBusy, TypeOK
<1>4. CASE ManagerGrow
  BY <1>4, <1>0 DEF ManagerGrow, TypeOK
<1>5. CASE ManagerCreate
  <2>1. PICK s \in Slots : Goto(s, "start") /\ next' = s
    BY <1>5 DEF ManagerCreate, Wanted
  <2>2. s \in 1 .. MaxThreads + 1
    BY DEF Slots
  <2> QED BY <1>5, <1>0, <2>1, <2>2 DEF ManagerCreate, TypeOK
<1>6. CASE ManagerRecord
  <2>1. live' \in 0 .. MaxThreads /\ count' \in 0 .. Batch
    BY <1>6 DEF ManagerRecord, PhaseInv, TypeOK
  <2> QED BY <1>6, <1>0, <2>1 DEF ManagerRecord, TypeOK
<1>7. CASE ManagerGrown
  BY <1>7, <1>0 DEF ManagerGrown, TypeOK
<1>8. CASE ManagerJudge
  <2>1. 0 = ItemSize * 0
    OBVIOUS
  <2> QED BY <1>8, <1>0, <2>1 DEF ManagerJudge, NoLoad, TypeOK
<1>9. CASE ManagerWakeup
  <2>1. QueueTypeOK(Slots \cup {Client}, Tasks)'
    BY <1>9, QueueStepTypes DEF ManagerWakeup
  <2>2. count' \in 0 .. Batch
    BY <1>9 DEF ManagerWakeup, PhaseInv, TypeOK
  <2> QED BY <1>9, <2>1, <2>2 DEF ManagerWakeup, TypeOK
<1>10. CASE ManagerReap
  <2>1. next' \in 1 .. MaxThreads + 1
    BY <1>10 DEF ManagerReap, TypeOK
  <2>2. /\ handle' \in [Slots -> BOOLEAN]
        /\ wpc' \in [Slots -> {"none", "start", "loop", "gate", "read", "wait", "took", "run",
                               "exit", "return", "dead"}]
    BY <1>10 DEF ManagerReap, TypeOK
  <2> QED BY <1>10, <1>0, <2>1, <2>2 DEF ManagerReap, TypeOK
<1>11. CASE ManagerReaped
  BY <1>11, <1>0 DEF ManagerReaped, TypeOK
<1> QED BY <1>1, <1>2, <1>3, <1>4, <1>5, <1>6, <1>7, <1>8, <1>9, <1>10, <1>11 DEF ManagerStep

LEMMA TypeClient ==
    ASSUME PoolInv, AddTask \/ DestroyBegin \/ DestroyStep
    PROVE  TypeOK'
<1> USE PoolConstants DEF PoolInv, workers, manager, counts
<1>0. UNCHANGED queueVars => QueueTypeOK(Slots \cup {Client}, Tasks)'
  BY QueueStepTypes
<1>1. CASE AddTask
  <2>1. added + 1 \in Tasks
    <3>1. added \in Nat
      BY DEF TypeOK
    <3>2. added < TaskCount
      BY <1>1 DEF AddTask, PhaseInv
    <3> QED BY <3>1, <3>2 DEF Tasks
  <2>2. QueueTypeOK(Slots \cup {Client}, Tasks)'
    BY <1>1, <2>1, QueueStepTypes DEF AddTask
  <2>3. added' \in 0 .. TaskCount
    BY <1>1, <2>1 DEF AddTask, Tasks, TypeOK
  <2> QED BY <1>1, <2>2, <2>3 DEF AddTask, TypeOK
<1>2. CASE DestroyBegin
  BY <1>2, <1>0 DEF DestroyBegin, TypeOK
<1>3. CASE DestroyJoinManager
  BY <1>3, <1>0 DEF DestroyJoinManager, TypeOK
<1>4. CASE DestroyWake
  <2>1. QueueTypeOK(Slots \cup {Client}, Tasks)'
    BY <1>4, <1>0, QueueStepTypes DEF DestroyWake
  <2>2. joined' \in 0 .. MaxThreads + 1
    BY <1>4 DEF DestroyWake, TypeOK
  <2> QED BY <1>4, <2>1, <2>2 DEF DestroyWake, TypeOK
<1>5. CASE DestroyJoin
  <2>1. joined' \in 0 .. MaxThreads + 1
    BY <1>5 DEF DestroyJoin, TypeOK
  <2>2. handle' \in [Slots -> BOOLEAN]
    BY <1>5 DEF DestroyJoin, TypeOK
  <2> QED BY <1>5, <1>0, <2>1, <2>2 DEF DestroyJoin, TypeOK
<1>6. CASE DestroyFree
  BY <1>6, <1>0 DEF DestroyFree, TypeOK
<1> QED BY <1>1, <1>2, <1>3, <1>4, <1>5, <1>6 DEF DestroyStep

LEMMA TypeSpurious ==
    ASSUME PoolInv, NEW t, SpuriousWake(t)
    PROVE  TypeOK'
<1>1. QueueTypeOK(Slots \cup {Client}, Tasks)'
  BY QueueStepTypes DEF PoolInv, SpuriousWake
<1> QED BY <1>1 DEF PoolInv, SpuriousWake, TypeOK, workers, manager, client, counts

-----------------------------------------------------------------------------
(* The queue holds the latest tasks, in order.                             *)

(* What a queue operation must keep when no task is added.                 *)
LEMMA QueueStepInv ==
    ASSUME TypeOK, QueueInv
    PROVE  /\ TakeFront /\ added' = added =>
                 QueueInv' /\ Front = Taken + 1 /\ Taken' = Taken + 1 /\ Taken + 1 <= added
           /\ PutBack(added + 1) /\ added' = added + 1 => QueueInv' /\ Taken' = Taken
           /\ UNCHANGED <<ring, len, readPos, writePos, added>> => QueueInv' /\ Taken' = Taken
<1> USE PoolConstants DEF Taken
<1>1. /\ readPos \in 0 .. QueueCapacity - 1 /\ writePos \in 0 .. QueueCapacity - 1
      /\ len \in 0 .. QueueCapacity /\ ring \in [0 .. QueueCapacity - 1 -> Tasks \cup {NoItem}]
      /\ added \in Nat
  BY DEF TypeOK, QueueTypeOK
<1>2. Advance(readPos) = Wrap(readPos + 1) /\ Advance(writePos) = Wrap(writePos + 1)
  BY ContentsAre
<1>3. ASSUME TakeFront, added' = added
      PROVE  QueueInv' /\ Front = Taken + 1 /\ Taken' = Taken + 1 /\ Taken + 1 <= added
  <2>1. /\ len > 0 /\ len' = len - 1 /\ readPos' = Wrap(readPos + 1)
        /\ ring' = ring /\ writePos' = writePos
    BY <1>2, <1>3 DEF TakeFront
  <2>2. writePos' = Wrap(readPos' + len')
    BY <1>1, <2>1 DEF QueueInv, Wrap
  <2>3. ASSUME NEW k \in 1 .. len'
        PROVE  ring'[Wrap(readPos' + k - 1)] = added' - len' + k
    <3>1. k + 1 \in 1 .. len /\ Wrap(readPos' + k - 1) = Wrap(readPos + (k + 1) - 1)
      BY <1>1, <2>1 DEF Wrap
    <3>2. ring[Wrap(readPos + (k + 1) - 1)] = added - len + (k + 1)
      BY <3>1 DEF QueueInv
    <3> QED BY <1>1, <1>3, <2>1, <3>1, <3>2
  <2>4. ring[Wrap(readPos + 1 - 1)] = added - len + 1 /\ Wrap(readPos + 1 - 1) = readPos
    BY <1>1, <2>1 DEF QueueInv, Wrap
  <2> QED BY <1>1, <1>3, <2>1, <2>2, <2>3, <2>4 DEF QueueInv, Front
<1>4. ASSUME PutBack(added + 1), added' = added + 1
      PROVE  QueueInv' /\ Taken' = Taken
  <2>1. /\ len < QueueCapacity /\ len' = len + 1 /\ writePos' = Wrap(writePos + 1)
        /\ ring' = [ring EXCEPT ![writePos] = added + 1] /\ readPos' = readPos
    BY <1>2, <1>4 DEF PutBack
  <2>2. writePos' = Wrap(readPos' + len')
    BY <1>1, <2>1 DEF QueueInv, Wrap
  <2>3. ASSUME NEW k \in 1 .. len'
        PROVE  ring'[Wrap(readPos' + k - 1)] = added' - len' + k
    <3>1. Wrap(readPos + k - 1) \in 0 .. QueueCapacity - 1
      BY <1>1, <2>1 DEF Wrap
    <3>2. CASE k = len + 1
      <4>1. Wrap(readPos + k - 1) = writePos
        BY <1>1, <3>2 DEF QueueInv
      <4> QED BY <1>1, <1>4, <2>1, <3>2, <4>1
    <3>3. CASE k # len + 1
      <4>1. k \in 1 .. len /\ Wrap(readPos + k - 1) # writePos
        BY <1>1, <2>1, <3>3 DEF QueueInv, Wrap
      <4> QED BY <1>1, <1>4, <2>1, <3>1, <4>1 DEF QueueInv
    <3> QED BY <3>2, <3>3
  <2> QED BY <1>1, <1>4, <2>1, <2>2, <2>3 DEF QueueInv
<1>5. ASSUME UNCHANGED <<ring, len, readPos, writePos, added>>
      PROVE  QueueInv' /\ Taken' = Taken
  BY <1>5 DEF QueueInv
<1> QED BY <1>3, <1>4, <1>5

-----------------------------------------------------------------------------
(* Every task is where it should be.                                       *)

LEMMA TasksFrame ==
    ASSUME PoolInv, UNCHANGED <<ring, len, readPos, writePos, added, task, ran>>,
           \A s \in Slots : Holds(s)' = Holds(s)
    PROVE  QueueInv' /\ TaskInv'
<1>1. QueueInv' /\ Taken' = Taken
  BY QueueStepInv DEF PoolInv
<1>2. TaskInv'
  BY <1>1 DEF PoolInv, TaskInv
<1> QED BY <1>1, <1>2

(* A worker takes the oldest task of the queue.                            *)
LEMMA TasksTake ==
    ASSUME PoolInv, NEW s \in Slots, ~Holds(s), TakeFront, UNCHANGED <<added, ran>>,
           task' = [task EXCEPT ![s] = Front], wpc' = [wpc EXCEPT ![s] = "took"]
    PROVE  QueueInv' /\ TaskInv'
<1> USE PoolConstants
<1>1. QueueInv' /\ Front = Taken + 1 /\ Taken' = Taken + 1 /\ Taken + 1 <= added
  BY QueueStepInv DEF PoolInv
<1>2. /\ wpc \in [Slots -> {"none", "start", "loop", "gate", "read", "wait", "took", "run",
                            "exit", "return", "dead"}]
      /\ task \in [Slots -> Tasks \cup {NoTask}]
      /\ added \in 0 .. TaskCount /\ Taken \in Nat
  BY DEF PoolInv, TypeOK, QueueTypeOK, QueueInv, Taken
<1>3. Taken + 1 \in Tasks /\ Taken + 1 # NoTask
  BY <1>1, <1>2 DEF Tasks, NoTask
<1>4. /\ task'[s] = Taken + 1 /\ Holds(s)'
      /\ \A r \in Slots : r # s => task'[r] = task[r] /\ (Holds(r)' <=> Holds(r))
  BY <1>1, <1>2 DEF Holds
<1>5. \A r \in Slots : Holds(r) => task[r] <= Taken /\ task[r] \in Tasks
  BY <1>2 DEF PoolInv, TaskInv
<1>6. \A r \in Slots : r # s /\ Holds(r) => task[r] # Taken + 1
  BY <1>2, <1>5 DEF Tasks
<1>7. \A r \in Slots : Holds(r)' => task'[r] <= Taken' /\ ran'[task'[r]] = 0
  <2>1. ran[Taken + 1] = 0
    BY <1>2, <1>3 DEF PoolInv, TaskInv
  <2>2. \A r \in Slots : Holds(r) => task[r] <= Taken + 1 /\ ran[task[r]] = 0
    BY <1>2, <1>5 DEF PoolInv, TaskInv, Tasks
  <2> QED BY <1>1, <1>2, <1>4, <2>1, <2>2
<1>8. \A r, q \in Slots : Holds(r)' /\ task'[r] = task'[q] => r = q
  <2>1. \A r \in Slots : task[r] = Taken + 1 => Holds(r)
    BY <1>3 DEF PoolInv, TaskInv
  <2> QED BY <1>4, <1>6, <2>1 DEF PoolInv, TaskInv
<1>9. \A t \in Tasks : t <= Taken' =>
          ran'[t] = 1 \/ (ran'[t] = 0 /\ \E r \in Slots : task'[r] = t)
  <2> SUFFICES ASSUME NEW t \in Tasks, t <= Taken + 1
               PROVE  ran[t] = 1 \/ (ran[t] = 0 /\ \E r \in Slots : task'[r] = t)
    BY <1>1
  <2>1. CASE t = Taken + 1
    BY <1>2, <1>4, <2>1 DEF PoolInv, TaskInv
  <2>2. CASE t # Taken + 1
    <3>1. ran[t] = 1 \/ (ran[t] = 0 /\ \E r \in Slots : task[r] = t)
      BY <1>2, <2>2 DEF PoolInv, TaskInv, Tasks
    <3>2. task[s] # t
      BY DEF PoolInv, TaskInv, Tasks, NoTask
    <3> QED BY <1>4, <3>1, <3>2
  <2> QED BY <2>1, <2>2
<1>10. \A t \in Tasks : t > Taken' => ran'[t] = 0
  BY <1>1, <1>2 DEF PoolInv, TaskInv, Tasks
<1>11. \A r \in Slots : task'[r] # NoTask <=> Holds(r)'
  BY <1>3, <1>4 DEF PoolInv, TaskInv
<1> QED BY <1>1, <1>7, <1>8, <1>9, <1>10, <1>11 DEF TaskInv

LEMMA TasksRan ==
    ASSUME PoolInv, NEW s \in Slots, WorkerRun(s)
    PROVE  QueueInv' /\ TaskInv'
<1> USE PoolConstants DEF manager, client
<1>1. QueueInv' /\ Taken' = Taken
  BY QueueStepInv DEF PoolInv, WorkerRun, queueVars
<1>2. /\ wpc \in [Slots -> {"none", "start", "loop", "gate", "read", "wait", "took", "run",
                            "exit", "return", "dead"}]
      /\ task \in [Slots -> Tasks \cup {NoTask}] /\ ran \in [Tasks -> Nat]
  BY DEF PoolInv, TypeOK
<1>3. Holds(s) /\ task[s] \in Tasks /\ ran[task[s]] = 0 /\ task[s] <= Taken /\ NoTask \notin Tasks
  BY <1>2 DEF PoolInv, TaskInv, WorkerRun, Holds, Tasks, NoTask
<1>4. /\ task'[s] = NoTask /\ ~Holds(s)' /\ ran'[task[s]] = 1
      /\ \A r \in Slots : r # s => task'[r] = task[r] /\ (Holds(r)' <=> Holds(r))
      /\ \A t \in Tasks : t # task[s] => ran'[t] = ran[t]
  BY <1>2, <1>3 DEF WorkerRun, Holds
<1>5. \A r \in Slots : r # s => task[r] # task[s]
  BY <1>3 DEF PoolInv, TaskInv
<1>6. \A r \in Slots : task'[r] # NoTask <=> Holds(r)'
  BY <1>4 DEF PoolInv, TaskInv
<1>7. \A r \in Slots : Holds(r)' => task'[r] <= Taken' /\ ran'[task'[r]] = 0
  BY <1>1, <1>2, <1>4, <1>5 DEF PoolInv, TaskInv
<1>8. \A r, q \in Slots : Holds(r)' /\ task'[r] = task'[q] => r = q
  BY <1>4, <1>6 DEF PoolInv, TaskInv
<1>9. \A t \in Tasks : t > Taken' => ran'[t] = 0
  <2>1. Taken \in Int
    BY DEF PoolInv, TypeOK, QueueTypeOK, Taken
  <2>2. \A t \in Tasks : t > Taken => t # task[s]
    BY <1>3, <2>1 DEF Tasks
  <2> QED BY <1>1, <1>4, <2>2 DEF PoolInv, TaskInv
<1>10. \A t \in Tasks : t <= Taken' =>
          ran'[t] = 1 \/ (ran'[t] = 0 /\ \E r \in Slots : task'[r] = t)
  BY <1>1, <1>4, <1>5 DEF PoolInv, TaskInv
<1> QED BY <1>1, <1>6, <1>7, <1>8, <1>9, <1>10 DEF TaskInv

LEMMA TasksWorker ==
    ASSUME PoolInv, NEW s \in Slots, WorkerStep(s)
    PROVE  QueueInv' /\ TaskInv'
<1> USE DEF queueVars, client, manager
<1>0. wpc \in [Slots -> {"none", "start", "loop", "gate", "read", "wait", "took", "run",
                         "exit", "return", "dead"}]
  BY DEF PoolInv, TypeOK
<1>1. CASE WorkerStart(s)
  BY <1>0, <1>1, TasksFrame DEF WorkerStart, Holds
<1>2. CASE WorkerLoop(s)
  BY <1>0, <1>2, TasksFrame DEF WorkerLoop, Holds
<1>3. CASE WorkerGate(s)
  BY <1>0, <1>3, TasksFrame DEF WorkerGate, Holds
<1>4. CASE WorkerRead(s)
  <2>1. CASE TakeFront /\ task' = [task EXCEPT ![s] = Front] /\ Goto(s, "took")
    BY <1>4, <2>1, TasksTake DEF WorkerRead, Holds
  <2>2. CASE BlockOnEmpty(s) /\ task' = task /\ Goto(s, "wait")
    BY <1>0, <1>4, <2>2, TasksFrame DEF WorkerRead, BlockOnEmpty, Holds
  <2> QED BY <1>4, <2>1, <2>2 DEF WorkerRead
<1>5. CASE WorkerWoken(s)
  <2>1. CASE TakeFront /\ task' = [task EXCEPT ![s] = Front] /\ Goto(s, "took")
    BY <1>5, <2>1, TasksTake DEF WorkerWoken, Holds
  <2>2. CASE len = 0 /\ Goto(s, "loop") /\ UNCHANGED <<queueVars, task>>
    BY <1>0, <1>5, <2>2, TasksFrame DEF WorkerWoken, Holds
  <2> QED BY <1>5, <2>1, <2>2 DEF WorkerWoken
<1>6. CASE WorkerBusy(s)
  BY <1>0, <1>6, TasksFrame DEF WorkerBusy, Holds
<1>7. CASE WorkerRun(s)
  BY <1>7, TasksRan
<1>8. CASE WorkerExit(s)
  BY <1>0, <1>8, TasksFrame DEF WorkerExit, Holds
<1>9. CASE WorkerReturn(s)
  BY <1>0, <1>9, TasksFrame DEF WorkerReturn, Holds
<1> QED BY <1>1, <1>2, <1>3, <1>4, <1>5, <1>6, <1>7, <1>8, <1>9 DEF WorkerStep

LEMMA TasksManager ==
    ASSUME PoolInv, ManagerStep
    PROVE  QueueInv' /\ TaskInv'
<1> USE DEF queueVars, client, workers
<1>0. wpc \in [Slots -> {"none", "start", "loop", "gate", "read", "wait", "took", "run",
                         "exit", "return", "dead"}]
  BY DEF PoolInv, TypeOK
<1>1. CASE ManagerCreate
  <2>1. PICK s \in Slots : Vacant(s) /\ Goto(s, "start")
    BY <1>1 DEF ManagerCreate, Wanted
  <2>2. wpc[s] \in {"none", "dead"}
    BY <1>1, <2>1 DEF ManagerCreate, PoolInv, SlotInv, Vacant
  <2> QED BY <1>0, <1>1, <2>1, <2>2, TasksFrame DEF ManagerCreate, Holds
<1>2. CASE ManagerReap
  <2>1. \/ UNCHANGED wpc
        \/ wpc[next] = "dead" /\ Goto(next, "none")
    BY <1>2 DEF ManagerReap
  <2> QED BY <1>0, <1>2, <2>1, TasksFrame DEF ManagerReap, Holds
<1>3. CASE \/ ManagerWakes \/ ManagerSampleLive \/ ManagerSampleBusy \/ ManagerGrow
           \/ ManagerGrown \/ ManagerJudge \/ ManagerWakeup \/ ManagerReaped
  BY <1>3, TasksFrame DEF ManagerWakes, ManagerSampleLive, ManagerSampleBusy, ManagerGrow,
     ManagerGrown, ManagerJudge, ManagerWakeup, ManagerReaped, Wakeup, Holds
<1>4. CASE ManagerRecord
  BY <1>4, TasksFrame DEF ManagerRecord, Holds
<1> QED BY <1>1, <1>2, <1>3, <1>4 DEF ManagerStep

LEMMA TasksClient ==
    ASSUME PoolInv, AddTask \/ DestroyBegin \/ DestroyStep
    PROVE  QueueInv' /\ TaskInv'
<1> USE DEF queueVars, manager, workers
<1>1. CASE AddTask
  <2>1. CASE PutBack(added + 1) /\ added' = added + 1
    <3>1. QueueInv' /\ Taken' = Taken
      BY <2>1, QueueStepInv DEF PoolInv
    <3> QED BY <1>1, <3>1 DEF AddTask, PoolInv, TaskInv, Holds
  <2>2. CASE BlockOnFull(Client) /\ added' = added
    BY <1>1, <2>2, TasksFrame DEF AddTask, BlockOnFull, Holds
  <2> QED BY <1>1, <2>1, <2>2 DEF AddTask
<1>2. CASE DestroyBegin \/ DestroyJoinManager \/ DestroyJoin \/ DestroyFree
  BY <1>2, TasksFrame DEF DestroyBegin, DestroyJoinManager, DestroyJoin, DestroyFree, Holds
<1>3. CASE DestroyWake
  BY <1>3, TasksFrame DEF DestroyWake, Wakeup, Holds
<1> QED BY <1>1, <1>2, <1>3 DEF DestroyStep

LEMMA TasksSpurious ==
    ASSUME PoolInv, NEW t, SpuriousWake(t)
    PROVE  QueueInv' /\ TaskInv'
BY TasksFrame DEF SpuriousWake, WaitEndsSpuriously, Holds, workers, manager, client

-----------------------------------------------------------------------------
(* The phases of the manager and of Destroy, and what the slots hold.      *)

LEMMA PhaseWorker ==
    ASSUME PoolInv, NEW s \in Slots, WorkerStep(s)
    PROVE  PhaseInv'
<1> USE DEF manager, client, counts
<1>1. CASE WorkerGate(s)
  BY <1>1 DEF PoolInv, PhaseInv, WorkerGate
<1>2. CASE ~WorkerGate(s)
  BY <1>2 DEF PoolInv, PhaseInv, WorkerStep, WorkerStart, WorkerLoop, WorkerRead, WorkerWoken,
     WorkerBusy, WorkerRun, WorkerExit, WorkerReturn
<1> QED BY <1>1, <1>2

LEMMA PhaseManager ==
    ASSUME PoolInv, ManagerStep
    PROVE  PhaseInv'
<1> USE PoolConstants DEF PoolInv, PhaseInv, workers, client, counts
<1>1. CASE ManagerCreate
  BY <1>1 DEF ManagerCreate, Wanted
<1>2. CASE ManagerReap \/ ManagerReaped \/ ManagerWakeup
  BY <1>2 DEF ManagerReap, ManagerReaped, ManagerWakeup
<1>3. CASE ManagerRecord
  BY <1>3 DEF ManagerRecord
<1>4. CASE ManagerJudge
  BY <1>4 DEF ManagerJudge
<1>5. CASE ManagerWakes \/ ManagerSampleLive \/ ManagerSampleBusy \/ ManagerGrow \/ ManagerGrown
  BY <1>5 DEF ManagerWakes, ManagerSampleLive, ManagerSampleBusy, ManagerGrow, ManagerGrown
<1> QED BY <1>1, <1>2, <1>3, <1>4, <1>5 DEF ManagerStep

LEMMA PhaseClient ==
    ASSUME PoolInv, AddTask \/ DestroyBegin \/ DestroyStep \/ \E t : SpuriousWake(t)
    PROVE  PhaseInv'
<1> USE PoolConstants DEF PoolInv, PhaseInv, workers, manager, counts
<1>1. CASE AddTask
  BY <1>1 DEF AddTask, TypeOK
<1>2. CASE DestroyBegin
  BY <1>2 DEF DestroyBegin
<1>3. CASE DestroyJoinManager
  BY <1>3 DEF DestroyJoinManager
<1>4. CASE DestroyWake
  BY <1>4 DEF DestroyWake, TypeOK
<1>5. CASE DestroyJoin
  BY <1>5 DEF DestroyJoin, TypeOK
<1>6. CASE DestroyFree
  BY <1>6 DEF DestroyFree, TypeOK
<1>7. CASE \E t : SpuriousWake(t)
  BY <1>7 DEF SpuriousWake, client
<1> QED BY <1>1, <1>2, <1>3, <1>4, <1>5, <1>6, <1>7 DEF DestroyStep

(* A worker that goes from one place to another, neither of them "none".   *)
LEMMA SlotMove ==
    ASSUME PoolInv, NEW s \in Slots, NEW to, wpc[s] \notin {"none", "dead"}, to # "none",
           wpc' = [wpc EXCEPT ![s] = to], UNCHANGED <<handle, flag, mpc, next, cpc, joined>>
    PROVE  SlotInv'
<1>1. /\ wpc'[s] = to
      /\ \A r \in Slots : r # s => wpc'[r] = wpc[r]
  BY DEF PoolInv, TypeOK
<1>2. ASSUME NEW r \in Slots
      PROVE  SlotInv!(r)'
  <2>1. SlotInv!(r)
    BY DEF PoolInv, SlotInv
  <2> QED BY <1>1, <2>1
<1> QED BY <1>2 DEF SlotInv

LEMMA SlotWorker ==
    ASSUME PoolInv, NEW s \in Slots, WorkerStep(s)
    PROVE  SlotInv'
<1> USE DEF manager, client
<1>1. CASE WorkerStart(s)
  BY <1>1, SlotMove DEF WorkerStart
<1>2. CASE WorkerLoop(s)
  BY <1>2, SlotMove DEF WorkerLoop
<1>3. CASE WorkerGate(s)
  BY <1>3, SlotMove DEF WorkerGate
<1>4. CASE WorkerRead(s)
  BY <1>4, SlotMove DEF WorkerRead
<1>5. CASE WorkerWoken(s)
  BY <1>5, SlotMove DEF WorkerWoken
<1>6. CASE WorkerBusy(s)
  BY <1>6, SlotMove DEF WorkerBusy
<1>7. CASE WorkerRun(s)
  BY <1>7, SlotMove DEF WorkerRun
<1>8. CASE WorkerExit(s)
  <2>1. /\ wpc'[s] = "return" /\ wpc[s] = "exit" /\ (flag'[s] => flag[s]) /\ handle' = handle
        /\ \A r \in Slots : r # s => wpc'[r] = wpc[r] /\ flag'[r] = flag[r]
        /\ UNCHANGED <<mpc, next, cpc, joined>>
    BY <1>8 DEF WorkerExit, PoolInv, TypeOK
  <2> QED BY <2>1 DEF PoolInv, SlotInv
<1>9. CASE WorkerReturn(s)
  BY <1>9, SlotMove DEF WorkerReturn
<1> QED BY <1>1, <1>2, <1>3, <1>4, <1>5, <1>6, <1>7, <1>8, <1>9 DEF WorkerStep

LEMMA SlotManager ==
    ASSUME PoolInv, ManagerStep
    PROVE  SlotInv'
<1> USE DEF workers, client
<1>1. CASE ManagerCreate
  <2>1. PICK s \in Slots : Vacant(s) /\ Goto(s, "start") /\ next' = s
    BY <1>1 DEF ManagerCreate, Wanted
  <2>2. /\ wpc'[s] = "start" /\ \A r \in Slots : r # s => wpc'[r] = wpc[r]
        /\ mpc = "create" /\ mpc' = "record" /\ UNCHANGED <<handle, flag, cpc, joined>>
    BY <1>1, <2>1 DEF ManagerCreate, PoolInv, TypeOK
  <2>3. cpc \notin {"join", "gone"}
    BY <2>2 DEF PoolInv, PhaseInv
  <2> QED BY <2>1, <2>2, <2>3 DEF PoolInv, SlotInv, Vacant
<1>2. CASE ManagerRecord
  <2>1. next \in Slots /\ cpc \notin {"join", "gone"} /\ mpc = "record"
    BY <1>2 DEF ManagerRecord, PoolInv, PhaseInv
  <2>2. /\ handle'[next] /\ flag'[next] /\ mpc' = "create"
        /\ \A r \in Slots : r # next => handle'[r] = handle[r] /\ flag'[r] = flag[r]
        /\ UNCHANGED <<wpc, cpc, joined>>
    BY <1>2, <2>1 DEF ManagerRecord, PoolInv, TypeOK
  <2>3. wpc[next] # "none"
    BY <2>1 DEF PoolInv, SlotInv
  <2> QED BY <2>1, <2>2, <2>3 DEF PoolInv, SlotInv
<1>3. CASE ManagerReap
  <2>1. /\ mpc = "reap" /\ mpc' = "reap" /\ UNCHANGED <<flag, cpc, joined>>
        /\ cpc \notin {"join", "gone"}
    BY <1>3 DEF ManagerReap, PoolInv, PhaseInv
  <2>2. CASE ~flag[next] /\ handle[next]
    <3>1. next \in Slots
      BY <1>3 DEF ManagerReap, PoolInv, TypeOK, Slots
    <3>2. /\ ~handle'[next] /\ wpc'[next] = "none"
          /\ \A r \in Slots : r # next => handle'[r] = handle[r] /\ wpc'[r] = wpc[r]
      BY <1>3, <2>2, <3>1 DEF ManagerReap, PoolInv, TypeOK
    <3> QED BY <2>1, <2>2, <3>2 DEF PoolInv, SlotInv
  <2>3. CASE ~(~flag[next] /\ handle[next])
    BY <1>3, <2>1, <2>3 DEF ManagerReap, PoolInv, SlotInv
  <2> QED BY <2>2, <2>3
<1>4. CASE \/ ManagerWakes \/ ManagerSampleLive \/ ManagerSampleBusy \/ ManagerGrow
           \/ ManagerGrown \/ ManagerJudge \/ ManagerWakeup \/ ManagerReaped
  <2>1. UNCHANGED <<handle, flag, wpc, cpc, joined>> /\ mpc # "record" /\ mpc' # "record"
    BY <1>4 DEF ManagerWakes, ManagerSampleLive, ManagerSampleBusy, ManagerGrow, ManagerGrown,
       ManagerJudge, ManagerWakeup, ManagerReaped
  <2> QED BY <2>1 DEF PoolInv, SlotInv
<1> QED BY <1>1, <1>2, <1>3, <1>4 DEF ManagerStep

LEMMA SlotClient ==
    ASSUME PoolInv, AddTask \/ DestroyBegin \/ DestroyStep \/ \E t : SpuriousWake(t)
    PROVE  SlotInv'
<1> USE DEF workers, manager
<1>1. CASE DestroyJoin
  <2>1. /\ joined \in Slots /\ cpc = "join" /\ cpc' = "join" /\ mpc' = "dead" /\ mpc = "dead"
        /\ joined' = joined + 1 /\ UNCHANGED <<wpc, flag>>
        /\ handle[joined] => wpc[joined] = "dead"
    BY <1>1 DEF DestroyJoin, PoolInv, PhaseInv, TypeOK, Slots
  <2>2. ~handle'[joined] /\ \A r \in Slots : r # joined => handle'[r] = handle[r]
    BY <1>1, <2>1 DEF DestroyJoin, PoolInv, TypeOK
  <2>3. \A r \in Slots : r < joined' <=> r < joined \/ r = joined
    BY <2>1 DEF Slots
  <2>4. wpc[joined] \in {"none", "dead"}
    BY <2>1 DEF PoolInv, SlotInv, Slots
  <2> QED BY <2>1, <2>2, <2>3, <2>4 DEF PoolInv, SlotInv
<1>2. CASE DestroyWake
  <2>1. /\ UNCHANGED <<handle, flag, wpc, mpc, next>>
        /\ cpc = "wake" /\ (cpc' = "wake" \/ (cpc' = "join" /\ joined' = 1))
    BY <1>2 DEF DestroyWake
  <2> QED BY <2>1 DEF PoolInv, SlotInv, Slots
<1>3. CASE DestroyFree
  BY <1>3 DEF DestroyFree, PoolInv, SlotInv
<1>4. CASE AddTask \/ DestroyBegin \/ DestroyJoinManager
  <2>1. UNCHANGED <<handle, flag, wpc, mpc, next>> /\ {cpc, cpc'} \cap {"join", "gone"} = {}
    BY <1>4 DEF AddTask, DestroyBegin, DestroyJoinManager
  <2> QED BY <2>1 DEF PoolInv, SlotInv
<1>5. CASE \E t : SpuriousWake(t)
  BY <1>5 DEF SpuriousWake, client, PoolInv, SlotInv
<1> QED BY <1>1, <1>2, <1>3, <1>4, <1>5 DEF DestroyStep

-----------------------------------------------------------------------------
(* The counts.                                                             *)

(* Neither who serves nor who runs a task changes.                         *)
LEMMA CountFrame ==
    ASSUME PoolInv, UNCHANGED <<live, busy>>, isExit => isExit', mpc = "record" <=> mpc' = "record",
           \A s \in Slots : (Serving(s)' <=> Serving(s)) /\ (wpc'[s] = "run" <=> wpc[s] = "run")
    PROVE  CountInv'
<1>1. Running' = Running /\ Servers' = Servers
  BY DEF Running, Servers
<1> QED BY <1>1 DEF PoolInv, CountInv

(* A worker takes the place `to'.                                          *)
LEMMA CountMove ==
    ASSUME PoolInv, NEW s \in Slots, NEW to, Goto(s, to)
    PROVE  /\ to = "run" => Running' = Running \cup {s}
           /\ to # "run" => Running' = Running \ {s}
           /\ to \in {"start", "loop", "gate", "read", "wait", "took", "run"} =>
                  Servers' = Servers \cup {s}
           /\ to \notin {"start", "loop", "gate", "read", "wait", "took", "run"} =>
                  Servers' = Servers \ {s}
<1>1. wpc'[s] = to /\ \A r \in Slots : r # s => wpc'[r] = wpc[r]
  BY DEF PoolInv, TypeOK
<1>2. Running' = IF to = "run" THEN Running \cup {s} ELSE Running \ {s}
  BY <1>1 DEF Running
<1>3. /\ to \in {"start", "loop", "gate", "read", "wait", "took", "run"} =>
             Servers' = Servers \cup {s}
      /\ to \notin {"start", "loop", "gate", "read", "wait", "took", "run"} =>
             Servers' = Servers \ {s}
  BY <1>1 DEF Servers, Serving
<1> QED BY <1>2, <1>3

LEMMA CountWorker ==
    ASSUME PoolInv, NEW s \in Slots, WorkerStep(s)
    PROVE  CountInv'
<1> USE PoolConstants DEF manager, client, counts
<1>0. /\ Running \in SUBSET Slots /\ Servers \in SUBSET Slots
      /\ live \in 0 .. MaxThreads /\ MinThreads \in Nat
      /\ wpc \in [Slots -> {"none", "start", "loop", "gate", "read", "wait", "took", "run",
                            "exit", "return", "dead"}]
  BY DEF Running, Servers, PoolInv, TypeOK
<1>1. CASE WorkerStart(s)
  <2>1. CASE StartMayFail
    <3>1. Running' = Running
      BY <1>1, CountMove DEF WorkerStart, Running
    <3> QED BY <1>1, <2>1, <3>1 DEF WorkerStart, PoolInv, CountInv
  <2>2. CASE ~StartMayFail
    <3>1. Goto(s, "loop") /\ wpc[s] = "start"
      BY <1>1, <2>2 DEF WorkerStart
    <3> QED BY <1>0, <1>1, <3>1, CountFrame DEF WorkerStart, Serving
  <2> QED BY <2>1, <2>2
<1>2. CASE WorkerLoop(s)
  <2>1. CASE isExit
    <3>1. Running' = Running
      BY <1>2, <2>1, CountMove DEF WorkerLoop, Running
    <3> QED BY <1>2, <2>1, <3>1 DEF WorkerLoop, PoolInv, CountInv
  <2>2. CASE ~isExit
    BY <1>0, <1>2, <2>2, CountFrame DEF WorkerLoop, Serving
  <2> QED BY <2>1, <2>2
<1>3. CASE WorkerGate(s)
  <2>1. CASE exitNum > 0 /\ live > minThreads
    <3>1. live' = live - 1 /\ Goto(s, "exit") /\ UNCHANGED <<busy, mpc, isExit>> /\ wpc[s] = "gate"
      BY <1>3, <2>1 DEF WorkerGate
    <3>2. Running' = Running \ {s} /\ Servers' = Servers \ {s}
      <4> HIDE DEF Goto
      <4> QED BY <3>1, CountMove
    <3>3. s \notin Running /\ s \in Servers
      BY <3>1 DEF Running, Servers, Serving
    <3>4. Running' = Running
      BY <3>2, <3>3
    <3>5. Cardinality(Servers') = Cardinality(Servers) - 1
      BY <1>0, <3>2, <3>3, SlotCount
    <3>6. mpc # "record"
      BY <1>3 DEF WorkerGate, PoolInv, PhaseInv
    <3>7. ~isExit => live > MinThreads
      BY <2>1 DEF PoolInv, PhaseInv
    <3> QED BY <1>0, <3>1, <3>4, <3>5, <3>6, <3>7 DEF PoolInv, CountInv
  <2>2. CASE ~(exitNum > 0 /\ live > minThreads)
    BY <1>0, <1>3, <2>2, CountFrame DEF WorkerGate, Serving
  <2> QED BY <2>1, <2>2
<1>4. CASE WorkerRead(s)
  BY <1>0, <1>4, CountFrame DEF WorkerRead, Serving
<1>5. CASE WorkerWoken(s)
  BY <1>0, <1>5, CountFrame DEF WorkerWoken, Serving
<1>6. CASE WorkerBusy(s)
  <2>1. Goto(s, "run") /\ wpc[s] = "took" /\ busy' = busy + 1 /\ UNCHANGED <<live, mpc, isExit>>
    BY <1>6 DEF WorkerBusy
  <2>2. Running' = Running \cup {s} /\ s \notin Running /\ Servers' = Servers
    <3>1. s \notin Running /\ s \in Servers
      BY <2>1 DEF Running, Servers, Serving
    <3>2. Running' = Running \cup {s} /\ Servers' = Servers \cup {s}
      <4> HIDE DEF Goto
      <4> QED BY <2>1, CountMove
    <3> QED BY <3>1, <3>2
  <2>3. Cardinality(Running') = Cardinality(Running) + 1
    BY <1>0, <2>2, SlotCount
  <2> QED BY <2>1, <2>2, <2>3 DEF PoolInv, CountInv
<1>7. CASE WorkerRun(s)
  <2>1. Goto(s, "loop") /\ wpc[s] = "run" /\ busy' = busy - 1 /\ UNCHANGED <<live, mpc, isExit>>
    BY <1>7 DEF WorkerRun
  <2>2. Running' = Running \ {s} /\ s \in Running /\ Servers' = Servers
    <3>1. s \in Running /\ s \in Servers
      BY <2>1 DEF Running, Servers, Serving
    <3>2. Running' = Running \ {s} /\ Servers' = Servers \cup {s}
      <4> HIDE DEF Goto
      <4> QED BY <2>1, CountMove
    <3> QED BY <3>1, <3>2
  <2>3. Cardinality(Running') = Cardinality(Running) - 1
    BY <1>0, <2>2, SlotCount
  <2> QED BY <2>1, <2>2, <2>3 DEF PoolInv, CountInv
<1>8. CASE WorkerExit(s)
  BY <1>0, <1>8, CountFrame DEF WorkerExit, Serving
<1>9. CASE WorkerReturn(s)
  BY <1>0, <1>9, CountFrame DEF WorkerReturn, Serving
<1> QED BY <1>1, <1>2, <1>3, <1>4, <1>5, <1>6, <1>7, <1>8, <1>9 DEF WorkerStep

LEMMA CountManager ==
    ASSUME PoolInv, ManagerStep
    PROVE  CountInv'
<1> USE PoolConstants DEF workers, client, counts
<1>0. /\ Running \in SUBSET Slots /\ Servers \in SUBSET Slots
      /\ live \in 0 .. MaxThreads
      /\ wpc \in [Slots -> {"none", "start", "loop", "gate", "read", "wait", "took", "run",
                            "exit", "return", "dead"}]
  BY DEF Running, Servers, PoolInv, TypeOK
<1>1. CASE ManagerCreate
  <2>1. PICK s \in Slots : Vacant(s) /\ Goto(s, "start")
    BY <1>1 DEF ManagerCreate, Wanted
  <2>2. wpc[s] \in {"none", "dead"}
    BY <1>1, <2>1 DEF ManagerCreate, PoolInv, SlotInv, Vacant
  <2>3. Running' = Running \ {s} /\ Servers' = Servers \cup {s}
    <3> HIDE DEF Goto
    <3> QED BY <2>1, CountMove
  <2>4. s \notin Running /\ s \notin Servers
    BY <2>2 DEF Running, Servers, Serving
  <2>5. Running' = Running
    BY <2>3, <2>4
  <2>6. Cardinality(Servers') = Cardinality(Servers) + 1
    BY <1>0, <2>3, <2>4, SlotCount
  <2>7. mpc = "create" /\ mpc' = "record" /\ UNCHANGED <<live, busy, isExit>>
    BY <1>1 DEF ManagerCreate
  <2> QED BY <1>0, <2>5, <2>6, <2>7 DEF PoolInv, CountInv
<1>2. CASE ManagerRecord
  <2>1. mpc = "record" /\ mpc' = "create" /\ live' = live + 1 /\ UNCHANGED <<wpc, busy, isExit>>
    BY <1>2 DEF ManagerRecord
  <2>2. Running' = Running /\ Servers' = Servers
    BY <2>1 DEF Running, Servers, Serving
  <2> QED BY <1>0, <2>1, <2>2 DEF PoolInv, CountInv
<1>3. CASE ManagerReap
  <2>1. \/ UNCHANGED wpc
        \/ wpc[next] = "dead" /\ Goto(next, "none")
    BY <1>3 DEF ManagerReap
  <2> QED BY <1>0, <1>3, <2>1, CountFrame DEF ManagerReap, Serving
<1>4. CASE \/ ManagerWakes \/ ManagerSampleLive \/ ManagerSampleBusy \/ ManagerGrow
           \/ ManagerGrown \/ ManagerJudge \/ ManagerWakeup \/ ManagerReaped
  <2>1. UNCHANGED <<wpc, live, busy, isExit>> /\ mpc # "record" /\ mpc' # "record"
    BY <1>4 DEF ManagerWakes, ManagerSampleLive, ManagerSampleBusy, ManagerGrow, ManagerGrown,
       ManagerJudge, ManagerWakeup, ManagerReaped
  <2> QED BY <2>1, CountFrame DEF Serving
<1> QED BY <1>1, <1>2, <1>3, <1>4 DEF ManagerStep

LEMMA CountClient ==
    ASSUME PoolInv, AddTask \/ DestroyBegin \/ DestroyStep \/ \E t : SpuriousWake(t)
    PROVE  CountInv'
<1>1. UNCHANGED <<wpc, live, busy, mpc>> /\ (isExit => isExit')
  BY DEF AddTask, DestroyBegin, DestroyStep, DestroyJoinManager, DestroyWake, DestroyJoin,
     DestroyFree, SpuriousWake, workers, manager, client, counts
<1> QED BY <1>1, CountFrame DEF Serving

-----------------------------------------------------------------------------
LEMMA InitInv == Init => PoolInv
<1> SUFFICES ASSUME Init PROVE PoolInv
  OBVIOUS
<1> USE PoolConstants
<1>1. TypeOK
  BY TypeInit
<1>2. QueueInv /\ TaskInv
  BY DEF Init, QueueInit, QueueInv, TaskInv, Taken, Wrap, Holds, NoTask, Tasks
<1>3. PhaseInv
  BY DEF Init, PhaseInv
<1>4. PICK n \in 0 .. MinThreads :
          /\ ~StartMayFail => n = MinThreads
          /\ handle = [s \in Slots |-> s <= n]
          /\ flag = [s \in Slots |-> s <= n]
          /\ wpc = [s \in Slots |-> IF s <= n THEN "start" ELSE "none"]
  BY DEF Init
<1>5. SlotInv
  BY <1>4 DEF Init, SlotInv
<1>6. CountInv
  <2>1. Running = {} /\ Servers = 1 .. n
    BY <1>4 DEF Running, Servers, Serving, Slots
  <2>2. Cardinality(Running) = 0 /\ Cardinality(Servers) = n
    BY <2>1, FS_EmptySet, FS_Interval
  <2> QED BY <1>4, <2>2 DEF Init, CountInv
<1> QED BY <1>1, <1>2, <1>3, <1>5, <1>6 DEF PoolInv

LEMMA StepInv == PoolInv /\ [Next]_vars => PoolInv'
<1> SUFFICES ASSUME PoolInv, [Next]_vars PROVE PoolInv'
  OBVIOUS
<1>1. ASSUME NEW s \in Slots, WorkerStep(s)
      PROVE  PoolInv'
  BY <1>1, TypeWorker, TasksWorker, PhaseWorker, SlotWorker, CountWorker DEF PoolInv
<1>2. CASE ManagerStep
  BY <1>2, TypeManager, TasksManager, PhaseManager, SlotManager, CountManager DEF PoolInv
<1>3. CASE AddTask \/ DestroyBegin \/ DestroyStep
  BY <1>3, TypeClient, TasksClient, PhaseClient, SlotClient, CountClient DEF PoolInv
<1>4. ASSUME NEW t, SpuriousWake(t)
      PROVE  PoolInv'
  BY <1>4, TypeSpurious, TasksSpurious, PhaseClient, SlotClient, CountClient DEF PoolInv
<1>5. CASE UNCHANGED vars
  <2> USE <1>5 DEF vars, queueVars, workers, manager, client, counts
  <2>1. TypeOK'
    BY DEF PoolInv, TypeOK, QueueTypeOK
  <2>2. QueueInv' /\ TaskInv'
    BY TasksFrame DEF Holds
  <2>3. PhaseInv'
    BY DEF PoolInv, PhaseInv
  <2>4. SlotInv'
    BY DEF PoolInv, SlotInv
  <2>5. CountInv'
    BY CountFrame DEF Serving
  <2> QED BY <2>1, <2>2, <2>3, <2>4, <2>5 DEF PoolInv
<1> QED BY <1>1, <1>2, <1>3, <1>4, <1>5 DEF Next

LEMMA PoolSafe == Spec => []PoolInv
BY InitInv, StepInv, PTL DEF Spec

-----------------------------------------------------------------------------
(* What HyThreadPoolDynamicGetAliveNum tells is the number of workers that *)
(* serve the pool, and never less than the minimum.                        *)
THEOREM LiveCountsServers == Spec => []LiveCounts
<1>1. PoolInv => LiveCounts
  BY DEF PoolInv, CountInv, PhaseInv, LiveCounts, Servers
<1> QED BY <1>1, PoolSafe, PTL

(* HyThreadPoolDynamicDestroy frees the pool only when every worker that   *)
(* was ever started has ended.                                             *)
THEOREM NoWorkerOutlivesPool == Spec => []FreedWhenAllEnded
<1>1. PoolInv => FreedWhenAllEnded
  BY PoolConstants DEF PoolInv, PhaseInv, SlotInv, FreedWhenAllEnded, Slots
<1> QED BY <1>1, PoolSafe, PTL

(* A task that was added is in the queue once, or with one worker, or has  *)
(* run once.                                                               *)
LEMMA OncePlaced == PoolInv => TasksConserved
<1> SUFFICES ASSUME PoolInv, NEW t \in Tasks
             PROVE  ran[t] + Cardinality({k \in 1 .. len : QueueContents[k] = t})
                           + Cardinality({s \in Slots : task[s] = t})
                        = IF t <= added THEN 1 ELSE 0
  BY DEF TasksConserved
<1> DEFINE Queued == {k \in 1 .. len : QueueContents[k] = t}
           With   == {s \in Slots : task[s] = t}
<1>1. /\ len \in Nat /\ added \in Nat /\ Taken \in Nat /\ Taken = added - len
      /\ t \in Nat /\ t >= 1 /\ t # NoTask
  BY DEF PoolInv, TypeOK, QueueTypeOK, QueueInv, Taken, Tasks, NoTask
<1>2. \A k \in 1 .. len : QueueContents[k] = Taken + k
  BY ContentsAre DEF PoolInv, QueueInv
<1>3. CASE t <= Taken
  <2>1. Queued = {}
    BY <1>1, <1>2, <1>3
  <2>2. Cardinality(Queued) = 0
    BY <2>1, FS_EmptySet
  <2>3. ran[t] = 1 \/ (ran[t] = 0 /\ \E s \in Slots : task[s] = t)
    BY <1>3 DEF PoolInv, TaskInv
  <2>4. CASE ran[t] = 1
    <3>1. With = {}
      BY <1>1, <2>4 DEF PoolInv, TaskInv
    <3>2. Cardinality(With) = 0
      BY <3>1, FS_EmptySet
    <3> QED BY <1>1, <1>3, <2>2, <2>4, <3>2
  <2>5. CASE ran[t] = 0
    <3>1. PICK s \in Slots : task[s] = t
      BY <2>3, <2>5
    <3>2. With = {s}
      BY <1>1, <3>1 DEF PoolInv, TaskInv
    <3>3. Cardinality(With) = 1
      BY <3>2, FS_Singleton
    <3> QED BY <1>1, <1>3, <2>2, <2>5, <3>3
  <2> QED BY <2>3, <2>4, <2>5
<1>4. CASE t > Taken
  <2>1. With = {}
    <3>1. ASSUME NEW s \in Slots, task[s] = t
          PROVE  FALSE
      BY <1>1, <1>4, <3>1 DEF PoolInv, TaskInv
    <3> QED BY <3>1
  <2>2. Cardinality(With) = 0 /\ ran[t] = 0
    BY <1>4, <2>1, FS_EmptySet DEF PoolInv, TaskInv
  <2>3. CASE t <= added
    <3>1. Queued = {t - Taken}
      BY <1>1, <1>2, <1>4, <2>3
    <3>2. Cardinality(Queued) = 1
      BY <3>1, FS_Singleton
    <3> QED BY <2>2, <2>3, <3>2
  <2>4. CASE t > added
    <3>1. Queued = {}
      BY <1>1, <1>2, <2>4
    <3>2. Cardinality(Queued) = 0
      BY <3>1, FS_EmptySet
    <3> QED BY <1>1, <2>2, <2>4, <3>2
  <2> QED BY <1>1, <2>3, <2>4
<1> QED BY <1>1, <1>3, <1>4

(* No task is lost, and none is run twice or by two workers, however many  *)
(* workers come and go.                                                    *)
THEOREM EveryTaskOnce == Spec => []TasksConserved
BY OncePlaced, PoolSafe, PTL

-----------------------------------------------------------------------------
(* The queue implements the bounded fifo.                                  *)

Contiguous == QueueContents = [k \in 1 .. len |-> ring[Wrap(readPos + k - 1)]]

LEMMA ContentsForm == TypeOK => Contiguous
BY ContentsAre DEF Contiguous

LEMMA ContentsFormNext == TypeOK' => Contiguous'
BY ContentsForm, PTL

(* Appending one item, element by element.                                 *)
LEMMA AppendOne ==
    ASSUME NEW s \in Seq(Nat), NEW x \in Nat
    PROVE  s \o <<x>> = [k \in 1 .. Len(s) + 1 |-> IF k = Len(s) + 1 THEN x ELSE s[k]]
<1>1. s \o <<x>> \in Seq(Nat) /\ Len(s \o <<x>>) = Len(s) + 1
  OBVIOUS
<1>2. \A k \in 1 .. Len(s) + 1 : (s \o <<x>>)[k] = IF k = Len(s) + 1 THEN x ELSE s[k]
  OBVIOUS
<1>3. DOMAIN (s \o <<x>>) = 1 .. Len(s) + 1
  BY <1>1
<1> QED BY <1>1, <1>2, <1>3

(* What the queue's operations do to its contents.                         *)
LEMMA ContentsSteps ==
    ASSUME PoolInv
    PROVE  /\ QueueContents \in Seq(Nat) /\ Len(QueueContents) = len
           /\ UNCHANGED <<ring, len, readPos>> => QueueContents' = QueueContents
           /\ TypeOK' /\ TakeFront => /\ len >= 1
                                      /\ QueueContents' = SubSeq(QueueContents, 2, len)
                                      /\ SubSeq(QueueContents, 1, 1) = <<Front>>
           /\ \A x \in Tasks : TypeOK' /\ PutBack(x) =>
                  /\ len + 1 <= QueueCapacity
                  /\ QueueContents' = QueueContents \o <<x>>
<1> USE PoolConstants
<1>1. /\ readPos \in 0 .. QueueCapacity - 1 /\ writePos \in 0 .. QueueCapacity - 1
      /\ len \in 0 .. QueueCapacity /\ added \in Nat
      /\ ring \in [0 .. QueueCapacity - 1 -> Tasks \cup {NoItem}]
      /\ writePos = Wrap(readPos + len)
  BY DEF PoolInv, TypeOK, QueueTypeOK, QueueInv
<1>2. /\ QueueContents = [k \in 1 .. len |-> ring[Wrap(readPos + k - 1)]]
      /\ \A k \in 1 .. len : Wrap(readPos + k - 1) \in 0 .. QueueCapacity - 1
      /\ Advance(readPos) = Wrap(readPos + 1) /\ Advance(writePos) = Wrap(writePos + 1)
  BY ContentsAre DEF PoolInv
<1>3. TypeOK' => QueueContents' = [k \in 1 .. len' |-> ring'[Wrap(readPos' + k - 1)]]
  BY ContentsFormNext DEF Contiguous
<1>4. QueueContents \in [1 .. len -> Nat]
  <2>1. Tasks \cup {NoItem} \subseteq Nat
    BY DEF Tasks
  <2> QED BY <1>1, <1>2, <2>1
<1>5. QueueContents \in Seq(Nat) /\ Len(QueueContents) = len /\ DOMAIN QueueContents = 1 .. len
  BY <1>1, <1>4
<1>6. ASSUME TypeOK', TakeFront
      PROVE  /\ len >= 1
             /\ QueueContents' = SubSeq(QueueContents, 2, len)
             /\ SubSeq(QueueContents, 1, 1) = <<Front>>
  <2>1. len >= 1 /\ len' = len - 1 /\ readPos' = Wrap(readPos + 1) /\ ring' = ring
    BY <1>1, <1>2, <1>6 DEF TakeFront
  <2>2. ASSUME NEW k \in 1 .. len - 1
        PROVE  Wrap(readPos' + k - 1) = Wrap(readPos + (k + 1) - 1)
    BY <1>1, <2>1 DEF Wrap
  <2>3. QueueContents' = [k \in 1 .. len - 1 |-> QueueContents[k + 1]]
    <3>1. \A k \in 1 .. len - 1 : ring[Wrap(readPos + (k + 1) - 1)] = QueueContents[k + 1]
      BY <1>1, <1>2
    <3> QED BY <1>3, <1>6, <2>1, <2>2, <3>1
  <2>4. SubSeq(QueueContents, 2, len) = [k \in 1 .. len - 1 |-> QueueContents[k + 1]]
    BY <1>1, <1>5, <2>1
  <2>5. QueueContents[1] = Front
    BY <1>1, <1>2, <2>1 DEF Front, Wrap
  <2>6. SubSeq(QueueContents, 1, 1) = <<QueueContents[1]>>
    BY <1>1, <1>5, <2>1
  <2> QED BY <2>1, <2>3, <2>4, <2>5, <2>6
<1>7. ASSUME NEW x \in Tasks, TypeOK', PutBack(x)
      PROVE  len + 1 <= QueueCapacity /\ QueueContents' = QueueContents \o <<x>>
  <2>1. /\ len + 1 <= QueueCapacity /\ len' = len + 1 /\ readPos' = readPos
        /\ ring' = [ring EXCEPT ![writePos] = x]
    BY <1>1, <1>7 DEF PutBack
  <2>2. ASSUME NEW k \in 1 .. len + 1
        PROVE  ring'[Wrap(readPos + k - 1)] = IF k = len + 1 THEN x ELSE QueueContents[k]
    <3>1. CASE k = len + 1
      <4>1. Wrap(readPos + k - 1) = writePos
        BY <1>1, <3>1
      <4> QED BY <1>1, <2>1, <3>1, <4>1
    <3>2. CASE k # len + 1
      <4>1. k \in 1 .. len /\ Wrap(readPos + k - 1) # writePos
        BY <1>1, <2>1, <3>2 DEF Wrap
      <4> QED BY <1>1, <1>2, <2>1, <3>2, <4>1
    <3> QED BY <3>1, <3>2
  <2>3. QueueContents' = [k \in 1 .. len + 1 |-> IF k = len + 1 THEN x ELSE QueueContents[k]]
    BY <1>3, <1>7, <2>1, <2>2
  <2>4. QueueContents \o <<x>> = [k \in 1 .. len + 1 |-> IF k = len + 1 THEN x ELSE QueueContents[k]]
    <3>1. x \in Nat
      BY DEF Tasks
    <3> QED BY <1>5, <3>1, AppendOne
  <2> QED BY <2>1, <2>3, <2>4
<1>8. ASSUME UNCHANGED <<ring, len, readPos>>
      PROVE  QueueContents' = QueueContents
  BY <1>8 DEF QueueContents
<1> QED BY <1>5, <1>6, <1>7, <1>8

(* What a worker that has just read returns with.                          *)
Result == [s \in Slots |-> IF wpc[s] = "took" THEN <<task[s]>> ELSE <<>>]

(* A step that moves neither the queue nor a result is none of the fifo's. *)
LEMMA FifoStutter ==
    ASSUME PoolInv, UNCHANGED <<ring, len, readPos>>,
           \A s \in Slots : /\ wpc'[s] = "took" <=> wpc[s] = "took"
                            /\ wpc[s] = "took" => task'[s] = task[s]
    PROVE  UNCHANGED Fifo!vars
<1>1. QueueContents' = QueueContents
  BY ContentsSteps
<1>2. Result' = Result
  BY DEF Result
<1> QED BY <1>1, <1>2 DEF Fifo!vars, Result

LEMMA FifoTake ==
    ASSUME PoolInv, TypeOK', NEW s \in Slots, TakeFront,
           task' = [task EXCEPT ![s] = Front], wpc' = [wpc EXCEPT ![s] = "took"]
    PROVE  Fifo!Get(s, 1)
<1>1. /\ len >= 1 /\ Len(QueueContents) = len
      /\ QueueContents' = SubSeq(QueueContents, 2, len)
      /\ SubSeq(QueueContents, 1, 1) = <<Front>>
  BY ContentsSteps
<1>2. Result' = [Result EXCEPT ![s] = <<Front>>]
  <2>1. /\ wpc'[s] = "took" /\ task'[s] = Front
        /\ \A r \in Slots : r # s => wpc'[r] = wpc[r] /\ task'[r] = task[r]
    BY DEF PoolInv, TypeOK
  <2>2. Result' = [r \in Slots |-> IF wpc'[r] = "took" THEN <<task'[r]>> ELSE <<>>]
    BY DEF Result
  <2>3. Result' = [r \in Slots |-> IF r = s THEN <<Front>> ELSE Result[r]]
    <3>1. ASSUME NEW r \in Slots
          PROVE  (IF wpc'[r] = "took" THEN <<task'[r]>> ELSE <<>>)
                    = IF r = s THEN <<Front>> ELSE Result[r]
      BY <2>1 DEF Result
    <3> HIDE DEF Result
    <3> QED BY <2>2, <3>1
  <2>4. DOMAIN Result = Slots
    BY DEF Result
  <2> HIDE DEF Result
  <2> QED BY <2>3, <2>4
<1>3. QueueContents' = Fifo!Rest(QueueContents, 1)
  BY <1>1 DEF Fifo!Rest
<1>4. Fifo!Prefix(QueueContents, 1) = <<Front>>
  BY <1>1 DEF Fifo!Prefix
<1>5. 1 <= Len(QueueContents)
  BY <1>1
<1> QED BY <1>2, <1>3, <1>4, <1>5 DEF Fifo!Get, Result

LEMMA FifoPut ==
    ASSUME PoolInv, TypeOK', AddTask, PutBack(added + 1)
    PROVE  \E p \in {<<t>> : t \in Tasks} : Fifo!Put(p)
<1>1. added + 1 \in Tasks
  <2>1. added \in 0 .. TaskCount /\ added < TaskCount
    BY DEF AddTask, ClientAt, PoolInv, TypeOK, PhaseInv
  <2> QED BY <2>1, PoolConstants DEF Tasks
<1>2. /\ len + 1 <= QueueCapacity /\ Len(QueueContents) = len
      /\ QueueContents' = QueueContents \o <<added + 1>>
  BY <1>1, ContentsSteps
<1>3. Result' = Result
  BY DEF Result, AddTask, workers
<1>4. Fifo!Put(<<added + 1>>)
  BY <1>2, <1>3 DEF Fifo!Put, Result
<1> QED BY <1>1, <1>4

LEMMA FifoWorker ==
    ASSUME PoolInv, TypeOK', NEW s \in Slots, WorkerStep(s)
    PROVE  [Fifo!Next]_Fifo!vars
<1> USE DEF queueVars, client, manager
<1>0. wpc \in [Slots -> {"none", "start", "loop", "gate", "read", "wait", "took", "run",
                         "exit", "return", "dead"}]
  BY DEF PoolInv, TypeOK
<1>1. CASE (WorkerRead(s) \/ WorkerWoken(s)) /\ TakeFront
  <2>1. task' = [task EXCEPT ![s] = Front] /\ wpc' = [wpc EXCEPT ![s] = "took"]
    BY <1>1 DEF WorkerRead, WorkerWoken, BlockOnEmpty, TakeFront
  <2>2. Fifo!Get(s, 1)
    BY <1>1, <2>1, FifoTake
  <2> QED BY <2>2 DEF Fifo!Next
<1>2. CASE (WorkerRead(s) \/ WorkerWoken(s)) /\ ~TakeFront
  BY <1>0, <1>2, FifoStutter DEF WorkerRead, WorkerWoken, BlockOnEmpty
<1>3. CASE WorkerBusy(s)
  <2>1. /\ wpc[s] = "took" /\ wpc'[s] = "run" /\ UNCHANGED <<ring, len, readPos, task>>
        /\ \A r \in Slots : r # s => wpc'[r] = wpc[r]
    BY <1>0, <1>3 DEF WorkerBusy
  <2>2. Result' = [Result EXCEPT ![s] = <<>>] /\ QueueContents' = QueueContents
    BY <2>1, ContentsSteps DEF Result
  <2>3. Fifo!Return(s)
    BY <2>2 DEF Fifo!Return, Result
  <2> QED BY <2>3 DEF Fifo!Next
<1>4. CASE WorkerRun(s)
  BY <1>0, <1>4, FifoStutter DEF WorkerRun, PoolInv, TypeOK
<1>5. CASE \/ WorkerStart(s) \/ WorkerLoop(s) \/ WorkerGate(s) \/ WorkerExit(s)
           \/ WorkerReturn(s)
  BY <1>0, <1>5, FifoStutter DEF WorkerStart, WorkerLoop, WorkerGate, WorkerExit, WorkerReturn
<1> QED BY <1>1, <1>2, <1>3, <1>4, <1>5 DEF WorkerStep

LEMMA FifoManager ==
    ASSUME PoolInv, ManagerStep
    PROVE  UNCHANGED Fifo!vars
<1> USE DEF queueVars, client, workers
<1>0. wpc \in [Slots -> {"none", "start", "loop", "gate", "read", "wait", "took", "run",
                         "exit", "return", "dead"}]
  BY DEF PoolInv, TypeOK
<1>1. CASE ManagerCreate
  <2>1. PICK s \in Slots : Vacant(s) /\ Goto(s, "start")
    BY <1>1 DEF ManagerCreate, Wanted
  <2>2. wpc[s] \in {"none", "dead"}
    BY <1>1, <2>1 DEF ManagerCreate, PoolInv, SlotInv, Vacant
  <2> QED BY <1>0, <1>1, <2>1, <2>2, FifoStutter DEF ManagerCreate
<1>2. CASE ManagerReap
  <2>1. UNCHANGED wpc \/ (wpc[next] = "dead" /\ Goto(next, "none"))
    BY <1>2 DEF ManagerReap
  <2> QED BY <1>0, <1>2, <2>1, FifoStutter DEF ManagerReap
<1>3. CASE \/ ManagerWakes \/ ManagerSampleLive \/ ManagerSampleBusy \/ ManagerGrow
           \/ ManagerGrown \/ ManagerJudge \/ ManagerWakeup \/ ManagerReaped \/ ManagerRecord
  BY <1>3, FifoStutter DEF ManagerWakes, ManagerSampleLive, ManagerSampleBusy, ManagerGrow,
     ManagerGrown, ManagerJudge, ManagerWakeup, ManagerReaped, ManagerRecord, Wakeup
<1> QED BY <1>1, <1>2, <1>3 DEF ManagerStep

LEMMA FifoClient ==
    ASSUME PoolInv, TypeOK', AddTask \/ DestroyBegin \/ DestroyStep
    PROVE  [Fifo!Next]_Fifo!vars
<1> USE DEF queueVars, workers
<1>1. CASE AddTask /\ PutBack(added + 1)
  BY <1>1, FifoPut DEF Fifo!Next
<1>2. CASE AddTask /\ ~PutBack(added + 1)
  BY <1>2, FifoStutter DEF AddTask, BlockOnFull
<1>3. CASE DestroyBegin \/ DestroyStep
  BY <1>3, FifoStutter DEF DestroyBegin, DestroyStep, DestroyJoinManager, DestroyWake, DestroyJoin,
     DestroyFree, Wakeup
<1> QED BY <1>1, <1>2, <1>3

(* Whatever the workers, the manager and Destroy do, the queue they share  *)
(* behaves as a bounded fifo: each read is the oldest task.                *)
THEOREM QueueImplementsFifo == Spec => ImplementsFifo
<1>1. Init => Fifo!Init
  <2> SUFFICES ASSUME Init PROVE Fifo!Init
    OBVIOUS
  <2>1. QueueContents = <<>>
    BY DEF Init, QueueInit, QueueContents
  <2>2. Result = [s \in Slots |-> <<>>]
    BY DEF Init, Result
  <2> QED BY <2>1, <2>2 DEF Fifo!Init, Result
<1>2. PoolInv /\ PoolInv' /\ [Next]_vars => [Fifo!Next]_Fifo!vars
  <2> SUFFICES ASSUME PoolInv, PoolInv', [Next]_vars PROVE [Fifo!Next]_Fifo!vars
    OBVIOUS
  <2>0. TypeOK'
    BY DEF PoolInv
  <2>1. ASSUME NEW s \in Slots, WorkerStep(s) PROVE [Fifo!Next]_Fifo!vars
    BY <2>0, <2>1, FifoWorker
  <2>2. CASE ManagerStep
    BY <2>2, FifoManager
  <2>3. CASE AddTask \/ DestroyBegin \/ DestroyStep
    BY <2>0, <2>3, FifoClient
  <2>4. ASSUME NEW t, SpuriousWake(t) PROVE UNCHANGED Fifo!vars
    BY <2>4, FifoStutter DEF SpuriousWake, WaitEndsSpuriously, workers
  <2>5. CASE UNCHANGED vars
    BY <2>5, FifoStutter DEF vars, queueVars, workers
  <2> QED BY <2>1, <2>2, <2>3, <2>4, <2>5 DEF Next
<1> QED BY <1>1, <1>2, PoolSafe, PTL DEF Spec, ImplementsFifo, Fifo!Spec
=============================================================================
