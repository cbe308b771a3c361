------------------------ MODULE HyThreadPoolDynamic ------------------------
(***************************************************************************)
(* The growing and shrinking thread pool of                                *)
(* src/linux/thread/hy_thread_pool_dynamic.c over a HyQueue: workers in    *)
(* numbered slots, a manager that samples the load and starts or retires   *)
(* workers, and one client that adds tasks and finally destroys the pool.  *)
(* HyThreadPoolDynamicCreate has returned in the initial state, and no     *)
(* worker it started has come as far as to change what Create stores last, *)
(* the counts.  is_exit and the queue's len, which Create leaves to the    *)
(* allocation, are taken as zeroed.                                        *)
(*                                                                         *)
(* busy_mutex_h guards single accesses, which are one step each.  mutex_h  *)
(* is held over several steps of the manager and is modelled.              *)
(* HyThreadDestroy (hy_os) joins: it waits for the thread to end.          *)
(***************************************************************************)
EXTENDS HyQueue, FiniteSets

CONSTANTS
    MinThreads, MaxThreads,     \* save_c.thread_cnt_min, thread_cnt_max
    Batch,                      \* NUMBER: how many to start or retire at once
    TaskCount,                  \* bound: how many tasks the client adds
    StartMayFail                \* HyThreadCreate and run_befor_cb may fail

ASSUME PoolAssumption ==
    /\ MinThreads \in Nat /\ MaxThreads \in Nat /\ MinThreads <= MaxThreads
    /\ Batch \in Nat \ {0} /\ TaskCount \in Nat /\ StartMayFail \in BOOLEAN

Slots  == 1 .. MaxThreads
Tasks  == 1 .. TaskCount
NoTask == 0
Client == 0     \* as a thread waiting on the queue; the workers are their slots

ASSUME ItemAssumption == NoItem = NoTask

VARIABLES
    isExit, freed,
    minThreads,             \* save_c.thread_cnt_min, which Destroy overwrites
    live, exitNum, busy,    \* live_num, exit_num, busy_num
    handle, flag,           \* a slot's worker_thread_h is set, its flag
    wpc, task,              \* where the worker in a slot is, the task it holds
    held,                   \* the manager holds mutex_h
    mpc, load, next, count, \* the manager: its step, its samples, loop counters
    cpc, added, joined,     \* the client: its step, tasks added, loop counter
    ran                     \* how often each task has run

workers == <<handle, flag, wpc, task>>
manager == <<held, mpc, load, next, count>>
client  == <<cpc, added, joined, minThreads, isExit, freed>>
counts  == <<live, exitNum, busy>>
vars    == <<queueVars, workers, manager, client, counts, ran>>

NoLoad == [queue |-> 0, live |-> 0, busy |-> 0]

(* A failed HyThreadCreate ends Create's loop early, live_num or no.       *)
Init ==
    /\ QueueInit
    /\ isExit = FALSE /\ freed = FALSE /\ minThreads = MinThreads
    /\ live = MinThreads /\ exitNum = 0 /\ busy = 0
    /\ \E n \in IF StartMayFail THEN 0 .. MinThreads ELSE {MinThreads} :
          /\ handle = [s \in Slots |-> s <= n]
          /\ flag = [s \in Slots |-> s <= n]
          /\ wpc = [s \in Slots |-> IF s <= n THEN "start" ELSE "none"]
    /\ task = [s \in Slots |-> NoTask]
    /\ held = FALSE /\ mpc = "sleep" /\ load = NoLoad /\ next = 1 /\ count = 0
    /\ cpc = "idle" /\ added = 0 /\ joined = 0
    /\ ran = [t \in Tasks |-> 0]

WorkerAt(s, label) == ~freed /\ wpc[s] = label
Goto(s, label)     == wpc' = [wpc EXCEPT ![s] = label]

-----------------------------------------------------------------------------
(* _worker_loop_cb.                                                        *)

WorkerStart(s) ==
    /\ WorkerAt(s, "start")
    /\ \E label \in IF StartMayFail THEN {"loop", "exit"} ELSE {"loop"} : Goto(s, label)
    /\ UNCHANGED <<queueVars, handle, flag, task, manager, client, counts, ran>>

WorkerLoop(s) ==
    /\ WorkerAt(s, "loop")
    /\ Goto(s, IF isExit THEN "exit" ELSE "gate")
    /\ UNCHANGED <<queueVars, handle, flag, task, manager, client, counts, ran>>

(* Mutation: a retired worker is not taken out of the live count.          *)
WorkerGate_StillLive(s) ==
    /\ WorkerAt(s, "gate") /\ ~held
    /\ exitNum' = IF exitNum > 0 THEN exitNum - 1 ELSE exitNum
    /\ Goto(s, IF exitNum > 0 /\ live > minThreads THEN "exit" ELSE "read")
    /\ UNCHANGED <<queueVars, handle, flag, task, manager, client, live, busy, ran>>

(* Under mutex_h: one of the workers the manager wants to retire?  A       *)
(* request is used up even when the minimum forbids to follow it.          *)
WorkerGate(s) ==
    /\ WorkerAt(s, "gate") /\ ~held
    /\ exitNum' = IF exitNum > 0 THEN exitNum - 1 ELSE exitNum
    /\ IF exitNum > 0 /\ live > minThreads
          THEN live' = live - 1 /\ Goto(s, "exit")
          ELSE live' = live /\ Goto(s, "read")
    /\ UNCHANGED <<queueVars, handle, flag, task, manager, client, busy, ran>>

(* HyQueueRead: before its wait, and after it, when it gives up if there   *)
(* is still nothing.                                                       *)
WorkerRead(s) ==
    /\ WorkerAt(s, "read")
    /\ \/ TakeFront /\ task' = [task EXCEPT ![s] = Front] /\ Goto(s, "took")
       \/ BlockOnEmpty(s) /\ task' = task /\ Goto(s, "wait")
    /\ UNCHANGED <<handle, flag, manager, client, counts, ran>>

WorkerWoken(s) ==
    /\ WorkerAt(s, "wait") /\ s \notin notEmpty
    /\ \/ TakeFront /\ task' = [task EXCEPT ![s] = Front] /\ Goto(s, "took")
       \/ len = 0 /\ Goto(s, "loop") /\ UNCHANGED <<queueVars, task>>
    /\ UNCHANGED <<handle, flag, manager, client, counts, ran>>

WorkerBusy(s) ==
    /\ WorkerAt(s, "took")
    /\ busy' = busy + 1
    /\ Goto(s, "run")
    /\ UNCHANGED <<queueVars, handle, flag, task, manager, client, live, exitNum, ran>>

WorkerRun(s) ==
    /\ WorkerAt(s, "run")
    /\ ran' = [ran EXCEPT ![task[s]] = @ + 1]
    /\ task' = [task EXCEPT ![s] = NoTask]
    /\ busy' = busy - 1
    /\ Goto(s, "loop")
    /\ UNCHANGED <<queueVars, handle, flag, manager, client, live, exitNum>>

(* run_after_cb, then _thread_exit, which finds the slot by its handle: a  *)
(* slot whose handle is not set yet keeps its flag.                        *)
WorkerExit(s) ==
    /\ WorkerAt(s, "exit")
    /\ flag' = IF handle[s] THEN [flag EXCEPT ![s] = FALSE] ELSE flag
    /\ Goto(s, "return")
    /\ UNCHANGED <<queueVars, handle, task, manager, client, counts, ran>>

WorkerReturn(s) ==
    /\ WorkerAt(s, "return")
    /\ Goto(s, "dead")
    /\ UNCHANGED <<queueVars, handle, flag, task, manager, client, counts, ran>>

WorkerStep(s) ==
    \/ WorkerStart(s) \/ WorkerLoop(s) \/ WorkerGate(s) \/ WorkerRead(s)
    \/ WorkerWoken(s) \/ WorkerBusy(s) \/ WorkerRun(s) \/ WorkerExit(s)
    \/ WorkerReturn(s)

-----------------------------------------------------------------------------
(* _manager_loop_cb: three samples taken one after the other.              *)

ManagerAt(label) == ~freed /\ mpc = label

ManagerWakes ==
    /\ ManagerAt("sleep")
    /\ IF isExit THEN mpc' = "dead" /\ load' = NoLoad
                 ELSE mpc' = "live" /\ load' = [load EXCEPT !.queue = LenInBytes]
    /\ UNCHANGED <<queueVars, workers, held, next, count, client, counts, ran>>

ManagerSampleLive ==
    /\ ManagerAt("live")
    /\ load' = [load EXCEPT !.live = live]
    /\ mpc' = "busy"
    /\ UNCHANGED <<queueVars, workers, held, next, count, client, counts, ran>>

ManagerSampleBusy ==
    /\ ManagerAt("busy")
    /\ load' = [load EXCEPT !.busy = busy]
    /\ mpc' = IF load.queue > load.live /\ load.live < MaxThreads THEN "grow" ELSE "judge"
    /\ UNCHANGED <<queueVars, workers, held, next, count, client, counts, ran>>

(* Growing: mutex_h from here to the end of the loop.                      *)
ManagerGrow ==
    /\ ManagerAt("grow")
    /\ held' = TRUE
    /\ next' = 1 /\ count' = 0
    /\ mpc' = "create"
    /\ UNCHANGED <<queueVars, workers, load, client, counts, ran>>

Vacant(s) == ~flag[s] /\ ~handle[s]
Wanted    == {s \in Slots : s >= next /\ Vacant(s)}

(* The next vacant slot gets a thread, which runs before the handle is     *)
(* stored.                                                                 *)
ManagerCreate ==
    /\ ManagerAt("create")
    /\ count < Batch /\ live < MaxThreads
    /\ \E s \in Wanted :
          /\ \A r \in Wanted : s <= r
          /\ Goto(s, "start")
          /\ next' = s
    /\ mpc' = "record"
    /\ UNCHANGED <<queueVars, handle, flag, task, held, load, count, client, counts, ran>>

ManagerRecord ==
    /\ ManagerAt("record")
    /\ handle' = [handle EXCEPT ![next] = TRUE]
    /\ flag' = [flag EXCEPT ![next] = TRUE]
    /\ count' = count + 1
    /\ live' = live + 1
    /\ mpc' = "create"
    /\ UNCHANGED <<queueVars, wpc, task, held, load, next, client, exitNum, busy, ran>>

(* The loop is over, or HyThreadCreate failed.                             *)
ManagerGrown ==
    /\ ManagerAt("create")
    /\ count >= Batch \/ live >= MaxThreads \/ Wanted = {} \/ StartMayFail
    /\ held' = FALSE
    /\ mpc' = "judge"
    /\ UNCHANGED <<queueVars, workers, load, next, count, client, counts, ran>>

(* Retiring, by the samples taken before any growth.                       *)
ManagerJudge ==
    /\ ManagerAt("judge")
    /\ count' = 0
    /\ IF load.busy * 2 < load.live /\ load.live > minThreads
          THEN exitNum' = Batch /\ mpc' = "wake"
          ELSE exitNum' = exitNum /\ mpc' = "sleep"
    /\ load' = NoLoad /\ next' = 1
    /\ UNCHANGED <<queueVars, workers, held, client, live, busy, ran>>

ManagerWakeup ==
    /\ ManagerAt("wake")
    /\ Wakeup
    /\ count' = count + 1 /\ next' = 1
    /\ mpc' = "reap"
    /\ UNCHANGED <<workers, held, load, client, counts, ran>>

ManagerReap ==
    /\ ManagerAt("reap") /\ next <= MaxThreads
    /\ IF ~flag[next] /\ handle[next]
          THEN /\ wpc[next] = "dead"
               /\ handle' = [handle EXCEPT ![next] = FALSE]
               /\ Goto(next, "none")
          ELSE UNCHANGED <<handle, wpc>>
    /\ next' = next + 1
    /\ UNCHANGED <<queueVars, flag, task, held, mpc, load, count, client, counts, ran>>

ManagerReaped ==
    /\ ManagerAt("reap") /\ next > MaxThreads
    /\ mpc' = IF count < Batch THEN "wake" ELSE "sleep"
    /\ next' = 1 /\ count' = IF count < Batch THEN count ELSE 0
    /\ UNCHANGED <<queueVars, workers, held, load, client, counts, ran>>

ManagerStep ==
    \/ ManagerWakes \/ ManagerSampleLive \/ ManagerSampleBusy
    \/ ManagerGrow \/ ManagerCreate \/ ManagerRecord \/ ManagerGrown
    \/ ManagerJudge \/ ManagerWakeup \/ ManagerReap \/ ManagerReaped

-----------------------------------------------------------------------------
(* HyThreadPoolDynamicAddTask and HyThreadPoolDynamicDestroy.              *)

ClientAt(label) == ~freed /\ cpc = label

AddTask ==
    /\ \/ ClientAt("idle") /\ added < TaskCount
       \/ ClientAt("full") /\ Client \notin notFull
    /\ \/ PutBack(added + 1) /\ added' = added + 1 /\ cpc' = "idle"
       \/ BlockOnFull(Client) /\ added' = added /\ cpc' = "full"
    /\ UNCHANGED <<workers, manager, counts, joined, minThreads, isExit, freed, ran>>

DestroyBegin ==
    /\ ClientAt("idle")
    /\ isExit' = TRUE
    /\ cpc' = "joinManager"
    /\ UNCHANGED <<queueVars, workers, manager, counts, added, joined, minThreads, freed, ran>>

(* The manager is joined; thread_cnt_min workers are woken, blindly.       *)
DestroyJoinManager ==
    /\ ClientAt("joinManager") /\ mpc = "dead"
    /\ minThreads' = 0
    /\ joined' = 0
    /\ cpc' = "wake"
    /\ UNCHANGED <<queueVars, workers, manager, counts, added, isExit, freed, ran>>

DestroyWake ==
    /\ ClientAt("wake")
    /\ IF joined < MinThreads
          THEN Wakeup /\ joined' = joined + 1 /\ cpc' = cpc
          ELSE UNCHANGED queueVars /\ joined' = 1 /\ cpc' = "join"
    /\ UNCHANGED <<workers, manager, counts, added, minThreads, isExit, freed, ran>>

(* Mutation: a worker that lost its flag is taken for joined already.      *)
DestroyJoin_FlaggedOnly ==
    /\ ClientAt("join") /\ joined <= MaxThreads
    /\ handle[joined] /\ flag[joined] => wpc[joined] = "dead"
    /\ handle' = [handle EXCEPT ![joined] = FALSE]
    /\ joined' = joined + 1
    /\ UNCHANGED <<queueVars, flag, wpc, task, manager, counts, cpc, added, minThreads,
                   isExit, freed, ran>>

DestroyJoin ==
    /\ ClientAt("join") /\ joined <= MaxThreads
    /\ handle[joined] => wpc[joined] = "dead"
    /\ handle' = [handle EXCEPT ![joined] = FALSE]
    /\ joined' = joined + 1
    /\ UNCHANGED <<queueVars, flag, wpc, task, manager, counts, cpc, added, minThreads,
                   isExit, freed, ran>>

DestroyFree ==
    /\ ClientAt("join") /\ joined > MaxThreads
    /\ freed' = TRUE
    /\ cpc' = "gone"
    /\ UNCHANGED <<queueVars, workers, manager, counts, added, joined, minThreads, isExit, ran>>

DestroyStep == DestroyJoinManager \/ DestroyWake \/ DestroyJoin \/ DestroyFree

(* Condition variables may let anybody go.                                 *)
SpuriousWake(t) ==
    /\ ~freed
    /\ WaitEndsSpuriously(t)
    /\ UNCHANGED <<workers, manager, client, counts, ran>>

-----------------------------------------------------------------------------
Next ==
    \/ \E s \in Slots : WorkerStep(s)
    \/ ManagerStep
    \/ AddTask
    \/ DestroyBegin \/ DestroyStep
    \/ \E t \in Slots \cup {Client} : SpuriousWake(t)

(* Every thread that can run does run.  A worker at its gate competes for  *)
(* mutex_h with a manager that sleeps three seconds between two rounds: it *)
(* gets the mutex if it is free again and again.                           *)
Fairness ==
    /\ \A s \in Slots : WF_vars(WorkerStep(s)) /\ SF_vars(WorkerGate(s))
    /\ WF_vars(ManagerStep)
    /\ WF_vars(cpc = "full" /\ AddTask)
    /\ WF_vars(DestroyStep)

Spec == Init /\ [][Next]_vars /\ Fairness

-----------------------------------------------------------------------------
TypeOK ==
    /\ QueueTypeOK(Slots \cup {Client}, Tasks)
    /\ isExit \in BOOLEAN /\ freed \in BOOLEAN /\ minThreads \in {0, MinThreads}
    /\ live \in 0 .. MaxThreads /\ exitNum \in 0 .. Batch /\ busy \in 0 .. MaxThreads
    /\ handle \in [Slots -> BOOLEAN] /\ flag \in [Slots -> BOOLEAN]
    /\ wpc \in [Slots -> {"none", "start", "loop", "gate", "read", "wait", "took", "run",
                          "exit", "return", "dead"}]
    /\ task \in [Slots -> Tasks \cup {NoTask}]
    /\ held \in BOOLEAN
    /\ mpc \in {"sleep", "live", "busy", "grow", "create", "record", "judge", "wake", "reap",
               "dead"}
    /\ load \in [queue : {ItemSize * n : n \in 0 .. QueueCapacity},
                live : 0 .. MaxThreads, busy : 0 .. MaxThreads]
    /\ next \in 1 .. MaxThreads + 1 /\ count \in 0 .. Batch
    /\ cpc \in {"idle", "full", "joinManager", "wake", "join", "gone"}
    /\ added \in 0 .. TaskCount /\ joined \in 0 .. MaxThreads + 1
    /\ ran \in [Tasks -> Nat]

Serving(s) == wpc[s] \in {"start", "loop", "gate", "read", "wait", "took", "run"}

(* HyThreadPoolDynamicGetAliveNum, which waits for mutex_h, tells how many *)
(* workers serve the pool and never less than the minimum: however workers *)
(* leave between the manager's samples and its request to leave.           *)
LiveCounts ==
    ~held /\ ~isExit /\ ~StartMayFail =>
        /\ live = Cardinality({s \in Slots : Serving(s)})
        /\ live >= MinThreads

(* A task that was added is queued once, or held by one worker, or has run *)
(* once: no worker loses one or runs another's, whatever wakes it.         *)
TasksConserved ==
    \A t \in Tasks :
        ran[t] + Cardinality({k \in 1 .. len : QueueContents[k] = t})
               + Cardinality({s \in Slots : task[s] = t})
            = IF t <= added THEN 1 ELSE 0

(* HyThreadPoolDynamicDestroy frees the pool when every worker that was    *)
(* ever started has come to its end, retired or reaped ones included.      *)
FreedWhenAllEnded == freed => \A s \in Slots : wpc[s] \in {"none", "dead"}

(* Seen from its users, the queue of the pool is a plain fifo of tasks.    *)
Fifo == INSTANCE BoundedFifo WITH
    Capacity <- QueueCapacity, Payloads <- {<<t>> : t \in Tasks}, Lens <- {1},
    Readers <- Slots, queue <- QueueContents, closed <- FALSE,
    result <- [s \in Slots |-> IF wpc[s] = "took" THEN <<task[s]>> ELSE <<>>]

ImplementsFifo == Fifo!Spec

(* No worker can move, but those in a task.                                *)
Settled ==
    \A s \in Slots : \/ wpc[s] \in {"none", "run", "dead"}
                    \/ (wpc[s] = "wait" /\ s \in notEmpty)

(* Until the pool is destroyed every task that was added gets to run,      *)
(* although signals meant to retire a worker and signals for a new task    *)
(* wake whoever waits, and workers retire while tasks arrive.  This leans  *)
(* on sleep(3) at line 141: now and then a round of the manager finds all  *)
(* workers done with the last one, else it can start and retire for ever.  *)
TasksRun ==
    []<>(isExit \/ (mpc = "sleep" /\ Settled)) =>
        \A t \in Tasks : added >= t ~> (ran[t] > 0 \/ isExit)

(* What the comment at line 252 claims of Destroy, and what it does not    *)
(* do: tasks still queued are dropped.                                     *)
TasksDoneWhenFreed == freed => \A t \in 1 .. added : ran[t] > 0

(* What hy_thread_pool_dynamic.h claims of the pool ("creates workers      *)
(* according to the number of tasks"): when the manager decides to grow a  *)
(* pool below its maximum, it finds a slot.  It may not: exited workers    *)
(* keep their slots until the pool shrinks once more.                      *)
GrowthFindsASlot ==
    mpc = "create" /\ count = 0 /\ ~isExit /\ live < MaxThreads => Wanted # {}
=============================================================================
