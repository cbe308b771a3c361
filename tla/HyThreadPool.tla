---------------------------- MODULE HyThreadPool ----------------------------
(***************************************************************************)
(* The fixed thread pool, src/linux/thread/hy_thread_pool.c: workers that  *)
(* read tasks from a HyFifoLock.  That fifo is the bounded fifo HyFifoLock *)
(* is shown to implement, its items whole tasks.  A caller that finds it   *)
(* full, or empty, goes to sleep, and the other side, which signals        *)
(* without the sleeper's mutex, may do so just before that: the signal is  *)
(* lost, as run fifo_lock_stranded shows.  HyFifoLockDestroy relies on its *)
(* sleeps: it tells those that are asleep by then, and frees the fifo when *)
(* nobody is inside any more.                                              *)
(***************************************************************************)
EXTENDS Naturals, Sequences

CONSTANTS
    PoolWorkers,    \* the threads
    PoolCap,        \* task_item_cnt
    PoolTasks       \* bound: tasks added in one behaviour

VARIABLES
    worker,         \* where each worker is
    taskFifo,       \* fifo_lock_h
    adder,          \* the thread that adds tasks: "idle", or blocked in "add"
    parking,        \* callers in the fifo that have seen they have to wait
    asleep,         \* those in pthread_cond_wait
    missed,         \* history: a signal came when nobody was asleep yet
    added,          \* how many tasks were added: they are 1 .. added
    begun,          \* history: the tasks in the order workers took them
    poolEnd         \* Destroy: "run", "exit", "told", "freed", "gone"

poolVars  == <<worker, taskFifo, adder, parking, asleep, missed, added, begun, poolEnd>>
sleepVars == <<parking, asleep, missed>>

Adder == "adder"

PoolInit ==
    /\ worker = [w \in PoolWorkers |-> "start"]
    /\ taskFifo = <<>> /\ adder = "idle" /\ added = 0 /\ begun = <<>>
    /\ parking = {} /\ asleep = {} /\ missed = FALSE
    /\ poolEnd = "run"

Is(w, label)     == worker[w] = label
Becomes(w, label) == worker' = [worker EXCEPT ![w] = label]

(* pthread_cond_signal, for one of the callers in side; the wait, which a  *)
(* condition variable may also end without a signal.                       *)
Signal(side) ==
    /\ IF side \cap asleep = {} THEN UNCHANGED asleep
       ELSE \E c \in side \cap asleep : asleep' = asleep \ {c}
    /\ missed' = (missed \/ (side \cap asleep = {} /\ side \cap parking # {}))
    /\ UNCHANGED parking

Awake(c) == c \notin parking \cup asleep

Parks(c) ==
    /\ Awake(c) /\ parking' = parking \cup {c}
    /\ UNCHANGED <<worker, taskFifo, adder, asleep, missed, added, begun, poolEnd>>

Sleeps(c) ==
    /\ c \in parking /\ parking' = parking \ {c} /\ asleep' = asleep \cup {c}
    /\ UNCHANGED <<worker, taskFifo, adder, missed, added, begun, poolEnd>>

Spurious(c) ==
    /\ c \in asleep /\ asleep' = asleep \ {c}
    /\ UNCHANGED <<worker, taskFifo, adder, parking, missed, added, begun, poolEnd>>

(* run_befor_cb may fail; run_after_cb is only called, and changes nothing *)
(* here.                                                                   *)
WorkerStart(w) ==
    /\ Is(w, "start")
    /\ Becomes(w, "loop") \/ Becomes(w, "gone")
    /\ UNCHANGED <<taskFifo, adder, sleepVars, added, begun, poolEnd>>

WorkerLoop(w) ==
    /\ Is(w, "loop")
    /\ Becomes(w, IF poolEnd = "run" THEN "read" ELSE "gone")
    /\ UNCHANGED <<taskFifo, adder, sleepVars, added, begun, poolEnd>>

(* Mutation: the task is looked at and left in the fifo.                   *)
WorkerRead_Peek(w) ==
    /\ Is(w, "read") /\ Awake(w) /\ poolEnd \in {"run", "exit"} /\ taskFifo # <<>>
    /\ begun' = Append(begun, Head(taskFifo))
    /\ Becomes(w, "task") /\ Signal({Adder})
    /\ UNCHANGED <<taskFifo, adder, added, poolEnd>>

WorkerRead(w) ==
    /\ Is(w, "read") /\ Awake(w) /\ poolEnd \in {"run", "exit"} /\ taskFifo # <<>>
    /\ begun' = Append(begun, Head(taskFifo))
    /\ taskFifo' = Tail(taskFifo)
    /\ Becomes(w, "task") /\ Signal({Adder})
    /\ UNCHANGED <<adder, added, poolEnd>>

WorkerWaits(w) ==
    \/ Is(w, "read") /\ poolEnd \in {"run", "exit"} /\ taskFifo = <<>> /\ Parks(w)
    \/ Sleeps(w)

(* The read was told to end: it returns -1.                                *)
WorkerTold(w) ==
    /\ Is(w, "read") /\ poolEnd = "told"
    /\ Becomes(w, "gone")
    /\ UNCHANGED <<taskFifo, adder, sleepVars, added, begun, poolEnd>>

WorkerTask(w) ==
    /\ Is(w, "task")
    /\ Becomes(w, "loop")
    /\ UNCHANGED <<taskFifo, adder, sleepVars, added, begun, poolEnd>>

AddTask ==
    /\ adder = "idle" /\ poolEnd = "run" /\ added < PoolTasks
    /\ IF Len(taskFifo) < PoolCap
       THEN /\ taskFifo' = Append(taskFifo, added + 1) /\ added' = added + 1
            /\ Signal(PoolWorkers) /\ UNCHANGED adder
       ELSE adder' = "add" /\ UNCHANGED <<taskFifo, added, sleepVars>>
    /\ UNCHANGED <<worker, begun, poolEnd>>

AddGoesOn ==
    /\ adder = "add" /\ Awake(Adder) /\ poolEnd \in {"run", "exit"} /\ Len(taskFifo) < PoolCap
    /\ taskFifo' = Append(taskFifo, added + 1) /\ added' = added + 1
    /\ adder' = "idle" /\ Signal(PoolWorkers)
    /\ UNCHANGED <<worker, begun, poolEnd>>

AddWaits ==
    \/ adder = "add" /\ poolEnd \in {"run", "exit"} /\ Len(taskFifo) >= PoolCap /\ Parks(Adder)
    \/ Sleeps(Adder)

AddTold ==
    /\ adder = "add" /\ poolEnd = "told"
    /\ adder' = "idle"
    /\ UNCHANGED <<worker, taskFifo, sleepVars, added, begun, poolEnd>>

(* HyThreadPoolDestroy: is_exit, the fifo's Destroy, and then the join.    *)
PoolExit ==
    /\ poolEnd = "run" /\ poolEnd' = "exit"
    /\ UNCHANGED <<worker, taskFifo, adder, sleepVars, added, begun>>

PoolTell ==
    /\ poolEnd = "exit" /\ poolEnd' = "told" /\ parking' = {} /\ asleep' = {}
    /\ UNCHANGED <<worker, taskFifo, adder, missed, added, begun>>

PoolFreeFifo ==
    /\ poolEnd = "told" /\ adder = "idle" /\ \A w \in PoolWorkers : ~Is(w, "read")
    /\ poolEnd' = "freed" /\ taskFifo' = <<>>
    /\ UNCHANGED <<worker, adder, sleepVars, added, begun>>

PoolJoin ==
    /\ poolEnd = "freed" /\ \A w \in PoolWorkers : Is(w, "gone")
    /\ poolEnd' = "gone"
    /\ UNCHANGED <<worker, taskFifo, adder, sleepVars, added, begun>>

PoolWorker(w) ==
    \/ WorkerStart(w) \/ WorkerLoop(w) \/ WorkerRead(w) \/ WorkerWaits(w)
    \/ WorkerTold(w) \/ WorkerTask(w)
PoolDestroy == PoolTell \/ PoolFreeFifo \/ PoolJoin
PoolAdder   == AddGoesOn \/ AddWaits \/ AddTold
PoolNext ==
    \/ PoolDestroy \/ PoolExit \/ AddTask \/ PoolAdder
    \/ \E w \in PoolWorkers : PoolWorker(w)
    \/ \E c \in PoolWorkers \cup {Adder} : Spurious(c)

-----------------------------------------------------------------------------
(* Whatever the workers and Destroy are at, tasks are taken in the order   *)
(* they were added, none twice and none in between left out; when Destroy  *)
(* frees the fifo, those still in it are gone.                             *)
TasksInOrder ==
    LET left == begun \o taskFifo
    IN  /\ \A i \in DOMAIN left : left[i] = i
        /\ poolEnd \in {"run", "exit", "told"} => Len(left) = added
=============================================================================
