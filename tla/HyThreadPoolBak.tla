--------------------------- MODULE HyThreadPoolBak ---------------------------
(***************************************************************************)
(* The earlier thread pool, src/linux/thread/hy_thread_pool_bak.c: a ring  *)
(* of tasks under one mutex and one condition.  A worker computes the next *)
(* read position when it takes the mutex and stores it when it has waited. *)
(* Create leaves the pending count and shutdown to the allocation, which   *)
(* is taken as zeroed.                                                     *)
(***************************************************************************)
EXTENDS Naturals, Sequences

CONSTANTS
    BakWorkers,
    task_max_cnt,   \* places in the ring, a power of two
    BakTasks        \* bound: tasks added in one behaviour

VARIABLES
    thread,         \* each worker: where it is, and its local next
    ring,           \* tasks
    task_pending_cnt, read_pos, write_pos, shutdown,
    given,          \* how many tasks were added
    taken,          \* history: the tasks in the order they were taken
    stale,          \* history: a stored read position was out of date
    bakEnd          \* Destroy: "run", "flagged", "join", "gone"

bakVars == <<thread, ring, task_pending_cnt, read_pos, write_pos, shutdown, given, taken,
             stale, bakEnd>>
ends    == <<shutdown, bakEnd>>

BakInit ==
    /\ thread = [w \in BakWorkers |-> [pc |-> "lock", next |-> 0]]
    /\ ring = [p \in 0 .. task_max_cnt - 1 |-> 0]
    /\ task_pending_cnt = 0 /\ read_pos = 0 /\ write_pos = 0
    /\ shutdown = "running" /\ bakEnd = "run"
    /\ given = 0 /\ taken = <<>> /\ stale = FALSE

After(p) == (p + 1) % task_max_cnt

(* Wakes one worker that waits, if there is one.                           *)
Signal ==
    LET waiting == {w \in BakWorkers : thread[w].pc = "wait"}
    IN  IF waiting = {} THEN UNCHANGED thread
        ELSE \E w \in waiting : thread' = [thread EXCEPT ![w].pc = "woken"]

(* HyThreadPoolAdd: refused when the ring is full or the pool shuts down.  *)
BakAdd ==
    /\ bakEnd \in {"run", "flagged"} /\ given < BakTasks
    /\ task_pending_cnt # task_max_cnt /\ shutdown = "running"
    /\ ring' = [ring EXCEPT ![write_pos] = given + 1]
    /\ write_pos' = After(write_pos)
    /\ task_pending_cnt' = task_pending_cnt + 1
    /\ given' = given + 1
    /\ Signal
    /\ UNCHANGED <<read_pos, taken, stale, ends>>

-----------------------------------------------------------------------------
(* _thread_pool_loop_cb, from taking the mutex, or waking with it, to the  *)
(* task.                                                                   *)
Take(w, next) ==
    /\ taken' = Append(taken, ring[read_pos])
    /\ stale' = (stale \/ next # After(read_pos))
    /\ read_pos' = next
    /\ task_pending_cnt' = task_pending_cnt - 1
    /\ thread' = [thread EXCEPT ![w] = [pc |-> "task", next |-> next]]

Decide(w, next) ==
    IF task_pending_cnt = 0 /\ shutdown = "running"
    THEN /\ thread' = [thread EXCEPT ![w] = [pc |-> "wait", next |-> next]]
         /\ UNCHANGED <<taken, stale, read_pos, task_pending_cnt>>
    ELSE IF shutdown = "immediate" \/ (shutdown = "graceful" /\ task_pending_cnt = 0)
    THEN /\ thread' = [thread EXCEPT ![w] = [pc |-> "gone", next |-> 0]]
         /\ UNCHANGED <<taken, stale, read_pos, task_pending_cnt>>
    ELSE Take(w, next)

BakLock(w) ==
    /\ thread[w].pc = "lock"
    /\ Decide(w, After(read_pos))
    /\ UNCHANGED <<ring, write_pos, given, ends>>

(* Mutation: a worker that is woken does not look again.                   *)
BakWoken_NoRetest(w) ==
    /\ thread[w].pc = "woken"
    /\ Take(w, thread[w].next)
    /\ UNCHANGED <<ring, write_pos, given, ends>>

BakWoken(w) ==
    /\ thread[w].pc = "woken"
    /\ Decide(w, thread[w].next)
    /\ UNCHANGED <<ring, write_pos, given, ends>>

BakTask(w) ==
    /\ thread[w].pc = "task"
    /\ thread' = [thread EXCEPT ![w].pc = "lock"]
    /\ UNCHANGED <<ring, task_pending_cnt, read_pos, write_pos, given, taken, stale, ends>>

(* External: a wait may end without a signal.                              *)
BakSpurious(w) ==
    /\ thread[w].pc = "wait"
    /\ thread' = [thread EXCEPT ![w].pc = "woken"]
    /\ UNCHANGED <<ring, task_pending_cnt, read_pos, write_pos, given, taken, stale, ends>>

-----------------------------------------------------------------------------
(* HyThreadPoolDestroy: shutdown is what the caller gives, and is written  *)
(* without the mutex.  HY_THREAD_POOL_DESTROY_RUNNING leaves it as it was: *)
(* no worker goes, and Destroy joins for ever.                             *)
BakShutdown ==
    /\ bakEnd = "run"
    /\ shutdown' \in {"running", "immediate", "graceful"}
    /\ bakEnd' = "flagged"
    /\ UNCHANGED <<thread, ring, task_pending_cnt, read_pos, write_pos, given, taken, stale>>

(* Mutation: one worker is told.                                           *)
BakBroadcast_One ==
    /\ bakEnd = "flagged"
    /\ Signal
    /\ bakEnd' = "join"
    /\ UNCHANGED <<ring, task_pending_cnt, read_pos, write_pos, shutdown, given, taken, stale>>

BakBroadcast ==
    /\ bakEnd = "flagged"
    /\ thread' = [w \in BakWorkers |->
                    IF thread[w].pc = "wait" THEN [thread[w] EXCEPT !.pc = "woken"] ELSE thread[w]]
    /\ bakEnd' = "join"
    /\ UNCHANGED <<ring, task_pending_cnt, read_pos, write_pos, shutdown, given, taken, stale>>

BakJoin ==
    /\ bakEnd = "join" /\ \A w \in BakWorkers : thread[w].pc = "gone"
    /\ bakEnd' = "gone"
    /\ UNCHANGED <<thread, ring, task_pending_cnt, read_pos, write_pos, shutdown, given, taken,
                   stale>>

BakWorker(w) == BakLock(w) \/ BakWoken(w) \/ BakTask(w)
BakDestroy   == BakBroadcast \/ BakJoin
BakNext == BakAdd \/ BakShutdown \/ BakDestroy \/ \E w \in BakWorkers : BakWorker(w) \/ BakSpurious(w)

-----------------------------------------------------------------------------
(* As many tasks are taken as were added, and they are those that were     *)
(* added, in their order and each once, as long as no worker comes out of  *)
(* its wait with a read position another worker has moved meanwhile.       *)
TakenOnceUntilStale ==
    /\ Len(taken) + task_pending_cnt = given
    /\ ~stale => \A i \in DOMAIN taken : taken[i] = i
    /\ (bakEnd = "gone" /\ shutdown = "graceful") => Len(taken) = given
=============================================================================
