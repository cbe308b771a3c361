# Verification of libhy_utils

This directory holds TLA+ models of libhy_utils, a C library of containers,
threads, timers, inter-process communication and event loops for embedded
Linux, with the TLC configurations that check them and machine-checked proofs.
`PROJECT.json` ties every definition to the source lines it stands for.

1. [The system](#1-the-system): its components, their state, what is hard
2. [The models](#2-the-models): modules, and how they correspond to the code
3. [The runs](#3-the-runs): what is checked, with which bounds
4. [Assumptions](#4-assumptions): fairness, sleeps, the operating system
5. [The proofs](#5-the-proofs)
6. [What the checks say about the code](#6-what-the-checks-say-about-the-code)
7. [What is not modelled](#7-what-is-not-modelled)
8. [Plan](#8-plan)

To repeat a check: `tlc -config Pool.cfg MCHyThreadPoolDynamic.tla`; a proof:
`tlapm HyFifoLock_proofs.tla`.

## 1. The system

All of the library is passive: it owns no process, only the threads its
components start. Components are reached by calls of the application's threads
and by callbacks from the library's own threads. Locks, condition variables,
threads and memory come from a sister library, hy_os, which wraps POSIX and is
not part of this repository.

```
                       application threads and programs
   |        |            |              |                |            |
 HyFifo  HyFifoLock  HyThreadPool  HyThreadPoolDynamic  HyIpcProcess  hy_evconnlistener_demo
   |     HyFifoLock-     |              |              |       |       |      |       |
   |     Discard     HyFifoLock      HyQueue        ipc_link  HyFifo  Hy-    Hy-    libevent
   |                                                   |              Thread Package
 HyPHYLed     HyTimer  HyTimerMultiWheel  HyEpoll   HyIpcSocket       Pool   List
 HyHash  HyDynamicArray  HySort  HyJson  HyAtUtils  HyAlsa  HyNet  HyEventListener ...
```

| component | state | operations | what is hard | what makes it correct |
|---|---|---|---|---|
| **HyFifoLock** `src/linux/fifo/hy_fifo_lock.c` | byte ring, 32-bit counters `in`, `out`; one mutex and condition variable per side; `is_exit` | Write (blocks for room), Read, ReadPeek, ReadDel (block for bytes), Reset, Destroy | the two sides use different mutexes and read each other's counter; signals are sent without the waiter's mutex; Destroy relies on sleeps; counters wrap | never overfull; no byte read while written; delivers the bytes in order, once; a caller is blocked only for what is missing; Destroy frees every blocked caller |
| **HyFifo** `src/hy_fifo.c` | byte ring, `in`, `out`, `is_exit` | Write (stores what fits), Read, ReadPeek (deliver what is there), ReadDel, Reset, Destroy | no lock at all; memory order between counter and bytes | as above, for one producer and one consumer |
| **HyFifoLockDiscard** `.../hy_fifo_lock_discard.c` | as HyFifoLock, writers never wait | Write (pushes out the oldest bytes), Read, Peek, Del, Reset, Destroy | writers move the readers' counter while a reader loads it twice, copies and stores it | a reader gets no byte older than those due |
| **HyQueue** `src/linux/thread/queue.c` | ring of items, `len`, positions, one mutex, two condition variables | Write, Read, ReadPeek, Remove, Wakeup, LenGet | Wakeup signals without the mutex and for no reason: whom does it wake? | items in order, once |
| **HyThreadPoolDynamic** `.../hy_thread_pool_dynamic.c` | worker slots (`handle`, `flag`), `live_num`, `exit_num`, `busy_num`, a manager thread, a HyQueue | AddTask, Destroy, GetAliveNum, GetBusyNum; the manager starts and retires workers every 3 s | samples that are old when used; workers start and end between a manager's steps; slots must be joined and given back; Destroy | every task runs once; live count exact and within its bounds; every thread joined |
| **HyThreadPool** `.../hy_thread_pool.c` | fixed workers over a HyFifoLock of tasks | AddTask, Destroy | Destroy frees the fifo before it joins the workers | tasks run once, no use of a freed fifo |
| **HyThreadPoolBak** `.../hy_thread_pool_bak.c` (not built) | workers over a ring of tasks, one mutex, one condition variable | Add, Destroy | a read position kept across a wait | tasks run once; graceful Destroy runs all |
| **HyPackageList** `src/linux/hy_package_list.c` | list of buffers, `num`, mutex, condition variable | HeadGet (blocks), TailPut, GetNodeCount, Destroy | count and list must agree, also when a node could not be created; Destroy by sleeps | a buffer is held by one user at a time |
| **HyTimer** `src/linux/time/hy_timer.c` | wheel of `slot_num` lists, `cur_slot`, mutex, server thread | Add, Del, ServerDestroy; the server fires and refiles | callbacks run under the mutex; Del of a timer that fired; Add relative to slot 0 | a timer fires once per period, never after Del |
| **HyTimerMultiWheel** `.../hy_timer_multi_wheel.c` | five wheels, `cur_ms` | Add, Create, Destroy; cascade at wrap | Add without a lock, also between the parts of a tick; arithmetic of slots | fires at its tick |
| **IPC process** `src/linux/ipc/ipc_process/` | client: acknowledgement list, two threads; server: link list, registered callback ids, two fifos with semaphores, three threads and an accept thread | Create, Destroy, DataSync (request and wait 3 s for the answer), state callbacks | answers after a timeout, several answers, links that go away, locks across calls, memory freed before every thread is joined | an answer belongs to its request; Destroy ends |
| **IPC socket** `src/linux/ipc/ipc_socket/` | UNIX socket, connect state | Connect (with retries), Accept, Read, Write, Destroy | partial reads, Destroy against Accept | |
| **HyHash** `src/linux/hy_hash.c` | buckets of items, a mutex each | Add, PeekGet, Del, Destroy | Add looks and inserts in two critical sections; a value is replaced without its length | one item per key, the last added |
| **HyDynamicArray** | a growing buffer, two positions, `cur_len` | Write, WriteVprintf, Read, Reset, Destroy | growth arithmetic counts from the buffer's start, writes go elsewhere | gives back what it accepted |
| **HySort** `src/hy_sort.c` | none | bubble and quick sort | equal keys, none, one | every item once, in order |
| **HyAtUtils** (not built) | command list, fifo, eleven-state machine, half a frame | Process (one state per call), PutData from another thread, WriteCmd, Clean, Destroy | answers in pieces, headers cut in two, answers late, twice or never; frames whose data look like answers; time-outs and retries | frames whole; an answer takes off a command that was written |
| **HyEpoll**, **HyPHYLed** | a thread around epoll_wait; a led thread fed by a HyFifo | Add, Del, Destroy; SetLed, Destroy | exit flags that are looked at in one place only | Destroy returns |
| **libevent wrappers** `src/linux/libevent/` | an event base with a listener, or with one connection and a thread | Loop, Exit, Destroy; Write, Destroy | flags that the loop clears; another thread does not wake it; a Write beside the loop that frees what it writes to; a base freed under the loop | a loop asked to end ends; nothing is used after it is freed |
| **HyNet** `src/linux/net/` | wifi configuration, a thread it does not join | Create, Destroy | Destroy takes down what the thread goes on to bring up | one daemon of a kind, none at the end |
| **HyJson** `src/serialize/` | trees of cJSON nodes | Create, Add, get and set by path, Destroy | two views of a number; names that are there twice | a field reads as it was written |
| **HyAlsa** `src/linux/audio/hy_alsa.c` | a capture device, its parameters | Create, GetData, Destroy | short reads, overruns, suspends | a period is whole and in order |
| **hy_evconnlistener_demo** `example/linux/libevent/` | a server: pool, list of nodes, a counter, an event base per worker | accept, serve, leave, signal | three components that block each other | every client keeps its node and descriptor, and gives them back |
| **hy_package_list_demo** `example/linux/` | two threads, a list of their own | get, hand on, put back, signal | the order of the joins | a signal ends it |
| md5, directories, curl, dlopen, bits | | wrappers | | |

`PROJECT.json` lists the hazards found in this code line by line, each with the
property that would catch it going wrong, or the reason there is none yet.

## 2. The models

```
 BoundedFifo   <-- implemented by --  HyFifoLock, HyFifo, HyThreadPoolDynamic
 FifoRing      <-- extended by -----  HyFifoLock, HyFifo, HyFifoLockDiscard
 HyQueue       <-- extended by -----  HyThreadPoolDynamic
 IpcSocket     <-- extended by -----  IpcProcessServer, IpcProcessClient
                                      <-- composed by -- IpcProcess
 HyThreadPool  <-- extended by -----  EvConnListenerDemo  \
 HyPackageList <-- extended by -----  PackageListDemo      > MCServices
 HyTimer, HyTimerMultiWheel, HyThreadPoolBak, HyEpoll,     |
 HyPHYLed, HyBuffereventClient, HyEventListener, HyNet    /
 HyFifoLockDiscard, HyHash, HyDynamicArray,
 HyAtUtils, HyJson, HyAlsa                                -> MCContainers
 HySort, MCContainers                                     -> MCAllContainers
 proofs: FifoRing_proofs <- HyFifoLock_proofs, HyFifo_proofs;
         HyPackageList_proofs, HyThreadPoolDynamic_proofs,
         IpcProcess_proofs, MCServices_proofs, MCContainers_proofs
```

**BoundedFifo** is the abstract specification: a sequence of at most Capacity
elements, to which a write appends a payload at once, and from which a read
takes, a peek copies, a delete drops a prefix at once. It has no threads'
positions, locks, ring or counters. Three components are shown to implement it,
each under its own refinement mapping.

**FifoRing** is the ring the byte fifos share: `in` and `out` are kept modulo
`Modulus` (2^32 in the code; any multiple of the capacity), `Used` and `Free`
are the wrapped differences of the macros, and `CopyIn` and `CopyOut` do the
two-part memcpy. A byte is a natural number.

**HyFifoLock** has any number of writers and readers and one owner. A step of a
thread is what it does between two accesses to shared state, so for a write:
`WriteCall` (arguments), `WriteLock`, `WriteTest` (compare the length with the
free length), `WritePark` (release the mutex and wait), `WriteWoken` (reacquire;
test the exit flag), `WriteAbort` (the exit branch), `WriteCopy`, `WriteCommit`
(move `in`, unlock) and `WriteSignal`. The three reading calls share their
steps, distinguished by `op`. `Reset*` takes both mutexes, `Destroy*` is the
flag, sleep, broadcast, sleep, free of the code; after the free nothing moves. A
memcpy is one step: `CopiesDisjoint` says no other step can see it half done.
Line 74 unlocks the wrong mutex; the model does so too.

**HyFifo** is one producer and one consumer. With `LoadsReordered` the consumer
may have loaded the bytes before it loads `in` (`early` holds the ring as it saw
it): the code has no barrier there. With `ResetAnytime` a reset may come while
the other side is inside a call.

**HyQueue** gives one operator per critical section of the queue; everything
but Wakeup runs under the one mutex, so a critical section is one step. A
waiting thread is in `notEmpty` or `notFull`; a signal takes one out.
HyQueueRead gives up after *one* wait if there is still nothing, and its caller
goes round (`WorkerWoken`).

**HyThreadPoolDynamic** has workers in slots 1 .. MaxThreads, the manager and a
client. A worker's position in `_worker_loop_cb` is `wpc`; `handle` and `flag`
are the fields of its slot. The manager's round is `ManagerWakes` (the end of
`sleep(3)`, the exit test, the first sample), two more samples, the growing loop
under `mutex_h` (`ManagerCreate` starts a thread, `ManagerRecord` stores its
handle: the thread runs in between), then the retiring part, `ManagerWakeup` and
`ManagerReap`. Single accesses under `busy_mutex_h` are single steps.
`DestroyJoin` waits for the thread of each slot that has a handle. Tasks end:
a task is one step.

**HyPackageList** has one mutex, so a critical section is one step: `GetEnter`
and `GetWoken` are HeadGet from the lock, or the wake-up, to the unlock or the
next wait; `PutEnter` is TailPut's, and `PutSignal`, outside the mutex, a step of
its own. `TakeHead` takes the first entry because `num` says there is one; the
model keeps list and count apart, and a user that takes the entry of an empty
list ends up `lost`. `Destroy*` is the flag, sleep, broadcast, sleep, the nodes
under the mutex, the free. A node outside the list belongs to all users (`used`),
as in PackageListDemo, where one thread gets and another puts. `CreateMayFail`
lets the node callback fail, which Create counts as a node.

**IpcSocket** is a connection as two reliable streams, one each way, whose
elements are whole messages; the kernel queues a connection until `AcceptOldest`
makes a link of it. Messages carry the *address* of a link through the other
process and back, and malloc may give the address of a freed link to a later
connection: `link` says which connection has which address.

**IpcProcessServer** has the five threads of a server process: A accepts, M
reads the links and drops the closed ones, C forwards requests from one fifo, K
brings answers back from the other, D destroys. A pass over the list of links
is under `list_mutex` and one step, M's one step for each message, but that an
answer M has read is in its hands (`replying`) until it is in the fifo. `Destroy`
follows lines 355 to 364: join K, free the answers' semaphore and fifo, join M,
free the requests' and the list of links, join C. An M that then puts its answer into
the freed fifo, or a C that uses the freed list, has `crashed`. **IpcProcessClient**
has, per client process, the connecting thread N, the handling thread H, any number of
callers of DataSync and D. H reads an answer first (`inHand`) and then waits for
`ack_mutex`, and looks at its exit flag only between two messages. A caller that
finds only answers to others goes round without waiting and with `ack_mutex`
held, looking at `exit_flag` each time: `spin`. **IpcProcess** composes one server
and its clients; a client may die and come back, and so may the server, and every
process may be destroyed at any time (`MaxEnds` of these in one behaviour).

**HyThreadPool** and **HyPHYLed** use the bounded fifos that HyFifoLock and
HyFifo are shown to implement: a sequence of whole items. What the bounded fifo does
not promise, that a caller asleep in HyFifoLock is told, HyThreadPool models beside it:
who is about to sleep (`parking`) may miss a signal, and sleeps on (`asleep`, `missed`)
until another one. **HyThreadPoolBak** keeps `next`, the read position a worker computed
before it waited, per worker; `stale` says that one was stored after another worker had
moved on. `BakShutdown` stores any of the header's three values, also the one that says
that the pool is running. Create leaves two fields to the allocation, taken as zeroed.

**HyTimer** walks one slot per turn under the mutex (`Wake`, `Visit`,
`SlotDone`), and frees a timer that rang; `Del` looks at one slot per step. A
timer's address may be used again. **HyTimerMultiWheel** keeps `ticks` and the
place each timer is filed at, flat element numbers included, because the wheels
share elements; Add reads the tick, chooses the place and links in three steps, and
a tick is three as well, `Cascade`, `Raise` and `Detach`, so that Add's may come
anywhere in between. Linking an entry and detaching a list are one step each.

**HyEpoll**, **HyEventListener** and **HyBuffereventClient** treat epoll and
libevent as external: they call back, in any order the kernel may choose; the
libevent loop tests its two flags before it waits, and a thread that sets one
does not wake it. A Write of the bufferevent client has a beginning and an end,
with the loop's steps in between (`BevWrite`, `BevWrites`). **HyNet** keeps what its
shell commands change: the interface and how many of each daemon run; udhcpc is
started in the background and runs some time later (`UdhcpcRuns`). What it is
configured to do it takes from the configuration or, for what nobody writes, from the
allocation, which may hold anything. In **HyJson** a tree is a sequence of items
with children as lists of addresses, and a number has an integer and a real
view; `said` is the history of what was written; names are compared without
case, as cJSON does, so the names of the model differ in more than that.
**HyAlsa** numbers the frames a device captures; `SndPcmReadi` may give fewer than it
was asked for.

**HyFifoLockDiscard** loads and stores the read counter in steps of their own, as
the writer moves that counter under another mutex: a reader loads it once for the
length of its first part (`ReadPart`), once for its place (`ReadPlace`), copies byte by
byte, and loads it again to store it. Where the two loads differ it reads behind
the buffer (`Outside`). **HyHash** takes the two sections of Add apart, and replaces a
value as the code does, without its `val_len`. **HyDynamicArray** keeps the
memory as a sequence, with 0 for bytes nobody wrote; `lapse` says which of three
things happened after which it may write outside. **HySort** has both sorts as
folds and a recursion, against the definition of a sorted array. **HyAtUtils**
has one action per state of the engine; what it looks for is two elements of
the fifo, and a frame's header three, so that both can be cut. A first element that
is alone is waited for, if it has two characters, or lost, if it has one (`ReadLone`,
either may be); a header without its end is cleaned away, waited for or copied with a
length that wraps, by how long it is (`ReadFrameCut`), and that copy is the end of
the model. A modem answers, is silent, or talks unasked.

**EvConnListenerDemo** is a program of the library: the listener takes a node
from a package list for each client, adds a task to a HyThreadPool (whose
actions it uses) and waits while pool and fifo are full; the worker serves the
client and puts the node back. **PackageListDemo** is another, around
HyPackageList (whose actions it uses): one thread gets, one puts, the main
thread joins them in that order. `next` is the node the traversal of the put
thread looked up before it gave the mutex back.

**MCServices** and **MCContainers** put the components that share nothing next to
each other; `active`, chosen in the initial state, says which one runs, so that
the states add up and are not multiplied. **MCAllContainers** adds the sorts to the
components of MCContainers, which MCContainers_proofs is about.

## 3. The runs

| run | instance | what it shows |
|---|---|---|
| `fifo_lock` | 2 writers, 1 reader, owner; ring of 2, counters modulo 4; payloads of 1 and 2 | `WindowSafe`, `CopiesDisjoint`; `ImplementsFifo`: a bounded fifo; `DestroyReleasesReaders` |
| `fifo_lock_stranded` | 1 writer, 2 readers | refutes `NobodyStranded` |
| `fifo_lock_destroy` | 2 writers, 1 reader | refutes `LocksReleased` |
| `fifo` | ring of 4, counters modulo 8; writes of 1, 2, 5; reads of 1, 2, 5 | `WindowSafe`, `CopiesDisjoint`, `ImplementsFifo` |
| `fifo_reordered` | the same, `LoadsReordered` | refutes `ReadsWhatItRemoves` |
| `pool_dynamic` | 1 to 2 workers, batches of 2, queue of 2, 3 tasks, destroyed at any time | `LiveCounts`, `TasksConserved`, `FreedWhenAllEnded`, `ImplementsFifo`, `TasksRun` |
| `pool_dropped` | 1 to 2 workers, 2 tasks | refutes `TasksDoneWhenFreed` |
| `pool_regrow` | 1 to 3 workers, 3 tasks | refutes `GrowthFindsASlot` |
| `package_list` | 4 users, 3 buffers, destroyed at any time | `OneOwner`, `WakeUpsReach`, `CountIsLength`, `DestroyReleasesUsers` |
| `ipc` | a server; a client with 2 callers; a client that offers one function and may die; fifos of 1, 2 requests, 3 connections, one process ends or dies | `TokensAreItems`, `AnswersGoBack`, `RunsAreRegistered`, `FreedUnderTwo`; `ServerDestroyEnds`, `ClientDestroyEnds`, `CallsReturn` |
| `services` | 10 services and 2 programs, one at a time; bounds below | `RingsNearItsTime`, `DelMissesOnlyWhatRang`, `FiresOnTime`, `TasksInOrder`, `TakenOnceUntilStale`, `FreedUsedInHaste`, `OneDaemonEach`, `ClientsAccountedFor`; `DestroysEnd` |
| `containers` | 7 containers and devices, one at a time; bounds below | `ReadsAreFresh`, `OneItemUnlessRaced`, `KeepsWhatItAccepts`, `SortsEveryItem`, `FramesWhole`, `AckedOnceWritten`, `ReadsLastWritten`, `PeriodsWhole` |

Properties in words:

* `WindowSafe`: what a thread found when it tested the counters still holds when
  it copies and commits, although the other side, which it does not exclude, has
  moved; and the ring is never overfull. This is the heart of both fifos.
* `CopiesDisjoint`: the slots being filled and those being read are disjoint,
  across the end of the ring and the wrap of the counters.
* `ImplementsFifo`: the bytes between the counters behave as the queue of
  BoundedFifo, every read delivering what was its head when `out` moved.
* `DestroyReleasesReaders`: once Destroy began, the handle is eventually freed
  with every reader out of its call.
* `LiveCounts`: whenever `mutex_h` is free, `live_num` is the number of workers
  that serve, never below the minimum, whatever happened between the manager's
  samples and the requests to leave that it based on them.
* `TasksConserved`: a task that was added is in the queue, in one worker's
  hands, or has run, exactly one of them, and once.
* `FreedWhenAllEnded`: no thread outlives the pool.
* `TasksRun`: until Destroy every task added gets to run, although Wakeup and
  retirement use up signals meant for tasks.

* `OneOwner`: a buffer is in the list once, with the users, on its way back by
  one of them, or destroyed; never in two places and never nowhere.
* `WakeUpsReach`: while a user sleeps, there are at least as many signals to come
  and woken users to look as there are nodes, although signals are sent outside
  the mutex and users who come by take nodes others were woken for.
* `CountIsLength`: the count HeadGet trusts is the list's length.
* `DestroyReleasesUsers`: once Destroy began, the handle is eventually freed with
  every user out of its call.

* `TokensAreItems`: a semaphore counts the items of its fifo, also when the fifo
  was full and a message was lost, until Destroy posts without an item.
* `AnswersGoBack`: an answer on the way to a client, or in its list, is for a
  request of that connection, unless the asker's link is freed: the address in
  the message went through another process and may be someone else's by then.
* `RunsAreRegistered`: for one request a function runs no more often than its id
  was registered, times the clients that have it.
* `FreedUnderTwo`: of the memory Destroy frees before it has joined every thread,
  two threads at most are left to use it: M, with an answer in its hands when the fifo
  goes, and C, with a request when the list of links goes. Nothing else crashes.
* `ServerDestroyEnds`, `ClientDestroyEnds`, `CallsReturn`: Destroys and calls end,
  with the exceptions section 6 lists, which are part of the statements.

* `RingsNearItsTime`: a timer rings no later than asked for, or than one turn,
  and less than two turns early, wherever the server was when it was added.
* `DelMissesOnlyWhatRang`: a Del that does not take its own timer missed one that
  rang, or one such a Del took; a step property over freed addresses.
* `FiresOnTime`: a timer fires in its tick, through cascades, shared lists and the
  wrap of `cur_ms`; one that a tick overtook while Add filed it fires then or later;
  only one that was linked after `cur_ms` was raised and before the list that runs was
  detached fires early, by one turn of the base exactly.
* `TasksInOrder`, `TakenOnceUntilStale`: the two fixed pools take tasks in order
  and once; the older one until a read position is stale.
* `FreedUsedInHaste`: the bufferevent client's thread never uses what it freed
  itself. Freed memory is used when Destroy was called with the thread, or a Write, still
  under way; by an application that avoids that, and does not write once it was told of
  the end, only in a Write that began before it was told: `_event_cb` frees first.
* `OneDaemonEach`: a connected interface has one wpa_supplicant, and one udhcpc, or
  one on its way, if it is configured so, whatever ran before; after an end that was
  asked for once it was connected, the interface is down, and no daemon is left but an
  udhcpc that killall was too early for.
* `ClientsAccountedFor`: nodes, the counter and open descriptors of the server agree
  with its clients, wherever these are: in the listener's hands, in the pool's
  fifo, served, leaving.
* `DestroysEnd`: Destroys return and joined threads end, one conjunct for each
  service: the timer's turn ends, the wheels, the pools, the epoll and led threads
  are joined, the bufferevent client's thread too once the server has closed, a loop
  that was asked to end ends, and a signal ends both programs. The conjuncts name what
  is left out: a led fifo that stays empty, the older pool told that it is running, a
  listener of the server that lost its wake-up in AddTask (`missed`), and the put
  thread's end with every node on its way to it (`Stuck`). Each of these hangs.

* `ReadsAreFresh`: a reader of the discarding fifo gets no byte older than its place
  counted from the older of the positions it loaded, however far the writer overtakes
  it; and bytes from behind the buffer only if its two loads differ.
* `OneItemUnlessRaced`: a key has one item, with the value last added and the length
  of the one first added, unless two Adds missed it together.
* `KeepsWhatItAccepts`: the array gives back the bytes it accepted, and writes
  outside its memory only after one of three lapses.
* `SortsEveryItem`: every item once, in order, the bubble sort stably.
* `FramesWhole`: `handle_frame_cb` is given what was sent or is not called, in however
  many pieces it came and whatever was cut of frames before it.
* `AckedOnceWritten`: an answer takes a command off the list only when all of it was
  written, and the engine does nothing undefined, unless a resend, a loss, a given-up
  command or a string of which only a part had come came first.
* `ReadsLastWritten`: a field reads as the number or text last written to it,
  except for the integer view after HyJsonSetItemReal.
* `PeriodsWhole`: a GetData that succeeds has a whole period, in order of capture.

**Bounds.** Two writers are what it takes for writers to compete for a mutex and
a lost or stolen signal; with one reader on the other side, every pair of roles
meets (two readers are in the stranded run, and in the proofs). A ring of two
with counters modulo four, or four modulo eight, passes the end of the ring and
the wrap of the counters within a few calls, with calls that fit, fill and
exceed. No counter of calls bounds these runs: the fifos' state spaces are
finite without one. A pool of one to two workers has the minimum, the maximum,
growth, retirement and reuse of a slot; a queue of two and three tasks fill it,
block the client and leave a sample above the live count, which growth needs
(the queue's length is counted in bytes, its comparison in workers). `TaskCount`
is the one bound on behaviour, in `AddTask`. Four users of three buffers let
two sleep while two put, one of whose nodes a passer-by takes, and one sleep
while all buffers are out.

`ipc` needs two callers in one client for one to find the other's answer, and a
fifo of one to be full; three connections let a client come back after it died,
at the address of its freed link. `MaxCalls`, `MaxConns` and `MaxEnds` bound
what is asked, connected and ended. In `services` the timer has two users, two
slots and expiries of half a turn to two turns; the wheels have two levels of two
and four lists, so that 40 ticks wrap them and `cur_ms`; the fixed pool two
workers, a fifo of one and four tasks, so that the adder blocks; the older
pool a ring of two and four tasks, so that positions wrap and go stale; the
server a list of six nodes for four clients; the other program three nodes. In
`containers` the discarding fifo has two bytes, five of them written; the hash
table two buckets and two users; the array grows from 4 to 10 bytes in writes of
1, 3 and 5, and arithmetic wraps at 1024; JSON trees have three items; a capture has
periods of up to three frames; arrays to sort have up to five items of four keys; the AT
engine takes two commands, one with data, pieces of one element and one unasked message.
Each of these bounds is a constant of the cfg that its guard names, and lets every action
happen.

Deadlock is not checked: a fifo nobody calls, and a pool that is gone, stop
rightly. `TypeOK` of the fifos, the package list, the pool and IPC is proved
(section 5) and therefore not in the runs.

## 4. Assumptions

* **Scheduling.** A thread that can run does run: weak fairness of each thread's
  steps. Starting a call, resetting and destroying are the application's choice
  and have no fairness. One step has strong fairness: a worker's `WorkerGate`,
  which competes for `mutex_h` with a manager that sleeps three seconds between
  rounds. Spurious wakes may happen and are never relied upon.
* **Sleeps.** Destroy sleeps for one millisecond to let calls come to rest.
  `SleepSettles = TRUE` grants it that: the sleep ends when every thread has
  returned or blocked. All three HyFifoLock runs and `package_list` assume it, so that what they
  refute does not need a late thread. `WakeUpsReach` and `OneOwner` of the package
  list are proved without it.
* **`sleep(3)` in the manager** (line 141). `TasksRun` has the premise that again
  and again a round of the manager finds the workers done with what the last one
  asked of them. Without it the manager can start and retire workers for ever,
  faster than one of them reads the queue.
* **Libraries.** libevent, epoll, ALSA, cJSON, sockets and the daemons of HyNet are
  modelled by what the code relies on, and marked external in the map. The
  threads of the timers, pools, epoll and led services, the loop and its timer,
  both programs' threads, and a Destroy that has begun have weak fairness;
  clients, signals, modems, servers and devices have none.
* **Messages.** A message of the IPC library is written and read whole: no two
  threads write to one socket at a time (`ipc_link_write` has no lock), and reads
  and writes are not short. A write to a closed peer fails and returns.
* **hy_os.** Mutex, condition variable and thread behave as the POSIX ones they
  wrap; HyThreadDestroy joins. Only HyFifo is checked with reordered memory.
* **Allocation.** HY_MEM_MALLOC is hy_os's and is not known to clear what it gives.
  Fields that a Create leaves to it are taken as zeroed in HyThreadPoolDynamic
  (`is_exit`, the queue's `len`) and HyThreadPoolBak (`task_pending_cnt`, `shutdown`):
  with anything else these pools do not work at all. HyNet, whose load functions write
  nothing, takes what is there for its configuration, whatever it is. HyThreadPoolDynamic
  starts when Create has returned, before its first workers change what Create stores
  last.
* **Flags.** A thread that goes round sees a flag another one has set: each round reads
  it anew. That is how a caller that spins with `ack_mutex` held leaves when its client is
  destroyed (`src/linux/ipc/ipc_process/ipc_process_client.c:86`), and H after it.
* **Callers** keep to the headers: one producer and one consumer for HyFifo, one
  Destroy, no call on a handle after it was freed.

## 5. The proofs

All theorems hold for every value of the constants that the named assumptions
of the modules allow; TLC evaluates those assumptions on every run.

| theorem | statement |
|---|---|
| `HyFifoLock_proofs!FifoSafe` | `Spec => [](TypeOK /\ HoldsLock /\ WindowSafe)` |
| `HyFifoLock_proofs!CopiesNeverOverlap` | `Spec => []CopiesDisjoint` |
| `HyFifoLock_proofs!RingImplementsFifo` | `Spec => ImplementsFifo`: the refinement of BoundedFifo |
| `HyFifo_proofs!FifoSafe` | `Spec => [](TypeOK /\ WindowSafe)`, if Reset is called by neither side during a call of the other |
| `HyFifo_proofs!CopiesNeverOverlap` | `Spec => []CopiesDisjoint`, under the same condition |
| `HyFifo_proofs!DeliversWhatItRemoves` | `Spec => []ReadsWhatItRemoves`, under the same condition and if loads are not reordered |
| `HyFifo_proofs!RingImplementsFifo` | `Spec => ImplementsFifo`, under the same two conditions |
| `HyPackageList_proofs!NobodyOverslept` | `Spec => [](TypeOK /\ WakeUpsReach)` |
| `HyPackageList_proofs!BuffersHaveOneOwner` | `Spec => []OneOwner` |
| `HyPackageList_proofs!CountAgrees` | `Spec => []CountIsLength`, if every node was created and the sleeps settle |
| `HyThreadPoolDynamic_proofs!LiveCountsServers` | `Spec => []LiveCounts` |
| `HyThreadPoolDynamic_proofs!EveryTaskOnce` | `Spec => []TasksConserved` |
| `HyThreadPoolDynamic_proofs!NoWorkerOutlivesPool` | `Spec => []FreedWhenAllEnded` |
| `HyThreadPoolDynamic_proofs!QueueImplementsFifo` | `Spec => ImplementsFifo` |
| `MCServices_proofs!PoolTasksInOrder` | `Spec => []TasksInOrder` (HyThreadPool, alone and in the server) |
| `MCServices_proofs!BakTakesOnce` | `Spec => []TakenOnceUntilStale` (HyThreadPoolBak), if it has a worker |
| `MCServices_proofs!EveryClientAccountedFor` | `Spec => []ClientsAccountedFor` (EvConnListenerDemo) |
| `MCServices_proofs!DaemonsAsConfigured` | `Spec => []OneDaemonEach` (HyNet) |
| `MCServices_proofs!FreedMemoryInHaste` | `Spec => []FreedUsedInHaste` (HyBuffereventClient) |
| `MCServices_proofs!TimersRingNear` | `Spec => []RingsNearItsTime` (HyTimer) |
| `MCServices_proofs!DelsMissOnlyWhatRang` | `Spec => DelMissesOnlyWhatRang` (HyTimer), an action property |
| `MCServices_proofs!WheelsFireOnTime` | `Spec => []FiresOnTime` (HyTimerMultiWheel) |
| `MCContainers_proofs!FreshReads` | `Spec => []ReadsAreFresh` (HyFifoLockDiscard), if `MaxBytes < Modulus` |
| `MCContainers_proofs!OneItemPerKey` | `Spec => []OneItemUnlessRaced` (HyHash) |
| `MCContainers_proofs!AcceptedIsKept` | `Spec => []KeepsWhatItAccepts` (HyDynamicArray) |
| `MCContainers_proofs!WholePeriods` | `Spec => []PeriodsWhole` (HyAlsa) |
| `MCContainers_proofs!FramesComeWhole` | `Spec => []FramesWhole` (HyAtUtils) |
| `MCContainers_proofs!AckedWhenWritten` | `Spec => []AckedOnceWritten` (HyAtUtils) |
| `MCContainers_proofs!LastWrittenIsRead` | `Spec => []ReadsLastWritten` (HyJson) |
| `IpcProcess_proofs!AnswersComeBack` | `Spec => []AnswersGoBack` |
| `IpcProcess_proofs!NothingRepeats` | `Spec => []RunsAreRegistered` |
| `IpcProcess_proofs!TokensCountItems` | `Spec => []TokensAreItems` |
| `IpcProcess_proofs!FreedUnderTwoThreads` | `Spec => []FreedUnderTwo` |
| `IpcProcess_proofs!TypesKept` | `Spec => []TypeOK` |

**Assumptions on constants.** `SizeAssumption`: the counters' range is a
multiple of the capacity (powers of two in the code, which rounds a capacity
up). `CallAssumption`: a length fits a hy_u32_t. `ThreadsAssumption`: roles are
distinct. `NodesAssumption`: finitely many users and nodes. `PoolAssumption` and
`QueueAssumption`: a minimum of at least one worker that the maximum is not below, a batch of at
least one, a queue of at least one item. `ServicesAssumption`: a ring of at least
one task, a wheel of at least one slot, delays in slots, a number of nodes, and
users other than 0, the owner of a freed timer. `IpcAssumption`: who offers, asks, dies and is
closed are clients, callers and ids, and the bounds are numbers.
`ContainersAssumption`: calls of the discarding fifo are for at most its capacity,
its counters' range is a larger multiple of it, values of the hash table are lengths,
and the growing array starts below its limit, which with one more write stays far from the range of a hy_u32_t.
`AtAssumption`: the AT engine's sizes and flag are numbers and a truth value, and
what a modem says unasked answers no command.
`JsonAssumption`: numbers are naturals, and `NoValue` is neither a node nor
something written.
`WheelAssumption`: at least one wheel beside the base, and delays shorter than half
the range of the clock, which is what lets the code tell a time to come from one
that has passed (2^31 there). `PowersAssumption` is the law of exponents for the
exponents the wheels' sizes add up to: the provers know no power beyond those of
literals, and the law would need an induction; TLC evaluates it.
Two theorems have a hypothesis of their own. `BakTakesOnce`, `BakWorkers # {}`: a
pool that was created with no worker is freed by a graceful Destroy with its
tasks in it. `FreshReads`, `MaxBytes < Modulus`: a reader that is held up between
its loads of `out` and its copy while 2^32 bytes are written takes a position one
whole turn old for a new one, and gets bytes older than those due.

*The fifos.* `FifoInv == TypeOK /\ HoldsLock /\ WindowSafe` is inductive.
`WindowSafe` alone is not: another writer could commit between a writer's test
and its copy. `HoldsLock` rules that out: a thread between its test and its
commit holds its side's mutex, so of its own side nobody moves, and the other
side can only add to what it found (`UsedAfterRead` makes room, `UsedAfterWrite`
brings bytes). The exit branch at line 74 unlocks the other side's mutex, so
`HoldsLock` and `WindowSafe` are claims until Destroy begins, and `TypeOK` says
nothing of a reader's buffer after it. In HyFifo the roles' uniqueness takes the
place of the locks. `CopiesDisjoint` follows from `WindowSafe` by arithmetic:
`WindowsDisjoint` in FifoRing_proofs shows that two positions less than Capacity
apart, modulo Modulus, fall on different slots, because Capacity divides
Modulus. Each module has one lemma per invariant part and role, one step per
action.

*Their refinement of BoundedFifo.* The abstract fifo holds the bytes between the
counters. `BytesInv` adds to `FifoInv` what the two copies have done: between a
writer's copy and its commit the slots from `in` hold its payload, between a
reader's copy and its commit its buffer is what the slots from `out` still hold.
Both survive the other side's copy because the windows are disjoint. With that,
a commit of `in` appends the payload to the mapped sequence, a commit of `out`
takes its head, and every other step leaves it alone. Nothing here is by
induction over the bytes: `CopyIn` and `CopyOut` are functions on slots, and two
sequences are equal because their lengths and elements are.
In HyFifo the bytes are what the counter promised only if the load of `in` comes
before the loads of the bytes (`~LoadsReordered`; the run `fifo_reordered` shows
that the condition is needed), and in HyFifoLock the refinement ends, like the
invariant, when Destroy begins.

*The package list.* `WakeUpsReach` needs `TypeOK` and `WaitersWait` (who is in
`waiting` is in its wait): a put adds one node and one signal to come; a signal
turns into a woken user or finds nobody asleep; a woken user takes a node or
finds none, and then the count is zero. A user that comes by and takes a node
only lowers the count. `CountIsLength` needs `Phases`: when Destroy empties the
list, leaving the count, nobody is inside a call to trust it, which is what the
sleeps are for. `OneOwner` is inductive with `TypeOK` and `WaitersWait`; its
lemmas say what the head's removal and an append do to the set of listed nodes.

*The dynamic pool.* `PoolInv` is one invariant for all four theorems, because its
parts need each other. `QueueInv`: the items are the slots from `readPos` on, in
the order the tasks were added (`ContentsAre` states it without a division), so
that a task is queued exactly once. `TaskInv`: the tasks workers hold and those
that have run are the older ones, each once. `SlotInv`: which of a slot's
`handle` and `flag` go with which position of its worker; this is what lets
`DestroyJoin`, which skips slots without a handle, wait for everybody. `PhaseInv`:
where the manager and Destroy are, and what they have seen by then.
`CountInv`: `live` is the number of serving workers, one less while the manager
has started a thread and not recorded it; `LiveCounts` excepts that window
because `mutex_h` is held in it. `StartMayFail` may be TRUE for all but
`LiveCounts`, which says so.

*The services.* A step of MCServices is a step of the active component, so each
invariant is that of one component, and the others are stutters to it. In
`PoolOrder`, the tasks begun are 1 .. Len(begun) and those in the fifo follow
them; `ServerIsPool` shows that a step of the server program is a step of the
pool or leaves its variables alone, so that the pool's invariant holds inside
the server too. `ServerInv` knows where each client is (`ServerPlaces`), that the
three sets are disjoint and finite (`ServerCounts`), and which descriptors are
open (`ServerOpen`). `BakInv` has the ring of the older pool: until a position is
stale, the slot read next is Len(taken) modulo the size (`ModNext`, `ModApart`),
and a worker that goes leaves no task behind in a graceful end. `NetInv` follows
the wifi thread command by command (`NetInterface`, `NetDaemons`), with an udhcpc that is
on its way counted apart from those that run. `BevInv`: without haste, Destroy finds the
thread at an end of its own and no Write under way; and a Write that is in a freed
bufferevent met the free (`met`), because one that begins later would have been told.

*The timer.* `TimerInv` says where each timer is, and when it will ring. An entry
of a slot's list is some slots *ahead* of the server (`Ahead`: a whole turn if
the server has passed it), and sits out its turns; `RingsAt`, its age then, does
not change while the server walks: a visit takes a turn off and puts the entry a
turn ahead, a step to the next slot makes it older and nearer. Only `Add` and a
timer that repeats choose it anew, and `AddedOnTime` and `RefiledOnTime` show by
the remainder's arithmetic that what they choose is near what was asked for.
Entries taken out and appended around the server (`Removed`, `Filed`) leave it on the
same side of every other entry, except where a timer goes round to the tail of
the slot it came from. For Del, `Finds`: its timer is in a slot it has yet to look at,
or rang; `TimerLater` says there is such a slot.

*The cascade of wheels.* `WheelInv` says of each timer (`OnCourse`) that it is *aimed* at
its time: `expires` is that time in the clock's word, less than half a word away;
and that it is *placed*: in the list of the base its time names, less than a turn of
the base away, or on a wheel `n`, at the index its time names, and, if no tick
overtook Add, the clock has not passed the tick its time rounds down to on that wheel
(`Rounded`). That is the first tick that could bring the list down, and it does
(`TurnedHas`, `RunFrom`): at that tick the time is nearer than a turn of the wheel,
so that the timer goes to a lower wheel or to the base, and never late
(`ListForPlaces`). All this is said from the next tick the thread has yet to run
(`NextTick`), which moves in the middle of a tick, when `cur_ms` is raised; a timer that
was filed before the cascade is *coming* to that tick from the cascade on, and so is one
that is linked in the gap. When the list is detached, a timer in it that was placed by then is due
at this tick or has been overtaken (`NotBefore`, `InItsTick`); one that came in the gap
may also be a whole turn of the base ahead, and nothing in between, since the base's
lists are a turn apart (`ATurnEarly`). Spans are products of spans
(`SpansNest`), which is where the remainders of one wheel by another are taken.

*The containers* share nothing either. *The discarding fifo*: `DiscardInv` counts
without wrapping; the counters are the number of bytes written and pushed out or
read, modulo Modulus, and a slot holds the newest byte written to it. A reader's two
positions may be overtaken, before, between and after its loads, but each stays far
enough behind the write counter (`Held`), and each byte it copies is the one of its
slot, whose number never falls (`GotFresh`). *The hash table*: `KeyHolds` says of a
key that never raced that its bucket has one item with its hash, of the value last
added and the length first added, or none while a caller stands between the two sections of Add, and that there is only
one such caller; `TakenOut`, `PutInFront` and `Revalued` say what a step does to
a bucket, and the other keys do not see it. *The growing array*: `ArrayInv` relates
its three lengths. `write_pos = read_pos + cur_len` until a print is short of
space; and while nothing lapsed `read_pos` is zero, so that `len - cur_len`, which
the code takes for the space at the end, is that space. Every write, whichever
way it goes, is `ArrayStores`: a copy into the memory or into a longer one.
`ExtendedIs` has the arithmetic of growth, modulo 2^32. *Sound*: `AlsaInv` follows
the call, from the frames asked for to those given.

*The AT engine* is proved over the *stream*, the fifo and then what is in the air:
the line's deliveries do not change it, the modem appends to it, the engine takes
from its front. `AtBase`, for `FramesWhole`: in the stream a header is followed by
its data (`FramesIn`); once the engine has found a text, that text is the
front of the fifo (`AtFront`), whatever comes behind it; and in the midst of a frame
the buffer has the beginning of what was sent and the stream begins with the rest
(`AtParsing`). A header that lost its beginning, and the data behind one that was
cleaned away, are texts like others in the stream; what the engine gives is what is
behind a header it has found whole. `AckInv`, for `AckedOnceWritten`: until something is upset, every text of the
stream is whole, and an answer that is *live*, not among the data of a frame
(`Live`), is one the head of the list is owed, by how far it was written and
acknowledged (`Asked`, `Awaited`): none, the one that `del_cnt` still waits for, or the
acceptance and the prompt for its data. So nothing is live while the engine is about to
write, and what it writes is owed one answer more. Most of the work is in
`LiveGoes` and `LiveComes`, which say what taking a text, a header or
a piece of data does to the positions of the live ones.

*JSON trees.* `JsonInv` says what a field holds and what keeps it: what is linked is
there, and from one place only (`TreesWhole`); nothing is said of a node that is
gone, a field of an object nothing was said of leads nowhere, and any other leads to a node
as it was said to be, the integer view excepted while it lags (`FieldsAsSaid`). A
kid more changes no step that leads somewhere (`OneKidMore`), so names may
come twice. `Below` is the smallest set closed under kids: who has a kid in the tree
of a root is in that tree too (`BelowIsATree`), so destroying a tree takes no
node from another. Paths have two steps at most, as in the model: the fold along them is
evaluated for each length (`NoStep`, `OneStep`, `TwoSteps`); trees and names have no bound
but `MaxItems`.

*IPC.* `TokensAreItems` follows from `Types` and
`TokenInv`: C and K hold an item exactly while they work on it, and who has ended
by each step of Destroy. `FreedUnderTwo` adds `CrashInv`, who it was that crashed:
only two steps do (`ReplyFreed`, `ForwardFreed`), and after them nothing of the server
moves (`ServerLives`). `Types` is finer than `TypeOK`: a fifo of C has only
requests and one of K only answers, and what comes down to a client is one or
the other. `AnswersGoBack` needs `BackInv`. Its parts: `LinkInv`, held links have
different addresses and connections nobody accepted have none; `AskInv`, requests
name connections that were made; `MsgInv`, the address in each message *leads* to
the asker (`Leads`: while the asker's link is held, the address is its address)
wherever the message is, in the two streams of a connection, a fifo, or the hands of
M, C or K; `ListInv`, answers in a client's list, or in its H's hands, are that connection's, which needs that
a client without a connection has an empty list. `LeadsLater` shows that `Leads` outlives every step
that keeps requests and held links (`Steady`), so that an action only has to
account for the messages it makes. What one pass over `ack_list` may leave
(`Scanned`) is stated with strictly increasing index functions, which the provers
can reason about without induction.

`RunsAreRegistered` bounds a product of two cardinalities by a counter, and nothing
on the way adds up: copies of a request lie in the streams of many connections, some
are read, some are lost when a client dies, and registrations go on meanwhile.
`RunInv` therefore counts turns and not messages. A request (`Track`) is first in at
most one place, once, the stream it came up or the line of C (`Once`, `Waiting`),
and nothing has run for it (`Fresh`). When C copies it, each copy on a link
has a turn of its own, a number up to that of the registrations: its place in the
stream less an offset of that stream, which falls by one with each message read.
`Counted` says that there is a set X of pairs of a link that offers the function and
one of its turns, as many as runs so far, and that no copy still in a stream has a
turn in X. Running the function moves that copy's pair into X; a step that takes
messages away only moves the offsets (`From`, `Quiet`); new clients and registrations
only give more pairs (`TurnsGrow`). X lies in the product of the links
and the turns, which is the bound. The proof needs of `BackInv` that a message on the
way has the id its request was made with (`Genuine`), and that a client's connection
is its own (`OwnInv`).

**Model-checked only**, and why:

* Liveness under fairness and ENABLED are out of the provers' reach:
  `DestroyReleasesReaders`, `DestroyReleasesUsers`, `TasksRun`,
  `ServerDestroyEnds`, `ClientDestroyEnds`, `CallsReturn`, `DestroysEnd`.
* `SortsEveryItem` is about what recursive definitions compute for every array: an
  induction over data.

## 6. What the checks say about the code

Five runs refute what a comment or header claims; `PROJECT.json` quotes the lines.

* **Lost wake-up in HyFifoLock.** Write moves `in` and signals without the
  readers' mutex, so a signal that falls between a reader's test and its wait is
  lost; and one signal may go to a reader that wants more. A reader sleeps on
  the bytes it wants.
* **Destroy of HyFifoLock** leaves `full_mutex` locked when it woke a writer
  (`src/linux/fifo/hy_fifo_lock.c:74` unlocks `empty_mutex`).
* **HyFifo on weakly ordered processors** may deliver stale bytes: no barrier
  between the load of `in` and the loads of the bytes.
* **HyThreadPoolDynamic drops queued tasks** at Destroy: the flag is set before
  the comment's "wait until all tasks have run".
* **HyThreadPoolDynamic stops growing** once it has shrunk: handles of retired
  workers are cleared only in the round that retires, before they had time to
  leave.

What follows no run refutes; the properties name these cases as their exceptions,
so that the runs show that there are no others.

* **HyPackageList** counts a node that could not be created (line 163), so a
  HeadGet may take the entry of an empty list: `CountIsLength` is claimed and
  proved for lists whose nodes were all created, and the run makes no other.
* **HyThreadPoolDynamic** wakes as many workers as its minimum at Destroy
  (line 253) and joins all of them.
* **HyThreadPool**: the wake-ups HyFifoLock loses are this pool's too: AddTask may sleep
  though there is room, or workers though there are tasks, until another call or Destroy.
* **HyThreadPoolBak** may run a task twice and never another, also in a graceful end,
  which `include/linux/thread/hy_thread_pool_bak.h:47` says comes after all tasks have
  been run, once a worker stores the read position it computed before its wait
  (`stale`). A Destroy that is told that the pool is running, which the header
  allows, joins workers that nobody has told to leave.
* **IPC**: a caller that finds another call's answer in the list goes round with
  `ack_mutex` held, and the thread that should bring its own never gets the
  mutex; a client that never connected is joined for ever; Destroy of a client
  frees it under a caller; that of a server frees the answers' fifo and destroys its
  semaphore under M (`src/linux/ipc/ipc_process/ipc_process_server.c:359`, M writes to
  the one and posts to the other), and the list of links under C (line 364); an answer is matched by message id
  alone, so one that is late answers the next call; a client that comes back registers again, and the
  function runs twice.
* **HyTimer**: a timer may ring up to two turns early; two repeating timers of no
  delay in one slot keep the server there with the mutex; a Del may take
  another's timer, at the address of one that rang.
* **HyTimerMultiWheel**: a timer a tick overtakes while Add files it fires a turn
  of its wheel late; one that is linked after `cur_ms` was raised (line 198) and before
  the list is detached (line 199) may fire a turn of the base early.
* **HyPHYLed**: Destroy waits until somebody sets a led. **HyEventListener**: an
  Exit from another thread is not seen until an event comes, and a Create whose
  bind fails frees a listener that is NULL. **HyBuffereventClient**: Destroy of a
  connected client crashes or hangs; a Write that is under way when the server closes is in
  freed memory; the rest of a read over 1024 bytes waits for more to come. **HyNet**: the
  wifi thread outlives the context; killall may come before the udhcpc it is meant for,
  which stays; and with the fields no load function writes, what is started depends on
  what the allocation held.
* **HyFifoLockDiscard**: a reader that the writer overtakes gets newer bytes among
  its own, and reads behind the buffer when the writer discards between its two loads of
  the read counter (lines 128 and 129, in Peek 100 and 101). 
  **HyHash**: two Adds of one key may leave two items; a value is replaced without its
  `val_len`, which `include/linux/hy_hash.h:37` calls the length of the value, so that
  HyHashPeekGet copies as many bytes as the first value under the key had. **HyDynamicArray**
  may write outside its buffer at the limit of its growth once something was
  read, and counts characters a print cut off.
* **HyAtUtils** loses the first character of a string that the line delivers alone,
  although the comment at `src/linux/net/hy_at_utils.c:178` says that it waits for the
  rest: the test compares two characters. An answer with no command left reads the head of an empty list
  (lines 402, 546); an answer that comes after a resend acknowledges twice; a frame's
  header that is cut is cleaned away when it is shorter than 8 characters, and its data
  are parsed as answers; with 8 and no `:` yet, the copy at line 348 has a length that
  wraps (line 285 tests the 8 only).
* **HyJson**: HyJsonSetItemReal leaves the integer view as it was; and, outside the
  models, HyJsonCreateFromFile of a missing file closes an uninitialised
  descriptor. **HyAlsa**: a short read is overwritten by the next; a Create whose
  open failed drains a handle that is NULL.
* **hy_evconnlistener_demo**: line 257 tests `BEV_ERROR`, a constant that is not the
  event's, so a connection that was reset is never freed; the listener blocks in
  AddTask, and sees no signal, while every worker serves and the fifo is full.
  **hy_package_list_demo**: joins its get thread first; when the put thread has
  ended with every node on its way to it, that join waits for ever (the demo's
  sleeps make it unlikely); nodes on their way are never freed.

## 7. What is not modelled

* Getters and dumps (no state changes), log output, and failures of memory
  allocation, after which a Create returns NULL or calls Destroy on a half-built
  handle, except where a model says so (HyDynamicArray, HyEventListener, HyAlsa).
* HyThreadPoolDynamic: tasks that add tasks. `StartMayFail` models threads that do
  not start; no run sets it, because the code then leaves `live_num` at the
  minimum and `LiveCounts` is not claimed. HyQueue: Remove and ReadPeek, which
  nothing calls.
* IPC: the INFO message, which only feeds `state_change_cb`; two threads that write
  to one socket at a time; short reads and writes; a `listen` that fails, after
  which Destroy waits for a thread that has gone
  (`src/linux/ipc/ipc_socket/ipc_socket_server.c:56`); HyIpcProcessDataBroadcast,
  whose body is empty.
* libevent: a signal handler that runs in another thread and touches the loop's
  lists, which have no lock. `example/linux/libevent/hy_event_server_demo.c`, whose
  one thread does less than the server that is modelled.
* HyJson: parser and printer, which are cJSON's; booleans, which no function of the
  header writes; the second form of paths, which is not compiled. HyTimerMultiWheel's
  Del and HyAlsaPutData have no body.
* HyBit, md5, directories, curl, dlopen, the small functions of hy_utils and hy_math:
  they pass arguments to other code, or compute in three lines, and keep no state.
  (HyBitGet returns the mask where `include/hy_bit.h` promises a bit.)
* The other examples: they call one component each, as the models' callers do.

## 8. Plan

The models are done, and so are the proofs of every safety property and refinement
the runs check but that of the sorts, whose proof would be an induction over arrays.

More to model: tasks that add tasks, the INFO message, and a Create that gives up
half-way.
