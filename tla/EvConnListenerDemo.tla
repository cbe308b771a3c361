------------------------- MODULE EvConnListenerDemo -------------------------
(***************************************************************************)
(* A program of the library: example/linux/libevent/                       *)
(* hy_evconnlistener_demo.c, a server that composes HyThreadPool,          *)
(* HyPackageList and libevent.  The main thread listens; for each client   *)
(* it takes a node from the list and adds a task to the pool; the worker   *)
(* runs an event loop of its own for as long as the client stays, and puts *)
(* the node back.                                                          *)
(*                                                                         *)
(* Clients are numbered as their tasks are, in the order they are          *)
(* accepted, and all come from one of the addresses that are counted.  The *)
(* list is what HyPackageList implements: a number of nodes, and a         *)
(* HeadGet that waits while there is none.                                 *)
(***************************************************************************)
EXTENDS HyThreadPool, FiniteSets

CONSTANT ListNodes      \* nodes of client_plist_h

VARIABLES
    mainAt,         \* "loop", in _listener_cb: "get", "add"; "end", "gone"
    serves,         \* the client each worker has, or 0
    leaving,        \* workers whose client has left and whose node is not back
    open,           \* descriptors that are open
    cut,            \* history: clients whose connection ended by an error
    nodes,          \* how many nodes client_plist_h has
    client_cnt,     \* client_cnt of the address
    asked           \* is_exit: a signal came

serverVars == <<mainAt, serves, leaving, open, cut, nodes, client_cnt, asked>>

ServerInit ==
    /\ mainAt = "loop" /\ serves = [w \in PoolWorkers |-> 0] /\ leaving = {}
    /\ open = {} /\ cut = {} /\ nodes = ListNodes /\ client_cnt = 0 /\ asked = FALSE

-----------------------------------------------------------------------------
(* The main thread: _listener_cb for a client that connects.               *)
ListenerCb ==
    /\ mainAt = "loop" /\ added < PoolTasks /\ mainAt' = "get"
    /\ open' = open \cup {added + 1}
    /\ UNCHANGED <<poolVars, serves, leaving, cut, nodes, client_cnt, asked>>

NodeGet ==
    /\ mainAt = "get" /\ nodes > 0 /\ mainAt' = "add"
    /\ nodes' = nodes - 1 /\ client_cnt' = client_cnt + 1
    /\ UNCHANGED <<poolVars, serves, leaving, open, cut, asked>>

(* HyThreadPoolAddTask, in which the thread stays while the fifo is full:  *)
(* until then it takes no other client and sees no signal.                 *)
TaskAdd ==
    /\ mainAt = "add" /\ (AddTask \/ AddGoesOn)
    /\ mainAt' = IF adder' = "idle" THEN "loop" ELSE "add"
    /\ UNCHANGED <<serves, leaving, open, cut, nodes, client_cnt, asked>>

TaskAddWaits == mainAt = "add" /\ AddWaits /\ UNCHANGED serverVars

(* A signal: event_base_loopexit.  The timer of a second wakes the loop,   *)
(* whichever thread the signal came to.                                    *)
SignalUser ==
    /\ ~asked /\ asked' = TRUE
    /\ UNCHANGED <<poolVars, mainAt, serves, leaving, open, cut, nodes, client_cnt>>

LoopEnds ==
    /\ mainAt = "loop" /\ asked /\ mainAt' = "end"
    /\ UNCHANGED <<poolVars, serves, leaving, open, cut, nodes, client_cnt, asked>>

(* _handle_module_destroy: the pool first, then the list.                  *)
PoolEnds ==
    /\ mainAt = "end" /\ (PoolExit \/ PoolDestroy)
    /\ UNCHANGED serverVars

ListEnds ==
    /\ mainAt = "end" /\ poolEnd = "gone" /\ mainAt' = "gone"
    /\ UNCHANGED <<poolVars, serves, leaving, open, cut, nodes, client_cnt, asked>>

-----------------------------------------------------------------------------
(* A worker.  _task_client_read_cb begins with a bufferevent.              *)
Serve(w) ==
    /\ WorkerRead(w) /\ serves' = [serves EXCEPT ![w] = Head(taskFifo)]
    /\ UNCHANGED <<mainAt, leaving, open, cut, nodes, client_cnt, asked>>

Leaves(w) ==
    /\ serves[w] # 0 /\ w \notin leaving /\ leaving' = leaving \cup {w}
    /\ client_cnt' = client_cnt - 1
    /\ UNCHANGED <<poolVars, mainAt, serves, nodes, asked>>

(* _client_event_cb.  What it reads until then is thrown away.             *)
ClientEof(w) == Leaves(w) /\ open' = open \ {serves[w]} /\ UNCHANGED cut

(* The connection is reset.  BEV_ERROR is not BEV_EVENT_ERROR but a bit of *)
(* another meaning: the bufferevent is not freed.  It no longer reads, so  *)
(* that the loop returns all the same.                                     *)
ClientReset(w) == Leaves(w) /\ cut' = cut \cup {serves[w]} /\ UNCHANGED open

(* Mutation: the node stays with the worker for the next client.           *)
NodePut_Kept(w) ==
    /\ w \in leaving /\ leaving' = leaving \ {w} /\ serves' = [serves EXCEPT ![w] = 0]
    /\ UNCHANGED <<poolVars, mainAt, open, cut, nodes, client_cnt, asked>>

NodePut(w) ==
    /\ w \in leaving /\ leaving' = leaving \ {w} /\ serves' = [serves EXCEPT ![w] = 0]
    /\ nodes' = nodes + 1
    /\ UNCHANGED <<poolVars, mainAt, open, cut, client_cnt, asked>>

(* event_base_dispatch returns: the base has no event left.                *)
TaskEnds(w) == serves[w] = 0 /\ WorkerTask(w) /\ UNCHANGED serverVars

WorkerGoes(w) ==
    /\ WorkerStart(w) \/ WorkerLoop(w) \/ WorkerWaits(w) \/ WorkerTold(w)
    /\ UNCHANGED serverVars

SpuriousWake == (\E c \in PoolWorkers \cup {Adder} : Spurious(c)) /\ UNCHANGED serverVars

ServerMain == NodeGet \/ TaskAdd \/ TaskAddWaits \/ LoopEnds \/ PoolEnds \/ ListEnds
ServerWorker(w) == Serve(w) \/ NodePut(w) \/ TaskEnds(w) \/ WorkerGoes(w)
ServerNext ==
    \/ ListenerCb \/ ServerMain \/ SignalUser \/ SpuriousWake
    \/ \E w \in PoolWorkers : ServerWorker(w) \/ ClientEof(w) \/ ClientReset(w)

-----------------------------------------------------------------------------
InHand  == IF mainAt = "add" THEN {added + 1} ELSE {}
Waiting == {n \in 1 .. added : \A i \in DOMAIN begun : begun[i] # n}
Served  == {serves[w] : w \in PoolWorkers \ leaving} \ {0}
Clients == InHand \cup Waiting \cup Served

(* Whatever list, pool and counter do on their own, together they account  *)
(* for every client: a node, a descriptor and one in the count for each    *)
(* client that is in the listener's hands, waits in the pool (or was       *)
(* dropped with it) or is served, and no more than that; but for the       *)
(* descriptors of clients that were cut off, which nobody ever closes.     *)
ClientsAccountedFor ==
    /\ nodes + Cardinality(Clients) + Cardinality(leaving) = ListNodes
    /\ client_cnt = Cardinality(Clients)
    /\ open \ cut = Clients \cup (IF mainAt = "get" THEN {added + 1} ELSE {})

(* A signal ends the program, unless a client stays with its worker: then  *)
(* the join waits for it, or even the listener, for room in the pool; or   *)
(* no worker ever came up and the pool has filled; or a signal inside the  *)
(* pool's fifo was lost, and the listener sleeps though there is room, or  *)
(* the workers though there are tasks.                                     *)
SignalEndsServer ==
    []<>(\/ ~asked \/ mainAt = "gone" \/ \E w \in PoolWorkers : serves[w] # 0
         \/ mainAt = "add" /\ \A w \in PoolWorkers : Is(w, "gone")
         \/ mainAt = "add" /\ missed /\ Adder \in asleep)
=============================================================================
