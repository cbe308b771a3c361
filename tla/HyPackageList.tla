--------------------------- MODULE HyPackageList ---------------------------
(***************************************************************************)
(* The list of circulating buffers of src/linux/hy_package_list.c: users   *)
(* take a node from its head, waiting while there is none, keep it for a   *)
(* while and put it, or another one they keep, back at its tail.  Users    *)
(* hand nodes on among themselves (example/linux/hy_package_list_demo.c    *)
(* does), so a node outside the list belongs to all of them.               *)
(*                                                                         *)
(* num is the field save_c.num, kept beside the list.  All of it is under  *)
(* one mutex, so a critical section, from the lock or a wake-up to the     *)
(* unlock or the next wait, is one step.  The signal of TailPut and the    *)
(* entry tests of is_exit are outside the mutex.                           *)
(***************************************************************************)
EXTENDS Naturals, SequencesExt

CONSTANTS
    Users,          \* threads that call HeadGet and TailPut
    Nodes,          \* the nodes node_create_cb is asked for
    NoNode,         \* "no node is being put"
    CreateMayFail,  \* node_create_cb may return NULL
    SleepSettles    \* each usleep of Destroy outlasts every call's progress

ASSUME NodesAssumption ==
    /\ IsFiniteSet(Users) /\ IsFiniteSet(Nodes)
    /\ NoNode \notin Nodes
    /\ CreateMayFail \in BOOLEAN /\ SleepSettles \in BOOLEAN

VARIABLES
    list, num,      \* the list and its count
    waiting,        \* users waiting on cond_h
    isExit, freed,  \* Destroy has begun; the handle is freed
    used,           \* nodes users keep
    destroyed,      \* nodes given to node_destroy_cb
    pc, arg,        \* where each user is; the node it puts
    dpc             \* where Destroy is

calls == <<pc, arg>>
vars  == <<list, num, waiting, isExit, freed, used, destroyed, calls, dpc>>

At(u, label)   == ~freed /\ pc[u] = label
Goto(u, label) == pc' = [pc EXCEPT ![u] = label]

-----------------------------------------------------------------------------
(* HyPackageListCreate counts the nodes it asked for, not those it got.    *)
Init ==
    /\ \E created \in IF CreateMayFail THEN SUBSET Nodes ELSE {Nodes} :
          list \in SetToSeqs(created)
    /\ num = Cardinality(Nodes)
    /\ waiting = {}
    /\ isExit = FALSE /\ freed = FALSE
    /\ used = {} /\ destroyed = {}
    /\ pc = [u \in Users |-> "idle"]
    /\ arg = [u \in Users |-> NoNode]
    /\ dpc = "idle"

-----------------------------------------------------------------------------
(* HyPackageListHeadGet.                                                   *)

GetCall(u) ==
    /\ At(u, "idle") /\ ~isExit
    /\ Goto(u, "get")
    /\ UNCHANGED <<list, num, waiting, isExit, freed, used, destroyed, arg, dpc>>

(* Mutation: the node is handed out and stays in the list.                 *)
TakeHead_NoDel(u) ==
    /\ num > 0
    /\ num' = num - 1
    /\ IF list = <<>> THEN UNCHANGED <<list, used>>
                      ELSE list' = list /\ used' = used \cup {Head(list)}
    /\ Goto(u, IF list = <<>> THEN "lost" ELSE "idle")
    /\ UNCHANGED waiting

(* The first entry of an empty list is no node.                            *)
TakeHead(u) ==
    /\ num > 0
    /\ num' = num - 1
    /\ IF list = <<>> THEN UNCHANGED <<list, used>>
                      ELSE list' = Tail(list) /\ used' = used \cup {Head(list)}
    /\ Goto(u, IF list = <<>> THEN "lost" ELSE "idle")
    /\ UNCHANGED waiting

Wait(u) ==
    /\ num = 0
    /\ waiting' = waiting \cup {u}
    /\ Goto(u, "wait")
    /\ UNCHANGED <<list, num, used>>

GetEnter(u) ==
    /\ At(u, "get")
    /\ TakeHead(u) \/ Wait(u)
    /\ UNCHANGED <<isExit, freed, destroyed, arg, dpc>>

(* Mutation: one wake-up, one node: the count is not looked at again.      *)
GetWoken_NoRetest(u) ==
    /\ At(u, "wait") /\ u \notin waiting
    /\ \/ isExit /\ Goto(u, "idle") /\ UNCHANGED <<list, num, waiting, used>>
       \/ ~isExit /\ TakeHead(u)
       \/ /\ ~isExit /\ num = 0
          /\ num' = num - 1
          /\ Goto(u, "lost")
          /\ UNCHANGED <<list, waiting, used>>
    /\ UNCHANGED <<isExit, freed, destroyed, arg, dpc>>

(* Back with the mutex: Destroy may have woken everybody.                  *)
GetWoken(u) ==
    /\ At(u, "wait") /\ u \notin waiting
    /\ \/ isExit /\ Goto(u, "idle") /\ UNCHANGED <<list, num, waiting, used>>
       \/ ~isExit /\ (TakeHead(u) \/ Wait(u))
    /\ UNCHANGED <<isExit, freed, destroyed, arg, dpc>>

-----------------------------------------------------------------------------
(* HyPackageListTailPut.                                                   *)

PutCall(u) ==
    /\ At(u, "idle") /\ ~isExit
    /\ \E n \in used :
          /\ used' = used \ {n}
          /\ arg' = [arg EXCEPT ![u] = n]
    /\ Goto(u, "put")
    /\ UNCHANGED <<list, num, waiting, isExit, freed, destroyed, dpc>>

(* Mutation: a signal is thought necessary for the first node only.        *)
PutEnter_SignalFirst(u) ==
    /\ At(u, "put")
    /\ list' = Append(list, arg[u])
    /\ num' = num + 1
    /\ arg' = [arg EXCEPT ![u] = NoNode]
    /\ Goto(u, IF num = 0 THEN "signal" ELSE "idle")
    /\ UNCHANGED <<waiting, isExit, freed, used, destroyed, dpc>>

PutEnter(u) ==
    /\ At(u, "put")
    /\ list' = Append(list, arg[u])
    /\ num' = num + 1
    /\ arg' = [arg EXCEPT ![u] = NoNode]
    /\ Goto(u, "signal")
    /\ UNCHANGED <<waiting, isExit, freed, used, destroyed, dpc>>

PutSignal(u) ==
    /\ At(u, "signal")
    /\ \/ waiting = {} /\ waiting' = {}
       \/ \E v \in waiting : waiting' = waiting \ {v}
    /\ Goto(u, "idle")
    /\ UNCHANGED <<list, num, isExit, freed, used, destroyed, arg, dpc>>

SpuriousWake(u) ==
    /\ ~freed
    /\ u \in waiting
    /\ waiting' = waiting \ {u}
    /\ UNCHANGED <<list, num, isExit, freed, used, destroyed, calls, dpc>>

-----------------------------------------------------------------------------
(* HyPackageListDestroy.                                                   *)

(* A millisecond has passed.                                               *)
SleepOver ==
    SleepSettles => \A u \in Users : pc[u] \in {"idle", "lost"} \/ u \in waiting

DestroyBegin ==
    /\ dpc = "idle"
    /\ isExit' = TRUE
    /\ dpc' = "sleep1"
    /\ UNCHANGED <<list, num, waiting, freed, used, destroyed, calls>>

(* Mutation: one waiter is woken.                                          *)
DestroyBroadcast_One ==
    /\ dpc = "sleep1" /\ SleepOver
    /\ \/ waiting = {} /\ waiting' = {}
       \/ \E v \in waiting : waiting' = waiting \ {v}
    /\ dpc' = "sleep2"
    /\ UNCHANGED <<list, num, isExit, freed, used, destroyed, calls>>

DestroyBroadcast ==
    /\ dpc = "sleep1" /\ SleepOver
    /\ waiting' = {}
    /\ dpc' = "sleep2"
    /\ UNCHANGED <<list, num, isExit, freed, used, destroyed, calls>>

(* Under the mutex; num keeps its value.                                   *)
DestroyNodes ==
    /\ dpc = "sleep2" /\ SleepOver
    /\ destroyed' = destroyed \cup ToSet(list)
    /\ list' = <<>>
    /\ dpc' = "free"
    /\ UNCHANGED <<num, waiting, isExit, freed, used, calls>>

DestroyFree ==
    /\ dpc = "free"
    /\ freed' = TRUE
    /\ dpc' = "gone"
    /\ UNCHANGED <<list, num, waiting, isExit, used, destroyed, calls>>

-----------------------------------------------------------------------------
UserStep(u) == GetEnter(u) \/ GetWoken(u) \/ PutEnter(u) \/ PutSignal(u)
DestroyStep == DestroyBroadcast \/ DestroyNodes \/ DestroyFree

Next ==
    \/ \E u \in Users : GetCall(u) \/ PutCall(u) \/ UserStep(u) \/ SpuriousWake(u)
    \/ DestroyBegin \/ DestroyStep

(* Who can run does run; nobody has to call.                               *)
Fairness == (\A u \in Users : WF_vars(UserStep(u))) /\ WF_vars(DestroyStep)

Spec == Init /\ [][Next]_vars /\ Fairness

-----------------------------------------------------------------------------
(* Every variable keeps its type.                                          *)
TypeOK ==
    /\ list \in Seq(Nodes) /\ num \in Nat
    /\ waiting \subseteq Users
    /\ isExit \in BOOLEAN /\ freed \in BOOLEAN
    /\ used \subseteq Nodes /\ destroyed \subseteq Nodes
    /\ pc \in [Users -> {"idle", "get", "wait", "put", "signal", "lost"}]
    /\ arg \in [Users -> Nodes \cup {NoNode}]
    /\ \A u \in Users : pc[u] = "put" <=> arg[u] # NoNode
    /\ dpc \in {"idle", "sleep1", "sleep2", "free", "gone"}

Listed  == ToSet(list)
Putting == {arg[u] : u \in Users} \ {NoNode}

(* A buffer is in one place: once in the list, kept by a user, on its way  *)
(* back by one user, or destroyed.  Two users never get the same one,      *)
(* whoever wakes when; Destroy takes none from under its user; and none is *)
(* lost.                                                                   *)
OneOwner ==
    /\ \A i, j \in DOMAIN list : list[i] = list[j] => i = j
    /\ \A u, v \in Users : arg[u] = arg[v] /\ arg[u] # NoNode => u = v
    /\ Listed \cap (Putting \cup used \cup destroyed) = {}
    /\ Putting \cap (used \cup destroyed) = {}
    /\ used \cap destroyed = {}
    /\ ~CreateMayFail => Listed \cup Putting \cup used \cup destroyed = Nodes

(* Nobody sleeps while nodes are there, although woken users find the list *)
(* emptied by users who came by, and one signal wakes one: for every node  *)
(* a signal is still to come, or a woken user still to look.               *)
OnTheirWay == {u \in Users : pc[u] = "signal" \/ (pc[u] = "wait" /\ u \notin waiting)}
WakeUpsReach == ~isExit /\ waiting # {} => num <= Cardinality(OnTheirWay)

(* The count is the list's length until Destroy empties the list, and no   *)
(* user was given a node that is none.                                     *)
CountIsLength ==
    /\ ~isExit => num = Len(list)
    /\ \A u \in Users : pc[u] # "lost"

(* Destroy lets every waiting user return before it frees what they wait   *)
(* on, and it gets there, given that its sleeps are long enough.           *)
DestroyReleasesUsers == isExit ~> freed /\ \A u \in Users : pc[u] = "idle"
=============================================================================
