--------------------------- MODULE PackageListDemo ---------------------------
(***************************************************************************)
(* A program of the library: example/linux/hy_package_list_demo.c.  One    *)
(* thread takes nodes from a HyPackageList and hands them on through a     *)
(* list of the program's own, another takes them from there and puts them  *)
(* back; a signal ends both, and the main thread joins them one after the  *)
(* other before it destroys the HyPackageList.                             *)
(*                                                                         *)
(* To HyPackageList the two are its users, and a node between them is one  *)
(* they keep.  mutex_h is held for one step at most.                       *)
(***************************************************************************)
EXTENDS HyPackageList

CONSTANTS
    Getter, Putter  \* get_h, put_h: the users

VARIABLES
    handed,         \* context->list
    getAt, putAt,   \* where the two threads are
    next,           \* n of the put thread's traversal; NoNode is the list's head
    demoAsked,      \* context->is_exit
    demoAt          \* the main thread: "run", "joinGet", "joinPut", "destroy", "gone"

demoVars == <<handed, getAt, putAt, next, demoAsked, demoAt>>

PackagesInit ==
    /\ Init
    /\ handed = <<>> /\ getAt = "loop" /\ putAt = "loop" /\ next = NoNode
    /\ demoAsked = FALSE /\ demoAt = "run"

-----------------------------------------------------------------------------
(* _get_loop_cb.                                                           *)
InHand == used \ ToSet(handed)

GetLoop ==
    /\ getAt = "loop"
    /\ IF demoAsked THEN getAt' = "gone" /\ UNCHANGED vars
       ELSE getAt' = "get" /\ GetCall(Getter)
    /\ UNCHANGED <<handed, putAt, next, demoAsked, demoAt>>

GetNode ==
    /\ getAt = "get" /\ (GetEnter(Getter) \/ GetWoken(Getter))
    /\ getAt' = IF pc'[Getter] = "wait" THEN "get" ELSE "hand"
    /\ UNCHANGED <<handed, putAt, next, demoAsked, demoAt>>

GetHands ==
    /\ getAt = "hand" /\ getAt' = "loop"
    /\ \E n \in InHand : handed' = Append(handed, n)
    /\ UNCHANGED <<vars, putAt, next, demoAsked, demoAt>>

-----------------------------------------------------------------------------
(* _put_loop_cb.  The node after the one it takes is looked up before it   *)
(* gives the mutex back: nodes handed on meanwhile are met in this round   *)
(* only while it has one to go on with.                                    *)
PutLoop ==
    /\ putAt = "loop" /\ putAt' = IF demoAsked THEN "gone" ELSE "first"
    /\ UNCHANGED <<vars, handed, getAt, next, demoAsked, demoAt>>

PutPicks(pos) ==
    IF pos = NoNode
    THEN putAt' = "loop" /\ UNCHANGED <<vars, handed, next>>
    ELSE LET i == CHOOSE i \in DOMAIN handed : handed[i] = pos
         IN  /\ putAt' = "put" /\ PutCall(Putter) /\ arg'[Putter] = pos
             /\ next' = IF i = Len(handed) THEN NoNode ELSE handed[i + 1]
             /\ handed' = RemoveAt(handed, i)

PutFirst ==
    /\ putAt = "first" /\ PutPicks(IF handed = <<>> THEN NoNode ELSE Head(handed))
    /\ UNCHANGED <<getAt, demoAsked, demoAt>>

PutNext ==
    /\ putAt = "next" /\ PutPicks(next)
    /\ UNCHANGED <<getAt, demoAsked, demoAt>>

PutNode ==
    /\ putAt = "put" /\ (PutEnter(Putter) \/ PutSignal(Putter))
    /\ putAt' = IF pc'[Putter] = "idle" THEN "next" ELSE "put"
    /\ UNCHANGED <<handed, getAt, next, demoAsked, demoAt>>

-----------------------------------------------------------------------------
(* _signal_user_cb and _signal_error_cb.                                   *)
Signal == ~demoAsked /\ demoAsked' = TRUE /\ UNCHANGED <<vars, handed, getAt, putAt, next, demoAt>>

(* main and _handle_module_destroy.  The nodes still handed on stay        *)
(* allocated.                                                              *)
MainLeaves  == demoAt = "run" /\ demoAsked /\ demoAt' = "joinGet" /\ UNCHANGED vars
MainJoins   == \/ demoAt = "joinGet" /\ getAt = "gone" /\ demoAt' = "joinPut" /\ UNCHANGED vars
               \/ demoAt = "joinPut" /\ putAt = "gone" /\ demoAt' = "destroy" /\ UNCHANGED vars
MainDestroy == demoAt = "destroy" /\ (DestroyBegin \/ DestroyStep)
               /\ demoAt' = IF freed' THEN "gone" ELSE "destroy"

GetThread == GetLoop \/ GetNode \/ GetHands
PutThread == PutLoop \/ PutFirst \/ PutNext \/ PutNode
MainThread == (MainLeaves \/ MainJoins \/ MainDestroy)
              /\ UNCHANGED <<handed, getAt, putAt, next, demoAsked>>

PackagesNext ==
    \/ GetThread \/ PutThread \/ MainThread \/ Signal
    \/ SpuriousWake(Getter) /\ UNCHANGED demoVars

-----------------------------------------------------------------------------
(* The put thread ended while every node was on its way to it.             *)
Stuck == putAt = "gone" /\ pc[Getter] = "wait" /\ ToSet(handed) = Nodes

(* A signal ends the program, with every node destroyed but those that     *)
(* were on their way to the put thread; unless these are all there are:    *)
(* then the get thread waits for ever for one, and main for it.            *)
SignalEndsDemo ==
    []<>(\/ ~demoAsked \/ Stuck
         \/ demoAt = "gone" /\ destroyed \cup ToSet(handed) = Nodes)
=============================================================================
