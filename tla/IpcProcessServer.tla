-------------------------- MODULE IpcProcessServer --------------------------
(***************************************************************************)
(* The server of the IPC process library: ipc_process_server.c and         *)
(* ipc_link_manager.c.  It runs no request itself: it forwards what one    *)
(* client asks to the other clients and brings the answer back.            *)
(*                                                                         *)
(*   A  accepts connections and puts their links on the list               *)
(*   M  reads the readable links and frees those that are closed           *)
(*   C  forwards requests from its fifo, K answers from the other fifo     *)
(*   D  the application, which destroys the server                         *)
(*                                                                         *)
(* Every pass over the list of links is under list_mutex and is one        *)
(* action; M's pass is one action for each message, since select may have  *)
(* found any part of the links readable, and two for an answer, between    *)
(* which Destroy may free the fifo it is for.  The greeting M sends to a   *)
(* new link changes nothing in its receiver and is left out.               *)
(***************************************************************************)
EXTENDS IpcSocket

CONSTANT FifoCap        \* messages a fifo holds

VARIABLES
    pc,             \* where each of the five threads is
    cbIds,          \* cb_id_list: the ids of each registration, in order
    fifo, sem,      \* both fifos and their semaphores
    work,           \* the item C and K took: none or one
    replying,       \* the answer M is about to write to K's fifo: none or one
    exit,           \* exit_flag
    crashed         \* the process used freed memory and died

srvVars == <<pc, cbIds, fifo, sem, work, replying, exit, crashed>>
queues  == <<fifo, sem, work>>

Queues == {"C", "K"}

SrvInit ==
    /\ pc = [A |-> "listen", M |-> "run", C |-> "wait", K |-> "wait", D |-> "idle"]
    /\ cbIds = <<>>
    /\ fifo = [q \in Queues |-> <<>>] /\ sem = [q \in Queues |-> 0]
    /\ work = [q \in Queues |-> <<>>]
    /\ replying = <<>> /\ exit = FALSE /\ crashed = FALSE

At(t, label)   == ~crashed /\ pc[t] = label
Goto(t, label) == pc' = [pc EXCEPT ![t] = label]
ListFree       == replying = <<>>
AnswersFreed   == pc["D"] \in {"joinM", "joinC", "gone"}
ManagerFreed   == pc["D"] \in {"joinC", "gone"}

-----------------------------------------------------------------------------
(* A: _ipc_link_manager_accept_thread_cb and the accept loop it runs.      *)

Listen ==
    /\ At("A", "listen")
    /\ listening' = TRUE
    /\ Goto("A", "accept")
    /\ UNCHANGED <<owner, backlog, link, clientEnd, serverEnd, streams, cbIds, queues,
                   replying, exit, crashed>>

(* The pipe of Destroy is looked at before the listening socket.           *)
Accept ==
    /\ At("A", "accept") /\ pc["D"] = "idle" /\ ListFree
    /\ AcceptOldest
    /\ UNCHANGED <<owner, listening, clientEnd, serverEnd, streams, srvVars>>

AcceptStop ==
    /\ At("A", "accept") /\ pc["D"] # "idle"
    /\ Goto("A", "gone")
    /\ UNCHANGED <<netVars, cbIds, queues, replying, exit, crashed>>

-----------------------------------------------------------------------------
(* M: _server_handle_ipc_link_msg_thread_cb.                               *)

(* HyFifoWrite takes all of an item or nothing; a full fifo loses it.      *)
(* Mutation: the post is outside of the branch.                            *)
Enqueue_AlwaysPost(q, item) ==
    /\ fifo' = IF Len(fifo[q]) < FifoCap THEN [fifo EXCEPT ![q] = Append(@, item)] ELSE fifo
    /\ sem' = [sem EXCEPT ![q] = @ + 1]

Enqueue(q, item) ==
    IF Len(fifo[q]) < FifoCap
    THEN /\ fifo' = [fifo EXCEPT ![q] = Append(@, item)]
         /\ sem' = [sem EXCEPT ![q] = @ + 1]
    ELSE UNCHANGED <<fifo, sem>>

Request(k) ==
    /\ Head(up[k]).type = "cb"
    /\ Enqueue("C", [from |-> link[k], msg |-> Head(up[k])])
    /\ UNCHANGED cbIds

Registration(k) ==
    /\ Head(up[k]).type = "cbid"
    /\ cbIds' = Append(cbIds, Head(up[k]).ids)
    /\ UNCHANGED <<fifo, sem>>

ReadLink(k) ==
    /\ At("M", "run") /\ ListFree /\ k \in Listed /\ up[k] # <<>>
    /\ up' = [up EXCEPT ![k] = Tail(@)]
    /\ Request(k) \/ Registration(k)
    /\ UNCHANGED <<conns, down, pc, work, replying, exit, crashed>>

(* An answer: M takes the handle of the fifo and writes to it.  When       *)
(* Destroy has freed it before, the handle is NULL, and M goes on to post  *)
(* to a semaphore that is destroyed; when in between, M may notice that    *)
(* the fifo is at its end, or use what is freed and die.                   *)
Reply(k) ==
    /\ At("M", "run") /\ ListFree /\ k \in Listed
    /\ up[k] # <<>> /\ Head(up[k]).type = "ack"
    /\ up' = [up EXCEPT ![k] = Tail(@)]
    /\ replying' = IF AnswersFreed THEN <<>> ELSE <<[from |-> link[k], msg |-> Head(up[k])]>>
    /\ UNCHANGED <<conns, down, pc, cbIds, queues, exit, crashed>>

ReplyWrite ==
    /\ At("M", "run") /\ ~ListFree /\ ~AnswersFreed
    /\ Enqueue("K", Head(replying))
    /\ replying' = <<>>
    /\ UNCHANGED <<netVars, pc, cbIds, work, exit, crashed>>

ReplyFreed ==
    /\ At("M", "run") /\ ~ListFree /\ AnswersFreed
    /\ \/ replying' = <<>> /\ UNCHANGED <<serverEnd, up, crashed>>
       \/ crashed' = TRUE /\ CloseServer(serverEnd) /\ UNCHANGED replying
    /\ UNCHANGED <<owner, backlog, listening, link, clientEnd, down, pc, cbIds, queues, exit>>

(* A failed read takes the link off the list and frees it.  Its            *)
(* registration stays.                                                     *)
DropLink(k) ==
    /\ At("M", "run") /\ ListFree /\ k \in Listed /\ up[k] = <<>> /\ k \notin clientEnd
    /\ CloseServer({k})
    /\ UNCHANGED <<owner, backlog, listening, link, clientEnd, down, srvVars>>

(* select returns at least every second.                                   *)
ReadStop ==
    /\ At("M", "run") /\ ListFree /\ exit
    /\ Goto("M", "gone")
    /\ UNCHANGED <<netVars, cbIds, queues, replying, exit, crashed>>

-----------------------------------------------------------------------------
(* C: _handle_cb_thread_cb, and K: _handle_ack_thread_cb.                  *)

Take(q) ==
    /\ At(q, "wait") /\ sem[q] > 0
    /\ sem' = [sem EXCEPT ![q] = @ - 1]
    /\ IF exit
       THEN Goto(q, "gone") /\ UNCHANGED <<fifo, work>>
       ELSE /\ work' = [work EXCEPT ![q] = IF fifo[q] = <<>> THEN @ ELSE <<Head(fifo[q])>>]
            /\ fifo' = [fifo EXCEPT ![q] = IF @ = <<>> THEN @ ELSE Tail(@)]
            /\ Goto(q, "work")
    /\ UNCHANGED <<netVars, cbIds, replying, exit, crashed>>

Registrations(id) == {i \in DOMAIN cbIds : id \in cbIds[i]}

(* To every link but the asker's, once for each registration of the id,    *)
(* with the asker's link in the message.                                   *)
Forward ==
    /\ At("C", "work") /\ ~ManagerFreed /\ ListFree
    /\ LET item == Head(work["C"])
       IN  SendDown({k \in Listed : link[k] # item.from},
                    [i \in 1 .. Cardinality(Registrations(item.msg.id)) |->
                        [item.msg EXCEPT !.link = item.from]])
    /\ work' = [work EXCEPT !["C"] = <<>>]
    /\ Goto("C", IF exit THEN "gone" ELSE "wait")
    /\ UNCHANGED <<conns, up, cbIds, fifo, sem, replying, exit, crashed>>

(* Destroy frees the manager before it joins C.                            *)
ForwardFreed ==
    /\ At("C", "work") /\ ManagerFreed
    /\ crashed' = TRUE
    /\ UNCHANGED <<netVars, pc, cbIds, queues, replying, exit>>

(* Mutation: the answer goes to every link.                                *)
Answered_All(item) == Listed

Answered(item) == {k \in Listed : link[k] = item.msg.link}

Answer ==
    /\ At("K", "work") /\ ListFree
    /\ LET item == Head(work["K"]) IN SendDown(Answered(item), <<item.msg>>)
    /\ work' = [work EXCEPT !["K"] = <<>>]
    /\ Goto("K", IF exit THEN "gone" ELSE "wait")
    /\ UNCHANGED <<conns, up, cbIds, fifo, sem, replying, exit, crashed>>

-----------------------------------------------------------------------------
(* D: ipc_process_server_destroy.                                          *)

DestroyBegin ==
    /\ At("D", "idle")
    /\ Goto("D", "joinA")
    /\ UNCHANGED <<netVars, cbIds, queues, replying, exit, crashed>>

(* The accept loop has ended: the server's own link is closed and freed,   *)
(* connections nobody accepted are reset, and the threads are told.        *)
StopListening ==
    /\ At("D", "joinA") /\ pc["A"] = "gone"
    /\ listening' = FALSE /\ backlog' = <<>>
    /\ CloseServer(Range(backlog))
    /\ exit' = TRUE
    /\ sem' = [sem EXCEPT !["K"] = @ + 1]
    /\ Goto("D", "joinK")
    /\ UNCHANGED <<owner, link, clientEnd, down, cbIds, fifo, work, replying, crashed>>

(* The semaphore of the answers and their fifo, before M is joined.        *)
FreeAnswers ==
    /\ At("D", "joinK") /\ pc["K"] = "gone"
    /\ fifo' = [fifo EXCEPT !["K"] = <<>>]
    /\ Goto("D", "joinM")
    /\ UNCHANGED <<netVars, cbIds, sem, work, replying, exit, crashed>>

(* Mutation: M is not waited for.                                          *)
FreeManager_Early ==
    /\ At("D", "joinM")
    /\ CloseServer(Listed)
    /\ sem' = [sem EXCEPT !["C"] = @ + 1]
    /\ Goto("D", "joinC")
    /\ UNCHANGED <<owner, backlog, listening, link, clientEnd, down, cbIds, fifo, work,
                   replying, exit, crashed>>

(* Mutation: C is not woken.                                               *)
FreeManager_NoPost ==
    /\ At("D", "joinM") /\ pc["M"] = "gone"
    /\ CloseServer(Listed)
    /\ Goto("D", "joinC")
    /\ UNCHANGED <<owner, backlog, listening, link, clientEnd, down, cbIds, queues,
                   replying, exit, crashed>>

(* ipc_link_manager_destroy, then the post for C.                          *)
FreeManager ==
    /\ At("D", "joinM") /\ pc["M"] = "gone"
    /\ CloseServer(Listed)
    /\ sem' = [sem EXCEPT !["C"] = @ + 1]
    /\ Goto("D", "joinC")
    /\ UNCHANGED <<owner, backlog, listening, link, clientEnd, down, cbIds, fifo, work,
                   replying, exit, crashed>>

JoinC ==
    /\ At("D", "joinC") /\ pc["C"] = "gone"
    /\ Goto("D", "gone")
    /\ UNCHANGED <<netVars, cbIds, queues, replying, exit, crashed>>

-----------------------------------------------------------------------------
AcceptStep == Listen \/ Accept \/ AcceptStop
ReadStep   == ReadStop \/ ReplyWrite \/ ReplyFreed
              \/ \E k \in Conns : ReadLink(k) \/ Reply(k) \/ DropLink(k)
CbStep     == Take("C") \/ Forward \/ ForwardFreed
AckStep    == Take("K") \/ Answer
StopStep   == StopListening \/ FreeAnswers \/ FreeManager \/ JoinC

SrvTypeOK(Msgs) ==
    /\ pc \in [A : {"listen", "accept", "gone"}, M : {"run", "gone"},
               C : {"wait", "work", "gone"}, K : {"wait", "work", "gone"},
               D : {"idle", "joinA", "joinK", "joinM", "joinC", "gone"}]
    /\ cbIds \in Seq(UNION {{m.ids} : m \in {x \in Msgs : x.type = "cbid"}})
    /\ \A q \in Queues :
          /\ fifo[q] \in Seq([from : Links, msg : Msgs]) /\ Len(fifo[q]) <= FifoCap
          /\ sem[q] \in Nat
          /\ work[q] \in Seq([from : Links, msg : Msgs]) /\ Len(work[q]) <= 1
    /\ replying \in Seq([from : Links, msg : Msgs]) /\ exit \in BOOLEAN /\ crashed \in BOOLEAN
=============================================================================
