----------------------------- MODULE IpcProcess -----------------------------
(***************************************************************************)
(* The IPC process library in use: one server and its clients, as in the   *)
(* programs of example/linux/ipc/ipc_process.  A client that offers        *)
(* nothing asks (hy_ipc_process_client_set_demo.c), another one offers the *)
(* functions (hy_ipc_process_client_demo.c); the server is destroyed and   *)
(* clients are destroyed, die and come back at any time.                   *)
(***************************************************************************)
EXTENDS IpcProcessServer, IpcProcessClient

CONSTANTS
    Closers,        \* clients that may be destroyed
    Mortal,         \* clients whose process may die
    MaxEnds         \* bound: processes destroyed or dead in one behaviour

ASSUME IpcAssumption ==
    /\ Offers \in [Clients -> SUBSET Ids] /\ Asks \in [Callers -> SUBSET Ids]
    /\ Home \in [Callers -> Clients] /\ Closers \subseteq Clients /\ Mortal \subseteq Clients
    /\ MaxConns \in Nat /\ MaxCalls \in Nat /\ MaxEnds \in Nat /\ FifoCap \in Nat

VARIABLE ends           \* how many there have been

vars == <<netVars, srvVars, cliVars, ends>>

Init == NetInit /\ SrvInit /\ CliInit /\ ends = 0

ServerStep == AcceptStep \/ ReadStep \/ CbStep \/ AckStep \/ StopStep

ClientStep(c) == ConnectStep(c) \/ HandleStep(c) \/ CloseFree(c) \/ Start(c)
CallerStep(t) == Ask(t) \/ WaitStep(t)

End ==
    /\ ends < MaxEnds
    /\ ends' = ends + 1
    /\ \/ DestroyBegin /\ UNCHANGED cliVars
       \/ (\E c \in Closers : CloseExit(c)) /\ UNCHANGED srvVars
       \/ (\E c \in Mortal : Die(c)) /\ UNCHANGED srvVars

Next ==
    \/ ServerStep /\ UNCHANGED <<cliVars, ends>>
    \/ (\E c \in Clients : ClientStep(c)) /\ UNCHANGED <<srvVars, ends>>
    \/ (\E t \in Callers : CallerStep(t)) /\ UNCHANGED <<srvVars, ends>>
    \/ End

(* Every thread runs.  Nobody is obliged to ask, to destroy or to die, and *)
(* a call that waits times out.                                            *)
Fairness ==
    /\ WF_vars(AcceptStep /\ UNCHANGED <<cliVars, ends>>)
    /\ WF_vars(ReadStep /\ UNCHANGED <<cliVars, ends>>)
    /\ WF_vars(CbStep /\ UNCHANGED <<cliVars, ends>>)
    /\ WF_vars(AckStep /\ UNCHANGED <<cliVars, ends>>)
    /\ WF_vars(StopStep /\ UNCHANGED <<cliVars, ends>>)
    /\ \A c \in Clients :
          /\ WF_vars(ConnectStep(c) /\ UNCHANGED <<srvVars, ends>>)
          /\ WF_vars(HandleStep(c) /\ UNCHANGED <<srvVars, ends>>)
          /\ WF_vars(CloseFree(c) /\ UNCHANGED <<srvVars, ends>>)
    /\ \A t \in Callers : WF_vars(WaitStep(t) /\ UNCHANGED <<srvVars, ends>>)

Spec == Init /\ [][Next]_vars /\ Fairness

-----------------------------------------------------------------------------
Reqs == 1 .. MaxCalls
Msgs == [type : {"cbid"}, ids : SUBSET Ids]
            \cup [type : {"cb", "ack"}, id : Ids, link : Links \cup {NoLink}, req : Reqs]

(* Every variable of the server, the clients and the connections keeps its *)
(* type; in particular a fifo never holds more than it was made for.       *)
TypeOK == NetTypeOK(Msgs) /\ SrvTypeOK(Msgs) /\ CliTypeOK(Msgs) /\ ends \in 0 .. MaxEnds

(* The two threads that sleep on a semaphore and then read a fifo another  *)
(* thread fills always find an item there, also when the fifo was full and *)
(* items were lost, and when Destroy posts without an item: until Destroy  *)
(* tells the threads, a semaphore counts the items of its fifo.            *)
TokensAreItems ==
    /\ \A q \in Queues : ~exit => sem[q] = Len(fifo[q])
    /\ \A q \in Queues : pc[q] = "work" => work[q] # <<>>

(* Everything that is an answer on the way to a client or in its list.     *)
AnswersFor(k) == {m \in Range(down[k]) : m.type = "ack"}
                    \cup UNION {Range(ackList[c] \o inHand[c]) : c \in {d \in Clients : conn[d] = k}}

(* An answer reaches nobody but the client that asked, as long as the      *)
(* server still holds that client's link: the address in the message makes *)
(* the way through the other client and back, and only a freed one can     *)
(* stand for somebody else by then.                                        *)
AnswersGoBack ==
    \A k \in Conns : \A m \in AnswersFor(k) :
        asked[m.req].conn = k \/ asked[m.req].conn \notin serverEnd

(* One request runs the function no more often than the id was registered, *)
(* times the clients that have it: nothing on the way repeats it.  (A      *)
(* client that comes back registers again, and then it does run twice.)    *)
RunsAreRegistered ==
    \A n \in DOMAIN asked :
        LET id == asked[n].id
        IN  runs[n] <= Cardinality({i \in DOMAIN cbIds : id \in cbIds[i]})
                        * Cardinality({k \in DOMAIN owner : id \in Offers[owner[k]]})

(* Destroying the server ends, whatever its threads and the clients are    *)
(* at, and closes every connection, also those nobody accepted; or the     *)
(* process has died of memory that Destroy freed under C or M.             *)
ServerDestroyEnds ==
    []<>(pc["D"] = "idle" \/ ((pc["D"] = "gone" \/ crashed) /\ serverEnd = {}))

(* Memory that Destroy frees before every thread has ended is the undoing  *)
(* of two of them only: of M, with an answer in its hands when the fifo    *)
(* goes, and of C, with a request when the list of links goes.  A and K    *)
(* have ended by the first, and M by the second.  (What is left out: M     *)
(* looks for the server's own link when it greets a new one.)              *)
FreedUnderTwo ==
    /\ AnswersFreed => pc["A"] = "gone" /\ pc["K"] = "gone"
    /\ ManagerFreed => pc["M"] = "gone"
    /\ crashed => \/ AnswersFreed /\ ~ManagerFreed /\ replying # <<>>
                  \/ ManagerFreed /\ pc["C"] = "work"

(* Destroying a client that has been connected ends, also while a caller   *)
(* goes round with ack_mutex held and H waits for it with an answer: every *)
(* caller looks at exit_flag in each round, and H between two messages.    *)
(* (One that never connected is joined for ever.)                          *)
ClientDestroyEnds ==
    \A c \in Clients : []<>(cpc[c].D \in {"idle", "gone"} \/ conn[c] = 0)

(* A call comes back, by an answer, the timeout or Destroy, unless another *)
(* call's answer is in the list when it looks: then it goes round for ever *)
(* with ack_mutex held, and the callers behind it wait; or Destroy frees   *)
(* the client before the caller has left.                                  *)
CallsReturn ==
    \A t \in Callers :
        []<>(at[t] \in {"idle", "lost"} \/ \E s \in Callers : at[s] = "spin" /\ Home[s] = Home[t])
=============================================================================
