-------------------------- MODULE IpcProcessClient --------------------------
(***************************************************************************)
(* The clients of the IPC process library: ipc_process_client.c.  A client *)
(* offers functions and asks for those of others; the server in between    *)
(* knows which ids are offered.  In each client process                    *)
(*                                                                         *)
(*   N  connects, then sends which ids the client offers                   *)
(*   H  handles what arrives: runs a function and answers, or puts an      *)
(*      answer on ack_list                                                 *)
(*   t  any number of callers of HyIpcProcessDataSync                      *)
(*   D  the application, which destroys the client                         *)
(*                                                                         *)
(* ack_mutex is held across steps only by a caller that goes round its     *)
(* loop without waiting ("spin"); every other use is within one action.    *)
(* A client process may die and be started again.                          *)
(***************************************************************************)
EXTENDS IpcSocket

CONSTANTS
    Ids,            \* message ids
    Offers,         \* the ids each client has a function for
    Callers,        \* threads that ask
    Asks,           \* the ids each caller asks for
    Home,           \* the client each caller belongs to
    MaxCalls        \* bound: requests made in one behaviour

VARIABLES
    conn,           \* the connection of each client, 0 before there is one
    cpc,            \* where N, H and D of each client are
    at,             \* where each caller is; "lost": its client was freed
    ackList,        \* ack_list
    inHand,         \* the answer H has read and not put on ack_list yet: none or one
    cexit,          \* exit_flag
    asked,          \* the requests made: asker's connection, caller and id
    runs            \* history: how often a function ran for each request

cliVars == <<conn, cpc, at, ackList, inHand, cexit, asked, runs>>
calls   == <<at, asked>>

Mine(c) == {t \in Callers : Home[t] = c}

CliInit ==
    /\ conn = [c \in Clients |-> 0]
    /\ cpc = [c \in Clients |-> [N |-> "connect", H |-> "run", D |-> "idle"]]
    /\ at = [t \in Callers |-> "idle"]
    /\ ackList = [c \in Clients |-> <<>>] /\ inHand = [c \in Clients |-> <<>>]
    /\ cexit = [c \in Clients |-> FALSE]
    /\ asked = <<>>
    /\ runs = [n \in 1 .. MaxCalls |-> 0]

CAt(c, thread, label)   == cpc[c][thread] = label
CGoto(c, thread, label) == cpc' = [cpc EXCEPT ![c][thread] = label]
Alive(c) == ~CAt(c, "D", "gone")
Reads(c) == CAt(c, "H", "run") /\ Alive(c) /\ conn[c] # 0 /\ inHand[c] = <<>>
AckFree(c) == \A t \in Mine(c) : at[t] # "spin"

-----------------------------------------------------------------------------
(* N: _client_connect_thread_cb.                                           *)

(* A client that offers nothing registers an empty list, which nobody ever *)
(* reads: that message is left out.                                        *)
Connected(c) ==
    /\ CAt(c, "N", "connect") /\ Alive(c)
    /\ Connect(c)
    /\ conn' = [conn EXCEPT ![c] = Len(owner) + 1]
    /\ CGoto(c, "N", IF Offers[c] = {} THEN "gone" ELSE "register")
    /\ UNCHANGED <<listening, link, streams, ackList, inHand, cexit, calls, runs>>

(* Every try within connect_timeout_s has failed; the sends that follow    *)
(* find the socket not connected.                                          *)
ConnectFailed(c) ==
    /\ CAt(c, "N", "connect") /\ Alive(c) /\ ~listening
    /\ CGoto(c, "N", "gone")
    /\ UNCHANGED <<netVars, conn, ackList, inHand, cexit, calls, runs>>

(* The introduction sent before it (pid and tag) only feeds a callback and *)
(* is left out.                                                            *)
Register(c) ==
    /\ CAt(c, "N", "register") /\ Alive(c)
    /\ SendUp(conn[c], [type |-> "cbid", ids |-> Offers[c]])
    /\ CGoto(c, "N", "gone")
    /\ UNCHANGED <<conns, down, conn, ackList, inHand, cexit, calls, runs>>

-----------------------------------------------------------------------------
(* H: _client_handle_ipc_link_msg_thread_cb, which waits for a connection  *)
(* without looking at exit_flag.                                           *)

Arrived(c, type) ==
    /\ Reads(c)
    /\ down[conn[c]] # <<>> /\ Head(down[conn[c]]).type = type
    /\ down' = [down EXCEPT ![conn[c]] = Tail(@)]

(* H goes on to lock ack_mutex, where it does not look at exit_flag.       *)
ReadAck(c) ==
    /\ Arrived(c, "ack")
    /\ inHand' = [inHand EXCEPT ![c] = <<Head(down[conn[c]])>>]
    /\ UNCHANGED <<conns, up, conn, cpc, ackList, cexit, calls, runs>>

(* The signal wakes one of the callers that wait.  Any of them may look    *)
(* at the list from then on, since a wait may also end without a signal:   *)
(* see Enter.                                                              *)
HandleAck(c) ==
    /\ Alive(c) /\ inHand[c] # <<>> /\ AckFree(c)
    /\ ackList' = [ackList EXCEPT ![c] = @ \o inHand[c]]
    /\ inHand' = [inHand EXCEPT ![c] = <<>>]
    /\ UNCHANGED <<netVars, conn, cpc, cexit, calls, runs>>

(* Mutation: the answer is sent with the type it came with.                *)
HandleCb_SameType(c) ==
    /\ Arrived(c, "cb")
    /\ LET m == Head(down[conn[c]])
       IN  /\ SendUp(conn[c], m)
           /\ runs' = [runs EXCEPT ![m.req] = @ + (IF m.id \in Offers[c] THEN 1 ELSE 0)]
    /\ UNCHANGED <<conns, conn, cpc, ackList, inHand, cexit, calls>>

(* A client without a function for the id answers too.                     *)
HandleCb(c) ==
    /\ Arrived(c, "cb")
    /\ LET m == Head(down[conn[c]])
       IN  /\ SendUp(conn[c], [m EXCEPT !.type = "ack"])
           /\ runs' = [runs EXCEPT ![m.req] = @ + (IF m.id \in Offers[c] THEN 1 ELSE 0)]
    /\ UNCHANGED <<conns, conn, cpc, ackList, inHand, cexit, calls>>

(* The read fails: DISCONNECT is reported and the thread ends.             *)
HandleClosed(c) ==
    /\ Reads(c)
    /\ down[conn[c]] = <<>> /\ conn[c] \notin serverEnd
    /\ CGoto(c, "H", "gone")
    /\ UNCHANGED <<netVars, conn, ackList, inHand, cexit, calls, runs>>

(* exit_flag is looked at between two messages.                            *)
HandleExit(c) ==
    /\ Reads(c) /\ cexit[c]
    /\ CGoto(c, "H", "gone")
    /\ UNCHANGED <<netVars, conn, ackList, inHand, cexit, calls, runs>>

-----------------------------------------------------------------------------
(* A caller: ipc_process_client_data_sync and _client_wait_ack.            *)

Goes(t, label) == at' = [at EXCEPT ![t] = label]

(* A request that cannot be written returns -1 at once: no action.         *)
Ask(t) ==
    LET k == conn[Home[t]] IN
    /\ at[t] = "idle" /\ Alive(Home[t]) /\ Len(asked) < MaxCalls
    /\ k # 0 /\ k \in serverEnd
    /\ \E id \in Asks[t] :
          /\ SendUp(k, [type |-> "cb", id |-> id, link |-> NoLink, req |-> Len(asked) + 1])
          /\ asked' = Append(asked, [conn |-> k, caller |-> t, id |-> id])
    /\ Goes(t, "lock")
    /\ UNCHANGED <<conns, down, conn, cpc, ackList, inHand, cexit, runs>>

IdOf(t) == asked[CHOOSE n \in DOMAIN asked :
                    /\ asked[n].caller = t
                    /\ \A m \in DOMAIN asked : asked[m].caller = t => m <= n].id

(* What a pass over the list leaves: the first answer for the id is taken; *)
(* of the others before it those that are "older than three seconds" are   *)
(* dropped.  The age is the call's start minus the arrival in unsigned     *)
(* whole seconds: an answer that arrived in a later second than the call   *)
(* began is dropped as well, so any of them may be.                        *)
Scanned(list, id) ==
    LET match == {i \in DOMAIN list : list[i].id = id}
        first == IF match = {} THEN Len(list) + 1 ELSE CHOOSE i \in match : \A j \in match : i <= j
        before == UNION {{f \in [1 .. n -> 1 .. first - 1] :
                             \A i, j \in 1 .. n : i < j => f[i] < f[j]} : n \in 0 .. first - 1}
    IN  {[found |-> match # {},
          left  |-> [i \in DOMAIN kept |-> list[kept[i]]] \o SubSeq(list, first + 1, Len(list))] :
            kept \in before}

Enter(t) ==
    LET c == Home[t] IN
    /\ at[t] = "lock" \/ (at[t] = "wait" /\ ackList[c] # <<>>)
    /\ Alive(c) /\ AckFree(c) /\ ~cexit[c]
    /\ \E s \in Scanned(ackList[c], IdOf(t)) :
          /\ ackList' = [ackList EXCEPT ![c] = s.left]
          /\ Goes(t, IF s.found THEN "idle" ELSE IF s.left = <<>> THEN "wait" ELSE "spin")
    /\ UNCHANGED <<netVars, conn, cpc, inHand, cexit, asked, runs>>

(* Returns 0 without an answer.                                            *)
LeaveOnExit(t) ==
    /\ Alive(Home[t]) /\ cexit[Home[t]]
    /\ at[t] = "spin" \/ (at[t] \in {"lock", "wait"} /\ AckFree(Home[t]))
    /\ Goes(t, "idle")
    /\ UNCHANGED <<netVars, conn, cpc, ackList, inHand, cexit, asked, runs>>

(* Mutation: the timeout is taken for a wake-up.                           *)
TimeOut_Rescan(t) ==
    /\ at[t] = "wait" /\ Alive(Home[t]) /\ AckFree(Home[t])
    /\ Goes(t, "lock")
    /\ UNCHANGED <<netVars, conn, cpc, ackList, inHand, cexit, asked, runs>>

(* Returns the id, whatever has come meanwhile.                            *)
TimeOut(t) ==
    /\ at[t] = "wait" /\ Alive(Home[t]) /\ AckFree(Home[t])
    /\ Goes(t, "idle")
    /\ UNCHANGED <<netVars, conn, cpc, ackList, inHand, cexit, asked, runs>>

-----------------------------------------------------------------------------
(* D: ipc_process_client_destroy.  It changes nothing before it has joined *)
(* N, so an action begins there.                                           *)

(* Mutation: exit_flag is never set.                                       *)
CloseExit_NoFlag(c) ==
    /\ CAt(c, "D", "idle") /\ CAt(c, "N", "gone")
    /\ CGoto(c, "D", "joinH")
    /\ UNCHANGED <<netVars, conn, ackList, inHand, cexit, calls, runs>>

CloseExit(c) ==
    /\ CAt(c, "D", "idle") /\ CAt(c, "N", "gone")
    /\ cexit' = [cexit EXCEPT ![c] = TRUE]
    /\ CGoto(c, "D", "joinH")
    /\ UNCHANGED <<netVars, conn, ackList, inHand, calls, runs>>

(* Nothing of the client is left; its socket is closed.  A caller that is  *)
(* inside ends up in the state given.                                      *)
Ended(c, inside) ==
    /\ cpc' = [cpc EXCEPT ![c] = [N |-> "gone", H |-> "gone", D |-> "gone"]]
    /\ conn' = [conn EXCEPT ![c] = 0]
    /\ at' = [t \in Callers |-> IF t \in Mine(c) /\ at[t] # "idle" THEN inside ELSE at[t]]
    /\ ackList' = [ackList EXCEPT ![c] = <<>>] /\ inHand' = [inHand EXCEPT ![c] = <<>>]
    /\ cexit' = [cexit EXCEPT ![c] = FALSE]
    /\ IF conn[c] = 0 THEN UNCHANGED <<clientEnd, down>> ELSE CloseClient(conn[c])
    /\ UNCHANGED <<owner, backlog, listening, link, serverEnd, up, asked, runs>>

(* The mutex, the condition and the client are freed whoever is inside.    *)
CloseFree(c) == CAt(c, "D", "joinH") /\ CAt(c, "H", "gone") /\ Ended(c, "lost")

(* External: the process dies.                                             *)
Die(c) == Alive(c) /\ Ended(c, "idle")

(* ipc_process_client_create, in a new process or after a Destroy.         *)
Start(c) ==
    /\ ~Alive(c) /\ Len(owner) < MaxConns
    /\ cpc' = [cpc EXCEPT ![c] = [N |-> "connect", H |-> "run", D |-> "idle"]]
    /\ UNCHANGED <<netVars, conn, at, ackList, inHand, cexit, asked, runs>>

-----------------------------------------------------------------------------
ConnectStep(c) == Connected(c) \/ ConnectFailed(c) \/ Register(c)
HandleStep(c)  == ReadAck(c) \/ HandleAck(c) \/ HandleCb(c) \/ HandleClosed(c) \/ HandleExit(c)
WaitStep(t)    == Enter(t) \/ LeaveOnExit(t) \/ TimeOut(t)

CliTypeOK(Msgs) ==
    /\ conn \in [Clients -> 0 .. MaxConns]
    /\ cpc \in [Clients -> [N : {"connect", "register", "gone"}, H : {"run", "gone"},
                            D : {"idle", "joinH", "gone"}]]
    /\ at \in [Callers -> {"idle", "lock", "wait", "spin", "lost"}]
    /\ ackList \in [Clients -> Seq(Msgs)] /\ inHand \in [Clients -> Seq(Msgs)]
    /\ cexit \in [Clients -> BOOLEAN]
    /\ asked \in Seq([conn : Conns, caller : Callers, id : Ids])
    /\ runs \in [1 .. MaxCalls -> Nat]
=============================================================================
