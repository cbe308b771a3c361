------------------------------ MODULE IpcSocket ------------------------------
(***************************************************************************)
(* The connections under the IPC process library: ipc_socket/*.c and       *)
(* ipc_process/ipc_link.c.  A connection is a pair of reliable, ordered    *)
(* streams (an AF_UNIX stream socket); the server side holds it as a link, *)
(* whose address messages carry around and malloc may give to a later      *)
(* connection once it was freed.                                           *)
(*                                                                         *)
(* A message is one element of a stream.  ipc_link_write sends it with two *)
(* writes and no lock, so this assumes that no two threads write to one    *)
(* socket at the same time.  A write to a closed peer fails and returns.   *)
(***************************************************************************)
EXTENDS Naturals, Sequences, FiniteSets, Functions, SequencesExt

CONSTANTS
    Clients,        \* client processes
    MaxConns        \* bound: connections made in one behaviour

Conns  == 1 .. MaxConns
NoLink == 0
Links  == Conns     \* addresses of links

VARIABLES
    owner,          \* sequence: the client that made each connection
    backlog,        \* connections made and not accepted yet, oldest first
    listening,      \* the server's socket listens
    link,           \* the address of each connection's link, or NoLink
    clientEnd,      \* connections whose client end is open
    serverEnd,      \* connections whose server end is open
    up, down        \* messages to the server and to the client

netVars == <<owner, backlog, listening, link, clientEnd, serverEnd, up, down>>
streams == <<up, down>>
conns   == <<owner, backlog, listening, link, clientEnd, serverEnd>>

NetInit ==
    /\ owner = <<>> /\ backlog = <<>> /\ listening = FALSE
    /\ link = [k \in Conns |-> NoLink]
    /\ clientEnd = {} /\ serverEnd = {}
    /\ up = [k \in Conns |-> <<>>] /\ down = [k \in Conns |-> <<>>]

(* The connections on the server's list of links.                          *)
Listed == {k \in serverEnd : link[k] # NoLink}

(* connect: the kernel queues the connection until the server accepts it.  *)
Connect(c) ==
    /\ listening /\ Len(owner) < MaxConns
    /\ owner' = Append(owner, c)
    /\ backlog' = Append(backlog, Len(owner) + 1)
    /\ clientEnd' = clientEnd \cup {Len(owner) + 1}
    /\ serverEnd' = serverEnd \cup {Len(owner) + 1}

(* accept, and a link for the new connection: at an address of its own or  *)
(* at that of a link that was freed.                                       *)
AcceptOldest ==
    LET k == Head(backlog)
        freed == {link[j] : j \in Conns \ serverEnd} \ ({link[j] : j \in serverEnd} \cup {NoLink})
        fresh == IF k \in Range(link) THEN {} ELSE {k}
    IN  /\ backlog # <<>>
        /\ backlog' = Tail(backlog)
        /\ \E h \in freed \cup fresh : link' = [link EXCEPT ![k] = h]

(* ipc_link_write from the client of k, and from the server to the links   *)
(* of K.                                                                   *)
SendUp(k, m) ==
    up' = IF k \in clientEnd \cap serverEnd THEN [up EXCEPT ![k] = Append(@, m)] ELSE up
SendDown(K, ms) ==
    down' = [k \in Conns |-> IF k \in K \cap clientEnd THEN down[k] \o ms ELSE down[k]]

(* close: what was not read yet is gone, what was written can still be     *)
(* read by the peer.                                                       *)
CloseClient(k) ==
    /\ clientEnd' = clientEnd \ {k}
    /\ down' = [down EXCEPT ![k] = <<>>]
CloseServer(K) ==
    /\ serverEnd' = serverEnd \ K
    /\ up' = [k \in Conns |-> IF k \in K THEN <<>> ELSE up[k]]

NetTypeOK(Msgs) ==
    /\ owner \in Seq(Clients) /\ Len(owner) <= MaxConns
    /\ backlog \in Seq(Conns) /\ listening \in BOOLEAN
    /\ link \in [Conns -> Links \cup {NoLink}]
    /\ clientEnd \subseteq DOMAIN owner /\ serverEnd \subseteq DOMAIN owner
    /\ up \in [Conns -> Seq(Msgs)] /\ down \in [Conns -> Seq(Msgs)]
=============================================================================
