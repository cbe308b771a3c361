--------------------------- MODULE IpcProcess_proofs ---------------------------
(***************************************************************************)
(* What IpcProcess promises, for every number of clients, callers, ids,    *)
(* connections and requests: what the variables are, that a semaphore      *)
(* counts the items of its fifo, whom memory that Destroy frees can catch, *)
(* that an answer comes back to the connection that asked, and that        *)
(* nothing on the way repeats a request.                                   *)
(***************************************************************************)
EXTENDS IpcProcess, FiniteSetTheorems, WellFoundedInduction, TLAPS

-----------------------------------------------------------------------------
(* Sequences, and the smallest number of a set.                            *)

LEMMA NatMin ==
    ASSUME NEW X \in SUBSET Nat, X # {}
    PROVE  \E x \in X : \A y \in X : x <= y
<1> DEFINE R == OpToRel(<, Nat)
<1>1. IsWellFoundedOn(R, Nat)
  BY NatLessThanWellFounded
<1>2. PICK x \in X : \A y \in X : ~(<<y, x>> \in R)
  BY <1>1, WFMin
<1>3. ASSUME NEW y \in X PROVE x <= y
  <2>1. ~(<<y, x>> \in R) /\ x \in Nat /\ y \in Nat
    BY <1>2
  <2>2. ~(y < x)
    BY <2>1 DEF OpToRel
  <2> HIDE DEF R
  <2>3. x \in Int /\ y \in Int
    BY <2>1
  <2> QED BY <2>2, <2>3
<1> QED BY <1>3

LEMMA RangeAppend ==
    ASSUME NEW S, NEW s \in Seq(S), NEW x \in S
    PROVE  Append(s, x) \in Seq(S) /\ Range(Append(s, x)) = Range(s) \cup {x}
<1> DEFINE t == Append(s, x)
<1>1. /\ t \in Seq(S) /\ DOMAIN s = 1 .. Len(s) /\ DOMAIN t = 1 .. Len(s) + 1 /\ Len(s) \in Nat
      /\ t[Len(s) + 1] = x /\ \A i \in 1 .. Len(s) : t[i] = s[i]
  OBVIOUS
<1> HIDE DEF t
<1>2. Range(t) \subseteq Range(s) \cup {x}
  <2>1. ASSUME NEW i \in 1 .. Len(s) + 1 PROVE t[i] \in Range(s) \cup {x}
    <3>1. i = Len(s) + 1 \/ i \in 1 .. Len(s)
      BY <1>1
    <3> QED BY <1>1, <3>1 DEF Range
  <2> QED BY <1>1, <2>1 DEF Range
<1>3. Range(s) \cup {x} \subseteq Range(t)
  <2>1. Len(s) + 1 \in DOMAIN t /\ \A i \in 1 .. Len(s) : i \in DOMAIN t
    BY <1>1
  <2> QED BY <1>1, <2>1 DEF Range
<1> QED BY <1>1, <1>2, <1>3 DEF t

LEMMA RangeTail ==
    ASSUME NEW S, NEW s \in Seq(S), s # <<>>
    PROVE  /\ Head(s) \in Range(s) /\ Head(s) \in S /\ Tail(s) \in Seq(S)
           /\ Range(Tail(s)) \subseteq Range(s) /\ Len(Tail(s)) = Len(s) - 1
BY DEF Range

LEMMA RangeConcat ==
    ASSUME NEW S, NEW s \in Seq(S), NEW t \in Seq(S)
    PROVE  s \o t \in Seq(S) /\ Range(s \o t) \subseteq Range(s) \cup Range(t)
<1> DEFINE u == s \o t
<1>1. /\ u \in Seq(S) /\ DOMAIN s = 1 .. Len(s) /\ DOMAIN t = 1 .. Len(t)
      /\ Len(s) \in Nat /\ Len(t) \in Nat /\ DOMAIN u = 1 .. Len(s) + Len(t)
      /\ \A i \in 1 .. Len(s) + Len(t) : u[i] = IF i <= Len(s) THEN s[i] ELSE t[i - Len(s)]
  OBVIOUS
<1> HIDE DEF u
<1>2. ASSUME NEW i \in 1 .. Len(s) + Len(t) PROVE u[i] \in Range(s) \cup Range(t)
  <2>1. CASE i <= Len(s)
    BY <1>1, <2>1 DEF Range
  <2>2. CASE ~(i <= Len(s))
    <3>1. i - Len(s) \in 1 .. Len(t)
      BY <1>1, <2>2
    <3> QED BY <1>1, <2>2, <3>1 DEF Range
  <2> QED BY <2>1, <2>2
<1>3. Range(u) \subseteq Range(s) \cup Range(t)
  BY <1>1, <1>2 DEF Range
<1> QED BY <1>1, <1>3 DEF u

LEMMA ConcatIs ==
    ASSUME NEW S, NEW s \in Seq(S), NEW t \in Seq(S)
    PROVE  /\ Len(s) \in Nat /\ Len(t) \in Nat /\ Len(s \o t) = Len(s) + Len(t)
           /\ \A p \in 1 .. Len(s) : (s \o t)[p] = s[p]
           /\ \A p \in 1 .. Len(t) : (s \o t)[Len(s) + p] = t[p]
OBVIOUS

LEMMA ConcatAppend ==
    ASSUME NEW S, NEW s \in Seq(S), NEW t \in Seq(S), NEW x
    PROVE  s \o Append(t, x) = Append(s \o t, x)
<1> DEFINE l == s \o Append(t, x)
           r == Append(s \o t, x)
<1>1. /\ Len(s) \in Nat /\ Len(t) \in Nat /\ s \o t \in Seq(S)
      /\ Len(s \o t) = Len(s) + Len(t) /\ Len(Append(t, x)) = Len(t) + 1
  OBVIOUS
<1>2. DOMAIN l = 1 .. Len(s) + Len(t) + 1 /\ DOMAIN r = 1 .. Len(s) + Len(t) + 1
  BY <1>1
<1>3. ASSUME NEW i \in 1 .. Len(s) + Len(t) + 1 PROVE l[i] = r[i]
  <2>1. CASE i \in 1 .. Len(s)
    BY <1>1, <2>1
  <2>2. CASE i \in Len(s) + 1 .. Len(s) + Len(t)
    BY <1>1, <2>2
  <2>3. CASE i = Len(s) + Len(t) + 1
    BY <1>1, <2>3
  <2> QED BY <1>1, <2>1, <2>2, <2>3
<1> QED BY <1>1, <1>2, <1>3

(* What a pass over a list of answers leaves are answers of the list.      *)
LEMMA ScannedLeft ==
    ASSUME NEW S, NEW list \in Seq(S), NEW id, NEW s \in Scanned(list, id)
    PROVE  s.left \in Seq(S) /\ Range(s.left) \subseteq Range(list)
<1> DEFINE match == {i \in DOMAIN list : list[i].id = id}
           first == IF match = {} THEN Len(list) + 1
                    ELSE CHOOSE i \in match : \A j \in match : i <= j
           before == UNION {{f \in [1 .. n -> 1 .. first - 1] :
                                \A i, j \in 1 .. n : i < j => f[i] < f[j]} : n \in 0 .. first - 1}
<1>1. Len(list) \in Nat /\ DOMAIN list = 1 .. Len(list)
  OBVIOUS
<1>2. first \in 1 .. Len(list) + 1
  <2>1. CASE match = {}
    BY <1>1, <2>1
  <2>2. CASE match # {}
    <3>1. match \in SUBSET Nat
      BY <1>1
    <3>2. \E i \in match : \A j \in match : i <= j
      BY <2>2, <3>1, NatMin
    <3>3. first \in match
      BY <2>2, <3>2
    <3>4. match \subseteq 1 .. Len(list)
      BY <1>1
    <3> HIDE DEF first, match
    <3> QED BY <1>1, <3>3, <3>4
  <2> QED BY <2>1, <2>2
<1>3. PICK kept \in before :
          s = [found |-> match # {},
               left  |-> [i \in DOMAIN kept |-> list[kept[i]]]
                             \o SubSeq(list, first + 1, Len(list))]
  BY DEF Scanned
<1>4. PICK n \in 0 .. first - 1 : kept \in [1 .. n -> 1 .. first - 1]
  BY <1>3
<1> DEFINE head == [i \in DOMAIN kept |-> list[kept[i]]]
           rest == SubSeq(list, first + 1, Len(list))
<1> HIDE DEF first, match, before
<1>5. n \in Nat /\ DOMAIN kept = 1 .. n /\ \A i \in 1 .. n : kept[i] \in DOMAIN list
  BY <1>1, <1>2, <1>4
<1>6. head \in Seq(S) /\ Range(head) \subseteq Range(list)
  <2>1. head = [i \in 1 .. n |-> list[kept[i]]] /\ \A i \in 1 .. n : list[kept[i]] \in S
    BY <1>1, <1>5
  <2>2. head \in Seq(S)
    BY <1>5, <2>1
  <2> QED BY <1>5, <2>1, <2>2 DEF Range
<1>7. rest \in Seq(S) /\ Range(rest) \subseteq Range(list)
  <2>1. first \in Nat
    BY <1>1, <1>2
  <2> QED BY <2>1 DEF Range
<1>8. s.left = head \o rest
  BY <1>3
<1> HIDE DEF head, rest
<1> QED BY <1>6, <1>7, <1>8, RangeConcat

-----------------------------------------------------------------------------
(* Types.  A request travels from a client to the fifo of C and, with the  *)
(* link of its asker in it, to the other clients; an answer the same way   *)
(* back through the fifo of K.  Nothing else ever comes down.              *)
CbMsgs   == [type : {"cb"}, id : Ids, link : Links \cup {NoLink}, req : Reqs]
AckMsgs  == [type : {"ack"}, id : Ids, link : Links \cup {NoLink}, req : Reqs]
Requests == [from : Links, msg : CbMsgs]
Replies  == [from : Links, msg : AckMsgs]

ConnTypes ==
    /\ owner \in Seq(Clients) /\ Len(owner) <= MaxConns
    /\ backlog \in Seq(Conns) /\ listening \in BOOLEAN
    /\ link \in [Conns -> Links \cup {NoLink}]
    /\ clientEnd \subseteq DOMAIN owner /\ serverEnd \subseteq DOMAIN owner

StreamTypes == up \in [Conns -> Seq(Msgs)] /\ down \in [Conns -> Seq(CbMsgs \cup AckMsgs)]

PcTypes ==
    /\ pc \in [A : {"listen", "accept", "gone"}, M : {"run", "gone"},
               C : {"wait", "work", "gone"}, K : {"wait", "work", "gone"},
               D : {"idle", "joinA", "joinK", "joinM", "joinC", "gone"}]
    /\ replying \in Seq(Replies) /\ exit \in BOOLEAN /\ crashed \in BOOLEAN

RegTypes == cbIds \in Seq(UNION {{m.ids} : m \in {x \in Msgs : x.type = "cbid"}})

QueueTypes ==
    /\ fifo \in [Queues -> Seq(Requests \cup Replies)]
    /\ work \in [Queues -> Seq(Requests \cup Replies)]
    /\ Range(fifo["C"]) \cup Range(work["C"]) \subseteq Requests
    /\ Range(fifo["K"]) \cup Range(work["K"]) \subseteq Replies
    /\ sem \in [Queues -> Nat]
    /\ \A q \in Queues : Len(fifo[q]) <= FifoCap /\ Len(work[q]) <= 1

ClientTypes ==
    /\ conn \in [Clients -> 0 .. MaxConns]
    /\ cpc \in [Clients -> [N : {"connect", "register", "gone"}, H : {"run", "gone"},
                            D : {"idle", "joinH", "gone"}]]
    /\ at \in [Callers -> {"idle", "lock", "wait", "spin", "lost"}]
    /\ cexit \in [Clients -> BOOLEAN]
    /\ runs \in [1 .. MaxCalls -> Nat]

CallTypes ==
    /\ ackList \in [Clients -> Seq(AckMsgs)] /\ inHand \in [Clients -> Seq(AckMsgs)]
    /\ asked \in Seq([conn : Conns, caller : Callers, id : Ids])

ServerTypes == PcTypes /\ RegTypes /\ QueueTypes
Types == ConnTypes /\ StreamTypes /\ ServerTypes /\ ClientTypes /\ CallTypes

(* What close, connect, accept and a message do to the connections.        *)
LEMMA CloseServerTypes ==
    ASSUME StreamTypes, NEW S, CloseServer(S), down' = down
    PROVE  StreamTypes'
BY DEF CloseServer, StreamTypes

LEMMA SendDownTypes ==
    ASSUME StreamTypes, NEW S, NEW ms \in Seq(CbMsgs \cup AckMsgs), SendDown(S, ms)
    PROVE  down' \in [Conns -> Seq(CbMsgs \cup AckMsgs)]
<1>1. \A k \in Conns : down[k] \o ms \in Seq(CbMsgs \cup AckMsgs)
  BY RangeConcat DEF StreamTypes
<1> QED BY <1>1 DEF SendDown, StreamTypes

LEMMA CallMsgsAre == CbMsgs \cup AckMsgs \subseteq Msgs
BY DEF CbMsgs, AckMsgs, Msgs

LEMMA GotoTypes ==
    ASSUME PcTypes
    PROVE  /\ \A l \in {"listen", "accept", "gone"} : Goto("A", l) /\ UNCHANGED <<replying, exit, crashed>> => PcTypes'
           /\ \A l \in {"run", "gone"} : Goto("M", l) /\ UNCHANGED <<replying, exit, crashed>> => PcTypes'
           /\ \A l \in {"wait", "work", "gone"} : Goto("C", l) /\ UNCHANGED <<replying, exit, crashed>> => PcTypes'
           /\ \A l \in {"wait", "work", "gone"} : Goto("K", l) /\ UNCHANGED <<replying, exit, crashed>> => PcTypes'
           /\ \A l \in {"idle", "joinA", "joinK", "joinM", "joinC", "gone"} :
                 Goto("D", l) /\ exit' \in BOOLEAN /\ UNCHANGED <<replying, crashed>> => PcTypes'
BY DEF Goto, PcTypes

LEMMA InitTypes == Init => Types
<1> SUFFICES ASSUME Init PROVE Types
  OBVIOUS
<1> USE DEF Init
<1>1. ConnTypes
  <2>1. owner \in Seq(Clients) /\ Len(owner) <= MaxConns /\ backlog \in Seq(Conns)
    BY IpcAssumption DEF NetInit
  <2>2. listening \in BOOLEAN
    BY DEF NetInit
  <2>3. link \in [Conns -> Links \cup {NoLink}]
    BY DEF NetInit
  <2>4. clientEnd \subseteq DOMAIN owner /\ serverEnd \subseteq DOMAIN owner
    BY DEF NetInit
  <2> QED BY <2>1, <2>2, <2>3, <2>4 DEF ConnTypes
<1>2. StreamTypes
  BY DEF NetInit, StreamTypes
<1>3. PcTypes
  <2>1. <<>> \in Seq(Replies)
    OBVIOUS
  <2> QED BY <2>1 DEF SrvInit, PcTypes
<1>4. RegTypes
  BY DEF SrvInit, RegTypes
<1>5. QueueTypes
  BY IpcAssumption DEF SrvInit, QueueTypes, Queues, Range
<1>6. ClientTypes
  BY IpcAssumption DEF CliInit, ClientTypes
<1>7. CallTypes
  BY DEF CliInit, CallTypes
<1> QED BY <1>1, <1>2, <1>3, <1>4, <1>5, <1>6, <1>7 DEF Types, ServerTypes

LEMMA Unmoved ==
    /\ ConnTypes /\ UNCHANGED conns => ConnTypes'
    /\ StreamTypes /\ UNCHANGED streams => StreamTypes'
    /\ PcTypes /\ UNCHANGED <<pc, replying, exit, crashed>> => PcTypes'
    /\ RegTypes /\ UNCHANGED cbIds => RegTypes'
    /\ QueueTypes /\ UNCHANGED queues => QueueTypes'
    /\ ClientTypes /\ UNCHANGED <<conn, cpc, at, cexit, runs>> => ClientTypes'
    /\ CallTypes /\ UNCHANGED <<ackList, inHand, asked>> => CallTypes'
<1>1. ConnTypes /\ UNCHANGED conns => ConnTypes'
  BY DEF ConnTypes, conns
<1>2. StreamTypes /\ UNCHANGED streams => StreamTypes'
  BY DEF StreamTypes, streams
<1>3. PcTypes /\ UNCHANGED <<pc, replying, exit, crashed>> => PcTypes'
  BY DEF PcTypes
<1>4. RegTypes /\ UNCHANGED cbIds => RegTypes'
  BY DEF RegTypes
<1>5. QueueTypes /\ UNCHANGED queues => QueueTypes'
  BY DEF QueueTypes, queues
<1>6. ClientTypes /\ UNCHANGED <<conn, cpc, at, cexit, runs>> => ClientTypes'
  BY DEF ClientTypes
<1>7. CallTypes /\ UNCHANGED <<ackList, inHand, asked>> => CallTypes'
  BY DEF CallTypes
<1> QED BY <1>1, <1>2, <1>3, <1>4, <1>5, <1>6, <1>7

(* A connection counts among those made, and a listed link has an address. *)
LEMMA ConnFacts ==
    ASSUME ConnTypes
    PROVE  /\ MaxConns \in Nat /\ Len(owner) \in Nat /\ DOMAIN owner = 1 .. Len(owner)
           /\ \A k \in 1 .. Len(owner) : k \in Conns
           /\ \A k \in serverEnd \cup clientEnd : k \in 1 .. Len(owner) /\ k \in Conns
           /\ \A k \in Listed : k \in serverEnd /\ k \in Conns /\ link[k] \in Links
<1>1. MaxConns \in Nat /\ Len(owner) \in Nat /\ DOMAIN owner = 1 .. Len(owner) /\ Len(owner) <= MaxConns
  BY IpcAssumption DEF ConnTypes
<1>2. \A k \in 1 .. Len(owner) : k \in Conns
  BY <1>1 DEF Conns
<1>3. \A k \in serverEnd \cup clientEnd : k \in 1 .. Len(owner) /\ k \in Conns
  BY <1>1, <1>2 DEF ConnTypes
<1>4. \A k \in Listed : k \in serverEnd /\ k \in Conns /\ link[k] \in Links
  BY <1>3 DEF Listed, ConnTypes
<1> QED BY <1>1, <1>2, <1>3, <1>4

-----------------------------------------------------------------------------
(* The threads of the server.  A semaphore counts the items of its fifo    *)
(* until Destroy tells the threads; C and K hold an item exactly while     *)
(* they work on it; A has ended before Destroy goes on, K before the fifo  *)
(* of the answers is freed and M before the list of links is.              *)
TokenInv ==
    /\ \A q \in Queues : ~exit => sem[q] = Len(fifo[q])
    /\ \A q \in Queues : pc[q] = "work" <=> work[q] # <<>>
    /\ exit <=> pc["D"] \in {"joinK", "joinM", "joinC", "gone"}
    /\ pc["D"] \in {"joinK", "joinM", "joinC", "gone"} => pc["A"] = "gone"
    /\ AnswersFreed => pc["K"] = "gone"
    /\ ManagerFreed => pc["M"] = "gone"

LEMMA InitTokens == Init => TokenInv
BY DEF Init, SrvInit, TokenInv, Queues, AnswersFreed, ManagerFreed

LEMMA TokensUnmoved ==
    TokenInv /\ UNCHANGED <<pc, queues, exit>> => TokenInv'
BY DEF TokenInv, queues, AnswersFreed, ManagerFreed

(* Enqueueing an item keeps the types and the count.                       *)
LEMMA EnqueueKeeps ==
    ASSUME QueueTypes, PcTypes, TokenInv, NEW q \in Queues, NEW x, Enqueue(q, x),
           q = "C" => x \in Requests, q = "K" => x \in Replies,
           UNCHANGED <<pc, work, exit>>
    PROVE  QueueTypes' /\ TokenInv'
<1>1. FifoCap \in Nat
  BY IpcAssumption
<1>2. CASE Len(fifo[q]) < FifoCap
  <2>1. /\ fifo' = [fifo EXCEPT ![q] = Append(@, x)] /\ sem' = [sem EXCEPT ![q] = @ + 1]
        /\ x \in Requests \cup Replies
    BY <1>2 DEF Enqueue, Queues
  <2>2. /\ Append(fifo[q], x) \in Seq(Requests \cup Replies)
        /\ Range(Append(fifo[q], x)) = Range(fifo[q]) \cup {x}
        /\ Len(Append(fifo[q], x)) = Len(fifo[q]) + 1
    <3>1. fifo[q] \in Seq(Requests \cup Replies)
      BY DEF QueueTypes
    <3>2. Len(Append(fifo[q], x)) = Len(fifo[q]) + 1
      BY <3>1
    <3> QED BY <2>1, <3>1, <3>2, RangeAppend
  <2>3. /\ DOMAIN fifo = Queues /\ DOMAIN sem = Queues /\ fifo'[q] = Append(fifo[q], x)
        /\ sem'[q] = sem[q] + 1 /\ \A p \in Queues \ {q} : fifo'[p] = fifo[p] /\ sem'[p] = sem[p]
    BY <2>1 DEF QueueTypes
  <2>4. Len(fifo[q]) \in Nat /\ Len(fifo'[q]) <= FifoCap
    BY <1>1, <1>2, <2>2, <2>3 DEF QueueTypes
  <2>5. QueueTypes'
    <3>1. fifo' \in [Queues -> Seq(Requests \cup Replies)]
      BY <2>1, <2>2 DEF QueueTypes
    <3>2. sem' \in [Queues -> Nat]
      BY <2>1 DEF QueueTypes
    <3>3. Range(fifo'["C"]) \cup Range(work'["C"]) \subseteq Requests
      BY <2>2, <2>3 DEF QueueTypes, Queues
    <3>4. Range(fifo'["K"]) \cup Range(work'["K"]) \subseteq Replies
      BY <2>2, <2>3 DEF QueueTypes, Queues
    <3>5. \A p \in Queues : Len(fifo'[p]) <= FifoCap /\ Len(work'[p]) <= 1
      BY <2>3, <2>4 DEF QueueTypes
    <3> QED BY <3>1, <3>2, <3>3, <3>4, <3>5 DEF QueueTypes
  <2>6. \A p \in Queues : ~exit => sem'[p] = Len(fifo'[p])
    BY <2>2, <2>3 DEF TokenInv
  <2>7. TokenInv'
    BY <2>6 DEF TokenInv, AnswersFreed, ManagerFreed
  <2> QED BY <2>5, <2>7
<1>3. CASE ~(Len(fifo[q]) < FifoCap)
  BY <1>3, Unmoved, TokensUnmoved DEF Enqueue, queues
<1> QED BY <1>2, <1>3

(* A message is a registration, a request or an answer.                    *)
LEMMA MessageKinds ==
    ASSUME NEW m \in Msgs
    PROVE  /\ m.type = "cb" => m \in CbMsgs
           /\ m.type = "ack" => m \in AckMsgs
           /\ m.type = "cbid" => m.ids \in UNION {{x.ids} : x \in {y \in Msgs : y.type = "cbid"}}
<1>1. m.type = "cb" => m \in CbMsgs
  BY DEF Msgs, CbMsgs
<1>2. m.type = "ack" => m \in AckMsgs
  BY DEF Msgs, AckMsgs
<1>3. m.type = "cbid" => m.ids \in UNION {{x.ids} : x \in {y \in Msgs : y.type = "cbid"}}
  OBVIOUS
<1> QED BY <1>1, <1>2, <1>3

(* M's pass over a readable link.                                          *)
LEMMA ReadLinkKeeps ==
    ASSUME ConnTypes, StreamTypes, ServerTypes, TokenInv, NEW k \in Conns, ReadLink(k)
    PROVE  ConnTypes' /\ StreamTypes' /\ ServerTypes' /\ TokenInv'
<1> DEFINE m == Head(up[k])
<1>1. /\ k \in Listed /\ up[k] # <<>> /\ up' = [up EXCEPT ![k] = Tail(@)]
      /\ Request(k) \/ Registration(k)
      /\ UNCHANGED conns /\ UNCHANGED <<down, pc, work, replying, exit, crashed>>
  BY DEF ReadLink
<1>2. up[k] \in Seq(Msgs)
  BY DEF StreamTypes
<1>3. m \in Msgs /\ Tail(up[k]) \in Seq(Msgs)
  BY <1>1, <1>2, RangeTail
<1>4. StreamTypes'
  BY <1>1, <1>3 DEF StreamTypes
<1>5. ConnTypes' /\ PcTypes'
  BY <1>1, Unmoved DEF ServerTypes
<1>6. link[k] \in Links /\ "C" \in Queues /\ "K" \in Queues
  BY <1>1, ConnFacts DEF Queues
<1> HIDE DEF m
<1>7. CASE Request(k)
  <2>1. Enqueue("C", [from |-> link[k], msg |-> m]) /\ m \in CbMsgs /\ UNCHANGED cbIds
    BY <1>3, <1>7, MessageKinds DEF Request, m
  <2>2. [from |-> link[k], msg |-> m] \in Requests
    BY <1>6, <2>1 DEF Requests
  <2>3. QueueTypes' /\ TokenInv'
    BY <1>1, <1>6, <2>1, <2>2, EnqueueKeeps DEF ServerTypes
  <2> QED BY <1>4, <1>5, <2>1, <2>3, Unmoved DEF ServerTypes
<1>8. CASE Registration(k)
  <2>1. m.type = "cbid" /\ cbIds' = Append(cbIds, m.ids) /\ UNCHANGED <<fifo, sem>>
    BY <1>8 DEF Registration, m
  <2>2. RegTypes'
    BY <1>3, <2>1, MessageKinds DEF RegTypes, ServerTypes
  <2> QED BY <1>1, <1>4, <1>5, <2>1, <2>2, Unmoved, TokensUnmoved DEF ServerTypes, queues
<1> QED BY <1>1, <1>7, <1>8

(* An answer is in M's hands, then in the fifo, or lost with it.           *)
LEMMA ReplyKeeps ==
    ASSUME ConnTypes, StreamTypes, ServerTypes, TokenInv, NEW k \in Conns, Reply(k)
    PROVE  /\ ConnTypes' /\ StreamTypes' /\ ServerTypes' /\ TokenInv'
           /\ Head(up[k]) \in AckMsgs /\ Head(up[k]) \in Range(up[k])
           /\ Range(Tail(up[k])) \subseteq Range(up[k])
<1> DEFINE m == Head(up[k])
<1>1. /\ k \in Listed /\ up[k] # <<>> /\ m.type = "ack" /\ up' = [up EXCEPT ![k] = Tail(@)]
      /\ replying' = <<>> \/ replying' = <<[from |-> link[k], msg |-> m]>>
      /\ UNCHANGED conns /\ UNCHANGED <<down, pc, cbIds, exit, crashed>> /\ UNCHANGED queues
  BY DEF Reply
<1>2. up[k] \in Seq(Msgs)
  BY DEF StreamTypes
<1>3. m \in Msgs /\ Tail(up[k]) \in Seq(Msgs) /\ m \in Range(up[k]) /\ Range(Tail(up[k])) \subseteq Range(up[k])
  BY <1>1, <1>2, RangeTail
<1>4. StreamTypes'
  BY <1>1, <1>3 DEF StreamTypes
<1>5. link[k] \in Links /\ m \in AckMsgs
  BY <1>1, <1>3, ConnFacts, MessageKinds
<1> HIDE DEF m
<1>6. replying' \in Seq(Replies)
  <2>1. [from |-> link[k], msg |-> m] \in Replies
    BY <1>5 DEF Replies
  <2>2. PICK x : x = [from |-> link[k], msg |-> m]
    OBVIOUS
  <2>3. <<x>> \in Seq(Replies) /\ <<>> \in Seq(Replies)
    BY <2>1, <2>2
  <2> QED BY <1>1, <2>2, <2>3
<1>7. PcTypes'
  BY <1>1, <1>6 DEF ServerTypes, PcTypes
<1> QED BY <1>1, <1>3, <1>4, <1>5, <1>7, Unmoved, TokensUnmoved DEF ServerTypes, queues, m

LEMMA ReplyWriteKeeps ==
    ASSUME ConnTypes, StreamTypes, ServerTypes, TokenInv, ReplyWrite
    PROVE  /\ ConnTypes' /\ StreamTypes' /\ ServerTypes' /\ TokenInv'
           /\ Head(replying) \in Replies /\ Head(replying) \in Range(replying)
<1>1. /\ replying # <<>> /\ Enqueue("K", Head(replying)) /\ replying' = <<>>
      /\ UNCHANGED netVars /\ UNCHANGED <<pc, cbIds, work, exit, crashed>>
  BY DEF ReplyWrite, ListFree
<1>2. replying \in Seq(Replies)
  BY DEF ServerTypes, PcTypes
<1>3. Head(replying) \in Replies /\ Head(replying) \in Range(replying)
  BY <1>1, <1>2, RangeTail
<1>4. "K" \in Queues /\ "K" # "C"
  BY DEF Queues
<1>5. QueueTypes' /\ TokenInv'
  BY <1>1, <1>3, <1>4, EnqueueKeeps DEF ServerTypes
<1>6. PcTypes'
  BY <1>1 DEF ServerTypes, PcTypes
<1> QED BY <1>1, <1>3, <1>5, <1>6, Unmoved DEF ServerTypes, netVars, conns, streams

(* A semaphore that is taken, by C or by K.                                *)
LEMMA TakeKeeps ==
    ASSUME ConnTypes, StreamTypes, ServerTypes, TokenInv, NEW q \in Queues, Take(q)
    PROVE  ConnTypes' /\ StreamTypes' /\ ServerTypes' /\ TokenInv'
<1>1. /\ pc[q] = "wait" /\ sem[q] > 0 /\ sem' = [sem EXCEPT ![q] = @ - 1]
      /\ UNCHANGED netVars /\ UNCHANGED <<cbIds, replying, exit, crashed>>
  BY DEF Take, At
<1>2. ConnTypes' /\ StreamTypes' /\ RegTypes'
  BY <1>1, Unmoved DEF netVars, conns, streams, ServerTypes
<1>3. /\ sem \in [Queues -> Nat] /\ sem' \in [Queues -> Nat] /\ sem'[q] = sem[q] - 1
      /\ \A p \in Queues \ {q} : sem'[p] = sem[p]
  BY <1>1 DEF ServerTypes, QueueTypes
<1>4. CASE exit
  <2>1. Goto(q, "gone") /\ UNCHANGED <<fifo, work>>
    BY <1>4 DEF Take
  <2>2. PcTypes'
    BY <1>1, <2>1, GotoTypes DEF ServerTypes, Queues
  <2>3. QueueTypes'
    BY <1>3, <2>1 DEF ServerTypes, QueueTypes
  <2>4. /\ pc'[q] = "gone" /\ \A t \in {"A", "M", "C", "K", "D"} \ {q} : pc'[t] = pc[t]
    BY <2>1 DEF Goto, ServerTypes, PcTypes, Queues
  <2>5. TokenInv'
    <3>1. \A p \in Queues : pc'[p] = "work" <=> work'[p] # <<>>
      BY <1>1, <2>1, <2>4 DEF TokenInv, Queues
    <3>2. \A p \in Queues : pc'[p] = "gone" \/ pc'[p] = pc[p]
      BY <2>4 DEF Queues
    <3>3. pc'["D"] = pc["D"] /\ pc'["A"] = pc["A"] /\ pc'["M"] = pc["M"]
      BY <2>4 DEF Queues
    <3> QED BY <1>1, <1>4, <3>1, <3>2, <3>3 DEF TokenInv, AnswersFreed, ManagerFreed, Queues
  <2> QED BY <1>2, <2>2, <2>3, <2>5 DEF ServerTypes
<1>5. CASE ~exit
  <2>1. /\ work' = [work EXCEPT ![q] = IF fifo[q] = <<>> THEN @ ELSE <<Head(fifo[q])>>]
        /\ fifo' = [fifo EXCEPT ![q] = IF @ = <<>> THEN @ ELSE Tail(@)]
        /\ Goto(q, "work")
    BY <1>5 DEF Take
  <2>2. PcTypes'
    BY <1>1, <2>1, GotoTypes DEF ServerTypes, Queues
  <2>3. fifo[q] \in Seq(Requests \cup Replies) /\ sem[q] = Len(fifo[q]) /\ Len(fifo[q]) <= FifoCap
    BY <1>5 DEF ServerTypes, QueueTypes, TokenInv
  <2>4. fifo[q] # <<>>
    BY <1>1, <2>3
  <2>5. /\ Head(fifo[q]) \in Requests \cup Replies /\ Head(fifo[q]) \in Range(fifo[q])
        /\ Tail(fifo[q]) \in Seq(Requests \cup Replies)
        /\ Range(Tail(fifo[q])) \subseteq Range(fifo[q]) /\ Len(Tail(fifo[q])) = Len(fifo[q]) - 1
    BY <2>3, <2>4, RangeTail
  <2>6. /\ fifo'[q] = Tail(fifo[q]) /\ work'[q] = <<Head(fifo[q])>>
        /\ \A p \in Queues \ {q} : fifo'[p] = fifo[p] /\ work'[p] = work[p]
    BY <2>1, <2>4 DEF ServerTypes, QueueTypes
  <2>7. <<Head(fifo[q])>> \in Seq(Requests \cup Replies) /\ Range(<<Head(fifo[q])>>) = {Head(fifo[q])}
        /\ Len(<<Head(fifo[q])>>) = 1 /\ <<Head(fifo[q])>> # <<>>
    BY <2>5 DEF Range
  <2>8. QueueTypes'
    <3>1. fifo' \in [Queues -> Seq(Requests \cup Replies)] /\ work' \in [Queues -> Seq(Requests \cup Replies)]
      BY <2>1, <2>4, <2>5, <2>7 DEF ServerTypes, QueueTypes
    <3>2. Range(fifo'["C"]) \cup Range(work'["C"]) \subseteq Requests
      BY <2>5, <2>6, <2>7 DEF ServerTypes, QueueTypes, Queues
    <3>3. Range(fifo'["K"]) \cup Range(work'["K"]) \subseteq Replies
      BY <2>5, <2>6, <2>7 DEF ServerTypes, QueueTypes, Queues
    <3>4. Len(fifo'[q]) <= FifoCap /\ Len(work'[q]) <= 1
      <4>1. FifoCap \in Nat /\ Len(fifo[q]) \in Nat /\ Len(fifo'[q]) = Len(fifo[q]) - 1
        BY <2>3, <2>5, <2>6, IpcAssumption
      <4> QED BY <2>3, <2>6, <2>7, <4>1
    <3>5. \A p \in Queues : Len(fifo'[p]) <= FifoCap /\ Len(work'[p]) <= 1
      BY <2>6, <3>4 DEF ServerTypes, QueueTypes
    <3> QED BY <1>3, <3>1, <3>2, <3>3, <3>5 DEF QueueTypes
  <2>9. pc'[q] = "work" /\ \A t \in {"A", "M", "C", "K", "D"} \ {q} : pc'[t] = pc[t]
    BY <2>1 DEF Goto, ServerTypes, PcTypes, Queues
  <2>10. TokenInv'
    <3>1. \A p \in Queues : pc'[p] = "work" <=> work'[p] # <<>>
      BY <2>6, <2>7, <2>9 DEF TokenInv, Queues
    <3>2. sem'[q] = Len(fifo'[q])
      BY <1>3, <2>3, <2>5, <2>6
    <3>3. \A p \in Queues : ~exit' => sem'[p] = Len(fifo'[p])
      BY <1>1, <1>3, <2>6, <3>2 DEF TokenInv
    <3>4. pc'["D"] = pc["D"] /\ pc'["A"] = pc["A"] /\ pc'["M"] = pc["M"]
      BY <2>9 DEF Queues
    <3>5. ~AnswersFreed' \/ pc'["K"] = "gone"
      BY <1>1, <2>9, <3>4 DEF TokenInv, AnswersFreed, ManagerFreed, Queues
    <3> QED BY <1>1, <3>1, <3>3, <3>4, <3>5 DEF TokenInv, AnswersFreed, ManagerFreed
  <2> QED BY <1>2, <2>2, <2>8, <2>10 DEF ServerTypes
<1> QED BY <1>4, <1>5

(* What C holds, what K holds, and how often C forwards it.                *)
LEMMA Taken ==
    ASSUME ServerTypes, TokenInv
    PROVE  /\ pc["C"] = "work" => Head(work["C"]) \in Requests /\ Head(work["C"]) \in Range(work["C"])
           /\ pc["K"] = "work" => Head(work["K"]) \in Replies /\ Head(work["K"]) \in Range(work["K"])
<1>1. "C" \in Queues /\ "K" \in Queues
  BY DEF Queues
<1>2. \A q \in Queues : work[q] \in Seq(Requests \cup Replies) /\ (pc[q] = "work" => work[q] # <<>>)
  BY DEF ServerTypes, QueueTypes, TokenInv
<1>3. \A q \in Queues : pc[q] = "work" => Head(work[q]) \in Range(work[q])
  BY <1>2, RangeTail
<1> QED BY <1>1, <1>3 DEF ServerTypes, QueueTypes

LEMMA RegistrationsFinite ==
    ASSUME RegTypes, NEW id
    PROVE  Cardinality(Registrations(id)) \in Nat
<1>1. DOMAIN cbIds = 1 .. Len(cbIds) /\ Len(cbIds) \in Nat
  BY DEF RegTypes
<1>2. IsFiniteSet(1 .. Len(cbIds))
  BY <1>1, FS_Interval
<1>3. IsFiniteSet(Registrations(id))
  BY <1>1, <1>2, FS_Subset DEF Registrations
<1> QED BY <1>3, FS_CardinalityType

Forwarded(item) == [i \in 1 .. Cardinality(Registrations(item.msg.id)) |->
                       [item.msg EXCEPT !.link = item.from]]

LEMMA ForwardedIs ==
    ASSUME RegTypes, NEW item \in Requests
    PROVE  /\ Forwarded(item) \in Seq(CbMsgs \cup AckMsgs)
           /\ \A m \in Range(Forwarded(item)) :
                 m \in CbMsgs /\ m.link = item.from /\ m.req = item.msg.req /\ m.id = item.msg.id
<1>1. /\ item.from \in Links /\ item.msg \in CbMsgs
      /\ Cardinality(Registrations(item.msg.id)) \in Nat
  BY RegistrationsFinite DEF Requests
<1> DEFINE m == [item.msg EXCEPT !.link = item.from]
<1>2. m \in CbMsgs /\ m.link = item.from /\ m.req = item.msg.req /\ m.id = item.msg.id
  BY <1>1 DEF CbMsgs
<1> HIDE DEF m
<1>3. Forwarded(item) = [i \in 1 .. Cardinality(Registrations(item.msg.id)) |-> m]
  BY DEF Forwarded, m
<1> QED BY <1>1, <1>2, <1>3 DEF Range

(* C or K has written its item to the links it is for.                     *)
LEMMA WrittenKeeps ==
    ASSUME ConnTypes, StreamTypes, ServerTypes, TokenInv, NEW q \in Queues, pc[q] = "work",
           NEW S, NEW ms \in Seq(CbMsgs \cup AckMsgs), SendDown(S, ms),
           work' = [work EXCEPT ![q] = <<>>], Goto(q, IF exit THEN "gone" ELSE "wait"),
           UNCHANGED <<conns, up, cbIds, fifo, sem, replying, exit, crashed>>
    PROVE  ConnTypes' /\ StreamTypes' /\ ServerTypes' /\ TokenInv'
<1>1. ConnTypes' /\ RegTypes'
  BY Unmoved DEF ServerTypes
<1>2. StreamTypes'
  BY SendDownTypes DEF StreamTypes
<1>3. PcTypes'
  BY GotoTypes DEF ServerTypes, Queues
<1>4. /\ work'[q] = <<>> /\ \A p \in Queues \ {q} : work'[p] = work[p]
  BY DEF ServerTypes, QueueTypes
<1>5. QueueTypes'
  <2>1. work' \in [Queues -> Seq(Requests \cup Replies)]
    BY DEF ServerTypes, QueueTypes
  <2>2. Range(<<>>) = {} /\ Len(<<>>) = 0
    BY DEF Range
  <2>3. \A p \in Queues : Range(work'[p]) \subseteq Range(work[p]) /\ Len(work'[p]) <= 1
    BY <1>4, <2>2 DEF ServerTypes, QueueTypes
  <2>4. "C" \in Queues /\ "K" \in Queues
    BY DEF Queues
  <2> QED BY <2>1, <2>3, <2>4 DEF ServerTypes, QueueTypes
<1>6. /\ pc'[q] = "gone" \/ pc'[q] = "wait"
      /\ \A t \in {"A", "M", "C", "K", "D"} \ {q} : pc'[t] = pc[t]
  BY DEF Goto, ServerTypes, PcTypes, Queues
<1>7. TokenInv'
  <2>1. \A p \in Queues : pc'[p] = "work" <=> work'[p] # <<>>
    BY <1>4, <1>6 DEF TokenInv, Queues
  <2>2. pc'["D"] = pc["D"] /\ pc'["A"] = pc["A"] /\ pc'["M"] = pc["M"]
    BY <1>6 DEF Queues
  <2>3. ~AnswersFreed' \/ pc'["K"] = "gone"
    BY <1>6, <2>2 DEF TokenInv, AnswersFreed, ManagerFreed, Queues
  <2> QED BY <2>1, <2>2, <2>3 DEF TokenInv, AnswersFreed, ManagerFreed
<1> QED BY <1>1, <1>2, <1>3, <1>5, <1>7 DEF ServerTypes

LEMMA ForwardKeeps ==
    ASSUME ConnTypes, StreamTypes, ServerTypes, TokenInv, Forward
    PROVE  ConnTypes' /\ StreamTypes' /\ ServerTypes' /\ TokenInv'
<1>1. pc["C"] = "work" /\ "C" \in Queues /\ Head(work["C"]) \in Requests
  BY Taken DEF Forward, At, Queues
<1>2. /\ SendDown({k \in Listed : link[k] # Head(work["C"]).from}, Forwarded(Head(work["C"])))
      /\ work' = [work EXCEPT !["C"] = <<>>] /\ Goto("C", IF exit THEN "gone" ELSE "wait")
      /\ UNCHANGED <<conns, up, cbIds, fifo, sem, replying, exit, crashed>>
  BY DEF Forward, Forwarded
<1>3. Forwarded(Head(work["C"])) \in Seq(CbMsgs \cup AckMsgs)
  BY <1>1, ForwardedIs DEF ServerTypes
<1> QED BY <1>1, <1>2, <1>3, WrittenKeeps

LEMMA AnswerKeeps ==
    ASSUME ConnTypes, StreamTypes, ServerTypes, TokenInv, Answer
    PROVE  ConnTypes' /\ StreamTypes' /\ ServerTypes' /\ TokenInv'
<1>1. pc["K"] = "work" /\ "K" \in Queues /\ Head(work["K"]) \in Replies
  BY Taken DEF Answer, At, Queues
<1>2. /\ SendDown(Answered(Head(work["K"])), <<Head(work["K"]).msg>>)
      /\ work' = [work EXCEPT !["K"] = <<>>] /\ Goto("K", IF exit THEN "gone" ELSE "wait")
      /\ UNCHANGED <<conns, up, cbIds, fifo, sem, replying, exit, crashed>>
  BY DEF Answer
<1>3. <<Head(work["K"]).msg>> \in Seq(CbMsgs \cup AckMsgs)
  BY <1>1 DEF Replies
<1> QED BY <1>1, <1>2, <1>3, WrittenKeeps

(* A, the links it makes and the links M drops.                            *)
LEMMA AcceptKeeps ==
    ASSUME ConnTypes, StreamTypes, ServerTypes, TokenInv, AcceptStep
    PROVE  ConnTypes' /\ StreamTypes' /\ ServerTypes' /\ TokenInv'
<1>1. CASE Listen
  <2>1. /\ pc["A"] = "listen" /\ listening' = TRUE /\ Goto("A", "accept")
        /\ UNCHANGED <<owner, backlog, link, clientEnd, serverEnd>> /\ UNCHANGED streams
        /\ UNCHANGED cbIds /\ UNCHANGED queues /\ UNCHANGED <<replying, exit, crashed>>
    BY <1>1 DEF Listen, At
  <2>2. ConnTypes'
    <3>1. listening' \in BOOLEAN
      BY <2>1
    <3> QED BY <2>1, <3>1 DEF ConnTypes
  <2>3. StreamTypes' /\ ServerTypes'
    BY <2>1, Unmoved, GotoTypes DEF ServerTypes
  <2>4. pc'["A"] = "accept" /\ \A t \in {"M", "C", "K", "D"} : pc'[t] = pc[t]
    BY <2>1 DEF Goto, ServerTypes, PcTypes
  <2>5. TokenInv'
    BY <2>1, <2>4 DEF TokenInv, AnswersFreed, ManagerFreed, queues, Queues
  <2> QED BY <2>2, <2>3, <2>5
<1>2. CASE Accept
  <2>1. AcceptOldest /\ UNCHANGED <<owner, listening, clientEnd, serverEnd>> /\ UNCHANGED streams
        /\ UNCHANGED srvVars
    BY <1>2 DEF Accept
  <2>2. ServerTypes' /\ StreamTypes' /\ TokenInv'
    BY <2>1, Unmoved, TokensUnmoved DEF ServerTypes, srvVars, queues
  <2>3. backlog # <<>> /\ backlog \in Seq(Conns) /\ backlog' = Tail(backlog)
    BY <2>1 DEF AcceptOldest, ConnTypes
  <2>4. Head(backlog) \in Conns /\ backlog' \in Seq(Conns)
    BY <2>3
  <2>5. \E h \in Links : link' = [link EXCEPT ![Head(backlog)] = h]
    <3>1. PICK h \in ({link[j] : j \in Conns \ serverEnd} \ ({link[j] : j \in serverEnd} \cup {NoLink}))
                        \cup (IF Head(backlog) \in Range(link) THEN {} ELSE {Head(backlog)}) :
                link' = [link EXCEPT ![Head(backlog)] = h]
      BY <2>1 DEF AcceptOldest
    <3>2. h \in Links
      BY <2>4 DEF ConnTypes, Links
    <3> QED BY <3>1, <3>2
  <2>6. link' \in [Conns -> Links \cup {NoLink}]
    BY <2>5 DEF ConnTypes
  <2>7. ConnTypes'
    <3>1. listening' \in BOOLEAN
      BY <2>1 DEF ConnTypes
    <3> QED BY <2>1, <2>4, <2>6, <3>1 DEF ConnTypes
  <2> QED BY <2>2, <2>7
<1>3. CASE AcceptStop
  <2>1. /\ Goto("A", "gone") /\ UNCHANGED netVars /\ UNCHANGED cbIds /\ UNCHANGED queues
        /\ UNCHANGED <<replying, exit, crashed>>
    BY <1>3 DEF AcceptStop
  <2>2. ConnTypes' /\ StreamTypes' /\ ServerTypes'
    BY <2>1, Unmoved, GotoTypes DEF ServerTypes, netVars, conns, streams
  <2>3. pc'["A"] = "gone" /\ \A t \in {"M", "C", "K", "D"} : pc'[t] = pc[t]
    BY <2>1 DEF Goto, ServerTypes, PcTypes
  <2>4. TokenInv'
    BY <2>1, <2>3 DEF TokenInv, AnswersFreed, ManagerFreed, queues, Queues
  <2> QED BY <2>2, <2>4
<1> QED BY <1>1, <1>2, <1>3 DEF AcceptStep

LEMMA CloseServerKeeps ==
    ASSUME ConnTypes, StreamTypes, NEW S, CloseServer(S), backlog' = backlog \/ backlog' = <<>>,
           listening' = listening \/ listening' = FALSE,
           UNCHANGED <<owner, link, clientEnd, down>>
    PROVE  ConnTypes' /\ StreamTypes'
<1>1. StreamTypes'
  BY CloseServerTypes
<1>2. backlog' \in Seq(Conns)
  <2>1. backlog \in Seq(Conns) /\ <<>> \in Seq(Conns)
    BY DEF ConnTypes
  <2> QED BY <2>1
<1>3. listening' \in BOOLEAN
  BY DEF ConnTypes
<1>4. serverEnd' \subseteq DOMAIN owner
  BY DEF ConnTypes, CloseServer
<1> QED BY <1>1, <1>2, <1>3, <1>4 DEF ConnTypes

LEMMA ReadKeeps ==
    ASSUME ConnTypes, StreamTypes, ServerTypes, TokenInv, ReadStep
    PROVE  ConnTypes' /\ StreamTypes' /\ ServerTypes' /\ TokenInv'
<1>1. CASE ReadStop
  <2>1. /\ Goto("M", "gone") /\ UNCHANGED netVars /\ UNCHANGED cbIds /\ UNCHANGED queues
        /\ UNCHANGED <<replying, exit, crashed>>
    BY <1>1 DEF ReadStop
  <2>2. ConnTypes' /\ StreamTypes' /\ ServerTypes'
    BY <2>1, Unmoved, GotoTypes DEF ServerTypes, netVars, conns, streams
  <2>3. pc'["M"] = "gone" /\ \A t \in {"A", "C", "K", "D"} : pc'[t] = pc[t]
    BY <2>1 DEF Goto, ServerTypes, PcTypes
  <2>4. TokenInv'
    BY <2>1, <2>3 DEF TokenInv, AnswersFreed, ManagerFreed, queues, Queues
  <2> QED BY <2>2, <2>4
<1>2. ASSUME NEW k \in Conns, DropLink(k) PROVE ConnTypes' /\ StreamTypes' /\ ServerTypes' /\ TokenInv'
  <2>1. CloseServer({k}) /\ UNCHANGED <<owner, backlog, listening, link, clientEnd, down>> /\ UNCHANGED srvVars
    BY <1>2 DEF DropLink
  <2>2. ConnTypes' /\ StreamTypes'
    BY <2>1, CloseServerKeeps
  <2>3. ServerTypes' /\ TokenInv'
    BY <2>1, Unmoved, TokensUnmoved DEF ServerTypes, srvVars, queues
  <2> QED BY <2>2, <2>3
<1>3. CASE ReplyFreed
  <2>1. /\ UNCHANGED <<owner, backlog, listening, link, clientEnd, down>>
        /\ UNCHANGED <<pc, cbIds, exit>> /\ UNCHANGED queues
        /\ \/ replying' = <<>> /\ UNCHANGED <<serverEnd, up, crashed>>
           \/ crashed' = TRUE /\ CloseServer(serverEnd) /\ UNCHANGED replying
    BY <1>3 DEF ReplyFreed
  <2>2. ConnTypes' /\ StreamTypes'
    <3>1. CASE UNCHANGED <<serverEnd, up>>
      BY <2>1, <3>1, Unmoved DEF conns, streams
    <3>2. CASE CloseServer(serverEnd)
      BY <2>1, <3>2, CloseServerKeeps
    <3> QED BY <2>1, <3>1, <3>2
  <2>3. PcTypes'
    <3>1. <<>> \in Seq(Replies)
      OBVIOUS
    <3> QED BY <2>1, <3>1 DEF ServerTypes, PcTypes
  <2> QED BY <2>1, <2>2, <2>3, Unmoved, TokensUnmoved DEF ServerTypes, queues
<1> QED BY <1>1, <1>2, <1>3, ReadLinkKeeps, ReplyKeeps, ReplyWriteKeeps DEF ReadStep

(* Destroy.                                                                *)
LEMMA DestroyBeginKeeps ==
    ASSUME ConnTypes, StreamTypes, ServerTypes, TokenInv, DestroyBegin
    PROVE  ConnTypes' /\ StreamTypes' /\ ServerTypes' /\ TokenInv'
<1>1. /\ pc["D"] = "idle" /\ Goto("D", "joinA") /\ UNCHANGED netVars /\ UNCHANGED cbIds
      /\ UNCHANGED queues /\ UNCHANGED <<replying, exit, crashed>>
  BY DEF DestroyBegin, At
<1>2. exit' \in BOOLEAN
  BY <1>1 DEF ServerTypes, PcTypes
<1>3. ConnTypes' /\ StreamTypes' /\ ServerTypes'
  BY <1>1, <1>2, Unmoved, GotoTypes DEF ServerTypes, netVars, conns, streams
<1>4. pc'["D"] = "joinA" /\ \A t \in {"A", "M", "C", "K"} : pc'[t] = pc[t]
  BY <1>1 DEF Goto, ServerTypes, PcTypes
<1>5. TokenInv'
  BY <1>1, <1>4 DEF TokenInv, AnswersFreed, ManagerFreed, queues, Queues
<1> QED BY <1>3, <1>5

(* One more post does not change what a semaphore counts once exit is set. *)
LEMMA PostKeeps ==
    ASSUME QueueTypes, NEW q \in Queues, sem' = [sem EXCEPT ![q] = @ + 1], UNCHANGED <<fifo, work>>
    PROVE  QueueTypes'
<1>1. sem' \in [Queues -> Nat]
  BY DEF QueueTypes
<1> QED BY <1>1 DEF QueueTypes

LEMMA StopKeeps ==
    ASSUME ConnTypes, StreamTypes, ServerTypes, TokenInv, StopStep
    PROVE  ConnTypes' /\ StreamTypes' /\ ServerTypes' /\ TokenInv'
<1>0. "C" \in Queues /\ "K" \in Queues
  BY DEF Queues
<1>1. CASE StopListening
  <2>1. /\ pc["D"] = "joinA" /\ pc["A"] = "gone" /\ listening' = FALSE /\ backlog' = <<>>
        /\ CloseServer(Range(backlog)) /\ exit' = TRUE /\ sem' = [sem EXCEPT !["K"] = @ + 1]
        /\ Goto("D", "joinK")
        /\ UNCHANGED <<owner, link, clientEnd, down>> /\ UNCHANGED <<cbIds, fifo, work, replying, crashed>>
    BY <1>1 DEF StopListening, At
  <2>2. ConnTypes' /\ StreamTypes'
    BY <2>1, CloseServerKeeps
  <2>3. exit' \in BOOLEAN
    BY <2>1
  <2>4. ServerTypes'
    BY <1>0, <2>1, <2>3, PostKeeps, Unmoved, GotoTypes DEF ServerTypes
  <2>5. pc'["D"] = "joinK" /\ \A t \in {"A", "M", "C", "K"} : pc'[t] = pc[t]
    BY <2>1 DEF Goto, ServerTypes, PcTypes
  <2>6. TokenInv'
    BY <2>1, <2>5 DEF TokenInv, AnswersFreed, ManagerFreed, Queues
  <2> QED BY <2>2, <2>4, <2>6
<1>2. CASE FreeManager
  <2>1. /\ pc["D"] = "joinM" /\ pc["M"] = "gone"
        /\ CloseServer(Listed) /\ sem' = [sem EXCEPT !["C"] = @ + 1] /\ Goto("D", "joinC")
        /\ UNCHANGED <<owner, backlog, listening, link, clientEnd, down>>
        /\ UNCHANGED <<cbIds, fifo, work, replying, exit, crashed>>
    BY <1>2 DEF FreeManager, At
  <2>2. ConnTypes' /\ StreamTypes'
    BY <2>1, CloseServerKeeps
  <2>3. exit' \in BOOLEAN
    BY <2>1 DEF ServerTypes, PcTypes
  <2>4. ServerTypes'
    BY <1>0, <2>1, <2>3, PostKeeps, Unmoved, GotoTypes DEF ServerTypes
  <2>5. pc'["D"] = "joinC" /\ \A t \in {"A", "M", "C", "K"} : pc'[t] = pc[t]
    BY <2>1 DEF Goto, ServerTypes, PcTypes
  <2>6. TokenInv'
    <3>1. \A q \in Queues : pc'[q] = "work" <=> work'[q] # <<>>
      BY <2>1, <2>5 DEF TokenInv, Queues
    <3> QED BY <2>1, <2>5, <3>1 DEF TokenInv, AnswersFreed, ManagerFreed
  <2> QED BY <2>2, <2>4, <2>6
<1>3. CASE JoinC
  <2>1. /\ pc["D"] = "joinC" /\ Goto("D", "gone") /\ UNCHANGED netVars /\ UNCHANGED cbIds
        /\ UNCHANGED queues /\ UNCHANGED <<replying, exit, crashed>>
    BY <1>3 DEF JoinC, At
  <2>2. exit' \in BOOLEAN
    BY <2>1 DEF ServerTypes, PcTypes
  <2>3. ConnTypes' /\ StreamTypes' /\ ServerTypes'
    BY <2>1, <2>2, Unmoved, GotoTypes DEF ServerTypes, netVars, conns, streams
  <2>4. pc'["D"] = "gone" /\ \A t \in {"A", "M", "C", "K"} : pc'[t] = pc[t]
    BY <2>1 DEF Goto, ServerTypes, PcTypes
  <2>5. TokenInv'
    BY <2>1, <2>4 DEF TokenInv, AnswersFreed, ManagerFreed, queues, Queues
  <2> QED BY <2>3, <2>5
<1>4. CASE FreeAnswers
  <2>1. /\ pc["D"] = "joinK" /\ pc["K"] = "gone" /\ fifo' = [fifo EXCEPT !["K"] = <<>>]
        /\ Goto("D", "joinM") /\ UNCHANGED netVars /\ UNCHANGED <<cbIds, sem, work, replying, exit, crashed>>
    BY <1>4 DEF FreeAnswers, At
  <2>2. exit' \in BOOLEAN
    BY <2>1 DEF ServerTypes, PcTypes
  <2>3. fifo'["K"] = <<>> /\ fifo'["C"] = fifo["C"] /\ fifo' \in [Queues -> Seq(Requests \cup Replies)]
    BY <1>0, <2>1 DEF ServerTypes, QueueTypes, Queues
  <2>4. QueueTypes'
    <3>1. Range(<<>>) = {} /\ Len(<<>>) = 0 /\ 0 <= FifoCap
      BY IpcAssumption DEF Range
    <3>2. \A q \in Queues : Len(fifo'[q]) <= FifoCap
      BY <2>3, <3>1 DEF ServerTypes, QueueTypes, Queues
    <3> QED BY <2>1, <2>3, <3>1, <3>2 DEF ServerTypes, QueueTypes
  <2>5. ConnTypes' /\ StreamTypes' /\ PcTypes' /\ RegTypes'
    BY <2>1, <2>2, Unmoved, GotoTypes DEF ServerTypes, netVars, conns, streams
  <2>6. pc'["D"] = "joinM" /\ \A t \in {"A", "M", "C", "K"} : pc'[t] = pc[t]
    BY <2>1 DEF Goto, ServerTypes, PcTypes
  <2>7. TokenInv'
    BY <2>1, <2>6 DEF TokenInv, AnswersFreed, ManagerFreed, Queues
  <2> QED BY <2>4, <2>5, <2>7 DEF ServerTypes
<1> QED BY <1>1, <1>2, <1>3, <1>4 DEF StopStep

LEMMA ServerKeeps ==
    ASSUME ConnTypes, StreamTypes, ServerTypes, TokenInv, ServerStep
    PROVE  ConnTypes' /\ StreamTypes' /\ ServerTypes' /\ TokenInv'
<1>1. CASE ForwardFreed
  <2>1. /\ crashed' = TRUE /\ UNCHANGED netVars /\ UNCHANGED pc /\ UNCHANGED cbIds
        /\ UNCHANGED queues /\ UNCHANGED <<replying, exit>>
    BY <1>1 DEF ForwardFreed
  <2>2. crashed' \in BOOLEAN
    BY <2>1
  <2>3. PcTypes'
    BY <2>1, <2>2 DEF ServerTypes, PcTypes
  <2> QED BY <2>1, <2>3, Unmoved, TokensUnmoved DEF ServerTypes, netVars, conns, streams
<1>2. "C" \in Queues /\ "K" \in Queues
  BY DEF Queues
<1>3. CASE CbStep
  BY <1>1, <1>2, <1>3, TakeKeeps, ForwardKeeps DEF CbStep
<1>4. CASE AckStep
  BY <1>2, <1>4, TakeKeeps, AnswerKeeps DEF AckStep
<1> QED BY <1>3, <1>4, AcceptKeeps, ReadKeeps, StopKeeps DEF ServerStep

-----------------------------------------------------------------------------
(* The clients.  What they send has the type of a message.                 *)
LEMMA SendUpTypes ==
    ASSUME ConnTypes, StreamTypes, NEW k, NEW m \in Msgs, SendUp(k, m)
    PROVE  up' \in [Conns -> Seq(Msgs)]
<1>1. CASE k \in clientEnd \cap serverEnd
  <2>1. k \in Conns /\ up' = [up EXCEPT ![k] = Append(@, m)] /\ up \in [Conns -> Seq(Msgs)]
    BY <1>1, ConnFacts DEF SendUp, StreamTypes
  <2>2. Append(up[k], m) \in Seq(Msgs)
    BY <2>1
  <2> QED BY <2>1, <2>2
<1>2. CASE ~(k \in clientEnd \cap serverEnd)
  BY <1>2 DEF SendUp, StreamTypes
<1> QED BY <1>1, <1>2

LEMMA CGotoTypes ==
    ASSUME ClientTypes, NEW c \in Clients, UNCHANGED <<conn, at, cexit, runs>>
    PROVE  /\ \A l \in {"connect", "register", "gone"} : CGoto(c, "N", l) => ClientTypes'
           /\ \A l \in {"run", "gone"} : CGoto(c, "H", l) => ClientTypes'
           /\ \A l \in {"idle", "joinH", "gone"} : CGoto(c, "D", l) => ClientTypes'
<1> DEFINE P == [N : {"connect", "register", "gone"}, H : {"run", "gone"}, D : {"idle", "joinH", "gone"}]
<1>1. cpc \in [Clients -> P]
  BY DEF ClientTypes
<1>2. \A l \in {"connect", "register", "gone"} : CGoto(c, "N", l) => cpc' \in [Clients -> P]
  BY <1>1 DEF CGoto
<1>3. \A l \in {"run", "gone"} : CGoto(c, "H", l) => cpc' \in [Clients -> P]
  BY <1>1 DEF CGoto
<1>4. \A l \in {"idle", "joinH", "gone"} : CGoto(c, "D", l) => cpc' \in [Clients -> P]
  BY <1>1 DEF CGoto
<1>5. cpc' \in [Clients -> P] => ClientTypes'
  BY DEF ClientTypes
<1> HIDE DEF P
<1> QED BY <1>2, <1>3, <1>4, <1>5

LEMMA ConnectTypes ==
    ASSUME Types, NEW c \in Clients, ConnectStep(c)
    PROVE  ConnTypes' /\ StreamTypes' /\ ClientTypes' /\ CallTypes'
<1>1. CASE Connected(c)
  <2> DEFINE n == Len(owner) + 1
  <2>1. /\ listening /\ Len(owner) < MaxConns /\ owner' = Append(owner, c)
        /\ backlog' = Append(backlog, n) /\ clientEnd' = clientEnd \cup {n}
        /\ serverEnd' = serverEnd \cup {n} /\ conn' = [conn EXCEPT ![c] = n]
        /\ CGoto(c, "N", IF Offers[c] = {} THEN "gone" ELSE "register")
        /\ UNCHANGED <<listening, link>> /\ UNCHANGED streams
        /\ UNCHANGED <<ackList, inHand, cexit, runs, at, asked>>
    BY <1>1 DEF Connected, Connect, calls
  <2>2. /\ Len(owner) \in Nat /\ MaxConns \in Nat /\ n \in 1 .. MaxConns
        /\ DOMAIN owner = 1 .. Len(owner) /\ Len(owner') = n /\ DOMAIN owner' = 1 .. n
        /\ owner' \in Seq(Clients)
    BY <2>1, ConnFacts DEF Types, ConnTypes
  <2> HIDE DEF n
  <2>3. backlog' \in Seq(Conns)
    BY <2>1, <2>2 DEF Types, ConnTypes, Conns
  <2>4. clientEnd' \subseteq DOMAIN owner' /\ serverEnd' \subseteq DOMAIN owner'
    BY <2>1, <2>2 DEF Types, ConnTypes, n
  <2>5. ConnTypes'
    <3>1. listening' \in BOOLEAN
      BY <2>1 DEF Types, ConnTypes
    <3>2. Len(owner') <= MaxConns
      BY <2>2
    <3> QED BY <2>1, <2>2, <2>3, <2>4, <3>1, <3>2 DEF Types, ConnTypes
  <2>6. ClientTypes'
    <3>1. conn' \in [Clients -> 0 .. MaxConns]
      <4>1. n \in 0 .. MaxConns
        BY <2>2
      <4> QED BY <2>1, <4>1 DEF Types, ClientTypes
    <3>2. \E l \in {"connect", "register", "gone"} : CGoto(c, "N", l)
      BY <2>1
    <3>3. cpc' \in [Clients -> [N : {"connect", "register", "gone"}, H : {"run", "gone"},
                                D : {"idle", "joinH", "gone"}]]
      BY <3>2, SMTT(40) DEF CGoto, Types, ClientTypes
    <3> QED BY <2>1, <3>1, <3>3 DEF Types, ClientTypes
  <2> QED BY <2>1, <2>5, <2>6, Unmoved DEF Types
<1>2. CASE ConnectFailed(c)
  <2>1. CGoto(c, "N", "gone") /\ UNCHANGED netVars /\ UNCHANGED <<conn, ackList, inHand, cexit, runs, at, asked>>
    BY <1>2 DEF ConnectFailed, calls
  <2> QED BY <2>1, CGotoTypes, Unmoved DEF Types, netVars, conns, streams
<1>3. CASE Register(c)
  <2>1. /\ SendUp(conn[c], [type |-> "cbid", ids |-> Offers[c]]) /\ CGoto(c, "N", "gone")
        /\ UNCHANGED conns /\ UNCHANGED <<down, conn, ackList, inHand, cexit, runs, at, asked>>
    BY <1>3 DEF Register, calls
  <2>2. [type |-> "cbid", ids |-> Offers[c]] \in Msgs
    BY IpcAssumption DEF Msgs
  <2>3. StreamTypes'
    BY <2>1, <2>2, SendUpTypes DEF Types, StreamTypes
  <2> QED BY <2>1, <2>3, CGotoTypes, Unmoved DEF Types
<1> QED BY <1>1, <1>2, <1>3 DEF ConnectStep

(* What H finds: the next message from the server.                         *)
LEMMA ArrivedIs ==
    ASSUME Types, NEW c \in Clients, NEW type, Arrived(c, type)
    PROVE  /\ conn[c] \in Conns /\ down[conn[c]] # <<>>
           /\ Head(down[conn[c]]) \in CbMsgs \cup AckMsgs
           /\ Head(down[conn[c]]) \in Range(down[conn[c]])
           /\ Range(Tail(down[conn[c]])) \subseteq Range(down[conn[c]])
           /\ type = "cb" => Head(down[conn[c]]) \in CbMsgs
           /\ type = "ack" => Head(down[conn[c]]) \in AckMsgs
           /\ down' = [down EXCEPT ![conn[c]] = Tail(@)]
           /\ down' \in [Conns -> Seq(CbMsgs \cup AckMsgs)]
<1>1. /\ conn[c] # 0 /\ down[conn[c]] # <<>> /\ Head(down[conn[c]]).type = type
      /\ down' = [down EXCEPT ![conn[c]] = Tail(@)]
  BY DEF Arrived, Reads
<1>2. conn[c] \in Conns
  BY <1>1, IpcAssumption DEF Types, ClientTypes, Conns
<1>3. down[conn[c]] \in Seq(CbMsgs \cup AckMsgs)
  BY <1>2 DEF Types, StreamTypes
<1>4. /\ Head(down[conn[c]]) \in CbMsgs \cup AckMsgs /\ Tail(down[conn[c]]) \in Seq(CbMsgs \cup AckMsgs)
      /\ Head(down[conn[c]]) \in Range(down[conn[c]])
      /\ Range(Tail(down[conn[c]])) \subseteq Range(down[conn[c]])
  BY <1>1, <1>3, RangeTail
<1>5. down' \in [Conns -> Seq(CbMsgs \cup AckMsgs)]
  BY <1>1, <1>4 DEF Types, StreamTypes
<1> QED BY <1>1, <1>2, <1>4, <1>5 DEF CbMsgs, AckMsgs

LEMMA HandleTypes ==
    ASSUME Types, NEW c \in Clients, HandleStep(c)
    PROVE  ConnTypes' /\ StreamTypes' /\ ClientTypes' /\ CallTypes'
<1>1. CASE ReadAck(c)
  <2>1. /\ Arrived(c, "ack") /\ inHand' = [inHand EXCEPT ![c] = <<Head(down[conn[c]])>>]
        /\ UNCHANGED conns /\ UNCHANGED <<up, conn, cpc, cexit, runs, at, asked, ackList>>
    BY <1>1 DEF ReadAck, calls
  <2>2. Head(down[conn[c]]) \in AckMsgs /\ down' \in [Conns -> Seq(CbMsgs \cup AckMsgs)]
    BY <2>1, ArrivedIs
  <2>3. <<Head(down[conn[c]])>> \in Seq(AckMsgs)
    BY <2>2
  <2>4. StreamTypes'
    BY <2>1, <2>2 DEF Types, StreamTypes
  <2>5. CallTypes'
    BY <2>1, <2>3 DEF Types, CallTypes
  <2> QED BY <2>1, <2>4, <2>5, Unmoved DEF Types
<1>4. CASE HandleAck(c)
  <2>1. /\ ackList' = [ackList EXCEPT ![c] = @ \o inHand[c]] /\ inHand' = [inHand EXCEPT ![c] = <<>>]
        /\ UNCHANGED netVars /\ UNCHANGED <<conn, cpc, cexit, runs, at, asked>>
    BY <1>4 DEF HandleAck, calls
  <2>2. ackList[c] \o inHand[c] \in Seq(AckMsgs) /\ <<>> \in Seq(AckMsgs)
    <3>1. ackList[c] \in Seq(AckMsgs) /\ inHand[c] \in Seq(AckMsgs)
      BY DEF Types, CallTypes
    <3> QED BY <3>1
  <2>3. CallTypes'
    BY <2>1, <2>2 DEF Types, CallTypes
  <2> QED BY <2>1, <2>3, Unmoved DEF Types, netVars, conns, streams
<1>2. CASE HandleCb(c)
  <2> DEFINE m == Head(down[conn[c]])
  <2>1. /\ Arrived(c, "cb") /\ SendUp(conn[c], [m EXCEPT !.type = "ack"])
        /\ runs' = [runs EXCEPT ![m.req] = @ + (IF m.id \in Offers[c] THEN 1 ELSE 0)]
        /\ UNCHANGED conns /\ UNCHANGED <<conn, cpc, cexit, ackList, inHand, at, asked>>
    BY <1>2 DEF HandleCb, calls
  <2>2. m \in CbMsgs /\ down' \in [Conns -> Seq(CbMsgs \cup AckMsgs)]
    BY <2>1, ArrivedIs
  <2> HIDE DEF m
  <2>3. [m EXCEPT !.type = "ack"] \in Msgs /\ m.req \in 1 .. MaxCalls
    BY <2>2 DEF CbMsgs, Msgs, Reqs
  <2>4. StreamTypes'
    BY <2>1, <2>2, <2>3, SendUpTypes DEF Types, StreamTypes
  <2>5. runs' \in [1 .. MaxCalls -> Nat]
    BY <2>1, <2>3 DEF Types, ClientTypes
  <2>6. ClientTypes'
    BY <2>1, <2>5 DEF Types, ClientTypes
  <2> QED BY <2>1, <2>4, <2>6, Unmoved DEF Types
<1>3. CASE HandleClosed(c) \/ HandleExit(c)
  <2>1. CGoto(c, "H", "gone") /\ UNCHANGED netVars /\ UNCHANGED <<conn, ackList, inHand, cexit, runs, at, asked>>
    BY <1>3 DEF HandleClosed, HandleExit, calls
  <2> QED BY <2>1, CGotoTypes, Unmoved DEF Types, netVars, conns, streams
<1> QED BY <1>1, <1>2, <1>3, <1>4 DEF HandleStep

(* A request names its asker's connection and has a number of its own.     *)
LEMMA Asking ==
    ASSUME Types, NEW t \in Callers, Ask(t)
    PROVE  /\ conn[Home[t]] \in serverEnd /\ conn[Home[t]] \in Conns
           /\ Len(asked) \in Nat /\ Len(asked) + 1 \in Reqs
           /\ \E id \in Ids :
                 /\ SendUp(conn[Home[t]], [type |-> "cb", id |-> id, link |-> NoLink, req |-> Len(asked) + 1])
                 /\ [type |-> "cb", id |-> id, link |-> NoLink, req |-> Len(asked) + 1] \in CbMsgs
                 /\ asked' = Append(asked, [conn |-> conn[Home[t]], caller |-> t, id |-> id])
                 /\ [conn |-> conn[Home[t]], caller |-> t, id |-> id] \in [conn : Conns, caller : Callers, id : Ids]
           /\ Goes(t, "lock") /\ UNCHANGED conns /\ UNCHANGED <<down, conn, cpc, ackList, inHand, cexit, runs>>
<1>1. /\ Len(asked) < MaxCalls /\ conn[Home[t]] \in serverEnd
      /\ Goes(t, "lock") /\ UNCHANGED conns /\ UNCHANGED <<down, conn, cpc, ackList, inHand, cexit, runs>>
  BY DEF Ask
<1>2. conn[Home[t]] \in Conns
  BY <1>1, ConnFacts DEF Types
<1>3. Len(asked) \in Nat /\ Len(asked) + 1 \in Reqs
  BY <1>1, IpcAssumption DEF Types, CallTypes, Reqs
<1>4. PICK id \in Asks[t] :
         /\ SendUp(conn[Home[t]], [type |-> "cb", id |-> id, link |-> NoLink, req |-> Len(asked) + 1])
         /\ asked' = Append(asked, [conn |-> conn[Home[t]], caller |-> t, id |-> id])
  BY DEF Ask
<1>5. id \in Ids
  BY IpcAssumption
<1>6. [type |-> "cb", id |-> id, link |-> NoLink, req |-> Len(asked) + 1] \in CbMsgs
  BY <1>3, <1>5 DEF CbMsgs
<1>7. [conn |-> conn[Home[t]], caller |-> t, id |-> id] \in [conn : Conns, caller : Callers, id : Ids]
  BY <1>2, <1>5
<1> QED BY <1>1, <1>2, <1>3, <1>4, <1>5, <1>6, <1>7

(* Looking at the list takes answers off it and puts none on.              *)
LEMMA Entering ==
    ASSUME Types, NEW t \in Callers, Enter(t)
    PROVE  /\ Home[t] \in Clients /\ UNCHANGED netVars /\ UNCHANGED <<conn, cpc, inHand, cexit, asked, runs>>
           /\ \E left \in Seq(AckMsgs) : /\ Range(left) \subseteq Range(ackList[Home[t]])
                                         /\ ackList' = [ackList EXCEPT ![Home[t]] = left]
           /\ \E l \in {"idle", "wait", "spin"} : Goes(t, l)
<1>1. Home[t] \in Clients
  BY IpcAssumption
<1>2. ackList[Home[t]] \in Seq(AckMsgs)
  BY <1>1 DEF Types, CallTypes
<1>3. PICK s \in Scanned(ackList[Home[t]], IdOf(t)) :
         /\ ackList' = [ackList EXCEPT ![Home[t]] = s.left]
         /\ Goes(t, IF s.found THEN "idle" ELSE IF s.left = <<>> THEN "wait" ELSE "spin")
  BY DEF Enter
<1>4. s.left \in Seq(AckMsgs) /\ Range(s.left) \subseteq Range(ackList[Home[t]])
  BY <1>2, ScannedLeft
<1>5. \E l \in {"idle", "wait", "spin"} : Goes(t, l)
  BY <1>3
<1>6. UNCHANGED netVars /\ UNCHANGED <<conn, cpc, inHand, cexit, asked, runs>>
  BY DEF Enter
<1> QED BY <1>1, <1>3, <1>4, <1>5, <1>6

LEMMA GoesTypes ==
    ASSUME ClientTypes, NEW t \in Callers, UNCHANGED <<conn, cpc, cexit, runs>>,
           NEW l \in {"idle", "lock", "wait", "spin"}, Goes(t, l)
    PROVE  ClientTypes'
<1>1. at' \in [Callers -> {"idle", "lock", "wait", "spin", "lost"}]
  BY DEF Goes, ClientTypes
<1> QED BY <1>1 DEF ClientTypes

LEMMA CallerTypes ==
    ASSUME Types, NEW t \in Callers, CallerStep(t)
    PROVE  ConnTypes' /\ StreamTypes' /\ ClientTypes' /\ CallTypes'
<1>1. CASE Ask(t)
  <2>1. /\ Goes(t, "lock") /\ UNCHANGED conns /\ UNCHANGED <<down, conn, cpc, ackList, inHand, cexit, runs>>
    BY <1>1, Asking
  <2>2. PICK id \in Ids :
            /\ SendUp(conn[Home[t]], [type |-> "cb", id |-> id, link |-> NoLink, req |-> Len(asked) + 1])
            /\ [type |-> "cb", id |-> id, link |-> NoLink, req |-> Len(asked) + 1] \in CbMsgs
            /\ asked' = Append(asked, [conn |-> conn[Home[t]], caller |-> t, id |-> id])
            /\ [conn |-> conn[Home[t]], caller |-> t, id |-> id] \in [conn : Conns, caller : Callers, id : Ids]
    BY <1>1, Asking
  <2>3. up' \in [Conns -> Seq(Msgs)]
    BY <2>2, SendUpTypes, CallMsgsAre DEF Types
  <2>4. StreamTypes'
    BY <2>1, <2>3 DEF Types, StreamTypes
  <2>5. asked' \in Seq([conn : Conns, caller : Callers, id : Ids])
    BY <2>2 DEF Types, CallTypes
  <2>6. CallTypes'
    BY <2>1, <2>5 DEF Types, CallTypes
  <2>7. ClientTypes'
    BY <2>1, GoesTypes DEF Types
  <2> QED BY <2>1, <2>4, <2>6, <2>7, Unmoved DEF Types
<1>2. CASE Enter(t)
  <2>1. /\ Home[t] \in Clients /\ UNCHANGED netVars /\ UNCHANGED <<conn, cpc, inHand, cexit, asked, runs>>
    BY <1>2, Entering
  <2>2. PICK left \in Seq(AckMsgs) : ackList' = [ackList EXCEPT ![Home[t]] = left]
    BY <1>2, Entering
  <2>3. PICK l \in {"idle", "wait", "spin"} : Goes(t, l)
    BY <1>2, Entering
  <2>4. CallTypes'
    BY <2>1, <2>2 DEF Types, CallTypes
  <2>5. ClientTypes'
    BY <2>1, <2>3, GoesTypes DEF Types
  <2> QED BY <2>1, <2>4, <2>5, Unmoved DEF Types, netVars, conns, streams
<1>3. CASE LeaveOnExit(t) \/ TimeOut(t)
  <2>1. Goes(t, "idle") /\ UNCHANGED netVars /\ UNCHANGED <<conn, cpc, ackList, inHand, cexit, asked, runs>>
    BY <1>3 DEF LeaveOnExit, TimeOut
  <2>2. ClientTypes'
    BY <2>1, GoesTypes DEF Types
  <2> QED BY <2>1, <2>2, Unmoved DEF Types, netVars, conns, streams
<1> QED BY <1>1, <1>2, <1>3 DEF CallerStep, WaitStep

(* The end of a client, and its start.                                     *)
LEMMA EndedTypes ==
    ASSUME Types, NEW c \in Clients, NEW l \in {"idle", "lost"}, Ended(c, l)
    PROVE  ConnTypes' /\ StreamTypes' /\ ClientTypes' /\ CallTypes'
<1>1. ConnTypes'
  <2>1. clientEnd' \subseteq clientEnd /\ UNCHANGED <<owner, backlog, link, serverEnd>> /\ listening' = listening
    BY DEF Ended, CloseClient
  <2>2. listening' \in BOOLEAN
    BY <2>1 DEF Types, ConnTypes
  <2> QED BY <2>1, <2>2 DEF Types, ConnTypes
<1>2. StreamTypes'
  <2>1. up' = up /\ (down' = down \/ down' = [down EXCEPT ![conn[c]] = <<>>])
    BY DEF Ended, CloseClient
  <2>2. <<>> \in Seq(CbMsgs \cup AckMsgs)
    OBVIOUS
  <2> QED BY <2>1, <2>2 DEF Types, StreamTypes
<1>3. ClientTypes'
  <2>1. cpc' \in [Clients -> [N : {"connect", "register", "gone"}, H : {"run", "gone"},
                              D : {"idle", "joinH", "gone"}]]
    BY DEF Ended, Types, ClientTypes
  <2>2. conn' \in [Clients -> 0 .. MaxConns]
    <3>1. 0 \in 0 .. MaxConns
      BY IpcAssumption
    <3> QED BY <3>1 DEF Ended, Types, ClientTypes
  <2>3. at' \in [Callers -> {"idle", "lock", "wait", "spin", "lost"}]
    BY DEF Ended, Types, ClientTypes
  <2>4. cexit' \in [Clients -> BOOLEAN]
    BY DEF Ended, Types, ClientTypes
  <2>5. runs' = runs
    BY DEF Ended
  <2> QED BY <2>1, <2>2, <2>3, <2>4, <2>5 DEF Types, ClientTypes
<1>4. CallTypes'
  <2>1. <<>> \in Seq(AckMsgs)
    OBVIOUS
  <2> QED BY <2>1 DEF Ended, Types, CallTypes
<1> QED BY <1>1, <1>2, <1>3, <1>4

LEMMA CloseExitTypes ==
    ASSUME Types, NEW c \in Clients, CloseExit(c)
    PROVE  ConnTypes' /\ StreamTypes' /\ ClientTypes' /\ CallTypes'
<1>1. /\ cexit' = [cexit EXCEPT ![c] = TRUE] /\ CGoto(c, "D", "joinH")
      /\ UNCHANGED netVars /\ UNCHANGED <<conn, ackList, inHand, runs, at, asked>>
  BY DEF CloseExit, calls
<1>2. cexit' \in [Clients -> BOOLEAN]
  BY <1>1 DEF Types, ClientTypes
<1>3. cpc' \in [Clients -> [N : {"connect", "register", "gone"}, H : {"run", "gone"},
                            D : {"idle", "joinH", "gone"}]]
  BY <1>1 DEF CGoto, Types, ClientTypes
<1>4. ClientTypes'
  BY <1>1, <1>2, <1>3 DEF Types, ClientTypes
<1> QED BY <1>1, <1>4, Unmoved DEF Types, netVars, conns, streams

LEMMA StartTypes ==
    ASSUME Types, NEW c \in Clients, Start(c)
    PROVE  ConnTypes' /\ StreamTypes' /\ ClientTypes' /\ CallTypes'
<1>1. /\ cpc' = [cpc EXCEPT ![c] = [N |-> "connect", H |-> "run", D |-> "idle"]]
      /\ UNCHANGED netVars /\ UNCHANGED <<conn, at, ackList, inHand, cexit, asked, runs>>
  BY DEF Start
<1>2. ClientTypes'
  BY <1>1 DEF Types, ClientTypes
<1> QED BY <1>1, <1>2, Unmoved DEF Types, netVars, conns, streams

EndTypes == ends \in 0 .. MaxEnds

ServerPart == ServerStep /\ UNCHANGED <<cliVars, ends>>
ClientPart == (\E c \in Clients : ClientStep(c)) /\ UNCHANGED <<srvVars, ends>>
CallerPart == (\E t \in Callers : CallerStep(t)) /\ UNCHANGED <<srvVars, ends>>

LEMMA SrvUnmoved ==
    ServerTypes /\ TokenInv /\ UNCHANGED srvVars => ServerTypes' /\ TokenInv'
BY Unmoved, TokensUnmoved DEF ServerTypes, srvVars, queues

LEMMA TypesNext ==
    Types /\ EndTypes /\ TokenInv /\ [Next]_vars => (Types /\ EndTypes /\ TokenInv)'
<1> SUFFICES ASSUME Types, EndTypes, TokenInv, [Next]_vars PROVE Types' /\ EndTypes' /\ TokenInv'
  OBVIOUS
<1>1. CASE ServerPart
  <2>1. UNCHANGED cliVars /\ UNCHANGED ends
    BY <1>1 DEF ServerPart
  <2>2. ConnTypes' /\ StreamTypes' /\ ServerTypes' /\ TokenInv'
    BY <1>1, ServerKeeps DEF ServerPart, Types
  <2>3. ClientTypes' /\ CallTypes'
    BY <2>1, Unmoved DEF Types, cliVars
  <2> QED BY <2>1, <2>2, <2>3 DEF Types, EndTypes
<1>2. CASE ClientPart
  <2>1. UNCHANGED srvVars /\ UNCHANGED ends
    BY <1>2 DEF ClientPart
  <2>2. ConnTypes' /\ StreamTypes' /\ ClientTypes' /\ CallTypes'
    BY <1>2, ConnectTypes, HandleTypes, EndedTypes, StartTypes DEF ClientPart, ClientStep, CloseFree
  <2> QED BY <2>1, <2>2, SrvUnmoved DEF Types, EndTypes
<1>3. CASE CallerPart
  <2>1. UNCHANGED srvVars /\ UNCHANGED ends
    BY <1>3 DEF CallerPart
  <2>2. ConnTypes' /\ StreamTypes' /\ ClientTypes' /\ CallTypes'
    BY <1>3, CallerTypes DEF CallerPart
  <2> QED BY <2>1, <2>2, SrvUnmoved DEF Types, EndTypes
<1>4. CASE End
  <2>1. EndTypes'
    BY <1>4, IpcAssumption DEF End, EndTypes
  <2>2. CASE DestroyBegin /\ UNCHANGED cliVars
    <3>1. ConnTypes' /\ StreamTypes' /\ ServerTypes' /\ TokenInv'
      BY <2>2, DestroyBeginKeeps DEF Types
    <3> QED BY <2>1, <2>2, <3>1, Unmoved DEF Types, cliVars
  <2>3. CASE (\E c \in Clients : CloseExit(c) \/ Die(c)) /\ UNCHANGED srvVars
    <3>1. ConnTypes' /\ StreamTypes' /\ ClientTypes' /\ CallTypes'
      BY <2>3, CloseExitTypes, EndedTypes DEF Die
    <3> QED BY <2>1, <2>3, <3>1, SrvUnmoved DEF Types
  <2> QED BY <1>4, <2>2, <2>3, IpcAssumption DEF End
<1>5. CASE UNCHANGED vars
  <2>1. UNCHANGED netVars /\ UNCHANGED srvVars /\ UNCHANGED cliVars /\ UNCHANGED ends
    BY <1>5 DEF vars
  <2>2. ConnTypes' /\ StreamTypes'
    BY <2>1, Unmoved DEF Types, netVars, conns, streams
  <2>3. ClientTypes' /\ CallTypes'
    BY <2>1, Unmoved DEF Types, cliVars
  <2> QED BY <2>1, <2>2, <2>3, SrvUnmoved DEF Types, EndTypes
<1> QED BY <1>1, <1>2, <1>3, <1>4, <1>5 DEF Next, ServerPart, ClientPart, CallerPart

LEMMA TypesHold == Spec => [](Types /\ EndTypes /\ TokenInv)
<1>1. Init => Types /\ EndTypes /\ TokenInv
  BY InitTypes, InitTokens, IpcAssumption DEF EndTypes, Init
<1> QED BY <1>1, TypesNext, PTL DEF Spec

(* Every variable of the server, the clients and the connections keeps its *)
(* type, and the fifos their capacity.                                     *)
THEOREM TypesKept == Spec => []TypeOK
<1>1. Types /\ EndTypes => TypeOK
  <2> SUFFICES ASSUME Types, EndTypes PROVE TypeOK
    OBVIOUS
  <2>1. CbMsgs \subseteq Msgs /\ AckMsgs \subseteq Msgs
    BY DEF CbMsgs, AckMsgs, Msgs
  <2>2. Requests \cup Replies \subseteq [from : Links, msg : Msgs]
    BY <2>1 DEF Requests, Replies
  <2> DEFINE Items == [from : Links, msg : Msgs]
  <2>3. /\ Seq(CbMsgs \cup AckMsgs) \subseteq Seq(Msgs) /\ Seq(AckMsgs) \subseteq Seq(Msgs)
        /\ Seq(Requests \cup Replies) \subseteq Seq(Items)
    <3> HIDE DEF Items
    <3>1. \A S, T : S \subseteq T => Seq(S) \subseteq Seq(T)
      OBVIOUS
    <3> QED BY <2>1, <2>2, <3>1 DEF Items
  <2>4. NetTypeOK(Msgs)
    <3>1. down \in [Conns -> Seq(Msgs)]
      BY <2>3 DEF Types, StreamTypes
    <3> QED BY <3>1 DEF NetTypeOK, Types, ConnTypes, StreamTypes
  <2>5. SrvTypeOK(Msgs)
    <3>1. \A q \in Queues : /\ fifo[q] \in Seq(Items) /\ Len(fifo[q]) <= FifoCap /\ sem[q] \in Nat
                            /\ work[q] \in Seq(Items) /\ Len(work[q]) <= 1
      <4> HIDE DEF Items
      <4> QED BY <2>3 DEF Types, ServerTypes, QueueTypes
    <3>2. replying \in Seq(Items)
      <4>1. \A S, T : S \subseteq T => Seq(S) \subseteq Seq(T)
        OBVIOUS
      <4> HIDE DEF Items
      <4> QED BY <2>2, <4>1 DEF Items, Types, ServerTypes, PcTypes
    <3> QED BY <3>1, <3>2 DEF SrvTypeOK, Types, ServerTypes, PcTypes, RegTypes
  <2>6. CliTypeOK(Msgs)
    <3>1. ackList \in [Clients -> Seq(Msgs)] /\ inHand \in [Clients -> Seq(Msgs)]
      BY <2>3 DEF Types, CallTypes
    <3> QED BY <3>1 DEF CliTypeOK, Types, ClientTypes, CallTypes
  <2> QED BY <2>4, <2>5, <2>6 DEF TypeOK, EndTypes
<1> QED BY <1>1, TypesHold, PTL

(* C and K find an item whenever their semaphore lets them through, with a *)
(* full fifo that loses items and with the posts of Destroy.               *)
THEOREM TokensCountItems == Spec => []TokensAreItems
<1>1. TokenInv => TokensAreItems
  BY DEF TokenInv, TokensAreItems
<1> QED BY <1>1, TypesHold, PTL

(* What the server dies of, when it dies: a thread that has died takes no  *)
(* step any more.                                                          *)
CrashInv ==
    crashed => \/ AnswersFreed /\ ~ManagerFreed /\ replying # <<>>
               \/ ManagerFreed /\ pc["C"] = "work"

LEMMA ServerLives ==
    ServerStep \/ DestroyBegin => ~crashed /\ (crashed' = crashed \/ ReplyFreed \/ ForwardFreed)
<1>1. AcceptStep => ~crashed /\ crashed' = crashed
  BY DEF AcceptStep, Listen, Accept, AcceptStop, At, srvVars
<1>2. ReadStep => ~crashed /\ (crashed' = crashed \/ ReplyFreed)
  BY DEF ReadStep, ReadStop, ReadLink, Reply, ReplyWrite, ReplyFreed, DropLink, At, srvVars
<1>3. CbStep \/ AckStep => ~crashed /\ (crashed' = crashed \/ ForwardFreed)
  BY DEF CbStep, AckStep, Take, Forward, ForwardFreed, Answer, At
<1>4. StopStep \/ DestroyBegin => ~crashed /\ crashed' = crashed
  BY DEF StopStep, StopListening, FreeAnswers, FreeManager, JoinC, DestroyBegin, At
<1> QED BY <1>1, <1>2, <1>3, <1>4 DEF ServerStep

LEMMA CrashNext ==
    Types /\ TokenInv /\ CrashInv /\ [Next]_vars => CrashInv'
<1> SUFFICES ASSUME TokenInv, CrashInv, [Next]_vars PROVE CrashInv'
  OBVIOUS
<1>1. CASE UNCHANGED srvVars
  BY <1>1 DEF CrashInv, srvVars, AnswersFreed, ManagerFreed
<1>2. CASE ReplyFreed
  <2>1. /\ AnswersFreed /\ replying # <<>> /\ pc["M"] = "run" /\ pc' = pc /\ ~crashed
        /\ crashed' = crashed \/ replying' = replying
    BY <1>2 DEF ReplyFreed, At, ListFree
  <2>2. ~ManagerFreed
    BY <2>1 DEF TokenInv
  <2> QED BY <2>1, <2>2 DEF CrashInv, AnswersFreed, ManagerFreed
<1>3. CASE ForwardFreed
  BY <1>3 DEF ForwardFreed, At, CrashInv, ManagerFreed
<1>4. CASE ServerStep \/ DestroyBegin
  BY <1>2, <1>3, <1>4, ServerLives DEF CrashInv
<1>5. UNCHANGED srvVars \/ ServerStep \/ DestroyBegin
  BY DEF Next, End, vars
<1> QED BY <1>1, <1>4, <1>5

(* Of the server's threads, only M and C can be caught by memory that      *)
(* Destroy frees before it has joined them, and only in one place each.    *)
THEOREM FreedUnderTwoThreads == Spec => []FreedUnderTwo
<1>1. TokenInv /\ CrashInv => FreedUnderTwo
  BY DEF TokenInv, CrashInv, FreedUnderTwo, AnswersFreed, ManagerFreed
<1>2. Init => CrashInv
  BY DEF Init, SrvInit, CrashInv
<1> QED BY <1>1, <1>2, TypesHold, CrashNext, PTL DEF Spec


-----------------------------------------------------------------------------
(* Why an answer comes back.  Two links the server holds have different    *)
(* addresses, and a link that is freed gives its address away only when no *)
(* held one has it.  So the address a request was read with leads, as long *)
(* as the asker's link is held, to the asker; it is carried unchanged in   *)
(* the request to the other clients, in their answer, and to the link the  *)
(* answer is written to.                                                   *)
LinkInv ==
    /\ \A j, k \in serverEnd : link[j] = link[k] /\ link[j] # NoLink => j = k
    /\ \A i \in DOMAIN backlog : link[backlog[i]] = NoLink /\ backlog[i] <= Len(owner)
    /\ \A i, j \in DOMAIN backlog : backlog[i] = backlog[j] => i = j
    /\ \A k \in Conns : k > Len(owner) => link[k] = NoLink

AskInv == Len(asked) <= MaxCalls /\ \A n \in 1 .. Len(asked) : asked[n].conn <= Len(owner)

Leads(a, n) ==
    /\ n \in 1 .. Len(asked)
    /\ asked[n].conn \in serverEnd => link[asked[n].conn] = a /\ a # NoLink
Back(k, n) ==
    /\ n \in 1 .. Len(asked)
    /\ asked[n].conn = k \/ asked[n].conn \notin serverEnd
Genuine(m) == m.req \in 1 .. Len(asked) /\ asked[m.req].id = m.id

UpOK(k, m) ==
    /\ m.type = "cb" => Genuine(m) /\ asked[m.req].conn = k
    /\ m.type = "ack" => Leads(m.link, m.req)
DownOK(k, m) ==
    /\ m.type = "cb" => Leads(m.link, m.req) /\ Genuine(m)
    /\ m.type = "ack" => Back(k, m.req)

Held(q) == Range(fifo[q]) \cup Range(work[q]) \cup (IF q = "K" THEN Range(replying) ELSE {})

MsgInv ==
    /\ \A k \in Conns : \A m \in Range(up[k]) : UpOK(k, m)
    /\ \A x \in Held("C") : Leads(x.from, x.msg.req) /\ Genuine(x.msg)
    /\ \A x \in Held("K") : Leads(x.msg.link, x.msg.req)
    /\ \A k \in Conns : \A m \in Range(down[k]) : DownOK(k, m)

Answers(c) == Range(ackList[c]) \cup Range(inHand[c])

ListInv ==
    \A c \in Clients :
        /\ CAt(c, "N", "connect") \/ CAt(c, "D", "gone") => conn[c] = 0
        /\ conn[c] = 0 => Answers(c) = {}
        /\ \A m \in Answers(c) : Back(conn[c], m.req)

BackInv == LinkInv /\ AskInv /\ MsgInv /\ ListInv

LEMMA InitBack == Init => BackInv
BY IpcAssumption DEF Init, NetInit, SrvInit, CliInit, BackInv, LinkInv, AskInv, MsgInv, ListInv, Answers, Held, Queues,
       Range, CAt

(* What a step may do to requests and links that are there: a request and  *)
(* a held link stay as they are, a closed connection stays closed.         *)
Steady ==
    /\ \A n \in 1 .. Len(asked) : n \in 1 .. Len(asked') /\ asked'[n] = asked[n]
    /\ \A k \in serverEnd' : k \in serverEnd \/ k > Len(owner)
    /\ \A k \in serverEnd : link[k] # NoLink => link'[k] = link[k]

LEMMA LeadsLater ==
    ASSUME Types, AskInv, Steady
    PROVE  /\ \A a, n : Leads(a, n) => Leads(a, n)'
           /\ \A k, n : Back(k, n) => Back(k, n)'
           /\ \A m : Genuine(m) => Genuine(m)'
           /\ \A k, m : UpOK(k, m) => UpOK(k, m)'
           /\ \A k, m : DownOK(k, m) => DownOK(k, m)'
<1>1. ASSUME NEW n \in 1 .. Len(asked)
      PROVE  /\ n \in 1 .. Len(asked') /\ asked'[n] = asked[n]
             /\ asked[n].conn \in serverEnd' => asked[n].conn \in serverEnd
             /\ asked[n].conn \in serverEnd /\ link[asked[n].conn] # NoLink
                   => link'[asked[n].conn] = link[asked[n].conn]
  <2>1. n \in 1 .. Len(asked') /\ asked'[n] = asked[n]
    BY DEF Steady
  <2>2. asked[n].conn \in Conns /\ Len(owner) \in Nat /\ asked[n].conn <= Len(owner)
    <3> DEFINE R == [conn : Conns, caller : Callers, id : Ids]
    <3>1. asked \in Seq(R)
      BY DEF Types, CallTypes
    <3> HIDE DEF R
    <3>2. asked[n] \in R
      BY <3>1
    <3> QED BY <3>2, ConnFacts DEF Types, AskInv, R
  <2>3. ~(asked[n].conn > Len(owner))
    BY <2>2, IpcAssumption DEF Conns
  <2> QED BY <2>1, <2>3 DEF Steady
<1>2. \A a, n : Leads(a, n) => Leads(a, n)'
  BY <1>1 DEF Leads
<1>3. \A k, n : Back(k, n) => Back(k, n)'
  BY <1>1 DEF Back
<1>4. \A m : Genuine(m) => Genuine(m)'
  BY <1>1 DEF Genuine
<1>5. \A k, m : UpOK(k, m) => UpOK(k, m)'
  BY <1>1, <1>2, <1>4 DEF UpOK, Genuine
<1>6. \A k, m : DownOK(k, m) => DownOK(k, m)'
  BY <1>2, <1>3, <1>4 DEF DownOK
<1> QED BY <1>2, <1>3, <1>4, <1>5, <1>6

(* A step keeps every message right when what it puts into a stream, a     *)
(* fifo or a list is right after it.                                       *)
UpLater   == \A k \in Conns : \A m \in Range(up'[k]) : m \in Range(up[k]) \/ UpOK(k, m)'
CLater    == \A x \in Held("C")' : x \in Held("C") \/ (Leads(x.from, x.msg.req) /\ Genuine(x.msg))'
KLater    == \A x \in Held("K")' : x \in Held("K") \/ Leads(x.msg.link, x.msg.req)'
DownLater == \A k \in Conns : \A m \in Range(down'[k]) : m \in Range(down[k]) \/ DownOK(k, m)'
ListLater ==
    \A c \in Clients : \A m \in Answers(c)' :
        \/ m \in Answers(c) /\ conn'[c] = conn[c]
        \/ Back(conn[c], m.req)'

LEMMA MessagesLater ==
    ASSUME Types, AskInv, MsgInv, Steady, UpLater, CLater, KLater, DownLater
    PROVE  MsgInv'
<1>1. \A k \in Conns : \A m \in Range(up'[k]) : UpOK(k, m)'
  BY LeadsLater DEF UpLater, MsgInv
<1>2. \A x \in Held("C")' : (Leads(x.from, x.msg.req) /\ Genuine(x.msg))'
  BY LeadsLater DEF CLater, MsgInv
<1>3. \A x \in Held("K")' : Leads(x.msg.link, x.msg.req)'
  BY LeadsLater DEF KLater, MsgInv
<1>4. \A k \in Conns : \A m \in Range(down'[k]) : DownOK(k, m)'
  BY LeadsLater DEF DownLater, MsgInv
<1> QED BY <1>1, <1>2, <1>3, <1>4 DEF MsgInv

LEMMA ListsLater ==
    ASSUME Types, AskInv, ListInv, Steady, ListLater,
           \A c \in Clients :
               /\ CAt(c, "N", "connect")' \/ CAt(c, "D", "gone")' => conn'[c] = 0
               /\ conn'[c] = 0 => Answers(c)' = {}
    PROVE  ListInv'
<1>1. ASSUME NEW c \in Clients, NEW m \in Answers(c)' PROVE Back(conn[c], m.req)'
  <2>1. CASE m \in Answers(c) /\ conn'[c] = conn[c]
    <3>1. PICK k : k = conn[c]
      OBVIOUS
    <3>2. Back(k, m.req)
      BY <2>1, <3>1 DEF ListInv
    <3>3. Back(k, m.req)'
      BY <3>2, LeadsLater
    <3> QED BY <2>1, <3>1, <3>3 DEF Back
  <2> QED BY <1>1, <2>1 DEF ListLater
<1> QED BY <1>1 DEF ListInv

(* What is left alone puts nothing new anywhere.                           *)
LEMMA NothingNew ==
    /\ UNCHANGED up => UpLater
    /\ UNCHANGED <<fifo, work, replying>> => CLater /\ KLater
    /\ UNCHANGED down => DownLater
    /\ UNCHANGED <<conn, ackList, inHand>> => ListLater
<1>1. UNCHANGED <<fifo, work, replying>> => CLater /\ KLater
  BY DEF CLater, KLater, Held
<1>2. UNCHANGED <<conn, ackList, inHand>> => ListLater
  BY DEF ListLater, Answers
<1> QED BY <1>1, <1>2 DEF UpLater, DownLater

LEMMA SteadyIf ==
    ASSUME Types, UNCHANGED asked, UNCHANGED link, serverEnd' \subseteq serverEnd
    PROVE  Steady
BY DEF Steady

(* Links that only go away, and a backlog that at most is emptied.         *)
LEMMA LinksGo ==
    ASSUME LinkInv, AskInv, UNCHANGED asked, UNCHANGED <<owner, link>>, serverEnd' \subseteq serverEnd,
           backlog' = backlog \/ backlog' = <<>>
    PROVE  LinkInv' /\ AskInv'
<1>1. AskInv'
  BY DEF AskInv
<1>2. CASE backlog' = backlog
  BY <1>2, <1>1 DEF LinkInv
<1>3. CASE backlog' = <<>>
  <2>1. DOMAIN backlog' = {}
    BY <1>3
  <2> QED BY <2>1, <1>1 DEF LinkInv
<1> QED BY <1>2, <1>3

(* No client's place or connection changes.                                *)
LEMMA ListsUnmoved ==
    ASSUME Types, AskInv, ListInv, Steady, UNCHANGED <<conn, cpc, ackList, inHand>>
    PROVE  ListInv'
<1>1. ListLater
  BY NothingNew
<1>2. \A c \in Clients :
         /\ CAt(c, "N", "connect")' \/ CAt(c, "D", "gone")' => conn'[c] = 0
         /\ conn'[c] = 0 => Answers(c)' = {}
  BY DEF ListInv, CAt, Answers
<1> QED BY <1>1, <1>2, ListsLater

(* The threads of the server.  M: a request is queued with the address of  *)
(* the link it came from.                                                  *)
LEMMA EnqueuedIs ==
    ASSUME QueueTypes, NEW q \in Queues, NEW x \in Requests \cup Replies, Enqueue(q, x), UNCHANGED work,
           Range(replying') \subseteq Range(replying)
    PROVE  /\ Held(q)' \subseteq Held(q) \cup {x}
           /\ \A p \in Queues \ {q} : Held(p)' \subseteq Held(p)
<1>1. CASE Len(fifo[q]) < FifoCap
  <2>1. fifo' = [fifo EXCEPT ![q] = Append(@, x)] /\ fifo[q] \in Seq(Requests \cup Replies)
    BY <1>1 DEF Enqueue, QueueTypes
  <2>2. Range(Append(fifo[q], x)) = Range(fifo[q]) \cup {x}
    BY <2>1, RangeAppend
  <2>3. fifo'[q] = Append(fifo[q], x) /\ \A p \in Queues \ {q} : fifo'[p] = fifo[p]
    BY <2>1 DEF QueueTypes
  <2> QED BY <2>2, <2>3 DEF Held
<1>2. CASE ~(Len(fifo[q]) < FifoCap)
  BY <1>2 DEF Enqueue, Held
<1> QED BY <1>1, <1>2

LEMMA ReadLinkBack ==
    ASSUME Types, BackInv, NEW k \in Conns, ReadLink(k), UNCHANGED cliVars
    PROVE  BackInv'
<1>0. PICK m, a : m = Head(up[k]) /\ a = link[k]
  OBVIOUS
<1>1. /\ k \in Listed /\ up[k] # <<>> /\ up' = [up EXCEPT ![k] = Tail(@)]
      /\ Request(k) \/ Registration(k)
      /\ UNCHANGED <<owner, backlog, link, serverEnd>> /\ UNCHANGED <<down, work, replying>>
      /\ UNCHANGED asked /\ UNCHANGED <<conn, cpc, ackList, inHand>>
  BY DEF ReadLink, conns, cliVars
<1>2. Steady /\ LinkInv' /\ AskInv' /\ DownLater
  BY <1>1, SteadyIf, LinksGo, NothingNew DEF BackInv
<1>3. up \in [Conns -> Seq(Msgs)] /\ up[k] \in Seq(Msgs)
  BY DEF Types, StreamTypes
<1>4. m \in Msgs /\ m \in Range(up[k]) /\ Range(Tail(up[k])) \subseteq Range(up[k])
  BY <1>0, <1>1, <1>3, RangeTail
<1>5. UpLater
  BY <1>1, <1>3, <1>4 DEF UpLater
<1>6. UpOK(k, m) /\ link[k] = a /\ a \in Links /\ k \in serverEnd /\ a # NoLink
  BY <1>0, <1>1, <1>4, ConnFacts DEF BackInv, MsgInv, Types, Listed
<1>7. CLater /\ KLater
  <2>1. CASE Request(k)
    <3> DEFINE x == [from |-> a, msg |-> m]
    <3>1. Enqueue("C", x) /\ m.type = "cb" /\ m \in CbMsgs
      BY <1>0, <1>4, <2>1, MessageKinds DEF Request
    <3>2. x \in Requests /\ x.from = a /\ x.msg = m
      BY <1>6, <3>1 DEF Requests
    <3>3. Leads(a, m.req) /\ Genuine(m)
      BY <1>6, <3>1 DEF UpOK, Leads, Genuine
    <3>4. (Leads(a, m.req) /\ Genuine(m))'
      BY <1>2, <3>3, LeadsLater DEF BackInv
    <3> HIDE DEF x
    <3>5. Held("C")' \subseteq Held("C") \cup {x} /\ Held("K")' \subseteq Held("K")
      BY <1>1, <3>1, <3>2, EnqueuedIs DEF Types, ServerTypes, Queues
    <3> QED BY <3>2, <3>4, <3>5 DEF CLater, KLater
  <2>2. CASE Registration(k)
    BY <1>1, <2>2, NothingNew DEF Registration
  <2> QED BY <1>1, <2>1, <2>2
<1>8. MsgInv' /\ ListInv'
  BY <1>1, <1>2, <1>5, <1>7, MessagesLater, ListsUnmoved DEF BackInv
<1> QED BY <1>2, <1>8 DEF BackInv

LEMMA ReplyBack ==
    ASSUME Types, TokenInv, BackInv, NEW k \in Conns, Reply(k), UNCHANGED cliVars
    PROVE  BackInv'
<1>0. PICK m, x : m = Head(up[k]) /\ x = [from |-> link[k], msg |-> m]
  OBVIOUS
<1>1. /\ up' = [up EXCEPT ![k] = Tail(@)]
      /\ replying' = <<>> \/ replying' = <<x>>
      /\ UNCHANGED <<owner, backlog, link, serverEnd>> /\ UNCHANGED down /\ UNCHANGED <<fifo, work>>
      /\ UNCHANGED asked /\ UNCHANGED <<conn, cpc, ackList, inHand>>
  BY <1>0 DEF Reply, conns, queues, cliVars
<1>2. Steady /\ LinkInv' /\ AskInv' /\ DownLater
  BY <1>1, SteadyIf, LinksGo, NothingNew DEF BackInv
<1>3. m \in AckMsgs /\ m \in Range(up[k]) /\ Range(Tail(up[k])) \subseteq Range(up[k])
  BY <1>0, ReplyKeeps DEF Types
<1>4. UpLater
  <2>1. \A j \in Conns : up'[j] = up[j] \/ (j = k /\ up'[j] = Tail(up[k]))
    <3>1. up' = [up EXCEPT ![k] = Tail(@)] /\ up \in [Conns -> Seq(Msgs)]
      BY <1>1 DEF Types, StreamTypes
    <3> QED BY <3>1
  <2> QED BY <1>3, <2>1 DEF UpLater
<1>5. Leads(x.msg.link, x.msg.req)
  <2>1. UpOK(k, m) /\ m.type = "ack"
    BY <1>3 DEF BackInv, MsgInv, AckMsgs
  <2> QED BY <1>0, <2>1 DEF UpOK
<1>6. CLater /\ KLater
  <2>1. \A y : Leads(y.msg.link, y.msg.req) => Leads(y.msg.link, y.msg.req)'
    BY <1>2, LeadsLater DEF BackInv
  <2>2. Range(<<>>) = {} /\ Range(<<x>>) = {x}
    BY DEF Range
  <2>3. Held("K")' \subseteq Held("K") \cup {x} /\ Held("C")' = Held("C")
    BY <1>1, <2>2 DEF Held
  <2> QED BY <1>5, <2>1, <2>3 DEF CLater, KLater
<1>7. MsgInv' /\ ListInv'
  BY <1>1, <1>2, <1>4, <1>6, MessagesLater, ListsUnmoved DEF BackInv
<1> QED BY <1>2, <1>7 DEF BackInv

(* The answer goes from M's hands to the fifo, or is lost.                 *)
LEMMA ReplyWriteBack ==
    ASSUME Types, TokenInv, BackInv, ReplyWrite, UNCHANGED cliVars
    PROVE  BackInv'
<1>1. /\ Enqueue("K", Head(replying)) /\ replying' = <<>> /\ UNCHANGED work
      /\ UNCHANGED <<owner, backlog, link, serverEnd>> /\ UNCHANGED up /\ UNCHANGED down
      /\ UNCHANGED asked /\ UNCHANGED <<conn, cpc, ackList, inHand>>
  BY DEF ReplyWrite, netVars, cliVars
<1>2. Steady /\ LinkInv' /\ AskInv' /\ UpLater /\ DownLater
  BY <1>1, SteadyIf, LinksGo, NothingNew DEF BackInv
<1>3. Head(replying) \in Replies /\ Head(replying) \in Range(replying)
  BY ReplyWriteKeeps DEF Types
<1>4. Held("K")' \subseteq Held("K") /\ Held("C")' \subseteq Held("C")
  <2>1. Range(<<>>) = {}
    BY DEF Range
  <2>2. Range(replying') \subseteq Range(replying)
    BY <1>1, <2>1
  <2>3. "K" \in Queues /\ "C" \in Queues /\ "C" # "K"
    BY DEF Queues
  <2>4. Held("K")' \subseteq Held("K") \cup {Head(replying)} /\ Held("C")' \subseteq Held("C")
    BY <1>1, <1>3, <2>2, <2>3, EnqueuedIs DEF Types, ServerTypes
  <2>5. Head(replying) \in Held("K")
    BY <1>3 DEF Held
  <2> QED BY <2>4, <2>5
<1>5. CLater /\ KLater
  BY <1>4 DEF CLater, KLater
<1>6. MsgInv' /\ ListInv'
  BY <1>1, <1>2, <1>5, MessagesLater, ListsUnmoved DEF BackInv
<1> QED BY <1>2, <1>6 DEF BackInv

LEMMA TakeBack ==
    ASSUME Types, TokenInv, BackInv, NEW q \in Queues, Take(q), UNCHANGED cliVars
    PROVE  BackInv'
<1>1. /\ UNCHANGED <<owner, backlog, link, serverEnd>> /\ UNCHANGED up /\ UNCHANGED down
      /\ UNCHANGED asked /\ UNCHANGED <<conn, cpc, ackList, inHand>> /\ UNCHANGED replying
  BY DEF Take, netVars, cliVars
<1>2. Steady /\ LinkInv' /\ AskInv' /\ UpLater /\ DownLater
  BY <1>1, SteadyIf, LinksGo, NothingNew DEF BackInv
<1>3. \A p \in Queues : Held(p)' \subseteq Held(p)
  <2>1. CASE exit
    BY <1>1, <2>1 DEF Take, Held
  <2>2. CASE fifo[q] = <<>> /\ ~exit
    <3>1. fifo' = fifo /\ work' = work
      BY <2>2 DEF Take, Types, ServerTypes, QueueTypes
    <3> QED BY <1>1, <3>1 DEF Held
  <2>3. CASE fifo[q] # <<>> /\ ~exit
    <3>1. /\ work' = [work EXCEPT ![q] = <<Head(fifo[q])>>] /\ fifo' = [fifo EXCEPT ![q] = Tail(@)]
      BY <2>3 DEF Take, Types, ServerTypes, QueueTypes
    <3>2. fifo[q] \in Seq(Requests \cup Replies)
      BY DEF Types, ServerTypes, QueueTypes
    <3>3. Head(fifo[q]) \in Range(fifo[q]) /\ Range(Tail(fifo[q])) \subseteq Range(fifo[q])
      BY <2>3, <3>2, RangeTail
    <3>4. /\ fifo'[q] = Tail(fifo[q]) /\ work'[q] = <<Head(fifo[q])>>
          /\ \A p \in Queues \ {q} : fifo'[p] = fifo[p] /\ work'[p] = work[p]
      BY <3>1 DEF Types, ServerTypes, QueueTypes
    <3>5. Range(<<Head(fifo[q])>>) = {Head(fifo[q])}
      BY DEF Range
    <3> QED BY <1>1, <3>3, <3>4, <3>5 DEF Held
  <2> QED BY <2>1, <2>2, <2>3
<1>4. CLater /\ KLater
  BY <1>3 DEF CLater, KLater, Queues
<1>5. MsgInv' /\ ListInv'
  BY <1>1, <1>2, <1>4, MessagesLater, ListsUnmoved DEF BackInv
<1> QED BY <1>2, <1>5 DEF BackInv

(* C and K: what they write is right for each link they write it to.       *)
LEMMA WrittenBack ==
    ASSUME Types, BackInv, NEW q \in Queues, NEW S, NEW ms \in Seq(CbMsgs \cup AckMsgs),
           SendDown(S, ms), \A k \in S : \A m \in Range(ms) : DownOK(k, m),
           work' = [work EXCEPT ![q] = <<>>],
           UNCHANGED <<conns, up, fifo, replying>>, UNCHANGED cliVars
    PROVE  BackInv'
<1>1. /\ UNCHANGED <<owner, backlog, link, serverEnd>> /\ UNCHANGED up
      /\ UNCHANGED asked /\ UNCHANGED <<conn, cpc, ackList, inHand>>
  BY DEF conns, cliVars
<1>2. Steady /\ LinkInv' /\ AskInv' /\ UpLater
  BY <1>1, SteadyIf, LinksGo, NothingNew DEF BackInv
<1>3. CLater /\ KLater
  <2>1. Range(<<>>) = {}
    BY DEF Range
  <2>2. \A p \in Queues : Range(work'[p]) \subseteq Range(work[p])
    BY <2>1 DEF Types, ServerTypes, QueueTypes
  <2>3. Held("C")' \subseteq Held("C") /\ Held("K")' \subseteq Held("K")
    BY <2>2 DEF Held, Queues
  <2> QED BY <2>3 DEF CLater, KLater
<1>4. DownLater
  <2>1. ASSUME NEW k \in Conns, NEW m \in Range(down'[k]) PROVE m \in Range(down[k]) \/ DownOK(k, m)'
    <3>1. CASE k \in S \cap clientEnd
      <4>1. down[k] \in Seq(CbMsgs \cup AckMsgs)
        BY DEF Types, StreamTypes
      <4>2. Range(down[k] \o ms) \subseteq Range(down[k]) \cup Range(ms)
        BY <4>1, RangeConcat
      <4>3. down'[k] = down[k] \o ms
        BY <3>1 DEF SendDown
      <4>4. m \in Range(ms) => DownOK(k, m)'
        BY <1>2, <3>1, LeadsLater DEF BackInv
      <4> QED BY <4>2, <4>3, <4>4
    <3>2. CASE ~(k \in S \cap clientEnd)
      BY <2>1, <3>2 DEF SendDown
    <3> QED BY <3>1, <3>2
  <2> QED BY <2>1 DEF DownLater
<1>5. MsgInv' /\ ListInv'
  BY <1>1, <1>2, <1>3, <1>4, MessagesLater, ListsUnmoved DEF BackInv
<1> QED BY <1>2, <1>5 DEF BackInv

LEMMA ForwardBack ==
    ASSUME Types, TokenInv, BackInv, Forward, UNCHANGED cliVars
    PROVE  BackInv'
<1>1. pc["C"] = "work" /\ "C" \in Queues
  BY DEF Forward, At, Queues
<1>2. PICK item \in Requests : item = Head(work["C"]) /\ item \in Range(work["C"])
  BY <1>1, Taken DEF Types
<1>3. /\ SendDown({k \in Listed : link[k] # item.from}, Forwarded(item))
      /\ work' = [work EXCEPT !["C"] = <<>>] /\ UNCHANGED <<conns, up, fifo, replying>>
  BY <1>2 DEF Forward, Forwarded
<1>4. /\ Forwarded(item) \in Seq(CbMsgs \cup AckMsgs)
      /\ \A m \in Range(Forwarded(item)) :
            m \in CbMsgs /\ m.link = item.from /\ m.req = item.msg.req /\ m.id = item.msg.id
  BY <1>2, ForwardedIs DEF Types, ServerTypes
<1>5. Leads(item.from, item.msg.req) /\ Genuine(item.msg)
  BY <1>2 DEF BackInv, MsgInv, Held
<1>6. \A k : \A m \in Range(Forwarded(item)) : DownOK(k, m)
  BY <1>4, <1>5 DEF DownOK, CbMsgs, Genuine
<1> QED BY <1>1, <1>3, <1>4, <1>6, WrittenBack

(* Of the links held, only the asker's has the address in the answer.      *)
LEMMA AnswerBack ==
    ASSUME Types, TokenInv, BackInv, Answer, UNCHANGED cliVars
    PROVE  BackInv'
<1>1. pc["K"] = "work" /\ "K" \in Queues
  BY DEF Answer, At, Queues
<1>2. PICK item \in Replies : item = Head(work["K"]) /\ item \in Range(work["K"])
  BY <1>1, Taken DEF Types
<1>3. /\ SendDown(Answered(item), <<item.msg>>)
      /\ work' = [work EXCEPT !["K"] = <<>>] /\ UNCHANGED <<conns, up, fifo, replying>>
  BY <1>2 DEF Answer
<1>4. <<item.msg>> \in Seq(CbMsgs \cup AckMsgs) /\ Range(<<item.msg>>) = {item.msg} /\ item.msg.type = "ack"
  BY <1>2 DEF Replies, AckMsgs, Range
<1>5. Leads(item.msg.link, item.msg.req)
  BY <1>2 DEF BackInv, MsgInv, Held
<1>6. ASSUME NEW k \in Answered(item) PROVE Back(k, item.msg.req)
  <2>1. k \in serverEnd /\ link[k] # NoLink /\ link[k] = item.msg.link
    BY <1>6 DEF Answered, Listed
  <2>2. \A j \in serverEnd : link[j] = link[k] => j = k
    BY <2>1 DEF BackInv, LinkInv
  <2> QED BY <1>5, <2>1, <2>2 DEF Leads, Back
<1>7. \A k \in Answered(item) : \A m \in Range(<<item.msg>>) : DownOK(k, m)
  BY <1>4, <1>6 DEF DownOK
<1> QED BY <1>1, <1>3, <1>4, <1>7, WrittenBack

(* A: the address of a new link is no held link's.                         *)
LEMMA AcceptBack ==
    ASSUME Types, BackInv, Accept, UNCHANGED cliVars
    PROVE  BackInv'
<1>1. /\ backlog # <<>> /\ backlog' = Tail(backlog) /\ UNCHANGED <<owner, clientEnd, serverEnd>>
      /\ UNCHANGED up /\ UNCHANGED down /\ UNCHANGED <<fifo, work, replying>>
      /\ UNCHANGED asked /\ UNCHANGED <<conn, cpc, ackList, inHand>>
  BY DEF Accept, AcceptOldest, streams, srvVars, queues, cliVars
<1>2. PICK k : k = Head(backlog)
  OBVIOUS
<1>3. /\ backlog \in Seq(Conns) /\ k \in Conns /\ link \in [Conns -> Links \cup {NoLink}]
      /\ k = backlog[1] /\ 1 \in DOMAIN backlog
  BY <1>1, <1>2 DEF Types, ConnTypes
<1>4. link[k] = NoLink /\ k <= Len(owner)
  BY <1>3 DEF BackInv, LinkInv
<1>5. PICK h : /\ link' = [link EXCEPT ![k] = h]
               /\ \/ h \in {link[j] : j \in Conns \ serverEnd} \ ({link[j] : j \in serverEnd} \cup {NoLink})
                  \/ h = k /\ k \notin Range(link)
  BY <1>2 DEF Accept, AcceptOldest
<1>6. \A j \in serverEnd : link[j] # h
  BY <1>3, <1>5, ConnFacts DEF Types, Range
<1>7. link'[k] = h /\ \A j \in Conns \ {k} : link'[j] = link[j]
  BY <1>3, <1>5
<1>8. LinkInv'
  <2>1. \A i, j \in serverEnd' : link'[i] = link'[j] /\ link'[i] # NoLink => i = j
    <3>1. \A i \in serverEnd : i \in Conns
      BY ConnFacts DEF Types
    <3> QED BY <1>1, <1>6, <1>7, <3>1 DEF BackInv, LinkInv
  <2>2. /\ \A i \in DOMAIN backlog' : i + 1 \in DOMAIN backlog /\ backlog'[i] = backlog[i + 1]
        /\ \A i \in DOMAIN backlog' : i + 1 # 1 /\ i \in Int
    BY <1>1, <1>3
  <2>3. \A i \in DOMAIN backlog' : backlog'[i] # k
    BY <1>3, <2>2 DEF BackInv, LinkInv
  <2>4. \A i \in DOMAIN backlog : backlog[i] \in Conns
    BY <1>3
  <2>5. \A i \in DOMAIN backlog' : link'[backlog'[i]] = NoLink /\ backlog'[i] <= Len(owner')
    BY <1>1, <1>7, <2>2, <2>3, <2>4 DEF BackInv, LinkInv
  <2>6. \A i, j \in DOMAIN backlog' : backlog'[i] = backlog'[j] => i = j
    <3>1. \A i, j \in DOMAIN backlog' : backlog'[i] = backlog'[j] => i + 1 = j + 1
      BY <2>2 DEF BackInv, LinkInv
    <3> QED BY <2>2, <3>1
  <2>7. \A j \in Conns : j > Len(owner') => link'[j] = NoLink
    <3>1. ~(k > Len(owner))
      BY <1>3, <1>4, ConnFacts DEF Types, Conns
    <3> QED BY <1>1, <1>7, <3>1 DEF BackInv, LinkInv
  <2> QED BY <2>1, <2>5, <2>6, <2>7 DEF LinkInv
<1>9. Steady
  <2>1. \A j \in serverEnd : link[j] # NoLink => link'[j] = link[j]
    BY <1>4, <1>7, ConnFacts DEF Types
  <2> QED BY <1>1, <2>1 DEF Steady
<1>10. AskInv' /\ UpLater /\ DownLater /\ CLater /\ KLater
  <2>1. AskInv'
    BY <1>1 DEF BackInv, AskInv
  <2> QED BY <1>1, <2>1, NothingNew
<1>11. MsgInv' /\ ListInv'
  BY <1>1, <1>9, <1>10, MessagesLater, ListsUnmoved DEF BackInv
<1> QED BY <1>8, <1>10, <1>11 DEF BackInv

(* The other steps of the server take links, the backlog and messages away. *)
LEMMA GoesAwayBack ==
    ASSUME Types, BackInv, UNCHANGED cliVars, UNCHANGED <<owner, link, down>>, UNCHANGED work,
           \A q \in Queues : fifo'[q] = fifo[q] \/ fifo'[q] = <<>>, replying' = replying \/ replying' = <<>>,
           serverEnd' \subseteq serverEnd, backlog' = backlog \/ backlog' = <<>>,
           \A k \in Conns : up'[k] = up[k] \/ up'[k] = <<>>
    PROVE  BackInv'
<1>1. UNCHANGED asked /\ UNCHANGED <<conn, cpc, ackList, inHand>>
  BY DEF cliVars
<1>2. Steady /\ LinkInv' /\ AskInv' /\ DownLater
  BY <1>1, SteadyIf, LinksGo, NothingNew DEF BackInv
<1>3. UpLater /\ CLater /\ KLater
  <2>1. Range(<<>>) = {}
    BY DEF Range
  <2>2. Held("C")' \subseteq Held("C") /\ Held("K")' \subseteq Held("K")
    BY <2>1 DEF Held, Queues
  <2> QED BY <2>1, <2>2 DEF UpLater, CLater, KLater
<1>4. MsgInv' /\ ListInv'
  BY <1>1, <1>2, <1>3, MessagesLater, ListsUnmoved DEF BackInv
<1> QED BY <1>2, <1>4 DEF BackInv

LEMMA ServerBack ==
    ASSUME Types, TokenInv, BackInv, ServerStep \/ DestroyBegin, UNCHANGED cliVars
    PROVE  BackInv'
<1>1. CASE Listen \/ AcceptStop \/ ReadStop \/ ForwardFreed \/ JoinC \/ DestroyBegin
  <2>1. /\ UNCHANGED <<owner, link, down>> /\ UNCHANGED <<fifo, work, replying>> /\ serverEnd' = serverEnd
        /\ backlog' = backlog /\ up' = up
    BY <1>1 DEF Listen, AcceptStop, ReadStop, ForwardFreed, JoinC, DestroyBegin, netVars, streams, queues
  <2> QED BY <2>1, GoesAwayBack
<1>2. CASE StopListening \/ FreeManager \/ \E k \in Conns : DropLink(k)
  <2>1. /\ UNCHANGED <<owner, link, down>> /\ UNCHANGED <<fifo, work, replying>>
        /\ backlog' = backlog \/ backlog' = <<>>
        /\ \E S : CloseServer(S)
    BY <1>2 DEF StopListening, FreeManager, DropLink, srvVars, queues
  <2>2. serverEnd' \subseteq serverEnd /\ \A k \in Conns : up'[k] = up[k] \/ up'[k] = <<>>
    BY <2>1 DEF CloseServer
  <2> QED BY <2>1, <2>2, GoesAwayBack
<1>3. "C" \in Queues /\ "K" \in Queues
  BY DEF Queues
<1>4. CASE FreeAnswers
  <2>1. /\ UNCHANGED <<owner, link, down>> /\ UNCHANGED <<work, replying>> /\ serverEnd' = serverEnd
        /\ backlog' = backlog /\ up' = up /\ fifo' = [fifo EXCEPT !["K"] = <<>>]
    BY <1>4 DEF FreeAnswers, netVars
  <2>2. \A q \in Queues : fifo'[q] = fifo[q] \/ fifo'[q] = <<>>
    BY <2>1 DEF Types, ServerTypes, QueueTypes
  <2> QED BY <2>1, <2>2, GoesAwayBack
<1>5. CASE ReplyFreed
  <2>1. /\ UNCHANGED <<owner, link, down>> /\ UNCHANGED <<fifo, work>> /\ backlog' = backlog
        /\ replying' = replying \/ replying' = <<>>
        /\ (serverEnd' = serverEnd /\ up' = up) \/ CloseServer(serverEnd)
    BY <1>5 DEF ReplyFreed, queues
  <2>2. serverEnd' \subseteq serverEnd /\ \A k \in Conns : up'[k] = up[k] \/ up'[k] = <<>>
    BY <2>1 DEF CloseServer
  <2> QED BY <2>1, <2>2, GoesAwayBack
<1> QED BY <1>1, <1>2, <1>3, <1>4, <1>5, AcceptBack, ReadLinkBack, ReplyBack, ReplyWriteBack,
           TakeBack, ForwardBack, AnswerBack
        DEF ServerStep, AcceptStep, ReadStep, CbStep, AckStep, StopStep

(* The clients.  A new connection has a number nobody has asked from.      *)
LEMMA ConnectedBack ==
    ASSUME Types, BackInv, NEW c \in Clients, Connected(c), UNCHANGED srvVars
    PROVE  BackInv'
<1>1. PICK n : n = Len(owner) + 1
  OBVIOUS
<1>2. /\ Len(owner) < MaxConns /\ owner' = Append(owner, c)
      /\ backlog' = Append(backlog, n) /\ serverEnd' = serverEnd \cup {n}
      /\ conn' = [conn EXCEPT ![c] = n] /\ CAt(c, "N", "connect") /\ Alive(c)
      /\ CGoto(c, "N", IF Offers[c] = {} THEN "gone" ELSE "register")
      /\ UNCHANGED link /\ UNCHANGED up /\ UNCHANGED down /\ UNCHANGED <<fifo, work, replying>>
      /\ UNCHANGED <<ackList, inHand, asked>>
  BY <1>1 DEF Connected, Connect, calls, streams, srvVars, queues
<1>3. /\ Len(owner) \in Nat /\ n \in Conns /\ n > Len(owner) /\ n \in Nat
      /\ Len(owner') = n
  BY <1>1, <1>2, ConnFacts DEF Types, ConnTypes, Conns
<1>4. \A k \in serverEnd : k \in Conns /\ k \in Nat /\ k <= Len(owner)
  BY ConnFacts DEF Types
<1>5. Steady
  BY <1>2, <1>3 DEF Steady
<1>6. AskInv'
  <2>1. ASSUME NEW i \in 1 .. Len(asked') PROVE asked'[i].conn <= Len(owner')
    <3> DEFINE R == [conn : Conns, caller : Callers, id : Ids]
    <3>1. asked \in Seq(R) /\ i \in 1 .. Len(asked)
      BY <1>2 DEF Types, CallTypes
    <3> HIDE DEF R
    <3>2. asked[i] \in R
      BY <3>1
    <3>3. asked[i].conn \in Nat /\ asked[i].conn <= Len(owner)
      BY <3>1, <3>2 DEF R, Conns, BackInv, AskInv
    <3> QED BY <1>2, <1>1, <1>3, <3>3
  <2> QED BY <1>2, <2>1 DEF BackInv, AskInv
<1>7. LinkInv'
  <2>1. link[n] = NoLink
    BY <1>3 DEF BackInv, LinkInv
  <2>2. \A i, j \in serverEnd' : link'[i] = link'[j] /\ link'[i] # NoLink => i = j
    BY <1>2, <2>1 DEF BackInv, LinkInv
  <2>3. /\ backlog \in Seq(Conns) /\ Len(backlog) \in Nat
        /\ DOMAIN backlog = 1 .. Len(backlog) /\ DOMAIN backlog' = 1 .. Len(backlog) + 1
        /\ backlog'[Len(backlog) + 1] = n /\ \A i \in 1 .. Len(backlog) : backlog'[i] = backlog[i]
    BY <1>2, <1>3 DEF Types, ConnTypes
  <2>4. \A i \in 1 .. Len(backlog) : backlog[i] \in Nat /\ link[backlog[i]] = NoLink /\ backlog[i] <= Len(owner)
    <3>1. \A i \in 1 .. Len(backlog) : backlog[i] \in Conns
      BY <2>3
    <3>2. \A k \in Conns : k \in Nat
      BY DEF Conns
    <3> QED BY <2>3, <3>1, <3>2 DEF BackInv, LinkInv
  <2>5. \A i \in DOMAIN backlog' : i = Len(backlog) + 1 \/ i \in 1 .. Len(backlog)
    BY <2>3
  <2>6. \A i \in 1 .. Len(backlog) : backlog'[i] # n /\ backlog'[i] <= n
    BY <1>1, <1>3, <2>3, <2>4
  <2>7. \A i \in DOMAIN backlog' : link'[backlog'[i]] = NoLink /\ backlog'[i] <= Len(owner')
    BY <1>2, <1>3, <2>1, <2>3, <2>4, <2>5, <2>6
  <2>8. \A i, j \in 1 .. Len(backlog) : backlog[i] = backlog[j] => i = j
    BY <2>3 DEF BackInv, LinkInv
  <2>9. \A i, j \in DOMAIN backlog' : backlog'[i] = backlog'[j] => i = j
    BY <2>3, <2>5, <2>6, <2>8
  <2>10. \A k \in Conns : k > Len(owner') => link'[k] = NoLink
    <3>1. \A k \in Conns : k > n => k > Len(owner)
      BY <1>1, <1>3 DEF Conns
    <3> QED BY <1>2, <1>3, <3>1 DEF BackInv, LinkInv
  <2> QED BY <2>2, <2>7, <2>9, <2>10 DEF LinkInv
<1>8. UpLater /\ DownLater /\ CLater /\ KLater
  BY <1>2, NothingNew
<1>9. ListInv'
  <2>1. Answers(c) = {} /\ \A d \in Clients : Answers(d)' = Answers(d)
    BY <1>2 DEF BackInv, ListInv, Answers
  <2>2. ListLater
    <3>2. \A d \in Clients \ {c} : conn'[d] = conn[d]
      BY <1>2 DEF Types, ClientTypes
    <3> QED BY <2>1, <3>2 DEF ListLater
  <2>3. cpc'[c].N # "connect" /\ cpc'[c].D # "gone" /\ \A d \in Clients \ {c} : cpc'[d] = cpc[d]
    <3>1. cpc \in [Clients -> [N : {"connect", "register", "gone"}, H : {"run", "gone"},
                               D : {"idle", "joinH", "gone"}]]
      BY DEF Types, ClientTypes
    <3> QED BY <1>2, <3>1 DEF CGoto, Alive, CAt
  <2>4. conn'[c] = n /\ n # 0 /\ \A d \in Clients \ {c} : conn'[d] = conn[d]
    BY <1>1, <1>2, <1>3 DEF Types, ClientTypes
  <2>5. \A d \in Clients :
           /\ CAt(d, "N", "connect")' \/ CAt(d, "D", "gone")' => conn'[d] = 0
           /\ conn'[d] = 0 => Answers(d)' = {}
    BY <2>1, <2>3, <2>4 DEF CAt, BackInv, ListInv
  <2> QED BY <1>5, <2>2, <2>5, ListsLater DEF BackInv
<1>10. MsgInv'
  BY <1>5, <1>8, MessagesLater DEF BackInv
<1> QED BY <1>6, <1>7, <1>9, <1>10 DEF BackInv

(* A client that only moves on, without connecting or ending.              *)
LEMMA MovesBack ==
    ASSUME Types, BackInv, UNCHANGED netVars, UNCHANGED srvVars, UNCHANGED <<conn, ackList, inHand, asked>>,
           \A c \in Clients : CAt(c, "N", "connect")' \/ CAt(c, "D", "gone")' => conn[c] = 0
    PROVE  BackInv'
<1>1. /\ UNCHANGED <<owner, link, backlog, serverEnd>> /\ UNCHANGED up /\ UNCHANGED down
      /\ UNCHANGED <<fifo, work, replying>>
  BY DEF netVars, srvVars, queues
<1>2. Steady /\ LinkInv' /\ AskInv' /\ UpLater /\ CLater /\ KLater /\ DownLater /\ ListLater
  BY <1>1, SteadyIf, LinksGo, NothingNew DEF BackInv
<1>3. MsgInv'
  BY <1>2, MessagesLater DEF BackInv
<1>4. \A c \in Clients : conn'[c] = 0 => Answers(c)' = {}
  BY DEF BackInv, ListInv, Answers
<1>5. ListInv'
  BY <1>2, <1>4, ListsLater DEF BackInv
<1> QED BY <1>2, <1>3, <1>5 DEF BackInv

(* A thread that ends, or a Destroy that begins, is no new connect.        *)
LEMMA CGotoMoves ==
    ASSUME Types, BackInv, NEW c \in Clients, UNCHANGED conn,
           CGoto(c, "N", "gone") \/ CGoto(c, "H", "gone") \/ CGoto(c, "D", "joinH")
    PROVE  \A d \in Clients : CAt(d, "N", "connect")' \/ CAt(d, "D", "gone")' => conn[d] = 0
<1>1. cpc \in [Clients -> [N : {"connect", "register", "gone"}, H : {"run", "gone"},
                           D : {"idle", "joinH", "gone"}]]
  BY DEF Types, ClientTypes
<1>2. \A d \in Clients : /\ cpc'[d].N = "connect" => cpc[d].N = "connect"
                         /\ cpc'[d].D = "gone" => cpc[d].D = "gone"
  BY <1>1 DEF CGoto
<1> QED BY <1>2 DEF BackInv, ListInv, CAt

LEMMA SentUpIs ==
    ASSUME Types, NEW k, NEW m \in Msgs, SendUp(k, m)
    PROVE  \A j \in Conns : up'[j] = up[j] \/ (j = k /\ Range(up'[j]) = Range(up[j]) \cup {m})
<1>1. CASE k \in clientEnd \cap serverEnd
  <2>1. k \in Conns /\ up' = [up EXCEPT ![k] = Append(@, m)] /\ up \in [Conns -> Seq(Msgs)]
    BY <1>1, ConnFacts DEF SendUp, Types, StreamTypes
  <2>2. Range(Append(up[k], m)) = Range(up[k]) \cup {m}
    BY <2>1, RangeAppend
  <2> QED BY <2>1, <2>2
<1>2. CASE ~(k \in clientEnd \cap serverEnd)
  BY <1>2 DEF SendUp
<1> QED BY <1>1, <1>2

LEMMA RegisterBack ==
    ASSUME Types, BackInv, NEW c \in Clients, Register(c), UNCHANGED srvVars
    PROVE  BackInv'
<1>1. PICK k, m : k = conn[c] /\ m = [type |-> "cbid", ids |-> Offers[c]]
  OBVIOUS
<1>2. /\ SendUp(k, m) /\ CGoto(c, "N", "gone") /\ UNCHANGED <<owner, link, backlog, serverEnd>>
      /\ UNCHANGED down /\ UNCHANGED <<fifo, work, replying>> /\ UNCHANGED <<conn, ackList, inHand, asked>>
  BY <1>1 DEF Register, conns, calls, srvVars, queues
<1>3. m \in Msgs /\ m.type = "cbid"
  BY <1>1, IpcAssumption DEF Msgs
<1>4. Steady /\ LinkInv' /\ AskInv' /\ CLater /\ KLater /\ DownLater /\ ListLater
  BY <1>2, SteadyIf, LinksGo, NothingNew DEF BackInv
<1>5. UpLater
  <2>1. \A j : UpOK(j, m)'
    BY <1>3 DEF UpOK
  <2> QED BY <1>2, <1>3, <2>1, SentUpIs DEF UpLater
<1>6. MsgInv'
  BY <1>4, <1>5, MessagesLater DEF BackInv
<1>7. ListInv'
  <2>1. \A d \in Clients : CAt(d, "N", "connect")' \/ CAt(d, "D", "gone")' => conn[d] = 0
    BY <1>2, CGotoMoves
  <2>2. \A d \in Clients : conn'[d] = 0 => Answers(d)' = {}
    BY <1>2 DEF BackInv, ListInv, Answers
  <2> QED BY <1>2, <1>4, <2>1, <2>2, ListsLater DEF BackInv
<1> QED BY <1>4, <1>6, <1>7 DEF BackInv

(* H reads only answers that are back.                                     *)
LEMMA ReadAckBack ==
    ASSUME Types, BackInv, NEW c \in Clients, ReadAck(c), UNCHANGED srvVars
    PROVE  BackInv'
<1>1. PICK k, m : k = conn[c] /\ m = Head(down[k])
  OBVIOUS
<1>2. /\ Arrived(c, "ack") /\ inHand' = [inHand EXCEPT ![c] = <<m>>]
      /\ UNCHANGED <<owner, link, backlog, serverEnd>> /\ UNCHANGED up
      /\ UNCHANGED <<fifo, work, replying>> /\ UNCHANGED <<conn, cpc, ackList>> /\ UNCHANGED asked
  BY <1>1 DEF ReadAck, conns, calls, srvVars, queues
<1>3. /\ k \in Conns /\ m \in AckMsgs /\ m \in Range(down[k])
      /\ Range(Tail(down[k])) \subseteq Range(down[k]) /\ down' = [down EXCEPT ![k] = Tail(@)]
      /\ k # 0
  BY <1>1, <1>2, ArrivedIs DEF Arrived, Reads
<1>4. Steady /\ LinkInv' /\ AskInv' /\ UpLater /\ CLater /\ KLater
  BY <1>2, SteadyIf, LinksGo, NothingNew DEF BackInv
<1>5. DownLater
  <2>1. \A j \in Conns : Range(down'[j]) \subseteq Range(down[j])
    BY <1>3 DEF Types, StreamTypes
  <2> QED BY <2>1 DEF DownLater
<1>6. Back(k, m.req)
  BY <1>3 DEF BackInv, MsgInv, DownOK, AckMsgs
<1>7. Back(k, m.req)'
  BY <1>4, <1>6, LeadsLater DEF BackInv
<1>8. /\ Answers(c)' \subseteq Answers(c) \cup {m}
      /\ \A d \in Clients \ {c} : Answers(d)' = Answers(d)
  <2>1. Range(<<m>>) = {m}
    BY DEF Range
  <2>2. inHand'[c] = <<m>> /\ \A d \in Clients \ {c} : inHand'[d] = inHand[d]
    BY <1>2 DEF Types, CallTypes
  <2> QED BY <1>2, <2>1, <2>2 DEF Answers
<1>9. ListLater
  <2>1. Back(conn[c], m.req)'
    BY <1>1, <1>2, <1>7 DEF Back
  <2> QED BY <1>2, <1>8, <2>1 DEF ListLater
<1>10. ListInv'
  <2>1. \A d \in Clients : conn'[d] = 0 => Answers(d)' = {}
    BY <1>1, <1>2, <1>3, <1>8 DEF BackInv, ListInv
  <2>2. \A d \in Clients : CAt(d, "N", "connect")' \/ CAt(d, "D", "gone")' => conn'[d] = 0
    BY <1>2 DEF BackInv, ListInv, CAt
  <2> QED BY <1>4, <1>9, <2>1, <2>2, ListsLater DEF BackInv
<1>11. MsgInv'
  BY <1>4, <1>5, MessagesLater DEF BackInv
<1> QED BY <1>4, <1>10, <1>11 DEF BackInv

LEMMA HandleAckBack ==
    ASSUME Types, BackInv, NEW c \in Clients, HandleAck(c), UNCHANGED srvVars
    PROVE  BackInv'
<1>1. /\ ackList' = [ackList EXCEPT ![c] = @ \o inHand[c]] /\ inHand' = [inHand EXCEPT ![c] = <<>>]
      /\ UNCHANGED <<owner, link, backlog, serverEnd>> /\ UNCHANGED up /\ UNCHANGED down
      /\ UNCHANGED <<fifo, work, replying>> /\ UNCHANGED <<conn, cpc>> /\ UNCHANGED asked
  BY DEF HandleAck, netVars, calls, srvVars, queues
<1>2. Steady /\ LinkInv' /\ AskInv' /\ UpLater /\ DownLater /\ CLater /\ KLater
  BY <1>1, SteadyIf, LinksGo, NothingNew DEF BackInv
<1>3. \A d \in Clients : Answers(d)' \subseteq Answers(d)
  <2>1. ackList \in [Clients -> Seq(AckMsgs)] /\ inHand \in [Clients -> Seq(AckMsgs)]
    BY DEF Types, CallTypes
  <2>2. Range(ackList[c] \o inHand[c]) \subseteq Range(ackList[c]) \cup Range(inHand[c])
    <3>1. ackList[c] \in Seq(AckMsgs) /\ inHand[c] \in Seq(AckMsgs)
      BY <2>1
    <3> QED BY <3>1, RangeConcat
  <2>3. /\ ackList'[c] = ackList[c] \o inHand[c] /\ inHand'[c] = <<>>
        /\ \A d \in Clients \ {c} : ackList'[d] = ackList[d] /\ inHand'[d] = inHand[d]
    BY <1>1, <2>1
  <2>4. Range(<<>>) = {}
    BY DEF Range
  <2> QED BY <2>2, <2>3, <2>4 DEF Answers
<1>4. ListLater
  BY <1>1, <1>3 DEF ListLater
<1>5. ListInv'
  <2>1. \A d \in Clients : conn'[d] = 0 => Answers(d)' = {}
    BY <1>1, <1>3 DEF BackInv, ListInv
  <2>2. \A d \in Clients : CAt(d, "N", "connect")' \/ CAt(d, "D", "gone")' => conn'[d] = 0
    BY <1>1 DEF BackInv, ListInv, CAt
  <2> QED BY <1>2, <1>4, <2>1, <2>2, ListsLater DEF BackInv
<1>6. MsgInv'
  BY <1>2, MessagesLater DEF BackInv
<1> QED BY <1>2, <1>5, <1>6 DEF BackInv

(* An answer carries the address the request came with.                    *)
LEMMA HandleCbBack ==
    ASSUME Types, BackInv, NEW c \in Clients, HandleCb(c), UNCHANGED srvVars
    PROVE  BackInv'
<1>1. PICK k, m : k = conn[c] /\ m = Head(down[k])
  OBVIOUS
<1>2. PICK a : a = [m EXCEPT !.type = "ack"]
  OBVIOUS
<1>3. /\ Arrived(c, "cb") /\ SendUp(k, a)
      /\ UNCHANGED <<owner, link, backlog, serverEnd>>
      /\ UNCHANGED <<fifo, work, replying>> /\ UNCHANGED <<conn, cpc, ackList, inHand>> /\ UNCHANGED asked
  BY <1>1, <1>2 DEF HandleCb, conns, calls, srvVars, queues
<1>4. /\ k \in Conns /\ m \in CbMsgs /\ m \in Range(down[k])
      /\ Range(Tail(down[k])) \subseteq Range(down[k]) /\ down' = [down EXCEPT ![k] = Tail(@)]
  BY <1>1, <1>3, ArrivedIs
<1>5. a \in Msgs /\ a.type = "ack" /\ a.link = m.link /\ a.req = m.req
  BY <1>2, <1>4 DEF CbMsgs, Msgs
<1>6. Steady /\ LinkInv' /\ AskInv' /\ CLater /\ KLater
  BY <1>3, SteadyIf, LinksGo, NothingNew DEF BackInv
<1>7. DownLater
  <2>1. \A j \in Conns : Range(down'[j]) \subseteq Range(down[j])
    BY <1>4 DEF Types, StreamTypes
  <2> QED BY <2>1 DEF DownLater
<1>8. Leads(a.link, a.req)
  BY <1>4, <1>5 DEF BackInv, MsgInv, DownOK, CbMsgs
<1>9. UpLater
  <2>1. \A j : UpOK(j, a)
    BY <1>5, <1>8 DEF UpOK
  <2>2. \A j : UpOK(j, a)'
    BY <1>6, <2>1, LeadsLater DEF BackInv
  <2> QED BY <1>3, <1>5, <2>2, SentUpIs DEF UpLater
<1>10. MsgInv' /\ ListInv'
  BY <1>3, <1>6, <1>7, <1>9, MessagesLater, ListsUnmoved DEF BackInv
<1> QED BY <1>6, <1>10 DEF BackInv

(* A new request goes up its asker's connection.                           *)
LEMMA AskBack ==
    ASSUME Types, BackInv, NEW t \in Callers, Ask(t), UNCHANGED srvVars
    PROVE  BackInv'
<1>1. PICK k, n : k = conn[Home[t]] /\ n = Len(asked) + 1
  OBVIOUS
<1>2. /\ k \in serverEnd /\ k \in Conns /\ Len(asked) \in Nat /\ n \in Reqs
      /\ UNCHANGED <<owner, link, backlog, serverEnd>> /\ UNCHANGED down
      /\ UNCHANGED <<fifo, work, replying>> /\ UNCHANGED <<conn, cpc, ackList, inHand>>
  BY <1>1, Asking DEF conns, srvVars, queues
<1>3. PICK m, r : /\ SendUp(k, m) /\ m \in CbMsgs /\ m.req = n
                  /\ asked' = Append(asked, r) /\ r.conn = k /\ r.id = m.id
                  /\ r \in [conn : Conns, caller : Callers, id : Ids]
  <2>1. PICK id \in Ids :
            /\ SendUp(k, [type |-> "cb", id |-> id, link |-> NoLink, req |-> n])
            /\ [type |-> "cb", id |-> id, link |-> NoLink, req |-> n] \in CbMsgs
            /\ asked' = Append(asked, [conn |-> k, caller |-> t, id |-> id])
            /\ [conn |-> k, caller |-> t, id |-> id] \in [conn : Conns, caller : Callers, id : Ids]
    BY <1>1, Asking
  <2>2. /\ [type |-> "cb", id |-> id, link |-> NoLink, req |-> n].req = n
        /\ [type |-> "cb", id |-> id, link |-> NoLink, req |-> n].id = id
        /\ [conn |-> k, caller |-> t, id |-> id].conn = k
        /\ [conn |-> k, caller |-> t, id |-> id].id = id
    OBVIOUS
  <2> QED BY <2>1, <2>2
<1>4. /\ Len(asked') = n /\ asked'[n] = r /\ n \in 1 .. Len(asked')
      /\ \A i \in 1 .. Len(asked) : i \in 1 .. Len(asked') /\ asked'[i] = asked[i]
      /\ \A i \in 1 .. Len(asked') : i = n \/ i \in 1 .. Len(asked)
  <2> DEFINE R == [conn : Conns, caller : Callers, id : Ids]
  <2>1. asked \in Seq(R) /\ r \in R
    BY <1>3 DEF Types, CallTypes
  <2> HIDE DEF R
  <2> QED BY <1>1, <1>2, <1>3, <2>1
<1>5. Steady
  BY <1>2, <1>4 DEF Steady
<1>6. AskInv'
  <2>1. k \in 1 .. Len(owner) /\ Len(owner) \in Nat
    BY <1>2, ConnFacts DEF Types
  <2>2. k <= Len(owner)
    BY <2>1
  <2>3. Len(asked') <= MaxCalls
    BY <1>2, <1>4, IpcAssumption DEF Reqs
  <2> QED BY <1>2, <1>3, <1>4, <2>2, <2>3 DEF BackInv, AskInv
<1>7. LinkInv'
  BY <1>2 DEF BackInv, LinkInv
<1>8. m \in Msgs /\ m.type = "cb"
  BY <1>3, CallMsgsAre DEF CbMsgs
<1>9. UpLater
  <2>1. UpOK(k, m)'
    BY <1>3, <1>4, <1>8 DEF UpOK, Genuine
  <2> QED BY <1>3, <1>8, <2>1, SentUpIs DEF UpLater
<1>10. CLater /\ KLater /\ DownLater
  BY <1>2, NothingNew
<1>11. MsgInv' /\ ListInv'
  BY <1>2, <1>5, <1>9, <1>10, MessagesLater, ListsUnmoved DEF BackInv
<1> QED BY <1>6, <1>7, <1>11 DEF BackInv

LEMMA EnterBack ==
    ASSUME Types, BackInv, NEW t \in Callers, Enter(t), UNCHANGED srvVars
    PROVE  BackInv'
<1>1. /\ Home[t] \in Clients /\ UNCHANGED netVars /\ UNCHANGED <<conn, cpc, inHand, asked>>
  BY Entering
<1>2. /\ UNCHANGED <<owner, link, backlog, serverEnd>> /\ UNCHANGED up /\ UNCHANGED down
      /\ UNCHANGED <<fifo, work, replying>>
  BY <1>1 DEF netVars, srvVars, queues
<1>3. PICK left \in Seq(AckMsgs) : /\ Range(left) \subseteq Range(ackList[Home[t]])
                                   /\ ackList' = [ackList EXCEPT ![Home[t]] = left]
  BY Entering
<1>4. Steady /\ LinkInv' /\ AskInv' /\ UpLater /\ CLater /\ KLater /\ DownLater
  BY <1>1, <1>2, SteadyIf, LinksGo, NothingNew DEF BackInv
<1>5. MsgInv'
  BY <1>4, MessagesLater DEF BackInv
<1>6. \A c \in Clients : Answers(c)' \subseteq Answers(c)
  BY <1>1, <1>3 DEF Types, CallTypes, Answers
<1>7. ListLater
  BY <1>1, <1>6 DEF ListLater
<1>8. \A c \in Clients : conn'[c] = 0 => Answers(c)' = {}
  BY <1>1, <1>6 DEF BackInv, ListInv
<1>9. \A c \in Clients : CAt(c, "N", "connect")' \/ CAt(c, "D", "gone")' => conn'[c] = 0
  BY <1>1 DEF BackInv, ListInv, CAt
<1>10. ListInv'
  BY <1>4, <1>7, <1>8, <1>9, ListsLater DEF BackInv
<1> QED BY <1>4, <1>5, <1>10 DEF BackInv

(* The end of a client empties its list, and nothing more comes down.      *)
LEMMA EndedBack ==
    ASSUME Types, BackInv, NEW c \in Clients, NEW l, Ended(c, l), UNCHANGED srvVars
    PROVE  BackInv'
<1>1. /\ cpc' = [cpc EXCEPT ![c] = [N |-> "gone", H |-> "gone", D |-> "gone"]]
      /\ conn' = [conn EXCEPT ![c] = 0] /\ ackList' = [ackList EXCEPT ![c] = <<>>]
      /\ inHand' = [inHand EXCEPT ![c] = <<>>]
      /\ down' = down \/ down' = [down EXCEPT ![conn[c]] = <<>>]
      /\ UNCHANGED <<owner, link, backlog, serverEnd>> /\ UNCHANGED up
      /\ UNCHANGED <<fifo, work, replying>> /\ UNCHANGED asked
  BY DEF Ended, CloseClient, srvVars, queues
<1>2. Steady /\ LinkInv' /\ AskInv' /\ UpLater /\ CLater /\ KLater
  BY <1>1, SteadyIf, LinksGo, NothingNew DEF BackInv
<1>3. Range(<<>>) = {}
  BY DEF Range
<1>4. DownLater
  BY <1>1, <1>3 DEF DownLater, Types, StreamTypes
<1>5. MsgInv'
  BY <1>2, <1>4, MessagesLater DEF BackInv
<1>6. /\ conn'[c] = 0 /\ Answers(c)' = {}
      /\ \A d \in Clients \ {c} : conn'[d] = conn[d] /\ Answers(d)' = Answers(d) /\ cpc'[d] = cpc[d]
  BY <1>1, <1>3 DEF Types, ClientTypes, CallTypes, Answers
<1>7. ListLater
  BY <1>6 DEF ListLater
<1>8. \A d \in Clients :
         /\ CAt(d, "N", "connect")' \/ CAt(d, "D", "gone")' => conn'[d] = 0
         /\ conn'[d] = 0 => Answers(d)' = {}
  BY <1>6 DEF BackInv, ListInv, CAt
<1>9. ListInv'
  BY <1>2, <1>7, <1>8, ListsLater DEF BackInv
<1> QED BY <1>2, <1>5, <1>9 DEF BackInv

LEMMA StartBack ==
    ASSUME Types, BackInv, NEW c \in Clients, Start(c), UNCHANGED srvVars
    PROVE  BackInv'
<1>1. /\ ~Alive(c) /\ cpc' = [cpc EXCEPT ![c] = [N |-> "connect", H |-> "run", D |-> "idle"]]
      /\ UNCHANGED netVars /\ UNCHANGED <<conn, ackList, inHand, asked>>
  BY DEF Start
<1>2. conn[c] = 0
  BY <1>1 DEF Alive, BackInv, ListInv
<1>3. \A d \in Clients \ {c} : cpc'[d] = cpc[d]
  BY <1>1 DEF Types, ClientTypes
<1>4. \A d \in Clients : CAt(d, "N", "connect")' \/ CAt(d, "D", "gone")' => conn[d] = 0
  BY <1>2, <1>3 DEF CAt, BackInv, ListInv
<1> QED BY <1>1, <1>4, MovesBack

LEMMA ClientBack ==
    ASSUME Types, BackInv, NEW c \in Clients, ClientStep(c) \/ CloseExit(c) \/ Die(c), UNCHANGED srvVars
    PROVE  BackInv'
<1>1. CASE ConnectFailed(c) \/ HandleClosed(c) \/ HandleExit(c) \/ CloseExit(c)
  <2>1. /\ UNCHANGED netVars /\ UNCHANGED <<conn, ackList, inHand, asked>> /\ UNCHANGED conn
        /\ CGoto(c, "N", "gone") \/ CGoto(c, "H", "gone") \/ CGoto(c, "D", "joinH")
    BY <1>1 DEF ConnectFailed, HandleClosed, HandleExit, CloseExit, calls
  <2>2. \A d \in Clients : CAt(d, "N", "connect")' \/ CAt(d, "D", "gone")' => conn[d] = 0
    BY <2>1, CGotoMoves
  <2> QED BY <2>1, <2>2, MovesBack
<1>2. CASE CloseFree(c) \/ Die(c)
  BY <1>2, EndedBack DEF CloseFree, Die
<1> QED BY <1>1, <1>2, ConnectedBack, RegisterBack, ReadAckBack, HandleAckBack,
           HandleCbBack, StartBack
        DEF ClientStep, ConnectStep, HandleStep

LEMMA CallerBack ==
    ASSUME Types, BackInv, NEW t \in Callers, CallerStep(t), UNCHANGED srvVars
    PROVE  BackInv'
<1>1. CASE LeaveOnExit(t) \/ TimeOut(t)
  <2>1. UNCHANGED netVars /\ UNCHANGED <<conn, ackList, inHand, asked>> /\ UNCHANGED cpc
    BY <1>1 DEF LeaveOnExit, TimeOut
  <2>2. \A d \in Clients : CAt(d, "N", "connect")' \/ CAt(d, "D", "gone")' => conn[d] = 0
    BY <2>1 DEF CAt, BackInv, ListInv
  <2> QED BY <2>1, <2>2, MovesBack
<1> QED BY <1>1, AskBack, EnterBack DEF CallerStep, WaitStep

LEMMA BackNext ==
    Types /\ TokenInv /\ BackInv /\ [Next]_vars => BackInv'
<1> SUFFICES ASSUME Types, TokenInv, BackInv, [Next]_vars PROVE BackInv'
  OBVIOUS
<1>1. CASE ServerPart
  <2>1. UNCHANGED cliVars /\ ServerStep
    BY <1>1 DEF ServerPart
  <2> QED BY <2>1, ServerBack
<1>2. CASE ClientPart
  <2>1. UNCHANGED srvVars /\ \E c \in Clients : ClientStep(c)
    BY <1>2 DEF ClientPart
  <2> QED BY <2>1, ClientBack
<1>3. CASE CallerPart
  <2>1. UNCHANGED srvVars /\ \E t \in Callers : CallerStep(t)
    BY <1>3 DEF CallerPart
  <2> QED BY <2>1, CallerBack
<1>4. CASE End
  <2>1. CASE DestroyBegin /\ UNCHANGED cliVars
    BY <2>1, ServerBack
  <2>2. CASE (\E c \in Clients : CloseExit(c) \/ Die(c)) /\ UNCHANGED srvVars
    BY <2>2, ClientBack
  <2> QED BY <1>4, <2>1, <2>2, IpcAssumption DEF End
<1>5. CASE UNCHANGED vars
  <2>1. UNCHANGED netVars /\ UNCHANGED srvVars /\ UNCHANGED <<conn, ackList, inHand, asked>> /\ UNCHANGED cpc
    BY <1>5 DEF vars, cliVars
  <2>2. \A d \in Clients : CAt(d, "N", "connect")' \/ CAt(d, "D", "gone")' => conn[d] = 0
    BY <2>1 DEF CAt, BackInv, ListInv
  <2> QED BY <2>1, <2>2, MovesBack
<1> QED BY <1>1, <1>2, <1>3, <1>4, <1>5 DEF Next, ServerPart, ClientPart, CallerPart

(* An answer reaches nobody but the client that asked, as long as the      *)
(* server holds that client's link, however links, clients and addresses   *)
(* come and go.                                                            *)
THEOREM AnswersComeBack == Spec => []AnswersGoBack
<1>1. Types /\ BackInv => AnswersGoBack
  <2> SUFFICES ASSUME Types, BackInv, NEW k \in Conns, NEW m \in AnswersFor(k)
               PROVE  asked[m.req].conn = k \/ asked[m.req].conn \notin serverEnd
    BY DEF AnswersGoBack
  <2>1. CASE m \in Range(down[k]) /\ m.type = "ack"
    BY <2>1 DEF BackInv, MsgInv, DownOK, Back
  <2>2. CASE \E c \in Clients : conn[c] = k /\ m \in Answers(c)
    BY <2>2 DEF BackInv, ListInv, Back
  <2>3. \A c \in Clients : Range(ackList[c] \o inHand[c]) \subseteq Answers(c)
    <3>1. \A c \in Clients : ackList[c] \in Seq(AckMsgs) /\ inHand[c] \in Seq(AckMsgs)
      BY DEF Types, CallTypes
    <3> QED BY <3>1, RangeConcat DEF Answers
  <2> QED BY <2>1, <2>2, <2>3 DEF AnswersFor
<1>2. Init => BackInv
  BY InitBack
<1> QED BY <1>1, <1>2, TypesHold, BackNext, PTL DEF Spec

-----------------------------------------------------------------------------
(* How often a function runs for a request.  A request waits in one place, *)
(* the stream it came up or the line of C, and nothing has run for it; C   *)
(* takes it off the line and copies it to the links.  From then on each    *)
(* copy has a turn of its own: its place in its stream, less what came     *)
(* before it there, is a number up to that of the registrations, and no    *)
(* function has run at that turn for that link.                            *)
Wanted(m, n) == m.type = "cb" /\ m.req = n
Spots(s, n)  == {p \in 1 .. Len(s) : Wanted(s[p], n)}

Line         == work["C"] \o fifo["C"]
LineSpots(n) == {p \in 1 .. Len(Line) : Line[p].msg.req = n}

AtMostOne(S) == \A p, q \in S : p = q

InUp(n)    == \E k \in Conns : Spots(up[k], n) # {}
Waiting(n) == InUp(n) \/ LineSpots(n) # {} \/ n > Len(asked)

Once(n) ==
    /\ \A k \in Conns : AtMostOne(Spots(up[k], n))
    /\ AtMostOne(LineSpots(n))
    /\ ~(InUp(n) /\ LineSpots(n) # {})

Fresh(n) == runs[n] = 0 /\ \A k \in Conns : Spots(down[k], n) = {}

Offering(n) == {k \in DOMAIN owner : asked[n].id \in Offers[owner[k]]}
Turns(n)    == 1 .. Cardinality(Registrations(asked[n].id))

TurnsLeft(n, X, off) ==
    \A k \in Conns : \A p \in Spots(down[k], n) : p - off[k] \in Turns(n) /\ <<k, p - off[k]>> \notin X

Tallied(n, X, off) ==
    /\ X \subseteq Offering(n) \X Turns(n) /\ Cardinality(X) = runs[n]
    /\ off \in [Conns -> Int] /\ TurnsLeft(n, X, off)

Counted(n) == \E X, off : Tallied(n, X, off)

Track(n) == Once(n) /\ (Fresh(n) \/ (~Waiting(n) /\ Counted(n)))

OwnInv == \A c \in Clients : conn[c] # 0 => conn[c] \in 1 .. Len(owner) /\ owner[conn[c]] = c

RunInv == OwnInv /\ \A n \in Reqs : Track(n)

(* What a stream has of a request it had before, d places further on.      *)
From(s, t, d, n) == \A p \in Spots(t, n) : p + d \in Spots(s, n)

LEMMA FromKeeps ==
    ASSUME NEW s, NEW t, NEW n, NEW d \in Int, From(s, t, d, n)
    PROVE  /\ AtMostOne(Spots(s, n)) => AtMostOne(Spots(t, n))
           /\ Spots(s, n) = {} => Spots(t, n) = {}
<1>1. Spots(t, n) \subseteq Int
  BY DEF Spots
<1>2. ASSUME AtMostOne(Spots(s, n)), NEW p \in Spots(t, n), NEW q \in Spots(t, n) PROVE p = q
  <2>1. p + d = q + d
    BY <1>2 DEF From, AtMostOne
  <2>2. p \in Int /\ q \in Int
    BY <1>1
  <2> QED BY <2>1, <2>2
<1> QED BY <1>2 DEF From, AtMostOne

LEMMA FromSame ==
    ASSUME NEW s, NEW n
    PROVE  From(s, s, 0, n)
BY DEF From, Spots

LEMMA FromNone ==
    ASSUME NEW s, NEW n
    PROVE  From(s, <<>>, 0, n)
BY DEF From, Spots

LEMMA FromTail ==
    ASSUME NEW S, NEW s \in Seq(S), s # <<>>, NEW n
    PROVE  From(s, Tail(s), 1, n)
<1>1. /\ Len(Tail(s)) = Len(s) - 1 /\ Len(s) \in Nat
      /\ \A p \in 1 .. Len(s) - 1 : Tail(s)[p] = s[p + 1] /\ p + 1 \in 1 .. Len(s)
  OBVIOUS
<1> QED BY <1>1 DEF From, Spots

LEMMA FromConcat ==
    ASSUME NEW S, NEW s \in Seq(S), NEW T, NEW t \in Seq(T), NEW n,
           \A m \in Range(t) : ~Wanted(m, n)
    PROVE  From(s, s \o t, 0, n)
<1>1. /\ Len(s) \in Nat /\ Len(t) \in Nat /\ Len(s \o t) = Len(s) + Len(t) /\ DOMAIN t = 1 .. Len(t)
      /\ \A p \in 1 .. Len(s) : (s \o t)[p] = s[p]
      /\ \A p \in Len(s) + 1 .. Len(s) + Len(t) : (s \o t)[p] = t[p - Len(s)]
  OBVIOUS
<1>2. ASSUME NEW p \in Spots(s \o t, n) PROVE p + 0 \in Spots(s, n)
  <2>1. p \in 1 .. Len(s) + Len(t) /\ Wanted((s \o t)[p], n)
    BY <1>1 DEF Spots
  <2>2. CASE p \in 1 .. Len(s)
    BY <1>1, <2>1, <2>2 DEF Spots
  <2>3. CASE p \in Len(s) + 1 .. Len(s) + Len(t)
    <3>1. p - Len(s) \in 1 .. Len(t)
      BY <1>1, <2>3
    <3>2. t[p - Len(s)] \in Range(t)
      BY <1>1, <3>1 DEF Range
    <3> QED BY <1>1, <2>1, <2>3, <3>2
  <2> QED BY <1>1, <2>1, <2>2, <2>3
<1> QED BY <1>2 DEF From

LEMMA FromAppend ==
    ASSUME NEW S, NEW s \in Seq(S), NEW m, NEW n
    PROVE  /\ ~Wanted(m, n) => From(s, Append(s, m), 0, n)
           /\ Spots(Append(s, m), n) \subseteq Spots(s, n) \cup {Len(s) + 1}
<1>1. /\ Len(s) \in Nat /\ Len(Append(s, m)) = Len(s) + 1 /\ Append(s, m)[Len(s) + 1] = m
      /\ \A p \in 1 .. Len(s) : Append(s, m)[p] = s[p]
  OBVIOUS
<1>2. \A p \in 1 .. Len(s) + 1 : p \in 1 .. Len(s) \/ p = Len(s) + 1
  BY <1>1
<1>3. ASSUME NEW p \in Spots(Append(s, m), n)
      PROVE  p \in Spots(s, n) \/ (p = Len(s) + 1 /\ Wanted(m, n))
  BY <1>1, <1>2 DEF Spots
<1>4. Spots(s, n) \subseteq Int
  BY DEF Spots
<1>5. \A p \in Spots(s, n) : p + 0 = p
  BY <1>4
<1> QED BY <1>3, <1>5 DEF From

-----------------------------------------------------------------------------
(* A step that brings nothing new for a request.                           *)
UpFrom(n)   == \A k \in Conns : \E d \in Int : From(up[k], up'[k], d, n)
DownFrom(n) == \A k \in Conns : \E d \in Int : From(down[k], down'[k], d, n)
LineFrom(n) == \E d \in Int : \A p \in LineSpots(n)' : p + d \in LineSpots(n)

Grows ==
    /\ \A k \in DOMAIN owner : k \in DOMAIN owner' /\ owner'[k] = owner[k]
    /\ \A i \in DOMAIN cbIds : i \in DOMAIN cbIds' /\ cbIds'[i] = cbIds[i]

AsksStay == \A n \in 1 .. Len(asked) : n \in 1 .. Len(asked') /\ asked'[n] = asked[n]

LEMMA WaitsLess ==
    ASSUME NEW n \in Reqs, UpFrom(n), LineFrom(n), Once(n)
    PROVE  /\ Once(n)' /\ (InUp(n)' => InUp(n))
           /\ LineSpots(n)' # {} => LineSpots(n) # {}
<1>1. ASSUME NEW k \in Conns
      PROVE  /\ AtMostOne(Spots(up'[k], n))
             /\ Spots(up'[k], n) # {} => Spots(up[k], n) # {}
  <2>1. PICK d \in Int : From(up[k], up'[k], d, n)
    BY DEF UpFrom
  <2>2. AtMostOne(Spots(up[k], n))
    BY DEF Once
  <2> QED BY <2>1, <2>2, FromKeeps
<1>2. AtMostOne(LineSpots(n)') /\ (LineSpots(n)' # {} => LineSpots(n) # {})
  <2>1. PICK d \in Int : \A p \in LineSpots(n)' : p + d \in LineSpots(n)
    BY DEF LineFrom
  <2>2. LineSpots(n)' \subseteq Int
    BY DEF LineSpots
  <2>3. ASSUME NEW p \in LineSpots(n)', NEW q \in LineSpots(n)' PROVE p = q
    <3>1. p + d = q + d
      BY <2>1 DEF Once, AtMostOne
    <3>2. p \in Int /\ q \in Int
      BY <2>2
    <3> QED BY <3>1, <3>2
  <2> QED BY <2>1, <2>3 DEF AtMostOne
<1>3. InUp(n)' => InUp(n)
  BY <1>1 DEF InUp
<1> QED BY <1>1, <1>2, <1>3 DEF Once, AtMostOne

LEMMA FreshStays ==
    ASSUME NEW n \in Reqs, Fresh(n), DownFrom(n), runs'[n] = runs[n]
    PROVE  Fresh(n)'
<1>1. ASSUME NEW k \in Conns PROVE Spots(down'[k], n) = {}
  <2>1. PICK d \in Int : From(down[k], down'[k], d, n)
    BY DEF DownFrom
  <2>2. Spots(down[k], n) = {}
    BY DEF Fresh
  <2> QED BY <2>1, <2>2, FromKeeps
<1> QED BY <1>1 DEF Fresh

(* More clients and registrations only give more turns.                    *)
LEMMA TurnsGrow ==
    ASSUME Types, Types', Grows, NEW n, asked'[n] = asked[n]
    PROVE  /\ Offering(n) \subseteq Offering(n)' /\ Turns(n) \subseteq Turns(n)'
           /\ Turns(n) \subseteq Int
<1>1. PICK id : id = asked[n].id
  OBVIOUS
<1>2. Registrations(id) \subseteq Registrations(id)'
  BY DEF Grows, Registrations
<1>3. /\ DOMAIN cbIds' = 1 .. Len(cbIds') /\ Len(cbIds') \in Nat
  BY DEF Types, ServerTypes, RegTypes
<1>4. IsFiniteSet(Registrations(id)')
  <2>1. IsFiniteSet(1 .. Len(cbIds'))
    <3>1. \A a \in Int : IsFiniteSet(1 .. a)
      BY FS_Interval
    <3> QED BY <1>3, <3>1
  <2>2. Registrations(id)' \subseteq 1 .. Len(cbIds')
    BY <1>3 DEF Registrations
  <2> QED BY <2>1, <2>2, FS_Subset
<1>5. Cardinality(Registrations(id)) <= Cardinality(Registrations(id)')
  BY <1>2, <1>4, FS_Subset
<1>6. /\ Cardinality(Registrations(id)) \in Nat /\ Cardinality(Registrations(id)') \in Nat
  <2>1. IsFiniteSet(Registrations(id))
    BY <1>2, <1>4, FS_Subset
  <2> QED BY <1>4, <2>1, FS_CardinalityType
<1>7. Turns(n) = 1 .. Cardinality(Registrations(id)) /\ Turns(n)' = 1 .. Cardinality(Registrations(id)')
  BY <1>1 DEF Turns, Registrations
<1>8. Offering(n) \subseteq Offering(n)'
  BY DEF Offering, Grows
<1> QED BY <1>5, <1>6, <1>7, <1>8

LEMMA CountStays ==
    ASSUME Types, Types', Grows, NEW n \in Reqs, asked'[n] = asked[n], Counted(n), DownFrom(n),
           runs'[n] = runs[n]
    PROVE  Counted(n)'
<1>1. PICK X, off : Tallied(n, X, off)
  BY DEF Counted
<1>2. PICK d : d \in [Conns -> Int] /\ \A k \in Conns : From(down[k], down'[k], d[k], n)
  <2> DEFINE e == [k \in Conns |-> CHOOSE x \in Int : From(down[k], down'[k], x, n)]
  <2>1. \A k \in Conns : e[k] \in Int /\ From(down[k], down'[k], e[k], n)
    BY DEF DownFrom
  <2>2. e \in [Conns -> Int]
    BY <2>1
  <2> HIDE DEF e
  <2> QED BY <2>1, <2>2
<1>3. PICK o : o = [k \in Conns |-> off[k] - d[k]]
  OBVIOUS
<1>4. off \in [Conns -> Int] /\ TurnsLeft(n, X, off)
  BY <1>1 DEF Tallied
<1>5. o \in [Conns -> Int] /\ \A k \in Conns : o[k] = off[k] - d[k]
  BY <1>2, <1>3, <1>4
<1>6. Offering(n) \subseteq Offering(n)' /\ Turns(n) \subseteq Turns(n)'
  BY TurnsGrow
<1>7. ASSUME NEW k \in Conns, NEW p \in Spots(down'[k], n)
      PROVE  p - o[k] \in Turns(n)' /\ <<k, p - o[k]>> \notin X
  <2>1. p \in Int /\ d[k] \in Int /\ off[k] \in Int
    BY <1>2, <1>4 DEF Spots
  <2>2. p + d[k] \in Spots(down[k], n)
    BY <1>2 DEF From
  <2>3. (p + d[k]) - off[k] = p - o[k]
    BY <1>5, <2>1
  <2>4. (p + d[k]) - off[k] \in Turns(n) /\ <<k, (p + d[k]) - off[k]>> \notin X
    BY <1>4, <2>2 DEF TurnsLeft
  <2> QED BY <1>6, <2>3, <2>4
<1>8. TurnsLeft(n, X, o)'
  BY <1>7 DEF TurnsLeft, Spots
<1>9. X \subseteq Offering(n)' \X Turns(n)' /\ Cardinality(X) = runs'[n]
  BY <1>1, <1>6 DEF Tallied
<1>10. Tallied(n, X, o)'
  BY <1>5, <1>8, <1>9 DEF Tallied
<1> QED BY <1>10 DEF Counted

LEMMA Quiet ==
    ASSUME Types, Types', Grows, AsksStay, NEW n \in Reqs, Track(n),
           UpFrom(n), LineFrom(n), DownFrom(n), runs'[n] = runs[n]
    PROVE  Track(n)'
<1>1. /\ Once(n)' /\ (InUp(n)' => InUp(n)) /\ (LineSpots(n)' # {} => LineSpots(n) # {})
  BY WaitsLess DEF Track
<1>2. CASE Fresh(n)
  BY <1>1, <1>2, FreshStays DEF Track
<1>3. CASE ~Waiting(n) /\ Counted(n)
  <2>1. n \in 1 .. Len(asked)
    <3>1. n \in Nat /\ n >= 1 /\ Len(asked) \in Nat
      BY IpcAssumption DEF Reqs, Types, CallTypes
    <3> QED BY <1>3, <3>1 DEF Waiting
  <2>2. n \in 1 .. Len(asked') /\ asked'[n] = asked[n] /\ Len(asked') \in Nat
    BY <2>1 DEF AsksStay, Types, CallTypes
  <2>3. Counted(n)'
    BY <1>3, <2>2, CountStays
  <2>4. ~(n > Len(asked'))
    BY <2>2
  <2>5. ~Waiting(n)'
    BY <1>1, <1>3, <2>4 DEF Waiting
  <2> QED BY <1>1, <2>3, <2>5 DEF Track
<1> QED BY <1>2, <1>3 DEF Track

LEMMA RunsStay ==
    ASSUME Types, Types', Grows, AsksStay, RunInv, OwnInv', UNCHANGED runs,
           \A n \in Reqs : UpFrom(n) /\ LineFrom(n) /\ DownFrom(n)
    PROVE  RunInv'
BY Quiet DEF RunInv

(* What is left alone, or taken away.                                      *)
LEMMA FromUnmoved ==
    ASSUME NEW n
    PROVE  /\ UNCHANGED up => UpFrom(n)
           /\ (\A k \in Conns : up'[k] = up[k] \/ up'[k] = <<>>) => UpFrom(n)
           /\ UNCHANGED down => DownFrom(n)
           /\ (\A k \in Conns : down'[k] = down[k] \/ down'[k] = <<>>) => DownFrom(n)
           /\ Line' = Line => LineFrom(n)
<1>1. ASSUME NEW s, NEW t, t = s \/ t = <<>> PROVE \E d \in Int : From(s, t, d, n)
  <2>1. From(s, s, 0, n) /\ From(s, <<>>, 0, n) /\ 0 \in Int
    BY FromSame, FromNone
  <2> QED BY <1>1, <2>1
<1>2. Line' = Line => LineFrom(n)
  <2> SUFFICES ASSUME Line' = Line PROVE LineFrom(n)
    OBVIOUS
  <2>1. LineSpots(n)' = LineSpots(n) /\ LineSpots(n) \subseteq Int
    BY DEF LineSpots
  <2>2. \A p \in LineSpots(n)' : p + 0 \in LineSpots(n)
    BY <2>1
  <2> QED BY <2>2 DEF LineFrom
<1> QED BY <1>1, <1>2 DEF UpFrom, DownFrom

LEMMA Unnoticed ==
    /\ UNCHANGED <<owner, cbIds>> => Grows
    /\ UNCHANGED asked => AsksStay
    /\ OwnInv /\ UNCHANGED <<owner, conn>> => OwnInv'
    /\ UNCHANGED <<fifo, work>> => Line' = Line
<1>1. UNCHANGED <<owner, cbIds>> => Grows
  BY DEF Grows
<1>2. UNCHANGED asked => AsksStay
  BY DEF AsksStay
<1>3. OwnInv /\ UNCHANGED <<owner, conn>> => OwnInv'
  BY DEF OwnInv
<1>4. UNCHANGED <<fifo, work>> => Line' = Line
  BY DEF Line
<1> QED BY <1>1, <1>2, <1>3, <1>4

LEMMA GoesAwayRuns ==
    ASSUME Types, Types', RunInv, UNCHANGED <<owner, conn, down, runs, asked>>, UNCHANGED cbIds,
           Line' = Line, \A k \in Conns : up'[k] = up[k] \/ up'[k] = <<>>
    PROVE  RunInv'
<1>1. Grows /\ AsksStay /\ OwnInv'
  BY Unnoticed DEF RunInv
<1>2. \A n \in Reqs : UpFrom(n) /\ LineFrom(n) /\ DownFrom(n)
  BY <1>1, FromUnmoved
<1> QED BY <1>1, <1>2, RunsStay

(* The line of C: an item is appended, goes to C's hands, leaves them.     *)
LEMMA LineIs ==
    ASSUME Types
    PROVE  /\ Line \in Seq(Requests \cup Replies) /\ Len(Line) \in Nat
           /\ work["C"] \in Seq(Requests \cup Replies) /\ fifo["C"] \in Seq(Requests \cup Replies)
           /\ DOMAIN work = Queues /\ DOMAIN fifo = Queues /\ "C" \in Queues
<1>1. /\ work["C"] \in Seq(Requests \cup Replies) /\ fifo["C"] \in Seq(Requests \cup Replies)
      /\ DOMAIN work = Queues /\ DOMAIN fifo = Queues /\ "C" \in Queues
  BY DEF Types, ServerTypes, QueueTypes, Queues
<1> QED BY <1>1 DEF Line

LEMMA TakeRuns ==
    ASSUME Types, Types', TokenInv, RunInv, NEW q \in Queues, Take(q), UNCHANGED cliVars
    PROVE  RunInv'
<1>1. /\ UNCHANGED <<owner, conn, down, runs, asked>> /\ UNCHANGED cbIds /\ UNCHANGED up
      /\ pc[q] = "wait"
  BY DEF Take, netVars, cliVars, calls, At
<1>2. Line' = Line
  <2>1. CASE exit \/ q # "C" \/ fifo[q] = <<>>
    <3>1. fifo'["C"] = fifo["C"] /\ work'["C"] = work["C"]
      BY <2>1, LineIs DEF Take
    <3> QED BY <3>1 DEF Line
  <2>2. CASE ~exit /\ q = "C" /\ fifo[q] # <<>>
    <3>1. work'["C"] = <<Head(fifo["C"])>> /\ fifo'["C"] = Tail(fifo["C"])
      BY <2>2, LineIs DEF Take
    <3>2. work["C"] = <<>>
      BY <1>1, <2>2 DEF TokenInv
    <3>3. <<Head(fifo["C"])>> \o Tail(fifo["C"]) = fifo["C"] /\ <<>> \o fifo["C"] = fifo["C"]
      <4>1. \A S : \A s \in Seq(S) : s # <<>> => <<Head(s)>> \o Tail(s) = s /\ <<>> \o s = s
        OBVIOUS
      <4> QED BY <2>2, <4>1, LineIs
    <3> QED BY <3>1, <3>2, <3>3 DEF Line
  <2> QED BY <2>1, <2>2
<1>3. Grows /\ AsksStay /\ OwnInv'
  BY <1>1, Unnoticed DEF RunInv
<1>4. \A n \in Reqs : UpFrom(n) /\ LineFrom(n) /\ DownFrom(n)
  BY <1>1, <1>2, FromUnmoved
<1> QED BY <1>1, <1>3, <1>4, RunsStay

(* M: the request it reads moves from the stream to the line.              *)
LEMMA ReadLinkRuns ==
    ASSUME Types, Types', BackInv, RunInv, NEW k \in Conns, ReadLink(k), UNCHANGED cliVars
    PROVE  RunInv'
<1>0. PICK m : m = Head(up[k])
  OBVIOUS
<1>1. /\ up[k] # <<>> /\ up' = [up EXCEPT ![k] = Tail(@)]
      /\ Request(k) \/ Registration(k)
      /\ UNCHANGED <<owner, conn, down, runs, asked>> /\ UNCHANGED work
  BY DEF ReadLink, conns, cliVars, calls
<1>2. up[k] \in Seq(Msgs) /\ DOMAIN up = Conns
  BY DEF Types, StreamTypes
<1>3. /\ m \in Range(up[k]) /\ m = up[k][1] /\ 1 \in 1 .. Len(up[k])
  BY <1>0, <1>1, <1>2, RangeTail
<1>4. \A n : UpFrom(n)
  <2> SUFFICES ASSUME NEW n, NEW j \in Conns PROVE \E d \in Int : From(up[j], up'[j], d, n)
    BY DEF UpFrom
  <2>1. CASE j = k
    <3>1. From(up[k], Tail(up[k]), 1, n) /\ 1 \in Int
      BY <1>1, <1>2, FromTail
    <3>2. up'[k] = Tail(up[k])
      BY <1>1, <1>2
    <3> QED BY <2>1, <3>1, <3>2
  <2>2. CASE j # k
    <3>1. up'[j] = up[j] /\ 0 \in Int
      BY <1>1, <1>2, <2>2
    <3> QED BY <3>1, FromSame
  <2> QED BY <2>1, <2>2
<1>5. AsksStay /\ OwnInv' /\ \A n : DownFrom(n)
  BY <1>1, Unnoticed, FromUnmoved DEF RunInv
<1>6. CASE Registration(k)
  <2>1. cbIds' = Append(cbIds, m.ids) /\ UNCHANGED <<fifo, work>>
    BY <1>0, <1>1, <1>6 DEF Registration
  <2>2. Grows
    <3>1. \E S : cbIds \in Seq(S)
      BY DEF Types, ServerTypes, RegTypes
    <3>2. \A i \in DOMAIN cbIds : i \in DOMAIN cbIds' /\ cbIds'[i] = cbIds[i]
      BY <2>1, <3>1
    <3> QED BY <1>1, <3>2 DEF Grows
  <2>3. \A n : LineFrom(n)
    BY <2>1, Unnoticed, FromUnmoved
  <2> QED BY <1>1, <1>4, <1>5, <2>2, <2>3, RunsStay
<1>7. CASE Request(k)
  <2>1. PICK x : x = [from |-> link[k], msg |-> m]
    OBVIOUS
  <2>2. /\ m.type = "cb" /\ Enqueue("C", x) /\ UNCHANGED cbIds
    BY <1>0, <1>7, <2>1 DEF Request
  <2>3. Line' = Line \/ Line' = Append(Line, x)
    <3>1. fifo'["C"] = fifo["C"] \/ fifo'["C"] = Append(fifo["C"], x)
      BY <2>2, LineIs DEF Enqueue
    <3>2. PICK s, t : s = work["C"] /\ t = fifo["C"]
      OBVIOUS
    <3>3. s \in Seq(Requests \cup Replies) /\ t \in Seq(Requests \cup Replies)
      BY <3>2, LineIs
    <3>4. s \o Append(t, x) = Append(s \o t, x)
      BY <3>3, ConcatAppend
    <3>5. Line = s \o t /\ Line' = s \o fifo'["C"]
      BY <1>1, <3>2 DEF Line
    <3> QED BY <3>1, <3>2, <3>4, <3>5
  <2>4. Grows
    BY <1>1, <2>2, Unnoticed
  <2>5. UpOK(k, m)
    BY <1>3 DEF BackInv, MsgInv
  <2>6. m.req \in 1 .. Len(asked) /\ asked[m.req].conn = k
    BY <2>2, <2>5 DEF UpOK, Genuine
  <2>7. ASSUME NEW n \in Reqs PROVE Track(n)'
    <3>1. CASE Line' = Line \/ n # m.req
      <4>1. LineFrom(n)
        <5>1. CASE Line' = Line
          BY <5>1, FromUnmoved
        <5>2. CASE Line' = Append(Line, x) /\ n # m.req
          <6>1. /\ Len(Line') = Len(Line) + 1 /\ Len(Line) \in Nat /\ Line'[Len(Line) + 1] = x
                /\ \A p \in 1 .. Len(Line) : Line'[p] = Line[p]
            BY <5>2, LineIs
          <6>2. x.msg.req # n
            BY <2>1, <5>2
          <6>3. ASSUME NEW p \in LineSpots(n)' PROVE p + 0 \in LineSpots(n)
            <7>1. p \in 1 .. Len(Line) + 1 /\ Line'[p].msg.req = n
              BY <6>1 DEF LineSpots
            <7>2. p \in 1 .. Len(Line)
              BY <6>1, <6>2, <7>1
            <7>3. p + 0 = p
              BY <7>2
            <7> QED BY <6>1, <7>1, <7>2, <7>3 DEF LineSpots
          <6> QED BY <6>3 DEF LineFrom
        <5> QED BY <2>3, <3>1, <5>1, <5>2
      <4> QED BY <1>1, <1>4, <1>5, <2>4, <4>1, Quiet DEF RunInv
    <3>2. CASE Line' = Append(Line, x) /\ n = m.req
      <4>1. 1 \in Spots(up[k], n)
        BY <1>3, <2>2, <3>2 DEF Spots, Wanted
      <4>2. InUp(n) /\ Once(n) /\ Fresh(n)
        BY <4>1 DEF InUp, RunInv, Track, Waiting
      <4>3. LineSpots(n) = {}
        BY <4>2 DEF Once
      <4>4. AtMostOne(LineSpots(n)')
        <5>1. /\ Len(Line') = Len(Line) + 1 /\ Len(Line) \in Nat
              /\ \A p \in 1 .. Len(Line) : Line'[p] = Line[p]
          BY <3>2, LineIs
        <5>2. \A p \in 1 .. Len(Line) : Line'[p].msg.req # n
          BY <4>3, <5>1 DEF LineSpots
        <5>3. LineSpots(n)' \subseteq {Len(Line) + 1}
          <6>1. ASSUME NEW p \in LineSpots(n)' PROVE p = Len(Line) + 1
            <7>1. p \in 1 .. Len(Line) + 1 /\ Line'[p].msg.req = n
              BY <5>1 DEF LineSpots
            <7> QED BY <5>1, <5>2, <7>1
          <6> QED BY <6>1
        <5> QED BY <5>3 DEF AtMostOne
      <4>5. ASSUME NEW j \in Conns PROVE Spots(up'[j], n) = {}
        <5>1. CASE j = k
          <6>1. \A p \in Spots(up[k], n) : p = 1
            BY <4>1, <4>2 DEF Once, AtMostOne
          <6>2. From(up[k], Tail(up[k]), 1, n) /\ up'[k] = Tail(up[k])
            BY <1>1, <1>2, FromTail
          <6>3. ASSUME NEW p \in Spots(up'[k], n) PROVE FALSE
            <7>1. p + 1 = 1 /\ p \in 1 .. Len(up'[k])
              BY <6>1, <6>2 DEF From, Spots
            <7> QED BY <7>1
          <6> QED BY <5>1, <6>3
        <5>2. CASE j # k
          <6>1. up'[j] = up[j]
            BY <1>1, <1>2, <5>2
          <6>2. ASSUME NEW p \in Spots(up[j], n) PROVE FALSE
            <7>1. up[j] \in Seq(Msgs) /\ p \in 1 .. Len(up[j]) /\ up[j][p].type = "cb" /\ up[j][p].req = n
              BY DEF Spots, Wanted, Types, StreamTypes
            <7>2. up[j][p] \in Range(up[j])
              BY <7>1 DEF Range
            <7>3. asked[n].conn = j
              BY <7>1, <7>2 DEF BackInv, MsgInv, UpOK
            <7> QED BY <2>6, <3>2, <5>2, <7>3
          <6> QED BY <6>1, <6>2
        <5> QED BY <5>1, <5>2
      <4>6. Once(n)'
        <5>1. ~InUp(n)'
          BY <4>5 DEF InUp
        <5>2. \A j \in Conns : AtMostOne(Spots(up'[j], n))
          BY <4>5 DEF AtMostOne
        <5> QED BY <4>4, <5>1, <5>2 DEF Once, AtMostOne
      <4>7. Fresh(n)'
        BY <1>1, <4>2 DEF Fresh
      <4> QED BY <4>6, <4>7 DEF Track
    <3> QED BY <2>3, <3>1, <3>2
  <2> QED BY <1>5, <2>7 DEF RunInv
<1> QED BY <1>1, <1>6, <1>7

(* An answer that M reads leaves its stream and touches no request.        *)
LEMMA ReplyRuns ==
    ASSUME Types, Types', RunInv, NEW k \in Conns, Reply(k), UNCHANGED cliVars
    PROVE  RunInv'
<1>1. /\ up[k] # <<>> /\ up' = [up EXCEPT ![k] = Tail(@)] /\ UNCHANGED cbIds /\ UNCHANGED <<fifo, work>>
      /\ UNCHANGED <<owner, conn, down, runs, asked>>
  BY DEF Reply, conns, queues, cliVars, calls
<1>2. up[k] \in Seq(Msgs) /\ DOMAIN up = Conns
  BY DEF Types, StreamTypes
<1>3. ASSUME NEW n, NEW j \in Conns PROVE \E d \in Int : From(up[j], up'[j], d, n)
  <2>1. From(up[k], Tail(up[k]), 1, n) /\ 1 \in Int /\ 0 \in Int
    BY <1>1, <1>2, FromTail
  <2>2. up'[j] = IF j = k THEN Tail(up[k]) ELSE up[j]
    BY <1>1, <1>2
  <2> QED BY <2>1, <2>2, FromSame
<1>4. Grows /\ AsksStay /\ OwnInv' /\ Line' = Line
  BY <1>1, Unnoticed DEF RunInv
<1>5. \A n \in Reqs : UpFrom(n) /\ LineFrom(n) /\ DownFrom(n)
  <2>1. \A n : UpFrom(n)
    BY <1>3 DEF UpFrom
  <2> QED BY <1>1, <1>4, <2>1, FromUnmoved
<1> QED BY <1>1, <1>4, <1>5, RunsStay

(* C: its request leaves the line; each copy gets a turn of its own.       *)
LEMMA LineForwarded ==
    ASSUME Types, TokenInv, Forward
    PROVE  \E item \in Requests :
              /\ item = Head(work["C"]) /\ item \in Range(work["C"])
              /\ Line # <<>> /\ item = Line[1]
              /\ Len(Line') \in Nat /\ Len(Line) = Len(Line') + 1
              /\ \A p \in 1 .. Len(Line') : Line'[p] = Line[p + 1]
<1>1. /\ pc["C"] = "work" /\ "C" \in Queues /\ work' = [work EXCEPT !["C"] = <<>>] /\ fifo' = fifo
  BY DEF Forward, At, Queues
<1>2. PICK item \in Requests : item = Head(work["C"]) /\ item \in Range(work["C"])
  BY <1>1, Taken DEF Types
<1>3. PICK s, t : s = work["C"] /\ t = fifo["C"]
  OBVIOUS
<1>4. s \in Seq(Requests \cup Replies) /\ t \in Seq(Requests \cup Replies) /\ s # <<>> /\ Len(s) <= 1
  BY <1>1, <1>3, LineIs DEF Types, ServerTypes, QueueTypes, TokenInv
<1>5. Len(s) = 1 /\ s[1] = item
  <2>1. Len(s) \in Nat /\ Len(s) # 0 /\ Head(s) = s[1]
    BY <1>4
  <2>2. Len(s) <= 1
    BY <1>4
  <2>3. Len(s) = 1
    BY <2>1, <2>2
  <2>4. Head(s) = item
    BY <1>2, <1>3
  <2> QED BY <2>1, <2>3, <2>4
<1>6. Line = s \o t
  BY <1>3 DEF Line
<1>7. Line' = t
  <2>1. Line' = <<>> \o t
    BY <1>1, <1>3, LineIs DEF Line
  <2> QED BY <1>4, <2>1
<1>8. /\ Len(s \o t) = Len(t) + 1 /\ Len(t) \in Nat /\ (s \o t)[1] = item
      /\ \A p \in 1 .. Len(t) : (s \o t)[p + 1] = t[p]
  <2>1. /\ Len(t) \in Nat /\ Len(s \o t) = 1 + Len(t) /\ (s \o t)[1] = s[1]
        /\ \A p \in 1 .. Len(t) : (s \o t)[1 + p] = t[p]
    BY <1>4, <1>5, ConcatIs
  <2>2. \A p \in 1 .. Len(t) : p + 1 = 1 + p
    OBVIOUS
  <2> QED BY <1>5, <2>1, <2>2
<1>9. s \o t # <<>>
  BY <1>8
<1> QED BY <1>2, <1>6, <1>7, <1>8, <1>9

LEMMA ForwardRuns ==
    ASSUME Types, Types', TokenInv, BackInv, RunInv, Forward, UNCHANGED cliVars
    PROVE  RunInv'
<1>1. PICK item \in Requests :
         /\ item = Head(work["C"]) /\ item \in Range(work["C"])
         /\ Line # <<>> /\ item = Line[1]
         /\ Len(Line') \in Nat /\ Len(Line) = Len(Line') + 1
         /\ \A p \in 1 .. Len(Line') : Line'[p] = Line[p + 1]
  BY LineForwarded
<1>2. PICK n, S, ms : /\ n = item.msg.req /\ S = {k \in Listed : link[k] # item.from}
                      /\ ms = Forwarded(item)
  OBVIOUS
<1>3. /\ SendDown(S, ms) /\ UNCHANGED <<owner, conn, up, runs, asked>> /\ UNCHANGED cbIds
  BY <1>1, <1>2 DEF Forward, Forwarded, conns, cliVars, calls
<1>4. /\ ms \in Seq(CbMsgs \cup AckMsgs) /\ \A m \in Range(ms) : m.req = n
      /\ Len(ms) = Cardinality(Registrations(item.msg.id))
  <2>1. Cardinality(Registrations(item.msg.id)) \in Nat
    BY RegistrationsFinite DEF Types, ServerTypes
  <2>2. /\ ms \in Seq(CbMsgs \cup AckMsgs)
        /\ \A m \in Range(ms) : m.req = n
    BY <1>1, <1>2, ForwardedIs DEF Types, ServerTypes
  <2>3. Len(ms) = Cardinality(Registrations(item.msg.id))
    <3>1. PICK N, x : N = Cardinality(Registrations(item.msg.id)) /\ x = [item.msg EXCEPT !.link = item.from]
      OBVIOUS
    <3>2. ms = [i \in 1 .. N |-> x]
      BY <1>2, <3>1 DEF Forwarded
    <3>3. N \in Nat
      BY <2>1, <3>1
    <3>4. Len([i \in 1 .. N |-> x]) = N
      BY <3>3
    <3> QED BY <3>1, <3>2, <3>4
  <2> QED BY <2>2, <2>3
<1>5. n \in 1 .. Len(asked) /\ asked[n].id = item.msg.id /\ n \in Reqs
  <2>1. Genuine(item.msg)
    BY <1>1 DEF BackInv, MsgInv, Held
  <2>2. n \in Reqs
    BY <1>2 DEF Requests, CbMsgs
  <2> QED BY <1>2, <2>1, <2>2 DEF Genuine
<1>6. 1 \in LineSpots(n)
  BY <1>1, <1>2 DEF LineSpots
<1>7. Once(n) /\ Fresh(n) /\ ~InUp(n)
  BY <1>5, <1>6 DEF RunInv, Track, Waiting, Once
<1>8. ASSUME NEW j PROVE LineFrom(j) /\ UpFrom(j)
  <2>1. \A p \in LineSpots(j)' : p + 1 \in LineSpots(j)
    <3>1. ASSUME NEW p \in LineSpots(j)' PROVE p + 1 \in LineSpots(j)
      <4>1. p \in 1 .. Len(Line') /\ Line'[p].msg.req = j
        BY DEF LineSpots
      <4>2. p + 1 \in 1 .. Len(Line) /\ Line[p + 1].msg.req = j
        BY <1>1, <4>1
      <4> QED BY <4>2 DEF LineSpots
    <3> QED BY <3>1
  <2>2. 1 \in Int
    OBVIOUS
  <2> QED BY <1>3, <2>1, <2>2, FromUnmoved DEF LineFrom
<1>9. LineSpots(n)' = {}
  <2>1. ASSUME NEW p \in LineSpots(n)' PROVE FALSE
    <3>1. p \in 1 .. Len(Line') /\ Line'[p].msg.req = n
      BY DEF LineSpots
    <3>2. p + 1 \in 1 .. Len(Line) /\ Line[p + 1].msg.req = n
      BY <1>1, <3>1
    <3>3. p + 1 \in LineSpots(n)
      BY <3>2 DEF LineSpots
    <3>4. p + 1 = 1
      BY <1>6, <1>7, <3>3 DEF Once, AtMostOne
    <3> QED BY <3>1, <3>4
  <2> QED BY <2>1
<1>10. Grows /\ AsksStay /\ OwnInv'
  BY <1>3, Unnoticed DEF RunInv
<1>11. ASSUME NEW j \in Reqs, j # n PROVE Track(j)'
  <2>1. ASSUME NEW k \in Conns PROVE \E d \in Int : From(down[k], down'[k], d, j)
    <3>1. down[k] \in Seq(CbMsgs \cup AckMsgs)
      BY DEF Types, StreamTypes
    <3>2. down'[k] = down[k] \/ down'[k] = down[k] \o ms
      BY <1>3 DEF SendDown
    <3>3. \A m \in Range(ms) : ~Wanted(m, j)
      BY <1>4, <1>11 DEF Wanted
    <3>4. From(down[k], down[k], 0, j) /\ From(down[k], down[k] \o ms, 0, j) /\ 0 \in Int
      BY <1>4, <3>1, <3>3, FromSame, FromConcat
    <3> QED BY <3>2, <3>4
  <2>2. DownFrom(j)
    BY <2>1 DEF DownFrom
  <2> QED BY <1>3, <1>8, <1>10, <2>2, Quiet DEF RunInv
<1>12. Track(n)'
  <2>1. Once(n)' /\ ~InUp(n)'
    BY <1>5, <1>7, <1>8, WaitsLess
  <2>2. ~Waiting(n)'
    <3>1. ~(n > Len(asked'))
      <4>1. Len(asked) \in Nat
        BY DEF Types, CallTypes
      <4> QED BY <1>3, <1>5, <4>1
    <3> QED BY <1>9, <2>1, <3>1 DEF Waiting
  <2>3. PICK off : off = [k \in Conns |-> Len(down[k])]
    OBVIOUS
  <2>4. off \in [Conns -> Int] /\ \A k \in Conns : off[k] = Len(down[k])
    <3>1. \A k \in Conns : Len(down[k]) \in Int
      BY DEF Types, StreamTypes
    <3> QED BY <2>3, <3>1
  <2>5. Turns(n)' = 1 .. Len(ms)
    BY <1>3, <1>4, <1>5 DEF Turns, Registrations
  <2>6. ASSUME NEW k \in Conns, NEW p \in Spots(down'[k], n) PROVE p - off[k] \in 1 .. Len(ms)
    <3>1. down[k] \in Seq(CbMsgs \cup AckMsgs) /\ Spots(down[k], n) = {}
      BY <1>7 DEF Types, StreamTypes, Fresh
    <3>2. down'[k] = down[k] \o ms
      <4>1. down'[k] = down[k] \/ down'[k] = down[k] \o ms
        BY <1>3 DEF SendDown
      <4> QED BY <2>6, <3>1, <4>1
    <3>3. /\ Len(down'[k]) = Len(down[k]) + Len(ms) /\ Len(down[k]) \in Nat /\ Len(ms) \in Nat
          /\ \A i \in 1 .. Len(down[k]) : down'[k][i] = down[k][i]
      <4>1. PICK s : s = down[k]
        OBVIOUS
      <4>2. s \in Seq(CbMsgs \cup AckMsgs)
        BY <3>1, <4>1
      <4>3. /\ Len(s \o ms) = Len(s) + Len(ms) /\ Len(s) \in Nat /\ Len(ms) \in Nat
            /\ \A i \in 1 .. Len(s) : (s \o ms)[i] = s[i]
        BY <1>4, <4>2, ConcatIs
      <4> QED BY <3>2, <4>1, <4>3
    <3>4. p \in 1 .. Len(down[k]) + Len(ms) /\ Wanted(down'[k][p], n)
      BY <3>3 DEF Spots
    <3>5. ~(p \in 1 .. Len(down[k]))
      BY <3>1, <3>3, <3>4 DEF Spots
    <3> QED BY <2>4, <3>3, <3>4, <3>5
  <2>7. TurnsLeft(n, {}, off)'
    BY <2>5, <2>6 DEF TurnsLeft, Spots
  <2>8. Cardinality({}) = 0 /\ runs'[n] = 0
    BY <1>3, <1>7, FS_EmptySet DEF Fresh
  <2>9. Tallied(n, {}, off)'
    BY <2>4, <2>7, <2>8 DEF Tallied
  <2>10. Counted(n)'
    BY <2>9 DEF Counted
  <2> QED BY <2>1, <2>2, <2>10 DEF Track
<1> QED BY <1>10, <1>11, <1>12 DEF RunInv

(* The other steps of the server.                                          *)
LEMMA AnswerRuns ==
    ASSUME Types, Types', TokenInv, RunInv, Answer, UNCHANGED cliVars
    PROVE  RunInv'
<1>1. pc["K"] = "work" /\ "K" \in Queues
  BY DEF Answer, At, Queues
<1>2. PICK item \in Replies : item = Head(work["K"])
  BY <1>1, Taken DEF Types
<1>3. PICK S, ms : S = Answered(item) /\ ms = <<item.msg>>
  OBVIOUS
<1>4. /\ SendDown(S, ms) /\ UNCHANGED <<owner, conn, up, runs, asked>> /\ UNCHANGED cbIds
      /\ work' = [work EXCEPT !["K"] = <<>>] /\ UNCHANGED fifo
  BY <1>2, <1>3 DEF Answer, conns, cliVars, calls
<1>5. ms \in Seq(AckMsgs) /\ \A m \in Range(ms) : m.type = "ack"
  BY <1>2, <1>3 DEF Replies, AckMsgs, Range
<1>6. Line' = Line
  BY <1>4, LineIs DEF Line
<1>7. Grows /\ AsksStay /\ OwnInv'
  BY <1>4, Unnoticed DEF RunInv
<1>8. ASSUME NEW j PROVE DownFrom(j)
  <2>1. ASSUME NEW k \in Conns PROVE \E d \in Int : From(down[k], down'[k], d, j)
    <3>1. down[k] \in Seq(CbMsgs \cup AckMsgs)
      BY DEF Types, StreamTypes
    <3>2. down'[k] = down[k] \/ down'[k] = down[k] \o ms
      BY <1>4 DEF SendDown
    <3>3. \A m \in Range(ms) : ~Wanted(m, j)
      BY <1>5 DEF Wanted
    <3>4. From(down[k], down[k], 0, j) /\ From(down[k], down[k] \o ms, 0, j) /\ 0 \in Int
      BY <1>5, <3>1, <3>3, FromSame, FromConcat
    <3> QED BY <3>2, <3>4
  <2> QED BY <2>1 DEF DownFrom
<1>9. \A n \in Reqs : UpFrom(n) /\ LineFrom(n) /\ DownFrom(n)
  BY <1>4, <1>6, <1>8, FromUnmoved
<1> QED BY <1>4, <1>7, <1>9, RunsStay

LEMMA ServerRuns ==
    ASSUME Types, Types', TokenInv, BackInv, RunInv, ServerStep \/ DestroyBegin, UNCHANGED cliVars
    PROVE  RunInv'
<1>0. UNCHANGED <<conn, runs, asked>>
  BY DEF cliVars
<1>1. CASE AcceptStep \/ ReadStop \/ ForwardFreed \/ JoinC \/ DestroyBegin
  <2>1. UNCHANGED <<owner, down, up>> /\ UNCHANGED cbIds /\ UNCHANGED <<fifo, work>>
    BY <1>1 DEF AcceptStep, Listen, Accept, AcceptStop, ReadStop, ForwardFreed, JoinC, DestroyBegin,
                netVars, srvVars, streams, queues
  <2> QED BY <1>0, <2>1, Unnoticed, GoesAwayRuns
<1>2. CASE StopListening \/ FreeManager \/ \E k \in Conns : DropLink(k)
  <2>1. /\ UNCHANGED <<owner, down>> /\ UNCHANGED cbIds /\ UNCHANGED <<fifo, work>>
        /\ \E S : CloseServer(S)
    BY <1>2 DEF StopListening, FreeManager, DropLink, srvVars, queues
  <2>2. \A k \in Conns : up'[k] = up[k] \/ up'[k] = <<>>
    BY <2>1 DEF CloseServer
  <2> QED BY <1>0, <2>1, <2>2, Unnoticed, GoesAwayRuns
<1>3. "C" \in Queues /\ "K" \in Queues /\ "C" # "K"
  BY DEF Queues
<1>4. CASE ReplyWrite \/ ReplyFreed \/ FreeAnswers
  <2>1. /\ UNCHANGED <<owner, down>> /\ UNCHANGED cbIds /\ UNCHANGED work
        /\ up' = up \/ CloseServer(serverEnd)
    BY <1>4 DEF ReplyWrite, ReplyFreed, FreeAnswers, netVars, queues
  <2>2. fifo'["C"] = fifo["C"]
    BY <1>3, <1>4, LineIs DEF ReplyWrite, ReplyFreed, FreeAnswers, Enqueue, queues
  <2>3. \A k \in Conns : up'[k] = up[k] \/ up'[k] = <<>>
    BY <2>1 DEF CloseServer
  <2>4. Line' = Line
    BY <2>1, <2>2 DEF Line
  <2> QED BY <1>0, <2>1, <2>3, <2>4, GoesAwayRuns
<1> QED BY <1>1, <1>2, <1>3, <1>4, ReadLinkRuns, ReplyRuns, TakeRuns, ForwardRuns, AnswerRuns
        DEF ServerStep, ReadStep, CbStep, AckStep, StopStep

(* The clients.  Most steps move nothing.                                  *)
LEMMA StillRuns ==
    ASSUME Types, Types', RunInv, UNCHANGED <<owner, up, down>>, UNCHANGED <<cbIds, fifo, work>>,
           UNCHANGED <<conn, asked, runs>>
    PROVE  RunInv'
BY Unnoticed, GoesAwayRuns

LEMMA SentUpFrom ==
    ASSUME Types, NEW k, NEW m \in Msgs, SendUp(k, m), NEW n, ~Wanted(m, n)
    PROVE  UpFrom(n)
<1>1. ASSUME NEW j \in Conns PROVE \E d \in Int : From(up[j], up'[j], d, n)
  <2>1. up[j] \in Seq(Msgs)
    BY DEF Types, StreamTypes
  <2>2. up'[j] = up[j] \/ up'[j] = Append(up[j], m)
    BY DEF SendUp, Types, StreamTypes
  <2>3. From(up[j], up[j], 0, n) /\ From(up[j], Append(up[j], m), 0, n) /\ 0 \in Int
    BY <2>1, FromSame, FromAppend
  <2> QED BY <2>2, <2>3
<1> QED BY <1>1 DEF UpFrom

LEMMA ConnectedRuns ==
    ASSUME Types, Types', RunInv, NEW c \in Clients, Connected(c), UNCHANGED srvVars
    PROVE  RunInv'
<1>1. PICK k : k = Len(owner) + 1
  OBVIOUS
<1>2. /\ owner' = Append(owner, c) /\ conn' = [conn EXCEPT ![c] = k]
      /\ UNCHANGED <<up, down>> /\ UNCHANGED <<cbIds, fifo, work>> /\ UNCHANGED <<asked, runs>>
  BY <1>1 DEF Connected, Connect, calls, streams, srvVars, queues
<1>3. /\ Len(owner) \in Nat /\ Len(owner') = k /\ owner'[k] = c /\ DOMAIN owner = 1 .. Len(owner)
      /\ \A i \in 1 .. Len(owner) : i \in DOMAIN owner' /\ owner'[i] = owner[i] /\ i \in 1 .. k
  BY <1>1, <1>2 DEF Types, ConnTypes
<1>4. Grows /\ AsksStay
  <2>1. Grows
    BY <1>2, <1>3 DEF Grows
  <2> QED BY <1>2, <2>1, Unnoticed
<1>5. OwnInv'
  <2>1. ASSUME NEW d \in Clients, conn'[d] # 0 PROVE conn'[d] \in 1 .. Len(owner') /\ owner'[conn'[d]] = d
    <3>1. CASE d = c
      <4>1. conn'[d] = k
        BY <1>2, <3>1 DEF Types, ClientTypes
      <4>2. k \in 1 .. k
        BY <1>1, <1>3
      <4> QED BY <1>3, <3>1, <4>1, <4>2
    <3>2. CASE d # c
      <4>1. conn'[d] = conn[d]
        BY <1>2, <3>2 DEF Types, ClientTypes
      <4>2. conn[d] \in 1 .. Len(owner) /\ owner[conn[d]] = d
        BY <2>1, <4>1 DEF RunInv, OwnInv
      <4> QED BY <1>3, <4>1, <4>2
    <3> QED BY <3>1, <3>2
  <2> QED BY <2>1 DEF OwnInv
<1>6. \A n \in Reqs : UpFrom(n) /\ LineFrom(n) /\ DownFrom(n)
  <2>1. Line' = Line
    BY <1>2, Unnoticed
  <2> QED BY <1>2, <2>1, FromUnmoved
<1> QED BY <1>2, <1>4, <1>5, <1>6, RunsStay

LEMMA RegisterRuns ==
    ASSUME Types, Types', RunInv, NEW c \in Clients, Register(c), UNCHANGED srvVars
    PROVE  RunInv'
<1>1. PICK k, m : k = conn[c] /\ m = [type |-> "cbid", ids |-> Offers[c]]
  OBVIOUS
<1>2. /\ SendUp(k, m) /\ UNCHANGED <<owner, down>> /\ UNCHANGED <<cbIds, fifo, work>>
      /\ UNCHANGED <<conn, asked, runs>>
  BY <1>1 DEF Register, conns, calls, srvVars, queues
<1>3. m \in Msgs /\ m.type = "cbid"
  BY <1>1, IpcAssumption DEF Msgs
<1>4. Grows /\ AsksStay /\ OwnInv' /\ Line' = Line
  BY <1>2, Unnoticed DEF RunInv
<1>5. \A n \in Reqs : UpFrom(n) /\ LineFrom(n) /\ DownFrom(n)
  <2>1. \A n : ~Wanted(m, n)
    BY <1>3 DEF Wanted
  <2> QED BY <1>2, <1>3, <1>4, <2>1, SentUpFrom, FromUnmoved
<1> QED BY <1>2, <1>4, <1>5, RunsStay

(* H takes the oldest message off its stream.                              *)
LEMMA ArrivedFrom ==
    ASSUME Types, NEW c \in Clients, NEW type, Arrived(c, type), NEW n
    PROVE  DownFrom(n)
<1>1. PICK k : k = conn[c]
  OBVIOUS
<1>2. /\ k \in Conns /\ down[k] # <<>> /\ down' = [down EXCEPT ![k] = Tail(@)]
  BY <1>1, ArrivedIs
<1>3. ASSUME NEW j \in Conns PROVE \E d \in Int : From(down[j], down'[j], d, n)
  <2>1. down[j] \in Seq(CbMsgs \cup AckMsgs)
    BY DEF Types, StreamTypes
  <2>2. CASE j = k
    <3>1. down'[j] = Tail(down[j]) /\ 1 \in Int
      BY <1>2, <2>2 DEF Types, StreamTypes
    <3>2. From(down[j], Tail(down[j]), 1, n)
      BY <1>2, <2>1, <2>2, FromTail
    <3> QED BY <3>1, <3>2
  <2>3. CASE j # k
    <3>1. down'[j] = down[j] /\ 0 \in Int
      BY <1>2, <2>3 DEF Types, StreamTypes
    <3> QED BY <3>1, FromSame
  <2> QED BY <2>2, <2>3
<1> QED BY <1>3 DEF DownFrom

LEMMA ReadAckRuns ==
    ASSUME Types, Types', RunInv, NEW c \in Clients, ReadAck(c), UNCHANGED srvVars
    PROVE  RunInv'
<1>1. /\ Arrived(c, "ack") /\ UNCHANGED <<owner, up>> /\ UNCHANGED <<cbIds, fifo, work>>
      /\ UNCHANGED <<conn, asked, runs>>
  BY DEF ReadAck, conns, calls, srvVars, queues
<1>2. Grows /\ AsksStay /\ OwnInv' /\ Line' = Line
  BY <1>1, Unnoticed DEF RunInv
<1>3. \A n \in Reqs : UpFrom(n) /\ LineFrom(n) /\ DownFrom(n)
  BY <1>1, <1>2, ArrivedFrom, FromUnmoved
<1> QED BY <1>1, <1>2, <1>3, RunsStay

(* The turns of a request are finite in number: those of each link that    *)
(* offers the function.                                                    *)
LEMMA TurnsFinite ==
    ASSUME Types, NEW n
    PROVE  /\ IsFiniteSet(Offering(n)) /\ IsFiniteSet(Turns(n))
           /\ Cardinality(Turns(n)) = Cardinality(Registrations(asked[n].id))
<1>1. IsFiniteSet(Offering(n))
  <2>1. DOMAIN owner = 1 .. Len(owner) /\ Len(owner) \in Nat
    BY ConnFacts DEF Types
  <2>2. IsFiniteSet(1 .. Len(owner))
    BY <2>1, FS_Interval
  <2>3. Offering(n) \subseteq 1 .. Len(owner)
    BY <2>1 DEF Offering
  <2> QED BY <2>2, <2>3, FS_Subset
<1>2. PICK N : N = Cardinality(Registrations(asked[n].id))
  OBVIOUS
<1>3. N \in Nat
  BY <1>2, RegistrationsFinite DEF Types, ServerTypes
<1>4. IsFiniteSet(1 .. N) /\ Cardinality(1 .. N) = N
  BY <1>3, FS_Interval
<1> QED BY <1>1, <1>2, <1>4 DEF Turns

(* H runs the function for a copy: it uses that copy's turn.               *)
LEMMA HandleCbRuns ==
    ASSUME Types, Types', BackInv, RunInv, NEW c \in Clients, HandleCb(c), UNCHANGED srvVars
    PROVE  RunInv'
<1>1. PICK k, m, n, a : /\ k = conn[c] /\ m = Head(down[k]) /\ n = m.req
                        /\ a = [m EXCEPT !.type = "ack"]
  OBVIOUS
<1>2. /\ Arrived(c, "cb") /\ SendUp(k, a)
      /\ runs' = [runs EXCEPT ![n] = @ + (IF m.id \in Offers[c] THEN 1 ELSE 0)]
      /\ UNCHANGED owner /\ UNCHANGED <<cbIds, fifo, work>> /\ UNCHANGED <<conn, asked>>
  BY <1>1 DEF HandleCb, conns, calls, srvVars, queues
<1>3. /\ k \in Conns /\ down[k] # <<>> /\ m \in CbMsgs /\ m \in Range(down[k])
      /\ down' = [down EXCEPT ![k] = Tail(@)] /\ k # 0
  BY <1>1, <1>2, ArrivedIs DEF Arrived, Reads
<1>4. a \in Msgs /\ a.type = "ack" /\ n \in Reqs /\ m.type = "cb"
  BY <1>1, <1>3 DEF CbMsgs, Msgs
<1>5. Grows /\ AsksStay /\ OwnInv' /\ Line' = Line
  BY <1>2, Unnoticed DEF RunInv
<1>6. ASSUME NEW j PROVE UpFrom(j) /\ LineFrom(j) /\ DownFrom(j)
  <2>1. ~Wanted(a, j)
    BY <1>4 DEF Wanted
  <2> QED BY <1>2, <1>4, <1>5, <2>1, SentUpFrom, ArrivedFrom, FromUnmoved
<1>7. runs \in [Reqs -> Nat]
  BY DEF Types, ClientTypes, Reqs
<1>8. ASSUME NEW j \in Reqs, j # n \/ m.id \notin Offers[c] PROVE Track(j)'
  <2>1. runs'[j] = runs[j]
    BY <1>2, <1>4, <1>7, <1>8
  <2> QED BY <1>5, <1>6, <2>1, Quiet DEF RunInv
<1>9. ASSUME m.id \in Offers[c] PROVE Track(n)'
  <2>1. down[k] \in Seq(CbMsgs \cup AckMsgs)
    BY <1>3 DEF Types, StreamTypes
  <2>2. 1 \in Spots(down[k], n)
    <3>1. 1 \in 1 .. Len(down[k]) /\ down[k][1] = m
      BY <1>1, <1>3, <2>1
    <3> QED BY <1>1, <1>4, <3>1 DEF Spots, Wanted
  <2>3. ~Waiting(n) /\ Counted(n) /\ Once(n)
    BY <1>3, <1>4, <2>2 DEF RunInv, Track, Fresh
  <2>4. n \in 1 .. Len(asked) /\ asked[n].id = m.id
    <3>1. DownOK(k, m)
      BY <1>3 DEF BackInv, MsgInv
    <3> QED BY <1>1, <1>4, <3>1 DEF DownOK, Genuine
  <2>5. Once(n)' /\ ~Waiting(n)'
    BY <1>2, <1>4, <1>6, <2>3, WaitsLess DEF Waiting
  <2>6. PICK X, off : Tallied(n, X, off)
    BY <2>3 DEF Counted
  <2>7. /\ X \subseteq Offering(n) \X Turns(n) /\ Cardinality(X) = runs[n]
        /\ off \in [Conns -> Int] /\ TurnsLeft(n, X, off)
    BY <2>6 DEF Tallied
  <2>8. PICK t, o : t = 1 - off[k] /\ o = [off EXCEPT ![k] = @ - 1]
    OBVIOUS
  <2>9. t \in Turns(n) /\ <<k, t>> \notin X
    BY <1>3, <2>2, <2>7, <2>8 DEF TurnsLeft
  <2>10. k \in Offering(n)
    <3>1. k \in DOMAIN owner /\ owner[k] = c
      BY <1>1, <1>3, ConnFacts DEF RunInv, OwnInv, Types
    <3> QED BY <1>9, <2>4, <3>1 DEF Offering
  <2>11. Offering(n)' = Offering(n) /\ Turns(n)' = Turns(n)
    BY <1>2 DEF Offering, Turns, Registrations
  <2>12. Cardinality(X \cup {<<k, t>>}) = runs'[n]
    <3>1. IsFiniteSet(X)
      <4>1. IsFiniteSet(Offering(n) \X Turns(n))
        BY TurnsFinite, FS_Product
      <4> QED BY <2>7, <4>1, FS_Subset
    <3>2. Cardinality(X \cup {<<k, t>>}) = Cardinality(X) + 1
      BY <2>9, <3>1, FS_AddElement
    <3>3. runs'[n] = runs[n] + 1
      BY <1>2, <1>4, <1>7, <1>9
    <3> QED BY <2>7, <3>2, <3>3
  <2>13. /\ o \in [Conns -> Int] /\ o[k] = off[k] - 1 /\ off[k] \in Int
         /\ \A j \in Conns : j # k => o[j] = off[j]
    BY <1>3, <2>7, <2>8
  <2>14. ASSUME NEW j \in Conns, NEW p \in Spots(down'[j], n)
         PROVE  p - o[j] \in Turns(n) /\ <<j, p - o[j]>> \notin X \cup {<<k, t>>}
    <3>1. CASE j = k
      <4>1. From(down[k], Tail(down[k]), 1, n) /\ down'[k] = Tail(down[k])
        BY <1>3, <2>1, FromTail DEF Types, StreamTypes
      <4>2. p + 1 \in Spots(down[k], n)
        BY <2>14, <3>1, <4>1 DEF From
      <4>3. p \in Int /\ p >= 1
        BY DEF Spots
      <4>4. (p + 1) - off[k] = p - o[k] /\ p - o[k] # t
        BY <2>8, <2>13, <4>3
      <4>5. p - o[k] \in Turns(n) /\ <<k, p - o[k]>> \notin X
        BY <1>3, <2>7, <4>2, <4>4 DEF TurnsLeft
      <4>6. <<k, p - o[k]>> # <<k, t>>
        BY <4>4
      <4> QED BY <3>1, <4>5, <4>6
    <3>2. CASE j # k
      <4>1. down'[j] = down[j] /\ o[j] = off[j]
        BY <1>3, <2>13, <3>2 DEF Types, StreamTypes
      <4>2. p - o[j] \in Turns(n) /\ <<j, p - o[j]>> \notin X
        BY <2>7, <2>14, <4>1 DEF TurnsLeft
      <4>3. <<j, p - o[j]>> # <<k, t>>
        BY <3>2
      <4> QED BY <4>2, <4>3
    <3> QED BY <3>1, <3>2
  <2>15. TurnsLeft(n, X \cup {<<k, t>>}, o)'
    BY <2>11, <2>14 DEF TurnsLeft, Spots
  <2>16. X \cup {<<k, t>>} \subseteq Offering(n)' \X Turns(n)'
    BY <2>7, <2>9, <2>10, <2>11
  <2>17. Tallied(n, X \cup {<<k, t>>}, o)'
    BY <2>12, <2>13, <2>15, <2>16 DEF Tallied
  <2>18. Counted(n)'
    BY <2>17 DEF Counted
  <2> QED BY <2>5, <2>18 DEF Track
<1> QED BY <1>5, <1>8, <1>9 DEF RunInv

(* A new request is in no place yet, and then in its asker's stream.       *)
LEMMA NotYetAsked ==
    ASSUME Types, BackInv, NEW n, n \notin 1 .. Len(asked)
    PROVE  LineSpots(n) = {} /\ \A k \in Conns : Spots(up[k], n) = {}
<1>1. ASSUME NEW k \in Conns, NEW p \in Spots(up[k], n) PROVE FALSE
  <2>1. up[k] \in Seq(Msgs) /\ p \in 1 .. Len(up[k]) /\ up[k][p].type = "cb" /\ up[k][p].req = n
    BY DEF Spots, Wanted, Types, StreamTypes
  <2>2. up[k][p] \in Range(up[k])
    BY <2>1 DEF Range
  <2>3. n \in 1 .. Len(asked)
    BY <2>1, <2>2 DEF BackInv, MsgInv, UpOK, Genuine
  <2> QED BY <2>3
<1>2. ASSUME NEW p \in LineSpots(n) PROVE FALSE
  <2>1. p \in 1 .. Len(Line) /\ Line[p].msg.req = n
    BY DEF LineSpots
  <2>2. Line[p] \in Range(Line)
    BY <2>1, LineIs DEF Range
  <2>3. Range(Line) \subseteq Held("C")
    <3>1. Range(work["C"] \o fifo["C"]) \subseteq Range(work["C"]) \cup Range(fifo["C"])
      BY LineIs, RangeConcat
    <3> QED BY <3>1 DEF Line, Held
  <2>4. Genuine(Line[p].msg)
    BY <2>2, <2>3 DEF BackInv, MsgInv
  <2> QED BY <2>1, <2>4 DEF Genuine
<1> QED BY <1>1, <1>2

LEMMA AskRuns ==
    ASSUME Types, Types', BackInv, RunInv, NEW t \in Callers, Ask(t), UNCHANGED srvVars
    PROVE  RunInv'
<1>1. PICK k, n : k = conn[Home[t]] /\ n = Len(asked) + 1
  OBVIOUS
<1>2. /\ k \in Conns /\ Len(asked) \in Nat /\ n \in Reqs /\ UNCHANGED <<owner, down>>
      /\ UNCHANGED <<cbIds, fifo, work>> /\ UNCHANGED <<conn, runs>>
  BY <1>1, Asking DEF conns, srvVars, queues
<1>3. PICK m, r : /\ SendUp(k, m) /\ m \in CbMsgs /\ m.req = n
                  /\ asked' = Append(asked, r) /\ r \in [conn : Conns, caller : Callers, id : Ids]
  <2>1. PICK id \in Ids :
            /\ SendUp(k, [type |-> "cb", id |-> id, link |-> NoLink, req |-> n])
            /\ [type |-> "cb", id |-> id, link |-> NoLink, req |-> n] \in CbMsgs
            /\ asked' = Append(asked, [conn |-> k, caller |-> t, id |-> id])
            /\ [conn |-> k, caller |-> t, id |-> id] \in [conn : Conns, caller : Callers, id : Ids]
    BY <1>1, Asking
  <2>2. [type |-> "cb", id |-> id, link |-> NoLink, req |-> n].req = n
    OBVIOUS
  <2> QED BY <2>1, <2>2
<1>4. Len(asked') = n /\ \A i \in 1 .. Len(asked) : i \in 1 .. Len(asked') /\ asked'[i] = asked[i]
  <2> DEFINE R == [conn : Conns, caller : Callers, id : Ids]
  <2>1. asked \in Seq(R) /\ r \in R
    BY <1>3 DEF Types, CallTypes
  <2> HIDE DEF R
  <2> QED BY <1>1, <1>2, <1>3, <2>1
<1>5. AsksStay
  BY <1>4 DEF AsksStay
<1>6. Grows /\ OwnInv' /\ Line' = Line
  BY <1>2, Unnoticed DEF RunInv
<1>7. \A j : LineFrom(j) /\ DownFrom(j)
  BY <1>2, <1>6, FromUnmoved
<1>8. m \in Msgs
  BY <1>3, CallMsgsAre
<1>9. ASSUME NEW j \in Reqs, j # n PROVE Track(j)'
  <2>1. ~Wanted(m, j)
    BY <1>3, <1>9 DEF Wanted
  <2>2. UpFrom(j)
    BY <1>3, <1>8, <2>1, SentUpFrom
  <2> QED BY <1>2, <1>5, <1>6, <1>7, <2>2, Quiet DEF RunInv
<1>10. Track(n)'
  <2>1. n > Len(asked) /\ n \notin 1 .. Len(asked)
    BY <1>1, <1>2
  <2>2. Fresh(n)
    BY <1>2, <2>1 DEF RunInv, Track, Waiting
  <2>3. Fresh(n)'
    BY <1>2, <2>2 DEF Fresh
  <2>4. LineSpots(n) = {} /\ \A j \in Conns : Spots(up[j], n) = {}
    BY <2>1, NotYetAsked
  <2>5. LineSpots(n)' = {}
    BY <1>6, <2>4 DEF LineSpots
  <2>6. ASSUME NEW j \in Conns PROVE AtMostOne(Spots(up'[j], n)) /\ (j # k => Spots(up'[j], n) = {})
    <3>1. up[j] \in Seq(Msgs)
      BY DEF Types, StreamTypes
    <3>2. up'[j] = up[j] \/ (j = k /\ up'[j] = Append(up[j], m))
      BY <1>3 DEF SendUp, Types, StreamTypes
    <3>3. Spots(Append(up[j], m), n) \subseteq {Len(up[j]) + 1}
      BY <2>4, <3>1, FromAppend
    <3>4. CASE up'[j] = up[j]
      BY <2>4, <3>4 DEF AtMostOne
    <3>5. CASE j = k /\ up'[j] = Append(up[j], m)
      BY <3>3, <3>5 DEF AtMostOne
    <3> QED BY <3>2, <3>4, <3>5
  <2>7. Once(n)'
    BY <2>5, <2>6 DEF Once, AtMostOne
  <2> QED BY <2>3, <2>7 DEF Track
<1> QED BY <1>6, <1>9, <1>10 DEF RunInv

LEMMA EndedRuns ==
    ASSUME Types, Types', RunInv, NEW c \in Clients, NEW l, Ended(c, l), UNCHANGED srvVars
    PROVE  RunInv'
<1>1. /\ conn' = [conn EXCEPT ![c] = 0]
      /\ down' = down \/ down' = [down EXCEPT ![conn[c]] = <<>>]
      /\ UNCHANGED <<owner, up>> /\ UNCHANGED <<cbIds, fifo, work>> /\ UNCHANGED <<asked, runs>>
  BY DEF Ended, CloseClient, srvVars, queues
<1>2. Grows /\ AsksStay /\ Line' = Line
  BY <1>1, Unnoticed
<1>3. OwnInv'
  <2>1. ASSUME NEW d \in Clients, conn'[d] # 0 PROVE conn'[d] = conn[d]
    <3>1. conn \in [Clients -> 0 .. MaxConns]
      BY DEF Types, ClientTypes
    <3>2. conn'[d] = IF d = c THEN 0 ELSE conn[d]
      BY <1>1, <3>1
    <3> QED BY <2>1, <3>2
  <2> QED BY <1>1, <2>1 DEF RunInv, OwnInv
<1>4. \A k \in Conns : down'[k] = down[k] \/ down'[k] = <<>>
  BY <1>1 DEF Types, StreamTypes
<1>5. \A n \in Reqs : UpFrom(n) /\ LineFrom(n) /\ DownFrom(n)
  BY <1>1, <1>2, <1>4, FromUnmoved
<1> QED BY <1>1, <1>2, <1>3, <1>5, RunsStay

LEMMA ClientRuns ==
    ASSUME Types, Types', BackInv, RunInv, NEW c \in Clients,
           ClientStep(c) \/ CloseExit(c) \/ Die(c), UNCHANGED srvVars
    PROVE  RunInv'
<1>0. UNCHANGED <<cbIds, fifo, work>>
  BY DEF srvVars, queues
<1>1. CASE ConnectFailed(c) \/ HandleAck(c) \/ HandleClosed(c) \/ HandleExit(c) \/ CloseExit(c) \/ Start(c)
  <2>1. UNCHANGED <<owner, up, down>> /\ UNCHANGED <<conn, asked, runs>>
    BY <1>1 DEF ConnectFailed, HandleAck, HandleClosed, HandleExit, CloseExit, Start, netVars, calls
  <2> QED BY <1>0, <2>1, StillRuns
<1>2. CASE CloseFree(c) \/ Die(c)
  BY <1>2, EndedRuns DEF CloseFree, Die
<1> QED BY <1>1, <1>2, ConnectedRuns, RegisterRuns, ReadAckRuns, HandleCbRuns
        DEF ClientStep, ConnectStep, HandleStep

LEMMA CallerRuns ==
    ASSUME Types, Types', BackInv, RunInv, NEW t \in Callers, CallerStep(t), UNCHANGED srvVars
    PROVE  RunInv'
<1>1. CASE WaitStep(t)
  <2>1. UNCHANGED <<owner, up, down>> /\ UNCHANGED <<conn, asked, runs>> /\ UNCHANGED <<cbIds, fifo, work>>
    BY <1>1 DEF WaitStep, Enter, LeaveOnExit, TimeOut, netVars, srvVars, queues
  <2> QED BY <2>1, StillRuns
<1> QED BY <1>1, AskRuns DEF CallerStep

LEMMA RunNext ==
    Types /\ Types' /\ TokenInv /\ BackInv /\ RunInv /\ [Next]_vars => RunInv'
<1> SUFFICES ASSUME Types, Types', TokenInv, BackInv, RunInv, [Next]_vars PROVE RunInv'
  OBVIOUS
<1>1. CASE ServerPart
  <2>1. UNCHANGED cliVars /\ ServerStep
    BY <1>1 DEF ServerPart
  <2> QED BY <2>1, ServerRuns
<1>2. CASE ClientPart
  <2>1. UNCHANGED srvVars /\ \E c \in Clients : ClientStep(c)
    BY <1>2 DEF ClientPart
  <2> QED BY <2>1, ClientRuns
<1>3. CASE CallerPart
  <2>1. UNCHANGED srvVars /\ \E t \in Callers : CallerStep(t)
    BY <1>3 DEF CallerPart
  <2> QED BY <2>1, CallerRuns
<1>4. CASE End
  <2>1. CASE DestroyBegin /\ UNCHANGED cliVars
    BY <2>1, ServerRuns
  <2>2. CASE (\E c \in Clients : CloseExit(c) \/ Die(c)) /\ UNCHANGED srvVars
    BY <2>2, ClientRuns
  <2> QED BY <1>4, <2>1, <2>2, IpcAssumption DEF End
<1>5. CASE UNCHANGED vars
  <2>1. UNCHANGED <<owner, up, down>> /\ UNCHANGED <<conn, asked, runs>> /\ UNCHANGED <<cbIds, fifo, work>>
    BY <1>5 DEF vars, netVars, cliVars, srvVars, queues
  <2> QED BY <2>1, StillRuns
<1> QED BY <1>1, <1>2, <1>3, <1>4, <1>5 DEF Next, ServerPart, ClientPart, CallerPart

LEMMA InitRuns == Init => RunInv
<1> SUFFICES ASSUME Init PROVE RunInv
  OBVIOUS
<1>1. /\ \A k \in Conns : up[k] = <<>> /\ down[k] = <<>>
      /\ \A n \in Reqs : runs[n] = 0
      /\ \A c \in Clients : conn[c] = 0
      /\ work["C"] = <<>> /\ fifo["C"] = <<>>
  BY DEF Init, NetInit, SrvInit, CliInit, Queues, Reqs
<1>2. \A n : Spots(<<>>, n) = {}
  BY DEF Spots
<1>3. Line = <<>> /\ \A n : LineSpots(n) = {}
  BY <1>1 DEF Line, LineSpots
<1>4. AtMostOne({})
  BY DEF AtMostOne
<1>5. \A n \in Reqs : Once(n)
  BY <1>1, <1>2, <1>3, <1>4 DEF Once
<1>6. \A n \in Reqs : Fresh(n)
  BY <1>1, <1>2 DEF Fresh
<1>7. OwnInv
  BY <1>1 DEF OwnInv
<1> QED BY <1>5, <1>6, <1>7 DEF RunInv, Track

(* For one request the function runs no more often than the id was         *)
(* registered, times the clients that have it, whatever is closed, dies or *)
(* comes back in between: no thread repeats a request.                     *)
THEOREM NothingRepeats == Spec => []RunsAreRegistered
<1>1. Types /\ BackInv /\ RunInv => RunsAreRegistered
  <2> SUFFICES ASSUME Types, BackInv, RunInv, NEW n \in DOMAIN asked
               PROVE  runs[n] <= Cardinality(Registrations(asked[n].id)) * Cardinality(Offering(n))
    BY DEF RunsAreRegistered, Registrations, Offering
  <2>1. n \in Reqs
    <3>1. n \in 1 .. Len(asked) /\ Len(asked) \in Nat /\ Len(asked) <= MaxCalls /\ MaxCalls \in Nat
      BY IpcAssumption DEF Types, CallTypes, BackInv, AskInv
    <3> QED BY <3>1 DEF Reqs
  <2>2. /\ Cardinality(Offering(n)) \in Nat /\ Cardinality(Turns(n)) \in Nat
        /\ Cardinality(Turns(n)) = Cardinality(Registrations(asked[n].id))
    BY TurnsFinite, FS_CardinalityType
  <2>3. CASE Fresh(n)
    <3>1. PICK x, y : x = Cardinality(Registrations(asked[n].id)) /\ y = Cardinality(Offering(n))
      OBVIOUS
    <3>2. x \in Nat /\ y \in Nat
      BY <2>2, <3>1
    <3>3. 0 <= x * y
      BY <3>2
    <3> QED BY <2>3, <3>1, <3>3 DEF Fresh
  <2>4. CASE Counted(n)
    <3>1. PICK X, off : Tallied(n, X, off)
      BY <2>4 DEF Counted
    <3>2. X \subseteq Offering(n) \X Turns(n) /\ Cardinality(X) = runs[n]
      BY <3>1 DEF Tallied
    <3>3. /\ IsFiniteSet(Offering(n) \X Turns(n))
          /\ Cardinality(Offering(n) \X Turns(n)) = Cardinality(Offering(n)) * Cardinality(Turns(n))
      BY TurnsFinite, FS_Product
    <3>4. Cardinality(X) <= Cardinality(Offering(n) \X Turns(n))
      BY <3>2, <3>3, FS_Subset
    <3>5. Cardinality(Offering(n)) * Cardinality(Turns(n)) = Cardinality(Turns(n)) * Cardinality(Offering(n))
      BY <2>2
    <3> QED BY <2>2, <3>2, <3>3, <3>4, <3>5
  <2> QED BY <2>1, <2>3, <2>4 DEF RunInv, Track
<1>2. Init => RunInv
  BY InitRuns
<1> QED BY <1>1, <1>2, TypesHold, BackNext, RunNext, InitBack, PTL DEF Spec

================================================================================
