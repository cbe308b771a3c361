------------------------ MODULE HyBuffereventClient ------------------------
(***************************************************************************)
(* src/linux/libevent/hy_bufferevent_client.c: one connection to a server, *)
(* kept by a thread that runs libevent's loop.  libevent is external: the  *)
(* loop calls back for what happens to the connection, and returns when it *)
(* has no event left, which is when the bufferevent was freed.  It is made *)
(* without locks, and a Write works on it beside the loop.  What is read   *)
(* and written is left out.                                                *)
(***************************************************************************)

VARIABLES
    is_exit,
    bevLive,        \* handle->event: its bufferevent was not freed
    link,           \* the connection: "none", "connecting", "up"
    bevThread,      \* "test", "connect", "sleep", "loop", "tell", "return", "ended"
    bevEnd,         \* Destroy: "run", "close" (the base is freed), "join", "gone"
    told,           \* event_cb was given DISCONNECTED
    writing,        \* a Write is in bufferevent_write
    haste,          \* history: a Write after that, or a Destroy that did not wait
    met,            \* history: a Write met the free before event_cb was called
    bevLost         \* who used freed memory: "no"body, the "loop", a "write"

bevVars == <<is_exit, bevLive, link, bevThread, bevEnd, told, writing, haste, met, bevLost>>

BevInit ==
    /\ is_exit = FALSE /\ bevLive = TRUE /\ link = "none"
    /\ bevThread = "test" /\ bevEnd = "run" /\ told = FALSE /\ writing = FALSE
    /\ haste = FALSE /\ met = FALSE /\ bevLost = "no"

(* A step of the thread inside libevent, which works on the base.          *)
OnBase(from) ==
    /\ bevThread = from /\ bevLost = "no"
    /\ bevLost' = IF bevEnd # "run" THEN "loop" ELSE "no"

-----------------------------------------------------------------------------
(* _read_thread_loop_cb.                                                   *)
LoopTest ==
    /\ bevThread = "test" /\ bevThread' = IF is_exit THEN "ended" ELSE "connect"
    /\ UNCHANGED <<is_exit, bevLive, link, bevEnd, told, writing, haste, met, bevLost>>

(* bufferevent_socket_connect fails at once, and after two seconds the     *)
(* thread tries again; or the answer comes later, from the loop.           *)
SocketConnect ==
    /\ bevThread = "connect" /\ bevLost = "no"
    /\ bevLost' = IF bevEnd # "run" \/ ~bevLive THEN "loop" ELSE "no"
    /\ \/ bevThread' = "sleep" /\ UNCHANGED link
       \/ bevThread' = "loop" /\ link' = "connecting"
    /\ UNCHANGED <<is_exit, bevLive, bevEnd, told, writing, haste, met>>

Sleep2 ==
    /\ bevThread = "sleep" /\ bevThread' = "test"
    /\ UNCHANGED <<is_exit, bevLive, link, bevEnd, told, writing, haste, met, bevLost>>

(* event_base_dispatch returns.                                            *)
DispatchReturns ==
    /\ OnBase("return") /\ bevThread' = "test"
    /\ UNCHANGED <<is_exit, bevLive, link, bevEnd, told, writing, haste, met>>

-----------------------------------------------------------------------------
(* _event_cb: connected; or the server closed, or there was an error,      *)
(* connecting included, and the application is told after that.            *)
EventConnected ==
    /\ OnBase("loop") /\ link = "connecting" /\ link' = "up"
    /\ UNCHANGED <<is_exit, bevLive, bevThread, bevEnd, told, writing, haste, met>>

(* Mutation: the thread is left to connect again.                          *)
EventClosed_Retry ==
    /\ OnBase("loop") /\ link # "none" /\ link' = "none"
    /\ bevLive' = FALSE /\ bevThread' = "tell" /\ met' = (met \/ writing)
    /\ UNCHANGED <<is_exit, bevEnd, told, writing, haste>>

EventClosed ==
    /\ OnBase("loop") /\ link # "none" /\ link' = "none"
    /\ is_exit' = TRUE /\ bevLive' = FALSE /\ bevThread' = "tell" /\ met' = (met \/ writing)
    /\ UNCHANGED <<bevEnd, told, writing, haste>>

EventTell ==
    /\ OnBase("tell") /\ bevThread' = "return" /\ told' = TRUE
    /\ UNCHANGED <<is_exit, bevLive, link, bevEnd, writing, haste, met>>

(* _read_cb takes 1024 bytes of what has come and gives it on.             *)
ReadCb ==
    /\ OnBase("loop") /\ link = "up"
    /\ UNCHANGED <<is_exit, bevLive, link, bevThread, bevEnd, told, writing, haste, met>>

-----------------------------------------------------------------------------
(* HyBuffereventClientWrite, from any thread: bufferevent_write begins, and *)
(* is in the bufferevent and in its base until it returns.                 *)
BevWrite ==
    /\ bevEnd = "run" /\ ~writing /\ bevLost = "no" /\ writing' = TRUE
    /\ haste' = (haste \/ told) /\ met' = (met \/ (~bevLive /\ ~told))
    /\ UNCHANGED <<is_exit, bevLive, link, bevThread, bevEnd, told, bevLost>>

BevWrites ==
    /\ writing /\ bevLost = "no" /\ writing' \in BOOLEAN
    /\ bevLost' = IF bevLive /\ bevEnd = "run" THEN "no" ELSE "write"
    /\ UNCHANGED <<is_exit, bevLive, link, bevThread, bevEnd, told, haste, met>>

(* HyBuffereventClientDestroy frees the base, closes the socket and joins; *)
(* it does not set is_exit.                                                *)
BevFreeBase ==
    /\ bevEnd = "run" /\ bevEnd' = "close"
    /\ haste' = (haste \/ writing \/ (bevThread # "ended" /\ ~(bevThread = "test" /\ is_exit)))
    /\ UNCHANGED <<is_exit, bevLive, link, bevThread, told, writing, met, bevLost>>

BevClose ==
    /\ bevEnd = "close" /\ bevEnd' = "join"
    /\ UNCHANGED <<is_exit, bevLive, link, bevThread, told, writing, haste, met, bevLost>>

BevJoin ==
    /\ bevEnd = "join" /\ bevThread = "ended" /\ bevEnd' = "gone"
    /\ UNCHANGED <<is_exit, bevLive, link, bevThread, told, writing, haste, met, bevLost>>

BevThread == LoopTest \/ SocketConnect \/ Sleep2 \/ DispatchReturns \/ EventTell
BevEvents == EventConnected \/ EventClosed \/ ReadCb
BevDestroy == BevClose \/ BevJoin
BevNext == BevThread \/ BevEvents \/ BevWrite \/ BevWrites \/ BevFreeBase \/ BevDestroy

-----------------------------------------------------------------------------
(* The thread never uses what it freed itself: when the server goes, it    *)
(* does not connect again.  It uses freed memory only when Destroy was     *)
(* called too early, with the thread not yet at its end or a Write not yet *)
(* back.  An application that keeps from that, and from writing once       *)
(* event_cb was given DISCONNECTED, loses to one thing only: _event_cb     *)
(* frees the bufferevent before it tells, and a Write that is under way by *)
(* then, or begins in between, is in freed memory.                         *)
FreedUsedInHaste ==
    bevLost # "no" => haste \/ (bevLost = "write" /\ met)
=============================================================================
