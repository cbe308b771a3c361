------------------------------- MODULE HyEpoll -------------------------------
(***************************************************************************)
(* src/linux/net/hy_epoll.c: a thread that waits for events and calls the  *)
(* application for each.  The kernel hands over, with epoll_wait, some of  *)
(* the watched descriptors that are ready, and the pipe once Destroy has   *)
(* written to it; the thread works through them without looking again.     *)
(***************************************************************************)
EXTENDS FiniteSets, SequencesExt

CONSTANTS Fds, ExitPipe

VARIABLES
    watched,        \* the descriptors added and not deleted
    ready,          \* those that have something to read
    piped,          \* Destroy has written to pipe_fd[1]
    events,         \* what epoll_wait gave and is still to be handled
    epThread,       \* "test", "wait", "events", "flag", "gone"
    epollEnd        \* Destroy: "run", "exit", "wrote", "join", "gone"

epollVars == <<watched, ready, piped, events, epThread, epollEnd>>

EpollInit ==
    /\ watched = {} /\ ready = {} /\ piped = FALSE /\ events = <<>>
    /\ epThread = "test" /\ epollEnd = "run"

-----------------------------------------------------------------------------
(* The thread.                                                             *)
EpTest ==
    /\ epThread = "test"
    /\ epThread' = IF epollEnd = "run" THEN "wait" ELSE "flag"
    /\ UNCHANGED <<watched, ready, piped, events, epollEnd>>

EpWait ==
    /\ epThread = "wait"
    /\ \E got \in SUBSET ((watched \cap ready) \cup (IF piped THEN {ExitPipe} ELSE {})) :
           got # {} /\ events' \in SetToSeqs(got)
    /\ epThread' = "events"
    /\ UNCHANGED <<watched, ready, piped, epollEnd>>

(* epoll_wait fails, as it does for a signal: the thread ends for good.    *)
EpFails ==
    /\ epThread = "wait" /\ epThread' = "flag"
    /\ UNCHANGED <<watched, ready, piped, events, epollEnd>>

(* The callback reads the descriptor dry.  The exit event leaves the rest  *)
(* of the events unhandled.                                                *)
EpEvent ==
    /\ epThread = "events"
    /\ IF events = <<>> THEN epThread' = "test" /\ UNCHANGED <<ready, events>>
       ELSE IF Head(events) = ExitPipe
       THEN epThread' = "flag" /\ events' = <<>> /\ UNCHANGED ready
       ELSE ready' = ready \ {Head(events)} /\ events' = Tail(events) /\ UNCHANGED epThread
    /\ UNCHANGED <<watched, piped, epollEnd>>

EpFlag ==
    /\ epThread = "flag" /\ epThread' = "gone"
    /\ UNCHANGED <<watched, ready, piped, events, epollEnd>>

-----------------------------------------------------------------------------
HyEpollAdd(fd) ==
    /\ epollEnd = "run" /\ watched' = watched \cup {fd}
    /\ UNCHANGED <<ready, piped, events, epThread, epollEnd>>

HyEpollDel(fd) ==
    /\ epollEnd = "run" /\ fd \in watched /\ watched' = watched \ {fd}
    /\ UNCHANGED <<ready, piped, events, epThread, epollEnd>>

(* The world: a descriptor becomes ready.                                  *)
Arrives(fd) ==
    /\ ready' = ready \cup {fd}
    /\ UNCHANGED <<watched, piped, events, epThread, epollEnd>>

EpollExit ==
    /\ epollEnd = "run" /\ epollEnd' = "exit"
    /\ UNCHANGED <<watched, ready, piped, events, epThread>>

EpollPipe ==
    /\ epollEnd = "exit" /\ epollEnd' = "wrote" /\ piped' = TRUE
    /\ UNCHANGED <<watched, ready, events, epThread>>

(* For a second it waits for the flag, and then joins with or without it.  *)
EpollJoin ==
    /\ epollEnd = "wrote" /\ epThread = "gone" /\ epollEnd' = "gone"
    /\ UNCHANGED <<watched, ready, piped, events, epThread>>

EpollThread  == EpTest \/ EpWait \/ EpEvent \/ EpFlag
EpollDestroy == EpollPipe \/ EpollJoin
EpollNext == EpollThread \/ EpollDestroy \/ EpollExit \/ EpFails
             \/ \E fd \in Fds : HyEpollAdd(fd) \/ HyEpollDel(fd) \/ Arrives(fd)
=============================================================================
