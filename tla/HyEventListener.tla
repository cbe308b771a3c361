--------------------------- MODULE HyEventListener ---------------------------
(***************************************************************************)
(* src/linux/libevent/hy_event_listener.c: libevent's loop with a listener *)
(* and signals.  libevent is external: it runs without locks here, so that *)
(* a call from another thread does not wake it; the loop looks at its two  *)
(* flags before it waits, and once it waits sleeps until an event or a     *)
(* timer that it knew of.                                                  *)
(***************************************************************************)
VARIABLES
    evLoop,         \* "idle", "look", "wait", "work", "done"
    event_break, event_gotterm,
    evTimer,        \* the timer of loopexit: "none", "set", "due"
    knows,          \* the loop waits with that timer in mind
    evAsked,        \* how the end was asked for: "no", "surely", "unseen"
    evEnd           \* "run", "gone", "lost": a Create that failed crashed

evVars == <<evLoop, event_break, event_gotterm, evTimer, knows, evAsked, evEnd>>

ListenerInit ==
    /\ evLoop = "idle" /\ event_break = FALSE /\ event_gotterm = FALSE
    /\ evTimer = "none" /\ knows = FALSE /\ evAsked = "no"
    /\ evEnd = "run"

(* The address is in use, say: HyEventListenerCreate clears up with        *)
(* HyEventListenerDestroy, which frees a listener that is NULL.            *)
ListenerCreateFails ==
    /\ evLoop = "idle" /\ evAsked = "no" /\ evEnd = "run" /\ evEnd' = "lost"
    /\ UNCHANGED <<evLoop, event_break, event_gotterm, evTimer, knows, evAsked>>

(* HyEventListenerLoop: event_base_dispatch clears both flags.             *)
LoopEnter ==
    /\ evEnd = "run" /\ evLoop = "idle" /\ evLoop' = "look"
    /\ event_break' = FALSE /\ event_gotterm' = FALSE
    /\ UNCHANGED <<evTimer, knows, evAsked, evEnd>>

LoopLook ==
    /\ evLoop = "look"
    /\ evLoop' = IF event_break \/ event_gotterm THEN "done" ELSE "wait"
    /\ knows' = (evTimer # "none")
    /\ UNCHANGED <<event_break, event_gotterm, evTimer, evAsked, evEnd>>

(* A signal or a client comes.                                             *)
EventComes ==
    /\ evLoop = "wait" /\ evLoop' = "work"
    /\ UNCHANGED <<event_break, event_gotterm, evTimer, knows, evAsked, evEnd>>

TwoSeconds ==
    /\ evTimer = "set" /\ evTimer' = "due"
    /\ UNCHANGED <<evLoop, event_break, event_gotterm, knows, evAsked, evEnd>>

LoopTimer ==
    /\ evLoop = "wait" /\ knows /\ evTimer = "due"
    /\ evLoop' = "look" /\ event_gotterm' = TRUE /\ evTimer' = "none"
    /\ UNCHANGED <<event_break, knows, evAsked, evEnd>>

(* A callback of the application returns: _listener_cb, a signal's.  A     *)
(* timer that is due is handled in the same round.                         *)
EventDone ==
    /\ evLoop = "work" /\ evLoop' = "look"
    /\ \/ evTimer = "due" /\ ~event_break /\ event_gotterm' = TRUE /\ evTimer' = "none"
       \/ evTimer # "due" /\ UNCHANGED <<event_gotterm, evTimer>>
       \/ event_break /\ UNCHANGED <<event_gotterm, evTimer>>
    /\ UNCHANGED <<event_break, knows, evAsked, evEnd>>

(* _listener_error_cb: event_base_loopexit without a delay.                *)
ListenerErrorCb ==
    /\ evLoop = "work" /\ evLoop' = "look"
    /\ event_gotterm' = TRUE /\ evAsked' = "surely"
    /\ UNCHANGED <<event_break, evTimer, knows, evEnd>>

-----------------------------------------------------------------------------
(* HyEventListenerExit, from a callback, or from another thread: before    *)
(* the loop, or any time in it.  A loop that waits without a timer, or is  *)
(* about to, may not see it.                                               *)
Asks == evAsked' = IF evAsked = "no" /\ evLoop = "wait" /\ ~knows THEN "unseen"
                   ELSE IF evAsked = "unseen" THEN evAsked ELSE "surely"

Exit ==
    /\ evEnd = "run" /\ evLoop # "done" /\ Asks /\ event_break' = TRUE
    /\ evTimer' = IF evTimer = "none" THEN "set" ELSE evTimer
    /\ UNCHANGED <<evLoop, event_gotterm, knows, evEnd>>

ListenerDestroy ==
    /\ evEnd = "run" /\ evLoop \in {"idle", "done"} /\ evEnd' = "gone"
    /\ UNCHANGED <<evLoop, event_break, event_gotterm, evTimer, knows, evAsked>>

ListenerLoop == LoopLook \/ LoopTimer \/ EventDone
ListenerNext == ListenerCreateFails \/ LoopEnter \/ ListenerLoop \/ TwoSeconds
                \/ EventComes \/ ListenerErrorCb \/ Exit \/ ListenerDestroy

-----------------------------------------------------------------------------
(* A loop that was asked to end ends, whenever it was asked: the flag is   *)
(* for a loop at work, the timer for one that has not begun, which clears  *)
(* the flag.  Only a loop that waits, asked by another thread, has to be   *)
(* woken by an event first.                                                *)
ExitEndsLoop == (evAsked = "surely" /\ evLoop # "idle") ~> evLoop = "done"
=============================================================================
