-------------------------- MODULE HyTimerMultiWheel --------------------------
(***************************************************************************)
(* The cascading timer wheels, src/linux/time/hy_timer_multi_wheel.c: a    *)
(* thread steps cur_ms and runs what is due; Add files a timer from any    *)
(* other thread, with no lock (the FIXME at _timer_add).  Each of Add's    *)
(* looks at cur_ms, and the linking, is a step of its own; so are, in the  *)
(* thread, the cascade, the raising of cur_ms and the detaching of the     *)
(* list that runs.  To link an entry, and to detach a list, is one step,   *)
(* which without a lock it need not be: then lists are broken.             *)
(*                                                                         *)
(* list is declared [_LIST_SIZE][_MULTI_WHEEL_CNT] but used as one row for *)
(* each wheel: list[n] + i is flat element n * _MULTI_WHEEL_CNT + i, and   *)
(* the wheels share elements.  The order within a list only orders the     *)
(* callbacks of one tick and is left out.                                  *)
(***************************************************************************)
EXTENDS Integers, FiniteSetsExt

CONSTANTS
    Wakes,          \* the timers, each added once
    Delays,         \* the delays asked for, in ticks
    BaseBits, Bits, Wheels,     \* _LIST_BASE_BIT, _LIST_BIT, _MULTI_WHEEL_CNT
    MaxTicks        \* bound: ticks in one behaviour

VARIABLES
    ticks,          \* ticks so far; cur_ms is its low bits
    file,           \* the state of each timer: where Add or the wheels have it
    wheelThread,    \* the thread: at its loop's "test", in epoll_"wait", to "raise"
                    \* cur_ms, to "detach" the list, or "over"
    wheelEnd        \* Destroy: "run", "exit", "joined", "freed"

wheelVars == <<ticks, file, wheelThread, wheelEnd>>

Word     == 2 ^ (BaseBits + Wheels * Bits)
Span(n)  == 2 ^ (BaseBits + n * Bits)
cur_ms   == ticks % Word
Index(x, n) == (x \div Span(n)) % (2 ^ Bits)

(* A list is its place in list_base, or behind it in list.                 *)
BaseList(i)     == i
WheelList(n, i) == Span(0) + n * Wheels + i
Nowhere         == -1

WheelInit ==
    /\ ticks = 0 /\ wheelThread = "test" /\ wheelEnd = "run"
    /\ file = [w \in Wakes |-> [at |-> "new", list |-> Nowhere, expires |-> 0,
                                due |-> 0, steady |-> TRUE, gap |-> FALSE, late |-> 0]]

(* _timer_add: the list for an expiry time, by how far away it is.  Half   *)
(* the range counts as past.                                               *)
ListFor(x) ==
    LET idx == (x - cur_ms) % Word
        n   == Max({0} \cup {k \in 1 .. Wheels - 1 : idx >= Span(k)})
    IN  IF idx >= Word \div 2 THEN BaseList(cur_ms % Span(0))
        ELSE IF idx < Span(0) THEN BaseList(x % Span(0))
        ELSE WheelList(n, Index(x, n))

-----------------------------------------------------------------------------
(* HyTimerMultiWheelAdd.  A timer that would expire at 0 is refused.       *)

AddExpiry(w, d) ==
    /\ wheelEnd = "run" /\ file[w].at = "new"
    /\ file' = [file EXCEPT ![w].at = IF (d + cur_ms) % Word = 0 THEN "refused" ELSE "placing",
                            ![w].expires = (d + cur_ms) % Word,
                            ![w].due = ticks + d]
    /\ UNCHANGED <<ticks, wheelThread, wheelEnd>>

AddPlace(w) ==
    /\ wheelEnd = "run" /\ file[w].at = "placing"
    /\ file' = [file EXCEPT ![w].at = "linking", ![w].list = ListFor(file[w].expires)]
    /\ UNCHANGED <<ticks, wheelThread, wheelEnd>>

AddLink(w) ==
    /\ wheelEnd = "run" /\ file[w].at = "linking"
    /\ file' = [file EXCEPT ![w].at = "filed", ![w].gap = (wheelThread = "detach")]
    /\ UNCHANGED <<ticks, wheelThread, wheelEnd>>

-----------------------------------------------------------------------------
(* The thread.  exit_flag is read at the top of its loop only.             *)
LoopTest ==
    /\ wheelThread = "test"
    /\ wheelThread' = IF wheelEnd = "run" THEN "wait" ELSE "over"
    /\ UNCHANGED <<ticks, file, wheelEnd>>

(* _handle_timer: while the index of a wheel is zero, the one above it is  *)
(* filed anew.                                                             *)

(* Mutation: the wheels above the first are never looked at.               *)
Turned_First ==
    IF cur_ms % Span(0) = 0 THEN {WheelList(0, Index(cur_ms, 0))} ELSE {}

Turned ==
    IF cur_ms % Span(0) = 0
    THEN {WheelList(n, Index(cur_ms, n)) :
             n \in {k \in 0 .. Wheels - 1 : \A j \in 0 .. k - 1 : Index(cur_ms, j) = 0}}
    ELSE {}

Cascade ==
    /\ wheelThread = "wait" /\ (ticks < MaxTicks \/ wheelEnd = "exit")
    /\ file' = [w \in Wakes |->
                   IF file[w].at = "filed" /\ file[w].list \in Turned
                   THEN [file[w] EXCEPT !.list = ListFor(file[w].expires)]
                   ELSE file[w]]
    /\ wheelThread' = "raise"
    /\ UNCHANGED <<ticks, wheelEnd>>

(* A call of Add that has looked at cur_ms is overtaken.                   *)
Raise ==
    /\ wheelThread = "raise" /\ wheelThread' = "detach"
    /\ ticks' = ticks + 1
    /\ file' = [w \in Wakes |->
                   IF file[w].at \in {"placing", "linking"}
                   THEN [file[w] EXCEPT !.steady = FALSE]
                   ELSE file[w]]
    /\ UNCHANGED wheelEnd

(* The list of the tick, which began before cur_ms was raised, runs.  A    *)
(* timer is freed when it has fired, whatever its mode says.               *)
tick == IF wheelThread = "detach" THEN ticks - 1 ELSE ticks

Detach ==
    /\ wheelThread = "detach" /\ wheelThread' = "test"
    /\ file' = [w \in Wakes |->
                   IF file[w].at # "filed" THEN file[w]
                   ELSE IF file[w].list = BaseList(tick % Span(0))
                   THEN [file[w] EXCEPT !.at = "fired", !.list = Nowhere, !.expires = 0,
                                        !.due = 0, !.late = tick - file[w].due]
                   ELSE [file[w] EXCEPT !.gap = FALSE]]
    /\ UNCHANGED <<ticks, wheelEnd>>

(* HyTimerMultiWheelDestroy.  The timers that are still filed at the end   *)
(* stay in memory nobody can reach.                                        *)
WheelDestroy ==
    wheelEnd = "run" /\ wheelEnd' = "exit" /\ UNCHANGED <<ticks, file, wheelThread>>

WheelFree ==
    /\ \/ wheelEnd = "exit" /\ wheelThread = "over" /\ wheelEnd' = "joined"
       \/ wheelEnd = "joined" /\ wheelEnd' = "freed"
    /\ UNCHANGED <<ticks, file, wheelThread>>

WheelTick == LoopTest \/ Cascade \/ Raise \/ Detach

WheelNext ==
    \/ \E w \in Wakes : (\E d \in Delays : AddExpiry(w, d)) \/ AddPlace(w) \/ AddLink(w)
    \/ WheelTick \/ WheelDestroy \/ WheelFree

-----------------------------------------------------------------------------
(* A timer fires in the tick it is due and no other, however often the     *)
(* cascade moves it down, whatever lists the wheels share, and when cur_ms *)
(* wraps; one that a tick overtook while Add was filing it fires in that   *)
(* tick or later.  Only a timer that is linked after cur_ms was raised and *)
(* before the list that runs was detached can fire early: it gets into     *)
(* that list, and fires one turn of list_base, neither more nor less,      *)
(* before it is due.                                                       *)
FiresOnTime ==
    \A w \in Wakes :
        LET f == file[w] IN
        /\ f.at = "fired" => \/ f.late = 0
                             \/ f.late > 0 /\ ~f.steady
                             \/ f.late = -Span(0) /\ f.gap
        /\ (f.at = "filed" /\ f.steady) => tick <= f.due
=============================================================================
