----------------------------- MODULE MCServices -----------------------------
(***************************************************************************)
(* The services that run threads of their own, or an event loop, and share *)
(* nothing with each other: the two timers, the two fixed thread pools,    *)
(* the epoll thread, the led thread, the two wrappers of libevent and the  *)
(* network; and two programs: the server of EvConnListenerDemo, in which   *)
(* the fixed pool runs as a part, and PackageListDemo, around a package    *)
(* list.  Each behaviour runs one of them.                                 *)
(***************************************************************************)
EXTENDS Naturals

CONSTANTS
    u1, u2,
    Users, slot_num, Expiries,
    Wakes, Delays, BaseBits, Bits, Wheels, MaxTicks,
    PoolWorkers, PoolCap, PoolTasks, ListNodes,
    n1, n2, n3, NoNode,
    BakWorkers, task_max_cnt, BakTasks,
    Fds, ExitPipe,
    LedCap, CntRange

(* The nodes of a list are counted, a ring of tasks and a wheel have a     *)
(* place, delays are in slots, and 0 stands for nobody's timer.            *)
ASSUME ServicesAssumption ==
    /\ ListNodes \in Nat
    /\ task_max_cnt \in Nat \ {0}
    /\ slot_num \in Nat \ {0} /\ Expiries \subseteq Nat /\ 0 \notin Users

(* The wheels count in whole bits, and no delay is half the range or more, *)
(* which _timer_add would take for the past.                               *)
ASSUME WheelAssumption ==
    /\ BaseBits \in Nat /\ Bits \in Nat /\ Wheels \in Nat \ {0}
    /\ \A d \in Delays : d \in Nat /\ d < 2 ^ (BaseBits + Wheels * Bits) \div 2

(* The law of exponents, which the provers do not know, for the exponents  *)
(* the wheels use.                                                         *)
ASSUME PowersAssumption ==
    \A m, n \in 0 .. BaseBits + Wheels * Bits :
        /\ 2 ^ m \in Nat \ {0}
        /\ m + n <= BaseBits + Wheels * Bits => 2 ^ (m + n) = 2 ^ m * 2 ^ n

VARIABLES
    active,     \* the service that runs
    slots, block, cur_slot, at, user, rang, timerEnd,
    ticks, file, wheelThread, wheelEnd,
    worker, taskFifo, adder, parking, asleep, missed, added, begun, poolEnd,
    thread, ring, task_pending_cnt, read_pos, write_pos, shutdown, given, taken, stale, bakEnd,
    watched, ready, piped, events, epThread, epollEnd,
    ledFifo, led, lamp, ledThread, ledEnd,
    is_exit, bevLive, link, bevThread, bevEnd, told, writing, haste, met, bevLost,
    evLoop, event_break, event_gotterm, evTimer, knows, evAsked, evEnd,
    netState, wifi_c, wifiThread, power, wlan, wpa, udhcpc, client, inUse, netLost,
    mainAt, serves, leaving, open, cut, nodes, client_cnt, asked,
    list, num, waiting, isExit, freed, used, destroyed, pc, arg, dpc,
    handed, getAt, putAt, next, demoAsked, demoAt

(* Five and three turns, made shorter.                                     *)
Periods == [i \in {0, 1} |-> 2 - i]

Timer == INSTANCE HyTimer
Wheel == INSTANCE HyTimerMultiWheel
Pool  == INSTANCE HyThreadPool
Bak   == INSTANCE HyThreadPoolBak
Epoll == INSTANCE HyEpoll
Led   == INSTANCE HyPHYLed
Bev   == INSTANCE HyBuffereventClient
Listener == INSTANCE HyEventListener
Net   == INSTANCE HyNet
Server == INSTANCE EvConnListenerDemo
Demo == INSTANCE PackageListDemo WITH Getter <- u1, Putter <- u2, Nodes <- {n1, n2, n3},
            CreateMayFail <- FALSE, SleepSettles <- TRUE

T == <<slots, block, cur_slot, at, user, rang, timerEnd>>
W == <<ticks, file, wheelThread, wheelEnd>>
P == <<worker, taskFifo, adder, parking, asleep, missed, added, begun, poolEnd>>
B == <<thread, ring, task_pending_cnt, read_pos, write_pos, shutdown, given, taken, stale, bakEnd>>
E == <<watched, ready, piped, events, epThread, epollEnd>>
L == <<ledFifo, led, lamp, ledThread, ledEnd>>
V == <<is_exit, bevLive, link, bevThread, bevEnd, told, writing, haste, met, bevLost>>
X == <<evLoop, event_break, event_gotterm, evTimer, knows, evAsked, evEnd>>
N == <<netState, wifi_c, wifiThread, power, wlan, wpa, udhcpc, client, inUse, netLost>>
D == <<mainAt, serves, leaving, open, cut, nodes, client_cnt, asked>>
G == <<list, num, waiting, isExit, freed, used, destroyed, pc, arg, dpc,
       handed, getAt, putAt, next, demoAsked, demoAt>>

(* Where only another service runs, one initial state will do.             *)
Init ==
    /\ active \in {"timer", "wheel", "pool", "bak", "epoll", "led", "bev", "listener", "net",
                  "server", "demo"}
    /\ Timer!TimerInit /\ Wheel!WheelInit /\ Pool!PoolInit /\ Bak!BakInit
    /\ Epoll!EpollInit /\ Led!LedInit /\ Bev!BevInit /\ Listener!ListenerInit
    /\ Net!NetInit /\ (active # "net" => power = "off" /\ wpa = 0 /\ udhcpc = 0)
    /\ Server!ServerInit
    /\ Demo!PackagesInit /\ (active # "demo" => list = <<n1, n2, n3>>)

Runs(service) == active = service /\ UNCHANGED active

Next ==
    \/ Runs("timer")     /\ Timer!TimerNext         /\ UNCHANGED <<W, P, B, E, L, V, X, N, D, G>>
    \/ Runs("wheel")     /\ Wheel!WheelNext         /\ UNCHANGED <<T, P, B, E, L, V, X, N, D, G>>
    \/ Runs("pool")      /\ Pool!PoolNext           /\ UNCHANGED <<T, W, B, E, L, V, X, N, D, G>>
    \/ Runs("bak")       /\ Bak!BakNext             /\ UNCHANGED <<T, W, P, E, L, V, X, N, D, G>>
    \/ Runs("epoll")     /\ Epoll!EpollNext         /\ UNCHANGED <<T, W, P, B, L, V, X, N, D, G>>
    \/ Runs("led")       /\ Led!LedNext             /\ UNCHANGED <<T, W, P, B, E, V, X, N, D, G>>
    \/ Runs("bev")       /\ Bev!BevNext             /\ UNCHANGED <<T, W, P, B, E, L, X, N, D, G>>
    \/ Runs("listener")  /\ Listener!ListenerNext   /\ UNCHANGED <<T, W, P, B, E, L, V, N, D, G>>
    \/ Runs("net")       /\ Net!NetNext             /\ UNCHANGED <<T, W, P, B, E, L, V, X, D, G>>
    \/ Runs("server")    /\ Server!ServerNext       /\ UNCHANGED <<T, W, B, E, L, V, X, N, G>>
    \/ Runs("demo")      /\ Demo!PackagesNext       /\ UNCHANGED <<T, W, P, B, E, L, V, X, N, D>>

(* A thread of the library, and a Destroy under way, keep being scheduled. *)
Fairness ==
    /\ WF_T(Runs("timer") /\ Timer!TimerServer)
    /\ WF_W(Runs("wheel") /\ Wheel!WheelTick) /\ WF_W(Runs("wheel") /\ Wheel!WheelFree)
    /\ WF_P(Runs("pool") /\ Pool!PoolDestroy) /\ WF_P(Runs("pool") /\ Pool!PoolAdder)
    /\ \A w \in PoolWorkers : WF_P(Runs("pool") /\ Pool!PoolWorker(w))
    /\ WF_B(Runs("bak") /\ Bak!BakDestroy)
    /\ \A w \in BakWorkers : WF_B(Runs("bak") /\ Bak!BakWorker(w))
    /\ WF_E(Runs("epoll") /\ Epoll!EpollThread) /\ WF_E(Runs("epoll") /\ Epoll!EpollDestroy)
    /\ WF_V(Runs("bev") /\ Bev!BevThread) /\ WF_V(Runs("bev") /\ Bev!BevDestroy)
    /\ WF_X(Runs("listener") /\ Listener!ListenerLoop)
    /\ WF_X(Runs("listener") /\ Listener!TwoSeconds)
    /\ WF_<<P, D>>(Runs("server") /\ Server!ServerMain)
    /\ \A w \in PoolWorkers : WF_<<P, D>>(Runs("server") /\ Server!ServerWorker(w))
    /\ WF_G(Runs("demo") /\ Demo!GetThread) /\ WF_G(Runs("demo") /\ Demo!PutThread)
    /\ WF_G(Runs("demo") /\ Demo!MainThread)
    /\ WF_L(Runs("led") /\ Led!LedWorks) /\ WF_L(Runs("led") /\ Led!LedJoin)

Spec == Init /\ [][Next]_<<active, T, W, P, B, E, L, V, X, N, D, G>> /\ Fairness

-----------------------------------------------------------------------------
(* HyTimer: a timer rings near its time, see there.                        *)
RingsNearItsTime == Timer!RingsNearItsTime

(* HyTimer: a Del misses only a timer that rang.                           *)
DelMissesOnlyWhatRang == Timer!DelMissesOnlyWhatRang

(* HyTimerMultiWheel: a timer fires in its tick, see there.                *)
FiresOnTime == Wheel!FiresOnTime

(* HyThreadPool: tasks are begun in the order they were added, none lost.  *)
TasksInOrder == Pool!TasksInOrder

(* HyThreadPoolBak: each task is taken once while no position is stale.    *)
TakenOnceUntilStale == Bak!TakenOnceUntilStale

(* HyBuffereventClient: freed memory is used only in haste, see there.     *)
FreedUsedInHaste == Bev!FreedUsedInHaste

(* HyNet: the daemons and the interface are as configured, see there.      *)
OneDaemonEach == Net!OneDaemonEach

(* EvConnListenerDemo: list, pool and counter agree on the clients.        *)
ClientsAccountedFor == active = "server" => Server!ClientsAccountedFor

(* A Destroy returns: whatever the workers and the threads were doing when *)
(* it was called, they end and are joined, a timer's server at the end of  *)
(* its turn; a listener's loop ends when HyEventListenerExit asks it to,   *)
(* and the two programs when a signal does.  Only HyPHYLedDestroy depends  *)
(* on the application, which has to set leds again and again: its thread   *)
(* does not look at exit_flag while its fifo is empty;                     *)
(* HyBuffereventClientDestroy on the server, which has to close first; and *)
(* HyThreadPoolDestroy of the older pool on what it is asked for: told     *)
(* that the pool is running, it waits for ever.                            *)
DestroysEnd ==
    /\ Timer!TurnEnds
    /\ []<>(wheelEnd \in {"run", "freed"})
    /\ []<>(poolEnd \in {"run", "gone"} \/ active # "pool")
    /\ []<>(bakEnd = "gone" \/ shutdown = "running")
    /\ []<>(epollEnd \in {"run", "gone"})
    /\ []<>(ledEnd \in {"run", "gone"}) \/ <>[](ledFifo = <<>>)
    /\ []<>(bevEnd \in {"run", "gone"} \/ bevLost # "no" \/ ~is_exit)
    /\ Listener!ExitEndsLoop
    /\ Server!SignalEndsServer
    /\ Demo!SignalEndsDemo
=============================================================================
