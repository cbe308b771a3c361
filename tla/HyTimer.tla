------------------------------- MODULE HyTimer -------------------------------
(***************************************************************************)
(* The single timer wheel, src/linux/time/hy_timer.c: slot_num slots, one  *)
(* of which the server thread walks in each interval, under the mutex and  *)
(* running the callbacks there.  Other threads add a timer and delete it,  *)
(* Del looking through one slot at a time and giving the mutex back in     *)
(* between.  A timer that fires once is freed by the server, and malloc    *)
(* may give its address to the next.                                       *)
(***************************************************************************)
EXTENDS Naturals, Sequences, SequencesExt

CONSTANTS
    Users,          \* threads with one timer each at a time
    slot_num,
    Expiries        \* delays asked for, in slots

VARIABLES
    slots,          \* list_head: the timers in each slot, by address
    block,          \* what is at each address
    cur_slot,
    at,             \* the server's place in the slot, 0 while it sleeps
    user,           \* each user: what it does, its handle, the slot Del is at
    rang,           \* history: the user's timer fired since it was added, or
                    \* since Del of it began, or another's Del took it
    timerEnd        \* Destroy: "run", "exit", "freed"

timerVars == <<slots, block, cur_slot, at, user, rang, timerEnd>>

Addrs == 1 .. 2     \* two timers may be alive: addresses are used again
Freed == [owner |-> 0, expires |-> 0, repeat |-> FALSE, rotation |-> 0, age |-> 0]
None  == 0

TimerInit ==
    /\ slots = [s \in 0 .. slot_num - 1 |-> <<>>]
    /\ block = [a \in Addrs |-> Freed]
    /\ cur_slot = 0 /\ at = 0
    /\ user = [u \in Users |-> [pc |-> "idle", addr |-> None, slot |-> 0]]
    /\ rang = [u \in Users |-> FALSE]
    /\ timerEnd = "run"

Linked(a) == \E s \in DOMAIN slots : a \in Range(slots[s])
MutexFree == at = 0

-----------------------------------------------------------------------------
(* _timer_server_loop_cb.  In each interval it takes the mutex, ...        *)
Wake ==
    /\ MutexFree /\ timerEnd = "run"
    /\ at' = 1
    /\ UNCHANGED <<slots, block, cur_slot, user, rang, timerEnd>>

(* Where a timer that repeats goes: counted from slot 0, and then in turns *)
(* and slots.                                                              *)
(* Mutation: the slot is reduced before the turns are taken from it.       *)
Refiled_Reduced(a) ==
    LET slot == cur_slot + block[a].expires
    IN  [slot |-> slot % slot_num, rotation |-> (slot % slot_num) \div slot_num]

Refiled(a) ==
    LET slot == cur_slot + block[a].expires
    IN  [slot |-> slot % slot_num, rotation |-> slot \div slot_num]

(* ... walks the slot, the next entry known before this one is handled: a  *)
(* timer that goes round to the tail of the slot it came from is met again *)
(* unless it was the last, ...                                             *)
Due(a) == at \in DOMAIN slots[cur_slot] /\ slots[cur_slot][at] = a /\ block[a].rotation <= 1

Pass(a) ==
    /\ ~Due(a)
    /\ block' = [block EXCEPT ![a].rotation = @ - 1]
    /\ at' = at + 1
    /\ UNCHANGED <<slots, rang>>

Fire(a) ==
    LET list == slots[cur_slot]
        rest == [slots EXCEPT ![cur_slot] = RemoveAt(@, at)]
        to   == Refiled(a)
    IN  /\ Due(a)
        /\ rang' = [rang EXCEPT ![block[a].owner] = TRUE]
        /\ IF block[a].repeat
           THEN /\ slots' = [rest EXCEPT ![to.slot] = Append(@, a)]
                /\ block' = [block EXCEPT ![a].rotation = to.rotation, ![a].age = 0]
           ELSE slots' = rest /\ block' = [block EXCEPT ![a] = Freed]
        /\ at' = IF at = Len(list) THEN Len(slots'[cur_slot]) + 1 ELSE at

Visit ==
    /\ at \in DOMAIN slots[cur_slot]
    /\ LET a == slots[cur_slot][at] IN Pass(a) \/ Fire(a)
    /\ UNCHANGED <<cur_slot, user, timerEnd>>

(* ... and steps to the next slot.                                         *)
SlotDone ==
    /\ at > Len(slots[cur_slot])
    /\ cur_slot' = (cur_slot + 1) % slot_num
    /\ at' = 0
    /\ block' = [a \in Addrs |-> IF Linked(a) THEN [block[a] EXCEPT !.age = @ + 1] ELSE block[a]]
    /\ UNCHANGED <<slots, user, rang, timerEnd>>

-----------------------------------------------------------------------------
(* HyTimerAdd: the slot is counted from slot 0, wherever the server is.    *)
Add(u, e, repeat) ==
    /\ MutexFree /\ timerEnd = "run" /\ user[u].pc \in {"idle", "missed"}
    /\ \E a \in Addrs :
          /\ block[a] = Freed
          /\ block' = [block EXCEPT ![a] = [owner |-> u, expires |-> e, repeat |-> repeat,
                                            rotation |-> e \div slot_num, age |-> 0]]
          /\ slots' = [slots EXCEPT ![e % slot_num] = Append(@, a)]
          /\ user' = [user EXCEPT ![u] = [pc |-> "added", addr |-> a, slot |-> 0]]
    /\ rang' = [rang EXCEPT ![u] = FALSE]
    /\ UNCHANGED <<cur_slot, at, timerEnd>>

(* HyTimerDel, one slot for each time the mutex is taken.                  *)
DelCall(u) ==
    /\ timerEnd = "run" /\ user[u].pc = "added"
    /\ user' = [user EXCEPT ![u].pc = "deleting"]
    /\ rang' = [rang EXCEPT ![u] = block[user[u].addr].owner # u]
    /\ UNCHANGED <<slots, block, cur_slot, at, timerEnd>>

DelFound(u) ==
    LET s == user[u].slot
        a == user[u].addr
    IN  /\ MutexFree /\ user[u].pc = "deleting"
        /\ \E i \in DOMAIN slots[s] : slots[s][i] = a /\ slots' = [slots EXCEPT ![s] = RemoveAt(@, i)]
        /\ block' = [block EXCEPT ![a] = Freed]
        /\ user' = [user EXCEPT ![u] = [pc |-> "idle", addr |-> None, slot |-> 0]]
        /\ rang' = [rang EXCEPT ![block[a].owner] = TRUE]
        /\ UNCHANGED <<cur_slot, at, timerEnd>>

(* Mutation: the last slot is not looked at.                               *)
DelNext_Short(u) ==
    LET s == user[u].slot IN
    /\ MutexFree /\ user[u].pc = "deleting"
    /\ user[u].addr \notin Range(slots[s])
    /\ user' = [user EXCEPT ![u] = IF s + 1 < slot_num - 1 THEN [@ EXCEPT !.slot = s + 1]
                                   ELSE [pc |-> "missed", addr |-> None, slot |-> 0]]
    /\ UNCHANGED <<slots, block, cur_slot, at, rang, timerEnd>>

DelNext(u) ==
    LET s == user[u].slot IN
    /\ MutexFree /\ user[u].pc = "deleting"
    /\ user[u].addr \notin Range(slots[s])
    /\ user' = [user EXCEPT ![u] = IF s + 1 < slot_num THEN [@ EXCEPT !.slot = s + 1]
                                   ELSE [pc |-> "missed", addr |-> None, slot |-> 0]]
    /\ UNCHANGED <<slots, block, cur_slot, at, rang, timerEnd>>

(* HyTimerServerDestroy: the server ends its round, then every timer goes. *)
TimerDestroy ==
    /\ timerEnd = "run" /\ \A u \in Users : user[u].pc # "deleting"
    /\ timerEnd' = "exit"
    /\ UNCHANGED <<slots, block, cur_slot, at, user, rang>>

TimerFree ==
    /\ timerEnd = "exit" /\ MutexFree
    /\ slots' = [s \in DOMAIN slots |-> <<>>]
    /\ block' = [a \in Addrs |-> Freed]
    /\ timerEnd' = "freed"
    /\ UNCHANGED <<cur_slot, at, user, rang>>

TimerServer == Wake \/ Visit \/ SlotDone
TimerNext ==
    \/ TimerServer \/ TimerDestroy \/ TimerFree
    \/ \E u \in Users : (\E e \in Expiries, r \in BOOLEAN : Add(u, e, r)) \/ DelCall(u) \/ DelFound(u) \/ DelNext(u)

-----------------------------------------------------------------------------
(* A timer rings near its time, whichever slot the server is at when it is *)
(* added: not later than asked for, or than a turn of the wheel when that  *)
(* is longer, and less than two turns too early.                           *)
RingsNearItsTime ==
    \A a \in Addrs : Due(a) =>
        /\ block[a].age <= IF block[a].expires < slot_num THEN slot_num ELSE block[a].expires
        /\ block[a].expires < block[a].age + 2 * slot_num

(* A Del that does not take its own timer out, because it found none or    *)
(* found another at that address, has missed one that fired: once and was  *)
(* freed, or while Del was looking, which moved it to a slot Del had       *)
(* passed; or one that such a Del of somebody else took.                   *)
DelMissesOnlyWhatRang ==
    [][\A u \in Users :
          (/\ user[u].pc = "deleting" /\ user'[u].pc # "deleting"
           /\ \/ user'[u].pc = "missed"
              \/ block[user[u].addr].owner # u) => rang[u]]_timerVars

(* The server gives the mutex back, so that nobody waits for it for ever:  *)
(* except that two repeating timers of no delay or of just one turn, in    *)
(* one slot, keep it going round in that slot.                             *)
TurnEnds ==
    []<>(\/ MutexFree
         \/ \E a, b \in Addrs : a # b /\ \A x \in {a, b} :
               x \in Range(slots[cur_slot]) /\ block[x].repeat
                                            /\ block[x].expires \in {0, slot_num})
=============================================================================
