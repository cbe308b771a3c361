------------------------------- MODULE HyPHYLed -------------------------------
(***************************************************************************)
(* src/linux/net/hy_phy_led.c: a thread that sets and blinks the two leds  *)
(* of a network port.  SetLed hands it modes through a HyFifo, which is    *)
(* the bounded fifo HyFifo is shown to implement, its items whole.         *)
(***************************************************************************)
EXTENDS Naturals, Sequences

CONSTANTS
    LedCap,         \* modes the fifo holds
    Periods,        \* judge_condition[led][1]
    CntRange        \* bound: the range of the counters, which wrap

VARIABLES
    ledFifo,        \* led_fifo_handle
    led,            \* led_blink_mode: each led's mode, cnt and flag
    lamp,           \* what each led shows
    ledThread,      \* "test", "poll", "read", "gone"
    ledEnd          \* Destroy: "run", "exit", "gone"

ledVars == <<ledFifo, led, lamp, ledThread, ledEnd>>

Leds  == {0, 1}                             \* HyPHYLedNum_e
Modes == {"off", "on", "slow", "fast"}      \* HyPHYLedMode_e
BlinkMode(i) == IF i = 0 THEN "slow" ELSE "fast"   \* judge_condition[i][0]

LedInit ==
    /\ ledFifo = <<>> /\ ledThread = "test" /\ ledEnd = "run"
    /\ led = [i \in Leds |-> [mode |-> "off", cnt |-> 0, flag |-> FALSE]]
    /\ lamp = [i \in Leds |-> "off"]

(* A full fifo takes nothing, and nobody looks at what it says.            *)
SetLed(i, mode) ==
    /\ ledEnd # "gone"
    /\ ledFifo' = IF Len(ledFifo) < LedCap THEN Append(ledFifo, [led |-> i, mode |-> mode]) ELSE ledFifo
    /\ UNCHANGED <<led, lamp, ledThread, ledEnd>>

LedTest ==
    /\ ledThread = "test"
    /\ ledThread' = IF ledEnd = "run" THEN "poll" ELSE "gone"
    /\ UNCHANGED <<ledFifo, led, lamp, ledEnd>>

(* One turn of the inner loop.  A led blinks when its count is the period, *)
(* not when it is beyond, and only in the mode its number stands for.      *)
LedPoll ==
    /\ ledThread = "poll"
    /\ LET Count(i)  == (led[i].cnt + 1) % CntRange
           Blinks(i) == led[i].mode = BlinkMode(i) /\ Count(i) = Periods[i]
       IN  /\ led' = [i \in Leds |-> [led[i] EXCEPT !.cnt  = IF Blinks(i) THEN 0 ELSE Count(i),
                                                    !.flag = IF Blinks(i) THEN ~@ ELSE @]]
           /\ lamp' = [i \in Leds |-> IF ~Blinks(i) THEN lamp[i]
                                      ELSE IF led[i].flag THEN "off" ELSE "on"]
    /\ ledThread' = IF ledFifo = <<>> THEN "poll" ELSE "read"
    /\ UNCHANGED <<ledFifo, ledEnd>>

LedRead ==
    /\ ledThread = "read"
    /\ LET set == Head(ledFifo)
       IN  /\ led' = [led EXCEPT ![set.led].mode = set.mode]
           /\ lamp' = IF set.mode \in {"off", "on"} THEN [lamp EXCEPT ![set.led] = set.mode] ELSE lamp
    /\ ledFifo' = Tail(ledFifo) /\ ledThread' = "test"
    /\ UNCHANGED ledEnd

LedExit ==
    /\ ledEnd = "run" /\ ledEnd' = "exit"
    /\ UNCHANGED <<ledFifo, led, lamp, ledThread>>

LedJoin ==
    /\ ledEnd = "exit" /\ ledThread = "gone" /\ ledEnd' = "gone"
    /\ ledFifo' = <<>>
    /\ UNCHANGED <<led, lamp, ledThread>>

LedWorks == LedTest \/ LedPoll \/ LedRead
LedNext  == LedWorks \/ LedJoin \/ LedExit \/ \E i \in Leds, mode \in Modes : SetLed(i, mode)
==============================================================================
