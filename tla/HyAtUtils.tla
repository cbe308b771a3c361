------------------------------ MODULE HyAtUtils ------------------------------
(***************************************************************************)
(* The AT command engine, src/linux/net/hy_at_utils.c: the application     *)
(* calls HyAtUtilsProcess over and over, and each call takes one step of a *)
(* state machine that writes queued commands to a modem and looks for its  *)
(* answers in what HyAtUtilsPutData put in a fifo, from a thread of its    *)
(* own and in whatever pieces the line delivers.                           *)
(*                                                                         *)
(* A string the engine looks for is two elements of the fifo, <<kind, 1>>  *)
(* and <<kind, 2>>, since it may arrive in two pieces; the third of a      *)
(* frame's header is its length.  How many characters an element has is    *)
(* left open: the first may be one or more, the length one digit or more.  *)
(* The reads that are told apart only by                                   *)
(* what they return are one kind, and so are the two signal strengths.     *)
(* Reading the list's head when there is none is undefined: "ub".          *)
(***************************************************************************)
EXTENDS Integers, Sequences

CONSTANTS
    MaxCmds,        \* bound: commands written in one behaviour
    DataCmds,       \* those that carry data
    Retry,          \* AtCmd_t.retry
    WaitTime,       \* AtCmd_t.wait_time, in units of the 10 ms of a write
    at_cmd_num,     \* commands the list holds
    is_cmd_ok,      \* the modem answers OK before it asks for the data
    FactorLen,      \* FACTOR_LEN, in elements
    Chatter,        \* what the modem sends unasked
    MaxChatter,     \* bound: how often
    MaxAir,         \* bound: elements on their way
    RetryRange,     \* bound: the range of the retry counter, which wraps
    NoFrame

VARIABLES
    fifo, air,      \* what has arrived, what is on its way
    state, offset_len, busy_flag,
    parsing,        \* parsing_flag: _read_handle goes round again
    frame,          \* buf_union
    frame_sum,
    write_list,     \* at_cmd and del_cnt of each command, and whether all of
                    \* it was written
    elapsed,        \* HyTimeGetTickMs() - sys_tick
    cmds, chat,     \* how many commands, how much chatter there was
    early,          \* history: an answer took a command off before all of it
                    \* was written
    frameOut,       \* history: the frame handle_frame_cb was last given
    upset,          \* history: a resend overtook its answer or started over a
                    \* command half acknowledged, the fifo was emptied of
                    \* more than an error, a command was given up, or a
                    \* string was lost of which only a part had come
    atEnd           \* "run", "ub", "gone"

line    == <<fifo, air, chat>>
engine  == <<state, offset_len, busy_flag, parsing, frame, frame_sum>>
queue   == <<write_list, elapsed, cmds>>
history == <<early, frameOut, upset>>
atVars  == <<line, engine, queue, history, atEnd>>

AtInit ==
    /\ fifo = <<>> /\ air = <<>> /\ chat = 0
    /\ state = "idle" /\ offset_len = 0 /\ busy_flag = 0
    /\ parsing = FALSE /\ frame = NoFrame /\ frame_sum = 0
    /\ write_list = <<>> /\ elapsed \in {0, WaitTime + 1} /\ cmds = 0
    /\ early = FALSE /\ frameOut = NoFrame /\ upset = FALSE
    /\ atEnd = "run"

Least(a, b) == IF a <= b THEN a ELSE b
Text(kind)  == <<<<kind, 1>>, <<kind, 2>>>>
(* A frame whose data look like an answer.                                 *)
Payload   == Text("ok") \o <<<<"data", 0>>>>
FrameText == Text("ipd") \o <<<<"len", Len(Payload)>>>> \o Payload
ChatterText(what) == IF what = "ipd" THEN FrameText ELSE Text(what)

DelCnt(data) == IF data /\ is_cmd_ok THEN 2 ELSE 1
Cmd(data) == [data |-> data, retry |-> Retry, del_cnt |-> DelCnt(data), whole |-> FALSE]
HasData   == Head(write_list).data
NoCommand == write_list = <<>>

(* HyFifoPeek, and HyFifoUpdateOut of n elements.                          *)
Factor == IF frame = NoFrame THEN FactorLen ELSE Least(Len(frame) - frame_sum, FactorLen)
Peek   == SubSeq(fifo, 1, Least(Len(fifo), Factor))
Consume(n) == fifo' = SubSeq(fifo, n + 1, Len(fifo)) /\ offset_len' = 0 /\ UNCHANGED <<air, chat>>

Running(s) == atEnd = "run" /\ ~parsing /\ state = s
Reading(s) == Running(s) /\ fifo # <<>>
Undefined  == atEnd' = "ub" /\ UNCHANGED <<line, engine, queue, history>>

-----------------------------------------------------------------------------
(* _find_frame_tag, looking for a first character and then for the string. *)
Begins == {i \in DOMAIN Peek : Peek[i][2] = 1 /\ Peek[i][1] # "data"}

ReadStart ==
    /\ Reading("read")
    /\ LET skip == IF Begins = {} THEN Len(Peek)
                   ELSE (CHOOSE i \in Begins : \A j \in Begins : i <= j) - 1
       IN  Consume(skip)
    /\ state' = IF Begins = {} THEN "idle" ELSE "head"
    /\ UNCHANGED <<busy_flag, parsing, frame, frame_sum, queue, history, atEnd>>

(* Half a string is left for the rest to come, the prompt is taken as it   *)
(* is.                                                                     *)
ReadHead ==
    /\ Reading("head")
    /\ LET kind == Peek[1][1]
       IN  \/ /\ Len(Peek) >= 2 /\ SubSeq(Peek, 1, 2) = Text(kind)
              /\ state' = kind /\ offset_len' = 2
              /\ UNCHANGED <<fifo, air, chat>>
           \/ /\ fifo = <<<<"send", 1>>>>
              /\ state' = "send" /\ offset_len' = 1
              /\ UNCHANGED <<fifo, air, chat>>
           \/ /\ Len(Peek) >= 2 /\ SubSeq(Peek, 1, 2) # Text(kind)
              /\ state' = "idle" /\ Consume(1)
    /\ UNCHANGED <<busy_flag, parsing, frame, frame_sum, queue, history, atEnd>>

(* Of the first character alone memcmp compares two, and it is dropped.    *)
ReadLone ==
    /\ Reading("head") /\ Len(fifo) = 1 /\ fifo # <<<<"send", 1>>>>
    /\ Consume(1) /\ state' = "idle" /\ upset' = TRUE
    /\ UNCHANGED <<busy_flag, parsing, frame, frame_sum, queue, early, frameOut, atEnd>>

ReadOk ==
    /\ Reading("ok")
    /\ IF NoCommand THEN Undefined
       ELSE /\ busy_flag' = IF busy_flag = 2 \/ ~HasData THEN 0 ELSE busy_flag
            /\ IF Head(write_list).del_cnt = 1
               THEN write_list' = Tail(write_list) /\ early' = (early \/ ~Head(write_list).whole)
               ELSE write_list' = [write_list EXCEPT ![1].del_cnt = @ - 1] /\ UNCHANGED early
            /\ Consume(offset_len) /\ state' = "idle"
            /\ UNCHANGED <<parsing, frame, frame_sum, elapsed, cmds, frameOut, upset, atEnd>>

(* Half acknowledged, and about to be written again.                       *)
Halfway == Head(write_list).del_cnt < DelCnt(HasData)

(* It goes on to write, whether or not a command is left.                  *)
ReadError ==
    /\ Reading("error")
    /\ IF NoCommand THEN Undefined
       ELSE LET retry == (Head(write_list).retry - 1) % RetryRange
            IN  /\ fifo' = <<>> /\ state' = "write"
                /\ write_list' = IF retry = 0 THEN Tail(write_list)
                                 ELSE [write_list EXCEPT ![1].retry = retry]
                /\ upset' = (upset \/ retry = 0 \/ Halfway \/ Len(fifo) > 2)
                /\ UNCHANGED <<air, chat, offset_len, busy_flag, parsing, frame, frame_sum,
                               elapsed, cmds, early, frameOut, atEnd>>

(* The states that only take their string; "closed" is not left while      *)
(* there is anything to read.                                              *)
ReadPlain ==
    /\ \E s \in {"ready", "busy", "send", "closed"} :
           /\ Reading(s)
           /\ state' = CASE s = "ready" -> "idle" [] s = "busy" -> "read"
                         [] s = "send" -> "writeData" [] s = "closed" -> "closed"
    /\ Consume(offset_len)
    /\ UNCHANGED <<busy_flag, parsing, frame, frame_sum, queue, history, atEnd>>

(* The two signal handlers: all up to the OK, which is left for the list.  *)
BeforeOk(n) == n + 1 \in DOMAIN Peek /\ Peek[n + 1] = <<"ok", 1>>
               /\ \A j \in 1 .. n : Peek[j] # <<"ok", 1>>

ReadSignal ==
    /\ Reading("signal")
    /\ \E n \in 0 .. Len(Peek) : BeforeOk(n) /\ Consume(n)
    /\ state' = "idle"
    /\ UNCHANGED <<busy_flag, parsing, frame, frame_sum, queue, history, atEnd>>

(* Mutation: every piece goes to the start of the frame.                   *)
Filled_FromStart(b, bytes) ==
    [i \in DOMAIN b |-> IF i \in DOMAIN bytes THEN bytes[i] ELSE b[i]]

(* memcpy into the frame, past what it has.                                *)
Filled(b, bytes) ==
    [i \in DOMAIN b |-> IF i - frame_sum \in DOMAIN bytes THEN bytes[i - frame_sum] ELSE b[i]]

(* _destroy_clean.                                                         *)
Cleaned ==
    /\ fifo' = <<>> /\ write_list' = <<>> /\ elapsed' = 0
    /\ state' = "idle" /\ offset_len' = 0 /\ busy_flag' = 0
    /\ parsing' = FALSE /\ frame' = NoFrame /\ frame_sum' = 0
    /\ upset' = TRUE
    /\ UNCHANGED <<air, chat, cmds, early, frameOut, atEnd>>

(* The frame is whole: handle_frame_cb.                                    *)
FrameDone(b) ==
    /\ frameOut' = b /\ frame' = NoFrame /\ frame_sum' = 0
    /\ parsing' = FALSE /\ state' = "idle"

FrameGoesOn(b, n) ==
    /\ frame' = b /\ frame_sum' = frame_sum + n /\ parsing' = TRUE /\ state' = "ipd"
    /\ UNCHANGED frameOut

(* _handle_ipd_data, its header and then, round after round, what comes.   *)
ReadFrame ==
    /\ Reading("ipd") /\ Len(Peek) >= 3
    /\ LET data == SubSeq(Peek, 4, Least(Len(Peek), 3 + Peek[3][2]))
           b    == Filled([i \in 1 .. Peek[3][2] |-> <<"data", -1>>], data)
       IN  /\ IF Len(data) = Peek[3][2] THEN FrameDone(b) ELSE FrameGoesOn(b, Len(data))
           /\ Consume(3 + Len(data))
           /\ UNCHANGED <<busy_flag, queue, early, upset, atEnd>>

(* Fewer than eight characters give no length, be the header whole or not, *)
(* and clean the engine; eight and no colon give a length of which the     *)
(* colon is part, and memcpy is asked for -1 bytes.                        *)
ReadFrameCut ==
    /\ Reading("ipd")
    /\ \/ Len(Peek) <= 3 /\ Cleaned
       \/ /\ Len(Peek) < 3 /\ atEnd' = "ub" /\ upset' = TRUE
          /\ UNCHANGED <<line, engine, queue, early, frameOut>>

ReadMore ==
    /\ atEnd = "run" /\ parsing /\ fifo # <<>>
    /\ state \in {"ipd", "read"}
    /\ IF frame_sum + Len(Peek) = Len(frame)
       THEN FrameDone(Filled(frame, Peek)) ELSE FrameGoesOn(Filled(frame, Peek), Len(Peek))
    /\ Consume(Len(Peek))
    /\ UNCHANGED <<busy_flag, queue, early, upset, atEnd>>

(* Nothing to read, also when waiting for more has taken too long.         *)
ReadNothing ==
    /\ atEnd = "run" /\ fifo = <<>>
    /\ state \notin {"idle", "write", "writeCmd", "writeWait", "writeData"}
    /\ state' = "idle"
    /\ UNCHANGED <<line, offset_len, busy_flag, parsing, frame, frame_sum, queue, history, atEnd>>

-----------------------------------------------------------------------------
(* _write_handle, and HyAtUtilsProcess when it is idle.  A frame may be    *)
(* half read all the while.                                                *)
Working(s) == atEnd = "run" /\ state = s

IdleRead ==
    /\ Working("idle") /\ fifo # <<>>
    /\ state' = "read"
    /\ UNCHANGED <<line, offset_len, busy_flag, parsing, frame, frame_sum, queue, history, atEnd>>

(* Mutation: the next write does not wait for the answer.                  *)
IdleWrite_Busy ==
    /\ Working("idle") /\ fifo = <<>> /\ ~NoCommand
    /\ state' = "write" /\ elapsed <= WaitTime
    /\ UNCHANGED <<line, offset_len, busy_flag, parsing, frame, frame_sum, queue, history, atEnd>>

IdleWrite ==
    /\ Working("idle") /\ fifo = <<>> /\ ~NoCommand
    /\ elapsed <= WaitTime /\ busy_flag = 0
    /\ state' = "write"
    /\ UNCHANGED <<line, offset_len, busy_flag, parsing, frame, frame_sum, queue, history, atEnd>>

(* The answer did not come in time.  The first command meets this before   *)
(* it was ever written; a last try reports CLOSED and keeps the command.   *)
IdleTimeOut ==
    /\ Working("idle") /\ fifo = <<>> /\ ~NoCommand /\ elapsed > WaitTime
    /\ LET retry == (Head(write_list).retry - 1) % RetryRange
       IN  /\ write_list' = [write_list EXCEPT ![1].retry = retry]
           /\ state' = IF retry = 0 THEN "idle" ELSE "write"
    /\ elapsed' = 0 /\ busy_flag' = 0
    /\ upset' = (upset \/ Halfway \/ \E i \in DOMAIN air : air[i][1] \in {"ok", "error", "send"})
    /\ UNCHANGED <<line, offset_len, parsing, frame, frame_sum, cmds, early, frameOut, atEnd>>

(* What the modem says to a command, and to its data; it may be silent.    *)
Says(texts) == air' \in {air} \cup {air \o t : t \in {t \in texts : Len(air \o t) <= MaxAir}}
Answers == IF ~HasData THEN {Text("ok"), Text("error"), Text("busy"), Text("signal") \o Text("ok")}
           ELSE {(IF is_cmd_ok THEN Text("ok") ELSE <<>>) \o Text("send"), Text("error")}

WriteCmd ==
    /\ Working("write") /\ state' = "writeCmd"
    /\ UNCHANGED <<line, offset_len, busy_flag, parsing, frame, frame_sum, queue, history, atEnd>>

WriteCmdOut ==
    /\ Working("writeCmd")
    /\ IF NoCommand THEN Undefined
       ELSE /\ Says(Answers)
            /\ write_list' = [write_list EXCEPT ![1].whole = @ \/ ~HasData]
            /\ elapsed' = 0 /\ busy_flag' = 1 /\ state' = "writeWait"
            /\ UNCHANGED <<fifo, chat, offset_len, parsing, frame, frame_sum, cmds, history, atEnd>>

WriteCmdWait ==
    /\ Working("writeWait") /\ elapsed > 0
    /\ state' = "read"
    /\ UNCHANGED <<line, offset_len, busy_flag, parsing, frame, frame_sum, queue, history, atEnd>>

WriteData ==
    /\ Working("writeData")
    /\ IF NoCommand THEN Undefined
       ELSE /\ IF HasData THEN Says({Text("ok"), Text("error")}) ELSE UNCHANGED air
            /\ write_list' = [write_list EXCEPT ![1].whole = TRUE]
            /\ elapsed' = 0 /\ busy_flag' = 2 /\ state' = "read"
            /\ UNCHANGED <<fifo, chat, offset_len, parsing, frame, frame_sum, cmds, history, atEnd>>

-----------------------------------------------------------------------------
(* The application between two calls of Process, the line and the clock.   *)
Outside == atEnd = "run" /\ ~(parsing /\ state = "ipd")

HyAtUtilsWriteCmd ==
    /\ Outside /\ cmds < MaxCmds /\ Len(write_list) < at_cmd_num
    /\ cmds' = cmds + 1 /\ write_list' = Append(write_list, Cmd(cmds' \in DataCmds))
    /\ UNCHANGED <<line, engine, elapsed, history, atEnd>>

HyAtUtilsClean == Outside /\ Cleaned

HyAtUtilsDestroy ==
    /\ Outside /\ atEnd' = "gone"
    /\ fifo' = <<>> /\ air' = <<>> /\ write_list' = <<>>
    /\ UNCHANGED <<chat, engine, elapsed, cmds, history>>

(* A longer piece is several of these with nothing in between.             *)
HyAtUtilsPutData ==
    /\ atEnd = "run" /\ air # <<>>
    /\ fifo' = Append(fifo, Head(air)) /\ air' = Tail(air)
    /\ UNCHANGED <<chat, engine, queue, history, atEnd>>

ModemChats(what) ==
    /\ atEnd = "run" /\ chat < MaxChatter
    /\ chat' = chat + 1 /\ air' = air \o ChatterText(what)
    /\ UNCHANGED <<fifo, engine, queue, history, atEnd>>

Tick ==
    /\ atEnd = "run" /\ elapsed <= WaitTime /\ elapsed' = elapsed + 1
    /\ UNCHANGED <<line, engine, write_list, cmds, history, atEnd>>

AtNext ==
    \/ ReadStart \/ ReadHead \/ ReadLone \/ ReadOk \/ ReadError \/ ReadPlain \/ ReadSignal
    \/ ReadFrame \/ ReadFrameCut \/ ReadMore \/ ReadNothing
    \/ IdleRead \/ IdleWrite \/ IdleTimeOut
    \/ WriteCmd \/ WriteCmdOut \/ WriteCmdWait \/ WriteData
    \/ HyAtUtilsWriteCmd \/ HyAtUtilsClean \/ HyAtUtilsDestroy \/ HyAtUtilsPutData
    \/ \E what \in Chatter : ModemChats(what)
    \/ Tick

-----------------------------------------------------------------------------
(* The application gets frames whole or not at all: what handle_frame_cb   *)
(* is given is what was sent, in however many pieces it arrived, whatever  *)
(* the engine wrote in between, although the data look like an answer and  *)
(* whatever was dropped or cleaned away of other frames before it.         *)
FramesWhole == frameOut \in {NoFrame, Payload}

(* An answer takes a command off the list only when all of it was written, *)
(* and the engine does nothing undefined, such as look at the head of an   *)
(* empty list, unless one of five things came before: a resend overtook    *)
(* its answer or started over a command half acknowledged, the fifo was    *)
(* emptied of more than an error, a command was given up, or a string was  *)
(* lost of which only a part had come.                                     *)
AckedOnceWritten == ~upset => ~early /\ atEnd # "ub"
=============================================================================
