------------------------------- MODULE HyAlsa -------------------------------
(***************************************************************************)
(* src/linux/audio/hy_alsa.c: sound is captured in periods of frame_num    *)
(* frames.  ALSA is external: snd_pcm_readi gives some of the frames that  *)
(* the device captured, which are numbered here, from the next one on.     *)
(***************************************************************************)
EXTENDS Integers, Sequences

CONSTANTS
    Periods,        \* sizes of a period the device may settle for
    Buffers,        \* sizes of its own buffer
    MaxFrames       \* bound: frames captured

VARIABLES
    alsaStep,       \* "none", "open", "hwparams", "set", "size", "idle",
                    \* "read", "fails", "crashed"
    pcm,            \* alsa_handle is a device that is open
    hwparams,       \* they are allocated
    frame_num,
    count, result,  \* of a read_pcm under way
    data,           \* the buffer of the application
    captured,       \* the frame the device gives next
    suspended,      \* the device was put to sleep
    due             \* history: the frames given in this call, in order

alsaVars == <<alsaStep, pcm, hwparams, frame_num, count, result, data, captured, suspended, due>>
device == <<pcm, hwparams, frame_num>>
reading == <<count, result, data, captured, suspended, due>>

AlsaInit ==
    /\ alsaStep = "none" /\ pcm = FALSE /\ hwparams = FALSE /\ frame_num = 0
    /\ count = 0 /\ result = 0 /\ data = <<>> /\ captured = 1
    /\ suspended = FALSE /\ due = <<>>

-----------------------------------------------------------------------------
(* HyAlsaCreate, a call of ALSA at a time; the nine calls that look up and *)
(* set one parameter each are one step.  Any may fail, and is cleared up.  *)
AlsaOpen ==
    /\ alsaStep = "none" /\ alsaStep' \in {"open", "fails"} /\ pcm' = (alsaStep' = "open")
    /\ UNCHANGED <<hwparams, frame_num, reading>>

HwParamsMalloc ==
    /\ alsaStep = "open" /\ alsaStep' \in {"set", "fails"} /\ hwparams' = (alsaStep' = "set")
    /\ UNCHANGED <<pcm, frame_num, reading>>

HwParamsSet ==
    /\ alsaStep = "set" /\ alsaStep' \in {"size", "fails"}
    /\ UNCHANGED <<device, reading>>

HwParamsSize ==
    /\ alsaStep = "size"
    /\ \E period \in Periods, buffer \in Buffers :
         /\ frame_num' = period
         /\ IF period = buffer THEN alsaStep' = "fails" /\ UNCHANGED hwparams
            ELSE alsaStep' = "idle" /\ hwparams' = FALSE
    /\ UNCHANGED <<pcm, reading>>

(* HyAlsaDestroy, of the application or of a Create that failed: it drains *)
(* and closes the device without asking whether it was opened.             *)
AlsaDestroy ==
    /\ alsaStep \in {"idle", "fails"} /\ pcm' = FALSE /\ hwparams' = FALSE
    /\ alsaStep' = IF pcm THEN "none" ELSE "crashed"
    /\ UNCHANGED <<frame_num, reading>>

-----------------------------------------------------------------------------
(* HyAlsaGetData.  Nobody resumes a device that was suspended.             *)
GetData ==
    /\ alsaStep = "idle" /\ alsaStep' = "read"
    /\ count' = frame_num /\ result' = 0 /\ due' = <<>>
    /\ data' = [i \in 1 .. frame_num |-> 0]
    /\ UNCHANGED <<device, captured, suspended>>

(* Some frames, or none at all, which is what EAGAIN says too; then        *)
(* snd_pcm_wait, and once more.  `buf' stays where it is: what comes next  *)
(* is put over what came before.                                           *)
Readi(asked) ==
    /\ alsaStep = "read" /\ count > 0 /\ ~suspended
    /\ \E r \in 0 .. asked :
         /\ captured + r <= MaxFrames + 1 /\ captured' = captured + r
         /\ data' = [i \in DOMAIN data |-> IF i <= r THEN captured + i - 1 ELSE data[i]]
         /\ due' = due \o [i \in 1 .. r |-> captured + i - 1]
         /\ result' = result + r /\ count' = count - r
    /\ UNCHANGED <<alsaStep, device, suspended>>

(* Mutation: asks for a whole period again after a part of one.            *)
SndPcmReadi_Whole == Readi(frame_num)

SndPcmReadi == Readi(count)

(* EPIPE: the device overran and has lost a frame; snd_pcm_prepare.        *)
Overrun ==
    /\ alsaStep = "read" /\ count > 0 /\ ~suspended /\ captured < MaxFrames
    /\ captured' = captured + 1
    /\ UNCHANGED <<alsaStep, device, count, result, data, suspended, due>>

(* ESTRPIPE, from now on at every call: the loop goes round for ever.      *)
Suspend ==
    /\ alsaStep = "read" /\ count > 0 /\ suspended' = TRUE
    /\ UNCHANGED <<alsaStep, device, count, result, data, captured, due>>

ReadiFails ==
    /\ alsaStep = "read" /\ count > 0 /\ alsaStep' = "idle" /\ result' = -1
    /\ UNCHANGED <<device, count, data, captured, suspended, due>>

ReadDone ==
    /\ alsaStep = "read" /\ count <= 0 /\ alsaStep' = "idle"
    /\ UNCHANGED <<device, reading>>

AlsaNext ==
    \/ AlsaOpen \/ HwParamsMalloc \/ HwParamsSet \/ HwParamsSize \/ AlsaDestroy
    \/ GetData \/ SndPcmReadi \/ Overrun \/ Suspend \/ ReadiFails \/ ReadDone

-----------------------------------------------------------------------------
(* A GetData that succeeds says how many frames the device gave it, a      *)
(* period and never more; and when they came at once, the application has  *)
(* them in its buffer in the order of their capture.  (When they came in   *)
(* parts it has the last part, over the start of the first.)  The device   *)
(* is open while there is a context, and its parameters are freed.         *)
PeriodsWhole ==
    /\ alsaStep = "idle" /\ due # <<>> /\ result # -1 =>
           /\ result = Len(due) /\ result = Len(data)
           /\ \A i \in 2 .. Len(due) : due[i - 1] < due[i]
           /\ data[1] = due[1] => data = due
    /\ alsaStep \in {"idle", "read"} => pcm /\ ~hwparams
=============================================================================
