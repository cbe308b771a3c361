---------------------------- MODULE MCContainers ----------------------------
(***************************************************************************)
(* The containers and devices without threads of their own: the discarding *)
(* fifo, the hash table, the growing array, the AT command engine, JSON    *)
(* trees and the sound device.  They share nothing; each behaviour runs    *)
(* one.                                                                    *)
(***************************************************************************)
EXTENDS Integers, Sequences

CONSTANTS
    Components,     \* those that a run looks at
    Capacity, Modulus, WriteLens, ReadLens, MaxBytes,
    HashUsers, Keys, Values, bucket_cnt, Null,
    min_len, max_len, ArrayLens, MaxGiven, Word,
    MaxCmds, DataCmds, Retry, WaitTime, at_cmd_num, is_cmd_ok, FactorLen,
    Chatter, MaxChatter, MaxAir, RetryRange, NoFrame,
    f1, f2, text,
    Fields, MaxItems, Ints, Reals, Strings, IntMax, NoValue,
    Periods, Buffers, MaxFrames

(* The lengths are hy_u32_t; a call of the discarding fifo is for at most  *)
(* its capacity; and an array starts below the limit of its growth, which  *)
(* with one more write stays within a hy_u32_t.                            *)
ASSUME ContainersAssumption ==
    /\ Capacity \in Nat \ {0} /\ Modulus \in Nat /\ Capacity < Modulus
    /\ Modulus % Capacity = 0 /\ Modulus > 2
    /\ WriteLens \subseteq 1 .. Capacity /\ ReadLens \subseteq 1 .. Capacity /\ MaxBytes \in Nat
    /\ bucket_cnt \in Nat /\ bucket_cnt > 1 /\ Values \subseteq Nat
    /\ Keys \subseteq {"a", "b", "c"} /\ Null \notin Keys
    /\ min_len \in Nat \ {0} /\ max_len \in Nat /\ min_len <= max_len /\ Word \in Nat \ {0}
    /\ ArrayLens \subseteq Nat /\ \A n \in ArrayLens : max_len + n + 8 <= Word
    /\ Periods \subseteq Nat /\ MaxFrames \in Nat

(* NoFrame is no frame, and what a modem says unasked answers no command.  *)
ASSUME AtAssumption ==
    /\ FactorLen \in Nat /\ is_cmd_ok \in BOOLEAN
    /\ Retry \in Int /\ RetryRange \in Nat \ {0}
    /\ NoFrame \notin Seq({"ok", "data"} \X Int)
    /\ Chatter \subseteq {"ipd", "closed", "ready", "busy"}

(* NoValue is no node, and nothing that was written.                       *)
ASSUME JsonAssumption ==
    LET kids  == Seq([key : Fields \cup {NoValue}, item : 1 .. MaxItems])
        nodes == [type : {"object", "array", "real", "str"}, int : Nat, real : Nat,
                  str : Strings \cup {NoValue}, kids : kids]
    IN  /\ Ints \subseteq Nat /\ Reals \subseteq Nat /\ IntMax \in Nat /\ MaxItems \in Nat
        /\ NoValue \notin nodes /\ NoValue \notin [node : nodes, cut : BOOLEAN]

VARIABLES
    active,     \* the component that runs
    in, out, buf, sent, writer, reader, fifoEnd,
    list, caller, latest, raced, freed,
    mem, cur_len, write_pos, read_pos, given, want, lapse, arrayEnd,
    fifo, air, state, offset_len, busy_flag, parsing, frame, frame_sum,
    write_list, elapsed, cmds, chat, early, frameOut, upset, atEnd,
    items, said,
    alsaStep, pcm, hwparams, frame_num, count, result, data, captured, suspended, due

(* "a" and "b" share a bucket, "a" and "c" their hash.                     *)
KeyBucket == [k \in Keys |-> IF k = "c" THEN 1 ELSE 0]
KeyHash   == [k \in Keys |-> IF k = "b" THEN 2 ELSE 1]

Discard == INSTANCE HyFifoLockDiscard
Hash    == INSTANCE HyHash
Array   == INSTANCE HyDynamicArray WITH buf <- mem
At      == INSTANCE HyAtUtils
Json    == INSTANCE HyJson
Alsa    == INSTANCE HyAlsa

D == <<in, out, buf, sent, writer, reader, fifoEnd>>
H == <<list, caller, latest, raced, freed>>
A == <<mem, cur_len, write_pos, read_pos, given, want, lapse, arrayEnd>>
U == <<fifo, air, state, offset_len, busy_flag, parsing, frame, frame_sum,
       write_list, elapsed, cmds, chat, early, frameOut, upset, atEnd>>
J == <<items, said>>
P == <<alsaStep, pcm, hwparams, frame_num, count, result, data, captured, suspended, due>>

(* Where only another component runs, one initial state will do.           *)
Init ==
    /\ active \in Components
    /\ Discard!DiscardInit /\ Hash!HashInit /\ Array!ArrayInit
    /\ At!AtInit /\ (active # "at" => elapsed = 0)
    /\ Json!JsonInit /\ Alsa!AlsaInit

Runs(component) == active = component /\ UNCHANGED active

Next ==
    \/ Runs("discard") /\ Discard!DiscardNext /\ UNCHANGED <<H, A, U, J, P>>
    \/ Runs("hash")    /\ Hash!HashNext       /\ UNCHANGED <<D, A, U, J, P>>
    \/ Runs("array")   /\ Array!ArrayNext     /\ UNCHANGED <<D, H, U, J, P>>
    \/ Runs("at")      /\ At!AtNext           /\ UNCHANGED <<D, H, A, J, P>>
    \/ Runs("json")    /\ Json!JsonNext       /\ UNCHANGED <<D, H, A, U, P>>
    \/ Runs("alsa")    /\ Alsa!AlsaNext       /\ UNCHANGED <<D, H, A, U, J>>

Spec == Init /\ [][Next]_<<active, D, H, A, U, J, P>>

-----------------------------------------------------------------------------
(* HyFifoLockDiscard: a reader gets no byte older than those due to it.    *)
ReadsAreFresh == Discard!ReadsAreFresh

(* HyHash: a key has one item, the last added, unless two Adds missed it.  *)
OneItemUnlessRaced == Hash!OneItemUnlessRaced

(* HyDynamicArray: the array holds the bytes it accepted, in order.        *)
KeepsWhatItAccepts == Array!KeepsWhatItAccepts

(* HyAtUtils: handle_frame_cb is given whole frames, see there.            *)
FramesWhole == At!FramesWhole

(* HyAtUtils: an answer takes off a command that was written, see there.   *)
AckedOnceWritten == At!AckedOnceWritten

(* HyJson: a field reads as what was last written to it, see there.        *)
ReadsLastWritten == Json!ReadsLastWritten

(* HyAlsa: a GetData that succeeds gives a whole period, see there.        *)
PeriodsWhole == Alsa!PeriodsWhole
=============================================================================
