-------------------------- MODULE MCContainers_proofs --------------------------
(***************************************************************************)
(* What the containers and devices without threads of their own promise,   *)
(* for every size, every number of callers and every length of a call.     *)
(* One of them runs in a behaviour and the others stay as they are, so     *)
(* each has an invariant of its own.                                       *)
(***************************************************************************)
EXTENDS MCContainers, Integers, Sequences, WellFoundedInduction, TLAPS

containersVars == <<active, D, H, A, U, J, P>>

(* One sequence after another, element by element.                         *)
LEMMA Appended ==
    ASSUME NEW s \in Seq(Nat), NEW t \in Seq(Nat)
    PROVE  /\ s \o t \in Seq(Nat) /\ Len(s \o t) = Len(s) + Len(t)
           /\ \A i \in 1 .. Len(s) : (s \o t)[i] = s[i]
           /\ \A i \in 1 .. Len(t) : (s \o t)[Len(s) + i] = t[i]
<1>1. s \o t \in Seq(Nat) /\ Len(s \o t) = Len(s) + Len(t)
  OBVIOUS
<1>2. \A i \in 1 .. Len(s) : (s \o t)[i] = s[i]
  OBVIOUS
<1>3. \A i \in 1 .. Len(t) : (s \o t)[Len(s) + i] = t[i]
  OBVIOUS
<1> QED BY <1>1, <1>2, <1>3

(* Two sequences with the same elements are the same.                      *)
LEMMA SameElements ==
    ASSUME NEW s \in Seq(Nat), NEW t \in Seq(Nat), Len(s) = Len(t),
           \A i \in 1 .. Len(s) : s[i] = t[i]
    PROVE  s = t
OBVIOUS

-----------------------------------------------------------------------------
(* HyAlsa.  What came in one part is still where it was put; what came in  *)
(* several begins with a frame younger than the first one that came.       *)
AlsaTypeOK ==
    /\ frame_num \in Nat /\ count \in Int /\ result \in Int /\ captured \in Nat \ {0}
    /\ due \in Seq(Nat) /\ data \in Seq(Nat)
    /\ pcm \in BOOLEAN /\ hwparams \in BOOLEAN
    /\ suspended \in BOOLEAN

FramesInOrder ==
    /\ \A i \in 1 .. Len(due) : due[i] < captured
    /\ \A i \in 2 .. Len(due) : due[i - 1] < due[i]
    /\ due # <<>> => Len(data) > 0
    /\ \/ due = <<>>
       \/ due[1] < data[1]
       \/ Len(due) <= Len(data) /\ \A i \in 1 .. Len(due) : data[i] = due[i]

DeviceHeld ==
    /\ alsaStep = "none" => ~pcm /\ ~hwparams
    /\ alsaStep \in {"open", "idle", "read"} => pcm /\ ~hwparams
    /\ alsaStep \in {"set", "size"} => pcm /\ hwparams

AlsaInv ==
    /\ AlsaTypeOK
    /\ alsaStep \in {"none", "open", "set", "size", "idle", "read", "fails", "crashed"}
    /\ result # -1 => result + count = Len(data) /\ result = Len(due) /\ count >= 0
    /\ alsaStep = "read" => result # -1
    /\ alsaStep # "read" /\ result # -1 => count = 0
    /\ FramesInOrder
    /\ DeviceHeld

LEMMA AlsaReads ==
    ASSUME AlsaInv, Alsa!SndPcmReadi
    PROVE  AlsaInv'
<1>1. PICK r \in 0 .. count :
         /\ captured' = captured + r
         /\ data' = [i \in DOMAIN data |-> IF i <= r THEN captured + i - 1 ELSE data[i]]
         /\ due' = due \o [i \in 1 .. r |-> captured + i - 1]
         /\ result' = result + r /\ count' = count - r
  BY DEF Alsa!SndPcmReadi, Alsa!Readi
<1>2. alsaStep = "read" /\ UNCHANGED <<alsaStep, pcm, hwparams, frame_num, suspended>>
  BY DEF Alsa!SndPcmReadi, Alsa!Readi, Alsa!device
<1>3. /\ count \in Int /\ result \in Int /\ captured \in Nat \ {0} /\ captured \in Nat
      /\ due \in Seq(Nat) /\ data \in Seq(Nat) /\ Len(due) \in Nat /\ Len(data) \in Nat
  BY DEF AlsaInv, AlsaTypeOK
<1>4. /\ r \in Nat /\ r <= count /\ result # -1 /\ result = Len(due) /\ count >= 0
      /\ result + count = Len(data)
  BY <1>2, <1>3 DEF AlsaInv
<1>5. PICK part : part = [i \in 1 .. r |-> captured + i - 1]
  OBVIOUS
<1>6. part \in Seq(Nat) /\ Len(part) = r /\ \A i \in 1 .. r : part[i] = captured + i - 1
  BY <1>3, <1>4, <1>5
<1>7. due' = due \o part
  BY <1>1, <1>5
<1>8. /\ due' \in Seq(Nat) /\ Len(due') = Len(due) + r
      /\ \A i \in 1 .. Len(due) : due'[i] = due[i]
      /\ \A i \in 1 .. r : due'[Len(due) + i] = captured + i - 1
  <2>1. /\ due \o part \in Seq(Nat) /\ Len(due \o part) = Len(due) + r
        /\ \A i \in 1 .. Len(due) : (due \o part)[i] = due[i]
        /\ \A i \in 1 .. r : (due \o part)[Len(due) + i] = part[i]
    BY <1>3, <1>6, Appended
  <2> QED BY <2>1, <1>6, <1>7
<1>9. /\ data' \in Seq(Nat) /\ Len(data') = Len(data)
      /\ \A i \in 1 .. Len(data) : data'[i] = IF i <= r THEN captured + i - 1 ELSE data[i]
  <2>1. DOMAIN data = 1 .. Len(data)
    BY <1>3
  <2>2. \A i \in 1 .. Len(data) : (IF i <= r THEN captured + i - 1 ELSE data[i]) \in Nat
    BY <1>3, <1>4
  <2>3. data' = [i \in 1 .. Len(data) |-> IF i <= r THEN captured + i - 1 ELSE data[i]]
    BY <1>1, <2>1
  <2> QED BY <2>2, <2>3, <1>3
<1>10. AlsaTypeOK'
  <2>1. captured' \in Nat \ {0} /\ count' \in Int /\ result' \in Int
    BY <1>1, <1>3, <1>4
  <2> QED BY <2>1, <1>2, <1>8, <1>9 DEF AlsaInv, AlsaTypeOK
<1>11. FramesInOrder'
  <2>0. FramesInOrder
    BY DEF AlsaInv
  <2>1. \A i \in 1 .. Len(due) + r : due'[i] < captured + r
    <3> SUFFICES ASSUME NEW i \in 1 .. Len(due) + r PROVE due'[i] < captured + r
      OBVIOUS
    <3>1. CASE i <= Len(due)
      <4>1. i \in 1 .. Len(due) /\ due[i] \in Nat
        BY <3>1, <1>3, <1>4
      <4>2. due'[i] = due[i] /\ due[i] < captured
        BY <4>1, <2>0, <1>8 DEF FramesInOrder
      <4> QED BY <4>1, <4>2, <1>3, <1>4, SMTT(40)
    <3>2. CASE i > Len(due)
      <4>1. PICK j \in 1 .. r : i = Len(due) + j
        <5>1. i - Len(due) \in 1 .. r /\ i = Len(due) + (i - Len(due))
          BY <3>2, <1>3, <1>4
        <5> QED BY <5>1
      <4>2. due'[i] = captured + j - 1
        BY <4>1, <1>8
      <4> QED BY <4>1, <4>2, <1>3, <1>4
    <3> QED BY <3>1, <3>2, <1>3, <1>4
  <2>2. \A i \in 2 .. Len(due) + r : due'[i - 1] < due'[i]
    <3> SUFFICES ASSUME NEW i \in 2 .. Len(due) + r PROVE due'[i - 1] < due'[i]
      OBVIOUS
    <3>1. CASE i <= Len(due)
      <4>1. i \in 1 .. Len(due) /\ i - 1 \in 1 .. Len(due) /\ i \in 2 .. Len(due)
        BY <3>1, <1>3, <1>4
      <4> QED BY <4>1, <2>0, <1>8 DEF FramesInOrder
    <3>2. CASE i > Len(due)
      <4>1. PICK j \in 1 .. r : i = Len(due) + j
        <5>1. i - Len(due) \in 1 .. r /\ i = Len(due) + (i - Len(due))
          BY <3>2, <1>3, <1>4
        <5> QED BY <5>1
      <4>2. due'[i] = captured + j - 1
        BY <4>1, <1>8
      <4>3. CASE j = 1
        <5>1. i - 1 \in 1 .. Len(due) /\ due'[i] = captured
          BY <4>1, <4>2, <4>3, <1>3
        <5> QED BY <5>1, <2>0, <1>8 DEF FramesInOrder
      <4>4. CASE j > 1
        <5>1. j - 1 \in 1 .. r /\ i - 1 = Len(due) + (j - 1)
          BY <4>1, <4>4, <1>3, <1>4
        <5>2. due'[i - 1] = captured + (j - 1) - 1
          BY <5>1, <1>8
        <5> QED BY <5>2, <4>2, <4>1, <1>3
      <4> QED BY <4>3, <4>4, <4>1
    <3> QED BY <3>1, <3>2, <1>3, <1>4
  <2>3. CASE r = 0
    <3>1. due' = due
      <4>1. due' \in Seq(Nat) /\ Len(due') = Len(due) /\ \A i \in 1 .. Len(due') : due'[i] = due[i]
        BY <2>3, <1>3, <1>8
      <4> QED BY <4>1, <1>3, SameElements
    <3>2. data' = data
      <4>1. \A i \in 1 .. Len(data') : data'[i] = data[i]
        BY <2>3, <1>3, <1>9
      <4> QED BY <4>1, <1>3, <1>9, SameElements
    <3>3. captured' = captured
      BY <2>3, <1>1, <1>3
    <3> QED BY <2>0, <3>1, <3>2, <3>3 DEF FramesInOrder
  <2>4. CASE r > 0
    <3>1. Len(data') > 0 /\ data'[1] = captured /\ due' # <<>>
      <4>1. 1 \in 1 .. Len(data) /\ Len(data) > 0
        BY <2>4, <1>3, <1>4
      <4>2. Len(due') > 0
        BY <2>4, <1>3, <1>8
      <4>3. data'[1] = captured + 1 - 1
        BY <4>1, <2>4, <1>4, <1>9
      <4> QED BY <4>1, <4>2, <4>3, <1>9, <1>3
    <3>2. CASE due = <<>>
      <4>1. Len(due) = 0 /\ Len(due') = r /\ r <= Len(data')
        BY <3>2, <1>3, <1>4, <1>8, <1>9
      <4>2. \A i \in 1 .. r : data'[i] = due'[i]
        <5> TAKE i \in 1 .. r
        <5>1. i \in 1 .. Len(data) /\ i <= r /\ Len(due) + i = i
          BY <4>1, <1>3, <1>4
        <5> QED BY <5>1, <1>8, <1>9
      <4> QED BY <2>1, <2>2, <3>1, <4>1, <4>2, <1>1, <1>8 DEF FramesInOrder
    <3>3. CASE due # <<>>
      <4>1. 1 \in 1 .. Len(due)
        BY <3>3, <1>3
      <4>2. due'[1] = due[1] /\ due[1] < captured
        BY <4>1, <1>8, <2>0 DEF FramesInOrder
      <4> QED BY <2>1, <2>2, <3>1, <4>2, <1>1, <1>8 DEF FramesInOrder
    <3> QED BY <3>2, <3>3
  <2> QED BY <2>3, <2>4, <1>4
<1>12. DeviceHeld'
  BY <1>2 DEF AlsaInv, DeviceHeld
<1>13. result' # -1 /\ result' + count' = Len(data') /\ result' = Len(due') /\ count' >= 0
  BY <1>1, <1>3, <1>4, <1>8, <1>9
<1> QED BY <1>2, <1>10, <1>11, <1>12, <1>13 DEF AlsaInv

LEMMA AlsaOpensAndCloses ==
    ASSUME AlsaInv,
           Alsa!AlsaOpen \/ Alsa!HwParamsMalloc \/ Alsa!HwParamsSet \/ Alsa!HwParamsSize
             \/ Alsa!AlsaDestroy
    PROVE  AlsaInv'
<1>1. UNCHANGED <<count, result, data, captured, suspended, due>>
  BY DEF Alsa!AlsaOpen, Alsa!HwParamsMalloc, Alsa!HwParamsSet, Alsa!HwParamsSize,
         Alsa!AlsaDestroy, Alsa!device, Alsa!reading
<1>2. frame_num' \in Nat
  BY ContainersAssumption
     DEF Alsa!AlsaOpen, Alsa!HwParamsMalloc, Alsa!HwParamsSet, Alsa!HwParamsSize,
         Alsa!AlsaDestroy, Alsa!device, Alsa!reading, AlsaInv, AlsaTypeOK
<1>3. pcm' \in BOOLEAN
  BY DEF Alsa!AlsaOpen, Alsa!HwParamsMalloc, Alsa!HwParamsSet, Alsa!HwParamsSize,
         Alsa!AlsaDestroy, Alsa!device, Alsa!reading, AlsaInv, AlsaTypeOK
<1>4. hwparams' \in BOOLEAN
  BY DEF Alsa!AlsaOpen, Alsa!HwParamsMalloc, Alsa!HwParamsSet, Alsa!HwParamsSize,
         Alsa!AlsaDestroy, Alsa!device, Alsa!reading, AlsaInv, AlsaTypeOK
<1>5. AlsaTypeOK'
  BY <1>1, <1>2, <1>3, <1>4 DEF AlsaInv, AlsaTypeOK
<1>6. FramesInOrder'
  BY <1>1 DEF AlsaInv, FramesInOrder
<1>7. /\ alsaStep' \in {"none", "open", "set", "size", "idle", "fails", "crashed"}
      /\ alsaStep # "read"
  BY DEF Alsa!AlsaOpen, Alsa!HwParamsMalloc, Alsa!HwParamsSet, Alsa!HwParamsSize,
         Alsa!AlsaDestroy
<1>8. DeviceHeld'
  BY DEF Alsa!AlsaOpen, Alsa!HwParamsMalloc, Alsa!HwParamsSet, Alsa!HwParamsSize,
         Alsa!AlsaDestroy, Alsa!device, Alsa!reading, AlsaInv, AlsaTypeOK, DeviceHeld
<1> QED BY <1>1, <1>5, <1>6, <1>7, <1>8 DEF AlsaInv

LEMMA AlsaGets ==
    ASSUME AlsaInv, Alsa!GetData
    PROVE  AlsaInv'
<1>1. PICK n \in Nat : n = frame_num
  BY DEF AlsaInv, AlsaTypeOK
<1>2. /\ alsaStep = "idle" /\ alsaStep' = "read" /\ count' = n /\ result' = 0 /\ due' = <<>>
      /\ data' = [i \in 1 .. n |-> 0]
      /\ UNCHANGED <<pcm, hwparams, frame_num, captured, suspended>>
  BY <1>1 DEF Alsa!GetData, Alsa!device
<1>3. data' \in Seq(Nat) /\ Len(data') = n /\ due' \in Seq(Nat) /\ Len(due') = 0
  BY <1>2
<1>4. AlsaTypeOK'
  BY <1>1, <1>2, <1>3 DEF AlsaInv, AlsaTypeOK
<1>5. FramesInOrder'
  BY <1>2, <1>3 DEF FramesInOrder
<1>6. DeviceHeld'
  BY <1>2 DEF AlsaInv, DeviceHeld
<1> QED BY <1>1, <1>2, <1>3, <1>4, <1>5, <1>6 DEF AlsaInv

LEMMA AlsaEnds ==
    ASSUME AlsaInv, Alsa!Overrun \/ Alsa!Suspend \/ Alsa!ReadiFails \/ Alsa!ReadDone
    PROVE  AlsaInv'
<1>1. CASE Alsa!Overrun
  <2>1. /\ captured \in Nat /\ captured' = captured + 1
        /\ UNCHANGED <<alsaStep, pcm, hwparams, frame_num, count, result, data, suspended, due>>
    BY <1>1 DEF Alsa!Overrun, Alsa!device, AlsaInv, AlsaTypeOK
  <2>2. AlsaTypeOK'
    BY <2>1 DEF AlsaInv, AlsaTypeOK
  <2>3. FramesInOrder'
    <3>1. \A i \in 1 .. Len(due) : due[i] < captured + 1
      BY <2>1 DEF AlsaInv, AlsaTypeOK, FramesInOrder
    <3> QED BY <3>1, <2>1 DEF AlsaInv, FramesInOrder
  <2> QED BY <2>1, <2>2, <2>3 DEF AlsaInv, DeviceHeld
<1>2. CASE Alsa!Suspend
  <2>1. /\ suspended' \in BOOLEAN
        /\ UNCHANGED <<alsaStep, pcm, hwparams, frame_num, count, result, data, captured, due>>
    BY <1>2 DEF Alsa!Suspend, Alsa!device
  <2> QED BY <2>1 DEF AlsaInv, AlsaTypeOK, FramesInOrder, DeviceHeld
<1>3. CASE Alsa!ReadiFails
  <2>1. /\ alsaStep = "read" /\ alsaStep' = "idle" /\ result' = -1
        /\ UNCHANGED <<pcm, hwparams, frame_num, count, data, captured, suspended, due>>
    BY <1>3 DEF Alsa!ReadiFails, Alsa!device
  <2> QED BY <2>1 DEF AlsaInv, AlsaTypeOK, FramesInOrder, DeviceHeld
<1>4. CASE Alsa!ReadDone
  <2>1. /\ alsaStep = "read" /\ alsaStep' = "idle" /\ count <= 0
        /\ UNCHANGED <<pcm, hwparams, frame_num, count, result, data, captured, suspended, due>>
    BY <1>4 DEF Alsa!ReadDone, Alsa!device, Alsa!reading
  <2> QED BY <2>1 DEF AlsaInv, AlsaTypeOK, FramesInOrder, DeviceHeld
<1> QED BY <1>1, <1>2, <1>3, <1>4

(* HyAlsa: a GetData that succeeds gives a whole period, in the order of   *)
(* capture where it came at once; and the device is held while it is used. *)
THEOREM WholePeriods == Spec => []PeriodsWhole
<1>1. Init => AlsaInv
  <2> SUFFICES ASSUME Alsa!AlsaInit PROVE AlsaInv
    BY DEF Init
  <2>1. AlsaTypeOK /\ Len(due) = 0 /\ Len(data) = 0
    <3>1. pcm \in BOOLEAN /\ hwparams \in BOOLEAN /\ suspended \in BOOLEAN
      BY DEF Alsa!AlsaInit
    <3>2. frame_num \in Nat /\ count \in Int /\ result \in Int /\ captured \in Nat \ {0}
      BY DEF Alsa!AlsaInit
    <3>3. due \in Seq(Nat) /\ data \in Seq(Nat) /\ Len(due) = 0 /\ Len(data) = 0
      BY DEF Alsa!AlsaInit
    <3> QED BY <3>1, <3>2, <3>3 DEF AlsaTypeOK
  <2> QED BY <2>1 DEF Alsa!AlsaInit, AlsaInv, FramesInOrder, DeviceHeld
<1>2. AlsaInv /\ [Next]_containersVars => AlsaInv'
  <2> SUFFICES ASSUME AlsaInv, [Next]_containersVars PROVE AlsaInv'
    OBVIOUS
  <2>1. Alsa!AlsaNext \/ UNCHANGED P
    BY DEF Next, containersVars
  <2>2. CASE UNCHANGED P
    BY <2>2 DEF P, AlsaInv, AlsaTypeOK, FramesInOrder, DeviceHeld
  <2>3. CASE Alsa!AlsaNext
    BY <2>3, AlsaOpensAndCloses, AlsaGets, AlsaReads, AlsaEnds DEF Alsa!AlsaNext
  <2> QED BY <2>1, <2>2, <2>3
<1>3. AlsaInv => PeriodsWhole
  <2> SUFFICES ASSUME AlsaInv PROVE Alsa!PeriodsWhole
    BY DEF PeriodsWhole
  <2>1. due \in Seq(Nat) /\ data \in Seq(Nat) /\ result \in Int /\ count \in Int
    BY DEF AlsaInv, AlsaTypeOK
  <2>2. ASSUME alsaStep = "idle", due # <<>>, result # -1
        PROVE  /\ result = Len(due) /\ result = Len(data)
               /\ \A i \in 2 .. Len(due) : due[i - 1] < due[i]
               /\ data[1] = due[1] => data = due
    <3>1. result = Len(due) /\ result = Len(data)
      BY <2>1, <2>2 DEF AlsaInv
    <3>2. \A i \in 2 .. Len(due) : due[i - 1] < due[i]
      BY DEF AlsaInv, FramesInOrder
    <3>3. ASSUME data[1] = due[1] PROVE data = due
      <4>1. 1 \in 1 .. Len(due) /\ due[1] \in Nat
        BY <2>1, <2>2
      <4>2. \A i \in 1 .. Len(due) : data[i] = due[i]
        BY <2>2, <3>3, <4>1 DEF AlsaInv, FramesInOrder
      <4> QED BY <2>1, <3>1, <4>2, SameElements
    <3> QED BY <3>1, <3>2, <3>3
  <2>3. alsaStep \in {"idle", "read"} => pcm /\ ~hwparams
    BY DEF AlsaInv, DeviceHeld
  <2> QED BY <2>2, <2>3 DEF Alsa!PeriodsWhole
<1> QED BY <1>1, <1>2, <1>3, PTL DEF Spec, containersVars

-----------------------------------------------------------------------------
(* HyFifoLockDiscard, as long as fewer bytes are written between two       *)
(* Resets than the counters count: a reader held up for longer than that   *)
(* takes the bytes it missed for none.  Behind(x) bytes lie between the    *)
(* position x and the write counter.                                       *)
Ring == INSTANCE FifoRing_proofs

Behind(x) == Discard!U32(in - x)
Slot(x)   == Discard!Pos(x)

Readers == [pc : {"idle", "test", "wait", "woken", "part", "place", "copy", "load", "store"},
            op : {"peek", "read", "del"}, n : 0 .. Capacity, first : 0 .. Modulus - 1,
            part : 0 .. Capacity, from : 0 .. Modulus - 1, old : 0 .. Modulus - 1,
            due : Nat, got : Seq(Nat)]

DiscardTypeOK ==
    /\ in \in 0 .. Modulus - 1 /\ out \in 0 .. Modulus - 1
    /\ buf \in [0 .. Capacity - 1 -> Nat]
    /\ sent \in Nat
    /\ writer \in [pc : {"idle", "advance", "test", "discard", "signal"}, n : 0 .. Capacity]
    /\ reader \in Readers

(* No byte in the ring is older than its place says; a writer may have put *)
(* younger ones there ahead of the counter.                                *)
BytesFresh ==
    /\ \A j \in 1 .. sent : buf[Slot(Discard!U32(in - j))] >= sent - j + 1
    /\ writer.pc = "advance" => \A k \in 1 .. writer.n : buf[Slot(in + k - 1)] = sent + k

(* The reader's bytes lie behind the position x.                           *)
Held(r, x) == r.n <= Behind(x) /\ Behind(x) <= sent

(* What a reader got so far.                                               *)
GotFresh(r) ==
    \A k \in 1 .. Len(r.got) :
        r.got[k] >= r.due + k - 1 \/ (r.got[k] = Discard!Outside /\ r.first # r.from)

(* The positions a reader loaded, and what it still may count on.          *)
ReaderAt(r) ==
    /\ r.pc # "idle" => r.n > 0
    /\ r.pc \in {"part", "place", "copy", "load"} => r.n <= Behind(out)
    /\ r.pc \in {"place", "copy"} =>
           /\ Held(r, r.first) /\ r.due <= sent - Behind(r.first) + 1
           /\ r.part = Discard!Lesser(r.n, Capacity - Slot(r.first))
    /\ r.pc = "copy" =>
           /\ Held(r, r.from) /\ r.due <= sent - Behind(r.from) + 1
           /\ Len(r.got) < r.n
    /\ r.pc = "store" => Held(r, r.old)
    /\ r.pc \in {"test", "wait", "woken", "part", "place"} => r.got = <<>>
    /\ GotFresh(r)

ReaderSafe == ReaderAt(reader)

WriterSafe ==
    /\ sent <= MaxBytes
    /\ writer.pc = "advance" => sent + writer.n <= MaxBytes
    /\ writer.pc = "discard" => Capacity <= sent

DiscardInv ==
    /\ DiscardTypeOK
    /\ Behind(out) <= sent
    /\ WriterSafe /\ ReaderSafe /\ BytesFresh

LEMMA RingOfDiscard ==
    /\ Ring!SizeAssumption
    /\ Ring!Slots = 0 .. Capacity - 1
    /\ \A x : Ring!Pos(x) = Slot(x) /\ Ring!U32(x) = Discard!U32(x)
    /\ \A p : Ring!CopyIn(p) = Discard!CopyIn(p)
<1>1. Ring!SizeAssumption
  BY ContainersAssumption DEF Ring!SizeAssumption
<1>2. \A x : Ring!Pos(x) = Slot(x) /\ Ring!U32(x) = Discard!U32(x)
  BY DEF Ring!Pos, Slot, Discard!Pos, Ring!U32, Discard!U32
<1>3. \A p : Ring!CopyIn(p) = Discard!CopyIn(p)
  BY DEF Ring!CopyIn, Discard!CopyIn, Ring!Pos, Discard!Pos, Ring!Slots, Discard!Slots,
         Ring!Lesser, Discard!Lesser
<1> QED BY <1>1, <1>2, <1>3 DEF Ring!Slots

LEMMA SlotRange ==
    ASSUME NEW x \in Nat
    PROVE  Slot(x) \in 0 .. Capacity - 1
BY RingOfDiscard, Ring!PosRange

LEMMA SlotWraps ==
    ASSUME NEW x \in Nat
    PROVE  Slot(x + Modulus) = Slot(x)
BY RingOfDiscard, Ring!PosWrap

LEMMA CounterRange ==
    ASSUME NEW x \in Int, -Modulus <= x, x < 2 * Modulus
    PROVE  Discard!U32(x) \in 0 .. Modulus - 1
BY ContainersAssumption DEF Discard!U32

(* The distance between two counters as either moves on.                   *)
LEMMA DistanceGrows ==
    ASSUME NEW i \in 0 .. Modulus - 1, NEW x \in 0 .. Modulus - 1, NEW n \in Nat,
           Discard!U32(i - x) + n < Modulus
    PROVE  Discard!U32(Discard!U32(i + n) - x) = Discard!U32(i - x) + n
BY ContainersAssumption DEF Discard!U32

LEMMA DistanceShrinks ==
    ASSUME NEW i \in 0 .. Modulus - 1, NEW x \in 0 .. Modulus - 1, NEW n \in Nat,
           n <= Discard!U32(i - x)
    PROVE  Discard!U32(i - Discard!U32(x + n)) = Discard!U32(i - x) - n
BY ContainersAssumption DEF Discard!U32

LEMMA DistanceBack ==
    ASSUME NEW i \in 0 .. Modulus - 1, NEW n \in 0 .. Modulus - 1
    PROVE  Discard!U32(i - Discard!U32(i - n)) = n
BY ContainersAssumption DEF Discard!U32

(* The slot a number of bytes before the write counter, counted from a     *)
(* position behind it, and after the counter has moved.                    *)
LEMMA SlotBehind ==
    ASSUME NEW i \in 0 .. Modulus - 1, NEW x \in 0 .. Modulus - 1, NEW l \in Nat,
           l < Discard!U32(i - x)
    PROVE  Slot(x + l) = Slot(Discard!U32(i - (Discard!U32(i - x) - l)))
<1> DEFINE v == Discard!U32(i - (Discard!U32(i - x) - l))
<1>1. v \in Nat /\ (v = x + l \/ v + Modulus = x + l)
  BY ContainersAssumption DEF Discard!U32
<1> QED BY <1>1, SlotWraps

LEMMA SlotAhead ==
    ASSUME NEW i \in 0 .. Modulus - 1, NEW n \in Nat, NEW j \in 1 .. n, n < Modulus
    PROVE  Slot(Discard!U32(Discard!U32(i + n) - j)) = Slot(i + (n - j + 1) - 1)
<1> DEFINE v == Discard!U32(Discard!U32(i + n) - j)
<1>1. v \in Nat /\ (v = i + (n - j + 1) - 1 \/ v + Modulus = i + (n - j + 1) - 1)
  BY ContainersAssumption DEF Discard!U32
<1> QED BY <1>1, SlotWraps

LEMMA CounterBack ==
    ASSUME NEW i \in 0 .. Modulus - 1, NEW n \in Nat, NEW j \in Nat, n < j, j < Modulus
    PROVE  Discard!U32(Discard!U32(i + n) - j) = Discard!U32(i - (j - n))
BY ContainersAssumption DEF Discard!U32

(* A reader outside a call.                                                *)
LEMMA IdleReader ==
    Discard!Idle \in Readers /\ ReaderAt(Discard!Idle)
<1>1. Discard!Idle \in Readers
  BY ContainersAssumption DEF Discard!Idle, Readers
<1>2. Discard!Idle.pc = "idle" /\ Discard!Idle.got = <<>> /\ Len(Discard!Idle.got) = 0
  BY DEF Discard!Idle
<1> QED BY <1>1, <1>2 DEF ReaderAt, GotFresh

LEMMA DiscardStarts ==
    ASSUME Discard!DiscardInit
    PROVE  DiscardInv
<1>1. in \in 0 .. Modulus - 1 /\ out = in /\ sent = 0 /\ writer = [pc |-> "idle", n |-> 0]
      /\ reader = Discard!Idle /\ buf = [i \in 0 .. Capacity - 1 |-> 0]
  BY ContainersAssumption DEF Discard!DiscardInit, Discard!Slots
<1>2. Behind(out) = 0
  BY <1>1, ContainersAssumption DEF Behind, Discard!U32
<1>3. reader \in Readers /\ ReaderSafe
  BY <1>1, IdleReader DEF ReaderSafe
<1>4. DiscardTypeOK
  BY <1>1, <1>3, ContainersAssumption DEF DiscardTypeOK
<1> QED BY <1>1, <1>2, <1>3, <1>4, ContainersAssumption DEF DiscardInv, WriterSafe, BytesFresh

LEMMA DiscardCopies ==
    ASSUME MaxBytes < Modulus, DiscardInv, NEW n \in WriteLens, Discard!WriteCopy(n)
    PROVE  DiscardInv'
<1>1. /\ n \in 1 .. Capacity /\ n \in Nat /\ sent \in Nat /\ in \in 0 .. Modulus - 1 /\ in \in Nat
      /\ out \in 0 .. Modulus - 1 /\ buf \in [0 .. Capacity - 1 -> Nat]
  BY ContainersAssumption DEF DiscardInv, DiscardTypeOK
<1>2. PICK p : p = [k \in 1 .. n |-> sent + k]
  OBVIOUS
<1>3. /\ writer.pc = "idle" /\ sent + n <= MaxBytes
      /\ buf' = Ring!CopyIn(p)
      /\ writer' = [pc |-> "advance", n |-> n]
      /\ UNCHANGED <<in, out, sent, reader>>
  BY <1>2, RingOfDiscard DEF Discard!WriteCopy
<1>4. p \in Seq(Nat) /\ Len(p) = n /\ \A k \in 1 .. n : p[k] = sent + k
  BY <1>1, <1>2
<1>5. Ring!RingTypeOK
  BY <1>1, RingOfDiscard DEF Ring!RingTypeOK
<1>6. buf' \in [0 .. Capacity - 1 -> Nat]
  BY <1>3, <1>4, <1>5, RingOfDiscard, Ring!CopyInType
<1>7. /\ \A k \in 1 .. n : buf'[Slot(in + k - 1)] = sent + k
      /\ \A i \in 0 .. Capacity - 1 :
            i \notin Ring!SlotsFrom(in, n) => buf'[i] = buf[i]
  <2>1. /\ \A k \in 1 .. Len(p) : Ring!CopyIn(p)[Ring!Pos(in + k - 1)] = p[k]
        /\ \A i \in Ring!Slots \ Ring!SlotsFrom(in, Len(p)) : Ring!CopyIn(p)[i] = buf[i]
    <3>1. Len(p) <= Capacity /\ Ring!SizeAssumption
      BY <1>1, <1>4, ContainersAssumption, RingOfDiscard
    <3> QED BY <3>1, <1>4, <1>5, Ring!CopyInIs
  <2> QED BY <2>1, <1>3, <1>4, RingOfDiscard
<1>8. \A j \in 1 .. sent : buf'[Slot(Discard!U32(in - j))] >= sent - j + 1
  <2> SUFFICES ASSUME NEW j \in 1 .. sent
               PROVE  buf'[Slot(Discard!U32(in - j))] >= sent - j + 1
    OBVIOUS
  <2>1. PICK s \in 0 .. Capacity - 1 : s = Slot(Discard!U32(in - j))
    <3>1. -Modulus <= in - j /\ in - j < 2 * Modulus /\ in - j \in Int
      BY <1>1, ContainersAssumption DEF DiscardInv, WriterSafe
    <3> QED BY <3>1, CounterRange, SlotRange
  <2>2. CASE s \in Ring!SlotsFrom(in, n)
    <3>1. PICK k \in 0 .. n - 1 : s = Ring!Pos(in + k)
      BY <2>2 DEF Ring!SlotsFrom
    <3>2. k + 1 \in 1 .. n /\ in + (k + 1) - 1 = in + k
      BY <1>1
    <3>3. buf'[s] = sent + (k + 1)
      BY <3>1, <3>2, <1>7, RingOfDiscard
    <3> QED BY <3>3, <3>2, <2>1, <1>1
  <2>3. CASE s \notin Ring!SlotsFrom(in, n)
    <3>1. buf'[s] = buf[s]
      BY <2>3, <1>7
    <3>2. buf[s] >= sent - j + 1
      BY <2>1 DEF DiscardInv, BytesFresh
    <3> QED BY <3>1, <3>2, <2>1
  <2> QED BY <2>2, <2>3
<1>9. DiscardTypeOK'
  BY <1>1, <1>3, <1>6 DEF DiscardInv, DiscardTypeOK
<1>10. BytesFresh'
  BY <1>3, <1>7, <1>8 DEF BytesFresh, Slot
<1>11. WriterSafe'
  BY <1>3 DEF DiscardInv, WriterSafe
<1>12. Behind(out)' <= sent'
  BY <1>3 DEF DiscardInv, Behind
<1>13. ReaderSafe'
  BY <1>3 DEF DiscardInv, ReaderSafe, ReaderAt, Held, GotFresh, Behind, Slot
<1> QED BY <1>9, <1>10, <1>11, <1>12, <1>13 DEF DiscardInv

LEMMA DiscardAdvances ==
    ASSUME MaxBytes < Modulus, DiscardInv, Discard!WriteAdvance
    PROVE  DiscardInv'
<1>1. PICK n \in 0 .. Capacity : n = writer.n
  BY DEF DiscardInv, DiscardTypeOK
<1>2. /\ writer.pc = "advance" /\ in' = Discard!U32(in + n) /\ sent' = sent + n
      /\ writer' = [writer EXCEPT !.pc = "test"]
      /\ UNCHANGED <<out, buf, reader>>
  BY <1>1 DEF Discard!WriteAdvance
<1>3. /\ in \in 0 .. Modulus - 1 /\ out \in 0 .. Modulus - 1 /\ sent \in Nat
      /\ sent + n <= MaxBytes /\ n < Modulus /\ MaxBytes < Modulus
      /\ MaxBytes \in Nat /\ Modulus \in Nat
      /\ reader.first \in 0 .. Modulus - 1 /\ reader.from \in 0 .. Modulus - 1
      /\ reader.old \in 0 .. Modulus - 1 /\ reader.n \in Nat /\ reader.due \in Nat
  <2>1. in \in 0 .. Modulus - 1 /\ out \in 0 .. Modulus - 1 /\ sent \in Nat
        /\ reader.first \in 0 .. Modulus - 1 /\ reader.from \in 0 .. Modulus - 1
        /\ reader.old \in 0 .. Modulus - 1 /\ reader.n \in Nat /\ reader.due \in Nat
    BY ContainersAssumption DEF DiscardInv, DiscardTypeOK, Readers
  <2>2. MaxBytes \in Nat /\ Modulus \in Nat /\ Capacity \in Nat /\ Capacity < Modulus
    BY ContainersAssumption
  <2>3. sent + n <= MaxBytes
    BY <1>1, <1>2 DEF DiscardInv, WriterSafe
  <2>4. n < Modulus
    BY <1>1, <2>2
  <2> QED BY <2>1, <2>2, <2>3, <2>4
<1>4. in' \in 0 .. Modulus - 1
  <2>1. -Modulus <= in + n /\ in + n < 2 * Modulus /\ in + n \in Int
    BY <1>3
  <2> QED BY <2>1, <1>2, CounterRange
<1>5. Behind(out)' = Behind(out) + n
  <2>1. Behind(out) <= sent /\ Behind(out) \in Int
    BY <1>3, ContainersAssumption DEF DiscardInv, Behind, Discard!U32
  <2>2. Discard!U32(in - out) + n < Modulus /\ n \in Nat
    BY <2>1, <1>3 DEF Behind
  <2>3. Behind(out)' = Discard!U32(Discard!U32(in + n) - out)
    BY <1>2 DEF Behind
  <2> QED BY <2>2, <2>3, <1>3, DistanceGrows, ZenonT(60) DEF Behind
<1>6. ASSUME NEW x \in 0 .. Modulus - 1, Behind(x) <= sent
      PROVE  Behind(x) \in Int /\ Discard!U32(in' - x) = Behind(x) + n
  <2>1. Behind(x) \in Int
    BY <1>3, ContainersAssumption DEF Behind, Discard!U32
  <2>2. Discard!U32(in - x) + n < Modulus /\ n \in Nat
    BY <2>1, <1>3, <1>6 DEF Behind
  <2>3. Discard!U32(in' - x) = Discard!U32(Discard!U32(in + n) - x)
    BY <1>2
  <2>4. Discard!U32(Discard!U32(in + n) - x) = Discard!U32(in - x) + n
    BY <2>2, <1>3, DistanceGrows, ZenonT(60)
  <2> QED BY <2>1, <2>3, <2>4 DEF Behind
<1>7. \A j \in 1 .. sent + n : buf[Slot(Discard!U32(in' - j))] >= (sent + n) - j + 1
  <2> SUFFICES ASSUME NEW j \in 1 .. sent + n
               PROVE  buf[Slot(Discard!U32(in' - j))] >= (sent + n) - j + 1
    OBVIOUS
  <2>1. CASE j <= n
    <3>1. j \in 1 .. n /\ n - j + 1 \in 1 .. n
      BY <2>1, <1>3
    <3>2. Slot(Discard!U32(in' - j)) = Slot(in + (n - j + 1) - 1)
      BY <3>1, <1>2, <1>3, SlotAhead
    <3>3. buf[Slot(in + (n - j + 1) - 1)] = sent + (n - j + 1)
      BY <3>1, <1>1, <1>2 DEF DiscardInv, BytesFresh
    <3> QED BY <3>2, <3>3, <3>1, <1>3
  <2>2. CASE n < j
    <3>1. j - n \in 1 .. sent /\ j < Modulus /\ j \in Nat /\ n \in Nat
      BY <2>2, <1>3, ContainersAssumption
    <3>2. Discard!U32(in' - j) = Discard!U32(in - (j - n))
      BY <3>1, <2>2, <1>2, <1>3, CounterBack
    <3>3. buf[Slot(Discard!U32(in - (j - n)))] >= sent - (j - n) + 1
      BY <3>1 DEF DiscardInv, BytesFresh
    <3> QED BY <3>2, <3>3, <3>1, <1>3
  <2> QED BY <2>1, <2>2, <1>3
<1>8. DiscardTypeOK'
  <2>1. sent' \in Nat
    BY <1>2, <1>3
  <2>2. writer' \in [pc : {"idle", "advance", "test", "discard", "signal"}, n : 0 .. Capacity]
    BY <1>2 DEF DiscardInv, DiscardTypeOK
  <2> QED BY <2>1, <2>2, <1>2, <1>4 DEF DiscardInv, DiscardTypeOK
<1>9. BytesFresh'
  BY <1>2, <1>7 DEF BytesFresh, Slot
<1>10. WriterSafe'
  BY <1>2, <1>3 DEF DiscardInv, WriterSafe, DiscardTypeOK
<1>11. ReaderSafe'
  <2>0. reader' = reader /\ Behind(out) \in Int
    BY <1>2, <1>3, ContainersAssumption DEF Behind, Discard!U32
  <2>2. reader.pc \in {"part", "place", "copy", "load"} => reader.n <= Behind(out)'
    BY <2>0, <1>3, <1>5 DEF DiscardInv, ReaderSafe, ReaderAt
  <2>3. ASSUME NEW x \in 0 .. Modulus - 1, Held(reader, x)
        PROVE  /\ reader.n <= Discard!U32(in' - x) /\ Discard!U32(in' - x) <= sent'
               /\ sent' - Discard!U32(in' - x) + 1 = sent - Behind(x) + 1
    <3>1. reader.n <= Behind(x) /\ Behind(x) <= sent
      BY <2>3 DEF Held
    <3> QED BY <3>1, <1>2, <1>3, <1>6
  <2>4. reader.pc \in {"place", "copy"} =>
           /\ Held(reader, reader.first)' /\ reader.due <= sent' - Behind(reader.first)' + 1
           /\ reader.part = Discard!Lesser(reader.n, Capacity - Slot(reader.first))
    <3>1. reader.pc \in {"place", "copy"} =>
             /\ Held(reader, reader.first) /\ reader.due <= sent - Behind(reader.first) + 1
             /\ reader.part = Discard!Lesser(reader.n, Capacity - Slot(reader.first))
      BY DEF DiscardInv, ReaderSafe, ReaderAt
    <3> QED BY <3>1, <2>3, <2>0, <1>3 DEF Held, Behind
  <2>5. reader.pc = "copy" =>
           /\ Held(reader, reader.from)' /\ reader.due <= sent' - Behind(reader.from)' + 1
           /\ Len(reader.got) < reader.n
    <3>1. reader.pc = "copy" =>
             /\ Held(reader, reader.from) /\ reader.due <= sent - Behind(reader.from) + 1
             /\ Len(reader.got) < reader.n
      BY DEF DiscardInv, ReaderSafe, ReaderAt
    <3> QED BY <3>1, <2>3, <2>0, <1>3 DEF Held, Behind
  <2>6. reader.pc = "store" => Held(reader, reader.old)'
    <3>1. reader.pc = "store" => Held(reader, reader.old)
      BY DEF DiscardInv, ReaderSafe, ReaderAt
    <3> QED BY <3>1, <2>3, <2>0, <1>3 DEF Held, Behind
  <2> QED BY <2>0, <2>2, <2>4, <2>5, <2>6 DEF DiscardInv, ReaderSafe, ReaderAt, GotFresh, Held, Slot
<1>12. Behind(out)' <= sent'
  BY <1>2, <1>3, <1>5, ContainersAssumption DEF DiscardInv, Behind, Discard!U32
<1> QED BY <1>8, <1>9, <1>10, <1>11, <1>12 DEF DiscardInv

LEMMA DiscardTypes ==
    ASSUME DiscardInv
    PROVE  /\ Behind(out) \in 0 .. Modulus - 1 /\ out \in 0 .. Modulus - 1
           /\ sent \in Nat /\ in \in 0 .. Modulus - 1
           /\ reader \in Readers /\ reader.n \in 0 .. Capacity /\ reader.n \in Nat
           /\ reader.first \in 0 .. Modulus - 1 /\ reader.from \in 0 .. Modulus - 1
           /\ reader.old \in 0 .. Modulus - 1 /\ reader.part \in 0 .. Capacity
           /\ reader.got \in Seq(Nat) /\ reader.due \in Nat /\ Len(reader.got) \in Nat
           /\ Modulus \in Nat /\ Capacity \in Nat \ {0} /\ Capacity < Modulus
<1>1. /\ sent \in Nat /\ in \in 0 .. Modulus - 1 /\ out \in 0 .. Modulus - 1 /\ reader \in Readers
      /\ Modulus \in Nat /\ Capacity \in Nat \ {0} /\ Capacity < Modulus
  BY ContainersAssumption DEF DiscardInv, DiscardTypeOK
<1>2. Behind(out) \in 0 .. Modulus - 1
  BY <1>1, CounterRange DEF Behind
<1>3. /\ reader.n \in 0 .. Capacity /\ reader.n \in Nat
      /\ reader.first \in 0 .. Modulus - 1 /\ reader.from \in 0 .. Modulus - 1
      /\ reader.old \in 0 .. Modulus - 1 /\ reader.part \in 0 .. Capacity
      /\ reader.got \in Seq(Nat) /\ reader.due \in Nat /\ Len(reader.got) \in Nat
  BY <1>1 DEF Readers
<1> QED BY <1>1, <1>2, <1>3

(* The reader's steps that leave the ring and the counters alone, and what *)
(* a step from one place in a call to another gives.                       *)
LEMMA ReaderMoves ==
    ASSUME DiscardInv, UNCHANGED <<in, out, buf, sent, writer>>,
           reader' \in Readers, ReaderAt(reader')
    PROVE  DiscardInv'
<1>1. DiscardTypeOK'
  BY DEF DiscardInv, DiscardTypeOK, Readers
<1>2. BytesFresh' /\ WriterSafe' /\ Behind(out)' <= sent'
  BY DEF DiscardInv, BytesFresh, WriterSafe, Slot, Behind
<1>3. ReaderSafe'
  BY DEF ReaderSafe, ReaderAt, GotFresh, Held, Behind, Slot
<1> QED BY <1>1, <1>2, <1>3 DEF DiscardInv

LEMMA ReaderGoes ==
    ASSUME NEW r \in Readers, NEW pc \in {"test", "wait", "woken", "part", "load", "store"},
           NEW q, q = [r EXCEPT !.pc = pc]
    PROVE  /\ q \in Readers /\ q.pc = pc /\ q.op = r.op /\ q.n = r.n /\ q.first = r.first
           /\ q.part = r.part /\ q.from = r.from /\ q.old = r.old /\ q.due = r.due /\ q.got = r.got
BY DEF Readers

(* The distance of any position from the write counter.                    *)
LEMMA BehindRange ==
    ASSUME DiscardInv, NEW x \in 0 .. Modulus - 1
    PROVE  Behind(x) \in 0 .. Modulus - 1 /\ Behind(x) \in Int /\ x \in Nat
<1>1. -Modulus <= in - x /\ in - x < 2 * Modulus /\ in - x \in Int /\ Modulus \in Nat
  <2>1. in \in 0 .. Modulus - 1 /\ Modulus \in Nat
    BY DiscardTypes
  <2> QED BY <2>1
<1> QED BY <1>1, CounterRange DEF Behind

LEMMA DiscardTests ==
    ASSUME DiscardInv, Discard!WriteTest \/ Discard!WriteSignal
    PROVE  DiscardInv'
<1>1. UNCHANGED <<in, out, buf, sent>>
  BY DEF Discard!WriteTest, Discard!WriteSignal
<1>2. /\ writer' \in [pc : {"idle", "advance", "test", "discard", "signal"}, n : 0 .. Capacity]
      /\ writer'.pc # "advance"
      /\ writer'.pc = "discard" => Behind(out) >= Capacity
  <2>1. CASE Discard!WriteTest
    <3>1. PICK pc \in {"discard", "signal"} :
              writer' = [writer EXCEPT !.pc = pc] /\ (pc = "discard" => Discard!Used >= Capacity)
      BY <2>1 DEF Discard!WriteTest
    <3>2. writer'.pc = pc
          /\ writer' \in [pc : {"idle", "advance", "test", "discard", "signal"}, n : 0 .. Capacity]
      BY <3>1 DEF DiscardInv, DiscardTypeOK
    <3> QED BY <3>1, <3>2 DEF Behind, Discard!Used
  <2>2. CASE Discard!WriteSignal
    <3>1. writer' = [pc |-> "idle", n |-> 0]
      BY <2>2 DEF Discard!WriteSignal
    <3> QED BY <3>1, ContainersAssumption
  <2> QED BY <2>1, <2>2
<1>3. reader' = reader \/ (reader.pc = "wait" /\ reader' = [reader EXCEPT !.pc = "woken"])
  BY DEF Discard!WriteTest, Discard!WriteSignal
<1>4. reader' \in Readers /\ ReaderAt(reader')
  <2>1. CASE reader' = reader
    BY <2>1, DiscardTypes DEF DiscardInv, ReaderSafe
  <2>2. CASE reader.pc = "wait" /\ reader' = [reader EXCEPT !.pc = "woken"]
    <3>1. /\ reader' \in Readers /\ reader'.pc = "woken" /\ reader'.got = reader.got
          /\ reader'.n = reader.n /\ reader'.due = reader.due
          /\ reader'.first = reader.first /\ reader'.from = reader.from
      BY <2>2, DiscardTypes, ReaderGoes
    <3> QED BY <3>1, <2>2 DEF DiscardInv, ReaderSafe, ReaderAt, GotFresh
  <2> QED BY <2>1, <2>2, <1>3
<1>5. DiscardTypeOK'
  BY <1>1, <1>2, <1>4 DEF DiscardInv, DiscardTypeOK, Readers
<1>6. BytesFresh'
  BY <1>1, <1>2 DEF DiscardInv, BytesFresh, Slot
<1>7. WriterSafe'
  BY <1>1, <1>2, DiscardTypes DEF DiscardInv, WriterSafe
<1>8. Behind(out)' <= sent' /\ ReaderSafe'
  BY <1>1, <1>4 DEF DiscardInv, Behind, ReaderSafe, ReaderAt, GotFresh, Held, Slot
<1> QED BY <1>5, <1>6, <1>7, <1>8 DEF DiscardInv

LEMMA DiscardDiscards ==
    ASSUME DiscardInv, Discard!WriteDiscard
    PROVE  DiscardInv'
<1>1. /\ writer.pc = "discard" /\ out' = Discard!U32(in - Capacity)
      /\ writer' = [writer EXCEPT !.pc = "signal"]
      /\ UNCHANGED <<in, buf, sent, reader>>
  BY DEF Discard!WriteDiscard
<1>2. out' \in 0 .. Modulus - 1
  <2>1. -Modulus <= in - Capacity /\ in - Capacity < 2 * Modulus /\ in - Capacity \in Int
    BY DiscardTypes, SMTT(40)
  <2> QED BY <2>1, <1>1, CounterRange
<1>3. Behind(out)' = Capacity
  BY <1>1, DiscardTypes, DistanceBack DEF Behind
<1>4. writer' \in [pc : {"idle", "advance", "test", "discard", "signal"}, n : 0 .. Capacity]
      /\ writer'.pc = "signal"
  BY <1>1 DEF DiscardInv, DiscardTypeOK
<1>5. DiscardTypeOK'
  BY <1>1, <1>2, <1>4 DEF DiscardInv, DiscardTypeOK
<1>6. ReaderSafe'
  <2>1. Behind(reader.from)' = Behind(reader.from)
    BY <1>1 DEF Behind
  <2>2. reader.n <= Behind(out)'
    BY <1>3, DiscardTypes
  <2>3. reader.n <= Behind(out)'
    BY <2>2, <1>1
  <2> QED BY <2>3, <1>1 DEF DiscardInv, ReaderSafe, ReaderAt, Held, GotFresh, Behind, Slot
<1>7. BytesFresh'
  BY <1>1, <1>4 DEF DiscardInv, BytesFresh, Slot
<1>8. WriterSafe'
  BY <1>1, <1>4 DEF DiscardInv, WriterSafe
<1>9. Behind(out)' <= sent'
  BY <1>1, <1>3 DEF DiscardInv, WriterSafe
<1> QED BY <1>5, <1>6, <1>7, <1>8, <1>9 DEF DiscardInv

LEMMA DiscardCalls ==
    ASSUME DiscardInv,
           (\E n \in ReadLens, op \in {"peek", "read", "del"} : Discard!ReadCall(op, n))
             \/ Discard!ReadWoken
    PROVE  DiscardInv'
<1>1. UNCHANGED <<in, out, buf, sent, writer>>
  BY Zenon DEF Discard!ReadCall, Discard!ReadWoken
<1>2. reader' \in Readers /\ ReaderAt(reader')
  <2>1. ASSUME NEW n \in ReadLens, NEW op \in {"peek", "read", "del"}, Discard!ReadCall(op, n)
        PROVE  reader' \in Readers /\ ReaderAt(reader')
    <3>1. n \in 0 .. Capacity /\ n > 0
      BY ContainersAssumption
    <3>2. reader' = [Discard!Idle EXCEPT !.pc = "test", !.op = op, !.n = n]
      BY <2>1, Zenon DEF Discard!ReadCall
    <3>3. reader' \in Readers /\ reader'.pc = "test" /\ reader'.n = n /\ reader'.got = <<>>
      <4>1. reader' = [pc |-> "test", op |-> op, n |-> n, first |-> 0, part |-> 0, from |-> 0,
                       old |-> 0, due |-> 0, got |-> <<>>]
        BY <3>2 DEF Discard!Idle
      <4>2. 0 \in 0 .. Capacity /\ 0 \in 0 .. Modulus - 1 /\ n \in 0 .. Capacity
        BY <3>1, ContainersAssumption
      <4> QED BY <4>1, <4>2 DEF Readers
    <3>4. Len(reader'.got) = 0
      BY <3>3
    <3> QED BY <3>1, <3>3, <3>4 DEF ReaderAt, GotFresh
  <2>2. ASSUME Discard!ReadWoken, fifoEnd = "run"
        PROVE  reader' \in Readers /\ ReaderAt(reader')
    <3>1. reader.pc \in {"woken", "wait"} /\ reader' = [reader EXCEPT !.pc = "test"]
      BY <2>2 DEF Discard!ReadWoken
    <3>2. /\ reader' \in Readers /\ reader'.pc = "test" /\ reader'.got = reader.got
          /\ reader'.n = reader.n /\ reader'.due = reader.due
          /\ reader'.first = reader.first /\ reader'.from = reader.from
      BY <3>1, DiscardTypes, ReaderGoes
    <3> QED BY <3>1, <3>2 DEF DiscardInv, ReaderSafe, ReaderAt, GotFresh
  <2>3. ASSUME Discard!ReadWoken, fifoEnd # "run"
        PROVE  reader' \in Readers /\ ReaderAt(reader')
    BY <2>3, IdleReader DEF Discard!ReadWoken
  <2> QED BY <2>1, <2>2, <2>3
<1> QED BY <1>1, <1>2, ReaderMoves, SMTT(30)

LEMMA DiscardLooks ==
    ASSUME DiscardInv, Discard!ReadTest \/ Discard!ReadLoad
    PROVE  DiscardInv'
<1>1. UNCHANGED <<in, out, buf, sent, writer>>
  BY DEF Discard!ReadTest, Discard!ReadLoad
<1>2. CASE Discard!ReadTest
  <2>1. PICK pc \in {"wait", "load", "part"} :
            reader' = [reader EXCEPT !.pc = pc] /\ (pc # "wait" => reader.n <= Behind(out))
    <3>1. PICK pc : /\ pc = IF reader.n > Behind(out) THEN "wait"
                             ELSE IF reader.op = "del" THEN "load" ELSE "part"
                    /\ reader' = [reader EXCEPT !.pc = pc]
      BY <1>2 DEF Discard!ReadTest, Behind, Discard!Used
    <3>2. pc \in {"wait", "load", "part"} /\ (pc # "wait" => reader.n <= Behind(out))
      BY <3>1, DiscardTypes
    <3> QED BY <3>1, <3>2
  <2>2. reader.pc = "test" /\ reader.got = <<>> /\ Len(reader.got) = 0 /\ reader.n > 0
    BY <1>2 DEF Discard!ReadTest, DiscardInv, ReaderSafe, ReaderAt
  <2>3. /\ reader' \in Readers /\ reader'.pc = pc /\ reader'.n = reader.n
        /\ reader'.got = <<>> /\ Len(reader'.got) = 0
    BY <2>1, <2>2, DiscardTypes, ReaderGoes
  <2>4. ReaderAt(reader')
    BY <2>1, <2>2, <2>3 DEF ReaderAt, GotFresh
  <2> QED BY <2>3, <2>4, <1>1, ReaderMoves
<1>3. CASE Discard!ReadLoad
  <2>1. reader.pc = "load" /\ reader' = [reader EXCEPT !.pc = "store", !.old = out]
    BY <1>3 DEF Discard!ReadLoad
  <2>2. /\ reader' \in Readers /\ reader'.pc = "store" /\ reader'.n = reader.n
        /\ reader'.got = reader.got /\ reader'.due = reader.due /\ reader'.old = out
        /\ reader'.first = reader.first /\ reader'.from = reader.from
    BY <2>1, DiscardTypes DEF Readers
  <2>3. reader.n <= Behind(out) /\ Behind(out) <= sent /\ reader.n > 0 /\ GotFresh(reader)
    BY <2>1 DEF DiscardInv, ReaderSafe, ReaderAt
  <2>4. ReaderAt(reader')
    BY <2>2, <2>3 DEF ReaderAt, GotFresh, Held
  <2> QED BY <2>2, <2>4, <1>1, ReaderMoves
<1> QED BY <1>2, <1>3

LEMMA DiscardParts ==
    ASSUME DiscardInv, Discard!ReadPart
    PROVE  DiscardInv'
<1>1. PICK part \in 0 .. Capacity : part = Discard!Lesser(reader.n, Capacity - Slot(out))
  <2>1. Slot(out) \in 0 .. Capacity - 1 /\ Capacity \in Nat /\ reader.n \in 0 .. Capacity
    BY DiscardTypes, SlotRange
  <2> QED BY <2>1 DEF Discard!Lesser
<1>2. /\ reader.pc = "part" /\ UNCHANGED <<in, out, buf, sent, writer>>
      /\ reader' = [reader EXCEPT !.pc = "place", !.first = out,
                                  !.due = sent - Behind(out) + 1, !.part = part]
  BY <1>1 DEF Discard!ReadPart, Behind, Discard!Used, Slot
<1>3. /\ reader.n <= Behind(out) /\ Behind(out) <= sent /\ reader.got = <<>>
      /\ Len(reader.got) = 0 /\ reader.n > 0
  BY <1>2, DiscardTypes DEF DiscardInv, ReaderSafe, ReaderAt
<1>4. sent - Behind(out) + 1 \in Nat
  BY <1>3, DiscardTypes
<1>5. /\ reader' \in Readers /\ reader'.pc = "place" /\ reader'.n = reader.n
      /\ reader'.got = <<>> /\ Len(reader'.got) = 0 /\ reader'.first = out
      /\ reader'.due = sent - Behind(out) + 1 /\ reader'.part = part
  BY <1>1, <1>2, <1>3, <1>4, DiscardTypes DEF Readers
<1>6. ReaderAt(reader')
  BY <1>1, <1>3, <1>4, <1>5 DEF ReaderAt, GotFresh, Held
<1> QED BY <1>2, <1>5, <1>6, ReaderMoves

LEMMA DiscardPlaces ==
    ASSUME DiscardInv, Discard!ReadPlace
    PROVE  DiscardInv'
<1>1. /\ reader.pc = "place" /\ UNCHANGED <<in, out, buf, sent, writer>>
      /\ reader' = [reader EXCEPT !.pc = "copy", !.from = out,
                                  !.due = Discard!Lesser(reader.due, sent - Behind(out) + 1)]
  BY DEF Discard!ReadPlace, Behind, Discard!Used
<1>2. /\ reader.n <= Behind(out) /\ Behind(out) <= sent /\ reader.got = <<>>
      /\ Len(reader.got) = 0 /\ reader.n > 0
      /\ Held(reader, reader.first) /\ reader.due <= sent - Behind(reader.first) + 1
      /\ reader.part = Discard!Lesser(reader.n, Capacity - Slot(reader.first))
  BY <1>1 DEF DiscardInv, ReaderSafe, ReaderAt
<1>3. PICK d \in Nat : /\ d = Discard!Lesser(reader.due, sent - Behind(out) + 1)
                       /\ d <= reader.due /\ d <= sent - Behind(out) + 1
  <2>1. reader.due \in Nat /\ sent - Behind(out) + 1 \in Nat
    BY <1>2, DiscardTypes
  <2> QED BY <2>1 DEF Discard!Lesser
<1>4. /\ reader' \in Readers /\ reader'.pc = "copy" /\ reader'.n = reader.n
      /\ reader'.got = <<>> /\ Len(reader'.got) = 0 /\ reader'.first = reader.first
      /\ reader'.from = out /\ reader'.part = reader.part /\ reader'.due = d
  BY <1>1, <1>2, <1>3, DiscardTypes DEF Readers
<1>5. Behind(reader.first) \in Int
  BY DiscardTypes, BehindRange
<1>6. d <= sent - Behind(reader.first) + 1
  BY <1>2, <1>3, <1>5, DiscardTypes
<1>7. ReaderAt(reader')
  BY <1>2, <1>3, <1>4, <1>6, DiscardTypes DEF ReaderAt, GotFresh, Held
<1> QED BY <1>1, <1>4, <1>7, ReaderMoves

(* A byte of a call, by the position it is counted from.                   *)
LEMMA ByteHeld ==
    ASSUME DiscardInv, NEW x \in 0 .. Modulus - 1, Held(reader, x),
           NEW l \in Nat, l < reader.n
    PROVE  buf[Slot(x + l)] \in Nat /\ buf[Slot(x + l)] >= sent - Behind(x) + 1 + l
<1>1. /\ Behind(x) \in 0 .. Modulus - 1 /\ Behind(x) \in Int
      /\ reader.n <= Behind(x) /\ Behind(x) <= sent
  BY BehindRange DEF Held
<1>2. PICK j \in 1 .. sent : j = Behind(x) - l
  <2>1. Behind(x) - l \in 1 .. sent
    BY <1>1, DiscardTypes
  <2> QED BY <2>1
<1>3. Slot(x + l) = Slot(Discard!U32(in - j))
  <2>1. l < Discard!U32(in - x)
    <3>1. l < Behind(x)
      <4>1. reader.n \in Nat
        BY DiscardTypes
      <4> QED BY <4>1, <1>1
    <3> QED BY <3>1 DEF Behind
  <2> QED BY <2>1, <1>2, DiscardTypes, SlotBehind DEF Behind
<1>4. buf[Slot(Discard!U32(in - j))] >= sent - j + 1
  BY DEF DiscardInv, BytesFresh
<1>5. Slot(x + l) \in 0 .. Capacity - 1
  BY SlotRange
<1>6. buf[Slot(x + l)] \in Nat
  BY <1>5 DEF DiscardInv, DiscardTypeOK
<1>7. sent - j + 1 = sent - Behind(x) + 1 + l
  BY <1>1, <1>2, DiscardTypes
<1> QED BY <1>3, <1>4, <1>6, <1>7

(* Counting on from a slot, before and after the end of the ring.          *)
LEMMA SlotOn ==
    ASSUME NEW x \in Nat, NEW l \in Nat, l < Capacity
    PROVE  /\ Slot(x) + l < Capacity => Slot(x + l) = Slot(x) + l
           /\ Slot(x) + l >= Capacity => Slot(x + l) = l - (Capacity - Slot(x))
<1>1. l \in 0 .. Capacity /\ Slot(x) \in 0 .. Capacity - 1 /\ Capacity \in Nat
  BY SlotRange, ContainersAssumption
<1>2. Slot(x + l) = IF Slot(x) + l < Capacity THEN Slot(x) + l ELSE Slot(x) + l - Capacity
  <2>1. Ring!Pos(x + l) = IF Ring!Pos(x) + l < Capacity THEN Ring!Pos(x) + l
                          ELSE Ring!Pos(x) + l - Capacity
    BY <1>1, RingOfDiscard, Ring!PosAdd
  <2> QED BY <2>1, RingOfDiscard
<1> QED BY <1>1, <1>2

LEMMA DiscardReads ==
    ASSUME DiscardInv, Discard!ReadCopy
    PROVE  DiscardInv'
<1>1. PICK l \in Nat : l = Len(reader.got)
  BY DiscardTypes
<1>2. PICK byte : byte = Discard!ByteAt(l)
  OBVIOUS
<1>3. PICK got : got = Append(reader.got, byte)
  OBVIOUS
<1>4. /\ reader.pc = "copy" /\ UNCHANGED <<in, out, buf, sent, writer>>
      /\ reader' = [reader EXCEPT !.got = got,
                                  !.pc = IF Len(got) < reader.n THEN "copy"
                                         ELSE IF reader.op = "peek" THEN "idle" ELSE "load"]
  BY <1>1, <1>2, <1>3 DEF Discard!ReadCopy
<1>5. /\ reader.n <= Behind(out) /\ reader.n > 0 /\ l < reader.n
      /\ Held(reader, reader.first) /\ reader.due <= sent - Behind(reader.first) + 1
      /\ reader.part = Discard!Lesser(reader.n, Capacity - Slot(reader.first))
      /\ Held(reader, reader.from) /\ reader.due <= sent - Behind(reader.from) + 1
      /\ GotFresh(reader)
  BY <1>1, <1>4 DEF DiscardInv, ReaderSafe, ReaderAt
<1>6. /\ byte \in Nat
      /\ byte >= reader.due + l \/ (byte = Discard!Outside /\ reader.first # reader.from)
  <2>0. /\ l < Capacity /\ l \in Nat /\ Behind(reader.first) \in Int /\ Behind(reader.from) \in Int
        /\ Slot(reader.first) \in 0 .. Capacity - 1 /\ Slot(reader.from) \in 0 .. Capacity - 1
    <3>1. l < Capacity /\ l \in Nat
      BY <1>5, DiscardTypes
    <3>2. /\ reader.first \in Nat /\ reader.from \in Nat
          /\ Behind(reader.first) \in Int /\ Behind(reader.from) \in Int
      BY DiscardTypes, BehindRange
    <3> QED BY <3>1, <3>2, SlotRange
  <2>1. ASSUME NEW x \in {reader.first, reader.from}
        PROVE  buf[Slot(x + l)] \in Nat /\ buf[Slot(x + l)] >= reader.due + l
    <3>1. x \in 0 .. Modulus - 1 /\ Held(reader, x) /\ reader.due <= sent - Behind(x) + 1
          /\ Behind(x) \in Int
      BY <1>5, <2>0, DiscardTypes
    <3>2. buf[Slot(x + l)] \in Nat /\ buf[Slot(x + l)] >= sent - Behind(x) + 1 + l
      BY <3>1, <1>5, ByteHeld
    <3>3. sent \in Int /\ reader.due \in Int
      BY DiscardTypes
    <3> QED BY <3>1, <3>2, <3>3, <2>0
  <2>5. /\ reader.n \in Int /\ reader.part \in Int /\ Capacity \in Int /\ reader.first \in Nat
        /\ reader.from \in Nat /\ reader.due \in Int
    BY DiscardTypes
  <2>2. CASE l >= reader.part
    <3>1. reader.part = Capacity - Slot(reader.first)
      BY <2>2, <1>5, <2>0, <2>5 DEF Discard!Lesser
    <3>2. Slot(reader.first + l) = l - reader.part
      BY <3>1, <2>2, <2>0, <2>5, SlotOn
    <3> QED BY <3>2, <2>1, <2>2, <1>2 DEF Discard!ByteAt
  <2>3. CASE l < reader.part /\ Slot(reader.from) + l < Capacity
    <3>1. Slot(reader.from + l) = Slot(reader.from) + l
      BY <2>3, <2>0, <2>5, SlotOn
    <3>2. ~(l >= reader.part)
      BY <2>3, <2>0, <2>5
    <3> QED BY <3>1, <3>2, <2>1, <2>3, <1>2 DEF Discard!ByteAt, Slot
  <2>4. CASE l < reader.part /\ ~(Slot(reader.from) + l < Capacity)
    <3>1. ~(l >= reader.part)
      BY <2>4, <2>0, <2>5
    <3>2. byte = Discard!Outside
      BY <3>1, <2>4, <1>2 DEF Discard!ByteAt, Slot
    <3>3. reader.first # reader.from
      BY <2>4, <1>5, <2>0, <2>5 DEF Discard!Lesser
    <3> QED BY <3>2, <3>3 DEF Discard!Outside
  <2> QED BY <2>2, <2>3, <2>4, <2>0, <2>5
<1>7. got \in Seq(Nat) /\ Len(got) = l + 1 /\ got[l + 1] = byte
      /\ \A k \in 1 .. l : got[k] = reader.got[k]
  BY <1>1, <1>3, <1>6, DiscardTypes
<1>8. PICK pc \in {"copy", "idle", "load"} :
         reader' = [reader EXCEPT !.got = got, !.pc = pc] /\ (pc = "copy" => l + 1 < reader.n)
  <2>1. CASE l + 1 < reader.n
    BY <2>1, <1>4, <1>7
  <2>2. CASE ~(l + 1 < reader.n) /\ reader.op = "peek"
    BY <2>2, <1>4, <1>7
  <2>3. CASE ~(l + 1 < reader.n) /\ reader.op # "peek"
    BY <2>3, <1>4, <1>7
  <2> QED BY <2>1, <2>2, <2>3
<1>9. /\ reader' \in Readers /\ reader'.pc = pc /\ reader'.n = reader.n /\ reader'.got = got
      /\ reader'.first = reader.first /\ reader'.part = reader.part
      /\ reader'.from = reader.from /\ reader'.due = reader.due
  BY <1>7, <1>8, DiscardTypes DEF Readers
<1>10. GotFresh(reader')
  <2> SUFFICES ASSUME NEW k \in 1 .. l + 1
               PROVE  got[k] >= reader.due + k - 1
                      \/ (got[k] = Discard!Outside /\ reader.first # reader.from)
    BY <1>7, <1>9 DEF GotFresh
  <2>1. CASE k = l + 1
    <3>1. reader.due + k - 1 = reader.due + l
      BY <2>1, DiscardTypes
    <3> QED BY <3>1, <2>1, <1>6, <1>7
  <2>2. CASE k \in 1 .. l
    BY <2>2, <1>1, <1>5, <1>7 DEF GotFresh
  <2> QED BY <2>1, <2>2
<1>11. ReaderAt(reader')
  BY <1>5, <1>7, <1>8, <1>9, <1>10 DEF ReaderAt, Held
<1> QED BY <1>4, <1>9, <1>11, ReaderMoves

LEMMA DiscardStores ==
    ASSUME DiscardInv, Discard!ReadStore
    PROVE  DiscardInv'
<1>1. /\ reader.pc = "store" /\ out' = Discard!U32(reader.old + reader.n)
      /\ reader' = Discard!Idle
      /\ UNCHANGED <<in, buf, sent, writer>>
  BY DEF Discard!ReadStore
<1>2. reader.n <= Behind(reader.old) /\ Behind(reader.old) <= sent
  BY <1>1 DEF DiscardInv, ReaderSafe, ReaderAt, Held
<1>3. out' \in 0 .. Modulus - 1
  <2>1. -Modulus <= reader.old + reader.n /\ reader.old + reader.n < 2 * Modulus
        /\ reader.old + reader.n \in Int
    <3>1. /\ reader.old \in 0 .. Modulus - 1 /\ reader.n \in 0 .. Capacity
          /\ Modulus \in Nat /\ Capacity \in Nat /\ Capacity < Modulus
      BY DiscardTypes
    <3> QED BY <3>1
  <2> QED BY <2>1, <1>1, CounterRange
<1>4. Behind(out)' = Behind(reader.old) - reader.n
  <2>1. Behind(out)' = Discard!U32(in - Discard!U32(reader.old + reader.n))
    BY <1>1 DEF Behind
  <2> QED BY <2>1, <1>2, DiscardTypes, DistanceShrinks, SMTT(40) DEF Behind
<1>5. Behind(out)' <= sent'
  <2>1. sent \in Int /\ reader.n \in Nat /\ Behind(reader.old) \in Int
    BY DiscardTypes, BehindRange
  <2> QED BY <2>1, <1>1, <1>2, <1>4
<1>6. DiscardTypeOK'
  BY <1>1, <1>3, IdleReader, ContainersAssumption DEF DiscardInv, DiscardTypeOK, Readers
<1>7. ReaderSafe'
  <2>1. reader'.got = <<>> /\ reader'.pc = "idle" /\ Len(reader'.got) = 0
    BY <1>1 DEF Discard!Idle
  <2> QED BY <2>1 DEF ReaderSafe, ReaderAt, GotFresh
<1>8. BytesFresh' /\ WriterSafe'
  BY <1>1 DEF DiscardInv, BytesFresh, WriterSafe, Slot
<1> QED BY <1>5, <1>6, <1>7, <1>8 DEF DiscardInv

LEMMA DiscardClears ==
    ASSUME DiscardInv, Discard!Reset
    PROVE  DiscardInv'
<1>1. /\ writer.pc = "idle" /\ reader.pc \in {"idle", "wait", "woken"}
      /\ in' = 0 /\ out' = 0 /\ sent' = 0 /\ buf' = [i \in 0 .. Capacity - 1 |-> 0]
      /\ UNCHANGED <<writer, reader>>
  BY DEF Discard!Reset, Discard!RingReset, Discard!Slots
<1>2. Behind(out)' = 0
  BY <1>1, ContainersAssumption DEF Behind, Discard!U32
<1>3. DiscardTypeOK'
  BY <1>1, ContainersAssumption DEF DiscardInv, DiscardTypeOK
<1>4. ReaderSafe'
  BY <1>1 DEF DiscardInv, ReaderSafe, ReaderAt, GotFresh
<1>5. BytesFresh' /\ WriterSafe'
  BY <1>1, ContainersAssumption DEF BytesFresh, WriterSafe
<1> QED BY <1>1, <1>2, <1>3, <1>4, <1>5 DEF DiscardInv

(* HyFifoLockDiscard: while fewer bytes are written between two Resets     *)
(* than the counters count, the read counter stays between the first byte  *)
(* and the write counter, and a reader gets no byte older than the one due *)
(* to it, however far the writer overtakes it.                             *)
THEOREM FreshReads ==
    ASSUME MaxBytes < Modulus
    PROVE  Spec => []ReadsAreFresh
<1>1. Init => DiscardInv
  BY DiscardStarts DEF Init
<1>2. DiscardInv /\ [Next]_containersVars => DiscardInv'
  <2> SUFFICES ASSUME DiscardInv, [Next]_containersVars PROVE DiscardInv'
    OBVIOUS
  <2>1. Discard!DiscardNext \/ UNCHANGED D
    BY DEF Next, containersVars
  <2>2. CASE UNCHANGED D
    BY <2>2 DEF D, DiscardInv, DiscardTypeOK, Readers, WriterSafe, ReaderSafe, ReaderAt, Held,
                GotFresh, BytesFresh, Behind, Slot
  <2>3. CASE Discard!DiscardNext
    <3>1. CASE Discard!DiscardDestroy
      BY <3>1 DEF Discard!DiscardDestroy, DiscardInv, DiscardTypeOK, Readers, WriterSafe,
                  ReaderSafe, ReaderAt, Held, GotFresh, BytesFresh, Behind, Slot
    <3> QED BY <3>1, <2>3, DiscardCopies, DiscardAdvances, DiscardTests, DiscardDiscards,
               DiscardCalls, DiscardLooks, DiscardParts, DiscardPlaces, DiscardReads, DiscardStores,
               DiscardClears
            DEF Discard!DiscardNext
  <2> QED BY <2>1, <2>2, <2>3
<1>3. DiscardInv => ReadsAreFresh
  <2> SUFFICES ASSUME DiscardInv PROVE Discard!ReadsAreFresh
    BY DEF ReadsAreFresh
  <2>1. DOMAIN reader.got = 1 .. Len(reader.got)
    BY DiscardTypes
  <2> QED BY <2>1 DEF DiscardInv, ReaderSafe, ReaderAt, GotFresh, Behind,
                      Discard!ReadsAreFresh, Discard!Used
<1> QED BY <1>1, <1>2, <1>3, PTL DEF Spec, containersVars

-----------------------------------------------------------------------------
(* HyHash.  A set of places has a first one.                               *)
LEMMA NatMin ==
    ASSUME NEW T, T \subseteq Nat, T # {}
    PROVE  \E x \in T : \A y \in T : x <= y
<1> DEFINE R == OpToRel(<, Nat)
<1>1. IsWellFoundedOn(R, Nat)
  BY NatLessThanWellFounded
<1>2. PICK x \in T : \A y \in T : ~ (<<y, x>> \in R)
  <2> HIDE DEF R
  <2> QED BY <1>1, WFMin
<1>3. ASSUME NEW y \in T PROVE x <= y
  <2>1. ~(<<y, x>> \in R)
    BY <1>2
  <2>2. ~(y < x)
    BY <2>1 DEF OpToRel
  <2> QED BY <2>2
<1> QED BY <1>2, <1>3

(* What a bucket s holds under a hash h: no item, or one that holds v.     *)
Stored     == [val : Values \cup {Null}, val_len : Values]
Latest     == [val : Values \cup {Null}, val_len : Values \cup {0}]
HashItems  == [key_hash : {1, 2}, item : Stored]
NoneOf(s, h)   == \A i \in 1 .. Len(s) : s[i].key_hash # h
OneOf(s, h, v) ==
    /\ \A i, j \in 1 .. Len(s) : s[i].key_hash = h /\ s[j].key_hash = h => i = j
    /\ \A i \in 1 .. Len(s) : s[i].key_hash = h => s[i].item = v
    /\ NoneOf(s, h) => v = Hash!Nothing

LEMMA PutInFront ==
    ASSUME NEW s \in Seq(HashItems), NEW e \in HashItems
    PROVE  /\ <<e>> \o s \in Seq(HashItems) /\ Len(<<e>> \o s) = Len(s) + 1
           /\ (<<e>> \o s)[1] = e
           /\ \A i \in 2 .. Len(s) + 1 : (<<e>> \o s)[i] = s[i - 1]
<1> HIDE DEF HashItems
<1>1. <<e>> \in Seq(HashItems) /\ Len(<<e>>) = 1
  OBVIOUS
<1>2. <<e>> \o s \in Seq(HashItems) /\ Len(<<e>> \o s) = Len(s) + 1
  BY <1>1
<1>3. (<<e>> \o s)[1] = e
  BY <1>1
<1>4. \A i \in 2 .. Len(s) + 1 : (<<e>> \o s)[i] = s[i - 1]
  BY <1>1
<1> QED BY <1>2, <1>3, <1>4

LEMMA TakenOut ==
    ASSUME NEW s \in Seq(HashItems), NEW f \in 1 .. Len(s)
    PROVE  /\ Hash!Without(s, f) \in Seq(HashItems) /\ Len(Hash!Without(s, f)) = Len(s) - 1
           /\ \A i \in 1 .. Len(s) - 1 : Hash!Without(s, f)[i] = IF i < f THEN s[i] ELSE s[i + 1]
<1> HIDE DEF HashItems
<1>1. PICK a : a = SubSeq(s, 1, f - 1)
  OBVIOUS
<1>2. PICK b : b = SubSeq(s, f + 1, Len(s))
  OBVIOUS
<1>3. a \in Seq(HashItems) /\ Len(a) = f - 1 /\ \A i \in 1 .. f - 1 : a[i] = s[i]
  BY <1>1
<1>4. b \in Seq(HashItems) /\ Len(b) = Len(s) - f /\ \A i \in 1 .. Len(s) - f : b[i] = s[f + i]
  BY <1>2
<1>5. Hash!Without(s, f) = a \o b
  BY <1>1, <1>2 DEF Hash!Without
<1>6. a \o b \in Seq(HashItems) /\ Len(a \o b) = Len(s) - 1
  BY <1>3, <1>4
<1>7. \A i \in 1 .. Len(s) - 1 : (a \o b)[i] = IF i < f THEN s[i] ELSE s[i + 1]
  <2> SUFFICES ASSUME NEW i \in 1 .. Len(s) - 1
               PROVE  (a \o b)[i] = IF i < f THEN s[i] ELSE s[i + 1]
    OBVIOUS
  <2>1. CASE i < f
    BY <2>1, <1>3, <1>4
  <2>2. CASE i >= f
    <3>1. i - (f - 1) \in 1 .. Len(s) - f
      BY <2>2
    <3>2. (a \o b)[i] = b[i - (f - 1)]
      BY <2>2, <1>3, <1>4
    <3>3. b[i - (f - 1)] = s[f + (i - (f - 1))]
      BY <3>1, <1>4
    <3>4. f + (i - (f - 1)) = i + 1 /\ ~(i < f)
      BY <2>2
    <3> QED BY <3>2, <3>3, <3>4
  <2>3. i < f \/ i >= f
    OBVIOUS
  <2> QED BY <2>1, <2>2, <2>3
<1> QED BY <1>5, <1>6, <1>7

LEMMA PutOther ==
    ASSUME NEW s \in Seq(HashItems), NEW e \in HashItems, NEW h, NEW v, e.key_hash # h
    PROVE  /\ NoneOf(s, h) => NoneOf(<<e>> \o s, h)
           /\ OneOf(s, h, v) => OneOf(<<e>> \o s, h, v)
<1> PICK t : t = <<e>> \o s
  OBVIOUS
<1> PICK n \in Nat : n = Len(s)
  OBVIOUS
<1>1. Len(t) = n + 1 /\ t[1] = e /\ \A i \in 2 .. n + 1 : t[i] = s[i - 1]
  BY PutInFront
<1>2. \A i \in 1 .. n : i + 1 \in 2 .. n + 1 /\ t[i + 1] = s[i]
  <2> TAKE i \in 1 .. n
  <2>1. i + 1 \in 2 .. n + 1 /\ (i + 1) - 1 = i
    OBVIOUS
  <2> QED BY <2>1, <1>1
<1>3. ASSUME NEW i \in 1 .. n + 1, t[i].key_hash = h
      PROVE  i - 1 \in 1 .. n /\ t[i] = s[i - 1]
  <2>1. i # 1
    BY <1>1, <1>3
  <2> QED BY <2>1, <1>1
<1>4. NoneOf(s, h) => NoneOf(t, h)
  BY <1>1, <1>3 DEF NoneOf
<1>5. NoneOf(t, h) => NoneOf(s, h)
  BY <1>1, <1>2 DEF NoneOf
<1>6. ASSUME OneOf(s, h, v), NEW i \in 1 .. n + 1, NEW j \in 1 .. n + 1,
             t[i].key_hash = h, t[j].key_hash = h
      PROVE  i = j
  <2>1. i - 1 \in 1 .. n /\ j - 1 \in 1 .. n /\ s[i - 1].key_hash = h /\ s[j - 1].key_hash = h
    BY <1>3, <1>6
  <2>2. i - 1 = j - 1
    BY <2>1, <1>6 DEF OneOf
  <2> QED BY <2>2
<1>7. ASSUME OneOf(s, h, v), NEW i \in 1 .. n + 1, t[i].key_hash = h
      PROVE  t[i].item = v
  BY <1>3, <1>7 DEF OneOf
<1> QED BY <1>1, <1>4, <1>5, <1>6, <1>7 DEF OneOf

LEMMA PutIt ==
    ASSUME NEW s \in Seq(HashItems), NEW e \in HashItems, NoneOf(s, e.key_hash)
    PROVE  OneOf(<<e>> \o s, e.key_hash, e.item)
<1> PICK t : t = <<e>> \o s
  OBVIOUS
<1> PICK n \in Nat : n = Len(s)
  OBVIOUS
<1>1. Len(t) = n + 1 /\ t[1] = e /\ \A i \in 2 .. n + 1 : t[i] = s[i - 1]
  BY PutInFront
<1>2. ASSUME NEW i \in 1 .. n + 1, t[i].key_hash = e.key_hash
      PROVE  i = 1
  <2>1. CASE i \in 2 .. n + 1
    <3>1. i - 1 \in 1 .. n /\ t[i] = s[i - 1]
      BY <2>1, <1>1
    <3> QED BY <3>1, <1>2 DEF NoneOf
  <2> QED BY <2>1
<1>3. 1 \in 1 .. n + 1
  OBVIOUS
<1> QED BY <1>1, <1>2, <1>3 DEF OneOf, NoneOf

LEMMA TookOut ==
    ASSUME NEW s \in Seq(HashItems), NEW f \in 1 .. Len(s), NEW h, NEW v
    PROVE  /\ NoneOf(s, h) => NoneOf(Hash!Without(s, f), h)
           /\ s[f].key_hash # h /\ OneOf(s, h, v) => OneOf(Hash!Without(s, f), h, v)
           /\ s[f].key_hash = h /\ OneOf(s, h, v) => OneOf(Hash!Without(s, f), h, Hash!Nothing)
<1> PICK t : t = Hash!Without(s, f)
  OBVIOUS
<1> PICK n \in Nat : n = Len(s)
  OBVIOUS
<1>1. Len(t) = n - 1 /\ \A i \in 1 .. n - 1 : t[i] = IF i < f THEN s[i] ELSE s[i + 1]
  BY TakenOut
<1>2. PICK g : g = [i \in 1 .. n - 1 |-> IF i < f THEN i ELSE i + 1]
  OBVIOUS
<1>3. \A i \in 1 .. n - 1 : g[i] \in 1 .. n /\ g[i] # f /\ t[i] = s[g[i]]
  BY <1>1, <1>2
<1>4. \A i, j \in 1 .. n - 1 : g[i] = g[j] => i = j
  BY <1>2
<1>5. \A k \in 1 .. n : k # f => \E i \in 1 .. n - 1 : g[i] = k
  <2> SUFFICES ASSUME NEW k \in 1 .. n, k # f PROVE \E i \in 1 .. n - 1 : g[i] = k
    OBVIOUS
  <2>1. CASE k < f
    BY <2>1, <1>2
  <2>2. CASE k > f
    <3>1. k - 1 \in 1 .. n - 1 /\ g[k - 1] = k
      BY <2>2, <1>2
    <3> QED BY <3>1
  <2> QED BY <2>1, <2>2
<1>6. NoneOf(s, h) => NoneOf(t, h)
  BY <1>1, <1>3 DEF NoneOf
<1>7. ASSUME OneOf(s, h, v)
      PROVE  /\ \A i, j \in 1 .. n - 1 : t[i].key_hash = h /\ t[j].key_hash = h => i = j
             /\ \A i \in 1 .. n - 1 : t[i].key_hash = h => t[i].item = v
  BY <1>3, <1>4, <1>7, SMTT(40) DEF OneOf
<1>8. ASSUME OneOf(s, h, v), s[f].key_hash # h
      PROVE  NoneOf(t, h) => v = Hash!Nothing
  <2>1. NoneOf(t, h) => NoneOf(s, h)
    <3> SUFFICES ASSUME NoneOf(t, h), NEW k \in 1 .. n PROVE s[k].key_hash # h
      BY DEF NoneOf
    <3>1. CASE k # f
      <4>1. PICK i \in 1 .. n - 1 : g[i] = k
        BY <3>1, <1>5
      <4> QED BY <4>1, <1>1, <1>3, ZenonT(60) DEF NoneOf
    <3> QED BY <3>1, <1>8
  <2> QED BY <2>1, <1>8 DEF OneOf
<1>9. ASSUME OneOf(s, h, v), s[f].key_hash = h
      PROVE  NoneOf(t, h)
  BY <1>1, <1>3, <1>9 DEF NoneOf, OneOf
<1> QED BY <1>1, <1>6, <1>7, <1>8, <1>9 DEF OneOf, NoneOf

LEMMA Revalued ==
    ASSUME NEW s \in Seq(HashItems), NEW f \in 1 .. Len(s), NEW w \in Stored,
           NEW h, NEW v
    PROVE  /\ [s EXCEPT ![f].item = w] \in Seq(HashItems)
           /\ NoneOf(s, h) => NoneOf([s EXCEPT ![f].item = w], h)
           /\ s[f].key_hash # h /\ OneOf(s, h, v) => OneOf([s EXCEPT ![f].item = w], h, v)
           /\ s[f].key_hash = h /\ OneOf(s, h, v) => OneOf([s EXCEPT ![f].item = w], h, w)
<1> PICK e : e = [s[f] EXCEPT !.item = w]
  OBVIOUS
<1> PICK t : t = [s EXCEPT ![f] = e]
  OBVIOUS
<1> PICK n \in Nat : n = Len(s)
  OBVIOUS
<1>1. s[f] \in HashItems
  OBVIOUS
<1>2. e \in HashItems /\ e.key_hash = s[f].key_hash /\ e.item = w
  BY <1>1 DEF HashItems
<1>3. t \in Seq(HashItems) /\ Len(t) = n
  BY <1>2
<1>4. \A i \in 1 .. n : t[i] = IF i = f THEN e ELSE s[i]
  OBVIOUS
<1>5. [s EXCEPT ![f].item = w] = t
  OBVIOUS
<1>6. \A i \in 1 .. n : t[i].key_hash = s[i].key_hash
  BY <1>2, <1>4
<1>7. \A i \in 1 .. n : t[i].item = IF i = f THEN w ELSE s[i].item
  BY <1>2, <1>4
<1> QED BY <1>3, <1>5, <1>6, <1>7 DEF OneOf, NoneOf

(* While the table is in use, a key whose Adds did not race has what was   *)
(* last added under it, and one that is being added has no item.           *)
HashTypeOK ==
    /\ list \in [Hash!Buckets -> Seq(HashItems)]
    /\ caller \in [HashUsers -> {Hash!Idle} \cup [key : Keys, val : Values]]
    /\ latest \in [Keys -> Latest]
    /\ raced \subseteq Keys /\ freed \in 0 .. bucket_cnt

KeyHolds(k) ==
    /\ OneOf(list[KeyBucket[k]], KeyHash[k], latest[k])
    /\ \A u \in HashUsers : caller[u].key = k =>
           /\ NoneOf(list[KeyBucket[k]], KeyHash[k])
           /\ \A o \in HashUsers : caller[o].key = k => o = u

HashInv ==
    /\ HashTypeOK
    /\ freed > 0 => \A u \in HashUsers : caller[u] = Hash!Idle
    /\ freed = 0 => \A k \in Keys \ raced : KeyHolds(k)

LEMMA KeyFacts ==
    /\ \A k \in Keys : KeyBucket[k] \in Hash!Buckets /\ KeyHash[k] \in {1, 2} /\ k # Null
    /\ \A k, q \in Keys : KeyBucket[k] = KeyBucket[q] /\ KeyHash[k] = KeyHash[q] => k = q
BY ContainersAssumption DEF KeyBucket, KeyHash, Hash!Buckets

LEMMA MatchesAre ==
    ASSUME HashTypeOK, NEW k \in Keys
    PROVE  Hash!Matches(k) = {i \in 1 .. Len(list[KeyBucket[k]]) :
                                 list[KeyBucket[k]][i].key_hash = KeyHash[k]}
<1>1. list[KeyBucket[k]] \in Seq(HashItems)
  BY KeyFacts DEF HashTypeOK
<1> QED BY <1>1 DEF Hash!Matches

LEMMA FirstIs ==
    ASSUME HashTypeOK, NEW k \in Keys, Hash!Matches(k) # {}
    PROVE  /\ Hash!First(k) \in 1 .. Len(list[KeyBucket[k]])
           /\ list[KeyBucket[k]][Hash!First(k)].key_hash = KeyHash[k]
<1>1. Hash!Matches(k) \subseteq Nat
  BY MatchesAre
<1>2. \E i \in Hash!Matches(k) : \A j \in Hash!Matches(k) : i <= j
  BY <1>1, NatMin
<1>3. Hash!First(k) \in Hash!Matches(k)
  BY <1>2 DEF Hash!First
<1> QED BY <1>3, MatchesAre

LEMMA NoMatch ==
    ASSUME HashTypeOK, NEW k \in Keys
    PROVE  Hash!Matches(k) = {} <=> NoneOf(list[KeyBucket[k]], KeyHash[k])
BY MatchesAre DEF NoneOf

(* Each step changes one bucket under the hash of one key, which the other *)
(* keys do not see: they have another bucket or another hash.              *)
LEMMA HashAddFinds ==
    ASSUME HashInv, NEW u \in HashUsers, NEW k \in Keys, NEW v \in Values, Hash!AddFind(u, k, v)
    PROVE  HashInv'
<1>1. caller[u] = Hash!Idle /\ freed = 0 /\ freed' = 0 /\ HashTypeOK /\ k # Null
  BY KeyFacts DEF Hash!AddFind, HashInv
<1>2. \A q \in Keys \ raced : KeyHolds(q)
  BY <1>1 DEF HashInv
<1>3. CASE Hash!Matches(k) = {}
  <2>1. /\ caller' = [caller EXCEPT ![u] = [key |-> k, val |-> v]]
        /\ raced' = IF \E o \in HashUsers : caller[o].key = k THEN raced \cup {k} ELSE raced
        /\ UNCHANGED <<list, latest>>
    BY <1>3 DEF Hash!AddFind
  <2>2. raced \subseteq raced' /\ raced' \subseteq Keys
    BY <1>1, <2>1 DEF HashTypeOK
  <2>3. HashTypeOK'
    <3>1. caller' \in [HashUsers -> {Hash!Idle} \cup [key : Keys, val : Values]]
      BY <1>1, <2>1 DEF HashTypeOK
    <3>2. Hash!Idle' = Hash!Idle /\ Hash!Buckets' = Hash!Buckets
      BY DEF Hash!Idle, Hash!Buckets
    <3> QED BY <3>1, <3>2, <1>1, <2>1, <2>2 DEF HashTypeOK
  <2>4. \A o \in HashUsers : caller'[o] = IF o = u THEN [key |-> k, val |-> v] ELSE caller[o]
    BY <1>1, <2>1 DEF HashTypeOK
  <2>5. ASSUME NEW q \in Keys \ raced' PROVE KeyHolds(q)'
    <3>1. KeyHolds(q)
      BY <2>5, <2>2, <1>2
    <3>2. CASE q = k
      <4>1. \A o \in HashUsers : caller[o].key # k
        BY <3>2, <2>1, <2>5
      <4>2. NoneOf(list[KeyBucket[k]], KeyHash[k])
        BY <1>1, <1>3, NoMatch
      <4>3. \A o \in HashUsers : caller'[o].key = k => o = u
        BY <4>1, <2>4
      <4> QED BY <3>1, <3>2, <4>2, <4>3, <2>1 DEF KeyHolds
    <3>3. CASE q # k
      <4>1. \A o \in HashUsers : caller'[o].key = q => caller[o].key = q
        BY <2>4, <3>3
      <4> QED BY <4>1, <3>1, <2>1 DEF KeyHolds
    <3> QED BY <3>2, <3>3
  <2> QED BY <1>1, <2>3, <2>5 DEF HashInv
<1>4. CASE Hash!Matches(k) # {}
  <2>1. PICK bytes \in Values \cup {Null} :
           /\ list' = [list EXCEPT ![KeyBucket[k]][Hash!First(k)].item.val = bytes]
           /\ latest' = [latest EXCEPT ![k].val = bytes]
           /\ UNCHANGED <<caller, raced>>
    BY <1>4 DEF Hash!AddFind
  <2>2. PICK b \in Hash!Buckets : b = KeyBucket[k]
    BY KeyFacts
  <2>3. PICK s \in Seq(HashItems) : s = list[b]
    BY <1>1 DEF HashTypeOK
  <2>4. PICK f \in 1 .. Len(s) : f = Hash!First(k) /\ s[f].key_hash = KeyHash[k]
    BY <1>1, <1>4, <2>2, <2>3, FirstIs
  <2>0. PICK kept \in Stored : kept = [s[f].item EXCEPT !.val = bytes]
    <3>1. s[f] \in HashItems
      OBVIOUS
    <3>2. s[f].item \in Stored
      BY <3>1 DEF HashItems
    <3>3. [s[f].item EXCEPT !.val = bytes] \in Stored
      BY <3>2 DEF Stored
    <3> QED BY <3>3
  <2>5. PICK t : t = [s EXCEPT ![f].item = kept]
    OBVIOUS
  <2>6. list' = [list EXCEPT ![b] = t]
    BY <2>0, <2>1, <2>2, <2>3, <2>4, <2>5
  <2>11. PICK held \in Latest : held = [latest[k] EXCEPT !.val = bytes]
    BY <1>1 DEF HashTypeOK, Latest, Stored, Hash!Nothing
  <2>7. t \in Seq(HashItems)
    BY <2>4, <2>5, Revalued
  <2>8. /\ \A c \in Hash!Buckets : list'[c] = IF c = b THEN t ELSE list[c]
        /\ \A q \in Keys : latest'[q] = IF q = k THEN held ELSE latest[q]
    BY <1>1, <2>1, <2>6, <2>11 DEF HashTypeOK
  <2>9. HashTypeOK'
    <3>1. list' \in [Hash!Buckets -> Seq(HashItems)] /\ latest' \in [Keys -> Latest]
      BY <1>1, <2>1, <2>6, <2>7, <2>11 DEF HashTypeOK
    <3>2. Hash!Idle' = Hash!Idle /\ Hash!Buckets' = Hash!Buckets
      BY DEF Hash!Idle, Hash!Buckets
    <3> QED BY <3>1, <3>2, <1>1, <2>1 DEF HashTypeOK
  <2>10. ASSUME NEW q \in Keys \ raced PROVE KeyHolds(q)'
    <3>1. KeyHolds(q)
      BY <2>10, <1>2
    <3>2. KeyBucket[q] \in Hash!Buckets
      BY KeyFacts
    <3>3. CASE KeyBucket[q] # b
      <4>1. list'[KeyBucket[q]] = list[KeyBucket[q]] /\ q # k /\ latest'[q] = latest[q]
        BY <3>2, <3>3, <2>2, <2>8
      <4> QED BY <4>1, <3>1, <2>1 DEF KeyHolds
    <3>4. CASE KeyBucket[q] = b /\ q # k
      <4>1. list'[KeyBucket[q]] = t /\ list[KeyBucket[q]] = s /\ latest'[q] = latest[q]
        BY <3>4, <2>3, <2>8
      <4>2. KeyHash[q] # s[f].key_hash
        BY <3>4, <2>2, <2>4, KeyFacts
      <4>3. /\ NoneOf(s, KeyHash[q]) => NoneOf(t, KeyHash[q])
            /\ OneOf(s, KeyHash[q], latest[q]) => OneOf(t, KeyHash[q], latest[q])
        BY <4>2, <2>4, <2>5, Revalued
      <4> QED BY <4>1, <4>3, <3>1, <2>1 DEF KeyHolds
    <3>5. CASE q = k
      <4>1. list'[KeyBucket[q]] = t /\ list[KeyBucket[q]] = s /\ latest'[q] = held
        BY <3>5, <2>2, <2>3, <2>8
      <4>2. /\ NoneOf(s, KeyHash[q]) => NoneOf(t, KeyHash[q])
            /\ OneOf(s, KeyHash[q], latest[q]) => OneOf(t, KeyHash[q], kept)
        BY <3>5, <2>4, <2>5, Revalued
      <4>3. OneOf(s, KeyHash[q], latest[q]) => kept = held
        BY <3>5, <2>0, <2>4, <2>11 DEF OneOf
      <4> QED BY <4>1, <4>2, <4>3, <3>1, <2>1 DEF KeyHolds
    <3> QED BY <3>3, <3>4, <3>5
  <2> QED BY <1>1, <2>1, <2>9, <2>10 DEF HashInv
<1> QED BY <1>3, <1>4

LEMMA HashAddInserts ==
    ASSUME HashInv, NEW u \in HashUsers, Hash!AddInsert(u)
    PROVE  HashInv'
<1>1. caller[u] # Hash!Idle /\ freed = 0 /\ freed' = 0 /\ raced' = raced /\ HashTypeOK
  BY DEF Hash!AddInsert, HashInv, HashTypeOK
<1>2. \A q \in Keys \ raced : KeyHolds(q)
  BY <1>1 DEF HashInv
<1>3. PICK k \in Keys, v \in Values : caller[u] = [key |-> k, val |-> v]
  BY <1>1, SMTT(40) DEF HashTypeOK
<1>4. caller' = [caller EXCEPT ![u] = Hash!Idle]
  BY DEF Hash!AddInsert
<1>5. \A o \in HashUsers : caller'[o] = IF o = u THEN Hash!Idle ELSE caller[o]
  BY <1>1, <1>4 DEF HashTypeOK
<1>6. \A q \in Keys, o \in HashUsers : caller'[o].key = q => o # u /\ caller[o].key = q
  BY <1>5, KeyFacts DEF Hash!Idle
<1>7. caller' \in [HashUsers -> {Hash!Idle} \cup [key : Keys, val : Values]]
  BY <1>1, <1>4 DEF HashTypeOK
<1>8. Hash!Idle' = Hash!Idle /\ Hash!Buckets' = Hash!Buckets
  BY DEF Hash!Idle, Hash!Buckets
<1>9. CASE UNCHANGED <<list, latest>>
  <2>1. HashTypeOK'
    BY <1>1, <1>7, <1>8, <1>9 DEF HashTypeOK
  <2>2. \A q \in Keys \ raced : KeyHolds(q)'
    BY <1>2, <1>6, <1>9 DEF KeyHolds
  <2> QED BY <2>1, <2>2, <1>1 DEF HashInv
<1>10. CASE ~UNCHANGED <<list, latest>>
  <2>0. PICK new : new = [val |-> v, val_len |-> v] /\ new \in Stored /\ new \in Latest
    <3>1. [val |-> v, val_len |-> v] \in Stored /\ [val |-> v, val_len |-> v] \in Latest
      BY DEF Stored, Latest
    <3> QED BY <3>1
  <2>1. PICK e : e = [key_hash |-> KeyHash[k], item |-> new]
    OBVIOUS
  <2>2. PICK b \in Hash!Buckets : b = KeyBucket[k]
    BY KeyFacts
  <2>3. PICK s \in Seq(HashItems) : s = list[b]
    BY <1>1 DEF HashTypeOK
  <2>4. PICK t : t = <<e>> \o s
    OBVIOUS
  <2>5. list' = [list EXCEPT ![b] = t] /\ latest' = [latest EXCEPT ![k] = new]
    BY <1>3, <1>10, <2>0, <2>1, <2>2, <2>3, <2>4 DEF Hash!AddInsert
  <2>6. e \in HashItems /\ e.key_hash = KeyHash[k] /\ e.item = new
    BY <2>0, <2>1, KeyFacts DEF HashItems
  <2>7. t \in Seq(HashItems)
    BY <2>4, <2>6, PutInFront
  <2>8. /\ \A c \in Hash!Buckets : list'[c] = IF c = b THEN t ELSE list[c]
        /\ \A q \in Keys : latest'[q] = IF q = k THEN new ELSE latest[q]
    BY <1>1, <2>5 DEF HashTypeOK
  <2>9. HashTypeOK'
    <3>1. list' \in [Hash!Buckets -> Seq(HashItems)] /\ latest' \in [Keys -> Latest]
      BY <1>1, <2>0, <2>5, <2>7 DEF HashTypeOK
    <3> QED BY <3>1, <1>1, <1>7, <1>8 DEF HashTypeOK
  <2>10. ASSUME NEW q \in Keys \ raced PROVE KeyHolds(q)'
    <3>1. KeyHolds(q)
      BY <2>10, <1>2
    <3>2. KeyBucket[q] \in Hash!Buckets
      BY KeyFacts
    <3>3. CASE KeyBucket[q] # b
      <4>1. list'[KeyBucket[q]] = list[KeyBucket[q]] /\ q # k /\ latest'[q] = latest[q]
        BY <3>2, <3>3, <2>2, <2>8
      <4> QED BY <4>1, <3>1, <1>6 DEF KeyHolds
    <3>4. CASE KeyBucket[q] = b /\ q # k
      <4>1. list'[KeyBucket[q]] = t /\ list[KeyBucket[q]] = s /\ latest'[q] = latest[q]
        BY <3>4, <2>3, <2>8
      <4>2. e.key_hash # KeyHash[q]
        BY <3>4, <2>2, <2>6, KeyFacts
      <4>3. /\ NoneOf(s, KeyHash[q]) => NoneOf(t, KeyHash[q])
            /\ OneOf(s, KeyHash[q], latest[q]) => OneOf(t, KeyHash[q], latest[q])
        BY <4>2, <2>4, <2>6, PutOther
      <4> QED BY <4>1, <4>3, <3>1, <1>6 DEF KeyHolds
    <3>5. CASE q = k
      <4>1. list'[KeyBucket[q]] = t /\ list[KeyBucket[q]] = s /\ latest'[q] = new
        BY <3>5, <2>2, <2>3, <2>8
      <4>2. caller[u].key = q
        BY <1>3, <3>5
      <4>3. NoneOf(s, e.key_hash)
        BY <3>1, <3>5, <4>1, <4>2, <2>6 DEF KeyHolds
      <4>4. OneOf(t, KeyHash[q], new)
        BY <4>3, <3>5, <2>4, <2>6, PutIt
      <4>5. \A o \in HashUsers : caller'[o].key # q
        BY <3>1, <4>2, <1>6 DEF KeyHolds
      <4> QED BY <4>1, <4>4, <4>5 DEF KeyHolds
    <3> QED BY <3>3, <3>4, <3>5
  <2> QED BY <1>1, <2>9, <2>10 DEF HashInv
<1> QED BY <1>9, <1>10, SMTT(40)

LEMMA HashDels ==
    ASSUME HashInv, NEW u \in HashUsers, NEW k \in Keys, Hash!Del(u, k)
    PROVE  HashInv'
<1>1. /\ Hash!Matches(k) # {} /\ freed = 0 /\ HashTypeOK
      /\ latest' = [latest EXCEPT ![k] = Hash!Nothing] /\ UNCHANGED <<caller, raced, freed>>
  BY DEF Hash!Del, HashInv
<1>2. \A q \in Keys \ raced : KeyHolds(q)
  BY <1>1 DEF HashInv
<1>3. PICK b \in Hash!Buckets : b = KeyBucket[k]
  BY KeyFacts
<1>4. PICK s \in Seq(HashItems) : s = list[b]
  BY <1>1 DEF HashTypeOK
<1>5. PICK f \in 1 .. Len(s) : f = Hash!First(k) /\ s[f].key_hash = KeyHash[k]
  BY <1>1, <1>3, <1>4, FirstIs
<1>6. PICK t : t = Hash!Without(s, f)
  OBVIOUS
<1>7. list' = [list EXCEPT ![b] = t]
  BY <1>3, <1>4, <1>5, <1>6 DEF Hash!Del, Hash!Without
<1>8. t \in Seq(HashItems)
  BY <1>5, <1>6, TakenOut
<1>9. /\ \A c \in Hash!Buckets : list'[c] = IF c = b THEN t ELSE list[c]
      /\ \A q \in Keys : latest'[q] = IF q = k THEN Hash!Nothing ELSE latest[q]
  BY <1>1, <1>7 DEF HashTypeOK
<1>10. HashTypeOK'
  <2>1. list' \in [Hash!Buckets -> Seq(HashItems)] /\ latest' \in [Keys -> Latest]
    BY <1>1, <1>7, <1>8 DEF HashTypeOK, Latest, Hash!Nothing
  <2>2. Hash!Idle' = Hash!Idle /\ Hash!Buckets' = Hash!Buckets
    BY DEF Hash!Idle, Hash!Buckets
  <2> QED BY <2>1, <2>2, <1>1 DEF HashTypeOK
<1>11. ASSUME NEW q \in Keys \ raced PROVE KeyHolds(q)'
  <2>1. KeyHolds(q)
    BY <1>11, <1>2
  <2>2. KeyBucket[q] \in Hash!Buckets
    BY KeyFacts
  <2>3. CASE KeyBucket[q] # b
    <3>1. list'[KeyBucket[q]] = list[KeyBucket[q]] /\ q # k /\ latest'[q] = latest[q]
      BY <2>2, <2>3, <1>3, <1>9
    <3> QED BY <3>1, <2>1, <1>1 DEF KeyHolds
  <2>4. CASE KeyBucket[q] = b /\ q # k
    <3>1. list'[KeyBucket[q]] = t /\ list[KeyBucket[q]] = s /\ latest'[q] = latest[q]
      BY <2>4, <1>4, <1>9
    <3>2. s[f].key_hash # KeyHash[q]
      BY <2>4, <1>3, <1>5, KeyFacts
    <3>3. /\ NoneOf(s, KeyHash[q]) => NoneOf(t, KeyHash[q])
          /\ OneOf(s, KeyHash[q], latest[q]) => OneOf(t, KeyHash[q], latest[q])
      BY <3>2, <1>5, <1>6, TookOut
    <3> QED BY <3>1, <3>3, <2>1, <1>1 DEF KeyHolds
  <2>5. CASE q = k
    <3>1. list'[KeyBucket[q]] = t /\ list[KeyBucket[q]] = s /\ latest'[q] = Hash!Nothing
      BY <2>5, <1>3, <1>4, <1>9
    <3>2. /\ NoneOf(s, KeyHash[q]) => NoneOf(t, KeyHash[q])
          /\ OneOf(s, KeyHash[q], latest[q]) => OneOf(t, KeyHash[q], Hash!Nothing)
      BY <2>5, <1>5, <1>6, TookOut
    <3> QED BY <3>1, <3>2, <2>1, <1>1 DEF KeyHolds
  <2> QED BY <2>3, <2>4, <2>5
<1> QED BY <1>1, <1>10, <1>11 DEF HashInv

LEMMA HashEnds ==
    ASSUME HashInv, Hash!HashDestroy
    PROVE  HashInv'
<1>1. /\ freed < bucket_cnt /\ freed' = freed + 1 /\ list' = [list EXCEPT ![freed] = <<>>]
      /\ \A u \in HashUsers : caller[u] = Hash!Idle
      /\ HashTypeOK /\ UNCHANGED <<caller, latest, raced>>
  BY DEF Hash!HashDestroy, HashInv
<1>2. freed \in Nat /\ freed' \in 0 .. bucket_cnt /\ freed' > 0 /\ freed' # 0
  BY <1>1, ContainersAssumption DEF HashTypeOK
<1>3. list' \in [Hash!Buckets -> Seq(HashItems)]
  <2>1. <<>> \in Seq(HashItems)
    OBVIOUS
  <2> QED BY <2>1, <1>1 DEF HashTypeOK
<1>4. Hash!Idle' = Hash!Idle /\ Hash!Buckets' = Hash!Buckets
  BY DEF Hash!Idle, Hash!Buckets
<1>5. HashTypeOK'
  BY <1>1, <1>2, <1>3, <1>4 DEF HashTypeOK
<1> QED BY <1>1, <1>2, <1>4, <1>5 DEF HashInv

(* HyHash: a key has at most one item, and a look-up finds what was last   *)
(* added under it, at the length its item was made with, unless two Adds   *)
(* of that key missed it together.                                         *)
THEOREM OneItemPerKey == Spec => []OneItemUnlessRaced
<1>1. Init => HashInv
  <2> SUFFICES ASSUME Hash!HashInit PROVE HashInv
    BY DEF Init
  <2>1. /\ list = [b \in Hash!Buckets |-> <<>>] /\ caller = [u \in HashUsers |-> Hash!Idle]
        /\ latest = [k \in Keys |-> Hash!Nothing] /\ raced = {} /\ freed = 0
    BY DEF Hash!HashInit
  <2>2. <<>> \in Seq(HashItems) /\ Len(<<>>) = 0
    OBVIOUS
  <2>3. HashTypeOK
    BY <2>1, <2>2, ContainersAssumption DEF HashTypeOK, Latest, Hash!Nothing
  <2>4. ASSUME NEW k \in Keys PROVE KeyHolds(k)
    <3>1. list[KeyBucket[k]] = <<>> /\ latest[k] = Hash!Nothing
      BY <2>1, KeyFacts
    <3>2. \A u \in HashUsers : caller[u].key # k
      BY <2>1, KeyFacts DEF Hash!Idle
    <3> QED BY <3>1, <3>2, <2>2 DEF KeyHolds, OneOf, NoneOf
  <2> QED BY <2>1, <2>3, <2>4 DEF HashInv
<1>2. HashInv /\ [Next]_containersVars => HashInv'
  <2> SUFFICES ASSUME HashInv, [Next]_containersVars PROVE HashInv'
    OBVIOUS
  <2>1. Hash!HashNext \/ UNCHANGED H
    BY DEF Next, containersVars
  <2>2. CASE UNCHANGED H
    BY <2>2 DEF H, HashInv, HashTypeOK, KeyHolds, Hash!Idle, Hash!Buckets
  <2>3. CASE Hash!HashNext
    BY <2>3, HashAddFinds, HashAddInserts, HashDels, HashEnds DEF Hash!HashNext
  <2> QED BY <2>1, <2>2, <2>3
<1>3. HashInv => OneItemUnlessRaced
  <2> SUFFICES ASSUME HashInv, freed = 0, NEW k \in Keys \ raced
               PROVE  /\ \A i, j \in Hash!Matches(k) : i = j
                      /\ Hash!PeekGet(k) = latest[k]
    BY DEF OneItemUnlessRaced, Hash!OneItemUnlessRaced
  <2>1. HashTypeOK /\ OneOf(list[KeyBucket[k]], KeyHash[k], latest[k])
    BY DEF HashInv, KeyHolds
  <2>2. \A i, j \in Hash!Matches(k) : i = j
    BY <2>1, MatchesAre DEF OneOf
  <2>3. CASE Hash!Matches(k) = {}
    <3>1. latest[k] = Hash!Nothing
      BY <2>1, <2>3, NoMatch DEF OneOf
    <3> QED BY <3>1, <2>2, <2>3 DEF Hash!PeekGet
  <2>4. CASE Hash!Matches(k) # {}
    <3>1. list[KeyBucket[k]][Hash!First(k)].item = latest[k]
      BY <2>1, <2>4, FirstIs DEF OneOf
    <3> QED BY <3>1, <2>2, <2>4 DEF Hash!PeekGet
  <2> QED BY <2>3, <2>4
<1> QED BY <1>1, <1>2, <1>3, PTL DEF Spec, containersVars

-----------------------------------------------------------------------------
(* HyDynamicArray.  Its lengths are taken modulo Word.                     *)
LEMMA USmall ==
    ASSUME NEW x \in Nat, x < Word
    PROVE  Array!U(x) = x
BY ContainersAssumption DEF Array!U

LEMMA URange ==
    ASSUME NEW x \in Int
    PROVE  Array!U(x) \in 0 .. Word - 1
BY ContainersAssumption DEF Array!U

LEMMA UNext ==
    ASSUME NEW x \in Nat, Array!U(x) + 1 < Word
    PROVE  Array!U(x + 1) = Array!U(x) + 1
BY ContainersAssumption DEF Array!U

LEMMA Aligned ==
    ASSUME NEW x \in Nat
    PROVE  Array!AlignUp4(x) \in Nat /\ x <= Array!AlignUp4(x) /\ Array!AlignUp4(x) <= x + 3
BY DEF Array!AlignUp4

LEMMA ZerosAre ==
    ASSUME NEW n \in Int
    PROVE  Array!Zeros(n) \in Seq(Nat) /\ Len(Array!Zeros(n)) = IF n > 0 THEN n ELSE 0
<1>1. CASE n > 0
  BY <1>1 DEF Array!Zeros
<1>2. CASE n <= 0
  <2>1. 1 .. n = 1 .. 0
    BY <1>2
  <2>2. Array!Zeros(n) = [i \in 1 .. 0 |-> 0]
    BY <2>1 DEF Array!Zeros
  <2> QED BY <2>2, <1>2
<1> QED BY <1>1, <1>2

(* memcpy of b to place w of memory m.                                     *)
CopyOf(r, m, b, w) == r = SubSeq(m, 1, w) \o b \o SubSeq(m, w + Len(b) + 1, Len(m))

HoldsCopy(r, m, b, w) ==
    /\ r \in Seq(Nat) /\ Len(r) = Len(m)
    /\ \A i \in 1 .. w : r[i] = m[i]
    /\ \A i \in 1 .. Len(b) : r[w + i] = b[i]

LEMMA Copied ==
    ASSUME NEW m \in Seq(Nat), NEW b \in Seq(Nat), NEW w \in Nat, w + Len(b) <= Len(m),
           NEW r, CopyOf(r, m, b, w)
    PROVE  HoldsCopy(r, m, b, w)
<1>0. Len(m) \in Nat /\ Len(b) \in Nat
  OBVIOUS
<1>1. PICK x : x = SubSeq(m, 1, w)
  OBVIOUS
<1>2. PICK z : z = SubSeq(m, w + Len(b) + 1, Len(m))
  OBVIOUS
<1>3. x \in Seq(Nat) /\ Len(x) = w /\ \A i \in 1 .. w : x[i] = m[i]
  BY <1>1
<1>4. z \in Seq(Nat) /\ Len(z) = Len(m) - (w + Len(b))
  BY <1>2
<1>5. PICK y : y = x \o b
  OBVIOUS
<1>6. /\ y \in Seq(Nat) /\ Len(y) = w + Len(b)
      /\ \A i \in 1 .. w : y[i] = x[i]
      /\ \A i \in 1 .. Len(b) : y[w + i] = b[i]
  BY <1>3, <1>5, Appended
<1>7. r = y \o z
  BY <1>1, <1>2, <1>5 DEF CopyOf
<1>8. /\ r \in Seq(Nat) /\ Len(r) = Len(m)
      /\ \A i \in 1 .. Len(y) : r[i] = y[i]
  <2>1. /\ y \o z \in Seq(Nat) /\ Len(y \o z) = Len(y) + Len(z)
        /\ \A i \in 1 .. Len(y) : (y \o z)[i] = y[i]
    BY <1>4, <1>6, Appended
  <2>2. Len(y) + Len(z) = Len(m)
    BY <1>0, <1>4, <1>6
  <2> QED BY <2>1, <2>2, <1>7
<1>9. \A i \in 1 .. w : i \in 1 .. Len(y)
  BY <1>0, <1>6
<1>10. \A i \in 1 .. Len(b) : w + i \in 1 .. Len(y)
  BY <1>0, <1>6
<1> QED BY <1>3, <1>6, <1>8, <1>9, <1>10 DEF HoldsCopy

LapseKinds == {"read", "limit", "short"}

ArrayTypeOK ==
    /\ mem \in Seq(Nat) /\ Len(mem) > 0 /\ Len(mem) <= max_len + 4
    /\ cur_len \in Nat /\ write_pos \in Nat /\ read_pos \in Nat /\ given \in Nat
    /\ want \in Seq(Nat) /\ lapse \subseteq LapseKinds

(* Where nothing lapsed the buffer starts at the first byte and has room   *)
(* for one more, so that what the lengths say of it is so.                 *)
ArrayInv ==
    /\ ArrayTypeOK
    /\ arrayEnd = "overrun" => lapse # {}
    /\ arrayEnd = "run" /\ lapse = {} => read_pos = 0 /\ cur_len < Len(mem)
    /\ arrayEnd = "run" /\ "short" \notin lapse =>
           /\ write_pos = read_pos + cur_len /\ write_pos <= Len(mem) /\ Len(want) = cur_len
           /\ \A i \in 1 .. cur_len : want[i] = mem[read_pos + i]

(* A copy of `bytes' into m, the memory as it was or longer, to where the  *)
(* array writes; `claim' of them count, and it owes `accepted' from now on.*)
(* It fits where nothing lapsed.                                           *)
Grown(m) ==
    /\ m \in Seq(Nat) /\ Len(mem) <= Len(m) /\ Len(m) <= max_len + 4
    /\ \A i \in 1 .. Len(mem) : m[i] = mem[i]

Owed(bytes, claim, accepted) ==
    /\ Len(accepted) = claim /\ claim <= Len(bytes)
    /\ \A i \in 1 .. claim : accepted[i] = bytes[i]

Fits(m, bytes, claim) == write_pos + Len(bytes) <= Len(m) /\ cur_len + claim < Len(m)

LEMMA ArrayStores ==
    ASSUME ArrayInv, arrayEnd = "run", given' \in Nat,
           NEW m, Grown(m), NEW bytes \in Seq(Nat), NEW claim \in Nat, NEW accepted \in Seq(Nat),
           NEW lapses \in SUBSET LapseKinds,
           Array!Stores(m, bytes, claim), Array!Accepts(accepted, lapses),
           "short" \notin lapse \cup lapses => Owed(bytes, claim, accepted),
           lapse \cup lapses = {} => Fits(m, bytes, claim)
    PROVE  ArrayInv'
<1>1. /\ mem \in Seq(Nat) /\ Len(mem) \in Nat /\ Len(mem) > 0 /\ Len(m) \in Nat /\ Len(bytes) \in Nat
      /\ cur_len \in Nat /\ write_pos \in Nat /\ read_pos \in Nat /\ want \in Seq(Nat)
      /\ Len(want) \in Nat /\ Len(accepted) \in Nat /\ lapse \subseteq LapseKinds
      /\ max_len \in Nat
      /\ m \in Seq(Nat) /\ Len(mem) <= Len(m) /\ Len(m) <= max_len + 4
  BY ContainersAssumption DEF ArrayInv, ArrayTypeOK, Grown
<1>2. /\ cur_len' = cur_len + claim /\ write_pos' = write_pos + claim /\ read_pos' = read_pos
      /\ want' = want \o accepted /\ lapse' = lapse \cup lapses
  BY DEF Array!Stores, Array!Accepts
<1>3. /\ want' \in Seq(Nat) /\ Len(want') = Len(want) + Len(accepted)
      /\ \A i \in 1 .. Len(want) : want'[i] = want[i]
      /\ \A i \in 1 .. Len(accepted) : want'[Len(want) + i] = accepted[i]
  <2>1. /\ want \o accepted \in Seq(Nat) /\ Len(want \o accepted) = Len(want) + Len(accepted)
        /\ \A i \in 1 .. Len(want) : (want \o accepted)[i] = want[i]
        /\ \A i \in 1 .. Len(accepted) : (want \o accepted)[Len(want) + i] = accepted[i]
    BY <1>1, Appended
  <2> QED BY <2>1, <1>2
<1>4. CASE write_pos + Len(bytes) > Len(m)
  <2>0. ~(write_pos + Len(bytes) <= Len(m))
    BY <1>1, <1>4
  <2>1. mem' = m /\ arrayEnd' = "overrun"
    BY <2>0 DEF Array!Stores
  <2>2. lapse' # {}
    BY <1>1, <1>2, <1>4, SMTT(40) DEF Fits
  <2>3. ArrayTypeOK'
    BY <2>1, <1>1, <1>2, <1>3, SMTT(40) DEF ArrayTypeOK
  <2> QED BY <2>1, <2>2, <2>3 DEF ArrayInv
<1>5. CASE write_pos + Len(bytes) <= Len(m)
  <2>1. PICK r : r = SubSeq(m, 1, write_pos) \o bytes
                       \o SubSeq(m, write_pos + Len(bytes) + 1, Len(m))
    OBVIOUS
  <2>2. mem' = r /\ arrayEnd' = arrayEnd
    BY <2>1, <1>5 DEF Array!Stores
  <2>3. /\ r \in Seq(Nat) /\ Len(r) = Len(m)
        /\ \A i \in 1 .. write_pos : r[i] = m[i]
        /\ \A i \in 1 .. Len(bytes) : r[write_pos + i] = bytes[i]
    <3>1. PICK w \in Nat : w = write_pos
      BY <1>1
    <3>2. w + Len(bytes) <= Len(m)
      BY <3>1, <1>5
    <3>3. CopyOf(r, m, bytes, w)
      BY <3>1, <2>1 DEF CopyOf
    <3>4. /\ r \in Seq(Nat) /\ Len(r) = Len(m)
          /\ \A i \in 1 .. w : r[i] = m[i]
          /\ \A i \in 1 .. Len(bytes) : r[w + i] = bytes[i]
      <4>1. m \in Seq(Nat)
        BY <1>1
      <4>2. HoldsCopy(r, m, bytes, w)
        BY <4>1, <3>2, <3>3, Copied
      <4> QED BY <4>2 DEF HoldsCopy
    <3> QED BY <3>1, <3>4
  <2>4. ArrayTypeOK'
    <3>1. mem' \in Seq(Nat) /\ Len(mem') > 0 /\ Len(mem') <= max_len + 4
      BY <2>2, <2>3, <1>1
    <3>2. cur_len' \in Nat /\ write_pos' \in Nat /\ read_pos' \in Nat /\ lapse' \subseteq LapseKinds
      BY <1>1, <1>2
    <3>3. want' \in Seq(Nat)
      BY <1>3
    <3> QED BY <3>1, <3>2, <3>3 DEF ArrayTypeOK
  <2>5. lapse' = {} => read_pos' = 0 /\ cur_len' < Len(mem')
    BY <2>2, <2>3, <1>1, <1>2 DEF ArrayInv, Fits
  <2>6. ASSUME "short" \notin lapse'
        PROVE  /\ write_pos' = read_pos' + cur_len' /\ write_pos' <= Len(mem')
               /\ Len(want') = cur_len'
               /\ \A i \in 1 .. cur_len' : want'[i] = mem'[read_pos' + i]
    <3>1. /\ write_pos = read_pos + cur_len /\ write_pos <= Len(mem) /\ Len(want) = cur_len
          /\ \A i \in 1 .. cur_len : want[i] = mem[read_pos + i]
          /\ Len(accepted) = claim /\ claim <= Len(bytes)
          /\ \A i \in 1 .. claim : accepted[i] = bytes[i]
          /\ \A i \in 1 .. Len(mem) : m[i] = mem[i]
      BY <2>6, <1>2 DEF ArrayInv, Owed, Grown
    <3>2. /\ write_pos' = read_pos' + cur_len' /\ write_pos' <= Len(mem')
          /\ Len(want') = cur_len'
      <4>1. /\ write_pos + Len(bytes) <= Len(m) /\ Len(m) = Len(mem')
            /\ claim \in Nat /\ claim <= Len(bytes)
            /\ Len(bytes) \in Nat /\ Len(m) \in Nat /\ write_pos \in Nat
            /\ cur_len \in Nat /\ read_pos \in Nat
        BY <3>1, <2>2, <2>3, <1>1, <1>5
      <4>2. /\ write_pos' = write_pos + claim /\ read_pos' = read_pos
            /\ cur_len' = cur_len + claim
        BY <1>2
      <4>3. write_pos = read_pos + cur_len
        BY <3>1
      <4>4. Len(want') = cur_len'
        BY <3>1, <1>2, <1>3
      <4>5. write_pos' = read_pos' + cur_len'
        BY <4>1, <4>2, <4>3
      <4>6. write_pos + claim <= Len(m)
        BY <4>1
      <4>7. write_pos' <= Len(mem')
        BY <4>1, <4>2, <4>6
      <4> QED BY <4>4, <4>5, <4>7
    <3>3. ASSUME NEW i \in 1 .. cur_len + claim
          PROVE  want'[i] = r[read_pos + i]
      <4>1. CASE i <= cur_len
        <5>0. write_pos = read_pos + cur_len /\ write_pos <= Len(mem)
          BY <3>1
        <5>1. i \in 1 .. cur_len /\ read_pos + i \in 1 .. write_pos /\ read_pos + i \in 1 .. Len(mem)
          <6>1. i \in Int /\ 1 <= i
            BY <1>1
          <6>2. /\ cur_len \in Nat /\ read_pos \in Nat /\ write_pos \in Nat /\ Len(mem) \in Nat
            BY <1>1
          <6> QED BY <6>1, <6>2, <4>1, <5>0
        <5> QED BY <5>1, <3>1, <2>3, <1>3
      <4>2. CASE i > cur_len
        <5>1. PICK j \in 1 .. claim : i = cur_len + j
          <6>1. i - cur_len \in 1 .. claim /\ i = cur_len + (i - cur_len)
            BY <4>2, <1>1
          <6> QED BY <6>1
        <5>2. j \in 1 .. Len(bytes) /\ read_pos + i = write_pos + j
          BY <5>1, <3>1, <1>1
        <5>3. want'[i] = accepted[j]
          BY <5>1, <3>1, <1>3
        <5>4. r[write_pos + j] = bytes[j]
          BY <5>2, <2>3
        <5> QED BY <5>2, <5>3, <5>4, <3>1
      <4> QED BY <4>1, <4>2, <1>1
    <3> QED BY <3>2, <3>3, <2>2, <1>2
  <2> QED BY <2>2, <2>4, <2>5, <2>6 DEF ArrayInv
<1> QED BY <1>1, <1>4, <1>5

LEMMA BytesAre ==
    ASSUME given \in Nat, NEW n \in Nat
    PROVE  Array!Bytes(n) \in Seq(Nat) /\ Len(Array!Bytes(n)) = n
BY DEF Array!Bytes

(* What a print leaves: with room for n characters all of them and a NUL,  *)
(* with less as many as there is room for.                                 *)
LEMMA PrintedIs ==
    ASSUME given \in Nat, NEW n \in Nat, NEW size \in Int
    PROVE  /\ Array!Printed(n, size) \in Seq(Nat)
           /\ n < size => Len(Array!Printed(n, size)) = n + 1
           /\ n < size => Owed(Array!Printed(n, size), n, Array!Bytes(n))
           /\ 0 <= size /\ size <= n => Len(Array!Printed(n, size)) = size
<1>1. Array!Zeros(1) \in Seq(Nat) /\ Len(Array!Zeros(1)) = 1
  <2>1. 1 \in Int /\ 1 > 0
    OBVIOUS
  <2>2. Array!Zeros(1) \in Seq(Nat) /\ Len(Array!Zeros(1)) = IF 1 > 0 THEN 1 ELSE 0
    BY <2>1, ZerosAre
  <2> QED BY <2>2
<1>2. ASSUME NEW k \in Nat
      PROVE  /\ Array!Bytes(k) \o Array!Zeros(1) \in Seq(Nat)
             /\ Len(Array!Bytes(k) \o Array!Zeros(1)) = k + 1
             /\ Owed(Array!Bytes(k) \o Array!Zeros(1), k, Array!Bytes(k))
  <2>1. PICK b \in Seq(Nat) : b = Array!Bytes(k) /\ Len(b) = k
    BY BytesAre
  <2>2. PICK z \in Seq(Nat) : z = Array!Zeros(1) /\ Len(z) = 1
    BY <1>1
  <2>3. /\ b \o z \in Seq(Nat) /\ Len(b \o z) = Len(b) + Len(z)
        /\ \A i \in 1 .. Len(b) : (b \o z)[i] = b[i]
    BY Appended
  <2>4. Owed(b \o z, k, b)
    BY <2>1, <2>2, <2>3 DEF Owed
  <2> QED BY <2>1, <2>2, <2>3, <2>4
<1>3. CASE size = 0
  BY <1>3 DEF Array!Printed
<1>4. CASE size < 0
  BY <1>4, <1>2 DEF Array!Printed
<1>5. CASE size > 0 /\ n < size
  <2>1. Array!Least(n, size - 1) = n
    BY <1>5 DEF Array!Least
  <2>2. Array!Printed(n, size) = Array!Bytes(n) \o Array!Zeros(1)
    BY <2>1, <1>5 DEF Array!Printed
  <2> QED BY <2>2, <1>2, <1>5
<1>6. CASE size > 0 /\ n >= size
  <2>1. size - 1 \in Nat /\ Array!Least(n, size - 1) = size - 1 /\ (size - 1) + 1 = size
    BY <1>6 DEF Array!Least
  <2>2. Array!Printed(n, size) = Array!Bytes(size - 1) \o Array!Zeros(1)
    BY <2>1, <1>6 DEF Array!Printed
  <2> QED BY <2>1, <2>2, <1>2, <1>6
<1> QED BY <1>3, <1>4, <1>5, <1>6

(* The array grows to room for `inc' more bytes and one, or to its limit.  *)
LEMMA ExtendedIs ==
    ASSUME ArrayTypeOK, NEW n \in ArrayLens, NEW inc \in Nat
    PROVE  /\ Grown(Array!Extended(inc).mem)
           /\ ~Array!Extended(inc).limit /\ Len(mem) + inc < Word =>
                  Len(mem) + inc < Len(Array!Extended(inc).mem)
<1>1. /\ mem \in Seq(Nat) /\ Len(mem) \in Nat /\ Len(mem) <= max_len + 4
      /\ max_len \in Nat /\ n \in Nat /\ Word \in Nat /\ max_len + n + 8 <= Word
  BY ContainersAssumption DEF ArrayTypeOK
<1>2. PICK x \in Nat : x = Len(mem) + inc
  BY <1>1
<1>3. PICK fits \in BOOLEAN : fits <=> Array!U(x) <= max_len
  OBVIOUS
<1>4. PICK size : size = IF fits THEN Array!AlignUp4(Array!U(x + 1)) ELSE max_len
  OBVIOUS
<1>5. PICK z : z = Array!Zeros(size - Len(mem))
  OBVIOUS
<1>6. Array!Extended(inc).mem = mem \o z /\ Array!Extended(inc).limit = ~fits
  <2>1. Array!len + inc = x /\ Array!len + inc + 1 = x + 1 /\ Array!len = Len(mem)
    BY <1>1, <1>2 DEF Array!len
  <2>2. Array!Extended(inc) = [mem |-> mem \o z, limit |-> ~fits]
    BY <2>1, <1>3, <1>4, <1>5 DEF Array!Extended
  <2> QED BY <2>2
<1>7. fits => /\ Array!U(x + 1) = Array!U(x) + 1 /\ Array!U(x) \in Nat
              /\ size \in Nat /\ Array!U(x) + 1 <= size /\ size <= max_len + 4
  <2> SUFFICES ASSUME fits
               PROVE  /\ Array!U(x + 1) = Array!U(x) + 1 /\ Array!U(x) \in Nat
                      /\ size \in Nat /\ Array!U(x) + 1 <= size /\ size <= max_len + 4
    OBVIOUS
  <2>1. PICK y \in Nat : y = Array!U(x) /\ y <= max_len
    BY <1>1, <1>3, URange
  <2>2. Array!U(x + 1) = y + 1
    BY <1>1, <2>1, UNext
  <2>3. size = Array!AlignUp4(y + 1)
    BY <2>2, <1>4
  <2>4. y + 1 \in Nat
    OBVIOUS
  <2>5. size \in Nat /\ y + 1 <= size /\ size <= (y + 1) + 3
    BY <2>3, <2>4, Aligned
  <2> QED BY <1>1, <2>1, <2>2, <2>5
<1>8. size \in Nat /\ size <= max_len + 4
  BY <1>1, <1>4, <1>7
<1>9. z \in Seq(Nat) /\ Len(z) = IF size > Len(mem) THEN size - Len(mem) ELSE 0
  <2>1. size - Len(mem) \in Int
    BY <1>1, <1>8
  <2>2. z \in Seq(Nat) /\ Len(z) = IF size - Len(mem) > 0 THEN size - Len(mem) ELSE 0
    BY <2>1, <1>5, ZerosAre
  <2> QED BY <2>2, <1>1, <1>8
<1>10. /\ mem \o z \in Seq(Nat) /\ Len(mem \o z) = Len(mem) + Len(z)
       /\ \A i \in 1 .. Len(mem) : (mem \o z)[i] = mem[i]
  BY <1>1, <1>9, Appended
<1>11. Len(mem \o z) <= max_len + 4 /\ Len(mem) <= Len(mem \o z) /\ size <= Len(mem \o z)
  BY <1>1, <1>8, <1>9, <1>10
<1>12. Grown(mem \o z)
  BY <1>10, <1>11 DEF Grown
<1>13. ASSUME fits, x < Word PROVE x < Len(mem \o z)
  <2>1. Array!U(x) = x
    BY <1>13, USmall
  <2>2. x + 1 <= size
    BY <2>1, <1>7, <1>13
  <2> QED BY <2>2, <1>8, <1>10, <1>11, <1>1
<1> QED BY <1>2, <1>6, <1>12, <1>13

(* What the array's state says of itself while it is in use.               *)
LEMMA ArrayFacts ==
    ASSUME ArrayInv, arrayEnd = "run", NEW n \in ArrayLens, given' = given + n
    PROVE  /\ mem \in Seq(Nat) /\ Len(mem) \in Nat /\ Len(mem) > 0 /\ Len(mem) <= max_len + 4
           /\ cur_len \in Nat /\ write_pos \in Nat /\ read_pos \in Nat /\ given \in Nat
           /\ want \in Seq(Nat) /\ lapse \subseteq LapseKinds
           /\ n \in Nat /\ given' \in Nat /\ max_len \in Nat /\ Word \in Nat /\ max_len + n + 8 <= Word
           /\ lapse = {} => read_pos = 0 /\ write_pos = cur_len /\ cur_len < Len(mem)
           /\ Array!len = Len(mem)
<1>1. mem \in Seq(Nat) /\ given \in Nat /\ n \in Nat
  BY ContainersAssumption DEF ArrayInv, ArrayTypeOK
<1> QED BY <1>1, ContainersAssumption DEF ArrayInv, ArrayTypeOK, Array!len

LEMMA GrownSelf ==
    ASSUME ArrayTypeOK
    PROVE  Grown(mem)
BY ContainersAssumption DEF Grown, ArrayTypeOK

LEMMA ArrayRefuses ==
    ASSUME ArrayInv, given' \in Nat, Array!Refuses
    PROVE  ArrayInv'
BY DEF ArrayInv, ArrayTypeOK, Array!Refuses

LEMMA ArrayWrites ==
    ASSUME ArrayInv, NEW n \in ArrayLens, Array!Write(n)
    PROVE  ArrayInv'
<1>1. arrayEnd = "run" /\ given' = given + n
  BY DEF Array!Write
<1>2. /\ mem \in Seq(Nat) /\ Len(mem) \in Nat /\ Len(mem) > 0 /\ Len(mem) <= max_len + 4
      /\ cur_len \in Nat /\ write_pos \in Nat /\ read_pos \in Nat /\ given \in Nat
      /\ want \in Seq(Nat) /\ lapse \subseteq LapseKinds
      /\ n \in Nat /\ given' \in Nat /\ max_len \in Nat /\ Word \in Nat /\ max_len + n + 8 <= Word
      /\ lapse = {} => read_pos = 0 /\ write_pos = cur_len /\ cur_len < Len(mem)
      /\ Array!len = Len(mem) /\ ArrayTypeOK
  BY <1>1, ArrayFacts DEF ArrayInv
<1>3. PICK free : free = Array!U(Len(mem) - cur_len)
  OBVIOUS
<1>4. PICK inc : inc = Array!U(n - free)
  OBVIOUS
<1>5. PICK new : new = Array!Extended(inc)
  OBVIOUS
<1>6. PICK kept : kept = Array!U(Len(new.mem) - cur_len - 3 - 1)
  OBVIOUS
<1>7. PICK bytes \in Seq(Nat) : bytes = Array!Bytes(n) /\ Len(bytes) = n
  BY <1>2, BytesAre
<1>8. free \in Nat /\ (lapse = {} => free = Len(mem) - cur_len)
  <2>1. Len(mem) - cur_len \in Int
    BY <1>2
  <2>2. free \in 0 .. Word - 1
    BY <2>1, <1>3, URange
  <2>3. ASSUME lapse = {} PROVE free = Len(mem) - cur_len
    <3>1. Len(mem) - cur_len \in Nat /\ Len(mem) - cur_len < Word
      BY <2>3, <1>2
    <3> QED BY <3>1, <1>3, USmall
  <2> QED BY <2>2, <2>3
<1>9. inc \in Nat /\ (free <= n => n - free \in Nat) /\ (free <= n => inc = n - free)
  <2>1. n - free \in Int
    BY <1>2, <1>8
  <2>2. inc \in 0 .. Word - 1
    BY <2>1, <1>4, URange
  <2>3. ASSUME free <= n PROVE n - free \in Nat /\ inc = n - free
    <3>1. n - free \in Nat /\ n - free < Word
      BY <2>3, <1>2, <1>8
    <3> QED BY <3>1, <1>4, USmall
  <2> QED BY <2>2, <2>3
<1>10. /\ Grown(new.mem)
       /\ ~new.limit /\ Len(mem) + inc < Word => Len(mem) + inc < Len(new.mem)
  BY <1>2, <1>5, <1>9, ExtendedIs
<1>11. new.mem \in Seq(Nat) /\ Len(new.mem) \in Nat
  BY <1>10 DEF Grown
<1>12. PICK c \in BOOLEAN : c <=> kept <= n
  OBVIOUS
<1>13. \/ free > n /\ Array!Stores(mem, bytes, n) /\ Array!Accepts(bytes, {})
       \/ Array!Refuses
       \/ /\ free <= n /\ ~new.limit
          /\ Array!Stores(new.mem, bytes, n) /\ Array!Accepts(bytes, {})
       \/ /\ Array!Stores(new.mem, Array!Bytes(kept) \o Array!Zeros(3), kept + 3)
          /\ Array!Accepts(Array!Bytes(kept) \o Array!Zeros(3), {"limit"})
       \/ /\ arrayEnd' = "overrun" /\ lapse' = lapse \cup {"limit"}
          /\ UNCHANGED <<mem, cur_len, write_pos, read_pos, want>>
  BY <1>2, <1>3, <1>4, <1>5, <1>6, <1>7 DEF Array!Write
<1>14. Owed(bytes, n, bytes)
  BY <1>2, <1>7 DEF Owed
<1>15. CASE free > n /\ Array!Stores(mem, bytes, n) /\ Array!Accepts(bytes, {})
  <2>1. lapse \cup {} = {} => Fits(mem, bytes, n)
    BY <1>2, <1>7, <1>8, <1>15 DEF Fits
  <2>2. Grown(mem) /\ {} \in SUBSET LapseKinds
    BY <1>2, GrownSelf
  <2> QED BY <2>1, <2>2, <1>1, <1>2, <1>14, <1>15, ArrayStores
<1>16. CASE Array!Refuses
  BY <1>2, <1>16, ArrayRefuses
<1>17. CASE free <= n /\ ~new.limit /\ Array!Stores(new.mem, bytes, n) /\ Array!Accepts(bytes, {})
  <2>1. ASSUME lapse = {} PROVE Fits(new.mem, bytes, n)
    <3>1. inc = n - free /\ free = Len(mem) - cur_len
      BY <2>1, <1>8, <1>9, <1>17
    <3>2. Len(mem) + inc = cur_len + n
      BY <3>1, <1>2
    <3>3. cur_len + n < Word
      BY <2>1, <1>2
    <3>4. cur_len + n < Len(new.mem)
      BY <3>2, <3>3, <1>10, <1>17
    <3> QED BY <3>4, <2>1, <1>2, <1>7, <1>11 DEF Fits
  <2>2. {} \in SUBSET LapseKinds /\ lapse \cup {} = lapse
    OBVIOUS
  <2> QED BY <2>1, <2>2, <1>1, <1>2, <1>10, <1>14, <1>17, ArrayStores
<1>18. CASE /\ Array!Stores(new.mem, Array!Bytes(kept) \o Array!Zeros(3), kept + 3)
            /\ Array!Accepts(Array!Bytes(kept) \o Array!Zeros(3), {"limit"})
  <2>1. kept \in Nat
    <3>1. Len(new.mem) - cur_len - 3 - 1 \in Int
      BY <1>2, <1>11
    <3>2. kept \in 0 .. Word - 1
      BY <3>1, <1>6, URange
    <3> QED BY <3>2
  <2>2. PICK b \in Seq(Nat) : b = Array!Bytes(kept) /\ Len(b) = kept
    BY <2>1, <1>2, BytesAre
  <2>3. PICK z \in Seq(Nat) : z = Array!Zeros(3) /\ Len(z) = 3
    <3>1. 3 \in Int /\ 3 > 0
      OBVIOUS
    <3>2. Array!Zeros(3) \in Seq(Nat) /\ Len(Array!Zeros(3)) = IF 3 > 0 THEN 3 ELSE 0
      BY <3>1, ZerosAre
    <3> QED BY <3>2
  <2>4. PICK cut : cut = b \o z
    OBVIOUS
  <2>5. cut \in Seq(Nat) /\ Len(cut) = kept + 3
    <3>1. b \o z \in Seq(Nat) /\ Len(b \o z) = Len(b) + Len(z)
      BY <2>2, <2>3, Appended
    <3> QED BY <3>1, <2>2, <2>3, <2>4
  <2>6. Owed(cut, kept + 3, cut) /\ kept + 3 \in Nat
    BY <2>1, <2>5 DEF Owed
  <2>7. {"limit"} \in SUBSET LapseKinds /\ lapse \cup {"limit"} # {}
    BY DEF LapseKinds
  <2>8. Array!Stores(new.mem, cut, kept + 3) /\ Array!Accepts(cut, {"limit"})
    BY <2>2, <2>3, <2>4, <1>18
  <2> QED BY <2>5, <2>6, <2>7, <2>8, <1>1, <1>2, <1>10, ArrayStores
<1>19. CASE /\ arrayEnd' = "overrun" /\ lapse' = lapse \cup {"limit"}
            /\ UNCHANGED <<mem, cur_len, write_pos, read_pos, want>>
  <2>1. lapse' # {} /\ lapse' \subseteq LapseKinds
    BY <1>2, <1>19 DEF LapseKinds
  <2> QED BY <2>1, <1>2, <1>19 DEF ArrayInv, ArrayTypeOK
<1> QED BY <1>13, <1>15, <1>16, <1>17, <1>18, <1>19

LEMMA ArrayPrints ==
    ASSUME ArrayInv, NEW n \in ArrayLens, Array!WriteVprintf(n)
    PROVE  ArrayInv'
<1>1. arrayEnd = "run" /\ given' = given + n
  BY DEF Array!WriteVprintf
<1>2. /\ mem \in Seq(Nat) /\ Len(mem) \in Nat /\ Len(mem) > 0 /\ Len(mem) <= max_len + 4
      /\ cur_len \in Nat /\ write_pos \in Nat /\ read_pos \in Nat /\ given \in Nat
      /\ want \in Seq(Nat) /\ lapse \subseteq LapseKinds
      /\ n \in Nat /\ given' \in Nat /\ max_len \in Nat /\ Word \in Nat /\ max_len + n + 8 <= Word
      /\ lapse = {} => read_pos = 0 /\ write_pos = cur_len /\ cur_len < Len(mem)
      /\ Array!len = Len(mem) /\ ArrayTypeOK
  BY <1>1, ArrayFacts DEF ArrayInv
<1>3. PICK free \in Int : free = Len(mem) - cur_len - 1
  <2>1. Len(mem) - cur_len - 1 \in Int
    BY <1>2
  <2> QED BY <2>1
<1>4. PICK inc : inc = Array!U(n - Array!U(Len(mem) - cur_len))
  OBVIOUS
<1>5. PICK new : new = Array!Extended(inc)
  OBVIOUS
<1>6. inc \in Nat
  <2>1. Len(mem) - cur_len \in Int
    BY <1>2
  <2>2. PICK u \in 0 .. Word - 1 : u = Array!U(Len(mem) - cur_len)
    BY <2>1, URange
  <2>3. n - u \in Int
    BY <2>2, <1>2
  <2>4. inc \in 0 .. Word - 1
    BY <2>2, <2>3, <1>4, URange
  <2> QED BY <2>4
<1>7. Grown(new.mem)
  BY <1>2, <1>5, <1>6, ExtendedIs
<1>8. new.mem \in Seq(Nat) /\ Len(new.mem) \in Nat
  BY <1>7 DEF Grown
<1>9. PICK more \in Int : more = Len(new.mem) - cur_len - 1
  <2>1. Len(new.mem) - cur_len - 1 \in Int
    BY <1>2, <1>8
  <2> QED BY <2>1
<1>10. PICK bytes \in Seq(Nat) : bytes = Array!Bytes(n) /\ Len(bytes) = n
  BY <1>2, BytesAre
<1>11. PICK p \in Seq(Nat) :
          /\ p = Array!Printed(n, free)
          /\ n < free => Len(p) = n + 1 /\ Owed(p, n, bytes)
          /\ 0 <= free /\ free <= n => Len(p) = free
  BY <1>2, <1>10, PrintedIs
<1>12. PICK q \in Seq(Nat) :
          /\ q = Array!Printed(n, more)
          /\ n < more => Len(q) = n + 1 /\ Owed(q, n, bytes)
  BY <1>2, <1>10, PrintedIs
<1>13. PICK lapses : lapses = IF n >= more THEN {"short"} ELSE {}
  OBVIOUS
<1>14. \/ n < free /\ Array!Stores(mem, p, n) /\ Array!Accepts(bytes, {})
       \/ n >= free /\ Array!Stores(mem, p, 0) /\ Array!Accepts(<<>>, {})
       \/ Array!Stores(new.mem, q, n) /\ Array!Accepts(bytes, lapses)
  BY <1>2, <1>3, <1>4, <1>5, <1>9, <1>10, <1>11, <1>12, <1>13 DEF Array!WriteVprintf
<1>15. Grown(mem) /\ {} \in SUBSET LapseKinds /\ lapse \cup {} = lapse
  BY <1>2, GrownSelf
<1>16. CASE n < free /\ Array!Stores(mem, p, n) /\ Array!Accepts(bytes, {})
  <2>1. lapse = {} => Fits(mem, p, n)
    <3>1. n < free /\ Len(p) = n + 1
      BY <1>11, <1>16
    <3>2. PICK l \in Nat : l = Len(mem) /\ free = l - cur_len - 1
      BY <1>2, <1>3
    <3>3. cur_len + (n + 1) <= l /\ cur_len + n < l
      <4>1. n \in Nat /\ cur_len \in Nat
        BY <1>2
      <4> QED BY <4>1, <3>1, <3>2
    <3>4. lapse = {} => write_pos = cur_len
      BY <1>2
    <3> QED BY <3>1, <3>2, <3>3, <3>4 DEF Fits
  <2>2. Owed(p, n, bytes)
    BY <1>11, <1>16
  <2> QED BY <2>1, <2>2, <1>1, <1>2, <1>15, <1>16, ArrayStores
<1>17. CASE n >= free /\ Array!Stores(mem, p, 0) /\ Array!Accepts(<<>>, {})
  <2>1. ASSUME lapse = {} PROVE Fits(mem, p, 0)
    <3>1. 0 <= free /\ free <= n /\ Len(p) = free
      BY <2>1, <1>2, <1>3, <1>11, <1>17, SMTT(40)
    <3> QED BY <3>1, <2>1, <1>2, <1>3 DEF Fits
  <2>2. <<>> \in Seq(Nat) /\ 0 \in Nat
    OBVIOUS
  <2>3. Owed(p, 0, <<>>)
    BY DEF Owed
  <2> QED BY <2>1, <2>2, <2>3, <1>1, <1>2, <1>15, <1>17, ArrayStores
<1>18. CASE Array!Stores(new.mem, q, n) /\ Array!Accepts(bytes, lapses)
  <2>1. lapses \in SUBSET LapseKinds
    BY <1>13 DEF LapseKinds
  <2>2. n < more \/ "short" \in lapses
    BY <1>2, <1>9, <1>13
  <2>3. n < more => Owed(q, n, bytes) /\ (lapse = {} => Fits(new.mem, q, n))
    <3> SUFFICES ASSUME n < more
                 PROVE  Owed(q, n, bytes) /\ (lapse = {} => Fits(new.mem, q, n))
      OBVIOUS
    <3>1. Len(q) = n + 1 /\ Owed(q, n, bytes)
      BY <1>12
    <3>2. PICK l \in Nat : l = Len(new.mem) /\ more = l - cur_len - 1
      BY <1>8, <1>9
    <3>3. cur_len + (n + 1) <= l /\ cur_len + n < l
      <4>1. n \in Nat /\ cur_len \in Nat
        BY <1>2
      <4> QED BY <4>1, <3>2
    <3>4. lapse = {} => write_pos = cur_len
      BY <1>2
    <3>5. lapse = {} => Fits(new.mem, q, n)
      BY <3>1, <3>2, <3>3, <3>4 DEF Fits
    <3> QED BY <3>1, <3>5
  <2>4. "short" \notin lapse \cup lapses => Owed(q, n, bytes)
    BY <2>2, <2>3
  <2>5. lapse \cup lapses = {} => Fits(new.mem, q, n)
    BY <2>2, <2>3
  <2> QED BY <2>1, <2>4, <2>5, <1>1, <1>2, <1>7, <1>18, ArrayStores
<1> QED BY <1>14, <1>16, <1>17, <1>18

LEMMA ArrayReads ==
    ASSUME ArrayInv, NEW n \in ArrayLens, Array!Read(n)
    PROVE  ArrayInv'
<1>1. /\ arrayEnd = "run" /\ n \in Nat /\ ArrayTypeOK
      /\ mem \in Seq(Nat) /\ Len(mem) \in Nat /\ Len(mem) > 0 /\ Len(mem) <= max_len + 4
      /\ cur_len \in Nat /\ write_pos \in Nat /\ read_pos \in Nat /\ given \in Nat
      /\ want \in Seq(Nat) /\ Len(want) \in Nat /\ lapse \subseteq LapseKinds
  BY ContainersAssumption DEF Array!Read, ArrayInv, ArrayTypeOK
<1>2. PICK k \in 0 .. cur_len : k = Array!Least(n, cur_len)
  BY <1>1 DEF Array!Least
<1>3. /\ read_pos' = read_pos + k /\ cur_len' = cur_len - k
      /\ want' = SubSeq(want, k + 1, Len(want)) /\ lapse' = lapse \cup {"read"}
      /\ UNCHANGED <<mem, write_pos, given, arrayEnd>>
  BY <1>2 DEF Array!Read
<1>4. k \in Nat /\ cur_len - k \in Nat
  BY <1>1, <1>2
<1>5. want' \in Seq(Nat)
  BY <1>1, <1>3, <1>4
<1>6. lapse' # {} /\ lapse' \subseteq LapseKinds
  BY <1>1, <1>3 DEF LapseKinds
<1>7. ArrayTypeOK'
  BY <1>1, <1>3, <1>4, <1>5, <1>6 DEF ArrayTypeOK
<1>8. ASSUME "short" \notin lapse'
      PROVE  /\ write_pos' = read_pos' + cur_len' /\ write_pos' <= Len(mem')
             /\ Len(want') = cur_len'
             /\ \A i \in 1 .. cur_len' : want'[i] = mem'[read_pos' + i]
  <2>1. /\ write_pos = read_pos + cur_len /\ write_pos <= Len(mem) /\ Len(want) = cur_len
        /\ \A i \in 1 .. cur_len : want[i] = mem[read_pos + i]
    BY <1>1, <1>3, <1>8 DEF ArrayInv
  <2>2. Len(want') = cur_len - k /\ \A i \in 1 .. cur_len - k : want'[i] = want[k + i]
    <3>1. PICK w, l : w = want /\ l = cur_len
      OBVIOUS
    <3>2. w \in Seq(Nat) /\ Len(w) = l /\ l \in Nat /\ k \in 0 .. l
      BY <3>1, <2>1, <1>1
    <3>3. /\ Len(SubSeq(w, k + 1, l)) = l - k
          /\ \A i \in 1 .. l - k : SubSeq(w, k + 1, l)[i] = w[k + i]
      BY <3>2, SMTT(40)
    <3>4. want' = SubSeq(w, k + 1, l)
      BY <3>1, <3>2, <1>3
    <3> QED BY <3>1, <3>3, <3>4
  <2>3. ASSUME NEW i \in 1 .. cur_len - k PROVE want'[i] = mem[(read_pos + k) + i]
    <3>1. k + i \in 1 .. cur_len /\ read_pos + (k + i) = (read_pos + k) + i
      BY <1>1, <1>4
    <3> QED BY <3>1, <2>1, <2>2
  <2>4. write_pos' = read_pos' + cur_len' /\ write_pos' <= Len(mem') /\ Len(want') = cur_len'
    BY <2>1, <2>2, <1>1, <1>3, <1>4
  <2>5. \A i \in 1 .. cur_len' : want'[i] = mem'[read_pos' + i]
    BY <2>3, <1>3
  <2> QED BY <2>4, <2>5
<1> QED BY <1>1, <1>3, <1>6, <1>7, <1>8 DEF ArrayInv

LEMMA ArrayResets ==
    ASSUME ArrayInv, Array!ArrayReset
    PROVE  ArrayInv'
<1>1. /\ mem \in Seq(Nat) /\ Len(mem) \in Nat /\ Len(mem) > 0 /\ Len(mem) <= max_len + 4
      /\ given \in Nat /\ arrayEnd = "run" /\ arrayEnd' = "run" /\ Array!len = Len(mem)
  BY DEF Array!ArrayReset, ArrayInv, ArrayTypeOK, Array!len
<1>2. /\ mem' = Array!Zeros(Len(mem)) /\ cur_len' = 0 /\ write_pos' = 0 /\ read_pos' = 0
      /\ want' = <<>> /\ lapse' = {} /\ given' = given
  BY <1>1 DEF Array!ArrayReset
<1>3. mem' \in Seq(Nat) /\ Len(mem') = Len(mem)
  BY <1>1, <1>2, ZerosAre
<1>4. want' \in Seq(Nat) /\ Len(want') = 0
  BY <1>2
<1> QED BY <1>1, <1>2, <1>3, <1>4 DEF ArrayInv, ArrayTypeOK

(* HyDynamicArray: until a print is short of space the array holds the     *)
(* bytes it accepted, in order, and it never writes outside its memory     *)
(* where nothing was read, no limit met and no print short.                *)
THEOREM AcceptedIsKept == Spec => []KeepsWhatItAccepts
<1>1. Init => ArrayInv
  <2> SUFFICES ASSUME Array!ArrayInit PROVE ArrayInv
    BY DEF Init
  <2>1. /\ mem = Array!Zeros(min_len) /\ cur_len = 0 /\ write_pos = 0 /\ read_pos = 0
        /\ given = 0 /\ want = <<>> /\ lapse = {} /\ arrayEnd = "run"
    BY DEF Array!ArrayInit
  <2>2. mem \in Seq(Nat) /\ Len(mem) = min_len
    BY <2>1, ZerosAre, ContainersAssumption
  <2>3. want \in Seq(Nat) /\ Len(want) = 0
    BY <2>1
  <2> QED BY <2>1, <2>2, <2>3, ContainersAssumption DEF ArrayInv, ArrayTypeOK
<1>2. ArrayInv /\ [Next]_containersVars => ArrayInv'
  <2> SUFFICES ASSUME ArrayInv, [Next]_containersVars PROVE ArrayInv'
    OBVIOUS
  <2>1. Array!ArrayNext \/ UNCHANGED A
    BY DEF Next, containersVars
  <2>2. CASE UNCHANGED A
    BY <2>2 DEF A, ArrayInv, ArrayTypeOK
  <2>3. CASE Array!ArrayNext
    <3>1. CASE Array!ArrayDestroy
      BY <3>1 DEF Array!ArrayDestroy, ArrayInv, ArrayTypeOK
    <3>2. CASE Array!ArrayReset
      BY <3>2, ArrayResets
    <3>3. ASSUME NEW n \in ArrayLens, Array!Write(n) \/ Array!WriteVprintf(n) \/ Array!Read(n)
          PROVE  ArrayInv'
      BY <3>3, ArrayWrites, ArrayPrints, ArrayReads
    <3> QED BY <2>3, <3>1, <3>2, <3>3 DEF Array!ArrayNext
  <2> QED BY <2>1, <2>2, <2>3
<1>3. ArrayInv => KeepsWhatItAccepts
  <2> SUFFICES ASSUME ArrayInv, arrayEnd = "run", "short" \notin lapse
               PROVE  want = SubSeq(mem, read_pos + 1, read_pos + cur_len)
    BY DEF KeepsWhatItAccepts, Array!KeepsWhatItAccepts, ArrayInv
  <2>1. /\ mem \in Seq(Nat) /\ Len(mem) \in Nat /\ read_pos \in Nat /\ cur_len \in Nat
        /\ want \in Seq(Nat) /\ Len(want) = cur_len /\ read_pos + cur_len <= Len(mem)
        /\ \A i \in 1 .. cur_len : want[i] = mem[read_pos + i]
    BY DEF ArrayInv, ArrayTypeOK
  <2>2. PICK r : r = SubSeq(mem, read_pos + 1, read_pos + cur_len)
    OBVIOUS
  <2>3. r \in Seq(Nat) /\ Len(r) = cur_len /\ \A i \in 1 .. cur_len : r[i] = mem[read_pos + i]
    <3>1. PICK lo \in Nat : lo = read_pos + 1
      BY <2>1
    <3>2. PICK hi \in Nat : hi = read_pos + cur_len
      BY <2>1
    <3>3. r \in Seq(Nat) /\ Len(r) = IF lo <= hi THEN hi - lo + 1 ELSE 0
      BY <2>1, <2>2, <3>1, <3>2, SMTT(40)
    <3>4. \A i \in 1 .. hi - lo + 1 : r[i] = mem[lo + i - 1]
      BY <2>1, <2>2, <3>1, <3>2
    <3>5. hi - lo + 1 = cur_len
      BY <2>1, <3>1, <3>2
    <3>6. \A i \in 1 .. cur_len : lo + i - 1 = read_pos + i
      BY <2>1, <3>1
    <3>7. Len(r) = cur_len
      BY <2>1, <3>3, <3>5
    <3> QED BY <3>3, <3>4, <3>5, <3>6, <3>7
  <2>4. want = r
    <3>1. \A i \in 1 .. cur_len : want[i] = r[i]
      BY <2>1, <2>3
    <3>2. want = [i \in 1 .. cur_len |-> want[i]] /\ r = [i \in 1 .. cur_len |-> r[i]]
      BY <2>1, <2>3
    <3> QED BY <3>1, <3>2
  <2> QED BY <2>2, <2>4
<1> QED BY <1>1, <1>2, <1>3, PTL DEF Spec, containersVars

-----------------------------------------------------------------------------
(* HyAtUtils.  What the modem has sent and the engine has not yet taken is *)
(* one stream; the engine takes from its front and the modem adds whole    *)
(* texts at its end.                                                       *)
Kinds == {"ok", "error", "ready", "busy", "send", "closed", "signal", "ipd"}
Piece == (Kinds \X {1, 2}) \cup {<<"len", 3>>, <<"data", 0>>}
Stream == fifo \o air

DropOf(t, s, n) ==
    /\ t \in Seq(Piece) /\ s \in Seq(Piece) /\ n \in 0 .. Len(s) /\ Len(t) = Len(s) - n
    /\ \A i \in 1 .. Len(t) : t[i] = s[i + n]

AddOf(t, s, x) ==
    /\ t \in Seq(Piece) /\ s \in Seq(Piece) /\ x \in Seq(Piece) /\ Len(t) = Len(s) + Len(x)
    /\ \A i \in 1 .. Len(s) : t[i] = s[i]
    /\ \A i \in 1 .. Len(x) : t[Len(s) + i] = x[i]

LEMMA Joins ==
    ASSUME NEW f \in Seq(Piece), NEW a \in Seq(Piece)
    PROVE  AddOf(f \o a, f, a)
<1>1. f \o a \in Seq(Piece) /\ Len(f \o a) = Len(f) + Len(a)
  OBVIOUS
<1>2. \A i \in 1 .. Len(f) : (f \o a)[i] = f[i]
  OBVIOUS
<1>3. \A i \in 1 .. Len(a) : (f \o a)[Len(f) + i] = a[i]
  OBVIOUS
<1> QED BY <1>1, <1>2, <1>3 DEF AddOf

LEMMA Drops ==
    ASSUME NEW f \in Seq(Piece), NEW a \in Seq(Piece), NEW n \in 0 .. Len(f)
    PROVE  /\ SubSeq(f, n + 1, Len(f)) \in Seq(Piece)
           /\ DropOf(SubSeq(f, n + 1, Len(f)) \o a, f \o a, n)
<1> DEFINE g == SubSeq(f, n + 1, Len(f))
           t == g \o a
           s == f \o a
<1>1. g \in Seq(Piece) /\ Len(g) = Len(f) - n /\ \A i \in 1 .. Len(g) : g[i] = f[i + n]
  OBVIOUS
<1> HIDE DEF g
<1>2. AddOf(t, g, a) /\ AddOf(s, f, a)
  BY <1>1, Joins
<1> HIDE DEF t, s
<1>3. /\ t \in Seq(Piece) /\ s \in Seq(Piece)
      /\ Len(s) = Len(f) + Len(a) /\ Len(t) = Len(g) + Len(a)
  BY <1>2 DEF AddOf
<1>4. Len(f) \in Nat /\ Len(a) \in Nat /\ Len(g) \in Nat
  BY <1>1
<1>5. ASSUME NEW i \in 1 .. Len(t) PROVE t[i] = s[i + n]
  <2>1. CASE i <= Len(g)
    <3>1. i \in 1 .. Len(g) /\ i + n \in 1 .. Len(f)
      BY <2>1, <1>1, <1>4
    <3>2. t[i] = g[i] /\ s[i + n] = f[i + n]
      BY <3>1, <1>2 DEF AddOf
    <3> QED BY <3>1, <3>2, <1>1
  <2>2. CASE i > Len(g)
    <3>1. PICK j \in 1 .. Len(a) : i = Len(g) + j
      <4>1. i - Len(g) \in 1 .. Len(a) /\ i = Len(g) + (i - Len(g))
        BY <2>2, <1>3, <1>4
      <4> QED BY <4>1
    <3>2. i + n = Len(f) + j
      BY <3>1, <1>1, <1>4
    <3>3. t[Len(g) + j] = a[j] /\ s[Len(f) + j] = a[j]
      BY <1>2 DEF AddOf
    <3> QED BY <3>1, <3>2, <3>3
  <2> QED BY <2>1, <2>2, <1>4
<1>6. n \in 0 .. Len(s) /\ Len(t) = Len(s) - n
  BY <1>1, <1>3, <1>4
<1> QED BY <1>1, <1>3, <1>5, <1>6 DEF DropOf, g, t, s

LEMMA Adds ==
    ASSUME NEW f \in Seq(Piece), NEW a \in Seq(Piece), NEW x \in Seq(Piece)
    PROVE  a \o x \in Seq(Piece) /\ AddOf(f \o (a \o x), f \o a, x)
<1> DEFINE y == a \o x
           s == f \o a
           t == f \o y
<1>1. AddOf(y, a, x)
  BY Joins
<1> HIDE DEF y
<1>2. y \in Seq(Piece) /\ Len(y) = Len(a) + Len(x)
  BY <1>1 DEF AddOf
<1>3. AddOf(t, f, y) /\ AddOf(s, f, a)
  BY <1>2, Joins
<1> HIDE DEF t, s
<1>4. /\ t \in Seq(Piece) /\ s \in Seq(Piece)
      /\ Len(s) = Len(f) + Len(a) /\ Len(t) = Len(f) + Len(y)
  BY <1>3 DEF AddOf
<1>5. Len(f) \in Nat /\ Len(a) \in Nat /\ Len(x) \in Nat
  OBVIOUS
<1>6. ASSUME NEW i \in 1 .. Len(s) PROVE t[i] = s[i]
  <2>1. CASE i <= Len(f)
    <3>1. i \in 1 .. Len(f)
      BY <2>1, <1>5
    <3> QED BY <3>1, <1>3 DEF AddOf
  <2>2. CASE i > Len(f)
    <3>1. PICK j \in 1 .. Len(a) : i = Len(f) + j
      <4>1. i - Len(f) \in 1 .. Len(a) /\ i = Len(f) + (i - Len(f))
        BY <2>2, <1>4, <1>5
      <4> QED BY <4>1
    <3>2. j \in 1 .. Len(y)
      BY <1>2, <1>5
    <3>3. t[Len(f) + j] = y[j] /\ s[Len(f) + j] = a[j] /\ y[j] = a[j]
      BY <3>2, <1>1, <1>3 DEF AddOf
    <3> QED BY <3>1, <3>3
  <2> QED BY <2>1, <2>2, <1>5
<1>7. ASSUME NEW i \in 1 .. Len(x) PROVE t[Len(s) + i] = x[i]
  <2>1. Len(a) + i \in 1 .. Len(y) /\ Len(s) + i = Len(f) + (Len(a) + i)
    BY <1>2, <1>4, <1>5
  <2>2. t[Len(f) + (Len(a) + i)] = y[Len(a) + i] /\ y[Len(a) + i] = x[i]
    BY <2>1, <1>1, <1>3 DEF AddOf
  <2> QED BY <2>1, <2>2
<1>8. Len(t) = Len(s) + Len(x)
  BY <1>2, <1>4, <1>5
<1>9. AddOf(t, s, x)
  BY <1>4, <1>6, <1>7, <1>8 DEF AddOf
<1> QED BY <1>2, <1>9 DEF t, s, y

LEMMA Delivers ==
    ASSUME NEW f \in Seq(Piece), NEW a \in Seq(Piece), a # <<>>
    PROVE  /\ Append(f, Head(a)) \in Seq(Piece) /\ Tail(a) \in Seq(Piece)
           /\ Append(f, Head(a)) \o Tail(a) = f \o a
           /\ Len(Append(f, Head(a))) = Len(f) + 1
           /\ \A i \in 1 .. Len(f) : Append(f, Head(a))[i] = f[i]
<1> DEFINE g == Append(f, Head(a))
           b == Tail(a)
           t == g \o b
           s == f \o a
<1>1. Head(a) \in Piece /\ Head(a) = a[1] /\ Len(a) \in Nat \ {0} /\ Len(f) \in Nat
  OBVIOUS
<1>2. /\ g \in Seq(Piece) /\ Len(g) = Len(f) + 1 /\ g[Len(f) + 1] = a[1]
      /\ \A i \in 1 .. Len(f) : g[i] = f[i]
  BY <1>1
<1>3. b \in Seq(Piece) /\ Len(b) = Len(a) - 1 /\ \A i \in 1 .. Len(b) : b[i] = a[i + 1]
  OBVIOUS
<1> HIDE DEF g, b
<1>4. AddOf(t, g, b) /\ AddOf(s, f, a)
  BY <1>2, <1>3, Joins
<1> HIDE DEF t, s
<1>5. /\ t \in Seq(Piece) /\ s \in Seq(Piece)
      /\ Len(s) = Len(f) + Len(a) /\ Len(t) = Len(g) + Len(b)
  BY <1>4 DEF AddOf
<1>6. Len(t) = Len(s)
  BY <1>1, <1>2, <1>3, <1>5
<1>7. ASSUME NEW i \in 1 .. Len(s) PROVE t[i] = s[i]
  <2>1. CASE i <= Len(f)
    <3>1. i \in 1 .. Len(f) /\ i \in 1 .. Len(g)
      BY <2>1, <1>1, <1>2
    <3>2. t[i] = g[i] /\ s[i] = f[i]
      BY <3>1, <1>4 DEF AddOf
    <3> QED BY <3>1, <3>2, <1>2
  <2>2. CASE i = Len(f) + 1
    <3>1. i \in 1 .. Len(g) /\ 1 \in 1 .. Len(a)
      BY <2>2, <1>1, <1>2
    <3>2. t[i] = g[i] /\ s[Len(f) + 1] = a[1]
      BY <3>1, <1>4 DEF AddOf
    <3> QED BY <3>2, <2>2, <1>2
  <2>3. CASE i > Len(f) + 1
    <3>1. PICK j \in 1 .. Len(b) : i = Len(g) + j
      <4>1. i - Len(g) \in 1 .. Len(b) /\ i = Len(g) + (i - Len(g))
        BY <2>3, <1>1, <1>2, <1>3, <1>5
      <4> QED BY <4>1
    <3>2. j + 1 \in 1 .. Len(a) /\ i = Len(f) + (j + 1)
      BY <3>1, <1>1, <1>2, <1>3
    <3>3. t[Len(g) + j] = b[j] /\ s[Len(f) + (j + 1)] = a[j + 1]
      BY <3>2, <1>4 DEF AddOf
    <3> QED BY <3>1, <3>2, <3>3, <1>3
  <2> QED BY <2>1, <2>2, <2>3, <1>1
<1>8. t = s
  BY <1>5, <1>6, <1>7
<1> QED BY <1>2, <1>3, <1>8 DEF t, s, g, b

(* In the stream a frame's header is followed by its data; and, as long as *)
(* nothing was thrown away, a text is there with both its pieces.          *)
LEMMA PayloadIs ==
    /\ At!Payload \in Seq(Piece) /\ Len(At!Payload) = 3 /\ At!Payload[1] = <<"ok", 1>>
    /\ At!Payload[2] = <<"ok", 2>> /\ At!Payload[3] = <<"data", 0>>
<1> DEFINE ok   == <<<<"ok", 1>>, <<"ok", 2>>>>
           rest == <<<<"data", 0>>>>
<1>1. <<"ok", 1>> \in Piece /\ <<"ok", 2>> \in Piece /\ <<"data", 0>> \in Piece
  BY DEF Piece, Kinds
<1>2. ok \in Seq(Piece) /\ Len(ok) = 2 /\ ok[1] = <<"ok", 1>> /\ ok[2] = <<"ok", 2>>
  BY <1>1
<1>3. rest \in Seq(Piece) /\ Len(rest) = 1 /\ rest[1] = <<"data", 0>>
  BY <1>1
<1>4. At!Payload = ok \o rest
  BY DEF At!Payload, At!Text
<1> HIDE DEF ok, rest
<1>5. AddOf(At!Payload, ok, rest)
  BY <1>2, <1>3, <1>4, Joins
<1>6. /\ At!Payload \in Seq(Piece) /\ Len(At!Payload) = 3
      /\ At!Payload[1] = ok[1] /\ At!Payload[2] = ok[2] /\ At!Payload[2 + 1] = rest[1]
  BY <1>2, <1>3, <1>5 DEF AddOf
<1> QED BY <1>2, <1>3, <1>6

FrameAt(s, i) ==
    /\ i + 3 <= Len(s) /\ s[i] = <<"len", 3>>
    /\ \A j \in 1 .. 3 : s[i + j] = At!Payload[j]

FramesIn(s) == \A i \in 1 .. Len(s) : s[i] = <<"ipd", 2>> => FrameAt(s, i + 1)

RestOfFrame(s, n) == 3 - n <= Len(s) /\ \A j \in 1 .. 3 - n : s[j] = At!Payload[n + j]

Paired(s, i)  == s[i][2] = 1 => i + 1 <= Len(s) /\ s[i + 1] = <<s[i][1], 2>>
Signals(s, i) == s[i] = <<"signal", 2>> => i + 1 <= Len(s) /\ s[i + 1] = <<"ok", 1>>
Headed(s, i)  ==
    /\ s[i] = <<"len", 3>> => i > 1 /\ s[i - 1] = <<"ipd", 2>>
    /\ s[i] = <<"ipd", 2>> => i > 1 /\ s[i - 1] = <<"ipd", 1>>

WholeTexts(s) == \A i \in 1 .. Len(s) : Paired(s, i) /\ Signals(s, i) /\ Headed(s, i)

LEMMA FramesDrop ==
    ASSUME NEW s, NEW t, NEW n, DropOf(t, s, n), FramesIn(s)
    PROVE  FramesIn(t)
<1>1. Len(s) \in Nat /\ Len(t) \in Nat /\ n \in Nat /\ Len(t) = Len(s) - n
  BY DEF DropOf
<1>2. SUFFICES ASSUME NEW i \in 1 .. Len(t), t[i] = <<"ipd", 2>> PROVE FrameAt(t, i + 1)
  BY DEF FramesIn
<1>3. i + n \in 1 .. Len(s) /\ s[i + n] = <<"ipd", 2>>
  BY <1>1, <1>2 DEF DropOf
<1>4. FrameAt(s, i + n + 1)
  BY <1>3 DEF FramesIn
<1>5. i + 1 + 3 <= Len(t)
  BY <1>1, <1>4 DEF FrameAt
<1>6. ASSUME NEW j \in 0 .. 3 PROVE t[i + 1 + j] = s[i + n + 1 + j]
  <2>1. i + 1 + j \in 1 .. Len(t) /\ i + 1 + j + n = i + n + 1 + j
    BY <1>1, <1>5
  <2> QED BY <2>1 DEF DropOf
<1>7. t[i + 1] = <<"len", 3>>
  <2>1. t[i + 1 + 0] = s[i + n + 1 + 0]
    BY <1>6
  <2> QED BY <2>1, <1>1, <1>4 DEF FrameAt
<1> QED BY <1>4, <1>5, <1>6, <1>7 DEF FrameAt

LEMMA FramesAdd ==
    ASSUME NEW s, NEW t, NEW x, AddOf(t, s, x), FramesIn(s), FramesIn(x)
    PROVE  FramesIn(t)
<1>1. /\ Len(s) \in Nat /\ Len(t) \in Nat /\ Len(x) \in Nat /\ Len(t) = Len(s) + Len(x)
  BY DEF AddOf
<1>2. SUFFICES ASSUME NEW i \in 1 .. Len(t), t[i] = <<"ipd", 2>> PROVE FrameAt(t, i + 1)
  BY DEF FramesIn
<1>3. CASE i <= Len(s)
  <2>1. i \in 1 .. Len(s) /\ s[i] = <<"ipd", 2>>
    <3>1. i \in 1 .. Len(s)
      BY <1>1, <1>3
    <3>2. t[i] = s[i]
      BY <3>1 DEF AddOf
    <3> QED BY <3>1, <3>2, <1>2
  <2>2. FrameAt(s, i + 1)
    BY <2>1 DEF FramesIn
  <2>3. i + 1 + 3 <= Len(s)
    BY <2>2 DEF FrameAt
  <2>4. ASSUME NEW j \in 0 .. 3 PROVE t[i + 1 + j] = s[i + 1 + j]
    <3>1. i + 1 + j \in 1 .. Len(s)
      BY <1>1, <2>3
    <3> QED BY <3>1 DEF AddOf
  <2>5. t[i + 1] = <<"len", 3>>
    <3>1. t[i + 1 + 0] = s[i + 1 + 0]
      BY <2>4
    <3> QED BY <3>1, <2>2 DEF FrameAt
  <2> QED BY <1>1, <2>2, <2>3, <2>4, <2>5 DEF FrameAt
<1>4. CASE i > Len(s)
  <2>1. PICK k \in 1 .. Len(x) : i = Len(s) + k
    <3>1. i - Len(s) \in 1 .. Len(x) /\ i = Len(s) + (i - Len(s))
      BY <1>1, <1>4
    <3> QED BY <3>1
  <2>2. x[k] = <<"ipd", 2>>
    BY <1>2, <2>1 DEF AddOf
  <2>3. FrameAt(x, k + 1)
    BY <2>2 DEF FramesIn
  <2>4. k + 1 + 3 <= Len(x)
    BY <2>3 DEF FrameAt
  <2>5. ASSUME NEW j \in 0 .. 3 PROVE t[i + 1 + j] = x[k + 1 + j]
    <3>1. k + 1 + j \in 1 .. Len(x) /\ i + 1 + j = Len(s) + (k + 1 + j)
      BY <1>1, <2>1, <2>4
    <3> QED BY <3>1 DEF AddOf
  <2>6. t[i + 1] = <<"len", 3>>
    <3>1. t[i + 1 + 0] = x[k + 1 + 0]
      BY <2>5
    <3> QED BY <3>1, <2>3 DEF FrameAt
  <2>7. i + 1 + 3 <= Len(t)
    BY <1>1, <2>1, <2>4
  <2> QED BY <2>3, <2>5, <2>6, <2>7 DEF FrameAt
<1> QED BY <1>3, <1>4, <1>1

LEMMA RestAdd ==
    ASSUME NEW s, NEW t, NEW x, AddOf(t, s, x), NEW n \in 0 .. 3, RestOfFrame(s, n)
    PROVE  RestOfFrame(t, n)
<1>1. /\ Len(s) \in Nat /\ Len(t) \in Nat /\ Len(x) \in Nat /\ Len(t) = Len(s) + Len(x)
  BY DEF AddOf
<1>2. ASSUME NEW j \in 1 .. 3 - n PROVE t[j] = At!Payload[n + j]
  <2>1. j \in 1 .. Len(s)
    BY <1>1 DEF RestOfFrame
  <2> QED BY <2>1 DEF AddOf, RestOfFrame
<1> QED BY <1>1, <1>2 DEF RestOfFrame

LEMMA WholeDrop ==
    ASSUME NEW s, NEW t, NEW n, DropOf(t, s, n), WholeTexts(s),
           n > 0 => s[n] # <<"ipd", 1>> /\ s[n] # <<"ipd", 2>>
    PROVE  WholeTexts(t)
<1>1. Len(s) \in Nat /\ Len(t) \in Nat /\ n \in Nat /\ Len(t) = Len(s) - n
  BY DEF DropOf
<1>2. SUFFICES ASSUME NEW i \in 1 .. Len(t) PROVE Paired(t, i) /\ Signals(t, i) /\ Headed(t, i)
  BY DEF WholeTexts
<1>3. i + n \in 1 .. Len(s) /\ t[i] = s[i + n]
  BY <1>1 DEF DropOf
<1>4. Paired(s, i + n) /\ Signals(s, i + n) /\ Headed(s, i + n)
  BY <1>3 DEF WholeTexts
<1>5. i + n + 1 <= Len(s) => i + 1 <= Len(t) /\ t[i + 1] = s[i + n + 1]
  <2> SUFFICES ASSUME i + n + 1 <= Len(s) PROVE i + 1 <= Len(t) /\ t[i + 1] = s[i + n + 1]
    OBVIOUS
  <2>1. i + 1 \in 1 .. Len(t) /\ i + 1 + n = i + n + 1
    BY <1>1
  <2> QED BY <2>1 DEF DropOf
<1>6. Paired(t, i) /\ Signals(t, i)
  BY <1>3, <1>4, <1>5 DEF Paired, Signals
<1>7. Headed(t, i)
  <2>1. CASE i > 1
    <3>1. i - 1 \in 1 .. Len(t) /\ i - 1 + n = i + n - 1 /\ i + n > 1
      BY <2>1, <1>1
    <3>2. t[i - 1] = s[i + n - 1]
      BY <3>1 DEF DropOf
    <3>3. PICK k \in 1 .. Len(s) : k = i + n /\ t[i] = s[k] /\ t[i - 1] = s[k - 1] /\ Headed(s, k)
      BY <3>2, <1>1, <1>3, <1>4
    <3> QED BY <3>3, <2>1 DEF Headed
  <2>2. CASE i = 1 /\ n > 0
    <3>1. i + n - 1 = n
      BY <2>2, <1>1
    <3>2. PICK k \in 1 .. Len(s) : k = i + n /\ t[i] = s[k] /\ k - 1 = n /\ Headed(s, k)
      BY <3>1, <1>1, <1>3, <1>4
    <3> QED BY <3>2, <2>2 DEF Headed
  <2>3. CASE i = 1 /\ n = 0
    BY <2>3, <1>3, <1>4 DEF Headed
  <2> QED BY <2>1, <2>2, <2>3, <1>1
<1> QED BY <1>6, <1>7

LEMMA WholeAdd ==
    ASSUME NEW s, NEW t, NEW x, AddOf(t, s, x), WholeTexts(s), WholeTexts(x)
    PROVE  WholeTexts(t)
<1>1. /\ Len(s) \in Nat /\ Len(t) \in Nat /\ Len(x) \in Nat /\ Len(t) = Len(s) + Len(x)
  BY DEF AddOf
<1>2. SUFFICES ASSUME NEW i \in 1 .. Len(t) PROVE Paired(t, i) /\ Signals(t, i) /\ Headed(t, i)
  BY DEF WholeTexts
<1>3. CASE i <= Len(s)
  <2>1. i \in 1 .. Len(s) /\ t[i] = s[i]
    BY <1>1, <1>3 DEF AddOf
  <2>2. Paired(s, i) /\ Signals(s, i) /\ Headed(s, i)
    BY <2>1 DEF WholeTexts
  <2>3. i + 1 <= Len(s) => i + 1 <= Len(t) /\ t[i + 1] = s[i + 1]
    BY <1>1, <2>1 DEF AddOf
  <2>4. i > 1 => t[i - 1] = s[i - 1]
    <3> SUFFICES ASSUME i > 1 PROVE t[i - 1] = s[i - 1]
      OBVIOUS
    <3>1. i - 1 \in 1 .. Len(s)
      BY <1>1, <2>1
    <3> QED BY <3>1 DEF AddOf
  <2>5. Paired(t, i) /\ Signals(t, i)
    BY <2>1, <2>2, <2>3 DEF Paired, Signals
  <2>6. Headed(t, i)
    BY <2>1, <2>2, <2>4 DEF Headed
  <2> QED BY <2>5, <2>6
<1>4. CASE i > Len(s)
  <2>1. PICK k \in 1 .. Len(x) : i = Len(s) + k
    <3>1. i - Len(s) \in 1 .. Len(x) /\ i = Len(s) + (i - Len(s))
      BY <1>1, <1>4
    <3> QED BY <3>1
  <2>2. t[i] = x[k] /\ Paired(x, k) /\ Signals(x, k) /\ Headed(x, k)
    BY <2>1 DEF AddOf, WholeTexts
  <2>3. k + 1 <= Len(x) => i + 1 <= Len(t) /\ t[i + 1] = x[k + 1]
    <3> SUFFICES ASSUME k + 1 <= Len(x) PROVE i + 1 <= Len(t) /\ t[i + 1] = x[k + 1]
      OBVIOUS
    <3>1. k + 1 \in 1 .. Len(x) /\ i + 1 = Len(s) + (k + 1)
      BY <1>1, <2>1
    <3> QED BY <3>1, <1>1 DEF AddOf
  <2>4. k > 1 => i > 1 /\ t[i - 1] = x[k - 1]
    <3> SUFFICES ASSUME k > 1 PROVE i > 1 /\ t[i - 1] = x[k - 1]
      OBVIOUS
    <3>1. k - 1 \in 1 .. Len(x) /\ i - 1 = Len(s) + (k - 1) /\ i > 1
      BY <1>1, <2>1
    <3>2. t[Len(s) + (k - 1)] = x[k - 1]
      BY <3>1 DEF AddOf
    <3> QED BY <3>1, <3>2
  <2>5. Paired(t, i) /\ Signals(t, i)
    BY <2>2, <2>3 DEF Paired, Signals
  <2>6. Headed(t, i)
    BY <2>2, <2>4 DEF Headed
  <2> QED BY <2>5, <2>6
<1> QED BY <1>3, <1>4, <1>1

(* The answers on their way: not what lies in the data of a frame, of      *)
(* which the first piece may be the first of the stream, p.                *)
Acks == {<<"ok", 1>>, <<"error", 1>>, <<"send", 1>>}

Live(s, p, i) == s[i] \in Acks /\ (IF i = 1 THEN ~p ELSE s[i - 1] # <<"len", 3>>)

NoneLive(s, p) == \A i \in 1 .. Len(s) : ~Live(s, p, i)

OnlyLive(s, p, k) ==
    \E i \in 1 .. Len(s) : /\ Live(s, p, i) /\ s[i] = <<k, 1>>
                           /\ \A j \in 1 .. Len(s) : Live(s, p, j) => j = i

OkThenSend(s, p) ==
    \E i \in 1 .. Len(s), j \in 1 .. Len(s) :
        /\ i < j /\ Live(s, p, i) /\ s[i] = <<"ok", 1>> /\ Live(s, p, j) /\ s[j] = <<"send", 1>>
        /\ \A h \in 1 .. Len(s) : Live(s, p, h) => h \in {i, j}

(* The same answers in another stream, n further on.                       *)
LiveGoes(s, p, t, q, n) ==
    \A i \in 1 .. Len(s) :
        Live(s, p, i) => i - n \in 1 .. Len(t) /\ Live(t, q, i - n) /\ t[i - n] = s[i]

LiveComes(s, p, t, q, n) ==
    \A j \in 1 .. Len(t) : Live(t, q, j) => j + n \in 1 .. Len(s) /\ Live(s, p, j + n)

SameLive(s, p, t, q, n) == LiveGoes(s, p, t, q, n) /\ LiveComes(s, p, t, q, n)

LEMMA LiveKept ==
    ASSUME NEW s, NEW p, NEW t, NEW q, NEW n \in Int, SameLive(s, p, t, q, n)
    PROVE  /\ NoneLive(s, p) => NoneLive(t, q)
           /\ \A k : OnlyLive(s, p, k) => OnlyLive(t, q, k)
           /\ OkThenSend(s, p) => OkThenSend(t, q)
<1>1. LiveGoes(s, p, t, q, n) /\ LiveComes(s, p, t, q, n)
  BY DEF SameLive
<1>2. NoneLive(s, p) => NoneLive(t, q)
  BY <1>1 DEF LiveComes, NoneLive
<1>3. ASSUME NEW k, OnlyLive(s, p, k) PROVE OnlyLive(t, q, k)
  <2>1. PICK i \in 1 .. Len(s) : /\ Live(s, p, i) /\ s[i] = <<k, 1>>
                                 /\ \A j \in 1 .. Len(s) : Live(s, p, j) => j = i
    BY <1>3 DEF OnlyLive
  <2>2. i - n \in 1 .. Len(t) /\ Live(t, q, i - n) /\ t[i - n] = <<k, 1>>
    BY <1>1, <2>1 DEF LiveGoes
  <2>3. ASSUME NEW j \in 1 .. Len(t), Live(t, q, j) PROVE j = i - n
    <3>1. j + n \in 1 .. Len(s) /\ Live(s, p, j + n)
      BY <1>1, <2>3 DEF LiveComes
    <3>2. j + n = i
      BY <2>1, <3>1
    <3> QED BY <3>2
  <2> QED BY <2>2, <2>3 DEF OnlyLive
<1>4. ASSUME OkThenSend(s, p) PROVE OkThenSend(t, q)
  <2>1. PICK i \in 1 .. Len(s), j \in 1 .. Len(s) :
          /\ i < j /\ Live(s, p, i) /\ s[i] = <<"ok", 1>> /\ Live(s, p, j) /\ s[j] = <<"send", 1>>
          /\ \A h \in 1 .. Len(s) : Live(s, p, h) => h \in {i, j}
    BY <1>4 DEF OkThenSend
  <2>2. i - n \in 1 .. Len(t) /\ Live(t, q, i - n) /\ t[i - n] = <<"ok", 1>>
    BY <1>1, <2>1 DEF LiveGoes
  <2>3. j - n \in 1 .. Len(t) /\ Live(t, q, j - n) /\ t[j - n] = <<"send", 1>>
    BY <1>1, <2>1 DEF LiveGoes
  <2>4. ASSUME NEW h \in 1 .. Len(t), Live(t, q, h) PROVE h \in {i - n, j - n}
    <3>1. h + n \in 1 .. Len(s) /\ Live(s, p, h + n)
      BY <1>1, <2>4 DEF LiveComes
    <3>2. h + n = i \/ h + n = j
      BY <2>1, <3>1
    <3> QED BY <3>2
  <2>5. i - n < j - n
    BY <2>1
  <2> QED BY <2>2, <2>3, <2>4, <2>5 DEF OkThenSend
<1> QED BY <1>2, <1>3, <1>4

(* Where the stream is cut, its first piece lies in a frame's data if the  *)
(* frame's header was cut off.                                             *)
CutAt(s, p, q, n) == IF n = 0 THEN q = p ELSE q = (s[n] = <<"len", 3>>)

LEMMA LiveDrop ==
    ASSUME NEW s, NEW p \in BOOLEAN, NEW t, NEW q \in BOOLEAN, NEW n, DropOf(t, s, n), CutAt(s, p, q, n),
           NEW i \in 1 .. Len(t)
    PROVE  /\ i + n \in 1 .. Len(s) /\ t[i] = s[i + n]
           /\ Live(t, q, i) <=> Live(s, p, i + n)
<1>1. Len(s) \in Nat /\ Len(t) \in Nat /\ n \in Nat /\ Len(t) = Len(s) - n
  BY DEF DropOf
<1>2. i + n \in 1 .. Len(s) /\ t[i] = s[i + n]
  BY <1>1 DEF DropOf
<1>3. CASE i > 1
  <2>1. i - 1 \in 1 .. Len(t) /\ i - 1 + n = i + n - 1 /\ i + n # 1 /\ i # 1
    BY <1>1, <1>3
  <2>2. t[i - 1] = s[i + n - 1]
    BY <2>1 DEF DropOf
  <2>5. PICK k \in 1 .. Len(s) : k = i + n
    BY <1>2
  <2>3. t[i] = s[k]
    BY <2>5, <1>2
  <2>6. k - 1 = i + n - 1 /\ k # 1
    BY <2>1, <2>5, <1>1
  <2>7. t[i - 1] = s[k - 1]
    BY <2>2, <2>6
  <2>4. Live(t, q, i) <=> Live(s, p, k)
    BY <2>1, <2>3, <2>6, <2>7 DEF Live
  <2> QED BY <2>4, <2>5, <1>2
<1>4. CASE i = 1 /\ n > 0
  <2>1. i + n # 1 /\ i + n - 1 = n /\ n # 0
    BY <1>1, <1>4
  <2>2. q = (s[n] = <<"len", 3>>)
    BY <2>1 DEF CutAt
  <2>6. PICK k \in 1 .. Len(s) : k = i + n
    BY <1>2
  <2>3. t[i] = s[k]
    BY <2>6, <1>2
  <2>7. k - 1 = n /\ k # 1
    BY <2>1, <2>6, <1>1
  <2>4. q <=> s[k - 1] = <<"len", 3>>
    BY <2>2, <2>7
  <2>5. Live(t, q, i) <=> Live(s, p, k)
    BY <2>3, <2>4, <2>7, <1>4 DEF Live
  <2> QED BY <2>6, <2>5, <1>2
<1>5. CASE i = 1 /\ n = 0
  BY <1>2, <1>5 DEF Live, CutAt
<1> QED BY <1>1, <1>2, <1>3, <1>4, <1>5

LEMMA DropsNoneLive ==
    ASSUME NEW s, NEW p \in BOOLEAN, NEW t, NEW q \in BOOLEAN, NEW n, DropOf(t, s, n), CutAt(s, p, q, n),
           \A i \in 1 .. n : ~Live(s, p, i)
    PROVE  SameLive(s, p, t, q, n) /\ n \in Int
<1>1. Len(s) \in Nat /\ Len(t) \in Nat /\ n \in Nat /\ Len(t) = Len(s) - n
  BY DEF DropOf
<1>2. ASSUME NEW i \in 1 .. Len(s), Live(s, p, i)
      PROVE  i - n \in 1 .. Len(t) /\ Live(t, q, i - n) /\ t[i - n] = s[i]
  <2>1. PICK j \in 1 .. Len(t) : j = i - n /\ j + n = i
    <3>1. ~(i \in 1 .. n)
      BY <1>2
    <3>2. i - n \in 1 .. Len(t) /\ (i - n) + n = i
      BY <3>1, <1>1
    <3> QED BY <3>2
  <2> QED BY <2>1, <1>2, LiveDrop
<1>3. LiveGoes(s, p, t, q, n)
  BY <1>2 DEF LiveGoes
<1>4. LiveComes(s, p, t, q, n)
  BY LiveDrop DEF LiveComes
<1> QED BY <1>1, <1>3, <1>4 DEF SameLive

LEMMA DropsFirstLive ==
    ASSUME NEW s, NEW p \in BOOLEAN, NEW t, NEW q \in BOOLEAN, NEW n, DropOf(t, s, n), CutAt(s, p, q, n),
           n > 0, Live(s, p, 1), \A i \in 2 .. n : ~Live(s, p, i)
    PROVE  /\ ~NoneLive(s, p)
           /\ \A k : OnlyLive(s, p, k) => s[1] = <<k, 1>> /\ NoneLive(t, q)
           /\ OkThenSend(s, p) => s[1] = <<"ok", 1>> /\ OnlyLive(t, q, "send")
<1>1. Len(s) \in Nat /\ Len(t) \in Nat /\ n \in Nat /\ Len(t) = Len(s) - n /\ 1 \in 1 .. Len(s)
  BY DEF DropOf
<1>2. ~NoneLive(s, p)
  BY <1>1 DEF NoneLive
<1>3. ASSUME NEW i \in 1 .. Len(t), Live(t, q, i)
      PROVE  i + n \in 1 .. Len(s) /\ Live(s, p, i + n) /\ i + n # 1
  <2>1. i + n # 1
    BY <1>1
  <2> QED BY <2>1, <1>3, LiveDrop
<1>4. ASSUME NEW k, OnlyLive(s, p, k) PROVE s[1] = <<k, 1>> /\ NoneLive(t, q)
  <2>1. PICK i \in 1 .. Len(s) : /\ Live(s, p, i) /\ s[i] = <<k, 1>>
                                 /\ \A j \in 1 .. Len(s) : Live(s, p, j) => j = i
    BY <1>4 DEF OnlyLive
  <2>2. i = 1
    BY <1>1, <2>1
  <2> QED BY <2>1, <2>2, <1>3 DEF NoneLive
<1>5. ASSUME OkThenSend(s, p) PROVE s[1] = <<"ok", 1>> /\ OnlyLive(t, q, "send")
  <2>1. PICK i \in 1 .. Len(s), j \in 1 .. Len(s) :
          /\ i < j /\ Live(s, p, i) /\ s[i] = <<"ok", 1>> /\ Live(s, p, j) /\ s[j] = <<"send", 1>>
          /\ \A h \in 1 .. Len(s) : Live(s, p, h) => h \in {i, j}
    BY <1>5 DEF OkThenSend
  <2>2. 1 \in {i, j}
    BY <1>1, <2>1
  <2>3. i = 1
    BY <2>1, <2>2
  <2>4. PICK m \in 1 .. Len(t) : m + n = j
    <3>1. ~(j \in 2 .. n)
      BY <2>1
    <3>2. j - n \in 1 .. Len(t) /\ (j - n) + n = j
      BY <3>1, <2>1, <2>3, <1>1
    <3> QED BY <3>2
  <2>5. Live(t, q, m) /\ t[m] = <<"send", 1>>
    BY <2>1, <2>4, LiveDrop
  <2>6. ASSUME NEW h \in 1 .. Len(t), Live(t, q, h) PROVE h = m
    <3>1. h + n \in {i, j} /\ h + n # 1
      BY <2>1, <2>6, <1>3
    <3> QED BY <3>1, <2>3, <2>4, <1>1
  <2> QED BY <2>1, <2>3, <2>5, <2>6 DEF OnlyLive
<1> QED BY <1>2, <1>4, <1>5

(* At its end the stream does not stop between a header and its data.      *)
OpenEnd(s, p) == IF Len(s) = 0 THEN ~p ELSE s[Len(s)] # <<"len", 3>>

LEMMA LiveAdd ==
    ASSUME NEW s, NEW p \in BOOLEAN, NEW t, NEW x, AddOf(t, s, x), OpenEnd(s, p)
    PROVE  /\ \A i \in 1 .. Len(s) : Live(t, p, i) <=> Live(s, p, i)
           /\ \A i \in 1 .. Len(x) : Live(t, p, Len(s) + i) <=> Live(x, FALSE, i)
<1>1. /\ Len(s) \in Nat /\ Len(t) \in Nat /\ Len(x) \in Nat /\ Len(t) = Len(s) + Len(x)
  BY DEF AddOf
<1>2. ASSUME NEW i \in 1 .. Len(s) PROVE Live(t, p, i) <=> Live(s, p, i)
  <2>1. t[i] = s[i]
    BY DEF AddOf
  <2>2. i # 1 => t[i - 1] = s[i - 1]
    <3> SUFFICES ASSUME i # 1 PROVE t[i - 1] = s[i - 1]
      OBVIOUS
    <3>1. i - 1 \in 1 .. Len(s)
      BY <1>1
    <3> QED BY <3>1 DEF AddOf
  <2> QED BY <2>1, <2>2 DEF Live
<1>3. ASSUME NEW i \in 1 .. Len(x) PROVE Live(t, p, Len(s) + i) <=> Live(x, FALSE, i)
  <2>1. t[Len(s) + i] = x[i]
    BY DEF AddOf
  <2>2. CASE i > 1
    <3>1. i - 1 \in 1 .. Len(x) /\ Len(s) + i - 1 = Len(s) + (i - 1) /\ Len(s) + i # 1 /\ i # 1
      BY <1>1, <2>2
    <3>2. t[Len(s) + i - 1] = x[i - 1]
      BY <3>1 DEF AddOf
    <3> QED BY <3>1, <3>2, <2>1 DEF Live
  <2>3. CASE i = 1 /\ Len(s) > 0
    <3>1. Len(s) \in 1 .. Len(s) /\ Len(s) + i - 1 = Len(s) /\ Len(s) + i # 1 /\ Len(s) # 0
      BY <1>1, <2>3
    <3>2. t[Len(s) + i - 1] # <<"len", 3>>
      BY <3>1 DEF AddOf, OpenEnd
    <3> QED BY <3>1, <3>2, <2>1, <2>3 DEF Live
  <2>4. CASE i = 1 /\ Len(s) = 0
    <3>1. ~p /\ Len(s) + i = 1
      BY <2>4 DEF OpenEnd
    <3> QED BY <3>1, <2>1, <2>4 DEF Live
  <2>5. i > 1 \/ (i = 1 /\ Len(s) > 0) \/ (i = 1 /\ Len(s) = 0)
    BY <1>1
  <2> QED BY <2>2, <2>3, <2>4, <2>5
<1> QED BY <1>2, <1>3

LEMMA AddsNoneLive ==
    ASSUME NEW s, NEW p \in BOOLEAN, NEW t, NEW x, AddOf(t, s, x), OpenEnd(s, p), NoneLive(x, FALSE)
    PROVE  SameLive(s, p, t, p, 0)
<1>1. /\ Len(s) \in Nat /\ Len(t) \in Nat /\ Len(x) \in Nat /\ Len(t) = Len(s) + Len(x)
  BY DEF AddOf
<1>2. ASSUME NEW i \in 1 .. Len(s), Live(s, p, i)
      PROVE  i - 0 \in 1 .. Len(t) /\ Live(t, p, i - 0) /\ t[i - 0] = s[i]
  <2>1. i - 0 = i /\ i \in 1 .. Len(t)
    BY <1>1
  <2> QED BY <2>1, <1>2, LiveAdd DEF AddOf
<1>3. ASSUME NEW j \in 1 .. Len(t), Live(t, p, j)
      PROVE  j + 0 \in 1 .. Len(s) /\ Live(s, p, j + 0)
  <2>1. j <= Len(s)
    <3> SUFFICES ASSUME j > Len(s) PROVE FALSE
      BY <1>1
    <3>1. PICK k \in 1 .. Len(x) : j = Len(s) + k
      <4>1. j - Len(s) \in 1 .. Len(x) /\ j = Len(s) + (j - Len(s))
        BY <1>1
      <4> QED BY <4>1
    <3>2. Live(t, p, Len(s) + k)
      BY <3>1, <1>3
    <3>3. Live(x, FALSE, k)
      BY <3>2, LiveAdd
    <3> QED BY <3>3 DEF NoneLive
  <2>2. j + 0 = j /\ j \in 1 .. Len(s)
    BY <1>1, <2>1
  <2> QED BY <2>2, <1>3, LiveAdd
<1>4. LiveGoes(s, p, t, p, 0)
  BY <1>2 DEF LiveGoes
<1>5. LiveComes(s, p, t, p, 0)
  BY <1>3 DEF LiveComes
<1> QED BY <1>4, <1>5 DEF SameLive

LEMMA AddsToNoneLive ==
    ASSUME NEW s, NEW p \in BOOLEAN, NEW t, NEW x, AddOf(t, s, x), OpenEnd(s, p), NoneLive(s, p)
    PROVE  SameLive(x, FALSE, t, p, -Len(s)) /\ -Len(s) \in Int
<1>1. /\ Len(s) \in Nat /\ Len(t) \in Nat /\ Len(x) \in Nat /\ Len(t) = Len(s) + Len(x)
  BY DEF AddOf
<1>2. ASSUME NEW i \in 1 .. Len(x), Live(x, FALSE, i)
      PROVE  /\ i - (-Len(s)) \in 1 .. Len(t) /\ Live(t, p, i - (-Len(s)))
             /\ t[i - (-Len(s))] = x[i]
  <2>1. i - (-Len(s)) = Len(s) + i /\ Len(s) + i \in 1 .. Len(t)
    BY <1>1
  <2>2. t[Len(s) + i] = x[i] /\ Live(t, p, Len(s) + i)
    BY <1>2, LiveAdd DEF AddOf
  <2> QED BY <2>1, <2>2
<1>3. ASSUME NEW j \in 1 .. Len(t), Live(t, p, j)
      PROVE  j + (-Len(s)) \in 1 .. Len(x) /\ Live(x, FALSE, j + (-Len(s)))
  <2>1. j > Len(s)
    <3> SUFFICES ASSUME j <= Len(s) PROVE FALSE
      BY <1>1
    <3>1. j \in 1 .. Len(s)
      BY <1>1
    <3> QED BY <3>1, <1>3, LiveAdd DEF NoneLive
  <2>2. PICK k \in 1 .. Len(x) : j = Len(s) + k /\ j + (-Len(s)) = k
    <3>1. j - Len(s) \in 1 .. Len(x) /\ j = Len(s) + (j - Len(s)) /\ j + (-Len(s)) = j - Len(s)
      BY <1>1, <2>1
    <3> QED BY <3>1
  <2> QED BY <2>2, <1>3, LiveAdd
<1>4. LiveGoes(x, FALSE, t, p, -Len(s))
  BY <1>2 DEF LiveGoes
<1>5. LiveComes(x, FALSE, t, p, -Len(s))
  BY <1>3 DEF LiveComes
<1>6. -Len(s) \in Int
  BY <1>1
<1> QED BY <1>4, <1>5, <1>6 DEF SameLive

LEMMA PieceBegins ==
    ASSUME NEW x \in Piece, x[2] = 1
    PROVE  x[1] \in Kinds /\ x = <<x[1], 1>>
  BY DEF Piece

(* What the modem says, in whole texts.                                    *)
Speech(x) == x \in Seq(Piece) /\ FramesIn(x) /\ WholeTexts(x)

TwoOf(x, a, b) == x \in Seq(Piece) /\ Len(x) = 2 /\ x[1] = a /\ x[2] = b

FourOf(x, a, b, c, d) ==
    x \in Seq(Piece) /\ Len(x) = 4 /\ x[1] = a /\ x[2] = b /\ x[3] = c /\ x[4] = d

LEMMA TextIs ==
    ASSUME NEW k \in Kinds
    PROVE  TwoOf(At!Text(k), <<k, 1>>, <<k, 2>>)
<1>1. <<k, 1>> \in Piece /\ <<k, 2>> \in Piece
  BY DEF Piece
<1>2. At!Text(k) = <<<<k, 1>>, <<k, 2>>>>
  BY DEF At!Text
<1> QED BY <1>1, <1>2 DEF TwoOf

LEMMA TwoTexts ==
    ASSUME NEW k \in Kinds, NEW m \in Kinds
    PROVE  FourOf(At!Text(k) \o At!Text(m), <<k, 1>>, <<k, 2>>, <<m, 1>>, <<m, 2>>)
<1> DEFINE x == At!Text(k)
           y == At!Text(m)
           z == x \o y
<1>1. TwoOf(x, <<k, 1>>, <<k, 2>>) /\ TwoOf(y, <<m, 1>>, <<m, 2>>)
  BY TextIs
<1> HIDE DEF x, y
<1>2. AddOf(z, x, y)
  BY <1>1, Joins DEF TwoOf
<1> HIDE DEF z
<1>3. z \in Seq(Piece) /\ Len(z) = 4
  BY <1>1, <1>2 DEF AddOf, TwoOf
<1>4. z[1] = x[1] /\ z[2] = x[2] /\ z[2 + 1] = y[1] /\ z[2 + 2] = y[2]
  BY <1>1, <1>2 DEF AddOf, TwoOf
<1>5. FourOf(z, <<k, 1>>, <<k, 2>>, <<m, 1>>, <<m, 2>>)
  BY <1>1, <1>3, <1>4 DEF FourOf, TwoOf
<1> QED BY <1>5 DEF z, x, y

LEMMA Plain ==
    ASSUME NEW k \in Kinds \ {"ipd", "signal"}, NEW x, TwoOf(x, <<k, 1>>, <<k, 2>>)
    PROVE  /\ Speech(x)
           /\ k \notin {"ok", "error", "send"} => NoneLive(x, FALSE)
           /\ k \in {"ok", "error", "send"} => OnlyLive(x, FALSE, k)
<1>1. x \in Seq(Piece) /\ Len(x) = 2 /\ x[1] = <<k, 1>> /\ x[2] = <<k, 2>>
  BY DEF TwoOf
<1>2. /\ x[1] # <<"ipd", 2>> /\ x[2] # <<"ipd", 2>> /\ x[1] # <<"len", 3>> /\ x[2] # <<"len", 3>>
      /\ x[1] # <<"signal", 2>> /\ x[2] # <<"signal", 2>> /\ x[1][1] = k /\ x[2][2] = 2
  BY <1>1
<1>3. \A i \in 1 .. Len(x) : i = 1 \/ i = 2
  BY <1>1
<1>4. FramesIn(x)
  BY <1>2, <1>3 DEF FramesIn
<1>5. ASSUME NEW i \in 1 .. Len(x) PROVE Paired(x, i) /\ Signals(x, i) /\ Headed(x, i)
  <2>1. CASE i = 1
    BY <2>1, <1>1, <1>2 DEF Paired, Signals, Headed
  <2>2. CASE i = 2
    BY <2>2, <1>1, <1>2 DEF Paired, Signals, Headed
  <2> QED BY <2>1, <2>2, <1>3
<1>6. Speech(x)
  BY <1>1, <1>4, <1>5 DEF Speech, WholeTexts
<1>7. ~Live(x, FALSE, 2)
  BY <1>1 DEF Live, Acks
<1>8. Live(x, FALSE, 1) <=> <<k, 1>> \in Acks
  BY <1>1 DEF Live
<1>9. <<k, 1>> \in Acks <=> k \in {"ok", "error", "send"}
  BY DEF Acks
<1>10. ASSUME k \notin {"ok", "error", "send"} PROVE NoneLive(x, FALSE)
  BY <1>3, <1>7, <1>8, <1>9, <1>10 DEF NoneLive
<1>11. ASSUME k \in {"ok", "error", "send"} PROVE OnlyLive(x, FALSE, k)
  <2>3. 1 \in 1 .. Len(x) /\ x[1] = <<k, 1>>
    BY <1>1
  <2>1. 1 \in 1 .. Len(x) /\ Live(x, FALSE, 1) /\ x[1] = <<k, 1>>
    BY <2>3, <1>8, <1>9, <1>11
  <2>2. \A j \in 1 .. Len(x) : Live(x, FALSE, j) => j = 1
    BY <1>3, <1>7
  <2> QED BY <2>1, <2>2 DEF OnlyLive
<1> QED BY <1>6, <1>10, <1>11

LEMMA SignalThenOk ==
    ASSUME NEW x, FourOf(x, <<"signal", 1>>, <<"signal", 2>>, <<"ok", 1>>, <<"ok", 2>>)
    PROVE  Speech(x) /\ OnlyLive(x, FALSE, "ok")
<1>1. /\ x \in Seq(Piece) /\ Len(x) = 4 /\ x[1] = <<"signal", 1>> /\ x[2] = <<"signal", 2>>
      /\ x[3] = <<"ok", 1>> /\ x[4] = <<"ok", 2>>
  BY DEF FourOf
<1>2. \A i \in 1 .. Len(x) : i = 1 \/ i = 2 \/ i = 3 \/ i = 4
  BY <1>1
<1>3. FramesIn(x)
  <2>1. x[1] # <<"ipd", 2>> /\ x[2] # <<"ipd", 2>> /\ x[3] # <<"ipd", 2>> /\ x[4] # <<"ipd", 2>>
    BY <1>1
  <2> QED BY <2>1, <1>2 DEF FramesIn
<1>4. ASSUME NEW i \in 1 .. Len(x) PROVE Paired(x, i) /\ Signals(x, i) /\ Headed(x, i)
  <2>1. CASE i = 1
    BY <2>1, <1>1 DEF Paired, Signals, Headed
  <2>2. CASE i = 2
    BY <2>2, <1>1 DEF Paired, Signals, Headed
  <2>3. CASE i = 3
    BY <2>3, <1>1 DEF Paired, Signals, Headed
  <2>4. CASE i = 4
    BY <2>4, <1>1 DEF Paired, Signals, Headed
  <2> QED BY <2>1, <2>2, <2>3, <2>4, <1>2
<1>5. Live(x, FALSE, 3) /\ 3 \in 1 .. Len(x)
  BY <1>1 DEF Live, Acks
<1>6. ~Live(x, FALSE, 1) /\ ~Live(x, FALSE, 2) /\ ~Live(x, FALSE, 4)
  BY <1>1 DEF Live, Acks
<1>7. \A j \in 1 .. Len(x) : Live(x, FALSE, j) => j = 3
  BY <1>2, <1>6
<1>8. OnlyLive(x, FALSE, "ok")
  BY <1>1, <1>5, <1>7 DEF OnlyLive
<1> QED BY <1>1, <1>3, <1>4, <1>8 DEF Speech, WholeTexts

LEMMA OkAndSend ==
    ASSUME NEW x, FourOf(x, <<"ok", 1>>, <<"ok", 2>>, <<"send", 1>>, <<"send", 2>>)
    PROVE  Speech(x) /\ OkThenSend(x, FALSE)
<1>1. /\ x \in Seq(Piece) /\ Len(x) = 4 /\ x[1] = <<"ok", 1>> /\ x[2] = <<"ok", 2>>
      /\ x[3] = <<"send", 1>> /\ x[4] = <<"send", 2>>
  BY DEF FourOf
<1>2. \A i \in 1 .. Len(x) : i = 1 \/ i = 2 \/ i = 3 \/ i = 4
  BY <1>1
<1>3. FramesIn(x)
  <2>1. x[1] # <<"ipd", 2>> /\ x[2] # <<"ipd", 2>> /\ x[3] # <<"ipd", 2>> /\ x[4] # <<"ipd", 2>>
    BY <1>1
  <2> QED BY <2>1, <1>2 DEF FramesIn
<1>4. ASSUME NEW i \in 1 .. Len(x) PROVE Paired(x, i) /\ Signals(x, i) /\ Headed(x, i)
  <2>1. CASE i = 1
    BY <2>1, <1>1 DEF Paired, Signals, Headed
  <2>2. CASE i = 2
    BY <2>2, <1>1 DEF Paired, Signals, Headed
  <2>3. CASE i = 3
    BY <2>3, <1>1 DEF Paired, Signals, Headed
  <2>4. CASE i = 4
    BY <2>4, <1>1 DEF Paired, Signals, Headed
  <2> QED BY <2>1, <2>2, <2>3, <2>4, <1>2
<1>5. /\ Live(x, FALSE, 1) /\ 1 \in 1 .. Len(x) /\ Live(x, FALSE, 3) /\ 3 \in 1 .. Len(x)
  BY <1>1 DEF Live, Acks
<1>6. ~Live(x, FALSE, 2) /\ ~Live(x, FALSE, 4)
  BY <1>1 DEF Live, Acks
<1>7. \A j \in 1 .. Len(x) : Live(x, FALSE, j) => j \in {1, 3}
  BY <1>2, <1>6
<1>9. 1 < 3
  OBVIOUS
<1>8. OkThenSend(x, FALSE)
  BY <1>1, <1>5, <1>7, <1>9, Zenon DEF OkThenSend
<1> QED BY <1>1, <1>3, <1>4, <1>8 DEF Speech, WholeTexts

LEMMA FrameTextIs ==
    LET x == At!FrameText IN
    /\ x \in Seq(Piece) /\ Len(x) = 6
    /\ x[1] = <<"ipd", 1>> /\ x[2] = <<"ipd", 2>> /\ x[3] = <<"len", 3>>
    /\ \A j \in 1 .. 3 : x[3 + j] = At!Payload[j]
<1> DEFINE ipd  == At!Text("ipd")
           len  == <<<<"len", 3>>>>
           head == ipd \o len
           all  == head \o At!Payload
<1>1. TwoOf(ipd, <<"ipd", 1>>, <<"ipd", 2>>)
  BY TextIs DEF Kinds
<1>2. <<"len", 3>> \in Piece
  BY DEF Piece
<1>3. len \in Seq(Piece) /\ Len(len) = 1 /\ len[1] = <<"len", 3>>
  BY <1>2
<1>4. At!FrameText = all
  BY PayloadIs DEF At!FrameText
<1> HIDE DEF ipd, len
<1>5. AddOf(head, ipd, len)
  BY <1>1, <1>3, Joins DEF TwoOf
<1> HIDE DEF head
<1>6. /\ head \in Seq(Piece) /\ Len(head) = 3
      /\ head[1] = <<"ipd", 1>> /\ head[2] = <<"ipd", 2>>
  BY <1>1, <1>3, <1>5 DEF AddOf, TwoOf
<1>7. head[3] = <<"len", 3>>
  <2>1. head[2 + 1] = len[1]
    BY <1>1, <1>3, <1>5 DEF AddOf, TwoOf
  <2> QED BY <2>1, <1>3
<1>8. AddOf(all, head, At!Payload)
  BY <1>6, PayloadIs, Joins
<1> HIDE DEF all
<1>9. /\ all \in Seq(Piece) /\ Len(all) = 6
      /\ all[1] = head[1] /\ all[2] = head[2] /\ all[3] = head[3]
  BY <1>6, <1>8, PayloadIs DEF AddOf
<1>10. ASSUME NEW j \in 1 .. 3 PROVE all[3 + j] = At!Payload[j]
  BY <1>6, <1>8, PayloadIs DEF AddOf
<1> QED BY <1>4, <1>6, <1>7, <1>9, <1>10

LEMMA FrameSpeaks ==
    Speech(At!FrameText) /\ NoneLive(At!FrameText, FALSE)
<1>1. PICK x : x = At!FrameText
  OBVIOUS
<1>2. /\ x \in Seq(Piece) /\ Len(x) = 6
      /\ x[1] = <<"ipd", 1>> /\ x[2] = <<"ipd", 2>> /\ x[3] = <<"len", 3>>
      /\ \A j \in 1 .. 3 : x[3 + j] = At!Payload[j]
  BY <1>1, FrameTextIs
<1>3. x[4] = <<"ok", 1>> /\ x[5] = <<"ok", 2>> /\ x[6] = <<"data", 0>>
  <2>1. x[3 + 1] = At!Payload[1] /\ x[3 + 2] = At!Payload[2] /\ x[3 + 3] = At!Payload[3]
    BY <1>2
  <2> QED BY <2>1, PayloadIs
<1>4. \A i \in 1 .. Len(x) : i = 1 \/ i = 2 \/ i = 3 \/ i = 4 \/ i = 5 \/ i = 6
  BY <1>2
<1>5. FrameAt(x, 3)
  BY <1>2 DEF FrameAt
<1>6. FramesIn(x)
  <2>1. /\ x[1] # <<"ipd", 2>> /\ x[3] # <<"ipd", 2>> /\ x[4] # <<"ipd", 2>>
        /\ x[5] # <<"ipd", 2>> /\ x[6] # <<"ipd", 2>>
    BY <1>2, <1>3
  <2>2. ASSUME NEW i \in 1 .. Len(x), x[i] = <<"ipd", 2>> PROVE FrameAt(x, i + 1)
    <3>1. i = 2
      BY <2>1, <2>2, <1>4
    <3>2. i + 1 = 3
      BY <3>1
    <3> QED BY <3>2, <1>5
  <2> QED BY <2>2 DEF FramesIn
<1>7. ASSUME NEW i \in 1 .. Len(x) PROVE Paired(x, i) /\ Signals(x, i) /\ Headed(x, i)
  <2>1. CASE i = 1
    BY <2>1, <1>2 DEF Paired, Signals, Headed
  <2>2. CASE i = 2
    BY <2>2, <1>2 DEF Paired, Signals, Headed
  <2>3. CASE i = 3
    BY <2>3, <1>2 DEF Paired, Signals, Headed
  <2>4. CASE i = 4
    BY <2>4, <1>2, <1>3 DEF Paired, Signals, Headed
  <2>5. CASE i = 5
    BY <2>5, <1>2, <1>3 DEF Paired, Signals, Headed
  <2>6. CASE i = 6
    BY <2>6, <1>2, <1>3 DEF Paired, Signals, Headed
  <2> QED BY <2>1, <2>2, <2>3, <2>4, <2>5, <2>6, <1>4
<1>8. /\ ~Live(x, FALSE, 1) /\ ~Live(x, FALSE, 2) /\ ~Live(x, FALSE, 3)
      /\ ~Live(x, FALSE, 4) /\ ~Live(x, FALSE, 5) /\ ~Live(x, FALSE, 6)
  BY <1>2, <1>3 DEF Live, Acks
<1>9. NoneLive(x, FALSE)
  BY <1>4, <1>8 DEF NoneLive
<1> QED BY <1>1, <1>2, <1>6, <1>7, <1>9 DEF Speech, WholeTexts

LEMMA ChatterSpeaks ==
    ASSUME NEW what \in Chatter
    PROVE  Speech(At!ChatterText(what)) /\ NoneLive(At!ChatterText(what), FALSE)
<1>1. what \in {"ipd", "closed", "ready", "busy"}
  BY AtAssumption
<1>2. CASE what = "ipd"
  BY <1>2, FrameSpeaks DEF At!ChatterText
<1>3. CASE what # "ipd"
  <2>1. /\ what \in Kinds /\ what \in Kinds \ {"ipd", "signal"}
        /\ what \notin {"ok", "error", "send"}
    BY <1>1, <1>3 DEF Kinds
  <2>2. At!ChatterText(what) = At!Text(what)
    BY <1>3 DEF At!ChatterText
  <2>3. TwoOf(At!Text(what), <<what, 1>>, <<what, 2>>)
    BY <2>1, TextIs
  <2> QED BY <2>1, <2>2, <2>3, Plain
<1> QED BY <1>2, <1>3

(* The answers: to a command, with nothing owed half, and to its data.     *)
Awaited(s, p, h, b) ==
    \/ NoneLive(s, p)
    \/ b = 1 /\ h.data /\ h.del_cnt = 2 /\ OkThenSend(s, p)
    \/ b # 0 /\ h.data /\ h.del_cnt = 1 /\ OnlyLive(s, p, "send")
    \/ b # 0 /\ h.whole /\ h.del_cnt = 1 /\ OnlyLive(s, p, "ok")
    \/ b # 0 /\ OnlyLive(s, p, "error")

OneAnswer(x) ==
    \/ NoneLive(x, FALSE) \/ OnlyLive(x, FALSE, "ok") \/ OnlyLive(x, FALSE, "error")

LEMMA TextSpeaks ==
    ASSUME NEW k \in {"ok", "error", "busy", "send"}
    PROVE  /\ Speech(At!Text(k))
           /\ k = "busy" => NoneLive(At!Text(k), FALSE)
           /\ k # "busy" => OnlyLive(At!Text(k), FALSE, k)
<1>1. k \in Kinds /\ k \in Kinds \ {"ipd", "signal"}
  BY DEF Kinds
<1>2. TwoOf(At!Text(k), <<k, 1>>, <<k, 2>>)
  BY <1>1, TextIs
<1>3. k = "busy" => k \notin {"ok", "error", "send"}
  OBVIOUS
<1>4. k # "busy" => k \in {"ok", "error", "send"}
  OBVIOUS
<1> QED BY <1>1, <1>2, <1>3, <1>4, Plain

AnswerTo(x, d) ==
    /\ Speech(x)
    /\ ~d => OneAnswer(x)
    /\ d => \/ is_cmd_ok /\ OkThenSend(x, FALSE)
            \/ ~is_cmd_ok /\ OnlyLive(x, FALSE, "send")
            \/ OnlyLive(x, FALSE, "error")

LEMMA AnswersAre ==
    ASSUME NEW x \in At!Answers
    PROVE  AnswerTo(x, At!HasData)
<1>1. CASE ~At!HasData
  <2>1. \/ \E k \in {"ok", "error", "busy"} : x = At!Text(k)
        \/ x = At!Text("signal") \o At!Text("ok")
    BY <1>1 DEF At!Answers
  <2>2. CASE \E k \in {"ok", "error", "busy"} : x = At!Text(k)
    <3>1. PICK k \in {"ok", "error", "busy"} : x = At!Text(k)
      BY <2>2
    <3>2. k \in {"ok", "error", "busy", "send"}
      OBVIOUS
    <3> QED BY <3>1, <3>2, TextSpeaks, <1>1 DEF AnswerTo, OneAnswer
  <2>3. CASE x = At!Text("signal") \o At!Text("ok")
    <3>1. FourOf(x, <<"signal", 1>>, <<"signal", 2>>, <<"ok", 1>>, <<"ok", 2>>)
      BY <2>3, TwoTexts DEF Kinds
    <3> QED BY <3>1, SignalThenOk, <1>1 DEF AnswerTo, OneAnswer
  <2> QED BY <2>1, <2>2, <2>3
<1>2. CASE At!HasData
  <2>1. \/ x = At!Text("error")
        \/ x = (IF is_cmd_ok THEN At!Text("ok") ELSE <<>>) \o At!Text("send")
    BY <1>2 DEF At!Answers
  <2>2. CASE x = At!Text("error")
    BY <2>2, TextSpeaks, <1>2 DEF AnswerTo
  <2>3. CASE is_cmd_ok /\ x = At!Text("ok") \o At!Text("send")
    <3>1. FourOf(x, <<"ok", 1>>, <<"ok", 2>>, <<"send", 1>>, <<"send", 2>>)
      BY <2>3, TwoTexts DEF Kinds
    <3> QED BY <3>1, OkAndSend, <1>2, <2>3 DEF AnswerTo
  <2>4. CASE ~is_cmd_ok /\ x = <<>> \o At!Text("send")
    <3>1. At!Text("send") \in Seq(Piece)
      BY TextSpeaks DEF Speech
    <3>2. <<>> \o At!Text("send") = At!Text("send")
      BY <3>1
    <3> QED BY <3>2, <2>4, TextSpeaks, <1>2 DEF AnswerTo
  <2>5. is_cmd_ok \/ ~is_cmd_ok
    OBVIOUS
  <2> QED BY <2>1, <2>2, <2>3, <2>4, <2>5
<1> QED BY <1>1, <1>2

-----------------------------------------------------------------------------
(* What holds while the engine runs.                                       *)
AtStates == Kinds \cup {"idle", "read", "head", "write", "writeCmd", "writeWait", "writeData"}
AtCmds   == [data : BOOLEAN, retry : Int, del_cnt : {1, 2}, whole : BOOLEAN]

(* The string the engine found is there to be taken.                       *)
Starts(k) == Len(fifo) >= 2 /\ fifo[1] = <<k, 1>> /\ fifo[2] = <<k, 2>>

Found ==
    \/ offset_len = 2 /\ Starts(state)
    \/ state = "closed" /\ offset_len = 0
    \/ state = "send" /\ offset_len = 1 /\ Len(fifo) >= 1 /\ fifo[1] = <<"send", 1>>

AtFront ==
    ~parsing => /\ state = "head" => Len(fifo) >= 1 /\ fifo[1][2] = 1
                /\ state \in Kinds => Found

(* What a frame has is the beginning of what was sent, and the rest of it  *)
(* comes first in the stream.                                              *)
FramePieces == {"ok", "data"} \X Int

FrameHas(b, n) ==
    /\ b \in Seq(FramePieces) /\ Len(b) = 3
    /\ \A i \in 1 .. 3 : i <= n => b[i] = At!Payload[i]

AtParsing ==
    /\ ~parsing => frame = NoFrame /\ frame_sum = 0
    /\ parsing => frame_sum \in 0 .. 2 /\ FrameHas(frame, frame_sum) /\ RestOfFrame(Stream, frame_sum)

AtLine   == fifo \in Seq(Piece) /\ air \in Seq(Piece) /\ FramesIn(Stream)
AtEngine == state \in AtStates /\ parsing \in BOOLEAN /\ AtFront
AtList   == write_list \in Seq(AtCmds) /\ busy_flag \in 0 .. 2
FrameOut == frameOut \in {NoFrame, At!Payload}

AtBase == FrameOut /\ (atEnd = "run" => AtLine /\ AtParsing /\ AtEngine /\ AtList)

-----------------------------------------------------------------------------
(* What a step does to the stream.                                         *)
InFrame == parsing /\ frame_sum = 0

FrameRests == UNCHANGED <<parsing, frame, frame_sum, frameOut>>

LEMMA LineKept ==
    ASSUME AtLine, AtParsing, FrameOut, FrameRests,
           fifo' \in Seq(Piece), air' \in Seq(Piece), Stream' = Stream
    PROVE  AtLine' /\ AtParsing' /\ FrameOut' /\ InFrame' = InFrame
<1>1. AtLine'
  BY DEF AtLine
<1>2. AtParsing'
  BY DEF AtParsing, FrameRests
<1>3. FrameOut'
  BY DEF FrameOut, FrameRests
<1>4. InFrame' = InFrame
  BY DEF InFrame, FrameRests
<1> QED BY <1>1, <1>2, <1>3, <1>4

LEMMA LineRests ==
    ASSUME AtLine, AtParsing, FrameOut, FrameRests, UNCHANGED <<fifo, air>>
    PROVE  AtLine' /\ AtParsing' /\ FrameOut' /\ InFrame' = InFrame /\ Stream' = Stream
<1>1. fifo' \in Seq(Piece) /\ air' \in Seq(Piece)
  BY DEF AtLine
<1>2. Stream' = Stream
  BY DEF Stream
<1> QED BY <1>1, <1>2, LineKept

LEMMA LineAdds ==
    ASSUME AtLine, AtParsing, FrameOut, FrameRests, UNCHANGED fifo,
           NEW x \in Seq(Piece), FramesIn(x), air' = air \o x
    PROVE  /\ AtLine' /\ AtParsing' /\ FrameOut' /\ InFrame' = InFrame
           /\ AddOf(Stream', Stream, x)
<1>1. air' \in Seq(Piece) /\ fifo' \in Seq(Piece) /\ AddOf(Stream', Stream, x)
  BY Adds DEF AtLine, Stream
<1>2. AtLine'
  BY <1>1, FramesAdd DEF AtLine
<1>3. parsing => RestOfFrame(Stream, frame_sum) /\ frame_sum \in 0 .. 3
  BY DEF AtParsing
<1>4. parsing => RestOfFrame(Stream', frame_sum)
  BY <1>1, <1>3, RestAdd
<1>5. AtParsing'
  BY <1>4 DEF AtParsing, FrameRests
<1>6. FrameOut'
  BY DEF FrameOut, FrameRests
<1>7. InFrame' = InFrame
  BY DEF InFrame, FrameRests
<1> QED BY <1>1, <1>2, <1>5, <1>6, <1>7

(* HyFifoUpdateOut, no frame being read.                                   *)
LEMMA LineDrops ==
    ASSUME AtLine, AtParsing, FrameOut, ~parsing, FrameRests,
           NEW n \in 0 .. Len(fifo), fifo' = SubSeq(fifo, n + 1, Len(fifo)), UNCHANGED air
    PROVE  /\ AtLine' /\ AtParsing' /\ FrameOut' /\ ~InFrame /\ ~InFrame'
           /\ DropOf(Stream', Stream, n)
<1>1. fifo' \in Seq(Piece) /\ air' \in Seq(Piece) /\ DropOf(Stream', Stream, n)
  BY Drops DEF AtLine, Stream
<1>2. AtLine'
  BY <1>1, FramesDrop DEF AtLine
<1>3. ~parsing'
  BY DEF FrameRests
<1>4. AtParsing'
  BY <1>3 DEF AtParsing, FrameRests
<1>5. FrameOut'
  BY DEF FrameOut, FrameRests
<1>6. ~InFrame /\ ~InFrame'
  BY <1>3 DEF InFrame
<1> QED BY <1>1, <1>2, <1>4, <1>5, <1>6

LEMMA LineEmptied ==
    ASSUME AtLine, AtParsing, FrameOut, ~parsing, FrameRests, fifo' = <<>>, UNCHANGED air
    PROVE  /\ AtLine' /\ AtParsing' /\ FrameOut' /\ ~InFrame /\ ~InFrame'
           /\ DropOf(Stream', Stream, Len(fifo))
<1>1. Len(fifo) \in 0 .. Len(fifo) /\ fifo' = SubSeq(fifo, Len(fifo) + 1, Len(fifo))
  BY DEF AtLine
<1> QED BY <1>1, LineDrops

-----------------------------------------------------------------------------
(* What is peeked at.                                                      *)
LEMMA PeekIs ==
    ASSUME AtLine, AtParsing
    PROVE  /\ At!Peek \in Seq(Piece) /\ Len(At!Peek) <= Len(fifo)
           /\ parsing => frame_sum + Len(At!Peek) <= 3
           /\ Len(At!Peek) \in Nat /\ \A i \in 1 .. Len(At!Peek) : At!Peek[i] = fifo[i]
<1>1. fifo \in Seq(Piece) /\ Len(fifo) \in Nat /\ FactorLen \in Nat
  BY AtAssumption DEF AtLine
<1>2. At!Factor \in Nat /\ (parsing => frame_sum + At!Factor <= 3)
  <2>1. CASE ~parsing
    BY <2>1, <1>1 DEF AtParsing, At!Factor
  <2>2. CASE parsing
    <3>1. frame_sum \in 0 .. 2 /\ Len(frame) = 3 /\ frame # NoFrame
      BY <2>2, AtAssumption DEF AtParsing, FrameHas, FramePieces
    <3> QED BY <3>1, <1>1 DEF At!Factor, At!Least
  <2> QED BY <2>1, <2>2
<1>3. PICK n \in 0 .. Len(fifo) : n = At!Least(Len(fifo), At!Factor)
  BY <1>1, <1>2 DEF At!Least
<1>4. parsing => frame_sum + n <= 3
  <2> SUFFICES ASSUME parsing PROVE frame_sum + n <= 3
    OBVIOUS
  <2>1. n <= At!Factor
    BY <1>1, <1>2, <1>3 DEF At!Least
  <2>2. frame_sum \in 0 .. 2
    BY DEF AtParsing
  <2> QED BY <1>2, <2>1, <2>2
<1>5. At!Peek = SubSeq(fifo, 1, n)
  BY <1>3 DEF At!Peek
<1>6. /\ SubSeq(fifo, 1, n) \in Seq(Piece) /\ Len(SubSeq(fifo, 1, n)) = n
      /\ \A i \in 1 .. n : SubSeq(fifo, 1, n)[i] = fifo[i]
  BY <1>1
<1> QED BY <1>4, <1>5, <1>6

LEMMA FrontIs ==
    ASSUME AtLine
    PROVE  /\ Len(fifo) \in Nat /\ Stream \in Seq(Piece) /\ Len(Stream) \in Nat
           /\ Len(fifo) <= Len(Stream)
           /\ \A i \in 1 .. Len(fifo) : Stream[i] = fifo[i]
<1>1. AddOf(Stream, fifo, air)
  BY Joins DEF AtLine, Stream
<1>2. Len(fifo) \in Nat /\ Len(air) \in Nat /\ fifo \in Seq(Piece)
  BY DEF AtLine
<1> QED BY <1>1, <1>2 DEF AddOf

-----------------------------------------------------------------------------
(* Step by step: what always holds.                                        *)
LEMMA EngineIdles ==
    ASSUME parsing' \in BOOLEAN,
           state' \in {"idle", "read", "write", "writeCmd", "writeWait", "writeData"}
    PROVE  AtEngine'
<1>1. state' \in AtStates /\ state' \notin Kinds /\ state' # "head"
  BY DEF AtStates, Kinds
<1> QED BY <1>1 DEF AtEngine, AtFront

LEMMA ListRests ==
    ASSUME AtList, UNCHANGED <<write_list, busy_flag>>
    PROVE  AtList'
  BY DEF AtList

(* A change of the list's head.                                            *)
LEMMA HeadChanged ==
    ASSUME NEW l \in Seq(AtCmds), l # <<>>, NEW c \in AtCmds, NEW m, m = [l EXCEPT ![1] = c]
    PROVE  /\ m \in Seq(AtCmds) /\ Len(m) = Len(l) /\ m[1] = c /\ m # <<>>
           /\ Len(l) \in Nat \ {0} /\ \A i \in 2 .. Len(l) : m[i] = l[i]
<1>1. Len(l) \in Nat \ {0}
  OBVIOUS
<1>2. m \in Seq(AtCmds) /\ Len(m) = Len(l) /\ m[1] = c
  BY <1>1
<1>3. \A i \in 2 .. Len(l) : m[i] = l[i]
  OBVIOUS
<1>4. m # <<>>
  BY <1>1, <1>2
<1> QED BY <1>1, <1>2, <1>3, <1>4

HeadIs(h) == write_list # <<>> /\ h \in AtCmds /\ Head(write_list) = h /\ write_list[1] = h

LEMMA HeadThere ==
    ASSUME AtList, ~At!NoCommand
    PROVE  \E h : HeadIs(h)
<1>1. write_list # <<>> /\ write_list \in Seq(AtCmds)
  BY DEF AtList, At!NoCommand
<1>2. Head(write_list) \in AtCmds /\ Head(write_list) = write_list[1]
  BY <1>1
<1> QED BY <1>1, <1>2 DEF HeadIs

(* The head gets a new count, the other fields stay.                       *)
HeadRetried(h, r) == write_list' = [write_list EXCEPT ![1] = [h EXCEPT !.retry = r]]
HeadCounted(h)    == write_list' = [write_list EXCEPT ![1] = [h EXCEPT !.del_cnt = h.del_cnt - 1]]
HeadWritten(h, b) == write_list' = [write_list EXCEPT ![1] = [h EXCEPT !.whole = b]]

AtRuns == AtBase /\ atEnd = "run"

Quiet == UNCHANGED <<fifo, air>> /\ FrameRests

BaseLater == FrameOut' /\ AtLine' /\ AtParsing' /\ AtEngine' /\ AtList'

LEMMA RunsHave ==
    ASSUME AtRuns
    PROVE  FrameOut /\ AtLine /\ AtParsing /\ AtEngine /\ AtList /\ parsing \in BOOLEAN
  BY DEF AtRuns, AtBase, AtEngine

LEMMA BaseIs ==
    ASSUME BaseLater
    PROVE  AtBase'
  BY DEF BaseLater, AtBase

LEMMA BaseQuiet ==
    ASSUME AtRuns, Quiet, UNCHANGED <<write_list, busy_flag>>,
           state' \in {"idle", "read", "write", "writeCmd", "writeWait", "writeData"}
    PROVE  AtBase'
<1>1. FrameOut /\ AtLine /\ AtParsing /\ AtEngine /\ AtList /\ parsing \in BOOLEAN
  BY RunsHave
<1>2. AtLine' /\ AtParsing' /\ FrameOut'
  BY <1>1, LineRests DEF Quiet
<1>3. parsing' \in BOOLEAN
  BY <1>1 DEF Quiet, FrameRests
<1>4. AtEngine'
  BY <1>3, EngineIdles
<1>5. AtList'
  BY <1>1, ListRests
<1> QED BY <1>2, <1>4, <1>5, BaseIs DEF BaseLater

LEMMA BaseWaits ==
    ASSUME AtRuns,
           \/ At!ReadNothing \/ At!IdleRead \/ At!IdleWrite \/ At!WriteCmd \/ At!WriteCmdWait
    PROVE  AtBase'
<1>1. Quiet /\ UNCHANGED <<write_list, busy_flag>>
  BY DEF Quiet, FrameRests, At!ReadNothing, At!IdleRead, At!IdleWrite, At!WriteCmd, At!WriteCmdWait,
         At!line, At!queue, At!history
<1>2. state' \in {"idle", "read", "write", "writeCmd", "writeWait", "writeData"}
  BY DEF At!ReadNothing, At!IdleRead, At!IdleWrite, At!WriteCmd, At!WriteCmdWait
<1> QED BY <1>1, <1>2, BaseQuiet

TimedOut(h, r) ==
    /\ r \in Int /\ HeadRetried(h, r) /\ Quiet /\ UNCHANGED early
    /\ state' \in {"idle", "write"} /\ busy_flag' = 0

LEMMA TimeOutIs ==
    ASSUME AtRuns, At!IdleTimeOut
    PROVE  \E h : HeadIs(h) /\ \E r : TimedOut(h, r)
<1>1. AtList
  BY RunsHave
<1>2. PICK h : HeadIs(h)
  BY <1>1, HeadThere DEF At!IdleTimeOut
<1>3. PICK r \in Int : r = (Head(write_list).retry - 1) % RetryRange
  BY <1>2, AtAssumption DEF HeadIs, AtCmds
<1>4. write_list' = [write_list EXCEPT ![1].retry = r]
  BY <1>3 DEF At!IdleTimeOut
<1>5. HeadRetried(h, r)
  BY <1>2, <1>4 DEF HeadRetried, HeadIs
<1>6. Quiet /\ UNCHANGED early /\ busy_flag' = 0
  BY DEF Quiet, FrameRests, At!IdleTimeOut, At!line
<1>7. state' \in {"idle", "write"}
  BY DEF At!IdleTimeOut
<1> QED BY <1>2, <1>3, <1>5, <1>6, <1>7 DEF TimedOut

LEMMA RetriedList ==
    ASSUME AtList, NEW h, HeadIs(h), NEW r \in Int, HeadRetried(h, r)
    PROVE  write_list' \in Seq(AtCmds)
<1>1. [h EXCEPT !.retry = r] \in AtCmds
  BY DEF HeadIs, AtCmds
<1> QED BY <1>1, HeadChanged DEF HeadRetried, HeadIs, AtList

LEMMA BaseTimeOut ==
    ASSUME AtRuns, At!IdleTimeOut
    PROVE  AtBase'
<1>1. FrameOut /\ AtLine /\ AtParsing /\ AtEngine /\ AtList /\ parsing \in BOOLEAN
  BY RunsHave
<1>2. PICK h, r : HeadIs(h) /\ TimedOut(h, r)
  BY TimeOutIs
<1>3. AtLine' /\ AtParsing' /\ FrameOut'
  BY <1>1, <1>2, LineRests DEF Quiet, TimedOut
<1>4. parsing' \in BOOLEAN /\ state' \in {"idle", "read", "write", "writeCmd", "writeWait", "writeData"}
  BY <1>1, <1>2 DEF Quiet, FrameRests, TimedOut
<1>5. AtEngine'
  BY <1>4, EngineIdles
<1>6. AtList'
  BY <1>1, <1>2, RetriedList DEF TimedOut, AtList
<1> QED BY <1>3, <1>5, <1>6, BaseIs DEF BaseLater

(* HyFifoUpdateOut, and where the engine looks for a beginning.            *)
Dropped(n) ==
    n \in 0 .. Len(fifo) /\ fifo' = SubSeq(fifo, n + 1, Len(fifo)) /\ UNCHANGED air

Skips(n) == \A i \in 1 .. n : ~(fifo[i][2] = 1 /\ fifo[i][1] # "data")

LEMMA ConsumeIs ==
    ASSUME NEW n, n \in 0 .. Len(fifo), At!Consume(n)
    PROVE  Dropped(n) /\ offset_len' = 0
  BY DEF At!Consume, Dropped

FirstBegins(n) == n + 1 <= Len(fifo) /\ fifo[n + 1][2] = 1

StartedAt(n) ==
    /\ Dropped(n) /\ Skips(n) /\ FrameRests /\ UNCHANGED <<write_list, busy_flag>>
    /\ state' = "idle" \/ (state' = "head" /\ FirstBegins(n))

LEMMA StartIs ==
    ASSUME AtRuns, At!ReadStart
    PROVE  \E n : StartedAt(n)
<1>1. AtLine /\ AtParsing
  BY RunsHave
<1>2. PICK p : p = At!Peek
  OBVIOUS
<1>3. /\ Len(fifo) \in Nat /\ p \in Seq(Piece) /\ Len(p) \in Nat /\ Len(p) <= Len(fifo)
      /\ \A i \in 1 .. Len(p) : p[i] = fifo[i]
  BY <1>1, <1>2, PeekIs, FrontIs
<1>4. PICK B : B = At!Begins
  OBVIOUS
<1>5. B \subseteq 1 .. Len(p) /\ \A i \in 1 .. Len(p) : i \in B <=> (p[i][2] = 1 /\ p[i][1] # "data")
  BY <1>2, <1>3, <1>4 DEF At!Begins
<1>6. FrameRests /\ UNCHANGED <<write_list, busy_flag>>
  BY DEF FrameRests, At!ReadStart, At!queue, At!history
<1>7. CASE B = {}
  <2>1. At!Consume(Len(p)) /\ state' = "idle"
    BY <1>2, <1>4, <1>7 DEF At!ReadStart
  <2>2. Len(p) \in 0 .. Len(fifo)
    BY <1>3
  <2>3. Dropped(Len(p))
    BY <2>1, <2>2, ConsumeIs
  <2>4. Skips(Len(p))
    BY <1>3, <1>5, <1>7 DEF Skips
  <2> QED BY <1>6, <2>1, <2>3, <2>4 DEF StartedAt
<1>8. CASE B # {}
  <2>1. PICK f : f = CHOOSE i \in B : \A j \in B : i <= j
    OBVIOUS
  <2>2. B \subseteq Nat
    BY <1>3, <1>5
  <2>3. \E i \in B : \A j \in B : i <= j
    BY <2>2, <1>8, NatMin
  <2>4. f \in B /\ \A j \in B : f <= j
    BY <2>1, <2>3
  <2>5. PICK n \in 0 .. Len(fifo) : n = f - 1
    <3>1. f \in 1 .. Len(p)
      BY <1>5, <2>4
    <3>2. f - 1 \in 0 .. Len(fifo)
      BY <3>1, <1>3
    <3> QED BY <3>2
  <2>6. At!Consume(f - 1) /\ state' = "head"
    BY <1>2, <1>4, <1>8, <2>1 DEF At!ReadStart
  <2>7. Dropped(n)
    BY <2>5, <2>6, ConsumeIs
  <2>8. n + 1 = f /\ f \in 1 .. Len(p)
    BY <1>5, <2>4, <2>5, <1>3
  <2>9. Skips(n)
    <3> SUFFICES ASSUME NEW i \in 1 .. n PROVE ~(fifo[i][2] = 1 /\ fifo[i][1] # "data")
      BY DEF Skips
    <3>1. i \in 1 .. Len(p) /\ ~(f <= i)
      BY <2>8, <1>3
    <3>2. i \notin B
      BY <3>1, <2>4
    <3> QED BY <3>1, <3>2, <1>3, <1>5
  <2>10. FirstBegins(n)
    <3>1. fifo[f][2] = 1
      BY <2>4, <2>8, <1>3, <1>5
    <3>2. f <= Len(fifo)
      BY <2>8, <1>3
    <3> QED BY <3>1, <3>2, <2>8 DEF FirstBegins
  <2> QED BY <1>6, <2>6, <2>7, <2>9, <2>10 DEF StartedAt
<1> QED BY <1>7, <1>8

LEMMA DroppedAt ==
    ASSUME AtLine, NEW n, Dropped(n), NEW i \in 1 .. Len(fifo) - n
    PROVE  Len(fifo') = Len(fifo) - n /\ fifo'[i] = fifo[n + i]
<1>1. fifo \in Seq(Piece) /\ n \in 0 .. Len(fifo) /\ fifo' = SubSeq(fifo, n + 1, Len(fifo))
  BY DEF AtLine, Dropped
<1> QED BY <1>1

LEMMA BaseDrops ==
    ASSUME AtRuns, ~parsing, NEW n, Dropped(n), FrameRests, AtList',
           state' \in {"idle", "read", "write", "writeCmd", "writeWait", "writeData"} \/ AtEngine'
    PROVE  AtBase'
<1>1. FrameOut /\ AtLine /\ AtParsing /\ parsing \in BOOLEAN
  BY RunsHave
<1>2. AtLine' /\ AtParsing' /\ FrameOut'
  BY <1>1, LineDrops DEF Dropped
<1>3. parsing' \in BOOLEAN
  BY <1>1 DEF FrameRests
<1>4. AtEngine'
  BY <1>3, EngineIdles
<1> QED BY <1>2, <1>4, BaseIs DEF BaseLater

LEMMA BaseStart ==
    ASSUME AtRuns, At!ReadStart
    PROVE  AtBase'
<1>1. FrameOut /\ AtLine /\ AtParsing /\ AtEngine /\ AtList /\ parsing \in BOOLEAN
  BY RunsHave
<1>2. ~parsing
  BY DEF At!ReadStart, At!Reading, At!Running
<1>3. PICK n : StartedAt(n)
  BY StartIs
<1>4. AtList'
  BY <1>1, <1>3, ListRests DEF StartedAt
<1>5. CASE state' = "idle"
  BY <1>2, <1>3, <1>4, <1>5, BaseDrops DEF StartedAt
<1>6. CASE state' = "head" /\ FirstBegins(n)
  <2>1. n \in Nat /\ Len(fifo) \in Nat /\ n + 1 <= Len(fifo)
    BY <1>1, <1>3, <1>6, FrontIs DEF FirstBegins, StartedAt, Dropped
  <2>2. 1 \in 1 .. Len(fifo) - n
    BY <2>1
  <2>3. Len(fifo') = Len(fifo) - n /\ fifo'[1] = fifo[n + 1]
    BY <1>1, <1>3, <2>2, DroppedAt DEF StartedAt
  <2>4. Len(fifo') >= 1 /\ fifo'[1][2] = 1
    BY <2>1, <2>3, <1>6 DEF FirstBegins
  <2>5. state' \in AtStates /\ state' \notin Kinds
    BY <1>6 DEF AtStates, Kinds
  <2>6. parsing' \in BOOLEAN
    BY <1>1, <1>3 DEF StartedAt, FrameRests
  <2>7. AtEngine'
    BY <2>4, <2>5, <2>6 DEF AtEngine, AtFront
  <2> QED BY <1>2, <1>3, <1>4, <2>7, BaseDrops DEF StartedAt
<1> QED BY <1>3, <1>5, <1>6 DEF StartedAt

LEMMA FirstTwo ==
    ASSUME NEW p \in Seq(Piece), Len(p) >= 2
    PROVE  SubSeq(p, 1, 2) = <<p[1], p[2]>>
<1>1. Len(p) \in Nat
  OBVIOUS
<1>2. PICK q : q = SubSeq(p, 1, 2)
  OBVIOUS
<1>3. q \in Seq(Piece) /\ Len(q) = 2 /\ q[1] = p[1] /\ q[2] = p[2]
  BY <1>1, <1>2
<1>4. q = <<q[1], q[2]>>
  BY <1>3
<1> QED BY <1>2, <1>3, <1>4

(* The string that was found is taken.                                     *)
LEMMA FoundIs ==
    ASSUME AtRuns, ~parsing, state \in Kinds
    PROVE  /\ Len(fifo) \in Nat /\ offset_len \in 0 .. Len(fifo)
           /\ state \notin {"closed", "send"} => offset_len = 2 /\ Starts(state)
           /\ state = "closed" => offset_len = 0 \/ (offset_len = 2 /\ Starts(state))
           /\ state = "send" => \/ offset_len = 2 /\ Starts(state)
                                \/ offset_len = 1 /\ Len(fifo) >= 1 /\ fifo[1] = <<"send", 1>>
<1>1. Found /\ Len(fifo) \in Nat
  BY RunsHave, FrontIs DEF AtEngine, AtFront
<1>2. offset_len \in 0 .. Len(fifo)
  BY <1>1 DEF Found, Starts
<1> QED BY <1>1, <1>2 DEF Found

HeadFound(k) == Starts(k) /\ k \in Kinds /\ state' = k /\ offset_len' = 2 /\ UNCHANGED <<fifo, air>>
PromptFound  ==
    /\ fifo = <<<<"send", 1>>>> /\ state' = "send" /\ offset_len' = 1 /\ UNCHANGED <<fifo, air>>
Mistaken     == Len(fifo) >= 2 /\ fifo[2] # <<fifo[1][1], 2>> /\ state' = "idle" /\ Dropped(1)

LEMMA HeadReadIs ==
    ASSUME AtRuns, At!ReadHead
    PROVE  /\ FrameRests /\ UNCHANGED <<write_list, busy_flag>>
           /\ ~parsing /\ state = "head" /\ Len(fifo) >= 1 /\ fifo[1] = <<fifo[1][1], 1>>
           /\ (\E k : HeadFound(k)) \/ PromptFound \/ Mistaken
<1>1. AtLine /\ AtParsing /\ AtEngine
  BY RunsHave
<1>2. FrameRests /\ UNCHANGED <<write_list, busy_flag>>
  BY DEF FrameRests, At!ReadHead, At!queue, At!history
<1>3. ~parsing /\ state = "head"
  BY DEF At!ReadHead, At!Reading, At!Running
<1>4. Len(fifo) >= 1 /\ fifo[1][2] = 1 /\ Len(fifo) \in Nat /\ fifo \in Seq(Piece)
  BY <1>1, <1>3, FrontIs DEF AtEngine, AtFront, AtLine
<1>5. fifo[1] \in Piece
  BY <1>4
<1>6. fifo[1][1] \in Kinds /\ fifo[1] = <<fifo[1][1], 1>>
  BY <1>4, <1>5, PieceBegins
<1>7. PICK p : p = At!Peek
  OBVIOUS
<1>8. /\ p \in Seq(Piece) /\ Len(p) \in Nat /\ Len(p) <= Len(fifo)
      /\ \A i \in 1 .. Len(p) : p[i] = fifo[i]
  BY <1>1, <1>7, PeekIs
<1>9. PICK k : k = p[1][1]
  OBVIOUS
<1>10. \/ Len(p) >= 2 /\ SubSeq(p, 1, 2) = At!Text(k) /\ state' = k /\ offset_len' = 2
          /\ UNCHANGED <<fifo, air>>
       \/ PromptFound
       \/ Len(p) >= 2 /\ SubSeq(p, 1, 2) # At!Text(k) /\ state' = "idle" /\ At!Consume(1)
  BY <1>7, <1>9 DEF At!ReadHead, PromptFound
<1>11. ASSUME Len(p) >= 2
       PROVE  /\ Len(fifo) >= 2 /\ p[1] = fifo[1] /\ p[2] = fifo[2] /\ k = fifo[1][1]
              /\ SubSeq(p, 1, 2) = <<p[1], p[2]>> /\ At!Text(k) = <<<<k, 1>>, <<k, 2>>>>
  <2>1. Len(fifo) >= 2 /\ p[1] = fifo[1] /\ p[2] = fifo[2]
    BY <1>4, <1>8, <1>11
  <2>2. SubSeq(p, 1, 2) = <<p[1], p[2]>>
    BY <1>8, <1>11, FirstTwo
  <2> QED BY <2>1, <2>2, <1>9 DEF At!Text
<1>12. CASE /\ Len(p) >= 2 /\ SubSeq(p, 1, 2) = At!Text(k) /\ state' = k /\ offset_len' = 2
            /\ UNCHANGED <<fifo, air>>
  <2>1. p[1] = <<k, 1>> /\ p[2] = <<k, 2>>
    BY <1>11, <1>12
  <2>2. Starts(k) /\ k \in Kinds
    BY <2>1, <1>11, <1>12, <1>6 DEF Starts
  <2>3. HeadFound(k)
    BY <2>2, <1>12 DEF HeadFound
  <2> QED BY <2>3, <1>2, <1>3, <1>4, <1>6
<1>13. CASE Len(p) >= 2 /\ SubSeq(p, 1, 2) # At!Text(k) /\ state' = "idle" /\ At!Consume(1)
  <2>1. fifo[2] # <<fifo[1][1], 2>>
    BY <1>6, <1>11, <1>13
  <2>2. 1 \in 0 .. Len(fifo)
    BY <1>4
  <2>3. Dropped(1)
    BY <2>2, <1>13, ConsumeIs
  <2>4. Mistaken
    BY <2>1, <2>3, <1>11, <1>13 DEF Mistaken
  <2> QED BY <2>4, <1>2, <1>3, <1>4, <1>6
<1> QED BY <1>2, <1>3, <1>4, <1>6, <1>10, <1>12, <1>13

LEMMA BaseHead ==
    ASSUME AtRuns, At!ReadHead
    PROVE  AtBase'
<1>1. FrameOut /\ AtLine /\ AtParsing /\ AtEngine /\ AtList /\ parsing \in BOOLEAN
  BY RunsHave
<1>2. /\ FrameRests /\ UNCHANGED <<write_list, busy_flag>> /\ ~parsing
      /\ (\E k : HeadFound(k)) \/ PromptFound \/ Mistaken
  BY HeadReadIs
<1>3. AtList'
  BY <1>1, <1>2, ListRests
<1>4. parsing' \in BOOLEAN
  BY <1>1, <1>2 DEF FrameRests
<1>5. ASSUME UNCHANGED <<fifo, air>>, AtEngine' PROVE AtBase'
  <2>1. AtLine' /\ AtParsing' /\ FrameOut'
    BY <1>1, <1>2, <1>5, LineRests
  <2> QED BY <2>1, <1>3, <1>5, BaseIs DEF BaseLater
<1>6. ASSUME NEW k, HeadFound(k) PROVE AtBase'
  <2>1. state' \in AtStates /\ state' # "head" /\ state' = k
    BY <1>6 DEF HeadFound, AtStates, Kinds
  <2>2. Starts(k)'
    BY <1>6 DEF HeadFound, Starts
  <2>3. Found'
    BY <2>1, <2>2, <1>6 DEF Found, HeadFound, Starts
  <2>4. AtEngine'
    BY <2>1, <2>3, <1>4 DEF AtEngine, AtFront
  <2> QED BY <2>4, <1>5, <1>6 DEF HeadFound
<1>7. ASSUME PromptFound PROVE AtBase'
  <2>1. fifo' = fifo /\ Len(fifo) >= 1 /\ fifo[1] = <<"send", 1>>
    BY <1>7 DEF PromptFound
  <2>2. Found'
    BY <2>1, <1>7 DEF Found, PromptFound
  <2>3. state' \in AtStates /\ state' # "head"
    BY <1>7 DEF PromptFound, AtStates, Kinds
  <2>4. AtEngine'
    BY <2>2, <2>3, <1>4 DEF AtEngine, AtFront
  <2> QED BY <2>4, <1>5, <1>7 DEF PromptFound
<1>8. ASSUME Mistaken PROVE AtBase'
  BY <1>2, <1>3, <1>8, BaseDrops DEF Mistaken
<1> QED BY <1>2, <1>6, <1>7, <1>8

LEMMA BaseLone ==
    ASSUME AtRuns, At!ReadLone
    PROVE  AtBase'
<1>1. FrameOut /\ AtLine /\ AtParsing /\ AtEngine /\ AtList /\ parsing \in BOOLEAN
  BY RunsHave
<1>2. ~parsing /\ state' = "idle" /\ FrameRests /\ UNCHANGED <<write_list, busy_flag>>
  BY DEF FrameRests, At!ReadLone, At!queue, At!Reading, At!Running
<1>3. 1 \in 0 .. Len(fifo) /\ At!Consume(1)
  BY DEF At!ReadLone
<1>4. Dropped(1)
  BY <1>3, ConsumeIs
<1>5. AtList'
  BY <1>1, <1>2, ListRests
<1> QED BY <1>2, <1>4, <1>5, BaseDrops

Lost == At!NoCommand /\ atEnd' = "ub" /\ UNCHANGED <<frameOut, upset>>

LEMMA BaseLost ==
    ASSUME AtRuns, Lost
    PROVE  AtBase'
  BY DEF AtRuns, AtBase, Lost, FrameOut

OkTaken(h) ==
    /\ HeadIs(h) /\ Dropped(2) /\ FrameRests /\ state' = "idle" /\ UNCHANGED <<upset, atEnd>>
    /\ busy_flag' = IF busy_flag = 2 \/ ~h.data THEN 0 ELSE busy_flag
    /\ \/ h.del_cnt = 1 /\ write_list' = Tail(write_list) /\ early' = (early \/ ~h.whole)
       \/ h.del_cnt # 1 /\ HeadCounted(h) /\ UNCHANGED early

ErrorTaken(h) ==
    /\ HeadIs(h) /\ Dropped(Len(fifo)) /\ FrameRests /\ state' = "write" /\ UNCHANGED <<early, atEnd, busy_flag>>
    /\ \E r \in Int : /\ \/ r = 0 /\ write_list' = Tail(write_list)
                         \/ r # 0 /\ HeadRetried(h, r)
                      /\ upset' = (upset \/ r = 0 \/ At!Halfway \/ Len(fifo) > 2)

LEMMA OkReadIs ==
    ASSUME AtRuns, At!ReadOk
    PROVE  ~parsing /\ state = "ok" /\ Starts("ok") /\ (Lost \/ \E h : OkTaken(h))
<1>1. AtLine /\ AtList
  BY RunsHave
<1>2. ~parsing /\ state = "ok" /\ state \in Kinds
  BY DEF At!ReadOk, At!Reading, At!Running, Kinds
<1>3. Starts("ok") /\ offset_len = 2 /\ offset_len \in 0 .. Len(fifo)
  BY <1>2, FoundIs
<1>4. CASE At!NoCommand
  <2>1. Lost
    BY <1>4 DEF Lost, At!ReadOk, At!Undefined, At!history
  <2> QED BY <2>1, <1>2, <1>3
<1>5. CASE ~At!NoCommand
  <2>1. PICK h : HeadIs(h)
    BY <1>1, <1>5, HeadThere
  <2>2. /\ busy_flag' = IF busy_flag = 2 \/ ~h.data THEN 0 ELSE busy_flag
        /\ IF h.del_cnt = 1
           THEN write_list' = Tail(write_list) /\ early' = (early \/ ~h.whole)
           ELSE write_list' = [write_list EXCEPT ![1].del_cnt = @ - 1] /\ UNCHANGED early
        /\ At!Consume(offset_len) /\ state' = "idle"
        /\ UNCHANGED <<parsing, frame, frame_sum, elapsed, cmds, frameOut, upset, atEnd>>
    BY <1>5, <2>1 DEF At!ReadOk, At!HasData, HeadIs
  <2>3. Dropped(2)
    BY <2>2, <1>3, ConsumeIs
  <2>4. h.del_cnt # 1 => HeadCounted(h)
    BY <2>1, <2>2 DEF HeadCounted, HeadIs
  <2>5. FrameRests /\ UNCHANGED <<upset, atEnd>>
    BY <2>2 DEF FrameRests
  <2>6. OkTaken(h)
    BY <2>1, <2>2, <2>3, <2>4, <2>5 DEF OkTaken
  <2> QED BY <2>6, <1>2, <1>3
<1> QED BY <1>4, <1>5

LEMMA ErrorReadIs ==
    ASSUME AtRuns, At!ReadError
    PROVE  ~parsing /\ state = "error" /\ Starts("error") /\ (Lost \/ \E h : ErrorTaken(h))
<1>1. AtLine /\ AtList
  BY RunsHave
<1>2. ~parsing /\ state = "error" /\ state \in Kinds
  BY DEF At!ReadError, At!Reading, At!Running, Kinds
<1>3. Starts("error") /\ Len(fifo) \in Nat
  BY <1>2, FoundIs
<1>4. CASE At!NoCommand
  <2>1. Lost
    BY <1>4 DEF Lost, At!ReadError, At!Undefined, At!history
  <2> QED BY <2>1, <1>2, <1>3
<1>5. CASE ~At!NoCommand
  <2>1. PICK h : HeadIs(h)
    BY <1>1, <1>5, HeadThere
  <2>2. PICK r \in Int : r = (Head(write_list).retry - 1) % RetryRange
    BY <2>1, AtAssumption DEF HeadIs, AtCmds
  <2>3. /\ fifo' = <<>> /\ state' = "write"
        /\ write_list' = IF r = 0 THEN Tail(write_list) ELSE [write_list EXCEPT ![1].retry = r]
        /\ upset' = (upset \/ r = 0 \/ At!Halfway \/ Len(fifo) > 2)
        /\ UNCHANGED <<air, chat, offset_len, busy_flag, parsing, frame, frame_sum,
                       elapsed, cmds, early, frameOut, atEnd>>
    BY <1>5, <2>2 DEF At!ReadError
  <2>4. Len(fifo) \in 0 .. Len(fifo) /\ fifo' = SubSeq(fifo, Len(fifo) + 1, Len(fifo))
    BY <1>1, <2>3 DEF AtLine
  <2>5. Dropped(Len(fifo))
    BY <2>3, <2>4 DEF Dropped
  <2>6. r # 0 => HeadRetried(h, r)
    BY <2>1, <2>3 DEF HeadRetried, HeadIs
  <2>7. FrameRests /\ UNCHANGED <<early, atEnd, busy_flag>>
    BY <2>3 DEF FrameRests
  <2>8. ErrorTaken(h)
    BY <2>1, <2>3, <2>5, <2>6, <2>7 DEF ErrorTaken
  <2> QED BY <2>8, <1>2, <1>3
<1> QED BY <1>4, <1>5

LEMMA TailList ==
    ASSUME NEW l \in Seq(AtCmds), l # <<>>
    PROVE  /\ Tail(l) \in Seq(AtCmds) /\ Len(l) \in Nat \ {0} /\ Len(Tail(l)) = Len(l) - 1
           /\ \A i \in 1 .. Len(l) - 1 : Tail(l)[i] = l[i + 1]
  OBVIOUS

LEMMA CountedHead ==
    ASSUME NEW h \in AtCmds, h.del_cnt # 1
    PROVE  /\ [h EXCEPT !.del_cnt = h.del_cnt - 1] \in AtCmds /\ h.del_cnt = 2
           /\ [h EXCEPT !.del_cnt = h.del_cnt - 1].del_cnt = 1
           /\ [h EXCEPT !.del_cnt = h.del_cnt - 1].data = h.data
           /\ [h EXCEPT !.del_cnt = h.del_cnt - 1].whole = h.whole
<1>1. h.del_cnt = 2
  BY DEF AtCmds
<1>2. h.del_cnt - 1 = 1
  BY <1>1
<1> QED BY <1>1, <1>2 DEF AtCmds

LEMMA BaseOk ==
    ASSUME AtRuns, At!ReadOk
    PROVE  AtBase'
<1>1. FrameOut /\ AtLine /\ AtParsing /\ AtEngine /\ AtList /\ parsing \in BOOLEAN
  BY RunsHave
<1>2. ~parsing /\ (Lost \/ \E h : OkTaken(h))
  BY OkReadIs
<1>3. ASSUME NEW h, OkTaken(h) PROVE AtBase'
  <2>1. write_list \in Seq(AtCmds) /\ busy_flag \in 0 .. 2
    BY <1>1 DEF AtList
  <2>2. busy_flag' \in 0 .. 2
    BY <2>1, <1>3 DEF OkTaken
  <2>3. write_list' \in Seq(AtCmds)
    <3>1. CASE write_list' = Tail(write_list)
      BY <3>1, <2>1, <1>3, TailList DEF OkTaken, HeadIs
    <3>2. CASE h.del_cnt # 1 /\ HeadCounted(h)
      BY <3>2, <2>1, <1>3, CountedHead, HeadChanged DEF OkTaken, HeadIs, HeadCounted
    <3> QED BY <3>1, <3>2, <1>3 DEF OkTaken
  <2>4. AtList'
    BY <2>2, <2>3 DEF AtList
  <2> QED BY <2>4, <1>2, <1>3, BaseDrops DEF OkTaken
<1> QED BY <1>2, <1>3, BaseLost

LEMMA BaseError ==
    ASSUME AtRuns, At!ReadError
    PROVE  AtBase'
<1>1. FrameOut /\ AtLine /\ AtParsing /\ AtEngine /\ AtList /\ parsing \in BOOLEAN
  BY RunsHave
<1>2. ~parsing /\ (Lost \/ \E h : ErrorTaken(h))
  BY ErrorReadIs
<1>3. ASSUME NEW h, ErrorTaken(h) PROVE AtBase'
  <2>1. write_list \in Seq(AtCmds) /\ busy_flag \in 0 .. 2
    BY <1>1 DEF AtList
  <2>2. busy_flag' \in 0 .. 2
    BY <2>1, <1>3 DEF ErrorTaken
  <2>3. write_list' \in Seq(AtCmds)
    <3>1. CASE write_list' = Tail(write_list)
      BY <3>1, <2>1, <1>3, TailList DEF ErrorTaken, HeadIs
    <3>2. ASSUME NEW r \in Int, HeadRetried(h, r) PROVE write_list' \in Seq(AtCmds)
      BY <3>2, <1>1, <1>3, RetriedList DEF ErrorTaken
    <3> QED BY <3>1, <3>2, <1>3 DEF ErrorTaken
  <2>4. AtList'
    BY <2>2, <2>3 DEF AtList
  <2> QED BY <2>4, <1>2, <1>3, BaseDrops DEF ErrorTaken
<1> QED BY <1>2, <1>3, BaseLost

(* The strings that are only taken.                                        *)
PlainTaken(s) ==
    /\ state = s /\ ~parsing /\ Dropped(offset_len) /\ offset_len' = 0 /\ FrameRests
    /\ UNCHANGED <<write_list, busy_flag, early, upset, atEnd>>
    /\ state' = CASE s = "ready" -> "idle" [] s = "busy" -> "read"
                  [] s = "send" -> "writeData" [] s = "closed" -> "closed"

LEMMA PlainReadIs ==
    ASSUME AtRuns, At!ReadPlain
    PROVE  \E s \in {"ready", "busy", "send", "closed"} : PlainTaken(s)
<1>1. PICK s \in {"ready", "busy", "send", "closed"} :
          /\ At!Reading(s)
          /\ state' = CASE s = "ready" -> "idle" [] s = "busy" -> "read"
                        [] s = "send" -> "writeData" [] s = "closed" -> "closed"
  BY DEF At!ReadPlain
<1>2. ~parsing /\ state = s /\ state \in Kinds
  BY <1>1 DEF At!Reading, At!Running, Kinds
<1>3. offset_len \in 0 .. Len(fifo)
  BY <1>2, FoundIs
<1>4. Dropped(offset_len) /\ offset_len' = 0
  BY <1>3, ConsumeIs DEF At!ReadPlain
<1>5. FrameRests /\ UNCHANGED <<write_list, busy_flag, early, upset, atEnd>>
  BY DEF FrameRests, At!ReadPlain, At!queue, At!history
<1> QED BY <1>1, <1>2, <1>4, <1>5 DEF PlainTaken

LEMMA BasePlain ==
    ASSUME AtRuns, At!ReadPlain
    PROVE  AtBase'
<1>1. FrameOut /\ AtLine /\ AtParsing /\ AtEngine /\ AtList /\ parsing \in BOOLEAN
  BY RunsHave
<1>2. PICK s \in {"ready", "busy", "send", "closed"} : PlainTaken(s)
  BY PlainReadIs
<1>3. AtList'
  BY <1>1, <1>2, ListRests DEF PlainTaken
<1>4. CASE s # "closed"
  <2>1. state' \in {"idle", "read", "write", "writeCmd", "writeWait", "writeData"}
    BY <1>2, <1>4 DEF PlainTaken
  <2> QED BY <2>1, <1>2, <1>3, BaseDrops DEF PlainTaken
<1>5. CASE s = "closed"
  <2>1. state' = "closed" /\ offset_len' = 0
    BY <1>2, <1>5 DEF PlainTaken
  <2>2. state' \in AtStates /\ state' # "head" /\ Found'
    BY <2>1 DEF Found, AtStates, Kinds
  <2>3. AtEngine'
    BY <2>2, <1>1, <1>2 DEF AtEngine, AtFront, PlainTaken, FrameRests
  <2> QED BY <2>3, <1>2, <1>3, BaseDrops DEF PlainTaken
<1> QED BY <1>4, <1>5

(* Up to the OK.                                                           *)
SignalTaken(n) ==
    /\ state = "signal" /\ ~parsing /\ Starts("signal") /\ Dropped(n) /\ FrameRests
    /\ UNCHANGED <<write_list, busy_flag, early, upset, atEnd>> /\ state' = "idle"
    /\ n + 1 <= Len(fifo) /\ fifo[n + 1] = <<"ok", 1>> /\ \A j \in 1 .. n : fifo[j] # <<"ok", 1>>

LEMMA SignalReadIs ==
    ASSUME AtRuns, At!ReadSignal
    PROVE  \E n : SignalTaken(n)
<1>1. AtLine /\ AtParsing
  BY RunsHave
<1>2. ~parsing /\ state = "signal" /\ state \in Kinds
  BY DEF At!ReadSignal, At!Reading, At!Running, Kinds
<1>3. Starts("signal") /\ Len(fifo) \in Nat
  BY <1>2, FoundIs
<1>4. PICK p : p = At!Peek
  OBVIOUS
<1>5. /\ p \in Seq(Piece) /\ Len(p) \in Nat /\ Len(p) <= Len(fifo)
      /\ \A i \in 1 .. Len(p) : p[i] = fifo[i]
  BY <1>1, <1>4, PeekIs
<1>11. PICK n \in 0 .. Len(p) :
          /\ n + 1 \in DOMAIN p /\ p[n + 1] = <<"ok", 1>>
          /\ (\A j \in 1 .. n : p[j] # <<"ok", 1>>) /\ At!Consume(n)
  BY <1>4, Zenon DEF At!ReadSignal, At!BeforeOk
<1>12. DOMAIN p = 1 .. Len(p)
  BY <1>5
<1>6. /\ n + 1 \in 1 .. Len(p) /\ p[n + 1] = <<"ok", 1>>
      /\ (\A j \in 1 .. n : p[j] # <<"ok", 1>>) /\ At!Consume(n)
  BY <1>11, <1>12
<1>7. n \in 0 .. Len(fifo) /\ n + 1 <= Len(fifo) /\ fifo[n + 1] = <<"ok", 1>>
  BY <1>3, <1>5, <1>6
<1>8. ASSUME NEW j \in 1 .. n PROVE fifo[j] # <<"ok", 1>>
  BY <1>5, <1>6
<1>9. Dropped(n)
  BY <1>6, <1>7, ConsumeIs
<1>10. FrameRests /\ UNCHANGED <<write_list, busy_flag, early, upset, atEnd>> /\ state' = "idle"
  BY DEF FrameRests, At!ReadSignal, At!queue, At!history
<1> QED BY <1>2, <1>3, <1>7, <1>8, <1>9, <1>10 DEF SignalTaken

LEMMA BaseSignal ==
    ASSUME AtRuns, At!ReadSignal
    PROVE  AtBase'
<1>1. AtList
  BY RunsHave
<1>2. PICK n : SignalTaken(n)
  BY SignalReadIs
<1>3. AtList'
  BY <1>1, <1>2, ListRests DEF SignalTaken
<1> QED BY <1>2, <1>3, BaseDrops DEF SignalTaken

-----------------------------------------------------------------------------
(* Frames.                                                                 *)
LEMMA FrameIsWhole ==
    ASSUME NEW b, FrameHas(b, 3)
    PROVE  b = At!Payload
<1>1. b \in Seq(FramePieces) /\ Len(b) = 3
  BY DEF FrameHas
<1>2. b[1] = At!Payload[1] /\ b[2] = At!Payload[2] /\ b[3] = At!Payload[3]
  BY DEF FrameHas
<1>3. b = <<b[1], b[2], b[3]>>
  BY <1>1
<1>4. PICK c \in Seq(Piece) : c = At!Payload
  BY PayloadIs
<1>5. Len(c) = 3
  BY <1>4, PayloadIs
<1>6. c = <<c[1], c[2], c[3]>>
  BY <1>5
<1> QED BY <1>2, <1>3, <1>4, <1>6

LEMMA FunctionIsSeq ==
    ASSUME NEW T, NEW n \in Nat, NEW c \in [1 .. n -> T]
    PROVE  c \in Seq(T) /\ Len(c) = n
  OBVIOUS

LEMMA FrameIsSeq ==
    ASSUME NEW c \in [1 .. 3 -> FramePieces]
    PROVE  c \in Seq(FramePieces) /\ Len(c) = 3
<1>1. 3 \in Nat
  OBVIOUS
<1> QED BY <1>1, FunctionIsSeq, Zenon

LEMMA PieceOfFrame ==
    ASSUME NEW b \in Seq(FramePieces), NEW i \in 1 .. Len(b)
    PROVE  b[i] \in FramePieces
  OBVIOUS

LEMMA FilledHas ==
    ASSUME frame_sum \in 0 .. 2, NEW b, FrameHas(b, frame_sum), NEW d \in Seq(Piece),
           frame_sum + Len(d) <= 3, \A i \in 1 .. Len(d) : d[i] = At!Payload[frame_sum + i]
    PROVE  FrameHas(At!Filled(b, d), frame_sum + Len(d))
<1> DEFINE c == [i \in 1 .. 3 |-> IF i - frame_sum \in 1 .. Len(d) THEN d[i - frame_sum] ELSE b[i]]
<1>1. b \in Seq(FramePieces) /\ Len(b) = 3 /\ DOMAIN b = 1 .. 3
  BY DEF FrameHas
<1>2. DOMAIN d = 1 .. Len(d) /\ Len(d) \in Nat
  OBVIOUS
<1>3. At!Filled(b, d) = c
  BY <1>1, <1>2 DEF At!Filled
<1>4. ASSUME NEW i \in 1 .. 3, i - frame_sum \in 1 .. Len(d)
      PROVE  c[i] = At!Payload[i]
  <2>1. PICK j \in 1 .. Len(d) : j = i - frame_sum
    BY <1>4
  <2>2. c[i] = d[j]
    BY <1>4, <2>1
  <2>3. frame_sum + j = i
    BY <2>1
  <2>4. d[j] = At!Payload[frame_sum + j]
    OBVIOUS
  <2> QED BY <2>2, <2>3, <2>4
<1>5. ASSUME NEW i \in 1 .. 3, i <= frame_sum + Len(d)
      PROVE  c[i] = At!Payload[i]
  <2>1. CASE i <= frame_sum
    <3>1. ~(i - frame_sum \in 1 .. Len(d))
      BY <2>1
    <3>2. c[i] = b[i]
      BY <3>1
    <3> QED BY <3>2, <2>1 DEF FrameHas
  <2>2. CASE i > frame_sum
    <3>1. i - frame_sum \in 1 .. Len(d)
      BY <2>2, <1>2, <1>5
    <3> QED BY <3>1, <1>4
  <2> QED BY <2>1, <2>2
<1>6. ASSUME NEW i \in 1 .. 3 PROVE c[i] \in FramePieces
  <2>1. CASE i - frame_sum \in 1 .. Len(d)
    <3>1. c[i] = At!Payload[i]
      BY <2>1, <1>4
    <3>3. /\ At!Payload[1] \in FramePieces /\ At!Payload[2] \in FramePieces
          /\ At!Payload[3] \in FramePieces
      BY PayloadIs DEF FramePieces
    <3>4. i = 1 \/ i = 2 \/ i = 3
      OBVIOUS
    <3>2. At!Payload[i] \in FramePieces
      BY <3>3, <3>4
    <3> QED BY <3>1, <3>2
  <2>2. CASE i - frame_sum \notin 1 .. Len(d)
    <3>1. c[i] = b[i]
      BY <2>2
    <3>2. i \in 1 .. Len(b)
      BY <1>1
    <3>3. b[i] \in FramePieces
      BY <3>2, <1>1, PieceOfFrame
    <3> QED BY <3>1, <3>3
  <2> QED BY <2>1, <2>2
<1>7. c \in Seq(FramePieces) /\ Len(c) = 3
  <2>1. c \in [1 .. 3 -> FramePieces]
    BY <1>6
  <2> HIDE DEF c
  <2> QED BY <2>1, FrameIsSeq, Zenon
<1> HIDE DEF c
<1> QED BY <1>3, <1>5, <1>7 DEF FrameHas

LEMMA RestLater ==
    ASSUME NEW s, NEW t, NEW n, DropOf(t, s, n), NEW k \in 0 .. 3, n + 3 - k <= Len(s),
           \A j \in 1 .. 3 - k : s[j + n] = At!Payload[k + j]
    PROVE  RestOfFrame(t, k)
<1>1. Len(s) \in Nat /\ Len(t) \in Nat /\ n \in Nat /\ Len(t) = Len(s) - n
  BY DEF DropOf
<1>2. ASSUME NEW j \in 1 .. 3 - k PROVE t[j] = At!Payload[k + j]
  <2>1. j \in 1 .. Len(t)
    BY <1>1
  <2> QED BY <2>1 DEF DropOf
<1> QED BY <1>1, <1>2 DEF RestOfFrame

(* n pieces are taken and the frame has k of its three.                    *)
FrameTaken(n, k) ==
    /\ n \in 0 .. Len(fifo) /\ Dropped(n) /\ k \in 0 .. 3
    /\ UNCHANGED <<write_list, busy_flag, early, upset, atEnd>>
    /\ \/ /\ k = 3 /\ frameOut' = At!Payload /\ state' = "idle"
          /\ parsing' = FALSE /\ frame' = NoFrame /\ frame_sum' = 0
       \/ /\ k # 3 /\ UNCHANGED frameOut /\ state' = "ipd"
          /\ parsing' = TRUE /\ FrameHas(frame', k) /\ frame_sum' = k

RestAfter(n, k) ==
    n + 3 - k <= Len(Stream) /\ \A j \in 1 .. 3 - k : Stream[j + n] = At!Payload[k + j]

LEMMA FrameMoves ==
    ASSUME NEW n \in 0 .. Len(fifo), Dropped(n), NEW k \in 0 .. 3, NEW b, FrameHas(b, k),
           IF k = 3 THEN At!FrameDone(b)
           ELSE frame' = b /\ frame_sum' = k /\ parsing' = TRUE /\ state' = "ipd" /\ UNCHANGED frameOut,
           UNCHANGED <<write_list, busy_flag, early, upset, atEnd>>
    PROVE  FrameTaken(n, k)
<1>1. CASE k = 3
  <2>1. b = At!Payload
    BY <1>1, FrameIsWhole
  <2>2. At!FrameDone(b)
    BY <1>1
  <2> QED BY <2>1, <2>2, <1>1 DEF FrameTaken, At!FrameDone
<1>2. CASE k # 3
  BY <1>2 DEF FrameTaken
<1> QED BY <1>1, <1>2

LEMMA BaseFrame ==
    ASSUME AtRuns, NEW n, NEW k, FrameTaken(n, k), RestAfter(n, k)
    PROVE  AtBase' /\ DropOf(Stream', Stream, n)
<1>1. FrameOut /\ AtLine /\ AtParsing /\ AtEngine /\ AtList /\ parsing \in BOOLEAN
  BY RunsHave
<1>2. fifo' \in Seq(Piece) /\ air' \in Seq(Piece) /\ DropOf(Stream', Stream, n)
  BY <1>1, Drops DEF AtLine, Stream, FrameTaken, Dropped
<1>3. AtLine'
  BY <1>1, <1>2, FramesDrop DEF AtLine
<1>4. k \in 0 .. 3
  BY DEF FrameTaken
<1>5. RestOfFrame(Stream', k)
  BY <1>2, <1>4, RestLater DEF RestAfter
<1>6. AtParsing'
  <2>1. CASE k = 3
    BY <2>1 DEF AtParsing, FrameTaken
  <2>2. CASE k # 3
    <3>1. frame_sum' = k /\ FrameHas(frame', k) /\ parsing' /\ k \in 0 .. 2
      BY <2>2, <1>4 DEF FrameTaken
    <3> QED BY <3>1, <1>5 DEF AtParsing
  <2> QED BY <2>1, <2>2
<1>7. FrameOut'
  BY <1>1 DEF FrameOut, FrameTaken
<1>8. AtEngine'
  <2>1. state' \in AtStates /\ parsing' \in BOOLEAN
    BY DEF AtStates, Kinds, FrameTaken
  <2>2. parsing' \/ (state' \notin Kinds /\ state' # "head")
    BY DEF FrameTaken, Kinds
  <2> QED BY <2>1, <2>2 DEF AtEngine, AtFront
<1>9. AtList'
  BY <1>1, ListRests DEF FrameTaken
<1> QED BY <1>2, <1>3, <1>6, <1>7, <1>8, <1>9, BaseIs DEF BaseLater

(* _destroy_clean.                                                         *)
Swept ==
    /\ Dropped(Len(fifo)) /\ write_list' = <<>> /\ busy_flag' = 0 /\ state' = "idle"
    /\ parsing' = FALSE /\ frame' = NoFrame /\ frame_sum' = 0 /\ upset' = TRUE
    /\ UNCHANGED frameOut

LEMMA SweptIs ==
    ASSUME AtRuns, At!Cleaned
    PROVE  Swept
<1>1. fifo \in Seq(Piece)
  BY RunsHave DEF AtLine
<1>2. Len(fifo) \in 0 .. Len(fifo) /\ fifo' = SubSeq(fifo, Len(fifo) + 1, Len(fifo))
  BY <1>1 DEF At!Cleaned
<1>3. Dropped(Len(fifo))
  BY <1>2 DEF Dropped, At!Cleaned
<1> QED BY <1>3 DEF Swept, At!Cleaned

LEMMA BaseSwept ==
    ASSUME AtRuns, Swept
    PROVE  AtBase'
<1>1. FrameOut /\ AtLine /\ AtParsing /\ AtEngine /\ AtList /\ parsing \in BOOLEAN
  BY RunsHave
<1>2. Len(fifo) \in 0 .. Len(fifo)
  BY <1>1 DEF AtLine
<1>3. fifo' \in Seq(Piece) /\ air' \in Seq(Piece) /\ DropOf(Stream', Stream, Len(fifo))
  BY <1>1, <1>2, Drops DEF AtLine, Stream, Swept, Dropped
<1>4. AtLine'
  BY <1>1, <1>3, FramesDrop DEF AtLine
<1>5. AtParsing' /\ FrameOut'
  BY <1>1 DEF AtParsing, FrameOut, Swept
<1>6. AtEngine'
  BY EngineIdles DEF Swept
<1>7. AtList'
  BY DEF AtList, Swept
<1> QED BY <1>4, <1>5, <1>6, <1>7, BaseIs DEF BaseLater

(* The header's third piece is there, and its data follow.                 *)
LEMMA HeaderIs ==
    ASSUME AtLine, Starts("ipd")
    PROVE  /\ 6 <= Len(Stream) /\ Stream[3] = <<"len", 3>> /\ Stream[2] = <<"ipd", 2>>
           /\ \A j \in 1 .. 3 : Stream[3 + j] = At!Payload[j]
<1>1. Len(fifo) >= 2 /\ fifo[2] = <<"ipd", 2>>
  BY DEF Starts
<1>2. 2 \in 1 .. Len(Stream) /\ Stream[2] = <<"ipd", 2>>
  BY <1>1, FrontIs
<1>3. FramesIn(Stream)
  BY DEF AtLine
<1>4. FrameAt(Stream, 2 + 1)
  BY <1>2, <1>3 DEF FramesIn
<1>5. FrameAt(Stream, 3)
  BY <1>4
<1> QED BY <1>2, <1>5 DEF FrameAt

LEMMA BlankFrame ==
    ASSUME NEW b, b = [i \in 1 .. 3 |-> <<"data", -1>>]
    PROVE  FrameHas(b, 0)
<1>1. <<"data", -1>> \in FramePieces
  BY DEF FramePieces
<1>2. b \in [1 .. 3 -> FramePieces]
  BY <1>1
<1>3. b \in Seq(FramePieces) /\ Len(b) = 3
  BY <1>2, FrameIsSeq, Zenon
<1>4. \A i \in 1 .. 3 : ~(i <= 0)
  OBVIOUS
<1> QED BY <1>3, <1>4 DEF FrameHas

FrameRead(n, k) == ~parsing /\ Starts("ipd") /\ n = 3 + k /\ FrameTaken(n, k) /\ RestAfter(n, k)

LEMMA FrameReadIs ==
    ASSUME AtRuns, At!ReadFrame
    PROVE  \E k : FrameRead(3 + k, k)
<1>1. AtLine /\ AtParsing
  BY RunsHave
<1>2. ~parsing /\ state = "ipd" /\ state \in Kinds
  BY DEF At!ReadFrame, At!Reading, At!Running, Kinds
<1>3. Starts("ipd") /\ Len(fifo) \in Nat
  BY <1>2, FoundIs
<1>4. PICK p : p = At!Peek
  OBVIOUS
<1>5. /\ p \in Seq(Piece) /\ Len(p) \in Nat /\ Len(p) <= Len(fifo)
      /\ \A i \in 1 .. Len(p) : p[i] = fifo[i]
  BY <1>1, <1>4, PeekIs
<1>7. Len(p) >= 3
  BY <1>4 DEF At!ReadFrame
<1>8. \E k : FrameRead(3 + k, k)
  <2>1. /\ Len(fifo) <= Len(Stream) /\ Len(Stream) \in Nat
        /\ \A i \in 1 .. Len(fifo) : Stream[i] = fifo[i]
    BY <1>1, FrontIs
  <2>2. /\ 6 <= Len(Stream) /\ Stream[3] = <<"len", 3>>
        /\ \A j \in 1 .. 3 : Stream[3 + j] = At!Payload[j]
    BY <1>1, <1>3, HeaderIs
  <2>3. p[3][2] = 3
    <3>1. 3 \in 1 .. Len(p) /\ 3 \in 1 .. Len(fifo)
      BY <1>3, <1>5, <1>7
    <3>2. p[3] = <<"len", 3>>
      BY <3>1, <1>5, <2>1, <2>2
    <3> QED BY <3>2
  <2>4. PICK k \in 0 .. 3 : k = At!Least(Len(p), 6) - 3
    <3>1. PICK l \in Nat : l = Len(p)
      BY <1>5
    <3>2. l >= 3
      BY <3>1, <1>7
    <3>3. At!Least(l, 6) - 3 \in 0 .. 3
      BY <3>2 DEF At!Least
    <3> QED BY <3>1, <3>3
  <2>5. 3 + k <= Len(p) /\ At!Least(Len(p), 3 + 3) = 3 + k /\ 3 + k <= Len(fifo)
    BY <2>4, <1>3, <1>5, <1>7 DEF At!Least
  <2>6. PICK d : d = SubSeq(p, 4, 3 + k)
    OBVIOUS
  <2>7. d \in Seq(Piece) /\ Len(d) = k /\ \A i \in 1 .. k : d[i] = p[3 + i]
    BY <2>5, <2>6, <1>5
  <2>8. PICK b0 : b0 = [i \in 1 .. 3 |-> <<"data", -1>>]
    OBVIOUS
  <2>9. PICK b : b = At!Filled(b0, d)
    OBVIOUS
  <2>10. /\ IF k = 3 THEN At!FrameDone(b) ELSE At!FrameGoesOn(b, k)
         /\ At!Consume(3 + k)
         /\ UNCHANGED <<busy_flag, write_list, elapsed, cmds, early, upset, atEnd>>
    <3>1. SubSeq(p, 4, At!Least(Len(p), 3 + p[3][2])) = d
      BY <2>3, <2>5, <2>6
    <3>2. [i \in 1 .. p[3][2] |-> <<"data", -1>>] = b0
      BY <2>3, <2>8
    <3>4. /\ IF Len(d) = p[3][2] THEN At!FrameDone(b) ELSE At!FrameGoesOn(b, Len(d))
          /\ At!Consume(3 + Len(d))
          /\ UNCHANGED <<busy_flag, write_list, elapsed, cmds, early, upset, atEnd>>
      BY <3>1, <3>2, <1>4, <2>9, Zenon DEF At!ReadFrame, At!queue
    <3> QED BY <3>4, <2>3, <2>7
  <2>11. frame_sum = 0
    BY <1>1, <1>2 DEF AtParsing
  <2>12. FrameHas(b, k)
    <3>1. FrameHas(b0, frame_sum)
      BY <2>8, <2>11, BlankFrame
    <3>2. ASSUME NEW i \in 1 .. k PROVE d[i] = At!Payload[frame_sum + i]
      <4>1. 3 + i \in 1 .. Len(p) /\ 3 + i \in 1 .. Len(fifo) /\ i \in 1 .. 3 /\ frame_sum + i = i
        BY <1>3, <1>5, <2>5, <2>11
      <4>2. d[i] = p[3 + i] /\ p[3 + i] = fifo[3 + i] /\ fifo[3 + i] = Stream[3 + i]
        BY <4>1, <1>5, <2>1, <2>7
      <4>3. Stream[3 + i] = At!Payload[i]
        BY <4>1, <2>2
      <4> QED BY <4>1, <4>2, <4>3
    <3>3. frame_sum \in 0 .. 2 /\ frame_sum + Len(d) <= 3 /\ frame_sum + Len(d) = k
      BY <2>7, <2>11
    <3> QED BY <3>1, <3>2, <3>3, <2>7, <2>9, FilledHas
  <2>13. 3 + k \in 0 .. Len(fifo) /\ Dropped(3 + k)
    BY <2>5, <2>10, ConsumeIs
  <2>14. FrameTaken(3 + k, k)
    <3>1. IF k = 3 THEN At!FrameDone(b)
          ELSE frame' = b /\ frame_sum' = k /\ parsing' = TRUE /\ state' = "ipd" /\ UNCHANGED frameOut
      BY <2>10, <2>11 DEF At!FrameGoesOn
    <3> QED BY <3>1, <2>10, <2>12, <2>13, FrameMoves
  <2>15. RestAfter(3 + k, k)
    <3>1. ASSUME NEW j \in 1 .. 3 - k PROVE Stream[j + (3 + k)] = At!Payload[k + j]
      <4>1. k + j \in 1 .. 3 /\ j + (3 + k) = 3 + (k + j)
        OBVIOUS
      <4> QED BY <4>1, <2>2
    <3>2. 3 + k + 3 - k <= Len(Stream)
      BY <2>1, <2>2
    <3> QED BY <3>1, <3>2 DEF RestAfter
  <2> QED BY <2>14, <2>15, <1>2, <1>3 DEF FrameRead
<1> QED BY <1>8

FrameMore(n, k) ==
    parsing /\ k = frame_sum + n /\ frame_sum \in 0 .. 2 /\ FrameTaken(n, k) /\ RestAfter(n, k)

LEMMA FrameMoreIs ==
    ASSUME AtRuns, At!ReadMore
    PROVE  \E n, k : FrameMore(n, k)
<1>1. AtLine /\ AtParsing
  BY RunsHave
<1>2. parsing
  BY DEF At!ReadMore
<1>3. frame_sum \in 0 .. 2 /\ FrameHas(frame, frame_sum) /\ RestOfFrame(Stream, frame_sum)
  BY <1>1, <1>2 DEF AtParsing
<1>4. PICK p : p = At!Peek
  OBVIOUS
<1>5. /\ p \in Seq(Piece) /\ Len(p) \in Nat /\ Len(p) <= Len(fifo) /\ frame_sum + Len(p) <= 3
      /\ \A i \in 1 .. Len(p) : p[i] = fifo[i]
  BY <1>1, <1>2, <1>4, PeekIs
<1>6. /\ Len(fifo) \in Nat /\ Len(fifo) <= Len(Stream) /\ Len(Stream) \in Nat
      /\ \A i \in 1 .. Len(fifo) : Stream[i] = fifo[i]
  BY <1>1, FrontIs
<1>7. PICK n \in 0 .. 3 : n = Len(p)
  <2>1. PICK l \in Nat : l = Len(p)
    BY <1>5
  <2>2. frame_sum + l <= 3
    BY <2>1, <1>5
  <2>3. l \in 0 .. 3
    BY <2>2, <1>3
  <2> QED BY <2>1, <2>3
<1>8. PICK k \in 0 .. 3 : k = frame_sum + n
  BY <1>3, <1>5, <1>7
<1>9. PICK b : b = At!Filled(frame, p)
  OBVIOUS
<1>10. Len(frame) = 3
  BY <1>3 DEF FrameHas
<1>11. /\ IF k = 3 THEN At!FrameDone(b) ELSE At!FrameGoesOn(b, n)
       /\ At!Consume(n)
       /\ UNCHANGED <<busy_flag, write_list, elapsed, cmds, early, upset, atEnd>>
  <2>1. /\ IF frame_sum + Len(p) = Len(frame) THEN At!FrameDone(b) ELSE At!FrameGoesOn(b, Len(p))
        /\ At!Consume(Len(p))
        /\ UNCHANGED <<busy_flag, write_list, elapsed, cmds, early, upset, atEnd>>
    BY <1>4, <1>9, Zenon DEF At!ReadMore, At!queue
  <2> QED BY <2>1, <1>7, <1>8, <1>10
<1>12. FrameHas(b, k)
  <2>1. ASSUME NEW i \in 1 .. Len(p) PROVE p[i] = At!Payload[frame_sum + i]
    <3>1. i \in 1 .. 3 - frame_sum /\ i \in 1 .. Len(fifo)
      BY <1>3, <1>5, <1>6
    <3>2. p[i] = fifo[i] /\ fifo[i] = Stream[i]
      BY <3>1, <1>5, <1>6
    <3> QED BY <3>1, <3>2, <1>3 DEF RestOfFrame
  <2>2. frame_sum + Len(p) = k
    BY <1>7, <1>8
  <2> QED BY <2>1, <2>2, <1>3, <1>5, <1>9, FilledHas
<1>13. n \in 0 .. Len(fifo) /\ Dropped(n)
  BY <1>5, <1>6, <1>7, <1>11, ConsumeIs
<1>14. FrameTaken(n, k)
  <2>1. IF k = 3 THEN At!FrameDone(b)
        ELSE frame' = b /\ frame_sum' = k /\ parsing' = TRUE /\ state' = "ipd" /\ UNCHANGED frameOut
    BY <1>8, <1>11 DEF At!FrameGoesOn
  <2> QED BY <2>1, <1>11, <1>12, <1>13, FrameMoves
<1>15. RestAfter(n, k)
  <2>1. ASSUME NEW j \in 1 .. 3 - k PROVE Stream[j + n] = At!Payload[k + j]
    <3>1. j + n \in 1 .. 3 - frame_sum /\ frame_sum + (j + n) = k + j
      BY <1>3, <1>8
    <3>2. Stream[j + n] = At!Payload[frame_sum + (j + n)]
      BY <3>1, <1>3 DEF RestOfFrame
    <3> QED BY <3>1, <3>2
  <2>2. n + 3 - k <= Len(Stream)
    BY <1>3, <1>6, <1>8 DEF RestOfFrame
  <2> QED BY <2>1, <2>2 DEF RestAfter
<1> QED BY <1>2, <1>3, <1>8, <1>14, <1>15 DEF FrameMore

LEMMA BaseFrames ==
    ASSUME AtRuns, At!ReadFrame \/ At!ReadMore
    PROVE  AtBase'
<1>1. CASE At!ReadFrame
  BY <1>1, FrameReadIs, BaseFrame DEF FrameRead
<1>2. CASE At!ReadMore
  BY <1>2, FrameMoreIs, BaseFrame DEF FrameMore
<1> QED BY <1>1, <1>2

LEMMA BaseFrameCut ==
    ASSUME AtRuns, At!ReadFrameCut
    PROVE  AtBase'
<1>1. CASE At!Cleaned
  BY <1>1, SweptIs, BaseSwept
<1>2. CASE atEnd' = "ub" /\ UNCHANGED frameOut
  BY <1>2 DEF AtRuns, AtBase, FrameOut
<1> QED BY <1>1, <1>2 DEF At!ReadFrameCut

-----------------------------------------------------------------------------
(* What is written, and what the modem says to it.                         *)
Spoken(h, d, b, n, st) ==
    /\ HeadIs(h) /\ FrameRests /\ UNCHANGED <<fifo, early, upset, atEnd>>
    /\ HeadWritten(h, b) /\ b \in BOOLEAN /\ busy_flag' = n /\ state' = st
    /\ (air' = air \/ \E x : d /\ Speech(x) /\ air' = air \o x)

SpokenTo(h) ==
    /\ Spoken(h, TRUE, (h.whole \/ ~h.data), 1, "writeWait")
    /\ (air' = air \/ \E x : AnswerTo(x, h.data) /\ air' = air \o x)

DataSpokenTo(h) ==
    /\ Spoken(h, h.data, TRUE, 2, "read")
    /\ \/ air' = air
       \/ \E x : /\ h.data /\ Speech(x) /\ (OnlyLive(x, FALSE, "ok") \/ OnlyLive(x, FALSE, "error"))
                 /\ air' = air \o x

LEMMA SaysIs ==
    ASSUME NEW texts, At!Says(texts)
    PROVE  air' = air \/ \E x \in texts : air' = air \o x
  BY Zenon DEF At!Says

LEMMA CmdOutIs ==
    ASSUME AtRuns, At!WriteCmdOut
    PROVE  state = "writeCmd" /\ (Lost \/ \E h : SpokenTo(h))
<1>1. AtList
  BY RunsHave
<1>2. state = "writeCmd"
  BY DEF At!WriteCmdOut, At!Working
<1>3. CASE At!NoCommand
  BY <1>2, <1>3 DEF Lost, At!WriteCmdOut, At!Undefined, At!history
<1>4. CASE ~At!NoCommand
  <2>1. PICK h : HeadIs(h)
    BY <1>1, <1>4, HeadThere
  <2>2. /\ At!Says(At!Answers)
        /\ write_list' = [write_list EXCEPT ![1].whole = @ \/ ~At!HasData]
        /\ elapsed' = 0 /\ busy_flag' = 1 /\ state' = "writeWait"
        /\ UNCHANGED <<fifo, chat, offset_len, parsing, frame, frame_sum, cmds, early, frameOut, upset, atEnd>>
    BY <1>4 DEF At!WriteCmdOut, At!history
  <2>3. h.data = At!HasData /\ (h.whole \/ ~h.data) \in BOOLEAN
    BY <2>1 DEF At!HasData, HeadIs
  <2>4. HeadWritten(h, (h.whole \/ ~h.data))
    BY <2>1, <2>2, <2>3 DEF HeadWritten, HeadIs
  <2>5. air' = air \/ \E x : AnswerTo(x, h.data) /\ air' = air \o x
    BY <2>2, <2>3, SaysIs, AnswersAre
  <2>6. air' = air \/ \E x : TRUE /\ Speech(x) /\ air' = air \o x
    BY <2>5 DEF AnswerTo
  <2>7. Spoken(h, TRUE, (h.whole \/ ~h.data), 1, "writeWait")
    BY <2>1, <2>2, <2>3, <2>4, <2>6 DEF Spoken, FrameRests
  <2>8. SpokenTo(h)
    BY <2>5, <2>7 DEF SpokenTo
  <2> QED BY <2>8, <1>2
<1> QED BY <1>3, <1>4

LEMMA DataOutIs ==
    ASSUME AtRuns, At!WriteData
    PROVE  state = "writeData" /\ (Lost \/ \E h : DataSpokenTo(h))
<1>1. AtList
  BY RunsHave
<1>2. state = "writeData"
  BY DEF At!WriteData, At!Working
<1>3. CASE At!NoCommand
  BY <1>2, <1>3 DEF Lost, At!WriteData, At!Undefined, At!history
<1>4. CASE ~At!NoCommand
  <2>1. PICK h : HeadIs(h)
    BY <1>1, <1>4, HeadThere
  <2>2. /\ IF At!HasData THEN At!Says({At!Text("ok"), At!Text("error")}) ELSE UNCHANGED air
        /\ write_list' = [write_list EXCEPT ![1].whole = TRUE]
        /\ elapsed' = 0 /\ busy_flag' = 2 /\ state' = "read"
        /\ UNCHANGED <<fifo, chat, offset_len, parsing, frame, frame_sum, cmds, early, frameOut, upset, atEnd>>
    BY <1>4 DEF At!WriteData, At!history
  <2>3. h.data = At!HasData
    BY <2>1 DEF At!HasData, HeadIs
  <2>4. HeadWritten(h, TRUE)
    BY <2>1, <2>2 DEF HeadWritten, HeadIs
  <2>5. air' = air \/ \E x : /\ h.data /\ Speech(x)
                             /\ (OnlyLive(x, FALSE, "ok") \/ OnlyLive(x, FALSE, "error"))
                             /\ air' = air \o x
    <3>1. CASE At!HasData
      <4>1. \/ air' = air
            \/ air' = air \o At!Text("ok") \/ air' = air \o At!Text("error")
        <5>1. PICK T : T = {At!Text("ok"), At!Text("error")}
          OBVIOUS
        <5>2. At!Says(T)
          BY <2>2, <3>1, <5>1
        <5>3. air' = air \/ \E x \in T : air' = air \o x
          BY <5>2, SaysIs
        <5> QED BY <5>1, <5>3
      <4>2. /\ Speech(At!Text("ok")) /\ OnlyLive(At!Text("ok"), FALSE, "ok")
            /\ Speech(At!Text("error")) /\ OnlyLive(At!Text("error"), FALSE, "error")
        BY TextSpeaks
      <4> QED BY <4>1, <4>2, <2>3, <3>1
    <3>2. CASE ~At!HasData
      BY <2>2, <3>2
    <3> QED BY <3>1, <3>2
  <2>6. air' = air \/ \E x : h.data /\ Speech(x) /\ air' = air \o x
    BY <2>5
  <2>7. Spoken(h, h.data, TRUE, 2, "read")
    BY <2>1, <2>2, <2>4, <2>6 DEF Spoken, FrameRests
  <2>8. DataSpokenTo(h)
    BY <2>5, <2>7 DEF DataSpokenTo
  <2> QED BY <2>8, <1>2
<1> QED BY <1>3, <1>4

LEMMA WrittenHead ==
    ASSUME NEW h \in AtCmds, NEW b \in BOOLEAN
    PROVE  /\ [h EXCEPT !.whole = b] \in AtCmds /\ [h EXCEPT !.whole = b].whole = b
           /\ [h EXCEPT !.whole = b].data = h.data /\ [h EXCEPT !.whole = b].del_cnt = h.del_cnt
  BY DEF AtCmds

LEMMA BaseSpoken ==
    ASSUME AtRuns, NEW h, NEW d, NEW b, NEW n \in 0 .. 2, NEW st \in {"writeWait", "read"},
           Spoken(h, d, b, n, st)
    PROVE  AtBase'
<1>1. FrameOut /\ AtLine /\ AtParsing /\ AtEngine /\ AtList /\ parsing \in BOOLEAN
  BY RunsHave
<1>2. AtLine' /\ AtParsing' /\ FrameOut'
  <2>1. CASE air' = air
    BY <2>1, <1>1, LineRests DEF Spoken
  <2>2. ASSUME NEW x, Speech(x), air' = air \o x PROVE AtLine' /\ AtParsing' /\ FrameOut'
    BY <2>2, <1>1, LineAdds DEF Spoken, Speech
  <2> QED BY <2>1, <2>2 DEF Spoken
<1>3. parsing' \in BOOLEAN /\ state' \in {"idle", "read", "write", "writeCmd", "writeWait", "writeData"}
  BY <1>1 DEF Spoken, FrameRests
<1>4. AtEngine'
  BY <1>3, EngineIdles
<1>5. write_list' \in Seq(AtCmds)
  BY <1>1, WrittenHead, HeadChanged DEF AtList, Spoken, HeadWritten, HeadIs
<1>6. AtList'
  BY <1>5 DEF AtList, Spoken
<1> QED BY <1>2, <1>4, <1>6, BaseIs DEF BaseLater

LEMMA BaseWrites ==
    ASSUME AtRuns, At!WriteCmdOut \/ At!WriteData
    PROVE  AtBase'
<1>1. 1 \in 0 .. 2 /\ 2 \in 0 .. 2 /\ "writeWait" \in {"writeWait", "read"} /\ "read" \in {"writeWait", "read"}
  OBVIOUS
<1>2. CASE At!WriteCmdOut
  BY <1>1, <1>2, CmdOutIs, BaseLost, BaseSpoken DEF SpokenTo
<1>3. CASE At!WriteData
  BY <1>1, <1>3, DataOutIs, BaseLost, BaseSpoken DEF DataSpokenTo
<1> QED BY <1>2, <1>3

-----------------------------------------------------------------------------
(* The application, the line and the clock.                                *)
EngineRests == FrameRests /\ UNCHANGED <<state, offset_len, busy_flag>>

LEMMA EngineKept ==
    ASSUME AtRuns, EngineRests, UNCHANGED fifo
    PROVE  AtEngine'
<1>1. AtEngine
  BY RunsHave
<1> QED BY <1>1 DEF AtEngine, AtFront, Found, Starts, EngineRests, FrameRests

CmdGiven(c) ==
    /\ EngineRests /\ UNCHANGED <<fifo, air, early, upset, atEnd>>
    /\ write_list' = Append(write_list, c) /\ c \in AtCmds /\ c.del_cnt = At!DelCnt(c.data)

LEMMA CmdGivenIs ==
    ASSUME AtRuns, At!HyAtUtilsWriteCmd
    PROVE  \E c : CmdGiven(c)
<1>1. PICK d \in BOOLEAN : d = (cmds' \in DataCmds)
  <2>1. (cmds' \in DataCmds) \in BOOLEAN
    OBVIOUS
  <2> QED BY <2>1, Zenon
<1>2. PICK c : c = At!Cmd(d)
  OBVIOUS
<1>3. At!DelCnt(d) \in {1, 2}
  BY DEF At!DelCnt
<1>4. c \in AtCmds /\ c.del_cnt = At!DelCnt(d) /\ c.data = d
  BY <1>2, <1>3, AtAssumption DEF At!Cmd, AtCmds
<1>5. write_list' = Append(write_list, c)
  BY <1>1, <1>2 DEF At!HyAtUtilsWriteCmd
<1>6. EngineRests /\ UNCHANGED <<fifo, air, early, upset, atEnd>>
  BY DEF EngineRests, FrameRests, At!HyAtUtilsWriteCmd, At!line, At!engine, At!history
<1> QED BY <1>4, <1>5, <1>6 DEF CmdGiven

PieceArrives ==
    /\ air # <<>> /\ fifo' = Append(fifo, Head(air)) /\ air' = Tail(air)
    /\ EngineRests /\ UNCHANGED <<write_list, early, upset, atEnd>>

ModemSpeaks(x) ==
    /\ Speech(x) /\ NoneLive(x, FALSE) /\ air' = air \o x /\ UNCHANGED fifo
    /\ EngineRests /\ UNCHANGED <<write_list, early, upset, atEnd>>

LEMMA PutDataIs ==
    ASSUME At!HyAtUtilsPutData
    PROVE  PieceArrives
  BY DEF PieceArrives, EngineRests, FrameRests, At!HyAtUtilsPutData, At!engine, At!queue, At!history

LEMMA ChatsIs ==
    ASSUME NEW what \in Chatter, At!ModemChats(what)
    PROVE  \E x : ModemSpeaks(x)
<1>1. PICK x : x = At!ChatterText(what)
  OBVIOUS
<1>2. Speech(x) /\ NoneLive(x, FALSE)
  BY <1>1, ChatterSpeaks
<1> QED BY <1>1, <1>2 DEF ModemSpeaks, EngineRests, FrameRests, At!ModemChats, At!engine, At!queue, At!history

LEMMA TickIs ==
    ASSUME At!Tick
    PROVE  EngineRests /\ UNCHANGED <<fifo, air, write_list, early, upset, atEnd>>
  BY DEF EngineRests, FrameRests, At!Tick, At!line, At!engine, At!history

LEMMA BaseOutside ==
    ASSUME AtRuns, EngineRests, UNCHANGED fifo, write_list' \in Seq(AtCmds),
           air' = air \/ \E x : Speech(x) /\ air' = air \o x
    PROVE  AtBase'
<1>1. FrameOut /\ AtLine /\ AtParsing /\ AtEngine /\ AtList /\ parsing \in BOOLEAN
  BY RunsHave
<1>2. AtLine' /\ AtParsing' /\ FrameOut'
  <2>1. CASE air' = air
    BY <2>1, <1>1, LineRests DEF EngineRests
  <2>2. ASSUME NEW x, Speech(x), air' = air \o x PROVE AtLine' /\ AtParsing' /\ FrameOut'
    BY <2>2, <1>1, LineAdds DEF EngineRests, Speech
  <2> QED BY <2>1, <2>2
<1>3. AtEngine'
  BY EngineKept
<1>4. AtList'
  BY <1>1 DEF AtList, EngineRests
<1> QED BY <1>2, <1>3, <1>4, BaseIs DEF BaseLater

LEMMA BaseGiven ==
    ASSUME AtRuns, At!HyAtUtilsWriteCmd
    PROVE  AtBase'
<1>1. write_list \in Seq(AtCmds)
  BY RunsHave DEF AtList
<1>2. PICK c : CmdGiven(c)
  BY CmdGivenIs
<1>3. write_list' \in Seq(AtCmds)
  BY <1>1, <1>2 DEF CmdGiven
<1> QED BY <1>2, <1>3, BaseOutside DEF CmdGiven

LEMMA BaseArrives ==
    ASSUME AtRuns, PieceArrives
    PROVE  AtBase' /\ Stream' = Stream /\ InFrame' = InFrame
<1>1. FrameOut /\ AtLine /\ AtParsing /\ AtEngine /\ AtList /\ parsing \in BOOLEAN
  BY RunsHave
<1>2. /\ fifo' \in Seq(Piece) /\ air' \in Seq(Piece) /\ Stream' = Stream
      /\ Len(fifo') = Len(fifo) + 1 /\ \A i \in 1 .. Len(fifo) : fifo'[i] = fifo[i]
  BY <1>1, Delivers DEF PieceArrives, AtLine, Stream
<1>3. AtLine' /\ AtParsing' /\ FrameOut' /\ InFrame' = InFrame
  BY <1>1, <1>2, LineKept DEF PieceArrives, EngineRests
<1>4. Len(fifo) \in Nat
  BY <1>1 DEF AtLine
<1>5. Len(fifo) >= 1 => Len(fifo') >= 1 /\ fifo'[1] = fifo[1]
  BY <1>2, <1>4
<1>6. Len(fifo) >= 2 => Len(fifo') >= 2 /\ fifo'[1] = fifo[1] /\ fifo'[2] = fifo[2]
  BY <1>2, <1>4
<1>7. parsing' = parsing /\ state' = state /\ offset_len' = offset_len
  BY DEF PieceArrives, EngineRests, FrameRests
<1>8. Found => Found'
  BY <1>5, <1>6, <1>7 DEF Found, Starts
<1>9. AtEngine'
  BY <1>1, <1>5, <1>7, <1>8 DEF AtEngine, AtFront
<1>10. AtList'
  BY <1>1 DEF AtList, PieceArrives, EngineRests
<1> QED BY <1>2, <1>3, <1>9, <1>10, BaseIs DEF BaseLater

LEMMA BaseChats ==
    ASSUME AtRuns, NEW what \in Chatter, At!ModemChats(what)
    PROVE  AtBase'
<1>1. write_list \in Seq(AtCmds)
  BY RunsHave DEF AtList
<1>2. PICK x : ModemSpeaks(x)
  BY ChatsIs
<1> QED BY <1>1, <1>2, BaseOutside DEF ModemSpeaks

LEMMA BaseTicks ==
    ASSUME AtRuns, At!Tick
    PROVE  AtBase'
<1>1. write_list \in Seq(AtCmds)
  BY RunsHave DEF AtList
<1>2. write_list' \in Seq(AtCmds)
  BY <1>1, TickIs
<1> QED BY <1>2, TickIs, BaseOutside

LEMMA BaseGone ==
    ASSUME AtRuns, At!HyAtUtilsDestroy
    PROVE  AtBase'
  BY DEF AtRuns, AtBase, FrameOut, At!HyAtUtilsDestroy, At!history

LEMMA AtRunning ==
    ASSUME AtBase, At!AtNext
    PROVE  AtRuns
<1>1. atEnd = "run"
  BY DEF At!AtNext, At!ReadStart, At!ReadHead, At!ReadLone, At!ReadOk, At!ReadError, At!ReadPlain,
         At!ReadSignal, At!ReadFrame, At!ReadFrameCut, At!ReadMore, At!ReadNothing,
         At!IdleRead, At!IdleWrite, At!IdleTimeOut,
         At!WriteCmd, At!WriteCmdOut, At!WriteCmdWait, At!WriteData, At!HyAtUtilsWriteCmd,
         At!HyAtUtilsClean, At!HyAtUtilsDestroy, At!HyAtUtilsPutData, At!ModemChats, At!Tick,
         At!Reading, At!Running, At!Working, At!Outside
<1> QED BY <1>1 DEF AtRuns

LEMMA BaseStep ==
    ASSUME AtBase, At!AtNext
    PROVE  AtBase'
<1>1. AtRuns
  BY AtRunning
<1>2. CASE At!ReadStart
  BY <1>1, <1>2, BaseStart
<1>3. CASE At!ReadHead
  BY <1>1, <1>3, BaseHead
<1>4. CASE At!ReadOk
  BY <1>1, <1>4, BaseOk
<1>5. CASE At!ReadError
  BY <1>1, <1>5, BaseError
<1>6. CASE At!ReadPlain
  BY <1>1, <1>6, BasePlain
<1>7. CASE At!ReadSignal
  BY <1>1, <1>7, BaseSignal
<1>8. CASE At!ReadFrame \/ At!ReadMore
  BY <1>1, <1>8, BaseFrames
<1>9. CASE At!ReadNothing \/ At!IdleRead \/ At!IdleWrite \/ At!WriteCmd \/ At!WriteCmdWait
  BY <1>1, <1>9, BaseWaits
<1>10. CASE At!IdleTimeOut
  BY <1>1, <1>10, BaseTimeOut
<1>11. CASE At!WriteCmdOut \/ At!WriteData
  BY <1>1, <1>11, BaseWrites
<1>12. CASE At!HyAtUtilsWriteCmd
  BY <1>1, <1>12, BaseGiven
<1>13. CASE At!HyAtUtilsClean
  BY <1>1, <1>13, SweptIs, BaseSwept DEF At!HyAtUtilsClean
<1>14. CASE At!HyAtUtilsDestroy
  BY <1>1, <1>14, BaseGone
<1>15. CASE At!HyAtUtilsPutData
  BY <1>1, <1>15, PutDataIs, BaseArrives
<1>16. ASSUME NEW what \in Chatter, At!ModemChats(what) PROVE AtBase'
  BY <1>1, <1>16, BaseChats
<1>17. CASE At!Tick
  BY <1>1, <1>17, BaseTicks
<1>18. CASE At!ReadLone
  BY <1>1, <1>18, BaseLone
<1>19. CASE At!ReadFrameCut
  BY <1>1, <1>19, BaseFrameCut
<1> QED BY <1>2, <1>3, <1>4, <1>5, <1>6, <1>7, <1>8, <1>9, <1>10, <1>11, <1>12, <1>13, <1>14,
           <1>15, <1>16, <1>17, <1>18, <1>19 DEF At!AtNext

LEMMA BaseStarts ==
    ASSUME At!AtInit
    PROVE  AtBase
<1>1. fifo = <<>> /\ air = <<>> /\ state = "idle" /\ busy_flag = 0 /\ parsing = FALSE
      /\ frame = NoFrame /\ frame_sum = 0 /\ write_list = <<>> /\ frameOut = NoFrame
  BY DEF At!AtInit
<1>2. Stream = <<>>
  BY <1>1 DEF Stream
<1>3. AtLine
  BY <1>1, <1>2 DEF AtLine, FramesIn
<1>4. AtParsing
  BY <1>1 DEF AtParsing
<1>5. AtEngine
  BY <1>1 DEF AtEngine, AtFront, AtStates, Kinds
<1>6. AtList
  BY <1>1 DEF AtList
<1> QED BY <1>1, <1>3, <1>4, <1>5, <1>6 DEF AtBase, FrameOut

LEMMA BaseRests ==
    ASSUME AtBase, UNCHANGED U
    PROVE  AtBase'
<1>1. UNCHANGED <<fifo, air, state, offset_len, busy_flag, parsing, frame, frame_sum,
                  write_list, frameOut, atEnd>>
  BY DEF U
<1>2. Stream' = Stream
  BY <1>1 DEF Stream
<1>3. FrameOut => FrameOut'
  BY <1>1 DEF FrameOut
<1>4. AtLine => AtLine'
  BY <1>1, <1>2 DEF AtLine
<1>5. AtParsing => AtParsing'
  BY <1>1, <1>2 DEF AtParsing
<1>6. AtEngine => AtEngine'
  BY <1>1 DEF AtEngine, AtFront, Found, Starts
<1>7. AtList => AtList'
  BY <1>1 DEF AtList
<1> QED BY <1>1, <1>3, <1>4, <1>5, <1>6, <1>7 DEF AtBase

(* handle_frame_cb is given what was sent, in however many pieces it came, *)
(* whatever the engine wrote in between and whatever it lost before.       *)
THEOREM FramesComeWhole == Spec => []FramesWhole
<1>1. Init => AtBase
  BY BaseStarts DEF Init
<1>2. AtBase /\ [Next]_containersVars => AtBase'
  <2> SUFFICES ASSUME AtBase, [Next]_containersVars PROVE AtBase'
    OBVIOUS
  <2>1. CASE At!AtNext
    BY <2>1, BaseStep
  <2>2. CASE UNCHANGED U
    BY <2>2, BaseRests
  <2> QED BY <2>1, <2>2 DEF Next, containersVars
<1>3. AtBase => FramesWhole
  BY DEF AtBase, FrameOut, FramesWhole, At!FramesWhole
<1> QED BY <1>1, <1>2, <1>3, PTL DEF Spec, containersVars

-----------------------------------------------------------------------------
(* Until one of the five things upset tells of, the answers on their way   *)
(* are those the list's head is owed.                                      *)
Half(c) == c.del_cnt < At!DelCnt(c.data)

ListFine(l) ==
    \A i \in 1 .. Len(l) : l[i].del_cnt <= At!DelCnt(l[i].data) /\ (i > 1 => ~Half(l[i]))

Asked(s, p, h, b, st) ==
    /\ Awaited(s, p, h, b)
    /\ Half(h) => b # 0
    /\ st \in {"write", "writeCmd"} => NoneLive(s, p) /\ ~Half(h)
    /\ st = "writeData" => NoneLive(s, p) /\ h.data /\ h.del_cnt = 1

Writes == {"write", "writeCmd", "writeData"}

Stage(s, p, l, b, st) ==
    IF Len(l) = 0 THEN NoneLive(s, p) /\ st \notin Writes ELSE Asked(s, p, l[1], b, st)

AckRun ==
    /\ WholeTexts(Stream) /\ ListFine(write_list)
    /\ Stage(Stream, InFrame, write_list, busy_flag, state)

AckInv == ~upset => ~early /\ atEnd # "ub" /\ (atEnd = "run" => AckRun)

AckGood == ~upset /\ ~early /\ AckRun

LEMMA StageRests ==
    ASSUME NEW s, NEW p, NEW l, NEW b, NEW st, Stage(s, p, l, b, st),
           NEW u, u = st \/ u \notin Writes \/ (st = "write" /\ u = "writeCmd")
    PROVE  Stage(s, p, l, b, u)
<1>1. CASE Len(l) = 0
  BY <1>1 DEF Stage, Writes
<1>2. CASE Len(l) # 0
  BY <1>2 DEF Stage, Asked, Writes
<1> QED BY <1>1, <1>2

LEMMA StageKept ==
    ASSUME NEW s, NEW p, NEW t, NEW q, NEW n \in Int, SameLive(s, p, t, q, n),
           NEW l, NEW b, NEW st, Stage(s, p, l, b, st)
    PROVE  Stage(t, q, l, b, st)
<1>1. /\ NoneLive(s, p) => NoneLive(t, q)
      /\ \A k : OnlyLive(s, p, k) => OnlyLive(t, q, k)
      /\ OkThenSend(s, p) => OkThenSend(t, q)
  BY LiveKept
<1>2. CASE Len(l) = 0
  BY <1>1, <1>2 DEF Stage
<1>3. CASE Len(l) # 0
  <2>1. Asked(s, p, l[1], b, st)
    BY <1>3 DEF Stage
  <2>2. Awaited(t, q, l[1], b)
    BY <1>1, <2>1, Zenon DEF Asked, Awaited
  <2>3. Asked(t, q, l[1], b, st)
    BY <1>1, <2>1, <2>2 DEF Asked
  <2> QED BY <1>3, <2>3 DEF Stage
<1> QED BY <1>2, <1>3

(* Nothing on its way and nothing half acknowledged.                       *)
LEMMA StageQuiet ==
    ASSUME NEW s, NEW p, NEW l, NEW b, NEW st, NoneLive(s, p), Len(l) # 0, ~Half(l[1]),
           st # "writeData"
    PROVE  Stage(s, p, l, b, st)
  BY DEF Stage, Asked, Awaited

LEMMA WholeClean ==
    ASSUME NEW s \in Seq(Piece), WholeTexts(s), NEW n \in 1 .. Len(s),
           \A i \in 1 .. n : ~(s[i][2] = 1 /\ s[i][1] # "data")
    PROVE  s[n] # <<"ipd", 1>> /\ s[n] # <<"ipd", 2>> /\ s[n] # <<"len", 3>>
<1>1. Len(s) \in Nat
  OBVIOUS
<1>2. \A i \in 1 .. n : s[i] # <<"ipd", 1>>
  OBVIOUS
<1>3. \A i \in 1 .. n : s[i] # <<"ipd", 2>>
  <2> SUFFICES ASSUME NEW i \in 1 .. n, s[i] = <<"ipd", 2>> PROVE FALSE
    OBVIOUS
  <2>1. i \in 1 .. Len(s)
    BY <1>1
  <2>2. i > 1 /\ s[i - 1] = <<"ipd", 1>>
    BY <2>1 DEF WholeTexts, Headed
  <2>3. i - 1 \in 1 .. n
    BY <2>2
  <2> QED BY <2>2, <2>3, <1>2
<1>4. s[n] # <<"len", 3>>
  <2> SUFFICES ASSUME s[n] = <<"len", 3>> PROVE FALSE
    OBVIOUS
  <2>1. n > 1 /\ s[n - 1] = <<"ipd", 2>>
    BY DEF WholeTexts, Headed
  <2>2. n - 1 \in 1 .. n
    BY <2>1
  <2> QED BY <2>1, <2>2, <1>3
<1> QED BY <1>2, <1>3, <1>4

LEMMA StreamOpen ==
    ASSUME AtLine, AtParsing, WholeTexts(Stream)
    PROVE  OpenEnd(Stream, InFrame) /\ InFrame \in BOOLEAN
<1>1. Len(Stream) \in Nat
  BY FrontIs
<1>2. ASSUME Len(Stream) = 0 PROVE ~InFrame
  <2> SUFFICES ASSUME InFrame PROVE FALSE
    OBVIOUS
  <2>1. parsing /\ frame_sum = 0
    BY DEF InFrame
  <2>2. RestOfFrame(Stream, 0)
    BY <2>1 DEF AtParsing
  <2>3. 3 - 0 <= Len(Stream)
    BY <2>2 DEF RestOfFrame
  <2> QED BY <2>3, <1>2
<1>3. ASSUME Len(Stream) # 0, Stream[Len(Stream)] = <<"len", 3>> PROVE FALSE
  <2>1. PICK n \in 1 .. Len(Stream) : n = Len(Stream)
    BY <1>1, <1>3
  <2>2. Headed(Stream, n)
    BY DEF WholeTexts
  <2>3. n > 1 /\ Stream[n - 1] = <<"ipd", 2>>
    BY <2>1, <2>2, <1>3 DEF Headed
  <2>4. n - 1 \in 1 .. Len(Stream)
    BY <2>3, <1>1
  <2>5. FrameAt(Stream, n - 1 + 1)
    BY <2>3, <2>4 DEF AtLine, FramesIn
  <2>6. n - 1 + 1 + 3 <= Len(Stream)
    BY <2>5 DEF FrameAt
  <2> QED BY <2>1, <2>6, <1>1
<1>4. InFrame \in BOOLEAN
  BY Zenon DEF InFrame
<1> QED BY <1>2, <1>3, <1>4 DEF OpenEnd

LEMMA ListsTail ==
    ASSUME NEW l \in Seq(AtCmds), l # <<>>, ListFine(l)
    PROVE  /\ ListFine(Tail(l)) /\ Len(Tail(l)) \in Nat
           /\ Len(Tail(l)) # 0 => ~Half(Tail(l)[1])
<1>1. PICK m : m = Tail(l)
  OBVIOUS
<1>2. /\ Len(l) \in Nat \ {0} /\ Len(m) = Len(l) - 1
      /\ \A i \in 1 .. Len(l) - 1 : m[i] = l[i + 1]
  BY <1>1, TailList
<1>3. ASSUME NEW i \in 1 .. Len(m)
      PROVE  m[i].del_cnt <= At!DelCnt(m[i].data) /\ ~Half(m[i])
  <2>1. m[i] = l[i + 1] /\ i + 1 \in 1 .. Len(l) /\ i + 1 > 1
    BY <1>2
  <2>2. PICK j \in 1 .. Len(l) : j = i + 1 /\ j > 1
    BY <2>1
  <2>3. l[j].del_cnt <= At!DelCnt(l[j].data) /\ ~Half(l[j])
    BY <2>2 DEF ListFine
  <2> QED BY <2>1, <2>2, <2>3
<1>4. Len(m) \in Nat /\ (Len(m) # 0 => 1 \in 1 .. Len(m))
  BY <1>2
<1> QED BY <1>1, <1>3, <1>4 DEF ListFine

LEMMA ListsHead ==
    ASSUME NEW l \in Seq(AtCmds), l # <<>>, ListFine(l), NEW c \in AtCmds,
           c.del_cnt <= At!DelCnt(c.data), NEW m, m = [l EXCEPT ![1] = c]
    PROVE  ListFine(m) /\ Len(m) # 0 /\ m[1] = c
<1>1. /\ Len(m) = Len(l) /\ m[1] = c /\ Len(l) \in Nat \ {0}
      /\ \A i \in 2 .. Len(l) : m[i] = l[i]
  BY HeadChanged
<1>2. ASSUME NEW i \in 1 .. Len(m)
      PROVE  m[i].del_cnt <= At!DelCnt(m[i].data) /\ (i > 1 => ~Half(m[i]))
  <2>1. CASE i = 1
    BY <2>1, <1>1
  <2>2. CASE i # 1
    <3>1. i \in 2 .. Len(l) /\ i \in 1 .. Len(l)
      BY <2>2, <1>1
    <3>2. m[i] = l[i]
      BY <3>1, <1>1
    <3> QED BY <3>1, <3>2 DEF ListFine
  <2> QED BY <2>1, <2>2
<1> QED BY <1>1, <1>2 DEF ListFine

LEMMA ListsGrow ==
    ASSUME NEW l \in Seq(AtCmds), ListFine(l), NEW c \in AtCmds, c.del_cnt = At!DelCnt(c.data)
    PROVE  /\ ListFine(Append(l, c)) /\ Len(Append(l, c)) # 0
           /\ Len(l) # 0 => Append(l, c)[1] = l[1]
           /\ Len(l) = 0 => Append(l, c)[1] = c
           /\ ~Half(c)
<1>1. PICK m : m = Append(l, c)
  OBVIOUS
<1>2. /\ Len(l) \in Nat /\ Len(m) = Len(l) + 1 /\ m[Len(l) + 1] = c
      /\ \A i \in 1 .. Len(l) : m[i] = l[i]
  BY <1>1
<1>3. At!DelCnt(c.data) \in Int
  BY DEF At!DelCnt
<1>4. ~Half(c) /\ c.del_cnt <= At!DelCnt(c.data)
  BY <1>3 DEF Half
<1>5. ASSUME NEW i \in 1 .. Len(m)
      PROVE  m[i].del_cnt <= At!DelCnt(m[i].data) /\ (i > 1 => ~Half(m[i]))
  <2>1. CASE i = Len(l) + 1
    BY <2>1, <1>2, <1>4
  <2>2. CASE i # Len(l) + 1
    <3>1. i \in 1 .. Len(l)
      BY <2>2, <1>2
    <3>2. m[i] = l[i]
      BY <3>1, <1>2
    <3> QED BY <3>1, <3>2 DEF ListFine
  <2> QED BY <2>1, <2>2
<1>6. Len(m) # 0
  BY <1>2
<1>7. Len(l) # 0 => 1 \in 1 .. Len(l)
  BY <1>2
<1> QED BY <1>1, <1>2, <1>4, <1>5, <1>6, <1>7 DEF ListFine

-----------------------------------------------------------------------------
(* Pieces are taken, none of them an answer.                               *)
CleanCut(n) == n > 0 => /\ Stream[n] # <<"ipd", 1>> /\ Stream[n] # <<"ipd", 2>>
                        /\ Stream[n] # <<"len", 3>>

NoAnswers(n) == \A i \in 1 .. n : ~Live(Stream, FALSE, i)

LEMMA AckDrops ==
    ASSUME AtRuns, AckRun, ~parsing, NEW n, Dropped(n), FrameRests, UNCHANGED <<write_list, busy_flag>>,
           CleanCut(n), NoAnswers(n), state' \notin Writes
    PROVE  AckRun'
<1>1. FrameOut /\ AtLine /\ AtParsing
  BY RunsHave
<1>2. ~InFrame /\ ~InFrame' /\ DropOf(Stream', Stream, n)
  BY <1>1, LineDrops DEF Dropped
<1>3. InFrame \in BOOLEAN /\ InFrame' \in BOOLEAN
  BY Zenon DEF InFrame
<1>4. InFrame = FALSE /\ InFrame' = FALSE
  BY <1>2, <1>3
<1>5. n \in Nat
  BY <1>1, FrontIs DEF Dropped
<1>6. CutAt(Stream, FALSE, FALSE, n)
  BY <1>5 DEF CutAt, CleanCut
<1>7. SameLive(Stream, FALSE, Stream', FALSE, n) /\ n \in Int
  BY <1>2, <1>6, DropsNoneLive DEF NoAnswers
<1>8. Stage(Stream, FALSE, write_list, busy_flag, state)
  BY <1>4 DEF AckRun
<1>9. Stage(Stream', FALSE, write_list, busy_flag, state)
  BY <1>7, <1>8, StageKept
<1>10. Stage(Stream', FALSE, write_list, busy_flag, state')
  BY <1>9, StageRests
<1>11. WholeTexts(Stream')
  BY <1>2, WholeDrop DEF AckRun, CleanCut
<1>12. ListFine(write_list')
  BY DEF AckRun
<1> QED BY <1>4, <1>10, <1>11, <1>12 DEF AckRun

(* Nothing changes but the engine's state.                                 *)
LEMMA AckQuiet ==
    ASSUME AtRuns, AckRun, Quiet, UNCHANGED <<write_list, busy_flag>>,
           state' = state \/ state' \notin Writes \/ (state = "write" /\ state' = "writeCmd")
    PROVE  AckRun'
<1>1. FrameOut /\ AtLine /\ AtParsing
  BY RunsHave
<1>2. InFrame' = InFrame /\ Stream' = Stream
  BY <1>1, LineRests DEF Quiet
<1>3. Stage(Stream, InFrame, write_list, busy_flag, state')
  BY StageRests DEF AckRun
<1> QED BY <1>2, <1>3 DEF AckRun

Kept == UNCHANGED <<early, upset, atEnd>>

LEMMA AckIs ==
    ASSUME AtRuns, AckGood, Kept, AckRun'
    PROVE  AckInv'
  BY DEF AtRuns, AckGood, AckInv, Kept

LEMMA AckIsNow ==
    ASSUME AtRuns, ~early', UNCHANGED atEnd, AckRun'
    PROVE  AckInv'
  BY DEF AtRuns, AckInv

LEMMA AckUpset ==
    ASSUME upset'
    PROVE  AckInv'
  BY DEF AckInv

LEMMA AckWaits ==
    ASSUME AtRuns, AckGood, At!ReadNothing \/ At!IdleRead \/ At!WriteCmd \/ At!WriteCmdWait
    PROVE  AckInv'
<1>1. Quiet /\ UNCHANGED <<write_list, busy_flag>> /\ Kept
  BY DEF Quiet, Kept, FrameRests, At!ReadNothing, At!IdleRead, At!WriteCmd, At!WriteCmdWait,
         At!line, At!queue, At!history
<1>2. state' \notin Writes \/ (state = "write" /\ state' = "writeCmd")
  BY DEF At!ReadNothing, At!IdleRead, At!WriteCmd, At!WriteCmdWait, At!Working, Writes
<1>3. AckRun'
  BY <1>1, <1>2, AckQuiet DEF AckGood
<1> QED BY <1>1, <1>3, AckIs

LEMMA AckIdleWrites ==
    ASSUME AtRuns, AckGood, At!IdleWrite
    PROVE  AckInv'
<1>1. Quiet /\ UNCHANGED <<write_list, busy_flag>> /\ Kept
  BY DEF Quiet, Kept, FrameRests, At!IdleWrite, At!line, At!queue, At!history
<1>2. FrameOut /\ AtLine /\ AtParsing /\ AtList
  BY RunsHave
<1>3. InFrame' = InFrame /\ Stream' = Stream
  BY <1>1, <1>2, LineRests DEF Quiet
<1>4. busy_flag = 0 /\ state' = "write" /\ write_list # <<>>
  BY DEF At!IdleWrite, At!NoCommand
<1>5. Len(write_list) # 0
  BY <1>2, <1>4 DEF AtList
<1>6. Asked(Stream, InFrame, write_list[1], 0, state)
  BY <1>4, <1>5 DEF AckGood, AckRun, Stage
<1>7. NoneLive(Stream, InFrame) /\ ~Half(write_list[1])
  BY <1>6 DEF Asked, Awaited
<1>8. Stage(Stream, InFrame, write_list, busy_flag, "write")
  BY <1>5, <1>7, StageQuiet
<1>9. AckRun'
  BY <1>1, <1>3, <1>4, <1>8 DEF AckGood, AckRun
<1> QED BY <1>1, <1>9, AckIs

LEMMA RetriedHead ==
    ASSUME NEW h \in AtCmds, NEW r \in Int
    PROVE  /\ [h EXCEPT !.retry = r] \in AtCmds
           /\ [h EXCEPT !.retry = r].data = h.data /\ [h EXCEPT !.retry = r].del_cnt = h.del_cnt
  BY DEF AtCmds

LEMMA FineHead ==
    ASSUME AtList, ListFine(write_list), NEW h, HeadIs(h)
    PROVE  /\ h.del_cnt <= At!DelCnt(h.data) /\ h.del_cnt \in {1, 2} /\ Len(write_list) # 0
           /\ Len(write_list) \in Nat /\ write_list[1] = h /\ h \in AtCmds
           /\ At!DelCnt(h.data) \in {1, 2}
<1>1. write_list \in Seq(AtCmds) /\ write_list # <<>> /\ write_list[1] = h /\ h \in AtCmds
  BY DEF AtList, HeadIs
<1>2. Len(write_list) \in Nat /\ 1 \in 1 .. Len(write_list)
  BY <1>1
<1>3. h.del_cnt <= At!DelCnt(h.data)
  BY <1>1, <1>2 DEF ListFine
<1>4. h.del_cnt \in {1, 2}
  BY <1>1 DEF AtCmds
<1>5. Len(write_list) # 0
  BY <1>2
<1>6. At!DelCnt(h.data) \in {1, 2}
  BY DEF At!DelCnt
<1> QED BY <1>1, <1>2, <1>3, <1>4, <1>5, <1>6

(* The head is given another count of tries.                               *)
LEMMA RetriedFine ==
    ASSUME AtList, ListFine(write_list), NEW h, HeadIs(h), NEW r \in Int, HeadRetried(h, r)
    PROVE  ListFine(write_list') /\ Len(write_list') # 0 /\ (~Half(h) => ~Half(write_list'[1]))
<1>1. PICK c : c = [h EXCEPT !.retry = r]
  OBVIOUS
<1>2. h \in AtCmds /\ h.del_cnt <= At!DelCnt(h.data)
  BY FineHead
<1>3. c \in AtCmds /\ c.data = h.data /\ c.del_cnt = h.del_cnt
  BY <1>1, <1>2, RetriedHead
<1>4. write_list' = [write_list EXCEPT ![1] = c] /\ write_list \in Seq(AtCmds) /\ write_list # <<>>
  BY <1>1 DEF HeadRetried, AtList, HeadIs
<1>5. c.del_cnt <= At!DelCnt(c.data)
  BY <1>2, <1>3
<1>6. ListFine(write_list') /\ Len(write_list') # 0 /\ write_list'[1] = c
  BY <1>3, <1>4, <1>5, ListsHead
<1>7. ~Half(h) => ~Half(c)
  BY <1>3 DEF Half
<1> QED BY <1>6, <1>7

LEMMA AckTimesOut ==
    ASSUME AtRuns, AckGood, At!IdleTimeOut
    PROVE  AckInv'
<1>1. CASE upset'
  BY <1>1, AckUpset
<1>2. CASE ~upset'
  <2>1. FrameOut /\ AtLine /\ AtParsing /\ AtList
    BY RunsHave
  <2>2. PICK h, r : HeadIs(h) /\ TimedOut(h, r)
    BY TimeOutIs
  <2>3. InFrame' = InFrame /\ Stream' = Stream
    BY <2>1, <2>2, LineRests DEF Quiet, TimedOut
  <2>4. ~At!Halfway /\ ~\E i \in DOMAIN air : air[i][1] \in {"ok", "error", "send"}
    BY <1>2 DEF At!IdleTimeOut
  <2>5. fifo = <<>>
    BY DEF At!IdleTimeOut
  <2>6. ~Half(h)
    BY <2>2, <2>4, Zenon DEF At!Halfway, At!HasData, Half, HeadIs
  <2>7. NoneLive(Stream, InFrame)
    <3>1. air \in Seq(Piece) /\ Stream = air
      BY <2>1, <2>5 DEF AtLine, Stream
    <3>2. DOMAIN air = 1 .. Len(air)
      BY <3>1
    <3>3. ASSUME NEW i \in 1 .. Len(Stream) PROVE ~Live(Stream, InFrame, i)
      <4>1. air[i][1] \notin {"ok", "error", "send"}
        BY <2>4, <3>1, <3>2, <3>3
      <4>2. air[i] \notin Acks
        BY <4>1 DEF Acks
      <4> QED BY <4>2, <3>1 DEF Live
    <3> QED BY <3>3 DEF NoneLive
  <2>8. ListFine(write_list') /\ Len(write_list') # 0 /\ ~Half(write_list'[1])
    BY <2>1, <2>2, <2>6, RetriedFine DEF TimedOut, AckGood, AckRun
  <2>9. state' # "writeData"
    BY <2>2 DEF TimedOut
  <2>10. Stage(Stream, InFrame, write_list', busy_flag', state')
    BY <2>7, <2>8, <2>9, StageQuiet
  <2>11. AckRun'
    BY <2>3, <2>8, <2>10 DEF AckGood, AckRun
  <2>12. early' = early /\ atEnd' = atEnd
    BY <2>2 DEF TimedOut, At!IdleTimeOut
  <2> QED BY <2>11, <2>12 DEF AckInv, AckGood, AtRuns
<1> QED BY <1>1, <1>2

LEMMA FrontText ==
    ASSUME AtLine, NEW k, Starts(k)
    PROVE  /\ 2 \in 0 .. Len(fifo) /\ 2 <= Len(Stream) /\ Len(Stream) \in Nat
           /\ Stream[1] = <<k, 1>> /\ Stream[2] = <<k, 2>>
<1>1. /\ Len(fifo) \in Nat /\ Len(fifo) <= Len(Stream) /\ Len(Stream) \in Nat
      /\ \A i \in 1 .. Len(fifo) : Stream[i] = fifo[i]
  BY FrontIs
<1>2. Len(fifo) >= 2 /\ fifo[1] = <<k, 1>> /\ fifo[2] = <<k, 2>>
  BY DEF Starts
<1>3. 1 \in 1 .. Len(fifo) /\ 2 \in 1 .. Len(fifo)
  BY <1>1, <1>2
<1> QED BY <1>1, <1>2, <1>3

LEMMA AckStart ==
    ASSUME AtRuns, AckGood, At!ReadStart
    PROVE  AckInv'
<1>1. AtLine
  BY RunsHave
<1>2. ~parsing /\ Kept
  BY DEF At!ReadStart, At!Reading, At!Running, Kept, At!history
<1>3. PICK n : StartedAt(n)
  BY StartIs
<1>4. /\ Len(fifo) \in Nat /\ Stream \in Seq(Piece) /\ Len(Stream) \in Nat
      /\ Len(fifo) <= Len(Stream) /\ n \in 0 .. Len(fifo)
      /\ \A i \in 1 .. Len(fifo) : Stream[i] = fifo[i]
  BY <1>1, <1>3, FrontIs DEF StartedAt, Dropped
<1>5. ASSUME NEW i \in 1 .. n PROVE ~(Stream[i][2] = 1 /\ Stream[i][1] # "data")
  <2>1. i \in 1 .. Len(fifo)
    BY <1>4
  <2> QED BY <2>1, <1>3, <1>4 DEF StartedAt, Skips
<1>6. CleanCut(n)
  <2>1. n > 0 => n \in 1 .. Len(Stream)
    BY <1>4
  <2> QED BY <2>1, <1>4, <1>5, WholeClean DEF CleanCut, AckGood, AckRun
<1>7. NoAnswers(n)
  <2> SUFFICES ASSUME NEW i \in 1 .. n PROVE ~Live(Stream, FALSE, i)
    BY DEF NoAnswers
  <2>1. Stream[i] \notin Acks
    BY <1>5 DEF Acks
  <2> QED BY <2>1 DEF Live
<1>8. state' \notin Writes
  BY <1>3 DEF StartedAt, Writes
<1>9. AckRun'
  BY <1>2, <1>3, <1>6, <1>7, <1>8, AckDrops DEF StartedAt, AckGood
<1> QED BY <1>2, <1>9, AckIs

LEMMA AckHead ==
    ASSUME AtRuns, AckGood, At!ReadHead
    PROVE  AckInv'
<1>1. AtLine
  BY RunsHave
<1>2. /\ FrameRests /\ UNCHANGED <<write_list, busy_flag>>
      /\ Len(fifo) >= 1 /\ fifo[1] = <<fifo[1][1], 1>>
      /\ (\E k : HeadFound(k)) \/ PromptFound \/ Mistaken
  BY HeadReadIs
<1>3. Kept
  BY DEF Kept, At!ReadHead, At!history
<1>4. ASSUME UNCHANGED <<fifo, air>>, state' \notin Writes PROVE AckInv'
  <2>1. Quiet
    BY <1>2, <1>4 DEF Quiet
  <2>2. AckRun'
    BY <2>1, <1>2, <1>4, AckQuiet DEF AckGood
  <2> QED BY <2>2, <1>3, AckIs
<1>5. ASSUME NEW k, HeadFound(k) PROVE AckInv'
  <2>1. state' \notin Writes
    BY <1>5 DEF HeadFound, Kinds, Writes
  <2> QED BY <2>1, <1>4, <1>5 DEF HeadFound
<1>6. ASSUME PromptFound PROVE AckInv'
  BY <1>4, <1>6 DEF PromptFound, Writes
<1>7. ASSUME Mistaken PROVE FALSE
  <2>1. Len(fifo) >= 2 /\ fifo[2] # <<fifo[1][1], 2>>
    BY <1>7 DEF Mistaken
  <2>2. /\ Len(fifo) \in Nat /\ Len(fifo) <= Len(Stream) /\ Len(Stream) \in Nat
        /\ \A i \in 1 .. Len(fifo) : Stream[i] = fifo[i]
    BY <1>1, FrontIs
  <2>3. Stream[1] = fifo[1] /\ Stream[2] = fifo[2] /\ 1 \in 1 .. Len(Stream)
    BY <2>1, <2>2
  <2>4. Paired(Stream, 1)
    BY <2>3 DEF AckGood, AckRun, WholeTexts
  <2>5. Stream[1][2] = 1
    BY <1>2, <2>3
  <2>6. Stream[1 + 1] = <<Stream[1][1], 2>>
    BY <2>4, <2>5 DEF Paired
  <2> QED BY <2>1, <2>3, <2>6
<1> QED BY <1>2, <1>5, <1>6, <1>7

(* An answer is taken, the first on its way.                               *)
AnswerGone(n) ==
    /\ DropOf(Stream', Stream, n) /\ WholeTexts(Stream')
    /\ InFrame = FALSE /\ InFrame' = FALSE /\ Len(write_list) # 0
    /\ Asked(Stream, FALSE, write_list[1], busy_flag, state)
    /\ \A k : OnlyLive(Stream, FALSE, k) => Stream[1] = <<k, 1>> /\ NoneLive(Stream', FALSE)
    /\ OkThenSend(Stream, FALSE) => Stream[1] = <<"ok", 1>> /\ OnlyLive(Stream', FALSE, "send")
    /\ ~NoneLive(Stream, FALSE)

LEMMA FirstLive ==
    ASSUME AtRuns, AckRun, ~parsing, Len(fifo) >= 1, fifo[1] \in Acks
    PROVE  /\ InFrame = FALSE /\ ~NoneLive(Stream, FALSE) /\ Live(Stream, FALSE, 1)
           /\ Len(write_list) # 0 /\ Asked(Stream, FALSE, write_list[1], busy_flag, state)
           /\ ~At!NoCommand
<1>1. AtLine /\ AtList
  BY RunsHave
<1>2. /\ Len(fifo) \in Nat /\ Len(fifo) <= Len(Stream) /\ Len(Stream) \in Nat
      /\ \A i \in 1 .. Len(fifo) : Stream[i] = fifo[i]
  BY <1>1, FrontIs
<1>3. 1 \in 1 .. Len(fifo) /\ 1 \in 1 .. Len(Stream)
  BY <1>2
<1>4. Live(Stream, FALSE, 1)
  BY <1>2, <1>3 DEF Live
<1>5. ~NoneLive(Stream, FALSE)
  BY <1>3, <1>4 DEF NoneLive
<1>6. InFrame = FALSE
  <2>1. InFrame \in BOOLEAN /\ ~InFrame
    BY Zenon DEF InFrame
  <2> QED BY <2>1
<1>7. Stage(Stream, FALSE, write_list, busy_flag, state)
  BY <1>6 DEF AckRun
<1>8. Len(write_list) # 0 /\ Asked(Stream, FALSE, write_list[1], busy_flag, state)
  BY <1>5, <1>7 DEF Stage
<1>9. ~At!NoCommand
  BY <1>8 DEF At!NoCommand
<1> QED BY <1>4, <1>5, <1>6, <1>8, <1>9

LEMMA AnswerTaken ==
    ASSUME AtRuns, AckRun, ~parsing, NEW n, Dropped(n), FrameRests, n \in {1, 2},
           NEW k \in {"ok", "error", "send"}, Len(fifo) >= 1, fifo[1] = <<k, 1>>,
           n = 2 => Starts(k)
    PROVE  AnswerGone(n)
<1>1. FrameOut /\ AtLine /\ AtParsing
  BY RunsHave
<1>2. <<k, 1>> \in Acks
  BY DEF Acks
<1>3. /\ InFrame = FALSE /\ Live(Stream, FALSE, 1)
      /\ Len(write_list) # 0 /\ Asked(Stream, FALSE, write_list[1], busy_flag, state)
  BY <1>2, FirstLive
<1>4. ~InFrame' /\ DropOf(Stream', Stream, n)
  BY <1>1, LineDrops DEF Dropped
<1>5. InFrame' = FALSE
  <2>1. InFrame' \in BOOLEAN
    BY Zenon DEF InFrame
  <2> QED BY <2>1, <1>4
<1>6. Len(fifo) \in Nat /\ \A i \in 1 .. Len(fifo) : Stream[i] = fifo[i]
  BY <1>1, FrontIs
<1>7. Stream[1] = <<k, 1>>
  BY <1>6
<1>8. n = 2 => Stream[2] = <<k, 2>>
  BY <1>1, FrontText
<1>9. /\ Stream[n] # <<"ipd", 1>> /\ Stream[n] # <<"ipd", 2>> /\ Stream[n] # <<"len", 3>>
  <2>1. n = 1 \/ n = 2
    OBVIOUS
  <2> QED BY <2>1, <1>7, <1>8
<1>10. WholeTexts(Stream')
  BY <1>4, <1>9, WholeDrop DEF AckRun
<1>11. CutAt(Stream, FALSE, FALSE, n)
  BY <1>9 DEF CutAt
<1>12. ASSUME NEW i \in 2 .. n PROVE ~Live(Stream, FALSE, i)
  <2>1. i = 2 /\ n = 2
    OBVIOUS
  <2>2. Stream[i] \notin Acks
    BY <2>1, <1>8 DEF Acks
  <2> QED BY <2>2 DEF Live
<1>13. n > 0
  OBVIOUS
<1>14. /\ ~NoneLive(Stream, FALSE)
       /\ \A m : OnlyLive(Stream, FALSE, m) => Stream[1] = <<m, 1>> /\ NoneLive(Stream', FALSE)
       /\ OkThenSend(Stream, FALSE) => Stream[1] = <<"ok", 1>> /\ OnlyLive(Stream', FALSE, "send")
  BY <1>3, <1>4, <1>11, <1>12, <1>13, DropsFirstLive
<1> QED BY <1>3, <1>4, <1>5, <1>10, <1>14 DEF AnswerGone

LEMMA AckOkTaken ==
    ASSUME AtRuns, AckGood, ~parsing, Starts("ok"), NEW h, OkTaken(h)
    PROVE  AckInv'
<1>1. AtList /\ Len(fifo) >= 1 /\ fifo[1] = <<"ok", 1>>
  BY RunsHave DEF Starts, AtEngine
<1>2. HeadIs(h) /\ ListFine(write_list)
  BY DEF OkTaken, AckGood, AckRun
<1>3. /\ h.del_cnt <= At!DelCnt(h.data) /\ h.del_cnt \in {1, 2} /\ write_list[1] = h
      /\ h \in AtCmds /\ At!DelCnt(h.data) \in {1, 2}
  BY <1>1, <1>2, FineHead
<1>4. write_list \in Seq(AtCmds) /\ write_list # <<>>
  BY <1>1, <1>2 DEF AtList, HeadIs
<1>5. AnswerGone(2)
  <2>1. 2 \in {1, 2} /\ "ok" \in {"ok", "error", "send"}
    OBVIOUS
  <2>2. Dropped(2) /\ FrameRests /\ AckRun
    BY DEF OkTaken, AckGood
  <2> QED BY <2>1, <2>2, <1>1, AnswerTaken
<1>6. Awaited(Stream, FALSE, h, busy_flag) /\ (Half(h) => busy_flag # 0)
  BY <1>3, <1>5 DEF AnswerGone, Asked
<1>7. Stream[1] = <<"ok", 1>> \/ ~OkThenSend(Stream, FALSE)
  BY <1>5 DEF AnswerGone
<1>8. ~OnlyLive(Stream, FALSE, "send") \/ Stream[1] = <<"send", 1>>
  BY <1>5 DEF AnswerGone
<1>9. ~OnlyLive(Stream, FALSE, "error") \/ Stream[1] = <<"error", 1>>
  BY <1>5 DEF AnswerGone
<1>10. Stream[1] = <<"ok", 1>>
  BY RunsHave, FrontText
<1>16. Stream[1] # <<"send", 1>> /\ Stream[1] # <<"error", 1>>
  BY <1>10
<1>11. ~OnlyLive(Stream, FALSE, "send") /\ ~OnlyLive(Stream, FALSE, "error")
  BY <1>8, <1>9, <1>16
<1>12. \/ busy_flag = 1 /\ h.data /\ h.del_cnt = 2 /\ OkThenSend(Stream, FALSE)
       \/ h.whole /\ h.del_cnt = 1 /\ OnlyLive(Stream, FALSE, "ok")
  BY <1>5, <1>6, <1>11 DEF Awaited, AnswerGone
<1>13. state' = "idle" /\ state' \notin Writes
  BY DEF OkTaken, Writes
<1>14. CASE busy_flag = 1 /\ h.data /\ h.del_cnt = 2 /\ OkThenSend(Stream, FALSE)
  <2>1. HeadCounted(h) /\ UNCHANGED early /\ busy_flag' = 1
    BY <1>14 DEF OkTaken
  <2>2. PICK c : c = [h EXCEPT !.del_cnt = h.del_cnt - 1]
    OBVIOUS
  <2>12. h \in AtCmds /\ h.del_cnt # 1
    BY <1>3, <1>14
  <2>3. c \in AtCmds /\ c.del_cnt = 1 /\ c.data = h.data
    BY <2>2, <2>12, CountedHead
  <2>4. c.del_cnt <= At!DelCnt(c.data)
    BY <2>3, <1>3
  <2>5. write_list' = [write_list EXCEPT ![1] = c]
    BY <2>1, <2>2 DEF HeadCounted
  <2>6. ListFine(write_list') /\ Len(write_list') # 0 /\ write_list'[1] = c
    BY <2>3, <2>4, <2>5, <1>2, <1>4, ListsHead
  <2>7. OnlyLive(Stream', FALSE, "send")
    BY <1>5, <1>14 DEF AnswerGone
  <2>13. c.data
    BY <2>3, <1>14
  <2>15. 1 # 0 /\ ("idle" \notin {"write", "writeCmd"}) /\ "idle" # "writeData"
    OBVIOUS
  <2>14. Awaited(Stream', FALSE, c, 1)
    BY <2>3, <2>7, <2>13, <2>15, Zenon DEF Awaited
  <2>8. Asked(Stream', FALSE, c, 1, "idle")
    BY <2>14, <2>15, Zenon DEF Asked
  <2>9. Stage(Stream', FALSE, write_list', busy_flag', state')
    BY <2>1, <2>6, <2>8, <1>13 DEF Stage
  <2>10. AckRun'
    BY <2>6, <2>9, <1>5 DEF AckRun, AnswerGone
  <2>11. Kept
    BY <2>1 DEF Kept, OkTaken
  <2> QED BY <2>10, <2>11, AckIs
<1>15. CASE h.whole /\ h.del_cnt = 1 /\ OnlyLive(Stream, FALSE, "ok")
  <2>1. write_list' = Tail(write_list) /\ ~early'
    BY <1>15 DEF OkTaken, AckGood
  <2>2. /\ ListFine(write_list') /\ Len(write_list') \in Nat
        /\ Len(write_list') # 0 => ~Half(write_list'[1])
    BY <2>1, <1>2, <1>4, ListsTail
  <2>3. NoneLive(Stream', FALSE)
    BY <1>5, <1>15 DEF AnswerGone
  <2>4. Stage(Stream', FALSE, write_list', busy_flag', state')
    <3>1. CASE Len(write_list') = 0
      BY <3>1, <2>3, <1>13 DEF Stage
    <3>2. CASE Len(write_list') # 0
      <4>1. state' # "writeData"
        BY <1>13
      <4> QED BY <4>1, <3>2, <2>2, <2>3, StageQuiet
    <3> QED BY <3>1, <3>2
  <2>5. AckRun'
    BY <2>2, <2>4, <1>5 DEF AckRun, AnswerGone
  <2>6. atEnd' = atEnd
    BY DEF OkTaken
  <2> QED BY <2>1, <2>5, <2>6, AckIsNow
<1> QED BY <1>12, <1>14, <1>15

LEMMA AckOk ==
    ASSUME AtRuns, AckGood, At!ReadOk
    PROVE  AckInv'
<1>1. ~parsing /\ Starts("ok") /\ (Lost \/ \E h : OkTaken(h))
  BY OkReadIs
<1>2. Len(fifo) >= 1 /\ fifo[1] = <<"ok", 1>> /\ <<"ok", 1>> \in Acks
  BY <1>1, RunsHave, FrontIs DEF Starts, Acks
<1>3. ~Lost
  BY <1>1, <1>2, FirstLive DEF Lost, AckGood
<1> QED BY <1>1, <1>3, AckOkTaken

LEMMA AckErrorTaken ==
    ASSUME AtRuns, AckGood, ~parsing, Starts("error"), NEW h, ErrorTaken(h), ~upset'
    PROVE  AckInv'
<1>1. AtLine /\ AtList /\ fifo \in Seq(Piece)
  BY RunsHave DEF AtLine
<1>2. Len(fifo) \in Nat /\ Len(fifo) >= 2 /\ fifo[1] = <<"error", 1>>
  BY <1>1 DEF Starts
<1>3. PICK r \in Int : /\ \/ r = 0 /\ write_list' = Tail(write_list)
                          \/ r # 0 /\ HeadRetried(h, r)
                       /\ upset' = (upset \/ r = 0 \/ At!Halfway \/ Len(fifo) > 2)
  BY DEF ErrorTaken
<1>4. r # 0 /\ HeadRetried(h, r) /\ ~At!Halfway /\ ~(Len(fifo) > 2)
  BY <1>3
<1>5. Len(fifo) = 2
  <2>1. PICK l \in Nat : l = Len(fifo)
    BY <1>2
  <2>2. l >= 2 /\ ~(l > 2)
    BY <2>1, <1>2, <1>4
  <2>3. l = 2
    BY <2>2
  <2> QED BY <2>1, <2>3
<1>6. HeadIs(h) /\ ListFine(write_list)
  BY DEF ErrorTaken, AckGood, AckRun
<1>7. ~Half(h)
  BY <1>4, <1>6, Zenon DEF At!Halfway, At!HasData, Half, HeadIs
<1>8. ListFine(write_list') /\ Len(write_list') # 0 /\ ~Half(write_list'[1])
  BY <1>1, <1>4, <1>6, <1>7, RetriedFine
<1>9. AnswerGone(2)
  <2>1. 2 \in {1, 2} /\ "error" \in {"ok", "error", "send"} /\ Len(fifo) >= 1
    BY <1>2
  <2>2. Dropped(2) /\ FrameRests /\ AckRun
    BY <1>5 DEF ErrorTaken, AckGood
  <2> QED BY <2>1, <2>2, <1>2, AnswerTaken
<1>10. write_list[1] = h
  BY <1>6 DEF HeadIs
<1>11. Awaited(Stream, FALSE, h, busy_flag)
  BY <1>9, <1>10 DEF AnswerGone, Asked
<1>12. Stream[1] = <<"error", 1>>
  BY <1>1, FrontText
<1>19. Stream[1] # <<"ok", 1>>
  BY <1>12
<1>13. ~OkThenSend(Stream, FALSE)
  BY <1>9, <1>19 DEF AnswerGone
<1>14. \E k : OnlyLive(Stream, FALSE, k)
  BY <1>9, <1>11, <1>13 DEF AnswerGone, Awaited
<1>15. NoneLive(Stream', FALSE)
  BY <1>9, <1>14 DEF AnswerGone
<1>16. Stage(Stream', FALSE, write_list', busy_flag', state')
  <2>1. state' # "writeData"
    BY DEF ErrorTaken
  <2> QED BY <2>1, <1>8, <1>15, StageQuiet
<1>17. AckRun'
  BY <1>8, <1>9, <1>16 DEF AckRun, AnswerGone
<1>18. ~early' /\ atEnd' = atEnd
  BY DEF ErrorTaken, AckGood
<1> QED BY <1>17, <1>18, AckIsNow

LEMMA AckError ==
    ASSUME AtRuns, AckGood, At!ReadError
    PROVE  AckInv'
<1>1. ~parsing /\ Starts("error") /\ (Lost \/ \E h : ErrorTaken(h))
  BY ErrorReadIs
<1>2. Len(fifo) >= 1 /\ fifo[1] = <<"error", 1>> /\ <<"error", 1>> \in Acks
  BY <1>1, RunsHave, FrontIs DEF Starts, Acks
<1>3. ~Lost
  BY <1>1, <1>2, FirstLive DEF Lost, AckGood
<1> QED BY <1>1, <1>3, AckErrorTaken, AckUpset

(* A string that answers nothing is taken.                                 *)
LEMMA AckTextTaken ==
    ASSUME AtRuns, AckGood, ~parsing, NEW k \in {"ready", "busy", "closed", "signal"}, Starts(k),
           Dropped(2), FrameRests, UNCHANGED <<write_list, busy_flag>>, state' \notin Writes
    PROVE  AckRun'
<1>1. Stream[1] = <<k, 1>> /\ Stream[2] = <<k, 2>>
  BY RunsHave, FrontText
<1>2. CleanCut(2)
  BY <1>1 DEF CleanCut
<1>3. NoAnswers(2)
  <2> SUFFICES ASSUME NEW i \in 1 .. 2 PROVE ~Live(Stream, FALSE, i)
    BY DEF NoAnswers
  <2>1. i = 1 \/ i = 2
    OBVIOUS
  <2>2. Stream[i] \notin Acks
    BY <2>1, <1>1 DEF Acks
  <2> QED BY <2>2 DEF Live
<1> QED BY <1>2, <1>3, AckDrops DEF AckGood

LEMMA AckPlainTaken ==
    ASSUME AtRuns, AckGood, NEW s \in {"ready", "busy", "closed"}, PlainTaken(s)
    PROVE  AckRun'
<1>1. /\ state = s /\ ~parsing /\ Dropped(offset_len) /\ FrameRests
      /\ UNCHANGED <<write_list, busy_flag>> /\ state \in Kinds /\ state \notin {"send"}
      /\ state' \notin Writes
  BY DEF PlainTaken, Kinds, Writes
<1>2. (offset_len = 2 /\ Starts(s)) \/ offset_len = 0
  BY <1>1, FoundIs
<1>3. CASE offset_len = 2 /\ Starts(s)
  <2>1. s \in {"ready", "busy", "closed", "signal"} /\ Dropped(2)
    BY <1>1, <1>3
  <2> QED BY <2>1, <1>1, <1>3, AckTextTaken
<1>4. CASE offset_len = 0
  <2>1. Dropped(0)
    BY <1>1, <1>4
  <2>2. CleanCut(0) /\ NoAnswers(0)
    BY DEF CleanCut, NoAnswers
  <2> QED BY <2>1, <2>2, <1>1, AckDrops DEF AckGood
<1> QED BY <1>2, <1>3, <1>4

LEMMA AckPromptTaken ==
    ASSUME AtRuns, AckGood, PlainTaken("send")
    PROVE  AckRun'
<1>1. /\ state = "send" /\ ~parsing /\ Dropped(offset_len) /\ FrameRests
      /\ UNCHANGED <<write_list, busy_flag>> /\ state \in Kinds
      /\ state' = "writeData"
  BY DEF PlainTaken, Kinds
<1>2. /\ offset_len \in {1, 2} /\ Len(fifo) >= 1 /\ fifo[1] = <<"send", 1>>
      /\ offset_len = 2 => Starts("send")
  BY <1>1, FoundIs DEF Starts
<1>3. AnswerGone(offset_len)
  <2>1. "send" \in {"ok", "error", "send"}
    OBVIOUS
  <2> QED BY <2>1, <1>1, <1>2, AnswerTaken DEF AckGood
<1>4. AtLine /\ Len(fifo) \in Nat /\ \A i \in 1 .. Len(fifo) : Stream[i] = fifo[i]
  BY RunsHave, FrontIs
<1>5. Stream[1] = <<"send", 1>>
  BY <1>2, <1>4
<1>6. PICK h : h = write_list[1]
  OBVIOUS
<1>7. Awaited(Stream, FALSE, h, busy_flag) /\ (Half(h) => busy_flag # 0) /\ Len(write_list) # 0
  BY <1>3, <1>6 DEF AnswerGone, Asked
<1>14. Stream[1] # <<"ok", 1>> /\ Stream[1] # <<"error", 1>>
  BY <1>5
<1>8. /\ ~OkThenSend(Stream, FALSE) /\ ~OnlyLive(Stream, FALSE, "ok")
      /\ ~OnlyLive(Stream, FALSE, "error") /\ ~NoneLive(Stream, FALSE)
  BY <1>3, <1>14, Zenon DEF AnswerGone
<1>9. h.data /\ h.del_cnt = 1 /\ OnlyLive(Stream, FALSE, "send")
  BY <1>7, <1>8 DEF Awaited
<1>10. NoneLive(Stream', FALSE)
  BY <1>3, <1>9 DEF AnswerGone
<1>11. Asked(Stream', FALSE, h, busy_flag, "writeData")
  BY <1>7, <1>9, <1>10 DEF Asked, Awaited
<1>12. Stage(Stream', FALSE, write_list, busy_flag, "writeData")
  BY <1>6, <1>7, <1>11 DEF Stage
<1>13. ListFine(write_list)
  BY DEF AckGood, AckRun
<1> QED BY <1>1, <1>3, <1>12, <1>13 DEF AckRun, AnswerGone

LEMMA AckPlain ==
    ASSUME AtRuns, AckGood, At!ReadPlain
    PROVE  AckInv'
<1>1. PICK s \in {"ready", "busy", "send", "closed"} : PlainTaken(s)
  BY PlainReadIs
<1>2. Kept
  BY <1>1 DEF Kept, PlainTaken
<1>3. s \in {"ready", "busy", "closed"} \/ s = "send"
  OBVIOUS
<1>4. AckRun'
  BY <1>1, <1>3, AckPlainTaken, AckPromptTaken
<1> QED BY <1>2, <1>4, AckIs

LEMMA AckSignal ==
    ASSUME AtRuns, AckGood, At!ReadSignal
    PROVE  AckInv'
<1>1. PICK n : SignalTaken(n)
  BY SignalReadIs
<1>2. AtLine
  BY RunsHave
<1>3. /\ Len(fifo) \in Nat /\ Len(fifo) <= Len(Stream) /\ Len(Stream) \in Nat
      /\ \A i \in 1 .. Len(fifo) : Stream[i] = fifo[i]
  BY <1>2, FrontIs
<1>4. Stream[1] = <<"signal", 1>> /\ Stream[2] = <<"signal", 2>> /\ 2 \in 1 .. Len(Stream)
  BY <1>1, <1>2, FrontText DEF SignalTaken
<1>5. Signals(Stream, 2)
  BY <1>4 DEF AckGood, AckRun, WholeTexts
<1>6. Stream[3] = <<"ok", 1>>
  <2>1. Stream[2 + 1] = <<"ok", 1>>
    BY <1>4, <1>5 DEF Signals
  <2> QED BY <2>1
<1>7. n \in 0 .. Len(fifo) /\ n + 1 <= Len(fifo) /\ fifo[n + 1] = <<"ok", 1>>
  BY <1>1 DEF SignalTaken, Dropped
<1>8. n + 1 \in 1 .. Len(fifo) /\ Stream[n + 1] = <<"ok", 1>>
  BY <1>3, <1>7
<1>9. n # 0 /\ n # 1
  <2>1. n # 0
    <3> SUFFICES ASSUME n = 0 PROVE FALSE
      OBVIOUS
    <3> QED BY <1>4, <1>8
  <2>2. n # 1
    <3> SUFFICES ASSUME n = 1 PROVE FALSE
      OBVIOUS
    <3> QED BY <1>4, <1>8
  <2> QED BY <2>1, <2>2
<1>10. ~(n >= 3)
  <2> SUFFICES ASSUME n >= 3 PROVE FALSE
    OBVIOUS
  <2>1. 3 \in 1 .. n /\ 3 \in 1 .. Len(fifo)
    BY <1>3, <1>7
  <2>2. fifo[3] # <<"ok", 1>> /\ fifo[3] = Stream[3]
    BY <2>1, <1>1, <1>3 DEF SignalTaken
  <2> QED BY <2>2, <1>6
<1>11. n = 2
  BY <1>7, <1>9, <1>10
<1>12. /\ ~parsing /\ Starts("signal") /\ Dropped(2) /\ FrameRests /\ state' \notin Writes
       /\ UNCHANGED <<write_list, busy_flag>> /\ Kept
  BY <1>1, <1>11 DEF SignalTaken, Kept, Writes
<1>13. "signal" \in {"ready", "busy", "closed", "signal"}
  OBVIOUS
<1>14. AckRun'
  BY <1>12, <1>13, AckTextTaken
<1> QED BY <1>12, <1>14, AckIs

LEMMA InFrameIs ==
    InFrame \in BOOLEAN /\ (InFrame <=> parsing /\ frame_sum = 0)
  BY Zenon DEF InFrame

(* A frame's pieces are taken.                                             *)
LEMMA AckFrame ==
    ASSUME AtRuns, AckGood, NEW n, NEW k, FrameTaken(n, k), RestAfter(n, k), NEW q \in BOOLEAN,
           InFrame' = q, CutAt(Stream, InFrame, q, n),
           n > 0 => Stream[n] # <<"ipd", 1>> /\ Stream[n] # <<"ipd", 2>>,
           \A i \in 1 .. n : ~Live(Stream, InFrame, i)
    PROVE  AckInv'
<1>1. DropOf(Stream', Stream, n) /\ InFrame \in BOOLEAN
  BY BaseFrame, InFrameIs
<1>2. SameLive(Stream, InFrame, Stream', q, n) /\ n \in Int
  BY <1>1, DropsNoneLive
<1>3. Stage(Stream', q, write_list, busy_flag, state)
  BY <1>2, StageKept DEF AckGood, AckRun
<1>4. state' \notin Writes /\ UNCHANGED <<write_list, busy_flag>> /\ Kept
  BY DEF FrameTaken, Writes, Kept
<1>5. Stage(Stream', q, write_list, busy_flag, state')
  BY <1>3, <1>4, StageRests
<1>6. WholeTexts(Stream')
  BY <1>1, WholeDrop DEF AckGood, AckRun
<1>7. ListFine(write_list)
  BY DEF AckGood, AckRun
<1>8. AckRun'
  BY <1>4, <1>5, <1>6, <1>7 DEF AckRun
<1> QED BY <1>4, <1>8, AckIs

LEMMA FrameLeft ==
    ASSUME NEW n, NEW k, FrameTaken(n, k)
    PROVE  InFrame' = (k = 0) /\ (k = 0) \in BOOLEAN /\ k \in 0 .. 3
<1>1. InFrame' \in BOOLEAN /\ (InFrame' <=> parsing' /\ frame_sum' = 0)
  BY Zenon DEF InFrame
<1>2. k \in 0 .. 3
  BY DEF FrameTaken
<1>3. (parsing' /\ frame_sum' = 0) <=> k = 0
  <2>1. CASE k = 3
    <3>1. parsing' = FALSE
      BY <2>1 DEF FrameTaken
    <3> QED BY <3>1, <2>1
  <2>2. CASE k # 3
    BY <2>2 DEF FrameTaken
  <2> QED BY <2>1, <2>2
<1> QED BY <1>1, <1>2, <1>3

LEMMA AckFrameRead ==
    ASSUME AtRuns, AckGood, NEW n, NEW k, FrameRead(n, k)
    PROVE  AckInv'
<1>1. ~parsing /\ Starts("ipd") /\ n = 3 + k /\ FrameTaken(n, k) /\ RestAfter(n, k) /\ AtLine
  BY RunsHave DEF FrameRead
<1>2. InFrame' = (k = 0) /\ (k = 0) \in BOOLEAN /\ k \in 0 .. 3
  BY <1>1, FrameLeft
<1>3. InFrame = FALSE
  BY <1>1, InFrameIs
<1>4. /\ Stream[1] = <<"ipd", 1>> /\ Stream[2] = <<"ipd", 2>> /\ Stream[3] = <<"len", 3>>
      /\ \A j \in 1 .. 3 : Stream[3 + j] = At!Payload[j]
  BY <1>1, FrontText, HeaderIs
<1>5. /\ Stream[4] = <<"ok", 1>> /\ Stream[5] = <<"ok", 2>> /\ Stream[6] = <<"data", 0>>
  <2>1. /\ Stream[3 + 1] = At!Payload[1] /\ Stream[3 + 2] = At!Payload[2]
        /\ Stream[3 + 3] = At!Payload[3]
    BY <1>4
  <2> QED BY <2>1, PayloadIs
<1>6. (k = 0 /\ n = 3) \/ (k = 1 /\ n = 4) \/ (k = 2 /\ n = 5) \/ (k = 3 /\ n = 6)
  BY <1>1, <1>2
<1>7. /\ Stream[n] # <<"ipd", 1>> /\ Stream[n] # <<"ipd", 2>>
      /\ (Stream[n] = <<"len", 3>>) <=> (k = 0)
  BY <1>4, <1>5, <1>6
<1>8. CutAt(Stream, FALSE, (k = 0), n)
  <2>1. n # 0
    BY <1>6
  <2> QED BY <2>1, <1>7 DEF CutAt
<1>9. ASSUME NEW i \in 1 .. n PROVE ~Live(Stream, FALSE, i)
  <2>1. i = 1 \/ i = 2 \/ i = 3 \/ i = 4 \/ i = 5 \/ i = 6
    BY <1>6
  <2>2. /\ Stream[1] \notin Acks /\ Stream[2] \notin Acks /\ Stream[3] \notin Acks
        /\ Stream[5] \notin Acks /\ Stream[6] \notin Acks
    BY <1>4, <1>5 DEF Acks
  <2>3. ~Live(Stream, FALSE, 4)
    BY <1>4 DEF Live
  <2> QED BY <2>1, <2>2, <2>3 DEF Live
<1>10. PICK q \in BOOLEAN : q = (k = 0)
  BY <1>2
<1>11. InFrame' = q /\ CutAt(Stream, InFrame, q, n)
  BY <1>2, <1>3, <1>8, <1>10
<1>12. \A i \in 1 .. n : ~Live(Stream, InFrame, i)
  BY <1>3, <1>9
<1> QED BY <1>1, <1>7, <1>11, <1>12, AckFrame

LEMMA AckFrameMore ==
    ASSUME AtRuns, AckGood, NEW n, NEW k, FrameMore(n, k)
    PROVE  AckInv'
<1>1. /\ parsing /\ k = frame_sum + n /\ frame_sum \in 0 .. 2 /\ FrameTaken(n, k) /\ RestAfter(n, k)
      /\ AtLine /\ AtParsing /\ n \in 0 .. Len(fifo)
  BY RunsHave DEF FrameMore, FrameTaken
<1>2. InFrame' = (k = 0) /\ (k = 0) \in BOOLEAN /\ k \in 0 .. 3
  BY <1>1, FrameLeft
<1>3. InFrame = (frame_sum = 0)
  BY <1>1, InFrameIs
<1>4. RestOfFrame(Stream, frame_sum)
  BY <1>1 DEF AtParsing
<1>13. n \in 0 .. 3
  <2>1. n \in Nat
    BY <1>1, FrontIs
  <2> QED BY <2>1, <1>1, <1>2
<1>5. ASSUME NEW i \in 1 .. n PROVE frame_sum + i \in 1 .. 3 /\ Stream[i] = At!Payload[frame_sum + i]
  <2>1. i \in 1 .. 3 - frame_sum /\ frame_sum + i \in 1 .. 3
    BY <1>1, <1>2, <1>13
  <2> QED BY <2>1, <1>4 DEF RestOfFrame
<1>6. ASSUME NEW j \in 1 .. 3
      PROVE  /\ At!Payload[j] # <<"ipd", 1>> /\ At!Payload[j] # <<"ipd", 2>>
             /\ At!Payload[j] # <<"len", 3>> /\ (j # 1 => At!Payload[j] \notin Acks)
  <2>1. j = 1 \/ j = 2 \/ j = 3
    OBVIOUS
  <2>2. /\ At!Payload[2] \notin Acks /\ At!Payload[3] \notin Acks
    BY PayloadIs DEF Acks
  <2>3. /\ At!Payload[j] # <<"ipd", 1>> /\ At!Payload[j] # <<"ipd", 2>>
        /\ At!Payload[j] # <<"len", 3>>
    BY <2>1, PayloadIs
  <2> QED BY <2>1, <2>2, <2>3
<1>7. ASSUME n > 0
      PROVE  Stream[n] # <<"ipd", 1>> /\ Stream[n] # <<"ipd", 2>> /\ Stream[n] # <<"len", 3>>
  <2>1. n \in 1 .. n
    BY <1>7, <1>13
  <2> QED BY <2>1, <1>5, <1>6
<1>8. CutAt(Stream, (frame_sum = 0), (k = 0), n)
  <2>1. CASE n = 0
    <3>1. k = frame_sum
      BY <2>1, <1>1
    <3> QED BY <3>1, <2>1 DEF CutAt
  <2>2. CASE n # 0
    <3>1. k # 0 /\ n > 0
      BY <2>2, <1>1, <1>13
    <3> QED BY <3>1, <2>2, <1>7 DEF CutAt
  <2> QED BY <2>1, <2>2
<1>9. ASSUME NEW i \in 1 .. n PROVE ~Live(Stream, InFrame, i)
  <2>1. CASE frame_sum + i = 1
    <3>1. frame_sum = 0 /\ i = 1
      BY <2>1, <1>1, <1>13
    <3>2. InFrame = TRUE
      BY <3>1, <1>3
    <3> QED BY <3>1, <3>2 DEF Live
  <2>2. CASE frame_sum + i # 1
    <3>1. Stream[i] \notin Acks
      BY <2>2, <1>5, <1>6
    <3> QED BY <3>1 DEF Live
  <2> QED BY <2>1, <2>2
<1>10. PICK q \in BOOLEAN : q = (k = 0)
  BY <1>2
<1>11. InFrame' = q /\ CutAt(Stream, InFrame, q, n)
  BY <1>2, <1>3, <1>8, <1>10
<1> QED BY <1>1, <1>7, <1>9, <1>11, AckFrame

LEMMA AckFrames ==
    ASSUME AtRuns, AckGood, At!ReadFrame \/ At!ReadMore
    PROVE  AckInv'
<1>1. CASE At!ReadFrame
  BY <1>1, FrameReadIs, AckFrameRead
<1>2. CASE At!ReadMore
  BY <1>2, FrameMoreIs, AckFrameMore
<1> QED BY <1>1, <1>2

(* What is written, and the answer to it.                                  *)
LEMMA WrittenFine ==
    ASSUME AtList, ListFine(write_list), NEW h, HeadIs(h), NEW b \in BOOLEAN, HeadWritten(h, b)
    PROVE  \E c \in AtCmds : /\ ListFine(write_list') /\ Len(write_list') # 0 /\ write_list'[1] = c
                             /\ c.data = h.data /\ c.del_cnt = h.del_cnt /\ c.whole = b
<1>1. PICK c : c = [h EXCEPT !.whole = b]
  OBVIOUS
<1>2. h \in AtCmds /\ h.del_cnt <= At!DelCnt(h.data)
  BY FineHead
<1>3. c \in AtCmds /\ c.data = h.data /\ c.del_cnt = h.del_cnt /\ c.whole = b
  BY <1>1, <1>2, WrittenHead
<1>4. write_list' = [write_list EXCEPT ![1] = c] /\ write_list \in Seq(AtCmds) /\ write_list # <<>>
  BY <1>1 DEF HeadWritten, AtList, HeadIs
<1>5. c.del_cnt <= At!DelCnt(c.data)
  BY <1>2, <1>3
<1>6. ListFine(write_list') /\ Len(write_list') # 0 /\ write_list'[1] = c
  <2>1. PICK l, m : l = write_list /\ m = [l EXCEPT ![1] = c]
    OBVIOUS
  <2>2. l \in Seq(AtCmds) /\ l # <<>> /\ ListFine(l)
    BY <1>4, <2>1
  <2>3. ListFine(m) /\ Len(m) # 0 /\ m[1] = c
    BY <1>3, <1>5, <2>1, <2>2, ListsHead, ZenonT(60)
  <2>4. write_list' = m
    BY <1>4, <2>1
  <2> QED BY <2>3, <2>4
<1> QED BY <1>3, <1>6

(* An answer joins a stream that has none.                                 *)
LEMMA AnswerJoins ==
    ASSUME AtRuns, AckRun, FrameRests, UNCHANGED fifo, NoneLive(Stream, InFrame),
           NEW x, Speech(x), air' = air \o x
    PROVE  /\ WholeTexts(Stream') /\ InFrame' = InFrame
           /\ NoneLive(x, FALSE) => NoneLive(Stream', InFrame)
           /\ \A k : OnlyLive(x, FALSE, k) => OnlyLive(Stream', InFrame, k)
           /\ OkThenSend(x, FALSE) => OkThenSend(Stream', InFrame)
<1>1. FrameOut /\ AtLine /\ AtParsing
  BY RunsHave
<1>2. x \in Seq(Piece) /\ FramesIn(x) /\ WholeTexts(x)
  BY DEF Speech
<1>3. InFrame' = InFrame /\ AddOf(Stream', Stream, x)
  BY <1>1, <1>2, LineAdds
<1>4. OpenEnd(Stream, InFrame) /\ InFrame \in BOOLEAN
  BY <1>1, StreamOpen DEF AckRun
<1>5. SameLive(x, FALSE, Stream', InFrame, -Len(Stream)) /\ -Len(Stream) \in Int
  BY <1>3, <1>4, AddsToNoneLive
<1>6. WholeTexts(Stream')
  BY <1>2, <1>3, WholeAdd DEF AckRun
<1>7. PICK n \in Int : SameLive(x, FALSE, Stream', InFrame, n)
  BY <1>5
<1> QED BY <1>3, <1>6, <1>7, LiveKept

LEMMA AckSpokenTo ==
    ASSUME AtRuns, AckGood, state = "writeCmd", NEW h, SpokenTo(h)
    PROVE  AckInv'
<1>1. FrameOut /\ AtLine /\ AtParsing /\ AtList
  BY RunsHave
<1>2. PICK b : b = (h.whole \/ ~h.data)
  OBVIOUS
<1>3. /\ HeadIs(h) /\ FrameRests /\ UNCHANGED fifo /\ Kept /\ HeadWritten(h, b) /\ b \in BOOLEAN
      /\ busy_flag' = 1 /\ state' = "writeWait"
      /\ (air' = air \/ \E x : AnswerTo(x, h.data) /\ air' = air \o x)
  BY <1>2 DEF SpokenTo, Spoken, Kept
<1>4. ListFine(write_list) /\ WholeTexts(Stream)
  BY DEF AckGood, AckRun
<1>5. /\ h.del_cnt <= At!DelCnt(h.data) /\ h.del_cnt \in {1, 2} /\ Len(write_list) # 0
      /\ write_list[1] = h /\ At!DelCnt(h.data) \in {1, 2}
  BY <1>1, <1>3, <1>4, FineHead
<1>6. Asked(Stream, InFrame, h, busy_flag, state)
  BY <1>5 DEF AckGood, AckRun, Stage
<1>7. NoneLive(Stream, InFrame) /\ ~Half(h)
  BY <1>6 DEF Asked
<1>8. h.del_cnt = At!DelCnt(h.data)
  BY <1>5, <1>7 DEF Half
<1>9. PICK c \in AtCmds : /\ ListFine(write_list') /\ Len(write_list') # 0 /\ write_list'[1] = c
                          /\ c.data = h.data /\ c.del_cnt = h.del_cnt /\ c.whole = b
  BY <1>1, <1>3, <1>4, WrittenFine
<1>10. ~Half(c)
  BY <1>7, <1>9 DEF Half
<1>11. 1 # 0 /\ ("writeWait" \notin {"write", "writeCmd"}) /\ "writeWait" # "writeData"
  OBVIOUS
<1>12. CASE air' = air
  <2>1. InFrame' = InFrame /\ Stream' = Stream
    BY <1>1, <1>3, <1>12, LineRests
  <2>2. Stage(Stream, InFrame, write_list', busy_flag', state')
    BY <1>3, <1>7, <1>9, <1>10, <1>11, StageQuiet
  <2>3. AckRun'
    BY <2>1, <2>2, <1>4, <1>9 DEF AckRun
  <2> QED BY <2>3, <1>3, AckIs
<1>13. ASSUME NEW x, AnswerTo(x, h.data), air' = air \o x PROVE AckInv'
  <2>1. Speech(x)
    BY <1>13 DEF AnswerTo
  <2>2. /\ WholeTexts(Stream') /\ InFrame' = InFrame
        /\ NoneLive(x, FALSE) => NoneLive(Stream', InFrame)
        /\ \A k : OnlyLive(x, FALSE, k) => OnlyLive(Stream', InFrame, k)
        /\ OkThenSend(x, FALSE) => OkThenSend(Stream', InFrame)
    BY <2>1, <1>3, <1>7, <1>13, AnswerJoins DEF AckGood
  <2>3. Awaited(Stream', InFrame, c, 1)
    <3>1. CASE ~h.data
      <4>1. h.del_cnt = 1
        BY <3>1, <1>8 DEF At!DelCnt
      <4>2. c.del_cnt = 1 /\ c.whole
        BY <4>1, <3>1, <1>2, <1>9
      <4>3. \/ NoneLive(Stream', InFrame) \/ OnlyLive(Stream', InFrame, "ok")
            \/ OnlyLive(Stream', InFrame, "error")
        BY <2>2, <3>1, <1>13, Zenon DEF AnswerTo, OneAnswer
      <4> QED BY <4>2, <4>3, <1>11, Zenon DEF Awaited
    <3>2. CASE h.data /\ is_cmd_ok
      <4>1. h.del_cnt = 2
        BY <3>2, <1>8 DEF At!DelCnt
      <4>2. c.del_cnt = 2 /\ c.data
        BY <4>1, <3>2, <1>9
      <4>3. OkThenSend(Stream', InFrame) \/ OnlyLive(Stream', InFrame, "error")
        BY <2>2, <3>2, <1>13, Zenon DEF AnswerTo
      <4> QED BY <4>2, <4>3, <1>11, Zenon DEF Awaited
    <3>3. CASE h.data /\ ~is_cmd_ok
      <4>1. h.del_cnt = 1
        BY <3>3, <1>8 DEF At!DelCnt
      <4>2. c.del_cnt = 1 /\ c.data
        BY <4>1, <3>3, <1>9
      <4>3. OnlyLive(Stream', InFrame, "send") \/ OnlyLive(Stream', InFrame, "error")
        BY <2>2, <3>3, <1>13, Zenon DEF AnswerTo
      <4> QED BY <4>2, <4>3, <1>11, Zenon DEF Awaited
    <3> QED BY <3>1, <3>2, <3>3
  <2>4. Asked(Stream', InFrame, c, 1, "writeWait")
    BY <2>3, <1>10, <1>11, Zenon DEF Asked
  <2>5. Stage(Stream', InFrame, write_list', busy_flag', state')
    BY <2>4, <1>3, <1>9 DEF Stage
  <2>6. AckRun'
    BY <2>2, <2>5, <1>9 DEF AckRun
  <2> QED BY <2>6, <1>3, AckIs
<1> QED BY <1>3, <1>12, <1>13

LEMMA AckDataSpokenTo ==
    ASSUME AtRuns, AckGood, state = "writeData", NEW h, DataSpokenTo(h)
    PROVE  AckInv'
<1>1. FrameOut /\ AtLine /\ AtParsing /\ AtList
  BY RunsHave
<1>2. TRUE \in BOOLEAN
  OBVIOUS
<1>3. /\ HeadIs(h) /\ FrameRests /\ UNCHANGED fifo /\ Kept /\ HeadWritten(h, TRUE)
      /\ busy_flag' = 2 /\ state' = "read"
      /\ \/ air' = air
         \/ \E x : /\ h.data /\ Speech(x) /\ (OnlyLive(x, FALSE, "ok") \/ OnlyLive(x, FALSE, "error"))
                   /\ air' = air \o x
  BY DEF DataSpokenTo, Spoken, Kept
<1>4. ListFine(write_list) /\ WholeTexts(Stream)
  BY DEF AckGood, AckRun
<1>5. Len(write_list) # 0 /\ write_list[1] = h
  BY <1>1, <1>3, <1>4, FineHead
<1>6. Asked(Stream, InFrame, h, busy_flag, state)
  BY <1>5 DEF AckGood, AckRun, Stage
<1>7. NoneLive(Stream, InFrame) /\ h.data /\ h.del_cnt = 1
  BY <1>6 DEF Asked
<1>9. PICK c \in AtCmds : /\ ListFine(write_list') /\ Len(write_list') # 0 /\ write_list'[1] = c
                          /\ c.data = h.data /\ c.del_cnt = h.del_cnt /\ c.whole = TRUE
  BY <1>1, <1>2, <1>3, <1>4, WrittenFine
<1>10. c.del_cnt = 1 /\ c.whole
  BY <1>7, <1>9
<1>11. 2 # 0 /\ ("read" \notin {"write", "writeCmd"}) /\ "read" # "writeData"
  OBVIOUS
<1>12. CASE air' = air
  <2>1. InFrame' = InFrame /\ Stream' = Stream
    BY <1>1, <1>3, <1>12, LineRests
  <2>2. Asked(Stream, InFrame, c, 2, "read")
    BY <1>7, <1>11, Zenon DEF Asked, Awaited
  <2>3. Stage(Stream, InFrame, write_list', busy_flag', state')
    BY <2>2, <1>3, <1>9 DEF Stage
  <2>4. AckRun'
    BY <2>1, <2>3, <1>4, <1>9 DEF AckRun
  <2> QED BY <2>4, <1>3, AckIs
<1>13. ASSUME NEW x, Speech(x), OnlyLive(x, FALSE, "ok") \/ OnlyLive(x, FALSE, "error"),
              air' = air \o x
       PROVE  AckInv'
  <2>1. /\ WholeTexts(Stream') /\ InFrame' = InFrame
        /\ \A k : OnlyLive(x, FALSE, k) => OnlyLive(Stream', InFrame, k)
    BY <1>3, <1>7, <1>13, AnswerJoins DEF AckGood
  <2>2. OnlyLive(Stream', InFrame, "ok") \/ OnlyLive(Stream', InFrame, "error")
    BY <2>1, <1>13
  <2>3. Awaited(Stream', InFrame, c, 2)
    BY <2>2, <1>10, <1>11, Zenon DEF Awaited
  <2>4. Asked(Stream', InFrame, c, 2, "read")
    BY <2>3, <1>11, Zenon DEF Asked
  <2>5. Stage(Stream', InFrame, write_list', busy_flag', state')
    BY <2>4, <1>3, <1>9 DEF Stage
  <2>6. AckRun'
    BY <2>1, <2>5, <1>9 DEF AckRun
  <2> QED BY <2>6, <1>3, AckIs
<1> QED BY <1>3, <1>12, <1>13

LEMMA AckWrites ==
    ASSUME AtRuns, AckGood, At!WriteCmdOut \/ At!WriteData
    PROVE  AckInv'
<1>1. AtList
  BY RunsHave
<1>2. ASSUME state \in {"writeCmd", "writeData"}, Lost PROVE FALSE
  <2>1. Len(write_list) = 0
    BY <1>2 DEF Lost, At!NoCommand
  <2>2. state \notin Writes
    BY <2>1 DEF AckGood, AckRun, Stage
  <2> QED BY <2>2, <1>2 DEF Writes
<1>3. CASE At!WriteCmdOut
  BY <1>2, <1>3, CmdOutIs, AckSpokenTo
<1>4. CASE At!WriteData
  BY <1>2, <1>4, DataOutIs, AckDataSpokenTo
<1> QED BY <1>3, <1>4

LEMMA AckGiven ==
    ASSUME AtRuns, AckGood, At!HyAtUtilsWriteCmd
    PROVE  AckInv'
<1>1. FrameOut /\ AtLine /\ AtParsing /\ AtList /\ write_list \in Seq(AtCmds)
  BY RunsHave DEF AtList
<1>2. PICK c : CmdGiven(c)
  BY CmdGivenIs
<1>3. InFrame' = InFrame /\ Stream' = Stream
  BY <1>1, <1>2, LineRests DEF CmdGiven, EngineRests
<1>4. ListFine(write_list) /\ WholeTexts(Stream) /\ Stage(Stream, InFrame, write_list, busy_flag, state)
  BY DEF AckGood, AckRun
<1>5. /\ ListFine(write_list') /\ Len(write_list') # 0
      /\ Len(write_list) # 0 => write_list'[1] = write_list[1]
      /\ Len(write_list) = 0 => write_list'[1] = c
      /\ ~Half(c)
  BY <1>1, <1>2, <1>4, ListsGrow DEF CmdGiven
<1>6. Stage(Stream, InFrame, write_list', busy_flag, state)
  <2>1. CASE Len(write_list) = 0
    <3>1. NoneLive(Stream, InFrame) /\ state # "writeData"
      BY <2>1, <1>4 DEF Stage, Writes
    <3> QED BY <3>1, <2>1, <1>5, StageQuiet
  <2>2. CASE Len(write_list) # 0
    BY <2>2, <1>4, <1>5 DEF Stage
  <2> QED BY <2>1, <2>2
<1>7. busy_flag' = busy_flag /\ state' = state /\ Kept
  BY <1>2 DEF CmdGiven, EngineRests, Kept
<1>8. AckRun'
  BY <1>3, <1>4, <1>5, <1>6, <1>7 DEF AckRun
<1> QED BY <1>7, <1>8, AckIs

LEMMA AckArrives ==
    ASSUME AtRuns, AckGood, PieceArrives
    PROVE  AckInv'
<1>1. Stream' = Stream /\ InFrame' = InFrame
  BY BaseArrives
<1>2. UNCHANGED <<write_list, busy_flag, state>> /\ Kept
  BY DEF PieceArrives, EngineRests, Kept
<1>3. AckRun'
  BY <1>1, <1>2 DEF AckGood, AckRun
<1> QED BY <1>2, <1>3, AckIs

LEMMA AckTicks ==
    ASSUME AtRuns, AckGood, At!Tick
    PROVE  AckInv'
<1>1. Quiet /\ UNCHANGED <<write_list, busy_flag>> /\ state' = state /\ Kept
  BY TickIs DEF Quiet, EngineRests, Kept
<1>2. AckRun'
  BY <1>1, AckQuiet DEF AckGood
<1> QED BY <1>1, <1>2, AckIs

LEMMA AckChats ==
    ASSUME AtRuns, AckGood, NEW what \in Chatter, At!ModemChats(what)
    PROVE  AckInv'
<1>1. PICK x : ModemSpeaks(x)
  BY ChatsIs
<1>2. FrameOut /\ AtLine /\ AtParsing
  BY RunsHave
<1>3. /\ x \in Seq(Piece) /\ FramesIn(x) /\ WholeTexts(x) /\ NoneLive(x, FALSE) /\ air' = air \o x
      /\ UNCHANGED <<fifo, write_list, busy_flag, state>> /\ FrameRests /\ Kept
  BY <1>1 DEF ModemSpeaks, Speech, EngineRests, Kept
<1>4. InFrame' = InFrame /\ AddOf(Stream', Stream, x)
  BY <1>2, <1>3, LineAdds
<1>5. OpenEnd(Stream, InFrame) /\ InFrame \in BOOLEAN
  BY <1>2, StreamOpen DEF AckGood, AckRun
<1>6. SameLive(Stream, InFrame, Stream', InFrame, 0)
  BY <1>3, <1>4, <1>5, AddsNoneLive, Zenon
<1>10. PICK n \in Int : n = 0
  OBVIOUS
<1>7. Stage(Stream', InFrame, write_list, busy_flag, state)
  BY <1>6, <1>10, StageKept DEF AckGood, AckRun
<1>8. WholeTexts(Stream') /\ ListFine(write_list)
  BY <1>3, <1>4, WholeAdd DEF AckGood, AckRun
<1>9. AckRun'
  BY <1>3, <1>4, <1>7, <1>8 DEF AckRun
<1> QED BY <1>3, <1>9, AckIs

LEMMA AckEnds ==
    ASSUME AtRuns, AckGood, At!HyAtUtilsClean \/ At!HyAtUtilsDestroy
    PROVE  AckInv'
<1>1. CASE At!HyAtUtilsClean
  BY <1>1 DEF At!HyAtUtilsClean, At!Cleaned, AckInv
<1>2. CASE At!HyAtUtilsDestroy
  BY <1>2 DEF At!HyAtUtilsDestroy, At!history, AckInv, AckGood
<1> QED BY <1>1, <1>2

LEMMA UpsetStays ==
    ASSUME upset, At!AtNext
    PROVE  upset'
<1>1. CASE At!ReadStart \/ At!ReadHead \/ At!ReadPlain \/ At!ReadSignal \/ At!ReadNothing
  BY <1>1 DEF At!ReadStart, At!ReadHead, At!ReadPlain, At!ReadSignal, At!ReadNothing, At!history
<1>2. CASE At!ReadOk \/ At!ReadError
  BY <1>2 DEF At!ReadOk, At!ReadError, At!Undefined, At!history
<1>3. CASE At!ReadFrame \/ At!ReadMore \/ At!HyAtUtilsClean \/ At!ReadLone \/ At!ReadFrameCut
  BY <1>3 DEF At!ReadFrame, At!ReadMore, At!HyAtUtilsClean, At!Cleaned, At!ReadLone, At!ReadFrameCut
<1>4. CASE At!IdleRead \/ At!IdleWrite \/ At!IdleTimeOut
  BY <1>4 DEF At!IdleRead, At!IdleWrite, At!IdleTimeOut, At!history
<1>5. CASE At!WriteCmd \/ At!WriteCmdOut \/ At!WriteCmdWait \/ At!WriteData
  BY <1>5 DEF At!WriteCmd, At!WriteCmdOut, At!WriteCmdWait, At!WriteData, At!Undefined, At!history
<1>6. CASE \/ At!HyAtUtilsWriteCmd \/ At!HyAtUtilsDestroy \/ At!HyAtUtilsPutData \/ At!Tick
           \/ \E what \in Chatter : At!ModemChats(what)
  BY <1>6 DEF At!HyAtUtilsWriteCmd, At!HyAtUtilsDestroy, At!HyAtUtilsPutData, At!Tick, At!ModemChats,
              At!history
<1> QED BY <1>1, <1>2, <1>3, <1>4, <1>5, <1>6 DEF At!AtNext

LEMMA AckStep ==
    ASSUME AtRuns, AckInv, At!AtNext
    PROVE  AckInv'
<1>1. CASE upset
  BY <1>1, UpsetStays, AckUpset
<1>2. CASE ~upset
  <2>1. AckGood
    BY <1>2 DEF AckInv, AckGood, AtRuns
  <2>2. CASE At!ReadStart
    BY <2>1, <2>2, AckStart
  <2>3. CASE At!ReadHead
    BY <2>1, <2>3, AckHead
  <2>4. CASE At!ReadOk
    BY <2>1, <2>4, AckOk
  <2>5. CASE At!ReadError
    BY <2>1, <2>5, AckError
  <2>6. CASE At!ReadPlain
    BY <2>1, <2>6, AckPlain
  <2>7. CASE At!ReadSignal
    BY <2>1, <2>7, AckSignal
  <2>8. CASE At!ReadFrame \/ At!ReadMore
    BY <2>1, <2>8, AckFrames
  <2>9. CASE At!ReadNothing \/ At!IdleRead \/ At!WriteCmd \/ At!WriteCmdWait
    BY <2>1, <2>9, AckWaits
  <2>10. CASE At!IdleWrite
    BY <2>1, <2>10, AckIdleWrites
  <2>11. CASE At!IdleTimeOut
    BY <2>1, <2>11, AckTimesOut
  <2>12. CASE At!WriteCmdOut \/ At!WriteData
    BY <2>1, <2>12, AckWrites
  <2>13. CASE At!HyAtUtilsWriteCmd
    BY <2>1, <2>13, AckGiven
  <2>14. CASE At!HyAtUtilsClean \/ At!HyAtUtilsDestroy
    BY <2>1, <2>14, AckEnds
  <2>15. CASE At!HyAtUtilsPutData
    BY <2>1, <2>15, PutDataIs, AckArrives
  <2>16. ASSUME NEW what \in Chatter, At!ModemChats(what) PROVE AckInv'
    BY <2>1, <2>16, AckChats
  <2>17. CASE At!Tick
    BY <2>1, <2>17, AckTicks
  <2>18. CASE At!ReadLone \/ At!ReadFrameCut
    BY <2>18, AckUpset DEF At!ReadLone, At!ReadFrameCut, At!Cleaned
  <2> QED BY <2>2, <2>3, <2>4, <2>5, <2>6, <2>7, <2>8, <2>9, <2>10, <2>11, <2>12, <2>13, <2>14,
             <2>15, <2>16, <2>17, <2>18 DEF At!AtNext
<1> QED BY <1>1, <1>2

LEMMA AckStarts ==
    ASSUME At!AtInit
    PROVE  AckInv
<1>1. /\ fifo = <<>> /\ air = <<>> /\ state = "idle" /\ parsing = FALSE /\ write_list = <<>>
      /\ early = FALSE /\ atEnd = "run"
  BY DEF At!AtInit
<1>2. Stream = <<>> /\ Len(Stream) = 0 /\ Len(write_list) = 0
  BY <1>1 DEF Stream
<1>3. WholeTexts(Stream) /\ ListFine(write_list)
  BY <1>2 DEF WholeTexts, ListFine
<1>4. Stage(Stream, InFrame, write_list, busy_flag, state)
  BY <1>1, <1>2 DEF Stage, NoneLive, Writes
<1> QED BY <1>1, <1>3, <1>4 DEF AckInv, AckRun

(* Unless a resend overtook its answer or started over a command half      *)
(* acknowledged, the fifo was emptied of more than an error, a command was *)
(* given up or a string was lost of which only a part had come, an answer  *)
(* takes a command off the list only when all of it was written, and the   *)
(* head of an empty list is never looked at.                               *)
THEOREM AckedWhenWritten == Spec => []AckedOnceWritten
<1>1. Init => AtBase /\ AckInv
  BY BaseStarts, AckStarts DEF Init
<1>2. AtBase /\ AckInv /\ [Next]_containersVars => (AtBase /\ AckInv)'
  <2> SUFFICES ASSUME AtBase, AckInv, [Next]_containersVars PROVE AtBase' /\ AckInv'
    OBVIOUS
  <2>1. CASE At!AtNext
    BY <2>1, BaseStep, AtRunning, AckStep
  <2>2. CASE UNCHANGED U
    <3>1. UNCHANGED <<fifo, air, state, busy_flag, parsing, frame_sum, write_list,
                      early, upset, atEnd>>
      BY <2>2 DEF U
    <3>2. Stream' = Stream /\ InFrame' = InFrame
      BY <3>1 DEF Stream, InFrame
    <3>3. AckInv'
      BY <3>1, <3>2 DEF AckInv, AckRun
    <3> QED BY <3>3, <2>2, BaseRests
  <2> QED BY <2>1, <2>2 DEF Next, containersVars
<1>3. AckInv => AckedOnceWritten
  BY DEF AckInv, AckedOnceWritten, At!AckedOnceWritten
<1> QED BY <1>1, <1>2, <1>3, PTL DEF Spec, containersVars

-----------------------------------------------------------------------------
(* HyJson.  What a node n has under the step f of a path, or 0.            *)
KidOf    == [key : Fields \cup {NoValue}, item : Json!Addrs]
NodeOf   == [type : {"object", "array", "real", "str"}, int : Nat, real : Nat,
             str : Strings \cup {NoValue}, kids : Seq(KidOf)]
SaidOf   == [node : NodeOf, cut : BOOLEAN]
Named(n, f) == {i \in 1 .. Len(n.kids) : n.kids[i].key = f}
Leads(n, f) ==
    IF n.type = "array"
    THEN IF f \in 0 .. Len(n.kids) - 1 THEN n.kids[f + 1].item ELSE 0
    ELSE IF Named(n, f) # {} THEN n.kids[Json!Min(Named(n, f))].item ELSE 0

LEMMA NoValueIsNone ==
    /\ NoValue \notin NodeOf /\ NoValue \notin SaidOf
    /\ Ints \subseteq Nat /\ Reals \subseteq Nat /\ IntMax \in Nat /\ MaxItems \in Nat
BY JsonAssumption DEF NodeOf, SaidOf, KidOf, Json!Addrs

LEMMA FirstNamed ==
    ASSUME NEW n, NEW f, Named(n, f) # {}
    PROVE  /\ Json!Min(Named(n, f)) \in Named(n, f)
           /\ \A i \in Named(n, f) : Json!Min(Named(n, f)) <= i
<1>1. Named(n, f) \subseteq Nat
  BY DEF Named
<1>2. \E i \in Named(n, f) : \A j \in Named(n, f) : i <= j
  BY <1>1, NatMin
<1> HIDE DEF Named
<1> QED BY <1>2 DEF Json!Min

LEMMA ChildLeads ==
    ASSUME NEW x \in Json!Addrs, NEW f
    PROVE  Json!Child(x, f) = Leads(items[x], f)
<1>1. x # Json!NULL
  BY DEF Json!Addrs, Json!NULL
<1>2. CASE items[x].type = "array"
  BY <1>1, <1>2 DEF Json!Child, Leads, Json!NULL
<1>3. CASE items[x].type # "array"
  <2>1. Json!SelectInSeq(items[x].kids, LAMBDA kid : kid.key = f)
        = IF Named(items[x], f) # {} THEN Json!Min(Named(items[x], f)) ELSE 0
    BY DEF Json!SelectInSeq, Named
  <2>2. Named(items[x], f) # {} => Json!Min(Named(items[x], f)) # 0
    <3>1. 0 \notin Named(items[x], f)
      BY DEF Named
    <3> QED BY <3>1, FirstNamed
  <2> QED BY <1>1, <1>3, <2>1, <2>2 DEF Json!Child, Leads, Json!NULL
<1> QED BY <1>2, <1>3

(* A step leads to a kid or nowhere.                                       *)
LEMMA LeadsToAKid ==
    ASSUME NEW n \in NodeOf, NEW f, Leads(n, f) # 0
    PROVE  \E i \in 1 .. Len(n.kids) : Leads(n, f) = n.kids[i].item
<1>1. CASE n.type = "array"
  <2>1. f \in 0 .. Len(n.kids) - 1
    BY <1>1 DEF Leads
  <2>2. Len(n.kids) \in Nat
    BY DEF NodeOf
  <2>3. f + 1 \in 1 .. Len(n.kids)
    BY <2>1, <2>2
  <2> QED BY <1>1, <2>1, <2>3 DEF Leads
<1>2. CASE n.type # "array"
  <2>1. Named(n, f) # {} /\ Leads(n, f) = n.kids[Json!Min(Named(n, f))].item
    BY <1>2 DEF Leads
  <2>2. Json!Min(Named(n, f)) \in 1 .. Len(n.kids)
    BY <2>1, FirstNamed DEF Named
  <2> QED BY <2>1, <2>2
<1> QED BY <1>1, <1>2

(* A kid more changes no step that leads somewhere.                        *)
LEMMA OneKidMore ==
    ASSUME NEW n \in NodeOf, NEW m, NEW kid \in KidOf, NEW f,
           m.type = n.type, m.kids = Append(n.kids, kid)
    PROVE  /\ Leads(n, f) # 0 => Leads(m, f) = Leads(n, f)
           /\ n.type = "object" /\ kid.key # f => Leads(m, f) = Leads(n, f)
           /\ n.type = "object" /\ kid.key = f /\ Leads(n, f) = 0 => Leads(m, f) = kid.item
<1> DEFINE l == Len(n.kids)
<1>1. /\ n.kids \in Seq(KidOf) /\ l \in Nat /\ Len(m.kids) = l + 1
      /\ m.kids[l + 1] = kid /\ \A i \in 1 .. l : m.kids[i] = n.kids[i]
  <2>1. n.kids \in Seq(KidOf)
    BY DEF NodeOf
  <2> HIDE DEF KidOf
  <2> QED BY <2>1
<1>2. \A i \in 1 .. l : n.kids[i].item # 0
  <2>1. \A i \in 1 .. l : n.kids[i] \in KidOf
    BY <1>1
  <2> QED BY <2>1 DEF KidOf, Json!Addrs
<1>3. CASE n.type = "array"
  BY <1>1, <1>3 DEF Leads
<1>4. CASE n.type # "array"
  <2>1. Named(m, f) = IF kid.key = f THEN Named(n, f) \cup {l + 1} ELSE Named(n, f)
    BY <1>1 DEF Named
  <2>2. CASE Named(n, f) = {}
    <3>1. Leads(n, f) = 0
      BY <1>4, <2>2 DEF Leads
    <3>2. CASE kid.key = f
      <4>1. Named(m, f) = {l + 1}
        BY <2>1, <2>2, <3>2
      <4>2. Json!Min(Named(m, f)) = l + 1
        BY <4>1, FirstNamed
      <4>3. Leads(m, f) = kid.item
        BY <1>1, <1>4, <4>1, <4>2 DEF Leads
      <4> QED BY <3>1, <3>2, <4>3
    <3>3. CASE kid.key # f
      BY <1>4, <2>1, <2>2, <3>1, <3>3 DEF Leads
    <3> QED BY <3>2, <3>3
  <2>3. CASE Named(n, f) # {}
    <3>1. PICK i : i = Json!Min(Named(n, f))
      OBVIOUS
    <3>2. i \in Named(n, f) /\ \A j \in Named(n, f) : i <= j
      BY <2>3, <3>1, FirstNamed
    <3>3. i \in 1 .. l
      BY <3>2 DEF Named
    <3>4. PICK k : k = Json!Min(Named(m, f))
      OBVIOUS
    <3>5. Named(m, f) # {}
      BY <2>1, <2>3
    <3>6. k \in Named(m, f) /\ \A j \in Named(m, f) : k <= j
      BY <3>4, <3>5, FirstNamed
    <3>7. i \in Named(m, f) /\ k \in Named(n, f) \cup {l + 1}
      BY <2>1, <3>2, <3>6
    <3>8. k <= i /\ k \in 1 .. l + 1
      BY <1>1, <3>6, <3>7 DEF Named
    <3>9. k \in Named(n, f)
      BY <1>1, <3>3, <3>7, <3>8
    <3>10. k = i
      BY <1>1, <3>2, <3>3, <3>8, <3>9
    <3>11. Leads(n, f) = n.kids[i].item /\ Leads(m, f) = m.kids[i].item
      BY <1>4, <2>3, <3>1, <3>4, <3>5, <3>10 DEF Leads
    <3>12. Leads(m, f) = Leads(n, f) /\ Leads(n, f) # 0
      BY <1>1, <1>2, <3>3, <3>11
    <3> QED BY <3>12
  <2> QED BY <2>2, <2>3
<1> QED BY <1>3, <1>4

(* Paths have at most two steps; the fold takes them one after the other.  *)
LEMMA NoStep ==
    ASSUME NEW x
    PROVE  Json!FoldLeft(Json!Child, x, <<>>) = x
<1> DEFINE F(it) == [s \in SUBSET {} |-> IF s = {} THEN x
                     ELSE LET y == Json!Max(s) IN Json!Child(it[s \ {y}], <<>>[y])]
<1>1. DOMAIN <<>> = {}
  OBVIOUS
<1>2. Json!MapThenFoldSet(LAMBDA a, b : Json!Child(b, a), x, LAMBDA i : <<>>[i],
                          LAMBDA T : Json!Max(T), DOMAIN <<>>) = (CHOOSE it : it = F(it))[{}]
  BY <1>1 DEF Json!MapThenFoldSet
<1>3. Json!FoldLeft(Json!Child, x, <<>>) = (CHOOSE it : it = F(it))[{}]
  BY <1>2, Zenon DEF Json!FoldLeft
<1>4. \E it : it = F(it)
  <2> DEFINE it == [s \in SUBSET {} |-> x]
  <2>1. it = F(it)
    OBVIOUS
  <2> QED BY <2>1
<1>5. PICK it : it = F(it) /\ Json!FoldLeft(Json!Child, x, <<>>) = it[{}]
  <2> HIDE DEF F
  <2> QED BY <1>3, <1>4
<1> QED BY <1>5

LEMMA OneStep ==
    ASSUME NEW x, NEW f
    PROVE  Json!FoldLeft(Json!Child, x, <<f>>) = Json!Child(x, f)
<1> DEFINE F(it) == [s \in SUBSET {1} |-> IF s = {} THEN x
                     ELSE LET y == Json!Max(s) IN Json!Child(it[s \ {y}], <<f>>[y])]
<1>1. DOMAIN <<f>> = {1}
  OBVIOUS
<1>2. Json!MapThenFoldSet(LAMBDA a, b : Json!Child(b, a), x, LAMBDA i : <<f>>[i],
                          LAMBDA T : Json!Max(T), DOMAIN <<f>>) = (CHOOSE it : it = F(it))[{1}]
  BY <1>1 DEF Json!MapThenFoldSet
<1>3. Json!FoldLeft(Json!Child, x, <<f>>) = (CHOOSE it : it = F(it))[{1}]
  BY <1>2, Zenon DEF Json!FoldLeft
<1>4. Json!Max({1}) = 1 /\ {1} \ {1} = {}
  BY DEF Json!Max
<1>5. \E it : it = F(it)
  <2> DEFINE it == [s \in SUBSET {1} |-> IF s = {} THEN x ELSE Json!Child(x, f)]
  <2>1. ASSUME NEW s \in SUBSET {1}, s # {}
        PROVE  Json!Child(it[s \ {Json!Max(s)}], <<f>>[Json!Max(s)]) = Json!Child(x, f)
    <3>1. s = {1}
      BY <2>1
    <3>2. Json!Max(s) = 1 /\ s \ {1} = {}
      BY <3>1, <1>4
    <3>3. <<f>>[Json!Max(s)] = f
      BY <3>2
    <3>4. it[s \ {Json!Max(s)}] = x
      BY <3>2
    <3> QED BY <3>3, <3>4
  <2>2. it = F(it)
    BY <2>1
  <2> QED BY <2>2
<1>6. PICK it : it = F(it) /\ Json!FoldLeft(Json!Child, x, <<f>>) = it[{1}]
  <2> HIDE DEF F
  <2> QED BY <1>3, <1>5
<1>7. it[{}] = x
  BY <1>6
<1>8. it[{1}] = Json!Child(it[{1} \ {Json!Max({1})}], <<f>>[Json!Max({1})])
  BY <1>6
<1>9. it[{1}] = Json!Child(it[{}], f)
  BY <1>4, <1>8
<1> QED BY <1>6, <1>7, <1>9

LEMMA TwoSteps ==
    ASSUME NEW x, NEW path, path = <<path[1], path[2]>>
    PROVE  Json!FoldLeft(Json!Child, x, path) = Json!Child(Json!Child(x, path[1]), path[2])
<1> PICK f, g : f = path[1] /\ g = path[2]
  OBVIOUS
<1> DEFINE F(it) == [s \in SUBSET {1, 2} |-> IF s = {} THEN x
                     ELSE LET y == Json!Max(s) IN Json!Child(it[s \ {y}], path[y])]
<1>1. DOMAIN path = {1, 2}
  OBVIOUS
<1>2. Json!MapThenFoldSet(LAMBDA a, b : Json!Child(b, a), x, LAMBDA i : path[i],
                          LAMBDA T : Json!Max(T), DOMAIN path)
      = (CHOOSE it : it = F(it))[{1, 2}]
  BY <1>1 DEF Json!MapThenFoldSet
<1>3. Json!FoldLeft(Json!Child, x, path) = (CHOOSE it : it = F(it))[{1, 2}]
  BY <1>2, Zenon DEF Json!FoldLeft
<1>4. /\ Json!Max({1}) = 1 /\ {1} \ {1} = {}
      /\ Json!Max({2}) = 2 /\ {2} \ {2} = {}
  BY DEF Json!Max
<1>5. Json!Max({1, 2}) = 2 /\ {1, 2} \ {2} = {1}
  <2>1. \E m \in {1, 2} : \A k \in {1, 2} : m >= k
    OBVIOUS
  <2> QED BY <2>1 DEF Json!Max
<1>6. \E it : it = F(it)
  <2> DEFINE it == [s \in SUBSET {1, 2} |->
                      IF s = {} THEN x
                      ELSE IF 2 \notin s THEN Json!Child(x, f)
                      ELSE IF 1 \notin s THEN Json!Child(x, g)
                      ELSE Json!Child(Json!Child(x, f), g)]
  <2>1. ASSUME NEW s \in SUBSET {1, 2}, s # {}
        PROVE  Json!Child(it[s \ {Json!Max(s)}], path[Json!Max(s)]) = it[s]
    <3>1. s = {1} \/ s = {2} \/ s = {1, 2}
      BY <2>1
    <3>2. it[{}] = x /\ it[{1}] = Json!Child(x, f) /\ it[{2}] = Json!Child(x, g)
          /\ it[{1, 2}] = Json!Child(Json!Child(x, f), g)
      OBVIOUS
    <3>3. path[1] = f /\ path[2] = g
      OBVIOUS
    <3> HIDE DEF it
    <3>4. CASE s = {1}
      BY <3>2, <3>3, <3>4, <1>4
    <3>5. CASE s = {2}
      BY <3>2, <3>3, <3>5, <1>4
    <3>6. CASE s = {1, 2}
      BY <3>2, <3>3, <3>6, <1>5
    <3> QED BY <3>1, <3>4, <3>5, <3>6
  <2>2. it = [s \in SUBSET {1, 2} |-> IF s = {} THEN x ELSE it[s]]
    OBVIOUS
  <2>3. it = F(it)
    BY <2>1, <2>2
  <2> QED BY <2>3
<1>7. PICK it : it = F(it) /\ Json!FoldLeft(Json!Child, x, path) = it[{1, 2}]
  <2> HIDE DEF F
  <2> QED BY <1>3, <1>6
<1>8. it[{}] = x
  BY <1>7
<1>9. it[{1}] = Json!Child(it[{1} \ {Json!Max({1})}], path[Json!Max({1})])
  BY <1>7
<1>10. it[{1, 2}] = Json!Child(it[{1, 2} \ {Json!Max({1, 2})}], path[Json!Max({1, 2})])
  BY <1>7
<1>11. it[{1}] = Json!Child(x, f)
  BY <1>4, <1>8, <1>9
<1>12. it[{1, 2}] = Json!Child(it[{1}], g)
  BY <1>5, <1>10
<1> QED BY <1>7, <1>11, <1>12

-----------------------------------------------------------------------------
(* The trees: what is linked is there, and from one place only.            *)
KidsOf(n) == {n.kids[i].item : i \in DOMAIN n.kids}

JsonTypeOK ==
    /\ items \in [Json!Addrs -> NodeOf \cup {NoValue}]
    /\ said \in [Json!Addrs -> [Fields -> SaidOf \cup {NoValue}]]

TreesWhole ==
    /\ \A x \in Json!Live : KidsOf(items[x]) \subseteq Json!Live
    /\ \A x, y \in Json!Live : KidsOf(items[x]) \cap KidsOf(items[y]) # {} => x = y

(* A node is as it was said to be when it was written.                     *)
IsAsSaid(n, s) ==
    /\ n.type = s.node.type
    /\ n.type = "real" => n.real = s.node.real /\ (~s.cut => n.int = Json!Saturated(n.real))
    /\ n.type = "str" => n.str = s.node.str

FieldsAsSaid ==
    /\ \A x \in Json!Addrs : items[x] = NoValue => \A f \in Fields : said[x][f] = NoValue
    /\ \A x \in Json!Live : \A f \in Fields :
          /\ said[x][f] # NoValue =>
                Leads(items[x], f) # 0 /\ IsAsSaid(items[Leads(items[x], f)], said[x][f])
          /\ said[x][f] = NoValue /\ items[x].type = "object" => Leads(items[x], f) = 0

JsonInv == JsonTypeOK /\ TreesWhole /\ FieldsAsSaid

LEMMA LiveNodes ==
    ASSUME JsonTypeOK
    PROVE  /\ Json!Live = {x \in Json!Addrs : items[x] # NoValue}
           /\ \A x \in Json!Live : x \in Json!Addrs /\ items[x] \in NodeOf
           /\ \A x \in Json!Live : Json!Kids(x) = KidsOf(items[x])
           /\ 0 \notin Json!Addrs
BY DEF JsonTypeOK, Json!Live, Json!Kids, KidsOf, Json!Addrs

LEMMA KidsOfNode ==
    ASSUME NEW n \in NodeOf
    PROVE  /\ n.kids \in Seq(KidOf) /\ KidsOf(n) = {n.kids[i].item : i \in 1 .. Len(n.kids)}
           /\ \A f : Leads(n, f) # 0 => Leads(n, f) \in KidsOf(n)
<1>1. n.kids \in Seq(KidOf)
  BY DEF NodeOf
<1>2. KidsOf(n) = {n.kids[i].item : i \in 1 .. Len(n.kids)}
  <2> HIDE DEF KidOf
  <2>1. DOMAIN n.kids = 1 .. Len(n.kids)
    BY <1>1
  <2> QED BY <2>1 DEF KidsOf
<1> QED BY <1>1, <1>2, LeadsToAKid

(* Where a step leads from a live node is a live node, of its own only.    *)
LEMMA LeadsToLive ==
    ASSUME JsonInv, NEW x \in Json!Live, NEW f, Leads(items[x], f) # 0
    PROVE  /\ Leads(items[x], f) \in Json!Live
           /\ Leads(items[x], f) \in KidsOf(items[x])
           /\ items[Leads(items[x], f)] \in NodeOf
<1>1. items[x] \in NodeOf
  BY LiveNodes DEF JsonInv
<1>2. Leads(items[x], f) \in KidsOf(items[x])
  BY <1>1, KidsOfNode
<1>3. Leads(items[x], f) \in Json!Live
  BY <1>2 DEF JsonInv, TreesWhole
<1> QED BY <1>2, <1>3, LiveNodes DEF JsonInv

LEMMA SpareIsFree ==
    ASSUME Json!Live # Json!Addrs
    PROVE  Json!Spare \in Json!Addrs /\ Json!Spare \notin Json!Live
<1> DEFINE T == Json!Addrs \ Json!Live
<1>1. T \subseteq Nat /\ T # {}
  BY NoValueIsNone DEF Json!Addrs, Json!Live
<1>2. \E x \in T : \A y \in T : x <= y
  <2> HIDE DEF T
  <2> QED BY <1>1, NatMin
<1>3. Json!Spare \in T
  BY <1>2 DEF Json!Spare
<1> QED BY <1>3

(* What is below a root, with a node in it whatever leads there.           *)
LEMMA BelowIsATree ==
    ASSUME JsonInv, NEW root \in Json!Roots
    PROVE  /\ root \in Json!Below(root) /\ Json!Below(root) \subseteq Json!Live
           /\ \A x \in Json!Below(root) : KidsOf(items[x]) \subseteq Json!Below(root)
           /\ \A x \in Json!Live : KidsOf(items[x]) \cap Json!Below(root) # {}
                 => x \in Json!Below(root)
<1> DEFINE B == Json!Below(root)
<1>1. \A x \in Json!Live : Json!Kids(x) = KidsOf(items[x]) /\ KidsOf(items[x]) \subseteq Json!Live
  BY LiveNodes DEF JsonInv, TreesWhole
<1>2. root \in Json!Live /\ \A x \in Json!Live : root \notin KidsOf(items[x])
  BY <1>1 DEF Json!Roots
<1>3. B \subseteq Json!Live /\ root \in B
  BY <1>2 DEF Json!Below
<1>4. ASSUME NEW x \in B, NEW k \in KidsOf(items[x]) PROVE k \in B
  <2>1. x \in Json!Live /\ k \in Json!Live /\ k \in Json!Kids(x)
    BY <1>1, <1>3
  <2>2. ASSUME NEW C \in SUBSET Json!Live, root \in C, Json!Closed(C) PROVE k \in C
    <3>1. x \in C
      BY <2>2 DEF Json!Below
    <3> QED BY <2>1, <2>2, <3>1 DEF Json!Closed
  <2> QED BY <2>1, <2>2 DEF Json!Below
<1>5. ASSUME NEW x \in Json!Live, NEW k \in KidsOf(items[x]), k \in B, x \notin B PROVE FALSE
  <2> DEFINE C == B \ {k}
  <2>1. C \in SUBSET Json!Live /\ root \in C
    BY <1>2, <1>3
  <2>2. ASSUME NEW y \in C PROVE Json!Kids(y) \subseteq C
    <3>1. y \in Json!Live /\ y # x /\ Json!Kids(y) = KidsOf(items[y])
      BY <1>1, <1>3, <1>5
    <3>2. k \notin KidsOf(items[y])
      BY <3>1, <1>5 DEF JsonInv, TreesWhole
    <3>3. KidsOf(items[y]) \subseteq B
      BY <1>4
    <3> QED BY <3>1, <3>2, <3>3
  <2>3. k \in C
    <3>1. Json!Closed(C)
      BY <2>2 DEF Json!Closed
    <3> HIDE DEF C
    <3> QED BY <2>1, <3>1, <1>5 DEF Json!Below
  <2> QED BY <2>3
<1> QED BY <1>3, <1>4, <1>5

-----------------------------------------------------------------------------
(* What the constructors give.                                             *)
LEMMA SaturatedIsNat ==
    ASSUME NEW h \in Nat
    PROVE  Json!Saturated(h) \in Nat
<1>1. h \div 2 \in Nat
  OBVIOUS
<1> QED BY <1>1, NoValueIsNone DEF Json!Saturated

LEMMA NewNumber ==
    ASSUME NEW h \in Nat
    PROVE  /\ Json!Number(h) \in NodeOf /\ Json!Number(h).kids = <<>>
           /\ Json!Number(h).type = "real" /\ Json!Number(h).real = h
           /\ Json!Number(h).int = Json!Saturated(h)
<1>1. Json!Number(h) = [type |-> "real", int |-> Json!Saturated(h), real |-> h,
                        str |-> NoValue, kids |-> <<>>]
  <2> DEFINE r == [type |-> "real", int |-> 0, real |-> 0, str |-> NoValue, kids |-> <<>>]
  <2>1. Json!Number(h) = [r EXCEPT !.int = Json!Saturated(h), !.real = h]
    BY DEF Json!Number, Json!Node
  <2> QED BY <2>1, Zenon
<1>2. <<>> \in Seq(KidOf)
  OBVIOUS
<1>3. Json!Number(h) \in NodeOf
  <2> HIDE DEF KidOf
  <2> QED BY <1>1, <1>2, SaturatedIsNat DEF NodeOf
<1> QED BY <1>1, <1>3

LEMMA NewText ==
    ASSUME NEW s \in Strings
    PROVE  /\ Json!Text(s) \in NodeOf /\ Json!Text(s).kids = <<>>
           /\ Json!Text(s).type = "str" /\ Json!Text(s).str = s
<1>1. Json!Text(s) = [type |-> "str", int |-> 0, real |-> 0, str |-> s, kids |-> <<>>]
  BY DEF Json!Text, Json!Node
<1>2. <<>> \in Seq(KidOf)
  OBVIOUS
<1>3. Json!Text(s) \in NodeOf
  <2> HIDE DEF KidOf
  <2> QED BY <1>1, <1>2 DEF NodeOf
<1> QED BY <1>1, <1>3

LEMMA NewNodes ==
    ASSUME NEW n \in Json!Written \cup {Json!Node("object"), Json!Node("array")}
    PROVE  n \in NodeOf /\ KidsOf(n) = {} /\ \A f : Leads(n, f) = 0
<1>1. n \in NodeOf /\ n.kids = <<>>
  <2>1. CASE n \in Json!Written
    <3>1. \/ \E k \in Ints : n = Json!Number(2 * k)
          \/ \E h \in Reals : n = Json!Number(h)
          \/ \E s \in Strings : n = Json!Text(s)
      BY <2>1 DEF Json!Written
    <3>2. \A k \in Ints : 2 * k \in Nat
      BY NoValueIsNone
    <3>3. \A h \in Reals : h \in Nat
      BY NoValueIsNone
    <3> QED BY <3>1, <3>2, <3>3, NewNumber, NewText
  <2>2. ASSUME NEW t \in {"object", "array"}, n = Json!Node(t) PROVE n \in NodeOf /\ n.kids = <<>>
    <3>1. n = [type |-> t, int |-> 0, real |-> 0, str |-> NoValue, kids |-> <<>>]
      BY <2>2 DEF Json!Node
    <3>2. <<>> \in Seq(KidOf)
      OBVIOUS
    <3> HIDE DEF KidOf
    <3> QED BY <3>1, <3>2 DEF NodeOf
  <2> QED BY <2>1, <2>2
<1>2. KidsOf(n) = {}
  BY <1>1 DEF KidsOf
<1>3. ASSUME NEW f PROVE Leads(n, f) = 0
  BY <1>1, <1>2, KidsOfNode
<1> QED BY <1>1, <1>2, <1>3

LEMMA InvNew ==
    ASSUME JsonInv, NEW n \in Json!Written \cup {Json!Node("object"), Json!Node("array")},
           Json!JsonNew(n)
    PROVE  JsonInv'
<1> PICK x : x = Json!Spare
  OBVIOUS
<1>1. /\ x \in Json!Addrs /\ x \notin Json!Live /\ items[x] = NoValue
      /\ items' = [items EXCEPT ![x] = n] /\ said' = said
  BY SpareIsFree, LiveNodes DEF Json!JsonNew, JsonInv
<1>2. n \in NodeOf /\ n # NoValue /\ KidsOf(n) = {} /\ \A f : Leads(n, f) = 0
  BY NewNodes, NoValueIsNone
<1>3. items \in [Json!Addrs -> NodeOf \cup {NoValue}]
  BY DEF JsonInv, JsonTypeOK
<1>4. items'[x] = n /\ \A y \in Json!Live : y # x /\ items'[y] = items[y]
  BY <1>1, <1>3, LiveNodes DEF JsonInv
<1>5. Json!Live' = Json!Live \cup {x}
  BY <1>1, <1>2, <1>3 DEF Json!Live
<1>6. JsonTypeOK'
  BY <1>1, <1>2 DEF JsonInv, JsonTypeOK
<1>7. TreesWhole'
  BY <1>2, <1>4, <1>5 DEF JsonInv, TreesWhole
<1>8. FieldsAsSaid'
  <2>1. ASSUME NEW y \in Json!Addrs, items'[y] = NoValue, NEW f \in Fields
        PROVE  said'[y][f] = NoValue
    <3>1. items[y] = NoValue
      BY <1>1, <1>2, <1>3, <2>1
    <3> QED BY <1>1, <3>1 DEF JsonInv, FieldsAsSaid
  <2>2. ASSUME NEW y \in Json!Live', NEW f \in Fields
        PROVE  /\ said'[y][f] # NoValue =>
                     /\ Leads(items'[y], f) # 0
                     /\ IsAsSaid(items'[Leads(items'[y], f)], said'[y][f])
               /\ said'[y][f] = NoValue /\ items'[y].type = "object" => Leads(items'[y], f) = 0
    <3>1. CASE y = x
      <4>1. said'[y][f] = NoValue
        BY <1>1, <3>1 DEF JsonInv, FieldsAsSaid
      <4> QED BY <1>2, <1>4, <3>1, <4>1
    <3>2. CASE y \in Json!Live
      <4>1. items'[y] = items[y] /\ said'[y][f] = said[y][f]
        BY <1>1, <1>4, <3>2
      <4>2. Leads(items[y], f) # 0 => items'[Leads(items[y], f)] = items[Leads(items[y], f)]
        BY <1>4, <3>2, LeadsToLive
      <4> QED BY <3>2, <4>1, <4>2 DEF JsonInv, FieldsAsSaid
    <3> QED BY <1>5, <3>1, <3>2
  <2> QED BY <2>1, <2>2 DEF FieldsAsSaid
<1> QED BY <1>6, <1>7, <1>8 DEF JsonInv

(* A node x that nothing leads to, old or new, becomes the last kid of o,  *)
(* which is m then.                                                        *)
Links(o, x, n, kid, m) ==
    /\ x # o /\ \A y \in Json!Live : x \notin KidsOf(items[y])
    /\ x \in Json!Live => n = items[x]
    /\ x \notin Json!Live => KidsOf(n) = {} /\ \A f : Leads(n, f) = 0
    /\ kid.item = x
    /\ m.kids = Append(items[o].kids, kid) /\ m.type = items[o].type
    /\ m.int = items[o].int /\ m.real = items[o].real /\ m.str = items[o].str
    /\ items' = [items EXCEPT ![x] = n, ![o] = m]
    /\ \/ items[o].type = "array" /\ said' = said
       \/ items[o].type = "object" /\ kid.key \in Fields /\ Json!Say(o, kid.key, n)

LEMMA InvLinked ==
    ASSUME JsonInv, NEW o \in Json!Live, NEW x \in Json!Addrs, NEW n \in NodeOf,
           NEW kid \in KidOf, NEW m \in NodeOf, Links(o, x, n, kid, m)
    PROVE  JsonInv'
<1> SUFFICES ASSUME
           x # o, \A y \in Json!Live : x \notin KidsOf(items[y]),
           x \in Json!Live => n = items[x],
           x \notin Json!Live => KidsOf(n) = {} /\ \A f : Leads(n, f) = 0,
           kid.item = x,
           m.kids = Append(items[o].kids, kid), m.type = items[o].type,
           m.int = items[o].int, m.real = items[o].real, m.str = items[o].str,
           items' = [items EXCEPT ![x] = n, ![o] = m],
           \/ items[o].type = "array" /\ said' = said
           \/ items[o].type = "object" /\ kid.key \in Fields /\ Json!Say(o, kid.key, n)
    PROVE  JsonInv'
  BY DEF Links
<1> DEFINE a == items[o]
<1>1. /\ items \in [Json!Addrs -> NodeOf \cup {NoValue}] /\ o \in Json!Addrs /\ a \in NodeOf
      /\ said \in [Json!Addrs -> [Fields -> SaidOf \cup {NoValue}]]
      /\ n # NoValue /\ m # NoValue
  BY LiveNodes, NoValueIsNone DEF JsonInv, JsonTypeOK
<1>2. /\ m.type = a.type /\ m.int = a.int /\ m.real = a.real /\ m.str = a.str
      /\ m.kids = Append(a.kids, kid)
  OBVIOUS
<1>3. KidsOf(m) = KidsOf(a) \cup {x}
  <2>1. /\ a.kids \in Seq(KidOf) /\ KidsOf(a) = {a.kids[i].item : i \in 1 .. Len(a.kids)}
        /\ KidsOf(m) = {m.kids[i].item : i \in 1 .. Len(m.kids)}
    BY <1>1, KidsOfNode
  <2>2. /\ Len(a.kids) \in Nat /\ Len(m.kids) = Len(a.kids) + 1
        /\ m.kids[Len(a.kids) + 1] = kid
        /\ \A i \in 1 .. Len(a.kids) : m.kids[i] = a.kids[i]
    <3> HIDE DEF KidOf
    <3> QED BY <1>2, <2>1
  <2>3. 1 .. Len(m.kids) = 1 .. Len(a.kids) \cup {Len(a.kids) + 1}
    BY <2>2
  <2>4. ASSUME NEW k \in KidsOf(m) PROVE k \in KidsOf(a) \cup {x}
    <3>1. PICK i \in 1 .. Len(a.kids) \cup {Len(a.kids) + 1} : k = m.kids[i].item
      BY <2>1, <2>3, <2>4, SMTT(30)
    <3>2. CASE i \in 1 .. Len(a.kids)
      BY <2>1, <2>2, <3>1, <3>2
    <3>3. CASE i = Len(a.kids) + 1
      BY <2>2, <3>1, <3>3
    <3> QED BY <3>1, <3>2, <3>3
  <2>5. ASSUME NEW k \in KidsOf(a) PROVE k \in KidsOf(m)
    <3>1. PICK i \in 1 .. Len(a.kids) : k = a.kids[i].item
      BY <2>1, <2>5
    <3>2. i \in 1 .. Len(m.kids) /\ k = m.kids[i].item
      BY <2>2, <2>3, <3>1, SMTT(30)
    <3> QED BY <2>1, <3>2
  <2>6. x \in KidsOf(m)
    <3>1. Len(a.kids) + 1 \in 1 .. Len(m.kids)
      BY <2>2
    <3>2. x = m.kids[Len(a.kids) + 1].item
      BY <2>2
    <3> QED BY <2>1, <3>1, <3>2
  <2> QED BY <2>4, <2>5, <2>6
<1>4. items'[o] = m /\ items'[x] = n /\ \A y \in Json!Addrs : y \notin {o, x} => items'[y] = items[y]
  BY <1>1
<1>5. Json!Live' = Json!Live \cup {x}
  BY <1>1, <1>4 DEF Json!Live
<1>6. \A y \in Json!Live : y \in Json!Addrs /\ (y # o => items'[y] = items[y])
  BY <1>4, LiveNodes DEF JsonInv
<1>7. \A f \in Fields, y \in Json!Addrs : y # o => said'[y][f] = said[y][f]
  BY <1>1 DEF Json!Say
<1>8. ASSUME items[o].type = "object", NEW f \in Fields
      PROVE  said'[o][f] = IF f = kid.key /\ said[o][f] = NoValue
                           THEN [node |-> n, cut |-> n.int # Json!Saturated(n.real)]
                           ELSE said[o][f]
  BY <1>1, <1>8 DEF Json!Say
<1>9. JsonTypeOK'
  <2>1. items' \in [Json!Addrs -> NodeOf \cup {NoValue}]
    BY <1>1
  <2>2. [node |-> n, cut |-> n.int # Json!Saturated(n.real)] \in SaidOf
    BY DEF SaidOf
  <2>3. said' \in [Json!Addrs -> [Fields -> SaidOf \cup {NoValue}]]
    <3>1. CASE said' = said
      BY <1>1, <3>1
    <3>2. CASE kid.key \in Fields
               /\ said' = [said EXCEPT ![o][kid.key] =
                              [node |-> n, cut |-> n.int # Json!Saturated(n.real)]]
      BY <1>1, <2>2, <3>2
    <3> QED BY <3>1, <3>2 DEF Json!Say
  <2> QED BY <2>1, <2>3 DEF JsonTypeOK
<1>10. ASSUME NEW y \in Json!Live', NEW k \in KidsOf(items'[y])
       PROVE  \/ k = x /\ y = o
              \/ k # x /\ y \in Json!Live /\ k \in KidsOf(items[y])
  <2>1. CASE y = o
    BY <1>3, <1>4, <1>10, <2>1
  <2>2. CASE y = x
    <3>1. x \in Json!Live /\ n = items[x]
      BY <1>4, <1>10, <2>2
    <3> QED BY <1>4, <1>10, <2>2, <3>1
  <2>3. CASE y \notin {o, x}
    BY <1>5, <1>6, <1>10, <2>3
  <2> QED BY <2>1, <2>2, <2>3
<1>11. TreesWhole'
  <2>1. ASSUME NEW y \in Json!Live' PROVE KidsOf(items'[y]) \subseteq Json!Live'
    BY <1>5, <1>10 DEF JsonInv, TreesWhole
  <2>2. ASSUME NEW y \in Json!Live', NEW z \in Json!Live', NEW k,
               k \in KidsOf(items'[y]), k \in KidsOf(items'[z])
        PROVE  y = z
    <3>1. (k = x /\ y = o) \/ (k # x /\ y \in Json!Live /\ k \in KidsOf(items[y]))
      BY <1>10, <2>2
    <3>2. (k = x /\ z = o) \/ (k # x /\ z \in Json!Live /\ k \in KidsOf(items[z]))
      BY <1>10, <2>2
    <3> QED BY <3>1, <3>2 DEF JsonInv, TreesWhole
  <2> QED BY <2>1, <2>2 DEF TreesWhole
<1>12. ASSUME NEW c \in Json!Live, NEW s, IsAsSaid(items[c], s) PROVE IsAsSaid(items'[c], s)
  BY <1>2, <1>4, <1>6, <1>12 DEF IsAsSaid
<1>13. FieldsAsSaid'
  <2>1. ASSUME NEW y \in Json!Addrs, items'[y] = NoValue, NEW f \in Fields
        PROVE  said'[y][f] = NoValue
    <3>1. items[y] = NoValue /\ y # o
      BY <1>1, <1>4, <2>1
    <3> QED BY <1>7, <3>1 DEF JsonInv, FieldsAsSaid
  <2>2. ASSUME NEW y \in Json!Live', NEW f \in Fields
        PROVE  /\ said'[y][f] # NoValue =>
                     /\ Leads(items'[y], f) # 0
                     /\ IsAsSaid(items'[Leads(items'[y], f)], said'[y][f])
               /\ said'[y][f] = NoValue /\ items'[y].type = "object" => Leads(items'[y], f) = 0
    <3>1. CASE y = o
      <4>1. /\ Leads(a, f) # 0 => Leads(m, f) = Leads(a, f)
            /\ a.type = "object" /\ kid.key # f => Leads(m, f) = Leads(a, f)
            /\ a.type = "object" /\ kid.key = f /\ Leads(a, f) = 0 => Leads(m, f) = x
        <5>1. PICK b : b = a
          OBVIOUS
        <5>2. b \in NodeOf /\ m.type = b.type /\ m.kids = Append(b.kids, kid)
          BY <1>1, <1>2, <5>1
        <5>3. /\ Leads(b, f) # 0 => Leads(m, f) = Leads(b, f)
              /\ b.type = "object" /\ kid.key # f => Leads(m, f) = Leads(b, f)
              /\ b.type = "object" /\ kid.key = f /\ Leads(b, f) = 0 => Leads(m, f) = kid.item
          BY <5>2, OneKidMore
        <5> QED BY <5>1, <5>3
      <4>2. CASE said[o][f] # NoValue
        <5>1. Leads(a, f) # 0 /\ IsAsSaid(items[Leads(a, f)], said[o][f])
          BY <4>2 DEF JsonInv, FieldsAsSaid
        <5>2. Leads(m, f) = Leads(a, f) /\ Leads(a, f) \in Json!Live
          BY <4>1, <5>1, LeadsToLive
        <5>3. said'[o][f] = said[o][f]
          BY <1>8, <4>2
        <5> QED BY <1>4, <1>12, <3>1, <4>2, <5>1, <5>2, <5>3
      <4>3. CASE said[o][f] = NoValue
        <5>1. CASE a.type = "array"
          BY <1>2, <1>4, <3>1, <4>3, <5>1
        <5>2. CASE a.type = "object"
          <6>1. Leads(a, f) = 0
            BY <4>3, <5>2 DEF JsonInv, FieldsAsSaid
          <6>2. CASE f = kid.key
            <7> DEFINE s == [node |-> n, cut |-> n.int # Json!Saturated(n.real)]
            <7>0. s \in SaidOf /\ s # NoValue
              <8>1. (n.int # Json!Saturated(n.real)) \in BOOLEAN
                OBVIOUS
              <8>2. s \in SaidOf
                BY <8>1 DEF SaidOf
              <8> QED BY <8>2, NoValueIsNone
            <7>1. said'[o][f] = s
              BY <1>8, <4>3, <5>2, <6>2
            <7>2. Leads(m, f) = x /\ x # 0
              BY <4>1, <5>2, <6>1, <6>2 DEF Json!Addrs
            <7>3. IsAsSaid(n, s)
              BY DEF IsAsSaid
            <7> HIDE DEF s
            <7>4. items'[y] = m /\ items'[Leads(items'[y], f)] = n
              BY <1>4, <3>1, <7>2
            <7> QED BY <3>1, <7>0, <7>1, <7>2, <7>3, <7>4
          <6>3. CASE f # kid.key
            BY <1>4, <1>8, <3>1, <4>1, <4>3, <5>2, <6>1, <6>3
          <6> QED BY <6>2, <6>3
        <5> QED BY <5>1, <5>2
      <4> QED BY <4>2, <4>3
    <3>2. CASE y = x /\ x \notin Json!Live
      <4>1. said'[y][f] = NoValue
        BY <1>1, <1>7, <3>2 DEF JsonInv, FieldsAsSaid, Json!Live
      <4> QED BY <1>4, <3>2, <4>1
    <3>3. CASE y # o /\ y \in Json!Live
      <4>1. items'[y] = items[y] /\ said'[y][f] = said[y][f]
        BY <1>6, <1>7, <3>3
      <4>2. Leads(items[y], f) # 0 => Leads(items[y], f) \in Json!Live
        BY <3>3, LeadsToLive
      <4>3. /\ said[y][f] # NoValue =>
                  Leads(items[y], f) # 0 /\ IsAsSaid(items[Leads(items[y], f)], said[y][f])
            /\ said[y][f] = NoValue /\ items[y].type = "object" => Leads(items[y], f) = 0
        BY <3>3 DEF JsonInv, FieldsAsSaid
      <4>4. said[y][f] # NoValue => IsAsSaid(items'[Leads(items[y], f)], said[y][f])
        BY <1>12, <4>2, <4>3
      <4> QED BY <4>1, <4>3, <4>4
    <3> QED BY <1>5, <3>1, <3>2, <3>3
  <2> QED BY <2>1, <2>2 DEF FieldsAsSaid
<1> QED BY <1>9, <1>11, <1>13 DEF JsonInv

(* What the updates leave of a node.                                       *)
WithKid(n, kid)        == [n EXCEPT !.kids = Append(@, kid)]
AsWritten(n, new, cut) == [n EXCEPT !.real = new.real, !.str = new.str,
                                    !.int = IF cut THEN @ ELSE new.int]

LEMMA KidAppended ==
    ASSUME NEW n \in NodeOf, NEW kid \in KidOf
    PROVE  /\ WithKid(n, kid) \in NodeOf /\ WithKid(n, kid).kids = Append(n.kids, kid)
           /\ WithKid(n, kid).type = n.type /\ WithKid(n, kid).int = n.int
           /\ WithKid(n, kid).real = n.real /\ WithKid(n, kid).str = n.str
<1> HIDE DEF KidOf
<1>1. Append(n.kids, kid) \in Seq(KidOf)
  BY DEF NodeOf
<1> QED BY <1>1 DEF NodeOf, WithKid

LEMMA SetNode ==
    ASSUME NEW n \in NodeOf, NEW new \in NodeOf, NEW cut \in BOOLEAN
    PROVE  /\ AsWritten(n, new, cut) \in NodeOf /\ AsWritten(n, new, cut).kids = n.kids
           /\ AsWritten(n, new, cut).type = n.type /\ AsWritten(n, new, cut).real = new.real
           /\ AsWritten(n, new, cut).str = new.str
           /\ ~cut => AsWritten(n, new, cut).int = new.int
BY DEF NodeOf, AsWritten

LEMMA ReadNode ==
    ASSUME NEW n \in NodeOf
    PROVE  LET m == IF n.type = "real" THEN [n EXCEPT !.int = Json!Saturated(n.real)] ELSE n
           IN  /\ m \in NodeOf /\ m.kids = n.kids /\ m.type = n.type
               /\ m.real = n.real /\ m.str = n.str
               /\ n.type = "real" => m.int = Json!Saturated(n.real)
<1>1. n.real \in Nat
  BY DEF NodeOf
<1>2. PICK h \in Nat : h = Json!Saturated(n.real)
  BY <1>1, SaturatedIsNat
<1> QED BY <1>2 DEF NodeOf

LEMMA SameKids ==
    ASSUME NEW n, NEW m, m.kids = n.kids, m.type = n.type
    PROVE  KidsOf(m) = KidsOf(n) /\ \A f : Leads(m, f) = Leads(n, f)
<1>1. KidsOf(m) = KidsOf(n)
  BY DEF KidsOf
<1>2. ASSUME NEW f PROVE Leads(m, f) = Leads(n, f)
  <2>1. Named(m, f) = Named(n, f)
    BY DEF Named
  <2> QED BY <2>1 DEF Leads
<1> QED BY <1>1, <1>2

LEMMA InvAdd ==
    ASSUME JsonInv, NEW o \in Json!Live, NEW field \in Fields, NEW n \in Json!Written,
           Json!JsonAdd(o, field, n)
    PROVE  JsonInv'
<1> PICK x : x = Json!Spare
  OBVIOUS
<1>1. /\ x \in Json!Addrs /\ x \notin Json!Live /\ x # o /\ items[o].type = "object"
      /\ items' = [items EXCEPT ![x] = n, ![o].kids = Append(@, [key |-> field, item |-> x])]
      /\ Json!Say(o, field, n)
  BY SpareIsFree DEF Json!JsonAdd
<1>2. n \in NodeOf /\ KidsOf(n) = {} /\ \A f : Leads(n, f) = 0
  BY NewNodes
<1>3. \A y \in Json!Live : x \notin KidsOf(items[y])
  BY <1>1 DEF JsonInv, TreesWhole
<1>4. PICK kid \in KidOf : kid = [key |-> field, item |-> x]
  BY <1>1 DEF KidOf
<1>5. PICK m \in NodeOf :
        /\ items' = [items EXCEPT ![x] = n, ![o] = m]
        /\ m.kids = Append(items[o].kids, kid) /\ m.type = items[o].type
        /\ m.int = items[o].int /\ m.real = items[o].real /\ m.str = items[o].str
  <2>1. items[o] \in NodeOf /\ items \in [Json!Addrs -> NodeOf \cup {NoValue}] /\ o \in Json!Addrs
    BY LiveNodes DEF JsonInv, JsonTypeOK
  <2>2. items' = [items EXCEPT ![x] = n, ![o] = WithKid(items[o], kid)]
    BY <1>1, <1>4, <2>1 DEF WithKid
  <2> QED BY <2>1, <2>2, KidAppended
<1>6. kid.item = x /\ kid.key = field
  BY <1>4
<1>7. x \in Json!Live => n = items[x]
  BY <1>1
<1>8. Links(o, x, n, kid, m)
  BY <1>1, <1>2, <1>3, <1>5, <1>6, <1>7 DEF Links
<1> QED BY <1>1, <1>2, <1>8, InvLinked

LEMMA InvHanded ==
    ASSUME JsonInv, NEW o \in Json!Live, NEW x \in Json!Roots,
           \/ Json!JsonArrayAdd(o, x)
           \/ \E field \in Fields : Json!JsonAddObject(o, field, x)
    PROVE  JsonInv'
<1>1. x \in Json!Live /\ x \in Json!Addrs /\ items[x] \in NodeOf /\ x \in Json!Below(x)
  BY LiveNodes, BelowIsATree DEF JsonInv, Json!Roots
<1>2. \A y \in Json!Live : x \notin KidsOf(items[y])
  BY LiveNodes DEF JsonInv, Json!Roots
<1>3. items[o] \in NodeOf /\ items \in [Json!Addrs -> NodeOf \cup {NoValue}] /\ o \in Json!Addrs
  BY LiveNodes DEF JsonInv, JsonTypeOK
<1>4. PICK kid \in KidOf :
        /\ kid.item = x /\ x # o
        /\ items' = [items EXCEPT ![o].kids = Append(@, kid)]
        /\ \/ items[o].type = "array" /\ said' = said
           \/ items[o].type = "object" /\ kid.key \in Fields /\ Json!Say(o, kid.key, items[x])
  <2>1. CASE Json!JsonArrayAdd(o, x)
    <3>1. [key |-> NoValue, item |-> x] \in KidOf
      BY <1>1 DEF KidOf
    <3> QED BY <1>1, <2>1, <3>1 DEF Json!JsonArrayAdd
  <2>2. ASSUME NEW field \in Fields, Json!JsonAddObject(o, field, x)
        PROVE  \E kid \in KidOf :
                 /\ kid.item = x /\ x # o
                 /\ items' = [items EXCEPT ![o].kids = Append(@, kid)]
                 /\ \/ items[o].type = "array" /\ said' = said
                    \/ /\ items[o].type = "object" /\ kid.key \in Fields
                       /\ Json!Say(o, kid.key, items[x])
    <3>1. [key |-> field, item |-> x] \in KidOf
      BY <1>1 DEF KidOf
    <3> QED BY <1>1, <2>2, <3>1 DEF Json!JsonAddObject
  <2> QED BY <2>1, <2>2
<1>5. PICK m \in NodeOf :
        /\ items' = [items EXCEPT ![x] = items[x], ![o] = m]
        /\ m.kids = Append(items[o].kids, kid) /\ m.type = items[o].type
        /\ m.int = items[o].int /\ m.real = items[o].real /\ m.str = items[o].str
  <2>1. items' = [items EXCEPT ![x] = items[x], ![o] = WithKid(items[o], kid)]
    BY <1>1, <1>3, <1>4 DEF WithKid
  <2> QED BY <1>3, <2>1, KidAppended
<1>6. Links(o, x, items[x], kid, m)
  BY <1>1, <1>2, <1>4, <1>5 DEF Links
<1> QED BY <1>1, <1>6, InvLinked

-----------------------------------------------------------------------------
(* Reloading and destroying a tree.                                        *)
LEMMA InvReload ==
    ASSUME JsonInv, NEW root \in Json!Roots, Json!JsonReload(root)
    PROVE  JsonInv'
<1> DEFINE B == Json!Below(root)
           read(n) == IF n.type = "real" THEN [n EXCEPT !.int = Json!Saturated(n.real)] ELSE n
<1>1. /\ items' = [x \in Json!Addrs |-> IF x \in B THEN read(items[x]) ELSE items[x]]
      /\ said' = [x \in Json!Addrs |-> [f \in Fields |->
                      IF x \in B /\ said[x][f] # NoValue
                      THEN [said[x][f] EXCEPT !.cut = FALSE] ELSE said[x][f]]]
  BY DEF Json!JsonReload
<1>2. /\ B \subseteq Json!Live
      /\ \A x \in B : KidsOf(items[x]) \subseteq B
  BY BelowIsATree
<1>3. /\ items \in [Json!Addrs -> NodeOf \cup {NoValue}]
      /\ said \in [Json!Addrs -> [Fields -> SaidOf \cup {NoValue}]]
      /\ \A x \in Json!Live : x \in Json!Addrs /\ items[x] \in NodeOf
  BY LiveNodes DEF JsonInv, JsonTypeOK
<1>4. ASSUME NEW n \in NodeOf
      PROVE  /\ read(n) \in NodeOf /\ read(n).kids = n.kids /\ read(n).type = n.type
             /\ read(n).real = n.real /\ read(n).str = n.str
             /\ n.type = "real" => read(n).int = Json!Saturated(n.real)
  BY ReadNode
<1> HIDE DEF B, read
<1>5. ASSUME NEW x \in Json!Live
      PROVE  /\ items'[x] \in NodeOf /\ items'[x].kids = items[x].kids
             /\ items'[x].type = items[x].type /\ items'[x].real = items[x].real
             /\ items'[x].str = items[x].str
             /\ x \in B /\ items[x].type = "real" => items'[x].int = Json!Saturated(items[x].real)
             /\ x \notin B => items'[x] = items[x]
  BY <1>1, <1>3, <1>4
<1>6. /\ \A x \in Json!Addrs : items[x] = NoValue <=> items'[x] = NoValue
      /\ Json!Live' = Json!Live
  <2>1. ASSUME NEW x \in Json!Addrs PROVE items[x] = NoValue <=> items'[x] = NoValue
    <3>1. CASE x \in Json!Live
      <4>1. items'[x] # NoValue
        BY <1>5, <3>1, NoValueIsNone
      <4> QED BY <3>1, <4>1 DEF Json!Live
    <3>2. CASE x \notin Json!Live
      BY <1>1, <1>2, <3>2 DEF Json!Live
    <3> QED BY <3>1, <3>2
  <2>2. Json!Live' = {x \in Json!Addrs : items'[x] # NoValue}
    BY DEF Json!Live, Json!Addrs
  <2> QED BY <2>1, <2>2 DEF Json!Live
<1>7. \A x \in Json!Live : /\ KidsOf(items'[x]) = KidsOf(items[x])
                           /\ \A f : Leads(items'[x], f) = Leads(items[x], f)
  BY <1>5, SameKids
<1>8. ASSUME NEW x \in Json!Addrs, NEW f \in Fields
      PROVE  /\ said'[x][f] \in SaidOf \cup {NoValue}
             /\ said[x][f] = NoValue => said'[x][f] = NoValue
             /\ said[x][f] # NoValue => /\ said'[x][f].node = said[x][f].node
                                        /\ x \notin B => said'[x][f] = said[x][f]
                                        /\ said'[x][f] # NoValue
  <2>1. said[x][f] \in SaidOf \cup {NoValue}
    BY <1>3
  <2>2. ASSUME NEW s \in SaidOf
        PROVE  [s EXCEPT !.cut = FALSE] \in SaidOf /\ [s EXCEPT !.cut = FALSE].node = s.node
    BY DEF SaidOf
  <2> QED BY <1>1, <2>1, <2>2, NoValueIsNone
<1>9. JsonTypeOK'
  <2>1. ASSUME NEW x \in Json!Addrs PROVE items'[x] \in NodeOf \cup {NoValue}
    <3>1. CASE x \in Json!Live
      BY <1>5, <3>1
    <3>2. CASE x \notin Json!Live
      BY <1>6, <3>2 DEF Json!Live
    <3> QED BY <3>1, <3>2
  <2>2. items' \in [Json!Addrs -> NodeOf \cup {NoValue}]
    BY <1>1, <2>1
  <2>3. said' \in [Json!Addrs -> [Fields -> SaidOf \cup {NoValue}]]
    BY <1>1, <1>8
  <2> QED BY <2>2, <2>3 DEF JsonTypeOK
<1>10. TreesWhole'
  BY <1>6, <1>7 DEF JsonInv, TreesWhole
<1>11. FieldsAsSaid'
  <2>1. ASSUME NEW x \in Json!Addrs, items'[x] = NoValue, NEW f \in Fields
        PROVE  said'[x][f] = NoValue
    BY <1>6, <1>8, <2>1 DEF JsonInv, FieldsAsSaid
  <2>2. ASSUME NEW x \in Json!Live, NEW f \in Fields
        PROVE  /\ said'[x][f] # NoValue =>
                     /\ Leads(items'[x], f) # 0
                     /\ IsAsSaid(items'[Leads(items'[x], f)], said'[x][f])
               /\ said'[x][f] = NoValue /\ items'[x].type = "object" => Leads(items'[x], f) = 0
    <3>1. x \in Json!Addrs /\ Leads(items'[x], f) = Leads(items[x], f) /\ items'[x].type = items[x].type
      BY <1>3, <1>5, <1>7
    <3>2. CASE said[x][f] = NoValue
      BY <1>8, <3>1, <3>2 DEF JsonInv, FieldsAsSaid
    <3>3. CASE said[x][f] # NoValue
      <4>1. PICK c : c = Leads(items[x], f)
        OBVIOUS
      <4>2. c # 0 /\ IsAsSaid(items[c], said[x][f])
        BY <3>3, <4>1 DEF JsonInv, FieldsAsSaid
      <4>3. c \in Json!Live /\ c \in KidsOf(items[x])
        BY <4>1, <4>2, LeadsToLive
      <4>4. x \in B => c \in B
        BY <1>2, <4>3
      <4>5. /\ said'[x][f] # NoValue /\ said'[x][f].node = said[x][f].node
            /\ x \notin B => said'[x][f] = said[x][f]
        BY <1>8, <3>1, <3>3
      <4>6. IsAsSaid(items'[c], said'[x][f])
        <5>1. CASE c \in B
          BY <1>5, <4>2, <4>3, <4>5, <5>1 DEF IsAsSaid
        <5>2. CASE c \notin B
          BY <1>5, <4>2, <4>3, <4>4, <4>5, <5>2
        <5> QED BY <5>1, <5>2
      <4> QED BY <3>1, <4>1, <4>2, <4>5, <4>6
    <3> QED BY <3>2, <3>3
  <2> QED BY <1>6, <2>1, <2>2 DEF FieldsAsSaid
<1> QED BY <1>9, <1>10, <1>11 DEF JsonInv

LEMMA InvDestroy ==
    ASSUME JsonInv, NEW root \in Json!Roots, Json!JsonDestroy(root)
    PROVE  JsonInv'
<1> DEFINE B == Json!Below(root)
<1>1. /\ items' = [x \in Json!Addrs |-> IF x \in B THEN NoValue ELSE items[x]]
      /\ said' = [x \in Json!Addrs |-> IF x \in B THEN [f \in Fields |-> NoValue] ELSE said[x]]
  BY DEF Json!JsonDestroy
<1>2. /\ B \subseteq Json!Live
      /\ \A x \in Json!Live : KidsOf(items[x]) \cap B # {} => x \in B
  BY BelowIsATree
<1>3. /\ items \in [Json!Addrs -> NodeOf \cup {NoValue}]
      /\ said \in [Json!Addrs -> [Fields -> SaidOf \cup {NoValue}]]
  BY DEF JsonInv, JsonTypeOK
<1> HIDE DEF B
<1>4. Json!Live' = Json!Live \ B
  <2>1. Json!Live' = {x \in Json!Addrs : items'[x] # NoValue}
    BY DEF Json!Live, Json!Addrs
  <2> QED BY <1>1, <2>1 DEF Json!Live
<1>5. \A x \in Json!Live' : x \in Json!Addrs /\ items'[x] = items[x] /\ said'[x] = said[x]
  BY <1>1, <1>4 DEF Json!Live
<1>6. \A x \in Json!Live' : KidsOf(items[x]) \subseteq Json!Live'
  BY <1>2, <1>4 DEF JsonInv, TreesWhole
<1>7. JsonTypeOK'
  <2>1. items' \in [Json!Addrs -> NodeOf \cup {NoValue}]
    BY <1>1, <1>3
  <2>2. said' \in [Json!Addrs -> [Fields -> SaidOf \cup {NoValue}]]
    BY <1>1, <1>3
  <2> QED BY <2>1, <2>2 DEF JsonTypeOK
<1>8. TreesWhole'
  BY <1>4, <1>5, <1>6 DEF JsonInv, TreesWhole
<1>9. FieldsAsSaid'
  <2>1. ASSUME NEW x \in Json!Addrs, items'[x] = NoValue, NEW f \in Fields
        PROVE  said'[x][f] = NoValue
    BY <1>1, <2>1 DEF JsonInv, FieldsAsSaid
  <2>2. ASSUME NEW x \in Json!Live', NEW f \in Fields
        PROVE  /\ said'[x][f] # NoValue =>
                     /\ Leads(items'[x], f) # 0
                     /\ IsAsSaid(items'[Leads(items'[x], f)], said'[x][f])
               /\ said'[x][f] = NoValue /\ items'[x].type = "object" => Leads(items'[x], f) = 0
    <3>1. x \in Json!Live /\ items'[x] = items[x] /\ said'[x][f] = said[x][f]
      BY <1>4, <1>5
    <3>2. Leads(items[x], f) # 0 => items'[Leads(items[x], f)] = items[Leads(items[x], f)]
      BY <1>5, <1>6, <3>1, LeadsToLive
    <3> QED BY <3>1, <3>2 DEF JsonInv, FieldsAsSaid
  <2> QED BY <2>1, <2>2 DEF FieldsAsSaid
<1> QED BY <1>7, <1>8, <1>9 DEF JsonInv

-----------------------------------------------------------------------------
(* The setters find a live node, or nothing.                               *)
LEMMA ChildIsLive ==
    ASSUME JsonInv, NEW x \in Json!Live \cup {0}, NEW f
    PROVE  Json!Child(x, f) \in Json!Live \cup {0}
<1>1. CASE x = 0
  BY <1>1 DEF Json!Child, Json!NULL
<1>2. CASE x \in Json!Live
  BY <1>2, ChildLeads, LeadsToLive, LiveNodes DEF JsonInv
<1> QED BY <1>1, <1>2

LEMMA ItemIsLive ==
    ASSUME JsonInv, NEW root \in Json!Roots, NEW path \in Json!Paths(root), NEW type,
           Json!Item(root, path, type) # Json!NULL
    PROVE  /\ Json!Item(root, path, type) \in Json!Live
           /\ items[Json!Item(root, path, type)].type = type
<1> DEFINE x == Json!FoldLeft(Json!Child, root, path)
<1>1. root \in Json!Live \cup {0}
  BY DEF Json!Roots
<1>2. path = <<>> \/ (\E f : path = <<f>>) \/ path = <<path[1], path[2]>>
  BY DEF Json!Paths
<1>3. x \in Json!Live \cup {0}
  <2>1. CASE path = <<>>
    BY <1>1, <2>1, NoStep
  <2>2. ASSUME NEW f, path = <<f>> PROVE x \in Json!Live \cup {0}
    BY <1>1, <2>2, OneStep, ChildIsLive
  <2>3. ASSUME path = <<path[1], path[2]>> PROVE x \in Json!Live \cup {0}
    <3>1. Json!Child(root, path[1]) \in Json!Live \cup {0}
      BY <1>1, ChildIsLive
    <3>2. Json!Child(Json!Child(root, path[1]), path[2]) \in Json!Live \cup {0}
      BY <3>1, ChildIsLive
    <3> QED BY <2>3, <3>2, TwoSteps
  <2> QED BY <1>2, <2>1, <2>2, <2>3
<1>4. Json!Item(root, path, type) = x /\ x # 0 /\ items[x].type = type
  BY DEF Json!Item, Json!NULL
<1> HIDE DEF x
<1> QED BY <1>3, <1>4

LEMMA InvSet ==
    ASSUME JsonInv, NEW x \in Json!Live, NEW new \in NodeOf, NEW cut \in BOOLEAN,
           items[x].type = new.type,
           new.type = "real" => new.int = Json!Saturated(new.real),
           Json!SayAll(x, new, cut),
           items' = [items EXCEPT ![x].real = new.real, ![x].str = new.str,
                                  ![x].int = IF cut THEN @ ELSE new.int]
    PROVE  JsonInv'
<1>1. /\ items \in [Json!Addrs -> NodeOf \cup {NoValue}]
      /\ said \in [Json!Addrs -> [Fields -> SaidOf \cup {NoValue}]]
      /\ \A y \in Json!Live : y \in Json!Addrs /\ items[y] \in NodeOf
      /\ 0 \notin Json!Addrs
  BY LiveNodes DEF JsonInv, JsonTypeOK
<1>2. PICK m \in NodeOf :
        /\ items' = [items EXCEPT ![x] = m]
        /\ m.kids = items[x].kids /\ m.type = items[x].type
        /\ m.real = new.real /\ m.str = new.str /\ (~cut => m.int = new.int)
  <2>1. items' = [items EXCEPT ![x] = AsWritten(items[x], new, cut)]
    BY <1>1 DEF AsWritten
  <2>2. PICK n \in NodeOf : n = items[x]
    BY <1>1
  <2>3. PICK m : m = AsWritten(n, new, cut)
    OBVIOUS
  <2>4. /\ m \in NodeOf /\ m.kids = n.kids /\ m.type = n.type /\ m.real = new.real
        /\ m.str = new.str /\ (~cut => m.int = new.int)
    BY <2>3, SetNode
  <2>5. items' = [items EXCEPT ![x] = m] /\ n = items[x]
    BY <2>1, <2>2, <2>3
  <2> QED BY <2>4, <2>5
<1>3. items'[x] = m /\ \A y \in Json!Addrs : y # x => items'[y] = items[y]
  BY <1>1, <1>2
<1>4. PICK s \in SaidOf : s = [node |-> new, cut |-> cut]
  BY DEF SaidOf
<1>5. said' = [o \in Json!Addrs |-> [f \in Fields |->
                  IF o \in Json!Live /\ Leads(items[o], f) = x THEN s ELSE said[o][f]]]
  BY <1>1, <1>4, ChildLeads DEF Json!SayAll
<1>6. IsAsSaid(m, s)
  BY <1>2, <1>4 DEF IsAsSaid
<1>7. s # NoValue /\ m # NoValue
  BY NoValueIsNone
<1>8. Json!Live' = Json!Live
  BY <1>1, <1>3, <1>7 DEF Json!Live
<1>9. JsonTypeOK'
  <2>1. items' \in [Json!Addrs -> NodeOf \cup {NoValue}]
    BY <1>1, <1>2
  <2>2. said' \in [Json!Addrs -> [Fields -> SaidOf \cup {NoValue}]]
    BY <1>1, <1>5
  <2> QED BY <2>1, <2>2 DEF JsonTypeOK
<1>10. ASSUME NEW y \in Json!Live
       PROVE  /\ items'[y].kids = items[y].kids /\ items'[y].type = items[y].type
              /\ KidsOf(items'[y]) = KidsOf(items[y])
              /\ \A f : Leads(items'[y], f) = Leads(items[y], f)
  <2>1. items'[y].kids = items[y].kids /\ items'[y].type = items[y].type
    BY <1>1, <1>2, <1>3
  <2> QED BY <2>1, SameKids
<1>11. TreesWhole'
  BY <1>8, <1>10 DEF JsonInv, TreesWhole
<1>12. FieldsAsSaid'
  <2>1. ASSUME NEW y \in Json!Addrs, items'[y] = NoValue, NEW f \in Fields
        PROVE  said'[y][f] = NoValue
    <3>1. items[y] = NoValue /\ y \notin Json!Live
      BY <1>3, <1>7, <2>1 DEF Json!Live
    <3> QED BY <1>5, <3>1 DEF JsonInv, FieldsAsSaid
  <2>2. ASSUME NEW y \in Json!Live, NEW f \in Fields
        PROVE  /\ said'[y][f] # NoValue =>
                     /\ Leads(items'[y], f) # 0
                     /\ IsAsSaid(items'[Leads(items'[y], f)], said'[y][f])
               /\ said'[y][f] = NoValue /\ items'[y].type = "object" => Leads(items'[y], f) = 0
    <3>1. /\ y \in Json!Addrs /\ x # 0 /\ items'[y].type = items[y].type
          /\ Leads(items'[y], f) = Leads(items[y], f)
      BY <1>1, <1>10
    <3>2. CASE Leads(items[y], f) = x
      <4>1. said'[y][f] = s
        BY <1>5, <3>1, <3>2
      <4> QED BY <1>3, <1>6, <1>7, <3>1, <3>2, <4>1
    <3>3. CASE Leads(items[y], f) # x
      <4>1. said'[y][f] = said[y][f]
        BY <1>5, <3>1, <3>3
      <4>2. Leads(items[y], f) # 0 => items'[Leads(items[y], f)] = items[Leads(items[y], f)]
        BY <1>1, <1>3, <3>3, LeadsToLive
      <4> QED BY <3>1, <4>1, <4>2 DEF JsonInv, FieldsAsSaid
    <3> QED BY <3>2, <3>3
  <2> QED BY <1>8, <2>1, <2>2 DEF FieldsAsSaid
<1> QED BY <1>9, <1>11, <1>12 DEF JsonInv

LEMMA InvSets ==
    ASSUME JsonInv, NEW root \in Json!Roots, NEW path \in Json!Paths(root),
           \/ \E n \in Ints : Json!SetItemInt(root, path, Json!Saturated(2 * n))
           \/ \E h \in Reals : Json!SetItemReal(root, path, h)
           \/ \E s \in Strings : Json!SetItemStr(root, path, s)
    PROVE  JsonInv'
<1>1. PICK new \in NodeOf, cut \in BOOLEAN :
        /\ Json!Sets(root, path, new, cut)
        /\ new.type = "real" => new.int = Json!Saturated(new.real)
  <2>1. ASSUME NEW n \in Ints, Json!SetItemInt(root, path, Json!Saturated(2 * n))
        PROVE  \E new \in NodeOf, cut \in BOOLEAN :
                 /\ Json!Sets(root, path, new, cut)
                 /\ new.type = "real" => new.int = Json!Saturated(new.real)
    <3>1. 2 * n \in Nat
      BY NoValueIsNone
    <3>2. PICK k \in Nat : k = Json!Saturated(2 * n)
      BY <3>1, SaturatedIsNat
    <3>3. 2 * k \in Nat
      OBVIOUS
    <3>4. PICK new \in NodeOf : new = Json!Number(2 * k)
      BY <3>3, NewNumber
    <3>5. Json!Sets(root, path, new, FALSE)
      BY <2>1, <3>2, <3>4 DEF Json!SetItemInt
    <3>6. new.int = Json!Saturated(new.real)
      BY <3>3, <3>4, NewNumber
    <3> QED BY <3>5, <3>6
  <2>2. ASSUME NEW h \in Reals, Json!SetItemReal(root, path, h)
        PROVE  \E new \in NodeOf, cut \in BOOLEAN :
                 /\ Json!Sets(root, path, new, cut)
                 /\ new.type = "real" => new.int = Json!Saturated(new.real)
    <3>1. h \in Nat
      BY NoValueIsNone
    <3>2. PICK new \in NodeOf : new = Json!Number(h)
      BY <3>1, NewNumber
    <3>3. Json!Sets(root, path, new, TRUE)
      BY <2>2, <3>2 DEF Json!SetItemReal
    <3>4. new.int = Json!Saturated(new.real)
      BY <3>1, <3>2, NewNumber
    <3> QED BY <3>3, <3>4
  <2>3. ASSUME NEW s \in Strings, Json!SetItemStr(root, path, s)
        PROVE  \E new \in NodeOf, cut \in BOOLEAN :
                 /\ Json!Sets(root, path, new, cut)
                 /\ new.type = "real" => new.int = Json!Saturated(new.real)
    <3>1. Json!Sets(root, path, Json!Text(s), FALSE)
      BY <2>3 DEF Json!SetItemStr
    <3> QED BY <3>1, NewText
  <2> QED BY <2>1, <2>2, <2>3
<1>2. PICK x : x = Json!Item(root, path, new.type)
  OBVIOUS
<1>3. /\ x # Json!NULL /\ Json!SayAll(x, new, cut)
      /\ items' = [items EXCEPT ![x].real = new.real, ![x].str = new.str,
                                ![x].int = IF cut THEN @ ELSE new.int]
  BY <1>1, <1>2 DEF Json!Sets
<1>4. x \in Json!Live /\ items[x].type = new.type
  BY <1>2, <1>3, ItemIsLive
<1> QED BY <1>1, <1>3, <1>4, InvSet, Zenon

(* HyJson: a field reads as what was last written to it, along whichever   *)
(* path it was, whatever was added beside it and wherever its tree went.   *)
THEOREM LastWrittenIsRead == Spec => []ReadsLastWritten
<1>1. Init => JsonInv
  <2> SUFFICES ASSUME Json!JsonInit PROVE JsonInv
    BY DEF Init
  <2>1. Json!Live = {} /\ \A x \in Json!Addrs : items[x] = NoValue
    BY DEF Json!JsonInit, Json!Live
  <2>2. JsonTypeOK
    BY DEF Json!JsonInit, JsonTypeOK
  <2>3. TreesWhole
    BY <2>1 DEF TreesWhole
  <2>4. FieldsAsSaid
    BY <2>1 DEF Json!JsonInit, FieldsAsSaid
  <2> QED BY <2>2, <2>3, <2>4 DEF JsonInv
<1>2. JsonInv /\ [Next]_containersVars => JsonInv'
  <2> SUFFICES ASSUME JsonInv, [Next]_containersVars PROVE JsonInv'
    OBVIOUS
  <2>1. Json!JsonNext \/ UNCHANGED J
    BY DEF Next, containersVars
  <2>2. CASE UNCHANGED J
    <3>1. items' = items /\ said' = said
      BY <2>2 DEF J
    <3> QED BY <3>1 DEF JsonInv, JsonTypeOK, TreesWhole, FieldsAsSaid, Json!Live
  <2>3. CASE Json!JsonNext
    <3>1. ASSUME NEW n \in Json!Written \cup {Json!Node("object"), Json!Node("array")},
                 Json!JsonNew(n)
          PROVE  JsonInv'
      BY <3>1, InvNew
    <3>2. ASSUME NEW o \in Json!Live, NEW field \in Fields, NEW n \in Json!Written,
                 Json!JsonAdd(o, field, n)
          PROVE  JsonInv'
      BY <3>2, InvAdd
    <3>3. ASSUME NEW o \in Json!Live, NEW x \in Json!Roots,
                 \/ Json!JsonArrayAdd(o, x)
                 \/ \E field \in Fields : Json!JsonAddObject(o, field, x)
          PROVE  JsonInv'
      BY <3>3, InvHanded
    <3>4. ASSUME NEW root \in Json!Roots, Json!JsonReload(root) \/ Json!JsonDestroy(root)
          PROVE  JsonInv'
      BY <3>4, InvReload, InvDestroy
    <3>5. ASSUME NEW root \in Json!Roots, NEW path \in Json!Paths(root),
                 \/ \E n \in Ints : Json!SetItemInt(root, path, Json!Saturated(2 * n))
                 \/ \E h \in Reals : Json!SetItemReal(root, path, h)
                 \/ \E s \in Strings : Json!SetItemStr(root, path, s)
          PROVE  JsonInv'
      BY <3>5, InvSets
    <3> QED BY <2>3, <3>1, <3>2, <3>3, <3>4, <3>5 DEF Json!JsonNext
  <2> QED BY <2>1, <2>2, <2>3
<1>3. JsonInv => ReadsLastWritten
  <2> SUFFICES ASSUME JsonInv, NEW o \in Json!Live, NEW f \in Fields,
                      said[o][f] # NoValue, said[o][f].node.type \in {"real", "str"}
               PROVE  LET node == said[o][f].node
                      IN  /\ node.type = "real" => Json!GetItemReal(NoValue, o, <<f>>) = node.real
                          /\ node.type = "real" /\ ~said[o][f].cut =>
                                 Json!GetItemInt(NoValue, o, <<f>>) = Json!Saturated(node.real)
                          /\ node.type = "str"  => Json!GetItemStr(NoValue, o, <<f>>) = node.str
    BY DEF ReadsLastWritten, Json!ReadsLastWritten
  <2>1. PICK c : c = Leads(items[o], f)
    OBVIOUS
  <2>2. c # 0 /\ IsAsSaid(items[c], said[o][f])
    BY <2>1 DEF JsonInv, FieldsAsSaid
  <2>3. Json!FoldLeft(Json!Child, o, <<f>>) = c
    BY <2>1, OneStep, ChildLeads, LiveNodes DEF JsonInv
  <2>4. \A type : Json!Item(o, <<f>>, type) = IF items[c].type = type THEN c ELSE 0
    BY <2>2, <2>3 DEF Json!Item, Json!NULL
  <2> QED BY <2>2, <2>4 DEF Json!GetItemReal, Json!GetItemInt, Json!GetItemStr, Json!NULL, IsAsSaid
<1> QED BY <1>1, <1>2, <1>3, PTL DEF Spec, containersVars
=============================================================================
