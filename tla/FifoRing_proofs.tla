--------------------------- MODULE FifoRing_proofs ---------------------------
(***************************************************************************)
(* What the ring's arithmetic yields for every capacity and counter width. *)
(***************************************************************************)
EXTENDS FifoRing, TLAPS

(* Unsigned arithmetic of one addition or subtraction stays in range.      *)
LEMMA U32Range ==
    ASSUME NEW x \in Int, -Modulus <= x, x < 2 * Modulus
    PROVE  U32(x) \in 0 .. Modulus - 1
BY SizeAssumption DEF U32

(* The number of bytes in the ring is an unsigned number.                  *)
LEMMA UsedRange ==
    ASSUME in \in 0 .. Modulus - 1, out \in 0 .. Modulus - 1
    PROVE  Used \in 0 .. Modulus - 1
BY SizeAssumption DEF Used, U32

LEMMA PosRange ==
    ASSUME NEW x \in Nat
    PROVE  Pos(x) \in Slots
BY SizeAssumption DEF Pos, Slots

(* Both memcpy of a write stay in the ring and take bytes of the payload.  *)
LEMMA CopyInType ==
    ASSUME RingTypeOK, NEW p \in Seq(Nat)
    PROVE  CopyIn(p) \in [Slots -> Nat]
<1> DEFINE pos == Pos(in)
           l == Lesser(Len(p), Capacity - pos)
<1>1. pos \in Slots
  BY PosRange, SizeAssumption DEF RingTypeOK
<1>2. l \in Nat /\ l <= Len(p)
  BY <1>1, SizeAssumption DEF Lesser, Slots
<1>3. ASSUME NEW i \in Slots
      PROVE  (IF i < Len(p) - l THEN p[l + i + 1]
              ELSE IF pos <= i /\ i < pos + l THEN p[i - pos + 1]
              ELSE buf[i]) \in Nat
  <2>1. i \in Nat /\ buf[i] \in Nat
    BY SizeAssumption DEF RingTypeOK, Slots
  <2>2. CASE i < Len(p) - l
    <3>1. l + i + 1 \in 1 .. Len(p)
      BY <2>1, <2>2, <1>2
    <3> QED BY <3>1, <2>2
  <2>3. CASE ~(i < Len(p) - l) /\ pos <= i /\ i < pos + l
    <3>1. i - pos + 1 \in 1 .. Len(p)
      BY <2>1, <2>3, <1>1, <1>2 DEF Slots
    <3> QED BY <3>1, <2>3
  <2> QED BY <2>1, <2>2, <2>3
<1> QED BY <1>3 DEF CopyIn

(* A read that asks for no more than the capacity gets bytes of the ring.  *)
LEMMA CopyOutType ==
    ASSUME RingTypeOK, NEW ring \in [Slots -> Nat], NEW n \in Nat, n <= Capacity
    PROVE  CopyOut(ring, n) \in Seq(Nat)
<1> DEFINE pos == Pos(out)
           l == Lesser(n, Capacity - pos)
<1>1. pos \in Slots
  BY PosRange, SizeAssumption DEF RingTypeOK
<1>2. l \in Nat /\ l <= n /\ l <= Capacity - pos /\ (l = n \/ l = Capacity - pos)
  BY <1>1, SizeAssumption DEF Lesser, Slots
<1>3. ASSUME NEW k \in 1 .. n
      PROVE  (IF k <= l THEN ring[pos + k - 1] ELSE ring[k - l - 1]) \in Nat
  <2>1. CASE k <= l
    <3>1. pos + k - 1 \in Slots
      BY <2>1, <1>1, <1>2, SizeAssumption DEF Slots
    <3> QED BY <3>1, <2>1 DEF RingTypeOK
  <2>2. CASE ~(k <= l)
    <3>1. k - l - 1 \in Slots
      <4>1. k \in Nat /\ l \in Nat /\ l < k /\ k <= Capacity /\ Capacity \in Nat
        BY <2>2, <1>2, SizeAssumption
      <4> QED BY <4>1 DEF Slots
    <3> QED BY <3>1, <2>2 DEF RingTypeOK
  <2> QED BY <2>1, <2>2
<1>4. CopyOut(ring, n) \in [1 .. n -> Nat]
  BY <1>3 DEF CopyOut
<1> QED BY <1>4

-----------------------------------------------------------------------------
(* The counters move by at most what the test found.                       *)

(* A committed write adds its length to what the ring holds.               *)
LEMMA UsedAfterWrite ==
    ASSUME in \in 0 .. Modulus - 1, out \in 0 .. Modulus - 1,
           NEW n \in Nat, Used + n <= Capacity,
           in' = U32(in + n), out' = out
    PROVE  Used' = Used + n
BY SizeAssumption DEF Used, U32

(* A committed read or delete takes its length from what the ring holds.   *)
LEMMA UsedAfterRead ==
    ASSUME in \in 0 .. Modulus - 1, out \in 0 .. Modulus - 1,
           NEW n \in Nat, n <= Used,
           in' = in, out' = U32(out + n)
    PROVE  Used' = Used - n
BY SizeAssumption DEF Used, U32

LEMMA FreeIsRoom ==
    ASSUME in \in 0 .. Modulus - 1, out \in 0 .. Modulus - 1, Used <= Capacity
    PROVE  Free = Capacity - Used
BY UsedRange, SizeAssumption DEF Free, U32

-----------------------------------------------------------------------------
(* Two counters whose distance is less than the capacity are in different  *)
(* slots, also when one of them has wrapped around and the other has not.  *)

LEMMA DivMod ==
    ASSUME NEW a \in Nat
    PROVE  /\ a \div Capacity \in Int
           /\ a = Capacity * (a \div Capacity) + Pos(a)
BY SizeAssumption DEF Pos

LEMMA NoMultipleBetween ==
    ASSUME NEW z \in Int
    PROVE  ~(0 < Capacity * z /\ Capacity * z < Capacity)
<1>1. CASE z <= 0
  <2>1. Capacity * z <= 0
    BY <1>1, SizeAssumption
  <2> QED BY <2>1, SizeAssumption
<1>2. CASE z >= 1
  <2>1. Capacity * z >= Capacity
    BY <1>2, SizeAssumption
  <2> QED BY <2>1, SizeAssumption
<1> QED BY <1>1, <1>2

LEMMA SlotsDiffer ==
    ASSUME NEW a \in Nat, NEW b \in Nat, NEW d \in Int, 0 < d, d < Capacity,
           a - b = d \/ a - b = d - Modulus
    PROVE  Pos(a) # Pos(b)
<1> DEFINE qa == a \div Capacity
           qb == b \div Capacity
           m  == Modulus \div Capacity
<1>1. qa \in Int /\ qb \in Int /\ m \in Int
  BY DivMod, SizeAssumption
<1>2. Modulus = Capacity * m
  BY SizeAssumption, DivMod DEF Pos
<1> SUFFICES ASSUME Pos(a) = Pos(b) PROVE FALSE
  OBVIOUS
<1>3. a - b = Capacity * qa - Capacity * qb
  <2>1. a = Capacity * qa + Pos(a) /\ b = Capacity * qb + Pos(b)
    BY DivMod
  <2>2. Capacity * qa \in Int /\ Capacity * qb \in Int /\ Pos(a) \in Int /\ Pos(b) \in Int
    BY <1>1, PosRange, SizeAssumption DEF Slots
  <2> HIDE DEF qa, qb
  <2> QED BY <2>1, <2>2
<1>4. a - b = Capacity * (qa - qb)
  BY <1>1, <1>3, SizeAssumption
<1>5. \E z \in Int : d = Capacity * z
  <2>1. CASE a - b = d
    BY <2>1, <1>1, <1>4
  <2>2. CASE a - b = d - Modulus
    <3>1. d = Capacity * (qa - qb) + Capacity * m
      BY <2>2, <1>2, <1>4, SizeAssumption
    <3>2. d = Capacity * (qa - qb + m)
      BY <3>1, <1>1, SizeAssumption
    <3> QED BY <3>2, <1>1
  <2> QED BY <2>1, <2>2
<1> QED BY <1>5, NoMultipleBetween

(* A window of free slots behind `in' and one of used slots behind `out'   *)
(* have no slot in common.                                                 *)
LEMMA WindowsDisjoint ==
    ASSUME in \in 0 .. Modulus - 1, out \in 0 .. Modulus - 1,
           NEW m \in Nat, NEW n \in Nat, Used + m <= Capacity, n <= Used
    PROVE  SlotsFrom(in, m) \cap SlotsFrom(out, n) = {}
<1> SUFFICES ASSUME NEW i \in 0 .. m - 1, NEW k \in 0 .. n - 1
             PROVE  Pos(in + i) # Pos(out + k)
  BY DEF SlotsFrom
<1>1. in \in Nat /\ out \in Nat /\ Used \in Nat
  BY UsedRange, SizeAssumption
<1>2. 0 < Used + i - k /\ Used + i - k < Capacity
  BY <1>1, SizeAssumption
<1>3. in - out = Used \/ in - out = Used - Modulus
  BY SizeAssumption DEF Used, U32
<1>4. \/ (in + i) - (out + k) = Used + i - k
      \/ (in + i) - (out + k) = (Used + i - k) - Modulus
  BY <1>1, <1>3, SizeAssumption
<1>5. in + i \in Nat /\ out + k \in Nat /\ Used + i - k \in Int
  BY <1>1
<1> QED BY <1>2, <1>4, <1>5, SlotsDiffer

-----------------------------------------------------------------------------
(* The position of a counter, as what is left of it modulo the capacity.   *)

LEMMA PosIs ==
    ASSUME NEW a \in Nat, NEW q \in Int, NEW r \in Slots, a = Capacity * q + r
    PROVE  Pos(a) = r
<1> DEFINE p == a \div Capacity
<1>1. p \in Int /\ a = Capacity * p + Pos(a) /\ Pos(a) \in 0 .. Capacity - 1
  BY DivMod, PosRange DEF Slots
<1>2. Capacity * p \in Int /\ Capacity * q \in Int /\ r \in 0 .. Capacity - 1
  BY <1>1, SizeAssumption DEF Slots
<1>3. Pos(a) - r = Capacity * (q - p) /\ r - Pos(a) = Capacity * (p - q)
  <2>1. Capacity * (q - p) = Capacity * q - Capacity * p
    BY <1>1, SizeAssumption
  <2>2. Capacity * (p - q) = Capacity * p - Capacity * q
    BY <1>1, SizeAssumption
  <2> HIDE DEF p
  <2> QED BY <1>1, <1>2, <2>1, <2>2
<1>4. q - p \in Int /\ p - q \in Int
  BY <1>1
<1>5. ~(0 < Pos(a) - r /\ Pos(a) - r < Capacity) /\ ~(0 < r - Pos(a) /\ r - Pos(a) < Capacity)
  BY <1>3, <1>4, NoMultipleBetween
<1> QED BY <1>1, <1>2, <1>5, SizeAssumption

(* The capacity divides the counters' range.                               *)
LEMMA PosWrap ==
    ASSUME NEW a \in Nat
    PROVE  Pos(a + Modulus) = Pos(a)
<1> DEFINE q == a \div Capacity
           m == Modulus \div Capacity
<1>1. q \in Int /\ a = Capacity * q + Pos(a) /\ Pos(a) \in Slots
  BY DivMod, PosRange
<1>2. m \in Int /\ Modulus = Capacity * m
  BY SizeAssumption, DivMod DEF Pos
<1>3. a + Modulus \in Nat /\ Pos(a) \in Int
  BY <1>1, SizeAssumption DEF Slots
<1>4. a + Modulus = Capacity * (q + m) + Pos(a)
  <2>1. Capacity * (q + m) = Capacity * q + Capacity * m
    BY <1>1, <1>2, SizeAssumption
  <2>2. Capacity * q \in Int /\ Capacity * m \in Int
    BY <1>1, <1>2, SizeAssumption
  <2> HIDE DEF q, m
  <2> QED BY <1>1, <1>2, <1>3, <2>1, <2>2
<1> QED BY <1>1, <1>2, <1>3, <1>4, PosIs

LEMMA PosAdd ==
    ASSUME NEW a \in Nat, NEW j \in 0 .. Capacity
    PROVE  Pos(a + j) = IF Pos(a) + j < Capacity THEN Pos(a) + j ELSE Pos(a) + j - Capacity
<1> DEFINE q == a \div Capacity
<1>1. q \in Int /\ a = Capacity * q + Pos(a) /\ Pos(a) \in 0 .. Capacity - 1
  BY DivMod, PosRange DEF Slots
<1>2. a + j \in Nat /\ Capacity * q \in Int
  BY <1>1, SizeAssumption
<1>5. Capacity * (q + 1) = Capacity * q + Capacity
  BY <1>1, SizeAssumption
<1> HIDE DEF q
<1>3. CASE Pos(a) + j < Capacity
  <2>1. Pos(a) + j \in Slots /\ a + j = Capacity * q + (Pos(a) + j)
    BY <1>1, <1>2, <1>3, SizeAssumption DEF Slots
  <2> QED BY <1>1, <1>2, <1>3, <2>1, PosIs
<1>4. CASE ~(Pos(a) + j < Capacity)
  <2>1. Pos(a) + j - Capacity \in Slots
    BY <1>1, <1>4, SizeAssumption DEF Slots
  <2>2. a + j = Capacity * (q + 1) + (Pos(a) + j - Capacity)
    <3>1. Capacity \in Int /\ Pos(a) \in Int
      BY <1>1, SizeAssumption
    <3>2. \A x \in Int : a = x + Pos(a) => a + j = (x + Capacity) + (Pos(a) + j - Capacity)
      BY <3>1
    <3> QED BY <1>1, <1>2, <1>5, <3>2
  <2>3. q + 1 \in Int
    BY <1>1
  <2> QED BY <1>2, <1>4, <2>1, <2>2, <2>3, PosIs
<1> QED BY <1>3, <1>4

(* A counter that has wrapped is where it would be had it not.             *)
LEMMA PosU32 ==
    ASSUME NEW a \in 0 .. Modulus - 1, NEW n \in 0 .. Modulus - 1, NEW k \in Nat
    PROVE  Pos(U32(a + n) + k) = Pos(a + n + k)
<1>1. U32(a + n) = a + n \/ (a + n >= Modulus /\ U32(a + n) = a + n - Modulus)
  BY SizeAssumption DEF U32
<1>2. CASE U32(a + n) = a + n
  BY <1>2
<1>3. CASE a + n >= Modulus /\ U32(a + n) = a + n - Modulus
  <2>1. a + n - Modulus + k \in Nat /\ (a + n - Modulus + k) + Modulus = a + n + k
    BY <1>3, SizeAssumption
  <2> QED BY <1>3, <2>1, PosWrap
<1> QED BY <1>1, <1>2, <1>3

-----------------------------------------------------------------------------
(* What the two memcpy do, byte by byte.                                   *)

(* A read gets the bytes from `out' on, in their order.                    *)
LEMMA CopyOutIs ==
    ASSUME RingTypeOK, NEW n \in Nat, n <= Capacity
    PROVE  CopyOut(buf, n) = [k \in 1 .. n |-> buf[Pos(out + k - 1)]]
<1> DEFINE pos == Pos(out)
           l == Lesser(n, Capacity - pos)
<1>0. out \in Nat
  BY SizeAssumption DEF RingTypeOK
<1>1. pos \in 0 .. Capacity - 1 /\ out \in Nat
  BY <1>0, PosRange DEF Slots
<1>2. l \in Nat /\ l <= n /\ l <= Capacity - pos /\ (l = n \/ l = Capacity - pos)
  BY <1>1, SizeAssumption DEF Lesser
<1>3. ASSUME NEW k \in 1 .. n
      PROVE  (IF k <= l THEN buf[pos + k - 1] ELSE buf[k - l - 1]) = buf[Pos(out + k - 1)]
  <2>1. k - 1 \in 0 .. Capacity /\ out + k - 1 = out + (k - 1)
    BY <1>1, SizeAssumption
  <2>2. Pos(out + k - 1) = IF pos + (k - 1) < Capacity THEN pos + (k - 1)
                                                       ELSE pos + (k - 1) - Capacity
    BY <1>1, <2>1, PosAdd
  <2>3. Pos(out + k - 1) = IF k <= l THEN pos + k - 1 ELSE k - l - 1
    <3> HIDE DEF pos, l
    <3> QED BY <1>1, <1>2, <2>2, SizeAssumption
  <2> QED BY <2>3
<1> QED BY <1>3 DEF CopyOut

(* A write puts the payload's bytes from `in' on, and no others.           *)
LEMMA CopyInIs ==
    ASSUME RingTypeOK, NEW p \in Seq(Nat), Len(p) <= Capacity
    PROVE  /\ \A k \in 1 .. Len(p) : CopyIn(p)[Pos(in + k - 1)] = p[k]
           /\ \A i \in Slots \ SlotsFrom(in, Len(p)) : CopyIn(p)[i] = buf[i]
<1> DEFINE pos == Pos(in)
           l == Lesser(Len(p), Capacity - pos)
<1>0. in \in Nat
  BY SizeAssumption DEF RingTypeOK
<1>1. pos \in 0 .. Capacity - 1 /\ in \in Nat
  BY <1>0, PosRange DEF Slots
<1>2. /\ l \in Nat /\ l <= Len(p) /\ l <= Capacity - pos /\ Len(p) \in Nat
      /\ l = Len(p) \/ l = Capacity - pos
  BY <1>1, SizeAssumption DEF Lesser
<1>3. \A i \in Slots : CopyIn(p)[i] = IF i < Len(p) - l THEN p[l + i + 1]
                                      ELSE IF pos <= i /\ i < pos + l THEN p[i - pos + 1]
                                      ELSE buf[i]
  BY DEF CopyIn
<1> HIDE DEF l
<1>4. \A j \in 0 .. Len(p) - 1 :
          Pos(in + j) = IF pos + j < Capacity THEN pos + j ELSE pos + j - Capacity
  BY <1>1, <1>2, PosAdd, SizeAssumption
<1> HIDE DEF pos
<1>5. ASSUME NEW k \in 1 .. Len(p)
      PROVE  CopyIn(p)[Pos(in + k - 1)] = p[k]
  <2>1. k - 1 \in 0 .. Len(p) - 1 /\ in + k - 1 = in + (k - 1)
    BY <1>1, <1>2
  <2>2. CASE k <= l
    <3>1. Pos(in + k - 1) = pos + (k - 1)
      <4>1. pos + (k - 1) < Capacity
        BY <1>1, <1>2, <2>2, SizeAssumption
      <4> QED BY <1>4, <2>1, <4>1
    <3>2. pos + (k - 1) \in Slots /\ ~(pos + (k - 1) < Len(p) - l)
      BY <1>1, <1>2, <2>2, SizeAssumption DEF Slots
    <3>3. pos <= pos + (k - 1) /\ pos + (k - 1) < pos + l /\ (pos + (k - 1)) - pos + 1 = k
      BY <1>1, <1>2, <2>2
    <3> QED BY <1>3, <3>1, <3>2, <3>3
  <2>3. CASE ~(k <= l)
    <3>1. Pos(in + k - 1) = k - l - 1
      <4>1. l = Capacity - pos /\ ~(pos + (k - 1) < Capacity)
        BY <1>1, <1>2, <2>3, SizeAssumption
      <4>2. Pos(in + (k - 1)) = pos + (k - 1) - Capacity
        BY <1>4, <2>1, <4>1
      <4>3. pos + (k - 1) - Capacity = k - l - 1
        BY <1>1, <4>1, SizeAssumption
      <4> QED BY <2>1, <4>2, <4>3
    <3>2. k - l - 1 \in Slots /\ k - l - 1 < Len(p) - l /\ l + (k - l - 1) + 1 = k
      BY <1>1, <1>2, <2>3, SizeAssumption DEF Slots
    <3> QED BY <1>3, <3>1, <3>2
  <2> QED BY <2>2, <2>3
<1>6. ASSUME NEW i \in Slots \ SlotsFrom(in, Len(p))
      PROVE  CopyIn(p)[i] = buf[i]
  <2>1. i \in 0 .. Capacity - 1 /\ \A j \in 0 .. Len(p) - 1 : Pos(in + j) # i
    BY DEF Slots, SlotsFrom
  <2>2. ASSUME i < Len(p) - l PROVE FALSE
    <3>1. l + i \in 0 .. Len(p) - 1
      BY <1>2, <2>1, <2>2
    <3>2. Pos(in + (l + i)) = pos + (l + i) - Capacity
      <4>1. ~(pos + (l + i) < Capacity)
        BY <1>1, <1>2, <2>1, <2>2, SizeAssumption
      <4> QED BY <1>4, <3>1, <4>1
    <3>3. pos + (l + i) - Capacity = i
      BY <1>1, <1>2, <2>1, <2>2, SizeAssumption
    <3> QED BY <2>1, <3>1, <3>2, <3>3
  <2>3. ASSUME pos <= i, i < pos + l PROVE FALSE
    <3>1. i - pos \in 0 .. Len(p) - 1
      BY <1>1, <1>2, <2>1, <2>3, SizeAssumption
    <3>2. pos + (i - pos) = i /\ pos + (i - pos) < Capacity
      BY <1>1, <2>1, SizeAssumption
    <3>3. Pos(in + (i - pos)) = i
      BY <1>4, <3>1, <3>2
    <3> QED BY <2>1, <3>1, <3>3
  <2> QED BY <1>3, <2>2, <2>3
<1> QED BY <1>5, <1>6

-----------------------------------------------------------------------------
(* The bytes between the counters, as the sequence a fifo's user sees.     *)

LEMMA ContentsType ==
    ASSUME RingTypeOK
    PROVE  /\ Used \in Nat /\ Contents \in Seq(Nat) /\ Len(Contents) = Used
           /\ \A k \in 1 .. Used : Pos(out + k - 1) \in Slots
<1>1. Used \in Nat
  BY UsedRange, SizeAssumption DEF RingTypeOK
<1>2. ASSUME NEW k \in 1 .. Used
      PROVE  Pos(out + k - 1) \in Slots
  <2>1. out + k - 1 \in Nat
    BY <1>1, SizeAssumption DEF RingTypeOK
  <2> QED BY <2>1, PosRange
<1>3. Contents \in [1 .. Used -> Nat]
  BY <1>2 DEF Contents, RingTypeOK
<1> QED BY <1>1, <1>2, <1>3

(* Joining two sequences, element by element.                              *)
LEMMA Joined ==
    ASSUME NEW s \in Seq(Nat), NEW t \in Seq(Nat)
    PROVE  s \o t = [k \in 1 .. Len(s) + Len(t) |->
                        IF k <= Len(s) THEN s[k] ELSE t[k - Len(s)]]
<1>1. s \o t \in Seq(Nat) /\ Len(s \o t) = Len(s) + Len(t)
  OBVIOUS
<1>2. \A k \in 1 .. Len(s) + Len(t) :
          (s \o t)[k] = IF k <= Len(s) THEN s[k] ELSE t[k - Len(s)]
  OBVIOUS
<1>3. s \o t = [k \in 1 .. Len(s) + Len(t) |-> (s \o t)[k]]
  <2> DEFINE u == s \o t
             n == Len(s) + Len(t)
  <2>1. u \in Seq(Nat) /\ Len(u) = n
    BY <1>1
  <2> HIDE DEF u, n
  <2>2. u = [k \in 1 .. n |-> u[k]]
    BY <2>1
  <2> QED BY <2>2 DEF u, n
<1> QED BY <1>2, <1>3

(* While a write copies, the fifo's bytes stay what they are.              *)
LEMMA ContentsAfterCopy ==
    ASSUME RingTypeOK, NEW p \in Seq(Nat), Used + Len(p) <= Capacity,
           in' = in, out' = out, buf' = CopyIn(p)
    PROVE  /\ \A k \in 1 .. Used : buf'[Pos(out + k - 1)] = buf[Pos(out + k - 1)]
           /\ \A k \in 1 .. Len(p) : buf'[Pos(in + k - 1)] = p[k]
           /\ Contents' = Contents
<1>1. /\ Used \in Nat /\ Len(p) \in Nat /\ Len(p) <= Capacity /\ out \in Nat
      /\ \A k \in 1 .. Used : Pos(out + k - 1) \in Slots
  BY ContentsType, SizeAssumption DEF RingTypeOK
<1>2. ASSUME NEW k \in 1 .. Used
      PROVE  buf'[Pos(out + k - 1)] = buf[Pos(out + k - 1)]
  <2>1. Pos(out + k - 1) \in SlotsFrom(out, Used)
    <3>1. k - 1 \in 0 .. Used - 1 /\ out + k - 1 = out + (k - 1)
      BY <1>1
    <3> QED BY <3>1 DEF SlotsFrom
  <2>2. SlotsFrom(in, Len(p)) \cap SlotsFrom(out, Used) = {}
    BY <1>1, WindowsDisjoint DEF RingTypeOK
  <2> QED BY <1>1, <2>1, <2>2, CopyInIs
<1>3. Used' = Used
  BY DEF Used, U32
<1>4. Contents' = Contents
  BY <1>2, <1>3 DEF Contents
<1> QED BY <1>1, <1>2, <1>4, CopyInIs

(* Moving `in' makes what was copied the last bytes of the fifo.           *)
LEMMA ContentsAfterWrite ==
    ASSUME RingTypeOK, NEW p \in Seq(Nat), Used + Len(p) <= Capacity,
           \A k \in 1 .. Len(p) : buf[Pos(in + k - 1)] = p[k],
           in' = U32(in + Len(p)), out' = out, buf' = buf
    PROVE  Contents' = Contents \o p
<1>1. /\ Used \in Nat /\ Len(p) \in Nat /\ out \in Nat /\ in \in Nat
      /\ Contents \in Seq(Nat) /\ Len(Contents) = Used
  BY ContentsType, SizeAssumption DEF RingTypeOK
<1>2. Used' = Used + Len(p)
  BY <1>1, UsedAfterWrite DEF RingTypeOK
<1>3. ASSUME NEW k \in 1 .. Used + Len(p)
      PROVE  buf[Pos(out + k - 1)] = IF k <= Used THEN Contents[k] ELSE p[k - Used]
  <2>1. CASE k <= Used
    BY <2>1, <1>1 DEF Contents
  <2>2. CASE ~(k <= Used)
    <3>1. k - Used \in 1 .. Len(p) /\ in + (k - Used) - 1 \in Nat
      BY <1>1, <2>2
    <3>2. out + Used = in \/ out + Used = in + Modulus
      BY SizeAssumption DEF Used, U32, RingTypeOK
    <3>3. CASE out + Used = in
      <4>1. out + k - 1 = in + (k - Used) - 1
        BY <1>1, <3>3
      <4> QED BY <2>2, <3>1, <4>1
    <3>4. CASE out + Used = in + Modulus
      <4>1. out + k - 1 = (in + (k - Used) - 1) + Modulus
        BY <1>1, <3>4, SizeAssumption
      <4> QED BY <2>2, <3>1, <4>1, PosWrap
    <3> QED BY <3>2, <3>3, <3>4
  <2> QED BY <2>1, <2>2
<1>4. Contents' = [k \in 1 .. Used + Len(p) |-> buf[Pos(out + k - 1)]]
  BY <1>2 DEF Contents
<1>5. Contents \o p = [k \in 1 .. Len(Contents) + Len(p) |->
                           IF k <= Len(Contents) THEN Contents[k] ELSE p[k - Len(Contents)]]
  BY <1>1, Joined
<1> QED BY <1>1, <1>3, <1>4, <1>5

(* Moving `out' takes off the first bytes, those from `out' on.            *)
LEMMA ContentsAfterRead ==
    ASSUME RingTypeOK, NEW n \in Nat, n <= Used,
           in' = in, out' = U32(out + n), buf' = buf
    PROVE  Contents' = SubSeq(Contents, n + 1, Len(Contents))
<1>0. out \in 0 .. Modulus - 1 /\ Used \in 0 .. Modulus - 1
  BY UsedRange DEF RingTypeOK
<1>1. /\ Used \in Nat /\ Used < Modulus /\ out \in 0 .. Modulus - 1
      /\ Contents \in Seq(Nat) /\ Len(Contents) = Used
  BY <1>0, ContentsType, SizeAssumption
<1>2. Used' = Used - n
  BY UsedAfterRead DEF RingTypeOK
<1>3. ASSUME NEW k \in 1 .. Used - n
      PROVE  buf[Pos(out' + k - 1)] = Contents[k + n]
  <2>1. n \in 0 .. Modulus - 1 /\ k - 1 \in Nat /\ out' + k - 1 = U32(out + n) + (k - 1)
    BY <1>1, U32Range, SizeAssumption
  <2>2. Pos(out' + k - 1) = Pos(out + n + (k - 1))
    BY <1>1, <2>1, PosU32
  <2>3. out + n + (k - 1) = out + (k + n) - 1 /\ k + n \in 1 .. Used
    BY <1>1
  <2> QED BY <2>2, <2>3 DEF Contents
<1>4. Contents' = [k \in 1 .. Used - n |-> Contents[k + n]]
  BY <1>2, <1>3 DEF Contents
<1>5. SubSeq(Contents, n + 1, Used) = [k \in 1 .. Used - n |-> Contents[k + n]]
  <2> DEFINE c == Contents
  <2>1. c \in Seq(Nat) /\ Len(c) = Used
    BY <1>1
  <2> HIDE DEF c
  <2>2. SubSeq(c, n + 1, Used) = [k \in 1 .. Used - n |-> c[k + n]]
    BY <1>1, <2>1
  <2> QED BY <2>2 DEF c
<1> QED BY <1>1, <1>4, <1>5

(* The first bytes of the fifo are what a read copies.                     *)
LEMMA ContentsPrefix ==
    ASSUME RingTypeOK, NEW n \in Nat, n <= Used
    PROVE  SubSeq(Contents, 1, n) = [k \in 1 .. n |-> buf[Pos(out + k - 1)]]
<1>1. Used \in Nat /\ Contents \in Seq(Nat) /\ Len(Contents) = Used
  BY ContentsType
<1>2. \A k \in 1 .. n : Contents[k] = buf[Pos(out + k - 1)]
  BY <1>1 DEF Contents
<1>3. SubSeq(Contents, 1, n) = [k \in 1 .. n |-> Contents[k]]
  <2> DEFINE c == Contents
  <2>1. c \in Seq(Nat) /\ Len(c) = Used
    BY <1>1
  <2> HIDE DEF c
  <2>2. SubSeq(c, 1, n) = [k \in 1 .. n |-> c[k]]
    BY <1>1, <2>1
  <2> QED BY <2>2 DEF c
<1> QED BY <1>2, <1>3
=============================================================================
