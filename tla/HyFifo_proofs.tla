---------------------------- MODULE HyFifo_proofs ----------------------------
(***************************************************************************)
(* For every capacity, counter width and set of calls: the lock-free fifo  *)
(* never overfills and no slot is read while it is written, provided a     *)
(* reset waits for both sides; reordered loads change nothing about that.  *)
(***************************************************************************)
EXTENDS HyFifo, FifoRing_proofs

FifoInv == TypeOK /\ WindowSafe

(* Positions aside, what the counters say of the room does not change      *)
(* while neither moves.                                                    *)
LEMMA UsedFrame ==
    ASSUME in' = in, out' = out
    PROVE  Used' = Used
BY DEF Used, U32

LEMMA InitInv == Init => FifoInv
<1> SUFFICES ASSUME Init PROVE FifoInv
  OBVIOUS
<1>1. TypeOK
  <2>1. <<>> \in Seq(Nat) /\ Len(<<>>) = 0
    OBVIOUS
  <2>2. RingTypeOK
    BY SizeAssumption DEF Init, RingInit, RingTypeOK
  <2>3. arg \in Seq(Nat) /\ Len(arg) < Modulus /\ dst \in Seq(Nat)
    BY <2>1, SizeAssumption DEF Init
  <2>4. want \in 0 .. Modulus - 1 /\ early = NotEarly
    BY SizeAssumption DEF Init
  <2> QED BY <2>2, <2>3, <2>4 DEF Init, TypeOK
<1>2. WindowSafe
  BY SizeAssumption DEF Init, RingInit, WindowSafe, Used, U32
<1> QED BY <1>1, <1>2 DEF FifoInv

(* What a write stores of a payload: a prefix that fits.                   *)
LEMMA WriteTestInv ==
    ASSUME FifoInv, WriteTest
    PROVE  FifoInv'
<1>1. PICK p \in Payloads : /\ Lesser(Len(p), Free) > 0
                            /\ arg' = SubSeq(p, 1, Lesser(Len(p), Free))
  BY DEF WriteTest
<1>2. p \in Seq(Nat) /\ Len(p) \in Nat /\ Len(p) < Modulus
  BY CallAssumption
<1>3. Used \in Nat /\ Free = Capacity - Used
  BY UsedRange, FreeIsRoom, SizeAssumption DEF FifoInv, TypeOK, RingTypeOK, WindowSafe
<1>4. Lesser(Len(p), Free) \in 1 .. Len(p) /\ Lesser(Len(p), Free) <= Capacity - Used
  BY <1>1, <1>2, <1>3, SizeAssumption DEF Lesser
<1>5. arg' \in Seq(Nat) /\ Len(arg') = Lesser(Len(p), Free)
  BY <1>1, <1>2, <1>4
<1>6. TypeOK'
  BY <1>2, <1>4, <1>5, SizeAssumption DEF WriteTest, FifoInv, TypeOK, RingTypeOK, rvars
<1>7. WindowSafe'
  BY <1>3, <1>4, <1>5, UsedFrame, SizeAssumption DEF WriteTest, FifoInv, WindowSafe, rvars
<1> QED BY <1>6, <1>7 DEF FifoInv

LEMMA WriteInv ==
    ASSUME FifoInv, WriteCopy \/ WriteCommit
    PROVE  FifoInv'
<1> USE DEF FifoInv, rvars
<1>1. arg \in Seq(Nat) /\ Len(arg) \in Nat
  BY DEF TypeOK
<1>2. CASE WriteCopy
  <2>1. CopyIn(arg) \in [Slots -> Nat]
    BY <1>1, CopyInType DEF TypeOK
  <2>2. TypeOK'
    BY <1>2, <2>1 DEF WriteCopy, TypeOK, RingTypeOK
  <2>3. WindowSafe'
    BY <1>2, UsedFrame DEF WriteCopy, WindowSafe
  <2> QED BY <2>2, <2>3
<1>3. CASE WriteCommit
  <2>1. in \in 0 .. Modulus - 1 /\ out \in 0 .. Modulus - 1 /\ Used \in Nat
    BY UsedRange, SizeAssumption DEF TypeOK, RingTypeOK
  <2>2. Used + Len(arg) <= Capacity
    BY <1>3 DEF WriteCommit, WindowSafe
  <2>3. Used' = Used + Len(arg)
    BY <1>1, <1>3, <2>1, <2>2, UsedAfterWrite DEF WriteCommit
  <2>4. U32(in + Len(arg)) \in 0 .. Modulus - 1
    BY <1>1, <2>1, <2>2, U32Range, SizeAssumption
  <2>5. <<>> \in Seq(Nat) /\ Len(<<>>) = 0
    OBVIOUS
  <2>6. TypeOK'
    BY <1>3, <2>4, <2>5, SizeAssumption DEF WriteCommit, TypeOK, RingTypeOK
  <2>7. want \in Nat
    BY SizeAssumption DEF TypeOK
  <2>8. WindowSafe'
    BY <1>1, <1>3, <2>1, <2>2, <2>3, <2>7, SizeAssumption DEF WriteCommit, WindowSafe
  <2> QED BY <2>6, <2>8
<1> QED BY <1>2, <1>3

(* A read asks for no more than it saw, and the producer only adds.        *)
LEMMA ReadInv ==
    ASSUME FifoInv, ReadTest \/ ReadCopy \/ ReadCommit \/ ReadReturn
    PROVE  FifoInv'
<1> USE DEF FifoInv, wvars
<1>1. /\ in \in 0 .. Modulus - 1 /\ out \in 0 .. Modulus - 1
      /\ Used \in 0 .. Modulus - 1 /\ Used \in Nat
      /\ want \in 0 .. Modulus - 1 /\ want \in Nat
      /\ Len(arg) \in Nat
  BY UsedRange, SizeAssumption DEF TypeOK, RingTypeOK
<1>2. CASE ReadTest
  <2>1. PICK m \in Lens : want' = Lesser(m, Used)
    BY <1>2 DEF ReadTest
  <2>2. want' \in 0 .. Modulus - 1 /\ want' <= Used
    BY <1>1, <2>1, CallAssumption, SizeAssumption DEF Lesser
  <2>3. TypeOK'
    BY <1>2, <2>2 DEF ReadTest, TypeOK, RingTypeOK
  <2>4. WindowSafe'
    BY <1>2, <2>2, UsedFrame DEF ReadTest, WindowSafe
  <2> QED BY <2>3, <2>4
<1>3. CASE ReadCopy
  <2>1. want <= Capacity
    BY <1>1, <1>3, SizeAssumption DEF ReadCopy, WindowSafe
  <2>2. (IF early = NotEarly THEN buf ELSE early) \in [Slots -> Nat]
    BY DEF TypeOK, RingTypeOK
  <2>3. dst' \in Seq(Nat)
    BY <1>1, <1>3, <2>1, <2>2, CopyOutType DEF ReadCopy, TypeOK
  <2>4. TypeOK'
    BY <1>3, <2>3 DEF ReadCopy, TypeOK, RingTypeOK
  <2>5. WindowSafe'
    BY <1>3, UsedFrame DEF ReadCopy, WindowSafe
  <2> QED BY <2>4, <2>5
<1>4. CASE ReadCommit
  <2>1. want <= Used
    BY <1>4 DEF ReadCommit, WindowSafe
  <2>2. Used' = Used - want
    BY <1>1, <1>4, <2>1, UsedAfterRead DEF ReadCommit
  <2>3. U32(out + want) \in 0 .. Modulus - 1
    BY <1>1, U32Range, SizeAssumption
  <2>4. TypeOK'
    BY <1>4, <2>3 DEF ReadCommit, TypeOK, RingTypeOK
  <2>5. WindowSafe'
    BY <1>1, <1>4, <2>1, <2>2, SizeAssumption DEF ReadCommit, WindowSafe
  <2> QED BY <2>4, <2>5
<1>5. CASE ReadReturn
  <2>1. <<>> \in Seq(Nat) /\ 0 \in 0 .. Modulus - 1
    BY SizeAssumption
  <2>2. TypeOK'
    BY <1>5, <2>1 DEF ReadReturn, TypeOK, RingTypeOK
  <2>3. WindowSafe'
    BY <1>5, UsedFrame DEF ReadReturn, WindowSafe
  <2> QED BY <2>2, <2>3
<1> QED BY <1>2, <1>3, <1>4, <1>5

LEMMA ResetInv ==
    ASSUME ~ResetAnytime, FifoInv, Reset
    PROVE  FifoInv'
<1>1. wpc' = "idle" /\ rpc' = "idle"
  BY DEF Reset, wvars
<1>2. Used' = 0
  BY SizeAssumption DEF Reset, RingReset, Used, U32
<1>3. TypeOK'
  BY SizeAssumption DEF Reset, RingReset, FifoInv, TypeOK, RingTypeOK, wvars, NotEarly
<1>4. WindowSafe'
  BY <1>1, <1>2, SizeAssumption DEF WindowSafe
<1> QED BY <1>3, <1>4 DEF FifoInv

LEMMA DestroyInv ==
    ASSUME FifoInv, DestroyBegin \/ DestroyFree \/ UNCHANGED vars
    PROVE  FifoInv'
<1>1. TypeOK'
  BY DEF DestroyBegin, DestroyFree, vars, wvars, rvars, FifoInv, TypeOK, RingTypeOK
<1>2. WindowSafe'
  BY UsedFrame DEF DestroyBegin, DestroyFree, vars, wvars, rvars, FifoInv, WindowSafe
<1> QED BY <1>1, <1>2 DEF FifoInv

-----------------------------------------------------------------------------
(* Without any lock the fifo never overfills, and what either side found   *)
(* when it looked at the counters holds until it moves its own.            *)
THEOREM FifoSafe ==
    ASSUME ~ResetAnytime
    PROVE  Spec => [](TypeOK /\ WindowSafe)
<1>1. Init => FifoInv
  BY InitInv
<1>2. FifoInv /\ [Next]_vars => FifoInv'
  BY WriteTestInv, WriteInv, ReadInv, ResetInv, DestroyInv DEF Next
<1>3. FifoInv => TypeOK /\ WindowSafe
  BY DEF FifoInv
<1> QED BY <1>1, <1>2, <1>3, PTL DEF Spec

(* Hence no byte is read out while it is written, without any lock and     *)
(* across the ends of the ring and of the counters.                        *)
THEOREM CopiesNeverOverlap ==
    ASSUME ~ResetAnytime
    PROVE  Spec => []CopiesDisjoint
<1>1. TypeOK /\ WindowSafe => CopiesDisjoint
  <2> SUFFICES ASSUME TypeOK, WindowSafe,
                      wpc \in {"copy", "commit"}, rpc \in {"copy", "commit"}
               PROVE  SlotsFrom(in, Len(arg)) \cap SlotsFrom(out, want) = {}
    BY DEF CopiesDisjoint
  <2>1. Len(arg) \in Nat /\ want \in Nat
    BY SizeAssumption DEF TypeOK
  <2>2. Used + Len(arg) <= Capacity /\ want <= Used
    BY DEF WindowSafe
  <2> QED BY <2>1, <2>2, WindowsDisjoint DEF TypeOK, RingTypeOK
<1> QED BY <1>1, FifoSafe, PTL

-----------------------------------------------------------------------------
(* The bytes, where loads are served in their order: what a call has       *)
(* copied is what lies in the ring when it moves its counter.              *)

(* What HyFifoWrite may store of the payloads.                             *)
Stored == UNION {{SubSeq(p, 1, n) : n \in 1 .. Len(p)} : p \in Payloads}

BytesInv ==
    /\ early = NotEarly
    /\ wpc \in {"copy", "commit"} => arg \in Stored
    /\ wpc = "commit" => \A k \in 1 .. Len(arg) : buf[Pos(in + k - 1)] = arg[k]
    /\ rpc \in {"copy", "commit"} => want >= 1
    /\ rpc = "copy" => op # "del"
    /\ rpc = "commit" => op # "peek"
    /\ rpc = "commit" /\ op = "read" => dst = [k \in 1 .. want |-> buf[Pos(out + k - 1)]]

(* One lemma per step of the producer, of the consumer and of the owner.   *)
LEMMA BytesInit == Init => BytesInv
BY DEF Init, BytesInv

LEMMA BytesWrite ==
    ASSUME FifoInv, BytesInv, WriteTest \/ WriteCopy \/ WriteCommit
    PROVE  BytesInv'
<1> USE DEF rvars
<1>1. CASE WriteTest
  <2>1. PICK p \in Payloads : /\ Lesser(Len(p), Free) > 0
                              /\ arg' = SubSeq(p, 1, Lesser(Len(p), Free))
    BY <1>1 DEF WriteTest
  <2>2. Lesser(Len(p), Free) \in 1 .. Len(p)
    <3>1. Len(p) \in Nat /\ Free \in Int
      BY CallAssumption, UsedRange, FreeIsRoom, SizeAssumption
         DEF FifoInv, TypeOK, RingTypeOK, WindowSafe
    <3> QED BY <2>1, <3>1 DEF Lesser
  <2>3. arg' \in Stored
    BY <2>1, <2>2 DEF Stored
  <2> QED BY <1>1, <2>3 DEF WriteTest, BytesInv
<1>2. CASE WriteCopy
  <2>1. arg \in Seq(Nat) /\ Used + Len(arg) <= Capacity
    BY <1>2 DEF WriteCopy, FifoInv, TypeOK, WindowSafe
  <2>2. /\ \A k \in 1 .. Used : buf'[Pos(out + k - 1)] = buf[Pos(out + k - 1)]
        /\ \A k \in 1 .. Len(arg) : buf'[Pos(in + k - 1)] = arg[k]
    BY <1>2, <2>1, ContentsAfterCopy DEF WriteCopy, FifoInv, TypeOK
  <2>3. ASSUME rpc = "commit", op = "read"
        PROVE  dst = [k \in 1 .. want |-> buf'[Pos(out + k - 1)]]
    <3>1. want \in Nat /\ Used \in Nat /\ want <= Used
      BY <2>3, ContentsType, SizeAssumption DEF FifoInv, TypeOK, WindowSafe
    <3> QED BY <2>2, <2>3, <3>1 DEF BytesInv
  <2> QED BY <1>2, <2>2, <2>3 DEF WriteCopy, BytesInv
<1>3. CASE WriteCommit
  BY <1>3 DEF WriteCommit, BytesInv
<1> QED BY <1>1, <1>2, <1>3

LEMMA BytesRead ==
    ASSUME ~LoadsReordered, FifoInv, BytesInv, ReadTest \/ ReadCopy \/ ReadCommit \/ ReadReturn
    PROVE  BytesInv'
<1> USE DEF wvars
<1>1. CASE ReadTest
  <2>1. PICK m \in Lens : want' = Lesser(m, Used) /\ Lesser(m, Used) > 0
    BY <1>1 DEF ReadTest
  <2>2. want' >= 1
    BY <2>1, CallAssumption, ContentsType, SizeAssumption DEF Lesser, FifoInv, TypeOK
  <2> QED BY <1>1, <2>2 DEF ReadTest, BytesInv
<1>2. CASE ReadCopy
  <2>1. want \in Nat /\ want <= Capacity
    BY <1>2, ContentsType, SizeAssumption DEF ReadCopy, FifoInv, TypeOK, WindowSafe
  <2>2. dst' = [k \in 1 .. want |-> buf[Pos(out + k - 1)]]
    BY <1>2, <2>1, CopyOutIs DEF ReadCopy, FifoInv, TypeOK, BytesInv
  <2> QED BY <1>2, <2>2 DEF ReadCopy, BytesInv
<1>3. CASE ReadCommit
  BY <1>3 DEF ReadCommit, BytesInv
<1>4. CASE ReadReturn
  BY <1>4 DEF ReadReturn, BytesInv
<1> QED BY <1>1, <1>2, <1>3, <1>4

LEMMA BytesOther ==
    ASSUME ~ResetAnytime, BytesInv, Reset \/ DestroyBegin \/ DestroyFree \/ UNCHANGED vars
    PROVE  BytesInv'
BY DEF Reset, RingReset, DestroyBegin, DestroyFree, vars, wvars, rvars, BytesInv

LEMMA BytesSafe ==
    ASSUME ~ResetAnytime, ~LoadsReordered
    PROVE  Spec => [](FifoInv /\ BytesInv)
<1>1. Init => BytesInv
  BY BytesInit
<1>2. FifoInv /\ BytesInv /\ [Next]_vars => BytesInv'
  BY BytesWrite, BytesRead, BytesOther DEF Next
<1>3. Spec => []FifoInv
  BY FifoSafe DEF FifoInv
<1> QED BY <1>1, <1>2, <1>3, PTL DEF Spec

(* What the consumer gives back to the producer it has delivered, byte for *)
(* byte: the header's promise of HyFifoRead holds wherever loads are not   *)
(* reordered (where they are, a run refutes it).                           *)
THEOREM DeliversWhatItRemoves ==
    ASSUME ~ResetAnytime, ~LoadsReordered
    PROVE  Spec => []ReadsWhatItRemoves
<1>1. BytesInv => ReadsWhatItRemoves
  BY DEF BytesInv, ReadsWhatItRemoves
<1> QED BY <1>1, BytesSafe, PTL

-----------------------------------------------------------------------------
(* The refinement: until Destroy begins each step of either side is a step *)
(* of the bounded fifo, or none.                                           *)

(* What HyFifo shows of itself as a fifo.                                  *)
Shown == IF ~isExit /\ rpc = "return" /\ op # "del" THEN dst ELSE <<>>

LEMMA FifoVars ==
    /\ Fifo!vars = <<IF isExit THEN <<>> ELSE Contents, [r \in {"consumer"} |-> Shown], isExit>>
BY DEF Fifo!vars, Shown

(* A step that changes nothing a user could see.                           *)
LEMMA RefineStutter ==
    ASSUME isExit' = isExit, isExit \/ (Contents' = Contents /\ Shown' = Shown)
    PROVE  UNCHANGED Fifo!vars
<1>1. Shown' = Shown
  BY DEF Shown
<1> QED BY <1>1, FifoVars DEF Shown, Fifo!vars

LEMMA RefineWrite ==
    ASSUME FifoInv, BytesInv, ~isExit, WriteTest \/ WriteCopy \/ WriteCommit
    PROVE  [Fifo!Next]_Fifo!vars
<1>1. isExit' = isExit /\ Shown' = Shown
  BY DEF WriteTest, WriteCopy, WriteCommit, rvars, Shown
<1>2. RingTypeOK /\ arg \in Seq(Nat)
  BY DEF FifoInv, TypeOK
<1>3. CASE WriteTest
  <2>1. Contents' = Contents
    BY <1>3 DEF WriteTest, Contents, Used, U32
  <2> QED BY <1>1, <2>1, RefineStutter
<1>4. CASE WriteCopy
  <2>1. Contents' = Contents
    BY <1>2, <1>4, ContentsAfterCopy DEF WriteCopy, FifoInv, WindowSafe
  <2> QED BY <1>1, <2>1, RefineStutter
<1>5. CASE WriteCommit
  <2>1. Used + Len(arg) <= Capacity /\ arg \in Stored
    BY <1>5 DEF WriteCommit, FifoInv, WindowSafe, BytesInv
  <2>2. Contents' = Contents \o arg
    BY <1>2, <1>5, <2>1, ContentsAfterWrite DEF WriteCommit, BytesInv
  <2>3. Len(Contents) = Used
    BY <1>2, ContentsType
  <2>4. Fifo!Put(arg)
    BY <1>1, <2>1, <2>2, <2>3 DEF Fifo!Put, Shown
  <2> QED BY <2>1, <2>4 DEF Fifo!Next, Stored
<1> QED BY <1>3, <1>4, <1>5

LEMMA RefineRead ==
    ASSUME FifoInv, BytesInv, ~isExit, ReadTest \/ ReadCopy \/ ReadCommit \/ ReadReturn
    PROVE  [Fifo!Next]_Fifo!vars
<1> USE DEF wvars
<1>1. isExit' = isExit
  BY DEF ReadTest, ReadCopy, ReadCommit, ReadReturn
<1>2. /\ RingTypeOK /\ want \in Nat /\ Used \in Nat /\ Used <= Capacity
      /\ Contents \in Seq(Nat) /\ Len(Contents) = Used
  BY ContentsType, SizeAssumption DEF FifoInv, TypeOK, WindowSafe
<1>3. ~ReadCommit => Contents' = Contents
  BY DEF ReadTest, ReadCopy, ReadReturn, Contents, Used, U32
<1>4. rpc \in {"copy", "commit"} => /\ want \in 1 .. Capacity /\ want <= Used
                                   /\ want <= Len(Contents)
  BY <1>2, SizeAssumption DEF FifoInv, WindowSafe, BytesInv
<1>5. CASE ReadTest
  <2>1. Shown' = Shown /\ ~ReadCommit
    BY <1>1, <1>5 DEF ReadTest, ReadCommit, Shown
  <2> QED BY <1>1, <1>3, <2>1, RefineStutter
<1>6. CASE ReadCopy
  <2>1. ~ReadCommit /\ rpc = "copy" /\ op # "del" /\ op' = op
    BY <1>6 DEF ReadCopy, ReadCommit, BytesInv
  <2>2. CASE op # "peek"
    BY <1>1, <1>3, <1>6, <2>1, <2>2, RefineStutter DEF ReadCopy, Shown
  <2>3. CASE op = "peek"
    <3>1. Shown' = CopyOut(buf, want)
      BY <1>1, <1>6, <2>1, <2>3 DEF ReadCopy, Shown, BytesInv
    <3>2. Fifo!Prefix(Contents, want) = CopyOut(buf, want)
      <4>1. want <= Used /\ want <= Capacity
        BY <1>2, <1>4, <2>1
      <4> QED BY <1>2, <4>1, CopyOutIs, ContentsPrefix DEF Fifo!Prefix
    <3>3. Fifo!Peek("consumer", want)
      BY <1>1, <1>3, <1>4, <2>1, <3>1, <3>2 DEF Fifo!Peek, Shown
    <3> QED BY <1>4, <2>1, <3>3 DEF Fifo!Next
  <2> QED BY <2>2, <2>3
<1>7. CASE ReadCommit
  <2>1. rpc = "commit" /\ rpc' = "return" /\ op' = op /\ dst' = dst /\ op \in {"read", "del"}
    BY <1>7 DEF ReadCommit, BytesInv, FifoInv, TypeOK
  <2>2. Contents' = Fifo!Rest(Contents, want)
    BY <1>2, <1>4, <1>7, <2>1, ContentsAfterRead DEF ReadCommit, Fifo!Rest
  <2>3. CASE op = "del"
    <3>1. Shown' = Shown
      BY <2>1, <2>3 DEF Shown
    <3>2. Fifo!Drop(want)
      BY <1>1, <1>4, <2>1, <2>2, <3>1 DEF Fifo!Drop, Shown
    <3> QED BY <1>4, <2>1, <3>2 DEF Fifo!Next
  <2>4. CASE op = "read"
    <3>1. Shown' = dst
      BY <1>1, <2>1, <2>4 DEF Shown
    <3>2. Fifo!Prefix(Contents, want) = dst
      BY <1>2, <1>4, <2>1, <2>4, ContentsPrefix DEF Fifo!Prefix, BytesInv
    <3>3. Fifo!Get("consumer", want)
      BY <1>1, <1>4, <2>1, <2>2, <3>1, <3>2 DEF Fifo!Get, Shown
    <3> QED BY <1>4, <2>1, <3>3 DEF Fifo!Next
  <2> QED BY <2>1, <2>3, <2>4
<1>8. CASE ReadReturn
  <2>1. Shown' = <<>> /\ ~ReadCommit
    BY <1>8 DEF ReadReturn, ReadCommit, Shown
  <2>2. Fifo!Return("consumer")
    BY <1>1, <1>3, <2>1 DEF Fifo!Return, Shown
  <2> QED BY <2>2 DEF Fifo!Next
<1> QED BY <1>5, <1>6, <1>7, <1>8

LEMMA RefineOwner ==
    ASSUME ~ResetAnytime, ~isExit, Reset \/ DestroyBegin \/ DestroyFree
    PROVE  [Fifo!Next]_Fifo!vars
<1>1. CASE Reset
  <2>1. Used' = 0
    BY <1>1, SizeAssumption DEF Reset, RingReset, Used, U32
  <2>2. Contents' = <<>>
    BY <2>1 DEF Contents
  <2>3. isExit' = isExit /\ Shown' = Shown
    BY <1>1 DEF Reset, Shown, wvars
  <2>4. Fifo!Clear
    BY <2>2, <2>3 DEF Fifo!Clear, Shown
  <2> QED BY <2>4 DEF Fifo!Next
<1>2. CASE DestroyBegin
  <2>1. isExit'
    BY <1>2 DEF DestroyBegin
  <2>2. Shown' = <<>>
    BY <2>1 DEF Shown
  <2>3. Fifo!Close
    BY <2>1, <2>2, <1>2 DEF Fifo!Close, Shown, DestroyBegin
  <2> QED BY <2>3 DEF Fifo!Next
<1>3. CASE DestroyFree
  BY <1>3 DEF DestroyFree
<1> QED BY <1>1, <1>2, <1>3

(* The lock-free ring, its wrap-arounds and its interleaved copies are a   *)
(* bounded fifo to both its sides, for every capacity and set of calls.    *)
THEOREM RingImplementsFifo ==
    ASSUME ~ResetAnytime, ~LoadsReordered
    PROVE  Spec => ImplementsFifo
<1>1. Init => Fifo!Init
  <2> SUFFICES ASSUME Init PROVE Fifo!Init
    OBVIOUS
  <2>1. Used = 0 /\ ~isExit /\ Shown = <<>>
    BY SizeAssumption DEF Init, RingInit, Used, U32, Shown
  <2>2. Contents = <<>>
    BY <2>1 DEF Contents
  <2> QED BY <2>1, <2>2 DEF Fifo!Init, Shown, Init
<1>2. FifoInv /\ BytesInv /\ [Next]_vars => [Fifo!Next]_Fifo!vars
  <2> SUFFICES ASSUME FifoInv, BytesInv, [Next]_vars PROVE [Fifo!Next]_Fifo!vars
    OBVIOUS
  <2>1. CASE isExit
    <3>1. isExit' = isExit
      BY <2>1 DEF Next, vars, WriteTest, WriteCopy, WriteCommit, ReadTest, ReadCopy, ReadCommit,
         ReadReturn, Reset, DestroyBegin, DestroyFree
    <3> QED BY <2>1, <3>1, RefineStutter
  <2>2. CASE ~isExit /\ UNCHANGED vars
    <3>1. Contents' = Contents /\ Shown' = Shown /\ isExit' = isExit
      BY <2>2 DEF vars, wvars, rvars, Contents, Used, U32, Shown
    <3> QED BY <3>1, RefineStutter
  <2>3. CASE ~isExit /\ Next
    BY <2>3, RefineWrite, RefineRead, RefineOwner DEF Next
  <2> QED BY <2>1, <2>2, <2>3
<1> QED BY <1>1, <1>2, BytesSafe, PTL DEF Spec, ImplementsFifo, Fifo!Spec
=============================================================================
