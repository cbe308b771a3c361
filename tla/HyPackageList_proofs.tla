------------------------ MODULE HyPackageList_proofs ------------------------
(***************************************************************************)
(* For any number of users and nodes: nobody sleeps for a node that is     *)
(* there without a wake-up on its way, and the count is the list's length, *)
(* so that nobody is given a node that is none.                            *)
(***************************************************************************)
EXTENDS HyPackageList, FiniteSetTheorems, TLAPS

(* Who waits on the condition variable is in HeadGet.                      *)
WaitersWait == \A u \in waiting : pc[u] = "wait"

WakeInv == TypeOK /\ WaitersWait /\ WakeUpsReach

-----------------------------------------------------------------------------
LEMMA InitType == Init => TypeOK /\ WaitersWait
<1> SUFFICES ASSUME Init PROVE TypeOK /\ WaitersWait
  OBVIOUS
<1>1. list \in Seq(Nodes)
  <2>1. PICK created \in SUBSET Nodes : list \in SetToSeqs(created)
    BY DEF Init
  <2>2. list \in [1 .. Cardinality(created) -> created]
    BY <2>1 DEF SetToSeqs
  <2>3. Cardinality(created) \in Nat
    BY NodesAssumption, FS_Subset, FS_CardinalityType
  <2> QED BY <2>2, <2>3
<1>2. num \in Nat
  BY NodesAssumption, FS_CardinalityType DEF Init
<1>3. waiting = {}
  BY DEF Init
<1> QED BY <1>1, <1>2, <1>3 DEF Init, TypeOK, WaitersWait

(* Taking the head, or waiting for one.                                    *)
LEMMA TakeType ==
    ASSUME TypeOK, WaitersWait, NEW u \in Users, pc[u] \in {"get", "wait"},
           u \notin waiting, TakeHead(u) \/ Wait(u),
           UNCHANGED <<isExit, freed, destroyed, arg, dpc>>
    PROVE  TypeOK' /\ WaitersWait'
<1>1. CASE TakeHead(u)
  <2>1. list' \in Seq(Nodes) /\ used' \subseteq Nodes
    <3>1. CASE list = <<>>
      BY <1>1, <3>1 DEF TakeHead, TypeOK
    <3>2. CASE list # <<>>
      <4>1. Head(list) \in Nodes /\ Tail(list) \in Seq(Nodes)
        BY <3>2 DEF TypeOK
      <4> QED BY <1>1, <3>2, <4>1 DEF TakeHead, TypeOK
    <3> QED BY <3>1, <3>2
  <2>2. num' \in Nat
    BY <1>1 DEF TakeHead, TypeOK
  <2>3. waiting' = waiting
    BY <1>1 DEF TakeHead
  <2>4. /\ pc' \in [Users -> {"idle", "get", "wait", "put", "signal", "lost"}]
        /\ \A v \in Users : pc'[v] = "put" => pc[v] = "put"
        /\ \A v \in Users : v # u => pc'[v] = pc[v]
    BY <1>1 DEF TakeHead, Goto, TypeOK
  <2> QED BY <2>1, <2>2, <2>3, <2>4 DEF TypeOK, WaitersWait
<1>2. CASE Wait(u)
  BY <1>2 DEF Wait, Goto, TypeOK, WaitersWait
<1> QED BY <1>1, <1>2

LEMMA UserType ==
    ASSUME TypeOK, WaitersWait, NEW u \in Users,
           GetCall(u) \/ PutCall(u) \/ UserStep(u) \/ SpuriousWake(u)
    PROVE  TypeOK' /\ WaitersWait'
<1>1. CASE GetCall(u)
  BY <1>1 DEF GetCall, At, Goto, TypeOK, WaitersWait
<1>2. CASE PutCall(u)
  BY <1>2, NodesAssumption DEF PutCall, At, Goto, TypeOK, WaitersWait
<1>3. CASE GetEnter(u)
  BY <1>3, TakeType DEF GetEnter, At, WaitersWait
<1>4. CASE GetWoken(u)
  <2>1. CASE isExit
    BY <1>4, <2>1 DEF GetWoken, At, Goto, TypeOK, WaitersWait
  <2>2. CASE ~isExit
    BY <1>4, <2>2, TakeType DEF GetWoken, At
  <2> QED BY <2>1, <2>2
<1>5. CASE PutEnter(u)
  <2>1. arg[u] \in Nodes
    BY <1>5 DEF PutEnter, At, TypeOK
  <2>2. list' \in Seq(Nodes) /\ num' \in Nat
    BY <1>5, <2>1 DEF PutEnter, TypeOK
  <2> QED BY <1>5, <2>2 DEF PutEnter, At, Goto, TypeOK, WaitersWait
<1>6. CASE PutSignal(u)
  BY <1>6 DEF PutSignal, At, Goto, TypeOK, WaitersWait
<1>7. CASE SpuriousWake(u)
  BY <1>7 DEF SpuriousWake, calls, TypeOK, WaitersWait
<1> QED BY <1>1, <1>2, <1>3, <1>4, <1>5, <1>6, <1>7 DEF UserStep

LEMMA DestroyType ==
    ASSUME TypeOK, WaitersWait, DestroyBegin \/ DestroyStep \/ UNCHANGED vars
    PROVE  TypeOK' /\ WaitersWait'
<1>1. CASE DestroyBegin
  BY <1>1 DEF DestroyBegin, calls, TypeOK, WaitersWait
<1>2. CASE DestroyBroadcast
  BY <1>2 DEF DestroyBroadcast, calls, TypeOK, WaitersWait
<1>3. CASE DestroyNodes
  <2>1. ToSet(list) \subseteq Nodes /\ <<>> \in Seq(Nodes)
    BY DEF TypeOK, ToSet
  <2> QED BY <1>3, <2>1 DEF DestroyNodes, calls, TypeOK, WaitersWait
<1>4. CASE DestroyFree
  BY <1>4 DEF DestroyFree, calls, TypeOK, WaitersWait
<1>5. CASE UNCHANGED vars
  BY <1>5 DEF vars, calls, TypeOK, WaitersWait
<1> QED BY <1>1, <1>2, <1>3, <1>4, <1>5 DEF DestroyStep

-----------------------------------------------------------------------------
(* Counting the wake-ups under way.                                        *)

LEMMA OnTheirWayFinite ==
    /\ IsFiniteSet(OnTheirWay)
    /\ Cardinality(OnTheirWay) \in Nat
<1>1. OnTheirWay \in SUBSET Users
  BY DEF OnTheirWay
<1> QED BY <1>1, NodesAssumption, FS_Subset, FS_CardinalityType

(* One more, one less, or one for another.                                 *)
LEMMA OneMore ==
    ASSUME NEW u \in Users \ OnTheirWay, OnTheirWay' = OnTheirWay \cup {u}
    PROVE  Cardinality(OnTheirWay') = Cardinality(OnTheirWay) + 1
BY OnTheirWayFinite, FS_AddElement

LEMMA OneLess ==
    ASSUME NEW u \in OnTheirWay, OnTheirWay' = OnTheirWay \ {u}
    PROVE  Cardinality(OnTheirWay') = Cardinality(OnTheirWay) - 1
BY OnTheirWayFinite, FS_RemoveElement

LEMMA OneForAnother ==
    ASSUME NEW u \in OnTheirWay, NEW v \in Users \ OnTheirWay,
           OnTheirWay' = (OnTheirWay \ {u}) \cup {v}
    PROVE  Cardinality(OnTheirWay') = Cardinality(OnTheirWay)
<1>1. /\ IsFiniteSet(OnTheirWay \ {u})
      /\ Cardinality(OnTheirWay \ {u}) = Cardinality(OnTheirWay) - 1
  BY OnTheirWayFinite, FS_RemoveElement
<1>2. Cardinality((OnTheirWay \ {u}) \cup {v}) = Cardinality(OnTheirWay \ {u}) + 1
  BY <1>1, FS_AddElement
<1> QED BY <1>1, <1>2, OnTheirWayFinite

LEMMA UserWakes ==
    ASSUME WakeInv, NEW u \in Users,
           GetCall(u) \/ PutCall(u) \/ UserStep(u) \/ SpuriousWake(u)
    PROVE  WakeUpsReach'
<1> SUFFICES ASSUME ~isExit', waiting' # {}
             PROVE  num' <= Cardinality(OnTheirWay')
  BY DEF WakeUpsReach
<1> USE DEF WakeInv
<1>0. ~isExit /\ (waiting # {} => num <= Cardinality(OnTheirWay))
  BY DEF GetCall, PutCall, UserStep, SpuriousWake, GetEnter, GetWoken, PutEnter, PutSignal,
     WakeUpsReach
<1>1. CASE GetCall(u) \/ PutCall(u)
  <2>1. OnTheirWay' = OnTheirWay /\ num' = num /\ waiting' = waiting
    BY <1>1 DEF GetCall, PutCall, At, Goto, TypeOK, WaitersWait, OnTheirWay
  <2> QED BY <1>0, <2>1
<1>2. CASE Wait(u)
  <2>1. num' = 0 /\ Cardinality(OnTheirWay)' \in Nat
    <3>1. OnTheirWay' \in SUBSET Users
      BY DEF OnTheirWay
    <3> QED BY <1>2, <3>1, NodesAssumption, FS_Subset, FS_CardinalityType DEF Wait
  <2> QED BY <2>1
<1>3. CASE GetEnter(u) /\ TakeHead(u)
  <2>1. OnTheirWay' = OnTheirWay /\ num' = num - 1 /\ waiting' = waiting
    BY <1>3 DEF GetEnter, TakeHead, At, Goto, TypeOK, WaitersWait, OnTheirWay
  <2> QED BY <1>0, <2>1, OnTheirWayFinite DEF TypeOK
<1>4. CASE GetWoken(u) /\ TakeHead(u)
  <2>1. u \in OnTheirWay
    BY <1>4 DEF GetWoken, At, OnTheirWay
  <2>2. OnTheirWay' = OnTheirWay \ {u} /\ num' = num - 1 /\ waiting' = waiting
    BY <1>4 DEF GetWoken, TakeHead, At, Goto, TypeOK, WaitersWait, OnTheirWay
  <2>3. Cardinality(OnTheirWay') = Cardinality(OnTheirWay) - 1
    BY <2>1, <2>2, OneLess
  <2>4. num \in Nat /\ Cardinality(OnTheirWay) \in Nat
    BY OnTheirWayFinite DEF TypeOK
  <2> QED BY <1>0, <2>2, <2>3, <2>4
<1>5. CASE PutEnter(u)
  <2>1. u \in Users \ OnTheirWay
    BY <1>5 DEF PutEnter, At, OnTheirWay
  <2>2. OnTheirWay' = OnTheirWay \cup {u} /\ num' = num + 1 /\ waiting' = waiting
    BY <1>5 DEF PutEnter, At, Goto, TypeOK, WaitersWait, OnTheirWay
  <2>3. Cardinality(OnTheirWay') = Cardinality(OnTheirWay) + 1
    BY <2>1, <2>2, OneMore
  <2>4. num \in Nat /\ Cardinality(OnTheirWay) \in Nat
    BY OnTheirWayFinite DEF TypeOK
  <2> QED BY <1>0, <2>2, <2>3, <2>4
<1>6. CASE PutSignal(u)
  <2>1. PICK v \in waiting : waiting' = waiting \ {v}
    BY <1>6 DEF PutSignal
  <2>2. u \in OnTheirWay /\ v \in Users \ OnTheirWay /\ v # u
    BY <1>6 DEF PutSignal, At, TypeOK, WaitersWait, OnTheirWay
  <2>3. OnTheirWay' = (OnTheirWay \ {u}) \cup {v} /\ num' = num
    BY <1>6, <2>1, <2>2 DEF PutSignal, At, Goto, TypeOK, WaitersWait, OnTheirWay
  <2> QED BY <1>0, <2>1, <2>2, <2>3, OneForAnother
<1>7. CASE SpuriousWake(u)
  <2>1. u \in Users \ OnTheirWay
    BY <1>7 DEF SpuriousWake, TypeOK, WaitersWait, OnTheirWay
  <2>2. OnTheirWay' = OnTheirWay \cup {u} /\ num' = num /\ waiting # {}
    BY <1>7 DEF SpuriousWake, calls, TypeOK, WaitersWait, OnTheirWay
  <2>3. Cardinality(OnTheirWay') = Cardinality(OnTheirWay) + 1
    BY <2>1, <2>2, OneMore
  <2>4. num \in Nat /\ Cardinality(OnTheirWay) \in Nat
    BY OnTheirWayFinite DEF TypeOK
  <2> QED BY <1>0, <2>2, <2>3, <2>4
<1> QED BY <1>0, <1>1, <1>2, <1>3, <1>4, <1>5, <1>6, <1>7 DEF UserStep, GetEnter, GetWoken

LEMMA DestroyWakes ==
    ASSUME WakeInv, DestroyBegin \/ DestroyStep \/ UNCHANGED vars
    PROVE  WakeUpsReach'
BY DEF WakeInv, WakeUpsReach, OnTheirWay, DestroyBegin, DestroyStep, DestroyBroadcast,
   DestroyNodes, DestroyFree, vars, calls

-----------------------------------------------------------------------------
(* Nobody sleeps while nodes are there, other than for a moment: for each  *)
(* node in the list a signal is still to come or a woken user to look.     *)
THEOREM NobodyOverslept == Spec => [](TypeOK /\ WakeUpsReach)
<1>1. Init => WakeInv
  BY InitType DEF WakeInv, WakeUpsReach, Init
<1>2. WakeInv /\ [Next]_vars => WakeInv'
  BY UserType, DestroyType, UserWakes, DestroyWakes DEF WakeInv, Next
<1>3. WakeInv => TypeOK /\ WakeUpsReach
  BY DEF WakeInv
<1> QED BY <1>1, <1>2, <1>3, PTL DEF Spec

-----------------------------------------------------------------------------
(* The count.  Destroy empties the list, and leaves the count, when nobody *)
(* is inside a call any more: that is what its sleeps are for.             *)

InCall == {"get", "put", "signal", "lost"}

Phases ==
    /\ dpc = "idle" <=> ~isExit
    /\ dpc = "sleep2" => waiting = {} /\ \A u \in Users : pc[u] \notin InCall
    /\ dpc \in {"free", "gone"} => \A u \in Users : pc[u] = "idle"

CountInv ==
    /\ TypeOK /\ WaitersWait /\ Phases
    /\ \A u \in Users : pc[u] # "lost"
    /\ dpc \notin {"free", "gone"} => num = Len(list)

LEMMA InitCount ==
    ASSUME ~CreateMayFail, Init
    PROVE  CountInv
<1>1. list \in SetToSeqs(Nodes)
  BY DEF Init
<1>2. Cardinality(Nodes) \in Nat
  BY NodesAssumption, FS_CardinalityType
<1>3. Len(list) = Cardinality(Nodes)
  BY <1>1, <1>2 DEF SetToSeqs
<1> QED BY <1>3, InitType DEF Init, CountInv, Phases, InCall

LEMMA TakeCounts ==
    ASSUME TypeOK, num = Len(list), NEW u \in Users, TakeHead(u)
    PROVE  num' = Len(list') /\ pc' = [pc EXCEPT ![u] = "idle"]
<1>1. list # <<>>
  BY DEF TakeHead, TypeOK
<1>2. Len(Tail(list)) = Len(list) - 1
  BY <1>1 DEF TypeOK
<1> QED BY <1>1, <1>2 DEF TakeHead, Goto

LEMMA UserCount ==
    ASSUME CountInv, NEW u \in Users,
           GetCall(u) \/ PutCall(u) \/ UserStep(u) \/ SpuriousWake(u)
    PROVE  CountInv'
<1> USE DEF CountInv
<1>1. TypeOK' /\ WaitersWait'
  BY UserType
<1>2. dpc' = dpc /\ isExit' = isExit
  BY DEF GetCall, PutCall, UserStep, SpuriousWake, GetEnter, GetWoken, PutEnter, PutSignal
<1>3. CASE GetCall(u) \/ PutCall(u)
  <2>1. dpc = "idle"
    BY <1>3 DEF GetCall, PutCall, Phases
  <2> QED BY <1>1, <1>2, <1>3, <2>1 DEF GetCall, PutCall, Goto, TypeOK, Phases
<1>4. CASE GetEnter(u) \/ (GetWoken(u) /\ ~isExit)
  <2>1. dpc \in {"idle", "sleep1"}
    BY <1>4 DEF GetEnter, GetWoken, At, TypeOK, Phases, InCall
  <2>2. CASE TakeHead(u)
    BY <1>1, <1>2, <2>1, <2>2, TakeCounts DEF TypeOK, Phases
  <2>3. CASE Wait(u)
    BY <1>1, <1>2, <2>1, <2>3 DEF Wait, Goto, TypeOK, Phases
  <2> QED BY <1>4, <2>2, <2>3 DEF GetEnter, GetWoken
<1>5. CASE GetWoken(u) /\ isExit
  BY <1>1, <1>2, <1>5 DEF GetWoken, At, Goto, TypeOK, Phases, InCall
<1>6. CASE PutEnter(u)
  <2>1. dpc \in {"idle", "sleep1"}
    BY <1>6 DEF PutEnter, At, TypeOK, Phases, InCall
  <2>2. arg[u] \in Nodes
    BY <1>6 DEF PutEnter, At, TypeOK
  <2>3. num' = Len(list')
    BY <1>6, <2>1, <2>2 DEF PutEnter, TypeOK
  <2> QED BY <1>1, <1>2, <1>6, <2>1, <2>3 DEF PutEnter, Goto, TypeOK, Phases
<1>7. CASE PutSignal(u)
  <2>1. dpc \in {"idle", "sleep1"}
    BY <1>7 DEF PutSignal, At, TypeOK, Phases, InCall
  <2> QED BY <1>1, <1>2, <1>7, <2>1 DEF PutSignal, Goto, TypeOK, Phases
<1>8. CASE SpuriousWake(u)
  BY <1>1, <1>2, <1>8 DEF SpuriousWake, calls, TypeOK, Phases
<1> QED BY <1>3, <1>4, <1>5, <1>6, <1>7, <1>8 DEF UserStep

LEMMA DestroyCount ==
    ASSUME SleepSettles, CountInv, DestroyBegin \/ DestroyStep \/ UNCHANGED vars
    PROVE  CountInv'
<1> USE DEF CountInv
<1>1. TypeOK' /\ WaitersWait'
  BY DestroyType
<1>2. CASE DestroyBegin
  BY <1>1, <1>2 DEF DestroyBegin, calls, Phases
<1>3. CASE DestroyBroadcast
  <2>1. \A u \in Users : pc[u] \in {"idle", "wait"}
    BY <1>3 DEF DestroyBroadcast, SleepOver, WaitersWait
  <2> QED BY <1>1, <1>3, <2>1 DEF DestroyBroadcast, calls, Phases, InCall
<1>4. CASE DestroyNodes
  <2>1. \A u \in Users : pc[u] = "idle"
    BY <1>4 DEF DestroyNodes, SleepOver, Phases
  <2> QED BY <1>1, <1>4, <2>1 DEF DestroyNodes, calls, Phases
<1>5. CASE DestroyFree
  BY <1>1, <1>5 DEF DestroyFree, calls, Phases
<1>6. CASE UNCHANGED vars
  BY <1>1, <1>6 DEF vars, calls, Phases
<1> QED BY <1>2, <1>3, <1>4, <1>5, <1>6 DEF DestroyStep

(* The count agrees with the list until Destroy begins, and HeadGet takes  *)
(* a node or waits: never the first entry of an empty list.  It needs that *)
(* every node could be created, and that Destroy's sleeps are long enough. *)
THEOREM CountAgrees ==
    ASSUME ~CreateMayFail, SleepSettles
    PROVE  Spec => []CountIsLength
<1>1. Init => CountInv
  BY InitCount
<1>2. CountInv /\ [Next]_vars => CountInv'
  BY UserCount, DestroyCount DEF Next
<1>3. CountInv => CountIsLength
  BY DEF CountInv, CountIsLength, Phases
<1> QED BY <1>1, <1>2, <1>3, PTL DEF Spec

-----------------------------------------------------------------------------
(* Who has a node.                                                         *)

LEMMA ListedHead ==
    ASSUME TypeOK, OneOwner, list # <<>>, list' = Tail(list)
    PROVE  /\ Head(list) \in Listed
           /\ Listed' = Listed \ {Head(list)}
           /\ \A i, j \in DOMAIN list' : list'[i] = list'[j] => i = j
<1>1. /\ Len(list) \in Nat \ {0}
      /\ DOMAIN list = 1 .. Len(list)
      /\ DOMAIN list' = 1 .. Len(list) - 1
      /\ \A i \in DOMAIN list' : list'[i] = list[i + 1]
      /\ Head(list) = list[1]
  BY DEF TypeOK
<1>2. \A i, j \in DOMAIN list : list[i] = list[j] => i = j
  BY DEF OneOwner
<1>3. Listed = {list[i] : i \in 1 .. Len(list)}
  BY <1>1 DEF Listed, ToSet
<1>4. Listed' = {list[i + 1] : i \in 1 .. Len(list) - 1}
  BY <1>1 DEF Listed, ToSet
<1>5. \A i \in 1 .. Len(list) : i = 1 \/ i - 1 \in 1 .. Len(list) - 1
  BY <1>1
<1>6. Listed' \subseteq Listed \ {Head(list)}
  BY <1>1, <1>2, <1>3, <1>4
<1>7. Listed \ {Head(list)} \subseteq Listed'
  <2>1. ASSUME NEW i \in 1 .. Len(list), i # 1
        PROVE  list[i] \in Listed'
    <3>1. i - 1 \in 1 .. Len(list) - 1 /\ list[i] = list[(i - 1) + 1]
      BY <1>1, <2>1
    <3> QED BY <1>4, <3>1
  <2> QED BY <1>1, <1>3, <2>1
<1>8. \A i, j \in DOMAIN list' : list'[i] = list'[j] => i = j
  BY <1>1, <1>2
<1> QED BY <1>1, <1>3, <1>6, <1>7, <1>8

LEMMA ListedAppend ==
    ASSUME TypeOK, NEW n \in Nodes, list' = Append(list, n)
    PROVE  /\ Listed' = Listed \cup {n}
           /\ OneOwner /\ n \notin Listed
                => \A i, j \in DOMAIN list' : list'[i] = list'[j] => i = j
<1>1. /\ Len(list) \in Nat
      /\ DOMAIN list = 1 .. Len(list)
      /\ DOMAIN list' = 1 .. Len(list) + 1
      /\ \A i \in DOMAIN list : list'[i] = list[i]
      /\ list'[Len(list) + 1] = n
  BY DEF TypeOK
<1>2. \A i \in DOMAIN list' : i \in DOMAIN list \/ i = Len(list) + 1
  BY <1>1
<1>3. Listed' = Listed \cup {n}
  BY <1>1, <1>2 DEF Listed, ToSet
<1>4. OneOwner /\ n \notin Listed
        => \A i, j \in DOMAIN list' : list'[i] = list'[j] => i = j
  <2> SUFFICES ASSUME OneOwner, n \notin Listed,
                      NEW i \in DOMAIN list', NEW j \in DOMAIN list', list'[i] = list'[j]
               PROVE  i = j
    OBVIOUS
  <2>1. \A k \in DOMAIN list : list[k] # n
    BY DEF Listed, ToSet
  <2>2. \A k, l \in DOMAIN list : list[k] = list[l] => k = l
    BY DEF OneOwner
  <2> QED BY <1>1, <1>2, <2>1, <2>2
<1> QED BY <1>3, <1>4

LEMMA ListedOnce ==
    ASSUME NEW created \in SUBSET Nodes, list \in SetToSeqs(created)
    PROVE  /\ Listed = created
           /\ \A i, j \in DOMAIN list : list[i] = list[j] => i = j
<1> DEFINE n == Cardinality(created)
<1>1. IsFiniteSet(created) /\ n \in Nat
  BY NodesAssumption, FS_Subset, FS_CardinalityType
<1>2. list \in {f \in [1 .. n -> created] : \A i, j \in 1 .. n : i # j => f[i] # f[j]}
  BY DEF SetToSeqs
<1> HIDE DEF n
<1>3. /\ list \in [1 .. n -> created]
      /\ \A i, j \in 1 .. n : i # j => list[i] # list[j]
  BY <1>2
<1>4. Listed \subseteq created
  BY <1>3 DEF Listed, ToSet
<1>5. Cardinality(Listed) = n
  <2>1. IsFiniteSet(1 .. n) /\ Cardinality(1 .. n) = n
    BY <1>1, FS_Interval
  <2>2. list \in Bijection(1 .. n, Listed)
    BY <1>3 DEF Listed, ToSet, Bijection, Injection, Surjection, IsInjective
  <2>3. ExistsBijection(1 .. n, Listed)
    BY <2>2 DEF ExistsBijection
  <2> QED BY <1>1, <1>4, <2>1, <2>3, FS_CountingElements, FS_Subset
<1>6. Listed = created
  BY <1>1, <1>4, <1>5, FS_Subset DEF n
<1> QED BY <1>3, <1>6

LEMMA InitOwner == Init => OneOwner
<1> SUFFICES ASSUME Init PROVE OneOwner
  OBVIOUS
<1>1. PICK created \in SUBSET Nodes : list \in SetToSeqs(created)
                                     /\ (~CreateMayFail => created = Nodes)
  BY DEF Init
<1>2. list \in SetToSeqs(created) /\ (~CreateMayFail => created = Nodes)
  BY <1>1
<1>3. Putting = {} /\ used = {} /\ destroyed = {}
  BY DEF Init, Putting
<1>4. \A u, v \in Users : ~(arg[u] = arg[v] /\ arg[u] # NoNode)
  BY DEF Init
<1>5. Listed = created /\ \A i, j \in DOMAIN list : list[i] = list[j] => i = j
  BY <1>2, ListedOnce
<1> QED BY <1>2, <1>3, <1>4, <1>5 DEF OneOwner

LEMMA OwnerFrame ==
    ASSUME OneOwner, UNCHANGED <<list, used, destroyed, arg>>
    PROVE  OneOwner'
BY DEF OneOwner, Listed, Putting

LEMMA TakeOwner ==
    ASSUME TypeOK, OneOwner, NEW u \in Users, TakeHead(u), UNCHANGED <<destroyed, arg>>
    PROVE  OneOwner'
<1>1. CASE list = <<>>
  BY <1>1, OwnerFrame DEF TakeHead
<1>2. CASE list # <<>>
  <2>1. list' = Tail(list) /\ used' = used \cup {Head(list)}
    BY <1>2 DEF TakeHead
  <2>2. Putting' = Putting
    BY DEF Putting
  <2> QED BY <1>2, <2>1, <2>2, ListedHead DEF OneOwner
<1> QED BY <1>1, <1>2

LEMMA UserOwner ==
    ASSUME TypeOK, OneOwner, NEW u \in Users,
           GetCall(u) \/ PutCall(u) \/ UserStep(u) \/ SpuriousWake(u)
    PROVE  OneOwner'
<1>1. CASE GetCall(u) \/ PutSignal(u) \/ SpuriousWake(u) \/ (GetWoken(u) /\ isExit)
  BY <1>1, OwnerFrame DEF GetCall, PutSignal, SpuriousWake, GetWoken, calls
<1>2. CASE GetEnter(u) \/ (GetWoken(u) /\ ~isExit)
  <2>1. CASE TakeHead(u)
    BY <1>2, <2>1, TakeOwner DEF GetEnter, GetWoken
  <2>2. CASE Wait(u)
    BY <1>2, <2>2, OwnerFrame DEF GetEnter, GetWoken, Wait
  <2> QED BY <1>2, <2>1, <2>2 DEF GetEnter, GetWoken
<1>3. CASE PutCall(u)
  <2>1. PICK n \in used : used' = used \ {n} /\ arg' = [arg EXCEPT ![u] = n]
    BY <1>3 DEF PutCall
  <2>2. arg[u] = NoNode
    BY <1>3 DEF PutCall, At, TypeOK
  <2>3. n \in Nodes /\ n # NoNode
    BY NodesAssumption DEF TypeOK
  <2>4. Putting' = Putting \cup {n}
    BY <2>1, <2>2, <2>3 DEF Putting, TypeOK
  <2>5. \A v \in Users : arg[v] # n
    BY <2>3 DEF OneOwner, Putting
  <2>6. list' = list /\ Listed' = Listed /\ destroyed' = destroyed
    BY <1>3 DEF PutCall, Listed
  <2>7. \A v, w \in Users : arg'[v] = arg'[w] /\ arg'[v] # NoNode => v = w
    BY <2>1, <2>5 DEF OneOwner, TypeOK
  <2> QED BY <2>1, <2>4, <2>6, <2>7 DEF OneOwner
<1>4. CASE PutEnter(u)
  <2>1. arg[u] \in Nodes /\ arg[u] # NoNode
    BY <1>4 DEF PutEnter, At, TypeOK
  <2>2. list' = Append(list, arg[u]) /\ arg' = [arg EXCEPT ![u] = NoNode]
        /\ used' = used /\ destroyed' = destroyed
    BY <1>4 DEF PutEnter
  <2>3. arg[u] \in Putting
    BY <2>1 DEF Putting
  <2>4. Putting' = Putting \ {arg[u]}
    BY <2>1, <2>2 DEF Putting, OneOwner, TypeOK
  <2>5. arg[u] \notin Listed
    BY <2>3 DEF OneOwner
  <2>6. Listed' = Listed \cup {arg[u]}
        /\ \A i, j \in DOMAIN list' : list'[i] = list'[j] => i = j
    BY <2>1, <2>2, <2>5, ListedAppend
  <2>7. \A v, w \in Users : arg'[v] = arg'[w] /\ arg'[v] # NoNode => v = w
    BY <2>2 DEF OneOwner, TypeOK
  <2> QED BY <2>2, <2>3, <2>4, <2>6, <2>7 DEF OneOwner
<1> QED BY <1>1, <1>2, <1>3, <1>4 DEF UserStep

LEMMA DestroyOwner ==
    ASSUME TypeOK, OneOwner, DestroyBegin \/ DestroyStep \/ UNCHANGED vars
    PROVE  OneOwner'
<1>1. CASE DestroyBegin \/ DestroyBroadcast \/ DestroyFree \/ UNCHANGED vars
  BY <1>1, OwnerFrame DEF DestroyBegin, DestroyBroadcast, DestroyFree, vars, calls
<1>2. CASE DestroyNodes
  <2>1. Listed' = {} /\ DOMAIN list' = {}
    BY <1>2 DEF DestroyNodes, Listed, ToSet
  <2>2. destroyed' = destroyed \cup Listed /\ used' = used /\ arg' = arg
    BY <1>2 DEF DestroyNodes, calls, Listed
  <2>3. Putting' = Putting
    BY <2>2 DEF Putting
  <2> QED BY <2>1, <2>2, <2>3 DEF OneOwner
<1> QED BY <1>1, <1>2 DEF DestroyStep

(* Every buffer is always in exactly one place.                            *)
THEOREM BuffersHaveOneOwner == Spec => []OneOwner
<1>1. Init => TypeOK /\ WaitersWait /\ OneOwner
  BY InitType, InitOwner
<1>2. TypeOK /\ WaitersWait /\ OneOwner /\ [Next]_vars
        => (TypeOK /\ WaitersWait /\ OneOwner)'
  BY UserType, DestroyType, UserOwner, DestroyOwner DEF Next
<1> QED BY <1>1, <1>2, PTL DEF Spec
=============================================================================
