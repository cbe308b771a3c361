--------------------------- MODULE MCServices_proofs ---------------------------
(***************************************************************************)
(* What the services promise, for every number of threads, every size and  *)
(* every number of tasks.  One service runs in a behaviour, and the others *)
(* stay as they are: each has an invariant of its own, and a step of       *)
(* MCServices is a step of the service or leaves its variables alone.      *)
(***************************************************************************)
EXTENDS MCServices, Sequences, FiniteSetTheorems, TLAPS

servicesVars == <<active, T, W, P, B, E, L, V, X, N, D, G>>

-----------------------------------------------------------------------------
(* HyBuffereventClient.  Without haste, Destroy found the thread at an end *)
(* of its own and no Write under way; a bufferevent is freed only where    *)
(* the thread is on its way out, is_exit being set in the same callback;   *)
(* and a Write that is in a freed one met the free, or began after the     *)
(* application was told.                                                   *)
BevTypeOK ==
    /\ is_exit \in BOOLEAN /\ bevLive \in BOOLEAN /\ haste \in BOOLEAN /\ met \in BOOLEAN
    /\ told \in BOOLEAN /\ writing \in BOOLEAN /\ bevLost \in {"no", "loop", "write"}

BevInv ==
    /\ BevTypeOK
    /\ bevLost # "no" => haste \/ (bevLost = "write" /\ met)
    /\ bevEnd # "run" =>
           haste \/ (~writing /\ (bevThread = "ended" \/ (bevThread = "test" /\ is_exit)))
    /\ ~bevLive => is_exit /\ bevThread \in {"tell", "return", "test", "ended"}
    /\ writing /\ ~bevLive => haste \/ met

LEMMA BevStep ==
    ASSUME BevInv, Bev!BevNext
    PROVE  BevInv'
<1>1. ASSUME Bev!BevThread PROVE BevInv'
  <2>1. CASE Bev!LoopTest
    BY <2>1, ZenonT(30) DEF Bev!LoopTest, BevInv, BevTypeOK
  <2>2. CASE Bev!SocketConnect
    BY <2>2 DEF Bev!SocketConnect, BevInv, BevTypeOK
  <2>3. CASE Bev!Sleep2
    BY <2>3 DEF Bev!Sleep2, BevInv, BevTypeOK
  <2>4. CASE Bev!DispatchReturns
    BY <2>4 DEF Bev!DispatchReturns, Bev!OnBase, BevInv, BevTypeOK
  <2>5. CASE Bev!EventTell
    BY <2>5 DEF Bev!EventTell, Bev!OnBase, BevInv, BevTypeOK
  <2> QED BY <1>1, <2>1, <2>2, <2>3, <2>4, <2>5 DEF Bev!BevThread
<1>2. ASSUME Bev!EventConnected \/ Bev!EventClosed PROVE BevInv'
  <2>1. CASE Bev!EventConnected
    BY <2>1 DEF Bev!EventConnected, Bev!OnBase, BevInv, BevTypeOK
  <2>2. CASE Bev!EventClosed
    BY <2>2 DEF Bev!EventClosed, Bev!OnBase, BevInv, BevTypeOK
  <2> QED BY <1>2, <2>1, <2>2
<1>3. CASE Bev!ReadCb
  BY <1>3 DEF Bev!ReadCb, Bev!OnBase, BevInv, BevTypeOK
<1>4. CASE Bev!BevWrite \/ Bev!BevWrites
  BY <1>4 DEF Bev!BevWrite, Bev!BevWrites, BevInv, BevTypeOK
<1>5. CASE Bev!BevFreeBase \/ Bev!BevDestroy
  BY <1>5 DEF Bev!BevFreeBase, Bev!BevDestroy, Bev!BevClose, Bev!BevJoin, BevInv, BevTypeOK
<1> QED BY <1>1, <1>2, <1>3, <1>4, <1>5 DEF Bev!BevNext, Bev!BevEvents

(* HyBuffereventClient: in every behaviour the thread uses freed memory    *)
(* only in haste, and a Write only in haste or when it met the free.       *)
THEOREM FreedMemoryInHaste == Spec => []FreedUsedInHaste
<1>1. Init => BevInv
  <2>1. Init => Bev!BevInit
    BY DEF Init
  <2>2. Bev!BevInit => BevTypeOK
    BY DEF Bev!BevInit, BevTypeOK
  <2>3. Bev!BevInit => BevInv
    BY <2>2 DEF Bev!BevInit, BevInv
  <2> QED BY <2>1, <2>3
<1>2. BevInv /\ [Next]_servicesVars => BevInv'
  <2> SUFFICES ASSUME BevInv, [Next]_servicesVars PROVE BevInv'
    OBVIOUS
  <2>1. Bev!BevNext \/ UNCHANGED V
    BY DEF Next, servicesVars, V
  <2>2. CASE UNCHANGED V
    BY <2>2 DEF V, BevInv, BevTypeOK
  <2> QED BY <2>1, <2>2, BevStep
<1>3. BevInv => FreedUsedInHaste
  BY DEF BevInv, FreedUsedInHaste, Bev!FreedUsedInHaste
<1> QED BY <1>1, <1>2, <1>3, PTL DEF Spec, servicesVars

-----------------------------------------------------------------------------
(* HyNet.  How far the thread has come says what the commands have left of *)
(* the system; Destroy may come in between, and inUse remembers that.      *)
NetTypeOK ==
    /\ netState \in {"none", "up", "stop", "gone"}
    /\ wifi_c \in [enable : BOOLEAN, dhcp : BOOLEAN]
    /\ client \in {"none", "coming", "missed", "left"}
    /\ inUse \in BOOLEAN /\ netLost \in BOOLEAN

NetInterface ==
    /\ netLost => inUse \/ wifiThread = "none"
    /\ netState \in {"none", "up"} => ~netLost
    /\ netState = "none" => wifiThread = "none"
    /\ netState \in {"stop", "gone"} /\ wifiThread \notin {"none", "ended"} => inUse
    /\ wifiThread \in {"ifconfig up", "kill wpa", "wpa", "kill udhcpc", "address", "ended"} =>
           power = "on"
    /\ wifiThread \in {"kill wpa", "wpa", "kill udhcpc", "address", "ended"} /\ netState = "up" =>
           wlan = "up"
    /\ wifiThread = "ended" /\ netState = "gone" /\ ~inUse => wlan = "down"

NetDaemons ==
    /\ (wpa = 0 \/ wpa = 1) /\ (udhcpc = 0 \/ udhcpc = 1)
    /\ wifiThread = "wpa" => wpa = 0
    /\ wifiThread \in {"kill udhcpc", "address", "ended"} /\ netState = "up" => wpa = 1
    /\ wifiThread = "address" => udhcpc = 0
    /\ wifiThread # "ended" => client = "none"
    /\ client \in {"coming", "missed"} => udhcpc = 0
    /\ client = "coming" => wifi_c.dhcp
    /\ wifiThread = "ended" /\ netState = "up" =>
           /\ client \in {"none", "coming"}
           /\ udhcpc = (IF wifi_c.dhcp /\ client # "coming" THEN 1 ELSE 0)
    /\ wifiThread = "ended" /\ netState \in {"stop", "gone"} /\ ~inUse =>
           /\ wpa = 0 /\ client # "coming"
           /\ udhcpc = (IF client = "left" THEN 1 ELSE 0)

NetInv == NetTypeOK /\ NetInterface /\ NetDaemons

LEMMA NetStep ==
    ASSUME NetInv, Net!NetNext
    PROVE  NetInv'
<1> USE DEF NetInv
<1>1. CASE Net!NetCreate
  <2>1. NetTypeOK'
    BY <1>1 DEF Net!NetCreate, NetTypeOK
  <2>2. NetInterface'
    BY <1>1 DEF Net!NetCreate, NetTypeOK, NetInterface, NetDaemons
  <2>3. NetDaemons'
    BY <1>1 DEF Net!NetCreate, NetTypeOK, NetInterface, NetDaemons
  <2> QED BY <2>1, <2>2, <2>3
<1>2. CASE Net!NetCreateFails
  <2>1. NetTypeOK'
    BY <1>2 DEF Net!NetCreateFails, NetTypeOK
  <2>2. NetInterface'
    BY <1>2 DEF Net!NetCreateFails, NetTypeOK, NetInterface, NetDaemons
  <2>3. NetDaemons'
    BY <1>2 DEF Net!NetCreateFails, NetTypeOK, NetInterface, NetDaemons
  <2> QED BY <2>1, <2>2, <2>3
<1>3. CASE Net!PowerOff
  <2>1. NetTypeOK'
    BY <1>3 DEF Net!PowerOff, Net!ThreadGoes, NetTypeOK
  <2>2. NetInterface'
    BY <1>3 DEF Net!PowerOff, Net!ThreadGoes, NetTypeOK, NetInterface, NetDaemons
  <2>3. NetDaemons'
    BY <1>3 DEF Net!PowerOff, Net!ThreadGoes, NetTypeOK, NetInterface, NetDaemons
  <2> QED BY <2>1, <2>2, <2>3
<1>4. CASE Net!PowerOn
  <2>1. NetTypeOK'
    BY <1>4 DEF Net!PowerOn, Net!ThreadGoes, NetTypeOK
  <2>2. NetInterface'
    BY <1>4 DEF Net!PowerOn, Net!ThreadGoes, NetTypeOK, NetInterface, NetDaemons
  <2>3. NetDaemons'
    BY <1>4 DEF Net!PowerOn, Net!ThreadGoes, NetTypeOK, NetInterface, NetDaemons
  <2> QED BY <2>1, <2>2, <2>3
<1>5. CASE Net!IfconfigUp
  <2>1. NetTypeOK'
    BY <1>5 DEF Net!IfconfigUp, Net!ThreadGoes, NetTypeOK
  <2>2. NetInterface'
    BY <1>5 DEF Net!IfconfigUp, Net!ThreadGoes, NetTypeOK, NetInterface, NetDaemons
  <2>3. NetDaemons'
    BY <1>5 DEF Net!IfconfigUp, Net!ThreadGoes, NetTypeOK, NetInterface, NetDaemons
  <2> QED BY <2>1, <2>2, <2>3
<1>6. CASE Net!KillallWpa
  <2>1. NetTypeOK'
    BY <1>6 DEF Net!KillallWpa, Net!ThreadGoes, NetTypeOK
  <2>2. NetInterface'
    BY <1>6 DEF Net!KillallWpa, Net!ThreadGoes, NetTypeOK, NetInterface, NetDaemons
  <2>3. NetDaemons'
    BY <1>6 DEF Net!KillallWpa, Net!ThreadGoes, NetTypeOK, NetInterface, NetDaemons
  <2> QED BY <2>1, <2>2, <2>3
<1>7. CASE Net!WpaSupplicant
  <2>1. NetTypeOK'
    BY <1>7 DEF Net!WpaSupplicant, Net!ThreadGoes, NetTypeOK
  <2>2. NetInterface'
    BY <1>7 DEF Net!WpaSupplicant, Net!ThreadGoes, NetTypeOK, NetInterface, NetDaemons
  <2>3. NetDaemons'
    <3>1. wpa' = 1
      <4>1. wpa = 0 /\ wpa' = wpa + 1
        BY <1>7 DEF Net!WpaSupplicant, Net!ThreadGoes, NetDaemons
      <4> QED BY <4>1
    <3> QED BY <1>7, <3>1 DEF Net!WpaSupplicant, Net!ThreadGoes, NetTypeOK, NetInterface, NetDaemons
  <2> QED BY <2>1, <2>2, <2>3
<1>8. CASE Net!KillallUdhcpc
  <2>1. NetTypeOK'
    BY <1>8 DEF Net!KillallUdhcpc, Net!ThreadGoes, NetTypeOK
  <2>2. NetInterface'
    BY <1>8 DEF Net!KillallUdhcpc, Net!ThreadGoes, NetTypeOK, NetInterface, NetDaemons
  <2>3. NetDaemons'
    BY <1>8 DEF Net!KillallUdhcpc, Net!ThreadGoes, NetTypeOK, NetInterface, NetDaemons
  <2> QED BY <2>1, <2>2, <2>3
<1>9. CASE Net!Configure
  <2>1. NetTypeOK'
    BY <1>9 DEF Net!Configure, Net!ThreadGoes, NetTypeOK
  <2>2. NetInterface'
    BY <1>9 DEF Net!Configure, Net!ThreadGoes, NetTypeOK, NetInterface, NetDaemons
  <2>3. NetDaemons'
    BY <1>9 DEF Net!Configure, Net!ThreadGoes, NetTypeOK, NetInterface, NetDaemons
  <2> QED BY <2>1, <2>2, <2>3
<1>10. CASE Net!DestroyKillall
  <2>1. NetTypeOK'
    BY <1>10 DEF Net!DestroyKillall, NetTypeOK
  <2>2. NetInterface'
    BY <1>10 DEF Net!DestroyKillall, NetTypeOK, NetInterface, NetDaemons
  <2>3. NetDaemons'
    BY <1>10 DEF Net!DestroyKillall, NetTypeOK, NetInterface, NetDaemons
  <2> QED BY <2>1, <2>2, <2>3
<1>11. CASE Net!DestroyIfconfigDown
  <2>1. NetTypeOK'
    BY <1>11 DEF Net!DestroyIfconfigDown, NetTypeOK
  <2>2. NetInterface'
    BY <1>11 DEF Net!DestroyIfconfigDown, NetTypeOK, NetInterface, NetDaemons
  <2>3. NetDaemons'
    BY <1>11 DEF Net!DestroyIfconfigDown, NetTypeOK, NetInterface, NetDaemons
  <2> QED BY <2>1, <2>2, <2>3
<1>12. CASE Net!UdhcpcRuns
  <2>1. udhcpc = 0 /\ udhcpc' = 1
    <3>1. udhcpc = 0 /\ udhcpc' = udhcpc + 1
      BY <1>12 DEF Net!UdhcpcRuns, NetDaemons
    <3> QED BY <3>1
  <2>2. NetTypeOK'
    BY <1>12 DEF Net!UdhcpcRuns, NetTypeOK
  <2>3. NetInterface'
    BY <1>12 DEF Net!UdhcpcRuns, NetTypeOK, NetInterface
  <2>4. NetDaemons'
    BY <1>12, <2>1 DEF Net!UdhcpcRuns, NetTypeOK, NetDaemons
  <2> QED BY <2>2, <2>3, <2>4
<1> QED BY <1>1, <1>2, <1>3, <1>4, <1>5, <1>6, <1>7, <1>8, <1>9, <1>10, <1>11, <1>12 DEF Net!NetNext, Net!WifiThread

(* HyNet: whatever ran before, and whenever Destroy comes, there is never  *)
(* more than one daemon of a kind, and a Destroy that was not too early    *)
(* leaves none.                                                            *)
THEOREM DaemonsAsConfigured == Spec => []OneDaemonEach
<1>1. Init => NetInv
  <2>1. Init => Net!NetInit
    BY DEF Init
  <2>2. Net!NetInit => NetTypeOK
    <3>1. Net!NetInit => wifi_c \in [enable : BOOLEAN, dhcp : BOOLEAN]
      BY DEF Net!NetInit
    <3> QED BY <3>1, Zenon DEF Net!NetInit, NetTypeOK
  <2>3. Net!NetInit => NetInterface
    BY DEF Net!NetInit, NetInterface
  <2>4. Net!NetInit => NetDaemons
    BY DEF Net!NetInit, NetDaemons
  <2> QED BY <2>1, <2>2, <2>3, <2>4 DEF NetInv
<1>2. NetInv /\ [Next]_servicesVars => NetInv'
  <2> SUFFICES ASSUME NetInv, [Next]_servicesVars PROVE NetInv'
    OBVIOUS
  <2>1. Net!NetNext \/ UNCHANGED N
    BY DEF Next, servicesVars, N
  <2>2. CASE UNCHANGED N
    BY <2>2 DEF N, NetInv, NetTypeOK, NetInterface, NetDaemons
  <2> QED BY <2>1, <2>2, NetStep
<1>3. NetInv => OneDaemonEach
  <2>1. ASSUME NetDaemons PROVE wpa <= 1 /\ udhcpc <= 1
    <3>1. (wpa = 0 \/ wpa = 1) /\ (udhcpc = 0 \/ udhcpc = 1)
      BY <2>1 DEF NetDaemons
    <3>2. wpa <= 1
      BY <3>1
    <3>3. udhcpc <= 1
      BY <3>1
    <3> QED BY <3>2, <3>3
  <2> QED BY <2>1 DEF NetInv, NetTypeOK, NetInterface, NetDaemons, OneDaemonEach, Net!OneDaemonEach
<1> QED BY <1>1, <1>2, <1>3, PTL DEF Spec, servicesVars

-----------------------------------------------------------------------------
(* HyThreadPool.  The tasks that workers took and those that wait are the  *)
(* tasks that were added, in their order; they may fall behind only when   *)
(* the fifo is freed.                                                      *)
PoolOrder ==
    /\ added \in Nat /\ begun \in Seq(Nat) /\ taskFifo \in Seq(Nat)
    /\ \A i \in 1 .. Len(begun) : begun[i] = i
    /\ \A i \in 1 .. Len(taskFifo) : taskFifo[i] = Len(begun) + i
    /\ Len(begun) + Len(taskFifo) <= added
    /\ poolEnd \in {"run", "exit", "told"} => Len(begun) + Len(taskFifo) = added

(* AddTask puts the next task at the end, from either of its two places.   *)
LEMMA PoolAdds ==
    ASSUME PoolOrder, poolEnd \in {"run", "exit"},
           taskFifo' = Append(taskFifo, added + 1), added' = added + 1,
           UNCHANGED <<begun, poolEnd>>
    PROVE  PoolOrder'
<1>1. /\ taskFifo' \in Seq(Nat) /\ Len(taskFifo') = Len(taskFifo) + 1
      /\ \A i \in 1 .. Len(taskFifo) : taskFifo'[i] = taskFifo[i]
      /\ taskFifo'[Len(taskFifo) + 1] = added + 1
  BY DEF PoolOrder
<1>2. ASSUME NEW i \in 1 .. Len(taskFifo') PROVE taskFifo'[i] = Len(begun) + i
  <2>1. /\ Len(begun) \in Nat /\ Len(taskFifo) \in Nat /\ added \in Nat
        /\ Len(begun) + Len(taskFifo) = added
    BY DEF PoolOrder
  <2>2. CASE i \in 1 .. Len(taskFifo)
    BY <1>1, <2>2 DEF PoolOrder
  <2>3. CASE i = Len(taskFifo) + 1
    BY <1>1, <2>1, <2>3
  <2> QED BY <1>1, <2>1, <2>2, <2>3
<1> QED BY <1>1, <1>2 DEF PoolOrder

LEMMA PoolTakes ==
    ASSUME PoolOrder, NEW w \in PoolWorkers, Pool!WorkerRead(w)
    PROVE  PoolOrder' /\ begun' = Append(begun, Len(begun) + 1) /\ added' = added
<1>1. /\ taskFifo # <<>> /\ poolEnd \in {"run", "exit"}
      /\ begun' = Append(begun, Head(taskFifo)) /\ taskFifo' = Tail(taskFifo)
      /\ UNCHANGED <<added, poolEnd>>
  BY DEF Pool!WorkerRead
<1>2. /\ Len(taskFifo) >= 1 /\ Head(taskFifo) = Len(begun) + 1 /\ Head(taskFifo) \in Nat
  BY <1>1 DEF PoolOrder
<1>3. /\ taskFifo' \in Seq(Nat) /\ Len(taskFifo') = Len(taskFifo) - 1
      /\ \A i \in 1 .. Len(taskFifo') : taskFifo'[i] = taskFifo[i + 1]
  BY <1>1, <1>2 DEF PoolOrder
<1>4. /\ begun' \in Seq(Nat) /\ Len(begun') = Len(begun) + 1
      /\ \A i \in 1 .. Len(begun) : begun'[i] = begun[i]
      /\ begun'[Len(begun) + 1] = Len(begun) + 1
  BY <1>1, <1>2 DEF PoolOrder
<1>5. ASSUME NEW i \in 1 .. Len(begun') PROVE begun'[i] = i
  <2>1. Len(begun) \in Nat
    BY DEF PoolOrder
  <2>2. CASE i \in 1 .. Len(begun)
    BY <1>4, <2>2 DEF PoolOrder
  <2>3. CASE i = Len(begun) + 1
    BY <1>4, <2>3
  <2> QED BY <1>4, <2>1, <2>2, <2>3
<1>6. \A i \in 1 .. Len(taskFifo') : taskFifo'[i] = Len(begun') + i
  BY <1>3, <1>4, SMTT(40) DEF PoolOrder
<1>7. PoolOrder'
  <2>1. /\ added' \in Nat /\ Len(begun') + Len(taskFifo') <= added'
        /\ Len(begun') + Len(taskFifo') = added'
    <3>1. /\ added' = added /\ added \in Nat /\ Len(begun) + Len(taskFifo) = added
          /\ Len(begun) \in Nat /\ Len(taskFifo) \in Nat
      BY <1>1 DEF PoolOrder
    <3>2. Len(taskFifo') = Len(taskFifo) - 1 /\ Len(begun') = Len(begun) + 1
      BY <1>3, <1>4
    <3>3. Len(begun') + Len(taskFifo') = Len(begun) + Len(taskFifo)
      BY <3>1, <3>2
    <3>4. Len(begun) + Len(taskFifo) <= Len(begun) + Len(taskFifo)
      BY <3>1
    <3> QED BY <3>1, <3>3, <3>4
  <2> QED BY <1>3, <1>4, <1>5, <1>6, <2>1 DEF PoolOrder
<1> QED BY <1>1, <1>2, <1>7

(* Every other step takes or adds no task; the fifo is emptied when it is  *)
(* freed.                                                                  *)
LEMMA PoolKeeps ==
    ASSUME PoolOrder, UNCHANGED <<begun, added>>,
           taskFifo' = taskFifo \/ (taskFifo' = <<>> /\ poolEnd' = "freed"),
           poolEnd' \in {"run", "exit", "told"} => poolEnd \in {"run", "exit", "told"}
    PROVE  PoolOrder'
<1>1. CASE taskFifo' = taskFifo
  BY <1>1 DEF PoolOrder
<1>2. CASE taskFifo' = <<>> /\ poolEnd' = "freed"
  BY <1>2 DEF PoolOrder
<1> QED BY <1>1, <1>2

LEMMA PoolStep ==
    ASSUME PoolOrder, Pool!PoolNext
    PROVE  PoolOrder'
<1>1. ASSUME NEW w \in PoolWorkers, Pool!PoolWorker(w) PROVE PoolOrder'
  <2>1. CASE Pool!WorkerRead(w)
    BY <2>1, PoolTakes
  <2>2. CASE Pool!WorkerStart(w) \/ Pool!WorkerLoop(w) \/ Pool!WorkerTold(w) \/ Pool!WorkerTask(w)
    BY <2>2, PoolKeeps
       DEF Pool!WorkerStart, Pool!WorkerLoop, Pool!WorkerTold, Pool!WorkerTask
  <2>3. CASE Pool!WorkerWaits(w)
    BY <2>3, PoolKeeps DEF Pool!WorkerWaits, Pool!Parks, Pool!Sleeps
  <2> QED BY <1>1, <2>1, <2>2, <2>3 DEF Pool!PoolWorker
<1>2. CASE Pool!AddTask
  BY <1>2, PoolAdds, PoolKeeps DEF Pool!AddTask
<1>3. CASE Pool!PoolAdder
  BY <1>3, PoolAdds, PoolKeeps
     DEF Pool!PoolAdder, Pool!AddGoesOn, Pool!AddWaits, Pool!Parks, Pool!Sleeps, Pool!AddTold
<1>4. CASE Pool!PoolExit \/ Pool!PoolDestroy
  BY <1>4, PoolKeeps
     DEF Pool!PoolExit, Pool!PoolDestroy, Pool!PoolTell, Pool!PoolFreeFifo, Pool!PoolJoin
<1>5. ASSUME NEW c \in PoolWorkers \cup {Pool!Adder}, Pool!Spurious(c) PROVE PoolOrder'
  BY <1>5, PoolKeeps DEF Pool!Spurious
<1> QED BY <1>1, <1>2, <1>3, <1>4, <1>5 DEF Pool!PoolNext

(* What EvConnListenerDemo does to its pool is a step of the pool.         *)
LEMMA ServerIsPool == Server!ServerNext => Pool!PoolNext \/ UNCHANGED P
<1> USE DEF Server!Is, Server!Becomes, Pool!Is, Pool!Becomes, Server!Adder, Pool!Adder,
            Server!sleepVars, Pool!sleepVars, Server!Awake, Pool!Awake
<1>a. \A S : Server!Signal(S) => Pool!Signal(S)
  BY DEF Server!Signal, Pool!Signal
<1>b. \A c : (Server!Parks(c) => Pool!Parks(c)) /\ (Server!Sleeps(c) => Pool!Sleeps(c))
  BY DEF Server!Parks, Pool!Parks, Server!Sleeps, Pool!Sleeps
<1>1. Server!TaskAdd => Pool!PoolNext
  <2>1. Server!AddTask => Pool!AddTask
    BY <1>a DEF Server!AddTask, Pool!AddTask
  <2>2. Server!AddGoesOn => Pool!AddGoesOn
    BY <1>a DEF Server!AddGoesOn, Pool!AddGoesOn
  <2> QED BY <2>1, <2>2 DEF Server!TaskAdd, Pool!PoolNext, Pool!PoolAdder
<1>2. Server!PoolEnds => Pool!PoolNext
  <2>1. Server!PoolExit => Pool!PoolExit
    BY DEF Server!PoolExit, Pool!PoolExit
  <2>2. Server!PoolDestroy => Pool!PoolDestroy
    BY DEF Server!PoolDestroy, Server!PoolTell, Server!PoolFreeFifo, Server!PoolJoin,
           Pool!PoolDestroy, Pool!PoolTell, Pool!PoolFreeFifo, Pool!PoolJoin
  <2> QED BY <2>1, <2>2 DEF Server!PoolEnds, Pool!PoolNext
<1>3. ASSUME NEW w \in PoolWorkers,
             Server!Serve(w) \/ Server!TaskEnds(w) \/ Server!WorkerGoes(w)
      PROVE  Pool!PoolNext
  <2>1. Server!WorkerRead(w) => Pool!WorkerRead(w)
    BY <1>a DEF Server!WorkerRead, Pool!WorkerRead
  <2>2. Server!WorkerTask(w) => Pool!WorkerTask(w)
    BY DEF Server!WorkerTask, Pool!WorkerTask
  <2>3. Server!WorkerStart(w) => Pool!WorkerStart(w)
    BY DEF Server!WorkerStart, Pool!WorkerStart
  <2>4. Server!WorkerLoop(w) => Pool!WorkerLoop(w)
    BY DEF Server!WorkerLoop, Pool!WorkerLoop
  <2>5. Server!WorkerTold(w) => Pool!WorkerTold(w)
    BY DEF Server!WorkerTold, Pool!WorkerTold
  <2>6. Server!WorkerWaits(w) => Pool!WorkerWaits(w)
    BY <1>b DEF Server!WorkerWaits, Pool!WorkerWaits
  <2>7. Pool!PoolWorker(w)
    BY <1>3, <2>1, <2>2, <2>3, <2>4, <2>5, <2>6
       DEF Server!Serve, Server!TaskEnds, Server!WorkerGoes, Pool!PoolWorker
  <2> QED BY <2>7 DEF Pool!PoolNext
<1>4. ASSUME NEW w \in PoolWorkers,
             Server!NodePut(w) \/ Server!ClientEof(w) \/ Server!ClientReset(w)
      PROVE  UNCHANGED P
  BY <1>4 DEF Server!NodePut, Server!ClientEof, Server!ClientReset, Server!Leaves,
              Server!poolVars, P
<1>5. Server!ListenerCb \/ Server!NodeGet \/ Server!SignalUser \/ Server!LoopEnds
      \/ Server!ListEnds => UNCHANGED P
  BY DEF Server!ListenerCb, Server!NodeGet, Server!SignalUser, Server!LoopEnds,
         Server!ListEnds, Server!poolVars, P
<1>6. Server!TaskAddWaits => Pool!PoolNext
  BY <1>b DEF Server!TaskAddWaits, Server!AddWaits, Pool!AddWaits, Pool!PoolAdder, Pool!PoolNext
<1>7. Server!SpuriousWake => Pool!PoolNext
  BY DEF Server!SpuriousWake, Server!Spurious, Pool!Spurious, Pool!PoolNext
<1> QED BY <1>1, <1>2, <1>3, <1>4, <1>5, <1>6, <1>7
        DEF Server!ServerNext, Server!ServerMain, Server!ServerWorker

LEMMA PoolOrderInvariant == Spec => []PoolOrder
<1>1. Init => PoolOrder
  <2>1. Init => Pool!PoolInit
    BY DEF Init
  <2> QED BY <2>1 DEF Pool!PoolInit, PoolOrder
<1>2. PoolOrder /\ [Next]_servicesVars => PoolOrder'
  <2> SUFFICES ASSUME PoolOrder, [Next]_servicesVars PROVE PoolOrder'
    OBVIOUS
  <2>1. Pool!PoolNext \/ Server!ServerNext \/ UNCHANGED P
    BY DEF Next, servicesVars, P
  <2>2. CASE UNCHANGED P
    BY <2>2, PoolKeeps DEF P
  <2> QED BY <2>1, <2>2, PoolStep, ServerIsPool
<1> QED BY <1>1, <1>2, PTL DEF Spec, servicesVars

(* HyThreadPool, on its own and inside the server program: the workers     *)
(* begin the tasks in the order they were added, each once, and none is    *)
(* lost before the fifo is freed; for every number of workers and every    *)
(* size of the fifo.                                                       *)
THEOREM PoolTasksInOrder == Spec => []TasksInOrder
<1>1. PoolOrder => TasksInOrder
  <2> SUFFICES ASSUME PoolOrder PROVE TasksInOrder
    OBVIOUS
  <2> DEFINE left == begun \o taskFifo
  <2>1. /\ Len(left) = Len(begun) + Len(taskFifo) /\ DOMAIN left = 1 .. Len(left)
        /\ \A i \in 1 .. Len(left) :
              left[i] = IF i <= Len(begun) THEN begun[i] ELSE taskFifo[i - Len(begun)]
    BY DEF PoolOrder
  <2>2. ASSUME NEW i \in DOMAIN left PROVE left[i] = i
    <3>1. /\ Len(begun) \in Nat /\ Len(taskFifo) \in Nat /\ i \in Int
          /\ 1 <= i /\ i <= Len(begun) + Len(taskFifo)
      BY <2>1 DEF PoolOrder
    <3>2. CASE i <= Len(begun)
      BY <2>1, <3>1, <3>2 DEF PoolOrder
    <3>3. CASE i > Len(begun)
      <4>1. i - Len(begun) \in 1 .. Len(taskFifo) /\ left[i] = taskFifo[i - Len(begun)]
        BY <2>1, <3>1, <3>3
      <4> QED BY <3>1, <4>1 DEF PoolOrder
    <3> QED BY <3>1, <3>2, <3>3
  <2>3. poolEnd \in {"run", "exit", "told"} => Len(left) = added
    BY <2>1 DEF PoolOrder
  <2> QED BY <2>2, <2>3 DEF TasksInOrder, Pool!TasksInOrder
<1> QED BY <1>1, PoolOrderInvariant, PTL

-----------------------------------------------------------------------------
(* EvConnListenerDemo.  A worker has a client only inside a task, a client *)
(* of those that were begun, and no two workers have the same.             *)
ServerTypeOK ==
    /\ worker \in [PoolWorkers -> {"start", "loop", "read", "task", "gone"}]
    /\ serves \in [PoolWorkers -> Nat]
    /\ leaving \subseteq PoolWorkers /\ IsFiniteSet(leaving)
    /\ nodes \in Int /\ client_cnt \in Int

ServerPlaces ==
    /\ \A w \in PoolWorkers : serves[w] # 0 => worker[w] = "task" /\ serves[w] \in 1 .. Len(begun)
    /\ \A w \in leaving : serves[w] # 0
    /\ \A v, w \in PoolWorkers : serves[v] = serves[w] /\ serves[v] # 0 => v = w
    /\ cut \subseteq 1 .. Len(begun)

ServerCounts ==
    /\ nodes + Cardinality(Server!Clients) + Cardinality(leaving) = ListNodes
    /\ client_cnt = Cardinality(Server!Clients)

ServerOpen == open \ cut = Server!Clients \cup (IF mainAt = "get" THEN {added + 1} ELSE {})

ServerInv == ServerTypeOK /\ ServerPlaces /\ ServerCounts /\ ServerOpen

LEMMA AccountedForIs == ServerCounts /\ ServerOpen => Server!ClientsAccountedFor
<1>1. \A S : Server!Cardinality(S) = Cardinality(S)
  BY DEF Server!Cardinality, Cardinality
<1> QED BY <1>1 DEF ServerCounts, ServerOpen, Server!ClientsAccountedFor

(* Who is a client, in terms of the counters.                              *)
ClientsAre ==
    \A n : n \in Server!Clients <=>
              \/ mainAt = "add" /\ n = added + 1
              \/ n \in Len(begun) + 1 .. added
              \/ \E w \in PoolWorkers : w \notin leaving /\ serves[w] = n /\ n # 0

LEMMA WhoIsAClient == PoolOrder => ClientsAre
<1> SUFFICES ASSUME PoolOrder PROVE ClientsAre
  OBVIOUS
<1>1. Server!Waiting = Len(begun) + 1 .. added
  <2>1. Len(begun) \in Nat /\ added \in Nat /\ Len(begun) <= added
        /\ DOMAIN begun = 1 .. Len(begun) /\ \A i \in 1 .. Len(begun) : begun[i] = i
    BY DEF PoolOrder
  <2>2. ASSUME NEW n \in 1 .. added
        PROVE  (\A i \in DOMAIN begun : begun[i] # n) <=> n > Len(begun)
    <3>1. CASE n > Len(begun)
      BY <2>1, <3>1
    <3>2. CASE n <= Len(begun)
      <4>1. n \in DOMAIN begun /\ begun[n] = n
        BY <2>1, <3>2
      <4> QED BY <2>1, <3>2, <4>1
    <3> QED BY <2>1, <3>1, <3>2
  <2>3. Server!Waiting = {n \in 1 .. added : n > Len(begun)}
    BY <2>2 DEF Server!Waiting
  <2> QED BY <2>1, <2>3
<1>2. \A n : n \in Server!InHand <=> mainAt = "add" /\ n = added + 1
  BY DEF Server!InHand
<1>3. \A n : n \in Server!Served <=>
               \E w \in PoolWorkers : w \notin leaving /\ serves[w] = n /\ n # 0
  BY DEF Server!Served
<1> QED BY <1>1, <1>2, <1>3 DEF ClientsAre, Server!Clients

ClientsFinite == IsFiniteSet(Server!Clients)

LEMMA FinitelyManyClients == PoolOrder /\ ServerPlaces => ClientsFinite
<1> SUFFICES ASSUME PoolOrder, ServerPlaces PROVE ClientsFinite
  OBVIOUS
<1>1. Len(begun) \in Nat /\ added \in Nat /\ Len(begun) <= added
  BY DEF PoolOrder
<1>2. Server!Clients \subseteq 1 .. added + 1
  <2> SUFFICES ASSUME NEW n \in Server!Clients PROVE n \in 1 .. added + 1
    OBVIOUS
  <2>1. \/ n = added + 1 \/ n \in Len(begun) + 1 .. added
        \/ \E w \in PoolWorkers : serves[w] = n /\ n # 0
    BY WhoIsAClient DEF ClientsAre
  <2>2. n = added + 1 \/ n \in Len(begun) + 1 .. added \/ n \in 1 .. Len(begun)
    BY <2>1 DEF ServerPlaces
  <2> QED BY <1>1, <2>2
<1>3. IsFiniteSet(1 .. added + 1)
  BY <1>1, FS_Interval
<1> QED BY <1>2, <1>3, FS_Subset DEF ClientsFinite

(* Steps that leave who is a client, and what the program holds for them,  *)
(* as they are.                                                            *)
LEMMA CountsKept ==
    ASSUME ServerCounts, ServerOpen, Server!Clients' = Server!Clients,
           UNCHANGED <<leaving, nodes, client_cnt, open, cut, added>>,
           (mainAt' = "get") <=> (mainAt = "get")
    PROVE  ServerCounts' /\ ServerOpen'
BY DEF ServerCounts, ServerOpen

(* _listener_cb and the pool's AddTask.                                    *)
LEMMA ServerListens ==
    ASSUME PoolOrder, PoolOrder', ServerInv,
           Server!ListenerCb \/ Server!NodeGet \/ Server!TaskAdd
    PROVE  ServerInv'
<1>0. ClientsAre /\ ClientsAre' /\ ClientsFinite
  <2>1. PoolOrder' => ClientsAre'
    BY WhoIsAClient, PTL
  <2> QED BY <2>1, WhoIsAClient, FinitelyManyClients DEF ServerInv
<1>a. added \in Nat /\ Len(begun) \in Nat /\ Len(begun) <= added /\ added' \in Nat
  BY DEF PoolOrder
<1>b. added + 1 \notin cut
  BY <1>a DEF ServerInv, ServerPlaces
<1>1. CASE Server!ListenerCb
  <2>1. /\ UNCHANGED P /\ UNCHANGED <<serves, leaving, cut, nodes, client_cnt>>
        /\ open' = open \cup {added + 1} /\ mainAt = "loop" /\ mainAt' = "get"
    BY <1>1 DEF Server!ListenerCb, Server!poolVars, P
  <2>2. Server!Clients' = Server!Clients
    BY <2>1 DEF P, Server!Clients, Server!InHand, Server!Waiting, Server!Served
  <2>3. ServerTypeOK' /\ ServerPlaces'
    BY <2>1 DEF P, ServerInv, ServerTypeOK, ServerPlaces
  <2>4. open' \ cut' = (open \ cut) \cup {added + 1}
    BY <1>b, <2>1
  <2>5. ServerCounts' /\ ServerOpen'
    BY <2>1, <2>2, <2>4 DEF P, ServerInv, ServerCounts, ServerOpen
  <2> QED BY <2>3, <2>5 DEF ServerInv
<1>2. CASE Server!NodeGet
  <2>1. /\ UNCHANGED P /\ UNCHANGED <<serves, leaving, open, cut>>
        /\ mainAt = "get" /\ mainAt' = "add" /\ nodes' = nodes - 1 /\ client_cnt' = client_cnt + 1
    BY <1>2 DEF Server!NodeGet, Server!poolVars, P
  <2>2. Server!Clients' = Server!Clients \cup {added + 1}
    BY <2>1 DEF P, Server!Clients, Server!InHand, Server!Waiting, Server!Served
  <2>3. added + 1 \notin Server!Clients
    BY <1>0, <1>a, <2>1 DEF ClientsAre, ServerInv, ServerPlaces
  <2>4. /\ Cardinality(Server!Clients') = Cardinality(Server!Clients) + 1
        /\ Cardinality(Server!Clients) \in Nat /\ Cardinality(leaving) \in Nat
    BY <1>0, <2>2, <2>3, FS_AddElement, FS_CardinalityType
       DEF ClientsFinite, ServerInv, ServerTypeOK
  <2>5. ServerTypeOK' /\ ServerPlaces'
    BY <2>1 DEF P, ServerInv, ServerTypeOK, ServerPlaces
  <2>6. ServerOpen'
    BY <2>1, <2>2 DEF ServerInv, ServerOpen
  <2>7. ServerCounts'
    BY <2>1, <2>4 DEF ServerInv, ServerTypeOK, ServerCounts
  <2> QED BY <2>5, <2>6, <2>7 DEF ServerInv
<1>3. CASE Server!TaskAdd
  <2>1. /\ UNCHANGED <<worker, begun>>
        /\ UNCHANGED <<serves, leaving, open, cut, nodes, client_cnt>> /\ mainAt = "add"
        /\ \/ added' = added + 1 /\ mainAt' = "loop"
           \/ added' = added /\ mainAt' = "add"
    BY <1>3 DEF Server!TaskAdd, Server!AddTask, Server!AddGoesOn
  <2>2. Server!Clients' = Server!Clients
    <3>1. CASE added' = added /\ mainAt' = "add"
      BY <2>1, <3>1 DEF Server!Clients, Server!InHand, Server!Waiting, Server!Served
    <3>2. ASSUME added' = added + 1, mainAt' = "loop", NEW n
          PROVE  n \in Server!Clients' <=> n \in Server!Clients
      <4>1. (n = added + 1 \/ n \in Len(begun) + 1 .. added) <=> n \in Len(begun) + 1 .. added + 1
        BY <1>a
      <4> QED BY <1>0, <2>1, <3>2, <4>1 DEF ClientsAre
    <3> QED BY <2>1, <3>1, <3>2
  <2>3. ServerTypeOK' /\ ServerPlaces'
    BY <2>1 DEF ServerInv, ServerTypeOK, ServerPlaces
  <2>4. ServerCounts' /\ ServerOpen'
    BY <2>1, <2>2 DEF ServerInv, ServerCounts, ServerOpen
  <2> QED BY <2>3, <2>4 DEF ServerInv
<1> QED BY <1>1, <1>2, <1>3

(* The worker: a client, its end, and the node that goes back.             *)
LEMMA ServerServes ==
    ASSUME PoolOrder, PoolOrder', ServerInv, NEW w \in PoolWorkers, Server!Serve(w)
    PROVE  ServerInv'
<1> USE DEF Server!Is, Server!Becomes, Pool!Is, Pool!Becomes
<1>0. ClientsAre /\ ClientsAre'
  <2>1. PoolOrder' => ClientsAre'
    BY WhoIsAClient, PTL
  <2> QED BY <2>1, WhoIsAClient
<1>1. /\ worker[w] = "read" /\ worker' = [worker EXCEPT ![w] = "task"]
      /\ taskFifo # <<>> /\ serves' = [serves EXCEPT ![w] = Head(taskFifo)]
      /\ UNCHANGED <<added, mainAt, leaving, open, cut, nodes, client_cnt>>
  BY DEF Server!Serve, Server!WorkerRead
<1>2. Pool!WorkerRead(w)
  <2>1. \A S : Server!Signal(S) => Pool!Signal(S)
    BY DEF Server!Signal, Pool!Signal
  <2> QED BY <2>1 DEF Server!Serve, Server!WorkerRead, Pool!WorkerRead, Server!Awake,
                      Pool!Awake, Server!Adder, Pool!Adder
<1>3. /\ begun' = Append(begun, Len(begun) + 1) /\ begun \in Seq(Nat)
      /\ Len(begun') = Len(begun) + 1 /\ Len(begun) \in Nat /\ added \in Nat
  BY <1>2, PoolTakes DEF PoolOrder
<1>4. Head(taskFifo) = Len(begun) + 1
  BY <1>1 DEF PoolOrder
<1>5. serves[w] = 0 /\ w \notin leaving
  BY <1>1 DEF ServerInv, ServerPlaces
<1>6. /\ \A v \in PoolWorkers : v # w => serves'[v] = serves[v] /\ worker'[v] = worker[v]
      /\ serves'[w] = Len(begun) + 1 /\ worker'[w] = "task"
  BY <1>1, <1>4 DEF ServerInv, ServerTypeOK
<1>7. ServerTypeOK'
  BY <1>1, <1>3, <1>4 DEF ServerInv, ServerTypeOK
<1>8. ServerPlaces'
  <2>1. \A v \in PoolWorkers : serves'[v] # 0 =>
            worker'[v] = "task" /\ serves'[v] \in 1 .. Len(begun')
    BY <1>3, <1>6 DEF ServerInv, ServerPlaces
  <2>2. \A v \in leaving' : serves'[v] # 0
    BY <1>1, <1>5, <1>6 DEF ServerInv, ServerPlaces, ServerTypeOK
  <2>3. \A v \in PoolWorkers : v # w => serves'[v] # Len(begun) + 1
    BY <1>3, <1>6 DEF ServerInv, ServerPlaces
  <2>4. \A v, x \in PoolWorkers : serves'[v] = serves'[x] /\ serves'[v] # 0 => v = x
    BY <1>6, <2>3 DEF ServerInv, ServerPlaces
  <2>5. cut' \subseteq 1 .. Len(begun')
    BY <1>1, <1>3 DEF ServerInv, ServerPlaces
  <2> QED BY <2>1, <2>2, <2>4, <2>5 DEF ServerPlaces
<1>9. Server!Clients' = Server!Clients
  <2>1. Len(begun) + 1 <= added
    <3>1. Len(begun') <= added' /\ added' = added
      BY <1>2, PoolTakes DEF PoolOrder
    <3> QED BY <1>3, <3>1
  <2>2. ASSUME NEW n PROVE n \in Server!Clients' <=> n \in Server!Clients
    <3>1. n \in Len(begun) + 1 .. added <=> (n = Len(begun) + 1 \/ n \in Len(begun') + 1 .. added)
      BY <1>3, <2>1
    <3>2. (\E v \in PoolWorkers : v \notin leaving' /\ serves'[v] = n /\ n # 0)
          <=> \/ n = Len(begun) + 1
              \/ \E v \in PoolWorkers : v \notin leaving /\ serves[v] = n /\ n # 0
      BY <1>1, <1>3, <1>5, <1>6
    <3> QED BY <1>0, <1>1, <3>1, <3>2 DEF ClientsAre
  <2> QED BY <2>2
<1>10. ServerCounts' /\ ServerOpen'
  BY <1>1, <1>9, CountsKept DEF ServerInv
<1> QED BY <1>7, <1>8, <1>10 DEF ServerInv

LEMMA ServerLeaves ==
    ASSUME PoolOrder, PoolOrder', ServerInv, NEW w \in PoolWorkers,
           Server!ClientEof(w) \/ Server!ClientReset(w)
    PROVE  ServerInv'
<1>0. ClientsAre /\ ClientsAre' /\ ClientsFinite
  <2>1. PoolOrder' => ClientsAre'
    BY WhoIsAClient, PTL
  <2> QED BY <2>1, WhoIsAClient, FinitelyManyClients DEF ServerInv
<1>1. /\ serves[w] # 0 /\ w \notin leaving /\ leaving' = leaving \cup {w}
      /\ client_cnt' = client_cnt - 1
      /\ UNCHANGED P /\ UNCHANGED <<mainAt, serves, nodes>>
      /\ \/ open' = open \ {serves[w]} /\ cut' = cut
         \/ open' = open /\ cut' = cut \cup {serves[w]}
  BY DEF Server!ClientEof, Server!ClientReset, Server!Leaves, Server!poolVars, P
<1>a. /\ serves[w] \in 1 .. Len(begun) /\ Len(begun) <= added
      /\ Len(begun) \in Nat /\ added \in Nat
  BY <1>1 DEF ServerInv, ServerPlaces, PoolOrder
<1>2. Server!Clients' = Server!Clients \ {serves[w]}
  <2>1. ASSUME NEW n PROVE n \in Server!Clients' <=> n \in Server!Clients /\ n # serves[w]
    <3>1. (\E v \in PoolWorkers : v \notin leaving' /\ serves[v] = n /\ n # 0)
          <=> /\ \E v \in PoolWorkers : v \notin leaving /\ serves[v] = n /\ n # 0
              /\ n # serves[w]
      BY <1>1 DEF ServerInv, ServerPlaces
    <3>2. serves[w] # added + 1 /\ serves[w] \notin Len(begun) + 1 .. added
      BY <1>a
    <3> QED BY <1>0, <1>1, <3>1, <3>2 DEF ClientsAre, P
  <2> QED BY <2>1
<1>3. serves[w] \in Server!Clients
  BY <1>0, <1>1 DEF ClientsAre
<1>4. /\ Cardinality(Server!Clients') = Cardinality(Server!Clients) - 1
      /\ Cardinality(Server!Clients) \in Nat /\ Cardinality(leaving) \in Nat
      /\ Cardinality(leaving') = Cardinality(leaving) + 1 /\ IsFiniteSet(leaving')
  BY <1>0, <1>1, <1>2, <1>3, FS_RemoveElement, FS_AddElement, FS_CardinalityType
     DEF ClientsFinite, ServerInv, ServerTypeOK
<1>5. ServerTypeOK'
  BY <1>1, <1>4 DEF ServerInv, ServerTypeOK, P
<1>6. ServerPlaces'
  BY <1>1, <1>a DEF ServerInv, ServerPlaces, P
<1>7. open' \ cut' = (open \ cut) \ {serves[w]}
  BY <1>1
<1>8. serves[w] # added + 1
  BY <1>a
<1>9. ServerOpen'
  BY <1>1, <1>2, <1>7, <1>8 DEF ServerInv, ServerOpen, P
<1>10. ServerCounts'
  BY <1>1, <1>4 DEF ServerInv, ServerTypeOK, ServerCounts
<1> QED BY <1>5, <1>6, <1>9, <1>10 DEF ServerInv

LEMMA ServerPutsNode ==
    ASSUME PoolOrder, PoolOrder', ServerInv, NEW w \in PoolWorkers, Server!NodePut(w)
    PROVE  ServerInv'
<1>0. ClientsAre /\ ClientsAre'
  <2>1. PoolOrder' => ClientsAre'
    BY WhoIsAClient, PTL
  <2> QED BY <2>1, WhoIsAClient
<1>1. /\ w \in leaving /\ leaving' = leaving \ {w} /\ serves' = [serves EXCEPT ![w] = 0]
      /\ nodes' = nodes + 1
      /\ UNCHANGED P /\ UNCHANGED <<mainAt, open, cut, client_cnt>>
  BY DEF Server!NodePut, Server!poolVars, P
<1>2. serves'[w] = 0 /\ \A v \in PoolWorkers : v # w => serves'[v] = serves[v]
  BY <1>1 DEF ServerInv, ServerTypeOK
<1>3. Server!Clients' = Server!Clients
  <2>1. ASSUME NEW n PROVE n \in Server!Clients' <=> n \in Server!Clients
    <3>1. (\E v \in PoolWorkers : v \notin leaving' /\ serves'[v] = n /\ n # 0)
          <=> \E v \in PoolWorkers : v \notin leaving /\ serves[v] = n /\ n # 0
      BY <1>1, <1>2
    <3> QED BY <1>0, <1>1, <3>1 DEF ClientsAre, P
  <2> QED BY <2>1
<1>4. /\ Cardinality(leaving') = Cardinality(leaving) - 1 /\ IsFiniteSet(leaving')
      /\ Cardinality(leaving) \in Nat
  BY <1>1, FS_RemoveElement, FS_CardinalityType DEF ServerInv, ServerTypeOK
<1>5. ServerTypeOK'
  BY <1>1, <1>4 DEF ServerInv, ServerTypeOK, P
<1>6. ServerPlaces'
  BY <1>1, <1>2 DEF ServerInv, ServerTypeOK, ServerPlaces, P
<1>7. ServerCounts'
  <2>1. Cardinality(Server!Clients) \in Int
    BY DEF ServerInv, ServerTypeOK, ServerCounts
  <2> QED BY <1>1, <1>3, <1>4, <2>1 DEF ServerInv, ServerTypeOK, ServerCounts
<1>8. ServerOpen'
  BY <1>1, <1>3 DEF ServerInv, ServerOpen, P
<1> QED BY <1>5, <1>6, <1>7, <1>8 DEF ServerInv

(* Everything else: a worker on its way, a signal, the two Destroys.       *)
LEMMA ServerElsewhere ==
    ASSUME ServerInv, UNCHANGED <<begun, added, serves, leaving, open, cut, nodes, client_cnt>>,
           ServerTypeOK',
           \A w \in PoolWorkers : serves[w] # 0 => worker'[w] = worker[w],
           mainAt' = mainAt \/ (mainAt \in {"loop", "end"} /\ mainAt' \in {"end", "gone"})
    PROVE  ServerInv'
<1>1. ServerPlaces'
  BY DEF ServerInv, ServerPlaces
<1>2. Server!Clients' = Server!Clients
  BY DEF Server!Clients, Server!InHand, Server!Waiting, Server!Served
<1>3. ServerCounts' /\ ServerOpen'
  BY <1>2, CountsKept DEF ServerInv
<1> QED BY <1>1, <1>3 DEF ServerInv

LEMMA ServerStep ==
    ASSUME PoolOrder, PoolOrder', ServerInv, Server!ServerNext
    PROVE  ServerInv'
<1> USE DEF Server!Is, Server!Becomes
<1>1. CASE Server!ListenerCb \/ Server!NodeGet \/ Server!TaskAdd
  BY <1>1, ServerListens
<1>2. CASE Server!SignalUser \/ Server!LoopEnds \/ Server!ListEnds
  <2>1. ServerTypeOK'
    BY <1>2 DEF Server!SignalUser, Server!LoopEnds, Server!ListEnds, Server!poolVars,
                ServerInv, ServerTypeOK
  <2> QED BY <1>2, <2>1, ServerElsewhere
             DEF Server!SignalUser, Server!LoopEnds, Server!ListEnds, Server!poolVars
<1>3. CASE Server!PoolEnds
  <2>1. UNCHANGED <<worker, begun, added>> /\ UNCHANGED Server!serverVars
    BY <1>3 DEF Server!PoolEnds, Server!PoolExit, Server!PoolDestroy, Server!PoolTell,
                Server!PoolFreeFifo, Server!PoolJoin
  <2>2. ServerTypeOK'
    BY <2>1 DEF Server!serverVars, ServerInv, ServerTypeOK
  <2> QED BY <2>1, <2>2, ServerElsewhere DEF Server!serverVars
<1>4. ASSUME NEW w \in PoolWorkers, ~Server!WorkerWaits(w),
             Server!TaskEnds(w) \/ Server!WorkerGoes(w)
      PROVE  ServerInv'
  <2>1. /\ UNCHANGED <<begun, added>> /\ UNCHANGED Server!serverVars
        /\ \E to \in {"start", "loop", "read", "task", "gone"} :
              worker' = [worker EXCEPT ![w] = to]
        /\ serves[w] = 0
    BY <1>4 DEF Server!TaskEnds, Server!WorkerGoes, Server!WorkerTask, Server!WorkerStart,
                Server!WorkerLoop, Server!WorkerTold, ServerInv, ServerPlaces
  <2>2. ServerTypeOK'
    BY <2>1 DEF Server!serverVars, ServerInv, ServerTypeOK
  <2>3. \A v \in PoolWorkers : serves[v] # 0 => worker'[v] = worker[v]
    BY <2>1 DEF ServerInv, ServerTypeOK
  <2> QED BY <2>1, <2>2, <2>3, ServerElsewhere DEF Server!serverVars
<1>5. ASSUME UNCHANGED <<worker, begun, added>>, UNCHANGED Server!serverVars PROVE ServerInv'
  <2>1. ServerTypeOK'
    BY <1>5 DEF Server!serverVars, ServerInv, ServerTypeOK
  <2> QED BY <1>5, <2>1, ServerElsewhere DEF Server!serverVars
<1>6. ASSUME NEW w \in PoolWorkers, Server!WorkerWaits(w), UNCHANGED Server!serverVars
      PROVE  ServerInv'
  BY <1>5, <1>6 DEF Server!WorkerWaits, Server!Parks, Server!Sleeps
<1>7. CASE Server!TaskAddWaits
  BY <1>5, <1>7 DEF Server!TaskAddWaits, Server!AddWaits, Server!Parks, Server!Sleeps
<1>8. CASE Server!SpuriousWake
  BY <1>5, <1>8 DEF Server!SpuriousWake, Server!Spurious
<1>9. ASSUME NEW w \in PoolWorkers,
             Server!ServerWorker(w) \/ Server!ClientEof(w) \/ Server!ClientReset(w)
      PROVE  ServerInv'
  <2>1. CASE Server!Serve(w)
    BY <2>1, ServerServes
  <2>2. CASE Server!NodePut(w)
    BY <2>2, ServerPutsNode
  <2>3. CASE Server!ClientEof(w) \/ Server!ClientReset(w)
    BY <2>3, ServerLeaves
  <2>4. CASE Server!WorkerGoes(w)
    <3>1. CASE Server!WorkerWaits(w)
      BY <1>6, <2>4, <3>1 DEF Server!WorkerGoes
    <3> QED BY <1>4, <2>4, <3>1
  <2>5. CASE Server!TaskEnds(w)
    <3>1. CASE Server!WorkerWaits(w)
      BY <1>6, <2>5, <3>1 DEF Server!TaskEnds
    <3> QED BY <1>4, <2>5, <3>1
  <2> QED BY <1>9, <2>1, <2>2, <2>3, <2>4, <2>5 DEF Server!ServerWorker
<1> QED BY <1>1, <1>2, <1>3, <1>7, <1>8, <1>9 DEF Server!ServerNext, Server!ServerMain

(* EvConnListenerDemo: list, pool and counter account for every client, of *)
(* any number, with any number of workers, nodes and places in the pool.   *)
THEOREM EveryClientAccountedFor == Spec => []ClientsAccountedFor
<1> DEFINE Inv == active = "server" => ServerInv
<1>1. Init => Inv
  <2> SUFFICES ASSUME Init PROVE ServerInv
    OBVIOUS
  <2>1. Server!ServerInit /\ Pool!PoolInit
    BY DEF Init
  <2>2. IsFiniteSet(leaving)
    BY <2>1, FS_EmptySet DEF Server!ServerInit
  <2>3. ServerTypeOK /\ ServerPlaces
    BY <2>1, <2>2, ServicesAssumption
       DEF Server!ServerInit, Pool!PoolInit, ServerTypeOK, ServerPlaces
  <2>4. Server!Clients = {}
    BY <2>1 DEF Server!ServerInit, Pool!PoolInit, Server!Clients, Server!InHand,
                Server!Waiting, Server!Served
  <2>5. ServerCounts /\ ServerOpen
    BY <2>1, <2>4, FS_EmptySet, ServicesAssumption
       DEF Server!ServerInit, ServerCounts, ServerOpen
  <2> QED BY <2>3, <2>5 DEF ServerInv
<1>2. Inv /\ PoolOrder /\ PoolOrder' /\ [Next]_servicesVars => Inv'
  <2> SUFFICES ASSUME Inv, PoolOrder, PoolOrder', [Next]_servicesVars, active' = "server"
               PROVE  ServerInv'
    OBVIOUS
  <2>1. active = "server" /\ (Server!ServerNext \/ UNCHANGED <<P, D>>)
    BY DEF Next, Runs, servicesVars, P, D
  <2>2. CASE UNCHANGED <<P, D>>
    <3>1. ServerTypeOK'
      BY <2>1, <2>2 DEF P, D, ServerInv, ServerTypeOK
    <3> QED BY <2>1, <2>2, <3>1, ServerElsewhere DEF P, D
  <2> QED BY <2>1, <2>2, ServerStep
<1>3. Inv => ClientsAccountedFor
  BY AccountedForIs DEF ServerInv, ClientsAccountedFor
<1> QED BY <1>1, <1>2, <1>3, PoolOrderInvariant, PTL DEF Spec, servicesVars

-----------------------------------------------------------------------------
(* Remainders: where a counter is in a ring of n places.                   *)
LEMMA ModParts ==
    ASSUME NEW n \in Nat \ {0}, NEW a \in Nat
    PROVE  /\ a % n \in 0 .. n - 1 /\ a \div n \in Int
           /\ a = n * (a \div n) + (a % n)
OBVIOUS

LEMMA NoMultipleBetween ==
    ASSUME NEW n \in Nat \ {0}, NEW z \in Int
    PROVE  ~(0 < n * z /\ n * z < n)
<1>1. CASE z <= 0
  <2>1. n * z <= 0
    BY <1>1
  <2> QED BY <2>1
<1>2. CASE z >= 1
  <2>1. n * z >= n
    BY <1>2
  <2> QED BY <2>1
<1> QED BY <1>1, <1>2

LEMMA ModUnique ==
    ASSUME NEW n \in Nat \ {0}, NEW a \in Nat, NEW q \in Int, NEW r \in 0 .. n - 1,
           a = n * q + r
    PROVE  a % n = r
<1> DEFINE p == a \div n
           s == a % n
<1>1. p \in Int /\ s \in 0 .. n - 1 /\ a = n * p + s
  BY ModParts
<1>2. n * p \in Int /\ n * q \in Int
  BY <1>1
<1> HIDE DEF p, s
<1>3. n * (q - p) = n * q - n * p /\ n * (p - q) = n * p - n * q
  BY <1>1
<1>4. s - r = n * (q - p) /\ r - s = n * (p - q)
  BY <1>1, <1>2, <1>3
<1>5. q - p \in Int /\ p - q \in Int
  BY <1>1
<1>6. ~(0 < s - r /\ s - r < n) /\ ~(0 < r - s /\ r - s < n)
  BY <1>4, <1>5, NoMultipleBetween
<1>7. s = r
  BY <1>1, <1>6
<1> QED BY <1>7 DEF s

LEMMA ModNext ==
    ASSUME NEW n \in Nat \ {0}, NEW a \in Nat
    PROVE  ((a % n) + 1) % n = (a + 1) % n
<1> DEFINE q == a \div n
           r == a % n
<1>1. q \in Int /\ r \in 0 .. n - 1 /\ a = n * q + r
  BY ModParts
<1>2. n * q \in Int /\ n * (q + 1) = n * q + n
  BY <1>1
<1> HIDE DEF q, r
<1>3. CASE r + 1 < n
  <2>1. a + 1 = n * q + (r + 1) /\ r + 1 \in 0 .. n - 1 /\ a + 1 \in Nat
    BY <1>1, <1>2, <1>3
  <2>2. (a + 1) % n = r + 1
    BY <1>1, <2>1, ModUnique
  <2>3. r + 1 = n * 0 + (r + 1) /\ r + 1 \in Nat
    BY <1>1
  <2>4. (r + 1) % n = r + 1
    BY <2>1, <2>3, ModUnique
  <2> QED BY <2>2, <2>4 DEF r
<1>4. CASE r + 1 = n
  <2>1. a + 1 = n * (q + 1) + 0 /\ 0 \in 0 .. n - 1 /\ a + 1 \in Nat /\ q + 1 \in Int
    BY <1>1, <1>2, <1>4
  <2>2. (a + 1) % n = 0
    BY <2>1, ModUnique
  <2>3. r + 1 = n * 1 + 0 /\ r + 1 \in Nat
    BY <1>1, <1>4
  <2>4. (r + 1) % n = 0
    BY <2>1, <2>3, ModUnique
  <2> QED BY <2>2, <2>4 DEF r
<1> QED BY <1>1, <1>3, <1>4

LEMMA ModApart ==
    ASSUME NEW n \in Nat \ {0}, NEW a \in Nat, NEW b \in Nat, a < b, b - a < n
    PROVE  a % n # b % n
<1> SUFFICES ASSUME a % n = b % n PROVE FALSE
  OBVIOUS
<1> DEFINE p == a \div n
           q == b \div n
           r == a % n
<1>1. p \in Int /\ q \in Int /\ r \in Int /\ a = n * p + r /\ b = n * q + r
  BY ModParts
<1>2. n * p \in Int /\ n * q \in Int /\ n * (q - p) = n * q - n * p /\ q - p \in Int
  BY <1>1
<1> HIDE DEF p, q, r
<1>3. b - a = n * (q - p)
  BY <1>1, <1>2
<1> QED BY <1>2, <1>3, NoMultipleBetween

-----------------------------------------------------------------------------
(* HyThreadPoolBak.  The ring holds the tasks that were added and not      *)
(* taken, wherever it has come to; read_pos is at the first of them until  *)
(* a worker stores a position that is out of date.  A worker that is gone  *)
(* saw the end, and an empty ring when the end was to be graceful.         *)
BakTypeOK ==
    /\ thread \in [BakWorkers -> [pc : {"lock", "wait", "woken", "task", "gone"},
                                  next : 0 .. task_max_cnt - 1]]
    /\ shutdown \in {"running", "immediate", "graceful"}
    /\ read_pos \in 0 .. task_max_cnt - 1

BakCounts ==
    /\ given \in Nat /\ task_pending_cnt \in Nat /\ task_pending_cnt <= task_max_cnt
    /\ taken \in Seq(Nat) /\ Len(taken) + task_pending_cnt = given

BakRing ==
    /\ ring \in [0 .. task_max_cnt - 1 -> Nat]
    /\ write_pos = given % task_max_cnt
    /\ \A i \in Len(taken) + 1 .. given : ring[(i - 1) % task_max_cnt] = i

BakInOrder ==
    /\ stale \in BOOLEAN
    /\ ~stale => /\ read_pos = Len(taken) % task_max_cnt
                 /\ \A i \in 1 .. Len(taken) : taken[i] = i

BakEnds ==
    /\ bakEnd = "run" => shutdown = "running"
    /\ \A w \in BakWorkers : thread[w].pc = "gone" =>
           shutdown # "running" /\ (shutdown = "graceful" => task_pending_cnt = 0)
    /\ bakEnd = "gone" => \A w \in BakWorkers : thread[w].pc = "gone"

BakInv == BakTypeOK /\ BakCounts /\ BakRing /\ BakInOrder /\ BakEnds

(* What a step may do to the threads: nobody who is gone comes back, and   *)
(* nobody goes without the end in sight.                                   *)
ThreadsMove ==
    /\ thread' \in [BakWorkers -> [pc : {"lock", "wait", "woken", "task", "gone"},
                                   next : 0 .. task_max_cnt - 1]]
    /\ \A w \in BakWorkers :
          /\ thread[w].pc = "gone" => thread'[w].pc = "gone"
          /\ thread'[w].pc = "gone" => \/ thread[w].pc = "gone"
                                       \/ shutdown = "immediate"
                                       \/ shutdown = "graceful" /\ task_pending_cnt = 0

(* One thread moves.                                                       *)
LEMMA ThreadMoves ==
    ASSUME BakTypeOK, NEW w \in BakWorkers, thread[w].pc # "gone",
           NEW to \in [pc : {"lock", "wait", "woken", "task", "gone"},
                       next : 0 .. task_max_cnt - 1],
           thread' = [thread EXCEPT ![w] = to],
           to.pc = "gone" => \/ shutdown = "immediate"
                             \/ shutdown = "graceful" /\ task_pending_cnt = 0
    PROVE  ThreadsMove
<1>1. thread'[w] = to /\ \A v \in BakWorkers : v # w => thread'[v] = thread[v]
  BY DEF BakTypeOK
<1>2. thread' \in [BakWorkers -> [pc : {"lock", "wait", "woken", "task", "gone"},
                                  next : 0 .. task_max_cnt - 1]]
  BY DEF BakTypeOK
<1> QED BY <1>1, <1>2 DEF ThreadsMove

LEMMA SignalMoves ==
    ASSUME BakTypeOK, Bak!Signal
    PROVE  ThreadsMove
<1>1. CASE UNCHANGED thread
  BY <1>1 DEF BakTypeOK, ThreadsMove
<1>2. CASE \E w \in BakWorkers : /\ thread[w].pc = "wait"
                                 /\ thread' = [thread EXCEPT ![w].pc = "woken"]
  <2>1. PICK w \in BakWorkers : /\ thread[w].pc = "wait"
                                /\ thread' = [thread EXCEPT ![w].pc = "woken"]
    BY <1>2
  <2> DEFINE to == [thread[w] EXCEPT !.pc = "woken"]
  <2>2. thread' = [thread EXCEPT ![w] = to]
    BY <2>1
  <2>3. /\ to \in [pc : {"lock", "wait", "woken", "task", "gone"}, next : 0 .. task_max_cnt - 1]
        /\ to.pc = "woken"
    BY DEF BakTypeOK
  <2> HIDE DEF to
  <2> QED BY <2>1, <2>2, <2>3, ThreadMoves
<1> QED BY <1>1, <1>2 DEF Bak!Signal

(* A step that takes no task and adds none.                                *)
LEMMA BakKeeps ==
    ASSUME BakInv, ThreadsMove,
           UNCHANGED <<ring, task_pending_cnt, read_pos, write_pos, given, taken, stale>>,
           \/ UNCHANGED <<shutdown, bakEnd>>
           \/ bakEnd = "run" /\ bakEnd' = "flagged" /\ shutdown' \in {"running", "immediate", "graceful"}
           \/ bakEnd' = "join" /\ UNCHANGED shutdown /\ bakEnd # "run"
           \/ bakEnd' = "gone" /\ UNCHANGED shutdown /\ bakEnd # "run"
              /\ \A w \in BakWorkers : thread[w].pc = "gone"
    PROVE  BakInv'
<1>1. BakTypeOK'
  BY DEF BakInv, BakTypeOK, ThreadsMove
<1>2. BakCounts' /\ BakRing' /\ BakInOrder'
  BY DEF BakInv, BakCounts, BakRing, BakInOrder
<1>3. BakEnds'
  BY DEF BakInv, BakTypeOK, BakEnds, ThreadsMove
<1> QED BY <1>1, <1>2, <1>3 DEF BakInv

LEMMA BakAdds ==
    ASSUME BakInv, Bak!BakAdd
    PROVE  BakInv'
<1>1. /\ bakEnd \in {"run", "flagged"} /\ task_pending_cnt # task_max_cnt /\ shutdown = "running"
      /\ ring' = [ring EXCEPT ![write_pos] = given + 1]
      /\ write_pos' = (write_pos + 1) % task_max_cnt
      /\ task_pending_cnt' = task_pending_cnt + 1 /\ given' = given + 1
      /\ Bak!Signal
      /\ UNCHANGED <<read_pos, taken, stale, shutdown, bakEnd>>
  BY DEF Bak!BakAdd, Bak!After, Bak!ends
<1>2. ThreadsMove
  BY <1>1, SignalMoves DEF BakInv
<1>3. /\ given \in Nat /\ Len(taken) \in Nat /\ task_max_cnt \in Nat \ {0}
      /\ write_pos = given % task_max_cnt /\ write_pos \in 0 .. task_max_cnt - 1
      /\ Len(taken) <= given /\ given - Len(taken) < task_max_cnt
  <2>1. given \in Nat /\ Len(taken) \in Nat /\ task_max_cnt \in Nat \ {0}
        /\ write_pos = given % task_max_cnt
        /\ Len(taken) + task_pending_cnt = given /\ task_pending_cnt \in Nat
        /\ task_pending_cnt <= task_max_cnt
    BY ServicesAssumption DEF BakInv, BakCounts, BakRing
  <2>2. write_pos \in 0 .. task_max_cnt - 1
    BY <2>1, ModParts
  <2> QED BY <1>1, <2>1, <2>2
<1>4. BakTypeOK'
  BY <1>1, <1>2 DEF BakInv, BakTypeOK, ThreadsMove
<1>5. BakCounts'
  BY <1>1, ServicesAssumption DEF BakInv, BakCounts
<1>6. BakRing'
  <2>1. ring' \in [0 .. task_max_cnt - 1 -> Nat]
    BY <1>1, <1>3 DEF BakInv, BakRing
  <2>2. write_pos' = given' % task_max_cnt
    BY <1>1, <1>3, ModNext
  <2>3. ASSUME NEW i \in Len(taken) + 1 .. given + 1
        PROVE  ring'[(i - 1) % task_max_cnt] = i
    <3>1. CASE i = given + 1
      BY <1>1, <1>3, <3>1 DEF BakInv, BakRing
    <3>2. CASE i # given + 1
      <4>1. /\ i \in Len(taken) + 1 .. given /\ i - 1 \in Nat
            /\ i - 1 < given /\ given - (i - 1) < task_max_cnt
        BY <1>3, <3>2
      <4>2. (i - 1) % task_max_cnt # write_pos
        BY <1>3, <4>1, ModApart
      <4>3. (i - 1) % task_max_cnt \in 0 .. task_max_cnt - 1
        BY <1>3, <4>1, ModParts
      <4>4. ring[(i - 1) % task_max_cnt] = i
        BY <4>1 DEF BakInv, BakRing
      <4>5. ring \in [0 .. task_max_cnt - 1 -> Nat]
        BY DEF BakInv, BakRing
      <4> HIDE DEF BakInv
      <4> QED BY <1>1, <4>2, <4>3, <4>4, <4>5
    <3> QED BY <3>1, <3>2
  <2> QED BY <1>1, <2>1, <2>2, <2>3 DEF BakRing
<1>7. BakInOrder'
  BY <1>1 DEF BakInv, BakInOrder
<1>8. BakEnds'
  BY <1>1, <1>2 DEF BakInv, BakTypeOK, BakEnds, ThreadsMove
<1> QED BY <1>4, <1>5, <1>6, <1>7, <1>8 DEF BakInv

(* A worker that holds the mutex: it waits, it goes, or it takes the task  *)
(* at read_pos and stores the position it computed.                        *)
LEMMA BakDecides ==
    ASSUME BakInv, NEW w \in BakWorkers, thread[w].pc \in {"lock", "woken"},
           NEW next_ \in 0 .. task_max_cnt - 1, Bak!Decide(w, next_),
           UNCHANGED <<ring, write_pos, given, shutdown, bakEnd>>
    PROVE  BakInv'
<1> DEFINE n == task_max_cnt
<1>1. CASE task_pending_cnt = 0 /\ shutdown = "running"
  <2>1. /\ thread' = [thread EXCEPT ![w] = [pc |-> "wait", next |-> next_]]
        /\ UNCHANGED <<taken, stale, read_pos, task_pending_cnt>>
    BY <1>1 DEF Bak!Decide
  <2>2. ThreadsMove
    BY <2>1, ThreadMoves DEF BakInv
  <2> QED BY <2>1, <2>2, BakKeeps
<1>2. CASE shutdown = "immediate" \/ (shutdown = "graceful" /\ task_pending_cnt = 0)
  <2>1. /\ thread' = [thread EXCEPT ![w] = [pc |-> "gone", next |-> 0]]
        /\ UNCHANGED <<taken, stale, read_pos, task_pending_cnt>>
    BY <1>2 DEF Bak!Decide
  <2>2. 0 \in 0 .. n - 1
    BY ServicesAssumption
  <2>3. ThreadsMove
    BY <1>2, <2>1, <2>2, ThreadMoves DEF BakInv
  <2> QED BY <2>1, <2>3, BakKeeps
<1>3. CASE /\ ~(task_pending_cnt = 0 /\ shutdown = "running")
           /\ ~(shutdown = "immediate" \/ (shutdown = "graceful" /\ task_pending_cnt = 0))
  <2>1. /\ taken' = Append(taken, ring[read_pos])
        /\ stale' = (stale \/ next_ # (read_pos + 1) % n)
        /\ read_pos' = next_ /\ task_pending_cnt' = task_pending_cnt - 1
        /\ thread' = [thread EXCEPT ![w] = [pc |-> "task", next |-> next_]]
    BY <1>3 DEF Bak!Decide, Bak!Take, Bak!After
  <2>2. task_pending_cnt # 0
    BY <1>3 DEF BakInv, BakTypeOK
  <2>3. ThreadsMove
    BY <2>1, ThreadMoves DEF BakInv
  <2>4. /\ ring[read_pos] \in Nat /\ taken \in Seq(Nat) /\ Len(taken) \in Nat
        /\ given \in Nat /\ Len(taken) + task_pending_cnt = given
        /\ task_pending_cnt \in Nat /\ n \in Nat \ {0} /\ task_pending_cnt <= n
    BY ServicesAssumption DEF BakInv, BakTypeOK, BakCounts, BakRing
  <2>5. /\ taken' \in Seq(Nat) /\ Len(taken') = Len(taken) + 1
        /\ \A i \in 1 .. Len(taken) : taken'[i] = taken[i]
        /\ taken'[Len(taken) + 1] = ring[read_pos]
    BY <2>1, <2>4
  <2>6. BakTypeOK'
    BY <2>1, <2>3 DEF BakInv, BakTypeOK, ThreadsMove
  <2>7. BakCounts'
    <3>1. Len(taken') + task_pending_cnt' = given
      <4>1. Len(taken') = Len(taken) + 1 /\ task_pending_cnt' = task_pending_cnt - 1
        BY <2>1, <2>5
      <4>2. (Len(taken) + 1) + (task_pending_cnt - 1) = given
        BY <2>4
      <4> QED BY <4>1, <4>2
    <3>2. task_pending_cnt' \in Nat /\ task_pending_cnt' <= n
      BY <2>1, <2>2, <2>4
    <3> QED BY <2>4, <2>5, <3>1, <3>2 DEF BakCounts
  <2>8. BakRing'
    <3>1. Len(taken') + 1 .. given \subseteq Len(taken) + 1 .. given
      BY <2>4, <2>5
    <3> QED BY <3>1 DEF BakInv, BakRing
  <2>9. BakInOrder'
    <3> SUFFICES ASSUME ~stale'
                 PROVE  /\ read_pos' = Len(taken') % n
                        /\ \A i \in 1 .. Len(taken') : taken'[i] = i
      BY <2>1 DEF BakInv, BakInOrder
    <3>1. /\ next_ = (read_pos + 1) % n /\ read_pos = Len(taken) % n
          /\ \A i \in 1 .. Len(taken) : taken[i] = i
      BY <2>1 DEF BakInv, BakInOrder
    <3>2. read_pos' = Len(taken') % n
      BY <2>1, <2>4, <2>5, <3>1, ModNext
    <3>3. ring[read_pos] = Len(taken) + 1
      <4>1. Len(taken) + 1 \in Len(taken) + 1 .. given /\ (Len(taken) + 1) - 1 = Len(taken)
        BY <2>2, <2>4
      <4> QED BY <3>1, <4>1 DEF BakInv, BakRing
    <3>4. ASSUME NEW i \in 1 .. Len(taken') PROVE taken'[i] = i
      <4>1. CASE i \in 1 .. Len(taken)
        BY <2>5, <3>1, <4>1
      <4>2. CASE i = Len(taken) + 1
        BY <2>5, <3>3, <4>2
      <4> QED BY <2>4, <2>5, <4>1, <4>2
    <3> QED BY <3>2, <3>4
  <2>10. BakEnds'
    <3>1. \A v \in BakWorkers : thread[v].pc # "gone"
      BY <1>3, <2>2 DEF BakInv, BakTypeOK, BakEnds
    <3>2. \A v \in BakWorkers : thread'[v].pc # "gone"
      BY <1>3, <2>2, <3>1, <2>3 DEF ThreadsMove
    <3> QED BY <2>2, <3>1, <3>2 DEF BakInv, BakEnds
  <2> QED BY <2>6, <2>7, <2>8, <2>9, <2>10 DEF BakInv
<1> QED BY <1>1, <1>2, <1>3

LEMMA BakStep ==
    ASSUME BakInv, Bak!BakNext
    PROVE  BakInv'
<1>1. CASE Bak!BakAdd
  BY <1>1, BakAdds
<1>2. CASE Bak!BakShutdown
  <2>1. ThreadsMove
    BY <1>2 DEF Bak!BakShutdown, BakInv, BakTypeOK, ThreadsMove
  <2> QED BY <1>2, <2>1, BakKeeps DEF Bak!BakShutdown
<1>3. CASE Bak!BakBroadcast
  <2>1. ThreadsMove
    <3> SUFFICES ASSUME NEW w \in BakWorkers
                 PROVE  /\ thread'[w] \in [pc : {"lock", "wait", "woken", "task", "gone"},
                                           next : 0 .. task_max_cnt - 1]
                        /\ thread'[w].pc = "gone" <=> thread[w].pc = "gone"
      BY <1>3 DEF Bak!BakBroadcast, ThreadsMove
    <3> QED BY <1>3 DEF Bak!BakBroadcast, BakInv, BakTypeOK
  <2> QED BY <1>3, <2>1, BakKeeps DEF Bak!BakBroadcast
<1>4. CASE Bak!BakJoin
  <2>1. ThreadsMove
    BY <1>4 DEF Bak!BakJoin, BakInv, BakTypeOK, ThreadsMove
  <2> QED BY <1>4, <2>1, BakKeeps DEF Bak!BakJoin
<1>5. ASSUME NEW w \in BakWorkers, Bak!BakLock(w)
      PROVE  BakInv'
  <2>1. (read_pos + 1) % task_max_cnt \in 0 .. task_max_cnt - 1
    BY ServicesAssumption, ModParts DEF BakInv, BakTypeOK
  <2> QED BY <1>5, <2>1, BakDecides DEF Bak!BakLock, Bak!After, Bak!ends
<1>6. ASSUME NEW w \in BakWorkers, Bak!BakWoken(w)
      PROVE  BakInv'
  <2>1. thread[w].next \in 0 .. task_max_cnt - 1
    BY DEF BakInv, BakTypeOK
  <2> QED BY <1>6, <2>1, BakDecides DEF Bak!BakWoken, Bak!ends
<1>7. ASSUME NEW w \in BakWorkers, Bak!BakTask(w) \/ Bak!BakSpurious(w)
      PROVE  BakInv'
  <2>1. PICK label \in {"lock", "woken"} :
            thread[w].pc # "gone" /\ thread' = [thread EXCEPT ![w].pc = label]
    BY <1>7 DEF Bak!BakTask, Bak!BakSpurious
  <2> DEFINE to == [thread[w] EXCEPT !.pc = label]
  <2>2. thread' = [thread EXCEPT ![w] = to]
    BY <2>1
  <2>3. /\ to \in [pc : {"lock", "wait", "woken", "task", "gone"}, next : 0 .. task_max_cnt - 1]
        /\ to.pc # "gone"
    BY DEF BakInv, BakTypeOK
  <2> HIDE DEF to
  <2>4. ThreadsMove
    BY <2>1, <2>2, <2>3, ThreadMoves DEF BakInv
  <2> QED BY <1>7, <2>4, BakKeeps DEF Bak!BakTask, Bak!BakSpurious, Bak!ends
<1> QED BY <1>1, <1>2, <1>3, <1>4, <1>5, <1>6, <1>7
        DEF Bak!BakNext, Bak!BakDestroy, Bak!BakWorker

(* HyThreadPoolBak: tasks are taken in their order, each once, as long as  *)
(* no worker stores a position that is out of date; and when the pool is   *)
(* gone gracefully all were taken.  A pool may be created with no worker   *)
(* at all: then nobody takes what is added.                                *)
THEOREM BakTakesOnce ==
    ASSUME BakWorkers # {}
    PROVE  Spec => []TakenOnceUntilStale
<1>1. Init => BakInv
  <2> SUFFICES ASSUME Init PROVE BakInv
    OBVIOUS
  <2>1. Bak!BakInit
    BY DEF Init
  <2>2. task_max_cnt \in Nat \ {0} /\ 0 % task_max_cnt = 0 /\ 0 \in 0 .. task_max_cnt - 1
    BY ServicesAssumption
  <2>3. BakTypeOK
    BY <2>1, <2>2 DEF Bak!BakInit, BakTypeOK
  <2>4. BakCounts
    BY <2>1, <2>2 DEF Bak!BakInit, BakCounts
  <2>5. BakRing
    BY <2>1, <2>2 DEF Bak!BakInit, BakRing
  <2>6. BakInOrder
    <3>1. stale \in BOOLEAN
      BY <2>1, Zenon DEF Bak!BakInit
    <3>2. read_pos = Len(taken) % task_max_cnt /\ \A i \in 1 .. Len(taken) : taken[i] = i
      BY <2>1, <2>2 DEF Bak!BakInit
    <3> QED BY <3>1, <3>2 DEF BakInOrder
  <2>7. BakEnds
    BY <2>1 DEF Bak!BakInit, BakEnds
  <2> QED BY <2>3, <2>4, <2>5, <2>6, <2>7 DEF BakInv
<1>2. BakInv /\ [Next]_servicesVars => BakInv'
  <2> SUFFICES ASSUME BakInv, [Next]_servicesVars PROVE BakInv'
    OBVIOUS
  <2>1. Bak!BakNext \/ UNCHANGED B
    BY DEF Next, servicesVars, B
  <2>2. CASE UNCHANGED B
    <3>1. ThreadsMove
      BY <2>2, SMTT(40) DEF B, BakInv, BakTypeOK, ThreadsMove
    <3> QED BY <2>2, <3>1, BakKeeps DEF B
  <2> QED BY <2>1, <2>2, BakStep
<1>3. BakInv => TakenOnceUntilStale
  <2> SUFFICES ASSUME BakInv PROVE TakenOnceUntilStale
    OBVIOUS
  <2>1. Len(taken) + task_pending_cnt = given /\ DOMAIN taken = 1 .. Len(taken)
        /\ Len(taken) \in Nat /\ given \in Nat
    BY DEF BakInv, BakCounts
  <2>2. ~stale => \A i \in DOMAIN taken : taken[i] = i
    BY <2>1 DEF BakInv, BakInOrder
  <2>3. bakEnd = "gone" /\ shutdown = "graceful" => task_pending_cnt = 0
    BY DEF BakInv, BakEnds
  <2>4. bakEnd = "gone" /\ shutdown = "graceful" => Len(taken) = given
    BY <2>1, <2>3
  <2> QED BY <2>1, <2>2, <2>4 DEF TakenOnceUntilStale, Bak!TakenOnceUntilStale
<1> QED BY <1>1, <1>2, <1>3, PTL DEF Spec, servicesVars

-----------------------------------------------------------------------------
(* HyTimer.  The lists of the wheel, sl: where an entry of them was before *)
(* entry f of slot t was taken out, and after an address was appended.     *)
WheelSlots == 0 .. slot_num - 1
Lists == [WheelSlots -> Seq(Timer!Addrs)]

In(sl, s, a) == \E i \in 1 .. Len(sl[s]) : sl[s][i] = a

Absent(sl, a) == \A s \in WheelSlots : ~In(sl, s, a)

OnePlace(sl) ==
    \A s, t \in WheelSlots : \A i \in 1 .. Len(sl[s]), j \in 1 .. Len(sl[t]) :
        sl[s][i] = sl[t][j] => s = t /\ i = j

TookEntry(r, sl, t, f) == r = [sl EXCEPT ![t] = Timer!RemoveAt(@, f)]
AddedTail(r, sl, t, a) == r = [sl EXCEPT ![t] = Append(@, a)]

Origin(s, i, t, f) == IF s = t /\ i >= f THEN i + 1 ELSE i

(* What that leaves: entry f gone and the others as they were, or the      *)
(* address at the tail of slot t and the others where they were.           *)
LacksEntry(r, sl, t, f) ==
    /\ r \in Lists /\ OnePlace(r) /\ Len(r[t]) = Len(sl[t]) - 1
    /\ \A s \in WheelSlots : s # t => r[s] = sl[s]
    /\ \A s \in WheelSlots : \A i \in 1 .. Len(r[s]) :
           /\ Origin(s, i, t, f) \in 1 .. Len(sl[s])
           /\ r[s][i] = sl[s][Origin(s, i, t, f)] /\ r[s][i] # sl[t][f]
    /\ \A s \in WheelSlots : \A a : In(sl, s, a) /\ a # sl[t][f] => In(r, s, a)

HasTail(r, sl, t, a) ==
    /\ r \in Lists /\ OnePlace(r)
    /\ Len(r[t]) = Len(sl[t]) + 1 /\ r[t][Len(sl[t]) + 1] = a
    /\ \A s \in WheelSlots : s # t => r[s] = sl[s]
    /\ \A s \in WheelSlots : \A i \in 1 .. Len(r[s]) :
           \/ i \in 1 .. Len(sl[s]) /\ r[s][i] = sl[s][i] /\ r[s][i] # a
           \/ s = t /\ i = Len(sl[t]) + 1 /\ r[s][i] = a
    /\ \A s \in WheelSlots : \A x : In(sl, s, x) => In(r, s, x)
    /\ In(r, t, a)

LEMMA SlotNum == slot_num \in Nat \ {0} /\ 0 \in WheelSlots
BY ServicesAssumption DEF WheelSlots

LEMMA AddrTakenOut ==
    ASSUME NEW s \in Seq(Timer!Addrs), NEW f \in 1 .. Len(s)
    PROVE  /\ Timer!RemoveAt(s, f) \in Seq(Timer!Addrs) /\ Len(Timer!RemoveAt(s, f)) = Len(s) - 1
           /\ \A i \in 1 .. Len(s) - 1 :
                  Timer!RemoveAt(s, f)[i] = IF i < f THEN s[i] ELSE s[i + 1]
<1> PICK r : r = Timer!RemoveAt(s, f)
  OBVIOUS
<1> PICK n \in Nat : n = Len(s)
  OBVIOUS
<1>1. f \in 1 .. n /\ f \in Nat /\ f - 1 \in Nat
  OBVIOUS
<1>2. PICK a : a = SubSeq(s, 1, f - 1)
  OBVIOUS
<1>3. PICK b : b = SubSeq(s, f + 1, n)
  OBVIOUS
<1>4. a \in Seq(Timer!Addrs) /\ Len(a) = f - 1 /\ \A i \in 1 .. f - 1 : a[i] = s[i]
  BY <1>1, <1>2
<1>5. b \in Seq(Timer!Addrs) /\ Len(b) = n - f /\ \A i \in 1 .. n - f : b[i] = s[f + i]
  BY <1>1, <1>3
<1>6. r = a \o b
  BY <1>2, <1>3 DEF Timer!RemoveAt
<1>7. /\ r \in Seq(Timer!Addrs) /\ Len(r) = n - 1
      /\ \A i \in 1 .. n - 1 : r[i] = IF i < f THEN a[i] ELSE b[i - (f - 1)]
  <2>1. r \in Seq(Timer!Addrs) /\ Len(r) = (f - 1) + (n - f)
    BY <1>4, <1>5, <1>6, SMTT(40)
  <2>2. (f - 1) + (n - f) = n - 1
    BY <1>1
  <2>3. \A i \in 1 .. (f - 1) + (n - f) : r[i] = IF i <= f - 1 THEN a[i] ELSE b[i - (f - 1)]
    BY <1>4, <1>5, <1>6
  <2>4. \A i \in 1 .. n - 1 : i <= f - 1 <=> i < f
    BY <1>1
  <2> QED BY <2>1, <2>2, <2>3, <2>4
<1>8. ASSUME NEW i \in 1 .. n - 1 PROVE r[i] = IF i < f THEN s[i] ELSE s[i + 1]
  <2>1. CASE i < f
    <3>1. i \in 1 .. f - 1
      BY <2>1, <1>1
    <3> QED BY <3>1, <2>1, <1>4, <1>7
  <2>2. CASE i >= f
    <3>1. PICK j \in 1 .. n - f : j = i - (f - 1)
      BY <2>2, <1>1
    <3>2. r[i] = b[j] /\ b[j] = s[f + j] /\ f + j = i + 1 /\ ~(i < f)
      BY <3>1, <2>2, <1>1, <1>5, <1>7
    <3> QED BY <3>2
  <2> QED BY <2>1, <2>2, <1>1
<1> QED BY <1>7, <1>8

LEMMA Removed ==
    ASSUME NEW sl \in Lists, OnePlace(sl), NEW t \in WheelSlots, NEW f \in 1 .. Len(sl[t]),
           NEW r, TookEntry(r, sl, t, f)
    PROVE  LacksEntry(r, sl, t, f)
<1>1. PICK q \in Seq(Timer!Addrs) : q = sl[t]
  BY DEF Lists
<1>2. PICK n \in Nat : n = Len(q) /\ n = Len(sl[t])
  BY <1>1
<1>3. PICK p : p = Timer!RemoveAt(q, f)
  OBVIOUS
<1>4. /\ p \in Seq(Timer!Addrs) /\ Len(p) = n - 1
      /\ \A i \in 1 .. n - 1 : p[i] = IF i < f THEN q[i] ELSE q[i + 1]
  <2>1. f \in 1 .. Len(q)
    BY <1>1
  <2> QED BY <2>1, <1>2, <1>3, AddrTakenOut
<1>5. r \in Lists /\ r[t] = p /\ \A s \in WheelSlots : s # t => r[s] = sl[s]
  <2>1. r = [sl EXCEPT ![t] = p]
    BY <1>1, <1>3 DEF TookEntry, AddedTail
  <2> QED BY <2>1, <1>4 DEF Lists
<1>6. ASSUME NEW s \in WheelSlots, NEW i \in 1 .. Len(r[s])
      PROVE  /\ Origin(s, i, t, f) \in 1 .. Len(sl[s])
             /\ r[s][i] = sl[s][Origin(s, i, t, f)]
             /\ ~(s = t /\ Origin(s, i, t, f) = f)
  <2>1. CASE s # t
    <3>1. r[s] = sl[s] /\ Origin(s, i, t, f) = i
      BY <2>1, <1>5 DEF Origin
    <3> QED BY <3>1, <2>1
  <2>2. CASE s = t /\ i < f
    <3>1. i \in 1 .. n - 1 /\ p[i] = q[i]
      BY <2>2, <1>2, <1>4, <1>5
    <3>2. Origin(s, i, t, f) = i /\ i \in 1 .. n
      BY <2>2, <3>1, <1>2 DEF Origin
    <3>3. ~(s = t /\ Origin(s, i, t, f) = f)
      BY <2>2, <3>2
    <3> QED BY <3>1, <3>2, <3>3, <2>2, <1>1, <1>2, <1>5
  <2>3. CASE s = t /\ i >= f
    <3>1. i \in 1 .. n - 1 /\ p[i] = q[i + 1]
      BY <2>3, <1>2, <1>4, <1>5
    <3>2. Origin(s, i, t, f) = i + 1 /\ i + 1 \in 1 .. n /\ i + 1 # f
      BY <2>3, <3>1, <1>2 DEF Origin
    <3> QED BY <3>1, <3>2, <2>3, <1>1, <1>2, <1>5
  <2>4. i \in Int /\ f \in Int
    OBVIOUS
  <2> QED BY <2>1, <2>2, <2>3, <2>4
<1>7. ASSUME NEW s \in WheelSlots, NEW i \in 1 .. Len(r[s])
      PROVE  r[s][i] # sl[t][f]
  <2>1. PICK k \in 1 .. Len(sl[s]) : r[s][i] = sl[s][k] /\ ~(s = t /\ k = f)
    BY <1>6
  <2>2. sl[s][k] # sl[t][f]
    BY <2>1 DEF OnePlace
  <2> QED BY <2>1, <2>2
<1>8. OnePlace(r)
  <2> SUFFICES ASSUME NEW s \in WheelSlots, NEW u \in WheelSlots, NEW i \in 1 .. Len(r[s]),
                      NEW j \in 1 .. Len(r[u]), r[s][i] = r[u][j]
               PROVE  s = u /\ i = j
    BY DEF OnePlace
  <2>1. s = u /\ Origin(s, i, t, f) = Origin(u, j, t, f)
    <3>1. PICK k \in 1 .. Len(sl[s]) : k = Origin(s, i, t, f) /\ r[s][i] = sl[s][k]
      BY <1>6
    <3>2. PICK l \in 1 .. Len(sl[u]) : l = Origin(u, j, t, f) /\ r[u][j] = sl[u][l]
      BY <1>6
    <3>3. sl[s][k] = sl[u][l]
      BY <3>1, <3>2
    <3>4. s = u /\ k = l
      BY <3>3 DEF OnePlace
    <3> QED BY <3>1, <3>2, <3>4
  <2>2. i = j
    <3>1. i \in Int /\ j \in Int /\ f \in Int
      OBVIOUS
    <3> QED BY <2>1, <3>1 DEF Origin
  <2> QED BY <2>1, <2>2
<1>9. ASSUME NEW s \in WheelSlots, NEW a, In(sl, s, a), a # sl[t][f]
      PROVE  In(r, s, a)
  <2>1. PICK k \in 1 .. Len(sl[s]) : sl[s][k] = a
    BY <1>9 DEF In
  <2>2. CASE s # t
    BY <2>1, <2>2, <1>5 DEF In
  <2>3. CASE s = t
    <3>1. k \in 1 .. n /\ k # f /\ q[k] = a
      BY <2>1, <2>3, <1>1, <1>2, <1>9
    <3>2. CASE k < f
      <4>1. k \in 1 .. n - 1 /\ p[k] = a
        BY <3>1, <3>2, <1>2, <1>4
      <4> QED BY <4>1, <2>3, <1>4, <1>5 DEF In
    <3>3. CASE k > f
      <4>1. PICK j \in 1 .. n - 1 : j = k - 1 /\ ~(j < f) /\ j + 1 = k
        BY <3>1, <3>3, <1>2
      <4>2. p[j] = a
        BY <4>1, <3>1, <1>4
      <4> QED BY <4>1, <4>2, <2>3, <1>4, <1>5 DEF In
    <3>4. k \in Int /\ f \in Int
      OBVIOUS
    <3> QED BY <3>1, <3>2, <3>3, <3>4
  <2> QED BY <2>2, <2>3
<1> QED BY <1>2, <1>4, <1>5, <1>6, <1>7, <1>8, <1>9 DEF LacksEntry

LEMMA Filed ==
    ASSUME NEW sl \in Lists, OnePlace(sl), NEW t \in WheelSlots, NEW a \in Timer!Addrs,
           Absent(sl, a),
           NEW r, AddedTail(r, sl, t, a)
    PROVE  HasTail(r, sl, t, a)
<1>1. PICK q \in Seq(Timer!Addrs) : q = sl[t]
  BY DEF Lists
<1>2. PICK n \in Nat : n = Len(q) /\ n = Len(sl[t])
  BY <1>1
<1>3. PICK p : p = Append(q, a)
  OBVIOUS
<1>4. /\ p \in Seq(Timer!Addrs) /\ Len(p) = n + 1 /\ p[n + 1] = a
      /\ \A i \in 1 .. n : p[i] = q[i]
  BY <1>1, <1>2, <1>3
<1>5. r \in Lists /\ r[t] = p /\ \A s \in WheelSlots : s # t => r[s] = sl[s]
  <2>1. r = [sl EXCEPT ![t] = p]
    BY <1>1, <1>3 DEF TookEntry, AddedTail
  <2> QED BY <2>1, <1>4 DEF Lists
<1>6. ASSUME NEW s \in WheelSlots, NEW i \in 1 .. Len(r[s])
      PROVE  \/ i \in 1 .. Len(sl[s]) /\ r[s][i] = sl[s][i] /\ r[s][i] # a
             \/ s = t /\ i = n + 1 /\ r[s][i] = a
  <2>1. CASE s # t
    BY <2>1, <1>5 DEF In, Absent
  <2>2. CASE s = t /\ i = n + 1
    BY <2>2, <1>4, <1>5
  <2>3. CASE s = t /\ i # n + 1
    <3>1. i \in 1 .. n /\ p[i] = q[i]
      BY <2>3, <1>2, <1>4, <1>5
    <3>2. r[s][i] = sl[s][i] /\ i \in 1 .. Len(sl[s])
      BY <3>1, <2>3, <1>1, <1>2, <1>5
    <3> QED BY <3>2 DEF In, Absent
  <2> QED BY <2>1, <2>2, <2>3
<1>7. OnePlace(r)
  <2> SUFFICES ASSUME NEW s \in WheelSlots, NEW u \in WheelSlots, NEW i \in 1 .. Len(r[s]),
                      NEW j \in 1 .. Len(r[u]), r[s][i] = r[u][j]
               PROVE  s = u /\ i = j
    BY DEF OnePlace
  <2>1. \/ i \in 1 .. Len(sl[s]) /\ r[s][i] = sl[s][i] /\ r[s][i] # a
        \/ s = t /\ i = n + 1 /\ r[s][i] = a
    BY <1>6
  <2>2. \/ j \in 1 .. Len(sl[u]) /\ r[u][j] = sl[u][j] /\ r[u][j] # a
        \/ u = t /\ j = n + 1 /\ r[u][j] = a
    BY <1>6
  <2> QED BY <2>1, <2>2 DEF OnePlace
<1>8. ASSUME NEW s \in WheelSlots, NEW x, In(sl, s, x)
      PROVE  In(r, s, x)
  <2>1. PICK k \in 1 .. Len(sl[s]) : sl[s][k] = x
    BY <1>8 DEF In
  <2>2. CASE s # t
    BY <2>1, <2>2, <1>5 DEF In
  <2>3. CASE s = t
    <3>1. k \in 1 .. n /\ k \in 1 .. n + 1 /\ p[k] = x
      BY <2>1, <2>3, <1>1, <1>2, <1>4
    <3> QED BY <3>1, <2>3, <1>4, <1>5 DEF In
  <2> QED BY <2>2, <2>3
<1>9. In(r, t, a)
  <2>1. n + 1 \in 1 .. Len(r[t]) /\ r[t][n + 1] = a
    BY <1>2, <1>4, <1>5
  <2> QED BY <2>1 DEF In
<1>10. Len(r[t]) = n + 1 /\ r[t][n + 1] = a
  BY <1>4, <1>5
<1> QED BY <1>2, <1>5, <1>6, <1>7, <1>8, <1>9, <1>10 DEF HasTail

(* When a timer rings.  An entry is as many slots ahead of the server as   *)
(* it has to walk until it visits it, and the age at which it will ring    *)
(* follows from that and the turns it still sits out.                      *)
Ahead(c, p, s, i) == IF s > c \/ (s = c /\ i >= p) THEN s - c ELSE s - c + slot_num

TurnsLeft(rotation) == IF rotation > 1 THEN rotation - 1 ELSE 0

RingsAt(b, d) == b.age + d + TurnsLeft(b.rotation) * slot_num

OnTime(b, d) ==
    /\ RingsAt(b, d) <= IF b.expires < slot_num THEN slot_num ELSE b.expires
    /\ b.expires < RingsAt(b, d) + 2 * slot_num

TimerBlocks == [owner : Users \cup {0}, expires : Nat, repeat : BOOLEAN, rotation : Nat, age : Nat]

LEMMA AheadRange ==
    ASSUME NEW c \in WheelSlots, NEW s \in WheelSlots, NEW p \in Nat, NEW i \in Nat
    PROVE  /\ Ahead(c, p, s, i) \in 0 .. slot_num
           /\ p <= i => Ahead(c, p, s, i) < slot_num
BY SlotNum DEF Ahead, WheelSlots

LEMMA TurnsLeftNat ==
    ASSUME NEW r \in Nat
    PROVE  TurnsLeft(r) \in Nat /\ TurnsLeft(r) * slot_num \in Nat
<1>1. TurnsLeft(r) \in Nat
  BY DEF TurnsLeft
<1>2. PICK k \in Nat : k = TurnsLeft(r)
  BY <1>1
<1>3. k * slot_num \in Nat
  BY SlotNum
<1> QED BY <1>2, <1>3

LEMMA TurnLess ==
    ASSUME NEW r \in Nat, r > 1
    PROVE  TurnsLeft(r) * slot_num = TurnsLeft(r - 1) * slot_num + slot_num
<1>1. TurnsLeft(r) = TurnsLeft(r - 1) + 1
  BY DEF TurnsLeft
<1>2. PICK k \in Nat : k = TurnsLeft(r - 1)
  <2>1. r - 1 \in Nat
    OBVIOUS
  <2> QED BY <2>1, TurnsLeftNat
<1>3. (k + 1) * slot_num = k * slot_num + slot_num
  BY SlotNum
<1> QED BY <1>1, <1>2, <1>3

(* A visit that does not ring takes a turn off.                            *)
LEMMA PassedOnTime ==
    ASSUME NEW b \in TimerBlocks, b.rotation > 1, OnTime(b, 0)
    PROVE  /\ [b EXCEPT !.rotation = @ - 1] \in TimerBlocks
           /\ OnTime([b EXCEPT !.rotation = @ - 1], slot_num)
<1> PICK e : e = [b EXCEPT !.rotation = @ - 1]
  OBVIOUS
<1>1. b.rotation \in Nat /\ b.age \in Nat /\ b.expires \in Nat
  BY DEF TimerBlocks
<1>2. e \in TimerBlocks /\ e.age = b.age /\ e.expires = b.expires /\ e.rotation = b.rotation - 1
  BY <1>1 DEF TimerBlocks
<1>3. TurnsLeft(b.rotation) * slot_num = TurnsLeft(e.rotation) * slot_num + slot_num
  BY <1>1, <1>2, TurnLess
<1>4. PICK x \in Nat : x = TurnsLeft(e.rotation) * slot_num
  <2>1. e.rotation \in Nat
    BY <1>1, <1>2
  <2> QED BY <2>1, TurnsLeftNat
<1>5. RingsAt(e, slot_num) = RingsAt(b, 0)
  BY <1>1, <1>2, <1>3, <1>4, SlotNum DEF RingsAt
<1> QED BY <1>2, <1>5 DEF OnTime

(* A slot further, a slot older.                                           *)
LEMMA OlderOnTime ==
    ASSUME NEW b \in TimerBlocks, NEW d \in Int, OnTime(b, d)
    PROVE  /\ [b EXCEPT !.age = @ + 1] \in TimerBlocks
           /\ OnTime([b EXCEPT !.age = @ + 1], d - 1)
<1> PICK e : e = [b EXCEPT !.age = @ + 1]
  OBVIOUS
<1>1. b.rotation \in Nat /\ b.age \in Nat /\ b.expires \in Nat
  BY DEF TimerBlocks
<1>2. /\ e \in TimerBlocks /\ e.age = b.age + 1 /\ e.expires = b.expires
      /\ e.rotation = b.rotation
  BY <1>1 DEF TimerBlocks
<1>3. PICK x \in Nat : x = TurnsLeft(b.rotation) * slot_num
  BY <1>1, TurnsLeftNat
<1>4. RingsAt(e, d - 1) = RingsAt(b, d)
  BY <1>1, <1>2, <1>3 DEF RingsAt
<1> QED BY <1>2, <1>4 DEF OnTime

LEMMA AheadNext ==
    ASSUME NEW c \in WheelSlots, NEW s \in WheelSlots, NEW p \in Nat, NEW i \in Nat,
           s = c => i < p
    PROVE  /\ (c + 1) % slot_num \in WheelSlots
           /\ Ahead((c + 1) % slot_num, 0, s, i) = Ahead(c, p, s, i) - 1
<1> PICK n \in Nat \ {0} : n = slot_num
  BY SlotNum
<1>1. c \in 0 .. n - 1 /\ s \in 0 .. n - 1
  BY DEF WheelSlots
<1>2. CASE c + 1 < n
  <2>1. c + 1 = n * 0 + (c + 1) /\ c + 1 \in Nat /\ c + 1 \in 0 .. n - 1
    BY <1>1, <1>2
  <2>2. (c + 1) % n = c + 1
    BY <2>1, ModUnique
  <2> QED BY <2>1, <2>2, <1>1 DEF Ahead, WheelSlots
<1>3. CASE c + 1 = n
  <2>1. c + 1 = n * 1 + 0 /\ c + 1 \in Nat /\ 0 \in 0 .. n - 1
    BY <1>1, <1>3
  <2>2. (c + 1) % n = 0
    BY <2>1, ModUnique
  <2>3. 0 \in WheelSlots
    BY SlotNum
  <2>4. Ahead(0, 0, s, i) = s
    BY <1>1 DEF Ahead
  <2>5. Ahead(c, p, s, i) = s - c + n
    BY <1>1, <1>3 DEF Ahead
  <2> QED BY <2>2, <2>3, <2>4, <2>5, <1>1, <1>3
<1> QED BY <1>1, <1>2, <1>3

(* Where Add files a timer: e slots from slot 0, wherever the server is.   *)
LEMMA AddedOnTime ==
    ASSUME NEW b \in TimerBlocks, b.age = 0, b.rotation = b.expires \div slot_num,
           NEW c \in WheelSlots, NEW i \in Nat
    PROVE  /\ b.expires % slot_num \in WheelSlots
           /\ OnTime(b, Ahead(c, 0, b.expires % slot_num, i))
<1> PICK n \in Nat \ {0} : n = slot_num
  BY SlotNum
<1> PICK e \in Nat : e = b.expires
  BY DEF TimerBlocks
<1>1. PICK q : q = e \div n
  OBVIOUS
<1>2. PICK r : r = e % n
  OBVIOUS
<1>3. q \in Int /\ r \in 0 .. n - 1 /\ e = n * q + r /\ b.rotation = q /\ q \in Nat
  BY <1>1, <1>2, ModParts DEF TimerBlocks
<1>4. r \in WheelSlots
  BY <1>3 DEF WheelSlots
<1>5. PICK d \in 0 .. n - 1 : d = Ahead(c, 0, r, i)
  BY <1>4, AheadRange, SlotNum
<1>6. PICK x \in Int : x = n * q
  BY <1>3
<1>7. RingsAt(b, d) = d + TurnsLeft(q) * n
  <2>1. TurnsLeft(q) * n \in Nat
    BY <1>3, TurnsLeftNat
  <2> QED BY <2>1, <1>3 DEF RingsAt
<1>8. CASE q = 0
  <2>1. TurnsLeft(q) * n = 0 /\ e < n
    BY <1>3, <1>8 DEF TurnsLeft
  <2> QED BY <2>1, <1>2, <1>4, <1>5, <1>7 DEF OnTime
<1>9. CASE q >= 1
  <2>1. TurnsLeft(q) = q - 1
    BY <1>3, <1>9 DEF TurnsLeft
  <2>2. TurnsLeft(q) * n = x - n /\ x >= n
    <3>1. (q - 1) * n = n * q - n
      BY <1>3
    <3>2. n * q >= n
      BY <1>3, <1>9
    <3> QED BY <2>1, <3>1, <3>2, <1>6
  <2>3. RingsAt(b, d) = d + x - n /\ e = x + r
    BY <2>2, <1>3, <1>5, <1>6, <1>7
  <2>4. RingsAt(b, d) <= e /\ e < RingsAt(b, d) + 2 * n /\ ~(e < n)
    BY <2>2, <2>3, <1>3, <1>5, <1>6
  <2> QED BY <2>4, <1>2, <1>4, <1>5 DEF OnTime
<1> QED BY <1>3, <1>8, <1>9

(* Where the server files a timer that repeats: e slots from its own.      *)
LEMMA RefiledOnTime ==
    ASSUME NEW b \in TimerBlocks, b.age = 0, NEW c \in WheelSlots, NEW p \in Nat, NEW i \in Nat,
           b.rotation = (c + b.expires) \div slot_num
    PROVE  /\ (c + b.expires) % slot_num \in WheelSlots
           /\ OnTime(b, Ahead(c, p, (c + b.expires) % slot_num, i))
<1> PICK n \in Nat \ {0} : n = slot_num
  BY SlotNum
<1> PICK e \in Nat : e = b.expires
  BY DEF TimerBlocks
<1>0. c \in 0 .. n - 1 /\ c + e \in Nat
  BY DEF WheelSlots
<1>1. PICK q : q = (c + e) \div n
  OBVIOUS
<1>2. PICK r : r = (c + e) % n
  OBVIOUS
<1>3. q \in Int /\ r \in 0 .. n - 1 /\ c + e = n * q + r /\ b.rotation = q /\ q \in Nat
  BY <1>0, <1>1, <1>2, ModParts DEF TimerBlocks
<1>4. r \in WheelSlots
  BY <1>3 DEF WheelSlots
<1>5. PICK d \in 0 .. n : d = Ahead(c, p, r, i)
  BY <1>4, AheadRange, SlotNum
<1>6. PICK x \in Int : x = n * q
  BY <1>3
<1>7. RingsAt(b, d) = d + TurnsLeft(q) * n
  <2>1. TurnsLeft(q) * n \in Nat
    BY <1>3, TurnsLeftNat
  <2> QED BY <2>1, <1>3 DEF RingsAt
<1>8. /\ r > c => d = r - c
      /\ r < c => d = r - c + n
      /\ r = c => d = 0 \/ d = n
  BY <1>0, <1>3, <1>5 DEF Ahead
<1>9. CASE q = 0
  <2>1. TurnsLeft(q) * n = 0 /\ c + e = r
    BY <1>3, <1>9 DEF TurnsLeft
  <2>2. RingsAt(b, d) = d /\ e < n
    BY <2>1, <1>0, <1>3, <1>7
  <2>3. d <= n /\ e < d + 2 * n
    BY <2>2, <1>5
  <2> QED BY <2>2, <2>3, <1>2, <1>4, <1>5 DEF OnTime
<1>10. CASE q >= 1
  <2>1. TurnsLeft(q) = q - 1
    BY <1>3, <1>10 DEF TurnsLeft
  <2>2. TurnsLeft(q) * n = x - n /\ x >= n
    <3>1. (q - 1) * n = n * q - n
      BY <1>3
    <3>2. n * q >= n
      BY <1>3, <1>10
    <3> QED BY <2>1, <3>1, <3>2, <1>6
  <2>3. RingsAt(b, d) = d + x - n /\ c + e = x + r
    BY <2>2, <1>3, <1>5, <1>6, <1>7
  <2>4. RingsAt(b, d) <= e \/ (e < n /\ RingsAt(b, d) <= n)
    BY <2>2, <2>3, <1>0, <1>3, <1>5, <1>6, <1>8
  <2>5. e < RingsAt(b, d) + 2 * n
    BY <2>2, <2>3, <1>0, <1>3, <1>5, <1>6, <1>8
  <2>6. RingsAt(b, d) \in Int
    BY <2>3, <1>5, <1>6
  <2> QED BY <2>4, <2>5, <2>6, <1>2, <1>4, <1>5 DEF OnTime
<1> QED BY <1>3, <1>9, <1>10

TimerTypeOK ==
    /\ slots \in Lists /\ block \in [Timer!Addrs -> TimerBlocks]
    /\ cur_slot \in WheelSlots /\ at \in Nat
    /\ rang \in [Users -> BOOLEAN]
    /\ user \in [Users -> [pc : {"idle", "added", "deleting", "missed"},
                           addr : Timer!Addrs \cup {0}, slot : WheelSlots]]

(* An address is in the lists once while its timer is somebody's.          *)
TimerPlaces ==
    /\ OnePlace(slots)
    /\ \A s \in WheelSlots : \A i \in 1 .. Len(slots[s]) : block[slots[s][i]].owner \in Users
    /\ \A a \in Timer!Addrs : block[a].owner \in Users => \E s \in WheelSlots : In(slots, s, a)

TimerTimes ==
    \A s \in WheelSlots : \A i \in 1 .. Len(slots[s]) :
        OnTime(block[slots[s][i]], Ahead(cur_slot, at, s, i))

(* A Del will find its timer in a slot it has not looked at, or it rang.   *)
Finds(u) ==
    \/ rang[u]
    \/ /\ block[user[u].addr].owner = u
       /\ \E s \in WheelSlots : s >= user[u].slot /\ In(slots, s, user[u].addr)

TimerDels ==
    \A u \in Users :
        /\ user[u].pc \in {"added", "deleting"} => user[u].addr \in Timer!Addrs
        /\ user[u].pc = "added" => user[u].slot = 0
        /\ user[u].pc = "deleting" => timerEnd = "run" /\ Finds(u)

TimerInv == TimerTypeOK /\ TimerPlaces /\ TimerTimes /\ TimerDels

LEMMA TimerFacts ==
    ASSUME TimerInv
    PROVE  /\ slots \in Lists /\ block \in [Timer!Addrs -> TimerBlocks]
           /\ cur_slot \in WheelSlots /\ at \in Nat /\ DOMAIN slots = WheelSlots
           /\ \A s \in WheelSlots : /\ slots[s] \in Seq(Timer!Addrs) /\ Len(slots[s]) \in Nat
                                    /\ DOMAIN slots[s] = 1 .. Len(slots[s])
                                    /\ \A i \in 1 .. Len(slots[s]) : slots[s][i] \in Timer!Addrs
<1>1. slots \in Lists /\ block \in [Timer!Addrs -> TimerBlocks] /\ cur_slot \in WheelSlots /\ at \in Nat
  BY DEF TimerInv, TimerTypeOK
<1>2. DOMAIN slots = WheelSlots /\ \A s \in WheelSlots : slots[s] \in Seq(Timer!Addrs)
  BY <1>1 DEF Lists
<1>3. ASSUME NEW q \in Seq(Timer!Addrs)
      PROVE  Len(q) \in Nat /\ DOMAIN q = 1 .. Len(q) /\ \A i \in 1 .. Len(q) : q[i] \in Timer!Addrs
  OBVIOUS
<1> QED BY <1>1, <1>2, <1>3

LEMMA TimerWakes ==
    ASSUME TimerInv, Timer!Wake
    PROVE  TimerInv'
<1>1. /\ at = 0 /\ at' = 1 /\ UNCHANGED <<slots, block, cur_slot, user, rang, timerEnd>>
  BY DEF Timer!Wake, Timer!MutexFree
<1>2. TimerTypeOK'
  BY <1>1 DEF TimerInv, TimerTypeOK
<1>3. TimerPlaces'
  BY <1>1 DEF TimerInv, TimerPlaces
<1>4. TimerDels'
  BY <1>1 DEF TimerInv, TimerDels, Finds
<1>5. TimerTimes'
  <2> SUFFICES ASSUME NEW s \in WheelSlots, NEW i \in 1 .. Len(slots[s])
               PROVE  OnTime(block[slots[s][i]], Ahead(cur_slot, 1, s, i))
    BY <1>1 DEF TimerTimes
  <2>1. OnTime(block[slots[s][i]], Ahead(cur_slot, 0, s, i))
    BY <1>1 DEF TimerInv, TimerTimes
  <2>2. i >= 1 /\ i >= 0
    OBVIOUS
  <2>3. Ahead(cur_slot, 1, s, i) = Ahead(cur_slot, 0, s, i)
    BY <2>2 DEF Ahead
  <2> QED BY <2>1, <2>3
<1> QED BY <1>2, <1>3, <1>4, <1>5 DEF TimerInv

LEMMA TimerPasses ==
    ASSUME TimerInv, NEW a, at \in 1 .. Len(slots[cur_slot]), a = slots[cur_slot][at],
           Timer!Pass(a), UNCHANGED <<cur_slot, user, timerEnd>>
    PROVE  TimerInv'
<1>1. /\ slots \in Lists /\ block \in [Timer!Addrs -> TimerBlocks]
      /\ cur_slot \in WheelSlots /\ at \in Nat /\ a \in Timer!Addrs
      /\ DOMAIN slots[cur_slot] = 1 .. Len(slots[cur_slot])
      /\ \A s \in WheelSlots : \A i \in 1 .. Len(slots[s]) : slots[s][i] \in Timer!Addrs
  BY TimerFacts
<1>2. PICK b \in TimerBlocks : b = block[a]
  BY <1>1
<1>3. PICK e : e = [b EXCEPT !.rotation = @ - 1]
  OBVIOUS
<1>4. b.rotation > 1 /\ b.rotation \in Nat
  BY <1>1, <1>2 DEF Timer!Pass, Timer!Due, TimerBlocks
<1>5. OnTime(b, 0)
  <2>1. OnTime(b, Ahead(cur_slot, at, cur_slot, at))
    BY <1>1, <1>2 DEF TimerInv, TimerTimes
  <2>2. Ahead(cur_slot, at, cur_slot, at) = 0
    BY <1>1 DEF Ahead, WheelSlots
  <2> QED BY <2>1, <2>2
<1>6. e \in TimerBlocks /\ OnTime(e, slot_num) /\ e.owner = b.owner
  BY <1>3, <1>4, <1>5, PassedOnTime DEF TimerBlocks
<1>7. block' = [block EXCEPT ![a] = e] /\ at' = at + 1 /\ UNCHANGED <<slots, rang>>
  BY <1>2, <1>3 DEF Timer!Pass
<1>8. \A x \in Timer!Addrs : block'[x] = IF x = a THEN e ELSE block[x]
  BY <1>1, <1>7
<1>9. \A x \in Timer!Addrs : block'[x].owner = block[x].owner
  BY <1>2, <1>6, <1>8
<1>10. TimerTypeOK'
  <2>1. block' \in [Timer!Addrs -> TimerBlocks]
    BY <1>1, <1>6, <1>7
  <2> QED BY <2>1, <1>1, <1>7 DEF TimerInv, TimerTypeOK
<1>11. TimerPlaces'
  BY <1>1, <1>7, <1>9 DEF TimerInv, TimerPlaces
<1>12. TimerDels'
  BY <1>7, <1>9 DEF TimerInv, TimerDels, Finds
<1>13. TimerTimes'
  <2> SUFFICES ASSUME NEW s \in WheelSlots, NEW i \in 1 .. Len(slots[s])
               PROVE  OnTime(block'[slots[s][i]], Ahead(cur_slot, at + 1, s, i))
    BY <1>7 DEF TimerTimes
  <2>1. OnTime(block[slots[s][i]], Ahead(cur_slot, at, s, i))
    BY DEF TimerInv, TimerTimes
  <2>2. CASE slots[s][i] = a
    <3>1. s = cur_slot /\ i = at
      <4>1. slots[s][i] = slots[cur_slot][at] /\ cur_slot \in WheelSlots /\ OnePlace(slots)
        BY <2>2, <1>1 DEF TimerInv, TimerPlaces
      <4> QED BY <4>1 DEF OnePlace
    <3>2. Ahead(cur_slot, at + 1, s, i) = slot_num
      BY <3>1, <1>1, SlotNum DEF Ahead, WheelSlots
    <3> QED BY <3>2, <2>2, <1>1, <1>6, <1>8
  <2>3. CASE slots[s][i] # a
    <3>1. ~(s = cur_slot /\ i = at)
      BY <2>3
    <3>2. Ahead(cur_slot, at + 1, s, i) = Ahead(cur_slot, at, s, i)
      BY <3>1, <1>1 DEF Ahead
    <3>3. block'[slots[s][i]] = block[slots[s][i]]
      BY <2>3, <1>1, <1>8
    <3> QED BY <3>2, <3>3, <2>1
  <2> QED BY <2>2, <2>3
<1> QED BY <1>10, <1>11, <1>12, <1>13 DEF TimerInv

(* A timer that rings leaves its entry; one that repeats comes back, at    *)
(* the end of a list, and the server has seen as much of each list as      *)
(* before.                                                                 *)
LEMMA TimerFires ==
    ASSUME TimerInv, NEW a, at \in 1 .. Len(slots[cur_slot]), a = slots[cur_slot][at],
           Timer!Fire(a), UNCHANGED <<cur_slot, user, timerEnd>>
    PROVE  TimerInv'
<1>1. /\ slots \in Lists /\ block \in [Timer!Addrs -> TimerBlocks]
      /\ cur_slot \in WheelSlots /\ at \in Nat /\ a \in Timer!Addrs
      /\ Len(slots[cur_slot]) \in Nat
      /\ \A s \in WheelSlots : \A i \in 1 .. Len(slots[s]) : slots[s][i] \in Timer!Addrs
      /\ OnePlace(slots)
  BY TimerFacts DEF TimerInv, TimerPlaces
<1>2. PICK b \in TimerBlocks : b = block[a]
  BY <1>1
<1>3. PICK c \in WheelSlots : c = cur_slot
  BY <1>1
<1>4. PICK n \in Nat : n = Len(slots[c])
  BY <1>1, <1>3
<1>5. PICK rest : TookEntry(rest, slots, c, at)
  BY DEF TookEntry
<1>6. /\ rest \in Lists /\ OnePlace(rest) /\ Len(rest[c]) = n - 1
      /\ \A s \in WheelSlots : s # c => rest[s] = slots[s]
      /\ \A s \in WheelSlots : \A i \in 1 .. Len(rest[s]) :
             /\ Origin(s, i, c, at) \in 1 .. Len(slots[s])
             /\ rest[s][i] = slots[s][Origin(s, i, c, at)] /\ rest[s][i] # a
      /\ \A s \in WheelSlots : \A x : In(slots, s, x) /\ x # a => In(rest, s, x)
  <2>1. at \in 1 .. Len(slots[c]) /\ slots[c][at] = a
    BY <1>3
  <2>2. LacksEntry(rest, slots, c, at)
    BY <2>1, <1>1, <1>5, Removed
  <2> QED BY <2>1, <2>2, <1>4 DEF LacksEntry
<1>7. Absent(rest, a)
  BY <1>6 DEF In, Absent
<1>8. b.owner \in Users /\ rang' = [rang EXCEPT ![b.owner] = TRUE]
  BY <1>1, <1>2 DEF TimerInv, TimerPlaces, Timer!Fire
<1>9. at' = IF at = n THEN Len(slots'[c]) + 1 ELSE at
  BY <1>3, <1>4 DEF Timer!Fire
<1>10. \A s \in WheelSlots : \A i \in 1 .. Len(rest[s]) :
          block[rest[s][i]].owner \in Users
  BY <1>6 DEF TimerInv, TimerPlaces
<1>11. \A s \in WheelSlots : \A i \in 1 .. Len(rest[s]) :
          OnTime(block[rest[s][i]], Ahead(c, at, s, Origin(s, i, c, at)))
  BY <1>3, <1>6 DEF TimerInv, TimerTimes
<1>12. ASSUME Len(slots'[c]) \in Nat, Len(slots'[c]) >= n - 1,
              NEW s \in WheelSlots, NEW i \in 1 .. Len(rest[s])
       PROVE  Ahead(c, at', s, i) = Ahead(c, at, s, Origin(s, i, c, at))
  <2>1. CASE s # c
    BY <2>1 DEF Ahead, Origin
  <2>2. CASE s = c
    <3>1. i \in 1 .. n - 1 /\ at \in 1 .. n
      BY <2>2, <1>3, <1>4, <1>6
    <3>2. CASE at = n
      <4>1. i < at /\ i < at' /\ Origin(s, i, c, at) = i
        BY <3>1, <3>2, <1>9, <1>12 DEF Origin
      <4> QED BY <4>1, <3>1, <1>9, <1>12 DEF Ahead
    <3>3. CASE at # n
      <4>1. at' = at
        BY <3>3, <1>9
      <4>2. Origin(s, i, c, at) >= at <=> i >= at
        BY <3>1 DEF Origin
      <4> QED BY <4>1, <4>2 DEF Ahead
    <3> QED BY <3>2, <3>3
  <2> QED BY <2>1, <2>2
<1>13. rang' \in [Users -> BOOLEAN] /\ rang'[b.owner] = TRUE
       /\ \A u \in Users : u # b.owner => rang'[u] = rang[u]
  BY <1>8 DEF TimerInv, TimerTypeOK
<1>14. ASSUME \A x \in Timer!Addrs : x # a => block'[x] = block[x],
              \A s \in WheelSlots : \A x : In(rest, s, x) => In(slots', s, x)
       PROVE  TimerDels'
  <2> SUFFICES ASSUME NEW u \in Users
               PROVE  /\ user[u].pc \in {"added", "deleting"} => user[u].addr \in Timer!Addrs
                      /\ user[u].pc = "added" => user[u].slot = 0
                      /\ user[u].pc = "deleting" => timerEnd = "run" /\ Finds(u)'
    BY DEF TimerDels
  <2>1. /\ user[u].pc \in {"added", "deleting"} => user[u].addr \in Timer!Addrs
        /\ user[u].pc = "added" => user[u].slot = 0
        /\ user[u].pc = "deleting" => timerEnd = "run" /\ Finds(u)
    BY DEF TimerInv, TimerDels
  <2>2. ASSUME user[u].pc = "deleting" PROVE Finds(u)'
    <3>1. CASE u = b.owner
      BY <3>1, <1>13 DEF Finds
    <3>2. CASE u # b.owner
      <4>1. CASE rang[u]
        BY <4>1, <3>2, <1>13 DEF Finds
      <4>2. CASE ~rang[u]
        <5>1. /\ user[u].addr \in Timer!Addrs /\ block[user[u].addr].owner = u
              /\ \E s \in WheelSlots : s >= user[u].slot /\ In(slots, s, user[u].addr)
          BY <4>2, <2>1, <2>2 DEF Finds
        <5>2. user[u].addr # a
          BY <5>1, <3>2, <1>2
        <5>3. block'[user[u].addr].owner = u
          BY <5>1, <5>2, <1>14
        <5>4. \E s \in WheelSlots : s >= user[u].slot /\ In(slots', s, user[u].addr)
          BY <5>1, <5>2, <1>6, <1>14
        <5> QED BY <5>3, <5>4 DEF Finds, In
      <4> QED BY <4>1, <4>2
    <3> QED BY <3>1, <3>2
  <2> QED BY <2>1, <2>2
<1>15. CASE ~b.repeat
  <2>1. slots' = rest /\ block' = [block EXCEPT ![a] = Timer!Freed]
    BY <1>2, <1>3, <1>5, <1>15 DEF Timer!Fire, TookEntry
  <2>2. Timer!Freed \in TimerBlocks /\ Timer!Freed.owner = 0 /\ 0 \notin Users
    BY ServicesAssumption DEF Timer!Freed, TimerBlocks
  <2>3. block' \in [Timer!Addrs -> TimerBlocks]
        /\ \A x \in Timer!Addrs : block'[x] = IF x = a THEN Timer!Freed ELSE block[x]
    BY <2>1, <2>2, <1>1
  <2>4. Len(slots'[c]) \in Nat /\ Len(slots'[c]) >= n - 1 /\ at' \in Nat
    <3>1. Len(slots'[c]) = n - 1 /\ n > 0
      BY <2>1, <1>3, <1>4, <1>6
    <3> QED BY <3>1, <1>1, <1>9
  <2>5. TimerTypeOK'
    BY <2>1, <2>3, <2>4, <1>1, <1>6, <1>13 DEF TimerInv, TimerTypeOK
  <2>6. \A s \in WheelSlots : \A i \in 1 .. Len(rest[s]) :
           rest[s][i] \in Timer!Addrs /\ block'[rest[s][i]] = block[rest[s][i]]
    <3> SUFFICES ASSUME NEW s \in WheelSlots, NEW i \in 1 .. Len(rest[s])
                 PROVE  rest[s][i] \in Timer!Addrs /\ block'[rest[s][i]] = block[rest[s][i]]
      OBVIOUS
    <3>1. PICK k \in 1 .. Len(slots[s]) : rest[s][i] = slots[s][k] /\ rest[s][i] # a
      BY <1>6
    <3>2. rest[s][i] \in Timer!Addrs
      BY <3>1, <1>1
    <3> QED BY <3>1, <3>2, <2>3
  <2>7. TimerPlaces'
    <3>1. \A s \in WheelSlots : \A i \in 1 .. Len(slots'[s]) : block'[slots'[s][i]].owner \in Users
      BY <2>1, <2>6, <1>10
    <3>2. ASSUME NEW x \in Timer!Addrs, block'[x].owner \in Users
          PROVE  \E s \in WheelSlots : In(slots', s, x)
      <4>1. x # a /\ block[x].owner \in Users
        BY <3>2, <2>2, <2>3
      <4>2. PICK s \in WheelSlots : In(slots, s, x)
        BY <4>1 DEF TimerInv, TimerPlaces
      <4> QED BY <4>1, <4>2, <2>1, <1>6
    <3> QED BY <3>1, <3>2, <2>1, <1>6 DEF TimerPlaces, In
  <2>8. TimerTimes'
    <3>1. ASSUME NEW s \in WheelSlots, NEW i \in 1 .. Len(slots'[s])
          PROVE  OnTime(block'[slots'[s][i]], Ahead(c, at', s, i))
      BY <2>1, <2>4, <2>6, <1>11, <1>12
    <3> QED BY <3>1, <1>3 DEF TimerTimes
  <2>9. TimerDels'
    BY <2>1, <2>3, <1>14
  <2> QED BY <2>5, <2>7, <2>8, <2>9 DEF TimerInv
<1>16. CASE b.repeat
  <2>1. PICK to \in WheelSlots : to = (c + b.expires) % slot_num
    <3>1. c \in Nat /\ b.expires \in Nat /\ slot_num \in Nat \ {0}
      BY SlotNum DEF TimerBlocks, WheelSlots
    <3>2. (c + b.expires) % slot_num \in 0 .. slot_num - 1
      <4>1. c + b.expires \in Nat
        BY <3>1
      <4> QED BY <4>1, <3>1, ModParts
    <3> QED BY <3>2 DEF WheelSlots
  <2>2. PICK e : e = [b EXCEPT !.rotation = (c + b.expires) \div slot_num, !.age = 0]
    OBVIOUS
  <2>3. (c + b.expires) \div slot_num \in Nat
    <3>1. PICK x \in Nat : x = c + b.expires
      BY SlotNum DEF TimerBlocks, WheelSlots
    <3>2. PICK k \in Nat \ {0} : k = slot_num
      BY SlotNum
    <3>3. x \div k \in Nat
      OBVIOUS
    <3> QED BY <3>1, <3>2, <3>3
  <2>4. /\ e \in TimerBlocks /\ e.age = 0 /\ e.rotation = (c + b.expires) \div slot_num
        /\ e.expires = b.expires /\ e.owner = b.owner
    BY <2>2, <2>3 DEF TimerBlocks
  <2>5. AddedTail(slots', rest, to, a) /\ block' = [block EXCEPT ![a] = e]
    <3>1. Timer!Refiled(a) = [slot |-> to, rotation |-> (c + b.expires) \div slot_num]
      BY <2>1, <1>2, <1>3 DEF Timer!Refiled
    <3>2. rest = [slots EXCEPT ![cur_slot] = Timer!RemoveAt(@, at)]
      BY <1>3, <1>5 DEF TookEntry
    <3>3. /\ slots' = [rest EXCEPT ![to] = Append(@, a)]
          /\ block' = [block EXCEPT ![a].rotation = (c + b.expires) \div slot_num, ![a].age = 0]
      BY <3>1, <3>2, <1>2, <1>16, SMTT(40) DEF Timer!Fire
    <3>4. block' = [block EXCEPT ![a] = e]
      BY <3>3, <2>2, <1>1, <1>2
    <3> QED BY <3>3, <3>4 DEF AddedTail
  <2>6. /\ slots' \in Lists /\ OnePlace(slots')
        /\ Len(slots'[to]) = Len(rest[to]) + 1
        /\ \A s \in WheelSlots : s # to => slots'[s] = rest[s]
        /\ \A s \in WheelSlots : \A i \in 1 .. Len(slots'[s]) :
               \/ i \in 1 .. Len(rest[s]) /\ slots'[s][i] = rest[s][i] /\ slots'[s][i] # a
               \/ s = to /\ i = Len(rest[to]) + 1 /\ slots'[s][i] = a
        /\ \A s \in WheelSlots : \A x : In(rest, s, x) => In(slots', s, x)
        /\ In(slots', to, a)
    <3>1. rest \in Lists /\ OnePlace(rest)
      BY <1>6
    <3>2. HasTail(slots', rest, to, a)
      BY <3>1, <2>1, <2>5, <1>1, <1>7, Filed
    <3> QED BY <3>2 DEF HasTail
  <2>7. Len(slots'[c]) \in Nat /\ Len(slots'[c]) >= n - 1 /\ at' \in Nat
    <3>1. n - 1 \in Nat /\ Len(rest[c]) = n - 1
      BY <1>3, <1>4, <1>6
    <3>2. Len(slots'[c]) = n - 1 \/ Len(slots'[c]) = (n - 1) + 1
      BY <3>1, <2>6
    <3> QED BY <3>1, <3>2, <1>1, <1>9
  <2>8. \A x \in Timer!Addrs : block'[x] = IF x = a THEN e ELSE block[x]
    BY <2>5, <1>1
  <2>9. TimerTypeOK'
    <3>1. block' \in [Timer!Addrs -> TimerBlocks]
      BY <2>4, <2>5, <1>1
    <3> QED BY <3>1, <2>6, <2>7, <1>1, <1>13 DEF TimerInv, TimerTypeOK
  <2>10. \A s \in WheelSlots : \A i \in 1 .. Len(rest[s]) :
            rest[s][i] \in Timer!Addrs /\ block'[rest[s][i]] = block[rest[s][i]]
    <3> SUFFICES ASSUME NEW s \in WheelSlots, NEW i \in 1 .. Len(rest[s])
                 PROVE  rest[s][i] \in Timer!Addrs /\ block'[rest[s][i]] = block[rest[s][i]]
      OBVIOUS
    <3>1. PICK k \in 1 .. Len(slots[s]) : rest[s][i] = slots[s][k] /\ rest[s][i] # a
      BY <1>6
    <3>2. rest[s][i] \in Timer!Addrs
      BY <3>1, <1>1
    <3> QED BY <3>1, <3>2, <2>8
  <2>11. TimerPlaces'
    <3>1. \A s \in WheelSlots : \A i \in 1 .. Len(slots'[s]) : block'[slots'[s][i]].owner \in Users
      <4> SUFFICES ASSUME NEW s \in WheelSlots, NEW i \in 1 .. Len(slots'[s])
                   PROVE  block'[slots'[s][i]].owner \in Users
        OBVIOUS
      <4>1. CASE i \in 1 .. Len(rest[s]) /\ slots'[s][i] = rest[s][i]
        BY <4>1, <2>10, <1>10
      <4>2. CASE slots'[s][i] = a
        BY <4>2, <2>4, <2>8, <1>1, <1>8
      <4> QED BY <4>1, <4>2, <2>6
    <3>2. ASSUME NEW x \in Timer!Addrs, block'[x].owner \in Users
          PROVE  \E s \in WheelSlots : In(slots', s, x)
      <4>1. CASE x = a
        BY <4>1, <2>6
      <4>2. CASE x # a
        <5>1. block[x].owner \in Users
          BY <4>2, <3>2, <2>8
        <5>2. PICK s \in WheelSlots : In(slots, s, x)
          BY <5>1 DEF TimerInv, TimerPlaces
        <5> QED BY <5>2, <4>2, <2>6, <1>6
      <4> QED BY <4>1, <4>2
    <3> QED BY <3>1, <3>2, <2>6 DEF TimerPlaces, In
  <2>12. TimerTimes'
    <3>1. ASSUME NEW s \in WheelSlots, NEW i \in 1 .. Len(slots'[s])
          PROVE  OnTime(block'[slots'[s][i]], Ahead(c, at', s, i))
      <4>1. CASE i \in 1 .. Len(rest[s]) /\ slots'[s][i] = rest[s][i]
        BY <4>1, <2>7, <2>10, <1>11, <1>12
      <4>2. CASE s = to /\ slots'[s][i] = a
        <5>1. i \in Nat /\ at' \in Nat
          BY <2>7
        <5>2. OnTime(e, Ahead(c, at', to, i))
          BY <5>1, <2>1, <2>4, RefiledOnTime
        <5> QED BY <5>2, <4>2, <2>8, <1>1
      <4> QED BY <4>1, <4>2, <2>6
    <3> QED BY <3>1, <1>3 DEF TimerTimes
  <2>13. TimerDels'
    BY <2>6, <2>8, <1>14
  <2> QED BY <2>9, <2>11, <2>12, <2>13 DEF TimerInv
<1> QED BY <1>15, <1>16

LEMMA TimerSteps ==
    ASSUME TimerInv, Timer!SlotDone
    PROVE  TimerInv'
<1>1. /\ at > Len(slots[cur_slot]) /\ cur_slot' = (cur_slot + 1) % slot_num /\ at' = 0
      /\ block' = [a \in Timer!Addrs |-> IF Timer!Linked(a) THEN [block[a] EXCEPT !.age = @ + 1]
                                         ELSE block[a]]
      /\ UNCHANGED <<slots, user, rang, timerEnd>>
  BY DEF Timer!SlotDone
<1>2. /\ slots \in Lists /\ block \in [Timer!Addrs -> TimerBlocks]
      /\ cur_slot \in WheelSlots /\ at \in Nat /\ DOMAIN slots = WheelSlots
      /\ \A s \in WheelSlots : /\ Len(slots[s]) \in Nat
                               /\ DOMAIN slots[s] = 1 .. Len(slots[s])
                               /\ \A i \in 1 .. Len(slots[s]) : slots[s][i] \in Timer!Addrs
  BY TimerFacts
<1>3. ASSUME NEW x \in Timer!Addrs
      PROVE  /\ [block[x] EXCEPT !.age = @ + 1] \in TimerBlocks
             /\ [block[x] EXCEPT !.age = @ + 1].owner = block[x].owner
  <2>1. PICK b \in TimerBlocks : b = block[x]
    BY <1>2
  <2>2. [b EXCEPT !.age = @ + 1] \in TimerBlocks /\ [b EXCEPT !.age = @ + 1].owner = b.owner
    BY DEF TimerBlocks
  <2> QED BY <2>1, <2>2
<1>4. block' \in [Timer!Addrs -> TimerBlocks]
      /\ \A x \in Timer!Addrs : block'[x].owner = block[x].owner
  BY <1>1, <1>2, <1>3
<1>5. cur_slot' \in WheelSlots
  <2>1. cur_slot + 1 \in Nat
    BY <1>2, SlotNum DEF WheelSlots
  <2>2. (cur_slot + 1) % slot_num \in 0 .. slot_num - 1
    BY <2>1, SlotNum, ModParts
  <2> QED BY <2>2, <1>1 DEF WheelSlots
<1>6. TimerTypeOK'
  BY <1>1, <1>4, <1>5 DEF TimerInv, TimerTypeOK
<1>7. TimerPlaces'
  BY <1>1, <1>2, <1>4 DEF TimerInv, TimerPlaces
<1>8. TimerDels'
  BY <1>1, <1>4 DEF TimerInv, TimerDels, Finds
<1>9. TimerTimes'
  <2> SUFFICES ASSUME NEW s \in WheelSlots, NEW i \in 1 .. Len(slots[s])
               PROVE  OnTime(block'[slots[s][i]], Ahead(cur_slot', 0, s, i))
    BY <1>1 DEF TimerTimes
  <2>1. PICK b \in TimerBlocks : b = block[slots[s][i]]
    BY <1>2
  <2>2. i \in Nat /\ (s = cur_slot => i < at)
    BY <1>1, <1>2
  <2>3. PICK d \in 0 .. slot_num : d = Ahead(cur_slot, at, s, i)
    BY <2>2, <1>2, AheadRange
  <2>4. Ahead(cur_slot', 0, s, i) = d - 1
    BY <2>2, <2>3, <1>1, <1>2, AheadNext
  <2>5. OnTime(b, d) /\ d \in Int
    BY <2>1, <2>3, SlotNum DEF TimerInv, TimerTimes
  <2>6. OnTime([b EXCEPT !.age = @ + 1], d - 1)
    BY <2>5, OlderOnTime
  <2>7. Timer!Linked(slots[s][i])
    <3>1. i \in DOMAIN slots[s] /\ s \in DOMAIN slots
      BY <1>2
    <3>2. slots[s][i] \in Timer!Range(slots[s])
      BY <3>1 DEF Timer!Range
    <3> QED BY <3>1, <3>2 DEF Timer!Linked
  <2>8. block'[slots[s][i]] = [b EXCEPT !.age = @ + 1]
    BY <2>1, <2>7, <1>1, <1>2
  <2> QED BY <2>4, <2>6, <2>8
<1> QED BY <1>6, <1>7, <1>8, <1>9 DEF TimerInv

LEMMA TimerAdds ==
    ASSUME TimerInv, NEW u \in Users, NEW e \in Expiries, NEW repeat \in BOOLEAN,
           Timer!Add(u, e, repeat)
    PROVE  TimerInv'
<1>1. /\ slots \in Lists /\ block \in [Timer!Addrs -> TimerBlocks] /\ OnePlace(slots)
      /\ cur_slot \in WheelSlots /\ e \in Nat /\ 0 \notin Users
      /\ \A s \in WheelSlots : \A i \in 1 .. Len(slots[s]) : slots[s][i] \in Timer!Addrs
  BY TimerFacts, ServicesAssumption DEF TimerInv, TimerPlaces
<1>2. PICK b : b = [owner |-> u, expires |-> e, repeat |-> repeat,
                    rotation |-> e \div slot_num, age |-> 0]
  OBVIOUS
<1>3. PICK a \in Timer!Addrs :
         /\ block[a] = Timer!Freed /\ block' = [block EXCEPT ![a] = b]
         /\ slots' = [slots EXCEPT ![e % slot_num] = Append(@, a)]
         /\ user' = [user EXCEPT ![u] = [pc |-> "added", addr |-> a, slot |-> 0]]
  BY <1>2 DEF Timer!Add
<1>4. /\ at = 0 /\ timerEnd = "run" /\ user[u].pc \in {"idle", "missed"}
      /\ rang' = [rang EXCEPT ![u] = FALSE] /\ UNCHANGED <<cur_slot, at, timerEnd>>
  BY DEF Timer!Add, Timer!MutexFree
<1>5. /\ b \in TimerBlocks /\ b.age = 0 /\ b.rotation = b.expires \div slot_num
      /\ b.expires = e /\ b.owner = u
  <2>1. e \div slot_num \in Nat
    <3>1. PICK k \in Nat \ {0} : k = slot_num
      BY SlotNum
    <3>2. e \div k \in Nat
      BY <1>1
    <3> QED BY <3>1, <3>2
  <2> QED BY <2>1, <1>1, <1>2 DEF TimerBlocks
<1>6. PICK t \in WheelSlots : t = e % slot_num
  BY <1>1, SlotNum, ModParts DEF WheelSlots
<1>7. Absent(slots, a)
  <2>1. Timer!Freed.owner = 0
    BY DEF Timer!Freed
  <2> QED BY <2>1, <1>1, <1>3 DEF Absent, In, TimerInv, TimerPlaces
<1>8. AddedTail(slots', slots, t, a)
  BY <1>3, <1>6 DEF AddedTail
<1>9. /\ slots' \in Lists /\ OnePlace(slots')
      /\ \A s \in WheelSlots : \A i \in 1 .. Len(slots'[s]) :
             \/ i \in 1 .. Len(slots[s]) /\ slots'[s][i] = slots[s][i] /\ slots'[s][i] # a
             \/ s = t /\ i = Len(slots[t]) + 1 /\ slots'[s][i] = a
      /\ \A s \in WheelSlots : \A x : In(slots, s, x) => In(slots', s, x)
      /\ In(slots', t, a)
  <2>1. HasTail(slots', slots, t, a)
    BY <1>1, <1>7, <1>8, Filed
  <2> QED BY <2>1 DEF HasTail
<1>10. /\ block' \in [Timer!Addrs -> TimerBlocks]
       /\ \A x \in Timer!Addrs : block'[x] = IF x = a THEN b ELSE block[x]
  BY <1>1, <1>3, <1>5
<1>11. TimerTypeOK'
  <2>1. [pc |-> "added", addr |-> a, slot |-> 0] \in
            [pc : {"idle", "added", "deleting", "missed"}, addr : Timer!Addrs \cup {0}, slot : WheelSlots]
    BY SlotNum
  <2>2. user' \in [Users -> [pc : {"idle", "added", "deleting", "missed"},
                             addr : Timer!Addrs \cup {0}, slot : WheelSlots]]
    BY <2>1, <1>3 DEF TimerInv, TimerTypeOK
  <2>3. rang' \in [Users -> BOOLEAN]
    BY <1>4 DEF TimerInv, TimerTypeOK
  <2> QED BY <2>2, <2>3, <1>4, <1>9, <1>10 DEF TimerInv, TimerTypeOK
<1>12. TimerPlaces'
  <2>1. ASSUME NEW s \in WheelSlots, NEW i \in 1 .. Len(slots'[s])
        PROVE  block'[slots'[s][i]].owner \in Users
    <3>1. CASE i \in 1 .. Len(slots[s]) /\ slots'[s][i] = slots[s][i] /\ slots'[s][i] # a
      BY <3>1, <1>1, <1>10 DEF TimerInv, TimerPlaces
    <3>2. CASE slots'[s][i] = a
      BY <3>2, <1>5, <1>10
    <3> QED BY <3>1, <3>2, <1>9
  <2>2. ASSUME NEW x \in Timer!Addrs, block'[x].owner \in Users
        PROVE  \E s \in WheelSlots : In(slots', s, x)
    <3>1. CASE x = a
      BY <3>1, <1>9
    <3>2. CASE x # a
      <4>1. block[x].owner \in Users
        BY <3>2, <2>2, <1>10
      <4>2. PICK s \in WheelSlots : In(slots, s, x)
        BY <4>1 DEF TimerInv, TimerPlaces
      <4> QED BY <4>2, <1>9
    <3> QED BY <3>1, <3>2
  <2> QED BY <2>1, <2>2, <1>9 DEF TimerPlaces, In
<1>13. TimerTimes'
  <2> SUFFICES ASSUME NEW s \in WheelSlots, NEW i \in 1 .. Len(slots'[s])
               PROVE  OnTime(block'[slots'[s][i]], Ahead(cur_slot, 0, s, i))
    BY <1>4 DEF TimerTimes
  <2>1. CASE i \in 1 .. Len(slots[s]) /\ slots'[s][i] = slots[s][i] /\ slots'[s][i] # a
    <3>1. OnTime(block[slots[s][i]], Ahead(cur_slot, 0, s, i))
      BY <2>1, <1>4 DEF TimerInv, TimerTimes
    <3> QED BY <3>1, <2>1, <1>1, <1>10
  <2>2. CASE s = t /\ slots'[s][i] = a
    <3>1. i \in Nat
      OBVIOUS
    <3>2. OnTime(b, Ahead(cur_slot, 0, t, i))
      BY <3>1, <1>1, <1>5, <1>6, AddedOnTime
    <3> QED BY <3>2, <2>2, <1>10
  <2> QED BY <2>1, <2>2, <1>9
<1>14. TimerDels'
  <2> SUFFICES ASSUME NEW o \in Users
               PROVE  /\ user'[o].pc \in {"added", "deleting"} => user'[o].addr \in Timer!Addrs
                      /\ user'[o].pc = "added" => user'[o].slot = 0
                      /\ user'[o].pc = "deleting" => timerEnd = "run" /\ Finds(o)'
    BY <1>4 DEF TimerDels
  <2>1. CASE o = u
    <3>1. user'[o] = [pc |-> "added", addr |-> a, slot |-> 0]
      BY <2>1, <1>3 DEF TimerInv, TimerTypeOK
    <3> QED BY <3>1
  <2>2. CASE o # u
    <3>1. user'[o] = user[o] /\ rang'[o] = rang[o]
      BY <2>2, <1>3, <1>4 DEF TimerInv, TimerTypeOK
    <3>2. /\ user[o].pc \in {"added", "deleting"} => user[o].addr \in Timer!Addrs
          /\ user[o].pc = "added" => user[o].slot = 0
          /\ user[o].pc = "deleting" => timerEnd = "run" /\ Finds(o)
      BY DEF TimerInv, TimerDels
    <3>3. ASSUME user[o].pc = "deleting" PROVE Finds(o)'
      <4>1. CASE rang[o]
        BY <4>1, <3>1 DEF Finds
      <4>2. CASE ~rang[o]
        <5>1. /\ user[o].addr \in Timer!Addrs /\ block[user[o].addr].owner = o
              /\ \E s \in WheelSlots : s >= user[o].slot /\ In(slots, s, user[o].addr)
          BY <4>2, <3>2, <3>3 DEF Finds
        <5>2. user[o].addr # a
          BY <5>1, <1>7 DEF Absent
        <5>3. block'[user'[o].addr].owner = o
          BY <5>1, <5>2, <3>1, <1>10
        <5>4. \E s \in WheelSlots : s >= user'[o].slot /\ In(slots', s, user'[o].addr)
          BY <5>1, <3>1, <1>9
        <5> QED BY <5>3, <5>4 DEF Finds, In
      <4> QED BY <4>1, <4>2
    <3> QED BY <3>1, <3>2, <3>3
  <2> QED BY <2>1, <2>2
<1> QED BY <1>11, <1>12, <1>13, <1>14 DEF TimerInv

LEMMA TimerDelCalls ==
    ASSUME TimerInv, NEW u \in Users, Timer!DelCall(u)
    PROVE  TimerInv'
<1>1. /\ timerEnd = "run" /\ user[u].pc = "added" /\ user' = [user EXCEPT ![u].pc = "deleting"]
      /\ rang' = [rang EXCEPT ![u] = block[user[u].addr].owner # u]
      /\ UNCHANGED <<slots, block, cur_slot, at, timerEnd>>
  BY DEF Timer!DelCall
<1>2. PICK r \in BOOLEAN : r = (block[user[u].addr].owner # u)
  OBVIOUS
<1>3. /\ user' \in [Users -> [pc : {"idle", "added", "deleting", "missed"},
                              addr : Timer!Addrs \cup {0}, slot : WheelSlots]]
      /\ \A o \in Users : user'[o].addr = user[o].addr /\ user'[o].slot = user[o].slot
      /\ \A o \in Users : o # u => user'[o] = user[o]
      /\ user'[u].pc = "deleting"
  BY <1>1 DEF TimerInv, TimerTypeOK
<1>4. /\ rang' \in [Users -> BOOLEAN] /\ rang'[u] = r
      /\ \A o \in Users : o # u => rang'[o] = rang[o]
  BY <1>1, <1>2 DEF TimerInv, TimerTypeOK
<1>5. TimerTypeOK' /\ TimerPlaces' /\ TimerTimes'
  BY <1>1, <1>3, <1>4 DEF TimerInv, TimerTypeOK, TimerPlaces, TimerTimes
<1>6. TimerDels'
  <2> SUFFICES ASSUME NEW o \in Users
               PROVE  /\ user'[o].pc \in {"added", "deleting"} => user'[o].addr \in Timer!Addrs
                      /\ user'[o].pc = "added" => user'[o].slot = 0
                      /\ user'[o].pc = "deleting" => timerEnd = "run" /\ Finds(o)'
    BY <1>1 DEF TimerDels
  <2>1. CASE o = u
    <3>1. user[u].addr \in Timer!Addrs
      BY <1>1 DEF TimerInv, TimerDels
    <3>2. CASE r
      BY <3>1, <3>2, <2>1, <1>1, <1>3, <1>4 DEF Finds
    <3>3. CASE ~r
      <4>1. block[user[u].addr].owner = u
        BY <3>3, <1>2
      <4>2. PICK s \in WheelSlots : In(slots, s, user[u].addr)
        BY <4>1, <3>1 DEF TimerInv, TimerPlaces
      <4>3. user[u].slot = 0 /\ s >= user[u].slot
        BY <1>1 DEF TimerInv, TimerDels, WheelSlots
      <4> QED BY <4>1, <4>2, <4>3, <3>1, <2>1, <1>1, <1>3 DEF Finds, In
    <3> QED BY <3>2, <3>3
  <2>2. CASE o # u
    BY <2>2, <1>1, <1>3, <1>4 DEF TimerInv, TimerDels, Finds
  <2> QED BY <2>1, <2>2
<1> QED BY <1>5, <1>6 DEF TimerInv

(* A Del that finds the address takes the timer that is there now, and     *)
(* whoever put it there will not find it.                                  *)
LEMMA TimerDelFinds ==
    ASSUME TimerInv, NEW u \in Users, Timer!DelFound(u)
    PROVE  TimerInv'
<1>1. /\ slots \in Lists /\ block \in [Timer!Addrs -> TimerBlocks] /\ OnePlace(slots)
      /\ cur_slot \in WheelSlots /\ user[u].slot \in WheelSlots /\ 0 \notin Users
      /\ \A s \in WheelSlots : DOMAIN slots[s] = 1 .. Len(slots[s])
      /\ \A s \in WheelSlots : \A i \in 1 .. Len(slots[s]) : slots[s][i] \in Timer!Addrs
  BY TimerFacts, ServicesAssumption DEF TimerInv, TimerPlaces, TimerTypeOK
<1>2. PICK t \in WheelSlots : t = user[u].slot
  BY <1>1
<1>3. PICK f \in 1 .. Len(slots[t]) :
         slots[t][f] = user[u].addr /\ slots' = [slots EXCEPT ![t] = Timer!RemoveAt(@, f)]
  BY <1>1, <1>2 DEF Timer!DelFound
<1>4. PICK a \in Timer!Addrs : a = user[u].addr /\ a = slots[t][f]
  BY <1>1, <1>3
<1>5. /\ at = 0 /\ user[u].pc = "deleting" /\ block' = [block EXCEPT ![a] = Timer!Freed]
      /\ user' = [user EXCEPT ![u] = [pc |-> "idle", addr |-> 0, slot |-> 0]]
      /\ rang' = [rang EXCEPT ![block[a].owner] = TRUE] /\ UNCHANGED <<cur_slot, at, timerEnd>>
  BY <1>4 DEF Timer!DelFound, Timer!MutexFree, Timer!None
<1>6. PICK v \in Users : v = block[a].owner
  BY <1>4 DEF TimerInv, TimerPlaces
<1>7. TookEntry(slots', slots, t, f)
  BY <1>3 DEF TookEntry
<1>8. /\ slots' \in Lists /\ OnePlace(slots')
      /\ \A s \in WheelSlots : \A i \in 1 .. Len(slots'[s]) :
             /\ Origin(s, i, t, f) \in 1 .. Len(slots[s])
             /\ slots'[s][i] = slots[s][Origin(s, i, t, f)] /\ slots'[s][i] # a
      /\ \A s \in WheelSlots : \A x : In(slots, s, x) /\ x # a => In(slots', s, x)
  <2>1. LacksEntry(slots', slots, t, f)
    BY <1>1, <1>4, <1>7, Removed
  <2> QED BY <2>1, <1>4 DEF LacksEntry
<1>9. Timer!Freed \in TimerBlocks /\ Timer!Freed.owner = 0
  BY DEF Timer!Freed, TimerBlocks
<1>10. /\ block' \in [Timer!Addrs -> TimerBlocks]
       /\ \A x \in Timer!Addrs : block'[x] = IF x = a THEN Timer!Freed ELSE block[x]
  BY <1>1, <1>5, <1>9
<1>11. /\ rang' \in [Users -> BOOLEAN] /\ rang'[v] = TRUE
       /\ \A o \in Users : o # v => rang'[o] = rang[o]
  BY <1>5, <1>6 DEF TimerInv, TimerTypeOK
<1>12. \A s \in WheelSlots : \A i \in 1 .. Len(slots'[s]) :
          slots'[s][i] \in Timer!Addrs /\ block'[slots'[s][i]] = block[slots'[s][i]]
  BY <1>1, <1>8, <1>10, SMTT(40)
<1>13. TimerTypeOK'
  <2>1. [pc |-> "idle", addr |-> 0, slot |-> 0] \in
            [pc : {"idle", "added", "deleting", "missed"}, addr : Timer!Addrs \cup {0}, slot : WheelSlots]
    BY SlotNum
  <2>2. user' \in [Users -> [pc : {"idle", "added", "deleting", "missed"},
                             addr : Timer!Addrs \cup {0}, slot : WheelSlots]]
    BY <2>1, <1>5 DEF TimerInv, TimerTypeOK
  <2> QED BY <2>2, <1>5, <1>8, <1>10, <1>11 DEF TimerInv, TimerTypeOK
<1>14. TimerPlaces'
  <2>1. \A s \in WheelSlots : \A i \in 1 .. Len(slots'[s]) : block'[slots'[s][i]].owner \in Users
    BY <1>8, <1>12, SMTT(40) DEF TimerInv, TimerPlaces
  <2>2. ASSUME NEW x \in Timer!Addrs, block'[x].owner \in Users
        PROVE  \E s \in WheelSlots : In(slots', s, x)
    <3>1. x # a /\ block[x].owner \in Users
      BY <2>2, <1>1, <1>9, <1>10
    <3>2. PICK s \in WheelSlots : In(slots, s, x)
      BY <3>1 DEF TimerInv, TimerPlaces
    <3> QED BY <3>1, <3>2, <1>8
  <2> QED BY <2>1, <2>2, <1>8 DEF TimerPlaces, In
<1>15. TimerTimes'
  <2> SUFFICES ASSUME NEW s \in WheelSlots, NEW i \in 1 .. Len(slots'[s])
               PROVE  OnTime(block'[slots'[s][i]], Ahead(cur_slot, 0, s, i))
    BY <1>5 DEF TimerTimes
  <2>1. PICK k \in 1 .. Len(slots[s]) : k = Origin(s, i, t, f) /\ slots'[s][i] = slots[s][k]
    BY <1>8
  <2>2. OnTime(block[slots[s][k]], Ahead(cur_slot, 0, s, k))
    BY <1>5 DEF TimerInv, TimerTimes
  <2>3. Ahead(cur_slot, 0, s, k) = Ahead(cur_slot, 0, s, i)
    <3>1. k >= 0 /\ i >= 0
      OBVIOUS
    <3> QED BY <3>1 DEF Ahead
  <2> QED BY <2>1, <2>2, <2>3, <1>12
<1>16. TimerDels'
  <2> SUFFICES ASSUME NEW o \in Users
               PROVE  /\ user'[o].pc \in {"added", "deleting"} => user'[o].addr \in Timer!Addrs
                      /\ user'[o].pc = "added" => user'[o].slot = 0
                      /\ user'[o].pc = "deleting" => timerEnd = "run" /\ Finds(o)'
    BY <1>5 DEF TimerDels
  <2>1. CASE o = u
    <3>1. user'[o] = [pc |-> "idle", addr |-> 0, slot |-> 0]
      BY <2>1, <1>5 DEF TimerInv, TimerTypeOK
    <3> QED BY <3>1
  <2>2. CASE o # u
    <3>1. user'[o] = user[o]
      BY <2>2, <1>5 DEF TimerInv, TimerTypeOK
    <3>2. /\ user[o].pc \in {"added", "deleting"} => user[o].addr \in Timer!Addrs
          /\ user[o].pc = "added" => user[o].slot = 0
          /\ user[o].pc = "deleting" => timerEnd = "run" /\ Finds(o)
      BY DEF TimerInv, TimerDels
    <3>3. ASSUME user[o].pc = "deleting" PROVE Finds(o)'
      <4>1. CASE o = v
        BY <4>1, <1>11 DEF Finds
      <4>2. CASE o # v /\ rang[o]
        BY <4>2, <1>11 DEF Finds
      <4>3. CASE o # v /\ ~rang[o]
        <5>1. /\ user[o].addr \in Timer!Addrs /\ block[user[o].addr].owner = o
              /\ \E s \in WheelSlots : s >= user[o].slot /\ In(slots, s, user[o].addr)
          BY <4>3, <3>2, <3>3 DEF Finds
        <5>2. user[o].addr # a
          BY <5>1, <4>3, <1>6
        <5>3. block'[user'[o].addr].owner = o
          BY <5>1, <5>2, <3>1, <1>10
        <5>4. \E s \in WheelSlots : s >= user'[o].slot /\ In(slots', s, user'[o].addr)
          BY <5>1, <5>2, <3>1, <1>8
        <5> QED BY <5>3, <5>4 DEF Finds, In
      <4> QED BY <4>1, <4>2, <4>3
    <3> QED BY <3>1, <3>2, <3>3
  <2> QED BY <2>1, <2>2
<1> QED BY <1>13, <1>14, <1>15, <1>16 DEF TimerInv

(* A Del that does not find it here will find it in a later slot, and so   *)
(* there is one.                                                           *)
LEMMA TimerLater ==
    ASSUME TimerInv, NEW u \in Users, Timer!DelNext(u), ~rang[u]
    PROVE  /\ user[u].slot + 1 < slot_num /\ block[user[u].addr].owner = u
           /\ \E s \in WheelSlots : s >= user[u].slot + 1 /\ In(slots, s, user[u].addr)
<1>1. user[u].pc = "deleting" /\ user[u].addr \notin Timer!Range(slots[user[u].slot])
  BY DEF Timer!DelNext
<1>2. Finds(u)
  BY <1>1 DEF TimerInv, TimerDels
<1>3. PICK t \in WheelSlots : t = user[u].slot
  BY DEF TimerInv, TimerTypeOK
<1>4. PICK s \in WheelSlots : s >= t /\ In(slots, s, user[u].addr)
  BY <1>2, <1>3 DEF Finds
<1>5. ~In(slots, t, user[u].addr)
  <2>1. DOMAIN slots[t] = 1 .. Len(slots[t])
    BY TimerFacts
  <2> QED BY <2>1, <1>1, <1>3 DEF In, Timer!Range
<1>6. s >= t + 1 /\ t + 1 < slot_num
  <2>1. s # t
    BY <1>4, <1>5
  <2> QED BY <2>1, <1>4, SlotNum DEF WheelSlots
<1> QED BY <1>2, <1>3, <1>4, <1>6 DEF Finds

LEMMA TimerDelGoesOn ==
    ASSUME TimerInv, NEW u \in Users, Timer!DelNext(u)
    PROVE  TimerInv'
<1>1. PICK t \in WheelSlots : t = user[u].slot
  BY DEF TimerInv, TimerTypeOK
<1>2. PICK x \in Timer!Addrs : x = user[u].addr
  BY DEF TimerInv, TimerDels, Timer!DelNext
<1>3. user[u] = [pc |-> "deleting", addr |-> x, slot |-> t] /\ timerEnd = "run"
  BY <1>1, <1>2 DEF TimerInv, TimerTypeOK, TimerDels, Timer!DelNext
<1>4. PICK e : e = IF t + 1 < slot_num THEN [pc |-> "deleting", addr |-> x, slot |-> t + 1]
                   ELSE [pc |-> "missed", addr |-> 0, slot |-> 0]
  OBVIOUS
<1>5. /\ user' = [user EXCEPT ![u] = e] /\ UNCHANGED <<slots, block, cur_slot, at, rang, timerEnd>>
  <2>1. [user[u] EXCEPT !.slot = t + 1] = [pc |-> "deleting", addr |-> x, slot |-> t + 1]
    BY <1>3
  <2> QED BY <2>1, <1>1, <1>4 DEF Timer!DelNext, Timer!None
<1>6. e \in [pc : {"idle", "added", "deleting", "missed"}, addr : Timer!Addrs \cup {0}, slot : WheelSlots]
  <2>1. t + 1 < slot_num => t + 1 \in WheelSlots
    BY SlotNum DEF WheelSlots
  <2> QED BY <2>1, <1>4, SlotNum
<1>7. /\ user' \in [Users -> [pc : {"idle", "added", "deleting", "missed"},
                              addr : Timer!Addrs \cup {0}, slot : WheelSlots]]
      /\ \A o \in Users : user'[o] = IF o = u THEN e ELSE user[o]
  BY <1>5, <1>6 DEF TimerInv, TimerTypeOK
<1>8. TimerTypeOK' /\ TimerPlaces' /\ TimerTimes'
  BY <1>5, <1>7 DEF TimerInv, TimerTypeOK, TimerPlaces, TimerTimes
<1>9. TimerDels'
  <2> SUFFICES ASSUME NEW o \in Users
               PROVE  /\ user'[o].pc \in {"added", "deleting"} => user'[o].addr \in Timer!Addrs
                      /\ user'[o].pc = "added" => user'[o].slot = 0
                      /\ user'[o].pc = "deleting" => timerEnd = "run" /\ Finds(o)'
    BY <1>5 DEF TimerDels
  <2>1. CASE o = u
    <3>1. user'[o] = e
      BY <2>1, <1>7
    <3>2. CASE rang[u]
      BY <3>1, <3>2, <2>1, <1>3, <1>4, <1>5 DEF Finds
    <3>3. CASE ~rang[u]
      <4>1. /\ t + 1 < slot_num /\ block[x].owner = u
            /\ \E s \in WheelSlots : s >= t + 1 /\ In(slots, s, x)
        BY <3>3, <1>1, <1>2, TimerLater
      <4>2. e.pc = "deleting" /\ e.addr = x /\ e.slot = t + 1
        BY <4>1, <1>4
      <4> QED BY <4>1, <4>2, <3>1, <2>1, <1>3, <1>5 DEF Finds, In
    <3> QED BY <3>2, <3>3
  <2>2. CASE o # u
    BY <2>2, <1>5, <1>7 DEF TimerInv, TimerDels, Finds
  <2> QED BY <2>1, <2>2
<1> QED BY <1>8, <1>9 DEF TimerInv

LEMMA TimerGoes ==
    ASSUME TimerInv, Timer!TimerDestroy
    PROVE  TimerInv'
<1>1. /\ \A u \in Users : user[u].pc # "deleting"
      /\ timerEnd' = "exit" /\ UNCHANGED <<slots, block, cur_slot, at, user, rang>>
  BY DEF Timer!TimerDestroy
<1> QED BY <1>1 DEF TimerInv, TimerTypeOK, TimerPlaces, TimerTimes, TimerDels

LEMMA TimerGone ==
    ASSUME TimerInv, Timer!TimerFree
    PROVE  TimerInv'
<1>1. /\ timerEnd = "exit" /\ slots' = [s \in DOMAIN slots |-> <<>>]
      /\ block' = [a \in Timer!Addrs |-> Timer!Freed]
      /\ UNCHANGED <<cur_slot, at, user, rang>>
  BY DEF Timer!TimerFree
<1>2. slots' = [s \in WheelSlots |-> <<>>]
  BY <1>1, TimerFacts
<1>3. slots' \in Lists /\ \A s \in WheelSlots : Len(slots'[s]) = 0
  BY <1>2 DEF Lists
<1>4. Timer!Freed \in TimerBlocks /\ Timer!Freed.owner = 0 /\ 0 \notin Users
  BY ServicesAssumption DEF Timer!Freed, TimerBlocks
<1>5. TimerTypeOK'
  BY <1>1, <1>3, <1>4 DEF TimerInv, TimerTypeOK
<1>6. TimerPlaces'
  BY <1>1, <1>3, <1>4 DEF TimerPlaces, OnePlace
<1>7. TimerTimes'
  BY <1>3 DEF TimerTimes
<1>8. TimerDels'
  <2>1. \A u \in Users : user[u].pc # "deleting"
    BY <1>1 DEF TimerInv, TimerDels
  <2> QED BY <2>1, <1>1 DEF TimerInv, TimerDels
<1> QED BY <1>5, <1>6, <1>7, <1>8 DEF TimerInv

LEMMA TimerStarts ==
    ASSUME Timer!TimerInit
    PROVE  TimerInv
<1>1. /\ slots = [s \in WheelSlots |-> <<>>] /\ block = [a \in Timer!Addrs |-> Timer!Freed]
      /\ cur_slot = 0 /\ at = 0 /\ timerEnd = "run"
      /\ user = [u \in Users |-> [pc |-> "idle", addr |-> 0, slot |-> 0]]
      /\ rang = [u \in Users |-> FALSE]
  BY DEF Timer!TimerInit, Timer!None, WheelSlots
<1>2. slots \in Lists /\ \A s \in WheelSlots : Len(slots[s]) = 0
  BY <1>1 DEF Lists
<1>3. Timer!Freed \in TimerBlocks /\ Timer!Freed.owner = 0 /\ 0 \notin Users
  BY ServicesAssumption DEF Timer!Freed, TimerBlocks
<1>4. TimerTypeOK
  BY <1>1, <1>2, <1>3, SlotNum DEF TimerTypeOK
<1>5. TimerPlaces
  BY <1>1, <1>2, <1>3 DEF TimerPlaces, OnePlace
<1>6. TimerTimes
  BY <1>2 DEF TimerTimes
<1>7. TimerDels
  BY <1>1 DEF TimerDels
<1> QED BY <1>4, <1>5, <1>6, <1>7 DEF TimerInv

LEMMA TimerStep ==
    ASSUME TimerInv, Timer!TimerNext \/ UNCHANGED T
    PROVE  TimerInv'
<1>1. ASSUME UNCHANGED T PROVE TimerInv'
  BY <1>1 DEF T, TimerInv, TimerTypeOK, TimerPlaces, TimerTimes, TimerDels, Finds
<1>2. ASSUME Timer!Visit PROVE TimerInv'
  <2>1. PICK a : /\ a = slots[cur_slot][at]
                 /\ Timer!Pass(a) \/ Timer!Fire(a)
                 /\ at \in DOMAIN slots[cur_slot] /\ UNCHANGED <<cur_slot, user, timerEnd>>
    BY <1>2 DEF Timer!Visit
  <2>2. at \in 1 .. Len(slots[cur_slot])
    BY <2>1, TimerFacts
  <2>3. CASE Timer!Pass(a)
    BY <2>1, <2>2, <2>3, TimerPasses
  <2>4. CASE Timer!Fire(a)
    BY <2>1, <2>2, <2>4, TimerFires
  <2> QED BY <2>1, <2>3, <2>4
<1>3. ASSUME Timer!Wake \/ Timer!SlotDone PROVE TimerInv'
  BY <1>3, TimerWakes, TimerSteps
<1>4. ASSUME Timer!TimerDestroy \/ Timer!TimerFree PROVE TimerInv'
  BY <1>4, TimerGoes, TimerGone
<1>5. ASSUME NEW u \in Users, NEW e \in Expiries, NEW r \in BOOLEAN, Timer!Add(u, e, r)
      PROVE  TimerInv'
  BY <1>5, TimerAdds
<1>6. ASSUME NEW u \in Users, Timer!DelCall(u) \/ Timer!DelFound(u) \/ Timer!DelNext(u)
      PROVE  TimerInv'
  BY <1>6, TimerDelCalls, TimerDelFinds, TimerDelGoesOn
<1> QED BY <1>1, <1>2, <1>3, <1>4, <1>5, <1>6 DEF Timer!TimerNext, Timer!TimerServer

LEMMA TimerInvariant == Spec => []TimerInv
<1>1. Init => TimerInv
  BY TimerStarts DEF Init
<1>2. TimerInv /\ [Next]_servicesVars => TimerInv'
  <2>1. [Next]_servicesVars => Timer!TimerNext \/ UNCHANGED T
    BY DEF Next, servicesVars, T
  <2> QED BY <2>1, TimerStep
<1> QED BY <1>1, <1>2, PTL DEF Spec, servicesVars

(* HyTimer: whichever slot the server is at when a timer is filed, and     *)
(* however the lists are changed around it, it rings not later than asked  *)
(* for (or a turn of the wheel, when that is longer) and less than two     *)
(* turns too early.                                                        *)
THEOREM TimersRingNear == Spec => []RingsNearItsTime
<1>1. TimerInv => RingsNearItsTime
  <2> SUFFICES ASSUME TimerInv, NEW a \in Timer!Addrs, Timer!Due(a)
               PROVE  /\ block[a].age <= IF block[a].expires < slot_num THEN slot_num
                                         ELSE block[a].expires
                      /\ block[a].expires < block[a].age + 2 * slot_num
    BY DEF RingsNearItsTime, Timer!RingsNearItsTime
  <2>1. /\ cur_slot \in WheelSlots /\ at \in 1 .. Len(slots[cur_slot])
        /\ slots[cur_slot][at] = a /\ block[a].rotation <= 1
    BY TimerFacts DEF Timer!Due
  <2>2. PICK b \in TimerBlocks : b = block[a]
    BY TimerFacts
  <2>3. OnTime(b, Ahead(cur_slot, at, cur_slot, at))
    BY <2>1, <2>2 DEF TimerInv, TimerTimes
  <2>4. Ahead(cur_slot, at, cur_slot, at) = 0
    BY <2>1 DEF Ahead, WheelSlots
  <2>5. TurnsLeft(b.rotation) = 0 /\ b.age \in Nat
    BY <2>1, <2>2 DEF TurnsLeft, TimerBlocks
  <2>6. RingsAt(b, 0) = b.age
    BY <2>5, SlotNum DEF RingsAt
  <2> QED BY <2>2, <2>3, <2>4, <2>6 DEF OnTime
<1> QED BY <1>1, TimerInvariant, PTL

(* HyTimer: HyTimerDel gives the mutex back between two slots, and yet     *)
(* what it does not find, or finds taken by another timer, has rung.       *)
THEOREM DelsMissOnlyWhatRang == Spec => DelMissesOnlyWhatRang
<1> DEFINE Missed(u) ==
             /\ user[u].pc = "deleting" /\ user'[u].pc # "deleting"
             /\ \/ user'[u].pc = "missed"
                \/ block[user[u].addr].owner # u
<1>1. TimerInv /\ [Next]_servicesVars => [\A u \in Users : Missed(u) => rang[u]]_T
  <2> SUFFICES ASSUME TimerInv, Timer!TimerNext, NEW u \in Users, Missed(u), ~rang[u]
               PROVE  FALSE
    BY DEF Next, servicesVars, T
  <2>1. block[user[u].addr].owner = u /\ user'[u].pc = "missed" /\ user[u].pc = "deleting"
    BY DEF TimerInv, TimerDels, Finds
  <2>2. user' # user
    BY <2>1
  <2>3. PICK o \in Users : \/ \E e \in Expiries, r \in BOOLEAN : Timer!Add(o, e, r)
                           \/ Timer!DelCall(o) \/ Timer!DelFound(o) \/ Timer!DelNext(o)
    BY <2>2 DEF Timer!TimerNext, Timer!TimerServer, Timer!Wake, Timer!Visit, Timer!SlotDone,
                Timer!TimerDestroy, Timer!TimerFree
  <2>4. user \in [Users -> [pc : {"idle", "added", "deleting", "missed"},
                            addr : Timer!Addrs \cup {0}, slot : WheelSlots]]
    BY DEF TimerInv, TimerTypeOK
  <2>5. o = u
    <3>1. \E to : user' = [user EXCEPT ![o] = to]
      BY <2>3, <2>4 DEF Timer!Add, Timer!DelCall, Timer!DelFound, Timer!DelNext
    <3> QED BY <3>1, <2>1, <2>4
  <2>6. CASE Timer!DelNext(u)
    <3>1. user[u].slot + 1 < slot_num
      BY <2>6, TimerLater
    <3>2. user'[u] = [user[u] EXCEPT !.slot = user[u].slot + 1]
      BY <3>1, <2>4, <2>6 DEF Timer!DelNext
    <3> QED BY <3>2, <2>1, <2>4
  <2>7. CASE Timer!DelFound(u)
    <3>1. user'[u].pc = "idle"
      BY <2>4, <2>7 DEF Timer!DelFound
    <3> QED BY <3>1, <2>1
  <2>8. CASE Timer!DelCall(u)
    BY <2>1, <2>8 DEF Timer!DelCall
  <2>9. CASE \E e \in Expiries, r \in BOOLEAN : Timer!Add(u, e, r)
    BY <2>1, <2>9 DEF Timer!Add
  <2> QED BY <2>3, <2>5, <2>6, <2>7, <2>8, <2>9
<1>2. [][\A u \in Users : Missed(u) => rang[u]]_T => DelMissesOnlyWhatRang
  BY PTL DEF DelMissesOnlyWhatRang, Timer!DelMissesOnlyWhatRang, Timer!timerVars, T
<1> QED BY <1>1, <1>2, TimerInvariant, PTL DEF Spec, servicesVars

-----------------------------------------------------------------------------
(* Remainders of remainders: what a wheel sees of a counter of the full    *)
(* width.                                                                  *)
LEMMA DivUnique ==
    ASSUME NEW n \in Nat \ {0}, NEW a \in Nat, NEW q \in Int, NEW r \in 0 .. n - 1,
           a = n * q + r
    PROVE  a \div n = q
<1>1. PICK p \in Int : p = a \div n /\ a = n * p + (a % n)
  BY ModParts
<1>2. a % n = r
  BY ModUnique
<1>3. n * p = n * q
  <2>1. n * p \in Int /\ n * q \in Int
    OBVIOUS
  <2> QED BY <2>1, <1>1, <1>2
<1>4. p = q
  BY <1>3, SMTT(40)
<1> QED BY <1>1, <1>4

LEMMA ModOfMod ==
    ASSUME NEW a \in Nat \ {0}, NEW b \in Nat \ {0}, NEW x \in Nat
    PROVE  /\ (x % (a * b)) % a = x % a
           /\ (x % (a * b)) \div a = (x \div a) % b
<1>1. PICK c \in Nat \ {0} : c = a * b
  <2>1. a * b \in Nat \ {0}
    OBVIOUS
  <2> QED BY <2>1
<1>2. PICK q \in Int, r \in 0 .. c - 1 : x = c * q + r /\ r = x % c /\ q = x \div c
  BY ModParts
<1>3. PICK s \in Int, t \in 0 .. a - 1 : r = a * s + t /\ t = r % a /\ s = r \div a
  <2>1. r \in Nat
    OBVIOUS
  <2> QED BY <2>1, ModParts
<1>10. PICK as \in Int : as = a * s /\ r = as + t
  BY <1>3
<1>4. s \in 0 .. b - 1
  <2>1. ~(s < 0)
    <3> SUFFICES ASSUME s <= -1 PROVE FALSE
      BY <1>3
    <3>1. a * s <= -a
      OBVIOUS
    <3> QED BY <3>1, <1>10
  <2>2. ~(s >= b)
    <3> SUFFICES ASSUME s >= b PROVE FALSE
      OBVIOUS
    <3>1. a * s >= a * b
      OBVIOUS
    <3> QED BY <3>1, <1>1, <1>10
  <2> QED BY <2>1, <2>2, <1>3
<1>5. q >= 0
  <2> SUFFICES ASSUME q <= -1 PROVE FALSE
    BY <1>2
  <2>1. c * q <= c * (-1)
    OBVIOUS
  <2> QED BY <2>1, <1>2
<1>6. x = a * (b * q + s) + t
  <2>1. PICK bq \in Int : bq = b * q
    OBVIOUS
  <2>2. a * (bq + s) = a * bq + a * s /\ a * bq \in Int
    OBVIOUS
  <2>3. a * (b * q) = (a * b) * q
    OBVIOUS
  <2>4. c * q = a * bq
    BY <2>1, <2>3, <1>1
  <2>7. PICK cq \in Int : cq = c * q /\ x = cq + r
    BY <1>2
  <2>8. x = cq + (as + t) /\ cq = a * bq
    BY <2>4, <2>7, <1>10
  <2>5. x = a * bq + a * s + t
    BY <2>2, <2>8, <1>10
  <2>6. x = a * (bq + s) + t
    BY <2>2, <2>5
  <2> QED BY <2>1, <2>6
<1>7. b * q + s \in Nat
  <2>1. b * q \in Nat
    BY <1>2, <1>5
  <2> QED BY <2>1, <1>4
<1>8. x % a = t /\ x \div a = b * q + s
  BY <1>6, <1>7, ModUnique, DivUnique
<1>9. (b * q + s) % b = s
  BY <1>2, <1>4, <1>7, ModUnique
<1> QED BY <1>1, <1>2, <1>3, <1>8, <1>9

(* The spans of the wheels divide each other, with a whole turn of the     *)
(* smaller wheel at least.                                                 *)
Turn == 2 ^ Bits

LEMMA Spans ==
    /\ Turn \in Nat \ {0} /\ Wheel!Word = Wheel!Span(Wheels)
    /\ \A n \in 0 .. Wheels : Wheel!Span(n) \in Nat \ {0}
<1>1. \A n \in 0 .. Wheels : n * Bits \in Nat /\ n * Bits <= Wheels * Bits
  <2> SUFFICES ASSUME NEW n \in 0 .. Wheels PROVE n * Bits \in Nat /\ n * Bits <= Wheels * Bits
    OBVIOUS
  <2> QED BY WheelAssumption
<1>2. Bits <= Wheels * Bits
  BY WheelAssumption
<1>3. Turn \in Nat \ {0}
  BY <1>1, <1>2, WheelAssumption, PowersAssumption DEF Turn
<1>4. ASSUME NEW n \in 0 .. Wheels PROVE Wheel!Span(n) \in Nat \ {0}
  <2>1. BaseBits + n * Bits \in 0 .. BaseBits + Wheels * Bits
    BY <1>1, WheelAssumption
  <2> QED BY <2>1, PowersAssumption DEF Wheel!Span
<1> QED BY <1>3, <1>4 DEF Wheel!Word, Wheel!Span

LEMMA SpansNest ==
    ASSUME NEW n \in 0 .. Wheels, NEW j \in 0 .. Wheels - 1, j < n
    PROVE  \E m \in Nat \ {0} : Wheel!Span(n) = Wheel!Span(j) * (Turn * m)
<1> DEFINE top == BaseBits + Wheels * Bits
           low == BaseBits + j * Bits
           gap == (n - j - 1) * Bits
<1>1. n \in Nat /\ j \in Nat /\ n <= Wheels /\ n - j - 1 \in Nat /\ Wheels \in Nat /\ Bits \in Nat
      /\ BaseBits \in Nat
  BY WheelAssumption
<1>2. /\ j * Bits \in Nat /\ gap \in Nat
      /\ n * Bits = j * Bits + (Bits + gap) /\ n * Bits <= Wheels * Bits /\ Wheels * Bits \in Nat
  BY <1>1
<1>3. low \in 0 .. top /\ gap \in 0 .. top /\ Bits \in 0 .. top /\ Bits + gap \in 0 .. top
      /\ low + (Bits + gap) = BaseBits + n * Bits /\ low + (Bits + gap) <= top
      /\ Bits + gap <= top
  BY <1>1, <1>2
<1> HIDE DEF top, low, gap
<1>4. 2 ^ (low + (Bits + gap)) = 2 ^ low * 2 ^ (Bits + gap)
  BY <1>3, PowersAssumption DEF top
<1>5. 2 ^ (Bits + gap) = 2 ^ Bits * 2 ^ gap /\ 2 ^ gap \in Nat \ {0}
  BY <1>3, PowersAssumption DEF top
<1>6. Wheel!Span(n) = Wheel!Span(j) * (Turn * 2 ^ gap)
  BY <1>3, <1>4, <1>5 DEF Wheel!Span, Turn, low
<1> QED BY <1>5, <1>6

LEMMA SpanNat == ASSUME NEW n \in 0 .. Wheels PROVE Wheel!Span(n) \in Nat \ {0}
BY Spans

LEMMA WordNat == Wheel!Word \in Nat \ {0}
<1>1. Wheels \in 0 .. Wheels
  BY WheelAssumption
<1> QED BY <1>1, Spans

LEMMA DivNat ==
    ASSUME NEW n \in Nat \ {0}, NEW a \in Nat
    PROVE  a \div n \in Nat
<1>1. PICK q \in Int, r \in 0 .. n - 1 : q = a \div n /\ a = n * q + r
  BY ModParts
<1>2. ~(q <= -1)
  <2> SUFFICES ASSUME q <= -1 PROVE FALSE
    OBVIOUS
  <2>1. n * q <= -n
    OBVIOUS
  <2>2. PICK nq \in Int : nq = n * q
    OBVIOUS
  <2> QED BY <2>1, <2>2, <1>1
<1> QED BY <1>1, <1>2

LEMMA OfTheWord ==
    ASSUME NEW x \in Nat, NEW n \in 0 .. Wheels - 1
    PROVE  /\ (x % Wheel!Word) % Wheel!Span(n) = x % Wheel!Span(n)
           /\ Wheel!Index(x % Wheel!Word, n) = Wheel!Index(x, n)
<1>1. Wheels \in Nat /\ Wheels \in 0 .. Wheels /\ n \in 0 .. Wheels /\ n < Wheels
  BY WheelAssumption
<1>2. PICK m \in Nat \ {0} : Wheel!Word = Wheel!Span(n) * (Turn * m)
  BY <1>1, SpansNest, Spans
<1>3. PICK s \in Nat \ {0} : s = Wheel!Span(n)
  BY <1>1, SpanNat
<1>4. PICK r \in Nat \ {0} : r = Turn
  BY Spans
<1>5. PICK rm \in Nat \ {0} : rm = r * m
  <2>1. r * m \in Nat \ {0}
    OBVIOUS
  <2> QED BY <2>1
<1>6. (x % (s * rm)) % s = x % s /\ (x % (s * rm)) \div s = (x \div s) % rm
  BY ModOfMod
<1>7. PICK y \in Nat : y = x \div s
  BY DivNat
<1>8. (y % rm) % r = y % r
  <2>1. (y % (r * m)) % r = y % r
    BY ModOfMod
  <2> QED BY <2>1, <1>5
<1> QED BY <1>2, <1>3, <1>4, <1>5, <1>6, <1>7, <1>8 DEF Wheel!Index, Turn

(* Where a counter is rounded down to a turn of a wheel, that wheel and    *)
(* all below it are looked at.                                             *)
Rounded(x, n) == x - (x % Wheel!Span(n))

TurnedAt(t, n) == \A j \in 0 .. n - 1 : Wheel!Index(t, j) = 0

LEMMA RoundedTurns ==
    ASSUME NEW x \in Nat, NEW n \in 0 .. Wheels - 1, NEW t \in Nat, t = Rounded(x, n)
    PROVE  /\ Wheel!Index(t, n) = Wheel!Index(x, n)
           /\ TurnedAt(t, n) /\ t % Wheel!Span(0) = 0
<1>1. Wheels \in Nat /\ 0 \in 0 .. Wheels - 1 /\ n \in 0 .. Wheels
  BY WheelAssumption
<1>2. PICK s \in Nat \ {0} : s = Wheel!Span(n)
  BY <1>1, SpanNat
<1>3. PICK q \in Nat : q = x \div s /\ t = s * q
  <2>1. PICK q \in Nat : q = x \div s
    BY DivNat
  <2>2. x = s * q + (x % s)
    BY <2>1, ModParts
  <2>3. PICK sq \in Int : sq = s * q
    OBVIOUS
  <2>6. x % s \in 0 .. s - 1
    BY ModParts
  <2>4. PICK r \in Int : r = x % s
    BY <2>6
  <2>5. t = x - r /\ x = sq + r
    BY <2>2, <2>3, <2>4, <1>2 DEF Rounded
  <2> QED BY <2>1, <2>3, <2>5
<1>4. t = s * q + 0 /\ 0 \in 0 .. s - 1
  BY <1>3
<1>5. t \div s = q /\ t % s = 0
  BY <1>4, ModUnique, DivUnique
<1>6. ASSUME NEW j \in 0 .. n - 1
      PROVE  Wheel!Index(t, j) = 0 /\ t % Wheel!Span(j) = 0
  <2>1. j \in 0 .. Wheels - 1 /\ j < n /\ j \in 0 .. Wheels
    BY <1>1
  <2>2. PICK m \in Nat \ {0} : Wheel!Span(n) = Wheel!Span(j) * (Turn * m)
    BY <1>1, <2>1, SpansNest
  <2>3. PICK a \in Nat \ {0} : a = Wheel!Span(j)
    BY <2>1, SpanNat
  <2>4. PICK r \in Nat \ {0} : r = Turn
    BY Spans
  <2>5. PICK mq \in Nat : mq = m * q
    OBVIOUS
  <2>6. PICK y \in Nat : y = r * mq
    OBVIOUS
  <2>7. t = a * y
    <3>1. t = (a * (r * m)) * q
      BY <1>2, <1>3, <2>2, <2>3, <2>4
    <3>2. (a * (r * m)) * q = a * (r * (m * q))
      OBVIOUS
    <3> QED BY <3>1, <3>2, <2>5, <2>6
  <2>8. t = a * y + 0 /\ 0 \in 0 .. a - 1 /\ y = r * mq + 0 /\ 0 \in 0 .. r - 1
    BY <2>6, <2>7
  <2>9. t \div a = y /\ t % a = 0 /\ y % r = 0
    BY <2>8, ModUnique, DivUnique
  <2> QED BY <2>3, <2>4, <2>9 DEF Wheel!Index, Turn
<1>7. Wheel!Index(t, n) = Wheel!Index(x, n)
  BY <1>2, <1>3, <1>5 DEF Wheel!Index
<1>8. TurnedAt(t, n)
  BY <1>6 DEF TurnedAt
<1>9. t % Wheel!Span(0) = 0
  <2>1. CASE n = 0
    BY <2>1, <1>2, <1>5
  <2>2. CASE n # 0
    <3>1. 0 \in 0 .. n - 1
      BY <2>2, <1>1
    <3> QED BY <3>1, <1>6
  <2> QED BY <2>1, <2>2
<1> QED BY <1>7, <1>8, <1>9

(* The difference of two counters of the full width is how far apart they  *)
(* are, when that is not too far.                                          *)
LEMMA Distance ==
    ASSUME NEW n \in Nat \ {0}, NEW a \in Nat, NEW b \in Nat, a <= b, b - a < n
    PROVE  ((b % n) - (a % n)) % n = b - a
<1>1. PICK p \in Int, r \in 0 .. n - 1 : r = a % n /\ a = n * p + r
  BY ModParts
<1>2. PICK q \in Int, s \in 0 .. n - 1 : s = b % n /\ b = n * q + s
  BY ModParts
<1>3. PICK z \in Int : z = p - q
  OBVIOUS
<1>4. s - r = n * z + (b - a)
  <2>1. PICK np \in Int, nq \in Int : np = n * p /\ nq = n * q
    OBVIOUS
  <2>2. n * z = np - nq
    BY <1>3, <2>1
  <2>3. a = np + r /\ b = nq + s
    BY <1>1, <1>2, <2>1
  <2>4. s - r = (np - nq) + (b - a)
    BY <2>3
  <2> QED BY <2>2, <2>4
<1>5. PICK d \in 0 .. n - 1 : d = b - a
  OBVIOUS
<1>6. CASE s >= r
  <2>1. s - r \in Nat /\ s - r = n * z + d
    BY <1>4, <1>5, <1>6
  <2> QED BY <2>1, <1>1, <1>2, <1>5, ModUnique, ZenonT(60)
<1>7. CASE s < r
  <2>1. PICK nz \in Int : nz = n * z
    OBVIOUS
  <2>2. s - r = nz + d /\ s - r < 0 /\ -n < s - r
    BY <1>4, <1>5, <1>7, <2>1
  <2>3. z = -1
    <3>1. ~(z >= 0)
      <4> SUFFICES ASSUME z >= 0 PROVE FALSE
        OBVIOUS
      <4>1. n * z >= 0
        OBVIOUS
      <4> QED BY <4>1, <2>1, <2>2
    <3>2. ~(z <= -2)
      <4> SUFFICES ASSUME z <= -2 PROVE FALSE
        OBVIOUS
      <4>1. n * z <= -(2 * n)
        OBVIOUS
      <4> QED BY <4>1, <2>1, <2>2
    <3> QED BY <3>1, <3>2
  <2>4. s - r = d - n
    BY <2>1, <2>2, <2>3
  <2>5. (d - n) % n = d
    OBVIOUS
  <2> QED BY <2>4, <2>5, <1>1, <1>2, <1>5
<1> QED BY <1>6, <1>7

LEMMA ModPlus ==
    ASSUME NEW n \in Nat \ {0}, NEW a \in Nat, NEW d \in Nat
    PROVE  (d + (a % n)) % n = (a + d) % n
<1>1. PICK p \in Int, r \in 0 .. n - 1 : r = a % n /\ a = n * p + r
  BY ModParts
<1>2. d + r \in Nat
  OBVIOUS
<1>3. PICK q \in Int, s \in 0 .. n - 1 : s = (d + r) % n /\ d + r = n * q + s
  BY <1>2, ModParts
<1>4. PICK z \in Int : z = p + q
  OBVIOUS
<1>5. a + d = n * z + s /\ a + d \in Nat
  <2>1. PICK np \in Int, nq \in Int : np = n * p /\ nq = n * q
    OBVIOUS
  <2>2. n * z = np + nq
    BY <1>4, <2>1
  <2> QED BY <1>1, <1>3, <2>1, <2>2
<1>6. (a + d) % n = s
  BY <1>5, ModUnique
<1> QED BY <1>1, <1>3, <1>6

(* The lists of the wheels lie behind list_base; where they overlap each   *)
(* other does not matter.                                                  *)
LEMMA IndexNat ==
    ASSUME NEW x \in Nat, NEW n \in 0 .. Wheels - 1
    PROVE  Wheel!Index(x, n) \in Nat
<1>1. n \in 0 .. Wheels
  BY WheelAssumption
<1>2. PICK y \in Nat : y = x \div Wheel!Span(n)
  BY <1>1, SpanNat, DivNat
<1>3. PICK r \in Nat \ {0} : r = Turn
  BY Spans
<1>4. y % r \in Nat
  OBVIOUS
<1> QED BY <1>2, <1>3, <1>4 DEF Wheel!Index, Turn

LEMMA BehindBase ==
    ASSUME NEW x \in Nat, NEW n \in 0 .. Wheels - 1
    PROVE  Wheel!WheelList(n, Wheel!Index(x, n)) \in Int
           /\ Wheel!WheelList(n, Wheel!Index(x, n)) >= Wheel!Span(0)
<1>1. PICK i \in Nat : i = Wheel!Index(x, n)
  BY IndexNat
<1>2. 0 \in 0 .. Wheels /\ Wheels \in Nat /\ n \in Nat
  BY WheelAssumption
<1>3. PICK s \in Nat \ {0} : s = Wheel!Span(0)
  BY <1>2, SpanNat
<1>4. n * Wheels \in Nat
  BY <1>2
<1>5. s + n * Wheels + i \in Int /\ s + n * Wheels + i >= s
  BY <1>4
<1> QED BY <1>1, <1>3, <1>5 DEF Wheel!WheelList

LEMMA NatMax ==
    ASSUME NEW m \in Nat, NEW S \in SUBSET (0 .. m), S # {}
    PROVE  \E x \in S : \A y \in S : x >= y
<1> DEFINE gaps == {m - x : x \in S}
           R == OpToRel(<, Nat)
<1>1. gaps \in SUBSET Nat /\ gaps # {}
  <2>1. \A x \in S : m - x \in Nat
    OBVIOUS
  <2>2. gaps \subseteq Nat
    BY <2>1
  <2>3. \E x \in S : m - x \in gaps
    OBVIOUS
  <2> QED BY <2>2, <2>3
<1>2. IsWellFoundedOn(R, Nat)
  BY NatLessThanWellFounded
<1>3. PICK z \in gaps : \A y \in gaps : ~(<<y, z>> \in R)
  <2> HIDE DEF gaps, R
  <2> QED BY <1>1, <1>2, WFMin
<1>4. PICK x \in S : z = m - x
  BY <1>3
<1>5. ASSUME NEW y \in S PROVE x >= y
  <2>1. m - y \in gaps
    OBVIOUS
  <2>2. ~(m - y < m - x)
    BY <2>1, <1>3, <1>4, <1>1 DEF OpToRel
  <2> QED BY <2>2
<1> QED BY <1>5

(* _timer_add: a wheel is chosen by how far away the expiry time is.       *)
TopWheel(d) == Wheel!Max({0} \cup {k \in 1 .. Wheels - 1 : d >= Wheel!Span(k)})

LEMMA TopWheelFits ==
    ASSUME NEW d \in Nat, d >= Wheel!Span(0)
    PROVE  TopWheel(d) \in 0 .. Wheels - 1 /\ Wheel!Span(TopWheel(d)) <= d
<1> DEFINE S == {0} \cup {k \in 1 .. Wheels - 1 : d >= Wheel!Span(k)}
<1>1. Wheels - 1 \in Nat /\ S \in SUBSET (0 .. Wheels - 1) /\ S # {}
  BY WheelAssumption
<1>2. \A k \in S : Wheel!Span(k) \in Nat /\ d >= Wheel!Span(k)
  <2> SUFFICES ASSUME NEW k \in S PROVE Wheel!Span(k) \in Nat /\ d >= Wheel!Span(k)
    OBVIOUS
  <2>1. k \in 0 .. Wheels
    BY <1>1, WheelAssumption
  <2> QED BY <2>1, SpanNat
<1> HIDE DEF S
<1>3. Wheel!Max(S) \in S
  <2>1. \E x \in S : \A y \in S : x >= y
    BY <1>1, NatMax
  <2> QED BY <2>1 DEF Wheel!Max
<1>4. TopWheel(d) = Wheel!Max(S)
  BY DEF TopWheel, S
<1> QED BY <1>1, <1>2, <1>3, <1>4

(* A list is right for a timer due at x if the thread gets to it in time:  *)
(* it runs the list of the base at x, or looks at the wheel's list before. *)
AtBase(l, x, t) == l = Wheel!BaseList(x % Wheel!Span(0)) /\ x - t < Wheel!Span(0)

OnWheel(l, x, n) == l = Wheel!WheelList(n, Wheel!Index(x, n))

Placed(l, x, t, steady) ==
    \/ AtBase(l, x, t)
    \/ \E n \in 0 .. Wheels - 1 : OnWheel(l, x, n) /\ (steady => t <= Rounded(x, n))

LEMMA RoundedNat ==
    ASSUME NEW x \in Nat, NEW n \in 0 .. Wheels - 1
    PROVE  Rounded(x, n) \in Nat /\ Rounded(x, n) <= x /\ x - Rounded(x, n) < Wheel!Span(n)
<1>1. n \in 0 .. Wheels
  BY WheelAssumption
<1>2. PICK s \in Nat \ {0} : s = Wheel!Span(n)
  BY <1>1, SpanNat
<1>3. PICK q \in Int, r \in 0 .. s - 1 : r = x % s /\ q = x \div s /\ x = s * q + r
  BY ModParts
<1>4. PICK sq \in Int : sq = s * q /\ x = sq + r
  BY <1>3
<1>5. q \in Nat
  BY <1>3, DivNat
<1>6. sq >= 0
  BY <1>4, <1>5
<1>7. Rounded(x, n) = x - r
  BY <1>2, <1>3 DEF Rounded
<1>8. x - r = sq
  BY <1>4
<1> QED BY <1>2, <1>4, <1>6, <1>7, <1>8

LEMMA ListForPlaces ==
    ASSUME NEW x \in Nat, ticks \in Nat, ticks <= x, x - ticks < Wheel!Word \div 2
    PROVE  \/ AtBase(Wheel!ListFor(x % Wheel!Word), x, ticks)
           \/ \E n \in 0 .. Wheels - 1 : /\ OnWheel(Wheel!ListFor(x % Wheel!Word), x, n)
                                         /\ ticks < Rounded(x, n)
<1>1. PICK w \in Nat \ {0} : w = Wheel!Word
  BY WordNat
<1>2. PICK d \in Nat : d = x - ticks
  OBVIOUS
<1>3. d < w \div 2 /\ d < w
  BY <1>1, <1>2
<1>4. ((x % w) - (ticks % w)) % w = d
  BY <1>2, <1>3, Distance
<1>5. ((x % Wheel!Word) - Wheel!cur_ms) % Wheel!Word = d
  BY <1>1, <1>4 DEF Wheel!cur_ms
<1>6. ~(d >= Wheel!Word \div 2)
  BY <1>1, <1>3
<1>7. 0 \in 0 .. Wheels /\ 0 \in 0 .. Wheels - 1
  BY WheelAssumption
<1>8. PICK b \in Nat \ {0} : b = Wheel!Span(0)
  BY <1>7, SpanNat
<1>9. CASE d < Wheel!Span(0)
  <2>1. Wheel!ListFor(x % Wheel!Word) = Wheel!BaseList((x % Wheel!Word) % Wheel!Span(0))
    BY <1>5, <1>6, <1>9 DEF Wheel!ListFor
  <2>2. (x % Wheel!Word) % Wheel!Span(0) = x % Wheel!Span(0)
    BY <1>7, OfTheWord
  <2> QED BY <2>1, <2>2, <1>2, <1>9 DEF AtBase
<1>10. CASE ~(d < Wheel!Span(0))
  <2>1. Wheel!ListFor(x % Wheel!Word)
          = Wheel!WheelList(TopWheel(d), Wheel!Index(x % Wheel!Word, TopWheel(d)))
    BY <1>5, <1>6, <1>10 DEF Wheel!ListFor, TopWheel
  <2>2. d >= Wheel!Span(0)
    BY <1>8, <1>10
  <2>3. PICK n \in 0 .. Wheels - 1 : n = TopWheel(d) /\ Wheel!Span(n) <= d
    BY <2>2, TopWheelFits
  <2>4. OnWheel(Wheel!ListFor(x % Wheel!Word), x, n)
    BY <2>1, <2>3, OfTheWord DEF OnWheel
  <2>5. ticks < Rounded(x, n)
    <3>1. n \in 0 .. Wheels
      BY WheelAssumption
    <3>2. PICK s \in Nat \ {0} : s = Wheel!Span(n)
      BY <3>1, SpanNat
    <3>3. PICK y \in Nat : y = Rounded(x, n) /\ x - y < s
      BY <3>2, RoundedNat
    <3> QED BY <3>2, <3>3, <2>3, <1>2
  <2> QED BY <2>4, <2>5
<1> QED BY <1>9, <1>10

-----------------------------------------------------------------------------
(* HyTimerMultiWheel.  A timer that no tick overtook is in a list the      *)
(* thread gets to in time; one that was overtaken may stay where it is for *)
(* a turn, but no list of the base it is in runs before it is due.  A      *)
(* timer that is filed lives in the tick whose list runs next, unless it   *)
(* got in between the raising of cur_ms and the detaching of the list.     *)
WheelTimers ==
    [at : {"new", "placing", "linking", "filed", "fired", "refused"}, list : Int, expires : Nat,
     due : Nat, steady : BOOLEAN, gap : BOOLEAN, late : Int]

Aimed(f, t) ==
    /\ f.expires = f.due % Wheel!Word
    /\ t <= f.due => f.due - t < Wheel!Word \div 2
    /\ f.steady => t <= f.due

Coming(l, x, t, steady) ==
    \/ AtBase(l, x, t)
    \/ \E n \in 0 .. Wheels - 1 : OnWheel(l, x, n) /\ (steady => t < Rounded(x, n))

FiredInTime(f) ==
    \/ f.late = 0
    \/ f.late > 0 /\ ~f.steady
    \/ f.late = -Wheel!Span(0) /\ f.gap

(* The tick whose list is the next to run for the timer.                   *)
NextTick(f, t, ph) == IF ph = "detach" /\ f.at = "filed" /\ ~f.gap THEN t - 1 ELSE t

OnCourse(f, t, ph) ==
    LET now == NextTick(f, t, ph) IN
    /\ f.at \in {"placing", "linking", "filed"} => Aimed(f, now)
    /\ f.at = "linking" /\ now <= f.due => Coming(f.list, f.due, now, f.steady)
    /\ f.at = "filed" /\ now <= f.due =>
           IF ph \in {"raise", "detach"} THEN Coming(f.list, f.due, now, f.steady)
                                         ELSE Placed(f.list, f.due, now, f.steady)
    /\ f.at = "filed" /\ f.gap => ph = "detach"
    /\ f.at = "fired" => FiredInTime(f)

WheelTypeOK ==
    /\ ticks \in Nat /\ file \in [Wakes -> WheelTimers]
    /\ wheelThread \in {"test", "wait", "raise", "detach", "over"}
    /\ wheelThread = "detach" => ticks > 0

WheelInv == WheelTypeOK /\ \A w \in Wakes : OnCourse(file[w], ticks, wheelThread)

LEMMA TimerFields ==
    ASSUME NEW f \in WheelTimers
    PROVE  /\ f.at \in {"new", "placing", "linking", "filed", "fired", "refused"}
           /\ f.list \in Int /\ f.expires \in Nat /\ f.due \in Nat
           /\ f.steady \in BOOLEAN /\ f.gap \in BOOLEAN /\ f.late \in Int
BY DEF WheelTimers

LEMMA ComingIsPlaced ==
    ASSUME NEW l, NEW x \in Nat, NEW t \in Nat, NEW steady, Coming(l, x, t, steady)
    PROVE  Placed(l, x, t, steady)
<1>1. CASE AtBase(l, x, t)
  BY <1>1 DEF Placed
<1>2. ASSUME NEW n \in 0 .. Wheels - 1, OnWheel(l, x, n), steady => t < Rounded(x, n)
      PROVE  Placed(l, x, t, steady)
  <2>1. PICK y \in Nat : y = Rounded(x, n)
    BY RoundedNat
  <2>2. steady => t <= Rounded(x, n)
    BY <1>2, <2>1
  <2> QED BY <1>2, <2>2 DEF Placed
<1> QED BY <1>1, <1>2 DEF Coming

(* A tick later it is still there.                                         *)
LEMMA ComingGoesOn ==
    ASSUME NEW l, NEW x \in Nat, NEW t \in Nat, NEW steady, Coming(l, x, t, steady)
    PROVE  /\ Placed(l, x, t + 1, steady)
           /\ ~steady => Coming(l, x, t + 1, steady)
<1>1. CASE AtBase(l, x, t)
  <2>1. 0 \in 0 .. Wheels
    BY WheelAssumption
  <2>2. PICK b \in Nat \ {0} : b = Wheel!Span(0)
    BY <2>1, SpanNat
  <2>3. AtBase(l, x, t + 1)
    BY <1>1, <2>2 DEF AtBase
  <2> QED BY <2>3 DEF Placed, Coming
<1>2. ASSUME NEW n \in 0 .. Wheels - 1, OnWheel(l, x, n), steady => t < Rounded(x, n)
      PROVE  /\ Placed(l, x, t + 1, steady)
             /\ ~steady => Coming(l, x, t + 1, steady)
  <2>1. PICK y \in Nat : y = Rounded(x, n)
    BY RoundedNat
  <2>2. steady => t + 1 <= Rounded(x, n)
    BY <1>2, <2>1
  <2> QED BY <1>2, <2>2 DEF Placed, Coming
<1> QED BY <1>1, <1>2 DEF Coming

LEMMA ListForInt ==
    ASSUME NEW x \in Nat, ticks \in Nat
    PROVE  Wheel!ListFor(x) \in Int
<1>1. PICK w \in Nat \ {0} : w = Wheel!Word
  BY WordNat
<1>2. 0 \in 0 .. Wheels
  BY WheelAssumption
<1>3. PICK b \in Nat \ {0} : b = Wheel!Span(0)
  BY <1>2, SpanNat
<1>4. PICK c \in Nat : c = Wheel!cur_ms
  <2>1. ticks % w \in Nat
    OBVIOUS
  <2> QED BY <2>1, <1>1 DEF Wheel!cur_ms
<1>5. PICK d \in Nat : d = (x - Wheel!cur_ms) % Wheel!Word
  <2>1. (x - c) % w \in Nat
    OBVIOUS
  <2> QED BY <2>1, <1>1, <1>4
<1>6. c % b \in Int /\ x % b \in Int
  OBVIOUS
<1>7. CASE d >= Wheel!Word \div 2
  BY <1>3, <1>4, <1>5, <1>6, <1>7 DEF Wheel!ListFor, Wheel!BaseList
<1>8. CASE ~(d >= Wheel!Word \div 2) /\ d < Wheel!Span(0)
  BY <1>3, <1>5, <1>6, <1>8 DEF Wheel!ListFor, Wheel!BaseList
<1>9. CASE ~(d >= Wheel!Word \div 2) /\ ~(d < Wheel!Span(0))
  <2>1. d >= Wheel!Span(0)
    BY <1>3, <1>9
  <2>2. PICK n \in 0 .. Wheels - 1 : n = TopWheel(d)
    BY <2>1, TopWheelFits
  <2>3. Wheel!ListFor(x) = Wheel!WheelList(n, Wheel!Index(x, n))
    BY <1>5, <1>9, <2>2 DEF Wheel!ListFor, TopWheel
  <2> QED BY <2>3, BehindBase
<1> QED BY <1>7, <1>8, <1>9

(* _handle_timer, one timer: the list it is in when the tick's list runs.  *)
RanFrom(f) == IF f.list \in Wheel!Turned THEN Wheel!ListFor(f.expires) ELSE f.list

LEMMA TurnedHas ==
    ASSUME NEW x \in Nat, NEW n \in 0 .. Wheels - 1, ticks \in Nat, ticks = Rounded(x, n),
           NEW l, OnWheel(l, x, n)
    PROVE  l \in Wheel!Turned
<1>1. 0 \in 0 .. Wheels - 1
  BY WheelAssumption
<1>2. Wheel!Index(ticks, n) = Wheel!Index(x, n) /\ TurnedAt(ticks, n) /\ ticks % Wheel!Span(0) = 0
  BY RoundedTurns
<1>3. Wheel!cur_ms % Wheel!Span(0) = 0
  BY <1>1, <1>2, OfTheWord DEF Wheel!cur_ms
<1>4. \A j \in 0 .. n - 1 : Wheel!Index(Wheel!cur_ms, j) = 0
  <2> SUFFICES ASSUME NEW j \in 0 .. n - 1 PROVE Wheel!Index(Wheel!cur_ms, j) = 0
    OBVIOUS
  <2>1. j \in 0 .. Wheels - 1
    BY WheelAssumption
  <2>2. Wheel!Index(ticks, j) = 0
    BY <1>2 DEF TurnedAt
  <2> QED BY <2>1, <2>2, OfTheWord DEF Wheel!cur_ms
<1>5. l = Wheel!WheelList(n, Wheel!Index(Wheel!cur_ms, n))
  <2>1. Wheel!Index(Wheel!cur_ms, n) = Wheel!Index(ticks, n)
    BY OfTheWord DEF Wheel!cur_ms
  <2> QED BY <2>1, <1>2 DEF OnWheel
<1> QED BY <1>3, <1>4, <1>5 DEF Wheel!Turned

(* The list a timer is run from, when it is not overdue: that of the tick  *)
(* if it is due now; otherwise one the thread gets to after this tick.     *)
LEMMA RunFrom ==
    ASSUME ticks \in Nat, NEW f \in WheelTimers, Aimed(f, ticks), ticks <= f.due,
           Placed(f.list, f.due, ticks, f.steady)
    PROVE  \/ AtBase(RanFrom(f), f.due, ticks)
           \/ \E n \in 0 .. Wheels - 1 : /\ OnWheel(RanFrom(f), f.due, n)
                                         /\ f.steady => ticks < Rounded(f.due, n)
<1>1. f.due \in Nat /\ f.list \in Int /\ f.steady \in BOOLEAN
  BY DEF WheelTimers
<1>2. PICK x \in Nat : x = f.due
  BY <1>1
<1>3. 0 \in 0 .. Wheels
  BY WheelAssumption
<1>4. PICK b \in Nat \ {0} : b = Wheel!Span(0)
  BY <1>3, SpanNat
<1>5. CASE f.list \in Wheel!Turned
  <2>1. RanFrom(f) = Wheel!ListFor(x % Wheel!Word)
    BY <1>2, <1>5 DEF RanFrom, Aimed
  <2>2. x - ticks < Wheel!Word \div 2
    BY <1>2 DEF Aimed
  <2> QED BY <2>1, <2>2, <1>2, ListForPlaces
<1>6. CASE ~(f.list \in Wheel!Turned)
  <2>1. RanFrom(f) = f.list
    BY <1>6 DEF RanFrom
  <2>2. CASE AtBase(f.list, x, ticks)
    BY <2>1, <2>2, <1>2
  <2>3. ASSUME NEW n \in 0 .. Wheels - 1, OnWheel(f.list, x, n), f.steady => ticks <= Rounded(x, n)
        PROVE  f.steady => ticks < Rounded(x, n)
    <3> SUFFICES ASSUME f.steady PROVE ticks < Rounded(x, n)
      OBVIOUS
    <3>1. ticks # Rounded(x, n)
      BY <2>3, <1>6, TurnedHas
    <3>2. PICK y \in Nat : y = Rounded(x, n)
      BY RoundedNat
    <3> QED BY <3>1, <3>2, <2>3
  <2> QED BY <2>1, <2>2, <2>3, <1>2 DEF Placed
<1> QED BY <1>5, <1>6

(* The list that runs, that of tick t, from a timer's point of view.       *)
RunsAt(l, t) == l = Wheel!BaseList(t % Wheel!Span(0))

LEMMA NotBefore ==
    ASSUME NEW l, NEW x \in Nat, NEW t \in Nat, NEW steady, t < x, Coming(l, x, t, steady)
    PROVE  ~RunsAt(l, t)
<1>1. 0 \in 0 .. Wheels
  BY WheelAssumption
<1>2. PICK b \in Nat \ {0} : b = Wheel!Span(0)
  BY <1>1, SpanNat
<1>3. CASE AtBase(l, x, t)
  <2>1. l = x % b /\ x - t < b
    BY <1>2, <1>3 DEF AtBase, Wheel!BaseList
  <2>2. t % b # x % b
    BY <2>1, ModApart
  <2> QED BY <2>1, <2>2, <1>2 DEF RunsAt, Wheel!BaseList
<1>4. ASSUME NEW n \in 0 .. Wheels - 1, OnWheel(l, x, n)
      PROVE  ~RunsAt(l, t)
  <2>1. PICK i \in Int : i = l /\ i >= b
    BY <1>2, <1>4, BehindBase DEF OnWheel
  <2>2. t % b < b /\ t % b \in Int
    OBVIOUS
  <2> QED BY <2>1, <2>2, <1>2 DEF RunsAt, Wheel!BaseList
<1> QED BY <1>3, <1>4 DEF Coming

LEMMA InItsTick ==
    ASSUME NEW l, NEW x \in Nat, Coming(l, x, x, TRUE)
    PROVE  RunsAt(l, x)
<1>1. ASSUME NEW n \in 0 .. Wheels - 1, x < Rounded(x, n)
      PROVE  FALSE
  BY <1>1, RoundedNat
<1>2. AtBase(l, x, x)
  BY <1>1 DEF Coming
<1> QED BY <1>2 DEF RunsAt, AtBase, Wheel!BaseList

(* Linked into the list of the tick before: it runs a turn early.          *)
LEMMA ATurnEarly ==
    ASSUME NEW l, NEW x \in Nat, NEW t \in Nat, NEW steady, t + 1 <= x,
           Coming(l, x, t + 1, steady), RunsAt(l, t)
    PROVE  t - x = -Wheel!Span(0)
<1>1. 0 \in 0 .. Wheels
  BY WheelAssumption
<1>2. PICK b \in Nat \ {0} : b = Wheel!Span(0)
  BY <1>1, SpanNat
<1>3. CASE AtBase(l, x, t + 1)
  <2>1. l = x % b /\ x - (t + 1) < b
    BY <1>2, <1>3 DEF AtBase, Wheel!BaseList
  <2>2. t % b = x % b
    BY <2>1, <1>2 DEF RunsAt, Wheel!BaseList
  <2>3. t < x /\ x - t <= b
    BY <2>1
  <2>4. ~(x - t < b)
    BY <2>2, <2>3, ModApart
  <2> QED BY <2>3, <2>4, <1>2
<1>4. ASSUME NEW n \in 0 .. Wheels - 1, OnWheel(l, x, n)
      PROVE  FALSE
  <2>1. PICK i \in Int : i = l /\ i >= b
    BY <1>2, <1>4, BehindBase DEF OnWheel
  <2>2. t % b < b /\ t % b \in Int
    OBVIOUS
  <2> QED BY <2>1, <2>2, <1>2 DEF RunsAt, Wheel!BaseList
<1> QED BY <1>3, <1>4 DEF Coming

-----------------------------------------------------------------------------
(* The thread, one timer at a time.                                        *)
LEMMA CascadeKeeps ==
    ASSUME ticks \in Nat, NEW f \in WheelTimers, OnCourse(f, ticks, "wait"),
           f.at = "filed" /\ f.list \in Wheel!Turned,
           NEW g, g = [f EXCEPT !.list = Wheel!ListFor(f.expires)]
    PROVE  g \in WheelTimers /\ OnCourse(g, ticks, "raise")
<1>1. Wheel!ListFor(f.expires) \in Int
  BY TimerFields, ListForInt
<1>2. /\ g \in WheelTimers /\ g.at = "filed" /\ g.list = RanFrom(f) /\ g.expires = f.expires
      /\ g.due = f.due /\ g.steady = f.steady /\ g.gap = f.gap
  BY <1>1 DEF WheelTimers, RanFrom
<1>3. Aimed(f, ticks) /\ ~f.gap /\ (ticks <= f.due => Placed(f.list, f.due, ticks, f.steady))
  BY TimerFields DEF OnCourse, NextTick
<1>4. Aimed(g, ticks)
  BY <1>2, <1>3 DEF Aimed
<1>5. ticks <= g.due => Coming(g.list, g.due, ticks, g.steady)
  BY <1>2, <1>3, RunFrom DEF Coming
<1> QED BY <1>2, <1>3, <1>4, <1>5 DEF OnCourse, NextTick

LEMMA NotTurnedKeeps ==
    ASSUME ticks \in Nat, NEW f \in WheelTimers, OnCourse(f, ticks, "wait"),
           ~(f.at = "filed" /\ f.list \in Wheel!Turned)
    PROVE  OnCourse(f, ticks, "raise")
<1>1. CASE f.at # "filed"
  BY <1>1 DEF OnCourse, NextTick
<1>2. CASE f.at = "filed"
  <2>1. RanFrom(f) = f.list
    BY <1>2 DEF RanFrom
  <2>2. Aimed(f, ticks) /\ ~f.gap /\ (ticks <= f.due => Placed(f.list, f.due, ticks, f.steady))
    BY <1>2, TimerFields DEF OnCourse, NextTick
  <2>3. ticks <= f.due => Coming(f.list, f.due, ticks, f.steady)
    BY <2>1, <2>2, RunFrom DEF Coming
  <2> QED BY <1>2, <2>2, <2>3 DEF OnCourse, NextTick
<1> QED BY <1>1, <1>2

LEMMA RaiseKeeps ==
    ASSUME NEW t \in Nat, NEW f \in WheelTimers, OnCourse(f, t, "raise"),
           NEW g, g = IF f.at \in {"placing", "linking"} THEN [f EXCEPT !.steady = FALSE] ELSE f
    PROVE  g \in WheelTimers /\ OnCourse(g, t + 1, "detach")
<1>0. f.due \in Nat /\ t + 1 - 1 = t
  BY TimerFields
<1>1. CASE f.at \in {"placing", "linking"}
  <2>1. /\ g \in WheelTimers /\ g.at = f.at /\ g.list = f.list /\ g.expires = f.expires
        /\ g.due = f.due /\ g.steady = FALSE
    BY <1>1 DEF WheelTimers
  <2>2. Aimed(f, t) /\ (f.at = "linking" /\ t <= f.due => Coming(f.list, f.due, t, f.steady))
    BY <1>1 DEF OnCourse, NextTick
  <2>3. PICK half \in Int : half = Wheel!Word \div 2
    BY WordNat
  <2>4. Aimed(g, t + 1)
    BY <2>1, <2>2, <2>3, <1>0 DEF Aimed
  <2>5. ASSUME g.at = "linking", t + 1 <= g.due
        PROVE  Coming(g.list, g.due, t + 1, g.steady)
    <3>1. t <= f.due
      BY <2>1, <2>5, <1>0
    <3>2. Coming(f.list, f.due, t, FALSE)
      BY <2>1, <2>2, <2>5, <3>1 DEF Coming
    <3> QED BY <2>1, <3>2, <1>0, ComingGoesOn
  <2> QED BY <1>1, <2>1, <2>4, <2>5 DEF OnCourse, NextTick
<1>2. CASE f.at \in {"new", "fired", "refused"}
  BY <1>2 DEF OnCourse, NextTick
<1>3. CASE f.at = "filed"
  <2>1. g = f /\ ~f.gap /\ f.gap \in BOOLEAN
    BY <1>3, TimerFields DEF OnCourse, NextTick
  <2>2. NextTick(f, t, "raise") = t /\ NextTick(f, t + 1, "detach") = t
    BY <1>0, <1>3, <2>1 DEF NextTick
  <2> QED BY <1>3, <2>1, <2>2 DEF OnCourse
<1> QED BY <1>1, <1>2, <1>3, TimerFields

LEMMA DetachFires ==
    ASSUME NEW t \in Nat, NEW f \in WheelTimers, OnCourse(f, t + 1, "detach"), f.at = "filed",
           RunsAt(f.list, t),
           NEW g, g = [f EXCEPT !.at = "fired", !.list = Wheel!Nowhere, !.expires = 0,
                                !.due = 0, !.late = t - f.due]
    PROVE  g \in WheelTimers /\ OnCourse(g, t + 1, "test")
<1>0. /\ f.due \in Nat /\ t + 1 - 1 = t /\ f.gap \in BOOLEAN /\ f.steady \in BOOLEAN
      /\ t - f.due \in Int
  BY TimerFields
<1>1. Wheel!Nowhere \in Int
  BY DEF Wheel!Nowhere
<1>2. /\ g \in WheelTimers /\ g.at = "fired" /\ g.late = t - f.due
      /\ g.steady = f.steady /\ g.gap = f.gap
  BY <1>0, <1>1 DEF WheelTimers
<1>3. FiredInTime(g)
  <2>1. CASE ~f.gap
    <3>1. Aimed(f, t) /\ (t <= f.due => Coming(f.list, f.due, t, f.steady))
      BY <1>0, <2>1 DEF OnCourse, NextTick
    <3>2. f.due <= t
      <4> SUFFICES ASSUME t < f.due PROVE FALSE
        BY <1>0
      <4>1. Coming(f.list, f.due, t, f.steady)
        BY <1>0, <3>1
      <4> QED BY <4>1, <1>0, NotBefore
    <3>3. f.steady => t <= f.due
      BY <3>1 DEF Aimed
    <3> QED BY <1>0, <1>2, <3>2, <3>3 DEF FiredInTime
  <2>2. CASE f.gap
    <3>1. Aimed(f, t + 1) /\ (t + 1 <= f.due => Coming(f.list, f.due, t + 1, f.steady))
      BY <2>2 DEF OnCourse, NextTick
    <3>2. CASE t + 1 <= f.due
      <4>1. t - f.due = -Wheel!Span(0)
        BY <1>0, <3>1, <3>2, ATurnEarly
      <4> QED BY <1>2, <2>2, <4>1 DEF FiredInTime
    <3>3. CASE ~(t + 1 <= f.due)
      <4>1. ~f.steady /\ t - f.due >= 0
        BY <1>0, <3>1, <3>3 DEF Aimed
      <4> QED BY <1>0, <1>2, <4>1 DEF FiredInTime
    <3> QED BY <3>2, <3>3
  <2> QED BY <1>0, <2>1, <2>2
<1> QED BY <1>2, <1>3 DEF OnCourse

LEMMA DetachKeeps ==
    ASSUME NEW t \in Nat, NEW f \in WheelTimers, OnCourse(f, t + 1, "detach"), f.at = "filed",
           ~RunsAt(f.list, t),
           NEW g, g = [f EXCEPT !.gap = FALSE]
    PROVE  g \in WheelTimers /\ OnCourse(g, t + 1, "test")
<1>0. f.due \in Nat /\ t + 1 - 1 = t /\ f.gap \in BOOLEAN /\ f.steady \in BOOLEAN
  BY TimerFields
<1>1. /\ g \in WheelTimers /\ g.at = "filed" /\ g.list = f.list /\ g.expires = f.expires
      /\ g.due = f.due /\ g.steady = f.steady /\ g.gap = FALSE
  BY DEF WheelTimers
<1>2. Aimed(f, t + 1) /\ (t + 1 <= f.due => Placed(f.list, f.due, t + 1, f.steady))
  <2>1. CASE ~f.gap
    <3>1. Aimed(f, t) /\ (t <= f.due => Coming(f.list, f.due, t, f.steady))
      BY <1>0, <2>1 DEF OnCourse, NextTick
    <3>2. f.steady => t + 1 <= f.due
      <4> SUFFICES ASSUME f.steady, t = f.due PROVE FALSE
        BY <1>0, <3>1 DEF Aimed
      <4>1. Coming(f.list, f.due, f.due, TRUE)
        BY <1>0, <3>1 DEF Coming
      <4> QED BY <4>1, <1>0, InItsTick
    <3>3. PICK half \in Int : half = Wheel!Word \div 2
      BY WordNat
    <3>4. Aimed(f, t + 1)
      BY <1>0, <3>1, <3>2, <3>3 DEF Aimed
    <3>5. ASSUME t + 1 <= f.due PROVE Placed(f.list, f.due, t + 1, f.steady)
      <4>1. t <= f.due
        BY <1>0, <3>5
      <4> QED BY <1>0, <3>1, <4>1, ComingGoesOn
    <3> QED BY <3>4, <3>5
  <2>2. CASE f.gap
    <3>1. Aimed(f, t + 1) /\ (t + 1 <= f.due => Coming(f.list, f.due, t + 1, f.steady))
      BY <2>2 DEF OnCourse, NextTick
    <3> QED BY <1>0, <3>1, ComingIsPlaced
  <2> QED BY <1>0, <2>1, <2>2
<1>3. Aimed(g, t + 1)
  BY <1>1, <1>2 DEF Aimed
<1> QED BY <1>1, <1>2, <1>3 DEF OnCourse, NextTick

(* Timers that are not in a list see nothing of it.                        *)
LEMMA NotFiledKeeps ==
    ASSUME NEW f \in WheelTimers, NEW t, NEW ph, OnCourse(f, t, ph), f.at # "filed", NEW to
    PROVE  OnCourse(f, t, to)
BY DEF OnCourse, NextTick

LEMMA WheelThreadStep ==
    ASSUME WheelInv, Wheel!WheelTick
    PROVE  WheelInv'
<1>0. ticks \in Nat /\ \A w \in Wakes : file[w] \in WheelTimers
  BY DEF WheelInv, WheelTypeOK
<1>1. CASE Wheel!LoopTest
  <2>1. WheelTypeOK'
    BY <1>1 DEF Wheel!LoopTest, WheelInv, WheelTypeOK
  <2>2. ASSUME NEW w \in Wakes PROVE OnCourse(file'[w], ticks', wheelThread')
    <3>1. /\ OnCourse(file[w], ticks, "test") /\ file' = file /\ ticks' = ticks
          /\ wheelThread' \in {"wait", "over"}
      BY <1>1 DEF Wheel!LoopTest, WheelInv
    <3> QED BY <3>1 DEF OnCourse, NextTick
  <2> QED BY <2>1, <2>2 DEF WheelInv
<1>2. CASE Wheel!Cascade
  <2>1. /\ ticks' = ticks /\ wheelThread = "wait" /\ wheelThread' = "raise"
        /\ file' = [w \in Wakes |->
                      IF file[w].at = "filed" /\ file[w].list \in Wheel!Turned
                      THEN [file[w] EXCEPT !.list = Wheel!ListFor(file[w].expires)]
                      ELSE file[w]]
    BY <1>2 DEF Wheel!Cascade
  <2>2. ASSUME NEW w \in Wakes
        PROVE  file'[w] \in WheelTimers /\ OnCourse(file'[w], ticks, "raise")
    <3>1. PICK f \in WheelTimers : f = file[w] /\ OnCourse(f, ticks, "wait")
      BY <1>0, <2>1 DEF WheelInv
    <3>2. CASE f.at = "filed" /\ f.list \in Wheel!Turned
      <4>1. file'[w] = [f EXCEPT !.list = Wheel!ListFor(f.expires)]
        BY <2>1, <3>1, <3>2
      <4> QED BY <1>0, <3>1, <3>2, <4>1, CascadeKeeps
    <3>3. CASE ~(f.at = "filed" /\ f.list \in Wheel!Turned)
      <4>1. file'[w] = f
        BY <2>1, <3>1, <3>3
      <4> QED BY <1>0, <3>1, <3>3, <4>1, NotTurnedKeeps
    <3> QED BY <3>2, <3>3
  <2>3. WheelTypeOK'
    BY <2>1, <2>2, <1>0 DEF WheelTypeOK
  <2> QED BY <2>1, <2>2, <2>3 DEF WheelInv
<1>3. CASE Wheel!Raise
  <2>1. /\ ticks' = ticks + 1 /\ wheelThread = "raise" /\ wheelThread' = "detach"
        /\ file' = [w \in Wakes |->
                      IF file[w].at \in {"placing", "linking"}
                      THEN [file[w] EXCEPT !.steady = FALSE] ELSE file[w]]
    BY <1>3 DEF Wheel!Raise
  <2>2. ASSUME NEW w \in Wakes
        PROVE  file'[w] \in WheelTimers /\ OnCourse(file'[w], ticks + 1, "detach")
    <3>1. PICK f \in WheelTimers : f = file[w] /\ OnCourse(f, ticks, "raise")
      BY <1>0, <2>1 DEF WheelInv
    <3>2. file'[w] = IF f.at \in {"placing", "linking"} THEN [f EXCEPT !.steady = FALSE] ELSE f
      BY <2>1, <3>1
    <3> QED BY <1>0, <3>1, <3>2, RaiseKeeps
  <2>3. WheelTypeOK'
    BY <2>1, <2>2, <1>0 DEF WheelTypeOK
  <2> QED BY <2>1, <2>2, <2>3 DEF WheelInv
<1>4. CASE Wheel!Detach
  <2>1. PICK t \in Nat : ticks = t + 1
    <3>1. wheelThread = "detach" /\ ticks > 0
      BY <1>4 DEF Wheel!Detach, WheelInv, WheelTypeOK
    <3>2. ticks - 1 \in Nat /\ ticks = (ticks - 1) + 1
      BY <1>0, <3>1
    <3> QED BY <3>2
  <2>2. wheelThread = "detach" /\ Wheel!tick = t /\ ticks' = ticks /\ wheelThread' = "test"
    <3>1. wheelThread = "detach" /\ ticks' = ticks /\ wheelThread' = "test"
      BY <1>4 DEF Wheel!Detach
    <3>2. Wheel!tick = ticks - 1
      BY <3>1 DEF Wheel!tick
    <3> QED BY <2>1, <3>1, <3>2
  <2>3. ASSUME NEW w \in Wakes
        PROVE  file'[w] \in WheelTimers /\ OnCourse(file'[w], ticks, "test")
    <3>1. PICK f \in WheelTimers : f = file[w] /\ OnCourse(f, t + 1, "detach")
      BY <1>0, <2>1, <2>2 DEF WheelInv
    <3>2. file'[w] = IF f.at # "filed" THEN f
                     ELSE IF RunsAt(f.list, t)
                     THEN [f EXCEPT !.at = "fired", !.list = Wheel!Nowhere, !.expires = 0,
                                    !.due = 0, !.late = t - f.due]
                     ELSE [f EXCEPT !.gap = FALSE]
      BY <1>4, <2>2, <3>1 DEF Wheel!Detach, RunsAt
    <3>3. CASE f.at # "filed"
      BY <2>1, <3>1, <3>2, <3>3, NotFiledKeeps
    <3>4. CASE f.at = "filed" /\ RunsAt(f.list, t)
      BY <2>1, <3>1, <3>2, <3>4, DetachFires
    <3>5. CASE f.at = "filed" /\ ~RunsAt(f.list, t)
      BY <2>1, <3>1, <3>2, <3>5, DetachKeeps
    <3> QED BY <3>3, <3>4, <3>5
  <2>4. file' = [w \in Wakes |-> file'[w]]
    BY <1>4 DEF Wheel!Detach
  <2>5. WheelTypeOK'
    BY <2>2, <2>3, <2>4, <1>0 DEF WheelTypeOK
  <2> QED BY <2>2, <2>3, <2>5 DEF WheelInv
<1> QED BY <1>1, <1>2, <1>3, <1>4 DEF Wheel!WheelTick

-----------------------------------------------------------------------------
(* A call of Add moves one timer.                                          *)
LEMMA WheelMoves ==
    ASSUME WheelInv, NEW w \in Wakes, NEW g \in WheelTimers, OnCourse(g, ticks, wheelThread),
           file' = [file EXCEPT ![w] = g], UNCHANGED <<ticks, wheelThread>>
    PROVE  WheelInv'
<1>1. WheelTypeOK'
  BY DEF WheelInv, WheelTypeOK
<1>2. ASSUME NEW o \in Wakes PROVE OnCourse(file'[o], ticks', wheelThread')
  <2>1. CASE o = w
    BY <2>1 DEF WheelInv, WheelTypeOK
  <2>2. CASE o # w
    <3>1. file'[o] = file[o]
      BY <2>2 DEF WheelInv, WheelTypeOK
    <3> QED BY <3>1 DEF WheelInv
  <2> QED BY <2>1, <2>2
<1> QED BY <1>1, <1>2 DEF WheelInv

LEMMA WheelAsked ==
    ASSUME WheelInv, NEW w \in Wakes, NEW d \in Delays, Wheel!AddExpiry(w, d)
    PROVE  WheelInv'
<1>1. ticks \in Nat /\ file[w] \in WheelTimers /\ d \in Nat /\ d < Wheel!Word \div 2
  BY WheelAssumption DEF WheelInv, WheelTypeOK, Wheel!Word
<1>2. PICK n \in Nat \ {0} : n = Wheel!Word
  BY WordNat
<1>3. PICK x \in Nat : x = ticks + d
  BY <1>1
<1>4. PICK e \in Nat : e = (d + Wheel!cur_ms) % Wheel!Word /\ e = x % Wheel!Word
  <2>1. (d + (ticks % n)) % n = x % n
    BY <1>1, <1>3, ModPlus
  <2>2. x % n \in Nat
    OBVIOUS
  <2> QED BY <2>1, <2>2, <1>2 DEF Wheel!cur_ms
<1>5. PICK to \in {"placing", "refused"} :
        file' = [file EXCEPT ![w].at = to, ![w].expires = e, ![w].due = x]
  BY <1>3, <1>4 DEF Wheel!AddExpiry
<1> DEFINE g == [file[w] EXCEPT !.at = to, !.expires = e, !.due = x]
<1>6. file' = [file EXCEPT ![w] = g]
  BY <1>5
<1>7. /\ g \in WheelTimers /\ g.at = to /\ g.expires = e /\ g.due = x
  BY <1>1 DEF WheelTimers
<1> HIDE DEF g
<1>8. ticks <= x /\ x - ticks = d
  BY <1>1, <1>3
<1>9. Aimed(g, ticks)
  BY <1>1, <1>4, <1>7, <1>8 DEF Aimed
<1>10. OnCourse(g, ticks, wheelThread)
  BY <1>7, <1>9 DEF OnCourse, NextTick
<1>11. UNCHANGED <<ticks, wheelThread>>
  BY DEF Wheel!AddExpiry
<1> QED BY <1>6, <1>7, <1>10, <1>11, WheelMoves

LEMMA WheelFiles ==
    ASSUME WheelInv, NEW w \in Wakes, Wheel!AddPlace(w) \/ Wheel!AddLink(w)
    PROVE  WheelInv'
<1>1. PICK f \in WheelTimers : f = file[w] /\ OnCourse(f, ticks, wheelThread)
  BY DEF WheelInv, WheelTypeOK
<1>2. f.list \in Int /\ f.expires \in Nat /\ f.due \in Nat /\ f.steady \in BOOLEAN /\ ticks \in Nat
  BY TimerFields DEF WheelInv, WheelTypeOK
<1>3. CASE Wheel!AddPlace(w)
  <2> DEFINE g == [f EXCEPT !.at = "linking", !.list = Wheel!ListFor(f.expires)]
  <2>1. file' = [file EXCEPT ![w] = g] /\ UNCHANGED <<ticks, wheelThread>> /\ f.at = "placing"
    BY <1>1, <1>3 DEF Wheel!AddPlace
  <2>2. Wheel!ListFor(f.expires) \in Int
    BY <1>2, ListForInt
  <2>3. /\ g \in WheelTimers /\ g.at = "linking" /\ g.list = Wheel!ListFor(f.expires)
        /\ g.expires = f.expires /\ g.due = f.due /\ g.steady = f.steady
    BY <1>2, <2>2 DEF WheelTimers
  <2> HIDE DEF g
  <2>4. Aimed(f, ticks)
    BY <1>1, <2>1 DEF OnCourse, NextTick
  <2>5. Aimed(g, ticks)
    BY <2>3, <2>4 DEF Aimed
  <2>6. ASSUME ticks <= g.due PROVE Coming(g.list, g.due, ticks, g.steady)
    <3>1. PICK x \in Nat : x = f.due /\ ticks <= x /\ x - ticks < Wheel!Word \div 2
      BY <1>2, <2>3, <2>4, <2>6 DEF Aimed
    <3>2. g.list = Wheel!ListFor(x % Wheel!Word) /\ g.due = x
      BY <2>3, <2>4, <3>1 DEF Aimed
    <3> QED BY <1>2, <3>1, <3>2, ListForPlaces DEF Coming
  <2>7. OnCourse(g, ticks, wheelThread)
    BY <2>3, <2>5, <2>6 DEF OnCourse, NextTick
  <2> QED BY <2>1, <2>3, <2>7, WheelMoves
<1>4. CASE Wheel!AddLink(w)
  <2> DEFINE g == [f EXCEPT !.at = "filed", !.gap = (wheelThread = "detach")]
  <2>1. file' = [file EXCEPT ![w] = g] /\ UNCHANGED <<ticks, wheelThread>> /\ f.at = "linking"
    BY <1>1, <1>4 DEF Wheel!AddLink
  <2>2. /\ g \in WheelTimers /\ g.at = "filed" /\ g.list = f.list
        /\ g.expires = f.expires /\ g.due = f.due /\ g.steady = f.steady
        /\ g.gap = (wheelThread = "detach")
    BY <1>2 DEF WheelTimers
  <2> HIDE DEF g
  <2>3. Aimed(f, ticks) /\ (ticks <= f.due => Coming(f.list, f.due, ticks, f.steady))
    BY <1>1, <2>1 DEF OnCourse, NextTick
  <2>4. Aimed(g, ticks) /\ NextTick(g, ticks, wheelThread) = ticks
    BY <2>2, <2>3 DEF Aimed, NextTick
  <2>5. ASSUME ticks <= g.due
        PROVE  /\ Coming(g.list, g.due, ticks, g.steady)
               /\ Placed(g.list, g.due, ticks, g.steady)
    BY <1>2, <2>2, <2>3, <2>5, ComingIsPlaced
  <2>6. OnCourse(g, ticks, wheelThread)
    BY <2>2, <2>4, <2>5 DEF OnCourse
  <2> QED BY <2>1, <2>2, <2>6, WheelMoves
<1> QED BY <1>3, <1>4

LEMMA WheelStep ==
    ASSUME WheelInv, Wheel!WheelNext
    PROVE  WheelInv'
<1>1. CASE Wheel!WheelDestroy \/ Wheel!WheelFree
  BY <1>1 DEF Wheel!WheelDestroy, Wheel!WheelFree, WheelInv, WheelTypeOK
<1> QED BY <1>1, WheelThreadStep, WheelAsked, WheelFiles DEF Wheel!WheelNext

LEMMA WheelStarts ==
    ASSUME Wheel!WheelInit
    PROVE  WheelInv
<1>1. ASSUME NEW w \in Wakes
      PROVE  file[w].at = "new" /\ file[w] \in WheelTimers
  <2>1. Wheel!Nowhere \in Int
    BY DEF Wheel!Nowhere
  <2>2. file[w] = [at |-> "new", list |-> Wheel!Nowhere, expires |-> 0,
                   due |-> 0, steady |-> TRUE, gap |-> FALSE, late |-> 0]
    BY DEF Wheel!WheelInit
  <2> QED BY <2>1, <2>2 DEF WheelTimers
<1>2. WheelTypeOK
  BY <1>1 DEF Wheel!WheelInit, WheelTypeOK
<1>3. \A w \in Wakes : OnCourse(file[w], ticks, wheelThread)
  BY <1>1 DEF OnCourse
<1> QED BY <1>2, <1>3 DEF WheelInv

LEMMA FiresOnTimeIs ==
    ASSUME WheelInv
    PROVE  FiresOnTime
<1> SUFFICES ASSUME NEW w \in Wakes
             PROVE  /\ file[w].at = "fired" => FiredInTime(file[w])
                    /\ file[w].at = "filed" /\ file[w].steady => Wheel!tick <= file[w].due
  BY DEF FiresOnTime, Wheel!FiresOnTime, FiredInTime
<1>1. PICK f \in WheelTimers : f = file[w] /\ OnCourse(f, ticks, wheelThread)
  BY DEF WheelInv, WheelTypeOK
<1>2. ticks \in Nat /\ f.due \in Nat /\ f.gap \in BOOLEAN
  BY TimerFields DEF WheelInv, WheelTypeOK
<1>3. ASSUME f.at = "filed", f.steady PROVE Wheel!tick <= f.due
  <2>1. NextTick(f, ticks, wheelThread) <= f.due
    BY <1>1, <1>3 DEF OnCourse, Aimed
  <2> QED BY <1>2, <1>3, <2>1 DEF NextTick, Wheel!tick
<1> QED BY <1>1, <1>3 DEF OnCourse

(* HyTimerMultiWheel: a timer filed while cur_ms does not move, and not    *)
(* between its raising and the detaching of the list, fires in the tick it *)
(* is due; one a tick overtook fires then or later; one that got in        *)
(* between may fire, and then a turn of list_base early; for every number  *)
(* and width of the wheels and every delay below half the range.           *)
THEOREM WheelsFireOnTime == Spec => []FiresOnTime
<1>1. Init => WheelInv
  BY WheelStarts DEF Init
<1>2. WheelInv /\ [Next]_servicesVars => WheelInv'
  <2> SUFFICES ASSUME WheelInv, [Next]_servicesVars PROVE WheelInv'
    OBVIOUS
  <2>1. Wheel!WheelNext \/ UNCHANGED W
    BY DEF Next, servicesVars
  <2>2. CASE UNCHANGED W
    BY <2>2 DEF W, WheelInv, WheelTypeOK
  <2> QED BY <2>1, <2>2, WheelStep
<1>3. WheelInv => FiresOnTime
  BY FiresOnTimeIs
<1> QED BY <1>1, <1>2, <1>3, PTL DEF Spec, servicesVars
================================================================================
