-------------------------------- MODULE HyNet --------------------------------
(***************************************************************************)
(* src/linux/net/hy_net.c, net_wifi.c and net_config.c: Create starts a    *)
(* thread that powers the wifi chip up and runs the shell commands that    *)
(* connect it; Destroy stops the daemons and frees the context, without    *)
(* waiting for the thread.                                                 *)
(*                                                                         *)
(* The shell commands are external.  Of the system they are run on, the    *)
(* model keeps the interface, its address and how many processes of each   *)
(* daemon run; some may run before the program starts.  udhcpc is started  *)
(* in the background: it runs some time after the command has returned.    *)
(***************************************************************************)
EXTENDS Naturals

VARIABLES
    netState,       \* of the application: "none", "up", "stop", "gone"
    wifi_c,         \* [enable, dhcp], as Create leaves them
    wifiThread,     \* what the thread does next; "none", "ended"
    power,          \* the gpio
    wlan,           \* the interface
    wpa, udhcpc,    \* daemons that run
    client,         \* udhcpc: "none", "coming"; "missed" by a killall that
                    \* came before it, and then "left"
    inUse,          \* Destroy was called before the thread had ended
    netLost         \* memory that is freed, or was never written, was used
                    \* and something else was in it

netVars == <<netState, wifi_c, wifiThread, power, wlan, wpa, udhcpc, client, inUse, netLost>>

NetInit ==
    /\ netState = "none" /\ wifi_c = [enable |-> FALSE, dhcp |-> FALSE]
    /\ wifiThread = "none" /\ power \in {"on", "off"}
    /\ wlan = "down" /\ wpa \in {0, 1} /\ udhcpc \in {0, 1} /\ client = "none"
    /\ inUse = FALSE /\ netLost = FALSE

-----------------------------------------------------------------------------
(* HyNetCreate.  With no configuration file it takes what the application  *)
(* gives as the default.  With one, the functions of net_config.c that     *)
(* load it only return 0, and the configuration is what HY_MEM_MALLOC has  *)
(* left there.  While eth is enabled, wifi is not started.                 *)
NetCreate ==
    /\ netState = "none" /\ netState' = "up"
    /\ \E eth \in BOOLEAN, config \in [enable : BOOLEAN, dhcp : BOOLEAN] :
         /\ wifi_c' = config
         /\ wifiThread' = IF config.enable /\ ~eth THEN "off" ELSE "none"
    /\ UNCHANGED <<power, wlan, wpa, udhcpc, client, inUse, netLost>>

(* No file and no defaults either; or the wifi thread cannot be started,   *)
(* which is cleared up by the commands of net_wifi_destroy.                *)
NetCreateFails ==
    /\ netState = "none" /\ netState' = "gone"
    /\ \/ UNCHANGED <<wlan, wpa, udhcpc>>
       \/ wlan' = "down" /\ wpa' = 0 /\ udhcpc' = 0
    /\ UNCHANGED <<wifi_c, wifiThread, power, client, inUse, netLost>>

-----------------------------------------------------------------------------
(* The thread.  After Destroy it reads a context that is freed: it finds   *)
(* what was there, or something else.                                      *)
ThreadGoes(from, to) ==
    /\ wifiThread = from /\ ~netLost
    /\ wifiThread' = to /\ netLost' \in (IF netState = "gone" THEN BOOLEAN ELSE {FALSE})
    /\ UNCHANGED <<netState, wifi_c, inUse>>

PowerOff ==
    /\ ThreadGoes("off", "on") /\ power' = "off"
    /\ UNCHANGED <<wlan, wpa, udhcpc, client>>

(* After three seconds, and one more for the chip to come up.              *)
PowerOn ==
    /\ ThreadGoes("on", "ifconfig up") /\ power' = "on"
    /\ UNCHANGED <<wlan, wpa, udhcpc, client>>

IfconfigUp ==
    /\ ThreadGoes("ifconfig up", "kill wpa") /\ wlan' = "up"
    /\ UNCHANGED <<power, wpa, udhcpc, client>>

(* Mutation: kills the other daemon.                                       *)
KillallWpa_Udhcpc ==
    /\ ThreadGoes("kill wpa", "wpa") /\ udhcpc' = 0
    /\ UNCHANGED <<power, wlan, wpa, client>>

KillallWpa ==
    /\ ThreadGoes("kill wpa", "wpa") /\ wpa' = 0
    /\ UNCHANGED <<power, wlan, udhcpc, client>>

WpaSupplicant ==
    /\ ThreadGoes("wpa", "kill udhcpc") /\ wpa' = wpa + 1
    /\ UNCHANGED <<power, wlan, udhcpc, client>>

KillallUdhcpc ==
    /\ ThreadGoes("kill udhcpc", "address") /\ udhcpc' = 0
    /\ UNCHANGED <<power, wlan, wpa, client>>

(* With udhcpc, or an address, a route and name servers given by hand.     *)
(* _connect_wifi always returns 0: of the networks that are configured,    *)
(* the first is the only one that is tried.                                *)
Configure ==
    /\ ThreadGoes("address", "ended")
    /\ client' = IF wifi_c.dhcp THEN "coming" ELSE client
    /\ UNCHANGED <<power, wlan, wpa, udhcpc>>

(* External: the shell's background process has become udhcpc.             *)
UdhcpcRuns ==
    /\ client \in {"coming", "missed"} /\ udhcpc' = udhcpc + 1
    /\ client' = IF client = "missed" THEN "left" ELSE "none"
    /\ UNCHANGED <<netState, wifi_c, wifiThread, power, wlan, wpa, inUse, netLost>>

-----------------------------------------------------------------------------
(* HyNetDestroy: the configuration is "saved"; then net_wifi_destroy, if   *)
(* there is a wifi context.  If none was made, wifi_h was never written.   *)
DestroyKillall ==
    /\ netState = "up" /\ netState' = "stop"
    /\ inUse' = (wifiThread \notin {"none", "ended"})
    /\ IF wifiThread = "none"
       THEN netLost' \in BOOLEAN /\ UNCHANGED <<wpa, udhcpc, client>>
       ELSE /\ wpa' = 0 /\ udhcpc' = 0 /\ UNCHANGED netLost
            /\ client' = IF client = "coming" THEN "missed" ELSE client
    /\ UNCHANGED <<wifi_c, wifiThread, power, wlan>>

DestroyIfconfigDown ==
    /\ netState = "stop" /\ netState' = "gone"
    /\ wlan' = IF wifiThread = "none" THEN wlan ELSE "down"
    /\ UNCHANGED <<wifi_c, wifiThread, power, wpa, udhcpc, client, inUse, netLost>>

WifiThread == PowerOff \/ PowerOn \/ IfconfigUp \/ KillallWpa \/ WpaSupplicant
              \/ KillallUdhcpc \/ Configure
NetNext == NetCreate \/ NetCreateFails \/ WifiThread \/ UdhcpcRuns
           \/ DestroyKillall \/ DestroyIfconfigDown

-----------------------------------------------------------------------------
(* A program that ends leaves the system as it should be: when it asks for *)
(* the end after its thread has connected the interface, the interface is  *)
(* down, no daemon is left but an udhcpc that killall was too early for,   *)
(* and no freed memory was used.  (Asked for in the first seconds, with    *)
(* the thread at work, the end comes too early: the thread goes on to      *)
(* bring everything up.)  Until then a connected interface has one         *)
(* wpa_supplicant, and one udhcpc, or one on its way, exactly when it is   *)
(* configured that way, whatever ran before.                               *)
OneDaemonEach ==
    /\ wpa <= 1 /\ udhcpc <= 1 /\ (netLost => inUse \/ wifiThread = "none")
    /\ wifiThread = "ended" /\ netState = "up" =>
           /\ wlan = "up" /\ power = "on" /\ wpa = 1
           /\ udhcpc = (IF wifi_c.dhcp /\ client # "coming" THEN 1 ELSE 0)
    /\ wifiThread = "ended" /\ netState = "gone" /\ ~inUse =>
           wlan = "down" /\ wpa = 0 /\ udhcpc = (IF client = "left" THEN 1 ELSE 0)
=============================================================================
