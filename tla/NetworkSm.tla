------------------------------ MODULE NetworkSm ------------------------------
(***************************************************************************)
(* The network state machine (components/network/src/NetworkSm.cpp with    *)
(* the functions of NetworkSmBase.cpp it calls), the two drivers whose      *)
(* events it handles, and Improv.                                          *)
(*                                                                         *)
(* The network task takes one event after the other from a short queue; a   *)
(* step of the task is the whole handler up to its first post, or up to     *)
(* its first look at the Improv state other tasks write, too.  An event     *)
(* task turns the drivers' events into events of the queue: since it does   *)
(* nothing after posting, a step of a driver is taken when there is room.   *)
(*                                                                         *)
(* Not modelled: the four states only a caller of                           *)
(* trigger_connect_to_ap_event() outside Improv or of                       *)
(* trigger_delete_wifi_event() could reach (CredentialsInImprov), the       *)
(* status events for the display, and isWifiPreferred(), which is false.    *)
(***************************************************************************)
EXTENDS Improv

CONSTANTS
  MaxRetry,     \* CONFIG_NETWORK_MANAGER_MAX_RETRY
  EthStatic     \* has Ethernet a configured address instead of DHCP?

ASSUME MaxRetryAssumption == MaxRetry \in Nat \ {0}
ASSUME EthStaticAssumption == EthStatic \in BOOLEAN

EthState    == {"ETH_INITIALIZING", "ETH_STARTING", "ETH_ACTIVE_LINKUP", "ETH_ACTIVE_CONNECTED",
                "ETH_ACTIVE_LINKDOWN"}
WifiState   == {"WIFI_INITIALIZING", "WIFI_CONNECTING", "WIFI_W4_IP", "WIFI_CONNECTED",
                "WIFI_LOST_CONNECTION"}
ImprovStep  == {"IMPROV_INITIALIZING", "IMPROV_STOPPED", "IMPROV_AWAITING_AUTH",
                "IMPROV_AUTHORIZED", "IMPROV_PROVISIONING", "IMPROV_PROVISIONED"}
StateId     == {"NETWORK", "REBOOT"} \union EthState \union WifiState \union ImprovStep

VARIABLES
  sm,        \* stateId
  retries,   \* retries_
  wifiCfg,   \* is a WiFi network with a password configured?  Survives a restart.
  station,   \* the WiFi driver
  left,      \* WIFI_EVENT_STA_DISCONNECTED of a connection ended on purpose, not yet handled
  eth,       \* the Ethernet driver
  ethAddr,   \* isInterfaceConnected(eth_netif_)
  ethNews    \* IP_EVENT_ETH_GOT_IP raised, not yet handled

\* With an access point, with an address of its network, or from one access point to the
\* next.
Linked == {"associated", "online", "roaming"}

wifiVars == <<station, left>>
ethVars  == <<eth, ethAddr, ethNews>>
smVars   == <<sm, retries, wifiCfg>>
vars     == <<eventVars, improvVars, smVars, wifiVars, ethVars>>

NetTypeOK ==
  /\ EventTypeOK /\ ImprovTypeOK
  /\ sm \in StateId
  /\ retries \in 0..MaxRetry
  /\ {wifiCfg, left, ethAddr, ethNews} \subseteq BOOLEAN
  /\ station \in {"none", "stopped", "idle", "connecting"} \union Linked
  /\ eth \in {"none", "starting", "down", "up"}

\* Everything but the configuration: the state after start().
Booted ==
  /\ queue = <<>> /\ todo = <<"START">> /\ timer = "off" /\ callback = "none"
  /\ ImprovInit
  /\ sm = "NETWORK" /\ retries = 0
  /\ station = "none" /\ left = FALSE
  /\ eth = "none" /\ ethAddr = FALSE /\ ethNews = FALSE

Init == Booted /\ wifiCfg \in BOOLEAN

-----------------------------------------------------------------------------
(* The WiFi driver and the functions of network_wifi.cpp.                   *)

\* esp_wifi_disconnect(), esp_wifi_stop(): a connection that ends raises an event; one
\* that was being established may.
Leave ==
  \/ station \in Linked \union {"connecting"} /\ left' = TRUE
  \/ station \notin Linked /\ left' = left

\* network_wifi_connect(): impossible while WiFi is stopped, and it may fail.
WifiConnects == station \notin {"none", "stopped"} /\ Leave /\ station' = "connecting"
WifiRefuses  == IF station \in {"none", "stopped"}
                  THEN UNCHANGED wifiVars
                  ELSE Leave /\ station' = "idle"

\* network_wifi_start(), the first time; the return value of esp_wifi_start() is ignored.
WifiStarts ==
  IF station = "none" THEN station' \in {"idle", "stopped"} /\ UNCHANGED left
                      ELSE UNCHANGED wifiVars

\* network_wifi_event_handler and network_ip_event_handler, for one step of the driver:
\* that it roams to another access point, or that the address is lost, posts nothing.
Associated  == station \in {"connecting", "roaming"} /\ ~left /\ station' = "associated"
                 /\ Post("CONNECTED")
Lost        == station \in Linked \union {"connecting"} /\ ~left /\ station' = "idle"
                 /\ Post("LOST_CONNECTION")
Roams       == station \in {"associated", "online"} /\ ~left /\ station' = "roaming"
                 /\ UNCHANGED queue
LostAddress == station = "online" /\ ~left /\ station' = "associated" /\ UNCHANGED queue
GotAddress  == station \in {"associated", "online"} /\ ~left /\ station' = "online"
                 /\ Post("WIFI_GOT_IP")
MutantLeft  == left /\ left' = FALSE /\ UNCHANGED <<queue, station>>
Left        == left /\ left' = FALSE /\ Post("LOST_CONNECTION") /\ UNCHANGED station

WifiDriver ==
  /\ \/ (Associated \/ Lost \/ Roams \/ GotAddress \/ LostAddress) /\ UNCHANGED left
     \/ Left
  /\ UNCHANGED <<todo, timer, callback, improvVars, smVars, ethVars>>

-----------------------------------------------------------------------------
(* The Ethernet driver: eth_event_handler and network_ip_event_handler.     *)

EthStarts == eth = "starting" /\ eth' = "down" /\ Post("NET_INIT_SUCCESS")
               /\ UNCHANGED <<ethAddr, ethNews, wifiVars>>

\* The cable is plugged in: WiFi is stopped.  A configured address is announced at once.
EthUp ==
  /\ eth = "down" /\ eth' = "up"
  /\ Leave /\ station' = (IF station = "none" THEN "none" ELSE "stopped")
  /\ Post("ETH_LINK_UP")
  /\ ethNews' = EthStatic
  /\ UNCHANGED ethAddr

EthBound == eth = "up" /\ ethAddr' = TRUE /\ ethNews' = TRUE
              /\ UNCHANGED <<queue, eth, wifiVars>>

EthAnnounced == ethNews /\ ethNews' = FALSE /\ Post("ETH_GOT_IP")
                  /\ UNCHANGED <<eth, ethAddr, wifiVars>>

EthDown ==
  /\ eth = "up" /\ ~ethNews /\ eth' = "down"
  /\ ethAddr' = EthStatic
  /\ Post("ETH_LINK_DOWN")
  /\ UNCHANGED <<ethNews, wifiVars>>

EthDriver ==
  /\ EthStarts \/ EthUp \/ EthBound \/ EthAnnounced \/ EthDown
  /\ UNCHANGED <<todo, timer, callback, improvVars, smVars>>

-----------------------------------------------------------------------------
(* Entering a state: what its enter handler does, and what the exit         *)
(* handlers of the states left did to the timer.                           *)

Enter(s, t) == sm' = s /\ timer' = t

Posts(s) == todo' = s

Reboot == Enter("REBOOT", "off") /\ Posts(<<>>)
            /\ UNCHANGED <<retries, wifiCfg, wifiVars, ethVars, improvVars>>

\* The states whose enter handler does nothing but start or stop the timer.
Wait(s, t) == Enter(s, t) /\ Posts(<<>>)
                /\ UNCHANGED <<retries, wifiCfg, wifiVars, ethVars, improvVars>>

\* initEthernet(): the driver announces itself later, or nothing comes of it.
EnterEthInitializing ==
  /\ Enter("ETH_INITIALIZING", "off")
  /\ \/ Posts(<<>>) /\ eth' = "starting" /\ ethAddr' = EthStatic
     \/ Posts(<<"NET_INIT_FAIL">>) /\ eth' = "none" /\ ethAddr' \in {FALSE, EthStatic}
  /\ UNCHANGED <<ethNews, retries, wifiCfg, wifiVars, improvVars>>

\* initWifi()
EnterWifiInitializing ==
  /\ Enter("WIFI_INITIALIZING", "off")
  /\ WifiStarts
  /\ Posts(IF wifiCfg THEN <<"NET_INIT_SUCCESS">> ELSE <<"CONFIGURE_WIFI">>)
  /\ UNCHANGED <<retries, wifiCfg, ethVars, improvVars>>

\* connectActiveSsid(): if WiFi cannot even start to connect, fall back to Ethernet,
\* or allow for two more attempts at most.
FewRetriesLeft == IF retries < MaxRetry - 1 THEN MaxRetry - 1 ELSE retries

EnterWifiConnecting ==
  /\ sm' = "WIFI_CONNECTING"
  /\ \/ WifiConnects /\ timer' = "connected" /\ Posts(<<>>) /\ UNCHANGED retries
     \/ /\ WifiRefuses
        /\ IF ethAddr
             THEN Posts(<<"ETH_FALLBACK", ARM>>) /\ UNCHANGED <<retries, timer>>
             ELSE Posts(<<>>) /\ timer' = "connected" /\ retries' = FewRetriesLeft
  /\ UNCHANGED <<wifiCfg, ethVars, improvVars>>

\* saveActiveWifiConfig(); the configuration of the driver may not be readable.
EnterWifiConnected ==
  /\ Enter("WIFI_CONNECTED", "off") /\ Posts(<<>>)
  /\ retries' = 0 /\ wifiCfg' \in {TRUE, wifiCfg}
  /\ UNCHANGED <<wifiVars, ethVars, improvVars>>

\* retryActiveWiFiConnection() and startWifiPollingTimer()
MutantEnterWifiLost ==
  /\ Enter("WIFI_LOST_CONNECTION", "off") /\ Posts(<<>>)
  /\ retries' = retries + 1
  /\ UNCHANGED <<wifiCfg, wifiVars, ethVars, improvVars>>
EnterWifiLost ==
  /\ Enter("WIFI_LOST_CONNECTION", "polling") /\ Posts(<<>>)
  /\ retries' = retries + 1
  /\ UNCHANGED <<wifiCfg, wifiVars, ethVars, improvVars>>

\* The choice point of the WiFi states.
MutantTryAgain ==
  \/ retries <= MaxRetry /\ EnterWifiLost
  \/ retries > MaxRetry /\ Reboot
TryAgain ==
  \/ retries < MaxRetry /\ EnterWifiLost
  \/ retries >= MaxRetry /\ Reboot

\* startImprovWifi(): the BLE stack starts, or it does not.
EnterImprov ==
  /\ Enter("IMPROV_INITIALIZING", "off")
  /\ \/ started' = TRUE /\ Posts(<<"NET_INIT_SUCCESS">>)
     \/ started' = started /\ Posts(<<"NET_INIT_FAIL">>)
  /\ UNCHANGED <<retries, wifiCfg, wifiVars, ethVars, conn, connActive, status, ble, authTimer,
                 verifyTimer, history>>

\* setImprovAuthorized(), after onImprovConnectTimeout() when it comes from
\* IMPROV_PROVISIONING_STATE.
EnterAuthorized(calls) ==
  /\ Enter("IMPROV_AUTHORIZED", "off") /\ Posts(calls)
  /\ UNCHANGED <<retries, wifiCfg, wifiVars, ethVars, improvVars>>

\* connectWifi() with the credentials of the event.
EnterProvisioning ==
  /\ Enter("IMPROV_PROVISIONING", "improv")
  /\ \/ WifiConnects /\ Posts(<<>>)
     \/ WifiRefuses /\ Posts(<<"LOST_CONNECTION">>)
     \/ UNCHANGED wifiVars /\ Posts(<<"LOST_CONNECTION">>)   \* the name is empty
  /\ UNCHANGED <<retries, wifiCfg, ethVars, improvVars>>

\* The credentials are saved, the phone is told, and two seconds later the dock restarts.
EnterProvisioned ==
  /\ Enter("IMPROV_PROVISIONED", "off") /\ Posts(<<"PROVISIONED", "REBOOT">>)
  /\ retries' = 0 /\ wifiCfg' \in {TRUE, wifiCfg}
  /\ UNCHANGED <<wifiVars, ethVars, improvVars>>

-----------------------------------------------------------------------------
(* The event handlers.                                                      *)

\* dispatchEvent(): the events that change something in a state, its ancestors included.
\* CONNECT_TO_AP has a handler here only in Improv: see CredentialsInImprov.
Handled(s) ==
  CASE s = "NETWORK" -> {"START", "NET_INIT_FAIL", "REBOOT"}
    [] s \in EthState -> {"ETH_LINK_UP", "ETH_LINK_DOWN", "ETH_GOT_IP", "TIMER", "CONNECT_TO_AP",
                         "START", "NET_INIT_FAIL", "REBOOT"}
                        \union (IF s = "ETH_INITIALIZING" THEN {"NET_INIT_SUCCESS"} ELSE {})
    [] s \in WifiState -> {"CONFIGURE_WIFI", "CONNECT_TO_AP", "ETH_FALLBACK", "ETH_GOT_IP",
                          "WIFI_GOT_IP", "START", "NET_INIT_FAIL", "REBOOT"}
         \union (IF s = "WIFI_INITIALIZING" THEN {"NET_INIT_SUCCESS"} ELSE {})
         \union (IF s = "WIFI_CONNECTING" THEN {"CONNECTED", "LOST_CONNECTION", "TIMER"} ELSE {})
         \union (IF s \in {"WIFI_W4_IP", "WIFI_LOST_CONNECTION"} THEN {"TIMER"} ELSE {})
         \union (IF s = "WIFI_CONNECTED" THEN {"LOST_CONNECTION"} ELSE {})
    [] s \in ImprovStep -> {"ETH_GOT_IP", "IMPROV_BLE_DISCONNECT", "START", "NET_INIT_FAIL", "REBOOT"}
         \union (IF s = "IMPROV_INITIALIZING" THEN {"NET_INIT_SUCCESS"} ELSE {})
         \union (IF s = "IMPROV_STOPPED" THEN {"IMPROV_BLE_CONNECT"} ELSE {})
         \union (IF s = "IMPROV_AWAITING_AUTH" THEN {"BUTTON_PRESS"} ELSE {})
         \union (IF s = "IMPROV_AUTHORIZED" THEN {"CONNECT_TO_AP", "IMPROV_AUTHORIZED_TIMEOUT"} ELSE {})
         \union (IF s = "IMPROV_PROVISIONING" THEN {"WIFI_GOT_IP", "LOST_CONNECTION", "TIMER"} ELSE {})
    [] OTHER -> {}

In(states, e) == sm \in states /\ Receive(e)

\* An event the state and its ancestors do not handle, or only log.
Ignored ==
  /\ \E e \in Event \ Handled(sm) : Receive(e)
  /\ UNCHANGED <<todo, timer, smVars, wifiVars, ethVars, improvVars>>

\* Ethernet takes over from WiFi and from Improv by a restart.
MutantOnlyLogsEth == In(WifiState \union ImprovStep, "ETH_GOT_IP") /\ Wait(sm, timer)
MutantNoRestart == In(WifiState \union ImprovStep, "ETH_GOT_IP") /\ Wait("ETH_ACTIVE_CONNECTED", "off")
OnEthAddress == In(WifiState \union ImprovStep, "ETH_GOT_IP") /\ Reboot

NetworkState ==
  \/ In(StateId \ {"REBOOT"}, "START") /\ EnterEthInitializing
  \/ In(StateId \ {"ETH_INITIALIZING", "REBOOT"}, "NET_INIT_FAIL") /\ Reboot
  \/ In(StateId \ {"REBOOT"}, "REBOOT") /\ Reboot

EthActive ==
  \/ In(EthState, "ETH_LINK_UP") /\ Wait("ETH_ACTIVE_LINKUP", "dhcp")
  \/ In(EthState, "ETH_GOT_IP") /\ Wait("ETH_ACTIVE_CONNECTED", "off")
  \/ In(EthState, "ETH_LINK_DOWN") /\ Wait("ETH_ACTIVE_LINKDOWN", "linkDown")
  \/ In(EthState \ {"ETH_STARTING", "ETH_ACTIVE_LINKDOWN"}, "TIMER") /\ Reboot

EthInitializing ==
  \/ In({"ETH_INITIALIZING"}, "NET_INIT_SUCCESS") /\ Wait("ETH_STARTING", "link")
  \/ In({"ETH_INITIALIZING"}, "NET_INIT_FAIL") /\ EnterWifiInitializing

EthStarting == In({"ETH_STARTING"}, "TIMER") /\ EnterWifiInitializing

EthLinkDown ==
  /\ In({"ETH_ACTIVE_LINKDOWN"}, "TIMER")
  /\ \/ wifiCfg /\ EnterWifiInitializing
     \/ ~wifiCfg /\ Reboot

WifiActive ==
  \/ In(WifiState, "CONFIGURE_WIFI") /\ EnterImprov
  \/ In(WifiState, "ETH_FALLBACK") /\ Wait("ETH_ACTIVE_CONNECTED", "off")
  \/ In(WifiState, "WIFI_GOT_IP") /\ EnterWifiConnected

WifiInitializing == In({"WIFI_INITIALIZING"}, "NET_INIT_SUCCESS") /\ EnterWifiConnecting

WifiConnecting ==
  \/ In({"WIFI_CONNECTING"}, "CONNECTED") /\ Wait("WIFI_W4_IP", "dhcp")
  \/ In({"WIFI_CONNECTING"}, "LOST_CONNECTION") /\ TryAgain
  \/ In({"WIFI_CONNECTING"}, "TIMER") /\ TryAgain

WifiW4Ip == In({"WIFI_W4_IP"}, "TIMER") /\ TryAgain

WifiConnected == In({"WIFI_CONNECTED"}, "LOST_CONNECTION") /\ EnterWifiLost

WifiLostConnection == In({"WIFI_LOST_CONNECTION"}, "TIMER") /\ EnterWifiConnecting

ImprovActive == In(ImprovStep, "IMPROV_BLE_DISCONNECT") /\ Wait("IMPROV_STOPPED", "off")

ImprovInitializing ==
  In({"IMPROV_INITIALIZING"}, "NET_INIT_SUCCESS") /\ Wait("IMPROV_STOPPED", timer)

ImprovStopped ==
  In({"IMPROV_STOPPED"}, "IMPROV_BLE_CONNECT") /\ Wait("IMPROV_AWAITING_AUTH", timer)

ImprovAwaitingAuth == In({"IMPROV_AWAITING_AUTH"}, "BUTTON_PRESS") /\ EnterAuthorized(<<AUTHORIZE>>)

ImprovAuthorized ==
  \/ In({"IMPROV_AUTHORIZED"}, "IMPROV_AUTHORIZED_TIMEOUT") /\ Wait("IMPROV_AWAITING_AUTH", timer)
  \/ In({"IMPROV_AUTHORIZED"}, "CONNECT_TO_AP") /\ EnterProvisioning

ImprovProvisioning ==
  \/ In({"IMPROV_PROVISIONING"}, "WIFI_GOT_IP") /\ EnterProvisioned
  \/ In({"IMPROV_PROVISIONING"}, "LOST_CONNECTION")
       /\ EnterAuthorized(<<TIMEOUT, AUTHORIZE>>)
  \/ In({"IMPROV_PROVISIONING"}, "TIMER") /\ EnterAuthorized(<<TIMEOUT, AUTHORIZE>>)

EthHandler    == EthActive \/ EthInitializing \/ EthStarting \/ EthLinkDown
WifiHandler   == \/ WifiActive \/ WifiInitializing \/ WifiConnecting \/ WifiW4Ip
                 \/ WifiConnected \/ WifiLostConnection
ImprovHandler == \/ ImprovActive \/ ImprovInitializing \/ ImprovStopped
                 \/ ImprovAwaitingAuth \/ ImprovAuthorized \/ ImprovProvisioning

Dispatch ==
  /\ NetworkState \/ EthHandler \/ WifiHandler \/ ImprovHandler \/ OnEthAddress \/ Ignored
  /\ UNCHANGED callback

\* on_wifi_connect_timeout() gives the attempt up before it sets the Improv state.
GivesUp ==
  IF Expects(TIMEOUT)
    THEN Leave /\ station' = IF station \in {"none", "stopped"} THEN station ELSE "idle"
    ELSE UNCHANGED wifiVars

NetworkTask ==
  \/ Dispatch
  \/ (TaskPosts \/ TaskArms) /\ UNCHANGED <<improvVars, smVars, wifiVars, ethVars>>
  \/ (TaskChecks(AUTHORIZE) \/ TaskSets) /\ UNCHANGED <<smVars, wifiVars, ethVars>>
  \/ TaskChecks(TIMEOUT) /\ GivesUp /\ UNCHANGED <<smVars, ethVars>>

TimerTask ==
  \/ (TimerExpires \/ CallbackPosts) /\ UNCHANGED <<improvVars, smVars, wifiVars, ethVars>>
  \/ Timeouts /\ UNCHANGED <<smVars, wifiVars, ethVars>>

Ble == (BleHost \/ ButtonClick) /\ UNCHANGED <<smVars, wifiVars, ethVars>>

\* esp_restart()
Restart ==
  /\ sm = "REBOOT"
  /\ queue' = <<>> /\ Posts(<<"START">>) /\ callback' = "none"
  /\ Enter("NETWORK", "off") /\ retries' = 0
  /\ started' = FALSE /\ conn' = "none" /\ connActive' = FALSE
  /\ status' = "STOPPED" /\ ble' = "idle"
  /\ authTimer' = FALSE /\ verifyTimer' = FALSE /\ pressed' = FALSE /\ overtaken' = FALSE
  /\ station' = "none" /\ left' = FALSE
  /\ eth' = "none" /\ ethAddr' = FALSE /\ ethNews' = FALSE
  /\ UNCHANGED wifiCfg

Next == NetworkTask \/ TimerTask \/ WifiDriver \/ EthDriver \/ Ble \/ Restart

\* The tasks run, and what the drivers have raised is handled.
Fairness ==
  /\ WF_vars(NetworkTask)
  /\ WF_vars(TimerTask)
  /\ WF_vars(Left /\ UNCHANGED <<todo, timer, callback, improvVars, smVars, ethVars>>)
  /\ WF_vars(EthStarts /\ UNCHANGED <<todo, timer, callback, improvVars, smVars>>)

Spec == Init /\ [][Next]_vars /\ Fairness

-----------------------------------------------------------------------------
(* Properties                                                               *)

\* The period of the timer that ends the wait of a state, if one does.
Deadline(s) ==
  CASE s = "ETH_STARTING" -> "link"
    [] s \in {"ETH_ACTIVE_LINKUP", "WIFI_W4_IP"} -> "dhcp"
    [] s = "ETH_ACTIVE_LINKDOWN" -> "linkDown"
    [] s = "WIFI_CONNECTING" -> "connected"
    [] s = "WIFI_LOST_CONNECTION" -> "polling"
    [] s = "IMPROV_PROVISIONING" -> "improv"
    [] OTHER -> "off"

\* A wait for a link, an address, an access point or the next attempt is always
\* watched: the one timer all states share runs with the period of the present state
\* or its event is on the way; and it never runs for a state that was left.  Only while
\* the handler that enters WIFI_CONNECTING still has to start it may that be otherwise.
DeadlineWatched ==
  \/ todo # <<>> /\ todo[Len(todo)] = ARM
  \/ /\ timer \in {"off", Deadline(sm)}
     /\ timer = "off" /\ Deadline(sm) # "off" => callback = "TIMER" \/ Queued("TIMER")

\* The state machine believes in a WiFi connection only while there is one, or while
\* the news of its end is on the way, however the events of several attempts mix.  (The
\* connection, not its address: the code takes no notice of one that is lost.)
WifiConnectedTrue ==
  sm = "WIFI_CONNECTED" => station \in Linked \/ left \/ Queued("LOST_CONNECTION")

\* Credentials only ever arrive in the states of Improv: in the others
\* CONNECT_TO_AP would connect to a network no button was pressed for.
CredentialsInImprov ==
  started \/ Queued("CONNECT_TO_AP") => sm \in ImprovStep \union {"REBOOT"}

\* Who is let through to set credentials pressed the button while connected: no click
\* of an earlier connection authorizes the next one, whatever is still queued.
ButtonAuthorizes ==
  sm \in {"IMPROV_AUTHORIZED", "IMPROV_PROVISIONING", "IMPROV_PROVISIONED"}
    => pressed \/ Queued("IMPROV_BLE_DISCONNECT")

Quiet == queue = <<>> /\ todo = <<>> /\ callback = "none" /\ ble = "idle"

\* After the phone is gone and every task is done with it, the state machine waits for
\* the next one, and so does the state shown over BLE: only a task that had looked at the
\* state before the disconnect and set it afterwards leaves another one, which is never
\* that of credentials in use, nor an authorization without the timer that ends it.
DisconnectRecovers ==
  Quiet /\ conn = "none" /\ sm \in ImprovStep =>
    /\ sm = "IMPROV_STOPPED"
    /\ \/ status = "STOPPED"
       \/ overtaken /\ status = "AWAITING_AUTHORIZATION"
       \/ overtaken /\ status = "AUTHORIZED" /\ authTimer

\* doc/improv-wifi.md: with an address over Ethernet, neither WiFi nor Improv goes on.
EthernetWins ==
  eth = "up" /\ ethAddr /\ sm \in WifiState \union ImprovStep => ethNews \/ Queued("ETH_GOT_IP")

\* The diagram of IMPROV_PROVISIONED_STATE: when the credentials are saved and the
\* phone is told, the dock restarts with them.
ProvisionedReboots == sm = "IMPROV_PROVISIONED" ~> sm = "REBOOT"
=============================================================================
