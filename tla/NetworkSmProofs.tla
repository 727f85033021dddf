--------------------------- MODULE NetworkSmProofs ---------------------------
(***************************************************************************)
(* Proofs about NetworkSm, for every length of the queue, every number of   *)
(* retries and both ways to configure Ethernet.                             *)
(***************************************************************************)
EXTENDS NetworkSm, SequenceTheorems, TLAPS

\* The events the network task posts to its own queue.
OwnEvent == {"START", "NET_INIT_SUCCESS", "NET_INIT_FAIL", "CONFIGURE_WIFI", "LOST_CONNECTION",
             "REBOOT", "ETH_FALLBACK"}

\* What is left of a handler: after its last state change, or of setting the Improv state.
ImprovTodo == {<<AUTHORIZE>>, <<TIMEOUT, AUTHORIZE>>, <<"AUTHORIZED">>, <<"AUTHORIZED", AUTHORIZE>>,
               <<"PROVISIONED", "REBOOT">>}

TodoOK ==
  todo \in {<<>>, <<ARM>>, <<"ETH_FALLBACK", ARM>>} \union {<<e>> : e \in OwnEvent} \union ImprovTodo

SmOK ==
  /\ timer \in TimerTag
  /\ sm \in StateId
  /\ retries \in 0..MaxRetry
  /\ sm = "WIFI_CONNECTED" => retries = 0
  /\ wifiCfg \in BOOLEAN

DriversOK ==
  /\ left \in BOOLEAN /\ ethAddr \in BOOLEAN /\ ethNews \in BOOLEAN
  /\ station \in {"none", "stopped", "idle", "connecting"} \union Linked
  /\ eth \in {"none", "starting", "down", "up"}

\* Everything but the queue and the timer task, which no handler writes.
RestOK == TodoOK /\ SmOK /\ DriversOK /\ ImprovTypeOK

QueueOK ==
  /\ queue \in Seq(Event) /\ Len(queue) <= QueueLength
  /\ callback \in Callback

TypeInv == RestOK /\ QueueOK

LEMMA Received ==
  ASSUME QueueOK, NEW e, Receive(e)
  PROVE  /\ queue' \in Seq(Event)
         /\ Len(queue) \in Nat \ {0}
         /\ Len(queue') = Len(queue) - 1
         /\ queue[1] = e
         /\ \A i \in 1..Len(queue') : queue'[i] = queue[i + 1]
BY DEF QueueOK, Receive

LEMMA ReceivedTyped ==
  ASSUME QueueOK, NEW e, Receive(e), UNCHANGED callback
  PROVE  QueueOK'
<1>1. queue' \in Seq(Event) /\ Len(queue') = Len(queue) - 1 /\ Len(queue) \in Nat
  BY Received
<1> QED BY <1>1, QueueLengthAssumption DEF QueueOK

LEMMA Posted ==
  ASSUME QueueOK, NEW e \in Event, Post(e)
  PROVE  /\ queue' \in Seq(Event)
         /\ Len(queue') = Len(queue) + 1
         /\ Len(queue') <= QueueLength
         /\ \A i \in 1..Len(queue) : queue'[i] = queue[i]
         /\ queue'[Len(queue')] = e
BY QueueLengthAssumption DEF QueueOK, Post

-----------------------------------------------------------------------------
(* Types                                                                    *)

\* What a handler has left, it does one thing after the other.
LEMMA TodoTail ==
  ASSUME TodoOK, todo # <<>>
  PROVE  /\ Head(todo) \in Event =>
              \/ Head(todo) \in OwnEvent /\ todo = <<Head(todo)>> /\ Tail(todo) = <<>>
              \/ todo = <<"ETH_FALLBACK", ARM>> /\ Tail(todo) = <<ARM>>
         /\ Head(todo) = ARM => todo = <<ARM>> /\ Tail(todo) = <<>>
         /\ Head(todo) \in ImprovState =>
              \/ Head(todo) = "AUTHORIZED" /\ Tail(todo) \in {<<>>, <<AUTHORIZE>>}
              \/ todo = <<"PROVISIONED", "REBOOT">> /\ Tail(todo) = <<"REBOOT">>
         /\ Head(todo) = AUTHORIZE => todo = <<AUTHORIZE>> /\ Tail(todo) = <<>>
         /\ Head(todo) = TIMEOUT => todo = <<TIMEOUT, AUTHORIZE>> /\ Tail(todo) = <<AUTHORIZE>>
<1> USE DEF ARM, AUTHORIZE, TIMEOUT, Event, ImprovState
<1>1. CASE todo = <<ARM>>
  BY <1>1
<1>2. CASE todo = <<"ETH_FALLBACK", ARM>>
  BY <1>2
<1>3. CASE todo \in {<<e>> : e \in OwnEvent}
  <2>1. PICK e \in OwnEvent : todo = <<e>>
    BY <1>3
  <2>2. Head(todo) = e /\ Tail(todo) = <<>>
    BY <2>1
  <2>3. e \in Event /\ e \notin ImprovState \union {ARM, AUTHORIZE, TIMEOUT}
    BY DEF OwnEvent
  <2> QED BY <2>1, <2>2, <2>3
<1>4. /\ \A e : Head(<<e>>) = e /\ Tail(<<e>>) = <<>>
      /\ \A e, f : Head(<<e, f>>) = e /\ Tail(<<e, f>>) = <<f>>
  OBVIOUS
<1>5. CASE todo = <<AUTHORIZE>> \/ todo = <<TIMEOUT, AUTHORIZE>>
  <2>1. \/ todo = <<AUTHORIZE>> /\ Head(todo) = AUTHORIZE /\ Tail(todo) = <<>>
        \/ todo = <<TIMEOUT, AUTHORIZE>> /\ Head(todo) = TIMEOUT /\ Tail(todo) = <<AUTHORIZE>>
    BY <1>4, <1>5, Zenon
  <2> QED BY <2>1
<1>6. CASE todo = <<"AUTHORIZED">> \/ todo = <<"AUTHORIZED", AUTHORIZE>>
  <2>1. Head(todo) = "AUTHORIZED" /\ Tail(todo) \in {<<>>, <<AUTHORIZE>>}
    BY <1>4, <1>6
  <2> QED BY <2>1
<1>7. CASE todo = <<"PROVISIONED", "REBOOT">>
  BY <1>4, <1>7
<1> QED BY <1>1, <1>2, <1>3, <1>5, <1>6, <1>7 DEF TodoOK, ImprovTodo

\* How the checks of the Improv state go on.
LEMMA TodoChecks ==
  ASSUME TodoOK
  PROVE  /\ TaskChecks(AUTHORIZE) =>
              todo' = <<>> \/ (todo' = <<"AUTHORIZED">> /\ status = "AWAITING_AUTHORIZATION")
         /\ TaskChecks(TIMEOUT) =>
              todo' = <<AUTHORIZE>> \/ (todo' = <<"AUTHORIZED", AUTHORIZE>> /\ status = "PROVISIONING")
<1> DEFINE a == <<"AUTHORIZED">>
           b == <<AUTHORIZE>>
           c == <<"AUTHORIZED", AUTHORIZE>>
<1>1. \A S : \A x, y \in S : <<x>> \in Seq(S) /\ <<x, y>> \in Seq(S)
  OBVIOUS
<1> DEFINE S == {"AUTHORIZED", AUTHORIZE}
<1>2. a \in Seq(S) /\ b \in Seq(S) /\ c \in Seq(S)
  BY <1>1, Zenon
<1>3. a \o <<>> = a
  BY <1>2, ConcatEmptySeq
<1>4. a \o b = c
  <2>1. a \o b \in Seq(S) /\ Len(a \o b) = Len(c)
    BY <1>2, ConcatProperties
  <2>2. \A i \in 1..2 : (a \o b)[i] = IF i <= 1 THEN a[i] ELSE b[i - 1]
    BY <1>2, ConcatProperties
  <2>3. (a \o b)[1] = c[1] /\ (a \o b)[2] = c[2]
    BY <2>2
  <2>4. \A i \in 1..Len(c) : (a \o b)[i] = c[i]
    BY <2>3
  <2> HIDE DEF a, b, c
  <2> QED BY <1>2, <2>1, <2>4, SeqEqual
<1>5. AUTHORIZE # TIMEOUT
  BY DEF AUTHORIZE, TIMEOUT
<1> QED BY <1>5, <1>3, <1>4, TodoTail DEF TaskChecks, Expects

LEMMA PostsTyped ==
  ASSUME NEW s,
         \/ s = <<>>
         \/ \E e \in {"START", "NET_INIT_SUCCESS", "NET_INIT_FAIL", "CONFIGURE_WIFI",
                       "LOST_CONNECTION", "REBOOT"} : s = <<e>>
         \/ s = <<"ETH_FALLBACK", ARM>>
         \/ s \in ImprovTodo,
         Posts(s)
  PROVE  TodoOK'
BY DEF Posts, TodoOK, OwnEvent

LEMMA WaitTyped ==
  ASSUME RestOK, NEW s \in StateId \ {"WIFI_CONNECTED"}, NEW t \in TimerTag, Wait(s, t)
  PROVE  RestOK'
<1>1. TodoOK'
  BY PostsTyped DEF Wait
<1>2. SmOK' /\ DriversOK' /\ ImprovTypeOK'
  BY DEF RestOK, SmOK, DriversOK, ImprovTypeOK, Wait, Enter, wifiVars, ethVars, improvVars,
         history
<1> QED BY <1>1, <1>2 DEF RestOK

LEMMA RebootTyped ==
  ASSUME RestOK, Reboot
  PROVE  RestOK'
BY WaitTyped DEF Reboot, Wait, StateId, TimerTag

LEMMA EnterInitializingTyped ==
  ASSUME RestOK, EnterEthInitializing \/ EnterWifiInitializing \/ EnterImprov
  PROVE  RestOK'
<1> USE DEF RestOK
<1>1. TodoOK'
  BY PostsTyped DEF EnterEthInitializing, EnterWifiInitializing, EnterImprov
<1>2. SmOK'
  BY DEF SmOK, EnterEthInitializing, EnterWifiInitializing, EnterImprov, Enter,
         StateId, EthState, WifiState, ImprovStep, TimerTag
<1>3. DriversOK'
  BY EthStaticAssumption
  DEF DriversOK, EnterEthInitializing, EnterWifiInitializing, EnterImprov, WifiStarts,
      wifiVars, ethVars
<1>4. ImprovTypeOK'
  BY DEF ImprovTypeOK, EnterEthInitializing, EnterWifiInitializing, EnterImprov, improvVars, history
<1> QED BY <1>1, <1>2, <1>3, <1>4

LEMMA EnterWifiTyped ==
  ASSUME RestOK, EnterWifiConnecting \/ EnterWifiConnected \/ (retries < MaxRetry /\ EnterWifiLost)
  PROVE  RestOK'
<1> USE DEF RestOK
<1>1. TodoOK'
  BY PostsTyped DEF EnterWifiConnecting, EnterWifiConnected, EnterWifiLost
<1>2. SmOK'
  <2>1. CASE EnterWifiConnecting
    BY <2>1, MaxRetryAssumption
    DEF SmOK, EnterWifiConnecting, FewRetriesLeft, StateId, WifiState, TimerTag
  <2>2. CASE EnterWifiConnected
    <3>1. wifiCfg' \in BOOLEAN
      BY <2>2, ZenonT(20) DEF SmOK, EnterWifiConnected
    <3> QED BY <2>2, <3>1, MaxRetryAssumption
            DEF SmOK, EnterWifiConnected, Enter, StateId, WifiState, TimerTag
  <2>3. CASE retries < MaxRetry /\ EnterWifiLost
    BY <2>3, MaxRetryAssumption DEF SmOK, EnterWifiLost, Enter, StateId, WifiState, TimerTag
  <2> QED BY <2>1, <2>2, <2>3
<1>3. DriversOK'
  BY DEF DriversOK, EnterWifiConnecting, EnterWifiConnected, EnterWifiLost, WifiConnects,
         WifiRefuses, Leave, wifiVars, ethVars
<1>4. ImprovTypeOK'
  BY DEF ImprovTypeOK, EnterWifiConnecting, EnterWifiConnected, EnterWifiLost, improvVars, history
<1> QED BY <1>1, <1>2, <1>3, <1>4

LEMMA EnterImprovTyped ==
  ASSUME RestOK,
         \/ \E calls \in {<<AUTHORIZE>>, <<TIMEOUT, AUTHORIZE>>} : EnterAuthorized(calls)
         \/ EnterProvisioning \/ EnterProvisioned
  PROVE  RestOK'
<1> USE DEF RestOK, EnterAuthorized, EnterProvisioning, EnterProvisioned
<1>1. TodoOK'
  BY PostsTyped DEF ImprovTodo
<1>2. SmOK'
  <2>1. wifiCfg' \in BOOLEAN
    BY ZenonT(20) DEF SmOK
  <2>2. /\ sm' \in {"IMPROV_AUTHORIZED", "IMPROV_PROVISIONING", "IMPROV_PROVISIONED"}
        /\ timer' \in {"off", "improv"}
    BY DEF Enter
  <2>3. retries' \in {0, retries}
    OBVIOUS
  <2> HIDE DEF EnterAuthorized, EnterProvisioning, EnterProvisioned
  <2> QED BY <2>1, <2>2, <2>3, MaxRetryAssumption DEF SmOK, StateId, ImprovStep, TimerTag
<1>3. DriversOK'
  BY DEF DriversOK, WifiConnects, WifiRefuses, Leave, wifiVars, ethVars
<1>4. ImprovTypeOK'
  BY DEF ImprovTypeOK, ImprovState, improvVars, history
<1> QED BY <1>1, <1>2, <1>3, <1>4

\* Every handler receives an event and then enters a state, or does nothing.
LEMMA DispatchTyped ==
  ASSUME TypeInv, Dispatch
  PROVE  TypeInv'
<1> USE DEF TypeInv, In
<1>1. RestOK => retries < MaxRetry \/ retries >= MaxRetry
  BY MaxRetryAssumption DEF RestOK, SmOK
<1>2. RestOK /\ sm = "WIFI_CONNECTED" => retries < MaxRetry
  BY MaxRetryAssumption DEF RestOK, SmOK
<1>3. TryAgain => RestOK'
  BY EnterWifiTyped, RebootTyped DEF TryAgain
<1>4. CASE NetworkState \/ OnEthAddress
  <2>1. PICK e : Receive(e)
    BY <1>4 DEF NetworkState, OnEthAddress
  <2>2. RestOK'
    BY <1>4, RebootTyped, EnterInitializingTyped DEF NetworkState, OnEthAddress
  <2> QED BY <2>1, <2>2, ReceivedTyped DEF Dispatch
<1>5. CASE EthHandler
  <2>1. PICK e : Receive(e)
    BY <1>5 DEF EthHandler, EthActive, EthInitializing, EthStarting, EthLinkDown
  <2>2. RestOK'
    <3>1. {"ETH_ACTIVE_LINKUP", "ETH_ACTIVE_CONNECTED", "ETH_ACTIVE_LINKDOWN", "ETH_STARTING"}
            \subseteq StateId \ {"WIFI_CONNECTED"}
      BY DEF StateId, EthState
    <3>2. {"dhcp", "off", "linkDown", "link"} \subseteq TimerTag
      BY DEF TimerTag
    <3> QED BY <1>5, <3>1, <3>2, WaitTyped, RebootTyped, EnterInitializingTyped
            DEF EthHandler, EthActive, EthInitializing, EthStarting, EthLinkDown
  <2> QED BY <2>1, <2>2, ReceivedTyped DEF Dispatch
<1>6. CASE WifiHandler
  <2>1. PICK e : Receive(e)
    BY <1>6 DEF WifiHandler, WifiActive, WifiInitializing, WifiConnecting, WifiW4Ip,
                WifiConnected, WifiLostConnection
  <2>2. RestOK'
    <3>1. {"ETH_ACTIVE_CONNECTED", "WIFI_W4_IP"} \subseteq StateId \ {"WIFI_CONNECTED"}
      BY DEF StateId, EthState, WifiState
    <3>2. {"dhcp", "off"} \subseteq TimerTag
      BY DEF TimerTag
    <3>3. CASE WifiActive
      BY <3>1, <3>2, <3>3, WaitTyped, EnterInitializingTyped, EnterWifiTyped DEF WifiActive
    <3>4. CASE WifiConnecting \/ WifiW4Ip
      BY <1>3, <3>1, <3>2, <3>4, WaitTyped DEF WifiConnecting, WifiW4Ip
    <3>5. CASE WifiInitializing \/ WifiConnected \/ WifiLostConnection
      BY <1>2, <3>5, EnterWifiTyped DEF WifiInitializing, WifiConnected, WifiLostConnection
    <3> QED BY <1>6, <3>3, <3>4, <3>5 DEF WifiHandler
  <2> QED BY <2>1, <2>2, ReceivedTyped DEF Dispatch
<1>7. CASE ImprovHandler
  <2>1. PICK e : Receive(e)
    BY <1>7 DEF ImprovHandler, ImprovActive, ImprovInitializing, ImprovStopped,
                ImprovAwaitingAuth, ImprovAuthorized, ImprovProvisioning
  <2>2. RestOK'
    <3>1. {"IMPROV_STOPPED", "IMPROV_AWAITING_AUTH"} \subseteq StateId \ {"WIFI_CONNECTED"}
      BY DEF StateId, ImprovStep
    <3>2. {timer, "off"} \subseteq TimerTag
      BY DEF TimerTag, RestOK, SmOK
    <3> QED BY <1>7, <3>1, <3>2, WaitTyped, EnterImprovTyped
            DEF ImprovHandler, ImprovActive, ImprovInitializing, ImprovStopped,
                ImprovAwaitingAuth, ImprovAuthorized, ImprovProvisioning
  <2> QED BY <2>1, <2>2, ReceivedTyped DEF Dispatch
<1>8. CASE Ignored
  <2>1. PICK e : Receive(e)
    BY <1>8 DEF Ignored
  <2>2. RestOK'
    BY <1>8 DEF Ignored, RestOK, TodoOK, SmOK, DriversOK, ImprovTypeOK, smVars, wifiVars, ethVars,
                improvVars, history
  <2> QED BY <2>1, <2>2, ReceivedTyped DEF Dispatch
<1> QED BY <1>4, <1>5, <1>6, <1>7, <1>8 DEF Dispatch

LEMMA TasksTyped ==
  ASSUME TypeInv, (NetworkTask /\ ~Dispatch) \/ TimerTask
  PROVE  TypeInv'
<1> USE DEF TypeInv, RestOK
<1>1. CASE TaskPosts /\ UNCHANGED <<improvVars, smVars, wifiVars, ethVars>>
  <2>1. Head(todo) \in Event /\ Tail(todo) \in {<<>>, <<ARM>>}
    BY <1>1, TodoTail DEF TaskPosts
  <2>2. QueueOK'
    BY <1>1, <2>1, Posted DEF TaskPosts, QueueOK
  <2>3. TodoOK' /\ SmOK' /\ DriversOK' /\ ImprovTypeOK'
    BY <1>1, <2>1 DEF TaskPosts, TodoOK, SmOK, DriversOK, ImprovTypeOK, smVars, wifiVars, ethVars,
                      improvVars, history
  <2> QED BY <2>2, <2>3
<1>2. CASE TaskArms /\ UNCHANGED <<improvVars, smVars, wifiVars, ethVars>>
  <2>1. Tail(todo) = <<>>
    BY <1>2, TodoTail DEF TaskArms
  <2> QED BY <1>2, <2>1
          DEF TaskArms, QueueOK, TodoOK, SmOK, DriversOK, ImprovTypeOK, TimerTag, smVars, wifiVars,
              ethVars, improvVars, history
<1>3. CASE TaskSets /\ UNCHANGED <<smVars, wifiVars, ethVars>>
  <2>1. Tail(todo) \in {<<>>, <<AUTHORIZE>>, <<"REBOOT">>}
    BY <1>3, TodoTail DEF TaskSets
  <2>2. TodoOK'
    BY <1>3, <2>1 DEF TaskSets, TodoOK, ImprovTodo, OwnEvent
  <2>3. QueueOK' /\ SmOK' /\ DriversOK' /\ ImprovTypeOK'
    BY <1>3 DEF TaskSets, SetState, QueueOK, SmOK, DriversOK, ImprovTypeOK, smVars, wifiVars, ethVars,
                history
  <2> QED BY <2>2, <2>3
<1>4. CASE /\ TaskChecks(AUTHORIZE) \/ (TaskChecks(TIMEOUT) /\ GivesUp)
           /\ UNCHANGED <<smVars, ethVars>> /\ (UNCHANGED wifiVars \/ GivesUp)
  <2>1. TodoOK'
    BY <1>4, TodoChecks DEF TodoOK, ImprovTodo
  <2>2. QueueOK' /\ SmOK' /\ ImprovTypeOK'
    BY <1>4 DEF TaskChecks, QueueOK, SmOK, ImprovTypeOK, smVars, improvVars, history
  <2>3. DriversOK'
    BY <1>4 DEF GivesUp, Leave, DriversOK, wifiVars, ethVars
  <2> QED BY <2>1, <2>2, <2>3
<1>5. CASE TimerExpires /\ UNCHANGED <<improvVars, smVars, wifiVars, ethVars>>
  BY <1>5 DEF TimerExpires, QueueOK, TodoOK, SmOK, DriversOK, ImprovTypeOK, Callback, TimerTag,
              smVars, wifiVars, ethVars, improvVars, history
<1>6. CASE CallbackPosts /\ UNCHANGED <<improvVars, smVars, wifiVars, ethVars>>
  <2>1. QueueOK'
    BY <1>6, Posted DEF CallbackPosts, QueueOK, Event, Callback
  <2>2. TodoOK' /\ SmOK' /\ DriversOK' /\ ImprovTypeOK'
    BY <1>6 DEF CallbackPosts, TodoOK, SmOK, DriversOK, ImprovTypeOK, smVars, wifiVars, ethVars,
                improvVars, history
  <2> QED BY <2>1, <2>2
<1>7. CASE Timeouts /\ UNCHANGED <<smVars, wifiVars, ethVars>>
  <2> USE DEF Timeouts, AuthorizedTimeout, Unauthorize, VerifyConnection, Terminate, VerifySetsState
  <2>1. QueueOK' /\ TodoOK' /\ SmOK' /\ DriversOK'
    BY <1>7 DEF QueueOK, TodoOK, SmOK, DriversOK, Callback, smVars, wifiVars, ethVars
  <2>2. overtaken' \in BOOLEAN
    BY <1>7, ZenonT(20) DEF SetForClient, Decided, ImprovTypeOK, history
  <2>3. ImprovTypeOK'
    BY <1>7, <2>2 DEF SetForClient, SetState, ImprovTypeOK, ImprovState, history
  <2> QED BY <2>1, <2>3
<1>8. GivesUp \/ UNCHANGED wifiVars \/ ~NetworkTask \/ Dispatch \/ ~TaskChecks(TIMEOUT)
  BY DEF NetworkTask, TaskChecks, TaskSets, TaskPosts, TaskArms, AUTHORIZE, TIMEOUT
<1> QED BY <1>1, <1>2, <1>3, <1>4, <1>5, <1>6, <1>7, <1>8 DEF NetworkTask, TimerTask

LEMMA DriversTyped ==
  ASSUME TypeInv, WifiDriver \/ EthDriver
  PROVE  TypeInv'
<1> USE DEF TypeInv, RestOK
<1>1. QueueOK'
  BY Posted DEF WifiDriver, EthDriver, Associated, Lost, Roams, GotAddress, LostAddress, Left,
                EthStarts, EthUp, EthBound, EthAnnounced, EthDown, QueueOK, Event
<1>2. DriversOK'
  <2>1. CASE WifiDriver
    BY <2>1 DEF WifiDriver, Associated, Lost, Roams, GotAddress, LostAddress, Left, Linked, DriversOK,
                ethVars
  <2>2. CASE EthDriver
    BY <2>2, EthStaticAssumption
    DEF EthDriver, EthStarts, EthUp, Leave, EthBound, EthAnnounced, EthDown, DriversOK, wifiVars
  <2> QED BY <2>1, <2>2
<1>3. TodoOK' /\ SmOK' /\ ImprovTypeOK'
  BY DEF WifiDriver, EthDriver, TodoOK, SmOK, ImprovTypeOK, improvVars, history, smVars
<1> QED BY <1>1, <1>2, <1>3

LEMMA BleTyped ==
  ASSUME TypeInv, Ble
  PROVE  TypeInv'
<1> USE DEF TypeInv, RestOK, Ble, BleHost, Connect, Disconnect, Command, WifiSettings, BlePosts,
            BleSetsState, ButtonClick
<1>1. QueueOK'
  BY Posted DEF QueueOK, Event, eventVars
<1>2. overtaken' \in BOOLEAN
  BY ZenonT(20) DEF SetForClient, Decided, ImprovTypeOK, history
<1>3. ImprovTypeOK'
  BY <1>2 DEF ImprovTypeOK, ImprovState, SetForClient, SetState, history
<1>4. TodoOK' /\ SmOK' /\ DriversOK'
  BY DEF TodoOK, SmOK, DriversOK, eventVars, smVars, wifiVars, ethVars
<1> QED BY <1>1, <1>3, <1>4

LEMMA BootedTyped == Booted /\ wifiCfg \in BOOLEAN => TypeInv
<1> SUFFICES ASSUME Booted, wifiCfg \in BOOLEAN PROVE TypeInv
  OBVIOUS
<1>1. TodoOK
  BY DEF Booted, TodoOK, OwnEvent
<1>2. QueueOK
  BY QueueLengthAssumption DEF Booted, QueueOK, Callback
<1>3. DriversOK /\ ImprovTypeOK
  BY DEF Booted, ImprovInit, DriversOK, ImprovTypeOK, ImprovState
<1>4. SmOK
  BY MaxRetryAssumption DEF Booted, SmOK, StateId, TimerTag
<1> QED BY <1>1, <1>2, <1>3, <1>4 DEF TypeInv, RestOK

LEMMA RestartTyped ==
  ASSUME TypeInv, Restart
  PROVE  TypeInv'
<1>1. TodoOK'
  BY PostsTyped DEF Restart
<1>2. QueueOK'
  BY QueueLengthAssumption DEF Restart, QueueOK, Callback
<1>3. DriversOK' /\ ImprovTypeOK'
  BY DEF Restart, DriversOK, ImprovTypeOK, ImprovState
<1>4. SmOK'
  BY MaxRetryAssumption DEF Restart, Enter, TypeInv, RestOK, SmOK, StateId, TimerTag
<1> QED BY <1>1, <1>2, <1>3, <1>4 DEF TypeInv, RestOK

LEMMA StepTyped == TypeInv /\ [Next]_vars => TypeInv'
<1>1. TypeInv /\ UNCHANGED vars => TypeInv'
  BY DEF TypeInv, RestOK, QueueOK, TodoOK, SmOK, DriversOK, ImprovTypeOK, vars, eventVars, improvVars,
         history, smVars, wifiVars, ethVars
<1>2. NetworkTask => Dispatch \/ (NetworkTask /\ ~Dispatch)
  OBVIOUS
<1> QED BY <1>1, <1>2, DispatchTyped, TasksTyped, DriversTyped, BleTyped, RestartTyped DEF Next

LEMMA Typed == Spec => []TypeInv
<1>1. Init => TypeInv
  BY BootedTyped DEF Init
<1> QED BY <1>1, StepTyped, PTL DEF Spec

\* Type correctness: in particular the queue of the network task never exceeds its
\* length, and retries_ never passes CONFIG_NETWORK_MANAGER_MAX_RETRY.
THEOREM NetworkTyped == Spec => []NetTypeOK
<1>1. TodoOK => todo \in Seq(Event \union ImprovState \union Call)
  <2> DEFINE S == Event \union ImprovState \union Call
  <2>1. /\ OwnEvent \subseteq S
        /\ {"ETH_FALLBACK", "REBOOT", "AUTHORIZED", "PROVISIONED", ARM, AUTHORIZE, TIMEOUT} \subseteq S
    BY DEF OwnEvent, Event, ImprovState, Call
  <2>2. <<>> \in Seq(S) /\ \A e, f \in S : <<e>> \in Seq(S) /\ <<e, f>> \in Seq(S)
    OBVIOUS
  <2> HIDE DEF S
  <2>3. TodoOK => todo \in Seq(S)
    BY <2>1, <2>2 DEF TodoOK, ImprovTodo
  <2> QED BY <2>3 DEF S
<1>2. TypeInv => NetTypeOK
  BY <1>1 DEF TypeInv, RestOK, QueueOK, SmOK, DriversOK, NetTypeOK, EventTypeOK
<1> QED BY <1>2, Typed, PTL

-----------------------------------------------------------------------------
(* The order of events in the queue                                         *)

\* Every a in the queue has a b behind it.
Followed(a, b) ==
  \A i \in 1..Len(queue) : queue[i] = a => \E j \in (i + 1)..Len(queue) : queue[j] = b

LEMMA QueuedReceive ==
  ASSUME QueueOK, NEW e, NEW x, Receive(e)
  PROVE  /\ Queued(x)' => Queued(x)
         /\ Queued(x) /\ x # e => Queued(x)'
         /\ Queued(e)
<1>1. /\ Len(queue) \in Nat \ {0} /\ Len(queue') = Len(queue) - 1 /\ queue[1] = e
      /\ \A i \in 1..Len(queue') : queue'[i] = queue[i + 1]
  BY Received
<1>2. ASSUME NEW i \in 1..Len(queue), queue[i] = x, x # e PROVE Queued(x)'
  <2>1. i - 1 \in 1..Len(queue') /\ queue'[i - 1] = x
    BY <1>1, <1>2
  <2> QED BY <2>1 DEF Queued
<1>3. ASSUME NEW i \in 1..Len(queue'), queue'[i] = x PROVE Queued(x)
  <2>1. i + 1 \in 1..Len(queue) /\ queue[i + 1] = x
    BY <1>1, <1>3
  <2> QED BY <2>1 DEF Queued
<1>4. 1 \in 1..Len(queue) /\ queue[1] = e
  BY <1>1
<1>5. Queued(e)
  BY <1>4 DEF Queued
<1>6. Queued(x)' => Queued(x)
  BY <1>3 DEF Queued
<1>7. Queued(x) /\ x # e => Queued(x)'
  BY <1>2 DEF Queued
<1> QED BY <1>5, <1>6, <1>7

LEMMA QueuedPost ==
  ASSUME QueueOK, NEW e \in Event, NEW x, Post(e)
  PROVE  Queued(x)' <=> Queued(x) \/ x = e
<1>1. /\ Len(queue) \in Nat /\ Len(queue') = Len(queue) + 1 /\ queue'[Len(queue')] = e
      /\ \A i \in 1..Len(queue) : queue'[i] = queue[i]
  BY Posted DEF QueueOK
<1> QED BY <1>1 DEF Queued

LEMMA FollowedReceive ==
  ASSUME QueueOK, NEW e, NEW a, NEW b, Receive(e), Followed(a, b)
  PROVE  Followed(a, b)' /\ (e = a => Queued(b)')
<1>1. /\ Len(queue) \in Nat \ {0} /\ Len(queue') = Len(queue) - 1 /\ queue[1] = e
      /\ \A i \in 1..Len(queue') : queue'[i] = queue[i + 1]
  BY Received
<1>2. ASSUME NEW i \in 1..Len(queue), queue[i] = a
      PROVE  \E j \in i..Len(queue') : queue'[j] = b
  <2>1. PICK j \in (i + 1)..Len(queue) : queue[j] = b
    BY <1>2 DEF Followed
  <2>2. j - 1 \in i..Len(queue') /\ queue'[j - 1] = b
    BY <1>1, <2>1
  <2> QED BY <2>2
<1>3. ASSUME NEW i \in 1..Len(queue'), queue'[i] = a
      PROVE  \E j \in (i + 1)..Len(queue') : queue'[j] = b
  <2>1. i + 1 \in 1..Len(queue) /\ queue[i + 1] = a
    BY <1>1, <1>3
  <2> QED BY <2>1, <1>2
<1>4. ASSUME e = a PROVE Queued(b)'
  <2>1. PICK j \in 1..Len(queue') : queue'[j] = b
    BY <1>1, <1>2, <1>4
  <2> QED BY <2>1 DEF Queued
<1> QED BY <1>3, <1>4 DEF Followed

LEMMA FollowedPost ==
  ASSUME QueueOK, NEW e \in Event, NEW a, NEW b, Post(e), a # b,
         e = b \/ (e # a /\ Followed(a, b))
  PROVE  Followed(a, b)'
<1>1. /\ Len(queue) \in Nat /\ Len(queue') = Len(queue) + 1 /\ queue'[Len(queue')] = e
      /\ \A i \in 1..Len(queue) : queue'[i] = queue[i]
  BY Posted DEF QueueOK
<1>2. ASSUME NEW i \in 1..Len(queue'), queue'[i] = a
      PROVE  \E j \in (i + 1)..Len(queue') : queue'[j] = b
  <2>1. i \in 1..Len(queue) /\ queue[i] = a
    BY <1>1, <1>2
  <2>2. CASE e = b
    BY <1>1, <2>1, <2>2
  <2>3. CASE e # a /\ Followed(a, b)
    BY <1>1, <2>1, <2>3 DEF Followed
  <2> QED BY <2>2, <2>3
<1> QED BY <1>2 DEF Followed

PostsOneOf(E) == UNCHANGED queue \/ \E e \in E : Post(e)

LEMMA QueuedPosts ==
  ASSUME QueueOK, NEW E \in SUBSET Event, NEW x, PostsOneOf(E)
  PROVE  /\ Queued(x) => Queued(x)'
         /\ x \notin E => (Queued(x)' => Queued(x))
BY QueuedPost DEF PostsOneOf, Queued

LEMMA FollowedPosts ==
  ASSUME QueueOK, NEW E \in SUBSET Event, NEW a, NEW b, PostsOneOf(E), a \notin E, a # b,
         Followed(a, b)
  PROVE  Followed(a, b)'
<1>1. CASE UNCHANGED queue
  BY <1>1 DEF Followed
<1>2. ASSUME NEW e \in E, Post(e) PROVE Followed(a, b)'
  <2>1. e \in Event /\ e # a
    OBVIOUS
  <2> QED BY <1>2, <2>1, FollowedPost
<1> QED BY <1>1, <1>2 DEF PostsOneOf

-----------------------------------------------------------------------------
(* What each task can change                                                *)

\* The transitions of the state machine.
EthMove(e) ==
  /\ sm \in EthState
  /\ \/ e = "ETH_LINK_UP" /\ sm' = "ETH_ACTIVE_LINKUP"
     \/ e = "ETH_GOT_IP" /\ sm' = "ETH_ACTIVE_CONNECTED"
     \/ e = "ETH_LINK_DOWN" /\ sm' = "ETH_ACTIVE_LINKDOWN"
     \/ sm = "ETH_INITIALIZING" /\ e = "NET_INIT_SUCCESS" /\ sm' = "ETH_STARTING"
     \/ /\ sm \in {"ETH_INITIALIZING", "ETH_STARTING", "ETH_ACTIVE_LINKDOWN"}
        /\ e \in {"NET_INIT_FAIL", "TIMER"} /\ sm' = "WIFI_INITIALIZING"

WifiMove(e) ==
  /\ sm \in WifiState
  /\ \/ e = "CONFIGURE_WIFI" /\ sm' = "IMPROV_INITIALIZING"
     \/ e = "ETH_FALLBACK" /\ sm' = "ETH_ACTIVE_CONNECTED"
     \/ e = "WIFI_GOT_IP" /\ sm' = "WIFI_CONNECTED"
     \/ /\ e \in {"NET_INIT_SUCCESS", "CONNECTED", "LOST_CONNECTION", "TIMER"}
        /\ sm' \in {"WIFI_CONNECTING", "WIFI_W4_IP", "WIFI_LOST_CONNECTION"}

ImprovMove(e) ==
  \/ sm \in ImprovStep /\ e = "IMPROV_BLE_DISCONNECT" /\ sm' = "IMPROV_STOPPED"
  \/ sm = "IMPROV_INITIALIZING" /\ e = "NET_INIT_SUCCESS" /\ sm' = "IMPROV_STOPPED"
  \/ sm = "IMPROV_STOPPED" /\ e = "IMPROV_BLE_CONNECT" /\ sm' = "IMPROV_AWAITING_AUTH"
  \/ sm = "IMPROV_AWAITING_AUTH" /\ e = "BUTTON_PRESS" /\ sm' = "IMPROV_AUTHORIZED"
  \/ sm = "IMPROV_AUTHORIZED" /\ e = "IMPROV_AUTHORIZED_TIMEOUT" /\ sm' = "IMPROV_AWAITING_AUTH"
  \/ sm = "IMPROV_AUTHORIZED" /\ e = "CONNECT_TO_AP" /\ sm' = "IMPROV_PROVISIONING"
  \/ sm = "IMPROV_PROVISIONING" /\ e = "WIFI_GOT_IP" /\ sm' = "IMPROV_PROVISIONED"
  \/ /\ sm = "IMPROV_PROVISIONING" /\ e \in {"LOST_CONNECTION", "TIMER"}
     /\ sm' = "IMPROV_AUTHORIZED"

Moves(e) ==
  \/ sm' = "REBOOT"
  \/ sm' = sm /\ e \notin Handled(sm)
  \/ e = "START" /\ sm # "REBOOT" /\ sm' = "ETH_INITIALIZING" /\ EnterEthInitializing
  \/ EthMove(e) \/ WifiMove(e) \/ ImprovMove(e)

LEMMA DispatchMoves ==
  ASSUME Dispatch
  PROVE  \E e : Receive(e) /\ Moves(e)
<1> USE DEF In, Enter
<1>1. Reboot => sm' = "REBOOT"
  BY DEF Reboot
<1>2. \A s, t : Wait(s, t) => sm' = s
  BY DEF Wait
<1>3. /\ EnterEthInitializing => sm' = "ETH_INITIALIZING"
      /\ EnterWifiInitializing => sm' = "WIFI_INITIALIZING"
      /\ EnterWifiConnecting => sm' = "WIFI_CONNECTING"
      /\ EnterWifiConnected => sm' = "WIFI_CONNECTED"
      /\ EnterWifiLost => sm' = "WIFI_LOST_CONNECTION"
  BY DEF EnterEthInitializing, EnterWifiInitializing, EnterWifiConnecting, EnterWifiConnected,
         EnterWifiLost
<1>4. /\ EnterImprov => sm' = "IMPROV_INITIALIZING"
      /\ \A calls : EnterAuthorized(calls) => sm' = "IMPROV_AUTHORIZED"
      /\ EnterProvisioning => sm' = "IMPROV_PROVISIONING"
      /\ EnterProvisioned => sm' = "IMPROV_PROVISIONED"
  BY DEF EnterImprov, EnterAuthorized, EnterProvisioning, EnterProvisioned
<1>5. TryAgain => sm' \in {"WIFI_LOST_CONNECTION", "REBOOT"}
  BY <1>1, <1>3 DEF TryAgain
<1>6. CASE NetworkState \/ OnEthAddress
  BY <1>1, <1>3, <1>6 DEF NetworkState, OnEthAddress, Moves
<1>7. CASE EthHandler
  BY <1>1, <1>2, <1>3, <1>7
  DEF EthHandler, EthActive, EthInitializing, EthStarting, EthLinkDown, EthState, Moves, EthMove
<1>8. CASE WifiHandler
  BY <1>1, <1>2, <1>3, <1>4, <1>5, <1>8
  DEF WifiHandler, WifiActive, WifiInitializing, WifiConnecting, WifiW4Ip, WifiConnected,
      WifiLostConnection, WifiState, Moves, WifiMove
<1>9. CASE ImprovHandler
  BY <1>2, <1>4, <1>9
  DEF ImprovHandler, ImprovActive, ImprovInitializing, ImprovStopped, ImprovAwaitingAuth,
      ImprovAuthorized, ImprovProvisioning, Moves, ImprovMove
<1>10. CASE Ignored
  BY <1>10 DEF Ignored, smVars, Moves
<1> QED BY <1>6, <1>7, <1>8, <1>9, <1>10 DEF Dispatch

\* What a handler of the state machine leaves alone.
LEMMA DispatchFrame ==
  ASSUME Dispatch
  PROVE  /\ UNCHANGED <<callback, conn, status, ble, authTimer, history, ethNews>>
         /\ started' = started \/ (sm' = "IMPROV_INITIALIZING" /\ started' = TRUE)
         /\ UNCHANGED <<eth, ethAddr>> \/ (sm' = "ETH_INITIALIZING" /\ EnterEthInitializing)
         /\ todo' # <<"START">>
<1> USE DEF In, ethVars, improvVars
<1>0. /\ <<>> # <<"START">> /\ <<"ETH_FALLBACK", ARM>> # <<"START">>
      /\ \A e : e # "START" => <<e>> # <<"START">>
      /\ <<"START">> \notin ImprovTodo
  <2>1. /\ <<"ETH_FALLBACK", ARM>>[1] # <<"START">>[1] /\ <<TIMEOUT, AUTHORIZE>>[1] # <<"START">>[1]
        /\ <<"AUTHORIZED", AUTHORIZE>>[1] # <<"START">>[1]
        /\ <<"PROVISIONED", "REBOOT">>[1] # <<"START">>[1]
    BY DEF TIMEOUT
  <2>2. \A e : <<e>>[1] = e
    OBVIOUS
  <2>3. <<"ETH_FALLBACK", ARM>> # <<"START">>
    BY <2>1
  <2>4. \A e : e # "START" => <<e>> # <<"START">>
    BY <2>2
  <2>5. <<"START">> \notin ImprovTodo
    BY <2>1, <2>4 DEF ImprovTodo, AUTHORIZE
  <2> QED BY <2>3, <2>4, <2>5
<1> DEFINE Good == /\ UNCHANGED <<conn, status, ble, authTimer, history, ethNews>>
                   /\ started' = started \/ (sm' = "IMPROV_INITIALIZING" /\ started' = TRUE)
                   /\ UNCHANGED <<eth, ethAddr>> \/ (sm' = "ETH_INITIALIZING" /\ EnterEthInitializing)
                   /\ todo' # <<"START">>
<1>1. \A s, t : Wait(s, t) => Good
  BY <1>0 DEF Wait, Posts
<1>2. Reboot => Good
  BY <1>0 DEF Reboot, Posts
<1>3. EnterEthInitializing => Good
  BY <1>0 DEF EnterEthInitializing, Posts, Enter
<1>4. EnterWifiInitializing \/ EnterWifiConnecting \/ EnterWifiConnected \/ EnterWifiLost => Good
  BY <1>0 DEF EnterWifiInitializing, EnterWifiConnecting, EnterWifiConnected, EnterWifiLost, Posts
<1>5. \/ EnterImprov \/ EnterProvisioning \/ EnterProvisioned
      \/ EnterAuthorized(<<AUTHORIZE>>) \/ EnterAuthorized(<<TIMEOUT, AUTHORIZE>>)
     => Good
  BY <1>0 DEF EnterImprov, EnterAuthorized, EnterProvisioning, EnterProvisioned, Posts, Enter,
              ImprovTodo
<1>6. todo = <<>> /\ UNCHANGED callback
  BY DEF Dispatch, NetworkState, OnEthAddress, EthHandler, EthActive, EthInitializing, EthStarting,
         EthLinkDown, WifiHandler, WifiActive, WifiInitializing, WifiConnecting, WifiW4Ip,
         WifiConnected, WifiLostConnection, ImprovHandler, ImprovActive, ImprovInitializing,
         ImprovStopped, ImprovAwaitingAuth, ImprovAuthorized, ImprovProvisioning, Ignored, Receive
<1>7. Ignored => Good
  BY <1>6 DEF Ignored
<1> HIDE DEF Good
<1>8. NetworkState \/ OnEthAddress => Good
  BY <1>2, <1>3 DEF NetworkState, OnEthAddress
<1>9. EthHandler => Good
  BY <1>1, <1>2, <1>4 DEF EthHandler, EthActive, EthInitializing, EthStarting, EthLinkDown
<1>10. WifiHandler => Good
  BY <1>1, <1>2, <1>4, <1>5
  DEF WifiHandler, WifiActive, WifiInitializing, WifiConnecting, WifiW4Ip, WifiConnected,
      WifiLostConnection, TryAgain
<1>11. ImprovHandler => Good
  BY <1>1, <1>5
  DEF ImprovHandler, ImprovActive, ImprovInitializing, ImprovStopped, ImprovAwaitingAuth,
      ImprovAuthorized, ImprovProvisioning
<1>12. Good
  BY <1>7, <1>8, <1>9, <1>10, <1>11 DEF Dispatch
<1> QED BY <1>6, <1>12 DEF Good

\* The other steps of the tasks: what they post, and what they leave alone.
LEMMA TaskFrame ==
  ASSUME TypeInv, NetworkTask, ~Dispatch
  PROVE  /\ PostsOneOf(OwnEvent)
         /\ UNCHANGED <<callback, started, conn, ble, history, smVars, ethVars>>
         /\ UNCHANGED <<status, authTimer>> \/ TaskSets
         /\ UNCHANGED wifiVars \/ GivesUp
         /\ TaskPosts \/ TaskArms \/ TaskSets \/ TaskChecks(AUTHORIZE) \/ TaskChecks(TIMEOUT)
<1>1. CASE TaskPosts
  <2>1. Head(todo) \in OwnEvent
    BY <1>1, TodoTail DEF TaskPosts, TypeInv, RestOK, OwnEvent
  <2>2. Head(todo) \in Event /\ Head(todo) \notin ImprovState \union Call
    BY <2>1 DEF OwnEvent, Event, ImprovState, Call, ARM, AUTHORIZE, TIMEOUT
  <2> QED BY <1>1, <2>1, <2>2
          DEF NetworkTask, TaskPosts, TaskArms, TaskSets, TaskChecks, Call, PostsOneOf, improvVars
<1>2. CASE TaskArms
  <2>1. Head(todo) \notin Event \union ImprovState \union {AUTHORIZE, TIMEOUT}
    BY <1>2 DEF TaskArms, Event, ImprovState, ARM, AUTHORIZE, TIMEOUT
  <2> QED BY <1>2, <2>1
          DEF NetworkTask, TaskPosts, TaskArms, TaskSets, TaskChecks, PostsOneOf, improvVars
<1>3. CASE (TaskChecks(AUTHORIZE) \/ TaskSets) /\ UNCHANGED <<smVars, wifiVars, ethVars>>
  BY <1>3 DEF TaskSets, TaskChecks, PostsOneOf, improvVars
<1>4. CASE TaskChecks(TIMEOUT) /\ GivesUp /\ UNCHANGED <<smVars, ethVars>>
  BY <1>4 DEF TaskChecks, PostsOneOf, improvVars
<1> QED BY <1>1, <1>2, <1>3, <1>4 DEF NetworkTask

LEMMA TimerFrame ==
  ASSUME TimerTask
  PROVE  /\ PostsOneOf({"TIMER", "IMPROV_AUTHORIZED_TIMEOUT", "IMPROV_BLE_DISCONNECT"})
         /\ UNCHANGED <<todo, smVars, wifiVars, ethVars, started, ble, pressed>>
         /\ conn' = conn \/ (conn = "open" /\ conn' = "dropped")
BY DEF TimerTask, TimerExpires, CallbackPosts, Timeouts, AuthorizedTimeout, Unauthorize,
       VerifyConnection, Terminate, VerifySetsState, PostsOneOf, improvVars, history

LEMMA WifiFrame ==
  ASSUME WifiDriver
  PROVE  /\ PostsOneOf({"CONNECTED", "LOST_CONNECTION", "WIFI_GOT_IP"})
         /\ UNCHANGED <<todo, timer, callback, improvVars, smVars, ethVars>>
BY DEF WifiDriver, Associated, Lost, Roams, GotAddress, LostAddress, Left, PostsOneOf

LEMMA EthFrame ==
  ASSUME EthDriver
  PROVE  /\ PostsOneOf({"NET_INIT_SUCCESS", "ETH_LINK_UP", "ETH_LINK_DOWN", "ETH_GOT_IP"})
         /\ UNCHANGED <<todo, timer, callback, improvVars, smVars>>
BY DEF EthDriver, EthStarts, EthUp, EthBound, EthAnnounced, EthDown, PostsOneOf

LEMMA BleFrame ==
  ASSUME Ble
  PROVE  /\ PostsOneOf({"IMPROV_BLE_CONNECT", "IMPROV_BLE_DISCONNECT", "CONNECT_TO_AP", "BUTTON_PRESS"})
         /\ UNCHANGED <<todo, timer, callback, started, smVars, wifiVars, ethVars>>
BY DEF Ble, BleHost, Connect, Disconnect, Command, WifiSettings, BlePosts, BleSetsState, ButtonClick,
       PostsOneOf, eventVars

-----------------------------------------------------------------------------
(* Ethernet wins                                                            *)

\* The states from which Ethernet does not yet count as connected, or not any more.
Elsewhere == sm \notin {"REBOOT", "ETH_ACTIVE_LINKUP", "ETH_ACTIVE_CONNECTED"}

EthInv ==
  /\ sm = "NETWORK" => eth = "none"
  /\ eth # "up" /\ ethAddr => EthStatic
  /\ eth = "up" /\ ethAddr /\ ~ethNews =>
       /\ Followed("ETH_LINK_DOWN", "ETH_GOT_IP")
       /\ Elsewhere => Queued("ETH_GOT_IP")

LEMMA EthDispatch ==
  ASSUME TypeInv, EthInv, Dispatch
  PROVE  EthInv'
<1>1. PICK e : Receive(e) /\ Moves(e)
  BY DispatchMoves
<1>2. CASE sm' = "ETH_INITIALIZING" /\ EnterEthInitializing
  <2>1. eth' # "up" /\ sm' # "NETWORK"
    BY <1>2 DEF EnterEthInitializing
  <2>2. ethAddr' => EthStatic
    BY <1>2, EthStaticAssumption, ZenonT(20) DEF EnterEthInitializing
  <2> QED BY <2>1, <2>2 DEF EthInv
<1>3. CASE UNCHANGED <<eth, ethAddr>>
  <2>1. UNCHANGED ethNews
    BY DispatchFrame
  <2>2. sm' = "NETWORK" => sm = "NETWORK"
    BY <1>1 DEF Moves, EthMove, WifiMove, ImprovMove
  <2>3. SUFFICES ASSUME eth = "up", ethAddr, ~ethNews
                 PROVE  Followed("ETH_LINK_DOWN", "ETH_GOT_IP")' /\ (Elsewhere' => Queued("ETH_GOT_IP")')
    BY <1>3, <2>1, <2>2 DEF EthInv
  <2>4. /\ Followed("ETH_LINK_DOWN", "ETH_GOT_IP")'
        /\ e = "ETH_LINK_DOWN" => Queued("ETH_GOT_IP")'
    BY <1>1, <2>3, FollowedReceive DEF EthInv, TypeInv
  <2>5. Queued("ETH_GOT_IP") /\ e # "ETH_GOT_IP" => Queued("ETH_GOT_IP")'
    BY <1>1, QueuedReceive DEF TypeInv
  <2>6. ASSUME Elsewhere', e # "ETH_LINK_DOWN" PROVE Elsewhere /\ e # "ETH_GOT_IP"
    <3>1. sm # "NETWORK" /\ sm' \notin {"REBOOT", "ETH_ACTIVE_LINKUP", "ETH_ACTIVE_CONNECTED"}
      BY <2>3, <2>6 DEF EthInv, Elsewhere
    <3>2. sm \in StateId
      BY DEF TypeInv, RestOK, SmOK
    <3>3. ~EnterEthInitializing
      BY <1>3, <2>3 DEF EnterEthInitializing
    <3> QED BY <1>1, <2>6, <3>1, <3>2, <3>3
            DEF Moves, EthMove, WifiMove, ImprovMove, Elsewhere, Handled, StateId, EthState, WifiState,
                ImprovStep
  <2> QED BY <2>3, <2>4, <2>5, <2>6 DEF EthInv
<1> QED BY <1>2, <1>3, DispatchFrame

LEMMA EthDriverStep ==
  ASSUME TypeInv, EthInv, EthDriver
  PROVE  EthInv'
<1>1. UNCHANGED sm
  BY EthFrame DEF smVars
<1>2. CASE EthStarts
  BY <1>1, <1>2 DEF EthStarts, EthInv
<1>3. CASE EthUp
  BY <1>1, <1>3 DEF EthUp, EthInv
<1>4. CASE EthBound
  BY <1>1, <1>4 DEF EthBound, EthInv
<1>5. CASE EthAnnounced
  <2>1. "ETH_GOT_IP" \in Event
    BY DEF Event
  <2>2. Followed("ETH_LINK_DOWN", "ETH_GOT_IP")' /\ Queued("ETH_GOT_IP")'
    BY <1>5, <2>1, FollowedPost, QueuedPost DEF EthAnnounced, TypeInv
  <2> QED BY <1>1, <1>5, <2>2 DEF EthAnnounced, EthInv
<1>6. CASE EthDown
  BY <1>1, <1>6 DEF EthDown, EthInv
<1> QED BY <1>2, <1>3, <1>4, <1>5, <1>6 DEF EthDriver

LEMMA EthStep == TypeInv /\ EthInv /\ [Next]_vars => EthInv'
<1> SUFFICES ASSUME TypeInv, EthInv, [Next]_vars PROVE EthInv'
  OBVIOUS
<1>1. ASSUME NEW E \in SUBSET (Event \ {"ETH_LINK_DOWN"}), PostsOneOf(E), UNCHANGED <<sm, ethVars>>
      PROVE  EthInv'
  <2>1. Followed("ETH_LINK_DOWN", "ETH_GOT_IP") => Followed("ETH_LINK_DOWN", "ETH_GOT_IP")'
    BY <1>1, FollowedPosts DEF TypeInv
  <2>2. Queued("ETH_GOT_IP") => Queued("ETH_GOT_IP")'
    BY <1>1, QueuedPosts DEF TypeInv
  <2> QED BY <1>1, <2>1, <2>2 DEF EthInv, Elsewhere, ethVars
<1>2. CASE NetworkTask /\ ~Dispatch
  <2>1. OwnEvent \in SUBSET (Event \ {"ETH_LINK_DOWN"})
    BY DEF OwnEvent, Event
  <2> QED BY <1>1, <1>2, <2>1, TaskFrame DEF smVars
<1>3. CASE TimerTask
  <2>1. {"TIMER", "IMPROV_AUTHORIZED_TIMEOUT", "IMPROV_BLE_DISCONNECT"}
          \in SUBSET (Event \ {"ETH_LINK_DOWN"})
    BY DEF Event
  <2> QED BY <1>1, <1>3, <2>1, TimerFrame DEF smVars
<1>4. CASE WifiDriver
  <2>1. {"CONNECTED", "LOST_CONNECTION", "WIFI_GOT_IP"} \in SUBSET (Event \ {"ETH_LINK_DOWN"})
    BY DEF Event
  <2> QED BY <1>1, <1>4, <2>1, WifiFrame DEF smVars
<1>5. CASE Ble
  <2>1. {"IMPROV_BLE_CONNECT", "IMPROV_BLE_DISCONNECT", "CONNECT_TO_AP", "BUTTON_PRESS"}
          \in SUBSET (Event \ {"ETH_LINK_DOWN"})
    BY DEF Event
  <2> QED BY <1>1, <1>5, <2>1, BleFrame DEF smVars
<1>6. CASE Restart
  BY <1>6 DEF Restart, EthInv
<1>7. CASE UNCHANGED vars
  BY <1>7 DEF vars, eventVars, smVars, ethVars, EthInv, Elsewhere, Followed, Queued
<1> QED BY <1>2, <1>3, <1>4, <1>5, <1>6, <1>7, EthDispatch, EthDriverStep DEF Next

\* doc/improv-wifi.md promises it: with an address over Ethernet, neither WiFi nor
\* Improv goes on.  The driver announces the address after it has it, in another task
\* than the one that decides, and the cable may be pulled and plugged again in between:
\* the news that is to end WiFi is on the way whenever it is needed.
THEOREM EthernetPrevails == Spec => []EthernetWins
<1>1. Init => EthInv
  BY DEF Init, Booted, EthInv
<1>2. TypeInv /\ EthInv => EthernetWins
  <2>1. sm \in WifiState \union ImprovStep => Elsewhere
    BY DEF WifiState, ImprovStep, Elsewhere
  <2> QED BY <2>1 DEF EthInv, EthernetWins
<1> QED BY <1>1, <1>2, EthStep, Typed, PTL DEF Spec

-----------------------------------------------------------------------------
(* The WiFi connection                                                      *)

\* No handler makes a connection, and one that it ends is announced.
Quits ==
  /\ station' \in Linked => station \in Linked
  /\ left \/ (station \in Linked /\ station' \notin Linked) => left' = TRUE

LEMMA DispatchStation ==
  ASSUME TypeInv, Dispatch
  PROVE  Quits
<1> USE DEF In, wifiVars
<1>1. (left => left = TRUE) /\ (UNCHANGED wifiVars => Quits)
  BY DEF TypeInv, RestOK, DriversOK, Quits
<1>2. Leave /\ station' \notin Linked => Quits
  BY <1>1 DEF Leave, Quits
<1>3. WifiConnects \/ WifiRefuses \/ WifiStarts => Quits
  BY <1>1, <1>2 DEF WifiConnects, WifiRefuses, WifiStarts, Quits, Linked
<1>4. Reboot => Quits
  BY <1>1 DEF Reboot
<1>5. \A s, t : Wait(s, t) => Quits
  BY <1>1 DEF Wait
<1>6. EnterEthInitializing \/ EnterWifiInitializing \/ EnterWifiConnecting \/ EnterWifiConnected
        \/ EnterWifiLost => Quits
  BY <1>1, <1>3 DEF EnterEthInitializing, EnterWifiInitializing, EnterWifiConnecting,
                    EnterWifiConnected, EnterWifiLost
<1>7. /\ EnterImprov \/ EnterProvisioning \/ EnterProvisioned => Quits
      /\ \A calls : EnterAuthorized(calls) => Quits
  BY <1>1, <1>2, <1>3 DEF EnterImprov, EnterAuthorized, EnterProvisioning, EnterProvisioned
<1>8. CASE NetworkState \/ OnEthAddress \/ EthHandler
  BY <1>4, <1>5, <1>6, <1>8 DEF NetworkState, OnEthAddress, EthHandler, EthActive, EthInitializing,
                                EthStarting, EthLinkDown
<1>9. CASE WifiHandler
  BY <1>4, <1>5, <1>6, <1>7, <1>9
  DEF WifiHandler, WifiActive, WifiInitializing, WifiConnecting, WifiW4Ip, WifiConnected,
      WifiLostConnection, TryAgain
<1>10. CASE ImprovHandler
  BY <1>5, <1>7, <1>10
  DEF ImprovHandler, ImprovActive, ImprovInitializing, ImprovStopped, ImprovAwaitingAuth,
      ImprovAuthorized, ImprovProvisioning
<1>11. CASE Ignored
  BY <1>1, <1>11 DEF Ignored
<1> QED BY <1>8, <1>9, <1>10, <1>11 DEF Dispatch

\* An address of a connection that is over has the news of its end behind it.
WifiInv ==
  /\ station \notin Linked /\ ~left => Followed("WIFI_GOT_IP", "LOST_CONNECTION")
  /\ WifiConnectedTrue

LEMMA WifiDispatch ==
  ASSUME TypeInv, WifiInv, Dispatch
  PROVE  WifiInv'
<1>1. PICK e : Receive(e) /\ Moves(e)
  BY DispatchMoves
<1> SUFFICES ASSUME station' \notin Linked, ~left'
             PROVE  /\ Followed("WIFI_GOT_IP", "LOST_CONNECTION")'
                    /\ sm' = "WIFI_CONNECTED" => Queued("LOST_CONNECTION")'
  BY DEF WifiInv, WifiConnectedTrue
<1>2. station \notin Linked /\ ~left
  BY DispatchStation DEF Quits
<1>3. /\ Followed("WIFI_GOT_IP", "LOST_CONNECTION")'
      /\ e = "WIFI_GOT_IP" => Queued("LOST_CONNECTION")'
  BY <1>1, <1>2, FollowedReceive DEF WifiInv, TypeInv
<1>4. ASSUME sm' = "WIFI_CONNECTED", e # "WIFI_GOT_IP" PROVE Queued("LOST_CONNECTION")'
  <2>1. sm = "WIFI_CONNECTED" /\ e # "LOST_CONNECTION"
    BY <1>1, <1>4 DEF Moves, EthMove, WifiMove, ImprovMove, Handled, EthState, WifiState,
                       ImprovStep
  <2> QED BY <1>1, <1>2, <2>1, QueuedReceive DEF WifiInv, WifiConnectedTrue, TypeInv
<1> QED BY <1>3, <1>4

LEMMA WifiDriverStep ==
  ASSUME TypeInv, WifiInv, WifiDriver
  PROVE  WifiInv'
<1>1. UNCHANGED sm
  BY WifiFrame DEF smVars
<1>2. {"CONNECTED", "LOST_CONNECTION", "WIFI_GOT_IP"} \subseteq Event
  BY DEF Event
<1>3. CASE Lost \/ Left
  <2>1. Followed("WIFI_GOT_IP", "LOST_CONNECTION")' /\ Queued("LOST_CONNECTION")'
    BY <1>2, <1>3, FollowedPost, QueuedPost DEF Lost, Left, TypeInv
  <2> QED BY <2>1 DEF WifiInv, WifiConnectedTrue
<1>4. CASE Associated \/ Roams \/ GotAddress \/ LostAddress
  <2>1. station' \in Linked
    BY <1>4 DEF Associated, Roams, GotAddress, LostAddress, Linked
  <2> QED BY <2>1 DEF WifiInv, WifiConnectedTrue
<1> QED BY <1>3, <1>4 DEF WifiDriver

LEMMA WifiStep == TypeInv /\ WifiInv /\ [Next]_vars => WifiInv'
<1> SUFFICES ASSUME TypeInv, WifiInv, [Next]_vars PROVE WifiInv'
  OBVIOUS
<1>1. ASSUME NEW E \in SUBSET (Event \ {"WIFI_GOT_IP"}), PostsOneOf(E), UNCHANGED sm, Quits
      PROVE  WifiInv'
  <2>1. Followed("WIFI_GOT_IP", "LOST_CONNECTION") => Followed("WIFI_GOT_IP", "LOST_CONNECTION")'
    BY <1>1, FollowedPosts DEF TypeInv
  <2>2. Queued("LOST_CONNECTION") => Queued("LOST_CONNECTION")'
    BY <1>1, QueuedPosts DEF TypeInv
  <2> QED BY <1>1, <2>1, <2>2 DEF WifiInv, WifiConnectedTrue, Quits
<1>2. UNCHANGED wifiVars => Quits
  BY DEF wifiVars, Quits, TypeInv, RestOK, DriversOK
<1>3. CASE NetworkTask /\ ~Dispatch
  <2>1. OwnEvent \in SUBSET (Event \ {"WIFI_GOT_IP"})
    BY DEF OwnEvent, Event
  <2>2. GivesUp => Quits
    BY <1>2 DEF GivesUp, Leave, Linked, Quits, TypeInv, RestOK, DriversOK
  <2> QED BY <1>1, <1>2, <1>3, <2>1, <2>2, TaskFrame DEF smVars
<1>4. CASE TimerTask
  <2>1. {"TIMER", "IMPROV_AUTHORIZED_TIMEOUT", "IMPROV_BLE_DISCONNECT"}
          \in SUBSET (Event \ {"WIFI_GOT_IP"})
    BY DEF Event
  <2> QED BY <1>1, <1>2, <1>4, <2>1, TimerFrame DEF smVars
<1>5. CASE EthDriver
  <2>1. {"NET_INIT_SUCCESS", "ETH_LINK_UP", "ETH_LINK_DOWN", "ETH_GOT_IP"}
          \in SUBSET (Event \ {"WIFI_GOT_IP"})
    BY DEF Event
  <2>2. Quits
    BY <1>2, <1>5 DEF EthDriver, EthStarts, EthUp, EthBound, EthAnnounced, EthDown, Leave, Linked,
                      Quits, TypeInv, RestOK, DriversOK
  <2> QED BY <1>1, <1>5, <2>1, <2>2, EthFrame DEF smVars
<1>6. CASE Ble
  <2>1. {"IMPROV_BLE_CONNECT", "IMPROV_BLE_DISCONNECT", "CONNECT_TO_AP", "BUTTON_PRESS"}
          \in SUBSET (Event \ {"WIFI_GOT_IP"})
    BY DEF Event
  <2> QED BY <1>1, <1>2, <1>6, <2>1, BleFrame DEF smVars
<1>7. CASE Restart
  BY <1>7 DEF Restart, Enter, WifiInv, WifiConnectedTrue, Followed
<1>8. CASE UNCHANGED vars
  BY <1>8 DEF vars, eventVars, smVars, wifiVars, WifiInv, WifiConnectedTrue, Followed, Queued
<1> QED BY <1>3, <1>4, <1>5, <1>6, <1>7, <1>8, WifiDispatch, WifiDriverStep DEF Next

\* The state machine believes in a WiFi connection only while there is one or while the
\* news of its end is on the way.  retryActiveWiFiConnection(), a cable that is plugged in
\* and connectWifi() all end connections whose events are still queued, and the address
\* of an old attempt may be handled during a new one: the end is then still to come.
THEOREM WifiBelieved == Spec => []WifiConnectedTrue
<1>1. Init => WifiInv
  BY DEF Init, Booted, WifiInv, WifiConnectedTrue, Followed
<1>2. WifiInv => WifiConnectedTrue
  BY DEF WifiInv
<1> QED BY <1>1, <1>2, WifiStep, Typed, PTL DEF Spec

-----------------------------------------------------------------------------
(* The button                                                               *)

CONNECT    == "IMPROV_BLE_CONNECT"
DISCONNECT == "IMPROV_BLE_DISCONNECT"
BUTTON     == "BUTTON_PRESS"

\* The states in which the state machine lets somebody set credentials, or did.
Trusted == {"IMPROV_AUTHORIZED", "IMPROV_PROVISIONING", "IMPROV_PROVISIONED"}

\* A click handled after a connection it was not meant for has the end of that one behind.
ClickStale ==
  \A i, j \in 1..Len(queue) :
    i < j /\ queue[i] = CONNECT /\ queue[j] = BUTTON
      => \E k \in (i + 1)..Len(queue) : queue[k] = DISCONNECT

LEMMA StaleReceive ==
  ASSUME QueueOK, NEW e, Receive(e), ClickStale
  PROVE  /\ ClickStale'
         /\ e = CONNECT /\ Queued(BUTTON)' => Queued(DISCONNECT)'
<1>1. /\ Len(queue) \in Nat \ {0} /\ Len(queue') = Len(queue) - 1 /\ queue[1] = e
      /\ \A i \in 1..Len(queue') : queue'[i] = queue[i + 1]
  BY Received
<1>2. ASSUME NEW i \in 1..Len(queue), NEW j \in 1..Len(queue), i < j,
             queue[i] = CONNECT, queue[j] = BUTTON
      PROVE  \E k \in i..Len(queue') : queue'[k] = DISCONNECT
  <2>1. PICK k \in (i + 1)..Len(queue) : queue[k] = DISCONNECT
    BY <1>2 DEF ClickStale
  <2>2. k - 1 \in i..Len(queue') /\ queue'[k - 1] = DISCONNECT
    BY <1>1, <2>1
  <2> QED BY <2>2
<1>3. ASSUME NEW i \in 1..Len(queue'), NEW j \in 1..Len(queue'), i < j,
             queue'[i] = CONNECT, queue'[j] = BUTTON
      PROVE  \E k \in (i + 1)..Len(queue') : queue'[k] = DISCONNECT
  <2>1. /\ i + 1 \in 1..Len(queue) /\ queue[i + 1] = CONNECT
        /\ j + 1 \in 1..Len(queue) /\ queue[j + 1] = BUTTON /\ i + 1 < j + 1
    BY <1>1, <1>3
  <2> QED BY <2>1, <1>2
<1>4. ASSUME e = CONNECT, NEW j \in 1..Len(queue'), queue'[j] = BUTTON PROVE Queued(DISCONNECT)'
  <2>1. /\ 1 \in 1..Len(queue) /\ queue[1] = CONNECT
        /\ j + 1 \in 1..Len(queue) /\ queue[j + 1] = BUTTON /\ 1 < j + 1
    BY <1>1, <1>4
  <2>2. PICK k \in 1..Len(queue') : queue'[k] = DISCONNECT
    BY <2>1, <1>2
  <2> QED BY <2>2 DEF Queued
<1>5. ClickStale'
  BY <1>3 DEF ClickStale
<1> QED BY <1>4, <1>5 DEF Queued

LEMMA StalePost ==
  ASSUME QueueOK, NEW e \in Event, e # BUTTON, Post(e), ClickStale
  PROVE  ClickStale'
<1>1. /\ Len(queue) \in Nat /\ Len(queue') = Len(queue) + 1 /\ queue'[Len(queue')] = e
      /\ \A i \in 1..Len(queue) : queue'[i] = queue[i]
  BY Posted DEF QueueOK
<1>2. ASSUME NEW i \in 1..Len(queue'), NEW j \in 1..Len(queue'), i < j,
             queue'[i] = CONNECT, queue'[j] = BUTTON
      PROVE  \E k \in (i + 1)..Len(queue') : queue'[k] = DISCONNECT
  <2>1. i \in 1..Len(queue) /\ queue[i] = CONNECT /\ j \in 1..Len(queue) /\ queue[j] = BUTTON
    BY <1>1, <1>2
  <2>2. PICK k \in (i + 1)..Len(queue) : queue[k] = DISCONNECT
    BY <1>2, <2>1 DEF ClickStale
  <2> QED BY <1>1, <2>2
<1> QED BY <1>2 DEF ClickStale

\* The end of the last connection has been posted.
Gone == conn = "none" /\ ble # DISCONNECT

\* Without a client its events are followed by its end, in the queue and in the state;
\* without a press the same holds of the clicks.
ButtonInv ==
  /\ conn = "none" => ble \in {"idle", "STOPPED", DISCONNECT}
  /\ Gone =>
       /\ Followed(CONNECT, DISCONNECT)
       /\ sm \in Trusted \union {"IMPROV_AWAITING_AUTH"} => Queued(DISCONNECT)
  /\ ~pressed =>
       /\ sm \in Trusted => Queued(DISCONNECT)
       /\ sm = "IMPROV_AWAITING_AUTH" /\ Queued(BUTTON) => Queued(DISCONNECT)
       /\ ClickStale

LEMMA ButtonDispatch ==
  ASSUME TypeInv, ButtonInv, Dispatch
  PROVE  ButtonInv'
<1>1. PICK e : Receive(e) /\ Moves(e)
  BY DispatchMoves
<1>2. UNCHANGED <<conn, ble, pressed>>
  BY DispatchFrame DEF history
<1>3. /\ Queued(DISCONNECT) /\ e # DISCONNECT => Queued(DISCONNECT)'
      /\ Queued(e) /\ (Queued(BUTTON)' => Queued(BUTTON))
  BY <1>1, QueuedReceive DEF TypeInv
<1>4. sm' \in Trusted \union {"IMPROV_AWAITING_AUTH"} =>
        /\ e # DISCONNECT
        /\ \/ sm = "IMPROV_STOPPED" /\ e = CONNECT /\ sm' = "IMPROV_AWAITING_AUTH"
           \/ sm = "IMPROV_AWAITING_AUTH" /\ (e = BUTTON \/ sm' = sm)
           \/ sm \in Trusted
  BY <1>1 DEF Moves, EthMove, WifiMove, ImprovMove, Handled, EthState, WifiState, ImprovStep, Trusted,
              CONNECT, DISCONNECT, BUTTON
<1>5. ASSUME Gone
      PROVE  /\ Followed(CONNECT, DISCONNECT)'
             /\ sm' \in Trusted \union {"IMPROV_AWAITING_AUTH"} => Queued(DISCONNECT)'
  <2>1. Followed(CONNECT, DISCONNECT)' /\ (e = CONNECT => Queued(DISCONNECT)')
    BY <1>1, <1>5, FollowedReceive DEF ButtonInv, TypeInv
  <2> QED BY <1>3, <1>4, <1>5, <2>1 DEF ButtonInv
<1>6. ASSUME ~pressed
      PROVE  /\ sm' \in Trusted => Queued(DISCONNECT)'
             /\ sm' = "IMPROV_AWAITING_AUTH" /\ Queued(BUTTON)' => Queued(DISCONNECT)'
             /\ ClickStale'
  <2>1. ClickStale' /\ (e = CONNECT /\ Queued(BUTTON)' => Queued(DISCONNECT)')
    BY <1>1, <1>6, StaleReceive DEF ButtonInv, TypeInv
  <2>2. sm' \in Trusted => Queued(DISCONNECT)'
    BY <1>3, <1>4, <1>6 DEF ButtonInv, Trusted
  <2>3. sm' = "IMPROV_AWAITING_AUTH" /\ Queued(BUTTON)' => Queued(DISCONNECT)'
    BY <1>3, <1>4, <1>6, <2>1 DEF ButtonInv, Trusted
  <2> QED BY <2>1, <2>2, <2>3
<1> QED BY <1>2, <1>5, <1>6 DEF ButtonInv, Gone

LEMMA ButtonOthers ==
  ASSUME TypeInv, ButtonInv, NEW E \in SUBSET (Event \ {CONNECT, BUTTON}), PostsOneOf(E),
         UNCHANGED <<sm, pressed>>, Gone' => Gone,
         conn' = "none" => ble' \in {"idle", "STOPPED", DISCONNECT}
  PROVE  ButtonInv'
<1>1. CONNECT # DISCONNECT /\ BUTTON \notin E
  BY DEF CONNECT, DISCONNECT
<1>2. Followed(CONNECT, DISCONNECT) => Followed(CONNECT, DISCONNECT)'
  BY <1>1, FollowedPosts DEF TypeInv
<1>3. /\ Queued(DISCONNECT) => Queued(DISCONNECT)'
      /\ Queued(BUTTON)' => Queued(BUTTON)
  BY <1>1, QueuedPosts DEF TypeInv
<1>4. ClickStale => ClickStale'
  <2>1. UNCHANGED queue => (ClickStale => ClickStale')
    BY DEF ClickStale
  <2> QED BY <2>1, StalePost DEF PostsOneOf, TypeInv
<1> QED BY <1>2, <1>3, <1>4 DEF ButtonInv

LEMMA ButtonBle ==
  ASSUME TypeInv, ButtonInv, Ble
  PROVE  ButtonInv'
<1> USE DEF Ble, BleHost
<1>1. UNCHANGED sm
  BY BleFrame DEF smVars
<1>2. {CONNECT, DISCONNECT, BUTTON, "CONNECT_TO_AP"} \subseteq Event /\ CONNECT # DISCONNECT
        /\ CONNECT # BUTTON /\ BUTTON # DISCONNECT
  BY DEF Event, CONNECT, DISCONNECT, BUTTON
<1>3. CASE Connect
  <2>1. Gone /\ conn' = "open" /\ UNCHANGED queue
    BY <1>3 DEF Connect, Gone, DISCONNECT, eventVars
  <2>2. ClickStale
    BY <2>1 DEF ButtonInv, Followed, ClickStale
  <2>3. ClickStale' /\ (Queued(DISCONNECT) => Queued(DISCONNECT)')
    BY <2>1, <2>2 DEF ClickStale, Queued
  <2> QED BY <1>1, <2>1, <2>3 DEF ButtonInv, Gone
<1>4. CASE BlePosts /\ ble = DISCONNECT
  <2>1. Post(DISCONNECT) /\ ble' = "STOPPED" /\ UNCHANGED <<conn, pressed>>
    BY <1>4 DEF BlePosts, DISCONNECT, history
  <2>2. Followed(CONNECT, DISCONNECT)' /\ Queued(DISCONNECT)'
    BY <1>2, <2>1, FollowedPost, QueuedPost DEF TypeInv
  <2>3. ClickStale => ClickStale'
    BY <1>2, <2>1, StalePost DEF TypeInv
  <2> QED BY <2>1, <2>2, <2>3 DEF ButtonInv
<1>5. CASE BlePosts /\ ble = CONNECT
  <2>1. Post(CONNECT) /\ conn # "none" /\ UNCHANGED <<conn, pressed>>
    BY <1>5 DEF BlePosts, CONNECT, DISCONNECT, ButtonInv, history
  <2>2. /\ ClickStale => ClickStale'
        /\ Queued(DISCONNECT) => Queued(DISCONNECT)'
        /\ Queued(BUTTON)' => Queued(BUTTON)
    BY <1>2, <2>1, StalePost, QueuedPost DEF TypeInv
  <2> QED BY <1>1, <2>1, <2>2 DEF ButtonInv, Gone
<1>6. CASE ButtonClick
  <2>1. Post(BUTTON) /\ pressed' = TRUE /\ UNCHANGED <<conn, ble>>
    BY <1>6 DEF ButtonClick, BUTTON
  <2>2. /\ Followed(CONNECT, DISCONNECT) => Followed(CONNECT, DISCONNECT)'
        /\ Queued(DISCONNECT) => Queued(DISCONNECT)'
    BY <1>2, <2>1, FollowedPost, QueuedPost DEF TypeInv
  <2> QED BY <1>1, <2>1, <2>2 DEF ButtonInv, Gone
<1>7. CASE Disconnect \/ Command \/ WifiSettings \/ BleSetsState
             \/ (BlePosts /\ ble \notin {CONNECT, DISCONNECT})
  <2>1. {"CONNECT_TO_AP"} \in SUBSET (Event \ {CONNECT, BUTTON})
    BY DEF Event, CONNECT, BUTTON
  <2>2. PostsOneOf({"CONNECT_TO_AP"}) /\ UNCHANGED pressed
    BY <1>7 DEF Disconnect, Command, WifiSettings, BlePosts, BleSetsState, PostsOneOf, eventVars,
                history, CONNECT, DISCONNECT
  <2>3. (Gone' => Gone) /\ (conn' = "none" => ble' \in {"idle", "STOPPED", DISCONNECT})
    <3>1. conn = "none" => ble \in {"idle", "STOPPED", DISCONNECT}
      BY DEF ButtonInv
    <3> QED BY <1>7, <3>1 DEF Disconnect, Command, WifiSettings, BlePosts, BleSetsState, Gone,
                              ImprovState, DISCONNECT, CONNECT
  <2> QED BY <1>1, <2>1, <2>2, <2>3, ButtonOthers
<1> QED BY <1>3, <1>4, <1>5, <1>6, <1>7

LEMMA ButtonStep == TypeInv /\ ButtonInv /\ [Next]_vars => ButtonInv'
<1> SUFFICES ASSUME TypeInv, ButtonInv, [Next]_vars PROVE ButtonInv'
  OBVIOUS
<1>0. UNCHANGED <<conn, ble>> =>
        (Gone' => Gone) /\ (conn' = "none" => ble' \in {"idle", "STOPPED", DISCONNECT})
  BY DEF Gone, ButtonInv
<1>1. CASE NetworkTask /\ ~Dispatch
  <2>1. OwnEvent \in SUBSET (Event \ {CONNECT, BUTTON})
    BY DEF OwnEvent, Event, CONNECT, BUTTON
  <2> QED BY <1>0, <1>1, <2>1, TaskFrame, ButtonOthers DEF smVars, history
<1>2. CASE TimerTask
  <2>1. {"TIMER", "IMPROV_AUTHORIZED_TIMEOUT", "IMPROV_BLE_DISCONNECT"}
          \in SUBSET (Event \ {CONNECT, BUTTON})
    BY DEF Event, CONNECT, BUTTON
  <2>2. (Gone' => Gone) /\ (conn' = "none" => ble' \in {"idle", "STOPPED", DISCONNECT})
    BY <1>2, TimerFrame DEF Gone, ButtonInv
  <2> QED BY <1>2, <2>1, <2>2, TimerFrame, ButtonOthers DEF smVars
<1>3. CASE WifiDriver
  <2>1. {"CONNECTED", "LOST_CONNECTION", "WIFI_GOT_IP"} \in SUBSET (Event \ {CONNECT, BUTTON})
    BY DEF Event, CONNECT, BUTTON
  <2> QED BY <1>0, <1>3, <2>1, WifiFrame, ButtonOthers DEF smVars, improvVars, history
<1>4. CASE EthDriver
  <2>1. {"NET_INIT_SUCCESS", "ETH_LINK_UP", "ETH_LINK_DOWN", "ETH_GOT_IP"}
          \in SUBSET (Event \ {CONNECT, BUTTON})
    BY DEF Event, CONNECT, BUTTON
  <2> QED BY <1>0, <1>4, <2>1, EthFrame, ButtonOthers DEF smVars, improvVars, history
<1>5. CASE Restart
  BY <1>5 DEF Restart, Enter, ButtonInv, Followed, ClickStale, Trusted
<1>6. CASE UNCHANGED vars
  BY <1>6 DEF vars, eventVars, smVars, improvVars, history, ButtonInv, Gone, Followed, ClickStale,
              Queued
<1> QED BY <1>1, <1>2, <1>3, <1>4, <1>5, <1>6, ButtonDispatch, ButtonBle DEF Next

\* Who is let through to set credentials pressed the button while connected, whatever
\* the order in which clicks, connections and their ends were queued: a click meant for
\* an earlier client is handled before this client is told to be connected, or the end
\* of this connection is already queued.
THEOREM ButtonProtects == Spec => []ButtonAuthorizes
<1>1. Init => ButtonInv
  BY DEF Init, Booted, ImprovInit, ButtonInv, Followed, ClickStale, Trusted
<1>2. ButtonInv => ButtonAuthorizes
  BY DEF ButtonInv, ButtonAuthorizes, Trusted, DISCONNECT
<1> QED BY <1>1, <1>2, ButtonStep, Typed, PTL DEF Spec

-----------------------------------------------------------------------------
(* Starting, and the credentials                                            *)

\* START has a handler in the root state, so that every state would handle it: it is
\* posted once, and nothing comes before it.
StartOnce ==
  \A i, j \in 1..Len(queue) : queue[i] = "START" /\ queue[j] = "START" => i = j

StartInv ==
  /\ todo = <<"START">> => sm = "NETWORK" /\ ~Queued("START")
  /\ Queued("START") => sm \in {"NETWORK", "REBOOT"}
  /\ StartOnce

LEMMA StartReceive ==
  ASSUME QueueOK, NEW e, Receive(e), StartOnce
  PROVE  StartOnce' /\ (e = "START" => ~Queued("START")')
<1>1. /\ Len(queue) \in Nat \ {0} /\ Len(queue') = Len(queue) - 1 /\ queue[1] = e
      /\ \A i \in 1..Len(queue') : queue'[i] = queue[i + 1]
  BY Received
<1>2. ASSUME NEW i \in 1..Len(queue'), queue'[i] = "START"
      PROVE  i + 1 \in 1..Len(queue) /\ queue[i + 1] = "START"
  BY <1>1, <1>2
<1>3. StartOnce'
  <2>1. SUFFICES ASSUME NEW i \in 1..Len(queue'), NEW j \in 1..Len(queue'),
                        queue'[i] = "START", queue'[j] = "START"
                 PROVE  i = j
    BY DEF StartOnce
  <2>2. i + 1 = j + 1
    BY <1>2, <2>1 DEF StartOnce
  <2> QED BY <1>1, <2>2
<1>4. ASSUME e = "START", NEW i \in 1..Len(queue'), queue'[i] = "START" PROVE FALSE
  <2>1. 1 \in 1..Len(queue) /\ queue[1] = "START"
    BY <1>1, <1>4
  <2>2. i + 1 = 1
    BY <1>2, <1>4, <2>1 DEF StartOnce
  <2> QED BY <1>1, <2>2
<1> QED BY <1>3, <1>4 DEF Queued

LEMMA StartPost ==
  ASSUME QueueOK, NEW e \in Event, Post(e), StartOnce, e = "START" => ~Queued("START")
  PROVE  StartOnce'
<1>1. /\ Len(queue) \in Nat /\ Len(queue') = Len(queue) + 1 /\ queue'[Len(queue')] = e
      /\ \A i \in 1..Len(queue) : queue'[i] = queue[i]
  BY Posted DEF QueueOK
<1>2. ASSUME NEW i \in 1..Len(queue'), queue'[i] = "START"
      PROVE  IF e = "START" THEN i = Len(queue') ELSE i \in 1..Len(queue) /\ queue[i] = "START"
  BY <1>1, <1>2 DEF Queued
<1> QED BY <1>2 DEF StartOnce

LEMMA StartStep == TypeInv /\ StartInv /\ [Next]_vars => StartInv'
<1> SUFFICES ASSUME TypeInv, StartInv, [Next]_vars PROVE StartInv'
  OBVIOUS
<1>1. CASE Dispatch
  <2>1. PICK e : Receive(e) /\ Moves(e)
    BY <1>1, DispatchMoves
  <2>2. todo' # <<"START">>
    BY <1>1, DispatchFrame
  <2>3. StartOnce' /\ (e = "START" => ~Queued("START")') /\ (Queued("START")' => Queued("START"))
    BY <2>1, StartReceive, QueuedReceive DEF StartInv, TypeInv
  <2>4. Queued("START")' => sm' \in {"NETWORK", "REBOOT"}
    BY <2>1, <2>3 DEF StartInv, Moves, EthMove, WifiMove, ImprovMove, EthState, WifiState, ImprovStep
  <2> QED BY <2>2, <2>3, <2>4 DEF StartInv
<1>2. ASSUME NEW E \in SUBSET (Event \ {"START"}), PostsOneOf(E), UNCHANGED <<sm, todo>>
      PROVE  StartInv'
  <2>1. Queued("START")' => Queued("START")
    BY <1>2, QueuedPosts DEF TypeInv
  <2>2. StartOnce'
    <3>1. CASE UNCHANGED queue
      BY <3>1 DEF StartInv, StartOnce
    <3>2. ASSUME NEW e \in E, Post(e) PROVE StartOnce'
      BY <3>2, StartPost DEF StartInv, TypeInv
    <3> QED BY <1>2, <3>1, <3>2 DEF PostsOneOf
  <2> QED BY <1>2, <2>1, <2>2 DEF StartInv
<1>3. CASE NetworkTask /\ ~Dispatch
  <2>1. UNCHANGED sm
    BY <1>3, TaskFrame DEF smVars
  <2>2. todo' # <<"START">>
    <3>1. todo' \in {<<>>, <<ARM>>, <<AUTHORIZE>>, <<"REBOOT">>, <<"AUTHORIZED">>,
                      <<"AUTHORIZED", AUTHORIZE>>}
      BY <1>3, TaskFrame, TodoTail, TodoChecks DEF TaskPosts, TaskArms, TaskSets, TypeInv, RestOK
    <3>2. /\ \A e : <<e>>[1] = e
          /\ <<"AUTHORIZED", AUTHORIZE>>[1] = "AUTHORIZED" /\ <<>> # <<"START">>
      OBVIOUS
    <3> QED BY <3>1, <3>2 DEF ARM, AUTHORIZE
  <2>3. CASE TaskPosts /\ Head(todo) = "START"
    <3>1. todo = <<"START">>
      BY <2>3, TodoTail DEF TaskPosts, TypeInv, RestOK
    <3>2. Post("START") /\ "START" \in Event /\ ~Queued("START")
      BY <2>3, <3>1 DEF TaskPosts, StartInv, Event
    <3> QED BY <2>1, <2>2, <3>1, <3>2, StartPost DEF StartInv, TypeInv
  <2>4. CASE TaskPosts /\ Head(todo) # "START"
    <3>1. Head(todo) \in Event /\ Post(Head(todo))
      BY <2>4, TodoTail DEF TaskPosts, TypeInv, RestOK, OwnEvent, Event
    <3>2. StartOnce' /\ (Queued("START")' => Queued("START"))
      BY <2>4, <3>1, StartPost, QueuedPost DEF StartInv, TypeInv
    <3> QED BY <2>1, <2>2, <3>2 DEF StartInv
  <2>5. CASE TaskArms \/ TaskSets \/ TaskChecks(AUTHORIZE) \/ TaskChecks(TIMEOUT)
    BY <2>1, <2>2, <2>5 DEF TaskArms, TaskSets, TaskChecks, StartInv, StartOnce, Queued
  <2> QED BY <1>3, <2>3, <2>4, <2>5, TaskFrame
<1>4. CASE TimerTask
  <2>1. {"TIMER", "IMPROV_AUTHORIZED_TIMEOUT", "IMPROV_BLE_DISCONNECT"} \in SUBSET (Event \ {"START"})
    BY DEF Event
  <2> QED BY <1>2, <1>4, <2>1, TimerFrame DEF smVars
<1>5. CASE WifiDriver
  <2>1. {"CONNECTED", "LOST_CONNECTION", "WIFI_GOT_IP"} \in SUBSET (Event \ {"START"})
    BY DEF Event
  <2> QED BY <1>2, <1>5, <2>1, WifiFrame DEF smVars
<1>6. CASE EthDriver
  <2>1. {"NET_INIT_SUCCESS", "ETH_LINK_UP", "ETH_LINK_DOWN", "ETH_GOT_IP"}
          \in SUBSET (Event \ {"START"})
    BY DEF Event
  <2> QED BY <1>2, <1>6, <2>1, EthFrame DEF smVars
<1>7. CASE Ble
  <2>1. {"IMPROV_BLE_CONNECT", "IMPROV_BLE_DISCONNECT", "CONNECT_TO_AP", "BUTTON_PRESS"}
          \in SUBSET (Event \ {"START"})
    BY DEF Event
  <2> QED BY <1>2, <1>7, <2>1, BleFrame DEF smVars
<1>8. CASE Restart
  BY <1>8 DEF Restart, Enter, StartInv, StartOnce, Queued
<1>9. CASE UNCHANGED vars
  BY <1>9 DEF vars, eventVars, smVars, StartInv, StartOnce, Queued
<1> QED BY <1>1, <1>3, <1>4, <1>5, <1>6, <1>7, <1>8, <1>9 DEF Next

\* A client needs the BLE stack, which is started in Improv, and Improv is left by a
\* restart only.
CredentialsInv ==
  /\ conn # "none" \/ ble # "idle" => started
  /\ CredentialsInImprov

LEMMA CredentialsStep == TypeInv /\ StartInv /\ CredentialsInv /\ [Next]_vars => CredentialsInv'
<1> SUFFICES ASSUME TypeInv, StartInv, CredentialsInv, [Next]_vars PROVE CredentialsInv'
  OBVIOUS
<1>1. CASE Dispatch
  <2>1. PICK e : Receive(e) /\ Moves(e)
    BY <1>1, DispatchMoves
  <2>2. UNCHANGED <<conn, ble>> /\ (started' = started \/ (sm' = "IMPROV_INITIALIZING" /\ started' = TRUE))
    BY <1>1, DispatchFrame
  <2>3. Queued(e) /\ (Queued("CONNECT_TO_AP")' => Queued("CONNECT_TO_AP"))
    BY <2>1, QueuedReceive DEF TypeInv
  <2>4. sm \in ImprovStep \union {"REBOOT"} => sm' \in ImprovStep \union {"REBOOT"}
    BY <2>1, <2>3 DEF StartInv, Moves, EthMove, WifiMove, ImprovMove, EthState, WifiState, ImprovStep
  <2>5. sm' = "IMPROV_INITIALIZING" => sm' \in ImprovStep
    BY DEF ImprovStep
  <2>6. conn # "none" \/ ble # "idle" => started'
    BY <2>2 DEF CredentialsInv
  <2> QED BY <2>2, <2>3, <2>4, <2>5, <2>6 DEF CredentialsInv, CredentialsInImprov
<1>2. ASSUME NEW E \in SUBSET (Event \ {"CONNECT_TO_AP"}), PostsOneOf(E), UNCHANGED <<sm, started>>,
             conn' # "none" => conn # "none", UNCHANGED ble
      PROVE  CredentialsInv'
  <2>1. Queued("CONNECT_TO_AP")' => Queued("CONNECT_TO_AP")
    BY <1>2, QueuedPosts DEF TypeInv
  <2> QED BY <1>2, <2>1 DEF CredentialsInv, CredentialsInImprov
<1>3. CASE NetworkTask /\ ~Dispatch
  <2>1. OwnEvent \in SUBSET (Event \ {"CONNECT_TO_AP"})
    BY DEF OwnEvent, Event
  <2> QED BY <1>2, <1>3, <2>1, TaskFrame DEF smVars, improvVars
<1>4. CASE TimerTask
  <2>1. {"TIMER", "IMPROV_AUTHORIZED_TIMEOUT", "IMPROV_BLE_DISCONNECT"}
          \in SUBSET (Event \ {"CONNECT_TO_AP"})
    BY DEF Event
  <2> QED BY <1>2, <1>4, <2>1, TimerFrame DEF smVars
<1>5. CASE WifiDriver
  <2>1. {"CONNECTED", "LOST_CONNECTION", "WIFI_GOT_IP"} \in SUBSET (Event \ {"CONNECT_TO_AP"})
    BY DEF Event
  <2> QED BY <1>2, <1>5, <2>1, WifiFrame DEF smVars, improvVars
<1>6. CASE EthDriver
  <2>1. {"NET_INIT_SUCCESS", "ETH_LINK_UP", "ETH_LINK_DOWN", "ETH_GOT_IP"}
          \in SUBSET (Event \ {"CONNECT_TO_AP"})
    BY DEF Event
  <2> QED BY <1>2, <1>6, <2>1, EthFrame DEF smVars, improvVars
<1>7. CASE Ble
  <2>1. UNCHANGED <<sm, started>>
    BY <1>7, BleFrame DEF smVars
  <2>2. CASE started
    BY <2>1, <2>2 DEF CredentialsInv, CredentialsInImprov
  <2>3. CASE ~started
    <3>1. conn = "none" /\ ble = "idle"
      BY <2>3 DEF CredentialsInv
    <3>2. PostsOneOf({"BUTTON_PRESS"}) /\ UNCHANGED <<conn, ble>>
      BY <1>7, <2>3, <3>1 DEF Ble, BleHost, Connect, Disconnect, Command, WifiSettings, BlePosts,
                              BleSetsState, ImprovState, ButtonClick, PostsOneOf, eventVars
    <3>3. {"BUTTON_PRESS"} \in SUBSET (Event \ {"CONNECT_TO_AP"})
      BY DEF Event
    <3> QED BY <1>2, <2>1, <3>2, <3>3
  <2> QED BY <2>2, <2>3
<1>8. CASE Restart
  BY <1>8 DEF Restart, Enter, CredentialsInv, CredentialsInImprov, Queued
<1>9. CASE UNCHANGED vars
  BY <1>9 DEF vars, eventVars, smVars, improvVars, CredentialsInv, CredentialsInImprov, Queued
<1> QED BY <1>1, <1>3, <1>4, <1>5, <1>6, <1>7, <1>8, <1>9 DEF Next

\* Credentials arrive in the states of Improv only.  The states that a CONNECT_TO_AP
\* elsewhere would lead to have no timer; the model leaves them out on the strength of
\* this, and the root state's handler of START could otherwise lead out of Improv.
THEOREM CredentialsExpected == Spec => []CredentialsInImprov
<1>1. Init => StartInv /\ CredentialsInv
  BY DEF Init, Booted, ImprovInit, StartInv, StartOnce, CredentialsInv, CredentialsInImprov, Queued
<1>2. CredentialsInv => CredentialsInImprov
  BY DEF CredentialsInv
<1> QED BY <1>1, <1>2, StartStep, CredentialsStep, Typed, PTL DEF Spec

-----------------------------------------------------------------------------
(* The timer                                                                *)

\* The handler that enters WIFI_CONNECTING has yet to start the timer.
Arming == todo # <<>> /\ todo[Len(todo)] = ARM

LEMMA DispatchTimer ==
  ASSUME Dispatch
  PROVE  /\ Arming' => sm' = "WIFI_CONNECTING"
         /\ \/ Arming'
            \/ timer' = Deadline(sm')
            \/ timer' = timer /\ Deadline(sm) = "off" /\ Deadline(sm') = "off"
            \/ timer' = timer /\ Ignored
<1> USE DEF In, Enter
<1> DEFINE Good == /\ Arming' => sm' = "WIFI_CONNECTING"
                   /\ \/ Arming'
                      \/ timer' = Deadline(sm')
                      \/ timer' = timer /\ Deadline(sm) = "off" /\ Deadline(sm') = "off"
<1>1. /\ todo' = <<>> => ~Arming'
      /\ \A e \in OwnEvent : todo' = <<e>> => ~Arming'
      /\ todo' = <<"ETH_FALLBACK", ARM>> => Arming'
      /\ todo' \in ImprovTodo => ~Arming'
  <2>1. \A e \in OwnEvent : e # ARM
    BY DEF OwnEvent, ARM
  <2> QED BY <2>1 DEF Arming, ImprovTodo, ARM, AUTHORIZE, TIMEOUT
<1>2. \A s, t : Wait(s, t) => sm' = s /\ timer' = t /\ ~Arming'
  BY <1>1 DEF Wait, Posts
<1>3. Reboot => Good
  BY <1>1 DEF Reboot, Posts, Deadline
<1>4. EnterEthInitializing \/ EnterWifiInitializing \/ EnterImprov => Good
  BY <1>1 DEF EnterEthInitializing, EnterWifiInitializing, EnterImprov, Posts, Deadline, OwnEvent
<1>5. EnterWifiConnecting => Good
  BY <1>1 DEF EnterWifiConnecting, Posts, Deadline
<1>6. EnterWifiConnected \/ EnterWifiLost => Good
  BY <1>1 DEF EnterWifiConnected, EnterWifiLost, Posts, Deadline
<1>7. /\ EnterProvisioning \/ EnterProvisioned => Good
      /\ EnterAuthorized(<<AUTHORIZE>>) \/ EnterAuthorized(<<TIMEOUT, AUTHORIZE>>) => Good
  BY <1>1 DEF EnterAuthorized, EnterProvisioning, EnterProvisioned, Posts, Deadline, OwnEvent,
              ImprovTodo
<1>8. TryAgain => Good
  BY <1>3, <1>6 DEF TryAgain
<1>9. \A s \in {"IMPROV_STOPPED", "IMPROV_AWAITING_AUTH"} :
        Wait(s, timer) /\ Deadline(sm) = "off" => Good
  BY <1>2 DEF Deadline
<1>10. \A s, t : Wait(s, t) /\ t = Deadline(s) => Good
  BY <1>2
<1>11. CASE NetworkState \/ OnEthAddress
  BY <1>3, <1>4, <1>11 DEF NetworkState, OnEthAddress
<1>12. CASE EthHandler
  <2>1. /\ Deadline("ETH_ACTIVE_LINKUP") = "dhcp" /\ Deadline("ETH_ACTIVE_CONNECTED") = "off"
        /\ Deadline("ETH_ACTIVE_LINKDOWN") = "linkDown" /\ Deadline("ETH_STARTING") = "link"
    BY DEF Deadline
  <2> HIDE DEF Good
  <2> QED BY <1>3, <1>4, <1>10, <1>12, <2>1
          DEF EthHandler, EthActive, EthInitializing, EthStarting, EthLinkDown, Good
<1>13. CASE WifiHandler
  <2>1. Deadline("ETH_ACTIVE_CONNECTED") = "off" /\ Deadline("WIFI_W4_IP") = "dhcp"
    BY DEF Deadline
  <2> QED BY <1>4, <1>5, <1>6, <1>8, <1>10, <1>13, <2>1
          DEF WifiHandler, WifiActive, WifiInitializing, WifiConnecting, WifiW4Ip, WifiConnected,
              WifiLostConnection
<1>14. CASE ImprovHandler
  <2>1. /\ Deadline("IMPROV_STOPPED") = "off" /\ Deadline("IMPROV_INITIALIZING") = "off"
        /\ Deadline("IMPROV_AUTHORIZED") = "off"
    BY DEF Deadline
  <2> QED BY <1>7, <1>9, <1>10, <1>14, <2>1
          DEF ImprovHandler, ImprovActive, ImprovInitializing, ImprovStopped, ImprovAwaitingAuth,
              ImprovAuthorized, ImprovProvisioning
<1>15. CASE Ignored
  BY <1>1, <1>15 DEF Ignored, Receive
<1> QED BY <1>11, <1>12, <1>13, <1>14, <1>15 DEF Dispatch

DeadlineInv ==
  /\ Arming => sm = "WIFI_CONNECTING"
  /\ DeadlineWatched

LEMMA DeadlineDispatch ==
  ASSUME TypeInv, DeadlineInv, Dispatch
  PROVE  DeadlineInv'
<1>1. ~Arming
  BY DispatchMoves DEF Receive, Arming
<1>2. CASE timer' = timer /\ Ignored
  <2>1. PICK e \in Event \ Handled(sm) : Receive(e)
    BY <1>2 DEF Ignored
  <2>2. UNCHANGED <<sm, todo, callback>>
    BY <1>2 DEF Ignored, smVars, Dispatch
  <2>3. Deadline(sm) # "off" => e # "TIMER"
    BY <2>1 DEF Deadline, Handled, EthState, WifiState, ImprovStep
  <2>4. Queued("TIMER") /\ e # "TIMER" => Queued("TIMER")'
    BY <2>1, QueuedReceive DEF TypeInv
  <2> QED BY <1>1, <1>2, <2>2, <2>3, <2>4 DEF DeadlineInv, DeadlineWatched, Arming
<1>3. CASE Arming' \/ timer' = Deadline(sm')
  BY <1>3, DispatchTimer DEF DeadlineInv, DeadlineWatched, Arming
<1>4. CASE timer' = timer /\ Deadline(sm) = "off" /\ Deadline(sm') = "off"
  BY <1>1, <1>4, DispatchTimer DEF DeadlineInv, DeadlineWatched, Arming
<1> QED BY <1>2, <1>3, <1>4, DispatchTimer

LEMMA DeadlineStep == TypeInv /\ DeadlineInv /\ [Next]_vars => DeadlineInv'
<1> SUFFICES ASSUME TypeInv, DeadlineInv, [Next]_vars PROVE DeadlineInv'
  OBVIOUS
<1> USE DEF Arming, DeadlineInv, DeadlineWatched
<1>1. ASSUME NEW E \in SUBSET Event, PostsOneOf(E), UNCHANGED <<sm, todo, timer, callback>>
      PROVE  DeadlineInv'
  <2>1. Queued("TIMER") => Queued("TIMER")'
    BY <1>1, QueuedPosts DEF TypeInv
  <2> QED BY <1>1, <2>1
<1>2. CASE TaskPosts /\ NetworkTask /\ ~Dispatch
  <2>1. UNCHANGED <<sm, timer, callback>>
    BY <1>2, TaskFrame DEF smVars, TaskPosts
  <2>2. IF Arming THEN todo' = <<ARM>> ELSE todo' = <<>>
    <3>1. Head(todo) \in OwnEvent => Head(todo) # ARM
      BY DEF OwnEvent, ARM
    <3> QED BY <1>2, <3>1, TodoTail DEF TaskPosts, TypeInv, RestOK
  <2>3. Queued("TIMER") => Queued("TIMER")'
    <3>1. OwnEvent \in SUBSET Event
      BY DEF OwnEvent, Event
    <3> QED BY <1>2, <3>1, TaskFrame, QueuedPosts DEF TypeInv
  <2>4. CASE Arming
    <3>1. todo' = <<ARM>> /\ Len(todo') = 1
      BY <2>2, <2>4
    <3>2. Arming'
      BY <3>1
    <3> QED BY <2>1, <2>4, <3>2
  <2>5. CASE ~Arming
    BY <2>1, <2>2, <2>3, <2>5
  <2> QED BY <2>4, <2>5
<1>3. CASE TaskArms /\ NetworkTask /\ ~Dispatch
  <2>1. UNCHANGED sm
    BY <1>3, TaskFrame DEF smVars
  <2>2. todo' = <<>> /\ Arming
    BY <1>3, TodoTail DEF TaskArms, TypeInv, RestOK, TodoOK
  <2>3. timer' = Deadline(sm') /\ timer' # "off"
    BY <1>3, <2>1, <2>2 DEF TaskArms, Deadline
  <2> QED BY <2>2, <2>3
<1>4. CASE TimerExpires /\ UNCHANGED sm
  BY <1>4 DEF TimerExpires
<1>5. CASE CallbackPosts /\ UNCHANGED sm
  <2>1. callback \in Event
    BY <1>5 DEF CallbackPosts, Event
  <2>2. (Queued("TIMER") \/ callback = "TIMER") => Queued("TIMER")'
    BY <1>5, <2>1, QueuedPost DEF CallbackPosts, TypeInv
  <2> QED BY <1>5, <2>2 DEF CallbackPosts
<1>6. CASE Timeouts /\ UNCHANGED sm
  BY <1>6 DEF Timeouts, AuthorizedTimeout, Unauthorize, VerifyConnection, Terminate, VerifySetsState,
              Queued
<1>7. CASE WifiDriver
  <2>1. {"CONNECTED", "LOST_CONNECTION", "WIFI_GOT_IP"} \in SUBSET Event
    BY DEF Event
  <2> QED BY <1>1, <1>7, <2>1, WifiFrame DEF smVars
<1>8. CASE EthDriver
  <2>1. {"NET_INIT_SUCCESS", "ETH_LINK_UP", "ETH_LINK_DOWN", "ETH_GOT_IP"} \in SUBSET Event
    BY DEF Event
  <2> QED BY <1>1, <1>8, <2>1, EthFrame DEF smVars
<1>9. CASE Ble
  <2>1. {"IMPROV_BLE_CONNECT", "IMPROV_BLE_DISCONNECT", "CONNECT_TO_AP", "BUTTON_PRESS"}
          \in SUBSET Event
    BY DEF Event
  <2> QED BY <1>1, <1>9, <2>1, BleFrame DEF smVars
<1>10. CASE Restart
  <2>1. sm' = "NETWORK" /\ timer' = "off" /\ todo' = <<"START">>
    BY <1>10 DEF Restart, Enter, Posts
  <2>2. ~Arming'
    BY <2>1 DEF ARM
  <2> QED BY <2>1, <2>2 DEF Deadline
<1>11. CASE UNCHANGED vars
  BY <1>11 DEF vars, eventVars, smVars, Queued
<1>12. CASE (TaskSets \/ TaskChecks(AUTHORIZE) \/ TaskChecks(TIMEOUT)) /\ NetworkTask /\ ~Dispatch
  <2>1. UNCHANGED <<sm, timer, callback, queue>>
    BY <1>12, TaskFrame DEF smVars, TaskSets, TaskChecks
  <2>2. ~Arming
    <3>1. todo \in ImprovTodo
      <4>1. Head(todo) \in {AUTHORIZE, TIMEOUT} \union ImprovState /\ todo # <<>> /\ TodoOK
        BY <1>12 DEF TaskSets, TaskChecks, TypeInv, RestOK
      <4>2. \/ Head(todo) = AUTHORIZE \/ Head(todo) = TIMEOUT
            \/ Head(todo) \in {"AUTHORIZED", "PROVISIONED"}
        BY <4>1, TodoTail
      <4>3. /\ \A x : Head(<<x>>) = x
            /\ Head(<<"ETH_FALLBACK", ARM>>) = "ETH_FALLBACK"
        OBVIOUS
      <4> QED BY <4>1, <4>2, <4>3 DEF TodoOK, OwnEvent, ARM, AUTHORIZE, TIMEOUT
    <3> QED BY <3>1 DEF ImprovTodo, ARM, AUTHORIZE, TIMEOUT
  <2>3. todo' \in {<<>>, <<"REBOOT">>} \union ImprovTodo
    BY <1>12, TodoTail, TodoChecks DEF TaskSets, TypeInv, RestOK, ImprovTodo
  <2>4. ~Arming'
    BY <2>3 DEF ImprovTodo, ARM, AUTHORIZE, TIMEOUT
  <2> QED BY <2>1, <2>2, <2>4 DEF Queued
<1> QED BY <1>2, <1>3, <1>4, <1>5, <1>6, <1>7, <1>8, <1>9, <1>10, <1>11, <1>12, DeadlineDispatch,
           TaskFrame
        DEF Next, TimerTask, smVars

\* No wait of the state machine is left without its timer: every way into a state, also
\* through a choice point, a fallback or a superstate's transition, starts the timer with
\* the period of this state or stops it, and a TIMER event that was already on the way
\* when its timer was stopped never takes the place of the one a state waits for.
THEOREM WaitsAreWatched == Spec => []DeadlineWatched
<1>1. Init => DeadlineInv
  <2>1. <<"START">>[1] # ARM
    BY DEF ARM
  <2> QED BY <2>1 DEF Init, Booted, DeadlineInv, DeadlineWatched, Arming, Deadline
<1>2. DeadlineInv => DeadlineWatched
  BY DEF DeadlineInv
<1> QED BY <1>1, <1>2, DeadlineStep, Typed, PTL DEF Spec

-----------------------------------------------------------------------------
(* After the phone is gone                                                  *)

\* startImprovWifi() is still to be reported.
Reporting == todo \in {<<"NET_INIT_SUCCESS">>, <<"NET_INIT_FAIL">>}

\* What a handler leaves to be done when it enters a state of Improv.
LEMMA DispatchLeaves ==
  ASSUME Dispatch
  PROVE  /\ sm' = "IMPROV_INITIALIZING" => sm = "IMPROV_INITIALIZING" \/ Reporting'
         /\ todo' # <<>> /\ Head(todo') \in ImprovState => todo' = <<"PROVISIONED", "REBOOT">>
<1> USE DEF In, Enter, Posts
<1> DEFINE Good == /\ sm' = "IMPROV_INITIALIZING" => Reporting'
                   /\ todo' # <<>> /\ Head(todo') \in ImprovState
                        => todo' = <<"PROVISIONED", "REBOOT">>
<1>0. /\ \A e : Head(<<e>>) = e
      /\ \A e, f : Head(<<e, f>>) = e
      /\ ImprovState \intersect (OwnEvent \union {ARM, AUTHORIZE, TIMEOUT}) = {}
  BY DEF ImprovState, OwnEvent, ARM, AUTHORIZE, TIMEOUT
<1>1. Reboot => Good
  BY DEF Reboot
<1>2. \A s, t : Wait(s, t) /\ s # "IMPROV_INITIALIZING" => Good
  BY DEF Wait
<1>3. EnterEthInitializing \/ EnterWifiInitializing \/ EnterWifiConnecting \/ EnterWifiConnected
        \/ EnterWifiLost => Good
  <2>1. EnterEthInitializing => sm' # "IMPROV_INITIALIZING" /\ todo' \in {<<>>, <<"NET_INIT_FAIL">>}
    BY DEF EnterEthInitializing
  <2>2. EnterWifiInitializing => /\ sm' # "IMPROV_INITIALIZING"
                                 /\ todo' \in {<<"NET_INIT_SUCCESS">>, <<"CONFIGURE_WIFI">>}
    BY DEF EnterWifiInitializing
  <2>3. EnterWifiConnecting => sm' # "IMPROV_INITIALIZING" /\ todo' \in {<<>>, <<"ETH_FALLBACK", ARM>>}
    BY DEF EnterWifiConnecting
  <2>4. EnterWifiConnected \/ EnterWifiLost => sm' # "IMPROV_INITIALIZING" /\ todo' = <<>>
    BY DEF EnterWifiConnected, EnterWifiLost
  <2>5. todo' \in {<<"NET_INIT_FAIL">>, <<"NET_INIT_SUCCESS">>, <<"CONFIGURE_WIFI">>,
                    <<"ETH_FALLBACK", ARM>>} => Head(todo') \in OwnEvent
    BY <1>0 DEF OwnEvent
  <2> QED BY <1>0, <2>1, <2>2, <2>3, <2>4, <2>5
<1>4. EnterImprov => Good
  BY <1>0 DEF EnterImprov, Reporting, OwnEvent
<1>5. \/ EnterProvisioning \/ EnterProvisioned
      \/ EnterAuthorized(<<AUTHORIZE>>) \/ EnterAuthorized(<<TIMEOUT, AUTHORIZE>>)
     => Good
  <2>1. \/ EnterAuthorized(<<AUTHORIZE>>) \/ EnterAuthorized(<<TIMEOUT, AUTHORIZE>>)
          => sm' # "IMPROV_INITIALIZING" /\ Head(todo') \in {AUTHORIZE, TIMEOUT}
    BY <1>0 DEF EnterAuthorized
  <2>2. EnterProvisioning => /\ sm' # "IMPROV_INITIALIZING"
                             /\ todo' = <<>> \/ Head(todo') \in OwnEvent
    BY <1>0 DEF EnterProvisioning, OwnEvent
  <2>3. EnterProvisioned => sm' # "IMPROV_INITIALIZING" /\ todo' = <<"PROVISIONED", "REBOOT">>
    BY DEF EnterProvisioned
  <2> QED BY <1>0, <2>1, <2>2, <2>3
<1>10. Ignored => UNCHANGED <<sm, todo>> /\ todo = <<>>
  BY DEF Ignored, Receive, smVars
<1> HIDE DEF Good
<1>6. NetworkState \/ OnEthAddress => Good
  BY <1>1, <1>3 DEF NetworkState, OnEthAddress
<1>7. EthHandler => Good
  BY <1>1, <1>2, <1>3 DEF EthHandler, EthActive, EthInitializing, EthStarting, EthLinkDown
<1>8. WifiHandler => Good
  BY <1>1, <1>2, <1>3, <1>4
  DEF WifiHandler, WifiActive, WifiInitializing, WifiConnecting, WifiW4Ip, WifiConnected,
      WifiLostConnection, TryAgain
<1>9. ImprovHandler => Good
  BY <1>2, <1>5
  DEF ImprovHandler, ImprovActive, ImprovInitializing, ImprovStopped, ImprovAwaitingAuth,
      ImprovAuthorized, ImprovProvisioning
<1>11. Good \/ (UNCHANGED <<sm, todo>> /\ todo = <<>>)
  BY <1>6, <1>7, <1>8, <1>9, <1>10 DEF Dispatch
<1> QED BY <1>11 DEF Good

\* PROVISIONED_STATE has been entered: the dock restarts.
Restarting ==
  sm = "REBOOT" \/ Queued("REBOOT") \/ todo \in {<<"REBOOT">>, <<"PROVISIONED", "REBOOT">>}

\* Between two connections: unless the dock is about to restart, only a task that was
\* about to set the state at the last disconnect can have changed it, or is about to.
BetweenClients ==
  /\ status = "STOPPED" \/ (overtaken /\ status \in {"AWAITING_AUTHORIZATION", "AUTHORIZED"})
  /\ Decided => overtaken

RecoverInv ==
  /\ conn = "none" /\ ble = "idle" => Restarting \/ BetweenClients
  /\ status = "AUTHORIZED" => authTimer \/ callback = "unauthorize"
  /\ sm = "IMPROV_INITIALIZING" =>
       Reporting \/ \E e \in {"NET_INIT_SUCCESS", "NET_INIT_FAIL"} : Queued(e)

LEMMA RecoverDispatch ==
  ASSUME TypeInv, RecoverInv, Dispatch
  PROVE  RecoverInv'
<1>1. PICK e : Receive(e) /\ Moves(e)
  BY DispatchMoves
<1>2. UNCHANGED <<callback, conn, ble, status, authTimer, overtaken>> /\ todo = <<>>
  BY <1>1, DispatchFrame DEF Receive, history
<1>3. \A x : Queued(x) /\ x # e => Queued(x)'
  BY <1>1, QueuedReceive DEF TypeInv
<1>4. Restarting => Restarting'
  <2>1. sm = "REBOOT" => sm' = "REBOOT"
    BY <1>1 DEF Moves, EthMove, WifiMove, ImprovMove, EthState, WifiState, ImprovStep
  <2>2. e = "REBOOT" => sm' = "REBOOT"
    <3>1. sm \in StateId
      BY DEF TypeInv, RestOK, SmOK
    <3> QED BY <1>1, <3>1 DEF Moves, EthMove, WifiMove, ImprovMove, Handled, StateId, EthState,
                              WifiState, ImprovStep
  <2>3. todo \notin {<<"REBOOT">>, <<"PROVISIONED", "REBOOT">>}
    BY <1>2
  <2> QED BY <1>3, <2>1, <2>2, <2>3 DEF Restarting
<1>5. Decided' => Decided \/ Restarting'
  BY <1>2, DispatchLeaves DEF Decided, Restarting
<1>6. BetweenClients => BetweenClients' \/ Restarting'
  BY <1>2, <1>5 DEF BetweenClients
<1>7. ASSUME sm' = "IMPROV_INITIALIZING", ~Reporting'
      PROVE  \E x \in {"NET_INIT_SUCCESS", "NET_INIT_FAIL"} : Queued(x)'
  <2>1. sm = "IMPROV_INITIALIZING"
    BY <1>7, DispatchLeaves
  <2>2. e \notin {"NET_INIT_SUCCESS", "NET_INIT_FAIL"}
    BY <1>1, <1>7, <2>1 DEF Moves, EthMove, WifiMove, ImprovMove, Handled, EthState, WifiState,
                            ImprovStep
  <2>3. ~Reporting
    BY <1>2 DEF Reporting
  <2> QED BY <1>3, <2>1, <2>2, <2>3 DEF RecoverInv
<1> QED BY <1>2, <1>4, <1>6, <1>7 DEF RecoverInv

\* The network task goes on with a handler: what it looked at before the disconnect
\* makes it set the state after it.
LEMMA RecoverTask ==
  ASSUME TypeInv, RecoverInv, NetworkTask, ~Dispatch
  PROVE  RecoverInv'
<1>1. UNCHANGED <<callback, conn, ble, overtaken, sm>>
  BY TaskFrame DEF history, smVars
<1>2. TodoOK /\ QueueOK
  BY DEF TypeInv, RestOK
<1>3. CASE TaskPosts
  <2>1. PICK x \in OwnEvent : x = Head(todo) /\ Post(x) /\ x \in Event
    BY <1>2, <1>3, TodoTail DEF TaskPosts, OwnEvent, Event
  <2>2. UNCHANGED <<status, authTimer>>
    <3>1. x \notin ImprovState
      BY DEF OwnEvent, ImprovState
    <3> QED BY <2>1, <3>1, TaskFrame DEF TaskSets
  <2>3. Queued(x)' /\ \A y : Queued(y) => Queued(y)'
    BY <1>2, <2>1, QueuedPost
  <2>4. /\ todo = <<"REBOOT">> => x = "REBOOT"
        /\ todo # <<"PROVISIONED", "REBOOT">>
        /\ Reporting => x \in {"NET_INIT_SUCCESS", "NET_INIT_FAIL"}
    BY <2>1 DEF Reporting, OwnEvent
  <2>5. Restarting => Restarting'
    BY <1>1, <2>3, <2>4 DEF Restarting
  <2>6. sm = "IMPROV_INITIALIZING" => \E e \in {"NET_INIT_SUCCESS", "NET_INIT_FAIL"} : Queued(e)'
    BY <2>3, <2>4 DEF RecoverInv
  <2>7. Decided' => Decided
    <3>1. todo' = <<>> \/ todo' = <<ARM>>
      BY <1>2, <1>3, TodoTail DEF TaskPosts
    <3>2. Head(<<ARM>>) = ARM /\ ARM \notin ImprovState
      BY DEF ARM, ImprovState
    <3> QED BY <1>1, <3>1, <3>2 DEF Decided
  <2> QED BY <1>1, <2>2, <2>5, <2>6, <2>7 DEF RecoverInv, BetweenClients
<1>4. CASE TaskArms
  <2>1. todo = <<ARM>> /\ todo' = <<>> /\ UNCHANGED queue
    BY <1>2, <1>4, TodoTail DEF TaskArms
  <2>2. UNCHANGED <<status, authTimer>>
    <3>1. Head(todo) \notin ImprovState
      BY <2>1 DEF ARM, ImprovState
    <3> QED BY <3>1, TaskFrame DEF TaskSets
  <2>3. todo \notin {<<"REBOOT">>, <<"PROVISIONED", "REBOOT">>} /\ ~Reporting
    BY <2>1 DEF ARM, Reporting
  <2>4. (Restarting => Restarting') /\ (Decided' => Decided)
    BY <1>1, <2>1, <2>3 DEF Restarting, Queued, Decided
  <2> QED BY <1>1, <2>1, <2>2, <2>3, <2>4 DEF RecoverInv, BetweenClients, Queued
<1>5. CASE TaskChecks(AUTHORIZE) \/ TaskChecks(TIMEOUT)
  <2>1. UNCHANGED <<queue, status, authTimer>>
    BY <1>5 DEF TaskChecks, improvVars
  <2>2. Head(todo) \in {AUTHORIZE, TIMEOUT}
    BY <1>5 DEF TaskChecks
  <2>3. todo \notin {<<"REBOOT">>, <<"PROVISIONED", "REBOOT">>} /\ ~Reporting
    BY <2>2 DEF AUTHORIZE, TIMEOUT, Reporting
  <2>4. Restarting => Restarting'
    BY <1>1, <2>1, <2>3 DEF Restarting, Queued
  <2>5. Decided' => Decided \/ status \in {"AWAITING_AUTHORIZATION", "PROVISIONING"}
    <3>1. \/ todo' \in {<<>>, <<AUTHORIZE>>}
          \/ status \in {"AWAITING_AUTHORIZATION", "PROVISIONING"}
      BY <1>2, <1>5, TodoChecks
    <3>2. Head(<<AUTHORIZE>>) = AUTHORIZE /\ AUTHORIZE \notin ImprovState
      BY DEF AUTHORIZE, ImprovState
    <3> QED BY <1>1, <3>1, <3>2 DEF Decided
  <2>6. BetweenClients => BetweenClients'
    BY <1>1, <2>1, <2>5 DEF BetweenClients
  <2> QED BY <1>1, <2>1, <2>3, <2>4, <2>6 DEF RecoverInv, Queued
<1>6. CASE TaskSets
  <2>1. /\ todo # <<>> /\ Head(todo) \in ImprovState /\ todo' = Tail(todo)
        /\ SetState(Head(todo)) /\ UNCHANGED queue
    BY <1>6 DEF TaskSets
  <2>2. Decided
    BY <2>1 DEF Decided
  <2>3. \/ Head(todo) = "AUTHORIZED" /\ Tail(todo) \in {<<>>, <<AUTHORIZE>>}
        \/ todo = <<"PROVISIONED", "REBOOT">> /\ Tail(todo) = <<"REBOOT">>
    BY <1>2, <2>1, TodoTail
  <2>4. CASE Head(todo) = "AUTHORIZED" /\ Tail(todo) \in {<<>>, <<AUTHORIZE>>}
    <3>1. status' = "AUTHORIZED" /\ authTimer' = (authTimer \/ status # "AUTHORIZED")
      BY <2>1, <2>4 DEF SetState
    <3>2. todo \notin {<<"REBOOT">>, <<"PROVISIONED", "REBOOT">>} /\ ~Reporting
      BY <2>4 DEF Reporting
    <3>3. Restarting => Restarting'
      BY <1>1, <2>1, <3>2 DEF Restarting, Queued
    <3>4. BetweenClients => BetweenClients'
      BY <1>1, <2>2, <3>1 DEF BetweenClients
    <3>5. status' = "AUTHORIZED" => authTimer' \/ callback' = "unauthorize"
      BY <1>1, <3>1 DEF RecoverInv
    <3> QED BY <1>1, <2>1, <3>2, <3>3, <3>4, <3>5 DEF RecoverInv, Queued
  <2>5. CASE todo = <<"PROVISIONED", "REBOOT">> /\ Tail(todo) = <<"REBOOT">>
    <3>1. Restarting'
      BY <2>1, <2>5 DEF Restarting
    <3>2. status' = "PROVISIONED" /\ ~Reporting
      BY <2>1, <2>5 DEF SetState, Reporting
    <3> QED BY <1>1, <2>1, <3>1, <3>2 DEF RecoverInv, Queued
  <2> QED BY <2>3, <2>4, <2>5
<1> QED BY <1>3, <1>4, <1>5, <1>6, TaskFrame

LEMMA RecoverTimer ==
  ASSUME TypeInv, RecoverInv, TimerTask
  PROVE  RecoverInv'
<1>1. {"TIMER", "IMPROV_AUTHORIZED_TIMEOUT", "IMPROV_BLE_DISCONNECT"} \in SUBSET Event
  BY DEF Event
<1>2. \A x : Queued(x) => Queued(x)'
  BY <1>1, QueuedPosts, TimerFrame DEF TypeInv
<1>3. UNCHANGED <<todo, sm, ble>> /\ (conn' = "none" => conn = "none")
  BY TimerFrame DEF smVars
<1>4. Restarting => Restarting'
  BY <1>2, <1>3 DEF Restarting
<1>5. sm' = "IMPROV_INITIALIZING" =>
        Reporting' \/ \E e \in {"NET_INIT_SUCCESS", "NET_INIT_FAIL"} : Queued(e)'
  BY <1>2, <1>3 DEF RecoverInv, Reporting
<1>6. BetweenClients => BetweenClients'
  <2>1. CASE VerifySetsState
    <3>1. status' = "STOPPED" /\ (overtaken' <=> Decided) /\ callback' = "none"
      BY <2>1 DEF VerifySetsState, SetForClient, SetState
    <3> QED BY <1>3, <3>1 DEF BetweenClients, Decided
  <2>2. CASE Unauthorize
    <3>1. /\ status' = "AWAITING_AUTHORIZATION" /\ Decided /\ UNCHANGED overtaken
          /\ callback' # "unauthorize"
      BY <2>2 DEF Unauthorize, SetState, Decided, history
    <3> QED BY <1>3, <3>1 DEF BetweenClients, Decided
  <2>3. CASE AuthorizedTimeout
    <3>1. /\ UNCHANGED <<status, overtaken>>
          /\ callback' = "unauthorize" => status = "AUTHORIZED"
      BY <2>3 DEF AuthorizedTimeout, history
    <3> QED BY <1>3, <3>1 DEF BetweenClients, Decided
  <2>4. CASE VerifyConnection \/ Terminate \/ TimerExpires \/ CallbackPosts
    <3>1. UNCHANGED <<status, overtaken>> /\ callback' # "unauthorize"
      BY <2>4, TimerFrame DEF TimerTask, Timeouts, AuthorizedTimeout, Unauthorize, VerifySetsState,
         VerifyConnection, Terminate, TimerExpires, CallbackPosts, improvVars, history
    <3> QED BY <1>3, <3>1 DEF BetweenClients, Decided
  <2> QED BY <2>1, <2>2, <2>3, <2>4 DEF TimerTask, Timeouts
<1>7. status' = "AUTHORIZED" => authTimer' \/ callback' = "unauthorize"
  <2>1. status = "AUTHORIZED" => authTimer \/ callback = "unauthorize"
    BY DEF RecoverInv
  <2> QED BY <2>1 DEF TimerTask, TimerExpires, CallbackPosts, Timeouts, AuthorizedTimeout, Unauthorize,
                      VerifyConnection, Terminate, VerifySetsState, SetForClient, SetState, improvVars
<1> QED BY <1>3, <1>4, <1>5, <1>6, <1>7 DEF RecoverInv

LEMMA RecoverBle ==
  ASSUME TypeInv, ButtonInv, RecoverInv, Ble
  PROVE  RecoverInv'
<1>1. {"IMPROV_BLE_CONNECT", "IMPROV_BLE_DISCONNECT", "CONNECT_TO_AP", "BUTTON_PRESS"} \in SUBSET Event
  BY DEF Event
<1>2. \A x : Queued(x) => Queued(x)'
  BY <1>1, QueuedPosts, BleFrame DEF TypeInv
<1>3. UNCHANGED <<todo, callback, sm>>
  BY BleFrame DEF smVars
<1>4. (Restarting => Restarting') /\ (Decided' <=> Decided)
  BY <1>2, <1>3 DEF Restarting, Decided
<1>5. sm' = "IMPROV_INITIALIZING" =>
        Reporting' \/ \E e \in {"NET_INIT_SUCCESS", "NET_INIT_FAIL"} : Queued(e)'
  BY <1>2, <1>3 DEF RecoverInv, Reporting
<1>6. CASE BleSetsState
  <2>1. SetState(status') /\ UNCHANGED conn
    BY <1>6 DEF BleSetsState, SetForClient, SetState
  <2>2. status' = "AUTHORIZED" => authTimer' \/ callback' = "unauthorize"
    BY <1>3, <2>1 DEF SetState, RecoverInv
  <2>3. ASSUME conn = "none" PROVE BetweenClients'
    <3>1. ble = "STOPPED"
      BY <1>6, <2>3 DEF ButtonInv, BleSetsState, DISCONNECT, ImprovState
    <3>2. status' = "STOPPED" /\ (overtaken' <=> Decided)
      BY <1>6, <3>1 DEF BleSetsState, SetForClient, SetState
    <3> QED BY <1>4, <3>2 DEF BetweenClients
  <2> QED BY <1>5, <2>1, <2>2, <2>3 DEF RecoverInv
<1>7. CASE ~BleSetsState
  <2>1. /\ UNCHANGED <<status, authTimer, overtaken>>
        /\ conn' = "none" /\ ble' = "idle" => conn = "none" /\ ble = "idle"
    BY <1>7 DEF Ble, BleHost, Connect, Disconnect, Command, WifiSettings, BlePosts, ButtonClick, history,
                ImprovTypeOK, ImprovState, TypeInv, RestOK
  <2> QED BY <1>3, <1>4, <1>5, <2>1 DEF RecoverInv, BetweenClients
<1> QED BY <1>6, <1>7

LEMMA RecoverStep == TypeInv /\ ButtonInv /\ RecoverInv /\ [Next]_vars => RecoverInv'
<1> SUFFICES ASSUME TypeInv, ButtonInv, RecoverInv, [Next]_vars PROVE RecoverInv'
  OBVIOUS
<1>1. ASSUME NEW E \in SUBSET Event, PostsOneOf(E),
             UNCHANGED <<todo, callback, improvVars, smVars>>
      PROVE  RecoverInv'
  <2>1. \A x : Queued(x) => Queued(x)'
    BY <1>1, QueuedPosts DEF TypeInv
  <2>2. /\ UNCHANGED <<conn, ble, status, authTimer, overtaken, sm>>
        /\ (Restarting => Restarting') /\ (Decided' <=> Decided) /\ (Reporting => Reporting')
    BY <1>1, <2>1 DEF Restarting, Decided, Reporting, improvVars, history, smVars
  <2> QED BY <1>1, <2>1, <2>2 DEF RecoverInv, BetweenClients
<1>2. CASE WifiDriver
  <2>1. {"CONNECTED", "LOST_CONNECTION", "WIFI_GOT_IP"} \in SUBSET Event
    BY DEF Event
  <2> QED BY <1>1, <1>2, <2>1, WifiFrame
<1>3. CASE EthDriver
  <2>1. {"NET_INIT_SUCCESS", "ETH_LINK_UP", "ETH_LINK_DOWN", "ETH_GOT_IP"} \in SUBSET Event
    BY DEF Event
  <2> QED BY <1>1, <1>3, <2>1, EthFrame
<1>4. CASE Restart
  BY <1>4 DEF Restart, Enter, Posts, RecoverInv, BetweenClients, Decided, ImprovState
<1>5. CASE UNCHANGED vars
  <2>1. PostsOneOf({}) /\ {} \in SUBSET Event
    BY <1>5 DEF vars, eventVars, PostsOneOf
  <2> QED BY <1>1, <1>5, <2>1 DEF vars, eventVars
<1>6. NetworkTask => Dispatch \/ (NetworkTask /\ ~Dispatch)
  OBVIOUS
<1> QED BY <1>2, <1>3, <1>4, <1>5, <1>6, RecoverDispatch, RecoverTask, RecoverTimer, RecoverBle
        DEF Next

\* When the phone is gone and every task is done with it, the state machine waits for
\* the next one, and the state shown over BLE is that of no client; or a task of the dock
\* had looked at that state before the disconnect and set it afterwards, without a lock:
\* then it awaits authorization, or is authorized with the timer running that ends it.
\* Nothing else is left behind, however late each of the three tasks goes on.
THEOREM ImprovRecovers == Spec => []DisconnectRecovers
<1>1. Init => ButtonInv /\ RecoverInv
  BY DEF Init, Booted, ImprovInit, ButtonInv, Followed, ClickStale, Trusted, RecoverInv,
         BetweenClients, Decided, ImprovState
<1>2. ButtonInv /\ RecoverInv => DisconnectRecovers
  <2>1. SUFFICES ASSUME ButtonInv, RecoverInv, Quiet, conn = "none", sm \in ImprovStep
                 PROVE  /\ sm = "IMPROV_STOPPED"
                        /\ \/ status = "STOPPED"
                           \/ overtaken /\ status = "AWAITING_AUTHORIZATION"
                           \/ overtaken /\ status = "AUTHORIZED" /\ authTimer
    BY DEF DisconnectRecovers
  <2>2. \A x : ~Queued(x)
    BY <2>1 DEF Quiet, Queued
  <2>3. sm = "IMPROV_STOPPED"
    <3>1. ~Reporting /\ Gone
      BY <2>1 DEF Quiet, Reporting, Gone, DISCONNECT
    <3> QED BY <2>1, <2>2, <3>1 DEF ButtonInv, RecoverInv, ImprovStep, Trusted
  <2>4. ~Restarting
    BY <2>1, <2>2, <2>3 DEF Quiet, Restarting
  <2>5. BetweenClients /\ (status = "AUTHORIZED" => authTimer)
    BY <2>1, <2>4 DEF Quiet, RecoverInv
  <2> QED BY <2>3, <2>5 DEF BetweenClients
<1> QED BY <1>1, <1>2, ButtonStep, RecoverStep, Typed, PTL DEF Spec

=============================================================================
