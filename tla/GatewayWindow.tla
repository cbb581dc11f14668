--------------------------- MODULE GatewayWindow ---------------------------
(***************************************************************************)
(* The gateway with its Wi-Fi side: the provisioning window, in which the  *)
(* mesh does not listen (gateway_wifi_task and farmely_mesh_yield_radio),  *)
(* the second recovery that ends it, the station and the MQTT session.     *)
(* s_mqtt_connected (connected) is cleared by the Wi-Fi event of a lost    *)
(* station too, and set only by a new session: lwIP, as it is configured   *)
(* by default, drops the client's connection when the address is lost.     *)
(* The portal's HTTP and DNS servers touch no state of the gateway: they   *)
(* live as long as wifiTask is in the window.  Group commands, new lights  *)
(* and requests lost for other reasons than the window: see MeshGateway.   *)
(***************************************************************************)
EXTENDS MeshGateway

CONSTANT MaxOutages  \* bound: times the station or the MQTT session is lost

ASSUME WindowAssumption == MaxOutages \in Nat

VARIABLES
    wifiTask,      \* gateway_wifi_task: "start", "open", "wait", "resume", "done", "failed"
    radio,         \* the mesh listens: the provisioner's bearers are enabled
    missed,        \* requests answered while the mesh did not listen
    credentials,   \* Wi-Fi credentials are stored
    autoconnect,   \* s_wifi_autoconnect
    station,       \* the station has an address
    session,       \* MQTT client: "off" (not started), "down" or "up"
    recoverAgain,  \* next slot of the second mesh_recover, 0 if it is not running
    outages

wifiVars == <<wifiTask, radio, credentials, autoconnect, station, session, outages>>
windowVars == <<vars, wifiVars, missed, recoverAgain>>

WindowTypeOK ==
    /\ TypeOK
    /\ wifiTask \in {"start", "open", "wait", "resume", "done", "failed"}
    /\ {radio, credentials, autoconnect, station} \subseteq BOOLEAN
    /\ missed \subseteq tx
    /\ session \in {"off", "down", "up"}
    /\ recoverAgain \in 0..NumNodes
    /\ outages \in 0..MaxOutages

-----------------------------------------------------------------------------
(* gateway_wifi_task *)

\* The manager is started: the window opens, or the station connects with the
\* stored credentials.
StartWifi ==
    /\ wifiTask = "start"
    /\ \/ /\ wifiTask' = IF credentials THEN "done" ELSE "open"
          /\ autoconnect' = credentials
          /\ UNCHANGED faults
       \/ /\ CanFail("manager") /\ faults' = faults + 1
          /\ wifiTask' = "failed"
          /\ UNCHANGED autoconnect
    /\ UNCHANGED <<gatewayVars, btc, tx, device, mqttVars, taskVars, missed, recoverAgain,
                   radio, credentials, station, session, outages>>

\* farmely_mesh_yield_radio(true): a failure to disable the bearers is only logged.
OpenWindow ==
    /\ wifiTask = "open" /\ wifiTask' = "wait"
    /\ \/ radio' = FALSE /\ UNCHANGED faults
       \/ CanFail("radio") /\ faults' = faults + 1 /\ UNCHANGED radio
    /\ UNCHANGED <<gatewayVars, btc, tx, device, mqttVars, taskVars, missed, recoverAgain,
                   credentials, autoconnect, station, session, outages>>

\* IP_EVENT_STA_GOT_IP: mqtt_start starts the client once.
GotIp ==
    /\ station' = TRUE /\ autoconnect' = TRUE
    /\ session' = IF session = "off" THEN "down" ELSE session

\* The App hands over the credentials of a network that works: the manager
\* stores them and joins, with the window still open.
Credentials ==
    /\ wifiTask = "wait" /\ ~credentials /\ credentials' = TRUE
    /\ GotIp
    /\ UNCHANGED <<vars, missed, recoverAgain, wifiTask, radio, outages>>

\* network_prov_mgr_wait returns
CloseWindow ==
    /\ wifiTask = "wait" /\ credentials /\ wifiTask' = "resume"
    /\ UNCHANGED <<vars, missed, recoverAgain, radio, credentials, autoconnect, station,
                   session, outages>>

\* Variant with a bug: the mesh listens again, and nobody asks the lights.
ResumeOnly == radio' = TRUE /\ UNCHANGED <<recoverAgain, faults>>

\* farmely_mesh_yield_radio(false): the mesh listens again and a second
\* mesh_recover is started; each of the two may fail.
Resumed ==
    \/ radio' = TRUE /\ recoverAgain' = 1 /\ UNCHANGED faults
    \/ /\ CanFail("recover") /\ faults' = faults + 1
       /\ radio' = TRUE /\ UNCHANGED recoverAgain
    \/ /\ CanFail("radio") /\ faults' = faults + 1
       /\ UNCHANGED <<radio, recoverAgain>>

Resume ==
    /\ wifiTask = "resume" /\ wifiTask' = "done"
    /\ Resumed
    /\ UNCHANGED <<gatewayVars, btc, tx, device, mqttVars, taskVars, missed,
                   credentials, autoconnect, station, session, outages>>

-----------------------------------------------------------------------------
(* The station and the MQTT session *)

\* The station joins the access point, after STA_START or after it was lost.
Join ==
    /\ autoconnect /\ credentials /\ ~station
    /\ GotIp
    /\ UNCHANGED <<vars, missed, recoverAgain, wifiTask, radio, credentials, outages>>

StationLost ==
    /\ station /\ outages < MaxOutages
    /\ outages' = outages + 1
    /\ station' = FALSE /\ connected' = FALSE
    /\ UNCHANGED <<gatewayVars, btc, tx, device, mqtt, acks, budget, taskVars, faults, missed,
                   recoverAgain, wifiTask, radio, credentials, autoconnect>>

\* Variant with a bug: lwIP keeps the connection (it can be configured to), so that the
\* session survives a short outage and no new one sets the flag again.
LoseStationOnly == StationLost /\ UNCHANGED session

\* WIFI_EVENT_STA_DISCONNECTED, in the event loop's task. lwIP drops the connection of the
\* MQTT client, which notices when it is used next, and opens a new one.
LoseStation == StationLost /\ session' = IF session = "up" THEN "down" ELSE session

\* MQTT_EVENT_CONNECTED
OpenSession ==
    /\ station /\ session = "down" /\ session' = "up"
    /\ Connect
    /\ UNCHANGED <<missed, recoverAgain, wifiTask, radio, credentials, autoconnect, station, outages>>

\* MQTT_EVENT_DISCONNECTED: the broker is gone, or the keep-alive ends the session.
LoseSession ==
    /\ outages < MaxOutages /\ outages' = outages + 1
    /\ mqtt.pc = "idle" /\ session = "up" /\ session' = "down"
    /\ connected' = FALSE
    /\ UNCHANGED <<gatewayVars, btc, tx, device, mqtt, acks, budget, taskVars, faults, missed,
                   recoverAgain, wifiTask, radio, credentials, autoconnect, station>>

Receive ==
    /\ session = "up" /\ station
    /\ \E i \in Slot, on \in 0..1 : DispatchCommand(i, on)
    /\ UNCHANGED <<wifiVars, missed, recoverAgain>>

-----------------------------------------------------------------------------
(* The mesh *)

\* A light obeys, and nobody hears its answer.
AnswerUnheard(r) ==
    /\ ~radio /\ r \in tx \ missed /\ Hears(r)
    /\ Obey(r)
    /\ missed' = missed \cup {r}
    /\ UNCHANGED <<gatewayVars, btc, tx, mqttVars, taskVars, faults, wifiVars, recoverAgain>>

\* A request whose answer was missed, or that is lost in the window, times out.
TimeOutUnheard(r) ==
    /\ r \in tx /\ (~radio \/ r \in missed)
    /\ tx' = tx \ {r} /\ missed' = missed \ {r}
    /\ btc' = Append(btc, Event("timeout", r, 0))
    /\ UNCHANGED <<gatewayVars, device, mqttVars, taskVars, faults, wifiVars, recoverAgain>>

Heard(r) ==
    /\ radio /\ r \notin missed /\ Answer(r)
    /\ UNCHANGED <<wifiVars, missed, recoverAgain>>

EndRequest == \E r \in tx : AnswerUnheard(r) \/ TimeOutUnheard(r) \/ Heard(r)

\* The second mesh_recover runs the code of the first.
RecoverAgain ==
    /\ recoverAgain # 0
    /\ RecoverNode(recoverAgain)
    /\ recoverAgain' = NextSlot(recoverAgain)
    /\ UNCHANGED <<recoverAt, wifiVars, missed>>

-----------------------------------------------------------------------------
\* A restart; prov_button_task erases the credentials before it.
WindowRestart ==
    /\ Restart
    /\ credentials' \in {credentials, FALSE}
    /\ wifiTask' = "start" /\ radio' = TRUE /\ missed' = {}
    /\ autoconnect' = FALSE /\ station' = FALSE /\ session' = "off"
    /\ recoverAgain' = 0
    /\ UNCHANGED outages

WindowInit ==
    /\ GatewayInit
    /\ device \in {[d EXCEPT ![1].light = v] : d \in {Lights}, v \in 0..1}
    /\ credentials \in BOOLEAN
    /\ wifiTask = "start" /\ radio = TRUE /\ missed = {}
    /\ autoconnect = FALSE /\ station = FALSE /\ session = "off"
    /\ recoverAgain = 0 /\ outages = 0

WifiTask == StartWifi \/ OpenWindow \/ CloseWindow \/ Resume
GatewayStep(A) == A /\ UNCHANGED <<wifiVars, missed, recoverAgain>>

WindowNext ==
    \/ WifiTask \/ Credentials \/ Join \/ LoseStation \/ OpenSession \/ LoseSession
    \/ Receive
    \/ EndRequest
    \/ RecoverAgain
    \/ GatewayStep(MqttTask) \/ GatewayStep(BtcTask) \/ GatewayStep(RecoverStep)
    \/ WindowRestart

WindowSpec == WindowInit /\ [][WindowNext]_windowVars

\* As for the gateway alone; the Wi-Fi task waits for the App as long as it takes,
\* and the station and the MQTT client try again by themselves.
WindowFairness ==
    /\ WF_windowVars(GatewayStep(MqttTask))
    /\ WF_windowVars(GatewayStep(BtcTask))
    /\ WF_windowVars(\E r \in tx : TimeOutUnheard(r) \/ Heard(r))
    /\ WF_windowVars(WifiTask)
    /\ WF_windowVars(Join)
    /\ WF_windowVars(OpenSession)

FairWindowSpec == WindowSpec /\ WindowFairness

-----------------------------------------------------------------------------
(* Properties: NoOrphan too, for a command that the window catches, or the two   *)
(* recoveries, whose requests its own are refused for.                           *)

\* What a light did while the gateway was off, and what the boot recovery and the
\* sync missed in the window, is known in the end: when nothing else went wrong and
\* all work is done, the table agrees with the lights, without any command.
WindowRecovered ==
    Quiescent /\ recoverAgain = 0 /\ wifiTask = "done" /\ faults = 0 /\ budget.cmds = 0 =>
        \A i \in Slot : Provisioned(i) => nodes[i].onoff = device[i].light

\* "Keeps local control during a short outage of the Wi-Fi and sends the latest state
\* when it is over" (docs/MESH_HARDWARE_INTEGRATION_PLAN.md): as long as the station has
\* credentials and is told to use them, every outage ends with a gateway that publishes,
\* although two handlers of two tasks clear the flag and only one sets it.
PublishesAgain == <>[](credentials /\ autoconnect) => <>[]connected
=============================================================================
