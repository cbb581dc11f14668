------------------------------ MODULE WifiMesh ------------------------------
(***************************************************************************)
(* The ESP-WIFI-MESH lights (internal_communication: mesh_main.c,          *)
(* mesh_light.c), all with the same program, built for one of two boards:  *)
(* the ESP32-S3 has an RGB LED, the ESP32 WROOM a plain one, which "on"    *)
(* makes blink and leaves dark.  The mesh stack (external) makes one of    *)
(* the lights the root; the root keeps a registry of the lights it has     *)
(* heard of, publishes their retained status and passes commands on.       *)
(*                                                                         *)
(* Four tasks share the state of a device: the event loop (mesh and IP     *)
(* events), MPTX (heartbeats; on the root also expiry), MPRX (mesh         *)
(* messages) and the MQTT task (connection and commands).  The registry is *)
(* changed under a mutex, but what is published is a snapshot, after the   *)
(* mutex is released: each of the three tasks holds its own.               *)
(***************************************************************************)
EXTENDS OtaClient, FiniteSets

CONSTANTS
    None,
    Rgb,         \* devices on the ESP32-S3 board; the others are on the ESP32 WROOM
    MaxNodes,    \* capacity of the registry (CONFIG_MESH_ROUTE_TABLE_SIZE)
    Upgradable,  \* devices the cloud upgrades
    Best,        \* the device with the best signal of the router
    MaxEffort    \* bound: commands (1), power cuts, lost links and update commands (2)

ASSUME BoardAssumption == Rgb \subseteq Node
ASSUME MaxNodesAssumption == MaxNodes \in Nat \ {0}
ASSUME MaxEffortAssumption == MaxEffort \in Nat

VARIABLES
    role,       \* "off", "idle" (booted), "node" or "root": esp_mesh_is_root
    linked,     \* is_mesh_connected
    rootAddr,   \* s_root_addr, None as long as s_have_root_addr is false
    client,     \* MQTT client: "none" (s_mqtt_client is NULL), "down" or "up"
    session,    \* device that holds the broker's only session of MQTT_CLIENT_ID
    queue,      \* status a disconnected MQTT client keeps for later
    light,      \* s_light_state
    led,        \* the LED is lit (when it has stopped blinking)
    indicated,  \* the LED shows the layer or a lost link, not the last command
    nodes,      \* s_nodes
    inbox,      \* mesh messages on their way to a device
    tx, rx, mq, \* tasks MPTX, MPRX and MQTT
    retained,   \* retained status of each light
    gateway,    \* retained status of the gateway: [online, root]
    upgraded,   \* version of the last success reported about each device, or 0
    effort      \* counts what happens to the mesh from outside

meshVars == <<role, linked, rootAddr, client, session, queue, light, led, indicated,
              nodes, inbox, tx, rx, mq, retained, gateway, upgraded, effort>>
vars == <<meshVars, otaVars>>

Entry == [online : BOOLEAN, on : BOOLEAN, isRoot : BOOLEAN, old : BOOLEAN]
Snapshot == [id : Node, online : BOOLEAN, on : BOOLEAN]
Message ==
    [type : {"status"}, from : Node, on : BOOLEAN]
    \cup [type : {"ctl"}, on : BOOLEAN]
    \cup [type : {"ota"}, fw : Version]
    \cup [type : {"success"}, from : Node, fw : Version]

At(pc) == [pc |-> pc, snap |-> None, on |-> FALSE]
Idle == At("idle")
Task(pcs) == [pc : pcs, snap : Snapshot \cup {None}, on : BOOLEAN]

TypeOK ==
    /\ OtaTypeOK
    /\ role \in [Node -> {"off", "idle", "node", "root"}]
    /\ linked \in [Node -> BOOLEAN]
    /\ rootAddr \in [Node -> Node \cup {None}]
    /\ client \in [Node -> {"none", "down", "up"}]
    /\ session \in Node \cup {None}
    /\ queue \in [Node -> Snapshot \cup {None}]
    /\ light \in [Node -> BOOLEAN] /\ led \in [Node -> BOOLEAN]
    /\ indicated \in [Node -> BOOLEAN]
    /\ nodes \in [Node -> [Node -> Entry \cup {None}]]
    /\ inbox \in [Node -> SUBSET Message]
    /\ tx \in [Node -> Task({"idle", "self", "expire", "expired", "gateway"})]
    /\ rx \in [Node -> Task({"idle", "apply", "report"})]
    /\ mq \in [Node -> Task({"idle", "connected", "apply", "self"})]
    /\ retained \in [Node -> [online : BOOLEAN, on : BOOLEAN] \cup {None}]
    /\ gateway \in [online : BOOLEAN, root : Node \cup {None}]
    /\ upgraded \in [Node -> 0..MaxVersion]
    /\ effort \in 0..MaxEffort

Init ==
    /\ OtaInit
    /\ role = [d \in Node |-> "idle"]
    /\ linked = [d \in Node |-> FALSE]
    /\ rootAddr = [d \in Node |-> None]
    /\ client = [d \in Node |-> "none"]
    /\ session = None
    /\ queue = [d \in Node |-> None]
    /\ light = [d \in Node |-> FALSE]
    /\ led = [d \in Node |-> FALSE]
    /\ indicated = [d \in Node |-> FALSE]
    /\ nodes = [d \in Node |-> [n \in Node |-> None]]
    /\ inbox = [d \in Node |-> {}]
    /\ tx = [d \in Node |-> Idle]
    /\ rx = [d \in Node |-> Idle]
    /\ mq = [d \in Node |-> Idle]
    /\ retained = [n \in Node |-> None]
    /\ gateway = [online |-> FALSE, root |-> None]
    /\ upgraded = [n \in Node |-> 0]
    /\ effort = 0

-----------------------------------------------------------------------------
(* Who reaches whom *)

Spend(n) == effort + n <= MaxEffort /\ effort' = effort + n

OnMesh(d) == role[d] \in {"node", "root"} /\ linked[d]

\* Only the root has an address of the router's network.
Online(d) == client[d] = "up" /\ session = d /\ role[d] = "root" /\ linked[d]

\* esp_mesh_send: what is sent to a device outside the mesh is lost, with an error that
\* is only logged.
Sent(to, m) == inbox' = IF OnMesh(to) THEN [inbox EXCEPT ![to] = inbox[to] \cup {m}]
                                      ELSE inbox

\* What the disconnected client publishes is kept (bound: the last one, and only by the
\* client of a root: another one cannot connect before it has expired) or expires.
PublishNodeStatus(d, s) ==
    IF Online(d) /\ s # None
    THEN /\ retained' = [retained EXCEPT ![s.id] = [online |-> s.online, on |-> s.on]]
         /\ UNCHANGED queue
    ELSE /\ queue' \in IF client[d] # "none" /\ role[d] = "root" /\ s # None
                      THEN {queue, [queue EXCEPT ![d] = s]} ELSE {queue}
         /\ UNCHANGED retained

PublishGatewayStatus(d) ==
    gateway' = IF Online(d) THEN [online |-> TRUE, root |-> d] ELSE gateway

\* The last will, and the broker's session of the device that had it.
Will == gateway' = IF session = None THEN gateway ELSE [online |-> FALSE, root |-> session]

-----------------------------------------------------------------------------
(* The registry *)

Used(r) == {n \in Node : nodes[r][n] # None}

\* node_find_by_id_locked
Registered(r, n) == n \in Used(r)

\* node_find_or_add_locked: entries are never removed
HasRoom(r, n) == Registered(r, n) \/ Cardinality(Used(r)) < MaxNodes

\* Variant with a bug: the time of the report is not recorded.
HeardSilently(r, n, on) ==
    nodes' = [nodes EXCEPT ![r][n] =
                [online |-> TRUE, on |-> on, isRoot |-> FALSE,
                 old |-> nodes[r][n] # None /\ nodes[r][n].old]]

\* The entry of a light that has reported.
Heard(r, n, on) ==
    nodes' = [nodes EXCEPT ![r][n] =
                [online |-> TRUE, on |-> on, isRoot |-> FALSE, old |-> FALSE]]

\* root_refresh_self under the mutex: the new registry ...
RefreshedSelf(d, on) ==
    IF HasRoom(d, d)
    THEN [nodes EXCEPT ![d][d] = [online |-> TRUE, on |-> on, isRoot |-> TRUE, old |-> FALSE]]
    ELSE nodes

\* ... and what is to be published afterwards.
SelfSnapshot(d, on) ==
    IF HasRoom(d, d) THEN [id |-> d, online |-> TRUE, on |-> on] ELSE None

\* The entries root_expire_stale_nodes marks: silent for 30 s, and not the root's own.
Expired(r) == {n \in Used(r) : /\ nodes[r][n].online /\ nodes[r][n].old
                               /\ ~nodes[r][n].isRoot}

\* Variant with a bug: the entry is marked but not kept for publication.
ExpiredSnapshotLost(n, on) == None

ExpiredSnapshot(n, on) == [id |-> n, online |-> FALSE, on |-> on]

-----------------------------------------------------------------------------
(* Reports of the update client: mesh_ota_status_callback. The reports of progress and of
   failure are left out. *)

\* The root publishes its own success; a node sends it to the root it knows, if it
\* knows one. Otherwise the report is dropped.
ReportSuccess(d, v) ==
    IF role[d] = "root"
    THEN /\ upgraded' = IF Online(d) THEN [upgraded EXCEPT ![d] = v] ELSE upgraded
         /\ UNCHANGED inbox
    ELSE /\ IF OnMesh(d) /\ rootAddr[d] # None
            THEN Sent(rootAddr[d], [type |-> "success", from |-> d, fw |-> v])
            ELSE UNCHANGED inbox
         /\ UNCHANGED upgraded

\* The messages in flight after mesh_ota_confirm_running on a node that knows the root e.
ConfirmReport(d, e, box) ==
    IF OtaConfirms(d) /\ e # None /\ OnMesh(e)
    THEN [box EXCEPT ![e] = box[e] \cup
            {[type |-> "success", from |-> d, fw |-> saved[d]]}]
    ELSE box

\* The task of the update client.
OtaTask(d) ==
    /\ role[d] # "off"
    /\ OtaFail(d) \/ OtaFinish(d) \/ OtaSave(d)
    /\ UNCHANGED meshVars

\* The record of a reported success is erased.
ClearSuccess(d) ==
    /\ role[d] # "off"
    /\ OtaClear(d)
    /\ UNCHANGED meshVars

-----------------------------------------------------------------------------
(* Power *)

\* What a device loses with its RAM, and the messages on their way to it.
Reset(d, r) ==
    /\ role' = [role EXCEPT ![d] = r]
    /\ linked' = [linked EXCEPT ![d] = FALSE]
    /\ rootAddr' = [rootAddr EXCEPT ![d] = None]
    /\ client' = [client EXCEPT ![d] = "none"]
    /\ queue' = [queue EXCEPT ![d] = None]
    /\ light' = [light EXCEPT ![d] = FALSE]
    /\ led' = [led EXCEPT ![d] = FALSE]
    /\ indicated' = [indicated EXCEPT ![d] = FALSE]
    /\ nodes' = [nodes EXCEPT ![d] = [n \in Node |-> None]]
    /\ inbox' = [inbox EXCEPT ![d] = {}]
    /\ tx' = [tx EXCEPT ![d] = Idle]
    /\ rx' = [rx EXCEPT ![d] = Idle]
    /\ mq' = [mq EXCEPT ![d] = Idle]
    /\ OtaBoot(d)
    /\ UNCHANGED <<session, retained, gateway, upgraded>>

\* A power cut, at any time (bound: one during an update costs nothing).
PowerOff(d) ==
    /\ role[d] # "off"
    /\ Spend(IF ota[d].pc # "none" \/ clearing[d] THEN 0 ELSE 2)
    /\ Reset(d, "off")

PowerOn(d) ==
    /\ role[d] = "off"
    /\ Reset(d, "idle")
    /\ UNCHANGED effort

\* esp_restart of the update client
OtaRestart(d) ==
    /\ role[d] # "off"
    /\ ota[d].pc = "restart"
    /\ Reset(d, "idle")
    /\ UNCHANGED effort

-----------------------------------------------------------------------------
(* Event loop: mesh_event_handler and ip_event_handler *)

\* What an indicator or a command leaves of the LED: the colour of the layer lasts on the
\* ESP32-S3; on the WROOM mesh_connected_indicator blinks once for each layer and ends with
\* level 0.
Lit(d, on) == on /\ d \in Rgb

\* mesh_connected_indicator and mesh_disconnected_indicator, which ends dark on both boards
Indicate(d, connected) ==
    /\ led' = [led EXCEPT ![d] = Lit(d, connected)]
    /\ indicated' = [indicated EXCEPT ![d] = TRUE]

\* No task stands still between two statements for the seconds an election takes (at most
\* 2.6 for blinking), and packets of the old topology do not arrive in the new one. The record of a success is
\* erased before the handler that reported it ends.
Settled(d) == rx[d].pc # "apply" /\ mq[d].pc # "apply" /\ ~clearing[d]

\* MESH_EVENT_PARENT_CONNECTED: as the root, if there is none and no better candidate has
\* power, or below a root.
ParentConnected(d) ==
    /\ role[d] # "off" /\ ~linked[d] /\ Settled(d)
    /\ \E r \in {"root", "node"} :
         /\ \/ /\ r = "root" /\ \A e \in Node \ {d} : role[e] # "root"
               /\ d = Best \/ role[Best] # "idle"
            \/ r = "node" /\ \E e \in Node \ {d} : role[e] = "root" /\ linked[e]
         /\ role' = [role EXCEPT ![d] = r]
         /\ linked' = [linked EXCEPT ![d] = TRUE]
         /\ Indicate(d, TRUE)
         /\ inbox' = LET box == [inbox EXCEPT ![d] = {}]
                     IN IF r = "node" THEN ConfirmReport(d, rootAddr[d], box) ELSE box
         /\ IF r = "node" THEN OtaConfirm(d) ELSE UNCHANGED otaVars
    /\ UNCHANGED <<rootAddr, client, session, queue, light, nodes, tx, rx, mq, retained,
                   gateway, upgraded, effort>>

\* MESH_EVENT_ROOT_ADDRESS. The root gets it too, but never uses its own address.
RootAddress(d) ==
    /\ role[d] = "node" /\ linked[d] /\ ~clearing[d]
    /\ \E e \in Node :
         /\ role[e] = "root" /\ linked[e] /\ rootAddr[d] # e
         /\ rootAddr' = [rootAddr EXCEPT ![d] = e]
         /\ inbox' = ConfirmReport(d, e, inbox)
         /\ OtaConfirm(d)
    /\ UNCHANGED <<role, linked, client, session, queue, light, led, indicated, nodes,
                   tx, rx, mq, retained, gateway, upgraded, effort>>

\* The client is created once; MQTT_CLIENT_ID is the same on every device.
MqttAppStart(d) ==
    /\ role[d] = "root" /\ client[d] = "none"
    /\ client' = [client EXCEPT ![d] = "down"]

\* mqtt_app_stop waits for the handler that runs and destroys the client. Its farewell
\* reaches the broker, or the broker keeps the session until it times out.
MqttAppStop(d) ==
    /\ mq[d].pc = "idle"
    /\ client' = [client EXCEPT ![d] = "none"]
    /\ queue' = [queue EXCEPT ![d] = None]
    /\ session' \in IF session = d THEN {d, None} ELSE {session}

\* A node without a root cannot stay connected.
Orphan(d) == role[d] = "node" /\ linked[d] /\ \A e \in Node : role[e] # "root"

\* MESH_EVENT_PARENT_DISCONNECTED
ParentDisconnected(d) ==
    /\ OnMesh(d)
    /\ IF Orphan(d) THEN UNCHANGED effort ELSE Spend(2)
    /\ linked' = [linked EXCEPT ![d] = FALSE]
    /\ Indicate(d, FALSE)
    /\ inbox' = [inbox EXCEPT ![d] = {}]
    /\ IF role[d] = "root" /\ client[d] # "none"
       THEN MqttAppStop(d)
       ELSE UNCHANGED <<client, queue, session>>
    /\ UNCHANGED <<role, rootAddr, light, nodes, tx, rx, mq, retained, gateway, upgraded,
                   otaVars>>

\* The stack makes e the root in place of d: both get MESH_EVENT_LAYER_CHANGE. The
\* client of d stays.
RootSwitch(d, e) ==
    /\ Spend(2)
    /\ role[d] = "root" /\ linked[d] /\ role[e] = "node" /\ linked[e]
    /\ Settled(d) /\ Settled(e)
    /\ role' = [role EXCEPT ![d] = "node", ![e] = "root"]
    /\ led' = [led EXCEPT ![d] = Lit(d, TRUE), ![e] = Lit(e, TRUE)]
    /\ indicated' = [indicated EXCEPT ![d] = TRUE, ![e] = TRUE]
    /\ inbox' = [inbox EXCEPT ![d] = {}, ![e] = {}]
    /\ queue' = [queue EXCEPT ![d] = None]
    /\ UNCHANGED <<linked, rootAddr, client, session, light, nodes, tx, rx, mq, retained,
                    gateway, upgraded, otaVars>>

\* IP_EVENT_STA_GOT_IP: mqtt_app_start
GotIp(d) ==
    /\ linked[d]
    /\ MqttAppStart(d)
    /\ UNCHANGED <<role, linked, rootAddr, session, queue, light, led, indicated, nodes,
                   inbox, tx, rx, mq, retained, gateway, upgraded, effort, otaVars>>

-----------------------------------------------------------------------------
(* MQTT task: mqtt_event_handler *)

\* The client connects (or reconnects by itself): the broker drops the session the same
\* client id had before, with its last will. MQTT_EVENT_CONNECTED refreshes the root's
\* own entry ...
MqttConnected(d) ==
    /\ role[d] = "root" /\ linked[d] /\ client[d] # "none" /\ ~Online(d)
    /\ mq[d].pc = "idle"
    /\ Will
    /\ session' = d
    /\ client' = [client EXCEPT ![d] = "up"]
    /\ nodes' = RefreshedSelf(d, light[d])
    /\ mq' = [mq EXCEPT ![d] = [pc |-> "connected", snap |-> SelfSnapshot(d, light[d]),
                               on |-> FALSE]]
    /\ UNCHANGED <<role, linked, rootAddr, queue, light, led, indicated, inbox, tx, rx,
                   retained, upgraded, effort, otaVars>>

\* ... publishes it and the gateway's status and confirms the running image.
MqttConnectedPublish(d) ==
    /\ mq[d].pc = "connected"
    /\ mq' = [mq EXCEPT ![d] = Idle]
    /\ PublishNodeStatus(d, mq[d].snap)
    /\ PublishGatewayStatus(d)
    /\ OtaConfirm(d)
    /\ IF OtaConfirms(d) THEN ReportSuccess(d, saved[d])
                         ELSE UNCHANGED <<inbox, upgraded>>
    /\ UNCHANGED <<role, linked, rootAddr, client, session, light, led, indicated, nodes,
                   tx, rx, effort>>

\* The broker gives the session up: the device is gone, or the connection breaks.
SessionLost ==
    /\ session # None
    /\ IF Online(session) THEN Spend(2) ELSE UNCHANGED effort
    /\ Will
    /\ session' = None
    /\ client' = IF client[session] = "up" THEN [client EXCEPT ![session] = "down"]
                                           ELSE client
    /\ UNCHANGED <<role, linked, rootAddr, queue, light, led, indicated, nodes, inbox, tx,
                   rx, mq, retained, upgraded, otaVars>>

\* What the client kept is sent after it has reconnected, or it has expired.
Flush(d) ==
    /\ queue[d] # None
    /\ \/ Online(d) /\ PublishNodeStatus(d, queue[d])
       \/ UNCHANGED <<retained>>
    /\ queue' = [queue EXCEPT ![d] = None]
    /\ UNCHANGED <<role, linked, rootAddr, client, session, light, led, indicated, nodes,
                   inbox, tx, rx, mq, gateway, upgraded, effort, otaVars>>

\* Commands arrive only at the root, one at a time.
CommandArrives(d, n) == Online(d) /\ mq[d].pc = "idle" /\ Spend(n)

\* mesh_light_process: the LED first; s_light_state follows in the same task. "On" is
\* mesh_connected_indicator; mesh_light_set is called only for "off".
SetLed(d, on) ==
    /\ led' = [led EXCEPT ![d] = Lit(d, on)]
    /\ indicated' = [indicated EXCEPT ![d] = FALSE]

\* Variant with a bug: the root also sends the command to itself.
BroadcastTargetsAll(d) == {e \in Node : OnMesh(e)}

\* The routing table without the root's own entry.
BroadcastTargets(d) == {e \in Node \ {d} : OnMesh(e)}

\* Group command: to every light, and to the root's own one.
BroadcastCommand(d, on) ==
    /\ CommandArrives(d, 1)
    /\ inbox' = [e \in Node |->
                    IF e \in BroadcastTargets(d)
                    THEN inbox[e] \cup {[type |-> "ctl", on |-> on]}
                    ELSE inbox[e]]
    /\ SetLed(d, on)
    /\ mq' = [mq EXCEPT ![d] = [pc |-> "apply", snap |-> None, on |-> on]]
    /\ UNCHANGED <<role, linked, rootAddr, client, session, queue, light, nodes, tx, rx,
                   retained, gateway, upgraded, otaVars>>

\* Command for one light: the root's own one, one in the registry (its entry changes at
\* once, the next heartbeat will confirm), or one it does not know.
NodeCommand(d, n, on) ==
    /\ CommandArrives(d, 1)
    /\ IF n = d
       THEN /\ SetLed(d, on)
            /\ mq' = [mq EXCEPT ![d] = [pc |-> "apply", snap |-> None, on |-> on]]
            /\ UNCHANGED <<nodes, inbox>>
       ELSE /\ IF Registered(d, n)
               THEN /\ nodes' = [nodes EXCEPT ![d][n].on = on]
                    /\ Sent(n, [type |-> "ctl", on |-> on])
               ELSE UNCHANGED <<nodes, inbox>>
            /\ UNCHANGED <<led, indicated, mq>>
    /\ UNCHANGED <<role, linked, rootAddr, client, session, queue, light, tx, rx,
                   retained, gateway, upgraded, otaVars>>

\* The rest of a command for the root's own light: s_light_state, and its entry.
MqttApply(d) ==
    /\ mq[d].pc = "apply"
    /\ light' = [light EXCEPT ![d] = mq[d].on]
    /\ nodes' = RefreshedSelf(d, mq[d].on)
    /\ mq' = [mq EXCEPT ![d] = [pc |-> "self", snap |-> SelfSnapshot(d, mq[d].on),
                               on |-> FALSE]]
    /\ UNCHANGED <<role, linked, rootAddr, client, session, queue, led, indicated, inbox,
                   tx, rx, retained, gateway, upgraded, effort, otaVars>>

MqttPublish(d) ==
    /\ mq[d].pc = "self"
    /\ mq' = [mq EXCEPT ![d] = Idle]
    /\ PublishNodeStatus(d, mq[d].snap)
    /\ UNCHANGED <<role, linked, rootAddr, client, session, light, led, indicated, nodes,
                   inbox, tx, rx, gateway, upgraded, effort, otaVars>>

\* Update command: the root updates itself or passes the command on to a light it knows.
OtaCommand(d, n, v) ==
    /\ CommandArrives(d, 2)
    /\ IF n = d
       THEN OtaStart(d, v) /\ UNCHANGED inbox
       ELSE /\ IF Registered(d, n) THEN Sent(n, [type |-> "ota", fw |-> v])
                                   ELSE UNCHANGED inbox
            /\ UNCHANGED otaVars
    /\ UNCHANGED <<role, linked, rootAddr, client, session, queue, light, led, indicated,
                   nodes, tx, rx, mq, retained, gateway, upgraded>>

-----------------------------------------------------------------------------
(* MPTX: esp_mesh_p2p_tx_main *)

\* send_status_upstream: the light as it is now, to the root the device knows.
StatusUpstream(d, on) ==
    IF role[d] = "node" /\ linked[d] /\ rootAddr[d] # None
    THEN Sent(rootAddr[d], [type |-> "status", from |-> d, on |-> on])
    ELSE UNCHANGED inbox

\* A node reports (bound: when its last report has arrived); the root begins with its own
\* entry ...
TxTick(d) ==
    /\ tx[d].pc = "idle"
    /\ \/ /\ role[d] = "root"
          /\ nodes' = RefreshedSelf(d, light[d])
          /\ tx' = [tx EXCEPT ![d] = [pc |-> "self", snap |-> SelfSnapshot(d, light[d]),
                                     on |-> FALSE]]
          /\ UNCHANGED inbox
       \/ /\ role[d] = "node"
          /\ \A e \in Node : \A m \in inbox[e] : m.type = "status" => m.from # d
          /\ StatusUpstream(d, light[d])
          /\ UNCHANGED <<nodes, tx>>
    /\ UNCHANGED <<role, linked, rootAddr, client, session, queue, light, led, indicated,
                   rx, mq, retained, gateway, upgraded, effort, otaVars>>

\* ... publishes it, and later each entry that has expired ...
TxPublish(d) ==
    /\ tx[d].pc \in {"self", "expired"}
    /\ PublishNodeStatus(d, tx[d].snap)
    /\ tx' = [tx EXCEPT ![d] = At("expire")]
    /\ UNCHANGED <<role, linked, rootAddr, client, session, light, led, indicated, nodes,
                   inbox, rx, mq, gateway, upgraded, effort, otaVars>>

TxExpire(d) ==
    /\ tx[d].pc = "expire"
    /\ \/ \E n \in Expired(d) :
             /\ nodes' = [nodes EXCEPT ![d][n].online = FALSE]
             /\ tx' = [tx EXCEPT ![d] =
                          [pc |-> "expired", snap |-> ExpiredSnapshot(n, nodes[d][n].on),
                           on |-> FALSE]]
       \/ /\ Expired(d) = {}
          /\ tx' = [tx EXCEPT ![d] = At("gateway")]
          /\ UNCHANGED nodes
    /\ UNCHANGED <<role, linked, rootAddr, client, session, queue, light, led, indicated,
                   inbox, rx, mq, retained, gateway, upgraded, effort, otaVars>>

\* ... and ends with the status of the gateway.
TxGateway(d) ==
    /\ tx[d].pc = "gateway"
    /\ PublishGatewayStatus(d)
    /\ tx' = [tx EXCEPT ![d] = Idle]
    /\ UNCHANGED <<role, linked, rootAddr, client, session, queue, light, led, indicated,
                   nodes, inbox, rx, mq, retained, upgraded, effort, otaVars>>

\* Thirty seconds have passed since the last report: no node that reports every eight
\* seconds is that silent (the blocking calls of a publication end within ten). Bound: the
\* registry of a former root is left as it was.
Age(r, n) ==
    /\ role[r] = "root" /\ n # r
    /\ nodes[r][n] # None /\ ~nodes[r][n].old
    /\ ~(role[n] = "node" /\ linked[n] /\ rootAddr[n] = r /\ OnMesh(r))
    /\ \A m \in inbox[r] : m.type = "status" => m.from # n
    /\ nodes' = [nodes EXCEPT ![r][n].old = TRUE]
    /\ UNCHANGED <<role, linked, rootAddr, client, session, queue, light, led, indicated,
                   inbox, tx, rx, mq, retained, gateway, upgraded, effort,
                   otaVars>>

-----------------------------------------------------------------------------
(* MPRX: esp_mesh_p2p_rx_main *)

Taken(d, m) == inbox' = [inbox EXCEPT ![d] = inbox[d] \ {m}]

\* A status counts only at the root, and only if the registry has room.
RxStatus(d, m) ==
    /\ m.type = "status"
    /\ Taken(d, m)
    /\ IF role[d] = "root" /\ HasRoom(d, m.from)
       THEN /\ Heard(d, m.from, m.on)
            /\ rx' = [rx EXCEPT ![d] =
                         [pc |-> "report", on |-> FALSE,
                          snap |-> [id |-> m.from, online |-> TRUE, on |-> m.on]]]
       ELSE UNCHANGED <<nodes, rx>>
    /\ UNCHANGED <<led, indicated, upgraded, otaVars>>

RxCtl(d, m) ==
    /\ m.type = "ctl"
    /\ Taken(d, m)
    /\ SetLed(d, m.on)
    /\ rx' = [rx EXCEPT ![d] = [pc |-> "apply", snap |-> None, on |-> m.on]]
    /\ UNCHANGED <<nodes, upgraded, otaVars>>

\* Only a node acts on an update command from the mesh. The stack has told it the address of
\* the root before the first command of that root, which has yet to connect to the broker.
RxOta(d, m) ==
    /\ m.type = "ota"
    /\ role[d] = "node" => rootAddr[d] # None
    /\ Taken(d, m)
    /\ IF role[d] # "root" THEN OtaStart(d, m.fw) ELSE UNCHANGED otaVars
    /\ UNCHANGED <<nodes, rx, led, indicated, upgraded>>

RxSuccess(d, m) ==
    /\ m.type = "success"
    /\ Taken(d, m)
    /\ upgraded' = IF Online(d) THEN [upgraded EXCEPT ![m.from] = m.fw] ELSE upgraded
    /\ UNCHANGED <<nodes, rx, led, indicated, otaVars>>

Receive(d, m) ==
    /\ OnMesh(d) /\ rx[d].pc = "idle"
    /\ RxStatus(d, m) \/ RxCtl(d, m) \/ RxOta(d, m) \/ RxSuccess(d, m)
    /\ UNCHANGED <<role, linked, rootAddr, client, session, queue, light, tx, mq,
                   retained, gateway, effort>>

\* The status of a node, published after the mutex has been released.
RxPublish(d) ==
    /\ rx[d].pc = "report"
    /\ PublishNodeStatus(d, rx[d].snap)
    /\ rx' = [rx EXCEPT ![d] = Idle]
    /\ UNCHANGED <<role, linked, rootAddr, client, session, light, led, indicated, nodes,
                   inbox, tx, mq, gateway, upgraded, effort, otaVars>>

\* The rest of a light control message: s_light_state, and the report.
RxApply(d) ==
    /\ rx[d].pc = "apply"
    /\ light' = [light EXCEPT ![d] = rx[d].on]
    /\ StatusUpstream(d, rx[d].on)
    /\ rx' = [rx EXCEPT ![d] = Idle]
    /\ UNCHANGED <<role, linked, rootAddr, client, session, queue, led, indicated, nodes,
                   tx, mq, retained, gateway, upgraded, effort, otaVars>>

-----------------------------------------------------------------------------
Next ==
    \/ \E d \in Node :
         \/ OtaTask(d) \/ ClearSuccess(d)
         \/ PowerOff(d) \/ PowerOn(d) \/ OtaRestart(d)
         \/ ParentConnected(d) \/ RootAddress(d) \/ ParentDisconnected(d)
         \/ \E e \in Node : RootSwitch(d, e)
         \/ GotIp(d) \/ MqttConnected(d) \/ MqttConnectedPublish(d) \/ Flush(d)
         \/ \E on \in BOOLEAN : BroadcastCommand(d, on)
         \/ \E n \in Node, on \in BOOLEAN : NodeCommand(d, n, on)
         \/ \E n \in Upgradable, v \in Version \ {1} : OtaCommand(d, n, v)
         \/ MqttApply(d) \/ MqttPublish(d)
         \/ TxTick(d) \/ TxPublish(d) \/ TxExpire(d) \/ TxGateway(d)
         \/ \E n \in Node : Age(d, n)
         \/ \E m \in inbox[d] : Receive(d, m)
         \/ RxPublish(d) \/ RxApply(d)
    \/ SessionLost

\* Each task of a device runs: one WF for each, since a task takes its steps in order. No
\* message waits for ever while heartbeats are received, as the stack's queue is FIFO. Time
\* passes, and the mesh stack connects and informs its devices. No power cut, switch of the
\* root or command has to happen, and no light has to be switched on again.
Fairness ==
    \A d \in Node :
        /\ WF_vars(TxTick(d) \/ TxPublish(d) \/ TxExpire(d) \/ TxGateway(d))
        /\ WF_vars((\E m \in inbox[d] : Receive(d, m)) \/ RxPublish(d) \/ RxApply(d))
        /\ SF_vars(\E m \in inbox[d] : m.type # "status" /\ Receive(d, m))
        /\ WF_vars(\/ MqttConnected(d) \/ MqttConnectedPublish(d) \/ MqttApply(d)
                   \/ MqttPublish(d) \/ Flush(d))
        /\ WF_vars(OtaTask(d) \/ ClearSuccess(d) \/ OtaRestart(d))
        /\ WF_vars(\/ ParentConnected(d) \/ RootAddress(d) \/ GotIp(d)
                   \/ Orphan(d) /\ ParentDisconnected(d))
        /\ WF_vars(\E n \in Node : Age(d, n))

Spec == Init /\ [][Next]_vars /\ Fairness

-----------------------------------------------------------------------------
(* Properties *)

\* The LED of d shows the state d reports, except between the two statements that change
\* them, and after an indication of the mesh layer or of a lost link, which the program
\* shows on the same LED.
ShowsState(d) ==
    role[d] # "off" /\ ~indicated[d] /\ rx[d].pc # "apply" /\ mq[d].pc # "apply"
        => led[d] = light[d]

\* On the ESP32-S3 the LED agrees with what the light reports: commands of MQTT and of the
\* mesh, carried out by two tasks with no lock over LED and state, never leave them
\* different.  (Not so on the ESP32 WROOM, where the LED is dark after "on".)
LedAgrees == \A d \in Rgb : ShowsState(d)

\* What a step may write, send or let the cloud know about a success.
TrueReports ==
    \A d \in Node :
        /\ saved'[d] # saved[d] /\ saved'[d] # 0 => saved'[d] = boot[d]
        /\ \A e \in Node : \A m \in inbox'[e] \ inbox[e] :
             m.type = "success" /\ m.from = d => m.fw = boot[d]
        /\ upgraded'[d] # upgraded[d] =>
             \/ upgraded'[d] = boot[d]
             \/ \E e \in Node :
                  [type |-> "success", from |-> d, fw |-> upgraded'[d]] \in inbox[e]

\* A success is never claimed for an image that did not get through: the record that is
\* written and every report that is sent name the image the next boot starts, and the cloud
\* learns of no other success than the one of the root or one that was sent. (A link that
\* returns in the second before the restart makes the old image report: too early, but no
\* boot goes back.)
SuccessIsTrue == [][TrueReports]_vars

\* A light that is switched off while the connected root takes it for present is published
\* as absent, unless the root loses its connection first.
SilentGoesOffline ==
    \A r, n \in Node :
        r # n =>
        (Online(r) /\ nodes[r][n] # None /\ nodes[r][n].online /\ role[n] = "off")
            ~> (\/ retained[n] # None /\ ~retained[n].online
                \/ ~Online(r) \/ role[n] # "off")

\* Whatever was published in the wrong order, by a former root or by its last will: the
\* retained status of every light of a stable mesh is in the end the state of the light, and
\* that of the gateway names the root.
StatusCatchesUp ==
    \A r, n \in Node :
        <>[](Online(r) /\ OnMesh(n) /\ HasRoom(r, n))
            => <>[](/\ retained[n] = [online |-> TRUE, on |-> light[n]]
                    /\ gateway = [online |-> TRUE, root |-> r])
=============================================================================
