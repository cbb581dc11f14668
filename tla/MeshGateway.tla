---------------------------- MODULE MeshGateway ----------------------------
(***************************************************************************)
(* The BLE Mesh gateway (esp_ble_mesh/provisioner/main/main.c and the      *)
(* MQTT half of gateway_bridge.c): a table of provisioned lights, one      *)
(* pending command per light, a configuration sequence for new lights, a   *)
(* recovery sequence for stored ones, and the retries of both.             *)
(*                                                                         *)
(* Three kinds of tasks share this state without a lock:                   *)
(*   - the MQTT task, which runs the commands and the sync after a         *)
(*     (re)connection: one variable, mqtt, is its program counter;         *)
(*   - the BTC task of the Bluetooth host, which drains one FIFO queue,    *)
(*     btc, of client calls and of client events; a callback is one step;  *)
(*   - the tasks the gateway spawns: one mesh_group_sync per group command *)
(*     and mesh_recover.                                                   *)
(* The client models of ESP-IDF and the lights are external: a request is  *)
(* outstanding in tx until it is answered or times out, and a client model *)
(* refuses a second request to a destination it still waits for.           *)
(*                                                                         *)
(* An address is a pair <<slot, incarnation>>: the provisioner gives a     *)
(* device a fresh unicast address each time it is provisioned, and         *)
(* nodes[i].unicast keeps the incarnation (0: ADDR_UNASSIGNED).            *)
(* Left out because nothing reads them back: the progress record in NVS    *)
(* (farmely_store_progress), s_status_version and s_tid.                   *)
(***************************************************************************)
EXTENDS Naturals, Sequences

CONSTANTS NumNodes,     \* CONFIG_BLE_MESH_MAX_PROV_NODES
          MaxRetries,   \* FARMELY_MAX_RETRIES
          Paired,       \* slots restored from NVS as provisioned and configured
          Booting,      \* TRUE: start at boot; FALSE: recovery done and broker connected
          Faults,       \* which of "loss", "post", "send", "refuse", "task" may happen
          MaxFaults,    \* bound: failures of the kinds in Faults
          MaxCommands,  \* bound: commands the cloud sends
          MaxConnects,  \* bound: MQTT_EVENT_CONNECTED events
          MaxAddr,      \* bound: times one device is provisioned
          MaxRestarts   \* bound: restarts of the gateway

Slot == 1..NumNodes
CmdId == 1..MaxCommands
NoMsg == 0
Unassigned == 0

ASSUME GatewayAssumption ==
    /\ NumNodes \in Nat \ {0}
    /\ MaxRetries \in Nat
    /\ Paired \subseteq Slot
    /\ Booting \in BOOLEAN
    /\ MaxFaults \in Nat
    /\ MaxCommands \in Nat
    /\ MaxConnects \in Nat
    /\ MaxAddr \in Nat \ {0}
    /\ MaxRestarts \in Nat

VARIABLES
    nodes,       \* nodes[i]: [unicast, onoff]; also its copy in NVS, written with it
    pending,     \* s_pending[i]: [inFlight, desired, retries, mid]
    getRetries,  \* s_get_retries
    cfgRetries,  \* s_config_retries
    toggle,      \* s_toggle_after_get_addr
    btc,         \* queue of the BTC task: calls to the client models, and their events
    tx,          \* requests the client models have sent and not seen answered
    device,      \* the lights: [addr, light, bound, subscribed]
    mqtt,        \* MQTT task: [pc, at, on, mid]
    connected,   \* s_mqtt_connected
    syncAt,      \* syncAt[c]: next slot of the mesh_group_sync task of command c, 0 if none
    recoverAt,   \* next slot of mesh_recover, 0 if it is not running
    acks,        \* acks[c][i]: acknowledgements of command c published for light i
    budget,      \* [cmds, connects, restarts] used so far
    faults       \* failures so far

gatewayVars == <<nodes, pending, getRetries, cfgRetries, toggle>>
mqttVars == <<mqtt, connected, acks, budget>>
taskVars == <<syncAt, recoverAt>>
vars == <<gatewayVars, btc, tx, device, mqttVars, taskVars, faults>>

CfgOps == {"comp", "key", "bind", "sub"}
Ops == CfgOps \cup {"get", "set", "group"}
Kinds == {"call", "status", "refused", "timeout", "error", "prov"}
Item == [kind : Kinds, op : Ops, node : Slot, addr : 0..MaxAddr, on : 0..1]
Pending == [inFlight : BOOLEAN, desired : 0..1, retries : 0..MaxRetries, mid : 0..MaxCommands]
NoPending == [inFlight |-> FALSE, desired |-> 0, retries |-> 0, mid |-> NoMsg]
Idle == [pc |-> "idle", at |-> 0, on |-> 0, mid |-> NoMsg]

Node == [unicast : 0..MaxAddr, onoff : 0..1]
Device == [addr : 0..MaxAddr, light : 0..1, bound : BOOLEAN, subscribed : BOOLEAN]
Mqtt == [pc : {"idle", "mark", "post", "gmark", "gtask", "gpost", "sync"},
         at : 0..NumNodes, on : 0..1, mid : 0..MaxCommands]
Budget == [cmds : 0..MaxCommands, connects : 0..MaxConnects, restarts : 0..MaxRestarts]

TypeOK ==
    /\ nodes \in [Slot -> Node]
    /\ pending \in [Slot -> Pending]
    /\ getRetries \in [Slot -> 0..MaxRetries]
    /\ cfgRetries \in [Slot -> 0..MaxRetries]
    /\ toggle \in (0..NumNodes) \X (0..MaxAddr)
    /\ btc \in Seq(Item)
    /\ tx \in SUBSET Item
    /\ device \in [Slot -> Device]
    /\ mqtt \in Mqtt
    /\ connected \in BOOLEAN
    /\ syncAt \in [CmdId -> 0..NumNodes]
    /\ recoverAt \in 0..NumNodes
    /\ acks \in [CmdId -> [Slot -> Nat]]
    /\ budget \in Budget
    /\ faults \in 0..MaxFaults

-----------------------------------------------------------------------------
(* Posting to the BTC task *)

Provisioned(i) == nodes[i].unicast # Unassigned
Call(o, i, v) == [kind |-> "call", op |-> o, node |-> i, addr |-> nodes[i].unicast, on |-> v]
Event(k, r, v) == [kind |-> k, op |-> r.op, node |-> r.node, addr |-> r.addr, on |-> v]

CanFail(k) == k \in Faults /\ faults < MaxFaults

\* What a part of a handler may leave behind: a pending entry and posted calls.
Outcome(p, calls, failures) == [p |-> p, posts |-> calls, failed |-> failures]
Keep(p) == {Outcome(p, <<>>, 0)}

\* The call is queued, or posting fails and the caller's error path (fallback) runs.
Posting(p, call, fallback) ==
    {Outcome(p, <<call>>, 0)}
        \cup (IF CanFail("post") THEN {Outcome(fallback, <<>>, 1)} ELSE {})

\* Variant with a bug: no farmely_clear_pending on error.
RequestOnOffNoClear(i, p) == Posting(p, Call("set", i, p.desired), p)

\* farmely_send_onoff_request and the callers' farmely_clear_pending on error
RequestOnOff(i, p) == Posting(p, Call("set", i, p.desired), NoPending)

\* farmely_send_onoff on the pending entry p of light i, run inside a callback
SendOnOff(i, p, on, id) ==
    IF p.inFlight THEN Keep(p)
    ELSE RequestOnOff(i, [p EXCEPT !.inFlight = TRUE, !.desired = on, !.mid = id])

\* A post whose error the caller only logs.
PostOrLog(queue, call) ==
    \/ btc' = Append(queue, call) /\ UNCHANGED faults
    \/ CanFail("post") /\ btc' = queue /\ faults' = faults + 1

\* The outcome becomes light i's pending entry; its calls join the queue.
Commit(i, queue, out) ==
    /\ pending' = [pending EXCEPT ![i] = out.p]
    /\ btc' = queue \o out.posts
    /\ faults' = faults + out.failed

\* Variant with a bug: a loop over the node table that runs one slot too far.
NextSlotOver(i) == IF i <= NumNodes THEN i + 1 ELSE 0

\* The next slot of a loop over the node table, 0 after the last one.
NextSlot(i) == IF i < NumNodes THEN i + 1 ELSE 0

-----------------------------------------------------------------------------
(* The MQTT task: commands *)

\* Variant with a bug: no in-flight protection.
AcceptsBusy(i) == Provisioned(i)

\* dispatch_command and farmely_bridge_command for one light; a command for a
\* light that is unknown or busy is rejected, which is only logged.
Accepts(i) == Provisioned(i) /\ ~pending[i].inFlight

DispatchCommand(i, on) ==
    /\ mqtt.pc = "idle"
    /\ budget.cmds < MaxCommands
    /\ budget' = [budget EXCEPT !.cmds = @ + 1]
    /\ mqtt' = IF Accepts(i)
               THEN [pc |-> "mark", at |-> i, on |-> on, mid |-> budget.cmds + 1]
               ELSE Idle
    /\ UNCHANGED <<gatewayVars, btc, tx, device, connected, acks, taskVars, faults>>

ReceiveCommand(i, on) == connected /\ DispatchCommand(i, on)

\* farmely_send_onoff, after its check of in_flight
MarkPending ==
    /\ mqtt.pc = "mark"
    /\ pending' = [pending EXCEPT ![mqtt.at].inFlight = TRUE,
                                  ![mqtt.at].desired = mqtt.on,
                                  ![mqtt.at].mid = mqtt.mid]
    /\ mqtt' = [mqtt EXCEPT !.pc = "post"]
    /\ UNCHANGED <<nodes, getRetries, cfgRetries, toggle, btc, tx, device,
                   connected, acks, budget, taskVars, faults>>

PostCommand ==
    /\ mqtt.pc = "post"
    /\ \E out \in Posting(pending[mqtt.at], Call("set", mqtt.at, mqtt.on), NoPending) :
         Commit(mqtt.at, btc, out)
    /\ mqtt' = Idle
    /\ UNCHANGED <<nodes, getRetries, cfgRetries, toggle, tx, device,
                   connected, acks, budget, taskVars>>

\* farmely_send_group_onoff: the loop that looks for a busy light
DispatchGroup(on) ==
    /\ mqtt.pc = "idle"
    /\ budget.cmds < MaxCommands
    /\ budget' = [budget EXCEPT !.cmds = @ + 1]
    /\ mqtt' = IF /\ \E i \in Slot : Provisioned(i)
                  /\ \A i \in Slot : Provisioned(i) => ~pending[i].inFlight
               THEN [pc |-> "gmark", at |-> 0, on |-> on, mid |-> budget.cmds + 1]
               ELSE Idle
    /\ UNCHANGED <<gatewayVars, btc, tx, device, connected, acks, taskVars, faults>>

ReceiveGroup(on) == connected /\ DispatchGroup(on)

\* ... and the loop that marks them, which finds what happened in between
MarkGroup ==
    /\ mqtt.pc = "gmark"
    /\ pending' = [i \in Slot |->
                     IF Provisioned(i)
                     THEN [pending[i] EXCEPT !.inFlight = TRUE, !.desired = mqtt.on,
                                             !.mid = mqtt.mid]
                     ELSE pending[i]]
    /\ mqtt' = [mqtt EXCEPT !.pc = "gtask"]
    /\ UNCHANGED <<nodes, getRetries, cfgRetries, toggle, btc, tx, device,
                   connected, acks, budget, taskVars, faults>>

ClearAllPending == pending' = [i \in Slot |-> NoPending]

StartGroupSync ==
    /\ mqtt.pc = "gtask"
    /\ \/ /\ syncAt' = [syncAt EXCEPT ![mqtt.mid] = 1]
          /\ mqtt' = [mqtt EXCEPT !.pc = "gpost"]
          /\ UNCHANGED <<pending, faults>>
       \/ /\ CanFail("task") /\ faults' = faults + 1
          /\ ClearAllPending
          /\ mqtt' = Idle
          /\ UNCHANGED syncAt
    /\ UNCHANGED <<nodes, getRetries, cfgRetries, toggle, btc, tx, device,
                   connected, acks, budget, recoverAt>>

PostGroup ==
    /\ mqtt.pc = "gpost"
    /\ \/ /\ btc' = Append(btc, [kind |-> "call", op |-> "group", node |-> 1,
                                 addr |-> Unassigned, on |-> mqtt.on])
          /\ UNCHANGED <<pending, faults>>
       \/ /\ CanFail("post") /\ faults' = faults + 1
          /\ ClearAllPending
          /\ UNCHANGED btc
    /\ mqtt' = Idle
    /\ UNCHANGED <<nodes, getRetries, cfgRetries, toggle, tx, device,
                   connected, acks, budget, taskVars>>

-----------------------------------------------------------------------------
(* The MQTT task: connection *)

\* MQTT_EVENT_CONNECTED: farmely_bridge_sync follows, one light at a time.
Connect ==
    /\ mqtt.pc = "idle" /\ ~connected
    /\ budget.connects < MaxConnects
    /\ budget' = [budget EXCEPT !.connects = @ + 1]
    /\ connected' = TRUE
    /\ mqtt' = [Idle EXCEPT !.pc = "sync", !.at = 1]
    /\ UNCHANGED <<gatewayVars, btc, tx, device, acks, taskVars, faults>>

SyncNode ==
    /\ mqtt.pc = "sync"
    /\ IF Provisioned(mqtt.at)
       THEN /\ getRetries' = [getRetries EXCEPT ![mqtt.at] = 0]
            /\ PostOrLog(btc, Call("get", mqtt.at, 0))
       ELSE UNCHANGED <<getRetries, btc, faults>>
    /\ mqtt' = IF NextSlot(mqtt.at) = 0 THEN Idle ELSE [mqtt EXCEPT !.at = NextSlot(@)]
    /\ UNCHANGED <<nodes, pending, cfgRetries, toggle, tx, device,
                   connected, acks, budget, taskVars>>

Disconnect ==
    /\ mqtt.pc = "idle" /\ connected
    /\ connected' = FALSE
    /\ UNCHANGED <<gatewayVars, btc, tx, device, mqtt, acks, budget, taskVars, faults>>

-----------------------------------------------------------------------------
(* The spawned tasks *)

\* farmely_group_sync_task: ask every light still pending for its state
GroupSyncStep(c) ==
    /\ syncAt[c] # 0
    /\ LET i == syncAt[c]
       IN IF pending[i].inFlight /\ Provisioned(i)
          THEN \E out \in Posting(pending[i], Call("get", i, 0), NoPending) :
                 Commit(i, btc, out)
          ELSE UNCHANGED <<pending, btc, faults>>
    /\ syncAt' = [syncAt EXCEPT ![c] = NextSlot(@)]
    /\ UNCHANGED <<nodes, getRetries, cfgRetries, toggle, tx, device, mqttVars, recoverAt>>

\* Variant with a bug: a stored light is only asked for its state.
RecoverByGet(i) == Call("get", i, 0)

\* What mesh_recover sends first: the group subscription.
RecoverBy(i) == Call("sub", i, 0)

\* farmely_recover_nodes_task: subscribe every stored light again; the GET
\* follows its status, or is sent at once when the subscription cannot be.
RecoverNode(i) ==
    /\ IF Provisioned(i)
       THEN /\ cfgRetries' = [cfgRetries EXCEPT ![i] = 0]
            /\ \/ /\ btc' = Append(btc, RecoverBy(i))
                  /\ UNCHANGED <<getRetries, faults>>
               \/ /\ CanFail("post")
                  /\ getRetries' = [getRetries EXCEPT ![i] = 0]
                  /\ btc' = Append(btc, Call("get", i, 0))
                  /\ faults' = faults + 1
       ELSE UNCHANGED <<getRetries, cfgRetries, btc, faults>>
    /\ UNCHANGED <<nodes, pending, toggle, tx, device, mqttVars, syncAt>>

RecoverStep ==
    /\ recoverAt # 0
    /\ RecoverNode(recoverAt)
    /\ recoverAt' = NextSlot(recoverAt)

-----------------------------------------------------------------------------
(* The client models and the lights (external) *)

SameClient(o1, o2) == (o1 \in CfgOps) <=> (o2 \in CfgOps)
Busy(r) == \E t \in tx : t.node = r.node /\ t.addr = r.addr /\ SameClient(t.op, r.op)

\* A light hears a request sent to its address; an OnOff message also needs
\* the application key, bound to its model.
Hears(r) == /\ device[r.node].addr = r.addr
            /\ r.op \in CfgOps \/ device[r.node].bound

\* The effect of request r on its light.
Obey(r) == device' = [device EXCEPT
    ![r.node].light = IF r.op = "set" THEN r.on ELSE @,
    ![r.node].bound = (r.op = "bind") \/ @,
    ![r.node].subscribed = (r.op = "sub") \/ @]

GroupMembers == {i \in Slot : device[i].bound /\ device[i].subscribed}

\* The BTC task hands a call to its client model, which sends it or answers
\* at once with an event that carries an error code.
SendUnicast ==
    /\ btc # <<>> /\ Head(btc).kind = "call" /\ Head(btc).op # "group"
    /\ \/ /\ ~Busy(Head(btc))
          /\ tx' = tx \cup {Head(btc)}
          /\ btc' = Tail(btc)
          /\ UNCHANGED faults
       \/ /\ \/ Busy(Head(btc)) /\ UNCHANGED faults
             \/ ~Busy(Head(btc)) /\ CanFail("send") /\ faults' = faults + 1
          /\ btc' = Append(Tail(btc), Event("error", Head(btc), 0))
          /\ UNCHANGED tx
    /\ UNCHANGED <<gatewayVars, device, mqttVars, taskVars>>

\* An unacknowledged SET to the group reaches the lights it reaches.
SendGroup ==
    /\ btc # <<>> /\ Head(btc).kind = "call" /\ Head(btc).op = "group"
    /\ \E S \in SUBSET GroupMembers :
         /\ \/ S = GroupMembers /\ UNCHANGED faults
            \/ S # GroupMembers /\ CanFail("loss") /\ faults' = faults + 1
         /\ device' = [i \in Slot |-> IF i \in S THEN [device[i] EXCEPT !.light = Head(btc).on]
                                      ELSE device[i]]
    /\ btc' = Tail(btc)
    /\ UNCHANGED <<gatewayVars, tx, mqttVars, taskVars>>

Answer(r) ==
    /\ r \in tx /\ Hears(r)
    /\ tx' = tx \ {r}
    /\ Obey(r)
    /\ btc' = Append(btc, Event("status", r, device'[r.node].light))
    /\ UNCHANGED <<gatewayVars, mqttVars, taskVars, faults>>

\* A light may answer a configuration request with a status other than success.
Refuse(r) ==
    /\ r \in tx /\ Hears(r)
    /\ r.op \in {"key", "bind", "sub"}
    /\ CanFail("refuse") /\ faults' = faults + 1
    /\ tx' = tx \ {r}
    /\ btc' = Append(btc, Event("refused", r, 0))
    /\ UNCHANGED <<gatewayVars, device, mqttVars, taskVars>>

\* The request or its answer is lost, or nobody has that address or that key.
TimeOut(r) ==
    /\ r \in tx
    /\ \/ ~Hears(r) /\ UNCHANGED <<device, faults>>
       \/ /\ Hears(r) /\ CanFail("loss") /\ faults' = faults + 1
          /\ UNCHANGED device \/ Obey(r)
    /\ tx' = tx \ {r}
    /\ btc' = Append(btc, Event("timeout", r, 0))
    /\ UNCHANGED <<gatewayVars, mqttVars, taskVars>>

\* recv_unprov_adv_pkt asks the stack to provision an unprovisioned (new or reset) device at
\* once: it gets a fresh address and starts without keys, bindings or subscriptions.
Provision(i) ==
    /\ device[i].addr < MaxAddr
    /\ device' = [device EXCEPT ![i] = [addr |-> @.addr + 1, light |-> 0,
                                        bound |-> FALSE, subscribed |-> FALSE]]
    /\ btc' = Append(btc, [kind |-> "prov", op |-> "comp", node |-> i,
                           addr |-> device[i].addr + 1, on |-> 0])
    /\ UNCHANGED <<gatewayVars, tx, mqttVars, taskVars, faults>>

-----------------------------------------------------------------------------
(* Callbacks of the BTC task *)

\* The next event of the BTC queue (one callback per kind of event; the events of the
\* provisioning callback that are only logged are left out), addressed to a light that
\* example_ble_mesh_get_node_info finds in the table.
Arrives(k, ops) == /\ btc # <<>> /\ Head(btc).kind = k /\ Head(btc).op \in ops
Known == nodes[Head(btc).node].unicast = Head(btc).addr

\* example_ble_mesh_store_node_info: a light keeps its slot when it is provisioned again. Only
\* unicast addresses are taken (the stack gives no other).
StoreNodeInfo(i, addr) ==
    /\ addr # Unassigned
    /\ nodes' = [nodes EXCEPT ![i] = [unicast |-> addr, onoff |-> 0]]

\* prov_complete
ProvComplete ==
    /\ Arrives("prov", Ops)
    /\ LET e == Head(btc)
       IN StoreNodeInfo(e.node, e.addr) /\ PostOrLog(Tail(btc), [e EXCEPT !.kind = "call"])
    /\ UNCHANGED <<pending, getRetries, cfgRetries, toggle, tx, device, mqttVars, taskVars>>

\* An event for an address that is no longer in the table; an error event of
\* the configuration client; a refused configuration request: all only logged
\* (and recorded in the progress record).
IgnoreEvent ==
    /\ \/ \E k \in {"status", "refused", "timeout", "error"} : Arrives(k, Ops) /\ ~Known
       \/ \E k \in {"error", "refused"} : Arrives(k, CfgOps) /\ Known
    /\ btc' = Tail(btc)
    /\ UNCHANGED <<gatewayVars, tx, device, mqttVars, taskVars, faults>>

\* example_ble_mesh_generic_client_cb, error_code set
OnOffError ==
    /\ Arrives("error", {"get", "set"}) /\ Known
    /\ pending' = [pending EXCEPT ![Head(btc).node] = NoPending]
    /\ btc' = Tail(btc)
    /\ UNCHANGED <<nodes, getRetries, cfgRetries, toggle, tx, device, mqttVars, taskVars, faults>>

\* Variant with a bug: the application key is never bound to the model.
NextCfgOpUnbound == [comp |-> "key", key |-> "sub", bind |-> "sub", sub |-> "get"]

\* The request that the success of a configuration request starts.
NextCfgOp == [comp |-> "key", key |-> "bind", bind |-> "sub", sub |-> "get"]

\* example_ble_mesh_config_client_cb: each step of the configuration starts the
\* next one; the subscription is followed by a GET (farmely_start_get).
ConfigStatus ==
    /\ Arrives("status", CfgOps) /\ Known
    /\ LET e == Head(btc)
       IN /\ cfgRetries' = [cfgRetries EXCEPT ![e.node] = 0]
          /\ toggle' = IF e.op = "bind" THEN <<e.node, e.addr>> ELSE toggle
          /\ getRetries' = IF e.op = "sub" THEN [getRetries EXCEPT ![e.node] = 0]
                           ELSE getRetries
          /\ PostOrLog(Tail(btc), Call(NextCfgOp[e.op], e.node, 0))
    /\ UNCHANGED <<nodes, pending, tx, device, mqttVars, taskVars>>

\* farmely_take_config_retry, then the same request again
ConfigTimeout ==
    /\ Arrives("timeout", CfgOps) /\ Known
    /\ LET e == Head(btc)
       IN IF cfgRetries[e.node] >= MaxRetries
          THEN /\ cfgRetries' = [cfgRetries EXCEPT ![e.node] = 0]
               /\ btc' = Tail(btc)
               /\ UNCHANGED faults
          ELSE /\ cfgRetries' = [cfgRetries EXCEPT ![e.node] = @ + 1]
               /\ PostOrLog(Tail(btc), Call(e.op, e.node, 0))
    /\ UNCHANGED <<nodes, pending, getRetries, toggle, tx, device, mqttVars, taskVars>>

\* farmely_gateway_bridge_publish_ack for the pending command of light i, if acked
PublishAck(i, acked) ==
    acks' = IF acked /\ connected /\ pending[i].mid # NoMsg
            THEN [acks EXCEPT ![pending[i].mid][i] = @ + 1] ELSE acks

\* Variant with a bug: any status of the light finishes its command.
ReachedAny(i, on) == pending[i].inFlight

\* A status completes the pending command: the light is in the desired state.
Reached(i, on) == pending[i].inFlight /\ pending[i].desired = on

\* Variant with a bug: a status is dropped while a command is pending.
ObserveIdle(i, on) == nodes' = IF pending[i].inFlight THEN nodes
                               ELSE [nodes EXCEPT ![i].onoff = on]

\* The state a status reports goes into the table, and to the cloud.
Observe(i, on) == nodes' = [nodes EXCEPT ![i].onoff = on]

\* The first half of the handler of a GET status: end or repeat the command.
AfterGet(i, on) ==
    IF ~pending[i].inFlight THEN Keep(pending[i])
    ELSE IF pending[i].desired = on THEN Keep(NoPending)
    ELSE RequestOnOff(i, [pending[i] EXCEPT !.retries = 0])

GetStatus ==
    /\ Arrives("status", {"get"}) /\ Known
    /\ LET e == Head(btc)
           toggles == toggle = <<e.node, e.addr>>
       IN /\ Observe(e.node, e.on)
          /\ getRetries' = [getRetries EXCEPT ![e.node] = 0]
          /\ PublishAck(e.node, Reached(e.node, e.on))
          /\ toggle' = IF toggles THEN <<0, 0>> ELSE toggle
          /\ \E out \in AfterGet(e.node, e.on) :
               \E last \in (IF toggles THEN SendOnOff(e.node, out.p, 1 - e.on, NoMsg)
                            ELSE Keep(out.p)) :
                 /\ faults + out.failed + last.failed <= MaxFaults
                 /\ Commit(e.node, Tail(btc),
                           Outcome(last.p, out.posts \o last.posts, out.failed + last.failed))
    /\ UNCHANGED <<cfgRetries, tx, device, mqtt, connected, budget, taskVars>>

\* Variant with a bug: the entry is kept when the retries are used up.
RetryForgets(i) == IF pending[i].retries >= MaxRetries THEN Keep(pending[i])
                   ELSE RequestOnOff(i, [pending[i] EXCEPT !.retries = @ + 1])

\* A command goes on with one retry more, or is given up.
Retry(i) == IF pending[i].retries >= MaxRetries THEN Keep(NoPending)
            ELSE RequestOnOff(i, [pending[i] EXCEPT !.retries = @ + 1])

SetStatus ==
    /\ Arrives("status", {"set"}) /\ Known
    /\ LET e == Head(btc)
       IN /\ Observe(e.node, e.on)
          /\ PublishAck(e.node, Reached(e.node, e.on))
          /\ \E out \in (IF ~pending[e.node].inFlight
                         THEN Keep(pending[e.node])
                         ELSE IF Reached(e.node, e.on)
                              THEN Keep(NoPending)
                              ELSE Retry(e.node)) :
               Commit(e.node, Tail(btc), out)
    /\ UNCHANGED <<getRetries, cfgRetries, toggle, tx, device,
                   mqtt, connected, budget, taskVars>>

\* A GET timed out on behalf of a command (verification of a group command)
\* or on its own (sync, recovery, end of the configuration).
GetTimeout ==
    /\ Arrives("timeout", {"get"}) /\ Known
    /\ LET i == Head(btc).node
       IN \/ /\ pending[i].inFlight /\ pending[i].retries >= MaxRetries
             /\ pending' = [pending EXCEPT ![i] = NoPending]
             /\ btc' = Tail(btc)
             /\ UNCHANGED <<getRetries, faults>>
          \/ /\ pending[i].inFlight /\ pending[i].retries < MaxRetries
             /\ \E out \in Posting([pending[i] EXCEPT !.retries = @ + 1],
                                   Call("get", i, 0), NoPending) :
                  Commit(i, Tail(btc), out)
             /\ UNCHANGED getRetries
          \/ /\ ~pending[i].inFlight /\ getRetries[i] >= MaxRetries
             /\ getRetries' = [getRetries EXCEPT ![i] = 0]
             /\ btc' = Tail(btc)
             /\ UNCHANGED <<pending, faults>>
          \/ /\ ~pending[i].inFlight /\ getRetries[i] < MaxRetries
             /\ getRetries' = [getRetries EXCEPT ![i] = @ + 1]
             /\ PostOrLog(Tail(btc), Call("get", i, 0))
             /\ UNCHANGED pending
    /\ UNCHANGED <<nodes, cfgRetries, toggle, tx, device, mqttVars, taskVars>>

SetTimeout ==
    /\ Arrives("timeout", {"set"}) /\ Known
    /\ LET i == Head(btc).node
       IN \E out \in (IF pending[i].inFlight THEN Retry(i)
                      ELSE Keep(pending[i])) :
            Commit(i, Tail(btc), out)
    /\ UNCHANGED <<nodes, getRetries, cfgRetries, toggle, tx, device, mqttVars, taskVars>>

-----------------------------------------------------------------------------
(* Restart: farmely_load_state restores the table, app_main starts mesh_recover *)

Restart ==
    /\ budget.restarts < MaxRestarts
    /\ budget' = [budget EXCEPT !.restarts = @ + 1]
    /\ pending' = [i \in Slot |-> NoPending]
    /\ getRetries' = [i \in Slot |-> 0]
    /\ cfgRetries' = [i \in Slot |-> 0]
    /\ toggle' = <<0, 0>>
    /\ btc' = <<>> /\ tx' = {}
    /\ mqtt' = Idle /\ connected' = FALSE
    /\ syncAt' = [c \in CmdId |-> 0]
    /\ recoverAt' = 1
    /\ UNCHANGED <<nodes, device, acks, faults>>

Lights == [i \in Slot |-> [addr |-> IF i \in Paired THEN 1 ELSE 0, light |-> 0,
                            bound |-> i \in Paired, subscribed |-> i \in Paired]]

GatewayInit ==
    /\ nodes = [i \in Slot |-> [unicast |-> IF i \in Paired THEN 1 ELSE 0, onoff |-> 0]]
    /\ pending = [i \in Slot |-> NoPending]
    /\ getRetries = [i \in Slot |-> 0]
    /\ cfgRetries = [i \in Slot |-> 0]
    /\ toggle = <<0, 0>>
    /\ btc = <<>> /\ tx = {}
    /\ mqtt = Idle /\ connected = ~Booting
    /\ syncAt = [c \in CmdId |-> 0]
    /\ recoverAt \in IF Booting THEN {1} \cup (IF "task" \in Faults THEN {0} ELSE {})
                    ELSE {0}
    /\ acks = [c \in CmdId |-> [i \in Slot |-> 0]]
    /\ budget = [cmds |-> 0, connects |-> 0, restarts |-> 0]
    /\ faults = 0

Init == GatewayInit /\ device = Lights

MqttTask == MarkPending \/ PostCommand \/ MarkGroup \/ StartGroupSync \/ PostGroup \/ SyncNode
Callback == \/ ProvComplete \/ IgnoreEvent \/ OnOffError \/ ConfigStatus \/ ConfigTimeout
            \/ GetStatus \/ SetStatus \/ GetTimeout \/ SetTimeout
BtcTask == SendUnicast \/ SendGroup \/ Callback

Next == \/ \E i \in Slot, on \in 0..1 : ReceiveCommand(i, on)
        \/ \E on \in 0..1 : ReceiveGroup(on)
        \/ MqttTask
        \/ Connect \/ Disconnect
        \/ \E c \in CmdId : GroupSyncStep(c)
        \/ RecoverStep
        \/ BtcTask
        \/ \E r \in tx : Answer(r) \/ Refuse(r) \/ TimeOut(r)
        \/ \E i \in Slot : Provision(i)
        \/ Restart

Spec == Init /\ [][Next]_vars

\* FreeRTOS schedules every task that is ready, and the client models arm a
\* timer for each request they send, so a request ends one way or another.
Fairness ==
    /\ WF_vars(MqttTask)
    /\ WF_vars(BtcTask)
    /\ WF_vars(\E c \in CmdId : GroupSyncStep(c))
    /\ WF_vars(RecoverStep)
    /\ WF_vars(\E r \in tx : Answer(r) \/ Refuse(r) \/ TimeOut(r))

FairSpec == Spec /\ Fairness

-----------------------------------------------------------------------------
(* Properties *)

\* Something is under way that ends with the handler of a GET or SET of light i.
Carries(m, i) == m.op \in {"get", "set"} /\ m.node = i /\ m.addr = nodes[i].unicast
Carrier(i) ==
    \/ \E k \in 1..Len(btc) : Carries(btc[k], i)
    \/ \E t \in tx : Carries(t, i)
    \/ \E c \in CmdId : syncAt[c] # 0 /\ syncAt[c] <= i
    \/ mqtt.pc = "post" /\ mqtt.at = i
    \/ mqtt.pc = "gtask"

\* A pending command is never forgotten: as long as it blocks its light (and
\* every group command), a request, an event or a task that will end it is under
\* way.  It holds until the light is provisioned a second time: the answers to
\* its old address are then dropped (get_node_info returns NULL) and the entry
\* is orphaned until some later GET of the light.
NoOrphan == \A i \in Slot : pending[i].inFlight /\ nodes[i].unicast = 1 => Carrier(i)

\* An acknowledgement is true when it is published: the light is in the state
\* the acknowledged command asked for.  This is so for configured lights, one
\* connection and group SETs that are posted: when the client model of a light is
\* busy with an older GET, its error event ends the command of the light, and the
\* status of that GET may end the next command.
AckTruthful == [][\A c \in CmdId, i \in Slot :
                    (acks'[c][i] > acks[c][i] /\ device[i].addr = nodes[i].unicast)
                        => device[i].light = pending[i].desired]_vars

\* Nothing is left to do.
Quiescent == /\ btc = <<>> /\ tx = {} /\ mqtt.pc = "idle" /\ recoverAt = 0
             /\ \A c \in CmdId : syncAt[c] = 0

\* Without failures, the table (and every status published from it) agrees with
\* the lights once all work is done.  This is so for configured lights and one
\* connection.  When the group SET is posted after the end of the work that
\* would verify it for a light (the light joins between the marks and the SET, or its
\* entry is cleared because a GET of the sync or the recovery keeps its client model
\* busy), the light obeys a SET that nobody asks about.
Converged == Quiescent /\ faults = 0 => \A i \in Slot :
    Provisioned(i) /\ device[i].bound => nodes[i].onoff = device[i].light

\* Without failures and restarts, configuring a new light runs to its end.
SetupCompletes == Quiescent /\ faults = 0 /\ budget.restarts = 0 /\ ~Booting => \A i \in Slot :
    Provisioned(i) => device[i].bound /\ device[i].subscribed

\* Without failures, every light that holds the key is in the group once all work
\* is done, across restarts in the middle of its configuration.
Subscribed == Quiescent /\ faults = 0 => \A i \in Slot :
    Provisioned(i) /\ device[i].bound => device[i].subscribed

\* What the gateway does to its pending table is what the ledger allows.
Ledger == INSTANCE CommandLedger WITH open <- [i \in Slot |-> pending[i].mid]
LedgerSpec == Ledger!Spec
AckedAtMostOnce == Ledger!AckedAtMostOnce

\* A pending command ends, acknowledged or given up.
PendingEnds == \A i \in Slot :
    (pending[i].inFlight /\ nodes[i].unicast = 1)
        ~> (~pending[i].inFlight \/ nodes[i].unicast # 1)
=============================================================================
