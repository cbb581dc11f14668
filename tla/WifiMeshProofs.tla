--------------------------- MODULE WifiMeshProofs ---------------------------
(***************************************************************************)
(* Proofs about the ESP-WIFI-MESH lights, for any number of devices,       *)
(* firmware versions, commands and losses of power or of a link.           *)
(***************************************************************************)
EXTENDS WifiMesh, TLAPS

-----------------------------------------------------------------------------
(* What the helpers of the actions return *)

LEMMA Tasks ==
    ASSUME NEW pcs
    PROVE  /\ \A p \in pcs : At(p) \in Task(pcs)
           /\ \A p \in pcs, s \in Snapshot \cup {None}, on \in BOOLEAN :
                [pc |-> p, snap |-> s, on |-> on] \in Task(pcs)
           /\ \A task \in Task(pcs) :
                task.pc \in pcs /\ task.snap \in Snapshot \cup {None} /\ task.on \in BOOLEAN
BY DEF At, Task

\* A message is one of the four records.
LEMMA Messages ==
    /\ \A from \in Node, on \in BOOLEAN : [type |-> "status", from |-> from, on |-> on] \in Message
    /\ \A on \in BOOLEAN : [type |-> "ctl", on |-> on] \in Message
    /\ \A fw \in Version : [type |-> "ota", fw |-> fw] \in Message
    /\ \A from \in Node, fw \in Version :
         [type |-> "success", from |-> from, fw |-> fw] \in Message
    /\ \A m \in Message :
         /\ m.type = "status" => m.from \in Node /\ m.on \in BOOLEAN
         /\ m.type = "ctl" => m.on \in BOOLEAN
         /\ m.type = "ota" => m.fw \in Version
         /\ m.type = "success" =>
              /\ m.from \in Node /\ m.fw \in Version
              /\ m = [type |-> "success", from |-> m.from, fw |-> m.fw]
BY DEF Message

LEMMA SentType ==
    ASSUME TypeOK, NEW to \in Node, NEW m \in Message, Sent(to, m)
    PROVE  inbox' \in [Node -> SUBSET Message]
BY DEF Sent, TypeOK

LEMMA SentAdds ==
    ASSUME TypeOK, NEW to \in Node, NEW msg, Sent(to, msg),
           NEW n \in Node, NEW m \in inbox'[n] \ inbox[n]
    PROVE  m = msg
BY DEF Sent, TypeOK

LEMMA PublishNodeStatusType ==
    ASSUME TypeOK, NEW d \in Node, NEW s \in Snapshot \cup {None}, PublishNodeStatus(d, s)
    PROVE  /\ retained' \in [Node -> [online : BOOLEAN, on : BOOLEAN] \cup {None}]
           /\ queue' \in [Node -> Snapshot \cup {None}]
<1>1. CASE Online(d) /\ s # None
  <2>1. s.id \in Node /\ [online |-> s.online, on |-> s.on] \in [online : BOOLEAN, on : BOOLEAN]
    BY <1>1 DEF Snapshot
  <2>2. retained' = [retained EXCEPT ![s.id] = [online |-> s.online, on |-> s.on]]
        /\ queue' = queue
    BY <1>1 DEF PublishNodeStatus
  <2> QED
    BY <2>1, <2>2 DEF TypeOK
<1>2. CASE ~(Online(d) /\ s # None)
  BY <1>2 DEF PublishNodeStatus, TypeOK
<1> QED
  BY <1>1, <1>2

LEMMA GatewayStatusType ==
    ASSUME TypeOK
    PROVE  /\ Will => gateway' \in [online : BOOLEAN, root : Node \cup {None}]
           /\ \A d \in Node : PublishGatewayStatus(d)
                => gateway' \in [online : BOOLEAN, root : Node \cup {None}]
<1>1. \A d \in Node \cup {None}, b \in BOOLEAN :
        [online |-> b, root |-> d] \in [online : BOOLEAN, root : Node \cup {None}]
  OBVIOUS
<1>2. session \in Node \cup {None} /\ gateway \in [online : BOOLEAN, root : Node \cup {None}]
  BY DEF TypeOK
<1> QED
  BY <1>1, <1>2 DEF Will, PublishGatewayStatus

LEMMA RefreshedSelfType ==
    ASSUME TypeOK, NEW d \in Node, NEW on \in BOOLEAN
    PROVE  /\ RefreshedSelf(d, on) \in [Node -> [Node -> Entry \cup {None}]]
           /\ SelfSnapshot(d, on) \in Snapshot \cup {None}
<1> DEFINE self == [online |-> TRUE, on |-> on, isRoot |-> TRUE, old |-> FALSE]
<1>1. self \in Entry
  BY DEF Entry
<1>2. [nodes EXCEPT ![d][d] = self] \in [Node -> [Node -> Entry \cup {None}]]
  BY <1>1 DEF TypeOK
<1>3. [id |-> d, online |-> TRUE, on |-> on] \in Snapshot
  BY DEF Snapshot
<1> QED
  BY <1>2, <1>3 DEF RefreshedSelf, SelfSnapshot, TypeOK

LEMMA ConfirmReportType ==
    ASSUME TypeOK, NEW d \in Node, NEW e \in Node \cup {None},
           NEW box \in [Node -> SUBSET Message]
    PROVE  ConfirmReport(d, e, box) \in [Node -> SUBSET Message]
<1>1. CASE OtaConfirms(d) /\ e # None /\ OnMesh(e)
  <2>1. saved[d] \in Version
    BY <1>1, MaxVersionAssumption DEF OtaConfirms, TypeOK, OtaTypeOK, Version
  <2>2. {[type |-> "success", from |-> d, fw |-> saved[d]]} \subseteq Message
    BY <2>1, Messages
  <2> QED
    BY <1>1, <2>2 DEF ConfirmReport
<1>2. CASE ~(OtaConfirms(d) /\ e # None /\ OnMesh(e))
  BY <1>2 DEF ConfirmReport
<1> QED
  BY <1>1, <1>2

LEMMA ReportSuccessType ==
    ASSUME TypeOK, NEW d \in Node, NEW v \in Version, ReportSuccess(d, v)
    PROVE  inbox' \in [Node -> SUBSET Message] /\ upgraded' \in [Node -> 0..MaxVersion]
<1>1. v \in 0..MaxVersion
  BY MaxVersionAssumption DEF Version
<1>2. CASE role[d] = "root"
  BY <1>1, <1>2 DEF ReportSuccess, TypeOK
<1>3. CASE role[d] # "root"
  <2>1. upgraded' \in [Node -> 0..MaxVersion]
    BY <1>3 DEF ReportSuccess, TypeOK
  <2>2. [type |-> "success", from |-> d, fw |-> v] \in Message
    BY Messages
  <2>3. CASE OnMesh(d) /\ rootAddr[d] # None
    <3>1. rootAddr[d] \in Node
      BY <2>3 DEF TypeOK
    <3> QED
      BY <1>3, <2>1, <2>2, <2>3, <3>1, SentType DEF ReportSuccess
  <2>4. CASE ~(OnMesh(d) /\ rootAddr[d] # None)
    BY <1>3, <2>1, <2>4 DEF ReportSuccess, TypeOK
  <2> QED
    BY <2>3, <2>4
<1> QED
  BY <1>2, <1>3

\* The steps of the update client.
LEMMA OtaType ==
    ASSUME OtaTypeOK, NEW d \in Node
    PROVE  /\ UNCHANGED otaVars => OtaTypeOK'
           /\ \A v \in Version : OtaStart(d, v) => OtaTypeOK'
           /\ OtaFail(d) \/ OtaFinish(d) \/ OtaSave(d) => OtaTypeOK'
           /\ OtaBoot(d) \/ OtaConfirm(d) \/ OtaClear(d) => OtaTypeOK'
<1> USE MaxVersionAssumption DEF OtaTypeOK, Version
<1>1. UNCHANGED otaVars => OtaTypeOK'
  BY DEF otaVars
<1>2. \A v \in Version : OtaStart(d, v) => OtaTypeOK'
  BY DEF OtaStart
<1>3. OtaFail(d) => OtaTypeOK'
  BY DEF OtaFail, ImageRejected, NoTask
<1>4. ota[d].pc # "none" =>
        /\ ota[d].fw \in 1..MaxVersion /\ ota[d].fw \in 0..MaxVersion
        /\ \A pc \in {"save", "restart"} :
             [pc |-> pc, fw |-> ota[d].fw] \in [pc : {"download", "save", "restart"}, fw : Version]
  BY DEF NoTask
<1>5. OtaFinish(d) => OtaTypeOK'
  BY <1>4 DEF OtaFinish
<1>6. OtaSave(d) => OtaTypeOK'
  <2> SUFFICES ASSUME OtaSave(d) PROVE OtaTypeOK'
    OBVIOUS
  <2>1. ota' \in [Node -> [pc : {"download", "save", "restart"}, fw : Version] \cup {NoTask}]
    BY <1>4 DEF OtaSave
  <2>2. saved' \in [Node -> 0..MaxVersion]
    BY <1>4 DEF OtaSave
  <2> QED
    BY <2>1, <2>2 DEF OtaSave
<1>7. OtaBoot(d) => OtaTypeOK'
  BY DEF OtaBoot, NoTask
<1>8. OtaConfirm(d) => OtaTypeOK'
  <2>1. (OtaConfirms(d) \/ clearing[d]) \in BOOLEAN
    OBVIOUS
  <2>2. OtaConfirm(d) => clearing' \in [Node -> BOOLEAN]
    BY <2>1 DEF OtaConfirm
  <2> QED
    BY <2>2 DEF OtaConfirm
<1>9. OtaClear(d) => OtaTypeOK'
  BY DEF OtaClear
<1> QED
  BY <1>1, <1>2, <1>3, <1>4, <1>5, <1>6, <1>7, <1>8, <1>9

-----------------------------------------------------------------------------
(* Every action keeps the state well typed. *)

LEMMA SpendType ==
    ASSUME TypeOK, NEW n \in Nat, Spend(n)
    PROVE  effort' \in 0..MaxEffort
BY MaxEffortAssumption DEF TypeOK, Spend

\* The update client's own steps, and a device that restarts.
LEMMA TypeOKPower ==
    ASSUME TypeOK, NEW d \in Node,
           OtaTask(d) \/ ClearSuccess(d) \/ PowerOff(d) \/ PowerOn(d) \/ OtaRestart(d)
    PROVE  TypeOK'
<1>1. OtaTypeOK
  BY DEF TypeOK
<1>2. ASSUME UNCHANGED meshVars, OtaTypeOK' PROVE TypeOK'
  BY <1>2 DEF TypeOK, meshVars
<1>3. ASSUME NEW r \in {"off", "idle", "node", "root"}, Reset(d, r),
             effort' \in 0..MaxEffort
      PROVE  TypeOK'
  <2>1. OtaTypeOK'
    BY <1>1, <1>3, OtaType DEF Reset
  <2>2. \A pcs : "idle" \in pcs => Idle \in Task(pcs)
    BY Tasks DEF Idle
  <2>3. tx' \in [Node -> Task({"idle", "self", "expire", "expired", "gateway"})]
        /\ rx' \in [Node -> Task({"idle", "apply", "report"})]
        /\ mq' \in [Node -> Task({"idle", "connected", "apply", "self"})]
    BY <1>3, <2>2 DEF Reset, TypeOK
  <2>4. nodes' \in [Node -> [Node -> Entry \cup {None}]] /\ inbox' \in [Node -> SUBSET Message]
    BY <1>3 DEF Reset, TypeOK
  <2> QED
    BY <1>3, <2>1, <2>3, <2>4 DEF Reset, TypeOK
<1>4. CASE OtaTask(d) \/ ClearSuccess(d)
  BY <1>1, <1>2, <1>4, OtaType DEF OtaTask, ClearSuccess
<1>5. CASE PowerOff(d)
  BY <1>3, <1>5, SpendType DEF PowerOff
<1>6. CASE PowerOn(d) \/ OtaRestart(d)
  <2>1. effort' \in 0..MaxEffort
    BY <1>6 DEF PowerOn, OtaRestart, TypeOK
  <2> QED
    BY <1>3, <1>6, <2>1 DEF PowerOn, OtaRestart
<1> QED
  BY <1>4, <1>5, <1>6

\* Mesh and IP events.
LEMMA TypeOKEvents ==
    ASSUME TypeOK, NEW d \in Node,
           \/ ParentConnected(d) \/ RootAddress(d) \/ ParentDisconnected(d) \/ GotIp(d)
           \/ \E e \in Node : RootSwitch(d, e)
    PROVE  TypeOK'
<1>1. OtaTypeOK
  BY DEF TypeOK
<1>2. CASE ParentConnected(d)
  <2>1. PICK r \in {"root", "node"} :
          /\ role' = [role EXCEPT ![d] = r]
          /\ linked' = [linked EXCEPT ![d] = TRUE]
          /\ Indicate(d, TRUE)
          /\ inbox' = IF r = "node" THEN ConfirmReport(d, rootAddr[d], [inbox EXCEPT ![d] = {}])
                                    ELSE [inbox EXCEPT ![d] = {}]
          /\ IF r = "node" THEN OtaConfirm(d) ELSE UNCHANGED otaVars
    BY <1>2 DEF ParentConnected
  <2>2. [inbox EXCEPT ![d] = {}] \in [Node -> SUBSET Message] /\ rootAddr[d] \in Node \cup {None}
    BY DEF TypeOK
  <2>3. inbox' \in [Node -> SUBSET Message]
    BY <2>1, <2>2, ConfirmReportType
  <2>4. OtaTypeOK'
    BY <1>1, <2>1, OtaType
  <2> QED
    BY <1>2, <2>1, <2>3, <2>4 DEF ParentConnected, Indicate, Lit, TypeOK
<1>3. CASE RootAddress(d)
  <2>1. inbox \in [Node -> SUBSET Message]
    BY DEF TypeOK
  <2>2. inbox' \in [Node -> SUBSET Message] /\ OtaTypeOK'
    BY <1>1, <1>3, <2>1, ConfirmReportType, OtaType DEF RootAddress
  <2>3. rootAddr' \in [Node -> Node \cup {None}]
    BY <1>3 DEF RootAddress, TypeOK
  <2> QED
    BY <1>3, <2>2, <2>3 DEF RootAddress, TypeOK
<1>4. CASE ParentDisconnected(d)
  <2>1. effort' \in 0..MaxEffort
    BY <1>4, SpendType DEF ParentDisconnected, TypeOK
  <2>2. /\ client' \in [Node -> {"none", "down", "up"}]
        /\ session' \in Node \cup {None}
        /\ queue' \in [Node -> Snapshot \cup {None}]
    BY <1>4 DEF ParentDisconnected, MqttAppStop, TypeOK
  <2>3. OtaTypeOK'
    BY <1>1, <1>4, OtaType DEF ParentDisconnected
  <2>4. /\ linked' \in [Node -> BOOLEAN] /\ led' \in [Node -> BOOLEAN]
        /\ indicated' \in [Node -> BOOLEAN] /\ inbox' \in [Node -> SUBSET Message]
    BY <1>4 DEF ParentDisconnected, Indicate, Lit, TypeOK
  <2> QED
    BY <1>4, <2>1, <2>2, <2>3, <2>4 DEF ParentDisconnected, TypeOK
<1>5. CASE GotIp(d)
  BY <1>1, <1>5, OtaType DEF GotIp, MqttAppStart, TypeOK
<1>6. ASSUME NEW e \in Node, RootSwitch(d, e) PROVE TypeOK'
  <2>1. effort' \in 0..MaxEffort /\ OtaTypeOK'
    BY <1>1, <1>6, SpendType, OtaType DEF RootSwitch
  <2> QED
    BY <1>6, <2>1 DEF RootSwitch, Lit, TypeOK
<1> QED
  BY <1>2, <1>3, <1>4, <1>5, <1>6

\* The MQTT task and the broker.
LEMMA TypeOKMqtt ==
    ASSUME TypeOK, NEW d \in Node,
           MqttConnected(d) \/ MqttConnectedPublish(d) \/ Flush(d) \/ MqttApply(d) \/ MqttPublish(d)
    PROVE  TypeOK'
<1> DEFINE MqTask == Task({"idle", "connected", "apply", "self"})
<1>1. OtaTypeOK /\ (UNCHANGED otaVars => OtaTypeOK')
  BY OtaType DEF TypeOK
<1>2. Idle \in MqTask /\ mq[d] \in MqTask /\ light[d] \in BOOLEAN
  BY Tasks DEF Idle, TypeOK
<1>3. mq[d].snap \in Snapshot \cup {None} /\ mq[d].on \in BOOLEAN
  BY <1>2, Tasks
<1>4. CASE MqttConnected(d)
  <2>1. nodes' \in [Node -> [Node -> Entry \cup {None}]]
        /\ [pc |-> "connected", snap |-> SelfSnapshot(d, light[d]), on |-> FALSE] \in MqTask
    BY <1>2, <1>4, RefreshedSelfType, Tasks DEF MqttConnected
  <2>2. gateway' \in [online : BOOLEAN, root : Node \cup {None}]
    BY <1>4, GatewayStatusType DEF MqttConnected
  <2> QED
    BY <1>1, <1>4, <2>1, <2>2 DEF MqttConnected, TypeOK
<1>5. CASE MqttConnectedPublish(d)
  <2>1. /\ retained' \in [Node -> [online : BOOLEAN, on : BOOLEAN] \cup {None}]
        /\ queue' \in [Node -> Snapshot \cup {None}]
    BY <1>3, <1>5, PublishNodeStatusType DEF MqttConnectedPublish
  <2>2. gateway' \in [online : BOOLEAN, root : Node \cup {None}] /\ OtaTypeOK'
    BY <1>1, <1>5, GatewayStatusType, OtaType DEF MqttConnectedPublish
  <2>3. inbox' \in [Node -> SUBSET Message] /\ upgraded' \in [Node -> 0..MaxVersion]
    <3>1. CASE OtaConfirms(d)
      <4>1. saved[d] \in Version
        BY <1>1, <3>1, MaxVersionAssumption DEF OtaConfirms, OtaTypeOK, Version
      <4> QED
        BY <1>5, <3>1, <4>1, ReportSuccessType DEF MqttConnectedPublish
    <3>2. CASE ~OtaConfirms(d)
      BY <1>5, <3>2 DEF MqttConnectedPublish, TypeOK
    <3> QED
      BY <3>1, <3>2
  <2> QED
    BY <1>2, <1>5, <2>1, <2>2, <2>3 DEF MqttConnectedPublish, TypeOK
<1>6. CASE Flush(d)
  <2>1. queue[d] \in Snapshot \cup {None}
    BY DEF TypeOK
  <2>2. retained' \in [Node -> [online : BOOLEAN, on : BOOLEAN] \cup {None}]
    BY <1>6, <2>1, PublishNodeStatusType DEF Flush, TypeOK
  <2> QED
    BY <1>1, <1>6, <2>2 DEF Flush, TypeOK
<1>7. CASE MqttApply(d)
  <2>1. nodes' \in [Node -> [Node -> Entry \cup {None}]]
        /\ [pc |-> "self", snap |-> SelfSnapshot(d, mq[d].on), on |-> FALSE] \in MqTask
    BY <1>3, <1>7, RefreshedSelfType, Tasks DEF MqttApply
  <2> QED
    BY <1>1, <1>3, <1>7, <2>1 DEF MqttApply, TypeOK
<1>8. CASE MqttPublish(d)
  <2>1. /\ retained' \in [Node -> [online : BOOLEAN, on : BOOLEAN] \cup {None}]
        /\ queue' \in [Node -> Snapshot \cup {None}]
    BY <1>3, <1>8, PublishNodeStatusType DEF MqttPublish
  <2> QED
    BY <1>1, <1>2, <1>8, <2>1 DEF MqttPublish, TypeOK
<1> QED
  BY <1>4, <1>5, <1>6, <1>7, <1>8

LEMMA TypeOKBroker ==
    ASSUME TypeOK, SessionLost
    PROVE  TypeOK'
<1>1. OtaTypeOK'
  BY OtaType DEF TypeOK, OtaTypeOK, SessionLost, otaVars
<1>2. session \in Node /\ effort' \in 0..MaxEffort
  BY SpendType DEF SessionLost, TypeOK
<1>3. gateway' \in [online : BOOLEAN, root : Node \cup {None}]
  BY GatewayStatusType DEF SessionLost
<1> QED
  BY <1>1, <1>2, <1>3 DEF SessionLost, TypeOK

\* Commands of the cloud.
LEMMA TypeOKCommands ==
    ASSUME TypeOK, NEW d \in Node,
           \/ \E on \in BOOLEAN : BroadcastCommand(d, on)
           \/ \E n \in Node, on \in BOOLEAN : NodeCommand(d, n, on)
           \/ \E n \in Upgradable, v \in Version \ {1} : OtaCommand(d, n, v)
    PROVE  TypeOK'
<1>1. OtaTypeOK /\ (UNCHANGED otaVars => OtaTypeOK')
  BY OtaType DEF TypeOK
<1>2. \A on \in BOOLEAN : [pc |-> "apply", snap |-> None, on |-> on]
                            \in Task({"idle", "connected", "apply", "self"})
  BY Tasks
<1>3. ASSUME NEW on \in BOOLEAN, BroadcastCommand(d, on) PROVE TypeOK'
  <2>1. effort' \in 0..MaxEffort
    BY <1>3, SpendType DEF BroadcastCommand, CommandArrives
  <2>2. inbox' \in [Node -> SUBSET Message]
    BY <1>3, Messages DEF BroadcastCommand, TypeOK
  <2> QED
    BY <1>1, <1>2, <1>3, <2>1, <2>2 DEF BroadcastCommand, SetLed, Lit, TypeOK
<1>4. ASSUME NEW n \in Node, NEW on \in BOOLEAN, NodeCommand(d, n, on) PROVE TypeOK'
  <2>1. effort' \in 0..MaxEffort
    BY <1>4, SpendType DEF NodeCommand, CommandArrives
  <2>2. CASE n = d
    <3>1. /\ SetLed(d, on) /\ UNCHANGED <<nodes, inbox>>
          /\ mq' = [mq EXCEPT ![d] = [pc |-> "apply", snap |-> None, on |-> on]]
      BY <1>4, <2>2 DEF NodeCommand
    <3>2. /\ led' \in [Node -> BOOLEAN] /\ indicated' \in [Node -> BOOLEAN]
          /\ mq' \in [Node -> Task({"idle", "connected", "apply", "self"})]
      BY <1>2, <3>1 DEF SetLed, Lit, TypeOK
    <3> QED
      BY <1>1, <1>4, <2>1, <3>1, <3>2 DEF NodeCommand, TypeOK
  <2>3. CASE n # d /\ Registered(d, n)
    <3>1. nodes[d][n] \in Entry
      BY <2>3 DEF Registered, Used, TypeOK
    <3>2. [nodes[d][n] EXCEPT !.on = on] \in Entry
      BY <3>1 DEF Entry
    <3>3. nodes' = [nodes EXCEPT ![d][n].on = on]
      BY <1>4, <2>3 DEF NodeCommand
    <3>5. nodes' \in [Node -> [Node -> Entry \cup {None}]]
      BY <3>2, <3>3 DEF TypeOK
    <3>4. inbox' \in [Node -> SUBSET Message]
      BY <1>4, <2>3, Messages, SentType DEF NodeCommand
    <3> QED
      BY <1>1, <1>4, <2>1, <2>3, <3>4, <3>5 DEF NodeCommand, TypeOK
  <2>4. CASE n # d /\ ~Registered(d, n)
    BY <1>1, <1>4, <2>1, <2>4 DEF NodeCommand, TypeOK
  <2> QED
    BY <2>2, <2>3, <2>4
<1>5. ASSUME NEW n \in Upgradable, NEW v \in Version \ {1}, OtaCommand(d, n, v) PROVE TypeOK'
  <2>1. effort' \in 0..MaxEffort
    BY <1>5, SpendType DEF OtaCommand, CommandArrives
  <2>2. OtaTypeOK'
    BY <1>1, <1>5, OtaType DEF OtaCommand
  <2>3. inbox' \in [Node -> SUBSET Message]
    <3>1. CASE n # d /\ Registered(d, n)
      BY <1>5, <3>1, Messages, SentType DEF OtaCommand, Registered, Used
    <3>2. CASE n = d \/ ~Registered(d, n)
      BY <1>5, <3>2 DEF OtaCommand, TypeOK
    <3> QED
      BY <3>1, <3>2
  <2> QED
    BY <1>5, <2>1, <2>2, <2>3 DEF OtaCommand, TypeOK
<1> QED
  BY <1>3, <1>4, <1>5

\* The heartbeat task.
LEMMA TypeOKTx ==
    ASSUME TypeOK, NEW d \in Node,
           \/ TxTick(d) \/ TxPublish(d) \/ TxExpire(d) \/ TxGateway(d)
           \/ \E n \in Node : Age(d, n)
    PROVE  TypeOK'
<1> DEFINE TxTask == Task({"idle", "self", "expire", "expired", "gateway"})
<1>1. OtaTypeOK /\ (UNCHANGED otaVars => OtaTypeOK')
  BY OtaType DEF TypeOK
<1>2. /\ Idle \in TxTask /\ At("expire") \in TxTask /\ At("gateway") \in TxTask
      /\ tx[d] \in TxTask /\ light[d] \in BOOLEAN
  BY Tasks DEF Idle, TypeOK
<1>3. ASSUME NEW n \in Node, Registered(d, n), NEW e \in Entry,
             nodes' = [nodes EXCEPT ![d][n] = e]
      PROVE  nodes' \in [Node -> [Node -> Entry \cup {None}]]
  BY <1>3 DEF TypeOK
<1>4. CASE TxTick(d)
  <2>3. UNCHANGED <<role, linked, rootAddr, client, session, queue, light, led, indicated, rx,
                    mq, retained, gateway, upgraded, effort, otaVars>>
    BY <1>4 DEF TxTick
  <2>1. CASE /\ nodes' = RefreshedSelf(d, light[d]) /\ UNCHANGED inbox
             /\ tx' = [tx EXCEPT ![d] = [pc |-> "self", on |-> FALSE,
                                        snap |-> SelfSnapshot(d, light[d])]]
    <3>1. nodes' \in [Node -> [Node -> Entry \cup {None}]]
          /\ [pc |-> "self", snap |-> SelfSnapshot(d, light[d]), on |-> FALSE] \in TxTask
      BY <1>2, <2>1, RefreshedSelfType, Tasks
    <3>2. tx' \in [Node -> TxTask] /\ inbox' \in [Node -> SUBSET Message]
      BY <2>1, <3>1 DEF TypeOK
    <3> QED
      BY <1>1, <2>3, <3>1, <3>2 DEF TypeOK
  <2>2. CASE StatusUpstream(d, light[d]) /\ UNCHANGED <<nodes, tx>>
    <3>1. inbox' \in [Node -> SUBSET Message]
      <4>1. CASE role[d] = "node" /\ linked[d] /\ rootAddr[d] # None
        <5>1. rootAddr[d] \in Node
          BY <4>1 DEF TypeOK
        <5> QED
          BY <1>2, <2>2, <4>1, <5>1, Messages, SentType DEF StatusUpstream
      <4>2. CASE ~(role[d] = "node" /\ linked[d] /\ rootAddr[d] # None)
        BY <2>2, <4>2 DEF StatusUpstream, TypeOK
      <4> QED
        BY <4>1, <4>2
    <3> QED
      BY <1>1, <2>2, <2>3, <3>1 DEF TypeOK
  <2> QED
    BY <1>4, <2>1, <2>2 DEF TxTick
<1>5. CASE TxPublish(d)
  <2>1. tx[d].snap \in Snapshot \cup {None}
    BY <1>2, Tasks
  <2>2. /\ retained' \in [Node -> [online : BOOLEAN, on : BOOLEAN] \cup {None}]
        /\ queue' \in [Node -> Snapshot \cup {None}]
    BY <1>5, <2>1, PublishNodeStatusType DEF TxPublish
  <2> QED
    BY <1>1, <1>2, <1>5, <2>2 DEF TxPublish, TypeOK
<1>6. CASE TxExpire(d)
  <2>1. ASSUME NEW n \in Expired(d), nodes' = [nodes EXCEPT ![d][n].online = FALSE],
               tx' = [tx EXCEPT ![d] = [pc |-> "expired", on |-> FALSE,
                                        snap |-> ExpiredSnapshot(n, nodes[d][n].on)]]
        PROVE  TypeOK'
    <3>1. n \in Node /\ Registered(d, n) /\ nodes[d][n] \in Entry
      BY DEF Expired, Registered, Used, TypeOK
    <3>2. [nodes[d][n] EXCEPT !.online = FALSE] \in Entry /\ nodes[d][n].on \in BOOLEAN
      BY <3>1 DEF Entry
    <3>3. nodes' = [nodes EXCEPT ![d][n] = [nodes[d][n] EXCEPT !.online = FALSE]]
      BY <2>1, <3>1 DEF TypeOK
    <3>4. nodes' \in [Node -> [Node -> Entry \cup {None}]]
      BY <1>3, <3>1, <3>2, <3>3
    <3>5. ExpiredSnapshot(n, nodes[d][n].on) \in Snapshot
      BY <3>1, <3>2 DEF ExpiredSnapshot, Snapshot
    <3>6. tx' \in [Node -> TxTask]
      BY <2>1, <3>5, Tasks DEF TypeOK
    <3> QED
      BY <1>1, <1>6, <3>4, <3>6 DEF TxExpire, TypeOK
  <2>2. CASE tx' = [tx EXCEPT ![d] = At("gateway")] /\ UNCHANGED nodes
    BY <1>1, <1>2, <1>6, <2>2 DEF TxExpire, TypeOK
  <2> QED
    BY <1>6, <2>1, <2>2 DEF TxExpire
<1>7. CASE TxGateway(d)
  <2>1. gateway' \in [online : BOOLEAN, root : Node \cup {None}]
    BY <1>7, GatewayStatusType DEF TxGateway
  <2> QED
    BY <1>1, <1>2, <1>7, <2>1 DEF TxGateway, TypeOK
<1>8. ASSUME NEW n \in Node, Age(d, n) PROVE TypeOK'
  <2>1. nodes[d][n] \in Entry /\ Registered(d, n)
    BY <1>8 DEF Age, Registered, Used, TypeOK
  <2>2. [nodes[d][n] EXCEPT !.old = TRUE] \in Entry
    BY <2>1 DEF Entry
  <2>3. nodes' = [nodes EXCEPT ![d][n] = [nodes[d][n] EXCEPT !.old = TRUE]]
    BY <1>8 DEF Age, TypeOK
  <2>4. nodes' \in [Node -> [Node -> Entry \cup {None}]]
    BY <1>3, <2>1, <2>2, <2>3
  <2> QED
    BY <1>1, <1>8, <2>4 DEF Age, TypeOK
<1> QED
  BY <1>4, <1>5, <1>6, <1>7, <1>8

\* The task that receives mesh messages.
LEMMA TypeOKRx ==
    ASSUME TypeOK, NEW d \in Node,
           (\E m \in inbox[d] : Receive(d, m)) \/ RxPublish(d) \/ RxApply(d)
    PROVE  TypeOK'
<1> DEFINE RxTask == Task({"idle", "apply", "report"})
<1>1. OtaTypeOK /\ (UNCHANGED otaVars => OtaTypeOK')
  BY OtaType DEF TypeOK
<1>2. Idle \in RxTask /\ rx[d] \in RxTask
  BY Tasks DEF Idle, TypeOK
<1>3. rx[d].snap \in Snapshot \cup {None} /\ rx[d].on \in BOOLEAN
  BY <1>2, Tasks
<1>4. ASSUME NEW m \in inbox[d], Receive(d, m) PROVE TypeOK'
  <2>1. m \in Message /\ (Taken(d, m) => inbox' \in [Node -> SUBSET Message])
    BY DEF Taken, TypeOK
  <2>2. CASE RxStatus(d, m)
    <3>1. m.from \in Node /\ m.on \in BOOLEAN
      BY <2>1, <2>2, Messages DEF RxStatus
    <3>2. CASE Heard(d, m.from, m.on)
               /\ rx' = [rx EXCEPT ![d] = [pc |-> "report", on |-> FALSE,
                           snap |-> [id |-> m.from, online |-> TRUE, on |-> m.on]]]
      <4>1. [online |-> TRUE, on |-> m.on, isRoot |-> FALSE, old |-> FALSE] \in Entry
            /\ [id |-> m.from, online |-> TRUE, on |-> m.on] \in Snapshot
        BY <3>1 DEF Entry, Snapshot
      <4>2. nodes' \in [Node -> [Node -> Entry \cup {None}]]
        BY <3>1, <3>2, <4>1 DEF Heard, TypeOK
      <4>3. rx' \in [Node -> RxTask]
        BY <3>2, <4>1, Tasks DEF TypeOK
      <4> QED
        BY <1>1, <1>4, <2>1, <2>2, <4>2, <4>3 DEF Receive, RxStatus, TypeOK
    <3>3. CASE UNCHANGED <<nodes, rx>>
      BY <1>1, <1>4, <2>1, <2>2, <3>3 DEF Receive, RxStatus, TypeOK
    <3> QED
      BY <2>2, <3>2, <3>3 DEF RxStatus
  <2>3. CASE RxCtl(d, m)
    <3>1. [pc |-> "apply", snap |-> None, on |-> m.on] \in RxTask /\ m.on \in BOOLEAN
      BY <2>1, <2>3, Messages, Tasks DEF RxCtl
    <3>2. rx' \in [Node -> RxTask] /\ led' \in [Node -> BOOLEAN]
          /\ indicated' \in [Node -> BOOLEAN]
      BY <2>3, <3>1 DEF RxCtl, SetLed, Lit, TypeOK
    <3> QED
      BY <1>1, <1>4, <2>1, <2>3, <3>2 DEF Receive, RxCtl, TypeOK
  <2>4. CASE RxOta(d, m)
    <3>1. OtaTypeOK'
      BY <1>1, <2>1, <2>4, Messages, OtaType DEF RxOta
    <3> QED
      BY <1>4, <2>1, <2>4, <3>1 DEF Receive, RxOta, TypeOK
  <2>5. CASE RxSuccess(d, m)
    <3>1. m.from \in Node /\ m.fw \in 0..MaxVersion
      BY <2>1, <2>5, Messages, MaxVersionAssumption DEF RxSuccess, Version
    <3>2. upgraded' \in [Node -> 0..MaxVersion]
      BY <2>5, <3>1 DEF RxSuccess, TypeOK
    <3> QED
      BY <1>1, <1>4, <2>1, <2>5, <3>2 DEF Receive, RxSuccess, TypeOK
  <2> QED
    BY <1>4, <2>2, <2>3, <2>4, <2>5 DEF Receive
<1>5. CASE RxPublish(d)
  <2>1. /\ retained' \in [Node -> [online : BOOLEAN, on : BOOLEAN] \cup {None}]
        /\ queue' \in [Node -> Snapshot \cup {None}]
    BY <1>3, <1>5, PublishNodeStatusType DEF RxPublish
  <2> QED
    BY <1>1, <1>2, <1>5, <2>1 DEF RxPublish, TypeOK
<1>6. CASE RxApply(d)
  <2>1. inbox' \in [Node -> SUBSET Message]
    <3>1. CASE role[d] = "node" /\ linked[d] /\ rootAddr[d] # None
      <4>1. rootAddr[d] \in Node
        BY <3>1 DEF TypeOK
      <4> QED
        BY <1>3, <1>6, <3>1, <4>1, Messages, SentType DEF RxApply, StatusUpstream
    <3>2. CASE ~(role[d] = "node" /\ linked[d] /\ rootAddr[d] # None)
      BY <1>6, <3>2 DEF RxApply, StatusUpstream, TypeOK
    <3> QED
      BY <3>1, <3>2
  <2> QED
    BY <1>1, <1>2, <1>3, <1>6, <2>1 DEF RxApply, TypeOK
<1> QED
  BY <1>4, <1>5, <1>6

LEMMA TypeOKInit == Init => TypeOK
<1> SUFFICES ASSUME Init PROVE TypeOK
  OBVIOUS
<1>1. OtaTypeOK
  BY MaxVersionAssumption DEF Init, OtaInit, OtaTypeOK, Version
<1>2. \A pcs : "idle" \in pcs => Idle \in Task(pcs)
  BY Tasks DEF Idle
<1>3. /\ tx \in [Node -> Task({"idle", "self", "expire", "expired", "gateway"})]
      /\ rx \in [Node -> Task({"idle", "apply", "report"})]
      /\ mq \in [Node -> Task({"idle", "connected", "apply", "self"})]
  BY <1>2 DEF Init
<1>4. upgraded \in [Node -> 0..MaxVersion] /\ effort \in 0..MaxEffort
  BY MaxVersionAssumption, MaxEffortAssumption DEF Init
<1> QED
  BY <1>1, <1>3, <1>4 DEF Init, TypeOK

\* Next, device by device and task by task: what every proof about a step splits on.
LEMMA Steps ==
    ASSUME Next
    PROVE  \/ \E d \in Node :
                \/ OtaTask(d) \/ ClearSuccess(d) \/ PowerOff(d) \/ PowerOn(d) \/ OtaRestart(d)
                \/ \/ ParentConnected(d) \/ RootAddress(d) \/ ParentDisconnected(d) \/ GotIp(d)
                   \/ \E e \in Node : RootSwitch(d, e)
                \/ \/ MqttConnected(d) \/ MqttConnectedPublish(d) \/ Flush(d)
                   \/ MqttApply(d) \/ MqttPublish(d)
                \/ \/ \E on \in BOOLEAN : BroadcastCommand(d, on)
                   \/ \E n \in Node, on \in BOOLEAN : NodeCommand(d, n, on)
                   \/ \E n \in Upgradable, v \in Version \ {1} : OtaCommand(d, n, v)
                \/ \/ TxTick(d) \/ TxPublish(d) \/ TxExpire(d) \/ TxGateway(d)
                   \/ \E n \in Node : Age(d, n)
                \/ (\E m \in inbox[d] : Receive(d, m)) \/ RxPublish(d) \/ RxApply(d)
           \/ SessionLost
BY DEF Next

LEMMA TypeOKStep == TypeOK /\ [Next]_vars => TypeOK'
<1> SUFFICES ASSUME TypeOK, [Next]_vars PROVE TypeOK'
  OBVIOUS
<1>1. CASE Next
  BY <1>1, Steps, TypeOKPower, TypeOKEvents, TypeOKMqtt, TypeOKBroker, TypeOKCommands,
     TypeOKTx, TypeOKRx
<1>2. CASE UNCHANGED vars
  BY <1>2 DEF vars, meshVars, otaVars, TypeOK, OtaTypeOK
<1> QED
  BY <1>1, <1>2

\* The type invariant of the lights: of the mesh roles, the registries, the messages under
\* way, the snapshots the tasks hold and the update client.
THEOREM WifiMeshTypeOK == Spec => []TypeOK
<1> QED
  BY TypeOKInit, TypeOKStep, PTL DEF Spec

-----------------------------------------------------------------------------
(* The LED and the reported state *)

\* A command is carried out in two steps, by MPRX on a node and by the MQTT task on the root.
\* They never overlap on one device, since a device that becomes the root has no light
\* control message left, and none is sent to the only root.
OneRoot == \A d, e \in Node : role[d] = "root" /\ role[e] = "root" => d = e

LightOK(d) ==
    /\ mq[d].pc = "apply" => role[d] = "root"
    /\ role[d] = "root" => rx[d].pc # "apply" /\ \A m \in inbox[d] : m.type # "ctl"
    /\ rx[d].pc = "apply" /\ ~indicated[d] => led[d] = Lit(d, rx[d].on)
    /\ mq[d].pc = "apply" /\ ~indicated[d] => led[d] = Lit(d, mq[d].on)
    /\ rx[d].pc # "apply" /\ mq[d].pc # "apply" /\ ~indicated[d]
         => led[d] = Lit(d, light[d])

LightInv == OneRoot /\ \A d \in Node : LightOK(d)

\* What a step does that concerns another device, or another task of this one.
Untouched(d) ==
    /\ role'[d] = role[d] /\ led'[d] = led[d] /\ light'[d] = light[d]
    /\ indicated'[d] = indicated[d]
    /\ rx'[d] = rx[d] \/ "apply" \notin {rx[d].pc, rx'[d].pc}
    /\ mq'[d] = mq[d] \/ "apply" \notin {mq[d].pc, mq'[d].pc}
    /\ \A m \in inbox'[d] \ inbox[d] : m.type = "ctl" => role[d] # "root"

LEMMA LightKept ==
    ASSUME NEW d \in Node, LightOK(d), Untouched(d)
    PROVE  LightOK(d)'
BY DEF LightOK, Untouched

LEMMA LightInvKept ==
    ASSUME LightInv, \A d \in Node : Untouched(d)
    PROVE  LightInv'
BY LightKept DEF LightInv, OneRoot, Untouched

\* A report adds no light control message.
LEMMA ReportsAreNoCommands ==
    ASSUME TypeOK, NEW d \in Node
    PROVE  /\ \A e \in Node \cup {None} : \A box \in [Node -> SUBSET Message] :
                \A n \in Node : \A m \in ConfirmReport(d, e, box)[n] \ box[n] : m.type # "ctl"
           /\ \A v \in Version : ReportSuccess(d, v) =>
                \A n \in Node : \A m \in inbox'[n] \ inbox[n] : m.type # "ctl"
           /\ \A on \in BOOLEAN : StatusUpstream(d, on) =>
                \A n \in Node : \A m \in inbox'[n] \ inbox[n] : m.type # "ctl"
<1>1. rootAddr[d] # None => rootAddr[d] \in Node
  BY DEF TypeOK
<1>2. ASSUME NEW e \in Node \cup {None}, NEW box \in [Node -> SUBSET Message], NEW n \in Node,
             NEW m \in ConfirmReport(d, e, box)[n] \ box[n]
      PROVE  m.type # "ctl"
  <2>1. m \in {[type |-> "success", from |-> d, fw |-> saved[d]]}
    BY <1>2 DEF ConfirmReport
  <2> QED
    BY <2>1
<1>3. ASSUME NEW v \in Version, ReportSuccess(d, v),
             NEW n \in Node, NEW m \in inbox'[n] \ inbox[n]
      PROVE  m.type # "ctl"
  <2>1. [type |-> "success", from |-> d, fw |-> v].type # "ctl"
    OBVIOUS
  <2>2. \/ inbox' = inbox
        \/ rootAddr[d] # None /\ Sent(rootAddr[d], [type |-> "success", from |-> d, fw |-> v])
    BY <1>3 DEF ReportSuccess
  <2> QED
    BY <1>1, <1>3, <2>1, <2>2, SentAdds
<1>4. ASSUME NEW on \in BOOLEAN, StatusUpstream(d, on),
             NEW n \in Node, NEW m \in inbox'[n] \ inbox[n]
      PROVE  m.type # "ctl"
  <2>1. [type |-> "status", from |-> d, on |-> on].type # "ctl"
    OBVIOUS
  <2>2. \/ inbox' = inbox
        \/ rootAddr[d] # None /\ Sent(rootAddr[d], [type |-> "status", from |-> d, on |-> on])
    BY <1>4 DEF StatusUpstream
  <2> QED
    BY <1>1, <1>4, <2>1, <2>2, SentAdds
<1> QED
  BY <1>2, <1>3, <1>4

LEMMA LightPower ==
    ASSUME TypeOK, LightInv, NEW d \in Node,
           OtaTask(d) \/ ClearSuccess(d) \/ PowerOff(d) \/ PowerOn(d) \/ OtaRestart(d)
    PROVE  LightInv'
<1>1. CASE UNCHANGED meshVars
  BY <1>1 DEF meshVars, LightInv, OneRoot, LightOK
<1>2. ASSUME NEW r \in {"off", "idle"}, Reset(d, r) PROVE LightInv'
  <2>1. OneRoot'
    BY <1>2 DEF Reset, LightInv, OneRoot, TypeOK
  <2>2. Idle.pc = "idle"
    BY DEF Idle, At
  <2>3. LightOK(d)'
    BY <1>2, <2>2 DEF Reset, LightOK, Lit, TypeOK
  <2>4. ASSUME NEW e \in Node \ {d} PROVE LightOK(e)'
    <3>1. Untouched(e)
      BY <1>2 DEF Reset, Untouched, TypeOK
    <3> QED
      BY <3>1, LightKept DEF LightInv
  <2> QED
    BY <2>1, <2>3, <2>4 DEF LightInv
<1> QED
  BY <1>1, <1>2 DEF OtaTask, ClearSuccess, PowerOff, PowerOn, OtaRestart

LEMMA LightEvents ==
    ASSUME TypeOK, LightInv, NEW d \in Node,
           \/ ParentConnected(d) \/ RootAddress(d) \/ ParentDisconnected(d) \/ GotIp(d)
           \/ \E e \in Node : RootSwitch(d, e)
    PROVE  LightInv'
<1>1. CASE ParentConnected(d)
  <2>1. PICK r \in {"root", "node"} :
          /\ r = "root" => \A e \in Node \ {d} : role[e] # "root"
          /\ role' = [role EXCEPT ![d] = r]
          /\ Indicate(d, TRUE)
          /\ inbox' = IF r = "node" THEN ConfirmReport(d, rootAddr[d], [inbox EXCEPT ![d] = {}])
                                    ELSE [inbox EXCEPT ![d] = {}]
    BY <1>1 DEF ParentConnected
  <2>2. UNCHANGED <<light, rx, mq>> /\ Settled(d)
    BY <1>1 DEF ParentConnected
  <2>3. OneRoot'
    BY <2>1 DEF LightInv, OneRoot, TypeOK
  <2> DEFINE box == [inbox EXCEPT ![d] = {}]
  <2>4. /\ box \in [Node -> SUBSET Message] /\ rootAddr[d] \in Node \cup {None}
        /\ box[d] = {} /\ \A e \in Node \ {d} : box[e] = inbox[e]
        /\ inbox' = box \/ inbox' = ConfirmReport(d, rootAddr[d], box)
    BY <2>1 DEF TypeOK
  <2> HIDE DEF box
  <2>5. \A e \in Node : \A m \in inbox'[e] \ box[e] : m.type # "ctl"
    BY <2>4, ReportsAreNoCommands
  <2>6. LightOK(d)'
    BY <2>1, <2>2, <2>4, <2>5 DEF Indicate, Settled, LightOK, TypeOK
  <2>7. ASSUME NEW e \in Node \ {d} PROVE LightOK(e)'
    <3>1. Untouched(e)
      BY <2>1, <2>2, <2>4, <2>5 DEF Indicate, Untouched, TypeOK
    <3> QED
      BY <3>1, LightKept DEF LightInv
  <2> QED
    BY <2>3, <2>6, <2>7 DEF LightInv
<1>2. CASE RootAddress(d)
  <2>1. inbox \in [Node -> SUBSET Message]
    BY DEF TypeOK
  <2>2. UNCHANGED <<role, led, light, indicated, rx, mq>>
        /\ \E e \in Node : inbox' = ConfirmReport(d, e, inbox)
    BY <1>2 DEF RootAddress
  <2>3. \A e \in Node : \A m \in inbox'[e] \ inbox[e] : m.type # "ctl"
    BY <2>1, <2>2, ReportsAreNoCommands
  <2> QED
    BY <2>2, <2>3, LightInvKept DEF Untouched
<1>3. CASE ParentDisconnected(d)
  <2>1. UNCHANGED <<role, light, rx, mq>> /\ Indicate(d, FALSE)
        /\ inbox' = [inbox EXCEPT ![d] = {}]
    BY <1>3 DEF ParentDisconnected
  <2>2. LightOK(d)'
    BY <2>1 DEF Indicate, LightInv, LightOK, TypeOK
  <2>3. ASSUME NEW e \in Node \ {d} PROVE LightOK(e)'
    <3>1. Untouched(e)
      BY <2>1 DEF Indicate, Untouched, TypeOK
    <3> QED
      BY <3>1, LightKept DEF LightInv
  <2> QED
    BY <2>1, <2>2, <2>3 DEF LightInv, OneRoot
<1>4. CASE GotIp(d)
  BY <1>4, LightInvKept DEF GotIp, Untouched
<1>5. ASSUME NEW e \in Node, RootSwitch(d, e) PROVE LightInv'
  <2>1. /\ role' = [role EXCEPT ![d] = "node", ![e] = "root"]
        /\ indicated' = [indicated EXCEPT ![d] = TRUE, ![e] = TRUE]
        /\ led' = [led EXCEPT ![d] = Lit(d, TRUE), ![e] = Lit(e, TRUE)]
        /\ inbox' = [inbox EXCEPT ![d] = {}, ![e] = {}]
        /\ UNCHANGED <<light, rx, mq>>
        /\ Settled(d) /\ Settled(e) /\ role[d] = "root" /\ role[e] = "node"
    BY <1>5 DEF RootSwitch
  <2>2. OneRoot'
    BY <2>1 DEF LightInv, OneRoot, TypeOK
  <2>3. LightOK(d)' /\ LightOK(e)'
    BY <2>1 DEF Settled, LightInv, LightOK, TypeOK
  <2>4. ASSUME NEW n \in Node \ {d, e} PROVE LightOK(n)'
    <3>1. Untouched(n)
      BY <2>1 DEF Untouched, TypeOK
    <3> QED
      BY <3>1, LightKept DEF LightInv
  <2> QED
    BY <2>2, <2>3, <2>4 DEF LightInv
<1> QED
  BY <1>1, <1>2, <1>3, <1>4, <1>5
LEMMA LightMqtt ==
    ASSUME TypeOK, LightInv, NEW d \in Node,
           MqttConnected(d) \/ MqttConnectedPublish(d) \/ Flush(d) \/ MqttApply(d) \/ MqttPublish(d)
    PROVE  LightInv'
<1>1. Idle.pc = "idle"
  BY DEF Idle, At
<1>2. CASE MqttConnected(d)
  <2>1. \A e \in Node : Untouched(e)
    BY <1>2 DEF MqttConnected, Untouched, TypeOK
  <2> QED
    BY <2>1, LightInvKept
<1>3. CASE MqttConnectedPublish(d)
  <2>1. \A n \in Node : \A m \in inbox'[n] \ inbox[n] : m.type # "ctl"
    <3>1. OtaConfirms(d) => saved[d] \in Version
      BY MaxVersionAssumption DEF OtaConfirms, TypeOK, OtaTypeOK, Version
    <3> QED
      BY <1>3, <3>1, ReportsAreNoCommands DEF MqttConnectedPublish
  <2>2. \A e \in Node : Untouched(e)
    BY <1>1, <1>3, <2>1 DEF MqttConnectedPublish, Untouched, TypeOK
  <2> QED
    BY <2>2, LightInvKept
<1>4. CASE Flush(d)
  <2>1. \A e \in Node : Untouched(e)
    BY <1>4 DEF Flush, Untouched
  <2> QED
    BY <2>1, LightInvKept
<1>5. CASE MqttApply(d)
  <2>1. /\ mq[d].pc = "apply" /\ UNCHANGED <<role, led, indicated, inbox, rx>>
        /\ light' = [light EXCEPT ![d] = mq[d].on]
        /\ mq'[d].pc = "self" /\ \A e \in Node \ {d} : mq'[e] = mq[e]
    BY <1>5 DEF MqttApply, TypeOK
  <2>2. LightOK(d)'
    BY <2>1 DEF LightInv, LightOK, TypeOK
  <2>3. ASSUME NEW e \in Node \ {d} PROVE LightOK(e)'
    <3>1. Untouched(e)
      BY <2>1 DEF Untouched, TypeOK
    <3> QED
      BY <3>1, LightKept DEF LightInv
  <2> QED
    BY <2>1, <2>2, <2>3 DEF LightInv, OneRoot
<1>6. CASE MqttPublish(d)
  <2>1. \A e \in Node : Untouched(e)
    BY <1>1, <1>6 DEF MqttPublish, Untouched, TypeOK
  <2> QED
    BY <2>1, LightInvKept
<1> QED
  BY <1>2, <1>3, <1>4, <1>5, <1>6

LEMMA LightCommands ==
    ASSUME TypeOK, LightInv, NEW d \in Node,
           \/ \E on \in BOOLEAN : BroadcastCommand(d, on)
           \/ \E n \in Node, on \in BOOLEAN : NodeCommand(d, n, on)
           \/ \E n \in Upgradable, v \in Version \ {1} : OtaCommand(d, n, v)
    PROVE  LightInv'
\* A root takes a command for its own light.
<1>1. ASSUME NEW on \in BOOLEAN, Online(d), mq[d].pc = "idle", SetLed(d, on),
             UNCHANGED <<role, light, rx>>,
             mq' = [mq EXCEPT ![d] = [pc |-> "apply", snap |-> None, on |-> on]],
             inbox'[d] = inbox[d],
             \A e \in Node \ {d} : \A m \in inbox'[e] \ inbox[e] : m.type = "ctl" => role[e] # "root"
      PROVE  LightInv'
  <2>1. role[d] = "root"
    BY <1>1 DEF Online
  <2>2. LightOK(d)'
    BY <1>1, <2>1 DEF SetLed, LightInv, LightOK, TypeOK
  <2>3. ASSUME NEW e \in Node \ {d} PROVE LightOK(e)'
    <3>1. Untouched(e)
      BY <1>1 DEF SetLed, Untouched, TypeOK
    <3> QED
      BY <3>1, LightKept DEF LightInv
  <2> QED
    BY <1>1, <2>2, <2>3 DEF LightInv, OneRoot
<1>2. ASSUME NEW on \in BOOLEAN, BroadcastCommand(d, on) PROVE LightInv'
  <2>1. Online(d) /\ mq[d].pc = "idle" /\ SetLed(d, on) /\ UNCHANGED <<role, light, rx>>
        /\ mq' = [mq EXCEPT ![d] = [pc |-> "apply", snap |-> None, on |-> on]]
        /\ inbox' = [e \in Node |-> IF e \in BroadcastTargets(d)
                                    THEN inbox[e] \cup {[type |-> "ctl", on |-> on]}
                                    ELSE inbox[e]]
    BY <1>2 DEF BroadcastCommand, CommandArrives
  <2>2. inbox'[d] = inbox[d]
    BY <2>1 DEF BroadcastTargets
  <2>3. \A e \in Node \ {d} : role[e] # "root"
    BY <2>1 DEF Online, LightInv, OneRoot
  <2> QED
    BY <1>1, <2>1, <2>2, <2>3
<1>3. ASSUME NEW n \in Node, NEW on \in BOOLEAN, NodeCommand(d, n, on) PROVE LightInv'
  <2>1. Online(d) /\ mq[d].pc = "idle" /\ UNCHANGED <<role, light, rx>>
    BY <1>3 DEF NodeCommand, CommandArrives
  <2>2. CASE n = d
    <3>1. SetLed(d, on) /\ inbox' = inbox
          /\ mq' = [mq EXCEPT ![d] = [pc |-> "apply", snap |-> None, on |-> on]]
      BY <1>3, <2>2 DEF NodeCommand
    <3> QED
      BY <1>1, <2>1, <3>1
  <2>3. CASE n # d
    <3>1. UNCHANGED <<led, indicated, mq>>
          /\ (Sent(n, [type |-> "ctl", on |-> on]) \/ inbox' = inbox)
      BY <1>3, <2>3 DEF NodeCommand
    <3>2. role[n] # "root"
      BY <2>1, <2>3 DEF Online, LightInv, OneRoot
    <3>3. \A e \in Node : Untouched(e)
      BY <2>1, <3>1, <3>2 DEF Sent, Untouched, TypeOK
    <3> QED
      BY <3>3, LightInvKept
  <2> QED
    BY <2>2, <2>3
<1>4. ASSUME NEW n \in Upgradable, NEW v \in Version \ {1}, OtaCommand(d, n, v) PROVE LightInv'
  <2>1. UNCHANGED <<role, light, led, indicated, rx, mq>>
        /\ \/ inbox' = inbox
           \/ Registered(d, n) /\ Sent(n, [type |-> "ota", fw |-> v])
    BY <1>4 DEF OtaCommand
  <2>2. \A e \in Node : Untouched(e)
    BY <2>1 DEF Registered, Used, Sent, Untouched, TypeOK
  <2> QED
    BY <2>2, LightInvKept
<1> QED
  BY <1>2, <1>3, <1>4

LEMMA LightTx ==
    ASSUME TypeOK, LightInv, NEW d \in Node,
           \/ TxTick(d) \/ TxPublish(d) \/ TxExpire(d) \/ TxGateway(d)
           \/ \E n \in Node : Age(d, n)
    PROVE  LightInv'
<1>1. UNCHANGED <<role, light, led, indicated, rx, mq>>
  BY DEF TxTick, TxPublish, TxExpire, TxGateway, Age
<1>2. \A n \in Node : \A m \in inbox'[n] \ inbox[n] : m.type # "ctl"
  <2>1. light[d] \in BOOLEAN
    BY DEF TypeOK
  <2>2. inbox' = inbox \/ StatusUpstream(d, light[d])
    BY DEF TxTick, TxPublish, TxExpire, TxGateway, Age
  <2> QED
    BY <2>1, <2>2, ReportsAreNoCommands
<1> QED
  BY <1>1, <1>2, LightInvKept DEF Untouched

LEMMA LightRx ==
    ASSUME TypeOK, LightInv, NEW d \in Node,
           (\E m \in inbox[d] : Receive(d, m)) \/ RxPublish(d) \/ RxApply(d)
    PROVE  LightInv'
<1>1. ASSUME NEW m \in inbox[d], Receive(d, m) PROVE LightInv'
  <2>1. UNCHANGED <<role, light, mq>> /\ rx[d].pc = "idle"
        /\ Taken(d, m)
    BY <1>1 DEF Receive, RxStatus, RxCtl, RxOta, RxSuccess
  <2>2. CASE RxCtl(d, m)
    <3>1. role[d] # "root"
      BY <2>2 DEF RxCtl, LightInv, LightOK
    <3>2. SetLed(d, m.on) /\ rx' = [rx EXCEPT ![d] = [pc |-> "apply", snap |-> None, on |-> m.on]]
      BY <2>2 DEF RxCtl
    <3>3. LightOK(d)'
      BY <2>1, <3>1, <3>2 DEF SetLed, Taken, LightInv, LightOK, TypeOK
    <3>4. ASSUME NEW e \in Node \ {d} PROVE LightOK(e)'
      <4>1. Untouched(e)
        BY <2>1, <3>2 DEF SetLed, Taken, Untouched, TypeOK
      <4> QED
        BY <4>1, LightKept DEF LightInv
    <3> QED
      BY <2>1, <3>3, <3>4 DEF LightInv, OneRoot
  <2>3. CASE RxStatus(d, m) \/ RxOta(d, m) \/ RxSuccess(d, m)
    <3>1. UNCHANGED <<led, indicated>>
          /\ \/ rx' = rx
             \/ rx' = [rx EXCEPT ![d] = [pc |-> "report", on |-> FALSE,
                         snap |-> [id |-> m.from, online |-> TRUE, on |-> m.on]]]
      BY <2>3 DEF RxStatus, RxOta, RxSuccess
    <3>2. \A e \in Node : Untouched(e)
      BY <2>1, <3>1 DEF Taken, Untouched, TypeOK
    <3> QED
      BY <3>2, LightInvKept
  <2> QED
    BY <1>1, <2>2, <2>3 DEF Receive
<1>2. Idle.pc = "idle"
  BY DEF Idle, At
<1>3. CASE RxPublish(d)
  <2>1. \A e \in Node : Untouched(e)
    BY <1>2, <1>3 DEF RxPublish, Untouched, TypeOK
  <2> QED
    BY <2>1, LightInvKept
<1>4. CASE RxApply(d)
  <2>1. /\ rx[d].pc = "apply" /\ UNCHANGED <<role, led, indicated, mq>>
        /\ light' = [light EXCEPT ![d] = rx[d].on]
        /\ rx'[d].pc = "idle" /\ \A e \in Node \ {d} : rx'[e] = rx[e]
    BY <1>2, <1>4 DEF RxApply, TypeOK
  <2>2. \A n \in Node : \A m \in inbox'[n] \ inbox[n] : m.type # "ctl"
    <3>1. rx[d].on \in BOOLEAN /\ StatusUpstream(d, rx[d].on)
      BY <1>4, Tasks DEF RxApply, TypeOK
    <3> QED
      BY <3>1, ReportsAreNoCommands
  <2>3. LightOK(d)'
    BY <2>1, <2>2 DEF LightInv, LightOK, TypeOK
  <2>4. ASSUME NEW e \in Node \ {d} PROVE LightOK(e)'
    <3>1. Untouched(e)
      BY <2>1, <2>2 DEF Untouched, TypeOK
    <3> QED
      BY <3>1, LightKept DEF LightInv
  <2> QED
    BY <2>1, <2>3, <2>4 DEF LightInv, OneRoot
<1> QED
  BY <1>1, <1>3, <1>4

LEMMA LightStep == TypeOK /\ LightInv /\ [Next]_vars => LightInv'
<1> SUFFICES ASSUME TypeOK, LightInv, [Next]_vars PROVE LightInv'
  OBVIOUS
<1>1. CASE SessionLost
  BY <1>1, LightInvKept DEF SessionLost, Untouched
<1>2. CASE Next
  BY <1>1, <1>2, Steps, LightPower, LightEvents, LightMqtt, LightCommands, LightTx, LightRx
<1>3. CASE UNCHANGED vars
  BY <1>3, LightInvKept DEF vars, meshVars, Untouched
<1> QED
  BY <1>2, <1>3

\* A light on the ESP32-S3 reports what its LED shows: the two statements that change them are
\* never mixed with those of another command, and neither the root nor a node obeys a stale one.
THEOREM LedAgreesAlways == Spec => []LedAgrees
<1>1. Init => LightInv
  <2>1. Idle.pc = "idle"
    BY DEF Idle, At
  <2>2. ASSUME Init, NEW d \in Node PROVE LightOK(d)
    BY <2>1, <2>2 DEF Init, LightOK, Lit
  <2> QED
    BY <2>2 DEF Init, LightInv, OneRoot
<1>2. TypeOK /\ LightInv => LedAgrees
  <2>1. ASSUME NEW on \in BOOLEAN, NEW d \in Rgb PROVE Lit(d, on) = on
    BY DEF Lit
  <2>2. ASSUME TypeOK, LightInv, NEW d \in Rgb PROVE ShowsState(d)
    <3>1. d \in Node /\ light[d] \in BOOLEAN
      BY <2>2, BoardAssumption DEF TypeOK
    <3>2. Lit(d, light[d]) = light[d]
      BY <2>1, <3>1
    <3>3. LightOK(d)
      BY <2>2, <3>1 DEF LightInv
    <3> QED
      BY <3>2, <3>3 DEF LightOK, ShowsState
  <2> QED
    BY <2>2 DEF LedAgrees
<1> QED
  BY <1>1, <1>2, LightStep, WifiMeshTypeOK, PTL DEF Spec
-----------------------------------------------------------------------------
(* The record of a pending success *)

\* The record was reported after this boot, and is erased or about to be.
Confirmed(d) == saved[d] = 0 \/ clearing[d]

\* The record always names the image the next boot starts. A new download could break that:
\* it changes the image and leaves the record of an older success. It starts only with a
\* command, a command needs a connection, and whichever way the device is connected it has
\* confirmed before.
RecordOK(d) ==
    /\ saved[d] # 0 => boot[d] = saved[d]
    /\ ota[d].pc \in {"save", "restart"} => boot[d] = ota[d].fw
    /\ ota[d].pc = "download" => Confirmed(d)
    /\ ota[d].pc # "restart" /\ client[d] = "up" /\ mq[d].pc # "connected" => Confirmed(d)
    /\ ota[d].pc # "restart" /\ rootAddr[d] # None => Confirmed(d)

RecordInv == \A d \in Node : RecordOK(d)

SameRecord(d) ==
    ota'[d] = ota[d] /\ boot'[d] = boot[d] /\ saved'[d] = saved[d] /\ clearing'[d] = clearing[d]

\* Neither a new connection nor a new root the device knows of.
NoNewLink(d) ==
    /\ client'[d] = "up" /\ mq'[d].pc # "connected" => client[d] = "up" /\ mq[d].pc # "connected"
    /\ rootAddr'[d] # None => rootAddr[d] # None

LEMMA RecordKept ==
    ASSUME NEW d \in Node, RecordOK(d), SameRecord(d), NoNewLink(d)
    PROVE  RecordOK(d)'
BY DEF RecordOK, Confirmed, SameRecord, NoNewLink

LEMMA RecordInvKept ==
    ASSUME RecordInv, \A d \in Node : SameRecord(d) /\ NoNewLink(d)
    PROVE  RecordInv'
BY RecordKept DEF RecordInv

\* What the steps of the update client do to the record, whatever else the action changes.
LEMMA OtaSteps ==
    ASSUME OtaTypeOK, NEW d \in Node, RecordOK(d)
    PROVE  /\ OtaConfirm(d) => RecordOK(d)'
           /\ OtaClear(d) => RecordOK(d)'
           /\ OtaBoot(d) /\ client'[d] # "up" /\ rootAddr'[d] = None => RecordOK(d)'
           /\ NoNewLink(d) => (OtaFail(d) \/ OtaFinish(d) \/ OtaSave(d) => RecordOK(d)')
           /\ \A v \in Version : OtaStart(d, v) /\ NoNewLink(d) /\ Confirmed(d) => RecordOK(d)'
           /\ \/ OtaConfirm(d) \/ OtaClear(d) \/ OtaBoot(d) \/ OtaFail(d) \/ OtaFinish(d)
              \/ OtaSave(d) \/ \E v \in Version : OtaStart(d, v)
              => \A e \in Node \ {d} : SameRecord(e)
<1> USE DEF OtaTypeOK
<1>1. ASSUME OtaConfirm(d) PROVE RecordOK(d)'
  <2>1. Confirmed(d)'
    BY <1>1 DEF OtaConfirm, OtaConfirms, Confirmed
  <2> QED
    BY <1>1, <2>1 DEF OtaConfirm, RecordOK
<1>2. ASSUME OtaClear(d) PROVE RecordOK(d)'
  BY <1>2 DEF OtaClear, RecordOK, Confirmed
<1>3. ASSUME OtaBoot(d), client'[d] # "up", rootAddr'[d] = None PROVE RecordOK(d)'
  BY <1>3 DEF OtaBoot, NoTask, RecordOK
<1>4. ASSUME NoNewLink(d), OtaFail(d) PROVE RecordOK(d)'
  BY <1>4 DEF OtaFail, ImageRejected, NoTask, NoNewLink, RecordOK, Confirmed
<1>5. ASSUME NoNewLink(d), OtaFinish(d) PROVE RecordOK(d)'
  BY <1>5 DEF OtaFinish, NoNewLink, RecordOK, Confirmed
<1>6. ASSUME NoNewLink(d), OtaSave(d) PROVE RecordOK(d)'
  BY <1>6 DEF OtaSave, RecordOK
<1>7. ASSUME NEW v \in Version, OtaStart(d, v), NoNewLink(d), Confirmed(d) PROVE RecordOK(d)'
  BY <1>7 DEF OtaStart, NoNewLink, RecordOK, Confirmed
<1>8. ASSUME NEW e \in Node \ {d},
             \/ OtaConfirm(d) \/ OtaClear(d) \/ OtaBoot(d) \/ OtaFail(d) \/ OtaFinish(d)
             \/ OtaSave(d) \/ \E v \in Version : OtaStart(d, v)
      PROVE  SameRecord(e)
  BY <1>8 DEF OtaConfirm, OtaClear, OtaBoot, OtaFail, ImageRejected, OtaFinish, OtaSave,
            OtaStart, SameRecord
<1> QED
  BY <1>1, <1>2, <1>3, <1>4, <1>5, <1>6, <1>7, <1>8

LEMMA RecordStep == TypeOK /\ RecordInv /\ [Next]_vars => RecordInv'
<1> SUFFICES ASSUME TypeOK, RecordInv, [Next]_vars PROVE RecordInv'
  OBVIOUS
<1> USE DEF RecordInv
<1>1. OtaTypeOK
  BY DEF TypeOK
<1>2. \A d \in Node : UNCHANGED otaVars => SameRecord(d)
  BY DEF otaVars, SameRecord
<1>3. ASSUME NEW d \in Node,
             OtaTask(d) \/ ClearSuccess(d) \/ PowerOff(d) \/ PowerOn(d) \/ OtaRestart(d)
      PROVE  RecordInv'
  <2>1. CASE OtaTask(d) \/ ClearSuccess(d)
    <3>1. \A e \in Node : NoNewLink(e)
      BY <2>1 DEF OtaTask, ClearSuccess, meshVars, NoNewLink
    <3> QED
      BY <1>1, <2>1, <3>1, OtaSteps, RecordKept DEF OtaTask, ClearSuccess
  <2>2. ASSUME NEW r \in {"off", "idle"}, Reset(d, r) PROVE RecordInv'
    <3>1. OtaBoot(d) /\ client'[d] # "up" /\ rootAddr'[d] = None
      BY <2>2 DEF Reset, TypeOK
    <3>2. \A e \in Node \ {d} : NoNewLink(e)
      BY <2>2 DEF Reset, NoNewLink, TypeOK
    <3> QED
      BY <1>1, <3>1, <3>2, OtaSteps, RecordKept
  <2> QED
    BY <1>3, <2>1, <2>2 DEF PowerOff, PowerOn, OtaRestart
<1>4. ASSUME NEW d \in Node,
             \/ ParentConnected(d) \/ RootAddress(d) \/ ParentDisconnected(d) \/ GotIp(d)
             \/ \E e \in Node : RootSwitch(d, e)
      PROVE  RecordInv'
  <2>1. CASE ParentConnected(d) \/ RootAddress(d)
    <3>1. \A e \in Node \ {d} : NoNewLink(e)
      BY <2>1 DEF ParentConnected, RootAddress, NoNewLink, TypeOK
    <3>2. OtaConfirm(d) \/ (UNCHANGED otaVars /\ NoNewLink(d))
      BY <2>1 DEF ParentConnected, RootAddress, NoNewLink
    <3> QED
      BY <1>1, <1>2, <3>1, <3>2, OtaSteps, RecordKept
  <2>2. CASE ParentDisconnected(d) \/ GotIp(d) \/ \E e \in Node : RootSwitch(d, e)
    <3>1. /\ UNCHANGED <<rootAddr, mq, otaVars>>
          /\ client' = client \/ \E c \in {"none", "down"} : client' = [client EXCEPT ![d] = c]
      BY <2>2 DEF ParentDisconnected, MqttAppStop, GotIp, MqttAppStart, RootSwitch
    <3>2. \A e \in Node : NoNewLink(e)
      BY <3>1 DEF NoNewLink, TypeOK
    <3> QED
      BY <1>2, <3>1, <3>2, RecordInvKept
  <2> QED
    BY <1>4, <2>1, <2>2
<1>5. ASSUME NEW d \in Node,
             \/ MqttConnected(d) \/ MqttConnectedPublish(d) \/ Flush(d)
             \/ MqttApply(d) \/ MqttPublish(d)
      PROVE  RecordInv'
  <2>1. CASE MqttConnectedPublish(d)
    <3>1. OtaConfirm(d) /\ \A e \in Node \ {d} : NoNewLink(e)
      BY <2>1 DEF MqttConnectedPublish, NoNewLink, TypeOK
    <3> QED
      BY <1>1, <3>1, OtaSteps, RecordKept
  <2>2. CASE MqttConnected(d)
    <3>1. UNCHANGED otaVars /\ \A e \in Node : NoNewLink(e)
      BY <2>2 DEF MqttConnected, NoNewLink, TypeOK
    <3> QED
      BY <1>2, <3>1, RecordInvKept
  <2>3. CASE Flush(d) \/ MqttApply(d) \/ MqttPublish(d)
    <3>1. /\ UNCHANGED <<client, rootAddr, otaVars>>
          /\ mq' = mq \/ (mq[d].pc # "connected" /\ \A e \in Node \ {d} : mq'[e] = mq[e])
      BY <2>3 DEF Flush, MqttApply, MqttPublish, TypeOK
    <3>2. \A e \in Node : NoNewLink(e)
      BY <3>1 DEF NoNewLink
    <3> QED
      BY <1>2, <3>1, <3>2, RecordInvKept
  <2> QED
    BY <1>5, <2>1, <2>2, <2>3
<1>6. ASSUME NEW d \in Node,
             \/ \E on \in BOOLEAN : BroadcastCommand(d, on)
             \/ \E n \in Node, on \in BOOLEAN : NodeCommand(d, n, on)
             \/ \E n \in Upgradable, v \in Version \ {1} : OtaCommand(d, n, v)
      PROVE  RecordInv'
  <2>1. /\ client[d] = "up" /\ mq[d].pc = "idle" /\ UNCHANGED <<client, rootAddr>>
        /\ mq' = mq \/ \A e \in Node \ {d} : mq'[e] = mq[e]
    BY <1>6 DEF BroadcastCommand, NodeCommand, OtaCommand, CommandArrives, Online, TypeOK
  <2>2. \A e \in Node : NoNewLink(e)
    BY <2>1 DEF NoNewLink
  <2>3. UNCHANGED otaVars \/ \E v \in Version : OtaStart(d, v)
    BY <1>6 DEF BroadcastCommand, NodeCommand, OtaCommand
  <2>4. CASE UNCHANGED otaVars
    BY <1>2, <2>2, <2>4, RecordInvKept
  <2>5. CASE ota[d].pc # "restart" /\ \E v \in Version : OtaStart(d, v)
    <3>1. Confirmed(d)
      BY <2>1, <2>5 DEF RecordOK
    <3> QED
      BY <1>1, <2>2, <2>5, <3>1, OtaSteps, RecordKept
  <2>6. CASE ota[d].pc = "restart" /\ \E v \in Version : OtaStart(d, v)
    BY <1>2, <2>2, <2>6, RecordInvKept DEF OtaStart, otaVars
  <2> QED
    BY <2>3, <2>4, <2>5, <2>6
<1>7. ASSUME NEW d \in Node,
             \/ \/ TxTick(d) \/ TxPublish(d) \/ TxExpire(d) \/ TxGateway(d)
                \/ \E n \in Node : Age(d, n)
             \/ (\E m \in inbox[d] : Receive(d, m)) \/ RxPublish(d) \/ RxApply(d)
      PROVE  RecordInv'
  <2>1. UNCHANGED <<client, mq, rootAddr>>
    BY <1>7 DEF TxTick, TxPublish, TxExpire, TxGateway, Age, Receive, RxPublish, RxApply
  <2>2. \A e \in Node : NoNewLink(e)
    BY <2>1 DEF NoNewLink
  <2>3. CASE UNCHANGED otaVars
    BY <1>2, <2>2, <2>3, RecordInvKept
  <2>4. ASSUME NEW m \in inbox[d], OnMesh(d), RxOta(d, m), role[d] # "root", OtaStart(d, m.fw)
        PROVE  RecordInv'
    <3>1. m.fw \in Version
      BY <2>4, Messages DEF RxOta, TypeOK
    <3>2. CASE ota[d].pc = "restart"
      BY <1>2, <2>2, <2>4, <3>2, RecordInvKept DEF OtaStart, otaVars
    <3>3. CASE ota[d].pc # "restart"
      <4>1. Confirmed(d)
        BY <2>4, <3>3 DEF OnMesh, RxOta, RecordOK
      <4> QED
        BY <1>1, <2>2, <2>4, <3>1, <4>1, OtaSteps, RecordKept
    <3> QED
      BY <3>2, <3>3
  <2> QED
    BY <1>7, <2>3, <2>4
       DEF TxTick, TxPublish, TxExpire, TxGateway, Age, Receive, RxStatus, RxCtl, RxOta,
           RxSuccess, RxPublish, RxApply
<1>8. CASE SessionLost
  <2>1. /\ UNCHANGED <<rootAddr, mq, otaVars>>
        /\ client' = client \/ client' = [client EXCEPT ![session] = "down"]
    BY <1>8 DEF SessionLost
  <2>2. \A e \in Node : NoNewLink(e)
    BY <2>1 DEF NoNewLink, TypeOK
  <2> QED
    BY <1>2, <2>1, <2>2, RecordInvKept
<1>9. CASE UNCHANGED vars
  BY <1>9, RecordInvKept DEF vars, meshVars, otaVars, SameRecord, NoNewLink
<1> QED
  BY <1>3, <1>4, <1>5, <1>6, <1>7, <1>8, <1>9, Steps
-----------------------------------------------------------------------------
(* True reports *)

LEMMA NoReportIsTrue ==
    ASSUME saved' = saved, upgraded' = upgraded,
           \A e \in Node : \A m \in inbox'[e] \ inbox[e] : m.type # "success"
    PROVE  TrueReports
BY DEF TrueReports

\* What confirm_running sends names the image the next boot starts.
LEMMA ConfirmReportIsTrue ==
    ASSUME TypeOK, RecordInv, NEW d \in Node, NEW e \in Node \cup {None},
           NEW box \in [Node -> SUBSET Message], NEW n \in Node,
           NEW m \in ConfirmReport(d, e, box)[n] \ box[n]
    PROVE  m.from = d /\ m.fw = boot[d]
<1>1. OtaConfirms(d) /\ m = [type |-> "success", from |-> d, fw |-> saved[d]]
  BY DEF ConfirmReport
<1>2. saved[d] = boot[d]
  BY <1>1 DEF OtaConfirms, RecordInv, RecordOK
<1> QED
  BY <1>1, <1>2

LEMMA ReportSuccessIsTrue ==
    ASSUME TypeOK, RecordInv, NEW d \in Node, OtaConfirms(d), ReportSuccess(d, saved[d])
    PROVE  /\ \A n \in Node : \A m \in inbox'[n] \ inbox[n] : m.from = d /\ m.fw = boot[d]
           /\ \A n \in Node : upgraded'[n] # upgraded[n] => n = d /\ upgraded'[n] = boot[d]
<1>1. saved[d] = boot[d]
  BY DEF OtaConfirms, RecordInv, RecordOK
<1>2. \A n \in Node : \A m \in inbox'[n] \ inbox[n] :
        m = [type |-> "success", from |-> d, fw |-> saved[d]]
  <2>1. rootAddr[d] # None => rootAddr[d] \in Node
    BY DEF TypeOK
  <2>2. \/ inbox' = inbox
        \/ /\ rootAddr[d] # None
           /\ Sent(rootAddr[d], [type |-> "success", from |-> d, fw |-> saved[d]])
    BY DEF ReportSuccess
  <2> QED
    BY <2>1, <2>2, SentAdds
<1>3. \A n \in Node : upgraded'[n] # upgraded[n] => n = d /\ upgraded'[n] = saved[d]
  BY DEF ReportSuccess, TypeOK
<1> QED
  BY <1>1, <1>2, <1>3

LEMMA TrueReportsStep == TypeOK /\ RecordInv /\ Next => TrueReports
<1> SUFFICES ASSUME TypeOK, RecordInv, Next PROVE TrueReports
  OBVIOUS
<1>1. ASSUME NEW d \in Node, OtaTask(d) \/ ClearSuccess(d) PROVE TrueReports
  <2>1. UNCHANGED <<inbox, upgraded>>
    BY <1>1 DEF OtaTask, ClearSuccess, meshVars
  <2>2. saved' \in {saved, [saved EXCEPT ![d] = 0]}
        \/ (ota[d].pc = "save" /\ saved' = [saved EXCEPT ![d] = ota[d].fw])
    BY <1>1 DEF OtaTask, ClearSuccess, OtaFail, ImageRejected, OtaFinish, OtaSave, OtaClear
  <2>3. \A e \in Node : saved'[e] # saved[e] /\ saved'[e] # 0 => saved'[e] = boot[e]
    BY <2>2 DEF RecordInv, RecordOK, TypeOK, OtaTypeOK
  <2> QED
    BY <2>1, <2>3 DEF TrueReports
<1>2. ASSUME NEW d \in Node,
             \/ PowerOff(d) \/ PowerOn(d) \/ OtaRestart(d)
             \/ ParentDisconnected(d) \/ GotIp(d) \/ \E e \in Node : RootSwitch(d, e)
             \/ MqttConnected(d) \/ Flush(d) \/ MqttApply(d) \/ MqttPublish(d)
             \/ TxPublish(d) \/ TxExpire(d) \/ TxGateway(d) \/ \E n \in Node : Age(d, n)
             \/ RxPublish(d)
      PROVE  TrueReports
  <2>1. /\ saved' = saved /\ upgraded' = upgraded
        /\ \/ inbox' = inbox
           \/ inbox' = [inbox EXCEPT ![d] = {}]
           \/ \E e \in Node : inbox' = [inbox EXCEPT ![d] = {}, ![e] = {}]
    BY <1>2 DEF PowerOff, PowerOn, OtaRestart, Reset, OtaBoot, ParentDisconnected, GotIp,
       RootSwitch, MqttConnected, Flush, MqttApply, MqttPublish, TxPublish, TxExpire,
       TxGateway, Age, RxPublish, otaVars
  <2> QED
    BY <2>1, NoReportIsTrue DEF TypeOK
<1>3. ASSUME NEW d \in Node, ParentConnected(d) \/ RootAddress(d) PROVE TrueReports
  <2>1. PICK box \in [Node -> SUBSET Message], e \in Node \cup {None} :
          /\ \A n \in Node : box[n] \subseteq inbox[n]
          /\ inbox' = box \/ inbox' = ConfirmReport(d, e, box)
    <3>1. CASE ParentConnected(d)
      <4>1. [inbox EXCEPT ![d] = {}] \in [Node -> SUBSET Message] /\ rootAddr[d] \in Node \cup {None}
            /\ \A n \in Node : [inbox EXCEPT ![d] = {}][n] \subseteq inbox[n]
        BY DEF TypeOK
      <4>2. \/ inbox' = [inbox EXCEPT ![d] = {}]
            \/ inbox' = ConfirmReport(d, rootAddr[d], [inbox EXCEPT ![d] = {}])
        BY <3>1 DEF ParentConnected
      <4> QED
        BY <4>1, <4>2
    <3>2. CASE RootAddress(d)
      <4>1. inbox \in [Node -> SUBSET Message] /\ \A n \in Node : inbox[n] \subseteq inbox[n]
        BY DEF TypeOK
      <4>2. \E e \in Node : inbox' = ConfirmReport(d, e, inbox)
        BY <3>2 DEF RootAddress
      <4> QED
        BY <4>1, <4>2
    <3> QED
      BY <1>3, <3>1, <3>2
  <2>2. \A n \in Node : \A m \in inbox'[n] \ inbox[n] : m.from = d /\ m.fw = boot[d]
    <3>1. ASSUME NEW n \in Node, NEW m \in ConfirmReport(d, e, box)[n] \ box[n]
          PROVE  m.from = d /\ m.fw = boot[d]
      BY ConfirmReportIsTrue, Z3
    <3> QED
      BY <2>1, <3>1
  <2>3. saved' = saved /\ upgraded' = upgraded
    BY <1>3 DEF ParentConnected, RootAddress, OtaConfirm, otaVars
  <2> QED
    BY <2>2, <2>3 DEF TrueReports
<1>4. ASSUME NEW d \in Node, MqttConnectedPublish(d) PROVE TrueReports
  <2>1. saved' = saved
    BY <1>4 DEF MqttConnectedPublish, OtaConfirm
  <2>2. CASE OtaConfirms(d)
    <3>1. /\ \A n \in Node : \A m \in inbox'[n] \ inbox[n] : m.from = d /\ m.fw = boot[d]
          /\ \A n \in Node : upgraded'[n] # upgraded[n] => n = d /\ upgraded'[n] = boot[d]
      BY <1>4, <2>2, ReportSuccessIsTrue DEF MqttConnectedPublish
    <3> QED
      BY <2>1, <3>1 DEF TrueReports
  <2>3. CASE ~OtaConfirms(d)
    BY <1>4, <2>1, <2>3, NoReportIsTrue DEF MqttConnectedPublish
  <2> QED
    BY <2>2, <2>3
<1>5. ASSUME NEW d \in Node,
             \/ \E on \in BOOLEAN : BroadcastCommand(d, on)
             \/ \E n \in Node, on \in BOOLEAN : NodeCommand(d, n, on)
             \/ \E n \in Upgradable, v \in Version \ {1} : OtaCommand(d, n, v)
      PROVE  TrueReports
  <2>1. saved' = saved /\ upgraded' = upgraded
    BY <1>5 DEF BroadcastCommand, NodeCommand, OtaCommand, OtaStart, otaVars
  <2>2. \A n \in Node : \A m \in inbox'[n] \ inbox[n] : m.type # "success"
    <3>1. ASSUME NEW on \in BOOLEAN, BroadcastCommand(d, on), NEW n \in Node,
                 NEW m \in inbox'[n] \ inbox[n]
          PROVE  m.type # "success"
      <4>1. m = [type |-> "ctl", on |-> on]
        BY <3>1 DEF BroadcastCommand
      <4> QED
        BY <4>1
    <3>2. ASSUME NEW e \in Node, NEW on \in BOOLEAN, NodeCommand(d, e, on), NEW n \in Node,
                 NEW m \in inbox'[n] \ inbox[n]
          PROVE  m.type # "success"
      <4>1. Sent(e, [type |-> "ctl", on |-> on])
        BY <3>2 DEF NodeCommand
      <4>2. m = [type |-> "ctl", on |-> on]
        BY <4>1, SentAdds
      <4> QED
        BY <4>2
    <3>3. ASSUME NEW e \in Upgradable, NEW v \in Version \ {1}, OtaCommand(d, e, v),
                 NEW n \in Node, NEW m \in inbox'[n] \ inbox[n]
          PROVE  m.type # "success"
      <4>1. e \in Node /\ Sent(e, [type |-> "ota", fw |-> v])
        BY <3>3 DEF OtaCommand, Registered, Used
      <4>2. m = [type |-> "ota", fw |-> v]
        BY <4>1, SentAdds
      <4> QED
        BY <4>2
    <3> QED
      BY <1>5, <3>1, <3>2, <3>3
  <2> QED
    BY <2>1, <2>2, NoReportIsTrue
<1>6. ASSUME NEW d \in Node, TxTick(d) \/ RxApply(d) PROVE TrueReports
  <2>1. saved' = saved /\ upgraded' = upgraded
    BY <1>6 DEF TxTick, RxApply, otaVars
  <2>2. \A on : StatusUpstream(d, on) =>
          \A n \in Node : \A m \in inbox'[n] \ inbox[n] : m.type = "status"
    <3> SUFFICES ASSUME NEW on, StatusUpstream(d, on), NEW n \in Node, NEW m \in inbox'[n] \ inbox[n]
                 PROVE  m.type = "status"
      OBVIOUS
    <3>1. \/ inbox' = inbox
          \/ /\ rootAddr[d] \in Node
             /\ Sent(rootAddr[d], [type |-> "status", from |-> d, on |-> on])
      BY DEF StatusUpstream, TypeOK
    <3>2. m = [type |-> "status", from |-> d, on |-> on]
      BY <3>1, SentAdds
    <3> QED
      BY <3>2
  <2>3. inbox' = inbox \/ \E on : StatusUpstream(d, on)
    BY <1>6 DEF TxTick, RxApply
  <2>4. \A n \in Node : \A m \in inbox'[n] \ inbox[n] : m.type # "success"
    BY <2>2, <2>3
  <2> QED
    BY <2>1, <2>4, NoReportIsTrue
<1>7. ASSUME NEW d \in Node, NEW m \in inbox[d], Receive(d, m) PROVE TrueReports
  <2>1. saved' = saved /\ \A n \in Node : inbox'[n] \subseteq inbox[n]
    <3>1. saved' = saved /\ Taken(d, m)
      BY <1>7 DEF Receive, RxStatus, RxCtl, RxOta, RxSuccess, OtaStart, otaVars
    <3> QED
      BY <3>1 DEF Taken, TypeOK
  <2>2. CASE RxSuccess(d, m)
    <3>1. m.from \in Node /\ m = [type |-> "success", from |-> m.from, fw |-> m.fw]
      BY <2>2, Messages DEF RxSuccess, TypeOK
    <3>2. \A n \in Node : upgraded'[n] # upgraded[n] => n = m.from /\ upgraded'[n] = m.fw
      BY <2>2 DEF RxSuccess, TypeOK
    <3> QED
      BY <2>1, <3>1, <3>2 DEF TrueReports
  <2>3. CASE ~RxSuccess(d, m)
    <3>1. upgraded' = upgraded
      BY <1>7, <2>3 DEF Receive, RxStatus, RxCtl, RxOta
    <3> QED
      BY <2>1, <3>1, NoReportIsTrue
  <2> QED
    BY <2>2, <2>3
<1>8. CASE SessionLost
  BY <1>8, NoReportIsTrue DEF SessionLost, otaVars
<1> QED
  BY <1>1, <1>2, <1>3, <1>4, <1>5, <1>6, <1>7, <1>8, Steps

\* No report of success names an image that the device will not start: neither the record in
\* NVS, nor a message to the root, nor what the root publishes. The proof needs RecordInv: a
\* record of an older success must be gone before a new image replaces the one it names.
THEOREM SuccessIsTrueAlways == Spec => SuccessIsTrue
<1>1. Init => RecordInv
  <2>1. ASSUME Init, NEW d \in Node PROVE RecordOK(d)
    BY <2>1 DEF Init, OtaInit, NoTask, RecordOK
  <2> QED
    BY <2>1 DEF RecordInv
<1>2. TypeOK /\ RecordInv /\ [Next]_vars => [TrueReports]_vars
  BY TrueReportsStep
<1> QED
  BY <1>1, <1>2, RecordStep, WifiMeshTypeOK, PTL DEF Spec, SuccessIsTrue
=============================================================================
