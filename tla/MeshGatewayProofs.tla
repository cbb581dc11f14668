------------------------- MODULE MeshGatewayProofs -------------------------
(***************************************************************************)
(* Proofs about the gateway for any number of lights, retries, commands,   *)
(* failures and restarts: its state is well typed, no pending command is   *)
(* orphaned, without failures the configuration of a light runs to its end *)
(* (across restarts as far as the group subscription goes), and the table  *)
(* of pending commands implements CommandLedger.  For configured lights    *)
(* and one connection, acknowledgements are true and the table is right    *)
(* about the lights once all work is done.                                 *)
(***************************************************************************)
EXTENDS MeshGateway, SequenceTheorems, TLAPS

-----------------------------------------------------------------------------
(* Typing *)

\* The slot and the id the MQTT task holds between two of its steps
MqttOK ==
    /\ mqtt.pc \in {"mark", "post", "sync"} => mqtt.at \in Slot
    /\ mqtt.pc \in {"mark", "post", "gmark", "gtask", "gpost"} => mqtt.mid \in CmdId

TypeInv == TypeOK /\ MqttOK

OutcomeOK(out) == /\ out.p \in Pending
                  /\ out.posts \in Seq(Item)
                  /\ out.failed \in Nat
                  /\ faults + out.failed <= MaxFaults

\* The bounds are numbers, and so is what they bound.
LEMMA Numbers ==
    ASSUME TypeOK
    PROVE  /\ faults \in 0..MaxFaults /\ MaxFaults \in Nat
           /\ MaxCommands \in Nat /\ MaxRetries \in Nat /\ MaxAddr \in Nat \ {0}
           /\ NumNodes \in Nat \ {0} /\ MaxConnects \in Nat /\ MaxRestarts \in Nat
BY GatewayAssumption DEF TypeOK

\* Zero is in every range a counter is reset to.
LEMMA Zeros == /\ 0 \in 0..MaxRetries /\ 0 \in 0..NumNodes /\ 0 \in 0..MaxCommands
               /\ 1 \in 0..NumNodes /\ 1 \in Slot
BY GatewayAssumption DEF Slot

\* The parts of an outcome.
LEMMA OutcomeParts ==
    ASSUME NEW p, NEW calls, NEW failures
    PROVE  /\ Outcome(p, calls, failures).p = p
           /\ Outcome(p, calls, failures).posts = calls
           /\ Outcome(p, calls, failures).failed = failures
BY Zenon DEF Outcome

\* Posting a call leaves a pending entry or the fallback, and stays within the
\* bound on failures.
LEMMA PostingType ==
    ASSUME TypeOK, NEW p \in Pending, NEW fallback \in Pending, NEW call \in Item,
           NEW out \in Posting(p, call, fallback)
    PROVE  OutcomeOK(out)
<1>1. \/ out = Outcome(p, <<call>>, 0)
      \/ faults < MaxFaults /\ out = Outcome(fallback, <<>>, 1)
  BY DEF Posting, CanFail
<1>2. <<call>> \in Seq(Item) /\ <<>> \in Seq(Item)
  OBVIOUS
<1>3. CASE out = Outcome(p, <<call>>, 0)
  <2>1. out.p = p /\ out.posts = <<call>> /\ out.failed = 0
    BY <1>3, OutcomeParts
  <2> QED BY Numbers, <1>2, <2>1 DEF OutcomeOK
<1>4. CASE faults < MaxFaults /\ out = Outcome(fallback, <<>>, 1)
  <2>1. out.p = fallback /\ out.posts = <<>> /\ out.failed = 1
    BY <1>4, OutcomeParts
  <2>2. faults + 1 <= MaxFaults
    BY Numbers, <1>4
  <2> QED BY <1>2, <2>1, <2>2 DEF OutcomeOK
<1> QED BY <1>1, <1>3, <1>4

\* Keeping a pending entry is an outcome too.
LEMMA KeepType ==
    ASSUME TypeOK, NEW p \in Pending, NEW out \in Keep(p)
    PROVE  OutcomeOK(out)
<1>1. out = Outcome(p, <<>>, 0)
  BY DEF Keep
<1>2. out.p = p /\ out.posts = <<>> /\ out.failed = 0
  BY <1>1, OutcomeParts
<1> QED BY Numbers, <1>2 DEF OutcomeOK

\* Committing a well-typed outcome keeps the pending table, the queue of the
\* BTC task and the count of failures well typed.
LEMMA CommitType ==
    ASSUME TypeOK, NEW i \in Slot, NEW queue \in Seq(Item), NEW out, OutcomeOK(out),
           Commit(i, queue, out)
    PROVE  /\ pending' \in [Slot -> Pending]
           /\ btc' \in Seq(Item)
           /\ faults' \in 0..MaxFaults
<1>1. pending' \in [Slot -> Pending]
  BY DEF TypeOK, OutcomeOK, Commit
<1>2. btc' \in Seq(Item)
  <2>1. out.posts \in Seq(Item) /\ btc' = queue \o out.posts
    BY DEF OutcomeOK, Commit
  <2> QED BY <2>1, ConcatProperties
<1>3. faults' \in 0..MaxFaults
  <2>1. /\ faults' = faults + out.failed /\ out.failed \in Nat
        /\ faults + out.failed <= MaxFaults
    BY DEF OutcomeOK, Commit
  <2> QED BY Numbers, <2>1
<1> QED BY <1>1, <1>2, <1>3

\* What is at the head of the BTC queue, and what is behind it
LEMMA HeadType ==
    ASSUME TypeOK, btc # <<>>
    PROVE  Head(btc) \in Item /\ Tail(btc) \in Seq(Item)
BY HeadTailProperties DEF TypeOK

\* The calls and events the gateway queues are items of the queue.
LEMMA CallType ==
    ASSUME TypeOK, NEW o \in Ops, NEW i \in Slot, NEW v \in 0..1
    PROVE  Call(o, i, v) \in Item
<1>1. nodes[i].unicast \in 0..MaxAddr
  BY DEF TypeOK, Node
<1> QED BY <1>1 DEF Call, Item, Kinds

\* An event about an item of the queue is an item of the queue.
LEMMA EventType ==
    ASSUME NEW k \in Kinds, NEW r \in Item, NEW v \in 0..1
    PROVE  Event(k, r, v) \in Item
BY DEF Event, Item

\* A post, queued or only logged, leaves the queue and the count of failures typed.
LEMMA PostOrLogType ==
    ASSUME TypeOK, NEW queue \in Seq(Item), NEW call \in Item, PostOrLog(queue, call)
    PROVE  btc' \in Seq(Item) /\ faults' \in 0..MaxFaults
<1>1. Append(queue, call) \in Seq(Item)
  BY AppendProperties
<1>2. \/ btc' = Append(queue, call) /\ faults' = faults
      \/ faults < MaxFaults /\ btc' = queue /\ faults' = faults + 1
  BY DEF PostOrLog, CanFail
<1>3. btc' \in Seq(Item)
  BY <1>1, <1>2
<1>4. faults' \in 0..MaxFaults
  BY Numbers, <1>2
<1> QED BY <1>3, <1>4

\* The cleared entry of the pending table, as the code writes it: all zero
LEMMA NoPendingType == NoPending \in Pending
<1>1. NoMsg \in 0..MaxCommands /\ 0 \in 0..MaxRetries
  BY GatewayAssumption DEF NoMsg
<1> QED BY <1>1 DEF NoPending, Pending

-----------------------------------------------------------------------------
(* One lemma per action *)

\* The lights are as the table has them, each in the state it was left in.
Stored == /\ device \in [Slot -> Device]
          /\ \A i \in Slot : /\ device[i].addr = Lights[i].addr
                           /\ device[i].bound = Lights[i].bound
                           /\ device[i].subscribed = Lights[i].subscribed

\* The gateway alone starts with lights that are off.
LEMMA InitStored == Init => GatewayInit /\ Stored
<1> SUFFICES ASSUME Init PROVE Stored
  BY DEF Init
<1>1. device \in [Slot -> Device]
  BY GatewayAssumption DEF Init, Lights, Device
<1> QED
  BY <1>1 DEF Init, Stored

\* The initial states are well typed.
LEMMA InitType == GatewayInit /\ Stored => TypeInv
<1> SUFFICES ASSUME GatewayInit, Stored PROVE TypeInv
  OBVIOUS
<1> USE GatewayAssumption
<1>1. nodes \in [Slot -> Node]
  BY DEF GatewayInit, Node
<1>2. pending \in [Slot -> Pending]
  BY NoPendingType DEF GatewayInit
<1>3. getRetries \in [Slot -> 0..MaxRetries] /\ cfgRetries \in [Slot -> 0..MaxRetries]
  BY DEF GatewayInit
<1>4. toggle \in (0..NumNodes) \X (0..MaxAddr)
  BY DEF GatewayInit
<1>5. btc \in Seq(Item) /\ tx \in SUBSET Item
  BY DEF GatewayInit
<1>6. device \in [Slot -> Device]
  BY DEF Stored
<1>7. mqtt \in Mqtt /\ MqttOK
  BY DEF GatewayInit, Idle, NoMsg, MqttOK, Mqtt
<1>8. connected \in BOOLEAN
  BY DEF GatewayInit
<1>9. syncAt \in [CmdId -> 0..NumNodes] /\ recoverAt \in 0..NumNodes
  BY DEF GatewayInit
<1>10. acks \in [CmdId -> [Slot -> Nat]]
  BY DEF GatewayInit
<1>11. budget \in Budget
  BY DEF GatewayInit, Budget
<1>12. faults \in 0..MaxFaults
  BY DEF GatewayInit
<1> QED BY <1>1, <1>2, <1>3, <1>4, <1>5, <1>6, <1>7, <1>8, <1>9, <1>10, <1>11, <1>12
        DEF TypeInv, TypeOK

\* The MQTT task: commands for one light
LEMMA DispatchCommandType ==
    ASSUME TypeInv, NEW i \in Slot, NEW on \in 0..1, DispatchCommand(i, on)
    PROVE  TypeInv'
<1>1. budget.cmds + 1 \in CmdId /\ budget' \in Budget
  <2>1. budget \in Budget /\ budget.cmds \in 0..MaxCommands /\ budget.cmds < MaxCommands
    BY DEF TypeInv, TypeOK, Budget, DispatchCommand
  <2>2. budget' = [budget EXCEPT !.cmds = @ + 1]
    BY DEF DispatchCommand
  <2>3. budget.cmds + 1 \in 1..MaxCommands /\ budget.cmds + 1 \in 0..MaxCommands
    BY <2>1, GatewayAssumption
  <2> QED BY <2>1, <2>2, <2>3 DEF CmdId, Budget
<1>2. mqtt' \in Mqtt /\ MqttOK'
  <2>1. CASE mqtt' = Idle
    BY <2>1, GatewayAssumption DEF Mqtt, MqttOK, Idle, NoMsg
  <2>2. CASE mqtt' = [pc |-> "mark", at |-> i, on |-> on, mid |-> budget.cmds + 1]
    BY <1>1, <2>2, GatewayAssumption DEF Mqtt, MqttOK, CmdId, Slot
  <2> QED BY <2>1, <2>2 DEF DispatchCommand
<1> QED BY <1>1, <1>2 DEF TypeInv, TypeOK, DispatchCommand, gatewayVars, taskVars

\* MarkPending keeps the state well typed.
LEMMA MarkPendingType ==
    ASSUME TypeInv, MarkPending PROVE TypeInv'
<1>1. mqtt.at \in Slot /\ mqtt.mid \in CmdId /\ mqtt.on \in 0..1
  BY DEF TypeInv, TypeOK, MqttOK, Mqtt, MarkPending
<1>2. pending' \in [Slot -> Pending]
  <2>1. mqtt.mid \in 0..MaxCommands
    BY <1>1, GatewayAssumption DEF CmdId
  <2>2. pending \in [Slot -> Pending]
    BY DEF TypeInv, TypeOK
  <2>3. [pending[mqtt.at] EXCEPT !.inFlight = TRUE, !.desired = mqtt.on, !.mid = mqtt.mid]
          \in Pending
    BY <1>1, <2>1, <2>2 DEF Pending
  <2> QED BY <1>1, <2>2, <2>3 DEF MarkPending
<1>3. mqtt' \in Mqtt /\ MqttOK'
  BY <1>1 DEF TypeInv, TypeOK, Mqtt, MqttOK, MarkPending
<1> QED BY <1>2, <1>3 DEF TypeInv, TypeOK, MarkPending, taskVars

\* PostCommand keeps the state well typed.
LEMMA PostCommandType ==
    ASSUME TypeInv, PostCommand PROVE TypeInv'
<1>1. mqtt.at \in Slot /\ mqtt.on \in 0..1 /\ btc \in Seq(Item)
  BY DEF TypeInv, TypeOK, MqttOK, Mqtt, PostCommand
<1>2. PICK out \in Posting(pending[mqtt.at], Call("set", mqtt.at, mqtt.on), NoPending) :
             Commit(mqtt.at, btc, out)
  BY DEF PostCommand
<1>3. OutcomeOK(out)
  <2>1. pending[mqtt.at] \in Pending
    BY <1>1 DEF TypeInv, TypeOK
  <2>2. Call("set", mqtt.at, mqtt.on) \in Item
    BY <1>1, CallType DEF TypeInv, Ops
  <2> QED BY <1>2, <2>1, <2>2, PostingType, NoPendingType DEF TypeInv
<1>4. pending' \in [Slot -> Pending] /\ btc' \in Seq(Item) /\ faults' \in 0..MaxFaults
  BY <1>1, <1>2, <1>3, CommitType DEF TypeInv
<1>5. mqtt' \in Mqtt /\ MqttOK'
  BY GatewayAssumption DEF PostCommand, Idle, NoMsg, Mqtt, MqttOK
<1> QED BY <1>4, <1>5 DEF TypeInv, TypeOK, PostCommand, taskVars

\* The MQTT task: group commands
LEMMA ReceiveGroupType ==
    ASSUME TypeInv, NEW on \in 0..1, ReceiveGroup(on)
    PROVE  TypeInv'
<1>1. budget.cmds + 1 \in CmdId /\ budget' \in Budget
  <2>1. budget \in Budget /\ budget.cmds \in 0..MaxCommands /\ budget.cmds < MaxCommands
    BY DEF TypeInv, TypeOK, Budget, ReceiveGroup, DispatchGroup
  <2>2. budget' = [budget EXCEPT !.cmds = @ + 1]
    BY DEF ReceiveGroup, DispatchGroup
  <2>3. budget.cmds + 1 \in 1..MaxCommands /\ budget.cmds + 1 \in 0..MaxCommands
    BY <2>1, GatewayAssumption
  <2> QED BY <2>1, <2>2, <2>3 DEF CmdId, Budget
<1>2. mqtt' \in Mqtt /\ MqttOK'
  <2>1. CASE mqtt' = Idle
    BY <2>1, GatewayAssumption DEF Mqtt, MqttOK, Idle, NoMsg
  <2>2. CASE mqtt' = [pc |-> "gmark", at |-> 0, on |-> on, mid |-> budget.cmds + 1]
    BY <1>1, <2>2, GatewayAssumption DEF Mqtt, MqttOK, CmdId
  <2> QED BY <2>1, <2>2 DEF ReceiveGroup, DispatchGroup
<1> QED BY <1>1, <1>2 DEF TypeInv, TypeOK, ReceiveGroup, DispatchGroup, gatewayVars, taskVars

\* MarkGroup keeps the state well typed.
LEMMA MarkGroupType ==
    ASSUME TypeInv, MarkGroup PROVE TypeInv'
<1>1. mqtt.mid \in CmdId /\ mqtt.mid \in 0..MaxCommands /\ mqtt.on \in 0..1
  BY GatewayAssumption DEF TypeInv, TypeOK, MqttOK, Mqtt, MarkGroup
<1>2. pending' \in [Slot -> Pending]
  <2>1. pending \in [Slot -> Pending]
    BY DEF TypeInv, TypeOK
  <2>2. \A i \in Slot : [pending[i] EXCEPT !.inFlight = TRUE, !.desired = mqtt.on,
                                           !.mid = mqtt.mid] \in Pending
    BY <1>1, <2>1 DEF Pending
  <2> QED BY <2>1, <2>2 DEF MarkGroup
<1>3. mqtt' \in Mqtt /\ MqttOK'
  BY <1>1 DEF TypeInv, TypeOK, Mqtt, MqttOK, MarkGroup
<1> QED BY <1>2, <1>3 DEF TypeInv, TypeOK, MarkGroup, taskVars

\* StartGroupSync keeps the state well typed.
LEMMA StartGroupSyncType ==
    ASSUME TypeInv, StartGroupSync PROVE TypeInv'
<1>1. mqtt.mid \in CmdId
  BY DEF TypeInv, MqttOK, StartGroupSync
<1>2. CASE /\ syncAt' = [syncAt EXCEPT ![mqtt.mid] = 1]
           /\ mqtt' = [mqtt EXCEPT !.pc = "gpost"]
           /\ UNCHANGED <<pending, faults>>
  <2>1. syncAt' \in [CmdId -> 0..NumNodes]
    BY <1>2, Zeros DEF TypeInv, TypeOK
  <2>2. mqtt' \in Mqtt /\ MqttOK'
    BY <1>1, <1>2 DEF TypeInv, TypeOK, Mqtt, MqttOK
  <2> QED BY <1>2, <2>1, <2>2 DEF TypeInv, TypeOK, StartGroupSync
<1>3. CASE /\ CanFail("task") /\ faults' = faults + 1
           /\ ClearAllPending
           /\ mqtt' = Idle
           /\ UNCHANGED syncAt
  <2>1. pending' \in [Slot -> Pending]
    BY <1>3, NoPendingType DEF ClearAllPending
  <2>2. mqtt' \in Mqtt /\ MqttOK'
    BY <1>3, GatewayAssumption DEF Idle, NoMsg, Mqtt, MqttOK
  <2>3. faults' \in 0..MaxFaults
    BY <1>3, Numbers DEF TypeInv, CanFail
  <2> QED BY <1>3, <2>1, <2>2, <2>3 DEF TypeInv, TypeOK, StartGroupSync
<1> QED BY <1>2, <1>3 DEF StartGroupSync

\* PostGroup keeps the state well typed.
LEMMA PostGroupType ==
    ASSUME TypeInv, PostGroup PROVE TypeInv'
<1>1. mqtt' \in Mqtt /\ MqttOK'
  BY GatewayAssumption DEF PostGroup, Idle, NoMsg, Mqtt, MqttOK
<1>2. btc' \in Seq(Item) /\ pending' \in [Slot -> Pending] /\ faults' \in 0..MaxFaults
  <2>1. CASE /\ btc' = Append(btc, [kind |-> "call", op |-> "group", node |-> 1,
                                    addr |-> Unassigned, on |-> mqtt.on])
             /\ UNCHANGED <<pending, faults>>
    <3>1. mqtt.on \in 0..1 /\ btc \in Seq(Item)
      BY DEF TypeInv, TypeOK, Mqtt
    <3>2. [kind |-> "call", op |-> "group", node |-> 1,
           addr |-> Unassigned, on |-> mqtt.on] \in Item
      BY <3>1, GatewayAssumption DEF Item, Kinds, Ops, Slot, Unassigned
    <3>3. btc' \in Seq(Item)
      BY <2>1, <3>1, <3>2, AppendProperties
    <3> QED BY <2>1, <3>3 DEF TypeInv, TypeOK
  <2>2. CASE /\ CanFail("post") /\ faults' = faults + 1
             /\ ClearAllPending
             /\ UNCHANGED btc
    <3>1. pending' \in [Slot -> Pending]
      BY <2>2, NoPendingType DEF ClearAllPending
    <3>2. faults' \in 0..MaxFaults
      BY <2>2, Numbers DEF TypeInv, CanFail
    <3> QED BY <2>2, <3>1, <3>2 DEF TypeInv, TypeOK
  <2> QED BY <2>1, <2>2 DEF PostGroup
<1> QED BY <1>1, <1>2 DEF TypeInv, TypeOK, PostGroup, taskVars

\* The next slot a scan of the table looks at is a slot, or 0 at its end.
LEMMA NextSlotType ==
    ASSUME NEW i \in 0..NumNodes
    PROVE  NextSlot(i) \in 0..NumNodes /\ (NextSlot(i) # 0 => NextSlot(i) \in Slot)
BY GatewayAssumption DEF NextSlot, Slot

\* The MQTT task: connection
LEMMA ConnectType ==
    ASSUME TypeInv, Connect PROVE TypeInv'
<1>1. budget' \in Budget
  <2>1. budget.connects + 1 \in 0..MaxConnects
    BY GatewayAssumption DEF TypeInv, TypeOK, Budget, Connect
  <2> QED BY <2>1 DEF TypeInv, TypeOK, Budget, Connect
<1>2. mqtt' \in Mqtt /\ MqttOK'
  <2>1. mqtt' = [pc |-> "sync", at |-> 1, on |-> 0, mid |-> 0]
    BY DEF Connect, Idle, NoMsg
  <2> QED BY <2>1, Zeros DEF Mqtt, MqttOK
<1> QED BY <1>1, <1>2 DEF TypeInv, TypeOK, Connect, gatewayVars, taskVars

\* SyncNode keeps the state well typed.
LEMMA SyncNodeType ==
    ASSUME TypeInv, SyncNode PROVE TypeInv'
<1>1. mqtt.at \in Slot /\ mqtt.at \in 0..NumNodes
  BY DEF TypeInv, TypeOK, MqttOK, Mqtt, SyncNode
<1>2. /\ getRetries' \in [Slot -> 0..MaxRetries]
      /\ btc' \in Seq(Item) /\ faults' \in 0..MaxFaults
  <2>1. CASE Provisioned(mqtt.at)
    <3>1. Call("get", mqtt.at, 0) \in Item
      BY <1>1, CallType DEF TypeInv, Ops
    <3>2. btc \in Seq(Item)
      BY DEF TypeInv, TypeOK
    <3>3. PostOrLog(btc, Call("get", mqtt.at, 0))
      BY <2>1 DEF SyncNode
    <3>4. btc' \in Seq(Item) /\ faults' \in 0..MaxFaults
      BY <3>1, <3>2, <3>3, PostOrLogType DEF TypeInv
    <3>5. getRetries' \in [Slot -> 0..MaxRetries]
      BY <2>1, Zeros DEF SyncNode, TypeInv, TypeOK
    <3> QED BY <3>4, <3>5
  <2>2. CASE ~Provisioned(mqtt.at)
    BY <2>2 DEF SyncNode, TypeInv, TypeOK
  <2> QED BY <2>1, <2>2
<1>3. mqtt' \in Mqtt /\ MqttOK'
  <2>1. CASE NextSlot(mqtt.at) = 0
    BY <2>1, GatewayAssumption DEF SyncNode, Idle, NoMsg, Mqtt, MqttOK
  <2>2. CASE NextSlot(mqtt.at) # 0
    <3>1. mqtt' = [mqtt EXCEPT !.at = NextSlot(mqtt.at)] /\ mqtt.pc = "sync"
      BY <2>2 DEF SyncNode
    <3>2. NextSlot(mqtt.at) \in Slot /\ NextSlot(mqtt.at) \in 0..NumNodes
      BY <1>1, <2>2, NextSlotType
    <3> QED BY <3>1, <3>2 DEF TypeInv, TypeOK, Mqtt, MqttOK
  <2> QED BY <2>1, <2>2
<1> QED BY <1>2, <1>3 DEF TypeInv, TypeOK, SyncNode, taskVars

\* Disconnect keeps the state well typed.
LEMMA DisconnectType ==
    ASSUME TypeInv, Disconnect PROVE TypeInv'
BY DEF TypeInv, TypeOK, MqttOK, Disconnect, gatewayVars, taskVars

\* The spawned tasks
LEMMA GroupSyncStepType ==
    ASSUME TypeInv, NEW c \in CmdId, GroupSyncStep(c) PROVE TypeInv'
<1>1. syncAt[c] \in Slot /\ syncAt[c] \in 0..NumNodes /\ btc \in Seq(Item)
  BY GatewayAssumption DEF TypeInv, TypeOK, GroupSyncStep, Slot
<1>2. pending' \in [Slot -> Pending] /\ btc' \in Seq(Item) /\ faults' \in 0..MaxFaults
  <2>1. CASE pending[syncAt[c]].inFlight /\ Provisioned(syncAt[c])
    <3>1. PICK out \in Posting(pending[syncAt[c]], Call("get", syncAt[c], 0), NoPending) :
                 Commit(syncAt[c], btc, out)
      BY <2>1 DEF GroupSyncStep
    <3>2. pending[syncAt[c]] \in Pending
      BY <1>1 DEF TypeInv, TypeOK
    <3>3. Call("get", syncAt[c], 0) \in Item
      <4>1. "get" \in Ops /\ 0 \in 0..1
        BY DEF Ops
      <4> QED BY <1>1, <4>1, CallType DEF TypeInv
    <3>4. OutcomeOK(out)
      BY <3>1, <3>2, <3>3, PostingType, NoPendingType DEF TypeInv
    <3> QED BY <1>1, <3>1, <3>4, CommitType DEF TypeInv
  <2>2. CASE ~(pending[syncAt[c]].inFlight /\ Provisioned(syncAt[c]))
    BY <2>2 DEF GroupSyncStep, TypeInv, TypeOK
  <2> QED BY <2>1, <2>2
<1>3. syncAt' \in [CmdId -> 0..NumNodes]
  <2>1. NextSlot(syncAt[c]) \in 0..NumNodes
    BY <1>1, NextSlotType
  <2> QED BY <2>1 DEF GroupSyncStep, TypeInv, TypeOK
<1> QED BY <1>2, <1>3 DEF TypeInv, TypeOK, MqttOK, GroupSyncStep, mqttVars

\* Recovering one light keeps the state well typed, whichever recovery does it.
LEMMA RecoverNodeType ==
    ASSUME TypeInv, NEW i \in Slot, RecoverNode(i), recoverAt' \in 0..NumNodes
    PROVE  TypeInv'
<1>1. btc \in Seq(Item)
  BY DEF TypeInv, TypeOK
<1>2. /\ cfgRetries' \in [Slot -> 0..MaxRetries]
      /\ getRetries' \in [Slot -> 0..MaxRetries]
  <2>1. /\ getRetries \in [Slot -> 0..MaxRetries]
        /\ cfgRetries \in [Slot -> 0..MaxRetries]
    BY DEF TypeInv, TypeOK
  <2>2. /\ \/ cfgRetries' = [cfgRetries EXCEPT ![i] = 0]
           \/ cfgRetries' = cfgRetries
        /\ \/ getRetries' = [getRetries EXCEPT ![i] = 0]
           \/ getRetries' = getRetries
    BY DEF RecoverNode
  <2> QED BY <2>1, <2>2, Zeros
<1>3. btc' \in Seq(Item) /\ faults' \in 0..MaxFaults
  <2>1. RecoverBy(i) \in Item /\ Call("get", i, 0) \in Item
    BY <1>1, CallType DEF TypeInv, Ops, CfgOps, RecoverBy
  <2>2. /\ Append(btc, RecoverBy(i)) \in Seq(Item)
        /\ Append(btc, Call("get", i, 0)) \in Seq(Item)
    BY <1>1, <2>1, AppendProperties
  <2>3. CASE btc' = Append(btc, RecoverBy(i)) /\ faults' = faults
    BY <2>2, <2>3 DEF TypeInv, TypeOK
  <2>4. CASE /\ CanFail("post") /\ faults' = faults + 1
             /\ btc' = Append(btc, Call("get", i, 0))
    <3>1. faults' \in 0..MaxFaults
      BY <2>4, Numbers DEF TypeInv, CanFail
    <3> QED BY <2>2, <2>4, <3>1
  <2>5. CASE UNCHANGED <<btc, faults>>
    BY <2>5 DEF TypeInv, TypeOK
  <2> QED BY <2>3, <2>4, <2>5 DEF RecoverNode
<1> QED BY <1>2, <1>3 DEF TypeInv, TypeOK, MqttOK, RecoverNode, mqttVars

\* RecoverStep keeps the state well typed.
LEMMA RecoverStepType ==
    ASSUME TypeInv, RecoverStep PROVE TypeInv'
<1>1. recoverAt \in Slot /\ recoverAt \in 0..NumNodes
  BY GatewayAssumption DEF TypeInv, TypeOK, RecoverStep, Slot
<1>2. recoverAt' \in 0..NumNodes
  BY <1>1, NextSlotType DEF RecoverStep
<1> QED BY <1>1, <1>2, RecoverNodeType DEF RecoverStep

-----------------------------------------------------------------------------
(* The client models, the lights, and the callbacks *)

\* SendUnicast keeps the state well typed.
LEMMA SendUnicastType ==
    ASSUME TypeInv, SendUnicast PROVE TypeInv'
<1>1. Head(btc) \in Item /\ Tail(btc) \in Seq(Item)
  BY HeadType DEF TypeInv, SendUnicast
<1>2. btc' \in Seq(Item)
  <2>1. Event("error", Head(btc), 0) \in Item
    BY <1>1, EventType DEF Kinds
  <2>2. Append(Tail(btc), Event("error", Head(btc), 0)) \in Seq(Item)
    BY <1>1, <2>1, AppendProperties
  <2> QED BY <1>1, <2>2 DEF SendUnicast
<1>3. tx' \in SUBSET Item
  BY <1>1 DEF SendUnicast, TypeInv, TypeOK
<1>4. faults' \in 0..MaxFaults
  <2>1. faults' = faults \/ (faults < MaxFaults /\ faults' = faults + 1)
    BY DEF SendUnicast, CanFail
  <2> QED BY <2>1, Numbers DEF TypeInv
<1> QED BY <1>2, <1>3, <1>4 DEF TypeInv, TypeOK, MqttOK, SendUnicast, gatewayVars, mqttVars, taskVars

\* SendGroup keeps the state well typed.
LEMMA SendGroupType ==
    ASSUME TypeInv, SendGroup PROVE TypeInv'
<1>1. Head(btc) \in Item /\ Tail(btc) \in Seq(Item) /\ Head(btc).on \in 0..1
  BY HeadType DEF TypeInv, SendGroup, Item
<1>2. device' \in [Slot -> Device]
  <2>1. device \in [Slot -> Device]
    BY DEF TypeInv, TypeOK
  <2>2. \A i \in Slot : [device[i] EXCEPT !.light = Head(btc).on] \in Device
    BY <1>1, <2>1 DEF Device
  <2>3. PICK S \in SUBSET GroupMembers :
             device' = [i \in Slot |-> IF i \in S THEN [device[i] EXCEPT !.light = Head(btc).on]
                                       ELSE device[i]]
    BY DEF SendGroup
  <2> QED BY <2>1, <2>2, <2>3
<1>3. faults' \in 0..MaxFaults
  <2>1. faults' = faults \/ (faults < MaxFaults /\ faults' = faults + 1)
    BY DEF SendGroup, CanFail
  <2> QED BY <2>1, Numbers DEF TypeInv
<1>4. btc' \in Seq(Item)
  BY <1>1 DEF SendGroup
<1> QED BY <1>2, <1>3, <1>4 DEF TypeInv, TypeOK, MqttOK, SendGroup, gatewayVars, mqttVars, taskVars

\* A light that obeys a request stays a light.
LEMMA ObeyType ==
    ASSUME TypeOK, NEW r \in Item, Obey(r)
    PROVE  device' \in [Slot -> Device] /\ device'[r.node].light \in 0..1
<1>1. device \in [Slot -> Device] /\ r.node \in Slot /\ r.on \in 0..1
  BY DEF TypeOK, Item
<1> DEFINE d == [device[r.node] EXCEPT !.light = IF r.op = "set" THEN r.on ELSE @,
                                       !.bound = (r.op = "bind") \/ @,
                                       !.subscribed = (r.op = "sub") \/ @]
<1>2. d \in Device
  <2>1. device[r.node] \in Device
    BY <1>1
  <2>2. /\ (IF r.op = "set" THEN r.on ELSE device[r.node].light) \in 0..1
        /\ ((r.op = "bind") \/ device[r.node].bound) \in BOOLEAN
        /\ ((r.op = "sub") \/ device[r.node].subscribed) \in BOOLEAN
    BY <1>1, <2>1 DEF Device
  <2> QED BY <2>1, <2>2 DEF Device
<1>3. device' = [device EXCEPT ![r.node] = d]
  BY DEF Obey
<1>4. device' \in [Slot -> Device] /\ device'[r.node] = d
  BY <1>1, <1>2, <1>3
<1>5. d.light \in 0..1
  BY <1>2 DEF Device
<1> QED BY <1>4, <1>5

\* Answer keeps the state well typed.
LEMMA AnswerType ==
    ASSUME TypeInv, NEW r \in tx, Answer(r) PROVE TypeInv'
<1>1. r \in Item /\ btc \in Seq(Item)
  BY DEF TypeInv, TypeOK
<1>2. device' \in [Slot -> Device] /\ device'[r.node].light \in 0..1
  BY <1>1, ObeyType DEF TypeInv, Answer
<1>3. btc' \in Seq(Item)
  <2>1. Event("status", r, device'[r.node].light) \in Item
    BY <1>1, <1>2, EventType DEF Kinds
  <2> QED BY <1>1, <2>1, AppendProperties DEF Answer
<1>4. tx' \in SUBSET Item
  BY DEF Answer, TypeInv, TypeOK
<1> QED BY <1>2, <1>3, <1>4 DEF TypeInv, TypeOK, MqttOK, Answer, gatewayVars, mqttVars, taskVars

\* Refuse keeps the state well typed.
LEMMA RefuseType ==
    ASSUME TypeInv, NEW r \in tx, Refuse(r) PROVE TypeInv'
<1>1. r \in Item /\ btc \in Seq(Item)
  BY DEF TypeInv, TypeOK
<1>2. btc' \in Seq(Item)
  <2>1. Event("refused", r, 0) \in Item
    BY <1>1, EventType DEF Kinds
  <2> QED BY <1>1, <2>1, AppendProperties DEF Refuse
<1>3. tx' \in SUBSET Item
  BY DEF Refuse, TypeInv, TypeOK
<1>4. faults' \in 0..MaxFaults
  BY Numbers DEF TypeInv, Refuse, CanFail
<1> QED BY <1>2, <1>3, <1>4 DEF TypeInv, TypeOK, MqttOK, Refuse, gatewayVars, mqttVars, taskVars

\* TimeOut keeps the state well typed.
LEMMA TimeOutType ==
    ASSUME TypeInv, NEW r \in tx, TimeOut(r) PROVE TypeInv'
<1>1. r \in Item /\ btc \in Seq(Item) /\ device \in [Slot -> Device]
  BY DEF TypeInv, TypeOK
<1>2. device' \in [Slot -> Device]
  <2>1. device' = device \/ Obey(r)
    BY DEF TimeOut
  <2> QED BY <1>1, <2>1, ObeyType DEF TypeInv
<1>3. btc' \in Seq(Item)
  <2>1. Event("timeout", r, 0) \in Item
    BY <1>1, EventType DEF Kinds
  <2> QED BY <1>1, <2>1, AppendProperties DEF TimeOut
<1>4. tx' \in SUBSET Item
  BY DEF TimeOut, TypeInv, TypeOK
<1>5. faults' \in 0..MaxFaults
  <2>1. faults' = faults \/ (faults < MaxFaults /\ faults' = faults + 1)
    BY DEF TimeOut, CanFail
  <2> QED BY <2>1, Numbers DEF TypeInv
<1> QED BY <1>2, <1>3, <1>4, <1>5
        DEF TypeInv, TypeOK, MqttOK, TimeOut, gatewayVars, mqttVars, taskVars

\* Provision keeps the state well typed.
LEMMA ProvisionType ==
    ASSUME TypeInv, NEW i \in Slot, Provision(i) PROVE TypeInv'
<1>1. device[i].addr + 1 \in 0..MaxAddr
  <2>1. device[i] \in Device /\ device[i].addr < MaxAddr
    BY DEF TypeInv, TypeOK, Provision
  <2> QED BY <2>1, Numbers DEF TypeInv, Device
<1>2. device' \in [Slot -> Device]
  <2>1. [addr |-> device[i].addr + 1, light |-> 0, bound |-> FALSE, subscribed |-> FALSE]
          \in Device
    BY <1>1 DEF Device
  <2> QED BY <2>1 DEF TypeInv, TypeOK, Provision
<1>3. btc' \in Seq(Item)
  <2>1. [kind |-> "prov", op |-> "comp", node |-> i, addr |-> device[i].addr + 1, on |-> 0]
          \in Item
    BY <1>1 DEF Item, Kinds, Ops, CfgOps
  <2> QED BY <2>1, AppendProperties DEF Provision, TypeInv, TypeOK
<1> QED BY <1>2, <1>3 DEF TypeInv, TypeOK, MqttOK, Provision, gatewayVars, mqttVars, taskVars

\* The event a callback handles, and the queue it leaves
LEMMA ArrivesType ==
    ASSUME TypeOK, NEW k, NEW ops, Arrives(k, ops)
    PROVE  /\ Head(btc) \in Item /\ Tail(btc) \in Seq(Item)
           /\ Head(btc).node \in Slot /\ Head(btc).addr \in 0..MaxAddr
           /\ Head(btc).on \in 0..1 /\ Head(btc).op \in ops
<1>1. Head(btc) \in Item /\ Tail(btc) \in Seq(Item)
  BY HeadType DEF Arrives
<1> QED BY <1>1 DEF Arrives, Item

\* ProvComplete keeps the state well typed.
LEMMA ProvCompleteType ==
    ASSUME TypeInv, ProvComplete PROVE TypeInv'
<1> DEFINE e == Head(btc)
<1>1. e \in Item /\ Tail(btc) \in Seq(Item) /\ e.node \in Slot /\ e.addr \in 0..MaxAddr
  BY ArrivesType DEF TypeInv, ProvComplete, StoreNodeInfo
<1>2. nodes' \in [Slot -> Node]
  <2>1. [unicast |-> e.addr, onoff |-> 0] \in Node
    BY <1>1 DEF Node
  <2> QED BY <2>1 DEF TypeInv, TypeOK, ProvComplete, StoreNodeInfo
<1>3. btc' \in Seq(Item) /\ faults' \in 0..MaxFaults
  <2>1. [e EXCEPT !.kind = "call"] \in Item
    BY <1>1 DEF Item, Kinds
  <2>2. PostOrLog(Tail(btc), [e EXCEPT !.kind = "call"])
    BY DEF ProvComplete, StoreNodeInfo
  <2> QED BY <1>1, <2>1, <2>2, PostOrLogType DEF TypeInv
<1> QED BY <1>2, <1>3 DEF TypeInv, TypeOK, MqttOK, ProvComplete, StoreNodeInfo, mqttVars, taskVars

\* IgnoreEvent keeps the state well typed.
LEMMA IgnoreEventType ==
    ASSUME TypeInv, IgnoreEvent PROVE TypeInv'
<1>1. btc # <<>>
  BY DEF IgnoreEvent, Arrives
<1>2. btc' \in Seq(Item)
  BY <1>1, HeadType DEF TypeInv, IgnoreEvent
<1> QED BY <1>2 DEF TypeInv, TypeOK, MqttOK, IgnoreEvent, gatewayVars, mqttVars, taskVars

\* OnOffError keeps the state well typed.
LEMMA OnOffErrorType ==
    ASSUME TypeInv, OnOffError PROVE TypeInv'
<1>1. Tail(btc) \in Seq(Item)
  BY ArrivesType DEF TypeInv, OnOffError
<1>2. pending' \in [Slot -> Pending]
  BY NoPendingType DEF TypeInv, TypeOK, OnOffError
<1> QED BY <1>1, <1>2 DEF TypeInv, TypeOK, MqttOK, OnOffError, mqttVars, taskVars

\* ConfigStatus keeps the state well typed.
LEMMA ConfigStatusType ==
    ASSUME TypeInv, ConfigStatus PROVE TypeInv'
<1> DEFINE e == Head(btc)
<1>1. /\ e \in Item /\ Tail(btc) \in Seq(Item) /\ e.node \in Slot
      /\ e.addr \in 0..MaxAddr /\ e.op \in CfgOps
  BY ArrivesType DEF TypeInv, ConfigStatus
<1>2. btc' \in Seq(Item) /\ faults' \in 0..MaxFaults
  <2>1. NextCfgOp[e.op] \in Ops
    BY <1>1 DEF NextCfgOp, CfgOps, Ops
  <2>2. Call(NextCfgOp[e.op], e.node, 0) \in Item
    <3>1. 0 \in 0..1
      OBVIOUS
    <3> QED BY <1>1, <2>1, <3>1, CallType DEF TypeInv
  <2>3. PostOrLog(Tail(btc), Call(NextCfgOp[e.op], e.node, 0))
    BY DEF ConfigStatus
  <2> QED BY <1>1, <2>2, <2>3, PostOrLogType DEF TypeInv
<1>3. /\ cfgRetries' \in [Slot -> 0..MaxRetries]
      /\ getRetries' \in [Slot -> 0..MaxRetries]
  BY Zeros DEF TypeInv, TypeOK, ConfigStatus
<1>4. toggle' \in (0..NumNodes) \X (0..MaxAddr)
  <2>1. e.node \in 0..NumNodes
    BY <1>1, GatewayAssumption DEF Slot
  <2>2. toggle' = <<e.node, e.addr>> \/ toggle' = toggle
    BY DEF ConfigStatus
  <2> QED BY <1>1, <2>1, <2>2 DEF TypeInv, TypeOK
<1> QED BY <1>2, <1>3, <1>4 DEF TypeInv, TypeOK, MqttOK, ConfigStatus, mqttVars, taskVars

\* ConfigTimeout keeps the state well typed.
LEMMA ConfigTimeoutType ==
    ASSUME TypeInv, ConfigTimeout PROVE TypeInv'
<1> DEFINE e == Head(btc)
<1>1. /\ e \in Item /\ Tail(btc) \in Seq(Item) /\ e.node \in Slot /\ e.op \in Ops
  BY ArrivesType DEF TypeInv, ConfigTimeout, Ops
<1>2. CASE cfgRetries[e.node] >= MaxRetries
  <2>1. cfgRetries' \in [Slot -> 0..MaxRetries]
    BY <1>2, Zeros DEF TypeInv, TypeOK, ConfigTimeout
  <2>2. btc' = Tail(btc) /\ faults' = faults
    BY <1>2 DEF ConfigTimeout
  <2> QED BY <1>1, <2>1, <2>2
          DEF TypeInv, TypeOK, MqttOK, ConfigTimeout, mqttVars, taskVars
<1>3. CASE ~(cfgRetries[e.node] >= MaxRetries)
  <2>1. cfgRetries' \in [Slot -> 0..MaxRetries]
    <3>1. cfgRetries[e.node] + 1 \in 0..MaxRetries
      <4>1. cfgRetries[e.node] \in 0..MaxRetries
        BY <1>1 DEF TypeInv, TypeOK
      <4> QED BY <1>3, <4>1, GatewayAssumption
    <3> QED BY <1>3, <3>1 DEF TypeInv, TypeOK, ConfigTimeout
  <2>2. btc' \in Seq(Item) /\ faults' \in 0..MaxFaults
    <3>1. Call(e.op, e.node, 0) \in Item
      BY <1>1, CallType DEF TypeInv
    <3>2. PostOrLog(Tail(btc), Call(e.op, e.node, 0))
      BY <1>3 DEF ConfigTimeout
    <3> QED BY <1>1, <3>1, <3>2, PostOrLogType DEF TypeInv
  <2> QED BY <2>1, <2>2 DEF TypeInv, TypeOK, MqttOK, ConfigTimeout, mqttVars, taskVars
<1> QED BY <1>2, <1>3

\* Requesting, retrying and ending a command are well-typed outcomes.
LEMMA RequestOnOffType ==
    ASSUME TypeOK, NEW i \in Slot, NEW p \in Pending, NEW out \in RequestOnOff(i, p)
    PROVE  OutcomeOK(out)
<1>1. "set" \in Ops /\ p.desired \in 0..1
  BY DEF Ops, Pending
<1>2. Call("set", i, p.desired) \in Item
  BY <1>1, CallType
<1> QED BY <1>2, PostingType, NoPendingType DEF RequestOnOff

\* SendOnOff is a well-typed outcome.
LEMMA SendOnOffType ==
    ASSUME TypeOK, NEW i \in Slot, NEW p \in Pending, NEW on \in 0..1,
           NEW out \in SendOnOff(i, p, on, NoMsg)
    PROVE  OutcomeOK(out)
<1>1. CASE p.inFlight
  BY <1>1, KeepType DEF SendOnOff
<1>2. CASE ~p.inFlight
  <2>1. [p EXCEPT !.inFlight = TRUE, !.desired = on, !.mid = NoMsg] \in Pending
    BY Zeros DEF Pending, NoMsg
  <2> QED BY <1>2, <2>1, RequestOnOffType DEF SendOnOff
<1> QED BY <1>1, <1>2

\* AfterGet is a well-typed outcome.
LEMMA AfterGetType ==
    ASSUME TypeOK, NEW i \in Slot, NEW on \in 0..1, NEW out \in AfterGet(i, on)
    PROVE  OutcomeOK(out)
<1>1. pending[i] \in Pending /\ [pending[i] EXCEPT !.retries = 0] \in Pending
  BY Zeros DEF TypeOK, Pending
<1> QED BY <1>1, KeepType, NoPendingType, RequestOnOffType DEF AfterGet

\* Retry is a well-typed outcome.
LEMMA RetryType ==
    ASSUME TypeOK, NEW i \in Slot, NEW out \in Retry(i)
    PROVE  OutcomeOK(out)
<1>1. pending[i] \in Pending /\ pending[i].retries \in 0..MaxRetries
  BY DEF TypeOK, Pending
<1>2. CASE pending[i].retries >= MaxRetries
  BY <1>2, KeepType, NoPendingType DEF Retry
<1>3. CASE ~(pending[i].retries >= MaxRetries)
  <2>1. pending[i].retries + 1 \in 0..MaxRetries
    BY <1>1, <1>3, GatewayAssumption
  <2>2. [pending[i] EXCEPT !.retries = @ + 1] \in Pending
    BY <1>1, <2>1 DEF Pending
  <2> QED BY <1>3, <2>2, RequestOnOffType DEF Retry
<1> QED BY <1>2, <1>3

\* Two well-typed outcomes, one after the other, are one outcome.
LEMMA BothType ==
    ASSUME TypeOK, NEW out, OutcomeOK(out), NEW last, OutcomeOK(last),
           faults + out.failed + last.failed <= MaxFaults
    PROVE  OutcomeOK(Outcome(last.p, out.posts \o last.posts, out.failed + last.failed))
<1> DEFINE calls == out.posts \o last.posts
           failures == out.failed + last.failed
<1>1. calls \in Seq(Item)
  BY ConcatProperties DEF OutcomeOK
<1>2. failures \in Nat /\ faults + failures <= MaxFaults
  <2>1. out.failed \in Nat /\ last.failed \in Nat
    BY DEF OutcomeOK
  <2> QED BY <2>1, Numbers
<1>3. last.p \in Pending
  BY DEF OutcomeOK
<1> HIDE DEF calls, failures
<1> DEFINE both == Outcome(last.p, calls, failures)
<1>4. both.p = last.p /\ both.posts = calls /\ both.failed = failures
  BY OutcomeParts
<1> HIDE DEF both
<1>5. OutcomeOK(both)
  BY <1>1, <1>2, <1>3, <1>4 DEF OutcomeOK
<1> QED BY <1>5 DEF both, calls, failures

\* Counting an acknowledgement keeps the counts numbers.
LEMMA PublishAckType ==
    ASSUME TypeOK, NEW i \in Slot, NEW acked \in BOOLEAN, PublishAck(i, acked)
    PROVE  acks' \in [CmdId -> [Slot -> Nat]]
<1>1. acks \in [CmdId -> [Slot -> Nat]]
  BY DEF TypeOK
<1>2. CASE acks' = acks
  BY <1>1, <1>2
<1>3. CASE acks' = [acks EXCEPT ![pending[i].mid][i] = @ + 1] /\ pending[i].mid # NoMsg
  <2>1. pending[i].mid \in CmdId
    BY <1>3, GatewayAssumption DEF TypeOK, Pending, CmdId, NoMsg
  <2> QED BY <1>1, <1>3, <2>1
<1> QED BY <1>2, <1>3 DEF PublishAck

\* The state a status reports keeps the table well typed.
LEMMA ObserveType ==
    ASSUME TypeOK, NEW i \in Slot, NEW on \in 0..1, Observe(i, on)
    PROVE  nodes' \in [Slot -> Node]
BY DEF TypeOK, Node, Observe

\* GetStatus keeps the state well typed.
LEMMA GetStatusType ==
    ASSUME TypeInv, GetStatus PROVE TypeInv'
<1> DEFINE e == Head(btc)
           toggles == toggle = <<e.node, e.addr>>
<1>1. Tail(btc) \in Seq(Item) /\ e.node \in Slot /\ e.on \in 0..1
  BY ArrivesType DEF TypeInv, GetStatus
<1>2. PICK out \in AfterGet(e.node, e.on) :
        \E last \in (IF toggles THEN SendOnOff(e.node, out.p, 1 - e.on, NoMsg)
                     ELSE Keep(out.p)) :
          /\ faults + out.failed + last.failed <= MaxFaults
          /\ Commit(e.node, Tail(btc),
                    Outcome(last.p, out.posts \o last.posts, out.failed + last.failed))
  BY DEF GetStatus
<1>3. PICK last \in (IF toggles THEN SendOnOff(e.node, out.p, 1 - e.on, NoMsg)
                    ELSE Keep(out.p)) :
          /\ faults + out.failed + last.failed <= MaxFaults
          /\ Commit(e.node, Tail(btc),
                    Outcome(last.p, out.posts \o last.posts, out.failed + last.failed))
  BY <1>2
<1> HIDE DEF e
<1>4. OutcomeOK(out)
  BY <1>1, <1>2, AfterGetType DEF TypeInv
<1>5. OutcomeOK(last)
  <2>1. out.p \in Pending /\ 1 - e.on \in 0..1
    BY <1>1, <1>4 DEF OutcomeOK
  <2>2. CASE toggles
    BY <1>1, <1>3, <2>1, <2>2, SendOnOffType DEF TypeInv
  <2>3. CASE ~toggles
    BY <1>3, <2>1, <2>3, KeepType DEF TypeInv
  <2> QED BY <2>2, <2>3
<1> DEFINE both == Outcome(last.p, out.posts \o last.posts, out.failed + last.failed)
<1>6. OutcomeOK(both)
  BY <1>3, <1>4, <1>5, BothType DEF TypeInv
<1> HIDE DEF both
<1>7. pending' \in [Slot -> Pending] /\ btc' \in Seq(Item) /\ faults' \in 0..MaxFaults
  <2>1. Commit(e.node, Tail(btc), both)
    BY <1>3 DEF both
  <2> QED BY <1>1, <1>6, <2>1, CommitType DEF TypeInv
<1>8. nodes' \in [Slot -> Node]
  BY <1>1, ObserveType DEF TypeInv, GetStatus, e
<1>9. acks' \in [CmdId -> [Slot -> Nat]]
  <2>1. Reached(e.node, e.on) \in BOOLEAN
    BY <1>1 DEF Reached, TypeInv, TypeOK, Pending
  <2>2. PublishAck(e.node, Reached(e.node, e.on))
    BY DEF GetStatus, e
  <2> QED BY <1>1, <2>1, <2>2, PublishAckType DEF TypeInv
<1>10. getRetries' \in [Slot -> 0..MaxRetries]
  BY Zeros DEF TypeInv, TypeOK, GetStatus
<1>11. toggle' \in (0..NumNodes) \X (0..MaxAddr)
  <2>1. toggle' = <<0, 0>> \/ toggle' = toggle
    BY DEF GetStatus
  <2>2. 0 \in 0..NumNodes /\ 0 \in 0..MaxAddr
    BY GatewayAssumption
  <2> QED BY <2>1, <2>2 DEF TypeInv, TypeOK
<1> QED BY <1>7, <1>8, <1>9, <1>10, <1>11 DEF TypeInv, TypeOK, MqttOK, GetStatus, taskVars

\* SetStatus keeps the state well typed.
LEMMA SetStatusType ==
    ASSUME TypeInv, SetStatus PROVE TypeInv'
<1> DEFINE e == Head(btc)
<1>1. Tail(btc) \in Seq(Item) /\ e.node \in Slot /\ e.on \in 0..1
  BY ArrivesType DEF TypeInv, SetStatus
<1>2. PICK out \in (IF ~pending[e.node].inFlight
                   THEN Keep(pending[e.node])
                   ELSE IF Reached(e.node, e.on) THEN Keep(NoPending) ELSE Retry(e.node)) :
             Commit(e.node, Tail(btc), out)
  BY DEF SetStatus
<1> HIDE DEF e
<1>3. OutcomeOK(out)
  <2>1. pending[e.node] \in Pending
    BY <1>1 DEF TypeInv, TypeOK
  <2> QED BY <1>1, <1>2, <2>1, KeepType, NoPendingType, RetryType DEF TypeInv
<1>4. pending' \in [Slot -> Pending] /\ btc' \in Seq(Item) /\ faults' \in 0..MaxFaults
  BY <1>1, <1>2, <1>3, CommitType DEF TypeInv
<1>5. nodes' \in [Slot -> Node]
  BY <1>1, ObserveType DEF TypeInv, SetStatus, e
<1>6. acks' \in [CmdId -> [Slot -> Nat]]
  <2>1. Reached(e.node, e.on) \in BOOLEAN
    BY <1>1 DEF Reached, TypeInv, TypeOK, Pending
  <2>2. PublishAck(e.node, Reached(e.node, e.on))
    BY DEF SetStatus, e
  <2> QED BY <1>1, <2>1, <2>2, PublishAckType DEF TypeInv
<1> QED BY <1>4, <1>5, <1>6 DEF TypeInv, TypeOK, MqttOK, SetStatus, taskVars

\* GetTimeout keeps the state well typed.
LEMMA GetTimeoutType ==
    ASSUME TypeInv, GetTimeout PROVE TypeInv'
<1> DEFINE i == Head(btc).node
<1>1. Tail(btc) \in Seq(Item) /\ i \in Slot
  BY ArrivesType DEF TypeInv, GetTimeout
<1>2. pending[i] \in Pending /\ pending[i].retries \in 0..MaxRetries
      /\ getRetries[i] \in 0..MaxRetries
  BY <1>1 DEF TypeInv, TypeOK, Pending
<1>3. Call("get", i, 0) \in Item
  <2>1. "get" \in Ops /\ 0 \in 0..1
    BY DEF Ops
  <2> QED BY <1>1, <2>1, CallType DEF TypeInv
<1>4. /\ pending' \in [Slot -> Pending] /\ btc' \in Seq(Item) /\ faults' \in 0..MaxFaults
      /\ getRetries' \in [Slot -> 0..MaxRetries]
  <2>1. CASE /\ pending[i].inFlight /\ pending[i].retries >= MaxRetries
             /\ pending' = [pending EXCEPT ![i] = NoPending]
             /\ btc' = Tail(btc)
             /\ UNCHANGED <<getRetries, faults>>
    BY <1>1, <2>1, NoPendingType DEF TypeInv, TypeOK
  <2>2. CASE /\ pending[i].inFlight /\ pending[i].retries < MaxRetries
             /\ \E out \in Posting([pending[i] EXCEPT !.retries = @ + 1],
                                   Call("get", i, 0), NoPending) :
                  Commit(i, Tail(btc), out)
             /\ UNCHANGED getRetries
    <3>1. [pending[i] EXCEPT !.retries = @ + 1] \in Pending
      <4>1. pending[i].retries + 1 \in 0..MaxRetries
        BY <1>2, <2>2, GatewayAssumption
      <4> QED BY <1>2, <4>1 DEF Pending
    <3>2. PICK out \in Posting([pending[i] EXCEPT !.retries = @ + 1],
                              Call("get", i, 0), NoPending) :
                 Commit(i, Tail(btc), out)
      BY <2>2
    <3>3. OutcomeOK(out)
      BY <1>3, <3>1, <3>2, PostingType, NoPendingType DEF TypeInv
    <3>4. /\ pending' \in [Slot -> Pending] /\ btc' \in Seq(Item)
          /\ faults' \in 0..MaxFaults
      BY <1>1, <3>2, <3>3, CommitType DEF TypeInv
    <3> QED BY <2>2, <3>4 DEF TypeInv, TypeOK
  <2>3. CASE /\ ~pending[i].inFlight /\ getRetries[i] >= MaxRetries
             /\ getRetries' = [getRetries EXCEPT ![i] = 0]
             /\ btc' = Tail(btc)
             /\ UNCHANGED <<pending, faults>>
    BY <1>1, <2>3, Zeros DEF TypeInv, TypeOK
  <2>4. CASE /\ ~pending[i].inFlight /\ getRetries[i] < MaxRetries
             /\ getRetries' = [getRetries EXCEPT ![i] = @ + 1]
             /\ PostOrLog(Tail(btc), Call("get", i, 0))
             /\ UNCHANGED pending
    <3>1. getRetries[i] + 1 \in 0..MaxRetries
      BY <1>2, <2>4, GatewayAssumption
    <3>2. getRetries' \in [Slot -> 0..MaxRetries]
      BY <2>4, <3>1 DEF TypeInv, TypeOK
    <3>3. btc' \in Seq(Item) /\ faults' \in 0..MaxFaults
      BY <1>1, <1>3, <2>4, PostOrLogType DEF TypeInv
    <3> QED BY <2>4, <3>2, <3>3 DEF TypeInv, TypeOK
  <2> QED BY <2>1, <2>2, <2>3, <2>4 DEF GetTimeout
<1> QED BY <1>4 DEF TypeInv, TypeOK, MqttOK, GetTimeout, mqttVars, taskVars

\* SetTimeout keeps the state well typed.
LEMMA SetTimeoutType ==
    ASSUME TypeInv, SetTimeout PROVE TypeInv'
<1> DEFINE i == Head(btc).node
<1>1. Tail(btc) \in Seq(Item) /\ i \in Slot
  BY ArrivesType DEF TypeInv, SetTimeout
<1>2. PICK out \in (IF pending[i].inFlight THEN Retry(i) ELSE Keep(pending[i])) :
             Commit(i, Tail(btc), out)
  BY DEF SetTimeout
<1>3. OutcomeOK(out)
  <2>1. pending[i] \in Pending
    BY <1>1 DEF TypeInv, TypeOK
  <2> QED BY <1>1, <1>2, <2>1, KeepType, RetryType DEF TypeInv
<1>4. pending' \in [Slot -> Pending] /\ btc' \in Seq(Item) /\ faults' \in 0..MaxFaults
  BY <1>1, <1>2, <1>3, CommitType DEF TypeInv
<1> QED BY <1>4 DEF TypeInv, TypeOK, MqttOK, SetTimeout, mqttVars, taskVars

\* Restart keeps the state well typed.
LEMMA RestartType ==
    ASSUME TypeInv, Restart PROVE TypeInv'
<1>1. budget' \in Budget
  <2>1. /\ budget \in Budget /\ budget.restarts < MaxRestarts
        /\ budget' = [budget EXCEPT !.restarts = @ + 1]
    BY DEF TypeInv, TypeOK, Restart
  <2>2. budget.restarts \in 0..MaxRestarts
    BY <2>1 DEF Budget
  <2>3. budget.restarts + 1 \in 0..MaxRestarts
    BY <2>1, <2>2, GatewayAssumption
  <2> QED BY <2>1, <2>3 DEF Budget
<1>2. pending' \in [Slot -> Pending]
  BY NoPendingType DEF Restart
<1>3. getRetries' \in [Slot -> 0..MaxRetries] /\ cfgRetries' \in [Slot -> 0..MaxRetries]
  BY Zeros DEF Restart
<1>4. toggle' \in (0..NumNodes) \X (0..MaxAddr)
  BY GatewayAssumption DEF Restart
<1>5. btc' \in Seq(Item) /\ tx' \in SUBSET Item
  BY DEF Restart
<1>6. mqtt' \in Mqtt /\ MqttOK' /\ connected' \in BOOLEAN
  <2>1. mqtt' = [pc |-> "idle", at |-> 0, on |-> 0, mid |-> 0] /\ connected' = FALSE
    BY DEF Restart, Idle, NoMsg
  <2>2. mqtt' \in Mqtt
    BY <2>1, Zeros DEF Mqtt
  <2>3. MqttOK'
    BY <2>1 DEF MqttOK
  <2> QED BY <2>1, <2>2, <2>3
<1>7. syncAt' \in [CmdId -> 0..NumNodes] /\ recoverAt' \in 0..NumNodes
  BY Zeros DEF Restart
<1> QED BY <1>1, <1>2, <1>3, <1>4, <1>5, <1>6, <1>7 DEF TypeInv, TypeOK, Restart

\* Stutter keeps the state well typed.
LEMMA StutterType == ASSUME TypeInv, UNCHANGED vars PROVE TypeInv'
BY DEF TypeInv, TypeOK, MqttOK, vars, gatewayVars, mqttVars, taskVars

\* Every step keeps the state well typed.
LEMMA NextType == ASSUME TypeInv, [Next]_vars PROVE TypeInv'
<1>1. CASE MqttTask
  BY <1>1, MarkPendingType, PostCommandType, MarkGroupType, StartGroupSyncType,
     PostGroupType, SyncNodeType DEF MqttTask
<1>2. CASE BtcTask
  <2>1. CASE Callback
    BY <2>1, ProvCompleteType, IgnoreEventType, OnOffErrorType, ConfigStatusType,
       ConfigTimeoutType, GetStatusType, SetStatusType, GetTimeoutType, SetTimeoutType
       DEF Callback
  <2> QED BY <1>2, <2>1, SendUnicastType, SendGroupType DEF BtcTask
<1>3. CASE Next /\ ~MqttTask /\ ~BtcTask
  BY <1>3, DispatchCommandType, ReceiveGroupType, ConnectType, DisconnectType,
     GroupSyncStepType, RecoverStepType, AnswerType, RefuseType, TimeOutType,
     ProvisionType, RestartType DEF Next, ReceiveCommand
<1> QED BY <1>1, <1>2, <1>3, StutterType

\* The state of the gateway, of its queue and of its client models is well typed
\* whatever the number of lights, retries, commands, failures and restarts.
THEOREM GatewayTypeOK == Spec => []TypeOK
<1>1. Init => TypeInv
  BY InitStored, InitType
<1>2. TypeInv /\ [Next]_vars => TypeInv'
  BY NextType
<1>3. TypeInv => TypeOK
  BY DEF TypeInv
<1> QED BY <1>1, <1>2, <1>3, PTL DEF Spec

-----------------------------------------------------------------------------
(* What is under way *)

Elems(q) == {q[k] : k \in 1..Len(q)}
Flow == Elems(btc) \cup tx

\* The events of one light's provisioning come in the order of its addresses.
InOrder(q) == \A k, l \in 1..Len(q) :
    (k < l /\ q[k].kind = "prov" /\ q[l].kind = "prov" /\ q[k].node = q[l].node)
        => q[k].addr < q[l].addr

\* Who was given an address has not been given a later one ...
Addressed(x) == x.op # "group" => x.addr # Unassigned /\ x.addr <= nodes[x.node].unicast

\* ... that the table knows; it learns them one after the other.
AddrInv ==
    /\ \A x \in Flow : x.kind # "prov" => Addressed(x)
    /\ \A x \in Elems(btc) : x.kind = "prov" =>
          /\ x.op = "comp" /\ nodes[x.node].unicast < x.addr /\ x.addr <= device[x.node].addr
    /\ \A t \in tx : t.kind = "call" /\ t.op # "group"
    /\ \A i \in Slot : nodes[i].unicast <= device[i].addr
    /\ InOrder(btc)

\* Only lights in the table are marked.
Reserved ==
    /\ \A i \in Slot : pending[i].inFlight => Provisioned(i)
    /\ mqtt.pc \in {"mark", "post"} => Provisioned(mqtt.at)

\* A task that will end the command of light i
TaskCarries(i) ==
    \/ \E c \in CmdId : syncAt[c] # 0 /\ syncAt[c] <= i
    \/ mqtt.pc = "post" /\ mqtt.at = i
    \/ mqtt.pc = "gtask"

\* Item x leads on to the subscription of light i.
Continues(x, i) ==
    /\ x.node = i /\ x.addr = nodes[i].unicast /\ x.op \in CfgOps
    /\ x.kind = "call" \/ (x.kind = "status" /\ x.op # "sub")
Configuring(i) == \E x \in Flow : Continues(x, i)

BoundKnown == \A i \in Slot :
    device[i].bound => Provisioned(i) /\ nodes[i].unicast = device[i].addr

WillSubscribe == faults = 0 => \A i \in Slot :
    (device[i].bound /\ ~device[i].subscribed) => (recoverAt \in 1..i \/ Configuring(i))

\* The gateway has not been restarted, nor has it stored lights to recover.
Fresh == budget.restarts = 0 /\ ~Booting

\* Item x follows the binding of its light.
Late(x) == x.op = "sub" \/ (x.op = "bind" /\ x.kind = "status")

SetupInv == (faults = 0 /\ Fresh) =>
    /\ recoverAt = 0
    /\ \A i \in Slot : nodes[i].unicast < device[i].addr =>
          \E x \in Elems(btc) : x.kind = "prov" /\ x.node = i /\ x.addr = device[i].addr
    /\ \A x \in Flow : (Late(x) /\ x.addr = device[x.node].addr) => device[x.node].bound
    /\ \A i \in Slot : (/\ Provisioned(i) /\ nodes[i].unicast = device[i].addr
                        /\ ~(device[i].bound /\ device[i].subscribed)) => Configuring(i)

FlowInv == AddrInv /\ Reserved /\ NoOrphan
ConfigInv == BoundKnown /\ WillSubscribe /\ SetupInv

-----------------------------------------------------------------------------
\* Nothing is in the empty queue.
LEMMA ElemsOfNone == Elems(<<>>) = {}
BY DEF Elems

\* One item is in a queue of one.
LEMMA ElemsOfOne == ASSUME NEW x PROVE Elems(<<x>>) = {x}
BY DEF Elems

\* What is in two queues, one behind the other, is in one of them.
LEMMA ElemsConcat ==
    ASSUME NEW S, NEW q \in Seq(S), NEW r \in Seq(S)
    PROVE  Elems(q \o r) = Elems(q) \cup Elems(r)
<1>1. /\ Len(q) \in Nat /\ Len(r) \in Nat /\ Len(q \o r) = Len(q) + Len(r)
      /\ \A k \in 1..Len(q) : (q \o r)[k] = q[k]
      /\ \A k \in 1..Len(r) : (q \o r)[Len(q) + k] = r[k]
  BY ConcatProperties, LenProperties
<1>2. ASSUME NEW x \in Elems(q \o r) PROVE x \in Elems(q) \cup Elems(r)
  <2>1. PICK k \in 1..(Len(q) + Len(r)) : x = (q \o r)[k]
    BY <1>1, <1>2 DEF Elems
  <2>2. CASE k \in 1..Len(q)
    BY <1>1, <2>1, <2>2 DEF Elems
  <2>3. CASE k \notin 1..Len(q)
    <3>1. k - Len(q) \in 1..Len(r) /\ Len(q) + (k - Len(q)) = k
      BY <1>1, <2>3
    <3> QED
      BY <1>1, <2>1, <3>1 DEF Elems
  <2> QED
    BY <2>2, <2>3
<1>3. Elems(q) \subseteq Elems(q \o r)
  <2>1. 1..Len(q) \subseteq 1..(Len(q) + Len(r))
    BY <1>1
  <2> QED
    BY <1>1, <2>1 DEF Elems
<1>4. Elems(r) \subseteq Elems(q \o r)
  <2>1. \A k \in 1..Len(r) : Len(q) + k \in 1..(Len(q) + Len(r))
    BY <1>1
  <2> QED
    BY <1>1, <2>1 DEF Elems
<1> QED
  BY <1>2, <1>3, <1>4

\* A queue that is appended to holds one item more.
LEMMA ElemsAppend ==
    ASSUME NEW S, NEW q \in Seq(S), NEW x \in S
    PROVE  Elems(Append(q, x)) = Elems(q) \cup {x}
<1>1. q \o <<x>> = Append(q, x) /\ <<x>> \in Seq(S)
  BY AppendIsConcat
<1>2. Elems(q \o <<x>>) = Elems(q) \cup Elems(<<x>>)
  BY <1>1, ElemsConcat, Zenon
<1> QED
  BY <1>1, <1>2, ElemsOfOne

\* A queue holds its head and what is behind it.
LEMMA ElemsPop ==
    ASSUME NEW S, NEW q \in Seq(S), q # <<>>
    PROVE  Elems(q) = {Head(q)} \cup Elems(Tail(q))
<1>1. /\ Len(q) \in Nat \ {0} /\ Len(Tail(q)) = Len(q) - 1 /\ Head(q) = q[1]
      /\ \A k \in 1..Len(Tail(q)) : Tail(q)[k] = q[k + 1]
  BY HeadTailProperties, LenProperties, EmptySeq
<1>2. ASSUME NEW x \in Elems(q) PROVE x \in {Head(q)} \cup Elems(Tail(q))
  <2>1. PICK k \in 1..Len(q) : x = q[k]
    BY <1>2 DEF Elems
  <2>2. CASE k = 1
    BY <1>1, <2>1, <2>2
  <2>3. CASE k # 1
    <3>1. k - 1 \in 1..Len(Tail(q)) /\ (k - 1) + 1 = k
      BY <1>1, <2>3
    <3> QED
      BY <1>1, <2>1, <3>1 DEF Elems
  <2> QED
    BY <2>2, <2>3
<1>3. Head(q) \in Elems(q)
  BY <1>1 DEF Elems
<1>4. Elems(Tail(q)) \subseteq Elems(q)
  <2>1. \A k \in 1..Len(Tail(q)) : k + 1 \in 1..Len(q)
    BY <1>1
  <2> QED
    BY <1>1, <2>1 DEF Elems
<1> QED
  BY <1>2, <1>3, <1>4

\* What is behind the head of an ordered queue is in order, and after the head.
LEMMA OrderPop ==
    ASSUME NEW q \in Seq(Item), q # <<>>, InOrder(q)
    PROVE  /\ InOrder(Tail(q))
           /\ \A x \in Elems(Tail(q)) : (Head(q).kind = "prov" /\ x.kind = "prov"
                                           /\ Head(q).node = x.node) => Head(q).addr < x.addr
<1>1. /\ Len(q) \in Nat \ {0} /\ Len(Tail(q)) = Len(q) - 1 /\ Head(q) = q[1]
      /\ \A k \in 1..Len(Tail(q)) : Tail(q)[k] = q[k + 1]
  BY HeadTailProperties, LenProperties, EmptySeq
<1>2. \A k \in 1..Len(Tail(q)) : k + 1 \in 1..Len(q) /\ 1 < k + 1
  BY <1>1
<1>3. \A k, l \in 1..Len(Tail(q)) : k < l => k + 1 < l + 1
  BY <1>1
<1>4. InOrder(Tail(q))
  BY <1>1, <1>2, <1>3 DEF InOrder
<1>5. 1 \in 1..Len(q)
  BY <1>1
<1> QED
  BY <1>1, <1>2, <1>4, <1>5 DEF InOrder, Elems

\* Items that are not about a join keep the queue in order.
LEMMA OrderConcat ==
    ASSUME NEW q \in Seq(Item), NEW r \in Seq(Item), InOrder(q),
           \A x \in Elems(r) : x.kind # "prov"
    PROVE  InOrder(q \o r)
<1>1. /\ Len(q) \in Nat /\ Len(r) \in Nat /\ Len(q \o r) = Len(q) + Len(r)
      /\ \A k \in 1..Len(q) : (q \o r)[k] = q[k]
      /\ \A k \in 1..Len(r) : (q \o r)[Len(q) + k] = r[k]
  BY ConcatProperties, LenProperties
<1>2. ASSUME NEW k \in 1..Len(q \o r), (q \o r)[k].kind = "prov"
      PROVE  k \in 1..Len(q)
  <2>1. ASSUME k \notin 1..Len(q) PROVE FALSE
    <3>1. k - Len(q) \in 1..Len(r) /\ Len(q) + (k - Len(q)) = k
      BY <1>1, <2>1
    <3>2. (q \o r)[k] \in Elems(r)
      BY <1>1, <3>1 DEF Elems
    <3> QED
      BY <1>2, <3>2
  <2> QED
    BY <2>1
<1> QED
  BY <1>1, <1>2 DEF InOrder

\* A join with a later address than all others of its light keeps the queue in order.
LEMMA OrderAppend ==
    ASSUME NEW q \in Seq(Item), NEW x \in Item, InOrder(q),
           \A y \in Elems(q) : (y.kind = "prov" /\ y.node = x.node) => y.addr < x.addr
    PROVE  InOrder(Append(q, x))
<1>1. /\ Len(q) \in Nat /\ Len(Append(q, x)) = Len(q) + 1
      /\ \A k \in 1..Len(q) : Append(q, x)[k] = q[k]
      /\ Append(q, x)[Len(q) + 1] = x
  BY AppendProperties, LenProperties
<1>2. ASSUME NEW k \in 1..(Len(q) + 1), NEW l \in 1..(Len(q) + 1), k < l
      PROVE  k \in 1..Len(q) /\ (l \in 1..Len(q) \/ l = Len(q) + 1)
  BY <1>1, <1>2
<1> QED
  BY <1>1, <1>2 DEF InOrder, Elems

-----------------------------------------------------------------------------
(* What a step of the gateway does to the queue *)

\* The queue, or what is behind its head
From(q) == /\ q \in Seq(Item)
           /\ q = btc \/ (btc # <<>> /\ q = Tail(btc) /\ Head(btc).kind # "prov")

\* The queue goes on from q with posts.
Moves(q, posts) ==
    /\ From(q) /\ posts \in Seq(Item)
    /\ btc' = q \o posts
    /\ \A x \in Elems(posts) : x.kind # "prov" /\ Addressed(x)

SameUnicast == \A i \in Slot : nodes'[i].unicast = nodes[i].unicast

\* x leaves the queue or the client models.
Left(q, x) == (q # btc /\ x = Head(btc)) \/ x \in tx \ tx'

\* When the queue moves on, all that was under way still is, but for what leaves.
LEMMA MovesFlow ==
    ASSUME TypeInv, NEW q, NEW posts, Moves(q, posts)
    PROVE  /\ Elems(btc') = Elems(q) \cup Elems(posts)
           /\ Elems(q) \subseteq Elems(btc)
           /\ \A x \in Flow : x \in Flow' \/ Left(q, x)
           /\ q # btc => btc # <<>> /\ Head(btc) \in Elems(btc)
<1>1. Elems(btc') = Elems(q) \cup Elems(posts)
  BY ElemsConcat DEF Moves, From
<1>2. CASE q = btc
  BY <1>1, <1>2 DEF Flow, Left
<1>3. CASE q # btc
  <2>1. btc \in Seq(Item) /\ btc # <<>> /\ q = Tail(btc)
    BY <1>3 DEF Moves, From, TypeInv, TypeOK
  <2>2. Elems(btc) = {Head(btc)} \cup Elems(q)
    BY <2>1, ElemsPop
  <2> QED
    BY <1>1, <1>3, <2>1, <2>2 DEF Flow, Left
<1> QED
  BY <1>2, <1>3

\* All that is under way is about a slot and an address.
LEMMA ItemNode == ASSUME TypeInv PROVE \A x \in Flow : x \in Item /\ x.node \in Slot /\ x.addr \in Nat
<1>1. \A k \in 1..Len(btc) : btc[k] \in Item
  BY ElementOfSeq DEF TypeInv, TypeOK
<1>2. \A x \in Flow : x \in Item
  BY <1>1 DEF Flow, Elems, TypeInv, TypeOK
<1> QED
  BY <1>2, GatewayAssumption DEF Item

\* Addresses are numbers, to be compared.
LEMMA AddressesAreNumbers ==
    ASSUME TypeInv PROVE \A i \in Slot : device[i].addr \in Nat /\ nodes[i].unicast \in Nat
<1>1. \A i \in Slot : device[i].addr \in 0..MaxAddr /\ nodes[i].unicast \in 0..MaxAddr
  BY DEF TypeInv, TypeOK, Device, Node
<1> QED
  BY <1>1, GatewayAssumption

\* Addresses stay right when the queue moves on and nobody gets a new one.
LEMMA AddrKept ==
    ASSUME TypeInv, AddrInv, NEW q, NEW posts, Moves(q, posts), SameUnicast,
           \A t \in tx' : t \in tx \/ (t.kind = "call" /\ t.op # "group" /\ t \in Flow),
           \A i \in Slot : device'[i].addr = device[i].addr
    PROVE  AddrInv'
<1>1. /\ Elems(btc') = Elems(q) \cup Elems(posts) /\ Elems(q) \subseteq Elems(btc)
      /\ Flow' \subseteq Flow \cup Elems(posts)
  BY MovesFlow DEF Flow
<1>2. \A x \in Flow \cup Elems(posts) : x.node \in Slot
  <2>1. \A k \in 1..Len(posts) : posts[k] \in Item
    BY ElementOfSeq DEF Moves, From
  <2> QED
    BY <2>1, ItemNode DEF Elems, Item
<1>3. \A x \in Flow \cup Elems(posts) : nodes'[x.node].unicast = nodes[x.node].unicast
                                          /\ device'[x.node].addr = device[x.node].addr
  BY <1>2 DEF SameUnicast
<1>4. \A x \in Flow' : x.kind # "prov" => Addressed(x)'
  BY <1>1, <1>3 DEF AddrInv, Moves, Addressed
<1>5. \A x \in Elems(btc') : x.kind = "prov" =>
          /\ x.op = "comp" /\ nodes'[x.node].unicast < x.addr /\ x.addr <= device'[x.node].addr
  BY <1>1, <1>3 DEF AddrInv, Moves, Flow
<1>6. \A t \in tx' : t.kind = "call" /\ t.op # "group"
  BY DEF AddrInv
<1>7. \A i \in Slot : nodes'[i].unicast <= device'[i].addr
  BY DEF AddrInv, SameUnicast
<1>8. InOrder(btc')
  <2>1. InOrder(q)
    BY OrderPop DEF Moves, From, AddrInv, TypeInv, TypeOK
  <2> QED
    BY <2>1, OrderConcat DEF Moves, From
<1> QED
  BY <1>4, <1>5, <1>6, <1>7, <1>8 DEF AddrInv

\* A light that is pending has its carrier if it had one that did not leave, or gets a new one.
LEMMA CarrierKept ==
    ASSUME TypeInv, NoOrphan, NEW q, NEW posts, Moves(q, posts), SameUnicast,
           \A i \in Slot : (pending'[i].inFlight /\ nodes[i].unicast = 1) =>
              \/ \E x \in Elems(posts) \cup tx' : Carries(x, i)
              \/ /\ pending[i].inFlight /\ \A x : Left(q, x) => ~Carries(x, i)
                 /\ TaskCarries(i) => TaskCarries(i)'
    PROVE  NoOrphan'
<1> SUFFICES ASSUME NEW i \in Slot, pending'[i].inFlight, nodes'[i].unicast = 1
             PROVE  Carrier(i)'
  BY DEF NoOrphan
<1>1. nodes[i].unicast = 1 /\ \A x : Carries(x, i)' <=> Carries(x, i)
  BY DEF SameUnicast, Carries
<1>2. (\E x \in Flow' : Carries(x, i)) => Carrier(i)'
  BY <1>1 DEF Carrier, Flow, Elems
<1>3. CASE \E x \in Elems(posts) \cup tx' : Carries(x, i)
  BY <1>2, <1>3, MovesFlow DEF Flow
<1>4. CASE /\ pending[i].inFlight /\ \A x : Left(q, x) => ~Carries(x, i)
           /\ TaskCarries(i) => TaskCarries(i)'
  <2>1. Carrier(i)
    BY <1>1, <1>4 DEF NoOrphan
  <2>2. CASE \E x \in Flow : Carries(x, i)
    BY <1>2, <1>4, <2>2, MovesFlow
  <2>3. CASE ~(\E x \in Flow : Carries(x, i))
    <3>1. TaskCarries(i)
      BY <2>1, <2>3 DEF Carrier, TaskCarries, Flow, Elems
    <3> QED
      BY <1>4, <3>1 DEF Carrier, TaskCarries
  <2> QED
    BY <2>2, <2>3
<1> QED
  BY <1>1, <1>3, <1>4

\* The configuration of a light goes on if what leaves is followed by what continues it.
LEMMA ConfigKept ==
    ASSUME TypeInv, TypeInv', ConfigInv, NEW q, NEW posts, Moves(q, posts), SameUnicast,
           recoverAt' = recoverAt, budget'.restarts = budget.restarts,
           faults' = 0 => faults = 0,
           \A i \in Slot : /\ device'[i].addr = device[i].addr
                           /\ device[i].bound => device'[i].bound
                           /\ device[i].subscribed => device'[i].subscribed
                           /\ (device'[i].bound /\ ~device[i].bound) =>
                                 /\ Provisioned(i) /\ nodes[i].unicast = device[i].addr
                                 /\ faults' = 0 => \E y \in Elems(posts) : Continues(y, i),
           \A i \in Slot, x \in Flow :
              (/\ Left(q, x) /\ Continues(x, i) /\ faults' = 0 /\ nodes[i].unicast = device[i].addr)
                 => \/ \E y \in Elems(posts) \cup tx' : Continues(y, i)
                    \/ device'[i].subscribed /\ (Fresh => device'[i].bound),
           \A x \in Elems(posts) \cup (tx' \ tx) :
              (faults' = 0 /\ Fresh /\ Late(x) /\ x.addr = device[x.node].addr)
                 => device'[x.node].bound
    PROVE  ConfigInv'
<1>1. \A i \in Slot : /\ \A x : Continues(x, i)' <=> Continues(x, i)
                      /\ Provisioned(i)' <=> Provisioned(i)
  BY DEF SameUnicast, Continues, Provisioned
<1>2. Fresh' <=> Fresh
  BY DEF Fresh
<1>3. ASSUME NEW i \in Slot, Configuring(i), faults' = 0, nodes[i].unicast = device[i].addr
      PROVE  Configuring(i)' \/ (device'[i].subscribed /\ (Fresh => device'[i].bound))
  <2>1. PICK x \in Flow : Continues(x, i)
    BY <1>3 DEF Configuring
  <2>2. x \in Flow' \/ Left(q, x)
    BY MovesFlow
  <2>3. Elems(posts) \cup tx' \subseteq Flow'
    BY MovesFlow DEF Flow
  <2> QED
    BY <1>1, <1>3, <2>1, <2>2, <2>3 DEF Configuring
<1>4. BoundKnown'
  BY <1>1 DEF ConfigInv, BoundKnown, SameUnicast
<1>5. WillSubscribe'
  <2> SUFFICES ASSUME faults' = 0, NEW i \in Slot, device'[i].bound, ~device'[i].subscribed
               PROVE  recoverAt' \in 1..i \/ Configuring(i)'
    BY DEF WillSubscribe
  <2>1. CASE device[i].bound
    <3>1. recoverAt \in 1..i \/ Configuring(i)
      BY <2>1 DEF ConfigInv, WillSubscribe
    <3>2. nodes[i].unicast = device[i].addr
      BY <2>1 DEF ConfigInv, BoundKnown
    <3> QED
      BY <1>3, <3>1, <3>2
  <2>2. CASE ~device[i].bound
    <3>1. \E y \in Elems(posts) : Continues(y, i)
      BY <2>2
    <3> QED
      BY <1>1, <3>1, MovesFlow DEF Configuring, Flow
  <2> QED
    BY <2>1, <2>2
<1>6. SetupInv'
  <2> SUFFICES ASSUME faults' = 0, Fresh PROVE
      /\ recoverAt' = 0
      /\ \A i \in Slot : nodes'[i].unicast < device'[i].addr =>
            \E x \in Elems(btc') : x.kind = "prov" /\ x.node = i /\ x.addr = device'[i].addr
      /\ \A x \in Flow' : (Late(x) /\ x.addr = device'[x.node].addr) => device'[x.node].bound
      /\ \A i \in Slot : (/\ Provisioned(i)' /\ nodes'[i].unicast = device'[i].addr
                          /\ ~(device'[i].bound /\ device'[i].subscribed)) => Configuring(i)'
    BY <1>2 DEF SetupInv, Late
  <2>0. /\ recoverAt = 0
        /\ \A i \in Slot : nodes[i].unicast < device[i].addr =>
              \E x \in Elems(btc) : x.kind = "prov" /\ x.node = i /\ x.addr = device[i].addr
        /\ \A x \in Flow : (Late(x) /\ x.addr = device[x.node].addr) => device[x.node].bound
        /\ \A i \in Slot : (/\ Provisioned(i) /\ nodes[i].unicast = device[i].addr
                            /\ ~(device[i].bound /\ device[i].subscribed)) => Configuring(i)
    BY DEF ConfigInv, SetupInv
  <2>1. ASSUME NEW i \in Slot, nodes'[i].unicast < device'[i].addr
        PROVE  \E x \in Elems(btc') : x.kind = "prov" /\ x.node = i /\ x.addr = device'[i].addr
    <3>1. PICK x \in Elems(btc) : x.kind = "prov" /\ x.node = i /\ x.addr = device[i].addr
      BY <2>0, <2>1 DEF SameUnicast
    <3>2. x \in Elems(q)
      <4>1. CASE q = btc
        BY <4>1
      <4>2. CASE q # btc
        <5>1. btc \in Seq(Item) /\ btc # <<>> /\ q = Tail(btc) /\ Head(btc).kind # "prov"
          BY <4>2 DEF Moves, From, TypeInv, TypeOK
        <5>2. Elems(btc) = {Head(btc)} \cup Elems(q)
          BY <5>1, ElemsPop
        <5> QED
          BY <3>1, <5>1, <5>2
      <4> QED
        BY <4>1, <4>2
    <3> QED
      BY <3>1, <3>2, MovesFlow
  <2>2. ASSUME NEW x \in Flow', Late(x), x.addr = device'[x.node].addr
        PROVE  device'[x.node].bound
    <3>1. CASE x \in Elems(posts) \cup (tx' \ tx)
      <4>1. x.node \in Slot
        <5>1. \A k \in 1..Len(posts) : posts[k] \in Item
          BY ElementOfSeq DEF Moves, From
        <5>2. x \in Item
          BY <3>1, <5>1 DEF Elems, TypeInv, TypeOK
        <5> QED
          BY <5>2 DEF Item
      <4> QED
        BY <2>2, <3>1, <4>1
    <3>2. CASE x \notin Elems(posts) \cup (tx' \ tx)
      <4>1. x \in Flow
        BY <3>2, MovesFlow DEF Flow
      <4> QED
        BY <2>0, <2>2, <4>1, ItemNode
    <3> QED
      BY <3>1, <3>2
  <2>3. ASSUME NEW i \in Slot, Provisioned(i)', nodes'[i].unicast = device'[i].addr,
               ~(device'[i].bound /\ device'[i].subscribed)
        PROVE  Configuring(i)'
    <3>1. nodes[i].unicast = device[i].addr /\ Provisioned(i) /\ Configuring(i)
      BY <1>1, <2>0, <2>3 DEF SameUnicast
    <3> QED
      BY <1>3, <2>3, <3>1
  <2> QED
    BY <2>0, <2>1, <2>2, <2>3
<1> QED
  BY <1>4, <1>5, <1>6 DEF ConfigInv

-----------------------------------------------------------------------------
(* Steps of the same shape *)

\* Handling the head of the queue without posting anything
LEMMA MovesNone ==
    ASSUME NEW q, From(q), btc' = q
    PROVE  Moves(q, <<>>) /\ Elems(<<>>) = {}
<1>1. q \o <<>> = q
  BY ConcatEmptySeq DEF From
<1> QED
  BY <1>1, ElemsOfNone DEF Moves

\* Posting one item
LEMMA MovesOne ==
    ASSUME NEW q, From(q), NEW x \in Item, x.kind # "prov", Addressed(x), btc' = Append(q, x)
    PROVE  Moves(q, <<x>>) /\ Elems(<<x>>) = {x}
<1>1. q \o <<x>> = Append(q, x)
  BY AppendIsConcat DEF From
<1>2. <<x>> \in Seq(Item)
  OBVIOUS
<1> QED
  BY <1>1, <1>2, ElemsOfOne DEF Moves

\* A post whose error is only logged: the call is queued, or a failure is counted.
LEMMA PostOrLogMoves ==
    ASSUME TypeInv, NEW q, From(q), NEW call \in Item, call.kind # "prov", Addressed(call),
           PostOrLog(q, call)
    PROVE  \E posts : /\ Moves(q, posts)
                      /\ \/ Elems(posts) = {call} /\ faults' = faults
                         \/ Elems(posts) = {} /\ faults' = faults + 1
<1>1. CASE btc' = Append(q, call) /\ faults' = faults
  BY <1>1, MovesOne
<1>2. CASE btc' = q /\ faults' = faults + 1
  BY <1>2, MovesNone
<1> QED
  BY <1>1, <1>2 DEF PostOrLog

\* A call is addressed to the light the table knows.
LEMMA CallParts ==
    ASSUME TypeInv, NEW o \in Ops, NEW i \in Slot, NEW v \in 0..1, Provisioned(i)
    PROVE  /\ Call(o, i, v) \in Item /\ Call(o, i, v).kind = "call" /\ Call(o, i, v).op = o
           /\ Call(o, i, v).node = i /\ Call(o, i, v).addr = nodes[i].unicast
           /\ Addressed(Call(o, i, v))
<1>1. nodes[i].unicast \in Nat
  BY GatewayAssumption DEF TypeInv, TypeOK, Node
<1>2. Call(o, i, v) \in Item
  BY CallType DEF TypeInv
<1> DEFINE c == Call(o, i, v)
<1>3. c.kind = "call" /\ c.op = o /\ c.node = i /\ c.addr = nodes[i].unicast
  BY DEF Call
<1> HIDE DEF c
<1>4. Addressed(c)
  BY <1>1, <1>3 DEF Addressed, Provisioned
<1> QED
  BY <1>2, <1>3, <1>4 DEF c

\* A step that posts and leaves the pending table alone
LEMMA PostStep ==
    ASSUME TypeInv, TypeInv', FlowInv, ConfigInv, NEW q, NEW posts, Moves(q, posts), SameUnicast,
           UNCHANGED <<pending, tx, device, recoverAt, syncAt>>, budget'.restarts = budget.restarts,
           faults' = 0 => faults = 0,
           mqtt' = mqtt \/ (mqtt.pc \notin {"post", "gtask"} /\ mqtt'.pc \notin {"mark", "post"}),
           q # btc => \A i \in Slot : ~Carries(Head(btc), i) \/ ~pending[i].inFlight,
           \A i \in Slot :
              (/\ q # btc /\ Continues(Head(btc), i) /\ faults' = 0
               /\ nodes[i].unicast = device[i].addr) => \E y \in Elems(posts) : Continues(y, i),
           \A x \in Elems(posts) :
              (faults' = 0 /\ Fresh /\ Late(x) /\ x.addr = device[x.node].addr)
                 => device[x.node].bound
    PROVE  FlowInv' /\ ConfigInv'
<1>1. AddrInv'
  BY AddrKept DEF FlowInv
<1>2. Reserved'
  BY DEF FlowInv, Reserved, SameUnicast, Provisioned, TypeInv, MqttOK
<1>3. \A i \in Slot : TaskCarries(i) => TaskCarries(i)'
  BY DEF TaskCarries
<1>4. NoOrphan'
  BY <1>3, CarrierKept DEF FlowInv, Left
<1>5. ConfigInv'
  BY ConfigKept DEF Left
<1> QED
  BY <1>1, <1>2, <1>4, <1>5 DEF FlowInv

\* What a handler leaves of the command of light i: nothing in flight, or a request for it.
Settled(out, i) ==
    /\ OutcomeOK(out)
    /\ \A x \in Elems(out.posts) : x.kind = "call" /\ Carries(x, i)
    /\ out.p.inFlight => \E x \in Elems(out.posts) : Carries(x, i)

\* A step that settles the command of one light
LEMMA CommandStep ==
    ASSUME TypeInv, TypeInv', FlowInv, ConfigInv, NEW q, From(q), NEW i \in Slot, Provisioned(i),
           NEW out, Settled(out, i), Commit(i, q, out), SameUnicast,
           UNCHANGED <<tx, device, recoverAt>>, budget'.restarts = budget.restarts,
           mqtt' = mqtt \/ mqtt'.pc \notin {"mark", "post"},
           \A j \in Slot \ {i} : TaskCarries(j) => TaskCarries(j)',
           q # btc => Head(btc).node = i /\ Head(btc).op \in {"get", "set"}
    PROVE  FlowInv' /\ ConfigInv'
<1>1. Moves(q, out.posts)
  <2>1. nodes[i].unicast \in Nat
    BY GatewayAssumption DEF TypeInv, TypeOK, Node
  <2>2. \A x \in Elems(out.posts) : x.kind # "prov" /\ Addressed(x)
    BY <2>1 DEF Settled, Carries, Addressed, Provisioned
  <2> QED
    BY <2>2 DEF Moves, Commit, Settled, OutcomeOK
<1>2. /\ pending' = [pending EXCEPT ![i] = out.p] /\ pending'[i] = out.p
      /\ \A j \in Slot \ {i} : pending'[j] = pending[j]
  BY DEF Commit, TypeInv, TypeOK
<1>3. faults' = 0 => faults = 0
  <2>1. faults' = faults + out.failed /\ out.failed \in Nat /\ faults \in Nat
    BY Numbers DEF Commit, Settled, OutcomeOK, TypeInv
  <2> QED
    BY <2>1
<1>4. AddrInv'
  BY <1>1, AddrKept DEF FlowInv
<1>5. Reserved'
  BY <1>2 DEF FlowInv, Reserved, SameUnicast, Provisioned, TypeInv, MqttOK
<1>6. NoOrphan'
  <2>1. ASSUME NEW j \in Slot, pending'[j].inFlight
        PROVE  \/ \E x \in Elems(out.posts) \cup tx' : Carries(x, j)
               \/ /\ pending[j].inFlight /\ \A x : Left(q, x) => ~Carries(x, j)
                  /\ TaskCarries(j) => TaskCarries(j)'
    <3>1. CASE j = i
      BY <1>2, <2>1, <3>1 DEF Settled
    <3>2. CASE j # i
      BY <1>2, <2>1, <3>2 DEF Left, Carries
    <3> QED
      BY <3>1, <3>2
  <2> QED
    BY <1>1, <2>1, CarrierKept DEF FlowInv
<1>7. ConfigInv'
  <2>1. \A x : Left(q, x) => x.op \notin CfgOps
    BY DEF Left, CfgOps
  <2>2. \A x \in Elems(out.posts) : ~Late(x)
    BY DEF Settled, Carries, Late
  <2> QED
    BY <1>1, <1>3, <2>1, <2>2, ConfigKept DEF Continues
<1> QED
  BY <1>4, <1>5, <1>6, <1>7 DEF FlowInv

-----------------------------------------------------------------------------
(* Settling a command *)

\* A command whose request is queued, or that is cleared when posting fails, is settled.
LEMMA PostingSettles ==
    ASSUME TypeInv, NEW i \in Slot, Provisioned(i), NEW o \in {"get", "set"}, NEW v \in 0..1,
           NEW p \in Pending, NEW out \in Posting(p, Call(o, i, v), NoPending)
    PROVE  Settled(out, i)
<1> DEFINE c == Call(o, i, v)
<1>1. c \in Item /\ c.kind = "call" /\ Carries(c, i)
  BY CallParts DEF Carries, Ops, CfgOps
<1>2. OutcomeOK(out)
  BY <1>1, PostingType, NoPendingType DEF TypeInv
<1>3. \/ out = Outcome(p, <<c>>, 0)
      \/ out = Outcome(NoPending, <<>>, 1)
  BY DEF Posting
<1> HIDE DEF c
<1>4. CASE out = Outcome(p, <<c>>, 0)
  <2>1. Elems(out.posts) = {c}
    BY <1>4, OutcomeParts, ElemsOfOne
  <2> QED
    BY <1>1, <1>2, <2>1 DEF Settled
<1>5. CASE out = Outcome(NoPending, <<>>, 1)
  <2>1. Elems(out.posts) = {} /\ out.p = NoPending
    BY <1>5, OutcomeParts, ElemsOfNone
  <2> QED
    BY <1>2, <2>1 DEF Settled, NoPending
<1> QED
  BY <1>3, <1>4, <1>5

\* A command that is not in flight is settled.
LEMMA KeepSettles ==
    ASSUME TypeInv, NEW i \in Slot, NEW p \in Pending, ~p.inFlight, NEW out \in Keep(p)
    PROVE  Settled(out, i)
<1>1. OutcomeOK(out)
  BY KeepType DEF TypeInv
<1>2. Elems(out.posts) = {} /\ out.p = p
  BY OutcomeParts, ElemsOfNone DEF Keep
<1> QED
  BY <1>1, <1>2 DEF Settled

\* The cleared entry is not in flight.
LEMMA NothingPending == NoPending \in Pending /\ ~NoPending.inFlight
BY NoPendingType DEF NoPending

\* A SET for the command settles it.
LEMMA RequestSettles ==
    ASSUME TypeInv, NEW i \in Slot, Provisioned(i), NEW p \in Pending, NEW out \in RequestOnOff(i, p)
    PROVE  Settled(out, i)
<1>1. p.desired \in 0..1
  BY DEF Pending
<1> QED
  BY <1>1, PostingSettles DEF RequestOnOff

\* A retry, or giving up, settles the command.
LEMMA RetrySettles ==
    ASSUME TypeInv, NEW i \in Slot, Provisioned(i), NEW out \in Retry(i)
    PROVE  Settled(out, i)
<1>1. pending[i] \in Pending /\ pending[i].retries \in 0..MaxRetries
  BY DEF TypeInv, TypeOK, Pending
<1>2. CASE pending[i].retries >= MaxRetries
  BY <1>2, KeepSettles, NothingPending DEF Retry
<1>3. CASE ~(pending[i].retries >= MaxRetries)
  <2>1. pending[i].retries + 1 \in 0..MaxRetries
    BY <1>1, <1>3, GatewayAssumption
  <2>2. [pending[i] EXCEPT !.retries = @ + 1] \in Pending
    BY <1>1, <2>1 DEF Pending
  <2> QED
    BY <1>3, <2>2, RequestSettles DEF Retry
<1> QED
  BY <1>2, <1>3

\* The first half of the handler of a GET status settles the command.
LEMMA AfterGetSettles ==
    ASSUME TypeInv, NEW i \in Slot, Provisioned(i), NEW on \in 0..1, NEW out \in AfterGet(i, on)
    PROVE  Settled(out, i)
<1>1. pending[i] \in Pending /\ [pending[i] EXCEPT !.retries = 0] \in Pending
  BY Zeros DEF TypeInv, TypeOK, Pending
<1> QED
  BY <1>1, KeepSettles, NothingPending, RequestSettles DEF AfterGet

\* Two outcomes one after the other, the second of which keeps what the first has posted.
LEMMA BothSettle ==
    ASSUME TypeInv, NEW i \in Slot, NEW out, Settled(out, i), NEW last, OutcomeOK(last),
           faults + out.failed + last.failed <= MaxFaults,
           Settled(last, i) \/ (last.p = out.p /\ last.posts = <<>>)
    PROVE  Settled(Outcome(last.p, out.posts \o last.posts, out.failed + last.failed), i)
<1> DEFINE calls == out.posts \o last.posts
           failures == out.failed + last.failed
           both == Outcome(last.p, calls, failures)
<1>1. OutcomeOK(both)
  BY BothType DEF TypeInv, Settled
<1> HIDE DEF calls, failures
<1>2. both.p = last.p /\ both.posts = calls
  BY OutcomeParts
<1> USE DEF calls
<1> HIDE DEF both
<1>3. Elems(both.posts) = Elems(out.posts) \cup Elems(last.posts)
  BY <1>2, ElemsConcat DEF Settled, OutcomeOK
<1>4. ASSUME Settled(last, i) PROVE Settled(both, i)
  BY <1>1, <1>2, <1>3, <1>4 DEF Settled
<1>5. ASSUME last.p = out.p, last.posts = <<>> PROVE Settled(both, i)
  BY <1>1, <1>2, <1>3, <1>5, ElemsOfNone DEF Settled
<1>6. Settled(both, i)
  BY <1>4, <1>5
<1> QED
  BY <1>6 DEF both, calls, failures

\* The head of the queue is an event of a light the table knows.
LEMMA KnownHead ==
    ASSUME TypeInv, AddrInv, NEW k \in Kinds \ {"prov"}, NEW ops \in SUBSET (Ops \ {"group"}),
           Arrives(k, ops), Known
    PROVE  /\ From(Tail(btc)) /\ Head(btc) \in Item /\ Head(btc) \in Elems(btc) /\ Head(btc) \in Flow
           /\ Head(btc).kind = k /\ Head(btc).op \in ops /\ Head(btc).node \in Slot
           /\ Head(btc).on \in 0..1 /\ Provisioned(Head(btc).node)
           /\ Head(btc).addr = nodes[Head(btc).node].unicast
           /\ Tail(btc) # btc
<1>1. /\ btc \in Seq(Item) /\ btc # <<>> /\ Tail(btc) \in Seq(Item)
      /\ Head(btc) \in Item /\ Head(btc).node \in Slot /\ Head(btc).op \in ops /\ Head(btc).on \in 0..1
      /\ Head(btc).kind = k
  BY ArrivesType DEF Arrives, TypeInv, TypeOK
<1>2. Head(btc) \in Elems(btc)
  BY <1>1, ElemsPop
<1>3. Provisioned(Head(btc).node) /\ Head(btc).addr = nodes[Head(btc).node].unicast
  BY <1>1, <1>2 DEF AddrInv, Flow, Addressed, Known, Provisioned
<1>4. Tail(btc) # btc
  <2>1. Len(Tail(btc)) = Len(btc) - 1 /\ Len(btc) \in Nat
    BY <1>1, HeadTailProperties
  <2> QED
    BY <2>1
<1> QED
  BY <1>1, <1>2, <1>3, <1>4 DEF From, Flow

-----------------------------------------------------------------------------
(* One lemma per action *)

FlowType == TypeInv /\ FlowInv /\ ConfigInv

\* The gateway starts with nothing under way and with lights stored as configured.
LEMMA InitFlow == GatewayInit /\ Stored => FlowInv /\ ConfigInv
<1> SUFFICES ASSUME GatewayInit, Stored PROVE FlowInv /\ ConfigInv
  OBVIOUS
<1>1. Elems(btc) = {} /\ tx = {} /\ Flow = {} /\ Len(btc) = 0
  BY ElemsOfNone DEF GatewayInit, Flow
<1>2. \A i \in Slot : /\ nodes[i].unicast = device[i].addr
                      /\ (device[i].bound <=> i \in Paired) /\ (device[i].subscribed <=> i \in Paired)
                      /\ nodes[i].unicast = IF i \in Paired THEN 1 ELSE 0
                      /\ ~pending[i].inFlight
  BY DEF GatewayInit, Stored, Lights, NoPending
<1>3. InOrder(btc)
  BY <1>1 DEF InOrder
<1>4. AddrInv
  BY <1>1, <1>2, <1>3 DEF AddrInv
<1>5. Reserved /\ NoOrphan
  BY <1>2 DEF Reserved, NoOrphan, GatewayInit, Idle
<1>6. BoundKnown /\ WillSubscribe
  <2>1. BoundKnown
    BY <1>2 DEF BoundKnown, Provisioned, Unassigned
  <2>2. WillSubscribe
    BY <1>2 DEF WillSubscribe
  <2> QED
    BY <2>1, <2>2
<1>7. SetupInv
  <2> SUFFICES ASSUME Fresh PROVE
      /\ recoverAt = 0
      /\ \A i \in Slot : nodes[i].unicast < device[i].addr =>
            \E x \in Elems(btc) : x.kind = "prov" /\ x.node = i /\ x.addr = device[i].addr
      /\ \A i \in Slot : (/\ Provisioned(i) /\ nodes[i].unicast = device[i].addr
                          /\ ~(device[i].bound /\ device[i].subscribed)) => Configuring(i)
    BY <1>1 DEF SetupInv
  <2>1. recoverAt = 0
    BY DEF GatewayInit, Fresh
  <2>2. \A i \in Slot : ~(nodes[i].unicast < device[i].addr)
    BY <1>2
  <2> QED
    BY <1>2, <2>1, <2>2 DEF Provisioned, Unassigned
<1> QED
  BY <1>4, <1>5, <1>6, <1>7 DEF FlowInv, ConfigInv

\* A step that leaves the queue, the requests, the lights and the addresses alone
LEMMA StillFlow ==
    ASSUME FlowType, TypeInv', UNCHANGED <<nodes, btc, tx, device, recoverAt>>,
           budget'.restarts = budget.restarts, faults' = 0 => faults = 0
    PROVE  AddrInv' /\ ConfigInv' /\ Moves(btc, <<>>) /\ SameUnicast
<1>1. Moves(btc, <<>>) /\ Elems(<<>>) = {}
  BY MovesNone DEF From, FlowType, TypeInv, TypeOK
<1>2. SameUnicast
  BY DEF SameUnicast
<1>3. AddrInv'
  BY <1>1, <1>2, AddrKept DEF FlowType, FlowInv
<1>4. ConfigInv'
  BY <1>1, <1>2, ConfigKept DEF FlowType, FlowInv, Left
<1> QED
  BY <1>1, <1>2, <1>3, <1>4

\* Receiving a command, connecting and disconnecting
LEMMA ReceiveFlow ==
    ASSUME FlowType, TypeInv',
           \/ \E i \in Slot, on \in 0..1 : DispatchCommand(i, on)
           \/ \E on \in 0..1 : ReceiveGroup(on)
           \/ Connect \/ Disconnect
    PROVE  FlowInv' /\ ConfigInv'
<1> USE DEF gatewayVars, taskVars
<1>0. UNCHANGED <<gatewayVars, btc, tx, device, taskVars, faults>> /\ mqtt.pc = "idle"
  BY DEF DispatchCommand, ReceiveGroup, DispatchGroup, Connect, Disconnect
<1>r. budget'.restarts = budget.restarts
  <2>1. budget \in Budget
    BY DEF FlowType, TypeInv, TypeOK
  <2>2. \/ budget' = budget
        \/ budget' = [budget EXCEPT !.cmds = @ + 1]
        \/ budget' = [budget EXCEPT !.connects = @ + 1]
    BY ZenonT(20) DEF DispatchCommand, ReceiveGroup, DispatchGroup, Connect, Disconnect
  <2> QED
    BY <2>1, <2>2 DEF Budget
<1>1. /\ UNCHANGED <<gatewayVars, btc, tx, device, taskVars, faults>>
      /\ mqtt.pc = "idle" /\ budget'.restarts = budget.restarts
  BY <1>0, <1>r
<1>2. AddrInv' /\ ConfigInv'
  BY <1>1, StillFlow
<1>3. Reserved'
  <2>1. mqtt'.pc \in {"mark", "post"} => Provisioned(mqtt'.at)
    <3>1. ASSUME NEW i \in Slot, NEW on \in 0..1, DispatchCommand(i, on)
          PROVE  mqtt'.pc \in {"mark", "post"} => Provisioned(mqtt'.at)
      BY <3>1 DEF DispatchCommand, Accepts, Idle
    <3>2. ASSUME NEW on \in 0..1, ReceiveGroup(on) PROVE mqtt'.pc \notin {"mark", "post"}
      <4>1. mqtt' = Idle \/ mqtt' = [pc |-> "gmark", at |-> 0, on |-> on, mid |-> budget.cmds + 1]
        BY <3>2, ZenonT(20) DEF ReceiveGroup, DispatchGroup
      <4> QED
        BY <4>1 DEF Idle
    <3>3. CASE Connect \/ Disconnect
      BY <1>1, <3>3 DEF Connect, Disconnect, Idle
    <3> QED
      BY <3>1, <3>2, <3>3
  <2> QED
    BY <1>1, <2>1 DEF FlowType, FlowInv, Reserved, Provisioned
<1>4. NoOrphan'
  <2>1. \A i \in Slot : Carrier(i) => Carrier(i)'
    BY <1>1 DEF Carrier, Carries
  <2> QED
    BY <1>1, <2>1 DEF FlowType, FlowInv, NoOrphan
<1> QED
  BY <1>2, <1>3, <1>4 DEF FlowInv

\* An entry is marked by the task that is about to post its SET.
LEMMA MarkPendingFlow ==
    ASSUME FlowType, TypeInv', MarkPending
    PROVE  FlowInv' /\ ConfigInv'
<1>1. AddrInv' /\ ConfigInv'
  BY StillFlow DEF MarkPending, taskVars
<1>2. /\ mqtt.at \in Slot /\ Provisioned(mqtt.at) /\ mqtt' = [mqtt EXCEPT !.pc = "post"]
      /\ \A j \in Slot : j # mqtt.at => pending'[j] = pending[j]
      /\ UNCHANGED <<nodes, btc, tx, syncAt>>
  BY DEF MarkPending, FlowType, FlowInv, Reserved, TypeInv, TypeOK, MqttOK, taskVars
<1>3. mqtt'.pc = "post" /\ mqtt'.at = mqtt.at
  BY <1>2 DEF FlowType, TypeInv, TypeOK, Mqtt
<1>4. Reserved'
  BY <1>2, <1>3 DEF FlowType, FlowInv, Reserved, Provisioned
<1>5. NoOrphan'
  <2>1. \A j \in Slot : Carrier(j) => Carrier(j)'
    BY <1>2 DEF MarkPending, Carrier, Carries
  <2>2. Carrier(mqtt.at)'
    BY <1>3 DEF Carrier
  <2> QED
    BY <1>2, <2>1, <2>2 DEF FlowType, FlowInv, NoOrphan
<1> QED
  BY <1>1, <1>4, <1>5 DEF FlowInv

\* The MQTT task posts the SET, or clears the entry.
LEMMA PostCommandFlow ==
    ASSUME FlowType, TypeInv', PostCommand
    PROVE  FlowInv' /\ ConfigInv'
<1>1. /\ mqtt.pc = "post" /\ mqtt.at \in Slot /\ mqtt.on \in 0..1 /\ Provisioned(mqtt.at)
      /\ pending[mqtt.at] \in Pending
  BY DEF PostCommand, FlowType, FlowInv, Reserved, TypeInv, TypeOK, MqttOK, Mqtt
<1>2. PICK out \in Posting(pending[mqtt.at], Call("set", mqtt.at, mqtt.on), NoPending) :
             Commit(mqtt.at, btc, out)
  BY DEF PostCommand
<1>3. Settled(out, mqtt.at)
  BY <1>1, <1>2, PostingSettles DEF FlowType
<1>4. From(btc) /\ SameUnicast
  BY DEF From, FlowType, TypeInv, TypeOK, PostCommand, SameUnicast
<1>5. \A j \in Slot \ {mqtt.at} : TaskCarries(j) => TaskCarries(j)'
  BY <1>1 DEF TaskCarries, PostCommand, taskVars
<1>6. mqtt'.pc = "idle" /\ UNCHANGED <<tx, device, recoverAt>> /\ budget'.restarts = budget.restarts
  BY DEF PostCommand, Idle, taskVars
<1> QED
  BY <1>1, <1>2, <1>3, <1>4, <1>5, <1>6, CommandStep DEF FlowType

\* A group command marks its lights for the sync task it is about to start.
LEMMA MarkGroupFlow ==
    ASSUME FlowType, TypeInv', MarkGroup
    PROVE  FlowInv' /\ ConfigInv'
<1>1. AddrInv' /\ ConfigInv'
  <2>1. UNCHANGED <<nodes, btc, tx, device, recoverAt, budget, faults>>
    BY ZenonT(20) DEF MarkGroup, taskVars
  <2> QED
    BY <2>1, StillFlow
<1>2. mqtt'.pc = "gtask" /\ nodes' = nodes
  <2>1. mqtt \in Mqtt
    BY DEF FlowType, TypeInv, TypeOK
  <2>2. mqtt' = [mqtt EXCEPT !.pc = "gtask"] /\ nodes' = nodes
    BY ZenonT(20) DEF MarkGroup
  <2> QED
    BY <2>1, <2>2 DEF Mqtt
<1>3. Reserved'
  <2>1. ASSUME NEW i \in Slot, ~Provisioned(i) PROVE pending'[i] = pending[i]
    BY <2>1, ZenonT(20) DEF MarkGroup
  <2> QED
    BY <1>2, <2>1 DEF FlowType, FlowInv, Reserved, Provisioned
<1>4. NoOrphan'
  BY <1>2 DEF NoOrphan, Carrier
<1> QED
  BY <1>1, <1>3, <1>4 DEF FlowInv

\* Clearing all entries orphans none.
LEMMA NoneInFlight ==
    ASSUME ClearAllPending, mqtt'.pc \notin {"mark", "post"}
    PROVE  Reserved' /\ NoOrphan'
BY DEF ClearAllPending, NoPending, Reserved, NoOrphan

\* The sync task will reach every light, or all entries are cleared.
LEMMA StartGroupSyncFlow ==
    ASSUME FlowType, TypeInv', StartGroupSync
    PROVE  FlowInv' /\ ConfigInv'
<1>1. faults' = 0 => faults = 0
  BY Numbers DEF StartGroupSync, FlowType, TypeInv
<1>2. AddrInv' /\ ConfigInv'
  BY <1>1, StillFlow DEF StartGroupSync
<1>3. CASE /\ syncAt' = [syncAt EXCEPT ![mqtt.mid] = 1]
           /\ mqtt' = [mqtt EXCEPT !.pc = "gpost"]
           /\ UNCHANGED pending
  <2>1. mqtt.mid \in CmdId /\ syncAt'[mqtt.mid] = 1 /\ mqtt'.pc = "gpost"
    BY <1>3 DEF StartGroupSync, FlowType, TypeInv, TypeOK, MqttOK, Mqtt
  <2>2. \A i \in Slot : Carrier(i)'
    BY <2>1 DEF Carrier, Slot
  <2>3. Reserved'
    BY <1>3, <2>1 DEF StartGroupSync, FlowType, FlowInv, Reserved, Provisioned
  <2> QED
    BY <1>2, <2>2, <2>3 DEF FlowInv, NoOrphan
<1>4. CASE ClearAllPending /\ mqtt' = Idle
  BY <1>2, <1>4, NoneInFlight DEF FlowInv, Idle
<1> QED
  BY <1>3, <1>4 DEF StartGroupSync

\* The group SET carries no command: the sync task does.
LEMMA PostGroupFlow ==
    ASSUME FlowType, TypeInv', PostGroup
    PROVE  FlowInv' /\ ConfigInv'
<1> DEFINE x == [kind |-> "call", op |-> "group", node |-> 1, addr |-> Unassigned, on |-> mqtt.on]
<1>1. mqtt.pc = "gpost" /\ mqtt'.pc = "idle" /\ From(btc)
  BY DEF PostGroup, Idle, From, FlowType, TypeInv, TypeOK
<1>2. CASE btc' = Append(btc, x) /\ UNCHANGED <<pending, faults>>
  <2>1. x \in Item /\ x.kind # "prov" /\ Addressed(x) /\ ~Late(x)
    <3>1. mqtt.on \in 0..1
      BY DEF FlowType, TypeInv, TypeOK, Mqtt
    <3> QED
      BY <3>1, GatewayAssumption DEF Item, Kinds, Ops, Slot, Unassigned, Addressed, Late
  <2> HIDE DEF x
  <2>2. Moves(btc, <<x>>) /\ Elems(<<x>>) = {x} /\ SameUnicast
    BY <1>1, <1>2, <2>1, MovesOne DEF SameUnicast, PostGroup
  <2> QED
    BY <1>1, <1>2, <2>1, <2>2, PostStep DEF FlowType, PostGroup, taskVars
<1>3. CASE ClearAllPending /\ UNCHANGED btc /\ faults' = faults + 1
  <2>1. faults' = 0 => faults = 0
    BY <1>3, Numbers DEF FlowType, TypeInv
  <2>2. AddrInv' /\ ConfigInv'
    BY <1>3, <2>1, StillFlow DEF PostGroup, taskVars
  <2> QED
    BY <1>1, <1>3, <2>2, NoneInFlight DEF FlowInv
<1> QED
  BY <1>2, <1>3 DEF PostGroup

\* The sync after a connection only posts GETs.
LEMMA SyncNodeFlow ==
    ASSUME FlowType, TypeInv', SyncNode
    PROVE  FlowInv' /\ ConfigInv'
<1>1. mqtt.pc = "sync" /\ mqtt.at \in Slot /\ From(btc) /\ SameUnicast
  BY DEF SyncNode, SameUnicast, From, FlowType, TypeInv, TypeOK, MqttOK
<1>2. mqtt'.pc \notin {"mark", "post"}
  <2>1. mqtt \in Mqtt
    BY DEF FlowType, TypeInv, TypeOK
  <2>2. mqtt' = Idle \/ mqtt' = [mqtt EXCEPT !.at = NextSlot(@)]
    BY DEF SyncNode
  <2> QED
    BY <1>1, <2>1, <2>2 DEF Mqtt, Idle
<1>3. UNCHANGED <<pending, tx, device, recoverAt, syncAt, budget>>
  BY DEF SyncNode, taskVars
<1>4. CASE Provisioned(mqtt.at)
  <2> DEFINE c == Call("get", mqtt.at, 0)
  <2>1. c \in Item /\ c.kind = "call" /\ c.op = "get" /\ Addressed(c)
    BY <1>1, <1>4, CallParts DEF FlowType, Ops
  <2>2. PostOrLog(btc, c)
    BY <1>4 DEF SyncNode
  <2> HIDE DEF c
  <2>3. ~Late(c)
    BY <2>1 DEF Late
  <2>4. PICK posts : /\ Moves(btc, posts)
                     /\ \/ Elems(posts) = {c} /\ faults' = faults
                        \/ Elems(posts) = {} /\ faults' = faults + 1
    BY <1>1, <2>1, <2>2, PostOrLogMoves DEF FlowType
  <2>5. faults' = 0 => faults = 0
    BY <2>4, Numbers DEF FlowType, TypeInv
  <2> QED
    BY <1>1, <1>2, <1>3, <2>3, <2>4, <2>5, PostStep DEF FlowType
<1>5. CASE ~Provisioned(mqtt.at)
  <2>1. btc' = btc /\ faults' = faults
    BY <1>5 DEF SyncNode
  <2>2. Moves(btc, <<>>) /\ Elems(<<>>) = {}
    BY <1>1, <2>1, MovesNone
  <2> QED
    BY <1>1, <1>2, <1>3, <2>1, <2>2, PostStep DEF FlowType
<1> QED
  BY <1>4, <1>5

\* The slots a loop has not reached yet are still before it.
LEMMA NextSlotReaches ==
    ASSUME NEW k \in 0..NumNodes, NEW i \in Slot, k # 0, k <= i, k # i
    PROVE  NextSlot(k) # 0 /\ NextSlot(k) <= i /\ NextSlot(k) = k + 1
BY GatewayAssumption DEF NextSlot, Slot

\* The sync task hands the command of a light to a GET, or clears it.
LEMMA GroupSyncStepFlow ==
    ASSUME FlowType, TypeInv', NEW c \in CmdId, GroupSyncStep(c)
    PROVE  FlowInv' /\ ConfigInv'
<1> DEFINE i == syncAt[c]
<1>1. /\ i \in Slot /\ i \in 0..NumNodes /\ i # 0 /\ From(btc) /\ SameUnicast
      /\ syncAt' = [syncAt EXCEPT ![c] = NextSlot(@)] /\ syncAt'[c] = NextSlot(i)
      /\ \A d \in CmdId : d # c => syncAt'[d] = syncAt[d]
      /\ UNCHANGED <<nodes, tx, device, recoverAt, mqtt, budget>>
  <2>1. syncAt \in [CmdId -> 0..NumNodes] /\ i # 0 /\ From(btc)
    BY DEF GroupSyncStep, From, FlowType, TypeInv, TypeOK
  <2>2. i \in Slot
    BY <2>1, GatewayAssumption DEF Slot
  <2> QED
    BY <2>1, <2>2 DEF GroupSyncStep, SameUnicast, mqttVars
<1>2. \A j \in Slot \ {i} : TaskCarries(j) => TaskCarries(j)'
  <2> SUFFICES ASSUME NEW j \in Slot, j # i, TaskCarries(j) PROVE TaskCarries(j)'
    OBVIOUS
  <2>1. CASE i <= j
    <3>1. syncAt'[c] # 0 /\ syncAt'[c] <= j
      BY <1>1, <2>1, NextSlotReaches
    <3> QED
      BY <3>1 DEF TaskCarries
  <2>2. CASE ~(i <= j)
    BY <1>1, <2>2 DEF TaskCarries
  <2> QED
    BY <2>1, <2>2
<1>3. CASE pending[i].inFlight /\ Provisioned(i)
  <2>1. PICK out \in Posting(pending[i], Call("get", i, 0), NoPending) : Commit(i, btc, out)
    BY <1>3 DEF GroupSyncStep
  <2>2. pending[i] \in Pending
    BY <1>1 DEF FlowType, TypeInv, TypeOK
  <2> HIDE DEF i
  <2>3. Settled(out, i)
    BY <1>1, <1>3, <2>1, <2>2, PostingSettles DEF FlowType
  <2> QED
    BY <1>1, <1>2, <1>3, <2>1, <2>3, CommandStep DEF FlowType
<1>4. CASE ~(pending[i].inFlight /\ Provisioned(i))
  <2>1. UNCHANGED <<pending, btc, faults>>
    BY <1>4 DEF GroupSyncStep
  <2>2. ~pending[i].inFlight
    BY <1>1, <1>4 DEF FlowType, FlowInv, Reserved
  <2> HIDE DEF i
  <2>3. AddrInv' /\ ConfigInv' /\ Moves(btc, <<>>)
    BY <1>1, <2>1, StillFlow
  <2>4. Reserved'
    BY <1>1, <2>1 DEF FlowType, FlowInv, Reserved, Provisioned
  <2>5. NoOrphan'
    <3>1. ASSUME NEW j \in Slot, pending'[j].inFlight
          PROVE  /\ pending[j].inFlight /\ \A x : Left(btc, x) => ~Carries(x, j)
                 /\ TaskCarries(j) => TaskCarries(j)'
      BY <1>1, <1>2, <2>1, <2>2, <3>1 DEF Left
    <3> QED
      BY <1>1, <2>3, <3>1, CarrierKept DEF FlowType, FlowInv
  <2> QED
    BY <2>3, <2>4, <2>5 DEF FlowInv
<1> QED
  BY <1>3, <1>4

-----------------------------------------------------------------------------
(* The handlers of the OnOff client *)

\* The answer to a SET ends or repeats the command.
LEMMA SetStatusFlow ==
    ASSUME FlowType, TypeInv', SetStatus
    PROVE  FlowInv' /\ ConfigInv'
<1> DEFINE e == Head(btc)
           i == e.node
<1>1. /\ From(Tail(btc)) /\ i \in Slot /\ e.on \in 0..1 /\ Provisioned(i) /\ e.op = "set"
  <2>1. Arrives("status", {"set"}) /\ Known
    BY DEF SetStatus
  <2> QED
    BY <2>1, KnownHead DEF FlowType, FlowInv, Kinds, Ops
<1>2. PICK out \in (IF ~pending[i].inFlight
                    THEN Keep(pending[i])
                    ELSE IF Reached(i, e.on)
                         THEN Keep(NoPending)
                         ELSE Retry(i)) : Commit(i, Tail(btc), out)
  BY DEF SetStatus
<1>3. SameUnicast
  BY <1>1 DEF SetStatus, Observe, SameUnicast, FlowType, TypeInv, TypeOK, Node
<1>4. UNCHANGED <<tx, device, recoverAt, syncAt, mqtt, budget>>
  BY DEF SetStatus, taskVars
<1> HIDE DEF i
<1>5. Settled(out, i)
  <2>1. pending[i] \in Pending
    BY <1>1 DEF FlowType, TypeInv, TypeOK
  <2> QED
    BY <1>1, <1>2, <2>1, KeepSettles, NothingPending, RetrySettles DEF FlowType
<1>6. \A j \in Slot \ {i} : TaskCarries(j) => TaskCarries(j)'
  BY <1>4 DEF TaskCarries
<1> QED
  BY <1>1, <1>2, <1>3, <1>4, <1>5, <1>6, CommandStep DEF FlowType, i

\* A SET without an answer: one retry more, or the command is given up
LEMMA SetTimeoutFlow ==
    ASSUME FlowType, TypeInv', SetTimeout
    PROVE  FlowInv' /\ ConfigInv'
<1> DEFINE e == Head(btc)
           i == e.node
<1>1. /\ From(Tail(btc)) /\ i \in Slot /\ Provisioned(i) /\ e.op = "set"
  <2>1. Arrives("timeout", {"set"}) /\ Known
    BY DEF SetTimeout
  <2> QED
    BY <2>1, KnownHead DEF FlowType, FlowInv, Kinds, Ops
<1>2. PICK out \in (IF pending[i].inFlight THEN Retry(i) ELSE Keep(pending[i])) :
             Commit(i, Tail(btc), out)
  BY DEF SetTimeout
<1>4. UNCHANGED <<nodes, tx, device, recoverAt, syncAt, mqtt, budget>> /\ SameUnicast
  BY DEF SetTimeout, taskVars, mqttVars, SameUnicast
<1> HIDE DEF i
<1>5. Settled(out, i)
  <2>1. pending[i] \in Pending
    BY <1>1 DEF FlowType, TypeInv, TypeOK
  <2> QED
    BY <1>1, <1>2, <2>1, KeepSettles, RetrySettles DEF FlowType
<1>6. \A j \in Slot \ {i} : TaskCarries(j) => TaskCarries(j)'
  BY <1>4 DEF TaskCarries
<1> QED
  BY <1>1, <1>2, <1>4, <1>5, <1>6, CommandStep DEF FlowType, i

\* A callback that gives up the command of light i
LEMMA GiveUpStep ==
    ASSUME FlowType, TypeInv', NEW i \in Slot, Provisioned(i), From(Tail(btc)),
           Head(btc).node = i, Head(btc).op \in {"get", "set"},
           pending' = [pending EXCEPT ![i] = NoPending], btc' = Tail(btc), faults' = faults,
           SameUnicast, UNCHANGED <<tx, device, recoverAt, syncAt, mqtt, budget>>
    PROVE  FlowInv' /\ ConfigInv'
<1> DEFINE out == Outcome(NoPending, <<>>, 0)
<1>1. Settled(out, i)
  BY KeepSettles, NothingPending DEF FlowType, Keep
<1>2. Commit(i, Tail(btc), out)
  <2>1. out.p = NoPending /\ out.posts = <<>> /\ out.failed = 0
    BY OutcomeParts
  <2>2. faults' = faults + 0 /\ Tail(btc) \o <<>> = Tail(btc)
    BY ConcatEmptySeq, Numbers DEF From, FlowType, TypeInv
  <2> HIDE DEF out
  <2> QED
    BY <2>1, <2>2 DEF Commit
<1>3. \A j \in Slot \ {i} : TaskCarries(j) => TaskCarries(j)'
  BY DEF TaskCarries
<1> HIDE DEF out
<1> QED
  BY <1>1, <1>2, <1>3, CommandStep DEF FlowType

\* A request that the client model refuses ends the command.
LEMMA OnOffErrorFlow ==
    ASSUME FlowType, TypeInv', OnOffError
    PROVE  FlowInv' /\ ConfigInv'
<1>1. /\ From(Tail(btc)) /\ Head(btc).node \in Slot /\ Provisioned(Head(btc).node)
      /\ Head(btc).op \in {"get", "set"}
  <2>1. Arrives("error", {"get", "set"}) /\ Known
    BY DEF OnOffError
  <2> QED
    BY <2>1, KnownHead DEF FlowType, FlowInv, Kinds, Ops
<1>2. UNCHANGED <<nodes, tx, device, recoverAt, syncAt, mqtt, budget>> /\ SameUnicast
  BY DEF OnOffError, taskVars, mqttVars, SameUnicast
<1> QED
  BY <1>1, <1>2, GiveUpStep DEF OnOffError

\* The answer to a GET ends or repeats the command, and may start the first toggle.
LEMMA GetStatusFlow ==
    ASSUME FlowType, TypeInv', GetStatus
    PROVE  FlowInv' /\ ConfigInv'
<1> DEFINE e == Head(btc)
           i == e.node
           toggles == toggle = <<e.node, e.addr>>
<1>1. /\ From(Tail(btc)) /\ i \in Slot /\ e.on \in 0..1 /\ Provisioned(i) /\ e.op = "get"
  <2>1. Arrives("status", {"get"}) /\ Known
    BY DEF GetStatus
  <2> QED
    BY <2>1, KnownHead DEF FlowType, FlowInv, Kinds, Ops
<1>2. PICK out \in AfterGet(i, e.on) :
        \E last \in (IF toggles THEN SendOnOff(i, out.p, 1 - e.on, NoMsg) ELSE Keep(out.p)) :
          /\ faults + out.failed + last.failed <= MaxFaults
          /\ Commit(i, Tail(btc),
                    Outcome(last.p, out.posts \o last.posts, out.failed + last.failed))
  BY DEF GetStatus
<1>3. PICK last \in (IF toggles THEN SendOnOff(i, out.p, 1 - e.on, NoMsg) ELSE Keep(out.p)) :
          /\ faults + out.failed + last.failed <= MaxFaults
          /\ Commit(i, Tail(btc),
                    Outcome(last.p, out.posts \o last.posts, out.failed + last.failed))
  BY <1>2
<1>4. SameUnicast
  BY <1>1 DEF GetStatus, Observe, SameUnicast, FlowType, TypeInv, TypeOK, Node
<1>5. UNCHANGED <<tx, device, recoverAt, syncAt, mqtt, budget>>
  BY DEF GetStatus, taskVars
<1>6. \A j \in Slot \ {i} : TaskCarries(j) => TaskCarries(j)'
  BY <1>5 DEF TaskCarries
<1> HIDE DEF i, toggles
<1>7. Settled(out, i) /\ out.p \in Pending
  BY <1>1, <1>2, AfterGetSettles DEF FlowType, Settled, OutcomeOK
<1>8. OutcomeOK(last) /\ (Settled(last, i) \/ (last.p = out.p /\ last.posts = <<>>))
  <2>1. ASSUME last \in Keep(out.p)
        PROVE  OutcomeOK(last) /\ last.p = out.p /\ last.posts = <<>>
    BY <1>7, <2>1, KeepType, OutcomeParts DEF Keep, FlowType, TypeInv
  <2>2. CASE toggles /\ ~out.p.inFlight
    <3> DEFINE p == [out.p EXCEPT !.inFlight = TRUE, !.desired = 1 - e.on, !.mid = NoMsg]
    <3>1. 1 - e.on \in 0..1
      BY <1>1
    <3>2. p \in Pending
      BY <1>7, <3>1, Zeros DEF Pending, NoMsg
    <3>3. last \in RequestOnOff(i, p)
      BY <1>3, <2>2 DEF SendOnOff
    <3> HIDE DEF p
    <3>4. Settled(last, i)
      BY <1>1, <3>2, <3>3, RequestSettles DEF FlowType
    <3> QED
      BY <3>4 DEF Settled
  <2>3. CASE ~(toggles /\ ~out.p.inFlight)
    BY <1>3, <2>1, <2>3 DEF SendOnOff
  <2> QED
    BY <2>2, <2>3
<1> DEFINE both == Outcome(last.p, out.posts \o last.posts, out.failed + last.failed)
<1>9. Settled(both, i)
  BY <1>1, <1>3, <1>7, <1>8, BothSettle DEF FlowType
<1>10. Commit(i, Tail(btc), both)
  BY <1>3
<1> HIDE DEF both
<1> QED
  BY <1>1, <1>4, <1>5, <1>6, <1>9, <1>10, CommandStep DEF FlowType, i

\* A GET without an answer: for a command or on its own
LEMMA GetTimeoutFlow ==
    ASSUME FlowType, TypeInv', GetTimeout
    PROVE  FlowInv' /\ ConfigInv'
<1> DEFINE e == Head(btc)
           i == e.node
           c == Call("get", i, 0)
<1>1. /\ From(Tail(btc)) /\ i \in Slot /\ Provisioned(i) /\ e.op = "get"
  <2>1. Arrives("timeout", {"get"}) /\ Known
    BY DEF GetTimeout
  <2> QED
    BY <2>1, KnownHead DEF FlowType, FlowInv, Kinds, Ops
<1>2. UNCHANGED <<nodes, tx, device, recoverAt, syncAt, mqtt, budget>> /\ SameUnicast
  BY DEF GetTimeout, taskVars, mqttVars, SameUnicast
<1>3. \A j \in Slot \ {i} : TaskCarries(j) => TaskCarries(j)'
  BY <1>2 DEF TaskCarries
<1>4. \/ pending' = [pending EXCEPT ![i] = NoPending] /\ btc' = Tail(btc) /\ faults' = faults
      \/ /\ pending[i].retries < MaxRetries
         /\ \E out \in Posting([pending[i] EXCEPT !.retries = @ + 1], c, NoPending) :
                  Commit(i, Tail(btc), out)
      \/ ~pending[i].inFlight /\ btc' = Tail(btc) /\ pending' = pending /\ faults' = faults
      \/ ~pending[i].inFlight /\ PostOrLog(Tail(btc), c) /\ pending' = pending
  BY DEF GetTimeout
<1>5. c \in Item /\ c.kind = "call" /\ c.op = "get" /\ Addressed(c)
  BY <1>1, CallParts DEF FlowType, Ops
<1>6. ~Late(c)
  BY <1>5 DEF Late
<1>7. ASSUME ~pending[i].inFlight
      PROVE  \A j \in Slot : /\ ~Carries(Head(btc), j) \/ ~pending[j].inFlight
                             /\ ~Continues(Head(btc), j)
  BY <1>1, <1>7 DEF Carries, Continues, CfgOps
<1>8. CASE pending' = [pending EXCEPT ![i] = NoPending] /\ btc' = Tail(btc) /\ faults' = faults
  BY <1>1, <1>2, <1>8, GiveUpStep
<1>9. CASE /\ pending[i].retries < MaxRetries
           /\ \E out \in Posting([pending[i] EXCEPT !.retries = @ + 1], c, NoPending) :
                  Commit(i, Tail(btc), out)
  <2> DEFINE p == [pending[i] EXCEPT !.retries = @ + 1]
  <2>1. p \in Pending
    <3>1. pending[i] \in Pending /\ pending[i].retries \in 0..MaxRetries
      BY <1>1 DEF FlowType, TypeInv, TypeOK, Pending
    <3>2. pending[i].retries + 1 \in 0..MaxRetries
      BY <1>9, <3>1, GatewayAssumption
    <3> QED
      BY <3>1, <3>2 DEF Pending
  <2>2. PICK out \in Posting(p, c, NoPending) : Commit(i, Tail(btc), out)
    BY <1>9
  <2> HIDE DEF p
  <2>3. Settled(out, i)
    BY <1>1, <2>1, <2>2, PostingSettles, Zeros DEF FlowType
  <2> HIDE DEF i
  <2> QED
    BY <1>1, <1>2, <1>3, <2>2, <2>3, CommandStep DEF FlowType, i
<1>10. CASE ~pending[i].inFlight /\ btc' = Tail(btc) /\ pending' = pending /\ faults' = faults
  <2>1. Moves(Tail(btc), <<>>) /\ Elems(<<>>) = {}
    BY <1>1, <1>10, MovesNone
  <2> HIDE DEF i, c
  <2> QED
    BY <1>2, <1>7, <1>10, <2>1, PostStep DEF FlowType
<1>11. CASE ~pending[i].inFlight /\ PostOrLog(Tail(btc), c) /\ pending' = pending
  <2> HIDE DEF i, c
  <2>1. PICK posts : /\ Moves(Tail(btc), posts)
                     /\ \/ Elems(posts) = {c} /\ faults' = faults
                        \/ Elems(posts) = {} /\ faults' = faults + 1
    BY <1>1, <1>5, <1>11, PostOrLogMoves DEF FlowType
  <2>2. faults' = 0 => faults = 0
    BY <2>1, Numbers DEF FlowType, TypeInv
  <2> QED
    BY <1>2, <1>6, <1>7, <1>11, <2>1, <2>2, PostStep DEF FlowType
<1> QED
  BY <1>4, <1>8, <1>9, <1>10, <1>11

-----------------------------------------------------------------------------
(* The handlers of the configuration client *)

\* A request that follows the binding is for a bound light.
LEMMA LateHead ==
    ASSUME FlowType, NEW x \in Flow, Late(x), faults = 0, Fresh, x.addr = device[x.node].addr
    PROVE  device[x.node].bound
BY DEF FlowType, ConfigInv, SetupInv

\* Each step of the configuration starts the next one.
LEMMA ConfigStatusFlow ==
    ASSUME FlowType, TypeInv', ConfigStatus
    PROVE  FlowInv' /\ ConfigInv'
<1> DEFINE e == Head(btc)
           i == e.node
           o == NextCfgOp[e.op]
           c == Call(o, i, 0)
<1>1. /\ From(Tail(btc)) /\ i \in Slot /\ Provisioned(i) /\ e.op \in CfgOps /\ e.kind = "status"
      /\ e \in Flow /\ e.addr = nodes[i].unicast
  <2>1. Arrives("status", CfgOps) /\ Known
    BY DEF ConfigStatus
  <2> QED
    BY <2>1, KnownHead DEF FlowType, FlowInv, Kinds, Ops, CfgOps
<1>2. UNCHANGED <<nodes, pending, tx, device, recoverAt, syncAt, mqtt, budget>> /\ SameUnicast
  BY DEF ConfigStatus, taskVars, mqttVars, SameUnicast
<1>3. /\ o \in Ops /\ (e.op # "sub" => o \in CfgOps)
      /\ o = "sub" => e.op = "bind"
  BY <1>1 DEF NextCfgOp, CfgOps, Ops
<1>4. PostOrLog(Tail(btc), c)
  BY DEF ConfigStatus
<1> HIDE DEF o
<1>5. /\ c \in Item /\ c.kind = "call" /\ c.op = o /\ c.node = i /\ c.addr = nodes[i].unicast
      /\ Addressed(c)
  BY <1>1, <1>3, CallParts, Zeros DEF FlowType
<1> HIDE DEF c
<1>6. PICK posts : /\ Moves(Tail(btc), posts)
                   /\ \/ Elems(posts) = {c} /\ faults' = faults
                      \/ Elems(posts) = {} /\ faults' = faults + 1
  BY <1>1, <1>4, <1>5, PostOrLogMoves DEF FlowType
<1>7. faults' = 0 => faults = 0 /\ Elems(posts) = {c}
  BY <1>6, Numbers DEF FlowType, TypeInv
<1>8. \A j \in Slot : ~Carries(e, j)
  BY <1>1 DEF Carries, CfgOps
<1>9. \A j \in Slot : Continues(e, j) => Continues(c, j)
  BY <1>1, <1>3, <1>5 DEF Continues
<1>10. ASSUME faults' = 0, Fresh, Late(c), c.addr = device[c.node].addr
       PROVE  device[c.node].bound
  <2>1. Late(e) /\ e.addr = device[e.node].addr
    BY <1>1, <1>3, <1>5, <1>10 DEF Late
  <2> QED
    BY <1>1, <1>5, <1>7, <1>10, <2>1, LateHead
<1> QED
  BY <1>2, <1>6, <1>7, <1>8, <1>9, <1>10, PostStep DEF FlowType

\* A configuration request without an answer is repeated, after a failure.
LEMMA ConfigTimeoutFlow ==
    ASSUME FlowType, TypeInv', ConfigTimeout
    PROVE  FlowInv' /\ ConfigInv'
<1> DEFINE e == Head(btc)
           i == e.node
           c == Call(e.op, i, 0)
<1>1. /\ From(Tail(btc)) /\ i \in Slot /\ Provisioned(i) /\ e.op \in CfgOps /\ e.kind = "timeout"
      /\ e \in Flow /\ e.addr = nodes[i].unicast
  <2>1. Arrives("timeout", CfgOps) /\ Known
    BY DEF ConfigTimeout
  <2> QED
    BY <2>1, KnownHead DEF FlowType, FlowInv, Kinds, Ops, CfgOps
<1>2. UNCHANGED <<nodes, pending, tx, device, recoverAt, syncAt, mqtt, budget>> /\ SameUnicast
  BY DEF ConfigTimeout, taskVars, mqttVars, SameUnicast
<1>3. \/ btc' = Tail(btc) /\ faults' = faults
      \/ PostOrLog(Tail(btc), c)
  BY DEF ConfigTimeout
<1>4. \A j \in Slot : ~Carries(e, j) /\ ~Continues(e, j)
  BY <1>1 DEF Carries, Continues, CfgOps
<1>5. CASE btc' = Tail(btc) /\ faults' = faults
  <2>1. Moves(Tail(btc), <<>>) /\ Elems(<<>>) = {}
    BY <1>1, <1>5, MovesNone
  <2> QED
    BY <1>2, <1>4, <1>5, <2>1, PostStep DEF FlowType
<1>6. CASE PostOrLog(Tail(btc), c)
  <2>1. /\ c \in Item /\ c.kind = "call" /\ c.op = e.op /\ c.node = i /\ c.addr = nodes[i].unicast
        /\ Addressed(c)
    BY <1>1, CallParts, Zeros DEF FlowType, Ops
  <2> HIDE DEF c
  <2>2. PICK posts : /\ Moves(Tail(btc), posts)
                     /\ \/ Elems(posts) = {c} /\ faults' = faults
                        \/ Elems(posts) = {} /\ faults' = faults + 1
    BY <1>1, <1>6, <2>1, PostOrLogMoves DEF FlowType
  <2>3. faults' = 0 => faults = 0
    BY <2>2, Numbers DEF FlowType, TypeInv
  <2>4. ASSUME faults' = 0, Fresh, Late(c), c.addr = device[c.node].addr
        PROVE  device[c.node].bound
    <3>1. Late(e) /\ e.addr = device[e.node].addr
      BY <1>1, <2>1, <2>4 DEF Late
    <3> QED
      BY <1>1, <2>1, <2>3, <2>4, <3>1, LateHead
  <2> QED
    BY <1>2, <1>4, <2>2, <2>3, <2>4, PostStep DEF FlowType
<1> QED
  BY <1>3, <1>5, <1>6

\* Nobody waits for an event that is only logged.
LEMMA IgnoreEventFlow ==
    ASSUME FlowType, TypeInv', IgnoreEvent
    PROVE  FlowInv' /\ ConfigInv'
<1> DEFINE e == Head(btc)
<1>1. /\ btc' = Tail(btc) /\ btc # <<>> /\ e.kind \in {"status", "refused", "timeout", "error"}
      /\ ~Known \/ (e.kind \in {"error", "refused"} /\ e.op \in CfgOps)
      /\ UNCHANGED <<nodes, pending, tx, device, recoverAt, syncAt, mqtt, budget, faults>>
  BY DEF IgnoreEvent, Arrives, gatewayVars, mqttVars, taskVars
<1>2. From(Tail(btc)) /\ SameUnicast
  BY <1>1, HeadType DEF From, SameUnicast, FlowType, TypeInv, TypeOK
<1>3. \A j \in Slot : ~Carries(e, j) /\ ~Continues(e, j)
  BY <1>1 DEF Carries, Continues, CfgOps, Known
<1>4. Moves(Tail(btc), <<>>) /\ Elems(<<>>) = {}
  BY <1>1, <1>2, MovesNone
<1> QED
  BY <1>1, <1>2, <1>3, <1>4, PostStep DEF FlowType

-----------------------------------------------------------------------------
(* The client models and the lights *)

\* A call is sent, or answered at once with an error; a client model that is
\* busy already has a request of that kind out to the light.
LEMMA SendUnicastFlow ==
    ASSUME FlowType, TypeInv', SendUnicast
    PROVE  FlowInv' /\ ConfigInv'
<1> DEFINE h == Head(btc)
           v == Event("error", h, 0)
<1>1. /\ btc \in Seq(Item) /\ btc # <<>> /\ Tail(btc) \in Seq(Item) /\ h \in Item /\ h.node \in Slot
      /\ h.kind = "call" /\ h.op # "group" /\ From(Tail(btc)) /\ Tail(btc) # btc
  <2>1. btc \in Seq(Item) /\ btc # <<>> /\ Tail(btc) \in Seq(Item) /\ h \in Item /\ h.kind = "call"
        /\ h.op # "group"
    BY HeadType DEF SendUnicast, FlowType, TypeInv, TypeOK
  <2>2. Len(Tail(btc)) = Len(btc) - 1 /\ Len(btc) \in Nat
    BY <2>1, HeadTailProperties
  <2>3. Tail(btc) # btc
    BY <2>2
  <2> QED
    BY <2>1, <2>3 DEF From, Item
<1>2. h \in Flow /\ Addressed(h)
  <2>1. h \in Elems(btc)
    BY <1>1, ElemsPop
  <2> QED
    BY <1>1, <2>1 DEF Flow, FlowType, FlowInv, AddrInv
<1>3. /\ UNCHANGED <<nodes, pending, device, mqtt, budget, syncAt, recoverAt>> /\ SameUnicast
      /\ \A i \in Slot : TaskCarries(i) => TaskCarries(i)'
  BY DEF SendUnicast, SameUnicast, TaskCarries, gatewayVars, mqttVars, taskVars
<1>4. ASSUME NEW posts, Moves(Tail(btc), posts), faults' = 0 => faults = 0,
             tx' \in {tx, tx \cup {h}},
             \A i \in Slot : Carries(h, i) => \E x \in Elems(posts) \cup tx' : Carries(x, i),
             \A i \in Slot : (faults' = 0 /\ Continues(h, i)) =>
                \E x \in Elems(posts) \cup tx' : Continues(x, i),
             \A x \in Elems(posts) : Late(x) => Late(h) /\ x.node = h.node /\ x.addr = h.addr
      PROVE  FlowInv' /\ ConfigInv'
  <2>1. \A x : Left(Tail(btc), x) => x = h
    BY <1>4 DEF Left
  <2>2. AddrInv'
    BY <1>1, <1>2, <1>3, <1>4, AddrKept DEF FlowType, FlowInv
  <2>3. Reserved'
    BY <1>3 DEF FlowType, FlowInv, Reserved, Provisioned
  <2>4. NoOrphan'
    BY <1>3, <1>4, <2>1, CarrierKept DEF FlowType, FlowInv
  <2>5. ASSUME NEW x \in Elems(posts) \cup (tx' \ tx),
               faults' = 0, Fresh, Late(x), x.addr = device[x.node].addr
        PROVE  device'[x.node].bound
    <3>1. Late(h) /\ x.node = h.node /\ x.addr = h.addr
      BY <1>4, <2>5
    <3> QED
      BY <1>2, <1>3, <1>4, <2>5, <3>1, LateHead
  <2>6. ConfigInv'
    BY <1>3, <1>4, <2>1, <2>5, ConfigKept DEF FlowType
  <2> QED
    BY <2>2, <2>3, <2>4, <2>6 DEF FlowInv
<1>5. CASE tx' = tx \cup {h} /\ btc' = Tail(btc) /\ faults' = faults
  <2>1. Moves(Tail(btc), <<>>) /\ Elems(<<>>) = {}
    BY <1>1, <1>5, MovesNone
  <2> QED
    BY <1>4, <1>5, <2>1
<1>6. CASE /\ (Busy(h) /\ faults' = faults) \/ (~Busy(h) /\ faults' = faults + 1)
           /\ btc' = Append(Tail(btc), v) /\ tx' = tx
  <2>0. v \in Item
    BY <1>1, EventType, Zeros DEF Kinds
  <2>1. v \in Item /\ v.kind = "error" /\ v.op = h.op /\ v.node = h.node /\ v.addr = h.addr
    BY <2>0 DEF Event
  <2>2. Addressed(v)
    BY <1>2, <2>1 DEF Addressed
  <2> HIDE DEF v
  <2>3. Moves(Tail(btc), <<v>>) /\ Elems(<<v>>) = {v}
    BY <1>1, <1>6, <2>1, <2>2, MovesOne
  <2>4. faults' = 0 => faults = 0 /\ Busy(h)
    BY <1>6, Numbers DEF FlowType, TypeInv
  <2>5. ASSUME NEW i \in Slot, faults' = 0, Continues(h, i) PROVE \E x \in tx' : Continues(x, i)
    <3>1. PICK t \in tx : t.node = h.node /\ t.addr = h.addr /\ SameClient(t.op, h.op)
      BY <2>4, <2>5 DEF Busy
    <3>2. t.kind = "call"
      BY DEF FlowType, FlowInv, AddrInv
    <3> QED
      BY <1>6, <2>5, <3>1, <3>2 DEF Continues, SameClient
  <2>6. \A i \in Slot : Carries(h, i) => Carries(v, i)
    BY <2>1 DEF Carries
  <2>7. Late(v) => Late(h)
    BY <2>1 DEF Late
  <2> QED
    BY <1>4, <1>6, <2>1, <2>3, <2>4, <2>5, <2>6, <2>7
<1> QED
  BY <1>5, <1>6 DEF SendUnicast

\* The group SET changes lights, and nothing of what is under way for them.
LEMMA SendGroupFlow ==
    ASSUME FlowType, TypeInv', SendGroup
    PROVE  FlowInv' /\ ConfigInv'
<1> DEFINE h == Head(btc)
<1>1. /\ btc # <<>> /\ h.op = "group" /\ From(Tail(btc)) /\ btc' = Tail(btc)
      /\ UNCHANGED <<nodes, pending, tx, mqtt, budget, syncAt, recoverAt>>
      /\ faults' = 0 => faults = 0
  <2>1. btc # <<>> /\ h.kind = "call" /\ h.op = "group" /\ btc' = Tail(btc)
        /\ UNCHANGED <<nodes, pending, tx, mqtt, budget, syncAt, recoverAt>>
        /\ (faults' = faults \/ faults' = faults + 1)
    BY DEF SendGroup, gatewayVars, mqttVars, taskVars
  <2>0. faults \in Nat
    BY Numbers DEF FlowType, TypeInv
  <2>2. Tail(btc) \in Seq(Item)
    BY <2>1, HeadType DEF FlowType, TypeInv, TypeOK
  <2>3. faults' = 0 => faults = 0
    BY <2>0, <2>1
  <2> QED
    BY <2>1, <2>2, <2>3 DEF From
<1>2. /\ SameUnicast
      /\ \A i \in Slot : TaskCarries(i) => TaskCarries(i)'
  BY <1>1 DEF SameUnicast, TaskCarries
<1>3. \A i \in Slot : /\ device'[i].addr = device[i].addr
                      /\ device'[i].bound <=> device[i].bound
                      /\ device'[i].subscribed <=> device[i].subscribed
  <2>1. PICK S \in SUBSET GroupMembers :
          device' = [i \in Slot |-> IF i \in S THEN [device[i] EXCEPT !.light = h.on] ELSE device[i]]
    BY DEF SendGroup
  <2>2. \A i \in Slot : device[i] \in Device
    BY DEF FlowType, TypeInv, TypeOK
  <2> QED
    BY <2>1, <2>2 DEF Device
<1>4. Moves(Tail(btc), <<>>) /\ Elems(<<>>) = {}
  BY <1>1, MovesNone
<1>5. \A i \in Slot : \A x : Left(Tail(btc), x) => ~Carries(x, i) /\ ~Continues(x, i)
  BY <1>1 DEF Left, Carries, Continues, CfgOps
<1>6. AddrInv'
  BY <1>1, <1>2, <1>3, <1>4, AddrKept DEF FlowType, FlowInv
<1>7. Reserved'
  BY <1>1 DEF FlowType, FlowInv, Reserved, Provisioned
<1>8. NoOrphan'
  BY <1>1, <1>2, <1>4, <1>5, CarrierKept DEF FlowType, FlowInv
<1>9. ConfigInv'
  BY <1>1, <1>2, <1>3, <1>4, <1>5, ConfigKept DEF FlowType
<1> QED
  BY <1>6, <1>7, <1>8, <1>9 DEF FlowInv

\* The effect of a request on the lights.
LEMMA ObeyParts ==
    ASSUME TypeInv, NEW r \in tx, Obey(r)
    PROVE  /\ \A i \in Slot : device'[i].addr = device[i].addr
           /\ \A i \in Slot : i # r.node => device'[i] = device[i]
           /\ device'[r.node].bound <=> (r.op = "bind" \/ device[r.node].bound)
           /\ device'[r.node].subscribed <=> (r.op = "sub" \/ device[r.node].subscribed)
<1>1. r.node \in Slot /\ device \in [Slot -> Device]
  BY DEF TypeInv, TypeOK, Item
<1>2. \A i \in Slot : i # r.node => device'[i] = device[i]
  BY <1>1 DEF Obey
<1> DEFINE d == device[r.node]
           d2 == [d EXCEPT !.light = IF r.op = "set" THEN r.on ELSE @,
                           !.bound = (r.op = "bind") \/ @,
                           !.subscribed = (r.op = "sub") \/ @]
<1>3. device'[r.node] = d2
  BY <1>1 DEF Obey
<1>4. d \in Device
  BY <1>1
<1>5. /\ d2.addr = d.addr
      /\ d2.bound <=> (r.op = "bind" \/ d.bound)
      /\ d2.subscribed <=> (r.op = "sub" \/ d.subscribed)
  BY <1>4 DEF Device
<1> QED
  BY <1>1, <1>2, <1>3, <1>5

\* The request r ends: its light may have obeyed, and the event r leads to is queued.
LEMMA ReplyKeeps ==
    ASSUME TypeInv, FlowInv, NEW r \in tx, NEW k \in Kinds \ {"prov", "call"}, NEW v \in 0..1,
           tx' = tx \ {r}, btc' = Append(btc, Event(k, r, v)),
           UNCHANGED <<nodes, pending, mqtt, syncAt>>, device' = device \/ Obey(r)
    PROVE  FlowInv' /\ Moves(btc, <<Event(k, r, v)>>)
<1> DEFINE e == Event(k, r, v)
<1>1. /\ r \in Item /\ r.node \in Slot /\ r \in Flow /\ r.kind = "call" /\ r.op # "group"
      /\ Addressed(r) /\ r.addr \in Nat
  BY ItemNode DEF FlowInv, AddrInv, TypeInv, TypeOK, Flow
<1>2. e \in Item /\ e.kind = k /\ e.op = r.op /\ e.node = r.node /\ e.addr = r.addr
  BY <1>1, EventType DEF Event
<1> HIDE DEF e
<1>3. Addressed(e)
  BY <1>1, <1>2 DEF Addressed
<1>4. Moves(btc, <<e>>) /\ Elems(<<e>>) = {e}
  <2>1. From(btc)
    BY DEF From, TypeInv, TypeOK
  <2>2. btc' = Append(btc, e)
    BY DEF e
  <2> QED
    BY <1>2, <1>3, <2>1, <2>2, MovesOne
<1>5. SameUnicast /\ \A i \in Slot : TaskCarries(i) => TaskCarries(i)'
  BY DEF SameUnicast, TaskCarries
<1>6. \A i \in Slot : device'[i].addr = device[i].addr
  BY ObeyParts
<1>7. AddrInv'
  BY <1>4, <1>5, <1>6, AddrKept DEF FlowInv
<1>8. Reserved'
  BY DEF FlowInv, Reserved, Provisioned
<1>9. NoOrphan'
  <2>1. \A i \in Slot : Carries(r, i) => Carries(e, i)
    BY <1>2 DEF Carries
  <2>2. \A x : Left(btc, x) => x = r
    BY DEF Left
  <2> QED
    BY <1>4, <1>5, <2>1, <2>2, CarrierKept DEF FlowInv
<1> QED
  BY <1>4, <1>7, <1>8, <1>9 DEF FlowInv, e

\* The request r ends: its light has obeyed and answers, or the client model gives up.
LEMMA ReplyFlow ==
    ASSUME FlowType, TypeInv', NEW r \in tx, NEW k \in Kinds \ {"prov", "call"}, NEW v \in 0..1,
           tx' = tx \ {r}, btc' = Append(btc, Event(k, r, v)),
           UNCHANGED <<gatewayVars, mqttVars, taskVars>>,
           \/ k = "status" /\ Hears(r) /\ Obey(r) /\ faults' = faults
           \/ /\ k # "status" /\ Hears(r) /\ faults' = faults + 1
              /\ device' = device \/ Obey(r)
           \/ k # "status" /\ ~Hears(r) /\ device' = device /\ faults' = faults
    PROVE  FlowInv' /\ ConfigInv'
<1> DEFINE e == Event(k, r, v)
<1>1. /\ r \in Item /\ r.node \in Slot /\ r \in Flow /\ r.kind = "call" /\ r.op # "group"
      /\ Addressed(r) /\ r.addr \in Nat
  BY ItemNode DEF FlowType, FlowInv, AddrInv, TypeInv, TypeOK, Flow
<1>2. e \in Item /\ e.kind = k /\ e.op = r.op /\ e.node = r.node /\ e.addr = r.addr
  BY <1>1, EventType DEF Event
<1> HIDE DEF e
<1>3. Addressed(e)
  BY <1>1, <1>2 DEF Addressed
<1>4. Moves(btc, <<e>>) /\ Elems(<<e>>) = {e}
  <2>1. From(btc)
    BY DEF From, FlowType, TypeInv, TypeOK
  <2>2. btc' = Append(btc, e)
    BY DEF e
  <2> QED
    BY <1>2, <1>3, <2>1, <2>2, MovesOne
<1>5. /\ UNCHANGED <<nodes, pending, mqtt, budget, syncAt, recoverAt>> /\ SameUnicast
      /\ \A i \in Slot : TaskCarries(i) => TaskCarries(i)'
  BY DEF SameUnicast, TaskCarries, gatewayVars, mqttVars, taskVars
<1>6. faults' = 0 => faults = 0 /\ (k = "status" \/ ~Hears(r))
  BY Numbers DEF FlowType, TypeInv
<1>7. device' = device \/ (Obey(r) /\ Hears(r))
  OBVIOUS
<1>8. \A i \in Slot : /\ device'[i].addr = device[i].addr
                      /\ device[i].bound => device'[i].bound
                      /\ device[i].subscribed => device'[i].subscribed
  BY <1>7, ObeyParts DEF FlowType
<1>9. \A x : Left(btc, x) => x = r
  BY DEF Left
<1>10. ASSUME Hears(r) PROVE nodes[r.node].unicast = device[r.node].addr /\ Provisioned(r.node)
  <2>1. /\ r.addr # Unassigned /\ r.addr <= nodes[r.node].unicast
        /\ nodes[r.node].unicast <= device[r.node].addr /\ nodes[r.node].unicast \in Nat
        /\ device[r.node].addr = r.addr
    <3>1. nodes[r.node].unicast \in Nat
      BY <1>1, GatewayAssumption DEF FlowType, TypeInv, TypeOK, Node
    <3> QED
      BY <1>1, <1>10, <3>1 DEF Hears, Addressed, FlowType, FlowInv, AddrInv
  <2>2. nodes[r.node].unicast = r.addr
    BY <1>1, <2>1
  <2> QED
    BY <2>1, <2>2 DEF Provisioned
<1>14. ASSUME NEW i \in Slot, device'[i].bound, ~device[i].bound
       PROVE  /\ Provisioned(i) /\ nodes[i].unicast = device[i].addr
              /\ faults' = 0 => \E y \in {e} : Continues(y, i)
  <2>1. i = r.node /\ r.op = "bind" /\ Hears(r)
    BY <1>7, <1>14, ObeyParts DEF FlowType
  <2>2. nodes[i].unicast = device[i].addr /\ Provisioned(i) /\ device[i].addr = r.addr
    BY <1>10, <2>1 DEF Hears
  <2> QED
    BY <1>2, <1>6, <2>1, <2>2 DEF Continues, CfgOps
<1>15. ASSUME NEW i \in Slot, Continues(r, i), faults' = 0, nodes[i].unicast = device[i].addr
       PROVE  \/ \E y \in {e} \cup tx' : Continues(y, i)
              \/ device'[i].subscribed /\ (Fresh => device'[i].bound)
  <2>1. i = r.node /\ r.addr = device[r.node].addr /\ Hears(r) /\ k = "status"
    BY <1>6, <1>15 DEF Continues, Hears
  <2>2. CASE r.op # "sub"
    BY <1>2, <1>15, <2>1, <2>2 DEF Continues
  <2>3. CASE r.op = "sub"
    <3>1. device'[i].subscribed
      BY <2>1, <2>3, ObeyParts DEF FlowType
    <3>2. Late(r)
      BY <2>3 DEF Late
    <3>3. Fresh => device'[i].bound
      BY <1>1, <1>6, <1>8, <1>15, <2>1, <3>2, LateHead
    <3> QED
      BY <3>1, <3>3
  <2> QED
    BY <2>2, <2>3
<1>16. ASSUME faults' = 0, Fresh, Late(e), e.addr = device[e.node].addr
       PROVE  device'[e.node].bound
  <2>1. CASE Late(r)
    BY <1>1, <1>2, <1>6, <1>8, <1>16, <2>1, LateHead
  <2>2. CASE ~Late(r)
    <3>1. r.op = "bind" /\ k = "status"
      BY <1>2, <1>16, <2>2 DEF Late
    <3> QED
      BY <1>2, <3>1, ObeyParts DEF FlowType
  <2> QED
    BY <2>1, <2>2
<1>17. \A x \in Elems(<<e>>) \cup (tx' \ tx) :
          (faults' = 0 /\ Fresh /\ Late(x) /\ x.addr = device[x.node].addr)
             => device'[x.node].bound
  BY <1>4, <1>16
<1>18. \A i \in Slot, x \in Flow :
          (/\ Left(btc, x) /\ Continues(x, i) /\ faults' = 0 /\ nodes[i].unicast = device[i].addr)
             => \/ \E y \in Elems(<<e>>) \cup tx' : Continues(y, i)
                \/ device'[i].subscribed /\ (Fresh => device'[i].bound)
  BY <1>4, <1>9, <1>15
<1>19. \A i \in Slot : (device'[i].bound /\ ~device[i].bound) =>
          /\ Provisioned(i) /\ nodes[i].unicast = device[i].addr
          /\ faults' = 0 => \E y \in Elems(<<e>>) : Continues(y, i)
  BY <1>4, <1>14
<1>20. ConfigInv'
  BY <1>4, <1>5, <1>6, <1>8, <1>17, <1>18, <1>19, ConfigKept DEF FlowType
<1>21. FlowInv'
  BY <1>5, <1>7, ReplyKeeps DEF FlowType
<1> QED
  BY <1>20, <1>21

\* An answer, a refusal and a timeout
LEMMA RequestEndsFlow ==
    ASSUME FlowType, TypeInv', NEW r \in tx, Answer(r) \/ Refuse(r) \/ TimeOut(r)
    PROVE  FlowInv' /\ ConfigInv'
<1>1. CASE Answer(r)
  <2>1. device'[r.node].light \in 0..1
    BY DEF FlowType, TypeInv, TypeOK, Item, Device
  <2> QED
    BY <1>1, <2>1, ReplyFlow DEF Answer, Kinds
<1>2. CASE Refuse(r)
  BY <1>2, ReplyFlow, Zeros DEF Refuse, Kinds
<1>3. CASE TimeOut(r)
  BY <1>3, ReplyFlow, Zeros DEF TimeOut, Kinds
<1> QED
  BY <1>1, <1>2, <1>3

\* A device joins: it gets an address nobody had, which the table does not know yet.
LEMMA ProvisionFlow ==
    ASSUME FlowType, TypeInv', NEW j \in Slot, Provision(j)
    PROVE  FlowInv' /\ ConfigInv'
<1> DEFINE new == device[j].addr + 1
           x == [kind |-> "prov", op |-> "comp", node |-> j, addr |-> new, on |-> 0]
<1>1. /\ UNCHANGED <<nodes, pending, tx, mqtt, budget, syncAt, recoverAt, faults>>
      /\ btc' = Append(btc, x)
  BY DEF Provision, gatewayVars, mqttVars, taskVars
<1>2. /\ device'[j].addr = new /\ ~device'[j].bound
      /\ \A i \in Slot : i # j => device'[i] = device[i]
  BY DEF Provision, FlowType, TypeInv, TypeOK
<1>3. \A i \in Slot : device[i].addr \in Nat /\ nodes[i].unicast \in Nat
  BY AddressesAreNumbers DEF FlowType
<1>4. x \in Item /\ x.kind = "prov" /\ x.op = "comp" /\ x.node = j /\ x.addr = new
  <2>1. new \in 0..MaxAddr
    BY <1>3, GatewayAssumption DEF Provision
  <2> QED
    BY <2>1 DEF Item, Kinds, Ops, CfgOps
<1>5. /\ \A i \in Slot : device[i].addr <= device'[i].addr
      /\ new = device[j].addr + 1 /\ new \in Nat
  BY <1>2, <1>3
<1> HIDE DEF x, new
<1>6. Elems(btc') = Elems(btc) \cup {x} /\ Flow' = Flow \cup {x}
  <2>2. Elems(btc') = Elems(btc) \cup {x}
    BY <1>1, <1>4, ElemsAppend DEF FlowType, TypeInv, TypeOK
  <2> QED
    BY <1>1, <2>2 DEF Flow
<1>7. \A y \in Flow : y \in Item /\ y.node \in Slot /\ y.addr \in Nat
  BY ItemNode DEF FlowType
<1>8. AddrInv'
  <2>1. \A y \in Flow' : y.kind # "prov" => Addressed(y)'
    BY <1>1, <1>4, <1>6 DEF Addressed, FlowType, FlowInv, AddrInv
  <2>2. \A y \in Elems(btc') : y.kind = "prov" =>
            /\ y.op = "comp" /\ nodes'[y.node].unicast < y.addr /\ y.addr <= device'[y.node].addr
    <3>1. ASSUME NEW y \in Elems(btc), y.kind = "prov"
          PROVE  /\ y.op = "comp" /\ nodes'[y.node].unicast < y.addr
                 /\ y.addr <= device'[y.node].addr
      <4>1. /\ y.op = "comp" /\ nodes[y.node].unicast < y.addr /\ y.addr <= device[y.node].addr
            /\ y.node \in Slot /\ y.addr \in Nat
        BY <1>7, <3>1 DEF Flow, FlowType, FlowInv, AddrInv
      <4>2. /\ device[y.node].addr <= device'[y.node].addr
            /\ device[y.node].addr \in Nat /\ device'[y.node].addr \in Nat
        BY <1>2, <1>3, <1>5, <4>1
      <4> QED
        BY <1>1, <4>1, <4>2
    <3>2. nodes[j].unicast < new
      BY <1>3, <1>5 DEF FlowType, FlowInv, AddrInv
    <3> QED
      BY <1>1, <1>2, <1>4, <1>5, <1>6, <3>1, <3>2
  <2>3. \A t \in tx' : t.kind = "call" /\ t.op # "group"
    BY <1>1 DEF FlowType, FlowInv, AddrInv
  <2>4. \A i \in Slot : nodes'[i].unicast <= device'[i].addr
    BY <1>1, <1>2, <1>3, <1>5 DEF FlowType, FlowInv, AddrInv
  <2>5. InOrder(btc')
    <3>1. ASSUME NEW y \in Elems(btc), y.kind = "prov", y.node = j PROVE y.addr < new
      <4>1. y.addr \in Nat /\ y.addr <= device[j].addr
        BY <1>7, <3>1 DEF Flow, FlowType, FlowInv, AddrInv
      <4> QED
        BY <1>3, <1>5, <4>1
    <3> QED
      BY <1>1, <1>4, <3>1, OrderAppend DEF FlowType, FlowInv, AddrInv, TypeInv, TypeOK
  <2> QED
    BY <2>1, <2>2, <2>3, <2>4, <2>5 DEF AddrInv
<1>9. Reserved'
  BY <1>1 DEF FlowType, FlowInv, Reserved, Provisioned
<1>10. NoOrphan'
  <2>1. \A i \in Slot : Carrier(i) <=> TaskCarries(i) \/ \E y \in Flow : Carries(y, i)
    BY DEF Carrier, TaskCarries, Flow, Elems
  <2>2. \A i \in Slot : Carrier(i)' <=> TaskCarries(i)' \/ \E y \in Flow' : Carries(y, i)'
    BY DEF Carrier, TaskCarries, Flow, Elems
  <2>3. \A i \in Slot : Carrier(i) => Carrier(i)'
    BY <1>1, <1>6, <2>1, <2>2 DEF TaskCarries, Carries
  <2> QED
    BY <1>1, <2>3 DEF FlowType, FlowInv, NoOrphan
<1>11. \A i \in Slot : Configuring(i) => Configuring(i)'
  BY <1>1, <1>6 DEF Configuring, Continues
<1>12. BoundKnown'
  BY <1>1, <1>2 DEF FlowType, ConfigInv, BoundKnown, Provisioned
<1>13. WillSubscribe'
  BY <1>1, <1>2, <1>11 DEF FlowType, ConfigInv, WillSubscribe
<1>14. ASSUME faults' = 0, Fresh'
       PROVE  /\ recoverAt' = 0
              /\ \A i \in Slot : nodes'[i].unicast < device'[i].addr =>
                   \E y \in Elems(btc') : y.kind = "prov" /\ y.node = i /\ y.addr = device'[i].addr
              /\ \A y \in Flow' : (Late(y) /\ y.addr = device'[y.node].addr) => device'[y.node].bound
              /\ \A i \in Slot : (/\ Provisioned(i)' /\ nodes'[i].unicast = device'[i].addr
                                  /\ ~(device'[i].bound /\ device'[i].subscribed)) => Configuring(i)'
  <2>0. /\ recoverAt = 0
        /\ \A i \in Slot : nodes[i].unicast < device[i].addr =>
              \E y \in Elems(btc) : y.kind = "prov" /\ y.node = i /\ y.addr = device[i].addr
        /\ \A y \in Flow : (Late(y) /\ y.addr = device[y.node].addr) => device[y.node].bound
        /\ \A i \in Slot : (/\ Provisioned(i) /\ nodes[i].unicast = device[i].addr
                            /\ ~(device[i].bound /\ device[i].subscribed)) => Configuring(i)
    BY <1>1, <1>14 DEF FlowType, ConfigInv, SetupInv, Fresh
  <2>1. ASSUME NEW i \in Slot, nodes'[i].unicast < device'[i].addr
        PROVE  \E y \in Elems(btc') : y.kind = "prov" /\ y.node = i /\ y.addr = device'[i].addr
    <3>1. CASE i = j
      BY <1>2, <1>4, <1>6, <3>1
    <3>2. CASE i # j
      BY <1>1, <1>2, <1>6, <2>0, <2>1, <3>2
    <3> QED
      BY <3>1, <3>2
  <2>2. ASSUME NEW y \in Flow', Late(y), y.addr = device'[y.node].addr
        PROVE  device'[y.node].bound
    <3>1. y \in Flow
      BY <1>4, <1>6, <2>2 DEF Late
    <3>2. CASE y.node # j
      BY <1>2, <1>7, <2>0, <2>2, <3>1, <3>2
    <3>3. CASE y.node = j
      <4>1. y.kind # "prov"
        BY <2>2, <3>1 DEF Late, Flow, FlowType, FlowInv, AddrInv
      <4>2. y.addr <= nodes[j].unicast
        BY <2>2, <3>1, <3>3, <4>1 DEF Late, Addressed, FlowType, FlowInv, AddrInv
      <4>3. nodes[j].unicast <= device[j].addr
        BY DEF FlowType, FlowInv, AddrInv
      <4>4. y.addr = new /\ y.addr \in Nat
        BY <1>2, <1>7, <2>2, <3>1, <3>3
      <4> QED
        BY <1>3, <1>5, <4>2, <4>3, <4>4
    <3> QED
      BY <3>2, <3>3
  <2>3. ASSUME NEW i \in Slot, Provisioned(i)', nodes'[i].unicast = device'[i].addr,
               ~(device'[i].bound /\ device'[i].subscribed)
        PROVE  Configuring(i)'
    <3>1. i # j
      <4>1. nodes[j].unicast <= device[j].addr
        BY DEF FlowType, FlowInv, AddrInv
      <4>2. nodes[j].unicast # new
        BY <1>3, <1>5, <4>1
      <4> QED
        BY <1>1, <1>2, <2>3, <4>2
    <3> QED
      BY <1>1, <1>2, <1>11, <2>0, <2>3, <3>1 DEF Provisioned
  <2> QED
    BY <1>1, <2>0, <2>1, <2>2, <2>3
<1>15. SetupInv'
  BY <1>14 DEF SetupInv, Late
<1> QED
  BY <1>8, <1>9, <1>10, <1>12, <1>13, <1>15 DEF FlowInv, ConfigInv

\* The table learns the new address of a light, and its configuration begins.
LEMMA ProvCompleteFlow ==
    ASSUME FlowType, TypeInv', ProvComplete
    PROVE  FlowInv' /\ ConfigInv'
<1> DEFINE e == Head(btc)
           j == e.node
           q == Tail(btc)
           c == [e EXCEPT !.kind = "call"]
<1>1. /\ btc \in Seq(Item) /\ btc # <<>> /\ q \in Seq(Item) /\ e \in Item /\ j \in Slot
      /\ e.kind = "prov" /\ e.addr # Unassigned
      /\ nodes' = [nodes EXCEPT ![j] = [unicast |-> e.addr, onoff |-> 0]]
      /\ PostOrLog(q, c)
      /\ UNCHANGED <<pending, tx, device, mqtt, budget, syncAt, recoverAt>>
  <2>1. Arrives("prov", Ops)
    BY DEF ProvComplete
  <2> QED
    BY <2>1, ArrivesType DEF ProvComplete, Arrives, StoreNodeInfo, mqttVars, taskVars, FlowType,
       TypeInv, TypeOK
<1>2. /\ Elems(btc) = {e} \cup Elems(q)
      /\ e.op = "comp" /\ nodes[j].unicast < e.addr /\ e.addr <= device[j].addr
  <2>1. Elems(btc) = {e} \cup Elems(q)
    BY <1>1, ElemsPop
  <2> QED
    BY <1>1, <2>1 DEF FlowType, FlowInv, AddrInv
<1>3. /\ c \in Item /\ c.kind = "call" /\ c.op = "comp" /\ c.node = j /\ c.addr = e.addr
      /\ e.addr \in Nat
  <2>1. c \in Item /\ c.kind = "call" /\ c.op = e.op /\ c.node = j /\ c.addr = e.addr
    BY <1>1 DEF Item, Kinds
  <2>2. e.addr \in 0..MaxAddr
    BY <1>1 DEF Item
  <2>3. e.addr \in Nat
    BY <2>2, GatewayAssumption
  <2> QED
    BY <1>2, <2>1, <2>3
<1>4. /\ nodes'[j].unicast = e.addr
      /\ \A i \in Slot : i # j => nodes'[i] = nodes[i]
  BY <1>1 DEF FlowType, TypeInv, TypeOK
<1>5. \A i \in Slot : device[i].addr \in Nat /\ nodes[i].unicast \in Nat
  BY AddressesAreNumbers DEF FlowType
<1>6. InOrder(q) /\ \A x \in Elems(q) : (x.kind = "prov" /\ x.node = j) => e.addr < x.addr
  BY <1>1, OrderPop DEF FlowType, FlowInv, AddrInv
<1> HIDE DEF e, j, q, c
<1>7. PICK posts \in {<<>>, <<c>>} :
        /\ btc' = q \o posts
        /\ faults' = 0 => faults = 0 /\ posts = <<c>>
  <2>1. q \o <<>> = q /\ q \o <<c>> = Append(q, c)
    BY <1>1, <1>3, AppendIsConcat, ConcatEmptySeq
  <2>2. CASE btc' = Append(q, c) /\ faults' = faults
    BY <2>1, <2>2
  <2>3. CASE btc' = q /\ faults' = faults + 1
    <3>1. faults' # 0
      BY <2>3, Numbers DEF FlowType, TypeInv
    <3> QED
      BY <2>1, <2>3, <3>1
  <2> QED
    BY <1>1, <2>2, <2>3 DEF PostOrLog
<1>8. /\ posts \in Seq(Item) /\ Elems(btc') = Elems(q) \cup Elems(posts) /\ Elems(posts) \subseteq {c}
      /\ faults' = 0 => c \in Elems(posts)
  <2>1. <<>> \in Seq(Item) /\ <<c>> \in Seq(Item) /\ Elems(<<>>) = {} /\ Elems(<<c>>) = {c}
    BY <1>3, ElemsOfNone, ElemsOfOne
  <2>2. posts \in Seq(Item) /\ Elems(posts) \subseteq {c} /\ (faults' = 0 => c \in Elems(posts))
    BY <1>7, <2>1
  <2> QED
    BY <1>1, <1>7, <2>2, ElemsConcat
<1>9. /\ \A x \in Flow' : x \in Flow \/ x = c
      /\ \A x \in Flow : x \in Flow' \/ x = e
      /\ \A x \in Flow : x \in Item /\ x.node \in Slot /\ x.addr \in Nat
  BY <1>1, <1>2, <1>8, ItemNode DEF Flow, FlowType
<1>10. \A i \in Slot : nodes[i].unicast <= nodes'[i].unicast
  <2>1. nodes[j].unicast <= e.addr
    BY <1>1, <1>2, <1>3, <1>5
  <2> QED
    BY <1>4, <1>5, <2>1
<1>11. AddrInv'
  <2>1. ASSUME NEW x \in Flow', x.kind # "prov" PROVE Addressed(x)'
    <3>1. CASE x = c
      BY <1>1, <1>3, <1>4, <3>1 DEF Addressed
    <3>2. CASE x \in Flow /\ x.op # "group"
      <4>1. x.addr # Unassigned /\ x.addr <= nodes[x.node].unicast
        BY <2>1, <3>2 DEF FlowType, FlowInv, AddrInv, Addressed
      <4>2. /\ x.addr \in Nat /\ nodes[x.node].unicast \in Nat /\ nodes'[x.node].unicast \in Nat
            /\ nodes[x.node].unicast <= nodes'[x.node].unicast
        BY <1>3, <1>4, <1>5, <1>9, <1>10, <3>2
      <4> QED
        BY <4>1, <4>2 DEF Addressed
    <3>3. CASE x.op = "group"
      BY <3>3 DEF Addressed
    <3> QED
      BY <1>9, <2>1, <3>1, <3>2, <3>3
  <2>2. \A x \in Elems(btc') : x.kind = "prov" =>
            /\ x.op = "comp" /\ nodes'[x.node].unicast < x.addr /\ x.addr <= device'[x.node].addr
    <3>1. ASSUME NEW x \in Elems(q), x.kind = "prov"
          PROVE  /\ x.op = "comp" /\ nodes'[x.node].unicast < x.addr
                 /\ x.addr <= device'[x.node].addr
      <4>1. /\ x.op = "comp" /\ nodes[x.node].unicast < x.addr /\ x.addr <= device[x.node].addr
            /\ x.node \in Slot
        BY <1>2, <1>9, <3>1 DEF Flow, FlowType, FlowInv, AddrInv
      <4>2. nodes'[x.node].unicast < x.addr
        BY <1>4, <1>6, <3>1, <4>1
      <4> QED
        BY <1>1, <4>1, <4>2
    <3> QED
      BY <1>3, <1>8, <3>1
  <2>3. \A t \in tx' : t.kind = "call" /\ t.op # "group"
    BY <1>1 DEF FlowType, FlowInv, AddrInv
  <2>4. \A i \in Slot : nodes'[i].unicast <= device'[i].addr
    BY <1>1, <1>2, <1>4 DEF FlowType, FlowInv, AddrInv
  <2>5. InOrder(btc')
    <3>1. \A x \in Elems(posts) : x.kind # "prov"
      BY <1>3, <1>8
    <3> QED
      BY <1>1, <1>6, <1>7, <1>8, <3>1, OrderConcat
  <2> QED
    BY <2>1, <2>2, <2>3, <2>4, <2>5 DEF AddrInv
<1>12. Reserved'
  <2>1. \A i \in Slot : Provisioned(i) => Provisioned(i)'
    <3>1. \A i \in Slot : nodes[i].unicast # 0 => nodes'[i].unicast # 0
      BY <1>1, <1>4 DEF Unassigned
    <3> QED
      BY <3>1 DEF Provisioned, Unassigned
  <2> QED
    BY <1>1, <2>1 DEF FlowType, FlowInv, Reserved, TypeInv, MqttOK
<1>13. NoOrphan'
  <2> SUFFICES ASSUME NEW i \in Slot, pending'[i].inFlight, nodes'[i].unicast = 1
               PROVE  Carrier(i)'
    BY DEF NoOrphan
  <2>1. i # j
    <3>1. ASSUME i = j PROVE FALSE
      <4>1. e.addr = 1 /\ nodes[j].unicast = 0
        BY <1>1, <1>2, <1>4, <1>5, <3>1
      <4>2. Provisioned(j)
        BY <1>1, <3>1 DEF FlowType, FlowInv, Reserved
      <4> QED
        BY <4>1, <4>2 DEF Provisioned, Unassigned
    <3> QED
      BY <3>1
  <2>2. /\ Carrier(i) <=> TaskCarries(i) \/ \E x \in Flow : Carries(x, i)
        /\ Carrier(i)' <=> TaskCarries(i)' \/ \E x \in Flow' : Carries(x, i)'
    BY DEF Carrier, TaskCarries, Flow, Elems
  <2>3. Carrier(i)
    BY <1>1, <1>4, <2>1 DEF FlowType, FlowInv, NoOrphan
  <2>4. TaskCarries(i) => TaskCarries(i)'
    BY <1>1 DEF TaskCarries
  <2>5. \A x : Carries(x, i) => Carries(x, i)'
    BY <1>4, <2>1 DEF Carries
  <2>6. ~Carries(e, i)
    BY <1>2 DEF Carries
  <2> QED
    BY <1>9, <2>2, <2>3, <2>4, <2>5, <2>6
<1>14. ~device[j].bound
  <2>1. nodes[j].unicast # device[j].addr
    BY <1>1, <1>2, <1>3, <1>5
  <2> QED
    BY <1>1, <2>1 DEF FlowType, ConfigInv, BoundKnown
<1>15. ASSUME NEW i \in Slot, i # j, Configuring(i) PROVE Configuring(i)'
  <2>1. PICK x \in Flow : Continues(x, i)
    BY <1>15 DEF Configuring
  <2>2. x # e
    BY <1>1, <2>1 DEF Continues
  <2>3. Continues(x, i)'
    BY <1>4, <1>15, <2>1 DEF Continues
  <2> QED
    BY <1>9, <2>2, <2>3 DEF Configuring
<1>16. BoundKnown'
  BY <1>1, <1>4, <1>14 DEF FlowType, ConfigInv, BoundKnown, Provisioned
<1>17. WillSubscribe'
  BY <1>1, <1>7, <1>14, <1>15 DEF FlowType, ConfigInv, WillSubscribe
<1>18. ASSUME faults' = 0, Fresh'
       PROVE  /\ recoverAt' = 0
              /\ \A i \in Slot : nodes'[i].unicast < device'[i].addr =>
                   \E y \in Elems(btc') : y.kind = "prov" /\ y.node = i /\ y.addr = device'[i].addr
              /\ \A y \in Flow' : (Late(y) /\ y.addr = device'[y.node].addr) => device'[y.node].bound
              /\ \A i \in Slot : (/\ Provisioned(i)' /\ nodes'[i].unicast = device'[i].addr
                                  /\ ~(device'[i].bound /\ device'[i].subscribed)) => Configuring(i)'
  <2>0. /\ recoverAt = 0
        /\ \A i \in Slot : nodes[i].unicast < device[i].addr =>
              \E y \in Elems(btc) : y.kind = "prov" /\ y.node = i /\ y.addr = device[i].addr
        /\ \A y \in Flow : (Late(y) /\ y.addr = device[y.node].addr) => device[y.node].bound
        /\ \A i \in Slot : (/\ Provisioned(i) /\ nodes[i].unicast = device[i].addr
                            /\ ~(device[i].bound /\ device[i].subscribed)) => Configuring(i)
    BY <1>1, <1>7, <1>18 DEF FlowType, ConfigInv, SetupInv, Fresh
  <2>1. ASSUME NEW i \in Slot, nodes'[i].unicast < device'[i].addr
        PROVE  \E y \in Elems(btc') : y.kind = "prov" /\ y.node = i /\ y.addr = device'[i].addr
    <3>1. nodes[i].unicast < device[i].addr /\ (i = j => e.addr # device[i].addr)
      BY <1>1, <1>2, <1>3, <1>4, <1>5, <2>1
    <3>2. PICK y \in Elems(btc) : y.kind = "prov" /\ y.node = i /\ y.addr = device[i].addr
      BY <2>0, <3>1
    <3>3. y # e
      BY <3>1, <3>2 DEF j
    <3> QED
      BY <1>1, <1>2, <1>8, <3>2, <3>3
  <2>2. ASSUME NEW y \in Flow', Late(y), y.addr = device'[y.node].addr
        PROVE  device'[y.node].bound
    <3>1. y \in Flow
      BY <1>3, <1>9, <2>2 DEF Late
    <3> QED
      BY <1>1, <2>0, <2>2, <3>1
  <2>3. ASSUME NEW i \in Slot, Provisioned(i)', nodes'[i].unicast = device'[i].addr,
               ~(device'[i].bound /\ device'[i].subscribed)
        PROVE  Configuring(i)'
    <3>1. CASE i = j
      <4>1. PICK x \in Flow' : x = c
        BY <1>8, <1>18 DEF Flow
      <4>2. Continues(x, i)'
        BY <1>3, <1>4, <3>1, <4>1 DEF Continues, CfgOps
      <4> QED
        BY <4>1, <4>2 DEF Configuring
    <3>2. CASE i # j
      BY <1>1, <1>4, <1>15, <2>0, <2>3, <3>2 DEF Provisioned
    <3> QED
      BY <3>1, <3>2
  <2> QED
    BY <1>1, <2>0, <2>1, <2>2, <2>3
<1>19. SetupInv'
  BY <1>18 DEF SetupInv, Late
<1> QED
  BY <1>11, <1>12, <1>13, <1>16, <1>17, <1>19 DEF FlowInv, ConfigInv

-----------------------------------------------------------------------------
(* Recovery and restart *)

\* Recovering light i posts its subscription, unless posting fails.
LEMMA RecoverNodePosts ==
    ASSUME TypeInv, NEW i \in Slot, RecoverNode(i)
    PROVE  \E posts : /\ Moves(btc, posts)
                      /\ faults' = 0 => faults = 0
                      /\ (faults' = 0 /\ Provisioned(i)) => \E x \in Elems(posts) : Continues(x, i)
<1>0. From(btc)
  BY DEF From, TypeInv, TypeOK
<1>1. CASE ~Provisioned(i)
  <2>1. btc' = btc /\ faults' = faults
    BY <1>1 DEF RecoverNode
  <2>2. Moves(btc, <<>>)
    BY <1>0, <2>1, MovesNone
  <2> QED
    BY <1>1, <2>1, <2>2
<1>2. CASE Provisioned(i) /\ btc' = Append(btc, RecoverBy(i)) /\ faults' = faults
  <2> DEFINE c == Call("sub", i, 0)
  <2>1. /\ c \in Item /\ c.kind = "call" /\ c.op = "sub" /\ c.node = i
        /\ c.addr = nodes[i].unicast /\ Addressed(c)
    BY <1>2, CallParts, Zeros DEF Ops, CfgOps
  <2>2. btc' = Append(btc, c)
    BY <1>2 DEF RecoverBy
  <2> HIDE DEF c
  <2>3. Moves(btc, <<c>>) /\ Elems(<<c>>) = {c}
    BY <1>0, <2>1, <2>2, MovesOne
  <2>4. Continues(c, i)
    BY <2>1 DEF Continues, CfgOps
  <2> QED
    BY <1>2, <2>3, <2>4
<1>3. CASE Provisioned(i) /\ btc' = Append(btc, Call("get", i, 0)) /\ faults' = faults + 1
  <2> DEFINE c == Call("get", i, 0)
  <2>1. c \in Item /\ c.kind = "call" /\ Addressed(c)
    BY <1>3, CallParts, Zeros DEF Ops
  <2>2. btc' = Append(btc, c)
    BY <1>3
  <2> HIDE DEF c
  <2>3. Moves(btc, <<c>>)
    BY <1>0, <2>1, <2>2, MovesOne
  <2>4. faults' # 0
    BY <1>3, Numbers DEF TypeInv
  <2> QED
    BY <2>3, <2>4
<1> QED
  BY <1>1, <1>2, <1>3 DEF RecoverNode

\* It disturbs no command.
LEMMA RecoverNodeFlow ==
    ASSUME TypeInv, FlowInv, NEW i \in Slot, RecoverNode(i)
    PROVE  FlowInv'
<1>1. SameUnicast /\ UNCHANGED <<nodes, pending, tx, device, mqtt, syncAt>>
  BY DEF RecoverNode, SameUnicast, mqttVars
<1>2. PICK posts : Moves(btc, posts)
  BY RecoverNodePosts
<1>3. AddrInv'
  BY <1>1, <1>2, AddrKept DEF FlowInv, AddrInv
<1>4. Reserved'
  BY <1>1 DEF FlowInv, Reserved, Provisioned
<1>5. NoOrphan'
  <2>1. \A j \in Slot : TaskCarries(j) => TaskCarries(j)'
    BY <1>1 DEF TaskCarries
  <2> QED
    BY <1>1, <1>2, <2>1, CarrierKept DEF FlowInv, Left
<1> QED
  BY <1>3, <1>4, <1>5 DEF FlowInv

\* mesh_recover subscribes the lights one after the other.
LEMMA RecoverStepFlow ==
    ASSUME FlowType, TypeInv', RecoverStep
    PROVE  FlowInv' /\ ConfigInv'
<1> DEFINE i == recoverAt
<1>1. /\ i \in Slot /\ i \in 0..NumNodes /\ i # 0 /\ SameUnicast
      /\ recoverAt' = NextSlot(i)
      /\ UNCHANGED <<nodes, pending, tx, device, mqtt, budget, syncAt>>
  <2>1. i \in 0..NumNodes /\ i # 0
    BY DEF RecoverStep, FlowType, TypeInv, TypeOK
  <2>2. i \in Slot
    BY <2>1, GatewayAssumption DEF Slot
  <2> QED
    BY <2>1, <2>2 DEF RecoverStep, RecoverNode, SameUnicast, mqttVars, FlowType, TypeInv, TypeOK
<1>2. PICK posts : /\ Moves(btc, posts)
                   /\ faults' = 0 => faults = 0
                   /\ (faults' = 0 /\ Provisioned(i)) => \E x \in Elems(posts) : Continues(x, i)
  BY <1>1, RecoverNodePosts DEF FlowType, RecoverStep
<1>3. FlowInv'
  BY <1>1, RecoverNodeFlow DEF FlowType, RecoverStep
<1>4. BoundKnown'
  BY <1>1 DEF FlowType, ConfigInv, BoundKnown, Provisioned
<1>5. WillSubscribe'
  <2> SUFFICES ASSUME faults' = 0, NEW j \in Slot, device[j].bound, ~device[j].subscribed
               PROVE  recoverAt' \in 1..j \/ Configuring(j)'
    BY <1>1 DEF WillSubscribe
  <2>1. i \in 1..j \/ Configuring(j)
    BY <1>2 DEF FlowType, ConfigInv, WillSubscribe
  <2>2. Flow \subseteq Flow' /\ Elems(posts) \subseteq Flow' /\ \A x : Continues(x, j) => Continues(x, j)'
    BY <1>1, <1>2, MovesFlow DEF Flow, FlowType, Continues
  <2>3. CASE Configuring(j)
    BY <2>2, <2>3 DEF Configuring
  <2>4. CASE i = j
    <3>1. Provisioned(i)
      BY <2>4 DEF FlowType, ConfigInv, BoundKnown
    <3> QED
      BY <1>2, <2>2, <2>4, <3>1 DEF Configuring
  <2>5. CASE i \in 1..j /\ i # j
    <3>1. NextSlot(i) # 0 /\ NextSlot(i) <= j /\ NextSlot(i) = i + 1
      BY <1>1, <2>5, NextSlotReaches
    <3> QED
      BY <1>1, <2>5, <3>1
  <2> QED
    BY <2>1, <2>3, <2>4, <2>5
<1>6. SetupInv'
  <2>1. Fresh' <=> Fresh
    BY <1>1 DEF Fresh
  <2>2. ~(faults = 0 /\ Fresh)
    BY <1>1 DEF FlowType, ConfigInv, SetupInv
  <2> QED
    BY <1>2, <2>1, <2>2 DEF SetupInv
<1> QED
  BY <1>3, <1>4, <1>5, <1>6 DEF ConfigInv

\* A restart forgets all commands, and recovers all lights.
LEMMA RestartFlow ==
    ASSUME FlowType, TypeInv', Restart
    PROVE  FlowInv' /\ ConfigInv'
<1>1. /\ btc' = <<>> /\ tx' = {} /\ Elems(btc') = {} /\ Flow' = {}
      /\ UNCHANGED <<nodes, device, faults>> /\ mqtt' = Idle /\ recoverAt' = 1
      /\ \A i \in Slot : ~pending'[i].inFlight
  BY ElemsOfNone DEF Restart, Flow, NoPending
<1>2. AddrInv'
  <2>1. InOrder(btc')
    BY <1>1 DEF InOrder
  <2> QED
    BY <1>1, <2>1 DEF AddrInv, FlowType, FlowInv
<1>3. Reserved' /\ NoOrphan'
  BY <1>1 DEF Reserved, NoOrphan, Idle
<1>4. BoundKnown'
  BY <1>1 DEF FlowType, ConfigInv, BoundKnown, Provisioned
<1>5. WillSubscribe'
  <2>1. \A i \in Slot : 1 \in 1..i
    BY GatewayAssumption DEF Slot
  <2> QED
    BY <1>1, <2>1 DEF WillSubscribe
<1>6. SetupInv'
  <2>1. budget \in Budget /\ budget' = [budget EXCEPT !.restarts = @ + 1]
    BY DEF Restart, FlowType, TypeInv, TypeOK
  <2>2. budget.restarts \in 0..MaxRestarts /\ budget'.restarts = budget.restarts + 1
    BY <2>1 DEF Budget
  <2>3. budget'.restarts # 0
    BY <2>2, GatewayAssumption
  <2> QED
    BY <2>3 DEF SetupInv, Fresh
<1> QED
  BY <1>2, <1>3, <1>4, <1>5, <1>6 DEF FlowInv, ConfigInv

\* Nothing happens.
LEMMA StutterFlow ==
    ASSUME FlowType, TypeInv', UNCHANGED vars
    PROVE  FlowInv' /\ ConfigInv'
<1>1. UNCHANGED <<nodes, pending, btc, tx, device, mqtt, budget, faults, syncAt, recoverAt>>
  BY DEF vars, gatewayVars, mqttVars, taskVars
<1>2. AddrInv' /\ ConfigInv'
  BY <1>1, StillFlow
<1>3. Reserved'
  BY <1>1 DEF FlowType, FlowInv, Reserved, Provisioned
<1>4. NoOrphan'
  <2>1. \A i \in Slot : Carrier(i) => Carrier(i)'
    BY <1>1 DEF Carrier, Carries
  <2> QED
    BY <1>1, <2>1 DEF FlowType, FlowInv, NoOrphan
<1> QED
  BY <1>2, <1>3, <1>4 DEF FlowInv

\* Every step keeps the invariants.
LEMMA NextFlow ==
    ASSUME FlowType, TypeInv', [Next]_vars
    PROVE  FlowInv' /\ ConfigInv'
<1>1. CASE \/ \E i \in Slot, on \in 0..1 : ReceiveCommand(i, on)
           \/ \E on \in 0..1 : ReceiveGroup(on)
           \/ Connect \/ Disconnect
  BY <1>1, ReceiveFlow DEF ReceiveCommand
<1>2. CASE MqttTask
  BY <1>2, MarkPendingFlow, PostCommandFlow, MarkGroupFlow, StartGroupSyncFlow, PostGroupFlow,
     SyncNodeFlow DEF MqttTask
<1>3. CASE (\E c \in CmdId : GroupSyncStep(c)) \/ RecoverStep \/ Restart
  BY <1>3, GroupSyncStepFlow, RecoverStepFlow, RestartFlow
<1>4. CASE BtcTask
  BY <1>4, SendUnicastFlow, SendGroupFlow, ProvCompleteFlow, IgnoreEventFlow, OnOffErrorFlow,
     ConfigStatusFlow, ConfigTimeoutFlow, GetStatusFlow, SetStatusFlow, GetTimeoutFlow,
     SetTimeoutFlow DEF BtcTask, Callback
<1>5. CASE \E r \in tx : Answer(r) \/ Refuse(r) \/ TimeOut(r)
  BY <1>5, RequestEndsFlow
<1>6. CASE \E i \in Slot : Provision(i)
  BY <1>6, ProvisionFlow
<1>7. CASE UNCHANGED vars
  BY <1>7, StutterFlow
<1> QED
  BY <1>1, <1>2, <1>3, <1>4, <1>5, <1>6, <1>7 DEF Next

\* The inductive invariant of the gateway's flow of work.
LEMMA FlowAlways == Spec => []FlowType
<1>1. Init => FlowType
  BY InitStored, InitType, InitFlow DEF FlowType
<1>2. FlowType /\ [Next]_vars => FlowType'
  BY NextType, NextFlow DEF FlowType
<1> QED
  BY <1>1, <1>2, PTL DEF Spec

-----------------------------------------------------------------------------
\* A pending command is never forgotten: whatever is lost, refused or not posted,
\* and through every restart, a request, an event or a task that ends the command
\* is under way as long as s_pending blocks its light.
THEOREM GatewayNoOrphan == Spec => []NoOrphan
<1>1. FlowType => NoOrphan
  BY DEF FlowType, FlowInv
<1> QED
  BY <1>1, FlowAlways, PTL

\* When all work is done nothing is under way.
LEMMA NothingUnderWay == ASSUME Quiescent PROVE Flow = {} /\ recoverAt = 0
<1>1. Elems(btc) = {} /\ tx = {} /\ recoverAt = 0
  BY ElemsOfNone DEF Quiescent
<1> QED
  BY <1>1 DEF Flow

\* Without failures, every light that holds the key is in the group once all work
\* is done: mesh_recover subscribes what a restart has interrupted.
THEOREM GatewaySubscribed == Spec => []Subscribed
<1>1. FlowType => Subscribed
  <2> SUFFICES ASSUME FlowType, Quiescent, faults = 0, NEW i \in Slot, device[i].bound
               PROVE  device[i].subscribed
    BY DEF Subscribed
  <2>1. ~Configuring(i) /\ recoverAt \notin 1..i
    BY NothingUnderWay DEF Configuring
  <2> QED
    BY <2>1 DEF FlowType, ConfigInv, WillSubscribe
<1> QED
  BY <1>1, FlowAlways, PTL

\* Without failures and restarts, configuring a new light runs to its end: key,
\* binding and subscription, also when the light joins again in the middle of it.
THEOREM GatewaySetupCompletes == Spec => []SetupCompletes
<1>1. FlowType => SetupCompletes
  <2> SUFFICES ASSUME FlowType, Quiescent, faults = 0, Fresh, NEW i \in Slot, Provisioned(i)
               PROVE  device[i].bound /\ device[i].subscribed
    BY DEF SetupCompletes, Fresh
  <2>1. Flow = {} /\ ~Configuring(i)
    BY NothingUnderWay DEF Configuring
  <2>2. ~(nodes[i].unicast < device[i].addr)
    BY <2>1 DEF FlowType, ConfigInv, SetupInv, Flow
  <2>3. nodes[i].unicast = device[i].addr
    <3>1. nodes[i].unicast <= device[i].addr
      BY DEF FlowType, FlowInv, AddrInv
    <3> QED
      BY <2>2, <3>1, AddressesAreNumbers DEF FlowType
  <2> QED
    BY <2>1, <2>3 DEF FlowType, ConfigInv, SetupInv
<1> QED
  BY <1>1, FlowAlways, PTL

-----------------------------------------------------------------------------
(* The ledger of commands: whatever the MQTT task, the callbacks and the       *)
(* spawned tasks do in between, an open command is never replaced and never    *)
(* acknowledged twice.                                                         *)

\* A command id in the pending table belongs to a request in flight.
OpenInFlight == \A i \in Slot :
    pending[i].mid # NoMsg => pending[i].inFlight /\ Provisioned(i)

\* Ids not yet given out appear nowhere.
FreshIds == \A i \in Slot :
    /\ pending[i].mid <= budget.cmds
    /\ \A c \in CmdId : c > budget.cmds => acks[c][i] = 0

\* The command between its check of in_flight and its entry in the table is in
\* nobody's entry, was never acknowledged, and finds no command where it goes.
MarkReady ==
    mqtt.pc \in {"mark", "gmark"} =>
        /\ mqtt.mid <= budget.cmds
        /\ \A i \in Slot : acks[mqtt.mid][i] = 0
        /\ mqtt.pc = "mark" => pending[mqtt.at].mid = NoMsg /\ Provisioned(mqtt.at)
        /\ mqtt.pc = "gmark" => \A i \in Slot : pending[i].mid = NoMsg

\* The id being marked is not open anywhere else.
MarkUnused == mqtt.pc \in {"mark", "gmark"} => \A i \in Slot : pending[i].mid # mqtt.mid

\* An open command was not acknowledged yet.
OpenUnacked == \A i \in Slot, c \in CmdId : pending[i].mid = c => acks[c][i] = 0

LedgerInv == /\ OpenInFlight /\ FreshIds /\ MarkReady /\ MarkUnused
             /\ OpenUnacked /\ AckedAtMostOnce

LedgerStep == [Ledger!Next]_(Ledger!vars)

\* No id appears in the table that was not there.
Shrinks == \A i \in Slot :
    \/ pending'[i].mid = NoMsg
    \/ /\ pending'[i].mid = pending[i].mid
       /\ pending'[i].inFlight = pending[i].inFlight

\* The empty message id is no command's id.
LEMMA NoMsgNotId == NoMsg \notin CmdId
BY DEF NoMsg, CmdId

\* A step that opens and acknowledges nothing keeps the invariant; for the
\* ledger it drops what it clears.
LEMMA ShrinkStep ==
    ASSUME TypeInv, TypeInv', LedgerInv, Shrinks, acks' = acks,
           budget'.cmds = budget.cmds,
           mqtt' = mqtt \/ mqtt'.pc \notin {"mark", "gmark"},
           \A i \in Slot : Provisioned(i) => Provisioned(i)'
    PROVE  LedgerInv' /\ LedgerStep
<1>0. \A i \in Slot : pending[i].mid \in 0..MaxCommands /\ pending'[i].mid \in 0..MaxCommands
  BY DEF TypeInv, TypeOK, Pending
<1>1. OpenInFlight'
  BY DEF LedgerInv, OpenInFlight, Shrinks
<1>2. FreshIds'
  <2>1. budget.cmds \in 0..MaxCommands
    BY DEF TypeInv, TypeOK, Budget
  <2>2. \A i \in Slot : pending'[i].mid <= budget.cmds
    BY <1>0, <2>1 DEF LedgerInv, FreshIds, Shrinks, NoMsg
  <2> QED BY <2>2 DEF LedgerInv, FreshIds
<1>3. MarkReady' /\ MarkUnused'
  <2>1. CASE mqtt'.pc \notin {"mark", "gmark"}
    BY <2>1 DEF MarkReady, MarkUnused
  <2>2. CASE mqtt' = mqtt /\ mqtt.pc \in {"mark", "gmark"}
    <3>1. mqtt.mid \in CmdId /\ (mqtt.pc = "mark" => mqtt.at \in Slot)
      BY <2>2 DEF TypeInv, MqttOK
    <3>2. MarkReady'
      BY <2>2, <3>1 DEF LedgerInv, MarkReady, Shrinks
    <3>3. MarkUnused'
      BY <2>2, <3>1, NoMsgNotId DEF LedgerInv, MarkUnused, Shrinks
    <3> QED BY <3>2, <3>3
  <2> QED BY <2>1, <2>2
<1>4. OpenUnacked'
  BY NoMsgNotId DEF LedgerInv, OpenUnacked, Shrinks
<1>5. AckedAtMostOnce'
  BY DEF LedgerInv, AckedAtMostOnce, Ledger!AckedAtMostOnce
<1>6. LedgerStep
  <2> DEFINE S == {i \in Slot : pending'[i].mid = NoMsg}
  <2>1. [i \in Slot |-> pending'[i].mid]
          = [i \in Slot |-> IF i \in S THEN NoMsg ELSE [j \in Slot |-> pending[j].mid][i]]
    BY DEF Shrinks
  <2>2. S \in SUBSET Slot
    OBVIOUS
  <2> HIDE DEF S
  <2>3. \E T \in SUBSET Slot : Ledger!Drop(T)
    BY <2>1, <2>2 DEF Ledger!Drop
  <2>4. Ledger!Next
    BY <2>3 DEF Ledger!Next
  <2> QED BY <2>4 DEF LedgerStep
<1> QED BY <1>1, <1>2, <1>3, <1>4, <1>5, <1>6 DEF LedgerInv

\* An acknowledgement closes its command, and only there.
LEMMA AckStep ==
    ASSUME TypeInv, TypeInv', LedgerInv, Shrinks, NEW i \in Slot,
           pending[i].mid # NoMsg, pending'[i].mid = NoMsg,
           \A j \in Slot \ {i} : pending'[j] = pending[j],
           acks' = [acks EXCEPT ![pending[i].mid][i] = @ + 1],
           budget' = budget, mqtt' = mqtt,
           \A j \in Slot : Provisioned(j) => Provisioned(j)'
    PROVE  LedgerInv' /\ LedgerStep
<1> DEFINE c == pending[i].mid
<1>0. /\ c \in CmdId /\ c <= budget.cmds /\ acks[c][i] = 0
      /\ acks \in [CmdId -> [Slot -> Nat]] /\ budget.cmds \in Nat
  <2>1. c \in CmdId
    BY GatewayAssumption DEF TypeInv, TypeOK, Pending, CmdId, NoMsg
  <2>2. acks \in [CmdId -> [Slot -> Nat]] /\ budget.cmds \in Nat
    BY Numbers DEF TypeInv, TypeOK, Budget
  <2>3. c <= budget.cmds
    BY DEF LedgerInv, FreshIds
  <2>4. acks[c][i] = 0
    BY <2>1 DEF LedgerInv, OpenUnacked
  <2> QED BY <2>1, <2>2, <2>3, <2>4
<1>1. \A d \in CmdId, j \in Slot :
        acks'[d][j] = IF d = c /\ j = i THEN acks[d][j] + 1 ELSE acks[d][j]
  BY <1>0
<1>2. OpenInFlight'
  BY DEF LedgerInv, OpenInFlight, Shrinks
<1> HIDE DEF c
<1>3. FreshIds'
  <2>1. \A j \in Slot : pending'[j].mid <= budget.cmds
    BY <1>0 DEF LedgerInv, FreshIds, NoMsg
  <2>2. \A d \in CmdId, j \in Slot : d > budget.cmds => acks'[d][j] = 0
    <3> SUFFICES ASSUME NEW d \in CmdId, NEW j \in Slot, d > budget.cmds
                 PROVE  acks'[d][j] = 0
      OBVIOUS
    <3>1. d # c
      BY <1>0, GatewayAssumption DEF CmdId
    <3>2. acks[d][j] = 0
      BY DEF LedgerInv, FreshIds
    <3> QED BY <1>1, <3>1, <3>2
  <2> QED BY <2>1, <2>2 DEF FreshIds
<1>4. MarkReady' /\ MarkUnused'
  <2>1. CASE mqtt.pc \notin {"mark", "gmark"}
    BY <2>1 DEF MarkReady, MarkUnused
  <2>2. CASE mqtt.pc \in {"mark", "gmark"}
    <3>1. mqtt.mid \in CmdId /\ mqtt.mid # c /\ (mqtt.pc = "mark" => mqtt.at \in Slot)
      BY <2>2 DEF TypeInv, MqttOK, LedgerInv, MarkUnused, c
    <3>2. \A j \in Slot : acks'[mqtt.mid][j] = 0
      BY <1>1, <2>2, <3>1 DEF LedgerInv, MarkReady
    <3>3. MarkReady'
      BY <2>2, <3>1, <3>2 DEF LedgerInv, MarkReady, Shrinks
    <3>4. MarkUnused'
      BY <2>2, <3>1, NoMsgNotId DEF LedgerInv, MarkUnused, Shrinks
    <3> QED BY <3>3, <3>4
  <2> QED BY <2>1, <2>2
<1>5. OpenUnacked'
  <2> SUFFICES ASSUME NEW j \in Slot, NEW d \in CmdId, pending'[j].mid = d
               PROVE  acks'[d][j] = 0
    BY DEF OpenUnacked
  <2>1. j # i
    BY NoMsgNotId
  <2>2. pending[j].mid = d
    BY <2>1
  <2> QED BY <1>1, <2>1, <2>2 DEF LedgerInv, OpenUnacked
<1>6. AckedAtMostOnce'
  BY <1>0, <1>1 DEF LedgerInv, AckedAtMostOnce, Ledger!AckedAtMostOnce
<1>7. LedgerStep
  <2> DEFINE open == [j \in Slot |-> pending[j].mid]
             opened == [j \in Slot |-> pending'[j].mid]
  <2>1. opened = [open EXCEPT ![i] = NoMsg]
    <3>1. \A j \in Slot : pending'[j].mid = IF j = i THEN NoMsg ELSE pending[j].mid
      OBVIOUS
    <3> QED BY <3>1
  <2>2. open[i] = c
    BY DEF c
  <2>3. acks' = [acks EXCEPT ![open[i]][i] = @ + 1]
    BY <2>2 DEF c
  <2>4. Ledger!Ack(i)
    BY <1>0, <2>1, <2>2, <2>3 DEF Ledger!Ack
  <2>5. Ledger!Next
    BY <2>4, Zenon DEF Ledger!Next
  <2> QED BY <2>5 DEF LedgerStep
<1> QED BY <1>2, <1>3, <1>4, <1>5, <1>6, <1>7 DEF LedgerInv

-----------------------------------------------------------------------------
(* What the parts of a handler do to the id of a pending entry *)

EndsOrKeeps(p, out) == \/ out.p.mid = NoMsg
                       \/ out.p.mid = p.mid /\ out.p.inFlight = p.inFlight

\* The cleared entry carries no command.
LEMMA NoPendingMid == NoPending.mid = NoMsg
BY DEF NoPending

\* Keeping an entry neither opens nor replaces a command.
LEMMA KeepKeeps ==
    ASSUME NEW p, NEW out \in Keep(p)
    PROVE  out.p = p
BY OutcomeParts DEF Keep

\* A post leaves the entry or, when it fails, the caller's fallback.
LEMMA PostingKeeps ==
    ASSUME NEW p, NEW call, NEW out \in Posting(p, call, NoPending)
    PROVE  out.p = p \/ out.p = NoPending
<1>1. out = Outcome(p, <<call>>, 0) \/ out = Outcome(NoPending, <<>>, 1)
  BY DEF Posting
<1> QED BY <1>1, OutcomeParts

\* Committing an outcome that keeps or ends the light's command only closes commands.
LEMMA CommitShrinks ==
    ASSUME TypeOK, NEW i \in Slot, NEW queue, NEW out, Commit(i, queue, out),
           EndsOrKeeps(pending[i], out)
    PROVE  Shrinks /\ \A j \in Slot \ {i} : pending'[j] = pending[j]
<1>1. pending' = [pending EXCEPT ![i] = out.p] /\ pending \in [Slot -> Pending]
  BY DEF Commit, TypeOK
<1>2. pending'[i] = out.p /\ \A j \in Slot \ {i} : pending'[j] = pending[j]
  BY <1>1
<1> QED BY <1>2 DEF Shrinks, EndsOrKeeps

\* A retry goes on with the same command or gives it up.
LEMMA RetryKeeps ==
    ASSUME TypeOK, NEW i \in Slot, NEW out \in Retry(i)
    PROVE  EndsOrKeeps(pending[i], out)
<1>1. pending[i] \in Pending
  BY DEF TypeOK
<1>2. CASE pending[i].retries >= MaxRetries
  BY <1>2, KeepKeeps, NoPendingMid DEF Retry, EndsOrKeeps
<1>3. CASE ~(pending[i].retries >= MaxRetries)
  <2> DEFINE q == [pending[i] EXCEPT !.retries = @ + 1]
  <2>1. q.mid = pending[i].mid /\ q.inFlight = pending[i].inFlight
    BY <1>1 DEF Pending
  <2>2. out \in Posting(q, Call("set", i, q.desired), NoPending)
    BY <1>3 DEF Retry, RequestOnOff
  <2> HIDE DEF q
  <2>3. out.p = q \/ out.p = NoPending
    BY <2>2, PostingKeeps
  <2> QED BY <2>1, <2>3, NoPendingMid DEF EndsOrKeeps
<1> QED BY <1>2, <1>3

\* What follows a GET status goes on with the same command or ends it.
LEMMA AfterGetKeeps ==
    ASSUME TypeOK, NEW i \in Slot, NEW on \in 0..1, NEW out \in AfterGet(i, on)
    PROVE  /\ EndsOrKeeps(pending[i], out)
           /\ Reached(i, on) => out.p.mid = NoMsg
<1>1. pending[i] \in Pending
  BY DEF TypeOK
<1>2. CASE ~pending[i].inFlight
  BY <1>2, KeepKeeps DEF AfterGet, EndsOrKeeps, Reached
<1>3. CASE pending[i].inFlight /\ pending[i].desired = on
  BY <1>3, KeepKeeps, NoPendingMid DEF AfterGet, EndsOrKeeps
<1>4. CASE pending[i].inFlight /\ pending[i].desired # on
  <2> DEFINE q == [pending[i] EXCEPT !.retries = 0]
  <2>1. q.mid = pending[i].mid /\ q.inFlight = pending[i].inFlight
    BY <1>1 DEF Pending
  <2>2. out \in Posting(q, Call("set", i, q.desired), NoPending)
    BY <1>4 DEF AfterGet, RequestOnOff
  <2> HIDE DEF q
  <2>3. out.p = q \/ out.p = NoPending
    BY <2>2, PostingKeeps
  <2>4. EndsOrKeeps(pending[i], out)
    BY <2>1, <2>3, NoPendingMid DEF EndsOrKeeps
  <2> QED BY <1>4, <2>4 DEF Reached
<1> QED BY <1>2, <1>3, <1>4

\* The self-test toggle after configuration carries no command id.
LEMMA SendOnOffKeeps ==
    ASSUME NEW i \in Slot, NEW p \in Pending, NEW on,
           NEW out \in SendOnOff(i, p, on, NoMsg)
    PROVE  out.p = p \/ out.p.mid = NoMsg
<1>1. CASE p.inFlight
  BY <1>1, KeepKeeps DEF SendOnOff
<1>2. CASE ~p.inFlight
  <2> DEFINE q == [p EXCEPT !.inFlight = TRUE, !.desired = on, !.mid = NoMsg]
  <2>1. q.mid = NoMsg
    BY DEF Pending
  <2>2. out \in Posting(q, Call("set", i, q.desired), NoPending)
    BY <1>2 DEF SendOnOff, RequestOnOff
  <2> HIDE DEF q
  <2>3. out.p = q \/ out.p = NoPending
    BY <2>2, PostingKeeps
  <2> QED BY <2>1, <2>3, NoPendingMid
<1> QED BY <1>1, <1>2

-----------------------------------------------------------------------------
(* The steps of the gateway *)

Progress == LedgerInv' /\ LedgerStep

\* Steps that touch neither the pending table nor the acknowledgements
LEMMA FrameProgress ==
    ASSUME TypeInv, TypeInv', LedgerInv, pending' = pending, acks' = acks,
           budget'.cmds = budget.cmds,
           mqtt' = mqtt \/ mqtt'.pc \notin {"mark", "gmark"},
           \A i \in Slot : Provisioned(i) => Provisioned(i)'
    PROVE  Progress
<1>1. Shrinks
  BY DEF Shrinks
<1> QED BY <1>1, ShrinkStep DEF Progress

\* A step that leaves the table and the pending entries alone leaves Provisioned alone.
LEMMA SameNodes ==
    ASSUME nodes' = nodes PROVE \A i \in Slot : Provisioned(i) => Provisioned(i)'
BY DEF Provisioned

\* Accepting a command reads the table; the ledger does not move yet.
LEMMA DispatchCommandProgress ==
    ASSUME TypeInv, TypeInv', LedgerInv, NEW i \in Slot, NEW on \in 0..1,
           DispatchCommand(i, on)
    PROVE  Progress
<1>1. /\ pending' = pending /\ acks' = acks /\ nodes' = nodes
      /\ budget.cmds < MaxCommands /\ budget'.cmds = budget.cmds + 1
      /\ budget.cmds \in Nat
  BY Numbers DEF DispatchCommand, gatewayVars, TypeInv, TypeOK, Budget
<1>2. LedgerStep
  BY <1>1 DEF LedgerStep, Ledger!vars
<1>3. OpenInFlight' /\ OpenUnacked' /\ AckedAtMostOnce'
  BY <1>1 DEF LedgerInv, OpenInFlight, OpenUnacked, Provisioned, AckedAtMostOnce,
              Ledger!AckedAtMostOnce
<1>4. FreshIds'
  <2>1. \A j \in Slot : pending[j].mid \in Nat
    BY Numbers DEF TypeInv, TypeOK, Pending
  <2>2. \A j \in Slot : pending'[j].mid <= budget'.cmds
    BY <1>1, <2>1 DEF LedgerInv, FreshIds
  <2>3. \A c \in CmdId : c > budget'.cmds => c > budget.cmds
    BY <1>1, Numbers DEF CmdId
  <2> QED BY <1>1, <2>2, <2>3 DEF LedgerInv, FreshIds
<1>5. MarkReady' /\ MarkUnused'
  <2>1. CASE mqtt' = Idle
    BY <2>1 DEF Idle, MarkReady, MarkUnused
  <2>2. CASE /\ Accepts(i)
             /\ mqtt' = [pc |-> "mark", at |-> i, on |-> on, mid |-> budget.cmds + 1]
    <3>1. mqtt'.mid = budget.cmds + 1 /\ mqtt'.pc = "mark" /\ mqtt'.at = i
      BY <2>2
    <3>2. budget.cmds + 1 \in CmdId /\ budget.cmds + 1 > budget.cmds
      BY <1>1, Numbers DEF CmdId, TypeInv
    <3>3. \A j \in Slot : acks'[mqtt'.mid][j] = 0
      BY <1>1, <3>1, <3>2 DEF LedgerInv, FreshIds
    <3>4. \A j \in Slot : pending'[j].mid # mqtt'.mid
      <4>1. \A j \in Slot : pending[j].mid \in Nat /\ pending[j].mid <= budget.cmds
        BY Numbers DEF TypeInv, TypeOK, Pending, LedgerInv, FreshIds
      <4> QED BY <1>1, <3>1, <4>1
    <3>5. pending'[i].mid = NoMsg /\ Provisioned(i)'
      BY <1>1, <2>2 DEF Accepts, LedgerInv, OpenInFlight, Provisioned
    <3>6. mqtt'.mid <= budget'.cmds
      BY <1>1, <3>1
    <3> QED BY <3>1, <3>3, <3>4, <3>5, <3>6 DEF MarkReady, MarkUnused
  <2> QED BY <2>1, <2>2 DEF DispatchCommand
<1> QED BY <1>2, <1>3, <1>4, <1>5 DEF Progress, LedgerInv

\* Accepting a group command: the same, for every light.
LEMMA ReceiveGroupProgress ==
    ASSUME TypeInv, TypeInv', LedgerInv, NEW on \in 0..1, ReceiveGroup(on)
    PROVE  Progress
<1>1. /\ pending' = pending /\ acks' = acks /\ nodes' = nodes
      /\ budget.cmds < MaxCommands /\ budget'.cmds = budget.cmds + 1
      /\ budget.cmds \in Nat
  BY Numbers DEF ReceiveGroup, DispatchGroup, gatewayVars, TypeInv, TypeOK, Budget
<1>2. LedgerStep
  BY <1>1 DEF LedgerStep, Ledger!vars
<1>3. OpenInFlight' /\ OpenUnacked' /\ AckedAtMostOnce'
  BY <1>1 DEF LedgerInv, OpenInFlight, OpenUnacked, Provisioned, AckedAtMostOnce,
              Ledger!AckedAtMostOnce
<1>4. FreshIds'
  <2>1. \A j \in Slot : pending[j].mid \in Nat
    BY Numbers DEF TypeInv, TypeOK, Pending
  <2>2. \A j \in Slot : pending'[j].mid <= budget'.cmds
    BY <1>1, <2>1 DEF LedgerInv, FreshIds
  <2>3. \A c \in CmdId : c > budget'.cmds => c > budget.cmds
    BY <1>1, Numbers DEF CmdId
  <2> QED BY <1>1, <2>2, <2>3 DEF LedgerInv, FreshIds
<1>5. MarkReady' /\ MarkUnused'
  <2>1. CASE mqtt' = Idle
    BY <2>1 DEF Idle, MarkReady, MarkUnused
  <2>2. CASE /\ \A j \in Slot : Provisioned(j) => ~pending[j].inFlight
             /\ mqtt' = [pc |-> "gmark", at |-> 0, on |-> on, mid |-> budget.cmds + 1]
    <3>1. mqtt'.mid = budget.cmds + 1 /\ mqtt'.pc = "gmark"
      BY <2>2
    <3>2. budget.cmds + 1 \in CmdId /\ budget.cmds + 1 > budget.cmds
      BY <1>1, Numbers DEF CmdId, TypeInv
    <3>3. \A j \in Slot : acks'[mqtt'.mid][j] = 0
      BY <1>1, <3>1, <3>2 DEF LedgerInv, FreshIds
    <3>4. \A j \in Slot : pending'[j].mid # mqtt'.mid
      <4>1. \A j \in Slot : pending[j].mid \in Nat /\ pending[j].mid <= budget.cmds
        BY Numbers DEF TypeInv, TypeOK, Pending, LedgerInv, FreshIds
      <4> QED BY <1>1, <3>1, <4>1
    <3>5. \A j \in Slot : pending'[j].mid = NoMsg
      BY <1>1, <2>2 DEF LedgerInv, OpenInFlight
    <3>6. mqtt'.mid <= budget'.cmds
      BY <1>1, <3>1
    <3> QED BY <3>1, <3>3, <3>4, <3>5, <3>6 DEF MarkReady, MarkUnused
  <2> QED BY <2>1, <2>2 DEF ReceiveGroup, DispatchGroup
<1> QED BY <1>2, <1>3, <1>4, <1>5 DEF Progress, LedgerInv

\* Marking the lights of S pending with the command of the MQTT task opens it.
LEMMA AcceptProgress ==
    ASSUME TypeInv, TypeInv', LedgerInv, NEW S \in SUBSET Slot,
           mqtt.pc \in {"mark", "gmark"}, mqtt'.pc \notin {"mark", "gmark"},
           mqtt.mid \in CmdId,
           \A i \in S : pending[i].mid = NoMsg /\ Provisioned(i),
           \A i \in S : pending'[i].mid = mqtt.mid /\ pending'[i].inFlight,
           \A i \in Slot \ S : pending'[i] = pending[i],
           acks' = acks, budget' = budget, nodes' = nodes
    PROVE  Progress
<1>1. OpenInFlight'
  BY DEF LedgerInv, OpenInFlight, Provisioned
<1>2. FreshIds'
  BY DEF LedgerInv, FreshIds, MarkReady
<1>3. MarkReady' /\ MarkUnused'
  BY DEF MarkReady, MarkUnused
<1>4. OpenUnacked'
  <2> SUFFICES ASSUME NEW i \in Slot, NEW c \in CmdId, pending'[i].mid = c
               PROVE  acks[c][i] = 0
    BY DEF OpenUnacked
  <2>1. CASE i \in S
    BY <2>1 DEF LedgerInv, MarkReady
  <2>2. CASE i \notin S
    BY <2>2 DEF LedgerInv, OpenUnacked
  <2> QED BY <2>1, <2>2
<1>5. AckedAtMostOnce'
  BY DEF LedgerInv, AckedAtMostOnce, Ledger!AckedAtMostOnce
<1>6. LedgerStep
  <2>1. \A i \in S : acks[mqtt.mid][i] = 0
    BY DEF LedgerInv, MarkReady
  <2>2. [i \in Slot |-> pending'[i].mid]
          = [i \in Slot |-> IF i \in S THEN mqtt.mid ELSE [j \in Slot |-> pending[j].mid][i]]
    OBVIOUS
  <2>3. \E T \in SUBSET Slot, c \in CmdId : Ledger!Accept(T, c)
    BY <2>1, <2>2 DEF Ledger!Accept
  <2>4. Ledger!Next
    BY <2>3 DEF Ledger!Next
  <2> QED BY <2>4 DEF LedgerStep
<1> QED BY <1>1, <1>2, <1>3, <1>4, <1>5, <1>6 DEF Progress, LedgerInv

\* farmely_send_onoff marks the entry: the ledger accepts the command.
LEMMA MarkPendingProgress ==
    ASSUME TypeInv, TypeInv', LedgerInv, MarkPending PROVE Progress
<1>1. mqtt.pc = "mark" /\ mqtt.at \in Slot /\ mqtt.mid \in CmdId
  BY DEF MarkPending, TypeInv, MqttOK
<1>2. pending[mqtt.at].mid = NoMsg /\ Provisioned(mqtt.at)
  BY <1>1 DEF LedgerInv, MarkReady
<1>3. /\ pending'[mqtt.at].mid = mqtt.mid /\ pending'[mqtt.at].inFlight
      /\ \A i \in Slot \ {mqtt.at} : pending'[i] = pending[i]
  BY <1>1 DEF MarkPending, TypeInv, TypeOK, Pending
<1>4. mqtt'.pc = "post"
  BY DEF MarkPending, TypeInv, TypeOK, Mqtt
<1>5. acks' = acks /\ budget' = budget /\ nodes' = nodes
  BY DEF MarkPending
<1>6. {mqtt.at} \in SUBSET Slot
  BY <1>1
<1> QED BY <1>1, <1>2, <1>3, <1>4, <1>5, <1>6, AcceptProgress

\* farmely_send_group_onoff marks the entries: the ledger accepts for all of them.
LEMMA MarkGroupProgress ==
    ASSUME TypeInv, TypeInv', LedgerInv, MarkGroup PROVE Progress
<1> DEFINE S == {i \in Slot : Provisioned(i)}
<1>1. mqtt.pc = "gmark" /\ mqtt.mid \in CmdId
  BY DEF MarkGroup, TypeInv, MqttOK
<1>2. \A i \in S : pending[i].mid = NoMsg /\ Provisioned(i)
  BY <1>1 DEF LedgerInv, MarkReady
<1>3. /\ \A i \in S : pending'[i].mid = mqtt.mid /\ pending'[i].inFlight
      /\ \A i \in Slot \ S : pending'[i] = pending[i]
  BY DEF MarkGroup, TypeInv, TypeOK, Pending
<1>4. mqtt'.pc = "gtask"
  BY DEF MarkGroup, TypeInv, TypeOK, Mqtt
<1>5. acks' = acks /\ budget' = budget /\ nodes' = nodes
  BY DEF MarkGroup
<1>6. S \in SUBSET Slot
  OBVIOUS
<1> HIDE DEF S
<1> QED BY <1>1, <1>2, <1>3, <1>4, <1>5, <1>6, AcceptProgress

\* Steps that commit an outcome that ends or keeps a command
LEMMA CommitProgress ==
    ASSUME TypeInv, TypeInv', LedgerInv, NEW i \in Slot, NEW queue, NEW out,
           Commit(i, queue, out), EndsOrKeeps(pending[i], out),
           acks' = acks, budget' = budget, nodes' = nodes,
           mqtt' = mqtt \/ mqtt'.pc \notin {"mark", "gmark"}
    PROVE  Progress
<1>1. Shrinks
  BY CommitShrinks DEF TypeInv
<1> QED BY <1>1, SameNodes, ShrinkStep DEF Progress

\* Steps that clear every entry
LEMMA ClearProgress ==
    ASSUME TypeInv, TypeInv', LedgerInv, ClearAllPending,
           acks' = acks, budget'.cmds = budget.cmds, nodes' = nodes,
           mqtt'.pc \notin {"mark", "gmark"}
    PROVE  Progress
<1>1. Shrinks
  BY NoPendingMid DEF ClearAllPending, Shrinks
<1> QED BY <1>1, SameNodes, ShrinkStep DEF Progress

\* A failed post drops the command.
LEMMA PostCommandProgress ==
    ASSUME TypeInv, TypeInv', LedgerInv, PostCommand PROVE Progress
<1>1. mqtt.at \in Slot
  BY DEF PostCommand, TypeInv, MqttOK
<1>2. PICK out \in Posting(pending[mqtt.at], Call("set", mqtt.at, mqtt.on), NoPending) :
             Commit(mqtt.at, btc, out)
  BY DEF PostCommand
<1>3. EndsOrKeeps(pending[mqtt.at], out)
  BY <1>2, PostingKeeps, NoPendingMid DEF EndsOrKeeps
<1>4. acks' = acks /\ budget' = budget /\ nodes' = nodes /\ mqtt'.pc = "idle"
  BY DEF PostCommand, Idle
<1> QED BY <1>1, <1>2, <1>3, <1>4, CommitProgress

\* A group sync task that cannot be created drops the group command.
LEMMA StartGroupSyncProgress ==
    ASSUME TypeInv, TypeInv', LedgerInv, StartGroupSync PROVE Progress
<1>1. acks' = acks /\ budget' = budget /\ nodes' = nodes
  BY DEF StartGroupSync
<1>2. mqtt'.pc \notin {"mark", "gmark"}
  BY DEF StartGroupSync, Idle, TypeInv, TypeOK, Mqtt
<1>3. pending' = pending \/ ClearAllPending
  BY DEF StartGroupSync
<1> QED BY <1>1, <1>2, <1>3, ClearProgress, FrameProgress, SameNodes

\* A failed group post drops the group command.
LEMMA PostGroupProgress ==
    ASSUME TypeInv, TypeInv', LedgerInv, PostGroup PROVE Progress
<1>1. acks' = acks /\ budget' = budget /\ nodes' = nodes /\ mqtt'.pc = "idle"
  BY DEF PostGroup, Idle
<1>2. pending' = pending \/ ClearAllPending
  BY DEF PostGroup
<1> QED BY <1>1, <1>2, ClearProgress, FrameProgress, SameNodes

\* Connecting, syncing and disconnecting leave the ledger alone.
LEMMA ConnectionProgress ==
    ASSUME TypeInv, TypeInv', LedgerInv, Connect \/ SyncNode \/ Disconnect
    PROVE  Progress
<1>1. pending' = pending /\ acks' = acks /\ nodes' = nodes
  BY DEF Connect, SyncNode, Disconnect, gatewayVars
<1>2. budget'.cmds = budget.cmds
  BY DEF Connect, SyncNode, Disconnect, TypeInv, TypeOK, Budget
<1>3. mqtt' = mqtt \/ mqtt'.pc \notin {"mark", "gmark"}
  <2>1. CASE Connect
    BY <2>1 DEF Connect, Idle
  <2>2. CASE SyncNode
    <3>1. mqtt' = Idle \/ mqtt' = [mqtt EXCEPT !.at = NextSlot(@)]
      BY <2>2 DEF SyncNode
    <3>2. mqtt.pc = "sync" /\ mqtt \in Mqtt
      BY <2>2 DEF SyncNode, TypeInv, TypeOK
    <3> QED BY <3>1, <3>2 DEF Idle, Mqtt
  <2>3. CASE Disconnect
    BY <2>3 DEF Disconnect
  <2> QED BY <2>1, <2>2, <2>3
<1> QED BY <1>1, <1>2, <1>3, FrameProgress, SameNodes

\* A verification that cannot be posted drops the light's command.
LEMMA GroupSyncStepProgress ==
    ASSUME TypeInv, TypeInv', LedgerInv, NEW c \in CmdId, GroupSyncStep(c)
    PROVE  Progress
<1>1. acks' = acks /\ budget' = budget /\ nodes' = nodes /\ mqtt' = mqtt
  BY DEF GroupSyncStep, mqttVars
<1>2. syncAt[c] \in Slot
  <2>1. syncAt[c] # 0
    BY DEF GroupSyncStep
  <2>2. syncAt \in [CmdId -> 0..NumNodes]
    BY DEF TypeInv, TypeOK
  <2> QED BY <2>1, <2>2, GatewayAssumption DEF Slot
<1>3. CASE pending[syncAt[c]].inFlight /\ Provisioned(syncAt[c])
  <2>1. PICK out \in Posting(pending[syncAt[c]], Call("get", syncAt[c], 0), NoPending) :
               Commit(syncAt[c], btc, out)
    BY <1>3 DEF GroupSyncStep
  <2>2. EndsOrKeeps(pending[syncAt[c]], out)
    BY <2>1, PostingKeeps, NoPendingMid DEF EndsOrKeeps
  <2> QED BY <1>1, <1>2, <2>1, <2>2, CommitProgress
<1>4. CASE ~(pending[syncAt[c]].inFlight /\ Provisioned(syncAt[c]))
  <2>1. pending' = pending
    BY <1>4 DEF GroupSyncStep
  <2> QED BY <1>1, <2>1, FrameProgress, SameNodes
<1> QED BY <1>3, <1>4

\* Steps outside the gateway, and callbacks about the configuration
LEMMA OutsideProgress ==
    ASSUME TypeInv, TypeInv', LedgerInv,
           \/ RecoverStep \/ SendUnicast \/ SendGroup
           \/ \E r \in tx : Answer(r) \/ Refuse(r) \/ TimeOut(r)
           \/ \E i \in Slot : Provision(i)
           \/ IgnoreEvent \/ ConfigStatus \/ ConfigTimeout \/ UNCHANGED vars
    PROVE  Progress
<1>1. /\ pending' = pending /\ acks' = acks /\ nodes' = nodes /\ mqtt' = mqtt
      /\ budget' = budget
  BY DEF RecoverStep, RecoverNode, SendUnicast, SendGroup, Answer, Refuse, TimeOut, Provision,
         IgnoreEvent, ConfigStatus, ConfigTimeout, vars, gatewayVars, mqttVars
<1> QED BY <1>1, FrameProgress, SameNodes

\* A new address changes no command.
LEMMA ProvCompleteProgress ==
    ASSUME TypeInv, TypeInv', LedgerInv, ProvComplete PROVE Progress
<1> DEFINE e == Head(btc)
<1>1. /\ pending' = pending /\ acks' = acks /\ mqtt' = mqtt /\ budget' = budget
  BY DEF ProvComplete, StoreNodeInfo, mqttVars
<1>2. \A i \in Slot : Provisioned(i) => Provisioned(i)'
  BY DEF ProvComplete, StoreNodeInfo, Provisioned, TypeInv, TypeOK
<1> QED BY <1>1, <1>2, FrameProgress

\* A client error drops the light's command.
LEMMA OnOffErrorProgress ==
    ASSUME TypeInv, TypeInv', LedgerInv, OnOffError PROVE Progress
<1>1. /\ acks' = acks /\ mqtt' = mqtt /\ budget' = budget /\ nodes' = nodes
      /\ pending' = [pending EXCEPT ![Head(btc).node] = NoPending]
  BY DEF OnOffError, mqttVars
<1>2. Shrinks
  BY <1>1, NoPendingMid DEF Shrinks, TypeInv, TypeOK
<1> QED BY <1>1, <1>2, SameNodes, ShrinkStep DEF Progress

\* A timeout retries the light's command or drops it.
LEMMA TimeoutProgress ==
    ASSUME TypeInv, TypeInv', LedgerInv, GetTimeout \/ SetTimeout PROVE Progress
<1> DEFINE i == Head(btc).node
<1>1. acks' = acks /\ mqtt' = mqtt /\ budget' = budget /\ nodes' = nodes
  BY DEF GetTimeout, SetTimeout, mqttVars
<1>2. i \in Slot /\ pending[i] \in Pending
  BY ArrivesType DEF GetTimeout, SetTimeout, TypeInv, TypeOK
<1>3. CASE SetTimeout
  <2>1. PICK out \in (IF pending[i].inFlight THEN Retry(i) ELSE Keep(pending[i])) :
               Commit(i, Tail(btc), out)
    BY <1>3 DEF SetTimeout
  <2>2. EndsOrKeeps(pending[i], out)
    BY <1>2, <2>1, RetryKeeps, KeepKeeps DEF EndsOrKeeps, TypeInv
  <2> QED BY <1>1, <1>2, <2>1, <2>2, CommitProgress
<1>4. CASE GetTimeout
  <2>1. CASE pending' = pending
    BY <1>1, <2>1, FrameProgress, SameNodes
  <2>2. CASE pending' = [pending EXCEPT ![i] = NoPending]
    <3>1. Shrinks
      BY <1>2, <2>2, NoPendingMid DEF Shrinks, TypeInv, TypeOK
    <3> QED BY <1>1, <3>1, SameNodes, ShrinkStep DEF Progress
  <2> DEFINE q == [pending[i] EXCEPT !.retries = @ + 1]
  <2>3. CASE \E out \in Posting(q, Call("get", i, 0), NoPending) : Commit(i, Tail(btc), out)
    <3>1. PICK out \in Posting(q, Call("get", i, 0), NoPending) : Commit(i, Tail(btc), out)
      BY <2>3
    <3>2. q.mid = pending[i].mid /\ q.inFlight = pending[i].inFlight
      BY <1>2 DEF Pending
    <3> HIDE DEF q
    <3>3. EndsOrKeeps(pending[i], out)
      BY <3>1, <3>2, PostingKeeps, NoPendingMid DEF EndsOrKeeps
    <3> QED BY <1>1, <1>2, <3>1, <3>3, CommitProgress
  <2> QED BY <1>4, <2>1, <2>2, <2>3 DEF GetTimeout
<1> QED BY <1>3, <1>4

\* A restart drops every command.
LEMMA RestartProgress ==
    ASSUME TypeInv, TypeInv', LedgerInv, Restart PROVE Progress
<1>1. acks' = acks /\ nodes' = nodes /\ mqtt'.pc = "idle" /\ ClearAllPending
  BY DEF Restart, Idle, ClearAllPending
<1>2. budget'.cmds = budget.cmds
  BY DEF Restart, TypeInv, TypeOK, Budget
<1> QED BY <1>1, <1>2, ClearProgress

\* A status that ends an acknowledged command, or acknowledges none
LEMMA StatusProgress ==
    ASSUME TypeInv, TypeInv', LedgerInv, NEW i \in Slot, NEW on \in 0..1,
           NEW queue, NEW out, Commit(i, queue, out), EndsOrKeeps(pending[i], out),
           Reached(i, on) => out.p.mid = NoMsg,
           PublishAck(i, Reached(i, on)), Observe(i, on),
           budget' = budget, mqtt' = mqtt
    PROVE  Progress
<1>1. Shrinks /\ \A j \in Slot \ {i} : pending'[j] = pending[j]
  BY CommitShrinks DEF TypeInv
<1>2. \A j \in Slot : Provisioned(j) => Provisioned(j)'
  BY DEF Observe, Provisioned, TypeInv, TypeOK, Node
<1>3. CASE acks' = acks
  BY <1>1, <1>2, <1>3, ShrinkStep DEF Progress
<1>4. CASE /\ Reached(i, on) /\ pending[i].mid # NoMsg
           /\ acks' = [acks EXCEPT ![pending[i].mid][i] = @ + 1]
  <2>1. pending'[i].mid = NoMsg
    BY <1>4 DEF Commit, TypeInv, TypeOK
  <2> QED BY <1>1, <1>2, <1>4, <2>1, AckStep DEF Progress
<1> QED BY <1>3, <1>4 DEF PublishAck

\* A SET status acknowledges, retries or drops the light's command.
LEMMA SetStatusProgress ==
    ASSUME TypeInv, TypeInv', LedgerInv, SetStatus PROVE Progress
<1> DEFINE e == Head(btc)
<1>1. e.node \in Slot /\ e.on \in 0..1
  BY ArrivesType DEF TypeInv, SetStatus
<1>2. PICK out \in (IF ~pending[e.node].inFlight
                   THEN Keep(pending[e.node])
                   ELSE IF Reached(e.node, e.on) THEN Keep(NoPending) ELSE Retry(e.node)) :
             Commit(e.node, Tail(btc), out)
  BY DEF SetStatus
<1>3. /\ PublishAck(e.node, Reached(e.node, e.on)) /\ Observe(e.node, e.on)
      /\ budget' = budget /\ mqtt' = mqtt
  BY DEF SetStatus
<1> HIDE DEF e
<1>4. EndsOrKeeps(pending[e.node], out)
  BY <1>1, <1>2, KeepKeeps, RetryKeeps, NoPendingMid DEF EndsOrKeeps, TypeInv
<1>5. Reached(e.node, e.on) => out.p.mid = NoMsg
  BY <1>2, KeepKeeps, NoPendingMid DEF Reached
<1> QED BY <1>1, <1>2, <1>3, <1>4, <1>5, StatusProgress

\* A GET status acknowledges the light's command or goes on with it.
LEMMA GetStatusProgress ==
    ASSUME TypeInv, TypeInv', LedgerInv, GetStatus PROVE Progress
<1> DEFINE e == Head(btc)
           toggles == toggle = <<e.node, e.addr>>
<1>1. e.node \in Slot /\ e.on \in 0..1
  BY ArrivesType DEF TypeInv, GetStatus
<1>2. PICK out \in AfterGet(e.node, e.on) :
        \E last \in (IF toggles THEN SendOnOff(e.node, out.p, 1 - e.on, NoMsg)
                     ELSE Keep(out.p)) :
          /\ faults + out.failed + last.failed <= MaxFaults
          /\ Commit(e.node, Tail(btc),
                    Outcome(last.p, out.posts \o last.posts, out.failed + last.failed))
  BY DEF GetStatus
<1>3. PICK last \in (IF toggles THEN SendOnOff(e.node, out.p, 1 - e.on, NoMsg)
                    ELSE Keep(out.p)) :
          Commit(e.node, Tail(btc),
                 Outcome(last.p, out.posts \o last.posts, out.failed + last.failed))
  BY <1>2
<1>4. /\ PublishAck(e.node, Reached(e.node, e.on)) /\ Observe(e.node, e.on)
      /\ budget' = budget /\ mqtt' = mqtt
  BY DEF GetStatus
<1> HIDE DEF e
<1>5. EndsOrKeeps(pending[e.node], out) /\ (Reached(e.node, e.on) => out.p.mid = NoMsg)
  BY <1>1, <1>2, AfterGetKeeps DEF TypeInv
<1>6. last.p = out.p \/ last.p.mid = NoMsg
  <2>1. out.p \in Pending
    BY <1>1, <1>2, AfterGetType DEF TypeInv, OutcomeOK
  <2> QED BY <1>1, <1>3, <2>1, KeepKeeps, SendOnOffKeeps
<1> DEFINE calls == out.posts \o last.posts
           failures == out.failed + last.failed
           both == Outcome(last.p, calls, failures)
<1>7. both.p = last.p
  <2> HIDE DEF calls, failures
  <2> QED BY OutcomeParts
<1>8. Commit(e.node, Tail(btc), both)
  BY <1>3
<1> HIDE DEF both
<1>9. EndsOrKeeps(pending[e.node], both) /\ (Reached(e.node, e.on) => both.p.mid = NoMsg)
  BY <1>5, <1>6, <1>7 DEF EndsOrKeeps
<1> QED BY <1>1, <1>4, <1>8, <1>9, StatusProgress

\* Every step of the gateway keeps the invariant and is a step of the ledger.
LEMMA StepProgress ==
    ASSUME TypeInv, LedgerInv, [Next]_vars PROVE Progress
<1>1. TypeInv'
  BY NextType
<1>2. CASE MqttTask
  BY <1>1, <1>2, MarkPendingProgress, PostCommandProgress, MarkGroupProgress,
     StartGroupSyncProgress, PostGroupProgress, ConnectionProgress DEF MqttTask
<1>3. CASE BtcTask
  <2>1. CASE Callback
    BY <1>1, <2>1, ProvCompleteProgress, OutsideProgress, OnOffErrorProgress,
       GetStatusProgress, SetStatusProgress, TimeoutProgress DEF Callback
  <2> QED BY <1>1, <1>3, <2>1, OutsideProgress DEF BtcTask
<1>4. CASE Next /\ ~MqttTask /\ ~BtcTask
  BY <1>1, <1>4, DispatchCommandProgress, ReceiveGroupProgress, ConnectionProgress,
     GroupSyncStepProgress, OutsideProgress, RestartProgress
     DEF Next, ReceiveCommand
<1>5. CASE UNCHANGED vars
  BY <1>1, <1>5, OutsideProgress
<1> QED BY <1>2, <1>3, <1>4, <1>5

\* The initial states satisfy the invariant and are initial states of the ledger.
LEMMA InitLedger == GatewayInit => LedgerInv /\ Ledger!Init
<1> SUFFICES ASSUME GatewayInit PROVE LedgerInv /\ Ledger!Init
  OBVIOUS
<1>1. /\ \A i \in Slot : pending[i].mid = NoMsg
      /\ \A c \in CmdId, i \in Slot : acks[c][i] = 0
      /\ mqtt.pc = "idle" /\ budget.cmds = 0
  BY NoPendingMid DEF GatewayInit, Idle
<1>2. Ledger!Init
  BY <1>1 DEF GatewayInit, Ledger!Init
<1>3. OpenInFlight /\ FreshIds /\ MarkReady /\ MarkUnused /\ OpenUnacked /\ AckedAtMostOnce
  BY <1>1, NoMsgNotId DEF OpenInFlight, FreshIds, MarkReady, MarkUnused, OpenUnacked,
     AckedAtMostOnce, Ledger!AckedAtMostOnce, NoMsg
<1> QED BY <1>2, <1>3 DEF LedgerInv

-----------------------------------------------------------------------------
\* The gateway implements the command ledger: whatever the interleaving of its
\* tasks, what happens to s_pending is the opening of a command on lights that
\* have none, its single acknowledgement, or its end without one.
THEOREM GatewayImplementsLedger == Spec => LedgerSpec
<1>1. Init => TypeInv /\ LedgerInv /\ Ledger!Init
  BY InitStored, InitType, InitLedger
<1>2. TypeInv /\ LedgerInv /\ [Next]_vars => TypeInv' /\ LedgerInv' /\ LedgerStep
  BY NextType, StepProgress DEF Progress
<1> QED BY <1>1, <1>2, PTL DEF Spec, LedgerSpec, Ledger!Spec, LedgerStep

\* No command is acknowledged twice for the same light (publish_ack), although an
\* id stays in s_pending across retries, status messages and task switches.
THEOREM GatewayAcksOnce == Spec => []AckedAtMostOnce
<1>1. Init => TypeInv /\ LedgerInv
  BY InitStored, InitType, InitLedger
<1>2. TypeInv /\ LedgerInv /\ [Next]_vars => TypeInv' /\ LedgerInv'
  BY NextType, StepProgress DEF Progress
<1>3. LedgerInv => AckedAtMostOnce
  BY DEF LedgerInv
<1> QED BY <1>1, <1>2, <1>3, PTL DEF Spec

-----------------------------------------------------------------------------
(* One thing at a time: with configured lights and one connection, a light     *)
(* never has two requests, events or visits of a task under way, so that its   *)
(* client model is never busy, and what it answers is what it will still be.   *)

\* The lights are configured and stay so, and the broker connects once.
Steady == ~Booting /\ Paired = Slot /\ MaxAddr = 1 /\ MaxConnects = 0

\* No group command was given up after its verification had begun.
Orderly == "post" \in Faults => faults = 0

StaysPut ==
    /\ \A i \in Slot : /\ nodes[i].unicast = 1 /\ device[i].addr = 1
                       /\ device[i].bound /\ device[i].subscribed
    /\ toggle = <<0, 0>>
    /\ connected => budget.restarts = 0

Want == [i \in Slot |-> pending[i].desired]
Single(x) == x.op # "group"

\* y may be behind x: it is about another light, or a group SET to the state x is for.
MayFollow(x, y, want) == Single(x) =>
    IF Single(y) THEN y.node # x.node ELSE y.on = want[x.node]
Arranged(q, want) == \A k, l \in 1..Len(q) : k < l => MayFollow(q[k], q[l], want)

\* The queue q and the requests T hold one thing at a time for each light, and
\* no group SET that would take a light away from what its own request is for.
Sorted(q, T, want) ==
    /\ Arranged(q, want)
    /\ \A t \in T, y \in Elems(q) : MayFollow(t, y, want)
    /\ \A t, u \in T : t.node = u.node => t = u
    /\ \A x, g \in Elems(q) : (Single(x) /\ x.kind # "call" /\ ~Single(g)) => g.on = want[x.node]

\* Nothing of light i's own is in q and T.
Free(i, q, T) == \A y \in Elems(q) \cup T : Single(y) => y.node # i

\* Every group SET in q asks for on.
Groups(q, on) == \A g \in Elems(q) : ~Single(g) => g.on = on

OneByOne == Sorted(btc, tx, Want)

\* Before a restart, what is under way for a light belongs to its command ...
Commanded == budget.restarts = 0 =>
    /\ recoverAt = 0
    /\ \A x \in Flow : /\ x.op \in {"get", "set", "group"}
                       /\ IF Single(x) THEN pending[x.node].inFlight ELSE x.kind = "call"
                       /\ (x.op = "set" /\ x.kind \in {"call", "status"}) => x.on = Want[x.node]
    /\ \A c \in CmdId, i \in Slot : (syncAt[c] # 0 /\ syncAt[c] <= i) => pending[i].inFlight
    /\ \A c \in CmdId, x \in Flow : (syncAt[c] # 0 /\ Single(x)) => x.node < syncAt[c]
    /\ \A b, c \in CmdId : (syncAt[b] # 0 /\ syncAt[c] # 0) => b = c

\* ... which the MQTT task starts only when nothing else is under way.
Reserving == budget.restarts = 0 =>
    /\ mqtt.pc = "mark" => ~pending[mqtt.at].inFlight
    /\ mqtt.pc = "gmark" => \A i \in Slot : ~pending[i].inFlight
    /\ mqtt.pc = "post" => /\ pending[mqtt.at].inFlight /\ pending[mqtt.at].desired = mqtt.on
                           /\ \A x \in Flow : Single(x) => x.node # mqtt.at
                           /\ \A c \in CmdId : syncAt[c] # 0 => mqtt.at < syncAt[c]
    /\ mqtt.pc = "gtask" => /\ \A i \in Slot : pending[i].inFlight
                            /\ \A x \in Flow : ~Single(x)
                            /\ \A c \in CmdId : syncAt[c] = 0
    /\ mqtt.pc \in {"gtask", "gpost"} =>
          \A i \in Slot : pending[i].inFlight => pending[i].desired = mqtt.on
    /\ mqtt.pc # "sync"

\* After a restart, it belongs to the recovery of the light.
Recovered == budget.restarts # 0 =>
    /\ mqtt.pc = "idle" /\ \A c \in CmdId : syncAt[c] = 0
    /\ \A i \in Slot : ~pending[i].inFlight
    /\ \A x \in Flow : /\ x.op \in {"get", "sub"}
                       /\ recoverAt = 0 \/ x.node < recoverAt
                       /\ (x.op = "get" /\ x.kind = "status") => device[x.node].light = x.on

\* A status that would end the command of its light is true.
Truthful == budget.restarts = 0 => \A x \in Elems(btc) :
    (x.kind = "status" /\ Single(x) /\ x.on = Want[x.node]) => device[x.node].light = x.on

ToRecover(i) == budget.restarts # 0 /\ (recoverAt \in 1..i \/ \E x \in Flow : x.node = i)

\* The table is right about a light that nothing is under way for, and the group
\* SETs that are still to come change nothing.
Agreed == faults = 0 =>
    /\ \A x \in Elems(btc) : x.kind \in {"call", "status"}
    /\ \A i \in Slot : (~pending[i].inFlight /\ ~ToRecover(i)) =>
          /\ nodes[i].onoff = device[i].light
          /\ Groups(btc, device[i].light)
          /\ mqtt.pc = "gpost" => mqtt.on = device[i].light

Paced == StaysPut /\ OneByOne /\ Commanded /\ Reserving /\ Recovered /\ Truthful /\ Agreed
SteadyInv == Steady /\ Orderly => Paced

-----------------------------------------------------------------------------
(* What leaves and joins a sorted queue *)

\* What is behind the head of a queue is sorted too, and is not about the head's light.
LEMMA SortedPop ==
    ASSUME NEW q \in Seq(Item), q # <<>>, NEW T, NEW w, Sorted(q, T, w)
    PROVE  /\ Sorted(Tail(q), T, w)
           /\ Single(Head(q)) => Free(Head(q).node, Tail(q), T) /\ Groups(Tail(q), w[Head(q).node])
<1>1. /\ Len(q) \in Nat \ {0} /\ Len(Tail(q)) = Len(q) - 1 /\ Head(q) = q[1]
      /\ \A k \in 1..Len(Tail(q)) : Tail(q)[k] = q[k + 1]
  BY HeadTailProperties, LenProperties, EmptySeq
<1>2. \A k \in 1..Len(Tail(q)) : k + 1 \in 1..Len(q) /\ 1 < k + 1
  BY <1>1
<1>3. \A k, l \in 1..Len(Tail(q)) : k < l => k + 1 < l + 1
  BY <1>1
<1>4. Arranged(Tail(q), w)
  BY <1>1, <1>2, <1>3 DEF Arranged, Sorted
<1>5. Elems(q) = {Head(q)} \cup Elems(Tail(q))
  BY ElemsPop
<1>6. \A y \in Elems(Tail(q)) : MayFollow(Head(q), y, w)
  <2>1. 1 \in 1..Len(q)
    BY <1>1
  <2> QED
    BY <1>1, <1>2, <2>1 DEF Elems, Sorted, Arranged
<1>7. Sorted(Tail(q), T, w)
  BY <1>4, <1>5 DEF Sorted
<1>8. \A t \in T : MayFollow(t, Head(q), w)
  BY <1>5 DEF Sorted
<1> QED
  BY <1>6, <1>7, <1>8 DEF MayFollow, Free, Groups

\* A request that ends leaves nothing behind that is about its light.
LEMMA SortedTake ==
    ASSUME NEW q, NEW T, NEW w, Sorted(q, T, w), NEW r \in T, Single(r)
    PROVE  Sorted(q, T \ {r}, w) /\ Free(r.node, q, T \ {r}) /\ Groups(q, w[r.node])
BY DEF Sorted, Free, Groups, MayFollow

\* A call for a light that nothing else is under way for may be sent.
LEMMA SortedSend ==
    ASSUME NEW q, NEW T, NEW w, Sorted(q, T, w), NEW h, Single(h),
           Free(h.node, q, T), Groups(q, w[h.node]), \A t \in T : Single(t)
    PROVE  Sorted(q, T \cup {h}, w)
<1>1. \A y \in Elems(q) : MayFollow(h, y, w)
  BY DEF Free, Groups, MayFollow
<1>2. \A t \in T : t.node # h.node
  BY DEF Free
<1> QED
  BY <1>1, <1>2 DEF Sorted

\* Only what is wanted of the lights with something under way matters.
LEMMA SortedWant ==
    ASSUME NEW q, NEW T, NEW w, NEW v, Sorted(q, T, w),
           \A x \in Elems(q) \cup T : Single(x) => v[x.node] = w[x.node]
    PROVE  Sorted(q, T, v)
<1>1. Arranged(q, v)
  <2>1. \A k \in 1..Len(q) : q[k] \in Elems(q)
    BY DEF Elems
  <2> QED
    BY <2>1 DEF Sorted, Arranged, MayFollow
<1>2. \A t \in T, y \in Elems(q) : MayFollow(t, y, v)
  BY DEF Sorted, MayFollow
<1> QED
  BY <1>1, <1>2 DEF Sorted

\* A queue that is appended to is arranged if all that is in it may be before the new item.
LEMMA ArrangedAppend ==
    ASSUME NEW q \in Seq(Item), NEW x \in Item, NEW w, Arranged(q, w),
           \A y \in Elems(q) : MayFollow(y, x, w)
    PROVE  Arranged(Append(q, x), w) /\ Elems(Append(q, x)) = Elems(q) \cup {x}
<1>1. /\ Len(q) \in Nat /\ Len(Append(q, x)) = Len(q) + 1
      /\ \A k \in 1..Len(q) : Append(q, x)[k] = q[k]
      /\ Append(q, x)[Len(q) + 1] = x
  BY AppendProperties, LenProperties
<1>2. ASSUME NEW k \in 1..(Len(q) + 1), NEW l \in 1..(Len(q) + 1), k < l
      PROVE  k \in 1..Len(q) /\ (l \in 1..Len(q) \/ l = Len(q) + 1)
  BY <1>1, <1>2
<1>3. \A k \in 1..Len(q) : q[k] \in Elems(q)
  BY DEF Elems
<1>4. Arranged(Append(q, x), w)
  BY <1>1, <1>2, <1>3 DEF Arranged
<1> QED
  BY <1>4, ElemsAppend

\* Something may be queued for a light that nothing else is under way for.
LEMMA SortedOwn ==
    ASSUME NEW q \in Seq(Item), NEW T, NEW w, Sorted(q, T, w), NEW x \in Item, Single(x),
           Free(x.node, q, T), x.kind = "call" \/ Groups(q, w[x.node])
    PROVE  Sorted(Append(q, x), T, w)
<1>1. \A y \in Elems(q) \cup T : MayFollow(y, x, w)
  BY DEF Free, MayFollow
<1>2. Arranged(Append(q, x), w) /\ Elems(Append(q, x)) = Elems(q) \cup {x}
  BY <1>1, ArrangedAppend DEF Sorted
<1> QED
  BY <1>1, <1>2 DEF Sorted, Groups

\* A group SET may be queued that asks of every light what its own request is for.
LEMMA SortedGroup ==
    ASSUME NEW q \in Seq(Item), NEW T, NEW w, Sorted(q, T, w), NEW g \in Item, ~Single(g),
           \A y \in Elems(q) \cup T : Single(y) => g.on = w[y.node]
    PROVE  Sorted(Append(q, g), T, w)
<1>1. \A y \in Elems(q) \cup T : MayFollow(y, g, w)
  BY DEF MayFollow
<1>2. Arranged(Append(q, g), w) /\ Elems(Append(q, g)) = Elems(q) \cup {g}
  BY <1>1, ArrangedAppend DEF Sorted
<1> QED
  BY <1>1, <1>2 DEF Sorted

-----------------------------------------------------------------------------
(* What the steps have in common *)

\* All that is under way is about a light at the address the table has for it.
LEMMA SteadyItems ==
    ASSUME FlowType, StaysPut
    PROVE  /\ \A x \in Flow : /\ x \in Item /\ x.node \in Slot /\ x.kind # "prov"
                              /\ Single(x) => x.addr = nodes[x.node].unicast
           /\ \A t \in tx : t.kind = "call" /\ Single(t)
           /\ Elems(btc) \subseteq Flow /\ tx \subseteq Flow /\ btc \in Seq(Item)
<1>1. \A x \in Flow : x \in Item /\ x.node \in Slot /\ x.addr \in Nat
  BY ItemNode DEF FlowType
<1>2. \A t \in tx : t.kind = "call" /\ Single(t)
  BY DEF FlowType, FlowInv, AddrInv, Single
<1>3. \A x \in Elems(btc) : x.kind # "prov"
  <2> SUFFICES ASSUME NEW x \in Elems(btc), x.kind = "prov" PROVE FALSE
    OBVIOUS
  <2>1. x.node \in Slot /\ x.addr \in Nat
    BY <1>1 DEF Flow
  <2>2. nodes[x.node].unicast < x.addr /\ x.addr <= device[x.node].addr
    BY DEF FlowType, FlowInv, AddrInv
  <2> QED
    BY <2>1, <2>2 DEF StaysPut
<1>4. \A x \in Flow : x.kind # "prov"
  BY <1>2, <1>3 DEF Flow
<1>5. ASSUME NEW x \in Flow, Single(x) PROVE x.addr = nodes[x.node].unicast
  <2>1. x.addr # 0 /\ x.addr <= nodes[x.node].unicast /\ x.addr \in Nat /\ nodes[x.node].unicast = 1
    BY <1>1, <1>4, <1>5 DEF FlowType, FlowInv, AddrInv, Addressed, Single, Unassigned, StaysPut
  <2> QED
    BY <2>1
<1> QED
  BY <1>1, <1>2, <1>4, <1>5 DEF Flow, FlowType, TypeInv, TypeOK

\* Posting does not fail, unless that is allowed to break the order.
LEMMA OrderlyPosts ==
    ASSUME TypeInv, Orderly'
    PROVE  ~(CanFail("post") /\ faults' = faults + 1)
BY Numbers DEF TypeInv, Orderly, CanFail

\* The event at the head of the queue is the only thing under way for its light.
LEMMA HeadLeaves ==
    ASSUME FlowType, StaysPut, OneByOne, NEW k \in Kinds \ {"prov"},
           NEW ops \in SUBSET (Ops \ {"group"}), Arrives(k, ops)
    PROVE  /\ btc \in Seq(Item) /\ Tail(btc) \in Seq(Item) /\ Head(btc) \in Item
           /\ Head(btc) \in Elems(btc) /\ Head(btc) \in Flow
           /\ Elems(btc) = {Head(btc)} \cup Elems(Tail(btc))
           /\ Single(Head(btc)) /\ Head(btc).kind = k /\ Head(btc).op \in ops /\ Known
           /\ Head(btc).node \in Slot /\ Head(btc).on \in 0..1 /\ Provisioned(Head(btc).node)
           /\ Sorted(Tail(btc), tx, Want) /\ Free(Head(btc).node, Tail(btc), tx)
           /\ Groups(Tail(btc), Want[Head(btc).node])
<1>1. /\ btc # <<>> /\ btc \in Seq(Item) /\ Head(btc).kind = k /\ Head(btc).op \in ops
      /\ Single(Head(btc))
  BY DEF Arrives, Single, FlowType, TypeInv, TypeOK
<1>2. Head(btc) \in Item /\ Tail(btc) \in Seq(Item)
  BY <1>1, HeadTailProperties
<1>3. Elems(btc) = {Head(btc)} \cup Elems(Tail(btc))
  BY <1>1, ElemsPop
<1>4. Head(btc) \in Flow
  BY <1>3 DEF Flow
<1>5. Head(btc).node \in Slot /\ Head(btc).on \in 0..1
  BY <1>2 DEF Item
<1>6. Known /\ Provisioned(Head(btc).node)
  BY <1>1, <1>4, <1>5, SteadyItems DEF Known, Provisioned, StaysPut, Unassigned
<1>7. /\ Sorted(Tail(btc), tx, Want) /\ Free(Head(btc).node, Tail(btc), tx)
      /\ Groups(Tail(btc), Want[Head(btc).node])
  BY <1>1, SortedPop DEF OneByOne
<1> QED
  BY <1>1, <1>2, <1>3, <1>4, <1>5, <1>6, <1>7

\* One thing at a time, when the queue goes on from q for a light that has nothing there:
\* one thing more is queued for it, or nothing.
LEMMA OwnKept ==
    ASSUME NEW q \in Seq(Item), Sorted(q, tx', Want), NEW i \in Slot, Free(i, q, tx'),
           \A x \in Elems(q) \cup tx' : x.node \in Slot,
           \A j \in Slot \ {i} : pending'[j] = pending[j],
           \/ btc' = q
           \/ \E x \in Item : /\ Single(x) /\ x.node = i /\ btc' = Append(q, x)
                              /\ x.kind = "call" \/ Groups(q, pending'[i].desired)
    PROVE  OneByOne'
<1>1. \A x \in Elems(q) \cup tx' : Single(x) => Want'[x.node] = Want[x.node]
  BY DEF Free, Want
<1>2. Sorted(q, tx', Want')
  BY <1>1, SortedWant
<1>3. Want'[i] = pending'[i].desired
  BY DEF Want
<1>4. Sorted(btc', tx', Want')
  <2>1. CASE btc' = q
    BY <1>2, <2>1
  <2>2. ASSUME NEW x \in Item, Single(x), x.node = i, btc' = Append(q, x),
               x.kind = "call" \/ Groups(q, pending'[i].desired)
        PROVE  Sorted(btc', tx', Want')
    BY <1>2, <1>3, <2>2, SortedOwn
  <2> QED
    BY <2>1, <2>2
<1> QED
  BY <1>4 DEF OneByOne

\* A step that gives no light another address, binding or subscription
LEMMA PutKept ==
    ASSUME StaysPut, SameUnicast, toggle' = toggle,
           connected' => connected /\ budget'.restarts = budget.restarts,
           \A i \in Slot : /\ device'[i].addr = device[i].addr
                           /\ device[i].bound => device'[i].bound
                           /\ device[i].subscribed => device'[i].subscribed
    PROVE  StaysPut'
BY DEF StaysPut, SameUnicast

\* A callback about a command of light i ends it, or goes on with it.
LEMMA CommandHandled ==
    ASSUME FlowType, TypeInv', Paced, budget.restarts = 0, NEW k \in Kinds \ {"prov"},
           NEW ops \in SUBSET (Ops \ {"group"}), Arrives(k, ops), NEW i, i = Head(btc).node,
           SameUnicast, \A j \in Slot \ {i} : pending'[j] = pending[j] /\ nodes'[j] = nodes[j],
           UNCHANGED <<tx, device, mqtt, connected, budget, toggle, syncAt, recoverAt>>,
           faults' = 0 => faults = 0,
           \/ /\ btc' = Tail(btc) /\ ~pending'[i].inFlight
              /\ faults' = 0 => nodes'[i].onoff = device[i].light /\ Want[i] = device[i].light
           \/ /\ pending'[i].inFlight /\ pending'[i].desired = pending[i].desired
              /\ \E c \in Item : /\ btc' = Append(Tail(btc), c) /\ c.kind = "call" /\ c.node = i
                                 /\ c.op \in {"get", "set"} /\ (c.op = "set" => c.on = Want[i])
    PROVE  Paced'
<1> DEFINE q == Tail(btc)
<1>1. /\ Head(btc) \in Flow /\ Head(btc) \in Elems(btc) /\ Single(Head(btc)) /\ i \in Slot
      /\ q \in Seq(Item) /\ Elems(btc) = {Head(btc)} \cup Elems(q)
      /\ Sorted(q, tx, Want) /\ Free(i, q, tx) /\ Groups(q, Want[i]) /\ Head(btc).kind = k
  BY HeadLeaves DEF Paced
<1>2. \A x \in Flow : x \in Item /\ x.node \in Slot
  BY SteadyItems DEF Paced
<1> HIDE DEF q
<1>3. pending[i].inFlight /\ \A c \in CmdId : syncAt[c] # 0 => i < syncAt[c]
  BY <1>1 DEF Paced, Commanded
<1>4. Want[i] = pending[i].desired /\ \A j \in Slot \ {i} : Want'[j] = Want[j]
  BY <1>1 DEF Want
<1>5. \/ btc' = q /\ Elems(btc') = Elems(q) /\ ~pending'[i].inFlight
      \/ \E c \in Item : /\ btc' = Append(q, c) /\ Elems(btc') = Elems(q) \cup {c}
                         /\ c.kind = "call" /\ c.node = i /\ c.op \in {"get", "set"}
                         /\ (c.op = "set" => c.on = Want[i])
                         /\ pending'[i].inFlight /\ pending'[i].desired = pending[i].desired
  <2>1. \A c \in Item : Elems(Append(q, c)) = Elems(q) \cup {c}
    BY <1>1, ElemsAppend
  <2> QED
    BY <2>1 DEF q
<1>6. StaysPut'
  BY PutKept DEF Paced
<1>7. OneByOne'
  <2>1. Sorted(q, tx', Want) /\ Free(i, q, tx') /\ \A x \in Elems(q) \cup tx' : x.node \in Slot
    BY <1>1, <1>2 DEF Flow
  <2>2. \/ btc' = q
        \/ \E x \in Item : /\ Single(x) /\ x.node = i /\ btc' = Append(q, x)
                           /\ x.kind = "call" \/ Groups(q, pending'[i].desired)
    BY <1>5 DEF Single
  <2> QED
    BY <1>1, <2>1, <2>2, OwnKept
\* What is under way afterwards: what was for other lights, and perhaps a call for this one
<1>8. \A x \in Flow' :
        \/ x \in Flow /\ (Single(x) => x.node # i)
        \/ /\ x.node = i /\ x.kind = "call" /\ x.op \in {"get", "set"} /\ pending'[i].inFlight
           /\ pending'[i].desired = pending[i].desired
           /\ (x.op = "set" => x.on = Want[i])
  BY <1>1, <1>5 DEF Flow, Free
<1>9. Commanded'
  <2>1. \A x \in Flow' : /\ x.op \in {"get", "set", "group"}
                         /\ IF Single(x) THEN pending'[x.node].inFlight ELSE x.kind = "call"
                         /\ (x.op = "set" /\ x.kind \in {"call", "status"}) => x.on = Want'[x.node]
    <3> SUFFICES ASSUME NEW x \in Flow'
                 PROVE  /\ x.op \in {"get", "set", "group"}
                        /\ IF Single(x) THEN pending'[x.node].inFlight ELSE x.kind = "call"
                        /\ (x.op = "set" /\ x.kind \in {"call", "status"}) => x.on = Want'[x.node]
      OBVIOUS
    <3>1. CASE x \in Flow /\ (Single(x) => x.node # i)
      BY <1>2, <1>4, <3>1 DEF Paced, Commanded, Single
    <3>2. CASE ~(x \in Flow /\ (Single(x) => x.node # i))
      <4>1. Want'[i] = pending'[i].desired
        BY <1>1 DEF Want
      <4> QED
        BY <1>4, <1>8, <3>2, <4>1
    <3> QED
      BY <3>1, <3>2
  <2>2. \A c \in CmdId, j \in Slot : (syncAt[c] # 0 /\ syncAt[c] <= j) => pending'[j].inFlight
    <3>1. \A c \in CmdId : syncAt[c] \in Nat
      BY GatewayAssumption DEF FlowType, TypeInv, TypeOK
    <3>2. i \in Nat
      BY <1>1 DEF Slot
    <3> QED
      BY <1>3, <3>1, <3>2 DEF Paced, Commanded
  <2>3. \A c \in CmdId, x \in Flow' : (syncAt[c] # 0 /\ Single(x)) => x.node < syncAt[c]
    BY <1>3, <1>8 DEF Paced, Commanded
  <2> QED
    BY <2>1, <2>2, <2>3 DEF Paced, Commanded
<1>10. Reserving'
  <2>1. mqtt.pc \notin {"gmark", "gtask", "sync"}
    BY <1>1, <1>3 DEF Paced, Reserving
  <2>2. mqtt.pc \in {"mark", "post"} => mqtt.at # i /\ mqtt.at \in Slot
    BY <1>1, <1>3 DEF Paced, Reserving, FlowType, TypeInv, MqttOK
  <2>3. \A j \in Slot : pending'[j].inFlight => pending[j].inFlight /\ pending'[j].desired = pending[j].desired
    BY <1>3, <1>5
  <2>4. mqtt.pc = "post" => \A x \in Flow' : Single(x) => x.node # mqtt.at
    BY <1>8, <2>2 DEF Paced, Reserving
  <2> QED
    BY <2>1, <2>2, <2>3, <2>4 DEF Paced, Reserving
<1>11. Recovered'
  BY DEF Recovered
<1>12. Truthful'
  <2> SUFFICES ASSUME NEW x \in Elems(btc'), x.kind = "status", Single(x), x.on = Want'[x.node]
               PROVE  device[x.node].light = x.on
    BY DEF Truthful
  <2>1. x \in Elems(q) /\ x \in Elems(btc) /\ x \in Flow
    BY <1>1, <1>5 DEF Flow
  <2>2. x.node \in Slot /\ x.node # i
    BY <1>1, <1>2, <2>1 DEF Free
  <2> QED
    BY <1>4, <2>1, <2>2 DEF Paced, Truthful
<1>13. Agreed'
  <2> SUFFICES ASSUME faults' = 0 PROVE Agreed'
    BY DEF Agreed
  <2>1. faults = 0
    OBVIOUS
  <2>2. \A x \in Elems(btc') : x.kind \in {"call", "status"}
    BY <1>1, <1>5, <2>1 DEF Paced, Agreed
  <2>3. \A on : Groups(q, on) => Groups(btc', on)
    BY <1>5 DEF Groups, Single
  <2>4. ASSUME NEW j \in Slot, ~pending'[j].inFlight
        PROVE  /\ nodes'[j].onoff = device[j].light /\ Groups(btc', device[j].light)
               /\ mqtt.pc = "gpost" => mqtt.on = device[j].light
    <3>1. CASE j = i
      <4>1. nodes'[i].onoff = device[i].light /\ Want[i] = device[i].light
        BY <2>4, <3>1
      <4>2. mqtt.pc = "gpost" => mqtt.on = Want[i]
        BY <1>1, <1>3, <1>4 DEF Paced, Reserving
      <4> QED
        BY <1>1, <2>3, <3>1, <4>1, <4>2
    <3>2. CASE j # i
      <4>1. ~pending[j].inFlight /\ ~ToRecover(j)
        BY <2>4, <3>2 DEF ToRecover
      <4>2. /\ nodes[j].onoff = device[j].light /\ Groups(btc, device[j].light)
            /\ mqtt.pc = "gpost" => mqtt.on = device[j].light
        BY <2>1, <4>1 DEF Paced, Agreed
      <4>3. Groups(q, device[j].light)
        BY <1>1, <4>2 DEF Groups
      <4> QED
        BY <2>3, <3>2, <4>2, <4>3
    <3> QED
      BY <3>1, <3>2
  <2> QED
    BY <2>2, <2>4 DEF Agreed
<1> QED
  BY <1>6, <1>7, <1>9, <1>10, <1>11, <1>12, <1>13 DEF Paced

\* Nothing is posted: the entry is p.
LEMMA CommitKept ==
    ASSUME TypeInv, NEW i \in Slot, NEW q \in Seq(Item), NEW p, NEW out \in Keep(p), Commit(i, q, out)
    PROVE  /\ pending'[i] = p /\ \A j \in Slot \ {i} : pending'[j] = pending[j]
           /\ btc' = q /\ faults' = faults
<1>1. out.p = p /\ out.posts = <<>> /\ out.failed = 0
  BY OutcomeParts DEF Keep
<1>2. q \o <<>> = q /\ faults + 0 = faults
  BY ConcatEmptySeq, Numbers DEF TypeInv
<1> QED
  BY <1>1, <1>2 DEF Commit, TypeInv, TypeOK

\* The call is posted, and the entry is p.
LEMMA CommitPosted ==
    ASSUME TypeInv, Orderly', NEW i \in Slot, NEW q \in Seq(Item), NEW p, NEW call \in Item,
           NEW out \in Posting(p, call, NoPending), Commit(i, q, out)
    PROVE  /\ pending'[i] = p /\ \A j \in Slot \ {i} : pending'[j] = pending[j]
           /\ btc' = Append(q, call) /\ faults' = faults
<1>1. out = Outcome(p, <<call>>, 0) \/ (CanFail("post") /\ out = Outcome(NoPending, <<>>, 1))
  BY DEF Posting
<1>2. out = Outcome(p, <<call>>, 0)
  <2> SUFFICES ASSUME CanFail("post"), out = Outcome(NoPending, <<>>, 1) PROVE FALSE
    BY <1>1
  <2>1. faults' = faults + 1
    BY OutcomeParts DEF Commit
  <2> QED
    BY <2>1, OrderlyPosts
<1>3. out.p = p /\ out.posts = <<call>> /\ out.failed = 0
  BY <1>2, OutcomeParts
<1>4. q \o <<call>> = Append(q, call) /\ faults + 0 = faults
  BY AppendIsConcat, Numbers DEF TypeInv
<1> QED
  BY <1>3, <1>4 DEF Commit, TypeInv, TypeOK

\* A call whose posting error would only be logged is posted.
LEMMA LogPosted ==
    ASSUME TypeInv, Orderly', NEW q, NEW call, PostOrLog(q, call)
    PROVE  btc' = Append(q, call) /\ faults' = faults
BY OrderlyPosts DEF PostOrLog

\* The calls the gateway posts for a light
LEMMA CallFacts ==
    ASSUME FlowType, StaysPut, NEW o \in {"get", "set", "sub"}, NEW i \in Slot, NEW v \in 0..1
    PROVE  /\ Call(o, i, v) \in Item /\ Call(o, i, v).kind = "call" /\ Call(o, i, v).op = o
           /\ Call(o, i, v).node = i /\ Call(o, i, v).on = v
<1>1. Provisioned(i) /\ o \in Ops
  BY DEF StaysPut, Provisioned, Unassigned, Ops, CfgOps
<1>2. Call(o, i, v).on = v
  BY DEF Call
<1> QED
  BY <1>1, <1>2, CallParts DEF FlowType

\* A retry repeats the command of light i, or the command is given up.
LEMMA RetryHandled ==
    ASSUME FlowType, StaysPut, Orderly', NEW i \in Slot, NEW q \in Seq(Item),
           NEW out \in Retry(i), Commit(i, q, out), pending[i].inFlight
    PROVE  /\ \A j \in Slot \ {i} : pending'[j] = pending[j]
           /\ faults' = faults
           /\ \/ btc' = q /\ ~pending'[i].inFlight
              \/ /\ pending'[i].inFlight /\ pending'[i].desired = pending[i].desired
                 /\ \E c \in Item : /\ btc' = Append(q, c) /\ c.kind = "call" /\ c.node = i
                                    /\ c.op \in {"get", "set"} /\ (c.op = "set" => c.on = Want[i])
<1>1. pending[i] \in Pending /\ pending[i].desired \in 0..1
  BY DEF FlowType, TypeInv, TypeOK, Pending
<1>2. CASE out \in Keep(NoPending)
  <2>1. /\ pending'[i] = NoPending /\ \A j \in Slot \ {i} : pending'[j] = pending[j]
        /\ btc' = q /\ faults' = faults
    BY <1>2, CommitKept DEF FlowType
  <2> QED
    BY <2>1, NothingPending
<1>3. CASE out \in RequestOnOff(i, [pending[i] EXCEPT !.retries = @ + 1])
  <2> DEFINE p == [pending[i] EXCEPT !.retries = @ + 1]
             c == Call("set", i, p.desired)
  <2>1. p.inFlight /\ p.desired = pending[i].desired
    BY <1>1 DEF Pending
  <2>2. out \in Posting(p, c, NoPending)
    BY <1>3 DEF RequestOnOff
  <2> HIDE DEF p
  <2>3. /\ c \in Item /\ c.kind = "call" /\ c.op = "set" /\ c.node = i /\ c.on = Want[i]
    BY <1>1, <2>1, CallFacts DEF Want
  <2> HIDE DEF c
  <2>4. /\ pending'[i] = p /\ \A j \in Slot \ {i} : pending'[j] = pending[j]
        /\ btc' = Append(q, c) /\ faults' = faults
    BY <2>2, <2>3, CommitPosted DEF FlowType
  <2> QED
    BY <2>1, <2>3, <2>4
<1> QED
  BY <1>2, <1>3 DEF Retry

\* The answer to a SET ends or repeats the command.
LEMMA SetStatusPaced ==
    ASSUME FlowType, TypeInv', Paced, Orderly', SetStatus
    PROVE  Paced'
<1> DEFINE e == Head(btc)
           i == e.node
<1>0. Arrives("status", {"set"})
  BY DEF SetStatus
<1>1. /\ e \in Flow /\ e \in Elems(btc) /\ i \in Slot /\ Single(e) /\ e.kind = "status" /\ e.op = "set"
      /\ Tail(btc) \in Seq(Item) /\ {"set"} \in SUBSET (Ops \ {"group"}) /\ "status" \in Kinds \ {"prov"}
  <2>1. {"set"} \in SUBSET (Ops \ {"group"}) /\ "status" \in Kinds \ {"prov"}
    BY DEF Ops, Kinds
  <2> QED
    BY <1>0, <2>1, HeadLeaves DEF Paced
<1>2. /\ Observe(i, e.on)
      /\ \E out \in (IF ~pending[i].inFlight
                     THEN Keep(pending[i])
                     ELSE IF Reached(i, e.on) THEN Keep(NoPending) ELSE Retry(i)) :
           Commit(i, Tail(btc), out)
      /\ UNCHANGED <<tx, device, mqtt, connected, budget, toggle, syncAt, recoverAt>>
  BY DEF SetStatus, taskVars
<1> HIDE DEF i
<1>3. budget.restarts = 0
  BY <1>1 DEF Paced, Recovered
<1>4. pending[i].inFlight /\ e.on = Want[i] /\ Reached(i, e.on)
  BY <1>1, <1>3 DEF Paced, Commanded, i, Reached, Want
<1>5. PICK out \in Keep(NoPending) : Commit(i, Tail(btc), out)
  BY <1>2, <1>4
<1>6. /\ pending'[i] = NoPending /\ \A j \in Slot \ {i} : pending'[j] = pending[j]
      /\ btc' = Tail(btc) /\ faults' = faults
  BY <1>1, <1>5, CommitKept DEF FlowType
<1>7. /\ SameUnicast /\ nodes'[i].onoff = e.on /\ \A j \in Slot \ {i} : nodes'[j] = nodes[j]
  BY <1>1, <1>2 DEF Observe, SameUnicast, FlowType, TypeInv, TypeOK, Node
<1>8. Want[i] = device[i].light
  BY <1>1, <1>3, <1>4 DEF Paced, Truthful, i
<1> QED
  BY <1>0, <1>1, <1>2, <1>3, <1>4, <1>6, <1>7, <1>8, NothingPending, CommandHandled DEF i

\* A callback of the recovery of light i goes on with it, or ends it.
LEMMA RecoveryHandled ==
    ASSUME FlowType, TypeInv', Paced, budget.restarts # 0, NEW k \in Kinds \ {"prov"},
           NEW ops \in SUBSET (Ops \ {"group"}), Arrives(k, ops), NEW i, i = Head(btc).node,
           SameUnicast, \A j \in Slot \ {i} : pending'[j] = pending[j] /\ nodes'[j] = nodes[j],
           ~pending'[i].inFlight,
           UNCHANGED <<tx, device, mqtt, connected, budget, toggle, syncAt, recoverAt>>,
           faults' = 0 => faults = 0,
           \/ btc' = Tail(btc) /\ (faults' = 0 => nodes'[i].onoff = device[i].light)
           \/ \E c \in Item : /\ btc' = Append(Tail(btc), c) /\ c.kind = "call" /\ c.node = i
                              /\ c.op \in {"get", "sub"}
    PROVE  Paced'
<1> DEFINE q == Tail(btc)
<1>1. /\ Head(btc) \in Flow /\ Head(btc) \in Elems(btc) /\ i \in Slot
      /\ q \in Seq(Item) /\ Elems(btc) = {Head(btc)} \cup Elems(q)
      /\ Sorted(q, tx, Want) /\ Free(i, q, tx)
  BY HeadLeaves DEF Paced
<1>2. \A x \in Flow : x \in Item /\ x.node \in Slot
  BY SteadyItems DEF Paced
<1> HIDE DEF q
<1>3. \/ btc' = q /\ Elems(btc') = Elems(q) /\ (faults' = 0 => nodes'[i].onoff = device[i].light)
      \/ \E c \in Item : /\ btc' = Append(q, c) /\ Elems(btc') = Elems(q) \cup {c}
                         /\ c.kind = "call" /\ c.node = i /\ c.op \in {"get", "sub"}
  <2>1. \A c \in Item : Elems(Append(q, c)) = Elems(q) \cup {c}
    BY <1>1, ElemsAppend
  <2> QED
    BY <2>1 DEF q
<1>4. StaysPut'
  BY PutKept DEF Paced
<1>5. OneByOne'
  <2>1. Sorted(q, tx', Want) /\ Free(i, q, tx') /\ \A x \in Elems(q) \cup tx' : x.node \in Slot
    BY <1>1, <1>2 DEF Flow
  <2>2. \/ btc' = q
        \/ \E x \in Item : Single(x) /\ x.node = i /\ btc' = Append(q, x) /\ x.kind = "call"
    BY <1>3 DEF Single
  <2> QED
    BY <1>1, <2>1, <2>2, OwnKept
<1>6. \A x \in Flow' : x \in Flow \/ (x.kind = "call" /\ x.node = i /\ x.op \in {"get", "sub"})
  BY <1>1, <1>3 DEF Flow
<1>7. Recovered'
  <2>1. recoverAt = 0 \/ i < recoverAt
    BY <1>1 DEF Paced, Recovered
  <2>2. \A j \in Slot : ~pending'[j].inFlight
    BY DEF Paced, Recovered
  <2> QED
    BY <1>6, <2>1, <2>2 DEF Paced, Recovered
<1>8. Commanded' /\ Reserving' /\ Truthful'
  BY DEF Commanded, Reserving, Truthful
<1>9. Agreed'
  <2> SUFFICES ASSUME faults' = 0 PROVE Agreed'
    BY DEF Agreed
  <2>1. \A x \in Elems(btc') : x.kind \in {"call", "status"} /\ Single(x)
    BY <1>1, <1>3 DEF Paced, Agreed, Recovered, Flow, Single
  <2>2. ASSUME NEW j \in Slot, ~ToRecover(j)' PROVE nodes'[j].onoff = device[j].light
    <3>1. CASE j = i
      <4>1. \A x \in Flow' : x.node # i
        BY <2>2, <3>1 DEF ToRecover
      <4> QED
        BY <1>3, <3>1, <4>1 DEF Flow
    <3>2. CASE j # i
      <4>1. \A x \in Flow : x \in Flow' \/ x.node = i
        BY <1>1, <1>3 DEF Flow
      <4>2. ~ToRecover(j) /\ ~pending[j].inFlight
        BY <2>2, <3>2, <4>1 DEF ToRecover, Paced, Recovered
      <4> QED
        BY <2>2, <3>2, <4>2 DEF Paced, Agreed
    <3> QED
      BY <3>1, <3>2
  <2>3. mqtt.pc # "gpost"
    BY DEF Paced, Recovered
  <2> QED
    BY <2>1, <2>2, <2>3 DEF Agreed, Groups
<1> QED
  BY <1>4, <1>5, <1>7, <1>8, <1>9 DEF Paced

\* A SET without an answer: one retry more, or the command is given up
LEMMA SetTimeoutPaced ==
    ASSUME FlowType, TypeInv', Paced, Orderly', SetTimeout
    PROVE  Paced'
<1> DEFINE e == Head(btc)
           i == e.node
<1>0. /\ Arrives("timeout", {"set"}) /\ {"set"} \in SUBSET (Ops \ {"group"})
      /\ "timeout" \in Kinds \ {"prov"}
  BY DEF SetTimeout, Ops, Kinds
<1>1. /\ e \in Flow /\ e \in Elems(btc) /\ i \in Slot /\ Single(e) /\ e.kind = "timeout"
      /\ e.op = "set" /\ Tail(btc) \in Seq(Item)
  BY <1>0, HeadLeaves DEF Paced
<1>2. /\ \E out \in (IF pending[i].inFlight THEN Retry(i) ELSE Keep(pending[i])) :
           Commit(i, Tail(btc), out)
      /\ UNCHANGED <<nodes, tx, device, mqtt, connected, budget, toggle, syncAt, recoverAt>>
  BY DEF SetTimeout, taskVars, mqttVars
<1> HIDE DEF i
<1>3. budget.restarts = 0 /\ faults # 0
  BY <1>1 DEF Paced, Recovered, Agreed
<1>4. pending[i].inFlight
  BY <1>1, <1>3 DEF Paced, Commanded, i
<1>5. PICK out \in Retry(i) : Commit(i, Tail(btc), out)
  BY <1>2, <1>4
<1>6. /\ \A j \in Slot \ {i} : pending'[j] = pending[j]
      /\ faults' = faults
      /\ \/ btc' = Tail(btc) /\ ~pending'[i].inFlight
         \/ /\ pending'[i].inFlight /\ pending'[i].desired = pending[i].desired
            /\ \E c \in Item : /\ btc' = Append(Tail(btc), c) /\ c.kind = "call" /\ c.node = i
                               /\ c.op \in {"get", "set"} /\ (c.op = "set" => c.on = Want[i])
  BY <1>1, <1>4, <1>5, RetryHandled DEF Paced
<1>7. SameUnicast
  BY <1>2 DEF SameUnicast
<1> QED
  BY <1>0, <1>2, <1>3, <1>6, <1>7, CommandHandled DEF i

\* A request that the client model refuses ends the command, or the recovery.
LEMMA OnOffErrorPaced ==
    ASSUME FlowType, TypeInv', Paced, OnOffError
    PROVE  Paced'
<1> DEFINE e == Head(btc)
           i == e.node
<1>0. /\ Arrives("error", {"get", "set"}) /\ {"get", "set"} \in SUBSET (Ops \ {"group"})
      /\ "error" \in Kinds \ {"prov"}
  BY DEF OnOffError, Ops, Kinds
<1>1. e \in Elems(btc) /\ i \in Slot /\ e.kind = "error"
  BY <1>0, HeadLeaves DEF Paced
<1>2. /\ pending' = [pending EXCEPT ![i] = NoPending] /\ btc' = Tail(btc)
      /\ UNCHANGED <<nodes, tx, device, mqtt, connected, budget, toggle, syncAt, recoverAt, faults>>
  BY DEF OnOffError, taskVars, mqttVars
<1> HIDE DEF i
<1>3. faults # 0
  BY <1>1 DEF Paced, Agreed
<1>4. ~pending'[i].inFlight /\ \A j \in Slot \ {i} : pending'[j] = pending[j]
  BY <1>1, <1>2, NothingPending DEF FlowType, TypeInv, TypeOK
<1>5. SameUnicast
  BY <1>2 DEF SameUnicast
<1>6. CASE budget.restarts = 0
  BY <1>0, <1>2, <1>3, <1>4, <1>5, <1>6, CommandHandled DEF i
<1>7. CASE budget.restarts # 0
  BY <1>0, <1>2, <1>3, <1>4, <1>5, <1>7, RecoveryHandled DEF i
<1> QED
  BY <1>6, <1>7

\* The first half of the handler of a GET status is all of it: no light has its first toggle to come.
LEMMA GetStatusHandled ==
    ASSUME FlowType, Paced, GetStatus
    PROVE  /\ SameUnicast /\ nodes'[Head(btc).node].onoff = Head(btc).on
           /\ \A j \in Slot \ {Head(btc).node} : nodes'[j] = nodes[j]
           /\ UNCHANGED <<tx, device, mqtt, connected, budget, toggle, syncAt, recoverAt>>
           /\ \E out \in AfterGet(Head(btc).node, Head(btc).on) :
                Commit(Head(btc).node, Tail(btc), out)
<1> DEFINE e == Head(btc)
           i == e.node
<1>0. Arrives("status", {"get"}) /\ {"get"} \in SUBSET (Ops \ {"group"}) /\ "status" \in Kinds \ {"prov"}
  BY DEF GetStatus, Ops, Kinds
<1>1. i \in Slot /\ e.on \in 0..1 /\ Tail(btc) \in Seq(Item) /\ Provisioned(i)
  BY <1>0, HeadLeaves DEF Paced
<1>2. toggle # <<e.node, e.addr>>
  <2>1. i # 0 /\ toggle = <<0, 0>>
    BY <1>1 DEF Slot, Paced, StaysPut
  <2> QED
    BY <2>1
<1>3. PICK out \in AfterGet(i, e.on) :
        \E last \in Keep(out.p) :
          /\ faults + out.failed + last.failed <= MaxFaults
          /\ Commit(i, Tail(btc),
                    Outcome(last.p, out.posts \o last.posts, out.failed + last.failed))
  BY <1>2 DEF GetStatus
<1>4. Observe(i, e.on) /\ UNCHANGED <<tx, device, mqtt, connected, budget, toggle, syncAt, recoverAt>>
  BY <1>2 DEF GetStatus, taskVars
<1> HIDE DEF i
<1>5. /\ SameUnicast /\ nodes'[i].onoff = e.on /\ \A j \in Slot \ {i} : nodes'[j] = nodes[j]
  BY <1>1, <1>4 DEF Observe, SameUnicast, FlowType, TypeInv, TypeOK, Node
<1>6. Commit(i, Tail(btc), out)
  <2>1. PICK last \in Keep(out.p) :
          Commit(i, Tail(btc), Outcome(last.p, out.posts \o last.posts, out.failed + last.failed))
    BY <1>3
  <2>2. last.p = out.p /\ last.posts = <<>> /\ last.failed = 0
    BY <2>1, OutcomeParts DEF Keep
  <2>3. out.posts \in Seq(Item) /\ out.failed \in Nat
    BY <1>1, <1>3, AfterGetSettles DEF FlowType, Settled, OutcomeOK
  <2>4. out.posts \o last.posts = out.posts /\ out.failed + last.failed = out.failed
    BY <2>2, <2>3, ConcatEmptySeq
  <2> DEFINE both == Outcome(out.p, out.posts, out.failed)
  <2>5. Commit(i, Tail(btc), both)
    BY <2>1, <2>2, <2>4
  <2>6. both.p = out.p /\ both.posts = out.posts /\ both.failed = out.failed
    BY OutcomeParts
  <2> HIDE DEF both
  <2> QED
    BY <2>5, <2>6 DEF Commit
<1> QED
  BY <1>3, <1>4, <1>5, <1>6 DEF i

\* The answer to a GET ends or repeats the command, or ends the recovery of its light.
LEMMA GetStatusPaced ==
    ASSUME FlowType, TypeInv', Paced, Orderly', GetStatus
    PROVE  Paced'
<1> DEFINE e == Head(btc)
           i == e.node
<1>0. Arrives("status", {"get"}) /\ {"get"} \in SUBSET (Ops \ {"group"}) /\ "status" \in Kinds \ {"prov"}
  BY DEF GetStatus, Ops, Kinds
<1>1. /\ e \in Flow /\ e \in Elems(btc) /\ i \in Slot /\ Single(e) /\ e.kind = "status" /\ e.op = "get"
      /\ e.on \in 0..1 /\ Tail(btc) \in Seq(Item)
  BY <1>0, HeadLeaves DEF Paced
<1>2. /\ SameUnicast /\ nodes'[i].onoff = e.on
      /\ \A j \in Slot \ {i} : nodes'[j] = nodes[j]
      /\ UNCHANGED <<tx, device, mqtt, connected, budget, toggle, syncAt, recoverAt>>
  BY GetStatusHandled
<1>3. PICK out \in AfterGet(i, e.on) : Commit(i, Tail(btc), out)
  BY GetStatusHandled
<1> HIDE DEF i
<1>4. pending[i] \in Pending /\ pending[i].desired \in 0..1
  BY <1>1 DEF FlowType, TypeInv, TypeOK, Pending
<1>5. CASE budget.restarts # 0
  <2>1. ~pending[i].inFlight /\ device[i].light = e.on
    BY <1>1, <1>5 DEF Paced, Recovered, i
  <2>2. out \in Keep(pending[i])
    BY <1>3, <2>1 DEF AfterGet
  <2>3. /\ pending'[i] = pending[i] /\ \A j \in Slot \ {i} : pending'[j] = pending[j]
        /\ btc' = Tail(btc) /\ faults' = faults
    BY <1>1, <1>3, <2>2, CommitKept DEF FlowType
  <2> QED
    BY <1>0, <1>2, <1>5, <2>1, <2>3, RecoveryHandled DEF i
<1>6. CASE budget.restarts = 0 /\ Want[i] = e.on
  <2>1. pending[i].inFlight /\ device[i].light = e.on /\ pending[i].desired = e.on
    BY <1>1, <1>6 DEF Paced, Commanded, Truthful, Want, i
  <2>2. out \in Keep(NoPending)
    BY <1>3, <2>1 DEF AfterGet
  <2>3. /\ pending'[i] = NoPending /\ \A j \in Slot \ {i} : pending'[j] = pending[j]
        /\ btc' = Tail(btc) /\ faults' = faults
    BY <1>1, <1>3, <2>2, CommitKept DEF FlowType
  <2> QED
    BY <1>0, <1>2, <1>6, <2>1, <2>3, NothingPending, CommandHandled DEF i
<1>7. CASE budget.restarts = 0 /\ Want[i] # e.on
  <2> DEFINE p == [pending[i] EXCEPT !.retries = 0]
             c == Call("set", i, p.desired)
  <2>1. pending[i].inFlight /\ pending[i].desired # e.on
    BY <1>1, <1>7 DEF Paced, Commanded, Want, i
  <2>2. out \in Posting(p, c, NoPending)
    BY <1>3, <2>1 DEF AfterGet, RequestOnOff
  <2>3. p.inFlight /\ p.desired = pending[i].desired
    BY <1>4, <2>1 DEF Pending
  <2> HIDE DEF p
  <2>4. /\ c \in Item /\ c.kind = "call" /\ c.op = "set" /\ c.node = i /\ c.on = Want[i]
    BY <1>1, <1>4, <2>3, CallFacts DEF Want, Paced
  <2> HIDE DEF c
  <2>5. /\ pending'[i] = p /\ \A j \in Slot \ {i} : pending'[j] = pending[j]
        /\ btc' = Append(Tail(btc), c) /\ faults' = faults
    BY <1>1, <1>3, <2>2, <2>4, CommitPosted DEF FlowType
  <2> QED
    BY <1>0, <1>2, <1>7, <2>3, <2>1, <2>4, <2>5, CommandHandled DEF i
<1> QED
  BY <1>5, <1>6, <1>7

\* A GET without an answer: for a command or on its own
LEMMA GetTimeoutPaced ==
    ASSUME FlowType, TypeInv', Paced, Orderly', GetTimeout
    PROVE  Paced'
<1> DEFINE e == Head(btc)
           i == e.node
           c == Call("get", i, 0)
<1>0. /\ Arrives("timeout", {"get"}) /\ {"get"} \in SUBSET (Ops \ {"group"})
      /\ "timeout" \in Kinds \ {"prov"}
  BY DEF GetTimeout, Ops, Kinds
<1>1. /\ e \in Flow /\ e \in Elems(btc) /\ i \in Slot /\ Single(e) /\ e.kind = "timeout"
      /\ Tail(btc) \in Seq(Item)
  BY <1>0, HeadLeaves DEF Paced
<1>2. UNCHANGED <<nodes, tx, device, mqtt, connected, budget, toggle, syncAt, recoverAt>>
  BY DEF GetTimeout, taskVars, mqttVars
<1>3. \/ /\ pending[i].inFlight /\ pending[i].retries >= MaxRetries
         /\ pending' = [pending EXCEPT ![i] = NoPending]
         /\ btc' = Tail(btc)
         /\ UNCHANGED faults
      \/ /\ pending[i].inFlight
         /\ \E out \in Posting([pending[i] EXCEPT !.retries = @ + 1], c, NoPending) :
              Commit(i, Tail(btc), out)
      \/ ~pending[i].inFlight /\ pending' = pending /\ btc' = Tail(btc) /\ UNCHANGED faults
      \/ ~pending[i].inFlight /\ pending' = pending /\ PostOrLog(Tail(btc), c)
  BY DEF GetTimeout
<1> HIDE DEF i, c
<1>4. faults # 0 /\ SameUnicast
  BY <1>1, <1>2 DEF Paced, Agreed, SameUnicast
<1>5. pending[i] \in Pending /\ pending[i].desired \in 0..1
  BY <1>1 DEF FlowType, TypeInv, TypeOK, Pending
<1>6. c \in Item /\ c.kind = "call" /\ c.op = "get" /\ c.node = i
  BY <1>1, CallFacts DEF c, Paced
<1>7. CASE pending[i].inFlight
  <2>1. budget.restarts = 0
    BY <1>1, <1>7 DEF Paced, Recovered
  <2>2. /\ \A j \in Slot \ {i} : pending'[j] = pending[j]
        /\ faults' = faults
        /\ \/ btc' = Tail(btc) /\ ~pending'[i].inFlight
           \/ /\ pending'[i].inFlight /\ pending'[i].desired = pending[i].desired
              /\ btc' = Append(Tail(btc), c)
    <3>1. CASE pending' = [pending EXCEPT ![i] = NoPending] /\ btc' = Tail(btc) /\ faults' = faults
      BY <1>1, <3>1, NothingPending DEF FlowType, TypeInv, TypeOK
    <3>2. ASSUME NEW out \in Posting([pending[i] EXCEPT !.retries = @ + 1], c, NoPending),
                 Commit(i, Tail(btc), out)
          PROVE  /\ \A j \in Slot \ {i} : pending'[j] = pending[j]
                 /\ faults' = faults /\ btc' = Append(Tail(btc), c)
                 /\ pending'[i].inFlight /\ pending'[i].desired = pending[i].desired
      <4> DEFINE p == [pending[i] EXCEPT !.retries = @ + 1]
      <4>1. p.inFlight /\ p.desired = pending[i].desired
        BY <1>5, <1>7 DEF Pending
      <4>2. out \in Posting(p, c, NoPending)
        BY <3>2
      <4> HIDE DEF p
      <4>3. /\ pending'[i] = p /\ \A j \in Slot \ {i} : pending'[j] = pending[j]
            /\ btc' = Append(Tail(btc), c) /\ faults' = faults
        BY <1>1, <1>6, <3>2, <4>2, CommitPosted DEF FlowType
      <4> QED
        BY <4>1, <4>3
    <3> QED
      BY <1>3, <1>7, <3>1, <3>2
  <2> QED
    BY <1>0, <1>2, <1>4, <1>6, <2>1, <2>2, CommandHandled DEF i
<1>8. CASE ~pending[i].inFlight
  <2>1. budget.restarts # 0
    BY <1>1, <1>8 DEF Paced, Commanded, i
  <2>2. faults' = faults /\ (btc' = Tail(btc) \/ btc' = Append(Tail(btc), c))
    BY <1>3, <1>8, LogPosted DEF FlowType
  <2>3. pending' = pending
    BY <1>3, <1>8
  <2> QED
    BY <1>0, <1>2, <1>4, <1>6, <1>8, <2>1, <2>2, <2>3, RecoveryHandled DEF i
<1> QED
  BY <1>7, <1>8

\* A step of the recovery: the subscription is followed by a GET.
LEMMA ConfigStatusPaced ==
    ASSUME FlowType, TypeInv', Paced, Orderly', ConfigStatus
    PROVE  Paced'
<1> DEFINE e == Head(btc)
           i == e.node
           c == Call("get", i, 0)
<1>0. Arrives("status", CfgOps) /\ CfgOps \in SUBSET (Ops \ {"group"}) /\ "status" \in Kinds \ {"prov"}
  BY DEF ConfigStatus, Ops, CfgOps, Kinds
<1>1. e \in Flow /\ i \in Slot /\ e.op \in CfgOps
  BY <1>0, HeadLeaves DEF Paced
<1>2. budget.restarts # 0 /\ e.op = "sub" /\ ~pending[i].inFlight
  BY <1>1 DEF Paced, Commanded, Recovered, CfgOps
<1>3. NextCfgOp["sub"] = "get"
  BY DEF NextCfgOp
<1>4. /\ UNCHANGED <<nodes, pending, tx, device, mqtt, connected, budget, toggle, syncAt, recoverAt>>
      /\ PostOrLog(Tail(btc), c)
  BY <1>2, <1>3 DEF ConfigStatus, taskVars, mqttVars
<1> HIDE DEF i, c
<1>5. SameUnicast
  BY <1>4 DEF SameUnicast
<1>6. c \in Item /\ c.kind = "call" /\ c.op = "get" /\ c.node = i
  BY <1>1, CallFacts DEF c, Paced
<1>7. btc' = Append(Tail(btc), c) /\ faults' = faults
  BY <1>4, LogPosted DEF FlowType
<1> QED
  BY <1>0, <1>2, <1>4, <1>5, <1>6, <1>7, RecoveryHandled DEF i

\* A subscription without an answer is repeated, or given up.
LEMMA ConfigTimeoutPaced ==
    ASSUME FlowType, TypeInv', Paced, Orderly', ConfigTimeout
    PROVE  Paced'
<1> DEFINE e == Head(btc)
           i == e.node
           c == Call("sub", i, 0)
<1>0. Arrives("timeout", CfgOps) /\ CfgOps \in SUBSET (Ops \ {"group"}) /\ "timeout" \in Kinds \ {"prov"}
  BY DEF ConfigTimeout, Ops, CfgOps, Kinds
<1>1. e \in Flow /\ e \in Elems(btc) /\ i \in Slot /\ e.op \in CfgOps /\ e.kind = "timeout"
  BY <1>0, HeadLeaves DEF Paced
<1>2. budget.restarts # 0 /\ e.op = "sub" /\ ~pending[i].inFlight /\ faults # 0
  BY <1>1 DEF Paced, Commanded, Recovered, CfgOps, Agreed
<1>3. /\ UNCHANGED <<nodes, pending, tx, device, mqtt, connected, budget, toggle, syncAt, recoverAt>>
      /\ (btc' = Tail(btc) /\ faults' = faults) \/ PostOrLog(Tail(btc), c)
  BY <1>2 DEF ConfigTimeout, taskVars, mqttVars
<1> HIDE DEF i, c
<1>4. SameUnicast
  BY <1>3 DEF SameUnicast
<1>5. c \in Item /\ c.kind = "call" /\ c.op = "sub" /\ c.node = i
  BY <1>1, CallFacts DEF c, Paced
<1>6. faults' = faults /\ (btc' = Tail(btc) \/ btc' = Append(Tail(btc), c))
  BY <1>3, LogPosted DEF FlowType
<1> QED
  BY <1>0, <1>2, <1>3, <1>4, <1>5, <1>6, RecoveryHandled DEF i

\* Only a subscription that failed is dropped.
LEMMA IgnoreEventPaced ==
    ASSUME FlowType, TypeInv', Paced, IgnoreEvent
    PROVE  Paced'
<1> DEFINE e == Head(btc)
<1>1. /\ btc # <<>> /\ btc' = Tail(btc)
      /\ UNCHANGED <<nodes, pending, tx, device, mqtt, connected, budget, toggle, syncAt, recoverAt, faults>>
      /\ e.kind \in {"status", "refused", "timeout", "error"}
      /\ ~Known \/ (e.kind \in {"error", "refused"} /\ e.op \in CfgOps)
  BY DEF IgnoreEvent, Arrives, gatewayVars, mqttVars, taskVars
<1>2. e \in Flow /\ e \in Elems(btc)
  <2>1. Elems(btc) = {e} \cup Elems(Tail(btc))
    BY <1>1, ElemsPop DEF FlowType, TypeInv, TypeOK
  <2> QED
    BY <2>1 DEF Flow
<1>3. e.op # "group" /\ e.op \in Ops
  BY <1>1, <1>2 DEF Paced, Commanded, Recovered, Single, Ops, CfgOps
<1>4. PICK k \in Kinds \ {"prov"} : Arrives(k, Ops \ {"group"})
  BY <1>1, <1>3 DEF Arrives, Kinds
<1>5. Known /\ e.node \in Slot
  BY <1>4, HeadLeaves DEF Paced
<1>6. e.kind \in {"error", "refused"} /\ e.op \in CfgOps
  BY <1>1, <1>5
<1>7. budget.restarts # 0 /\ ~pending[e.node].inFlight /\ faults # 0
  BY <1>2, <1>5, <1>6 DEF Paced, Commanded, Recovered, CfgOps, Agreed
<1>8. SameUnicast
  BY <1>1 DEF SameUnicast
<1> QED
  BY <1>1, <1>4, <1>7, <1>8, RecoveryHandled

-----------------------------------------------------------------------------
(* The MQTT task *)

\* A step of the MQTT task that posts nothing
LEMMA MqttStep ==
    ASSUME FlowType, Paced, budget.restarts = 0, budget'.restarts = 0,
           UNCHANGED <<nodes, btc, tx, device, toggle, recoverAt>>, connected' => connected,
           \A x \in Flow : Single(x) => pending'[x.node].desired = pending[x.node].desired,
           faults' = 0 => /\ faults = 0
                          /\ \A j \in Slot : ~pending'[j].inFlight =>
                                /\ ~pending[j].inFlight
                                /\ mqtt'.pc = "gpost" => mqtt.pc = "gpost" /\ mqtt'.on = mqtt.on
    PROVE  StaysPut' /\ OneByOne' /\ Recovered' /\ Truthful' /\ Agreed'
<1>1. \A x \in Flow : Single(x) => Want'[x.node] = Want[x.node]
  BY SteadyItems DEF Paced, Want
<1>2. StaysPut'
  BY PutKept DEF Paced, SameUnicast
<1>3. OneByOne'
  BY <1>1, SortedWant DEF Paced, OneByOne, Flow
<1>4. Recovered'
  BY DEF Recovered
<1>5. Truthful'
  BY <1>1 DEF Paced, Truthful, Flow
<1>6. Agreed'
  BY DEF Paced, Agreed, ToRecover
<1> QED
  BY <1>2, <1>3, <1>4, <1>5, <1>6

\* Commands go on when nobody is unmarked.
LEMMA CommandedKept ==
    ASSUME FlowType, StaysPut, Commanded, budget.restarts = 0, UNCHANGED <<btc, tx, syncAt, recoverAt>>,
           \A i \in Slot : pending[i].inFlight =>
              pending'[i].inFlight /\ pending'[i].desired = pending[i].desired
    PROVE  Commanded'
<1>1. \A x \in Flow' : x \in Flow /\ x.node \in Slot
  BY SteadyItems DEF Flow
<1>2. \A i \in Slot : pending[i].inFlight => Want'[i] = Want[i]
  BY DEF Want
<1> QED
  BY <1>1, <1>2 DEF Commanded, Single

\* A command is taken when its light is free, a group command when all are.
LEMMA ReceivePaced ==
    ASSUME FlowType, TypeInv', Paced,
           \/ \E i \in Slot, on \in 0..1 : ReceiveCommand(i, on)
           \/ \E on \in 0..1 : ReceiveGroup(on)
           \/ Disconnect
    PROVE  Paced'
<1>1. /\ UNCHANGED <<nodes, pending, btc, tx, device, toggle, syncAt, recoverAt, faults>>
      /\ connected /\ (connected' => connected) /\ mqtt.pc = "idle"
  BY DEF ReceiveCommand, DispatchCommand, ReceiveGroup, DispatchGroup, Disconnect,
         gatewayVars, taskVars
<1>2. budget.restarts = 0 /\ budget'.restarts = budget.restarts
  <2>1. budget \in Budget
    BY DEF FlowType, TypeInv, TypeOK
  <2>2. budget' = budget \/ budget' = [budget EXCEPT !.cmds = @ + 1]
    BY ZenonT(20) DEF ReceiveCommand, DispatchCommand, ReceiveGroup, DispatchGroup, Disconnect
  <2> QED
    BY <1>1, <2>1, <2>2 DEF Budget, Paced, StaysPut
<1>3. /\ mqtt'.pc \in {"idle", "mark", "gmark"}
      /\ mqtt'.pc = "mark" => ~pending[mqtt'.at].inFlight
      /\ mqtt'.pc = "gmark" => \A i \in Slot : ~pending[i].inFlight
  <2>1. ASSUME NEW i \in Slot, NEW on \in 0..1, DispatchCommand(i, on)
        PROVE  \/ mqtt'.pc = "idle"
               \/ mqtt'.pc = "mark" /\ ~pending[mqtt'.at].inFlight
    BY <2>1 DEF DispatchCommand, Accepts, Idle
  <2>2. ASSUME NEW on \in 0..1, DispatchGroup(on)
        PROVE  \/ mqtt'.pc = "idle"
               \/ mqtt'.pc = "gmark" /\ \A i \in Slot : ~pending[i].inFlight
    <3>1. \A i \in Slot : Provisioned(i)
      BY DEF Paced, StaysPut, Provisioned, Unassigned
    <3>2. \/ mqtt' = Idle
          \/ /\ mqtt' = [pc |-> "gmark", at |-> 0, on |-> on, mid |-> budget.cmds + 1]
             /\ \A i \in Slot : Provisioned(i) => ~pending[i].inFlight
      BY <2>2, ZenonT(20) DEF DispatchGroup
    <3> QED
      BY <3>1, <3>2 DEF Idle
  <2>3. CASE Disconnect
    BY <1>1, <2>3 DEF Disconnect
  <2> QED
    BY <2>1, <2>2, <2>3 DEF ReceiveCommand, ReceiveGroup
<1>4. StaysPut' /\ OneByOne' /\ Recovered' /\ Truthful' /\ Agreed'
  BY <1>1, <1>2, <1>3, MqttStep
<1>5. Commanded'
  BY <1>1, <1>2, CommandedKept DEF Paced
<1>6. Reserving'
  BY <1>1, <1>3 DEF Reserving
<1> QED
  BY <1>4, <1>5, <1>6 DEF Paced

\* The MQTT task has not been restarted while it works on a command.
LEMMA MqttFresh == ASSUME Paced, mqtt.pc # "idle" PROVE budget.restarts = 0
BY DEF Paced, Recovered

\* The light is marked, and free for the request.
LEMMA MarkPendingPaced ==
    ASSUME FlowType, TypeInv', Paced, MarkPending
    PROVE  Paced'
<1> DEFINE i == mqtt.at
<1>1. /\ mqtt.pc = "mark" /\ i \in Slot /\ budget.restarts = 0 /\ ~pending[i].inFlight
  BY MqttFresh DEF MarkPending, FlowType, TypeInv, MqttOK, Paced, Reserving
<1>2. UNCHANGED <<nodes, btc, tx, device, toggle, connected, budget, syncAt, recoverAt, faults>>
  BY DEF MarkPending, taskVars
<1>3. mqtt'.pc = "post" /\ mqtt'.at = i /\ mqtt'.on = mqtt.on
  BY DEF MarkPending, FlowType, TypeInv, TypeOK, Mqtt
<1>4. /\ pending'[i].inFlight /\ pending'[i].desired = mqtt.on
      /\ \A j \in Slot \ {i} : pending'[j] = pending[j]
  <2>1. pending[i] \in Pending
    BY <1>1 DEF FlowType, TypeInv, TypeOK
  <2> QED
    BY <1>1, <2>1 DEF MarkPending, FlowType, TypeInv, TypeOK, Pending
<1>5. \A x \in Flow : Single(x) => x.node # i /\ x.node \in Slot
  BY <1>1, SteadyItems DEF Paced, Commanded
<1>6. StaysPut' /\ OneByOne' /\ Recovered' /\ Truthful' /\ Agreed'
  BY <1>1, <1>2, <1>3, <1>4, <1>5, MqttStep
<1>7. Commanded'
  BY <1>1, <1>2, <1>4, CommandedKept DEF Paced
<1>8. Reserving'
  <2>1. \A c \in CmdId : syncAt[c] # 0 => i < syncAt[c]
    <3>1. \A c \in CmdId : syncAt[c] \in Nat
      BY GatewayAssumption DEF FlowType, TypeInv, TypeOK
    <3> QED
      BY <1>1, <3>1 DEF Paced, Commanded, Slot
  <2>2. \A x \in Flow' : x \in Flow
    BY <1>2 DEF Flow
  <2> QED
    BY <1>2, <1>3, <1>4, <1>5, <2>1, <2>2 DEF Reserving
<1> QED
  BY <1>6, <1>7, <1>8 DEF Paced

\* The SET of the command is queued: the light was free.
LEMMA PostCommandPaced ==
    ASSUME FlowType, TypeInv', Paced, Orderly', PostCommand
    PROVE  Paced'
<1> DEFINE i == mqtt.at
           c == Call("set", i, mqtt.on)
<1>1. /\ mqtt.pc = "post" /\ i \in Slot /\ budget.restarts = 0 /\ mqtt.on \in 0..1
      /\ pending[i].inFlight /\ pending[i].desired = mqtt.on
      /\ \A x \in Flow : Single(x) => x.node # i
      /\ \A b \in CmdId : syncAt[b] # 0 => i < syncAt[b]
  BY MqttFresh DEF PostCommand, FlowType, TypeInv, TypeOK, MqttOK, Mqtt, Paced, Reserving
<1>2. /\ UNCHANGED <<nodes, tx, device, toggle, connected, budget, syncAt, recoverAt>>
      /\ mqtt'.pc = "idle"
  BY DEF PostCommand, taskVars, Idle
<1>3. PICK out \in Posting(pending[i], c, NoPending) : Commit(i, btc, out)
  BY DEF PostCommand
<1> HIDE DEF i
<1>4. c \in Item /\ c.kind = "call" /\ c.op = "set" /\ c.node = i /\ c.on = mqtt.on
  BY <1>1, CallFacts DEF Paced
<1> HIDE DEF c
<1>5. btc \in Seq(Item) /\ \A x \in Flow : x.node \in Slot
  BY SteadyItems DEF Paced
<1>6. pending' = pending /\ btc' = Append(btc, c) /\ faults' = faults
  <2>1. /\ pending'[i] = pending[i] /\ \A j \in Slot \ {i} : pending'[j] = pending[j]
        /\ btc' = Append(btc, c) /\ faults' = faults
    BY <1>1, <1>3, <1>4, <1>5, CommitPosted DEF FlowType
  <2>2. pending' \in [Slot -> Pending] /\ pending \in [Slot -> Pending]
    BY DEF FlowType, TypeInv, TypeOK
  <2> QED
    BY <2>1, <2>2
<1>7. Elems(btc') = Elems(btc) \cup {c} /\ Flow' = Flow \cup {c}
  BY <1>2, <1>4, <1>5, <1>6, ElemsAppend DEF Flow
<1>8. Single(c) /\ Want' = Want /\ Want[i] = mqtt.on
  BY <1>1, <1>4, <1>6 DEF Single, Want
<1>9. StaysPut'
  BY <1>2, PutKept DEF Paced, SameUnicast
<1>10. OneByOne'
  <2>1. Free(i, btc, tx)
    BY <1>1 DEF Free, Flow
  <2> QED
    BY <1>2, <1>4, <1>5, <1>6, <1>8, <2>1, SortedOwn DEF Paced, OneByOne
<1>11. Commanded'
  BY <1>1, <1>2, <1>4, <1>6, <1>7, <1>8 DEF Paced, Commanded
<1>12. Reserving' /\ Recovered'
  BY <1>1, <1>2 DEF Reserving, Recovered
<1>13. Truthful'
  BY <1>1, <1>2, <1>4, <1>7, <1>8 DEF Paced, Truthful
<1>14. Agreed'
  BY <1>1, <1>2, <1>4, <1>6, <1>7, <1>8 DEF Paced, Agreed, ToRecover, Groups
<1> QED
  BY <1>9, <1>10, <1>11, <1>12, <1>13, <1>14 DEF Paced

\* All lights are marked, and nothing is under way.
LEMMA MarkGroupPaced ==
    ASSUME FlowType, TypeInv', Paced, MarkGroup
    PROVE  Paced'
<1>1. mqtt.pc = "gmark" /\ UNCHANGED <<nodes, btc, tx, device, toggle, connected, budget, syncAt, recoverAt, faults>>
  BY ZenonT(20) DEF MarkGroup, taskVars
<1>2. mqtt'.pc = "gtask" /\ mqtt'.on = mqtt.on
  <2>1. mqtt' = [mqtt EXCEPT !.pc = "gtask"] /\ mqtt \in Mqtt
    BY ZenonT(20) DEF MarkGroup, FlowType, TypeInv, TypeOK
  <2> QED
    BY <2>1 DEF Mqtt
<1>3. budget.restarts = 0 /\ \A i \in Slot : ~pending[i].inFlight
  BY <1>1, MqttFresh DEF Paced, Reserving
<1>4. \A i \in Slot : pending'[i].inFlight /\ pending'[i].desired = mqtt.on
  <2> SUFFICES ASSUME NEW i \in Slot PROVE pending'[i].inFlight /\ pending'[i].desired = mqtt.on
    OBVIOUS
  <2> DEFINE p == [pending[i] EXCEPT !.inFlight = TRUE, !.desired = mqtt.on, !.mid = mqtt.mid]
  <2>1. Provisioned(i)
    BY DEF Paced, StaysPut, Provisioned, Unassigned
  <2>2. pending'[i] = p
    BY <2>1, ZenonT(20) DEF MarkGroup
  <2>3. pending[i] \in Pending
    BY DEF FlowType, TypeInv, TypeOK
  <2>4. p.inFlight /\ p.desired = mqtt.on
    BY <2>3 DEF Pending
  <2> HIDE DEF p
  <2> QED
    BY <2>2, <2>4
<1>5. \A x \in Flow : ~Single(x) /\ x.node \in Slot
  BY <1>3, SteadyItems DEF Paced, Commanded
<1>6. StaysPut' /\ OneByOne' /\ Recovered' /\ Truthful' /\ Agreed'
  BY <1>1, <1>3, <1>4, <1>5, MqttStep
<1>7. Commanded'
  BY <1>1, <1>3, <1>4, CommandedKept DEF Paced
<1>8. Reserving'
  <2>1. \A c \in CmdId : syncAt[c] = 0
    <3>1. \A c \in CmdId : syncAt[c] \in Nat /\ syncAt[c] <= NumNodes
      BY GatewayAssumption DEF FlowType, TypeInv, TypeOK
    <3>2. NumNodes \in Slot
      BY GatewayAssumption DEF Slot
    <3> QED
      BY <1>3, <3>1, <3>2 DEF Paced, Commanded
  <2>2. \A x \in Flow' : x \in Flow
    BY <1>1 DEF Flow
  <2> QED
    BY <1>1, <1>2, <1>4, <1>5, <2>1, <2>2 DEF Reserving
<1> QED
  BY <1>6, <1>7, <1>8 DEF Paced

\* The verification task sets out to visit all lights, or the group command is dropped.
LEMMA StartGroupSyncPaced ==
    ASSUME FlowType, TypeInv', Paced, StartGroupSync
    PROVE  Paced'
<1>1. /\ mqtt.pc = "gtask" /\ budget.restarts = 0
      /\ \A i \in Slot : pending[i].inFlight /\ pending[i].desired = mqtt.on
      /\ \A x \in Flow : ~Single(x)
      /\ \A c \in CmdId : syncAt[c] = 0
  BY MqttFresh DEF StartGroupSync, Paced, Reserving
<1>2. UNCHANGED <<nodes, btc, tx, device, toggle, connected, budget, recoverAt>>
  BY DEF StartGroupSync
<1>3. Flow' = Flow
  BY <1>2 DEF Flow
<1>4. CASE /\ syncAt' = [syncAt EXCEPT ![mqtt.mid] = 1]
           /\ mqtt' = [mqtt EXCEPT !.pc = "gpost"]
           /\ UNCHANGED <<pending, faults>>
  <2>1. mqtt'.pc = "gpost" /\ mqtt'.on = mqtt.on /\ \A c \in CmdId : syncAt'[c] # 0 => c = mqtt.mid
    BY <1>1, <1>4 DEF FlowType, TypeInv, TypeOK, Mqtt
  <2>2. StaysPut' /\ OneByOne' /\ Recovered' /\ Truthful' /\ Agreed'
    BY <1>1, <1>2, <1>4, MqttStep
  <2>3. Commanded'
    BY <1>1, <1>2, <1>3, <1>4, <2>1 DEF Paced, Commanded, Single
  <2>4. Reserving'
    BY <1>1, <1>4, <2>1 DEF Reserving
  <2> QED
    BY <2>2, <2>3, <2>4 DEF Paced
<1>5. CASE faults' = faults + 1 /\ ClearAllPending /\ mqtt' = Idle /\ UNCHANGED syncAt
  <2>1. faults' # 0 /\ mqtt'.pc = "idle"
    BY <1>5, Numbers DEF FlowType, TypeInv, Idle
  <2>2. StaysPut' /\ OneByOne' /\ Recovered' /\ Truthful' /\ Agreed'
    BY <1>1, <1>2, <2>1, MqttStep
  <2>3. Commanded'
    BY <1>1, <1>2, <1>3, <1>5 DEF Paced, Commanded, Single
  <2>4. Reserving'
    BY <2>1 DEF Reserving
  <2> QED
    BY <2>2, <2>3, <2>4 DEF Paced
<1> QED
  BY <1>4, <1>5 DEF StartGroupSync

\* The group SET asks for what every command still in flight is for.
LEMMA PostGroupPaced ==
    ASSUME FlowType, TypeInv', Paced, Orderly', PostGroup
    PROVE  Paced'
<1> DEFINE g == [kind |-> "call", op |-> "group", node |-> 1, addr |-> Unassigned, on |-> mqtt.on]
<1>1. /\ mqtt.pc = "gpost" /\ budget.restarts = 0
      /\ \A i \in Slot : pending[i].inFlight => Want[i] = mqtt.on
  BY MqttFresh DEF PostGroup, Paced, Reserving, Want
<1>2. /\ UNCHANGED <<nodes, tx, device, toggle, connected, budget, syncAt, recoverAt>>
      /\ mqtt'.pc = "idle"
  BY DEF PostGroup, taskVars, Idle
<1>3. btc' = Append(btc, g) /\ pending' = pending /\ faults' = faults
  BY OrderlyPosts DEF PostGroup, FlowType
<1>4. g \in Item /\ ~Single(g) /\ g.kind = "call" /\ g.on = mqtt.on /\ g.op = "group"
  <2>1. mqtt.on \in 0..1
    BY DEF FlowType, TypeInv, TypeOK, Mqtt
  <2> QED
    BY <2>1, GatewayAssumption DEF Item, Kinds, Ops, Slot, Unassigned, Single
<1> HIDE DEF g
<1>5. btc \in Seq(Item) /\ \A x \in Flow : x.node \in Slot
  BY SteadyItems DEF Paced
<1>6. Elems(btc') = Elems(btc) \cup {g} /\ Flow' = Flow \cup {g} /\ Want' = Want
  BY <1>2, <1>3, <1>4, <1>5, ElemsAppend DEF Flow, Want
<1>7. StaysPut'
  BY <1>2, PutKept DEF Paced, SameUnicast
<1>8. OneByOne'
  <2>1. \A y \in Elems(btc) \cup tx : Single(y) => g.on = Want[y.node]
    BY <1>1, <1>4, <1>5 DEF Paced, Commanded, Flow
  <2> QED
    BY <1>2, <1>3, <1>4, <1>5, <1>6, <2>1, SortedGroup DEF Paced, OneByOne
<1>9. Commanded'
  BY <1>1, <1>2, <1>3, <1>4, <1>6 DEF Paced, Commanded
<1>10. Reserving' /\ Recovered'
  BY <1>1, <1>2 DEF Reserving, Recovered
<1>11. Truthful'
  BY <1>1, <1>2, <1>4, <1>6 DEF Paced, Truthful
<1>12. Agreed'
  BY <1>1, <1>2, <1>3, <1>4, <1>6 DEF Paced, Agreed, ToRecover, Groups
<1> QED
  BY <1>7, <1>8, <1>9, <1>10, <1>11, <1>12 DEF Paced

-----------------------------------------------------------------------------
(* The spawned tasks *)

\* The verification task asks a light that is pending, and has nothing else under way.
LEMMA GroupSyncStepPaced ==
    ASSUME FlowType, TypeInv', Paced, Orderly', NEW b \in CmdId, GroupSyncStep(b)
    PROVE  Paced'
<1> DEFINE i == syncAt[b]
           c == Call("get", i, 0)
<1>1. /\ i \in Slot /\ i \in 0..NumNodes /\ i # 0 /\ \A d \in CmdId : syncAt[d] \in Nat
      /\ syncAt' = [syncAt EXCEPT ![b] = NextSlot(@)] /\ syncAt'[b] = NextSlot(i)
      /\ \A d \in CmdId : d # b => syncAt'[d] = syncAt[d]
      /\ UNCHANGED <<nodes, tx, device, toggle, mqtt, connected, budget, recoverAt>>
  <2>1. syncAt \in [CmdId -> 0..NumNodes] /\ i # 0
    BY DEF GroupSyncStep, FlowType, TypeInv, TypeOK
  <2>2. i \in Slot
    BY <2>1, GatewayAssumption DEF Slot
  <2> QED
    BY <2>1, <2>2, GatewayAssumption DEF GroupSyncStep, mqttVars
<1>2. budget.restarts = 0
  BY <1>1 DEF Paced, Recovered
<1>3. /\ pending[i].inFlight /\ \A x \in Flow : Single(x) => x.node < i
      /\ \A d \in CmdId : d # b => syncAt[d] = 0
  BY <1>1, <1>2 DEF Paced, Commanded, Slot
<1>4. Provisioned(i)
  BY <1>1 DEF Paced, StaysPut, Provisioned, Unassigned
<1>5. PICK out \in Posting(pending[i], c, NoPending) : Commit(i, btc, out)
  BY <1>3, <1>4 DEF GroupSyncStep
<1>6. i \in Nat /\ (NextSlot(i) = 0 \/ NextSlot(i) = i + 1)
  BY <1>1, GatewayAssumption DEF NextSlot, Slot
<1> HIDE DEF i
<1>7. c \in Item /\ c.kind = "call" /\ c.op = "get" /\ c.node = i
  BY <1>1, CallFacts DEF Paced
<1> HIDE DEF c
<1>8. btc \in Seq(Item) /\ \A x \in Flow : x.node \in Slot /\ (Single(x) => x.node # i)
  <2>1. btc \in Seq(Item) /\ \A x \in Flow : x.node \in Slot
    BY SteadyItems DEF Paced
  <2> QED
    BY <1>3, <1>6, <2>1 DEF Slot
<1>9. pending' = pending /\ btc' = Append(btc, c) /\ faults' = faults
  <2>1. /\ pending'[i] = pending[i] /\ \A j \in Slot \ {i} : pending'[j] = pending[j]
        /\ btc' = Append(btc, c) /\ faults' = faults
    BY <1>1, <1>5, <1>7, <1>8, CommitPosted DEF FlowType
  <2>2. pending' \in [Slot -> Pending] /\ pending \in [Slot -> Pending]
    BY DEF FlowType, TypeInv, TypeOK
  <2> QED
    BY <2>1, <2>2
<1>10. /\ Elems(btc') = Elems(btc) \cup {c} /\ Flow' = Flow \cup {c} /\ Single(c) /\ Want' = Want
  BY <1>1, <1>7, <1>8, <1>9, ElemsAppend DEF Flow, Single, Want
<1>11. StaysPut'
  BY <1>1, PutKept DEF Paced, SameUnicast
<1>12. OneByOne'
  <2>1. Free(i, btc, tx)
    BY <1>8 DEF Free, Flow
  <2> QED
    BY <1>1, <1>7, <1>8, <1>9, <1>10, <2>1, SortedOwn DEF Paced, OneByOne
<1>13. Commanded'
  <2>1. \A x \in Flow' : /\ x.op \in {"get", "set", "group"}
                         /\ IF Single(x) THEN pending[x.node].inFlight ELSE x.kind = "call"
                         /\ (x.op = "set" /\ x.kind \in {"call", "status"}) => x.on = Want[x.node]
    BY <1>2, <1>3, <1>7, <1>10 DEF Paced, Commanded
  <2>2. \A d \in CmdId : syncAt'[d] # 0 => d = b /\ syncAt'[d] = i + 1
    BY <1>1, <1>3, <1>6
  <2>3. \A j \in Slot : i + 1 <= j => i <= j
    BY <1>6 DEF Slot
  <2>4. \A j \in Slot : i <= j => pending[j].inFlight
    BY <1>1, <1>2 DEF Paced, Commanded, i
  <2>5. \A x \in Flow' : Single(x) => x.node < i + 1
    BY <1>3, <1>6, <1>7, <1>8, <1>10 DEF Slot
  <2> QED
    BY <1>1, <1>2, <1>9, <1>10, <2>1, <2>2, <2>3, <2>4, <2>5 DEF Paced, Commanded
<1>14. Reserving'
  <2>1. mqtt.pc # "gtask"
    BY <1>1, <1>2 DEF Paced, Reserving, i
  <2>2. mqtt.pc = "post" => mqtt.at \in Slot /\ mqtt.at < i
    BY <1>1, <1>2 DEF Paced, Reserving, FlowType, TypeInv, MqttOK, i
  <2>3. mqtt.pc = "post" => /\ \A x \in Flow' : Single(x) => x.node # mqtt.at
                            /\ \A d \in CmdId : syncAt'[d] # 0 => mqtt.at < syncAt'[d]
    BY <1>1, <1>2, <1>3, <1>6, <1>7, <1>10, <2>2 DEF Paced, Reserving, Slot
  <2> QED
    BY <1>1, <1>2, <1>9, <2>1, <2>3 DEF Paced, Reserving
<1>15. Recovered'
  BY <1>1, <1>2 DEF Recovered
<1>16. Truthful'
  BY <1>1, <1>2, <1>7, <1>10 DEF Paced, Truthful
<1>17. Agreed'
  BY <1>1, <1>2, <1>7, <1>9, <1>10 DEF Paced, Agreed, ToRecover, Groups
<1> QED
  BY <1>11, <1>12, <1>13, <1>14, <1>15, <1>16, <1>17 DEF Paced

\* The recovery task subscribes a light that nothing is under way for.
LEMMA RecoverStepPaced ==
    ASSUME FlowType, TypeInv', Paced, Orderly', RecoverStep
    PROVE  Paced'
<1> DEFINE i == recoverAt
           c == Call("sub", i, 0)
<1>1. /\ i \in Slot /\ i \in 0..NumNodes /\ i # 0 /\ recoverAt' = NextSlot(i)
      /\ UNCHANGED <<nodes, pending, tx, device, toggle, mqtt, connected, budget, syncAt>>
  <2>1. i \in 0..NumNodes /\ i # 0
    BY DEF RecoverStep, FlowType, TypeInv, TypeOK
  <2>2. i \in Slot
    BY <2>1, GatewayAssumption DEF Slot
  <2> QED
    BY <2>1, <2>2 DEF RecoverStep, RecoverNode, mqttVars
<1>2. budget.restarts # 0 /\ \A x \in Flow : x.node < i /\ x.op \in {"get", "sub"}
  <2>1. budget.restarts # 0
    BY <1>1 DEF Paced, Commanded
  <2> QED
    BY <1>1, <2>1 DEF Paced, Recovered
<1>3. Provisioned(i)
  BY <1>1 DEF Paced, StaysPut, Provisioned, Unassigned
<1>4. btc' = Append(btc, c) /\ faults' = faults
  BY <1>3, OrderlyPosts DEF RecoverStep, RecoverNode, RecoverBy, FlowType
<1>5. i \in Nat /\ (NextSlot(i) = 0 \/ NextSlot(i) = i + 1)
  BY <1>1, GatewayAssumption DEF NextSlot, Slot
<1>6. \A j \in Slot : (i \in 1..j /\ j # i) => NextSlot(i) \in 1..j
  BY <1>1, <1>5, NextSlotReaches DEF Slot
<1> HIDE DEF i
<1>7. c \in Item /\ c.kind = "call" /\ c.op = "sub" /\ c.node = i /\ Single(c)
  BY <1>1, CallFacts DEF Paced, Single
<1> HIDE DEF c
<1>8. btc \in Seq(Item) /\ \A x \in Flow : x.node \in Slot /\ x.node # i
  <2>1. btc \in Seq(Item) /\ \A x \in Flow : x.node \in Slot
    BY SteadyItems DEF Paced
  <2> QED
    BY <1>2, <1>5, <2>1 DEF Slot
<1>9. Elems(btc') = Elems(btc) \cup {c} /\ Flow' = Flow \cup {c} /\ Want' = Want
  BY <1>1, <1>4, <1>7, <1>8, ElemsAppend DEF Flow, Want
<1>10. StaysPut'
  BY <1>1, PutKept DEF Paced, SameUnicast
<1>11. OneByOne'
  <2>1. Free(i, btc, tx)
    BY <1>8 DEF Free, Flow
  <2> QED
    BY <1>1, <1>4, <1>7, <1>8, <1>9, <2>1, SortedOwn DEF Paced, OneByOne
<1>12. Commanded' /\ Reserving' /\ Truthful'
  BY <1>1, <1>2 DEF Commanded, Reserving, Truthful
<1>13. Recovered'
  <2>1. \A x \in Flow' : NextSlot(i) = 0 \/ x.node < NextSlot(i)
    BY <1>2, <1>5, <1>7, <1>8, <1>9 DEF Slot
  <2> QED
    BY <1>1, <1>2, <1>7, <1>9, <2>1 DEF Paced, Recovered
<1>14. Agreed'
  <2> SUFFICES ASSUME faults' = 0 PROVE Agreed'
    BY DEF Agreed
  <2>1. \A x \in Elems(btc') : x.kind \in {"call", "status"} /\ Single(x)
    BY <1>2, <1>4, <1>7, <1>9 DEF Paced, Agreed, Flow, Single
  <2>2. ASSUME NEW j \in Slot, ~ToRecover(j)' PROVE ~ToRecover(j)
    <3>1. j # i /\ \A x \in Flow : x.node # j
      BY <1>1, <1>2, <1>7, <1>9, <2>2 DEF ToRecover
    <3>2. i \notin 1..j
      BY <1>1, <1>2, <1>6, <2>2, <3>1 DEF ToRecover
    <3> QED
      BY <3>1, <3>2 DEF ToRecover, i
  <2>3. mqtt.pc # "gpost"
    BY <1>2 DEF Paced, Recovered
  <2> QED
    BY <1>1, <1>4, <2>1, <2>2, <2>3 DEF Paced, Agreed, Groups
<1> QED
  BY <1>10, <1>11, <1>12, <1>13, <1>14 DEF Paced

-----------------------------------------------------------------------------
(* The client models and the lights *)

\* The client model is never busy: it sends the call, or sending fails.
LEMMA SendUnicastPaced ==
    ASSUME FlowType, TypeInv', Paced, SendUnicast
    PROVE  Paced'
<1> DEFINE h == Head(btc)
           q == Tail(btc)
           v == Event("error", h, 0)
<1>1. btc \in Seq(Item) /\ btc # <<>> /\ h.kind = "call" /\ Single(h)
  BY DEF SendUnicast, Single, FlowType, TypeInv, TypeOK
<1>2. h \in Item /\ q \in Seq(Item) /\ Elems(btc) = {h} \cup Elems(q)
  BY <1>1, HeadTailProperties, ElemsPop
<1>3. /\ Sorted(q, tx, Want) /\ Free(h.node, q, tx) /\ Groups(q, Want[h.node])
  BY <1>1, SortedPop DEF Paced, OneByOne
<1>4. h \in Flow /\ h.node \in Slot /\ (\A t \in tx : Single(t)) /\ \A x \in Flow : x.node \in Slot
  BY <1>2, SteadyItems DEF Paced, Flow
<1>5. ~Busy(h)
  BY <1>3, <1>4 DEF Busy, Free
<1>6. UNCHANGED <<nodes, pending, device, toggle, mqtt, connected, budget, syncAt, recoverAt>>
  BY DEF SendUnicast, gatewayVars, mqttVars, taskVars
<1>7. \/ tx' = tx \cup {h} /\ btc' = q /\ faults' = faults
      \/ btc' = Append(q, v) /\ tx' = tx /\ faults' = faults + 1
  BY <1>5 DEF SendUnicast
<1>8. Want' = Want
  BY <1>6 DEF Want
<1>9. StaysPut'
  BY <1>6, PutKept DEF Paced, SameUnicast
<1>10. CASE tx' = tx \cup {h} /\ btc' = q /\ faults' = faults
  <2> HIDE DEF h, q, v
  <2>1. Flow' = Flow /\ Elems(btc') \subseteq Elems(btc)
    BY <1>2, <1>10 DEF Flow
  <2>2. OneByOne'
    BY <1>1, <1>3, <1>4, <1>8, <1>10, SortedSend DEF OneByOne
  <2>3. Commanded' /\ Reserving' /\ Recovered' /\ Truthful'
    BY <1>6, <1>8, <2>1 DEF Paced, Commanded, Reserving, Recovered, Truthful
  <2>4. Agreed'
    BY <1>6, <1>10, <2>1 DEF Paced, Agreed, ToRecover, Groups
  <2> QED
    BY <1>9, <2>2, <2>3, <2>4 DEF Paced
<1>11. CASE btc' = Append(q, v) /\ tx' = tx /\ faults' = faults + 1
  <2>1. v \in Item
    BY <1>2, EventType, Zeros DEF Kinds
  <2>2. v.kind = "error" /\ v.op = h.op /\ v.node = h.node /\ Single(v)
    BY <1>1 DEF Event, Single
  <2> HIDE DEF h, q, v
  <2>3. Elems(btc') = Elems(q) \cup {v}
    BY <1>2, <1>11, <2>1, ElemsAppend
  <2>4. OneByOne'
    BY <1>2, <1>3, <1>8, <1>11, <2>1, <2>2, SortedOwn DEF OneByOne
  <2>5. \A x \in Flow' : x \in Flow \/ x = v
    BY <1>2, <1>11, <2>3 DEF Flow
  <2>6. Commanded'
    BY <1>1, <1>4, <1>6, <1>8, <2>2, <2>5 DEF Paced, Commanded, Single
  <2>7. Reserving'
    BY <1>1, <1>4, <1>6, <2>2, <2>5 DEF Paced, Reserving
  <2>8. Recovered'
    BY <1>4, <1>6, <2>2, <2>5 DEF Paced, Recovered
  <2>9. Truthful'
    BY <1>2, <1>6, <1>8, <2>2, <2>3 DEF Paced, Truthful
  <2>10. Agreed'
    <3>1. faults' # 0
      BY <1>11, Numbers DEF FlowType, TypeInv
    <3> QED
      BY <3>1 DEF Agreed
  <2> QED
    BY <1>9, <2>4, <2>6, <2>7, <2>8, <2>9, <2>10 DEF Paced
<1> QED
  BY <1>7, <1>10, <1>11

\* The group SET takes no light away from what its command, or the table, has it at.
LEMMA SendGroupPaced ==
    ASSUME FlowType, TypeInv', Paced, SendGroup
    PROVE  Paced'
<1> DEFINE h == Head(btc)
           q == Tail(btc)
<1>1. btc \in Seq(Item) /\ btc # <<>> /\ ~Single(h) /\ h.op = "group" /\ btc' = q
  BY DEF SendGroup, Single, FlowType, TypeInv, TypeOK
<1>2. Elems(btc) = {h} \cup Elems(q) /\ Sorted(q, tx, Want)
  BY <1>1, ElemsPop, SortedPop DEF Paced, OneByOne
<1>3. UNCHANGED <<nodes, pending, tx, toggle, mqtt, connected, budget, syncAt, recoverAt>>
  BY DEF SendGroup, gatewayVars, mqttVars, taskVars
<1>4. \A i \in Slot : /\ device'[i].addr = device[i].addr /\ (device[i].bound => device'[i].bound)
                      /\ device[i].subscribed => device'[i].subscribed
                      /\ device'[i].light \in {device[i].light, h.on}
  <2>1. PICK S \in SUBSET GroupMembers :
          device' = [i \in Slot |-> IF i \in S THEN [device[i] EXCEPT !.light = h.on] ELSE device[i]]
    BY DEF SendGroup
  <2>2. \A i \in Slot : device[i] \in Device
    BY DEF FlowType, TypeInv, TypeOK
  <2> QED
    BY <2>1, <2>2 DEF Device
<1>5. faults' = 0 => faults = 0
  <2>1. faults' = faults \/ faults' = faults + 1
    BY DEF SendGroup
  <2> QED
    BY <2>1, Numbers DEF FlowType, TypeInv
<1> HIDE DEF h, q
<1>6. h \in Elems(btc) /\ budget.restarts = 0 /\ Want' = Want
  BY <1>1, <1>2, <1>3 DEF Paced, Recovered, Flow, Want
<1>7. Elems(btc') \subseteq Elems(btc) /\ Flow' \subseteq Flow
  BY <1>1, <1>2, <1>3 DEF Flow
<1>8. StaysPut'
  BY <1>3, <1>4, PutKept DEF Paced, SameUnicast
<1>9. OneByOne'
  BY <1>1, <1>2, <1>3, <1>6 DEF OneByOne
<1>10. Commanded' /\ Reserving' /\ Recovered'
  BY <1>3, <1>6, <1>7 DEF Paced, Commanded, Reserving, Recovered
<1>11. Truthful'
  <2> SUFFICES ASSUME NEW x \in Elems(btc'), x.kind = "status", Single(x), x.on = Want[x.node]
               PROVE  device'[x.node].light = x.on
    BY <1>6 DEF Truthful
  <2>1. x \in Elems(btc) /\ x.node \in Slot
    BY <1>7, SteadyItems DEF Paced
  <2>2. device[x.node].light = x.on
    BY <1>6, <2>1 DEF Paced, Truthful
  <2>3. h.on = Want[x.node]
    BY <1>1, <1>6, <2>1 DEF Paced, OneByOne, Sorted
  <2> QED
    BY <1>4, <2>1, <2>2, <2>3
<1>12. Agreed'
  <2> SUFFICES ASSUME faults' = 0 PROVE Agreed'
    BY DEF Agreed
  <2>1. \A x \in Elems(btc') : x.kind \in {"call", "status"}
    BY <1>5, <1>7 DEF Paced, Agreed
  <2>2. ASSUME NEW j \in Slot, ~pending[j].inFlight
        PROVE  /\ nodes[j].onoff = device'[j].light /\ Groups(btc', device'[j].light)
               /\ mqtt.pc = "gpost" => mqtt.on = device'[j].light
    <3>1. /\ nodes[j].onoff = device[j].light /\ Groups(btc, device[j].light)
          /\ mqtt.pc = "gpost" => mqtt.on = device[j].light
      BY <1>5, <1>6, <2>2 DEF Paced, Agreed, ToRecover
    <3>2. device'[j].light = device[j].light
      BY <1>1, <1>4, <1>6, <3>1 DEF Groups
    <3> QED
      BY <1>7, <3>1, <3>2 DEF Groups
  <2> QED
    BY <1>3, <2>1, <2>2 DEF Agreed
<1> QED
  BY <1>8, <1>9, <1>10, <1>11, <1>12 DEF Paced

\* A request that ends is followed by its event, which is all there is for its light.
LEMMA ReplyPaced ==
    ASSUME FlowType, TypeInv', Paced, NEW r \in tx, NEW k \in Kinds \ {"prov", "call"}, NEW v \in 0..1,
           tx' = tx \ {r}, btc' = Append(btc, Event(k, r, v)),
           UNCHANGED <<gatewayVars, mqttVars, taskVars>>,
           \/ k = "status" /\ Obey(r) /\ v = device'[r.node].light /\ faults' = faults
           \/ k # "status" /\ faults' = faults + 1 /\ (device' = device \/ Obey(r))
    PROVE  Paced'
<1> DEFINE e == Event(k, r, v)
           i == r.node
<1>1. /\ r \in Item /\ r \in Flow /\ i \in Slot /\ Single(r) /\ r.kind = "call"
      /\ btc \in Seq(Item) /\ \A x \in Flow : x.node \in Slot
  BY SteadyItems DEF Paced
<1>2. e \in Item /\ e.kind = k /\ e.op = r.op /\ e.node = i /\ e.on = v /\ Single(e)
  BY <1>1, EventType DEF Event, Single
<1>3. btc' = Append(btc, e)
  OBVIOUS
<1> HIDE DEF e
<1>4. Sorted(btc, tx', Want) /\ Free(i, btc, tx') /\ Groups(btc, Want[i])
  BY <1>1, SortedTake DEF Paced, OneByOne
<1>5. /\ UNCHANGED <<nodes, pending, toggle, mqtt, connected, budget, syncAt, recoverAt>>
      /\ Want' = Want
  BY DEF gatewayVars, mqttVars, taskVars, Want
<1>6. Elems(btc') = Elems(btc) \cup {e} /\ Flow' = (Elems(btc) \cup tx') \cup {e}
  BY <1>1, <1>2, <1>3, ElemsAppend DEF Flow
<1>7. \A x \in Flow' : x = e \/ (x \in Flow /\ (Single(x) => x.node # i))
  BY <1>4, <1>6 DEF Flow, Free
<1>8. /\ \A j \in Slot : /\ device'[j].addr = device[j].addr
                         /\ device[j].bound => device'[j].bound
                         /\ device[j].subscribed => device'[j].subscribed
      /\ \A j \in Slot \ {i} : device'[j] = device[j]
  BY <1>1, ObeyParts DEF FlowType
<1>9. (k = "status" /\ r.op = "set") => v = r.on
  BY <1>1 DEF Obey, FlowType, TypeInv, TypeOK, Device
<1>10. faults' = 0 => faults = 0 /\ k = "status"
  BY Numbers DEF FlowType, TypeInv
<1>11. k = "status" => device'[i].light = v
  OBVIOUS
<1> HIDE DEF i
<1>12. StaysPut'
  <2>1. StaysPut /\ SameUnicast /\ toggle' = toggle /\ connected' = connected /\ budget' = budget
    BY <1>5 DEF Paced, SameUnicast
  <2> QED
    BY <1>8, <2>1, PutKept
<1>13. OneByOne'
  BY <1>1, <1>2, <1>3, <1>4, <1>5, SortedOwn DEF OneByOne
<1>14. Commanded'
  <2> SUFFICES ASSUME budget.restarts = 0 PROVE Commanded'
    BY <1>5 DEF Commanded
  <2>1. /\ r.op \in {"get", "set"} /\ pending[i].inFlight /\ (r.op = "set" => r.on = Want[i])
        /\ \A c \in CmdId : syncAt[c] # 0 => i < syncAt[c]
    BY <1>1 DEF Paced, Commanded, Single, i
  <2>2. \A x \in Flow' : /\ x.op \in {"get", "set", "group"}
                         /\ IF Single(x) THEN pending[x.node].inFlight ELSE x.kind = "call"
                         /\ (x.op = "set" /\ x.kind \in {"call", "status"}) => x.on = Want[x.node]
    BY <1>2, <1>7, <1>9, <2>1 DEF Paced, Commanded
  <2>3. \A c \in CmdId, x \in Flow' : (syncAt[c] # 0 /\ Single(x)) => x.node < syncAt[c]
    BY <1>2, <1>7, <2>1 DEF Paced, Commanded
  <2> QED
    BY <1>5, <2>2, <2>3 DEF Paced, Commanded
<1>15. Reserving'
  <2>1. budget.restarts = 0 => mqtt.pc # "gtask" /\ (mqtt.pc = "post" => mqtt.at # i)
    BY <1>1 DEF Paced, Reserving, i
  <2> QED
    BY <1>2, <1>5, <1>7, <2>1 DEF Paced, Reserving
<1>16. Recovered'
  <2> SUFFICES ASSUME budget.restarts # 0 PROVE Recovered'
    BY <1>5 DEF Recovered
  <2>1. r.op \in {"get", "sub"} /\ (recoverAt = 0 \/ i < recoverAt)
    BY <1>1 DEF Paced, Recovered, i
  <2>2. ASSUME NEW x \in Flow'
        PROVE  /\ x.op \in {"get", "sub"}
               /\ recoverAt = 0 \/ x.node < recoverAt
               /\ (x.op = "get" /\ x.kind = "status") => device'[x.node].light = x.on
    <3>1. CASE x = e
      BY <1>2, <1>11, <2>1, <3>1
    <3>2. CASE x # e
      BY <1>1, <1>7, <1>8, <2>2, <3>2 DEF Paced, Recovered, Single
    <3> QED
      BY <3>1, <3>2
  <2> QED
    BY <1>5, <2>2 DEF Paced, Recovered
<1>17. Truthful'
  <2> SUFFICES ASSUME budget.restarts = 0, NEW x \in Elems(btc'),
                      x.kind = "status", Single(x), x.on = Want[x.node]
               PROVE  device'[x.node].light = x.on
    BY <1>5 DEF Truthful
  <2>1. CASE x = e
    BY <1>2, <1>11, <2>1
  <2>2. CASE x # e
    <3>1. x \in Elems(btc) /\ x \in Flow' /\ x \in Flow
      BY <1>6, <2>2 DEF Flow
    <3>2. x.node \in Slot \ {i}
      BY <1>1, <1>7, <2>2, <3>1
    <3> QED
      BY <1>8, <3>1, <3>2 DEF Paced, Truthful
  <2> QED
    BY <2>1, <2>2
<1>18. Agreed'
  <2> SUFFICES ASSUME faults' = 0 PROVE Agreed'
    BY DEF Agreed
  <2>1. \A x \in Elems(btc') : x.kind \in {"call", "status"}
    BY <1>2, <1>6, <1>10 DEF Paced, Agreed
  <2>2. ASSUME NEW j \in Slot, ~pending[j].inFlight, ~ToRecover(j)'
        PROVE  j # i /\ ~ToRecover(j)
    <3>1. CASE budget.restarts = 0
      BY <1>1, <2>2, <3>1 DEF Paced, Commanded, ToRecover, i
    <3>2. CASE budget.restarts # 0
      <4>1. \A x \in Flow' : x.node # j
        BY <1>5, <2>2, <3>2 DEF ToRecover
      <4>2. j # i
        BY <1>2, <1>6, <4>1
      <4>3. \A x \in Flow : x = r \/ x \in Flow'
        BY <1>6 DEF Flow
      <4> QED
        BY <1>5, <2>2, <4>1, <4>2, <4>3 DEF ToRecover, i
    <3> QED
      BY <3>1, <3>2
  <2>3. \A on : Groups(btc, on) => Groups(btc', on)
    BY <1>2, <1>6 DEF Groups
  <2> QED
    BY <1>5, <1>8, <1>10, <2>1, <2>2, <2>3 DEF Paced, Agreed
<1> QED
  BY <1>12, <1>13, <1>14, <1>15, <1>16, <1>17, <1>18 DEF Paced

\* An answer, a refusal and a loss: every light hears what it is sent.
LEMMA RequestEndsPaced ==
    ASSUME FlowType, TypeInv', Paced, NEW r \in tx, Answer(r) \/ Refuse(r) \/ TimeOut(r)
    PROVE  Paced'
<1>1. r.node \in Slot /\ Hears(r)
  BY SteadyItems DEF Paced, StaysPut, Hears
<1>2. CASE Answer(r)
  <2>1. device'[r.node].light \in 0..1
    BY <1>1 DEF TypeInv, TypeOK, Device
  <2> QED
    BY <1>2, <2>1, ReplyPaced DEF Answer, Kinds
<1>3. CASE Refuse(r)
  BY <1>3, ReplyPaced, Zeros DEF Refuse, Kinds
<1>4. CASE TimeOut(r)
  BY <1>1, <1>4, ReplyPaced, Zeros DEF TimeOut, Kinds
<1> QED
  BY <1>2, <1>3, <1>4

-----------------------------------------------------------------------------
(* Every step *)

\* A restart forgets all commands, and recovers all lights.
LEMMA RestartPaced ==
    ASSUME FlowType, TypeInv', Paced, Restart
    PROVE  Paced'
<1>1. /\ btc' = <<>> /\ tx' = {} /\ UNCHANGED <<nodes, device>> /\ toggle' = <<0, 0>>
      /\ mqtt'.pc = "idle" /\ connected' = FALSE /\ recoverAt' = 1
      /\ \A c \in CmdId : syncAt'[c] = 0
      /\ \A i \in Slot : ~pending'[i].inFlight
  BY NothingPending DEF Restart, Idle
<1>2. Elems(btc') = {} /\ Flow' = {} /\ Len(btc') = 0
  BY <1>1, ElemsOfNone DEF Flow
<1>3. budget'.restarts # 0
  <2>1. budget \in Budget /\ budget' = [budget EXCEPT !.restarts = @ + 1]
    BY DEF Restart, FlowType, TypeInv, TypeOK
  <2>2. budget.restarts \in 0..MaxRestarts /\ budget'.restarts = budget.restarts + 1
    BY <2>1 DEF Budget
  <2> QED
    BY <2>2, GatewayAssumption
<1>4. StaysPut'
  BY <1>1 DEF Paced, StaysPut
<1>5. OneByOne'
  BY <1>1, <1>2 DEF OneByOne, Sorted, Arranged
<1>6. Commanded' /\ Reserving' /\ Truthful'
  BY <1>3 DEF Commanded, Reserving, Truthful
<1>7. Recovered'
  BY <1>1, <1>2 DEF Recovered
<1>8. Agreed'
  <2>1. \A i \in Slot : 1 \in 1..i
    BY GatewayAssumption DEF Slot
  <2> QED
    BY <1>1, <1>2, <1>3, <2>1 DEF Agreed, ToRecover
<1> QED
  BY <1>4, <1>5, <1>6, <1>7, <1>8 DEF Paced

\* Nothing happens.
LEMMA StutterPaced == ASSUME Paced, UNCHANGED vars PROVE Paced'
<1>1. UNCHANGED <<nodes, pending, toggle, btc, tx, device, mqtt, connected, budget, syncAt,
                  recoverAt, faults>>
  BY DEF vars, gatewayVars, mqttVars, taskVars
<1>2. Flow' = Flow /\ Want' = Want
  BY <1>1 DEF Flow, Want
<1>3. StaysPut' /\ OneByOne' /\ Truthful'
  BY <1>1, <1>2 DEF Paced, StaysPut, OneByOne, Truthful
<1>4. Commanded' /\ Reserving' /\ Recovered'
  BY <1>1, <1>2 DEF Paced, Commanded, Reserving, Recovered
<1>5. Agreed'
  BY <1>1, <1>2 DEF Paced, Agreed, ToRecover
<1> QED
  BY <1>3, <1>4, <1>5 DEF Paced

\* No device joins, and the broker does not connect again.
LEMMA NoLightJoins ==
    ASSUME FlowType, Steady, Paced
    PROVE  /\ ~Connect /\ ~SyncNode /\ ~ProvComplete /\ \A i \in Slot : ~Provision(i)
<1>1. ~Connect
  BY DEF Connect, Steady, FlowType, TypeInv, TypeOK, Budget
<1>2. ~SyncNode
  <2>1. mqtt.pc # "sync"
    BY DEF Paced, Reserving, Recovered
  <2> QED
    BY <2>1 DEF SyncNode
<1>3. ~ProvComplete
  <2> SUFFICES ASSUME ProvComplete PROVE FALSE
    OBVIOUS
  <2>1. btc # <<>> /\ Head(btc).kind = "prov" /\ btc \in Seq(Item)
    BY DEF ProvComplete, Arrives, FlowType, TypeInv, TypeOK
  <2>2. Head(btc) \in Flow
    BY <2>1, ElemsPop DEF Flow
  <2> QED
    BY <2>1, <2>2, SteadyItems DEF Paced
<1>4. \A i \in Slot : ~Provision(i)
  BY DEF Provision, Steady, Paced, StaysPut
<1> QED
  BY <1>1, <1>2, <1>3, <1>4

\* Every step keeps one thing at a time.
LEMMA NextPaced ==
    ASSUME FlowType, TypeInv', Steady, Orderly', Paced, [Next]_vars
    PROVE  Paced'
<1>1. CASE \/ \E i \in Slot, on \in 0..1 : ReceiveCommand(i, on)
           \/ \E on \in 0..1 : ReceiveGroup(on)
           \/ Disconnect
  BY <1>1, ReceivePaced
<1>2. CASE MqttTask \/ Connect
  BY <1>2, NoLightJoins, MarkPendingPaced, PostCommandPaced, MarkGroupPaced, StartGroupSyncPaced,
     PostGroupPaced DEF MqttTask
<1>3. CASE (\E c \in CmdId : GroupSyncStep(c)) \/ RecoverStep \/ Restart
  BY <1>3, GroupSyncStepPaced, RecoverStepPaced, RestartPaced
<1>4. CASE BtcTask
  BY <1>4, NoLightJoins, SendUnicastPaced, SendGroupPaced, IgnoreEventPaced, OnOffErrorPaced,
     ConfigStatusPaced, ConfigTimeoutPaced, GetStatusPaced, SetStatusPaced, GetTimeoutPaced,
     SetTimeoutPaced DEF BtcTask, Callback
<1>5. CASE \E r \in tx : Answer(r) \/ Refuse(r) \/ TimeOut(r)
  BY <1>5, RequestEndsPaced
<1>6. CASE \E i \in Slot : Provision(i)
  BY <1>6, NoLightJoins
<1>7. CASE UNCHANGED vars
  BY <1>7, StutterPaced
<1> QED
  BY <1>1, <1>2, <1>3, <1>4, <1>5, <1>6, <1>7 DEF Next

\* The gateway starts with nothing under way.
LEMMA InitPaced == ASSUME Init, Steady PROVE Paced
<1>1. GatewayInit /\ device = Lights
  BY DEF Init
<1>2. /\ btc = <<>> /\ tx = {} /\ toggle = <<0, 0>> /\ mqtt.pc = "idle" /\ budget.restarts = 0
      /\ recoverAt = 0 /\ \A c \in CmdId : syncAt[c] = 0
  BY <1>1 DEF GatewayInit, Steady, Idle
<1>3. Elems(btc) = {} /\ Flow = {} /\ Len(btc) = 0
  BY <1>2, ElemsOfNone DEF Flow
<1>4. \A i \in Slot : /\ nodes[i].unicast = 1 /\ nodes[i].onoff = 0 /\ device[i].addr = 1
                      /\ device[i].bound /\ device[i].subscribed /\ device[i].light = 0
  BY <1>1 DEF GatewayInit, Lights, Steady
<1>5. StaysPut
  BY <1>2, <1>4 DEF StaysPut
<1>6. OneByOne
  BY <1>2, <1>3 DEF OneByOne, Sorted, Arranged
<1>7. Commanded /\ Reserving /\ Recovered /\ Truthful
  BY <1>2, <1>3 DEF Commanded, Reserving, Recovered, Truthful
<1>8. Agreed
  BY <1>2, <1>3, <1>4 DEF Agreed, Groups
<1> QED
  BY <1>5, <1>6, <1>7, <1>8 DEF Paced

\* What an outcome counts as failed is a number.
LEMMA FailedCounts ==
    ASSUME NEW p, NEW out
    PROVE  /\ out \in Keep(p) => out.failed \in Nat
           /\ \A call, fallback : out \in Posting(p, call, fallback) => out.failed \in Nat
<1>1. ASSUME out \in Keep(p) PROVE out.failed \in Nat
  BY <1>1, OutcomeParts DEF Keep
<1>2. ASSUME NEW call, NEW fallback, out \in Posting(p, call, fallback) PROVE out.failed \in Nat
  <2>1. out = Outcome(p, <<call>>, 0) \/ out = Outcome(fallback, <<>>, 1)
    BY <1>2 DEF Posting
  <2> QED
    BY <2>1, OutcomeParts
<1> QED
  BY <1>1, <1>2

\* Failures are never forgotten: no step takes their number down.
LEMMA FaultsGrow ==
    ASSUME TypeInv, [Next]_vars
    PROVE  faults' = 0 => faults = 0
<1>1. faults \in Nat
  BY Numbers DEF TypeInv
<1>2. SUFFICES \E n \in Nat : faults' = faults + n
  BY <1>1
<1>3. 0 \in Nat /\ 1 \in Nat /\ faults = faults + 0
  BY <1>1
<1>4. CASE \/ \E i \in Slot, on \in 0..1 : ReceiveCommand(i, on)
           \/ \E on \in 0..1 : ReceiveGroup(on)
           \/ Connect \/ Disconnect \/ Restart \/ \E i \in Slot : Provision(i)
  BY <1>3, <1>4 DEF ReceiveCommand, ReceiveGroup, DispatchCommand, DispatchGroup, Connect, Disconnect,
                    Restart, Provision
<1>5. CASE MqttTask
  <2>1. CASE MarkPending \/ MarkGroup
    BY <1>3, <2>1 DEF MarkPending, MarkGroup
  <2>2. CASE PostCommand
    BY <2>2, FailedCounts DEF PostCommand, Commit
  <2>3. CASE StartGroupSync \/ PostGroup
    BY <1>3, <2>3 DEF StartGroupSync, PostGroup
  <2>4. CASE SyncNode
    BY <1>3, <2>4 DEF SyncNode, PostOrLog
  <2> QED
    BY <1>5, <2>1, <2>2, <2>3, <2>4 DEF MqttTask
<1>6. CASE (\E c \in CmdId : GroupSyncStep(c)) \/ RecoverStep
  <2>1. ASSUME NEW c \in CmdId, GroupSyncStep(c) PROVE \E n \in Nat : faults' = faults + n
    BY <1>3, <2>1, FailedCounts DEF GroupSyncStep, Commit
  <2>2. CASE RecoverStep
    BY <1>3, <2>2 DEF RecoverStep, RecoverNode
  <2> QED
    BY <1>6, <2>1, <2>2
<1>7. CASE SendUnicast \/ SendGroup
  BY <1>3, <1>7 DEF SendUnicast, SendGroup
<1>8. CASE \E r \in tx : Answer(r) \/ Refuse(r) \/ TimeOut(r)
  BY <1>3, <1>8 DEF Answer, Refuse, TimeOut
<1>9. CASE Callback
  <2>1. CASE IgnoreEvent \/ OnOffError
    BY <1>3, <2>1 DEF IgnoreEvent, OnOffError
  <2>2. CASE ProvComplete \/ ConfigStatus
    BY <1>3, <2>2 DEF ProvComplete, ConfigStatus, PostOrLog
  <2>3. CASE ConfigTimeout
    BY <1>3, <2>3 DEF ConfigTimeout, PostOrLog
  <2>4. CASE GetStatus
    <3> DEFINE e == Head(btc)
    <3>0. PICK out \in AfterGet(e.node, e.on) :
            \E last \in (IF toggle = <<e.node, e.addr>> THEN SendOnOff(e.node, out.p, 1 - e.on, NoMsg)
                         ELSE Keep(out.p)) :
              Commit(e.node, Tail(btc),
                     Outcome(last.p, out.posts \o last.posts, out.failed + last.failed))
      BY <2>4 DEF GetStatus
    <3>1. PICK last \in (IF toggle = <<e.node, e.addr>> THEN SendOnOff(e.node, out.p, 1 - e.on, NoMsg)
                         ELSE Keep(out.p)) :
            Commit(e.node, Tail(btc),
                   Outcome(last.p, out.posts \o last.posts, out.failed + last.failed))
      BY <3>0
    <3>2. out.failed \in Nat
      BY FailedCounts DEF AfterGet, RequestOnOff
    <3>3. last.failed \in Nat
      BY FailedCounts DEF SendOnOff, RequestOnOff
    <3>4. faults' = faults + (out.failed + last.failed)
      BY <3>1, OutcomeParts DEF Commit
    <3> QED
      BY <3>2, <3>3, <3>4
  <2>5. CASE SetStatus
    BY <2>5, FailedCounts DEF SetStatus, Commit, Retry, RequestOnOff
  <2>6. CASE GetTimeout
    BY <1>3, <2>6, FailedCounts DEF GetTimeout, Commit, PostOrLog
  <2>7. CASE SetTimeout
    BY <2>7, FailedCounts DEF SetTimeout, Commit, Retry, RequestOnOff
  <2> QED
    BY <1>9, <2>1, <2>2, <2>3, <2>4, <2>5, <2>6, <2>7 DEF Callback
<1>10. CASE UNCHANGED vars
  BY <1>3, <1>10 DEF vars
<1> QED
  BY <1>4, <1>5, <1>6, <1>7, <1>8, <1>9, <1>10 DEF Next, BtcTask

-----------------------------------------------------------------------------
(* What the order gives: true acknowledgements, and a true table *)

\* SteadyInv is an invariant: a state that is orderly comes from one that was, since failures
\* are never forgotten, and then one thing at a time was under way before the step and after it.
LEMMA SteadyAlways == Spec => []SteadyInv
<1>1. Init => FlowType /\ SteadyInv
  BY InitStored, InitType, InitFlow, InitPaced DEF FlowType, SteadyInv
<1>2. FlowType /\ SteadyInv /\ [Next]_vars => FlowType' /\ SteadyInv'
  <2> SUFFICES ASSUME FlowType, SteadyInv, [Next]_vars
               PROVE  FlowType' /\ SteadyInv'
    OBVIOUS
  <2>1. TypeInv' /\ FlowType'
    BY NextType, NextFlow DEF FlowType
  <2>2. Orderly' => Orderly
    BY FaultsGrow DEF Orderly, FlowType
  <2> QED
    BY <2>1, <2>2, NextPaced DEF SteadyInv
<1> QED
  BY <1>1, <1>2, PTL DEF Spec

\* Without failures the table agrees with the lights once all work is done, for configured
\* lights and one connection, whatever the commands, their interleaving and the restarts.
THEOREM GatewayConverged == ASSUME Steady PROVE Spec => []Converged
<1>1. FlowType /\ SteadyInv => Converged
  <2> SUFFICES ASSUME FlowType, SteadyInv, Quiescent, faults = 0, NEW i \in Slot
               PROVE  nodes[i].onoff = device[i].light
    BY DEF Converged
  <2>1. Paced
    BY DEF SteadyInv, Orderly
  <2>2. ~pending[i].inFlight
    <3>1. ~Carrier(i)
      BY NothingUnderWay DEF Quiescent, Carrier, Flow, Elems
    <3> QED
      BY <2>1, <3>1 DEF FlowType, FlowInv, NoOrphan, Paced, StaysPut
  <2>3. ~ToRecover(i)
    BY NothingUnderWay DEF ToRecover
  <2> QED
    BY <2>1, <2>2, <2>3 DEF Paced, Agreed
<1> QED
  BY <1>1, FlowAlways, SteadyAlways, PTL

\* An acknowledgement is published only for a light whose status ends its command.
LEMMA AckedByStatus ==
    ASSUME TypeInv, NEW i \in Slot, NEW on, PublishAck(i, Reached(i, on)),
           NEW c \in CmdId, NEW j \in Slot, acks'[c][j] # acks[c][j]
    PROVE  j = i /\ connected /\ pending[j].desired = on
<1>1. acks \in [CmdId -> [Slot -> Nat]] 
  BY DEF TypeInv, TypeOK
<1>2. /\ Reached(i, on) /\ connected
      /\ acks' = [acks EXCEPT ![pending[i].mid][i] = @ + 1]
  BY DEF PublishAck
<1>3. j = i
  BY <1>1, <1>2
<1> QED
  BY <1>2, <1>3 DEF Reached

\* Every step that publishes an acknowledgement is the callback of a status of its light.
LEMMA AckByCallback ==
    ASSUME TypeInv, [Next]_vars, NEW c \in CmdId, NEW j \in Slot, acks'[c][j] # acks[c][j]
    PROVE  /\ Arrives("status", {"get", "set"}) /\ Head(btc).node = j
           /\ connected /\ pending[j].desired = Head(btc).on
<1>1. acks' # acks
  OBVIOUS
<1>2. GetStatus \/ SetStatus
  <2>1. ~UNCHANGED vars /\ ~UNCHANGED mqttVars
    BY <1>1 DEF vars, mqttVars
  <2>2. ~\E i \in Slot, on \in 0..1 : ReceiveCommand(i, on)
    BY <1>1 DEF ReceiveCommand, DispatchCommand
  <2>3. (~\E on \in 0..1 : ReceiveGroup(on)) /\ ~Connect /\ ~Disconnect /\ ~Restart
    BY <1>1 DEF ReceiveGroup, DispatchGroup, Connect, Disconnect, Restart
  <2>4. ~MqttTask
    BY <1>1 DEF MqttTask, MarkPending, PostCommand, MarkGroup, StartGroupSync, PostGroup, SyncNode
  <2>5. (~\E d \in CmdId : GroupSyncStep(d)) /\ ~RecoverStep
    BY <2>1 DEF GroupSyncStep, RecoverStep, RecoverNode
  <2>6. (~\E r \in tx : Answer(r) \/ Refuse(r) \/ TimeOut(r)) /\ ~\E i \in Slot : Provision(i)
    BY <2>1 DEF Answer, Refuse, TimeOut, Provision
  <2>7. ~SendUnicast /\ ~SendGroup /\ ~ProvComplete /\ ~IgnoreEvent /\ ~OnOffError
    BY <2>1 DEF SendUnicast, SendGroup, ProvComplete, IgnoreEvent, OnOffError
  <2>8. ~ConfigStatus /\ ~ConfigTimeout /\ ~GetTimeout /\ ~SetTimeout
    BY <2>1 DEF ConfigStatus, ConfigTimeout, GetTimeout, SetTimeout
  <2> QED
    BY <2>1, <2>2, <2>3, <2>4, <2>5, <2>6, <2>7, <2>8 DEF Next, BtcTask, Callback
<1>3. /\ Arrives("status", {"get", "set"})
      /\ PublishAck(Head(btc).node, Reached(Head(btc).node, Head(btc).on))
  BY <1>2 DEF GetStatus, SetStatus, Arrives
<1>4. Head(btc).node \in Slot
  BY <1>3, ArrivesType DEF TypeInv
<1> QED
  BY <1>3, <1>4, AckedByStatus

\* An acknowledgement is true when it is published, for configured lights and one connection,
\* unless posting a group SET fails: whatever else is lost, refused or not posted, and however
\* the commands, the tasks and the callbacks interleave.
THEOREM GatewayAckTruthful ==
    ASSUME Steady, "post" \notin Faults
    PROVE  Spec => AckTruthful
<1>1. FlowType /\ SteadyInv /\ [Next]_vars =>
        [\A c \in CmdId, i \in Slot :
            (acks'[c][i] > acks[c][i] /\ device[i].addr = nodes[i].unicast)
                => device[i].light = pending[i].desired]_vars
  <2> SUFFICES ASSUME FlowType, SteadyInv, [Next]_vars,
                      NEW c \in CmdId, NEW i \in Slot, acks'[c][i] > acks[c][i]
               PROVE  device[i].light = pending[i].desired
    OBVIOUS
  <2>1. Paced
    BY DEF SteadyInv, Orderly
  <2>2. /\ Arrives("status", {"get", "set"}) /\ Head(btc).node = i
        /\ connected /\ pending[i].desired = Head(btc).on
    <3>1. TypeInv
      BY DEF FlowType
    <3>2. acks'[c][i] # acks[c][i]
      BY <3>1 DEF TypeInv, TypeOK
    <3> QED
      BY <3>1, <3>2, AckByCallback
  <2>3. Head(btc) \in Elems(btc) /\ Single(Head(btc)) /\ Head(btc).kind = "status"
    BY <2>2, ElemsPop DEF Arrives, Single, FlowType, TypeInv, TypeOK
  <2>4. budget.restarts = 0
    BY <2>1, <2>2 DEF Paced, StaysPut
  <2> QED
    BY <2>1, <2>2, <2>3, <2>4 DEF Paced, Truthful, Want
<1> QED
  BY <1>1, FlowAlways, SteadyAlways, PTL DEF Spec, AckTruthful
=============================================================================
