------------------------ MODULE GatewayWindowProofs ------------------------
(***************************************************************************)
(* Proofs about the gateway with its Wi-Fi side, for any number of lights, *)
(* retries, commands, outages, failures and restarts: the window, in which *)
(* requests are not heard, and the two recoveries, which walk the table at *)
(* the same time, leave the state well typed, orphan no command and break  *)
(* nothing the ledger of commands promises.                                *)
(***************************************************************************)
EXTENDS GatewayWindow, MeshGatewayProofs

-----------------------------------------------------------------------------
(* What the steps of the composition do to the gateway *)

others == <<gatewayVars, btc, tx, device, mqtt, acks, budget, taskVars>>

\* The Wi-Fi task, which may fail, and the Wi-Fi events
OnlyFaults == /\ UNCHANGED <<others, connected>>
              /\ faults' = faults \/ (faults < MaxFaults /\ faults' = faults + 1)
OnlyFlag == connected' = FALSE /\ UNCHANGED <<others, faults>>

\* A light obeys unheard; a request is given up in the window.
OnlyLight(r) == Hears(r) /\ Obey(r) /\ UNCHANGED <<gatewayVars, btc, tx, mqttVars, taskVars, faults>>
OnlyTimeout(r) ==
    /\ tx' = tx \ {r} /\ btc' = Append(btc, Event("timeout", r, 0))
    /\ UNCHANGED <<gatewayVars, device, mqttVars, taskVars, faults>>

\* The steps the gateway takes by itself; nobody joins here.
Alone == \/ MqttTask \/ BtcTask \/ RecoverStep \/ Connect \/ Restart
         \/ \E r \in tx : Answer(r)
         \/ UNCHANGED vars

\* All steps of the composition, as the gateway sees them.
Seen == \/ Alone
        \/ OnlyFaults \/ OnlyFlag
        \/ \E i \in Slot, on \in 0..1 : DispatchCommand(i, on)
        \/ \E r \in tx : OnlyLight(r) \/ OnlyTimeout(r)
        \/ \E i \in Slot : RecoverNode(i) /\ recoverAt' = recoverAt

\* A step the gateway takes by itself is one of its own next-state relation.
LEMMA AloneIsNext == ASSUME Alone PROVE [Next]_vars
BY DEF Alone, Next

\* Each step of the composition is, for the gateway, one of those.
LEMMA WindowSeen ==
    ASSUME WindowTypeOK, [WindowNext]_windowVars PROVE Seen
<1> USE DEF Seen, Alone
<1>1. CASE WifiTask
  BY <1>1 DEF WifiTask, StartWifi, OpenWindow, CloseWindow, Resume, Resumed, OnlyFaults, others,
     CanFail, mqttVars, vars
<1>2. CASE Credentials \/ Join
  BY <1>2 DEF Credentials, Join
<1>3. CASE LoseStation \/ LoseSession
  BY <1>3 DEF LoseStation, StationLost, LoseSession, OnlyFlag, others
<1>4. CASE OpenSession \/ Receive
  BY <1>4 DEF OpenSession, Receive
<1>5. CASE EndRequest
  BY <1>5 DEF EndRequest, AnswerUnheard, TimeOutUnheard, Heard, OnlyLight, OnlyTimeout
<1>6. CASE RecoverAgain
  <2>1. recoverAgain \in Slot
    BY <1>6, GatewayAssumption DEF RecoverAgain, WindowTypeOK, Slot
  <2> QED
    BY <1>6, <2>1 DEF RecoverAgain
<1>7. CASE GatewayStep(MqttTask) \/ GatewayStep(BtcTask) \/ GatewayStep(RecoverStep) \/ WindowRestart
  BY <1>7 DEF GatewayStep, WindowRestart
<1>8. CASE UNCHANGED windowVars
  BY <1>8 DEF windowVars
<1> QED
  BY <1>1, <1>2, <1>3, <1>4, <1>5, <1>6, <1>7, <1>8 DEF WindowNext

-----------------------------------------------------------------------------
(* The gateway's invariants *)

\* Every step keeps the gateway well typed.
LEMMA SeenType == ASSUME TypeInv, Seen PROVE TypeInv'
<1>1. CASE Alone
  BY <1>1, AloneIsNext, NextType
<1>2. CASE OnlyFaults
  <2>1. faults' \in 0..MaxFaults
    BY <1>2, Numbers DEF OnlyFaults, TypeInv
  <2> QED
    BY <1>2, <2>1 DEF OnlyFaults, others, TypeInv, TypeOK, MqttOK, gatewayVars, taskVars
<1>3. CASE OnlyFlag
  BY <1>3 DEF OnlyFlag, others, TypeInv, TypeOK, MqttOK, gatewayVars, taskVars
<1>4. CASE \E i \in Slot, on \in 0..1 : DispatchCommand(i, on)
  BY <1>4, DispatchCommandType
<1>5. CASE \E r \in tx : OnlyLight(r)
  <2>1. device' \in [Slot -> Device]
    BY <1>5, ObeyType DEF OnlyLight, TypeInv, TypeOK
  <2> QED
    BY <1>5, <2>1 DEF OnlyLight, TypeInv, TypeOK, MqttOK, gatewayVars, mqttVars, taskVars
<1>6. CASE \E r \in tx : OnlyTimeout(r)
  <2>1. PICK r \in tx : OnlyTimeout(r)
    BY <1>6
  <2>2. r \in Item /\ Event("timeout", r, 0) \in Item
    BY EventType, Zeros DEF Kinds, TypeInv, TypeOK
  <2>3. btc' \in Seq(Item) /\ tx' \in SUBSET Item
    BY <2>1, <2>2, AppendProperties DEF OnlyTimeout, TypeInv, TypeOK
  <2> QED
    BY <2>1, <2>3 DEF OnlyTimeout, TypeInv, TypeOK, MqttOK, gatewayVars, mqttVars, taskVars
<1>7. CASE \E i \in Slot : RecoverNode(i) /\ recoverAt' = recoverAt
  BY <1>7, RecoverNodeType DEF TypeInv, TypeOK
<1> QED
  BY <1>1, <1>2, <1>3, <1>4, <1>5, <1>6, <1>7 DEF Seen

\* The lights are the stored ones, configured once and for all.
Configured == \A i \in Slot :
    /\ nodes[i].unicast = (IF i \in Paired THEN 1 ELSE 0)
    /\ device[i].addr = (IF i \in Paired THEN 1 ELSE 0)
    /\ device[i].bound <=> i \in Paired
    /\ device[i].subscribed <=> i \in Paired

\* The invariant of the composition
WindowInv == WindowTypeOK /\ FlowType /\ Configured

\* Nobody is being provisioned, and who is addressed is in the table.
LEMMA NobodyJoins ==
    ASSUME FlowType, Configured
    PROVE  \A x \in Flow : /\ x.kind # "prov"
                           /\ x.op # "group" => x.node \in Paired /\ x.addr = 1
<1> SUFFICES ASSUME NEW x \in Flow
             PROVE  x.kind # "prov" /\ (x.op # "group" => x.node \in Paired /\ x.addr = 1)
  OBVIOUS
<1>1. x.node \in Slot /\ x.addr \in Nat
  BY ItemNode DEF FlowType
<1>2. x.kind # "prov"
  BY <1>1 DEF Flow, FlowType, FlowInv, AddrInv, Configured
<1>3. ASSUME x.op # "group" PROVE x.node \in Paired /\ x.addr = 1
  BY <1>1, <1>2, <1>3 DEF FlowType, FlowInv, AddrInv, Addressed, Unassigned, Configured
<1> QED
  BY <1>2, <1>3

\* A configured light that obeys stays configured.
LEMMA ObeyConfigured ==
    ASSUME FlowType, Configured, NEW r \in tx, Obey(r), nodes' = nodes
    PROVE  Configured'
<1>1. r.node \in Paired
  BY NobodyJoins DEF Flow, FlowType, FlowInv, AddrInv
<1> QED
  BY <1>1, ObeyParts DEF Configured, FlowType

\* A status changes what the table knows of a light, not its address.
LEMMA ObserveConfigured ==
    ASSUME FlowType, Configured, device' = device,
           \/ nodes' = nodes
           \/ \E i \in Slot, on \in 0..1 : Observe(i, on)
    PROVE  Configured'
<1>1. nodes \in [Slot -> Node]
  BY DEF FlowType, TypeInv, TypeOK
<1>2. \A i \in Slot : nodes'[i].unicast = nodes[i].unicast
  BY <1>1 DEF Observe, Node
<1> QED
  BY <1>2 DEF Configured

\* Every step keeps the lights configured.
LEMMA SeenConfigured == ASSUME FlowType, Configured, Seen PROVE Configured'
<1>1. CASE MqttTask \/ RecoverStep \/ Connect \/ Restart \/ UNCHANGED vars
  <2>1. nodes' = nodes /\ device' = device
    BY <1>1 DEF MqttTask, MarkPending, PostCommand, MarkGroup, StartGroupSync, PostGroup, SyncNode,
       RecoverStep, RecoverNode, Connect, Restart, vars, gatewayVars
  <2> QED
    BY <2>1 DEF Configured
<1>2. CASE SendUnicast \/ IgnoreEvent \/ OnOffError \/ ConfigStatus \/ ConfigTimeout
           \/ GetTimeout \/ SetTimeout
  <2>1. nodes' = nodes /\ device' = device
    BY <1>2 DEF SendUnicast, IgnoreEvent, OnOffError, ConfigStatus, ConfigTimeout, GetTimeout,
       SetTimeout, gatewayVars
  <2> QED
    BY <2>1 DEF Configured
<1>3. CASE SendGroup
  <2>1. nodes' = nodes /\ \A i \in Slot : /\ device'[i].addr = device[i].addr
                                          /\ device'[i].bound = device[i].bound
                                          /\ device'[i].subscribed = device[i].subscribed
    BY <1>3 DEF SendGroup, gatewayVars, FlowType, TypeInv, TypeOK, Device
  <2> QED
    BY <2>1 DEF Configured
<1>4. CASE ProvComplete
  <2>1. Head(btc) \in Flow /\ Head(btc).kind = "prov"
    BY <1>4, ElemsPop DEF ProvComplete, Arrives, FlowType, TypeInv, TypeOK, Flow
  <2> QED
    BY <2>1, NobodyJoins
<1>5. CASE GetStatus \/ SetStatus
  <2>1. Head(btc).node \in Slot /\ Head(btc).on \in 0..1
    BY <1>5, ArrivesType DEF GetStatus, SetStatus, FlowType, TypeInv
  <2> QED
    BY <1>5, <2>1, ObserveConfigured DEF GetStatus, SetStatus
<1>6. CASE \E r \in tx : Answer(r) \/ OnlyLight(r)
  BY <1>6, ObeyConfigured DEF Answer, OnlyLight, gatewayVars
<1>7. CASE \/ OnlyFaults \/ OnlyFlag
           \/ \E i \in Slot, on \in 0..1 : DispatchCommand(i, on)
           \/ \E r \in tx : OnlyTimeout(r)
           \/ \E i \in Slot : RecoverNode(i)
  <2>1. nodes' = nodes /\ device' = device
    BY <1>7 DEF OnlyFaults, OnlyFlag, others, DispatchCommand, OnlyTimeout, RecoverNode, gatewayVars
  <2> QED
    BY <2>1 DEF Configured
<1> QED
  BY <1>1, <1>2, <1>3, <1>4, <1>5, <1>6, <1>7 DEF Seen, Alone, BtcTask, Callback

\* With lights that are configured, only the recovery of a fresh start is of interest.
LEMMA ConfiguredKeeps ==
    ASSUME FlowType, TypeInv', FlowInv', Configured', recoverAt' = recoverAt,
           faults' = 0 => faults = 0, Fresh' => Fresh
    PROVE  ConfigInv'
<1>1. BoundKnown'
  BY DEF BoundKnown, Configured, Provisioned, Unassigned
<1>2. WillSubscribe'
  BY DEF WillSubscribe, Configured
<1>3. SetupInv'
  <2> SUFFICES ASSUME faults' = 0, Fresh'
               PROVE  /\ recoverAt' = 0
                      /\ \A i \in Slot : ~(nodes'[i].unicast < device'[i].addr)
                      /\ \A x \in Flow' : Late(x) => device'[x.node].bound
                      /\ \A i \in Slot : Provisioned(i)' => device'[i].bound /\ device'[i].subscribed
    BY DEF SetupInv
  <2>1. recoverAt' = 0
    BY DEF FlowType, ConfigInv, SetupInv
  <2>2. \A i \in Slot : ~(nodes'[i].unicast < device'[i].addr)
    BY DEF Configured
  <2>3. \A x \in Flow' : x.node \in Slot /\ x.addr \in Nat
    <3>1. \A k \in 1..Len(btc') : btc'[k] \in Item
      BY ElementOfSeq DEF TypeInv, TypeOK
    <3>2. \A x \in Flow' : x \in Item
      BY <3>1 DEF Flow, Elems, TypeInv, TypeOK
    <3> QED
      BY <3>2, GatewayAssumption DEF Item
  <2>4. ASSUME NEW x \in Flow', Late(x) PROVE device'[x.node].bound
    <3>1. x.kind # "prov"
      BY <2>2, <2>3, <2>4 DEF Flow, FlowInv, AddrInv, Late
    <3>2. Addressed(x)'
      BY <3>1 DEF FlowInv, AddrInv
    <3>3. x.node \in Paired
      BY <2>3, <2>4, <3>2 DEF Addressed, Late, Configured, Unassigned
    <3> QED
      BY <2>3, <3>3 DEF Configured
  <2>5. \A i \in Slot : Provisioned(i)' => device'[i].bound /\ device'[i].subscribed
    BY DEF Provisioned, Unassigned, Configured
  <2> QED
    BY <2>1, <2>2, <2>4, <2>5
<1> QED
  BY <1>1, <1>2, <1>3 DEF ConfigInv

\* Every step keeps the gateway's flow of work.
LEMMA SeenFlow ==
    ASSUME FlowType, Configured, Seen
    PROVE  FlowType' /\ Configured'
<1>0. TypeInv' /\ Configured'
  BY SeenType, SeenConfigured DEF FlowType
<1>1. CASE Alone
  BY <1>0, <1>1, AloneIsNext, NextFlow DEF FlowType
<1>2. CASE \E i \in Slot, on \in 0..1 : DispatchCommand(i, on)
  BY <1>0, <1>2, ReceiveFlow DEF FlowType
<1>3. CASE OnlyFaults \/ OnlyFlag
  <2>1. /\ UNCHANGED <<nodes, pending, btc, tx, device, mqtt, budget, syncAt, recoverAt>>
        /\ faults' = 0 => faults = 0
    BY <1>3, Numbers DEF OnlyFaults, OnlyFlag, others, gatewayVars, taskVars, FlowType, TypeInv
  <2>2. AddrInv' /\ ConfigInv'
    BY <1>0, <2>1, StillFlow
  <2>3. Reserved'
    BY <2>1 DEF FlowType, FlowInv, Reserved, Provisioned
  <2>4. NoOrphan'
    BY <2>1 DEF FlowType, FlowInv, NoOrphan, Carrier, Carries
  <2> QED
    BY <1>0, <2>2, <2>3, <2>4 DEF FlowType, FlowInv
<1>4. CASE \E r \in tx : OnlyLight(r)
  <2>1. PICK r \in tx : OnlyLight(r)
    BY <1>4
  <2>2. /\ UNCHANGED <<nodes, pending, btc, tx, mqtt, budget, syncAt, recoverAt, faults>>
        /\ \A i \in Slot : device'[i].addr = device[i].addr
    BY <2>1, ObeyParts DEF OnlyLight, gatewayVars, mqttVars, taskVars, FlowType
  <2>3. Moves(btc, <<>>) /\ SameUnicast
    BY <2>2, MovesNone DEF From, FlowType, TypeInv, TypeOK, SameUnicast
  <2>4. AddrInv'
    BY <2>2, <2>3, AddrKept DEF FlowType, FlowInv, AddrInv
  <2>5. Reserved' /\ NoOrphan'
    BY <2>2 DEF FlowType, FlowInv, Reserved, Provisioned, NoOrphan, Carrier, Carries
  <2>6. FlowInv'
    BY <2>4, <2>5 DEF FlowInv
  <2>7. ConfigInv'
    BY <1>0, <2>2, <2>6, ConfiguredKeeps DEF Fresh
  <2> QED
    BY <1>0, <2>6, <2>7 DEF FlowType
<1>5. CASE \E r \in tx : OnlyTimeout(r)
  <2>1. PICK r \in tx : OnlyTimeout(r)
    BY <1>5
  <2>2. UNCHANGED <<nodes, pending, device, mqtt, budget, syncAt, recoverAt, faults>>
    BY <2>1 DEF OnlyTimeout, gatewayVars, mqttVars, taskVars
  <2>3. FlowInv'
    <3>1. "timeout" \in Kinds \ {"prov", "call"} /\ 0 \in 0..1
      BY DEF Kinds
    <3>2. tx' = tx \ {r} /\ btc' = Append(btc, Event("timeout", r, 0))
      BY <2>1 DEF OnlyTimeout
    <3> QED
      BY <2>2, <3>1, <3>2, ReplyKeeps DEF FlowType
  <2>4. ConfigInv'
    BY <1>0, <2>2, <2>3, ConfiguredKeeps DEF Fresh
  <2> QED
    BY <1>0, <2>3, <2>4 DEF FlowType
<1>6. CASE \E i \in Slot : RecoverNode(i) /\ recoverAt' = recoverAt
  <2>1. PICK i \in Slot : RecoverNode(i) /\ recoverAt' = recoverAt
    BY <1>6
  <2>2. budget' = budget /\ (faults' = 0 => faults = 0)
    BY <2>1, RecoverNodePosts DEF RecoverNode, mqttVars, FlowType
  <2>3. FlowInv'
    BY <2>1, RecoverNodeFlow DEF FlowType
  <2>4. ConfigInv'
    BY <1>0, <2>1, <2>2, <2>3, ConfiguredKeeps DEF Fresh
  <2> QED
    BY <1>0, <2>3, <2>4 DEF FlowType
<1> QED
  BY <1>1, <1>2, <1>3, <1>4, <1>5, <1>6 DEF Seen

\* Every step is a step of the ledger.
LEMMA SeenLedger ==
    ASSUME TypeInv, LedgerInv, Seen PROVE LedgerInv' /\ LedgerStep
<1>0. TypeInv'
  BY SeenType
<1>1. CASE Alone
  BY <1>1, AloneIsNext, StepProgress DEF Progress
<1>2. CASE \E i \in Slot, on \in 0..1 : DispatchCommand(i, on)
  BY <1>0, <1>2, DispatchCommandProgress DEF Progress
<1>3. CASE Seen /\ ~Alone /\ ~\E i \in Slot, on \in 0..1 : DispatchCommand(i, on)
  <2>1. UNCHANGED <<pending, acks, nodes, mqtt, budget>>
    BY <1>3 DEF Seen, OnlyFaults, OnlyFlag, others, OnlyLight, OnlyTimeout, RecoverNode,
       gatewayVars, mqttVars
  <2> QED
    BY <1>0, <2>1, FrameProgress, SameNodes DEF Progress
<1> QED
  BY <1>1, <1>2, <1>3

-----------------------------------------------------------------------------
(* The window itself *)

\* The Wi-Fi side is well typed, whatever the gateway does.
LEMMA WindowStepType ==
    ASSUME WindowInv, TypeInv', [WindowNext]_windowVars PROVE WindowTypeOK'
<1> USE DEF WindowTypeOK
<1>0. TypeOK'
  BY DEF TypeInv
<1>1. CASE WifiTask
  BY <1>0, <1>1, Zeros DEF WindowInv, WifiTask, StartWifi, OpenWindow, CloseWindow, Resume, Resumed, vars
<1>2. CASE Credentials \/ Join \/ OpenSession
  BY <1>0, <1>2 DEF WindowInv, Credentials, Join, OpenSession, GotIp, Connect, vars
<1>3. CASE LoseStation \/ LoseSession
  <2>1. outages' \in 0..MaxOutages
    BY <1>3, WindowAssumption DEF WindowInv, LoseStation, StationLost, LoseSession
  <2> QED
    BY <1>0, <1>3, <2>1 DEF WindowInv, LoseStation, StationLost, LoseSession
<1>4. CASE Receive
  BY <1>0, <1>4 DEF WindowInv, Receive, DispatchCommand, wifiVars
<1>5. CASE EndRequest
  BY <1>0, <1>5 DEF WindowInv, EndRequest, AnswerUnheard, TimeOutUnheard, Heard, Answer, wifiVars
<1>6. CASE RecoverAgain
  <2>1. recoverAgain' \in 0..NumNodes
    BY <1>6, NextSlotType, GatewayAssumption DEF WindowInv, RecoverAgain, Slot
  <2> QED
    BY <1>0, <1>6, <2>1 DEF WindowInv, RecoverAgain, RecoverNode, wifiVars
<1>7. CASE GatewayStep(MqttTask) \/ GatewayStep(BtcTask) \/ GatewayStep(RecoverStep)
  <2>1. tx \subseteq tx'
    BY <1>7 DEF GatewayStep, MqttTask, MarkPending, PostCommand, MarkGroup, StartGroupSync, PostGroup,
       SyncNode, BtcTask, SendUnicast, SendGroup, Callback, ProvComplete, IgnoreEvent, OnOffError,
       ConfigStatus, ConfigTimeout, GetStatus, SetStatus, GetTimeout, SetTimeout, RecoverStep, RecoverNode
  <2> QED
    BY <1>0, <1>7, <2>1 DEF WindowInv, GatewayStep, wifiVars
<1>8. CASE WindowRestart
  BY <1>0, <1>8, Zeros DEF WindowInv, WindowRestart
<1>9. CASE UNCHANGED windowVars
  BY <1>0, <1>9 DEF WindowInv, windowVars, vars, wifiVars
<1> QED
  BY <1>1, <1>2, <1>3, <1>4, <1>5, <1>6, <1>7, <1>8, <1>9 DEF WindowNext

\* The lights are as the table has them when the gateway starts.
LEMMA InitWindow == WindowInit => WindowInv
<1> SUFFICES ASSUME WindowInit PROVE WindowInv
  OBVIOUS
<1>1. PICK v \in 0..1 : device = [Lights EXCEPT ![1].light = v]
  BY DEF WindowInit
<1>2. Stored
  <2>1. Lights \in [Slot -> Device]
    BY GatewayAssumption DEF Lights, Device
  <2>2. /\ device \in [Slot -> Device]
        /\ \A i \in Slot : /\ device[i].addr = Lights[i].addr
                           /\ device[i].bound = Lights[i].bound
                           /\ device[i].subscribed = Lights[i].subscribed
    BY <1>1, <2>1, Zeros DEF Device
  <2> QED
    BY <2>2 DEF Stored
<1>3. FlowType
  BY <1>2, InitType, InitFlow DEF FlowType, WindowInit
<1>4. Configured
  BY <1>2 DEF Configured, Stored, Lights, WindowInit, GatewayInit
<1>5. WindowTypeOK
  <2>1. TypeOK /\ 0 \in 0..MaxOutages
    BY <1>3, WindowAssumption DEF FlowType, TypeInv
  <2>2. wifiTask = "start" /\ session = "off" /\ missed = {} /\ recoverAgain = 0 /\ outages = 0
    BY DEF WindowInit
  <2>3. {radio, credentials, autoconnect, station} \subseteq BOOLEAN
    <3>1. radio = TRUE /\ autoconnect = FALSE /\ station = FALSE /\ credentials \in BOOLEAN
      BY DEF WindowInit
    <3>2. TRUE \in BOOLEAN /\ FALSE \in BOOLEAN
      OBVIOUS
    <3> QED
      BY <3>1, <3>2
  <2> QED
    BY <2>1, <2>2, <2>3, Zeros DEF WindowTypeOK
<1> QED
  BY <1>3, <1>4, <1>5 DEF WindowInv

\* The invariant of the composition is inductive.
LEMMA WindowAlways == WindowSpec => []WindowInv
<1>1. WindowInv /\ [WindowNext]_windowVars => WindowInv'
  <2> SUFFICES ASSUME WindowInv, [WindowNext]_windowVars PROVE WindowInv'
    OBVIOUS
  <2>1. FlowType' /\ Configured'
    BY WindowSeen, SeenFlow DEF WindowInv
  <2>2. WindowTypeOK'
    BY <2>1, WindowStepType DEF FlowType
  <2> QED
    BY <2>1, <2>2 DEF WindowInv
<1> QED
  BY <1>1, InitWindow, PTL DEF WindowSpec

-----------------------------------------------------------------------------
\* The composition is well typed; in particular what the window has missed are requests
\* that are still outstanding, and the second recovery stays in the table.
THEOREM WindowTypes == WindowSpec => []WindowTypeOK
<1>1. WindowInv => WindowTypeOK
  BY DEF WindowInv
<1> QED
  BY <1>1, WindowAlways, PTL

\* No command is orphaned by the window, which drops the answers to its requests, nor
\* by the second recovery (farmely_mesh_yield_radio), whose requests make the client
\* models refuse those of the first one, of the sync and of the commands.
THEOREM WindowNoOrphan == WindowSpec => []NoOrphan
<1>1. WindowInv => NoOrphan
  BY DEF WindowInv, FlowType, FlowInv
<1> QED
  BY <1>1, WindowAlways, PTL

\* With the Wi-Fi side, too, the gateway implements the ledger of commands: what the
\* window, the recoveries and the outages do to s_pending is what the ledger allows.
THEOREM WindowImplementsLedger == WindowSpec => LedgerSpec
<1>1. WindowInit => TypeInv /\ LedgerInv /\ Ledger!Init
  BY InitWindow, InitLedger DEF WindowInit, WindowInv, FlowType
<1>2. WindowInv /\ LedgerInv /\ [WindowNext]_windowVars => LedgerInv' /\ LedgerStep
  BY WindowSeen, SeenLedger DEF WindowInv, FlowType
<1> QED
  BY <1>1, <1>2, WindowAlways, PTL DEF WindowSpec, LedgerSpec, Ledger!Spec, LedgerStep

-----------------------------------------------------------------------------
(* The second recovery: what leads to an answer of every light                 *)

\* No command came and nothing failed.
Unhurt == faults = 0 /\ budget.cmds = 0

About(x, o, i) == x.op = o /\ x.node = i
Lates(o, i) == {x \in Item : About(x, o, i) /\ x.kind = "timeout"}
AboutIn(T, o, i) == {t \in T : About(t, o, i)}

\* Behind position n of queue q and in T there is at most one item of X, in all.
OnlyOne(q, n, X, T) ==
    /\ \A k, l \in (n + 1)..Len(q) : q[k] \in X /\ q[l] \in X => k = l
    /\ T # {} => \A k \in (n + 1)..Len(q) : q[k] \notin X

\* Behind position n at most one request o of light i has timed out, or will.
Few(q, m, o, i, n) == OnlyOne(q, n, Lates(o, i), AboutIn(m, o, i))

\* At most one did or will, and then the retries (r) are not used up.
Clean(q, m, o, i, r) ==
    /\ Few(q, m, o, i, 0)
    /\ (AboutIn(m, o, i) # {} \/ \E k \in 1..Len(q) : q[k] \in Lates(o, i)) => r = 0

-----------------------------------------------------------------------------
\* A queue and what is behind its head
LEMMA TailParts ==
    ASSUME NEW S, NEW q \in Seq(S), q # <<>>
    PROVE  /\ Len(q) \in Nat \ {0} /\ Len(Tail(q)) = Len(q) - 1 /\ Head(q) = q[1]
           /\ Tail(q) \in Seq(S) /\ Head(q) \in S
           /\ \A k \in 1..Len(Tail(q)) : Tail(q)[k] = q[k + 1]
BY HeadTailProperties, LenProperties, EmptySeq

\* ... and with one more item at its end
LEMMA AppendParts ==
    ASSUME NEW S, NEW q \in Seq(S), NEW y \in S
    PROVE  /\ Len(q) \in Nat /\ Len(Append(q, y)) = Len(q) + 1 /\ Append(q, y) \in Seq(S)
           /\ \A k \in 1..Len(q) : Append(q, y)[k] = q[k]
           /\ Append(q, y)[Len(q) + 1] = y
BY AppendProperties, LenProperties

\* When the head leaves, what was one stays one.
LEMMA OneTail ==
    ASSUME NEW S, NEW q \in Seq(S), q # <<>>, NEW n \in Nat, NEW X, NEW T, OnlyOne(q, n, X, T)
    PROVE  /\ OnlyOne(Tail(q), n, X, T)
           /\ n > 0 => OnlyOne(Tail(q), n - 1, X, T)
<1>1. /\ Len(q) \in Nat \ {0} /\ Len(Tail(q)) = Len(q) - 1
      /\ \A k \in 1..Len(Tail(q)) : Tail(q)[k] = q[k + 1]
  BY TailParts
<1>2. ASSUME NEW m \in Nat, m + 1 >= n PROVE OnlyOne(Tail(q), m, X, T)
  <2>1. \A k \in (m + 1)..Len(Tail(q)) : k + 1 \in (n + 1)..Len(q) /\ Tail(q)[k] = q[k + 1]
    BY <1>1, <1>2
  <2>2. ASSUME NEW k \in (m + 1)..Len(Tail(q)), NEW l \in (m + 1)..Len(Tail(q)),
               Tail(q)[k] \in X, Tail(q)[l] \in X
        PROVE  k = l
    <3>1. k + 1 = l + 1
      BY <2>1, <2>2 DEF OnlyOne
    <3> QED
      BY <3>1
  <2>3. T # {} => \A k \in (m + 1)..Len(Tail(q)) : Tail(q)[k] \notin X
    BY <2>1 DEF OnlyOne
  <2> QED
    BY <2>2, <2>3 DEF OnlyOne
<1> QED
  BY <1>2

\* When the only one leaves, none is left.
LEMMA OneTaken ==
    ASSUME NEW S, NEW q \in Seq(S), q # <<>>, NEW X, NEW T, OnlyOne(q, 0, X, T), Head(q) \in X
    PROVE  T = {} /\ \A k \in 1..Len(Tail(q)) : Tail(q)[k] \notin X
<1>1. /\ Len(q) \in Nat \ {0} /\ Len(Tail(q)) = Len(q) - 1 /\ Head(q) = q[1]
      /\ \A k \in 1..Len(Tail(q)) : Tail(q)[k] = q[k + 1]
  BY TailParts
<1>2. 1 \in (0 + 1)..Len(q) /\ \A k \in 1..Len(Tail(q)) : k + 1 \in (0 + 1)..Len(q) /\ k + 1 # 1
  BY <1>1
<1> QED
  BY <1>1, <1>2 DEF OnlyOne

\* Something else is appended.
LEMMA OneAppend ==
    ASSUME NEW S, NEW q \in Seq(S), NEW y \in S, NEW n \in Nat, NEW X, NEW T, OnlyOne(q, n, X, T), y \notin X
    PROVE  OnlyOne(Append(q, y), n, X, T)
<1>1. /\ Len(q) \in Nat /\ Len(Append(q, y)) = Len(q) + 1
      /\ \A k \in 1..Len(q) : Append(q, y)[k] = q[k]
      /\ Append(q, y)[Len(q) + 1] = y
  BY AppendParts
<1>2. \A k \in (n + 1)..Len(Append(q, y)) : Append(q, y)[k] \in X => k \in (n + 1)..Len(q) /\ k \in 1..Len(q)
  <2>1. \A k \in (n + 1)..(Len(q) + 1) : k = Len(q) + 1 \/ (k \in (n + 1)..Len(q) /\ k \in 1..Len(q))
    BY <1>1
  <2> QED
    BY <1>1, <2>1
<1> QED
  BY <1>1, <1>2 DEF OnlyOne

\* The only one is appended.
LEMMA OneAdded ==
    ASSUME NEW S, NEW q \in Seq(S), NEW y \in S, NEW n \in Nat, NEW X,
           \A k \in (n + 1)..Len(q) : q[k] \notin X
    PROVE  OnlyOne(Append(q, y), n, X, {})
<1>1. /\ Len(q) \in Nat /\ Len(Append(q, y)) = Len(q) + 1
      /\ \A k \in 1..Len(q) : Append(q, y)[k] = q[k]
  BY AppendParts
<1>2. \A k \in (n + 1)..Len(Append(q, y)) : Append(q, y)[k] \in X => k = Len(q) + 1
  <2>1. \A k \in (n + 1)..(Len(q) + 1) : k = Len(q) + 1 \/ (k \in (n + 1)..Len(q) /\ k \in 1..Len(q))
    BY <1>1
  <2> QED
    BY <1>1, <2>1
<1> QED
  BY <1>2 DEF OnlyOne

\* When the head leaves, what is behind stays clean; the retries may be reset.
LEMMA CleanTail ==
    ASSUME NEW q \in Seq(Item), q # <<>>, NEW m, NEW o, NEW i, NEW r, NEW r2 \in {r, 0},
           Clean(q, m, o, i, r)
    PROVE  Clean(Tail(q), m, o, i, r2)
<1>1. Few(Tail(q), m, o, i, 0)
  BY OneTail DEF Clean, Few
<1>2. /\ Len(q) \in Nat \ {0} /\ Len(Tail(q)) = Len(q) - 1
      /\ \A k \in 1..Len(Tail(q)) : Tail(q)[k] = q[k + 1]
  BY TailParts
<1>3. \A k \in 1..Len(Tail(q)) : k + 1 \in 1..Len(q)
  BY <1>2
<1> QED
  BY <1>1, <1>2, <1>3 DEF Clean

\* When the time-out is taken, no other is to come: it will not be the last retry.
LEMMA CleanTaken ==
    ASSUME NEW q \in Seq(Item), q # <<>>, NEW m, NEW o, NEW i, NEW r, NEW r2,
           Clean(q, m, o, i, r), Head(q) \in Lates(o, i)
    PROVE  r = 0 /\ Clean(Tail(q), m, o, i, r2)
<1>1. AboutIn(m, o, i) = {} /\ \A k \in 1..Len(Tail(q)) : Tail(q)[k] \notin Lates(o, i)
  BY OneTaken DEF Clean, Few
<1>2. 1 \in 1..Len(q) /\ Head(q) = q[1]
  BY TailParts
<1>3. r = 0
  BY <1>2 DEF Clean
<1>4. Few(Tail(q), m, o, i, 0)
  BY <1>1 DEF Few, OnlyOne
<1> QED
  BY <1>1, <1>3, <1>4 DEF Clean

\* Posting a call or another event changes nothing.
LEMMA CleanAppend ==
    ASSUME NEW q \in Seq(Item), NEW y \in Item, NEW m, NEW o, NEW i, NEW r, Clean(q, m, o, i, r),
           y \notin Lates(o, i)
    PROVE  Clean(Append(q, y), m, o, i, r)
<1>1. Few(Append(q, y), m, o, i, 0)
  BY OneAppend DEF Clean, Few
<1>2. /\ Len(q) \in Nat /\ Len(Append(q, y)) = Len(q) + 1
      /\ \A k \in 1..Len(q) : Append(q, y)[k] = q[k]
      /\ Append(q, y)[Len(q) + 1] = y
  BY AppendParts
<1>3. \A k \in 1..(Len(q) + 1) : k \in 1..Len(q) \/ k = Len(q) + 1
  BY <1>2
<1> QED
  BY <1>1, <1>2, <1>3 DEF Clean

\* The request t ends, and what comes of it is appended: what was one stays one.
LEMMA OneMoved ==
    ASSUME NEW q \in Seq(Item), NEW y \in Item, NEW m, NEW t \in m, NEW o, NEW i, NEW n \in Nat,
           NEW X, OnlyOne(q, n, X, AboutIn(m, o, i)),
           \A u \in m : (About(u, o, i) /\ About(t, o, i)) => u = t,
           y \in X => About(t, o, i)
    PROVE  OnlyOne(Append(q, y), n, X, AboutIn(m \ {t}, o, i))
<1>1. CASE About(t, o, i)
  <2>1. AboutIn(m, o, i) # {} /\ AboutIn(m \ {t}, o, i) = {}
    BY <1>1 DEF AboutIn
  <2>2. \A k \in (n + 1)..Len(q) : q[k] \notin X
    BY <2>1 DEF OnlyOne
  <2> QED
    BY <2>1, <2>2, OneAdded
<1>2. CASE ~About(t, o, i)
  <2>1. AboutIn(m \ {t}, o, i) = AboutIn(m, o, i)
    BY <1>2 DEF AboutIn
  <2> QED
    BY <1>2, <2>1, OneAppend
<1> QED
  BY <1>1, <1>2

\* A request that was missed times out: what was to come has come.
LEMMA FewEnds ==
    ASSUME NEW q \in Seq(Item), NEW y \in Item, NEW m, NEW t \in m, NEW o, NEW i, NEW n \in Nat,
           Few(q, m, o, i, n),
           \A u \in m : (About(u, o, i) /\ About(t, o, i)) => u = t,
           About(y, o, i) <=> About(t, o, i)
    PROVE  Few(Append(q, y), m \ {t}, o, i, n)
<1>1. y \in Lates(o, i) => About(t, o, i)
  BY DEF Lates
<1> QED
  BY <1>1, OneMoved DEF Few

\* ... and the retries are as fresh as they were.
LEMMA CleanEnds ==
    ASSUME NEW q \in Seq(Item), NEW y \in Item, NEW m, NEW t \in m, NEW o, NEW i, NEW r,
           Clean(q, m, o, i, r),
           \A u \in m : (About(u, o, i) /\ About(t, o, i)) => u = t,
           About(y, o, i) <=> About(t, o, i)
    PROVE  Clean(Append(q, y), m \ {t}, o, i, r)
<1>1. Few(Append(q, y), m \ {t}, o, i, 0)
  BY FewEnds DEF Clean
<1>2. /\ Len(q) \in Nat /\ Len(Append(q, y)) = Len(q) + 1
      /\ \A k \in 1..Len(q) : Append(q, y)[k] = q[k]
      /\ Append(q, y)[Len(q) + 1] = y
  BY AppendParts
<1>3. \A k \in 1..(Len(q) + 1) : k \in 1..Len(q) \/ k = Len(q) + 1
  BY <1>2
<1>4. ASSUME \/ AboutIn(m \ {t}, o, i) # {}
             \/ \E k \in 1..Len(Append(q, y)) : Append(q, y)[k] \in Lates(o, i)
      PROVE  AboutIn(m, o, i) # {} \/ \E k \in 1..Len(q) : q[k] \in Lates(o, i)
  BY <1>2, <1>3, <1>4 DEF AboutIn, Lates
<1> QED
  BY <1>1, <1>4 DEF Clean

-----------------------------------------------------------------------------
(* A chain of requests and events that ends with an answer of light i *)

\* The recovery's subscription is under way: it will not be given up, or it was answered
\* and the GET that follows will not be.
SubLives(q, t, m, r, i) ==
    \/ /\ Clean(q, m, "sub", i, r)
       /\ \E x \in Elems(q) \cup t : About(x, "sub", i) /\ x.kind \in {"call", "timeout"}
    \/ \E k \in 1..Len(q) : /\ About(q[k], "sub", i) /\ q[k].kind = "status"
                            /\ Few(q, m, "get", i, k)

\* A GET is under way, will not be given up, or was answered.
GetLives(q, t, m, r, i) ==
    /\ Clean(q, m, "get", i, r)
    /\ \E x \in Elems(q) \cup t : About(x, "get", i) /\ x.kind \in {"call", "timeout", "status"}

\* What a queue of items holds when one is posted.
LEMMA ElemsPost ==
    ASSUME NEW q \in Seq(Item), NEW y \in Item PROVE Elems(Append(q, y)) = Elems(q) \cup {y}
BY ElemsAppend

\* To reset the retries of a request does not disturb its chain.
LEMMA CleanReset ==
    ASSUME NEW q, NEW m, NEW o, NEW i, NEW r, NEW r2 \in {r, 0}, Clean(q, m, o, i, r)
    PROVE  Clean(q, m, o, i, r2)
BY DEF Clean

\* The answered subscription moves up the queue.
LEMMA AnsweredUp ==
    ASSUME NEW q \in Seq(Item), q # <<>>, NEW m, NEW i, NEW k \in 1..Len(q), k # 1,
           About(q[k], "sub", i), q[k].kind = "status", Few(q, m, "get", i, k)
    PROVE  \A t, r : SubLives(Tail(q), t, m, r, i)
<1>1. /\ Len(q) \in Nat \ {0} /\ Len(Tail(q)) = Len(q) - 1
      /\ \A j \in 1..Len(Tail(q)) : Tail(q)[j] = q[j + 1]
  BY TailParts
<1>2. k - 1 \in 1..Len(Tail(q)) /\ Tail(q)[k - 1] = q[k] /\ k \in Nat /\ k > 0
  BY <1>1
<1>3. Few(Tail(q), m, "get", i, k - 1)
  BY <1>2, OneTail DEF Few
<1> QED
  BY <1>2, <1>3 DEF SubLives

\* It stays where it is when something is appended.
LEMMA AnsweredStays ==
    ASSUME NEW q \in Seq(Item), NEW y \in Item, NEW m, NEW m2, NEW i, NEW k \in 1..Len(q),
           About(q[k], "sub", i), q[k].kind = "status",
           Few(Append(q, y), m2, "get", i, k)
    PROVE  \A t, r : SubLives(Append(q, y), t, m2, r, i)
<1>1. /\ Len(q) \in Nat /\ Len(Append(q, y)) = Len(q) + 1
      /\ \A j \in 1..Len(q) : Append(q, y)[j] = q[j]
  BY AppendParts
<1>2. k \in 1..Len(Append(q, y)) /\ Append(q, y)[k] = q[k]
  BY <1>1
<1> QED
  BY <1>2 DEF SubLives

\* Something is posted.
LEMMA SubPost ==
    ASSUME NEW q \in Seq(Item), NEW y \in Item, y.kind # "timeout", NEW t, NEW m, NEW i,
           NEW r, NEW r2 \in {r, 0}, SubLives(q, t, m, r, i)
    PROVE  SubLives(Append(q, y), t, m, r2, i)
<1>1. \A o : y \notin Lates(o, i)
  BY DEF Lates
<1>2. CASE /\ Clean(q, m, "sub", i, r)
           /\ \E x \in Elems(q) \cup t : About(x, "sub", i) /\ x.kind \in {"call", "timeout"}
  <2>1. Clean(Append(q, y), m, "sub", i, r2)
    BY <1>1, <1>2, CleanReset, CleanAppend
  <2>2. Elems(q) \subseteq Elems(Append(q, y))
    BY ElemsPost
  <2> QED
    BY <1>2, <2>1, <2>2 DEF SubLives
<1>3. ASSUME NEW k \in 1..Len(q), About(q[k], "sub", i), q[k].kind = "status", Few(q, m, "get", i, k)
      PROVE  SubLives(Append(q, y), t, m, r2, i)
  <2>1. k \in Nat
    BY LenProperties
  <2>2. Few(Append(q, y), m, "get", i, k)
    BY <1>1, <1>3, <2>1, OneAppend DEF Few
  <2> QED
    BY <1>3, <2>2, AnsweredStays
<1> QED
  BY <1>2, <1>3 DEF SubLives

\* The same for the GET.
LEMMA GetPost ==
    ASSUME NEW q \in Seq(Item), NEW y \in Item, y.kind # "timeout", NEW t, NEW m, NEW i,
           NEW r, NEW r2 \in {r, 0}, GetLives(q, t, m, r, i)
    PROVE  GetLives(Append(q, y), t, m, r2, i)
<1>1. Clean(Append(q, y), m, "get", i, r2)
  BY CleanReset, CleanAppend DEF GetLives, Lates
<1>2. Elems(q) \subseteq Elems(Append(q, y))
  BY ElemsPost
<1> QED
  BY <1>1, <1>2 DEF GetLives

\* The head of the queue is handled, and has nothing to do with the chain, or its
\* request is outstanding now.
LEMMA SubPop ==
    ASSUME NEW q \in Seq(Item), q # <<>>, NEW t, NEW t2, t \subseteq t2, NEW m, NEW i,
           NEW r, NEW r2 \in {r, 0}, SubLives(q, t, m, r, i),
           About(Head(q), "sub", i) =>
               \/ Head(q).kind = "error"
               \/ Head(q).kind = "call" /\ \E x \in t2 : About(x, "sub", i) /\ x.kind = "call"
    PROVE  SubLives(Tail(q), t2, m, r2, i)
<1>1. CASE /\ Clean(q, m, "sub", i, r)
           /\ \E x \in Elems(q) \cup t : About(x, "sub", i) /\ x.kind \in {"call", "timeout"}
  <2>1. Clean(Tail(q), m, "sub", i, r2)
    BY <1>1, CleanTail
  <2>2. Elems(q) = {Head(q)} \cup Elems(Tail(q))
    BY ElemsPop
  <2> QED
    BY <1>1, <2>1, <2>2 DEF SubLives
<1>2. ASSUME NEW k \in 1..Len(q), About(q[k], "sub", i), q[k].kind = "status", Few(q, m, "get", i, k)
      PROVE  SubLives(Tail(q), t2, m, r2, i)
  <2>1. Head(q) = q[1]
    BY TailParts
  <2>2. k # 1
    BY <1>2, <2>1
  <2> QED
    BY <1>2, <2>2, AnsweredUp
<1> QED
  BY <1>1, <1>2 DEF SubLives

\* The same for the GET.
LEMMA GetPop ==
    ASSUME NEW q \in Seq(Item), q # <<>>, NEW t, NEW t2, t \subseteq t2, NEW m, NEW i,
           NEW r, NEW r2 \in {r, 0}, GetLives(q, t, m, r, i),
           About(Head(q), "get", i) =>
               \/ Head(q).kind = "error"
               \/ Head(q).kind = "call" /\ \E x \in t2 : About(x, "get", i) /\ x.kind = "call"
    PROVE  GetLives(Tail(q), t2, m, r2, i)
<1>1. Clean(Tail(q), m, "get", i, r2)
  BY CleanTail DEF GetLives
<1>2. Elems(q) = {Head(q)} \cup Elems(Tail(q))
  BY ElemsPop
<1> QED
  BY <1>1, <1>2 DEF GetLives

\* The answer to the subscription is handled: its GET is posted.
LEMMA SubAnswered ==
    ASSUME NEW q \in Seq(Item), q # <<>>, NEW t, NEW m, NEW i, NEW r, SubLives(q, t, m, r, i),
           About(Head(q), "sub", i), Head(q).kind = "status",
           NEW y \in Item, About(y, "get", i), y.kind = "call"
    PROVE  SubLives(Append(Tail(q), y), t, m, 0, i) \/ GetLives(Append(Tail(q), y), t, m, 0, i)
<1>0. Tail(q) \in Seq(Item) /\ Head(q) = q[1]
  BY TailParts
<1>1. CASE /\ Clean(q, m, "sub", i, r)
           /\ \E x \in Elems(q) \cup t : About(x, "sub", i) /\ x.kind \in {"call", "timeout"}
  <2>1. Clean(Tail(q), m, "sub", i, 0)
    BY <1>1, CleanTail
  <2>2. Elems(q) = {Head(q)} \cup Elems(Tail(q))
    BY ElemsPop
  <2>3. SubLives(Tail(q), t, m, 0, i)
    BY <1>1, <2>1, <2>2 DEF SubLives
  <2> QED
    BY <1>0, <2>3, SubPost
<1>2. ASSUME NEW k \in 1..Len(q), About(q[k], "sub", i), q[k].kind = "status", Few(q, m, "get", i, k)
      PROVE  SubLives(Append(Tail(q), y), t, m, 0, i) \/ GetLives(Append(Tail(q), y), t, m, 0, i)
  <2>1. CASE k = 1
    <3>1. Few(Tail(q), m, "get", i, 0)
      BY <1>2, <2>1, OneTail DEF Few
    <3>2. Clean(Tail(q), m, "get", i, 0) /\ y \notin Lates("get", i)
      BY <3>1 DEF Clean, Lates
    <3>3. Clean(Append(Tail(q), y), m, "get", i, 0)
      BY <1>0, <3>2, CleanAppend
    <3>4. Elems(Append(Tail(q), y)) = Elems(Tail(q)) \cup {y}
      BY <1>0, ElemsPost
    <3> QED
      BY <3>3, <3>4 DEF GetLives
  <2>2. CASE k # 1
    <3>1. SubLives(Tail(q), t, m, 0, i)
      BY <1>2, <2>2, AnsweredUp
    <3> QED
      BY <1>0, <3>1, SubPost
  <2> QED
    BY <2>1, <2>2
<1> QED
  BY <1>1, <1>2 DEF SubLives

\* A time-out is handled: the request is repeated if it was the first.
LEMMA SubTimedOut ==
    ASSUME NEW q \in Seq(Item), q # <<>>, NEW t, NEW m, NEW i, NEW r, SubLives(q, t, m, r, i),
           Head(q) \in Lates("sub", i),
           NEW y \in Item, About(y, "sub", i), y.kind = "call",
           NEW q2 \in {Tail(q), Append(Tail(q), y)}, r = 0 => q2 = Append(Tail(q), y), NEW r2
    PROVE  SubLives(q2, t, m, r2, i)
<1>0. Tail(q) \in Seq(Item) /\ Head(q) = q[1]
  BY TailParts
<1>1. CASE Clean(q, m, "sub", i, r)
  <2>1. r = 0 /\ Clean(Tail(q), m, "sub", i, r2)
    BY <1>1, CleanTaken
  <2>2. Elems(Append(Tail(q), y)) = Elems(Tail(q)) \cup {y}
    BY <1>0, ElemsPost
  <2>3. Clean(Append(Tail(q), y), m, "sub", i, r2)
    <3>1. y \notin Lates("sub", i)
      BY DEF Lates
    <3> QED
      BY <1>0, <2>1, <3>1, CleanAppend
  <2> QED
    BY <2>1, <2>2, <2>3 DEF SubLives
<1>2. ASSUME NEW k \in 1..Len(q), About(q[k], "sub", i), q[k].kind = "status", Few(q, m, "get", i, k)
      PROVE  SubLives(q2, t, m, r2, i)
  <2>1. k # 1
    BY <1>0, <1>2 DEF Lates
  <2>2. SubLives(Tail(q), t, m, r2, i)
    BY <1>2, <2>1, AnsweredUp
  <2> QED
    BY <1>0, <2>2, SubPost
<1> QED
  BY <1>1, <1>2 DEF SubLives

\* The same for the GET, which is always repeated: it had no other time-out.
LEMMA GetTimedOut ==
    ASSUME NEW q \in Seq(Item), q # <<>>, NEW t, NEW m, NEW i, NEW r, GetLives(q, t, m, r, i),
           Head(q) \in Lates("get", i),
           NEW y \in Item, About(y, "get", i), y.kind = "call", NEW r2
    PROVE  r = 0 /\ GetLives(Append(Tail(q), y), t, m, r2, i)
<1>0. Tail(q) \in Seq(Item)
  BY TailParts
<1>1. r = 0 /\ Clean(Tail(q), m, "get", i, r2)
  BY CleanTaken DEF GetLives
<1>2. Elems(Append(Tail(q), y)) = Elems(Tail(q)) \cup {y}
  BY <1>0, ElemsPost
<1>3. y \notin Lates("get", i)
  BY DEF Lates
<1>4. Clean(Append(Tail(q), y), m, "get", i, r2)
  BY <1>0, <1>1, <1>3, CleanAppend
<1> QED
  BY <1>1, <1>2, <1>4 DEF GetLives

\* The light answers the request u, and is heard.
LEMMA SubHeard ==
    ASSUME NEW q \in Seq(Item), NEW t, NEW u \in t, u.kind = "call", NEW m, NEW i, NEW r,
           SubLives(q, t, m, r, i),
           NEW y \in Item, y.kind = "status", y.op = u.op, y.node = u.node
    PROVE  SubLives(Append(q, y), t \ {u}, m, r, i)
<1>1. y \notin Lates("sub", i) /\ y \notin Lates("get", i)
  BY DEF Lates
<1>2. Elems(Append(q, y)) = Elems(q) \cup {y}
  BY ElemsPost
<1>3. ASSUME Clean(q, m, "sub", i, r),
             NEW x \in Elems(q) \cup t, About(x, "sub", i), x.kind \in {"call", "timeout"}
      PROVE  SubLives(Append(q, y), t \ {u}, m, r, i)
  <2>1. CASE x # u
    <3>1. Clean(Append(q, y), m, "sub", i, r) /\ x \in Elems(Append(q, y)) \cup (t \ {u})
      BY <1>1, <1>2, <1>3, <2>1, CleanAppend
    <3> QED
      BY <1>3, <3>1 DEF SubLives
  <2>2. CASE x = u
    <3>1. /\ Len(q) \in Nat /\ Len(Append(q, y)) = Len(q) + 1
          /\ Append(q, y)[Len(q) + 1] = y
      BY AppendParts
    <3> DEFINE n == Len(q) + 1
    <3>2. n \in 1..Len(Append(q, y)) /\ Append(q, y)[n] = y
      BY <3>1
    <3>3. Few(Append(q, y), m, "get", i, n)
      <4>1. (n + 1)..Len(Append(q, y)) = {}
        BY <3>1
      <4> QED
        BY <4>1 DEF Few, OnlyOne
    <3>4. About(y, "sub", i)
      BY <1>3, <2>2 DEF About
    <3> QED
      BY <3>2, <3>3, <3>4 DEF SubLives
  <2> QED
    BY <2>1, <2>2
<1>4. ASSUME NEW k \in 1..Len(q), About(q[k], "sub", i), q[k].kind = "status", Few(q, m, "get", i, k)
      PROVE  SubLives(Append(q, y), t \ {u}, m, r, i)
  <2>1. k \in Nat
    BY LenProperties
  <2>2. Few(Append(q, y), m, "get", i, k)
    BY <1>1, <1>4, <2>1, OneAppend DEF Few
  <2> QED
    BY <1>4, <2>2, AnsweredStays
<1> QED
  BY <1>3, <1>4 DEF SubLives

\* The same for the GET.
LEMMA GetHeard ==
    ASSUME NEW q \in Seq(Item), NEW t, NEW u \in t, u.kind = "call", NEW m, NEW i, NEW r,
           GetLives(q, t, m, r, i),
           NEW y \in Item, y.kind = "status", y.op = u.op, y.node = u.node
    PROVE  GetLives(Append(q, y), t \ {u}, m, r, i)
<1>1. Clean(Append(q, y), m, "get", i, r)
  BY CleanAppend DEF GetLives, Lates
<1>2. Elems(Append(q, y)) = Elems(q) \cup {y}
  BY ElemsPost
<1>3. About(u, "get", i) => About(y, "get", i)
  BY DEF About
<1> QED
  BY <1>1, <1>2, <1>3 DEF GetLives

\* The request u, whose answer was missed, times out.
LEMMA SubMissed ==
    ASSUME NEW q \in Seq(Item), NEW t, NEW m, m \subseteq t, NEW u \in m, NEW i, NEW r,
           \A v \in t : (v.op = u.op /\ v.node = u.node) => v = u,
           SubLives(q, t, m, r, i),
           NEW y \in Item, y.kind = "timeout", y.op = u.op, y.node = u.node
    PROVE  SubLives(Append(q, y), t \ {u}, m \ {u}, r, i)
<1>1. \A o : /\ About(y, o, i) <=> About(u, o, i)
             /\ \A v \in m : (About(v, o, i) /\ About(u, o, i)) => v = u
  BY DEF About
<1>2. Elems(Append(q, y)) = Elems(q) \cup {y}
  BY ElemsPost
<1>3. CASE /\ Clean(q, m, "sub", i, r)
           /\ \E x \in Elems(q) \cup t : About(x, "sub", i) /\ x.kind \in {"call", "timeout"}
  <2>1. Clean(Append(q, y), m \ {u}, "sub", i, r)
    BY <1>1, <1>3, CleanEnds
  <2> QED
    BY <1>1, <1>2, <1>3, <2>1 DEF SubLives
<1>4. ASSUME NEW k \in 1..Len(q), About(q[k], "sub", i), q[k].kind = "status", Few(q, m, "get", i, k)
      PROVE  SubLives(Append(q, y), t \ {u}, m \ {u}, r, i)
  <2>1. k \in Nat
    BY LenProperties
  <2>2. Few(Append(q, y), m \ {u}, "get", i, k)
    BY <1>1, <1>4, <2>1, FewEnds
  <2> QED
    BY <1>4, <2>2, AnsweredStays
<1> QED
  BY <1>3, <1>4 DEF SubLives

\* The same for the GET.
LEMMA GetMissed ==
    ASSUME NEW q \in Seq(Item), NEW t, NEW m, m \subseteq t, NEW u \in m, NEW i, NEW r,
           \A v \in t : (v.op = u.op /\ v.node = u.node) => v = u,
           GetLives(q, t, m, r, i),
           NEW y \in Item, y.kind = "timeout", y.op = u.op, y.node = u.node
    PROVE  GetLives(Append(q, y), t \ {u}, m \ {u}, r, i)
<1>1. /\ About(y, "get", i) <=> About(u, "get", i)
      /\ \A v \in m : (About(v, "get", i) /\ About(u, "get", i)) => v = u
  BY DEF About
<1>2. Elems(Append(q, y)) = Elems(q) \cup {y}
  BY ElemsPost
<1>3. Clean(Append(q, y), m \ {u}, "get", i, r)
  BY <1>1, CleanEnds DEF GetLives
<1> QED
  BY <1>1, <1>2, <1>3 DEF GetLives

-----------------------------------------------------------------------------
(* The invariant of the recovery *)

\* No command came and nothing failed: what is under way are subscriptions and GETs.
Good(x) == /\ x.op \in {"sub", "get"}
           /\ x.kind \in {"call", "status", "timeout", "error"}
           /\ x.kind = "status" /\ x.op = "get" => x.on = device[x.node].light

Undisturbed ==
    /\ \A i \in Slot : ~pending[i].inFlight
    /\ mqtt.pc \in {"idle", "sync"}
    /\ toggle = <<0, 0>>

\* Busy lets one request of a kind through to a light.
OneRequest == \A t, u \in tx : t.node = u.node /\ t.op = u.op => t = u

\* Nothing has timed out, and nothing will.
Calm == missed = {} /\ \A x \in Flow : x.kind # "timeout"

\* The mesh is deaf only in the window.
Listening ==
    /\ wifiTask # "failed"
    /\ wifiTask \in {"start", "open", "done"} => radio
    /\ wifiTask \in {"start", "open"} => Calm
    /\ recoverAgain # 0 => wifiTask = "done"

\* Until the second recovery is past light i, it is subscribed at most once, by the first.
Subs(i) == {x \in Item : About(x, "sub", i)}
SubOnce(i) == OnlyOne(btc, 0, Subs(i), AboutIn(tx, "sub", i))
NoSub(i) == \A x \in Flow : ~About(x, "sub", i)
Before(i) == wifiTask # "done" \/ recoverAgain \in 1..i
SubscribedOnce == \A i \in Slot :
    Before(i) => SubOnce(i) /\ (recoverAt \in 1..i => NoSub(i))

\* Something under way will tell the state of light i.
Lives(i) == \/ SubLives(btc, tx, missed, cfgRetries[i], i)
            \/ GetLives(btc, tx, missed, getRetries[i], i)

\* The table is right about light i, or will be.
Chain(i) == \/ nodes[i].onoff = device[i].light
            \/ recoverAgain \in 1..i
            \/ Calm /\ recoverAt \in 1..i
            \/ Lives(i)

Chains == wifiTask \in {"start", "done"} => \A i \in Paired : Chain(i)

Recovering == /\ \A x \in Flow : Good(x)
              /\ Undisturbed /\ OneRequest /\ Listening /\ SubscribedOnce /\ Chains

RecoverInv == WindowInv /\ (Unhurt => Recovering)

-----------------------------------------------------------------------------
(* What is put away stays put away *)

\* An outcome counts its failures.
LEMMA PostingCounts == ASSUME NEW p, NEW c, NEW f, NEW out \in Posting(p, c, f) PROVE out.failed \in Nat
<1>1. out = Outcome(p, <<c>>, 0) \/ out = Outcome(f, <<>>, 1)
  BY DEF Posting
<1> QED
  BY <1>1, OutcomeParts

\* To keep an entry counts none.
LEMMA KeepCounts == ASSUME NEW p, NEW out \in Keep(p) PROVE out.failed \in Nat /\ out.failed = 0
BY OutcomeParts DEF Keep

\* The parts of the command handlers count theirs.
LEMMA CommandCounts ==
    ASSUME NEW i, NEW p, NEW on, NEW id,
           NEW out \in RequestOnOff(i, p) \cup Retry(i) \cup AfterGet(i, on) \cup SendOnOff(i, p, on, id)
    PROVE  out.failed \in Nat
<1>1. \A p2 : \A o \in RequestOnOff(i, p2) : o.failed \in Nat
  BY PostingCounts DEF RequestOnOff
<1> QED
  BY <1>1, KeepCounts DEF Retry, AfterGet, SendOnOff

\* A failure is never forgotten.
LEMMA StillHurt ==
    ASSUME TypeInv, Seen, faults # 0 PROVE faults' # 0
<1> USE Numbers DEF TypeInv
<1>0. \A c \in Nat : faults + c # 0
  OBVIOUS
<1>1. CASE MarkPending \/ MarkGroup
  BY <1>1 DEF MarkPending, MarkGroup
<1>2. CASE PostCommand
  <2>1. PICK out \in Posting(pending[mqtt.at], Call("set", mqtt.at, mqtt.on), NoPending) :
          Commit(mqtt.at, btc, out)
    BY <1>2 DEF PostCommand
  <2> QED
    BY <1>0, <2>1, PostingCounts DEF Commit
<1>3. CASE StartGroupSync \/ PostGroup \/ SyncNode
  BY <1>3 DEF StartGroupSync, PostGroup, SyncNode, PostOrLog
<1>4. CASE SendUnicast \/ SendGroup
  BY <1>4 DEF SendUnicast, SendGroup
<1>5. CASE ProvComplete \/ IgnoreEvent \/ OnOffError \/ ConfigStatus \/ ConfigTimeout
  BY <1>5 DEF ProvComplete, IgnoreEvent, OnOffError, ConfigStatus, ConfigTimeout, PostOrLog
<1>6. CASE GetStatus
  <2> DEFINE e == Head(btc)
  <2>1. PICK out \in AfterGet(e.node, e.on) :
          \E last \in (IF toggle = <<e.node, e.addr>> THEN SendOnOff(e.node, out.p, 1 - e.on, NoMsg)
                       ELSE Keep(out.p)) :
            Commit(e.node, Tail(btc), Outcome(last.p, out.posts \o last.posts, out.failed + last.failed))
    BY <1>6 DEF GetStatus
  <2>2. PICK last \in SendOnOff(e.node, out.p, 1 - e.on, NoMsg) \cup Keep(out.p) :
            Commit(e.node, Tail(btc), Outcome(last.p, out.posts \o last.posts, out.failed + last.failed))
    BY <2>1
  <2>3. out.failed \in Nat /\ last.failed \in Nat
    BY <2>1, <2>2, CommandCounts, KeepCounts
  <2>4. faults' = faults + (out.failed + last.failed)
    BY <2>2, OutcomeParts DEF Commit
  <2> QED
    BY <1>0, <2>3, <2>4
<1>7. CASE SetStatus \/ SetTimeout
  <2>1. \E out, i, p : out \in Retry(i) \cup Keep(p) /\ faults' = faults + out.failed
    BY <1>7 DEF SetStatus, SetTimeout, Commit
  <2> QED
    BY <1>0, <2>1, CommandCounts, KeepCounts
<1>8. CASE GetTimeout
  <2>1. \/ faults' = faults \/ faults' = faults + 1
        \/ \E p, c, f : \E out \in Posting(p, c, f) : faults' = faults + out.failed
    BY <1>8 DEF GetTimeout, Commit, PostOrLog
  <2> QED
    BY <1>0, <2>1, PostingCounts
<1>9. CASE RecoverStep \/ \E i \in Slot : RecoverNode(i)
  BY <1>9 DEF RecoverStep, RecoverNode
<1>10. CASE Connect \/ Restart \/ UNCHANGED vars \/ \E r \in tx : Answer(r)
  BY <1>10 DEF Connect, Restart, vars, Answer
<1>11. CASE OnlyFaults \/ OnlyFlag
  BY <1>11 DEF OnlyFaults, OnlyFlag
<1>12. CASE \/ \E i \in Slot, on \in 0..1 : DispatchCommand(i, on)
            \/ \E r \in tx : OnlyLight(r) \/ OnlyTimeout(r)
  BY <1>12 DEF DispatchCommand, OnlyLight, OnlyTimeout
<1> QED
  BY <1>1, <1>2, <1>3, <1>4, <1>5, <1>6, <1>7, <1>8, <1>9, <1>10, <1>11, <1>12
     DEF Seen, Alone, MqttTask, BtcTask, Callback

\* A command is never forgotten.
LEMMA CommandsCount ==
    ASSUME TypeInv, Seen
    PROVE  \/ budget'.cmds = budget.cmds
           \/ /\ \E i \in Slot, on \in 0..1 : DispatchCommand(i, on)
              /\ budget'.cmds # 0
<1>0. budget \in Budget /\ budget.cmds \in Nat
  BY GatewayAssumption DEF TypeInv, TypeOK, Budget
<1>1. CASE MqttTask \/ BtcTask \/ RecoverStep \/ \E i \in Slot : RecoverNode(i)
  BY <1>1 DEF MqttTask, MarkPending, PostCommand, MarkGroup, StartGroupSync, PostGroup, SyncNode,
     BtcTask, SendUnicast, SendGroup, Callback, ProvComplete, IgnoreEvent, OnOffError, ConfigStatus,
     ConfigTimeout, GetStatus, SetStatus, GetTimeout, SetTimeout, RecoverStep, RecoverNode, mqttVars
<1>2. CASE Connect \/ Restart
  BY <1>0, <1>2 DEF Connect, Restart, Budget
<1>3. CASE \E i \in Slot, on \in 0..1 : DispatchCommand(i, on)
  <2>1. budget'.cmds = budget.cmds + 1
    BY <1>0, <1>3 DEF DispatchCommand, Budget
  <2> QED
    BY <1>0, <1>3, <2>1
<1>4. CASE Seen /\ ~(MqttTask \/ BtcTask \/ RecoverStep \/ \E i \in Slot : RecoverNode(i))
               /\ ~(Connect \/ Restart) /\ ~\E i \in Slot, on \in 0..1 : DispatchCommand(i, on)
  BY <1>4 DEF Seen, Alone, Answer, OnlyFaults, OnlyFlag, others, OnlyLight, OnlyTimeout, mqttVars, vars
<1> QED
  BY <1>1, <1>2, <1>3, <1>4

\* So what went wrong once, has.
LEMMA UnhurtBefore == ASSUME TypeInv, Seen, Unhurt' PROVE Unhurt
BY StillHurt, CommandsCount DEF Unhurt

-----------------------------------------------------------------------------
(* What a step does to what is under way *)

\* What the invariant says of the items.
LEMMA UnderWay ==
    ASSUME WindowInv, Recovering
    PROVE  /\ btc \in Seq(Item) /\ tx \subseteq Item /\ missed \subseteq tx
           /\ \A t \in tx : t.kind = "call"
           /\ \A x \in Flow : x \in Item /\ x.node \in Slot /\ x.node \in Paired /\ x.addr = 1
<1>1. \A x \in Flow : x.op # "group"
  BY DEF Recovering, Good
<1>2. \A x \in Flow : x \in Item /\ x.node \in Slot
  BY ItemNode DEF WindowInv, FlowType
<1>3. \A x \in Flow : x.node \in Paired /\ x.addr = 1
  BY <1>1, NobodyJoins DEF WindowInv
<1> QED
  BY <1>2, <1>3 DEF WindowInv, WindowTypeOK, FlowType, FlowInv, AddrInv, TypeInv, TypeOK

\* The items are the same.
LEMMA SameItems ==
    ASSUME WindowInv, Recovering, UNCHANGED <<btc, tx, missed, device>>
    PROVE  /\ \A x \in Flow' : Good(x)'
           /\ OneRequest'
           /\ Calm' <=> Calm
           /\ \A i \in Slot : (SubOnce(i) => SubOnce(i)') /\ (NoSub(i) => NoSub(i)')
<1>1. Flow' = Flow
  BY DEF Flow
<1>2. \A x \in Flow' : Good(x)'
  BY <1>1 DEF Recovering, Good
<1>3. OneRequest' /\ (Calm' <=> Calm)
  BY <1>1 DEF Recovering, OneRequest, Calm
<1>4. \A i \in Slot : (SubOnce(i) => SubOnce(i)') /\ (NoSub(i) => NoSub(i)')
  BY <1>1 DEF SubOnce, NoSub, Subs
<1> QED
  BY <1>2, <1>3, <1>4

\* The chains of light i go on, and its retries may be reset.
LEMMA SameLives ==
    ASSUME NEW i \in Slot, Lives(i), UNCHANGED <<btc, tx, missed>>,
           cfgRetries'[i] = cfgRetries[i], getRetries'[i] = getRetries[i]
    PROVE  Lives(i)'
BY DEF Lives

\* y is posted.
LEMMA PostedItems ==
    ASSUME WindowInv, Recovering, UNCHANGED <<tx, missed, device>>,
           NEW y \in Item, Good(y), y.kind = "call", btc' = Append(btc, y)
    PROVE  /\ \A x \in Flow' : Good(x)'
           /\ OneRequest'
           /\ Calm => Calm'
           /\ \A i \in Slot : ~About(y, "sub", i) =>
                 (SubOnce(i) => SubOnce(i)') /\ (NoSub(i) => NoSub(i)')
           /\ \A i \in Slot : NoSub(i) => SubOnce(i)'
<1>0. btc \in Seq(Item)
  BY UnderWay
<1>1. Flow' = Flow \cup {y}
  BY <1>0, ElemsPost DEF Flow
<1>2. \A x \in Flow' : Good(x)'
  BY <1>1 DEF Recovering, Good
<1>3. OneRequest' /\ (Calm => Calm')
  BY <1>1 DEF Recovering, OneRequest, Calm
<1>4. ASSUME NEW i \in Slot, ~About(y, "sub", i) PROVE (SubOnce(i) => SubOnce(i)') /\ (NoSub(i) => NoSub(i)')
  <2>1. SubOnce(i) => OnlyOne(Append(btc, y), 0, Subs(i), AboutIn(tx, "sub", i))
    BY <1>0, <1>4, OneAppend DEF SubOnce, Subs
  <2> QED
    BY <1>1, <1>4, <2>1 DEF SubOnce, NoSub, Subs
<1>5. ASSUME NEW i \in Slot, NoSub(i) PROVE SubOnce(i)'
  <2>1. AboutIn(tx, "sub", i) = {} /\ \A k \in (0 + 1)..Len(btc) : btc[k] \notin Subs(i)
    BY <1>5 DEF NoSub, AboutIn, Subs, Flow, Elems
  <2>2. OnlyOne(Append(btc, y), 0, Subs(i), {})
    BY <1>0, <2>1, OneAdded
  <2> QED
    BY <2>1, <2>2 DEF SubOnce, Subs
<1> QED
  BY <1>2, <1>3, <1>4, <1>5

\* ... and no chain is disturbed by it.
LEMMA PostedLives ==
    ASSUME WindowInv, Recovering, UNCHANGED <<tx, missed>>,
           NEW y \in Item, y.kind = "call", btc' = Append(btc, y),
           NEW i \in Slot, Lives(i),
           cfgRetries'[i] \in {cfgRetries[i], 0}, getRetries'[i] \in {getRetries[i], 0}
    PROVE  Lives(i)'
<1>0. btc \in Seq(Item)
  BY UnderWay
<1>1. SubLives(btc, tx, missed, cfgRetries[i], i) => SubLives(btc', tx', missed', cfgRetries'[i], i)
  BY <1>0, SubPost
<1>2. GetLives(btc, tx, missed, getRetries[i], i) => GetLives(btc', tx', missed', getRetries'[i], i)
  BY <1>0, GetPost
<1> QED
  BY <1>1, <1>2 DEF Lives

\* The request u ends, and y tells what came of it.
LEMMA EndedItems ==
    ASSUME WindowInv, Recovering, NEW u \in tx, tx' = tx \ {u}, missed' = missed \ {u},
           \A i \in Slot : device'[i].light = device[i].light,
           NEW y \in Item, btc' = Append(btc, y), y.op = u.op, y.node = u.node, Good(y)'
    PROVE  /\ \A x \in Flow' : Good(x)'
           /\ OneRequest'
           /\ y.kind # "timeout" => (Calm => Calm')
           /\ \A i \in Slot : (SubOnce(i) => SubOnce(i)') /\ (NoSub(i) => NoSub(i)')
<1>0. btc \in Seq(Item) /\ u \in Flow
  BY UnderWay DEF Flow
<1>1. Flow' = (Elems(btc) \cup (tx \ {u})) \cup {y}
  BY <1>0, ElemsPost DEF Flow
<1>2. \A x \in Flow' : x \in Flow \/ x = y
  BY <1>1 DEF Flow
<1>3. \A x \in Flow' : Good(x)'
  <2>1. \A x \in Flow : x.node \in Slot
    BY UnderWay
  <2> QED
    BY <1>2, <2>1 DEF Recovering, Good
<1>4. OneRequest' /\ (y.kind # "timeout" => (Calm => Calm'))
  BY <1>2 DEF Recovering, OneRequest, Calm
<1>5. ASSUME NEW i \in Slot PROVE (SubOnce(i) => SubOnce(i)') /\ (NoSub(i) => NoSub(i)')
  <2>1. /\ \A v \in tx : (About(v, "sub", i) /\ About(u, "sub", i)) => v = u
        /\ About(y, "sub", i) => About(u, "sub", i)
    BY DEF Recovering, OneRequest, About
  <2>2. SubOnce(i) => OnlyOne(Append(btc, y), 0, Subs(i), AboutIn(tx \ {u}, "sub", i))
    BY <1>0, <2>1, OneMoved DEF SubOnce, Subs
  <2> QED
    BY <1>0, <1>2, <2>1, <2>2 DEF SubOnce, NoSub, Subs
<1> QED
  BY <1>3, <1>4, <1>5


\* The head of the queue is handled, and y may be posted.
LEMMA HandledItems ==
    ASSUME WindowInv, Recovering, UNCHANGED <<tx, missed, device>>, btc # <<>>,
           \/ btc' = Tail(btc)
           \/ \E y \in Item : /\ Good(y) /\ y.kind # "timeout" /\ btc' = Append(Tail(btc), y)
                              /\ y.op = "sub" => Head(btc).op = "sub" /\ Head(btc).node = y.node
    PROVE  /\ \A x \in Flow' : Good(x)'
           /\ OneRequest'
           /\ Calm => Calm'
           /\ \A i \in Slot : (SubOnce(i) => SubOnce(i)') /\ (NoSub(i) => NoSub(i)')
<1> DEFINE h == Head(btc)
<1>0. /\ btc \in Seq(Item) /\ Tail(btc) \in Seq(Item) /\ h \in Item
      /\ Elems(btc) = {h} \cup Elems(Tail(btc)) /\ h \in Flow
  BY UnderWay, TailParts, ElemsPop DEF Flow
<1> HIDE DEF h
<1>1. \A i \in Slot : SubOnce(i) => OnlyOne(Tail(btc), 0, Subs(i), AboutIn(tx, "sub", i))
  BY <1>0, OneTail DEF SubOnce
<1>2. CASE btc' = Tail(btc)
  <2>1. Flow' \subseteq Flow
    BY <1>0, <1>2 DEF Flow
  <2>2. \A x \in Flow' : Good(x)'
    BY <2>1 DEF Recovering, Good
  <2>3. OneRequest' /\ (Calm => Calm')
    BY <2>1 DEF Recovering, OneRequest, Calm
  <2>4. \A i \in Slot : (SubOnce(i) => SubOnce(i)') /\ (NoSub(i) => NoSub(i)')
    BY <1>1, <1>2, <2>1 DEF SubOnce, NoSub, Subs
  <2> QED
    BY <2>2, <2>3, <2>4
<1>3. ASSUME NEW y \in Item, Good(y), y.kind # "timeout", btc' = Append(Tail(btc), y),
             y.op = "sub" => h.op = "sub" /\ h.node = y.node
      PROVE  /\ \A x \in Flow' : Good(x)'
             /\ OneRequest'
             /\ Calm => Calm'
             /\ \A i \in Slot : (SubOnce(i) => SubOnce(i)') /\ (NoSub(i) => NoSub(i)')
  <2>1. Flow' \subseteq Flow \cup {y}
    BY <1>0, <1>3, ElemsPost DEF Flow
  <2>2. \A x \in Flow' : Good(x)'
    BY <1>3, <2>1 DEF Recovering, Good
  <2>3. OneRequest' /\ (Calm => Calm')
    BY <1>3, <2>1 DEF Recovering, OneRequest, Calm
  <2>4. ASSUME NEW i \in Slot, NoSub(i) PROVE NoSub(i)'
    BY <1>0, <1>3, <2>1, <2>4 DEF NoSub, About
  <2>5. ASSUME NEW i \in Slot, SubOnce(i) PROVE SubOnce(i)'
    <3>1. CASE y \notin Subs(i)
      <4>1. OnlyOne(Append(Tail(btc), y), 0, Subs(i), AboutIn(tx, "sub", i))
        BY <1>0, <1>1, <2>5, <3>1, OneAppend
      <4> QED
        BY <1>3, <4>1 DEF SubOnce, Subs
    <3>2. CASE y \in Subs(i)
      <4>1. h \in Subs(i)
        BY <1>0, <1>3, <3>2 DEF Subs, About
      <4>2. AboutIn(tx, "sub", i) = {} /\ \A k \in 1..Len(Tail(btc)) : Tail(btc)[k] \notin Subs(i)
        BY <1>0, <2>5, <4>1, OneTaken DEF SubOnce, h
      <4>3. \A k \in (0 + 1)..Len(Tail(btc)) : Tail(btc)[k] \notin Subs(i)
        BY <4>2
      <4>4. OnlyOne(Append(Tail(btc), y), 0, Subs(i), {})
        BY <1>0, <4>3, OneAdded
      <4> QED
        BY <1>3, <4>2, <4>4 DEF SubOnce, Subs
    <3> QED
      BY <3>1, <3>2
  <2> QED
    BY <2>2, <2>3, <2>4, <2>5
<1> QED
  BY <1>2, <1>3 DEF h

\* The head of the queue is a call, and sent.
LEMMA SentItems ==
    ASSUME WindowInv, Recovering, UNCHANGED <<missed, device>>, btc # <<>>,
           Head(btc).kind = "call", ~Busy(Head(btc)), tx' = tx \cup {Head(btc)}, btc' = Tail(btc)
    PROVE  /\ \A x \in Flow' : Good(x)'
           /\ OneRequest'
           /\ Calm => Calm'
           /\ \A i \in Slot : (SubOnce(i) => SubOnce(i)') /\ (NoSub(i) => NoSub(i)')
<1> DEFINE h == Head(btc)
<1>0. /\ btc \in Seq(Item) /\ Tail(btc) \in Seq(Item) /\ h \in Item
      /\ Elems(btc) = {h} \cup Elems(Tail(btc)) /\ h \in Flow
  BY UnderWay, TailParts, ElemsPop DEF Flow
<1>1. \A t \in tx : ~(t.node = h.node /\ t.op = h.op)
  <2>1. h.addr = 1 /\ \A t \in tx : t.addr = 1
    BY <1>0, UnderWay DEF Flow
  <2> QED
    BY <2>1 DEF Busy, SameClient
<1>2. tx' = tx \cup {h}
  OBVIOUS
<1> HIDE DEF h
<1>3. Flow' = Flow
  BY <1>0, <1>2 DEF Flow
<1>4. \A x \in Flow' : Good(x)'
  BY <1>3 DEF Recovering, Good
<1>5. OneRequest' /\ (Calm => Calm')
  BY <1>1, <1>2, <1>3 DEF Recovering, OneRequest, Calm
<1>6. \A i \in Slot : NoSub(i) => NoSub(i)'
  BY <1>3 DEF NoSub
<1>7. ASSUME NEW i \in Slot, SubOnce(i) PROVE SubOnce(i)'
  <2>1. CASE h \in Subs(i)
    <3>1. \A k \in 1..Len(Tail(btc)) : Tail(btc)[k] \notin Subs(i)
      BY <1>0, <1>7, <2>1, OneTaken DEF SubOnce, h
    <3>2. OnlyOne(Tail(btc), 0, Subs(i), AboutIn(tx \cup {h}, "sub", i))
      BY <3>1 DEF OnlyOne
    <3> QED
      BY <1>2, <3>2 DEF SubOnce, Subs
  <2>2. CASE h \notin Subs(i)
    <3>1. AboutIn(tx \cup {h}, "sub", i) = AboutIn(tx, "sub", i)
      BY <1>0, <2>2 DEF AboutIn, Subs
    <3>2. OnlyOne(Tail(btc), 0, Subs(i), AboutIn(tx, "sub", i))
      BY <1>0, <1>7, OneTail DEF SubOnce
    <3> QED
      BY <1>2, <3>1, <3>2 DEF SubOnce, Subs
  <2> QED
    BY <2>1, <2>2
<1> QED
  BY <1>4, <1>5, <1>6, <1>7

-----------------------------------------------------------------------------
(* The BTC task *)

\* Without failures and commands, it handles the head of the queue in one of these ways.
HandledAs(h, q) ==
    \/ /\ h.kind = "call" /\ ~Busy(h) /\ tx' = tx \cup {h} /\ btc' = q
       /\ UNCHANGED <<nodes, getRetries, cfgRetries>>
    \/ /\ h.kind = "call" /\ Busy(h) /\ btc' = Append(q, Event("error", h, 0))
       /\ UNCHANGED <<tx, nodes, getRetries, cfgRetries>>
    \/ /\ h.kind = "error" /\ btc' = q
       /\ UNCHANGED <<tx, nodes, getRetries, cfgRetries>>
    \/ /\ h.kind = "status" /\ h.op = "sub" /\ btc' = Append(q, Call("get", h.node, 0))
       /\ cfgRetries' = [cfgRetries EXCEPT ![h.node] = 0]
       /\ getRetries' = [getRetries EXCEPT ![h.node] = 0]
       /\ UNCHANGED <<tx, nodes>>
    \/ /\ h.kind = "timeout" /\ h.op = "sub"
       /\ IF cfgRetries[h.node] >= MaxRetries
          THEN btc' = q /\ cfgRetries' = [cfgRetries EXCEPT ![h.node] = 0]
          ELSE /\ btc' = Append(q, Call("sub", h.node, 0))
               /\ cfgRetries' = [cfgRetries EXCEPT ![h.node] = @ + 1]
       /\ UNCHANGED <<tx, nodes, getRetries>>
    \/ /\ h.kind = "status" /\ h.op = "get" /\ btc' = q
       /\ nodes' = [nodes EXCEPT ![h.node].onoff = h.on]
       /\ getRetries' = [getRetries EXCEPT ![h.node] = 0]
       /\ UNCHANGED <<tx, cfgRetries>>
    \/ /\ h.kind = "timeout" /\ h.op = "get"
       /\ IF getRetries[h.node] >= MaxRetries
          THEN btc' = q /\ getRetries' = [getRetries EXCEPT ![h.node] = 0]
          ELSE /\ btc' = Append(q, Call("get", h.node, 0))
               /\ getRetries' = [getRetries EXCEPT ![h.node] = @ + 1]
       /\ UNCHANGED <<tx, nodes, cfgRetries>>

\* An entry that is not in flight is written.
LEMMA NobodyPending ==
    ASSUME TypeInv, \A i \in Slot : ~pending[i].inFlight, NEW j \in Slot, NEW p, ~p.inFlight,
           pending' = [pending EXCEPT ![j] = p]
    PROVE  \A i \in Slot : ~pending'[i].inFlight
BY DEF TypeInv, TypeOK

\* These are all its ways: no other event is under way, and no entry is in flight.
LEMMA Handled ==
    ASSUME WindowInv, Recovering, BtcTask, faults = 0, faults' = 0
    PROVE  /\ btc # <<>> /\ HandledAs(Head(btc), Tail(btc))
           /\ Undisturbed'
           /\ UNCHANGED <<device, recoverAt>>
<1> DEFINE h == Head(btc)
<1>0. /\ TypeInv /\ Undisturbed /\ btc \in Seq(Item)
  BY UnderWay DEF WindowInv, FlowType, Recovering
<1>1. btc # <<>>
  BY DEF BtcTask, SendUnicast, SendGroup, Callback, ProvComplete, IgnoreEvent, OnOffError, ConfigStatus,
     ConfigTimeout, GetStatus, SetStatus, GetTimeout, SetTimeout, Arrives
<1>2. h \in Item /\ h \in Flow /\ Elems(btc) = {h} \cup Elems(Tail(btc))
  BY <1>0, <1>1, TailParts, ElemsPop DEF Flow
<1>3. Good(h) /\ h.node \in Slot /\ h.node \in Paired /\ h.addr = 1
  BY <1>2, UnderWay DEF Recovering
<1>4. Known /\ nodes[h.node].unicast = 1
  BY <1>3 DEF Known, WindowInv, Configured
<1>5. /\ \A i \in Slot : ~pending[i].inFlight
      /\ toggle = <<0, 0>> /\ mqtt.pc \in {"idle", "sync"} /\ h.node # 0
  BY <1>0, <1>3, GatewayAssumption DEF Undisturbed, Slot
<1>6. CASE SendUnicast
  <2>1. \/ ~Busy(h) /\ tx' = tx \cup {h} /\ btc' = Tail(btc)
        \/ Busy(h) /\ tx' = tx /\ btc' = Append(Tail(btc), Event("error", h, 0))
    BY <1>6 DEF SendUnicast
  <2>2. h.kind = "call" /\ UNCHANGED <<gatewayVars, device, mqttVars, taskVars>>
    BY <1>6 DEF SendUnicast
  <2>3. HandledAs(h, Tail(btc))
    BY <2>1, <2>2 DEF HandledAs, gatewayVars
  <2> QED
    BY <1>1, <1>5, <2>2, <2>3 DEF Undisturbed, gatewayVars, mqttVars, taskVars
<1>7. CASE SendGroup \/ ProvComplete \/ SetStatus \/ SetTimeout
  BY <1>3, <1>7 DEF SendGroup, ProvComplete, SetStatus, SetTimeout, Arrives, Good
<1>8. CASE IgnoreEvent
  <2>1. h.kind = "error" /\ btc' = Tail(btc) /\ UNCHANGED <<gatewayVars, tx, device, mqttVars, taskVars>>
    BY <1>3, <1>4, <1>8 DEF IgnoreEvent, Arrives, Good
  <2>2. HandledAs(h, Tail(btc))
    BY <2>1 DEF HandledAs, gatewayVars
  <2> QED
    BY <1>1, <1>5, <2>1, <2>2 DEF Undisturbed, gatewayVars, mqttVars, taskVars
<1>9. CASE OnOffError
  <2>1. h.kind = "error" /\ btc' = Tail(btc) /\ pending' = [pending EXCEPT ![h.node] = NoPending]
        /\ UNCHANGED <<nodes, getRetries, cfgRetries, toggle, tx, device, mqttVars, taskVars>>
    BY <1>9 DEF OnOffError, Arrives
  <2>2. \A i \in Slot : ~pending'[i].inFlight
    BY <1>0, <1>3, <1>5, <2>1, NobodyPending, NothingPending
  <2>3. HandledAs(h, Tail(btc))
    BY <2>1 DEF HandledAs
  <2> QED
    BY <1>1, <1>5, <2>1, <2>2, <2>3 DEF Undisturbed, mqttVars, taskVars
<1>10. CASE ConfigStatus
  <2>1. h.kind = "status" /\ h.op = "sub" /\ NextCfgOp[h.op] = "get"
    BY <1>3, <1>10 DEF ConfigStatus, Arrives, Good, CfgOps, NextCfgOp
  <2>2. /\ cfgRetries' = [cfgRetries EXCEPT ![h.node] = 0]
        /\ getRetries' = [getRetries EXCEPT ![h.node] = 0]
        /\ toggle' = toggle
        /\ UNCHANGED <<nodes, pending, tx, device, mqttVars, taskVars>>
    BY <1>10, <2>1 DEF ConfigStatus
  <2>3. btc' = Append(Tail(btc), Call("get", h.node, 0))
    BY <1>10, <2>1 DEF ConfigStatus, PostOrLog
  <2>4. HandledAs(h, Tail(btc))
    BY <2>1, <2>2, <2>3 DEF HandledAs
  <2> QED
    BY <1>1, <1>5, <2>2, <2>4 DEF Undisturbed, mqttVars, taskVars
<1>11. CASE ConfigTimeout
  <2>1. h.kind = "timeout" /\ h.op = "sub"
    BY <1>3, <1>11 DEF ConfigTimeout, Arrives, Good, CfgOps
  <2>2. UNCHANGED <<nodes, pending, getRetries, toggle, tx, device, mqttVars, taskVars>>
    BY <1>11 DEF ConfigTimeout
  <2>3. IF cfgRetries[h.node] >= MaxRetries
        THEN btc' = Tail(btc) /\ cfgRetries' = [cfgRetries EXCEPT ![h.node] = 0]
        ELSE /\ btc' = Append(Tail(btc), Call("sub", h.node, 0))
             /\ cfgRetries' = [cfgRetries EXCEPT ![h.node] = @ + 1]
    BY <1>11, <2>1 DEF ConfigTimeout, PostOrLog
  <2>4. HandledAs(h, Tail(btc))
    BY <2>1, <2>2, <2>3 DEF HandledAs
  <2> QED
    BY <1>1, <1>5, <2>2, <2>4 DEF Undisturbed, mqttVars, taskVars
<1>12. CASE GetStatus
  <2>1. h.kind = "status" /\ h.op = "get" /\ toggle # <<h.node, h.addr>>
    BY <1>3, <1>5, <1>12 DEF GetStatus, Arrives
  <2>2. UNCHANGED <<cfgRetries, tx, device, mqtt, connected, budget, taskVars>>
    BY <1>12 DEF GetStatus
  <2>3. /\ Observe(h.node, h.on)
        /\ getRetries' = [getRetries EXCEPT ![h.node] = 0]
        /\ toggle' = toggle
    BY <1>12, <2>1 DEF GetStatus
  <2>4. PICK out \in Keep(pending[h.node]) : \E last \in Keep(out.p) :
          Commit(h.node, Tail(btc), Outcome(last.p, out.posts \o last.posts, out.failed + last.failed))
    BY <1>3, <1>5, <1>12, <2>1 DEF GetStatus, AfterGet
  <2>5. pending' = [pending EXCEPT ![h.node] = pending[h.node]] /\ btc' = Tail(btc) \o (<<>> \o <<>>)
    <3>1. PICK last \in Keep(out.p) :
            Commit(h.node, Tail(btc), Outcome(last.p, out.posts \o last.posts, out.failed + last.failed))
      BY <2>4
    <3>2. out.p = pending[h.node] /\ out.posts = <<>> /\ last.p = out.p /\ last.posts = <<>>
      BY OutcomeParts DEF Keep
    <3> DEFINE calls == out.posts \o last.posts
               failures == out.failed + last.failed
               both == Outcome(last.p, calls, failures)
    <3> HIDE DEF calls, failures
    <3>3. both.p = last.p /\ both.posts = calls
      BY OutcomeParts
    <3>4. pending' = [pending EXCEPT ![h.node] = both.p] /\ btc' = Tail(btc) \o both.posts
      BY <3>1 DEF Commit, calls, failures
    <3> QED
      BY <3>2, <3>3, <3>4 DEF calls
  <2>6. btc' = Tail(btc)
    BY <1>0, <1>1, <2>5, TailParts
  <2>7. \A i \in Slot : ~pending'[i].inFlight
    BY <1>0, <1>3, <1>5, <2>5, NobodyPending
  <2>8. HandledAs(h, Tail(btc))
    BY <2>1, <2>2, <2>3, <2>6 DEF HandledAs, Observe
  <2> QED
    BY <1>1, <1>5, <2>2, <2>3, <2>7, <2>8 DEF Undisturbed, taskVars
<1>13. CASE GetTimeout
  <2>1. h.kind = "timeout" /\ h.op = "get" /\ ~pending[h.node].inFlight
    BY <1>3, <1>5, <1>13 DEF GetTimeout, Arrives
  <2>2. UNCHANGED <<nodes, cfgRetries, toggle, tx, device, mqttVars, taskVars>>
    BY <1>13 DEF GetTimeout
  <2>3. getRetries[h.node] \in Nat /\ MaxRetries \in Nat
    BY <1>0, <1>3, Numbers DEF TypeInv, TypeOK
  <2>4. /\ IF getRetries[h.node] >= MaxRetries
           THEN btc' = Tail(btc) /\ getRetries' = [getRetries EXCEPT ![h.node] = 0]
           ELSE /\ btc' = Append(Tail(btc), Call("get", h.node, 0))
                /\ getRetries' = [getRetries EXCEPT ![h.node] = @ + 1]
        /\ pending' = pending
    BY <1>13, <2>1, <2>3 DEF GetTimeout, PostOrLog
  <2>5. HandledAs(h, Tail(btc))
    BY <2>1, <2>2, <2>4 DEF HandledAs
  <2> QED
    BY <1>1, <1>5, <2>2, <2>4, <2>5 DEF Undisturbed, mqttVars, taskVars
<1> QED
  BY <1>6, <1>7, <1>8, <1>9, <1>10, <1>11, <1>12, <1>13 DEF BtcTask, Callback

\* What is posted is a call or an error event.
LEMMA CallGood ==
    ASSUME TypeInv, NEW o \in {"sub", "get"}, NEW j \in Slot
    PROVE  /\ Call(o, j, 0) \in Item /\ Good(Call(o, j, 0)) /\ Call(o, j, 0).kind = "call"
           /\ Call(o, j, 0).op = o /\ Call(o, j, 0).node = j
<1>1. Call(o, j, 0) \in Item
  BY CallType DEF TypeInv, Ops, CfgOps
<1> QED
  BY <1>1 DEF Call, Good

\* A refused call leaves an error event about the same light.
LEMMA ErrorGood ==
    ASSUME NEW h \in Item, Good(h)
    PROVE  /\ Event("error", h, 0) \in Item /\ Good(Event("error", h, 0))
           /\ Event("error", h, 0).kind = "error"
           /\ Event("error", h, 0).op = h.op /\ Event("error", h, 0).node = h.node
<1>1. Event("error", h, 0) \in Item
  BY EventType, Zeros DEF Kinds
<1> QED
  BY <1>1 DEF Event, Good

\* The items after a step of the BTC task
LEMMA HandledKeeps ==
    ASSUME WindowInv, Recovering, UNCHANGED <<missed, device>>, btc # <<>>,
           HandledAs(Head(btc), Tail(btc))
    PROVE  /\ \A x \in Flow' : Good(x)'
           /\ OneRequest'
           /\ Calm => Calm'
           /\ \A i \in Slot : (SubOnce(i) => SubOnce(i)') /\ (NoSub(i) => NoSub(i)')
<1> DEFINE h == Head(btc)
           q == Tail(btc)
<1>0. TypeInv /\ btc \in Seq(Item)
  BY UnderWay DEF WindowInv, FlowType
<1>1. h \in Item /\ h \in Flow
  BY <1>0, TailParts, ElemsPop DEF Flow
<1>2. Good(h) /\ h.node \in Slot
  BY <1>1, UnderWay DEF Recovering
<1>3. CASE h.kind = "call" /\ ~Busy(h) /\ tx' = tx \cup {h} /\ btc' = q
  BY <1>3, SentItems
<1>4. CASE /\ UNCHANGED tx
           /\ \/ btc' = q
              \/ btc' = Append(q, Event("error", h, 0))
              \/ btc' = Append(q, Call("get", h.node, 0))
              \/ h.op = "sub" /\ btc' = Append(q, Call("sub", h.node, 0))
  <2>1. \/ btc' = q
        \/ \E y \in Item : /\ Good(y) /\ y.kind # "timeout" /\ btc' = Append(q, y)
                           /\ y.op = "sub" => h.op = "sub" /\ h.node = y.node
    <3>1. CASE btc' = Append(q, Event("error", h, 0))
      BY <1>1, <1>2, <3>1, ErrorGood
    <3>2. CASE btc' = Append(q, Call("get", h.node, 0))
      BY <1>0, <1>2, <3>2, CallGood
    <3>3. CASE h.op = "sub" /\ btc' = Append(q, Call("sub", h.node, 0))
      BY <1>0, <1>2, <3>3, CallGood
    <3> QED
      BY <1>4, <3>1, <3>2, <3>3
  <2> QED
    BY <1>4, <2>1, HandledItems
<1> QED
  BY <1>3, <1>4 DEF HandledAs

\* A chain that has nothing to do with the head of the queue, or only its request, which
\* is outstanding now, goes on.
LEMMA OthersLive ==
    ASSUME WindowInv, Recovering, UNCHANGED missed, btc # <<>>, tx \subseteq tx',
           btc' = Tail(btc) \/ \E y \in Item : y.kind # "timeout" /\ btc' = Append(Tail(btc), y),
           NEW i \in Slot,
           cfgRetries'[i] \in {cfgRetries[i], 0}, getRetries'[i] \in {getRetries[i], 0},
           NEW o \in {"sub", "get"},
           About(Head(btc), o, i) =>
               \/ Head(btc).kind = "error"
               \/ Head(btc).kind = "call" /\ \E x \in tx' : About(x, o, i) /\ x.kind = "call"
    PROVE  /\ o = "sub" => (SubLives(btc, tx, missed, cfgRetries[i], i) =>
                                SubLives(btc', tx', missed', cfgRetries'[i], i))
           /\ o = "get" => (GetLives(btc, tx, missed, getRetries[i], i) =>
                                GetLives(btc', tx', missed', getRetries'[i], i))
<1>0. btc \in Seq(Item) /\ Tail(btc) \in Seq(Item)
  BY UnderWay, TailParts
<1>1. ASSUME o = "sub", SubLives(btc, tx, missed, cfgRetries[i], i)
      PROVE  SubLives(btc', tx', missed', cfgRetries'[i], i)
  <2>1. SubLives(Tail(btc), tx', missed, cfgRetries'[i], i)
    BY <1>0, <1>1, SubPop
  <2> QED
    BY <1>0, <2>1, SubPost
<1>2. ASSUME o = "get", GetLives(btc, tx, missed, getRetries[i], i)
      PROVE  GetLives(btc', tx', missed', getRetries'[i], i)
  <2>1. GetLives(Tail(btc), tx', missed, getRetries'[i], i)
    BY <1>0, <1>2, GetPop
  <2> QED
    BY <1>0, <2>1, GetPost
<1> QED
  BY <1>1, <1>2

\* The chain of light i is the same after a step of the BTC task, or has ended.
LEMMA HandledLives ==
    ASSUME WindowInv, Recovering, UNCHANGED <<missed, device>>, btc # <<>>,
           HandledAs(Head(btc), Tail(btc)), MaxRetries > 0, NEW i \in Slot, Lives(i)
    PROVE  Lives(i)' \/ nodes'[i].onoff = device'[i].light
<1> DEFINE h == Head(btc)
           q == Tail(btc)
<1>0. TypeInv /\ btc \in Seq(Item) /\ q \in Seq(Item)
  BY UnderWay, TailParts DEF WindowInv, FlowType
<1>1. h \in Item /\ h \in Flow
  BY <1>0, TailParts, ElemsPop DEF Flow
<1>2. Good(h) /\ h.node \in Slot /\ h.addr = 1
  BY <1>1, UnderWay DEF Recovering
<1>3. /\ cfgRetries \in [Slot -> 0..MaxRetries] /\ getRetries \in [Slot -> 0..MaxRetries]
      /\ nodes \in [Slot -> Node] /\ MaxRetries \in Nat
  BY <1>0, Numbers DEF TypeInv, TypeOK
<1> DEFINE SubL == SubLives(btc, tx, missed, cfgRetries[i], i)
           GetL == GetLives(btc, tx, missed, getRetries[i], i)
           SubN == SubLives(btc', tx', missed', cfgRetries'[i], i)
           GetN == GetLives(btc', tx', missed', getRetries'[i], i)
<1>4. SubL \/ GetL
  BY DEF Lives
<1>5. Lives(i)' <=> SubN \/ GetN
  BY DEF Lives
<1>6. CASE h.kind \in {"call", "error"}
  <2>1. /\ tx \subseteq tx' /\ UNCHANGED <<getRetries, cfgRetries>>
        /\ btc' = q \/ btc' = Append(q, Event("error", h, 0))
    BY <1>6 DEF HandledAs
  <2>2. btc' = q \/ \E y \in Item : y.kind # "timeout" /\ btc' = Append(q, y)
    BY <1>1, <1>2, <2>1, ErrorGood
  <2>3. ASSUME NEW o \in {"sub", "get"}, About(h, o, i)
        PROVE  \/ h.kind = "error"
               \/ h.kind = "call" /\ \E x \in tx' : About(x, o, i) /\ x.kind = "call"
    <3>1. CASE tx' = tx \cup {h}
      BY <1>6, <2>3, <3>1
    <3>2. CASE Busy(h) /\ tx' = tx
      <4>1. PICK t \in tx : t.node = h.node /\ SameClient(t.op, h.op)
        BY <3>2 DEF Busy
      <4>2. t.kind = "call" /\ Good(t)
        BY UnderWay DEF Recovering, Flow
      <4>3. t.op = h.op
        BY <1>2, <4>1, <4>2 DEF SameClient, Good, CfgOps
      <4> QED
        BY <1>6, <2>3, <3>2, <4>1, <4>2, <4>3 DEF About
    <3> QED
      BY <1>6, <3>1, <3>2 DEF HandledAs
  <2>4. SubL => SubN
    BY <2>1, <2>2, <2>3, OthersLive
  <2>5. GetL => GetN
    BY <2>1, <2>2, <2>3, OthersLive
  <2> QED
    BY <1>4, <1>5, <2>4, <2>5
<1>7. CASE h.kind \in {"status", "timeout"} /\ h.node # i
  <2>1. /\ tx' = tx /\ cfgRetries'[i] \in {cfgRetries[i], 0} /\ getRetries'[i] \in {getRetries[i], 0}
        /\ \/ btc' = q \/ btc' = Append(q, Call("sub", h.node, 0)) \/ btc' = Append(q, Call("get", h.node, 0))
    BY <1>2, <1>3, <1>7 DEF HandledAs
  <2>2. btc' = q \/ \E y \in Item : y.kind # "timeout" /\ btc' = Append(q, y)
    BY <1>0, <1>2, <2>1, CallGood
  <2>3. \A o \in {"sub", "get"} : ~About(h, o, i)
    BY <1>7 DEF About
  <2>4. SubL => SubN
    BY <2>1, <2>2, <2>3, OthersLive
  <2>5. GetL => GetN
    BY <2>1, <2>2, <2>3, OthersLive
  <2> QED
    BY <1>4, <1>5, <2>4, <2>5
<1>8. CASE h.kind = "status" /\ h.op = "sub" /\ h.node = i
  <2> DEFINE y == Call("get", i, 0)
  <2>1. /\ tx' = tx /\ btc' = Append(q, y) /\ cfgRetries'[i] = 0 /\ getRetries'[i] = 0
    BY <1>2, <1>3, <1>8 DEF HandledAs
  <2>2. y \in Item /\ y.kind = "call" /\ About(y, "get", i) /\ About(h, "sub", i) /\ ~About(h, "get", i)
    BY <1>0, <1>8, CallGood DEF About
  <2> HIDE DEF y
  <2>3. ASSUME SubL PROVE SubN \/ GetN
    <3>1. SubLives(Append(q, y), tx, missed, 0, i) \/ GetLives(Append(q, y), tx, missed, 0, i)
      BY <1>0, <1>8, <2>2, <2>3, SubAnswered
    <3> QED
      BY <2>1, <3>1
  <2>4. GetL => GetN
    BY <2>1, <2>2, OthersLive
  <2> QED
    BY <1>4, <1>5, <2>3, <2>4
<1>9. CASE h.kind = "timeout" /\ h.op = "sub" /\ h.node = i
  <2> DEFINE y == Call("sub", i, 0)
  <2>1. /\ tx' = tx /\ getRetries' = getRetries
        /\ btc' \in {q, Append(q, y)}
        /\ cfgRetries[i] = 0 => btc' = Append(q, y)
    BY <1>2, <1>3, <1>9 DEF HandledAs
  <2>2. y \in Item /\ y.kind = "call" /\ About(y, "sub", i) /\ h \in Lates("sub", i) /\ ~About(h, "get", i)
    BY <1>0, <1>1, <1>9, CallGood DEF About, Lates
  <2> HIDE DEF y
  <2>3. ASSUME SubL PROVE SubN
    <3>1. \A r2 : SubLives(btc', tx, missed, r2, i)
      BY <1>0, <2>1, <2>2, <2>3, SubTimedOut
    <3> QED
      BY <2>1, <3>1
  <2>4. GetL => GetN
    <3>1. ASSUME GetL PROVE GetN
      <4>1. GetLives(q, tx, missed, getRetries[i], i)
        BY <1>0, <2>2, <3>1, GetPop
      <4> QED
        BY <1>0, <2>1, <2>2, <4>1, GetPost
    <3> QED
      BY <3>1
  <2> QED
    BY <1>4, <1>5, <2>3, <2>4
<1>10. CASE h.kind = "status" /\ h.op = "get" /\ h.node = i
  <2>1. nodes'[i].onoff = h.on
    BY <1>2, <1>3, <1>10 DEF HandledAs, Node
  <2>2. h.on = device[i].light
    BY <1>2, <1>10 DEF Good
  <2> QED
    BY <2>1, <2>2
<1>11. CASE h.kind = "timeout" /\ h.op = "get" /\ h.node = i
  <2> DEFINE y == Call("get", i, 0)
  <2>1. /\ tx' = tx /\ cfgRetries' = cfgRetries
        /\ btc' \in {q, Append(q, y)}
        /\ getRetries[i] = 0 => btc' = Append(q, y)
    BY <1>2, <1>3, <1>11 DEF HandledAs
  <2>2. y \in Item /\ y.kind = "call" /\ About(y, "get", i) /\ h \in Lates("get", i) /\ ~About(h, "sub", i)
    BY <1>0, <1>1, <1>11, CallGood DEF About, Lates
  <2> HIDE DEF y
  <2>3. ASSUME GetL PROVE GetN
    <3>1. getRetries[i] = 0 /\ \A r2 : GetLives(Append(q, y), tx, missed, r2, i)
      BY <1>0, <2>2, <2>3, GetTimedOut
    <3> QED
      BY <2>1, <3>1
  <2>4. ASSUME SubL PROVE SubN
    <3>1. SubLives(q, tx, missed, cfgRetries[i], i)
      BY <1>0, <2>2, <2>4, SubPop
    <3> QED
      BY <1>0, <2>1, <2>2, <3>1, SubPost
  <2> QED
    BY <1>4, <1>5, <2>3, <2>4
<1> QED
  BY <1>2, <1>6, <1>7, <1>8, <1>9, <1>10, <1>11 DEF Good

-----------------------------------------------------------------------------
(* The invariant is kept *)

\* A step of somebody else than the Wi-Fi task and the recoveries
LEMMA Assembled ==
    ASSUME Recovering, UNCHANGED <<wifiTask, radio, recoverAt, recoverAgain>>,
           \A x \in Flow' : Good(x)', Undisturbed', OneRequest',
           \A i \in Slot : (SubOnce(i) => SubOnce(i)') /\ (NoSub(i) => NoSub(i)'),
           wifiTask \in {"start", "open", "done"} =>
               /\ Calm => Calm'
               /\ \A i \in Slot : Lives(i) => Lives(i)' \/ nodes'[i].onoff = device'[i].light
               /\ \A i \in Slot : nodes[i].onoff = device[i].light => nodes'[i].onoff = device'[i].light
    PROVE  Recovering'
<1>1. Listening'
  BY DEF Recovering, Listening
<1>2. SubscribedOnce'
  BY DEF Recovering, SubscribedOnce, Before
<1>3. Chains'
  <2>1. \A i \in Slot : wifiTask \in {"start", "done"} /\ Chain(i) => Chain(i)'
    BY DEF Chain
  <2> QED
    BY <2>1, GatewayAssumption DEF Recovering, Chains
<1> QED
  BY <1>1, <1>2, <1>3 DEF Recovering

\* The BTC task
LEMMA BtcKeeps ==
    ASSUME WindowInv, Recovering, GatewayStep(BtcTask), faults = 0, faults' = 0, MaxRetries > 0
    PROVE  Recovering'
<1>1. BtcTask /\ UNCHANGED <<wifiTask, radio, recoverAgain, missed>>
  BY DEF GatewayStep, wifiVars
<1>2. /\ btc # <<>> /\ HandledAs(Head(btc), Tail(btc)) /\ Undisturbed' /\ UNCHANGED <<device, recoverAt>>
  BY <1>1, Handled
<1>3. /\ \A x \in Flow' : Good(x)'
      /\ OneRequest'
      /\ Calm => Calm'
      /\ \A i \in Slot : (SubOnce(i) => SubOnce(i)') /\ (NoSub(i) => NoSub(i)')
  BY <1>1, <1>2, HandledKeeps
<1>4. \A i \in Slot : Lives(i) => Lives(i)' \/ nodes'[i].onoff = device'[i].light
  BY <1>1, <1>2, HandledLives
<1>5. ASSUME NEW i \in Slot, nodes[i].onoff = device[i].light PROVE nodes'[i].onoff = device'[i].light
  <2>1. CASE nodes' = nodes
    BY <1>2, <1>5, <2>1
  <2>2. CASE /\ Head(btc).kind = "status" /\ Head(btc).op = "get"
             /\ nodes' = [nodes EXCEPT ![Head(btc).node].onoff = Head(btc).on]
    <3>1. Head(btc) \in Flow /\ nodes \in [Slot -> Node]
      BY <1>2, UnderWay, ElemsPop DEF Flow, WindowInv, FlowType, TypeInv, TypeOK
    <3>2. Head(btc).node \in Slot /\ Head(btc).on = device[Head(btc).node].light
      BY <2>2, <3>1, UnderWay DEF Recovering, Good
    <3>3. nodes'[i].onoff = IF i = Head(btc).node THEN Head(btc).on ELSE nodes[i].onoff
      BY <2>2, <3>1, <3>2 DEF Node
    <3> QED
      BY <1>2, <1>5, <3>2, <3>3
  <2> QED
    BY <1>2, <2>1, <2>2 DEF HandledAs
<1> QED
  BY <1>1, <1>2, <1>3, <1>4, <1>5, Assembled

\* Steps that change nothing that is under way
LEMMA IdleKeeps ==
    ASSUME WindowInv, Recovering, Credentials \/ Join \/ LoseStation \/ OpenSession \/ LoseSession
                                  \/ UNCHANGED windowVars
    PROVE  Recovering'
<1>1. /\ UNCHANGED <<btc, tx, missed, nodes, device, cfgRetries, getRetries, recoverAt, pending, toggle>>
      /\ UNCHANGED <<wifiTask, radio, recoverAgain>>
      /\ mqtt' = mqtt \/ mqtt'.pc = "sync"
  BY DEF Credentials, Join, LoseStation, StationLost, OpenSession, LoseSession, Connect, Idle,
     windowVars, vars, gatewayVars, mqttVars, taskVars, wifiVars
<1>2. Undisturbed'
  BY <1>1 DEF Recovering, Undisturbed
<1>3. \A i \in Slot : Lives(i) => Lives(i)'
  BY <1>1, SameLives
<1>4. /\ \A x \in Flow' : Good(x)'
      /\ OneRequest'
      /\ Calm' <=> Calm
      /\ \A i \in Slot : (SubOnce(i) => SubOnce(i)') /\ (NoSub(i) => NoSub(i)')
  BY <1>1, SameItems
<1> QED
  BY <1>1, <1>2, <1>3, <1>4, Assembled

\* The MQTT task asks a light for its state.
LEMMA SyncKeeps ==
    ASSUME WindowInv, Recovering, GatewayStep(MqttTask), faults = 0, faults' = 0
    PROVE  Recovering'
<1>0. TypeInv /\ getRetries \in [Slot -> 0..MaxRetries]
  BY DEF WindowInv, FlowType, TypeInv, TypeOK
<1>1. SyncNode /\ UNCHANGED <<wifiTask, radio, recoverAgain, missed>>
  BY DEF GatewayStep, MqttTask, MarkPending, PostCommand, MarkGroup, StartGroupSync, PostGroup,
     Recovering, Undisturbed, wifiVars
<1>2. /\ mqtt.pc = "sync" /\ mqtt.at \in Slot
      /\ UNCHANGED <<nodes, pending, cfgRetries, toggle, tx, device, recoverAt>>
      /\ mqtt' = Idle \/ mqtt'.pc = "sync"
  <2>1. mqtt \in Mqtt
    BY <1>0 DEF TypeInv, TypeOK
  <2> QED
    BY <1>0, <1>1, <2>1 DEF SyncNode, TypeInv, MqttOK, taskVars, Mqtt
<1>3. Undisturbed'
  BY <1>2 DEF Recovering, Undisturbed, Idle
<1>4. CASE UNCHANGED <<getRetries, btc>>
  <2>1. \A i \in Slot : Lives(i) => Lives(i)'
    BY <1>1, <1>2, <1>4, SameLives
  <2>2. /\ \A x \in Flow' : Good(x)'
        /\ OneRequest'
        /\ Calm' <=> Calm
        /\ \A i \in Slot : (SubOnce(i) => SubOnce(i)') /\ (NoSub(i) => NoSub(i)')
    BY <1>1, <1>2, <1>4, SameItems
  <2> QED
    BY <1>1, <1>2, <1>3, <2>1, <2>2, Assembled
<1>5. CASE /\ getRetries' = [getRetries EXCEPT ![mqtt.at] = 0]
           /\ btc' = Append(btc, Call("get", mqtt.at, 0))
  <2> DEFINE y == Call("get", mqtt.at, 0)
  <2>1. y \in Item /\ Good(y) /\ y.kind = "call" /\ y.op = "get"
    BY <1>0, <1>2, CallGood
  <2>2. btc' = Append(btc, y)
    BY <1>5
  <2> HIDE DEF y
  <2>3. \A i \in Slot : getRetries'[i] \in {getRetries[i], 0}
    BY <1>0, <1>2, <1>5
  <2>4. \A i \in Slot : Lives(i) => Lives(i)'
    BY <1>1, <1>2, <2>1, <2>2, <2>3, PostedLives
  <2>5. \A i \in Slot : ~About(y, "sub", i)
    BY <2>1 DEF About
  <2>6. /\ \A x \in Flow' : Good(x)'
        /\ OneRequest'
        /\ Calm => Calm'
        /\ \A i \in Slot : (SubOnce(i) => SubOnce(i)') /\ (NoSub(i) => NoSub(i)')
    BY <1>1, <1>2, <2>1, <2>2, <2>5, PostedItems
  <2> QED
    BY <1>1, <1>2, <1>3, <2>4, <2>6, Assembled
<1> QED
  BY <1>1, <1>4, <1>5 DEF SyncNode, PostOrLog

\* A light that is not told to switch does not.
LEMMA ObeyDark ==
    ASSUME TypeInv, NEW r \in Item, Obey(r), r.op # "set"
    PROVE  \A i \in Slot : device'[i].light = device[i].light
<1>1. r.node \in Slot /\ device \in [Slot -> Device]
  BY DEF TypeInv, TypeOK, Item
<1> DEFINE d == device[r.node]
           d2 == [d EXCEPT !.light = IF r.op = "set" THEN r.on ELSE @,
                           !.bound = (r.op = "bind") \/ @,
                           !.subscribed = (r.op = "sub") \/ @]
<1>2. \A i \in Slot : device'[i] = IF i = r.node THEN d2 ELSE device[i]
  BY <1>1 DEF Obey
<1>3. d2.light = d.light
  <2>1. d \in Device
    BY <1>1
  <2> QED
    BY <2>1 DEF Device
<1> QED
  BY <1>2, <1>3

\* The event that ends a request
LEMMA EventParts ==
    ASSUME NEW u \in Item, NEW k \in Kinds, NEW v \in 0..1
    PROVE  /\ Event(k, u, v) \in Item /\ Event(k, u, v).kind = k /\ Event(k, u, v).on = v
           /\ Event(k, u, v).op = u.op /\ Event(k, u, v).node = u.node
<1>1. Event(k, u, v) \in Item
  BY EventType
<1> QED
  BY <1>1 DEF Event

\* A light answers, or a request ends without an answer.
LEMMA EndKeeps ==
    ASSUME WindowInv, Recovering, EndRequest
    PROVE  Recovering'
<1>0. /\ TypeInv /\ btc \in Seq(Item) /\ tx \subseteq Item /\ missed \subseteq tx
      /\ \A t \in tx : t.kind = "call" /\ Good(t) /\ t.node \in Slot
  BY UnderWay DEF WindowInv, FlowType, Recovering, Flow
<1>1. PICK u \in tx : AnswerUnheard(u) \/ TimeOutUnheard(u) \/ Heard(u)
  BY DEF EndRequest
<1>2. u \in Item /\ u.op \in {"sub", "get"} /\ u.node \in Slot /\ u.kind = "call"
  BY <1>0, <1>1 DEF Good
<1>3. /\ UNCHANGED <<nodes, pending, toggle, cfgRetries, getRetries, mqtt, recoverAt>>
      /\ UNCHANGED <<wifiTask, radio, recoverAgain>>
      /\ device' = device \/ Obey(u)
  BY <1>1 DEF AnswerUnheard, TimeOutUnheard, Heard, Answer, gatewayVars, mqttVars, taskVars, wifiVars
<1>4. \A i \in Slot : device'[i].light = device[i].light
  BY <1>0, <1>2, <1>3, ObeyDark
<1>5. Undisturbed'
  BY <1>3 DEF Recovering, Undisturbed
<1>6. CASE AnswerUnheard(u)
  <2>1. ~radio /\ UNCHANGED <<btc, tx>>
    BY <1>6 DEF AnswerUnheard
  <2>2. Flow' = Flow
    BY <2>1 DEF Flow
  <2>3. \A x \in Flow' : Good(x)'
    <3>1. \A x \in Flow : x.node \in Slot
      BY UnderWay
    <3> QED
      BY <1>4, <2>2, <3>1 DEF Recovering, Good
  <2>4. OneRequest' /\ \A i \in Slot : (SubOnce(i) => SubOnce(i)') /\ (NoSub(i) => NoSub(i)')
    BY <2>1, <2>2 DEF Recovering, OneRequest, SubOnce, NoSub, Subs
  <2>5. wifiTask \notin {"start", "open", "done"}
    BY <2>1 DEF Recovering, Listening
  <2> QED
    BY <1>3, <1>5, <2>3, <2>4, <2>5, Assembled
<1>7. CASE TimeOutUnheard(u)
  <2>1. PICK y \in Item : /\ y.kind = "timeout" /\ y.op = u.op /\ y.node = u.node
                          /\ btc' = Append(btc, y)
    <3>1. btc' = Append(btc, Event("timeout", u, 0)) /\ "timeout" \in Kinds
      BY <1>7 DEF TimeOutUnheard, Kinds
    <3> QED
      BY <1>2, <3>1, EventParts, Zeros
  <2>2. tx' = tx \ {u} /\ missed' = missed \ {u} /\ (~radio \/ u \in missed)
    BY <1>7 DEF TimeOutUnheard
  <2>3. Good(y)'
    BY <1>2, <2>1 DEF Good
  <2>4. /\ \A x \in Flow' : Good(x)'
        /\ OneRequest'
        /\ \A i \in Slot : (SubOnce(i) => SubOnce(i)') /\ (NoSub(i) => NoSub(i)')
    BY <1>1, <1>4, <2>1, <2>2, <2>3, EndedItems
  <2>5. ASSUME wifiTask \in {"start", "open", "done"}
        PROVE  /\ Calm => Calm'
               /\ \A i \in Slot : Lives(i) => Lives(i)'
    <3>1. u \in missed
      BY <2>2, <2>5 DEF Recovering, Listening
    <3>2. \A v \in tx : (v.op = u.op /\ v.node = u.node) => v = u
      BY <1>1 DEF Recovering, OneRequest
    <3>3. ASSUME NEW i \in Slot, Lives(i) PROVE Lives(i)'
      <4>1. SubLives(btc, tx, missed, cfgRetries[i], i) => SubLives(btc', tx', missed', cfgRetries'[i], i)
        <5>1. SubLives(btc, tx, missed, cfgRetries[i], i)
                => SubLives(Append(btc, y), tx \ {u}, missed \ {u}, cfgRetries[i], i)
          BY <1>0, <2>1, <3>1, <3>2, SubMissed
        <5> QED
          BY <1>3, <2>1, <2>2, <5>1
      <4>2. GetLives(btc, tx, missed, getRetries[i], i) => GetLives(btc', tx', missed', getRetries'[i], i)
        <5>1. GetLives(btc, tx, missed, getRetries[i], i)
                => GetLives(Append(btc, y), tx \ {u}, missed \ {u}, getRetries[i], i)
          BY <1>0, <2>1, <3>1, <3>2, GetMissed
        <5> QED
          BY <1>3, <2>1, <2>2, <5>1
      <4> QED
        BY <3>3, <4>1, <4>2 DEF Lives
    <3> QED
      BY <3>1, <3>3 DEF Calm
  <2> QED
    BY <1>3, <1>4, <1>5, <2>4, <2>5, Assembled
<1>8. CASE Heard(u)
  <2>1. PICK y \in Item : /\ y.kind = "status" /\ y.op = u.op /\ y.node = u.node
                          /\ y.on = device'[u.node].light /\ btc' = Append(btc, y)
    <3>1. device'[u.node].light \in 0..1 /\ "status" \in Kinds
      BY <1>0, <1>2, <1>4 DEF TypeInv, TypeOK, Device, Kinds
    <3>2. btc' = Append(btc, Event("status", u, device'[u.node].light))
      BY <1>8 DEF Heard, Answer
    <3> QED
      BY <1>2, <3>1, <3>2, EventParts
  <2>2. u \notin missed /\ tx' = tx \ {u} /\ missed' = missed
    BY <1>8 DEF Heard, Answer
  <2>3. Good(y)' /\ missed' = missed \ {u}
    BY <1>2, <2>1, <2>2 DEF Good
  <2>4. /\ \A x \in Flow' : Good(x)'
        /\ OneRequest'
        /\ Calm => Calm'
        /\ \A i \in Slot : (SubOnce(i) => SubOnce(i)') /\ (NoSub(i) => NoSub(i)')
    BY <1>1, <1>4, <2>1, <2>2, <2>3, EndedItems
  <2>5. ASSUME NEW i \in Slot, Lives(i) PROVE Lives(i)'
    <3>1. SubLives(btc, tx, missed, cfgRetries[i], i) => SubLives(btc', tx', missed', cfgRetries'[i], i)
      <4>1. SubLives(btc, tx, missed, cfgRetries[i], i)
              => SubLives(Append(btc, y), tx \ {u}, missed, cfgRetries[i], i)
        BY <1>0, <1>1, <1>2, <2>1, SubHeard
      <4> QED
        BY <1>3, <2>1, <2>2, <4>1
    <3>2. GetLives(btc, tx, missed, getRetries[i], i) => GetLives(btc', tx', missed', getRetries'[i], i)
      <4>1. GetLives(btc, tx, missed, getRetries[i], i)
              => GetLives(Append(btc, y), tx \ {u}, missed, getRetries[i], i)
        BY <1>0, <1>1, <1>2, <2>1, GetHeard
      <4> QED
        BY <1>3, <2>1, <2>2, <4>1
    <3> QED
      BY <2>5, <3>1, <3>2 DEF Lives
  <2> QED
    BY <1>3, <1>4, <1>5, <2>4, <2>5, Assembled
<1> QED
  BY <1>1, <1>6, <1>7, <1>8

\* What a step of a recovery does: the light is subscribed again, and a chain begins
\* when this request will not be given up.
LEMMA NodeRecovered ==
    ASSUME WindowInv, Recovering, UNCHANGED missed, faults = 0, faults' = 0, NEW i \in Slot, RecoverNode(i)
    PROVE  /\ \A x \in Flow' : Good(x)'
           /\ Undisturbed' /\ OneRequest' /\ UNCHANGED <<nodes, device>>
           /\ Calm => Calm'
           /\ \A j \in Slot \ {i} : (SubOnce(j) => SubOnce(j)') /\ (NoSub(j) => NoSub(j)')
           /\ NoSub(i) => SubOnce(i)'
           /\ \A j \in Slot : Lives(j) => Lives(j)'
           /\ i \in Paired /\ (Calm \/ SubOnce(i)) => Lives(i)'
<1>0. TypeInv /\ cfgRetries \in [Slot -> 0..MaxRetries] /\ btc \in Seq(Item) /\ missed \subseteq tx
  BY UnderWay DEF WindowInv, FlowType, TypeInv, TypeOK
<1>1. Provisioned(i) <=> i \in Paired
  BY DEF WindowInv, Configured, Provisioned, Unassigned
<1>2. UNCHANGED <<nodes, pending, toggle, tx, device, mqtt>>
  BY DEF RecoverNode, mqttVars
<1>3. Undisturbed'
  BY <1>2 DEF Recovering, Undisturbed
<1>4. CASE i \notin Paired
  <2>1. UNCHANGED <<getRetries, cfgRetries, btc>>
    BY <1>1, <1>4 DEF RecoverNode
  <2>2. \A j \in Slot : Lives(j) => Lives(j)'
    BY <1>2, <2>1, SameLives
  <2>3. /\ \A x \in Flow' : Good(x)'
        /\ OneRequest'
        /\ Calm' <=> Calm
        /\ \A j \in Slot : (SubOnce(j) => SubOnce(j)') /\ (NoSub(j) => NoSub(j)')
    BY <1>2, <2>1, SameItems
  <2>4. NoSub(i) => SubOnce(i)
    BY DEF NoSub, SubOnce, OnlyOne, AboutIn, Subs, Flow, Elems
  <2> QED
    BY <1>2, <1>3, <1>4, <2>2, <2>3, <2>4
<1>5. CASE i \in Paired
  <2>1. /\ cfgRetries' = [cfgRetries EXCEPT ![i] = 0] /\ getRetries' = getRetries
        /\ btc' = Append(btc, Call("sub", i, 0))
    BY <1>1, <1>5 DEF RecoverNode, RecoverBy
  <2>2. PICK y \in Item : /\ Good(y) /\ y.kind = "call" /\ y.op = "sub" /\ y.node = i
                          /\ btc' = Append(btc, y)
    BY <1>0, <2>1, CallGood
  <2>3. /\ \A x \in Flow' : Good(x)'
        /\ OneRequest'
        /\ Calm => Calm'
        /\ \A j \in Slot \ {i} : (SubOnce(j) => SubOnce(j)') /\ (NoSub(j) => NoSub(j)')
        /\ NoSub(i) => SubOnce(i)'
    <3>1. \A j \in Slot \ {i} : ~About(y, "sub", j)
      BY <2>2 DEF About
    <3> QED
      BY <1>2, <2>2, <3>1, PostedItems
  <2>4. cfgRetries'[i] = 0 /\ \A j \in Slot : cfgRetries'[j] \in {cfgRetries[j], 0}
    BY <1>0, <2>1
  <2>5. \A j \in Slot : Lives(j) => Lives(j)'
    BY <1>2, <2>1, <2>2, <2>4, PostedLives
  <2>6. ASSUME Calm \/ SubOnce(i) PROVE Lives(i)'
    <3>1. Few(btc, missed, "sub", i, 0)
      <4>1. CASE Calm
        BY <4>1 DEF Calm, Few, OnlyOne, AboutIn, Lates, Flow, Elems
      <4>2. CASE SubOnce(i)
        <5>1. Lates("sub", i) \subseteq Subs(i) /\ AboutIn(missed, "sub", i) \subseteq AboutIn(tx, "sub", i)
          BY <1>0 DEF Lates, Subs, AboutIn
        <5> QED
          BY <4>2, <5>1 DEF SubOnce, Few, OnlyOne
      <4> QED
        BY <2>6, <4>1, <4>2
    <3>2. Clean(btc, missed, "sub", i, 0) /\ y \notin Lates("sub", i)
      BY <2>2, <3>1 DEF Clean, Lates
    <3>3. Clean(Append(btc, y), missed, "sub", i, 0)
      BY <1>0, <3>2, CleanAppend
    <3>4. Elems(Append(btc, y)) = Elems(btc) \cup {y} /\ About(y, "sub", i)
      BY <1>0, <2>2, ElemsPost DEF About
    <3>5. SubLives(Append(btc, y), tx, missed, 0, i)
      BY <2>2, <3>3, <3>4 DEF SubLives
    <3>6. SubLives(btc', tx', missed', cfgRetries'[i], i)
      BY <1>2, <2>2, <2>4, <3>5
    <3> QED
      BY <3>6 DEF Lives
  <2> QED
    BY <1>2, <1>3, <2>3, <2>5, <2>6
<1> QED
  BY <1>4, <1>5

\* The walk of a recovery: whom it has before it.
LEMMA Walk ==
    ASSUME NEW i \in 0..NumNodes, i # 0
    PROVE  /\ i \in Slot
           /\ \A j \in Slot : NextSlot(i) \in 1..j => i \in 1..j /\ i # j
           /\ \A j \in Slot : i \in 1..j /\ i # j => NextSlot(i) \in 1..j
BY GatewayAssumption DEF NextSlot, Slot

\* The first recovery
LEMMA RecoverKeeps ==
    ASSUME WindowInv, Recovering, GatewayStep(RecoverStep), faults = 0, faults' = 0
    PROVE  Recovering'
<1>0. recoverAt \in 0..NumNodes
  BY DEF WindowInv, FlowType, TypeInv, TypeOK
<1>1. /\ recoverAt # 0 /\ RecoverNode(recoverAt) /\ recoverAt' = NextSlot(recoverAt)
      /\ UNCHANGED <<wifiTask, radio, recoverAgain, missed>>
  BY DEF GatewayStep, RecoverStep, wifiVars
<1>2. PICK i \in Slot :
      /\ i = recoverAt
      /\ \A j \in Slot : recoverAt' \in 1..j => i \in 1..j /\ i # j
      /\ \A j \in Slot : i \in 1..j /\ i # j => recoverAt' \in 1..j
  BY <1>0, <1>1, Walk
<1>3. /\ \A x \in Flow' : Good(x)'
      /\ Undisturbed' /\ OneRequest' /\ UNCHANGED <<nodes, device>>
      /\ Calm => Calm'
      /\ \A j \in Slot \ {i} : (SubOnce(j) => SubOnce(j)') /\ (NoSub(j) => NoSub(j)')
      /\ NoSub(i) => SubOnce(i)'
      /\ \A j \in Slot : Lives(j) => Lives(j)'
      /\ i \in Paired /\ (Calm \/ SubOnce(i)) => Lives(i)'
  BY <1>1, <1>2, NodeRecovered
<1>4. Listening'
  BY <1>1, <1>3 DEF Recovering, Listening
<1>5. SubscribedOnce'
  <2>1. ASSUME NEW j \in Slot, Before(j)' PROVE SubOnce(j)' /\ (recoverAt' \in 1..j => NoSub(j)')
    <3>1. Before(j)
      BY <1>1, <2>1 DEF Before
    <3>2. CASE j = i
      <4>1. i \in 1..j
        BY <1>2, <3>2, GatewayAssumption DEF Slot
      <4>2. NoSub(i)
        BY <1>2, <3>1, <3>2, <4>1 DEF Recovering, SubscribedOnce
      <4> QED
        BY <1>2, <1>3, <3>2, <4>2
    <3>3. CASE j # i
      BY <1>2, <1>3, <3>1, <3>3 DEF Recovering, SubscribedOnce
    <3> QED
      BY <3>2, <3>3
  <2> QED
    BY <2>1 DEF SubscribedOnce
<1>6. Chains'
  <2>1. ASSUME wifiTask' \in {"start", "done"}, NEW j \in Paired PROVE Chain(j)'
    <3>1. Chain(j) /\ j \in Slot
      BY <1>1, <2>1, GatewayAssumption DEF Recovering, Chains
    <3>2. CASE Calm /\ recoverAt \in 1..j
      <4>1. j = i \/ recoverAt' \in 1..j
        BY <1>2, <3>1, <3>2
      <4> QED
        BY <1>3, <2>1, <3>2, <4>1 DEF Chain
    <3> QED
      BY <1>1, <1>3, <3>1, <3>2 DEF Chain
  <2> QED
    BY <2>1 DEF Chains
<1> QED
  BY <1>3, <1>4, <1>5, <1>6 DEF Recovering

\* The second recovery
LEMMA RecoverAgainKeeps ==
    ASSUME WindowInv, Recovering, RecoverAgain, faults = 0, faults' = 0
    PROVE  Recovering'
<1>0. recoverAgain \in 0..NumNodes
  BY DEF WindowInv, WindowTypeOK
<1>1. /\ recoverAgain # 0 /\ RecoverNode(recoverAgain) /\ recoverAgain' = NextSlot(recoverAgain)
      /\ UNCHANGED <<wifiTask, radio, recoverAt, missed>> /\ wifiTask = "done"
  BY DEF RecoverAgain, wifiVars, Recovering, Listening
<1>2. PICK i \in Slot :
      /\ i = recoverAgain
      /\ \A j \in Slot : recoverAgain' \in 1..j => i \in 1..j /\ i # j
      /\ \A j \in Slot : i \in 1..j /\ i # j => recoverAgain' \in 1..j
  BY <1>0, <1>1, Walk
<1>3. /\ \A x \in Flow' : Good(x)'
      /\ Undisturbed' /\ OneRequest' /\ UNCHANGED <<nodes, device>>
      /\ Calm => Calm'
      /\ \A j \in Slot \ {i} : (SubOnce(j) => SubOnce(j)') /\ (NoSub(j) => NoSub(j)')
      /\ NoSub(i) => SubOnce(i)'
      /\ \A j \in Slot : Lives(j) => Lives(j)'
      /\ i \in Paired /\ (Calm \/ SubOnce(i)) => Lives(i)'
  BY <1>1, <1>2, NodeRecovered
<1>4. Listening'
  BY <1>1, <1>3 DEF Recovering, Listening
<1>5. SubscribedOnce'
  <2>1. ASSUME NEW j \in Slot, Before(j)' PROVE SubOnce(j)' /\ (recoverAt' \in 1..j => NoSub(j)')
    <3>1. i \in 1..j /\ i # j
      BY <1>1, <1>2, <2>1 DEF Before
    <3>2. Before(j)
      BY <1>2, <3>1 DEF Before
    <3> QED
      BY <1>1, <1>3, <3>1, <3>2 DEF Recovering, SubscribedOnce
  <2> QED
    BY <2>1 DEF SubscribedOnce
<1>6. Chains'
  <2>1. ASSUME NEW j \in Paired PROVE Chain(j)'
    <3>1. Chain(j) /\ j \in Slot
      BY <1>1, <2>1, GatewayAssumption DEF Recovering, Chains
    <3>2. CASE recoverAgain \in 1..j
      <4>1. CASE j = i
        <5>1. SubOnce(i)
          BY <3>1, <3>2, <4>1 DEF Recovering, SubscribedOnce, Before
        <5> QED
          BY <1>3, <2>1, <4>1, <5>1 DEF Chain
      <4>2. CASE j # i
        BY <1>2, <3>1, <3>2, <4>2 DEF Chain
      <4> QED
        BY <4>1, <4>2
    <3> QED
      BY <1>1, <1>3, <3>1, <3>2 DEF Chain
  <2> QED
    BY <2>1 DEF Chains
<1> QED
  BY <1>3, <1>4, <1>5, <1>6 DEF Recovering

\* The Wi-Fi task opens and closes the window.
LEMMA WifiKeeps ==
    ASSUME WindowInv, Recovering, WifiTask, faults = 0, faults' = 0
    PROVE  Recovering'
<1>1. UNCHANGED <<btc, tx, missed, nodes, device, cfgRetries, getRetries, recoverAt, pending, toggle, mqtt>>
  BY DEF WifiTask, StartWifi, OpenWindow, CloseWindow, Resume, gatewayVars, mqttVars, taskVars, vars
<1>2. /\ \A x \in Flow' : Good(x)'
      /\ OneRequest'
      /\ Calm' <=> Calm
      /\ \A i \in Slot : (SubOnce(i) => SubOnce(i)') /\ (NoSub(i) => NoSub(i)')
  BY <1>1, SameItems
<1>3. Undisturbed'
  BY <1>1 DEF Recovering, Undisturbed
<1>4. \A i \in Slot : Lives(i) => Lives(i)'
  BY <1>1, SameLives
<1>5. \/ wifiTask = "start" /\ wifiTask' \in {"done", "open"} /\ UNCHANGED <<radio, recoverAgain>>
      \/ wifiTask = "open" /\ wifiTask' = "wait" /\ UNCHANGED recoverAgain
      \/ wifiTask = "wait" /\ wifiTask' = "resume" /\ UNCHANGED <<radio, recoverAgain>>
      \/ wifiTask = "resume" /\ wifiTask' = "done" /\ radio' = TRUE /\ recoverAgain' = 1
  BY DEF WifiTask, StartWifi, OpenWindow, CloseWindow, Resume, Resumed, vars
<1>6. Listening'
  BY <1>2, <1>5 DEF Recovering, Listening
<1>7. SubscribedOnce'
  BY <1>1, <1>2, <1>5 DEF Recovering, SubscribedOnce, Before
<1>8. Chains'
  <2>1. ASSUME wifiTask' \in {"start", "done"}, NEW j \in Paired PROVE Chain(j)'
    <3>0. j \in Slot
      BY GatewayAssumption
    <3>1. CASE wifiTask = "start" /\ UNCHANGED recoverAgain
      <4>1. Chain(j)
        BY <3>1 DEF Recovering, Chains
      <4> QED
        BY <1>1, <1>2, <1>4, <3>0, <3>1, <4>1 DEF Chain
    <3>2. CASE recoverAgain' = 1
      <4>1. 1 \in 1..j
        BY <3>0, GatewayAssumption DEF Slot
      <4> QED
        BY <3>2, <4>1 DEF Chain
    <3> QED
      BY <1>5, <2>1, <3>1, <3>2
  <2> QED
    BY <2>1 DEF Chains
<1> QED
  BY <1>2, <1>3, <1>6, <1>7, <1>8 DEF Recovering

\* A start: nothing is under way, and the first recovery has all lights before it.
Booted == /\ btc = <<>> /\ tx = {} /\ missed = {}
          /\ Undisturbed
          /\ wifiTask = "start" /\ radio /\ recoverAgain = 0 /\ recoverAt = 1

\* With nothing under way and all lights ahead, the invariant holds.
LEMMA BootedRecovers == Booted => Recovering
<1> SUFFICES ASSUME Booted PROVE Recovering
  OBVIOUS
<1>1. Flow = {} /\ Len(btc) = 0
  BY ElemsOfNone, EmptySeq DEF Booted, Flow
<1>2. Calm /\ OneRequest
  BY <1>1 DEF Booted, Calm, OneRequest
<1>3. Listening
  BY <1>2 DEF Booted, Listening
<1>4. SubscribedOnce
  <2>1. \A i \in Slot : SubOnce(i)
    <3>1. (0 + 1)..Len(btc) = {}
      BY <1>1
    <3> QED
      BY <3>1 DEF SubOnce, OnlyOne
  <2> QED
    BY <1>1, <2>1 DEF SubscribedOnce, NoSub
<1>5. Chains
  <2>1. \A i \in Paired : recoverAt \in 1..i
    BY GatewayAssumption DEF Booted, Slot
  <2> QED
    BY <1>2, <2>1 DEF Chains, Chain
<1> QED
  BY <1>1, <1>2, <1>3, <1>4, <1>5 DEF Booted, Recovering

\* Every step keeps it, as long as nothing fails and no command comes.
LEMMA StepRecovers ==
    ASSUME RecoverInv, WindowInv', MaxRetries > 0, [WindowNext]_windowVars, ~WindowRestart
    PROVE  RecoverInv'
<1> SUFFICES ASSUME Unhurt' PROVE Recovering'
  BY DEF RecoverInv
<1>0. WindowInv /\ Seen /\ TypeInv
  BY WindowSeen DEF RecoverInv, WindowInv, FlowType
<1>1. Unhurt /\ Recovering /\ faults = 0 /\ faults' = 0 /\ budget.cmds = 0 /\ budget'.cmds = 0
  BY <1>0, UnhurtBefore DEF RecoverInv, Unhurt
<1>2. CASE Receive
  <2>1. budget'.cmds = budget.cmds + 1
    BY <1>0, <1>2 DEF Receive, DispatchCommand, TypeInv, TypeOK, Budget
  <2> QED
    BY <1>1, <2>1
<1>3. CASE WifiTask
  BY <1>0, <1>1, <1>3, WifiKeeps
<1>4. CASE Credentials \/ Join \/ LoseStation \/ OpenSession \/ LoseSession \/ UNCHANGED windowVars
  BY <1>0, <1>1, <1>4, IdleKeeps
<1>5. CASE EndRequest
  BY <1>0, <1>1, <1>5, EndKeeps
<1>6. CASE RecoverAgain
  BY <1>0, <1>1, <1>6, RecoverAgainKeeps
<1>7. CASE GatewayStep(MqttTask)
  BY <1>0, <1>1, <1>7, SyncKeeps
<1>8. CASE GatewayStep(BtcTask)
  BY <1>0, <1>1, <1>8, BtcKeeps
<1>9. CASE GatewayStep(RecoverStep)
  BY <1>0, <1>1, <1>9, RecoverKeeps
<1> QED
  BY <1>2, <1>3, <1>4, <1>5, <1>6, <1>7, <1>8, <1>9 DEF WindowNext

\* A restart begins the recovery anew.
LEMMA RestartBoots == ASSUME WindowInv, WindowRestart PROVE Booted'
<1>1. \A i \in Slot : pending'[i] = NoPending
  BY DEF WindowRestart, Restart
<1> QED
  BY <1>1, NothingPending DEF WindowRestart, Restart, Booted, Undisturbed, Idle

\* A boot whose recovery task was started begins it, too.
LEMMA InitBoots == ASSUME Booting, "task" \notin Faults, WindowInit PROVE Booted
<1>1. \A i \in Slot : pending[i] = NoPending
  BY DEF WindowInit, GatewayInit
<1> QED
  BY <1>1, NothingPending DEF WindowInit, GatewayInit, Booted, Undisturbed, Idle

\* When nothing is under way any more, every chain has led to its answer.
LEMMA ChainsEnd == RecoverInv => WindowRecovered
<1> SUFFICES ASSUME RecoverInv, Quiescent, recoverAgain = 0, wifiTask = "done", faults = 0, budget.cmds = 0,
                    NEW i \in Slot, Provisioned(i)
             PROVE  nodes[i].onoff = device[i].light
  BY DEF WindowRecovered
<1>1. i \in Paired
  BY DEF RecoverInv, WindowInv, Configured, Provisioned, Unassigned
<1>2. Chain(i)
  BY <1>1 DEF RecoverInv, Unhurt, Recovering, Chains
<1>3. Flow = {} /\ recoverAt = 0 /\ Len(btc) = 0
  BY NothingUnderWay, EmptySeq DEF Quiescent
<1>4. ~Lives(i)
  BY <1>3 DEF Lives, SubLives, GetLives, Flow
<1>5. 0 \notin 1..i
  BY GatewayAssumption DEF Slot
<1> QED
  BY <1>2, <1>3, <1>4, <1>5 DEF Chain

\* A gateway that boots with its recovery (xTaskCreate of mesh_recover does not fail) and
\* repeats a request at least once has, in the end, the table the lights have, whatever the
\* window made it miss: when all work is done and neither a failure nor a command came
\* between, no light is left that nobody has asked since it was deaf.  One retry is enough
\* because the window is open once per boot, and lets at most one request of a kind per
\* light time out.
THEOREM WindowIsRecovered ==
    ASSUME Booting, "task" \notin Faults, MaxRetries > 0 PROVE WindowSpec => []WindowRecovered
<1>1. WindowInit => WindowInv /\ Booted
  BY InitWindow, InitBoots
<1>2. Booted /\ WindowInv => RecoverInv
  BY BootedRecovers DEF RecoverInv
<1>3. RecoverInv /\ WindowInv' /\ [WindowNext]_windowVars => RecoverInv' \/ Booted'
  <2> SUFFICES ASSUME RecoverInv, WindowInv', [WindowNext]_windowVars PROVE RecoverInv' \/ Booted'
    OBVIOUS
  <2>1. CASE WindowRestart
    BY <2>1, RestartBoots DEF RecoverInv
  <2>2. CASE ~WindowRestart
    BY <2>2, StepRecovers
  <2> QED
    BY <2>1, <2>2
<1>4. WindowSpec => []RecoverInv
  BY <1>1, <1>2, <1>3, WindowAlways, PTL DEF WindowSpec
<1> QED
  BY <1>4, ChainsEnd, PTL
=============================================================================
