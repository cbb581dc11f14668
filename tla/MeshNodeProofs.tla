--------------------------- MODULE MeshNodeProofs ---------------------------
(***************************************************************************)
(* Proofs about the BLE Mesh light, for any number of provisionings,       *)
(* messages, power failures and faults.                                    *)
(***************************************************************************)
EXTENDS MeshNode, TLAPS

-----------------------------------------------------------------------------
(* What the operators return *)

LEMMA ZeroType == Zero \in State /\ Idle \in [pc : {"idle"}, state : State]
BY NodeAssumption DEF Zero, Idle, Unassigned, State

LEMMA States ==
    /\ \A stage \in 0..7, addr \in 0..MaxAddr, onoff \in 0..1 :
         [stage |-> stage, addr |-> addr, onoff |-> onoff] \in State
    /\ \A s \in State : s.stage \in 0..7 /\ s.addr \in 0..MaxAddr /\ s.onoff \in 0..1
BY DEF State

LEMMA Events ==
    /\ \A kind \in {"set", "bind", "prov", "reset"}, addr \in 0..MaxAddr, on \in 0..1 :
         [kind |-> kind, addr |-> addr, on |-> on] \in Event
    /\ \A e \in Event : /\ e.kind \in {"set", "bind", "prov", "reset"}
                        /\ e.addr \in 0..MaxAddr /\ e.on \in 0..1
BY DEF Event

\* The queue of the BTC task: at one end the stack posts, at the other a callback takes.
LEMMA Posting ==
    ASSUME queue \in Seq(Event), NEW e \in Event, Post(e)
    PROVE  /\ queue' \in Seq(Event) /\ queue' # <<>>
           /\ Len(queue) \in Nat /\ Len(queue') = Len(queue) + 1
           /\ \A i \in 1..Len(queue) : queue'[i] = queue[i]
           /\ queue'[Len(queue) + 1] = e
BY DEF Post

LEMMA Taking ==
    ASSUME queue \in Seq(Event), queue # <<>>, queue' = Tail(queue)
    PROVE  /\ queue' \in Seq(Event) /\ Head(queue) \in Event /\ Head(queue) = queue[1]
           /\ Len(queue) \in Nat \ {0} /\ Len(queue') = Len(queue) - 1
           /\ \A i \in 1..Len(queue') : queue'[i] = queue[i + 1]
OBVIOUS

SaveTypes == [Task -> [pc : {"idle", "clamp", "ram", "open", "addr", "onoff"}, state : State]]

\* A save keeps the type of what it is given.
LEMMA SaveType ==
    ASSUME TypeOK, NEW t \in Task,
           NEW stage \in 0..7, NEW addr \in 0..MaxAddr, NEW onoff \in 0..1,
           Save(t, stage, addr, onoff)
    PROVE  /\ save' \in SaveTypes
           /\ save'[t].pc = "clamp" /\ save'[t].state.stage = stage
           /\ save'[t].state.addr = addr /\ save'[t].state.onoff = onoff
           /\ \A u \in Task \ {t} : save'[u] = save[u]
BY States DEF Save, SaveTypes, TypeOK

LEMMA GotoType ==
    ASSUME TypeOK, NEW t \in Task, NEW pc \in {"idle", "ram", "open", "addr", "onoff"}, Goto(t, pc)
    PROVE  /\ save' \in SaveTypes
           /\ save'[t].pc = pc /\ save'[t].state = save[t].state
           /\ \A u \in Task \ {t} : save'[u] = save[u]
<1>1. save[t] \in [pc : {"idle", "clamp", "ram", "open", "addr", "onoff"}, state : State]
  BY DEF TypeOK
<1>2. [save[t] EXCEPT !.pc = pc] = [pc |-> pc, state |-> save[t].state]
  BY <1>1
<1>3. save' = [save EXCEPT ![t] = [save[t] EXCEPT !.pc = pc]]
  BY DEF Goto, TypeOK
<1> QED
  BY <1>1, <1>2, <1>3 DEF SaveTypes, TypeOK

LEMMA ClampType ==
    ASSUME TypeOK, NEW s \in State
    PROVE  /\ Clamp(s) \in State
           /\ Clamp(s).stage \geq s.stage /\ Clamp(s).stage \geq ram.stage
           /\ Clamp(s).addr = IF s.addr = Unassigned THEN ram.addr ELSE s.addr
           /\ Clamp(s).onoff = s.onoff
<1>1. /\ ram.stage \in 0..7 /\ ram.addr \in 0..MaxAddr
      /\ s.stage \in 0..7 /\ s.addr \in 0..MaxAddr
  BY States DEF TypeOK
<1>2. Clamp(s) \in State
  BY <1>1 DEF Clamp, State
<1>3. /\ Clamp(s).stage = IF s.stage < ram.stage THEN ram.stage ELSE s.stage
      /\ Clamp(s).addr = IF s.addr = Unassigned THEN ram.addr ELSE s.addr
      /\ Clamp(s).onoff = s.onoff
  BY DEF Clamp, State
<1> QED
  BY <1>1, <1>2, <1>3

\* The bounds that are counted.
Counters == [addr : 0..MaxAddr, msgs : 0..MaxMessages, crashes : 0..MaxCrashes, faults : 0..MaxFaults]

LEMMA SpendType ==
    ASSUME TypeOK
    PROVE  /\ Spend("addr") /\ used.addr < MaxAddr =>
                used' \in Counters /\ used'.faults = used.faults /\ used'.addr = used.addr + 1
           /\ Spend("msgs") /\ used.msgs < MaxMessages =>
                used' \in Counters /\ used'.faults = used.faults
           /\ Spend("crashes") /\ used.crashes < MaxCrashes =>
                used' \in Counters /\ used'.faults = used.faults
           /\ Spend("faults") /\ used.faults < MaxFaults =>
                used' \in Counters /\ used'.faults # 0
<1>1. used \in Counters
  BY DEF TypeOK, Counters
<1>2. CASE Spend("addr") /\ used.addr < MaxAddr
  BY <1>1, <1>2, NodeAssumption DEF Spend, Counters
<1>3. CASE Spend("msgs") /\ used.msgs < MaxMessages
  BY <1>1, <1>3, NodeAssumption DEF Spend, Counters
<1>4. CASE Spend("crashes") /\ used.crashes < MaxCrashes
  BY <1>1, <1>4, NodeAssumption DEF Spend, Counters
<1>5. CASE Spend("faults") /\ used.faults < MaxFaults
  BY <1>1, <1>5, NodeAssumption DEF Spend, Counters
<1> QED
  BY <1>2, <1>3, <1>4, <1>5
-----------------------------------------------------------------------------
(* Type invariant *)

\* What the steps of a save change.
LEMMA SavingSteps ==
    ASSUME TypeOK, NEW t \in Task, Saving(t)
    PROVE  /\ save' \in SaveTypes /\ nvs' \in State /\ ram' \in State /\ used' \in Counters
           /\ UNCHANGED <<srv, led, main, stack, queue, raced>>
           /\ \A u \in Task \ {t} : save'[u] = save[u]
           /\ \/ /\ save[t].pc = "clamp" /\ save'[t].pc = "ram"
                 /\ save'[t].state = Clamp(save[t].state) /\ UNCHANGED <<ram, nvs, used>>
              \/ /\ save[t].pc = "ram" /\ save'[t].pc = "open" /\ ram' = save[t].state
                 /\ save'[t].state = save[t].state /\ UNCHANGED <<nvs, used>>
              \/ /\ save[t].pc = "open" /\ save'[t].pc = "addr"
                 /\ nvs' = [nvs EXCEPT !.stage = save[t].state.stage]
                 /\ save'[t].state = save[t].state /\ UNCHANGED <<ram, used>>
              \/ /\ save[t].pc = "open" /\ save'[t].pc = "idle" /\ used'.faults # 0
                 /\ UNCHANGED <<ram, nvs>>
              \/ /\ save[t].pc = "addr" /\ save'[t].pc = "onoff"
                 /\ nvs' = [nvs EXCEPT !.addr = save[t].state.addr]
                 /\ save'[t].state = save[t].state /\ UNCHANGED <<ram, used>>
              \/ /\ save[t].pc = "onoff" /\ save'[t].pc = "idle"
                 /\ nvs' = [nvs EXCEPT !.onoff = save[t].state.onoff]
                 /\ UNCHANGED <<ram, used>>
<1>1. /\ save[t].state \in State /\ ram \in State /\ nvs \in State /\ used \in Counters
      /\ save[t].state.stage \in 0..7 /\ save[t].state.addr \in 0..MaxAddr
      /\ save[t].state.onoff \in 0..1
  BY States DEF TypeOK, Counters
<1>2. CASE SaveClamp(t)
  <2>1. Clamp(save[t].state) \in State
    BY <1>1, ClampType
  <2> QED
    <3>1. /\ save' \in SaveTypes /\ save'[t] = [pc |-> "ram", state |-> Clamp(save[t].state)]
          /\ \A u \in Task \ {t} : save'[u] = save[u]
      BY <1>2, <2>1 DEF SaveClamp, SaveTypes, TypeOK
    <3> QED
      BY <1>1, <1>2, <3>1 DEF SaveClamp, At
<1>3. CASE SaveRam(t)
  <2>1. Goto(t, "open") /\ save[t].pc = "ram" /\ ram' = save[t].state
        /\ UNCHANGED <<srv, led, nvs, main, stack, queue, raced, used>>
    BY <1>3 DEF SaveRam, At
  <2>2. /\ save' \in SaveTypes /\ save'[t].pc = "open" /\ save'[t].state = save[t].state
        /\ \A u \in Task \ {t} : save'[u] = save[u]
    BY <2>1, GotoType
  <2> QED
    BY <1>1, <2>1, <2>2
<1>4. CASE SaveStage(t)
  <2>1. UNCHANGED <<srv, led, ram, main, stack, queue, raced>> /\ save[t].pc = "open"
    BY <1>4 DEF SaveStage, At
  <2>2. CASE nvs' = [nvs EXCEPT !.stage = save[t].state.stage] /\ Goto(t, "addr") /\ UNCHANGED used
    <3>1. /\ save' \in SaveTypes /\ save'[t].pc = "addr" /\ save'[t].state = save[t].state
          /\ \A u \in Task \ {t} : save'[u] = save[u]
      BY <2>2, GotoType
    <3>2. nvs' \in State
      BY <1>1, <2>2 DEF State
    <3> QED
      BY <1>1, <2>1, <2>2, <3>1, <3>2
  <2>3. CASE used.faults < MaxFaults /\ Spend("faults") /\ Goto(t, "idle") /\ UNCHANGED nvs
    <3>1. /\ save' \in SaveTypes /\ save'[t].pc = "idle"
          /\ \A u \in Task \ {t} : save'[u] = save[u]
      BY <2>3, GotoType
    <3>2. used' \in Counters /\ used'.faults # 0
      BY <2>3, SpendType
    <3> QED
      BY <1>1, <2>1, <2>3, <3>1, <3>2
  <2> QED
    BY <1>4, <2>2, <2>3 DEF SaveStage
<1>5. CASE SaveAddr(t)
  <2>1. /\ Goto(t, "onoff") /\ save[t].pc = "addr"
        /\ nvs' = [nvs EXCEPT !.addr = save[t].state.addr]
        /\ UNCHANGED <<srv, led, ram, main, stack, queue, raced, used>>
    BY <1>5 DEF SaveAddr, At
  <2>2. /\ save' \in SaveTypes /\ save'[t].pc = "onoff" /\ save'[t].state = save[t].state
        /\ \A u \in Task \ {t} : save'[u] = save[u]
    BY <2>1, GotoType
  <2>3. nvs' \in State
    BY <1>1, <2>1 DEF State
  <2> QED
    BY <1>1, <2>1, <2>2, <2>3
<1>6. CASE SaveOnOff(t)
  <2>1. /\ Goto(t, "idle") /\ save[t].pc = "onoff"
        /\ nvs' = [nvs EXCEPT !.onoff = save[t].state.onoff]
        /\ UNCHANGED <<srv, led, ram, main, stack, queue, raced, used>>
    BY <1>6 DEF SaveOnOff, At
  <2>2. /\ save' \in SaveTypes /\ save'[t].pc = "idle"
        /\ \A u \in Task \ {t} : save'[u] = save[u]
    BY <2>1, GotoType
  <2>3. nvs' \in State
    BY <1>1, <2>1 DEF State
  <2> QED
    BY <1>1, <2>1, <2>2, <2>3
<1> QED
  BY <1>2, <1>3, <1>4, <1>5, <1>6 DEF Saving

\* What the steps of app_main change.
LEMMA AppMainSteps ==
    ASSUME TypeOK, AppMain
    PROVE  /\ UNCHANGED <<nvs, stack, queue, raced>> /\ used' \in Counters
           /\ main' \in BootPc /\ srv' \in 0..1 /\ led' \in 0..1 /\ ram' \in State
           /\ save' \in SaveTypes /\ save'["btc"] = save["btc"] /\ save["main"].pc = "idle"
           /\ \/ /\ main = "load" /\ main' = "board" /\ ram' = nvs /\ srv' = nvs.onoff
                 /\ save'["main"].pc = "clamp" /\ save'["main"].state.onoff = nvs.onoff
                 /\ UNCHANGED <<led, used>>
              \/ /\ main = "board" /\ main' = "bt" /\ led' = ram.onoff
                 /\ save'["main"].pc = "clamp" /\ save'["main"].state.onoff = ram.onoff
                 /\ UNCHANGED <<srv, ram, used>>
              \/ /\ main = "bt" /\ main' = "mesh"
                 /\ save'["main"].pc = "clamp" /\ save'["main"].state.onoff = ram.onoff
                 /\ UNCHANGED <<srv, led, ram, used>>
              \/ /\ main = "bt" /\ main' = "dead" /\ used'.faults # 0
                 /\ UNCHANGED <<srv, led, ram, save>>
              \/ /\ main = "mesh" /\ main' = "final"
                 /\ save'["main"].pc = "clamp"
                 /\ save'["main"].state.addr = stack /\ save'["main"].state.onoff = srv
                 /\ UNCHANGED <<srv, led, ram, used>>
              \/ /\ main = "final" /\ main' = "done"
                 /\ UNCHANGED <<srv, led, ram, save, used>>
<1>1. /\ ram \in State /\ nvs \in State /\ used \in Counters /\ save \in SaveTypes
      /\ srv \in 0..1 /\ led \in 0..1 /\ stack \in 0..MaxAddr
      /\ nvs.addr \in 0..MaxAddr /\ nvs.onoff \in 0..1
      /\ ram.addr \in 0..MaxAddr /\ ram.onoff \in 0..1 /\ "main" \in Task /\ "btc" \in Task
  BY States DEF TypeOK, Counters, SaveTypes, Task
<1>2. CASE Load
  <2>1. /\ main = "load" /\ main' = "board" /\ save["main"].pc = "idle"
        /\ ram' = nvs /\ srv' = nvs.onoff /\ Save("main", 1, nvs.addr, nvs.onoff)
        /\ UNCHANGED <<led, nvs, stack, queue, raced, used>>
    BY <1>2 DEF Load, RestoredModel, Booting, At
  <2>2. /\ save' \in SaveTypes /\ save'["btc"] = save["btc"]
        /\ save'["main"].pc = "clamp" /\ save'["main"].state.onoff = nvs.onoff
    BY <1>1, <2>1, SaveType
  <2> QED
    BY <1>1, <2>1, <2>2 DEF BootPc
<1>3. CASE Board
  <2>1. /\ main = "board" /\ main' = "bt" /\ save["main"].pc = "idle"
        /\ led' = ram.onoff /\ Save("main", 2, ram.addr, ram.onoff)
        /\ UNCHANGED <<srv, ram, nvs, stack, queue, raced, used>>
    BY <1>3 DEF Board, Booting, At
  <2>2. /\ save' \in SaveTypes /\ save'["btc"] = save["btc"]
        /\ save'["main"].pc = "clamp" /\ save'["main"].state.onoff = ram.onoff
    BY <1>1, <2>1, SaveType
  <2> QED
    BY <1>1, <2>1, <2>2 DEF BootPc
<1>4. CASE StartBluetooth
  <2>1. /\ main = "bt" /\ save["main"].pc = "idle"
        /\ UNCHANGED <<srv, led, ram, nvs, stack, queue, raced>>
    BY <1>4 DEF StartBluetooth, Booting, At
  <2>2. CASE main' = "mesh" /\ Save("main", 3, ram.addr, ram.onoff) /\ UNCHANGED used
    <3>1. /\ save' \in SaveTypes /\ save'["btc"] = save["btc"]
          /\ save'["main"].pc = "clamp" /\ save'["main"].state.onoff = ram.onoff
      BY <1>1, <2>2, SaveType
    <3> QED
      BY <1>1, <2>1, <2>2, <3>1 DEF BootPc
  <2>3. CASE main' = "dead" /\ used.faults < MaxFaults /\ Spend("faults") /\ UNCHANGED save
    <3>1. used' \in Counters /\ used'.faults # 0
      BY <2>3, SpendType
    <3> QED
      BY <1>1, <2>1, <2>3, <3>1 DEF BootPc
  <2> QED
    BY <1>4, <2>2, <2>3 DEF StartBluetooth
<1>5. CASE StartMesh
  <2>1. /\ main = "mesh" /\ main' = "final" /\ save["main"].pc = "idle"
        /\ Save("main", 5, stack, srv) \/ Save("main", 4, stack, srv)
        /\ UNCHANGED <<srv, led, ram, nvs, stack, queue, raced, used>>
    BY <1>5 DEF StartMesh, BootAddr, Booting, At
  <2>2. /\ save' \in SaveTypes /\ save'["btc"] = save["btc"] /\ save'["main"].pc = "clamp"
        /\ save'["main"].state.addr = stack /\ save'["main"].state.onoff = srv
    <3>1. CASE Save("main", 5, stack, srv)
      BY <1>1, <3>1, SaveType
    <3>2. CASE Save("main", 4, stack, srv)
      BY <1>1, <3>2, SaveType
    <3> QED
      BY <2>1, <3>1, <3>2
  <2> QED
    BY <1>1, <2>1, <2>2 DEF BootPc
<1>6. CASE Finish
  BY <1>1, <1>6 DEF Finish, Booting, At, BootPc
<1> QED
  BY <1>2, <1>3, <1>4, <1>5, <1>6 DEF AppMain

\* What the stack changes when it is provisioned or receives a message.
Stack == ProvisionNode \/ (\E on \in 0..1 : ReceiveSet(on)) \/ ReceiveBind \/ ReceiveReset

LEMMA StackSteps ==
    ASSUME TypeOK, Stack
    PROVE  /\ UNCHANGED <<led, ram, nvs, main, save, raced>> /\ Listening
           /\ srv' \in 0..1 /\ stack' \in 0..MaxAddr /\ queue' \in Seq(Event)
           /\ used' \in Counters /\ used'.faults = used.faults
           /\ \/ /\ main = "done" /\ queue = <<>> /\ save["btc"].pc = "idle"
                 /\ stack = Unassigned /\ stack' # Unassigned /\ srv' = srv
                 /\ \E e \in Event : Post(e) /\ e.kind = "prov" /\ e.addr = stack'
              \/ /\ stack # Unassigned /\ stack' = stack
                 /\ \/ \E e \in Event : Post(e) /\ e.kind = "set" /\ e.addr = stack /\ e.on = srv'
                    \/ srv' = srv /\ queue' = queue
                    \/ /\ srv' = srv
                       /\ \E e \in Event : Post(e) /\ e.kind = "bind" /\ e.addr = stack
              \/ /\ stack # Unassigned /\ stack' = Unassigned /\ srv' = srv
                 /\ \E e \in Event : Post(e) /\ e.kind = "reset"
<1>1. /\ queue \in Seq(Event) /\ srv \in 0..1 /\ stack \in 0..MaxAddr /\ used.addr \in 0..MaxAddr
      /\ used \in Counters
  BY DEF TypeOK, Counters
<1>2. CASE ProvisionNode
  <2>1. used.addr + 1 \in 0..MaxAddr /\ used.addr + 1 # 0
    BY <1>1, <1>2, NodeAssumption DEF ProvisionNode
  <2> DEFINE e == [kind |-> "prov", addr |-> used.addr + 1, on |-> 0]
  <2>2. e \in Event /\ e.kind = "prov" /\ e.addr = used.addr + 1
    BY <2>1 DEF Event
  <2>3. Post(e) /\ stack' = used.addr + 1 /\ stack' # Unassigned
    BY <1>2, <2>1 DEF ProvisionNode, Unassigned
  <2> HIDE DEF e
  <2> QED
    <3>1. queue' \in Seq(Event)
      BY <1>1, <2>2, <2>3, Posting
    <3>2. used' \in Counters /\ used'.faults = used.faults
      BY <1>2, SpendType DEF ProvisionNode
    <3>3. /\ UNCHANGED <<srv, led, ram, nvs, main, save, raced>> /\ main = "done" /\ queue = <<>>
          /\ save["btc"].pc = "idle" /\ stack = Unassigned
      BY <1>2 DEF ProvisionNode, At
    <3> QED
      BY <1>1, <2>1, <2>2, <2>3, <3>1, <3>2, <3>3 DEF Listening
<1>3. ASSUME NEW on \in 0..1, ReceiveSet(on)
      PROVE  /\ UNCHANGED <<led, ram, nvs, main, save, raced, stack>> /\ Listening
             /\ srv' = on /\ stack # Unassigned /\ queue' \in Seq(Event)
             /\ used' \in Counters /\ used'.faults = used.faults
             /\ \/ \E e \in Event : Post(e) /\ e.kind = "set" /\ e.addr = stack /\ e.on = srv'
                \/ srv' = srv /\ queue' = queue
  <2> DEFINE e == [kind |-> "set", addr |-> stack, on |-> on]
  <2>1. e \in Event /\ e.kind = "set" /\ e.addr = stack /\ e.on = on
    BY <1>1, Events
  <2>2. Post(e) \/ (srv = on /\ UNCHANGED queue)
    BY <1>3 DEF ReceiveSet
  <2> HIDE DEF e
  <2> QED
    BY <1>1, <1>3, <2>1, <2>2, Posting, SpendType DEF ReceiveSet
<1>4. CASE ReceiveBind
  <2> DEFINE e == [kind |-> "bind", addr |-> stack, on |-> 0]
  <2>1. e \in Event /\ e.kind = "bind" /\ e.addr = stack
    BY <1>1 DEF Event
  <2>2. Post(e)
    BY <1>4 DEF ReceiveBind
  <2> HIDE DEF e
  <2> QED
    <3>1. queue' \in Seq(Event)
      BY <1>1, <2>1, <2>2, Posting
    <3>2. used' \in Counters /\ used'.faults = used.faults
      BY <1>4, SpendType DEF ReceiveBind
    <3>3. Listening /\ stack # Unassigned /\ UNCHANGED <<srv, led, ram, nvs, main, save, stack, raced>>
      BY <1>4 DEF ReceiveBind
    <3> QED
      BY <1>1, <2>1, <2>2, <3>1, <3>2, <3>3
<1>5. CASE ReceiveReset
  <2> DEFINE e == [kind |-> "reset", addr |-> stack, on |-> 0]
  <2>1. e \in Event /\ e.kind = "reset" /\ Unassigned \in 0..MaxAddr
    BY <1>1, NodeAssumption DEF Event, Unassigned
  <2>2. Post(e)
    BY <1>5 DEF ReceiveReset
  <2> HIDE DEF e
  <2> QED
    <3>1. queue' \in Seq(Event)
      BY <1>1, <2>1, <2>2, Posting
    <3>2. used' \in Counters /\ used'.faults = used.faults
      BY <1>5, SpendType DEF ReceiveReset
    <3>3. Listening /\ stack # Unassigned /\ UNCHANGED <<srv, led, ram, nvs, main, save, raced>> /\ stack' = Unassigned
      BY <1>5 DEF ReceiveReset
    <3> QED
      BY <1>1, <2>1, <2>2, <3>1, <3>2, <3>3
<1>6. ASSUME NEW on \in 0..1, ReceiveSet(on) PROVE srv' \in 0..1 /\ stack' \in 0..MaxAddr
  BY <1>1, <1>6 DEF ReceiveSet
<1> QED
  BY <1>2, <1>3, <1>4, <1>5, <1>6 DEF Stack
\* What a callback changes.
LEMMA CallbackSteps ==
    ASSUME TypeOK, Callback
    PROVE  /\ UNCHANGED <<main, stack>> /\ used' \in Counters
           /\ srv' \in 0..1 /\ led' \in 0..1 /\ ram' \in State /\ nvs' \in State
           /\ queue # <<>> /\ queue' = Tail(queue)
           /\ save["btc"].pc = "idle" /\ save' \in SaveTypes /\ save'["main"] = save["main"]
           /\ \/ /\ Head(queue).kind = "set" /\ UNCHANGED <<srv, ram, nvs, used>>
                 /\ led' = IF Head(queue).addr = stack THEN Head(queue).on ELSE led
                 /\ save'["btc"].pc = "clamp" /\ save'["btc"].state.addr = stack
                 /\ save'["btc"].state.onoff = Head(queue).on
              \/ /\ Head(queue).kind = "bind" /\ UNCHANGED <<srv, led, ram, nvs, used>>
                 /\ save'["btc"].pc = "clamp" /\ save'["btc"].state.addr = Head(queue).addr
                 /\ save'["btc"].state.onoff = srv
              \/ /\ Head(queue).kind = "prov" /\ led' = srv /\ UNCHANGED <<srv, ram, nvs, used>>
                 /\ save'["btc"].pc = "clamp" /\ save'["btc"].state.addr = Head(queue).addr
                 /\ save'["btc"].state.onoff = srv
              \/ /\ Head(queue).kind = "reset" /\ UNCHANGED save
                 /\ srv' = 0 /\ led' = 0 /\ ram' = Zero
                 /\ (nvs' = Zero /\ UNCHANGED used) \/ (used'.faults # 0 /\ UNCHANGED nvs)
<1>1. /\ ram \in State /\ nvs \in State /\ used \in Counters /\ save \in SaveTypes
      /\ srv \in 0..1 /\ led \in 0..1 /\ stack \in 0..MaxAddr /\ "main" \in Task /\ "btc" \in Task
  BY DEF TypeOK, Counters, SaveTypes, Task
<1>2. queue # <<>> /\ queue' = Tail(queue) /\ save["btc"].pc = "idle" /\ UNCHANGED <<main, stack>>
  BY DEF Callback, OnSet, OnBind, OnProvisioned, OnReset, Arrives, At
<1>3. Head(queue) \in Event
  BY <1>2, Taking DEF TypeOK
<1>4. Head(queue).addr \in 0..MaxAddr /\ Head(queue).on \in 0..1
  BY <1>3, Events
<1>5. CASE OnSet
  <2>1. /\ Head(queue).kind = "set" /\ Save("btc", 7, stack, Head(queue).on)
        /\ led' = IF Head(queue).addr = stack THEN Head(queue).on ELSE led
        /\ UNCHANGED <<srv, ram, nvs, used>>
    BY <1>5 DEF OnSet, Arrives, Show
  <2>2. /\ save' \in SaveTypes /\ save'["main"] = save["main"]
        /\ save'["btc"].pc = "clamp" /\ save'["btc"].state.addr = stack
        /\ save'["btc"].state.onoff = Head(queue).on
    BY <1>1, <1>4, <2>1, SaveType
  <2> QED
    BY <1>1, <1>2, <1>4, <2>1, <2>2
<1>6. CASE OnBind
  <2>1. /\ Head(queue).kind = "bind" /\ Save("btc", 6, Head(queue).addr, srv)
        /\ UNCHANGED <<srv, led, ram, nvs, used>>
    BY <1>6 DEF OnBind, Arrives
  <2>2. /\ save' \in SaveTypes /\ save'["main"] = save["main"]
        /\ save'["btc"].pc = "clamp" /\ save'["btc"].state.addr = Head(queue).addr
        /\ save'["btc"].state.onoff = srv
    BY <1>1, <1>4, <2>1, SaveType
  <2> QED
    BY <1>1, <1>2, <2>1, <2>2
<1>7. CASE OnProvisioned
  <2>1. /\ Head(queue).kind = "prov" /\ Save("btc", 5, Head(queue).addr, srv) /\ led' = srv
        /\ UNCHANGED <<srv, ram, nvs, used>>
    BY <1>7 DEF OnProvisioned, Arrives
  <2>2. /\ save' \in SaveTypes /\ save'["main"] = save["main"]
        /\ save'["btc"].pc = "clamp" /\ save'["btc"].state.addr = Head(queue).addr
        /\ save'["btc"].state.onoff = srv
    BY <1>1, <1>4, <2>1, SaveType
  <2> QED
    BY <1>1, <1>2, <2>1, <2>2
<1>8. CASE OnReset
  <2>1. /\ Head(queue).kind = "reset" /\ srv' = 0 /\ led' = 0 /\ ram' = Zero /\ UNCHANGED save
        /\ \/ nvs' = Zero /\ UNCHANGED used
           \/ used.faults < MaxFaults /\ Spend("faults") /\ UNCHANGED nvs
    BY <1>8 DEF OnReset, Arrives, ResetModel
  <2>2. \/ nvs' = Zero /\ UNCHANGED used
        \/ used' \in Counters /\ used'.faults # 0 /\ UNCHANGED nvs
    BY <2>1, SpendType
  <2> QED
    BY <1>1, <1>2, <2>1, <2>2, ZeroType
<1> QED
  BY <1>5, <1>6, <1>7, <1>8 DEF Callback

LEMMA CrashSteps ==
    ASSUME TypeOK, Crash
    PROVE  /\ UNCHANGED <<nvs, stack>> /\ used' \in Counters /\ used'.faults = used.faults
           /\ srv' = 0 /\ led' = 0 /\ ram' = Zero /\ main' = "load" /\ queue' = <<>>
           /\ raced' = FALSE /\ save' \in SaveTypes
           /\ \A t \in Task : save'[t].pc = "idle"
<1>1. Idle \in [pc : {"idle", "clamp", "ram", "open", "addr", "onoff"}, state : State]
      /\ Idle.pc = "idle"
  BY ZeroType DEF Idle
<1> QED
  BY <1>1, SpendType DEF Crash, SaveTypes

\* Next, by the groups of steps above.
LEMMA Steps ==
    ASSUME Next
    PROVE  (\E t \in Task : Saving(t)) \/ AppMain \/ Stack \/ Callback \/ Crash
BY DEF Next, Stack

LEMMA TypeOKInit == Init => TypeOK
<1>1. Idle \in [pc : {"idle", "clamp", "ram", "open", "addr", "onoff"}, state : State]
  BY ZeroType DEF Idle
<1>2. Zero \in State /\ <<>> \in Seq(Event) /\ "load" \in BootPc /\ Unassigned \in 0..MaxAddr
  BY ZeroType, NodeAssumption DEF BootPc, Unassigned
<1>3. [addr |-> 0, msgs |-> 0, crashes |-> 0, faults |-> 0]
        \in [addr : 0..MaxAddr, msgs : 0..MaxMessages, crashes : 0..MaxCrashes, faults : 0..MaxFaults]
  BY NodeAssumption
<1> SUFFICES ASSUME Init PROVE TypeOK
  OBVIOUS
<1>4. save \in SaveTypes
  BY <1>1 DEF Init, SaveTypes
<1>5. queue \in Seq(Event) /\ stack \in 0..MaxAddr /\ main \in BootPc
  BY <1>2 DEF Init
<1>6. used \in Counters
  BY <1>3 DEF Init, Counters
<1>7. srv \in 0..1 /\ led \in 0..1 /\ ram \in State /\ nvs \in State
  BY <1>2 DEF Init
<1>8. raced \in BOOLEAN
  BY DEF Init
<1> QED
  BY <1>4, <1>5, <1>6, <1>7, <1>8 DEF Counters, SaveTypes, TypeOK

LEMMA TypeOKStep == TypeOK /\ [Next]_vars => TypeOK'
<1> SUFFICES ASSUME TypeOK, [Next]_vars PROVE TypeOK'
  OBVIOUS
<1> USE DEF Counters, SaveTypes
<1>1. CASE UNCHANGED vars
  BY <1>1 DEF vars, TypeOK
<1>2. ASSUME NEW t \in Task, Saving(t) PROVE TypeOK'
  BY <1>2, SavingSteps DEF TypeOK
<1>3. CASE AppMain
  BY <1>3, AppMainSteps DEF TypeOK
<1>4. CASE Stack
  BY <1>4, StackSteps DEF TypeOK
<1>5. CASE Callback
  <2>1. raced' \in BOOLEAN
    BY <1>5 DEF Callback
  <2>2. queue' \in Seq(Event)
    BY <1>5, CallbackSteps, Taking DEF TypeOK
  <2> QED
    BY <1>5, <2>1, <2>2, CallbackSteps DEF TypeOK
<1>6. CASE Crash
  <2>1. 0 \in 0..1 /\ Zero \in State /\ <<>> \in Seq(Event) /\ "load" \in BootPc
    BY ZeroType DEF BootPc
  <2> QED
    BY <1>6, <2>1, CrashSteps DEF TypeOK
<1> QED
  BY <1>1, <1>2, <1>3, <1>4, <1>5, <1>6, Steps

\* The types of the light's state, of the saves under way and of the posted events.
THEOREM MeshNodeTypeOK == Spec => []TypeOK
<1> QED
  BY TypeOKInit, TypeOKStep, PTL DEF Spec
-----------------------------------------------------------------------------
(* The two tasks and the queue between them *)

Pos == 1..Len(queue)
Active(t) == ~At(t, "idle")

\* The BTC task is idle until the mesh has started, and until app_main has returned as long as
\* no callback has raced it; app_main returns after its last save.
TaskInv ==
    /\ ~Listening => queue = <<>> /\ ~Active("btc")
    /\ main # "done" /\ ~raced => ~Active("btc")
    /\ main \in {"load", "done"} => ~Active("main")

\* Nothing arrives after a reset, and nothing from before it is left when the light is
\* provisioned again: all events are for the address the light has.
QueueInv ==
    /\ \A i \in Pos : queue[i].kind = "reset" => i = Len(queue) /\ stack = Unassigned
    /\ stack = Unassigned /\ queue # <<>> => queue[Len(queue)].kind = "reset"
    /\ stack # Unassigned => \A i \in Pos : queue[i].addr = stack

LEMMA TaskStep == TypeOK /\ TaskInv /\ [Next]_vars => TaskInv'
<1> SUFFICES ASSUME TypeOK, TaskInv, [Next]_vars PROVE TaskInv'
  OBVIOUS
<1> USE DEF TaskInv, Listening, Active, At
<1>1. CASE UNCHANGED vars
  BY <1>1 DEF vars
<1>2. ASSUME NEW t \in Task, Saving(t) PROVE TaskInv'
  <2>1. save[t].pc # "idle" /\ UNCHANGED <<main, queue, raced>>
        /\ \A u \in Task \ {t} : save'[u] = save[u]
    BY <1>2, SavingSteps
  <2> QED
    BY <2>1 DEF Task
<1>3. CASE AppMain
  <2>1. /\ UNCHANGED <<queue, raced>> /\ save'["btc"] = save["btc"] /\ save["main"].pc = "idle"
        /\ main # "done" /\ main' # "load" /\ main' # main
        /\ main' = "done" => main = "final" /\ UNCHANGED save
        /\ main \in {"final"} => main' = "done"
    BY <1>3, AppMainSteps
  <2> QED
    BY <2>1
<1>4. CASE Stack
  BY <1>4, StackSteps
<1>5. CASE Callback
  <2>1. /\ UNCHANGED main /\ queue # <<>> /\ save'["main"] = save["main"]
        /\ ~raced' => main = "done"
    BY <1>5, CallbackSteps DEF Callback
  <2> QED
    BY <2>1
<1>6. CASE Crash
  BY <1>6, CrashSteps DEF Task
<1> QED
  BY <1>1, <1>2, <1>3, <1>4, <1>5, <1>6, Steps

LEMMA QueueStep == TypeOK /\ TaskInv /\ QueueInv /\ [Next]_vars => QueueInv'
<1> SUFFICES ASSUME TypeOK, TaskInv, QueueInv, [Next]_vars PROVE QueueInv'
  OBVIOUS
<1>1. CASE UNCHANGED <<queue, stack>>
  BY <1>1 DEF QueueInv, Pos
<1>2. CASE Stack /\ queue' # queue
  <2>1. queue \in Seq(Event)
    BY DEF TypeOK
  <2>2. PICK e \in Event : Post(e)
    BY <1>2, StackSteps
  <2>3. /\ queue' # <<>> /\ Len(queue) \in Nat /\ Len(queue') = Len(queue) + 1
        /\ \A i \in Pos : queue'[i] = queue[i]
        /\ queue'[Len(queue')] = e
        /\ \A i \in Pos' : i \in Pos \/ i = Len(queue')
    BY <2>1, <2>2, Posting DEF Pos
  <2>4. \/ /\ queue = <<>> /\ stack' # Unassigned
           /\ queue'[Len(queue')].kind = "prov" /\ queue'[Len(queue')].addr = stack'
        \/ /\ stack # Unassigned /\ stack' = stack
           /\ queue'[Len(queue')].kind \in {"set", "bind"} /\ queue'[Len(queue')].addr = stack
        \/ /\ stack # Unassigned /\ stack' = Unassigned
           /\ queue'[Len(queue')].kind = "reset"
    BY <1>2, <2>1, Posting, StackSteps
  <2>5. \A i \in Pos' : queue'[i].kind = "reset" => i = Len(queue') /\ stack' = Unassigned
    BY <2>3, <2>4 DEF QueueInv, Pos
  <2>6. stack' # Unassigned => \A i \in Pos' : queue'[i].addr = stack'
    BY <2>3, <2>4 DEF QueueInv, Pos
  <2> QED
    BY <2>4, <2>5, <2>6 DEF QueueInv
<1>3. CASE Callback
  <2>1. queue # <<>> /\ queue' = Tail(queue) /\ stack' = stack
    BY <1>3, CallbackSteps
  <2>2. /\ Len(queue) \in Nat \ {0} /\ Len(queue') = Len(queue) - 1
        /\ \A i \in Pos' : i + 1 \in Pos /\ queue'[i] = queue[i + 1]
    BY <2>1, Taking DEF TypeOK, Pos
  <2>3. ASSUME NEW i \in Pos', queue'[i].kind = "reset"
        PROVE  i = Len(queue') /\ stack' = Unassigned
    <3>1. i + 1 = Len(queue) /\ stack = Unassigned
      BY <2>2, <2>3 DEF QueueInv
    <3>2. i \in Nat
      BY <2>2 DEF Pos
    <3>3. Len(queue) \in Nat /\ Len(queue') = Len(queue) - 1
      BY <2>2
    <3>4. i = Len(queue')
      BY <3>1, <3>2, <3>3
    <3> QED
      BY <2>1, <3>1, <3>4
  <2>4. stack' # Unassigned => \A i \in Pos' : queue'[i].addr = stack'
    BY <2>1, <2>2 DEF QueueInv
  <2>5. stack' = Unassigned /\ queue' # <<>> => queue'[Len(queue')].kind = "reset"
    <3>1. queue' # <<>> => Len(queue') \in Pos'
      BY <2>1, Taking DEF TypeOK, Pos
    <3> QED
      BY <2>1, <2>2, <3>1 DEF QueueInv
  <2> QED
    BY <2>3, <2>4, <2>5 DEF QueueInv
<1>4. CASE Crash
  <2>1. queue' = <<>>
    BY <1>4, CrashSteps
  <2> QED
    BY <2>1 DEF QueueInv, Pos
<1>5. CASE Stack /\ queue' = queue
  <2>1. ASSUME NEW e \in Event PROVE ~Post(e)
    <3> SUFFICES ASSUME Post(e) PROVE FALSE
      OBVIOUS
    <3>1. Len(queue) \in Nat /\ Len(queue') = Len(queue) + 1
      BY Posting DEF TypeOK
    <3> QED
      BY <1>5, <3>1
  <2> QED
    BY <1>1, <1>5, <2>1, StackSteps
<1> QED
  BY <1>1, <1>2, <1>3, <1>4, <1>5, Steps, SavingSteps, AppMainSteps DEF vars
-----------------------------------------------------------------------------
(* The LED shows the state of the model *)

LEMMA Posted ==
    ASSUME TypeOK, NEW e \in Event, Post(e)
    PROVE  /\ Len(queue') \in Pos' /\ queue'[Len(queue')] = e
           /\ \A i \in Pos : i \in Pos' /\ i < Len(queue') /\ queue'[i] = queue[i]
           /\ \A i \in Pos' : i \in Pos \/ i = Len(queue')
<1>1. /\ Len(queue) \in Nat /\ Len(queue') = Len(queue) + 1
      /\ \A i \in 1..Len(queue) : queue'[i] = queue[i]
      /\ queue'[Len(queue) + 1] = e
  BY Posting DEF TypeOK
<1> QED
  BY <1>1 DEF Pos

LEMMA Taken ==
    ASSUME TypeOK, queue # <<>>, queue' = Tail(queue)
    PROVE  /\ 1 \in Pos /\ Head(queue) = queue[1] /\ Len(queue) \in Pos
           /\ \A i \in Pos' : i + 1 \in Pos /\ i \in Nat /\ queue'[i] = queue[i + 1]
           /\ \A i \in Pos : i # 1 => i - 1 \in Pos' /\ queue'[i - 1] = queue[i]
<1>1. /\ Head(queue) = queue[1] /\ Len(queue) \in Nat /\ Len(queue) # 0
      /\ Len(queue') = Len(queue) - 1
      /\ \A i \in 1..Len(queue') : queue'[i] = queue[i + 1]
  BY Taking DEF TypeOK
<1>2. 1 \in Pos /\ Head(queue) = queue[1] /\ Len(queue) \in Pos
  BY <1>1 DEF Pos
<1>3. \A i \in Pos' : i + 1 \in Pos /\ i \in Nat /\ queue'[i] = queue[i + 1]
  BY <1>1 DEF Pos
<1>4. \A i \in Pos : i # 1 => i - 1 \in Pos' /\ (i - 1) + 1 = i
  BY <1>1 DEF Pos
<1> QED
  BY <1>2, <1>3, <1>4

\* No event is under way that shows a state, of the message, of the model or of a reset.
AllBinds == \A i \in Pos : queue[i].kind = "bind"
LastSet(i) == queue[i].kind = "set" /\ \A j \in Pos : j > i => queue[j].kind # "set"

\* The model runs ahead of the LED by the messages in the queue, and the last of them that
\* sets the light is the one the model has followed. While it boots, the light is restored from
\* one value: from NVS for the model, from RAM for the LED.
LedInv ==
    /\ main = "board" =>
         /\ ram.onoff = srv
         /\ Active("main") => save["main"].state.onoff = srv
    /\ main \notin {"load", "board"} =>
         /\ AllBinds => led = srv
         /\ stack # Unassigned => \A i \in Pos : LastSet(i) => queue[i].on = srv

LEMMA LedStep == TypeOK /\ TaskInv /\ QueueInv /\ LedInv /\ [Next]_vars => LedInv'
<1> SUFFICES ASSUME TypeOK, TaskInv, QueueInv, LedInv, [Next]_vars PROVE LedInv'
  OBVIOUS
<1>1. CASE UNCHANGED vars
  BY <1>1 DEF vars, LedInv, AllBinds, LastSet, Pos, Active, At
<1>2. ASSUME NEW t \in Task, Saving(t) PROVE LedInv'
  <2>1. UNCHANGED <<srv, led, main, queue, stack>>
    BY <1>2, SavingSteps
  <2>2. main = "board" => ram'.onoff = srv /\ (Active("main")' => save'["main"].state.onoff = srv)
    <3> SUFFICES ASSUME main = "board"
                 PROVE  ram'.onoff = srv /\ (Active("main")' => save'["main"].state.onoff = srv)
      OBVIOUS
    <3>1. t = "main" /\ save["main"].pc # "idle"
      BY <1>2, SavingSteps DEF TaskInv, Listening, Active, At, Task
    <3>2. save["main"].state.onoff = srv /\ ram.onoff = srv
      BY <3>1 DEF LedInv, Active, At
    <3>3. save["main"].state \in State
      BY <3>1 DEF TypeOK
    <3>4. ram' = ram \/ ram' = save["main"].state
      BY <1>2, <3>1, SavingSteps
    <3>5. save'["main"].state = save["main"].state \/ save'["main"].state = Clamp(save["main"].state)
          \/ save'["main"].pc = "idle"
      BY <1>2, <3>1, SavingSteps
    <3>6. Clamp(save["main"].state).onoff = srv
      BY <3>2, <3>3, ClampType
    <3> QED
      BY <3>2, <3>4, <3>5, <3>6 DEF Active, At
  <2> QED
    BY <2>1, <2>2 DEF LedInv, AllBinds, LastSet, Pos
<1>3. CASE AppMain
  <2>1. CASE main = "load"
    <3>1. main' = "board" /\ ram'.onoff = srv' /\ save'["main"].state.onoff = srv'
      BY <1>3, <2>1, AppMainSteps
    <3> QED
      BY <3>1 DEF LedInv
  <2>2. CASE main = "board"
    <3>1. main' = "bt" /\ led' = ram.onoff /\ srv' = srv /\ queue' = queue
      BY <1>3, <2>2, AppMainSteps
    <3>2. queue = <<>> /\ led' = srv'
      BY <2>2, <3>1 DEF LedInv, TaskInv, Listening
    <3> QED
      BY <3>1, <3>2 DEF LedInv, Pos
  <2>3. CASE main \notin {"load", "board"}
    <3>1. main' # "board" /\ UNCHANGED <<srv, led, queue, stack>>
      BY <1>3, <2>3, AppMainSteps
    <3> QED
      BY <2>3, <3>1 DEF LedInv, AllBinds, LastSet, Pos
  <2> QED
    BY <2>1, <2>2, <2>3
<1>4. CASE Stack /\ \E e \in Event : Post(e)
  <2>1. main \notin {"load", "board"} /\ UNCHANGED <<led, main>>
    BY <1>4, StackSteps DEF Listening
  <2>2. PICK e \in Event : Post(e)
    BY <1>4
  <2>3. /\ Len(queue') \in Pos' /\ queue'[Len(queue')] = e
        /\ \A i \in Pos : i \in Pos' /\ i < Len(queue') /\ queue'[i] = queue[i]
        /\ \A i \in Pos' : i \in Pos \/ i = Len(queue')
    BY <2>2, Posted
  <2>4. queue' # queue /\ \A f \in Event : Post(f) => f = e
    <3>1. Len(queue') \notin Pos
      BY <2>3 DEF Pos
    <3>2. ASSUME NEW f \in Event, Post(f) PROVE f = e
      BY <2>3, <3>2, Posted
    <3> QED
      BY <2>3, <3>1, <3>2 DEF Pos
  <2>5. \/ e.kind = "prov" /\ queue = <<>> /\ srv' = srv
        \/ e.kind = "set" /\ e.on = srv' /\ stack # Unassigned
        \/ e.kind = "bind" /\ srv' = srv /\ stack # Unassigned /\ stack' = stack
        \/ e.kind = "reset" /\ srv' = srv /\ stack' = Unassigned
    BY <1>4, <2>4, StackSteps
  <2>6. AllBinds' => led' = srv'
    <3> SUFFICES ASSUME AllBinds' PROVE led' = srv'
      OBVIOUS
    <3>1. e.kind = "bind" /\ AllBinds
      BY <2>3 DEF AllBinds
    <3> QED
      BY <2>1, <2>5, <3>1 DEF LedInv
  <2>7. ASSUME stack' # Unassigned, NEW i \in Pos', LastSet(i)' PROVE queue'[i].on = srv'
    <3>1. CASE i = Len(queue')
      BY <2>3, <2>5, <2>7, <3>1 DEF LastSet
    <3>2. CASE i # Len(queue')
      <4>1. i \in Pos /\ LastSet(i) /\ e.kind # "set" /\ queue'[i] = queue[i]
        BY <2>3, <2>7, <3>2 DEF LastSet
      <4>2. queue # <<>>
        BY <4>1 DEF Pos
      <4> QED
        BY <2>1, <2>5, <2>7, <4>1, <4>2 DEF LedInv
    <3> QED
      BY <3>1, <3>2
  <2> QED
    BY <2>1, <2>6, <2>7 DEF LedInv
<1>5. CASE Stack /\ ~\E e \in Event : Post(e)
  <2>1. UNCHANGED <<led, main, srv, queue, stack>> /\ main \notin {"load", "board"}
    BY <1>5, StackSteps DEF Listening
  <2> QED
    BY <2>1 DEF LedInv, AllBinds, LastSet, Pos
<1>6. CASE Callback
  <2>1. queue # <<>> /\ queue' = Tail(queue) /\ stack' = stack /\ main' = main
    BY <1>6, CallbackSteps
  <2>2. main \notin {"load", "board"}
    BY <2>1 DEF TaskInv, Listening
  <2>3. /\ 1 \in Pos /\ Head(queue) = queue[1] /\ Len(queue) \in Pos
        /\ \A i \in Pos' : i + 1 \in Pos /\ i \in Nat /\ queue'[i] = queue[i + 1]
        /\ \A i \in Pos : i # 1 => i - 1 \in Pos' /\ queue'[i - 1] = queue[i]
    BY <2>1, Taken
  <2>4. ASSUME AllBinds' PROVE led' = srv'
    <3>1. \A i \in Pos : i # 1 => queue[i].kind = "bind"
      BY <2>3, <2>4 DEF AllBinds
    <3>2. CASE queue[1].kind = "set"
      <4>1. stack # Unassigned
        BY <2>1, <2>3, <3>1, <3>2 DEF QueueInv
      <4>2. LastSet(1)
        BY <2>3, <3>1, <3>2 DEF LastSet, Pos
      <4>3. queue[1].on = srv /\ queue[1].addr = stack
        BY <2>2, <2>3, <4>1, <4>2 DEF LedInv, QueueInv
      <4> QED
        BY <1>6, <2>3, <3>2, <4>3, CallbackSteps
    <3>3. CASE queue[1].kind = "bind"
      <4>1. led = srv
        BY <2>2, <3>1, <3>3 DEF LedInv, AllBinds
      <4> QED
        BY <1>6, <2>3, <3>3, <4>1, CallbackSteps
    <3>4. CASE queue[1].kind \in {"prov", "reset"}
      BY <1>6, <2>3, <3>4, CallbackSteps
    <3> QED
      BY <1>6, <2>3, <3>2, <3>3, <3>4, CallbackSteps
  <2>5. ASSUME stack' # Unassigned, NEW i \in Pos', LastSet(i)' PROVE queue'[i].on = srv'
    <3>1. queue[1].kind # "reset"
      BY <2>1, <2>3, <2>5 DEF QueueInv
    <3>2. srv' = srv
      BY <1>6, <2>3, <3>1, CallbackSteps
    <3>3. LastSet(i + 1)
      <4>1. ASSUME NEW j \in Pos, j > i + 1 PROVE queue[j].kind # "set"
        <5>1. j # 1 /\ j - 1 > i /\ j - 1 \in Pos' /\ queue'[j - 1] = queue[j]
          BY <2>3, <4>1 DEF Pos
        <5> QED
          BY <2>5, <5>1 DEF LastSet
      <4> QED
        BY <2>3, <2>5, <4>1 DEF LastSet
    <3>4. i + 1 \in Pos /\ queue'[i] = queue[i + 1] /\ stack # Unassigned
      BY <2>1, <2>3, <2>5
    <3>5. queue[i + 1].on = srv
      BY <2>2, <3>3, <3>4 DEF LedInv
    <3> QED
      BY <3>2, <3>4, <3>5
  <2> QED
    BY <2>1, <2>2, <2>4, <2>5 DEF LedInv
<1>7. CASE Crash
  BY <1>7, CrashSteps DEF LedInv
<1> QED
  BY <1>1, <1>2, <1>3, <1>4, <1>5, <1>6, <1>7, Steps

\* When the light has handled every message, its LED shows the state it reports to the mesh.
THEOREM LedShowsModelAlways == Spec => []LedShowsModel
<1>1. Init => TaskInv /\ QueueInv /\ LedInv
  <2>1. Init => \A t \in Task : save[t].pc = "idle"
    BY DEF Init, Idle
  <2> QED
    BY <2>1 DEF Init, TaskInv, QueueInv, LedInv, Pos, Active, At, Task, Listening
<1>2. TypeOK /\ LedInv => LedShowsModel
  BY DEF LedInv, LedShowsModel, Settled, AllBinds, Pos
<1> QED
  BY <1>1, <1>2, TaskStep, QueueStep, LedStep, MeshNodeTypeOK, PTL DEF Spec
-----------------------------------------------------------------------------
(* The address is saved *)

\* What is still to be saved after a power failure or a provisioning: a save under way that has
\* not passed the address, or the message that will start one. All of them know the address of
\* the stack.
AddrInv ==
    Listening /\ stack # Unassigned /\ used.faults = 0 =>
      /\ \A t \in Task : Active(t) => save[t].state.addr = stack
      /\ \/ nvs.addr = stack
         \/ \E t \in Task : save[t].pc \in {"clamp", "ram", "open", "addr"}
         \/ \E i \in Pos : queue[i].kind = "prov"

LEMMA AddrStep == TypeOK /\ TaskInv /\ QueueInv /\ AddrInv /\ [Next]_vars => AddrInv'
<1> SUFFICES ASSUME TypeOK, TaskInv, QueueInv, AddrInv, [Next]_vars,
                    Listening', stack' # Unassigned, used'.faults = 0
             PROVE  /\ \A t \in Task : Active(t)' => save'[t].state.addr = stack'
                    /\ \/ nvs'.addr = stack'
                       \/ \E t \in Task : save'[t].pc \in {"clamp", "ram", "open", "addr"}
                       \/ \E i \in Pos' : queue'[i].kind = "prov"
  BY DEF AddrInv
<1>1. CASE UNCHANGED vars
  BY <1>1 DEF vars, AddrInv, Pos, Active, At, Listening
<1>2. ASSUME NEW t \in Task, Saving(t)
      PROVE  /\ \A u \in Task : Active(u)' => save'[u].state.addr = stack'
             /\ \/ nvs'.addr = stack'
                \/ \E u \in Task : save'[u].pc \in {"clamp", "ram", "open", "addr"}
                \/ \E i \in Pos' : queue'[i].kind = "prov"
  <2>1. /\ UNCHANGED <<main, stack, queue, used>> /\ save[t].pc # "idle"
        /\ \A u \in Task \ {t} : save'[u] = save[u]
    BY <1>2, SavingSteps
  <2>2. /\ \A u \in Task : Active(u) => save[u].state.addr = stack
        /\ \/ nvs.addr = stack
           \/ \E u \in Task : save[u].pc \in {"clamp", "ram", "open", "addr"}
           \/ \E i \in Pos : queue[i].kind = "prov"
    BY <2>1 DEF AddrInv, Listening
  <2>3. save[t].state.addr = stack /\ save[t].state \in State /\ nvs \in State
    BY <2>1, <2>2 DEF Active, At, TypeOK
  <2>4. Clamp(save[t].state).addr = stack
    BY <2>1, <2>3, ClampType
  <2>5. \A u \in Task : Active(u)' => save'[u].state.addr = stack'
    BY <1>2, <2>1, <2>2, <2>3, <2>4, SavingSteps DEF Active, At
  <2>6. save'[t].pc \in {"ram", "open", "addr"} \/ (nvs'.addr = stack) \/ (save[t].pc = "onoff" /\ nvs'.addr = nvs.addr)
    BY <1>2, <2>1, <2>3, SavingSteps DEF State
  <2> QED
    BY <2>1, <2>2, <2>5, <2>6 DEF Pos
<1>3. CASE AppMain
  <2>1. CASE main = "mesh"
    <3>1. /\ save'["main"].pc = "clamp" /\ save'["main"].state.addr = stack /\ stack' = stack
          /\ save'["btc"] = save["btc"]
      BY <1>3, <2>1, AppMainSteps
    <3> QED
      BY <2>1, <3>1 DEF TaskInv, Listening, Active, At, Task
  <2>2. CASE main # "mesh"
    <3>1. main = "final" /\ UNCHANGED <<nvs, stack, queue, save, used>>
      BY <1>3, <2>2, AppMainSteps DEF Listening
    <3> QED
      BY <3>1 DEF AddrInv, Listening, Active, At, Pos
  <2> QED
    BY <2>1, <2>2
<1>4. CASE Stack
  <2>1. UNCHANGED <<nvs, main, save>> /\ used'.faults = used.faults /\ Listening
    BY <1>4, StackSteps
  <2>2. CASE stack = Unassigned
    <3>1. /\ main = "done" /\ save["btc"].pc = "idle"
          /\ \E e \in Event : Post(e) /\ e.kind = "prov"
      BY <1>4, <2>2, StackSteps
    <3>2. \E i \in Pos' : queue'[i].kind = "prov"
      BY <3>1, Posted
    <3> QED
      BY <2>1, <3>1, <3>2 DEF TaskInv, Active, At, Task
  <2>3. CASE stack # Unassigned
    <3>1. stack' = stack /\ (queue' = queue \/ \E e \in Event : Post(e))
      BY <1>4, <2>3, StackSteps
    <3>2. \A i \in Pos : i \in Pos' /\ queue'[i] = queue[i]
      BY <3>1, Posted DEF Pos
    <3> QED
      BY <2>1, <2>3, <3>1, <3>2 DEF AddrInv, Active, At
  <2> QED
    BY <2>2, <2>3
<1>5. CASE Callback
  <2>1. /\ UNCHANGED <<main, stack>> /\ queue # <<>> /\ queue' = Tail(queue)
        /\ save'["main"] = save["main"]
    BY <1>5, CallbackSteps
  <2>2. 1 \in Pos /\ Head(queue) = queue[1]
    BY <2>1, Taken
  <2>3. Head(queue).kind # "reset" /\ Head(queue).addr = stack
    BY <2>1, <2>2 DEF QueueInv
  <2>4. save'["btc"].pc = "clamp" /\ save'["btc"].state.addr = stack /\ used' = used
    BY <1>5, <2>3, CallbackSteps
  <2> QED
    BY <2>1, <2>4 DEF AddrInv, Listening, Active, At, Task
<1>6. CASE Crash
  BY <1>6, CrashSteps DEF Listening
<1> QED
  BY <1>1, <1>2, <1>3, <1>4, <1>5, <1>6, Steps

\* The address the stack has kept in its own flash is in NVS once every message is handled.
THEOREM AddressSavedAlways == Spec => []AddressSaved
<1>1. Init => TaskInv /\ QueueInv /\ AddrInv
  <2>1. Init => \A t \in Task : save[t].pc = "idle"
    BY DEF Init, Idle
  <2> QED
    BY <2>1 DEF Init, TaskInv, QueueInv, AddrInv, Pos, Active, At, Task, Listening
<1>2. TypeOK /\ AddrInv => AddressSaved
  BY DEF AddrInv, AddressSaved, Settled, Listening, Pos, At
<1> QED
  BY <1>1, <1>2, TaskStep, QueueStep, AddrStep, MeshNodeTypeOK, PTL DEF Spec
-----------------------------------------------------------------------------
(* NVS follows the model *)

\* Unless a callback raced app_main: when nothing in the queue will save the light again, each
\* save under way is of the state the model has, and if there is none that state is in NVS.
OnOffInv ==
    Listening /\ used.faults = 0 /\ ~raced /\ AllBinds =>
      /\ \A t \in Task : Active(t) => save[t].state.onoff = srv
      /\ nvs.onoff = srv \/ \E t \in Task : Active(t)

LEMMA OnOffStep == TypeOK /\ TaskInv /\ QueueInv /\ LedInv /\ OnOffInv /\ [Next]_vars => OnOffInv'
<1> SUFFICES ASSUME TypeOK, TaskInv, QueueInv, LedInv, OnOffInv, [Next]_vars,
                    Listening', used'.faults = 0, ~raced', AllBinds'
             PROVE  /\ \A t \in Task : Active(t)' => save'[t].state.onoff = srv'
                    /\ nvs'.onoff = srv' \/ \E t \in Task : Active(t)'
  BY DEF OnOffInv
<1>1. CASE UNCHANGED vars
  BY <1>1 DEF vars, OnOffInv, AllBinds, Pos, Active, At, Listening
<1>2. ASSUME NEW t \in Task, Saving(t)
      PROVE  /\ \A u \in Task : Active(u)' => save'[u].state.onoff = srv'
             /\ nvs'.onoff = srv' \/ \E u \in Task : Active(u)'
  <2>1. /\ UNCHANGED <<srv, main, stack, queue, used, raced>> /\ save[t].pc # "idle"
        /\ \A u \in Task \ {t} : save'[u] = save[u]
    BY <1>2, SavingSteps
  <2>2. \A u \in Task : Active(u) => save[u].state.onoff = srv
    BY <2>1 DEF OnOffInv, Listening, AllBinds, Pos
  <2>3. save[t].state.onoff = srv /\ save[t].state \in State /\ nvs \in State
    BY <2>1, <2>2 DEF Active, At, TypeOK
  <2>4. Clamp(save[t].state).onoff = srv
    BY <2>3, ClampType
  <2>5. \A u \in Task : Active(u)' => save'[u].state.onoff = srv'
    BY <1>2, <2>1, <2>2, <2>3, <2>4, SavingSteps DEF Active, At
  <2>6. save'[t].pc # "idle" \/ nvs'.onoff = srv
    BY <1>2, <2>1, <2>3, SavingSteps DEF State
  <2> QED
    BY <2>1, <2>5, <2>6 DEF Active, At
<1>3. CASE AppMain
  <2>1. CASE main = "mesh"
    <3>1. /\ save'["main"].pc = "clamp" /\ save'["main"].state.onoff = srv /\ srv' = srv
          /\ save'["btc"] = save["btc"]
      BY <1>3, <2>1, AppMainSteps
    <3> QED
      BY <2>1, <3>1 DEF TaskInv, Listening, Active, At, Task
  <2>2. CASE main # "mesh"
    <3>1. main = "final" /\ UNCHANGED <<srv, nvs, queue, save, used, raced>>
      BY <1>3, <2>2, AppMainSteps DEF Listening
    <3> QED
      BY <3>1 DEF OnOffInv, Listening, Active, At, AllBinds, Pos
  <2> QED
    BY <2>1, <2>2
<1>4. CASE Stack
  <2>1. UNCHANGED <<nvs, main, save, raced>> /\ used'.faults = used.faults /\ Listening
    BY <1>4, StackSteps
  <2>2. ASSUME NEW e \in Event, Post(e), e.kind # "bind" PROVE FALSE
    BY <2>2, Posted DEF AllBinds
  <2>3. srv' = srv /\ (queue' = queue \/ \E e \in Event : Post(e))
    BY <1>4, <2>2, StackSteps
  <2>4. AllBinds
    BY <2>3, Posted DEF AllBinds, Pos
  <2> QED
    BY <2>1, <2>3, <2>4 DEF OnOffInv, Active, At
<1>5. CASE Callback
  <2>1. /\ UNCHANGED <<main, stack>> /\ queue # <<>> /\ queue' = Tail(queue)
        /\ save'["main"] = save["main"] /\ save["btc"].pc = "idle"
    BY <1>5, CallbackSteps
  <2>2. main = "done" /\ ~raced
    BY <1>5 DEF Callback
  <2>3. save["main"].pc = "idle"
    BY <2>2 DEF TaskInv, Active, At
  <2>4. /\ 1 \in Pos /\ Head(queue) = queue[1] /\ Len(queue) \in Pos
        /\ \A i \in Pos : i # 1 => i - 1 \in Pos' /\ queue'[i - 1] = queue[i]
    BY <2>1, Taken
  <2>5. \A i \in Pos : i # 1 => queue[i].kind = "bind"
    BY <2>4 DEF AllBinds
  <2>6. CASE queue[1].kind = "reset"
    <3>1. srv' = 0 /\ save' = save /\ nvs' = Zero
      BY <1>5, <2>4, <2>6, CallbackSteps
    <3> QED
      BY <2>1, <2>3, <3>1 DEF Active, At, Task, Zero
  <2>7. CASE queue[1].kind # "reset"
    <3>1. save'["btc"].pc = "clamp" /\ srv' = srv
      BY <1>5, <2>4, <2>7, CallbackSteps
    <3>2. save'["btc"].state.onoff = srv
      <4>1. CASE queue[1].kind = "set"
        <5>1. stack # Unassigned
          BY <2>1, <2>4, <2>5, <4>1 DEF QueueInv
        <5>2. LastSet(1)
          BY <2>4, <2>5, <4>1 DEF LastSet, Pos
        <5>3. queue[1].on = srv
          BY <2>2, <2>4, <5>1, <5>2 DEF LedInv
        <5> QED
          BY <1>5, <2>4, <4>1, <5>3, CallbackSteps
      <4>2. CASE queue[1].kind # "set"
        BY <1>5, <2>4, <2>7, <4>2, CallbackSteps
      <4> QED
        BY <4>1, <4>2
    <3> QED
      BY <2>1, <2>3, <3>1, <3>2 DEF Active, At, Task
  <2> QED
    BY <2>6, <2>7
<1>6. CASE Crash
  BY <1>6, CrashSteps DEF Listening
<1> QED
  BY <1>1, <1>2, <1>3, <1>4, <1>5, <1>6, Steps

\* What a restart will restore is what the light shows, once every message is handled.
THEOREM PersistedAlways == Spec => []Persisted
<1>1. Init => TaskInv /\ QueueInv /\ LedInv /\ OnOffInv
  <2>1. Init => \A t \in Task : save[t].pc = "idle"
    BY DEF Init, Idle
  <2> QED
    BY <2>1 DEF Init, TaskInv, QueueInv, LedInv, OnOffInv, Pos, Active, At, Task, Listening
<1>2. TypeOK /\ OnOffInv /\ LedShowsModel => Persisted
  BY DEF OnOffInv, LedShowsModel, Persisted, Settled, Listening, AllBinds, Pos, Active
<1> QED
  BY <1>1, <1>2, TaskStep, QueueStep, LedStep, OnOffStep, LedShowsModelAlways, MeshNodeTypeOK,
     PTL DEF Spec
-----------------------------------------------------------------------------
(* The stage does not go back *)

\* Unless a callback raced app_main: the stage in RAM is ahead of the one in NVS, and a save
\* that has compared its stage with the one in RAM is not behind it.
StageInv ==
    used.faults = 0 /\ ~raced =>
      /\ main # "load" => nvs.stage <= ram.stage
      /\ \A t \in Task : /\ At(t, "ram") => ram.stage <= save[t].state.stage
                         /\ At(t, "open") => save[t].state.stage = ram.stage

\* One task at a time: without the race, app_main has returned before the other one saves.
LEMMA OneSaves ==
    ASSUME TaskInv, ~raced, NEW t \in Task, Active(t)
    PROVE  main # "load" /\ \A u \in Task \ {t} : ~Active(u)
BY DEF TaskInv, Listening, Task

LEMMA StageStep == TypeOK /\ TaskInv /\ StageInv /\ [Next]_vars => StageInv'
<1> SUFFICES ASSUME TypeOK, TaskInv, StageInv, [Next]_vars, used'.faults = 0, ~raced'
             PROVE  /\ main' # "load" => nvs'.stage <= ram'.stage
                    /\ \A t \in Task : /\ At(t, "ram")' => ram'.stage <= save'[t].state.stage
                                       /\ At(t, "open")' => save'[t].state.stage = ram'.stage
  BY DEF StageInv
<1>0. nvs.stage \in 0..7 /\ ram.stage \in 0..7 /\ \A t \in Task : save[t].state.stage \in 0..7
  BY States DEF TypeOK
<1>1. CASE UNCHANGED vars
  BY <1>1 DEF vars, StageInv, At
<1>2. ASSUME NEW t \in Task, Saving(t)
      PROVE  /\ main' # "load" => nvs'.stage <= ram'.stage
             /\ \A u \in Task : /\ At(u, "ram")' => ram'.stage <= save'[u].state.stage
                                /\ At(u, "open")' => save'[u].state.stage = ram'.stage
  <2>1. /\ UNCHANGED <<main, used, raced>> /\ save[t].pc # "idle"
        /\ \A u \in Task \ {t} : save'[u] = save[u]
    BY <1>2, SavingSteps
  <2>2. main # "load" /\ \A u \in Task \ {t} : save[u].pc = "idle"
    BY <2>1, OneSaves DEF Active, At
  <2>3. /\ nvs.stage <= ram.stage
        /\ save[t].pc = "ram" => ram.stage <= save[t].state.stage
        /\ save[t].pc = "open" => save[t].state.stage = ram.stage
    BY <2>1, <2>2 DEF StageInv, At
  <2>4. Clamp(save[t].state).stage >= ram.stage /\ Clamp(save[t].state) \in State
        /\ Clamp(save[t].state).stage \in 0..7
    BY ClampType, States DEF TypeOK
  <2>5. nvs'.stage <= ram'.stage
    <3>1. nvs \in State
      BY DEF TypeOK
    <3> QED
      BY <1>0, <1>2, <2>1, <2>3, <3>1, SavingSteps DEF State
  <2>6. /\ At(t, "ram")' => ram'.stage <= save'[t].state.stage
        /\ At(t, "open")' => save'[t].state.stage = ram'.stage
    BY <1>0, <1>2, <2>1, <2>3, <2>4, SavingSteps DEF At
  <2> QED
    BY <2>1, <2>2, <2>5, <2>6 DEF At
<1>3. CASE AppMain
  <2>1. /\ UNCHANGED <<nvs, raced>> /\ save'["btc"] = save["btc"] /\ save["main"].pc = "idle"
        /\ used' = used
        /\ (main = "load" /\ ram' = nvs) \/ (main # "load" /\ ram' = ram)
        /\ save'["main"].pc = "clamp" \/ save' = save
    BY <1>3, AppMainSteps
  <2>2. main = "load" => save["btc"].pc = "idle"
    BY DEF TaskInv, Listening, Active, At
  <2> QED
    BY <1>0, <2>1, <2>2 DEF StageInv, At, Task
<1>4. CASE Stack
  BY <1>4, StackSteps DEF StageInv, At
<1>5. CASE Callback
  <2>1. /\ UNCHANGED main /\ save'["main"] = save["main"] /\ save["btc"].pc = "idle"
    BY <1>5, CallbackSteps
  <2>2. main = "done" /\ ~raced
    BY <1>5 DEF Callback
  <2>3. save["main"].pc = "idle"
    BY <2>2 DEF TaskInv, Active, At
  <2>4. \/ UNCHANGED <<ram, nvs, used>> /\ save'["btc"].pc = "clamp"
        \/ ram' = Zero /\ nvs' = Zero /\ save' = save
    BY <1>5, CallbackSteps
  <2>5. Zero.stage <= Zero.stage
    BY DEF Zero
  <2> QED
    BY <2>1, <2>2, <2>3, <2>4, <2>5 DEF StageInv, At, Task
<1>6. CASE Crash
  BY <1>6, CrashSteps DEF At
<1> QED
  BY <1>1, <1>2, <1>3, <1>4, <1>5, <1>6, Steps

\* The saved stage goes back only when the light is reset.
THEOREM StageNeverBackAlways == Spec => StageNeverBack
<1>1. Init => TaskInv /\ StageInv
  <2>1. Init => \A t \in Task : save[t].pc = "idle"
    BY DEF Init, Idle
  <2> QED
    BY <2>1 DEF Init, TaskInv, StageInv, Active, At, Task, Listening
<1>2. TypeOK /\ TaskInv /\ StageInv /\ [Next]_vars => [StageForward]_vars
  <2> SUFFICES ASSUME TypeOK, TaskInv, StageInv, [Next]_vars, ~UNCHANGED vars,
                      used'.faults = 0, nvs'.stage < nvs.stage, ~raced
               PROVE  nvs' = Zero
    BY DEF StageForward
  <2>1. nvs.stage \in 0..7 /\ ram.stage \in 0..7 /\ nvs \in State
    BY States DEF TypeOK
  <2>2. ASSUME NEW t \in Task, Saving(t) PROVE FALSE
    <3>1. used' = used /\ save[t].pc # "idle"
      BY <2>2, SavingSteps
    <3>2. main # "load"
      BY <3>1, OneSaves DEF Active, At
    <3>3. nvs.stage <= ram.stage /\ (save[t].pc = "open" => save[t].state.stage = ram.stage)
      BY <3>1, <3>2 DEF StageInv, At
    <3>4. save[t].pc = "open" /\ nvs'.stage = save[t].state.stage
      BY <2>1, <2>2, SavingSteps DEF State
    <3> QED
      BY <2>1, <3>3, <3>4
  <2>3. ASSUME nvs' = nvs PROVE FALSE
    BY <2>1, <2>3
  <2> QED
    BY <2>2, <2>3, Steps, AppMainSteps, StackSteps, CallbackSteps, CrashSteps
<1> QED
  BY <1>1, <1>2, TaskStep, StageStep, MeshNodeTypeOK, PTL DEF Spec, StageNeverBack
=============================================================================
