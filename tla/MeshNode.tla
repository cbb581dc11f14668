------------------------------ MODULE MeshNode ------------------------------
(***************************************************************************)
(* A BLE Mesh light (esp_ble_mesh/onoff_models/onoff_server/main/main.c    *)
(* and board.c).  The state of the light exists four times: in the OnOff   *)
(* server model (srv), on the LED (led), in RAM beside the stage and the   *)
(* address (ram), and in NVS (nvs), from which a boot restores the others. *)
(*                                                                         *)
(* Two tasks save the state with farmely_store_node_state, without a lock  *)
(* and one NVS key at a time: app_main while it boots, and the BTC task,   *)
(* which runs the callbacks.  The mesh stack is external: it keeps its own *)
(* address in flash, answers an OnOff SET by itself (AUTO_RSP) and only    *)
(* then posts the state change to the BTC task, so srv runs ahead of the   *)
(* callbacks.  Power may fail at any step.                                 *)
(***************************************************************************)
EXTENDS Naturals, Sequences

CONSTANTS MaxAddr,      \* bound: times the light is provisioned
          MaxMessages,  \* bound: OnOff and configuration messages it receives
          MaxCrashes,   \* bound: power failures
          MaxFaults     \* bound: failures of nvs_open and of the Bluetooth start

Unassigned == 0

ASSUME NodeAssumption ==
    /\ MaxAddr \in Nat \ {0}
    /\ MaxMessages \in Nat
    /\ MaxCrashes \in Nat
    /\ MaxFaults \in Nat

VARIABLES
    srv,     \* onoff_server_0.state.onoff
    led,     \* the LED, and led_state[0].previous, which follows it
    ram,     \* [stage, addr, onoff]: s_node_stage, s_node_addr, s_restored_onoff
    nvs,     \* the same three keys in NVS
    main,    \* program counter of app_main
    save,    \* save[t]: the call of farmely_store_node_state in task t
    stack,   \* unicast address the mesh stack keeps in flash, Unassigned if none
    queue,   \* events the stack has posted to the BTC task
    raced,   \* history: in this boot a callback ran before app_main had returned
    used     \* [addr, msgs, crashes, faults] used so far of the bounds

vars == <<srv, led, ram, nvs, main, save, stack, queue, raced, used>>

Task == {"main", "btc"}
State == [stage : 0..7, addr : 0..MaxAddr, onoff : 0..1]
Zero == [stage |-> 0, addr |-> Unassigned, onoff |-> 0]
Idle == [pc |-> "idle", state |-> Zero]
Event == [kind : {"set", "bind", "prov", "reset"}, addr : 0..MaxAddr, on : 0..1]
BootPc == {"load", "board", "bt", "mesh", "final", "done", "dead"}

TypeOK ==
    /\ srv \in 0..1 /\ led \in 0..1
    /\ ram \in State /\ nvs \in State
    /\ main \in BootPc
    /\ save \in [Task -> [pc : {"idle", "clamp", "ram", "open", "addr", "onoff"}, state : State]]
    /\ stack \in 0..MaxAddr
    /\ queue \in Seq(Event)
    /\ raced \in BOOLEAN
    /\ used \in [addr : 0..MaxAddr, msgs : 0..MaxMessages,
                 crashes : 0..MaxCrashes, faults : 0..MaxFaults]

Spend(b) == used' = [used EXCEPT ![b] = @ + 1]

-----------------------------------------------------------------------------
(* farmely_store_node_state *)

\* Task t calls it.
Save(t, stage, addr, onoff) ==
    save' = [save EXCEPT ![t] = [pc |-> "clamp",
                                 state |-> [stage |-> stage, addr |-> addr, onoff |-> onoff]]]

At(t, label) == save[t].pc = label
Goto(t, label) == save' = [save EXCEPT ![t].pc = label]

\* Variant with a bug: the stage of the caller is stored as it is.
ClampAddr(s) == [s EXCEPT !.addr = IF @ = Unassigned THEN ram.addr ELSE @]

\* The stage never goes back, and an address is not replaced by none.
Clamp(s) == [s EXCEPT !.stage = IF @ < ram.stage THEN ram.stage ELSE @,
                      !.addr = IF @ = Unassigned THEN ram.addr ELSE @]

SaveClamp(t) ==
    /\ At(t, "clamp")
    /\ save' = [save EXCEPT ![t] = [pc |-> "ram", state |-> Clamp(save[t].state)]]
    /\ UNCHANGED <<srv, led, ram, nvs, main, stack, queue, raced, used>>

SaveRam(t) ==
    /\ At(t, "ram")
    /\ ram' = save[t].state
    /\ Goto(t, "open")
    /\ UNCHANGED <<srv, led, nvs, main, stack, queue, raced, used>>

\* nvs_open, and the first key; each nvs_set is in flash when it returns
SaveStage(t) ==
    /\ At(t, "open")
    /\ \/ nvs' = [nvs EXCEPT !.stage = save[t].state.stage] /\ Goto(t, "addr") /\ UNCHANGED used
       \/ used.faults < MaxFaults /\ Spend("faults") /\ Goto(t, "idle") /\ UNCHANGED nvs
    /\ UNCHANGED <<srv, led, ram, main, stack, queue, raced>>

SaveAddr(t) ==
    /\ At(t, "addr")
    /\ nvs' = [nvs EXCEPT !.addr = save[t].state.addr]
    /\ Goto(t, "onoff")
    /\ UNCHANGED <<srv, led, ram, main, stack, queue, raced, used>>

SaveOnOff(t) ==
    /\ At(t, "onoff")
    /\ nvs' = [nvs EXCEPT !.onoff = save[t].state.onoff]
    /\ Goto(t, "idle")
    /\ UNCHANGED <<srv, led, ram, main, stack, queue, raced, used>>

Saving(t) == SaveClamp(t) \/ SaveRam(t) \/ SaveStage(t) \/ SaveAddr(t) \/ SaveOnOff(t)

-----------------------------------------------------------------------------
(* app_main: a step of it starts when the save before it has returned *)

Booting(label) == main = label /\ At("main", "idle")

\* Variant with a bug: the model is not given the restored state.
RestoredModelOff == 0

\* The state the OnOff server model starts with.
RestoredModel == nvs.onoff

\* farmely_load_node_state, the model restored, stage 1 saved
Load ==
    /\ Booting("load")
    /\ ram' = nvs
    /\ srv' = RestoredModel
    /\ Save("main", 1, nvs.addr, nvs.onoff)
    /\ main' = "board"
    /\ UNCHANGED <<led, nvs, stack, queue, raced, used>>

\* board_init switches the LED off, board_led_operation restores it; stage 2
Board ==
    /\ Booting("board")
    /\ led' = ram.onoff
    /\ Save("main", 2, ram.addr, ram.onoff)
    /\ main' = "bt"
    /\ UNCHANGED <<srv, ram, nvs, stack, queue, raced, used>>

\* bluetooth_init; app_main returns if it fails, and the light is not in the mesh
StartBluetooth ==
    /\ Booting("bt")
    /\ \/ main' = "mesh" /\ Save("main", 3, ram.addr, ram.onoff) /\ UNCHANGED used
       \/ main' = "dead" /\ used.faults < MaxFaults /\ Spend("faults") /\ UNCHANGED save
    /\ UNCHANGED <<srv, led, ram, nvs, stack, queue, raced>>

\* Variant with a bug: the address last saved, as in the saves before.
BootAddrSaved == ram.addr

\* The address app_main saves last: the one the stack has restored.
BootAddr == stack

\* ble_mesh_init: from here on the stack receives and the BTC task runs. The
\* arguments of the last save are read in this step too.
StartMesh ==
    /\ Booting("mesh")
    /\ Save("main", IF stack # Unassigned THEN 5 ELSE 4, BootAddr, srv)
    /\ main' = "final"
    /\ UNCHANGED <<srv, led, ram, nvs, stack, queue, raced, used>>

Finish ==
    /\ Booting("final")
    /\ main' = "done"
    /\ UNCHANGED <<srv, led, ram, nvs, save, stack, queue, raced, used>>

AppMain == Load \/ Board \/ StartBluetooth \/ StartMesh \/ Finish

-----------------------------------------------------------------------------
(* The mesh stack (external) *)

\* From ble_mesh_init on, also while app_main saves for the last time
Listening == main \in {"final", "done"}

Post(e) == queue' = Append(queue, e)

\* Provisioning takes seconds, so no callback is waiting when it completes.
ProvisionNode ==
    /\ main = "done" /\ queue = <<>> /\ At("btc", "idle")
    /\ stack = Unassigned /\ used.addr < MaxAddr
    /\ stack' = used.addr + 1
    /\ Post([kind |-> "prov", addr |-> used.addr + 1, on |-> 0])
    /\ Spend("addr")
    /\ UNCHANGED <<srv, led, ram, nvs, main, save, raced>>

\* A SET that changes the state is reported to the callbacks; one that does not
\* may be.
ReceiveSet(on) ==
    /\ Listening /\ stack # Unassigned /\ used.msgs < MaxMessages
    /\ srv' = on
    /\ \/ Post([kind |-> "set", addr |-> stack, on |-> on])
       \/ srv = on /\ UNCHANGED queue
    /\ Spend("msgs")
    /\ UNCHANGED <<led, ram, nvs, main, save, stack, raced>>

ReceiveBind ==
    /\ Listening /\ stack # Unassigned /\ used.msgs < MaxMessages
    /\ Post([kind |-> "bind", addr |-> stack, on |-> 0])
    /\ Spend("msgs")
    /\ UNCHANGED <<srv, led, ram, nvs, main, save, stack, raced>>

ReceiveReset ==
    /\ Listening /\ stack # Unassigned /\ used.msgs < MaxMessages
    /\ stack' = Unassigned
    /\ Post([kind |-> "reset", addr |-> stack, on |-> 0])
    /\ Spend("msgs")
    /\ UNCHANGED <<srv, led, ram, nvs, main, save, raced>>

-----------------------------------------------------------------------------
(* Callbacks of the BTC task *)

Arrives(kind) == queue # <<>> /\ Head(queue).kind = kind /\ At("btc", "idle")

\* example_change_led_state: the message was for the address the light still has
Show(e) == led' = IF e.addr = stack THEN e.on ELSE led

\* example_ble_mesh_generic_server_cb, STATE_CHANGE
OnSet ==
    /\ Arrives("set")
    /\ Show(Head(queue))
    /\ Save("btc", 7, stack, Head(queue).on)
    /\ queue' = Tail(queue)
    /\ UNCHANGED <<srv, ram, nvs, main, stack, used>>

\* example_ble_mesh_config_server_cb, MODEL_APP_BIND
OnBind ==
    /\ Arrives("bind")
    /\ Save("btc", 6, Head(queue).addr, srv)
    /\ queue' = Tail(queue)
    /\ UNCHANGED <<srv, led, ram, nvs, main, stack, used>>

\* prov_complete, and stage 5 saved
OnProvisioned ==
    /\ Arrives("prov")
    /\ led' = srv
    /\ Save("btc", 5, Head(queue).addr, srv)
    /\ queue' = Tail(queue)
    /\ UNCHANGED <<srv, ram, nvs, main, stack, used>>

\* Variant with a bug: the model keeps its state over a reset.
ResetModelKeeps == srv

\* The state of the OnOff server model after a reset.
ResetModel == 0

\* farmely_reset_node_state
OnReset ==
    /\ Arrives("reset")
    /\ ram' = Zero
    /\ srv' = ResetModel
    /\ led' = 0
    /\ \/ nvs' = Zero /\ UNCHANGED used
       \/ used.faults < MaxFaults /\ Spend("faults") /\ UNCHANGED nvs
    /\ queue' = Tail(queue)
    /\ UNCHANGED <<main, save, stack>>

Callback == /\ OnSet \/ OnBind \/ OnProvisioned \/ OnReset
            /\ raced' = (raced \/ main # "done")

-----------------------------------------------------------------------------
\* Power fails: RAM, the queue and the LED are lost, flash is not.
Crash ==
    /\ used.crashes < MaxCrashes
    /\ Spend("crashes")
    /\ srv' = 0 /\ led' = 0 /\ ram' = Zero
    /\ main' = "load"
    /\ save' = [t \in Task |-> Idle]
    /\ queue' = <<>>
    /\ raced' = FALSE
    /\ UNCHANGED <<nvs, stack>>

Init ==
    /\ srv = 0 /\ led = 0 /\ ram = Zero /\ nvs = Zero
    /\ main = "load"
    /\ save = [t \in Task |-> Idle]
    /\ stack = Unassigned
    /\ queue = <<>>
    /\ raced = FALSE
    /\ used = [addr |-> 0, msgs |-> 0, crashes |-> 0, faults |-> 0]

Next == \/ \E t \in Task : Saving(t)
        \/ AppMain
        \/ ProvisionNode
        \/ \E on \in 0..1 : ReceiveSet(on)
        \/ ReceiveBind \/ ReceiveReset
        \/ Callback
        \/ Crash

Spec == Init /\ [][Next]_vars

-----------------------------------------------------------------------------
(* Properties *)

\* The light has booted and has handled every message.
Settled == main = "done" /\ queue = <<>> /\ \A t \in Task : At(t, "idle")

\* The LED shows the state the light reports to the mesh: through power failures,
\* resets that overtake a SET still in the queue, and messages that arrive while
\* app_main runs.
LedShowsModel == Settled => led = srv

\* What a restart will restore is what the light shows: GPIO, model and NVS agree
\* once every message is handled, whatever power failures came between the keys
\* of a save.  (Not in a boot in which a callback raced the last save of app_main:
\* the two mix their keys.  The next boot makes them agree again.)
Persisted == Settled /\ used.faults = 0 /\ ~raced => nvs.onoff = srv /\ led = srv

\* A provisioned light has saved the address the stack gave it, also when power
\* failed before the callback of the provisioning ran: the next boot saves it.
AddressSaved == Settled /\ used.faults = 0 /\ stack # Unassigned => nvs.addr = stack

\* The saved stage goes back only when the light is reset, although every boot
\* starts at stage 1 again; but for the same race.
StageForward == used'.faults = 0 /\ nvs'.stage < nvs.stage => nvs' = Zero \/ raced
StageNeverBack == [][StageForward]_vars
=============================================================================
