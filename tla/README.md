# LightMesh: TLA+ models, checks and proofs

This directory is a verification development of the LightMesh repository: BLE
Mesh gateway and lights, Wi-Fi devices with firmware update over MQTT, the
ESP-WIFI-MESH lights, the video doorbell with its relay, and the cloud service.
It holds TLA+ modules translated from the source, TLC configurations that check
them on small instances, and theorems with proofs that TLAPS checks for every
value of the constants. `PROJECT.json` lists the
components, the runs, the source lines of each definition, the hazards and the
theorems.

## 1. Inventory

| Component | Source | State it keeps | Operations | Talks to |
|---|---|---|---|---|
| BLE Mesh gateway | `esp_ble_mesh/provisioner/main/main.c` | node table (also in NVS), pending command and retry counters per light, one "toggle after the first GET" | commands, group commands, sync, recovery, callbacks of the configuration and OnOff clients | mesh stack (calls and events), MQTT bridge |
| MQTT bridge of the gateway | `.../gateway_bridge.c`, `captive_portal.c` | connection flag, Wi-Fi credentials | dispatch, publish status and ack, provisioning window | broker, gateway |
| BLE Mesh light | `esp_ble_mesh/onoff_models/onoff_server/main` | model state, LED, stage/address/state in RAM and NVS | boot, callbacks, save, reset | mesh stack |
| OTA client | `rgb_light/main/app_ota.c`, `app_mqtt.c` (copy in `camera_stream`) | running flag, record of a pending success in NVS, boot loader state | download task, confirmation, reports | broker, boot loader |
| OTA engine | `cloud_service`: `ota.py`, part of `storage.py`, `mqtt_bridge.py` | firmware, rollouts, one row per device and firmware | check, dispatch, ingest results | SQLite, broker, App |
| Device shadow | `storage.py`, `mqtt_bridge.py`, `main.py` | desired and reported state with versions, processed message ids, last report | PATCH, report, offline, sweep | SQLite, broker, App |
| Device registry | `storage.py`, `main.py` | owner, type, capabilities | register, claim, unclaim | SQLite, App |
| Organization and automation | `automation.py`, `storage.py` | groups, scenes, rules | apply to members, react to reports | shadow |
| ESP-WIFI-MESH baseline | `internal_communication/main` | registry of the root, parent and root role | status, commands, expiry, app start and stop, OTA | mesh, broker |
| Doorbell | `camera_stream/main` | call state, streaming flag | ring, answer, timeout, relay push | broker, relay |
| MJPEG relay | `server_relay/mjpeg_relay.py` | last frame per camera and a sequence number | push, view | doorbell, App |
| App | `app/lib` | device list, optimistic state, session | commands, provisioning, notifications | broker, cloud |

What is hard in them, and the property each needs:

* **Gateway.** Four kinds of tasks share tables without a lock; a request to a
  light may be refused, lost, or obeyed but not answered; the gateway restarts.
  A pending command blocks its light and every group command, so it must never
  be forgotten (`NoOrphan`, `PendingEnds`), must not be overwritten
  (`LedgerSpec`), and its acknowledgement must be true and single
  (`AckTruthful`, `AckedAtMostOnce`).
* **Light.** The same state four times, saved key by key by two tasks, with
  power failures between any two keys (`Persisted`, `LedShowsModel`,
  `AddressSaved`, `StageNeverBack`).
* **OTA.** A device that restarts in the middle, a boot loader that goes back,
  reports that are lost, and an engine whose reads and writes are not one
  transaction (`OnlineMeansConfirmed`, `SentOnce`, `RunningRecorded`,
  `RolloutCompletes`).
* **Shadow.** Read-modify-write in several threads outside the transactions,
  repeated requests, a broker that delivers retained messages again: a patch is
  applied once (`AppliedOnce`) and published once on each of the light's two
  command topics (`PublishedOnce`), and the reported state follows the device
  although stale documents are written back (`AbsentEndsOffline`,
  `ReportsPrevail`).
* **Groups, scenes, automations.** One request becomes a transaction and two
  publications per light, in several threads, with retries and edits in between
  (`AnsweredExactlyOnce`); a rule must have the last word although commands are
  lost and overtaken (`RuleEnforced`).
* **ESP-WIFI-MESH.** Four tasks per device share a registry and one LED, what is
  published was read under a mutex that has been released, and the root moves
  from device to device, each with the same MQTT client id. What the broker
  retains must become true again (`StatusCatchesUp`, `SilentGoesOffline`), the
  LED of an ESP32-S3 must show the state that is reported (`LedAgrees`; on the
  ESP32 WROOM it does not, section 8), and an update reported as a success must
  have been one (`SuccessIsTrue`).
* **Doorbell and relay.** Three threads start and stop a stream and the push
  task ends it by itself, all through one unprotected flag: a stream must never
  run without something that will end it (`NoEndlessStream`, `StreamEnds`), and
  the relay must not show a frame twice or out of order (`NewestFirst`).
* **App, registry, station.** Not modelled, see section 9.

## 2. Modules

| Module | What it is | Uses |
|---|---|---|
| `CommandLedger` | abstract: one open command per light, ended once, acknowledged at most once | |
| `MeshGateway` | the gateway, its bridge, the client models and the lights | instance of `CommandLedger` |
| `MCGateway` | model for TLC: `MeshGateway` with the values of the configuration files | `MeshGateway` |
| `GatewayWindow` | the gateway with its Wi-Fi: provisioning window, radio yield, station, MQTT session, second recovery task | extends `MeshGateway` |
| `MeshGatewayProofs` | types of the gateway, no orphaned command, configuration and subscription complete, the ledger implemented, true acknowledgements, a true table | `MeshGateway` |
| `GatewayWindowProofs` | types, no orphaned command and the ledger with window, outages and a second recovery; the table is right in the end | `GatewayWindow`, `MeshGatewayProofs` |
| `MeshNode` | a light: boot, saves, callbacks, reset, power failure | |
| `MeshNodeProofs` | its types and its four properties | `MeshNode` |
| `OtaChannels` | the topics between device and cloud, failures | |
| `OtaDevice` | update client and boot loader | `OtaChannels` |
| `OtaCloud` | update engine, its threads | `OtaChannels` |
| `OtaSystem` | device and cloud together, fairness, end-to-end properties | `OtaDevice`, `OtaCloud` |
| `OtaProofs` | its types and its safety properties | `OtaSystem` |
| `DeviceShadow` | the shadow of a Wi-Fi light: broker, bridge, requests, sweeper | |
| `MCShadow` | the patches of its runs | `DeviceShadow` |
| `DeviceShadowProofs` | its types; de-duplication of PATCHes, for any number of threads | `DeviceShadow` |
| `HomeControl` | group commands, scenes and a rule over the desired state of several lights | |
| `MCHome` | the group commands of its run | `HomeControl` |
| `HomeControlProofs` | its types, and group commands applied exactly once | `HomeControl` |
| `OtaClient` | the update client without rollback (mesh light, doorbell) | |
| `WifiMesh` | the ESP-WIFI-MESH lights, their root and its broker session | `OtaClient` |
| `WifiMeshProofs` | its types, the LED and the reports of success | `WifiMesh` |
| `MjpegRelay` | frames from connections to viewers | |
| `Doorbell` | button, commands, timeout and push tasks | `MjpegRelay` |
| `DoorbellProofs` | its safety, for any number of push tasks, viewers and frames | `Doorbell` |

An operator whose comment starts with "Variant with a bug" is a deliberately
wrong form of the definition that follows it; nothing uses it. It shows that the
properties can fail: with the variant in place of the definition TLC finds a
counterexample.

## 3. How state and actions correspond to the code

### MeshGateway

A callback of ESP-IDF's BTC task runs to its end before the next one, so each
callback is one action (`ProvComplete`, `ConfigStatus`, `ConfigTimeout`,
`GetStatus`, `SetStatus`, `GetTimeout`, `SetTimeout`, `OnOffError`). The MQTT
task runs at another priority and may be preempted between the check of
`in_flight`, the marking and the post: these are separate actions joined by the
program counter `mqtt.pc` (`ReceiveCommand`, `MarkPending`, `PostCommand`;
`ReceiveGroup`, `MarkGroup`, `StartGroupSync`, `PostGroup`; `Connect`,
`SyncNode`). The two spawned tasks (`GroupSyncStep`, `RecoverStep`) do one light
per step, because they sleep in between.

A call of a client model is posted to the queue of the BTC task (`btc`). There
it is sent (`SendUnicast`, `SendGroup`) or refused with an error event: a
client model has one outstanding request per destination. A request in `tx` ends
with `Answer`, `Refuse` or `TimeOut`; a time-out may come before or after the
light obeyed. `pending[i].mid` is the number of the command; the real message id
is a string that is only copied. The 250 ms and 500 ms delays are not modelled:
any order they allow is explored, and more.

### MeshNode

`save[t]` is the call of `farmely_store_node_state` in task `t`; each of its
steps is an action (`SaveClamp`, `SaveRam`, `SaveStage`, `SaveAddr`,
`SaveOnOff`), because neither task takes a lock and `nvs_set_*` is in flash when
it returns. `Load` ... `Finish` are the parts of `app_main` between its saves.
The stack (external) answers a SET itself and posts the state change to the
callbacks, so `queue` lies between `srv` and `OnSet`. `Crash` loses RAM at any
step.

### OTA

`OtaDevice` has one action per step of `ota_task` that another task or a crash
can come between, and splits the handler of "connected" at its report, at the
call that marks the image valid and at the removal of the record. The boot
loader (`Boot`, external) starts the staged image, keeps a verified one and
returns from an unverified one. `OtaCloud` runs `OtaEngine.evaluate` in the
MQTT thread and in HTTP threads; its steps are the SQLite statements that are
not in one transaction: Python's `sqlite3` opens the transaction with the first
INSERT or UPDATE, so the SELECTs of `select_ota_target` and `begin_ota_dispatch`
read a state that may be stale at the write. `Ingest` is the whole handling of a
report up to the evaluation it starts.

### DeviceShadow

One light, its shadow row and everybody who writes it. `PublishStatus` is
`publish_status`: a retained legacy message without an id and a retained
normalized one with a fresh id; `LightDrop` leaves the last will in place of the
former. The bridge has a clean session, so `CloudDrop` loses what is in flight
and `CloudConnect` gets the retained messages again, which is why ids must be
remembered (`recorded`; ids no longer in transit are forgotten and used again,
so that heartbeats can go on for ever in a finite model). `http[t]` is a request
thread: `RequestPatch` is the first SELECT of `update_desired`, `CheckPatch` the
second, `WritePatch` the transaction with its possible roll-back, and after it come
the parts of `publish_desired`: `PublishPatch` tests the connection and the
state, `PublishNormalized` and `PublishLegacy` are its two calls of
`client.publish`. The light has subscribed to both topics and runs
`handle_command` for every message (`LightCommand`), so it obeys a patch twice.
A call that finds the connection gone leaves its message in the client
(`unsent`), which sends it when it connects again. `RequestOffline`/`MarkOffline` and
`SweepRead`/`SweepWrite` are the read and the write of `mark_offline` and
`mark_stale_devices`. `merged` and `published` are history variables.

### GatewayWindow

`wifiTask` is `bridge_wifi_start` with its wait for the credentials: `StartWifi`,
`OpenWindow` (which calls `farmely_mesh_yield_radio(true)`), `CloseWindow`,
`Resume`. While `radio` is false the lights may obey (`AnswerUnheard`) but
nothing is heard, and the requests end by time-out (`TimeOutUnheard`). `Resume`
starts `mesh_recover` again: `recoverAgain` is the position of the second task,
whose steps are those of the first (`RecoverNode`) with the other counter. Both
share the configuration retries, as in the code. `station` is the
association, `session` the MQTT session, and `connected` (of `MeshGateway`) the
flag `s_mqtt_connected`, which the handlers of both clear and only a new session
sets: they are not the same, which is what `PublishesAgain` is about. lwIP drops
TCP connections when the address is lost, unless it is configured to keep them.

### HomeControl

Each member of a group command (`GroupTodo`) or scene becomes an entry of the
thread's `todo`; `CheckDesired` and `WriteDesired` are the lookup and the
transaction of one entry, `PublishDesired` and `PublishLegacy` the two
publications of `publish_desired`, each of which may be lost. `Scoped` makes the
message id of a member from its position, as `command_group` does. `Ingest`,
`EvaluateRule` and `RunAction` are the MQTT thread ("paho") with `on_reported`;
an exception of it leaves the thread "dead". `given` counts what a command was
applied to, `touched` the commands that have seen their group edited.

### WifiMesh and OtaClient

Every device has the same program; `role` and `linked` say what the mesh stack
(external) made of it. The tasks are `tx[d]` (heartbeat, own entry, expiry,
gateway status), `rx[d]` (mesh messages), `mq[d]` (MQTT events) and the event
loop, whose handlers are single actions. A task holds in `snap` what it read
under the mutex until it publishes: these are separate actions, so publications
can be out of order. `session` is the broker's only session of the constant
`MQTT_CLIENT_ID`; `Will` is the last will of whoever loses it. `Age` is the time
without a report, `queue` what the disconnected client stores. `OtaClient` gives
the steps of `mesh_ota.c`; `WifiMesh` conjoins its report callback to them.
`Rgb` are the devices built for the ESP32-S3, the others are ESP32 WROOMs:
`mesh_light.c` has both branches, and `Lit` says what an indication or a command
leaves of the LED. `sdkconfig.node.defaults` names the WROOM as the board of the
nodes, `docs/THREE_FIRMWARE_FLASHING_GUIDE.md:40` builds them for the S3.
There are two assumptions on time besides `Age`: an election does not fall
between two adjacent statements of a task, or between a report of success and the
erasure of its record (`Settled`), and a node has been told the address of its
root before that root's first update command reaches it (`RxOta`): the root must
have connected to the broker by then. That the erasure of the record fails is
not modelled.

### Doorbell and MjpegRelay

`thread[t]` is where each of the three threads is in `app_doorbell_start_stream`
or `..._stop_stream`; each access to `s_streaming`, the timer and the task is a
step of its own (`RelayCheck`, `RelaySet`, `RelayCreate`, `Announce`, `Arm`,
`StopStep`, `Stopped`). `push[k]` is a push task with the connection `k`; there
may be several, and the end of any of them clears the flag (`PushClose`).
`overlap` records that a task has begun while frames of another were on their way.
In the relay a connection is `sock[k]`, `cam` the last frame and its number, and
a viewer goes through `Join`, `Take`, `Write`, `Leave`. Frames are numbered.

## 4. Runs

| Run | Shows | Bounds |
|---|---|---|
| `gw_commands` | commands on two configured lights, single and group, under one failure | 2 lights, 2 commands, 1 retry, 1 failure of three kinds |
| `gw_setup` | a new light, provisioned twice, configured while the gateway restarts once | 1 light, 2 addresses, 1 command, 1 failure |
| `gw_live` | a restarted gateway: recovery, sync, command; liveness | 1 light, 1 command, 1 connection, 2 failures |
| `gw_window` | boot with the provisioning window, two recoveries, a restart and an outage | 1 light, 1 command, 1 connection, 1 failure of three kinds |
| `gw_outage` | every outage ends with a gateway that publishes; liveness | 2 outages, 3 connections, 1 failure, no commands |
| `node_state` | a light through messages, resets and crashes | 4 messages, 2 crashes, 2 addresses, 1 failure |
| `ota` | a rollout and its retargeting with an App check racing the reports; liveness | 2 versions, 2 rollout changes, 1 HTTP thread, 1 failure of seven kinds |
| `shadow` | a light and a bridge that come and go for ever, one PATCH in two threads, sweeper, offline requests; liveness | 1 patch, 2 threads, a status is published only to an empty queue |
| `mesh` | root and node with commands, an update, a power cut, a new root, a lost session; liveness | 2 devices, an S3 and a WROOM, that can both be upgraded, 2 versions, effort 2 |
| `doorbell` | start, stop and timeout against push tasks and a viewer; liveness | 2 push tasks, 1 viewer, 2 frames, 3 inputs |
| `home` | a group command and its retry, a scene, a rule, one edit, one lost publication; liveness | 2 lights, 2 HTTP threads, 2 requests, 1 edit, 1 failure |
| `shadow_merge` | expected violation: a patch is lost in the merge | 2 patches of different keys, 2 threads |

Why the bounds are enough: two lights make the group command check one light and
mark another, and let two destinations be busy independently; two commands are a
command and its successor on the same light; one retry distinguishes "retries
left" from "used up" and the proofs hold for every number; a second address is
what makes an answer late; two crashes allow one in the boot that follows the
other; two versions are the old and the new image and, by retargeting, a
downgrade; the seven kinds of failure of `ota` come one at a time (two at a time
were checked once, for the safety properties: 2.9 million states);
two threads with the same id are the smallest race on it, and the proofs hold
for every number of threads and patches. The bounded queue of the shadow delays
publications and drops none: a last will still arrives on top of two messages.
In the mesh `effort` counts what comes from outside: a command costs 1, a power
cut, a lost link, a new root, a broken session or an update command 2, and a
power cut during an update nothing, so the update can fail at each step; a node
and a root are all the roles there are. The invariants of `mesh` were also
checked once with effort 4, two such events in a row (8.4 million states), those
of `home` with 2 edits and 2 failures (9.6 million), and
`doorbell` with 4 inputs (1.2 million) and `gw_window` with 2 connections (7.5
million). Two push tasks are the smallest overlap;
three inputs are a start, a stop and a start, and the proofs hold for every
number. A retry, an edit and a lost publication are what the ids of a group
command have to stand.
Every constant that starts with `Max`, except `MaxRetries`
(`FARMELY_MAX_RETRIES`), is a bound of the model and not of the code.

`CHECK_DEADLOCK FALSE` everywhere but in `mesh`: with the bounds used up the
models stop, and the systems may really be idle for ever. The heartbeats of the
mesh never stop, so `mesh` checks that nobody waits on everybody.

## 5. Properties worth reading

* `NoOrphan` (gateway): an entry in flight always has a carrier: a queued call,
  an outstanding request, an event, or a task that will reach it. It is stated
  for lights provisioned once; see the hazards for the second time.
* `AckTruthful`: when an acknowledgement is published the light is in the state
  the acknowledged command asked for. This and the next one hold for configured
  lights and a gateway whose broker connects once (`Steady`, as in `gw_commands`):
  then each light has one thing under way at a time. With a reconnection, or a boot, a GET of the sync or of the recovery can
  keep the client model of a light busy when the verification of a group command
  asks it: the error event clears the entry, the next command is marked, and the
  status that answers the older GET, from before the group SET was executed,
  acknowledges it. From the third command on a failure to post the group SET does
  the same without a reconnection: the entries are cleared while the verification
  task that was started for them goes on, and the next group command starts a
  second one. Both need a group SET that is posted after the first GET of its
  verification, which only the delays prevent. TLC shows both within 20 steps.
* `Converged`: without failures the table agrees with the lights. The group SET is
  posted after the task that verifies it is started, and nothing but the delays
  orders the two: if the SET comes late, a light that joined after the marks, or
  whose entry was cleared because the GET of a sync or of the recovery kept its
  client model busy, obeys a SET that nobody asks about. TLC shows both within 30
  steps when `Paired` leaves out a light, or with `Booting` and one connection. A
  restart does no harm: it forgets the commands, and its recovery is alone.
* `WindowRecovered`: what the lights did while the gateway was off or deaf is in
  the table when all work is done. It needs the second recovery (the mutant that
  only resumes the radio breaks it), and it is stated without commands and
  failures, since a refused GET is not repeated.
* `PublishesAgain` holds because a lost station takes the MQTT session with it; the
  mutant lets the session survive, and the gateway is mute for ever.
* `Persisted` and `StageNeverBack` hold for boots in which no message arrives
  before `app_main` has returned (`raced`); section 8 has the others.
* `SentOnce` holds because of `UNIQUE(device_id, firmware_id)`; after a failure
  nothing replaces it.
* `SuccessByNewFirmware`: without a crash or a lost connection a success is
  reported by the image it names.
* `RunningRecorded`: whatever is lost, the row of the version the device keeps
  running becomes "success".
* `PublishedOnce` counts each of the two command topics by itself. That the light
  obeys every patch twice is what the code does; setting the same state again does
  no harm to it by itself, but a second message that is late may undo a newer
  command, and nothing promises that the last of two concurrent patches wins.
* `AbsentEndsOffline`: nothing bounds the reconnections of the bridge, so a light
  that is gone would come back to life with each retained status if its id were
  not remembered, and a status first heard after its last will needs the sweeper.
* `ReportsPrevail`: the sweeper can undo a report it did not see, and only the
  next heartbeat repairs that; nothing stronger ("never offline while
  connected") holds.
* `RolloutCompletes` promises completion only when all failures are failed
  downloads or refused commands. A lost command leaves a pending row that is
  never dispatched again.
* `StatusCatchesUp`: publications may be out of order, come from a former root or
  be its last will; once one root stays connected and a light stays in its mesh,
  the retained status of the light and of the gateway are right for good.
  `SilentGoesOffline` is stated for a root that stays connected: an expiry that
  is noticed while MQTT is down is never published.
* `LedAgrees` speaks of the ESP32-S3, and of a light whose LED shows a command: an
  indication of the layer or of a lost link replaces it (`indicated`) until the
  next command.
* `SuccessIsTrue` (mesh): the record of a success is written after the image of
  the next boot is chosen, and an update cannot start on a device that has not
  used up its record. It is stated of the steps that record, send and accept a
  report, since a report may be under way while the next update chooses another
  image. It allows a report that comes too early (section 8).
* `NoEndlessStream`: a start that loses its race to a stop still arms the timer,
  and a stop disarms it only on its way to clear the flag, so the flag never stays
  set with nobody to clear it. `NewestFirst` needs push tasks that do not overlap.
* `AnsweredExactlyOnce`: the ids of members make retries harmless, two at the same
  time as well, but only while the positions do not move.
* `RuleEnforced`: a rule is triggered by the level, not by the change, and exactly
  this repairs a command that was lost or overtaken. It supposes that the MQTT
  thread lives: a rule whose group has been deleted kills it.

## 6. Fairness

`MeshGateway!Fairness`: FreeRTOS runs every ready task (`MqttTask`, `BtcTask`,
the group sync tasks, `RecoverStep`), and a client model arms a timer for each
request, so a request ends. Nothing is assumed of commands, connections,
provisioning or restarts. `OtaSystem!Fairness`: the tasks of the device and the
threads of the cloud run when ready; `esp-mqtt` reconnects by itself and the
heartbeat is a periodic timer. Nothing is assumed of the operator, the App or
the outcome of a download. Failures are bounded and hence stop.
`DeviceShadow!Fairness`: the heartbeat timer of a connected light, the MQTT
thread, the request threads and the sweeper go on. Connections are not fair.
Time passes, but `last_seen_at` only becomes old when no reports come in, so the
fairness of `Age` is required only of behaviours with finitely many reports.
`GatewayWindow!WindowFairness` adds to that of the gateway the Wi-Fi task, and
the station and MQTT client, which try again by themselves; nobody has to enter
credentials. `WifiMesh!Fairness`: each task of a device runs; the queue of the
mesh stack is FIFO, so that a command in `inbox` (a set) is not passed over for
ever (`SF`); time passes (`Age`); the stack connects and informs the devices it
can. No command, change of the root or return of power is assumed.
`Doorbell!Fairness`: threads and push tasks run, a running timer expires, the
relay reads what it gets; viewers owe nothing. `HomeControl!FairSpec`: threads
finish what they have begun and the trigger device reports again and again.

## 7. Proofs

Checked by `tlapm` for every value of the constants that satisfies
`GatewayAssumption`:

* `GatewayTypeOK` (`MeshGatewayProofs`): `Spec => []TypeOK`. The inductive
  invariant is `TypeOK /\ MqttOK`: `MqttOK` ties the program counter of the MQTT
  task to the fields that are meaningful there (a light and a command between
  check and post), without which the updates of `pending` would not be typed.
  One lemma per action.
* `GatewayNoOrphan`, `GatewaySubscribed`, `GatewaySetupCompletes`
  (`MeshGatewayProofs`): `Spec => []NoOrphan`, `[]Subscribed`, `[]SetupCompletes`.
  All three say that something is under way, and follow it from queue to client
  model to event; they share one inductive invariant, `FlowType`:
  * `AddrInv`: what is under way (`Flow`: the queue and the requests) is addressed
    to an address the light was given and not to a later one; the table learns
    the addresses of a light in their order (`InOrder`), since the events of its
    joins pass the FIFO queue. Without it an event could be taken for an answer of
    the new address, and a join could overtake an older one.
  * `Reserved`: only lights in the table are marked, or about to be marked, so a
    light that gets its first address has no entry to orphan.
  * `BoundKnown`: a light holds the key only under the address the table has, so
    the table never changes behind a bound light.
  * `WillSubscribe`: without failures a bound light that is not in the group is
    ahead of `mesh_recover`, or a call, request or status that leads on to its
    subscription is under way (`Configuring`). The recovery task alone does not
    suffice after it has passed the light.
  * `SetupInv`: without failures and restarts the join of every light the table
    does not know is queued, every light it knows is subscribed or `Configuring`,
    and a request that follows the binding (`Late`) is for a bound light. The last
    part is what the answer to a subscription, the end of the sequence, needs.

  `CarrierKept` and `ConfigKept` say once what a step has to do for the items that
  leave `Flow`; `PostStep` and `CommandStep` are the two shapes of the handlers, and
  each action has a lemma that shows it to be one of them. A client model that is
  busy refuses a configuration request with an event that continues nothing; the
  invariant holds because the request it is busy with continues instead.
* `GatewayImplementsLedger` (`MeshGatewayProofs`): `Spec => LedgerSpec`, every
  step of the gateway is a step of the ledger or leaves it unchanged.
* `GatewayAcksOnce`: `Spec => []AckedAtMostOnce`.

The last two rest on `LedgerInv`: an entry that has a command id is in flight
(`OpenInFlight`); ids above the number of commands received are unused
(`FreshIds`); between the check and the marking the MQTT task holds an id that
no light has and nobody acknowledged (`MarkReady`, `MarkUnused`); an open
command is not yet acknowledged (`OpenUnacked`). `AckedAtMostOnce` alone is not
inductive: it says nothing of the open commands whose acknowledgement is still
to come.

* `GatewayConverged` and `GatewayAckTruthful` (`MeshGatewayProofs`): for every
  number of lights, commands, retries, failures and restarts,
  `Spec => []Converged` if `Steady`, and `Spec => AckTruthful` if `Steady` and
  posting does not fail (section 5 says why they need this). `Steady` is the
  condition on the constants: no boot with a recovery of its own, all lights
  configured, no further address, no further connection.

  The two share the inductive invariant `Paced`, which says that one thing at a
  time is under way for a light and what that means for what its light will be:
  * `OneByOne`: the queue and the requests hold one item of its own for each light,
    and a group SET that waits behind it, or beside a request of it, asks for what
    the light's command wants (`Sorted`). So no client model is ever busy, and a
    status cannot be overtaken by a SET that contradicts it.
  * `Commanded` (before a restart): the item of a light belongs to its command in
    flight, a SET asks for what the command wants, there is one verification task
    at most, and the lights it has still to ask have no item yet and their entries
    are in flight. A failure to post a group SET breaks this part: it is the reason
    for `Orderly`.
  * `Reserving`: between check and post the MQTT task relies on entries that nobody
    else makes or ends.
  * `Recovered` (after a restart): everything belongs to `mesh_recover`, which is
    past the lights that have an item, and no command is in flight.
  * `Truthful`: a status that would end the command of its light is true of the
    light, as long as it waits. This gives `AckTruthful`.
  * `Agreed`: without failures, a light for which nothing is under way is in the
    state the table has, and so are all group SETs still to come. This gives
    `Converged`: in the end `NoOrphan` leaves no entry in flight.

  The first lemmas are about sorted queues and what leaves and joins them; then one
  per action. `FaultsGrow`, that failures are never forgotten, carries `Orderly`
  from the state after a step to the one before.

Checked for every value that satisfies `WindowAssumption` too, for gateway and
Wi-Fi side together (`GatewayWindowProofs`):

* `WindowTypes`, `WindowNoOrphan`, `WindowImplementsLedger`:
  `WindowSpec => []WindowTypeOK`, `[]NoOrphan` and `LedgerSpec`. `Seen` says what
  the steps of the composition are for the gateway: its own (`Alone`), for which
  the lemmas about `Next` are used again, and six others, which a gateway alone
  does not make: a light that obeys unheard, a time-out without a failure, one
  step of the other recovery, a command that is received, the flag cleared, a
  failure of the Wi-Fi task. The invariant, `WindowInv`, adds to `FlowType` that
  the lights are configured and nobody joins (`Configured`).
* `WindowIsRecovered`: `WindowSpec => []WindowRecovered`, for a gateway that boots,
  whose recovery task is started (`xTaskCreate` does not fail, "task" is not in
  `Faults`) and that repeats a request at least once (`MaxRetries > 0`;
  `FARMELY_MAX_RETRIES` is 3). `RecoverInv` says, as long as no command came and
  nothing failed, that for every light the table is right or one of the recoveries
  has it before it or a chain of requests and events is under way that will not be
  given up (`Lives`, with `SubLives` for the group subscription and `GetLives` for
  the GET that follows). A chain is not given up because at most one of its
  requests has timed out or will, and then its retries are fresh (`Clean`): the
  window is the only cause of time-outs, it is open once per boot
  (`Listening`), and before the second recovery is past a light only the first
  has subscribed it, once (`SubscribedOnce`). That two recoveries share the retries
  does no harm, because each resets them before its request. `HandledAs` lists what
  is left of the callbacks under these conditions; the lemmas before it are about
  queues and say what stays of a chain when the head of a queue is taken and when
  something is appended.

Checked for every value that satisfies `ShadowAssumption`:

* `ShadowAppliedOnce` and `ShadowPublishedOnce` (`DeviceShadowProofs`). The
  inductive invariant `Dedup` adds ownership: between its commit and its
  second publication a patch belongs to exactly one thread, is recorded and not
  yet published on the topics still to come. The primary key of
  `processed_messages` gives the owner at the commit; without ownership
  `PublishedOnce` is not inductive, because it says nothing of threads on their
  way to `publish_desired`.
* `ShadowTypeOK`: `TypeInv` adds to `TypeOK` what each request has read before it
  writes (`RequestsOK`) and the room in the queue to the bridge (`QueueOK`): it
  keeps one place free as long as the light is connected, so that the last will
  never exceeds the bound. That a status finds a fresh message id is a count of
  the ids in transit (`IdLeft`), and that `CHOOSE` picks one needs the least
  element of a set of numbers (`Least`, again without an induction theorem).

Checked for every value of the constants that the assumptions of `Doorbell` and
`MjpegRelay` allow (`DoorbellProofs`), one lemma per action:

* `DoorbellTypeOK`: `Spec => []TypeOK`, inductive by itself.
* `DoorbellNoEndlessStream`: `NoEndlessStream` is inductive together with
  `TypeOK`: whoever sets the flag passes through `Arm`, and whoever
  disarms the timer clears the flag.
* `DoorbellNewestFirst`: `NewestFirst` says nothing of the frames behind the one
  a viewer holds. `OrderInv` adds the order along the way, camera, push task,
  connection, relay, viewer: each has only frames older than the one before it
  (`PushInv`, `ViewerInv`), unless push tasks have overlapped.

Checked for every value of the constants that the assumption of `MeshNode`
allows (`MeshNodeProofs`):

* `MeshNodeTypeOK`: `Spec => []TypeOK`.
* `LedShowsModelAlways`, `AddressSavedAlways`, `PersistedAlways`: the three
  properties speak of a light at rest, so each needs an invariant for the way
  there. `TaskInv` says when which task saves and when events may wait,
  `QueueInv` that a reset is the last event and that all events are for the
  address the light has. On them rest `LedInv` (the LED is the model's state as
  soon as `app_main` has restored it, or the last SET still in the queue is),
  `AddrInv` (until the address is in NVS a save of it is under way or the event
  of the provisioning waits) and `OnOffInv` (every save that is under way writes
  the present state).
* `StageNeverBackAlways`: `Spec => StageNeverBack`, by `StageInv`: NVS is never
  ahead of RAM, and what a task is about to write is no older than RAM.

Checked for every value that the assumptions of the OTA modules allow
(`OtaProofs`), for device, cloud and topics together:

* `OtaTypeOK`: with `Named`, who works on an update has a version for it.
* `OnlineMeansConfirmedAlways`: `DeviceInv` ties the staged image to the step of
  the update task, and says that an unverified image has no task and is on its
  way through the handler of "connected" as soon as it is online.
* `SuccessByNewFirmwareAlways`: `SavedInv` follows the record in NVS through the
  restart: without a crash or a lost connection a device that is not yet, or
  again, connected has no record or one of the image it runs.
* `SentOnceAlways`: `SentInv` counts, for each version that never failed, the
  thread that owns its row: no two threads are on their way to publish it, and a
  version that was sent has a row, which `UNIQUE` protects. `SentOnce` alone says
  nothing of a thread that has inserted the row and not yet published.

Checked for every value that the assumptions of `OtaClient` and `WifiMesh` allow
(`WifiMeshProofs`), for a mesh of any size:

* `WifiMeshTypeOK`: inductive by itself.
* `LedAgreesAlways`: `LightInv`, for any mix of boards. It says of every light that
  the LED is what its board makes of the state (`Lit`), and of an ESP32-S3 this is
  the state itself (`BoardAssumption`: all devices in `Rgb` are devices). The LED
  is changed by the MQTT task of the root
  and by the receiving task of a node, each in two statements; they never overlap
  on one device because there is one root (`OneRoot`), it has no control message
  in its inbox, and no node is between the statements when it becomes the root.
* `SuccessIsTrueAlways`: `RecordInv`. The record names the image of the next boot;
  a new update would change that image and leave the record of the older one,
  but it starts with a command, a command needs a connection, and a device that
  is connected, by either way, has used up its record.

Checked for every value that `HomeAssumption` allows (`HomeControlProofs`), for
any number of lights, threads and commands:

* `HomeTypeOK`: `TypeInv` adds that a thread has a list exactly while it works on
  it and that all of its ids are of one command; that the list is no longer than
  there are lights rests on `Enumerated`, the enumeration of a set of lights in
  the order of their ids. It is an induction over sets, made without an induction
  theorem: a smallest set that has no enumeration is refuted (`Smallest`, from
  the well-foundedness of the strict subsets of a finite set).
* `AnsweredExactlyOnceAlways`: `GivenInv`, for each command that has not seen an
  edit. `Counted` says that a member was given the command once if its id is
  recorded and else not at all; `OnTrack` that the list of every thread that
  works on it is the rest of the enumeration and that the ids before it are
  recorded. Both are needed: the first makes the count 0 or 1 whoever commits
  first, the second makes an answer mean that all ids are recorded.

Each of these invariants was checked by TLC on the bounds of the component's run,
or larger ones, before its proof.

Only model-checked: all liveness (`PendingEnds`, `RunningRecorded`,
`RolloutCompletes`, `AbsentEndsOffline`, `ReportsPrevail`, `SilentGoesOffline`,
`StatusCatchesUp`, `StreamEnds`, `RuleEnforced`, `PublishesAgain`): fairness and
ENABLED are out of the prover's reach. `AckTruthful` when posting may fail and at
most two commands are sent, as in `gw_commands`, is model-checked too: the bound
on the commands belongs to the model, so it is no condition of a theorem.

## 8. Disagreements with the documents

One has a run that TLC must end with a violation, `shadow_merge`: concurrent
PATCHes do not merge, the later one overwrites the earlier
(`cloud_service/README.md:92`).

The others are excluded by the conditions of a property, at the place named:

* Gateway: the busy client model makes it drop a command without the "limited
  retries" of `docs/DEVELOPMENT_PROGRESS.md:30` (`OnOffError`; `AckTruthful` and
  `Converged` are checked and proved without reconnections).
* Light: a SET during `app_main`'s last save can leave the old state in NVS
  (`docs/DEVELOPMENT_PROGRESS.md:355`; `raced`).
* OTA: after a rollback or a reconnection just before the restart the old
  firmware reports `success` (`docs/COMMUNICATION_PROTOCOL.md:273`;
  the condition of `SuccessByNewFirmware`). An update that failed can be
  dispatched twice (`cloud_service/README.md:199`; `SentOnce` does not count it).
* Mesh: on the ESP32 WROOM the command "on" is carried out by
  `mesh_connected_indicator`, which blinks and ends with level 0
  (`mesh_light.c:196-206`), so the light is dark while it reports that it is on
  (`internal_communication/README.md:26`: devices do the On / Off;
  `docs/DEVICE_ASSET_STATUS.md:104`: the LED indicates the result of the control).
  `LedAgrees` is about the ESP32-S3; stated of all boards TLC refutes it within a
  few hundred states. A link that returns in the second before the restart makes the old image
  report the success (`SuccessIsTrue` accepts it, since the next boot makes it
  true). A success is reported before a connected root is known and its record is
  erased anyway, so it may never arrive. The status of a root that dies stays
  retained as online. Registry entries are never freed, so that a full registry
  ignores new lights (`HasRoom`).
* Doorbell: a stop followed at once by a start leaves two push tasks, and the
  older one ends the newer stream (`overlap`). A failing push ends the stream
  without `stream_stop`; a press while streaming is not announced.
* Home: a retry after a change of the group may skip a member (`touched`); a rule
  on a deleted group stops the MQTT thread; without a rule the light may not be
  what the shadow wants, as storing and publishing are two steps; a rule that
  switches its own trigger runs for ever.

## 9. Not modelled

What the models of the handlers leave out or take together; the properties are
claimed without the failures named here:

* Gateway: the three unlocked stores of `MarkPending` (`main.c:395-398`) and the
  stores of one entry in `MarkGroup` (448-451) are one step each; the error returns
  of `ProvComplete` (701-711) and a failed write of the node table to NVS (115-121)
  do not occur. On its Wi-Fi side, nor do a failing start of the MQTT client
  (`gateway_bridge.c:260-268`) or of the Wi-Fi task (525-528), and the credentials
  are not compiled in (505-517).
* Light: `ble_mesh_init` and `nvs_open` succeed (`main.c:391-394`, 44-46), and the
  last save of `app_main` reads its arguments in the step that starts it.
* OTA: `clear_pending_success` succeeds and removes both keys in one step
  (`app_ota.c:160-165`); the ingestion of a report is one step, though several
  transactions (`mqtt_bridge.py:178-209`, 304-343, 383-413).
* Shadow and home: MQTT (QoS 1) may deliver a message once more when its
  acknowledgement is lost; the models deliver it once. In `HomeControl` a
  publication is lost or arrives, in `DeviceShadow` it may also wait.
* Mesh: the demo topic (`mesh_main.c:691`, 1124) is not published; the blinking of
  an indication is not shown, only what it leaves of the LED.

Left out of the modelled components: wording and formats of messages, the
progress record, the scan filter and the bench self test of the gateway, DNS and
HTTP of its captive portal; gray percentages of rollouts; colours of the Wi-Fi
light; `offline_reason`; rooms, names, listings and more than one rule; router
provisioning over BLE and the reset button of the mesh lights, and their progress
reports; the connection part of the doorbell's `app_mqtt.c`, which is the light's.

Not modelled at all:

* Device registry, accounts and tokens: each call reads and writes one row. Two
  claims at the same time can both succeed, because the test precedes the
  transaction; no other state depends on it.
* Wi-Fi station and provisioning of light and doorbell: a retry counter around the
  vendor's provisioning manager.
* Camera and its HTTP server, DSI example: drivers and I/O.
* App: one event loop whose state is a copy of the last message; user interface.

What would come next: `Converged` for a gateway that reconnects, with the delay
before the first verification in the model; several rules that trigger each other.
