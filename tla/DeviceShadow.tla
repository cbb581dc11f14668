---------------------------- MODULE DeviceShadow ----------------------------
(***************************************************************************)
(* The shadow of one light in the cloud: cloud_service storage.py,         *)
(* mqtt_bridge.py, the PATCH and offline requests and the sweeper of       *)
(* main.py, with the light of rgb_light/main/app_mqtt.c that reports.      *)
(*                                                                         *)
(* The light publishes each status twice: on a legacy topic, retained,     *)
(* without a message id (where its last will is retained too), and on the  *)
(* normalized topic, retained, with a fresh id.  The bridge connects with  *)
(* a clean session: what was in flight when its connection drops is lost,  *)
(* and a reconnection delivers what is retained, again.                    *)
(*                                                                         *)
(* A command goes out twice as well: publish_desired publishes it on the   *)
(* normalized and on the legacy topic of the light, which has subscribed   *)
(* to both and obeys each.  The two calls are two steps, so what other     *)
(* threads publish, or an end of either connection, can come in between.   *)
(* A call without a connection leaves the message (QoS 1) with the client, *)
(* which sends it when it connects.  That the client or the broker sends a *)
(* message once more, since its acknowledgement was lost, is left out.     *)
(*                                                                         *)
(* Three kinds of threads write the shadow: the MQTT thread (ingest), the  *)
(* sweeper and the threads that serve HTTP requests.  Every storage method *)
(* opens its own SQLite connection, and Python begins the transaction at   *)
(* its first UPDATE: the SELECTs before it are not part of it, so what     *)
(* they returned may be stale when the method writes.                      *)
(*                                                                         *)
(* The light is registered and owned by who sends the PATCHes.  Left out,  *)
(* as nothing here reads them back: the counters version and               *)
(* reported_version, offline_reason, and the keys of the reported document *)
(* other than online and on.  An update of reported replaces both of these *)
(* whatever it has read, so ingesting a message is one step; what it sets  *)
(* off besides, automations and updates of the firmware, is left out.      *)
(***************************************************************************)
EXTENDS Naturals, Sequences, FiniteSets

CONSTANTS Patches,   \* Patches[m]: the state of the PATCH with message id m, a function
          Threads,   \* threads that serve HTTP requests
          MaxQueue   \* bound: messages on their way to the bridge when a status is published

ASSUME ShadowAssumption ==
    /\ Patches = <<>> \/ DOMAIN Patches = 1..Len(Patches)
    /\ \A m \in DOMAIN Patches : DOMAIN Patches[m] \subseteq {"on", "color"}
    /\ MaxQueue \in Nat \ {0, 1}

Mid == DOMAIN Patches
NoMid == 0
NoId == 0
MsgId == 1..(MaxQueue + 3)  \* ids that messages in transit or retained can bear
Message == [online : BOOLEAN, on : BOOLEAN, id : MsgId \cup {NoId}]
Reported == [online : BOOLEAN, on : BOOLEAN]
CmdTopic == {"normalized", "legacy"}  \* the command topics of the light

VARIABLES
    light,      \* the light: [up: the broker holds its connection, on: app_light_is_on()]
    cloud,      \* MqttBridge.connected
    up,         \* messages from the broker to the bridge
    down,       \* commands from the broker to the light, on both topics
    unsent,     \* commands that wait in the bridge's client for its connection
    retained,   \* retained[t]: the set with the message retained on topic t, or empty
    recorded,   \* processed_messages, scope "reported" (ids still in transit or retained)
    reported,   \* reported_json: [online, on]; an absent key reads as FALSE
    recent,     \* last_seen_at is within stale_after_seconds
    sweep,      \* mark_stale_devices: [pc, base]
    desired,    \* desired_json, a function
    version,    \* desired_version
    applied,    \* processed_messages, scope "desired"
    http,       \* http[t]: [pc, mid, base]
    published,  \* published[m][topic]: how often the PATCH m was published there
    merged      \* history: the merge of all committed patches in commit order

lightVars == <<light, down, unsent>>
brokerVars == <<cloud, up, retained>>
reportVars == <<recorded, reported, recent>>
desiredVars == <<desired, version, applied, http, published, merged>>
vars == <<lightVars, brokerVars, reportVars, sweep, desiredVars>>

HttpIdle == [pc |-> "idle", mid |-> NoMid, base |-> <<>>]

TypeOK ==
    /\ light \in [up : BOOLEAN, on : BOOLEAN]
    /\ cloud \in BOOLEAN
    /\ up \in Seq(Message) /\ Len(up) <= MaxQueue + 1
    /\ down \in Seq(BOOLEAN) /\ unsent \in Seq(BOOLEAN)
    /\ retained \in [{"legacy", "normalized"} -> SUBSET Message]
    /\ \A t \in DOMAIN retained : Cardinality(retained[t]) <= 1
    /\ recorded \subseteq MsgId
    /\ reported \in Reported
    /\ recent \in BOOLEAN
    /\ sweep \in [pc : {"idle", "write"}, base : Reported]
    /\ DOMAIN desired \subseteq {"on", "color"}
    /\ version \in Nat
    /\ applied \subseteq Mid
    /\ \A t \in Threads : /\ http[t].pc \in {"idle", "check", "write", "publish", "offline"} \cup CmdTopic
                          /\ http[t].mid \in Mid \cup {NoMid}
    /\ published \in [Mid -> [CmdTopic -> Nat]]

-----------------------------------------------------------------------------
(* The light and the broker *)

InTransit == {up[k].id : k \in DOMAIN up} \cup {r.id : r \in retained["normalized"]}

\* message_id: device, boot nonce and sequence number.  An id that no message in
\* transit bears stands for a new one.
NewId == CHOOSE n \in MsgId \ InTransit : \A k \in MsgId \ InTransit : n <= k

Arrive(messages) == up' = IF cloud THEN up \o messages ELSE up

\* publish_status of a light that is on = v
PublishStatus(v) ==
    LET legacy == [online |-> TRUE, on |-> v, id |-> NoId]
        status == [online |-> TRUE, on |-> v, id |-> NewId]
    IN /\ Arrive(<<legacy, status>>)
       /\ retained' = [legacy |-> {legacy}, normalized |-> {status}]
       /\ recorded' = recorded \cap InTransit

Room == Len(up) + 2 <= MaxQueue

\* MQTT_EVENT_CONNECTED; the light is off after a reboot, unchanged after an outage
LightConnect ==
    /\ ~light.up /\ Room
    /\ \E v \in {light.on, FALSE} : light' = [up |-> TRUE, on |-> v] /\ PublishStatus(v)
    /\ UNCHANGED <<down, unsent, cloud, reported, recent, sweep, desiredVars>>

\* The broker loses the light and publishes its last will; commands are not kept.
LightDrop ==
    /\ light.up
    /\ light' = [light EXCEPT !.up = FALSE]
    /\ down' = <<>>
    /\ LET will == [online |-> FALSE, on |-> FALSE, id |-> NoId]
       IN /\ Arrive(<<will>>)
          /\ retained' = [retained EXCEPT !["legacy"] = {will}]
    /\ UNCHANGED <<unsent, cloud, reportVars, sweep, desiredVars>>

\* Variant with a bug: the timer is not started.
BeatingNever == FALSE

\* s_heartbeat_timer runs: started by MQTT_EVENT_CONNECTED, stopped by _DISCONNECTED
Beating == light.up

Heartbeat ==
    /\ Beating /\ Room
    /\ PublishStatus(light.on)
    /\ UNCHANGED <<lightVars, cloud, reported, recent, sweep, desiredVars>>

\* handle_command, for a message of either topic
LightCommand ==
    /\ light.up /\ down # <<>> /\ Room
    /\ light' = [light EXCEPT !.on = Head(down)]
    /\ down' = Tail(down)
    /\ PublishStatus(Head(down))
    /\ UNCHANGED <<unsent, cloud, reported, recent, sweep, desiredVars>>

\* _on_disconnect
CloudDrop ==
    /\ cloud
    /\ cloud' = FALSE /\ up' = <<>>
    /\ UNCHANGED <<lightVars, retained, reportVars, sweep, desiredVars>>

\* Commands that reach the broker: it keeps none for a light that is away.
Command(commands) == down' = IF light.up THEN down \o commands ELSE down

\* _on_connect subscribes; the broker sends what is retained, in any order, and the
\* client what it has kept.
CloudConnect ==
    /\ ~cloud
    /\ cloud' = TRUE
    /\ Command(unsent) /\ unsent' = <<>>
    /\ \E s, t \in DOMAIN retained :
         /\ s # t
         /\ up' = [k \in 1..Cardinality(retained[s]) |-> CHOOSE r \in retained[s] : TRUE]
                  \o [k \in 1..Cardinality(retained[t]) |-> CHOOSE r \in retained[t] : TRUE]
    /\ UNCHANGED <<light, retained, reportVars, sweep, desiredVars>>

-----------------------------------------------------------------------------
(* The reported document *)

\* Variant with a bug: messages are not checked against processed_messages.
ProcessedNever(id) == FALSE

\* _message_processed of a message that bears an id
Processed(id) == id # NoId /\ id \in recorded

\* Variant with a bug: a message without an id is recorded as well.
RecordNull(id) == recorded \cup {id}

\* _record_message
Record(id) == recorded \cup ({id} \ {NoId})

\* ingest and update_reported, in the thread of the MQTT client
Ingest ==
    /\ up # <<>>
    /\ up' = Tail(up)
    /\ LET r == Head(up)
       IN IF Processed(r.id)
          THEN UNCHANGED reportVars
          ELSE /\ reported' = [online |-> r.online, on |-> r.on]
               /\ recent' = TRUE
               /\ recorded' = Record(r.id)
    /\ UNCHANGED <<lightVars, cloud, retained, sweep, desiredVars>>

\* stale_after_seconds have passed since last_seen_at.
Age ==
    /\ recent
    /\ recent' = FALSE
    /\ UNCHANGED <<lightVars, brokerVars, recorded, reported, sweep, desiredVars>>

SweepRead ==
    /\ sweep.pc = "idle"
    /\ ~recent /\ reported.online
    /\ sweep' = [pc |-> "write", base |-> reported]
    /\ UNCHANGED <<lightVars, brokerVars, reportVars, desiredVars>>

\* ... and writes what it has read, with online = False.
SweepWrite ==
    /\ sweep.pc = "write"
    /\ reported' = [sweep.base EXCEPT !.online = FALSE]
    /\ sweep' = [pc |-> "idle", base |-> [online |-> FALSE, on |-> FALSE]]
    /\ UNCHANGED <<lightVars, brokerVars, recorded, recent, desiredVars>>

-----------------------------------------------------------------------------
(* The requests *)

\* _merge_object for values other than null and objects
Merge(base, patch) == [k \in DOMAIN base \cup DOMAIN patch |->
                         IF k \in DOMAIN patch THEN patch[k] ELSE base[k]]

Goto(t, p) ==
    http' = [http EXCEPT ![t] = [pc |-> p, mid |-> http[t].mid, base |-> http[t].base]]
Finish(t) == http' = [http EXCEPT ![t] = HttpIdle]

\* POST /devices/<id>/offline: mark_offline reads the shadow ...
RequestOffline(t) ==
    /\ http[t].pc = "idle"
    /\ http' = [http EXCEPT ![t] = [pc |-> "offline", mid |-> NoMid, base |-> reported]]
    /\ UNCHANGED <<lightVars, brokerVars, reportVars, sweep,
                   desired, version, applied, published, merged>>

\* ... and writes it back with online = False; last_seen_at stays.
MarkOffline(t) ==
    /\ http[t].pc = "offline"
    /\ reported' = [http[t].base EXCEPT !.online = FALSE]
    /\ Finish(t)
    /\ UNCHANGED <<lightVars, brokerVars, recorded, recent, sweep,
                   desired, version, applied, published, merged>>

\* PATCH /devices/<id>/shadow/desired, also repeated: update_desired reads the shadow ...
RequestPatch(t, m) ==
    /\ http[t].pc = "idle"
    /\ http' = [http EXCEPT ![t] = [pc |-> "check", mid |-> m, base |-> desired]]
    /\ UNCHANGED <<lightVars, brokerVars, reportVars, sweep,
                   desired, version, applied, published, merged>>

\* Variant with a bug: a patch that was applied before counts as changed.
AnswerAgain(t) == Goto(t, "publish")

\* A patch that was applied before: changed is False, nothing is published.
AnswerUnchanged(t) == Finish(t)

\* ... then looks for the message id ...
CheckPatch(t) ==
    /\ http[t].pc = "check"
    /\ IF http[t].mid \in applied THEN AnswerUnchanged(t) ELSE Goto(t, "write")
    /\ UNCHANGED <<lightVars, brokerVars, reportVars, sweep,
                   desired, version, applied, published, merged>>

\* Variant with a bug: INSERT OR IGNORE into processed_messages.
KeyTakenNever(m) == FALSE

\* PRIMARY KEY(scope, message_id)
KeyTaken(m) == m \in applied

\* ... then updates and records in one transaction, which the key may roll back.
WritePatch(t) ==
    /\ http[t].pc = "write"
    /\ LET m == http[t].mid
       IN IF KeyTaken(m)
          THEN Finish(t) /\ UNCHANGED <<desired, version, applied, merged>>
          ELSE /\ desired' = Merge(http[t].base, Patches[m])
               /\ merged' = Merge(merged, Patches[m])
               /\ version' = version + 1
               /\ applied' = applied \cup {m}
               /\ Goto(t, "publish")
    /\ UNCHANGED <<lightVars, brokerVars, reportVars, sweep, published>>

\* publish_desired: nothing is sent while disconnected, or for a state without a boolean "on".
PublishPatch(t) ==
    /\ http[t].pc = "publish"
    /\ LET patch == Patches[http[t].mid]
       IN IF cloud /\ "on" \in DOMAIN patch /\ patch["on"] \in BOOLEAN
          THEN Goto(t, "normalized")
          ELSE Finish(t)
    /\ UNCHANGED <<lightVars, brokerVars, reportVars, sweep,
                   desired, version, applied, published, merged>>

\* One client.publish of publish_desired; the connection may have gone since the test.
PublishOn(t, topic) ==
    /\ http[t].pc = topic
    /\ LET m == http[t].mid
       IN /\ published' = [published EXCEPT ![m][topic] = @ + 1]
          /\ IF cloud
             THEN Command(<<Patches[m]["on"]>>) /\ UNCHANGED unsent
             ELSE unsent' = Append(unsent, Patches[m]["on"]) /\ UNCHANGED down
    /\ UNCHANGED <<light, brokerVars, reportVars, sweep, desired, version, applied, merged>>

PublishNormalized(t) == PublishOn(t, "normalized") /\ Goto(t, "legacy")
PublishLegacy(t) == PublishOn(t, "legacy") /\ Finish(t)

-----------------------------------------------------------------------------
(* Specification *)

Init ==
    /\ light = [up |-> FALSE, on |-> FALSE] /\ down = <<>> /\ unsent = <<>>
    /\ cloud = FALSE /\ up = <<>>
    /\ retained = [legacy |-> {}, normalized |-> {}]
    /\ recorded = {} /\ reported = [online |-> FALSE, on |-> FALSE] /\ recent = FALSE
    /\ sweep = [pc |-> "idle", base |-> [online |-> FALSE, on |-> FALSE]]
    /\ desired = <<>> /\ version = 0 /\ applied = {} /\ merged = <<>>
    /\ http = [t \in Threads |-> HttpIdle]
    /\ published = [m \in Mid |-> [topic \in CmdTopic |-> 0]]

\* A step that sets last_seen_at
Seen == Ingest /\ ~Processed(Head(up).id)

HttpStep(t) == \/ MarkOffline(t) \/ CheckPatch(t) \/ WritePatch(t)
               \/ PublishPatch(t) \/ PublishNormalized(t) \/ PublishLegacy(t)

Next ==
    \/ LightConnect \/ LightDrop \/ Heartbeat \/ LightCommand
    \/ CloudDrop \/ CloudConnect
    \/ Ingest \/ Age \/ SweepRead \/ SweepWrite
    \/ \E t \in Threads : \/ RequestOffline(t)
                          \/ \E m \in Mid : RequestPatch(t, m)
                          \/ HttpStep(t)

Spec == Init /\ [][Next]_vars

\* A connected light sends heartbeats and obeys commands, the MQTT thread handles
\* what arrives, the sweeper returns, requests finish.  Time is only known to reach
\* stale_after_seconds when no more reports come in.
Fairness ==
    /\ WF_vars(Heartbeat) /\ WF_vars(LightCommand)
    /\ WF_vars(Ingest)
    /\ WF_vars(SweepRead) /\ WF_vars(SweepWrite)
    /\ \A t \in Threads : WF_vars(HttpStep(t))
    /\ []<><<Seen>>_vars \/ WF_vars(Age)

FairSpec == Spec /\ Fairness

-----------------------------------------------------------------------------
(* Properties *)

\* A message id is applied to the desired document at most once, and every applied
\* id has moved desired_version: storing the patch and its id cannot come apart,
\* whatever requests run at the same time.
AppliedOnce == version = Cardinality(applied)

\* However often a PATCH is sent, and by however many threads at once, it is published
\* at most once on each of the two command topics, and only after it is stored.  (The
\* light listens on both, so it gets the same command twice.)
PublishedOnce == \A m \in Mid, topic \in CmdTopic :
    published[m][topic] <= (IF m \in applied THEN 1 ELSE 0)

\* A light that stays away ends up offline in its shadow for good, also while the
\* bridge reconnects again and again and each time gets the last retained status
\* ("online": true) beside the last will.
AbsentEndsOffline == <>[](~light.up) => <>[](~reported.online)

\* While light and bridge stay connected, the shadow keeps coming back to what the
\* light does, although the sweeper and the offline request write what they read
\* before a report came in.
ReportsPrevail ==
    <>[](light.up /\ cloud) => []<>(reported = [online |-> TRUE, on |-> light.on])

\* cloud_service/README.md:92: PATCH merges the desired state.  The desired document
\* is the merge of all patches that were stored.
DesiredMerges == desired = merged

=============================================================================
