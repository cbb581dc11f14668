---------------------------- MODULE HomeControl ----------------------------
(***************************************************************************)
(* Groups, scenes and automations of the cloud: automation.py, the parts   *)
(* of storage.py it reads, the requests of main.py that edit and run them, *)
(* and the MQTT thread that ingests the reports of a trigger device        *)
(* (mqtt_bridge.py).  There is one group, one scene and one automation;    *)
(* the automation's trigger is a field of a device of its own, its action  *)
(* switches a light, the group or the scene on.  All devices are           *)
(* registered and none of the lights triggers anything.                    *)
(*                                                                         *)
(* Every storage method is a connection of its own and every request reads *)
(* first what to do (members, actions, the automation) and then does it,   *)
(* device by device; the edits of other requests come in between.  One     *)
(* device is commanded in four steps: update_desired tests the message id  *)
(* before its first write statement, it writes, and the caller publishes   *)
(* on one topic of the light and then on the other.                        *)
(*                                                                         *)
(* A light's desired state is its field on; merging a patch replaces it    *)
(* (DeviceShadow has the merge of documents).                              *)
(***************************************************************************)
EXTENDS Naturals, Sequences, FiniteSets

CONSTANTS NumLights,    \* lights, in the order of their device ids
          Http,         \* threads that serve HTTP requests
          Commands,     \* Commands[m]: the state of the group command with message id m
          MaxRequests,  \* bound: group commands and activations, retries included
          MaxEdits,     \* bound: requests that edit the group, the scene or the automation
          MaxFaults     \* bound: publications that do not reach the light

ASSUME HomeAssumption ==
    /\ NumLights \in Nat \ {0}
    /\ "paho" \notin Http
    /\ Commands \in Seq(BOOLEAN)
    /\ MaxRequests \in Nat /\ MaxEdits \in Nat /\ MaxFaults \in Nat

Light == 1..NumLights
Mid == DOMAIN Commands
Thread == Http \cup {"paho"}
NoMid == 0
NoId == <<NoMid, 0>>

VARIABLES
    kept,       \* which of "group" and "scene" has not been deleted
    members,    \* group_members of the group
    scene,      \* scene_actions of the scene, a function
    rule,       \* the automation: [enabled, action]
    reported,   \* the trigger device's field, in its shadow, equals the trigger's value
    desired,    \* desired_json of the lights
    processed,  \* processed_messages, scope "desired"
    light,      \* light[d]: what the last command that reached it made of light d
    thread,     \* thread[t]: [pc, mid, todo]
    given,      \* history: given[m][d], how often command m was applied to light d
    answered,   \* history: commands whose request has been answered with its results
    touched,    \* history: commands that have seen the group edited
    spent       \* [requests, edits, faults] used so far

homeVars == <<kept, members, scene, rule>>
deviceVars == <<reported, light>>
historyVars == <<answered, touched>>
vars == <<homeVars, deviceVars, desired, processed, thread, given, historyVars, spent>>

\* bound: scenes that switch lights on
Scenes == {[d \in S |-> TRUE] : S \in SUBSET Light}
Idle == [pc |-> "idle", mid |-> NoMid, todo |-> <<>>]
Step == [light : Light, on : BOOLEAN, id : {NoId} \cup (Mid \X Light)]

TypeOK ==
    /\ kept \subseteq {"group", "scene"}
    /\ members \subseteq Light /\ scene \in Scenes
    /\ rule \in [enabled : BOOLEAN, action : {"device", "group", "scene"}]
    /\ reported \in BOOLEAN
    /\ desired \in [Light -> BOOLEAN] /\ light \in [Light -> BOOLEAN]
    /\ processed \subseteq Mid \X Light
    /\ thread \in [Thread -> [pc : {"idle", "check", "write", "publish", "legacy",
                                    "rule", "device", "group", "scene", "dead"},
                              mid : Mid \cup {NoMid}, todo : Seq(Step)]]
    /\ \A t \in Thread : Len(thread[t].todo) <= NumLights
    /\ given \in [Mid -> [Light -> Nat]]
    /\ answered \subseteq Mid /\ touched \subseteq Mid
    /\ spent \in [requests : 0..MaxRequests, edits : 0..MaxEdits, faults : 0..MaxFaults]

-----------------------------------------------------------------------------
(* What a request or a rule has to do *)

\* list_group_member_ids: in the order of the device ids
MemberSeq == CHOOSE s \in [1..Cardinality(members) -> members] :
                 \A i, j \in DOMAIN s : i < j => s[i] < s[j]

\* get_scene_actions
ActionSeq == CHOOSE s \in [1..Cardinality(DOMAIN scene) -> DOMAIN scene] :
                 \A i, j \in DOMAIN s : i < j => s[i] < s[j]

\* Variant with a bug: one id for all members.
ScopedOnce(m, k) == IF m = NoMid THEN NoId ELSE <<m, 1>>

\* Variant with a bug: the position counts one too far.
ScopedOver(m, k) == IF m = NoMid THEN NoId ELSE <<m, k + 1>>

\* The id under which member k gets command m, or none
Scoped(m, k) == IF m = NoMid THEN NoId ELSE <<m, k>>

\* AutomationEngine.command_group
GroupTodo(m, on) == [k \in DOMAIN MemberSeq |->
                       [light |-> MemberSeq[k], on |-> on, id |-> Scoped(m, k)]]

\* AutomationEngine.activate_scene
SceneTodo == [k \in DOMAIN ActionSeq |->
                [light |-> ActionSeq[k], on |-> scene[ActionSeq[k]], id |-> NoId]]

\* Thread t goes on with todo, or has nothing left to do.
Answer(m) == answered' = IF m = NoMid THEN answered ELSE answered \cup {m}
GoOn(t, m, todo) ==
    IF todo = <<>>
    THEN thread' = [thread EXCEPT ![t] = Idle] /\ Answer(m)
    ELSE /\ thread' = [thread EXCEPT ![t] = [pc |-> "check", mid |-> m, todo |-> todo]]
         /\ UNCHANGED answered

-----------------------------------------------------------------------------
(* Requests *)

Request(t) ==
    /\ thread[t].pc = "idle" /\ spent.requests < MaxRequests
    /\ spent' = [spent EXCEPT !.requests = @ + 1]
    /\ UNCHANGED <<homeVars, deviceVars, desired, processed, given, touched>>

\* POST /groups/{id}/command: the first request with this message id, or a retry
CommandGroup(t, m) ==
    /\ Request(t) /\ "group" \in kept
    /\ GoOn(t, m, GroupTodo(m, Commands[m]))

\* POST /scenes/{id}/activate
ActivateScene(t) ==
    /\ Request(t) /\ "scene" \in kept
    /\ GoOn(t, NoMid, SceneTodo)

Edit == /\ spent.edits < MaxEdits
        /\ spent' = [spent EXCEPT !.edits = @ + 1]
        /\ UNCHANGED <<deviceVars, desired, processed, thread, given, answered>>

\* A group that changes: every command given so far has seen it.
EditGroup(value) ==
    /\ Edit /\ "group" \in kept /\ members' = value
    /\ touched' = {m \in Mid : m \in answered \/ (\E d \in Light : given[m][d] > 0)
                                 \/ (\E t \in Thread : thread[t].mid = m)} \cup touched
    /\ UNCHANGED <<scene, rule>>

AddMember(d) == d \notin members /\ EditGroup(members \cup {d}) /\ UNCHANGED kept
RemoveMember(d) == d \in members /\ EditGroup(members \ {d}) /\ UNCHANGED kept
DeleteGroup == EditGroup({}) /\ kept' = kept \ {"group"}

\* update_scene replaces the actions in one transaction
UpdateScene(actions) ==
    /\ Edit /\ "scene" \in kept /\ actions # scene /\ scene' = actions
    /\ UNCHANGED <<kept, members, rule, touched>>

DeleteScene ==
    /\ Edit /\ "scene" \in kept
    /\ scene' = <<>> /\ kept' = kept \ {"scene"}
    /\ UNCHANGED <<members, rule, touched>>

UpdateAutomation(enabled, action) ==
    /\ Edit /\ rule' = [enabled |-> enabled, action |-> action] /\ rule' # rule
    /\ UNCHANGED <<kept, members, scene, touched>>

-----------------------------------------------------------------------------
(* apply_desired for the head of a thread's list *)

Commanding(t, pc) == thread[t].pc = pc /\ thread[t].todo # <<>>

\* update_desired before its first write: a message id that is known ends it.
CheckDesired(t) ==
    /\ Commanding(t, "check")
    /\ IF Head(thread[t].todo).id \in processed
       THEN GoOn(t, thread[t].mid, Tail(thread[t].todo))
       ELSE thread' = [thread EXCEPT ![t].pc = "write"] /\ UNCHANGED answered
    /\ UNCHANGED <<homeVars, deviceVars, desired, processed, given, touched, spent>>

\* The transaction; a message id recorded in between undoes it, and the request fails.
WriteDesired(t) ==
    /\ Commanding(t, "write")
    /\ LET s == Head(thread[t].todo)
       IN \/ /\ s.id \notin processed
             /\ desired' = [desired EXCEPT ![s.light] = s.on]
             /\ processed' = IF s.id = NoId THEN processed ELSE processed \cup {s.id}
             /\ given' = IF s.id = NoId THEN given
                         ELSE [given EXCEPT ![thread[t].mid][s.light] = @ + 1]
             /\ thread' = [thread EXCEPT ![t].pc = "publish"]
          \/ /\ s.id \in processed
             /\ thread' = [thread EXCEPT ![t] = Idle]
             /\ UNCHANGED <<desired, processed, given>>
    /\ UNCHANGED <<homeVars, deviceVars, historyVars, spent>>

\* A publication reaches the light, or it does not (bridge disconnected, light offline).
\* Commands to one light arrive in the order of their publication; that one waits in the
\* client for the next connection is left out here (DeviceShadow has it).
Arrives(s) == light' = [light EXCEPT ![s.light] = s.on] /\ UNCHANGED spent
Lost == /\ spent.faults < MaxFaults /\ spent' = [spent EXCEPT !.faults = @ + 1]
        /\ UNCHANGED light

\* publish_desired: nothing when the bridge is disconnected; otherwise the command on
\* the normalized topic of the light, and then once more on its legacy topic.
PublishDesired(t) ==
    /\ Commanding(t, "publish")
    /\ \/ Lost /\ GoOn(t, thread[t].mid, Tail(thread[t].todo))
       \/ /\ Arrives(Head(thread[t].todo)) \/ Lost
          /\ thread' = [thread EXCEPT ![t].pc = "legacy"] /\ UNCHANGED answered
    /\ UNCHANGED <<homeVars, reported, desired, processed, given, touched>>

PublishLegacy(t) ==
    /\ Commanding(t, "legacy")
    /\ Arrives(Head(thread[t].todo)) \/ Lost
    /\ GoOn(t, thread[t].mid, Tail(thread[t].todo))
    /\ UNCHANGED <<homeVars, reported, desired, processed, given, touched>>

-----------------------------------------------------------------------------
(* Automations *)

\* A report of the trigger device, after a change or with its heartbeat.
\* _apply_reported updates the shadow, and on_reported runs in the MQTT thread.
Ingest(value) ==
    /\ thread["paho"].pc = "idle"
    /\ reported' = value
    /\ thread' = [thread EXCEPT !["paho"].pc = "rule"]
    /\ UNCHANGED <<homeVars, light, desired, processed, given, historyVars, spent>>

\* Variant with a bug: what the rule wants already is taken for done.
TriggersIfUndone == rule.enabled /\ reported /\ ~desired[1]

\* on_reported: the automation is enabled, and the shadow matches its trigger.
Triggers == rule.enabled /\ reported

EvaluateRule ==
    /\ thread["paho"].pc = "rule"
    /\ thread' = [thread EXCEPT !["paho"].pc = IF Triggers THEN rule.action ELSE "idle"]
    /\ UNCHANGED <<homeVars, deviceVars, desired, processed, given, historyVars, spent>>

\* run_action.  An action whose group or scene has been deleted raises an exception
\* that nothing catches: it ends the network loop of the MQTT client.
RunAction ==
    /\ LET action == thread["paho"].pc
       IN \/ /\ action = "device"
             /\ GoOn("paho", NoMid, <<[light |-> 1, on |-> TRUE, id |-> NoId]>>)
          \/ /\ action = "group" /\ "group" \in kept
             /\ GoOn("paho", NoMid, GroupTodo(NoMid, TRUE))
          \/ /\ action = "scene" /\ "scene" \in kept
             /\ GoOn("paho", NoMid, SceneTodo)
          \/ /\ action \in {"group", "scene"} \ kept
             /\ thread' = [thread EXCEPT !["paho"].pc = "dead"]
             /\ UNCHANGED answered
    /\ UNCHANGED <<homeVars, deviceVars, desired, processed, given, touched, spent>>

-----------------------------------------------------------------------------
Init ==
    /\ kept = {"group", "scene"} /\ members = {1}
    /\ scene = [d \in Light |-> TRUE]
    /\ rule \in [enabled : {TRUE}, action : {"device", "group", "scene"}]
    /\ reported = FALSE
    /\ desired = [d \in Light |-> FALSE] /\ light = desired
    /\ processed = {}
    /\ thread = [t \in Thread |-> Idle]
    /\ given = [m \in Mid |-> [d \in Light |-> 0]]
    /\ answered = {} /\ touched = {}
    /\ spent = [requests |-> 0, edits |-> 0, faults |-> 0]

Apply(t) == \/ CheckDesired(t) \/ WriteDesired(t)
            \/ PublishDesired(t) \/ PublishLegacy(t)

Next ==
    \/ \E t \in Http : ActivateScene(t) \/ \E m \in Mid : CommandGroup(t, m)
    \/ \E d \in Light : AddMember(d) \/ RemoveMember(d)
    \/ DeleteGroup \/ DeleteScene
    \/ \E actions \in Scenes : UpdateScene(actions)
    \/ \E enabled \in BOOLEAN, action \in {"device", "group", "scene"} :
         UpdateAutomation(enabled, action)
    \/ \E t \in Thread : Apply(t)
    \/ \E value \in BOOLEAN : Ingest(value)
    \/ EvaluateRule \/ RunAction

Spec == Init /\ [][Next]_vars

\* Every thread of the cloud runs what it has to do, and the trigger device has a
\* heartbeat.
FairSpec ==
    /\ Spec
    /\ \A t \in Thread : WF_vars(Apply(t))
    /\ WF_vars(Ingest(reported) \/ EvaluateRule \/ RunAction)

-----------------------------------------------------------------------------
(* Properties *)

\* A group command that has been answered was applied to each member exactly once,
\* whatever was retried with the same message id, one after the other or at the same
\* time, as long as the group has not been edited in between.  (An edit shifts the
\* positions that the ids of the members are made from.)
AnsweredExactlyOnce == \A m \in answered \ touched :
    \A d \in members : given[m][d] = 1

\* What the automation wants of light d.
Wants(d) ==
    /\ rule.enabled
    /\ \/ rule.action = "device" /\ d = 1
       \/ rule.action = "group" /\ d \in members
       \/ rule.action = "scene" /\ d \in DOMAIN scene /\ scene[d]

\* "The trigger matches when reported[field] == equals" (README.md): as long as it
\* does, every report runs the action again.  So a command of the rule that was lost,
\* or was overtaken by a request, is repaired, and in the end the light is on.
RuleEnforced == \A d \in Light :
    <>[](Wants(d) /\ reported /\ thread["paho"].pc # "dead") => <>[]light[d]
=============================================================================
