----------------------------- MODULE OtaSystem -----------------------------
(***************************************************************************)
(* A device with its update client and the cloud with its update engine,   *)
(* joined by their MQTT topics.                                            *)
(***************************************************************************)
EXTENDS OtaDevice, OtaCloud

otaVars == <<deviceVars, cloudVars, online, down, up, faults>>

TypeOK ==
    /\ DeviceTypeOK /\ CloudTypeOK
    /\ online \in BOOLEAN
    /\ faults \in [count : 0..MaxFaults, kinds : SUBSET Faults]
    /\ down \in Seq(Version) /\ up \in Seq(Report)

Init ==
    /\ DeviceInit /\ CloudInit
    /\ online = FALSE /\ down = <<>> /\ up = <<>>
    /\ faults = [count |-> 0, kinds |-> {}]

Next ==
    \/ DeviceNext /\ UNCHANGED cloudVars
    \/ CloudNext /\ UNCHANGED deviceVars

Spec == Init /\ [][Next]_otaVars

\* FreeRTOS runs the tasks of the device and the threads of the cloud run what is
\* ready; the MQTT client reconnects by itself and the heartbeat timer is periodic.
Fairness ==
    /\ WF_otaVars((MqttTask \/ ReceiveUpdate) /\ UNCHANGED cloudVars)
    /\ WF_otaVars(OtaTask /\ UNCHANGED cloudVars)
    /\ WF_otaVars((Connect \/ Heartbeat) /\ UNCHANGED cloudVars)
    /\ WF_otaVars(Ingest /\ UNCHANGED deviceVars)
    /\ \A t \in Thread : WF_otaVars(Evaluate(t) /\ UNCHANGED deviceVars)

FairSpec == Spec /\ Fairness

-----------------------------------------------------------------------------
(* Properties *)

\* Whatever is lost, refused or rolled back: when the device keeps running a version,
\* the engine comes to have the update to it as a success, because the version that
\* the device reports with every status closes it (on_version_report).  (Not when the
\* check of an App has inserted the row that the thread of the MQTT client was about to
\* insert: the exception ends that thread.)
RunningRecorded ==
    \A v \in Version :
        <>[](image.running = v /\ thread["paho"].pc # "dead") => <>[](record[v] \in {"none", "success"})

\* A rollout that stays reaches the device although updates fail there: a later status
\* report dispatches the failed update again. In the end the device runs the target
\* version. (A command, a report or a restart that is lost can stop the rollout: the
\* row that stays pending counts as dispatched. So can the check of an App: it starts
\* from the version in the shadow, which an OTA report has set to the one requested.)
RolloutCompletes ==
    \A v \in Version :
        <>[](/\ rollout.target = v /\ faults.kinds \subseteq {"download", "task"}
            /\ checks = Http)
            => <>[](image.running = v)
=============================================================================
