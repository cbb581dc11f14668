------------------------------ MODULE OtaCloud ------------------------------
(***************************************************************************)
(* The update engine of the cloud (cloud_service: ota.py, the OTA part of  *)
(* storage.py, and the ingestion of reports in mqtt_bridge.py) for one     *)
(* device.  Its operations run in several threads: the MQTT thread (paho)  *)
(* ingests reports one at a time, HTTP requests run in the threads of the  *)
(* server.  Every storage method opens its own SQLite connection, and a    *)
(* SELECT that comes before the first INSERT or UPDATE is not part of the  *)
(* transaction: what it read may be stale when the method writes.          *)
(*                                                                         *)
(* Firmware is registered for every version and every rollout selects the  *)
(* device (percent 100, no from_fw_version).  Message ids are left out:    *)
(* results are matched by version.                                         *)
(***************************************************************************)
EXTENDS OtaChannels

CONSTANTS Http,         \* threads that serve POST .../ota/check
          MaxRollouts   \* bound: changes of the rollout

ASSUME CloudAssumption == MaxRollouts \in Nat /\ "paho" \notin Http

Thread == Http \cup {"paho"}

VARIABLES
    rollout,    \* [target, changes]: target version of the enabled rollout, or None
    record,     \* ota_updates: the status of the row of each version, "none" without row
    thread,     \* thread[t]: [pc, current, target, seen] of OtaEngine.evaluate
    checks,     \* HTTP threads that have not served their request yet
    shadowFw,   \* fw_version of the reported shadow
    sent,       \* how often each version was sent to the device (2: twice or more)
    failedEver  \* versions whose row was once "failed"

cloudVars == <<rollout, record, thread, checks, shadowFw, sent, failedEver>>

RowStatus == {"none", "pending"} \cup Statuses
ThreadIdle == [pc |-> "idle", current |-> None, target |-> None, seen |-> "none"]

CloudTypeOK ==
    /\ rollout \in [target : 0..MaxVersion, changes : 0..MaxRollouts]
    /\ record \in [Version -> RowStatus]
    /\ thread \in [Thread -> [pc : {"idle", "select", "lookup", "write", "publish", "dead"},
                              current : 0..MaxVersion, target : 0..MaxVersion,
                              seen : RowStatus]]
    /\ checks \subseteq Http
    /\ shadowFw \in 0..MaxVersion
    /\ sent \in [Version -> 0..2]
    /\ failedEver \subseteq Version

CloudInit ==
    /\ rollout = [target |-> None, changes |-> 0]
    /\ record = [v \in Version |-> "none"]
    /\ thread = [t \in Thread |-> ThreadIdle]
    /\ checks = Http
    /\ shadowFw = None
    /\ sent = [v \in Version |-> 0]
    /\ failedEver = {}

\* The operator creates, retargets or disables the rollout.
SetRollout(v) ==
    /\ rollout.changes < MaxRollouts /\ v # rollout.target
    /\ rollout' = [target |-> v, changes |-> rollout.changes + 1]
    /\ UNCHANGED <<record, thread, checks, shadowFw, sent, failedEver, online, down, up, faults>>

-----------------------------------------------------------------------------
(* OtaEngine.evaluate *)

Starts(fw) == [ThreadIdle EXCEPT !.pc = "select", !.current = fw]

\* POST .../ota/check, with the version the App read from the shadow
Check(t) ==
    /\ t \in checks /\ shadowFw # None
    /\ checks' = checks \ {t}
    /\ thread' = [thread EXCEPT ![t] = Starts(shadowFw)]
    /\ UNCHANGED <<rollout, record, shadowFw, sent, failedEver, online, down, up, faults>>

\* select_ota_target: no_rollout, up_to_date, or a firmware
Select(t) ==
    /\ thread[t].pc = "select"
    /\ thread' = [thread EXCEPT ![t] =
         IF rollout.target \in {None, @.current} THEN ThreadIdle
         ELSE [@ EXCEPT !.pc = "lookup", !.target = rollout.target]]
    /\ UNCHANGED <<rollout, record, checks, shadowFw, sent, failedEver, online, down, up, faults>>

\* Variant with a bug: only an update that succeeded counts as dispatched.
DispatchedSuccess(status) == status = "success"

\* Variant with a bug: a failed update counts as dispatched, too.
DispatchedEver(status) == status # "none"

\* A row that has not failed: already_dispatched.
Dispatched(status) == status \notin {"none", "failed"}

\* begin_ota_dispatch, the SELECT of the row
Lookup(t) ==
    /\ thread[t].pc = "lookup"
    /\ LET status == record[thread[t].target]
       IN thread' = [thread EXCEPT ![t] =
            IF Dispatched(status) THEN ThreadIdle
            ELSE [@ EXCEPT !.pc = "write", !.seen = status]]
    /\ UNCHANGED <<rollout, record, checks, shadowFw, sent, failedEver, online, down, up, faults>>

\* Variant with a bug: no UNIQUE(device_id, firmware_id), the row is replaced.
DuplicateNever(t) == FALSE

\* The row was inserted by another thread since: the INSERT violates
\* UNIQUE(device_id, firmware_id).
Duplicate(t) == thread[t].seen = "none" /\ record[thread[t].target] # "none"

\* begin_ota_dispatch, the INSERT or UPDATE. The IntegrityError of an HTTP request
\* is answered 500; in the MQTT thread it ends the network loop of paho.
Write(t) ==
    /\ thread[t].pc = "write"
    /\ IF Duplicate(t)
       THEN /\ thread' = [thread EXCEPT ![t] =
                 IF t = "paho" THEN [ThreadIdle EXCEPT !.pc = "dead"] ELSE ThreadIdle]
            /\ UNCHANGED record
       ELSE /\ record' = [record EXCEPT ![thread[t].target] = "pending"]
            /\ thread' = [thread EXCEPT ![t].pc = "publish"]
    /\ UNCHANGED <<rollout, checks, shadowFw, sent, failedEver, online, down, up, faults>>

\* publish_ota: it may fail (bridge offline), or the device may be offline; the row
\* stays pending either way
Publish(t) ==
    /\ thread[t].pc = "publish"
    /\ LET v == thread[t].target
       IN \/ /\ down' = IF online THEN Append(down, v) ELSE down
             /\ sent' = [sent EXCEPT ![v] = IF @ = 2 THEN 2 ELSE @ + 1]
             /\ UNCHANGED faults
          \/ Fail("publish") /\ UNCHANGED <<down, sent>>
    /\ thread' = [thread EXCEPT ![t] = ThreadIdle]
    /\ UNCHANGED <<rollout, record, checks, shadowFw, failedEver, online, up>>

Evaluate(t) == Select(t) \/ Lookup(t) \/ Write(t) \/ Publish(t)

-----------------------------------------------------------------------------
(* MqttBridge *)

\* Variant with a bug: a version report does not close the update.
RecordResultOnly(v, kind) ==
    record' = IF kind = "status" \/ record[v] = "none" THEN record
              ELSE [record EXCEPT ![v] = kind]

\* record_ota_result for a report: a status message counts as the success of the
\* version it reports (on_version_report); there may be no row
RecordResult(v, kind) ==
    record' = IF record[v] = "none" THEN record
              ELSE [record EXCEPT ![v] = IF kind = "status" THEN "success" ELSE kind]

\* _ingest_farmely_reported and on_version_report, which goes on with evaluate; or
\* _ingest_farmely_ota, which reports the requested version to the shadow, but only
\* if there is a row
Ingest ==
    /\ thread["paho"].pc = "idle" /\ up # <<>>
    /\ LET m == Head(up)
       IN /\ RecordResult(m.fw, m.kind)
          /\ shadowFw' = IF m.kind = "status" \/ record[m.fw] # "none" THEN m.fw ELSE shadowFw
          /\ failedEver' = IF record'[m.fw] = "failed" THEN failedEver \cup {m.fw}
                           ELSE failedEver
          /\ thread' = IF m.kind = "status" THEN [thread EXCEPT !["paho"] = Starts(m.fw)]
                       ELSE thread
    /\ up' = Tail(up)
    /\ UNCHANGED <<rollout, checks, sent, online, down, faults>>

CloudNext ==
    \/ \E v \in 0..MaxVersion : SetRollout(v)
    \/ \E t \in Http : Check(t)
    \/ \E t \in Thread : Evaluate(t)
    \/ Ingest

-----------------------------------------------------------------------------
(* Properties *)

\* The same firmware is not sent to the device twice unless an update to it failed,
\* however the checks of several threads interleave (begin_ota_dispatch with the
\* UNIQUE constraint of ota_updates).
SentOnce == \A v \in Version : sent[v] = 2 => v \in failedEver
=============================================================================
