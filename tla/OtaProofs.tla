----------------------------- MODULE OtaProofs -----------------------------
(***************************************************************************)
(* Proofs about a device and the cloud joined by the topics of an update,  *)
(* for any number of versions, HTTP threads, rollouts and failures, of any *)
(* of the kinds.                                                           *)
(***************************************************************************)
EXTENDS OtaSystem, TLAPS

-----------------------------------------------------------------------------
(* What the operators return *)

FaultsType == [count : 0..MaxFaults, kinds : SUBSET Faults]
ThreadType == [pc : {"idle", "select", "lookup", "write", "publish", "dead"},
               current : 0..MaxVersion, target : 0..MaxVersion, seen : RowStatus]
TaskType == [pc : {"none", "start", "download", "save", "announce", "reboot"}, fw : 0..MaxVersion]
ImageType == [running : Version, verified : BOOLEAN, previous : Version]
StagedType == [fw : 0..MaxVersion, valid : BOOLEAN]

LEMMA Versions == /\ \A v \in Version : v \in 0..MaxVersion /\ v # None
                  /\ \A v \in 0..MaxVersion : v # None => v \in Version
                  /\ None \in 0..MaxVersion /\ 1 \in Version
BY OtaAssumption DEF Version, None

LEMMA Failing ==
    ASSUME faults \in FaultsType, NEW k, Fail(k)
    PROVE  faults' \in FaultsType /\ faults'.kinds = faults.kinds \cup {k}
BY OtaAssumption DEF Fail, FaultsType

LEMMA Sending ==
    ASSUME up \in Seq(Report), NEW kind \in {"status"} \cup Statuses, NEW fw \in Version,
           Send(kind, fw)
    PROVE  up' \in Seq(Report)
<1>1. [kind |-> kind, fw |-> fw] \in Report
  BY DEF Report
<1> QED
  BY <1>1 DEF Send

\* A report or a version at the head of a topic has the type of the topic.
LEMMA Heads ==
    /\ up \in Seq(Report) /\ up # <<>> =>
         /\ Tail(up) \in Seq(Report) /\ Head(up).kind \in {"status"} \cup Statuses
         /\ Head(up).fw \in Version
    /\ down \in Seq(Version) /\ down # <<>> => Tail(down) \in Seq(Version) /\ Head(down) \in Version
<1>1. ASSUME up \in Seq(Report), up # <<>> PROVE Tail(up) \in Seq(Report) /\ Head(up) \in Report
  BY <1>1
<1>2. ASSUME down \in Seq(Version), down # <<>>
      PROVE  Tail(down) \in Seq(Version) /\ Head(down) \in Version
  BY <1>2
<1> QED
  BY <1>1, <1>2 DEF Report

LEMMA Prefixes ==
    ASSUME up \in Seq(Report), NEW n \in 0..Len(up)
    PROVE  SubSeq(up, 1, n) \in Seq(Report)
OBVIOUS

-----------------------------------------------------------------------------
(* Type invariant *)

ChannelsOK == online \in BOOLEAN /\ down \in Seq(Version) /\ up \in Seq(Report)

LEMMA TypeParts == TypeOK <=> DeviceTypeOK /\ CloudTypeOK /\ ChannelsOK /\ faults \in FaultsType
BY DEF TypeOK, ChannelsOK, FaultsType

\* Every value a device and its topics can hold after a step of the device.
LEMMA DeviceTypes ==
    ASSUME DeviceTypeOK, ChannelsOK, faults \in FaultsType, task.pc # "none" => task.fw # None,
           DeviceNext
    PROVE  /\ DeviceTypeOK' /\ ChannelsOK' /\ faults' \in FaultsType
           /\ task'.pc # "none" => task'.fw # None
<1>1. /\ image \in ImageType /\ image.running \in Version /\ image.previous \in Version
      /\ staged \in StagedType /\ staged.fw \in 0..MaxVersion /\ saved \in 0..MaxVersion
      /\ task \in TaskType /\ task.fw \in 0..MaxVersion
      /\ task.pc # "none" => task.fw \in Version
      /\ mqtt \in {"idle", "confirm", "mark", "clear"}
  BY Versions DEF DeviceTypeOK, ImageType, StagedType, TaskType
<1>2. /\ online \in BOOLEAN /\ down \in Seq(Version) /\ up \in Seq(Report) /\ <<>> \in Seq(Version)
  BY DEF ChannelsOK
<1>3. NotStaged \in StagedType /\ NoTask \in TaskType /\ NoTask.pc = "none"
  BY Versions DEF NotStaged, NoTask, StagedType, TaskType
<1> DEFINE Goal == /\ image' \in ImageType /\ staged' \in StagedType /\ saved' \in 0..MaxVersion
                   /\ task' \in TaskType /\ mqtt' \in {"idle", "confirm", "mark", "clear"}
                   /\ online' \in BOOLEAN /\ down' \in Seq(Version) /\ up' \in Seq(Report)
                   /\ faults' \in FaultsType
                   /\ task'.pc # "none" => task'.fw # None
<1> SUFFICES Goal
  BY DEF DeviceTypeOK, ChannelsOK, ImageType, StagedType, TaskType
<1>4. CASE Connect
  <2>1. Send("status", image.running)
        /\ UNCHANGED <<image, staged, saved, task, down, faults>> /\ online' = TRUE /\ mqtt' = "confirm"
    BY <1>4 DEF Connect
  <2>2. up' \in Seq(Report)
    BY <1>1, <1>2, <2>1, Sending
  <2> QED
    BY <1>1, <1>2, <2>1, <2>2
<1>5. CASE Confirm
  <2>1. UNCHANGED <<image, staged, saved, task, online, down, faults>>
        /\ mqtt' \in {"mark", "idle"} /\ (Send("success", SuccessVersion) \/ UNCHANGED up)
    BY <1>5 DEF Confirm
  <2>2. SuccessVersion \in Version /\ "success" \in {"status"} \cup Statuses
    BY <1>1, Versions DEF SuccessVersion, Statuses
  <2>3. up' \in Seq(Report)
    BY <1>2, <2>1, <2>2, Sending
  <2> QED
    BY <1>1, <1>2, <2>1, <2>3
<1>6. CASE MarkValid
  BY <1>1, <1>2, <1>6 DEF MarkValid, ImageType, StagedType
<1>7. CASE ClearSaved
  BY <1>1, <1>2, <1>7, Versions DEF ClearSaved
<1>8. CASE Disconnect
  <2>1. faults' \in FaultsType
    BY <1>8, Failing DEF Disconnect
  <2> QED
    BY <1>1, <1>2, <1>8, <2>1 DEF Disconnect
<1>9. CASE Heartbeat
  <2>1. up' \in Seq(Report)
    BY <1>1, <1>2, <1>9, Sending DEF Heartbeat
  <2> QED
    BY <1>1, <1>2, <1>9, <2>1 DEF Heartbeat, deviceVars
<1>10. CASE ReceiveUpdate
  <2>1. Head(down) \in Version /\ Tail(down) \in Seq(Version)
    BY <1>2, <1>10, Heads DEF ReceiveUpdate
  <2>2. UNCHANGED <<image, staged, saved, mqtt, online>> /\ down' = Tail(down)
    BY <1>10 DEF ReceiveUpdate
  <2>3. task' \in TaskType /\ (task'.pc # "none" => task'.fw # None)
    <3>1. task' = task \/ task' = [pc |-> "start", fw |-> Head(down)]
      BY <1>10 DEF ReceiveUpdate
    <3> QED
      BY <1>1, <2>1, <3>1, Versions DEF TaskType
  <2>4. up' \in Seq(Report)
    <3>1. "failed" \in {"status"} \cup Statuses
      BY DEF Statuses
    <3> QED
      BY <1>2, <1>10, <2>1, <3>1, Sending DEF ReceiveUpdate
  <2>5. faults' \in FaultsType
    BY <1>10, Failing DEF ReceiveUpdate
  <2> QED
    BY <1>1, <1>2, <2>1, <2>2, <2>3, <2>4, <2>5
<1>11. ASSUME NEW pc \in {"download", "reboot"}, task.pc # "none", Send("downloading", task.fw),
              task' = [task EXCEPT !.pc = pc],
              UNCHANGED <<image, staged, saved, mqtt, online, down, faults>>
       PROVE  Goal
  <2>1. "downloading" \in {"status"} \cup Statuses
    BY DEF Statuses
  <2>2. up' \in Seq(Report)
    BY <1>1, <1>2, <1>11, <2>1, Sending
  <2>3. task' \in TaskType /\ task'.fw = task.fw
    BY <1>1, <1>11 DEF TaskType
  <2> QED
    BY <1>1, <1>2, <1>11, <2>2, <2>3, Versions
<1>12. CASE StartDownload
  BY <1>11, <1>12 DEF StartDownload
<1>13. CASE Download
  <2>1. UNCHANGED <<image, saved, mqtt, online, down>> /\ task.pc = "download"
    BY <1>13 DEF Download
  <2>2. CASE /\ staged' = [fw |-> task.fw, valid |-> FALSE]
             /\ task' = [task EXCEPT !.pc = "save"]
             /\ UNCHANGED <<up, faults>>
    BY <1>1, <1>2, <2>1, <2>2, Versions DEF TaskType, StagedType
  <2>3. CASE /\ Fail("download") /\ Send("failed", task.fw) /\ task' = NoTask /\ UNCHANGED staged
    <3>1. "failed" \in {"status"} \cup Statuses
      BY DEF Statuses
    <3>2. up' \in Seq(Report)
      BY <1>1, <1>2, <2>1, <2>3, <3>1, Sending
    <3>3. faults' \in FaultsType
      BY <2>3, Failing
    <3> QED
      BY <1>1, <1>2, <1>3, <2>1, <2>3, <3>2, <3>3
  <2> QED
    BY <1>13, <2>2, <2>3 DEF Download, ImageRejected
<1>14. CASE SaveSuccess
  <2>1. faults' \in FaultsType
    BY <1>14, Failing DEF SaveSuccess
  <2> QED
    BY <1>1, <1>2, <1>14, <2>1, Versions DEF SaveSuccess, TaskType
<1>15. CASE AnnounceReboot
  BY <1>11, <1>15 DEF AnnounceReboot
<1>16. ASSUME Restart
       PROVE  /\ image' \in ImageType /\ staged' \in StagedType /\ saved' \in 0..MaxVersion
              /\ task' \in TaskType /\ mqtt' = "idle" /\ task'.pc = "none"
              /\ online' = FALSE /\ down' = <<>>
  <2>1. image' \in ImageType
    BY <1>1, <1>16, Versions DEF Restart, Boot, ImageType, StagedType
  <2> QED
    BY <1>1, <1>3, <1>16, <2>1 DEF Restart
<1>17. CASE Reboot
  <2>1. Restart /\ (faults' = faults \/ Fail("loss"))
    BY <1>17 DEF Reboot
  <2>2. faults' \in FaultsType
    BY <2>1, Failing
  <2>3. up' \in Seq(Report)
    BY <1>2, <1>17, Prefixes DEF Reboot
  <2> QED
    BY <1>2, <1>16, <2>1, <2>2, <2>3
<1>18. CASE Crash
  <2>1. Restart /\ Fail("crash")
    BY <1>18 DEF Crash
  <2>2. faults' \in FaultsType
    BY <2>1, Failing
  <2>3. up' \in Seq(Report)
    BY <1>2, <1>18, Prefixes DEF Crash
  <2> QED
    BY <1>2, <1>16, <2>1, <2>2, <2>3
<1> QED
  BY <1>4, <1>5, <1>6, <1>7, <1>8, <1>9, <1>10, <1>12, <1>13, <1>14, <1>15, <1>17, <1>18
     DEF DeviceNext, MqttTask, OtaTask

ThreadsNamed ==
    \A t \in Thread : thread[t].pc \in {"lookup", "write", "publish"} => thread[t].target # None

LEMMA ThreadUpdate ==
    ASSUME thread \in [Thread -> ThreadType], ThreadsNamed, NEW t \in Thread,
           NEW r \in ThreadType, r.pc \in {"lookup", "write", "publish"} => r.target # None,
           thread' = [thread EXCEPT ![t] = r]
    PROVE  thread' \in [Thread -> ThreadType] /\ ThreadsNamed'
BY DEF ThreadsNamed

\* What evaluate makes of a thread.
LEMMA ThreadSteps ==
    ASSUME thread \in [Thread -> ThreadType], ThreadsNamed,
           rollout.target \in 0..MaxVersion, record \in [Version -> RowStatus],
           NEW t \in Thread
    PROVE  /\ thread[t] \in ThreadType /\ thread[t].pc \in {"idle", "select", "lookup", "write", "publish", "dead"}
           /\ thread[t].pc \in {"lookup", "write", "publish"} => thread[t].target \in Version
           /\ ThreadIdle \in ThreadType /\ ThreadIdle.pc = "idle"
           /\ [ThreadIdle EXCEPT !.pc = "dead"] \in ThreadType
           /\ \A fw \in 0..MaxVersion : Starts(fw) \in ThreadType /\ Starts(fw).pc = "select"
           /\ \A v \in 0..MaxVersion : [thread[t] EXCEPT !.pc = "lookup", !.target = v] \in ThreadType
           /\ \A s \in RowStatus : [thread[t] EXCEPT !.pc = "write", !.seen = s] \in ThreadType
           /\ [thread[t] EXCEPT !.pc = "publish"] \in ThreadType
<1>1. thread[t] \in ThreadType /\ None \in 0..MaxVersion /\ "none" \in RowStatus
  BY Versions DEF RowStatus
<1>2. ThreadIdle \in ThreadType
  BY <1>1 DEF ThreadIdle, ThreadType
<1>3. thread[t].pc \in {"lookup", "write", "publish"} => thread[t].target \in Version
  BY <1>1, Versions DEF ThreadsNamed, ThreadType
<1>4. \A fw \in 0..MaxVersion : Starts(fw) \in ThreadType
  BY <1>2 DEF Starts, ThreadType
<1>5. ThreadIdle.pc = "idle" /\ \A fw \in 0..MaxVersion : Starts(fw).pc = "select"
  BY DEF Starts, ThreadIdle
<1> QED
  BY <1>1, <1>2, <1>3, <1>4, <1>5 DEF ThreadType

\* Every value the cloud and the topics can hold after a step of the cloud.
LEMMA CloudTypes ==
    ASSUME CloudTypeOK, ChannelsOK, faults \in FaultsType, ThreadsNamed, CloudNext
    PROVE  CloudTypeOK' /\ ChannelsOK' /\ faults' \in FaultsType /\ ThreadsNamed'
<1>1. /\ rollout.target \in 0..MaxVersion /\ rollout.changes \in 0..MaxRollouts
      /\ record \in [Version -> RowStatus] /\ thread \in [Thread -> ThreadType]
      /\ checks \subseteq Http /\ shadowFw \in 0..MaxVersion
      /\ sent \in [Version -> 0..2] /\ failedEver \subseteq Version
      /\ rollout \in [target : 0..MaxVersion, changes : 0..MaxRollouts]
      /\ online \in BOOLEAN /\ down \in Seq(Version) /\ up \in Seq(Report)
  BY DEF CloudTypeOK, ChannelsOK, ThreadType
<1> DEFINE Goal == /\ rollout' \in [target : 0..MaxVersion, changes : 0..MaxRollouts]
                   /\ record' \in [Version -> RowStatus] /\ thread' \in [Thread -> ThreadType]
                   /\ checks' \subseteq Http /\ shadowFw' \in 0..MaxVersion
                   /\ sent' \in [Version -> 0..2] /\ failedEver' \subseteq Version
                   /\ online' \in BOOLEAN /\ down' \in Seq(Version) /\ up' \in Seq(Report)
                   /\ faults' \in FaultsType /\ ThreadsNamed'
<1> SUFFICES Goal
  BY DEF CloudTypeOK, ChannelsOK, ThreadType
<1>2. ASSUME NEW v \in 0..MaxVersion, SetRollout(v) PROVE Goal
  <2>1. rollout' \in [target : 0..MaxVersion, changes : 0..MaxRollouts]
    BY <1>1, <1>2, CloudAssumption DEF SetRollout
  <2> QED
    BY <1>1, <1>2, <2>1 DEF SetRollout, ThreadsNamed
<1>3. ASSUME NEW t \in Http, Check(t) PROVE Goal
  <2>1. thread' = [thread EXCEPT ![t] = Starts(shadowFw)] /\ t \in Thread
    BY <1>3 DEF Check, Thread
  <2>2. Starts(shadowFw) \in ThreadType /\ Starts(shadowFw).pc = "select"
    BY <1>1, <2>1, ThreadSteps
  <2>3. thread' \in [Thread -> ThreadType] /\ ThreadsNamed'
    BY <1>1, <2>1, <2>2, ThreadUpdate
  <2> QED
    BY <1>1, <1>3, <2>3 DEF Check
<1>4. ASSUME NEW t \in Thread, Select(t) PROVE Goal
  <2>1. \/ thread' = [thread EXCEPT ![t] = ThreadIdle]
        \/ /\ rollout.target # None
           /\ thread' = [thread EXCEPT ![t] = [thread[t] EXCEPT !.pc = "lookup", !.target = rollout.target]]
    BY <1>1, <1>4 DEF Select
  <2>2. LET r == [thread[t] EXCEPT !.pc = "lookup", !.target = rollout.target]
        IN  r \in ThreadType /\ r.target = rollout.target
    BY <1>1, ThreadSteps DEF ThreadType
  <2>3. thread' \in [Thread -> ThreadType] /\ ThreadsNamed'
    BY <1>1, <2>1, <2>2, ThreadSteps, ThreadUpdate
  <2> QED
    BY <1>1, <1>4, <2>3 DEF Select
<1>5. ASSUME NEW t \in Thread, Lookup(t) PROVE Goal
  <2> DEFINE status == record[thread[t].target]
             r == [thread[t] EXCEPT !.pc = "write", !.seen = status]
  <2>1. thread[t].target \in Version
    BY <1>1, <1>5, ThreadSteps DEF Lookup
  <2>2. status \in RowStatus
    BY <1>1, <2>1
  <2>3. r \in ThreadType /\ r.target = thread[t].target
    BY <1>1, <2>2, ThreadSteps DEF ThreadType
  <2>4. thread' = [thread EXCEPT ![t] = ThreadIdle] \/ thread' = [thread EXCEPT ![t] = r]
    BY <1>5 DEF Lookup
  <2>5. r.target # None
    BY <2>1, <2>3, Versions
  <2> HIDE DEF r
  <2>6. thread' \in [Thread -> ThreadType] /\ ThreadsNamed'
    BY <1>1, <2>3, <2>4, <2>5, ThreadSteps, ThreadUpdate
  <2> QED
    BY <1>1, <1>5, <2>6 DEF Lookup
<1>6. ASSUME NEW t \in Thread, Write(t) PROVE Goal
  <2> DEFINE r == [thread[t] EXCEPT !.pc = "publish"]
             dead == [ThreadIdle EXCEPT !.pc = "dead"]
  <2>1. thread[t].target \in Version /\ r \in ThreadType /\ r.target = thread[t].target
    BY <1>1, <1>6, ThreadSteps DEF Write, ThreadType
  <2>2. dead \in ThreadType /\ dead.pc = "dead"
    BY <1>1, ThreadSteps DEF ThreadIdle
  <2>3. \/ /\ UNCHANGED record
           /\ thread' = [thread EXCEPT ![t] = dead] \/ thread' = [thread EXCEPT ![t] = ThreadIdle]
        \/ /\ record' = [record EXCEPT ![thread[t].target] = "pending"]
           /\ thread' = [thread EXCEPT ![t] = r]
    BY <1>1, <1>6 DEF Write
  <2>4. r.target # None
    BY <2>1, Versions
  <2> HIDE DEF r, dead
  <2>5. thread' \in [Thread -> ThreadType] /\ ThreadsNamed'
    BY <1>1, <2>1, <2>2, <2>3, <2>4, ThreadSteps, ThreadUpdate
  <2>6. record' \in [Version -> RowStatus]
    BY <1>1, <2>3 DEF RowStatus
  <2> QED
    BY <1>1, <1>6, <2>5, <2>6 DEF Write
<1>7. ASSUME NEW t \in Thread, Publish(t) PROVE Goal
  <2>1. thread[t].target \in Version
    BY <1>1, <1>7, ThreadSteps DEF Publish
  <2>2. thread' \in [Thread -> ThreadType] /\ ThreadsNamed'
    BY <1>1, <1>7, ThreadSteps, ThreadUpdate DEF Publish
  <2>3. down' \in Seq(Version)
    <3>1. Append(down, thread[t].target) \in Seq(Version)
      BY <1>1, <2>1
    <3>2. down' = down \/ down' = Append(down, thread[t].target)
      BY <1>7 DEF Publish
    <3> QED
      BY <1>1, <3>1, <3>2
  <2>4. sent' \in [Version -> 0..2]
    BY <1>1, <1>7, <2>1 DEF Publish
  <2>5. faults' \in FaultsType
    BY <1>7, Failing DEF Publish
  <2> QED
    BY <1>1, <1>7, <2>2, <2>3, <2>4, <2>5 DEF Publish
<1>8. CASE Ingest
  <2>1. /\ Tail(up) \in Seq(Report) /\ Head(up).fw \in Version
        /\ Head(up).kind \in {"status"} \cup Statuses
    BY <1>1, <1>8, Heads DEF Ingest
  <2>2. record' \in [Version -> RowStatus]
    BY <1>1, <1>8, <2>1 DEF Ingest, RecordResult, RowStatus, Statuses
  <2>3. shadowFw' \in 0..MaxVersion /\ failedEver' \subseteq Version
    BY <1>1, <1>8, <2>1, Versions DEF Ingest
  <2>4. "paho" \in Thread
    BY DEF Thread
  <2>5. Starts(Head(up).fw) \in ThreadType /\ Starts(Head(up).fw).pc = "select"
    BY <1>1, <2>1, <2>4, ThreadSteps, Versions
  <2>6. thread' = [thread EXCEPT !["paho"] = Starts(Head(up).fw)] \/ thread' = thread
    BY <1>8 DEF Ingest
  <2>7. thread' \in [Thread -> ThreadType] /\ ThreadsNamed'
    <3>1. CASE thread' = thread
      BY <1>1, <3>1 DEF ThreadsNamed
    <3> QED
      BY <1>1, <2>4, <2>5, <2>6, <3>1, ThreadUpdate
  <2> QED
    BY <1>1, <1>8, <2>1, <2>2, <2>3, <2>7 DEF Ingest
<1> QED
  BY <1>2, <1>3, <1>4, <1>5, <1>6, <1>7, <1>8 DEF CloudNext, Evaluate

\* What both have in hand has a version.
Named == ThreadsNamed /\ (task.pc # "none" => task.fw # None)

LEMMA TypeOKInit == Init => TypeOK /\ Named
<1> SUFFICES ASSUME Init PROVE TypeOK /\ Named
  OBVIOUS
<1>1. DeviceTypeOK
  BY Versions DEF Init, DeviceInit, DeviceTypeOK, NotStaged, NoTask
<1>2. ThreadIdle \in ThreadType /\ ThreadIdle.pc = "idle"
  BY Versions DEF ThreadIdle, ThreadType, RowStatus
<1>3. CloudTypeOK
  <2>1. rollout \in [target : 0..MaxVersion, changes : 0..MaxRollouts]
    BY Versions, CloudAssumption DEF Init, CloudInit
  <2>2. record \in [Version -> RowStatus] /\ sent \in [Version -> 0..2]
    BY DEF Init, CloudInit, RowStatus
  <2>3. thread \in [Thread -> ThreadType]
    BY <1>2 DEF Init, CloudInit
  <2> QED
    BY <2>1, <2>2, <2>3, Versions DEF Init, CloudInit, CloudTypeOK, ThreadType
<1>4. online \in BOOLEAN /\ down \in Seq(Version) /\ up \in Seq(Report)
  <2>1. online \in BOOLEAN /\ down = <<>> /\ up = <<>>
    BY DEF Init
  <2>2. <<>> \in Seq(Version) /\ <<>> \in Seq(Report)
    OBVIOUS
  <2> QED
    BY <2>1, <2>2
<1>5. faults \in FaultsType
  BY OtaAssumption DEF Init, FaultsType
<1>6. Named
  BY <1>2 DEF Init, DeviceInit, CloudInit, NoTask, Named, ThreadsNamed
<1> QED
  BY <1>1, <1>3, <1>4, <1>5, <1>6, TypeParts DEF ChannelsOK

LEMMA TypeOKStep == TypeOK /\ Named /\ [Next]_otaVars => TypeOK' /\ Named'
<1> SUFFICES ASSUME TypeOK, Named, [Next]_otaVars PROVE TypeOK' /\ Named'
  OBVIOUS
<1>1. DeviceTypeOK /\ CloudTypeOK /\ ChannelsOK /\ faults \in FaultsType
  BY TypeParts
<1>2. CASE DeviceNext /\ UNCHANGED cloudVars
  <2>1. /\ DeviceTypeOK' /\ ChannelsOK' /\ faults' \in FaultsType
        /\ task'.pc # "none" => task'.fw # None
    BY <1>1, <1>2, DeviceTypes DEF Named
  <2>2. CloudTypeOK' /\ ThreadsNamed'
    BY <1>1, <1>2 DEF CloudTypeOK, Named, ThreadsNamed, cloudVars
  <2> QED
    BY <2>1, <2>2 DEF TypeOK, ChannelsOK, FaultsType, Named
<1>3. CASE CloudNext /\ UNCHANGED deviceVars
  <2>1. CloudTypeOK' /\ ChannelsOK' /\ faults' \in FaultsType /\ ThreadsNamed'
    BY <1>1, <1>3, CloudTypes DEF Named
  <2>2. DeviceTypeOK' /\ (task'.pc # "none" => task'.fw # None)
    BY <1>1, <1>3 DEF DeviceTypeOK, deviceVars, Named
  <2> QED
    BY <2>1, <2>2 DEF TypeOK, ChannelsOK, FaultsType, Named
<1>4. CASE UNCHANGED otaVars
  BY <1>4 DEF otaVars, deviceVars, cloudVars, TypeOK, DeviceTypeOK, CloudTypeOK, Named, ThreadsNamed
<1> QED
  BY <1>2, <1>3, <1>4 DEF Next

\* The types of the device, the cloud and the topics: no report or command without a version is
\* ever sent, and no row is written for one.
THEOREM OtaTypeOK == Spec => []TypeOK
<1> QED
  BY TypeOKInit, TypeOKStep, PTL DEF Spec

LEMMA OtaNamed == Spec => []Named
<1> QED
  BY TypeOKInit, TypeOKStep, PTL DEF Spec

-----------------------------------------------------------------------------
(* The running image is confirmed *)

Installing == task.pc \in {"save", "announce", "reboot"}

\* An image that has not been confirmed gets no update before its first connection has: the
\* image that is staged is the one of the task that is about to restart. The handler of
\* "connected" runs only while the device is online.
DeviceInv ==
    /\ staged.fw = IF Installing THEN task.fw ELSE None
    /\ ~image.verified => task.pc = "none" /\ (online => mqtt \in {"confirm", "mark"})
    /\ mqtt # "idle" => online
    /\ OnlineMeansConfirmed

LEMMA DeviceInvStep == TypeOK /\ Named /\ DeviceInv /\ [Next]_otaVars => DeviceInv'
<1> SUFFICES ASSUME TypeOK, Named, DeviceInv, [Next]_otaVars PROVE DeviceInv'
  OBVIOUS
<1> USE DEF DeviceInv, OnlineMeansConfirmed, Installing
<1>1. /\ task \in TaskType /\ image \in ImageType /\ staged \in StagedType
      /\ task.pc # "none" => task.fw # None
  BY TypeParts DEF DeviceTypeOK, TaskType, ImageType, StagedType, Named
<1>2. CASE UNCHANGED <<deviceVars, online>>
  BY <1>2 DEF deviceVars
<1>3. CASE Connect
  BY <1>3 DEF Connect
<1>4. CASE Confirm
  BY <1>4 DEF Confirm, NeedsConfirm
<1>5. CASE MarkValid
  BY <1>1, <1>5 DEF MarkValid, ImageType, StagedType
<1>6. CASE ClearSaved
  BY <1>6 DEF ClearSaved
<1>7. CASE Disconnect
  BY <1>7 DEF Disconnect
<1>8. CASE Heartbeat
  BY <1>2, <1>8 DEF Heartbeat
<1>9. CASE ReceiveUpdate
  BY <1>1, <1>9 DEF ReceiveUpdate
<1>10. CASE StartDownload
  BY <1>1, <1>10 DEF StartDownload, TaskType
<1>11. CASE Download
  BY <1>1, <1>11 DEF Download, ImageRejected, TaskType, StagedType, NoTask
<1>12. CASE SaveSuccess
  BY <1>1, <1>12 DEF SaveSuccess, TaskType
<1>13. CASE AnnounceReboot
  BY <1>1, <1>13 DEF AnnounceReboot, TaskType
<1>14. CASE Restart
  BY <1>14 DEF Restart, NotStaged, NoTask
<1>15. CASE CloudNext /\ UNCHANGED deviceVars
  BY <1>2, <1>15 DEF CloudNext, SetRollout, Check, Evaluate, Select, Lookup, Write, Publish, Ingest
<1> QED
  BY <1>2, <1>3, <1>4, <1>5, <1>6, <1>7, <1>8, <1>9, <1>10, <1>11, <1>12, <1>13, <1>14, <1>15
     DEF Next, DeviceNext, MqttTask, OtaTask, Reboot, Crash, otaVars

\* After the handler of "connected" the running image is confirmed and its record used up.
THEOREM OnlineMeansConfirmedAlways == Spec => []OnlineMeansConfirmed
<1>1. Init => DeviceInv
  BY DEF Init, DeviceInit, DeviceInv, OnlineMeansConfirmed, Installing, NotStaged, NoTask
<1>2. DeviceInv => OnlineMeansConfirmed
  BY DEF DeviceInv
<1> QED
  BY <1>1, <1>2, DeviceInvStep, OtaTypeOK, OtaNamed, PTL DEF Spec

-----------------------------------------------------------------------------
(* A success is reported by the new firmware *)

\* Neither the power nor the connection has failed.
Undisturbed == {"crash", "offline"} \cap faults.kinds = {}

\* Then a task runs only while the device is online and the handler of "connected" is done, and
\* whenever the handler may run, the record names the image that runs.
SavedInv == Undisturbed =>
    /\ task.pc # "none" => online /\ mqtt = "idle"
    /\ ~(online /\ mqtt = "idle") => saved \in {None, image.running}

LEMMA KindsGrow ==
    ASSUME TypeOK, [Next]_otaVars
    PROVE  faults.kinds \subseteq faults'.kinds
<1>1. CASE faults' = faults
  BY <1>1
<1>2. ASSUME NEW k, Fail(k) PROVE faults.kinds \subseteq faults'.kinds
  BY <1>2, Failing, TypeParts
<1>3. CASE DeviceNext
  BY <1>1, <1>2, <1>3
     DEF DeviceNext, Connect, Disconnect, Heartbeat, ReceiveUpdate, MqttTask, Confirm, MarkValid,
         ClearSaved, OtaTask, StartDownload, Download, ImageRejected, SaveSuccess, AnnounceReboot, Reboot, Crash
<1>4. CASE CloudNext
  BY <1>1, <1>2, <1>4
     DEF CloudNext, SetRollout, Check, Evaluate, Select, Lookup, Write, Publish, Ingest
<1> QED
  BY <1>1, <1>3, <1>4 DEF Next, otaVars

LEMMA SavedInvStep == TypeOK /\ Named /\ DeviceInv /\ SavedInv /\ [Next]_otaVars => SavedInv'
<1> SUFFICES ASSUME TypeOK, Named, DeviceInv, SavedInv, [Next]_otaVars, Undisturbed' PROVE SavedInv'
  BY DEF SavedInv
<1>1. /\ task \in TaskType /\ image \in ImageType /\ staged \in StagedType
      /\ task.pc # "none" => task.fw # None
  BY TypeParts DEF DeviceTypeOK, TaskType, ImageType, StagedType, Named
<1>2. Undisturbed
  BY KindsGrow DEF Undisturbed
<1>3. /\ task.pc # "none" => online /\ mqtt = "idle"
      /\ ~(online /\ mqtt = "idle") => saved \in {None, image.running}
  BY <1>2 DEF SavedInv
<1>4. /\ staged.fw = IF Installing THEN task.fw ELSE None
      /\ online /\ mqtt = "idle" => saved = None \/ (Installing /\ saved = task.fw)
  BY DEF DeviceInv, OnlineMeansConfirmed, Installing
<1>5. ASSUME Fail("crash") \/ Fail("offline") PROVE FALSE
  BY <1>5, Failing, TypeParts DEF Undisturbed
<1> USE DEF SavedInv
<1>6. CASE UNCHANGED <<deviceVars, online>>
  BY <1>3, <1>6 DEF deviceVars
<1>7. CASE Connect
  BY <1>3, <1>7 DEF Connect
<1>8. CASE Confirm
  BY <1>3, <1>8 DEF Confirm
<1>9. CASE MarkValid
  BY <1>1, <1>3, <1>9 DEF MarkValid, ImageType
<1>10. CASE ClearSaved
  BY <1>3, <1>10 DEF ClearSaved
<1>11. CASE Disconnect
  BY <1>5, <1>11 DEF Disconnect
<1>12. CASE Heartbeat
  BY <1>6, <1>12 DEF Heartbeat
<1>13. CASE ReceiveUpdate
  BY <1>3, <1>13 DEF ReceiveUpdate
<1>14. CASE StartDownload
  BY <1>1, <1>3, <1>14 DEF StartDownload, TaskType
<1>15. CASE Download
  BY <1>1, <1>3, <1>15 DEF Download, ImageRejected, TaskType
<1>16. CASE SaveSuccess
  BY <1>1, <1>3, <1>16 DEF SaveSuccess, TaskType
<1>17. CASE AnnounceReboot
  BY <1>1, <1>3, <1>17 DEF AnnounceReboot, TaskType
<1>18. CASE Reboot
  <2>1. online /\ mqtt = "idle" /\ staged.fw = task.fw /\ staged.fw # None
    BY <1>1, <1>3, <1>4, <1>18 DEF Reboot, Installing
  <2>2. image'.running = staged.fw /\ saved' = saved /\ task'.pc = "none"
    BY <1>18, <2>1 DEF Reboot, Restart, Boot, NoTask
  <2> QED
    BY <1>4, <2>1, <2>2
<1>19. CASE Crash
  BY <1>5, <1>19 DEF Crash
<1>20. CASE CloudNext /\ UNCHANGED deviceVars
  BY <1>6, <1>20 DEF CloudNext, SetRollout, Check, Evaluate, Select, Lookup, Write, Publish, Ingest
<1> QED
  BY <1>6, <1>7, <1>8, <1>9, <1>10, <1>11, <1>12, <1>13, <1>14, <1>15, <1>16, <1>17, <1>18, <1>19,
     <1>20 DEF Next, DeviceNext, MqttTask, OtaTask, otaVars

\* A report is added to the topic only by Send, and names what it is about.
LEMMA OnlySendAppends ==
    ASSUME up \in Seq(Report), NEW r \in Report, up' = Append(up, r)
    PROVE  /\ up' # up /\ (up # <<>> => up' # Tail(up))
           /\ \A n \in 0..Len(up) : up' # SubSeq(up, 1, n)
           /\ \A kind \in {"status"} \cup Statuses, fw \in Version :
                Send(kind, fw) => r.kind = kind /\ r.fw = fw
<1>1. Len(up) \in Nat /\ Len(up') = Len(up) + 1 /\ up'[Len(up) + 1] = r
  OBVIOUS
<1>2. up # <<>> => Len(Tail(up)) = Len(up) - 1
  OBVIOUS
<1>3. ASSUME NEW n \in 0..Len(up) PROVE Len(SubSeq(up, 1, n)) = n
  BY <1>3
<1>4. ASSUME NEW kind \in {"status"} \cup Statuses, NEW fw \in Version, Send(kind, fw)
      PROVE  r.kind = kind /\ r.fw = fw
  <2>1. [kind |-> kind, fw |-> fw] \in Report
    BY DEF Report
  <2>2. up'[Len(up) + 1] = [kind |-> kind, fw |-> fw]
    BY <1>4, <2>1 DEF Send
  <2> QED
    BY <1>1, <2>2
<1>5. ASSUME NEW n \in 0..Len(up) PROVE up' # SubSeq(up, 1, n)
  BY <1>1, <1>3, <1>5
<1> QED
  BY <1>1, <1>2, <1>4, <1>5

\* The report of a success means that the new firmware runs.
THEOREM SuccessByNewFirmwareAlways == Spec => SuccessByNewFirmware
<1>1. Init => DeviceInv /\ SavedInv
  BY DEF Init, DeviceInit, DeviceInv, OnlineMeansConfirmed, Installing, SavedInv, NotStaged, NoTask
<1>2. TypeOK /\ Named /\ SavedInv /\ [Next]_otaVars => [SuccessIsNew]_<<deviceVars, up>>
  <2> SUFFICES ASSUME TypeOK, Named, SavedInv, [Next]_otaVars, Undisturbed, NEW fw \in Version,
                      up' = Append(up, [kind |-> "success", fw |-> fw])
               PROVE  image.running = fw
    BY DEF SuccessIsNew, Undisturbed
  <2> DEFINE r == [kind |-> "success", fw |-> fw]
  <2>1. up \in Seq(Report) /\ r \in Report /\ image.running \in Version /\ saved \in 0..MaxVersion
    BY TypeParts DEF ChannelsOK, DeviceTypeOK, Report, Statuses
  <2>2. /\ up' # up /\ (up # <<>> => up' # Tail(up))
        /\ \A n \in 0..Len(up) : up' # SubSeq(up, 1, n)
    BY <2>1, OnlySendAppends
  <2>3. ASSUME NEW kind \in {"status", "failed", "downloading"}, NEW v \in Version, Send(kind, v)
        PROVE  FALSE
    <3>1. kind \in {"status"} \cup Statuses /\ r.kind = "success"
      BY DEF Statuses
    <3>2. r.kind = kind
      BY <2>1, <2>3, <3>1, OnlySendAppends
    <3> QED
      BY <3>1, <3>2
  <2>4. task.pc # "none" => task.fw \in Version
    BY TypeParts, Versions DEF DeviceTypeOK, Named
  <2>5. CASE Connect
    BY <2>1, <2>3, <2>5 DEF Connect
  <2>6. CASE Confirm
    <3>1. Send("success", SuccessVersion) /\ mqtt = "confirm"
      BY <2>2, <2>6 DEF Confirm
    <3>2. SuccessVersion = image.running
      BY <3>1 DEF SavedInv, SuccessVersion
    <3> QED
      BY <2>1, <3>1, <3>2, OnlySendAppends DEF Statuses
  <2>7. CASE Heartbeat
    BY <2>1, <2>3, <2>7 DEF Heartbeat
  <2>8. CASE ReceiveUpdate
    <3>1. Head(down) \in Version
      BY <2>8, TypeParts, Heads DEF ReceiveUpdate, ChannelsOK
    <3> QED
      BY <2>2, <2>3, <2>8, <3>1 DEF ReceiveUpdate
  <2>9. CASE StartDownload \/ AnnounceReboot
    BY <2>3, <2>4, <2>9 DEF StartDownload, AnnounceReboot
  <2>10. CASE Download
    BY <2>2, <2>3, <2>4, <2>10 DEF Download, ImageRejected
  <2>11. CASE Reboot \/ Crash
    BY <2>2, <2>11 DEF Reboot, Crash
  <2>12. CASE MarkValid \/ ClearSaved \/ Disconnect \/ SaveSuccess
    BY <2>2, <2>12 DEF MarkValid, ClearSaved, Disconnect, SaveSuccess
  <2>13. CASE CloudNext
    BY <2>2, <2>13 DEF CloudNext, SetRollout, Check, Evaluate, Select, Lookup, Write, Publish, Ingest
  <2> QED
    BY <2>2, <2>5, <2>6, <2>7, <2>8, <2>9, <2>10, <2>11, <2>12, <2>13
       DEF Next, DeviceNext, MqttTask, OtaTask, otaVars
<1> QED
  BY <1>1, <1>2, DeviceInvStep, SavedInvStep, OtaTypeOK, OtaNamed, PTL
     DEF Spec, SuccessByNewFirmware

-----------------------------------------------------------------------------
(* Firmware is sent once *)

At(t, label, v) == thread[t].pc = label /\ thread[t].target = v

\* A version whose update has not failed has at most one thread that sends it, and only before it
\* has been sent. A thread that is about to write its row has read that there is none: if another
\* one was quicker, UNIQUE stops it.
SentInv == \A v \in Version \ failedEver :
    /\ record[v] # "failed"
    /\ \A t \in Thread : At(t, "write", v) => thread[t].seen = "none"
    /\ sent[v] # 0 \/ (\E t \in Thread : At(t, "publish", v)) => record[v] # "none"
    /\ sent[v] \in {0, 1} /\ \A t \in Thread : At(t, "publish", v) => sent[v] = 0
    /\ \A t, u \in Thread : At(t, "publish", v) /\ At(u, "publish", v) => t = u

\* What the threads do, as far as the rows and the sending go.
LEMMA EvaluateSteps ==
    ASSUME TypeOK, Named, NEW t \in Thread, Evaluate(t)
    PROVE  /\ failedEver' = failedEver /\ \A u \in Thread \ {t} : thread'[u] = thread[u]
           /\ \/ UNCHANGED <<record, sent>> /\ thread'[t].pc \in {"idle", "lookup", "dead"}
              \/ /\ UNCHANGED <<record, sent>> /\ thread'[t].pc = "write"
                 /\ thread'[t].seen = record[thread'[t].target]
                 /\ thread'[t].seen \in {"none", "failed"} /\ thread'[t].target \in Version
              \/ /\ thread[t].pc = "write" /\ thread[t].target \in Version
                 /\ ~(thread[t].seen = "none" /\ record[thread[t].target] # "none")
                 /\ record' = [record EXCEPT ![thread[t].target] = "pending"]
                 /\ thread'[t].pc = "publish" /\ thread'[t].target = thread[t].target
                 /\ UNCHANGED sent
              \/ /\ thread[t].pc = "publish" /\ thread[t].target \in Version
                 /\ thread'[t].pc = "idle" /\ UNCHANGED record
                 /\ \/ UNCHANGED sent
                    \/ sent' = [sent EXCEPT ![thread[t].target] = IF @ = 2 THEN 2 ELSE @ + 1]
<1>1. /\ thread \in [Thread -> ThreadType] /\ record \in [Version -> RowStatus]
      /\ rollout.target \in 0..MaxVersion /\ ThreadsNamed
  BY TypeParts DEF CloudTypeOK, ThreadType, Named
<1>2. /\ thread[t] \in ThreadType
      /\ thread[t].pc \in {"lookup", "write", "publish"} => thread[t].target \in Version
      /\ ThreadIdle.pc = "idle"
  BY <1>1, ThreadSteps
<1>3. CASE Select(t)
  BY <1>1, <1>2, <1>3 DEF Select, ThreadType
<1>4. CASE Lookup(t)
  <2> DEFINE status == record[thread[t].target]
  <2>1. thread[t].target \in Version /\ status \in RowStatus
    BY <1>1, <1>2, <1>4 DEF Lookup
  <2>2. \/ thread' = [thread EXCEPT ![t] = ThreadIdle]
        \/ /\ status \in {"none", "failed"}
           /\ thread' = [thread EXCEPT ![t] = [thread[t] EXCEPT !.pc = "write", !.seen = status]]
    BY <1>1, <1>4 DEF Lookup, Dispatched
  <2>3. LET r == [thread[t] EXCEPT !.pc = "write", !.seen = status]
        IN  r.pc = "write" /\ r.seen = status /\ r.target = thread[t].target
    BY <1>2 DEF ThreadType
  <2> QED
    BY <1>1, <1>2, <1>4, <2>1, <2>2, <2>3 DEF Lookup
<1>5. CASE Write(t)
  <2>1. [ThreadIdle EXCEPT !.pc = "dead"].pc = "dead"
    BY DEF ThreadIdle
  <2>2. thread[t].pc = "write" /\ UNCHANGED <<sent, failedEver>>
    BY <1>5 DEF Write
  <2>3. CASE Duplicate(t)
    <3>1. /\ UNCHANGED record
          /\ \/ thread' = [thread EXCEPT ![t] = [ThreadIdle EXCEPT !.pc = "dead"]]
             \/ thread' = [thread EXCEPT ![t] = ThreadIdle]
      BY <1>1, <1>5, <2>3 DEF Write
    <3> QED
      BY <1>1, <1>2, <2>1, <2>2, <3>1
  <2>4. CASE ~Duplicate(t)
    <3>1. /\ record' = [record EXCEPT ![thread[t].target] = "pending"]
          /\ thread' = [thread EXCEPT ![t] = [thread[t] EXCEPT !.pc = "publish"]]
      BY <1>1, <1>5, <2>4 DEF Write
    <3>2. LET r == [thread[t] EXCEPT !.pc = "publish"]
          IN  r.pc = "publish" /\ r.target = thread[t].target
      BY <1>2 DEF ThreadType
    <3> QED
      BY <1>1, <1>2, <2>2, <2>4, <3>1, <3>2 DEF Duplicate
  <2> QED
    BY <2>3, <2>4
<1>6. CASE Publish(t)
  BY <1>1, <1>2, <1>6 DEF Publish
<1> QED
  BY <1>3, <1>4, <1>5, <1>6 DEF Evaluate

LEMMA SentInvStep == TypeOK /\ Named /\ SentInv /\ [Next]_otaVars => SentInv'
<1> SUFFICES ASSUME TypeOK, Named, SentInv, [Next]_otaVars PROVE SentInv'
  OBVIOUS
<1>1. /\ thread \in [Thread -> ThreadType] /\ record \in [Version -> RowStatus]
      /\ sent \in [Version -> 0..2] /\ failedEver \subseteq Version
  BY TypeParts DEF CloudTypeOK, ThreadType
<1>2. CASE UNCHANGED <<record, thread, sent, failedEver>>
  BY <1>2 DEF SentInv, At
<1>3. ASSUME NEW t \in Thread, UNCHANGED <<record, sent, failedEver>>,
             thread'[t].pc \in {"idle", "select", "lookup", "dead"},
             \A u \in Thread \ {t} : thread'[u] = thread[u]
      PROVE  SentInv'
  BY <1>3 DEF SentInv, At
<1>4. ASSUME NEW t \in Thread, Evaluate(t) PROVE SentInv'
  <2>1. failedEver' = failedEver /\ \A u \in Thread \ {t} : thread'[u] = thread[u]
    BY <1>4, EvaluateSteps
  <2>2. CASE /\ UNCHANGED <<record, sent>> /\ thread'[t].pc = "write"
             /\ thread'[t].seen = record[thread'[t].target]
             /\ thread'[t].seen \in {"none", "failed"} /\ thread'[t].target \in Version
    BY <2>1, <2>2 DEF SentInv, At
  <2>3. CASE /\ thread[t].pc = "write" /\ thread[t].target \in Version
             /\ ~(thread[t].seen = "none" /\ record[thread[t].target] # "none")
             /\ record' = [record EXCEPT ![thread[t].target] = "pending"]
             /\ thread'[t].pc = "publish" /\ thread'[t].target = thread[t].target
             /\ UNCHANGED sent
    <3> SUFFICES ASSUME NEW v \in Version \ failedEver
                 PROVE  /\ record'[v] # "failed"
                        /\ \A u \in Thread : At(u, "write", v)' => thread'[u].seen = "none"
                        /\ sent'[v] # 0 \/ (\E u \in Thread : At(u, "publish", v)') => record'[v] # "none"
                        /\ sent'[v] \in {0, 1}
                        /\ \A u \in Thread : At(u, "publish", v)' => sent'[v] = 0
                        /\ \A u, w \in Thread : At(u, "publish", v)' /\ At(w, "publish", v)' => u = w
      BY <2>1 DEF SentInv
    <3>1. CASE v = thread[t].target
      <4>1. thread[t].seen = "none" /\ record[v] = "none"
        BY <2>3, <3>1 DEF SentInv, At
      <4>2. sent[v] = 0 /\ \A u \in Thread : ~At(u, "publish", v)
        BY <4>1 DEF SentInv
      <4> QED
        BY <1>1, <2>1, <2>3, <3>1, <4>2 DEF SentInv, At
    <3>2. CASE v # thread[t].target
      BY <1>1, <2>1, <2>3, <3>2 DEF SentInv, At
    <3> QED
      BY <3>1, <3>2
  <2>4. CASE /\ thread[t].pc = "publish" /\ thread[t].target \in Version
             /\ thread'[t].pc = "idle" /\ UNCHANGED record
             /\ \/ UNCHANGED sent
                \/ sent' = [sent EXCEPT ![thread[t].target] = IF @ = 2 THEN 2 ELSE @ + 1]
    <3>1. CASE UNCHANGED sent
      BY <1>3, <2>1, <2>4, <3>1
    <3>2. CASE sent' = [sent EXCEPT ![thread[t].target] = IF @ = 2 THEN 2 ELSE @ + 1]
      <4>1. ASSUME NEW v \in Version \ failedEver, v = thread[t].target
            PROVE  sent[v] = 0 /\ sent'[v] = 1 /\ record'[v] # "none"
                   /\ \A u \in Thread : ~At(u, "publish", v)'
        <5>1. At(t, "publish", v)
          BY <2>4, <4>1 DEF At
        <5>2. sent[v] = 0 /\ record[v] # "none"
          BY <5>1 DEF SentInv
        <5>3. \A u \in Thread : At(u, "publish", v) => u = t
          BY <5>1 DEF SentInv
        <5> QED
          BY <1>1, <2>1, <2>4, <3>2, <4>1, <5>2, <5>3 DEF At
      <4>2. ASSUME NEW v \in Version \ failedEver, v # thread[t].target PROVE sent'[v] = sent[v]
        BY <1>1, <3>2, <4>2
      <4> QED
        BY <2>1, <2>4, <4>1, <4>2 DEF SentInv, At
    <3> QED
      BY <2>4, <3>1, <3>2
  <2> QED
    BY <1>3, <1>4, <2>1, <2>2, <2>3, <2>4, EvaluateSteps
<1>5. ASSUME NEW t \in Http, Check(t) PROVE SentInv'
  <2>1. t \in Thread /\ thread' = [thread EXCEPT ![t] = Starts(shadowFw)]
        /\ UNCHANGED <<record, sent, failedEver>> /\ Starts(shadowFw).pc = "select"
    BY <1>5 DEF Check, Thread, Starts, ThreadIdle
  <2> QED
    BY <1>1, <1>3, <2>1
<1>6. CASE Ingest
  <2> DEFINE fw == Head(up).fw
  <2>1. fw \in Version /\ Head(up).kind \in {"status"} \cup Statuses
    BY <1>6, Heads, TypeParts DEF Ingest, ChannelsOK
  <2>2. /\ record' \in [Version -> RowStatus] /\ \A v \in Version : v # fw => record'[v] = record[v]
        /\ record'[fw] = "none" <=> record[fw] = "none"
    BY <1>1, <1>6, <2>1 DEF Ingest, RecordResult, RowStatus, Statuses
  <2>3. /\ failedEver \subseteq failedEver' /\ sent' = sent
        /\ record'[fw] = "failed" => fw \in failedEver'
    BY <1>6 DEF Ingest
  <2>4. \/ thread' = thread
        \/ thread' = [thread EXCEPT !["paho"] = Starts(fw)] /\ Starts(fw).pc = "select"
    BY <1>6 DEF Ingest, Starts, ThreadIdle
  <2>5. \A t \in Thread : thread'[t] = thread[t] \/ thread'[t].pc = "select"
    BY <1>1, <2>4
  <2>6. \A v \in Version \ failedEver' : v \in Version \ failedEver
        /\ (record'[v] = "none" <=> record[v] = "none") /\ record'[v] # "failed"
    BY <2>2, <2>3 DEF SentInv
  <2> QED
    BY <2>3, <2>5, <2>6 DEF SentInv, At
<1>7. CASE UNCHANGED cloudVars \/ (\E v \in 0..MaxVersion : SetRollout(v))
  BY <1>2, <1>7 DEF cloudVars, SetRollout
<1> QED
  BY <1>4, <1>5, <1>6, <1>7 DEF Next, CloudNext, otaVars

\* The same firmware is not sent twice unless an update to it failed.
THEOREM SentOnceAlways == Spec => []SentOnce
<1>1. Init => SentInv
  <2> SUFFICES ASSUME Init PROVE SentInv
    OBVIOUS
  <2>1. \A t \in Thread : thread[t].pc = "idle"
    BY DEF Init, CloudInit, ThreadIdle
  <2> QED
    BY <2>1 DEF Init, CloudInit, SentInv, At
<1>2. SentInv => SentOnce
  <2> SUFFICES ASSUME SentInv, NEW v \in Version, sent[v] = 2, v \notin failedEver PROVE FALSE
    BY DEF SentOnce
  <2>1. sent[v] \in {0, 1}
    BY DEF SentInv
  <2> QED
    BY <2>1
<1> QED
  BY <1>1, <1>2, SentInvStep, OtaTypeOK, OtaNamed, PTL DEF Spec
=============================================================================
