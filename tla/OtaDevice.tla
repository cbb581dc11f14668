----------------------------- MODULE OtaDevice -----------------------------
(***************************************************************************)
(* The update client of a device (rgb_light: app_ota.c and its caller      *)
(* app_mqtt.c), with the boot loader's rollback, which is external.        *)
(*                                                                         *)
(* Two tasks: the MQTT task runs the handlers of "connected" and of an     *)
(* update command; the OTA task downloads, saves the pending success in    *)
(* NVS and restarts the device a second later.  An image that boots for    *)
(* the first time is confirmed after it has connected; if the device       *)
(* restarts before that, the boot loader returns to the image before.      *)
(***************************************************************************)
EXTENDS OtaChannels

VARIABLES
    image,   \* [running, verified, previous]: the images of the boot loader
    staged,  \* [fw, valid]: image the next boot will start, fw = None if unchanged
    saved,   \* version of the pending success record in NVS, or None
    task,    \* OTA task (s_running): [pc, fw]
    mqtt     \* MQTT task: the next step of the handler of "connected", or "idle"

deviceVars == <<image, staged, saved, task, mqtt>>

NotStaged == [fw |-> None, valid |-> FALSE]
NoTask == [pc |-> "none", fw |-> None]

DeviceTypeOK ==
    /\ image \in [running : Version, verified : BOOLEAN, previous : Version]
    /\ staged \in [fw : 0..MaxVersion, valid : BOOLEAN]
    /\ saved \in 0..MaxVersion
    /\ task \in [pc : {"none", "start", "download", "save", "announce", "reboot"},
                 fw : 0..MaxVersion]
    /\ mqtt \in {"idle", "confirm", "mark", "clear"}

DeviceInit ==
    /\ image = [running |-> 1, verified |-> TRUE, previous |-> 1]
    /\ staged = NotStaged
    /\ saved = None
    /\ task = NoTask
    /\ mqtt = "idle"

-----------------------------------------------------------------------------
(* MQTT task: MQTT_EVENT_CONNECTED *)

\* publish_status comes first
Connect ==
    /\ ~online
    /\ online' = TRUE
    /\ mqtt' = "confirm"
    /\ Send("status", image.running)
    /\ UNCHANGED <<image, staged, saved, task, down, faults>>

\* Variant with a bug: only the record in NVS is looked at.
NeedsConfirmSaved == saved # None

\* The running image awaits confirmation, or a success is to be reported.
NeedsConfirm == ~image.verified \/ saved # None

\* Variant with a bug: the saved version is reported without looking at it.
SuccessVersionSaved == saved

\* Without a saved version the running one is reported.
SuccessVersion == IF saved = None THEN image.running ELSE saved

\* app_ota_confirm_running up to its report
Confirm ==
    /\ mqtt = "confirm"
    /\ IF NeedsConfirm
       THEN Send("success", SuccessVersion) /\ mqtt' = "mark"
       ELSE mqtt' = "idle" /\ UNCHANGED up
    /\ UNCHANGED <<image, staged, saved, task, online, down, faults>>

\* esp_ota_mark_app_valid_cancel_rollback changes the state of the image selected
\* last: with an image already staged that is not the running one
MarkValid ==
    /\ mqtt = "mark"
    /\ IF staged.fw = None
       THEN image' = [image EXCEPT !.verified = TRUE] /\ UNCHANGED staged
       ELSE staged' = [staged EXCEPT !.valid = TRUE] /\ UNCHANGED image
    /\ mqtt' = "clear"
    /\ UNCHANGED <<saved, task, online, down, up, faults>>

\* Variant with a bug: the record stays.
ClearSavedNever ==
    /\ mqtt = "clear"
    /\ mqtt' = "idle"
    /\ UNCHANGED <<image, staged, saved, task, online, down, up, faults>>

ClearSaved ==
    /\ mqtt = "clear"
    /\ saved' = None
    /\ mqtt' = "idle"
    /\ UNCHANGED <<image, staged, task, online, down, up, faults>>

\* MQTT_EVENT_DISCONNECTED: updates on their way to the device are lost
Disconnect ==
    /\ online /\ mqtt = "idle" /\ Fail("offline")
    /\ online' = FALSE
    /\ down' = <<>>
    /\ UNCHANGED <<image, staged, saved, task, mqtt, up>>

\* heartbeat_cb, its timer started by MQTT_EVENT_CONNECTED; bound: not while reports
\* are still on their way
Heartbeat ==
    /\ online /\ mqtt = "idle" /\ up = <<>>
    /\ Send("status", image.running)
    /\ UNCHANGED <<deviceVars, online, down, faults>>

\* handle_ota and app_ota_start
ReceiveUpdate ==
    /\ online /\ mqtt = "idle" /\ down # <<>>
    /\ \/ /\ task.pc = "none"
          /\ task' = [pc |-> "start", fw |-> Head(down)]
          /\ UNCHANGED <<up, faults>>
       \/ /\ task.pc # "none"
          /\ Send("failed", Head(down))
          /\ UNCHANGED <<task, faults>>
       \/ /\ task.pc = "none" /\ Fail("task")
          /\ Send("failed", Head(down))
          /\ UNCHANGED task
    /\ down' = Tail(down)
    /\ UNCHANGED <<image, staged, saved, mqtt, online>>

-----------------------------------------------------------------------------
(* OTA task *)

StartDownload ==
    /\ task.pc = "start"
    /\ Send("downloading", task.fw)
    /\ task' = [task EXCEPT !.pc = "download"]
    /\ UNCHANGED <<image, staged, saved, mqtt, online, down, faults>>

\* The SHA-256 of the command is not 64 hexadecimal digits or is not the one of the data,
\* hashed block by block as it arrives; or the connection or the size fails.
ImageRejected == Fail("download")

\* The image is written and selected for the next boot (esp_https_ota_finish), or rejected.
Download ==
    /\ task.pc = "download"
    /\ \/ /\ staged' = [fw |-> task.fw, valid |-> FALSE]
          /\ task' = [task EXCEPT !.pc = "save"]
          /\ UNCHANGED <<up, faults>>
       \/ /\ ImageRejected
          /\ Send("failed", task.fw)
          /\ task' = NoTask
          /\ UNCHANGED staged
    /\ UNCHANGED <<image, saved, mqtt, online, down>>

\* save_pending_success, whose error is not looked at
SaveSuccess ==
    /\ task.pc = "save"
    /\ \/ saved' = task.fw /\ UNCHANGED faults
       \/ Fail("nvs") /\ UNCHANGED saved
    /\ task' = [task EXCEPT !.pc = "announce"]
    /\ UNCHANGED <<image, staged, mqtt, online, down, up>>

AnnounceReboot ==
    /\ task.pc = "announce"
    /\ Send("downloading", task.fw)
    /\ task' = [task EXCEPT !.pc = "reboot"]
    /\ UNCHANGED <<image, staged, saved, mqtt, online, down, faults>>

-----------------------------------------------------------------------------
(* Restart, with the boot loader *)

Boot == image' =
    IF staged.fw # None
    THEN [running |-> staged.fw, verified |-> staged.valid, previous |-> image.running]
    ELSE IF image.verified THEN image
    ELSE [running |-> image.previous, verified |-> TRUE, previous |-> image.previous]

\* What the device had sent last may be lost with its RAM.
Restart ==
    /\ Boot
    /\ staged' = NotStaged
    /\ task' = NoTask
    /\ mqtt' = "idle"
    /\ online' = FALSE
    /\ down' = <<>>
    /\ UNCHANGED saved

Reboot ==
    /\ task.pc = "reboot"
    /\ Restart
    /\ \/ UNCHANGED <<up, faults>>
       \/ /\ Fail("loss")
          /\ \E n \in 0..Len(up) : up' = SubSeq(up, 1, n)

\* Power fails, or the running image is broken.
Crash ==
    /\ Fail("crash")
    /\ Restart
    /\ \E n \in 0..Len(up) : up' = SubSeq(up, 1, n)

MqttTask == Confirm \/ MarkValid \/ ClearSaved
OtaTask == StartDownload \/ Download \/ SaveSuccess \/ AnnounceReboot \/ Reboot

DeviceNext == Connect \/ Disconnect \/ Heartbeat \/ ReceiveUpdate \/ MqttTask \/ OtaTask \/ Crash

-----------------------------------------------------------------------------
(* Properties *)

\* After the handler of "connected" the running image is confirmed, so that a later
\* power failure does not roll it back, and its record in NVS is used up: only the
\* update that is about to restart the device has one.
OnlineMeansConfirmed ==
    online /\ mqtt = "idle" =>
        /\ image.verified
        /\ saved = None \/ (task.pc \in {"announce", "reboot"} /\ saved = task.fw)

\* "success" means that the new firmware has started and is confirmed to run
\* (docs/COMMUNICATION_PROTOCOL.md:273), whether or not save_pending_success had stored
\* what to report.  (Not if the device restarts, or the connection drops, between that
\* record and the report: then the old image finds the record and reports it.)
SuccessIsNew ==
    {"crash", "offline"} \cap faults.kinds = {} =>
        \A fw \in Version : up' = Append(up, [kind |-> "success", fw |-> fw])
                                => image.running = fw
SuccessByNewFirmware == [][SuccessIsNew]_<<deviceVars, up>>
=============================================================================
