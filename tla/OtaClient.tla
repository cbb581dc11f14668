------------------------------ MODULE OtaClient -------------------------------
(***************************************************************************)
(* The update client of the devices whose builds have no rollback: the     *)
(* ESP-WIFI-MESH light (internal_communication: mesh_ota.c) and the        *)
(* doorbell (camera_stream: app_ota.c, the same code).  A task downloads   *)
(* an image and restarts, and NVS has a record of the pending success.     *)
(* Without rollback esp_https_ota_finish decides which image every later   *)
(* boot starts.                                                            *)
(*                                                                         *)
(* The reports go through a callback the program registers: WifiMesh       *)
(* conjoins it to the steps below.                                         *)
(***************************************************************************)
EXTENDS Naturals

CONSTANTS
    Node,        \* the devices
    MaxVersion   \* firmware versions 1..MaxVersion, all devices start with 1

ASSUME MaxVersionAssumption == MaxVersion \in Nat \ {0}

VARIABLES
    ota,       \* OTA task of a device (s_running: pc # "none"): [pc, fw]
    running,   \* version of the image that runs
    boot,      \* version of the image the next boot starts
    saved,     \* version in the pending success record of NVS, 0 if there is none
    clearing   \* confirm_running has reported and not yet cleared the record

otaVars == <<ota, running, boot, saved, clearing>>

Version == 1..MaxVersion
NoTask == [pc |-> "none", fw |-> 0]

OtaTypeOK ==
    /\ ota \in [Node -> [pc : {"download", "save", "restart"}, fw : Version] \cup {NoTask}]
    /\ running \in [Node -> Version]
    /\ boot \in [Node -> Version]
    /\ saved \in [Node -> 0..MaxVersion]
    /\ clearing \in [Node -> BOOLEAN]

OtaInit ==
    /\ ota = [d \in Node |-> NoTask]
    /\ running = [d \in Node |-> 1]
    /\ boot = [d \in Node |-> 1]
    /\ saved = [d \in Node |-> 0]
    /\ clearing = [d \in Node |-> FALSE]

\* Refused while a task runs; the task may fail to be created. Neither is reported.
OtaStart(d, v) ==
    /\ \/ /\ ota[d].pc = "none"
          /\ ota' = [ota EXCEPT ![d] = [pc |-> "download", fw |-> v]]
       \/ UNCHANGED ota
    /\ UNCHANGED <<running, boot, saved, clearing>>

\* Variant with a bug: the task ends without releasing s_running.
OtaFailHolding(d) ==
    /\ ota[d].pc = "download"
    /\ ota' = [ota EXCEPT ![d] = [pc |-> "stuck", fw |-> 0]]
    /\ UNCHANGED <<running, boot, saved, clearing>>

\* A download may end at any time: the SHA-256 of the command is not 64 hexadecimal digits or
\* not the one of the data, hashed block by block as it arrives, or the server fails.
ImageRejected(d) == ota[d].pc = "download"

\* The client can be started again.
OtaFail(d) ==
    /\ ImageRejected(d)
    /\ ota' = [ota EXCEPT ![d] = NoTask]
    /\ UNCHANGED <<running, boot, saved, clearing>>

\* Variant with a bug: the success is saved before esp_https_ota_finish, which may fail.
OtaFinishAfterSave(d) ==
    /\ ota[d].pc = "download"
    /\ saved' = [saved EXCEPT ![d] = ota[d].fw]
    /\ \/ /\ ota' = [ota EXCEPT ![d] = [pc |-> "restart", fw |-> ota[d].fw]]
          /\ boot' = [boot EXCEPT ![d] = ota[d].fw]
       \/ ota' = [ota EXCEPT ![d] = NoTask] /\ UNCHANGED boot
    /\ UNCHANGED <<running, clearing>>

\* All the data has arrived and has the expected hash: esp_https_ota_finish. A download
\* outlasts the erasure of an older record by far.
OtaFinish(d) ==
    /\ ota[d].pc = "download" /\ ~clearing[d]
    /\ ota' = [ota EXCEPT ![d] = [pc |-> "save", fw |-> ota[d].fw]]
    /\ boot' = [boot EXCEPT ![d] = ota[d].fw]
    /\ UNCHANGED <<running, saved, clearing>>

\* save_pending_success, whose errors are ignored; esp_restart follows.
OtaSave(d) ==
    /\ ota[d].pc = "save"
    /\ ota' = [ota EXCEPT ![d] = [pc |-> "restart", fw |-> ota[d].fw]]
    /\ saved' \in {saved, [saved EXCEPT ![d] = ota[d].fw]}
    /\ UNCHANGED <<running, boot, clearing>>

\* The RAM of a device that boots: whatever task ran is gone.
OtaBoot(d) ==
    /\ running' = [running EXCEPT ![d] = boot[d]]
    /\ ota' = [ota EXCEPT ![d] = NoTask]
    /\ clearing' = [clearing EXCEPT ![d] = FALSE]
    /\ UNCHANGED <<boot, saved>>

\* The confirmation after a connection reports a success only if the record is there ...
OtaConfirms(d) == saved[d] # 0

\* ... and then erases it.
OtaConfirm(d) ==
    /\ clearing' = [clearing EXCEPT ![d] = OtaConfirms(d) \/ clearing[d]]
    /\ UNCHANGED <<ota, running, boot, saved>>

OtaClear(d) ==
    /\ clearing[d]
    /\ saved' = [saved EXCEPT ![d] = 0]
    /\ clearing' = [clearing EXCEPT ![d] = FALSE]
    /\ UNCHANGED <<ota, running, boot>>
=============================================================================
