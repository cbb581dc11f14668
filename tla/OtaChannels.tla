---------------------------- MODULE OtaChannels ----------------------------
(***************************************************************************)
(* The MQTT topics of a firmware update, between the cloud and one device: *)
(* down/ota (firmware to install) and up/status, up/ota (reports).  The    *)
(* broker is external.  QoS 1 keeps the order of each direction.  The      *)
(* device has a clean session and an update is not retained: what is sent  *)
(* while the device is offline is lost.  A restart may lose the reports    *)
(* the device has not yet handed over.                                     *)
(***************************************************************************)
EXTENDS Naturals, Sequences

CONSTANTS MaxVersion,  \* firmware versions 1..MaxVersion; 1 is the factory image
          Faults,      \* which kinds of failure may happen
          MaxFaults    \* bound: failures of those kinds

Version == 1..MaxVersion
None == 0

ASSUME OtaAssumption == MaxVersion \in Nat \ {0} /\ MaxFaults \in Nat

VARIABLES
    online,  \* the device is connected to the broker
    down,    \* versions the cloud has sent and the device not yet received
    up,      \* reports the device has sent and the cloud not yet ingested
    faults   \* failures so far: [count, kinds]

Statuses == {"downloading", "failed", "success"}
\* A status message reports the running version, an OTA message the requested one.
Report == [kind : {"status"} \cup Statuses, fw : Version]

Send(kind, fw) == up' = Append(up, [kind |-> kind, fw |-> fw])

Fail(k) ==
    /\ k \in Faults /\ faults.count < MaxFaults
    /\ faults' = [count |-> faults.count + 1, kinds |-> faults.kinds \cup {k}]
=============================================================================
