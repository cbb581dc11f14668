----------------------------- MODULE MjpegRelay ------------------------------
(***************************************************************************)
(* The MJPEG relay (server_relay/mjpeg_relay.py) for one camera: a thread  *)
(* per publishing connection stores each frame it receives, a thread per   *)
(* viewer waits for a frame it has not sent.  Both hold the lock of the    *)
(* camera while they look at it; a viewer writes after it has released it. *)
(*                                                                         *)
(* A frame is the number of its capture.  The devices that publish are     *)
(* those of Doorbell.                                                      *)
(***************************************************************************)
EXTENDS Naturals

CONSTANTS
    Push,       \* publishing connections
    Viewer,     \* viewing connections
    MaxFrames   \* bound: frames captured

ASSUME MaxFramesAssumption == MaxFrames \in Nat \ {0}

VARIABLES
    sock,    \* sock[k]: frame on its way over the connection k, 0 if there is none
    cam,     \* Cam: [frame, seq]
    viewer,  \* do_GET: [pc, last, data]
    shown    \* shown[v]: last frame the viewer v was sent

relayVars == <<sock, cam, viewer, shown>>

NoFrame == 0
Frame == 1..MaxFrames
View == [pc : {"away", "wait", "write"}, last : Nat, data : Frame \cup {NoFrame}]
Away == [pc |-> "away", last |-> 0, data |-> NoFrame]

RelayTypeOK ==
    /\ sock \in [Push -> Frame \cup {NoFrame}]
    /\ cam \in [frame : Frame \cup {NoFrame}, seq : Nat]
    /\ viewer \in [Viewer -> View]
    /\ shown \in [Viewer -> Frame \cup {NoFrame}]

RelayInit ==
    /\ sock = [k \in Push |-> NoFrame]
    /\ cam = [frame |-> NoFrame, seq |-> 0]
    /\ viewer = [v \in Viewer |-> Away]
    /\ shown = [v \in Viewer |-> NoFrame]

\* _ingest and Cam.publish: the frame replaces the one before.
Ingest(k) ==
    /\ sock[k] # NoFrame
    /\ cam' = [frame |-> sock[k], seq |-> cam.seq + 1]
    /\ sock' = [sock EXCEPT ![k] = NoFrame]
    /\ UNCHANGED <<viewer, shown>>

Join(v) ==
    /\ viewer[v].pc = "away"
    /\ viewer' = [viewer EXCEPT ![v] = [pc |-> "wait", last |-> 0, data |-> NoFrame]]
    /\ shown' = [shown EXCEPT ![v] = NoFrame]
    /\ UNCHANGED <<sock, cam>>

\* Variant with a bug: the wait of five seconds ends without a look at the number.
TakeAgain(v) ==
    /\ viewer[v].pc = "wait" /\ cam.seq # 0
    /\ viewer' = [viewer EXCEPT ![v] = [pc |-> "write", last |-> cam.seq, data |-> cam.frame]]
    /\ UNCHANGED <<sock, cam, shown>>

\* The wait ends with a frame the viewer does not have. Those in between are skipped.
Take(v) ==
    /\ viewer[v].pc = "wait" /\ cam.seq # viewer[v].last
    /\ viewer' = [viewer EXCEPT ![v] = [pc |-> "write", last |-> cam.seq, data |-> cam.frame]]
    /\ UNCHANGED <<sock, cam, shown>>

\* The frame is written, outside the lock.
Write(v) ==
    /\ viewer[v].pc = "write"
    /\ viewer' = [viewer EXCEPT ![v] = [pc |-> "wait", last |-> viewer[v].last,
                                        data |-> NoFrame]]
    /\ shown' = [shown EXCEPT ![v] = viewer[v].data]
    /\ UNCHANGED <<sock, cam>>

\* The viewer has gone: a write fails.
Leave(v) ==
    /\ viewer[v].pc = "write"
    /\ viewer' = [viewer EXCEPT ![v] = Away]
    /\ UNCHANGED <<sock, cam, shown>>
=============================================================================
