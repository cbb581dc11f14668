------------------------------ MODULE Doorbell -------------------------------
(***************************************************************************)
(* The video call of the doorbell (camera_stream: app_doorbell.c,          *)
(* app_relay.c, the commands of app_mqtt.c), with the relay it pushes its  *)
(* frames to.                                                              *)
(*                                                                         *)
(* Three threads start and stop the stream: the doorbell task (button),    *)
(* the MQTT task (commands) and the task of the timers (inactivity         *)
(* timeout). Nothing protects s_streaming, which they and the push tasks   *)
(* read and write.  A push task notices that the stream has been stopped   *)
(* only between two frames, so that a stream started meanwhile has two.    *)
(***************************************************************************)
EXTENDS MjpegRelay, FiniteSets

CONSTANT MaxInputs   \* bound: presses, commands and power cuts

ASSUME MaxInputsAssumption == MaxInputs \in Nat

VARIABLES
    thread,     \* control state of the threads
    streaming,  \* s_streaming
    armed,      \* s_timeout_timer runs
    push,       \* push[k]: task with the connection k: [pc, frame]
    captured,   \* number of frames the camera has captured
    overlap,    \* history: a push task has begun while frames of another were on their way
    inputs

callVars == <<thread, streaming, armed, push, captured, overlap, inputs>>
vars == <<callVars, relayVars>>

Thread == {"button", "mqtt", "timer"}
ThreadState == {"idle", "ring", "start", "set", "create", "announce", "arm",
                "disarm", "halt", "stopped"}
Task == [pc : {"none", "connect", "check", "send", "close"}, frame : Frame \cup {NoFrame}]
NoTask == [pc |-> "none", frame |-> NoFrame]

TypeOK ==
    /\ RelayTypeOK
    /\ thread \in [Thread -> ThreadState]
    /\ streaming \in BOOLEAN
    /\ armed \in BOOLEAN
    /\ push \in [Push -> Task]
    /\ captured \in 0..MaxFrames
    /\ overlap \in BOOLEAN
    /\ inputs \in 0..MaxInputs

Init ==
    /\ RelayInit
    /\ thread = [t \in Thread |-> "idle"]
    /\ streaming = FALSE
    /\ armed = FALSE
    /\ push = [k \in Push |-> NoTask]
    /\ captured = 0
    /\ overlap = FALSE
    /\ inputs = 0

Goto(t, pc) == thread' = [thread EXCEPT ![t] = pc]

-----------------------------------------------------------------------------
(* What the threads are told *)

\* app_doorbell_start_stream: a running stream is only prolonged.
StartStream(t) == Goto(t, IF streaming THEN "arm" ELSE "ring")

\* app_doorbell_stop_stream
StopStream(t) == Goto(t, IF streaming THEN "disarm" ELSE "idle")

Input(t) ==
    /\ thread[t] = "idle"
    /\ inputs < MaxInputs /\ inputs' = inputs + 1

\* A press that is neither a bounce nor held for three seconds.
Press ==
    /\ Input("button")
    /\ StartStream("button")
    /\ UNCHANGED <<streaming, armed, push, captured, overlap, relayVars>>

\* The commands stream and hangup. Others leave the call as it is.
Command ==
    /\ Input("mqtt")
    /\ StartStream("mqtt") \/ StopStream("mqtt")
    /\ UNCHANGED <<streaming, armed, push, captured, overlap, relayVars>>

\* timeout_cb
Timeout ==
    /\ armed /\ thread["timer"] = "idle"
    /\ armed' = FALSE
    /\ StopStream("timer")
    /\ UNCHANGED <<streaming, push, captured, overlap, inputs, relayVars>>

\* The device restarts: a power cut, an update, or app_wifi_reset_provisioning after a long
\* press or the command reprovision.
Restart ==
    /\ inputs < MaxInputs /\ inputs' = inputs + 1
    /\ thread' = [t \in Thread |-> "idle"]
    /\ streaming' = FALSE
    /\ armed' = FALSE
    /\ push' = [k \in Push |-> NoTask]
    /\ UNCHANGED <<captured, overlap, relayVars>>

-----------------------------------------------------------------------------
(* app_doorbell_start_stream *)

\* A publication waits for the lock of the MQTT client, which its task holds while it runs
\* a handler.
CanPublish(t) == t = "mqtt" \/ thread["mqtt"] = "idle"

\* The event "ringing".
Ring(t) ==
    /\ thread[t] = "ring" /\ CanPublish(t)
    /\ Goto(t, "start")
    /\ UNCHANGED <<streaming, armed, push, captured, overlap, inputs, relayVars>>

\* app_relay_start: s_streaming is tested, ...
RelayCheck(t) ==
    /\ thread[t] = "start"
    /\ Goto(t, IF streaming THEN "announce" ELSE "set")
    /\ UNCHANGED <<streaming, armed, push, captured, overlap, inputs, relayVars>>

\* ... set, ...
RelaySet(t) ==
    /\ thread[t] = "set"
    /\ Goto(t, "create")
    /\ streaming' = TRUE
    /\ UNCHANGED <<armed, push, captured, overlap, inputs, relayVars>>

Pushing(k) == push[k] # NoTask \/ sock[k] # NoFrame

\* ... and a push task created, or s_streaming reset because there is no memory for it.
RelayCreate(t) ==
    /\ thread[t] = "create"
    /\ \/ \E k \in Push :
             /\ ~Pushing(k)
             /\ push' = [push EXCEPT ![k] = [pc |-> "connect", frame |-> NoFrame]]
             /\ overlap' = (overlap \/ \E l \in Push \ {k} : Pushing(l))
             /\ Goto(t, "announce")
             /\ UNCHANGED streaming
       \/ /\ Goto(t, "idle")
          /\ streaming' = FALSE
          /\ UNCHANGED <<push, overlap>>
    /\ UNCHANGED <<armed, captured, inputs, relayVars>>

\* The event "stream_start".
Announce(t) ==
    /\ thread[t] = "announce" /\ CanPublish(t)
    /\ Goto(t, "arm")
    /\ UNCHANGED <<streaming, armed, push, captured, overlap, inputs, relayVars>>

\* arm_timeout: if two threads do it at once the second start fails, and the timer runs.
Arm(t) ==
    /\ thread[t] = "arm"
    /\ Goto(t, "idle")
    /\ armed' = TRUE
    /\ UNCHANGED <<streaming, push, captured, overlap, inputs, relayVars>>

-----------------------------------------------------------------------------
(* app_doorbell_stop_stream *)

\* Variant with a bug: the stream is stopped first, then the timer.
StopStepSwapped(t) ==
    /\ \/ /\ thread[t] = "disarm" /\ Goto(t, "halt")
          /\ streaming' = FALSE /\ UNCHANGED armed
       \/ /\ thread[t] = "halt" /\ Goto(t, "stopped")
          /\ armed' = FALSE /\ UNCHANGED streaming
    /\ UNCHANGED <<push, captured, overlap, inputs, relayVars>>

\* First the timer, then the stream.
StopStep(t) ==
    /\ \/ /\ thread[t] = "disarm" /\ Goto(t, "halt")
          /\ armed' = FALSE /\ UNCHANGED streaming
       \/ /\ thread[t] = "halt" /\ Goto(t, "stopped")
          /\ streaming' = FALSE /\ UNCHANGED armed
    /\ UNCHANGED <<push, captured, overlap, inputs, relayVars>>

\* The event "stream_stop".
Stopped(t) ==
    /\ thread[t] = "stopped" /\ CanPublish(t)
    /\ Goto(t, "idle")
    /\ UNCHANGED <<streaming, armed, push, captured, overlap, inputs, relayVars>>

-----------------------------------------------------------------------------
(* relay_push_task *)

PushGoto(k, pc, frame) == push' = [push EXCEPT ![k] = [pc |-> pc, frame |-> frame]]

\* Variant with a bug: a task that cannot connect returns without deleting itself.
PushConnectReturns(k) ==
    /\ push[k].pc = "connect"
    /\ \/ PushGoto(k, "check", NoFrame) /\ UNCHANGED streaming
       \/ PushGoto(k, "returned", NoFrame) /\ streaming' = FALSE
    /\ UNCHANGED <<thread, armed, captured, overlap, inputs, relayVars>>

\* relay_connect and the request, or the end of the task.
PushConnect(k) ==
    /\ push[k].pc = "connect"
    /\ \/ PushGoto(k, "check", NoFrame) /\ UNCHANGED streaming
       \/ PushGoto(k, "close", NoFrame) /\ UNCHANGED streaming
       \/ PushGoto(k, "none", NoFrame) /\ streaming' = FALSE
    /\ UNCHANGED <<thread, armed, captured, overlap, inputs, relayVars>>

\* Variant with a bug: only a failure ends the loop.
PushCheckForever(k) ==
    /\ push[k].pc = "check"
    /\ captured < MaxFrames
    /\ captured' = captured + 1
    /\ PushGoto(k, "send", captured + 1)
    /\ UNCHANGED <<thread, streaming, armed, overlap, inputs, relayVars>>

\* while (s_streaming), and esp_camera_fb_get. When the frames are used up it returns NULL
\* and the task goes round its loop.
PushCheck(k) ==
    /\ push[k].pc = "check"
    /\ \/ /\ streaming /\ captured < MaxFrames
          /\ captured' = captured + 1
          /\ PushGoto(k, "send", captured + 1)
       \/ ~streaming /\ PushGoto(k, "close", NoFrame) /\ UNCHANGED captured
    /\ UNCHANGED <<thread, streaming, armed, overlap, inputs, relayVars>>

\* The frame is sent (bound: one is on its way), or the connection has failed.
PushSend(k) ==
    /\ push[k].pc = "send"
    /\ \/ /\ sock[k] = NoFrame
          /\ sock' = [sock EXCEPT ![k] = push[k].frame]
          /\ PushGoto(k, "check", NoFrame)
       \/ PushGoto(k, "close", NoFrame) /\ UNCHANGED sock
    /\ UNCHANGED <<thread, streaming, armed, captured, overlap, inputs, cam, viewer, shown>>

\* The end of a task stops the stream, whosever stream it is.
PushClose(k) ==
    /\ push[k].pc = "close"
    /\ PushGoto(k, "none", NoFrame)
    /\ streaming' = FALSE
    /\ UNCHANGED <<thread, armed, captured, overlap, inputs, relayVars>>

-----------------------------------------------------------------------------
ThreadStep(t) ==
    \/ Ring(t) \/ RelayCheck(t) \/ RelaySet(t) \/ RelayCreate(t) \/ Announce(t) \/ Arm(t)
    \/ StopStep(t) \/ Stopped(t)

PushStep(k) == PushConnect(k) \/ PushCheck(k) \/ PushSend(k) \/ PushClose(k)

Relay ==
    /\ \/ \E k \in Push : Ingest(k)
       \/ \E v \in Viewer : Join(v) \/ Take(v) \/ Write(v) \/ Leave(v)
    /\ UNCHANGED callVars

Next ==
    \/ Press \/ Command \/ Timeout \/ Restart
    \/ \E t \in Thread : ThreadStep(t)
    \/ \E k \in Push : PushStep(k)
    \/ Relay

\* The threads and tasks run, a running timer expires and the relay reads what it is sent.
\* Nobody has to press, to call or to watch.
Fairness ==
    /\ \A t \in Thread : WF_vars(ThreadStep(t))
    /\ \A k \in Push : WF_vars(PushStep(k)) /\ WF_vars(Ingest(k) /\ UNCHANGED callVars)
    /\ WF_vars(Timeout)

Spec == Init /\ [][Next]_vars /\ Fairness

-----------------------------------------------------------------------------
(* Properties *)

\* A stream never runs without something that will end it: the inactivity timeout runs, or
\* a thread is about to start it, or one that has stopped it is about to stop the stream.
NoEndlessStream ==
    streaming => \/ armed
                 \/ \E t \in Thread :
                       thread[t] \in {"create", "announce", "arm", "disarm", "halt"}

\* As long as no push task overtakes another, a viewer gets every frame at most once and
\* never one older than it has: the relay may skip frames, not repeat or reorder them.
NewestFirst ==
    \A v \in Viewer : viewer[v].pc = "write" => viewer[v].data > shown[v] \/ overlap

\* When nobody presses or calls any more the stream and all push tasks end.
StreamEnds == <>[](~streaming /\ ~armed /\ \A k \in Push : push[k] = NoTask)
=============================================================================
