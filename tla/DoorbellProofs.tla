--------------------------- MODULE DoorbellProofs ---------------------------
(***************************************************************************)
(* Proofs about the video call, for any number of connections, viewers,    *)
(* frames and inputs.                                                      *)
(***************************************************************************)
EXTENDS Doorbell, TLAPS

LEMMA Tasks ==
    /\ NoTask \in Task /\ [pc |-> "connect", frame |-> NoFrame] \in Task
    /\ \A pc \in {"none", "check", "close"} : [pc |-> pc, frame |-> NoFrame] \in Task
    /\ \A frame \in Frame : [pc |-> "send", frame |-> frame] \in Task
    /\ \A task \in Task : task.frame \in Frame \cup {NoFrame}
BY DEF NoTask, Task

LEMMA Views ==
    /\ Away \in View
    /\ \A last \in Nat, data \in Frame \cup {NoFrame} :
         [pc |-> "wait", last |-> last, data |-> data] \in View
         /\ [pc |-> "write", last |-> last, data |-> data] \in View
    /\ \A view \in View : view.last \in Nat /\ view.data \in Frame \cup {NoFrame}
BY DEF Away, View, NoFrame

\* A step of the threads or of the push tasks leaves the type of the relay as it is.
LEMMA TypeOKThreads ==
    ASSUME TypeOK, Press \/ Command \/ Timeout \/ Restart \/ \E t \in Thread : ThreadStep(t)
    PROVE  TypeOK'
<1> USE MaxFramesAssumption, MaxInputsAssumption, Tasks
    DEF TypeOK, RelayTypeOK, relayVars, Goto, ThreadState, Frame
<1>1. CASE Press
  BY <1>1 DEF Press, Input, StartStream, Thread
<1>2. CASE Command
  BY <1>2 DEF Command, Input, StartStream, StopStream, Thread
<1>3. CASE Timeout
  BY <1>3 DEF Timeout, StopStream, Thread
<1>4. CASE Restart
  <2>1. push' \in [Push -> Task] /\ thread' \in [Thread -> ThreadState]
    BY <1>4 DEF Restart
  <2>2. streaming' \in BOOLEAN /\ armed' \in BOOLEAN /\ overlap' \in BOOLEAN
    BY <1>4 DEF Restart
  <2>3. captured' \in 0..MaxFrames /\ inputs' \in 0..MaxInputs /\ RelayTypeOK'
    BY <1>4 DEF Restart
  <2> QED
    BY <2>1, <2>2, <2>3
<1>5. ASSUME NEW t \in Thread, ThreadStep(t) PROVE TypeOK'
  <2>1. CASE Ring(t)
    BY <2>1 DEF Ring
  <2>2. CASE RelayCheck(t)
    BY <2>2 DEF RelayCheck
  <2>3. CASE RelaySet(t)
    BY <2>3 DEF RelaySet
  <2>4. CASE RelayCreate(t)
    <3>1. overlap' \in BOOLEAN
      BY <2>4 DEF RelayCreate
    <3> QED
      BY <2>4, <3>1 DEF RelayCreate
  <2>5. CASE Announce(t)
    BY <2>5 DEF Announce
  <2>6. CASE Arm(t)
    BY <2>6 DEF Arm
  <2>7. CASE StopStep(t)
    BY <2>7 DEF StopStep
  <2>8. CASE Stopped(t)
    BY <2>8 DEF Stopped
  <2> QED
    BY <1>5, <2>1, <2>2, <2>3, <2>4, <2>5, <2>6, <2>7, <2>8 DEF ThreadStep
<1> QED
  BY <1>1, <1>2, <1>3, <1>4, <1>5

LEMMA TypeOKPush ==
    ASSUME TypeOK, NEW k \in Push, PushStep(k)
    PROVE  TypeOK'
<1> USE MaxFramesAssumption, Tasks DEF TypeOK, RelayTypeOK, relayVars, PushGoto, Frame
<1>1. CASE PushConnect(k)
  BY <1>1 DEF PushConnect
<1>2. CASE PushCheck(k)
  BY <1>2 DEF PushCheck
<1>3. CASE PushSend(k)
  BY <1>3 DEF PushSend
<1>4. CASE PushClose(k)
  BY <1>4 DEF PushClose
<1> QED
  BY <1>1, <1>2, <1>3, <1>4 DEF PushStep

LEMMA TypeOKRelay ==
    ASSUME TypeOK, Relay
    PROVE  TypeOK'
<1> USE MaxFramesAssumption, Views DEF TypeOK, RelayTypeOK, callVars, Frame
<1>1. ASSUME NEW k \in Push, Ingest(k), UNCHANGED callVars PROVE TypeOK'
  BY <1>1 DEF Ingest
<1>2. ASSUME NEW v \in Viewer, Join(v), UNCHANGED callVars PROVE TypeOK'
  <2>1. [pc |-> "wait", last |-> 0, data |-> NoFrame] \in View
    BY DEF View
  <2> QED
    BY <1>2, <2>1 DEF Join
<1>3. ASSUME NEW v \in Viewer, Take(v), UNCHANGED callVars PROVE TypeOK'
  BY <1>3 DEF Take
<1>4. ASSUME NEW v \in Viewer, Write(v), UNCHANGED callVars PROVE TypeOK'
  BY <1>4 DEF Write
<1>5. ASSUME NEW v \in Viewer, Leave(v), UNCHANGED callVars PROVE TypeOK'
  BY <1>5 DEF Leave
<1> QED
  BY <1>1, <1>2, <1>3, <1>4, <1>5 DEF Relay

\* The type invariant: of s_streaming, the timer, the push tasks with the frame each of
\* them holds, and the threads of the relay.
THEOREM DoorbellTypeOK == Spec => []TypeOK
<1>1. Init => TypeOK
  <2> SUFFICES ASSUME Init PROVE TypeOK
    OBVIOUS
  <2>1. RelayTypeOK
    BY MaxFramesAssumption, Views DEF Init, RelayInit, RelayTypeOK, Frame, NoFrame
  <2>2. thread \in [Thread -> ThreadState] /\ push \in [Push -> Task]
    BY Tasks DEF Init, ThreadState
  <2>3. streaming \in BOOLEAN /\ armed \in BOOLEAN /\ overlap \in BOOLEAN
    BY DEF Init
  <2>4. captured \in 0..MaxFrames /\ inputs \in 0..MaxInputs
    BY MaxInputsAssumption, MaxFramesAssumption DEF Init
  <2> QED
    BY <2>1, <2>2, <2>3, <2>4 DEF TypeOK
<1>2. TypeOK /\ [Next]_vars => TypeOK'
  <2> SUFFICES ASSUME TypeOK, [Next]_vars PROVE TypeOK'
    OBVIOUS
  <2>1. CASE UNCHANGED vars
    BY <2>1 DEF vars, callVars, relayVars, TypeOK, RelayTypeOK
  <2>2. CASE Next
    BY <2>2, TypeOKThreads, TypeOKPush, TypeOKRelay DEF Next
  <2> QED
    BY <2>1, <2>2
<1> QED
  BY <1>1, <1>2, PTL DEF Spec

-----------------------------------------------------------------------------
(* The stream always has something that will end it. *)

Ending == {"create", "announce", "arm", "disarm", "halt"}

\* A thread that goes to a place where it is about to end the stream is what the invariant
\* asks for; one that leaves such a place has armed the timer or ended the stream.
LEMMA EndingKept ==
    ASSUME TypeOK, NoEndlessStream, NEW t \in Thread, NEW pc \in ThreadState, Goto(t, pc),
           \/ pc \in Ending
           \/ ~streaming'
           \/ armed'
           \/ (streaming' => streaming) /\ (armed => armed') /\ thread[t] \notin Ending
    PROVE  NoEndlessStream'
<1>1. thread \in [Thread -> ThreadState]
  BY DEF TypeOK
<1>2. thread'[t] = pc /\ \A u \in Thread \ {t} : thread'[u] = thread[u]
  BY <1>1 DEF Goto
<1>3. CASE pc \in Ending
  BY <1>2, <1>3 DEF NoEndlessStream, Ending
<1>4. CASE (streaming' => streaming) /\ (armed => armed') /\ thread[t] \notin Ending
  <2>1. SUFFICES ASSUME streaming', ~armed' PROVE \E u \in Thread : thread'[u] \in Ending
    BY DEF NoEndlessStream, Ending
  <2>2. PICK u \in Thread : thread[u] \in Ending
    BY <1>4, <2>1 DEF NoEndlessStream, Ending
  <2> QED
    BY <1>2, <1>4, <2>2
<1> QED
  BY <1>3, <1>4 DEF NoEndlessStream

LEMMA NoEndlessStreamThread ==
    ASSUME TypeOK, NoEndlessStream, NEW t \in Thread, ThreadStep(t)
    PROVE  NoEndlessStream'
<1> USE DEF Ending, ThreadState
<1>1. CASE Ring(t)
  BY <1>1, EndingKept DEF Ring
<1>2. CASE RelayCheck(t)
  BY <1>2, EndingKept DEF RelayCheck
<1>3. CASE RelaySet(t)
  BY <1>3, EndingKept DEF RelaySet
<1>4. CASE RelayCreate(t)
  <2>1. Goto(t, "announce") \/ (Goto(t, "idle") /\ streaming' = FALSE)
    BY <1>4 DEF RelayCreate
  <2> QED
    BY <2>1, EndingKept
<1>5. CASE Announce(t)
  BY <1>5, EndingKept DEF Announce
<1>6. CASE Arm(t)
  BY <1>6, EndingKept DEF Arm
<1>7. CASE StopStep(t)
  <2>1. Goto(t, "halt") \/ (Goto(t, "stopped") /\ streaming' = FALSE)
    BY <1>7 DEF StopStep
  <2> QED
    BY <2>1, EndingKept
<1>8. CASE Stopped(t)
  BY <1>8, EndingKept DEF Stopped
<1> QED
  BY <1>1, <1>2, <1>3, <1>4, <1>5, <1>6, <1>7, <1>8 DEF ThreadStep

\* A stream never runs without something that will end it, however the button, the
\* commands and the timeout interleave in app_doorbell_start_stream and
\* app_doorbell_stop_stream, which take no lock.
THEOREM DoorbellNoEndlessStream == Spec => []NoEndlessStream
<1>1. Init => NoEndlessStream
  BY DEF Init, NoEndlessStream
<1>2. TypeOK /\ NoEndlessStream /\ [Next]_vars => NoEndlessStream'
  <2> SUFFICES ASSUME TypeOK, NoEndlessStream, [Next]_vars PROVE NoEndlessStream'
    OBVIOUS
  <2> USE DEF Ending, ThreadState
  <2>1. CASE Press
    <3>1. \E pc \in {"arm", "ring"} : Goto("button", pc)
      BY <2>1 DEF Press, StartStream
    <3>2. thread["button"] = "idle" /\ UNCHANGED <<streaming, armed>>
      BY <2>1 DEF Press, Input
    <3> QED
      BY <3>1, <3>2, EndingKept DEF Thread
  <2>2. CASE Command
    <3>1. \E pc \in {"arm", "ring", "disarm", "idle"} : Goto("mqtt", pc)
      BY <2>2 DEF Command, StartStream, StopStream
    <3>2. thread["mqtt"] = "idle" /\ UNCHANGED <<streaming, armed>>
      BY <2>2 DEF Command, Input
    <3> QED
      BY <3>1, <3>2, EndingKept DEF Thread
  <2>3. CASE Timeout
    <3>1. Goto("timer", "disarm") \/ (Goto("timer", "idle") /\ ~streaming)
      BY <2>3 DEF Timeout, StopStream
    <3>2. UNCHANGED streaming
      BY <2>3 DEF Timeout
    <3> QED
      BY <3>1, <3>2, EndingKept DEF Thread
  <2>4. CASE Restart
    BY <2>4 DEF Restart, NoEndlessStream
  <2>5. ASSUME NEW t \in Thread, ThreadStep(t) PROVE NoEndlessStream'
    BY <2>5, NoEndlessStreamThread
  <2>6. ASSUME NEW k \in Push, PushStep(k) PROVE NoEndlessStream'
    <3>1. UNCHANGED <<thread, armed>> /\ (UNCHANGED streaming \/ streaming' = FALSE)
      BY <2>6 DEF PushStep, PushConnect, PushCheck, PushSend, PushClose
    <3> QED
      BY <3>1 DEF NoEndlessStream
  <2>7. CASE Relay
    BY <2>7 DEF Relay, callVars, NoEndlessStream
  <2>8. CASE UNCHANGED vars
    BY <2>8 DEF vars, callVars, NoEndlessStream
  <2> QED
    BY <2>1, <2>2, <2>3, <2>4, <2>5, <2>6, <2>7, <2>8 DEF Next
<1> QED
  BY <1>1, <1>2, DoorbellTypeOK, PTL DEF Spec

-----------------------------------------------------------------------------
(* Frames keep their order as long as the push tasks do not overlap. *)

\* Only one connection carries frames, each newer than the one the relay has.
PushInv ==
    /\ cam.frame <= captured
    /\ \A k, l \in Push : Pushing(k) /\ Pushing(l) => k = l
    /\ \A k \in Push :
         /\ sock[k] # NoFrame => cam.frame < sock[k] /\ sock[k] <= captured
         /\ push[k].frame # NoFrame =>
              cam.frame < push[k].frame /\ push[k].frame <= captured
         /\ sock[k] # NoFrame /\ push[k].frame # NoFrame => sock[k] < push[k].frame

\* What a viewer is about to write is newer than what it has written.
ViewerInv ==
    /\ cam.seq = 0 => cam.frame = NoFrame
    /\ cam.seq # 0 => cam.frame # NoFrame
    /\ \A v \in Viewer :
         /\ viewer[v].pc = "wait" =>
              /\ shown[v] <= cam.frame
              /\ viewer[v].last # cam.seq => shown[v] < cam.frame
         /\ viewer[v].pc = "write" =>
              /\ shown[v] < viewer[v].data /\ viewer[v].data <= cam.frame
              /\ viewer[v].last # cam.seq => viewer[v].data < cam.frame

OrderInv == overlap \/ (PushInv /\ ViewerInv)

\* A step that takes no frame into or out of a connection keeps the order.
LEMMA OrderUnmoved ==
    ASSUME TypeOK, PushInv, ViewerInv, UNCHANGED <<relayVars, captured>>,
           push' \in [Push -> Task],
           \A k \in Push : push'[k].frame = NoFrame \/ push'[k] = push[k],
           \A k \in Push : push'[k] = NoTask \/ push[k] # NoTask \/ sock[k] # NoFrame
    PROVE  PushInv' /\ ViewerInv'
<1>1. ViewerInv'
  BY DEF ViewerInv, relayVars
<1>2. \A k \in Push : Pushing(k)' => Pushing(k)
  BY DEF Pushing, relayVars
<1>3. PushInv'
  BY <1>2 DEF PushInv, relayVars
<1> QED
  BY <1>1, <1>3

LEMMA OrderPush ==
    ASSUME TypeOK, PushInv, ViewerInv, NEW k \in Push, PushStep(k)
    PROVE  PushInv' /\ ViewerInv'
<1>0. push \in [Push -> Task] /\ \A l \in Push : push[l].pc # "none" => push[l] # NoTask
  BY DEF TypeOK, NoTask
<1>1. CASE PushConnect(k) \/ PushClose(k)
  <2>1. PICK pc \in {"check", "close", "none"} : PushGoto(k, pc, NoFrame)
    BY <1>1 DEF PushConnect, PushClose
  <2>2. push[k] # NoTask /\ UNCHANGED <<relayVars, captured>>
    BY <1>0, <1>1 DEF PushConnect, PushClose
  <2>3. /\ push'[k].frame = NoFrame
        /\ \A l \in Push \ {k} : push'[l] = push[l]
        /\ push' \in [Push -> Task]
    BY <1>0, <2>1, Tasks DEF PushGoto
  <2> QED
    BY <2>2, <2>3, OrderUnmoved
<1>2. CASE PushCheck(k)
  <2>1. CASE PushGoto(k, "close", NoFrame) /\ UNCHANGED captured
    <3>1. push[k] # NoTask /\ UNCHANGED <<relayVars, captured>>
      BY <1>0, <1>2, <2>1 DEF PushCheck
    <3>2. /\ push'[k].frame = NoFrame
          /\ \A l \in Push \ {k} : push'[l] = push[l]
          /\ push' \in [Push -> Task]
      BY <1>0, <2>1, Tasks DEF PushGoto
    <3> QED
      BY <3>1, <3>2, OrderUnmoved
  <2>2. CASE captured < MaxFrames /\ captured' = captured + 1
             /\ PushGoto(k, "send", captured + 1)
    <3>1. push'[k].frame = captured + 1 /\ \A l \in Push \ {k} : push'[l] = push[l]
      BY <1>0, <2>2 DEF PushGoto
    <3>2. UNCHANGED relayVars /\ Pushing(k)
      BY <1>0, <1>2 DEF PushCheck, Pushing
    <3>3. \A l \in Push : Pushing(l)' => Pushing(l)
      BY <3>1, <3>2 DEF Pushing, relayVars
    <3>4. /\ captured \in Nat /\ cam.frame \in Nat /\ \A l \in Push : sock[l] \in Nat
          /\ \A l \in Push : push[l].frame \in Nat
      BY MaxFramesAssumption, Tasks DEF TypeOK, RelayTypeOK, Frame, NoFrame
    <3>5. PushInv'
      BY <2>2, <3>1, <3>2, <3>3, <3>4 DEF PushInv, relayVars
    <3> QED
      BY <3>2, <3>5 DEF ViewerInv, relayVars
  <2> QED
    BY <1>2, <2>1, <2>2 DEF PushCheck
<1>3. CASE PushSend(k)
  <2>1. CASE PushGoto(k, "close", NoFrame) /\ UNCHANGED sock
    <3>1. push[k] # NoTask /\ UNCHANGED <<relayVars, captured>>
      BY <1>0, <1>3, <2>1 DEF PushSend, relayVars
    <3>2. /\ push'[k].frame = NoFrame
          /\ \A l \in Push \ {k} : push'[l] = push[l]
          /\ push' \in [Push -> Task]
      BY <1>0, <2>1, Tasks DEF PushGoto
    <3> QED
      BY <3>1, <3>2, OrderUnmoved
  <2>2. CASE sock' = [sock EXCEPT ![k] = push[k].frame] /\ PushGoto(k, "check", NoFrame)
    <3>1. /\ push'[k].frame = NoFrame /\ \A l \in Push \ {k} : push'[l] = push[l]
          /\ sock'[k] = push[k].frame /\ \A l \in Push \ {k} : sock'[l] = sock[l]
      BY <1>0, <2>2 DEF PushGoto, TypeOK, RelayTypeOK
    <3>2. UNCHANGED <<captured, cam, viewer, shown>> /\ Pushing(k)
      BY <1>0, <1>3 DEF PushSend, Pushing
    <3>3. \A l \in Push : Pushing(l)' => Pushing(l)
      BY <3>1, <3>2 DEF Pushing
    <3>4. PushInv'
      BY <3>1, <3>2, <3>3 DEF PushInv
    <3> QED
      BY <3>2, <3>4 DEF ViewerInv
  <2> QED
    BY <1>3, <2>1, <2>2 DEF PushSend
<1> QED
  BY <1>1, <1>2, <1>3 DEF PushStep

LEMMA OrderIngest ==
    ASSUME TypeOK, PushInv, ViewerInv, NEW k \in Push, Ingest(k), UNCHANGED callVars
    PROVE  PushInv' /\ ViewerInv'
<1>1. /\ cam'.frame = sock[k] /\ cam'.seq = cam.seq + 1 /\ cam.seq \in Nat
      /\ sock'[k] = NoFrame /\ \A l \in Push \ {k} : sock'[l] = sock[l]
      /\ sock[k] # NoFrame /\ UNCHANGED <<viewer, shown, push, captured>>
  BY DEF Ingest, callVars, TypeOK, RelayTypeOK
<1>2. \A l \in Push \ {k} : push[l] = NoTask /\ sock[l] = NoFrame
  BY <1>1 DEF PushInv, Pushing
<1>3. cam.frame < sock[k] /\ sock[k] <= captured
  BY <1>1 DEF PushInv
<1>4. \A l \in Push : Pushing(l)' => Pushing(l)
  BY <1>1 DEF Pushing
<1>5. PushInv'
  BY <1>1, <1>2, <1>3, <1>4 DEF PushInv, NoTask
<1>6. /\ cam.frame \in Nat /\ sock[k] \in Nat
      /\ \A v \in Viewer : shown[v] \in Nat /\ viewer[v].data \in Nat
  BY MaxFramesAssumption, Views DEF TypeOK, RelayTypeOK, Frame, NoFrame
<1>7. ViewerInv'
  BY <1>1, <1>3, <1>6 DEF ViewerInv, NoFrame
<1> QED
  BY <1>5, <1>7

LEMMA OrderViewer ==
    ASSUME TypeOK, PushInv, ViewerInv, NEW v \in Viewer,
           Join(v) \/ Take(v) \/ Write(v) \/ Leave(v), UNCHANGED callVars
    PROVE  PushInv' /\ ViewerInv'
<1>1. PushInv'
  BY DEF Join, Take, Write, Leave, callVars, PushInv, Pushing
<1>2. /\ viewer \in [Viewer -> View] /\ cam.seq \in Nat
      /\ cam.frame \in Nat
      /\ shown \in [Viewer -> Nat] /\ \A u \in Viewer : viewer[u].data \in Nat
  BY MaxFramesAssumption, Views DEF TypeOK, RelayTypeOK, Frame, NoFrame
<1>3. \A u \in Viewer \ {v} : viewer'[u] = viewer[u] /\ shown'[u] = shown[u]
  BY <1>2 DEF Join, Take, Write, Leave
<1>4. UNCHANGED cam
  BY DEF Join, Take, Write, Leave
<1>5. CASE Join(v)
  <2>1. /\ viewer'[v] = [pc |-> "wait", last |-> 0, data |-> NoFrame]
        /\ shown'[v] = NoFrame
    BY <1>2, <1>5 DEF Join
  <2> QED
    BY <1>1, <1>2, <1>3, <1>4, <2>1 DEF ViewerInv, NoFrame
<1>6. CASE Take(v)
  <2>1. /\ viewer'[v] = [pc |-> "write", last |-> cam.seq, data |-> cam.frame]
        /\ UNCHANGED shown /\ viewer[v].pc = "wait" /\ viewer[v].last # cam.seq
    BY <1>2, <1>6 DEF Take
  <2> QED
    BY <1>1, <1>2, <1>3, <1>4, <2>1 DEF ViewerInv
<1>7. CASE Write(v)
  <2>1. /\ viewer'[v] = [pc |-> "wait", last |-> viewer[v].last, data |-> NoFrame]
        /\ shown'[v] = viewer[v].data /\ viewer[v].pc = "write"
    BY <1>2, <1>7 DEF Write
  <2> QED
    BY <1>1, <1>2, <1>3, <1>4, <2>1 DEF ViewerInv
<1>8. CASE Leave(v)
  <2>1. viewer'[v].pc = "away"
    BY <1>2, <1>8 DEF Leave, Away
  <2> QED
    BY <1>1, <1>3, <1>4, <2>1 DEF ViewerInv
<1> QED
  BY <1>5, <1>6, <1>7, <1>8

LEMMA OrderCreate ==
    ASSUME TypeOK, PushInv, ViewerInv, NEW t \in Thread, RelayCreate(t), ~overlap'
    PROVE  PushInv' /\ ViewerInv'
<1>0. UNCHANGED <<relayVars, captured>>
  BY DEF RelayCreate
<1>1. CASE UNCHANGED push
  BY <1>0, <1>1 DEF PushInv, ViewerInv, Pushing, relayVars
<1>2. ASSUME NEW k \in Push, ~Pushing(k),
             push' = [push EXCEPT ![k] = [pc |-> "connect", frame |-> NoFrame]],
             \A l \in Push \ {k} : ~Pushing(l)
      PROVE PushInv' /\ ViewerInv'
  <2>1. ViewerInv'
    BY <1>0 DEF ViewerInv, relayVars
  <2>2. /\ push'[k] = [pc |-> "connect", frame |-> NoFrame]
        /\ \A l \in Push \ {k} : push'[l] = push[l]
    BY <1>2 DEF TypeOK
  <2>3. \A l \in Push : Pushing(l)' => l = k
    BY <1>0, <1>2, <2>2 DEF Pushing, relayVars
  <2>4. PushInv'
    BY <1>0, <2>2, <2>3 DEF PushInv, relayVars
  <2> QED
    BY <2>1, <2>4
<1> QED
  BY <1>1, <1>2 DEF RelayCreate

\* Between one start of a push task and the next there is one source of frames, whose
\* numbers grow. The relay holds the newest it has been sent (Cam.publish) and a viewer
\* waits for one with another number: it never gets a frame twice or an older one.
THEOREM DoorbellNewestFirst == Spec => []NewestFirst
<1>1. Init => OrderInv
  <2> SUFFICES ASSUME Init PROVE PushInv /\ ViewerInv
    BY DEF OrderInv
  <2>1. /\ cam = [frame |-> NoFrame, seq |-> 0] /\ captured = 0
        /\ \A k \in Push : push[k] = NoTask /\ sock[k] = NoFrame
        /\ \A v \in Viewer : viewer[v] = Away
    BY DEF Init, RelayInit
  <2> QED
    BY <2>1 DEF PushInv, ViewerInv, Pushing, NoTask, Away, NoFrame
<1>2. TypeOK /\ OrderInv /\ [Next]_vars => OrderInv'
  <2> SUFFICES ASSUME TypeOK, OrderInv, [Next]_vars, ~overlap' PROVE PushInv' /\ ViewerInv'
    BY DEF OrderInv
  <2>1. ~overlap
    BY DEF Next, Press, Command, Timeout, Restart, ThreadStep, Ring, RelayCheck, RelaySet,
           RelayCreate, Announce, Arm, StopStep, Stopped, PushStep, PushConnect, PushCheck,
           PushSend, PushClose, Relay, vars, callVars
  <2>2. PushInv /\ ViewerInv
    BY <2>1 DEF OrderInv
  <2>3. CASE Press \/ Command \/ Timeout \/ UNCHANGED vars
    <3>1. UNCHANGED <<relayVars, captured, push>>
      BY <2>3 DEF Press, Command, Timeout, vars, callVars
    <3> QED
      BY <2>2, <3>1 DEF PushInv, ViewerInv, Pushing, relayVars
  <2>4. CASE Restart
    <3>1. /\ UNCHANGED <<relayVars, captured>>
          /\ push' \in [Push -> Task] /\ \A k \in Push : push'[k] = NoTask
      BY <2>4, Tasks DEF Restart
    <3> QED
      BY <2>2, <3>1, OrderUnmoved DEF NoTask
  <2>5. ASSUME NEW t \in Thread, ThreadStep(t) PROVE PushInv' /\ ViewerInv'
    <3>1. CASE RelayCreate(t)
      BY <2>2, <3>1, OrderCreate
    <3>2. CASE ~RelayCreate(t)
      <4>1. UNCHANGED <<relayVars, captured, push>>
        BY <2>5, <3>2 DEF ThreadStep, Ring, RelayCheck, RelaySet, Announce, Arm, StopStep,
                          Stopped
      <4> QED
        BY <2>2, <4>1 DEF PushInv, ViewerInv, Pushing, relayVars
    <3> QED
      BY <3>1, <3>2
  <2>6. ASSUME NEW k \in Push, PushStep(k) PROVE PushInv' /\ ViewerInv'
    BY <2>2, <2>6, OrderPush
  <2>7. CASE Relay
    BY <2>2, <2>7, OrderIngest, OrderViewer DEF Relay
  <2> QED
    BY <2>3, <2>4, <2>5, <2>6, <2>7 DEF Next
<1>3. TypeOK /\ OrderInv => NewestFirst
  <2> SUFFICES ASSUME TypeOK, ViewerInv, NEW v \in Viewer, viewer[v].pc = "write"
               PROVE  viewer[v].data > shown[v]
    BY DEF OrderInv, NewestFirst
  <2>1. shown[v] \in Nat /\ viewer[v].data \in Nat
    BY MaxFramesAssumption, Views DEF TypeOK, RelayTypeOK, Frame, NoFrame
  <2> QED
    BY <2>1 DEF ViewerInv
<1> QED
  BY <1>1, <1>2, <1>3, DoorbellTypeOK, PTL DEF Spec
=============================================================================
