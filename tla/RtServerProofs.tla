---------------------------- MODULE RtServerProofs ----------------------------
(***************************************************************************)
(* Theorems about RtServer, for any setpoints, any starting poses, any box *)
(* and any step: its types, that the real-time task never acts on a torn   *)
(* setpoint, and that nothing is streamed once the robot has been stopped. *)
(***************************************************************************)
EXTENDS RtServer, TLAPS

\* TypeOK in three parts, for the provers.
Flags ==
  /\ gstop \in BOOLEAN /\ fresh \in BOOLEAN /\ stale \in BOOLEAN
  /\ ticking \in BOOLEAN /\ halted \in BOOLEAN

Places ==
  /\ owner \in {"none", "net", "rt"}
  /\ net \in Nets /\ rt \in Tasks /\ main \in Mains

Numbers ==
  /\ buf \in [{1, 2} -> SetPoint] /\ front \in {1, 2} /\ slot \in {1, 2}
  /\ sending \in SetPoint /\ sp \in SetPoint /\ current \in SetPoint /\ out \in SetPoint
  /\ last \in Int /\ home \in Int

LEMMA TypeParts == TypeOK <=> Flags /\ Places /\ Numbers
  BY DEF TypeOK, Flags, Places, Numbers

\* A setpoint is its pose and its wrench.
LEMMA Made ==
  ASSUME NEW s \in SetPoint
  PROVE  /\ s.pose \in Int /\ s.ff \in Int
         /\ s = [pose |-> s.pose, ff |-> s.ff]
  BY DEF SetPoint

LEMMA AtMakes == ASSUME NEW x \in Int PROVE At(x) \in SetPoint
  BY DEF At, SetPoint

LEMMA ClampsToInt ==
  ASSUME NEW x \in Int, NEW prev \in Int
  PROVE  ClampInto(x, prev) \in Int
  BY RtAssumption DEF ClampInto, Toward, Clip

-----------------------------------------------------------------------------
(* Type correctness *)

LEMMA InitTyped == Init => TypeOK
<1> SUFFICES ASSUME Init PROVE TypeOK
  OBVIOUS
<1>1. Flags
  BY DEF Init, Flags
<1>2. Places
  BY DEF Init, Places, Nets, Tasks, Mains
<1>3. Numbers
  <2>1. home \in Int /\ Default \in Int
    BY RtAssumption DEF Init
  <2>2. At(Default) \in SetPoint /\ At(home) \in SetPoint
    BY <2>1, AtMakes
  <2> QED
    BY <2>1, <2>2 DEF Init, Numbers
<1> QED
  BY <1>1, <1>2, <1>3, TypeParts

LEMMA StepFlags == TypeOK /\ [Next]_vars => Flags'
<1> SUFFICES ASSUME TypeOK, [Next]_vars PROVE Flags'
  OBVIOUS
<1> USE DEF Flags, mailVars, netVars, taskVars, mainVars, Quiet, Calm
<1>0. Flags
  BY DEF TypeOK
<1>1. CASE Main
  BY <1>0, <1>1 DEF Main, Seed, Spawn, FirstRead, StartTask, StopTask, StopRobot, JoinNet
<1>2. CASE Client
  BY <1>0, <1>2 DEF Client, Connect, HangUp, StopRequest, NextLine, SetTarget
<1>3. CASE Publish
  BY <1>0, <1>3 DEF Publish, PubLock, PubPose, PubForce, PubFlip, PubStamp, PubUnlock, NextLine
<1>4. CASE Task
  BY <1>0, <1>4, Zenon DEF Task, Try, CopyPose, CopyForce, Age, Stream
<1>5. CASE Signal \/ Pass
  BY <1>0, <1>5 DEF Signal, Pass
<1>6. CASE UNCHANGED vars
  BY <1>0, <1>6 DEF vars
<1> QED
  BY <1>1, <1>2, <1>3, <1>4, <1>5, <1>6 DEF Next

LEMMA StepPlaces == TypeOK /\ [Next]_vars => Places'
<1> SUFFICES ASSUME TypeOK, [Next]_vars PROVE Places'
  OBVIOUS
<1> USE DEF Places, mailVars, netVars, taskVars, mainVars, Quiet, Calm, Nets, Tasks, Mains
<1>0. Places
  BY DEF TypeOK
<1>1. CASE Main
  BY <1>0, <1>1 DEF Main, Seed, Spawn, FirstRead, StartTask, StopTask, StopRobot, JoinNet
<1>2. CASE Client
  BY <1>0, <1>2 DEF Client, Connect, HangUp, StopRequest, NextLine, SetTarget
<1>3. CASE Publish
  BY <1>0, <1>3 DEF Publish, PubLock, PubPose, PubForce, PubFlip, PubStamp, PubUnlock, NextLine
<1>4. CASE Task
  BY <1>0, <1>4 DEF Task, Try, CopyPose, CopyForce, Age, Stream
<1>5. CASE Signal \/ Pass
  BY <1>0, <1>5 DEF Signal, Pass
<1>6. CASE UNCHANGED vars
  BY <1>0, <1>6 DEF vars
<1> QED
  BY <1>1, <1>2, <1>3, <1>4, <1>5, <1>6 DEF Next

LEMMA StepNumbers == TypeOK /\ [Next]_vars => Numbers'
<1> SUFFICES ASSUME TypeOK, [Next]_vars PROVE Numbers'
  OBVIOUS
<1> USE DEF mailVars, netVars, taskVars, mainVars, Quiet, Calm
<1>0. Numbers
  BY DEF TypeOK, Numbers
<1>a. Back \in {1, 2} /\ Default \in Int /\ Setpoints \subseteq SetPoint
  BY <1>0, RtAssumption DEF Back, Numbers
<1>b. At(home) \in SetPoint /\ At(Default) \in SetPoint
  BY <1>0, <1>a, AtMakes DEF Numbers
<1>1. CASE Main
  <2>1. CASE Seed
    BY <1>0, <1>a, <1>b, <2>1 DEF Seed, Numbers
  <2>2. CASE FirstRead
    <3>1. current' \in SetPoint
      BY <1>0, <2>2 DEF FirstRead, Numbers
    <3>2. current'.pose \in Int
      BY <3>1, Made
    <3> QED
      BY <1>0, <2>2, <3>1, <3>2 DEF FirstRead, Numbers
  <2>3. CASE Spawn \/ StartTask \/ StopTask \/ StopRobot \/ JoinNet
    BY <1>0, <2>3 DEF Spawn, StartTask, StopTask, StopRobot, JoinNet, Numbers
  <2> QED
    BY <1>1, <2>1, <2>2, <2>3 DEF Main
<1>2. CASE Client
  BY <1>0, <1>2, <1>a DEF Client, Connect, HangUp, StopRequest, NextLine, SetTarget, Numbers
<1>3. CASE Publish
  <2>1. CASE PubPose
    <3>1. [pose |-> sending.pose, ff |-> buf[Back].ff] \in SetPoint
      BY <1>0, <1>a DEF Numbers, SetPoint
    <3> QED
      BY <1>0, <1>a, <2>1, <3>1 DEF PubPose, Numbers
  <2>2. CASE PubForce
    <3>1. [pose |-> buf[Back].pose, ff |-> sending.ff] \in SetPoint
      BY <1>0, <1>a DEF Numbers, SetPoint
    <3> QED
      BY <1>0, <1>a, <2>2, <3>1 DEF PubForce, Numbers
  <2>3. CASE PubLock \/ PubFlip \/ PubStamp \/ PubUnlock
    BY <1>0, <1>a, <1>b, <2>3 DEF PubLock, PubFlip, PubStamp, PubUnlock, NextLine, Numbers
  <2> QED
    BY <1>3, <2>1, <2>2, <2>3 DEF Publish
<1>4. CASE Task
  <2>1. CASE Try \/ Age
    BY <1>0, <2>1 DEF Try, Age, Numbers
  <2>2. CASE CopyPose
    <3>1. [pose |-> buf[slot].pose, ff |-> sp.ff] \in SetPoint
      BY <1>0 DEF Numbers, SetPoint
    <3> QED
      BY <1>0, <2>2, <3>1 DEF CopyPose, Numbers
  <2>3. CASE CopyForce
    <3>1. [pose |-> sp.pose, ff |-> buf[slot].ff] \in SetPoint
      BY <1>0 DEF Numbers, SetPoint
    <3> QED
      BY <1>0, <2>3, <3>1 DEF CopyForce, Numbers
  <2>4. CASE Stream
    <3>1. current.pose \in Int /\ current.ff \in Int /\ last \in Int
      BY <1>0, Made DEF Numbers
    <3>2. (IF stale THEN last ELSE current.pose) \in Int
      BY <3>1
    <3>3. last' \in Int
      BY <2>4, <3>1, <3>2, ClampsToInt DEF Stream
    <3>4. (IF stale THEN 0 ELSE current.ff) \in Int
      BY <3>1
    <3>5. out' \in SetPoint
      BY <2>4, <3>3, <3>4 DEF Stream, SetPoint
    <3> QED
      BY <1>0, <2>4, <3>3, <3>5 DEF Stream, Numbers
  <2> QED
    BY <1>4, <2>1, <2>2, <2>3, <2>4 DEF Task
<1>5. CASE Signal \/ Pass
  BY <1>0, <1>5 DEF Signal, Pass, Numbers
<1>6. CASE UNCHANGED vars
  BY <1>0, <1>6 DEF vars, Numbers
<1> QED
  BY <1>1, <1>2, <1>3, <1>4, <1>5, <1>6 DEF Next

LEMMA StepTyped == TypeOK /\ [Next]_vars => TypeOK'
<1> SUFFICES ASSUME TypeOK, [Next]_vars PROVE TypeOK'
  OBVIOUS
<1>1. Flags' /\ Places' /\ Numbers'
  BY StepFlags, StepPlaces, StepNumbers
<1> QED
  BY <1>1 DEF TypeOK, Flags, Places, Numbers

\* Type correctness of the daemon: every variable keeps its type (rt_server.cpp).
THEOREM RtTypeCorrect == Spec => []TypeOK
  BY InitTyped, StepTyped, PTL DEF Spec

-----------------------------------------------------------------------------
(* The start and the end of the daemon, and its lock *)

\* The task is in a cycle only while main waits for a stop, and the network
\* thread exists only after the mailbox has been seeded.
Stages ==
  /\ main \in {"seed", "spawn"} => net = "off"
  /\ ticking \/ rt # "top" => main = "wait"
  /\ halted => main \in {"join", "exit"}

\* Who is in the mailbox's critical section, and what the task reads there.
Locked ==
  /\ net \in {"pose", "ff", "flip", "stamp", "unlock"} => owner = "net"
  /\ rt \in {"pose", "ff"} => owner = "rt" /\ slot = front

LEMMA StepStages == TypeOK /\ Stages /\ [Next]_vars => Stages'
<1> SUFFICES ASSUME TypeOK, Stages, [Next]_vars PROVE Stages'
  OBVIOUS
<1> USE DEF Stages, mailVars, netVars, taskVars, mainVars, Quiet, Calm
<1>1. CASE Main
  BY <1>1 DEF Main, Seed, Spawn, FirstRead, StartTask, StopTask, StopRobot, JoinNet
<1>2. CASE Client
  BY <1>2 DEF Client, Connect, HangUp, StopRequest, NextLine, SetTarget
<1>3. CASE Publish
  BY <1>3 DEF Publish, PubLock, PubPose, PubForce, PubFlip, PubStamp, PubUnlock, NextLine
<1>4. CASE Task
  BY <1>4 DEF Task, Try, CopyPose, CopyForce, Age, Stream
<1>5. CASE Signal \/ Pass
  BY <1>5 DEF Signal, Pass
<1>6. CASE UNCHANGED vars
  BY <1>6 DEF vars
<1> QED
  BY <1>1, <1>2, <1>3, <1>4, <1>5, <1>6 DEF Next

LEMMA StepLocked == TypeOK /\ Stages /\ Locked /\ [Next]_vars => Locked'
<1> SUFFICES ASSUME TypeOK, Stages, Locked, [Next]_vars PROVE Locked'
  OBVIOUS
<1> USE DEF Locked, mailVars, netVars, taskVars, mainVars, Quiet, Calm
<1>1. CASE Main
  <2>1. CASE Seed
    BY <2>1 DEF Seed, Stages
  <2>2. CASE ~Seed
    BY <1>1, <2>2 DEF Main, Spawn, FirstRead, StartTask, StopTask, StopRobot, JoinNet
  <2> QED
    BY <2>1, <2>2
<1>2. CASE Client
  BY <1>2 DEF Client, Connect, HangUp, StopRequest, NextLine, SetTarget
<1>3. CASE Publish
  BY <1>3 DEF Publish, PubLock, PubPose, PubForce, PubFlip, PubStamp, PubUnlock, NextLine
<1>4. CASE Task
  BY <1>4 DEF Task, Try, CopyPose, CopyForce, Age, Stream
<1>5. CASE Signal \/ Pass
  BY <1>5 DEF Signal, Pass
<1>6. CASE UNCHANGED vars
  BY <1>6 DEF vars
<1> QED
  BY <1>1, <1>2, <1>3, <1>4, <1>5, <1>6 DEF Next

-----------------------------------------------------------------------------
(* Whole setpoints *)

\* What is being published is whole as far as it has been written, and what is
\* being copied as far as it has been read.
Sound ==
  /\ buf[front] \in Whole /\ current \in Whole
  /\ net \in {"lock", "pose", "ff", "flip"} => sending \in Setpoints
  /\ net = "ff" => buf[Back].pose = sending.pose
  /\ net = "flip" => buf[Back] = sending
  /\ rt = "ff" => sp.pose = buf[front].pose

IInv == TypeOK /\ Stages /\ Locked /\ Sound

LEMMA InitSound == Init => IInv
<1> SUFFICES ASSUME Init PROVE IInv
  OBVIOUS
<1>1. Stages /\ Locked
  BY DEF Init, Stages, Locked
<1>2. Sound
  BY DEF Init, Sound, Whole
<1> QED
  BY <1>1, <1>2, InitTyped DEF IInv

LEMMA StepSound == IInv /\ [Next]_vars => Sound'
<1> SUFFICES ASSUME IInv, [Next]_vars PROVE Sound'
  OBVIOUS
<1> USE DEF mailVars, netVars, taskVars, mainVars, Quiet, Calm
<1>0. Numbers /\ Stages /\ Locked /\ Sound
  BY TypeParts DEF IInv
<1>a. /\ Back \in {1, 2} /\ Back # front /\ front \in {1, 2} /\ 3 - Back = front
      /\ buf \in [{1, 2} -> SetPoint] /\ sending \in SetPoint /\ sp \in SetPoint
  BY <1>0 DEF Back, Numbers
<1>1. CASE Main
  <2>1. CASE Seed
    <3>1. net = "off" /\ rt = "top"
      BY <1>0, <2>1 DEF Seed, Stages
    <3>2. buf'[front'] = At(home) /\ home' = home
      BY <1>a, <2>1 DEF Seed
    <3> QED
      BY <1>0, <2>1, <3>1, <3>2 DEF Seed, Sound, Whole
  <2>2. CASE FirstRead
    <3>1. current' \in Whole
      BY <1>0, <2>2 DEF FirstRead, Sound
    <3> QED
      BY <1>0, <2>2, <3>1 DEF FirstRead, Sound, Whole, Back
  <2>3. CASE Spawn \/ StartTask \/ StopTask \/ StopRobot \/ JoinNet
    BY <1>0, <2>3 DEF Spawn, StartTask, StopTask, StopRobot, JoinNet, Sound, Whole, Back
  <2> QED
    BY <1>1, <2>1, <2>2, <2>3 DEF Main
<1>2. CASE Client
  BY <1>0, <1>2 DEF Client, Connect, HangUp, StopRequest, NextLine, SetTarget, Sound, Whole, Back
<1>3. CASE Publish
  <2>1. CASE PubPose
    <3>1. buf'[front] = buf[front] /\ Back' = Back /\ front' = front
      BY <1>a, <2>1 DEF PubPose, Back
    <3>2. buf'[Back].pose = sending.pose
      BY <1>a, <2>1 DEF PubPose
    <3> QED
      BY <1>0, <2>1, <3>1, <3>2 DEF PubPose, Sound, Whole
  <2>2. CASE PubForce
    <3>1. buf'[front] = buf[front] /\ Back' = Back /\ front' = front
      BY <1>a, <2>2 DEF PubForce, Back
    <3>2. buf'[Back] = [pose |-> sending.pose, ff |-> sending.ff]
      BY <1>0, <1>a, <2>2 DEF PubForce, Sound
    <3>3. buf'[Back] = sending
      BY <1>a, <3>2, Made
    <3> QED
      BY <1>0, <2>2, <3>1, <3>3 DEF PubForce, Sound, Whole
  <2>3. CASE PubFlip
    <3>1. front' = Back /\ buf' = buf /\ buf[Back] \in Whole
      BY <1>0, <2>3 DEF PubFlip, Sound, Whole
    <3>2. rt # "ff"
      BY <1>0, <2>3 DEF PubFlip, Locked
    <3> QED
      BY <1>0, <2>3, <3>1, <3>2 DEF PubFlip, Sound, Whole
  <2>4. CASE PubLock \/ PubStamp \/ PubUnlock
    BY <1>0, <2>4 DEF PubLock, PubStamp, PubUnlock, NextLine, Sound, Whole, Back
  <2> QED
    BY <1>3, <2>1, <2>2, <2>3, <2>4 DEF Publish
<1>4. CASE Task
  <2>1. CASE CopyPose
    <3>1. sp'.pose = buf[front].pose
      BY <1>0, <2>1 DEF CopyPose, Locked
    <3> QED
      BY <1>0, <2>1, <3>1 DEF CopyPose, Sound, Whole, Back
  <2>2. CASE CopyForce
    <3>1. current' = [pose |-> buf[front].pose, ff |-> buf[front].ff]
      BY <1>0, <2>2 DEF CopyForce, Locked, Sound
    <3>2. current' = buf[front]
      BY <1>a, <3>1, Made
    <3> QED
      BY <1>0, <2>2, <3>2 DEF CopyForce, Sound, Whole, Back
  <2>3. CASE Try \/ Age \/ Stream
    BY <1>0, <2>3 DEF Try, Age, Stream, Sound, Whole, Back
  <2> QED
    BY <1>4, <2>1, <2>2, <2>3 DEF Task
<1>5. CASE Signal \/ Pass
  BY <1>0, <1>5 DEF Signal, Pass, Sound, Whole, Back
<1>6. CASE UNCHANGED vars
  BY <1>0, <1>6 DEF vars, Sound, Whole, Back
<1> QED
  BY <1>1, <1>2, <1>3, <1>4, <1>5, <1>6 DEF Next

LEMMA StepIInv == IInv /\ [Next]_vars => IInv'
<1> SUFFICES ASSUME IInv, [Next]_vars PROVE IInv'
  OBVIOUS
<1>1. TypeOK' /\ Stages' /\ Locked'
  BY StepTyped, StepStages, StepLocked DEF IInv
<1>2. Sound'
  BY StepSound
<1> QED
  BY <1>1, <1>2 DEF IInv

\* The real-time task only ever acts on a setpoint as it was sent, whatever the
\* client sends and however its writes interleave with the task's reads
\* (rt_server.cpp:90-109).
THEOREM SetpointsAreWhole == Spec => []WholeSetpoint
<1>1. IInv => WholeSetpoint
  BY DEF IInv, Sound, WholeSetpoint
<1> QED
  BY <1>1, InitSound, StepIInv, PTL DEF Spec

\* Once main has stopped the robot, the task streams nothing more to it
\* (rt_server.cpp:419-424).
THEOREM StoppedIsSilent == Spec => SilentAfterStop
<1>1. IInv /\ [Next]_vars => [Streams => ~halted]_vars
  BY DEF IInv, Stages, Streams
<1> QED
  BY <1>1, InitSound, StepIInv, PTL DEF Spec, SilentAfterStop
===============================================================================
