------------------------------ MODULE RtServer ------------------------------
(***************************************************************************)
(* cpp/src/rt_server.cpp: the daemon that streams setpoints at 1 kHz.  The *)
(* network thread publishes a client's setpoint into a double buffer, the  *)
(* scheduler's real-time task takes it from there without ever waiting for *)
(* it, and main starts and ends both.                                      *)
(*                                                                         *)
(* A pose is one number, and so is the feed-forward wrench; the clock is   *)
(* whether the mailbox's stamp is older than the watchdog's 100 ms.        *)
(***************************************************************************)
EXTENDS FilterOps

CONSTANTS Setpoints,  \* what a client may send: [pose, ff]
          Homes,      \* where the arm may be when the daemon starts
          Default,    \* the pose SetPoint is born with
          Lo, Hi,     \* SafetyBox
          Step        \* max_lin_speed * dt

SetPoint == [pose : Int, ff : Int]
At(x) == [pose |-> x, ff |-> 0]

ASSUME RtAssumption ==
  /\ Setpoints \subseteq SetPoint /\ Homes \subseteq Int
  /\ Default \in Int /\ Lo \in Int /\ Hi \in Int /\ Lo <= Hi /\ Step \in Nat

VARIABLES
  gstop,                 \* g_stop
  buf, front, owner,     \* SetPointMailbox: buf_, front_, who holds mtx_
  fresh,                 \* AgeMs() <= 100
  net, sending,          \* the network thread: where it is, and its setpoint
  rt, slot, sp,          \* the task: where it is, the buffer it copies, its copy
  stale, current, last,  \* its locals: stale, current, last_cmd
  out,                   \* what the robot was last streamed
  main, ticking, halted, \* main; the scheduler runs; robot.Stop() was called
  home                   \* where the arm was at the start

mailVars == <<buf, front, owner, fresh>>
netVars  == <<net, sending>>
taskVars == <<rt, slot, sp, stale, current, last, out>>
mainVars == <<main, ticking, halted, home>>
vars == <<gstop, mailVars, netVars, taskVars, mainVars>>

Init ==
  /\ home \in Homes /\ gstop = FALSE
  /\ buf = <<At(Default), At(Default)>> /\ front = 1 /\ owner = "none" /\ fresh = FALSE
  /\ net = "off" /\ sending = At(Default)
  /\ rt = "top" /\ slot = 1 /\ sp = At(Default) /\ stale = FALSE
  /\ current = At(Default) /\ last = Default /\ out = At(home)
  /\ main = "seed" /\ ticking = FALSE /\ halted = FALSE

Back == 3 - front

-----------------------------------------------------------------------------
(* main *)

\* The mailbox is given the pose of the arm, before there is another thread.
Seed ==
  /\ main = "seed"
  /\ buf' = [buf EXCEPT ![Back] = At(home)] /\ front' = Back /\ fresh' = TRUE
  /\ main' = "spawn"
  /\ UNCHANGED <<gstop, owner, netVars, taskVars, ticking, halted, home>>

\* The network thread starts; its bind may fail, which ends the daemon.
Spawn ==
  /\ main = "spawn" /\ main' = "read"
  /\ \/ net' = "accept" /\ UNCHANGED gstop
     \/ net' = "done" /\ gstop' = TRUE
  /\ UNCHANGED <<mailVars, sending, taskVars, ticking, halted, home>>

\* The task's locals are set, from the mailbox if its lock is free.
FirstRead ==
  /\ main = "read" /\ main' = "start"
  /\ current' = (IF owner = "none" THEN buf[front] ELSE current)
  /\ last' = current'.pose
  /\ UNCHANGED <<gstop, mailVars, netVars, rt, slot, sp, stale, out, ticking, halted, home>>

StartTask ==
  /\ main = "start" /\ main' = "wait" /\ ticking' = TRUE
  /\ UNCHANGED <<gstop, mailVars, netVars, taskVars, halted, home>>

\* Faulty: the robot is stopped while the task may still be in its cycle.
StopTask_Early ==
  /\ main = "wait" /\ gstop
  /\ main' = "halt" /\ ticking' = FALSE
  /\ UNCHANGED <<gstop, mailVars, netVars, taskVars, halted, home>>

\* scheduler.Stop() lets the task's cycle end.
StopTask ==
  /\ main = "wait" /\ gstop /\ rt = "top"
  /\ main' = "halt" /\ ticking' = FALSE
  /\ UNCHANGED <<gstop, mailVars, netVars, taskVars, halted, home>>

\* Faulty: the network thread is joined first.
StopRobot_AfterJoin ==
  /\ main = "halt" /\ net = "done" /\ main' = "join" /\ halted' = TRUE
  /\ UNCHANGED <<gstop, mailVars, netVars, taskVars, ticking, home>>

StopRobot ==
  /\ main = "halt" /\ main' = "join" /\ halted' = TRUE
  /\ UNCHANGED <<gstop, mailVars, netVars, taskVars, ticking, home>>

JoinNet ==
  /\ main = "join" /\ net = "done" /\ main' = "exit"
  /\ UNCHANGED <<gstop, mailVars, netVars, taskVars, ticking, halted, home>>

Main == Seed \/ Spawn \/ FirstRead \/ StartTask \/ StopTask \/ StopRobot \/ JoinNet

-----------------------------------------------------------------------------
(* The network thread.  accept and recv block: only a client moves them on.   *)

Quiet == UNCHANGED <<taskVars, mainVars>>

\* A client connects, or hangs up; the flag is looked at before each wait.
Connect ==
  /\ net = "accept" /\ net' = IF gstop THEN "done" ELSE "recv"
  /\ UNCHANGED <<gstop, mailVars, sending>> /\ Quiet

HangUp ==
  /\ net = "recv" /\ net' = IF gstop THEN "done" ELSE "accept"
  /\ UNCHANGED <<gstop, mailVars, sending>> /\ Quiet

\* set_cartesian_target; servo_cartesian_pose sends one without a wrench.
SetTarget(s) ==
  /\ net = "recv" /\ net' = "lock" /\ sending' = s
  /\ UNCHANGED <<gstop, mailVars>> /\ Quiet

\* Requests that came in one piece are served to the last before the flag is
\* looked at again.
NextLine == net' \in {"recv", "done"}

\* stop: the answer goes out, and both loops end.
StopRequest ==
  /\ net = "recv" /\ gstop' = TRUE /\ NextLine
  /\ UNCHANGED <<mailVars, sending>> /\ Quiet

\* Publish: lock, write the back buffer, flip, stamp, unlock.
PubLock ==
  /\ net = "lock" /\ owner = "none" /\ owner' = "net" /\ net' = "pose"
  /\ UNCHANGED <<gstop, buf, front, fresh, sending>> /\ Quiet

PubPose ==
  /\ net = "pose" /\ net' = "ff"
  /\ buf' = [buf EXCEPT ![Back] = [pose |-> sending.pose, ff |-> buf[Back].ff]]
  /\ UNCHANGED <<gstop, front, owner, fresh, sending>> /\ Quiet

PubForce ==
  /\ net = "ff" /\ net' = "flip"
  /\ buf' = [buf EXCEPT ![Back] = [pose |-> buf[Back].pose, ff |-> sending.ff]]
  /\ UNCHANGED <<gstop, front, owner, fresh, sending>> /\ Quiet

\* Faulty: an index that is not one of the two.
PubFlip_OffByOne ==
  /\ net = "flip" /\ net' = "stamp" /\ front' = 2 - front
  /\ UNCHANGED <<gstop, buf, owner, fresh, sending>> /\ Quiet

PubFlip ==
  /\ net = "flip" /\ net' = "stamp" /\ front' = Back
  /\ UNCHANGED <<gstop, buf, owner, fresh, sending>> /\ Quiet

PubStamp ==
  /\ net = "stamp" /\ net' = "unlock" /\ fresh' = TRUE
  /\ UNCHANGED <<gstop, buf, front, owner, sending>> /\ Quiet

\* The answer is sent, and the flag looked at again.  (The setpoint was the
\* handler's own, and is forgotten.)
PubUnlock ==
  /\ net = "unlock" /\ owner' = "none" /\ sending' = At(Default)
  /\ IF gstop THEN NextLine ELSE net' = "recv"
  /\ UNCHANGED <<gstop, buf, front, fresh>> /\ Quiet

Publish == PubLock \/ PubPose \/ PubForce \/ PubFlip \/ PubStamp \/ PubUnlock
Client  == Connect \/ HangUp \/ StopRequest \/ \E s \in Setpoints : SetTarget(s)

-----------------------------------------------------------------------------
(* The real-time task, one cycle a tick; it never waits *)

Calm == UNCHANGED <<gstop, buf, front, fresh, netVars, mainVars>>

\* Faulty: the front buffer is read without the lock.
Try_Unlocked ==
  /\ rt = "top" /\ ticking /\ ~gstop
  /\ rt' = "pose" /\ slot' = front
  /\ UNCHANGED <<owner, sp, stale, current, last, out>> /\ Calm

\* try_lock
Try ==
  /\ rt = "top" /\ ticking /\ ~gstop
  /\ IF owner = "none" THEN owner' = "rt" /\ rt' = "pose" /\ slot' = front
                       ELSE rt' = "age" /\ UNCHANGED <<owner, slot>>
  /\ UNCHANGED <<sp, stale, current, last, out>> /\ Calm

CopyPose ==
  /\ rt = "pose" /\ rt' = "ff"
  /\ sp' = [pose |-> buf[slot].pose, ff |-> sp.ff]
  /\ UNCHANGED <<owner, slot, stale, current, last, out>> /\ Calm

CopyForce ==
  /\ rt = "ff" /\ rt' = "age"
  /\ sp' = [pose |-> sp.pose, ff |-> buf[slot].ff] /\ current' = sp'
  /\ owner' = (IF owner = "rt" THEN "none" ELSE owner) /\ slot' = 1
  /\ UNCHANGED <<stale, last, out>> /\ Calm

\* The watchdog.
Age ==
  /\ rt = "age" /\ rt' = "stream" /\ stale' = ~fresh
  /\ UNCHANGED <<owner, slot, sp, current, last, out>> /\ Calm

\* ClampInto: the box, then the step from the last command.
ClampInto(x, prev) == Toward(prev, Clip(x, Lo, Hi), Step)

\* Faulty: the wrench of a stale setpoint goes on being applied.
Stream_KeepsForce ==
  /\ rt = "stream" /\ rt' = "top"
  /\ last' = ClampInto(IF stale THEN last ELSE current.pose, last)
  /\ out' = [pose |-> last', ff |-> current.ff]
  /\ stale' = FALSE
  /\ UNCHANGED <<owner, slot, sp, current>> /\ Calm

Stream ==
  /\ rt = "stream" /\ rt' = "top"
  /\ last' = ClampInto(IF stale THEN last ELSE current.pose, last)
  /\ out' = [pose |-> last', ff |-> IF stale THEN 0 ELSE current.ff]
  /\ stale' = FALSE
  /\ UNCHANGED <<owner, slot, sp, current>> /\ Calm

Task == Try \/ CopyPose \/ CopyForce \/ Age \/ Stream

-----------------------------------------------------------------------------
(* The environment *)

\* SIGINT, SIGTERM.
Signal ==
  /\ gstop' = TRUE
  /\ UNCHANGED <<mailVars, netVars, taskVars, mainVars>>

\* A hundred milliseconds pass without a publication.
Pass ==
  /\ fresh' = FALSE
  /\ UNCHANGED <<gstop, buf, front, owner, netVars, taskVars, mainVars>>

Next == Main \/ Client \/ Publish \/ Task \/ Signal \/ Pass

Spec == Init /\ [][Next]_vars

\* The threads run, and time passes; nobody has to connect, to send or to leave.
Fairness == WF_vars(Main) /\ WF_vars(Publish) /\ WF_vars(Task) /\ WF_vars(Pass)
FairSpec == Spec /\ Fairness

-----------------------------------------------------------------------------
(* Properties *)

Mains == {"seed", "spawn", "read", "start", "wait", "halt", "join", "exit"}
Nets  == {"off", "accept", "recv", "lock", "pose", "ff", "flip", "stamp", "unlock", "done"}
Tasks == {"top", "pose", "ff", "age", "stream"}

TypeOK ==
  /\ gstop \in BOOLEAN /\ fresh \in BOOLEAN /\ stale \in BOOLEAN
  /\ ticking \in BOOLEAN /\ halted \in BOOLEAN
  /\ buf \in [{1, 2} -> SetPoint] /\ front \in {1, 2} /\ slot \in {1, 2}
  /\ owner \in {"none", "net", "rt"}
  /\ net \in Nets /\ rt \in Tasks /\ main \in Mains
  /\ sending \in SetPoint /\ sp \in SetPoint /\ current \in SetPoint /\ out \in SetPoint
  /\ last \in Int /\ home \in Int

\* What somebody has written as a whole: a client, main, or nobody.
Whole == Setpoints \cup {At(home), At(Default)}

\* The task acts on a setpoint as it was sent, never on the pose of one and the
\* wrench of another (rt_server.cpp:90-109).
WholeSetpoint == current \in Whole

Streams == rt = "stream" /\ rt' = "top"

\* Once main has stopped the robot, nothing is streamed to it any more
\* (rt_server.cpp:419-424).
SilentAfterStop == [][Streams => ~halted]_vars

\* "falls back to holding the last setpoint if commands go stale" (rt_server.cpp:26-27):
\* when publications end, the command ends up standing still, without a wrench.
HoldWhenStale ==
  <>[]ticking /\ <>[][~fresh']_vars => <>[](out.ff = 0) /\ <>[][out' = out]_vars

\* A stop, by signal, by request or by a port in use, reaches the robot, whether or
\* not a client is connected (rt_server.cpp:254-257, 419-423).
StopReachesRobot == gstop ~> halted

-----------------------------------------------------------------------------
(* What is documented and does not hold; no run checks it (README, section 3).  *)

\* "Seed the mailbox with the current pose so the first RT ticks hold still rather
\* than jumping" (rt_server.cpp:367-368).
StartsFromArm == [][Streams => out'.pose - out.pose \in -Step .. Step]_vars
==============================================================================
