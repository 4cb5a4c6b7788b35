---------------------------- MODULE ChunkExecutor ----------------------------
(***************************************************************************)
(* Robot.execute_cartesian_chunk and execute_joint_chunk of robot.py: one  *)
(* thread walks the waypoints of a chunk at the control rate, behind the   *)
(* stop flag, the robot's fault, the contact guard and the safety filter,  *)
(* defers the gripper's closes until the arm has settled, and lends the    *)
(* robot's own contact guard an allowance for as long as the chunk runs.   *)
(* Other threads stop it.                                                  *)
(*                                                                         *)
(* A contact wrench is one number; what the filter says of a setpoint, how *)
(* far the arm lags behind its command and the gripper's width are read    *)
(* anew every tick, and may be anything.                                   *)
(***************************************************************************)
EXTENDS Integers, Sequences

CONSTANTS Chunks,    \* the chunks a caller may hand over
          Profiles,  \* the safety profiles
          Contacts,  \* the contact wrenches the sensor may read
          Window,    \* GRIP_GATE_SETTLE_S, in ticks
          None

Grips == {"open", "close", "grasp"}

\* A waypoint: its distance from the one before, n_frames, and its gripper.
Waypoint == [dist : Nat, frames : Nat, grip : Grips \cup {None}]

ChunkSpec == [kind    : {"cartesian", "joint"},
              ways    : Seq(Waypoint),
              execute : Nat \cup {None},    \* n_execute
              speed   : Nat \cup {None},    \* max_tcp_linear_speed
              allow   : Nat,                \* contact_wrench_allowance
              guard   : Nat \cup {None},    \* max_contact_wrench
              gated   : BOOLEAN]            \* grip_tracking_gate_m is set

Profile == [speed : Nat \ {0}, guard : Nat, allow : Nat]

ASSUME ChunkAssumption ==
  /\ Chunks \subseteq ChunkSpec /\ Profiles \subseteq Profile
  /\ \A c \in Chunks : c.ways # <<>> /\ c.speed # 0
  /\ Contacts \subseteq Nat /\ Window \in Nat
  /\ None \notin Nat \cup Grips \cup [seg : Nat, at : Nat]

VARIABLES
  mode, guard,              \* the backend: its mode, and the robot's contact guard
  profile, cancel,          \* Robot: profile, _cancel
  pc, chunk, cap,           \* the thread, its chunk, and the guard it checks with
  seg, k, ticks,            \* the interpolator's segment, the tick in it, their count
  tick,                     \* tick_idx
  pending, closeIssued, closeAborted, clipped,  \* pending_close, and the flags
  read,                     \* what this tick read and filtered
  outcome,                  \* stop_reason, or that the call raised
  sent,                     \* history: the segments whose command reached the gripper
  lent,                     \* history: the guard was not given back, or not armed
  halted                    \* history: stop() came, and no chunk has taken it yet

gripVars == <<pending, closeIssued, closeAborted, clipped, sent>>
walkVars == <<chunk, cap, seg, k, ticks, tick>>
vars == <<mode, guard, profile, cancel, pc, walkVars, gripVars, read, outcome, lent, halted>>

Least(x, y) == IF x < y THEN x ELSE y
Greatest(x, y) == IF x < y THEN y ELSE x

\* ceil(pi/2 * dist / speed), with 11/7 for pi/2: the cosine ease peaks at pi/2
\* times its average speed.
PacedTicks(dist, speed) == (11 * dist + 7 * speed - 1) \div (7 * speed)

\* The speed a chunk runs at: it may slow itself below the profile's cap.
SpeedCap(c) == IF c.kind = "joint" \/ c.speed = None THEN profile.speed
                                                     ELSE Least(profile.speed, c.speed)

SegmentTicks(c, i) == Greatest(1, Greatest(c.ways[i].frames, PacedTicks(c.ways[i].dist, SpeedCap(c))))

\* horizon_exec: for_execution keeps these waypoints.  Anchoring a relative chunk
\* at the live pose moves them rigidly and leaves their distances.
Horizon(c) == IF c.execute = None THEN Len(c.ways) ELSE Greatest(1, Least(c.execute, Len(c.ways)))

\* The allowance granted, and the guard the chunk is checked against.
Allowed(c) == IF c.kind = "joint" THEN 0 ELSE Least(c.allow, profile.allow)
GuardFor(c) == LET lentTo == profile.guard + Allowed(c)
               IN  IF c.kind = "joint" \/ c.guard = None THEN lentTo ELSE Least(lentTo, c.guard)

Modes  == {"idle", "cartesian", "joint"}
NoRead == [near |-> TRUE, width |-> "wide"]
Reads  == [near : BOOLEAN, width : {"wide", "narrow", "garbage"}]

Init ==
  /\ mode \in Modes /\ profile \in Profiles
  /\ guard = profile.guard
  /\ cancel = FALSE /\ pc = "idle" /\ chunk \in Chunks /\ cap = 0
  /\ seg = 1 /\ k = 1 /\ ticks = 1 /\ tick = 0
  /\ pending = None /\ closeIssued = FALSE /\ closeAborted = FALSE /\ clipped = FALSE
  /\ read = NoRead /\ outcome = "none" /\ sent = <<>> /\ lent = FALSE /\ halted = FALSE

-----------------------------------------------------------------------------
(* Entry *)

\* A stop is pending: it aborts this chunk, whatever the chunk is.
AbortAtEntry ==
  /\ pc = "idle" /\ cancel
  /\ cancel' = FALSE /\ halted' = FALSE /\ outcome' = "user"
  /\ UNCHANGED <<mode, guard, profile, pc, walkVars, gripVars, read, lent>>

Begin(c) ==
  /\ pc = "idle" /\ ~cancel
  /\ pc' = "start" /\ chunk' = c /\ cap' = GuardFor(c)
  /\ seg' = 1 /\ k' = 1 /\ ticks' = SegmentTicks(c, 1) /\ tick' = 0
  /\ pending' = None /\ closeIssued' = FALSE /\ closeAborted' = FALSE /\ clipped' = FALSE
  /\ sent' = <<>> /\ outcome' = "none" /\ read' = NoRead
  /\ UNCHANGED <<mode, guard, profile, cancel, lent, halted>>

\* set_mode: entering a Cartesian mode arms the robot's contact guard.
Enter(m) ==
  /\ mode' = m
  /\ guard' = (IF m = "cartesian" THEN profile.guard ELSE guard)
  /\ lent' = (lent /\ m # "cartesian")

\* A chunk starts the mode it needs, unless the robot is in it.
Autostart ==
  /\ pc = "start"
  /\ IF mode = chunk.kind THEN UNCHANGED <<mode, guard, lent>> ELSE Enter(chunk.kind)
  /\ pc' = IF Allowed(chunk) > 0 THEN "arm" ELSE "tick"
  /\ UNCHANGED <<profile, cancel, walkVars, gripVars, read, outcome, halted>>

\* Reading the state raises, or set_mode does: the mode may have been switched by
\* then, and the guard not armed.
StartRaises ==
  /\ pc = "start"
  /\ mode' \in {mode, chunk.kind}
  /\ lent' = (lent \/ (mode # "cartesian" /\ mode' = "cartesian"))
  /\ pc' = "idle" /\ outcome' = "raised"
  /\ UNCHANGED <<guard, profile, cancel, walkVars, gripVars, read, halted>>

\* set_contact_wrench_limit does nothing outside the Cartesian modes.
Limit(w) == guard' = IF mode = "cartesian" THEN w ELSE guard

Arm ==
  /\ pc = "arm"
  /\ Limit(cap) /\ pc' = "tick"
  /\ UNCHANGED <<mode, profile, cancel, walkVars, gripVars, read, outcome, lent, halted>>

ArmRaises ==
  /\ pc = "arm"
  /\ pc' = "idle" /\ outcome' = "raised"
  /\ UNCHANGED <<mode, guard, profile, cancel, walkVars, gripVars, read, lent, halted>>

-----------------------------------------------------------------------------
(* A tick: the checks and the reads, then the writes *)

Halt(reason) ==
  /\ mode' = "idle" /\ outcome' = reason /\ pc' = "after"
  /\ UNCHANGED <<guard, profile, walkVars, gripVars, read, lent>>

Cancelled ==
  /\ pc = "tick" /\ cancel
  /\ cancel' = FALSE /\ halted' = FALSE
  /\ Halt("user")

Gated(reason) == pc = "tick" /\ ~cancel /\ Halt(reason) /\ UNCHANGED <<cancel, halted>>

FaultStops   == Gated("backend_fault")
ContactStops == (\E w \in Contacts : w > cap) /\ Gated("contact_wrench")
FilterStops  == Gated("filter")

\* Faulty: the stop flag is looked at between chunks only.
Pass_Deaf ==
  /\ pc = "tick"
  /\ \E w \in Contacts : w <= cap
  /\ read' \in Reads /\ clipped' \in {clipped, TRUE}
  /\ (chunk.kind = "joint" => read' = NoRead)
  /\ tick' = tick + 1 /\ pc' = "write"
  /\ UNCHANGED <<mode, guard, profile, cancel, chunk, cap, seg, k, ticks,
                 pending, closeIssued, closeAborted, sent, outcome, lent, halted>>

\* The setpoint may go out, as it is or clipped.
Pass ==
  /\ pc = "tick" /\ ~cancel
  /\ \E w \in Contacts : w <= cap
  /\ read' \in Reads /\ clipped' \in {clipped, TRUE}
  /\ (chunk.kind = "joint" => read' = NoRead)
  /\ tick' = tick + 1 /\ pc' = "write"
  /\ UNCHANGED <<mode, guard, profile, cancel, chunk, cap, seg, k, ticks,
                 pending, closeIssued, closeAborted, sent, outcome, lent, halted>>

\* What the gripper, and the thread's account of it, have come to.
Books == [pending |-> pending, issued |-> closeIssued, aborted |-> closeAborted, sent |-> sent]

\* _try_fire_close, on the close that is pending.
Fire(b, near) ==
  IF b.aborted \/ clipped \/ ~near
  THEN [b EXCEPT !.pending = None, !.aborted = TRUE]
  ELSE [b EXCEPT !.pending = None, !.issued = TRUE, !.sent = Append(@, b.pending.seg)]

Due(b, near) == IF b.pending # None /\ tick >= b.pending.at THEN Fire(b, near) ELSE b

\* Faulty: the window is not bounded within the segment.
Settle_Unbounded == Window

\* How long a close waits: its settle window, bounded within its segment.
Settle == Least(Window, Greatest(1, ticks \div 2))

Closing(grip) == grip = "grasp" \/ (grip = "close" /\ read.width = "wide")

Command(b, grip) ==
  IF ~Closing(grip) \/ ~chunk.gated \/ (grip = "grasp" /\ b.issued)
  THEN [b EXCEPT !.issued = @ \/ Closing(grip), !.sent = Append(@, seg)]
  ELSE IF b.aborted THEN b
  ELSE [(IF b.pending = None THEN b ELSE Fire(b, read.near))
          EXCEPT !.pending = [seg |-> seg, at |-> tick + Settle]]

\* The gripper's part of a tick: the deferred close that is due, then the command
\* of the segment, on its first tick.
Handled ==
  LET due  == Due(Books, read.near)
      grip == chunk.ways[seg].grip
  IN  IF k = 1 /\ grip # None THEN Command(due, grip) ELSE due

Settled(b) ==
  /\ pending' = b.pending /\ closeIssued' = b.issued
  /\ closeAborted' = b.aborted /\ sent' = b.sent
  /\ UNCHANGED clipped

\* Faulty: one tick too many in a segment.
Advance_OneMore ==
  \/ /\ k <= ticks
     /\ k' = k + 1 /\ pc' = "tick" /\ UNCHANGED <<seg, ticks>>
  \/ /\ k > ticks /\ seg < Horizon(chunk)
     /\ seg' = seg + 1 /\ k' = 1 /\ ticks' = SegmentTicks(chunk, seg + 1) /\ pc' = "tick"
  \/ /\ k > ticks /\ seg = Horizon(chunk)
     /\ pc' = "after" /\ UNCHANGED <<seg, k, ticks>>

\* The interpolator moves on.
Advance ==
  \/ /\ k < ticks
     /\ k' = k + 1 /\ pc' = "tick" /\ UNCHANGED <<seg, ticks>>
  \/ /\ k = ticks /\ seg < Horizon(chunk)
     /\ seg' = seg + 1 /\ k' = 1 /\ ticks' = SegmentTicks(chunk, seg + 1) /\ pc' = "tick"
  \/ /\ k = ticks /\ seg = Horizon(chunk)
     /\ pc' = "after" /\ UNCHANGED <<seg, k, ticks>>

\* The robot takes a setpoint in a mode of its kind only.
Write ==
  /\ pc = "write" /\ mode = chunk.kind
  /\ Settled(IF chunk.kind = "joint" THEN Books ELSE Handled)
  /\ Advance
  /\ UNCHANGED <<mode, guard, profile, cancel, chunk, cap, tick, read, outcome, lent, halted>>

\* A call of the backend raises: what was commanded stays commanded, and a stop
\* whose stop() call raises has been consumed.
Raises ==
  /\ pc \in {"tick", "write", "after"}
  /\ \E b \in {Books, Due(Books, read.near), [Books EXCEPT !.pending = None]} : Settled(b)
  /\ cancel' = (cancel /\ pc # "tick") /\ halted' = (halted /\ pc # "tick")
  /\ pc' = "finally" /\ outcome' = "raised"
  /\ UNCHANGED <<mode, guard, profile, walkVars, read, lent>>

-----------------------------------------------------------------------------
(* The way out *)

\* Faulty: after a stop the pending close is dropped without a word.
Leave_Drops(near) ==
  /\ pc = "after" /\ pc' = "finally"
  /\ Settled(IF pending = None THEN Books
             ELSE IF outcome = "none" THEN Fire(Books, near)
             ELSE [Books EXCEPT !.pending = None])
  /\ UNCHANGED <<mode, guard, profile, cancel, walkVars, read, outcome, lent, halted>>

\* A close still pending is tried on the state at rest; after a stop it is not.
Leave(near) ==
  /\ pc = "after" /\ pc' = "finally"
  /\ Settled(IF pending = None THEN Books
             ELSE IF outcome = "none" THEN Fire(Books, near)
             ELSE [Books EXCEPT !.pending = None, !.aborted = TRUE])
  /\ UNCHANGED <<mode, guard, profile, cancel, walkVars, read, outcome, lent, halted>>

\* Faulty: a call that raises leaves without giving the allowance back.
Restore_NotFinally ==
  /\ pc = "finally" /\ pc' = "idle"
  /\ IF Allowed(chunk) > 0 /\ outcome # "raised"
     THEN Limit(profile.guard) /\ lent' = (lent /\ mode # "cartesian")
     ELSE UNCHANGED <<guard, lent>>
  /\ outcome' \in {outcome, "raised"}
  /\ UNCHANGED <<mode, profile, cancel, walkVars, gripVars, read, halted>>

\* The allowance is given back; then the final state is read, which may raise.
Restore ==
  /\ pc = "finally" /\ pc' = "idle"
  /\ IF Allowed(chunk) > 0
     THEN Limit(profile.guard) /\ lent' = (lent /\ mode # "cartesian")
     ELSE UNCHANGED <<guard, lent>>
  /\ outcome' \in {outcome, "raised"}
  /\ UNCHANGED <<mode, profile, cancel, walkVars, gripVars, read, halted>>

RestoreFails ==
  /\ pc = "finally" /\ Allowed(chunk) > 0 /\ mode = "cartesian"
  /\ pc' = "idle" /\ lent' = TRUE
  /\ UNCHANGED <<mode, guard, profile, cancel, walkVars, gripVars, read, outcome, halted>>

-----------------------------------------------------------------------------
(* Other threads, and the calls between two chunks *)

\* request_stop sets the flag; stop also stops the backend there and then.
RequestStop ==
  /\ cancel' = TRUE
  /\ UNCHANGED <<mode, guard, profile, pc, walkVars, gripVars, read, outcome, lent, halted>>

Stop ==
  /\ cancel' = TRUE /\ mode' = "idle" /\ halted' = TRUE
  /\ UNCHANGED <<guard, profile, pc, walkVars, gripVars, read, outcome, lent>>

StartMode(m) ==
  /\ pc = "idle" /\ Enter(m)
  /\ UNCHANGED <<profile, cancel, pc, walkVars, gripVars, read, outcome, halted>>

SetProfile ==
  /\ pc = "idle" /\ profile' \in Profiles
  /\ UNCHANGED <<mode, guard, cancel, pc, walkVars, gripVars, read, outcome, lent, halted>>

\* The robot falls back to IDLE by itself; read_state notices.
Drop ==
  /\ mode' = "idle"
  /\ UNCHANGED <<guard, profile, cancel, pc, walkVars, gripVars, read, outcome, lent, halted>>

Executor ==
  \/ Autostart \/ StartRaises \/ Arm \/ ArmRaises
  \/ Cancelled \/ FaultStops \/ ContactStops \/ FilterStops \/ Pass
  \/ Write \/ Raises
  \/ \E near \in BOOLEAN : Leave(near)
  \/ Restore \/ RestoreFails

Next ==
  \/ AbortAtEntry \/ \E c \in Chunks : Begin(c)
  \/ Executor
  \/ RequestStop \/ Stop \/ \E m \in {"cartesian", "joint"} : StartMode(m)
  \/ SetProfile \/ Drop

Spec == Init /\ [][Next]_vars

-----------------------------------------------------------------------------
(* Properties *)

TypeOK ==
  /\ mode \in Modes /\ guard \in Nat /\ profile \in Profiles
  /\ cancel \in BOOLEAN /\ lent \in BOOLEAN /\ halted \in BOOLEAN
  /\ pc \in {"idle", "start", "arm", "tick", "write", "after", "finally"}
  /\ chunk \in Chunks /\ cap \in Nat
  /\ seg \in 1 .. Len(chunk.ways) /\ k \in 1 .. ticks /\ ticks \in Nat \ {0} /\ tick \in Nat
  /\ pending \in [seg : Nat, at : Nat] \cup {None}
  /\ closeIssued \in BOOLEAN /\ closeAborted \in BOOLEAN /\ clipped \in BOOLEAN
  /\ read \in Reads /\ sent \in Seq(Nat)
  /\ outcome \in {"none", "user", "backend_fault", "contact_wrench", "filter", "raised"}

\* "the allowance must never outlive its chunk" (robot.py:522-530): once a chunk is
\* over, however it ended, the guard of a robot that moves on in a Cartesian mode is
\* a profile's own, unless the call that sets it raised.
GuardGivenBack ==
  pc = "idle" /\ mode = "cartesian" /\ ~lent => guard \in {p.guard : p \in Profiles}

\* Deferring the closes never reorders the gripper's commands, nor repeats one
\* (robot.py:415-418, 461-476, interpolation.py:96-102).
GripOrder == \A i, j \in DOMAIN sent : i < j => sent[i] < sent[j]

Met(i) == i < seg \/ (i = seg /\ (k > 1 \/ outcome = "none"))

\* No command is lost in a settle window: by the time a chunk returns, each command
\* it met has reached the gripper, or is a close whose abort is recorded
\* (robot.py:493-516).
ClosesAccounted ==
  pc = "finally" /\ chunk.kind = "cartesian" /\ outcome # "raised" =>
    \A i \in 1 .. seg :
      Met(i) /\ chunk.ways[i].grip # None =>
        (\E j \in DOMAIN sent : sent[j] = i) \/ (closeAborted /\ chunk.ways[i].grip # "open")

Streams == pc = "write" /\ pc' \in {"tick", "after"}

\* Once stop() has returned the arm gets no setpoint until a chunk has consumed the
\* stop, even from a chunk that starts its mode at that moment (robot.py:312-315,
\* 397-402, 844-846).
StopHoldsArm == [][Streams => ~halted]_vars

-----------------------------------------------------------------------------
(* What is documented and does not hold; no run checks it (README, section 3).  *)

\* "Once a close is skipped, every LATER closing command in the chunk is skipped
\* too" (action_chunk.py:152-154).
AbortIsFinal ==
  [][closeAborted /\ sent' # sent /\ pc # "idle" =>
       chunk.ways[sent'[Len(sent')]].grip \notin {"grasp"}]_vars
==============================================================================
