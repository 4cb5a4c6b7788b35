------------------------------ MODULE ServoLoop ------------------------------
(***************************************************************************)
(* ReactiveServoLoop of server/control_loop.py: producers update a small   *)
(* command buffer, one thread streams it at a fixed rate through the       *)
(* safety filter, and holds or stops when the commands go stale.           *)
(*                                                                         *)
(* The arm has one degree of freedom, in which a pose and a joint position *)
(* are the same number, and it reaches every setpoint.  A command is old   *)
(* once it is older than command_timeout_ms; how much older, which is what *)
(* hold_timeout_ms is about, is left open.                                 *)
(***************************************************************************)
EXTENDS FilterOps

CONSTANTS Positions,  \* where the arm may be
          Targets,    \* where it may be sent
          Guided,     \* where an operator may leave it, after a fault
          Profiles,   \* safety profiles, with the watchdog's settings
          None

\* A profile without the optional cap on acceleration (SafetyFilter has it).
LoopProfile ==
  [lo : Int, hi : Int, jump : Nat, speed : Nat, reject : BOOLEAN,
   ramp : {FALSE}, accel : {0}, qlo : Int, qhi : Int, qspeed : Nat,
   watch    : BOOLEAN,    \* stop_on_stale_command
   escalate : BOOLEAN,    \* hold_timeout_ms is set
   watchState : BOOLEAN]  \* stop_on_state_stale

ASSUME LoopAssumption ==
  /\ Positions \subseteq Int /\ Targets \subseteq Int /\ Guided \subseteq Int
  /\ None \notin [at : Int, to : Int, step : Nat]
  /\ Profiles \subseteq LoopProfile
  /\ \A d \in Profiles : d.lo <= d.hi /\ d.qlo <= d.qhi

VARIABLES
  arm, mode, fault,           \* the backend
  profile, fpos, fq,          \* SafetyFilter: p, _prev_pose, _prev_q
  cart, pose, goal, old,      \* the buffer: _cartesian, _target_pose,
                              \* _target_q, and whether _cmd_stamp is old
  iter,                       \* _chunk_iter: what it has still to yield
  running, pc,                \* _running, and where the thread is
  sight, citer, snap,         \* the thread's locals, of the tick under way
  preempted,                  \* the buffer does not hold citer any longer
  status,                     \* LoopStats.last_status
  blind                       \* history: a setpoint went out in this fault

backendVars == <<arm, mode, fault>>
filterVars  == <<profile, fpos, fq>>
bufferVars  == <<cart, pose, goal, old, iter>>
localVars   == <<sight, citer, snap, preempted>>
vars == <<backendVars, filterVars, bufferVars, running, pc, localVars, status, blind>>

Modes  == {"idle", "cartesian", "joint"}
Points == {"off", "read", "advance", "snapshot", "write", "dead"}
Chunk  == [at : Int, to : Int, step : Nat]   \* planned at the speed of its day
Yielded(c) == c.at = c.to
NoSight == [arm |-> 0, mode |-> "idle"]
NoSnap  == [cart |-> TRUE, to |-> 0, old |-> FALSE, fault |-> FALSE]

TypeOK ==
  /\ arm \in Int /\ mode \in Modes /\ fault \in BOOLEAN
  /\ profile \in Profiles /\ fpos \in Int /\ fq \in Int
  /\ cart \in BOOLEAN /\ pose \in Int /\ goal \in Int /\ old \in BOOLEAN
  /\ iter \in Chunk \cup {None}
  /\ running \in BOOLEAN /\ pc \in Points
  /\ sight \in [arm : Int, mode : Modes]
  /\ citer \in Chunk \cup {None} /\ preempted \in BOOLEAN
  /\ snap \in [cart : BOOLEAN, to : Int, old : BOOLEAN, fault : BOOLEAN]
  /\ status \in {"ok", "holding", "stopped"} /\ blind \in BOOLEAN

\* A loop that was built and not started, on a connected robot.
Init ==
  /\ arm \in Positions /\ mode \in Modes /\ fault = FALSE
  /\ profile \in Profiles /\ fpos = arm /\ fq = arm
  /\ cart = TRUE /\ pose = arm /\ goal = 0 /\ old = FALSE /\ iter = None
  /\ running = FALSE /\ pc = "off"
  /\ sight = NoSight /\ citer = None /\ snap = NoSnap /\ preempted = FALSE
  /\ status = "ok" /\ blind = FALSE

-----------------------------------------------------------------------------
(* Producers: each update is one section on the buffer's lock.  goal is read *)
(* while cart is FALSE only, and SetJointTarget is what makes it FALSE, so   *)
(* goal is forgotten whenever cart is set.                                   *)

Preempt(new) ==
  /\ iter' = new /\ old' = FALSE
  /\ preempted' = (citer # None)
  /\ UNCHANGED <<backendVars, filterVars, running, pc, sight, citer, snap, status, blind>>

SetCartesianTarget(x) ==
  /\ cart' = TRUE /\ pose' = x /\ goal' = 0
  /\ Preempt(None)

SetJointTarget(x) ==
  /\ cart' = FALSE /\ goal' = x
  /\ Preempt(None)
  /\ UNCHANGED pose

\* enqueue_chunk: the chunk is planned from where the arm was when the state was
\* read, then staged; the pose target stays what it was until the loop pulls.
EnqueueChunk(from, x) ==
  /\ cart' = TRUE /\ goal' = 0
  /\ Preempt([at |-> from, to |-> x, step |-> profile.speed])
  /\ UNCHANGED pose

\* The profile is swapped under the writer lock, which the thread holds only
\* within its write step.
SetProfile ==
  /\ profile' \in Profiles
  /\ UNCHANGED <<fpos, fq, backendVars, bufferVars, running, pc, localVars, status, blind>>

-----------------------------------------------------------------------------
(* start() and stop() *)

Start ==
  /\ ~running /\ pc \in {"off", "dead"}
  /\ mode' = IF mode = "cartesian" THEN mode ELSE "cartesian"
  /\ fpos' = arm /\ fq' = arm
  /\ pose' = arm /\ goal' = (IF cart THEN 0 ELSE arm) /\ old' = FALSE
  /\ running' = TRUE /\ pc' = "read"
  /\ UNCHANGED <<arm, fault, profile, cart, iter, localVars, status, blind>>

StopFlag ==
  /\ running
  /\ running' = FALSE
  /\ UNCHANGED <<pc, localVars, status, backendVars, filterVars, bufferVars, blind>>

\* Once the thread is joined, the backend is stopped under the writer lock.
StopJoined ==
  /\ ~running /\ pc = "dead"
  /\ mode' = "idle" /\ pc' = "off"
  /\ UNCHANGED <<arm, fault, running, localVars, status, filterVars, bufferVars, blind>>

-----------------------------------------------------------------------------
(* The thread: one tick of _run_inner *)

Goto(p)    == pc' = p
EndTick(p) == Goto(p) /\ sight' = NoSight /\ snap' = NoSnap /\ UNCHANGED <<citer, preempted>>

Leave ==
  /\ pc = "read" /\ ~running
  /\ Goto("dead")
  /\ UNCHANGED <<running, localVars, status, backendVars, filterVars, bufferVars, blind>>

\* The state is read, and the iterator taken from the buffer.
Read ==
  /\ pc = "read" /\ running
  /\ sight' = [arm |-> arm, mode |-> mode]
  /\ citer' = iter
  /\ Goto(IF iter = None THEN "snapshot" ELSE "advance")
  /\ UNCHANGED <<running, snap, preempted, status, backendVars, filterVars, bufferVars, blind>>

Pulled ==
  /\ Goto("snapshot") /\ citer' = None /\ preempted' = FALSE
  /\ UNCHANGED <<running, sight, snap, status, backendVars, filterVars, blind>>

\* Its next setpoint, if it has one, becomes the target and refreshes the stamp.
Advance ==
  /\ pc = "advance" /\ ~Yielded(citer)
  /\ LET next == Toward(citer.at, citer.to, citer.step) IN
       /\ pose' = next
       /\ iter' = IF preempted THEN iter ELSE [citer EXCEPT !.at = next]
  /\ cart' = TRUE /\ goal' = 0 /\ old' = FALSE
  /\ Pulled

\* Faulty: an exhausted chunk that goes on yielding its last setpoint.
Exhausted_Repeats ==
  /\ pc = "advance" /\ Yielded(citer)
  /\ old' = FALSE
  /\ Pulled
  /\ UNCHANGED <<cart, pose, goal, iter>>

\* Otherwise the buffer's chunk is dropped, whichever it is by now.
Exhausted ==
  /\ pc = "advance" /\ Yielded(citer)
  /\ iter' = None
  /\ Pulled
  /\ UNCHANGED <<cart, pose, goal, old>>

\* Faulty: the fault gate of the tick is left out.
Snapshot_Blind ==
  /\ pc = "snapshot"
  /\ snap' = [cart |-> cart, to |-> IF cart THEN pose ELSE goal, old |-> old,
              fault |-> FALSE]
  /\ Goto("write")
  /\ UNCHANGED <<running, sight, citer, preempted, status, backendVars, filterVars, bufferVars, blind>>

\* The buffer is copied under its lock, then the robot is asked for a fault.
Snapshot ==
  /\ pc = "snapshot"
  /\ snap' = [cart |-> cart, to |-> IF cart THEN pose ELSE goal, old |-> old,
              fault |-> fault]
  /\ Goto("write")
  /\ UNCHANGED <<running, sight, citer, preempted, status, backendVars, filterVars, bufferVars, blind>>

\* The write section, under the writer lock: the watchdog as the live profile
\* has it, over the snapshot.
Stale == snap.old /\ profile.watch
Kind  == IF snap.cart THEN "cartesian" ELSE "joint"

\* _ensure_stream_mode goes by the mode seen at the start of the tick; a stream
\* call in another mode than its own raises.
EnsuredMode == IF sight.mode = Kind THEN mode ELSE Kind

\* A protective stop: a fault, a command held for too long, a state that is too
\* old (where the profile looks), a contact or a box that rejects.
WriteStop ==
  /\ pc = "write"
  /\ \/ snap.fault
     \/ profile.watchState
     \/ Stale /\ profile.escalate
     \/ ~Stale /\ snap.cart /\ \E contact \in BOOLEAN : Refuses(profile, snap.to, contact)
  /\ mode' = "idle" /\ status' = "stopped"
  /\ EndTick("read")
  /\ UNCHANGED <<arm, fault, running, filterVars, bufferVars, blind>>

\* A setpoint reaches the arm.
Stream(x) ==
  /\ mode' = EnsuredMode /\ mode' = Kind
  /\ arm' = x
  /\ blind' = (blind \/ fault)
  /\ EndTick("read")
  /\ UNCHANGED <<fault, profile, running, bufferVars>>

\* Faulty: holding that leaves the filter where the commands had it.
WriteHold_KeepsFilter ==
  /\ pc = "write" /\ ~snap.fault /\ Stale
  /\ Stream(sight.arm)
  /\ status' = "holding"
  /\ UNCHANGED <<fpos, fq>>

\* Holding: the measured position is streamed, and the filter anchored to it.
WriteHold ==
  /\ pc = "write" /\ ~snap.fault /\ Stale
  /\ Stream(sight.arm)
  /\ fpos' = sight.arm /\ fq' = sight.arm
  /\ status' = "holding"

WriteCartesian ==
  /\ pc = "write" /\ ~snap.fault /\ ~Stale /\ snap.cart
  /\ ~Refuses(profile, snap.to, FALSE)
  /\ fpos' = Commanded(profile, fpos, 0, snap.to)
  /\ Stream(fpos')
  /\ status' = "ok"
  /\ UNCHANGED fq

WriteJoint ==
  /\ pc = "write" /\ ~snap.fault /\ ~Stale /\ ~snap.cart
  /\ fq' = JointCommanded(profile, fq, snap.to)
  /\ Stream(fq')
  /\ status' = "ok"
  /\ UNCHANGED fpos

\* The stream call raises, the robot having left its mode since the tick began:
\* _run stops the backend and ends the thread.  (What the filter was left with no
\* longer matters: start resets it.)
WriteRaises ==
  /\ pc = "write" /\ ~snap.fault /\ EnsuredMode # Kind
  /\ Stale \/ ~snap.cart \/ ~Refuses(profile, snap.to, FALSE)
  /\ mode' = "idle" /\ running' = FALSE /\ status' = "stopped"
  /\ EndTick("dead")
  /\ UNCHANGED <<arm, fault, filterVars, bufferVars, blind>>

-----------------------------------------------------------------------------
(* The environment *)

\* Time passes: the stamp ages.
Pass ==
  /\ old' = TRUE
  /\ UNCHANGED <<cart, pose, goal, iter, backendVars, filterVars, running, pc, localVars, status, blind>>

\* The robot faults, and may drop to IDLE on its own; the fault is cleared.
Trip ==
  /\ ~fault
  /\ fault' = TRUE /\ mode' \in {mode, "idle"}
  /\ blind' = FALSE
  /\ UNCHANGED <<arm, filterVars, bufferVars, running, pc, localVars, status>>

Recover ==
  /\ fault
  /\ fault' = FALSE /\ blind' = FALSE
  /\ UNCHANGED <<arm, mode, filterVars, bufferVars, running, pc, localVars, status>>

\* An operator moves the faulted arm.
HandGuide ==
  /\ fault /\ mode = "idle"
  /\ arm' \in Guided
  /\ UNCHANGED <<mode, fault, filterVars, bufferVars, running, pc, localVars, status, blind>>

Thread ==
  \/ Leave \/ Read \/ Advance \/ Exhausted \/ Snapshot
  \/ WriteStop \/ WriteHold \/ WriteCartesian \/ WriteJoint \/ WriteRaises

Produce ==
  \E x \in Targets :
    \/ SetCartesianTarget(x)
    \/ SetJointTarget(x)
    \/ \E from \in Positions : EnqueueChunk(from, x)

Next ==
  \/ Produce \/ SetProfile
  \/ Start \/ StopFlag \/ StopJoined
  \/ Thread
  \/ Pass \/ Trip \/ Recover \/ HandGuide

Spec == Init /\ [][Next]_vars

\* The thread ticks at its rate, and time passes.
FairSpec == Spec /\ WF_vars(Thread) /\ WF_vars(Pass)

-----------------------------------------------------------------------------
(* Properties *)

Distance(x, y) == IF x < y THEN y - x ELSE x - y

\* A setpoint is streamed.
Streams == pc = "write" /\ pc' = "read" /\ mode' # "idle"

\* While the robot stays in one mode its setpoints follow on each other: none is
\* further from the arm than the filter allows, across holds, profile swaps,
\* chunks that preempt each other, and stale commands that come back to life
\* (control_loop.py:292-302, safety.py:330-360).
SteadyWithinStep ==
  [][Streams /\ mode' = mode =>
       Distance(arm, arm') <= IF mode = "cartesian" THEN profile.speed ELSE profile.qspeed]_vars

\* After the robot reports a fault at most the tick already under way still
\* streams; a fault that lasts lets nothing more through (control_loop.py:259-264).
FaultStopsStream == [][Streams /\ fault => ~blind]_vars

\* A producer's step: outside the thread's steps, only these and Pass change the
\* buffer, and Pass makes it old.
Update == pc' = pc /\ ~old' /\ <<bufferVars, preempted>>' # <<bufferVars, preempted>>

\* "holds position if commands go stale (watchdog), instead of replaying an old
\* motion" (control_loop.py:5-7): once the producers have fallen silent, a loop
\* that watches for it ends up holding or stopped for good, even when the silence
\* set in during a chunk.
SilenceHolds ==
  <>[](running /\ profile.watch) /\ <>[][~Update]_vars => <>[](status # "ok")

-----------------------------------------------------------------------------
(* What is documented and does not hold; no run checks it (README, section 3).  *)

\* The control loop resets the filter at the start of every motion "so the first
\* command is anchored to the robot's current pose" (docs/safety.md:50-51): no
\* setpoint is further from the arm than the filter's step.
AnchoredToArm ==
  [][Streams => Distance(arm, arm') <=
       IF snap.cart THEN profile.speed ELSE profile.qspeed]_vars

\* "newest target wins; loop streams it" (docs/integration_mpc.md:56), and "a
\* manual target preempts any async chunk" (control_loop.py:84): the thread
\* never replaces a command that arrived after the one it acts on.
NewestWins ==
  [][pc = "advance" /\ pc' = "snapshot" /\ preempted
       => UNCHANGED <<cart, pose, goal, iter>>]_vars
==============================================================================
