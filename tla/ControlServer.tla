---------------------------- MODULE ControlServer ----------------------------
(***************************************************************************)
(* FlexivControlServer (server/server.py): one handler thread for each     *)
(* connection, the lease, the robot lock, the cooperative cancel flag of   *)
(* the Robot facade, and the always-on servo loop threads.                 *)
(*                                                                         *)
(* A thread's pc names the point its handler has reached; a step is the    *)
(* code between two points another thread can see.  While pc[t] or         *)
(* loopPc[l] is one of the Writing points the actor is inside a backend    *)
(* call that commands the arm.  Lease methods are the atomic operators of  *)
(* LeaseOps: Lease.tla interleaves their critical sections.                *)
(***************************************************************************)
EXTENDS LeaseOps, Sequences, FiniteSets

CONSTANTS Threads,   \* handler threads (one per client connection)
          Loops,     \* identities of ReactiveServoLoop objects, reused when dead
          OwnerOf,   \* the owner string each connection sends
          Sends,     \* the methods each connection may call
          Profiles,  \* safety profiles a client may select
          Faulty,    \* may a backend call raise
          Free, NoLoop, NoProfile

Motions == {"mode", "chunk", "move", "gripper", "home", "ritual"}
Leased  == Motions \cup {"profile", "startLoop", "stopLoop", "stream"}
Methods == Leased \cup {"acquire", "force", "release", "heartbeat", "state",
                        "stop", "shutdown"}

ASSUME ServerAssumption ==
  /\ OwnerOf \in [Threads -> Owners]
  /\ Sends \in [Threads -> SUBSET Methods]
  /\ Profiles # {} /\ NoProfile \notin Profiles
  /\ Faulty \in BOOLEAN
  /\ Free \notin Threads \cup Loops
  /\ NoLoop \notin Loops
  /\ Threads \cap Loops = {}

VARIABLES
  lease, holds,   \* the Lease object
  robotLock,      \* _robot_lock: Free, or the thread or loop that has it
  cancel,         \* Robot._cancel
  slot,           \* _servo_loop
  loopPc,         \* where each loop thread is
  running,        \* ReactiveServoLoop._running
  target,         \* whose target a loop tracks; NoOwner: the pose it was seeded with
  profile,        \* Robot.profile
  pc, rpc,        \* where each handler thread is, and the method it serves
  prev,           \* _h_acquire_lease's prev
  mine,           \* the loop object a handler has read or popped
  todo,           \* the stages left of a motion call
  contact,        \* go_home_safe's contact_abort
  env,            \* the profile a chunk in flight was admitted under
  hit             \* history: did a stop request reach the motion in flight

serverVars == <<lease, holds, robotLock, cancel, slot, profile>>
loopVars   == <<loopPc, running, target>>
localVars  == <<rpc, prev, mine, todo, contact, env>>
vars == <<serverVars, loopVars, pc, localVars, hit>>

-----------------------------------------------------------------------------
(* Points of the code *)

\* Stages of a motion call, run in order under the robot lock.  A stage that is
\* a point of its own: "call" is one backend command (set_mode, zero_ft_sensor,
\* move_gripper, the vendor home primitive); "chunk" and "lift" start a chunk;
\* "settle" polls the gripper; "gate" decides about the sweep home.
Stages == {"call", "chunk", "lift", "settle", "gate"}

\* What each motion method does; gripper_home_width and the vendor primitive
\* are configuration, hence the choice.
Plans(m) ==
  CASE m = "mode"    -> {<<"call">>}
    [] m = "chunk"   -> {<<"chunk">>}
    [] m = "move"    -> {<<"call", "chunk">>}
    [] m = "gripper" -> {<<"call", "settle">>}
    [] m = "home"    -> {<<"call">>, <<"call", "call", "settle">>,
                         <<"call", "chunk">>, <<"call", "chunk", "call", "settle">>}
    [] m = "ritual"  -> {<<"lift", "gate", "call", "chunk">>,
                         <<"lift", "call", "settle", "gate", "call", "chunk">>}

InChunk  == {"arm", "tick", "stream", "halt"}
Body     == Stages \cup InChunk \cup {"unpin"}
TearDown == {"pop", "kill", "join", "finLock", "fin"}
Locked   == Body \cup {"held", "pin", "unlock", "boot", "fin", "rest"}
Points   == Locked \cup TearDown \cup
            {"idle", "check", "renew", "lock", "setProfile", "bootLock", "readSlot",
             "aim", "prev", "grant", "after", "drop", "restLock", "request",
             "try1", "try2", "downFlag", "down", "off"}

LoopPoints == {"off", "top", "want", "write", "crash", "dead"}

ThreadWrites == {"call", "arm", "stream", "halt", "boot", "fin", "rest", "down"}
LoopWrites   == {"write", "crash"}
\* The actors inside a backend call, and those of them that hold no lock:
\* a loop's crash path and the stop of shutdown().
Writing  == {t \in Threads : pc[t] \in ThreadWrites}
            \cup {l \in Loops : loopPc[l] \in LoopWrites}
Unlocked == {t \in Threads : pc[t] = "down"} \cup {l \in Loops : loopPc[l] = "crash"}

SharedTypes ==
  /\ lease \in LeaseInfo
  /\ holds \in Int
  /\ robotLock \in Threads \cup Loops \cup {Free}
  /\ cancel \in BOOLEAN
  /\ slot \in Loops \cup {NoLoop}
  /\ profile \in Profiles
  /\ loopPc \in [Loops -> LoopPoints]
  /\ running \in [Loops -> BOOLEAN]
  /\ target \in [Loops -> Owners \cup {NoOwner}]
  /\ hit \in [Threads -> {"no", "hit", "late"}]

LocalTypes ==
  /\ pc \in [Threads -> Points]
  /\ rpc \in [Threads -> Methods \cup {"none"}]
  /\ prev \in [Threads -> Owners \cup {NoOwner}]
  /\ mine \in [Threads -> Loops \cup {NoLoop}]
  /\ todo \in [Threads -> Seq(Stages)]
  /\ contact \in [Threads -> BOOLEAN]
  /\ env \in [Threads -> Profiles \cup {NoProfile}]

\* Every exit of a hold answers an entry.
TypeOK == SharedTypes /\ LocalTypes /\ holds >= 0

\* start(): connected, serving, nothing leased and no loop installed.
Init ==
  /\ lease = NoLease /\ holds = 0
  /\ robotLock = Free /\ cancel = FALSE /\ slot = NoLoop
  /\ loopPc = [l \in Loops |-> "off"]
  /\ running = [l \in Loops |-> FALSE]
  /\ target = [l \in Loops |-> NoOwner]
  /\ profile \in Profiles
  /\ pc = [t \in Threads |-> "idle"]
  /\ rpc = [t \in Threads |-> "none"]
  /\ prev = [t \in Threads |-> NoOwner]
  /\ mine = [t \in Threads |-> NoLoop]
  /\ todo = [t \in Threads |-> <<>>]
  /\ contact = [t \in Threads |-> FALSE]
  /\ env = [t \in Threads |-> NoProfile]
  /\ hit = [t \in Threads |-> "no"]

-----------------------------------------------------------------------------
(* Control flow of a handler thread *)

Goto(t, p) == pc' = [pc EXCEPT ![t] = p]

\* The response is written; the handler's locals are gone.
Return(t) ==
  /\ Goto(t, "idle")
  /\ rpc' = [rpc EXCEPT ![t] = "none"]
  /\ prev' = [prev EXCEPT ![t] = NoOwner]
  /\ mine' = [mine EXCEPT ![t] = NoLoop]
  /\ todo' = [todo EXCEPT ![t] = <<>>]
  /\ contact' = [contact EXCEPT ![t] = FALSE]
  /\ env' = [env EXCEPT ![t] = NoProfile]

Move(t, p) == Goto(t, p) /\ UNCHANGED localVars

Lock(t)   == robotLock = Free /\ robotLock' = t
Unlock  == robotLock' = Free

\* A stop comes: it is meant for the motion in flight.
Motion(t) == pc[t] \in Body \ {"unpin"}
Reach == hit' = [t \in Threads |-> IF Motion(t) /\ hit[t] = "no" THEN "hit" ELSE hit[t]]

\* request_stop(): set the flag; remember whose motion it is to end.
RequestStop == cancel' = TRUE /\ Reach

First(m) ==
  CASE m \in Leased             -> "check"
    [] m \in {"acquire", "force"} -> "prev"
    [] m = "release"            -> "drop"
    [] m = "stop"               -> "request"
    [] m = "shutdown"           -> "pop"

\* A request line arrives.
Receive(t, m) ==
  /\ pc[t] = "idle" /\ m \in Sends[t] \ {"heartbeat", "state"}
  /\ Goto(t, First(m))
  /\ rpc' = [rpc EXCEPT ![t] = m]
  /\ UNCHANGED <<serverVars, loopVars, prev, mine, todo, contact, env, hit>>

\* The two methods that are a single section on the lease.
Heartbeat(t) ==
  /\ pc[t] = "idle" /\ "heartbeat" \in Sends[t]
  /\ HeldBy(lease, OwnerOf[t])
  /\ lease' = Renewed(lease)
  /\ UNCHANGED <<holds, robotLock, cancel, slot, profile, loopVars, pc, localVars, hit>>

\* get_state reads snapshots and asks for the lease owner, which sweeps.
GetState(t) ==
  /\ pc[t] = "idle" /\ "state" \in Sends[t]
  /\ lease' = Swept(lease, holds)
  /\ UNCHANGED <<holds, robotLock, cancel, slot, profile, loopVars, pc, localVars, hit>>

Clock ==
  /\ lease' = Aged(lease)
  /\ UNCHANGED <<holds, robotLock, cancel, slot, profile, loopVars, pc, localVars, hit>>

-----------------------------------------------------------------------------
(* _require_lease: lease.check(owner), then lease.heartbeat(owner).  It also
   writes Robot._owner, which the facade only tests for being set.           *)

AfterLease(m) ==
  CASE m \in Motions    -> "lock"
    [] m = "profile"   -> "setProfile"
    [] m = "startLoop" -> "bootLock"
    [] m = "stopLoop"  -> "pop"
    [] m = "stream"    -> "readSlot"

CheckLease(t) ==
  /\ pc[t] = "check"
  /\ lease' = Swept(lease, holds)
  /\ \/ HeldBy(lease', OwnerOf[t]) /\ Move(t, "renew")
     \/ ~HeldBy(lease', OwnerOf[t]) /\ Return(t)
  /\ UNCHANGED <<holds, robotLock, cancel, slot, profile, loopVars, hit>>

RenewLease(t) ==
  /\ pc[t] = "renew"
  /\ \/ HeldBy(lease, OwnerOf[t]) /\ lease' = Renewed(lease) /\ Move(t, AfterLease(rpc[t]))
     \/ ~HeldBy(lease, OwnerOf[t]) /\ UNCHANGED lease /\ Return(t)
  /\ UNCHANGED <<holds, robotLock, cancel, slot, profile, loopVars, hit>>

(* _h_acquire_lease *)

ReadPrev(t) ==
  /\ pc[t] = "prev"
  /\ lease' = Swept(lease, holds)
  /\ prev' = [prev EXCEPT ![t] = lease'.owner]
  /\ Goto(t, "grant")
  /\ UNCHANGED <<holds, robotLock, cancel, slot, profile, loopVars,
                 rpc, mine, todo, contact, env, hit>>

Grant(t) ==
  /\ pc[t] = "grant"
  /\ LET l == Swept(lease, holds) IN
     \/ /\ Available(l, OwnerOf[t], rpc[t] = "force")
        /\ lease' = Granted(OwnerOf[t])
        /\ Move(t, "after")
     \/ /\ ~Available(l, OwnerOf[t], rpc[t] = "force")
        /\ lease' = l
        /\ Return(t)
  /\ UNCHANGED <<holds, robotLock, cancel, slot, profile, loopVars, hit>>

\* A displaced owner's motion is cancelled; a fresh owner drops a stale cancel.
AfterGrant(t) ==
  /\ pc[t] = "after"
  /\ \/ /\ rpc[t] = "force" /\ prev[t] \notin {NoOwner, OwnerOf[t]}
        /\ RequestStop
     \/ /\ ~(rpc[t] = "force" /\ prev[t] # NoOwner) /\ prev[t] # OwnerOf[t]
        /\ cancel' = FALSE
        /\ UNCHANGED hit
     \/ /\ prev[t] = OwnerOf[t]
        /\ UNCHANGED <<cancel, hit>>
  /\ Return(t)
  /\ UNCHANGED <<lease, holds, robotLock, slot, profile, loopVars>>

(* _h_release_lease: drop the lease, tear the loop down, stop the robot. *)

Drop(t) ==
  /\ pc[t] = "drop"
  /\ \/ Held(lease) /\ lease.owner # OwnerOf[t] /\ UNCHANGED lease /\ Return(t)
     \/ (Held(lease) => lease.owner = OwnerOf[t]) /\ lease' = NoLease /\ Move(t, "pop")
  /\ UNCHANGED <<holds, robotLock, cancel, slot, profile, loopVars, hit>>

\* `with _robot_lock: robot.stop()`: the flag and the backend stop.
RestLock(t) ==
  /\ pc[t] = "restLock"
  /\ Lock(t)
  /\ RequestStop
  /\ Move(t, "rest")
  /\ UNCHANGED <<lease, holds, slot, profile, loopVars>>

Rest(t) ==
  /\ pc[t] = "rest"
  /\ Unlock
  /\ Return(t)
  /\ UNCHANGED <<lease, holds, cancel, slot, profile, loopVars, hit>>

(* Popping the servo loop and ReactiveServoLoop.stop(), for release_lease,
   stop, stop_servo_loop and shutdown.  The lock is not held in between.     *)

AfterTearDown(t) ==
  \/ rpc[t] = "release"  /\ Move(t, "restLock")
  \/ rpc[t] = "stop"     /\ Move(t, "try2")
  \/ rpc[t] = "shutdown" /\ Move(t, "downFlag")
  \/ rpc[t] = "stopLoop" /\ Return(t)

\* `with _robot_lock: loop, self._servo_loop = self._servo_loop, None`
TakeSlot(t) ==
  /\ slot' = NoLoop
  /\ \/ slot = NoLoop /\ AfterTearDown(t)
     \/ /\ slot # NoLoop
        /\ mine' = [mine EXCEPT ![t] = slot]
        /\ Goto(t, "kill")
        /\ UNCHANGED <<rpc, prev, todo, contact, env>>

Pop(t) ==
  /\ pc[t] = "pop"
  /\ robotLock = Free
  /\ TakeSlot(t)
  /\ UNCHANGED <<lease, holds, robotLock, cancel, profile, loopVars, hit>>

\* Faulty: a stop() that joins without telling the loop to end.
Kill_NoFlag(t) ==
  /\ pc[t] = "kill"
  /\ Move(t, "join")
  /\ UNCHANGED <<serverVars, loopVars, hit>>

Kill(t) ==
  /\ pc[t] = "kill"
  /\ running' = [running EXCEPT ![mine[t]] = FALSE]
  /\ Move(t, "join")
  /\ UNCHANGED <<serverVars, loopPc, target, hit>>

\* join(timeout=2.0) ends with the loop's thread or, wherever that is, with the
\* two seconds.
Join(t) ==
  /\ pc[t] = "join"
  /\ Move(t, "finLock")
  /\ UNCHANGED <<serverVars, loopVars, hit>>

\* Faulty: stop() that takes the joined loop for the only other writer.
FinLock_Skipped(t) ==
  /\ pc[t] = "finLock"
  /\ Move(t, "fin")
  /\ UNCHANGED <<serverVars, loopVars, hit>>

FinLock(t) ==
  /\ pc[t] = "finLock"
  /\ Lock(t)
  /\ Move(t, "fin")
  /\ UNCHANGED <<lease, holds, cancel, slot, profile, loopVars, hit>>

Fin(t) ==
  /\ pc[t] = "fin"
  /\ Unlock
  /\ \/ AfterTearDown(t)
     \/ Faulty /\ rpc[t] # "shutdown" /\ Return(t)
     \/ Faulty /\ rpc[t] = "shutdown" /\ Move(t, "off")
  /\ UNCHANGED <<lease, holds, cancel, slot, profile, loopVars, hit>>

(* _h_stop: no lease needed; both waits for the lock are bounded (0.5 s). *)

Request(t) ==
  /\ pc[t] = "request"
  /\ RequestStop
  /\ Move(t, "try1")
  /\ UNCHANGED <<lease, holds, robotLock, slot, profile, loopVars>>

StopPop(t) ==
  /\ pc[t] = "try1"
  /\ robotLock = Free
  /\ TakeSlot(t)
  /\ UNCHANGED <<lease, holds, robotLock, cancel, profile, loopVars, hit>>

StopHalt(t) ==
  /\ pc[t] = "try2"
  /\ Lock(t)
  /\ RequestStop
  /\ Move(t, "rest")
  /\ UNCHANGED <<lease, holds, slot, profile, loopVars>>

\* Faulty: the flag is not set again, though a chunk's entry may have consumed it.
StopBusy_NoRearm(t) ==
  /\ pc[t] \in {"try1", "try2"}
  /\ robotLock # Free
  /\ Reach
  /\ Return(t)
  /\ UNCHANGED <<lease, holds, robotLock, cancel, slot, profile, loopVars>>

StopBusy(t) ==
  /\ pc[t] \in {"try1", "try2"}
  /\ robotLock # Free
  /\ RequestStop
  /\ Return(t)
  /\ UNCHANGED <<lease, holds, robotLock, slot, profile, loopVars>>

(* shutdown(): pop and stop the loop, then robot.stop() without the lock. *)

DownFlag(t) ==
  /\ pc[t] = "downFlag"
  /\ RequestStop
  /\ Move(t, "down")
  /\ UNCHANGED <<lease, holds, robotLock, slot, profile, loopVars>>

Down(t) ==
  /\ pc[t] = "down"
  /\ Move(t, "off")
  /\ UNCHANGED <<serverVars, loopVars, hit>>

(* _h_set_safety_profile *)

\* Faulty: the profile is swapped without waiting for the motion in flight.
SetProfile_Unlocked(t) ==
  /\ pc[t] = "setProfile"
  /\ profile' \in Profiles
  /\ Return(t)
  /\ UNCHANGED <<lease, holds, robotLock, cancel, slot, loopVars, hit>>

SetProfile(t) ==
  /\ pc[t] = "setProfile"
  /\ robotLock = Free
  /\ profile' \in Profiles
  /\ Return(t)
  /\ UNCHANGED <<lease, holds, robotLock, cancel, slot, loopVars, hit>>

(* _h_start_servo_loop: the lease was checked before the lock was waited for. *)

\* An identity for a new loop object: Loops bounds how many exist at a time.
Unused(l) ==
  /\ loopPc[l] \in {"off", "dead"}
  /\ slot # l
  /\ \A u \in Threads : mine[u] # l

BootLock(t) ==
  /\ pc[t] = "bootLock"
  /\ robotLock = Free
  /\ \/ slot # NoLoop /\ UNCHANGED robotLock /\ Return(t)
     \/ /\ slot = NoLoop /\ \E l \in Loops : Unused(l)
        /\ robotLock' = t
        /\ Move(t, "boot")
  /\ UNCHANGED <<lease, holds, cancel, slot, profile, loopVars, hit>>

\* loop.start(): the mode is set ("boot" writes), the target is the live pose,
\* the thread starts; then the loop is installed and the lock let go.
Boot(t) ==
  /\ pc[t] = "boot"
  /\ \E l \in Loops :
       /\ Unused(l)
       /\ slot' = l
       /\ loopPc' = [loopPc EXCEPT ![l] = "top"]
       /\ running' = [running EXCEPT ![l] = TRUE]
       /\ target' = [target EXCEPT ![l] = NoOwner]
  /\ Unlock
  /\ Return(t)
  /\ UNCHANGED <<lease, holds, cancel, profile, hit>>

\* Faulty: an exception path that leaves the robot lock taken.
BootRaises_KeepsLock(t) ==
  /\ pc[t] = "boot" /\ Faulty
  /\ Return(t)
  /\ UNCHANGED <<serverVars, loopVars, hit>>

BootRaises(t) ==
  /\ pc[t] = "boot" /\ Faulty
  /\ Unlock
  /\ Return(t)
  /\ UNCHANGED <<lease, holds, cancel, slot, profile, loopVars, hit>>

(* _h_servo_stream, _h_servo_stream_joint: the loop is read under the lock,
   tested and retargeted outside it.                                         *)

Alive(l) == running[l] /\ loopPc[l] # "dead"

ReadSlot(t) ==
  /\ pc[t] = "readSlot"
  /\ robotLock = Free
  /\ \/ slot = NoLoop /\ Return(t)
     \/ /\ slot # NoLoop
        /\ mine' = [mine EXCEPT ![t] = slot]
        /\ Goto(t, "aim")
        /\ UNCHANGED <<rpc, prev, todo, contact, env>>
  /\ UNCHANGED <<serverVars, loopVars, hit>>

Aim(t) ==
  /\ pc[t] = "aim"
  /\ target' = IF Alive(mine[t]) THEN [target EXCEPT ![mine[t]] = OwnerOf[t]] ELSE target
  /\ Return(t)
  /\ UNCHANGED <<serverVars, loopPc, running, hit>>

-----------------------------------------------------------------------------
(* Motion methods: `with _motion_lock(owner): robot.<method>()`               *)

\* Faulty: the servo loop is not looked for under the lock.
MotionLock_Unguarded(t) ==
  /\ pc[t] = "lock"
  /\ Lock(t)
  /\ Move(t, "held")
  /\ UNCHANGED <<lease, holds, cancel, slot, profile, loopVars, hit>>

\* The robot lock is taken; under it a servo loop refuses the call.
MotionLock(t) ==
  /\ pc[t] = "lock"
  /\ robotLock = Free
  /\ \/ slot # NoLoop /\ UNCHANGED robotLock /\ Return(t)
     \/ slot = NoLoop /\ robotLock' = t /\ Move(t, "held")
  /\ UNCHANGED <<lease, holds, cancel, slot, profile, loopVars, hit>>

\* Faulty: a refused hold leaves through the exit of the context manager.
HoldCheck_Unpins(t) ==
  /\ pc[t] = "held"
  /\ lease' = Swept(lease, holds)
  /\ Move(t, IF HeldBy(lease', OwnerOf[t]) THEN "pin" ELSE "unpin")
  /\ UNCHANGED <<holds, robotLock, cancel, slot, profile, loopVars, hit>>

\* lease.hold(owner): check, then _holds += 1.
HoldCheck(t) ==
  /\ pc[t] = "held"
  /\ lease' = Swept(lease, holds)
  /\ \/ HeldBy(lease', OwnerOf[t]) /\ Move(t, "pin")
     \/ ~HeldBy(lease', OwnerOf[t]) /\ Move(t, "unlock")
  /\ UNCHANGED <<holds, robotLock, cancel, slot, profile, loopVars, hit>>

\* The call goes on with the stages q.
Proceed(t, q) ==
  /\ todo' = [todo EXCEPT ![t] = q]
  /\ Goto(t, IF q = <<>> THEN "unpin" ELSE Head(q))
NextStage(t) == Proceed(t, Tail(todo[t]))

Pin(t) ==
  /\ pc[t] = "pin"
  /\ holds' = holds + 1
  /\ \E q \in Plans(rpc[t]) : Proceed(t, q)
  /\ UNCHANGED <<lease, robotLock, cancel, slot, profile, loopVars,
                 rpc, prev, mine, contact, env, hit>>

\* A stage that raises ends the call, except that go_home_safe goes on after a
\* failed lift, and past a failed gripper command.
AfterRaise(q) ==
  CASE "gate" \notin {q[i] : i \in DOMAIN q} -> <<>>
    [] Head(q) = "lift"                      -> Tail(q)
    [] OTHER                                 -> <<"gate", "call", "chunk">>

Raise(t) ==
  /\ Faulty
  /\ pc[t] \in (Stages \ {"gate"}) \cup InChunk
  /\ pc[t] \in {"chunk", "lift"} => ~cancel
  /\ Proceed(t, AfterRaise(todo[t]))
  /\ env' = [env EXCEPT ![t] = NoProfile]
  /\ contact' = [contact EXCEPT ![t] = @ /\ Head(todo[t]) # "lift"]
  /\ UNCHANGED <<serverVars, loopVars, rpc, prev, mine, hit>>

Call(t) ==
  /\ pc[t] = "call"
  /\ NextStage(t)
  /\ UNCHANGED <<serverVars, loopVars, rpc, prev, mine, contact, env, hit>>

\* Entry of execute_cartesian_chunk / execute_joint_chunk: a pending stop aborts
\* the chunk and is consumed; otherwise the profile is verified and the mode
\* entered if need be.
EntryAbort(t) ==
  /\ pc[t] \in {"chunk", "lift"}
  /\ cancel
  /\ cancel' = FALSE
  /\ NextStage(t)
  /\ UNCHANGED <<lease, holds, robotLock, slot, profile, loopVars,
                 rpc, prev, mine, contact, env, hit>>

Entry(t) ==
  /\ pc[t] \in {"chunk", "lift"}
  /\ ~cancel
  /\ env' = [env EXCEPT ![t] = profile]
  /\ \E p \in {"arm", "tick"} : Goto(t, p)
  /\ UNCHANGED <<serverVars, loopVars, rpc, prev, mine, todo, contact, hit>>

Arm(t) ==
  /\ pc[t] = "arm"
  /\ Move(t, "tick")
  /\ UNCHANGED <<serverVars, loopVars, hit>>

\* One control tick: the cancel flag, then the fault / contact / filter gates,
\* then one setpoint.
TickCancel(t) ==
  /\ pc[t] = "tick"
  /\ cancel
  /\ cancel' = FALSE
  /\ Move(t, "halt")
  /\ UNCHANGED <<lease, holds, robotLock, slot, profile, loopVars, hit>>

TickProtect(t) ==
  /\ pc[t] = "tick"
  /\ ~cancel
  /\ \E c \in BOOLEAN : contact' = [contact EXCEPT ![t] = c /\ Head(todo[t]) = "lift"]
  /\ Goto(t, "halt")
  /\ UNCHANGED <<serverVars, loopVars, rpc, prev, mine, todo, env, hit>>

TickStream(t) ==
  /\ pc[t] = "tick"
  /\ ~cancel
  /\ hit' = IF hit[t] = "no" THEN hit ELSE [hit EXCEPT ![t] = "late"]
  /\ Move(t, "stream")
  /\ UNCHANGED <<serverVars, loopVars>>

Stream(t) ==
  /\ pc[t] = "stream"
  /\ Move(t, "tick")
  /\ UNCHANGED <<serverVars, loopVars, hit>>

\* The setpoints are used up (the flag is not looked at again), or the backend
\* stop of an aborted chunk is done.
ChunkEnd(t) ==
  /\ pc[t] \in {"tick", "halt"}
  /\ NextStage(t)
  /\ env' = [env EXCEPT ![t] = NoProfile]
  /\ UNCHANGED <<serverVars, loopVars, rpc, prev, mine, contact, hit>>

\* The gripper wait ends on settling, on its timeout or on a stop request,
\* which it leaves pending.
Settle(t) ==
  /\ pc[t] = "settle"
  /\ NextStage(t)
  /\ UNCHANGED <<serverVars, loopVars, rpc, prev, mine, contact, env, hit>>

\* go_home_safe: no sweep home after a contact or with a stop pending.
Gate(t) ==
  /\ pc[t] = "gate"
  /\ Proceed(t, IF contact[t] \/ cancel THEN <<>> ELSE Tail(todo[t]))
  /\ UNCHANGED <<serverVars, loopVars, rpc, prev, mine, contact, env, hit>>

\* The hold is dropped and refreshes the expiry, then the robot lock goes.
Unpin(t) ==
  /\ pc[t] = "unpin"
  /\ holds' = holds - 1
  /\ lease' = IF HeldBy(lease, OwnerOf[t]) THEN Renewed(lease) ELSE lease
  /\ hit' = [hit EXCEPT ![t] = "no"]
  /\ Move(t, "unlock")
  /\ UNCHANGED <<robotLock, cancel, slot, profile, loopVars>>

MotionUnlock(t) ==
  /\ pc[t] = "unlock"
  /\ Unlock
  /\ Return(t)
  /\ UNCHANGED <<lease, holds, cancel, slot, profile, loopVars, hit>>

-----------------------------------------------------------------------------
(* A servo loop thread (ReactiveServoLoop from the server): read the state and
   decide, take the robot lock, write, let go.  Leaving the while loop or an
   exception ends the thread; the exception path stops the backend unlocked.  *)

LoopTop(l) ==
  /\ loopPc[l] = "top"
  /\ loopPc' = [loopPc EXCEPT ![l] = IF running[l] THEN "want" ELSE "dead"]
  /\ UNCHANGED <<serverVars, running, target, pc, localVars, hit>>

LoopLock(l) ==
  /\ loopPc[l] = "want"
  /\ robotLock = Free
  /\ robotLock' = l
  /\ loopPc' = [loopPc EXCEPT ![l] = "write"]
  /\ UNCHANGED <<lease, holds, cancel, slot, profile, running, target, pc, localVars, hit>>

LoopWrite(l) ==
  /\ loopPc[l] = "write"
  /\ robotLock' = Free
  /\ \E p \in {"top", "crash"} :
       /\ p = "crash" => Faulty
       /\ loopPc' = [loopPc EXCEPT ![l] = p]
  /\ UNCHANGED <<lease, holds, cancel, slot, profile, running, target, pc, localVars, hit>>

LoopReadRaises(l) ==
  /\ Faulty
  /\ loopPc[l] = "top" /\ running[l]
  /\ loopPc' = [loopPc EXCEPT ![l] = "crash"]
  /\ UNCHANGED <<serverVars, running, target, pc, localVars, hit>>

LoopCrash(l) ==
  /\ loopPc[l] = "crash"
  /\ loopPc' = [loopPc EXCEPT ![l] = "dead"]
  /\ running' = [running EXCEPT ![l] = FALSE]
  /\ UNCHANGED <<serverVars, target, pc, localVars, hit>>

-----------------------------------------------------------------------------
Handler(t) ==
  \/ CheckLease(t) \/ RenewLease(t)
  \/ ReadPrev(t) \/ Grant(t) \/ AfterGrant(t)
  \/ Drop(t) \/ RestLock(t) \/ Rest(t)
  \/ Pop(t) \/ Kill(t) \/ Join(t) \/ FinLock(t) \/ Fin(t)
  \/ Request(t) \/ StopPop(t) \/ StopHalt(t) \/ StopBusy(t)
  \/ DownFlag(t) \/ Down(t)
  \/ SetProfile(t) \/ BootLock(t) \/ Boot(t) \/ BootRaises(t)
  \/ ReadSlot(t) \/ Aim(t)

Mover(t) ==
  \/ MotionLock(t) \/ HoldCheck(t) \/ Pin(t)
  \/ Call(t) \/ EntryAbort(t) \/ Entry(t) \/ Arm(t)
  \/ TickCancel(t) \/ TickProtect(t) \/ TickStream(t) \/ Stream(t) \/ ChunkEnd(t)
  \/ Settle(t) \/ Gate(t) \/ Raise(t)
  \/ Unpin(t) \/ MotionUnlock(t)

Loop(l) ==
  LoopTop(l) \/ LoopLock(l) \/ LoopWrite(l) \/ LoopReadRaises(l) \/ LoopCrash(l)

Next ==
  \/ Clock
  \/ \E t \in Threads, m \in Methods : Receive(t, m)
  \/ \E t \in Threads : Heartbeat(t) \/ GetState(t) \/ Handler(t) \/ Mover(t)
  \/ \E l \in Loops : Loop(l)

Spec == Init /\ [][Next]_vars

\* Threads run (WF).  A thread that waits for the robot lock gets it some day,
\* though others take it in between: a loop sleeps between its ticks, a client
\* between its calls (SF).  A chunk has finitely many setpoints (SF ChunkEnd).
TakesLock(t) ==
  \/ RestLock(t) \/ Pop(t) \/ FinLock(t) \/ SetProfile(t) \/ BootLock(t)
  \/ ReadSlot(t) \/ MotionLock(t)

Fairness ==
  /\ \A t \in Threads :
       /\ WF_vars(Handler(t) \/ Mover(t))
       /\ SF_vars(TakesLock(t))
       /\ SF_vars(ChunkEnd(t))
  /\ \A l \in Loops : WF_vars(Loop(l)) /\ SF_vars(LoopLock(l))

FairSpec == Spec /\ Fairness

-----------------------------------------------------------------------------
(* Properties *)

\* The robot lock is exactly where the code between acquire and release is:
\* every path, the raising ones included, gives it back once.
LockDiscipline ==
  /\ \A t \in Threads : robotLock = t <=> pc[t] \in Locked
  /\ \A l \in Loops : robotLock = l <=> loopPc[l] = "write"

\* "we never call into the backend concurrently with its writer"
\* (server.py:427): two backend calls overlap only if one of them is a loop's
\* crash path or the stop of shutdown(), which take no lock.
LockedWritersExclusive ==
  \A x, y \in Writing : x = y \/ x \in Unlocked \/ y \in Unlocked

\* "a loop can neither appear during a motion op nor let a motion op slip past
\* once installed" (server.py:183-185).
LoopExcludesMotion ==
  slot # NoLoop => \A t \in Threads : pc[t] \notin Body

\* A chunk runs to its end under the profile it was admitted under, whoever
\* selects another one meanwhile (server.py:267-271, robot.py:246-261).
ChunkProfileStable ==
  \A t \in Threads : env[t] # NoProfile => env[t] = profile

\* The two ways a lease may go while the motion of its owner is in flight.
TakesLease(u, t) ==
  \/ pc[u] = "grant" /\ rpc[u] = "force"
  \/ pc[u] = "drop" /\ OwnerOf[u] = OwnerOf[t]

\* While its owner's motion runs a lease neither expires nor passes to another
\* client, except by force or by the owner's own release (server.py:186-189).
MotionKeepsLease ==
  [][\A t \in Threads :
       pc[t] \in Body /\ HeldBy(lease, OwnerOf[t]) /\ ~HeldBy(lease', OwnerOf[t])
         => \E u \in Threads : TakesLease(u, t)]_vars

\* A stop request that reaches a motion in flight ends its setpoints at the
\* next tick (server.py:424-429, robot.py:287-289), unless the motion has ended by then; so
\* does one that finds the robot lock taken (server.py:447-450).
StopHolds == \A t \in Threads : hit[t] # "late"

\* Every request is answered: no path waits forever on the lock, on a loop
\* thread's end or on a lease.
Answered == \A t \in Threads : (pc[t] # "idle") ~> (pc[t] \in {"idle", "off"})

\* A loop that was taken out of the server stops writing some day, even when
\* the join gave up on it (control_loop.py:166-174).
PoppedLoopEnds ==
  \A l \in Loops : (slot # l /\ loopPc[l] # "off") ~> (loopPc[l] = "dead" \/ slot = l)

-----------------------------------------------------------------------------
(* What is documented and does not hold; no run checks it (README, section 3).  *)

\* When a forced acquire displaces a client, "cancel that motion (next tick) --
\* otherwise the victim's chunk keeps streaming to completion under the thief's
\* lease" (server.py:237-239).
StolenMotionCancelled ==
  [][\A t, u \in Threads :
       (/\ pc[u] = "after" /\ pc'[u] = "idle" /\ rpc[u] = "force"
        /\ OwnerOf[u] \notin {OwnerOf[t], prev[u]}
        /\ pc[t] \in {"tick", "stream"}) => cancel']_vars

\* Releasing the lease tears a servo loop down, "else it would keep writing to
\* the arm with no lease holder (orphan writer)" (server.py:253-254).
NoOrphanLoop ==
  [][\A t \in Threads :
       (pc[t] = "rest" /\ rpc[t] = "release" /\ pc'[t] = "idle")
         => (slot = NoLoop \/ Held(lease))]_vars
==============================================================================
