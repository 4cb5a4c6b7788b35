# A TLA+ development of flexiv_control

`flexiv_control` puts one robot arm behind a safety filter, a reactive control
loop and a JSON server with a single-writer lease. These modules model the parts
of it in which an order of events decides whether the arm is safe: who may write
to it, what reaches it, and what stops it. TLC checks the models on small
instances; TLAPS proves the theorems listed below for every value of the
constants. Line numbers are of `src/flexiv_control/` in the repository.

## 1. The system

A client (`client/remote_robot.py`) sends one JSON line per call to
`server/server.py`. `FlexivControlServer` runs a handler thread per connection.
A handler checks or takes the **lease** (`server/lease.py`), takes the **robot
lock**, and calls the **facade** (`robot.py`), which runs motions tick by tick
through the **safety filter** (`safety.py`) into a **backend** (`backends/`).
Instead of motions a client may install a **servo loop**
(`server/control_loop.py`): a thread of its own that streams the latest target at
a fixed rate, under the same robot lock. The same loop runs without a server for
MPC and RL, fed by `recede.py` with **chunks** (`action_chunk.py`,
`interpolation.py`). A **host lock** (`server/host_lock.py`) keeps two processes
off one robot. A C++ server (`cpp/src/rt_server.cpp`) does the streaming at 1 kHz
and a ROS 2 node (`ros2/.../control_node.py`) offers the facade as topics and
actions.

| Component | State | Operations | What is hard | What makes it correct |
|---|---|---|---|---|
| Lease | owner and expiry, RPC bodies in flight | acquire, hold, heartbeat, release, check | each method is several sections on a lock; TTL against long motions; forced acquires; dead clients | one holder; it keeps the lease while its RPC runs; a thief's lease is not touched by the victim's exit; a dead holder's lease is freed |
| Server | robot lock, cancel flag, loop slot, profile, listening socket | 20-odd RPC methods, shutdown | a thread per connection; state read before a lock and used after; stop and release while a motion has the lock; joins with a timeout | one writer; no motion beside a loop; a stop reaches its motion; every call is answered |
| Facade and chunk execution | cancel flag, filter, gripper and wrench state of a chunk | chunks, joint moves, gripper, home, ritual, stop | order of the gates of a tick; who consumes the cancel flag; deferred closes; giving back what a chunk was lent | a stop ends the motion; the guard is given back; no close is lost or reordered |
| Servo loop | target buffer, chunk iterator, filter reference, command stamp | set targets, enqueue, start, stop, tick | two locks; producers against the thread; faults; staleness; mode flips | setpoints follow on each other; silence ends in a hold; a fault ends the stream; the newest command wins |
| Safety filter | previous command, its velocity, profile | reset, filter pose, filter joints, swap profile | caps applied one after the other; profile swaps in motion | no step above the caps; never further outside box or limits |
| Chunk, interpolation | none | horizon, relative to absolute, ticks | rounding of durations to ticks | every waypoint reached, speed respected |
| Remote client | socket, request ids, heartbeat thread, what it believes of its lease | call, acquire, release, close | one socket for two threads; timeouts and Ctrl-C in the middle of a call; the lease lost and taken back | a reply goes to its call; an expired lease is recovered; a lost one is given up |
| C++ server | mailbox, watchdog, safety box | network thread, rt task, start and end | a task that may not wait; torn or old setpoints; a port in use | only a whole, fresh, clipped setpoint is streamed; a stop reaches the robot |
| Vendor backend | the mode of the arm and its cache, the contact guard | set_mode, read_state, stop, stream | nothing locks; the arm falls back to IDLE by itself | the cache is corrected before it is used; the guard is armed wherever the arm moves |
| ROS 2 node | one facade, no lock | timer, topics, services, an action | callbacks of a reentrant group overlap | a stop ends the motion; a lost mode is restored |
| Host lock | lock file | acquire, release | check-then-write, dead holders | one live holder |
| Teleop, recede, gym, adapters, viz, CLI, config, protocol | little or none | sequential glue | - | - |

`PROJECT.json` lists every one of them with its status, and the hazards at the
lines where they bite.

## 2. Modules

    LeaseOps ─┬─ Lease ── MCLease, LeaseProofs        LeaseService (abstract)
              │                                          ▲ implemented by Lease
              ├─ ControlServer ── MCControlServer, ControlServerProofs
              └─ RemoteClient ─── MCRemoteClient, RemoteClientProofs
    FilterOps ┬─ SafetyFilter ─── MCSafetyFilter, SafetyFilterProofs
              ├─ ServoLoop ────── MCServoLoop, ServoLoopProofs
              └─ RtServer ─────── MCRtServer, RtServerProofs
    ChunkExecutor ── MCChunkExecutor, ChunkExecutorProofs
    RdkBackend ───── RosNode ── MCRosNode, RosNodeProofs

* **LeaseOps**: the critical sections of `class Lease` as operators on a lease:
  `Swept` (`_expire_if_stale`), `Available`, `Granted`, `Renewed`, `HeldBy`. `Aged`
  is the passage of time: the time left, down to -1 for "past the expiry".
* **Lease**: threads that run those sections one at a time. `hold` is `HoldSweep`,
  `HoldCheck`, `HoldEnter`, the body, `HoldExit`; `acquire` is `AcquireSweep` and
  `AcquireGrant` or `AcquireRefuse`; and so on for every method. `Die` kills a client, whose
  RPC in flight still runs to its end.
* **LeaseService**: what the lease promises, without threads or clock: it
  changes hands only when it is free, given up by its holder, taken with force, or
  lapsed with nothing in flight. `Lease` implements it under
  `holder <- lease.owner`, `late <- Overdue(lease)`, `pins <- holds`.
* **ControlServer**: every RPC handler of `server.py` as points of a program
  counter; a step is the code between two points another thread can see. A motion
  is a list of stages (`Plans`): a vendor call, a chunk, the gripper's settling, the
  gate of `go_home_safe`. A chunk consumes the cancel flag at its entry and at each
  tick, as `robot.py` does. The loop's thread is top / want / write / crash. A backend
  call may raise wherever it is made (`Faulty`), and a `join` may give up on a live thread
  wherever that is. A stop that found the robot lock taken sets the flag again (`StopBusy`,
  server.py:424-429) before it answers. Lease methods are atomic here:
  `Lease` is where their sections interleave.
* **ChunkExecutor**: one `execute_cartesian_chunk` or `execute_joint_chunk` after
  another, tick by tick. `Begin` picks a chunk and its allowance, `Autostart` and `Arm`
  set the mode and the firmware's guard; a tick is one of `Cancelled`, `FaultStops`,
  `ContactStops`, `FilterStops` or a setpoint with the gripper's due, held back
  or aborted commands; the end fires or records the close still pending and
  gives the allowance back. `Stop`, `RequestStop`, `SetProfile` and a drop of the
  mode come from other threads between any two of these. `Stop` is both halves of
  `Robot.stop`; their split is a `RequestStop` and then a `Stop` or a `Drop`.
  `clear_stop` is not called here: a fresh acquire is in `ControlServer`.
* **RemoteClient**: the threads of one client (the one that commands and its
  heartbeat threads) share `_io_lock`, the socket and the request ids; the
  server's handler (`Serve`) answers in order. A call may time out, be
  interrupted, or lose the connection between the write and the read; the
  heartbeat re-acquires what expired and gives up what was taken; `close`
  releases, joins and shuts. A read that meets the end of the connection returns nothing,
  which a heartbeat takes for a refusal, or raises, which it counts. A rival acquires, forces and lets go at any time.
* **FilterOps**: the arithmetic of `SafetyFilter` on one axis: box, jump cap, speed
  cap, acceleration cap, in the code's order; refusals; joints.
* **SafetyFilter**: the class: any order of `reset`, `filter_cartesian`,
  `filter_joint` and `set_profile`, with any target and any measured state.
* **ServoLoop**: the loop from the producers' side and the arm's. Producers update
  the buffer under its lock; the thread's tick is `Read`, `Advance` or
  `Exhausted`, `Snapshot` and one of the `Write...` actions, which are the sections
  between which other threads step. The environment ages the command stamp, lets
  the robot fault and drop to idle, and lets an operator move the faulted arm.
* **RtServer**: main (`Seed`, `Spawn`, ..., `JoinNet`), the network thread with its
  double buffer written field by field (`PubLock` ... `PubUnlock`), the real-time
  task that tries the mutex, copies field by field, ages, clips and streams; signals,
  clients that connect, send, ask for a stop and hang up; and a clock that is the
  watchdog's question. The thread looks at the stop flag only between reads, and after a
  line it may have more of them in its buffer (`NextLine`), those after a stop included.
* **RdkBackend**: the methods of `flexiv_rdk.py` as sequences of calls into the
  vendor's library, what each does to the arm and to the cached mode, and when it
  raises. **RosNode** runs them: a worker thread of the executor has a callback and
  what is left of it (`todo`). The group is reentrant, so as many callbacks run at once as
  there are threads, of any kinds, several of one kind included, and they interleave
  between any two calls. Three variables that no step reads record what happened to a
  motion: a stop found it under way, and whether another thread has taken the flag or
  started a mode since (`told`); nobody else has touched the mode (`calm`); the mode the
  arm has was started in the middle of another start (`crossed`).

Operators whose name has an underscore (`Reset_KeepsVelocity`) are plausible bugs: each
replaces the definition after it to show that a property notices.

## 3. Runs

| Run | Shows | Bounds |
|---|---|---|
| `lease` | `HoldsCounted`, `ExitSparesOthers`; the lease implements `LeaseService`; `DeadHolderFreed` | 2 owners, 2 threads, TTL 1: a victim, a thief, and their two calls at any point of each other |
| `server` | `LockDiscipline`, `LockedWritersExclusive`, `LoopExcludesMotion`, `ChunkProfileStable`, `MotionKeepsLease` | 2 clients, one of which sends every method and the other all but the two homings, 1 loop, 2 profiles, faults, TTL 0 (any silence is too long) |
| `server_live` | `StopHolds`, `Answered`, `PoppedLoopEnds` | 1 client on 2 connections: one moves, the other stops, releases and starts loops |
| `chunk` | `GuardGivenBack`, `GripOrder`, `ClosesAccounted`, `StopHoldsArm` | 5 chunks of up to 3 waypoints, which between them gate, defer and undo closes, are cut by `n_execute`, and ask for more or less than they may have; a settle window of 2 ticks; 2 profiles; contacts below, between and above every limit |
| `filter` | `SpeedBounded`, `StepsBounded`, `AccelBounded`, `BoxKept`, `JointLimitsKept` | positions 0..5 on both sides of every box; a slow, a rejecting and a ramped profile, with either cap the tighter one |
| `loop` | `SteadyWithinStep`, `FaultStopsStream`, `SilenceHolds` | positions 0..2 at one step per tick, a target out of reach of the guided arm; two profiles that differ in box, refusal and watchdogs |
| `rt` | `WholeSetpoint`, `SilentAfterStop`, `HoldWhenStale`, `StopReachesRobot` | three setpoints that differ in pose and wrench; an arm that starts outside the box, so that the clip matters from the first tick |
| `client` | `Attributed`, `ExpiryRecovered`, `HeartbeatEnds` | 1 heartbeat thread, 1 rival, 1 fault of any kind, TTL 0, 2 failures to give up after, ids modulo 2 |
| `ros` | `StopLands`, `NeverMisled`, `StreamsGuarded` | 2 interchangeable threads, each of which runs any callback at any time; 2 ticks a chunk, 1 fault |

The bounds are enough because every interaction is between two actors, or between an
actor and a state that a third left behind: two connections, one producer and the
thread, the loop and a motion, the two threads of the C++ daemon, the client's two. In
`server` a second loop object exists in the code only after the first has been popped,
and the identity is then reused. In `client` an id is reused only when no reply to its
first use is in flight any more, which two ids and one request in the queue
allow for; the ids of the code grow for ever. In `ros` two motions, or a motion and a stop,
a poll or a mode change, are at any point of each other; a thread that has answered is the
third party of the next callback. Three threads are beyond TLC, and `RosNodeProofs` is for
any number. What the bounds cut off in the data (number of profiles, width of the axis, number of threads, shape of a
chunk) the theorems below do not.

Two passing runs are bounded so as to leave out what a run below shows to be wrong:
`server_live` sends no homing ritual (`server_ritual`), and `client` has one heartbeat thread
and does not state `HeldIsRefreshed` (`client_orphan`); a thread that a join gave up on and
that lives on beside its successor is therefore in no passing run.

The type invariants carry the counts the code relies on: `_holds` never falls below zero
(`lease`, `server`), which an exit that does not look whether anybody holds, or an entry
counted twice on the way out, would break.

`server` and `ros` are run with `CHECK_DEADLOCK FALSE`: `shutdown` ends the server and
its connections, and a constructor of the node that raises ends the node, so there the
system may really stop.

### Disagreements between the code and what it says

Three have a run that TLC ends with a counterexample.

* `server_ritual`: the lift of `go_home_safe` consumes the cancel that a forced
  acquire set, so the gate that is to prevent the sweep home finds nothing
  (robot.py:805).
* `client_orphan`: the heartbeat thread, told that a rival has the lease, clears the
  client's flags without looking again; a main thread that took the lease back by
  force in between holds a lease nobody refreshes (client/remote_robot.py:208).
* `ros_stop`: one cancel flag serves all motions and the first to look clears it. A goal
  that enters after `~/stop` consumes it, the next starts the mode again, and the
  motion that was to be stopped streams on (robot.py:400, control_node.py:120). `StopLands`
  says what remains: a stopped motion streams on only if some other thread has taken the
  flag or started a mode in between.

Eight more are stated at the end of their modules, as what is documented and does not
hold. None of them is checked by a run; naming one as the `PROPERTY` of `chunk.cfg`,
`rt.cfg`, `filter.cfg`, `loop.cfg`, `server.cfg` or `ros.cfg` makes TLC print the behaviour.

* `ChunkExecutor!AbortIsFinal` (action_chunk.py:152-154): "once a close is skipped,
  every LATER closing command is skipped too", but a force-grasp after it is sent.
* `RtServer!StartsFromArm` (rt_server.cpp:367-368, 380): the network thread runs before
  main has read the mailbox it seeded, so the task may start from a client's setpoint,
  or, if the mutex is busy, from the pose `SetPoint` is born with, instead of the arm's.
* `SafetyFilter!StaysInBox` (safety.py:378): with `max_linear_accel` set the stream
  overshoots the workspace box, because the acceleration cap comes after the clip.
* `ServoLoop!AnchoredToArm` (control_loop.py:325): when the target flips between pose
  and joint, the filter's reference for the new kind is stale, and the arm is
  commanded from where it once was.
* `ServoLoop!NewestWins` (control_loop.py:240): a target that preempts a chunk at the
  wrong moment is overwritten by that chunk's next setpoint.
* `ControlServer!StolenMotionCancelled` (server.py:235): the previous owner is read
  before the acquire. A victim that acquires and starts in between is not cancelled.
* `ControlServer!NoOrphanLoop` (server.py:456): `start_servo_loop` checks the lease,
  then waits for the robot lock; a release may come in between and the loop is
  installed all the same.
* `RosNode!GuardedAlways` (robot.py:353-354): the contact guard "was armed with the
  profile value at mode start", but a second callback may stream while the `set_mode` of
  the first is between the switch and the guard (flexiv_rdk.py:335-347). `StreamsGuarded`
  says that such a `set_mode` is then always under way.

Others are part of how the properties are stated, or were met while modelling:

* `shutdown()` and the loop's crash path command the backend without the robot lock
  (server.py:142, control_loop.py:213; `LockedWritersExclusive` excepts exactly these),
  and `stop()` goes on after a `join` that timed out although the comment after it
  takes the thread for dead (control_loop.py:169-172).
* `TryRead` fails when the network thread has the mutex; the task then keeps the
  setpoint it has, while the age it looks at may be the new one's
  (rt_server.cpp:97-109), so a setpoint that had gone stale is alive again for a tick.
* `main` joins the network thread after the stop, which sits in `accept` until somebody
  connects (rt_server.cpp:424); the robot has been stopped by then.
* An acquire that finds the lease free clears the cancel flag (server.py:239-246). If a
  motion's lease lapses between the check and the count of `hold`, the motion runs
  without one, and such an acquire undoes a stop that had reached it; `server_live`
  therefore lets one connection acquire and move, and `StopsHold` says so.
* `set_safety_profile` changes what the facade checks but not the guard the firmware was
  armed with (robot.py:158-161), which is why `GuardGivenBack` says "a profile's".
* `set_mode` may raise after it switched (flexiv_rdk.py:335-356), without having armed the
  guard. The vendor refuses the guard only when the arm is in no Cartesian mode any more, so
  an arm that still is in one is armed or about to be; `StreamsGuarded` depends on that.
* docs/safety.md:41 says a pose jump is rejected and the arm held. The filter shortens the
  step to the cap and lets it through (safety.py:338-350); `StepsBounded` holds either way.
* A goal that is cancelled is stopped after its chunk is over (control_node.py:282-283),
  when nothing consumes the flag any more: the next goal is aborted at its entry.

## 4. Fairness

* `Lease`: threads finish their calls, time passes, and somebody looks at the lease now
  and then (`Query`): expiry is lazy, so a dead holder's lease is freed when the next
  client asks. Nothing obliges a client to acquire, to release, or to live.
* `ControlServer`: handler threads and loops run (WF). A thread that waits for the
  robot lock gets it some day (SF): the lock is free between calls and between
  the ticks of a loop, which sleeps. A chunk has finitely many setpoints (SF on
  `ChunkEnd`).
* `ServoLoop`: the thread ticks and time passes (WF). Producers owe nothing, which
  is what `SilenceHolds` is about.
* `RemoteClient`: the handler answers, the threads go on (WF), and one that waits for
  `_io_lock` gets it some day (SF). Nobody has to call, the rival owes nothing, and no
  fault has to occur.
* `RtServer`: main, the network thread inside `Publish`, the task and the clock (WF). No
  client has to connect, to send or to leave, and no signal has to come.
* `ChunkExecutor` and `RosNode` have safety properties only, and no fairness.

## 5. What is proved

Every invariant and every action property that a passing run checks is a theorem. The
proofs are for arbitrary constants, under the ASSUMEs of the modules: sets of threads,
loops and owners that do not overlap and, for the lease's holds, the client's heartbeats
and the node's callbacks, finitely many threads; profiles whose box and limits are not
empty; chunks with a waypoint; a value `None` that is no command. `WrapAssumption` says that
the ids of `RemoteClient`, which come round, are more than the faults: the source's never
come round. One theorem has a hypothesis besides, `StopsHold` of the server: it leaves out
what TLC shows to be wrong, and says so below.

* **Lease** (`LeaseProofs`): type correctness, with `_holds` never negative; `HoldsAreExact`, `_holds` is the number
  of RPC bodies in flight; `ExitLeavesThief`; and `ImplementsService`, the refinement
  of `LeaseService`. They rest on: a thread inside a call has an owner (`CallsAreOwned`).
* **Server** (`ControlServerProofs`): type correctness, `LockDisciplined`,
  `WritersExclude`, `LoopAndMotionExclude`, `ChunkKeepsProfile`. The inductive
  invariant adds to the types and the lock's discipline: which method each point
  serves and that the stages left fit it (`Serving`); that an installed loop means no motion in
  its body (`SlotFree`); that a chunk's profile is current while it is in flight
  (`EnvInChunk`). The lock alone does not give the last two: a loop may be installed
  while a motion waits, which is why the check must be made under the lock.
* **Server and lease** (`ControlServerProofs`): `MotionsKeepLease`. Because motions hold the
  robot lock there is at most one, so `_holds` is 1 while one is in its body and 0
  otherwise (`Counted`); only `Pin` and `Unpin` cross that boundary (`HandlerKeeps`,
  `MoverKeeps`, `OthersKeep`). With one hold no sweep drops the lease, and of the
  actions that write it two can take it from its owner (`LeaseStep`).
* **Server and stops** (`ControlServerProofs`): `StopsHold`, for sessions without a homing
  ritual (`NoRitual`) whose motions and acquires come over one connection (`OneCommander`),
  beside any number of connections that stop, release and stream. The invariant
  `Reached`: the flag of a stop that came to a motion stays up while a chunk of it is
  still to come. Without the ritual a plan has at most one chunk (`Planned`), so nothing in
  the motion consumes the flag before that chunk looks; with one commander nobody acquires
  while a motion runs. Neither can be dropped: `server_ritual`; and an acquire that finds
  the lease free clears the flag of the motion before it (server.py:239-246), whose lease
  may have lapsed between the two sections of `hold`.
* **Chunk execution** (`ChunkExecutorProofs`): type correctness; `StopHolds`, because an
  unconsumed stop is still pending and a setpoint under way finds the arm idle
  (`Stopped`); `AllowanceReturned`, because a guard that is no profile's own belongs to
  a chunk in progress that was granted an allowance (`Lending`); `GripperInOrder`: what
  was sent and what is pending are in the order of the waypoints, nothing sent is
  beyond the current one, and a pending close comes due before the segment's next
  command (`Ordered`); `NoCommandLost` (`ClosesAccounted`): of every segment the walk has
  come to, the command was sent, is the pending close, or is a close skipped after the
  recorded abort, at every point and not only at the end (`Accounted`).
* **Remote client** (`RemoteClientProofs`): type correctness; `RepliesAttributed`, from
  an account of the connection (`Wire`): who reads has `_io_lock`; the requests and replies
  in flight have consecutive ids and are no more than the faults so far and the call
  being read (`Numbered`); the last of them is that call (`Recent`). A reply with the
  expected id is therefore the last in flight, because fewer than `Ids` are; the others
  are refused. `ExpiredLeaseRecovered`: an acquire is never answered "nobody holds it"
  (`NeverLost`), so a heartbeat thread that finds the lease free has the one way out.
* **Vendor backend and ROS node** (`RosNodeProofs`), for any number of threads running any
  callbacks at once: `NodeTypeCorrect`, `StopEndsMotion`, `SetpointsFit`, `SetpointsGuarded`.
  What is left of a callback is one of finitely many shapes of program; they are sets
  built from the end backwards, `Op(s, Q)` being the programs that start with `s` and
  go on as one of `Q`, and the invariant `Placed` says which of them each callback is in and
  what is known there of the flag, the arm, the cache and the last state read. Besides it the
  invariant says: the constructor runs alone (`BootsAlone`); unless two starts have crossed,
  the cache is right, or IDLE, or about to be assigned (`Believed`); an arm in a Cartesian
  mode is guarded or about to be, by whichever thread (`Watched`). A step of another thread
  keeps what `Placed` says of a motion because it keeps the mode or ends `calm`, and keeps
  the flag and an idle arm or ends `told` (`Env`, `Spared`). The exceptions in the three
  properties cannot be dropped: `StopAnswered` and `GuardedAlways`, which have none, fail.
* **C++ server** (`RtServerProofs`): type correctness; `SetpointsAreWhole`: whoever is in
  the critical section has the mutex (`Locked`), so the buffer the task copies is not the
  one being written, and each is whole as far as it has got (`Sound`);
  `StoppedIsSilent`: the task is in a cycle only while main waits (`Stages`).
* **Safety filter** (`SafetyFilterProofs`): type correctness, and all five
  properties of the run. `SpeedIsBounded` needs that the present profile's speed is within the
  fastest so far; the others follow per step from the range of the caps: a step
  clamped twice is within both, and a point between the last command and one in the
  box is no further out than the last.
* **Servo loop** (`ServoLoopProofs`): type correctness, `SetpointsAreSteady`,
  `FaultStopsTheStream`. The invariant: in a motion mode the filter's reference *of
  that mode* is where the arm is (`Anchored`, and exactly what fails across a flip);
  unless the robot went idle, the tick under way saw the arm where it is (`Seen`);
  a tick past its fault gate has seen a fault a setpoint already went out in (`Gated`).

Only model-checked: everything with fairness (`DeadHolderFreed`, `Answered`,
`PoppedLoopEnds`, `SilenceHolds`, `HoldWhenStale`, `StopReachesRobot`, `HeartbeatEnds`),
because liveness under fairness and ENABLED are out of the prover's reach. Neither
induction over data nor RECURSIVE operators are in its reach either, and no theorem says
what a recursive definition computes; no module declares a RECURSIVE operator.

## 6. Abstractions

* Time is the lease's age and the command's: "older than its timeout" or not. How
  long a hold lasts before `hold_timeout_ms` is left open, and so is the age of a state.
* The filter's norm over three axes and slerp over quaternions become a clamp on
  one axis each. A step scaled along a line stays between its ends on every axis, so
  the box and step properties carry over; a Euclidean bound on a diagonal step does
  not, and neither does the tolerance of `np.allclose`, within which an
  excess is not clipped.
* In `ServoLoop` the arm has one degree of freedom, where a pose and a joint
  position are one number, and reaches each setpoint in its tick; profiles have no
  acceleration cap; the writer lock appears only as the atomicity of the write
  section (the wait for it is in `ControlServer`); the pending gripper command and
  the statistics are left out, and so is a join that times out on a
  live thread.
* A chunk in `ControlServer` and `RosNode` is a number of ticks; its setpoints, its
  gripper and its wrench limit are in `ChunkExecutor`. There a wrench is one number, what
  the filter says of a setpoint is left open (`SafetyFilter` is where it is computed),
  and pi/2 in the duration of a segment is 11/7.
* In `RemoteClient` a request is its method and its id; what the server does with
  it is one step on the lease, since `ControlServer` has the rest. A lost connection is
  not replaced: `connect` after `close` starts a new object's life.
* In `RtServer` a pose is one number and so is the wrench; a copy of a setpoint is
  two steps, one for each.
* In `RdkBackend` impedance, force control and the null space leave no trace that the
  mode, the cache and the guard do not; force control that survives from one Cartesian
  mode into the next (flexiv_rdk.py:348-354) is therefore not visible.
* `ping`, `get_lease`, `get_safety_profile` and what `get_state` does under the robot lock
  (server.py:283-302: it tries the lock and otherwise answers with a snapshot) change no
  state and are left out. So is `set_safety_profile` of a goal of the ROS node
  (control_node.py:256-257): the profile is no part of `RosNode`, whose `Gate` ends a
  chunk by a fault, a contact or the filter at any tick, whatever the profile.

### Not modelled

* **Host lock**: a file that two processes may both find free (host_lock.py:94). It
  meets no other part of the program.
* **Wire protocol, configuration and value types**: coding and decoding without state.
* **Teleoperation, receding-horizon runner, gym environment, LeRobot adapter,
  visualisation, command line**: sequential callers of the facade or of the remote
  client; what they may call, and in what order, the models of those leave open.
* **The two simulators**, the gripper and the primitives of the vendor backend:
  physics, and calls that the models above take as steps that may fail.
* **Interpolation** beyond the number of ticks, and the constructors of a chunk from
  arrays: arithmetic on floating-point arrays, whose bounds a model on integers would
  not show.

## 7. Plan

1. **HostLock**: processes, dead holders, check-then-write.
2. The pending gripper command in `ServoLoop`, and what a new one loses
   (control_loop.py:312).
3. An abstract single writer that `ControlServer` implements, with `RemoteClient`
   composed on top of it.

## 8. Checking

    tlc -config lease.cfg MCLease        # and so on, see PROJECT.json "runs"
    tlapm ControlServerProofs.tla        # and the other *Proofs modules
