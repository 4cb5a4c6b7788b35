------------------------------- MODULE RosNode -------------------------------
(***************************************************************************)
(* control_node.py: FlexivControlNode, whose callbacks share one Robot.    *)
(* They are in one reentrant group under a MultiThreadedExecutor, so any   *)
(* of them may run at the same time as any other and as itself, on the     *)
(* backend without a lock: as many at once as there are threads.           *)
(*                                                                         *)
(* todo[w] is what is left of the callback thread w runs: the steps of the *)
(* facade (enter, ensure, tick, gate, cancel) and of RdkBackend.  An       *)
(* exception ends the callback.  The chunk's own loop is in ChunkExecutor; *)
(* here a motion is a number of ticks in one space.                        *)
(***************************************************************************)
EXTENDS RdkBackend, Naturals, FiniteSets

CONSTANTS Workers,   \* threads of the executor
          Wanted,    \* the modes ~/set_mode is asked for
          Ticks,     \* bound: ticks of a chunk or a joint move
          MaxTrips   \* bound: faults

ASSUME NodeAssumption ==
  /\ IsFiniteSet(Workers) /\ Workers # {} /\ Wanted \subseteq Motion
  /\ Ticks \in Nat \ {0} /\ MaxTrips \in Nat

Kinds == {"none", "boot", "publish", "stop", "jog", "goal", "home", "mode"}
Answers == {"no", "told", "spared"}

VARIABLES kind,    \* the callback each thread runs
          todo,    \* the rest of it
          seen,    \* the control mode its last get_state reported
          cancel,  \* Robot._cancel
          asked,   \* a client has asked to cancel the goal of this thread
          up,      \* the constructor has returned
          trips,
          \* What has happened to the motions, which no step looks at:
          told,    \* a stop came while this one was under way, and whether another
                   \* thread has taken the flag or started a mode since
          calm,    \* nobody but this one has touched the mode since it began
          crossed  \* the arm's mode was started between two steps of another start

historyVars == <<told, calm, crossed>>
nodeVars == <<kind, todo, seen, cancel, asked, up, trips, historyVars>>
vars == <<rdkVars, nodeVars>>

Ops  == {"look", "sync", "report", "switch", "cache", "guard", "halt", "send",
         "enter", "ensure", "gate", "cancel", "finish", "ready"}
Step == [op : Ops, mode : Modes] \cup [op : {"tick"}, mode : Motion, left : 0 .. Ticks]

TypeOK ==
  /\ RdkTypeOK
  /\ kind \in [Workers -> Kinds] /\ todo \in [Workers -> Seq(Step)]
  /\ seen \in [Workers -> Modes]
  /\ cancel \in BOOLEAN /\ up \in BOOLEAN /\ trips \in 0 .. MaxTrips
  /\ asked \in [Workers -> BOOLEAN] /\ calm \in [Workers -> BOOLEAN]
  /\ told \in [Workers -> Answers] /\ crossed \in BOOLEAN

-----------------------------------------------------------------------------
(* The callbacks *)

Tick(space, n) == [op |-> "tick", mode |-> space, left |-> n]

\* Faulty: one tick too many.
Run_OneMore(space, n) ==
  <<Do("enter", space)>> \o ReadState \o <<Do("ensure", space), Tick(space, n + 1)>> \o ReadState

Run(space, n) ==
  <<Do("enter", space)>> \o ReadState \o <<Do("ensure", space), Tick(space, n)>> \o ReadState

StopRobot == <<Do("cancel", "IDLE")>> \o HaltArm

\* servo_cartesian_delta: a state to start from, and a chunk of one waypoint.
Jog == ReadState \o Run("NRT_CARTESIAN", 1)

Callback ==
  [publish |-> ReadState,
   stop    |-> StopRobot,
   jog     |-> Jog,
   goal    |-> Run("NRT_CARTESIAN", Ticks) \o <<Do("finish", "IDLE")>>,
   home    |-> ReadState \o SetMode("NRT_JOINT") \o Run("NRT_JOINT", Ticks)]

\* The constructor connects and starts Cartesian impedance before it spins.
Init ==
  LET all(v) == [x \in Workers |-> v] IN
  /\ Connected
  /\ \E w \in Workers :
       /\ kind = [all("none") EXCEPT ![w] = "boot"]
       /\ todo = [all(<<>>) EXCEPT
                   ![w] = SetMode("NRT_CARTESIAN") \o ReadState \o <<Do("ready", "IDLE")>>]
  /\ seen = all("IDLE") /\ cancel = FALSE /\ asked = all(FALSE) /\ up = FALSE
  /\ trips = 0
  /\ told = all("no") /\ calm = all(TRUE) /\ crossed = FALSE

Begin(w, k, steps) ==
  /\ up /\ kind[w] = "none"
  /\ kind' = [kind EXCEPT ![w] = k] /\ todo' = [todo EXCEPT ![w] = steps]
  /\ calm' = [calm EXCEPT ![w] = TRUE]
  /\ UNCHANGED <<rdkVars, seen, cancel, asked, up, trips, told, crossed>>

OnTimer(w) == Begin(w, "publish", Callback.publish)
OnStop(w)  == Begin(w, "stop", Callback.stop)
OnTwist(w) == Begin(w, "jog", Callback.jog)
OnHome(w)  == Begin(w, "home", Callback.home)
OnGoal(w)  == Begin(w, "goal", Callback.goal)
OnSetMode(w, m) == Begin(w, "mode", SetMode(m))

\* An accepted cancel only marks the goal.
OnCancel(w) ==
  /\ kind[w] = "goal" /\ asked' = [asked EXCEPT ![w] = TRUE]
  /\ UNCHANGED <<rdkVars, kind, todo, seen, cancel, up, trips, historyVars>>

-----------------------------------------------------------------------------
(* Their steps *)

At(w, op) == todo[w] # <<>> /\ Head(todo[w]).op = op
Then(w, steps) == todo' = [todo EXCEPT ![w] = steps]
Rest(w) == Tail(todo[w])

\* Past its entry and not yet at its end.
InMotion(w) ==
  LET has(op) == \E i \in 1 .. Len(todo[w]) : todo[w][i].op = op
  IN  has("tick") /\ ~has("enter")

\* What a step of w means to the motions of the others: it touches the mode; it
\* takes the flag they were to see, or the arm out of the IDLE they were to find.
Disturb(w) == calm' = [v \in Workers |-> calm[v] /\ (v = w \/ UNCHANGED <<arm, cached>>)]
Spare(w) ==
  told' = [v \in Workers |-> IF v # w /\ told[v] = "told" THEN "spared" ELSE told[v]]

\* The mode w starts is not the one another start has yet to write down.
Crosses(w, m) == \E v \in Workers \ {w} : At(v, "cache") /\ Head(todo[v]).mode \notin {m, "IDLE"}

Backend(w) ==
  /\ todo[w] # <<>> /\ Head(todo[w]).op \in {"look", "sync", "report", "switch", "cache", "guard", "halt", "send"}
  /\ LET s == Head(todo[w]) IN
       /\ ~Raises(s)
       /\ Effect(IF s.op = "sync" THEN Do("cache", "IDLE") ELSE s)
       /\ seen' = IF s.op = "report" THEN [seen EXCEPT ![w] = cached] ELSE seen
       /\ Then(w, IF Stale(s) THEN <<Do("sync", "IDLE")>> \o Rest(w) ELSE Rest(w))
  /\ IF Head(todo[w]).op = "switch"
     THEN Spare(w) /\ crossed' = Crosses(w, Head(todo[w]).mode)
     ELSE UNCHANGED <<told, crossed>>
  /\ Disturb(w)
  /\ UNCHANGED <<kind, cancel, asked, up, trips>>

\* An exception: out of the callback, which answers with it or logs it.
Raise(w) ==
  /\ todo[w] # <<>> /\ Raises(Head(todo[w]))
  /\ Then(w, <<>>)
  /\ UNCHANGED <<rdkVars, kind, seen, cancel, asked, up, trips, historyVars>>

\* Robot.stop: the flag first, for every motion under way.
SetCancel(w) ==
  /\ At(w, "cancel")
  /\ cancel' = TRUE /\ Then(w, Rest(w))
  /\ told' = [v \in Workers |-> IF v # w /\ InMotion(v) THEN "told" ELSE told[v]]
  /\ UNCHANGED <<rdkVars, kind, seen, asked, up, trips, calm, crossed>>

\* A stop pending at the entry aborts the motion, which a goal survives.
Enter(w) ==
  /\ At(w, "enter")
  /\ cancel' = FALSE
  /\ IF cancel
     THEN /\ Then(w, ReadState \o IF kind[w] = "goal" THEN <<Do("finish", "IDLE")>> ELSE <<>>)
          /\ Spare(w)
     ELSE Then(w, Rest(w)) /\ UNCHANGED told
  /\ UNCHANGED <<rdkVars, kind, seen, asked, up, trips, calm, crossed>>

\* The mode is started unless it is one the motion can use: any Cartesian mode,
\* or any mode but IDLE and the Cartesian ones.
Usable(w) == IF Head(todo[w]).mode \in Cartesian THEN seen[w] \in Cartesian
             ELSE seen[w] \notin Cartesian \cup {"IDLE"}

Ensure(w) ==
  /\ At(w, "ensure")
  /\ Then(w, (IF Usable(w) THEN <<>> ELSE SetMode(Head(todo[w]).mode) \o ReadState) \o Rest(w))
  /\ UNCHANGED <<rdkVars, kind, seen, cancel, asked, up, trips, historyVars>>

\* A tick that goes on: its state, its setpoint, and the ticks after it.
Setpoint(t) == ReadState \o <<Do("gate", t.mode), Do("send", t.mode), Tick(t.mode, t.left - 1)>>

\* Faulty: a tick that does not look at the flag.
Tick_Deaf(w) ==
  /\ At(w, "tick")
  /\ LET t == Head(todo[w]) IN
       Then(w, IF t.left = 0 THEN Rest(w) ELSE Setpoint(t) \o Rest(w))
  /\ UNCHANGED <<rdkVars, kind, seen, cancel, asked, up, trips, historyVars>>

TickOver(w) ==
  /\ At(w, "tick")
  /\ LET t == Head(todo[w]) IN
       IF t.left > 0 /\ cancel
       THEN cancel' = FALSE /\ Spare(w) /\ Then(w, HaltArm \o Rest(w))
       ELSE /\ Then(w, IF t.left = 0 THEN Rest(w) ELSE Setpoint(t) \o Rest(w))
            /\ UNCHANGED <<cancel, told>>
  /\ UNCHANGED <<rdkVars, kind, seen, asked, up, trips, calm, crossed>>

\* A faulted robot, the contact wrench or the filter ends the motion: past the
\* setpoint and the ticks left.
Gate(w) ==
  /\ At(w, "gate")
  /\ \/ ~fault /\ Then(w, Rest(w))
     \/ Then(w, HaltArm \o Tail(Tail(Rest(w))))
  /\ UNCHANGED <<rdkVars, kind, seen, cancel, asked, up, trips, historyVars>>

\* The goal is over: an accepted cancel stops the robot and says CANCELED.
Finish(w) ==
  /\ At(w, "finish")
  /\ Then(w, IF asked[w] THEN StopRobot ELSE <<>>)
  /\ UNCHANGED <<rdkVars, kind, seen, cancel, asked, up, trips, historyVars>>

\* The executor spins; a constructor that raised leaves no node.
Ready(w) ==
  /\ At(w, "ready") /\ up' = TRUE /\ Then(w, Rest(w))
  /\ UNCHANGED <<rdkVars, kind, seen, cancel, asked, trips, historyVars>>

Return(w) ==
  /\ kind[w] # "none" /\ todo[w] = <<>>
  /\ kind' = [kind EXCEPT ![w] = "none"]
  /\ seen' = [seen EXCEPT ![w] = "IDLE"] /\ asked' = [asked EXCEPT ![w] = FALSE]
  /\ told' = [told EXCEPT ![w] = "no"] /\ calm' = [calm EXCEPT ![w] = TRUE]
  /\ UNCHANGED <<rdkVars, todo, cancel, up, trips, crossed>>

RobotTrips ==
  /\ trips < MaxTrips /\ trips' = trips + 1 /\ Trip
  /\ calm' = [w \in Workers |-> FALSE]
  /\ UNCHANGED <<kind, todo, seen, cancel, asked, up, told, crossed>>

RobotRecovers == Recover /\ UNCHANGED nodeVars

Worker(w) ==
  \/ Backend(w) \/ Raise(w) \/ SetCancel(w) \/ Enter(w) \/ Ensure(w)
  \/ TickOver(w) \/ Gate(w) \/ Finish(w) \/ Ready(w) \/ Return(w)

Next ==
  \/ \E w \in Workers :
       \/ Worker(w) \/ OnTimer(w) \/ OnStop(w) \/ OnCancel(w)
       \/ OnTwist(w) \/ OnHome(w) \/ OnGoal(w)
       \/ \E m \in Wanted : OnSetMode(w, m)
  \/ RobotTrips \/ RobotRecovers

Spec == Init /\ [][Next]_vars

-----------------------------------------------------------------------------
(* Properties *)

Streams(w) == At(w, "send") /\ todo'[w] = Rest(w)
Refused(w) == At(w, "send") /\ todo'[w] # todo[w] /\ ~Streams(w)

\* The next step of some thread is s.
Coming(s) == \E v \in Workers : todo[v] # <<>> /\ Head(todo[v]) = s

\* A stop() has set the flag and not yet halted the arm.
HaltAhead == \E v \in Workers : todo[v] = HaltArm

\* A motion that a stop() found under way streams nothing once the arm has been
\* halted (robot.py:397-401, 840-842), however many motions, polls, mode changes
\* and stops run beside it, unless one of them has taken the one flag before this
\* motion looked at it, or has put the halted arm into a mode again.
StopLands == [][\A w \in Workers : Streams(w) => told[w] # "told" \/ HaltAhead]_vars

\* A robot that lost its mode to an e-stop or a stop is put into one before the
\* next motion streams (flexiv_rdk.py:255-266, robot.py:311-315): a setpoint is
\* refused only if something changed the mode under the motion's feet, or if the
\* cache is behind or wrong because another mode change is half done or two
\* have crossed.
NeverMisled ==
  [][\A w \in Workers :
       Refused(w) => ~calm[w] \/ crossed \/ (arm # "IDLE" /\ Coming(Do("cache", arm)))]_vars

\* The firmware guard is armed at mode start (robot.py:353-354, flexiv_rdk.py:
\* 344-347): a Cartesian setpoint goes to an arm that watches the contact wrench,
\* or that some set_mode under way is still to make watch it, whatever raises
\* half-way and however starts, halts and faults mix.
StreamsGuarded ==
  [][\A w \in Workers :
       (Streams(w) /\ arm \in Cartesian)
         => armed \/ \E m \in Cartesian : Coming(Do("cache", m)) \/ Coming(Do("guard", m))]_vars

-----------------------------------------------------------------------------
(* What is documented and does not hold with two motions at once.  The run ros_stop *)
(* refutes the first; no run checks the second (README, section 3).                 *)

\* "a concurrent stop()/request_stop() cancels mid-chunk" (robot.py:287-288):
\* once stop() has halted the arm, a motion that was under way streams no more.
StopAnswered == [][\A w \in Workers : Streams(w) => told[w] = "no" \/ HaltAhead]_vars

\* The guard "was armed with the profile value at mode start" (robot.py:353-354):
\* it fails while another thread's set_mode is between the switch and the guard.
GuardedAlways == [][\A w \in Workers : (Streams(w) /\ arm \in Cartesian) => armed]_vars
===============================================================================
