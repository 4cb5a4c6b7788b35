-------------------------- MODULE ChunkExecutorProofs --------------------------
(***************************************************************************)
(* Theorems about ChunkExecutor, for any chunks, profiles, contacts and    *)
(* settle window: its types, that a stopped arm gets no setpoint, that the *)
(* wrench allowance is given back, and that the gripper's commands are     *)
(* neither reordered nor repeated.                                         *)
(***************************************************************************)
EXTENDS ChunkExecutor, TLAPS

\* TypeOK in parts, for the provers.
Flags ==
  /\ cancel \in BOOLEAN /\ lent \in BOOLEAN /\ halted \in BOOLEAN
  /\ closeIssued \in BOOLEAN /\ closeAborted \in BOOLEAN /\ clipped \in BOOLEAN

Robot ==
  /\ mode \in Modes /\ guard \in Nat /\ profile \in Profiles /\ cap \in Nat
  /\ pc \in {"idle", "start", "arm", "tick", "write", "after", "finally"}
  /\ read \in Reads
  /\ outcome \in {"none", "user", "backend_fault", "contact_wrench", "filter", "raised"}

Walk ==
  /\ chunk \in Chunks /\ seg \in 1 .. Len(chunk.ways)
  /\ k \in 1 .. ticks /\ ticks \in Nat \ {0} /\ tick \in Nat

Deferred == [seg : Nat, at : Nat] \cup {None}
Gripper  == pending \in Deferred /\ sent \in Seq(Nat)

LEMMA TypeParts == TypeOK <=> Flags /\ Robot /\ Walk /\ Gripper
  BY DEF TypeOK, Flags, Robot, Walk, Gripper, Deferred

-----------------------------------------------------------------------------
(* What a chunk and a profile are, and what the helpers compute *)

LEMMA ChunkFields ==
  ASSUME NEW c \in Chunks
  PROVE  /\ c.kind \in {"cartesian", "joint"} /\ c.ways \in Seq(Waypoint) /\ c.ways # <<>>
         /\ c.execute \in Nat \cup {None} /\ c.speed \in Nat \cup {None} /\ c.speed # 0
         /\ c.allow \in Nat /\ c.guard \in Nat \cup {None}
<1>1. c \in ChunkSpec /\ c.ways # <<>> /\ c.speed # 0
  BY ChunkAssumption
<1> QED
  BY <1>1 DEF ChunkSpec

LEMMA ProfileFields ==
  ASSUME NEW p \in Profiles
  PROVE  p.speed \in Nat \ {0} /\ p.guard \in Nat /\ p.allow \in Nat
<1>1. p \in Profile
  BY ChunkAssumption
<1> QED
  BY <1>1 DEF Profile

LEMMA Horizons ==
  ASSUME NEW c \in Chunks
  PROVE  Horizon(c) \in 1 .. Len(c.ways)
<1>1. Len(c.ways) \in Nat /\ Len(c.ways) >= 1
  BY ChunkFields
<1>2. CASE c.execute = None
  BY <1>1, <1>2 DEF Horizon
<1>3. CASE c.execute # None
  <2>1. c.execute \in Nat
    BY <1>3, ChunkFields
  <2> QED
    BY <1>1, <1>3, <2>1 DEF Horizon, Least, Greatest
<1> QED
  BY <1>2, <1>3

LEMMA Speeds ==
  ASSUME NEW c \in Chunks, profile \in Profiles
  PROVE  SpeedCap(c) \in Nat \ {0}
<1>1. profile.speed \in Nat \ {0}
  BY ProfileFields
<1>2. c.speed \in Nat \ {0} \/ c.speed = None
  BY ChunkFields
<1> QED
  BY <1>1, <1>2 DEF SpeedCap, Least

LEMMA Segments ==
  ASSUME NEW c \in Chunks, profile \in Profiles, NEW i \in 1 .. Len(c.ways)
  PROVE  SegmentTicks(c, i) \in Nat \ {0}
<1>1. c.ways[i] \in Waypoint
  BY ChunkFields
<1>2. c.ways[i].dist \in Nat /\ c.ways[i].frames \in Nat
  BY <1>1 DEF Waypoint
<1>3. SpeedCap(c) \in Nat \ {0}
  BY Speeds
<1>4. ASSUME NEW d \in Nat, NEW s \in Nat \ {0} PROVE PacedTicks(d, s) \in Int
  BY DEF PacedTicks
<1>5. PacedTicks(c.ways[i].dist, SpeedCap(c)) \in Int
  BY <1>2, <1>3, <1>4
<1> QED
  BY <1>2, <1>5 DEF SegmentTicks, Greatest

LEMMA Allowances ==
  ASSUME NEW c \in Chunks, profile \in Profiles
  PROVE  Allowed(c) \in Nat /\ GuardFor(c) \in Nat
<1>1. profile.guard \in Nat /\ profile.allow \in Nat
  BY ProfileFields
<1>2. c.allow \in Nat /\ (c.guard \in Nat \/ c.guard = None)
  BY ChunkFields
<1>3. Allowed(c) \in Nat
  BY <1>1, <1>2 DEF Allowed, Least
<1>4. profile.guard + Allowed(c) \in Nat
  BY <1>1, <1>3
<1>5. GuardFor(c) \in Nat
  BY <1>2, <1>4 DEF GuardFor, Least
<1> QED
  BY <1>3, <1>5

-----------------------------------------------------------------------------
(* The gripper's account *)

Account == [pending : Deferred, issued : BOOLEAN, aborted : BOOLEAN, sent : Seq(Nat)]

LEMMA BooksTyped == TypeOK => Books \in Account
  BY DEF TypeOK, Books, Account, Deferred

LEMMA FireTyped ==
  ASSUME NEW b \in Account, b.pending # None, NEW near \in BOOLEAN
  PROVE  Fire(b, near) \in Account
<1>1. b.pending.seg \in Nat /\ b.sent \in Seq(Nat)
  BY DEF Account, Deferred
<1>2. Append(b.sent, b.pending.seg) \in Seq(Nat)
  BY <1>1
<1>3. None \in Deferred
  BY DEF Deferred
<1>4. [b EXCEPT !.pending = None, !.aborted = TRUE] \in Account
  BY <1>3 DEF Account
<1>5. [b EXCEPT !.pending = None, !.issued = TRUE, !.sent = Append(@, b.pending.seg)] \in Account
  BY <1>2, <1>3 DEF Account
<1> QED
  BY <1>4, <1>5, Zenon DEF Fire

LEMMA DueTyped ==
  ASSUME NEW b \in Account, NEW near \in BOOLEAN
  PROVE  Due(b, near) \in Account
  BY FireTyped, Zenon DEF Due

LEMMA CommandTyped ==
  ASSUME NEW b \in Account, NEW grip, TypeOK
  PROVE  Command(b, grip) \in Account
<1>1. seg \in Nat /\ tick \in Nat /\ ticks \in Nat /\ read.near \in BOOLEAN
  BY ChunkFields DEF TypeOK, Reads
<1>2. Settle \in Nat
  BY <1>1, ChunkAssumption DEF Settle, Least, Greatest
<1>3. [seg |-> seg, at |-> tick + Settle] \in Deferred
  BY <1>1, <1>2 DEF Deferred
<1>4. ASSUME NEW i \in BOOLEAN PROVE [b EXCEPT !.issued = i, !.sent = Append(@, seg)] \in Account
  <2>1. Append(b.sent, seg) \in Seq(Nat)
    BY <1>1 DEF Account
  <2> QED
    BY <2>1 DEF Account
<1>5. (b.issued \/ Closing(grip)) \in BOOLEAN
  OBVIOUS
<1>6. [b EXCEPT !.issued = @ \/ Closing(grip), !.sent = Append(@, seg)] \in Account
  BY <1>4, <1>5
<1>7. ASSUME NEW c \in Account
      PROVE  [c EXCEPT !.pending = [seg |-> seg, at |-> tick + Settle]] \in Account
  BY <1>3 DEF Account
<1>8. (IF b.pending = None THEN b ELSE Fire(b, read.near)) \in Account
  BY <1>1, FireTyped, Zenon
<1> QED
  BY <1>6, <1>7, <1>8, Zenon DEF Command

LEMMA HandledTyped == TypeOK => Handled \in Account
<1> SUFFICES ASSUME TypeOK PROVE Handled \in Account
  OBVIOUS
<1>1. read.near \in BOOLEAN
  BY DEF TypeOK, Reads
<1>2. Due(Books, read.near) \in Account
  BY <1>1, BooksTyped, DueTyped, Zenon
<1>3. Command(Due(Books, read.near), chunk.ways[seg].grip) \in Account
  BY <1>2, CommandTyped, Zenon
<1> QED
  BY <1>2, <1>3, Zenon DEF Handled

LEMMA SettledTyped ==
  ASSUME NEW b \in Account, Settled(b), TypeOK
  PROVE  Gripper' /\ closeIssued' \in BOOLEAN /\ closeAborted' \in BOOLEAN /\ clipped' \in BOOLEAN
<1>1. b.pending \in Deferred /\ b.sent \in Seq(Nat) /\ b.issued \in BOOLEAN /\ b.aborted \in BOOLEAN
  BY DEF Account
<1>2. Gripper'
  BY <1>1 DEF Settled, Gripper
<1>3. closeIssued' \in BOOLEAN /\ closeAborted' \in BOOLEAN /\ clipped' \in BOOLEAN
  BY <1>1, Zenon DEF Settled, TypeOK
<1> QED
  BY <1>2, <1>3

\* What the three actions that settle the gripper's account make of it.
LEMMA SettlesTyped ==
  TypeOK /\ (Write \/ Raises \/ \E near \in BOOLEAN : Leave(near))
    => Gripper' /\ closeIssued' \in BOOLEAN /\ closeAborted' \in BOOLEAN /\ clipped' \in BOOLEAN
<1> SUFFICES ASSUME TypeOK, Write \/ Raises \/ \E near \in BOOLEAN : Leave(near)
             PROVE  \E b \in Account : Settled(b)
  BY SettledTyped, Zenon
<1>0. Books \in Account /\ None \in Deferred
  BY BooksTyped DEF Deferred
<1>1. CASE Write
  <2>1. (IF chunk.kind = "joint" THEN Books ELSE Handled) \in Account
    BY <1>0, HandledTyped, Zenon
  <2> QED
    BY <1>1, <2>1, Zenon DEF Write
<1>2. CASE Raises
  <2>1. Due(Books, read.near) \in Account
    BY <1>0, DueTyped DEF TypeOK, Reads
  <2>2. [Books EXCEPT !.pending = None] \in Account
    BY <1>0 DEF Account
  <2> QED
    BY <1>0, <1>2, <2>1, <2>2, Zenon DEF Raises
<1>3. ASSUME NEW near \in BOOLEAN, Leave(near) PROVE \E b \in Account : Settled(b)
  <2>1. Books.pending = pending
    BY DEF Books
  <2>2. pending # None => Fire(Books, near) \in Account
    BY <1>0, <2>1, FireTyped, Zenon
  <2>3. [Books EXCEPT !.pending = None, !.aborted = TRUE] \in Account
    BY <1>0 DEF Account
  <2> QED
    BY <1>0, <1>3, <2>2, <2>3, Zenon DEF Leave
<1> QED
  BY <1>1, <1>2, <1>3

-----------------------------------------------------------------------------
(* Type correctness *)

LEMMA InitTyped == Init => TypeOK
<1> SUFFICES ASSUME Init PROVE TypeOK
  OBVIOUS
<1>1. Flags
  BY DEF Init, Flags
<1>2. Robot
  BY ProfileFields DEF Init, Robot, NoRead, Reads
<1>3. Walk
  BY ChunkFields DEF Init, Walk
<1>4. Gripper
  BY DEF Init, Gripper, Deferred
<1> QED
  BY <1>1, <1>2, <1>3, <1>4, TypeParts

LEMMA StepFlags == TypeOK /\ [Next]_vars => Flags'
<1> SUFFICES ASSUME TypeOK, [Next]_vars PROVE Flags'
  OBVIOUS
<1> USE DEF Flags, gripVars
<1>0. Flags
  BY DEF TypeOK
<1>1. CASE AbortAtEntry \/ RequestStop \/ Stop \/ SetProfile \/ Drop
  BY <1>0, <1>1, Zenon DEF AbortAtEntry, RequestStop, Stop, SetProfile, Drop
<1>2. ASSUME NEW c \in Chunks, Begin(c) PROVE Flags'
  BY <1>0, <1>2, Zenon DEF Begin
<1>3. CASE Autostart \/ StartRaises \/ Arm \/ ArmRaises
  BY <1>0, <1>3, Zenon DEF Autostart, StartRaises, Arm, ArmRaises, Enter
<1>4. CASE Cancelled \/ FaultStops \/ ContactStops \/ FilterStops
  BY <1>0, <1>4, Zenon DEF Cancelled, FaultStops, ContactStops, FilterStops, Gated, Halt
<1>5. CASE Pass
  BY <1>0, <1>5 DEF Pass
<1>6. CASE Write \/ Raises \/ \E near \in BOOLEAN : Leave(near)
  <2>1. closeIssued' \in BOOLEAN /\ closeAborted' \in BOOLEAN /\ clipped' \in BOOLEAN
    BY <1>6, SettlesTyped, Zenon
  <2>2. cancel' \in BOOLEAN /\ lent' \in BOOLEAN /\ halted' \in BOOLEAN
    BY <1>0, <1>6, Zenon DEF Write, Raises, Leave
  <2> QED
    BY <2>1, <2>2
<1>7. CASE Restore \/ RestoreFails
  BY <1>0, <1>7, Zenon DEF Restore, RestoreFails
<1>8. ASSUME NEW m \in {"cartesian", "joint"}, StartMode(m) PROVE Flags'
  BY <1>0, <1>8, Zenon DEF StartMode, Enter
<1>9. CASE UNCHANGED vars
  BY <1>0, <1>9, Zenon DEF vars
<1> QED
  BY <1>1, <1>2, <1>3, <1>4, <1>5, <1>6, <1>7, <1>8, <1>9 DEF Next, Executor

LEMMA StepRobot == TypeOK /\ [Next]_vars => Robot'
<1> SUFFICES ASSUME TypeOK, [Next]_vars PROVE Robot'
  OBVIOUS
<1> USE DEF Robot, Modes, walkVars
<1>0. Robot /\ Walk
  BY TypeParts
<1>1. profile.guard \in Nat /\ chunk.kind \in {"cartesian", "joint"} /\ NoRead \in Reads
  BY <1>0, ProfileFields, ChunkFields DEF Walk, NoRead, Reads
<1>2. CASE AbortAtEntry \/ RequestStop \/ Stop \/ SetProfile \/ Drop
  BY <1>0, <1>2 DEF AbortAtEntry, RequestStop, Stop, SetProfile, Drop
<1>3. ASSUME NEW c \in Chunks, Begin(c) PROVE Robot'
  <2>1. GuardFor(c) \in Nat
    BY <1>0, Allowances
  <2> QED
    BY <1>0, <1>1, <1>3, <2>1 DEF Begin
<1>4. CASE Autostart \/ StartRaises \/ Arm \/ ArmRaises
  BY <1>0, <1>1, <1>4 DEF Autostart, StartRaises, Arm, ArmRaises, Enter, Limit
<1>5. CASE Cancelled \/ FaultStops \/ ContactStops \/ FilterStops
  BY <1>0, <1>5 DEF Cancelled, FaultStops, ContactStops, FilterStops, Gated, Halt
<1>6. CASE Pass
  BY <1>0, <1>6 DEF Pass
<1>7. CASE Write
  BY <1>0, <1>7 DEF Write, Advance
<1>8. CASE Raises \/ \E near \in BOOLEAN : Leave(near)
  BY <1>0, <1>8 DEF Raises, Leave
<1>9. CASE Restore \/ RestoreFails
  BY <1>0, <1>1, <1>9 DEF Restore, RestoreFails, Limit
<1>10. ASSUME NEW m \in {"cartesian", "joint"}, StartMode(m) PROVE Robot'
  BY <1>0, <1>1, <1>10 DEF StartMode, Enter
<1>11. CASE UNCHANGED vars
  BY <1>0, <1>11 DEF vars
<1> QED
  BY <1>2, <1>3, <1>4, <1>5, <1>6, <1>7, <1>8, <1>9, <1>10, <1>11 DEF Next, Executor

LEMMA StepWalk == TypeOK /\ [Next]_vars => Walk'
<1> SUFFICES ASSUME TypeOK, [Next]_vars PROVE Walk'
  OBVIOUS
<1> USE DEF walkVars
<1>0. Walk /\ profile \in Profiles
  BY TypeParts DEF Robot
<1>1. ASSUME NEW c \in Chunks, Begin(c) PROVE Walk'
  <2>1. Len(c.ways) \in Nat /\ 1 \in 1 .. Len(c.ways)
    BY ChunkFields
  <2>2. SegmentTicks(c, 1) \in Nat \ {0}
    BY <1>0, <2>1, Segments
  <2> QED
    BY <1>1, <2>1, <2>2 DEF Begin, Walk
<1>2. CASE Pass
  BY <1>0, <1>2 DEF Pass, Walk
<1>3. CASE Write
  <2>1. Horizon(chunk) \in 1 .. Len(chunk.ways) /\ Len(chunk.ways) \in Nat
    BY <1>0, Horizons, ChunkFields DEF Walk
  <2>2. seg < Horizon(chunk) => seg + 1 \in 1 .. Len(chunk.ways)
    BY <1>0, <2>1 DEF Walk
  <2>3. seg < Horizon(chunk) => SegmentTicks(chunk, seg + 1) \in Nat \ {0}
    BY <1>0, <2>2, Segments DEF Walk
  <2> QED
    BY <1>0, <1>3, <2>2, <2>3 DEF Write, Advance, Walk
<1>4. CASE UNCHANGED walkVars
  BY <1>0, <1>4 DEF Walk
<1>5. Next => \/ \E c \in Chunks : Begin(c)
              \/ Pass \/ Write \/ UNCHANGED walkVars
  BY DEF Next, Executor, AbortAtEntry, Autostart, StartRaises, Arm, ArmRaises, Cancelled,
    FaultStops, ContactStops, FilterStops, Gated, Halt, Raises, Leave, Restore, RestoreFails,
    RequestStop, Stop, StartMode, SetProfile, Drop
<1> QED
  BY <1>1, <1>2, <1>3, <1>4, <1>5 DEF vars

LEMMA StepGripper == TypeOK /\ [Next]_vars => Gripper'
<1> SUFFICES ASSUME TypeOK, [Next]_vars PROVE Gripper'
  OBVIOUS
<1> USE DEF gripVars
<1>0. Gripper
  BY TypeParts
<1>1. ASSUME NEW c \in Chunks, Begin(c) PROVE Gripper'
  BY <1>1 DEF Begin, Gripper, Deferred
<1>2. CASE Write \/ Raises \/ \E near \in BOOLEAN : Leave(near)
  BY <1>2, SettlesTyped
<1>3. CASE UNCHANGED <<pending, sent>>
  BY <1>0, <1>3 DEF Gripper
<1>4. Next => \/ \E c \in Chunks : Begin(c)
              \/ Write \/ Raises \/ \E near \in BOOLEAN : Leave(near)
              \/ UNCHANGED <<pending, sent>>
  BY DEF Next, Executor, AbortAtEntry, Autostart, StartRaises, Arm, ArmRaises, Cancelled,
    FaultStops, ContactStops, FilterStops, Gated, Halt, Pass, Restore, RestoreFails,
    RequestStop, Stop, StartMode, SetProfile, Drop
<1> QED
  BY <1>1, <1>2, <1>3, <1>4 DEF vars

LEMMA StepTyped == TypeOK /\ [Next]_vars => TypeOK'
<1> SUFFICES ASSUME TypeOK, [Next]_vars PROVE TypeOK'
  OBVIOUS
<1>1. Flags' /\ Robot' /\ Walk' /\ Gripper'
  BY StepFlags, StepRobot, StepWalk, StepGripper
<1> QED
  BY <1>1 DEF TypeOK, Flags, Robot, Walk, Gripper, Deferred

\* Type correctness of the chunk loop (robot.py:269-547).
THEOREM ChunkTypeCorrect == Spec => []TypeOK
  BY InitTyped, StepTyped, PTL DEF Spec

-----------------------------------------------------------------------------
(* Stops *)

\* A stop that no chunk has taken is pending, and a setpoint under way finds the
\* arm idle.
Stopped == halted => cancel /\ (pc = "write" => mode = "idle")

LEMMA StepStopped == TypeOK /\ Stopped /\ [Next]_vars => Stopped'
<1> SUFFICES ASSUME TypeOK, Stopped, [Next]_vars PROVE Stopped'
  OBVIOUS
<1> USE DEF Stopped
<1>1. CASE AbortAtEntry \/ RequestStop \/ Stop \/ SetProfile \/ Drop
  BY <1>1 DEF AbortAtEntry, RequestStop, Stop, SetProfile, Drop
<1>2. ASSUME NEW c \in Chunks, Begin(c) PROVE Stopped'
  BY <1>2 DEF Begin
<1>3. CASE Autostart \/ StartRaises \/ Arm \/ ArmRaises
  BY <1>3 DEF Autostart, StartRaises, Arm, ArmRaises, Enter
<1>4. CASE Cancelled \/ FaultStops \/ ContactStops \/ FilterStops
  BY <1>4 DEF Cancelled, FaultStops, ContactStops, FilterStops, Gated, Halt
<1>5. CASE Pass
  BY <1>5 DEF Pass
<1>6. CASE Write
  BY <1>6 DEF Write, Advance
<1>7. CASE Raises \/ \E near \in BOOLEAN : Leave(near)
  BY <1>7 DEF Raises, Leave
<1>8. CASE Restore \/ RestoreFails
  BY <1>8 DEF Restore, RestoreFails
<1>9. ASSUME NEW m \in {"cartesian", "joint"}, StartMode(m) PROVE Stopped'
  BY <1>9 DEF StartMode
<1>10. CASE UNCHANGED vars
  BY <1>10 DEF vars
<1> QED
  BY <1>1, <1>2, <1>3, <1>4, <1>5, <1>6, <1>7, <1>8, <1>9, <1>10 DEF Next, Executor

\* Only Write streams, and only in the chunk's own mode.
LEMMA StreamsInMode == TypeOK /\ [Next]_vars /\ Streams => mode # "idle"
<1> SUFFICES ASSUME TypeOK, [Next]_vars, Streams PROVE mode # "idle"
  OBVIOUS
<1>1. chunk.kind # "idle"
  BY ChunkFields DEF TypeOK
<1>2. Write
  BY DEF Streams, Next, Executor, AbortAtEntry, Begin, Autostart, StartRaises, Arm, ArmRaises,
    Cancelled, FaultStops, ContactStops, FilterStops, Gated, Halt, Pass, Raises, Leave, Restore,
    RestoreFails, RequestStop, Stop, StartMode, SetProfile, Drop, vars
<1> QED
  BY <1>1, <1>2 DEF Write

\* After stop() has returned, no setpoint goes to the arm before a chunk has taken
\* the stop (robot.py:397-402, 844-846).
THEOREM StopHolds == Spec => StopHoldsArm
<1>1. Init => Stopped
  BY DEF Init, Stopped
<1>2. TypeOK /\ Stopped /\ [Next]_vars => [Streams => ~halted]_vars
  BY StreamsInMode DEF Stopped, Streams
<1> QED
  BY <1>1, <1>2, InitTyped, StepTyped, StepStopped, PTL DEF Spec, StopHoldsArm

-----------------------------------------------------------------------------
(* The contact guard *)

Guards == {p.guard : p \in Profiles}

\* The guard of a Cartesian mode is a profile's own, except within a chunk that
\* was granted an allowance, or after a failed call; nobody else arms another.
Lending ==
  /\ pc = "arm" => Allowed(chunk) > 0
  /\ \/ lent \/ mode # "cartesian" \/ guard \in Guards
     \/ pc \in {"tick", "write", "after", "finally"} /\ Allowed(chunk) > 0

LEMMA StepLending == TypeOK /\ Lending /\ [Next]_vars => Lending'
<1> SUFFICES ASSUME TypeOK, Lending, [Next]_vars PROVE Lending'
  OBVIOUS
<1> USE DEF Lending
<1>0. profile.guard \in Guards /\ Allowed(chunk) \in Nat
  BY Allowances DEF TypeOK, Guards
<1>1. Guards' = Guards
  BY DEF Guards
<1>2. profile' = profile /\ chunk' = chunk => Allowed(chunk)' = Allowed(chunk)
  BY DEF Allowed
<1>3. CASE AbortAtEntry \/ SetProfile
  BY <1>1, <1>3 DEF AbortAtEntry, SetProfile
<1>4. CASE RequestStop \/ Stop \/ Drop
  BY <1>1, <1>2, <1>4 DEF RequestStop, Stop, Drop, walkVars
<1>5. ASSUME NEW c \in Chunks, Begin(c) PROVE Lending'
  BY <1>1, <1>5 DEF Begin
<1>6. CASE Autostart \/ StartRaises
  BY <1>0, <1>1, <1>2, <1>6 DEF Autostart, StartRaises, Enter, walkVars
<1>7. CASE Arm
  BY <1>1, <1>2, <1>7 DEF Arm, walkVars
<1>8. CASE ArmRaises
  BY <1>1, <1>8 DEF ArmRaises
<1>9. CASE Cancelled \/ FaultStops \/ ContactStops \/ FilterStops
  BY <1>1, <1>9 DEF Cancelled, FaultStops, ContactStops, FilterStops, Gated, Halt
<1>10. CASE Pass
  BY <1>1, <1>2, <1>10 DEF Pass
<1>11. CASE Write
  BY <1>1, <1>2, <1>11 DEF Write, Advance
<1>12. CASE Raises \/ \E near \in BOOLEAN : Leave(near)
  BY <1>1, <1>2, <1>12 DEF Raises, Leave, walkVars
<1>13. CASE Restore \/ RestoreFails
  BY <1>0, <1>1, <1>13 DEF Restore, RestoreFails, Limit
<1>14. ASSUME NEW m \in {"cartesian", "joint"}, StartMode(m) PROVE Lending'
  BY <1>0, <1>1, <1>14 DEF StartMode, Enter
<1>15. CASE UNCHANGED vars
  BY <1>1, <1>2, <1>15 DEF vars, walkVars
<1> QED
  BY <1>3, <1>4, <1>5, <1>6, <1>7, <1>8, <1>9, <1>10, <1>11, <1>12, <1>13, <1>14, <1>15
    DEF Next, Executor

\* "the allowance must never outlive its chunk" (robot.py:522-530): for any chunks and
\* profiles, through stops, faults and failing calls, unless the call that gives it
\* back fails itself.
THEOREM AllowanceReturned == Spec => []GuardGivenBack
<1>1. Init => Lending
  BY DEF Init, Lending, Guards
<1>2. Lending => GuardGivenBack
  BY DEF Lending, GuardGivenBack, Guards
<1> QED
  BY <1>1, <1>2, InitTyped, StepTyped, StepLending, PTL DEF Spec

-----------------------------------------------------------------------------
(* The order of the gripper's commands *)

\* The segments in s are in order, and a pending close is for a later one.
Neat(p, s) ==
  /\ \A i, j \in DOMAIN s : i < j => s[i] < s[j]
  /\ p # None => \A i \in DOMAIN s : s[i] < p.seg

\* Nothing in the account is for a segment after n.
Upto(p, s, n) ==
  /\ \A i \in DOMAIN s : s[i] <= n
  /\ p # None => p.seg <= n

\* The last segment whose command has been looked at, and when a pending close is
\* due at the latest: at the first tick of the next segment, which looks at it first.
Seen == IF k = 1 THEN seg - 1 ELSE seg
Now  == IF pc = "write" THEN tick ELSE tick + 1
Latest == Now + (IF k = 1 THEN 0 ELSE ticks - k + 1)

Ordered ==
  /\ Neat(pending, sent)
  /\ pc \in {"start", "arm"} => pending = None /\ sent = <<>>
  /\ pc \in {"tick", "write"} =>
       Upto(pending, sent, Seen) /\ (pending # None => pending.at <= Latest)

LEMMA AppendNeat ==
  ASSUME NEW s \in Seq(Nat), NEW n \in Nat, Neat(None, s), \A i \in DOMAIN s : s[i] < n
  PROVE  Neat(None, Append(s, n)) /\ Upto(None, Append(s, n), n)
<1>1. /\ DOMAIN Append(s, n) = 1 .. Len(s) + 1 /\ DOMAIN s = 1 .. Len(s) /\ Len(s) \in Nat
      /\ Append(s, n)[Len(s) + 1] = n
      /\ \A i \in 1 .. Len(s) : Append(s, n)[i] = s[i] /\ s[i] \in Nat
  OBVIOUS
<1> QED
  BY <1>1 DEF Neat, Upto

LEMMA FireNeat ==
  ASSUME NEW b \in Account, b.pending # None, NEW near \in BOOLEAN, NEW n \in Int,
         Neat(b.pending, b.sent)
  PROVE  /\ Fire(b, near).pending = None
         /\ Neat(None, Fire(b, near).sent)
         /\ Upto(b.pending, b.sent, n) => Upto(None, Fire(b, near).sent, n)
<1>0. b.pending.seg \in Nat /\ b.sent \in Seq(Nat)
  BY DEF Account, Deferred
<1>1. Neat(None, b.sent) /\ (Upto(b.pending, b.sent, n) => Upto(None, b.sent, n))
  BY DEF Neat, Upto
<1>2. Neat(None, Append(b.sent, b.pending.seg)) /\ Upto(None, Append(b.sent, b.pending.seg), b.pending.seg)
  BY <1>0, <1>1, AppendNeat DEF Neat
<1>3. Append(b.sent, b.pending.seg) \in Seq(Nat)
  BY <1>0
<1>4. Upto(b.pending, b.sent, n) => Upto(None, Append(b.sent, b.pending.seg), n)
  <2> SUFFICES ASSUME Upto(b.pending, b.sent, n) PROVE Upto(None, Append(b.sent, b.pending.seg), n)
    OBVIOUS
  <2>1. b.pending.seg <= n
    BY DEF Upto
  <2> DEFINE s == Append(b.sent, b.pending.seg)
  <2>2. \A i \in DOMAIN s : s[i] \in Nat /\ s[i] <= b.pending.seg
    BY <1>2, <1>3 DEF Upto
  <2> QED
    BY <1>0, <2>1, <2>2 DEF Upto
<1>5. \/ Fire(b, near).pending = None /\ Fire(b, near).sent = b.sent
      \/ Fire(b, near).pending = None /\ Fire(b, near).sent = Append(b.sent, b.pending.seg)
  BY DEF Fire, Account
<1> QED
  BY <1>1, <1>2, <1>4, <1>5

LEMMA DueNeat ==
  ASSUME NEW b \in Account, NEW near \in BOOLEAN, NEW n \in Int, Neat(b.pending, b.sent)
  PROVE  /\ Neat(Due(b, near).pending, Due(b, near).sent)
         /\ Upto(b.pending, b.sent, n) => Upto(Due(b, near).pending, Due(b, near).sent, n)
         /\ \/ Due(b, near).pending = None
            \/ Due(b, near).pending = b.pending /\ ~(tick >= b.pending.at)
<1>1. CASE b.pending # None /\ tick >= b.pending.at
  <2>1. Due(b, near) = Fire(b, near)
    BY <1>1 DEF Due
  <2> QED
    BY <1>1, <2>1, FireNeat
<1>2. CASE ~(b.pending # None /\ tick >= b.pending.at)
  <2>1. Due(b, near) = b
    BY <1>2 DEF Due
  <2> QED
    BY <1>2, <2>1
<1> QED
  BY <1>1, <1>2

LEMMA SettleWindow ==
  ASSUME TypeOK
  PROVE  Settle \in Nat /\ Settle <= ticks /\ (ticks = 1 => Settle <= 1)
<1>1. ticks \in Nat /\ ticks >= 1 /\ Window \in Nat
  BY ChunkAssumption DEF TypeOK
<1>2. (ticks \div 2) \in Nat /\ (ticks \div 2) <= ticks /\ (ticks = 1 => (ticks \div 2) = 0)
  BY <1>1
<1> QED
  BY <1>1, <1>2 DEF Settle, Least, Greatest

LEMMA CommandNeat ==
  ASSUME NEW b \in Account, b.pending = None, NEW grip, TypeOK,
         Neat(None, b.sent), Upto(None, b.sent, seg - 1)
  PROVE  /\ Neat(Command(b, grip).pending, Command(b, grip).sent)
         /\ Upto(Command(b, grip).pending, Command(b, grip).sent, seg)
         /\ Command(b, grip).pending # None => Command(b, grip).pending.at = tick + Settle
<1>0. /\ seg \in Nat /\ b.sent \in Seq(Nat) /\ \A i \in DOMAIN b.sent : b.sent[i] \in Nat
      /\ \A i \in DOMAIN b.sent : b.sent[i] < seg
  <2>1. seg \in Nat
    BY ChunkFields DEF TypeOK
  <2>2. b.sent \in Seq(Nat)
    BY DEF Account
  <2>3. \A i \in DOMAIN b.sent : b.sent[i] \in Nat
    BY <2>2
  <2> QED
    BY <2>1, <2>2, <2>3 DEF Upto
<1>1. CASE ~Closing(grip) \/ ~chunk.gated \/ (grip = "grasp" /\ b.issued)
  <2>1. Command(b, grip) = [b EXCEPT !.issued = @ \/ Closing(grip), !.sent = Append(@, seg)]
    BY <1>1, Zenon DEF Command
  <2>2. Command(b, grip).pending = None /\ Command(b, grip).sent = Append(b.sent, seg)
    BY <2>1 DEF Account
  <2> QED
    BY <1>0, <2>2, AppendNeat
<1>2. CASE ~(~Closing(grip) \/ ~chunk.gated \/ (grip = "grasp" /\ b.issued)) /\ b.aborted
  <2>1. Command(b, grip) = b
    BY <1>2, Zenon DEF Command
  <2> QED
    BY <1>0, <2>1 DEF Upto
<1>3. CASE ~(~Closing(grip) \/ ~chunk.gated \/ (grip = "grasp" /\ b.issued)) /\ ~b.aborted
  <2>1. Command(b, grip) = [b EXCEPT !.pending = [seg |-> seg, at |-> tick + Settle]]
    BY <1>3, Zenon DEF Command
  <2>2. /\ Command(b, grip).pending = [seg |-> seg, at |-> tick + Settle]
        /\ Command(b, grip).sent = b.sent
    BY <2>1 DEF Account
  <2>3. /\ Command(b, grip).pending.seg = seg
        /\ Command(b, grip).pending.at = tick + Settle
    BY <2>2
  <2> QED
    BY <1>0, <2>2, <2>3 DEF Neat, Upto
<1> QED
  BY <1>1, <1>2, <1>3

\* A tick's gripper part keeps the order, and what it leaves pending is due in time.
LEMMA HandledNeat ==
  ASSUME TypeOK, Ordered, pc = "write"
  PROVE  /\ Neat(Handled.pending, Handled.sent)
         /\ Upto(Handled.pending, Handled.sent, seg)
         /\ Handled.pending # None =>
              Handled.pending.at <= tick + 1 + (IF k < ticks THEN ticks - k ELSE 0)
<1> DEFINE due == Due(Books, read.near)
<1>0. /\ Books \in Account /\ Books.pending = pending /\ Books.sent = sent
      /\ read.near \in BOOLEAN /\ due \in Account
  <2>1. Books \in Account /\ Books.pending = pending /\ Books.sent = sent
    BY BooksTyped DEF Books
  <2>2. read.near \in BOOLEAN
    BY DEF TypeOK, Reads
  <2> QED
    BY <2>1, <2>2, DueTyped
<1>1. /\ seg \in Nat /\ k \in Nat /\ k >= 1 /\ k <= ticks /\ ticks \in Nat /\ tick \in Nat
      /\ Seen \in Int /\ Seen <= seg
  BY ChunkFields DEF TypeOK, Seen
<1>2. Neat(pending, sent) /\ Upto(pending, sent, Seen) /\ (pending # None => pending.at <= Latest)
  BY DEF Ordered
<1>3. /\ Neat(due.pending, due.sent) /\ Upto(due.pending, due.sent, Seen)
      /\ due.pending = None \/ (due.pending = pending /\ ~(tick >= pending.at))
  BY <1>0, <1>1, <1>2, DueNeat
<1>4. due.sent \in Seq(Nat) /\ due.pending \in Deferred
  BY <1>0 DEF Account
<1>5. \A i \in DOMAIN due.sent : due.sent[i] \in Nat
  BY <1>4
<1>6. Upto(due.pending, due.sent, seg)
  BY <1>1, <1>3, <1>4, <1>5 DEF Upto, Deferred
<1>7. CASE k = 1
  <2>1. pending # None => pending.at \in Nat /\ pending.at <= tick
    BY <1>1, <1>2, <1>7 DEF Latest, Now, TypeOK
  <2>2. due.pending = None
    BY <1>1, <1>3, <2>1
  <2>3. CASE chunk.ways[seg].grip = None
    BY <1>3, <1>6, <1>7, <2>2, <2>3 DEF Handled
  <2>4. CASE chunk.ways[seg].grip # None
    <3>1. Handled = Command(due, chunk.ways[seg].grip)
      BY <1>7, <2>4 DEF Handled
    <3>2. Upto(None, due.sent, seg - 1)
      BY <1>3, <1>7, <2>2 DEF Seen
    <3>3. /\ Neat(Handled.pending, Handled.sent) /\ Upto(Handled.pending, Handled.sent, seg)
          /\ Handled.pending # None => Handled.pending.at = tick + Settle
      BY <1>0, <1>3, <2>2, <3>1, <3>2, CommandNeat
    <3>4. tick + Settle <= tick + 1 + (IF k < ticks THEN ticks - k ELSE 0)
      BY <1>1, <1>7, SettleWindow
    <3> QED
      BY <3>3, <3>4
  <2> QED
    BY <2>3, <2>4
<1>8. CASE k # 1
  <2>1. Handled = due
    BY <1>8 DEF Handled
  <2>2. due.pending # None => due.pending.at <= tick + ticks - k + 1
    BY <1>1, <1>2, <1>3, <1>8 DEF Latest, Now, TypeOK
  <2>3. tick + ticks - k + 1 = tick + 1 + (IF k < ticks THEN ticks - k ELSE 0)
    BY <1>1
  <2> QED
    BY <1>3, <1>6, <2>1, <2>2, <2>3
<1> QED
  BY <1>7, <1>8

LEMMA WriteOrdered == TypeOK /\ Ordered /\ Write => Ordered'
<1> SUFFICES ASSUME TypeOK, Ordered, Write PROVE Ordered'
  OBVIOUS
<1>1. /\ seg \in Nat /\ k \in Nat /\ k >= 1 /\ k <= ticks /\ ticks \in Nat /\ tick \in Nat
      /\ Seen \in Int /\ Seen <= seg
  BY ChunkFields DEF TypeOK, Seen
<1>2. /\ pc = "write" /\ tick' = tick /\ pc' \in {"tick", "after"}
      /\ pc' = "tick" => \/ k < ticks /\ k' = k + 1 /\ seg' = seg /\ ticks' = ticks
                         \/ k = ticks /\ k' = 1 /\ seg' = seg + 1
  BY DEF Write, Advance
<1>3. pc' = "tick" => /\ Seen' = seg
                     /\ Latest' = tick + 1 + (IF k < ticks THEN ticks - k ELSE 0)
  BY <1>1, <1>2 DEF Seen, Latest, Now
<1>4. CASE chunk.kind = "joint"
  <2>1. pending' = pending /\ sent' = sent
    BY <1>4 DEF Write, Settled, Books
  <2>2. pending \in Deferred /\ \A i \in DOMAIN sent : sent[i] \in Nat
    BY DEF TypeOK, Deferred
  <2>3. Upto(pending, sent, seg)
    BY <1>1, <1>2, <2>2 DEF Ordered, Upto, Deferred
  <2>4. pending # None => pending.at <= tick + 1 + (IF k < ticks THEN ticks - k ELSE 0)
    BY <1>1, <1>2, <2>2 DEF Ordered, Latest, Now, Deferred
  <2>5. Neat(pending, sent)
    BY DEF Ordered
  <2> QED
    BY <1>2, <1>3, <2>1, <2>3, <2>4, <2>5 DEF Ordered
<1>5. CASE chunk.kind # "joint"
  <2>1. pending' = Handled.pending /\ sent' = Handled.sent
    BY <1>5 DEF Write, Settled
  <2> QED
    BY <1>2, <1>3, <2>1, HandledNeat DEF Ordered
<1> QED
  BY <1>4, <1>5

\* The other ways to settle the account leave the walk.
LEMMA LeavingOrdered ==
  TypeOK /\ Ordered /\ (Raises \/ \E near \in BOOLEAN : Leave(near)) => Ordered'
<1> SUFFICES ASSUME TypeOK, Ordered, Raises \/ \E near \in BOOLEAN : Leave(near)
             PROVE  Neat(pending, sent)'
  BY DEF Ordered, Raises, Leave
<1>0. /\ Books \in Account /\ Books.pending = pending /\ Books.sent = sent
      /\ Neat(pending, sent) /\ Neat(None, sent)
  BY BooksTyped DEF Books, Ordered, Neat
<1>1. ASSUME NEW b \in Account, Settled(b), Neat(b.pending, b.sent) PROVE Neat(pending, sent)'
  BY <1>1 DEF Settled, Neat
<1>2. CASE Raises
  <2>1. PICK b \in {Books, Due(Books, read.near), [Books EXCEPT !.pending = None]} : Settled(b)
    BY <1>2 DEF Raises
  <2>2. CASE b = Books
    BY <1>0, <1>1, <2>1, <2>2
  <2>3. CASE b = Due(Books, read.near)
    <3>1. read.near \in BOOLEAN
      BY DEF TypeOK, Reads
    <3>2. b \in Account
      BY <1>0, <2>3, <3>1, DueTyped
    <3>3. Neat(Books.pending, Books.sent)
      BY <1>0
    <3>4. 0 \in Int /\ Neat(b.pending, b.sent)
      BY <1>0, <2>3, <3>1, <3>3, DueNeat
    <3> QED
      BY <1>1, <2>1, <3>2, <3>4
  <2>4. CASE b = [Books EXCEPT !.pending = None]
    <3>1. pending' = None /\ sent' = sent
      BY <2>1, <2>4 DEF Settled, Books
    <3> QED
      BY <1>0, <3>1 DEF Neat
  <2> QED
    BY <2>1, <2>2, <2>3, <2>4
<1>3. ASSUME NEW near \in BOOLEAN, Leave(near) PROVE Neat(pending, sent)'
  <2>1. CASE pending = None
    BY <1>0, <1>1, <1>3, <2>1 DEF Leave
  <2>2. CASE pending # None /\ outcome = "none"
    <3>1. Settled(Fire(Books, near))
      BY <1>3, <2>2 DEF Leave
    <3>2. Fire(Books, near).pending = None /\ Neat(None, Fire(Books, near).sent)
      BY <1>0, <2>2, FireNeat
    <3>3. Fire(Books, near) \in Account
      BY <1>0, <2>2, FireTyped
    <3> QED
      BY <1>1, <3>1, <3>2, <3>3
  <2>3. CASE pending # None /\ outcome # "none"
    <3>1. pending' = None /\ sent' = sent
      BY <1>3, <2>3 DEF Leave, Settled, Books
    <3> QED
      BY <1>0, <3>1 DEF Neat
  <2> QED
    BY <2>1, <2>2, <2>3
<1> QED
  BY <1>2, <1>3

LEMMA StepOrdered == TypeOK /\ Ordered /\ [Next]_vars => Ordered'
<1> SUFFICES ASSUME TypeOK, Ordered, [Next]_vars PROVE Ordered'
  OBVIOUS
<1>1. ASSUME UNCHANGED <<pending, sent>> PROVE Neat(pending, sent)'
  BY <1>1 DEF Ordered, Neat
<1>2. ASSUME NEW c \in Chunks, Begin(c) PROVE Ordered'
  BY <1>2 DEF Begin, Ordered, Neat
<1>3. CASE Autostart \/ Arm
  <2>1. pending' = None /\ sent' = <<>> /\ Neat(pending, sent)' /\ pc' \in {"arm", "tick"}
    BY <1>1, <1>3 DEF Autostart, Arm, gripVars, Ordered
  <2> QED
    BY <2>1 DEF Ordered, Upto
<1>4. CASE Pass
  <2>1. /\ pc = "tick" /\ pc' = "write" /\ pending' = pending /\ sent' = sent
        /\ tick' = tick + 1 /\ k' = k /\ seg' = seg /\ ticks' = ticks
    BY <1>4 DEF Pass
  <2>2. Seen' = Seen /\ Latest' = Latest
    BY <2>1 DEF Seen, Latest, Now
  <2> QED
    BY <1>1, <2>1, <2>2 DEF Ordered, Upto
<1>5. CASE Write
  BY <1>5, WriteOrdered
<1>6. CASE Raises \/ \E near \in BOOLEAN : Leave(near)
  BY <1>6, LeavingOrdered
<1>7. CASE \/ StartRaises \/ ArmRaises \/ Cancelled \/ FaultStops \/ ContactStops
           \/ FilterStops \/ Restore \/ RestoreFails \/ AbortAtEntry \/ SetProfile
           \/ \E m \in {"cartesian", "joint"} : StartMode(m)
  <2>1. pc' \in {"idle", "after"}
    BY <1>7 DEF StartRaises, ArmRaises, Cancelled, FaultStops, ContactStops, FilterStops, Gated, Halt,
      Restore, RestoreFails, AbortAtEntry, SetProfile, StartMode
  <2>2. UNCHANGED <<pending, sent>>
    BY <1>7 DEF StartRaises, ArmRaises, Cancelled, FaultStops, ContactStops, FilterStops, Gated, Halt,
      Restore, RestoreFails, AbortAtEntry, SetProfile, StartMode, gripVars
  <2> QED
    BY <1>1, <2>1, <2>2 DEF Ordered
<1>8. CASE RequestStop \/ Stop \/ Drop \/ UNCHANGED vars
  <2>1. UNCHANGED <<pending, sent, pc, seg, k, ticks, tick>>
    BY <1>8 DEF RequestStop, Stop, Drop, vars, gripVars, walkVars
  <2>2. Seen' = Seen /\ Latest' = Latest
    BY <2>1 DEF Seen, Latest, Now
  <2> QED
    BY <1>1, <2>1, <2>2 DEF Ordered, Upto
<1> QED
  BY <1>2, <1>3, <1>4, <1>5, <1>6, <1>7, <1>8 DEF Next, Executor

\* Deferring the closes never reorders the gripper's commands nor repeats one, whatever
\* the chunks, the settle window, the stops and the failures (robot.py:370-394, 436-516).
THEOREM GripperInOrder == Spec => []GripOrder
<1>1. Init => Ordered
  BY DEF Init, Ordered, Neat
<1>2. Ordered => GripOrder
  BY DEF Ordered, Neat, GripOrder
<1> QED
  BY <1>1, <1>2, InitTyped, StepTyped, StepOrdered, PTL DEF Spec

-----------------------------------------------------------------------------
(* No command is lost *)

\* A pending command is a close, never an opening.
ClosePending(b) ==
  b.pending # None => /\ b.pending.seg \in 1 .. Len(chunk.ways)
                      /\ chunk.ways[b.pending.seg].grip # "open"

\* The command of segment i, if it has one, was sent, is waiting, or was given up.
Holds(b, i) ==
  \/ chunk.ways[i].grip = None
  \/ \E j \in DOMAIN b.sent : b.sent[j] = i
  \/ b.pending # None /\ b.pending.seg = i
  \/ b.aborted /\ chunk.ways[i].grip # "open"

\* The segments whose command the walk has come to.
Over       == pc \in {"after", "finally"}
Reached(i) == i < seg \/ (i = seg /\ (k > 1 \/ (Over /\ outcome = "none")))

Accounted ==
  /\ pc # "idle" /\ ~Over => outcome = "none"
  /\ chunk.kind = "cartesian" /\ pc # "idle" /\ outcome # "raised" =>
       /\ ClosePending(Books)
       /\ \A i \in 1 .. seg : Reached(i) => Holds(Books, i)
       /\ pc \in {"start", "arm"} => seg = 1 /\ k = 1
       /\ pc = "finally" => pending = None

LEMMA AppendHas ==
  ASSUME NEW s \in Seq(Nat), NEW n \in Nat
  PROVE  /\ \E j \in DOMAIN Append(s, n) : Append(s, n)[j] = n
         /\ \A i : (\E j \in DOMAIN s : s[j] = i) =>
                     \E j \in DOMAIN Append(s, n) : Append(s, n)[j] = i
<1>1. /\ DOMAIN Append(s, n) = 1 .. Len(s) + 1 /\ DOMAIN s = 1 .. Len(s) /\ Len(s) \in Nat
      /\ Append(s, n)[Len(s) + 1] = n
      /\ \A j \in 1 .. Len(s) : Append(s, n)[j] = s[j]
  OBVIOUS
<1>2. Len(s) + 1 \in DOMAIN Append(s, n) /\ \A j \in DOMAIN s : j \in DOMAIN Append(s, n)
  BY <1>1
<1> QED
  BY <1>1, <1>2

\* A close that is tried is sent, or its abort is recorded.
LEMMA FireHolds ==
  ASSUME NEW b \in Account, b.pending # None, NEW near \in BOOLEAN, ClosePending(b)
  PROVE  /\ Fire(b, near).pending = None
         /\ \A i : Holds(b, i) => Holds(Fire(b, near), i)
<1>0. b.pending.seg \in Nat /\ b.sent \in Seq(Nat)
  BY DEF Account, Deferred
<1>1. CASE Fire(b, near) = [b EXCEPT !.pending = None, !.aborted = TRUE]
  <2>1. /\ Fire(b, near).pending = None /\ Fire(b, near).sent = b.sent
        /\ Fire(b, near).aborted = TRUE
    BY <1>1 DEF Account
  <2> QED
    BY <2>1 DEF Holds, ClosePending
<1>2. CASE Fire(b, near)
             = [b EXCEPT !.pending = None, !.issued = TRUE, !.sent = Append(@, b.pending.seg)]
  <2>1. /\ Fire(b, near).pending = None /\ Fire(b, near).sent = Append(b.sent, b.pending.seg)
        /\ Fire(b, near).aborted = b.aborted
    BY <1>2 DEF Account
  <2> DEFINE s == Append(b.sent, b.pending.seg)
  <2>2. /\ \E j \in DOMAIN s : s[j] = b.pending.seg
        /\ \A i : (\E j \in DOMAIN b.sent : b.sent[j] = i) => \E j \in DOMAIN s : s[j] = i
    BY <1>0, AppendHas
  <2> HIDE DEF s
  <2>3. Fire(b, near).sent = s
    BY <2>1 DEF s
  <2> QED
    BY <2>1, <2>2, <2>3, Zenon DEF Holds
<1> QED
  BY <1>1, <1>2, Zenon DEF Fire

LEMMA DueHolds ==
  ASSUME NEW b \in Account, NEW near \in BOOLEAN, ClosePending(b)
  PROVE  /\ ClosePending(Due(b, near))
         /\ \A i : Holds(b, i) => Holds(Due(b, near), i)
<1>1. CASE b.pending # None /\ tick >= b.pending.at
  <2>1. Due(b, near) = Fire(b, near)
    BY <1>1 DEF Due
  <2>2. Fire(b, near).pending = None /\ \A i : Holds(b, i) => Holds(Fire(b, near), i)
    BY <1>1, FireHolds
  <2> QED
    BY <2>1, <2>2 DEF ClosePending
<1>2. CASE ~(b.pending # None /\ tick >= b.pending.at)
  BY <1>2 DEF Due
<1> QED
  BY <1>1, <1>2

\* The segment's own command is sent, deferred, or skipped after an abort.
LEMMA CommandHolds ==
  ASSUME NEW b \in Account, TypeOK, ClosePending(b)
  PROVE  LET c == Command(b, chunk.ways[seg].grip) IN
           ClosePending(c) /\ Holds(c, seg) /\ \A i : Holds(b, i) => Holds(c, i)
<1> DEFINE grip == chunk.ways[seg].grip
           c    == Command(b, grip)
<1>0. /\ seg \in Nat /\ seg \in 1 .. Len(chunk.ways) /\ b.sent \in Seq(Nat)
      /\ read.near \in BOOLEAN
  BY ChunkFields DEF TypeOK, Account, Reads
<1>1. CASE ~Closing(grip) \/ ~chunk.gated \/ (grip = "grasp" /\ b.issued)
  <2>1. c = [b EXCEPT !.issued = @ \/ Closing(grip), !.sent = Append(@, seg)]
    BY <1>1, Zenon DEF Command
  <2>2. c.pending = b.pending /\ c.sent = Append(b.sent, seg) /\ c.aborted = b.aborted
    BY <2>1 DEF Account
  <2> DEFINE s == Append(b.sent, seg)
  <2>3. /\ \E j \in DOMAIN s : s[j] = seg
        /\ \A i : (\E j \in DOMAIN b.sent : b.sent[j] = i) => \E j \in DOMAIN s : s[j] = i
    BY <1>0, AppendHas
  <2> HIDE DEF c
  <2>4. c.sent = s
    BY <2>2
  <2> HIDE DEF s
  <2>5. Holds(c, seg) /\ \A i : Holds(b, i) => Holds(c, i)
    BY <2>2, <2>3, <2>4, Zenon DEF Holds
  <2>6. ClosePending(c)
    BY <2>2 DEF ClosePending
  <2>7. c = Command(b, chunk.ways[seg].grip)
    BY DEF c
  <2> QED
    BY <2>5, <2>6, <2>7
<1>2. CASE Closing(grip) /\ ~(~Closing(grip) \/ ~chunk.gated \/ (grip = "grasp" /\ b.issued)) /\ b.aborted
  <2>1. c = b
    BY <1>2, Zenon DEF Command
  <2>2. Holds(b, seg)
    BY <1>2 DEF Holds, Closing
  <2> QED
    BY <2>1, <2>2
<1>3. CASE Closing(grip) /\ ~(~Closing(grip) \/ ~chunk.gated \/ (grip = "grasp" /\ b.issued)) /\ ~b.aborted
  <2> DEFINE f == IF b.pending = None THEN b ELSE Fire(b, read.near)
  <2>1. c = [f EXCEPT !.pending = [seg |-> seg, at |-> tick + Settle]]
    BY <1>3, Zenon DEF Command
  <2>2. f \in Account /\ f.pending = None /\ \A i : Holds(b, i) => Holds(f, i)
    BY <1>0, FireTyped, FireHolds
  <2> HIDE DEF f
  <2>3. /\ c.pending = [seg |-> seg, at |-> tick + Settle]
        /\ c.sent = f.sent /\ c.aborted = f.aborted
    BY <2>1, <2>2 DEF Account
  <2>4. c.pending # None /\ c.pending.seg = seg
    <3>1. [seg |-> seg, at |-> tick + Settle].seg = seg
      OBVIOUS
    <3>2. [seg |-> seg, at |-> tick + Settle] \in [seg : Nat, at : Nat]
      BY <1>0, SettleWindow DEF TypeOK
    <3>3. [seg |-> seg, at |-> tick + Settle] # None
      BY <3>2, ChunkAssumption
    <3> QED
      BY <2>3, <3>1, <3>3
  <2>5. Holds(c, seg) /\ \A i : Holds(b, i) => Holds(c, i)
    BY <2>2, <2>3, <2>4 DEF Holds
  <2>6. ClosePending(c)
    BY <1>0, <1>3, <2>4 DEF ClosePending, Closing
  <2> QED
    BY <2>5, <2>6
<1> QED
  BY <1>1, <1>2, <1>3

LEMMA HandledHolds ==
  ASSUME TypeOK, ClosePending(Books)
  PROVE  /\ ClosePending(Handled)
         /\ \A i : Holds(Books, i) => Holds(Handled, i)
         /\ k = 1 => Holds(Handled, seg)
<1> DEFINE due == Due(Books, read.near)
<1>1. read.near \in BOOLEAN /\ Books \in Account
  BY BooksTyped DEF TypeOK, Reads
<1>2. due \in Account /\ ClosePending(due) /\ \A i : Holds(Books, i) => Holds(due, i)
  BY <1>1, DueTyped, DueHolds
<1>3. CASE k = 1 /\ chunk.ways[seg].grip # None
  <2>1. Handled = Command(due, chunk.ways[seg].grip)
    BY <1>3 DEF Handled
  <2> HIDE DEF due
  <2>2. /\ ClosePending(Command(due, chunk.ways[seg].grip))
        /\ Holds(Command(due, chunk.ways[seg].grip), seg)
        /\ \A i : Holds(due, i) => Holds(Command(due, chunk.ways[seg].grip), i)
    BY <1>2, CommandHolds
  <2> QED
    BY <1>2, <2>1, <2>2
<1>4. CASE ~(k = 1 /\ chunk.ways[seg].grip # None)
  <2>1. Handled = due
    BY <1>4 DEF Handled
  <2>2. k = 1 => Holds(due, seg)
    BY <1>4 DEF Holds
  <2> QED
    BY <1>2, <2>1, <2>2
<1> QED
  BY <1>3, <1>4

\* What is settled is the account from then on.
LEMMA SettledHolds ==
  ASSUME NEW b \in Account, Settled(b), chunk' = chunk
  PROVE  /\ \A i : Holds(Books, i)' <=> Holds(b, i)
         /\ ClosePending(Books)' <=> ClosePending(b)
<1>1. /\ Books.pending' = b.pending /\ Books.sent' = b.sent /\ Books.aborted' = b.aborted
      /\ chunk' = chunk
  BY DEF Settled, Books, Account
<1>2. ASSUME NEW i PROVE Holds(Books, i)' <=> Holds(b, i)
  BY <1>1, Zenon DEF Holds
<1>3. ClosePending(Books)' <=> ClosePending(b)
  BY <1>1, Zenon DEF ClosePending
<1> QED
  BY <1>2, <1>3

LEMMA SameHolds ==
  ASSUME UNCHANGED <<pending, closeIssued, closeAborted, sent>>, chunk' = chunk
  PROVE  /\ \A i : Holds(Books, i)' <=> Holds(Books, i)
         /\ ClosePending(Books)' <=> ClosePending(Books)
<1>1. Books' = Books /\ chunk' = chunk
  BY DEF Books
<1>2. ASSUME NEW i PROVE Holds(Books, i)' <=> Holds(Books, i)
  BY <1>1, Zenon DEF Holds
<1>3. ClosePending(Books)' <=> ClosePending(Books)
  BY <1>1, Zenon DEF ClosePending
<1> QED
  BY <1>2, <1>3

LEMMA WriteAccounted == TypeOK /\ Accounted /\ Write => Accounted'
<1> SUFFICES ASSUME TypeOK, Accounted, Write PROVE Accounted'
  OBVIOUS
<1>0. pc = "write" /\ chunk' = chunk /\ outcome' = outcome /\ outcome = "none"
  BY DEF Write, Accounted, Over
<1> SUFFICES ASSUME (chunk.kind = "cartesian" /\ pc # "idle" /\ outcome # "raised")'
             PROVE  /\ ClosePending(Books)'
                    /\ \A i \in 1 .. seg' : Reached(i)' => Holds(Books, i)'
                    /\ pc' \in {"tick", "after"}
  BY <1>0 DEF Accounted, Over, Write, Advance
<1>1. /\ pc = "write" /\ chunk' = chunk /\ chunk.kind = "cartesian" /\ outcome' = outcome
      /\ Settled(Handled) /\ Advance
  BY <1>0 DEF Write
<1>2. /\ ClosePending(Books) /\ outcome = "none"
      /\ \A i \in 1 .. seg : Reached(i) => Holds(Books, i)
  BY <1>0, <1>1 DEF Accounted, Over
<1>3. /\ seg \in Nat /\ seg >= 1 /\ k \in Nat /\ k >= 1 /\ k <= ticks /\ ticks \in Nat
  BY ChunkFields DEF TypeOK
<1>4. /\ ClosePending(Handled) /\ \A i : Holds(Books, i) => Holds(Handled, i)
      /\ k = 1 => Holds(Handled, seg)
  BY <1>2, HandledHolds
<1>5. ASSUME NEW i \in 1 .. seg PROVE Holds(Handled, i)
  <2>1. CASE i = seg /\ k = 1
    BY <1>4, <2>1
  <2>2. CASE i < seg \/ k > 1
    <3>1. Reached(i)
      BY <1>3, <2>2 DEF Reached
    <3> QED
      BY <1>2, <1>4, <3>1
  <2> QED
    BY <1>3, <2>1, <2>2
<1>6. /\ pc' \in {"tick", "after"}
      /\ \/ seg' = seg
         \/ seg' = seg + 1 /\ k' = 1 /\ pc' = "tick"
  BY <1>1 DEF Advance
<1>7. ASSUME NEW i \in 1 .. seg', Reached(i)' PROVE i \in 1 .. seg
  BY <1>3, <1>6, <1>7 DEF Reached, Over
<1>8. /\ \A i : Holds(Books, i)' <=> Holds(Handled, i)
      /\ ClosePending(Books)' <=> ClosePending(Handled)
  BY <1>1, HandledTyped, SettledHolds
<1> QED
  BY <1>1, <1>2, <1>4, <1>5, <1>6, <1>7, <1>8

LEMMA LeaveAccounted ==
  ASSUME TypeOK, Accounted, NEW near \in BOOLEAN, Leave(near) PROVE Accounted'
<1> SUFFICES ASSUME (chunk.kind = "cartesian" /\ pc # "idle" /\ outcome # "raised")'
             PROVE  /\ ClosePending(Books)' /\ pending' = None
                    /\ \A i \in 1 .. seg' : Reached(i)' => Holds(Books, i)'
  BY DEF Accounted, Over, Leave
<1>1. /\ pc = "after" /\ pc' = "finally" /\ chunk' = chunk /\ outcome' = outcome
      /\ seg' = seg /\ k' = k
  BY DEF Leave, walkVars
<1>2. ClosePending(Books) /\ \A i \in 1 .. seg : Reached(i) => Holds(Books, i)
  BY <1>1 DEF Accounted
<1>3. \A i : Reached(i)' <=> Reached(i)
  BY <1>1 DEF Reached, Over
<1>4. Books \in Account /\ Books.pending = pending
  BY BooksTyped DEF Books
<1>5. ASSUME NEW b \in Account, Settled(b), b.pending = None,
             \A i : Holds(Books, i) => Holds(b, i)
      PROVE  /\ ClosePending(Books)' /\ pending' = None
             /\ \A i \in 1 .. seg' : Reached(i)' => Holds(Books, i)'
  <2>1. /\ \A i : Holds(Books, i)' <=> Holds(b, i)
        /\ ClosePending(Books)' <=> ClosePending(b)
    BY <1>1, <1>5, SettledHolds
  <2>2. pending' = None /\ ClosePending(b)
    BY <1>5 DEF Settled, ClosePending
  <2> QED
    BY <1>1, <1>2, <1>3, <1>5, <2>1, <2>2
<1>6. CASE pending = None
  BY <1>4, <1>5, <1>6 DEF Leave
<1>7. CASE pending # None /\ outcome = "none"
  <2>1. Settled(Fire(Books, near))
    BY <1>7 DEF Leave
  <2>2. /\ Fire(Books, near) \in Account /\ Fire(Books, near).pending = None
        /\ \A i : Holds(Books, i) => Holds(Fire(Books, near), i)
    BY <1>2, <1>4, <1>7, FireTyped, FireHolds
  <2> QED
    BY <1>5, <2>1, <2>2
<1>8. CASE pending # None /\ outcome # "none"
  <2> DEFINE b == [Books EXCEPT !.pending = None, !.aborted = TRUE]
  <2>1. Settled(b)
    BY <1>8 DEF Leave
  <2>2. b \in Account /\ b.pending = None /\ b.sent = Books.sent /\ b.aborted = TRUE
    BY <1>4 DEF Account, Deferred
  <2> HIDE DEF b
  <2>3. \A i : Holds(Books, i) => Holds(b, i)
    BY <1>2, <2>2 DEF Holds, ClosePending
  <2> QED
    BY <1>5, <2>1, <2>2, <2>3
<1> QED
  BY <1>6, <1>7, <1>8

LEMMA StepAccounted == TypeOK /\ Accounted /\ [Next]_vars => Accounted'
<1> SUFFICES ASSUME TypeOK, Accounted, [Next]_vars PROVE Accounted'
  OBVIOUS
<1>0. seg \in Nat /\ k \in Nat /\ k >= 1 /\ None \in Deferred
  BY ChunkFields DEF TypeOK, Deferred
<1>1. ASSUME NEW c \in Chunks, Begin(c) PROVE Accounted'
  <2>1. pc' = "start" /\ seg' = 1 /\ k' = 1 /\ outcome' = "none" /\ pending' = None
    BY <1>1 DEF Begin
  <2> QED
    BY <2>1 DEF Accounted, Over, Reached, ClosePending, Books
<1>2. CASE Autostart \/ Arm
  <2>1. /\ UNCHANGED <<pending, closeIssued, closeAborted, sent, chunk, seg, k, outcome>>
        /\ pc \in {"start", "arm"} /\ pc' \in {"arm", "tick"}
    BY <1>2 DEF Autostart, Arm, gripVars, walkVars
  <2>2. \A i \in 1 .. seg : Reached(i)' <=> Reached(i)
    BY <2>1 DEF Reached, Over
  <2> QED
    BY <2>1, <2>2, SameHolds DEF Accounted, Over
<1>3. CASE Cancelled \/ FaultStops \/ ContactStops \/ FilterStops
  <2>1. /\ UNCHANGED <<pending, closeIssued, closeAborted, sent, chunk, seg, k>>
        /\ pc = "tick" /\ pc' = "after" /\ outcome' # "none"
    BY <1>3 DEF Cancelled, FaultStops, ContactStops, FilterStops, Gated, Halt, gripVars, walkVars
  <2>2. chunk.kind = "cartesian" =>
          ClosePending(Books) /\ \A i \in 1 .. seg : Reached(i) => Holds(Books, i)
    BY <2>1 DEF Accounted, Over
  <2>3. \A i \in 1 .. seg : Reached(i)' => Reached(i)
    BY <2>1 DEF Reached
  <2> QED
    BY <2>1, <2>2, <2>3, SameHolds DEF Accounted, Over
<1>4. CASE Pass
  <2>1. /\ UNCHANGED <<pending, closeIssued, closeAborted, sent, chunk, seg, k, outcome>>
        /\ pc = "tick" /\ pc' = "write"
    BY <1>4 DEF Pass
  <2>2. \A i \in 1 .. seg : Reached(i)' <=> Reached(i)
    BY <2>1 DEF Reached, Over
  <2> QED
    BY <2>1, <2>2, SameHolds DEF Accounted, Over
<1>5. CASE Write
  BY <1>5, WriteAccounted
<1>6. ASSUME NEW near \in BOOLEAN, Leave(near) PROVE Accounted'
  BY <1>6, LeaveAccounted
<1>7. CASE \/ Raises \/ StartRaises \/ ArmRaises \/ Restore \/ RestoreFails \/ AbortAtEntry
           \/ SetProfile \/ \E m \in {"cartesian", "joint"} : StartMode(m)
  <2>1. pc' = "idle" \/ (pc' = "finally" /\ outcome' = "raised")
    BY <1>7 DEF Raises, StartRaises, ArmRaises, Restore, RestoreFails, AbortAtEntry, SetProfile,
      StartMode
  <2> QED
    BY <2>1 DEF Accounted, Over
<1>8. CASE RequestStop \/ Stop \/ Drop \/ UNCHANGED vars
  <2>1. UNCHANGED <<pending, closeIssued, closeAborted, sent, chunk, seg, k, outcome, pc>>
    BY <1>8 DEF RequestStop, Stop, Drop, vars, gripVars, walkVars
  <2>2. \A i \in 1 .. seg : Reached(i)' <=> Reached(i)
    BY <2>1 DEF Reached, Over
  <2> QED
    BY <2>1, <2>2, SameHolds DEF Accounted, Over
<1> QED
  BY <1>1, <1>2, <1>3, <1>4, <1>5, <1>6, <1>7, <1>8 DEF Next, Executor

\* No command is lost in a settle window, whatever the chunks, the window, the stops and
\* the faults: each one the walk came to was sent, or is a close whose abort is recorded
\* (robot.py:436-516).
THEOREM NoCommandLost == Spec => []ClosesAccounted
<1>1. Init => Accounted
  BY DEF Init, Accounted
<1>2. TypeOK /\ Accounted => ClosesAccounted
  <2> SUFFICES ASSUME Accounted, pc = "finally", chunk.kind = "cartesian", outcome # "raised",
                      NEW i \in 1 .. seg, Met(i), chunk.ways[i].grip # None
               PROVE  (\E j \in DOMAIN sent : sent[j] = i)
                        \/ (closeAborted /\ chunk.ways[i].grip # "open")
    BY DEF ClosesAccounted
  <2>1. Reached(i)
    BY DEF Met, Reached, Over
  <2>2. pending = None /\ Holds(Books, i)
    BY <2>1 DEF Accounted
  <2> QED
    BY <2>2 DEF Holds, Books
<1> QED
  BY <1>1, <1>2, InitTyped, StepTyped, StepAccounted, PTL DEF Spec
===============================================================================
