----------------------------- MODULE LeaseProofs -----------------------------
(***************************************************************************)
(* Theorems about Lease for any set of owners, any finite set of threads   *)
(* and any TTL.                                                            *)
(***************************************************************************)
EXTENDS Lease, FiniteSetTheorems, TLAPS

\* What the critical sections return, given a well-formed lease.
LEMMA SectionTypes ==
  ASSUME NEW l \in LeaseInfo
  PROVE  /\ \A h \in Int : Swept(l, h) \in LeaseInfo
         /\ Aged(l) \in LeaseInfo
         /\ Renewed(l) \in LeaseInfo
         /\ NoLease \in LeaseInfo
BY LeaseAssumption DEF LeaseInfo, Swept, Aged, Renewed, NoLease, Overdue, Held

\* A grant to a client, or to nobody, is a lease record.
LEMMA GrantType ==
  ASSUME NEW o \in Owners \cup {NoOwner} PROVE Granted(o) \in LeaseInfo
BY LeaseAssumption DEF LeaseInfo, Granted

USE DEF Idle, Steps, Call, Pending

-----------------------------------------------------------------------------
\* The types a step keeps by itself: that holds does not go below 0 needs the
\* count of the bodies (lease.py:73, 78).
Types ==
  /\ lease \in LeaseInfo /\ holds \in Int
  /\ call \in [Threads -> Call] /\ dead \subseteq Owners

LEMMA TypesKept == Spec => []Types
<1>1. Init => Types
  BY LeaseAssumption DEF Init, Types, NoLease, LeaseInfo
<1>2. Types /\ [Next]_vars => Types'
  <2> SUFFICES ASSUME Types, [Next]_vars PROVE Types'
    OBVIOUS
  <2> USE DEF Types, Return, Goto, Begin
  <2>1. CASE Query
    BY <2>1, SectionTypes DEF Query
  <2>2. CASE Tick
    BY <2>2, SectionTypes DEF Tick
  <2>3. ASSUME NEW o \in Owners, Heartbeat(o) \/ Die(o) PROVE Types'
    BY <2>3, SectionTypes DEF Heartbeat, Die
  <2>4. ASSUME NEW t \in Threads, NEW o \in Owners,
               HoldSweep(t, o) \/ ReleaseAsk(t, o)
        PROVE  Types'
    <3>1. \A s \in Steps : [step |-> s, owner |-> o, force |-> FALSE] \in Call
      OBVIOUS
    <3>2. CASE HoldSweep(t, o)
      BY <3>1, <3>2, SectionTypes DEF HoldSweep
    <3>3. CASE ReleaseAsk(t, o)
      BY <3>1, <3>3 DEF ReleaseAsk
    <3>4. QED
      BY <2>4, <3>2, <3>3
  <2>5. ASSUME NEW t \in Threads, NEW o \in Owners, NEW f \in BOOLEAN,
               AcquireSweep(t, o, f)
        PROVE  Types'
    BY <2>5, SectionTypes DEF AcquireSweep
  <2>6. ASSUME NEW t \in Threads, ThreadStep(t) PROVE Types'
    <3>1. CASE AcquireGrant(t)
      <4>1. call[t].owner \in Owners \cup {NoOwner}
        OBVIOUS
      <4>2. Granted(call[t].owner) \in LeaseInfo
        BY <4>1, GrantType
      <4>3. QED
        BY <3>1, <4>2 DEF AcquireGrant
    <3>2. CASE AcquireRefuse(t)
      BY <3>2 DEF AcquireRefuse
    <3>3. CASE HoldCheck(t)
      <4>1. CASE Goto(t, "enter")
        BY <3>3, <4>1 DEF HoldCheck
      <4>2. CASE Return(t)
        BY <3>3, <4>2 DEF HoldCheck
      <4>3. QED
        BY <3>3, <4>1, <4>2 DEF HoldCheck
    <3>4. CASE HoldEnter(t)
      BY <3>4 DEF HoldEnter
    <3>5. CASE HoldExit(t)
      BY <3>5, SectionTypes DEF HoldExit, HeldBy, Held
    <3>6. CASE Release(t)
      BY <3>6, SectionTypes DEF Release
    <3>7. QED
      BY <2>6, <3>1, <3>2, <3>3, <3>4, <3>5, <3>6 DEF ThreadStep
  <2>7. CASE UNCHANGED vars
    BY <2>7 DEF vars
  <2>8. QED
    BY <2>1, <2>2, <2>3, <2>4, <2>5, <2>6, <2>7 DEF Next
<1>3. QED
  BY <1>1, <1>2, PTL DEF Spec

-----------------------------------------------------------------------------
\* A thread in the middle of a call carries a real owner: acquire grants the
\* lease to whatever owner its call recorded.
CallOwned == \A t \in Threads : call[t] # Idle => call[t].owner \in Owners

LEMMA CallsAreOwned == Spec => []CallOwned
<1>1. Init => CallOwned
  BY DEF Init, CallOwned
<1>2. Types /\ CallOwned /\ [Next]_vars => CallOwned'
  <2> SUFFICES ASSUME Types, CallOwned, [Next]_vars PROVE CallOwned'
    OBVIOUS
  <2> USE DEF Types, CallOwned, Return, Goto, Begin
  <2>1. CASE Query \/ Tick
    BY <2>1 DEF Query, Tick
  <2>2. ASSUME NEW o \in Owners, Heartbeat(o) \/ Die(o) PROVE CallOwned'
    BY <2>2 DEF Heartbeat, Die
  <2>3. ASSUME NEW t \in Threads, NEW o \in Owners,
               HoldSweep(t, o) \/ ReleaseAsk(t, o)
        PROVE  CallOwned'
    <3>1. PICK s \in Steps :
            call' = [call EXCEPT ![t] = Pending(s, o, FALSE)]
      BY <2>3 DEF HoldSweep, ReleaseAsk
    <3>2. QED
      BY <3>1
  <2>4. ASSUME NEW t \in Threads, NEW o \in Owners, NEW f \in BOOLEAN,
               AcquireSweep(t, o, f)
        PROVE  CallOwned'
    <3>1. call' = [call EXCEPT ![t] = Pending("acquire", o, f)]
      BY <2>4 DEF AcquireSweep
    <3>2. QED
      BY <3>1
  <2>5. ASSUME NEW t \in Threads, ThreadStep(t) PROVE CallOwned'
    <3>1. \/ call' = [call EXCEPT ![t] = Idle]
          \/ call[t].step # "idle"
             /\ \E s \in Steps : call' = [call EXCEPT ![t] = Pending(s, call[t].owner, call[t].force)]
      BY <2>5 DEF ThreadStep, AcquireGrant, AcquireRefuse, HoldCheck, HoldEnter,
                  HoldExit, Release
    <3>2. CASE call' = [call EXCEPT ![t] = Idle]
      BY <3>2
    <3>3. ASSUME NEW s \in Steps, call[t].step # "idle",
                 call' = [call EXCEPT ![t] = Pending(s, call[t].owner, call[t].force)]
          PROVE  CallOwned'
      <4>1. call'[t].owner = call[t].owner /\ call[t].owner \in Owners
        BY <3>3
      <4>2. QED
        BY <3>3, <4>1
    <3>4. QED
      BY <3>1, <3>2, <3>3
  <2>6. CASE UNCHANGED vars
    BY <2>6 DEF vars
  <2>7. QED
    BY <2>1, <2>2, <2>3, <2>4, <2>5, <2>6 DEF Next
<1>3. QED
  BY <1>1, <1>2, TypesKept, PTL DEF Spec

-----------------------------------------------------------------------------
\* Lease._holds counts exactly the RPC bodies in flight, whoever holds the
\* lease meanwhile (lease.py:44, 73, 78).
THEOREM HoldsAreExact == Spec => []HoldsCounted
<1>1. Init => HoldsCounted
  <2>1. Init => Inside = {}
    BY DEF Init, Inside
  <2>2. QED
    BY <2>1, FS_EmptySet DEF Init, HoldsCounted
<1>2. Types /\ HoldsCounted /\ [Next]_vars => HoldsCounted'
  <2> SUFFICES ASSUME Types, HoldsCounted, [Next]_vars PROVE HoldsCounted'
    OBVIOUS
  <2> USE DEF Types, Return, Goto, Begin
  <2>0. IsFiniteSet(Inside)
    BY ThreadAssumption, FS_Subset DEF Inside
  <2>1. ASSUME UNCHANGED holds, Inside' = Inside PROVE HoldsCounted'
    BY <2>1 DEF HoldsCounted
  <2>2. CASE Query \/ Tick
    BY <2>1, <2>2 DEF Query, Tick, Inside
  <2>3. ASSUME NEW o \in Owners, Heartbeat(o) \/ Die(o) PROVE HoldsCounted'
    BY <2>1, <2>3 DEF Heartbeat, Die, Inside
  <2>4. ASSUME NEW t \in Threads, NEW o \in Owners,
               HoldSweep(t, o) \/ ReleaseAsk(t, o)
        PROVE  HoldsCounted'
    <3>1. Inside' = Inside
      BY <2>4 DEF HoldSweep, ReleaseAsk, Inside
    <3>2. QED
      BY <2>1, <2>4, <3>1 DEF HoldSweep, ReleaseAsk
  <2>5. ASSUME NEW t \in Threads, NEW o \in Owners, NEW f \in BOOLEAN,
               AcquireSweep(t, o, f)
        PROVE  HoldsCounted'
    <3>1. Inside' = Inside
      BY <2>5 DEF AcquireSweep, Inside
    <3>2. QED
      BY <2>1, <2>5, <3>1 DEF AcquireSweep
  <2>6. ASSUME NEW t \in Threads,
               AcquireGrant(t) \/ AcquireRefuse(t) \/ HoldCheck(t) \/ Release(t)
        PROVE  HoldsCounted'
    <3>1. Inside' = Inside
      BY <2>6 DEF AcquireGrant, AcquireRefuse, HoldCheck, Release, Inside
    <3>2. QED
      BY <2>1, <2>6, <3>1 DEF AcquireGrant, AcquireRefuse, HoldCheck, Release
  <2>7. ASSUME NEW t \in Threads, HoldEnter(t) PROVE HoldsCounted'
    <3>1. Inside' = Inside \cup {t} /\ t \notin Inside
      BY <2>7 DEF HoldEnter, Inside
    <3>2. Cardinality(Inside') = Cardinality(Inside) + 1
      BY <2>0, <3>1, FS_AddElement
    <3>3. QED
      BY <2>7, <3>2 DEF HoldEnter, HoldsCounted
  <2>8. ASSUME NEW t \in Threads, HoldExit(t) PROVE HoldsCounted'
    <3>1. Inside' = Inside \ {t} /\ t \in Inside
      BY <2>8 DEF HoldExit, Inside
    <3>2. Cardinality(Inside') = Cardinality(Inside) - 1
      BY <2>0, <3>1, FS_RemoveElement
    <3>3. QED
      BY <2>8, <3>2 DEF HoldExit, HoldsCounted
  <2>9. CASE UNCHANGED vars
    BY <2>1, <2>9 DEF vars, Inside
  <2>10. QED
    BY <2>2, <2>3, <2>4, <2>5, <2>6, <2>7, <2>8, <2>9 DEF Next, ThreadStep
<1>3. QED
  BY <1>1, <1>2, TypesKept, PTL DEF Spec

\* Type correctness of class Lease (lease.py:35-119) with its callers: _holds
\* in particular is never negative, as it is the number of a set of bodies.
THEOREM LeaseTypeCorrect == Spec => []TypeOK
<1>1. Types /\ HoldsCounted => TypeOK
  <2>1. IsFiniteSet(Inside)
    BY ThreadAssumption, FS_Subset DEF Inside
  <2>2. Cardinality(Inside) \in Nat
    BY <2>1, FS_CardinalityType
  <2>3. QED
    BY <2>2 DEF Types, HoldsCounted, TypeOK
<1>2. QED
  BY <1>1, TypesKept, HoldsAreExact, PTL

-----------------------------------------------------------------------------
\* A body that ends after its owner was displaced leaves the lease as it is
\* (the test at lease.py:79).
THEOREM ExitLeavesThief == Spec => ExitSparesOthers
<1> DEFINE Spares == \A t \in Threads :
             (call[t].step = "inside" /\ call'[t].step = "idle"
                /\ lease.owner # call[t].owner) => lease' = lease
<1>1. Types /\ [Next]_vars => [Spares]_vars
  <2> SUFFICES ASSUME Types, Next,
                      NEW u \in Threads,
                      call[u].step = "inside", call'[u].step = "idle",
                      lease.owner # call[u].owner
               PROVE  lease' = lease
    OBVIOUS
  <2> USE DEF Types, Return, Goto, Begin
  <2>1. CASE Query \/ Tick
    BY <2>1 DEF Query, Tick
  <2>2. ASSUME NEW o \in Owners, Heartbeat(o) \/ Die(o) PROVE FALSE
    BY <2>2 DEF Heartbeat, Die
  <2>3. ASSUME NEW t \in Threads, NEW o \in Owners,
               HoldSweep(t, o) \/ ReleaseAsk(t, o) \/ \E f \in BOOLEAN : AcquireSweep(t, o, f)
        PROVE  FALSE
    BY <2>3 DEF HoldSweep, ReleaseAsk, AcquireSweep
  <2>4. ASSUME NEW t \in Threads, ThreadStep(t) PROVE lease' = lease
    <3>1. CASE HoldExit(t)
      BY <3>1 DEF HoldExit, HeldBy
    <3>2. CASE ~HoldExit(t)
      BY <2>4, <3>2 DEF ThreadStep, AcquireGrant, AcquireRefuse, HoldCheck, HoldEnter, Release
    <3>3. QED
      BY <3>1, <3>2
  <2>5. QED
    BY <2>1, <2>2, <2>3, <2>4 DEF Next
<1>2. QED
  BY <1>1, TypesKept, PTL DEF Spec, ExitSparesOthers

-----------------------------------------------------------------------------
\* The threaded lease implements the promise of LeaseService: however the
\* critical sections of concurrent calls interleave, a holder loses the lease
\* only on its own release, to a forced request, or overdue and unpinned.
THEOREM ImplementsService == Spec => ServiceSpec
<1> USE DEF Service!vars
<1>1. Init => Service!Init
  BY DEF Init, Service!Init, NoLease, Overdue, Held
<1>2. Types /\ Types' /\ CallOwned /\ CallOwned' /\ [Next]_vars
        => [Service!Next]_(Service!vars)
  <2> SUFFICES ASSUME Types, Types', CallOwned, CallOwned', Next
               PROVE  Service!Next
    BY DEF vars, Overdue, Held
  <2> USE DEF Types, Return, Goto, Begin
  <2> DEFINE Forcing == {call[t].owner : t \in {u \in Threads : call[u].force}}
             Leaving == {call[t].owner : t \in {u \in Threads : call[u].step = "release"}}
             Moves   == \/ \E o \in Owners : Service!Grant(o) \/ Service!Steal(o)
                        \/ Service!Renew \/ Service!Elapse \/ Service!GiveUp
                        \/ Service!Lapse \/ Service!Pin \/ Service!Unpin
                        \/ Service!Ask
  <2>0. Forcing' \subseteq Owners /\ Leaving' \subseteq Owners
    BY DEF CallOwned
  <2> SUFFICES Moves
    BY <2>0 DEF Service!Next
  <2>1. ASSUME lease' = Swept(lease, holds), UNCHANGED holds PROVE Moves
    <3>1. CASE Overdue(lease) /\ holds = 0
      BY <2>1, <3>1 DEF Swept, Service!Lapse, NoLease, Overdue, Held
    <3>2. CASE ~(Overdue(lease) /\ holds = 0)
      BY <2>1, <3>2 DEF Swept, Service!Ask
    <3>3. QED
      BY <3>1, <3>2
  <2>2. ASSUME UNCHANGED <<lease, holds>> PROVE Moves
    BY <2>2 DEF Service!Ask
  <2>3. ASSUME HeldBy(lease, lease.owner), lease' = Renewed(lease), UNCHANGED holds
        PROVE  Moves
    BY <2>3, LeaseAssumption
    DEF HeldBy, Held, Renewed, Service!Renew, Overdue, LeaseInfo
  <2>4. CASE Query
    BY <2>1, <2>4 DEF Query
  <2>5. CASE Tick
    <3>1. lease'.owner = lease.owner
      BY <2>5 DEF Tick, Aged, LeaseInfo
    <3>2. CASE Overdue(lease)' = Overdue(lease)
      BY <2>5, <3>1, <3>2 DEF Tick, Service!Ask
    <3>3. CASE Overdue(lease)' # Overdue(lease)
      BY <2>5, <3>1, <3>3 DEF Tick, Aged, LeaseInfo, Overdue, Held, Service!Elapse
    <3>4. QED
      BY <3>2, <3>3
  <2>6. ASSUME NEW o \in Owners, Heartbeat(o) \/ Die(o) PROVE Moves
    BY <2>2, <2>3, <2>6 DEF Heartbeat, Die, HeldBy
  <2>7. ASSUME NEW t \in Threads, NEW o \in Owners,
               HoldSweep(t, o) \/ ReleaseAsk(t, o) \/ \E f \in BOOLEAN : AcquireSweep(t, o, f)
        PROVE  Moves
    BY <2>1, <2>2, <2>7 DEF HoldSweep, ReleaseAsk, AcquireSweep
  <2>8. ASSUME NEW t \in Threads, AcquireGrant(t) PROVE Moves
    <3> DEFINE o == call[t].owner
    <3>1. o \in Owners
      BY <2>8 DEF AcquireGrant, CallOwned
    <3>2. lease'.owner = o /\ ~Overdue(lease)' /\ holds' = holds
      BY <2>8, LeaseAssumption DEF AcquireGrant, Granted, Overdue
    <3>3. CASE lease.owner \in {NoOwner, o}
      BY <3>1, <3>2, <3>3 DEF Service!Grant
    <3>4. CASE call[t].force
      <4>1. o \in Forcing
        BY <3>4
      <4>2. QED
        BY <3>1, <3>2, <4>1 DEF Service!Steal
    <3>5. QED
      BY <2>8, <3>3, <3>4 DEF AcquireGrant, Available, Held
  <2>9. ASSUME NEW t \in Threads, AcquireRefuse(t) \/ HoldCheck(t) PROVE Moves
    BY <2>2, <2>9 DEF AcquireRefuse, HoldCheck
  <2>10. ASSUME NEW t \in Threads, HoldEnter(t) PROVE Moves
    BY <2>10 DEF HoldEnter, Service!Pin
  <2>11. ASSUME NEW t \in Threads, HoldExit(t) PROVE Moves
    <3>1. lease'.owner = lease.owner /\ (Overdue(lease)' = Overdue(lease) \/ ~Overdue(lease)')
      BY <2>11, LeaseAssumption DEF HoldExit, Renewed, LeaseInfo, Overdue
    <3>2. QED
      BY <2>11, <3>1 DEF HoldExit, Service!Unpin, Overdue
  <2>12. ASSUME NEW t \in Threads, Release(t) PROVE Moves
    <3>1. CASE lease' = lease
      BY <2>2, <2>12, <3>1 DEF Release
    <3>2. CASE lease' = NoLease /\ lease' # lease
      <4>1. lease.owner \in {NoOwner, call[t].owner}
        BY <2>12, <3>2 DEF Release, Held
      <4>2. lease'.owner = NoOwner /\ ~Overdue(lease)'
        BY <3>2 DEF NoLease, Overdue, Held
      <4>3. CASE lease.owner = NoOwner
        BY <2>12, <4>2, <4>3 DEF Release, Service!Ask, Overdue, Held
      <4>4. CASE lease.owner = call[t].owner
        <5>1. lease.owner \in Leaving
          BY <2>12, <4>4 DEF Release
        <5>2. QED
          BY <2>12, <4>2, <5>1 DEF Release, Service!GiveUp
      <4>5. QED
        BY <4>1, <4>3, <4>4
    <3>3. QED
      BY <2>12, <3>1, <3>2 DEF Release
  <2>13. QED
    BY <2>4, <2>5, <2>6, <2>7, <2>8, <2>9, <2>10, <2>11, <2>12 DEF Next, ThreadStep
<1>3. QED
  BY <1>1, <1>2, TypesKept, CallsAreOwned, PTL DEF Spec, ServiceSpec, Service!Spec
==============================================================================
