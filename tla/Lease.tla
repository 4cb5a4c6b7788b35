-------------------------------- MODULE Lease --------------------------------
(***************************************************************************)
(* class Lease of server/lease.py under concurrent handler threads.        *)
(*                                                                         *)
(* Every public method is one or more critical sections on Lease._lock;    *)
(* between two sections of one call any other thread, and the clock, may   *)
(* step.  call[t] is what thread t still has to do of its current call:    *)
(*                                                                         *)
(*   acquire : sweep; decide and grant              (two sections)         *)
(*   hold    : sweep; check; _holds += 1; body; _holds -= 1 and refresh    *)
(*   release   : one section, after its request arrived                    *)
(*   heartbeat : one section                                               *)
(*   owner / info / check : a sweep, then a read (no state of its own)     *)
(*                                                                         *)
(* Clients may die: a dead owner sends nothing more, but the handler       *)
(* thread that already serves one of its RPCs runs to the end of it.       *)
(***************************************************************************)
EXTENDS LeaseOps, FiniteSets

CONSTANTS Threads   \* handler threads

ASSUME ThreadAssumption == IsFiniteSet(Threads)

VARIABLES lease,   \* Lease._info
          holds,   \* Lease._holds
          call,    \* the rest of each thread's current Lease call
          dead     \* owners whose client process has died

vars == <<lease, holds, call, dead>>

Steps == {"idle", "acquire", "check", "enter", "inside", "release"}
Call  == [step : Steps, owner : Owners \cup {NoOwner}, force : BOOLEAN]
Idle  == [step |-> "idle", owner |-> NoOwner, force |-> FALSE]

Inside == {t \in Threads : call[t].step = "inside"}

\* _holds never falls below zero: an exit answers an entry.
TypeOK ==
  /\ lease \in LeaseInfo
  /\ holds \in Nat
  /\ call \in [Threads -> Call]
  /\ dead \subseteq Owners

Init ==
  /\ lease = NoLease
  /\ holds = 0
  /\ call = [t \in Threads |-> Idle]
  /\ dead = {}

-----------------------------------------------------------------------------
Pending(s, o, f) == [step |-> s, owner |-> o, force |-> f]

Goto(t, s) == call' = [call EXCEPT ![t] = Pending(s, call[t].owner, call[t].force)]
Return(t)  == call' = [call EXCEPT ![t] = Idle]
Begin(t, s, o, f) ==
  /\ call[t] = Idle
  /\ o \notin dead
  /\ call' = [call EXCEPT ![t] = Pending(s, o, f)]

\* A query (owner, info, check) from any thread sweeps and reads.
Query ==
  /\ lease' = Swept(lease, holds)
  /\ UNCHANGED <<holds, call, dead>>

\* acquire(owner, force): the sweep, then the decision in a section of its own.
AcquireSweep(t, o, f) ==
  /\ Begin(t, "acquire", o, f)
  /\ lease' = Swept(lease, holds)
  /\ UNCHANGED <<holds, dead>>

AcquireGrant(t) ==
  /\ call[t].step = "acquire"
  /\ Available(lease, call[t].owner, call[t].force)
  /\ lease' = Granted(call[t].owner)
  /\ Return(t)
  /\ UNCHANGED <<holds, dead>>

AcquireRefuse(t) ==
  /\ call[t].step = "acquire"
  /\ ~Available(lease, call[t].owner, call[t].force)
  /\ Return(t)
  /\ UNCHANGED <<lease, holds, dead>>

\* with hold(owner): check(owner), which sweeps and then decides; _holds += 1;
\* the body; on exit _holds -= 1 and a refresh if the lease is still owner's.
HoldSweep(t, o) ==
  /\ Begin(t, "check", o, FALSE)
  /\ lease' = Swept(lease, holds)
  /\ UNCHANGED <<holds, dead>>

\* Faulty: the check is inside the try, whose finally also runs when it fails.
HoldCheck_InTry(t) ==
  /\ call[t].step = "check"
  /\ Goto(t, IF HeldBy(lease, call[t].owner) THEN "enter" ELSE "inside")
  /\ UNCHANGED <<lease, holds, dead>>

HoldCheck(t) ==
  /\ call[t].step = "check"
  /\ \/ HeldBy(lease, call[t].owner) /\ Goto(t, "enter")
     \/ ~HeldBy(lease, call[t].owner) /\ Return(t)
  /\ UNCHANGED <<lease, holds, dead>>

HoldEnter(t) ==
  /\ call[t].step = "enter"
  /\ holds' = holds + 1
  /\ Goto(t, "inside")
  /\ UNCHANGED <<lease, dead>>

\* Faulty: the decrement moved under the ownership test; the refresh moved
\* out of it.
HoldExit_DecrementIfOwner(t) ==
  /\ call[t].step = "inside"
  /\ IF HeldBy(lease, call[t].owner)
     THEN holds' = holds - 1 /\ lease' = Renewed(lease)
     ELSE UNCHANGED <<holds, lease>>
  /\ Return(t)
  /\ UNCHANGED dead

HoldExit_RefreshAlways(t) ==
  /\ call[t].step = "inside"
  /\ holds' = holds - 1
  /\ lease' = IF Held(lease) THEN Renewed(lease) ELSE lease
  /\ Return(t)
  /\ UNCHANGED dead

HoldExit(t) ==
  /\ call[t].step = "inside"
  /\ holds' = holds - 1
  /\ lease' = IF HeldBy(lease, call[t].owner) THEN Renewed(lease) ELSE lease
  /\ Return(t)
  /\ UNCHANGED dead

\* heartbeat does not sweep: it revives an overdue lease nobody has reaped yet.
Heartbeat(o) ==
  /\ o \notin dead
  /\ HeldBy(lease, o)
  /\ lease' = Renewed(lease)
  /\ UNCHANGED <<holds, call, dead>>

\* release(owner) is refused only when somebody else holds the lease.
ReleaseAsk(t, o) ==
  /\ Begin(t, "release", o, FALSE)
  /\ UNCHANGED <<lease, holds, dead>>

Release(t) ==
  /\ call[t].step = "release"
  /\ lease' = IF Held(lease) /\ lease.owner # call[t].owner THEN lease ELSE NoLease
  /\ Return(t)
  /\ UNCHANGED <<holds, dead>>

\* The environment: time passes, a client process dies.
Tick ==
  /\ lease' = Aged(lease)
  /\ UNCHANGED <<holds, call, dead>>

Die(o) ==
  /\ dead' = dead \cup {o}
  /\ UNCHANGED <<lease, holds, call>>

ThreadStep(t) ==
  \/ AcquireGrant(t) \/ AcquireRefuse(t)
  \/ HoldCheck(t) \/ HoldEnter(t) \/ HoldExit(t)
  \/ Release(t)

Next ==
  \/ Query
  \/ Tick
  \/ \E o \in Owners : Heartbeat(o) \/ Die(o)
  \/ \E t \in Threads, o \in Owners :
       \/ HoldSweep(t, o)
       \/ ReleaseAsk(t, o)
       \/ \E f \in BOOLEAN : AcquireSweep(t, o, f)
  \/ \E t \in Threads : ThreadStep(t)

Spec == Init /\ [][Next]_vars

\* Threads finish the calls they began, the clock advances, and somebody keeps
\* asking for the lease (a waiting client, a viewer polling get_state).
Fairness ==
  /\ WF_vars(Query)
  /\ WF_vars(Tick)
  /\ \A t \in Threads : WF_vars(ThreadStep(t))

FairSpec == Spec /\ Fairness

-----------------------------------------------------------------------------
(* Properties *)

\* _holds counts exactly the RPC bodies in flight (lease.py:40-44, 73, 78): it
\* would be off after a body whose owner lost the lease, or an exit on an
\* exception path, and the lease would then never expire again or expire
\* under a running chunk.
HoldsCounted == holds = Cardinality(Inside)

\* Only the owner's own traffic extends a lease: a body that ends after its
\* owner was displaced leaves the new holder's expiry alone (lease.py:79).
ExitSparesOthers ==
  [][\A t \in Threads :
       (call[t].step = "inside" /\ call'[t].step = "idle"
          /\ lease.owner # call[t].owner) => lease' = lease]_vars

\* "If the holder dies without releasing, the lease frees itself after
\* ttl_seconds so the arm is not bricked for the next person" (lease.py:6-8).
DeadHolderFreed ==
  \A o \in Owners : (o \in dead /\ lease.owner = o) ~> (lease.owner # o)

\* What the lease promises its clients (LeaseService): the refinement mapping
\* forgets the threads and keeps who holds, whether the holder is overdue, how
\* many bodies pin the lease, who is asking by force and who is leaving.
Service == INSTANCE LeaseService WITH
             holder  <- lease.owner,
             late    <- Overdue(lease),
             pins    <- holds,
             forcing <- {call[t].owner : t \in {u \in Threads : call[u].force}},
             leaving <- {call[t].owner : t \in {u \in Threads : call[u].step = "release"}}

ServiceSpec == Service!Spec
==============================================================================
