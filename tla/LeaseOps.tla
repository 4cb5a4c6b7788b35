------------------------------- MODULE LeaseOps -------------------------------
(***************************************************************************)
(* The data of server/lease.py: one LeaseInfo, and what each critical      *)
(* section of class Lease does to it.  Wall-clock time is kept relative:   *)
(* a lease record carries the time LEFT until expires_at, so               *)
(* `time.time() > expires_at` reads left < 0, and time passing is Aged.    *)
(* Lease.tla interleaves these sections between threads; ControlServer.tla *)
(* composes them with the request handlers.                                *)
(***************************************************************************)
EXTENDS Integers

CONSTANTS Owners,   \* the owner strings clients send (non-empty strings)
          NoOwner,  \* the empty string: nobody holds the lease
          TTL       \* ttl_seconds, in ticks of the clock

ASSUME LeaseAssumption == TTL \in Nat /\ NoOwner \notin Owners

\* _info: a LeaseInfo, or NoLease where the code has None.  acquired_at is
\* never read by the program and is left out.
LeaseInfo == [owner : Owners \cup {NoOwner}, left : -1 .. TTL]
NoLease   == [owner |-> NoOwner, left |-> -1]

Held(l)       == l.owner # NoOwner
HeldBy(l, o)  == Held(l) /\ l.owner = o
Overdue(l)    == Held(l) /\ l.left < 0

\* acquire's fresh LeaseInfo, and heartbeat's / hold's refresh of expires_at.
Granted(o)    == [owner |-> o, left |-> TTL]
Renewed(l)    == [l EXCEPT !.left = TTL]

\* Faulty: _expire_if_stale that forgets in-flight RPCs.
Swept_IgnoresHolds(l, holds) == IF Overdue(l) THEN NoLease ELSE l

\* _expire_if_stale: an overdue lease is dropped unless an RPC holds it open.
Swept(l, holds) == IF Overdue(l) /\ holds = 0 THEN NoLease ELSE l

\* acquire's condition, after the sweep.
Available(l, o, force) == ~Held(l) \/ l.owner = o \/ force

\* One tick of the clock; how long a lease has been overdue is irrelevant.
Aged(l) == IF l.left >= 0 THEN [l EXCEPT !.left = @ - 1] ELSE l
===============================================================================
