----------------------------- MODULE LeaseService -----------------------------
(***************************************************************************)
(* What the single-writer lease promises, with no threads and no clock.    *)
(* At most one owner holds it.  A holder keeps it until it gives it up,    *)
(* until somebody takes it with force, or until it has been silent for a   *)
(* full TTL with none of its RPCs in flight.                               *)
(***************************************************************************)
EXTENDS Integers

CONSTANTS Owners, NoOwner

VARIABLES holder,   \* the owner, or NoOwner
          late,     \* the holder's TTL has run out
          pins,     \* RPC bodies in flight
          forcing,  \* owners with a forced request pending
          leaving   \* owners with a release pending

vars == <<holder, late, pins, forcing, leaving>>

Init ==
  /\ holder = NoOwner /\ late = FALSE /\ pins = 0
  /\ forcing = {} /\ leaving = {}

\* A free lease goes to whoever asks; the holder may ask again.
Grant(o) ==
  /\ holder \in {NoOwner, o}
  /\ holder' = o /\ late' = FALSE
  /\ UNCHANGED pins

\* A held lease changes hands only by force.
Steal(o) ==
  /\ o \in forcing
  /\ holder' = o /\ late' = FALSE
  /\ UNCHANGED pins

\* The holder shows a sign of life, or its time runs out.
Renew  == holder # NoOwner /\ late' = FALSE /\ UNCHANGED <<holder, pins>>
Elapse == holder # NoOwner /\ late' = TRUE  /\ UNCHANGED <<holder, pins>>

\* The holder gives the lease up, on its own request only.
GiveUp ==
  /\ holder \in leaving
  /\ holder' = NoOwner /\ late' = FALSE
  /\ UNCHANGED pins

\* A silent holder with nothing in flight loses it.
Lapse ==
  /\ late /\ pins = 0
  /\ holder' = NoOwner /\ late' = FALSE
  /\ UNCHANGED pins

\* An RPC body begins or ends; its end may be a sign of life.
Pin   == pins' = pins + 1 /\ UNCHANGED <<holder, late>>
Unpin ==
  /\ pins' = pins - 1
  /\ late' \in {late, FALSE}
  /\ UNCHANGED holder

\* A request only arrives, or leaves with its answer.
Ask == UNCHANGED <<holder, late, pins>>

Next ==
  /\ \/ \E o \in Owners : Grant(o) \/ Steal(o)
     \/ Renew \/ Elapse \/ GiveUp \/ Lapse \/ Pin \/ Unpin \/ Ask
  /\ forcing' \subseteq Owners
  /\ leaving' \subseteq Owners

Spec == Init /\ [][Next]_vars
===============================================================================
