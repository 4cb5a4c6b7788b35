------------------------------- MODULE MCLease -------------------------------
(* A small instance of Lease, with the faults its properties are there for.  *)
EXTENDS Lease
==============================================================================
