--------------------------- MODULE MCControlServer ---------------------------
(* Small instances of ControlServer: who is connected and what each sends.   *)
EXTENDS ControlServer, TLC

CONSTANTS a, b, t1, t2

\* Two clients; one of them may send anything.
TwoClients == (t1 :> a) @@ (t2 :> b)
Everything == (t1 :> Methods) @@ (t2 :> Methods \ {"home", "ritual"})

\* One client with a second connection that never acquires.
OneClient == (t1 :> a) @@ (t2 :> a)
Session   == (t1 :> {"acquire", "chunk", "stopLoop"})
          @@ (t2 :> {"stop", "release", "startLoop"})

\* A homing ritual, and a client that takes the lease.
Ritual    == (t1 :> {"acquire", "ritual"}) @@ (t2 :> {"force"})
==============================================================================
