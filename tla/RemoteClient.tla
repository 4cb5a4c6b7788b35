----------------------------- MODULE RemoteClient -----------------------------
(***************************************************************************)
(* client/remote_robot.py: one RemoteRobot, shared by the thread that      *)
(* commands the robot and by the heartbeat threads it starts, talking over *)
(* one connection to the server's handler of that connection; and the      *)
(* other clients that take the lease meanwhile.                            *)
(*                                                                         *)
(* The handler answers one request at a time in the order received; what   *)
(* it does inside the server is in ControlServer and Lease, and is one     *)
(* step here.  Request ids are kept modulo Ids.                            *)
(***************************************************************************)
EXTENDS LeaseOps, FiniteSets, Sequences

CONSTANTS Me,        \* RemoteRobot.owner
          Main,      \* the thread that calls the methods
          UserCalls, \* what it calls, besides release_lease and close
          Beats,     \* heartbeat threads that may be alive at once
          Free,      \* nobody holds _io_lock; _hb_thread is None
          Ids,       \* wrap of _next_id
          Patience,  \* heartbeat_max_failures
          MaxFaults, \* bound: timeouts, lost connections and Ctrl-C
          MaxQueue   \* bound: requests written and not yet handled

Rivals  == Owners \ {Me}
Threads == {Main} \cup Beats

ASSUME ClientAssumption ==
  /\ Me \in Owners /\ Main \notin Beats /\ Free \notin Threads
  /\ IsFiniteSet(Beats) /\ Ids \in Nat \ {0} /\ Patience \in Nat \ {0}
  /\ MaxFaults \in Nat /\ MaxQueue \in Nat

Acquires == {"acquire", "force"}
Leaves   == {"release", "leave"}   \* release_lease; the same call out of close
Methods  == Acquires \cup Leaves \cup {"command", "query", "heartbeat"}

\* The source's ids never repeat; here they may not repeat among the replies in flight,
\* of which each fault leaves one behind.
ASSUME WrapAssumption == MaxFaults < Ids

ASSUME CallAssumption == UserCalls \subseteq Acquires \cup {"command", "query"}

\* How a call ends: with its result; refused because nobody, or another owner,
\* holds the lease; with a reply to another request; with an empty read; or
\* with an exception that is not a RemoteRobotError.
Outcomes == {"ok", "lost", "taken", "desync", "closed", "error"}
Steps    == {"idle", "sleep", "join", "ask", "read", "back", "shut", "gone"}
Call     == [step : Steps, method : Methods, id : 0 .. Ids - 1, out : Outcomes]
Request  == [id : 0 .. Ids - 1, method : Methods, by : Threads]
Reply    == [id : 0 .. Ids - 1, method : Methods, by : Threads, out : Outcomes]

VARIABLES lease,     \* the server's Lease._info
          call,      \* where each thread is, in which call
          io,        \* who holds _io_lock
          id,        \* _next_id
          strikes,   \* consecutive_failures of each heartbeat thread
          running,   \* _hb_running
          hbThread,  \* _hb_thread
          hasLease,  \* _has_lease
          up, down,  \* requests to the handler, replies to the client
          stream,    \* "open"; "stale": timed out, unreadable; "closed"
          faults

session == <<running, hbThread, hasLease>>
wire    == <<up, down, stream, faults>>
vars    == <<lease, call, io, id, strikes, session, wire>>

TypeOK ==
  /\ lease \in LeaseInfo
  /\ call \in [Threads -> Call]
  /\ io \in Threads \cup {Free} /\ id \in 0 .. Ids - 1
  /\ strikes \in [Beats -> 0 .. Patience]
  /\ running \in BOOLEAN /\ hasLease \in BOOLEAN /\ hbThread \in Beats \cup {Free}
  /\ up \in Seq(Request) /\ down \in Seq(Reply)
  /\ stream \in {"open", "stale", "closed"} /\ faults \in 0 .. MaxFaults

Quiet == [step |-> "idle", method |-> "query", id |-> 0, out |-> "ok"]

\* Right after connect().
Init ==
  /\ lease = NoLease /\ call = [t \in Threads |-> Quiet]
  /\ io = Free /\ id = 0 /\ strikes = [h \in Beats |-> 0]
  /\ running = FALSE /\ hbThread = Free /\ hasLease = FALSE
  /\ up = <<>> /\ down = <<>> /\ stream = "open" /\ faults = 0

\* Thread t goes on to step s, of the call it is in or of a call of method m.
At(t, s)     == call' = [call EXCEPT ![t] = [@ EXCEPT !.step = s]]
CallOf(t, s, m) == call' = [call EXCEPT ![t] = [Quiet EXCEPT !.step = s, !.method = m]]
End(t, o)    == call' = [call EXCEPT ![t] = [@ EXCEPT !.step = "back", !.out = o]]
Ending(t)    == call' = [call EXCEPT ![t] = Quiet]

-----------------------------------------------------------------------------
(* _call: under _io_lock, number the request, write it, read one line. *)

Send(t) ==
  /\ call[t].step = "ask" /\ io = Free /\ stream = "open" /\ Len(up) < MaxQueue
  /\ id' = (id + 1) % Ids /\ io' = t
  /\ up' = Append(up, [id |-> id', method |-> call[t].method, by |-> t])
  /\ call' = [call EXCEPT ![t] = [@ EXCEPT !.step = "read", !.id = id']]
  /\ UNCHANGED <<lease, strikes, session, down, stream, faults>>

\* A socket that timed out once still takes requests and refuses every read.
SendStale(t) ==
  /\ call[t].step = "ask" /\ io = Free /\ stream = "stale" /\ Len(up) < MaxQueue
  /\ id' = (id + 1) % Ids
  /\ up' = Append(up, [id |-> id', method |-> call[t].method, by |-> t])
  /\ End(t, "error")
  /\ UNCHANGED <<lease, io, strikes, session, down, stream, faults>>

\* A broken pipe at the write, or an empty read.
SendClosed(t) ==
  /\ call[t].step = "ask" /\ io = Free /\ stream = "closed"
  /\ id' = (id + 1) % Ids
  /\ \E o \in {"error", "closed"} : End(t, o)
  /\ UNCHANGED <<lease, io, strikes, session, wire>>

\* Faulty: the reply is taken for the answer whatever its id.
Mine_Any(t, r) == TRUE

Mine(t, r) == r.id = call[t].id

ReadReply(t) ==
  /\ call[t].step = "read" /\ down # <<>>
  /\ End(t, IF Mine(t, Head(down)) THEN Head(down).out ELSE "desync")
  /\ down' = Tail(down) /\ io' = Free
  /\ UNCHANGED <<lease, id, strikes, session, up, stream, faults>>

\* The connection is gone: the read is empty, or it raises.
ReadEmpty(t) ==
  /\ call[t].step = "read" /\ down = <<>> /\ stream = "closed"
  /\ (\E o \in {"error", "closed"} : End(t, o)) /\ io' = Free
  /\ UNCHANGED <<lease, id, strikes, session, wire>>

ReadTimesOut(t) ==
  /\ call[t].step = "read" /\ down = <<>> /\ stream = "open" /\ faults < MaxFaults
  /\ stream' = "stale" /\ faults' = faults + 1
  /\ End(t, "error") /\ io' = Free
  /\ UNCHANGED <<lease, id, strikes, session, up, down>>

\* Ctrl-C reaches the main thread while it waits: the reply stays on its way.
Interrupted ==
  /\ call[Main].step = "read" /\ faults < MaxFaults
  /\ faults' = faults + 1 /\ io' = Free /\ Ending(Main)
  /\ UNCHANGED <<lease, id, strikes, session, up, down, stream>>

RPC(t) ==
  \/ Send(t) \/ SendStale(t) \/ SendClosed(t)
  \/ ReadReply(t) \/ ReadEmpty(t) \/ ReadTimesOut(t)

-----------------------------------------------------------------------------
(* The methods of RemoteRobot, called one at a time by the main thread. *)

Invoke(m) ==
  /\ call[Main].step = "idle" /\ m \in UserCalls
  /\ CallOf(Main, "ask", m)
  /\ UNCHANGED <<lease, io, id, strikes, session, wire>>

\* release_lease and close clear the flag, then join the heartbeat thread.
StopHeartbeat(m) ==
  /\ call[Main].step = "idle" /\ m \in Leaves
  /\ running' = FALSE /\ CallOf(Main, "join", m)
  /\ UNCHANGED <<lease, io, id, strikes, hbThread, hasLease, wire>>

\* The join gives up after a second: a thread in the middle of an RPC may
\* outlast it, a sleeping one does not.
Joined ==
  /\ call[Main].step = "join"
  /\ \A h \in {hbThread} \cap Beats : call[h].step # "sleep"
  /\ hbThread' = Free
  /\ At(Main, IF call[Main].method = "leave" /\ ~hasLease THEN "shut" ELSE "ask")
  /\ UNCHANGED <<lease, io, id, strikes, running, hasLease, wire>>

\* The files close once nobody reads them.
Shut ==
  /\ call[Main].step = "shut" /\ io = Free
  /\ stream' = "closed" /\ down' = <<>> /\ At(Main, "gone")
  /\ UNCHANGED <<lease, io, id, strikes, session, up, faults>>

\* After the call: what acquire_lease, release_lease and close do with it.
\* _start_heartbeat does nothing while _hb_running is set.
Granting ==
  /\ hasLease' = TRUE
  /\ IF running
     THEN Ending(Main) /\ UNCHANGED <<running, hbThread, strikes>>
     ELSE /\ running' = TRUE
          /\ \E h \in Beats : call[h].step = "idle"
          /\ LET h == CHOOSE b \in Beats : call[b].step = "idle" IN
               /\ hbThread' = h
               /\ strikes' = [strikes EXCEPT ![h] = 0]
               /\ call' = [call EXCEPT ![Main] = Quiet, ![h] = [Quiet EXCEPT !.step = "sleep"]]

MainBack ==
  /\ call[Main].step = "back"
  /\ LET m == call[Main].method  good == call[Main].out = "ok" IN
       \/ m \in Acquires /\ good /\ Granting
       \/ /\ m = "leave" /\ At(Main, "shut")
          /\ hasLease' = (hasLease /\ ~good) /\ UNCHANGED <<running, hbThread, strikes>>
       \/ /\ m # "leave" /\ ~(m \in Acquires /\ good) /\ Ending(Main)
          /\ hasLease' = (hasLease /\ ~(m = "release" /\ good))
          /\ UNCHANGED <<running, hbThread, strikes>>
  /\ UNCHANGED <<lease, io, id, wire>>

-----------------------------------------------------------------------------
(* _heartbeat *)

Wake(h) ==
  /\ call[h].step = "sleep"
  /\ IF running THEN CallOf(h, "ask", "heartbeat") ELSE Ending(h)
  /\ UNCHANGED <<lease, io, id, strikes, session, wire>>

\* while self._hb_running, with the count of failures at n.
Again(h, n) ==
  /\ strikes' = [strikes EXCEPT ![h] = n]
  /\ IF running THEN CallOf(h, "sleep", "heartbeat") ELSE Ending(h)
  /\ UNCHANGED session

GiveUp(h) ==
  /\ hasLease' = FALSE /\ running' = FALSE
  /\ strikes' = [strikes EXCEPT ![h] = 0]
  /\ Ending(h)
  /\ UNCHANGED hbThread

Good(h) == call[h].out = "ok" /\ Again(h, 0)

Refused_NoRetry(h) ==  \* Faulty: an expired lease is not asked for again
  /\ call[h].out \in {"lost", "taken", "desync", "closed"}
  /\ GiveUp(h)

\* Any RemoteRobotError of the heartbeat: ask for the lease once, never by force.
Refused(h) ==
  /\ call[h].out \in {"lost", "taken", "desync", "closed"}
  /\ IF call[h].method = "heartbeat"
     THEN CallOf(h, "ask", "acquire") /\ UNCHANGED <<strikes, session>>
     ELSE GiveUp(h)

\* Faulty: a miscounted limit; a count started again at every failure.
Hiccup_OffByOne(h) ==
  /\ call[h].out = "error"
  /\ IF call[h].method # "heartbeat" \/ strikes[h] > Patience
     THEN GiveUp(h)
     ELSE Again(h, strikes[h] + 1)

Hiccup_Forgets(h) ==
  /\ call[h].out = "error"
  /\ IF call[h].method # "heartbeat" \/ strikes[h] + 1 >= Patience
     THEN GiveUp(h)
     ELSE Again(h, 0)

Hiccup(h) ==
  /\ call[h].out = "error"
  /\ IF call[h].method # "heartbeat" \/ strikes[h] + 1 >= Patience
     THEN GiveUp(h)
     ELSE Again(h, strikes[h] + 1)

BeatBack(h) ==
  /\ call[h].step = "back"
  /\ Good(h) \/ Refused(h) \/ Hiccup(h)
  /\ UNCHANGED <<lease, io, id, wire>>

-----------------------------------------------------------------------------
(* The handler of this connection, other clients, the clock, the network. *)

\* What one request does to the lease, and how it is answered.
Judged(m, l) ==
  IF m \in Acquires
  THEN LET s == Swept(l, 0) IN
       IF Available(s, Me, m = "force") THEN <<Granted(Me), "ok">> ELSE <<s, "taken">>
  ELSE IF m \in Leaves
  THEN IF Held(l) /\ l.owner # Me THEN <<l, "taken">> ELSE <<NoLease, "ok">>
  ELSE IF m = "query" THEN <<Swept(l, 0), "ok">>
  ELSE LET s == IF m = "heartbeat" THEN l ELSE Swept(l, 0) IN
       IF HeldBy(s, Me) THEN <<Renewed(s), "ok">>
       ELSE <<s, IF Held(s) THEN "taken" ELSE "lost">>

\* A request sent before the connection ended is still carried out.
Serve ==
  /\ up # <<>>
  /\ LET r == Head(up)  v == Judged(r.method, lease) IN
       /\ lease' = v[1]
       /\ down' = IF stream = "open"
                  THEN Append(down, [id |-> r.id, method |-> r.method, by |-> r.by, out |-> v[2]])
                  ELSE down
  /\ up' = Tail(up)
  /\ UNCHANGED <<call, io, id, strikes, session, stream, faults>>

\* Another client, by force or because the lease is free.
RivalAcquires(o) ==
  /\ lease' = Granted(o)
  /\ UNCHANGED <<call, io, id, strikes, session, wire>>

RivalReleases(o) ==
  /\ HeldBy(lease, o) /\ lease' = NoLease
  /\ UNCHANGED <<call, io, id, strikes, session, wire>>

Tick ==
  /\ lease' = Aged(lease)
  /\ UNCHANGED <<call, io, id, strikes, session, wire>>

ConnectionLost ==
  /\ stream = "open" /\ faults < MaxFaults
  /\ stream' = "closed" /\ down' = <<>> /\ faults' = faults + 1
  /\ UNCHANGED <<lease, call, io, id, strikes, session, up>>

Next ==
  \/ \E t \in Threads : RPC(t)
  \/ Interrupted \/ Joined \/ Shut \/ MainBack
  \/ \E m \in Methods : Invoke(m) \/ StopHeartbeat(m)
  \/ \E h \in Beats : Wake(h) \/ BeatBack(h)
  \/ Serve \/ Tick \/ ConnectionLost
  \/ \E o \in Rivals : RivalReleases(o) \/ RivalAcquires(o)

Spec == Init /\ [][Next]_vars

\* Threads run, the handler answers, and a thread that waits for _io_lock gets
\* it in the end, however often the others take it in between.
FairSpec ==
  /\ Spec
  /\ WF_vars(Serve) /\ WF_vars(Joined) /\ WF_vars(Shut) /\ WF_vars(MainBack)
  /\ \A t \in Threads : SF_vars(Send(t) \/ SendStale(t) \/ SendClosed(t))
  /\ \A t \in Threads : WF_vars(ReadReply(t) \/ ReadEmpty(t))
  /\ \A h \in Beats : WF_vars(Wake(h)) /\ WF_vars(BeatBack(h))

-----------------------------------------------------------------------------
(* Properties *)

\* "Mis-attributing results on a robot-control channel is far worse than
\* failing" (remote_robot.py:144-147): whatever was interrupted before, a reply
\* a call accepts was made for that thread's call of that method.
Attributed ==
  [][\A t \in Threads :
       (call[t].step = "read" /\ down' # down /\ call'[t].step = "back"
          /\ call'[t].out # "desync")
         => Head(down).by = t /\ Head(down).method = call[t].method]_vars

\* "a lease that merely expired is recoverable, a lease taken by another owner
\* is not" (remote_robot.py:189-191): a heartbeat thread never gives up because
\* it found the lease free.
ExpiryRecovered ==
  [][\A h \in Beats :
       (call[h].step = "back" /\ call'[h].step = "idle" /\ running) => call[h].out # "lost"]_vars

\* Once other clients hold the lease for good, or the connection is gone for
\* good, every heartbeat thread ends (remote_robot.py:198-216).
HeartbeatEnds ==
  <>[](lease.owner \in Rivals \/ stream # "open")
    => <>[](\A h \in Beats : call[h].step = "idle")

\* "The client holds the lease for owner and refreshes it with a background
\* heartbeat" (remote_robot.py:17): while the main thread is between two calls
\* and the lease it acquired is still the client's, nobody switches the
\* heartbeat off.
HeldIsRefreshed ==
  [][(call[Main].step = "idle" /\ call'[Main] = call[Main] /\ hasLease /\ lease.owner = Me)
       => (running' \/ lease'.owner # Me)]_vars
===============================================================================
