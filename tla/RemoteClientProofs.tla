-------------------------- MODULE RemoteClientProofs --------------------------
(***************************************************************************)
(* Theorems about RemoteClient, for any owners, callers, heartbeat threads *)
(* and queue: its types, that a call never takes another call's reply for  *)
(* its own, and that a heartbeat thread does not give up an expired lease. *)
(*                                                                         *)
(* What carries the second is an account of the wire: the requests and     *)
(* replies in flight are numbered consecutively, they are no more than the *)
(* interrupted calls and the one being read, and the last is that one.     *)
(***************************************************************************)
EXTENDS RemoteClient, SequenceTheorems, TLAPS

\* What the critical sections return, given a well-formed lease.
LEMMA SectionTypes ==
  ASSUME NEW l \in LeaseInfo
  PROVE  /\ \A h \in Int : Swept(l, h) \in LeaseInfo
         /\ Aged(l) \in LeaseInfo
         /\ Renewed(l) \in LeaseInfo
         /\ NoLease \in LeaseInfo
BY LeaseAssumption DEF LeaseInfo, Swept, Aged, Renewed, NoLease, Overdue, Held

\* A grant to a client, or to nobody, is a lease record.
LEMMA GrantType ==
  ASSUME NEW o \in Owners \cup {NoOwner} PROVE Granted(o) \in LeaseInfo
BY LeaseAssumption DEF LeaseInfo, Granted

\* Whoever reads holds _io_lock, and the other way round.
LockHeld == \A t \in Threads : call[t].step = "read" <=> io = t

\* Nobody reads a stream that has timed out; a closed one has no replies left.
Readable == /\ io # Free => stream # "stale"
            /\ stream = "closed" => down = <<>>

\* The id of the request that was written n requests before the one with this id.
Back(last, n) == IF n <= last THEN last - n ELSE last - n + Ids

InFlight == Len(up) + Len(down)

\* What is in flight has the last ids, in the order of writing.
Numbered ==
  stream = "open" =>
    /\ \A j \in 1 .. Len(up) : up[j].id = Back(id, Len(up) - j)
    /\ \A i \in 1 .. Len(down) : down[i].id = Back(id, InFlight - i)
    /\ InFlight <= IF io = Free THEN faults ELSE faults + 1

\* The last in flight is the call that is being read.
Recent ==
  stream = "open" /\ io # Free =>
    /\ call[io].id = id /\ InFlight >= 1
    /\ up # <<>> => up[Len(up)].by = io /\ up[Len(up)].method = call[io].method
    /\ up = <<>> => down[Len(down)].by = io /\ down[Len(down)].method = call[io].method

\* A heartbeat thread heartbeats and re-acquires; an acquire is refused to one who
\* comes second, and never because the lease is free.
BeatCalls ==
  \A h \in Beats :
    /\ call[h].step \in {"ask", "read", "back"} => call[h].method \in {"heartbeat", "acquire"}
    /\ call[h].step = "back" /\ call[h].method = "acquire" => call[h].out # "lost"
NeverLost == \A i \in 1 .. Len(down) : down[i].method \in Acquires => down[i].out # "lost"

Wire == LockHeld /\ Readable /\ Numbered /\ Recent /\ NeverLost

-----------------------------------------------------------------------------
(* What the helpers do to the calls *)

\* Thread t's call is c from now on; the others' stay.
Becomes(t, c) ==
  /\ call' \in [Threads -> Call] /\ call'[t] = c
  /\ \A u \in Threads \ {t} : call'[u] = call[u]

LEMMA CallSet ==
  ASSUME call \in [Threads -> Call], NEW t \in Threads, NEW c \in Call,
         call' = [call EXCEPT ![t] = c]
  PROVE  Becomes(t, c)
BY DEF Becomes

LEMMA CallParts ==
  ASSUME NEW c \in Call
  PROVE  /\ c.step \in Steps /\ c.method \in Methods /\ c.id \in 0 .. Ids - 1 /\ c.out \in Outcomes
         /\ \A s \in Steps : [c EXCEPT !.step = s] \in Call
         /\ \A o \in Outcomes : [c EXCEPT !.step = "back", !.out = o] \in Call
         /\ \A i \in 0 .. Ids - 1 : [c EXCEPT !.step = "read", !.id = i] \in Call
BY DEF Call, Steps

LEMMA QuietCall ==
  /\ Quiet \in Call
  /\ \A s \in Steps, m \in Methods : [Quiet EXCEPT !.step = s, !.method = m] \in Call
  /\ \A s \in Steps : [Quiet EXCEPT !.step = s] \in Call
<1>1. 0 \in 0 .. Ids - 1
  BY ClientAssumption
<1> QED
  BY <1>1 DEF Quiet, Call, Steps, Methods, Acquires, Leaves, Outcomes

LEMMA AtSets ==
  ASSUME call \in [Threads -> Call], NEW t \in Threads, NEW s \in Steps, At(t, s)
  PROVE  /\ Becomes(t, [call[t] EXCEPT !.step = s])
         /\ call'[t].step = s /\ call'[t].method = call[t].method
         /\ call'[t].id = call[t].id /\ call'[t].out = call[t].out
<1>1. call[t] \in Call /\ [call[t] EXCEPT !.step = s] \in Call
  BY CallParts
<1>2. Becomes(t, [call[t] EXCEPT !.step = s])
  BY <1>1, CallSet DEF At
<1> QED
  BY <1>1, <1>2 DEF Becomes, Call

LEMMA EndSets ==
  ASSUME call \in [Threads -> Call], NEW t \in Threads, NEW o \in Outcomes, End(t, o)
  PROVE  /\ Becomes(t, [call[t] EXCEPT !.step = "back", !.out = o])
         /\ call'[t].step = "back" /\ call'[t].method = call[t].method /\ call'[t].out = o
<1>1. call[t] \in Call /\ [call[t] EXCEPT !.step = "back", !.out = o] \in Call
  BY CallParts
<1>2. Becomes(t, [call[t] EXCEPT !.step = "back", !.out = o])
  BY <1>1, CallSet DEF End
<1> QED
  BY <1>1, <1>2 DEF Becomes, Call

LEMMA CallOfSets ==
  ASSUME call \in [Threads -> Call], NEW t \in Threads, NEW s \in Steps, NEW m \in Methods,
         CallOf(t, s, m)
  PROVE  /\ Becomes(t, [Quiet EXCEPT !.step = s, !.method = m])
         /\ call'[t].step = s /\ call'[t].method = m /\ call'[t].out = "ok"
<1>1. Becomes(t, [Quiet EXCEPT !.step = s, !.method = m])
  BY QuietCall, CallSet DEF CallOf
<1> QED
  BY <1>1 DEF Becomes, Quiet

LEMMA EndingSets ==
  ASSUME call \in [Threads -> Call], NEW t \in Threads, Ending(t)
  PROVE  Becomes(t, Quiet) /\ call'[t].step = "idle"
<1>1. Becomes(t, Quiet)
  BY QuietCall, CallSet DEF Ending
<1> QED
  BY <1>1 DEF Becomes, Quiet

-----------------------------------------------------------------------------
(* The ids *)

LEMMA NextId ==
  ASSUME NEW d \in 0 .. Ids - 1
  PROVE  (d + 1) % Ids = (IF d + 1 = Ids THEN 0 ELSE d + 1) /\ (d + 1) % Ids \in 0 .. Ids - 1
BY ClientAssumption

LEMMA Backs ==
  ASSUME NEW d \in 0 .. Ids - 1, NEW n \in 0 .. Ids - 1
  PROVE  /\ Back(d, n) \in 0 .. Ids - 1 /\ Back(d, 0) = d /\ (Back(d, n) = d => n = 0)
         /\ n + 1 < Ids => Back((d + 1) % Ids, n + 1) = Back(d, n)
<1>1. Ids \in Nat /\ Ids > 0
  BY ClientAssumption
<1> QED
  BY <1>1, NextId DEF Back

-----------------------------------------------------------------------------
(* Type correctness *)

Scalars ==
  /\ io \in Threads \cup {Free} /\ id \in 0 .. Ids - 1
  /\ strikes \in [Beats -> 0 .. Patience]
  /\ running \in BOOLEAN /\ hasLease \in BOOLEAN /\ hbThread \in Beats \cup {Free}
  /\ stream \in {"open", "stale", "closed"} /\ faults \in 0 .. MaxFaults
Queues == up \in Seq(Request) /\ down \in Seq(Reply)
CallsTyped == call \in [Threads -> Call]

LEMMA TypeParts == TypeOK <=> lease \in LeaseInfo /\ CallsTyped /\ Scalars /\ Queues
  BY DEF TypeOK, Scalars, Queues, CallsTyped

LEMMA InitTyped == Init => TypeOK
<1> SUFFICES ASSUME Init PROVE TypeOK
  OBVIOUS
<1>1. lease \in LeaseInfo
  BY LeaseAssumption DEF Init, LeaseInfo, NoLease
<1>2. CallsTyped
  BY QuietCall DEF Init, CallsTyped
<1>3. Scalars
  <2>1. io \in Threads \cup {Free} /\ hbThread \in Beats \cup {Free}
    BY Zenon DEF Init
  <2>2. id \in 0 .. Ids - 1 /\ faults \in 0 .. MaxFaults
    BY ClientAssumption DEF Init
  <2>3. strikes \in [Beats -> 0 .. Patience]
    BY ClientAssumption DEF Init
  <2> QED
    BY <2>1, <2>2, <2>3 DEF Init, Scalars
<1>4. Queues
  BY DEF Init, Queues
<1> QED
  BY <1>1, <1>2, <1>3, <1>4, TypeParts

\* What the handler says, and what it makes of the lease.
LEMMA JudgedTypes ==
  ASSUME NEW m \in Methods, NEW l \in LeaseInfo
  PROVE  /\ Judged(m, l)[1] \in LeaseInfo /\ Judged(m, l)[2] \in {"ok", "taken", "lost"}
         /\ m \in Acquires => Judged(m, l)[2] # "lost"
<1>1. /\ Swept(l, 0) \in LeaseInfo /\ NoLease \in LeaseInfo /\ Granted(Me) \in LeaseInfo
      /\ Renewed(l) \in LeaseInfo /\ Renewed(Swept(l, 0)) \in LeaseInfo
  BY SectionTypes, GrantType, ClientAssumption
<1>2. CASE m \in Acquires
  BY <1>1, <1>2 DEF Judged
<1>3. CASE m \in Leaves
  BY <1>1, <1>3 DEF Judged, Acquires, Leaves
<1>4. CASE m = "query"
  BY <1>1, <1>4 DEF Judged, Acquires, Leaves
<1>5. CASE m \notin Acquires \cup Leaves \cup {"query"}
  BY <1>1, <1>5 DEF Judged
<1> QED
  BY <1>2, <1>3, <1>4, <1>5

LEMMA StepLease == TypeOK /\ [Next]_vars => lease' \in LeaseInfo
<1> SUFFICES ASSUME TypeOK, [Next]_vars PROVE lease' \in LeaseInfo
  OBVIOUS
<1>0. lease \in LeaseInfo /\ up \in Seq(Request)
  BY DEF TypeOK
<1>1. CASE Serve
  <2>1. up # <<>> /\ lease' = Judged(Head(up).method, lease)[1]
    BY <1>1 DEF Serve
  <2>2. Head(up) \in Request
    BY <1>0, <2>1, HeadTailProperties
  <2>3. Head(up).method \in Methods
    BY <2>2 DEF Request
  <2> QED
    BY <1>0, <2>1, <2>3, JudgedTypes
<1>2. ASSUME NEW o \in Rivals, RivalAcquires(o) PROVE lease' \in LeaseInfo
  BY <1>2, GrantType DEF RivalAcquires, Rivals
<1>3. ASSUME NEW o \in Rivals, RivalReleases(o) PROVE lease' \in LeaseInfo
  BY <1>0, <1>3, SectionTypes DEF RivalReleases
<1>4. CASE Tick
  BY <1>0, <1>4, SectionTypes DEF Tick
<1>5. CASE lease' = lease
  BY <1>0, <1>5
<1>6. Next => \/ Serve \/ Tick \/ lease' = lease
              \/ \E o \in Rivals : RivalReleases(o) \/ RivalAcquires(o)
  BY DEF Next, RPC, Send, SendStale, SendClosed, ReadReply, ReadEmpty, ReadTimesOut, Interrupted,
    Joined, Shut, MainBack, Invoke, StopHeartbeat, Wake, BeatBack, ConnectionLost
<1> QED
  BY <1>1, <1>2, <1>3, <1>4, <1>5, <1>6 DEF vars

LEMMA StepQueues == TypeOK /\ [Next]_vars => Queues'
<1> SUFFICES ASSUME TypeOK, [Next]_vars PROVE Queues'
  OBVIOUS
<1> USE DEF Queues
<1>0. up \in Seq(Request) /\ down \in Seq(Reply) /\ id \in 0 .. Ids - 1 /\ CallsTyped
  BY TypeParts DEF Scalars
<1>1. ASSUME NEW t \in Threads, Send(t) \/ SendStale(t) PROVE Queues'
  <2>1. call[t].method \in Methods
    BY <1>0, CallParts DEF CallsTyped
  <2>2. id' \in 0 .. Ids - 1
    BY <1>0, <1>1, NextId DEF Send, SendStale
  <2>3. [id |-> id', method |-> call[t].method, by |-> t] \in Request
    BY <2>1, <2>2 DEF Request
  <2>4. up' = Append(up, [id |-> id', method |-> call[t].method, by |-> t]) /\ down' = down
    BY <1>1 DEF Send, SendStale
  <2>5. up' \in Seq(Request)
    BY <1>0, <2>3, <2>4, AppendProperties
  <2> QED
    BY <1>0, <2>4, <2>5
<1>2. CASE Serve
  <2> DEFINE r == Head(up)
  <2>1. up # <<>> /\ r \in Request /\ Tail(up) \in Seq(Request)
    BY <1>0, <1>2 DEF Serve
  <2>2. r.id \in 0 .. Ids - 1 /\ r.method \in Methods /\ r.by \in Threads
    BY <2>1 DEF Request
  <2>3. Judged(r.method, lease)[2] \in Outcomes
    BY <2>2, JudgedTypes DEF TypeOK, Outcomes
  <2>4. [id |-> r.id, method |-> r.method, by |-> r.by, out |-> Judged(r.method, lease)[2]] \in Reply
    BY <2>2, <2>3 DEF Reply
  <2>5. /\ up' = Tail(up)
        /\ \/ down' = down
           \/ down' = Append(down, [id |-> r.id, method |-> r.method, by |-> r.by,
                                    out |-> Judged(r.method, lease)[2]])
    BY <1>2 DEF Serve
  <2> DEFINE a == [id |-> r.id, method |-> r.method, by |-> r.by, out |-> Judged(r.method, lease)[2]]
  <2>6. Append(down, a) \in Seq(Reply)
    BY <1>0, <2>4, AppendProperties
  <2> QED
    BY <1>0, <2>1, <2>5, <2>6
<1>3. ASSUME NEW t \in Threads, ReadReply(t) PROVE Queues'
  BY <1>0, <1>3, HeadTailProperties DEF ReadReply
<1>4. CASE Shut \/ ConnectionLost
  <2>1. up' = up /\ down' = <<>> /\ <<>> \in Seq(Reply)
    BY <1>4 DEF Shut, ConnectionLost
  <2> QED
    BY <1>0, <2>1
<1>5. CASE UNCHANGED <<up, down>>
  BY <1>0, <1>5
<1>6. Next => \/ \E t \in Threads : Send(t) \/ SendStale(t) \/ ReadReply(t)
              \/ Serve \/ Shut \/ ConnectionLost \/ UNCHANGED <<up, down>>
  BY DEF Next, RPC, SendClosed, ReadEmpty, ReadTimesOut, Interrupted, Joined, MainBack, Invoke,
    StopHeartbeat, Wake, BeatBack, RivalReleases, RivalAcquires, Tick, wire
<1> QED
  BY <1>1, <1>2, <1>3, <1>4, <1>5, <1>6 DEF vars, wire

\* A successful acquire starts an idle heartbeat thread, unless one runs already.
LEMMA GrantingSets ==
  ASSUME CallsTyped, Granting
  PROVE  \/ Becomes(Main, Quiet) /\ running' = running /\ UNCHANGED <<hbThread, strikes>>
         \/ \E h \in Beats :
              /\ call[h].step = "idle" /\ running' = TRUE /\ hbThread' = h
              /\ strikes' = [strikes EXCEPT ![h] = 0]
              /\ call' \in [Threads -> Call]
              /\ call'[Main] = Quiet /\ call'[h] = [Quiet EXCEPT !.step = "sleep"]
              /\ \A u \in Threads \ {Main, h} : call'[u] = call[u]
<1>0. Main \in Threads /\ Beats \subseteq Threads /\ Main \notin Beats
  BY ClientAssumption DEF Threads
<1>1. CASE running
  BY <1>0, <1>1, EndingSets, Zenon DEF Granting, CallsTyped
<1>2. CASE ~running
  <2> DEFINE h == CHOOSE b \in Beats : call[b].step = "idle"
  <2>1. h \in Beats /\ call[h].step = "idle"
    BY <1>2, Zenon DEF Granting
  <2>2. /\ running' = TRUE /\ hbThread' = h /\ strikes' = [strikes EXCEPT ![h] = 0]
        /\ call' = [call EXCEPT ![Main] = Quiet, ![h] = [Quiet EXCEPT !.step = "sleep"]]
    BY <1>2, Zenon DEF Granting
  <2> HIDE DEF h
  <2>3. Quiet \in Call /\ [Quiet EXCEPT !.step = "sleep"] \in Call
    BY QuietCall DEF Steps
  <2>4. /\ call' \in [Threads -> Call]
        /\ call'[Main] = Quiet /\ call'[h] = [Quiet EXCEPT !.step = "sleep"]
        /\ \A u \in Threads \ {Main, h} : call'[u] = call[u]
    BY <1>0, <2>1, <2>2, <2>3 DEF CallsTyped
  <2> QED
    BY <2>1, <2>2, <2>4, Zenon
<1> QED
  BY <1>1, <1>2

LEMMA StepCalls == ASSUME TypeOK, Next PROVE CallsTyped'
<1> USE DEF CallsTyped
<1>0. /\ CallsTyped /\ Main \in Threads /\ Beats \subseteq Threads /\ down \in Seq(Reply)
      /\ {"idle", "sleep", "join", "ask", "read", "back", "shut", "gone"} \subseteq Steps
      /\ {"ok", "lost", "taken", "desync", "closed", "error"} \subseteq Outcomes
  BY TypeParts, ClientAssumption DEF Threads, Steps, Outcomes, Queues
<1>1. ASSUME NEW t \in Threads, Send(t) PROVE CallsTyped'
  <2>1. id' \in 0 .. Ids - 1
    BY <1>1, NextId DEF Send, TypeOK
  <2>2. [call[t] EXCEPT !.step = "read", !.id = id'] \in Call
    BY <1>0, <2>1, CallParts
  <2> QED
    BY <1>0, <1>1, <2>2 DEF Send
<1>2. ASSUME NEW t \in Threads, SendStale(t) \/ SendClosed(t) \/ ReadEmpty(t) \/ ReadTimesOut(t)
      PROVE  CallsTyped'
  <2>1. \E o \in Outcomes : End(t, o)
    BY <1>0, <1>2 DEF SendStale, SendClosed, ReadEmpty, ReadTimesOut
  <2> QED
    BY <1>0, <2>1, EndSets DEF Becomes
<1>3. ASSUME NEW t \in Threads, ReadReply(t) PROVE CallsTyped'
  <2>1. Head(down) \in Reply
    BY <1>0, <1>3, HeadTailProperties DEF ReadReply
  <2>2. (IF Mine(t, Head(down)) THEN Head(down).out ELSE "desync") \in Outcomes
    BY <1>0, <2>1 DEF Reply
  <2> QED
    BY <1>0, <1>3, <2>2, EndSets DEF ReadReply, Becomes
<1>4. CASE Interrupted
  BY <1>0, <1>4, EndingSets DEF Interrupted, Becomes
<1>5. ASSUME NEW m \in Methods, Invoke(m) \/ StopHeartbeat(m) PROVE CallsTyped'
  BY <1>0, <1>5, CallOfSets DEF Invoke, StopHeartbeat, Becomes
<1>6. CASE Joined \/ Shut
  <2>1. \E s \in Steps : At(Main, s)
    BY <1>0, <1>6 DEF Joined, Shut
  <2> QED
    BY <1>0, <2>1, AtSets DEF Becomes
<1>7. CASE MainBack
  BY <1>0, <1>7, GrantingSets, AtSets, EndingSets DEF MainBack, Becomes
<1>8. ASSUME NEW h \in Beats, Wake(h) \/ BeatBack(h) PROVE CallsTyped'
  <2>1. Ending(h) \/ \E s \in Steps, m \in Methods : CallOf(h, s, m)
    <3>1. {"heartbeat", "acquire"} \subseteq Methods
      BY DEF Methods, Acquires
    <3> QED
      BY <1>0, <1>8, <3>1 DEF Wake, BeatBack, Good, Refused, Hiccup, GiveUp, Again
  <2> QED
    BY <1>0, <2>1, EndingSets, CallOfSets DEF Becomes
<1>9. CASE Serve \/ Tick \/ ConnectionLost \/ \E o \in Rivals : RivalReleases(o) \/ RivalAcquires(o)
  BY <1>0, <1>9 DEF Serve, Tick, ConnectionLost, RivalReleases, RivalAcquires
<1> QED
  BY <1>1, <1>2, <1>3, <1>4, <1>5, <1>6, <1>7, <1>8, <1>9 DEF Next, RPC

LEMMA StepScalars == TypeOK /\ [Next]_vars => Scalars'
<1> SUFFICES ASSUME TypeOK, [Next]_vars PROVE Scalars'
  OBVIOUS
<1>0. /\ Scalars /\ Main \in Threads /\ Beats \subseteq Threads /\ Patience \in Nat
      /\ MaxFaults \in Nat
  BY TypeParts, ClientAssumption DEF Threads
<1>1. id' \in 0 .. Ids - 1
  <2>1. Next => id' \in {id, (id + 1) % Ids}
    BY DEF Next, RPC, Send, SendStale, SendClosed, ReadReply, ReadEmpty, ReadTimesOut, Interrupted,
      Joined, Shut, MainBack, Invoke, StopHeartbeat, Wake, BeatBack, Serve, Tick, ConnectionLost,
      RivalReleases, RivalAcquires
  <2> QED
    BY <1>0, <2>1, NextId DEF Scalars, vars
<1>2. faults' \in 0 .. MaxFaults
  <2>1. Next => faults' = faults \/ (faults < MaxFaults /\ faults' = faults + 1)
    BY DEF Next, RPC, Send, SendStale, SendClosed, ReadReply, ReadEmpty, ReadTimesOut, Interrupted,
      Joined, Shut, MainBack, Invoke, StopHeartbeat, Wake, BeatBack, Serve, Tick, ConnectionLost,
      RivalReleases, RivalAcquires, wire
  <2> QED
    BY <1>0, <2>1 DEF Scalars, vars, wire
<1>3. io' \in Threads \cup {Free}
  <2>1. Next => io' \in Threads \cup {io, Free}
    BY DEF Next, RPC, Send, SendStale, SendClosed, ReadReply, ReadEmpty, ReadTimesOut, Interrupted,
      Joined, Shut, MainBack, Invoke, StopHeartbeat, Wake, BeatBack, Serve, Tick, ConnectionLost,
      RivalReleases, RivalAcquires
  <2> QED
    BY <1>0, <2>1, Zenon DEF Scalars, vars
<1>4. stream' \in {"open", "stale", "closed"}
  <2>1. Next => stream' \in {stream, "stale", "closed"}
    BY DEF Next, RPC, Send, SendStale, SendClosed, ReadReply, ReadEmpty, ReadTimesOut, Interrupted,
      Joined, Shut, MainBack, Invoke, StopHeartbeat, Wake, BeatBack, Serve, Tick, ConnectionLost,
      RivalReleases, RivalAcquires, wire
  <2> QED
    BY <1>0, <2>1, Zenon DEF Scalars, vars, wire
<1>5. strikes' \in [Beats -> 0 .. Patience]
  <2>1. ASSUME NEW h \in Beats, BeatBack(h) PROVE strikes' \in [Beats -> 0 .. Patience]
    <3>1. \/ strikes' = strikes
          \/ \E n \in 0 .. Patience : strikes' = [strikes EXCEPT ![h] = n]
      <4>1. CASE Good(h)
        <5>1. 0 \in 0 .. Patience /\ strikes' = [strikes EXCEPT ![h] = 0]
          BY <1>0, <4>1 DEF Good, Again
        <5> QED
          BY <5>1
      <4>2. CASE Refused(h)
        <5>1. 0 \in 0 .. Patience
          BY <1>0
        <5> QED
          BY <4>2, <5>1 DEF Refused, GiveUp
      <4>3. CASE Hiccup(h)
        <5>1. strikes[h] \in 0 .. Patience /\ 0 \in 0 .. Patience
          BY <1>0, <2>1 DEF Scalars
        <5>2. \/ strikes' = [strikes EXCEPT ![h] = 0]
              \/ strikes[h] + 1 < Patience /\ strikes' = [strikes EXCEPT ![h] = strikes[h] + 1]
          BY <1>0, <4>3, <5>1 DEF Hiccup, GiveUp, Again
        <5> QED
          BY <1>0, <5>1, <5>2
      <4> QED
        BY <2>1, <4>1, <4>2, <4>3 DEF BeatBack
    <3> QED
      BY <1>0, <3>1 DEF Scalars
  <2>2. CASE MainBack
    <3>1. Granting => \/ strikes' = strikes
                      \/ \E h \in Beats : strikes' = [strikes EXCEPT ![h] = 0]
      BY TypeParts, GrantingSets
    <3>2. \/ strikes' = strikes
          \/ \E h \in Beats : strikes' = [strikes EXCEPT ![h] = 0]
      BY <2>2, <3>1 DEF MainBack
    <3> QED
      BY <1>0, <3>2 DEF Scalars
  <2>3. Next => \/ \E h \in Beats : BeatBack(h)
                \/ MainBack \/ strikes' = strikes
    BY DEF Next, RPC, Send, SendStale, SendClosed, ReadReply, ReadEmpty, ReadTimesOut, Interrupted,
      Joined, Shut, Invoke, StopHeartbeat, Wake, Serve, Tick, ConnectionLost, RivalReleases,
      RivalAcquires
  <2> QED
    BY <1>0, <2>1, <2>2, <2>3 DEF Scalars, vars
<1>6. running' \in BOOLEAN /\ hasLease' \in BOOLEAN /\ hbThread' \in Beats \cup {Free}
  <2>1. CASE MainBack
    <3>1. Granting => /\ hasLease' = TRUE
                      /\ running' \in {running, TRUE} /\ hbThread' \in Beats \cup {hbThread}
      BY TypeParts, GrantingSets, Zenon DEF Granting
    <3> QED
      BY <1>0, <2>1, <3>1, Zenon DEF MainBack, Scalars
  <2>2. ASSUME NEW h \in Beats, BeatBack(h)
        PROVE  running' \in BOOLEAN /\ hasLease' \in BOOLEAN /\ hbThread' \in Beats \cup {Free}
    BY <1>0, <2>2, Zenon DEF BeatBack, Good, Refused, Hiccup, GiveUp, Again, Scalars, session
  <2>3. Next => \/ MainBack \/ \E h \in Beats : BeatBack(h)
                \/ /\ running' \in {running, FALSE} /\ hasLease' = hasLease
                   /\ hbThread' \in {hbThread, Free}
    BY DEF Next, RPC, Send, SendStale, SendClosed, ReadReply, ReadEmpty, ReadTimesOut, Interrupted,
      Joined, Shut, Invoke, StopHeartbeat, Wake, Serve, Tick, ConnectionLost, RivalReleases,
      RivalAcquires, session
  <2> QED
    BY <1>0, <2>1, <2>2, <2>3, Zenon DEF Scalars, vars, session
<1> QED
  BY <1>1, <1>2, <1>3, <1>4, <1>5, <1>6 DEF Scalars

LEMMA StepTyped == TypeOK /\ [Next]_vars => TypeOK'
<1> SUFFICES ASSUME TypeOK, [Next]_vars PROVE TypeOK'
  OBVIOUS
<1>1. CallsTyped'
  BY StepCalls, TypeParts DEF CallsTyped, vars
<1>2. lease' \in LeaseInfo /\ Scalars' /\ Queues'
  BY StepLease, StepScalars, StepQueues
<1> QED
  BY <1>1, <1>2 DEF TypeOK, Scalars, Queues, CallsTyped

\* Type correctness of a client, its threads and its connection (remote_robot.py:60-260).
THEOREM ClientTypeCorrect == Spec => []TypeOK
  BY InitTyped, StepTyped, PTL DEF Spec

-----------------------------------------------------------------------------
(* The account of the wire *)

LEMMA WireTypes ==
  ASSUME TypeOK
  PROVE  /\ up \in Seq(Request) /\ down \in Seq(Reply) /\ Len(up) \in Nat /\ Len(down) \in Nat
         /\ InFlight \in Nat /\ faults \in Nat /\ faults < Ids /\ id \in 0 .. Ids - 1
         /\ Ids \in Nat /\ call \in [Threads -> Call]
BY WrapAssumption, ClientAssumption DEF TypeOK, InFlight

\* A step of a thread that is not reading, and goes on to something else than reading.
LEMMA ElsewhereKeepsWire ==
  ASSUME Wire, TypeOK, UNCHANGED <<io, id, up, down, stream, faults>>,
         \A t \in Threads : call'[t] = call[t] \/ (call[t].step # "read" /\ call'[t].step # "read")
  PROVE  Wire'
<1>1. LockHeld' /\ (io \in Threads => call'[io] = call[io])
  BY DEF Wire, LockHeld
<1>2. Readable' /\ NeverLost'
  BY DEF Wire, Readable, NeverLost
<1>3. Numbered'
  BY DEF Wire, Numbered, Back, InFlight
<1>4. Recent'
  BY <1>1 DEF Wire, Recent, InFlight, TypeOK
<1> QED
  BY <1>1, <1>2, <1>3, <1>4 DEF Wire

LEMMA SendKeepsWire ==
  ASSUME Wire, TypeOK, NEW t \in Threads, Send(t)
  PROVE  Wire'
<1> DEFINE r == [id |-> id', method |-> call[t].method, by |-> t]
<1>1. /\ stream = "open" /\ io = Free /\ io' = t /\ id' = (id + 1) % Ids
      /\ up' = Append(up, r) /\ down' = down /\ stream' = stream /\ faults' = faults
      /\ call' = [call EXCEPT ![t] = [@ EXCEPT !.step = "read", !.id = id']]
  BY DEF Send
<1>2. t # Free /\ call[t] \in Call /\ id' \in 0 .. Ids - 1
  BY <1>1, WireTypes, NextId, ClientAssumption
<1>3. r \in Request
  BY <1>2 DEF Request, Call
<1>4. /\ Len(up') = Len(up) + 1 /\ up' # <<>> /\ up'[Len(up) + 1] = r
      /\ \A j \in 1 .. Len(up) : up'[j] = up[j]
  BY <1>1, <1>3, WireTypes, AppendProperties
<1>5. r.id = id' /\ r.method = call[t].method /\ r.by = t
  OBVIOUS
<1> HIDE DEF r
<1>6. /\ call'[t].step = "read" /\ call'[t].id = id' /\ call'[t].method = call[t].method
      /\ \A u \in Threads \ {t} : call'[u] = call[u]
  BY <1>1, <1>2, WireTypes DEF Call
<1>7. LockHeld'
  BY <1>1, <1>2, <1>6, ClientAssumption DEF Wire, LockHeld
<1>8. Readable' /\ NeverLost'
  BY <1>1 DEF Wire, Readable, NeverLost
<1>9. InFlight <= faults /\ InFlight' = InFlight + 1 /\ Len(up)' = Len(up) + 1
  BY <1>1, <1>4, WireTypes DEF Wire, Numbered, InFlight
<1>10. Recent'
  BY <1>1, <1>4, <1>5, <1>6, <1>9, WireTypes DEF Recent
<1>11. Numbered'
  <2>1. ASSUME NEW n \in 0 .. faults - 1 PROVE Back(id', n + 1) = Back(id, n)
    <3>1. n \in 0 .. Ids - 1 /\ n + 1 < Ids
      BY <2>1, WireTypes
    <3> QED
      BY <1>1, <3>1, WireTypes, Backs
  <2>2. Back(id', 0) = id'
    <3>1. id' \in 0 .. Ids - 1 /\ 0 \in 0 .. Ids - 1
      BY <1>2, WireTypes
    <3> QED
      BY <3>1, Backs
  <2>3. ASSUME NEW j \in 1 .. Len(up') PROVE up'[j].id = Back(id', Len(up') - j)
    <3>1. CASE j = Len(up) + 1
      BY <1>4, <1>5, <2>2, <3>1, WireTypes
    <3>2. CASE j # Len(up) + 1
      <4>1. Len(up) - j \in 0 .. faults - 1 /\ j \in 1 .. Len(up)
        BY <1>4, <1>9, <2>3, <3>2, WireTypes DEF InFlight
      <4>2. up'[j].id = Back(id, Len(up) - j)
        BY <1>1, <1>4, <4>1 DEF Wire, Numbered
      <4>3. Len(up') - j = (Len(up) - j) + 1
        BY <1>4, <4>1, WireTypes
      <4> QED
        BY <2>1, <4>1, <4>2, <4>3
    <3> QED
      BY <3>1, <3>2
  <2>4. ASSUME NEW i \in 1 .. Len(down) PROVE down'[i].id = Back(id', InFlight' - i)
    <3>1. InFlight - i \in 0 .. faults - 1
      BY <1>9, <2>4, WireTypes DEF InFlight
    <3>2. down'[i].id = Back(id, InFlight - i)
      BY <1>1, <2>4 DEF Wire, Numbered
    <3>3. InFlight' - i = (InFlight - i) + 1
      BY <1>9, <3>1, WireTypes
    <3> QED
      BY <2>1, <3>1, <3>2, <3>3
  <2> QED
    BY <1>1, <1>2, <1>9, <2>3, <2>4, WireTypes DEF Numbered
<1> QED
  BY <1>7, <1>8, <1>10, <1>11 DEF Wire

\* Whoever reads a reply takes the oldest off; the rest keep their numbers.
LEMMA ReplyKeepsWire ==
  ASSUME Wire, TypeOK, NEW t \in Threads, ReadReply(t)
  PROVE  Wire'
<1>1. /\ call[t].step = "read" /\ down # <<>> /\ down' = Tail(down) /\ io' = Free
      /\ up' = up /\ id' = id /\ stream' = stream /\ faults' = faults
      /\ \E o \in Outcomes : End(t, o)
  <2>1. Head(down) \in Reply
    BY WireTypes, HeadTailProperties DEF ReadReply
  <2>2. Head(down).out \in Outcomes /\ "desync" \in Outcomes
    BY <2>1 DEF Reply, Outcomes
  <2> QED
    BY <2>2 DEF ReadReply
<1>2. call'[t].step = "back" /\ \A u \in Threads \ {t} : call'[u] = call[u]
  BY <1>1, WireTypes, EndSets DEF Becomes
<1>3. io = t /\ Free \notin Threads
  BY <1>1, ClientAssumption DEF Wire, LockHeld
<1>4. /\ Len(down') = Len(down) - 1 /\ Len(down) >= 1
      /\ \A i \in 1 .. Len(down') : down'[i] = down[i + 1]
  BY <1>1, WireTypes, HeadTailProperties
<1>5. LockHeld'
  BY <1>1, <1>2, <1>3 DEF Wire, LockHeld
<1>6. Readable'
  BY <1>1, <1>3 DEF Wire, Readable
<1>7. NeverLost'
  <2>1. \A i \in 1 .. Len(down') : i + 1 \in 1 .. Len(down)
    BY <1>4, WireTypes
  <2> QED
    BY <1>4, <2>1 DEF Wire, NeverLost
<1>8. Recent'
  BY <1>1 DEF Recent
<1>9. Numbered'
  <2> SUFFICES ASSUME stream = "open" PROVE Numbered'
    BY <1>1 DEF Numbered
  <2>1. InFlight' = InFlight - 1 /\ InFlight <= faults + 1
    BY <1>1, <1>3, <1>4, WireTypes DEF Wire, Numbered, InFlight
  <2>2. ASSUME NEW i \in 1 .. Len(down') PROVE down'[i].id = Back(id, InFlight' - i)
    <3>1. i + 1 \in 1 .. Len(down) /\ InFlight - (i + 1) = InFlight' - i
      BY <1>4, <2>1, <2>2, WireTypes
    <3> QED
      BY <1>4, <2>2, <3>1 DEF Wire, Numbered
  <2>3. \A j \in 1 .. Len(up) : up[j].id = Back(id, Len(up) - j)
    BY DEF Wire, Numbered
  <2> QED
    BY <1>1, <2>1, <2>2, <2>3, WireTypes DEF Numbered
<1> QED
  BY <1>5, <1>6, <1>7, <1>8, <1>9 DEF Wire

\* The handler turns the oldest request into the youngest reply.
LEMMA ServeKeepsWire == ASSUME Wire, TypeOK, Serve PROVE Wire'
<1> DEFINE r == Head(up)
           v == Judged(r.method, lease)
           a == [id |-> r.id, method |-> r.method, by |-> r.by, out |-> v[2]]
<1>1. /\ up # <<>> /\ up' = Tail(up) /\ call' = call /\ io' = io /\ id' = id
      /\ stream' = stream /\ faults' = faults
      /\ down' = IF stream = "open" THEN Append(down, a) ELSE down
  BY DEF Serve
<1>2. /\ r \in Request /\ r = up[1] /\ Len(up') = Len(up) - 1 /\ Len(up) >= 1
      /\ \A j \in 1 .. Len(up') : up'[j] = up[j + 1]
  BY <1>1, WireTypes, HeadTailProperties
<1>3. v[2] \in {"ok", "taken", "lost"} /\ (r.method \in Acquires => v[2] # "lost")
  BY <1>2, JudgedTypes DEF TypeOK, Request
<1>4. a \in Reply
  BY <1>2, <1>3 DEF Request, Reply, Outcomes
<1>5. a.id = up[1].id /\ a.method = up[1].method /\ a.by = up[1].by /\ a.out = v[2]
  BY <1>2
<1> HIDE DEF a, v, r
<1>6. stream = "open" => /\ Len(down') = Len(down) + 1 /\ down'[Len(down) + 1] = a
                         /\ \A i \in 1 .. Len(down) : down'[i] = down[i]
                         /\ down' # <<>>
  BY <1>1, <1>4, WireTypes, AppendProperties
<1>7. LockHeld' /\ Readable'
  BY <1>1 DEF Wire, LockHeld, Readable
<1>8. NeverLost'
  <2>1. CASE stream = "open"
    BY <1>2, <1>3, <1>5, <1>6, <2>1, WireTypes DEF Wire, NeverLost
  <2>2. CASE stream # "open"
    BY <1>1, <2>2 DEF Wire, NeverLost
  <2> QED
    BY <2>1, <2>2
<1>9. stream = "open" => InFlight' = InFlight
  BY <1>1, <1>2, <1>6, WireTypes DEF InFlight
<1>10. Recent'
  <2> SUFFICES ASSUME stream = "open", io # Free PROVE Recent'
    BY <1>1 DEF Recent
  <2>1. call[io].id = id /\ InFlight >= 1
    BY DEF Wire, Recent
  <2>2. CASE Len(up) = 1
    <3>1. up' = <<>> /\ Len(down') = Len(down) + 1
      BY <1>1, <1>2, <1>6, <2>2, WireTypes
    <3>2. up[1].by = io /\ up[1].method = call[io].method
      BY <1>1, <2>2 DEF Wire, Recent
    <3> QED
      BY <1>1, <1>5, <1>6, <1>9, <2>1, <3>1, <3>2 DEF Recent
  <2>3. CASE Len(up) # 1
    <3>1. up' # <<>> /\ Len(up') >= 1 /\ up'[Len(up')] = up[Len(up)]
      BY <1>2, <2>3, WireTypes
    <3>2. up[Len(up)].by = io /\ up[Len(up)].method = call[io].method
      BY <1>1 DEF Wire, Recent
    <3> QED
      BY <1>1, <1>9, <2>1, <3>1, <3>2 DEF Recent
  <2> QED
    BY <2>2, <2>3
<1>11. Numbered'
  <2> SUFFICES ASSUME stream = "open" PROVE Numbered'
    BY <1>1 DEF Numbered
  <2>1. /\ \A j \in 1 .. Len(up) : up[j].id = Back(id, Len(up) - j)
        /\ \A i \in 1 .. Len(down) : down[i].id = Back(id, InFlight - i)
    BY DEF Wire, Numbered
  <2>2. ASSUME NEW j \in 1 .. Len(up') PROVE up'[j].id = Back(id, Len(up') - j)
    <3>1. j + 1 \in 1 .. Len(up) /\ Len(up) - (j + 1) = Len(up') - j
      BY <1>2, <2>2, WireTypes
    <3> QED
      BY <1>2, <2>1, <2>2, <3>1
  <2>3. ASSUME NEW i \in 1 .. Len(down') PROVE down'[i].id = Back(id, InFlight - i)
    <3>1. CASE i = Len(down) + 1
      <4>1. 1 \in 1 .. Len(up) /\ Len(up) - 1 = InFlight - i
        BY <1>2, <3>1, WireTypes DEF InFlight
      <4> QED
        BY <1>5, <1>6, <2>1, <3>1, <4>1
    <3>2. CASE i # Len(down) + 1
      <4>1. i \in 1 .. Len(down)
        BY <1>6, <2>3, <3>2, WireTypes
      <4> QED
        BY <1>6, <2>1, <4>1
    <3> QED
      BY <3>1, <3>2
  <2> QED
    BY <1>1, <1>9, <2>2, <2>3 DEF Wire, Numbered
<1> QED
  BY <1>7, <1>8, <1>10, <1>11 DEF Wire

LEMMA StepWire == TypeOK /\ Wire /\ [Next]_vars => Wire'
<1> SUFFICES ASSUME TypeOK, Wire, [Next]_vars PROVE Wire'
  OBVIOUS
<1>0. /\ Main \in Threads /\ Beats \subseteq Threads /\ Free \notin Threads /\ Main \notin Beats
      /\ call \in [Threads -> Call] /\ io \in Threads \cup {Free}
  BY ClientAssumption DEF Threads, TypeOK
<1>1. ASSUME NEW t \in Threads, Send(t) PROVE Wire'
  BY <1>1, SendKeepsWire
<1>2. ASSUME NEW t \in Threads, ReadReply(t) PROVE Wire'
  BY <1>2, ReplyKeepsWire
<1>3. CASE Serve
  BY <1>3, ServeKeepsWire
<1>4. ASSUME NEW t \in Threads, SendStale(t) \/ SendClosed(t) PROVE Wire'
  <2>1. /\ call[t].step = "ask" /\ io = Free /\ stream # "open"
        /\ UNCHANGED <<io, down, stream, faults>>
        /\ \E o \in Outcomes : End(t, o)
    BY <1>4 DEF SendStale, SendClosed, wire, Outcomes
  <2>2. call'[t].step = "back" /\ \A u \in Threads \ {t} : call'[u] = call[u]
    BY <1>0, <2>1, EndSets DEF Becomes
  <2>3. LockHeld'
    BY <2>1, <2>2 DEF Wire, LockHeld
  <2> QED
    BY <2>1, <2>3 DEF Wire, Readable, Numbered, Recent, NeverLost
<1>5. ASSUME NEW t \in Threads, ReadEmpty(t) \/ ReadTimesOut(t) PROVE Wire'
  <2>1. /\ call[t].step = "read" /\ io' = Free /\ down' = down /\ stream' # "open"
        /\ down = <<>> /\ \E o \in Outcomes : End(t, o)
    BY <1>5 DEF ReadEmpty, ReadTimesOut, wire, Outcomes
  <2>2. call'[t].step = "back" /\ \A u \in Threads \ {t} : call'[u] = call[u]
    BY <1>0, <2>1, EndSets DEF Becomes
  <2>3. LockHeld'
    BY <1>0, <2>1, <2>2 DEF Wire, LockHeld
  <2> QED
    BY <2>1, <2>3 DEF Wire, Readable, Numbered, Recent, NeverLost
<1>6. CASE Interrupted
  <2>1. /\ call[Main].step = "read" /\ io' = Free /\ faults' = faults + 1
        /\ UNCHANGED <<id, up, down, stream>> /\ Ending(Main)
    BY <1>6 DEF Interrupted
  <2>2. call'[Main].step = "idle" /\ \A u \in Threads \ {Main} : call'[u] = call[u]
    BY <1>0, <2>1, EndingSets DEF Becomes
  <2>3. io = Main /\ LockHeld'
    BY <1>0, <2>1, <2>2 DEF Wire, LockHeld
  <2>4. Numbered'
    BY <1>0, <2>1, <2>3 DEF Wire, Numbered, InFlight
  <2> QED
    BY <1>0, <2>1, <2>3, <2>4 DEF Wire, Readable, Recent, NeverLost
<1>7. CASE Shut \/ ConnectionLost
  <2>1. /\ io' = io /\ stream' = "closed" /\ down' = <<>>
        /\ \A t \in Threads : call'[t] = call[t] \/ (call[t].step # "read" /\ call'[t].step # "read")
    <3>1. CASE Shut
      <4>1. "gone" \in Steps
        BY DEF Steps
      <4> QED
        BY <1>0, <3>1, <4>1, AtSets DEF Shut, Becomes
    <3>2. CASE ConnectionLost
      BY <3>2 DEF ConnectionLost
    <3> QED
      BY <1>7, <3>1, <3>2
  <2>2. LockHeld' /\ 1 .. Len(<<>>) = {}
    BY <2>1 DEF Wire, LockHeld
  <2> QED
    BY <2>1, <2>2 DEF Wire, Readable, Numbered, Recent, NeverLost
<1>8. ASSUME NEW m \in Methods, Invoke(m) \/ StopHeartbeat(m) PROVE Wire'
  <2>1. /\ UNCHANGED <<io, id, up, down, stream, faults>> /\ call[Main].step = "idle"
        /\ \E s \in {"ask", "join"} : CallOf(Main, s, m)
    BY <1>8 DEF Invoke, StopHeartbeat, wire
  <2>2. {"ask", "join"} \subseteq Steps \ {"read"}
    BY DEF Steps
  <2>3. call'[Main].step # "read" /\ \A u \in Threads \ {Main} : call'[u] = call[u]
    BY <1>0, <2>1, <2>2, CallOfSets DEF Becomes
  <2> QED
    BY <2>1, <2>3, ElsewhereKeepsWire
<1>9. CASE Joined
  <2>1. /\ UNCHANGED <<io, id, up, down, stream, faults>> /\ call[Main].step = "join"
        /\ \E s \in {"ask", "shut"} : At(Main, s)
    BY <1>9 DEF Joined, wire
  <2>2. {"ask", "shut"} \subseteq Steps \ {"read"}
    BY DEF Steps
  <2>3. call'[Main].step # "read" /\ \A u \in Threads \ {Main} : call'[u] = call[u]
    BY <1>0, <2>1, <2>2, AtSets DEF Becomes
  <2> QED
    BY <2>1, <2>3, ElsewhereKeepsWire
<1>10. CASE MainBack
  <2>1. UNCHANGED <<io, id, up, down, stream, faults>> /\ call[Main].step = "back"
    BY <1>10 DEF MainBack, wire
  <2>2. "shut" \in Steps /\ Quiet.step = "idle" /\ [Quiet EXCEPT !.step = "sleep"].step = "sleep"
    BY DEF Steps, Quiet
  <2>3. CASE Granting
    <3>1. \/ call'[Main] = Quiet /\ \A u \in Threads \ {Main} : call'[u] = call[u]
          \/ \E h \in Beats :
               /\ call[h].step = "idle" /\ call'[Main] = Quiet
               /\ call'[h] = [Quiet EXCEPT !.step = "sleep"]
               /\ \A u \in Threads \ {Main, h} : call'[u] = call[u]
      BY <1>0, <2>3, GrantingSets DEF Becomes, CallsTyped
    <3>2. \A t \in Threads : call'[t] = call[t] \/ (call[t].step # "read" /\ call'[t].step # "read")
      BY <1>0, <2>1, <2>2, <3>1
    <3> QED
      BY <2>1, <3>2, ElsewhereKeepsWire
  <2>4. CASE At(Main, "shut") \/ Ending(Main)
    <3>1. call'[Main].step # "read" /\ \A u \in Threads \ {Main} : call'[u] = call[u]
      BY <1>0, <2>2, <2>4, AtSets, EndingSets DEF Becomes
    <3> QED
      BY <2>1, <3>1, ElsewhereKeepsWire
  <2> QED
    BY <1>10, <2>3, <2>4 DEF MainBack
<1>11. ASSUME NEW h \in Beats, Wake(h) \/ BeatBack(h) PROVE Wire'
  <2>1. /\ UNCHANGED <<io, id, up, down, stream, faults>> /\ call[h].step # "read"
        /\ Ending(h) \/ \E s \in {"ask", "sleep"}, m \in {"heartbeat", "acquire"} : CallOf(h, s, m)
    BY <1>11 DEF Wake, BeatBack, Good, Refused, Hiccup, GiveUp, Again, wire
  <2>2. {"ask", "sleep"} \subseteq Steps \ {"read"} /\ {"heartbeat", "acquire"} \subseteq Methods
    BY DEF Steps, Methods, Acquires
  <2>3. call'[h].step # "read" /\ \A u \in Threads \ {h} : call'[u] = call[u]
    BY <1>0, <2>1, <2>2, CallOfSets, EndingSets DEF Becomes
  <2> QED
    BY <2>1, <2>3, ElsewhereKeepsWire
<1>12. CASE Tick \/ UNCHANGED vars \/ \E o \in Rivals : RivalReleases(o) \/ RivalAcquires(o)
  <2>1. UNCHANGED <<io, id, up, down, stream, faults, call>>
    BY <1>12 DEF Tick, vars, RivalReleases, RivalAcquires, wire
  <2> QED
    BY <2>1, ElsewhereKeepsWire
<1> QED
  BY <1>1, <1>2, <1>3, <1>4, <1>5, <1>6, <1>7, <1>8, <1>9, <1>10, <1>11, <1>12 DEF Next, RPC

\* A call is answered by its own reply: it is the only one in flight with its id, and
\* the reader takes it for the answer only when it has that id.
LEMMA AnswersOwn ==
  ASSUME TypeOK, Wire, NEW t \in Threads, ReadReply(t), Mine(t, Head(down))
  PROVE  Head(down).by = t /\ Head(down).method = call[t].method
<1>1. io = t /\ t # Free /\ call[t].step = "read" /\ down # <<>>
  BY ClientAssumption DEF Wire, LockHeld, ReadReply
<1>2. stream = "open"
  BY <1>1 DEF Wire, Readable, TypeOK
<1>3. Head(down) = down[1] /\ 1 \in 1 .. Len(down)
  BY <1>1, WireTypes
<1>4. down[1].id = Back(id, InFlight - 1) /\ down[1].id = id /\ InFlight <= faults + 1
  BY <1>1, <1>2, <1>3 DEF Wire, Numbered, Recent, Mine
<1>5. InFlight - 1 \in 0 .. Ids - 1
  BY <1>3, <1>4, WireTypes DEF InFlight
<1>6. InFlight - 1 = 0
  BY <1>4, <1>5, WireTypes, Backs
<1>7. Len(down) = 1 /\ Len(up) = 0
  <2>1. Len(down) \in Nat /\ Len(up) \in Nat /\ Len(down) >= 1 /\ Len(up) + Len(down) = 1
    BY <1>3, <1>6, WireTypes DEF InFlight
  <2> QED
    BY <2>1
<1>8. up = <<>>
  BY <1>7, WireTypes
<1> QED
  BY <1>1, <1>2, <1>3, <1>7, <1>8 DEF Wire, Recent

LEMMA InitWire == Init => Wire
<1> SUFFICES ASSUME Init PROVE Wire
  OBVIOUS
<1>1. \A t \in Threads : call[t].step = "idle"
  BY DEF Init, Quiet
<1>2. io = Free /\ up = <<>> /\ down = <<>> /\ Len(up) = 0 /\ Len(down) = 0 /\ faults = 0
      /\ stream = "open"
  BY DEF Init
<1> QED
  BY <1>1, <1>2, ClientAssumption DEF Wire, LockHeld, Readable, Numbered, Recent, NeverLost, InFlight

\* "Mis-attributing results on a robot-control channel is far worse than failing"
\* (remote_robot.py:144-147): whatever was interrupted or timed out before, a reply that
\* a call accepts was made for that thread's call of that method.
THEOREM RepliesAttributed == Spec => Attributed
<1>1. TypeOK /\ Wire /\ [Next]_vars =>
        [\A t \in Threads :
           (call[t].step = "read" /\ down' # down /\ call'[t].step = "back"
              /\ call'[t].out # "desync")
             => Head(down).by = t /\ Head(down).method = call[t].method]_vars
  <2> SUFFICES ASSUME TypeOK, Wire, Next, NEW t \in Threads, call[t].step = "read",
                      down' # down, call'[t].step = "back", call'[t].out # "desync"
               PROVE  Head(down).by = t /\ Head(down).method = call[t].method
    BY DEF vars
  <2>0. call \in [Threads -> Call] /\ Main \in Threads
    BY ClientAssumption DEF TypeOK, Threads
  <2>1. \/ \E u \in Threads : ReadReply(u)
        \/ Serve \/ Shut \/ ConnectionLost
    BY DEF Next, RPC, Send, SendStale, SendClosed, ReadEmpty, ReadTimesOut, Interrupted, Joined,
      MainBack, Invoke, StopHeartbeat, Wake, BeatBack, RivalReleases, RivalAcquires, Tick, wire
  <2>2. ~Serve /\ ~ConnectionLost
    BY DEF Serve, ConnectionLost
  <2>3. ~Shut
    <3>1. "gone" \in Steps
      BY DEF Steps
    <3> QED
      BY <2>0, <3>1, AtSets DEF Shut, Becomes
  <2>4. PICK u \in Threads : ReadReply(u)
    BY <2>1, <2>2, <2>3
  <2>5. /\ \E o \in Outcomes : End(u, o)
        /\ End(u, IF Mine(u, Head(down)) THEN Head(down).out ELSE "desync")
    <3>1. Head(down) \in Reply
      BY <2>4, WireTypes, HeadTailProperties DEF ReadReply
    <3>2. Head(down).out \in Outcomes /\ "desync" \in Outcomes
      BY <3>1 DEF Reply, Outcomes
    <3> QED
      BY <2>4, <3>2 DEF ReadReply
  <2>6. u = t
    BY <2>0, <2>5, EndSets DEF Becomes
  <2>7. Mine(t, Head(down))
    <3> SUFFICES ASSUME ~Mine(t, Head(down)) PROVE FALSE
      OBVIOUS
    <3>1. End(t, "desync") /\ "desync" \in Outcomes
      BY <2>5, <2>6 DEF Outcomes
    <3> QED
      BY <2>0, <3>1, EndSets
  <2> QED
    BY <2>4, <2>6, <2>7, AnswersOwn
<1> QED
  BY <1>1, InitTyped, InitWire, StepTyped, StepWire, PTL DEF Spec, Attributed

-----------------------------------------------------------------------------
(* An expired lease *)

\* How the call of a heartbeat thread may have come to its step.
Beating(c) ==
  /\ c.step \in {"ask", "read", "back"} => c.method \in {"heartbeat", "acquire"}
  /\ c.step = "back" /\ c.method = "acquire" => c.out # "lost"

\* A heartbeat thread's call changes by its own steps only, or when it is started.
LEMMA OthersLeaveBeat ==
  ASSUME TypeOK, [Next]_vars, NEW h \in Beats, ~RPC(h), ~Wake(h), ~BeatBack(h)
  PROVE  call'[h] = call[h] \/ (call[h].step = "idle" /\ call'[h].step = "sleep")
<1>0. /\ Main \in Threads /\ Beats \subseteq Threads /\ h \in Threads /\ h # Main
      /\ call \in [Threads -> Call]
      /\ {"ask", "sleep", "join", "shut", "gone"} \subseteq Steps
      /\ {"heartbeat", "acquire"} \subseteq Methods
  BY ClientAssumption DEF Threads, TypeOK, Steps, Methods, Acquires
<1>1. CASE MainBack
  <2>1. CASE Granting
    <3>1. \/ call'[h] = call[h]
          \/ call[h].step = "idle" /\ call'[h] = [Quiet EXCEPT !.step = "sleep"]
      BY <1>0, <2>1, GrantingSets DEF Becomes, CallsTyped
    <3>2. [Quiet EXCEPT !.step = "sleep"].step = "sleep"
      BY DEF Quiet
    <3> QED
      BY <3>1, <3>2
  <2>2. CASE At(Main, "shut") \/ Ending(Main)
    BY <1>0, <2>2, AtSets, EndingSets DEF Becomes
  <2> QED
    BY <1>1, <2>1, <2>2 DEF MainBack
<1>2. ASSUME NEW t \in Threads \ {h}, RPC(t) PROVE call'[h] = call[h]
  <2>1. CASE Send(t)
    BY <1>0, <2>1 DEF Send
  <2>2. CASE ReadReply(t)
    <3>1. Head(down) \in Reply
      BY <2>2, WireTypes, HeadTailProperties DEF ReadReply
    <3>2. Head(down).out \in Outcomes /\ "desync" \in Outcomes
      BY <3>1 DEF Reply, Outcomes
    <3> QED
      BY <1>0, <2>2, <3>2, EndSets DEF ReadReply, Becomes
  <2>3. CASE SendStale(t) \/ SendClosed(t) \/ ReadEmpty(t) \/ ReadTimesOut(t)
    <3>1. \E o \in Outcomes : End(t, o)
      BY <2>3 DEF SendStale, SendClosed, ReadEmpty, ReadTimesOut, Outcomes
    <3> QED
      BY <1>0, <3>1, EndSets DEF Becomes
  <2> QED
    BY <1>2, <2>1, <2>2, <2>3 DEF RPC
<1>3. ASSUME NEW g \in Beats \ {h}, Wake(g) \/ BeatBack(g) PROVE call'[h] = call[h]
  <2>1. Ending(g) \/ \E s \in {"ask", "sleep"}, m \in {"heartbeat", "acquire"} : CallOf(g, s, m)
    BY <1>3 DEF Wake, BeatBack, Good, Refused, Hiccup, GiveUp, Again
  <2> QED
    BY <1>0, <2>1, CallOfSets, EndingSets DEF Becomes
<1>4. ASSUME NEW m \in Methods, Invoke(m) \/ StopHeartbeat(m) PROVE call'[h] = call[h]
  <2>1. \E s \in {"ask", "join"} : CallOf(Main, s, m)
    BY <1>4 DEF Invoke, StopHeartbeat
  <2> QED
    BY <1>0, <2>1, CallOfSets DEF Becomes
<1>5. CASE Interrupted \/ Joined \/ Shut
  <2>1. Ending(Main) \/ \E s \in {"ask", "shut", "gone"} : At(Main, s)
    BY <1>5 DEF Interrupted, Joined, Shut
  <2> QED
    BY <1>0, <2>1, AtSets, EndingSets DEF Becomes
<1>6. CASE \/ Serve \/ Tick \/ ConnectionLost \/ UNCHANGED vars
           \/ \E o \in Rivals : RivalReleases(o) \/ RivalAcquires(o)
  BY <1>6 DEF Serve, Tick, ConnectionLost, vars, RivalReleases, RivalAcquires
<1> QED
  BY <1>1, <1>2, <1>3, <1>4, <1>5, <1>6 DEF Next

LEMMA StepBeats == TypeOK /\ Wire /\ BeatCalls /\ [Next]_vars => BeatCalls'
<1> SUFFICES ASSUME TypeOK, Wire, BeatCalls, [Next]_vars, NEW h \in Beats
             PROVE  Beating(call[h])'
  BY DEF BeatCalls, Beating
<1>0. /\ Main \in Threads /\ h \in Threads /\ h # Main /\ call \in [Threads -> Call]
      /\ Beating(call[h])
  BY ClientAssumption DEF Threads, TypeOK, BeatCalls, Beating
<1>1. CASE Send(h)
  <2>1. call[h].step = "ask" /\ call' = [call EXCEPT ![h] = [@ EXCEPT !.step = "read", !.id = id']]
    BY <1>1 DEF Send
  <2>2. call'[h].step = "read" /\ call'[h].method = call[h].method
    BY <1>0, <2>1 DEF Call
  <2> QED
    BY <1>0, <2>1, <2>2 DEF Beating
<1>2. CASE SendStale(h) \/ SendClosed(h) \/ ReadEmpty(h) \/ ReadTimesOut(h)
  <2>1. call[h].step \in {"ask", "read"} /\ \E o \in Outcomes \ {"lost"} : End(h, o)
    BY <1>2 DEF SendStale, SendClosed, ReadEmpty, ReadTimesOut, Outcomes
  <2>2. call'[h].method = call[h].method /\ call'[h].out # "lost"
    BY <1>0, <2>1, EndSets
  <2> QED
    BY <1>0, <2>1, <2>2 DEF Beating
<1>3. CASE ReadReply(h)
  <2>1. Head(down) \in Reply /\ Head(down) = down[1] /\ 1 \in 1 .. Len(down)
    BY <1>3, WireTypes, HeadTailProperties DEF ReadReply
  <2>2. Head(down).method \in Acquires => Head(down).out # "lost"
    BY <2>1 DEF Wire, NeverLost
  <2>3. Mine(h, Head(down)) => Head(down).method = call[h].method
    BY <1>0, <1>3, AnswersOwn
  <2>4. \E o \in Outcomes : /\ End(h, o)
                            /\ call[h].method \in Acquires => o # "lost"
    <3>1. Head(down).out \in Outcomes /\ "desync" \in Outcomes
      BY <2>1 DEF Reply, Outcomes
    <3>2. CASE Mine(h, Head(down))
      BY <1>3, <2>2, <2>3, <3>1, <3>2 DEF ReadReply
    <3>3. CASE ~Mine(h, Head(down))
      BY <1>3, <3>1, <3>3 DEF ReadReply
    <3> QED
      BY <3>2, <3>3
  <2>5. /\ call'[h].method = call[h].method
        /\ call[h].method \in Acquires => call'[h].out # "lost"
    BY <1>0, <2>4, EndSets
  <2>6. call[h].step = "read"
    BY <1>3 DEF ReadReply
  <2> QED
    BY <1>0, <2>5, <2>6 DEF Beating, Acquires
<1>4. CASE Wake(h) \/ BeatBack(h)
  <2>1. Ending(h) \/ \E s \in {"ask", "sleep"}, m \in {"heartbeat", "acquire"} : CallOf(h, s, m)
    BY <1>4 DEF Wake, BeatBack, Good, Refused, Hiccup, GiveUp, Again
  <2>2. {"ask", "sleep"} \subseteq Steps /\ {"heartbeat", "acquire"} \subseteq Methods
    BY DEF Steps, Methods, Acquires
  <2>3. \/ call'[h].step = "idle"
        \/ call'[h].step \in {"ask", "sleep"} /\ call'[h].method \in {"heartbeat", "acquire"}
    BY <1>0, <2>1, <2>2, CallOfSets, EndingSets
  <2> QED
    BY <2>3 DEF Beating
<1>5. CASE ~RPC(h) /\ ~Wake(h) /\ ~BeatBack(h)
  BY <1>0, <1>5, OthersLeaveBeat DEF Beating
<1> QED
  BY <1>1, <1>2, <1>3, <1>4, <1>5 DEF RPC

\* "a lease that merely expired is recoverable, a lease taken by another owner is not"
\* (remote_robot.py:189-191): a heartbeat thread never gives up because it found the
\* lease free, for any number of threads, rivals and faults.
THEOREM ExpiredLeaseRecovered == Spec => ExpiryRecovered
<1>1. Init => BeatCalls
  <2>1. Init => \A h \in Beats : call[h].step = "idle"
    BY DEF Init, Quiet, Threads
  <2> QED
    BY <2>1 DEF BeatCalls
<1>2. TypeOK /\ BeatCalls /\ [Next]_vars =>
        [\A h \in Beats :
           (call[h].step = "back" /\ call'[h].step = "idle" /\ running) => call[h].out # "lost"]_vars
  <2> SUFFICES ASSUME TypeOK, BeatCalls, Next, NEW h \in Beats,
                      call[h].step = "back", call'[h].step = "idle", running, call[h].out = "lost"
               PROVE  FALSE
    BY DEF vars
  <2>0. /\ Main \in Threads /\ h \in Threads /\ h # Main /\ call \in [Threads -> Call]
        /\ call[h].method = "heartbeat"
    BY ClientAssumption DEF Threads, TypeOK, BeatCalls
  <2>1. ASSUME BeatBack(h) PROVE FALSE
    <3>1. CallOf(h, "ask", "acquire")
      BY <2>0, <2>1 DEF BeatBack, Good, Refused, Hiccup
    <3>2. "ask" \in Steps /\ "acquire" \in Methods
      BY DEF Steps, Methods, Acquires
    <3> QED
      BY <2>0, <3>1, <3>2, CallOfSets
  <2>2. ~Wake(h) /\ ~RPC(h)
    BY DEF Wake, RPC, Send, SendStale, SendClosed, ReadReply, ReadEmpty, ReadTimesOut
  <2> QED
    BY <2>0, <2>1, <2>2, OthersLeaveBeat
<1> QED
  BY <1>1, <1>2, InitTyped, InitWire, StepTyped, StepWire, StepBeats, PTL DEF Spec, ExpiryRecovered
===============================================================================
