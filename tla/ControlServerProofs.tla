------------------------- MODULE ControlServerProofs -------------------------
(***************************************************************************)
(* Theorems about ControlServer for any set of connections, clients, loop  *)
(* objects and profiles, with or without backend faults.                   *)
(***************************************************************************)
EXTENDS ControlServer, TLAPS

\* What the critical sections return, given a well-formed lease.
LEMMA SectionTypes ==
  ASSUME NEW l \in LeaseInfo
  PROVE  /\ \A h \in Int : Swept(l, h) \in LeaseInfo
         /\ Aged(l) \in LeaseInfo
         /\ Renewed(l) \in LeaseInfo
         /\ NoLease \in LeaseInfo
BY LeaseAssumption DEF LeaseInfo, Swept, Aged, Renewed, NoLease, Overdue, Held

\* A grant to a client, or to nobody, is a lease record.
LEMMA GrantType ==
  ASSUME NEW o \in Owners \cup {NoOwner} PROVE Granted(o) \in LeaseInfo
BY LeaseAssumption DEF LeaseInfo, Granted

\* What a thread serves, and that a motion call has a stage to be in.
Serving ==
  \A t \in Threads :
    /\ pc[t] \in {"check", "renew"} => rpc[t] \in Leased
    /\ pc[t] \in {"lock", "held", "pin"} => rpc[t] \in Motions
    /\ pc[t] \in Stages \cup InChunk => todo[t] # <<>>

\* From the moment the loop was looked for under the lock, none is installed.
SlotFree ==
  \A t \in Threads : pc[t] \in Body \cup {"held", "pin", "boot"} => slot = NoLoop

\* Only a chunk in flight remembers the profile it was admitted under.
EnvInChunk == \A t \in Threads : env[t] # NoProfile => env[t] = profile /\ pc[t] \in InChunk

Ind == SharedTypes /\ LocalTypes /\ Serving /\ LockDiscipline /\ SlotFree /\ EnvInChunk

-----------------------------------------------------------------------------
(* The operators the actions are built from *)

\* Every plan of a motion call is a sequence of stages.
LEMMA PlanType == ASSUME NEW m \in Motions PROVE Plans(m) \subseteq Seq(Stages) \ {<<>>}
<1>1. \A x \in Stages : <<x>> \in Seq(Stages) \ {<<>>}
  OBVIOUS
<1>2. \A x, y \in Stages : <<x, y>> \in Seq(Stages) \ {<<>>}
  OBVIOUS
<1>3. \A x, y, z \in Stages : <<x, y, z>> \in Seq(Stages) \ {<<>>}
  OBVIOUS
<1>4. \A x, y, z, w \in Stages : <<x, y, z, w>> \in Seq(Stages) \ {<<>>}
  OBVIOUS
<1>5. \A x, y, z, w, u, v \in Stages : <<x, y, z, w, u, v>> \in Seq(Stages) \ {<<>>}
  OBVIOUS
<1>6. {"call", "chunk", "lift", "settle", "gate"} \subseteq Stages
  BY DEF Stages
<1>7. CASE m \in {"mode", "chunk"}
  BY <1>1, <1>6, <1>7 DEF Plans
<1>8. CASE m \in {"move", "gripper"}
  BY <1>2, <1>6, <1>8 DEF Plans
<1>9. CASE m = "home"
  <2>1. Plans(m) = {<<"call">>, <<"call", "call", "settle">>, <<"call", "chunk">>,
                    <<"call", "chunk", "call", "settle">>}
    BY <1>9 DEF Plans
  <2>2. QED
    BY <2>1, <1>1, <1>2, <1>3, <1>4, <1>6
<1>10. CASE m = "ritual"
  <2>1. Plans(m) = {<<"lift", "gate", "call", "chunk">>,
                    <<"lift", "call", "settle", "gate", "call", "chunk">>}
    BY <1>10 DEF Plans
  <2>2. QED
    BY <2>1, <1>4, <1>5, <1>6
<1>11. QED
  BY <1>7, <1>8, <1>9, <1>10 DEF Motions

\* What is left of a motion call after a stage raised.
LEMMA AfterRaiseType ==
  ASSUME NEW q \in Seq(Stages), q # <<>> PROVE AfterRaise(q) \in Seq(Stages)
<1>1. Tail(q) \in Seq(Stages)
  OBVIOUS
<1>2. <<>> \in Seq(Stages) /\ <<"gate", "call", "chunk">> \in Seq(Stages)
  BY DEF Stages
<1>3. QED
  BY <1>1, <1>2 DEF AfterRaise

\* The response is sent.
LEMMA ReturnStep ==
  ASSUME LocalTypes, NEW t \in Threads, Return(t)
  PROVE  /\ LocalTypes'
         /\ pc' = [pc EXCEPT ![t] = "idle"]
         /\ rpc' = [rpc EXCEPT ![t] = "none"]
         /\ mine' = [mine EXCEPT ![t] = NoLoop]
         /\ todo' = [todo EXCEPT ![t] = <<>>]
         /\ env' = [env EXCEPT ![t] = NoProfile]
BY DEF LocalTypes, Return, Goto, Points, Stages

\* Nothing but the point changes.
LEMMA MoveStep ==
  ASSUME LocalTypes, NEW t \in Threads, NEW p \in Points, Move(t, p)
  PROVE  /\ LocalTypes'
         /\ pc' = [pc EXCEPT ![t] = p]
         /\ UNCHANGED <<rpc, prev, mine, todo, contact, env>>
BY DEF LocalTypes, Move, Goto, localVars

\* request_stop() touches the flag only.
LEMMA FlagStep ==
  ASSUME SharedTypes, RequestStop
  PROVE  cancel' \in BOOLEAN /\ hit' \in [Threads -> {"no", "hit", "late"}]
BY DEF SharedTypes, RequestStop, Reach

\* A torn-down loop leads on without the lock.
LEMMA TearDownStep ==
  ASSUME LocalTypes, NEW t \in Threads, AfterTearDown(t)
  PROVE  /\ LocalTypes'
         /\ \E p \in {"idle", "restLock", "try2", "downFlag"} : pc' = [pc EXCEPT ![t] = p]
         /\ UNCHANGED <<rpc, todo, env>>
            \/ /\ rpc' = [rpc EXCEPT ![t] = "none"]
               /\ todo' = [todo EXCEPT ![t] = <<>>]
               /\ env' = [env EXCEPT ![t] = NoProfile]
BY ReturnStep, MoveStep DEF AfterTearDown, Points

\* So does looking for one.
LEMMA TakeSlotStep ==
  ASSUME SharedTypes, LocalTypes, NEW t \in Threads, TakeSlot(t)
  PROVE  /\ LocalTypes'
         /\ slot' = NoLoop
         /\ \E p \in {"idle", "restLock", "try2", "downFlag", "kill"} :
              pc' = [pc EXCEPT ![t] = p]
         /\ UNCHANGED <<rpc, todo, env>>
            \/ /\ rpc' = [rpc EXCEPT ![t] = "none"]
               /\ todo' = [todo EXCEPT ![t] = <<>>]
               /\ env' = [env EXCEPT ![t] = NoProfile]
<1>1. slot' = NoLoop
  BY DEF TakeSlot
<1>2. CASE AfterTearDown(t)
  BY <1>1, <1>2, TearDownStep
<1>3. CASE /\ slot # NoLoop
           /\ mine' = [mine EXCEPT ![t] = slot]
           /\ Goto(t, "kill")
           /\ UNCHANGED <<rpc, prev, todo, contact, env>>
  <2>1. pc' = [pc EXCEPT ![t] = "kill"]
    BY <1>3 DEF Goto
  <2>2. LocalTypes'
    BY <1>3, <2>1 DEF LocalTypes, SharedTypes, Points, TearDown
  <2>3. QED
    BY <1>1, <1>3, <2>1, <2>2
<1>4. QED
  BY <1>2, <1>3 DEF TakeSlot

\* The next stage of a motion call, or its end.
LEMMA ProceedStep ==
  ASSUME LocalTypes, NEW t \in Threads, NEW q \in Seq(Stages), Proceed(t, q)
  PROVE  /\ pc' \in [Threads -> Points]
         /\ todo' \in [Threads -> Seq(Stages)]
         /\ todo' = [todo EXCEPT ![t] = q]
         /\ \E p \in Stages \cup {"unpin"} :
              pc' = [pc EXCEPT ![t] = p] /\ (p \in Stages => q # <<>>)
<1>1. todo' = [todo EXCEPT ![t] = q]
  BY DEF Proceed
<1>2. todo' \in [Threads -> Seq(Stages)]
  BY <1>1 DEF LocalTypes
<1>3. CASE q = <<>>
  <2>1. pc' = [pc EXCEPT ![t] = "unpin"]
    BY <1>3 DEF Proceed, Goto
  <2>2. "unpin" \in Points /\ "unpin" \notin Stages
    BY DEF Points, Locked, Body, Stages
  <2>3. QED
    BY <1>1, <1>2, <2>1, <2>2 DEF LocalTypes
<1>4. CASE q # <<>>
  <2>1. pc' = [pc EXCEPT ![t] = Head(q)]
    BY <1>4 DEF Proceed, Goto
  <2>2. Head(q) \in Stages
    BY <1>4
  <2>3. Stages \subseteq Points
    BY DEF Points, Locked, Body
  <2>4. QED
    BY <1>1, <1>2, <1>4, <2>1, <2>2, <2>3 DEF LocalTypes
<1>5. QED
  BY <1>3, <1>4

LEMMA NextStageStep ==
  ASSUME LocalTypes, NEW t \in Threads, todo[t] # <<>>, NextStage(t)
  PROVE  /\ pc' \in [Threads -> Points]
         /\ todo' \in [Threads -> Seq(Stages)]
         /\ todo' = [todo EXCEPT ![t] = todo'[t]]
         /\ \E p \in Stages \cup {"unpin"} :
              pc' = [pc EXCEPT ![t] = p] /\ (p \in Stages => todo'[t] # <<>>)
<1>1. todo[t] \in Seq(Stages)
  BY DEF LocalTypes
<1>2. Tail(todo[t]) \in Seq(Stages)
  BY <1>1
<1>3. Proceed(t, Tail(todo[t]))
  BY DEF NextStage
<1>4. todo' = [todo EXCEPT ![t] = Tail(todo[t])]
  BY <1>3 DEF Proceed
<1>5. todo'[t] = Tail(todo[t])
  BY <1>4 DEF LocalTypes
<1>6. QED
  BY <1>2, <1>3, <1>4, <1>5, ProceedStep

\* Where a handler goes once its lease is checked.
LEMMA AfterLeaseType ==
  ASSUME NEW m \in Leased
  PROVE  /\ AfterLease(m) \in {"lock", "setProfile", "bootLock", "pop", "readSlot"}
         /\ AfterLease(m) = "lock" => m \in Motions
BY DEF Leased, Motions, AfterLease

\* The beginning, the gate and the failure of a stage lead on to some stages.
LEMMA SomeStages ==
  ASSUME LocalTypes, Serving, NEW t \in Threads, Pin(t) \/ Gate(t) \/ Raise(t)
  PROVE  \E q \in Seq(Stages) : Proceed(t, q)
<1>1. CASE Pin(t)
  BY <1>1, PlanType DEF Pin, Serving
<1>2. CASE Gate(t)
  <2>1. todo[t] \in Seq(Stages) /\ todo[t] # <<>>
    BY <1>2 DEF Gate, LocalTypes, Serving, Stages
  <2>2. Tail(todo[t]) \in Seq(Stages) /\ <<>> \in Seq(Stages)
    BY <2>1
  <2>3. QED
    BY <1>2, <2>2 DEF Gate
<1>3. CASE Raise(t)
  <2>1. todo[t] \in Seq(Stages) /\ todo[t] # <<>>
    BY <1>3 DEF Raise, LocalTypes, Serving, Stages, InChunk
  <2>2. QED
    BY <1>3, <2>1, AfterRaiseType DEF Raise
<1>4. QED
  BY <1>1, <1>2, <1>3

\* How a step of a thread may move the robot lock.
LEMMA LockKept ==
  ASSUME LocalTypes, LockDiscipline, NEW t \in Threads, NEW p \in Points,
         pc' = [pc EXCEPT ![t] = p], pc[t] \in Locked <=> p \in Locked,
         UNCHANGED <<robotLock, loopPc>>
  PROVE  LockDiscipline'
BY DEF LocalTypes, LockDiscipline

LEMMA LockGiven ==
  ASSUME LocalTypes, LockDiscipline, NEW t \in Threads, NEW p \in Points \ Locked,
         pc' = [pc EXCEPT ![t] = p], pc[t] \in Locked,
         robotLock' = Free, UNCHANGED loopPc
  PROVE  LockDiscipline'
BY ServerAssumption DEF LocalTypes, LockDiscipline

\* How a step of a thread may treat the profile of a chunk in flight.
LEMMA EnvKept ==
  ASSUME LocalTypes, EnvInChunk, NEW t \in Threads, NEW p \in Points,
         pc' = [pc EXCEPT ![t] = p], pc[t] \in InChunk => p \in InChunk,
         UNCHANGED <<env, profile>>
  PROVE  EnvInChunk'
BY DEF LocalTypes, EnvInChunk

LEMMA EnvReset ==
  ASSUME LocalTypes, EnvInChunk, NEW t \in Threads, NEW p \in Points,
         pc' = [pc EXCEPT ![t] = p], env' = [env EXCEPT ![t] = NoProfile],
         UNCHANGED profile
  PROVE  EnvInChunk'
BY DEF LocalTypes, EnvInChunk

\* A thread that goes to a point which asks nothing of rpc and todo.
Plain == Points \ (Stages \cup InChunk \cup {"check", "renew", "lock", "held", "pin"})

LEMMA ServesPlainly ==
  ASSUME LocalTypes, Serving, NEW t \in Threads, NEW p \in Plain, NEW r, NEW q,
         pc' = [pc EXCEPT ![t] = p], rpc' = [rpc EXCEPT ![t] = r],
         todo' = [todo EXCEPT ![t] = q]
  PROVE  Serving'
BY DEF LocalTypes, Serving, Plain

LEMMA ServesStage ==
  ASSUME LocalTypes, Serving, NEW t \in Threads, NEW p \in Stages \cup {"unpin"}, NEW q,
         pc' = [pc EXCEPT ![t] = p], UNCHANGED rpc,
         todo' = [todo EXCEPT ![t] = q], p \in Stages => q # <<>>
  PROVE  Serving'
BY DEF LocalTypes, Serving, Stages, InChunk

LEMMA ReturnServes ==
  ASSUME LocalTypes, Serving, NEW t \in Threads, Return(t)
  PROVE  Serving'
<1>1. "idle" \in Plain
  BY DEF Plain, Points, Stages, InChunk
<1>2. pc' = [pc EXCEPT ![t] = "idle"] /\ rpc' = [rpc EXCEPT ![t] = "none"]
      /\ todo' = [todo EXCEPT ![t] = <<>>]
  BY ReturnStep
<1>3. QED
  BY <1>1, <1>2, ServesPlainly

-----------------------------------------------------------------------------
(* What a step does to each part of the invariant *)

\* A step keeps the types of what the threads share.
LEMMA SharedStep == ASSUME Ind, [Next]_vars PROVE SharedTypes'
<1>. SharedTypes /\ LocalTypes /\ Serving /\ LockDiscipline /\ SlotFree /\ EnvInChunk
  BY DEF Ind
<1>1. ASSUME NEW t \in Threads, Grant(t) PROVE SharedTypes'
  <2>1. Swept(lease, holds) \in LeaseInfo /\ Granted(OwnerOf[t]) \in LeaseInfo
    BY ServerAssumption, SectionTypes, GrantType DEF SharedTypes
  <2>2. lease' \in LeaseInfo
    BY <1>1, <2>1 DEF Grant
  <2>3. QED
    BY <1>1, <2>2 DEF Grant, loopVars, SharedTypes
<1>2. ASSUME NEW l \in Loops, Loop(l) PROVE SharedTypes'
  BY <1>2 DEF Loop, LoopTop, LoopLock, LoopWrite, LoopReadRaises, LoopCrash,
               SharedTypes, LoopPoints, serverVars
<1>. USE ServerAssumption DEF serverVars, loopVars, Lock, Unlock, SharedTypes, TakeSlot,
           LoopPoints
<1>3. ASSUME NEW t \in Threads,
               CheckLease(t)
        PROVE  SharedTypes'
  BY <1>3, FlagStep, SectionTypes, GrantType DEF CheckLease
<1>4. ASSUME NEW t \in Threads,
               RenewLease(t)
        PROVE  SharedTypes'
  BY <1>4, FlagStep, SectionTypes, GrantType DEF RenewLease
<1>5. ASSUME NEW t \in Threads,
               ReadPrev(t)
        PROVE  SharedTypes'
  BY <1>5, FlagStep, SectionTypes, GrantType DEF ReadPrev
<1>6. ASSUME NEW t \in Threads,
               AfterGrant(t) \/ Drop(t)
        PROVE  SharedTypes'
  BY <1>6, FlagStep, SectionTypes, GrantType DEF AfterGrant, Drop
<1>7. ASSUME NEW t \in Threads,
               RestLock(t) \/ Rest(t) \/ Pop(t) \/ Kill(t) \/ Join(t) \/
               FinLock(t) \/ Fin(t)
        PROVE  SharedTypes'
  BY <1>7, FlagStep, SectionTypes, GrantType DEF RestLock, Rest, Pop, Kill,
     Join, FinLock, Fin
<1>8. ASSUME NEW t \in Threads,
               Request(t) \/ StopPop(t) \/ StopHalt(t) \/ StopBusy(t) \/
               DownFlag(t) \/ Down(t)
        PROVE  SharedTypes'
  BY <1>8, FlagStep, SectionTypes, GrantType DEF Request, StopPop, StopHalt,
     StopBusy, DownFlag, Down
<1>9. ASSUME NEW t \in Threads,
               SetProfile(t) \/ BootLock(t) \/ Boot(t) \/ BootRaises(t) \/
               ReadSlot(t) \/ Aim(t)
        PROVE  SharedTypes'
  BY <1>9, FlagStep, SectionTypes, GrantType DEF SetProfile, BootLock, Boot,
     BootRaises, ReadSlot, Aim
<1>10. ASSUME NEW t \in Threads,
               MotionLock(t) \/ HoldCheck(t)
        PROVE  SharedTypes'
  BY <1>10, FlagStep, SectionTypes, GrantType DEF MotionLock, HoldCheck
<1>11. ASSUME NEW t \in Threads,
               Pin(t)
        PROVE  SharedTypes'
  BY <1>11, FlagStep, SectionTypes, GrantType DEF Pin
<1>12. ASSUME NEW t \in Threads,
               Unpin(t) \/ MotionUnlock(t)
        PROVE  SharedTypes'
  BY <1>12, FlagStep, SectionTypes, GrantType DEF Unpin, MotionUnlock
<1>13. ASSUME NEW t \in Threads,
               Call(t) \/ Settle(t) \/ Gate(t) \/ Raise(t) \/ EntryAbort(t)
        PROVE  SharedTypes'
  BY <1>13, FlagStep, SectionTypes, GrantType DEF Call, Settle, Gate, Raise,
     EntryAbort
<1>14. ASSUME NEW t \in Threads,
               Entry(t) \/ Arm(t) \/ TickCancel(t) \/ TickProtect(t) \/
               TickStream(t) \/ Stream(t) \/ ChunkEnd(t)
        PROVE  SharedTypes'
  BY <1>14, FlagStep, SectionTypes, GrantType DEF Entry, Arm, TickCancel,
     TickProtect, TickStream, Stream, ChunkEnd
<1>15. ASSUME Clock \/ \E t \in Threads : Heartbeat(t) \/ GetState(t)
        PROVE  SharedTypes'
  BY <1>15, SectionTypes DEF Clock, Heartbeat, GetState
<1>16. ASSUME NEW t \in Threads, NEW m \in Methods, Receive(t, m)
        PROVE  SharedTypes'
  BY <1>16 DEF Receive, First, Leased, Motions, Methods
<1>17. CASE UNCHANGED vars
  BY <1>17 DEF vars
<1>18. QED
  BY <1>1, <1>2, <1>3, <1>4, <1>5, <1>6, <1>7, <1>8, <1>9, <1>10, <1>11,
     <1>12, <1>13, <1>14, <1>15, <1>16, <1>17 DEF Next, Handler, Mover

\* A step keeps the types of what a thread has to itself.
LEMMA LocalStep == ASSUME Ind, [Next]_vars PROVE LocalTypes'
<1>. SharedTypes /\ LocalTypes /\ Serving /\ LockDiscipline /\ SlotFree /\ EnvInChunk
  BY DEF Ind
<1>1. ASSUME NEW t \in Threads, RenewLease(t) PROVE LocalTypes'
  <2>1. AfterLease(rpc[t]) \in Points
    BY <1>1, AfterLeaseType DEF RenewLease, Serving, Points, TearDown
  <2>2. QED
    BY <1>1, <2>1, ReturnStep, MoveStep DEF RenewLease
<1>2. ASSUME NEW t \in Threads, ReadPrev(t) PROVE LocalTypes'
  <2>1. Swept(lease, holds).owner \in Owners \cup {NoOwner}
    BY SectionTypes DEF SharedTypes, LeaseInfo
  <2>2. QED
    BY <1>2, <2>1 DEF ReadPrev, Goto, LocalTypes, Points
<1>3. ASSUME NEW t \in Threads, Pop(t) PROVE LocalTypes'
  BY <1>3, TakeSlotStep DEF Pop, Points
<1>4. ASSUME NEW t \in Threads, Fin(t) PROVE LocalTypes'
  BY <1>4, TearDownStep, ReturnStep, MoveStep DEF Fin, Points
<1>5. ASSUME NEW t \in Threads, StopPop(t) PROVE LocalTypes'
  BY <1>5, TakeSlotStep DEF StopPop, Points
<1>6. ASSUME NEW t \in Threads, ReadSlot(t) PROVE LocalTypes'
  <2>1. CASE Return(t)
    BY <2>1, ReturnStep
  <2>2. CASE ~Return(t)
    <3>1. mine' \in [Threads -> Loops \cup {NoLoop}]
      BY <1>6, <2>2 DEF ReadSlot, LocalTypes, SharedTypes
    <3>2. pc' \in [Threads -> Points]
      BY <1>6, <2>2 DEF ReadSlot, Goto, LocalTypes, Points
    <3>3. QED
      BY <1>6, <2>2, <3>1, <3>2 DEF ReadSlot, LocalTypes
  <2>3. QED
    BY <2>1, <2>2
<1>7. ASSUME NEW t \in Threads, Pin(t) PROVE LocalTypes'
  <2>1. PICK q \in Seq(Stages) : Proceed(t, q)
    BY <1>7, SomeStages
  <2>2. pc' \in [Threads -> Points] /\ todo' \in [Threads -> Seq(Stages)]
    BY <2>1, ProceedStep
  <2>3. QED
    BY <1>7, <2>2 DEF Pin, LocalTypes
<1>8. ASSUME NEW t \in Threads, Call(t) PROVE LocalTypes'
  <2>1. pc' \in [Threads -> Points] /\ todo' \in [Threads -> Seq(Stages)]
    BY <1>8, NextStageStep DEF Call, Serving, Stages, InChunk
  <2>2. QED
    BY <1>8, <2>1 DEF Call, LocalTypes
<1>9. ASSUME NEW t \in Threads, EntryAbort(t) PROVE LocalTypes'
  <2>1. pc' \in [Threads -> Points] /\ todo' \in [Threads -> Seq(Stages)]
    BY <1>9, NextStageStep DEF EntryAbort, Serving, Stages, InChunk
  <2>2. QED
    BY <1>9, <2>1 DEF EntryAbort, LocalTypes
<1>10. ASSUME NEW t \in Threads, Entry(t) PROVE LocalTypes'
  <2>1. env' \in [Threads -> Profiles \cup {NoProfile}]
    BY <1>10 DEF Entry, LocalTypes, SharedTypes
  <2>2. pc' \in [Threads -> Points]
    BY <1>10 DEF Entry, Goto, LocalTypes, Points, Locked, Body, InChunk
  <2>3. QED
    BY <1>10, <2>1, <2>2 DEF Entry, LocalTypes
<1>11. ASSUME NEW t \in Threads, TickProtect(t) PROVE LocalTypes'
  BY <1>11 DEF TickProtect, Goto, LocalTypes, Points, Locked, Body, InChunk
<1>12. ASSUME NEW t \in Threads, ChunkEnd(t) PROVE LocalTypes'
  <2>1. pc' \in [Threads -> Points] /\ todo' \in [Threads -> Seq(Stages)]
    BY <1>12, NextStageStep DEF ChunkEnd, Serving, Stages, InChunk
  <2>2. QED
    BY <1>12, <2>1 DEF ChunkEnd, LocalTypes
<1>13. ASSUME NEW t \in Threads, Settle(t) PROVE LocalTypes'
  <2>1. pc' \in [Threads -> Points] /\ todo' \in [Threads -> Seq(Stages)]
    BY <1>13, NextStageStep DEF Settle, Serving, Stages, InChunk
  <2>2. QED
    BY <1>13, <2>1 DEF Settle, LocalTypes
<1>14. ASSUME NEW t \in Threads, Gate(t) PROVE LocalTypes'
  <2>1. PICK q \in Seq(Stages) : Proceed(t, q)
    BY <1>14, SomeStages
  <2>2. pc' \in [Threads -> Points] /\ todo' \in [Threads -> Seq(Stages)]
    BY <2>1, ProceedStep
  <2>3. QED
    BY <1>14, <2>2 DEF Gate, LocalTypes
<1>15. ASSUME NEW t \in Threads, Raise(t) PROVE LocalTypes'
  <2>1. PICK q \in Seq(Stages) : Proceed(t, q)
    BY <1>15, SomeStages
  <2>2. pc' \in [Threads -> Points] /\ todo' \in [Threads -> Seq(Stages)]
    BY <2>1, ProceedStep
  <2>3. QED
    BY <1>15, <2>2 DEF Raise, LocalTypes
<1>16. ASSUME NEW l \in Loops, Loop(l) PROVE LocalTypes'
  BY <1>16 DEF Loop, LoopTop, LoopLock, LoopWrite, LoopReadRaises, LoopCrash,
               LocalTypes, localVars
<1>. USE ServerAssumption DEF serverVars, loopVars, localVars, LocalTypes, Points,
           Locked, Body, Stages, InChunk, TearDown
<1>17. ASSUME NEW t \in Threads,
               CheckLease(t) \/ Grant(t) \/ AfterGrant(t) \/ Drop(t)
        PROVE  LocalTypes'
  BY <1>17, ReturnStep, MoveStep DEF CheckLease, Grant, AfterGrant, Drop
<1>18. ASSUME NEW t \in Threads,
               RestLock(t) \/ Rest(t) \/ Kill(t) \/ Join(t) \/ FinLock(t)
        PROVE  LocalTypes'
  BY <1>18, ReturnStep, MoveStep DEF RestLock, Rest, Kill, Join, FinLock
<1>19. ASSUME NEW t \in Threads,
               Request(t) \/ StopHalt(t) \/ StopBusy(t) \/ DownFlag(t) \/
               Down(t)
        PROVE  LocalTypes'
  BY <1>19, ReturnStep, MoveStep DEF Request, StopHalt, StopBusy, DownFlag,
     Down
<1>20. ASSUME NEW t \in Threads,
               SetProfile(t) \/ BootLock(t) \/ Boot(t) \/ BootRaises(t) \/
               Aim(t)
        PROVE  LocalTypes'
  BY <1>20, ReturnStep, MoveStep DEF SetProfile, BootLock, Boot, BootRaises,
     Aim
<1>21. ASSUME NEW t \in Threads,
               MotionLock(t) \/ HoldCheck(t) \/ Unpin(t) \/ MotionUnlock(t)
        PROVE  LocalTypes'
  BY <1>21, ReturnStep, MoveStep DEF MotionLock, HoldCheck, Unpin,
     MotionUnlock
<1>22. ASSUME NEW t \in Threads,
               Arm(t) \/ TickCancel(t) \/ TickStream(t) \/ Stream(t)
        PROVE  LocalTypes'
  BY <1>22, ReturnStep, MoveStep DEF Arm, TickCancel, TickStream, Stream
<1>23. ASSUME Clock \/ \E t \in Threads : Heartbeat(t) \/ GetState(t)
        PROVE  LocalTypes'
  BY <1>23 DEF Clock, Heartbeat, GetState
<1>24. ASSUME NEW t \in Threads, NEW m \in Methods, Receive(t, m)
        PROVE  LocalTypes'
  BY <1>24 DEF Receive, First, Leased, Motions, Methods, Goto
<1>25. CASE UNCHANGED vars
  BY <1>25 DEF vars
<1>26. QED
  BY <1>1, <1>2, <1>3, <1>4, <1>5, <1>6, <1>7, <1>8, <1>9, <1>10, <1>11,
     <1>12, <1>13, <1>14, <1>15, <1>16, <1>17, <1>18, <1>19, <1>20, <1>21,
     <1>22, <1>23, <1>24, <1>25 DEF Next, Handler, Mover

\* A step keeps what a thread serves.
LEMMA ServingStep == ASSUME Ind, [Next]_vars PROVE Serving'
<1>. SharedTypes /\ LocalTypes /\ Serving /\ LockDiscipline /\ SlotFree /\ EnvInChunk
  BY DEF Ind
<1>1. ASSUME NEW t \in Threads, CheckLease(t) PROVE Serving'
  <2>1. CASE Return(t)
    BY <2>1, ReturnServes
  <2>2. CASE Move(t, "renew")
    <3>1. rpc[t] \in Leased
      BY <1>1 DEF CheckLease, Serving
    <3>2. /\ "renew" \in Points
          /\ "renew" \notin {"check", "held", "pin"} \cup Stages \cup InChunk
          /\ ("renew" = "lock" => rpc[t] \in Motions)
      BY <3>1 DEF Points, Locked, Body, Stages, InChunk, TearDown
    <3>3. pc' = [pc EXCEPT ![t] = "renew"] /\ UNCHANGED <<rpc, todo>>
      BY <2>2, <3>2, MoveStep
    <3>4. QED
      BY <3>1, <3>2, <3>3 DEF Serving, LocalTypes
  <2>3. QED
    BY <1>1, <2>1, <2>2 DEF CheckLease
<1>2. ASSUME NEW t \in Threads, RenewLease(t) PROVE Serving'
  <2>1. CASE Return(t)
    BY <2>1, ReturnServes
  <2>2. CASE Move(t, AfterLease(rpc[t]))
    <3>1. rpc[t] \in Leased
      BY <1>2 DEF RenewLease, Serving
    <3>2. /\ AfterLease(rpc[t]) \in Points
          /\ AfterLease(rpc[t]) \notin {"check", "held", "pin"} \cup Stages \cup InChunk
          /\ (AfterLease(rpc[t]) = "lock" => rpc[t] \in Motions)
      BY <3>1, AfterLeaseType DEF Points, Locked, Body, Stages, InChunk, TearDown
    <3>3. pc' = [pc EXCEPT ![t] = AfterLease(rpc[t])] /\ UNCHANGED <<rpc, todo>>
      BY <2>2, <3>2, MoveStep
    <3>4. QED
      BY <3>1, <3>2, <3>3 DEF Serving, LocalTypes
  <2>3. QED
    BY <1>2, <2>1, <2>2 DEF RenewLease
<1>3. ASSUME NEW t \in Threads, Grant(t) PROVE Serving'
  <2>1. PICK p \in Plain : pc' = [pc EXCEPT ![t] = p]
    BY <1>3, ReturnStep, MoveStep DEF Grant, Plain, Points, Locked, Body, Stages,
       InChunk, TearDown
  <2>2. PICK r, q : rpc' = [rpc EXCEPT ![t] = r] /\ todo' = [todo EXCEPT ![t] = q]
    BY <1>3, ReturnStep, MoveStep DEF Grant, LocalTypes, localVars, Points,
       Locked, Body, Stages, InChunk, TearDown
  <2>3. QED
    BY <2>1, <2>2, ServesPlainly
<1>4. ASSUME NEW t \in Threads, AfterGrant(t) PROVE Serving'
  <2>1. PICK p \in Plain : pc' = [pc EXCEPT ![t] = p]
    BY <1>4, ReturnStep, MoveStep DEF AfterGrant, Plain, Points, Locked, Body,
       Stages, InChunk, TearDown
  <2>2. PICK r, q : rpc' = [rpc EXCEPT ![t] = r] /\ todo' = [todo EXCEPT ![t] = q]
    BY <1>4, ReturnStep, MoveStep DEF AfterGrant, LocalTypes, localVars, Points,
       Locked, Body, Stages, InChunk, TearDown
  <2>3. QED
    BY <2>1, <2>2, ServesPlainly
<1>5. ASSUME NEW t \in Threads, Drop(t) PROVE Serving'
  <2>1. PICK p \in Plain : pc' = [pc EXCEPT ![t] = p]
    BY <1>5, ReturnStep, MoveStep DEF Drop, Plain, Points, Locked, Body, Stages,
       InChunk, TearDown
  <2>2. PICK r, q : rpc' = [rpc EXCEPT ![t] = r] /\ todo' = [todo EXCEPT ![t] = q]
    BY <1>5, ReturnStep, MoveStep DEF Drop, LocalTypes, Points, Locked, Body,
       Stages, InChunk, TearDown
  <2>3. QED
    BY <2>1, <2>2, ServesPlainly
<1>6. ASSUME NEW t \in Threads, Pop(t) PROVE Serving'
  <2>1. PICK p \in Plain : pc' = [pc EXCEPT ![t] = p]
    BY <1>6, TakeSlotStep DEF Pop, Plain, Points, Locked, Body, Stages, InChunk,
       TearDown
  <2>2. PICK r, q : rpc' = [rpc EXCEPT ![t] = r] /\ todo' = [todo EXCEPT ![t] = q]
    BY <1>6, TakeSlotStep DEF Pop, LocalTypes, Points, Locked, Body, Stages,
       InChunk, TearDown
  <2>3. QED
    BY <2>1, <2>2, ServesPlainly
<1>7. ASSUME NEW t \in Threads, Fin(t) PROVE Serving'
  <2>1. PICK p \in Plain : pc' = [pc EXCEPT ![t] = p]
    BY <1>7, TearDownStep, ReturnStep, MoveStep DEF Fin, Plain, Points, Locked,
       Body, Stages, InChunk, TearDown
  <2>2. PICK r, q : rpc' = [rpc EXCEPT ![t] = r] /\ todo' = [todo EXCEPT ![t] = q]
    BY <1>7, TearDownStep, ReturnStep, MoveStep DEF Fin, LocalTypes, Points,
       Locked, Body, Stages, InChunk, TearDown
  <2>3. QED
    BY <2>1, <2>2, ServesPlainly
<1>8. ASSUME NEW t \in Threads, StopPop(t) PROVE Serving'
  <2>1. PICK p \in Plain : pc' = [pc EXCEPT ![t] = p]
    BY <1>8, TakeSlotStep DEF StopPop, Plain, Points, Locked, Body, Stages,
       InChunk, TearDown
  <2>2. PICK r, q : rpc' = [rpc EXCEPT ![t] = r] /\ todo' = [todo EXCEPT ![t] = q]
    BY <1>8, TakeSlotStep DEF StopPop, LocalTypes, Points, Locked, Body, Stages,
       InChunk, TearDown
  <2>3. QED
    BY <2>1, <2>2, ServesPlainly
<1>9. ASSUME NEW t \in Threads, SetProfile(t) PROVE Serving'
  <2>1. PICK p \in Plain : pc' = [pc EXCEPT ![t] = p]
    BY <1>9, ReturnStep, MoveStep DEF SetProfile, Plain, Points, Locked, Body,
       Stages, InChunk, TearDown
  <2>2. PICK r, q : rpc' = [rpc EXCEPT ![t] = r] /\ todo' = [todo EXCEPT ![t] = q]
    BY <1>9, ReturnStep, MoveStep DEF SetProfile, LocalTypes, localVars, Points,
       Locked, Body, Stages, InChunk, TearDown
  <2>3. QED
    BY <2>1, <2>2, ServesPlainly
<1>10. ASSUME NEW t \in Threads, ReadSlot(t) PROVE Serving'
  <2>1. CASE Return(t)
    BY <2>1, ReturnServes
  <2>2. CASE ~Return(t)
    BY <1>10, <2>2 DEF ReadSlot, Goto, Serving, LocalTypes, Stages, InChunk
  <2>3. QED
    BY <2>1, <2>2
<1>11. ASSUME NEW t \in Threads, Aim(t) PROVE Serving'
  <2>1. PICK p \in Plain : pc' = [pc EXCEPT ![t] = p]
    BY <1>11, ReturnStep, MoveStep DEF Aim, Plain, Points, Locked, Body, Stages,
       InChunk, TearDown
  <2>2. PICK r, q : rpc' = [rpc EXCEPT ![t] = r] /\ todo' = [todo EXCEPT ![t] = q]
    BY <1>11, ReturnStep, MoveStep DEF Aim, LocalTypes, localVars, Points,
       Locked, Body, Stages, InChunk, TearDown
  <2>3. QED
    BY <2>1, <2>2, ServesPlainly
<1>12. ASSUME NEW t \in Threads, Pin(t) PROVE Serving'
  <2>1. PICK q \in Seq(Stages) : Proceed(t, q)
    BY <1>12, SomeStages
  <2>2. PICK p \in Stages \cup {"unpin"} : pc' = [pc EXCEPT ![t] = p] /\ (p \in Stages => q # <<>>)
    BY <2>1, ProceedStep
  <2>3. todo' = [todo EXCEPT ![t] = q]
    BY <2>1, ProceedStep
  <2>4. QED
    BY <1>12, <2>2, <2>3, ServesStage DEF Pin
<1>13. ASSUME NEW t \in Threads, Call(t) PROVE Serving'
  <2>1. PICK p \in Stages \cup {"unpin"} :
               pc' = [pc EXCEPT ![t] = p] /\ (p \in Stages => todo'[t] # <<>>)
    BY <1>13, NextStageStep DEF Call, Serving, Stages, InChunk
  <2>2. todo' = [todo EXCEPT ![t] = todo'[t]]
    BY <1>13, NextStageStep DEF Call, Serving, Stages, InChunk
  <2>3. QED
    BY <1>13, <2>1, <2>2, ServesStage DEF Call
<1>14. ASSUME NEW t \in Threads, EntryAbort(t) PROVE Serving'
  <2>1. PICK p \in Stages \cup {"unpin"} :
               pc' = [pc EXCEPT ![t] = p] /\ (p \in Stages => todo'[t] # <<>>)
    BY <1>14, NextStageStep DEF EntryAbort, Serving, Stages, InChunk
  <2>2. todo' = [todo EXCEPT ![t] = todo'[t]]
    BY <1>14, NextStageStep DEF EntryAbort, Serving, Stages, InChunk
  <2>3. QED
    BY <1>14, <2>1, <2>2, ServesStage DEF EntryAbort
<1>15. ASSUME NEW t \in Threads, ChunkEnd(t) PROVE Serving'
  <2>1. PICK p \in Stages \cup {"unpin"} :
               pc' = [pc EXCEPT ![t] = p] /\ (p \in Stages => todo'[t] # <<>>)
    BY <1>15, NextStageStep DEF ChunkEnd, Serving, Stages, InChunk
  <2>2. todo' = [todo EXCEPT ![t] = todo'[t]]
    BY <1>15, NextStageStep DEF ChunkEnd, Serving, Stages, InChunk
  <2>3. QED
    BY <1>15, <2>1, <2>2, ServesStage DEF ChunkEnd
<1>16. ASSUME NEW t \in Threads, Settle(t) PROVE Serving'
  <2>1. PICK p \in Stages \cup {"unpin"} :
               pc' = [pc EXCEPT ![t] = p] /\ (p \in Stages => todo'[t] # <<>>)
    BY <1>16, NextStageStep DEF Settle, Serving, Stages, InChunk
  <2>2. todo' = [todo EXCEPT ![t] = todo'[t]]
    BY <1>16, NextStageStep DEF Settle, Serving, Stages, InChunk
  <2>3. QED
    BY <1>16, <2>1, <2>2, ServesStage DEF Settle
<1>17. ASSUME NEW t \in Threads, Gate(t) PROVE Serving'
  <2>1. PICK q \in Seq(Stages) : Proceed(t, q)
    BY <1>17, SomeStages
  <2>2. PICK p \in Stages \cup {"unpin"} : pc' = [pc EXCEPT ![t] = p] /\ (p \in Stages => q # <<>>)
    BY <2>1, ProceedStep
  <2>3. todo' = [todo EXCEPT ![t] = q]
    BY <2>1, ProceedStep
  <2>4. QED
    BY <1>17, <2>2, <2>3, ServesStage DEF Gate
<1>18. ASSUME NEW t \in Threads, Raise(t) PROVE Serving'
  <2>1. PICK q \in Seq(Stages) : Proceed(t, q)
    BY <1>18, SomeStages
  <2>2. PICK p \in Stages \cup {"unpin"} : pc' = [pc EXCEPT ![t] = p] /\ (p \in Stages => q # <<>>)
    BY <2>1, ProceedStep
  <2>3. todo' = [todo EXCEPT ![t] = q]
    BY <2>1, ProceedStep
  <2>4. QED
    BY <1>18, <2>2, <2>3, ServesStage DEF Raise
<1>. USE ServerAssumption DEF serverVars, loopVars, localVars, Lock, Unlock, Goto, Move,
           Return, Ind, LocalTypes, Points, Locked, Body, Stages,
           InChunk, TearDown, Serving, AfterLease, Motions, Leased
<1>19. ASSUME NEW t \in Threads,
               ReadPrev(t)
        PROVE  Serving'
  BY <1>19 DEF ReadPrev
<1>20. ASSUME NEW t \in Threads,
               RestLock(t) \/ Rest(t) \/ Kill(t) \/ Join(t) \/ FinLock(t)
        PROVE  Serving'
  BY <1>20 DEF RestLock, Rest, Kill, Join, FinLock
<1>21. ASSUME NEW t \in Threads,
               Request(t) \/ StopHalt(t) \/ StopBusy(t) \/ DownFlag(t) \/
               Down(t)
        PROVE  Serving'
  BY <1>21 DEF Request, StopHalt, StopBusy, DownFlag, Down
<1>22. ASSUME NEW t \in Threads,
               BootLock(t) \/ Boot(t)
        PROVE  Serving'
  BY <1>22 DEF BootLock, Boot
<1>23. ASSUME NEW t \in Threads,
               BootRaises(t)
        PROVE  Serving'
  BY <1>23 DEF BootRaises
<1>24. ASSUME NEW t \in Threads,
               MotionLock(t) \/ HoldCheck(t)
        PROVE  Serving'
  BY <1>24 DEF MotionLock, HoldCheck
<1>25. ASSUME NEW t \in Threads,
               Unpin(t) \/ MotionUnlock(t)
        PROVE  Serving'
  BY <1>25 DEF Unpin, MotionUnlock
<1>26. ASSUME NEW t \in Threads,
               Entry(t) \/ Arm(t) \/ TickCancel(t) \/ TickProtect(t)
        PROVE  Serving'
  BY <1>26 DEF Entry, Arm, TickCancel, TickProtect
<1>27. ASSUME NEW t \in Threads,
               TickStream(t) \/ Stream(t)
        PROVE  Serving'
  BY <1>27 DEF TickStream, Stream
<1>28. ASSUME NEW l \in Loops, Loop(l) PROVE Serving'
  BY <1>28 DEF Loop, LoopTop, LoopLock, LoopWrite, LoopReadRaises, LoopCrash
<1>29. ASSUME Clock \/ \E t \in Threads : Heartbeat(t) \/ GetState(t)
        PROVE  Serving'
  BY <1>29 DEF Clock, Heartbeat, GetState
<1>30. ASSUME NEW t \in Threads, NEW m \in Methods, Receive(t, m)
        PROVE  Serving'
  BY <1>30 DEF Receive, First, Leased, Motions, Methods, Goto
<1>31. CASE UNCHANGED vars
  BY <1>31 DEF vars
<1>32. QED
  BY <1>1, <1>2, <1>3, <1>4, <1>5, <1>6, <1>7, <1>8, <1>9, <1>10, <1>11,
     <1>12, <1>13, <1>14, <1>15, <1>16, <1>17, <1>18, <1>19, <1>20, <1>21,
     <1>22, <1>23, <1>24, <1>25, <1>26, <1>27, <1>28, <1>29, <1>30, <1>31 DEF Next, Handler, Mover

\* A step keeps the discipline of the robot lock.
LEMMA LockStep == ASSUME Ind, [Next]_vars PROVE LockDiscipline'
<1>. SharedTypes /\ LocalTypes /\ Serving /\ LockDiscipline /\ SlotFree /\ EnvInChunk
  BY DEF Ind
<1>1. ASSUME NEW t \in Threads, CheckLease(t) PROVE LockDiscipline'
  <2>1. PICK p \in Points \ Locked : pc' = [pc EXCEPT ![t] = p]
    BY <1>1, ReturnStep, MoveStep DEF CheckLease, Points, Locked, Body, Stages,
       InChunk, TearDown
  <2>2. pc[t] \notin Locked /\ UNCHANGED <<robotLock, loopPc>>
    BY <1>1 DEF CheckLease, serverVars, loopVars, Points, Locked, Body, Stages,
       InChunk, TearDown
  <2>3. QED
    BY <2>1, <2>2, LockKept
<1>2. ASSUME NEW t \in Threads, RenewLease(t) PROVE LockDiscipline'
  <2>1. PICK p \in Points \ Locked : pc' = [pc EXCEPT ![t] = p]
    BY <1>2, ReturnStep, MoveStep, AfterLeaseType DEF RenewLease, Serving,
       Points, Locked, Body, Stages, InChunk, TearDown
  <2>2. pc[t] \notin Locked /\ UNCHANGED <<robotLock, loopPc>>
    BY <1>2 DEF RenewLease, serverVars, loopVars, Points, Locked, Body, Stages,
       InChunk, TearDown
  <2>3. QED
    BY <2>1, <2>2, LockKept
<1>3. ASSUME NEW t \in Threads, Grant(t) PROVE LockDiscipline'
  <2>1. PICK p \in Points \ Locked : pc' = [pc EXCEPT ![t] = p]
    BY <1>3, ReturnStep, MoveStep DEF Grant, Points, Locked, Body, Stages,
       InChunk, TearDown
  <2>2. pc[t] \notin Locked /\ UNCHANGED <<robotLock, loopPc>>
    BY <1>3 DEF Grant, serverVars, loopVars, Points, Locked, Body, Stages,
       InChunk, TearDown
  <2>3. QED
    BY <2>1, <2>2, LockKept
<1>4. ASSUME NEW t \in Threads, Drop(t) PROVE LockDiscipline'
  <2>1. PICK p \in Points \ Locked : pc' = [pc EXCEPT ![t] = p]
    BY <1>4, ReturnStep, MoveStep DEF Drop, Points, Locked, Body, Stages,
       InChunk, TearDown
  <2>2. pc[t] \notin Locked /\ UNCHANGED <<robotLock, loopPc>>
    BY <1>4 DEF Drop, serverVars, loopVars, Points, Locked, Body, Stages,
       InChunk, TearDown
  <2>3. QED
    BY <2>1, <2>2, LockKept
<1>5. ASSUME NEW t \in Threads, Pop(t) PROVE LockDiscipline'
  <2>1. PICK p \in Points \ Locked : pc' = [pc EXCEPT ![t] = p]
    BY <1>5, TakeSlotStep DEF Pop, Points, Locked, Body, Stages, InChunk, TearDown
  <2>2. pc[t] \notin Locked /\ UNCHANGED <<robotLock, loopPc>>
    BY <1>5 DEF Pop, serverVars, loopVars, Points, Locked, Body, Stages, InChunk,
       TearDown
  <2>3. QED
    BY <2>1, <2>2, LockKept
<1>6. ASSUME NEW t \in Threads, Fin(t) PROVE LockDiscipline'
  <2>1. PICK p \in Points \ Locked : pc' = [pc EXCEPT ![t] = p]
    BY <1>6, TearDownStep, ReturnStep, MoveStep DEF Fin, Points, Locked, Body,
       Stages, InChunk, TearDown
  <2>2. pc[t] \in Locked /\ robotLock' = Free /\ UNCHANGED loopPc
    BY <1>6 DEF Fin, Unlock, loopVars, Points, Locked, Body, Stages, InChunk, TearDown
  <2>3. QED
    BY <2>1, <2>2, LockGiven
<1>7. ASSUME NEW t \in Threads, StopPop(t) PROVE LockDiscipline'
  <2>1. PICK p \in Points \ Locked : pc' = [pc EXCEPT ![t] = p]
    BY <1>7, TakeSlotStep DEF StopPop, Points, Locked, Body, Stages, InChunk, TearDown
  <2>2. pc[t] \notin Locked /\ UNCHANGED <<robotLock, loopPc>>
    BY <1>7 DEF StopPop, serverVars, loopVars, Points, Locked, Body, Stages,
       InChunk, TearDown
  <2>3. QED
    BY <2>1, <2>2, LockKept
<1>8. ASSUME NEW t \in Threads, Pin(t) PROVE LockDiscipline'
  <2>1. PICK q \in Seq(Stages) : Proceed(t, q)
    BY <1>8, SomeStages
  <2>2. PICK p \in Stages \cup {"unpin"} : pc' = [pc EXCEPT ![t] = p]
    BY <2>1, ProceedStep
  <2>3. pc[t] \in Locked /\ UNCHANGED <<robotLock, loopPc>>
    BY <1>8 DEF Pin, serverVars, loopVars, Points, Locked, Body, Stages, InChunk,
       TearDown
  <2>4. QED
    BY <2>2, <2>3, LockKept DEF Points, Locked, Body
<1>9. ASSUME NEW t \in Threads, Call(t) PROVE LockDiscipline'
  <2>1. PICK p \in Stages \cup {"unpin"} : pc' = [pc EXCEPT ![t] = p]
    BY <1>9, NextStageStep DEF Call, Serving, InChunk, Stages
  <2>2. pc[t] \in Locked /\ UNCHANGED <<robotLock, loopPc>>
    BY <1>9 DEF Call, serverVars, loopVars, Points, Locked, Body, Stages,
       InChunk, TearDown
  <2>3. QED
    BY <2>1, <2>2, LockKept DEF Points, Locked, Body
<1>10. ASSUME NEW t \in Threads, EntryAbort(t) PROVE LockDiscipline'
  <2>1. PICK p \in Stages \cup {"unpin"} : pc' = [pc EXCEPT ![t] = p]
    BY <1>10, NextStageStep DEF EntryAbort, Serving, InChunk, Stages
  <2>2. pc[t] \in Locked /\ UNCHANGED <<robotLock, loopPc>>
    BY <1>10 DEF EntryAbort, serverVars, loopVars, Points, Locked, Body, Stages,
       InChunk, TearDown
  <2>3. QED
    BY <2>1, <2>2, LockKept DEF Points, Locked, Body
<1>11. ASSUME NEW t \in Threads, ChunkEnd(t) PROVE LockDiscipline'
  <2>1. PICK p \in Stages \cup {"unpin"} : pc' = [pc EXCEPT ![t] = p]
    BY <1>11, NextStageStep DEF ChunkEnd, Serving, InChunk, Stages
  <2>2. pc[t] \in Locked /\ UNCHANGED <<robotLock, loopPc>>
    BY <1>11 DEF ChunkEnd, serverVars, loopVars, Points, Locked, Body, Stages,
       InChunk, TearDown
  <2>3. QED
    BY <2>1, <2>2, LockKept DEF Points, Locked, Body
<1>12. ASSUME NEW t \in Threads, Settle(t) PROVE LockDiscipline'
  <2>1. PICK p \in Stages \cup {"unpin"} : pc' = [pc EXCEPT ![t] = p]
    BY <1>12, NextStageStep DEF Settle, Serving, InChunk, Stages
  <2>2. pc[t] \in Locked /\ UNCHANGED <<robotLock, loopPc>>
    BY <1>12 DEF Settle, serverVars, loopVars, Points, Locked, Body, Stages,
       InChunk, TearDown
  <2>3. QED
    BY <2>1, <2>2, LockKept DEF Points, Locked, Body
<1>13. ASSUME NEW t \in Threads, Gate(t) PROVE LockDiscipline'
  <2>1. PICK q \in Seq(Stages) : Proceed(t, q)
    BY <1>13, SomeStages
  <2>2. PICK p \in Stages \cup {"unpin"} : pc' = [pc EXCEPT ![t] = p]
    BY <2>1, ProceedStep
  <2>3. pc[t] \in Locked /\ UNCHANGED <<robotLock, loopPc>>
    BY <1>13 DEF Gate, serverVars, loopVars, Points, Locked, Body, Stages,
       InChunk, TearDown
  <2>4. QED
    BY <2>2, <2>3, LockKept DEF Points, Locked, Body
<1>14. ASSUME NEW t \in Threads, Raise(t) PROVE LockDiscipline'
  <2>1. PICK q \in Seq(Stages) : Proceed(t, q)
    BY <1>14, SomeStages
  <2>2. PICK p \in Stages \cup {"unpin"} : pc' = [pc EXCEPT ![t] = p]
    BY <2>1, ProceedStep
  <2>3. pc[t] \in Locked /\ UNCHANGED <<robotLock, loopPc>>
    BY <1>14 DEF Raise, serverVars, loopVars, Points, Locked, Body, Stages,
       InChunk, TearDown
  <2>4. QED
    BY <2>2, <2>3, LockKept DEF Points, Locked, Body
<1>15. ASSUME NEW l \in Loops, Loop(l) PROVE LockDiscipline'
  BY <1>15, ServerAssumption
     DEF Loop, LoopTop, LoopLock, LoopWrite, LoopReadRaises, LoopCrash, LockDiscipline,
         SharedTypes, LocalTypes, LoopPoints, serverVars, loopVars, localVars
<1>. USE ServerAssumption DEF serverVars, loopVars, localVars, Lock, Unlock, Goto, Move,
           Return, Ind, LocalTypes, Points, Locked, Body, Stages,
           InChunk, TearDown, LockDiscipline, SharedTypes, Serving,
           Unused
<1>16. ASSUME NEW t \in Threads,
               ReadPrev(t)
        PROVE  LockDiscipline'
  BY <1>16 DEF ReadPrev
<1>17. ASSUME NEW t \in Threads,
               AfterGrant(t)
        PROVE  LockDiscipline'
  BY <1>17 DEF AfterGrant
<1>18. ASSUME NEW t \in Threads,
               RestLock(t) \/ Rest(t) \/ Kill(t) \/ Join(t) \/ FinLock(t)
        PROVE  LockDiscipline'
  BY <1>18 DEF RestLock, Rest, Kill, Join, FinLock
<1>19. ASSUME NEW t \in Threads,
               Request(t) \/ StopHalt(t) \/ StopBusy(t) \/ DownFlag(t) \/
               Down(t)
        PROVE  LockDiscipline'
  BY <1>19 DEF Request, StopHalt, StopBusy, DownFlag, Down
<1>20. ASSUME NEW t \in Threads,
               SetProfile(t) \/ BootLock(t) \/ Boot(t) \/ BootRaises(t) \/
               ReadSlot(t) \/ Aim(t)
        PROVE  LockDiscipline'
  BY <1>20 DEF SetProfile, BootLock, Boot, BootRaises, ReadSlot, Aim
<1>21. ASSUME NEW t \in Threads,
               MotionLock(t) \/ HoldCheck(t) \/ Unpin(t) \/ MotionUnlock(t)
        PROVE  LockDiscipline'
  BY <1>21 DEF MotionLock, HoldCheck, Unpin, MotionUnlock
<1>22. ASSUME NEW t \in Threads,
               Entry(t) \/ Arm(t) \/ TickCancel(t) \/ TickProtect(t) \/
               TickStream(t) \/ Stream(t)
        PROVE  LockDiscipline'
  BY <1>22 DEF Entry, Arm, TickCancel, TickProtect, TickStream, Stream
<1>23. ASSUME Clock \/ \E t \in Threads : Heartbeat(t) \/ GetState(t)
        PROVE  LockDiscipline'
  BY <1>23 DEF Clock, Heartbeat, GetState
<1>24. ASSUME NEW t \in Threads, NEW m \in Methods, Receive(t, m)
        PROVE  LockDiscipline'
  BY <1>24 DEF Receive, First, Leased, Motions, Methods
<1>25. CASE UNCHANGED vars
  BY <1>25 DEF vars
<1>26. QED
  BY <1>1, <1>2, <1>3, <1>4, <1>5, <1>6, <1>7, <1>8, <1>9, <1>10, <1>11,
     <1>12, <1>13, <1>14, <1>15, <1>16, <1>17, <1>18, <1>19, <1>20, <1>21,
     <1>22, <1>23, <1>24, <1>25 DEF Next, Handler, Mover

\* A step keeps the slot empty while a motion runs.
LEMMA SlotStep == ASSUME Ind, [Next]_vars PROVE SlotFree'
<1>. USE ServerAssumption DEF serverVars, loopVars, localVars, Lock, Unlock, Goto, Move,
           Return, Ind, LocalTypes, Points, Locked, Body, Stages,
           InChunk, TearDown, SlotFree, SharedTypes, AfterLease,
           Serving, Leased, Motions, TakeSlot, AfterTearDown,
           NextStage, Proceed, LockDiscipline
<1>1. ASSUME NEW t \in Threads,
               CheckLease(t) \/ RenewLease(t) \/ ReadPrev(t) \/ Grant(t) \/
               AfterGrant(t) \/ Drop(t)
        PROVE  SlotFree'
  BY <1>1, PlanType DEF CheckLease, RenewLease, ReadPrev, Grant, AfterGrant,
     Drop
<1>2. ASSUME NEW t \in Threads,
               RestLock(t) \/ Rest(t) \/ Pop(t) \/ Kill(t) \/ Join(t) \/
               FinLock(t) \/ Fin(t)
        PROVE  SlotFree'
  BY <1>2, PlanType DEF RestLock, Rest, Pop, Kill, Join, FinLock, Fin
<1>3. ASSUME NEW t \in Threads,
               Request(t) \/ StopPop(t) \/ StopHalt(t) \/ StopBusy(t) \/
               DownFlag(t) \/ Down(t)
        PROVE  SlotFree'
  BY <1>3, PlanType DEF Request, StopPop, StopHalt, StopBusy, DownFlag, Down
<1>4. ASSUME NEW t \in Threads,
               SetProfile(t) \/ BootLock(t) \/ Boot(t) \/ BootRaises(t) \/
               ReadSlot(t) \/ Aim(t)
        PROVE  SlotFree'
  BY <1>4, PlanType DEF SetProfile, BootLock, Boot, BootRaises, ReadSlot, Aim
<1>5. ASSUME NEW t \in Threads,
               MotionLock(t) \/ HoldCheck(t) \/ Pin(t) \/ Unpin(t) \/
               MotionUnlock(t)
        PROVE  SlotFree'
  BY <1>5, PlanType DEF MotionLock, HoldCheck, Pin, Unpin, MotionUnlock
<1>6. ASSUME NEW t \in Threads,
               Call(t) \/ Settle(t) \/ Gate(t) \/ Raise(t) \/ EntryAbort(t)
        PROVE  SlotFree'
  BY <1>6, PlanType DEF Call, Settle, Gate, Raise, EntryAbort
<1>7. ASSUME NEW t \in Threads,
               Entry(t) \/ Arm(t) \/ TickCancel(t) \/ TickProtect(t) \/
               TickStream(t) \/ Stream(t) \/ ChunkEnd(t)
        PROVE  SlotFree'
  BY <1>7, PlanType DEF Entry, Arm, TickCancel, TickProtect, TickStream,
     Stream, ChunkEnd
<1>8. ASSUME NEW l \in Loops, Loop(l) PROVE SlotFree'
  BY <1>8 DEF Loop, LoopTop, LoopLock, LoopWrite, LoopReadRaises, LoopCrash
<1>9. ASSUME Clock \/ \E t \in Threads : Heartbeat(t) \/ GetState(t)
        PROVE  SlotFree'
  BY <1>9 DEF Clock, Heartbeat, GetState
<1>10. ASSUME NEW t \in Threads, NEW m \in Methods, Receive(t, m)
        PROVE  SlotFree'
  BY <1>10 DEF Receive, First, Leased, Motions, Methods
<1>11. CASE UNCHANGED vars
  BY <1>11 DEF vars
<1>12. QED
  BY <1>1, <1>2, <1>3, <1>4, <1>5, <1>6, <1>7, <1>8, <1>9, <1>10, <1>11 DEF Next,
     Handler, Mover

\* A step keeps the profile of a chunk in flight.
LEMMA EnvStep == ASSUME Ind, [Next]_vars PROVE EnvInChunk'
<1>. SharedTypes /\ LocalTypes /\ Serving /\ LockDiscipline /\ SlotFree /\ EnvInChunk
  BY DEF Ind
<1>1. ASSUME NEW t \in Threads, CheckLease(t) PROVE EnvInChunk'
  <2>1. PICK p \in Points : pc' = [pc EXCEPT ![t] = p]
    BY <1>1, ReturnStep, MoveStep DEF CheckLease, Points, Locked, Body, Stages,
       InChunk, TearDown
  <2>2. pc[t] \notin InChunk /\ UNCHANGED profile
    BY <1>1 DEF CheckLease, serverVars, loopVars, InChunk
  <2>3. UNCHANGED env \/ env' = [env EXCEPT ![t] = NoProfile]
    BY <1>1, ReturnStep, MoveStep DEF CheckLease, Points, Locked, Body, Stages,
       InChunk, TearDown
  <2>4. QED
    BY <2>1, <2>2, <2>3, EnvKept, EnvReset
<1>2. ASSUME NEW t \in Threads, Grant(t) PROVE EnvInChunk'
  <2>1. PICK p \in Points : pc' = [pc EXCEPT ![t] = p]
    BY <1>2, ReturnStep, MoveStep DEF Grant, Points, Locked, Body, Stages,
       InChunk, TearDown
  <2>2. pc[t] \notin InChunk /\ UNCHANGED profile
    BY <1>2 DEF Grant, serverVars, loopVars, InChunk
  <2>3. UNCHANGED env \/ env' = [env EXCEPT ![t] = NoProfile]
    BY <1>2, ReturnStep, MoveStep DEF Grant, Points, Locked, Body, Stages,
       InChunk, TearDown
  <2>4. QED
    BY <2>1, <2>2, <2>3, EnvKept, EnvReset
<1>3. ASSUME NEW t \in Threads, Drop(t) PROVE EnvInChunk'
  <2>1. PICK p \in Points : pc' = [pc EXCEPT ![t] = p]
    BY <1>3, ReturnStep, MoveStep DEF Drop, Points, Locked, Body, Stages,
       InChunk, TearDown
  <2>2. pc[t] \notin InChunk /\ UNCHANGED profile
    BY <1>3 DEF Drop, serverVars, loopVars, InChunk
  <2>3. UNCHANGED env \/ env' = [env EXCEPT ![t] = NoProfile]
    BY <1>3, ReturnStep, MoveStep DEF Drop, Points, Locked, Body, Stages,
       InChunk, TearDown
  <2>4. QED
    BY <2>1, <2>2, <2>3, EnvKept, EnvReset
<1>4. ASSUME NEW t \in Threads, Pop(t) PROVE EnvInChunk'
  <2>1. PICK p \in Points : pc' = [pc EXCEPT ![t] = p]
    BY <1>4, TakeSlotStep DEF Pop, Points, Locked, Body, Stages, InChunk, TearDown
  <2>2. pc[t] \notin InChunk /\ UNCHANGED profile
    BY <1>4 DEF Pop, serverVars, loopVars, InChunk
  <2>3. UNCHANGED env \/ env' = [env EXCEPT ![t] = NoProfile]
    BY <1>4, TakeSlotStep DEF Pop, Points, Locked, Body, Stages, InChunk, TearDown
  <2>4. QED
    BY <2>1, <2>2, <2>3, EnvKept, EnvReset
<1>5. ASSUME NEW t \in Threads, Fin(t) PROVE EnvInChunk'
  <2>1. PICK p \in Points : pc' = [pc EXCEPT ![t] = p]
    BY <1>5, TearDownStep, ReturnStep, MoveStep DEF Fin, Points, Locked, Body,
       Stages, InChunk, TearDown
  <2>2. pc[t] \notin InChunk /\ UNCHANGED profile
    BY <1>5 DEF Fin, serverVars, loopVars, InChunk
  <2>3. UNCHANGED env \/ env' = [env EXCEPT ![t] = NoProfile]
    BY <1>5, TearDownStep, ReturnStep, MoveStep DEF Fin, Points, Locked, Body,
       Stages, InChunk, TearDown
  <2>4. QED
    BY <2>1, <2>2, <2>3, EnvKept, EnvReset
<1>6. ASSUME NEW t \in Threads, StopPop(t) PROVE EnvInChunk'
  <2>1. PICK p \in Points : pc' = [pc EXCEPT ![t] = p]
    BY <1>6, TakeSlotStep DEF StopPop, Points, Locked, Body, Stages, InChunk, TearDown
  <2>2. pc[t] \notin InChunk /\ UNCHANGED profile
    BY <1>6 DEF StopPop, serverVars, loopVars, InChunk
  <2>3. UNCHANGED env \/ env' = [env EXCEPT ![t] = NoProfile]
    BY <1>6, TakeSlotStep DEF StopPop, Points, Locked, Body, Stages, InChunk, TearDown
  <2>4. QED
    BY <2>1, <2>2, <2>3, EnvKept, EnvReset
<1>7. ASSUME NEW t \in Threads, MotionLock(t) PROVE EnvInChunk'
  <2>1. PICK p \in Points : pc' = [pc EXCEPT ![t] = p]
    BY <1>7, ReturnStep, MoveStep DEF MotionLock, Points, Locked, Body, Stages,
       InChunk, TearDown
  <2>2. pc[t] \notin InChunk /\ UNCHANGED profile
    BY <1>7 DEF MotionLock, serverVars, loopVars, InChunk
  <2>3. UNCHANGED env \/ env' = [env EXCEPT ![t] = NoProfile]
    BY <1>7, ReturnStep, MoveStep DEF MotionLock, Points, Locked, Body, Stages,
       InChunk, TearDown
  <2>4. QED
    BY <2>1, <2>2, <2>3, EnvKept, EnvReset
<1>8. ASSUME NEW t \in Threads, HoldCheck(t) PROVE EnvInChunk'
  <2>1. PICK p \in Points : pc' = [pc EXCEPT ![t] = p]
    BY <1>8, ReturnStep, MoveStep DEF HoldCheck, Points, Locked, Body, Stages,
       InChunk, TearDown
  <2>2. pc[t] \notin InChunk /\ UNCHANGED profile
    BY <1>8 DEF HoldCheck, serverVars, loopVars, InChunk
  <2>3. UNCHANGED env \/ env' = [env EXCEPT ![t] = NoProfile]
    BY <1>8, ReturnStep, MoveStep DEF HoldCheck, Points, Locked, Body, Stages,
       InChunk, TearDown
  <2>4. QED
    BY <2>1, <2>2, <2>3, EnvKept, EnvReset
<1>9. ASSUME NEW t \in Threads, Pin(t) PROVE EnvInChunk'
  <2>1. PICK q \in Seq(Stages) : Proceed(t, q)
    BY <1>9, SomeStages
  <2>2. PICK p \in Points : pc' = [pc EXCEPT ![t] = p]
    BY <2>1, ProceedStep DEF Points, Locked, Body
  <2>3. QED
    BY <1>9, <2>2, EnvKept DEF Pin, serverVars, InChunk
<1>10. ASSUME NEW t \in Threads, Call(t) PROVE EnvInChunk'
  <2>1. PICK p \in Points : pc' = [pc EXCEPT ![t] = p]
    BY <1>10, NextStageStep DEF Call, Serving, Points, Locked, Body, Stages,
       InChunk, TearDown
  <2>2. pc[t] \notin InChunk /\ UNCHANGED <<env, profile>>
    BY <1>10 DEF Call, serverVars, Stages, InChunk
  <2>3. QED
    BY <2>1, <2>2, EnvKept
<1>11. ASSUME NEW t \in Threads, EntryAbort(t) PROVE EnvInChunk'
  <2>1. PICK p \in Points : pc' = [pc EXCEPT ![t] = p]
    BY <1>11, NextStageStep DEF EntryAbort, Serving, Points, Locked, Body,
       Stages, InChunk, TearDown
  <2>2. pc[t] \notin InChunk /\ UNCHANGED <<env, profile>>
    BY <1>11 DEF EntryAbort, serverVars, Stages, InChunk
  <2>3. QED
    BY <2>1, <2>2, EnvKept
<1>12. ASSUME NEW t \in Threads, ChunkEnd(t) PROVE EnvInChunk'
  <2>1. PICK p \in Points : pc' = [pc EXCEPT ![t] = p]
    BY <1>12, NextStageStep DEF ChunkEnd, Serving, Points, Locked, Body, Stages,
       InChunk, TearDown
  <2>2. QED
    BY <1>12, <2>1, EnvReset DEF ChunkEnd, serverVars
<1>13. ASSUME NEW t \in Threads, Settle(t) PROVE EnvInChunk'
  <2>1. PICK p \in Points : pc' = [pc EXCEPT ![t] = p]
    BY <1>13, NextStageStep DEF Settle, Serving, Points, Locked, Body, Stages,
       InChunk, TearDown
  <2>2. pc[t] \notin InChunk /\ UNCHANGED <<env, profile>>
    BY <1>13 DEF Settle, serverVars, Stages, InChunk
  <2>3. QED
    BY <2>1, <2>2, EnvKept
<1>14. ASSUME NEW t \in Threads, Gate(t) PROVE EnvInChunk'
  <2>1. PICK q \in Seq(Stages) : Proceed(t, q)
    BY <1>14, SomeStages
  <2>2. PICK p \in Points : pc' = [pc EXCEPT ![t] = p]
    BY <2>1, ProceedStep DEF Points, Locked, Body
  <2>3. QED
    BY <1>14, <2>2, EnvKept DEF Gate, serverVars, InChunk
<1>15. ASSUME NEW t \in Threads, Raise(t) PROVE EnvInChunk'
  <2>1. PICK q \in Seq(Stages) : Proceed(t, q)
    BY <1>15, SomeStages
  <2>2. PICK p \in Points : pc' = [pc EXCEPT ![t] = p]
    BY <2>1, ProceedStep DEF Points, Locked, Body
  <2>3. QED
    BY <1>15, <2>2, EnvReset DEF Raise, serverVars, InChunk
<1>. USE ServerAssumption DEF serverVars, loopVars, localVars, Lock, Unlock, Goto, Move,
           Return, Ind, LocalTypes, Points, Locked, Body, Stages,
           InChunk, TearDown, EnvInChunk, SharedTypes, Serving,
           LockDiscipline
<1>16. ASSUME NEW t \in Threads,
               RenewLease(t) \/ ReadPrev(t)
        PROVE  EnvInChunk'
  BY <1>16 DEF RenewLease, ReadPrev
<1>17. ASSUME NEW t \in Threads,
               AfterGrant(t)
        PROVE  EnvInChunk'
  BY <1>17 DEF AfterGrant
<1>18. ASSUME NEW t \in Threads,
               RestLock(t)
        PROVE  EnvInChunk'
  BY <1>18 DEF RestLock
<1>19. ASSUME NEW t \in Threads,
               Rest(t)
        PROVE  EnvInChunk'
  BY <1>19 DEF Rest
<1>20. ASSUME NEW t \in Threads,
               Kill(t)
        PROVE  EnvInChunk'
  BY <1>20 DEF Kill
<1>21. ASSUME NEW t \in Threads,
               Join(t) \/ FinLock(t)
        PROVE  EnvInChunk'
  BY <1>21 DEF Join, FinLock
<1>22. ASSUME NEW t \in Threads,
               Request(t) \/ StopHalt(t)
        PROVE  EnvInChunk'
  BY <1>22 DEF Request, StopHalt
<1>23. ASSUME NEW t \in Threads,
               StopBusy(t)
        PROVE  EnvInChunk'
  BY <1>23 DEF StopBusy
<1>24. ASSUME NEW t \in Threads,
               DownFlag(t) \/ Down(t)
        PROVE  EnvInChunk'
  BY <1>24 DEF DownFlag, Down
<1>25. ASSUME NEW t \in Threads,
               SetProfile(t) \/ BootLock(t) \/ Boot(t) \/ BootRaises(t) \/
               ReadSlot(t) \/ Aim(t)
        PROVE  EnvInChunk'
  BY <1>25 DEF SetProfile, BootLock, Boot, BootRaises, ReadSlot, Aim
<1>26. ASSUME NEW t \in Threads,
               Unpin(t)
        PROVE  EnvInChunk'
  BY <1>26 DEF Unpin
<1>27. ASSUME NEW t \in Threads,
               MotionUnlock(t)
        PROVE  EnvInChunk'
  BY <1>27 DEF MotionUnlock
<1>28. ASSUME NEW t \in Threads,
               Entry(t) \/ Arm(t)
        PROVE  EnvInChunk'
  BY <1>28 DEF Entry, Arm
<1>29. ASSUME NEW t \in Threads,
               TickCancel(t)
        PROVE  EnvInChunk'
  BY <1>29 DEF TickCancel
<1>30. ASSUME NEW t \in Threads,
               TickProtect(t)
        PROVE  EnvInChunk'
  BY <1>30 DEF TickProtect
<1>31. ASSUME NEW t \in Threads,
               TickStream(t)
        PROVE  EnvInChunk'
  BY <1>31 DEF TickStream
<1>32. ASSUME NEW t \in Threads,
               Stream(t)
        PROVE  EnvInChunk'
  BY <1>32 DEF Stream
<1>33. ASSUME NEW l \in Loops, Loop(l) PROVE EnvInChunk'
  BY <1>33 DEF Loop, LoopTop, LoopLock, LoopWrite, LoopReadRaises, LoopCrash
<1>34. ASSUME Clock \/ \E t \in Threads : Heartbeat(t) \/ GetState(t)
        PROVE  EnvInChunk'
  BY <1>34 DEF Clock, Heartbeat, GetState
<1>35. ASSUME NEW t \in Threads, NEW m \in Methods, Receive(t, m)
        PROVE  EnvInChunk'
  BY <1>35 DEF Receive, First, Leased, Motions, Methods
<1>36. CASE UNCHANGED vars
  BY <1>36 DEF vars
<1>37. QED
  BY <1>1, <1>2, <1>3, <1>4, <1>5, <1>6, <1>7, <1>8, <1>9, <1>10, <1>11,
     <1>12, <1>13, <1>14, <1>15, <1>16, <1>17, <1>18, <1>19, <1>20, <1>21,
     <1>22, <1>23, <1>24, <1>25, <1>26, <1>27, <1>28, <1>29, <1>30, <1>31,
     <1>32, <1>33, <1>34, <1>35, <1>36 DEF Next, Handler, Mover

-----------------------------------------------------------------------------
(* The inductive invariant and what follows from it *)

LEMMA Start == Init => Ind
<1>. SUFFICES ASSUME Init PROVE Ind
  OBVIOUS
<1>1. NoLease \in LeaseInfo
  BY LeaseAssumption DEF NoLease, LeaseInfo
<1>2. SharedTypes
  <2>1. /\ loopPc \in [Loops -> LoopPoints] /\ running \in [Loops -> BOOLEAN]
        /\ target \in [Loops -> Owners \cup {NoOwner}]
        /\ hit \in [Threads -> {"no", "hit", "late"}]
    BY DEF Init, LoopPoints
  <2>2. lease \in LeaseInfo /\ holds \in Int /\ profile \in Profiles
    BY <1>1 DEF Init
  <2>3. QED
    BY <2>1, <2>2 DEF Init, SharedTypes
<1>3. LocalTypes
  BY DEF Init, LocalTypes, Points
<1>4. Serving /\ SlotFree /\ EnvInChunk
  BY DEF Init, Serving, SlotFree, EnvInChunk, Body, Stages, InChunk
<1>5. LockDiscipline
  BY ServerAssumption DEF Init, LockDiscipline, Locked, Body, Stages, InChunk
<1>6. QED
  BY <1>2, <1>3, <1>4, <1>5 DEF Ind

LEMMA Inductive == Spec => []Ind
<1>1. Ind /\ [Next]_vars => Ind'
  BY SharedStep, LocalStep, ServingStep, LockStep, SlotStep, EnvStep DEF Ind
<1>2. QED
  BY Start, <1>1, PTL DEF Spec

\* The robot lock is held exactly where the code is between taking and giving
\* it, on every path and whoever raises (server.py:176-202, 423-452).
THEOREM LockDisciplined == Spec => []LockDiscipline
<1>1. Ind => LockDiscipline
  BY DEF Ind
<1>2. QED
  BY Inductive, <1>1, PTL

\* Backend calls of handlers and loops never overlap, but for the two that take
\* no lock (server.py:16-18, 424-428).
THEOREM WritersExclude == Spec => []LockedWritersExclusive
<1>1. Ind => LockedWritersExclusive
  <2> SUFFICES ASSUME Ind, NEW x \in Writing, NEW y \in Writing,
                      x \notin Unlocked, y \notin Unlocked
               PROVE  x = y
    BY DEF LockedWritersExclusive
  <2>1. \A z \in Writing \ Unlocked : robotLock = z
    <3> SUFFICES ASSUME NEW z \in Writing, z \notin Unlocked PROVE robotLock = z
      OBVIOUS
    <3>1. CASE z \in Threads /\ pc[z] \in ThreadWrites
      BY <3>1 DEF Ind, LockDiscipline, ThreadWrites, Unlocked, Locked, Body,
         Stages, InChunk
    <3>2. CASE z \in Loops /\ loopPc[z] \in LoopWrites
      BY <3>2 DEF Ind, LockDiscipline, LoopWrites, Unlocked
    <3>3. QED
      BY <3>1, <3>2 DEF Writing
  <2>2. QED
    BY <2>1
<1>2. QED
  BY Inductive, <1>1, PTL

\* No motion call runs while a servo loop is installed (server.py:180-185).
THEOREM LoopAndMotionExclude == Spec => []LoopExcludesMotion
<1>1. Ind => LoopExcludesMotion
  BY DEF Ind, SlotFree, LoopExcludesMotion
<1>2. QED
  BY Inductive, <1>1, PTL

\* A chunk ends under the profile it was admitted under (server.py:267-271).
THEOREM ChunkKeepsProfile == Spec => []ChunkProfileStable
<1>1. Ind => ChunkProfileStable
  BY DEF Ind, EnvInChunk, ChunkProfileStable
<1>2. QED
  BY Inductive, <1>1, PTL

-----------------------------------------------------------------------------
(* A motion keeps its lease.  What makes it true is that the server's calls   *)
(* never overlap in the body of lease.hold(): _holds is 1 while a motion runs *)
(* and 0 otherwise, so the sweep of whoever looks at the lease leaves a       *)
(* motion's lease alone.                                                      *)

\* _holds counts the one motion in its body, if there is one (lease.py:93-111).
Counted ==
  /\ \A t \in Threads : pc[t] \in Body => holds = 1
  /\ holds # 0 => \E t \in Threads : pc[t] \in Body

\* No thread enters the body of a motion or leaves it.
BodyKept ==
  /\ holds' = holds
  /\ \A t \in Threads : pc'[t] \in Body <=> pc[t] \in Body

-----------------------------------------------------------------------------
(* Only Pin enters the body of a motion and only Unpin leaves it *)

LEMMA KeptByMove ==
  ASSUME LocalTypes, NEW t \in Threads, NEW p,
         pc' = [pc EXCEPT ![t] = p], p \in Body <=> pc[t] \in Body, UNCHANGED holds
  PROVE  BodyKept
BY DEF LocalTypes, BodyKept

\* The points a handler goes through that are no motion's.
Outside == Points \ Body

LEMMA KeptOutside ==
  ASSUME LocalTypes, NEW t \in Threads, NEW p \in Outside,
         pc' = [pc EXCEPT ![t] = p], pc[t] \in Outside, UNCHANGED holds
  PROVE  BodyKept
BY KeptByMove DEF Outside

LEMMA KeptInside ==
  ASSUME LocalTypes, NEW t \in Threads, NEW p \in Body,
         pc' = [pc EXCEPT ![t] = p], pc[t] \in Body, UNCHANGED holds
  PROVE  BodyKept
BY KeptByMove

LEMMA HandlerKeeps == ASSUME Ind, NEW t \in Threads, Handler(t) PROVE BodyKept
<1>. LocalTypes /\ SharedTypes /\ Serving
  BY DEF Ind
<1>. USE DEF Outside, Points, Locked, Body, Stages, InChunk, TearDown
<1>1. ASSUME Return(t), pc[t] \in Outside, UNCHANGED holds PROVE BodyKept
  BY <1>1, ReturnStep, KeptOutside
<1>2. ASSUME NEW p \in Outside, Move(t, p), pc[t] \in Outside, UNCHANGED holds PROVE BodyKept
  BY <1>2, MoveStep, KeptOutside
<1>3. CASE CheckLease(t)
  BY <1>1, <1>2, <1>3 DEF CheckLease
<1>4. CASE RenewLease(t)
  <2>1. AfterLease(rpc[t]) \in Outside
    BY <1>4, AfterLeaseType DEF RenewLease, Serving
  <2>2. QED
    BY <1>1, <1>2, <1>4, <2>1 DEF RenewLease
<1>5. CASE ReadPrev(t)
  BY <1>5, KeptOutside DEF ReadPrev, Goto
<1>6. CASE Grant(t) \/ AfterGrant(t) \/ Drop(t)
  BY <1>1, <1>2, <1>6 DEF Grant, AfterGrant, Drop
<1>7. CASE RestLock(t) \/ Rest(t) \/ Kill(t) \/ Join(t) \/ FinLock(t)
  BY <1>1, <1>2, <1>7 DEF RestLock, Rest, Kill, Join, FinLock, serverVars
<1>8. CASE Pop(t) \/ StopPop(t)
  <2>1. PICK p \in {"idle", "restLock", "try2", "downFlag", "kill"} :
               pc' = [pc EXCEPT ![t] = p]
    BY <1>8, TakeSlotStep DEF Pop, StopPop
  <2>2. pc[t] \in Outside /\ UNCHANGED holds
    BY <1>8 DEF Pop, StopPop
  <2>3. QED
    BY <2>1, <2>2, KeptOutside
<1>9. CASE Fin(t)
  <2>1. CASE AfterTearDown(t)
    <3>1. PICK p \in {"idle", "restLock", "try2", "downFlag"} : pc' = [pc EXCEPT ![t] = p]
      BY <2>1, TearDownStep
    <3>2. QED
      BY <1>9, <3>1, KeptOutside DEF Fin
  <2>2. CASE Return(t) \/ Move(t, "off")
    BY <1>1, <1>2, <1>9, <2>2 DEF Fin
  <2>3. QED
    BY <1>9, <2>1, <2>2 DEF Fin
<1>10. CASE Request(t) \/ StopHalt(t) \/ StopBusy(t) \/ DownFlag(t) \/ Down(t)
  BY <1>1, <1>2, <1>10 DEF Request, StopHalt, StopBusy, DownFlag, Down, serverVars
<1>11. CASE SetProfile(t) \/ BootLock(t) \/ Boot(t) \/ BootRaises(t)
  BY <1>1, <1>2, <1>11 DEF SetProfile, BootLock, Boot, BootRaises
<1>12. CASE ReadSlot(t)
  <2>1. CASE Return(t)
    BY <1>1, <1>12, <2>1 DEF ReadSlot, serverVars
  <2>2. CASE Goto(t, "aim")
    BY <1>12, <2>2, KeptOutside DEF ReadSlot, Goto, serverVars
  <2>3. QED
    BY <1>12, <2>1, <2>2 DEF ReadSlot
<1>13. CASE Aim(t)
  BY <1>1, <1>13 DEF Aim, serverVars
<1>14. QED
  BY <1>3, <1>4, <1>5, <1>6, <1>7, <1>8, <1>9, <1>10, <1>11, <1>12, <1>13 DEF Handler

LEMMA MoverKeeps ==
  ASSUME Ind, NEW t \in Threads, Mover(t), ~Pin(t), ~Unpin(t)
  PROVE  BodyKept
<1>. LocalTypes /\ SharedTypes /\ Serving
  BY DEF Ind
<1>1. CASE MotionLock(t) \/ HoldCheck(t) \/ MotionUnlock(t)
  BY <1>1, ReturnStep, MoveStep, KeptOutside
     DEF MotionLock, HoldCheck, MotionUnlock, Outside, Points, Locked, Body, Stages,
         InChunk, TearDown
<1>2. CASE Call(t) \/ EntryAbort(t) \/ ChunkEnd(t) \/ Settle(t)
  <2>1. pc[t] \in Stages \cup InChunk /\ NextStage(t) /\ UNCHANGED holds
    BY <1>2 DEF Call, EntryAbort, ChunkEnd, Settle, Stages, InChunk, serverVars
  <2>2. PICK p \in Stages \cup {"unpin"} : pc' = [pc EXCEPT ![t] = p]
    BY <2>1, NextStageStep DEF Serving
  <2>3. QED
    BY <2>1, <2>2, KeptInside DEF Body
<1>3. CASE Gate(t) \/ Raise(t)
  <2>1. PICK q \in Seq(Stages) : Proceed(t, q)
    BY <1>3, SomeStages
  <2>2. PICK p \in Stages \cup {"unpin"} : pc' = [pc EXCEPT ![t] = p]
    BY <2>1, ProceedStep
  <2>3. pc[t] \in Body /\ UNCHANGED holds
    BY <1>3 DEF Gate, Raise, Stages, InChunk, Body, serverVars
  <2>4. QED
    BY <2>2, <2>3, KeptInside DEF Body
<1>4. CASE Entry(t) \/ TickProtect(t)
  <2>1. PICK p \in InChunk : pc' = [pc EXCEPT ![t] = p]
    BY <1>4 DEF Entry, TickProtect, Goto, InChunk
  <2>2. pc[t] \in Body /\ UNCHANGED holds
    BY <1>4 DEF Entry, TickProtect, Stages, InChunk, Body, serverVars
  <2>3. QED
    BY <2>1, <2>2, KeptInside DEF Body
<1>5. CASE Arm(t) \/ TickCancel(t) \/ TickStream(t) \/ Stream(t)
  <2>1. PICK p \in InChunk : pc' = [pc EXCEPT ![t] = p]
    BY <1>5 DEF Arm, TickCancel, TickStream, Stream, Move, Goto, InChunk
  <2>2. pc[t] \in Body /\ UNCHANGED holds
    BY <1>5 DEF Arm, TickCancel, TickStream, Stream, InChunk, Body, serverVars
  <2>3. QED
    BY <2>1, <2>2, KeptInside DEF Body
<1>6. QED
  BY <1>1, <1>2, <1>3, <1>4, <1>5 DEF Mover

LEMMA OthersKeep ==
  ASSUME Ind, [Next]_vars, \A t \in Threads : ~Handler(t) /\ ~Mover(t)
  PROVE  BodyKept
<1>. LocalTypes
  BY DEF Ind
<1>1. CASE \E t \in Threads, m \in Methods : Receive(t, m)
  <2>1. PICK t \in Threads, m \in Methods : Receive(t, m)
    BY <1>1
  <2>2. m \in Methods \ {"heartbeat", "state"}
    BY <2>1 DEF Receive
  <2>3. First(m) \in {"check", "prev", "drop", "request", "pop"}
    BY <2>2 DEF First, Methods, Leased, Motions
  <2>4. pc' = [pc EXCEPT ![t] = First(m)] /\ pc[t] = "idle" /\ UNCHANGED holds
    BY <2>1 DEF Receive, Goto, serverVars
  <2>5. QED
    BY <2>3, <2>4, KeptOutside DEF Outside, Points, Locked, Body, Stages, InChunk, TearDown
<1>2. CASE \/ Clock \/ UNCHANGED vars
           \/ \E t \in Threads : Heartbeat(t) \/ GetState(t)
           \/ \E l \in Loops : Loop(l)
  BY <1>2 DEF Clock, Heartbeat, GetState, Loop, LoopTop, LoopLock, LoopWrite,
     LoopReadRaises, LoopCrash, vars, serverVars, BodyKept
<1>3. QED
  BY <1>1, <1>2 DEF Next

-----------------------------------------------------------------------------
(* _holds is 1 while a motion runs and 0 otherwise *)

LEMMA CountedStep == ASSUME Ind, Counted, [Next]_vars PROVE Counted'
<1>1. CASE BodyKept
  BY <1>1 DEF BodyKept, Counted
<1>. LocalTypes /\ LockDiscipline /\ SharedTypes
  BY DEF Ind
<1>2. ASSUME NEW t \in Threads, NEW u \in Threads, pc[t] \in Locked, pc[u] \in Locked
      PROVE  t = u
  BY <1>2 DEF LockDiscipline
<1>3. ASSUME NEW t \in Threads, Pin(t) PROVE Counted'
  <2>1. pc[t] = "pin" /\ holds' = holds + 1
    BY <1>3 DEF Pin
  <2>2. \A u \in Threads : pc[u] \notin Body
    BY <1>2, <2>1 DEF Locked, Body, Stages, InChunk
  <2>3. holds = 0
    BY <2>2 DEF Counted
  <2>4. PICK q \in Seq(Stages) : Proceed(t, q)
    BY <1>3, SomeStages DEF Ind
  <2>5. PICK p \in Stages \cup {"unpin"} : pc' = [pc EXCEPT ![t] = p]
    BY <2>4, ProceedStep
  <2>6. pc'[t] \in Body
    BY <2>5 DEF Body, LocalTypes
  <2>7. QED
    BY <2>1, <2>3, <2>6 DEF Counted
<1>4. ASSUME NEW t \in Threads, Unpin(t) PROVE Counted'
  <2>1. pc[t] = "unpin" /\ holds' = holds - 1 /\ pc' = [pc EXCEPT ![t] = "unlock"]
    BY <1>4 DEF Unpin, Move, Goto
  <2>2. "unpin" \in Body /\ "unlock" \notin Body
    BY DEF Body, Stages, InChunk
  <2>3. holds = 1
    BY <2>1, <2>2 DEF Counted
  <2>4. \A u \in Threads : pc'[u] \notin Body
    BY <1>2, <2>1, <2>2 DEF Locked, LocalTypes
  <2>5. QED
    BY <2>1, <2>3, <2>4 DEF Counted
<1>5. QED
  BY <1>1, <1>3, <1>4, HandlerKeeps, MoverKeeps, OthersKeep

\* For any number of connections _holds is the number of motions in flight, and
\* that is never more than one (lease.py:93-111, server.py:176-202).
LEMMA OneHold == Spec => [](Ind /\ Counted)
<1>1. Init => Counted
  BY DEF Init, Counted, Body, Stages, InChunk
<1>2. Ind /\ Counted /\ [Next]_vars => Counted'
  BY CountedStep
<1>3. QED
  BY Inductive, <1>1, <1>2, PTL DEF Spec

\* Type correctness of the server's state and of its handlers' locals
\* (server.py:53-70, control_loop.py:46-76): no handler's way out takes a hold
\* off that no motion put on.
THEOREM ServerTypeCorrect == Spec => []TypeOK
<1>1. Ind /\ Counted => TypeOK
  BY DEF Ind, Counted, TypeOK
<1>2. QED
  BY OneHold, <1>1, PTL

-----------------------------------------------------------------------------
(* Who takes the lease of a motion *)

LEMMA LeaseStep ==
  ASSUME Ind, Counted, [Next]_vars, NEW t \in Threads, pc[t] \in Body,
         HeldBy(lease, OwnerOf[t]), ~HeldBy(lease', OwnerOf[t])
  PROVE  \E u \in Threads : TakesLease(u, t)
<1>. lease \in LeaseInfo /\ holds = 1 /\ OwnerOf[t] \in Owners
  BY ServerAssumption DEF Ind, SharedTypes, Counted
<1>1. Swept(lease, holds) = lease
  BY DEF Swept
<1>2. \A l \in LeaseInfo : Renewed(l).owner = l.owner /\ Aged(l).owner = l.owner
  BY DEF LeaseInfo, Renewed, Aged
<1>3. lease' \notin {lease, Renewed(lease), Aged(lease)}
  BY <1>2 DEF HeldBy, Held
<1>. USE <1>1, <1>3
<1>4. ASSUME NEW u \in Threads, Grant(u) PROVE TakesLease(u, t)
  <2>1. pc[u] = "grant" /\ Available(lease, OwnerOf[u], rpc[u] = "force")
        /\ lease' = Granted(OwnerOf[u])
    BY <1>4 DEF Grant
  <2>2. OwnerOf[u] # OwnerOf[t]
    BY <2>1, LeaseAssumption DEF Granted, HeldBy, Held
  <2>3. rpc[u] = "force"
    BY <2>1, <2>2 DEF Available, HeldBy
  <2>4. QED
    BY <2>1, <2>3 DEF TakesLease
<1>5. ASSUME NEW u \in Threads, Drop(u) PROVE TakesLease(u, t)
  BY <1>5 DEF Drop, TakesLease, HeldBy
<1>6. ASSUME NEW u \in Threads, Handler(u), ~Grant(u), ~Drop(u) PROVE FALSE
  BY <1>6 DEF Handler, CheckLease, RenewLease, ReadPrev, AfterGrant, RestLock, Rest,
     Pop, Kill, Join, FinLock, Fin, Request, StopPop, StopHalt, StopBusy, DownFlag,
     Down, SetProfile, BootLock, Boot, BootRaises, ReadSlot, Aim, serverVars
<1>7. ASSUME NEW u \in Threads, Mover(u) PROVE FALSE
  BY <1>7 DEF Mover, MotionLock, HoldCheck, Pin, Call, EntryAbort, Entry, Arm,
     TickCancel, TickProtect, TickStream, Stream, ChunkEnd, Settle, Gate, Raise,
     Unpin, MotionUnlock, serverVars
<1>8. CASE \/ Clock \/ UNCHANGED vars
           \/ \E u \in Threads : Heartbeat(u) \/ GetState(u)
           \/ \E u \in Threads, m \in Methods : Receive(u, m)
           \/ \E l \in Loops : Loop(l)
  BY <1>8 DEF Clock, Heartbeat, GetState, Receive, Loop, LoopTop, LoopLock, LoopWrite,
     LoopReadRaises, LoopCrash, vars, serverVars
<1>9. QED
  BY <1>4, <1>5, <1>6, <1>7, <1>8 DEF Next

\* While a motion runs its owner's lease lapses for nobody's look at it: it goes
\* only by force or by its owner's own release (server.py:186-189, lease.py:56-69).
THEOREM MotionsKeepLease == Spec => MotionKeepsLease
<1>1. ASSUME Ind, Counted, [Next]_vars
      PROVE  [\A t \in Threads :
                pc[t] \in Body /\ HeldBy(lease, OwnerOf[t]) /\ ~HeldBy(lease', OwnerOf[t])
                  => \E u \in Threads : TakesLease(u, t)]_vars
  BY <1>1, LeaseStep
<1>2. QED
  BY <1>1, OneHold, PTL DEF Spec, MotionKeepsLease

-----------------------------------------------------------------------------
(* A stop holds.  It does for a session without a homing ritual, whose motions *)
(* and acquires come over one connection; the others may stop, release, start  *)
(* loops and stream.  Neither can be dropped: the lift of the ritual consumes  *)
(* the flag, and an acquire that finds the lease free clears it.               *)

NoRitual == \A t \in Threads : "ritual" \notin Sends[t]

OneCommander ==
  \E c \in Threads : \A t \in Threads \ {c} :
    Sends[t] \cap (Motions \cup {"acquire", "force"}) = {}

\* The plans without a gate run at most one chunk.
Plan == {q \in Seq({"call", "chunk", "settle"}) :
           \A i, j \in 1 .. Len(q) : q[i] = "chunk" /\ q[j] = "chunk" => i = j}

\* A chunk is still to come, or in flight.
Streams(q) == \E i \in 1 .. Len(q) : q[i] = "chunk"

Acquiring == {"prev", "grant", "after"}

\* A thread serves what its connection sent.
Asked ==
  \A t \in Threads :
    /\ rpc[t] \in Sends[t] \cup {"none"}
    /\ pc[t] \in Body => rpc[t] \in Motions
    /\ pc[t] \in Acquiring => rpc[t] \in {"acquire", "force"}

\* Where a motion is in its plan.
Planned ==
  \A t \in Threads :
    /\ pc[t] \in Stages => todo[t] \in Plan /\ todo[t] # <<>> /\ pc[t] = Head(todo[t])
    /\ pc[t] \in InChunk => todo[t] \in Plan /\ todo[t] # <<>> /\ Head(todo[t]) = "chunk"

\* The flag of a stop that reached a motion stays up until the chunk consumes it.
Reached ==
  \A t \in Threads :
    /\ hit[t] # "no" => pc[t] \in Body
    /\ hit[t] # "late"
    /\ hit[t] = "hit" /\ pc[t] \in Body \ {"unpin", "halt"} /\ Streams(todo[t]) => cancel

StopInd == Asked /\ Planned /\ Reached

\* A step of t leaves the other threads where they are.
Elsewhere(t) ==
  \A u \in Threads \ {t} : pc'[u] = pc[u] /\ rpc'[u] = rpc[u] /\ todo'[u] = todo[u]

\* It is in no motion, and acquires only what it was acquiring.
StaysOut(t) ==
  /\ Elsewhere(t)
  /\ rpc'[t] \in {rpc[t], "none"}
  /\ pc'[t] \notin Body
  /\ pc'[t] \in Acquiring => pc[t] \in Acquiring /\ rpc'[t] = rpc[t]

-----------------------------------------------------------------------------
(* Plans *)

LEMMA PlanTail ==
  ASSUME NEW q \in Plan, q # <<>>
  PROVE  /\ Tail(q) \in Plan
         /\ Streams(Tail(q)) => Streams(q)
         /\ Head(q) \in {"call", "chunk", "settle"}
         /\ Head(q) = "chunk" => Streams(q) /\ ~Streams(Tail(q))
         /\ AfterRaise(q) = <<>>
<1>1. q \in Seq({"call", "chunk", "settle"}) /\ Len(q) \in Nat /\ Len(q) > 0
  BY DEF Plan
<1>2. /\ Tail(q) \in Seq({"call", "chunk", "settle"})
      /\ Len(Tail(q)) = Len(q) - 1
      /\ \A i \in 1 .. Len(q) - 1 : i + 1 \in 1 .. Len(q) /\ Tail(q)[i] = q[i + 1]
      /\ Head(q) = q[1]
  BY <1>1
<1>3. Tail(q) \in Plan
  <2> SUFFICES ASSUME NEW i \in 1 .. Len(q) - 1, NEW j \in 1 .. Len(q) - 1,
                      q[i + 1] = "chunk", q[j + 1] = "chunk"
               PROVE  i = j
    BY <1>2 DEF Plan
  <2>1. i + 1 = j + 1
    BY <1>2 DEF Plan
  <2>2. QED
    BY <1>1, <2>1
<1>4. Streams(Tail(q)) => Streams(q)
  BY <1>1, <1>2 DEF Streams
<1>5. Head(q) = "chunk" => Streams(q) /\ ~Streams(Tail(q))
  BY <1>1, <1>2 DEF Streams, Plan
<1>6. \A i \in DOMAIN q : q[i] \in {"call", "chunk", "settle"}
  BY <1>1
<1>7. AfterRaise(q) = <<>>
  BY <1>6 DEF AfterRaise
<1>8. QED
  BY <1>1, <1>2, <1>3, <1>4, <1>5, <1>7

LEMMA NoStage == <<>> \in Plan /\ ~Streams(<<>>)
BY DEF Plan, Streams

\* Every plan but the ritual's is one.
LEMMA PlanOf ==
  ASSUME NEW m \in Motions, m # "ritual" PROVE Plans(m) \subseteq Plan \ {<<>>}
<1>1. <<"call">> \in Plan \ {<<>>} /\ <<"chunk">> \in Plan \ {<<>>}
  BY DEF Plan
<1>2. <<"call", "chunk">> \in Plan \ {<<>>} /\ <<"call", "settle">> \in Plan \ {<<>>}
  BY DEF Plan
<1>3. <<"call", "call", "settle">> \in Plan \ {<<>>}
  BY DEF Plan
<1>4. <<"call", "chunk", "call", "settle">> \in Plan \ {<<>>}
  BY DEF Plan
<1>5. QED
  BY <1>1, <1>2, <1>3, <1>4 DEF Motions, Plans

-----------------------------------------------------------------------------
(* What a step of a thread leaves alone *)

\* A handler's step stays out of the motions, and acquires only what it was.
LEMMA HandlerFrame ==
  ASSUME Ind, NEW t \in Threads, Handler(t)
  PROVE  StaysOut(t)
<1>. LocalTypes /\ SharedTypes /\ Serving
  BY DEF Ind
<1>1. ASSUME Return(t) PROVE StaysOut(t)
  BY <1>1, ReturnStep DEF StaysOut, Elsewhere, LocalTypes, Body, Stages, InChunk, Acquiring
<1>2. ASSUME NEW p \in Outside, Move(t, p), p \in Acquiring => pc[t] \in Acquiring
      PROVE  StaysOut(t)
  BY <1>2, MoveStep DEF StaysOut, Elsewhere, LocalTypes, Outside
<1>3. ASSUME NEW p \in Outside \ Acquiring, pc' = [pc EXCEPT ![t] = p],
             \/ UNCHANGED <<rpc, todo>>
             \/ rpc' = [rpc EXCEPT ![t] = "none"] /\ todo' = [todo EXCEPT ![t] = <<>>]
      PROVE  StaysOut(t)
  BY <1>3 DEF StaysOut, Elsewhere, LocalTypes, Outside
<1>. USE DEF Outside, Points, Locked, Body, Stages, InChunk, TearDown, Acquiring
<1>4. CASE CheckLease(t)
  BY <1>1, <1>2, <1>4 DEF CheckLease
<1>5. CASE RenewLease(t)
  <2>1. AfterLease(rpc[t]) \in Outside \ Acquiring
    BY <1>5, AfterLeaseType DEF RenewLease, Serving
  <2>2. QED
    BY <1>1, <1>2, <1>5, <2>1 DEF RenewLease
<1>6. CASE ReadPrev(t)
  <2>1. pc[t] = "prev" /\ pc' = [pc EXCEPT ![t] = "grant"] /\ UNCHANGED <<rpc, todo>>
    BY <1>6 DEF ReadPrev, Goto
  <2>2. QED
    BY <2>1 DEF StaysOut, Elsewhere, LocalTypes
<1>7. CASE Grant(t)
  BY <1>1, <1>2, <1>7 DEF Grant
<1>8. CASE AfterGrant(t) \/ Drop(t)
  BY <1>1, <1>2, <1>8 DEF AfterGrant, Drop
<1>9. CASE RestLock(t) \/ Rest(t) \/ Kill(t) \/ Join(t) \/ FinLock(t)
  BY <1>1, <1>2, <1>9 DEF RestLock, Rest, Kill, Join, FinLock
<1>10. CASE Pop(t) \/ StopPop(t)
  <2>1. PICK p \in {"idle", "restLock", "try2", "downFlag", "kill"} :
               pc' = [pc EXCEPT ![t] = p]
    BY <1>10, TakeSlotStep DEF Pop, StopPop
  <2>2. \/ UNCHANGED <<rpc, todo>>
        \/ rpc' = [rpc EXCEPT ![t] = "none"] /\ todo' = [todo EXCEPT ![t] = <<>>]
    BY <1>10, TakeSlotStep DEF Pop, StopPop
  <2>3. QED
    BY <2>1, <2>2, <1>3
<1>11. CASE Fin(t)
  <2>1. CASE AfterTearDown(t)
    <3>1. PICK p \in {"idle", "restLock", "try2", "downFlag"} : pc' = [pc EXCEPT ![t] = p]
      BY <2>1, TearDownStep
    <3>2. \/ UNCHANGED <<rpc, todo>>
          \/ rpc' = [rpc EXCEPT ![t] = "none"] /\ todo' = [todo EXCEPT ![t] = <<>>]
      BY <2>1, TearDownStep
    <3>3. QED
      BY <3>1, <3>2, <1>3
  <2>2. CASE Return(t) \/ Move(t, "off")
    BY <1>1, <1>2, <2>2
  <2>3. QED
    BY <1>11, <2>1, <2>2 DEF Fin
<1>12. CASE Request(t) \/ StopHalt(t) \/ StopBusy(t) \/ DownFlag(t) \/ Down(t)
  BY <1>1, <1>2, <1>12 DEF Request, StopHalt, StopBusy, DownFlag, Down
<1>13. CASE SetProfile(t) \/ BootLock(t) \/ Boot(t) \/ BootRaises(t)
  BY <1>1, <1>2, <1>13 DEF SetProfile, BootLock, Boot, BootRaises
<1>14. CASE ReadSlot(t)
  <2>1. CASE Goto(t, "aim") /\ UNCHANGED <<rpc, prev, todo, contact, env>>
    BY <2>1, <1>3 DEF Goto
  <2>2. QED
    BY <1>14, <1>1, <2>1 DEF ReadSlot
<1>15. CASE Aim(t)
  BY <1>1, <1>15 DEF Aim
<1>16. QED
  BY <1>4, <1>5, <1>6, <1>7, <1>8, <1>9, <1>10, <1>11, <1>12, <1>13, <1>14, <1>15
     DEF Handler

LEMMA HandlerOutside == ASSUME NEW t \in Threads, Handler(t) PROVE pc[t] \notin Body
BY DEF Handler, CheckLease, RenewLease, ReadPrev, Grant, AfterGrant, Drop, RestLock,
   Rest, Pop, Kill, Join, FinLock, Fin, Request, StopPop, StopHalt, StopBusy, DownFlag,
   Down, SetProfile, BootLock, Boot, BootRaises, ReadSlot, Aim, Body, Stages, InChunk

\* It lets the flag alone, raises it, or - after a grant - may lower it.
LEMMA HandlerFlag ==
  ASSUME NEW t \in Threads, Handler(t)
  PROVE  UNCHANGED <<cancel, hit>> \/ RequestStop \/ (pc[t] = "after" /\ UNCHANGED hit)
BY DEF Handler, CheckLease, RenewLease, ReadPrev, Grant, AfterGrant, Drop, RestLock,
   Rest, Pop, Kill, Join, FinLock, Fin, Request, StopPop, StopHalt, StopBusy, DownFlag,
   Down, SetProfile, BootLock, Boot, BootRaises, ReadSlot, Aim, serverVars

\* A motion's step acquires nothing, and is in a motion if it was or is just let in.
Moves(t) ==
  /\ Elsewhere(t)
  /\ rpc'[t] \in {rpc[t], "none"}
  /\ pc'[t] \notin Acquiring
  /\ pc'[t] \in Body => rpc'[t] = rpc[t] /\ pc[t] \in Body \cup {"pin"}

LEMMA ProceedMoves ==
  ASSUME LocalTypes, NEW t \in Threads, NEW q \in Seq(Stages), Proceed(t, q),
         pc[t] \in Body \cup {"pin"}, UNCHANGED rpc
  PROVE  Moves(t)
<1>1. PICK p \in Stages \cup {"unpin"} : pc' = [pc EXCEPT ![t] = p]
  BY ProceedStep
<1>2. todo' = [todo EXCEPT ![t] = q]
  BY ProceedStep
<1>3. p \notin Acquiring
  BY DEF Stages, Acquiring
<1>4. QED
  BY <1>1, <1>2, <1>3 DEF LocalTypes, Moves, Elsewhere

LEMMA MoverFrame == ASSUME Ind, NEW t \in Threads, Mover(t) PROVE Moves(t)
<1>. LocalTypes /\ SharedTypes /\ Serving
  BY DEF Ind
<1>1. ASSUME Return(t) PROVE Moves(t)
  BY <1>1, ReturnStep DEF Moves, Elsewhere, LocalTypes, Body, Stages, InChunk, Acquiring
<1>2. ASSUME NEW p \in Outside \ Acquiring, Move(t, p) PROVE Moves(t)
  BY <1>2, MoveStep DEF Moves, Elsewhere, LocalTypes, Outside
<1>3. ASSUME NEW p \in InChunk, pc' = [pc EXCEPT ![t] = p], pc[t] \in Body,
             UNCHANGED <<rpc, todo>>
      PROVE  Moves(t)
  BY <1>3 DEF Moves, Elsewhere, LocalTypes, InChunk, Acquiring
<1>4. CASE MotionLock(t) \/ HoldCheck(t) \/ MotionUnlock(t) \/ Unpin(t)
  BY <1>1, <1>2, <1>4 DEF MotionLock, HoldCheck, MotionUnlock, Unpin, Outside, Points,
     Locked, Body, Stages, InChunk, TearDown, Acquiring
<1>5. CASE Pin(t) \/ Gate(t) \/ Raise(t)
  <2>1. PICK q \in Seq(Stages) : Proceed(t, q)
    BY <1>5, SomeStages
  <2>2. pc[t] \in Body \cup {"pin"} /\ UNCHANGED rpc
    BY <1>5 DEF Pin, Gate, Raise, Body, Stages, InChunk
  <2>3. QED
    BY <2>1, <2>2, ProceedMoves
<1>6. CASE Call(t) \/ EntryAbort(t) \/ ChunkEnd(t) \/ Settle(t)
  <2>1. pc[t] \in Stages \cup InChunk /\ NextStage(t) /\ UNCHANGED rpc
    BY <1>6 DEF Call, EntryAbort, ChunkEnd, Settle, Stages, InChunk
  <2>2. todo[t] \in Seq(Stages) /\ todo[t] # <<>>
    BY <2>1 DEF LocalTypes, Serving
  <2>3. Tail(todo[t]) \in Seq(Stages)
    BY <2>2
  <2>4. QED
    BY <2>1, <2>3, ProceedMoves DEF NextStage, Body
<1>7. CASE Entry(t) \/ TickProtect(t)
  BY <1>3, <1>7 DEF Entry, TickProtect, Goto, InChunk, Body, Stages
<1>8. CASE Arm(t) \/ TickCancel(t) \/ TickStream(t) \/ Stream(t)
  BY <1>3, <1>8 DEF Arm, TickCancel, TickStream, Stream, Move, Goto, localVars, InChunk,
     Body, Stages
<1>9. QED
  BY <1>4, <1>5, <1>6, <1>7, <1>8 DEF Mover

\* The rest: a request arrives, or no thread moves.
LEMMA OtherFrame ==
  ASSUME Ind, [Next]_vars, \A t \in Threads : ~Handler(t) /\ ~Mover(t)
  PROVE  /\ UNCHANGED <<cancel, hit>>
         /\ \/ UNCHANGED <<pc, rpc, todo>>
            \/ \E t \in Threads, m \in Methods : Receive(t, m)
BY DEF Next, Clock, Heartbeat, GetState, Receive, Loop, LoopTop, LoopLock, LoopWrite,
   LoopReadRaises, LoopCrash, vars, serverVars, localVars

LEMMA ReceiveFrame ==
  ASSUME Ind, NEW t \in Threads, NEW m \in Methods, Receive(t, m)
  PROVE  /\ Elsewhere(t)
         /\ rpc'[t] = m /\ m \in Sends[t]
         /\ pc[t] \notin Body /\ pc'[t] \notin Body
         /\ pc'[t] \in Acquiring => m \in {"acquire", "force"}
<1>1. m \in Methods \ {"heartbeat", "state"} /\ m \in Sends[t] /\ pc[t] = "idle"
  BY DEF Receive
<1>2. /\ First(m) \in {"check", "prev", "drop", "request", "pop"}
      /\ First(m) = "prev" => m \in {"acquire", "force"}
  BY <1>1 DEF First, Methods, Leased, Motions
<1>3. /\ pc' = [pc EXCEPT ![t] = First(m)] /\ rpc' = [rpc EXCEPT ![t] = m]
      /\ UNCHANGED todo
  BY DEF Receive, Goto
<1>4. QED
  BY <1>1, <1>2, <1>3 DEF Ind, LocalTypes, Elsewhere, Body, Stages, InChunk, Acquiring

-----------------------------------------------------------------------------
(* A thread serves what its connection sent *)

LEMMA AskedStep == ASSUME Ind, Asked, [Next]_vars PROVE Asked'
<1>1. ASSUME NEW t \in Threads, Handler(t) PROVE Asked'
  BY <1>1, HandlerFrame DEF StaysOut, Elsewhere, Asked
<1>2. ASSUME NEW t \in Threads, Mover(t) PROVE Asked'
  <2>1. pc[t] = "pin" => rpc[t] \in Motions
    BY DEF Ind, Serving
  <2>2. QED
    BY <1>2, <2>1, MoverFrame DEF Moves, Elsewhere, Asked
<1>3. ASSUME NEW t \in Threads, NEW m \in Methods, Receive(t, m) PROVE Asked'
  BY <1>3, ReceiveFrame DEF Elsewhere, Asked
<1>4. CASE UNCHANGED <<pc, rpc, todo>>
  BY <1>4 DEF Asked
<1>5. QED
  BY <1>1, <1>2, <1>3, <1>4, OtherFrame

-----------------------------------------------------------------------------
(* Where a motion is in its plan *)

\* The end of a stage, whichever way it ends, leaves less of the plan; the end of
\* a chunk leaves no chunk.
LEMMA StageEnd ==
  ASSUME Ind, Planned, NEW t \in Threads,
         Call(t) \/ EntryAbort(t) \/ ChunkEnd(t) \/ Settle(t) \/ Gate(t) \/ Raise(t)
  PROVE  \E q \in Plan :
           /\ Proceed(t, q)
           /\ Streams(q) => Streams(todo[t])
           /\ pc[t] \in InChunk \cup {"chunk"} => ~Streams(q)
<1>1. pc[t] \in Stages \cup InChunk
  BY DEF Call, EntryAbort, ChunkEnd, Settle, Gate, Raise, Stages, InChunk
<1>2. /\ todo[t] \in Plan /\ todo[t] # <<>>
      /\ pc[t] \in Stages => pc[t] = Head(todo[t])
      /\ pc[t] \in InChunk => Head(todo[t]) = "chunk"
  BY <1>1 DEF Planned
<1>. DEFINE q == todo[t]
<1>3. /\ Tail(q) \in Plan
      /\ Streams(Tail(q)) => Streams(q)
      /\ Head(q) \in {"call", "chunk", "settle"}
      /\ Head(q) = "chunk" => Streams(q) /\ ~Streams(Tail(q))
      /\ AfterRaise(q) = <<>>
  BY <1>2, PlanTail
<1>4. ~Gate(t)
  BY <1>2, <1>3 DEF Gate, Stages
<1>5. CASE Call(t) \/ EntryAbort(t) \/ ChunkEnd(t) \/ Settle(t)
  <2>1. Proceed(t, Tail(q))
    BY <1>5 DEF Call, EntryAbort, ChunkEnd, Settle, NextStage
  <2>2. pc[t] \in InChunk \cup {"chunk"} => ~Streams(Tail(q))
    BY <1>2, <1>3 DEF Stages
  <2>3. QED
    BY <1>3, <2>1, <2>2
<1>6. CASE Raise(t)
  <2>1. Proceed(t, <<>>)
    BY <1>3, <1>6 DEF Raise
  <2>2. QED
    BY <2>1, NoStage
<1>7. QED
  BY <1>4, <1>5, <1>6

LEMMA ProceedPlanned ==
  ASSUME LocalTypes, NEW t \in Threads, NEW q \in Plan, Proceed(t, q)
  PROVE  /\ todo'[t] = q
         /\ pc'[t] \notin InChunk
         /\ pc'[t] \in Stages => q # <<>> /\ pc'[t] = Head(q)
<1>1. todo'[t] = q
  BY DEF Proceed, LocalTypes
<1>2. pc'[t] = IF q = <<>> THEN "unpin" ELSE Head(q)
  BY DEF Proceed, Goto, LocalTypes
<1>3. q # <<>> => Head(q) \in {"call", "chunk", "settle"}
  BY PlanTail
<1>4. QED
  BY <1>1, <1>2, <1>3 DEF InChunk, Stages

\* The steps of a chunk that do not end it.
InsideChunk(t) ==
  Entry(t) \/ Arm(t) \/ TickCancel(t) \/ TickProtect(t) \/ TickStream(t) \/ Stream(t)

LEMMA ChunkStays ==
  ASSUME LocalTypes, Planned, NEW t \in Threads, InsideChunk(t)
  PROVE  /\ todo' = todo /\ pc'[t] \in InChunk
         /\ todo[t] \in Plan /\ todo[t] # <<>> /\ Head(todo[t]) = "chunk"
<1>1. todo' = todo
  BY DEF InsideChunk, Entry, Arm, TickCancel, TickProtect, TickStream, Stream, Move, localVars
<1>2. pc'[t] \in InChunk
  BY DEF InsideChunk, Entry, Arm, TickCancel, TickProtect, TickStream, Stream, Move, Goto,
     LocalTypes, InChunk
<1>3. pc[t] \in InChunk \cup {"chunk", "lift"}
  BY DEF InsideChunk, Entry, Arm, TickCancel, TickProtect, TickStream, Stream, InChunk
<1>4. todo[t] \in Plan /\ todo[t] # <<>>
  BY <1>3 DEF Planned, Stages
<1>5. Head(todo[t]) \in {"call", "chunk", "settle"}
  BY <1>4, PlanTail
<1>6. pc[t] \in {"chunk", "lift"} => pc[t] = Head(todo[t])
  BY DEF Planned, Stages
<1>7. Head(todo[t]) = "chunk"
  BY <1>3, <1>5, <1>6 DEF Planned
<1>8. QED
  BY <1>1, <1>2, <1>4, <1>7

LEMMA PinPlanned ==
  ASSUME NoRitual, Ind, Asked, NEW t \in Threads, Pin(t)
  PROVE  \E q \in Plan : Proceed(t, q)
<1>1. rpc[t] \in Motions
  BY DEF Ind, Serving, Pin
<1>2. rpc[t] # "ritual"
  BY <1>1 DEF Asked, NoRitual, Motions
<1>3. QED
  BY <1>1, <1>2, PlanOf DEF Pin

LEMMA PlannedStep == ASSUME NoRitual, Ind, Asked, Planned, [Next]_vars PROVE Planned'
<1>. LocalTypes
  BY DEF Ind
<1>1. ASSUME NEW t \in Threads, Elsewhere(t),
             pc'[t] \in Stages =>
               todo'[t] \in Plan /\ todo'[t] # <<>> /\ pc'[t] = Head(todo'[t]),
             pc'[t] \in InChunk =>
               todo'[t] \in Plan /\ todo'[t] # <<>> /\ Head(todo'[t]) = "chunk"
      PROVE  Planned'
  BY <1>1 DEF Elsewhere, Planned
<1>2. ASSUME NEW t \in Threads, Elsewhere(t), pc'[t] \notin Body PROVE Planned'
  BY <1>1, <1>2 DEF Body
<1>3. ASSUME NEW t \in Threads, Handler(t) PROVE Planned'
  BY <1>2, <1>3, HandlerFrame DEF StaysOut
<1>4. ASSUME NEW t \in Threads, Mover(t) PROVE Planned'
  <2>1. Elsewhere(t)
    BY <1>4, MoverFrame DEF Moves
  <2>2. ASSUME NEW q \in Plan, Proceed(t, q) PROVE Planned'
    <3>1. /\ todo'[t] = q
          /\ pc'[t] \notin InChunk
          /\ pc'[t] \in Stages => q # <<>> /\ pc'[t] = Head(q)
      BY <2>2, ProceedPlanned
    <3>2. QED
      BY <1>1, <2>1, <3>1
  <2>3. CASE Pin(t)
    BY <2>2, <2>3, PinPlanned
  <2>4. CASE Call(t) \/ EntryAbort(t) \/ ChunkEnd(t) \/ Settle(t) \/ Gate(t) \/ Raise(t)
    BY <2>2, <2>4, StageEnd
  <2>5. CASE InsideChunk(t)
    <3>1. /\ todo' = todo /\ pc'[t] \in InChunk
          /\ todo[t] \in Plan /\ todo[t] # <<>> /\ Head(todo[t]) = "chunk"
      BY <2>5, ChunkStays
    <3>2. pc'[t] \notin Stages
      BY <3>1 DEF InChunk, Stages
    <3>3. QED
      BY <1>1, <2>1, <3>1, <3>2
  <2>6. CASE MotionLock(t) \/ HoldCheck(t) \/ MotionUnlock(t) \/ Unpin(t)
    <3>1. pc'[t] \notin Body
      BY <2>6 DEF MotionLock, HoldCheck, MotionUnlock, Unpin, Return, Move, Goto,
         LocalTypes, Body, Stages, InChunk
    <3>2. QED
      BY <1>2, <2>1, <3>1
  <2>7. QED
    BY <1>4, <2>3, <2>4, <2>5, <2>6 DEF Mover, InsideChunk
<1>5. ASSUME NEW t \in Threads, NEW m \in Methods, Receive(t, m) PROVE Planned'
  BY <1>2, <1>5, ReceiveFrame
<1>6. CASE UNCHANGED <<pc, rpc, todo>>
  BY <1>6 DEF Planned
<1>7. QED
  BY <1>3, <1>4, <1>5, <1>6, OtherFrame

-----------------------------------------------------------------------------
(* The flag stays up until the chunk consumes it *)

\* Who is in a motion has the robot lock, so nobody else is in one.
LEMMA NobodyElse ==
  ASSUME Ind, Reached, NEW t \in Threads, pc[t] \in Locked, NEW u \in Threads \ {t}
  PROVE  pc[u] \notin Body /\ hit[u] = "no"
<1>1. pc[u] \notin Locked
  BY DEF Ind, LockDiscipline
<1>2. QED
  BY <1>1 DEF Locked, Reached

\* A step of the one motion.
LEMMA AloneReached ==
  ASSUME Ind, Reached, NEW t \in Threads, pc[t] \in Locked, Elsewhere(t),
         \A u \in Threads \ {t} : hit'[u] = hit[u],
         hit'[t] # "no" => pc'[t] \in Body,
         hit'[t] # "late",
         hit'[t] = "hit" /\ pc'[t] \in Body \ {"unpin", "halt"} /\ Streams(todo'[t]) => cancel'
  PROVE  Reached'
<1>1. \A u \in Threads \ {t} : pc'[u] \notin Body /\ hit'[u] = "no"
  BY NobodyElse DEF Elsewhere
<1>2. QED
  BY <1>1 DEF Reached

\* request_stop() raises the flag for whoever is in a motion.
LEMMA RequestReached ==
  ASSUME Ind, Reached, NEW t \in Threads, Elsewhere(t), pc[t] \notin Body, pc'[t] \notin Body,
         RequestStop
  PROVE  Reached'
<1>1. cancel' = TRUE
  BY DEF RequestStop
<1>2. ASSUME NEW u \in Threads PROVE (hit'[u] # "no" => pc'[u] \in Body) /\ hit'[u] # "late"
  <2>1. hit'[u] = IF Motion(u) /\ hit[u] = "no" THEN "hit" ELSE hit[u]
    BY DEF RequestStop, Reach
  <2>2. pc[u] \in Body => pc'[u] \in Body
    BY DEF Elsewhere
  <2>3. QED
    BY <2>1, <2>2 DEF Motion, Reached
<1>3. QED
  BY <1>1, <1>2 DEF Reached

\* While the commander acquires, no motion runs.
LEMMA NoMotionYet ==
  ASSUME OneCommander, Asked, NEW t \in Threads, pc[t] \in Acquiring, NEW u \in Threads
  PROVE  pc[u] \notin Body
<1>1. PICK c \in Threads : \A v \in Threads \ {c} :
              Sends[v] \cap (Motions \cup {"acquire", "force"}) = {}
  BY DEF OneCommander
<1>2. rpc[t] \in Sends[t] \cap {"acquire", "force"}
  BY DEF Asked, Acquiring
<1>3. t = c
  BY <1>1, <1>2
<1>4. ASSUME pc[u] \in Body PROVE FALSE
  <2>1. rpc[u] \in Motions /\ rpc[u] \in Sends[u] \cup {"none"}
    BY <1>4 DEF Asked
  <2>2. u = c
    BY <1>1, <2>1 DEF Motions
  <2>3. pc[u] \notin Acquiring
    BY <1>4 DEF Body, Stages, InChunk, Acquiring
  <2>4. QED
    BY <1>3, <2>2, <2>3
<1>5. QED
  BY <1>4

LEMMA HandlerReached ==
  ASSUME OneCommander, Ind, Asked, Reached, NEW t \in Threads, Handler(t)
  PROVE  Reached'
<1>. Elsewhere(t) /\ pc[t] \notin Body /\ pc'[t] \notin Body
  BY HandlerFrame, HandlerOutside DEF StaysOut
<1>1. CASE UNCHANGED <<cancel, hit>>
  BY <1>1 DEF Elsewhere, Reached
<1>2. CASE RequestStop
  BY <1>2, RequestReached
<1>3. CASE pc[t] = "after" /\ UNCHANGED hit
  <2>1. \A u \in Threads : pc[u] \notin Body
    BY <1>3, NoMotionYet DEF Acquiring
  <2>2. \A u \in Threads : hit'[u] = "no"
    BY <1>3, <2>1 DEF Reached
  <2>3. QED
    BY <2>2 DEF Reached
<1>4. QED
  BY <1>1, <1>2, <1>3, HandlerFlag

LEMMA MoverReached ==
  ASSUME NoRitual, Ind, Asked, Planned, Reached, NEW t \in Threads, Mover(t)
  PROVE  Reached'
<1>. LocalTypes /\ SharedTypes
  BY DEF Ind
<1>. Elsewhere(t)
  BY MoverFrame DEF Moves
<1>1. CASE MotionLock(t)
  <2>1. pc[t] \notin Body /\ pc'[t] \notin Body /\ UNCHANGED <<cancel, hit>>
    BY <1>1 DEF MotionLock, Return, Move, Goto, LocalTypes, Body, Stages, InChunk
  <2>2. QED
    BY <2>1 DEF Elsewhere, Reached
<1>2. CASE HoldCheck(t) \/ MotionUnlock(t)
  <2>1. pc[t] \in Locked \ Body /\ pc'[t] \notin Body /\ UNCHANGED hit
    BY <1>2 DEF HoldCheck, MotionUnlock, Return, Move, Goto, LocalTypes, Locked, Body,
       Stages, InChunk
  <2>2. hit'[t] = "no"
    BY <2>1 DEF Reached
  <2>3. QED
    BY <2>1, <2>2, AloneReached
<1>3. CASE Unpin(t)
  <2>1. pc[t] \in Locked /\ hit' = [hit EXCEPT ![t] = "no"]
    BY <1>3 DEF Unpin, Locked, Body
  <2>2. hit'[t] = "no" /\ \A u \in Threads \ {t} : hit'[u] = hit[u]
    BY <2>1 DEF SharedTypes
  <2>3. QED
    BY <2>1, <2>2, AloneReached
<1>4. CASE Pin(t)
  <2>1. pc[t] \in Locked \ Body /\ UNCHANGED hit
    BY <1>4 DEF Pin, Locked, Body, Stages, InChunk
  <2>2. hit'[t] = "no"
    BY <2>1 DEF Reached
  <2>3. QED
    BY <2>1, <2>2, AloneReached
<1>5. CASE Call(t) \/ EntryAbort(t) \/ ChunkEnd(t) \/ Settle(t) \/ Gate(t) \/ Raise(t)
  <2>1. PICK q \in Plan :
          /\ Proceed(t, q)
          /\ Streams(q) => Streams(todo[t])
          /\ pc[t] \in InChunk \cup {"chunk"} => ~Streams(q)
    BY <1>5, StageEnd
  <2>2. todo'[t] = q /\ pc'[t] \in Body
    <3>1. todo'[t] = q
      BY <2>1, ProceedPlanned
    <3>2. pc'[t] = IF q = <<>> THEN "unpin" ELSE Head(q)
      BY <2>1 DEF Proceed, Goto, LocalTypes
    <3>3. q # <<>> => Head(q) \in {"call", "chunk", "settle"}
      BY PlanTail
    <3>4. QED
      BY <3>1, <3>2, <3>3 DEF Body, Stages
  <2>3. pc[t] \in (Stages \cup InChunk) /\ UNCHANGED hit
    BY <1>5 DEF Call, EntryAbort, ChunkEnd, Settle, Gate, Raise, Stages, InChunk
  <2>4. pc[t] \in Locked /\ pc[t] \in Body /\ pc[t] # "unpin"
    BY <2>3 DEF Locked, Body, Stages, InChunk
  <2>5. CASE Streams(q)
    <3>1. pc[t] \notin InChunk \cup {"chunk"}
      BY <2>1, <2>5
    <3>2. /\ pc[t] \in Stages => pc[t] = Head(todo[t])
          /\ todo[t] \in Plan /\ todo[t] # <<>>
      BY <2>3 DEF Planned
    <3>3. Head(todo[t]) \in {"call", "chunk", "settle"}
      BY <3>2, PlanTail
    <3>4. pc[t] \notin {"chunk", "halt", "lift"}
      BY <3>1, <3>2, <3>3 DEF InChunk, Stages
    <3>5. UNCHANGED cancel
      BY <1>5, <3>4 DEF Call, EntryAbort, ChunkEnd, Settle, Gate, Raise, serverVars
    <3>6. pc[t] \in Body \ {"unpin", "halt"} /\ Streams(todo[t])
      BY <2>1, <2>4, <2>5, <3>4
    <3>7. hit[t] = "hit" => cancel'
      BY <3>5, <3>6 DEF Reached
    <3>8. QED
      BY <2>2, <2>3, <2>4, <3>7, AloneReached DEF Reached
  <2>6. CASE ~Streams(q)
    BY <2>2, <2>3, <2>4, <2>6, AloneReached DEF Reached
  <2>7. QED
    BY <2>5, <2>6
<1>6. CASE InsideChunk(t)
  <2>1. /\ todo' = todo /\ pc'[t] \in InChunk
        /\ todo[t] \in Plan /\ todo[t] # <<>> /\ Head(todo[t]) = "chunk"
    BY <1>6, ChunkStays
  <2>2. pc[t] \in Locked /\ pc[t] \in Body \ {"unpin", "halt"} /\ pc'[t] \in Body
    BY <1>6, <2>1 DEF InsideChunk, Entry, Arm, TickCancel, TickProtect, TickStream, Stream,
       Locked, Body, Stages, InChunk
  <2>3. hit[t] # "late" /\ (hit[t] = "hit" => cancel)
    BY <2>1, <2>2, PlanTail DEF Reached
  <2>4. CASE TickCancel(t)
    <3>1. UNCHANGED hit /\ pc'[t] = "halt"
      BY <2>4 DEF TickCancel, Move, Goto, LocalTypes
    <3>2. QED
      BY <2>2, <2>3, <3>1, AloneReached
  <2>5. CASE TickStream(t)
    <3>1. hit[t] = "no"
      BY <2>3, <2>5 DEF TickStream, SharedTypes
    <3>2. UNCHANGED <<cancel, hit>>
      BY <2>5, <3>1 DEF TickStream, serverVars
    <3>3. QED
      BY <2>2, <3>1, <3>2, AloneReached
  <2>6. CASE Entry(t) \/ Arm(t) \/ TickProtect(t) \/ Stream(t)
    <3>1. UNCHANGED <<cancel, hit>>
      BY <2>6 DEF Entry, Arm, TickProtect, Stream, serverVars
    <3>2. QED
      BY <2>2, <2>3, <3>1, AloneReached
  <2>7. QED
    BY <1>6, <2>4, <2>5, <2>6 DEF InsideChunk
<1>7. QED
  BY <1>1, <1>2, <1>3, <1>4, <1>5, <1>6 DEF Mover, InsideChunk

LEMMA ReachedStep ==
  ASSUME NoRitual, OneCommander, Ind, Asked, Planned, Reached, [Next]_vars
  PROVE  Reached'
<1>1. ASSUME NEW t \in Threads, NEW m \in Methods, Receive(t, m), UNCHANGED <<cancel, hit>>
      PROVE  Reached'
  BY <1>1, ReceiveFrame DEF Elsewhere, Reached
<1>2. CASE UNCHANGED <<pc, rpc, todo>> /\ UNCHANGED <<cancel, hit>>
  BY <1>2 DEF Reached
<1>3. QED
  BY <1>1, <1>2, HandlerReached, MoverReached, OtherFrame

\* A stop request that reaches a motion ends its setpoints at the next tick, for
\* any number of connections of which one moves the robot, in sessions without a
\* homing ritual (server.py:424-429, robot.py:283-285).
THEOREM StopsHold == ASSUME NoRitual, OneCommander PROVE Spec => []StopHolds
<1>1. Init => StopInd
  BY DEF Init, StopInd, Asked, Planned, Reached, Body, Stages, InChunk, Acquiring
<1>2. Ind /\ StopInd /\ [Next]_vars => StopInd'
  BY AskedStep, PlannedStep, ReachedStep DEF StopInd
<1>3. StopInd => StopHolds
  BY DEF StopInd, Reached, StopHolds
<1>4. QED
  BY Inductive, <1>1, <1>2, <1>3, PTL DEF Spec
==============================================================================
