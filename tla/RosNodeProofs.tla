----------------------------- MODULE RosNodeProofs -----------------------------
(***************************************************************************)
(* Theorems about RosNode for any number of executor threads, any motion   *)
(* modes clients may ask for and chunks of any length, however many of the *)
(* callbacks run at the same time.                                         *)
(***************************************************************************)
EXTENDS RosNode, FiniteSetTheorems, SequenceTheorems, TLAPS

Spaces == {"NRT_CARTESIAN", "NRT_JOINT"}

-----------------------------------------------------------------------------
(* What may be left of a callback: the programs that start with a step and go *)
(* on as one of a set.                                                        *)

Op(s, Q) == {<<s>> \o q : q \in Q}

\* At the start of read_state; and anywhere in it.
Reads(Q) == Op(Do("look", "IDLE"), Op(Do("report", "IDLE"), Q))
Looked(Q) == Op(Do("report", "IDLE"), Q)
Corrects(Q) == Op(Do("sync", "IDLE"), Looked(Q))
Reading(Q) == Reads(Q) \cup Corrects(Q) \cup Looked(Q)

\* stop() of the backend and of the facade.
Forgets(Q) == Op(Do("cache", "IDLE"), Q)
Halts(Q) == Op(Do("halt", "IDLE"), Forgets(Q))
Stopping == Op(Do("cancel", "IDLE"), Halts({<<>>})) \cup Halts({<<>>}) \cup Forgets({<<>>})

\* set_mode(m).
Guards(m, Q) == IF m \in Cartesian THEN Op(Do("guard", m), Q) ELSE Q
Caches(m, Q) == Op(Do("cache", m), Guards(m, Q))
Switches(m, Q) == Op(Do("switch", m), Caches(m, Q))
Setting(m, Q) == Switches(m, Q) \cup Caches(m, Q)
                 \cup (IF m \in Cartesian THEN Guards(m, Q) ELSE {})

\* A motion, from its end to its beginning.
Ends == {<<>>, <<Do("finish", "IDLE")>>}
Over == Ends \cup Reading(Ends) \cup Halts(Reads(Ends)) \cup Forgets(Reads(Ends)) \cup Stopping
Ticking(m) == UNION {Op(Tick(m, n), Reads(Ends)) : n \in 0 .. Ticks}
Sending(m) == Op(Do("send", m), Ticking(m))
Gating(m) == Op(Do("gate", m), Sending(m))
Ensuring(m) == Op(Do("ensure", m), Ticking(m))
Entering(m) == Op(Do("enter", m), Reads(Ensuring(m)))
Homing == Reading(Switches("NRT_JOINT", Entering("NRT_JOINT")))
          \cup Setting("NRT_JOINT", Entering("NRT_JOINT"))

Booting == Setting("NRT_CARTESIAN", Reads({<<Do("ready", "IDLE")>>}))
           \cup Reading({<<Do("ready", "IDLE")>>}) \cup {<<Do("ready", "IDLE")>>, <<>>}

-----------------------------------------------------------------------------
(* What is known of the arm, the cache and the flag where a motion is *)

\* A stop that came is still to be seen, and until it is the arm stays put.
Clear(w)   == told[w] # "told"
Heard(w)   == told[w] = "told" => cancel
Stilled(w) == told[w] = "told" => cancel /\ (arm = "IDLE" \/ HaltAhead)

\* The cache is IDLE when the arm is; the mode is the one the motion sends in, but
\* for a cache that is wrong about an arm in a mode.
Wrong == arm # "IDLE" /\ cached \notin {"IDLE", arm}
Honest(w) == calm[w] => cached = "IDLE" \/ arm # "IDLE"
Fit(w, m) == calm[w] /\ ~Wrong => cached = arm /\ arm = Sends(m)

\* Where a motion in one space is, from its entry to its last setpoint.
Along(w, m) ==
  \/ todo[w] \in Entering(m) \cup Reading(Entering(m)) /\ Clear(w)
  \/ todo[w] \in Reads(Ensuring(m)) \cup Corrects(Ensuring(m)) /\ Heard(w)
  \/ todo[w] \in Looked(Ensuring(m)) /\ Heard(w) /\ Honest(w)
  \/ /\ todo[w] \in Ensuring(m) /\ Heard(w) /\ Honest(w)
     /\ calm[w] => seen[w] = cached
  \/ todo[w] \in Switches(m, Reads(Ticking(m))) /\ Heard(w)
  \/ /\ todo[w] \in Caches(m, Reads(Ticking(m))) /\ Heard(w)
     /\ calm[w] => arm = m
  \/ todo[w] \in Guards(m, Reads(Ticking(m))) /\ Heard(w) /\ Fit(w, m)
  \/ todo[w] \in Reads(Ticking(m)) \cup Looked(Ticking(m)) \cup Ticking(m) /\ Heard(w) /\ Fit(w, m)
  \/ todo[w] \in Corrects(Ticking(m)) /\ Heard(w) /\ ~calm[w]
  \/ /\ todo[w] \in Reads(Gating(m)) \cup Looked(Gating(m)) \cup Gating(m) \cup Sending(m)
     /\ Stilled(w) /\ Fit(w, m)
  \/ todo[w] \in Corrects(Gating(m)) /\ Stilled(w) /\ ~calm[w]

Moving(w) ==
  \/ todo[w] \in Over
  \/ todo[w] \in Homing /\ Clear(w)
  \/ \E m \in Spaces : Along(w, m)

Placed(w) ==
  \/ kind[w] = "none" /\ todo[w] = <<>> /\ Clear(w)
  \/ kind[w] = "boot" /\ todo[w] \in Booting /\ Clear(w)
  \/ kind[w] = "publish" /\ todo[w] \in {<<>>} \cup Reading({<<>>}) /\ Clear(w)
  \/ kind[w] = "stop" /\ todo[w] \in {<<>>} \cup Stopping /\ Clear(w)
  \/ /\ kind[w] = "mode" /\ Clear(w)
     /\ \E m \in Motion : todo[w] \in {<<>>} \cup Setting(m, {<<>>})
  \/ kind[w] \in {"jog", "goal", "home"} /\ Moving(w)

-----------------------------------------------------------------------------
\* The constructor runs alone, and once.
BootsAlone ==
  /\ ~up => \A w \in Workers : kind[w] \in {"none", "boot"}
  /\ \A w \in Workers : kind[w] = "boot" /\ todo[w] # <<>> => ~up
  /\ \A v, w \in Workers : kind[v] = "boot" /\ kind[w] = "boot" => v = w

\* Unless two starts have crossed, the cache is only wrong about an arm in a mode
\* between the switch and the assignment.
NextIs(w, s) == todo[w] # <<>> /\ Head(todo[w]) = s
Believed ==
  /\ cached # "PRIMITIVE"
  /\ ~crossed => ~Wrong \/ (arm \in Motion /\ \E w \in Workers : NextIs(w, Do("cache", arm)))
  /\ ~crossed => \A w \in Workers, m \in Motion : NextIs(w, Do("cache", m)) => arm \in {m, "IDLE"}

\* An arm in a Cartesian mode is armed, or about to be.
Watched ==
  arm \in Cartesian =>
    \/ armed
    \/ \E w \in Workers, m \in Cartesian :
         NextIs(w, Do("guard", m)) \/ NextIs(w, Do("cache", m))

Inv == (\A w \in Workers : Placed(w)) /\ BootsAlone /\ Believed /\ Watched

-----------------------------------------------------------------------------
(* Programs *)

LEMMA StepTypes ==
  /\ \A op \in Ops, m \in Modes : Do(op, m) \in Step
  /\ \A m \in Motion, n \in 0 .. Ticks : Tick(m, n) \in Step
  /\ \A op, m : Do(op, m).op = op /\ Do(op, m).mode = m
  /\ \A m, n : Tick(m, n).op = "tick" /\ Tick(m, n).mode = m /\ Tick(m, n).left = n
BY DEF Step, Do, Tick

\* A program is its first step and the rest.
LEMMA OpParts ==
  ASSUME NEW Q \in SUBSET Seq(Step), NEW s \in Step, NEW q \in Op(s, Q)
  PROVE  q \in Seq(Step) /\ q # <<>> /\ Head(q) = s /\ Tail(q) \in Q
<1>1. PICK r \in Q : q = <<s>> \o r
  BY DEF Op
<1>2. r \in Seq(Step) /\ <<s>> \in Seq(Step)
  OBVIOUS
<1>3. q \in Seq(Step) /\ Len(q) = Len(r) + 1 /\ q[1] = s
      /\ \A i \in 1 .. Len(r) : q[i + 1] = r[i]
  BY <1>1, <1>2
<1>4. Head(q) = s /\ q # <<>>
  BY <1>2, <1>3
<1>5. Tail(q) \in Seq(Step) /\ Len(Tail(q)) = Len(r)
      /\ \A i \in 1 .. Len(r) : Tail(q)[i] = r[i]
  BY <1>2, <1>3, <1>4
<1>6. Tail(q) = r
  BY <1>2, <1>5
<1>7. QED
  BY <1>3, <1>4, <1>6

LEMMA OpType ==
  ASSUME NEW Q \in SUBSET Seq(Step), NEW s \in Step PROVE Op(s, Q) \in SUBSET Seq(Step)
BY OpParts

LEMMA OpIn == ASSUME NEW Q, NEW s, NEW q \in Q PROVE <<s>> \o q \in Op(s, Q)
BY DEF Op

\* Two steps in front of a program are one in front of one.
LEMMA TwoSteps ==
  ASSUME NEW s \in Step, NEW t \in Step, NEW q \in Seq(Step)
  PROVE  <<s, t>> \o q = <<s>> \o (<<t>> \o q)
<1>1. <<s>> \in Seq(Step) /\ <<t>> \in Seq(Step)
  OBVIOUS
<1>2. <<s>> \o <<t>> = <<s, t>>
  <2>1. /\ <<s>> \o <<t>> \in Seq(Step) /\ <<s, t>> \in Seq(Step)
        /\ Len(<<s>> \o <<t>>) = 2 /\ Len(<<s, t>>) = 2
        /\ (<<s>> \o <<t>>)[1] = s /\ (<<s>> \o <<t>>)[2] = t
    BY <1>1
  <2>2. \A i \in 1 .. 2 : (<<s>> \o <<t>>)[i] = <<s, t>>[i]
    BY <2>1
  <2>3. QED
    BY <2>1, <2>2, SeqEqual
<1>3. (<<s>> \o <<t>>) \o q = <<s>> \o (<<t>> \o q)
  BY <1>1, ConcatAssociative
<1>4. QED
  BY <1>2, <1>3

\* What the methods come to, in front of a program.
LEMMA MethodsIn ==
  ASSUME NEW Q \in SUBSET Seq(Step), NEW q \in Q
  PROVE  /\ ReadState \o q \in Reads(Q)
         /\ HaltArm \o q \in Halts(Q)
         /\ \A m \in Motion : SetMode(m) \o q \in Switches(m, Q)
<1>. q \in Seq(Step)
  OBVIOUS
<1>1. \A op \in Ops, m \in Modes : Do(op, m) \in Step
  BY StepTypes
<1>2. {"look", "report", "halt", "cache", "switch", "guard"} \subseteq Ops
      /\ "IDLE" \in Modes /\ Motion \subseteq Modes
  BY DEF Ops, Modes
<1>3. ReadState \o q = <<Do("look", "IDLE")>> \o (<<Do("report", "IDLE")>> \o q)
  BY <1>1, <1>2, TwoSteps DEF ReadState
<1>4. HaltArm \o q = <<Do("halt", "IDLE")>> \o (<<Do("cache", "IDLE")>> \o q)
  BY <1>1, <1>2, TwoSteps DEF HaltArm
<1>5. ASSUME NEW m \in Motion PROVE SetMode(m) \o q \in Switches(m, Q)
  <2>. DEFINE two == <<Do("switch", m), Do("cache", m)>>
              end == IF m \in Cartesian THEN <<Do("guard", m)>> ELSE <<>>
  <2>1. Do("switch", m) \in Step /\ Do("cache", m) \in Step /\ Do("guard", m) \in Step
    BY <1>1, <1>2
  <2>2. two \in Seq(Step) /\ end \in Seq(Step)
    BY <2>1
  <2>3. SetMode(m) \o q = two \o (end \o q)
    BY <2>2, ConcatAssociative DEF SetMode
  <2>4. end \o q \in Guards(m, Q)
    BY OpIn, ConcatEmptySeq DEF Guards
  <2>5. end \o q \in Seq(Step)
    BY <2>2
  <2>6. two \o (end \o q) = <<Do("switch", m)>> \o (<<Do("cache", m)>> \o (end \o q))
    BY <2>1, <2>5, TwoSteps
  <2>7. QED
    BY <2>3, <2>4, <2>6, OpIn DEF Switches, Caches
<1>6. QED
  BY <1>3, <1>4, <1>5, OpIn DEF Reads, Halts, Forgets

\* The one program of stop() of the backend.
LEMMA HaltIs ==
  /\ \A q \in Halts({<<>>}) : q = HaltArm
  /\ HaltArm # <<>> /\ Head(HaltArm).op = "halt"
<1>1. Do("halt", "IDLE") \in Step /\ Do("cache", "IDLE") \in Step
      /\ Do("halt", "IDLE").op = "halt"
  BY StepTypes DEF Ops, Modes
<1>2. HaltArm \in Seq(Step) /\ <<>> \in Seq(Step)
  BY <1>1 DEF HaltArm
<1>3. HaltArm \o <<>> = HaltArm
  BY <1>2, ConcatEmptySeq
<1>4. HaltArm \o <<>> = <<Do("halt", "IDLE")>> \o (<<Do("cache", "IDLE")>> \o <<>>)
  BY <1>1, <1>2, TwoSteps DEF HaltArm
<1>5. \A q \in Halts({<<>>}) : q = HaltArm
  BY <1>3, <1>4 DEF Halts, Forgets, Op
<1>6. QED
  BY <1>1, <1>5 DEF HaltArm

-----------------------------------------------------------------------------
(* The sets of programs are programs *)

LEMMA EndTypes ==
  /\ {<<>>} \in SUBSET Seq(Step) /\ Ends \in SUBSET Seq(Step)
  /\ {<<Do("ready", "IDLE")>>} \in SUBSET Seq(Step)
<1>1. Do("finish", "IDLE") \in Step /\ Do("ready", "IDLE") \in Step
  BY StepTypes DEF Ops, Modes
<1>2. QED
  BY <1>1 DEF Ends

LEMMA ReadTypes ==
  ASSUME NEW Q \in SUBSET Seq(Step)
  PROVE  /\ Reads(Q) \in SUBSET Seq(Step) /\ Looked(Q) \in SUBSET Seq(Step)
         /\ Corrects(Q) \in SUBSET Seq(Step) /\ Reading(Q) \in SUBSET Seq(Step)
         /\ Forgets(Q) \in SUBSET Seq(Step) /\ Halts(Q) \in SUBSET Seq(Step)
<1>1. {Do("look", "IDLE"), Do("report", "IDLE"), Do("sync", "IDLE"), Do("cache", "IDLE"),
       Do("halt", "IDLE")} \subseteq Step
  BY StepTypes DEF Ops, Modes
<1>2. Looked(Q) \in SUBSET Seq(Step) /\ Forgets(Q) \in SUBSET Seq(Step)
  BY <1>1, OpType DEF Looked, Forgets
<1>3. /\ Reads(Q) \in SUBSET Seq(Step) /\ Corrects(Q) \in SUBSET Seq(Step)
      /\ Halts(Q) \in SUBSET Seq(Step)
  BY <1>1, <1>2, OpType DEF Reads, Corrects, Halts, Looked
<1>4. QED
  BY <1>2, <1>3 DEF Reading

LEMMA SetTypes ==
  ASSUME NEW Q \in SUBSET Seq(Step), NEW m \in Motion
  PROVE  /\ Guards(m, Q) \in SUBSET Seq(Step) /\ Caches(m, Q) \in SUBSET Seq(Step)
         /\ Switches(m, Q) \in SUBSET Seq(Step) /\ Setting(m, Q) \in SUBSET Seq(Step)
<1>1. Do("switch", m) \in Step /\ Do("cache", m) \in Step /\ Do("guard", m) \in Step
  BY StepTypes DEF Ops, Modes
<1>2. Guards(m, Q) \in SUBSET Seq(Step)
  BY <1>1, OpType DEF Guards
<1>3. Caches(m, Q) \in SUBSET Seq(Step)
  BY <1>1, <1>2, OpType DEF Caches
<1>4. Switches(m, Q) \in SUBSET Seq(Step)
  BY <1>1, <1>3, OpType DEF Switches
<1>5. QED
  BY <1>2, <1>3, <1>4 DEF Setting

LEMMA SpaceTypes == Spaces \subseteq Motion
BY DEF Spaces, Motion, Cartesian, Joint

LEMMA MotionTypes ==
  ASSUME NEW m \in Spaces
  PROVE  /\ Ticking(m) \in SUBSET Seq(Step) /\ Sending(m) \in SUBSET Seq(Step)
         /\ Gating(m) \in SUBSET Seq(Step) /\ Ensuring(m) \in SUBSET Seq(Step)
         /\ Entering(m) \in SUBSET Seq(Step)
<1>1. m \in Motion /\ m \in Modes
  BY SpaceTypes DEF Modes
<1>2. \A n \in 0 .. Ticks : Tick(m, n) \in Step
  BY <1>1, StepTypes
<1>3. {Do("send", m), Do("gate", m), Do("ensure", m), Do("enter", m)} \subseteq Step
  BY <1>1, StepTypes DEF Ops
<1>4. \A n \in 0 .. Ticks : Op(Tick(m, n), Reads(Ends)) \in SUBSET Seq(Step)
  BY <1>2, EndTypes, ReadTypes, OpType
<1>5. Ticking(m) \in SUBSET Seq(Step)
  BY <1>4 DEF Ticking
<1>6. Sending(m) \in SUBSET Seq(Step) /\ Ensuring(m) \in SUBSET Seq(Step)
  BY <1>3, <1>5, OpType DEF Sending, Ensuring
<1>7. Gating(m) \in SUBSET Seq(Step)
  BY <1>3, <1>6, OpType DEF Gating
<1>8. Entering(m) \in SUBSET Seq(Step)
  BY <1>3, <1>6, ReadTypes, OpType DEF Entering
<1>9. QED
  BY <1>5, <1>6, <1>7, <1>8

-----------------------------------------------------------------------------
(* Where the callbacks and the steps that put steps in front come in *)

LEMMA MethodTypes ==
  /\ ReadState \in Seq(Step) /\ HaltArm \in Seq(Step)
  /\ \A m \in Motion : SetMode(m) \in Seq(Step)
<1>1. /\ {Do("look", "IDLE"), Do("report", "IDLE"), Do("cache", "IDLE"), Do("halt", "IDLE")}
           \subseteq Step
      /\ \A m \in Motion : {Do("switch", m), Do("cache", m), Do("guard", m)} \subseteq Step
  BY StepTypes DEF Ops, Modes
<1>2. ReadState \in Seq(Step) /\ HaltArm \in Seq(Step)
  BY <1>1 DEF ReadState, HaltArm
<1>3. ASSUME NEW m \in Motion PROVE SetMode(m) \in Seq(Step)
  <2>1. <<Do("switch", m), Do("cache", m)>> \in Seq(Step)
        /\ <<Do("guard", m)>> \in Seq(Step) /\ <<>> \in Seq(Step)
    BY <1>1
  <2>2. QED
    BY <2>1, ConcatProperties DEF SetMode
<1>4. QED
  BY <1>2, <1>3

LEMMA MethodsAlone ==
  /\ ReadState \in Reads({<<>>})
  /\ StopRobot \in Stopping
  /\ \A m \in Motion : SetMode(m) \in Switches(m, {<<>>})
<1>1. /\ ReadState \o <<>> = ReadState /\ HaltArm \o <<>> = HaltArm
      /\ \A m \in Motion : SetMode(m) \o <<>> = SetMode(m)
  BY MethodTypes, ConcatEmptySeq
<1>2. HaltArm \in Halts({<<>>})
  BY <1>1, MethodsIn, EndTypes
<1>3. StopRobot \in Op(Do("cancel", "IDLE"), Halts({<<>>}))
  BY <1>2, OpIn DEF StopRobot
<1>4. QED
  BY <1>1, <1>3, MethodsIn, EndTypes DEF Stopping

LEMMA RunIn ==
  ASSUME NEW m \in Spaces, NEW n \in 0 .. Ticks, NEW f \in Ends
  PROVE  Run(m, n) \o f \in Entering(m)
<1>. DEFINE enter == <<Do("enter", m)>>
            mid == <<Do("ensure", m), Tick(m, n)>>
            end == ReadState \o f
<1>1. m \in Motion /\ m \in Modes
  BY SpaceTypes DEF Modes
<1>2. Do("enter", m) \in Step /\ Do("ensure", m) \in Step /\ Tick(m, n) \in Step
  BY <1>1, StepTypes DEF Ops
<1>3. enter \in Seq(Step) /\ mid \in Seq(Step) /\ ReadState \in Seq(Step) /\ f \in Seq(Step)
  BY <1>2, MethodTypes, EndTypes
<1>4. end \in Seq(Step) /\ mid \o end \in Seq(Step)
  BY <1>3, ConcatProperties
<1>5. enter \o ReadState \in Seq(Step) /\ (enter \o ReadState) \o mid \in Seq(Step)
  BY <1>3, ConcatProperties
<1>6. Run(m, n) \o f = ((enter \o ReadState) \o mid) \o (ReadState \o f)
  BY <1>3, <1>5, ConcatAssociative DEF Run
<1>7. ((enter \o ReadState) \o mid) \o end = (enter \o ReadState) \o (mid \o end)
  BY <1>3, <1>4, <1>5, ConcatAssociative
<1>8. (enter \o ReadState) \o (mid \o end) = enter \o (ReadState \o (mid \o end))
  BY <1>3, <1>4, ConcatAssociative
<1>9. mid \o end = <<Do("ensure", m)>> \o (<<Tick(m, n)>> \o end)
  BY <1>2, <1>4, TwoSteps
<1>10. end \in Reads(Ends)
  BY MethodsIn, EndTypes
<1>11. mid \o end \in Ensuring(m)
  BY <1>9, <1>10, OpIn DEF Ensuring, Ticking
<1>12. ReadState \o (mid \o end) \in Reads(Ensuring(m))
  BY <1>11, MethodsIn, MotionTypes
<1>13. QED
  BY <1>6, <1>7, <1>8, <1>12, OpIn DEF Entering

LEMMA RunTypes == \A m \in Spaces, n \in 0 .. Ticks : Run(m, n) \in Seq(Step) /\ Run(m, n) \in Entering(m)
<1> SUFFICES ASSUME NEW m \in Spaces, NEW n \in 0 .. Ticks
             PROVE  Run(m, n) \in Seq(Step) /\ Run(m, n) \in Entering(m)
  OBVIOUS
<1>1. /\ <<Do("enter", m)>> \in Seq(Step)
      /\ <<Do("ensure", m), Tick(m, n)>> \in Seq(Step)
  BY StepTypes, SpaceTypes DEF Ops, Modes
<1>2. Run(m, n) \in Seq(Step)
  BY <1>1, MethodTypes, ConcatProperties DEF Run
<1>3. Run(m, n) \o <<>> = Run(m, n)
  BY <1>2, ConcatEmptySeq
<1>4. QED
  BY <1>2, <1>3, RunIn DEF Ends

LEMMA CallbacksIn ==
  /\ Callback.publish \in Reads({<<>>}) /\ Callback.stop \in Stopping
  /\ Callback.jog \in Reads(Entering("NRT_CARTESIAN"))
  /\ Callback.goal \in Entering("NRT_CARTESIAN")
  /\ Callback.home \in Reads(Switches("NRT_JOINT", Entering("NRT_JOINT")))
<1>1. {"NRT_CARTESIAN", "NRT_JOINT"} = Spaces /\ 1 \in 0 .. Ticks /\ Ticks \in 0 .. Ticks
      /\ "NRT_JOINT" \in Motion
  BY NodeAssumption DEF Spaces, Motion, Joint
<1>2. /\ Callback.publish = ReadState /\ Callback.stop = StopRobot /\ Callback.jog = Jog
      /\ Callback.goal = Run("NRT_CARTESIAN", Ticks) \o <<Do("finish", "IDLE")>>
      /\ Callback.home = ReadState \o SetMode("NRT_JOINT") \o Run("NRT_JOINT", Ticks)
  BY DEF Callback
<1>3. Jog \in Reads(Entering("NRT_CARTESIAN"))
  BY <1>1, RunTypes, MethodsIn, MotionTypes DEF Jog
<1>4. Callback.goal \in Entering("NRT_CARTESIAN")
  BY <1>1, <1>2, RunIn DEF Ends
<1>5. Run("NRT_JOINT", Ticks) \in Seq(Step) /\ Run("NRT_JOINT", Ticks) \in Entering("NRT_JOINT")
  BY <1>1, RunTypes
<1>6. ReadState \o SetMode("NRT_JOINT") \o Run("NRT_JOINT", Ticks)
        = ReadState \o (SetMode("NRT_JOINT") \o Run("NRT_JOINT", Ticks))
  <2>1. SetMode("NRT_JOINT") \in Seq(Step) /\ ReadState \in Seq(Step)
    BY <1>1, MethodTypes
  <2>2. QED
    BY <1>5, <2>1, ConcatAssociative
<1>7. SetMode("NRT_JOINT") \o Run("NRT_JOINT", Ticks) \in Switches("NRT_JOINT", Entering("NRT_JOINT"))
  BY <1>1, <1>5, MethodsIn, MotionTypes
<1>8. Callback.home \in Reads(Switches("NRT_JOINT", Entering("NRT_JOINT")))
  BY <1>1, <1>2, <1>6, <1>7, MethodsIn, MotionTypes, SetTypes
<1>9. QED
  BY <1>2, <1>3, <1>4, <1>8, MethodsAlone

LEMMA BootIn ==
  SetMode("NRT_CARTESIAN") \o ReadState \o <<Do("ready", "IDLE")>>
    \in Switches("NRT_CARTESIAN", Reads({<<Do("ready", "IDLE")>>}))
<1>1. "NRT_CARTESIAN" \in Motion /\ <<Do("ready", "IDLE")>> \in Seq(Step)
  BY EndTypes DEF Motion, Cartesian
<1>2. SetMode("NRT_CARTESIAN") \o ReadState \o <<Do("ready", "IDLE")>>
        = SetMode("NRT_CARTESIAN") \o (ReadState \o <<Do("ready", "IDLE")>>)
  BY <1>1, MethodTypes, ConcatAssociative
<1>3. ReadState \o <<Do("ready", "IDLE")>> \in Reads({<<Do("ready", "IDLE")>>})
  BY MethodsIn, EndTypes
<1>4. QED
  BY <1>1, <1>2, <1>3, MethodsIn, EndTypes, ReadTypes

\* Starting the mode before a chunk; and a tick that goes on.
LEMMA EnsureIn ==
  ASSUME NEW m \in Spaces, NEW q \in Ticking(m)
  PROVE  /\ <<>> \o q = q
         /\ (SetMode(m) \o ReadState) \o q \in Switches(m, Reads(Ticking(m)))
<1>1. q \in Seq(Step) /\ m \in Motion
  BY MotionTypes, SpaceTypes
<1>2. (SetMode(m) \o ReadState) \o q = SetMode(m) \o (ReadState \o q)
  BY <1>1, MethodTypes, ConcatAssociative
<1>3. QED
  BY <1>1, <1>2, MethodsIn, MotionTypes, ReadTypes, ConcatEmptySeq

LEMMA SetpointIn ==
  ASSUME NEW m \in Spaces, NEW n \in 0 .. Ticks, n # 0, NEW q \in Reads(Ends)
  PROVE  Setpoint(Tick(m, n)) \o q \in Reads(Gating(m))
<1>. DEFINE g == Do("gate", m)
            s == Do("send", m)
            t == Tick(m, n - 1)
<1>1. m \in Motion /\ m \in Modes /\ n - 1 \in 0 .. Ticks
  BY SpaceTypes, NodeAssumption DEF Modes
<1>2. g \in Step /\ s \in Step /\ t \in Step
  BY <1>1, StepTypes DEF Ops
<1>3. q \in Seq(Step) /\ <<g, s, t>> \in Seq(Step) /\ <<t>> \o q \in Seq(Step)
      /\ <<g>> \in Seq(Step) /\ <<s, t>> \in Seq(Step)
  BY <1>2, ReadTypes, EndTypes
<1>4. Setpoint(Tick(m, n)) = ReadState \o <<g, s, t>>
  BY StepTypes DEF Setpoint
<1>5. Setpoint(Tick(m, n)) \o q = ReadState \o (<<g, s, t>> \o q)
  BY <1>3, <1>4, MethodTypes, ConcatAssociative
<1>6. <<g, s, t>> = <<g>> \o <<s, t>>
  <2>1. /\ <<g>> \o <<s, t>> \in Seq(Step) /\ Len(<<g>> \o <<s, t>>) = 3 /\ Len(<<g, s, t>>) = 3
        /\ (<<g>> \o <<s, t>>)[1] = g /\ (<<g>> \o <<s, t>>)[2] = s
        /\ (<<g>> \o <<s, t>>)[3] = t
    BY <1>3
  <2>2. \A i \in 1 .. 3 : <<g, s, t>>[i] = (<<g>> \o <<s, t>>)[i]
    BY <2>1
  <2>3. QED
    BY <1>3, <2>1, <2>2, SeqEqual
<1>7. <<g, s, t>> \o q = <<g>> \o (<<s, t>> \o q)
  BY <1>3, <1>6, ConcatAssociative
<1>8. <<s, t>> \o q = <<s>> \o (<<t>> \o q)
  BY <1>2, <1>3, TwoSteps
<1>9. <<t>> \o q \in Ticking(m)
  BY <1>1, OpIn DEF Ticking
<1>10. <<g, s, t>> \o q \in Gating(m)
  BY <1>7, <1>8, <1>9, OpIn DEF Gating, Sending
<1>11. QED
  BY <1>5, <1>10, MethodsIn, MotionTypes

-----------------------------------------------------------------------------
(* Which programs are a motion past its entry and not yet at its end *)

Has(q, op) == \E i \in 1 .. Len(q) : q[i].op = op
NoTick(Q) == \A q \in Q : ~Has(q, "tick")
ToEnter(Q) == \A q \in Q : Has(q, "enter")

LEMMA HasOp ==
  ASSUME NEW Q \in SUBSET Seq(Step), NEW s \in Step, NEW q \in Op(s, Q), NEW op
  PROVE  Has(q, op) <=> s.op = op \/ Has(Tail(q), op)
<1>1. q \in Seq(Step) /\ q # <<>> /\ Head(q) = s
  BY OpParts
<1>2. /\ Len(q) \in Nat /\ Len(q) > 0 /\ Len(Tail(q)) = Len(q) - 1 /\ q[1] = s
      /\ \A i \in 1 .. Len(q) - 1 : Tail(q)[i] = q[i + 1]
  BY <1>1
<1>3. ASSUME Has(q, op) PROVE s.op = op \/ Has(Tail(q), op)
  <2>1. PICK i \in 1 .. Len(q) : q[i].op = op
    BY <1>3 DEF Has
  <2>2. CASE i = 1
    BY <1>2, <2>1, <2>2
  <2>3. CASE i # 1
    <3>1. i - 1 \in 1 .. Len(Tail(q)) /\ Tail(q)[i - 1] = q[i]
      BY <1>2, <2>3
    <3>2. QED
      BY <2>1, <3>1 DEF Has
  <2>4. QED
    BY <2>2, <2>3
<1>4. ASSUME s.op = op PROVE Has(q, op)
  BY <1>2, <1>4 DEF Has
<1>5. ASSUME Has(Tail(q), op) PROVE Has(q, op)
  <2>1. PICK i \in 1 .. Len(Tail(q)) : Tail(q)[i].op = op
    BY <1>5 DEF Has
  <2>2. i + 1 \in 1 .. Len(q) /\ q[i + 1].op = op
    BY <1>2, <2>1
  <2>3. QED
    BY <2>2 DEF Has
<1>6. QED
  BY <1>3, <1>4, <1>5

LEMMA OpNoTick ==
  ASSUME NEW Q \in SUBSET Seq(Step), NEW s \in Step, s.op # "tick", NoTick(Q)
  PROVE  NoTick(Op(s, Q))
BY HasOp, OpParts DEF NoTick

LEMMA OpToEnter ==
  ASSUME NEW Q \in SUBSET Seq(Step), NEW s \in Step, s.op = "enter" \/ ToEnter(Q)
  PROVE  ToEnter(Op(s, Q))
BY HasOp, OpParts DEF ToEnter

LEMMA Passing ==
  ASSUME NEW Q \in SUBSET Seq(Step)
  PROVE  /\ NoTick(Q) => /\ NoTick(Reading(Q)) /\ NoTick(Halts(Q)) /\ NoTick(Forgets(Q))
                         /\ NoTick(Reads(Q))
                         /\ \A m \in Motion : NoTick(Setting(m, Q))
         /\ ToEnter(Q) => /\ ToEnter(Reading(Q))
                          /\ \A m \in Motion : ToEnter(Setting(m, Q)) /\ ToEnter(Switches(m, Q))
<1>1. /\ {Do("look", "IDLE"), Do("report", "IDLE"), Do("sync", "IDLE"), Do("cache", "IDLE"),
          Do("halt", "IDLE")} \subseteq Step
      /\ \A s \in {Do("look", "IDLE"), Do("report", "IDLE"), Do("sync", "IDLE"), Do("cache", "IDLE"),
          Do("halt", "IDLE")} : s.op # "tick"
  BY StepTypes DEF Ops, Modes
<1>2. ASSUME NEW m \in Motion
      PROVE  /\ {Do("switch", m), Do("cache", m), Do("guard", m)} \subseteq Step
             /\ \A s \in {Do("switch", m), Do("cache", m), Do("guard", m)} : s.op # "tick"
  BY StepTypes DEF Ops, Modes
<1>3. ASSUME NoTick(Q)
      PROVE  /\ NoTick(Reading(Q)) /\ NoTick(Halts(Q)) /\ NoTick(Forgets(Q)) /\ NoTick(Reads(Q))
             /\ \A m \in Motion : NoTick(Setting(m, Q))
  <2>1. NoTick(Looked(Q)) /\ NoTick(Forgets(Q))
    BY <1>1, <1>3, OpNoTick DEF Looked, Forgets
  <2>2. NoTick(Reads(Q)) /\ NoTick(Corrects(Q)) /\ NoTick(Halts(Q))
    BY <1>1, <2>1, OpNoTick, ReadTypes DEF Reads, Corrects, Halts, Looked
  <2>3. NoTick(Reading(Q))
    BY <2>1, <2>2 DEF Reading, NoTick
  <2>4. ASSUME NEW m \in Motion PROVE NoTick(Setting(m, Q))
    <3>1. NoTick(Guards(m, Q))
      BY <1>2, <1>3, OpNoTick DEF Guards
    <3>2. NoTick(Caches(m, Q))
      BY <1>2, <3>1, OpNoTick, SetTypes DEF Caches
    <3>3. NoTick(Switches(m, Q))
      BY <1>2, <3>2, OpNoTick, SetTypes DEF Switches
    <3>4. QED
      BY <3>1, <3>2, <3>3 DEF Setting, NoTick
  <2>5. QED
    BY <2>1, <2>2, <2>3, <2>4
<1>4. ASSUME ToEnter(Q)
      PROVE  /\ ToEnter(Reading(Q))
             /\ \A m \in Motion : ToEnter(Setting(m, Q)) /\ ToEnter(Switches(m, Q))
  <2>1. ToEnter(Looked(Q))
    BY <1>1, <1>4, OpToEnter DEF Looked
  <2>2. ToEnter(Reads(Q)) /\ ToEnter(Corrects(Q))
    BY <1>1, <2>1, OpToEnter, ReadTypes DEF Reads, Corrects, Looked
  <2>3. ToEnter(Reading(Q))
    BY <2>1, <2>2 DEF Reading, ToEnter
  <2>4. ASSUME NEW m \in Motion PROVE ToEnter(Setting(m, Q)) /\ ToEnter(Switches(m, Q))
    <3>1. ToEnter(Guards(m, Q))
      BY <1>2, <1>4, OpToEnter DEF Guards
    <3>2. ToEnter(Caches(m, Q))
      BY <1>2, <3>1, OpToEnter, SetTypes DEF Caches
    <3>3. ToEnter(Switches(m, Q))
      BY <1>2, <3>2, OpToEnter, SetTypes DEF Switches
    <3>4. QED
      BY <3>1, <3>2, <3>3 DEF Setting, ToEnter
  <2>5. QED
    BY <2>3, <2>4
<1>5. QED
  BY <1>3, <1>4

LEMMA Untold ==
  /\ NoTick({<<>>} \cup Reading({<<>>})) /\ NoTick({<<>>} \cup Stopping) /\ NoTick(Booting)
  /\ \A m \in Motion : NoTick({<<>>} \cup Setting(m, {<<>>}))
  /\ NoTick(Over)
  /\ \A m \in Spaces : ToEnter(Entering(m) \cup Reading(Entering(m)))
  /\ ToEnter(Homing)
<1>. "NRT_CARTESIAN" \in Motion /\ "NRT_JOINT" \in Motion /\ "NRT_JOINT" \in Spaces
  BY DEF Motion, Cartesian, Joint, Spaces
<1>1. NoTick({<<>>})
  BY DEF NoTick, Has
<1>2. NoTick(Ends) /\ NoTick({<<Do("ready", "IDLE")>>})
  <2>1. \A op : Has(<<Do(op, "IDLE")>>, "tick") => op = "tick"
    BY DEF Has, Do
  <2>2. QED
    BY <1>1, <2>1 DEF NoTick, Ends
<1>3. NoTick(Reading({<<>>})) /\ NoTick(Halts({<<>>})) /\ NoTick(Forgets({<<>>}))
      /\ \A m \in Motion : NoTick(Setting(m, {<<>>}))
  BY <1>1, Passing, EndTypes
<1>4. NoTick(Stopping)
  <2>1. Do("cancel", "IDLE") \in Step /\ Do("cancel", "IDLE").op # "tick"
    BY StepTypes DEF Ops, Modes
  <2>2. NoTick(Op(Do("cancel", "IDLE"), Halts({<<>>})))
    BY <1>3, <2>1, OpNoTick, ReadTypes, EndTypes
  <2>3. QED
    BY <1>3, <2>2 DEF Stopping, NoTick
<1>5. NoTick(Booting)
  <2>1. NoTick(Reads({<<Do("ready", "IDLE")>>})) /\ NoTick(Reading({<<Do("ready", "IDLE")>>}))
    BY <1>2, Passing, EndTypes
  <2>2. NoTick(Setting("NRT_CARTESIAN", Reads({<<Do("ready", "IDLE")>>})))
    BY <2>1, Passing, EndTypes, ReadTypes
  <2>3. QED
    BY <1>1, <1>2, <2>1, <2>2 DEF Booting, NoTick
<1>6. NoTick(Over)
  <2>1. NoTick(Reading(Ends)) /\ NoTick(Reads(Ends))
    BY <1>2, Passing, EndTypes
  <2>2. NoTick(Halts(Reads(Ends))) /\ NoTick(Forgets(Reads(Ends)))
    BY <2>1, Passing, EndTypes, ReadTypes
  <2>3. QED
    BY <1>2, <1>4, <2>1, <2>2 DEF Over, NoTick
<1>7. ASSUME NEW m \in Spaces PROVE ToEnter(Entering(m)) /\ ToEnter(Reading(Entering(m)))
  <2>1. Do("enter", m) \in Step /\ Do("enter", m).op = "enter"
    BY StepTypes, SpaceTypes DEF Ops, Modes
  <2>2. ToEnter(Entering(m))
    BY <2>1, OpToEnter, MotionTypes, ReadTypes DEF Entering
  <2>3. QED
    BY <2>2, Passing, MotionTypes
<1>8. ToEnter(Homing)
  <2>1. ToEnter(Switches("NRT_JOINT", Entering("NRT_JOINT")))
        /\ ToEnter(Setting("NRT_JOINT", Entering("NRT_JOINT")))
    BY <1>7, Passing, MotionTypes
  <2>2. ToEnter(Reading(Switches("NRT_JOINT", Entering("NRT_JOINT"))))
    BY <2>1, Passing, MotionTypes, SetTypes
  <2>3. QED
    BY <2>1, <2>2 DEF Homing, ToEnter
<1>9. QED
  BY <1>1, <1>3, <1>4, <1>5, <1>6, <1>7, <1>8 DEF NoTick, ToEnter

-----------------------------------------------------------------------------
(* What is left is a program; and where its next step leads *)

LEMMA MotionParts ==
  ASSUME NEW m \in Spaces
  PROVE  /\ Reads(Ends) \in SUBSET Seq(Step) /\ Reads(Ticking(m)) \in SUBSET Seq(Step)
         /\ Reads(Ensuring(m)) \in SUBSET Seq(Step) /\ m \in Motion
         /\ Switches(m, Entering(m)) \in SUBSET Seq(Step)
BY EndTypes, ReadTypes, MotionTypes, SetTypes, SpaceTypes

LEMMA PlacedTypes == ASSUME NEW w \in Workers, Placed(w) PROVE todo[w] \in Seq(Step)
<1>0. <<>> \in Seq(Step) /\ {<<>>} \in SUBSET Seq(Step) /\ "NRT_JOINT" \in Spaces
      /\ "NRT_CARTESIAN" \in Motion
  BY DEF Spaces, Motion, Cartesian
<1>1. Stopping \in SUBSET Seq(Step)
  <2>1. Do("cancel", "IDLE") \in Step
    BY StepTypes DEF Ops, Modes
  <2>2. Halts({<<>>}) \in SUBSET Seq(Step) /\ Forgets({<<>>}) \in SUBSET Seq(Step)
    BY <1>0, ReadTypes
  <2>3. Op(Do("cancel", "IDLE"), Halts({<<>>})) \in SUBSET Seq(Step)
    BY <2>1, <2>2, OpType
  <2>4. QED
    BY <2>2, <2>3 DEF Stopping
<1>2. Booting \in SUBSET Seq(Step)
  BY <1>0, EndTypes, ReadTypes, SetTypes DEF Booting
<1>3. \A m \in Motion : Setting(m, {<<>>}) \in SUBSET Seq(Step)
  BY <1>0, SetTypes
<1>4. Reading({<<>>}) \in SUBSET Seq(Step)
  BY <1>0, ReadTypes
<1>5. Over \in SUBSET Seq(Step)
  <2>1. Reading(Ends) \in SUBSET Seq(Step) /\ Reads(Ends) \in SUBSET Seq(Step)
    BY EndTypes, ReadTypes
  <2>2. Halts(Reads(Ends)) \in SUBSET Seq(Step) /\ Forgets(Reads(Ends)) \in SUBSET Seq(Step)
    BY <2>1, ReadTypes
  <2>3. QED
    BY <1>1, <2>1, <2>2, EndTypes DEF Over
<1>6. Homing \in SUBSET Seq(Step)
  BY <1>0, MotionTypes, MotionParts, ReadTypes, SetTypes DEF Homing
<1>7. ASSUME NEW m \in Spaces
      PROVE  /\ Entering(m) \cup Reading(Entering(m)) \in SUBSET Seq(Step)
             /\ Reads(Ensuring(m)) \cup Corrects(Ensuring(m)) \cup Looked(Ensuring(m))
                  \cup Ensuring(m) \in SUBSET Seq(Step)
             /\ Switches(m, Reads(Ticking(m))) \cup Caches(m, Reads(Ticking(m)))
                  \cup Guards(m, Reads(Ticking(m))) \in SUBSET Seq(Step)
             /\ Reads(Ticking(m)) \cup Looked(Ticking(m)) \cup Ticking(m)
                  \cup Corrects(Ticking(m)) \in SUBSET Seq(Step)
             /\ Reads(Gating(m)) \cup Looked(Gating(m)) \cup Gating(m) \cup Sending(m)
                  \cup Corrects(Gating(m)) \in SUBSET Seq(Step)
  <2>1. Entering(m) \cup Reading(Entering(m)) \in SUBSET Seq(Step)
    BY MotionTypes, ReadTypes
  <2>2. Reads(Ensuring(m)) \cup Corrects(Ensuring(m)) \cup Looked(Ensuring(m))
          \cup Ensuring(m) \in SUBSET Seq(Step)
    BY MotionTypes, ReadTypes
  <2>3. Switches(m, Reads(Ticking(m))) \cup Caches(m, Reads(Ticking(m)))
          \cup Guards(m, Reads(Ticking(m))) \in SUBSET Seq(Step)
    BY MotionParts, SetTypes
  <2>4. Reads(Ticking(m)) \cup Looked(Ticking(m)) \cup Ticking(m)
          \cup Corrects(Ticking(m)) \in SUBSET Seq(Step)
    BY MotionTypes, ReadTypes
  <2>5. Reads(Gating(m)) \cup Looked(Gating(m)) \cup Gating(m) \cup Sending(m)
          \cup Corrects(Gating(m)) \in SUBSET Seq(Step)
    BY MotionTypes, ReadTypes
  <2>6. QED
    BY <2>1, <2>2, <2>3, <2>4, <2>5
<1>8. Moving(w) => todo[w] \in Seq(Step)
  BY <1>5, <1>6, <1>7 DEF Moving, Along
<1>9. QED
  BY <1>0, <1>1, <1>2, <1>3, <1>4, <1>8 DEF Placed

-----------------------------------------------------------------------------
(* Where a callback may be, by the step it is at *)

First(Q, O) == \A q \in Q : q # <<>> => Head(q).op \in O

LEMMA FirstOp ==
  ASSUME NEW Q \in SUBSET Seq(Step), NEW s \in Step, NEW O, s.op \in O
  PROVE  First(Op(s, Q), O)
BY OpParts DEF First

LEMMA MethodFirsts ==
  ASSUME NEW Q \in SUBSET Seq(Step)
  PROVE  /\ First(Reading(Q), {"look", "sync", "report"}) /\ First(Halts(Q), {"halt"})
         /\ First(Reads(Q), {"look", "sync", "report"})
         /\ First(Corrects(Q), {"look", "sync", "report"})
         /\ First(Looked(Q), {"look", "sync", "report"})
         /\ First(Forgets(Q), {"cache"}) /\ First(Op(Do("cancel", "IDLE"), Q), {"cancel"})
         /\ \A m \in Motion : /\ First(Switches(m, Q), {"switch"}) /\ First(Caches(m, Q), {"cache"})
                              /\ m \in Cartesian => First(Guards(m, Q), {"guard"})
<1>1. /\ {Do("look", "IDLE"), Do("report", "IDLE"), Do("sync", "IDLE"), Do("halt", "IDLE"),
          Do("cache", "IDLE"), Do("cancel", "IDLE")} \subseteq Step
      /\ \A m \in Motion : {Do("switch", m), Do("cache", m), Do("guard", m)} \subseteq Step
      /\ \A op, m : Do(op, m).op = op
  BY StepTypes DEF Ops, Modes
<1>2. /\ Looked(Q) \in SUBSET Seq(Step) /\ Forgets(Q) \in SUBSET Seq(Step)
      /\ \A m \in Motion : Guards(m, Q) \in SUBSET Seq(Step) /\ Caches(m, Q) \in SUBSET Seq(Step)
  BY ReadTypes, SetTypes
<1>3. /\ First(Reads(Q), {"look", "sync", "report"}) /\ First(Corrects(Q), {"look", "sync", "report"})
      /\ First(Looked(Q), {"look", "sync", "report"})
  BY <1>1, <1>2, FirstOp DEF Reads, Corrects, Looked
<1>4. First(Reading(Q), {"look", "sync", "report"})
  BY <1>3 DEF Reading, First
<1>5. /\ First(Halts(Q), {"halt"}) /\ First(Forgets(Q), {"cache"})
      /\ First(Op(Do("cancel", "IDLE"), Q), {"cancel"})
  BY <1>1, <1>2, FirstOp DEF Halts, Forgets
<1>6. ASSUME NEW m \in Motion
      PROVE  /\ First(Switches(m, Q), {"switch"}) /\ First(Caches(m, Q), {"cache"})
             /\ m \in Cartesian => First(Guards(m, Q), {"guard"})
  BY <1>1, <1>2, FirstOp DEF Switches, Caches, Guards
<1>7. QED
  BY <1>3, <1>4, <1>5, <1>6

LEMMA MotionFirsts ==
  ASSUME NEW m \in Spaces
  PROVE  /\ First(Ticking(m), {"tick"}) /\ First(Sending(m), {"send"}) /\ First(Gating(m), {"gate"})
         /\ First(Ensuring(m), {"ensure"}) /\ First(Entering(m), {"enter"})
<1>1. /\ {Do("send", m), Do("gate", m), Do("ensure", m), Do("enter", m)} \subseteq Step
      /\ \A op : Do(op, m).op = op
      /\ \A n \in 0 .. Ticks : Tick(m, n) \in Step /\ Tick(m, n).op = "tick"
  BY StepTypes, SpaceTypes DEF Ops, Modes
<1>2. \A n \in 0 .. Ticks : First(Op(Tick(m, n), Reads(Ends)), {"tick"})
  BY <1>1, FirstOp, MotionParts
<1>3. First(Ticking(m), {"tick"})
  BY <1>2 DEF Ticking, First
<1>4. QED
  BY <1>1, <1>3, FirstOp, MotionTypes, MotionParts DEF Sending, Gating, Ensuring, Entering

\* What follows a method is not in the middle of another.
Plain(Q) == Q \in SUBSET Seq(Step) /\ \A q \in Q : q # <<>> => Head(q).op # "cache"

Site(q) ==
  \/ q \in Ends \cup {<<Do("ready", "IDLE")>>} \cup Op(Do("cancel", "IDLE"), Halts({<<>>}))
  \/ \E Q : Plain(Q) /\ q \in Reading(Q) \cup Halts(Q) \cup Forgets(Q)
  \/ \E Q, m : Plain(Q) /\ m \in Motion /\ q \in Setting(m, Q)
  \/ \E m \in Spaces : q \in Entering(m) \cup Ensuring(m) \cup Ticking(m) \cup Gating(m) \cup Sending(m)

LEMMA SiteMethods ==
  ASSUME NEW Q, Plain(Q)
  PROVE  /\ \A q \in Reading(Q) \cup Reads(Q) \cup Corrects(Q) \cup Looked(Q)
                     \cup Halts(Q) \cup Forgets(Q) : Site(q)
         /\ \A m \in Motion : \A q \in Setting(m, Q) \cup Switches(m, Q) \cup Caches(m, Q) : Site(q)
         /\ \A m \in Cartesian : \A q \in Guards(m, Q) : Site(q)
         /\ Plain(Reads(Q))
<1>1. \A q \in Reading(Q) \cup Halts(Q) \cup Forgets(Q) : Site(q)
  BY DEF Site
<1>2. Reads(Q) \cup Corrects(Q) \cup Looked(Q) \subseteq Reading(Q)
  BY DEF Reading
<1>3. \A m \in Motion : \A q \in Setting(m, Q) : Site(q)
  BY DEF Site
<1>4. /\ \A m \in Motion : Switches(m, Q) \cup Caches(m, Q) \subseteq Setting(m, Q)
      /\ \A m \in Cartesian : Guards(m, Q) \subseteq Setting(m, Q) /\ m \in Motion
  BY DEF Setting, Motion
<1>5. Plain(Reads(Q))
  BY MethodFirsts, ReadTypes DEF Plain, First
<1>6. QED
  BY <1>1, <1>2, <1>3, <1>4, <1>5

LEMMA Plains ==
  /\ Plain({<<>>}) /\ Plain(Ends) /\ Plain({<<Do("ready", "IDLE")>>})
  /\ \A m \in Spaces : /\ Plain(Entering(m)) /\ Plain(Ensuring(m)) /\ Plain(Ticking(m))
                       /\ Plain(Gating(m)) /\ Plain(Switches(m, Entering(m)))
<1>1. Plain({<<>>}) /\ Plain(Ends) /\ Plain({<<Do("ready", "IDLE")>>})
  BY EndTypes DEF Plain, Ends, Do
<1>2. ASSUME NEW m \in Spaces
      PROVE  Plain(Entering(m)) /\ Plain(Ensuring(m)) /\ Plain(Ticking(m)) /\ Plain(Gating(m))
  BY MotionFirsts, MotionTypes DEF Plain, First
<1>3. ASSUME NEW m \in Spaces PROVE Plain(Switches(m, Entering(m)))
  BY MethodFirsts, MotionTypes, MotionParts DEF Plain, First
<1>4. QED
  BY <1>1, <1>2, <1>3

LEMMA Sites == ASSUME NEW w \in Workers, Placed(w) PROVE Site(todo[w])
<1>. "NRT_JOINT" \in Spaces /\ "NRT_CARTESIAN" \in Motion /\ "NRT_JOINT" \in Motion
  BY DEF Spaces, Motion, Cartesian, Joint
<1>1. \A q \in Ends \cup {<<>>, <<Do("ready", "IDLE")>>} : Site(q)
  BY DEF Site, Ends
<1>2. \A q \in Stopping : Site(q)
  <2>1. \A q \in Op(Do("cancel", "IDLE"), Halts({<<>>})) : Site(q)
    BY DEF Site
  <2>2. QED
    BY <2>1, SiteMethods, Plains DEF Stopping
<1>3. \A q \in Booting : Site(q)
  BY <1>1, SiteMethods, Plains DEF Booting
<1>4. \A q \in Reading({<<>>}) : Site(q)
  BY SiteMethods, Plains
<1>5. \A m \in Motion : \A q \in Setting(m, {<<>>}) : Site(q)
  BY SiteMethods, Plains
<1>6. \A q \in Over : Site(q)
  BY <1>1, <1>2, SiteMethods, Plains DEF Over
<1>7. \A q \in Homing : Site(q)
  BY SiteMethods, Plains DEF Homing
<1>8. ASSUME NEW m \in Spaces, Along(w, m) PROVE Site(todo[w])
  <2>1. m \in Motion /\ Plain(Reads(Ticking(m)))
    BY SpaceTypes, SiteMethods, Plains
  <2>2. \A q \in Entering(m) \cup Ensuring(m) \cup Ticking(m) \cup Gating(m) \cup Sending(m) : Site(q)
    BY DEF Site
  <2>3. \A q \in Reading(Entering(m)) \cup Reads(Ensuring(m)) \cup Corrects(Ensuring(m))
                  \cup Looked(Ensuring(m)) : Site(q)
    BY SiteMethods, Plains
  <2>4. \A q \in Reads(Ticking(m)) \cup Corrects(Ticking(m)) \cup Looked(Ticking(m)) : Site(q)
    BY SiteMethods, Plains
  <2>5. \A q \in Reads(Gating(m)) \cup Corrects(Gating(m)) \cup Looked(Gating(m)) : Site(q)
    BY SiteMethods, Plains
  <2>6. \A q \in Switches(m, Reads(Ticking(m))) \cup Caches(m, Reads(Ticking(m)))
                  \cup Guards(m, Reads(Ticking(m))) : Site(q)
    BY <2>1, <2>4, SiteMethods DEF Guards
  <2>7. QED
    BY <1>8, <2>2, <2>3, <2>4, <2>5, <2>6 DEF Along
<1>9. QED
  BY <1>1, <1>2, <1>3, <1>4, <1>5, <1>6, <1>7, <1>8 DEF Placed, Moving

\* What stops the arm is its halt.
LEMMA CancelPlaced ==
  ASSUME NEW w \in Workers, Placed(w), At(w, "cancel")
  PROVE  Tail(todo[w]) = HaltArm
<1>1. todo[w] # <<>> /\ Head(todo[w]).op = "cancel" /\ Site(todo[w])
  BY Sites DEF At
<1>2. todo[w] \notin Ends \cup {<<Do("ready", "IDLE")>>}
  BY <1>1 DEF Ends, Do
<1>3. ASSUME NEW Q, Plain(Q) PROVE todo[w] \notin Reading(Q) \cup Halts(Q) \cup Forgets(Q)
  BY <1>1, <1>3, MethodFirsts DEF Plain, First
<1>4. ASSUME NEW Q, Plain(Q), NEW m \in Motion PROVE todo[w] \notin Setting(m, Q)
  BY <1>1, <1>4, MethodFirsts DEF Plain, First, Setting
<1>5. ASSUME NEW m \in Spaces
      PROVE  todo[w] \notin Entering(m) \cup Ensuring(m) \cup Ticking(m) \cup Gating(m) \cup Sending(m)
  BY <1>1, MotionFirsts DEF First
<1>6. todo[w] \in Op(Do("cancel", "IDLE"), Halts({<<>>}))
  BY <1>1, <1>2, <1>3, <1>4, <1>5 DEF Site
<1>7. Do("cancel", "IDLE") \in Step /\ Halts({<<>>}) \in SUBSET Seq(Step)
  BY StepTypes, ReadTypes, EndTypes DEF Ops, Modes
<1>8. QED
  BY <1>6, <1>7, OpParts, HaltIs

-----------------------------------------------------------------------------
(* What a thread does, by the step it is at *)

Thread(w) ==
  \/ Worker(w) \/ OnTimer(w) \/ OnStop(w) \/ OnCancel(w) \/ OnTwist(w) \/ OnHome(w) \/ OnGoal(w)
  \/ \E m \in Wanted : OnSetMode(w, m)

\* A thread only writes its own.
LEMMA Frame ==
  ASSUME TypeOK, NEW w \in Workers, Thread(w)
  PROVE  /\ kind' = [kind EXCEPT ![w] = kind'[w]] /\ todo' = [todo EXCEPT ![w] = todo'[w]]
         /\ \A v \in Workers : v # w => seen'[v] = seen[v]
         /\ \A v \in Workers : v # w => asked'[v] = asked[v]
<1>1. CASE Worker(w)
  <2>1. CASE Backend(w)
    BY <2>1 DEF Backend, Then, TypeOK
  <2>2. CASE Raise(w)
    BY <2>2 DEF Raise, Then, TypeOK
  <2>3. CASE SetCancel(w)
    BY <2>3 DEF SetCancel, Then, TypeOK
  <2>4. CASE Enter(w)
    BY <2>4 DEF Enter, Then, TypeOK
  <2>5. CASE Ensure(w)
    BY <2>5 DEF Ensure, Then, TypeOK
  <2>6. CASE TickOver(w)
    BY <2>6 DEF TickOver, Then, TypeOK
  <2>7. CASE Gate(w)
    BY <2>7 DEF Gate, Then, TypeOK
  <2>8. CASE Finish(w)
    BY <2>8 DEF Finish, Then, TypeOK
  <2>9. CASE Ready(w)
    BY <2>9 DEF Ready, Then, TypeOK
  <2>10. CASE Return(w)
    BY <2>10 DEF Return, TypeOK
  <2>11. QED
    BY <1>1, <2>1, <2>2, <2>3, <2>4, <2>5, <2>6, <2>7, <2>8, <2>9, <2>10 DEF Worker
<1>2. CASE OnCancel(w)
  BY <1>2 DEF OnCancel, TypeOK
<1>3. ASSUME NEW k, NEW steps, Begin(w, k, steps) PROVE
         /\ kind' = [kind EXCEPT ![w] = kind'[w]] /\ todo' = [todo EXCEPT ![w] = todo'[w]]
         /\ \A v \in Workers : v # w => seen'[v] = seen[v] /\ asked'[v] = asked[v]
  BY <1>3 DEF Begin, TypeOK
<1>4. QED
  BY <1>1, <1>2, <1>3 DEF Thread, OnTimer, OnStop, OnTwist, OnHome, OnGoal, OnSetMode

\* Which action the next step is.
LEMMA Acts ==
  ASSUME NEW w \in Workers, Worker(w)
  PROVE  /\ todo[w] = <<>> => Return(w)
         /\ todo[w] # <<>> =>
              /\ Head(todo[w]).op \in {"look", "sync", "report", "cache", "halt"} => Backend(w)
              /\ Head(todo[w]).op \in {"switch", "guard", "send"} => Backend(w) \/ Raise(w)
              /\ At(w, "cancel") => SetCancel(w)
              /\ At(w, "enter")  => Enter(w)
              /\ At(w, "ensure") => Ensure(w)
              /\ At(w, "tick")   => TickOver(w)
              /\ At(w, "gate")   => Gate(w)
              /\ At(w, "finish") => Finish(w)
              /\ At(w, "ready")  => Ready(w)
BY DEF Worker, Backend, Raise, Raises, SetCancel, Enter, Ensure, TickOver, Gate, Finish, Ready, Return, At

\* What spares the others leaves w as it is.
LEMMA SpareOwn == ASSUME NEW w \in Workers, Spare(w) PROVE told'[w] = told[w]
BY DEF Spare

LEMMA BackendSteps ==
  ASSUME TypeOK, NEW w \in Workers, Backend(w)
  PROVE  /\ UNCHANGED <<kind, cancel, up>> /\ calm'[w] = calm[w] /\ told'[w] = told[w]
         /\ Head(todo[w]).op = "switch" => crossed' = Crosses(w, Head(todo[w]).mode)
         /\ Head(todo[w]).op # "switch" => UNCHANGED <<told, crossed>>
         /\ armed /\ arm' = arm => armed'
         /\ LET s == Head(todo[w]) IN
              /\ s.op = "look" =>
                   /\ UNCHANGED <<arm, cached, armed, seen>>
                   /\ todo'[w] = IF cached # "IDLE" /\ arm = "IDLE"
                                 THEN <<Do("sync", "IDLE")>> \o Tail(todo[w]) ELSE Tail(todo[w])
              /\ s.op # "look" => todo'[w] = Tail(todo[w])
              /\ s.op = "sync" => UNCHANGED <<arm, armed, seen>> /\ cached' = "IDLE"
              /\ s.op = "report" => UNCHANGED <<arm, cached, armed>> /\ seen'[w] = cached
              /\ s.op = "switch" => arm' = s.mode /\ cached' = cached
              /\ s.op = "cache" => UNCHANGED <<arm, armed>> /\ cached' = s.mode
              /\ s.op = "guard" => UNCHANGED <<arm, cached>> /\ armed' = TRUE
              /\ s.op = "halt" => arm' = "IDLE" /\ cached' = cached
              /\ s.op = "send" => UNCHANGED <<arm, cached, armed>> /\ arm = Sends(s.mode)
<1>. DEFINE s == Head(todo[w])
<1>1. /\ todo[w] # <<>>
      /\ s.op \in {"look", "sync", "report", "switch", "cache", "guard", "halt", "send"}
      /\ ~Raises(s)
      /\ Effect(IF s.op = "sync" THEN Do("cache", "IDLE") ELSE s)
      /\ seen' = IF s.op = "report" THEN [seen EXCEPT ![w] = cached] ELSE seen
      /\ todo' = [todo EXCEPT ![w] = IF Stale(s) THEN <<Do("sync", "IDLE")>> \o Tail(todo[w])
                                     ELSE Tail(todo[w])]
      /\ calm' = [v \in Workers |-> calm[v] /\ (v = w \/ UNCHANGED <<arm, cached>>)]
      /\ IF s.op = "switch" THEN Spare(w) /\ crossed' = Crosses(w, s.mode)
                           ELSE UNCHANGED <<told, crossed>>
      /\ UNCHANGED <<kind, cancel, asked, up, trips>>
  BY DEF Backend, Then, Rest, Disturb
<1>2. /\ todo'[w] = IF Stale(s) THEN <<Do("sync", "IDLE")>> \o Tail(todo[w]) ELSE Tail(todo[w])
      /\ s.op = "report" => seen'[w] = cached
  BY <1>1 DEF TypeOK
<1>3. calm'[w] = calm[w] /\ told'[w] = told[w]
  <2>1. calm'[w] = calm[w]
    BY <1>1, Zenon DEF TypeOK
  <2>2. Spare(w) => told'[w] = told[w]
    BY SpareOwn
  <2>3. QED
    BY <1>1, <2>1, <2>2
<1>4. armed \in BOOLEAN
  BY DEF TypeOK, RdkTypeOK
<1>5. s.op \in {"look", "report", "send"} => UNCHANGED <<arm, cached, armed>>
  BY <1>1, <1>4 DEF Effect
<1>6. s.op = "sync" => UNCHANGED <<arm, armed>> /\ cached' = "IDLE"
  BY <1>1, <1>4 DEF Effect, Do
<1>7. s.op \in {"cache", "guard", "switch", "halt"} =>
        /\ arm' = IF s.op = "switch" THEN s.mode ELSE IF s.op = "halt" THEN "IDLE" ELSE arm
        /\ cached' = IF s.op = "cache" THEN s.mode ELSE cached
        /\ armed' = (s.op = "guard" \/ (armed /\ arm' = arm))
  BY <1>1 DEF Effect
<1>8. s.op = "send" => arm = Sends(s.mode)
  BY <1>1 DEF Raises
<1>9. Stale(s) <=> s.op = "look" /\ cached # "IDLE" /\ arm = "IDLE"
  BY DEF Stale
<1>10. QED
  BY <1>1, <1>2, <1>3, <1>4, <1>5, <1>6, <1>7, <1>8, <1>9

-----------------------------------------------------------------------------
(* A step into a method, and on in it *)

\* The flag, the threads and what is known of w are as they were.
Quiet(w) == UNCHANGED <<kind, cancel, up>> /\ calm'[w] = calm[w] /\ told'[w] = told[w]
Still(w) == Quiet(w) /\ UNCHANGED <<arm, cached, armed, crossed>>

LEMMA ReadOn ==
  ASSUME TypeOK, NEW w \in Workers, Worker(w), NEW Q \in SUBSET Seq(Step)
  PROVE  /\ todo[w] \in Reads(Q) =>
              /\ Still(w) /\ UNCHANGED seen
              /\ IF cached # "IDLE" /\ arm = "IDLE"
                 THEN todo'[w] \in Corrects(Q) ELSE todo'[w] \in Looked(Q)
         /\ todo[w] \in Corrects(Q) =>
              /\ Quiet(w) /\ UNCHANGED <<arm, armed, seen>>
              /\ cached' = "IDLE" /\ todo'[w] \in Looked(Q)
         /\ todo[w] \in Looked(Q) => Still(w) /\ seen'[w] = cached /\ todo'[w] \in Q
<1>1. /\ {Do("look", "IDLE"), Do("report", "IDLE"), Do("sync", "IDLE")} \subseteq Step
      /\ Do("look", "IDLE").op = "look" /\ Do("report", "IDLE").op = "report"
      /\ Do("sync", "IDLE").op = "sync"
  BY StepTypes DEF Ops, Modes
<1>2. Looked(Q) \in SUBSET Seq(Step)
  BY ReadTypes
<1>3. ASSUME todo[w] \in Reads(Q)
      PROVE  /\ Still(w) /\ UNCHANGED seen
             /\ IF cached # "IDLE" /\ arm = "IDLE"
                THEN todo'[w] \in Corrects(Q) ELSE todo'[w] \in Looked(Q)
  <2>1. todo[w] # <<>> /\ Head(todo[w]) = Do("look", "IDLE") /\ Tail(todo[w]) \in Looked(Q)
    BY <1>1, <1>2, <1>3, OpParts DEF Reads, Looked
  <2>2. Backend(w)
    BY <1>1, <2>1, Acts
  <2>3. <<Do("sync", "IDLE")>> \o Tail(todo[w]) \in Corrects(Q)
    BY <2>1, OpIn DEF Corrects
  <2>4. QED
    BY <1>1, <2>1, <2>2, <2>3, BackendSteps DEF Still, Quiet
<1>4. ASSUME todo[w] \in Corrects(Q)
      PROVE  /\ Quiet(w) /\ UNCHANGED <<arm, armed, seen>>
             /\ cached' = "IDLE" /\ todo'[w] \in Looked(Q)
  <2>1. todo[w] # <<>> /\ Head(todo[w]) = Do("sync", "IDLE") /\ Tail(todo[w]) \in Looked(Q)
    BY <1>1, <1>2, <1>4, OpParts DEF Corrects
  <2>2. Backend(w)
    BY <1>1, <2>1, Acts
  <2>3. QED
    BY <1>1, <2>1, <2>2, BackendSteps DEF Quiet
<1>5. ASSUME todo[w] \in Looked(Q) PROVE Still(w) /\ seen'[w] = cached /\ todo'[w] \in Q
  <2>1. todo[w] # <<>> /\ Head(todo[w]) = Do("report", "IDLE") /\ Tail(todo[w]) \in Q
    BY <1>1, <1>5, OpParts DEF Looked
  <2>2. Backend(w)
    BY <1>1, <2>1, Acts
  <2>3. QED
    BY <1>1, <2>1, <2>2, BackendSteps DEF Still, Quiet
<1>6. QED
  BY <1>3, <1>4, <1>5

LEMMA HaltOn ==
  ASSUME TypeOK, NEW w \in Workers, Worker(w), NEW Q \in SUBSET Seq(Step)
  PROVE  /\ todo[w] \in Halts(Q) =>
              Quiet(w) /\ arm' = "IDLE" /\ cached' = cached /\ todo'[w] \in Forgets(Q)
         /\ todo[w] \in Forgets(Q) =>
              Quiet(w) /\ UNCHANGED <<arm, armed>> /\ cached' = "IDLE" /\ todo'[w] \in Q
<1>1. /\ {Do("halt", "IDLE"), Do("cache", "IDLE")} \subseteq Step
      /\ Do("halt", "IDLE").op = "halt" /\ Do("cache", "IDLE").op = "cache"
      /\ Do("cache", "IDLE").mode = "IDLE"
  BY StepTypes DEF Ops, Modes
<1>2. Forgets(Q) \in SUBSET Seq(Step)
  BY ReadTypes
<1>3. ASSUME todo[w] \in Halts(Q)
      PROVE  Quiet(w) /\ arm' = "IDLE" /\ cached' = cached /\ todo'[w] \in Forgets(Q)
  <2>1. todo[w] # <<>> /\ Head(todo[w]) = Do("halt", "IDLE") /\ Tail(todo[w]) \in Forgets(Q)
    BY <1>1, <1>2, <1>3, OpParts DEF Halts
  <2>2. Backend(w)
    BY <1>1, <2>1, Acts
  <2>3. QED
    BY <1>1, <2>1, <2>2, BackendSteps DEF Quiet
<1>4. ASSUME todo[w] \in Forgets(Q)
      PROVE  Quiet(w) /\ UNCHANGED <<arm, armed>> /\ cached' = "IDLE" /\ todo'[w] \in Q
  <2>1. todo[w] # <<>> /\ Head(todo[w]) = Do("cache", "IDLE") /\ Tail(todo[w]) \in Q
    BY <1>1, <1>4, OpParts DEF Forgets
  <2>2. Backend(w)
    BY <1>1, <2>1, Acts
  <2>3. QED
    BY <1>1, <2>1, <2>2, BackendSteps DEF Quiet
<1>5. QED
  BY <1>3, <1>4

\* An exception leaves nothing of the callback and everything as it was.
LEMMA RaiseSteps ==
  ASSUME TypeOK, NEW w \in Workers, Raise(w)
  PROVE  todo'[w] = <<>> /\ Still(w) /\ UNCHANGED seen /\ Raises(Head(todo[w]))
BY DEF Raise, Then, TypeOK, Still, Quiet, rdkVars, historyVars

LEMMA SetOn ==
  ASSUME TypeOK, NEW w \in Workers, Worker(w), NEW Q \in SUBSET Seq(Step), NEW m \in Motion
  PROVE  /\ todo[w] \in Switches(m, Q) =>
              \/ todo'[w] = <<>> /\ Still(w)
              \/ /\ Quiet(w) /\ arm' = m /\ cached' = cached /\ todo'[w] \in Caches(m, Q)
                 /\ crossed' = Crosses(w, m)
         /\ todo[w] \in Caches(m, Q) =>
              Quiet(w) /\ UNCHANGED <<arm, armed>> /\ cached' = m /\ todo'[w] \in Guards(m, Q)
         /\ m \in Cartesian /\ todo[w] \in Guards(m, Q) =>
              \/ todo'[w] = <<>> /\ Still(w) /\ arm \notin Cartesian
              \/ Quiet(w) /\ UNCHANGED <<arm, cached>> /\ armed' = TRUE /\ todo'[w] \in Q
<1>1. /\ {Do("switch", m), Do("cache", m), Do("guard", m)} \subseteq Step
      /\ Do("switch", m).op = "switch" /\ Do("cache", m).op = "cache" /\ Do("guard", m).op = "guard"
      /\ Do("switch", m).mode = m /\ Do("cache", m).mode = m
  BY StepTypes DEF Ops, Modes
<1>2. Guards(m, Q) \in SUBSET Seq(Step) /\ Caches(m, Q) \in SUBSET Seq(Step)
  BY SetTypes
<1>3. ASSUME todo[w] \in Switches(m, Q)
      PROVE  \/ todo'[w] = <<>> /\ Still(w)
             \/ /\ Quiet(w) /\ arm' = m /\ cached' = cached /\ todo'[w] \in Caches(m, Q)
                /\ crossed' = Crosses(w, m)
  <2>1. todo[w] # <<>> /\ Head(todo[w]) = Do("switch", m) /\ Tail(todo[w]) \in Caches(m, Q)
    BY <1>1, <1>2, <1>3, OpParts DEF Switches
  <2>2. Backend(w) \/ Raise(w)
    BY <1>1, <2>1, Acts
  <2>3. QED
    BY <1>1, <2>1, <2>2, BackendSteps, RaiseSteps DEF Quiet
<1>4. ASSUME todo[w] \in Caches(m, Q)
      PROVE  Quiet(w) /\ UNCHANGED <<arm, armed>> /\ cached' = m /\ todo'[w] \in Guards(m, Q)
  <2>1. todo[w] # <<>> /\ Head(todo[w]) = Do("cache", m) /\ Tail(todo[w]) \in Guards(m, Q)
    BY <1>1, <1>2, <1>4, OpParts DEF Caches
  <2>2. Backend(w)
    BY <1>1, <2>1, Acts
  <2>3. QED
    BY <1>1, <2>1, <2>2, BackendSteps DEF Quiet
<1>5. ASSUME m \in Cartesian, todo[w] \in Guards(m, Q)
      PROVE  \/ todo'[w] = <<>> /\ Still(w) /\ arm \notin Cartesian
             \/ Quiet(w) /\ UNCHANGED <<arm, cached>> /\ armed' = TRUE /\ todo'[w] \in Q
  <2>1. todo[w] # <<>> /\ Head(todo[w]) = Do("guard", m) /\ Tail(todo[w]) \in Q
    BY <1>1, <1>5, OpParts DEF Guards
  <2>2. Backend(w) \/ Raise(w)
    BY <1>1, <2>1, Acts
  <2>3. Raise(w) => arm \notin Cartesian
    BY <1>1, <2>1, RaiseSteps DEF Raises
  <2>4. QED
    BY <1>1, <2>1, <2>2, <2>3, BackendSteps, RaiseSteps DEF Quiet
<1>6. QED
  BY <1>3, <1>4, <1>5

-----------------------------------------------------------------------------
(* A thread's own step leaves it placed *)

LEMMA ReturnPlaced ==
  ASSUME TypeOK, NEW w \in Workers, Worker(w), todo[w] = <<>>
  PROVE  Placed(w)' /\ kind'[w] = "none" /\ Return(w)
<1>1. Return(w)
  BY Acts
<1>2. kind'[w] = "none" /\ todo'[w] = <<>> /\ told'[w] = "no"
  BY <1>1 DEF Return, TypeOK
<1>3. QED
  BY <1>1, <1>2 DEF Placed, Clear

LEMMA StopOn ==
  ASSUME TypeOK, NEW w \in Workers, Worker(w), todo[w] \in Stopping
  PROVE  /\ todo'[w] \in {<<>>} \cup Stopping
         /\ kind' = kind /\ told'[w] = told[w] /\ calm'[w] = calm[w] /\ up' = up
         /\ arm' \in {arm, "IDLE"} /\ cached' \in {cached, "IDLE"}
         /\ arm' # arm => todo[w] \in Halts({<<>>})
<1>0. {<<>>} \in SUBSET Seq(Step)
  BY EndTypes
<1>1. CASE todo[w] \in Op(Do("cancel", "IDLE"), Halts({<<>>}))
  <2>1. Do("cancel", "IDLE") \in Step /\ Do("cancel", "IDLE").op = "cancel"
    BY StepTypes DEF Ops, Modes
  <2>2. /\ todo[w] # <<>> /\ Head(todo[w]) = Do("cancel", "IDLE")
        /\ Tail(todo[w]) \in Halts({<<>>})
    BY <1>0, <1>1, <2>1, ReadTypes, OpParts
  <2>3. SetCancel(w)
    BY <2>1, <2>2, Acts DEF At
  <2>4. /\ todo' = [todo EXCEPT ![w] = Tail(todo[w])]
        /\ told' = [v \in Workers |-> IF v # w /\ InMotion(v) THEN "told" ELSE told[v]]
        /\ UNCHANGED <<kind, calm, up, arm, cached>>
    BY <2>3 DEF SetCancel, Then, Rest, rdkVars
  <2>5. todo'[w] = Tail(todo[w])
    BY <2>4 DEF TypeOK
  <2>6. told'[w] = told[w]
    BY <2>4, Zenon DEF TypeOK
  <2>7. QED
    BY <2>2, <2>4, <2>5, <2>6 DEF Stopping
<1>2. CASE todo[w] \in Halts({<<>>})
  BY <1>0, <1>2, HaltOn DEF Stopping, Quiet
<1>3. CASE todo[w] \in Forgets({<<>>})
  BY <1>0, <1>3, HaltOn DEF Stopping, Quiet
<1>4. QED
  BY <1>1, <1>2, <1>3 DEF Stopping

LEMMA ReadingOn ==
  ASSUME TypeOK, NEW w \in Workers, Worker(w), NEW Q \in SUBSET Seq(Step), todo[w] \in Reading(Q)
  PROVE  /\ todo'[w] \in Reading(Q) \cup Q
         /\ Quiet(w) /\ arm' = arm /\ armed' = armed /\ cached' \in {cached, "IDLE"}
BY ReadOn DEF Reading, Still, Quiet

LEMMA SettingOn ==
  ASSUME TypeOK, NEW w \in Workers, Worker(w), NEW Q \in SUBSET Seq(Step), NEW m \in Motion,
         todo[w] \in Setting(m, Q)
  PROVE  todo'[w] \in Setting(m, Q) \cup Q \cup {<<>>} /\ Quiet(w)
<1>1. CASE todo[w] \in Switches(m, Q)
  BY <1>1, SetOn DEF Setting, Still
<1>2. CASE todo[w] \in Caches(m, Q)
  BY <1>2, SetOn DEF Setting, Guards
<1>3. CASE m \in Cartesian /\ todo[w] \in Guards(m, Q)
  BY <1>3, SetOn DEF Setting, Still
<1>4. QED
  BY <1>1, <1>2, <1>3 DEF Setting

LEMMA ReadyOn ==
  ASSUME TypeOK, NEW w \in Workers, Worker(w), todo[w] = <<Do("ready", "IDLE")>>
  PROVE  /\ todo'[w] = <<>> /\ up' = TRUE /\ Ready(w)
         /\ UNCHANGED <<kind, cancel, told, calm, arm, cached, armed, seen>>
<1>1. todo[w] # <<>> /\ Head(todo[w]).op = "ready" /\ Tail(todo[w]) = <<>>
  BY DEF Do
<1>2. Ready(w)
  BY <1>1, Acts DEF At
<1>3. QED
  BY <1>1, <1>2 DEF Ready, Then, Rest, TypeOK, rdkVars, historyVars

LEMMA OwnPlain ==
  ASSUME TypeOK, NEW w \in Workers, Worker(w), Placed(w), kind[w] \notin {"jog", "goal", "home"}
  PROVE  Placed(w)'
<1>1. CASE todo[w] = <<>>
  BY <1>1, ReturnPlaced
<1>. {<<>>} \in SUBSET Seq(Step) /\ {<<Do("ready", "IDLE")>>} \in SUBSET Seq(Step)
     /\ "NRT_CARTESIAN" \in Motion
  BY EndTypes DEF Motion, Cartesian
<1>2. CASE kind[w] = "publish" /\ todo[w] \in Reading({<<>>}) /\ Clear(w)
  BY <1>2, ReadingOn DEF Placed, Clear, Quiet
<1>3. CASE kind[w] = "stop" /\ todo[w] \in Stopping /\ Clear(w)
  BY <1>3, StopOn DEF Placed, Clear
<1>4. ASSUME NEW m \in Motion, kind[w] = "mode", todo[w] \in Setting(m, {<<>>}), Clear(w)
      PROVE  Placed(w)'
  BY <1>4, SettingOn DEF Placed, Clear, Quiet
<1>5. CASE kind[w] = "boot" /\ todo[w] \in Booting /\ Clear(w)
  <2>1. CASE todo[w] \in Setting("NRT_CARTESIAN", Reads({<<Do("ready", "IDLE")>>}))
    <3>1. todo'[w] \in Booting /\ Quiet(w)
      BY <2>1, SettingOn, ReadTypes DEF Booting, Reading
    <3>2. QED
      BY <1>5, <3>1 DEF Placed, Clear, Quiet
  <2>2. CASE todo[w] \in Reading({<<Do("ready", "IDLE")>>})
    <3>1. todo'[w] \in Booting /\ Quiet(w)
      BY <2>2, ReadingOn DEF Booting
    <3>2. QED
      BY <1>5, <3>1 DEF Placed, Clear, Quiet
  <2>3. CASE todo[w] = <<Do("ready", "IDLE")>>
    <3>1. todo'[w] \in Booting /\ kind' = kind /\ told' = told
      BY <2>3, ReadyOn DEF Booting
    <3>2. QED
      BY <1>5, <3>1 DEF Placed, Clear
  <2>4. QED
    BY <1>1, <1>5, <2>1, <2>2, <2>3 DEF Booting
<1>6. QED
  BY <1>1, <1>2, <1>3, <1>4, <1>5, Acts DEF Placed, Worker, Return

-----------------------------------------------------------------------------
(* The steps of a motion *)

LEMMA OverOn ==
  ASSUME TypeOK, NEW w \in Workers, Worker(w), todo[w] \in Over, todo[w] # <<>>
  PROVE  todo'[w] \in Over /\ kind' = kind /\ calm'[w] = calm[w]
<1>. Ends \in SUBSET Seq(Step) /\ Reads(Ends) \in SUBSET Seq(Step)
  BY EndTypes, ReadTypes
<1>1. CASE todo[w] \in Reading(Ends)
  BY <1>1, ReadingOn DEF Over, Quiet
<1>2. CASE todo[w] \in Halts(Reads(Ends)) \cup Forgets(Reads(Ends))
  BY <1>2, HaltOn DEF Over, Quiet, Reading
<1>3. CASE todo[w] \in Stopping
  BY <1>3, StopOn DEF Over, Ends
<1>4. CASE todo[w] = <<Do("finish", "IDLE")>>
  <2>1. Head(todo[w]).op = "finish"
    BY <1>4 DEF Do
  <2>2. Finish(w)
    BY <2>1, Acts DEF At
  <2>3. todo'[w] \in {StopRobot, <<>>} /\ kind' = kind /\ calm' = calm
    BY <2>2 DEF Finish, Then, TypeOK, historyVars
  <2>4. QED
    BY <2>3, MethodsAlone DEF Over, Ends
<1>5. QED
  BY <1>1, <1>2, <1>3, <1>4 DEF Over, Ends

LEMMA HomingOn ==
  ASSUME TypeOK, NEW w \in Workers, Worker(w), todo[w] \in Homing
  PROVE  todo'[w] \in Homing \cup Over \cup Entering("NRT_JOINT") /\ Quiet(w)
<1>. DEFINE E == Entering("NRT_JOINT")
<1>0. "NRT_JOINT" \in Spaces /\ "NRT_JOINT" \in Motion
  BY DEF Spaces, Motion, Joint
<1>1. E \in SUBSET Seq(Step) /\ Switches("NRT_JOINT", E) \in SUBSET Seq(Step)
  BY <1>0, MotionTypes, MotionParts
<1>2. CASE todo[w] \in Reading(Switches("NRT_JOINT", E))
  BY <1>1, <1>2, ReadingOn DEF Homing, Setting
<1>3. CASE todo[w] \in Setting("NRT_JOINT", E)
  BY <1>0, <1>1, <1>3, SettingOn DEF Homing, Over, Ends
<1>4. QED
  BY <1>2, <1>3 DEF Homing

LEMMA EnterOn ==
  ASSUME TypeOK, NEW w \in Workers, Worker(w), NEW m \in Spaces, todo[w] \in Entering(m)
  PROVE  /\ todo'[w] \in Over \cup Reads(Ensuring(m))
         /\ UNCHANGED <<kind, calm, up, arm, cached, armed, crossed>> /\ told'[w] = told[w]
<1>1. Do("enter", m) \in Step /\ Do("enter", m).op = "enter"
  BY StepTypes, SpaceTypes DEF Ops, Modes
<1>2. /\ todo[w] # <<>> /\ Head(todo[w]) = Do("enter", m)
      /\ Tail(todo[w]) \in Reads(Ensuring(m))
  BY <1>1, MotionParts, OpParts DEF Entering
<1>3. Enter(w)
  BY <1>1, <1>2, Acts DEF At
<1>4. \A f \in Ends : ReadState \o f \in Reads(Ends)
  BY MethodsIn, EndTypes
<1>5. <<>> \in Ends /\ <<Do("finish", "IDLE")>> \in Ends /\ Reads(Ends) \subseteq Over
  BY DEF Ends, Over, Reading
<1>6. todo'[w] = IF cancel
                 THEN ReadState \o (IF kind[w] = "goal" THEN <<Do("finish", "IDLE")>> ELSE <<>>)
                 ELSE Tail(todo[w])
  BY <1>3 DEF Enter, Then, Rest, TypeOK
<1>7. UNCHANGED <<kind, calm, up, arm, cached, armed, crossed>> /\ told'[w] = told[w]
  BY <1>3, SpareOwn DEF Enter, rdkVars
<1>8. QED
  BY <1>2, <1>4, <1>5, <1>6, <1>7

\* A mode that was looked up is the arm's, and the one the setpoints go to.
Fits(w, m) ==
  (seen[w] = cached /\ cached # "PRIMITIVE" /\ (cached = "IDLE" \/ arm # "IDLE"))
    => Wrong \/ (cached = arm /\ arm = Sends(m))

\* A mode is only found usable if the setpoints of the motion go to it.
LEMMA EnsureOn ==
  ASSUME TypeOK, NEW w \in Workers, Worker(w), NEW m \in Spaces, todo[w] \in Ensuring(m)
  PROVE  /\ \/ todo'[w] \in Switches(m, Reads(Ticking(m)))
            \/ /\ todo'[w] \in Ticking(m)
               /\ Fits(w, m)
         /\ UNCHANGED <<kind, cancel, told, calm, up, arm, cached, armed, crossed>>
<1>1. Do("ensure", m) \in Step /\ Do("ensure", m).op = "ensure" /\ Do("ensure", m).mode = m
  BY StepTypes, SpaceTypes DEF Ops, Modes
<1>2. todo[w] # <<>> /\ Head(todo[w]) = Do("ensure", m) /\ Tail(todo[w]) \in Ticking(m)
  BY <1>1, MotionTypes, OpParts DEF Ensuring
<1>3. Ensure(w)
  BY <1>1, <1>2, Acts DEF At
<1>4. todo'[w] = (IF Usable(w) THEN <<>> ELSE SetMode(m) \o ReadState) \o Tail(todo[w])
  BY <1>1, <1>2, <1>3 DEF Ensure, Then, Rest, TypeOK
<1>5. UNCHANGED <<kind, cancel, told, calm, up, arm, cached, armed, crossed>>
  BY <1>3 DEF Ensure, rdkVars, historyVars
<1>6. CASE Usable(w)
  <2>1. todo'[w] \in Ticking(m)
    BY <1>2, <1>4, <1>6, EnsureIn
  <2>2. IF m \in Cartesian THEN seen[w] \in Cartesian ELSE seen[w] \notin Cartesian \cup {"IDLE"}
    BY <1>1, <1>2, <1>6 DEF Usable
  <2>3. Fits(w, m)
    BY <2>2 DEF Fits, Wrong, TypeOK, RdkTypeOK, Modes, Motion, Cartesian, Joint, Spaces, Sends, Realtime
  <2>4. QED
    BY <1>5, <2>1, <2>3
<1>7. CASE ~Usable(w)
  BY <1>2, <1>4, <1>5, <1>7, EnsureIn
<1>8. QED
  BY <1>6, <1>7

LEMMA TickOn ==
  ASSUME TypeOK, NEW w \in Workers, Worker(w), NEW m \in Spaces, todo[w] \in Ticking(m)
  PROVE  /\ todo'[w] \in Over \/ (todo'[w] \in Reads(Gating(m)) /\ ~cancel)
         /\ UNCHANGED <<kind, calm, up, arm, cached, armed, crossed>> /\ told'[w] = told[w]
<1>1. PICK n \in 0 .. Ticks : todo[w] \in Op(Tick(m, n), Reads(Ends))
  BY DEF Ticking
<1>2. Tick(m, n) \in Step /\ Tick(m, n).op = "tick" /\ Tick(m, n).left = n
  BY StepTypes, SpaceTypes
<1>3. todo[w] # <<>> /\ Head(todo[w]) = Tick(m, n) /\ Tail(todo[w]) \in Reads(Ends)
  BY <1>1, <1>2, MotionParts, OpParts
<1>4. TickOver(w)
  BY <1>2, <1>3, Acts DEF At
<1>5. UNCHANGED <<kind, calm, up, arm, cached, armed, crossed>> /\ told'[w] = told[w]
  BY <1>4, SpareOwn DEF TickOver, rdkVars
<1>6. CASE n = 0
  <2>1. todo'[w] = Tail(todo[w])
    BY <1>2, <1>3, <1>4, <1>6 DEF TickOver, Then, Rest, TypeOK
  <2>2. QED
    BY <1>3, <1>5, <2>1 DEF Over, Reading
<1>7. CASE n # 0 /\ cancel
  <2>1. n > 0
    BY <1>7, NodeAssumption
  <2>2. todo'[w] = HaltArm \o Tail(todo[w])
    BY <1>2, <1>3, <1>4, <1>7, <2>1 DEF TickOver, Then, Rest, TypeOK
  <2>3. QED
    BY <1>3, <1>5, <2>2, MethodsIn, MotionParts DEF Over
<1>8. CASE n # 0 /\ ~cancel
  <2>1. todo'[w] = Setpoint(Tick(m, n)) \o Tail(todo[w])
    BY <1>2, <1>3, <1>4, <1>8 DEF TickOver, Then, Rest, TypeOK
  <2>2. QED
    BY <1>3, <1>5, <1>8, <2>1, SetpointIn
<1>9. QED
  BY <1>6, <1>7, <1>8

LEMMA GateOn ==
  ASSUME TypeOK, NEW w \in Workers, Worker(w), NEW m \in Spaces, todo[w] \in Gating(m)
  PROVE  /\ todo'[w] \in Over \cup Sending(m)
         /\ UNCHANGED <<kind, cancel, told, calm, up, arm, cached, armed, crossed>>
<1>1. {Do("gate", m), Do("send", m)} \subseteq Step /\ Do("gate", m).op = "gate"
  BY StepTypes, SpaceTypes DEF Ops, Modes
<1>2. todo[w] # <<>> /\ Head(todo[w]) = Do("gate", m) /\ Tail(todo[w]) \in Sending(m)
  BY <1>1, MotionTypes, OpParts DEF Gating
<1>3. Gate(w)
  BY <1>1, <1>2, Acts DEF At
<1>4. Tail(Tail(todo[w])) \in Ticking(m)
  BY <1>1, <1>2, MotionTypes, OpParts DEF Sending
<1>5. Tail(Tail(Tail(todo[w]))) \in Reads(Ends)
  <2>1. PICK n \in 0 .. Ticks : Tail(Tail(todo[w])) \in Op(Tick(m, n), Reads(Ends))
    BY <1>4 DEF Ticking
  <2>2. Tick(m, n) \in Step
    BY StepTypes, SpaceTypes
  <2>3. QED
    BY <2>1, <2>2, MotionParts, OpParts
<1>6. todo'[w] \in {HaltArm \o Tail(Tail(Tail(todo[w]))), Tail(todo[w])}
  BY <1>3 DEF Gate, Then, Rest, TypeOK
<1>7. UNCHANGED <<kind, cancel, told, calm, up, arm, cached, armed, crossed>>
  BY <1>3 DEF Gate, rdkVars, historyVars
<1>8. QED
  BY <1>2, <1>5, <1>6, <1>7, MethodsIn, MotionParts DEF Over

LEMMA SendOn ==
  ASSUME TypeOK, NEW w \in Workers, Worker(w), NEW m \in Spaces, todo[w] \in Sending(m)
  PROVE  /\ Still(w) /\ At(w, "send") /\ Rest(w) \in Ticking(m)
         /\ \/ Raise(w) /\ todo'[w] = <<>> /\ arm # Sends(m)
            \/ Backend(w) /\ todo'[w] = Rest(w) /\ arm = Sends(m)
<1>1. Do("send", m) \in Step /\ Do("send", m).op = "send" /\ Do("send", m).mode = m
  BY StepTypes, SpaceTypes DEF Ops, Modes
<1>2. todo[w] # <<>> /\ Head(todo[w]) = Do("send", m) /\ Tail(todo[w]) \in Ticking(m)
  BY <1>1, MotionTypes, OpParts DEF Sending
<1>3. Backend(w) \/ Raise(w)
  BY <1>1, <1>2, Acts
<1>4. Raise(w) => arm # Sends(m)
  BY <1>1, <1>2, RaiseSteps DEF Raises
<1>5. QED
  BY <1>1, <1>2, <1>3, <1>4, BackendSteps, RaiseSteps DEF Still, Quiet, At, Rest

-----------------------------------------------------------------------------
(* A motion's own step leaves it placed *)

Motions == {"jog", "goal", "home"}

LEMMA AtOver ==
  ASSUME NEW w \in Workers, kind'[w] \in Motions, todo'[w] \in Over \/ todo'[w] = <<>>
  PROVE  Placed(w)'
BY DEF Placed, Moving, Over, Ends, Motions

LEMMA AtAlong ==
  ASSUME NEW w \in Workers, kind'[w] \in Motions, NEW m \in Spaces, Along(w, m)'
  PROVE  Placed(w)'
BY DEF Placed, Moving, Motions

LEMMA OwnEntry ==
  ASSUME TypeOK, NEW w \in Workers, Worker(w), kind[w] \in Motions, todo[w] # <<>>,
         \/ todo[w] \in Over
         \/ todo[w] \in Homing /\ Clear(w)
         \/ \E m \in Spaces : todo[w] \in Entering(m) \cup Reading(Entering(m)) /\ Clear(w)
  PROVE  Placed(w)'
<1>1. CASE todo[w] \in Over
  BY <1>1, OverOn, AtOver
<1>2. CASE todo[w] \in Homing /\ Clear(w)
  <2>1. /\ todo'[w] \in Homing \cup Over \cup Entering("NRT_JOINT")
        /\ kind' = kind /\ Clear(w)'
    BY <1>2, HomingOn DEF Quiet, Clear
  <2>2. CASE todo'[w] \in Homing
    BY <2>1, <2>2 DEF Placed, Moving, Motions
  <2>3. CASE todo'[w] \in Over
    BY <2>1, <2>3, AtOver
  <2>4. CASE todo'[w] \in Entering("NRT_JOINT")
    <3>1. "NRT_JOINT" \in Spaces /\ Along(w, "NRT_JOINT")'
      BY <2>1, <2>4 DEF Spaces, Along
    <3>2. QED
      BY <2>1, <3>1, AtAlong
  <2>5. QED
    BY <2>1, <2>2, <2>3, <2>4
<1>3. ASSUME NEW m \in Spaces, todo[w] \in Reading(Entering(m)), Clear(w)
      PROVE  Placed(w)'
  <2>1. todo'[w] \in Reading(Entering(m)) \cup Entering(m) /\ kind' = kind /\ Clear(w)'
    BY <1>3, ReadingOn, MotionTypes DEF Quiet, Clear
  <2>2. Along(w, m)'
    BY <2>1 DEF Along
  <2>3. QED
    BY <2>1, <2>2, AtAlong
<1>4. ASSUME NEW m \in Spaces, todo[w] \in Entering(m), Clear(w)
      PROVE  Placed(w)'
  <2>1. /\ todo'[w] \in Over \cup Reads(Ensuring(m)) /\ kind' = kind
        /\ Clear(w)'
    BY <1>4, EnterOn DEF Clear
  <2>2. CASE todo'[w] \in Over
    BY <2>1, <2>2, AtOver
  <2>3. CASE todo'[w] \in Reads(Ensuring(m))
    <3>1. Heard(w)'
      BY <2>1 DEF Clear, Heard
    <3>2. Along(w, m)'
      BY <2>3, <3>1 DEF Along
    <3>3. QED
      BY <2>1, <3>2, AtAlong
  <2>4. QED
    BY <2>1, <2>2, <2>3
<1>5. QED
  BY <1>1, <1>2, <1>3, <1>4

LEMMA OwnEnsuring ==
  ASSUME TypeOK, NEW w \in Workers, Worker(w), kind[w] \in Motions, cached # "PRIMITIVE", NEW m \in Spaces,
         \/ todo[w] \in Reads(Ensuring(m)) \cup Corrects(Ensuring(m)) /\ Heard(w)
         \/ todo[w] \in Looked(Ensuring(m)) /\ Heard(w) /\ Honest(w)
         \/ /\ todo[w] \in Ensuring(m) /\ Heard(w) /\ Honest(w)
            /\ calm[w] => seen[w] = cached
  PROVE  Placed(w)'
<1>0. Ensuring(m) \in SUBSET Seq(Step) /\ Looked(Ensuring(m)) \in SUBSET Seq(Step)
  BY MotionTypes, ReadTypes
<1>1. CASE todo[w] \in Reads(Ensuring(m)) /\ Heard(w)
  <2>1. /\ Still(w) /\ UNCHANGED seen
        /\ IF cached # "IDLE" /\ arm = "IDLE"
           THEN todo'[w] \in Corrects(Ensuring(m)) ELSE todo'[w] \in Looked(Ensuring(m))
    BY <1>0, <1>1, ReadOn
  <2>3. Heard(w)'
    BY <1>1, <2>1 DEF Heard, Still, Quiet
  <2>4. CASE cached # "IDLE" /\ arm = "IDLE"
    BY <2>1, <2>3, <2>4, AtAlong DEF Along, Still, Quiet
  <2>5. CASE ~(cached # "IDLE" /\ arm = "IDLE")
    <3>1. Honest(w)'
      BY <2>1, <2>5 DEF Honest, Still, Quiet
    <3>2. Along(w, m)'
      BY <2>1, <2>3, <2>5, <3>1 DEF Along
    <3>3. QED
      BY <2>1, <3>2, AtAlong DEF Still, Quiet
  <2>6. QED
    BY <2>4, <2>5
<1>2. CASE todo[w] \in Corrects(Ensuring(m)) /\ Heard(w)
  <2>1. /\ Quiet(w) /\ UNCHANGED <<arm, armed, seen>>
        /\ cached' = "IDLE" /\ todo'[w] \in Looked(Ensuring(m))
    BY <1>0, <1>2, ReadOn
  <2>2. Heard(w)' /\ Honest(w)'
    BY <1>2, <2>1 DEF Heard, Honest, Quiet
  <2>3. Along(w, m)'
    BY <2>1, <2>2 DEF Along
  <2>4. QED
    BY <2>1, <2>3, AtAlong DEF Quiet
<1>3. CASE todo[w] \in Looked(Ensuring(m)) /\ Heard(w) /\ Honest(w)
  <2>1. Still(w) /\ seen'[w] = cached /\ todo'[w] \in Ensuring(m)
    BY <1>0, <1>3, ReadOn
  <2>2. Heard(w)' /\ Honest(w)' /\ seen'[w] = cached'
    BY <1>3, <2>1 DEF Heard, Honest, Still, Quiet
  <2>3. Along(w, m)'
    BY <2>1, <2>2 DEF Along
  <2>4. QED
    BY <2>1, <2>3, AtAlong DEF Still, Quiet
<1>4. CASE /\ todo[w] \in Ensuring(m) /\ Heard(w) /\ Honest(w)
           /\ calm[w] => seen[w] = cached
  <2>1. /\ \/ todo'[w] \in Switches(m, Reads(Ticking(m)))
           \/ /\ todo'[w] \in Ticking(m)
              /\ Fits(w, m)
        /\ UNCHANGED <<kind, cancel, told, calm, up, arm, cached, armed>>
    BY <1>4, EnsureOn
  <2>2. Heard(w)'
    BY <1>4, <2>1 DEF Heard
  <2>3. CASE todo'[w] \in Switches(m, Reads(Ticking(m)))
    <3>1. Along(w, m)'
      BY <2>2, <2>3 DEF Along
    <3>2. QED
      BY <2>1, <3>1, AtAlong
  <2>4. CASE /\ todo'[w] \in Ticking(m)
             /\ Fits(w, m)
    <3>1. Fit(w, m)
      BY <1>4, <2>4 DEF Fits, Fit, Honest
    <3>2. Fit(w, m)'
      BY <2>1, <3>1 DEF Fit, Wrong, Sends
    <3>3. Along(w, m)'
      BY <2>2, <2>4, <3>2 DEF Along
    <3>4. QED
      BY <2>1, <3>3, AtAlong
  <2>5. QED
    BY <2>1, <2>3, <2>4
<1>5. QED
  BY <1>1, <1>2, <1>3, <1>4

LEMMA OwnSetting ==
  ASSUME TypeOK, NEW w \in Workers, Worker(w), kind[w] \in Motions, NEW m \in Spaces,
         \/ todo[w] \in Switches(m, Reads(Ticking(m))) /\ Heard(w)
         \/ /\ todo[w] \in Caches(m, Reads(Ticking(m))) /\ Heard(w)
            /\ calm[w] => arm = m
         \/ todo[w] \in Guards(m, Reads(Ticking(m))) /\ Heard(w) /\ Fit(w, m) /\ m \in Cartesian
  PROVE  Placed(w)'
<1>0. Reads(Ticking(m)) \in SUBSET Seq(Step) /\ m \in Motion
  BY MotionParts
<1>1. CASE todo[w] \in Switches(m, Reads(Ticking(m))) /\ Heard(w)
  <2>1. \/ todo'[w] = <<>> /\ Still(w)
        \/ Quiet(w) /\ arm' = m /\ cached' = cached /\ todo'[w] \in Caches(m, Reads(Ticking(m)))
    BY <1>0, <1>1, SetOn
  <2>2. CASE todo'[w] = <<>> /\ Still(w)
    BY <2>2, AtOver DEF Still, Quiet
  <2>3. CASE Quiet(w) /\ arm' = m /\ todo'[w] \in Caches(m, Reads(Ticking(m)))
    <3>1. Heard(w)'
      BY <1>1, <2>3 DEF Heard, Quiet
    <3>2. Along(w, m)'
      BY <2>3, <3>1 DEF Along
    <3>3. QED
      BY <2>3, <3>2, AtAlong DEF Quiet
  <2>4. QED
    BY <2>1, <2>2, <2>3
<1>2. CASE /\ todo[w] \in Caches(m, Reads(Ticking(m))) /\ Heard(w)
           /\ calm[w] => arm = m
  <2>1. /\ Quiet(w) /\ UNCHANGED <<arm, armed>> /\ cached' = m
        /\ todo'[w] \in Guards(m, Reads(Ticking(m)))
    BY <1>0, <1>2, SetOn
  <2>2. Heard(w)'
    BY <1>2, <2>1 DEF Heard, Quiet
  <2>3. Fit(w, m)'
    <3>1. cached' = m => Sends(m)' = m
      BY DEF Sends, Spaces, Realtime, Cartesian
    <3>2. QED
      BY <1>2, <2>1, <3>1 DEF Fit, Quiet
  <2>4. Along(w, m)'
    BY <2>1, <2>2, <2>3 DEF Along
  <2>5. QED
    BY <2>1, <2>4, AtAlong DEF Quiet
<1>3. CASE todo[w] \in Guards(m, Reads(Ticking(m))) /\ Heard(w) /\ Fit(w, m) /\ m \in Cartesian
  <2>1. \/ todo'[w] = <<>> /\ Still(w)
        \/ Quiet(w) /\ UNCHANGED <<arm, cached>> /\ todo'[w] \in Reads(Ticking(m))
    BY <1>0, <1>3, SetOn
  <2>2. CASE todo'[w] = <<>> /\ Still(w)
    BY <2>2, AtOver DEF Still, Quiet
  <2>3. CASE Quiet(w) /\ UNCHANGED <<arm, cached>> /\ todo'[w] \in Reads(Ticking(m))
    <3>1. Heard(w)' /\ Fit(w, m)'
      BY <1>3, <2>3 DEF Heard, Fit, Wrong, Sends, Quiet
    <3>2. Along(w, m)'
      BY <2>3, <3>1 DEF Along
    <3>3. QED
      BY <2>3, <3>2, AtAlong DEF Quiet
  <2>4. QED
    BY <2>1, <2>2, <2>3
<1>4. QED
  BY <1>1, <1>2, <1>3

\* A halt to come is only gone when it is made.
LEMMA HaltKept ==
  ASSUME TypeOK, NEW w \in Workers, Thread(w), todo[w] # HaltArm, HaltAhead
  PROVE  HaltAhead'
<1>1. PICK v \in Workers : todo[v] = HaltArm
  BY DEF HaltAhead
<1>2. v # w /\ todo'[v] = todo[v]
  BY <1>1, Frame DEF TypeOK
<1>3. QED
  BY <1>1, <1>2 DEF HaltAhead

LEMMA OwnTicking ==
  ASSUME TypeOK, NEW w \in Workers, Worker(w), kind[w] \in Motions, NEW m \in Spaces,
         \/ /\ todo[w] \in Reads(Ticking(m)) \cup Looked(Ticking(m)) \cup Ticking(m)
            /\ Heard(w) /\ Fit(w, m)
         \/ todo[w] \in Corrects(Ticking(m)) /\ Heard(w) /\ ~calm[w]
  PROVE  Placed(w)'
<1>0. Ticking(m) \in SUBSET Seq(Step) /\ Looked(Ticking(m)) \in SUBSET Seq(Step)
  BY MotionTypes, ReadTypes
<1>1. CASE todo[w] \in Reads(Ticking(m)) /\ Heard(w) /\ Fit(w, m)
  <2>1. /\ Still(w)
        /\ IF cached # "IDLE" /\ arm = "IDLE"
           THEN todo'[w] \in Corrects(Ticking(m)) ELSE todo'[w] \in Looked(Ticking(m))
    BY <1>0, <1>1, ReadOn
  <2>2. Heard(w)' /\ Fit(w, m)'
    BY <1>1, <2>1 DEF Heard, Fit, Wrong, Sends, Still, Quiet
  <2>3. cached # "IDLE" /\ arm = "IDLE" => ~calm'[w]
    BY <1>1, <2>1 DEF Fit, Wrong, Still, Quiet
  <2>4. Along(w, m)'
    BY <2>1, <2>2, <2>3 DEF Along
  <2>5. QED
    BY <2>1, <2>4, AtAlong DEF Still, Quiet
<1>2. CASE todo[w] \in Looked(Ticking(m)) /\ Heard(w) /\ Fit(w, m)
  <2>1. Still(w) /\ todo'[w] \in Ticking(m)
    BY <1>0, <1>2, ReadOn
  <2>2. Heard(w)' /\ Fit(w, m)'
    BY <1>2, <2>1 DEF Heard, Fit, Wrong, Sends, Still, Quiet
  <2>3. Along(w, m)'
    BY <2>1, <2>2 DEF Along
  <2>4. QED
    BY <2>1, <2>3, AtAlong DEF Still, Quiet
<1>3. CASE todo[w] \in Ticking(m) /\ Heard(w) /\ Fit(w, m)
  <2>1. /\ todo'[w] \in Over \/ (todo'[w] \in Reads(Gating(m)) /\ ~cancel)
        /\ UNCHANGED <<kind, calm, up, arm, cached, armed>> /\ told'[w] = told[w]
    BY <1>3, TickOn
  <2>2. CASE todo'[w] \in Over
    BY <2>1, <2>2, AtOver
  <2>3. CASE todo'[w] \in Reads(Gating(m)) /\ ~cancel
    <3>1. Stilled(w)' /\ Fit(w, m)'
      BY <1>3, <2>1, <2>3 DEF Heard, Stilled, Fit, Wrong, Sends
    <3>2. Along(w, m)'
      BY <2>3, <3>1 DEF Along
    <3>3. QED
      BY <2>1, <3>2, AtAlong
  <2>4. QED
    BY <2>1, <2>2, <2>3
<1>4. CASE todo[w] \in Corrects(Ticking(m)) /\ Heard(w) /\ ~calm[w]
  <2>1. Quiet(w) /\ todo'[w] \in Looked(Ticking(m))
    BY <1>0, <1>4, ReadOn
  <2>2. Heard(w)' /\ Fit(w, m)'
    BY <1>4, <2>1 DEF Heard, Fit, Quiet
  <2>3. Along(w, m)'
    BY <2>1, <2>2 DEF Along
  <2>4. QED
    BY <2>1, <2>3, AtAlong DEF Quiet
<1>5. QED
  BY <1>1, <1>2, <1>3, <1>4

LEMMA OwnGating ==
  ASSUME TypeOK, NEW w \in Workers, Worker(w), kind[w] \in Motions, NEW m \in Spaces,
         \/ /\ todo[w] \in Reads(Gating(m)) \cup Looked(Gating(m)) \cup Gating(m) \cup Sending(m)
            /\ Stilled(w) /\ Fit(w, m)
         \/ todo[w] \in Corrects(Gating(m)) /\ Stilled(w) /\ ~calm[w]
  PROVE  Placed(w)'
<1>0. /\ Gating(m) \in SUBSET Seq(Step) /\ Looked(Gating(m)) \in SUBSET Seq(Step)
      /\ Thread(w) /\ todo[w] # HaltArm
  <2>1. Gating(m) \in SUBSET Seq(Step) /\ Looked(Gating(m)) \in SUBSET Seq(Step)
    BY MotionTypes, ReadTypes
  <2>2. todo[w] # HaltArm
    BY <2>1, HaltIs, MethodFirsts, MotionFirsts DEF First
  <2>3. QED
    BY <2>1, <2>2 DEF Thread
<1>1. CASE todo[w] \in Reads(Gating(m)) /\ Stilled(w) /\ Fit(w, m)
  <2>1. /\ Still(w)
        /\ IF cached # "IDLE" /\ arm = "IDLE"
           THEN todo'[w] \in Corrects(Gating(m)) ELSE todo'[w] \in Looked(Gating(m))
    BY <1>0, <1>1, ReadOn
  <2>2. Stilled(w)' /\ Fit(w, m)'
    BY <1>0, <1>1, <2>1, HaltKept DEF Stilled, Fit, Wrong, Sends, Still, Quiet
  <2>3. cached # "IDLE" /\ arm = "IDLE" => ~calm'[w]
    BY <1>1, <2>1 DEF Fit, Wrong, Still, Quiet
  <2>4. Along(w, m)'
    BY <2>1, <2>2, <2>3 DEF Along
  <2>5. QED
    BY <2>1, <2>4, AtAlong DEF Still, Quiet
<1>2. CASE todo[w] \in Looked(Gating(m)) /\ Stilled(w) /\ Fit(w, m)
  <2>1. Still(w) /\ todo'[w] \in Gating(m)
    BY <1>0, <1>2, ReadOn
  <2>2. Stilled(w)' /\ Fit(w, m)'
    BY <1>0, <1>2, <2>1, HaltKept DEF Stilled, Fit, Wrong, Sends, Still, Quiet
  <2>3. Along(w, m)'
    BY <2>1, <2>2 DEF Along
  <2>4. QED
    BY <2>1, <2>3, AtAlong DEF Still, Quiet
<1>3. CASE todo[w] \in Gating(m) /\ Stilled(w) /\ Fit(w, m)
  <2>1. /\ todo'[w] \in Over \cup Sending(m)
        /\ UNCHANGED <<kind, cancel, told, calm, up, arm, cached, armed>>
    BY <1>3, GateOn
  <2>2. CASE todo'[w] \in Over
    BY <2>1, <2>2, AtOver
  <2>3. CASE todo'[w] \in Sending(m)
    <3>1. Stilled(w)' /\ Fit(w, m)'
      BY <1>0, <1>3, <2>1, HaltKept DEF Stilled, Fit, Wrong, Sends
    <3>2. Along(w, m)'
      BY <2>3, <3>1 DEF Along
    <3>3. QED
      BY <2>1, <3>2, AtAlong
  <2>4. QED
    BY <2>1, <2>2, <2>3
<1>4. CASE todo[w] \in Sending(m) /\ Stilled(w) /\ Fit(w, m)
  <2>1. Still(w) /\ (todo'[w] = <<>> \/ todo'[w] \in Ticking(m))
    BY <1>4, SendOn
  <2>2. CASE todo'[w] = <<>>
    BY <2>1, <2>2, AtOver DEF Still, Quiet
  <2>3. CASE todo'[w] \in Ticking(m)
    <3>1. Heard(w)' /\ Fit(w, m)'
      BY <1>4, <2>1 DEF Heard, Stilled, Fit, Wrong, Sends, Still, Quiet
    <3>2. Along(w, m)'
      BY <2>3, <3>1 DEF Along
    <3>3. QED
      BY <2>1, <3>2, AtAlong DEF Still, Quiet
  <2>4. QED
    BY <2>1, <2>2, <2>3
<1>5. CASE todo[w] \in Corrects(Gating(m)) /\ Stilled(w) /\ ~calm[w]
  <2>1. Quiet(w) /\ UNCHANGED arm /\ todo'[w] \in Looked(Gating(m))
    BY <1>0, <1>5, ReadOn
  <2>2. Stilled(w)' /\ Fit(w, m)'
    BY <1>0, <1>5, <2>1, HaltKept DEF Stilled, Fit, Quiet
  <2>3. Along(w, m)'
    BY <2>1, <2>2 DEF Along
  <2>4. QED
    BY <2>1, <2>3, AtAlong DEF Quiet
<1>6. QED
  BY <1>1, <1>2, <1>3, <1>4, <1>5

LEMMA OwnPlaced ==
  ASSUME TypeOK, NEW w \in Workers, Worker(w), Placed(w), cached # "PRIMITIVE"
  PROVE  Placed(w)'
<1>1. CASE kind[w] \notin Motions
  BY <1>1, OwnPlain DEF Motions
<1>2. CASE kind[w] \in Motions /\ todo[w] = <<>>
  BY <1>2, ReturnPlaced
<1>3. CASE kind[w] \in Motions /\ todo[w] # <<>>
  <2>1. Moving(w)
    BY <1>3 DEF Placed, Motions
  <2>2. CASE \/ todo[w] \in Over
             \/ todo[w] \in Homing /\ Clear(w)
             \/ \E m \in Spaces : todo[w] \in Entering(m) \cup Reading(Entering(m)) /\ Clear(w)
    BY <1>3, <2>2, OwnEntry
  <2>3. ASSUME NEW m \in Spaces,
               \/ todo[w] \in Reads(Ensuring(m)) \cup Corrects(Ensuring(m)) /\ Heard(w)
               \/ todo[w] \in Looked(Ensuring(m)) /\ Heard(w) /\ Honest(w)
               \/ /\ todo[w] \in Ensuring(m) /\ Heard(w) /\ Honest(w)
                  /\ calm[w] => seen[w] = cached
        PROVE  Placed(w)'
    BY <1>3, <2>3, OwnEnsuring
  <2>4. ASSUME NEW m \in Spaces,
               \/ todo[w] \in Switches(m, Reads(Ticking(m))) /\ Heard(w)
               \/ /\ todo[w] \in Caches(m, Reads(Ticking(m))) /\ Heard(w)
                  /\ calm[w] => arm = m
               \/ todo[w] \in Guards(m, Reads(Ticking(m))) /\ Heard(w) /\ Fit(w, m)
        PROVE  Placed(w)'
    <3>1. CASE m \notin Cartesian /\ todo[w] \in Guards(m, Reads(Ticking(m))) /\ Heard(w) /\ Fit(w, m)
      <4>1. todo[w] \in Reads(Ticking(m))
        BY <3>1 DEF Guards
      <4>2. QED
        BY <1>3, <3>1, <4>1, OwnTicking
    <3>2. QED
      BY <1>3, <2>4, <3>1, OwnSetting
  <2>5. ASSUME NEW m \in Spaces,
               \/ /\ todo[w] \in Reads(Ticking(m)) \cup Looked(Ticking(m)) \cup Ticking(m)
                  /\ Heard(w) /\ Fit(w, m)
               \/ todo[w] \in Corrects(Ticking(m)) /\ Heard(w) /\ ~calm[w]
        PROVE  Placed(w)'
    BY <1>3, <2>5, OwnTicking
  <2>6. ASSUME NEW m \in Spaces,
               \/ /\ todo[w] \in Reads(Gating(m)) \cup Looked(Gating(m)) \cup Gating(m) \cup Sending(m)
                  /\ Stilled(w) /\ Fit(w, m)
               \/ todo[w] \in Corrects(Gating(m)) /\ Stilled(w) /\ ~calm[w]
        PROVE  Placed(w)'
    BY <1>3, <2>6, OwnGating
  <2>7. ASSUME NEW m \in Spaces, Along(w, m) PROVE Placed(w)'
    BY <2>2, <2>3, <2>4, <2>5, <2>6, <2>7 DEF Along
  <2>8. QED
    BY <2>1, <2>2, <2>7 DEF Moving
<1>4. QED
  BY <1>1, <1>2, <1>3

\* A callback that starts.
LEMMA BeginSteps ==
  ASSUME TypeOK, NEW w \in Workers, NEW k, NEW steps, Begin(w, k, steps)
  PROVE  /\ kind[w] = "none" /\ kind'[w] = k /\ todo'[w] = steps /\ up
         /\ UNCHANGED <<arm, cached, armed, seen, cancel, told, crossed, up>>
         /\ \A v \in Workers : v # w => calm'[v] = calm[v]
BY DEF Begin, TypeOK, rdkVars

LEMMA StartPlaced ==
  ASSUME TypeOK, NEW w \in Workers, Placed(w),
         \/ OnTimer(w) \/ OnStop(w) \/ OnTwist(w) \/ OnHome(w) \/ OnGoal(w)
         \/ \E m \in Wanted : OnSetMode(w, m)
  PROVE  Placed(w)'
<1>0. ASSUME NEW k, NEW steps, Begin(w, k, steps) PROVE Clear(w)'
  <2>1. kind[w] = "none" /\ told' = told
    BY <1>0, BeginSteps
  <2>2. Clear(w)
    BY <2>1 DEF Placed
  <2>3. QED
    BY <2>1, <2>2 DEF Clear
<1>1. CASE OnTimer(w)
  <2>1. Begin(w, "publish", Callback.publish)
    BY <1>1 DEF OnTimer
  <2>2. kind'[w] = "publish" /\ todo'[w] \in Reading({<<>>}) /\ Clear(w)'
    BY <1>0, <2>1, BeginSteps, CallbacksIn DEF Reading
  <2>3. QED
    BY <2>2 DEF Placed
<1>2. CASE OnStop(w)
  <2>1. Begin(w, "stop", Callback.stop)
    BY <1>2 DEF OnStop
  <2>2. kind'[w] = "stop" /\ todo'[w] \in Stopping /\ Clear(w)'
    BY <1>0, <2>1, BeginSteps, CallbacksIn
  <2>3. QED
    BY <2>2 DEF Placed
<1>3. CASE OnTwist(w)
  <2>1. Begin(w, "jog", Callback.jog)
    BY <1>3 DEF OnTwist
  <2>2. kind'[w] = "jog" /\ todo'[w] \in Reads(Entering("NRT_CARTESIAN")) /\ Clear(w)'
    BY <1>0, <2>1, BeginSteps, CallbacksIn
  <2>3. Along(w, "NRT_CARTESIAN")'
    BY <2>2 DEF Along, Reading
  <2>4. QED
    BY <2>2, <2>3, AtAlong DEF Spaces, Motions
<1>4. CASE OnGoal(w)
  <2>1. Begin(w, "goal", Callback.goal)
    BY <1>4 DEF OnGoal
  <2>2. kind'[w] = "goal" /\ todo'[w] \in Entering("NRT_CARTESIAN") /\ Clear(w)'
    BY <1>0, <2>1, BeginSteps, CallbacksIn
  <2>3. Along(w, "NRT_CARTESIAN")'
    BY <2>2 DEF Along
  <2>4. QED
    BY <2>2, <2>3, AtAlong DEF Spaces, Motions
<1>5. CASE OnHome(w)
  <2>1. Begin(w, "home", Callback.home)
    BY <1>5 DEF OnHome
  <2>2. kind'[w] = "home" /\ todo'[w] \in Homing /\ Clear(w)'
    BY <1>0, <2>1, BeginSteps, CallbacksIn DEF Homing, Reading
  <2>3. QED
    BY <2>2 DEF Placed, Moving
<1>6. ASSUME NEW m \in Wanted, OnSetMode(w, m) PROVE Placed(w)'
  <2>1. m \in Motion /\ Begin(w, "mode", SetMode(m))
    BY <1>6, NodeAssumption DEF OnSetMode
  <2>2. kind'[w] = "mode" /\ todo'[w] \in Setting(m, {<<>>}) /\ Clear(w)'
    BY <1>0, <2>1, BeginSteps, MethodsAlone DEF Setting
  <2>3. QED
    BY <2>1, <2>2 DEF Placed
<1>7. QED
  BY <1>1, <1>2, <1>3, <1>4, <1>5, <1>6

-----------------------------------------------------------------------------
(* A thread is still placed after a step of another *)

LEMMA NotInMotion ==
  ASSUME NEW w \in Workers, Placed(w),
         \/ kind[w] \notin Motions
         \/ todo[w] \in Over \cup Homing
         \/ \E m \in Spaces : todo[w] \in Entering(m) \cup Reading(Entering(m))
  PROVE  ~InMotion(w)
<1>1. InMotion(w) <=> Has(todo[w], "tick") /\ ~Has(todo[w], "enter")
  BY DEF InMotion, Has
<1>2. kind[w] \notin Motions => ~Has(todo[w], "tick")
  BY Untold DEF Placed, Motions, NoTick
<1>3. todo[w] \in Over => ~Has(todo[w], "tick")
  BY Untold DEF NoTick
<1>4. todo[w] \in Homing => Has(todo[w], "enter")
  BY Untold DEF ToEnter
<1>5. ASSUME NEW m \in Spaces, todo[w] \in Entering(m) \cup Reading(Entering(m))
      PROVE  Has(todo[w], "enter")
  BY <1>5, Untold DEF ToEnter
<1>6. QED
  BY <1>1, <1>2, <1>3, <1>4, <1>5

\* A step that leaves what a motion that was told is to find: the flag, and an arm
\* that is idle or about to be.
Spared ==
  /\ cancel => cancel'
  /\ arm = "IDLE" => arm' = "IDLE"
  /\ HaltAhead => HaltAhead' \/ arm' = "IDLE"

\* What a step of the others may do to what is known of w.
Env(w) ==
  /\ kind'[w] = kind[w] /\ todo'[w] = todo[w] /\ seen'[w] = seen[w]
  /\ calm'[w] => calm[w] /\ UNCHANGED <<arm, cached>>
  /\ told'[w] = "told" =>
       \/ InMotion(w) /\ cancel' /\ HaltAhead'
       \/ told[w] = "told" /\ Spared

LEMMA EnvKeeps ==
  ASSUME NEW w \in Workers, Placed(w), Env(w)
  PROVE  Placed(w)'
<1>1. ASSUME ~InMotion(w), Clear(w) PROVE Clear(w)'
  BY <1>1 DEF Env, Clear
<1>2. CASE kind[w] \notin Motions
  <2>1. ~InMotion(w) /\ Clear(w)
    BY <1>2, NotInMotion DEF Placed, Motions
  <2>2. Clear(w)' /\ kind'[w] = kind[w] /\ todo'[w] = todo[w]
    BY <1>1, <2>1 DEF Env
  <2>3. QED
    BY <1>2, <2>2 DEF Placed, Motions
<1>3. CASE kind[w] \in Motions /\ (todo[w] \in Over \/ todo[w] = <<>>)
  BY <1>3, AtOver DEF Env
<1>4. CASE kind[w] \in Motions /\ todo[w] \in Homing /\ Clear(w)
  <2>1. Clear(w)' /\ kind'[w] = kind[w] /\ todo'[w] = todo[w]
    BY <1>1, <1>4, NotInMotion DEF Env
  <2>2. QED
    BY <1>4, <2>1 DEF Placed, Moving, Motions
<1>5. ASSUME kind[w] \in Motions, todo[w] # <<>>, NEW m \in Spaces, Along(w, m) PROVE Placed(w)'
  <2>1. /\ kind'[w] = kind[w] /\ todo'[w] = todo[w] /\ seen'[w] = seen[w]
        /\ calm'[w] => calm[w] /\ UNCHANGED <<arm, cached>>
    BY <1>5 DEF Env
  <2>2. Heard(w) => Heard(w)'
    BY <2>1 DEF Env, Spared, Heard
  <2>3. Stilled(w) => Stilled(w)'
    BY <2>1 DEF Env, Spared, Stilled
  <2>4. Honest(w) => Honest(w)'
    BY <2>1 DEF Honest
  <2>5. Fit(w, m) => Fit(w, m)'
    BY <2>1 DEF Fit, Wrong, Sends
  <2>6. Along(w, m)'
    <3>1. CASE todo[w] \in Entering(m) \cup Reading(Entering(m)) /\ Clear(w)
      BY <1>1, <1>5, <2>1, <3>1, NotInMotion DEF Along
    <3>2. CASE todo[w] \in Reads(Ensuring(m)) \cup Corrects(Ensuring(m)) /\ Heard(w)
      BY <2>1, <2>2, <3>2 DEF Along
    <3>3. CASE todo[w] \in Looked(Ensuring(m)) /\ Heard(w) /\ Honest(w)
      BY <2>1, <2>2, <2>4, <3>3 DEF Along
    <3>4. CASE /\ todo[w] \in Ensuring(m) /\ Heard(w) /\ Honest(w)
               /\ calm[w] => seen[w] = cached
      <4>1. (calm[w] => seen[w] = cached)'
        BY <2>1, <3>4
      <4>2. QED
        BY <2>1, <2>2, <2>4, <3>4, <4>1 DEF Along
    <3>5. CASE todo[w] \in Switches(m, Reads(Ticking(m))) /\ Heard(w)
      BY <2>1, <2>2, <3>5 DEF Along
    <3>6. CASE /\ todo[w] \in Caches(m, Reads(Ticking(m))) /\ Heard(w)
               /\ calm[w] => arm = m
      <4>1. (calm[w] => arm = m)'
        BY <2>1, <3>6
      <4>2. QED
        BY <2>1, <2>2, <3>6, <4>1 DEF Along
    <3>7. CASE todo[w] \in Guards(m, Reads(Ticking(m))) /\ Heard(w) /\ Fit(w, m)
      BY <2>1, <2>2, <2>5, <3>7 DEF Along
    <3>8. CASE /\ todo[w] \in Reads(Ticking(m)) \cup Looked(Ticking(m)) \cup Ticking(m)
               /\ Heard(w) /\ Fit(w, m)
      BY <2>1, <2>2, <2>5, <3>8 DEF Along
    <3>9. CASE todo[w] \in Corrects(Ticking(m)) /\ Heard(w) /\ ~calm[w]
      <4>1. ~calm[w]'
        BY <2>1, <3>9
      <4>2. QED
        BY <2>1, <2>2, <3>9, <4>1 DEF Along
    <3>10. CASE /\ todo[w] \in Reads(Gating(m)) \cup Looked(Gating(m)) \cup Gating(m) \cup Sending(m)
                /\ Stilled(w) /\ Fit(w, m)
      BY <2>1, <2>3, <2>5, <3>10 DEF Along
    <3>11. CASE todo[w] \in Corrects(Gating(m)) /\ Stilled(w) /\ ~calm[w]
      <4>1. ~calm[w]'
        BY <2>1, <3>11
      <4>2. QED
        BY <2>1, <2>3, <3>11, <4>1 DEF Along
    <3>12. QED
      BY <1>5, <3>1, <3>2, <3>3, <3>4, <3>5, <3>6, <3>7, <3>8, <3>9, <3>10, <3>11 DEF Along
  <2>7. QED
    BY <1>5, <2>1, <2>6, AtAlong
<1>6. QED
  BY <1>2, <1>3, <1>4, <1>5 DEF Placed, Moving, Motions

\* A stop tells the motions under way; a change of the arm or of the cache
\* disturbs the others.
LEMMA OthersSee ==
  ASSUME TypeOK, NEW v \in Workers, NEW w \in Workers, v # w, Thread(v)
  PROVE  /\ told'[w] = "told" => told[w] = "told" \/ (InMotion(w) /\ SetCancel(v))
         /\ calm'[w] => calm[w] /\ UNCHANGED <<arm, cached>>
<1>0. ASSUME Spare(v) PROVE told'[w] # "told"
  BY <1>0 DEF Spare
<1>1. CASE SetCancel(v)
  <2>1. /\ told' = [u \in Workers |-> IF u # v /\ InMotion(u) THEN "told" ELSE told[u]]
        /\ UNCHANGED <<calm, arm, cached>>
    BY <1>1 DEF SetCancel, rdkVars
  <2>2. told'[w] = "told" => told[w] = "told" \/ InMotion(w)
    BY <2>1, Zenon
  <2>3. QED
    BY <1>1, <2>1, <2>2
<1>2. CASE Backend(v)
  <2>1. /\ told' = told \/ Spare(v)
        /\ calm' = [u \in Workers |-> calm[u] /\ (u = v \/ UNCHANGED <<arm, cached>>)]
    BY <1>2 DEF Backend, Disturb
  <2>2. calm'[w] => calm[w] /\ UNCHANGED <<arm, cached>>
    BY <2>1, Zenon
  <2>3. QED
    BY <1>0, <2>1, <2>2
<1>3. CASE Return(v)
  BY <1>3 DEF Return, TypeOK, rdkVars
<1>4. CASE Enter(v) \/ TickOver(v)
  BY <1>0, <1>4 DEF Enter, TickOver, rdkVars
<1>5. CASE Raise(v) \/ Ensure(v) \/ Gate(v) \/ Finish(v) \/ Ready(v) \/ OnCancel(v)
  BY <1>5 DEF Raise, Ensure, Gate, Finish, Ready, OnCancel, rdkVars, historyVars
<1>6. ASSUME NEW k, NEW steps, Begin(v, k, steps)
      PROVE  told' = told /\ calm'[w] = calm[w] /\ UNCHANGED <<arm, cached>>
  BY <1>6, BeginSteps
<1>7. QED
  BY <1>1, <1>2, <1>3, <1>4, <1>5, <1>6
     DEF Thread, Worker, OnTimer, OnStop, OnTwist, OnHome, OnGoal, OnSetMode

\* A stop sets the flag before it halts the arm.
LEMMA CancelSteps ==
  ASSUME TypeOK, NEW v \in Workers, Placed(v), SetCancel(v)
  PROVE  cancel' /\ arm' = arm /\ HaltAhead'
<1>1. cancel' /\ arm' = arm /\ todo'[v] = Tail(todo[v]) /\ At(v, "cancel")
  BY DEF SetCancel, Then, Rest, TypeOK, rdkVars
<1>2. todo'[v] = HaltArm
  BY <1>1, CancelPlaced
<1>3. QED
  BY <1>1, <1>2 DEF HaltAhead

\* The other steps take the flag or start a mode, and then no other motion is told
\* any longer, or leave what those motions are to find.
LEMMA OthersSpare ==
  ASSUME TypeOK, NEW v \in Workers, NEW w \in Workers, v # w, Thread(v), Placed(v),
         ~SetCancel(v), told'[w] = "told"
  PROVE  Spared
<1>0. ~Spare(v)
  BY DEF Spare
<1>1. ASSUME todo[v] # HaltArm, cancel => cancel', arm' = arm PROVE Spared
  BY <1>1, HaltKept DEF Spared
<1>2. CASE Backend(v)
  <2>1. Head(todo[v]).op # "switch" /\ cancel' = cancel
    BY <1>0, <1>2 DEF Backend
  <2>2. CASE Head(todo[v]).op = "halt"
    BY <1>2, <2>1, <2>2, BackendSteps DEF Spared
  <2>3. CASE Head(todo[v]).op # "halt"
    <3>1. Head(todo[v]).op \in {"look", "sync", "report", "cache", "guard", "send"}
      BY <1>2, <2>1, <2>3 DEF Backend
    <3>2. arm' = arm
      BY <1>2, <3>1, BackendSteps
    <3>3. QED
      BY <1>1, <2>1, <2>3, <3>2, HaltIs
  <2>4. QED
    BY <2>2, <2>3
<1>3. CASE Enter(v) \/ TickOver(v)
  <2>1. arm' = arm /\ (cancel => cancel')
    BY <1>0, <1>3 DEF Enter, TickOver, rdkVars
  <2>2. todo[v] # HaltArm
    BY <1>3, HaltIs DEF Enter, TickOver, At
  <2>3. QED
    BY <1>1, <2>1, <2>2
<1>4. CASE Raise(v) \/ Ensure(v) \/ Gate(v) \/ Finish(v) \/ Ready(v) \/ Return(v)
  <2>1. arm' = arm /\ cancel' = cancel
    BY <1>4 DEF Raise, Ensure, Gate, Finish, Ready, Return, rdkVars
  <2>2. todo[v] # HaltArm
    BY <1>4, HaltIs DEF Raise, Raises, Ensure, Gate, Finish, Ready, Return, At
  <2>3. QED
    BY <1>1, <2>1, <2>2
<1>5. CASE OnCancel(v)
  BY <1>5 DEF OnCancel, rdkVars, Spared, HaltAhead
<1>6. ASSUME NEW k, NEW steps, Begin(v, k, steps) PROVE Spared
  <2>1. kind[v] = "none" /\ UNCHANGED <<arm, cancel>>
    BY <1>6, BeginSteps
  <2>2. todo[v] = <<>>
    BY <2>1 DEF Placed
  <2>3. QED
    BY <1>1, <2>1, <2>2, HaltIs
<1>7. QED
  BY <1>2, <1>3, <1>4, <1>5, <1>6
     DEF Thread, Worker, OnTimer, OnStop, OnTwist, OnHome, OnGoal, OnSetMode

LEMMA StepEnv ==
  ASSUME TypeOK, NEW v \in Workers, NEW w \in Workers, v # w, Thread(v), Placed(v)
  PROVE  Env(w)
<1>1. kind'[w] = kind[w] /\ todo'[w] = todo[w] /\ seen'[w] = seen[w]
  BY Frame DEF TypeOK
<1>2. ASSUME told'[w] = "told"
      PROVE  (InMotion(w) /\ cancel' /\ HaltAhead') \/ (told[w] = "told" /\ Spared)
  <2>1. told[w] = "told" \/ (InMotion(w) /\ SetCancel(v))
    BY <1>2, OthersSee
  <2>2. CASE SetCancel(v)
    BY <2>1, <2>2, CancelSteps DEF Spared
  <2>3. CASE ~SetCancel(v)
    BY <1>2, <2>1, <2>3, OthersSpare
  <2>4. QED
    BY <2>2, <2>3
<1>3. QED
  BY <1>1, <1>2, OthersSee DEF Env

LEMMA RobotEnv ==
  ASSUME TypeOK, NEW w \in Workers, RobotTrips \/ RobotRecovers PROVE Env(w)
<1>1. HaltAhead => HaltAhead'
  BY DEF HaltAhead, RobotTrips, RobotRecovers, nodeVars
<1>2. CASE RobotTrips
  <2>1. /\ arm' = "IDLE" /\ calm' = [u \in Workers |-> FALSE]
        /\ UNCHANGED <<kind, todo, seen, cancel, told>>
    BY <1>2 DEF RobotTrips, Trip
  <2>2. calm'[w] = FALSE
    BY <2>1
  <2>3. QED
    BY <1>1, <2>1, <2>2 DEF Env, Spared
<1>3. CASE RobotRecovers
  BY <1>1, <1>3 DEF RobotRecovers, Recover, nodeVars, historyVars, Env, Spared
<1>4. QED
  BY <1>2, <1>3

LEMMA PlacedKept ==
  ASSUME TypeOK, Inv, Next, NEW w \in Workers PROVE Placed(w)'
<1>1. CASE RobotTrips \/ RobotRecovers
  BY <1>1, RobotEnv, EnvKeeps DEF Inv
<1>2. ASSUME NEW v \in Workers, Thread(v) PROVE Placed(w)'
  <2>1. CASE v # w
    BY <1>2, <2>1, StepEnv, EnvKeeps DEF Inv
  <2>2. CASE v = w /\ Worker(w)
    BY <2>2, OwnPlaced DEF Inv, Believed
  <2>3. CASE v = w /\ OnCancel(w)
    <3>1. UNCHANGED <<arm, cached, kind, todo, seen, cancel, told, calm>>
      BY <2>3 DEF OnCancel, rdkVars, historyVars
    <3>2. Env(w)
      BY <3>1 DEF Env, Spared, HaltAhead
    <3>3. QED
      BY <3>2, EnvKeeps DEF Inv
  <2>4. CASE v = w /\ ~Worker(w) /\ ~OnCancel(w)
    BY <1>2, <2>4, StartPlaced DEF Inv, Thread
  <2>5. QED
    BY <2>1, <2>2, <2>3, <2>4
<1>3. QED
  BY <1>1, <1>2 DEF Next, Thread

-----------------------------------------------------------------------------
(* Types *)

LEMMA PlacedSeq ==
  \A w \in Workers : Placed(w) => todo[w] \in Seq(Step) /\ kind[w] \in Kinds
BY PlacedTypes DEF Placed, Kinds

LEMMA TypeKept ==
  ASSUME TypeOK, Inv, Next PROVE TypeOK'
<1>1. ASSUME NEW v \in Workers, Thread(v)
      PROVE  kind' \in [Workers -> Kinds] /\ todo' \in [Workers -> Seq(Step)]
  <2>1. Placed(v)'
    BY PlacedKept
  <2>2. (\A w \in Workers : Placed(w) => todo[w] \in Seq(Step) /\ kind[w] \in Kinds)'
    BY PlacedSeq, PTL
  <2>3. todo'[v] \in Seq(Step) /\ kind'[v] \in Kinds
    BY <2>1, <2>2
  <2>4. kind' = [kind EXCEPT ![v] = kind'[v]] /\ todo' = [todo EXCEPT ![v] = todo'[v]]
    BY <1>1, Frame
  <2>5. QED
    BY <2>3, <2>4 DEF TypeOK
<1>0. ASSUME NEW v \in Workers, Spare(v) PROVE told' \in [Workers -> Answers]
  BY <1>0 DEF Spare, TypeOK, Answers
<1>2. ASSUME NEW v \in Workers, Backend(v) PROVE TypeOK'
  <2>. DEFINE s == Head(todo[v])
  <2>1. s \in Step
    BY <1>2 DEF Backend, TypeOK
  <2>2. s.mode \in Modes
    BY <2>1 DEF Step, Modes
  <2>3. /\ ~Raises(s)
        /\ Effect(IF s.op = "sync" THEN Do("cache", "IDLE") ELSE s)
        /\ seen' = IF s.op = "report" THEN [seen EXCEPT ![v] = cached] ELSE seen
        /\ calm' = [u \in Workers |-> calm[u] /\ (u = v \/ UNCHANGED <<arm, cached>>)]
        /\ \/ Spare(v) /\ crossed' = Crosses(v, s.mode)
           \/ UNCHANGED <<told, crossed>>
        /\ UNCHANGED <<kind, cancel, asked, up, trips>>
    BY <1>2 DEF Backend, Disturb
  <2>4. arm' \in Modes /\ cached' \in Modes /\ fault' = fault
    BY <2>2, <2>3 DEF TypeOK, RdkTypeOK, Effect, Do, Modes
  <2>5. armed' \in BOOLEAN
    BY <2>3 DEF Effect
  <2>6. seen' \in [Workers -> Modes]
    BY <2>3 DEF TypeOK, RdkTypeOK
  <2>7. calm' \in [Workers -> BOOLEAN]
    BY <2>3
  <2>8. told' \in [Workers -> Answers] /\ crossed' \in BOOLEAN
    BY <1>0, <2>3 DEF TypeOK, Crosses
  <2>9. QED
    BY <1>1, <1>2, <2>3, <2>4, <2>5, <2>6, <2>7, <2>8 DEF TypeOK, RdkTypeOK, Thread, Worker
<1>3. ASSUME NEW v \in Workers, SetCancel(v) PROVE TypeOK'
  <2>1. told' \in [Workers -> Answers]
    BY <1>3 DEF SetCancel, TypeOK, Answers
  <2>2. QED
    BY <1>1, <1>3, <2>1 DEF SetCancel, TypeOK, RdkTypeOK, rdkVars, Thread, Worker
<1>4. ASSUME NEW v \in Workers,
             Raise(v) \/ Enter(v) \/ Ensure(v) \/ TickOver(v) \/ Gate(v) \/ Finish(v) \/ Ready(v)
      PROVE  TypeOK'
  <2>1. cancel' \in BOOLEAN /\ up' \in BOOLEAN
    BY <1>4 DEF Raise, Enter, Ensure, TickOver, Gate, Finish, Ready, TypeOK
  <2>2. UNCHANGED <<rdkVars, seen, asked, calm, crossed, trips>>
    BY <1>4 DEF Raise, Enter, Ensure, TickOver, Gate, Finish, Ready, historyVars
  <2>3. told' \in [Workers -> Answers]
    BY <1>0, <1>4 DEF Raise, Enter, Ensure, TickOver, Gate, Finish, Ready, historyVars, TypeOK
  <2>4. QED
    BY <1>1, <1>4, <2>1, <2>2, <2>3 DEF TypeOK, RdkTypeOK, rdkVars, Thread, Worker
<1>5. ASSUME NEW v \in Workers, Return(v) PROVE TypeOK'
  <2>1. seen' \in [Workers -> Modes]
    BY <1>5 DEF Return, TypeOK, Modes
  <2>2. /\ asked' \in [Workers -> BOOLEAN] /\ told' \in [Workers -> Answers]
        /\ calm' \in [Workers -> BOOLEAN]
    BY <1>5 DEF Return, TypeOK, Answers
  <2>3. QED
    BY <1>1, <1>5, <2>1, <2>2 DEF Return, TypeOK, RdkTypeOK, rdkVars, Thread, Worker
<1>6. ASSUME NEW v \in Workers, Thread(v), ~Worker(v) PROVE TypeOK'
  <2>1. ASSUME NEW k, NEW steps, Begin(v, k, steps) PROVE TypeOK'
    <3>1. calm' \in [Workers -> BOOLEAN]
      BY <2>1 DEF Begin, TypeOK
    <3>2. QED
      BY <1>1, <1>6, <2>1, <3>1 DEF Begin, TypeOK, RdkTypeOK, rdkVars
  <2>2. ASSUME OnCancel(v) PROVE TypeOK'
    <3>1. asked' \in [Workers -> BOOLEAN]
      BY <2>2 DEF OnCancel, TypeOK
    <3>2. QED
      BY <2>2, <3>1 DEF OnCancel, TypeOK, RdkTypeOK, rdkVars, historyVars
  <2>3. QED
    BY <1>6, <2>1, <2>2 DEF Thread, OnTimer, OnStop, OnTwist, OnHome, OnGoal, OnSetMode
<1>7. CASE RobotTrips
  <2>1. trips' \in 0 .. MaxTrips
    BY <1>7, NodeAssumption DEF RobotTrips, TypeOK
  <2>2. QED
    BY <1>7, <2>1 DEF RobotTrips, Trip, TypeOK, RdkTypeOK, Modes
<1>8. CASE RobotRecovers
  BY <1>8 DEF RobotRecovers, Recover, nodeVars, historyVars, TypeOK, RdkTypeOK
<1>9. QED
  BY <1>2, <1>3, <1>4, <1>5, <1>6, <1>7, <1>8 DEF Next, Thread, Worker

-----------------------------------------------------------------------------
(* The constructor *)

LEMMA KindSteps ==
  ASSUME TypeOK, NEW v \in Workers, Thread(v)
  PROVE  \/ kind'[v] = kind[v] /\ ~Return(v)
         \/ kind'[v] = "none" /\ up' = up /\ todo'[v] = <<>>
         \/ up /\ kind[v] = "none" /\ up' = up /\ kind'[v] # "boot"
<1>1. CASE Return(v)
  BY <1>1 DEF Return, TypeOK
<1>2. CASE Worker(v) /\ ~Return(v)
  BY <1>2 DEF Worker, Backend, Raise, SetCancel, Enter, Ensure, TickOver, Gate, Finish, Ready
<1>3. CASE OnCancel(v) /\ ~Return(v)
  BY <1>3 DEF OnCancel
<1>4. ASSUME NEW k, NEW steps, Begin(v, k, steps)
      PROVE  up /\ kind[v] = "none" /\ up' = up /\ kind'[v] = k
  BY <1>4, BeginSteps
<1>5. CASE \/ OnTimer(v) \/ OnStop(v) \/ OnTwist(v) \/ OnHome(v) \/ OnGoal(v)
           \/ \E m \in Wanted : OnSetMode(v, m)
  BY <1>4, <1>5 DEF OnTimer, OnStop, OnTwist, OnHome, OnGoal, OnSetMode
<1>6. QED
  BY <1>1, <1>2, <1>3, <1>5 DEF Thread

\* The constructor ends with its last step.
LEMMA UpSteps ==
  ASSUME TypeOK, NEW v \in Workers, Thread(v), Placed(v), BootsAlone, up' # up
  PROVE  ~up /\ up' = TRUE /\ kind[v] = "boot" /\ kind'[v] = "boot" /\ todo'[v] = <<>>
<1>. {<<Do("ready", "IDLE")>>} \in SUBSET Seq(Step) /\ "NRT_CARTESIAN" \in Motion
     /\ Reads({<<Do("ready", "IDLE")>>}) \in SUBSET Seq(Step)
  BY EndTypes, ReadTypes DEF Motion, Cartesian
<1>1. Worker(v)
  <2>1. \A k, steps : Begin(v, k, steps) => up' = up
    BY BeginSteps
  <2>2. OnCancel(v) => up' = up
    BY DEF OnCancel
  <2>3. QED
    BY <2>1, <2>2 DEF Thread, OnTimer, OnStop, OnTwist, OnHome, OnGoal, OnSetMode
<1>2. Ready(v)
  BY <1>1 DEF Worker, Backend, Raise, SetCancel, Enter, Ensure, TickOver, Gate, Finish, Return
<1>3. up' = TRUE /\ kind' = kind /\ todo[v] # <<>> /\ ~up
  BY <1>2 DEF Ready, At, TypeOK
<1>4. kind[v] = "boot" /\ todo[v] \in Booting
  BY <1>3 DEF BootsAlone, Placed
<1>5. todo[v] \notin Setting("NRT_CARTESIAN", Reads({<<Do("ready", "IDLE")>>}))
  BY <1>1, SettingOn DEF Quiet
<1>6. todo[v] \notin Reading({<<Do("ready", "IDLE")>>})
  BY <1>1, ReadingOn DEF Quiet
<1>7. todo[v] = <<Do("ready", "IDLE")>>
  BY <1>3, <1>4, <1>5, <1>6 DEF Booting
<1>8. QED
  BY <1>1, <1>3, <1>4, <1>7, ReadyOn

LEMMA BootsAloneKept ==
  ASSUME TypeOK, Inv, Next PROVE BootsAlone'
<1>1. CASE RobotTrips \/ RobotRecovers
  <2>1. UNCHANGED <<kind, todo, up>>
    BY <1>1 DEF RobotTrips, RobotRecovers, nodeVars
  <2>2. QED
    BY <2>1 DEF Inv, BootsAlone
<1>2. ASSUME NEW v \in Workers, Thread(v) PROVE BootsAlone'
  <2>1. \A w \in Workers : w # v => kind'[w] = kind[w] /\ todo'[w] = todo[w]
    BY <1>2, Frame DEF TypeOK
  <2>2. kind'[v] = "boot" => kind[v] = "boot"
    BY <1>2, KindSteps
  <2>3. up' # up => /\ ~up /\ up' = TRUE /\ kind[v] = "boot" /\ kind'[v] = "boot" /\ todo'[v] = <<>>
    BY <1>2, UpSteps DEF Inv
  <2>4. (~up => \A w \in Workers : kind[w] \in {"none", "boot"})'
    BY <1>2, <2>1, <2>3, KindSteps DEF Inv, BootsAlone, TypeOK
  <2>5. ASSUME NEW w \in Workers, kind'[w] = "boot", todo'[w] # <<>> PROVE ~up'
    <3>1. kind[w] = "boot"
      BY <2>1, <2>2, <2>5
    <3>2. CASE up' # up
      BY <2>1, <2>3, <2>5, <3>1, <3>2 DEF Inv, BootsAlone
    <3>3. CASE up' = up /\ w # v
      BY <2>1, <2>5, <3>3 DEF Inv, BootsAlone
    <3>4. CASE up' = up /\ w = v
      <4>1. (Worker(v) /\ ~Return(v)) \/ OnCancel(v)
        <5>1. ~Return(v)
          BY <2>5, <3>4 DEF Return, TypeOK
        <5>2. \A k, steps : ~Begin(v, k, steps)
          BY <3>1, <3>4, BeginSteps
        <5>3. QED
          BY <1>2, <5>1, <5>2 DEF Thread, OnTimer, OnStop, OnTwist, OnHome, OnGoal, OnSetMode
      <4>2. todo[v] # <<>>
        BY <2>5, <3>1, <3>4, <4>1, Acts DEF OnCancel
      <4>3. QED
        BY <3>1, <3>4, <4>2 DEF Inv, BootsAlone
    <3>5. QED
      BY <3>2, <3>3, <3>4
  <2>6. (\A u, w \in Workers : kind[u] = "boot" /\ kind[w] = "boot" => u = w)'
    BY <2>1, <2>2 DEF Inv, BootsAlone
  <2>7. QED
    BY <2>4, <2>5, <2>6 DEF BootsAlone
<1>3. QED
  BY <1>1, <1>2 DEF Next, Thread

-----------------------------------------------------------------------------
(* What a step means to the arm, the cache and the guard *)

\* Between the switch to a mode and the assignment of it.
Mid(q) == \E m \in Motion : q # <<>> /\ Head(q) = Do("cache", m)

LEMMA NotMids ==
  /\ ~Mid(<<>>)
  /\ \A Q : Plain(Q) => \A q \in Q : ~Mid(q)
  /\ \A Q \in SUBSET Seq(Step) :
       \A q \in Reading(Q) \cup Reads(Q) \cup Corrects(Q) \cup Looked(Q)
                 \cup Halts(Q) \cup Forgets(Q) : ~Mid(q)
  /\ \A m \in Spaces : \A q \in Sending(m) : ~Mid(q)
  /\ \A m \in Motion : \A Q \in SUBSET Seq(Step) : \A q \in Switches(m, Q) : ~Mid(q)
  /\ \A q \in Over \cup Stopping : ~Mid(q)
<1>1. ~Mid(<<>>) /\ \A q : q # <<>> /\ Head(q).op # "cache" => ~Mid(q)
  BY DEF Mid, Do
<1>2. \A Q : Plain(Q) => \A q \in Q : ~Mid(q)
  BY <1>1 DEF Plain
<1>3. ASSUME NEW Q \in SUBSET Seq(Step), NEW q \in Forgets(Q) PROVE ~Mid(q)
  <2>1. Do("cache", "IDLE") \in Step /\ \A m \in Motion : Do("cache", m) # Do("cache", "IDLE")
    BY StepTypes DEF Ops, Modes, Motion, Cartesian, Joint, Do
  <2>2. Head(q) = Do("cache", "IDLE")
    BY <1>3, <2>1, OpParts DEF Forgets
  <2>3. QED
    BY <2>1, <2>2 DEF Mid
<1>4. ASSUME NEW Q \in SUBSET Seq(Step)
      PROVE  \A q \in Reading(Q) \cup Reads(Q) \cup Corrects(Q) \cup Looked(Q)
                        \cup Halts(Q) \cup Forgets(Q) : ~Mid(q)
  BY <1>1, <1>3, MethodFirsts DEF First
<1>5. ASSUME NEW m \in Spaces, NEW q \in Sending(m) PROVE ~Mid(q)
  BY <1>1, MotionFirsts DEF First
<1>6. ASSUME NEW m \in Motion, NEW Q \in SUBSET Seq(Step), NEW q \in Switches(m, Q) PROVE ~Mid(q)
  BY <1>1, MethodFirsts DEF First
<1>7. \A q \in Stopping : ~Mid(q)
  BY <1>1, <1>4, MethodFirsts, EndTypes, ReadTypes DEF Stopping, First
<1>8. \A q \in Over : ~Mid(q)
  <2>1. \A q \in Ends : ~Mid(q)
    BY <1>2, Plains
  <2>2. QED
    BY <1>4, <1>7, <2>1, EndTypes, ReadTypes DEF Over
<1>9. QED
  BY <1>1, <1>2, <1>4, <1>5, <1>6, <1>7, <1>8

\* The steps that leave the arm and the cache, or put them to IDLE.
Mild(v) ==
  /\ arm' \in {arm, "IDLE"} /\ cached' \in {cached, "IDLE"} /\ crossed' = crossed
  /\ ~Mid(todo[v]) /\ ~Mid(todo'[v])

LEMMA SetMid ==
  ASSUME NEW m \in Motion, NEW Q, Plain(Q)
  PROVE  /\ \A q \in Caches(m, Q) : q # <<>> /\ Head(q) = Do("cache", m)
         /\ \A q \in Guards(m, Q) : /\ ~Mid(q)
                                    /\ m \in Cartesian => q # <<>> /\ Head(q) = Do("guard", m)
<1>1. Do("cache", m) \in Step /\ Do("guard", m) \in Step /\ Do("guard", m).op = "guard"
  BY StepTypes DEF Ops, Modes
<1>2. Q \in SUBSET Seq(Step) /\ Guards(m, Q) \in SUBSET Seq(Step)
  BY SetTypes DEF Plain
<1>3. \A q \in Caches(m, Q) : q # <<>> /\ Head(q) = Do("cache", m)
  BY <1>1, <1>2, OpParts DEF Caches
<1>4. ASSUME NEW q \in Guards(m, Q), m \in Cartesian PROVE q # <<>> /\ Head(q) = Do("guard", m)
  BY <1>1, <1>2, <1>4, OpParts DEF Guards
<1>5. ASSUME NEW q \in Guards(m, Q) PROVE ~Mid(q)
  <2>1. CASE m \in Cartesian
    <3>1. Head(q) = Do("guard", m)
      BY <1>4, <2>1
    <3>2. \A n \in Motion : Do("guard", m) # Do("cache", n)
      BY DEF Do
    <3>3. QED
      BY <3>1, <3>2 DEF Mid
  <2>2. CASE m \notin Cartesian
    BY <2>2, NotMids DEF Guards
  <2>3. QED
    BY <2>1, <2>2
<1>6. QED
  BY <1>3, <1>4, <1>5

LEMMA BeginMild ==
  ASSUME TypeOK, NEW v \in Workers, Placed(v), NEW k, NEW steps, Begin(v, k, steps), ~Mid(steps)
  PROVE  Mild(v)
<1>1. kind[v] = "none" /\ todo'[v] = steps /\ UNCHANGED <<arm, cached, crossed>>
  BY BeginSteps
<1>2. todo[v] = <<>>
  BY <1>1 DEF Placed
<1>3. QED
  BY <1>1, <1>2, NotMids DEF Mild

LEMMA StartMild ==
  ASSUME TypeOK, NEW v \in Workers, Placed(v),
         \/ OnTimer(v) \/ OnStop(v) \/ OnTwist(v) \/ OnHome(v) \/ OnGoal(v)
         \/ \E m \in Wanted : OnSetMode(v, m)
  PROVE  Mild(v)
<1>1. "NRT_CARTESIAN" \in Spaces /\ "NRT_JOINT" \in Spaces /\ "NRT_JOINT" \in Motion
      /\ {<<>>} \in SUBSET Seq(Step)
  BY EndTypes DEF Spaces, Motion, Joint
<1>2. ~Mid(Callback.publish) /\ ~Mid(Callback.stop)
  BY <1>1, NotMids, CallbacksIn
<1>3. ~Mid(Callback.jog) /\ ~Mid(Callback.goal) /\ ~Mid(Callback.home)
  BY <1>1, NotMids, CallbacksIn, MotionTypes, MotionParts, Plains
<1>4. \A m \in Wanted : ~Mid(SetMode(m))
  BY <1>1, NotMids, MethodsAlone, NodeAssumption
<1>5. QED
  BY <1>2, <1>3, <1>4, BeginMild DEF OnTimer, OnStop, OnTwist, OnHome, OnGoal, OnSetMode

\* A thread switches the arm, sets the cache to the mode it switched to, or does
\* no more than put them to IDLE.
Switching(v, m) ==
  /\ arm' = m /\ cached' = cached /\ crossed' = Crosses(v, m)
  /\ todo'[v] # <<>> /\ Head(todo'[v]) = Do("cache", m)
Assigning(v, m) ==
  /\ NextIs(v, Do("cache", m)) /\ arm' = arm /\ cached' = m /\ crossed' = crossed
  /\ ~Mid(todo'[v])
  /\ m \in Cartesian => todo'[v] # <<>> /\ Head(todo'[v]) = Do("guard", m)

\* Only a switch says whether two starts have crossed.
LEMMA CrossedSteps ==
  ASSUME TypeOK, NEW v \in Workers, Worker(v), todo[v] # <<>>, Head(todo[v]).op # "switch"
  PROVE  crossed' = crossed
BY BackendSteps
   DEF Worker, Raise, SetCancel, Enter, Ensure, TickOver, Gate, Finish, Ready, Return, historyVars

LEMMA ModeSteps ==
  ASSUME TypeOK, NEW v \in Workers, Thread(v), Placed(v)
  PROVE  \/ UNCHANGED <<todo, arm, cached, armed, crossed>> \/ Mild(v)
         \/ \E m \in Motion : Switching(v, m) \/ Assigning(v, m)
<1>1. CASE ~Worker(v)
  BY <1>1, StartMild DEF Thread, OnCancel, rdkVars, historyVars
<1>2. CASE Worker(v) /\ todo[v] = <<>>
  BY <1>2, ReturnPlaced DEF Return, rdkVars
<1>3. CASE Worker(v) /\ todo[v] # <<>>
  <2>1. Site(todo[v])
    BY Sites
  <2>2. CASE todo[v] \in Ends \cup {<<Do("ready", "IDLE")>>}
    <3>1. Head(todo[v]).op \in {"finish", "ready"}
      BY <1>3, <2>2 DEF Ends, Do
    <3>2. Finish(v) \/ Ready(v)
      BY <1>3, <3>1, Acts DEF At
    <3>3. UNCHANGED <<arm, cached, crossed>>
      BY <3>2 DEF Finish, Ready, rdkVars, historyVars
    <3>4. todo'[v] \in {StopRobot, <<>>}
      <4>1. \A s : Tail(<<s>>) = <<>>
        OBVIOUS
      <4>2. Finish(v) => todo'[v] \in {StopRobot, <<>>}
        BY DEF Finish, Then, TypeOK
      <4>3. Ready(v) => todo'[v] = Tail(todo[v])
        BY DEF Ready, Then, Rest, TypeOK
      <4>4. QED
        BY <1>3, <2>2, <3>2, <4>1, <4>2, <4>3 DEF Ends
    <3>5. ~Mid(todo'[v])
      BY <3>4, MethodsAlone, NotMids
    <3>6. ~Mid(todo[v])
      <4>1. \A m : Do("cache", m).op = "cache"
        BY DEF Do
      <4>2. QED
        BY <3>1, <4>1 DEF Mid
    <3>7. QED
      BY <3>3, <3>5, <3>6 DEF Mild
  <2>3. CASE todo[v] \in Op(Do("cancel", "IDLE"), Halts({<<>>}))
    <3>1. todo[v] \in Stopping
      BY <2>3 DEF Stopping
    <3>2. todo'[v] \in {<<>>} \cup Stopping /\ arm' \in {arm, "IDLE"} /\ cached' \in {cached, "IDLE"}
      BY <1>3, <3>1, StopOn
    <3>3. crossed' = crossed
      BY <1>3, <2>3, CrossedSteps, MethodFirsts, ReadTypes, EndTypes DEF First
    <3>4. QED
      BY <3>1, <3>2, <3>3, NotMids DEF Mild
  <2>4. ASSUME NEW Q, Plain(Q), todo[v] \in Reading(Q) \cup Halts(Q) \cup Forgets(Q)
        PROVE  Mild(v)
    <3>1. Q \in SUBSET Seq(Step)
      BY <2>4 DEF Plain
    <3>0. crossed' = crossed
      BY <1>3, <2>4, <3>1, CrossedSteps, MethodFirsts DEF First
    <3>2. CASE todo[v] \in Reading(Q)
      <4>1. todo'[v] \in Reading(Q) \cup Q /\ arm' = arm /\ cached' \in {cached, "IDLE"}
        BY <1>3, <3>1, <3>2, ReadingOn
      <4>2. QED
        BY <2>4, <3>0, <3>1, <3>2, <4>1, NotMids DEF Mild
    <3>3. CASE todo[v] \in Halts(Q) \cup Forgets(Q)
      <4>1. /\ todo'[v] \in Forgets(Q) \cup Q
            /\ arm' \in {arm, "IDLE"} /\ cached' \in {cached, "IDLE"}
        BY <1>3, <3>1, <3>3, HaltOn
      <4>2. QED
        BY <2>4, <3>0, <3>1, <3>3, <4>1, NotMids DEF Mild
    <3>4. QED
      BY <2>4, <3>2, <3>3
  <2>5. ASSUME NEW Q, Plain(Q), NEW m \in Motion, todo[v] \in Setting(m, Q)
        PROVE  Mild(v) \/ Switching(v, m) \/ Assigning(v, m)
    <3>1. Q \in SUBSET Seq(Step)
      BY <2>5 DEF Plain
    <3>2. CASE todo[v] \in Switches(m, Q)
      <4>1. \/ todo'[v] = <<>> /\ Still(v)
            \/ /\ arm' = m /\ cached' = cached /\ todo'[v] \in Caches(m, Q)
               /\ crossed' = Crosses(v, m)
        BY <1>3, <3>1, <3>2, SetOn
      <4>2. ~Mid(todo[v]) /\ ~Mid(<<>>)
        BY <3>1, <3>2, NotMids
      <4>3. QED
        BY <2>5, <4>1, <4>2, SetMid DEF Mild, Switching, Still
    <3>3. CASE todo[v] \in Caches(m, Q)
      <4>1. arm' = arm /\ cached' = m /\ todo'[v] \in Guards(m, Q)
        BY <1>3, <3>1, <3>3, SetOn
      <4>2. crossed' = crossed
        BY <1>3, <3>1, <3>3, CrossedSteps, MethodFirsts DEF First
      <4>3. QED
        BY <2>5, <3>3, <4>1, <4>2, SetMid DEF Assigning, NextIs
    <3>4. CASE m \in Cartesian /\ todo[v] \in Guards(m, Q)
      <4>1. arm' = arm /\ cached' = cached /\ (todo'[v] = <<>> \/ todo'[v] \in Q)
        BY <1>3, <3>1, <3>4, SetOn DEF Still
      <4>2. ~Mid(todo[v]) /\ ~Mid(todo'[v])
        BY <2>5, <3>4, <4>1, SetMid, NotMids
      <4>3. crossed' = crossed
        BY <1>3, <3>1, <3>4, CrossedSteps, MethodFirsts DEF First
      <4>4. QED
        BY <4>1, <4>2, <4>3 DEF Mild
    <3>5. QED
      BY <2>5, <3>2, <3>3, <3>4 DEF Setting
  <2>6. ASSUME NEW m \in Spaces,
               todo[v] \in Entering(m) \cup Ensuring(m) \cup Ticking(m) \cup Gating(m) \cup Sending(m)
        PROVE  Mild(v)
    <3>1. ~Mid(todo[v])
      BY <2>6, NotMids, Plains
    <3>2. /\ UNCHANGED <<arm, cached>>
          /\ todo'[v] \in Over \cup Reads(Ensuring(m)) \cup Switches(m, Reads(Ticking(m)))
                            \cup Ticking(m) \cup Reads(Gating(m)) \cup Sending(m) \cup {<<>>}
      BY <1>3, <2>6, EnterOn, EnsureOn, TickOn, GateOn, SendOn DEF Still
    <3>3. ~Mid(todo'[v])
      BY <3>2, NotMids, Plains, MotionTypes, MotionParts
    <3>4. crossed' = crossed
      BY <1>3, <2>6, CrossedSteps, MotionFirsts DEF First
    <3>5. QED
      BY <3>1, <3>2, <3>3, <3>4 DEF Mild
  <2>7. QED
    BY <2>1, <2>2, <2>3, <2>4, <2>5, <2>6 DEF Site
<1>4. QED
  BY <1>1, <1>2, <1>3

-----------------------------------------------------------------------------
(* The cache and the guard *)

LEMMA MidIs == \A w \in Workers, m \in Motion : NextIs(w, Do("cache", m)) => Mid(todo[w])
BY DEF NextIs, Mid

LEMMA BelievedKept ==
  ASSUME TypeOK, Inv, Next PROVE Believed'
<1>0. (\A w \in Workers, m \in Motion : NextIs(w, Do("cache", m)) => Mid(todo[w]))'
  BY MidIs, PTL
<1>1. CASE RobotTrips \/ RobotRecovers
  <2>1. UNCHANGED <<todo, cached, crossed>> /\ (arm' = "IDLE" \/ arm' = arm)
    BY <1>1 DEF RobotTrips, RobotRecovers, Trip, Recover, nodeVars, historyVars
  <2>2. QED
    BY <2>1 DEF Inv, Believed, Wrong, NextIs
<1>2. ASSUME NEW v \in Workers, Thread(v) PROVE Believed'
  <2>0. \A w \in Workers : w # v => todo'[w] = todo[w]
    BY <1>2, Frame DEF TypeOK
  <2>1. ASSUME UNCHANGED <<todo, arm, cached, armed, crossed>> PROVE Believed'
    BY <2>1 DEF Inv, Believed, Wrong, NextIs
  <2>2. ASSUME NEW w \in Workers, NEW m \in Motion, NextIs(w, Do("cache", m))', w # v
        PROVE  NextIs(w, Do("cache", m))
    BY <2>0, <2>2 DEF NextIs
  <2>3. ASSUME Mild(v) PROVE Believed'
    <3>1. cached' # "PRIMITIVE" /\ crossed' = crossed
      BY <2>3 DEF Mild, Inv, Believed
    <3>2. ASSUME ~crossed PROVE ~Wrong' \/ (arm \in Motion /\ \E w \in Workers : NextIs(w, Do("cache", arm)))'
      <4>1. CASE ~Wrong
        BY <2>3, <4>1 DEF Mild, Wrong
      <4>2. ASSUME NEW w \in Workers, arm \in Motion, NextIs(w, Do("cache", arm)), arm' # "IDLE"
            PROVE  arm' \in Motion /\ todo'[w] # <<>> /\ Head(todo'[w]) = Do("cache", arm')
        <5>1. arm' = arm
          BY <2>3, <4>2 DEF Mild
        <5>2. w # v
          BY <2>3, <4>2, MidIs DEF Mild
        <5>3. QED
          BY <2>0, <4>2, <5>1, <5>2 DEF NextIs
      <4>3. QED
        BY <3>2, <4>1, <4>2 DEF Inv, Believed, Wrong, NextIs
    <3>3. ASSUME ~crossed, NEW w \in Workers, NEW m \in Motion, NextIs(w, Do("cache", m))'
          PROVE  arm' \in {m, "IDLE"}
      <4>1. NextIs(w, Do("cache", m))
        BY <1>0, <2>2, <2>3, <3>3 DEF Mild
      <4>2. QED
        BY <2>3, <3>3, <4>1 DEF Mild, Inv, Believed
    <3>4. QED
      BY <3>1, <3>2, <3>3 DEF Believed
  <2>4. ASSUME NEW m \in Motion, Switching(v, m) PROVE Believed'
    <3>1. arm' = m /\ cached' = cached /\ NextIs(v, Do("cache", m))' /\ crossed' = Crosses(v, m)
      BY <2>4 DEF Switching, NextIs
    <3>2. ASSUME ~crossed', NEW w \in Workers, NEW n \in Motion, NextIs(w, Do("cache", n))'
          PROVE  arm' \in {n, "IDLE"}
      <4>1. CASE w = v
        BY <3>1, <3>2, <4>1 DEF NextIs, Do
      <4>2. CASE w # v
        <5>1. At(w, "cache") /\ Head(todo[w]).mode = n
          BY <2>2, <3>2, <4>2 DEF NextIs, At, Do
        <5>2. n \in {m, "IDLE"} /\ n # "IDLE"
          BY <3>1, <3>2, <4>2, <5>1 DEF Crosses, Motion, Cartesian, Joint
        <5>3. QED
          BY <3>1, <5>2
      <4>3. QED
        BY <4>1, <4>2
    <3>3. (\E w \in Workers : NextIs(w, Do("cache", arm)))'
      BY <3>1 DEF NextIs
    <3>4. QED
      BY <3>1, <3>2, <3>3 DEF Inv, Believed
  <2>5. ASSUME NEW m \in Motion, Assigning(v, m) PROVE Believed'
    <3>1. /\ cached' = m /\ arm' = arm /\ crossed' = crossed
          /\ NextIs(v, Do("cache", m)) /\ m # "PRIMITIVE"
      BY <2>5 DEF Assigning, Motion, Cartesian, Joint
    <3>2. ~crossed => ~Wrong'
      BY <3>1 DEF Inv, Believed, Wrong
    <3>3. ASSUME ~crossed, NEW w \in Workers, NEW n \in Motion, NextIs(w, Do("cache", n))'
          PROVE  arm' \in {n, "IDLE"}
      <4>1. NextIs(w, Do("cache", n))
        BY <1>0, <2>2, <2>5, <3>3 DEF Assigning
      <4>2. QED
        BY <3>1, <3>3, <4>1 DEF Inv, Believed
    <3>4. QED
      BY <3>1, <3>2, <3>3 DEF Believed
  <2>6. QED
    BY <1>2, <2>1, <2>3, <2>4, <2>5, ModeSteps DEF Inv
<1>3. QED
  BY <1>1, <1>2 DEF Next, Thread

LEMMA ArmedKept ==
  ASSUME TypeOK, NEW v \in Workers, Thread(v), armed, arm' = arm PROVE armed'
<1>1. ASSUME NEW k, NEW steps, Begin(v, k, steps) PROVE armed' = armed
  BY <1>1, BeginSteps
<1>2. Backend(v) => armed'
  BY BackendSteps
<1>3. CASE \/ Raise(v) \/ SetCancel(v) \/ Enter(v) \/ Ensure(v) \/ TickOver(v) \/ Gate(v)
           \/ Finish(v) \/ Ready(v) \/ Return(v) \/ OnCancel(v)
  BY <1>3 DEF Raise, SetCancel, Enter, Ensure, TickOver, Gate, Finish, Ready, Return, OnCancel, rdkVars
<1>4. QED
  BY <1>1, <1>2, <1>3 DEF Thread, Worker, OnTimer, OnStop, OnTwist, OnHome, OnGoal, OnSetMode

LEMMA GuardSteps ==
  ASSUME TypeOK, NEW v \in Workers, Thread(v), Placed(v), NEW m \in Motion,
         NextIs(v, Do("guard", m)), arm \in Cartesian
  PROVE  armed' \/ UNCHANGED <<todo, armed>>
<1>1. todo[v] # <<>> /\ Head(todo[v]).op = "guard"
  BY DEF NextIs, Do
<1>2. CASE Worker(v)
  <2>1. Backend(v) \/ Raise(v)
    BY <1>1, <1>2, Acts
  <2>2. ~Raise(v)
    BY <1>1, RaiseSteps DEF Raises
  <2>3. QED
    BY <1>1, <2>1, <2>2, BackendSteps
<1>3. CASE OnCancel(v)
  BY <1>3 DEF OnCancel, rdkVars
<1>4. ASSUME NEW k, NEW steps, Begin(v, k, steps) PROVE FALSE
  BY <1>1, <1>4, BeginSteps DEF Placed
<1>5. QED
  BY <1>2, <1>3, <1>4 DEF Thread, OnTimer, OnStop, OnTwist, OnHome, OnGoal, OnSetMode

LEMMA WatchedKept ==
  ASSUME TypeOK, Inv, Next PROVE Watched'
<1>1. CASE RobotTrips
  BY <1>1 DEF RobotTrips, Trip, Watched, Cartesian
<1>2. CASE RobotRecovers
  BY <1>2 DEF RobotRecovers, Recover, nodeVars, Inv, Watched, NextIs
<1>3. ASSUME NEW v \in Workers, Thread(v) PROVE Watched'
  <2>0. \A w \in Workers : w # v => todo'[w] = todo[w]
    BY <1>3, Frame DEF TypeOK
  <2>1. ASSUME UNCHANGED <<todo, arm, cached, armed>> PROVE Watched'
    BY <2>1 DEF Inv, Watched, NextIs
  <2>2. ASSUME NEW m \in Motion, Switching(v, m) PROVE Watched'
    BY <2>2 DEF Switching, Watched, NextIs
  <2>3. ASSUME arm' \in Cartesian, arm' = arm, ~armed',
               Mild(v) \/ \E n \in Motion : Assigning(v, n)
        PROVE  \E w \in Workers, m \in Cartesian :
                 todo'[w] # <<>> /\ Head(todo'[w]) \in {Do("guard", m), Do("cache", m)}
    <3>1. ~armed
      BY <1>3, <2>3, ArmedKept
    <3>2. PICK w \in Workers, m \in Cartesian :
            NextIs(w, Do("guard", m)) \/ NextIs(w, Do("cache", m))
      BY <2>3, <3>1 DEF Inv, Watched
    <3>3. m \in Motion
      BY <3>2 DEF Motion
    <3>4. CASE w # v
      BY <2>0, <3>2, <3>4 DEF NextIs
    <3>5. CASE w = v /\ NextIs(v, Do("cache", m))
      <4>1. Mid(todo[v])
        BY <3>3, <3>5, MidIs
      <4>2. PICK n \in Motion : Assigning(v, n)
        BY <2>3, <4>1 DEF Mild
      <4>3. n = m
        BY <3>5, <4>2 DEF Assigning, NextIs, Do
      <4>4. QED
        BY <4>2, <4>3 DEF Assigning
    <3>6. CASE w = v /\ NextIs(v, Do("guard", m))
      <4>1. UNCHANGED todo
        BY <1>3, <2>3, <3>3, <3>6, GuardSteps DEF Inv
      <4>2. QED
        BY <3>6, <4>1 DEF NextIs
    <3>7. QED
      BY <3>2, <3>4, <3>5, <3>6
  <2>4. ASSUME Mild(v) \/ \E n \in Motion : Assigning(v, n) PROVE Watched'
    <3>1. arm' = arm \/ arm' = "IDLE"
      BY <2>4 DEF Mild, Assigning
    <3>2. "IDLE" \notin Cartesian
      BY DEF Cartesian
    <3>3. QED
      BY <2>3, <2>4, <3>1, <3>2 DEF Watched, NextIs
  <2>5. QED
    BY <1>3, <2>1, <2>2, <2>4, ModeSteps DEF Inv
<1>4. QED
  BY <1>1, <1>2, <1>3 DEF Next, Thread

-----------------------------------------------------------------------------
(* Invariance *)

LEMMA InitInv == Init => TypeOK /\ Inv
<1> SUFFICES ASSUME Init PROVE TypeOK /\ Inv
  OBVIOUS
<1>. DEFINE B == SetMode("NRT_CARTESIAN") \o ReadState \o <<Do("ready", "IDLE")>>
<1>1. PICK b \in Workers :
        /\ kind = [[x \in Workers |-> "none"] EXCEPT ![b] = "boot"]
        /\ todo = [[x \in Workers |-> <<>>] EXCEPT ![b] = B]
  BY DEF Init
<1>2. /\ seen = [x \in Workers |-> "IDLE"] /\ cancel = FALSE /\ up = FALSE /\ trips = 0
      /\ asked = [x \in Workers |-> FALSE] /\ told = [x \in Workers |-> "no"]
      /\ calm = [x \in Workers |-> TRUE] /\ crossed = FALSE
      /\ arm \in {"IDLE", "PRIMITIVE"} /\ cached = "IDLE" /\ armed = FALSE /\ fault = FALSE
  BY DEF Init, Connected
<1>3. B \in Switches("NRT_CARTESIAN", Reads({<<Do("ready", "IDLE")>>}))
  BY BootIn
<1>4. "NRT_CARTESIAN" \in Motion /\ B \in Booting
  BY <1>3 DEF Motion, Cartesian, Booting, Setting
<1>5. B \in Seq(Step)
  BY <1>3, <1>4, EndTypes, ReadTypes, SetTypes
<1>. HIDE DEF B
<1>6. TypeOK
  <2>1. RdkTypeOK /\ seen \in [Workers -> Modes]
    BY <1>2 DEF RdkTypeOK, Modes
  <2>2. kind \in [Workers -> Kinds] /\ todo \in [Workers -> Seq(Step)]
    <3>1. <<>> \in Seq(Step)
      OBVIOUS
    <3>2. QED
      BY <1>1, <1>5, <3>1 DEF Kinds
  <2>3. cancel \in BOOLEAN /\ up \in BOOLEAN
    BY <1>2, Zenon
  <2>4. trips \in 0 .. MaxTrips
    <3>1. trips = 0
      BY <1>2
    <3>2. QED
      BY <3>1, NodeAssumption
  <2>5. /\ asked \in [Workers -> BOOLEAN] /\ calm \in [Workers -> BOOLEAN]
        /\ told \in [Workers -> Answers] /\ crossed \in BOOLEAN
    BY <1>2 DEF Answers
  <2>6. QED
    BY <2>1, <2>2, <2>3, <2>4, <2>5 DEF TypeOK
<1>7. ASSUME NEW w \in Workers PROVE Placed(w)
  BY <1>1, <1>2, <1>4 DEF Placed, Clear
<1>8. BootsAlone
  BY <1>1, <1>2 DEF BootsAlone
<1>9. Believed
  <2>1. ASSUME NEW w \in Workers, NEW m \in Motion PROVE ~NextIs(w, Do("cache", m))
    <3>1. ~Mid(todo[w])
      <4>1. ~Mid(B) /\ ~Mid(<<>>)
        BY <1>3, <1>4, NotMids, EndTypes, ReadTypes
      <4>2. QED
        BY <1>1, <4>1
    <3>2. QED
      BY <3>1, MidIs
  <2>2. QED
    BY <1>2, <2>1 DEF Believed, Wrong
<1>10. Watched
  BY <1>2 DEF Watched, Cartesian
<1>11. QED
  BY <1>6, <1>7, <1>8, <1>9, <1>10 DEF Inv

LEMMA NextInv == TypeOK /\ Inv /\ [Next]_vars => (TypeOK /\ Inv)'
<1> SUFFICES ASSUME TypeOK, Inv, [Next]_vars PROVE TypeOK' /\ Inv'
  OBVIOUS
<1>1. CASE Next
  BY <1>1, TypeKept, PlacedKept, BootsAloneKept, BelievedKept, WatchedKept DEF Inv
<1>2. CASE UNCHANGED vars
  <2>1. UNCHANGED <<arm, cached, armed, fault, kind, todo, seen, cancel, asked, up, told, calm,
                    crossed, trips>>
    BY <1>2 DEF vars, rdkVars, nodeVars, historyVars
  <2>2. TypeOK'
    BY <2>1 DEF TypeOK, RdkTypeOK
  <2>3. ASSUME NEW w \in Workers PROVE Placed(w)'
    <3>1. Env(w)
      BY <2>1 DEF Env, Spared, HaltAhead
    <3>2. QED
      BY <3>1, EnvKeeps DEF Inv
  <2>4. BootsAlone' /\ Believed' /\ Watched'
    BY <2>1 DEF Inv, BootsAlone, Believed, Wrong, Watched, NextIs
  <2>5. QED
    BY <2>2, <2>3, <2>4 DEF Inv
<1>3. QED
  BY <1>1, <1>2

LEMMA Invariance == Spec => [](TypeOK /\ Inv)
BY InitInv, NextInv, PTL DEF Spec

\* The threads, the flag, the arm and the cache keep their types however many
\* callbacks overlap, and no callback runs a chunk past its ticks.
THEOREM NodeTypeCorrect == Spec => []TypeOK
BY Invariance, PTL

-----------------------------------------------------------------------------
(* The setpoints *)

LEMMA SendPlaced ==
  ASSUME NEW w \in Workers, Placed(w), At(w, "send")
  PROVE  \E m \in Spaces : todo[w] \in Sending(m) /\ Stilled(w) /\ Fit(w, m)
<1>. DEFINE NoSend(Q) == \A q \in Q : q # <<>> => Head(q).op # "send"
<1>0. todo[w] # <<>> /\ Head(todo[w]).op = "send"
  BY DEF At
<1>. "NRT_JOINT" \in Spaces /\ "NRT_CARTESIAN" \in Motion /\ "NRT_JOINT" \in Motion
     /\ {<<>>} \in SUBSET Seq(Step) /\ Ends \in SUBSET Seq(Step)
     /\ {<<Do("ready", "IDLE")>>} \in SUBSET Seq(Step)
  BY EndTypes DEF Spaces, Motion, Cartesian, Joint
<1>1. ASSUME NEW Q \in SUBSET Seq(Step)
      PROVE  /\ NoSend(Reading(Q)) /\ NoSend(Reads(Q)) /\ NoSend(Corrects(Q)) /\ NoSend(Looked(Q))
             /\ NoSend(Halts(Q)) /\ NoSend(Forgets(Q)) /\ NoSend(Op(Do("cancel", "IDLE"), Q))
             /\ \A m \in Motion : NoSend(Switches(m, Q)) /\ NoSend(Caches(m, Q))
             /\ \A m \in Motion : m \in Cartesian => NoSend(Guards(m, Q))
  BY MethodFirsts DEF First
<1>2. ASSUME NEW Q \in SUBSET Seq(Step), NEW m \in Motion PROVE NoSend(Setting(m, Q))
  BY <1>1 DEF Setting
<1>3. ASSUME NEW m \in Spaces
      PROVE NoSend(Ticking(m)) /\ NoSend(Gating(m)) /\ NoSend(Ensuring(m)) /\ NoSend(Entering(m))
  BY MotionFirsts DEF First
<1>4. NoSend(Ends) /\ NoSend({<<Do("ready", "IDLE")>>})
  BY DEF Ends, Do
<1>5. NoSend(Stopping) /\ NoSend(Reading({<<>>}))
  BY <1>1, ReadTypes DEF Stopping
<1>6. NoSend(Over)
  BY <1>1, <1>4, <1>5, ReadTypes DEF Over
<1>7. NoSend(Homing)
  BY <1>1, <1>2, MotionTypes, MotionParts DEF Homing
<1>8. NoSend(Booting)
  BY <1>1, <1>2, <1>4, ReadTypes DEF Booting
<1>9. kind[w] \in Motions /\ Moving(w)
  <2>1. kind[w] # "boot"
    BY <1>0, <1>8 DEF Placed
  <2>2. kind[w] # "publish" /\ kind[w] # "stop" /\ kind[w] # "none"
    BY <1>0, <1>5 DEF Placed
  <2>3. kind[w] # "mode"
    BY <1>0, <1>2 DEF Placed
  <2>4. QED
    BY <2>1, <2>2, <2>3 DEF Placed, Motions
<1>10. PICK m \in Spaces : Along(w, m)
  BY <1>0, <1>6, <1>7, <1>9 DEF Moving
<1>11. NoSend(Reading(Entering(m))) /\ NoSend(Reads(Ensuring(m))) /\ NoSend(Corrects(Ensuring(m)))
       /\ NoSend(Looked(Ensuring(m))) /\ NoSend(Reads(Ticking(m))) /\ NoSend(Corrects(Ticking(m)))
       /\ NoSend(Looked(Ticking(m))) /\ NoSend(Reads(Gating(m))) /\ NoSend(Corrects(Gating(m)))
       /\ NoSend(Looked(Gating(m)))
  BY <1>1, MotionTypes
<1>12. NoSend(Switches(m, Reads(Ticking(m)))) /\ NoSend(Caches(m, Reads(Ticking(m))))
       /\ NoSend(Guards(m, Reads(Ticking(m))))
  BY <1>1, <1>11, MotionParts DEF Guards
<1>13. todo[w] \in Sending(m) /\ Stilled(w) /\ Fit(w, m)
  BY <1>0, <1>3, <1>10, <1>11, <1>12 DEF Along
<1>14. QED
  BY <1>13

\* What is left of a motion at a setpoint only changes by the setpoint.
LEMMA SendSteps ==
  ASSUME TypeOK, [Next]_vars, NEW w \in Workers, Placed(w), NEW m \in Spaces,
         todo[w] \in Sending(m)
  PROVE  /\ todo'[w] # todo[w] => (Streams(w) <=> arm = Sends(m))
         /\ Streams(w) => todo'[w] # todo[w]
<1>1. todo[w] \in Seq(Step) /\ todo[w] # <<>>
  <2>1. Do("send", m) \in Step
    BY StepTypes, SpaceTypes DEF Ops, Modes
  <2>2. QED
    BY <2>1, MotionTypes, OpParts DEF Sending
<1>2. Rest(w) # todo[w]
  <2>1. Len(Rest(w)) = Len(todo[w]) - 1 /\ Len(todo[w]) \in Nat
    BY <1>1 DEF Rest
  <2>2. \A n \in Nat : n - 1 # n
    OBVIOUS
  <2>3. QED
    BY <2>1, <2>2
<1>3. Streams(w) => todo'[w] # todo[w]
  BY <1>2 DEF Streams
<1>4. ASSUME todo'[w] # todo[w] PROVE Streams(w) <=> arm = Sends(m)
  <2>1. PICK v \in Workers : Thread(v)
    <3>1. Next
      BY <1>4 DEF vars, nodeVars
    <3>2. ~RobotTrips /\ ~RobotRecovers
      BY <1>4 DEF RobotTrips, RobotRecovers, nodeVars
    <3>3. QED
      BY <3>1, <3>2 DEF Next, Thread
  <2>2. v = w
    BY <1>4, <2>1, Frame DEF TypeOK
  <2>3. Worker(w)
    <3>1. ~OnCancel(w)
      BY <1>4 DEF OnCancel
    <3>2. \A k, steps : ~Begin(w, k, steps)
      BY <1>1, BeginSteps DEF Placed
    <3>3. QED
      BY <2>1, <2>2, <3>1, <3>2 DEF Thread, OnTimer, OnStop, OnTwist, OnHome, OnGoal, OnSetMode
  <2>4. /\ At(w, "send") /\ Rest(w) \in Ticking(m)
        /\ \/ Raise(w) /\ todo'[w] = <<>> /\ arm # Sends(m)
           \/ Backend(w) /\ todo'[w] = Rest(w) /\ arm = Sends(m)
    BY <2>3, SendOn
  <2>5. Rest(w) # <<>>
    <3>1. PICK n \in 0 .. Ticks : Rest(w) \in Op(Tick(m, n), Reads(Ends))
      BY <2>4 DEF Ticking
    <3>2. Tick(m, n) \in Step
      BY StepTypes, SpaceTypes
    <3>3. QED
      BY <3>1, <3>2, MotionParts, OpParts
  <2>6. QED
    BY <2>4, <2>5 DEF Streams
<1>5. QED
  BY <1>3, <1>4

LEMMA StopStep ==
  ASSUME TypeOK, Inv, [Next]_vars, NEW w \in Workers, Streams(w)
  PROVE  told[w] # "told" \/ HaltAhead
<1>1. PICK m \in Spaces : todo[w] \in Sending(m) /\ Stilled(w)
  BY SendPlaced DEF Inv, Streams
<1>2. arm = Sends(m)
  BY <1>1, SendSteps DEF Inv
<1>3. arm # "IDLE"
  BY <1>2 DEF Sends
<1>4. QED
  BY <1>1, <1>3 DEF Stilled

LEMMA MisledStep ==
  ASSUME TypeOK, Inv, [Next]_vars, NEW w \in Workers, Refused(w)
  PROVE  ~calm[w] \/ crossed \/ (arm # "IDLE" /\ Coming(Do("cache", arm)))
<1>1. PICK m \in Spaces : todo[w] \in Sending(m) /\ Fit(w, m)
  BY SendPlaced DEF Inv, Refused
<1>2. arm # Sends(m)
  BY <1>1, SendSteps DEF Inv, Refused
<1>3. ~calm[w] \/ Wrong
  BY <1>1, <1>2 DEF Fit
<1>4. Wrong => crossed \/ \E v \in Workers : NextIs(v, Do("cache", arm))
  BY DEF Inv, Believed
<1>5. QED
  BY <1>3, <1>4 DEF Wrong, Coming, NextIs

LEMMA GuardedStep ==
  ASSUME Inv, arm \in Cartesian
  PROVE  armed \/ \E m \in Cartesian : Coming(Do("cache", m)) \/ Coming(Do("guard", m))
BY DEF Inv, Watched, Coming, NextIs

\* "a concurrent stop()/request_stop() cancels mid-chunk", however many callbacks
\* run: a motion that a stop came upon streams nothing once the arm is halted,
\* unless another thread takes the one flag first or starts a mode again.
THEOREM StopEndsMotion == Spec => StopLands
<1>1. TypeOK /\ Inv /\ [Next]_vars =>
        [\A w \in Workers : Streams(w) => told[w] # "told" \/ HaltAhead]_vars
  BY StopStep
<1>2. QED
  BY <1>1, Invariance, PTL DEF Spec, StopLands

\* A robot that lost its mode is put into one before the next setpoint: however
\* many callbacks run, the firmware refuses none but to a motion under whose feet
\* the mode changed, or while the cache is behind the arm because another start is
\* half done or two have crossed.
THEOREM SetpointsFit == Spec => NeverMisled
<1>1. TypeOK /\ Inv /\ [Next]_vars =>
        [\A w \in Workers :
           Refused(w) => ~calm[w] \/ crossed \/ (arm # "IDLE" /\ Coming(Do("cache", arm)))]_vars
  BY MisledStep
<1>2. QED
  BY <1>1, Invariance, PTL DEF Spec, NeverMisled

\* However many callbacks run, an arm in a Cartesian mode that is sent a setpoint
\* watches the contact wrench, or a set_mode under way is still to make it.
THEOREM SetpointsGuarded == Spec => StreamsGuarded
<1>1. TypeOK /\ Inv /\ [Next]_vars =>
        [\A w \in Workers :
           (Streams(w) /\ arm \in Cartesian)
             => armed \/ \E m \in Cartesian : Coming(Do("cache", m)) \/ Coming(Do("guard", m))]_vars
  BY GuardedStep
<1>2. QED
  BY <1>1, Invariance, PTL DEF Spec, StreamsGuarded
================================================================================
