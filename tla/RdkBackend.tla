------------------------------ MODULE RdkBackend ------------------------------
(***************************************************************************)
(* backends/flexiv_rdk.py: the mode of the arm and what FlexivRdkBackend   *)
(* believes it to be, call by call.  Nothing in the backend locks, so a    *)
(* method is a sequence of steps, each one call into the RDK or one        *)
(* assignment, that other threads may come between.  Here are the steps,   *)
(* the methods as sequences of them, and what each step does to the arm    *)
(* and the cache; RosNode runs them.                                       *)
(***************************************************************************)
EXTENDS Sequences

VARIABLES arm,     \* Robot.mode(): the mode the arm is in
          cached,  \* self._mode
          armed,   \* the arm watches the contact wrench (SetMaxContactWrench)
          fault    \* Robot.fault()

rdkVars == <<arm, cached, armed, fault>>

Cartesian == {"NRT_CARTESIAN", "RT_CARTESIAN"}
Joint     == {"NRT_JOINT", "RT_JOINT"}
Motion    == Cartesian \cup Joint
Realtime  == {"RT_CARTESIAN", "RT_JOINT"}
Modes     == Motion \cup {"IDLE", "PRIMITIVE"}

RdkTypeOK == arm \in Modes /\ cached \in Modes /\ armed \in BOOLEAN /\ fault \in BOOLEAN

Do(op, mode) == [op |-> op, mode |-> mode]

\* connect: the cache says IDLE; the arm may have been left in the primitive
\* that zeroes the F/T sensor, whose failure is only a warning.
Connected == arm \in {"IDLE", "PRIMITIVE"} /\ cached = "IDLE" /\ armed = FALSE /\ fault = FALSE

-----------------------------------------------------------------------------
(* The methods *)

ReadState  == <<Do("look", "IDLE"), Do("report", "IDLE")>>
HaltArm    == <<Do("halt", "IDLE"), Do("cache", "IDLE")>>

SetMode_Unarmed(m) ==  \* Faulty: the contact wrench is left to the caller
  <<Do("switch", m), Do("cache", m)>>

SetMode(m) ==
  <<Do("switch", m), Do("cache", m)>>
    \o IF m \in Cartesian THEN <<Do("guard", m)>> ELSE <<>>

-----------------------------------------------------------------------------
(* The steps *)

\* SwitchMode raises while the robot is in fault, SetMaxContactWrench outside
\* the Cartesian modes, a Send or Stream outside the mode it is for: the one of
\* its space, in real time if the cache says so.
Sends(m) == IF cached \in Realtime
            THEN IF m \in Cartesian THEN "RT_CARTESIAN" ELSE "RT_JOINT"
            ELSE IF m \in Cartesian THEN "NRT_CARTESIAN" ELSE "NRT_JOINT"

Raises(s) ==
  \/ s.op = "switch" /\ fault
  \/ s.op = "guard" /\ arm \notin Cartesian
  \/ s.op = "send" /\ arm # Sends(s.mode)

\* Faulty: the cache is trusted after the arm has fallen back to IDLE.
Stale_Never(s) == FALSE

\* read_state asks the robot before it reports a mode other than IDLE.
Stale(s) == s.op = "look" /\ cached # "IDLE" /\ arm = "IDLE"

\* The guard belongs to a stay in a Cartesian mode.
Effect(s) ==
  /\ arm' = IF s.op = "switch" THEN s.mode ELSE IF s.op = "halt" THEN "IDLE" ELSE arm
  /\ cached' = IF s.op = "cache" THEN s.mode ELSE cached
  /\ armed' = (s.op = "guard" \/ (armed /\ arm' = arm))
  /\ UNCHANGED fault

\* A collision reflex, an e-stop, a power event; and the recovery at the robot.
Trip ==
  /\ fault' = TRUE /\ arm' = "IDLE" /\ armed' = FALSE /\ UNCHANGED cached

Recover == fault /\ fault' = FALSE /\ UNCHANGED <<arm, cached, armed>>
===============================================================================
