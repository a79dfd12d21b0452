------------------------------- MODULE Wakeup -------------------------------
(***************************************************************************)
(* What ecbridge_fw promises about waking its network stack up, without    *)
(* the timer queue, the task slots or the handles that implement it.  The  *)
(* stack is a handler that runs when it is pending; each time it returns   *)
(* it has told when it wants to run again (an instant), or that it does    *)
(* not need to (None).  There is one alarm: armed for an instant, ringing  *)
(* (0), or off (None).  PollTimer implements this module.                  *)
(***************************************************************************)
EXTENDS Naturals

CONSTANTS MaxTime,   \* the last instant of the bounded clock
          None       \* no alarm, and the answer "no need to run again"

VARIABLES now, alarm, pending, running

vars == <<now, alarm, pending, running>>

Instants == 1 .. MaxTime
Ringing  == 0

TypeOK == /\ now \in 0 .. MaxTime
          /\ alarm \in Instants \union {Ringing, None}
          /\ pending \in BOOLEAN
          /\ running \in BOOLEAN

(* An alarm is never moved to a later instant; a ringing one stays. *)
Earliest(a, t) == IF a = None \/ (a # None /\ t < a) THEN t ELSE a

Init == now = 0 /\ alarm = None /\ pending = TRUE /\ running = FALSE

Enter == /\ pending /\ ~running
         /\ pending' = FALSE
         /\ running' = TRUE
         /\ UNCHANGED <<now, alarm>>

(* The handler returns, asking to run again at t. *)
LeaveUntil(t) == /\ running
                 /\ alarm' = Earliest(alarm, t)
                 /\ running' = FALSE
                 /\ UNCHANGED <<now, pending>>

(* The handler returns with no wish: the alarm is off unless it already rings. *)
LeaveForGood == /\ running
                /\ alarm' = IF alarm = Ringing THEN Ringing ELSE None
                /\ running' = FALSE
                /\ UNCHANGED <<now, pending>>

Leave == LeaveForGood \/ \E t \in Instants : LeaveUntil(t)

Ring == /\ alarm \in 1 .. now
        /\ alarm' = Ringing
        /\ UNCHANGED <<now, pending, running>>

(* The ringing alarm makes the handler pending. *)
Deliver == /\ alarm = Ringing /\ ~running
           /\ alarm' = None
           /\ pending' = TRUE
           /\ UNCHANGED <<now, running>>

(* Anything else that pends the handler: the Ethernet hardware, link_process. *)
Interrupt == /\ pending' = TRUE
             /\ UNCHANGED <<now, alarm, running>>

Tick == /\ now < MaxTime
        /\ now' = now + 1
        /\ UNCHANGED <<alarm, pending, running>>

Next == Enter \/ Leave \/ Ring \/ Deliver \/ Interrupt \/ Tick

Fairness == /\ WF_vars(Enter) /\ WF_vars(Leave) /\ WF_vars(Ring)
            /\ WF_vars(Deliver) /\ WF_vars(Tick)

SafeSpec == Init /\ [][Next]_vars
Spec     == SafeSpec /\ Fairness
=============================================================================
