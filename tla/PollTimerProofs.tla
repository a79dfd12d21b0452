--------------------------- MODULE PollTimerProofs ---------------------------
(***************************************************************************)
(* For every number of iterations, of markers (so wherever they wrap) and  *)
(* every clock bound: PollTimer's invariants, that an armed timer is never *)
(* postponed, and that PollTimer implements Wakeup (safety).               *)
(***************************************************************************)
EXTENDS PollTimer, TLAPS

(* Where the handle of the timer can be, by the place ethernet_event is at. *)
HandlePlace == /\ pc \notin {"arm", "store"} => handle = None
               /\ pc \in {"arm", "store"} => poll_at_handle = None

(* What the answer of poll_at() has become on its way through the handler. *)
AdviceKept == /\ pc = "poll" => poll_at_advice = None
              /\ pc \in {"take", "arm"} =>
                   poll_at_advice = IF advised \in Instants THEN advised ELSE None
              /\ pc = "store" => /\ advised \in Instants
                                 /\ poll_at_advice = advised

(* Between Arm and the handler's return the wake-up is already assured. *)
ArmedForAdvice == pc = "store" =>
                    \/ ready > 0
                    \/ \E e \in tq : e.at <= advised

(* A handle without an entry is that of a task which is ready and has not run. *)
FiredIfGone == LiveHandle # None /\ tq = {} => ready = 1

IInv == /\ TypeOK
        /\ SlotAccounting
        /\ HandlePlace
        /\ AdviceKept
        /\ HandleTracksTimer
        /\ FiredIfGone
        /\ ArmedForAdvice
        /\ WakeByAdvice
        /\ CancelledWhenUnneeded

(* NextMarker stays below MARKERS: what spawn_at and reschedule_at hand out. *)
LEMMA NextMarkerType ==
  ASSUME marker \in 0 .. MARKERS - 1
  PROVE  NextMarker \in 0 .. MARKERS - 1
BY MarkersAssumption DEF NextMarker

(* The initial state: no timer, no handle, nothing advised yet. *)
LEMMA InitIInv == Init => IInv
<1> SUFFICES ASSUME Init PROVE IInv
  OBVIOUS
<1> USE DEF Init
<1>1. TypeOK
  BY IterationsAssumption, MarkersAssumption, TimeAssumption DEF TypeOK
<1>2. SlotAccounting /\ HandlePlace /\ HandleTracksTimer /\ FiredIfGone
  BY DEF SlotAccounting, HandlePlace, HandleTracksTimer, FiredIfGone, LiveHandle
<1>3. AdviceKept /\ ArmedForAdvice /\ CancelledWhenUnneeded
  BY DEF AdviceKept, ArmedForAdvice, CancelledWhenUnneeded
<1>4. WakeByAdvice
  BY NoneAssumption DEF WakeByAdvice, Instants
<1> QED
  BY <1>1, <1>2, <1>3, <1>4 DEF IInv

(* With a timer in the queue, its entry is the queue, and carries the marker
   and the instant of the handle: what an armed slot says of the two. *)
LEMMA ArmedIsHandle ==
  ASSUME SlotAccounting, HandleTracksTimer, tq # {}
  PROVE  tq = {LiveHandle} /\ LiveHandle \in Handles /\ free = 0 /\ ready = 0
BY DEF SlotAccounting, HandleTracksTimer

(* Moving the timer, keeping it, arming a new one and failing to: after each
   the slot is accounted for and the advice is covered. *)
LEMMA ArmIInv ==
  ASSUME IInv, Arm
  PROVE  IInv'
<1> USE IterationsAssumption, MarkersAssumption, TimeAssumption, NoneAssumption
<1>1. /\ pc = "arm" /\ pc' = "store" /\ poll_at_handle = None
      /\ UNCHANGED <<now, poll_at_handle, eth_pending, i, poll_at_advice, advised>>
  BY DEF Arm, IInv, HandlePlace
<1>2. poll_at_advice \in Instants /\ advised = poll_at_advice
  BY <1>1 DEF Arm, ArmExisting, ArmNew, IInv, TypeOK, AdviceKept, Instants
<1>3. LiveHandle = handle /\ LiveHandle' = handle'
  BY <1>1 DEF LiveHandle
<1>4. /\ tq \subseteq Handles /\ free \in 0 .. 1 /\ ready \in 0 .. 1
      /\ marker \in 0 .. MARKERS - 1 /\ handle \in Handles \union {None}
  BY DEF IInv, TypeOK
<1>5. Entry(poll_at_advice) \in Handles /\ Entry(poll_at_advice).at = advised
  BY <1>2, <1>4 DEF Entry, Handles
<1>6. /\ SlotAccounting' /\ HandleTracksTimer' /\ ArmedForAdvice'
      /\ tq' \subseteq Handles /\ free' \in 0 .. 1 /\ ready' \in 0 .. 1
      /\ marker' \in 0 .. MARKERS - 1 /\ handle' \in Handles \union {None}
  <2>1. CASE /\ handle # None /\ poll_at_advice < handle.at
             /\ RescheduleAt(poll_at_advice) /\ tq # {}
    <3>1. tq = {handle} /\ free = 0 /\ ready = 0 /\ Armed(handle) = tq
      BY <2>1, <1>3, ArmedIsHandle DEF IInv, Armed
    <3>2. /\ tq' = {Entry(poll_at_advice)} /\ handle' = Entry(poll_at_advice)
          /\ free' = 0 /\ ready' = 0 /\ marker' = NextMarker
      BY <2>1, <3>1 DEF RescheduleAt
    <3> QED
      BY <3>2, <1>1, <1>2, <1>3, <1>4, <1>5, NextMarkerType
         DEF SlotAccounting, HandleTracksTimer, ArmedForAdvice, Instants
  <2>2. CASE /\ handle # None /\ poll_at_advice < handle.at
             /\ RescheduleAt(poll_at_advice) /\ tq = {}
    <3>1. /\ tq' = {} /\ handle' = None /\ marker' = NextMarker
          /\ free' = free /\ ready' = ready
      BY <2>2 DEF RescheduleAt, Armed
    <3>2. free = 0 /\ ready = 1
      BY <2>2, <1>3, <1>4 DEF IInv, SlotAccounting, FiredIfGone
    <3> QED
      BY <3>1, <3>2, <1>1, <1>2, <1>3, <1>4, NextMarkerType
         DEF SlotAccounting, HandleTracksTimer, ArmedForAdvice
  <2>3. CASE /\ handle # None /\ poll_at_advice >= handle.at
             /\ UNCHANGED <<rtic, handle>>
    <3>1. UNCHANGED <<tq, free, ready, marker, handle>>
      BY <2>3 DEF rtic
    <3>2. SlotAccounting' /\ HandleTracksTimer'
      BY <3>1, <1>3 DEF IInv, SlotAccounting, HandleTracksTimer
    <3>3. ArmedForAdvice'
      <4>1. CASE tq # {}
        <5>1. tq' = {handle} /\ handle.at <= advised'
          BY <4>1, <3>1, <2>3, <1>1, <1>2, <1>3, ArmedIsHandle
             DEF IInv, Handles, Instants
        <5> QED
          BY <5>1 DEF ArmedForAdvice
      <4>2. CASE tq = {}
        BY <4>2, <2>3, <3>1, <1>3 DEF IInv, FiredIfGone, SlotAccounting, ArmedForAdvice
      <4> QED
        BY <4>1, <4>2
    <3> QED
      BY <3>1, <3>2, <3>3, <1>4
  <2>4. CASE handle = None /\ SpawnAt(poll_at_advice)
    <3>1. tq = {} /\ free = 1 /\ ready = 0
      BY <2>4, <1>4 DEF SpawnAt, IInv, SlotAccounting
    <3>2. /\ tq' = {Entry(poll_at_advice)} /\ handle' = Entry(poll_at_advice)
          /\ free' = 0 /\ ready' = 0 /\ marker' = NextMarker
      BY <2>4, <3>1 DEF SpawnAt
    <3> QED
      BY <3>2, <1>1, <1>2, <1>3, <1>4, <1>5, NextMarkerType
         DEF SlotAccounting, HandleTracksTimer, ArmedForAdvice, Instants
  <2>5. CASE handle = None /\ SpawnFails
    <3>1. tq = {} /\ free = 0 /\ ready = 1
      <4>1. tq = {}
        BY <2>5, <1>3, <1>4, ArmedIsHandle DEF IInv
      <4> QED
        BY <4>1, <2>5 DEF SpawnFails, IInv, SlotAccounting
    <3>2. UNCHANGED <<tq, free, ready, marker>> /\ handle' = None
      BY <2>5 DEF SpawnFails, rtic
    <3> QED
      BY <3>1, <3>2, <1>1, <1>3, <1>4
         DEF SlotAccounting, HandleTracksTimer, ArmedForAdvice
  <2> QED
    BY <2>1, <2>2, <2>3, <2>4, <2>5 DEF Arm, ArmExisting, ArmNew
<1>7. TypeOK'
  BY <1>1, <1>6 DEF IInv, TypeOK
<1>8. HandlePlace' /\ AdviceKept'
  BY <1>1, <1>2 DEF HandlePlace, AdviceKept
<1>10. FiredIfGone'
  BY <1>1, <1>6 DEF ArmedForAdvice, FiredIfGone
<1>9. WakeByAdvice' /\ CancelledWhenUnneeded'
  BY <1>1 DEF WakeByAdvice, CancelledWhenUnneeded
<1> QED
  BY <1>6, <1>7, <1>8, <1>9, <1>10 DEF IInv

(* One step of the handler, of RTIC or of the clock keeps the invariant. *)
LEMMA NextIInv == IInv /\ [Next]_vars => IInv'
<1> SUFFICES ASSUME IInv, [Next]_vars
             PROVE  IInv'
  OBVIOUS
<1> USE IterationsAssumption, MarkersAssumption, TimeAssumption, NoneAssumption
<1>1. CASE EthInterrupt
  <2>1. /\ UNCHANGED <<now, tq, free, ready, marker, poll_at_handle, pc, i>>
        /\ UNCHANGED <<poll_at_advice, handle, advised>>
        /\ eth_pending' = TRUE
    BY <1>1 DEF EthInterrupt, rtic
  <2>2. TypeOK' /\ SlotAccounting' /\ HandlePlace' /\ AdviceKept'
    BY <2>1 DEF IInv, TypeOK, SlotAccounting, HandlePlace, AdviceKept
  <2>3. HandleTracksTimer' /\ FiredIfGone' /\ ArmedForAdvice'
    BY <2>1 DEF IInv, HandleTracksTimer, FiredIfGone, LiveHandle, ArmedForAdvice
  <2>4. WakeByAdvice' /\ CancelledWhenUnneeded'
    BY <2>1 DEF IInv, WakeByAdvice, CancelledWhenUnneeded
  <2> QED
    BY <2>2, <2>3, <2>4 DEF IInv
<1>2. CASE EnterEthernetEvent
  <2>1. /\ UNCHANGED <<now, tq, free, ready, marker, poll_at_handle>>
        /\ UNCHANGED <<handle, advised>>
        /\ eth_pending' = FALSE /\ i' = 0 /\ poll_at_advice' = None
        /\ pc = "idle" /\ pc' = "poll"
    BY <1>2 DEF EnterEthernetEvent, rtic
  <2>2. TypeOK'
    <3>1. i' \in 0 .. MAX_ITERATIONS - 1
      BY <2>1
    <3>2. eth_pending' \in BOOLEAN
      BY <2>1
    <3> QED
      BY <2>1, <3>1, <3>2 DEF IInv, TypeOK
  <2>5. SlotAccounting' /\ HandlePlace' /\ AdviceKept'
    BY <2>1 DEF IInv, SlotAccounting, HandlePlace, AdviceKept
  <2>3. HandleTracksTimer' /\ FiredIfGone' /\ ArmedForAdvice'
    BY <2>1 DEF IInv, HandleTracksTimer, FiredIfGone, LiveHandle, ArmedForAdvice
  <2>4. WakeByAdvice' /\ CancelledWhenUnneeded'
    BY <2>1 DEF IInv, WakeByAdvice, CancelledWhenUnneeded
  <2> QED
    BY <2>2, <2>3, <2>4, <2>5 DEF IInv
<1>3. CASE PollNow
  BY <1>3 DEF PollNow, rtic, IInv, TypeOK, SlotAccounting, HandlePlace,
     AdviceKept, HandleTracksTimer, FiredIfGone, LiveHandle, ArmedForAdvice, WakeByAdvice,
     CancelledWhenUnneeded, Instants, Now, Handles
<1>4. CASE PollLater
  BY <1>4 DEF PollLater, rtic, IInv, TypeOK, SlotAccounting, HandlePlace,
     AdviceKept, HandleTracksTimer, FiredIfGone, LiveHandle, ArmedForAdvice, WakeByAdvice,
     CancelledWhenUnneeded, Instants, Now, Handles
<1>5. CASE PollNever
  BY <1>5 DEF PollNever, rtic, IInv, TypeOK, SlotAccounting, HandlePlace,
     AdviceKept, HandleTracksTimer, FiredIfGone, LiveHandle, ArmedForAdvice, WakeByAdvice,
     CancelledWhenUnneeded, Instants, Now, Handles
<1>6. CASE TakeHandle
  BY <1>6 DEF TakeHandle, rtic, IInv, TypeOK, SlotAccounting, HandlePlace,
     AdviceKept, HandleTracksTimer, FiredIfGone, LiveHandle, ArmedForAdvice, WakeByAdvice,
     CancelledWhenUnneeded, Instants, Now, Handles
<1>8. CASE StoreHandle
  BY <1>8 DEF StoreHandle, rtic, IInv, TypeOK, SlotAccounting, HandlePlace,
     AdviceKept, HandleTracksTimer, FiredIfGone, LiveHandle, ArmedForAdvice, WakeByAdvice,
     CancelledWhenUnneeded, Instants, Now, Handles
<1>9. CASE Disarm
  BY <1>9 DEF Disarm, CancelTimer, Armed, rtic, IInv, TypeOK, SlotAccounting, HandlePlace,
     AdviceKept, HandleTracksTimer, FiredIfGone, LiveHandle, ArmedForAdvice, WakeByAdvice,
     CancelledWhenUnneeded, Instants, Now, Handles
<1>10. CASE RunSmoltcpPollAt
  BY <1>10 DEF RunSmoltcpPollAt, rtic, IInv, TypeOK, SlotAccounting, HandlePlace,
     AdviceKept, HandleTracksTimer, FiredIfGone, LiveHandle, ArmedForAdvice, WakeByAdvice,
     CancelledWhenUnneeded, Instants, Now, Handles
<1>11. CASE SysTick
  BY <1>11 DEF SysTick, rtic, IInv, TypeOK, SlotAccounting, HandlePlace,
     AdviceKept, HandleTracksTimer, FiredIfGone, LiveHandle, ArmedForAdvice, WakeByAdvice,
     CancelledWhenUnneeded, Instants, Now, Handles
<1>12. CASE Tick
  BY <1>12 DEF Tick, rtic, IInv, TypeOK, SlotAccounting, HandlePlace,
     AdviceKept, HandleTracksTimer, FiredIfGone, LiveHandle, ArmedForAdvice, WakeByAdvice,
     CancelledWhenUnneeded, Instants, Now, Handles
<1>7. CASE Arm
  BY <1>7, ArmIInv
<1>13. CASE UNCHANGED vars
  BY <1>13 DEF vars, rtic, IInv, TypeOK, SlotAccounting, HandlePlace,
     AdviceKept, HandleTracksTimer, FiredIfGone, LiveHandle, ArmedForAdvice, WakeByAdvice,
     CancelledWhenUnneeded, Instants, Now, Handles
<1> QED
  BY <1>1, <1>2, <1>3, <1>4, <1>5, <1>6, <1>7, <1>8, <1>9, <1>10, <1>11,
     <1>12, <1>13 DEF Next, EthernetEvent

(* What ethernet_event, RTIC and the clock keep true together, in every
   reachable state and for every value of the constants. *)
THEOREM InvariantThm == SafeSpec => []IInv
<1>1. IInv /\ [Next]_vars => IInv'
  BY NextIInv
<1> QED
  BY InitIInv, <1>1, PTL DEF SafeSpec

(* The type invariant of the timer, its slot and its handle. *)
THEOREM TypeThm == SafeSpec => []TypeOK
<1>1. IInv => TypeOK
  BY DEF IInv
<1> QED
  BY InvariantThm, <1>1, PTL

(* The slot of smoltcp_poll_at is never lost and never in two places. *)
THEOREM SlotThm == SafeSpec => []SlotAccounting
<1>1. IInv => SlotAccounting
  BY DEF IInv
<1> QED
  BY InvariantThm, <1>1, PTL

(* An armed timer is always the one the live handle names, wherever markers
   wrap: reschedule_at and cancel never act on another entry. *)
THEOREM HandleThm == SafeSpec => []HandleTracksTimer
<1>1. IInv => HandleTracksTimer
  BY DEF IInv
<1> QED
  BY InvariantThm, <1>1, PTL

(* No wake-up smoltcp asked for is lost. *)
THEOREM WakeThm == SafeSpec => []WakeByAdvice
<1>1. IInv => WakeByAdvice
  BY DEF IInv
<1> QED
  BY InvariantThm, <1>1, PTL

(* No timer outlives the need for it. *)
THEOREM CancelThm == SafeSpec => []CancelledWhenUnneeded
<1>1. IInv => CancelledWhenUnneeded
  BY DEF IInv
<1> QED
  BY InvariantThm, <1>1, PTL

(* What Arm does to the timer: nothing, or it moves it to an earlier instant. *)
LEMMA ArmNotPostponed ==
  ASSUME IInv, Arm, NEW e \in tq, NEW f \in tq'
  PROVE  f.at <= e.at
<1>1. tq = {e} /\ handle = e /\ e \in Handles /\ free = 0 /\ e.at \in Nat
  BY ArmedIsHandle DEF IInv, Arm, HandlePlace, LiveHandle, Handles, Instants
<1>2. CASE poll_at_advice < handle.at /\ RescheduleAt(poll_at_advice)
  <2>1. f = Entry(poll_at_advice)
    BY <1>1, <1>2 DEF RescheduleAt, Armed
  <2> QED
    BY <1>1, <1>2, <2>1, NoneAssumption
       DEF Entry, Arm, ArmExisting, ArmNew, IInv, TypeOK, Instants
<1>3. CASE UNCHANGED tq
  BY <1>1, <1>3
<1> QED
  BY <1>1, <1>2, <1>3, NoneAssumption
     DEF Arm, ArmExisting, ArmNew, SpawnAt, SpawnFails, rtic

(* No step postpones an armed timer: the deadline only comes nearer. *)
THEOREM NeverPostponedThm == SafeSpec => NeverPostponed
<1>1. IInv /\ [Next]_vars => [\A e \in tq, f \in tq' : f.at <= e.at]_vars
  <2> SUFFICES ASSUME IInv, Next, NEW e \in tq, NEW f \in tq'
               PROVE  f.at <= e.at
    OBVIOUS
  <2>1. CASE Arm
    BY <2>1, ArmNotPostponed
  <2>2. CASE tq' \subseteq tq
    <3>1. e = f /\ e.at \in Nat
      BY <2>2, ArmedIsHandle DEF IInv, Handles, Instants
    <3> QED
      BY <3>1
  <2>3. ~Arm => tq' \subseteq tq
    BY DEF Next, EthernetEvent, EthInterrupt, EnterEthernetEvent, PollNow,
       PollLater, PollNever, TakeHandle, StoreHandle, Disarm, CancelTimer,
       RunSmoltcpPollAt, SysTick, Tick, rtic
  <2> QED
    BY <2>1, <2>2, <2>3
<1> QED
  BY InvariantThm, <1>1, PTL DEF SafeSpec, NeverPostponed

-----------------------------------------------------------------------------
(* PollTimer implements Wakeup *)

(* The alarm, read off the slot: off, armed for its entry's instant, ringing. *)
LEMMA AlarmCases ==
  ASSUME TypeOK, SlotAccounting
  PROVE  /\ free = 1 => Alarm = None
         /\ ready = 1 => Alarm = 0
         /\ \A e \in tq : tq = {e} /\ Alarm = e.at /\ Alarm \in Instants
         /\ Alarm \in Nat => tq # {} \/ ready = 1
BY NoneAssumption DEF SlotAccounting, Alarm, Handles, Instants

(* With an entry in the queue, the alarm is set for its instant. *)
LEMMA AlarmArmed ==
  ASSUME NEW e, tq' = {e}, ready' = 0
  PROVE  Alarm' = e.at
<1>1. (CHOOSE x \in {e} : TRUE) = e
  OBVIOUS
<1>2. Alarm' = IF ready' > 0 THEN 0
               ELSE IF tq' = {} THEN None ELSE (CHOOSE x \in tq' : TRUE).at
  BY DEF Alarm
<1> QED
  BY <1>1, <1>2

(* Arm is the abstract LeaveUntil: the alarm becomes the earlier of the two. *)
LEMMA ArmLeaves ==
  ASSUME IInv, IInv', Arm
  PROVE  Clock!Leave
<1>1. poll_at_advice \in Instants /\ (handle = None \/ handle \in Handles)
  BY NoneAssumption DEF Arm, ArmExisting, ArmNew, IInv, TypeOK
<1>2. /\ pc = "arm" /\ pc' = "store" /\ LiveHandle = handle
      /\ UNCHANGED <<now, eth_pending>>
  BY DEF Arm, IInv, HandlePlace, LiveHandle
<1>3. CASE tq # {}
  <2>1. /\ tq = {handle} /\ ready = 0 /\ free = 0 /\ handle # None
        /\ Alarm = handle.at /\ Alarm \in Instants
    BY <1>2, <1>3, ArmedIsHandle, AlarmCases, NoneAssumption DEF IInv
  <2>2. CASE poll_at_advice < handle.at /\ RescheduleAt(poll_at_advice)
    <3>1. tq' = {Entry(poll_at_advice)} /\ ready' = 0
      BY <2>1, <2>2 DEF RescheduleAt, Armed
    <3>2. Alarm' = poll_at_advice
      <4>1. Alarm' = Entry(poll_at_advice).at
        BY <3>1, AlarmArmed
      <4> QED
        BY <4>1 DEF Entry
    <3> QED
      BY <1>1, <1>2, <2>1, <2>2, <3>2, NoneAssumption
         DEF Clock!Leave, Clock!LeaveUntil, Clock!Earliest, Clock!Instants, Instants
  <2>3. CASE poll_at_advice >= handle.at /\ UNCHANGED <<rtic, handle>>
    <3>1. Alarm' = Alarm
      BY <2>3 DEF Alarm, rtic
    <3> QED
      BY <1>1, <1>2, <2>1, <2>3, <3>1, NoneAssumption
         DEF Clock!Leave, Clock!LeaveUntil, Clock!Earliest, Clock!Instants, Instants
  <2> QED
    BY <2>1, <2>2, <2>3 DEF Arm, ArmExisting, ArmNew
<1>4. CASE ready = 1
  <2>1. tq = {} /\ free = 0 /\ Alarm = 0
    BY <1>4, AlarmCases DEF IInv, SlotAccounting
  <2>2. ready' = 1 /\ Alarm' = 0
    <3>1. ready' = ready
      BY <2>1 DEF Arm, ArmExisting, ArmNew, SpawnAt, SpawnFails, RescheduleAt, rtic
    <3> QED
      BY <3>1, <1>4, AlarmCases DEF IInv, Alarm
  <2> QED
    BY <1>1, <1>2, <2>1, <2>2, NoneAssumption
       DEF Clock!Leave, Clock!LeaveUntil, Clock!Earliest, Clock!Instants, Instants
<1>5. CASE free = 1
  <2>1. tq = {} /\ ready = 0 /\ handle = None /\ Alarm = None
    BY <1>2, <1>5, AlarmCases DEF IInv, SlotAccounting, FiredIfGone
  <2>2. tq' = {Entry(poll_at_advice)} /\ ready' = 0
    BY <1>5, <2>1 DEF Arm, ArmExisting, ArmNew, SpawnAt, SpawnFails
  <2>3. Alarm' = poll_at_advice
    <3>1. Alarm' = Entry(poll_at_advice).at
      BY <2>2, AlarmArmed
    <3> QED
      BY <3>1 DEF Entry
  <2> QED
    BY <1>1, <1>2, <2>1, <2>3
       DEF Clock!Leave, Clock!LeaveUntil, Clock!Earliest, Clock!Instants, Instants
<1> QED
  BY <1>3, <1>4, <1>5 DEF IInv, SlotAccounting

(* Disarm is the abstract LeaveForGood: a ringing alarm stays, any other is off. *)
LEMMA DisarmLeaves ==
  ASSUME IInv, IInv', Disarm
  PROVE  Clock!Leave
<1>1. /\ pc = "arm" /\ pc' = "idle" /\ LiveHandle = handle
      /\ UNCHANGED <<now, eth_pending, ready>>
  BY DEF Disarm, CancelTimer, rtic, IInv, HandlePlace, LiveHandle
<1>2. tq' = {}
  <2>1. CASE tq # {}
    <3>1. tq = {handle} /\ handle # None
      BY <1>1, <2>1, ArmedIsHandle, NoneAssumption DEF IInv
    <3> QED
      BY <3>1 DEF Disarm, CancelTimer, Armed
  <2>2. CASE tq = {}
    BY <2>2 DEF Disarm, CancelTimer, Armed, rtic
  <2> QED
    BY <2>1, <2>2
<1>3. Alarm' = IF Alarm = 0 THEN 0 ELSE None
  <2>1. CASE ready = 1
    BY <2>1, <1>1, <1>2, AlarmCases DEF IInv, Alarm
  <2>2. CASE ready = 0
    <3>1. Alarm' = None
      BY <2>2, <1>1, <1>2 DEF Alarm
    <3>2. Alarm # 0
      BY <2>2, AlarmCases, NoneAssumption DEF IInv, SlotAccounting, Instants
    <3> QED
      BY <3>1, <3>2
  <2> QED
    BY <2>1, <2>2 DEF IInv, SlotAccounting
<1> QED
  BY <1>1, <1>3 DEF Clock!Leave, Clock!LeaveForGood, Clock!Ringing

(* Each step of PollTimer is a step of the alarm clock or leaves it alone. *)
LEMMA StepRefines ==
  ASSUME IInv, IInv', [Next]_vars
  PROVE  [Clock!Next]_Clock!vars
<1> USE DEF Clock!vars
<1>1. CASE EthInterrupt
  BY <1>1 DEF EthInterrupt, Clock!Next, Clock!Interrupt, Alarm, rtic
<1>2. CASE EnterEthernetEvent
  <2>1. /\ eth_pending /\ eth_pending' = FALSE /\ pc = "idle" /\ pc' = "poll"
        /\ UNCHANGED <<now, tq, ready>>
    BY <1>2 DEF EnterEthernetEvent, rtic
  <2>2. (pc' \in {"poll", "take", "arm"}) = TRUE /\ ~(pc \in {"poll", "take", "arm"})
    BY <2>1
  <2>3. Alarm' = Alarm
    BY <2>1 DEF Alarm
  <2> QED
    BY <2>1, <2>2, <2>3 DEF Clock!Next, Clock!Enter
<1>3. CASE PollNow \/ PollLater \/ PollNever \/ TakeHandle \/ StoreHandle
  <2>1. /\ UNCHANGED <<now, tq, ready, eth_pending>>
        /\ \/ pc = "poll" /\ pc' \in {"poll", "take"}
           \/ pc = "take" /\ pc' = "arm"
           \/ pc = "store" /\ pc' = "idle"
    BY <1>3 DEF PollNow, PollLater, PollNever, TakeHandle, StoreHandle, rtic
  <2>2. (pc' \in {"poll", "take", "arm"}) = (pc \in {"poll", "take", "arm"})
    BY <2>1
  <2>3. Alarm' = Alarm
    BY <2>1 DEF Alarm
  <2> QED
    BY <2>1, <2>2, <2>3
<1>4. CASE Arm
  BY <1>4, ArmLeaves DEF Clock!Next
<1>5. CASE Disarm
  BY <1>5, DisarmLeaves DEF Clock!Next
<1>6. CASE RunSmoltcpPollAt
  <2>1. ready = 1 /\ tq = {} /\ ready' = 0 /\ tq' = {}
    BY <1>6 DEF RunSmoltcpPollAt, IInv, SlotAccounting
  <2> QED
    BY <1>6, <2>1 DEF RunSmoltcpPollAt, Alarm, Clock!Next, Clock!Deliver, Clock!Ringing
<1>7. CASE SysTick
  <2>1. PICK e \in tq : e.at <= now /\ tq' = tq \ {e} /\ ready' = ready + 1
    BY <1>7 DEF SysTick
  <2>2. ready = 0 /\ Alarm = e.at /\ Alarm \in Instants
    BY <2>1, AlarmCases DEF IInv, SlotAccounting
  <2>3. Alarm' = 0 /\ Alarm \in 1 .. now
    BY <2>1, <2>2, TimeAssumption DEF IInv, TypeOK, Alarm, Instants
  <2> QED
    BY <1>7, <2>3 DEF SysTick, Clock!Next, Clock!Ring, Clock!Ringing
<1>8. CASE Tick
  BY <1>8 DEF Tick, Clock!Next, Clock!Tick, Alarm, rtic
<1>9. CASE UNCHANGED vars
  BY <1>9 DEF vars, Alarm
<1> QED
  BY <1>1, <1>2, <1>3, <1>4, <1>5, <1>6, <1>7, <1>8, <1>9
     DEF Next, EthernetEvent

(* The handler loop, the handle, the slot and the timer queue together behave
   as one alarm clock that is never set later and never misses. *)
THEOREM RefinementThm == SafeSpec => Clock!SafeSpec
<1>1. Init => Clock!Init
  BY DEF Init, Clock!Init, Alarm
<1>2. IInv /\ IInv' /\ [Next]_vars => [Clock!Next]_Clock!vars
  BY StepRefines
<1> QED
  BY InvariantThm, <1>1, <1>2, PTL DEF SafeSpec, Clock!SafeSpec
=============================================================================
