---------------------------- MODULE LoraAirProofs ----------------------------
(***************************************************************************)
(* Two nodes whose slots do not overlap are never on the air together; and *)
(* what is shown of the pair, and by RadioFrameProofs of the frame, holds  *)
(* of the two together: no step of LoraAir is more than a step of each.    *)
(***************************************************************************)
EXTENDS LoraAir, RadioFrameProofs

(* The proofs of a node, for either. *)
AP == INSTANCE LoraNodeProofs WITH
       Shift <- ShiftA, exti <- exti_a, led_tq <- led_tq_a, led_q <- led_q_a, led <- led_a,
       shift_tq <- shift_tq_a, shift_ready <- shift_ready_a, tx_flag <- tx_flag_a,
       oled_ready <- oled_ready_a, oled_busy <- oled_busy_a, idle_pc <- idle_pc_a,
       transmit <- transmit_a, busy <- busy_a, unshown <- unshown_a

BP == INSTANCE LoraNodeProofs WITH
       Shift <- ShiftB, exti <- exti_b, led_tq <- led_tq_b, led_q <- led_q_b, led <- led_b,
       shift_tq <- shift_tq_b, shift_ready <- shift_ready_b, tx_flag <- tx_flag_b,
       oled_ready <- oled_ready_b, oled_busy <- oled_busy_b, idle_pc <- idle_pc_b,
       transmit <- transmit_b, busy <- busy_b, unshown <- unshown_b

(* The two instances of LoraNode and those of LoraNodeProofs say the same. *)
LEMMA Assumptions ==
  /\ AP!NodeAssumption /\ AP!TimingAssumption
  /\ BP!NodeAssumption /\ BP!TimingAssumption
BY PairAssumption
   DEF A!NodeAssumption, A!TimingAssumption, A!SlotEnd, A!Delay1, A!Delay2, A!MaxOf,
       B!NodeAssumption, B!TimingAssumption, B!SlotEnd, B!Delay1, B!Delay2, B!MaxOf,
       AP!NodeAssumption, AP!TimingAssumption, AP!SlotEnd, AP!Delay1, AP!Delay2, AP!MaxOf,
       BP!NodeAssumption, BP!TimingAssumption, BP!SlotEnd, BP!Delay1, BP!Delay2, BP!MaxOf

LEMMA SameInit == Init => AP!Init /\ BP!Init
BY DEF Init, A!Init, B!Init, AP!Init, BP!Init, A!Unarmed, B!Unarmed, AP!Unarmed, BP!Unarmed,
       A!Idle, B!Idle, AP!Idle, BP!Idle

LEMMA SameTickA == A!Tick => (AP!Tick)
BY DEF A!Tick, A!Locked, A!Expired, A!Unarmed, AP!Tick, AP!Locked, AP!Expired, AP!Unarmed

LEMMA SameSysTickA == A!SysTickLed \/ A!SysTickShift => (AP!SysTickLed \/ AP!SysTickShift) /\ pps_in' = pps_in
BY DEF A!SysTickLed, A!SysTickShift, A!Unarmed, A!pps, A!leds, A!shifts, A!oled, A!idle,
       AP!SysTickLed, AP!SysTickShift, AP!Unarmed, AP!pps, AP!leds, AP!shifts, AP!oled,
       AP!idle

LEMMA SameTasksA == A!Tasks => (AP!Tasks) /\ pps_in' = pps_in
BY DEF A!Tasks, A!PpsSyncTask, A!PhaseShiftTx, A!LedTask, A!OledTask, A!OledDone, A!Priority1,
       A!Priority2, A!NoPriority2, A!Locked, A!BlinkLed, A!ArmShift, A!LedSlotsTaken,
       A!CAPACITY, A!Unarmed, A!Idle, A!pps, A!leds, A!shifts, A!oled, A!idle, AP!Tasks,
       AP!PpsSyncTask, AP!PhaseShiftTx, AP!LedTask, AP!OledTask, AP!OledDone, AP!Priority1,
       AP!Priority2, AP!NoPriority2, AP!Locked, AP!BlinkLed, AP!ArmShift, AP!LedSlotsTaken,
       AP!CAPACITY, AP!Unarmed, AP!Idle, AP!pps, AP!leds, AP!shifts, AP!oled, AP!idle

LEMMA SameIdleLoopA == A!IdleLoop => (AP!IdleLoop) /\ pps_in' = pps_in
BY DEF A!IdleLoop, A!ReadAndClearFlag, A!StartReceiving, A!ReceiveFrame, A!ReceiveTimeout,
       A!StartTransmitting, A!TransmitDone, A!SpawnDisplay, A!Priority2, A!NoPriority2,
       A!IdleRuns, A!Locked, A!Idle, A!pps, A!leds, A!shifts, A!oled, A!idle, AP!IdleLoop,
       AP!ReadAndClearFlag, AP!StartReceiving, AP!ReceiveFrame, AP!ReceiveTimeout,
       AP!StartTransmitting, AP!TransmitDone, AP!SpawnDisplay, AP!Priority2, AP!NoPriority2,
       AP!IdleRuns, AP!Locked, AP!Idle, AP!pps, AP!leds, AP!shifts, AP!oled, AP!idle

LEMMA SameTickB == B!Tick => (BP!Tick)
BY DEF B!Tick, B!Locked, B!Expired, B!Unarmed, BP!Tick, BP!Locked, BP!Expired, BP!Unarmed

LEMMA SameSysTickB == B!SysTickLed \/ B!SysTickShift => (BP!SysTickLed \/ BP!SysTickShift) /\ pps_in' = pps_in
BY DEF B!SysTickLed, B!SysTickShift, B!Unarmed, B!pps, B!leds, B!shifts, B!oled, B!idle,
       BP!SysTickLed, BP!SysTickShift, BP!Unarmed, BP!pps, BP!leds, BP!shifts, BP!oled,
       BP!idle

LEMMA SameTasksB == B!Tasks => (BP!Tasks) /\ pps_in' = pps_in
BY DEF B!Tasks, B!PpsSyncTask, B!PhaseShiftTx, B!LedTask, B!OledTask, B!OledDone, B!Priority1,
       B!Priority2, B!NoPriority2, B!Locked, B!BlinkLed, B!ArmShift, B!LedSlotsTaken,
       B!CAPACITY, B!Unarmed, B!Idle, B!pps, B!leds, B!shifts, B!oled, B!idle, BP!Tasks,
       BP!PpsSyncTask, BP!PhaseShiftTx, BP!LedTask, BP!OledTask, BP!OledDone, BP!Priority1,
       BP!Priority2, BP!NoPriority2, BP!Locked, BP!BlinkLed, BP!ArmShift, BP!LedSlotsTaken,
       BP!CAPACITY, BP!Unarmed, BP!Idle, BP!pps, BP!leds, BP!shifts, BP!oled, BP!idle

LEMMA SameIdleLoopB == B!IdleLoop => (BP!IdleLoop) /\ pps_in' = pps_in
BY DEF B!IdleLoop, B!ReadAndClearFlag, B!StartReceiving, B!ReceiveFrame, B!ReceiveTimeout,
       B!StartTransmitting, B!TransmitDone, B!SpawnDisplay, B!Priority2, B!NoPriority2,
       B!IdleRuns, B!Locked, B!Idle, B!pps, B!leds, B!shifts, B!oled, B!idle, BP!IdleLoop,
       BP!ReadAndClearFlag, BP!StartReceiving, BP!ReceiveFrame, BP!ReceiveTimeout,
       BP!StartTransmitting, BP!TransmitDone, BP!SpawnDisplay, BP!Priority2, BP!NoPriority2,
       BP!IdleRuns, BP!Locked, BP!Idle, BP!pps, BP!leds, BP!shifts, BP!oled, BP!idle

-----------------------------------------------------------------------------
Inv == AP!IInv /\ BP!IInv

(* A step of the pair is a step of each node, or leaves it alone. *)
LEMMA StepOfBoth == [Next]_vars => [AP!Next]_(AP!vars) /\ [BP!Next]_(BP!vars)
<1>1. SUFFICES ASSUME [Next]_vars PROVE [AP!Next]_(AP!vars) /\ [BP!Next]_(BP!vars)
  OBVIOUS
<1>2. UNCHANGED <<pps_in, vars_a>> => UNCHANGED AP!vars
  BY DEF vars_a, AP!vars, AP!pps, AP!leds, AP!shifts, AP!oled, AP!idle
<1>3. UNCHANGED <<pps_in, vars_b>> => UNCHANGED BP!vars
  BY DEF vars_b, BP!vars, BP!pps, BP!leds, BP!shifts, BP!oled, BP!idle
<1>4. CASE Tick
  BY <1>4, SameTickA, SameTickB DEF Tick, AP!Next, BP!Next
<1>5. CASE StepA
  BY <1>5, <1>3, SameSysTickA, SameTasksA, SameIdleLoopA DEF StepA, AP!Next
<1>6. CASE StepB
  BY <1>6, <1>2, SameSysTickB, SameTasksB, SameIdleLoopB DEF StepB, BP!Next
<1>7. CASE UNCHANGED vars
  BY <1>7, <1>2, <1>3 DEF vars
<1>8. QED
  BY <1>1, <1>4, <1>5, <1>6, <1>7 DEF Next

(* Each node keeps to its slot, and the slots of PairAssumption do not meet. *)
LEMMA InvAir == Inv => NeverBothOnAir
<1>1. SUFFICES ASSUME Inv, idle_pc_a = "tx", idle_pc_b = "tx" PROVE FALSE
  BY DEF NeverBothOnAir
<1>2. AP!TransmitsInSlot /\ BP!TransmitsInSlot
  BY <1>1, AP!SlotInv, BP!SlotInv, Assumptions DEF Inv
<1>3. Period - pps_in \in ShiftA .. A!SlotEnd /\ Period - pps_in \in ShiftB .. B!SlotEnd
  BY <1>1, <1>2
     DEF AP!TransmitsInSlot, AP!Phase, AP!SlotEnd, AP!Delay2, AP!MaxOf,
         BP!TransmitsInSlot, BP!Phase, BP!SlotEnd, BP!Delay2, BP!MaxOf,
         A!SlotEnd, A!Delay2, A!MaxOf, B!SlotEnd, B!Delay2, B!MaxOf
<1>4. B!SlotEnd < ShiftA
  BY PairAssumption
<1>5. A!SlotEnd \in Int /\ B!SlotEnd \in Int /\ ShiftA \in Int /\ ShiftB \in Int
  BY PairAssumption
     DEF A!NodeAssumption, B!NodeAssumption,
         A!SlotEnd, A!Delay2, A!MaxOf, B!SlotEnd, B!Delay2, B!MaxOf
<1>6. QED
  BY <1>3, <1>4, <1>5

(* Two nodes with disjoint slots are never on the air at once. *)
THEOREM NeverBothOnAirThm == Spec => []NeverBothOnAir
<1>1. Init => Inv
  BY SameInit, AP!InitInv, BP!InitInv, Assumptions DEF Inv
<1>2. Inv /\ [Next]_vars => Inv'
  BY StepOfBoth, AP!NextInv, BP!NextInv, Assumptions DEF Inv
<1>3. QED
  BY <1>1, <1>2, InvAir, PTL DEF Spec

-----------------------------------------------------------------------------
(* The pair and the frame *)

LEMMA NodeStep ==
  /\ A!StartTransmitting /\ UNCHANGED vars_b => StepA
  /\ A!TransmitDone /\ UNCHANGED vars_b => StepA
  /\ B!ReceiveFrame /\ UNCHANGED vars_a => StepB
BY DEF StepA, StepB, A!IdleLoop, B!IdleLoop

(* Every step of the whole is a step of the pair, and of the frame's way, or leaves
   it alone. *)
LEMMA AirStep == [AirNext]_airVars => [Next]_vars /\ [RadioNext]_radioVars
<1>1. SUFFICES ASSUME [AirNext]_airVars PROVE [Next]_vars /\ [RadioNext]_radioVars
  OBVIOUS
<1>2. CASE SendA
  BY <1>2, NodeStep DEF SendA, Next, RadioNext
<1>3. CASE SentA
  BY <1>3, NodeStep DEF SentA, Next, RadioNext
<1>4. CASE RestOfA
  BY <1>4 DEF RestOfA, Next
<1>5. CASE TimePasses
  BY <1>5 DEF TimePasses, Next, RadioNext
<1>6. CASE HearB
  BY <1>6, NodeStep DEF HearB, Next, RadioNext
<1>7. CASE DisturbB
  BY <1>7 DEF DisturbB, RadioNext
<1>8. CASE RestOfB
  BY <1>8 DEF RestOfB, Next
<1>9. CASE UNCHANGED airVars
  BY <1>9 DEF airVars
<1>10. QED
  BY <1>1, <1>2, <1>3, <1>4, <1>5, <1>6, <1>7, <1>8, <1>9 DEF AirNext

(* The two nodes together are the pair of LoraPair and the exchange of RadioFrame:
   what holds of either holds of them. *)
THEOREM AirThm == AirSpec => Spec /\ RadioSpec
<1>1. AirInit => Init /\ RadioInit
  BY DEF AirInit
<1>2. QED
  BY <1>1, AirStep, PTL DEF AirSpec, Spec, RadioSpec

(* While they exchange heartbeats, the nodes are never on the air at once, and b
   shows only heartbeats that a has sent. *)
THEOREM ExchangeThm == AirSpec => []NeverBothOnAir /\ []HeartbeatsGenuine
BY AirThm, NeverBothOnAirThm, GenuineThm, PTL
=============================================================================
