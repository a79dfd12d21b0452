------------------------------- MODULE LoraPair -------------------------------
(***************************************************************************)
(* Two can_gps_lora nodes on one channel.  Their program differs in the    *)
(* phase shift only: 500 ms with the SSD1306 display (a), 50 ms with the   *)
(* SSD1331 (b).  They share the second and nothing else: each GPS gives or *)
(* misses its own edges, each node runs at its own pace between them.      *)
(***************************************************************************)
EXTENDS Integers, Sequences

CONSTANTS Period, ShiftA, ShiftB, LedTime, RxTime, TxTime, DisplayTime

VARIABLES
  pps_in,   \* of both nodes
  exti_a, led_tq_a, led_q_a, led_a, shift_tq_a, shift_ready_a, tx_flag_a,
  oled_ready_a, oled_busy_a, idle_pc_a, transmit_a, busy_a, unshown_a,
  exti_b, led_tq_b, led_q_b, led_b, shift_tq_b, shift_ready_b, tx_flag_b,
  oled_ready_b, oled_busy_b, idle_pc_b, transmit_b, busy_b, unshown_b

vars_a == <<exti_a, led_tq_a, led_q_a, led_a, shift_tq_a, shift_ready_a, tx_flag_a,
            oled_ready_a, oled_busy_a, idle_pc_a, transmit_a, busy_a, unshown_a>>
vars_b == <<exti_b, led_tq_b, led_q_b, led_b, shift_tq_b, shift_ready_b, tx_flag_b,
            oled_ready_b, oled_busy_b, idle_pc_b, transmit_b, busy_b, unshown_b>>
vars   == <<pps_in, vars_a, vars_b>>

A == INSTANCE LoraNode WITH
       Shift <- ShiftA, exti <- exti_a, led_tq <- led_tq_a, led_q <- led_q_a, led <- led_a,
       shift_tq <- shift_tq_a, shift_ready <- shift_ready_a, tx_flag <- tx_flag_a,
       oled_ready <- oled_ready_a, oled_busy <- oled_busy_a, idle_pc <- idle_pc_a,
       transmit <- transmit_a, busy <- busy_a, unshown <- unshown_a
B == INSTANCE LoraNode WITH
       Shift <- ShiftB, exti <- exti_b, led_tq <- led_tq_b, led_q <- led_q_b, led <- led_b,
       shift_tq <- shift_tq_b, shift_ready <- shift_ready_b, tx_flag <- tx_flag_b,
       oled_ready <- oled_ready_b, oled_busy <- oled_busy_b, idle_pc <- idle_pc_b,
       transmit <- transmit_b, busy <- busy_b, unshown <- unshown_b

ASSUME PairAssumption ==
  /\ A!NodeAssumption /\ A!TimingAssumption
  /\ B!NodeAssumption /\ B!TimingAssumption
  /\ B!SlotEnd < ShiftA       \* the slots do not overlap

Init == A!Init /\ B!Init

(* Time passes for both. *)
Tick == A!Tick /\ B!Tick

StepA == (A!SysTickLed \/ A!SysTickShift \/ A!Tasks \/ A!IdleLoop) /\ UNCHANGED vars_b
StepB == (B!SysTickLed \/ B!SysTickShift \/ B!Tasks \/ B!IdleLoop) /\ UNCHANGED vars_a

Next == Tick \/ StepA \/ StepB

Spec == Init /\ [][Next]_vars

-----------------------------------------------------------------------------
(* The two are never on the air at once, whatever edges they miss and however
   their displays and receptions delay them. *)
NeverBothOnAir == ~(idle_pc_a = "tx" /\ idle_pc_b = "tx")
=============================================================================
