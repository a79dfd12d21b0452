------------------------------ MODULE LoraNode ------------------------------
(***************************************************************************)
(* One can_gps_lora node: the pulse-per-second edge of its GPS blinks the  *)
(* LED and, a phase shift later, asks idle to transmit; idle is otherwise  *)
(* receiving, 50 ms at a time.  Two nodes with different shifts share the  *)
(* channel, so each must transmit in its own part of the second.           *)
(*                                                                         *)
(* RTIC as the program uses it: pps_sync_task, phase_shift_tx and the      *)
(* display task (priority 2) do not preempt each other; led_task           *)
(* (priority 1) yields to them and idle to all.  idle calls lora_task      *)
(* inside lock() of both heartbeats, which the display task (priority 2)   *)
(* shares, so no task runs until the radio is done; SysTick still moves    *)
(* expired timers to the ready queues, and the EXTI edge stays pending.    *)
(* Code takes no time but for the radio and the display; the unit of time  *)
(* is 10 ms.                                                               *)
(***************************************************************************)
EXTENDS Integers, Sequences

CONSTANTS Period,        \* of the pulse per second (100)
          Shift,         \* of phase_shift_tx (50 with one display, 5 with the other)
          LedTime,       \* the LED is lit this long (10)
          RxTime,        \* timeout of poll_irq (5)
          TxTime,        \* longest transmission of a heartbeat
          DisplayTime    \* longest update of the display

ASSUME NodeAssumption ==
  /\ {Period, Shift, LedTime, RxTime, TxTime} \subseteq Nat \ {0}
  /\ DisplayTime \in Nat

MaxOf(m, n) == IF m > n THEN m ELSE n

(* What may delay a task of priority 2, and one of priority 1. *)
Delay2 == MaxOf(RxTime, DisplayTime)
Delay1 == MaxOf(Delay2, TxTime)

(* A node is on the air only in its part of the second: from its phase shift to
   what a delay of pps_sync_task, a delay of phase_shift_tx or one more reception,
   the display of what was received, and the transmission itself add to it. *)
SlotEnd == Shift + Delay2 + RxTime + DisplayTime + TxTime

(* All that an edge sets off is over when the next edge comes. *)
ASSUME TimingAssumption ==
  /\ SlotEnd < Period
  /\ Delay2 + LedTime + Delay1 < Period

VARIABLES
  pps_in,       \* time to the next nominal edge
  exti,         \* an edge is pending
  led_tq,       \* led_task::spawn_after(false): time left, in order
  led_q,        \* led_task in the ready queue, with its argument
  led,          \* the LED is lit
  shift_tq,     \* phase_shift_tx in the timer queue: time left, or Unarmed
  shift_ready,  \* phase_shift_tx in the ready queue
  tx_flag,      \* the shared resource
  oled_ready,   \* the display task is spawned
  oled_busy,    \* time the display task still takes, or Idle
  idle_pc,      \* where idle is; in "rx" and "tx" it holds the heartbeats
  transmit,     \* its local copy of tx_flag
  busy,         \* time the radio still takes
  unshown       \* the heartbeats have changed since the display task read them

pps    == <<pps_in, exti>>
leds   == <<led_tq, led_q, led>>
shifts == <<shift_tq, shift_ready>>
oled   == <<oled_ready, oled_busy>>
idle   == <<idle_pc, transmit, busy>>
vars   == <<pps, leds, shifts, tx_flag, oled, idle, unshown>>

Unarmed == -1
Idle    == -1
(* Mutant: led_task declared without a capacity. *)
DefaultCapacity == 1

CAPACITY == 2   \* of led_task, main.rs:432

TypeOK ==
  /\ pps_in \in 1 .. Period /\ exti \in BOOLEAN
  /\ led_tq \in Seq(0 .. LedTime) /\ led_q \in Seq(BOOLEAN) /\ led \in BOOLEAN
  /\ shift_tq \in {Unarmed} \union 0 .. Shift /\ shift_ready \in BOOLEAN
  /\ tx_flag \in BOOLEAN
  /\ oled_ready \in BOOLEAN /\ oled_busy \in {Idle} \union 0 .. DisplayTime
  /\ idle_pc \in {"flag", "lora", "rx", "tx", "display"}
  /\ transmit \in BOOLEAN /\ busy \in 0 .. MaxOf(RxTime, TxTime)
  /\ unshown \in BOOLEAN

Init == /\ pps_in \in 1 .. Period /\ exti = FALSE
        /\ led_tq = <<>> /\ led_q = <<>> /\ led = FALSE
        /\ shift_tq = Unarmed /\ shift_ready = FALSE
        /\ tx_flag = FALSE
        /\ oled_ready = TRUE /\ oled_busy = Idle
        /\ idle_pc = "flag" /\ transmit = FALSE /\ busy = 0
        /\ unshown = TRUE

-----------------------------------------------------------------------------
(* Who may run *)

Locked     == idle_pc \in {"rx", "tx"}
Priority2  == ~Locked /\ oled_busy = Idle
NoPriority2 == Priority2 /\ ~exti /\ ~shift_ready /\ ~oled_ready
Priority1  == NoPriority2
IdleRuns   == NoPriority2 /\ led_q = <<>>

-----------------------------------------------------------------------------
(* Time: it passes while the radio or the display is at work *)

Expired == shift_tq = 0 \/ (led_tq # <<>> /\ led_tq[1] = 0)

Tick ==
  /\ ~Expired
  /\ (Locked /\ busy > 0) \/ oled_busy > 0
  /\ IF pps_in > 1
     THEN pps_in' = pps_in - 1 /\ UNCHANGED exti
     ELSE pps_in' = Period /\ exti' \in {exti, TRUE}   \* no edge without a GPS fix
  /\ led_tq' = [k \in DOMAIN led_tq |-> led_tq[k] - 1]
  /\ shift_tq' = IF shift_tq = Unarmed THEN Unarmed ELSE shift_tq - 1
  /\ busy' = IF Locked THEN busy - 1 ELSE busy
  /\ oled_busy' = IF oled_busy > 0 THEN oled_busy - 1 ELSE oled_busy
  /\ UNCHANGED <<led_q, led, shift_ready, tx_flag, oled_ready, idle_pc, transmit, unshown>>

SysTickLed == /\ led_tq # <<>> /\ led_tq[1] = 0
              /\ led_tq' = Tail(led_tq)
              /\ led_q' = Append(led_q, FALSE)
              /\ UNCHANGED <<pps, led, shifts, tx_flag, oled, idle, unshown>>

SysTickShift == /\ shift_tq = 0
                /\ shift_tq' = Unarmed
                /\ shift_ready' = TRUE
                /\ UNCHANGED <<pps, leds, tx_flag, oled, idle, unshown>>

-----------------------------------------------------------------------------
(* The tasks *)

(* led_task::spawn(true), then led_task::spawn_after(100 ms, false): each fails,
   with no further effect, when no slot of led_task is free. *)
LedSlotsTaken == Len(led_q) + Len(led_tq)

(* Mutant: the two delays of pps_sync_task swapped. *)
BlinkLedDelaysSwapped ==
  /\ led_q'  = IF LedSlotsTaken < CAPACITY THEN Append(led_q, TRUE) ELSE led_q
  /\ led_tq' = IF LedSlotsTaken + 1 < CAPACITY THEN Append(led_tq, Shift) ELSE led_tq

BlinkLed ==
  /\ led_q'  = IF LedSlotsTaken < CAPACITY THEN Append(led_q, TRUE) ELSE led_q
  /\ led_tq' = IF LedSlotsTaken + 1 < CAPACITY THEN Append(led_tq, LedTime) ELSE led_tq

(* phase_shift_tx::spawn_after, which has one slot. *)
ArmShift == shift_tq' = IF shift_tq = Unarmed /\ ~shift_ready THEN Shift ELSE shift_tq

PpsSyncTask ==
  /\ Priority2 /\ exti
  /\ exti' = FALSE
  /\ BlinkLed /\ ArmShift
  /\ UNCHANGED <<pps_in, led, shift_ready, tx_flag, oled, idle, unshown>>

PhaseShiftTx == /\ Priority2 /\ shift_ready
                /\ shift_ready' = FALSE
                /\ tx_flag' = TRUE
                /\ UNCHANGED <<pps, leds, shift_tq, oled, idle, unshown>>

(* Mutant: the LED is never switched off. *)
LedTaskOnlyLights == /\ Priority1 /\ led_q # <<>>
                     /\ led' = (led \/ Head(led_q))
                     /\ led_q' = Tail(led_q)
                     /\ UNCHANGED <<pps, led_tq, shifts, tx_flag, oled, idle, unshown>>

LedTask == /\ Priority1 /\ led_q # <<>>
           /\ led' = Head(led_q)
           /\ led_q' = Tail(led_q)
           /\ UNCHANGED <<pps, led_tq, shifts, tx_flag, oled, idle, unshown>>

OledTask == /\ Priority2 /\ oled_ready
            /\ oled_ready' = FALSE
            /\ oled_busy' \in 0 .. DisplayTime
            /\ unshown' = FALSE
            /\ UNCHANGED <<pps, leds, shifts, tx_flag, idle>>

OledDone == /\ oled_busy = 0
            /\ oled_busy' = Idle
            /\ UNCHANGED <<pps, leds, shifts, tx_flag, oled_ready, idle, unshown>>

-----------------------------------------------------------------------------
(* idle *)

(* Mutant: the flag is read and not cleared. *)
ReadFlag == /\ IdleRuns /\ idle_pc = "flag"
            /\ transmit' = tx_flag
            /\ idle_pc' = "lora"
            /\ UNCHANGED <<pps, leds, shifts, oled, tx_flag, busy, unshown>>

(* Mutant: the flag is cleared before it is read. *)
ClearAndReadFlag == /\ IdleRuns /\ idle_pc = "flag"
                    /\ transmit' = FALSE
                    /\ tx_flag' = FALSE
                    /\ idle_pc' = "lora"
                    /\ UNCHANGED <<pps, leds, shifts, oled, busy, unshown>>

ReadAndClearFlag == /\ IdleRuns /\ idle_pc = "flag"
                    /\ transmit' = tx_flag
                    /\ tx_flag' = FALSE
                    /\ idle_pc' = "lora"
                    /\ UNCHANGED <<pps, leds, shifts, oled, busy, unshown>>

(* Mutant: a longer receive timeout, under the same lock. *)
StartReceivingLonger == /\ IdleRuns /\ idle_pc = "lora" /\ ~transmit
                        /\ idle_pc' = "rx" /\ busy' = 4 * RxTime
                        /\ UNCHANGED <<pps, leds, shifts, tx_flag, oled, transmit, unshown>>

(* lora_task, is_rx: poll_irq ends with a packet or after its timeout. *)
StartReceiving == /\ IdleRuns /\ idle_pc = "lora" /\ ~transmit
                  /\ idle_pc' = "rx" /\ busy' = RxTime
                  /\ UNCHANGED <<pps, leds, shifts, tx_flag, oled, transmit, unshown>>

(* A heartbeat updates the display; a frame that does not deserialize, or an
   error of the radio, does not. *)
ReceiveFrame == /\ idle_pc = "rx" /\ busy > 0
                /\ \/ idle_pc' = "display" /\ unshown' = TRUE
                   \/ idle_pc' = "flag" /\ UNCHANGED unshown
                /\ busy' = 0
                /\ UNCHANGED <<pps, leds, shifts, tx_flag, oled, transmit>>

ReceiveTimeout == /\ idle_pc = "rx" /\ busy = 0
                  /\ idle_pc' = "flag"
                  /\ UNCHANGED <<pps, leds, shifts, tx_flag, oled, transmit, busy, unshown>>

(* lora_task, ~is_rx: the local heartbeat is counted up and sent; transmit_payload
   may fail at once, and the display is then left as it is. *)
StartTransmitting == /\ IdleRuns /\ idle_pc = "lora" /\ transmit
                     /\ \/ idle_pc' = "tx" /\ busy' \in 1 .. TxTime
                        \/ idle_pc' = "flag" /\ UNCHANGED busy
                     /\ unshown' = TRUE
                     /\ UNCHANGED <<pps, leds, shifts, tx_flag, oled, transmit>>

TransmitDone == /\ idle_pc = "tx" /\ busy = 0
                /\ idle_pc' = "display"
                /\ UNCHANGED <<pps, leds, shifts, tx_flag, oled, transmit, busy, unshown>>

(* Mutant: the result of lora_task is not used. *)
SkipDisplay == /\ IdleRuns /\ idle_pc = "display"
               /\ idle_pc' = "flag"
               /\ UNCHANGED <<pps, leds, shifts, tx_flag, oled, transmit, busy, unshown>>

(* The spawn fails when the display task is already spawned. *)
SpawnDisplay == /\ IdleRuns /\ idle_pc = "display"
                /\ oled_ready' = TRUE
                /\ idle_pc' = "flag"
                /\ UNCHANGED <<pps, leds, shifts, tx_flag, oled_busy, transmit, busy, unshown>>

Tasks == PpsSyncTask \/ PhaseShiftTx \/ LedTask \/ OledTask \/ OledDone
IdleLoop == ReadAndClearFlag \/ StartReceiving \/ ReceiveFrame \/ ReceiveTimeout
            \/ StartTransmitting \/ TransmitDone \/ SpawnDisplay

Next == Tick \/ SysTickLed \/ SysTickShift \/ Tasks \/ IdleLoop

(* The processor never stops, and frames do not come in so fast that no time
   passes between them. *)
Fairness == /\ SF_vars(Tick) /\ WF_vars(SysTickLed) /\ WF_vars(SysTickShift)
            /\ WF_vars(Tasks) /\ WF_vars(IdleLoop)

SafeSpec == Init /\ [][Next]_vars
Spec     == SafeSpec /\ Fairness

-----------------------------------------------------------------------------
(* Properties *)

Phase == Period - pps_in    \* since the last nominal edge

(* However its display and its receptions delay it, a node is on the air only in
   its slot. *)
TransmitsInSlot == idle_pc = "tx" => Phase \in Shift .. SlotEnd

(* A lit LED, or one about to be lit, always has its led_task(false) on the way
   behind it: spawn_after never fails where spawn succeeded. *)
LedOffOnItsWay ==
  led \/ (\E k \in DOMAIN led_q : led_q[k])
    => led_tq # <<>> \/ (led_q # <<>> /\ ~led_q[Len(led_q)])

(* An edge waits for no more than one reception or display update; it never
   meets a transmission, so none is merged into a pending one. *)
EdgeServed == exti => Phase <= Delay2

(* Every edge leads to one more attempt to transmit. *)
EdgeLeadsToTransmission == exti ~> idle_pc = "lora" /\ transmit

(* The display catches up with every heartbeat sent or received. *)
HeartbeatShown == idle_pc = "display" /\ unshown ~> ~unshown

(* The LED does not stay lit. *)
LedGoesOut == led ~> ~led
=============================================================================
