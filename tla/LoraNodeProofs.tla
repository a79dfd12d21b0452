--------------------------- MODULE LoraNodeProofs ---------------------------
(***************************************************************************)
(* For every period, phase shift and duration that leave room between two  *)
(* edges (TimingAssumption): a node transmits in its slot only, serves     *)
(* every edge in time and has the end of every blink of the LED under way. *)
(***************************************************************************)
EXTENDS LoraNode, TLAPS

(* The ends of what one edge sets off, in time since the edge. *)
ShiftEnd == Shift + Delay2              \* phase_shift_tx is due
FlagEnd  == ShiftEnd + RxTime + DisplayTime
BlinkEnd == Delay2 + LedTime            \* led_task(false) is due

Resting == ~Locked /\ oled_busy = Idle

(* Whatever keeps the tasks of priority 2 waiting is over by then. *)
FreeBy(t) == /\ Phase <= t
             /\ Locked => Phase + busy <= t
             /\ oled_busy # Idle => Phase + oled_busy <= t

(* Types but for the LED's queues, which LedPart describes. *)
Others ==
  /\ pps_in \in 1 .. Period /\ exti \in BOOLEAN /\ led \in BOOLEAN
  /\ shift_tq \in {Unarmed} \union 0 .. Shift /\ shift_ready \in BOOLEAN
  /\ tx_flag \in BOOLEAN
  /\ oled_ready \in BOOLEAN /\ oled_busy \in {Idle} \union 0 .. DisplayTime
  /\ idle_pc \in {"flag", "lora", "rx", "tx", "display"}
  /\ transmit \in BOOLEAN /\ busy \in 0 .. MaxOf(RxTime, TxTime)
  /\ unshown \in BOOLEAN

(* Who can be where: the display is updated between two rounds of idle. *)
Places ==
  /\ oled_ready \/ oled_busy # Idle => idle_pc = "flag"
  /\ ~(oled_ready /\ oled_busy # Idle)
  /\ idle_pc = "tx" => transmit
  /\ idle_pc = "rx" => ~transmit /\ busy <= RxTime

(* An edge is pending only when nothing of the one before is left. *)
EdgePart ==
  exti => /\ FreeBy(Delay2) /\ ~oled_ready
          /\ shift_tq = Unarmed /\ ~shift_ready /\ ~tx_flag
          /\ ~(idle_pc = "lora" /\ transmit) /\ idle_pc # "tx"
          /\ led_tq = <<>> /\ led_q = <<>>

(* Where in the second the attempt to transmit is: with the timer, the task, the
   flag, idle, or the radio, and with one of them only. *)
ShiftPart ==
  /\ shift_tq # Unarmed => /\ Phase + shift_tq \in Shift .. ShiftEnd
                           /\ ~shift_ready
  /\ shift_ready =>
       /\ Phase >= Shift
       /\ IF Resting /\ (idle_pc = "lora" \/ oled_ready) THEN Phase <= ShiftEnd
          ELSE IF Locked \/ idle_pc = "display" THEN FreeBy(ShiftEnd + RxTime)
          ELSE FreeBy(FlagEnd)
  /\ shift_tq # Unarmed \/ shift_ready => ~tx_flag
  /\ tx_flag =>
       /\ Phase >= Shift
       /\ IF Resting /\ idle_pc = "lora" THEN Phase <= ShiftEnd
          ELSE IF Locked \/ idle_pc = "display" \/ oled_ready THEN FreeBy(ShiftEnd + RxTime)
          ELSE FreeBy(FlagEnd)
  /\ (idle_pc = "lora" /\ transmit) \/ idle_pc = "tx" =>
       /\ shift_tq = Unarmed /\ ~shift_ready /\ ~tx_flag
       /\ Phase >= Shift
  /\ idle_pc = "lora" /\ transmit => Phase <= FlagEnd
  /\ idle_pc = "tx" => FreeBy(SlotEnd)

(* The blink: lit at once, and put out after LedTime. *)
LedPart ==
  /\ \/ led_tq = <<>> /\ led_q \in {<<>>, <<FALSE>>}
     \/ led_q = <<>> /\ \E t \in 0 .. LedTime : led_tq = <<t>> /\ Phase + t <= BlinkEnd
     \/ /\ led_tq = <<LedTime>> /\ led_q = <<TRUE>>
        /\ Resting /\ ~oled_ready /\ Phase <= Delay2
  /\ led_q = <<FALSE>> => IF oled_ready THEN Phase <= BlinkEnd
                          ELSE FreeBy(BlinkEnd + Delay1)
  /\ led => led_tq # <<>> \/ led_q = <<FALSE>>

IInv == Others /\ Places /\ EdgePart /\ ShiftPart /\ LedPart

-----------------------------------------------------------------------------
(* The durations *)

LEMMA Bounds ==
  /\ Period \in Nat \ {0} /\ Shift \in Nat \ {0} /\ LedTime \in Nat \ {0}
  /\ RxTime \in Nat \ {0} /\ TxTime \in Nat \ {0} /\ DisplayTime \in Nat
  /\ Delay1 \in Nat /\ Delay2 \in Nat /\ MaxOf(RxTime, TxTime) \in Nat
  /\ RxTime <= Delay2 /\ DisplayTime <= Delay2 /\ Delay2 <= Delay1
  /\ RxTime <= MaxOf(RxTime, TxTime) /\ TxTime <= MaxOf(RxTime, TxTime)
  /\ MaxOf(RxTime, TxTime) <= Delay1
  /\ ShiftEnd = Shift + Delay2 /\ ShiftEnd \in Nat
  /\ FlagEnd = ShiftEnd + RxTime + DisplayTime /\ FlagEnd \in Nat
  /\ SlotEnd = FlagEnd + TxTime /\ SlotEnd \in Nat
  /\ BlinkEnd = Delay2 + LedTime /\ BlinkEnd \in Nat
  /\ SlotEnd < Period /\ BlinkEnd + Delay1 < Period
<1>1. /\ Period \in Nat \ {0} /\ Shift \in Nat \ {0} /\ LedTime \in Nat \ {0}
      /\ RxTime \in Nat \ {0} /\ TxTime \in Nat \ {0} /\ DisplayTime \in Nat
  BY NodeAssumption
<1>2. ASSUME NEW m \in Nat, NEW n \in Nat
      PROVE  MaxOf(m, n) \in Nat /\ m <= MaxOf(m, n) /\ n <= MaxOf(m, n)
             /\ (MaxOf(m, n) = m \/ MaxOf(m, n) = n)
  BY DEF MaxOf
<1>3. Delay2 \in Nat /\ RxTime <= Delay2 /\ DisplayTime <= Delay2
  BY <1>1, <1>2 DEF Delay2
<1>4. Delay1 \in Nat /\ Delay2 <= Delay1 /\ TxTime <= Delay1
  BY <1>1, <1>2, <1>3 DEF Delay1
<1>5. /\ MaxOf(RxTime, TxTime) \in Nat
      /\ RxTime <= MaxOf(RxTime, TxTime) /\ TxTime <= MaxOf(RxTime, TxTime)
      /\ MaxOf(RxTime, TxTime) <= Delay1
  <2>1. /\ MaxOf(RxTime, TxTime) \in Nat
        /\ RxTime <= MaxOf(RxTime, TxTime) /\ TxTime <= MaxOf(RxTime, TxTime)
        /\ MaxOf(RxTime, TxTime) = RxTime \/ MaxOf(RxTime, TxTime) = TxTime
    BY <1>1 DEF MaxOf
  <2>2. QED
    BY <2>1, <1>1, <1>3, <1>4
<1>6. QED
  BY <1>1, <1>3, <1>4, <1>5, TimingAssumption
     DEF ShiftEnd, FlagEnd, SlotEnd, BlinkEnd

(* The LED's queues hold one entry at most. *)
LEMMA ShortSequences ==
  /\ <<>> \in Seq(BOOLEAN) /\ <<TRUE>> \in Seq(BOOLEAN) /\ <<FALSE>> \in Seq(BOOLEAN)
  /\ <<>> \in Seq(0 .. LedTime)
  /\ \A t \in 0 .. LedTime : <<t>> \in Seq(0 .. LedTime)
  /\ Append(<<>>, TRUE) = <<TRUE>> /\ Append(<<>>, FALSE) = <<FALSE>>
  /\ Append(<<>>, LedTime) = <<LedTime>>
  /\ \A t \in 0 .. LedTime : Tail(<<t>>) = <<>> /\ Head(<<t>>) = t
  /\ Tail(<<TRUE>>) = <<>> /\ Tail(<<FALSE>>) = <<>>
  /\ Head(<<TRUE>>) = TRUE /\ Head(<<FALSE>>) = FALSE
  /\ Len(<<>>) = 0 /\ <<TRUE>> # <<>> /\ <<FALSE>> # <<>> /\ <<TRUE>> # <<FALSE>>
  /\ \A t \in 0 .. LedTime : <<t>> # <<>> /\ <<t>>[1] = t
<1>1. <<>> \in Seq(BOOLEAN) /\ <<TRUE>> \in Seq(BOOLEAN) /\ <<FALSE>> \in Seq(BOOLEAN)
  OBVIOUS
<1>2. <<TRUE>> # <<FALSE>>
  <2>1. <<TRUE>>[1] = TRUE /\ <<FALSE>>[1] = FALSE
    OBVIOUS
  <2>2. QED
    BY <2>1
<1>3. <<>> \in Seq(0 .. LedTime)
  OBVIOUS
<1>4. ASSUME NEW t \in 0 .. LedTime
      PROVE  /\ <<t>> \in Seq(0 .. LedTime) /\ Tail(<<t>>) = <<>> /\ Head(<<t>>) = t
             /\ <<t>> # <<>> /\ <<t>>[1] = t
  OBVIOUS
<1>5. /\ Append(<<>>, TRUE) = <<TRUE>> /\ Append(<<>>, FALSE) = <<FALSE>>
      /\ Append(<<>>, LedTime) = <<LedTime>>
  OBVIOUS
<1>6. ASSUME NEW b \in BOOLEAN
      PROVE  Tail(<<b>>) = <<>> /\ Head(<<b>>) = b /\ <<b>> # <<>>
  OBVIOUS
<1>7. QED
  BY <1>1, <1>2, <1>3, <1>4, <1>5, <1>6

LEMMA TypeParts == Others /\ LedPart => TypeOK
<1>1. SUFFICES ASSUME Others, LedPart PROVE TypeOK
  OBVIOUS
<1>2. LedTime \in 0 .. LedTime
  BY Bounds
<1>3. led_tq \in Seq(0 .. LedTime) /\ led_q \in Seq(BOOLEAN)
  BY <1>1, <1>2, ShortSequences DEF LedPart
<1>4. QED
  BY <1>1, <1>3 DEF Others, TypeOK

LEMMA InitInv == Init => IInv
<1>1. SUFFICES ASSUME Init PROVE IInv
  OBVIOUS
<1>2. Others
  <2>1. pps_in \in 1 .. Period /\ oled_busy \in {Idle} \union 0 .. DisplayTime
        /\ shift_tq \in {Unarmed} \union 0 .. Shift
    BY <1>1 DEF Init
  <2>2. busy \in 0 .. MaxOf(RxTime, TxTime)
    BY <1>1, Bounds DEF Init
  <2>3. QED
    BY <1>1, <2>1, <2>2 DEF Init, Others
<1>3. Places /\ EdgePart /\ ShiftPart
  BY <1>1, Bounds DEF Init, Places, EdgePart, ShiftPart, Idle, Unarmed
<1>4. LedPart
  BY <1>1, ShortSequences DEF Init, LedPart
<1>5. QED
  BY <1>2, <1>3, <1>4 DEF IInv

LEMMA TickInv == IInv /\ Tick => IInv'
<1>1. SUFFICES ASSUME IInv, Tick PROVE IInv'
  OBVIOUS
<1>2. Others /\ Places /\ EdgePart /\ ShiftPart /\ LedPart
  BY <1>1 DEF IInv
<1>3. /\ (Locked /\ busy > 0 /\ oled_busy = Idle) \/ (oled_busy > 0 /\ idle_pc = "flag")
      /\ ~oled_ready /\ ~(idle_pc = "lora" /\ transmit)
      /\ ~Resting
  BY <1>1, <1>2, Bounds DEF Others, Places, Tick, Locked, Idle, Resting
<1>4. /\ exti' \in BOOLEAN /\ pps_in' \in 1 .. Period
      /\ Phase \in 0 .. Period - 1 /\ Phase' \in 0 .. Period - 1
      /\ \/ Phase' = Phase + 1 /\ exti' = exti
         \/ Phase' = 0 /\ Phase = Period - 1
  <2>1. pps_in \in 1 .. Period /\ exti \in BOOLEAN
    BY <1>2 DEF Others
  <2>2. CASE pps_in > 1
    <3>1. pps_in' = pps_in - 1 /\ exti' = exti
      BY <1>1, <2>2 DEF Tick
    <3>2. Phase' = Phase + 1 /\ Phase \in 0 .. Period - 1 /\ Phase' \in 0 .. Period - 1
      BY <2>1, <2>2, <3>1, Bounds DEF Phase
    <3>3. QED
      BY <2>1, <2>2, <3>1, <3>2, Bounds
  <2>3. CASE pps_in = 1
    <3>1. pps_in' = Period /\ exti' \in {exti, TRUE}
      <4>1. ~(pps_in > 1)
        BY <2>3
      <4>2. QED
        BY <1>1, <4>1 DEF Tick
    <3>2. Phase' = 0 /\ Phase = Period - 1 /\ Phase \in 0 .. Period - 1
      BY <2>3, <3>1, Bounds DEF Phase
    <3>3. QED
      <4>1. pps_in' \in 1 .. Period /\ Phase' \in 0 .. Period - 1
        BY <3>1, <3>2, Bounds DEF Phase
      <4>2. QED
        BY <2>1, <3>1, <3>2, <4>1
  <2>4. QED
    BY <2>1, <2>2, <2>3, Bounds
<1>5. /\ busy' = (IF Locked THEN busy - 1 ELSE busy)
      /\ oled_busy' = (IF oled_busy > 0 THEN oled_busy - 1 ELSE oled_busy)
      /\ shift_tq' = (IF shift_tq = Unarmed THEN Unarmed ELSE shift_tq - 1)
      /\ shift_tq # 0
      /\ UNCHANGED <<led_q, led, shift_ready, tx_flag, oled_ready, idle_pc, transmit, unshown>>
  BY <1>1 DEF Tick, Expired
<1>6. Others'
  <2>1. busy' \in 0 .. MaxOf(RxTime, TxTime)
    BY <1>2, <1>3, <1>5, Bounds DEF Others, Locked
  <2>2. oled_busy' \in {Idle} \union 0 .. DisplayTime
    BY <1>2, <1>5, Bounds DEF Others, Idle
  <2>3. shift_tq' \in {Unarmed} \union 0 .. Shift
    BY <1>2, <1>5, Bounds DEF Others, Unarmed
  <2>4. QED
    BY <1>2, <1>4, <1>5, <2>1, <2>2, <2>3 DEF Others
<1>7. Places'
  BY <1>2, <1>3, <1>5, Bounds DEF Others, Places, Locked, Idle
<1>8. ASSUME NEW t \in Nat, t < Period, FreeBy(t)
      PROVE  Phase' = Phase + 1 /\ FreeBy(t)'
  <2>1. /\ Phase \in Nat /\ Phase' \in Nat /\ busy \in Nat /\ oled_busy \in Int
        /\ Phase' = Phase + 1 \/ Phase = Period - 1
    BY <1>2, <1>4, Bounds DEF Others, Idle
  <2>2. Phase <= t /\ (Locked => Phase + busy <= t) /\ (oled_busy # Idle => Phase + oled_busy <= t)
    BY <1>8 DEF FreeBy
  <2>3. Locked' = Locked
    BY <1>5 DEF Locked
  <2>4. CASE Locked
    <3>1. busy' = busy - 1 /\ busy > 0 /\ oled_busy' = Idle
      BY <2>4, <1>3, <1>5 DEF Locked, Idle
    <3>2. Phase' = Phase + 1 /\ Phase' <= t /\ Phase' + busy' <= t
      BY <2>1, <2>2, <2>4, <3>1, <1>8, Bounds DEF Phase
    <3>3. QED
      BY <3>1, <3>2 DEF FreeBy
  <2>5. CASE ~Locked
    <3>1. oled_busy' = oled_busy - 1 /\ oled_busy > 0
      BY <2>5, <1>3, <1>5
    <3>2. Phase' = Phase + 1 /\ Phase' <= t /\ Phase' + oled_busy' <= t
      BY <2>1, <2>2, <3>1, <1>8, Bounds DEF Idle, Phase
    <3>3. QED
      BY <2>3, <2>5, <3>1, <3>2 DEF FreeBy
  <2>6. QED
    BY <2>4, <2>5
<1>9. (\E t \in 1 .. LedTime :
         /\ led_tq = <<t>> /\ led_tq' = <<t - 1>>
         /\ led_q = <<>> /\ Phase + t <= BlinkEnd)
      \/ (led_tq = <<>> /\ led_tq' = <<>> /\ led_q \in {<<>>, <<FALSE>>})
  <2>1. led_tq' = [k \in DOMAIN led_tq |-> led_tq[k] - 1] /\ ~(led_tq # <<>> /\ led_tq[1] = 0)
    BY <1>1 DEF Tick, Expired
  <2>2. CASE led_tq = <<>>
    <3>1. led_tq' = <<>>
      BY <2>1, <2>2
    <3>2. QED
      BY <2>2, <3>1, <1>2, <1>3, ShortSequences, Bounds DEF LedPart
  <2>3. ASSUME NEW t \in 0 .. LedTime, led_tq = <<t>>, led_q = <<>>, Phase + t <= BlinkEnd
        PROVE  \E u \in 1 .. LedTime : led_tq = <<u>> /\ led_tq' = <<u - 1>>
                                        /\ led_q = <<>> /\ Phase + u <= BlinkEnd
    <3>1. t \in 1 .. LedTime
      BY <2>1, <2>3, Bounds
    <3>2. led_tq' = <<t - 1>>
      BY <2>1, <2>3
    <3>3. QED
      BY <2>3, <3>1, <3>2
  <2>4. QED
    BY <1>2, <1>3, <2>2, <2>3 DEF LedPart
<1>10. Phase' = 0 => /\ shift_tq = Unarmed /\ ~shift_ready /\ ~tx_flag /\ idle_pc # "tx"
                     /\ led_tq = <<>> /\ led_q = <<>> /\ led_tq' = <<>>
  <2>1. SUFFICES ASSUME Phase' = 0
                 PROVE  /\ shift_tq = Unarmed /\ ~shift_ready /\ ~tx_flag /\ idle_pc # "tx"
                        /\ led_tq = <<>> /\ led_q = <<>> /\ led_tq' = <<>>
    OBVIOUS
  <2>2. \A t \in Nat : t < Period => ~FreeBy(t)
    BY <2>1, <1>4, <1>8
  <2>3. ~shift_ready /\ ~tx_flag /\ idle_pc # "tx"
    BY <1>2, <1>3, <2>2, Bounds DEF ShiftPart, Places
  <2>4. Phase = Period - 1
    BY <2>1, <1>4
  <2>5. shift_tq = Unarmed
    BY <1>2, <1>5, <2>4, Bounds DEF ShiftPart, Others, Unarmed
  <2>6. led_q # <<FALSE>>
    <3>1. led_q = <<FALSE>> => FreeBy(BlinkEnd + Delay1)
      BY <1>2, <1>3 DEF LedPart
    <3>2. BlinkEnd + Delay1 \in Nat /\ BlinkEnd + Delay1 < Period
      BY Bounds
    <3>3. QED
      BY <2>2, <3>1, <3>2
  <2>7. ~ \E t \in 1 .. LedTime : Phase + t <= BlinkEnd
    BY <2>4, Bounds
  <2>8. QED
    BY <1>9, <2>3, <2>5, <2>6, <2>7
<1>11. EdgePart'
  <2>1. CASE Phase' = 0
    <3>1. FreeBy(Delay2)'
      BY <2>1, <1>2, <1>3, <1>5, <1>10, Bounds DEF FreeBy, Others, Places, Locked, Idle
    <3>2. QED
      BY <2>1, <3>1, <1>3, <1>5, <1>10 DEF EdgePart
  <2>2. CASE Phase' = Phase + 1 /\ exti' = exti
    <3>1. exti => led_tq' = <<>>
      <4>1. exti => led_tq = <<>>
        BY <1>2 DEF EdgePart
      <4>2. \A t \in 1 .. LedTime : <<t>> # <<>>
        BY ShortSequences, Bounds
      <4>3. QED
        BY <4>1, <4>2, <1>9
    <3>2. exti => FreeBy(Delay2)'
      BY <1>2, <1>8, Bounds DEF EdgePart
    <3>3. QED
      BY <2>2, <3>1, <3>2, <1>2, <1>3, <1>5 DEF EdgePart
  <2>3. QED
    BY <1>4, <2>1, <2>2
<1>12. ShiftPart'
  <2>1. CASE Phase' = 0
    BY <2>1, <1>3, <1>5, <1>10 DEF ShiftPart
  <2>2. CASE Phase' = Phase + 1 /\ exti' = exti
    <3>1. Resting' => ~Locked /\ idle_pc' = "flag"
      BY <1>3, <1>5 DEF Resting, Locked
    <3>2. /\ shift_ready => IF Locked \/ idle_pc = "display" THEN FreeBy(ShiftEnd + RxTime)'
                            ELSE FreeBy(FlagEnd)'
          /\ tx_flag => IF Locked \/ idle_pc = "display" THEN FreeBy(ShiftEnd + RxTime)'
                        ELSE FreeBy(FlagEnd)'
          /\ idle_pc = "tx" => FreeBy(SlotEnd)'
      BY <1>2, <1>3, <1>8, Bounds DEF ShiftPart
    <3>3. shift_tq' # Unarmed => /\ Phase' + shift_tq' \in Shift .. ShiftEnd
                                 /\ ~shift_ready
      BY <2>2, <1>2, <1>4, <1>5, Bounds DEF ShiftPart, Others, Unarmed
    <3>4. shift_tq' # Unarmed <=> shift_tq # Unarmed
      BY <1>2, <1>5 DEF Others, Unarmed
    <3>5. Locked' = Locked
      BY <1>5 DEF Locked
    <3>6. shift_ready \/ tx_flag \/ idle_pc = "tx" => Phase' >= Shift
      BY <2>2, <1>2, <1>4, Bounds DEF ShiftPart
    <3>7. QED
      BY <1>2, <1>3, <1>5, <3>1, <3>2, <3>3, <3>4, <3>5, <3>6 DEF ShiftPart
  <2>3. QED
    BY <1>4, <2>1, <2>2
<1>13. LedPart'
  <2>1. CASE led_tq = <<>>
    <3>1. led_q = <<FALSE>> => FreeBy(BlinkEnd + Delay1)'
      BY <1>2, <1>3, <1>8, Bounds DEF LedPart
    <3>2. QED
      BY <2>1, <3>1, <1>2, <1>3, <1>5, <1>9, ShortSequences DEF LedPart
  <2>2. CASE led_tq # <<>>
    <3>1. PICK t \in 1 .. LedTime :
            led_tq' = <<t - 1>> /\ led_q = <<>> /\ Phase + t <= BlinkEnd
      BY <1>9, <2>2
    <3>2. Phase' = Phase + 1
      BY <1>4, <1>10, <2>2
    <3>3. t - 1 \in 0 .. LedTime /\ Phase' + (t - 1) <= BlinkEnd
      BY <1>4, <3>1, <3>2, Bounds
    <3>4. led_q' = <<>> /\ led_tq' # <<>>
      BY <1>5, <3>1, <3>3, ShortSequences
    <3>5. QED
      BY <3>1, <3>3, <3>4, ShortSequences DEF LedPart
  <2>3. QED
    BY <2>1, <2>2
<1>14. QED
  BY <1>6, <1>7, <1>11, <1>12, <1>13 DEF IInv

LEMMA SysTickLedInv == IInv /\ SysTickLed => IInv'
<1>1. SUFFICES ASSUME IInv, SysTickLed PROVE IInv'
  OBVIOUS
<1>2. Others'
  BY <1>1, Bounds DEF IInv, SysTickLed, Priority1, Priority2, NoPriority2, IdleRuns, Expired, pps, leds, shifts, oled, idle, Others, Places, Locked, Idle, Unarmed
<1>3. Places'
  BY <1>1, Bounds DEF IInv, SysTickLed, Priority1, Priority2, NoPriority2, IdleRuns, Expired, pps, leds, shifts, oled, idle, Others, Places, FreeBy, Resting, Locked, Phase, Idle, Unarmed, EdgePart, LedPart
<1>4. EdgePart'
  BY <1>1, Bounds DEF IInv, SysTickLed, Priority1, Priority2, NoPriority2, IdleRuns, Expired, pps, leds, shifts, oled, idle, Others, Places, FreeBy, Resting, Locked, Phase, Idle, Unarmed, EdgePart, ShiftPart, LedPart
<1>5. ShiftPart'
  BY <1>1, Bounds DEF IInv, SysTickLed, Priority1, Priority2, NoPriority2, IdleRuns, Expired, pps, leds, shifts, oled, idle, Others, Places, FreeBy, Resting, Locked, Phase, Idle, Unarmed, EdgePart, ShiftPart
<1>6. LedPart'
  <2>1. led_tq = <<0>> /\ led_q = <<>> /\ Phase <= BlinkEnd
    <3>1. led_tq # <<>> /\ led_tq[1] = 0
      BY <1>1 DEF SysTickLed
    <3>2. led_tq # <<LedTime>>
      BY <3>1, Bounds
    <3>3. PICK t \in 0 .. LedTime : led_tq = <<t>> /\ led_q = <<>> /\ Phase + t <= BlinkEnd
      BY <1>1, <3>1, <3>2 DEF IInv, LedPart
    <3>4. t = 0
      BY <3>1, <3>3
    <3>5. QED
      BY <3>3, <3>4, <1>1, Bounds DEF IInv, Others, Phase
  <2>2. led_tq' = <<>> /\ led_q' = <<FALSE>>
    <3>1. led_tq' = Tail(<<0>>) /\ led_q' = Append(<<>>, FALSE)
      BY <1>1, <2>1 DEF SysTickLed
    <3>2. QED
      <4>1. Tail(<<0>>) = <<>>
        <5>1. 0 \in 0 .. LedTime
          BY Bounds
        <5>2. QED
          BY <5>1, ShortSequences
      <4>2. Append(<<>>, FALSE) = <<FALSE>>
        BY ShortSequences
      <4>3. QED
        BY <3>1, <4>1, <4>2
  <2>3. FreeBy(BlinkEnd + Delay1)' /\ Phase' <= BlinkEnd
    BY <1>1, <2>1, Bounds
       DEF IInv, Others, SysTickLed, FreeBy, Phase, Locked, Idle, pps, oled, idle
  <2>4. QED
    BY <2>2, <2>3, ShortSequences DEF LedPart
<1>7. QED
  BY <1>2, <1>3, <1>4, <1>5, <1>6 DEF IInv

LEMMA SysTickShiftInv == IInv /\ SysTickShift => IInv'
<1>1. SUFFICES ASSUME IInv, SysTickShift PROVE IInv'
  OBVIOUS
<1>2. Others'
  BY <1>1, Bounds DEF IInv, SysTickShift, Priority1, Priority2, NoPriority2, IdleRuns, Expired, pps, leds, shifts, oled, idle, Others, Places, Locked, Idle, Unarmed
<1>3. Places'
  BY <1>1, Bounds DEF IInv, SysTickShift, Priority1, Priority2, NoPriority2, IdleRuns, Expired, pps, leds, shifts, oled, idle, Others, Places, FreeBy, Resting, Locked, Phase, Idle, Unarmed, EdgePart, LedPart
<1>4. EdgePart'
  BY <1>1, Bounds DEF IInv, SysTickShift, Priority1, Priority2, NoPriority2, IdleRuns, Expired, pps, leds, shifts, oled, idle, Others, Places, FreeBy, Resting, Locked, Phase, Idle, Unarmed, EdgePart, ShiftPart, LedPart
<1>5. ShiftPart'
  BY <1>1, Bounds DEF IInv, SysTickShift, Priority1, Priority2, NoPriority2, IdleRuns, Expired, pps, leds, shifts, oled, idle, Others, Places, FreeBy, Resting, Locked, Phase, Idle, Unarmed, EdgePart, ShiftPart
<1>6. LedPart'
  BY <1>1, Bounds, ShortSequences DEF IInv, SysTickShift, Priority1, Priority2, NoPriority2, IdleRuns, Expired, pps, leds, shifts, oled, idle, Others, Places, FreeBy, Resting, Locked, Phase, Idle, Unarmed, EdgePart, LedPart
<1>7. QED
  BY <1>2, <1>3, <1>4, <1>5, <1>6 DEF IInv

LEMMA PpsSyncTaskInv == IInv /\ PpsSyncTask => IInv'
<1>1. SUFFICES ASSUME IInv, PpsSyncTask PROVE IInv'
  OBVIOUS
<1>a. led_tq = <<>> /\ led_q = <<>> /\ Resting /\ ~oled_ready /\ Phase <= Delay2
  BY <1>1 DEF IInv, EdgePart, PpsSyncTask, Priority2, Resting, FreeBy
<1>b. led_q' = <<TRUE>> /\ led_tq' = <<LedTime>>
  <2>1. LedSlotsTaken = 0
    <3>1. Len(led_q) = 0 /\ Len(led_tq) = 0
      BY <1>a, ShortSequences
    <3>2. QED
      BY <3>1 DEF LedSlotsTaken
  <2>2. led_q' = Append(led_q, TRUE) /\ led_tq' = Append(led_tq, LedTime)
    BY <1>1, <2>1 DEF PpsSyncTask, BlinkLed, CAPACITY
  <2>3. QED
    BY <1>a, <2>2, ShortSequences
<1>2. Others'
  <2>1. shift_tq' \in {Unarmed} \union 0 .. Shift
    BY <1>1, Bounds DEF IInv, Others, PpsSyncTask, ArmShift
  <2>2. QED
    BY <1>1, <2>1 DEF IInv, Others, PpsSyncTask, oled, idle
<1>3. Places'
  BY <1>1, Bounds DEF IInv, PpsSyncTask, Priority1, Priority2, NoPriority2, IdleRuns, Expired, BlinkLed, ArmShift, LedSlotsTaken, CAPACITY, pps, leds, shifts, oled, idle, Others, Places, FreeBy, Resting, Locked, Phase, Idle, Unarmed, EdgePart, LedPart
<1>4. EdgePart'
  BY <1>1, Bounds DEF IInv, PpsSyncTask, Priority1, Priority2, NoPriority2, IdleRuns, Expired, BlinkLed, ArmShift, LedSlotsTaken, CAPACITY, pps, leds, shifts, oled, idle, Others, Places, FreeBy, Resting, Locked, Phase, Idle, Unarmed, EdgePart, ShiftPart, LedPart
<1>5. ShiftPart'
  BY <1>1, Bounds DEF IInv, PpsSyncTask, Priority1, Priority2, NoPriority2, IdleRuns, Expired, BlinkLed, ArmShift, LedSlotsTaken, CAPACITY, pps, leds, shifts, oled, idle, Others, Places, FreeBy, Resting, Locked, Phase, Idle, Unarmed, EdgePart, ShiftPart
<1>6. LedPart'
  <2>1. Resting' /\ ~oled_ready' /\ Phase' <= Delay2
    BY <1>1, <1>a DEF PpsSyncTask, Resting, Locked, Phase, oled, idle
  <2>2. QED
    BY <1>b, <2>1, ShortSequences DEF LedPart
<1>7. QED
  BY <1>2, <1>3, <1>4, <1>5, <1>6 DEF IInv

LEMMA PhaseShiftTxInv == IInv /\ PhaseShiftTx => IInv'
<1>1. SUFFICES ASSUME IInv, PhaseShiftTx PROVE IInv'
  OBVIOUS
<1>2. Others'
  BY <1>1, Bounds DEF IInv, PhaseShiftTx, Priority1, Priority2, NoPriority2, IdleRuns, Expired, pps, leds, shifts, oled, idle, Others, Places, Locked, Idle, Unarmed
<1>3. Places'
  BY <1>1, Bounds DEF IInv, PhaseShiftTx, Priority1, Priority2, NoPriority2, IdleRuns, Expired, pps, leds, shifts, oled, idle, Others, Places, FreeBy, Resting, Locked, Phase, Idle, Unarmed, EdgePart, LedPart
<1>4. EdgePart'
  BY <1>1, Bounds DEF IInv, PhaseShiftTx, Priority1, Priority2, NoPriority2, IdleRuns, Expired, pps, leds, shifts, oled, idle, Others, Places, FreeBy, Resting, Locked, Phase, Idle, Unarmed, EdgePart, ShiftPart, LedPart
<1>5. ShiftPart'
  BY <1>1, Bounds DEF IInv, PhaseShiftTx, Priority1, Priority2, NoPriority2, IdleRuns, Expired, pps, leds, shifts, oled, idle, Others, Places, FreeBy, Resting, Locked, Phase, Idle, Unarmed, EdgePart, ShiftPart
<1>6. LedPart'
  BY <1>1, Bounds, ShortSequences DEF IInv, PhaseShiftTx, Priority1, Priority2, NoPriority2, IdleRuns, Expired, pps, leds, shifts, oled, idle, Others, Places, FreeBy, Resting, Locked, Phase, Idle, Unarmed, EdgePart, LedPart
<1>7. QED
  BY <1>2, <1>3, <1>4, <1>5, <1>6 DEF IInv

LEMMA LedTaskInv == IInv /\ LedTask => IInv'
<1>1. SUFFICES ASSUME IInv, LedTask PROVE IInv'
  OBVIOUS
<1>a. /\ led' \in BOOLEAN /\ led_q' = <<>>
      /\ led_q = <<FALSE>> => ~led'
      /\ led_q = <<TRUE>> => led_tq = <<LedTime>> /\ Phase <= Delay2
  BY <1>1, ShortSequences DEF IInv, LedPart, LedTask
<1>2. Others'
  <2>1. UNCHANGED <<pps_in, exti, shift_tq, shift_ready, tx_flag, oled_ready, oled_busy,
                    idle_pc, transmit, busy, unshown>>
    BY <1>1 DEF LedTask, pps, shifts, oled, idle
  <2>2. QED
    BY <1>1, <1>a, <2>1 DEF IInv, Others
<1>3. Places'
  BY <1>1, Bounds DEF IInv, LedTask, Priority1, Priority2, NoPriority2, IdleRuns, Expired, pps, leds, shifts, oled, idle, Others, Places, FreeBy, Resting, Locked, Phase, Idle, Unarmed, EdgePart, LedPart
<1>4. EdgePart'
  BY <1>1, Bounds DEF IInv, LedTask, Priority1, Priority2, NoPriority2, IdleRuns, Expired, pps, leds, shifts, oled, idle, Others, Places, FreeBy, Resting, Locked, Phase, Idle, Unarmed, EdgePart, ShiftPart, LedPart
<1>5. ShiftPart'
  BY <1>1, Bounds DEF IInv, LedTask, Priority1, Priority2, NoPriority2, IdleRuns, Expired, pps, leds, shifts, oled, idle, Others, Places, FreeBy, Resting, Locked, Phase, Idle, Unarmed, EdgePart, ShiftPart
<1>6. LedPart'
  <2>1. led_tq' = led_tq /\ Phase' = Phase /\ led_q # <<>> /\ Phase \in Nat
    BY <1>1, Bounds DEF IInv, Others, LedTask, Phase, pps
  <2>2. CASE led_q = <<TRUE>>
    <3>1. LedTime \in 0 .. LedTime /\ Phase + LedTime <= BlinkEnd
      BY <1>a, <2>1, <2>2, Bounds
    <3>2. QED
      BY <1>a, <2>1, <2>2, <3>1, ShortSequences DEF LedPart
  <2>3. CASE led_q # <<TRUE>>
    <3>1. led_tq = <<>> /\ led_q = <<FALSE>>
      BY <1>1, <2>1, <2>3 DEF IInv, LedPart
    <3>2. QED
      BY <1>a, <2>1, <3>1, ShortSequences DEF LedPart
  <2>4. QED
    BY <2>2, <2>3
<1>7. QED
  BY <1>2, <1>3, <1>4, <1>5, <1>6 DEF IInv

LEMMA OledTaskInv == IInv /\ OledTask => IInv'
<1>1. SUFFICES ASSUME IInv, OledTask PROVE IInv'
  OBVIOUS
<1>2. Others'
  BY <1>1, Bounds DEF IInv, OledTask, Priority1, Priority2, NoPriority2, IdleRuns, Expired, pps, leds, shifts, oled, idle, Others, Places, Locked, Idle, Unarmed
<1>3. Places'
  BY <1>1, Bounds DEF IInv, OledTask, Priority1, Priority2, NoPriority2, IdleRuns, Expired, pps, leds, shifts, oled, idle, Others, Places, FreeBy, Resting, Locked, Phase, Idle, Unarmed, EdgePart, LedPart
<1>4. EdgePart'
  BY <1>1, Bounds DEF IInv, OledTask, Priority1, Priority2, NoPriority2, IdleRuns, Expired, pps, leds, shifts, oled, idle, Others, Places, FreeBy, Resting, Locked, Phase, Idle, Unarmed, EdgePart, ShiftPart, LedPart
<1>5. ShiftPart'
  <2>1. /\ idle_pc = "flag" /\ oled_ready /\ oled_busy = Idle /\ Resting /\ ~oled_ready'
        /\ oled_busy' \in 0 .. DisplayTime /\ Phase' = Phase /\ Phase \in Nat
        /\ UNCHANGED <<idle_pc, busy, transmit, shift_tq, shift_ready, tx_flag>>
    BY <1>1, Bounds DEF IInv, OledTask, Others, Places, Priority2, Resting, Phase, pps, shifts, idle
  <2>2. ~Resting' /\ ~Locked' /\ ~Locked
    BY <2>1 DEF Resting, Locked, Idle
  <2>3. ASSUME NEW t \in Nat, Phase + DisplayTime <= t PROVE FreeBy(t)'
    <3>1. oled_busy' \in Nat /\ Phase' + oled_busy' <= t /\ Phase' <= t
      BY <2>1, <2>3, Bounds DEF Phase
    <3>2. QED
      BY <2>2, <3>1 DEF FreeBy
  <2>4. shift_ready => FreeBy(FlagEnd)'
    BY <1>1, <2>1, <2>3, Bounds DEF IInv, ShiftPart
  <2>5. tx_flag => FreeBy(FlagEnd)'
    <3>1. tx_flag => FreeBy(ShiftEnd + RxTime)
      BY <1>1, <2>1, <2>2 DEF IInv, ShiftPart
    <3>2. tx_flag => Phase + DisplayTime <= FlagEnd
      BY <3>1, <2>1, Bounds DEF FreeBy
    <3>3. QED
      BY <3>2, <2>3, Bounds
  <2>6. QED
    BY <1>1, <2>1, <2>2, <2>4, <2>5 DEF IInv, ShiftPart
<1>6. LedPart'
  <2>1. /\ oled_ready /\ ~oled_ready' /\ ~Locked' /\ oled_busy' \in 0 .. DisplayTime
        /\ Phase' = Phase /\ Phase \in Nat /\ UNCHANGED <<led_tq, led_q, led>>
    BY <1>1, Bounds DEF IInv, OledTask, Others, Priority2, Locked, Phase, pps, leds, idle
  <2>2. led_q = <<FALSE>> => FreeBy(BlinkEnd + Delay1)'
    <3>1. led_q = <<FALSE>> => Phase <= BlinkEnd
      BY <1>1, <2>1 DEF IInv, LedPart
    <3>2. /\ oled_busy' \in Nat /\ BlinkEnd + Delay1 \in Nat
          /\ Phase <= BlinkEnd => /\ Phase' <= BlinkEnd + Delay1
                                  /\ Phase' + oled_busy' <= BlinkEnd + Delay1
      BY <2>1, Bounds DEF Phase
    <3>3. QED
      BY <2>1, <3>1, <3>2 DEF FreeBy
  <2>3. led_q # <<TRUE>>
    BY <1>1, <2>1, ShortSequences DEF IInv, LedPart
  <2>4. QED
    BY <1>1, <2>1, <2>2, <2>3, ShortSequences DEF IInv, LedPart
<1>7. QED
  BY <1>2, <1>3, <1>4, <1>5, <1>6 DEF IInv

LEMMA OledDoneInv == IInv /\ OledDone => IInv'
<1>1. SUFFICES ASSUME IInv, OledDone PROVE IInv'
  OBVIOUS
<1>2. Others'
  BY <1>1, Bounds DEF IInv, OledDone, Priority1, Priority2, NoPriority2, IdleRuns, Expired, pps, leds, shifts, oled, idle, Others, Places, Locked, Idle, Unarmed
<1>3. Places'
  BY <1>1, Bounds DEF IInv, OledDone, Priority1, Priority2, NoPriority2, IdleRuns, Expired, pps, leds, shifts, oled, idle, Others, Places, FreeBy, Resting, Locked, Phase, Idle, Unarmed, EdgePart, LedPart
<1>4. EdgePart'
  BY <1>1, Bounds DEF IInv, OledDone, Priority1, Priority2, NoPriority2, IdleRuns, Expired, pps, leds, shifts, oled, idle, Others, Places, FreeBy, Resting, Locked, Phase, Idle, Unarmed, EdgePart, ShiftPart, LedPart
<1>5. ShiftPart'
  BY <1>1, Bounds DEF IInv, OledDone, Priority1, Priority2, NoPriority2, IdleRuns, Expired, pps, leds, shifts, oled, idle, Others, Places, FreeBy, Resting, Locked, Phase, Idle, Unarmed, EdgePart, ShiftPart
<1>6. LedPart'
  BY <1>1, Bounds, ShortSequences DEF IInv, OledDone, Priority1, Priority2, NoPriority2, IdleRuns, Expired, pps, leds, shifts, oled, idle, Others, Places, FreeBy, Resting, Locked, Phase, Idle, Unarmed, EdgePart, LedPart
<1>7. QED
  BY <1>2, <1>3, <1>4, <1>5, <1>6 DEF IInv

LEMMA ReadAndClearFlagInv == IInv /\ ReadAndClearFlag => IInv'
<1>1. SUFFICES ASSUME IInv, ReadAndClearFlag PROVE IInv'
  OBVIOUS
<1>2. Others'
  BY <1>1, Bounds DEF IInv, ReadAndClearFlag, Priority1, Priority2, NoPriority2, IdleRuns, Expired, pps, leds, shifts, oled, idle, Others, Places, Locked, Idle, Unarmed
<1>3. Places'
  BY <1>1, Bounds DEF IInv, ReadAndClearFlag, Priority1, Priority2, NoPriority2, IdleRuns, Expired, pps, leds, shifts, oled, idle, Others, Places, FreeBy, Resting, Locked, Phase, Idle, Unarmed, EdgePart, LedPart
<1>4. EdgePart'
  BY <1>1, Bounds DEF IInv, ReadAndClearFlag, Priority1, Priority2, NoPriority2, IdleRuns, Expired, pps, leds, shifts, oled, idle, Others, Places, FreeBy, Resting, Locked, Phase, Idle, Unarmed, EdgePart, ShiftPart, LedPart
<1>5. ShiftPart'
  BY <1>1, Bounds DEF IInv, ReadAndClearFlag, Priority1, Priority2, NoPriority2, IdleRuns, Expired, pps, leds, shifts, oled, idle, Others, Places, FreeBy, Resting, Locked, Phase, Idle, Unarmed, EdgePart, ShiftPart
<1>6. LedPart'
  BY <1>1, Bounds, ShortSequences DEF IInv, ReadAndClearFlag, Priority1, Priority2, NoPriority2, IdleRuns, Expired, pps, leds, shifts, oled, idle, Others, Places, FreeBy, Resting, Locked, Phase, Idle, Unarmed, EdgePart, LedPart
<1>7. QED
  BY <1>2, <1>3, <1>4, <1>5, <1>6 DEF IInv

LEMMA StartReceivingInv == IInv /\ StartReceiving => IInv'
<1>1. SUFFICES ASSUME IInv, StartReceiving PROVE IInv'
  OBVIOUS
<1>2. Others'
  BY <1>1, Bounds DEF IInv, StartReceiving, Priority1, Priority2, NoPriority2, IdleRuns, Expired, pps, leds, shifts, oled, idle, Others, Places, Locked, Idle, Unarmed
<1>3. Places'
  BY <1>1, Bounds DEF IInv, StartReceiving, Priority1, Priority2, NoPriority2, IdleRuns, Expired, pps, leds, shifts, oled, idle, Others, Places, FreeBy, Resting, Locked, Phase, Idle, Unarmed, EdgePart, LedPart
<1>4. EdgePart'
  BY <1>1, Bounds DEF IInv, StartReceiving, Priority1, Priority2, NoPriority2, IdleRuns, Expired, pps, leds, shifts, oled, idle, Others, Places, FreeBy, Resting, Locked, Phase, Idle, Unarmed, EdgePart, ShiftPart, LedPart
<1>5. ShiftPart'
  BY <1>1, Bounds DEF IInv, StartReceiving, Priority1, Priority2, NoPriority2, IdleRuns, Expired, pps, leds, shifts, oled, idle, Others, Places, FreeBy, Resting, Locked, Phase, Idle, Unarmed, EdgePart, ShiftPart
<1>6. LedPart'
  BY <1>1, Bounds, ShortSequences DEF IInv, StartReceiving, Priority1, Priority2, NoPriority2, IdleRuns, Expired, pps, leds, shifts, oled, idle, Others, Places, FreeBy, Resting, Locked, Phase, Idle, Unarmed, EdgePart, LedPart
<1>7. QED
  BY <1>2, <1>3, <1>4, <1>5, <1>6 DEF IInv

LEMMA ReceiveFrameInv == IInv /\ ReceiveFrame => IInv'
<1>1. SUFFICES ASSUME IInv, ReceiveFrame PROVE IInv'
  OBVIOUS
<1>2. Others'
  <2>1. busy' \in 0 .. MaxOf(RxTime, TxTime) /\ unshown' \in BOOLEAN
        /\ idle_pc' \in {"flag", "display"}
    <3>1. busy' = 0 /\ idle_pc' \in {"flag", "display"} /\ (unshown' = TRUE \/ unshown' = unshown)
      BY <1>1 DEF ReceiveFrame
    <3>2. unshown \in BOOLEAN
      BY <1>1 DEF IInv, Others
    <3>3. busy' \in 0 .. MaxOf(RxTime, TxTime)
      BY <3>1, Bounds
    <3>4. QED
      BY <3>1, <3>2, <3>3
  <2>2. QED
    BY <1>1, <2>1 DEF IInv, Others, ReceiveFrame, pps, leds, shifts, oled
<1>3. Places'
  BY <1>1, Bounds DEF IInv, ReceiveFrame, Priority1, Priority2, NoPriority2, IdleRuns, Expired, pps, leds, shifts, oled, idle, Others, Places, FreeBy, Resting, Locked, Phase, Idle, Unarmed, EdgePart, LedPart
<1>4. EdgePart'
  BY <1>1, Bounds DEF IInv, ReceiveFrame, Priority1, Priority2, NoPriority2, IdleRuns, Expired, pps, leds, shifts, oled, idle, Others, Places, FreeBy, Resting, Locked, Phase, Idle, Unarmed, EdgePart, ShiftPart, LedPart
<1>5. ShiftPart'
  BY <1>1, Bounds DEF IInv, ReceiveFrame, Priority1, Priority2, NoPriority2, IdleRuns, Expired, pps, leds, shifts, oled, idle, Others, Places, FreeBy, Resting, Locked, Phase, Idle, Unarmed, EdgePart, ShiftPart
<1>6. LedPart'
  BY <1>1, Bounds, ShortSequences DEF IInv, ReceiveFrame, Priority1, Priority2, NoPriority2, IdleRuns, Expired, pps, leds, shifts, oled, idle, Others, Places, FreeBy, Resting, Locked, Phase, Idle, Unarmed, EdgePart, LedPart
<1>7. QED
  BY <1>2, <1>3, <1>4, <1>5, <1>6 DEF IInv

LEMMA ReceiveTimeoutInv == IInv /\ ReceiveTimeout => IInv'
<1>1. SUFFICES ASSUME IInv, ReceiveTimeout PROVE IInv'
  OBVIOUS
<1>2. Others'
  BY <1>1, Bounds DEF IInv, ReceiveTimeout, Priority1, Priority2, NoPriority2, IdleRuns, Expired, pps, leds, shifts, oled, idle, Others, Places, Locked, Idle, Unarmed
<1>3. Places'
  BY <1>1, Bounds DEF IInv, ReceiveTimeout, Priority1, Priority2, NoPriority2, IdleRuns, Expired, pps, leds, shifts, oled, idle, Others, Places, FreeBy, Resting, Locked, Phase, Idle, Unarmed, EdgePart, LedPart
<1>4. EdgePart'
  BY <1>1, Bounds DEF IInv, ReceiveTimeout, Priority1, Priority2, NoPriority2, IdleRuns, Expired, pps, leds, shifts, oled, idle, Others, Places, FreeBy, Resting, Locked, Phase, Idle, Unarmed, EdgePart, ShiftPart, LedPart
<1>5. ShiftPart'
  BY <1>1, Bounds DEF IInv, ReceiveTimeout, Priority1, Priority2, NoPriority2, IdleRuns, Expired, pps, leds, shifts, oled, idle, Others, Places, FreeBy, Resting, Locked, Phase, Idle, Unarmed, EdgePart, ShiftPart
<1>6. LedPart'
  BY <1>1, Bounds, ShortSequences DEF IInv, ReceiveTimeout, Priority1, Priority2, NoPriority2, IdleRuns, Expired, pps, leds, shifts, oled, idle, Others, Places, FreeBy, Resting, Locked, Phase, Idle, Unarmed, EdgePart, LedPart
<1>7. QED
  BY <1>2, <1>3, <1>4, <1>5, <1>6 DEF IInv

LEMMA StartTransmittingInv == IInv /\ StartTransmitting => IInv'
<1>1. SUFFICES ASSUME IInv, StartTransmitting PROVE IInv'
  OBVIOUS
<1>2. Others'
  BY <1>1, Bounds DEF IInv, StartTransmitting, Priority1, Priority2, NoPriority2, IdleRuns, Expired, pps, leds, shifts, oled, idle, Others, Places, Locked, Idle, Unarmed
<1>3. Places'
  BY <1>1, Bounds DEF IInv, StartTransmitting, Priority1, Priority2, NoPriority2, IdleRuns, Expired, pps, leds, shifts, oled, idle, Others, Places, FreeBy, Resting, Locked, Phase, Idle, Unarmed, EdgePart, LedPart
<1>4. EdgePart'
  BY <1>1, Bounds DEF IInv, StartTransmitting, Priority1, Priority2, NoPriority2, IdleRuns, Expired, pps, leds, shifts, oled, idle, Others, Places, FreeBy, Resting, Locked, Phase, Idle, Unarmed, EdgePart, ShiftPart, LedPart
<1>5. ShiftPart'
  BY <1>1, Bounds DEF IInv, StartTransmitting, Priority1, Priority2, NoPriority2, IdleRuns, Expired, pps, leds, shifts, oled, idle, Others, Places, FreeBy, Resting, Locked, Phase, Idle, Unarmed, EdgePart, ShiftPart
<1>6. LedPart'
  BY <1>1, Bounds, ShortSequences DEF IInv, StartTransmitting, Priority1, Priority2, NoPriority2, IdleRuns, Expired, pps, leds, shifts, oled, idle, Others, Places, FreeBy, Resting, Locked, Phase, Idle, Unarmed, EdgePart, LedPart
<1>7. QED
  BY <1>2, <1>3, <1>4, <1>5, <1>6 DEF IInv

LEMMA TransmitDoneInv == IInv /\ TransmitDone => IInv'
<1>1. SUFFICES ASSUME IInv, TransmitDone PROVE IInv'
  OBVIOUS
<1>2. Others'
  BY <1>1, Bounds DEF IInv, TransmitDone, Priority1, Priority2, NoPriority2, IdleRuns, Expired, pps, leds, shifts, oled, idle, Others, Places, Locked, Idle, Unarmed
<1>3. Places'
  BY <1>1, Bounds DEF IInv, TransmitDone, Priority1, Priority2, NoPriority2, IdleRuns, Expired, pps, leds, shifts, oled, idle, Others, Places, FreeBy, Resting, Locked, Phase, Idle, Unarmed, EdgePart, LedPart
<1>4. EdgePart'
  BY <1>1, Bounds DEF IInv, TransmitDone, Priority1, Priority2, NoPriority2, IdleRuns, Expired, pps, leds, shifts, oled, idle, Others, Places, FreeBy, Resting, Locked, Phase, Idle, Unarmed, EdgePart, ShiftPart, LedPart
<1>5. ShiftPart'
  BY <1>1, Bounds DEF IInv, TransmitDone, Priority1, Priority2, NoPriority2, IdleRuns, Expired, pps, leds, shifts, oled, idle, Others, Places, FreeBy, Resting, Locked, Phase, Idle, Unarmed, EdgePart, ShiftPart
<1>6. LedPart'
  BY <1>1, Bounds, ShortSequences DEF IInv, TransmitDone, Priority1, Priority2, NoPriority2, IdleRuns, Expired, pps, leds, shifts, oled, idle, Others, Places, FreeBy, Resting, Locked, Phase, Idle, Unarmed, EdgePart, LedPart
<1>7. QED
  BY <1>2, <1>3, <1>4, <1>5, <1>6 DEF IInv

LEMMA SpawnDisplayInv == IInv /\ SpawnDisplay => IInv'
<1>1. SUFFICES ASSUME IInv, SpawnDisplay PROVE IInv'
  OBVIOUS
<1>2. Others'
  BY <1>1, Bounds DEF IInv, SpawnDisplay, Priority1, Priority2, NoPriority2, IdleRuns, Expired, pps, leds, shifts, oled, idle, Others, Places, Locked, Idle, Unarmed
<1>3. Places'
  BY <1>1, Bounds DEF IInv, SpawnDisplay, Priority1, Priority2, NoPriority2, IdleRuns, Expired, pps, leds, shifts, oled, idle, Others, Places, FreeBy, Resting, Locked, Phase, Idle, Unarmed, EdgePart, LedPart
<1>4. EdgePart'
  BY <1>1, Bounds DEF IInv, SpawnDisplay, Priority1, Priority2, NoPriority2, IdleRuns, Expired, pps, leds, shifts, oled, idle, Others, Places, FreeBy, Resting, Locked, Phase, Idle, Unarmed, EdgePart, ShiftPart, LedPart
<1>5. ShiftPart'
  BY <1>1, Bounds DEF IInv, SpawnDisplay, Priority1, Priority2, NoPriority2, IdleRuns, Expired, pps, leds, shifts, oled, idle, Others, Places, FreeBy, Resting, Locked, Phase, Idle, Unarmed, EdgePart, ShiftPart
<1>6. LedPart'
  BY <1>1, Bounds, ShortSequences DEF IInv, SpawnDisplay, Priority1, Priority2, NoPriority2, IdleRuns, Expired, pps, leds, shifts, oled, idle, Others, Places, FreeBy, Resting, Locked, Phase, Idle, Unarmed, EdgePart, LedPart
<1>7. QED
  BY <1>2, <1>3, <1>4, <1>5, <1>6 DEF IInv

LEMMA StutterInv == IInv /\ UNCHANGED vars => IInv'
<1>1. SUFFICES ASSUME IInv, UNCHANGED vars PROVE IInv'
  OBVIOUS
<1>2. UNCHANGED <<pps_in, exti, led_tq, led_q, led, shift_tq, shift_ready, tx_flag, oled_ready,
                  oled_busy, idle_pc, transmit, busy, unshown>>
  BY <1>1 DEF vars, pps, leds, shifts, oled, idle
<1>3. Others' /\ Places'
  BY <1>1, <1>2 DEF IInv, Others, Places, Locked
<1>4. EdgePart'
  BY <1>1, <1>2 DEF IInv, EdgePart, FreeBy, Locked, Phase
<1>5. ShiftPart'
  BY <1>1, <1>2 DEF IInv, ShiftPart, FreeBy, Resting, Locked, Phase
<1>6. LedPart'
  BY <1>1, <1>2 DEF IInv, LedPart, FreeBy, Resting, Locked, Phase
<1>7. QED
  BY <1>3, <1>4, <1>5, <1>6 DEF IInv

LEMMA NextInv == IInv /\ [Next]_vars => IInv'
<1>1. SUFFICES ASSUME IInv, [Next]_vars PROVE IInv'
  OBVIOUS
<1>2. CASE Tick \/ SysTickLed \/ SysTickShift
  BY <1>1, <1>2, TickInv, SysTickLedInv, SysTickShiftInv
<1>3. CASE Tasks
  BY <1>1, <1>3, PpsSyncTaskInv, PhaseShiftTxInv, LedTaskInv, OledTaskInv, OledDoneInv DEF Tasks
<1>4. CASE IdleLoop
  BY <1>1, <1>4, ReadAndClearFlagInv, StartReceivingInv, ReceiveFrameInv, ReceiveTimeoutInv,
     StartTransmittingInv, TransmitDoneInv, SpawnDisplayInv DEF IdleLoop
<1>5. CASE UNCHANGED vars
  BY <1>1, <1>5, StutterInv
<1>6. QED
  BY <1>1, <1>2, <1>3, <1>4, <1>5 DEF Next

(* What the invariant says of the air. *)
LEMMA SlotInv == IInv => TransmitsInSlot
BY Bounds DEF IInv, Others, ShiftPart, FreeBy, TransmitsInSlot, Phase

-----------------------------------------------------------------------------
(* Theorems *)

(* IInv, which says where in the second each consequence of an edge is, holds in
   every behaviour of a node. *)
THEOREM InvariantThm == SafeSpec => []IInv
<1>1. QED
  BY InitInv, NextInv, PTL DEF SafeSpec

(* The variables of a node keep their types. *)
THEOREM TypeThm == SafeSpec => []TypeOK
<1>1. IInv => TypeOK
  BY TypeParts DEF IInv
<1>2. QED
  BY <1>1, InvariantThm, PTL

(* A node transmits in its slot only: pps_sync_task, phase_shift_tx and idle delay
   each other by no more than SlotEnd allows for. *)
THEOREM TransmitsInSlotThm == SafeSpec => []TransmitsInSlot
<1>1. QED
  BY SlotInv, InvariantThm, PTL

(* pps_sync_task runs before the next reception or display update is over. *)
THEOREM EdgeServedThm == SafeSpec => []EdgeServed
<1>1. IInv => EdgeServed
  BY DEF IInv, EdgePart, FreeBy, EdgeServed
<1>2. QED
  BY <1>1, InvariantThm, PTL

(* The two slots of led_task are enough. *)
THEOREM LedThm == SafeSpec => []LedOffOnItsWay
<1>1. IInv => LedOffOnItsWay
  <2>1. SUFFICES ASSUME IInv, led \/ \E k \in DOMAIN led_q : led_q[k]
                 PROVE  led_tq # <<>> \/ (led_q # <<>> /\ ~led_q[Len(led_q)])
    BY DEF LedOffOnItsWay
  <2>2. led_tq # <<>> \/ led_q = <<FALSE>>
    <3>1. \A t \in 0 .. LedTime : <<t>> # <<>>
      BY ShortSequences
    <3>2. <<LedTime>> # <<>>
      BY <3>1, Bounds
    <3>3. CASE led
      BY <2>1, <3>3 DEF IInv, LedPart
    <3>4. CASE led_q # <<>>
      BY <2>1, <3>1, <3>2, <3>4 DEF IInv, LedPart
    <3>5. (\E k \in DOMAIN led_q : led_q[k]) => led_q # <<>>
      OBVIOUS
    <3>6. QED
      BY <2>1, <3>3, <3>4, <3>5
  <2>3. <<FALSE>> # <<>> /\ Len(<<FALSE>>) = 1 /\ ~(<<FALSE>>[1])
    OBVIOUS
  <2>4. QED
    BY <2>2, <2>3
<1>2. QED
  BY <1>1, InvariantThm, PTL
=============================================================================
