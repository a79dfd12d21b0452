------------------------------- MODULE LoraAir -------------------------------
(***************************************************************************)
(* Two can_gps_lora nodes and what passes between them: LoraPair says when *)
(* each is on the air or listens, RadioFrame what becomes of a heartbeat.  *)
(* The heartbeats of node a are followed to node b; those of b to a take   *)
(* the same code.                                                          *)
(***************************************************************************)
EXTENDS LoraPair, RadioFrame

airVars == <<vars, radioVars>>

AirInit == Init /\ RadioInit

(* A packet lasts as long as the transmission, one of another program no time. *)
TimePasses == /\ Tick
              /\ IF idle_pc_a = "tx" THEN UNCHANGED radioVars ELSE Fade

(* lora_task, ~is_rx, of node a *)
SendA == /\ A!StartTransmitting /\ UNCHANGED vars_b
         /\ Transmit
         /\ air' = IF idle_pc_a' = "tx" THEN {Serialize(local')} ELSE air

SentA == A!TransmitDone /\ UNCHANGED vars_b /\ Fade

(* poll_irq, read_packet and deserialize of node b: a heartbeat goes to the display. *)
HearB == /\ B!ReceiveFrame /\ UNCHANGED vars_a
         /\ Receive
         /\ \A packet \in air :
              idle_pc_b' = "display" <=> ReadPacket(packet).head /\ Accepts(ReadPacket(packet))

(* While b listens, one thing may happen to a packet, or one of another program
   come in. *)
DisturbB == /\ idle_pc_b = "rx" /\ air \subseteq {Serialize(local)}
            /\ Disturb /\ UNCHANGED vars

RestOfA == /\ StepA /\ ~A!StartTransmitting /\ ~A!TransmitDone /\ UNCHANGED radioVars
RestOfB == /\ StepB /\ ~B!ReceiveFrame /\ UNCHANGED radioVars

AirNext == \/ SendA \/ SentA \/ RestOfA
           \/ ~halted /\ (TimePasses \/ HearB \/ DisturbB \/ RestOfB)

AirSpec == AirInit /\ [][AirNext]_airVars
=============================================================================
