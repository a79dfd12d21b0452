------------------------------ MODULE RadioFrame ------------------------------
(***************************************************************************)
(* The heartbeats of can_gps_lora, from one node's lora_task to another's: *)
(* counted, framed, sent, altered or mixed with foreign packets on the     *)
(* air, read by the driver, checked and shown.                             *)
(*                                                                         *)
(* postcard 0.7 gives every field of a frame its fixed bytes, in order,    *)
(* and ignores what follows them: a field is one cell here.  The CRC is    *)
(* the sequence it digests, which says that no two of the sequences that   *)
(* occur have the same one.  sx127x_lora is external, and not in the       *)
(* repository: "exact" returns the bytes of the packet, "whole" the whole  *)
(* buffer, as the comment at lora.rs:28 has it.                            *)
(***************************************************************************)
EXTENDS Integers, Sequences

CONSTANTS MaxUptime,   \* where uptime wraps (2^32 - 1)
          BufLen,      \* cells of the driver's buffer behind the CRC
          Rssis        \* what get_packet_rssi may say

MAGIC == 42
HEART_BEAT == 0        \* FrameType's only variant
NO_RSSI == -777
FrameLen == 6

ASSUME RadioAssumption ==
  /\ MaxUptime \in Nat
  /\ BufLen \in Nat /\ BufLen > FrameLen    \* 255 bytes hold a frame of 21 and more
  /\ Rssis \subseteq Int

HeartBeats == [uptime : 0 .. MaxUptime, remote_rssi : Rssis \union {0, NO_RSSI}]

VARIABLES
  driver,     \* which of the two the driver is
  local,      \* the sender's local_heartbeat
  air,        \* the packet on the air, if any
  remote,     \* the receiver's remote_heartbeat
  halted,     \* the receiver has panicked
  sent        \* history: the heartbeats transmitted

radioVars == <<driver, local, air, remote, halted, sent>>

-----------------------------------------------------------------------------
(* A packet: has it the four bytes of a CRC at all, the CRC, the rest. *)

Packet(crc, body) == [head |-> TRUE, crc |-> crc, body |-> body]
Runt == [head |-> FALSE, crc |-> <<>>, body |-> <<>>]

Crc(body) == body

(* RadioFrame::new, with the node ids every node uses. *)
Frame(hb) == <<MAGIC, 10, 110, HEART_BEAT, hb.uptime, hb.remote_rssi>>

Serialize(hb) == Packet(Crc(Frame(hb)), Frame(hb))

(* read_packet: the buffer was zeroed. *)
Padded(body) == body \o [k \in 1 .. BufLen - Len(body) |-> 0]
ReadPacket(p) == IF driver = "whole" THEN Packet(p.crc, Padded(p.body)) ELSE p

(* postcard::from_bytes *)
Parses(body) == Len(body) >= FrameLen /\ body[4] = HEART_BEAT

(* Mutant: the CRC is not compared. *)
AcceptsAnyCrc(p) == Parses(p.body) /\ p.body[1] = MAGIC

(* Every error of deserialize leads to the same: the packet is dropped.  Neither
   source nor destination is looked at. *)
Accepts(p) == Parses(p.body) /\ p.crc = Crc(p.body) /\ p.body[1] = MAGIC

HeartBeat(p) == [uptime |-> p.body[5], remote_rssi |-> p.body[6]]

-----------------------------------------------------------------------------
NoHeartBeat == [uptime |-> 0, remote_rssi |-> 0]

RadioInit == /\ driver \in {"exact", "whole"}
             /\ local = NoHeartBeat /\ remote = NoHeartBeat
             /\ air = {} /\ halted = FALSE /\ sent = {}

(* lora_task, ~is_rx: a heartbeat that transmit_payload refuses is counted too. *)
Transmit ==
  /\ \E rssi \in Rssis \union {NO_RSSI} :
       local' = [uptime |-> (local.uptime + 1) % (MaxUptime + 1), remote_rssi |-> rssi]
  /\ \/ air' = {Serialize(local')} /\ sent' = sent \union {local'}
     \/ UNCHANGED <<air, sent>>
  /\ UNCHANGED <<driver, remote, halted>>

(* lora_task, is_rx: &buf[4..] of a shorter packet panics. *)
Receive ==
  /\ ~halted
  /\ \E packet \in air :
       LET p == ReadPacket(packet)
       IN  /\ halted' = ~p.head
           /\ remote' = IF p.head /\ Accepts(p) THEN HeartBeat(p) ELSE remote
  /\ air' = {}
  /\ UNCHANGED <<driver, local, sent>>

(* One field of a packet, or its CRC, arrives as something else. *)
Altered(p) == {[p EXCEPT !.body[k] = v] : k \in DOMAIN p.body, v \in {-1, 0, MAGIC}}
              \union {[p EXCEPT !.crc = <<>>]}

(* Packets of other programs: shorter than a CRC, than a frame, or with another magic. *)
OtherFrame == [Frame(NoHeartBeat) EXCEPT ![1] = 0]
Foreign == {Runt, Packet(Crc(<<1>>), <<1>>), Packet(Crc(OtherFrame), OtherFrame)}

Disturb == /\ \/ \E q \in air : \E p \in Altered(q) : air' = {p}
              \/ \E p \in Foreign : air' = {p}
           /\ UNCHANGED <<driver, local, remote, halted, sent>>

(* Nobody has received it. *)
Fade == /\ air' = {}
        /\ UNCHANGED <<driver, local, remote, halted, sent>>

RadioNext == Transmit \/ Receive \/ Disturb \/ Fade

RadioSpec == RadioInit /\ [][RadioNext]_radioVars

TypeOK == /\ driver \in {"exact", "whole"} /\ halted \in BOOLEAN
          /\ local \in HeartBeats /\ remote \in HeartBeats
          /\ sent \subseteq HeartBeats

(* The receiver shows a heartbeat only if a node has sent it as it is, and only
   if the driver says how long the packet was: over the whole buffer the CRC
   never agrees. *)
HeartbeatsGenuine ==
  remote # NoHeartBeat => remote \in sent /\ driver = "exact"
=============================================================================
