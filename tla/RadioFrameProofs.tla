-------------------------- MODULE RadioFrameProofs --------------------------
(***************************************************************************)
(* For every number of heartbeats, every strength of signal and every size *)
(* of the buffer: a frame that arrives as it was sent is accepted and gives *)
(* back its heartbeat, one padded to the buffer never is, and no heartbeat *)
(* is shown that was not sent.                                             *)
(***************************************************************************)
EXTENDS RadioFrame, SequenceTheorems, TLAPS

AllHeartBeats == [uptime : Nat, remote_rssi : Int]

(* The CRC a packet carries is that of a frame that was sent, of a packet of
   another program, or none. *)
Packets == [head : BOOLEAN, crc : Seq(Int), body : Seq(Int)]
AirPart ==
  \A p \in air :
    /\ p \in Packets /\ Len(p.body) <= FrameLen
    /\ p.crc \in {<<>>, <<1>>, OtherFrame} \union {Frame(hb) : hb \in sent}

IInv == TypeOK /\ AirPart /\ HeartbeatsGenuine

LEMMA FrameType ==
  ASSUME NEW hb \in AllHeartBeats
  PROVE  /\ Frame(hb) \in Seq(Int) /\ Len(Frame(hb)) = FrameLen
         /\ Frame(hb)[1] = MAGIC /\ Frame(hb)[4] = HEART_BEAT
         /\ Frame(hb)[5] = hb.uptime /\ Frame(hb)[6] = hb.remote_rssi
BY DEF AllHeartBeats, Frame, FrameLen, MAGIC, HEART_BEAT

LEMMA Lengths == FrameLen = 6 /\ FrameLen \in Nat /\ BufLen \in Nat /\ BufLen > 6
BY RadioAssumption DEF FrameLen

LEMMA HeartBeatType == HeartBeats \subseteq AllHeartBeats
<1>1. 0 .. MaxUptime \subseteq Nat
  BY RadioAssumption
<1>2. Rssis \union {0, NO_RSSI} \subseteq Int
  BY RadioAssumption DEF NO_RSSI
<1>3. QED
  BY <1>1, <1>2 DEF HeartBeats, AllHeartBeats

LEMMA PacketType ==
  /\ \A crc, body \in Seq(Int) :
       /\ Packet(crc, body) \in Packets
       /\ Packet(crc, body).crc = crc /\ Packet(crc, body).body = body
  /\ Runt \in Packets /\ Runt.crc = <<>> /\ Runt.body = <<>>
BY DEF Packet, Runt, Packets

LEMMA OtherType ==
  /\ OtherFrame \in Seq(Int) /\ Len(OtherFrame) = FrameLen /\ OtherFrame[1] # MAGIC
  /\ <<1>> \in Seq(Int) /\ Len(<<1>>) = 1
  /\ <<>> \in Seq(Int) /\ Len(<<>>) = 0
<1>1. NoHeartBeat \in AllHeartBeats
  BY DEF NoHeartBeat, AllHeartBeats
<1>2. Frame(NoHeartBeat) \in Seq(Int) /\ Len(Frame(NoHeartBeat)) = FrameLen
  BY <1>1, FrameType
<1>3. OtherFrame \in Seq(Int) /\ Len(OtherFrame) = FrameLen /\ OtherFrame[1] = 0
  BY <1>2 DEF OtherFrame, FrameLen
<1>4. QED
  BY <1>3 DEF MAGIC

(* A body that the driver has padded fills the buffer. *)
LEMMA PaddedLength ==
  ASSUME NEW body \in Seq(Int), Len(body) <= FrameLen
  PROVE  Padded(body) \in Seq(Int) /\ Len(Padded(body)) = BufLen
<1> DEFINE zeros == [k \in 1 .. BufLen - Len(body) |-> 0]
<1>1. BufLen - Len(body) \in Nat
  BY RadioAssumption DEF FrameLen
<1>2. zeros \in Seq(Int) /\ Len(zeros) = BufLen - Len(body)
  BY <1>1
<1>3. Padded(body) = body \o zeros
  BY DEF Padded
<1>4. QED
  BY <1>1, <1>2, <1>3, RadioAssumption

(* serialize, then deserialize over as many bytes: the heartbeat comes back. *)
THEOREM RoundTrip ==
  \A hb \in AllHeartBeats : Accepts(Serialize(hb)) /\ HeartBeat(Serialize(hb)) = hb
<1>1. TAKE hb \in AllHeartBeats
<1>2. Serialize(hb).crc = Frame(hb) /\ Serialize(hb).body = Frame(hb)
  BY DEF Serialize, Packet, Crc
<1>3. HeartBeat(Serialize(hb)) = hb
  BY <1>2, FrameType DEF HeartBeat, AllHeartBeats
<1>4. QED
  BY <1>2, <1>3, FrameType DEF Accepts, Parses, Crc, FrameLen

(* The same over the whole buffer: the CRC does not agree. *)
THEOREM PaddedRejected ==
  \A hb \in AllHeartBeats :
    ~Accepts(Packet(Serialize(hb).crc, Padded(Serialize(hb).body)))
<1>1. TAKE hb \in AllHeartBeats
<1>2. Serialize(hb).crc = Frame(hb) /\ Serialize(hb).body = Frame(hb)
  BY DEF Serialize, Packet, Crc
<1>3. Len(Padded(Frame(hb))) = BufLen /\ Len(Frame(hb)) = FrameLen
  <2>1. Frame(hb) \in Seq(Int) /\ Len(Frame(hb)) = FrameLen
    BY FrameType
  <2>2. Len(Frame(hb)) <= FrameLen
    BY <2>1, Lengths
  <2>3. QED
    BY <2>1, <2>2, PaddedLength
<1>4. Padded(Frame(hb)) # Frame(hb)
  <2>1. Len(Padded(Frame(hb))) # Len(Frame(hb))
    BY <1>3, Lengths
  <2>2. QED
    BY <2>1
<1>5. QED
  BY <1>2, <1>4 DEF Accepts, Packet, Crc

-----------------------------------------------------------------------------
(* What is accepted was sent. *)
LEMMA AcceptedWasSent ==
  ASSUME IInv, NEW p \in air, ReadPacket(p).head, Accepts(ReadPacket(p))
  PROVE  HeartBeat(ReadPacket(p)) \in sent /\ driver = "exact"
<1> DEFINE q == ReadPacket(p)
<1>1. p \in Packets /\ Len(p.body) <= FrameLen /\ driver \in {"exact", "whole"}
      /\ p.crc \in {<<>>, <<1>>, OtherFrame} \union {Frame(hb) : hb \in sent}
      /\ sent \subseteq AllHeartBeats
  BY HeartBeatType DEF IInv, AirPart, TypeOK
<1>2. q.crc = p.crc
  BY DEF ReadPacket, Packet
<1>3. q.crc = q.body /\ Len(q.body) >= FrameLen /\ q.body[1] = MAGIC
  BY DEF Accepts, Parses, Crc
<1>4. q.body \notin {<<>>, <<1>>, OtherFrame}
  <2>1. Len(q.body) # 0 /\ Len(q.body) # 1
    <3>1. 0 # 6 /\ ~(0 >= 6) /\ ~(1 >= 6)
      OBVIOUS
    <3>2. QED
      BY <3>1, <1>3, Lengths
  <2>2. q.body # <<>> /\ q.body # <<1>>
    BY <2>1, OtherType
  <2>3. q.body # OtherFrame
    BY <1>3, OtherType
  <2>4. QED
    BY <2>2, <2>3
<1>5. PICK hb \in sent : q.body = Frame(hb)
  BY <1>1, <1>2, <1>3, <1>4
<1>6. Len(q.body) = FrameLen /\ q.body[5] = hb.uptime /\ q.body[6] = hb.remote_rssi
      /\ hb \in AllHeartBeats
  BY <1>1, <1>5, FrameType
<1>7. HeartBeat(q) = hb
  BY <1>6 DEF HeartBeat, AllHeartBeats
<1>8. driver # "whole"
  <2>1. p.body \in Seq(Int)
    BY <1>1 DEF Packets
  <2>2. driver = "whole" => q.body = Padded(p.body)
    BY DEF ReadPacket, Packet
  <2>3. QED
    <3>1. Len(Padded(p.body)) = BufLen
      BY <1>1, <2>1, PaddedLength
    <3>2. BufLen # FrameLen
      BY Lengths
    <3>3. QED
      BY <1>6, <2>2, <3>1, <3>2
<1>9. QED
  BY <1>1, <1>5, <1>7, <1>8

LEMMA InitInv == RadioInit => IInv
<1>1. NoHeartBeat \in HeartBeats
  BY RadioAssumption DEF NoHeartBeat, HeartBeats
<1>2. QED
  BY <1>1 DEF RadioInit, IInv, TypeOK, AirPart, HeartbeatsGenuine

LEMMA TransmitInv == IInv /\ Transmit => IInv'
<1>1. SUFFICES ASSUME IInv, Transmit PROVE IInv'
  OBVIOUS
<1>2. local' \in HeartBeats
  BY <1>1, RadioAssumption DEF IInv, TypeOK, Transmit, HeartBeats
<1>3. sent \subseteq sent' /\ sent' \subseteq HeartBeats
      /\ (air' = air \/ (air' = {Serialize(local')} /\ local' \in sent'))
  BY <1>1, <1>2 DEF IInv, TypeOK, Transmit
<1>4. UNCHANGED <<driver, remote, halted>>
  BY <1>1 DEF Transmit
<1>5. /\ Serialize(local') \in Packets /\ Len(Serialize(local').body) <= FrameLen
      /\ Serialize(local').crc = Frame(local')
  <2>1. Frame(local') \in Seq(Int) /\ Len(Frame(local')) = FrameLen
    BY <1>2, HeartBeatType, FrameType
  <2>2. Serialize(local') = Packet(Frame(local'), Frame(local'))
    BY DEF Serialize, Crc
  <2>3. Serialize(local') \in Packets /\ Serialize(local').crc = Frame(local')
        /\ Serialize(local').body = Frame(local')
    BY <2>1, <2>2, PacketType
  <2>4. QED
    <3>1. Len(Serialize(local').body) = FrameLen
      BY <2>1, <2>3
    <3>2. FrameLen <= FrameLen
      BY Lengths
    <3>3. QED
      BY <2>3, <3>1, <3>2
<1>6. TypeOK'
  BY <1>1, <1>2, <1>3, <1>4 DEF IInv, TypeOK
<1>7. AirPart'
  <2>1. CASE air' = air
    BY <1>1, <1>3, <2>1 DEF IInv, AirPart
  <2>2. CASE air' = {Serialize(local')} /\ local' \in sent'
    BY <1>5, <2>2 DEF AirPart
  <2>3. QED
    BY <1>3, <2>1, <2>2
<1>8. HeartbeatsGenuine'
  BY <1>1, <1>3, <1>4 DEF IInv, HeartbeatsGenuine
<1>9. QED
  BY <1>6, <1>7, <1>8 DEF IInv

LEMMA ReceiveInv == IInv /\ Receive => IInv'
<1>1. SUFFICES ASSUME IInv, Receive PROVE IInv'
  OBVIOUS
<1>2. PICK p \in air :
        /\ halted' = ~ReadPacket(p).head
        /\ remote' = IF ReadPacket(p).head /\ Accepts(ReadPacket(p))
                     THEN HeartBeat(ReadPacket(p)) ELSE remote
  BY <1>1 DEF Receive
<1>3. air' = {} /\ UNCHANGED <<driver, local, sent>>
  BY <1>1 DEF Receive
<1>4. remote' = remote \/ (remote' \in sent /\ driver = "exact")
  BY <1>1, <1>2, AcceptedWasSent
<1>5. halted' \in BOOLEAN
  BY <1>2
<1>6. TypeOK' /\ HeartbeatsGenuine'
  BY <1>1, <1>3, <1>4, <1>5 DEF IInv, TypeOK, HeartbeatsGenuine
<1>7. QED
  BY <1>3, <1>6 DEF IInv, AirPart

LEMMA DisturbInv == IInv /\ Disturb => IInv'
<1>1. SUFFICES ASSUME IInv, Disturb PROVE IInv'
  OBVIOUS
<1>2. UNCHANGED <<driver, local, remote, halted, sent>>
  BY <1>1 DEF Disturb
<1>3. PICK p : air' = {p} /\ (p \in Foreign \/ \E q \in air : p \in Altered(q))
  BY <1>1 DEF Disturb
<1>4. /\ p \in Packets /\ Len(p.body) <= FrameLen
      /\ p.crc \in {<<>>, <<1>>, OtherFrame} \union {Frame(hb) : hb \in sent}
  <2>1. CASE p \in Foreign
    <3>1. p \in {Runt, Packet(<<1>>, <<1>>), Packet(OtherFrame, OtherFrame)}
      BY <2>1 DEF Foreign, Crc
    <3>2. p \in Packets /\ p.body \in {<<>>, <<1>>, OtherFrame} /\ p.crc = p.body
      <4>1. CASE p = Runt
        BY <4>1, PacketType
      <4>2. CASE p = Packet(<<1>>, <<1>>)
        <5>1. <<1>> \in Seq(Int)
          BY OtherType
        <5>2. p \in Packets /\ p.crc = <<1>> /\ p.body = <<1>>
          BY <4>2, <5>1, PacketType
        <5>3. QED
          BY <5>2
      <4>3. CASE p = Packet(OtherFrame, OtherFrame)
        BY <4>3, OtherType, PacketType
      <4>4. QED
        BY <3>1, <4>1, <4>2, <4>3
    <3>3. Len(p.body) <= FrameLen
      <4>1. Len(<<>>) <= FrameLen /\ Len(<<1>>) <= FrameLen /\ Len(OtherFrame) <= FrameLen
        BY OtherType, Lengths
      <4>2. QED
        BY <3>2, <4>1
    <3>4. QED
      BY <3>2, <3>3
  <2>2. ASSUME NEW q \in air, p \in Altered(q)
        PROVE  /\ p \in Packets /\ Len(p.body) <= FrameLen
               /\ p.crc \in {<<>>, <<1>>, OtherFrame} \union {Frame(hb) : hb \in sent}
    <3>1. /\ q \in Packets /\ Len(q.body) <= FrameLen
          /\ q.crc \in {<<>>, <<1>>, OtherFrame} \union {Frame(hb) : hb \in sent}
      BY <1>1 DEF IInv, AirPart
    <3>2. CASE p = [q EXCEPT !.crc = <<>>]
      BY <3>1, <3>2, OtherType DEF Packets
    <3>3. ASSUME NEW k \in DOMAIN q.body, NEW v \in {-1, 0, MAGIC}, p = [q EXCEPT !.body[k] = v]
          PROVE  p \in Packets /\ Len(p.body) = Len(q.body) /\ p.crc = q.crc
      <4>1. v \in Int
        BY DEF MAGIC
      <4>2. q.body \in Seq(Int) /\ q.crc \in Seq(Int) /\ q.head \in BOOLEAN
        BY <3>1 DEF Packets
      <4>3. p = [q EXCEPT !.body = [q.body EXCEPT ![k] = v]]
        BY <3>1, <3>3 DEF Packets
      <4>4. [q.body EXCEPT ![k] = v] \in Seq(Int) /\ Len([q.body EXCEPT ![k] = v]) = Len(q.body)
        BY <4>1, <4>2
      <4>5. QED
        BY <3>1, <4>2, <4>3, <4>4 DEF Packets
    <3>4. QED
      BY <2>2, <3>1, <3>2, <3>3 DEF Altered
  <2>3. QED
    BY <1>3, <2>1, <2>2
<1>5. QED
  BY <1>1, <1>2, <1>3, <1>4 DEF IInv, TypeOK, AirPart, HeartbeatsGenuine

LEMMA FadeInv == IInv /\ Fade => IInv'
BY DEF Fade, IInv, TypeOK, AirPart, HeartbeatsGenuine

(* The receiver shows only what was sent, and that only when the driver tells the
   length of a packet. *)
THEOREM GenuineThm == RadioSpec => []HeartbeatsGenuine
<1>1. IInv /\ [RadioNext]_radioVars => IInv'
  <2>1. IInv /\ UNCHANGED radioVars => IInv'
    BY DEF IInv, TypeOK, AirPart, HeartbeatsGenuine, radioVars
  <2>2. QED
    BY <2>1, TransmitInv, ReceiveInv, DisturbInv, FadeInv DEF RadioNext
<1>2. IInv => HeartbeatsGenuine
  BY DEF IInv
<1>3. QED
  BY <1>1, <1>2, InitInv, PTL DEF RadioSpec
=============================================================================
