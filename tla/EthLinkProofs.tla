---------------------------- MODULE EthLinkProofs ----------------------------
(***************************************************************************)
(* The safety of EthLink, for every size of the queues and buffers and any *)
(* number of requests and connections.  The invariant has a part for each  *)
(* of: the types, the frames in eth_out with the grant link_process holds, *)
(* the order of the requests, the number of replies, the reply stream, and *)
(* what is left in the socket.                                             *)
(***************************************************************************)
EXTENDS EthLink, BBQueueProofs, WellFoundedInduction

OutItems == [kind : {"endpoint"}, n : 1 .. MaxConns]
            \union [kind : {"request"}, n : 1 .. MaxRequests]
InItems  == [kind : {"reply"}, n : 1 .. MaxReplies]

Sockets == {s \in [state : {"Closed", "Listen", "Established", "CloseWait", "LastAck"},
                   conn : 0 .. MaxConns, rx : Seq(1 .. MaxRequests),
                   at : 0 .. RxSize - 1, win : 0 .. RxSize,
                   tx : Seq(1 .. MaxReplies), sent : 0 .. TxSize,
                   fin_sent : BOOLEAN, ack_owed : BOOLEAN] :
              s.sent <= Len(s.tx) /\ Len(s.tx) <= TxSize /\ Len(s.rx) <= RxSize}

(* link_process holds its read grant. *)
Granting == link_pc \in {"dispatch", "fill", "pend", "release"}

NetOK  == /\ inbox \in Seq(Packets)
          /\ host \in 0 .. MaxConns /\ conns \in 0 .. MaxConns
          /\ requests \in 0 .. MaxRequests
EthOK  == /\ sock \in Sockets
          /\ eth_pending \in BOOLEAN /\ timer \in BOOLEAN /\ due \in BOOLEAN
          /\ eth_pc \in {"idle", "poll", "rx", "tx", "close", "poll_at"}
          /\ iteration \in 0 .. MAX_ITERATIONS - 1
LinkOK == /\ link_ready \in BOOLEAN
          /\ link_pc \in {"idle", "read", "dispatch", "fill", "pend", "release"}
          /\ rgr_len \in 0 .. OutSize /\ batch \in 0 .. MAX_REPLY_BATCHES
          /\ wgr \in 0 .. InSize \union {None}
          /\ dispatched \in 0 .. MaxRequests /\ replies \in Nat

-----------------------------------------------------------------------------
(* c is made of frames, each an endpoint and then requests, and the read grant of
   front cells ends where a frame does. *)
Frames(c, front) ==
  /\ \A k \in 1 .. Len(c) : c[k].kind \in {"endpoint", "request"}
  /\ \A k \in 1 .. Len(c) : c[k].kind = "endpoint"
                              => k < Len(c) /\ c[k + 1].kind = "request"
  /\ Len(c) > 0 => c[1].kind = "endpoint"
  /\ front < Len(c) => c[front + 1].kind = "endpoint"

(* n cells are granted, to the end of a frame, and the first event is request d. *)
Holds(q, n, d) ==
  /\ Read(q) = q /\ 2 <= n /\ n <= Len(Region(q))
  /\ Contents(q)[2] = Request(d)
  /\ n < Len(Contents(q)) => Contents(q)[n + 1].kind = "endpoint"

FramePart ==
  /\ WellFormed(eth_out, OutItems, OutSize)
  /\ Frames(Contents(eth_out), Len(Region(eth_out)))
  /\ Granting => Holds(eth_out, rgr_len, dispatched)
  /\ Granting /\ ~link_ready => rgr_len = Len(Region(eth_out))

(* The numbers of one kind in s ascend, above lo and up to hi. *)
InOrder(s, kind, lo, hi) ==
  /\ \A k \in 1 .. Len(s) : s[k].kind = kind => lo < s[k].n /\ s[k].n <= hi
  /\ \A j, k \in 1 .. Len(s) :
       j < k /\ s[j].kind = kind /\ s[k].kind = kind => s[j].n < s[k].n

Ascending(s, lo, hi) ==
  /\ \A k \in 1 .. Len(s) : lo < s[k] /\ s[k] <= hi
  /\ \A j, k \in 1 .. Len(s) : j < k => s[j] < s[k]

(* The request being dispatched is still in its frame. *)
Before == IF Granting THEN dispatched - 1 ELSE dispatched

(* What waits in eth_out is older than what the socket has received, and that than
   what the MAC has. *)
OrderPart == \E a, b \in 0 .. requests :
  /\ dispatched <= a /\ a <= b
  /\ InOrder(Contents(eth_out), "request", Before, a)
  /\ Ascending(sock.rx, a, b)
  /\ InOrder(inbox, "data", b, requests)

(* The replies of an event are within its batches, the grant that is being filled
   apart. *)
Batches      == MAX_REPLY_BATCHES * REPLY_MTU
StillAllowed == (MAX_REPLY_BATCHES - batch) * REPLY_MTU
                + (IF link_pc = "fill" THEN REPLY_MTU ELSE 0)
BudgetPart == replies + (IF Granting THEN StillAllowed ELSE 0) <= dispatched * Batches

(* The cells of c are the last of the replies committed so far. *)
Newest(c, r) == \A k \in 1 .. Len(c) : c[k] = Reply(r - Len(c) + k)
Upto(s, r)   == \A k \in 1 .. Len(s) : s[k] = r - Len(s) + k

Taken == replies - Len(Contents(eth_in))

StreamPart ==
  /\ WellFormed(eth_in, InItems, InSize)
  /\ link_pc = "fill" => wgr \in Nat /\ Granted(eth_in, wgr, REPLY_MTU)
  /\ Newest(Contents(eth_in), replies)
  /\ sock.state \in Synchronized => Upto(sock.tx, Taken)

(* What is received and not read is owed an acknowledgement, or the host a larger
   window, but when the connection is ending: then a FIN is to be sent, or listen()
   discards it.  Only what has not been acknowledged can exceed the window told. *)
Fresh(s) == s.state = "Listen" => Len(s.rx) = 0 /\ Len(s.tx) = 0
Told(s)  == s.state # "Closed" => s.ack_owed \/ s.win + Len(s.rx) <= RxSize
Owed(s)  == Len(s.rx) # 0 => \/ s.ack_owed \/ WindowToUpdate(s)
                             \/ s.state \in {"Closed", "CloseWait", "LastAck"}

(* One recv() takes it all; it is unread, and no interrupt is pending for it. *)
Unwrapped(s) == s.at + Len(s.rx) <= RxSize
LeftBehind   == Len(sock.rx) # 0 /\ ~eth_pending

AfterRx == eth_pc \in {"tx", "close", "poll_at"}

ForgetPart ==
  /\ Fresh(sock) /\ Told(sock)
  /\ eth_pc # "rx" => Owed(sock)
  /\ Len(sock.rx) # 0 /\ eth_pc \in {"idle", "poll", "poll_at"}
       => sock.state \notin {"Closed", "CloseWait"}
  /\ eth_pc = "rx" \/ AfterRx => Len(inbox) = 0
  /\ eth_pc = "poll" /\ iteration > 0 => HasToSend(sock)
  /\ eth_pc # "idle" /\ iteration > 0 /\ Len(inbox) # 0 => eth_pending
  /\ LeftBehind /\ AfterRx /\ iteration >= 1 => Unwrapped(sock)
  /\ LeftBehind /\ eth_pc \in {"poll", "rx"} /\ iteration >= 2 => Unwrapped(sock)
  /\ AfterRx /\ iteration >= 2 => ~LeftBehind
  /\ ReceivedNotForgotten

IInv == /\ NetOK /\ EthOK /\ LinkOK
        /\ FramePart /\ OrderPart /\ BudgetPart /\ StreamPart
        /\ StrandedOnlyByWrap /\ ForgetPart

-----------------------------------------------------------------------------
(* A recursive function over the packets *)

LEMMA NatSetInduction ==
  ASSUME NEW S, 0 \in S, \A n \in Nat : n \in S => n + 1 \in S
  PROVE  Nat \subseteq S
<1> DEFINE T == Nat \ S
           R == {ss \in Nat \X Nat : ss[1] < ss[2]}
<1>1. IsWellFoundedOn(R, Nat)
  BY NatLessThanWellFounded DEF OpToRel
<1>2. SUFFICES ASSUME T # {} PROVE FALSE
  OBVIOUS
<1> HIDE DEF R
<1>3. PICK x \in T : \A y \in T : ~(<<y, x>> \in R)
  BY <1>1, <1>2, WFMin
<1>4. x # 0 /\ x - 1 \in Nat
  BY <1>3
<1>5. <<x - 1, x>> \in R
  BY <1>4, <1>3 DEF R
<1>6. x - 1 \in S
  BY <1>3, <1>4, <1>5
<1>7. QED
  BY <1>3, <1>4, <1>6

(* The states of the socket after each of the first n packets. *)
Run(f, s, packets, n) ==
  f = [k \in 0 .. n |-> IF k = 0 THEN s ELSE Process(f[k - 1], packets[k])]

LEMMA RunExists ==
  ASSUME NEW s, NEW packets, NEW n \in Nat
  PROVE  \E f : Run(f, s, packets, n)
<1> DEFINE S == {m \in Nat : \E f : Run(f, s, packets, m)}
<1>1. 0 \in S
  <2>1. PICK f : f = [k \in 0 .. 0 |-> s]
    OBVIOUS
  <2>2. Run(f, s, packets, 0)
    BY <2>1 DEF Run
  <2>3. QED
    BY <2>2
<1>2. ASSUME NEW m \in Nat, m \in S
      PROVE  m + 1 \in S
  <2>1. PICK f : Run(f, s, packets, m)
    BY <1>2
  <2>2. PICK g : g = [k \in 0 .. m + 1 |->
                        IF k <= m THEN f[k] ELSE Process(f[m], packets[m + 1])]
    OBVIOUS
  <2>3. \A k \in 0 .. m : f[k] = IF k = 0 THEN s ELSE Process(f[k - 1], packets[k])
    BY <2>1 DEF Run
  <2>4. ASSUME NEW k \in 0 .. m + 1
        PROVE  (IF k <= m THEN f[k] ELSE Process(f[m], packets[m + 1]))
                 = IF k = 0 THEN s ELSE Process(g[k - 1], packets[k])
    <3>1. CASE k = 0
      BY <2>3, <3>1
    <3>2. CASE k # 0 /\ k <= m
      <4>1. k - 1 \in 0 .. m + 1 /\ k - 1 <= m /\ k \in 0 .. m
        BY <3>2
      <4>2. g[k - 1] = f[k - 1]
        BY <4>1, <2>2
      <4>3. QED
        BY <3>2, <4>1, <4>2, <2>3
    <3>3. CASE k = m + 1
      <4>1. g[m] = f[m]
        BY <2>2
      <4>2. QED
        BY <3>3, <4>1
    <3>4. QED
      BY <3>1, <3>2, <3>3
  <2>5. g = [k \in 0 .. m + 1 |-> IF k = 0 THEN s ELSE Process(g[k - 1], packets[k])]
    BY <2>2, <2>4
  <2>6. QED
    BY <2>5 DEF Run
<1> HIDE DEF S
<1>3. Nat \subseteq S
  BY <1>1, <1>2, NatSetInduction
<1>4. QED
  BY <1>3 DEF S

(* What holds at first, and is kept by each packet, holds when all are processed. *)
LEMMA ProcessRule ==
  ASSUME NEW s, NEW packets, Len(packets) \in Nat, NEW G, s \in G[0],
         \A k \in 1 .. Len(packets) : \A t \in G[k - 1] : Process(t, packets[k]) \in G[k]
  PROVE  ProcessAll(s, packets) \in G[Len(packets)]
<1> DEFINE f == CHOOSE g : Run(g, s, packets, Len(packets))
           S == {m \in Nat : m <= Len(packets) => f[m] \in G[m]}
<1>1. Run(f, s, packets, Len(packets))
  BY RunExists
<1>2. ProcessAll(s, packets) = f[Len(packets)]
  BY DEF ProcessAll, Run
<1> HIDE DEF f
<1>3. \A k \in 0 .. Len(packets) :
        f[k] = IF k = 0 THEN s ELSE Process(f[k - 1], packets[k])
  BY <1>1 DEF Run
<1>4. 0 \in S
  BY <1>3
<1>5. ASSUME NEW m \in Nat, m \in S PROVE m + 1 \in S
  <2>1. SUFFICES ASSUME m + 1 <= Len(packets) PROVE f[m + 1] \in G[m + 1]
    OBVIOUS
  <2>2. f[m] \in G[m] /\ m + 1 \in 1 .. Len(packets) /\ (m + 1) - 1 = m
    BY <1>5, <2>1
  <2>3. f[m + 1] = Process(f[m], packets[m + 1])
    BY <1>3, <2>2
  <2>4. QED
    BY <2>2, <2>3
<1> HIDE DEF S
<1>6. Nat \subseteq S
  BY <1>4, <1>5, NatSetInduction
<1>7. QED
  BY <1>2, <1>6 DEF S

-----------------------------------------------------------------------------
(* What one packet does to the socket *)

LEMMA SocketFields ==
  ASSUME NEW s
  PROVE  s \in Sockets <=>
           /\ s = [state |-> s.state, conn |-> s.conn, rx |-> s.rx,
                   at |-> s.at, win |-> s.win, tx |-> s.tx,
                   sent |-> s.sent, fin_sent |-> s.fin_sent, ack_owed |-> s.ack_owed]
           /\ s.state \in {"Closed", "Listen", "Established", "CloseWait", "LastAck"}
           /\ s.conn \in 0 .. MaxConns /\ s.rx \in Seq(1 .. MaxRequests)
           /\ s.at \in 0 .. RxSize - 1 /\ s.win \in 0 .. RxSize
           /\ s.tx \in Seq(1 .. MaxReplies) /\ s.sent \in 0 .. TxSize
           /\ s.fin_sent \in BOOLEAN /\ s.ack_owed \in BOOLEAN
           /\ s.sent <= Len(s.tx) /\ Len(s.tx) <= TxSize /\ Len(s.rx) <= RxSize
BY DEF Sockets

LEMMA Sizes ==
  /\ MAX_ITERATIONS \in Nat /\ MAX_ITERATIONS >= 3
  /\ MAX_REPLY_BATCHES \in Nat \ {0} /\ REPLY_MTU \in Nat \ {0}
  /\ OutSize \in Nat \ {0} /\ InSize \in Nat \ {0}
  /\ RxSize \in Nat \ {0} /\ TxSize \in Nat \ {0}
  /\ MaxRequests \in Nat /\ MaxConns \in Nat /\ MaxReplies \in Nat
BY LinkAssumption DEF MaxReplies

LEMMA SocketSizes ==
  ASSUME NEW s \in Sockets
  PROVE  /\ s.rx \in Seq(1 .. MaxRequests) /\ Len(s.rx) \in Nat /\ Len(s.rx) <= RxSize
         /\ s.tx \in Seq(1 .. MaxReplies) /\ Len(s.tx) \in Nat /\ Len(s.tx) <= TxSize
         /\ s.at \in Nat /\ s.at < RxSize /\ RxSize \in 0 .. RxSize
         /\ s.at \in 0 .. RxSize - 1 /\ RxSize \in Nat \ {0}
         /\ s.sent \in Nat /\ s.sent <= Len(s.tx)
         /\ s.conn \in 0 .. MaxConns
<1>1. /\ s.rx \in Seq(1 .. MaxRequests) /\ s.tx \in Seq(1 .. MaxReplies)
      /\ s.at \in 0 .. RxSize - 1 /\ s.sent \in 0 .. TxSize /\ s.conn \in 0 .. MaxConns
      /\ s.sent <= Len(s.tx) /\ Len(s.tx) <= TxSize /\ Len(s.rx) <= RxSize
  BY SocketFields
<1>2. RxSize \in Nat \ {0} /\ TxSize \in Nat
  BY Sizes
<1>3. Len(s.rx) \in Nat /\ Len(s.tx) \in Nat
  BY <1>1
<1>4. QED
  BY <1>1, <1>2, <1>3

Opened(s, r)  == /\ s.state = "Listen" /\ r.state = "Established"
                 /\ r.rx = s.rx /\ r.tx = s.tx
Got(s, n, r)  == /\ s.state = "Established" /\ r.state = "Established"
                 /\ r.rx = Append(s.rx, n) /\ r.tx = s.tx /\ r.ack_owed
Ending(s, r)  == /\ s.state = "Established" /\ r.state = "CloseWait"
                 /\ r.rx = s.rx /\ r.tx = s.tx /\ r.ack_owed
Acked(s, r)   == /\ s.state \in Synchronized /\ r.state = s.state
                 /\ r.rx = s.rx /\ r.win = s.win /\ r.ack_owed = s.ack_owed
                 /\ r.tx = SubSeq(s.tx, s.sent + 1, Len(s.tx))
Ended(s, r)   == r.state = "Closed" /\ r.rx = s.rx

LEMMA DroppedIs ==
  ASSUME NEW s \in Sockets
  PROVE  Dropped(s) \in Sockets /\ Ended(s, Dropped(s))
<1>1. PICK r : r = Dropped(s)
  OBVIOUS
<1>2. PICK x, i, m, y : x = s.rx /\ i = s.at /\ m = RxSize /\ y = s.tx
  OBVIOUS
<1>3. r = [state |-> "Closed", conn |-> 0, rx |-> x, at |-> i, win |-> m,
           tx |-> y, sent |-> 0, fin_sent |-> FALSE, ack_owed |-> FALSE]
  BY <1>1, <1>2 DEF Dropped, ClosedSocket
<1>4. /\ r.state = "Closed" /\ r.conn = 0 /\ r.rx = x /\ r.at = i /\ r.win = m
      /\ r.tx = y
      /\ r.sent = 0 /\ r.fin_sent = FALSE /\ r.ack_owed = FALSE
  BY <1>3
<1>5. /\ x \in Seq(1 .. MaxRequests) /\ y \in Seq(1 .. MaxReplies)
      /\ Len(y) <= TxSize /\ Len(y) \in Nat /\ Len(x) <= RxSize
      /\ i \in 0 .. RxSize - 1 /\ m \in 0 .. RxSize
  BY <1>2, SocketSizes
<1>6. r \in Sockets
  <2>1. 0 \in 0 .. MaxConns /\ 0 \in 0 .. TxSize /\ 0 <= Len(y)
    BY <1>5, Sizes
  <2>2. r = [state |-> r.state, conn |-> r.conn, rx |-> r.rx,
             at |-> r.at, win |-> r.win, tx |-> r.tx,
             sent |-> r.sent, fin_sent |-> r.fin_sent, ack_owed |-> r.ack_owed]
    BY <1>3, <1>4
  <2>3. QED
    BY <1>4, <1>5, <2>1, <2>2, SocketFields
<1>7. QED
  BY <1>1, <1>2, <1>4, <1>6 DEF Ended

LEMMA ProcessIs ==
  ASSUME NEW s \in Sockets, NEW p \in Packets
  PROVE  /\ Process(s, p) \in Sockets
         /\ \/ Opened(s, Process(s, p))
            \/ p.kind = "data" /\ Got(s, p.n, Process(s, p))
            \/ Ending(s, Process(s, p))
            \/ Acked(s, Process(s, p))
            \/ Ended(s, Process(s, p))
            \/ Process(s, p) = s
<1>0. PICK r : r = Process(s, p)
  OBVIOUS
<1>1. PICK st, c, x, i, m, y, z, u, v :
        /\ s = [state |-> st, conn |-> c, rx |-> x, at |-> i, win |-> m,
                tx |-> y, sent |-> z, fin_sent |-> u, ack_owed |-> v]
        /\ s.state = st /\ s.conn = c /\ s.rx = x /\ s.tx = y
        /\ s.at = i /\ s.win = m
        /\ s.sent = z /\ s.fin_sent = u /\ s.ack_owed = v
  BY SocketFields
<1>2. /\ st \in {"Closed", "Listen", "Established", "CloseWait", "LastAck"}
      /\ c \in 0 .. MaxConns /\ x \in Seq(1 .. MaxRequests) /\ y \in Seq(1 .. MaxReplies)
      /\ z \in 0 .. TxSize /\ u \in BOOLEAN /\ v \in BOOLEAN
      /\ i \in 0 .. RxSize - 1 /\ m \in 0 .. RxSize
      /\ z <= Len(y) /\ Len(y) <= TxSize /\ Len(x) <= RxSize
  BY <1>1, SocketFields
<1>3. /\ p.kind = "syn" => p.n \in 1 .. MaxConns
      /\ p.kind = "data" => p.n \in 1 .. MaxRequests
  BY DEF Packets
<1>4. CASE p.kind = "syn" /\ st = "Listen"
  <2>1. r = [state |-> "Established", conn |-> p.n, rx |-> x, at |-> i, win |-> m,
             tx |-> y, sent |-> z, fin_sent |-> u, ack_owed |-> v]
    BY <1>0, <1>1, <1>4 DEF Process
  <2>2. /\ r.state = "Established" /\ r.conn = p.n /\ r.rx = x /\ r.tx = y
        /\ r.at = i /\ r.win = m /\ r.sent = z /\ r.fin_sent = u /\ r.ack_owed = v
    BY <2>1
  <2>3. r \in Sockets
    <3>1. p.n \in 0 .. MaxConns
      BY <1>3, <1>4, Sizes
    <3>2. r = [state |-> r.state, conn |-> r.conn, rx |-> r.rx,
               at |-> r.at, win |-> r.win, tx |-> r.tx,
               sent |-> r.sent, fin_sent |-> r.fin_sent, ack_owed |-> r.ack_owed]
      BY <2>1, <2>2
    <3>3. QED
      BY <1>2, <2>2, <3>1, <3>2, SocketFields
  <2>4. Opened(s, r)
    BY <1>1, <1>4, <2>2 DEF Opened
  <2>5. QED
    BY <1>0, <2>3, <2>4
<1>5. CASE p.kind = "data" /\ st = "Established" /\ Len(x) < RxSize
  <2>1. PICK x2 : x2 = Append(x, p.n)
    OBVIOUS
  <2>2. r = [state |-> st, conn |-> c, rx |-> x2, at |-> i, win |-> m,
             tx |-> y, sent |-> z, fin_sent |-> u, ack_owed |-> TRUE]
    BY <1>0, <1>1, <1>5, <2>1 DEF Process
  <2>3. /\ r.state = st /\ r.conn = c /\ r.rx = x2 /\ r.tx = y
        /\ r.at = i /\ r.win = m /\ r.sent = z /\ r.fin_sent = u /\ r.ack_owed = TRUE
    BY <2>2
  <2>4. x2 \in Seq(1 .. MaxRequests) /\ Len(x2) <= RxSize
    BY <1>2, <1>3, <1>5, <2>1, Sizes
  <2>5. r \in Sockets
    BY <1>2, <2>2, <2>3, <2>4, SocketFields
  <2>6. Got(s, p.n, r)
    BY <1>1, <1>5, <2>1, <2>3 DEF Got
  <2>7. QED
    BY <1>0, <1>5, <2>5, <2>6
<1>6. CASE p.kind = "fin" /\ st = "Established"
  <2>1. r = [state |-> "CloseWait", conn |-> c, rx |-> x, at |-> i, win |-> m,
             tx |-> y, sent |-> z, fin_sent |-> u, ack_owed |-> TRUE]
    BY <1>0, <1>1, <1>6 DEF Process
  <2>2. /\ r.state = "CloseWait" /\ r.conn = c /\ r.rx = x /\ r.tx = y
        /\ r.at = i /\ r.win = m /\ r.sent = z /\ r.fin_sent = u /\ r.ack_owed = TRUE
    BY <2>1
  <2>3. r \in Sockets
    BY <1>2, <2>1, <2>2, SocketFields
  <2>4. Ending(s, r)
    BY <1>1, <1>6, <2>2 DEF Ending
  <2>5. QED
    BY <1>0, <2>3, <2>4
<1>7. CASE p.kind = "ack" /\ st \in Synchronized /\ ~u
  <2>1. PICK y2 : y2 = SubSeq(y, z + 1, Len(y))
    OBVIOUS
  <2>2. r = [state |-> st, conn |-> c, rx |-> x, at |-> i, win |-> m,
             tx |-> y2, sent |-> 0, fin_sent |-> u, ack_owed |-> v]
    BY <1>0, <1>1, <1>7, <2>1 DEF Process
  <2>3. /\ r.state = st /\ r.conn = c /\ r.rx = x /\ r.tx = y2
        /\ r.at = i /\ r.win = m /\ r.sent = 0 /\ r.fin_sent = u /\ r.ack_owed = v
    BY <2>2
  <2>4. y2 \in Seq(1 .. MaxReplies) /\ Len(y2) <= TxSize /\ Len(y2) \in Nat
    BY <1>2, <2>1, Sizes
  <2>5. r \in Sockets
    <3>1. 0 \in 0 .. TxSize /\ 0 <= Len(y2)
      BY <2>4, Sizes
    <3>2. r = [state |-> r.state, conn |-> r.conn, rx |-> r.rx,
               at |-> r.at, win |-> r.win, tx |-> r.tx,
               sent |-> r.sent, fin_sent |-> r.fin_sent, ack_owed |-> r.ack_owed]
      BY <2>2, <2>3
    <3>3. QED
      BY <1>2, <2>3, <2>4, <3>1, <3>2, SocketFields
  <2>6. Acked(s, r)
    BY <1>1, <1>7, <2>1, <2>3 DEF Acked
  <2>7. QED
    BY <1>0, <2>5, <2>6
<1>8. CASE p.kind = "ack" /\ u
  <2>1. r = Dropped(s)
    BY <1>0, <1>1, <1>8 DEF Process
  <2>2. QED
    BY <1>0, <2>1, DroppedIs
<1>9. CASE p.kind = "rst" /\ st \in Synchronized
  <2>1. r = Dropped(s)
    BY <1>0, <1>1, <1>9 DEF Process
  <2>2. QED
    BY <1>0, <2>1, DroppedIs
<1>10. CASE /\ ~(p.kind = "syn" /\ st = "Listen")
            /\ ~(p.kind = "data" /\ st = "Established" /\ Len(x) < RxSize)
            /\ ~(p.kind = "fin" /\ st = "Established") /\ ~(p.kind = "ack" /\ u)
            /\ ~(p.kind = "ack" /\ st \in Synchronized /\ ~u)
            /\ ~(p.kind = "rst" /\ st \in Synchronized)
  <2>1. r = s
    BY <1>0, <1>1, <1>10 DEF Process
  <2>2. QED
    BY <1>0, <2>1
<1>11. QED
  BY <1>4, <1>5, <1>6, <1>7, <1>8, <1>9, <1>10

(* ...and the packets of the inbox, one after the other: t is the socket after k of
   them. *)
Intake(t, k, a) ==
  /\ t \in Sockets /\ Fresh(t) /\ Told(t) /\ Owed(t)
  /\ Ascending(t.rx, a, requests)
  /\ \A j \in 1 .. Len(t.rx), i \in k + 1 .. Len(inbox) :
       inbox[i].kind = "data" => t.rx[j] < inbox[i].n
  /\ t.state \in Synchronized => Upto(t.tx, Taken)

LEMMA UptoSuffix ==
  ASSUME NEW s \in Seq(Nat), NEW r \in Int, Upto(s, r), NEW z \in Nat, z <= Len(s)
  PROVE  Upto(SubSeq(s, z + 1, Len(s)), r)
<1>1. PICK u : u = SubSeq(s, z + 1, Len(s))
  OBVIOUS
<1>2. Len(s) \in Nat
  OBVIOUS
<1>3. Len(u) = Len(s) - z /\ \A k \in 1 .. Len(s) - z : u[k] = s[z + k]
  <2>1. Len(u) = Len(s) - z
    BY <1>1, <1>2
  <2>2. ASSUME NEW k \in 1 .. Len(s) - z PROVE u[k] = s[z + k]
    <3>1. k \in 1 .. Len(s) - (z + 1) + 1 /\ z + 1 + k - 1 = z + k
      BY <1>2
    <3>2. u[k] = s[z + 1 + k - 1]
      BY <1>1, <1>2, <3>1
    <3>3. QED
      BY <3>1, <3>2
  <2>3. QED
    BY <2>1, <2>2
<1>4. ASSUME NEW k \in 1 .. Len(s) - z PROVE u[k] = r - Len(u) + k
  <2>1. z + k \in 1 .. Len(s)
    BY <1>2
  <2>2. QED
    BY <1>2, <1>3, <2>1 DEF Upto
<1>5. QED
  BY <1>1, <1>3, <1>4 DEF Upto

LEMMA AscendingAppend ==
  ASSUME NEW s \in Seq(Nat), NEW lo \in Int, NEW hi \in Int, Ascending(s, lo, hi),
         NEW n \in Nat, lo < n, n <= hi, \A j \in 1 .. Len(s) : s[j] < n
  PROVE  Ascending(Append(s, n), lo, hi)
<1>1. PICK u : u = Append(s, n)
  OBVIOUS
<1>2. Len(s) \in Nat /\ \A k \in 1 .. Len(s) : s[k] \in Nat
  OBVIOUS
<1>3. /\ Len(u) = Len(s) + 1 /\ u[Len(s) + 1] = n
      /\ \A k \in 1 .. Len(s) : u[k] = s[k]
  BY <1>1, <1>2
<1>4. \A k \in 1 .. Len(u) : k \in 1 .. Len(s) \/ k = Len(s) + 1
  BY <1>2, <1>3
<1>5. \A k \in 1 .. Len(u) : lo < u[k] /\ u[k] <= hi
  BY <1>2, <1>3, <1>4 DEF Ascending
<1>6. ASSUME NEW j \in 1 .. Len(u), NEW k \in 1 .. Len(u), j < k PROVE u[j] < u[k]
  <2>1. j \in 1 .. Len(s)
    BY <1>2, <1>3, <1>6
  <2>2. CASE k \in 1 .. Len(s)
    BY <1>3, <1>6, <2>1, <2>2 DEF Ascending
  <2>3. CASE k = Len(s) + 1
    BY <1>3, <2>1, <2>3
  <2>4. QED
    BY <1>4, <2>2, <2>3
<1>7. QED
  BY <1>1, <1>5, <1>6 DEF Ascending

LEMMA ProcessKeeps ==
  ASSUME NetOK, LinkOK, Taken \in Int, NEW a \in 0 .. requests, NEW b \in a .. requests,
         InOrder(inbox, "data", b, requests),
         NEW k \in 1 .. Len(inbox), NEW t, Intake(t, k - 1, a)
  PROVE  Intake(Process(t, inbox[k]), k, a)
<1>1. PICK r : r = Process(t, inbox[k])
  OBVIOUS
<1>2. PICK p : p = inbox[k]
  OBVIOUS
<1>3. inbox \in Seq(Packets) /\ requests \in Nat /\ Len(inbox) \in Nat /\ k \in Nat
  BY Sizes DEF NetOK
<1>4. p \in Packets
  BY <1>2, <1>3
<1>5. t \in Sockets /\ Fresh(t) /\ Told(t) /\ Owed(t)
  BY DEF Intake
<1>6. /\ r \in Sockets
      /\ \/ Opened(t, r)
         \/ p.kind = "data" /\ Got(t, p.n, r)
         \/ Ending(t, r)
         \/ Acked(t, r)
         \/ Ended(t, r)
         \/ r = t
  BY <1>1, <1>2, <1>4, <1>5, ProcessIs
<1>7. /\ t.rx \in Seq(1 .. MaxRequests) /\ t.tx \in Seq(1 .. MaxReplies)
      /\ t.sent \in Nat /\ t.sent <= Len(t.tx)
  BY <1>5, SocketSizes
<1>8. /\ Ascending(t.rx, a, requests)
      /\ \A j \in 1 .. Len(t.rx), i \in k .. Len(inbox) :
           inbox[i].kind = "data" => t.rx[j] < inbox[i].n
  BY <1>3 DEF Intake
<1>9. t.state \in Synchronized => Upto(t.tx, Taken)
  BY DEF Intake
<1>10. t.rx \in Seq(Nat) /\ t.tx \in Seq(Nat) /\ Len(t.rx) \in Nat
  BY <1>7, Sizes
<1>11. \A j \in 1 .. Len(t.rx), i \in k + 1 .. Len(inbox) :
         inbox[i].kind = "data" => t.rx[j] < inbox[i].n
  BY <1>3, <1>8
<1>12. Fresh(r)
  BY <1>5, <1>6 DEF Fresh, Opened, Got, Ending, Acked, Ended, Synchronized
<1>13. Told(r) /\ Owed(r)
  <2>1. CASE Opened(t, r)
    <3>1. Len(r.rx) = 0
      BY <1>5, <2>1 DEF Opened, Fresh
    <3>2. r.win + 0 <= RxSize
      <4>1. r \in Sockets
        BY <1>6
      <4>2. r.win \in 0 .. RxSize /\ RxSize \in Nat
        BY <4>1, Sizes, SocketFields
      <4>3. QED
        BY <4>2
    <3>3. QED
      BY <3>1, <3>2 DEF Told, Owed
  <2>2. CASE p.kind = "data" /\ Got(t, p.n, r)
    BY <2>2 DEF Got, Told, Owed
  <2>3. CASE Ending(t, r)
    BY <2>3 DEF Ending, Told, Owed
  <2>4. CASE Acked(t, r)
    BY <1>5, <2>4 DEF Acked, Told, Owed, WindowToUpdate, Synchronized
  <2>5. CASE Ended(t, r)
    BY <2>5 DEF Ended, Told, Owed
  <2>6. CASE r = t
    BY <1>5, <2>6
  <2>7. QED
    BY <1>6, <2>1, <2>2, <2>3, <2>4, <2>5, <2>6
<1>14. r.state \in Synchronized => Upto(r.tx, Taken)
  <2>1. CASE Opened(t, r)
    <3>1. Len(r.tx) = 0
      BY <1>5, <2>1 DEF Opened, Fresh
    <3>2. QED
      BY <3>1 DEF Upto
  <2>2. CASE Acked(t, r)
    BY <1>7, <1>9, <1>10, <2>2, UptoSuffix DEF Acked
  <2>3. CASE Got(t, p.n, r) \/ Ending(t, r) \/ Ended(t, r) \/ r = t
    BY <1>9, <2>3 DEF Got, Ending, Ended, Synchronized
  <2>4. QED
    BY <1>6, <2>1, <2>2, <2>3
<1>15. /\ Ascending(r.rx, a, requests)
       /\ \A j \in 1 .. Len(r.rx), i \in k + 1 .. Len(inbox) :
            inbox[i].kind = "data" => r.rx[j] < inbox[i].n
  <2>1. CASE p.kind = "data" /\ Got(t, p.n, r)
    <3>1. r.rx = Append(t.rx, p.n)
      BY <2>1 DEF Got
    <3>2. /\ p.n \in Nat /\ b < p.n /\ p.n <= requests
          /\ \A j \in 1 .. Len(t.rx) : t.rx[j] < p.n
          /\ \A i \in k + 1 .. Len(inbox) : inbox[i].kind = "data" => p.n < inbox[i].n
      <4>1. p.n \in Nat
        BY <1>4, <2>1, Sizes DEF Packets
      <4>2. b < p.n /\ p.n <= requests
        BY <1>2, <2>1 DEF InOrder
      <4>3. \A j \in 1 .. Len(t.rx) : t.rx[j] < p.n
        BY <1>2, <1>3, <1>8, <2>1
      <4>4. ASSUME NEW i \in k + 1 .. Len(inbox), inbox[i].kind = "data"
            PROVE  p.n < inbox[i].n
        <5>1. i \in 1 .. Len(inbox) /\ k < i
          BY <1>3
        <5>2. QED
          BY <1>2, <2>1, <4>4, <5>1 DEF InOrder
      <4>5. QED
        BY <4>1, <4>2, <4>3, <4>4
    <3>3. a < p.n
      BY <1>3, <3>2
    <3>4. Ascending(r.rx, a, requests)
      <4>1. a \in Int /\ requests \in Int
        BY <1>3
      <4>2. Ascending(Append(t.rx, p.n), a, requests)
        BY <1>8, <1>10, <3>2, <3>3, <4>1, AscendingAppend
      <4>3. QED
        BY <3>1, <4>2
    <3>5. \A j \in 1 .. Len(r.rx) : \/ j \in 1 .. Len(t.rx) /\ r.rx[j] = t.rx[j]
                                    \/ r.rx[j] = p.n
      BY <1>10, <3>1
    <3>6. QED
      BY <1>11, <3>2, <3>4, <3>5
  <2>2. CASE r.rx = t.rx
    BY <1>8, <1>11, <2>2
  <2>3. QED
    BY <1>6, <2>1, <2>2 DEF Opened, Ending, Acked, Ended
<1>16. QED
  BY <1>1, <1>6, <1>12, <1>13, <1>14, <1>15 DEF Intake

LEMMA ProcessAllKeeps ==
  ASSUME NetOK, LinkOK, Taken \in Int, NEW a \in 0 .. requests, NEW b \in a .. requests,
         InOrder(inbox, "data", b, requests), Intake(sock, 0, a)
  PROVE  Intake(ProcessAll(sock, inbox), Len(inbox), a)
<1>1. PICK G : G = [k \in 0 .. Len(inbox) |-> {t \in Sockets : Intake(t, k, a)}]
  OBVIOUS
<1>2. Len(inbox) \in Nat
  BY DEF NetOK
<1>3. sock \in G[0]
  <2>1. 0 \in 0 .. Len(inbox)
    BY <1>2
  <2>2. sock \in {t \in Sockets : Intake(t, 0, a)}
    BY DEF Intake
  <2>3. QED
    BY <1>1, <2>1, <2>2
<1>4. ASSUME NEW k \in 1 .. Len(inbox), NEW t \in G[k - 1]
      PROVE  Process(t, inbox[k]) \in G[k]
  <2>1. k \in 0 .. Len(inbox) /\ k - 1 \in 0 .. Len(inbox)
    BY <1>2
  <2>2. Intake(t, k - 1, a)
    BY <1>1, <2>1
  <2>3. Intake(Process(t, inbox[k]), k, a)
    BY <2>2, ProcessKeeps
  <2>4. QED
    BY <1>1, <2>1, <2>3 DEF Intake
<1>5. ProcessAll(sock, inbox) \in G[Len(inbox)]
  BY <1>2, <1>3, <1>4, ProcessRule
<1>6. QED
  BY <1>1, <1>2, <1>5

-----------------------------------------------------------------------------
(* The frames and the read grant *)

(* recv() takes the front of what was received, and not nothing; what it leaves is
   no longer cut by the end of the ring. *)
LEMMA RestIs ==
  ASSUME NEW s \in Sockets
  PROVE  /\ Contiguous(s) \in 0 .. Len(s.rx) /\ Len(s.rx) \in Nat
         /\ Len(s.rx) # 0 => Contiguous(s) # 0
         /\ Rest(s) \in Seq(1 .. MaxRequests)
         /\ Len(Rest(s)) = Len(s.rx) - Contiguous(s)
         /\ \A k \in 1 .. Len(Rest(s)) : Rest(s)[k] = s.rx[Contiguous(s) + k]
         /\ Unwrapped(s) => Len(Rest(s)) = 0
         /\ (s.at + Contiguous(s)) % RxSize \in 0 .. RxSize - 1
         /\ Len(Rest(s)) # 0 => (s.at + Contiguous(s)) % RxSize = 0
<1>1. PICK x, i, n : x = s.rx /\ i = s.at /\ n = Contiguous(s)
  OBVIOUS
<1>2. /\ x \in Seq(1 .. MaxRequests) /\ Len(x) \in Nat /\ Len(x) <= RxSize
      /\ i \in Nat /\ i < RxSize /\ RxSize \in Nat \ {0}
  BY <1>1, SocketSizes
<1>3. n = IF i + Len(x) <= RxSize THEN Len(x) ELSE RxSize - i
  BY <1>1 DEF Contiguous
<1>4. n \in 0 .. Len(x) /\ (Len(x) # 0 => n # 0) /\ n \in Nat
  BY <1>2, <1>3
<1>5. PICK u : u = SubSeq(x, n + 1, Len(x))
  OBVIOUS
<1>6. /\ u \in Seq(1 .. MaxRequests) /\ Len(u) = Len(x) - n
      /\ \A k \in 1 .. Len(x) - n : u[k] = x[n + k]
  <2>1. x \in Seq(1 .. MaxRequests) /\ Len(x) \in Nat /\ n \in Nat /\ n <= Len(x)
    BY <1>2, <1>4
  <2>2. u \in Seq(1 .. MaxRequests)
    BY <1>5, <2>1, Sizes
  <2>3. Len(u) = Len(x) - n /\ \A k \in 1 .. Len(x) - n : u[k] = x[n + k]
    BY <1>5, <2>1
  <2>4. QED
    BY <2>2, <2>3
<1>7. u = Rest(s)
  BY <1>1, <1>5 DEF Rest
<1>8. i + Len(x) <= RxSize => Len(u) = 0
  BY <1>2, <1>3, <1>6
<1>9. Len(u) # 0 => i + n = RxSize
  BY <1>2, <1>3, <1>6
<1>10. RxSize % RxSize = 0 /\ (i + n) % RxSize \in 0 .. RxSize - 1
  BY <1>2, <1>4
<1>11. QED
  BY <1>1, <1>2, <1>4, <1>6, <1>7, <1>8, <1>9, <1>10 DEF Unwrapped

LEMMA FrameIs ==
  ASSUME sock \in Sockets, sock.conn # 0
  PROVE  /\ Frame(sock) \in Seq(OutItems) /\ Len(Frame(sock)) = Contiguous(sock) + 1
         /\ Frame(sock)[1] = Endpoint(sock.conn)
         /\ \A k \in 1 .. Contiguous(sock) : Frame(sock)[k + 1] = Request(sock.rx[k])
<1>1. PICK y, c, n : y = sock.rx /\ c = sock.conn /\ n = Contiguous(sock)
  OBVIOUS
<1>2. /\ y \in Seq(1 .. MaxRequests) /\ c \in 1 .. MaxConns /\ n \in 0 .. Len(y)
      /\ Len(y) \in Nat
  <2>1. n \in 0 .. Len(y) /\ Len(y) \in Nat
    BY <1>1, RestIs
  <2>2. y \in Seq(1 .. MaxRequests) /\ c \in 1 .. MaxConns
    <3>1. y \in Seq(1 .. MaxRequests) /\ c \in 0 .. MaxConns /\ c # 0
      BY <1>1, SocketSizes
    <3>2. QED
      BY <3>1, Sizes
  <2>3. QED
    BY <2>1, <2>2
<1>3. PICK x : x = [k \in 1 .. n |-> y[k]]
  OBVIOUS
<1>4. x \in Seq(1 .. MaxRequests) /\ c \in 1 .. MaxConns /\ Len(x) = n /\ Len(x) \in Nat
  <2>1. ASSUME NEW k \in 1 .. n PROVE y[k] \in 1 .. MaxRequests
    <3>1. k \in 1 .. Len(y)
      BY <1>2
    <3>2. QED
      BY <1>2, <3>1, ElementOfSeq
  <2>2. QED
    BY <1>2, <1>3, <2>1
<1>5. PICK e, r : e = <<Endpoint(c)>> /\ r = [k \in 1 .. Len(x) |-> Request(x[k])]
  OBVIOUS
<1>6. Frame(sock) = e \o r
  <2>1. r = [k \in 1 .. n |-> Request(y[k])]
    BY <1>4, <1>5, <1>3
  <2>2. QED
    BY <1>1, <1>5, <2>1 DEF Frame
<1>7. Endpoint(c) \in OutItems /\ \A k \in 1 .. Len(x) : Request(x[k]) \in OutItems
  <2>1. Endpoint(c) \in OutItems
    BY <1>4 DEF Endpoint, Cell, OutItems
  <2>2. ASSUME NEW m \in 1 .. MaxRequests PROVE Request(m) \in OutItems
    BY DEF Request, Cell, OutItems
  <2>3. ASSUME NEW k \in 1 .. Len(x) PROVE Request(x[k]) \in OutItems
    <3>1. x[k] \in 1 .. MaxRequests
      BY <1>4, ElementOfSeq
    <3>2. QED
      BY <2>2, <3>1
  <2>4. QED
    BY <2>1, <2>3
<1>8. e \in Seq(OutItems) /\ Len(e) = 1 /\ e[1] = Endpoint(c)
  BY <1>5, <1>7
<1>9. r \in Seq(OutItems) /\ Len(r) = Len(x)
  BY <1>4, <1>5, <1>7
<1>10. /\ e \o r \in Seq(OutItems) /\ Len(e \o r) = 1 + Len(x)
      /\ \A k \in 1 .. 1 + Len(x) : (e \o r)[k] = IF k <= 1 THEN e[k] ELSE r[k - 1]
  <2>1. /\ e \o r \in Seq(OutItems) /\ Len(e \o r) = Len(e) + Len(r)
        /\ \A k \in 1 .. Len(e) + Len(r) :
             (e \o r)[k] = IF k <= Len(e) THEN e[k] ELSE r[k - Len(e)]
    <3>1. e \in Seq(OutItems) /\ r \in Seq(OutItems)
      BY <1>8, <1>9
    <3>2. QED
      BY <3>1, ConcatProperties
  <2>2. Len(e) = 1 /\ Len(r) = Len(x)
    BY <1>8, <1>9
  <2>3. QED
    BY <2>1, <2>2
<1>11. PICK f : f = e \o r
  OBVIOUS
<1>12. f[1] = Endpoint(c)
  BY <1>4, <1>8, <1>10, <1>11
<1>13. ASSUME NEW k \in 1 .. Len(x) PROVE f[k + 1] = Request(x[k])
  <2>1. k + 1 \in 1 .. 1 + Len(x) /\ ~(k + 1 <= 1) /\ (k + 1) - 1 = k
    BY <1>4
  <2>2. QED
    BY <1>5, <1>10, <1>11, <2>1
<1>14. f \in Seq(OutItems) /\ Len(f) = n + 1
  BY <1>4, <1>10, <1>11
<1>15. ASSUME NEW k \in 1 .. n PROVE f[k + 1] = Request(y[k])
  BY <1>4, <1>13, <1>3
<1>16. QED
  BY <1>1, <1>6, <1>11, <1>12, <1>14, <1>15

(* A sequence joined of two, element by element. *)
Joined(c, s, d) == /\ Len(c) \in Nat /\ Len(s) \in Nat /\ Len(d) = Len(c) + Len(s)
                   /\ \A k \in 1 .. Len(c) : d[k] = c[k]
                   /\ \A k \in 1 .. Len(s) : d[Len(c) + k] = s[k]
                   /\ \A k \in 1 .. Len(d) : \/ k \in 1 .. Len(c)
                                             \/ /\ k - Len(c) \in 1 .. Len(s)
                                                /\ Len(c) + (k - Len(c)) = k

LEMMA JoinedIs ==
  ASSUME NEW S, NEW T, NEW c \in Seq(S), NEW s \in Seq(T)
  PROVE  Joined(c, s, c \o s)
<1>1. c \in Seq(S \union T) /\ s \in Seq(S \union T)
  OBVIOUS
<1>2. PICK d : d = c \o s
  OBVIOUS
<1>3. /\ Len(d) = Len(c) + Len(s)
      /\ \A k \in 1 .. Len(c) + Len(s) : d[k] = IF k <= Len(c) THEN c[k] ELSE s[k - Len(c)]
  BY <1>1, <1>2, ConcatProperties
<1>4. Len(c) \in Nat /\ Len(s) \in Nat
  OBVIOUS
<1>5. \A k \in 1 .. Len(c) : d[k] = c[k]
  BY <1>3, <1>4
<1>6. ASSUME NEW k \in 1 .. Len(s) PROVE d[Len(c) + k] = s[k]
  <2>1. Len(c) + k \in 1 .. Len(c) + Len(s) /\ ~(Len(c) + k <= Len(c))
        /\ (Len(c) + k) - Len(c) = k
    BY <1>4
  <2>2. QED
    BY <1>3, <2>1
<1>7. ASSUME NEW k \in 1 .. Len(d)
      PROVE  \/ k \in 1 .. Len(c)
             \/ k - Len(c) \in 1 .. Len(s) /\ Len(c) + (k - Len(c)) = k
  BY <1>3, <1>4
<1>8. QED
  BY <1>2, <1>3, <1>4, <1>5, <1>6, <1>7 DEF Joined

(* A frame more. *)
LEMMA FramesAppend ==
  ASSUME NEW c, NEW s, NEW d, Joined(c, s, d), NEW front \in Nat, Frames(c, front),
         Len(s) >= 2, s[1].kind = "endpoint",
         \A k \in 2 .. Len(s) : s[k].kind = "request",
         NEW front2 \in Nat,
         front2 < Len(d) => \/ front2 = Len(c)
                            \/ front2 = front /\ front < Len(c)
  PROVE  Frames(d, front2)
<1>1. /\ Len(c) \in Nat /\ Len(s) \in Nat /\ Len(d) = Len(c) + Len(s)
      /\ \A k \in 1 .. Len(c) : d[k] = c[k]
      /\ \A k \in 1 .. Len(s) : d[Len(c) + k] = s[k]
      /\ \A k \in 1 .. Len(d) : \/ k \in 1 .. Len(c)
                                \/ /\ k - Len(c) \in 1 .. Len(s)
                                   /\ Len(c) + (k - Len(c)) = k
  BY DEF Joined
<1>2. d[Len(c) + 1].kind = "endpoint" /\ d[Len(c) + 2].kind = "request"
  BY <1>1
<1>3. ASSUME NEW k \in 1 .. Len(d)
      PROVE  /\ d[k].kind \in {"endpoint", "request"}
             /\ d[k].kind = "endpoint" => k < Len(d) /\ d[k + 1].kind = "request"
  <2>1. CASE k \in 1 .. Len(c)
    <3>1. d[k] = c[k] /\ c[k].kind \in {"endpoint", "request"}
      BY <1>1, <2>1 DEF Frames
    <3>2. c[k].kind = "endpoint" => k < Len(c) /\ c[k + 1].kind = "request"
      BY <2>1 DEF Frames
    <3>3. k < Len(c) => k < Len(d) /\ d[k + 1] = c[k + 1]
      BY <1>1, <2>1
    <3>4. QED
      BY <3>1, <3>2, <3>3
  <2>2. CASE k - Len(c) \in 1 .. Len(s) /\ Len(c) + (k - Len(c)) = k
    <3>1. PICK j \in 1 .. Len(s) : j = k - Len(c) /\ k = Len(c) + j
      BY <2>2
    <3>2. d[k] = s[j]
      BY <1>1, <3>1
    <3>3. CASE j = 1
      <4>1. k = Len(c) + 1 /\ k + 1 = Len(c) + 2 /\ k < Len(d)
        BY <1>1, <3>1, <3>3
      <4>2. QED
        BY <1>2, <4>1
    <3>4. CASE j \in 2 .. Len(s)
      BY <3>2, <3>4
    <3>5. QED
      BY <1>1, <3>3, <3>4
  <2>3. QED
    BY <1>1, <2>1, <2>2
<1>4. d[1].kind = "endpoint"
  <2>1. CASE Len(c) > 0
    BY <1>1, <2>1 DEF Frames
  <2>2. CASE Len(c) = 0
    BY <1>1, <1>2, <2>2
  <2>3. QED
    BY <1>1, <2>1, <2>2
<1>5. front2 < Len(d) => d[front2 + 1].kind = "endpoint"
  <2>1. CASE front2 = Len(c)
    BY <1>2, <2>1
  <2>2. CASE front2 = front /\ front < Len(c)
    <3>1. c[front + 1].kind = "endpoint" /\ front + 1 \in 1 .. Len(c)
      BY <1>1, <2>2 DEF Frames
    <3>2. QED
      BY <1>1, <2>2, <3>1
  <2>3. QED
    BY <2>1, <2>2
<1>6. QED
  BY <1>3, <1>4, <1>5 DEF Frames

(* Whole frames less. *)
LEMMA FramesDrop ==
  ASSUME NEW c, NEW d, NEW n \in Nat, Drops(c, n, d), Len(c) \in Nat,
         NEW front \in Nat, Frames(c, front),
         n < Len(c) => c[n + 1].kind = "endpoint",
         NEW front2 \in Nat, front2 < Len(d) => front2 = front - n
  PROVE  Frames(d, front2)
<1>1. /\ n <= Len(c) /\ Len(d) = Len(c) - n /\ Len(d) \in Nat
      /\ \A k \in 1 .. Len(d) : d[k] = c[k + n]
  BY DEF Drops
<1>2. ASSUME NEW k \in 1 .. Len(d)
      PROVE  /\ d[k].kind \in {"endpoint", "request"}
             /\ d[k].kind = "endpoint" => k < Len(d) /\ d[k + 1].kind = "request"
  <2>1. k + n \in 1 .. Len(c) /\ d[k] = c[k + n] /\ k \in Nat
    BY <1>1
  <2>2. /\ c[k + n].kind \in {"endpoint", "request"}
        /\ c[k + n].kind = "endpoint" => k + n < Len(c) /\ c[(k + n) + 1].kind = "request"
    BY <2>1 DEF Frames
  <2>3. k + n < Len(c) => k + 1 \in 1 .. Len(d) /\ (k + 1) + n = (k + n) + 1
    <3>1. Len(c) \in Nat /\ n \in Nat /\ k \in Nat /\ Len(d) = Len(c) - n
      BY <1>1, <2>1
    <3>2. QED
      BY <3>1
  <2>4. k + n < Len(c) => k < Len(d) /\ d[k + 1] = c[(k + n) + 1]
    BY <1>1, <2>1, <2>3
  <2>5. QED
    BY <2>1, <2>2, <2>4
<1>3. Len(d) > 0 => d[1].kind = "endpoint"
  <2>1. Len(d) > 0 => n < Len(c) /\ d[1] = c[n + 1]
    BY <1>1
  <2>2. QED
    BY <2>1
<1>4. front2 < Len(d) => d[front2 + 1].kind = "endpoint"
  <2>1. SUFFICES ASSUME front2 < Len(d) PROVE d[front2 + 1].kind = "endpoint"
    OBVIOUS
  <2>2. front2 + 1 \in 1 .. Len(d) /\ (front2 + 1) + n = front + 1 /\ front < Len(c)
    BY <1>1, <2>1
  <2>3. QED
    BY <1>1, <2>2 DEF Frames
<1>5. QED
  BY <1>2, <1>3, <1>4 DEF Frames

-----------------------------------------------------------------------------
(* Which steps touch what *)

(* Everything but the protocol task. *)
AtHost      == HostConnect \/ HostSend \/ HostHangsUp \/ HostAck
AtInterrupt == \/ OtherInterrupt \/ EnterEthernetEvent \/ Poll \/ HandleTcpTx
               \/ CloseOrListen \/ PollAt \/ SmoltcpPollAt
InDispatch  == GrantReply \/ CommitReply \/ PendEth \/ DropReply \/ DispatchDone

LEMMA Steps ==
  ASSUME [Next]_vars
  PROVE  \/ AtHost \/ AtInterrupt \/ HandleTcpRx
         \/ LinkStart \/ LinkRead \/ InDispatch \/ LinkRelease \/ UNCHANGED vars
BY DEF Next, Environment, EthernetEvent, LinkProcess, AtHost, AtInterrupt, InDispatch

LEMMA AtHostLeaves ==
  ASSUME AtHost
  PROVE  UNCHANGED <<sock, timer, due, eth_pc, iteration, eth_out, eth_in, link_ready,
                     link>>
BY DEF AtHost, HostConnect, HostSend, HostHangsUp, HostAck, Arrives

LEMMA AtInterruptLeaves ==
  ASSUME AtInterrupt
  PROVE  UNCHANGED <<host, conns, requests, eth_out, link_ready, link>>
<1>1. CASE OtherInterrupt \/ EnterEthernetEvent \/ SmoltcpPollAt
  BY <1>1 DEF OtherInterrupt, EnterEthernetEvent, SmoltcpPollAt, net
<1>2. CASE Poll
  BY <1>2 DEF Poll
<1>3. CASE HandleTcpTx
  BY <1>3 DEF HandleTcpTx, net
<1>4. CASE CloseOrListen
  BY <1>4 DEF CloseOrListen, net
<1>5. CASE PollAt
  BY <1>5 DEF PollAt, net
<1>6. QED
  BY <1>1, <1>2, <1>3, <1>4, <1>5 DEF AtInterrupt

LEMMA RxLeaves ==
  ASSUME HandleTcpRx
  PROVE  UNCHANGED <<net, eth_pending, timer, due, iteration, eth_in, link>>
BY DEF HandleTcpRx

LEMMA InDispatchLeaves ==
  ASSUME InDispatch
  PROVE  /\ UNCHANGED <<net, sock, timer, due, eth_pc, iteration, eth_out, link_ready,
                        rgr_len, dispatched>>
         /\ Granting /\ Granting'
<1>1. CASE GrantReply
  BY <1>1 DEF GrantReply, Granting, eth
<1>2. CASE CommitReply
  BY <1>2 DEF CommitReply, Granting, eth
<1>3. CASE PendEth
  BY <1>3 DEF PendEth, Granting
<1>4. CASE DropReply
  BY <1>4 DEF DropReply, Granting, eth
<1>5. CASE DispatchDone
  BY <1>5 DEF DispatchDone, Granting, eth
<1>6. QED
  BY <1>1, <1>2, <1>3, <1>4, <1>5 DEF InDispatch

LEMMA TaskLeaves ==
  ASSUME LinkStart \/ LinkRead \/ LinkRelease
  PROVE  UNCHANGED <<net, eth, eth_in, replies>>
BY DEF LinkStart, LinkRead, LinkRelease

-----------------------------------------------------------------------------
(* The types *)

LEMMA AppendPacket ==
  ASSUME inbox \in Seq(Packets), NEW p \in Packets, Arrives(p)
  PROVE  inbox' \in Seq(Packets)
BY DEF Arrives

LEMMA NetStep ==
  ASSUME NetOK, [Next]_vars
  PROVE  NetOK'
<1>0. /\ inbox \in Seq(Packets) /\ host \in 0 .. MaxConns /\ conns \in 0 .. MaxConns
      /\ requests \in 0 .. MaxRequests /\ MaxConns \in Nat /\ MaxRequests \in Nat
  BY Sizes DEF NetOK
<1>1. CASE HostConnect
  <2>1. conns + 1 \in 1 .. MaxConns
    BY <1>0, <1>1 DEF HostConnect
  <2>2. Packet("syn", conns + 1) \in Packets
    BY <2>1 DEF Packet, Packets
  <2>3. inbox' \in Seq(Packets)
    BY <1>0, <1>1, <2>2, AppendPacket DEF HostConnect
  <2>4. QED
    BY <1>0, <1>1, <2>1, <2>3 DEF HostConnect, NetOK
<1>2. CASE HostSend
  <2>1. requests + 1 \in 1 .. MaxRequests
    BY <1>0, <1>2 DEF HostSend
  <2>2. Packet("data", requests + 1) \in Packets
    BY <2>1 DEF Packet, Packets
  <2>3. inbox' \in Seq(Packets)
    BY <1>0, <1>2, <2>2, AppendPacket DEF HostSend
  <2>4. QED
    BY <1>0, <1>2, <2>1, <2>3 DEF HostSend, NetOK
<1>3. CASE HostHangsUp
  <2>1. PICK kind \in {"fin", "rst"} : Arrives(Packet(kind, 0))
    BY <1>3 DEF HostHangsUp
  <2>2. Packet(kind, 0) \in Packets
    BY DEF Packet, Packets
  <2>3. inbox' \in Seq(Packets)
    BY <1>0, <2>1, <2>2, AppendPacket
  <2>4. QED
    BY <1>0, <1>3, <2>3 DEF HostHangsUp, NetOK
<1>4. CASE HostAck
  <2>1. Packet("ack", 0) \in Packets
    BY DEF Packet, Packets
  <2>2. inbox' \in Seq(Packets)
    BY <1>0, <1>4, <2>1, AppendPacket DEF HostAck
  <2>3. QED
    BY <1>0, <1>4, <2>2 DEF HostAck, NetOK
<1>5. CASE Poll
  BY <1>0, <1>5 DEF Poll, NetOK
<1>6. CASE UNCHANGED net
  BY <1>0, <1>6 DEF net, NetOK
<1>7. CASE AtInterrupt /\ ~Poll
  BY <1>6, <1>7 DEF AtInterrupt, OtherInterrupt, EnterEthernetEvent, HandleTcpTx,
                    CloseOrListen, PollAt, SmoltcpPollAt
<1>8. QED
  BY <1>1, <1>2, <1>3, <1>4, <1>5, <1>6, <1>7, Steps, RxLeaves, InDispatchLeaves,
     TaskLeaves DEF AtHost, vars

(* What the handler does to the socket. *)
Alike(s, r) == /\ r.state = s.state /\ r.conn = s.conn /\ r.sent = s.sent
               /\ r.fin_sent = s.fin_sent /\ r.ack_owed = s.ack_owed
               /\ r.win = s.win

LEMMA SocketParts ==
  ASSUME NEW s \in Sockets
  PROVE  \E st, c, x, i, m, y, z, u, v :
           /\ s = [state |-> st, conn |-> c, rx |-> x, at |-> i, win |-> m,
                   tx |-> y, sent |-> z, fin_sent |-> u, ack_owed |-> v]
           /\ s.state = st /\ s.conn = c /\ s.rx = x /\ s.tx = y
           /\ s.at = i /\ s.win = m
        /\ s.sent = z /\ s.fin_sent = u /\ s.ack_owed = v
BY SocketFields

With(s, x, i) == [s EXCEPT !.rx = x, !.at = i]

LEMMA ReceivedAs ==
  ASSUME NEW s \in Sockets, NEW x2 \in Seq(1 .. MaxRequests), Len(x2) <= RxSize,
         NEW i2 \in 0 .. RxSize - 1, NEW r, r = With(s, x2, i2)
  PROVE  /\ r \in Sockets /\ Alike(s, r) /\ r.tx = s.tx /\ r.rx = x2 /\ r.at = i2
<1>1. PICK st, c, x, i, m, y, z, u, v :
        /\ s = [state |-> st, conn |-> c, rx |-> x, at |-> i, win |-> m,
                tx |-> y, sent |-> z, fin_sent |-> u, ack_owed |-> v]
        /\ s.state = st /\ s.conn = c /\ s.rx = x /\ s.tx = y
        /\ s.at = i /\ s.win = m
        /\ s.sent = z /\ s.fin_sent = u /\ s.ack_owed = v
  BY SocketParts
<1>2. r = [state |-> st, conn |-> c, rx |-> x2, at |-> i2, win |-> m,
           tx |-> y, sent |-> z, fin_sent |-> u, ack_owed |-> v]
  BY <1>1 DEF With
<1>3. /\ r.state = st /\ r.conn = c /\ r.rx = x2 /\ r.tx = y
      /\ r.at = i2 /\ r.win = m
      /\ r.sent = z /\ r.fin_sent = u /\ r.ack_owed = v
  BY <1>2
<1>4. r = [state |-> r.state, conn |-> r.conn, rx |-> r.rx,
           at |-> r.at, win |-> r.win, tx |-> r.tx,
           sent |-> r.sent, fin_sent |-> r.fin_sent, ack_owed |-> r.ack_owed]
  BY <1>2, <1>3
<1>5. r \in Sockets
  <2>1. /\ st \in {"Closed", "Listen", "Established", "CloseWait", "LastAck"}
        /\ c \in 0 .. MaxConns /\ m \in 0 .. RxSize /\ y \in Seq(1 .. MaxReplies)
        /\ z \in 0 .. TxSize /\ u \in BOOLEAN /\ v \in BOOLEAN
        /\ z <= Len(y) /\ Len(y) <= TxSize
    BY <1>1, SocketFields
  <2>2. QED
    BY <1>3, <1>4, <2>1, SocketFields
<1>6. QED
  BY <1>1, <1>3, <1>5 DEF Alike

LEMMA ReceivedIs ==
  ASSUME sock \in Sockets, HandleTcpRx
  PROVE  /\ sock' \in Sockets /\ Alike(sock, sock') /\ sock'.rx = Rest(sock)
         /\ sock'.tx = sock.tx /\ (Len(sock'.rx) # 0 => Unwrapped(sock'))
<1>1. PICK x, i : x = Rest(sock) /\ i = (sock.at + Contiguous(sock)) % RxSize
  OBVIOUS
<1>2. /\ Contiguous(sock) \in 0 .. Len(sock.rx) /\ Len(sock.rx) \in Nat
      /\ x \in Seq(1 .. MaxRequests) /\ Len(x) = Len(sock.rx) - Contiguous(sock)
      /\ i \in 0 .. RxSize - 1 /\ (Len(x) # 0 => i = 0)
  BY <1>1, RestIs
<1>3. Len(sock.rx) <= RxSize /\ RxSize \in Nat
  BY Sizes, SocketFields
<1>4. Len(x) <= RxSize
  BY <1>2, <1>3
<1>5. sock' = With(sock, x, i)
  BY <1>1 DEF HandleTcpRx, With
<1>6. /\ sock' \in Sockets /\ Alike(sock, sock') /\ sock'.tx = sock.tx
      /\ sock'.rx = x /\ sock'.at = i
  BY <1>2, <1>4, <1>5, ReceivedAs
<1>7. Len(x) # 0 => 0 + Len(x) <= RxSize
  BY <1>2, <1>3
<1>8. QED
  BY <1>1, <1>2, <1>6, <1>7 DEF Unwrapped

LEMMA EmittedIs ==
  ASSUME NEW s \in Sockets, NEW r, r = Emitted(s)
  PROVE  /\ r \in Sockets /\ r.state = s.state /\ r.rx = s.rx /\ r.tx = s.tx
         /\ r.sent = Len(s.tx) /\ r.fin_sent = (s.state = "LastAck")
         /\ r.win = RxSize - Len(s.rx) /\ r.at = s.at
<1>1. PICK st, c, x, i, m, y, z, u, v :
        /\ s = [state |-> st, conn |-> c, rx |-> x, at |-> i, win |-> m,
                tx |-> y, sent |-> z, fin_sent |-> u, ack_owed |-> v]
        /\ s.state = st /\ s.conn = c /\ s.rx = x /\ s.tx = y
        /\ s.at = i /\ s.win = m
        /\ s.sent = z /\ s.fin_sent = u /\ s.ack_owed = v
  BY SocketParts
<1>2. PICK w, f, m2 : w = Len(y) /\ f = (st = "LastAck") /\ m2 = RxSize - Len(x)
  OBVIOUS
<1>3. r = [state |-> st, conn |-> c, rx |-> x, at |-> i, win |-> m2,
           tx |-> y, sent |-> w, fin_sent |-> f, ack_owed |-> FALSE]
  BY <1>1, <1>2 DEF Emitted
<1>4. /\ r.state = st /\ r.conn = c /\ r.rx = x /\ r.tx = y
      /\ r.at = i /\ r.win = m2 /\ r.sent = w /\ r.fin_sent = f /\ r.ack_owed = FALSE
  BY <1>3
<1>5. /\ y \in Seq(1 .. MaxReplies) /\ Len(y) <= TxSize
      /\ x \in Seq(1 .. MaxRequests) /\ Len(x) <= RxSize
  BY <1>1, SocketFields
<1>6. w \in 0 .. TxSize /\ w <= Len(y) /\ f \in BOOLEAN /\ m2 \in 0 .. RxSize
  BY <1>2, <1>5, Sizes
<1>7. r = [state |-> r.state, conn |-> r.conn, rx |-> r.rx,
           at |-> r.at, win |-> r.win, tx |-> r.tx,
           sent |-> r.sent, fin_sent |-> r.fin_sent, ack_owed |-> r.ack_owed]
  BY <1>3, <1>4
<1>8. r \in Sockets
  <2>1. /\ st \in {"Closed", "Listen", "Established", "CloseWait", "LastAck"}
        /\ c \in 0 .. MaxConns /\ i \in 0 .. RxSize - 1
    BY <1>1, SocketFields
  <2>2. QED
    BY <1>4, <1>5, <1>6, <1>7, <2>1, SocketFields
<1>9. QED
  BY <1>1, <1>2, <1>4, <1>8

LEMMA GivenIs ==
  ASSUME NEW s \in Sockets, NEW d \in Seq(1 .. MaxReplies),
         Len(s.tx) + Len(d) <= TxSize, NEW r, r = [s EXCEPT !.tx = @ \o d]
  PROVE  /\ r \in Sockets /\ Alike(s, r)
         /\ r.rx = s.rx /\ r.at = s.at /\ r.tx = s.tx \o d
<1>1. PICK st, c, x, i, m, y, z, u, v :
        /\ s = [state |-> st, conn |-> c, rx |-> x, at |-> i, win |-> m,
                tx |-> y, sent |-> z, fin_sent |-> u, ack_owed |-> v]
        /\ s.state = st /\ s.conn = c /\ s.rx = x /\ s.tx = y
        /\ s.at = i /\ s.win = m
        /\ s.sent = z /\ s.fin_sent = u /\ s.ack_owed = v
  BY SocketParts
<1>2. PICK y2 : y2 = y \o d
  OBVIOUS
<1>3. r = [state |-> st, conn |-> c, rx |-> x, at |-> i, win |-> m,
           tx |-> y2, sent |-> z, fin_sent |-> u, ack_owed |-> v]
  BY <1>1, <1>2
<1>4. /\ r.state = st /\ r.conn = c /\ r.rx = x /\ r.tx = y2
      /\ r.at = i /\ r.win = m /\ r.sent = z /\ r.fin_sent = u /\ r.ack_owed = v
  BY <1>3
<1>5. /\ y \in Seq(1 .. MaxReplies) /\ z \in 0 .. TxSize /\ z <= Len(y)
      /\ Len(y) \in Nat /\ Len(d) \in Nat /\ Len(y) + Len(d) <= TxSize
  BY <1>1, SocketFields
<1>6. y2 \in Seq(1 .. MaxReplies) /\ Len(y2) = Len(y) + Len(d)
  BY <1>2, <1>5, ConcatProperties
<1>7. z <= Len(y2) /\ Len(y2) <= TxSize
  <2>1. z \in Nat /\ TxSize \in Nat
    BY <1>5, Sizes
  <2>2. QED
    BY <1>5, <1>6, <2>1
<1>8. r = [state |-> r.state, conn |-> r.conn, rx |-> r.rx,
           at |-> r.at, win |-> r.win, tx |-> r.tx,
           sent |-> r.sent, fin_sent |-> r.fin_sent, ack_owed |-> r.ack_owed]
  BY <1>3, <1>4
<1>9. r \in Sockets
  BY <1>1, <1>4, <1>6, <1>7, <1>8, SocketFields
<1>10. QED
  BY <1>1, <1>2, <1>4, <1>9 DEF Alike

(* close() and listen(). *)
Closing(s, r) == /\ s.state = "CloseWait" /\ r.state = "LastAck"
                 /\ r.rx = s.rx /\ r.tx = s.tx /\ r.ack_owed = s.ack_owed
                 /\ r.at = s.at /\ r.win = s.win
Emptied(s, r) == /\ s.state = "Closed" /\ r.state = "Listen"
                 /\ r.rx = <<>> /\ r.tx = <<>> /\ r.win \in 0 .. RxSize

LEMMA CloseIs ==
  ASSUME sock \in Sockets, CloseOrListen
  PROVE  /\ sock' \in Sockets
         /\ \/ Closing(sock, sock') \/ Emptied(sock, sock')
            \/ sock' = sock /\ sock.state \notin {"Closed", "CloseWait"}
<1>1. PICK st, c, x, i, m, y, z, u, v :
        /\ sock = [state |-> st, conn |-> c, rx |-> x, at |-> i, win |-> m,
                   tx |-> y, sent |-> z, fin_sent |-> u, ack_owed |-> v]
        /\ sock.state = st /\ sock.conn = c /\ sock.rx = x /\ sock.tx = y
        /\ sock.at = i /\ sock.win = m
        /\ sock.sent = z /\ sock.fin_sent = u /\ sock.ack_owed = v
  BY SocketParts
<1>2. PICK r : r = sock'
  OBVIOUS
<1>3. CASE st = "CloseWait"
  <2>1. r = [state |-> "LastAck", conn |-> c, rx |-> x, at |-> i, win |-> m,
             tx |-> y, sent |-> z, fin_sent |-> u, ack_owed |-> v]
    <3>1. r = [sock EXCEPT !.state = "LastAck"]
      BY <1>1, <1>2, <1>3 DEF CloseOrListen, IsOpen
    <3>2. QED
      BY <1>1, <3>1
  <2>2. /\ r.state = "LastAck" /\ r.conn = c /\ r.rx = x /\ r.tx = y
        /\ r.at = i /\ r.win = m /\ r.sent = z /\ r.fin_sent = u /\ r.ack_owed = v
    BY <2>1
  <2>3. r = [state |-> r.state, conn |-> r.conn, rx |-> r.rx,
             at |-> r.at, win |-> r.win, tx |-> r.tx,
             sent |-> r.sent, fin_sent |-> r.fin_sent, ack_owed |-> r.ack_owed]
    BY <2>1, <2>2
  <2>4. r \in Sockets
    BY <1>1, <2>2, <2>3, SocketFields
  <2>5. QED
    BY <1>1, <1>2, <1>3, <2>2, <2>4 DEF Closing
<1>4. CASE st = "Closed"
  <2>1. r = [state |-> "Listen", conn |-> 0, rx |-> <<>>, at |-> 0, win |-> RxSize,
             tx |-> <<>>, sent |-> 0, fin_sent |-> FALSE, ack_owed |-> FALSE]
    BY <1>1, <1>2, <1>4 DEF CloseOrListen, ClosedSocket, IsOpen
  <2>2. /\ r.state = "Listen" /\ r.conn = 0 /\ r.rx = <<>> /\ r.tx = <<>>
        /\ r.at = 0 /\ r.win = RxSize /\ r.sent = 0 /\ r.fin_sent = FALSE /\ r.ack_owed = FALSE
    BY <2>1
  <2>3. r = [state |-> r.state, conn |-> r.conn, rx |-> r.rx,
             at |-> r.at, win |-> r.win, tx |-> r.tx,
             sent |-> r.sent, fin_sent |-> r.fin_sent, ack_owed |-> r.ack_owed]
    BY <2>1, <2>2
  <2>4. /\ 0 \in 0 .. MaxConns /\ 0 \in 0 .. TxSize /\ 0 <= TxSize
        /\ 0 \in 0 .. RxSize - 1 /\ RxSize \in 0 .. RxSize /\ 0 <= RxSize
    BY Sizes
  <2>5. Len(<<>>) = 0 /\ <<>> \in Seq(1 .. MaxRequests) /\ <<>> \in Seq(1 .. MaxReplies)
    OBVIOUS
  <2>6. /\ r.rx \in Seq(1 .. MaxRequests) /\ r.tx \in Seq(1 .. MaxReplies)
        /\ r.sent <= Len(r.tx) /\ Len(r.tx) <= TxSize /\ Len(r.rx) <= RxSize
    BY <2>2, <2>4, <2>5
  <2>7. /\ r.state = "Listen" /\ r.conn \in 0 .. MaxConns /\ r.sent \in 0 .. TxSize
        /\ r.fin_sent \in BOOLEAN /\ r.ack_owed \in BOOLEAN
        /\ r.at \in 0 .. RxSize - 1 /\ r.win \in 0 .. RxSize
    BY <2>2, <2>4
  <2>8. r \in Sockets
    BY <2>3, <2>6, <2>7, SocketFields
  <2>9. QED
    BY <1>1, <1>2, <1>4, <2>2, <2>4, <2>8 DEF Emptied
<1>5. CASE st # "CloseWait" /\ st # "Closed"
  <2>1. r = sock
    BY <1>1, <1>2, <1>5 DEF CloseOrListen, IsOpen
  <2>2. QED
    BY <1>1, <1>2, <1>5, <2>1
<1>6. QED
  BY <1>3, <1>4, <1>5

LEMMA ProcessAllIs ==
  ASSUME NetOK, sock \in Sockets
  PROVE  ProcessAll(sock, inbox) \in Sockets
<1>1. PICK G : G = [k \in 0 .. Len(inbox) |-> Sockets]
  OBVIOUS
<1>2. Len(inbox) \in Nat /\ inbox \in Seq(Packets)
  BY DEF NetOK
<1>3. sock \in G[0]
  BY <1>1, <1>2
<1>4. ASSUME NEW k \in 1 .. Len(inbox), NEW t \in G[k - 1]
      PROVE  Process(t, inbox[k]) \in G[k]
  <2>1. k \in 0 .. Len(inbox) /\ k - 1 \in 0 .. Len(inbox)
    BY <1>2
  <2>2. inbox[k] \in Packets
    BY <1>2, ElementOfSeq
  <2>3. QED
    BY <1>1, <2>1, <2>2, ProcessIs
<1>5. ProcessAll(sock, inbox) \in G[Len(inbox)]
  BY <1>2, <1>3, <1>4, ProcessRule
<1>6. QED
  BY <1>1, <1>2, <1>5

(* What send_slice() is given: the next of the reply stream. *)
LEMMA SliceIs ==
  ASSUME StreamPart, LinkOK, NEW n \in 0 .. Len(Region(eth_in)), NEW d,
         d = [k \in 1 .. n |-> Region(eth_in)[k].n]
  PROVE  /\ d \in Seq(1 .. MaxReplies) /\ Len(d) = n
         /\ \A k \in 1 .. n : d[k] = Taken + k
<1>1. PICK c, g : c = Contents(eth_in) /\ g = Region(eth_in)
  OBVIOUS
<1>2. WellFormed(eth_in, InItems, InSize) /\ Newest(c, replies)
  BY <1>1 DEF StreamPart
<1>3. c \in Seq(InItems \union {Blank}) /\ IsFront(g, c)
  BY <1>1, <1>2, ContentsIs, RegionFront
<1>4. g \in Seq(InItems \union {Blank})
  BY <1>1, <1>2, RegionIs
<1>5. n \in Nat /\ n <= Len(g) /\ Len(g) <= Len(c) /\ Len(c) \in Nat /\ replies \in Nat
  BY <1>1, <1>3, <1>4 DEF IsFront, LinkOK
<1>6. ASSUME NEW k \in 1 .. n
      PROVE  g[k].n \in 1 .. MaxReplies /\ g[k].n = Taken + k
  <2>1. k \in 1 .. Len(g) /\ k \in 1 .. Len(c)
    BY <1>5
  <2>2. g[k] = c[k]
    BY <1>3, <2>1 DEF IsFront
  <2>3. c[k] = Reply(replies - Len(c) + k)
    BY <1>2, <2>1 DEF Newest
  <2>4. c[k] \in InItems \union {Blank}
    BY <1>3, <2>1, ElementOfSeq
  <2>5. c[k].kind = "reply" /\ c[k].n = replies - Len(c) + k
    BY <2>3 DEF Reply, Cell
  <2>6. c[k] \in InItems
    BY <2>4, <2>5 DEF Blank, Cell
  <2>7. c[k].n \in 1 .. MaxReplies
    BY <2>6 DEF InItems
  <2>8. QED
    BY <1>1, <2>2, <2>5, <2>7 DEF Taken
<1>7. \A k \in 1 .. n : d[k] = g[k].n
  BY <1>1
<1>8. d \in Seq(1 .. MaxReplies) /\ Len(d) = n
  BY <1>1, <1>5, <1>6
<1>9. QED
  BY <1>6, <1>7, <1>8

(* What handle_tcp_tx does when the socket can send. *)
Sending(d) == /\ d \in Seq(1 .. MaxReplies) /\ Len(d) = Written
              /\ \A k \in 1 .. Written : d[k] = Taken + k
              /\ Alike(sock, sock') /\ sock'.rx = sock.rx /\ sock'.at = sock.at
              /\ sock'.tx = sock.tx \o d

LEMMA SendIs ==
  ASSUME StreamPart, LinkOK, sock \in Sockets, SendSlice(Written)
  PROVE  /\ Written \in 0 .. Len(Region(eth_in)) /\ sock' \in Sockets
         /\ \E d : Sending(d)
<1>1. PICK d : d = [k \in 1 .. Written |-> Region(eth_in)[k].n]
  OBVIOUS
<1>2. Len(sock.tx) \in Nat /\ Len(sock.tx) <= TxSize /\ TxSize \in Nat
  BY Sizes, SocketFields
<1>3. Len(Region(eth_in)) \in Nat
  BY RegionIs DEF StreamPart
<1>4. /\ Written \in 0 .. Len(Region(eth_in))
      /\ Len(sock.tx) + Written <= TxSize
  <2>0. PICK w : w = Written
    OBVIOUS
  <2>1. PICK g \in Nat, t \in Nat, m \in Nat :
          g = Len(Region(eth_in)) /\ t = Len(sock.tx) /\ m = TxSize /\ t <= m
    BY <1>2, <1>3
  <2>2. w = IF g < m - t THEN g ELSE m - t
    BY <2>0, <2>1 DEF Written, Room
  <2>3. t <= m
    BY <2>1
  <2>4. w \in 0 .. g /\ t + w <= m
    BY <2>2, <2>3
  <2>5. QED
    BY <2>0, <2>1, <2>4
<1>5. /\ d \in Seq(1 .. MaxReplies) /\ Len(d) = Written
      /\ \A k \in 1 .. Written : d[k] = Taken + k
  BY <1>1, <1>4, SliceIs
<1>6. sock' = [sock EXCEPT !.tx = @ \o d]
  BY <1>1 DEF SendSlice
<1>7. /\ sock' \in Sockets /\ Alike(sock, sock')
      /\ sock'.rx = sock.rx /\ sock'.at = sock.at /\ sock'.tx = sock.tx \o d
  BY <1>4, <1>5, <1>6, GivenIs
<1>8. QED
  BY <1>4, <1>5, <1>7 DEF Sending

LEMMA EthStep ==
  ASSUME NetOK, EthOK, LinkOK, StreamPart, [Next]_vars
  PROVE  EthOK'
<1>0. /\ sock \in Sockets
      /\ eth_pending \in BOOLEAN /\ timer \in BOOLEAN /\ due \in BOOLEAN
      /\ eth_pc \in {"idle", "poll", "rx", "tx", "close", "poll_at"}
      /\ iteration \in 0 .. MAX_ITERATIONS - 1
  BY DEF EthOK
<1>1. CASE AtHost
  <2>1. UNCHANGED <<sock, timer, due, eth_pc, iteration>>
    BY <1>1, AtHostLeaves
  <2>2. eth_pending' = TRUE
    BY <1>1 DEF AtHost, HostConnect, HostSend, HostHangsUp, HostAck, Arrives
  <2>3. QED
    BY <1>0, <2>1, <2>2 DEF EthOK
<1>2. CASE OtherInterrupt
  BY <1>0, <1>2 DEF OtherInterrupt, EthOK
<1>3. CASE EnterEthernetEvent
  <2>1. iteration' \in 0 .. MAX_ITERATIONS - 1
    BY <1>3, Sizes DEF EnterEthernetEvent
  <2>2. QED
    BY <1>0, <1>3, <2>1 DEF EnterEthernetEvent, EthOK
<1>4. CASE Poll
  <2>1. PICK s : s = ProcessAll(sock, inbox)
    OBVIOUS
  <2>2. s \in Sockets /\ Emitted(s) \in Sockets
    BY <1>0, <2>1, ProcessAllIs, EmittedIs
  <2>3. sock' = s \/ sock' = Emitted(s)
    BY <1>4, <2>1 DEF Poll
  <2>4. /\ eth_pc' \in {"rx", "tx"} /\ due' = FALSE
        /\ UNCHANGED <<eth_pending, timer, iteration>>
    BY <1>4 DEF Poll
  <2>5. QED
    BY <1>0, <2>2, <2>3, <2>4 DEF EthOK
<1>5. CASE HandleTcpRx
  <2>1. sock' \in Sockets
    BY <1>0, <1>5, ReceivedIs
  <2>2. QED
    BY <1>0, <1>5, <2>1 DEF HandleTcpRx, EthOK
<1>6. CASE HandleTcpTx
  <2>1. sock' \in Sockets
    BY <1>0, <1>6, SendIs DEF HandleTcpTx, SendAndRelease
  <2>2. QED
    BY <1>0, <1>6, <2>1 DEF HandleTcpTx, EthOK
<1>7. CASE CloseOrListen
  <2>1. sock' \in Sockets
    BY <1>0, <1>7, CloseIs
  <2>2. QED
    BY <1>0, <1>7, <2>1 DEF CloseOrListen, EthOK
<1>8. CASE PollAt
  <2>1. iteration' \in 0 .. MAX_ITERATIONS - 1
    <3>1. \/ iteration' = 0
          \/ iteration' = iteration + 1 /\ iteration + 1 < MAX_ITERATIONS
      BY <1>8 DEF PollAt
    <3>2. MAX_ITERATIONS \in Nat /\ MAX_ITERATIONS >= 3 /\ iteration \in Nat
      BY <1>0, Sizes
    <3>3. QED
      BY <3>1, <3>2
  <2>2. eth_pc' \in {"poll", "idle"} /\ timer' \in BOOLEAN
    BY <1>0, <1>8 DEF PollAt
  <2>3. UNCHANGED <<sock, eth_pending, due>>
    BY <1>8 DEF PollAt
  <2>4. QED
    BY <1>0, <2>1, <2>2, <2>3 DEF EthOK
<1>9. CASE SmoltcpPollAt
  BY <1>0, <1>9 DEF SmoltcpPollAt, EthOK
<1>10. CASE InDispatch
  <2>1. UNCHANGED <<sock, timer, due, eth_pc, iteration>>
    BY <1>10, InDispatchLeaves
  <2>2. eth_pending' \in {TRUE, eth_pending}
    BY <1>10 DEF InDispatch, GrantReply, CommitReply, PendEth, DropReply, DispatchDone, eth
  <2>3. QED
    BY <1>0, <2>1, <2>2 DEF EthOK
<1>11. CASE UNCHANGED eth
  BY <1>0, <1>11 DEF eth, EthOK
<1>12. QED
  BY <1>1, <1>2, <1>3, <1>4, <1>5, <1>6, <1>7, <1>8, <1>9, <1>10, <1>11, Steps,
     TaskLeaves DEF AtInterrupt, vars

-----------------------------------------------------------------------------
(* The read grant of link_process *)

LEMMA FrameSeqs ==
  ASSUME FramePart
  PROVE  /\ Contents(eth_out) \in Seq(OutItems \union {Blank})
         /\ Len(Contents(eth_out)) \in Nat
         /\ Region(eth_out) \in Seq(OutItems \union {Blank})
         /\ Len(Region(eth_out)) \in Nat /\ Len(Region(eth_out)) <= OutSize
         /\ Len(Region(eth_out)) <= Len(Contents(eth_out))
         /\ IsFront(Region(eth_out), Contents(eth_out))
<1>1. WellFormed(eth_out, OutItems, OutSize)
  BY DEF FramePart
<1>2. /\ Contents(eth_out) \in Seq(OutItems \union {Blank})
      /\ Region(eth_out) \in Seq(OutItems \union {Blank})
      /\ ByPlace(Region(eth_out), Front(eth_out), eth_out)
      /\ IsFront(Region(eth_out), Contents(eth_out))
      /\ Indexed(eth_out, OutSize) /\ Counted(eth_out, OutSize)
  BY <1>1, ContentsIs, RegionIs, RegionFront, Indices
<1>3. Front(eth_out) <= OutSize
  BY <1>2 DEF Indexed, Counted
<1>4. QED
  BY <1>2, <1>3 DEF ByPlace, IsFront

(* A request in c is one of those sent. *)
LEMMA RequestIs ==
  ASSUME NEW c \in Seq(OutItems \union {Blank}), NEW k \in 1 .. Len(c),
         c[k].kind = "request"
  PROVE  c[k].n \in 1 .. MaxRequests /\ c[k] = Request(c[k].n)
<1>1. c[k] \in OutItems \union {Blank}
  BY ElementOfSeq
<1>2. PICK e : e = c[k]
  OBVIOUS
<1>3. e \in [kind : {"request"}, n : 1 .. MaxRequests]
  BY <1>1, <1>2 DEF OutItems, Blank, Cell
<1>4. QED
  BY <1>2, <1>3 DEF Request, Cell

(* What read() grants begins with an event. *)
LEMMA GrantedIs ==
  ASSUME FramePart, Len(Region(eth_out)) # 0
  PROVE  /\ 2 <= Len(Region(eth_out))
         /\ Region(eth_out)[2] = Contents(eth_out)[2]
         /\ Contents(eth_out)[1].kind = "endpoint"
         /\ Contents(eth_out)[2].n \in 1 .. MaxRequests
         /\ Contents(eth_out)[2] = Request(Contents(eth_out)[2].n)
<1>1. PICK c, g : c = Contents(eth_out) /\ g = Region(eth_out)
  OBVIOUS
<1>2. /\ c \in Seq(OutItems \union {Blank}) /\ Len(c) \in Nat /\ Len(g) \in Nat
      /\ Len(g) <= Len(c) /\ IsFront(g, c)
  BY <1>1, FrameSeqs
<1>3. Frames(c, Len(g)) /\ Len(g) # 0
  BY <1>1 DEF FramePart
<1>4. Len(c) > 0 /\ 1 \in 1 .. Len(c)
  BY <1>2, <1>3
<1>5. c[1].kind = "endpoint"
  BY <1>3, <1>4 DEF Frames
<1>6. 1 < Len(c) /\ c[1 + 1].kind = "request"
  BY <1>3, <1>4, <1>5 DEF Frames
<1>7. 2 \in 1 .. Len(c) /\ c[2].kind = "request"
  BY <1>2, <1>6
<1>8. c[2].n \in 1 .. MaxRequests /\ c[2] = Request(c[2].n)
  BY <1>2, <1>7, RequestIs
<1>9. Len(g) # 1
  <2>1. SUFFICES ASSUME Len(g) = 1 PROVE FALSE
    OBVIOUS
  <2>2. c[1 + 1].kind = "endpoint"
    BY <1>3, <1>6, <2>1 DEF Frames
  <2>3. QED
    BY <1>6, <2>2
<1>10. 2 <= Len(g) /\ 2 \in 1 .. Len(g)
  <2>1. PICK m \in Nat : m = Len(g)
    BY <1>2
  <2>2. m # 0 /\ m # 1
    BY <1>3, <1>9, <2>1
  <2>3. QED
    BY <2>1, <2>2
<1>11. g[2] = c[2]
  BY <1>2, <1>10 DEF IsFront
<1>12. QED
  BY <1>1, <1>5, <1>8, <1>10, <1>11

LEMMA LinkStep ==
  ASSUME LinkOK, FramePart, StreamPart, [Next]_vars
  PROVE  LinkOK'
<1>0. /\ link_ready \in BOOLEAN
      /\ link_pc \in {"idle", "read", "dispatch", "fill", "pend", "release"}
      /\ rgr_len \in 0 .. OutSize /\ batch \in 0 .. MAX_REPLY_BATCHES
      /\ wgr \in 0 .. InSize \union {None}
      /\ dispatched \in 0 .. MaxRequests /\ replies \in Nat
  BY DEF LinkOK
<1>1. CASE HandleTcpRx
  <2>1. UNCHANGED link /\ link_ready' \in {TRUE, link_ready}
    BY <1>1 DEF HandleTcpRx
  <2>2. QED
    BY <1>0, <2>1 DEF link, LinkOK
<1>2. CASE LinkStart
  BY <1>0, <1>2 DEF LinkStart, LinkOK
<1>3. CASE LinkRead
  <2>1. rgr_len' = Len(Region(eth_out)) /\ batch' = 0 /\ link_pc' \in {"idle", "dispatch"}
    BY <1>3 DEF LinkRead
  <2>2. rgr_len' \in 0 .. OutSize
    BY <2>1, FrameSeqs, Sizes
  <2>3. dispatched' \in 0 .. MaxRequests
    <3>1. CASE Region(eth_out) = <<>>
      BY <1>0, <1>3, <3>1 DEF LinkRead
    <3>2. CASE Region(eth_out) # <<>>
      <4>1. Len(Region(eth_out)) # 0
        BY <3>2, FrameSeqs, EmptySeq
      <4>2. dispatched' = Region(eth_out)[2].n
        BY <1>3, <3>2 DEF LinkRead
      <4>3. QED
        BY <4>1, <4>2, GrantedIs, Sizes
    <3>3. QED
      BY <3>1, <3>2
  <2>4. batch' \in 0 .. MAX_REPLY_BATCHES
    BY <2>1, Sizes
  <2>5. UNCHANGED <<link_ready, wgr, replies>>
    BY <1>3 DEF LinkRead
  <2>6. QED
    BY <1>0, <2>1, <2>2, <2>3, <2>4, <2>5 DEF LinkOK
<1>4. CASE GrantReply
  <2>1. /\ UNCHANGED <<link_ready, rgr_len, dispatched, replies>>
        /\ link_pc' \in {"release", "fill"}
    BY <1>4 DEF GrantReply
  <2>2. batch' \in 0 .. MAX_REPLY_BATCHES
    BY <1>0, <1>4, Sizes DEF GrantReply
  <2>3. wgr' \in 0 .. InSize \union {None}
    <3>1. wgr' = GrantExact(eth_in, REPLY_MTU)
      BY <1>4 DEF GrantReply
    <3>2. CASE wgr' = Failed
      BY <3>2 DEF Failed, None
    <3>3. CASE wgr' # Failed
      <4>1. wgr' \in Nat /\ wgr' <= InSize
        BY <3>1, <3>3, GrantIs, Sizes DEF StreamPart
      <4>2. QED
        BY <4>1, Sizes
    <3>4. QED
      BY <3>2, <3>3
  <2>4. QED
    BY <1>0, <2>1, <2>2, <2>3 DEF LinkOK
<1>5. CASE CommitReply
  <2>1. PICK len \in 1 .. REPLY_MTU : replies' = replies + len
    BY <1>5 DEF CommitReply
  <2>2. replies' \in Nat
    BY <1>0, <2>1, Sizes
  <2>3. /\ UNCHANGED <<link_ready, rgr_len, batch, dispatched>>
        /\ link_pc' = "pend" /\ wgr' = None
    BY <1>5 DEF CommitReply
  <2>4. QED
    BY <1>0, <2>2, <2>3 DEF LinkOK
<1>6. CASE PendEth
  BY <1>0, <1>6 DEF PendEth, LinkOK
<1>7. CASE DropReply
  BY <1>0, <1>7 DEF DropReply, LinkOK
<1>8. CASE DispatchDone
  BY <1>0, <1>8 DEF DispatchDone, LinkOK
<1>9. CASE LinkRelease
  <2>1. /\ UNCHANGED <<link_ready, dispatched, replies>>
        /\ link_pc' = "idle" /\ rgr_len' = 0 /\ batch' = 0 /\ wgr' = None
    BY <1>9 DEF LinkRelease
  <2>2. 0 \in 0 .. OutSize /\ 0 \in 0 .. MAX_REPLY_BATCHES
    BY Sizes
  <2>3. QED
    BY <1>0, <2>1, <2>2 DEF LinkOK
<1>10. CASE UNCHANGED <<link_ready, link>>
  BY <1>0, <1>10 DEF link, LinkOK
<1>11. QED
  BY <1>1, <1>2, <1>3, <1>4, <1>5, <1>6, <1>7, <1>8, <1>9, <1>10, Steps,
     AtHostLeaves, AtInterruptLeaves DEF InDispatch, vars

-----------------------------------------------------------------------------
(* The frames *)

(* handle_tcp_rx drops what it read, or commits it as a frame. *)
RxCommits == /\ Len(sock.rx) \in Nat \ {0} /\ sock.conn # 0 /\ link_ready' = TRUE
             /\ \E start : ACommit(eth_out, OutItems, OutSize, start, Contiguous(sock) + 1,
                                   Frame(sock), eth_out')

LEMMA RxIs ==
  ASSUME FramePart, sock \in Sockets, HandleTcpRx
  PROVE  UNCHANGED <<eth_out, link_ready>> \/ RxCommits
<1>1. PICK start, n : n = Contiguous(sock) + 1 /\ start = GrantExact(eth_out, n)
  OBVIOUS
<1>2. SUFFICES ASSUME sock.rx # <<>>, sock.conn # 0, start # Failed
               PROVE  RxCommits
  BY <1>1 DEF HandleTcpRx
<1>3. sock.rx \in Seq(1 .. MaxRequests)
  BY SocketFields
<1>4. Len(sock.rx) \in Nat \ {0}
  BY <1>2, <1>3, EmptySeq
<1>5. n \in Nat \ {0}
  BY <1>1, RestIs
<1>6. WellFormed(eth_out, OutItems, OutSize)
  BY DEF FramePart
<1>7. start \in Nat /\ Granted(eth_out, start, n)
  BY <1>1, <1>2, <1>5, <1>6, GrantIs
<1>8. Frame(sock) \in Seq(OutItems) /\ Len(Frame(sock)) <= n
  <2>1. Frame(sock) \in Seq(OutItems) /\ Len(Frame(sock)) = Contiguous(sock) + 1
    BY <1>2, FrameIs
  <2>2. QED
    BY <1>1, <1>5, <2>1
<1>9. eth_out' = Commit(eth_out, start, Frame(sock)) /\ link_ready' = TRUE
  BY <1>1, <1>2 DEF HandleTcpRx
<1>10. ACommit(eth_out, OutItems, OutSize, start, n, Frame(sock), eth_out')
  BY <1>5, <1>6, <1>7, <1>8, <1>9 DEF ACommit
<1>11. QED
  BY <1>1, <1>2, <1>4, <1>9, <1>10 DEF RxCommits

(* A commit joins a frame to the contents. *)
LEMMA RxJoins ==
  ASSUME FramePart, sock \in Sockets, RxCommits
  PROVE  /\ WellFormed(eth_out', OutItems, OutSize)
         /\ Joined(Contents(eth_out), Frame(sock), Contents(eth_out'))
<1>1. PICK p : p = eth_out'
  OBVIOUS
<1>2. PICK start : ACommit(eth_out, OutItems, OutSize, start, Contiguous(sock) + 1,
                           Frame(sock), p)
  BY <1>1 DEF RxCommits
<1>3. /\ WellFormed(p, OutItems, OutSize)
      /\ Contents(p) = Contents(eth_out) \o Frame(sock)
  BY <1>2, CommitAppends
<1>4. Frame(sock) \in Seq(OutItems)
  BY <1>2 DEF ACommit
<1>5. Contents(eth_out) \in Seq(OutItems \union {Blank})
  BY FrameSeqs
<1>6. Joined(Contents(eth_out), Frame(sock), Contents(p))
  BY <1>3, <1>4, <1>5, JoinedIs
<1>7. QED
  BY <1>1, <1>3, <1>6

LEMMA FrameKinds ==
  ASSUME sock \in Sockets, sock.conn # 0, Len(sock.rx) \in Nat \ {0}
  PROVE  /\ Len(Frame(sock)) >= 2 /\ Frame(sock)[1].kind = "endpoint"
         /\ \A k \in 2 .. Len(Frame(sock)) : Frame(sock)[k].kind = "request"
<1>1. PICK s, x, n : s = Frame(sock) /\ x = sock.rx /\ n = Contiguous(sock)
  OBVIOUS
<1>2. /\ Len(s) = n + 1 /\ s[1] = Endpoint(sock.conn)
      /\ \A k \in 1 .. n : s[k + 1] = Request(x[k])
      /\ n \in Nat \ {0}
  BY <1>1, FrameIs, RestIs
<1>3. ASSUME NEW k \in 2 .. Len(s) PROVE s[k].kind = "request"
  <2>1. k - 1 \in 1 .. n /\ (k - 1) + 1 = k
    BY <1>2
  <2>2. s[(k - 1) + 1] = Request(x[k - 1])
    BY <1>2, <2>1
  <2>3. QED
    BY <2>1, <2>2 DEF Request, Cell
<1>4. Len(s) >= 2
  BY <1>2
<1>5. QED
  BY <1>1, <1>2, <1>3, <1>4 DEF Endpoint, Cell

LEMMA RxFrames ==
  ASSUME FramePart, sock \in Sockets, RxCommits
  PROVE  /\ Frames(Contents(eth_out'), Len(Region(eth_out')))
         /\ \A n \in Nat : \A d : Holds(eth_out, n, d) => Holds(eth_out', n, d)
<1>1. PICK p, q, c, d, s, m, m2 :
        /\ p = eth_out' /\ q = eth_out /\ c = Contents(q) /\ d = Contents(p)
        /\ s = Frame(sock) /\ m = Len(Region(q)) /\ m2 = Len(Region(p))
  OBVIOUS
<1>2. PICK start : ACommit(q, OutItems, OutSize, start, Contiguous(sock) + 1, s, p)
  BY <1>1 DEF RxCommits
<1>3. WellFormed(p, OutItems, OutSize) /\ Joined(c, s, d)
  BY <1>1, RxJoins
<1>4. /\ Len(s) >= 2 /\ s[1].kind = "endpoint"
      /\ \A k \in 2 .. Len(s) : s[k].kind = "request"
  BY <1>1, FrameKinds DEF RxCommits
<1>5. Frames(c, m) /\ m \in Nat /\ m <= Len(c) /\ Len(c) \in Nat
  BY <1>1, FrameSeqs DEF FramePart
<1>6. m2 \in Nat
  BY <1>1, <1>3, RegionIs
<1>7. m2 < Len(d) => \/ m2 = Len(c)
                     \/ m2 = m /\ m < Len(c)
  BY <1>1, <1>2, CommitBoundary
<1>8. Frames(d, m2)
  BY <1>3, <1>4, <1>5, <1>6, <1>7, FramesAppend
<1>9. ASSUME NEW n \in Nat, NEW e, Holds(q, n, e) PROVE Holds(p, n, e)
  <2>1. /\ Read(q) = q /\ 2 <= n /\ n <= m /\ c[2] = Request(e)
        /\ n < Len(c) => c[n + 1].kind = "endpoint"
    BY <1>1, <1>9 DEF Holds
  <2>2. m # 0
    BY <1>5, <2>1
  <2>3. Read(p) = p /\ m <= m2
    BY <1>1, <1>2, <2>1, <2>2, CommitKeepsRegion
  <2>4. n <= m2
    BY <1>5, <1>6, <2>1, <2>3
  <2>5. /\ Len(d) = Len(c) + Len(s) /\ Len(s) \in Nat
        /\ \A k \in 1 .. Len(c) : d[k] = c[k]
        /\ \A k \in 1 .. Len(s) : d[Len(c) + k] = s[k]
    BY <1>3 DEF Joined
  <2>6. d[2] = Request(e)
    <3>1. 2 \in 1 .. Len(c)
      BY <1>5, <2>1
    <3>2. QED
      BY <2>1, <2>5, <3>1
  <2>7. d[n + 1].kind = "endpoint"
    <3>1. CASE n < Len(c)
      <4>1. n + 1 \in 1 .. Len(c)
        BY <1>5, <3>1
      <4>2. QED
        BY <2>1, <2>5, <3>1, <4>1
    <3>2. CASE n = Len(c)
      <4>1. 1 \in 1 .. Len(s)
        BY <1>4, <2>5
      <4>2. QED
        BY <1>4, <2>5, <3>2, <4>1
    <3>3. n < Len(c) \/ n = Len(c)
      BY <1>5, <2>1
    <3>4. QED
      BY <3>1, <3>2, <3>3
  <2>8. QED
    BY <1>1, <2>1, <2>3, <2>4, <2>6, <2>7 DEF Holds
<1>10. QED
  BY <1>1, <1>8, <1>9

(* The release of a grant. *)
LEMMA ReleaseIs ==
  ASSUME FramePart, LinkOK, LinkRelease
  PROVE  /\ ARelease(eth_out, OutItems, OutSize, rgr_len, eth_out')
         /\ Holds(eth_out, rgr_len, dispatched) /\ Granting
<1>1. Granting
  BY DEF LinkRelease, Granting
<1>2. Holds(eth_out, rgr_len, dispatched) /\ WellFormed(eth_out, OutItems, OutSize)
  BY <1>1 DEF FramePart
<1>3. rgr_len \in Nat
  BY Sizes DEF LinkOK
<1>4. eth_out' = Release(eth_out, rgr_len)
  BY DEF LinkRelease
<1>5. QED
  BY <1>1, <1>2, <1>3, <1>4 DEF ARelease, Holds

LEMMA FrameStep ==
  ASSUME FramePart, EthOK, LinkOK, [Next]_vars
  PROVE  FramePart'
<1>0. /\ WellFormed(eth_out, OutItems, OutSize)
      /\ Frames(Contents(eth_out), Len(Region(eth_out)))
      /\ Granting => Holds(eth_out, rgr_len, dispatched)
      /\ Granting /\ ~link_ready => rgr_len = Len(Region(eth_out))
  BY DEF FramePart
<1>1. SUFFICES /\ WellFormed(eth_out', OutItems, OutSize)
               /\ Frames(Contents(eth_out'), Len(Region(eth_out')))
               /\ Granting' => Holds(eth_out', rgr_len', dispatched')
               /\ Granting' /\ ~link_ready' => rgr_len' = Len(Region(eth_out'))
  BY DEF FramePart
<1>2. CASE UNCHANGED <<eth_out, link_ready, rgr_len, dispatched>> /\ Granting' = Granting
  BY <1>0, <1>2
<1>3. CASE UNCHANGED <<eth_out, link_ready, link>>
  BY <1>2, <1>3 DEF link, Granting
<1>4. CASE HandleTcpRx
  <2>1. UNCHANGED <<rgr_len, dispatched, link_pc>>
    BY <1>4, RxLeaves DEF link
  <2>2. CASE UNCHANGED <<eth_out, link_ready>>
    BY <1>2, <2>1, <2>2 DEF Granting
  <2>3. CASE RxCommits
    <3>1. sock \in Sockets /\ link_ready' = TRUE /\ rgr_len \in Nat
      BY <2>3, Sizes DEF EthOK, LinkOK, RxCommits
    <3>2. /\ WellFormed(eth_out', OutItems, OutSize)
          /\ Frames(Contents(eth_out'), Len(Region(eth_out')))
          /\ \A n \in Nat : \A d : Holds(eth_out, n, d) => Holds(eth_out', n, d)
      BY <2>3, <3>1, RxJoins, RxFrames
    <3>3. Granting' = Granting
      BY <2>1 DEF Granting
    <3>4. QED
      BY <1>0, <2>1, <3>1, <3>2, <3>3
  <2>4. QED
    BY <1>4, <2>2, <2>3, RxIs DEF EthOK
<1>5. CASE LinkStart
  BY <1>0, <1>5 DEF LinkStart, Granting
<1>6. CASE LinkRead
  <2>1. /\ eth_out' = Read(eth_out) /\ rgr_len' = Len(Region(eth_out))
        /\ Region(eth_out) = <<>> => link_pc' = "idle"
        /\ Region(eth_out) # <<>> => dispatched' = Region(eth_out)[2].n
    BY <1>6 DEF LinkRead
  <2>2. PICK p, q : p = eth_out' /\ q = eth_out
    OBVIOUS
  <2>3. /\ WellFormed(p, OutItems, OutSize) /\ Read(p) = p
        /\ Contents(p) = Contents(q) /\ Region(p) = Region(q)
    BY <1>0, <2>1, <2>2, ReadIs
  <2>4. ASSUME Granting' PROVE Holds(p, rgr_len', dispatched')
    <3>1. Region(q) # <<>>
      BY <2>1, <2>2, <2>4 DEF Granting
    <3>2. Len(Region(q)) # 0 /\ Len(Region(q)) \in Nat
      BY <2>2, <3>1, FrameSeqs, EmptySeq
    <3>3. /\ 2 <= Len(Region(q)) /\ Region(q)[2] = Contents(q)[2]
          /\ Contents(q)[2] = Request(Contents(q)[2].n)
      BY <2>2, <3>2, GrantedIs
    <3>4. Contents(p)[2] = Request(dispatched')
      BY <2>1, <2>2, <2>3, <3>1, <3>3
    <3>5. rgr_len' < Len(Contents(p)) => Contents(p)[rgr_len' + 1].kind = "endpoint"
      BY <1>0, <2>1, <2>2, <2>3 DEF Frames
    <3>6. rgr_len' = Len(Region(p)) /\ 2 <= rgr_len' /\ rgr_len' <= Len(Region(p))
      BY <2>1, <2>2, <2>3, <3>2, <3>3
    <3>7. QED
      BY <2>3, <3>4, <3>5, <3>6 DEF Holds
  <2>5. QED
    BY <1>0, <2>1, <2>2, <2>3, <2>4
<1>7. CASE InDispatch
  BY <1>2, <1>7, InDispatchLeaves
<1>8. CASE LinkRelease
  <2>1. PICK p, q, n, c, d : /\ p = eth_out' /\ q = eth_out /\ n = rgr_len
                             /\ c = Contents(q) /\ d = Contents(p)
    OBVIOUS
  <2>2. ARelease(q, OutItems, OutSize, n, p) /\ Holds(q, n, dispatched)
    BY <1>8, <2>1, ReleaseIs
  <2>3. WellFormed(p, OutItems, OutSize) /\ Drops(c, n, d)
    BY <2>1, <2>2, ReleaseDrops
  <2>4. Len(Region(p)) < Len(d) => Len(Region(p)) = Len(Region(q)) - n
    BY <2>1, <2>2, ReleaseBoundary
  <2>5. n < Len(c) => c[n + 1].kind = "endpoint"
    BY <2>1, <2>2 DEF Holds
  <2>6. n \in Nat /\ Len(Region(p)) \in Nat
    BY <2>2, <2>3, RegionIs DEF ARelease
  <2>7. Frames(c, Len(Region(q))) /\ Len(Region(q)) \in Nat /\ Len(c) \in Nat
    BY <1>0, <2>1, FrameSeqs
  <2>8. Frames(d, Len(Region(p)))
    BY <2>3, <2>4, <2>5, <2>6, <2>7, FramesDrop
  <2>9. ~Granting'
    BY <1>8 DEF LinkRelease, Granting
  <2>10. QED
    BY <2>1, <2>3, <2>8, <2>9
<1>9. CASE UNCHANGED vars
  BY <1>3, <1>9 DEF vars
<1>10. QED
  BY <1>3, <1>4, <1>5, <1>6, <1>7, <1>8, <1>9, Steps, AtHostLeaves, AtInterruptLeaves

(* Nothing is left unread but behind a wrap. *)
LEMMA StrandedStep ==
  ASSUME StrandedOnlyByWrap, FramePart, EthOK, LinkOK, [Next]_vars
  PROVE  StrandedOnlyByWrap'
<1>0. WellFormed(eth_out, OutItems, OutSize)
  BY DEF FramePart
<1>1. CASE UNCHANGED <<eth_out, link_ready, link>>
  BY <1>1 DEF link, StrandedOnlyByWrap
<1>2. CASE HandleTcpRx
  <2>1. link_pc' = link_pc
    BY <1>2, RxLeaves DEF link
  <2>2. CASE UNCHANGED <<eth_out, link_ready>>
    BY <2>1, <2>2 DEF StrandedOnlyByWrap
  <2>3. CASE RxCommits
    BY <2>3 DEF RxCommits, StrandedOnlyByWrap
  <2>4. QED
    BY <1>2, <2>2, <2>3, RxIs DEF EthOK
<1>3. CASE LinkStart
  BY <1>3 DEF LinkStart, StrandedOnlyByWrap
<1>4. CASE LinkRead
  <2>1. /\ eth_out' = Read(eth_out)
        /\ Region(eth_out) # <<>> => link_pc' = "dispatch"
    BY <1>4 DEF LinkRead
  <2>2. CASE Region(eth_out) = <<>>
    <3>1. PICK c : c = Contents(eth_out)
      OBVIOUS
    <3>2. c \in Seq(OutItems \union {Blank}) /\ Len(c) = 0
      BY <2>2, <3>1, FrameSeqs DEF IsFront
    <3>3. c = <<>>
      BY <3>2, EmptySeq
    <3>4. Contents(eth_out') = <<>>
      BY <1>0, <2>1, <3>1, <3>3, ReadIs
    <3>5. QED
      BY <3>4 DEF StrandedOnlyByWrap
  <2>3. CASE Region(eth_out) # <<>>
    BY <2>1, <2>3 DEF StrandedOnlyByWrap
  <2>4. QED
    BY <2>2, <2>3
<1>5. CASE InDispatch
  BY <1>5, InDispatchLeaves DEF Granting, StrandedOnlyByWrap
<1>6. CASE LinkRelease
  <2>1. SUFFICES ASSUME ~link_ready', Contents(eth_out') # <<>>
                 PROVE  Read(eth_out') # eth_out'
    BY DEF StrandedOnlyByWrap
  <2>2. PICK p : p = eth_out'
    OBVIOUS
  <2>3. ARelease(eth_out, OutItems, OutSize, rgr_len, p) /\ Granting
    BY <1>6, <2>2, ReleaseIs
  <2>4. link_ready' = link_ready
    BY <1>6 DEF LinkRelease
  <2>5. rgr_len = Len(Region(eth_out))
    BY <2>1, <2>3, <2>4 DEF FramePart
  <2>6. Contents(p) \in Seq(OutItems \union {Blank})
    BY <2>3, ReleaseDrops, ContentsIs
  <2>7. Len(Contents(p)) # 0
    BY <2>1, <2>2, <2>6, EmptySeq
  <2>8. QED
    BY <2>2, <2>3, <2>5, <2>7, ReleaseAll
<1>7. QED
  BY <1>1, <1>2, <1>3, <1>4, <1>5, <1>6, Steps, AtHostLeaves, AtInterruptLeaves DEF vars

-----------------------------------------------------------------------------
(* The order of the requests *)

Numbered(s) == \A k \in 1 .. Len(s) : s[k].n \in Nat

LEMMA InOrderAppend ==
  ASSUME NEW T, NEW s \in Seq(T), NEW p \in T, NEW kind, Numbered(s),
         NEW lo \in Nat, NEW hi \in Nat, NEW hi2 \in Nat, lo <= hi, hi <= hi2,
         InOrder(s, kind, lo, hi),
         p.kind = kind => p.n \in Nat /\ hi < p.n /\ p.n <= hi2
  PROVE  InOrder(Append(s, p), kind, lo, hi2)
<1>1. PICK u : u = Append(s, p)
  OBVIOUS
<1>2. /\ Len(s) \in Nat /\ Len(u) = Len(s) + 1 /\ u[Len(s) + 1] = p
      /\ \A k \in 1 .. Len(s) : u[k] = s[k]
  BY <1>1
<1>3. \A k \in 1 .. Len(u) : k \in 1 .. Len(s) \/ k = Len(s) + 1
  BY <1>2
<1>4. \A k \in 1 .. Len(s) : s[k].kind = kind
        => lo < s[k].n /\ s[k].n <= hi /\ s[k].n \in Nat
  BY DEF InOrder, Numbered
<1>5. ASSUME NEW k \in 1 .. Len(u), u[k].kind = kind
      PROVE  lo < u[k].n /\ u[k].n <= hi2
  <2>1. CASE k \in 1 .. Len(s)
    BY <1>2, <1>4, <1>5, <2>1
  <2>2. CASE k = Len(s) + 1
    BY <1>2, <1>5, <2>2
  <2>3. QED
    BY <1>3, <2>1, <2>2
<1>6. ASSUME NEW j \in 1 .. Len(u), NEW k \in 1 .. Len(u), j < k,
             u[j].kind = kind, u[k].kind = kind
      PROVE  u[j].n < u[k].n
  <2>1. j \in 1 .. Len(s)
    BY <1>2, <1>6
  <2>2. CASE k \in 1 .. Len(s)
    BY <1>2, <1>6, <2>1, <2>2 DEF InOrder
  <2>3. CASE k = Len(s) + 1
    BY <1>2, <1>4, <1>6, <2>1, <2>3
  <2>4. QED
    BY <1>3, <2>2, <2>3
<1>7. QED
  BY <1>1, <1>5, <1>6 DEF InOrder

(* Two stretches, the second above the first. *)
LEMMA InOrderJoined ==
  ASSUME NEW c, NEW s, NEW d, Joined(c, s, d), NEW kind, Numbered(c), Numbered(s),
         NEW lo \in Int, NEW mid \in Nat, NEW hi \in Nat, lo <= mid, mid <= hi,
         InOrder(c, kind, lo, mid), InOrder(s, kind, mid, hi)
  PROVE  InOrder(d, kind, lo, hi)
<1>1. /\ Len(c) \in Nat /\ Len(s) \in Nat
      /\ \A k \in 1 .. Len(c) : d[k] = c[k]
      /\ \A k \in 1 .. Len(s) : d[Len(c) + k] = s[k]
      /\ \A k \in 1 .. Len(d) : \/ k \in 1 .. Len(c)
                                \/ /\ k - Len(c) \in 1 .. Len(s)
                                   /\ Len(c) + (k - Len(c)) = k
  BY DEF Joined
<1>2. \A k \in 1 .. Len(c) : c[k].kind = kind
        => lo < c[k].n /\ c[k].n <= mid /\ c[k].n \in Nat
  BY DEF InOrder, Numbered
<1>3. \A k \in 1 .. Len(s) : s[k].kind = kind
        => mid < s[k].n /\ s[k].n <= hi /\ s[k].n \in Nat
  BY DEF InOrder, Numbered
<1>4. ASSUME NEW k \in 1 .. Len(d)
      PROVE  \/ k \in 1 .. Len(c) /\ d[k] = c[k]
             \/ \E i \in 1 .. Len(s) : i = k - Len(c) /\ d[k] = s[i]
  <2>1. CASE k \in 1 .. Len(c)
    BY <1>1, <2>1
  <2>2. CASE k - Len(c) \in 1 .. Len(s) /\ Len(c) + (k - Len(c)) = k
    BY <1>1, <2>2
  <2>3. QED
    BY <1>1, <2>1, <2>2
<1>5. ASSUME NEW k \in 1 .. Len(d), d[k].kind = kind
      PROVE  lo < d[k].n /\ d[k].n <= hi
  <2>1. CASE k \in 1 .. Len(c) /\ d[k] = c[k]
    BY <1>2, <1>5, <2>1
  <2>2. CASE \E i \in 1 .. Len(s) : d[k] = s[i]
    BY <1>3, <1>5, <2>2
  <2>3. QED
    BY <1>4, <2>1, <2>2
<1>6. ASSUME NEW j \in 1 .. Len(d), NEW k \in 1 .. Len(d), j < k,
             d[j].kind = kind, d[k].kind = kind
      PROVE  d[j].n < d[k].n
  <2>1. CASE j \in 1 .. Len(c) /\ d[j] = c[j]
    <3>1. CASE k \in 1 .. Len(c) /\ d[k] = c[k]
      BY <1>6, <2>1, <3>1 DEF InOrder
    <3>2. CASE \E i \in 1 .. Len(s) : d[k] = s[i]
      <4>1. d[j].n <= mid /\ d[j].n \in Nat
        BY <1>2, <1>6, <2>1
      <4>2. mid < d[k].n /\ d[k].n \in Nat
        BY <1>3, <1>6, <3>2
      <4>3. QED
        BY <4>1, <4>2
    <3>3. QED
      BY <1>4, <3>1, <3>2
  <2>2. CASE \E i \in 1 .. Len(s) : i = j - Len(c) /\ d[j] = s[i]
    <3>1. PICK i \in 1 .. Len(s) : i = j - Len(c) /\ d[j] = s[i]
      BY <2>2
    <3>2. ~(k \in 1 .. Len(c))
      BY <1>1, <1>6, <3>1
    <3>3. PICK m \in 1 .. Len(s) : m = k - Len(c) /\ d[k] = s[m]
      BY <1>4, <3>2
    <3>4. i < m
      BY <1>1, <1>6, <3>1, <3>3
    <3>5. QED
      BY <1>6, <3>1, <3>3, <3>4 DEF InOrder
  <2>3. QED
    BY <1>4, <2>1, <2>2
<1>7. QED
  BY <1>5, <1>6 DEF InOrder

LEMMA InboxNumbered ==
  ASSUME NetOK
  PROVE  Numbered(inbox)
<1>1. ASSUME NEW p \in Packets PROVE p.n \in Nat
  BY Sizes DEF Packets
<1>2. inbox \in Seq(Packets)
  BY DEF NetOK
<1>3. QED
  BY <1>1, <1>2, ElementOfSeq DEF Numbered

LEMMA ItemsNumbered ==
  ASSUME NEW c \in Seq(OutItems \union {Blank})
  PROVE  Numbered(c)
<1>1. ASSUME NEW e \in OutItems \union {Blank} PROVE e.n \in Nat
  BY Sizes DEF OutItems, Blank, Cell
<1>2. QED
  BY <1>1, ElementOfSeq DEF Numbered

(* A frame is in the order of what was received, and the rest is newer. *)
LEMMA FrameInOrder ==
  ASSUME sock \in Sockets, sock.conn # 0, Len(sock.rx) # 0, NEW a \in Nat, NEW b \in Nat,
         Ascending(sock.rx, a, b)
  PROVE  \E e \in Nat : /\ a < e /\ e <= b
                        /\ InOrder(Frame(sock), "request", a, e)
                        /\ Ascending(Rest(sock), e, b)
<1>1. PICK s, x, n, u : /\ s = Frame(sock) /\ x = sock.rx /\ n = Contiguous(sock)
                        /\ u = Rest(sock)
  OBVIOUS
<1>2. /\ Len(s) = n + 1 /\ s[1] = Endpoint(sock.conn)
      /\ \A k \in 1 .. n : s[k + 1] = Request(x[k])
  BY <1>1, FrameIs
<1>3. /\ n \in 1 .. Len(x) /\ Len(x) \in Nat
      /\ Len(u) = Len(x) - n /\ \A k \in 1 .. Len(u) : u[k] = x[n + k]
  <2>1. /\ n \in 0 .. Len(x) /\ Len(x) \in Nat /\ Len(u) = Len(x) - n
        /\ Len(x) # 0 => n # 0
    BY <1>1, RestIs
  <2>2. \A k \in 1 .. Len(u) : u[k] = x[n + k]
    BY <1>1, RestIs
  <2>3. Len(x) # 0
    BY <1>1
  <2>4. QED
    BY <2>1, <2>2, <2>3
<1>4. \A k \in 1 .. Len(x) : x[k] \in Nat /\ a < x[k] /\ x[k] <= b
  <2>1. x \in Seq(1 .. MaxRequests)
    BY <1>1, SocketFields
  <2>2. ASSUME NEW k \in 1 .. Len(x) PROVE x[k] \in Nat
    <3>1. x[k] \in 1 .. MaxRequests
      BY <2>1, ElementOfSeq
    <3>2. QED
      BY <3>1, Sizes
  <2>3. QED
    BY <1>1, <2>2 DEF Ascending
<1>5. \A j, k \in 1 .. Len(x) : j < k => x[j] < x[k]
  BY <1>1 DEF Ascending
<1>6. PICK e : e = x[n]
  OBVIOUS
<1>7. e \in Nat /\ a < e /\ e <= b
  BY <1>3, <1>4, <1>6
<1>8. ASSUME NEW k \in 1 .. Len(s), s[k].kind = "request"
      PROVE  k - 1 \in 1 .. n /\ s[k].n = x[k - 1]
  <2>1. k # 1
    BY <1>2, <1>8 DEF Endpoint, Cell
  <2>2. k - 1 \in 1 .. n /\ (k - 1) + 1 = k
    BY <1>2, <1>3, <2>1
  <2>3. s[(k - 1) + 1] = Request(x[k - 1])
    BY <1>2, <2>2
  <2>4. QED
    BY <2>2, <2>3 DEF Request, Cell
<1>9. \A k \in 1 .. n : x[k] <= e
  <2>1. ASSUME NEW k \in 1 .. n PROVE x[k] <= e
    <3>1. k \in 1 .. Len(x) /\ n \in 1 .. Len(x) /\ (k = n \/ k < n)
      BY <1>3
    <3>2. QED
      BY <1>4, <1>5, <1>6, <1>7, <3>1
  <2>2. QED
    BY <2>1
<1>10. InOrder(s, "request", a, e)
  <2>1. ASSUME NEW k \in 1 .. Len(s), s[k].kind = "request"
        PROVE  a < s[k].n /\ s[k].n <= e
    <3>1. k - 1 \in 1 .. n /\ k - 1 \in 1 .. Len(x) /\ s[k].n = x[k - 1]
      BY <1>3, <1>8, <2>1
    <3>2. QED
      BY <1>4, <1>9, <3>1
  <2>2. ASSUME NEW j \in 1 .. Len(s), NEW k \in 1 .. Len(s), j < k,
               s[j].kind = "request", s[k].kind = "request"
        PROVE  s[j].n < s[k].n
    <3>1. /\ j - 1 \in 1 .. n /\ s[j].n = x[j - 1]
          /\ k - 1 \in 1 .. n /\ s[k].n = x[k - 1]
      BY <1>8, <2>2
    <3>2. j - 1 \in 1 .. Len(x) /\ k - 1 \in 1 .. Len(x) /\ j - 1 < k - 1
      BY <1>3, <2>2, <3>1
    <3>3. QED
      BY <1>5, <3>1, <3>2
  <2>3. QED
    BY <2>1, <2>2 DEF InOrder
<1>11. Ascending(u, e, b)
  <2>1. ASSUME NEW k \in 1 .. Len(u)
        PROVE  u[k] = x[n + k] /\ n + k \in 1 .. Len(x) /\ n < n + k
    BY <1>3
  <2>2. n \in 1 .. Len(x)
    BY <1>3
  <2>3. ASSUME NEW k \in 1 .. Len(u) PROVE e < u[k] /\ u[k] <= b
    BY <1>4, <1>5, <1>6, <2>1, <2>2
  <2>4. ASSUME NEW j \in 1 .. Len(u), NEW k \in 1 .. Len(u), j < k PROVE u[j] < u[k]
    <3>1. n + j < n + k
      BY <1>3, <2>4
    <3>2. QED
      BY <1>5, <2>1, <3>1
  <2>5. QED
    BY <2>3, <2>4 DEF Ascending
<1>12. QED
  BY <1>1, <1>7, <1>10, <1>11

(* What is left of an ascending sequence is within the same limits. *)
LEMMA RestAscends ==
  ASSUME sock \in Sockets, NEW a, NEW b, Ascending(sock.rx, a, b)
  PROVE  Ascending(Rest(sock), a, b)
<1>1. PICK x, n, u : x = sock.rx /\ n = Contiguous(sock) /\ u = Rest(sock)
  OBVIOUS
<1>2. /\ n \in 0 .. Len(x) /\ Len(x) \in Nat
      /\ Len(u) = Len(x) - n /\ \A k \in 1 .. Len(u) : u[k] = x[n + k]
  BY <1>1, RestIs
<1>3. ASSUME NEW k \in 1 .. Len(u) PROVE u[k] = x[n + k] /\ n + k \in 1 .. Len(x)
  BY <1>2
<1>4. ASSUME NEW k \in 1 .. Len(u) PROVE a < u[k] /\ u[k] <= b
  BY <1>1, <1>3 DEF Ascending
<1>5. ASSUME NEW j \in 1 .. Len(u), NEW k \in 1 .. Len(u), j < k PROVE u[j] < u[k]
  <2>1. n + j < n + k
    BY <1>2, <1>5
  <2>2. QED
    BY <1>1, <1>3, <2>1 DEF Ascending
<1>6. QED
  BY <1>1, <1>4, <1>5 DEF Ascending

(* What poll() makes of the socket, by ProcessAllKeeps. *)
LEMMA PollTakes ==
  ASSUME NetOK, EthOK, LinkOK, StreamPart, ForgetPart, Poll,
         NEW a \in 0 .. requests, NEW b \in 0 .. requests, a <= b,
         Ascending(sock.rx, a, b), InOrder(inbox, "data", b, requests)
  PROVE  Intake(ProcessAll(sock, inbox), Len(inbox), a)
<1>1. requests \in Nat /\ b \in a .. requests /\ Len(inbox) \in Nat
  BY Sizes DEF NetOK
<1>2. sock \in Sockets /\ Fresh(sock) /\ Told(sock) /\ Owed(sock)
  BY DEF EthOK, ForgetPart, Poll
<1>3. \A j \in 1 .. Len(sock.rx) : sock.rx[j] \in Nat
  <2>1. sock.rx \in Seq(1 .. MaxRequests)
    BY <1>2, SocketFields
  <2>2. ASSUME NEW j \in 1 .. Len(sock.rx) PROVE sock.rx[j] \in 1 .. MaxRequests
    BY <2>1, ElementOfSeq
  <2>3. 1 .. MaxRequests \subseteq Nat
    BY Sizes
  <2>4. QED
    BY <2>2, <2>3
<1>4. Ascending(sock.rx, a, requests)
  BY <1>1, <1>3 DEF Ascending
<1>5. ASSUME NEW j \in 1 .. Len(sock.rx), NEW i \in 0 + 1 .. Len(inbox),
             inbox[i].kind = "data"
      PROVE  sock.rx[j] < inbox[i].n
  <2>1. i \in 1 .. Len(inbox)
    BY <1>1
  <2>2. b < inbox[i].n /\ inbox[i].n \in Nat
    BY <1>5, <2>1, InboxNumbered DEF InOrder, Numbered
  <2>3. sock.rx[j] <= b
    BY DEF Ascending
  <2>4. QED
    BY <1>1, <1>3, <2>2, <2>3
<1>6. sock.state \in Synchronized => Upto(sock.tx, Taken)
  BY DEF StreamPart
<1>7. Taken \in Int
  BY ContentsIs DEF StreamPart, LinkOK, Taken
<1>8. Intake(sock, 0, a)
  BY <1>2, <1>4, <1>5, <1>6 DEF Intake
<1>9. QED
  BY <1>1, <1>7, <1>8, ProcessAllKeeps

(* The two outcomes of poll(). *)
LEMMA PollIs ==
  ASSUME NEW s \in Sockets, s = ProcessAll(sock, inbox), Poll
  PROVE  /\ sock' = s \/ sock' = Emitted(s)
         /\ sock' \in Sockets
         /\ sock'.state = s.state /\ sock'.rx = s.rx /\ sock'.tx = s.tx
         /\ sock'.at = s.at
<1>1. sock' = s \/ sock' = Emitted(s)
  BY DEF Poll
<1>2. QED
  BY <1>1, EmittedIs

LEMMA PollTells ==
  ASSUME NEW s \in Sockets, s = ProcessAll(sock, inbox), Told(s), Poll
  PROVE  Told(sock')
<1>1. sock' = s \/ sock' = Emitted(s)
  BY DEF Poll
<1>2. Len(s.rx) \in Nat /\ RxSize \in Nat
  BY Sizes, SocketFields
<1>3. CASE sock' = Emitted(s)
  <2>1. sock'.win = RxSize - Len(s.rx) /\ sock'.rx = s.rx
    BY <1>3, EmittedIs
  <2>2. QED
    BY <1>2, <2>1 DEF Told
<1>4. QED
  BY <1>1, <1>3

LEMMA OrderRule ==
  ASSUME NEW a \in 0 .. requests', NEW b \in 0 .. requests', dispatched' <= a, a <= b,
         InOrder(Contents(eth_out'), "request", Before', a),
         Ascending(sock'.rx, a, b), InOrder(inbox', "data", b, requests')
  PROVE  OrderPart'
BY DEF OrderPart

(* A packet from the host is the newest. *)
LEMMA HostIs ==
  ASSUME NetOK, AtHost
  PROVE  /\ requests' \in {requests, requests + 1}
         /\ \E p \in Packets : /\ inbox' = Append(inbox, p)
                               /\ p.kind = "data" => /\ p.n = requests + 1
                                                     /\ requests' = requests + 1
<1>0. /\ conns \in 0 .. MaxConns /\ requests \in 0 .. MaxRequests
      /\ MaxConns \in Nat /\ MaxRequests \in Nat
  BY Sizes DEF NetOK
<1>1. CASE HostConnect
  <2>1. PICK p : p = Packet("syn", conns + 1)
    OBVIOUS
  <2>2. inbox' = Append(inbox, p) /\ requests' = requests /\ conns < MaxConns
    BY <1>1, <2>1 DEF HostConnect, Arrives
  <2>3. conns + 1 \in 1 .. MaxConns
    BY <1>0, <2>2
  <2>4. p \in Packets /\ p.kind = "syn"
    BY <2>1, <2>3 DEF Packet, Packets
  <2>5. QED
    BY <2>2, <2>4
<1>2. CASE HostSend
  <2>1. PICK p : p = Packet("data", requests + 1)
    OBVIOUS
  <2>2. inbox' = Append(inbox, p) /\ requests' = requests + 1 /\ requests < MaxRequests
    BY <1>2, <2>1 DEF HostSend, Arrives
  <2>3. requests + 1 \in 1 .. MaxRequests
    BY <1>0, <2>2
  <2>4. p \in Packets /\ p.n = requests + 1
    BY <2>1, <2>3 DEF Packet, Packets
  <2>5. QED
    BY <2>2, <2>4
<1>3. CASE HostHangsUp
  <2>0. PICK kind \in {"fin", "rst"} :
          inbox' = Append(inbox, Packet(kind, 0)) /\ requests' = requests
    BY <1>3 DEF HostHangsUp, Arrives
  <2>1. PICK p : p = Packet(kind, 0) /\ inbox' = Append(inbox, p) /\ requests' = requests
    BY <2>0
  <2>2. p \in Packets /\ p.kind # "data"
    BY <2>1 DEF Packet, Packets
  <2>3. QED
    BY <2>1, <2>2
<1>4. CASE HostAck
  <2>1. PICK p : p = Packet("ack", 0)
    OBVIOUS
  <2>2. inbox' = Append(inbox, p) /\ requests' = requests
    BY <1>4, <2>1 DEF HostAck, Arrives
  <2>3. p \in Packets /\ p.kind # "data"
    BY <2>1 DEF Packet, Packets
  <2>4. QED
    BY <2>2, <2>3
<1>5. QED
  BY <1>1, <1>2, <1>3, <1>4 DEF AtHost

LEMMA OrderStep ==
  ASSUME OrderPart, NetOK, EthOK, LinkOK, FramePart, StreamPart, ForgetPart, [Next]_vars
  PROVE  OrderPart'
<1>0. PICK a \in 0 .. requests, b \in 0 .. requests :
        /\ dispatched <= a /\ a <= b
        /\ InOrder(Contents(eth_out), "request", Before, a)
        /\ Ascending(sock.rx, a, b)
        /\ InOrder(inbox, "data", b, requests)
  BY DEF OrderPart
<1>1. /\ requests \in Nat /\ a \in Nat /\ b \in Nat /\ dispatched \in Nat
      /\ a <= requests /\ b <= requests /\ sock \in Sockets
  BY Sizes DEF NetOK, LinkOK, EthOK
<1>2. CASE /\ UNCHANGED <<eth_out, dispatched, inbox, requests>> /\ Granting' = Granting
           /\ sock'.rx = sock.rx \/ sock'.rx = <<>>
  <2>1. Ascending(sock'.rx, a, b)
    <3>1. CASE sock'.rx = sock.rx
      BY <1>0, <3>1
    <3>2. CASE sock'.rx = <<>>
      BY <3>2 DEF Ascending
    <3>3. QED
      BY <1>2, <3>1, <3>2
  <2>2. Before' = Before
    BY <1>2 DEF Before
  <2>3. InOrder(Contents(eth_out'), "request", Before', a)
    BY <1>0, <1>2, <2>2
  <2>4. QED
    BY <1>0, <1>2, <2>1, <2>3, OrderRule
<1>3. CASE AtHost
  <2>1. UNCHANGED <<eth_out, sock, dispatched>> /\ Before' = Before
    BY <1>3, AtHostLeaves DEF link, Granting, Before
  <2>2. PICK p \in Packets : /\ inbox' = Append(inbox, p)
                             /\ p.kind = "data" => /\ p.n = requests + 1
                                                   /\ requests' = requests + 1
    BY <1>3, HostIs
  <2>3. requests' \in Nat /\ requests <= requests'
    BY <1>1, <1>3, HostIs
  <2>4. p.kind = "data" => p.n \in Nat /\ requests < p.n /\ p.n <= requests'
    BY <1>1, <2>2, <2>3
  <2>5. inbox \in Seq(Packets) /\ Numbered(inbox)
    BY InboxNumbered DEF NetOK
  <2>6. InOrder(inbox', "data", b, requests')
    BY <1>0, <1>1, <2>2, <2>3, <2>4, <2>5, InOrderAppend
  <2>7. a \in 0 .. requests' /\ b \in 0 .. requests'
    BY <1>1, <2>3
  <2>8. InOrder(Contents(eth_out'), "request", Before', a) /\ Ascending(sock'.rx, a, b)
    BY <1>0, <2>1
  <2>9. QED
    BY <1>0, <2>1, <2>6, <2>7, <2>8, OrderRule
<1>4. CASE Poll
  <2>1. PICK s : s = ProcessAll(sock, inbox)
    OBVIOUS
  <2>2. Intake(s, Len(inbox), a)
    BY <1>0, <1>4, <2>1, PollTakes
  <2>3. s \in Sockets /\ Ascending(s.rx, a, requests)
    BY <2>2 DEF Intake
  <2>4. sock'.rx = s.rx
    BY <1>4, <2>1, <2>3, PollIs
  <2>5. inbox' = <<>> /\ requests' = requests
    BY <1>4 DEF Poll
  <2>6. UNCHANGED <<eth_out, dispatched>> /\ Before' = Before
    BY <1>4, AtInterruptLeaves DEF AtInterrupt, link, Granting, Before
  <2>7. InOrder(inbox', "data", requests, requests')
    BY <2>5 DEF InOrder
  <2>8. InOrder(Contents(eth_out'), "request", Before', a)
    BY <1>0, <2>6
  <2>9. a \in 0 .. requests' /\ requests \in 0 .. requests' /\ a <= requests
    BY <1>1, <2>5
  <2>10. Ascending(sock'.rx, a, requests)
    BY <2>3, <2>4
  <2>11. QED
    BY <1>0, <2>6, <2>7, <2>8, <2>9, <2>10, OrderRule
<1>5. CASE AtInterrupt /\ ~Poll
  <2>1. UNCHANGED <<eth_out, dispatched, requests, link_pc>>
    BY <1>5, AtInterruptLeaves DEF link
  <2>2. inbox' = inbox
    BY <1>5 DEF AtInterrupt, OtherInterrupt, EnterEthernetEvent, HandleTcpTx,
                CloseOrListen, PollAt, SmoltcpPollAt, net
  <2>3. sock'.rx = sock.rx \/ sock'.rx = <<>>
    <3>1. CASE OtherInterrupt \/ EnterEthernetEvent \/ PollAt \/ SmoltcpPollAt
      BY <3>1 DEF OtherInterrupt, EnterEthernetEvent, PollAt, SmoltcpPollAt
    <3>2. CASE HandleTcpTx
      <4>1. CASE SendAndRelease
        BY <1>1, <4>1, SendIs DEF SendAndRelease, Sending
      <4>2. CASE UNCHANGED sock
        BY <4>2
      <4>3. QED
        BY <3>2, <4>1, <4>2 DEF HandleTcpTx
    <3>3. CASE CloseOrListen
      BY <1>1, <3>3, CloseIs DEF Closing, Emptied
    <3>4. QED
      BY <1>5, <3>1, <3>2, <3>3 DEF AtInterrupt
  <2>4. QED
    BY <1>2, <2>1, <2>2, <2>3 DEF Granting
<1>6. CASE HandleTcpRx
  <2>1. UNCHANGED <<inbox, requests, dispatched, link_pc>> /\ Before' = Before
    BY <1>6, RxLeaves DEF net, link, Granting, Before
  <2>2. sock'.rx = Rest(sock)
    BY <1>1, <1>6, ReceivedIs
  <2>3. CASE UNCHANGED <<eth_out, link_ready>>
    <3>1. Ascending(sock'.rx, a, b)
      BY <1>0, <1>1, <2>2, RestAscends
    <3>2. InOrder(Contents(eth_out'), "request", Before', a)
      BY <1>0, <2>1, <2>3
    <3>3. QED
      BY <1>0, <2>1, <3>1, <3>2, OrderRule
  <2>4. CASE RxCommits
    <3>1. PICK c, d, s : /\ c = Contents(eth_out) /\ d = Contents(eth_out')
                         /\ s = Frame(sock)
      OBVIOUS
    <3>2. Joined(c, s, d)
      BY <1>1, <2>4, <3>1, RxJoins
    <3>3. PICK e \in Nat : /\ a < e /\ e <= b /\ InOrder(s, "request", a, e)
                          /\ Ascending(Rest(sock), e, b)
      BY <1>0, <1>1, <2>4, <3>1, FrameInOrder DEF RxCommits
    <3>4. c \in Seq(OutItems \union {Blank})
      BY <3>1, FrameSeqs
    <3>5. s \in Seq(OutItems \union {Blank})
      <4>1. s \in Seq(OutItems)
        BY <1>1, <2>4, <3>1, FrameIs DEF RxCommits
      <4>2. QED
        BY <4>1
    <3>6. Before \in Int /\ Before <= a
      BY <1>0, <1>1 DEF Before
    <3>7. InOrder(d, "request", Before, e)
      <4>1. InOrder(c, "request", Before, a)
        BY <1>0, <3>1
      <4>2. Numbered(c) /\ Numbered(s)
        BY <3>4, <3>5, ItemsNumbered
      <4>3. a <= e
        BY <1>1, <3>3
      <4>4. QED
        BY <1>1, <3>2, <3>3, <3>6, <4>1, <4>2, <4>3, InOrderJoined
    <3>8. InOrder(Contents(eth_out'), "request", Before', e)
      BY <2>1, <3>1, <3>7
    <3>9. e \in 0 .. requests' /\ dispatched' <= e /\ b \in 0 .. requests'
      BY <1>0, <1>1, <2>1, <3>3
    <3>10. Ascending(sock'.rx, e, b) /\ InOrder(inbox', "data", b, requests')
      BY <1>0, <2>1, <2>2, <3>3
    <3>11. QED
      BY <3>3, <3>8, <3>9, <3>10, OrderRule
  <2>5. QED
    BY <1>1, <1>6, <2>3, <2>4, RxIs
<1>7. CASE LinkStart
  <2>1. UNCHANGED <<eth_out, dispatched, inbox, requests, sock>> /\ Granting' = Granting
    BY <1>7 DEF LinkStart, Granting, net, eth
  <2>2. QED
    BY <1>2, <2>1
<1>8. CASE LinkRead
  <2>1. UNCHANGED <<inbox, requests, sock>>
    BY <1>8, TaskLeaves DEF net, eth
  <2>2. PICK c : c = Contents(eth_out)
    OBVIOUS
  <2>3. Contents(eth_out') = c
    BY <1>8, <2>2, ReadIs DEF LinkRead, FramePart
  <2>4. Before = dispatched
    BY <1>8 DEF LinkRead, Before, Granting
  <2>5. /\ c \in Seq(OutItems \union {Blank}) /\ Len(c) \in Nat
        /\ InOrder(c, "request", dispatched, a) /\ Numbered(c)
    BY <1>0, <2>2, <2>4, FrameSeqs, ItemsNumbered
  <2>6. CASE Region(eth_out) = <<>>
    <3>1. dispatched' = dispatched /\ ~Granting'
      BY <1>8, <2>6 DEF LinkRead, Granting
    <3>2. Before' = dispatched
      BY <3>1 DEF Before
    <3>3. QED
      BY <1>0, <2>1, <2>3, <2>5, <3>1, <3>2, OrderRule
  <2>7. CASE Region(eth_out) # <<>>
    <3>1. dispatched' = Region(eth_out)[2].n /\ Granting'
      BY <1>8, <2>7 DEF LinkRead, Granting
    <3>2. Len(Region(eth_out)) # 0
      BY <2>7, FrameSeqs, EmptySeq
    <3>3. /\ 2 <= Len(Region(eth_out)) /\ Region(eth_out)[2] = c[2]
          /\ c[1].kind = "endpoint" /\ c[2].n \in 1 .. MaxRequests
          /\ c[2] = Request(c[2].n)
      BY <2>2, <3>2, GrantedIs
    <3>4. dispatched' = c[2].n /\ Before' = c[2].n - 1 /\ c[2].n \in Nat
      BY <3>1, <3>3, Sizes DEF Before
    <3>5. 2 \in 1 .. Len(c)
      BY <2>2, <2>5, <3>3, FrameSeqs
    <3>6. c[2].kind = "request"
      BY <3>3 DEF Request, Cell
    <3>7. dispatched' <= a
      BY <2>5, <3>4, <3>5, <3>6 DEF InOrder
    <3>8. InOrder(c, "request", c[2].n - 1, a)
      <4>1. ASSUME NEW k \in 1 .. Len(c), c[k].kind = "request"
            PROVE  c[2].n - 1 < c[k].n
        <5>1. c[k].n \in Nat /\ k # 1
          BY <2>5, <3>3, <4>1 DEF Numbered
        <5>2. CASE k = 2
          BY <3>4, <5>2
        <5>3. CASE 2 < k
          <6>1. c[2].n < c[k].n
            BY <2>5, <3>5, <3>6, <4>1, <5>3 DEF InOrder
          <6>2. QED
            BY <3>4, <5>1, <6>1
        <5>4. QED
          BY <2>5, <5>1, <5>2, <5>3
      <4>2. QED
        BY <2>5, <4>1 DEF InOrder
    <3>9. InOrder(Contents(eth_out'), "request", Before', a)
      BY <2>3, <3>4, <3>8
    <3>10. QED
      BY <1>0, <2>1, <3>7, <3>9, OrderRule
  <2>8. QED
    BY <2>6, <2>7
<1>9. CASE InDispatch
  <2>1. UNCHANGED <<eth_out, dispatched, inbox, requests, sock>> /\ Granting' = Granting
    BY <1>9, InDispatchLeaves DEF net
  <2>2. QED
    BY <1>2, <2>1
<1>10. CASE LinkRelease
  <2>1. UNCHANGED <<inbox, requests, sock>>
    BY <1>10, TaskLeaves DEF net, eth
  <2>2. PICK c, d, n : c = Contents(eth_out) /\ d = Contents(eth_out') /\ n = rgr_len
    OBVIOUS
  <2>3. /\ ARelease(eth_out, OutItems, OutSize, n, eth_out')
        /\ Holds(eth_out, n, dispatched) /\ Granting
    BY <1>10, <2>2, ReleaseIs
  <2>4. n \in Nat /\ Drops(c, n, d)
    BY <2>2, <2>3, ReleaseDrops DEF ARelease
  <2>5. /\ n <= Len(c) /\ Len(d) = Len(c) - n /\ Len(c) \in Nat
        /\ \A k \in 1 .. Len(d) : d[k] = c[k + n]
    BY <2>2, <2>4, FrameSeqs DEF Drops
  <2>6. 2 <= n /\ c[2] = Request(dispatched)
    BY <2>2, <2>3 DEF Holds
  <2>7. c[2].kind = "request" /\ c[2].n = dispatched /\ 2 \in 1 .. Len(c)
    BY <2>4, <2>5, <2>6 DEF Request, Cell
  <2>8. InOrder(c, "request", Before, a)
    BY <1>0, <2>2
  <2>9. InOrder(d, "request", dispatched, a)
    <3>1. \A k \in 1 .. Len(d) : k + n \in 1 .. Len(c) /\ 2 < k + n
      BY <2>4, <2>5, <2>6
    <3>2. ASSUME NEW k \in 1 .. Len(d), d[k].kind = "request"
          PROVE  dispatched < d[k].n /\ d[k].n <= a
      BY <2>5, <2>7, <2>8, <3>1, <3>2 DEF InOrder
    <3>3. ASSUME NEW j \in 1 .. Len(d), NEW k \in 1 .. Len(d), j < k,
                 d[j].kind = "request", d[k].kind = "request"
          PROVE  d[j].n < d[k].n
      <4>1. j + n < k + n
        BY <2>4, <2>5, <3>3
      <4>2. QED
        BY <2>5, <2>8, <3>1, <3>3, <4>1 DEF InOrder
    <3>4. QED
      BY <3>2, <3>3 DEF InOrder
  <2>10. dispatched' = dispatched /\ Before' = dispatched
    BY <1>10 DEF LinkRelease, Before, Granting
  <2>11. InOrder(Contents(eth_out'), "request", Before', a)
    BY <2>2, <2>9, <2>10
  <2>12. QED
    BY <1>0, <2>1, <2>10, <2>11, OrderRule
<1>11. CASE UNCHANGED vars
  <2>1. UNCHANGED <<eth_out, dispatched, inbox, requests, sock>> /\ Granting' = Granting
    BY <1>11 DEF vars, net, eth, link, Granting
  <2>2. QED
    BY <1>2, <2>1
<1>12. QED
  BY <1>3, <1>4, <1>5, <1>6, <1>7, <1>8, <1>9, <1>10, <1>11, Steps

-----------------------------------------------------------------------------
(* The number of replies *)

LEMMA Products ==
  /\ \A x, y \in Nat : x * y \in Nat
  /\ \A d, e, k \in Nat : d < e => d * k + k <= e * k
<1>1. \A x, y \in Nat : x * y \in Nat
  OBVIOUS
<1>2. ASSUME NEW d \in Nat, NEW e \in Nat, NEW k \in Nat, d < e
      PROVE  d * k + k <= e * k
  <2>1. PICK f \in Nat : e = d + 1 + f
    <3>1. e - d - 1 \in Nat /\ e = d + 1 + (e - d - 1)
      BY <1>2
    <3>2. QED
      BY <3>1
  <2>2. e * k = d * k + k + f * k
    BY <2>1
  <2>3. f * k \in Nat /\ d * k \in Nat
    BY <1>1
  <2>4. QED
    BY <2>2, <2>3
<1>3. QED
  BY <1>1, <1>2

LEMMA BatchSizes ==
  /\ Batches \in Nat /\ REPLY_MTU \in Nat /\ MAX_REPLY_BATCHES \in Nat
  /\ \A d \in 0 .. MaxRequests : d * Batches \in Nat /\ d * Batches <= MaxReplies
<1>1. PICK m, r, k : m = MAX_REPLY_BATCHES /\ r = REPLY_MTU /\ k = MaxRequests
  OBVIOUS
<1>2. m \in Nat /\ r \in Nat /\ k \in Nat
  BY <1>1, Sizes
<1>3. Batches = m * r /\ MaxReplies = k * m * r /\ m * r \in Nat
  BY <1>1, <1>2, Products DEF Batches, MaxReplies
<1>4. k * m * r = k * (m * r)
  BY <1>2
<1>5. ASSUME NEW d \in 0 .. k PROVE d * (m * r) \in Nat /\ d * (m * r) <= k * (m * r)
  <2>1. PICK b \in Nat : b = m * r
    BY <1>3
  <2>2. d \in Nat /\ d * b \in Nat
    BY <1>2, Products
  <2>3. CASE d = k
    BY <2>1, <2>2, <2>3
  <2>4. CASE d < k
    <3>1. d * b + b <= k * b
      BY <1>2, <2>2, <2>4, Products
    <3>2. k * b \in Nat
      BY <1>2, Products
    <3>3. QED
      BY <2>1, <2>2, <3>1, <3>2
  <2>5. QED
    BY <1>2, <2>3, <2>4
<1>6. QED
  BY <1>1, <1>2, <1>3, <1>4, <1>5

(* b batches of m are used, of r cells each. *)
Allowed(m, b, r) == (m - b) * r

LEMMA AllowedIs ==
  ASSUME NEW m \in Nat, NEW b \in 0 .. m, NEW r \in Nat
  PROVE  /\ Allowed(m, b, r) \in Nat /\ Allowed(m, 0, r) = m * r
         /\ b < m => Allowed(m, b + 1, r) + r = Allowed(m, b, r)
<1>1. PICK f \in Nat : f = m - b /\ m = b + f
  <2>1. m - b \in Nat /\ m = b + (m - b)
    OBVIOUS
  <2>2. QED
    BY <2>1
<1>2. Allowed(m, b, r) = f * r /\ f * r \in Nat
  BY <1>1, Products DEF Allowed
<1>3. ASSUME b < m PROVE Allowed(m, b + 1, r) + r = Allowed(m, b, r)
  <2>1. PICK g \in Nat : f = g + 1
    <3>1. f - 1 \in Nat /\ f = (f - 1) + 1
      BY <1>1, <1>3
    <3>2. QED
      BY <3>1
  <2>2. m - (b + 1) = g
    BY <1>1, <2>1
  <2>3. Allowed(m, b + 1, r) = g * r
    BY <2>2 DEF Allowed
  <2>4. f * r = g * r + r
    BY <2>1
  <2>5. QED
    BY <1>2, <2>3, <2>4
<1>4. Allowed(m, 0, r) = m * r
  BY DEF Allowed
<1>5. QED
  BY <1>2, <1>3, <1>4

LEMMA BudgetStep ==
  ASSUME BudgetPart, OrderPart, LinkOK, FramePart, [Next]_vars
  PROVE  BudgetPart'
<1>0. PICK m, r, b, now :
        /\ m = MAX_REPLY_BATCHES /\ r = REPLY_MTU /\ b = batch
        /\ now = Allowed(m, b, r)
  OBVIOUS
<1>1. /\ m \in Nat /\ r \in Nat /\ b \in 0 .. m /\ now \in Nat
      /\ replies \in Nat /\ dispatched \in Nat /\ dispatched \in 0 .. MaxRequests
      /\ Batches \in Nat /\ dispatched * Batches \in Nat
  BY <1>0, BatchSizes, AllowedIs, Sizes DEF LinkOK
<1>2. StillAllowed = now + (IF link_pc = "fill" THEN r ELSE 0)
  BY <1>0 DEF StillAllowed, Allowed
<1>3. replies + (IF Granting THEN StillAllowed ELSE 0) <= dispatched * Batches
  BY DEF BudgetPart
<1>4. replies <= dispatched * Batches
  BY <1>1, <1>2, <1>3
<1>5. CASE UNCHANGED link
  BY <1>5 DEF link, BudgetPart, StillAllowed, Granting
<1>6. CASE LinkStart
  BY <1>4, <1>6 DEF LinkStart, BudgetPart, Granting
<1>7. CASE LinkRead
  <2>1. batch' = 0 /\ replies' = replies /\ link_pc' \in {"idle", "dispatch"}
    BY <1>7 DEF LinkRead
  <2>2. CASE Region(eth_out) = <<>>
    <3>1. dispatched' = dispatched /\ ~Granting'
      BY <1>7, <2>2 DEF LinkRead, Granting
    <3>2. QED
      BY <1>1, <1>4, <2>1, <3>1 DEF BudgetPart
  <2>3. CASE Region(eth_out) # <<>>
    <3>1. dispatched' = Region(eth_out)[2].n
      BY <1>7, <2>3 DEF LinkRead
    <3>2. Len(Region(eth_out)) # 0
      BY <2>3, FrameSeqs, EmptySeq
    <3>3. PICK c, e : c = Contents(eth_out) /\ e = c[2].n
      OBVIOUS
    <3>4. /\ 2 <= Len(Region(eth_out)) /\ Region(eth_out)[2] = c[2]
          /\ e \in 1 .. MaxRequests /\ c[2] = Request(e)
      BY <3>2, <3>3, GrantedIs
    <3>5. dispatched < e
      <4>1. 2 \in 1 .. Len(c)
        BY <3>3, <3>4, FrameSeqs
      <4>2. c[2].kind = "request"
        BY <3>4 DEF Request, Cell
      <4>3. Before = dispatched
        BY <1>7 DEF LinkRead, Before, Granting
      <4>4. QED
        BY <3>3, <4>1, <4>2, <4>3 DEF OrderPart, InOrder
    <3>6. dispatched * Batches + Batches <= e * Batches
      BY <1>1, <3>4, <3>5, Products, Sizes
    <3>7. StillAllowed' = Batches
      <4>1. StillAllowed' = (MAX_REPLY_BATCHES - 0) * REPLY_MTU + 0
        BY <2>1 DEF StillAllowed
      <4>2. (MAX_REPLY_BATCHES - 0) * REPLY_MTU + 0 = MAX_REPLY_BATCHES * REPLY_MTU
        BY BatchSizes
      <4>3. QED
        BY <4>1, <4>2 DEF Batches
    <3>8. dispatched' = e /\ e * Batches \in Nat
      BY <1>1, <3>1, <3>3, <3>4, BatchSizes, Sizes
    <3>9. replies' + (IF Granting' THEN StillAllowed' ELSE 0) <= e * Batches
      BY <1>1, <1>4, <2>1, <3>6, <3>7, <3>8
    <3>10. QED
      BY <3>8, <3>9 DEF BudgetPart
  <2>4. QED
    BY <2>2, <2>3
<1>8. CASE GrantReply
  <2>1. /\ link_pc = "dispatch" /\ batch < MAX_REPLY_BATCHES /\ Granting /\ Granting'
        /\ replies' = replies /\ dispatched' = dispatched
        /\ \/ link_pc' = "release" /\ batch' = batch
           \/ link_pc' = "fill" /\ batch' = batch + 1
    BY <1>8 DEF GrantReply, Granting
  <2>2. replies + now <= dispatched * Batches
    BY <1>1, <1>2, <1>3, <2>1
  <2>3. StillAllowed' = now
    <3>1. CASE link_pc' = "release" /\ batch' = batch
      <4>1. StillAllowed' = now + 0
        BY <1>0, <3>1 DEF StillAllowed, Allowed
      <4>2. QED
        BY <1>1, <4>1
    <3>2. CASE link_pc' = "fill" /\ batch' = batch + 1
      <4>1. StillAllowed' = Allowed(m, b + 1, r) + r
        BY <1>0, <3>2 DEF StillAllowed, Allowed
      <4>2. QED
        BY <1>0, <1>1, <2>1, <4>1, AllowedIs
    <3>3. QED
      BY <2>1, <3>1, <3>2
  <2>4. QED
    BY <2>1, <2>2, <2>3 DEF BudgetPart
<1>9. CASE InDispatch /\ ~GrantReply
  <2>1. /\ batch' = batch /\ dispatched' = dispatched /\ Granting /\ Granting'
        /\ link_pc' # "fill"
    BY <1>9, InDispatchLeaves
       DEF InDispatch, CommitReply, PendEth, DropReply, DispatchDone
  <2>2. StillAllowed' = now + 0
    BY <1>0, <2>1 DEF StillAllowed, Allowed
  <2>3. CASE CommitReply
    <3>1. PICK len \in 1 .. r : replies' = replies + len /\ link_pc = "fill"
      BY <1>0, <2>3 DEF CommitReply
    <3>2. replies + (now + r) <= dispatched * Batches
      BY <1>2, <1>3, <2>1, <3>1
    <3>3. replies' + StillAllowed' <= dispatched * Batches
      BY <1>1, <2>2, <3>1, <3>2
    <3>4. QED
      BY <2>1, <3>3 DEF BudgetPart
  <2>4. CASE replies' = replies
    <3>1. replies + now <= dispatched * Batches
      BY <1>1, <1>2, <1>3, <2>1
    <3>2. replies' + StillAllowed' <= dispatched * Batches
      BY <1>1, <2>2, <2>4, <3>1
    <3>3. QED
      BY <2>1, <3>2 DEF BudgetPart
  <2>5. QED
    BY <1>9, <2>3, <2>4 DEF InDispatch, PendEth, DropReply, DispatchDone
<1>10. CASE LinkRelease
  <2>1. ~Granting' /\ replies' = replies /\ dispatched' = dispatched
    BY <1>10 DEF LinkRelease, Granting
  <2>2. QED
    BY <1>1, <1>4, <2>1 DEF BudgetPart
<1>11. QED
  BY <1>5, <1>6, <1>7, <1>8, <1>9, <1>10, Steps, AtHostLeaves, AtInterruptLeaves,
     RxLeaves DEF vars

-----------------------------------------------------------------------------
(* The reply stream *)

LEMMA StreamSeqs ==
  ASSUME StreamPart
  PROVE  /\ Contents(eth_in) \in Seq(InItems \union {Blank})
         /\ Len(Contents(eth_in)) \in Nat /\ Len(Region(eth_in)) \in Nat
BY ContentsIs, RegionIs DEF StreamPart

(* A commit of the next replies, or of none. *)
NextReplies(s, len) == /\ Len(s) = len /\ replies + len <= MaxReplies
                       /\ s = [k \in 1 .. len |-> Reply(replies + k)]
IsCommit(s, p) == link_pc = "fill" /\ p = Commit(eth_in, wgr, s)

LEMMA CommitIs ==
  ASSUME StreamPart, LinkOK, NEW len \in 0 .. REPLY_MTU, NEW s, NextReplies(s, len),
         NEW p, IsCommit(s, p)
  PROVE  /\ WellFormed(p, InItems, InSize) /\ Newest(Contents(p), replies + len)
         /\ Len(Contents(p)) = Len(Contents(eth_in)) + len
<1>1. PICK r, c, d : r = replies /\ c = Contents(eth_in) /\ d = Contents(p)
  OBVIOUS
<1>2. r \in Nat /\ len \in Nat /\ len <= REPLY_MTU /\ REPLY_MTU \in Nat
  BY <1>1, Sizes DEF LinkOK
<1>3. WellFormed(eth_in, InItems, InSize) /\ wgr \in Nat /\ Granted(eth_in, wgr, REPLY_MTU)
  BY DEF StreamPart, IsCommit
<1>4. ASSUME NEW k \in 1 .. len PROVE Reply(r + k) \in InItems
  <2>1. r + k \in 1 .. MaxReplies
    BY <1>1, <1>2, Sizes DEF NextReplies
  <2>2. QED
    BY <2>1 DEF Reply, Cell, InItems
<1>5. /\ s \in Seq(InItems) /\ Len(s) = len
      /\ \A k \in 1 .. len : s[k] = Reply(r + k)
  BY <1>1, <1>2, <1>4 DEF NextReplies
<1>6. ACommit(eth_in, InItems, InSize, wgr, REPLY_MTU, s, p)
  BY <1>2, <1>3, <1>5 DEF ACommit, IsCommit
<1>7. WellFormed(p, InItems, InSize) /\ d = c \o s
  <2>1. WellFormed(p, InItems, InSize) /\ Contents(p) = Contents(eth_in) \o s
    BY <1>6, CommitAppends
  <2>2. QED
    BY <1>1, <2>1
<1>8. c \in Seq(InItems \union {Blank}) /\ Newest(c, r)
  BY <1>1, StreamSeqs DEF StreamPart
<1>9. Joined(c, s, d)
  BY <1>5, <1>7, <1>8, JoinedIs
<1>10. /\ Len(c) \in Nat /\ Len(d) = Len(c) + len
       /\ \A k \in 1 .. Len(c) : d[k] = c[k]
       /\ \A k \in 1 .. len : d[Len(c) + k] = s[k]
       /\ \A k \in 1 .. Len(d) : \/ k \in 1 .. Len(c)
                                 \/ /\ k - Len(c) \in 1 .. len
                                    /\ Len(c) + (k - Len(c)) = k
  BY <1>5, <1>9 DEF Joined
<1>11. ASSUME NEW k \in 1 .. Len(d) PROVE d[k] = Reply((r + len) - Len(d) + k)
  <2>1. CASE k \in 1 .. Len(c)
    <3>1. d[k] = Reply(r - Len(c) + k)
      BY <1>8, <1>10, <2>1 DEF Newest
    <3>2. r - Len(c) + k = (r + len) - Len(d) + k
      BY <1>2, <1>10, <2>1
    <3>3. QED
      BY <3>1, <3>2
  <2>2. CASE k - Len(c) \in 1 .. len /\ Len(c) + (k - Len(c)) = k
    <3>1. d[k] = Reply(r + (k - Len(c)))
      BY <1>5, <1>10, <2>2
    <3>2. r + (k - Len(c)) = (r + len) - Len(d) + k
      BY <1>2, <1>10, <2>2
    <3>3. QED
      BY <3>1, <3>2
  <2>3. QED
    BY <1>10, <2>1, <2>2
<1>12. QED
  BY <1>1, <1>7, <1>10, <1>11 DEF Newest

(* What send_slice() took is released. *)
LEMMA SentIs ==
  ASSUME StreamPart, LinkOK, NEW n \in 0 .. Len(Region(eth_in)), NEW p,
         p = Release(Read(eth_in), n)
  PROVE  /\ WellFormed(p, InItems, InSize) /\ Newest(Contents(p), replies)
         /\ Len(Contents(p)) = Len(Contents(eth_in)) - n
         /\ link_pc = "fill" => Granted(p, wgr, REPLY_MTU)
<1>1. PICK q, c, d : q = Read(eth_in) /\ c = Contents(eth_in) /\ d = Contents(p)
  OBVIOUS
<1>2. WellFormed(eth_in, InItems, InSize) /\ Newest(c, replies)
  BY <1>1 DEF StreamPart
<1>3. /\ WellFormed(q, InItems, InSize) /\ Read(q) = q
      /\ Contents(q) = c /\ Region(q) = Region(eth_in)
  BY <1>1, <1>2, ReadIs
<1>4. n \in Nat /\ n <= Len(Region(eth_in)) /\ replies \in Nat /\ Len(c) \in Nat
  BY <1>1, StreamSeqs DEF LinkOK
<1>5. ARelease(q, InItems, InSize, n, p)
  BY <1>1, <1>3, <1>4 DEF ARelease
<1>6. WellFormed(p, InItems, InSize) /\ Drops(c, n, d)
  BY <1>1, <1>3, <1>5, ReleaseDrops
<1>7. Len(d) = Len(c) - n /\ n <= Len(c) /\ \A k \in 1 .. Len(d) : d[k] = c[k + n]
  BY <1>6 DEF Drops
<1>8. ASSUME NEW k \in 1 .. Len(d) PROVE d[k] = Reply(replies - Len(d) + k)
  <2>1. k + n \in 1 .. Len(c) /\ replies - Len(c) + (k + n) = replies - Len(d) + k
    BY <1>4, <1>7
  <2>2. c[k + n] = Reply(replies - Len(c) + (k + n))
    BY <1>2, <2>1 DEF Newest
  <2>3. QED
    BY <1>7, <2>1, <2>2
<1>9. ASSUME link_pc = "fill" PROVE Granted(p, wgr, REPLY_MTU)
  <2>1. wgr \in Nat /\ REPLY_MTU \in Nat /\ Granted(eth_in, wgr, REPLY_MTU)
    BY <1>9, Sizes DEF StreamPart
  <2>2. Granted(q, wgr, REPLY_MTU)
    BY <1>1, <1>2, <2>1, ReadKeepsGrant
  <2>3. QED
    BY <1>5, <2>1, <2>2, ReleaseKeepsGrant
<1>10. QED
  BY <1>1, <1>6, <1>7, <1>8, <1>9 DEF Newest

(* The socket's data, with the next n of the stream. *)
LEMMA UptoJoined ==
  ASSUME NEW x, NEW d, NEW y, Joined(x, d, y), NEW r \in Int, Upto(x, r),
         \A k \in 1 .. Len(d) : d[k] = r + k
  PROVE  Upto(y, r + Len(d))
<1>1. /\ Len(x) \in Nat /\ Len(d) \in Nat /\ Len(y) = Len(x) + Len(d)
      /\ \A k \in 1 .. Len(x) : y[k] = x[k]
      /\ \A k \in 1 .. Len(d) : y[Len(x) + k] = d[k]
      /\ \A k \in 1 .. Len(y) : \/ k \in 1 .. Len(x)
                                \/ /\ k - Len(x) \in 1 .. Len(d)
                                   /\ Len(x) + (k - Len(x)) = k
  BY DEF Joined
<1>2. ASSUME NEW k \in 1 .. Len(y) PROVE y[k] = (r + Len(d)) - Len(y) + k
  <2>1. CASE k \in 1 .. Len(x)
    <3>1. y[k] = r - Len(x) + k
      BY <1>1, <2>1 DEF Upto
    <3>2. QED
      BY <1>1, <2>1, <3>1
  <2>2. CASE k - Len(x) \in 1 .. Len(d) /\ Len(x) + (k - Len(x)) = k
    <3>1. y[k] = r + (k - Len(x))
      BY <1>1, <2>2
    <3>2. QED
      BY <1>1, <2>2, <3>1
  <2>3. QED
    BY <1>1, <2>1, <2>2
<1>3. QED
  BY <1>2 DEF Upto

LEMMA StreamRule ==
  ASSUME WellFormed(eth_in', InItems, InSize),
         link_pc' = "fill" => wgr' \in Nat /\ Granted(eth_in', wgr', REPLY_MTU),
         Newest(Contents(eth_in'), replies'),
         sock'.state \in Synchronized
           => Upto(sock'.tx, replies' - Len(Contents(eth_in')))
  PROVE  StreamPart'
BY DEF StreamPart, Taken

(* What the commit comes to is within the budget of the requests dispatched. *)
LEMMA RepliesBounded ==
  ASSUME LinkOK', BudgetPart', CommitReply \/ DropReply
  PROVE  replies' <= MaxReplies
<1>1. Granting' /\ link_pc' # "fill"
  BY InDispatchLeaves DEF InDispatch, CommitReply, DropReply
<1>2. /\ batch' \in 0 .. MAX_REPLY_BATCHES /\ dispatched' \in 0 .. MaxRequests
      /\ replies' \in Nat
  BY DEF LinkOK
<1>3. replies' + StillAllowed' <= dispatched' * Batches
  BY <1>1 DEF BudgetPart
<1>4. StillAllowed' = Allowed(MAX_REPLY_BATCHES, batch', REPLY_MTU) + 0
  BY <1>1 DEF StillAllowed, Allowed
<1>5. Allowed(MAX_REPLY_BATCHES, batch', REPLY_MTU) \in Nat
  BY <1>2, AllowedIs, Sizes
<1>6. dispatched' * Batches \in Nat /\ dispatched' * Batches <= MaxReplies
  BY <1>2, BatchSizes
<1>7. QED
  BY <1>2, <1>3, <1>4, <1>5, <1>6, Sizes

LEMMA StreamStep ==
  ASSUME StreamPart, NetOK, EthOK, LinkOK, LinkOK', BudgetPart', OrderPart, ForgetPart,
         [Next]_vars
  PROVE  StreamPart'
<1>0. /\ WellFormed(eth_in, InItems, InSize)
      /\ link_pc = "fill" => wgr \in Nat /\ Granted(eth_in, wgr, REPLY_MTU)
      /\ Newest(Contents(eth_in), replies)
      /\ sock.state \in Synchronized => Upto(sock.tx, Taken)
      /\ sock \in Sockets /\ replies \in Nat /\ Len(Contents(eth_in)) \in Nat
  BY StreamSeqs DEF StreamPart, EthOK, LinkOK
<1>1. CASE /\ UNCHANGED <<eth_in, replies>>
           /\ link_pc' = "fill" => link_pc = "fill" /\ wgr' = wgr
           /\ sock'.state \in Synchronized => Upto(sock'.tx, Taken)
  BY <1>0, <1>1, StreamRule DEF Taken
<1>2. CASE UNCHANGED <<eth_in, link>> /\ UNCHANGED sock
  BY <1>0, <1>1, <1>2 DEF link
<1>3. CASE AtHost
  BY <1>2, <1>3, AtHostLeaves
<1>4. CASE OtherInterrupt \/ EnterEthernetEvent \/ PollAt \/ SmoltcpPollAt
  BY <1>2, <1>4 DEF OtherInterrupt, EnterEthernetEvent, PollAt, SmoltcpPollAt
<1>5. CASE Poll
  <2>1. PICK a \in 0 .. requests, b \in 0 .. requests :
          /\ a <= b /\ Ascending(sock.rx, a, b)
          /\ InOrder(inbox, "data", b, requests)
    BY DEF OrderPart
  <2>2. PICK s : s = ProcessAll(sock, inbox)
    OBVIOUS
  <2>3. Intake(s, Len(inbox), a)
    BY <1>5, <2>1, <2>2, PollTakes
  <2>4. s \in Sockets
    BY <2>3 DEF Intake
  <2>5. sock'.state = s.state /\ sock'.tx = s.tx
    BY <1>5, <2>2, <2>4, PollIs
  <2>6. s.state \in Synchronized => Upto(s.tx, Taken)
    BY <2>3 DEF Intake
  <2>7. UNCHANGED <<eth_in, link_pc, wgr, replies>>
    BY <1>5 DEF Poll, link
  <2>8. QED
    BY <1>1, <2>5, <2>6, <2>7
<1>6. CASE HandleTcpRx
  <2>1. UNCHANGED <<eth_in, link_pc, wgr, replies>>
    BY <1>6, RxLeaves DEF link
  <2>2. sock'.state = sock.state /\ sock'.tx = sock.tx
    BY <1>0, <1>6, ReceivedIs DEF Alike
  <2>3. QED
    BY <1>0, <1>1, <2>1, <2>2
<1>7. CASE HandleTcpTx
  <2>1. UNCHANGED <<link_pc, wgr, replies>>
    BY <1>7 DEF HandleTcpTx, link
  <2>2. CASE CanSend(sock)
    <3>1. SendAndRelease
      BY <1>7, <2>2 DEF HandleTcpTx
    <3>2. PICK n : n = Written
      OBVIOUS
    <3>3. n \in 0 .. Len(Region(eth_in)) /\ \E d : Sending(d)
      BY <1>0, <3>1, <3>2, SendIs DEF SendAndRelease
    <3>4. PICK d : Sending(d)
      BY <3>3
    <3>5. /\ d \in Seq(1 .. MaxReplies) /\ Len(d) = n
          /\ \A k \in 1 .. Len(d) : d[k] = Taken + k
          /\ sock'.state = sock.state /\ sock'.tx = sock.tx \o d
      BY <3>2, <3>4 DEF Sending, Alike
    <3>6. eth_in' = Release(Read(eth_in), n)
      BY <3>1, <3>2 DEF SendAndRelease
    <3>7. /\ WellFormed(eth_in', InItems, InSize) /\ Newest(Contents(eth_in'), replies)
          /\ Len(Contents(eth_in')) = Len(Contents(eth_in)) - n
          /\ link_pc = "fill" => Granted(eth_in', wgr, REPLY_MTU)
      BY <3>3, <3>6, SentIs
    <3>8. sock.state \in Synchronized
      BY <2>2 DEF CanSend, Synchronized
    <3>9. sock.tx \in Seq(1 .. MaxReplies)
      BY <1>0, SocketFields
    <3>10. Joined(sock.tx, d, sock'.tx)
      BY <3>5, <3>9, JoinedIs
    <3>11. Taken \in Int
      BY <1>0 DEF Taken
    <3>12. Upto(sock'.tx, Taken + n)
      BY <1>0, <3>5, <3>8, <3>10, <3>11, UptoJoined
    <3>13. Taken + n = replies' - Len(Contents(eth_in'))
      <4>1. n \in Nat
        BY <3>3, StreamSeqs
      <4>2. QED
        BY <1>0, <2>1, <3>7, <4>1 DEF Taken
    <3>14. link_pc' = "fill" => wgr' \in Nat /\ Granted(eth_in', wgr', REPLY_MTU)
      BY <1>0, <2>1, <3>7
    <3>15. QED
      BY <2>1, <3>7, <3>12, <3>13, <3>14, StreamRule
  <2>3. CASE ~CanSend(sock)
    <3>1. UNCHANGED <<sock, eth_in>>
      BY <1>7, <2>3 DEF HandleTcpTx
    <3>2. QED
      BY <1>0, <1>1, <2>1, <3>1
  <2>4. QED
    BY <2>2, <2>3
<1>8. CASE CloseOrListen
  <2>1. UNCHANGED <<eth_in, link_pc, wgr, replies>>
    BY <1>8 DEF CloseOrListen, link
  <2>2. sock'.state \in Synchronized => Upto(sock'.tx, Taken)
    BY <1>0, <1>8, CloseIs DEF Closing, Emptied, Synchronized
  <2>3. QED
    BY <1>1, <2>1, <2>2
<1>9. CASE LinkStart \/ LinkRead \/ LinkRelease
  <2>1. UNCHANGED <<eth_in, replies, sock>>
    BY <1>9, TaskLeaves DEF eth
  <2>2. link_pc' # "fill"
    BY <1>9 DEF LinkStart, LinkRead, LinkRelease
  <2>3. QED
    BY <1>0, <1>1, <2>1, <2>2
<1>10. CASE GrantReply
  <2>1. /\ UNCHANGED <<eth_in, replies, sock>> /\ wgr' = GrantExact(eth_in, REPLY_MTU)
        /\ wgr' = Failed => link_pc' = "release"
    BY <1>10 DEF GrantReply, eth
  <2>2. ASSUME link_pc' = "fill" PROVE wgr' \in Nat /\ Granted(eth_in, wgr', REPLY_MTU)
    BY <1>0, <2>1, <2>2, GrantIs, Sizes
  <2>3. QED
    BY <1>0, <2>1, <2>2, StreamRule DEF Taken
<1>11. ASSUME CommitReply \/ DropReply PROVE replies' <= MaxReplies
  BY <1>11, RepliesBounded
<1>12. CASE CommitReply
  <2>0. PICK len \in 1 .. REPLY_MTU :
          /\ eth_in' = Commit(eth_in, wgr, [k \in 1 .. len |-> Reply(replies + k)])
          /\ link_pc = "fill" /\ replies' = replies + len
    BY <1>12 DEF CommitReply
  <2>1. PICK s :
          /\ s = [k \in 1 .. len |-> Reply(replies + k)] /\ link_pc = "fill"
          /\ eth_in' = Commit(eth_in, wgr, s) /\ replies' = replies + len
    BY <2>0
  <2>2. UNCHANGED sock /\ link_pc' = "pend"
    BY <1>12 DEF CommitReply, eth
  <2>3. len \in 0 .. REPLY_MTU /\ Len(s) = len /\ len \in Nat
    BY <2>1, Sizes
  <2>4. replies + len <= MaxReplies
    BY <1>11, <1>12, <2>1
  <2>5. /\ WellFormed(eth_in', InItems, InSize)
        /\ Newest(Contents(eth_in'), replies')
        /\ Len(Contents(eth_in')) = Len(Contents(eth_in)) + len
    <3>1. NextReplies(s, len) /\ IsCommit(s, eth_in')
      BY <2>1, <2>3, <2>4 DEF NextReplies, IsCommit
    <3>2. QED
      BY <2>1, <2>3, <3>1, CommitIs
  <2>6. replies' - Len(Contents(eth_in')) = Taken
    BY <1>0, <2>1, <2>3, <2>5 DEF Taken
  <2>7. QED
    BY <1>0, <2>2, <2>5, <2>6, StreamRule
<1>13. CASE DropReply
  <2>1. /\ eth_in' = Commit(eth_in, wgr, <<>>) /\ link_pc = "fill" /\ link_pc' # "fill"
        /\ UNCHANGED <<sock, replies, dispatched, batch>> /\ Granting'
    BY <1>13, InDispatchLeaves DEF DropReply, InDispatch
  <2>2. PICK s : s = <<>> /\ s = [k \in 1 .. 0 |-> Reply(replies + k)] /\ Len(s) = 0
    BY EmptySeq
  <2>3. replies + 0 <= MaxReplies
    BY <1>0, <1>11, <1>13, <2>1
  <2>4. 0 \in 0 .. REPLY_MTU
    BY Sizes
  <2>5. /\ WellFormed(eth_in', InItems, InSize)
        /\ Newest(Contents(eth_in'), replies + 0)
        /\ Len(Contents(eth_in')) = Len(Contents(eth_in)) + 0
    <3>1. NextReplies(s, 0) /\ IsCommit(s, eth_in')
      BY <2>1, <2>2, <2>3 DEF NextReplies, IsCommit
    <3>2. QED
      BY <2>4, <3>1, CommitIs
  <2>6. replies' - Len(Contents(eth_in')) = Taken /\ replies' = replies + 0
    BY <1>0, <2>1, <2>5 DEF Taken
  <2>7. QED
    BY <1>0, <2>1, <2>5, <2>6, StreamRule
<1>14. CASE PendEth \/ DispatchDone
  <2>1. UNCHANGED <<eth_in, replies, sock>> /\ link_pc' # "fill"
    BY <1>14 DEF PendEth, DispatchDone, eth
  <2>2. QED
    BY <1>0, <1>1, <2>1
<1>15. CASE UNCHANGED vars
  BY <1>2, <1>15 DEF vars, eth
<1>16. QED
  BY <1>3, <1>4, <1>5, <1>6, <1>7, <1>8, <1>9, <1>10, <1>12, <1>13, <1>14, <1>15,
     Steps DEF AtInterrupt, InDispatch

-----------------------------------------------------------------------------
(* What is left in the socket *)

LEMMA ProcessNone ==
  ASSUME Len(inbox) = 0
  PROVE  ProcessAll(sock, inbox) = sock
<1>1. PICK G : G = [k \in 0 .. 0 |-> {sock}]
  OBVIOUS
<1>2. sock \in G[0] /\ Len(inbox) \in Nat
  BY <1>1
<1>3. \A k \in 1 .. Len(inbox) : \A t \in G[k - 1] : Process(t, inbox[k]) \in G[k]
  OBVIOUS
<1>4. ProcessAll(sock, inbox) \in G[Len(inbox)]
  BY <1>2, <1>3, ProcessRule
<1>5. QED
  BY <1>1, <1>4

LEMMA ForgetStep ==
  ASSUME ForgetPart, OrderPart, StreamPart, NetOK, EthOK, LinkOK, [Next]_vars
  PROVE  ForgetPart'
<1>1. /\ Fresh(sock) /\ Told(sock)
      /\ eth_pc # "rx" => Owed(sock)
      /\ Len(sock.rx) # 0 /\ eth_pc \in {"idle", "poll", "poll_at"}
           => sock.state \notin {"Closed", "CloseWait"}
      /\ eth_pc \in {"rx", "tx", "close", "poll_at"} => Len(inbox) = 0
      /\ eth_pc = "poll" /\ iteration > 0 => HasToSend(sock)
      /\ eth_pc # "idle" /\ iteration > 0 /\ Len(inbox) # 0 => eth_pending
      /\ Len(sock.rx) # 0 /\ ~eth_pending /\ iteration >= 1
         /\ eth_pc \in {"tx", "close", "poll_at"} => Unwrapped(sock)
      /\ Len(sock.rx) # 0 /\ ~eth_pending /\ iteration >= 2
         /\ eth_pc \in {"poll", "rx"} => Unwrapped(sock)
      /\ eth_pc \in {"tx", "close", "poll_at"} /\ iteration >= 2 /\ Len(sock.rx) # 0
           => eth_pending
      /\ eth_pc = "idle" /\ Len(sock.rx) # 0 => eth_pending \/ timer
  <2>1. sock.rx \in Seq(1 .. MaxRequests)
    BY SocketFields DEF EthOK
  <2>2. Len(sock.rx) # 0 => sock.rx # <<>>
    BY <2>1, EmptySeq
  <2>3. QED
    BY <2>2 DEF ForgetPart, ReceivedNotForgotten, AfterRx, LeftBehind
<1>2. SUFFICES
        /\ Fresh(sock') /\ Told(sock')
        /\ eth_pc' # "rx" => Owed(sock')
        /\ Len(sock'.rx) # 0 /\ eth_pc' \in {"idle", "poll", "poll_at"}
             => sock'.state \notin {"Closed", "CloseWait"}
        /\ eth_pc' \in {"rx", "tx", "close", "poll_at"} => Len(inbox') = 0
        /\ eth_pc' = "poll" /\ iteration' > 0 => HasToSend(sock')
        /\ eth_pc' # "idle" /\ iteration' > 0 /\ Len(inbox') # 0 => eth_pending'
        /\ Len(sock'.rx) # 0 /\ ~eth_pending' /\ iteration' >= 1
           /\ eth_pc' \in {"tx", "close", "poll_at"} => Unwrapped(sock')
        /\ Len(sock'.rx) # 0 /\ ~eth_pending' /\ iteration' >= 2
           /\ eth_pc' \in {"poll", "rx"} => Unwrapped(sock')
        /\ eth_pc' \in {"tx", "close", "poll_at"} /\ iteration' >= 2 /\ Len(sock'.rx) # 0
             => eth_pending'
        /\ eth_pc' = "idle" /\ Len(sock'.rx) # 0 => eth_pending' \/ timer'
  <2>1. Len(<<>>) = 0
    OBVIOUS
  <2>2. sock'.rx # <<>> => Len(sock'.rx) # 0
    <3>1. sock' \in Sockets
      BY EthStep DEF EthOK
    <3>2. sock'.rx \in Seq(1 .. MaxRequests)
      BY <3>1, SocketFields
    <3>3. QED
      BY <3>2, EmptySeq
  <2>3. QED
    BY <1>2, <2>2 DEF ForgetPart, ReceivedNotForgotten, AfterRx, LeftBehind
<1>3. iteration \in Nat
  BY DEF EthOK
<1>4. CASE /\ UNCHANGED <<inbox, sock, timer, eth_pc, iteration>>
           /\ eth_pending' = TRUE \/ eth_pending' = eth_pending
  BY <1>1, <1>4
<1>5. CASE AtHost
  <2>1. UNCHANGED <<sock, timer, eth_pc, iteration>>
    BY <1>5, AtHostLeaves
  <2>2. eth_pending' = TRUE /\ eth_pc \in {"idle", "poll"}
    BY <1>5 DEF AtHost, HostConnect, HostSend, HostHangsUp, HostAck, Arrives,
                BetweenRounds
  <2>3. QED
    BY <1>1, <2>1, <2>2
<1>6. CASE OtherInterrupt
  BY <1>4, <1>6 DEF OtherInterrupt, net
<1>7. CASE EnterEthernetEvent
  <2>1. /\ eth_pc = "idle" /\ eth_pc' = "poll" /\ iteration' = 0
        /\ UNCHANGED <<inbox, sock>>
    BY <1>7 DEF EnterEthernetEvent, net
  <2>2. QED
    BY <1>1, <2>1
<1>8. CASE Poll
  <2>1. PICK a \in 0 .. requests, b \in 0 .. requests :
          /\ a <= b /\ Ascending(sock.rx, a, b)
          /\ InOrder(inbox, "data", b, requests)
    BY DEF OrderPart
  <2>2. PICK s : s = ProcessAll(sock, inbox)
    OBVIOUS
  <2>3. Intake(s, Len(inbox), a)
    BY <1>8, <2>1, <2>2, PollTakes
  <2>4. s \in Sockets /\ Fresh(s) /\ Told(s) /\ Owed(s)
    BY <2>3 DEF Intake
  <2>5. /\ sock'.state = s.state /\ sock'.rx = s.rx /\ sock'.tx = s.tx
        /\ sock'.at = s.at
    BY <1>8, <2>2, <2>4, PollIs
  <2>6. Fresh(sock') /\ Told(sock')
    BY <1>8, <2>2, <2>4, <2>5, PollTells DEF Fresh
  <2>7. eth_pc = "poll" /\ inbox' = <<>> /\ UNCHANGED <<iteration, eth_pending>>
    BY <1>8 DEF Poll
  <2>8. \/ eth_pc' = "rx"
        \/ eth_pc' = "tx" /\ sock' = s /\ inbox = <<>> /\ ~HasToSend(s)
        \/ eth_pc' = "tx" /\ sock' = s /\ inbox # <<>>
    BY <1>8, <2>2 DEF Poll
  <2>9. eth_pc' # "rx" => Owed(sock')
    BY <2>4, <2>8
  <2>10. eth_pc' \in {"rx", "tx"} /\ Len(inbox') = 0
    BY <2>7, <2>8
  <2>11. ASSUME eth_pc' = "tx", iteration' > 0 PROVE eth_pending'
    <3>1. iteration > 0
      BY <2>7, <2>11
    <3>2. CASE inbox = <<>> /\ ~HasToSend(s)
      <4>1. Len(inbox) = 0
        BY <3>2
      <4>2. s = sock
        BY <2>2, <4>1, ProcessNone
      <4>3. QED
        BY <1>1, <2>7, <3>1, <3>2, <4>2
    <3>3. CASE inbox # <<>>
      <4>1. Len(inbox) # 0
        BY <3>3, EmptySeq DEF NetOK
      <4>2. QED
        BY <1>1, <2>7, <3>1, <4>1
    <3>4. QED
      BY <2>8, <2>11, <3>2, <3>3
  <2>12. ASSUME eth_pc' = "rx", iteration' >= 2, Len(sock'.rx) # 0, ~eth_pending'
         PROVE  Unwrapped(sock')
    <3>1. iteration >= 2 /\ iteration > 0
      BY <1>3, <2>7, <2>12
    <3>2. Len(inbox) = 0
      BY <1>1, <2>7, <2>12, <3>1
    <3>3. s = sock
      BY <2>2, <3>2, ProcessNone
    <3>4. sock'.rx = sock.rx /\ sock'.at = sock.at
      BY <2>5, <3>3
    <3>5. QED
      BY <1>1, <2>7, <2>12, <3>1, <3>4 DEF Unwrapped
  <2>13. iteration' > 0 <=> iteration' >= 1
    BY <1>3, <2>7
  <2>14. iteration' >= 2 => iteration' > 0
    BY <1>3, <2>7
  <2>15. QED
    BY <2>6, <2>9, <2>10, <2>11, <2>12, <2>13, <2>14
<1>9. CASE HandleTcpRx
  <2>1. /\ eth_pc = "rx" /\ eth_pc' = "tx"
        /\ UNCHANGED <<inbox, iteration, eth_pending>>
    BY <1>9 DEF HandleTcpRx, net
  <2>2. /\ Alike(sock, sock') /\ sock'.tx = sock.tx /\ sock'.rx = Rest(sock)
        /\ Len(sock'.rx) # 0 => Unwrapped(sock')
    BY <1>9, ReceivedIs DEF EthOK
  <2>3. PICK n \in Nat, m \in Nat, l \in Nat :
          /\ n = Contiguous(sock) /\ m = Len(sock.rx) /\ l = Len(sock'.rx)
          /\ n <= m /\ l = m - n /\ (m # 0 => n # 0)
          /\ Unwrapped(sock) => l = 0
    <3>1. /\ Contiguous(sock) \in 0 .. Len(sock.rx) /\ Len(sock.rx) \in Nat
          /\ Len(sock.rx) # 0 => Contiguous(sock) # 0
          /\ Len(Rest(sock)) = Len(sock.rx) - Contiguous(sock)
          /\ Unwrapped(sock) => Len(Rest(sock)) = 0
      BY RestIs DEF EthOK
    <3>2. QED
      BY <2>2, <3>1
  <2>4. sock.win \in Nat /\ RxSize \in Nat /\ sock.win = sock'.win
    <3>1. sock.win \in 0 .. RxSize /\ RxSize \in Nat
      BY Sizes, SocketFields DEF EthOK
    <3>2. sock.win = sock'.win
      BY <2>2 DEF Alike
    <3>3. QED
      BY <3>1, <3>2
  <2>5. Told(sock')
    BY <1>1, <2>2, <2>3, <2>4 DEF Told, Alike
  <2>6. Fresh(sock')
    BY <1>1, <2>2, <2>3 DEF Fresh, Alike
  <2>7. Owed(sock')
    <3>1. SUFFICES ASSUME l # 0, ~sock.ack_owed,
                          sock.state \notin {"Closed", "CloseWait", "LastAck"}
                   PROVE  WindowToUpdate(sock')
      BY <2>2, <2>3 DEF Owed, Alike
    <3>2. m # 0 /\ l < m
      BY <2>3, <3>1
    <3>3. sock.state = "Established"
      BY <1>1, <2>3, <3>1, <3>2, SocketFields DEF Fresh, EthOK
    <3>4. sock.win + m <= RxSize
      BY <1>1, <2>3, <3>1 DEF Told
    <3>5. RxSize - l > sock.win
      BY <2>3, <2>4, <3>2, <3>4
    <3>6. QED
      BY <2>2, <2>3, <2>4, <3>3, <3>5 DEF WindowToUpdate, Alike
  <2>8. ASSUME iteration' >= 2, Len(sock'.rx) # 0 PROVE eth_pending'
    <3>1. m # 0 /\ ~Unwrapped(sock)
      BY <2>3, <2>8
    <3>2. QED
      BY <1>1, <2>1, <2>3, <2>8, <3>1
  <2>9. QED
    BY <1>1, <2>1, <2>2, <2>5, <2>6, <2>7, <2>8
<1>10. CASE HandleTcpTx
  <2>1. /\ eth_pc = "tx" /\ eth_pc' = "close"
        /\ UNCHANGED <<inbox, iteration, eth_pending>>
    BY <1>10 DEF HandleTcpTx, net
  <2>2. /\ sock'.state = sock.state /\ sock'.rx = sock.rx
        /\ sock'.at = sock.at /\ sock'.win = sock.win
        /\ sock'.ack_owed = sock.ack_owed
        /\ sock.state = "Listen" => sock'.tx = sock.tx
    <3>1. CASE CanSend(sock)
      <4>1. SendAndRelease
        BY <1>10, <3>1 DEF HandleTcpTx
      <4>2. PICK d : Sending(d)
        BY <4>1, SendIs DEF SendAndRelease, EthOK
      <4>3. QED
        BY <3>1, <4>2 DEF Sending, Alike, CanSend
    <3>2. CASE ~CanSend(sock)
      BY <1>10, <3>2 DEF HandleTcpTx
    <3>3. QED
      BY <3>1, <3>2
  <2>3. /\ Fresh(sock') /\ Told(sock') /\ Owed(sock')
        /\ Unwrapped(sock) => Unwrapped(sock')
    BY <1>1, <2>1, <2>2 DEF Fresh, Told, Owed, WindowToUpdate, Unwrapped
  <2>4. QED
    BY <1>1, <2>1, <2>2, <2>3
<1>11. CASE CloseOrListen
  <2>1. /\ eth_pc = "close" /\ eth_pc' = "poll_at"
        /\ UNCHANGED <<inbox, iteration, eth_pending>>
    BY <1>11 DEF CloseOrListen, net
  <2>2. \/ Closing(sock, sock') \/ Emptied(sock, sock')
        \/ sock' = sock /\ sock.state \notin {"Closed", "CloseWait"}
    BY <1>11, CloseIs DEF EthOK
  <2>4. CASE Closing(sock, sock')
    <3>1. /\ sock'.state = "LastAck" /\ sock'.rx = sock.rx
          /\ sock'.ack_owed = sock.ack_owed /\ sock.state = "CloseWait"
          /\ sock'.at = sock.at /\ sock'.win = sock.win
      BY <2>4 DEF Closing
    <3>2. /\ Fresh(sock') /\ Told(sock') /\ Owed(sock')
          /\ Unwrapped(sock) => Unwrapped(sock')
      BY <1>1, <3>1 DEF Fresh, Told, Owed, Unwrapped
    <3>3. QED
      BY <1>1, <2>1, <3>1, <3>2
  <2>5. CASE Emptied(sock, sock')
    <3>1. Len(sock'.rx) = 0 /\ Len(sock'.tx) = 0 /\ sock'.win + 0 <= RxSize
      BY <2>5, Sizes DEF Emptied
    <3>2. QED
      BY <1>1, <2>1, <3>1 DEF Fresh, Told, Owed
  <2>6. CASE sock' = sock /\ sock.state \notin {"Closed", "CloseWait"}
    BY <1>1, <2>1, <2>6
  <2>7. QED
    BY <2>2, <2>4, <2>5, <2>6
<1>12. CASE PollAt
  <2>1. eth_pc = "poll_at" /\ UNCHANGED <<inbox, sock, eth_pending>>
    BY <1>12 DEF PollAt, net
  <2>2. \/ HasToSend(sock) /\ eth_pc' = "poll" /\ iteration' = iteration + 1
        \/ /\ ~HasToSend(sock) /\ eth_pc' = "idle"
           /\ sock.ack_owed \/ sock.fin_sent => timer' = TRUE
        \/ iteration + 1 >= MAX_ITERATIONS /\ eth_pc' = "idle"
    <3>1. iteration \in Nat /\ MAX_ITERATIONS \in Nat
      BY Sizes DEF EthOK
    <3>2. ~(iteration + 1 < MAX_ITERATIONS) => iteration + 1 >= MAX_ITERATIONS
      BY <3>1
    <3>3. QED
      BY <1>12, <3>2 DEF PollAt
  <2>3. /\ Len(inbox) = 0 /\ Owed(sock) /\ Fresh(sock) /\ Told(sock)
        /\ Len(sock.rx) # 0 => sock.state \notin {"Closed", "CloseWait"}
    BY <1>1, <2>1
  <2>4. ASSUME eth_pc' = "idle", Len(sock.rx) # 0 PROVE eth_pending' \/ timer'
    <3>1. CASE ~HasToSend(sock) /\ (sock.ack_owed \/ sock.fin_sent => timer' = TRUE)
      <4>1. sock.ack_owed \/ WindowToUpdate(sock) \/ sock.state = "LastAck"
        BY <2>3, <2>4 DEF Owed
      <4>2. ~WindowToUpdate(sock) /\ (sock.state = "LastAck" => sock.fin_sent)
        BY <3>1 DEF HasToSend, Synchronized
      <4>3. QED
        BY <3>1, <4>1, <4>2
    <3>2. CASE iteration + 1 >= MAX_ITERATIONS
      <4>1. iteration >= 2
        BY <1>3, <3>2, Sizes
      <4>2. QED
        BY <1>1, <2>1, <2>4, <4>1
    <3>3. QED
      BY <2>2, <2>4, <3>1, <3>2
  <2>5. eth_pc' = "poll" => HasToSend(sock')
    BY <2>1, <2>2
  <2>6. eth_pc' \in {"poll", "idle"}
    BY <2>2
  <2>7. ASSUME eth_pc' = "poll", iteration' >= 2, Len(sock.rx) # 0, ~eth_pending
        PROVE  Unwrapped(sock)
    <3>1. iteration >= 1
      BY <1>3, <2>2, <2>7
    <3>2. QED
      BY <1>1, <2>1, <2>7, <3>1
  <2>8. QED
    BY <2>1, <2>3, <2>4, <2>5, <2>6, <2>7
<1>13. CASE SmoltcpPollAt
  <2>1. /\ eth_pc = "idle" /\ eth_pending' = TRUE
        /\ UNCHANGED <<inbox, sock, eth_pc, iteration>>
    BY <1>13 DEF SmoltcpPollAt, net
  <2>2. QED
    BY <1>1, <2>1
<1>14. CASE InDispatch
  <2>1. UNCHANGED <<inbox, sock, timer, eth_pc, iteration>>
    BY <1>14, InDispatchLeaves DEF net
  <2>2. eth_pending' = TRUE \/ eth_pending' = eth_pending
    BY <1>14 DEF InDispatch, GrantReply, CommitReply, PendEth, DropReply, DispatchDone, eth
  <2>3. QED
    BY <1>4, <2>1, <2>2
<1>15. CASE UNCHANGED <<net, eth>>
  BY <1>4, <1>15 DEF net, eth
<1>16. QED
  BY <1>5, <1>6, <1>7, <1>8, <1>9, <1>10, <1>11, <1>12, <1>13, <1>14, <1>15, Steps,
     TaskLeaves DEF AtInterrupt, vars

-----------------------------------------------------------------------------
(* The invariant *)

LEMMA InitInv ==
  ASSUME Init
  PROVE  IInv
<1>1. /\ inbox = <<>> /\ host = 0 /\ conns = 0 /\ requests = 0
      /\ eth_pending = TRUE /\ timer = FALSE /\ due = FALSE
      /\ eth_pc = "idle" /\ iteration = 0
      /\ eth_out = NewQueue(OutSize) /\ eth_in = NewQueue(InSize)
      /\ link_ready = FALSE
      /\ link_pc = "idle" /\ rgr_len = 0 /\ batch = 0 /\ wgr = None
      /\ dispatched = 0 /\ replies = 0
  BY DEF Init
<1>2. PICK r : r = sock
  OBVIOUS
<1>3. /\ r.state = "Closed" /\ r.conn = 0 /\ r.rx = <<>> /\ r.tx = <<>>
      /\ r.at = 0 /\ r.win = RxSize
      /\ r.sent = 0 /\ r.fin_sent = FALSE /\ r.ack_owed = FALSE
      /\ r = [state |-> r.state, conn |-> r.conn, rx |-> r.rx,
              at |-> r.at, win |-> r.win, tx |-> r.tx,
              sent |-> r.sent, fin_sent |-> r.fin_sent, ack_owed |-> r.ack_owed]
  BY <1>2 DEF Init, ClosedSocket
<1>4. Len(<<>>) = 0 /\ <<>> \in Seq(1 .. MaxRequests) /\ <<>> \in Seq(1 .. MaxReplies)
  OBVIOUS
<1>5. r \in Sockets
  <2>1. /\ 0 \in 0 .. MaxConns /\ 0 \in 0 .. TxSize /\ 0 <= TxSize
        /\ 0 \in 0 .. RxSize - 1 /\ RxSize \in 0 .. RxSize /\ 0 <= RxSize
    BY Sizes
  <2>2. /\ r.rx \in Seq(1 .. MaxRequests) /\ r.tx \in Seq(1 .. MaxReplies)
        /\ r.sent <= Len(r.tx) /\ Len(r.tx) <= TxSize /\ Len(r.rx) <= RxSize
        /\ r.at \in 0 .. RxSize - 1 /\ r.win \in 0 .. RxSize
        /\ r.conn \in 0 .. MaxConns /\ r.sent \in 0 .. TxSize
    BY <1>3, <1>4, <2>1
  <2>3. QED
    BY <1>3, <2>2, SocketFields
<1>6. NetOK
  BY <1>1, Sizes DEF NetOK
<1>7. EthOK
  <2>1. 0 \in 0 .. MAX_ITERATIONS - 1
    BY Sizes
  <2>2. QED
    BY <1>1, <1>2, <1>5, <2>1 DEF EthOK
<1>8. LinkOK
  <2>1. /\ 0 \in 0 .. OutSize /\ 0 \in 0 .. MAX_REPLY_BATCHES /\ 0 \in 0 .. MaxRequests
        /\ 0 \in Nat
    BY Sizes
  <2>2. QED
    BY <1>1, <2>1 DEF LinkOK
<1>9. ~Granting
  BY <1>1 DEF Granting
<1>10. WellFormed(eth_out, OutItems, OutSize) /\ Contents(eth_out) = <<>>
  BY <1>1, NewQueueIs, Sizes
<1>11. WellFormed(eth_in, InItems, InSize) /\ Contents(eth_in) = <<>>
  BY <1>1, NewQueueIs, Sizes
<1>12. FramePart
  <2>1. Len(Region(eth_out)) \in Nat
    BY <1>10, RegionIs
  <2>2. Frames(<<>>, Len(Region(eth_out)))
    BY <1>4, <2>1 DEF Frames
  <2>3. QED
    BY <1>9, <1>10, <2>2 DEF FramePart
<1>13. OrderPart
  <2>1. 0 \in 0 .. requests /\ 0 <= 0
    BY <1>1
  <2>2. /\ InOrder(Contents(eth_out), "request", Before, 0)
        /\ Ascending(sock.rx, 0, 0) /\ InOrder(inbox, "data", 0, requests)
    BY <1>1, <1>2, <1>3, <1>4, <1>10 DEF InOrder, Ascending
  <2>3. QED
    BY <1>1, <2>1, <2>2 DEF OrderPart
<1>14. BudgetPart
  <2>1. 0 + 0 <= 0 * Batches
    BY BatchSizes
  <2>2. QED
    BY <1>1, <1>9, <2>1 DEF BudgetPart
<1>15. StreamPart
  <2>1. Newest(Contents(eth_in), replies)
    BY <1>4, <1>11 DEF Newest
  <2>2. sock.state \notin Synchronized
    BY <1>2, <1>3 DEF Synchronized
  <2>3. QED
    BY <1>1, <1>11, <2>1, <2>2 DEF StreamPart
<1>16. StrandedOnlyByWrap
  BY <1>10 DEF StrandedOnlyByWrap
<1>17. ForgetPart
  <2>1. Len(sock.rx) = 0 /\ sock.rx = <<>>
    BY <1>2, <1>3, <1>4
  <2>2. Fresh(sock) /\ Told(sock) /\ Owed(sock)
    BY <1>2, <1>3, <2>1 DEF Fresh, Told, Owed
  <2>3. QED
    BY <1>1, <2>1, <2>2 DEF ForgetPart, ReceivedNotForgotten, AfterRx, LeftBehind
<1>18. QED
  BY <1>6, <1>7, <1>8, <1>12, <1>13, <1>14, <1>15, <1>16, <1>17 DEF IInv

LEMMA StepInv ==
  ASSUME IInv, [Next]_vars
  PROVE  IInv'
<1>1. NetOK' /\ EthOK' /\ LinkOK'
  BY NetStep, EthStep, LinkStep DEF IInv
<1>2. FramePart' /\ OrderPart' /\ BudgetPart' /\ StrandedOnlyByWrap'
  BY FrameStep, OrderStep, BudgetStep, StrandedStep DEF IInv
<1>3. StreamPart'
  BY <1>1, <1>2, StreamStep DEF IInv
<1>4. ForgetPart'
  BY ForgetStep DEF IInv
<1>5. QED
  BY <1>1, <1>2, <1>3, <1>4 DEF IInv

(* Every part of the invariant holds, whatever the sizes and however interrupt and
   protocol task are interleaved; each property below is read off it. *)
THEOREM InvariantThm == SafeSpec => []IInv
<1>1. Init => IInv
  BY InitInv
<1>2. IInv /\ [Next]_vars => IInv'
  BY StepInv
<1>3. QED
  BY <1>1, <1>2, PTL DEF SafeSpec

-----------------------------------------------------------------------------
(* What the invariant says of each property *)

(* Every variable keeps to its type: neither queue's indices leave the queue, the
   socket never holds more than its buffer, and the replies committed are never
   more than the dispatched requests allow. *)
THEOREM TypeThm == SafeSpec => []TypeOK
<1>1. ASSUME IInv PROVE TypeOK
  <2>1. NetOK /\ EthOK /\ LinkOK
    BY <1>1 DEF IInv
  <2>2. /\ sock \in [state : {"Closed", "Listen", "Established", "CloseWait", "LastAck"},
                     conn : 0 .. MaxConns, rx : Seq(1 .. MaxRequests),
                     at : 0 .. RxSize - 1, win : 0 .. RxSize,
                     tx : Seq(1 .. MaxReplies), sent : 0 .. TxSize,
                     fin_sent : BOOLEAN, ack_owed : BOOLEAN]
        /\ sock.sent <= Len(sock.tx) /\ Len(sock.tx) <= TxSize
        /\ Len(sock.rx) <= RxSize
    BY <2>1 DEF EthOK, Sockets
  <2>3. eth_out \in QueueType([kind : {"endpoint"}, n : 1 .. MaxConns]
                              \union [kind : {"request"}, n : 1 .. MaxRequests], OutSize)
    BY <1>1 DEF IInv, FramePart, WellFormed, OutItems
  <2>4. eth_in \in QueueType([kind : {"reply"}, n : 1 .. MaxReplies], InSize)
    BY <1>1 DEF IInv, StreamPart, WellFormed, InItems
  <2>5. replies \in 0 .. MaxReplies
    <3>1. /\ replies \in Nat /\ batch \in 0 .. MAX_REPLY_BATCHES
          /\ dispatched * Batches \in Nat /\ dispatched * Batches <= MaxReplies
      BY <2>1, BatchSizes DEF LinkOK
    <3>2. PICK x : x = IF Granting THEN StillAllowed ELSE 0
      OBVIOUS
    <3>3. x \in Nat
      <4>1. Allowed(MAX_REPLY_BATCHES, batch, REPLY_MTU) \in Nat
        BY <3>1, AllowedIs, Sizes
      <4>2. StillAllowed = Allowed(MAX_REPLY_BATCHES, batch, REPLY_MTU)
                           + (IF link_pc = "fill" THEN REPLY_MTU ELSE 0)
        BY DEF StillAllowed, Allowed
      <4>3. StillAllowed \in Nat
        BY <4>1, <4>2, Sizes
      <4>4. QED
        BY <3>2, <4>3
    <3>4. replies + x <= dispatched * Batches
      BY <1>1, <3>2 DEF IInv, BudgetPart
    <3>5. QED
      BY <3>1, <3>3, <3>4, Sizes
  <2>6. QED
    BY <2>1, <2>2, <2>3, <2>4, <2>5 DEF TypeOK, NetOK, EthOK, LinkOK
<1>2. QED
  BY <1>1, InvariantThm, PTL

(* What link_process is granted always begins with an endpoint and a request, so
   that the unwrap() of vhlink.rs:22 cannot panic over the rest of a frame. *)
THEOREM FrameAlignedThm == SafeSpec => []FrameAligned
<1>1. ASSUME IInv PROVE FrameAligned
  <2>1. SUFFICES ASSUME Contents(eth_out) # <<>>
                 PROVE  /\ Contents(eth_out)[1].kind = "endpoint"
                        /\ Len(Contents(eth_out)) > 1
                        /\ Contents(eth_out)[2].kind = "request"
    BY DEF FrameAligned
  <2>2. FramePart
    BY <1>1 DEF IInv
  <2>3. PICK c : c = Contents(eth_out)
    OBVIOUS
  <2>4. c \in Seq(OutItems \union {Blank}) /\ Len(c) \in Nat /\ Len(c) # 0
    BY <2>1, <2>2, <2>3, FrameSeqs, EmptySeq
  <2>5. Frames(c, Len(Region(eth_out))) /\ 1 \in 1 .. Len(c) /\ Len(c) > 0
    BY <2>2, <2>3, <2>4 DEF FramePart
  <2>6. c[1].kind = "endpoint"
    BY <2>5 DEF Frames
  <2>7. 1 < Len(c) /\ c[1 + 1].kind = "request"
    BY <2>5, <2>6 DEF Frames
  <2>8. QED
    BY <2>3, <2>4, <2>6, <2>7
<1>2. QED
  BY <1>1, InvariantThm, PTL

(* While link_process holds its read grant the interrupt leaves the granted cells
   alone: they begin with the endpoint of the event being dispatched. *)
THEOREM GrantStableThm == SafeSpec => []GrantStable
<1>1. ASSUME IInv PROVE GrantStable
  <2>1. SUFFICES ASSUME Granting
                 PROVE  /\ rgr_len >= 2 /\ rgr_len <= Len(Contents(eth_out))
                        /\ eth_out.cells[eth_out.read].kind = "endpoint"
                        /\ eth_out.cells[eth_out.read + 1].n = dispatched
    BY DEF GrantStable, Granting
  <2>2. FramePart /\ LinkOK
    BY <1>1 DEF IInv
  <2>3. PICK q, c, g, n : /\ q = eth_out /\ c = Contents(q) /\ g = Region(q)
                          /\ n = rgr_len
    OBVIOUS
  <2>4. /\ Read(q) = q /\ 2 <= n /\ n <= Len(g) /\ c[2] = Request(dispatched)
        /\ n \in Nat
    BY <2>1, <2>2, <2>3, Sizes DEF FramePart, Holds, LinkOK
  <2>5. /\ Len(g) \in Nat /\ Len(c) \in Nat /\ Len(g) <= Len(c)
        /\ \A k \in 1 .. Len(g) : g[k] = c[k]
    BY <2>2, <2>3, FrameSeqs DEF IsFront
  <2>6. 1 \in 1 .. Len(g) /\ 2 \in 1 .. Len(g) /\ n <= Len(c) /\ Len(g) # 0
    BY <2>4, <2>5
  <2>7. c[1].kind = "endpoint"
    BY <2>2, <2>3, <2>6, GrantedIs
  <2>8. q.read \in Nat
    BY <2>2, <2>3, Indices DEF FramePart, Indexed
  <2>9. PICK e : e = IF q.write < q.read THEN q.last ELSE q.write
    OBVIOUS
  <2>10. g = [k \in 1 .. e - q.read |-> q.cells[q.read + k - 1]]
    BY <2>3, <2>4, <2>9 DEF Region
  <2>11. e - q.read \in Int
    BY <2>2, <2>3, <2>8, <2>9, Indices DEF FramePart, Indexed
  <2>12. DOMAIN g = 1 .. Len(g)
    BY <2>2, <2>3, FrameSeqs, LenProperties
  <2>13. DOMAIN g = 1 .. e - q.read
    BY <2>10
  <2>14. g[1] = q.cells[q.read + 1 - 1] /\ g[2] = q.cells[q.read + 2 - 1]
    BY <2>6, <2>10, <2>12, <2>13
  <2>15. q.read + 1 - 1 = q.read /\ q.read + 2 - 1 = q.read + 1
    BY <2>8
  <2>16. c[2].n = dispatched
    BY <2>4 DEF Request, Cell
  <2>17. QED
    BY <2>3, <2>4, <2>5, <2>6, <2>7, <2>14, <2>15, <2>16
<1>2. QED
  BY <1>1, InvariantThm, PTL

(* Whatever can be in the pipeline. *)
AnyCell == [kind : {"endpoint", "request", "blank"}, n : Nat]

LEMMA AnyCells ==
  /\ \A n \in Nat : Request(n) \in AnyCell /\ Blank \in AnyCell
  /\ OutItems \union {Blank} \subseteq AnyCell
<1>1. \A n \in Nat : Request(n) \in AnyCell /\ Blank \in AnyCell
  BY DEF Request, Blank, Cell, AnyCell
<1>2. ASSUME NEW e \in OutItems \union {Blank} PROVE e \in AnyCell
  <2>1. MaxRequests \in Nat /\ MaxConns \in Nat
    BY Sizes
  <2>2. QED
    BY <2>1 DEF OutItems, Blank, Cell, AnyCell
<1>3. QED
  BY <1>1, <1>2

LEMMA WiderSeq ==
  ASSUME NEW S, NEW T, S \subseteq T, NEW c \in Seq(S)
  PROVE  c \in Seq(T)
OBVIOUS

LEMMA AnyNumbered ==
  ASSUME NEW c \in Seq(AnyCell)
  PROVE  Numbered(c)
<1>1. ASSUME NEW e \in AnyCell PROVE e.n \in Nat
  BY DEF AnyCell
<1>2. QED
  BY <1>1, ElementOfSeq DEF Numbered

(* Requests keep their order from the host to the dispatcher, and none is there
   twice. *)
THEOREM DispatchedInOrderThm == SafeSpec => []DispatchedInOrder
<1>1. ASSUME IInv PROVE DispatchedInOrder
  <2>1. NetOK /\ EthOK /\ LinkOK /\ FramePart /\ OrderPart
    BY <1>1 DEF IInv
  <2>2. PICK a \in 0 .. requests, b \in 0 .. requests :
          /\ dispatched <= a /\ a <= b
          /\ InOrder(Contents(eth_out), "request", Before, a)
          /\ Ascending(sock.rx, a, b)
          /\ InOrder(inbox, "data", b, requests)
    BY <2>1 DEF OrderPart
  <2>3. /\ requests \in Nat /\ a \in Nat /\ b \in Nat /\ b <= requests
        /\ dispatched \in Nat
    BY <2>1, Sizes DEF NetOK, LinkOK
  <2>4. PICK c, x, y : /\ c = Contents(eth_out)
                       /\ x = [k \in DOMAIN sock.rx |-> Request(sock.rx[k])]
                       /\ y = [k \in DOMAIN inbox |->
                                 IF inbox[k].kind = "data" THEN Request(inbox[k].n)
                                                           ELSE Blank]
    OBVIOUS
  <2>5. c \in Seq(AnyCell)
    <3>1. c \in Seq(OutItems \union {Blank})
      BY <2>1, <2>4, FrameSeqs
    <3>2. QED
      BY <3>1, AnyCells, WiderSeq
  <2>6. /\ x \in Seq(AnyCell) /\ Len(x) = Len(sock.rx)
        /\ \A k \in 1 .. Len(x) : x[k].kind = "request" /\ x[k].n = sock.rx[k]
    <3>1. PICK w : w = sock.rx
      OBVIOUS
    <3>2. w \in Seq(1 .. MaxRequests) /\ Len(w) \in Nat /\ DOMAIN w = 1 .. Len(w)
      BY <2>1, <3>1, SocketFields, LenProperties DEF EthOK
    <3>3. ASSUME NEW k \in 1 .. Len(w) PROVE Request(w[k]) \in AnyCell
      <4>1. w[k] \in 1 .. MaxRequests
        BY <3>2, ElementOfSeq
      <4>2. w[k] \in Nat
        BY <4>1, Sizes
      <4>3. QED
        BY <4>2, AnyCells
    <3>4. x = [k \in 1 .. Len(w) |-> Request(w[k])]
      BY <2>4, <3>1, <3>2
    <3>5. x \in Seq(AnyCell) /\ Len(x) = Len(w)
      BY <3>2, <3>3, <3>4
    <3>6. ASSUME NEW k \in 1 .. Len(x) PROVE x[k].kind = "request" /\ x[k].n = w[k]
      <4>1. x[k] = Request(w[k])
        BY <3>4, <3>5
      <4>2. QED
        BY <4>1 DEF Request, Cell
    <3>7. QED
      BY <3>1, <3>5, <3>6
  <2>7. /\ y \in Seq(AnyCell) /\ Len(y) = Len(inbox)
        /\ \A k \in 1 .. Len(y) : y[k].kind = "request"
             => inbox[k].kind = "data" /\ y[k].n = inbox[k].n
    <3>1. PICK w : w = inbox
      OBVIOUS
    <3>2. w \in Seq(Packets) /\ Len(w) \in Nat /\ DOMAIN w = 1 .. Len(w)
      BY <2>1, <3>1, LenProperties DEF NetOK
    <3>3. ASSUME NEW k \in 1 .. Len(w)
          PROVE  (IF w[k].kind = "data" THEN Request(w[k].n) ELSE Blank) \in AnyCell
      <4>1. w[k].n \in Nat
        BY <2>1, <3>1, InboxNumbered DEF Numbered
      <4>2. QED
        BY <4>1, AnyCells
    <3>4. y = [k \in 1 .. Len(w) |->
                 IF w[k].kind = "data" THEN Request(w[k].n) ELSE Blank]
      BY <2>4, <3>1, <3>2
    <3>5. y \in Seq(AnyCell) /\ Len(y) = Len(w)
      BY <3>2, <3>3, <3>4
    <3>6. ASSUME NEW k \in 1 .. Len(y), y[k].kind = "request"
          PROVE  w[k].kind = "data" /\ y[k].n = w[k].n
      <4>1. y[k] = IF w[k].kind = "data" THEN Request(w[k].n) ELSE Blank
        BY <3>4, <3>5
      <4>2. QED
        BY <3>6, <4>1 DEF Request, Blank, Cell
    <3>7. QED
      BY <3>1, <3>5, <3>6
  <2>8. PICK d, p : d = c \o x /\ p = d \o y /\ p = Pipeline
    BY <2>4 DEF Pipeline
  <2>9. Joined(c, x, d)
    BY <2>5, <2>6, <2>8, JoinedIs
  <2>10. d \in Seq(AnyCell)
    BY <2>5, <2>6, <2>8, ConcatProperties
  <2>11. Joined(d, y, p)
    BY <2>7, <2>8, <2>10, JoinedIs
  <2>12. Numbered(c) /\ Numbered(x) /\ Numbered(y)
    BY <2>5, <2>6, <2>7, AnyNumbered
  <2>13. Numbered(d)
    BY <2>10, AnyNumbered
  <2>14. InOrder(x, "request", a, b)
    BY <2>2, <2>6 DEF Ascending, InOrder
  <2>15. InOrder(y, "request", b, requests)
    BY <2>2, <2>7 DEF InOrder
  <2>16. Before \in Int /\ Before <= a
    BY <2>2, <2>3 DEF Before
  <2>17. InOrder(d, "request", Before, b)
    BY <2>2, <2>3, <2>4, <2>9, <2>12, <2>14, <2>16, InOrderJoined
  <2>18. Before <= b
    BY <2>2, <2>3, <2>16
  <2>19. InOrder(p, "request", Before, requests)
    BY <2>3, <2>11, <2>12, <2>13, <2>15, <2>16, <2>17, <2>18, InOrderJoined
  <2>20. DOMAIN p = 1 .. Len(p)
    <3>1. p \in Seq(AnyCell)
      BY <2>7, <2>8, <2>10, ConcatProperties
    <3>2. QED
      BY <3>1, LenProperties
  <2>21. ASSUME NEW k \in 1 .. Len(p), p[k].kind = "request"
         PROVE  \/ dispatched < p[k].n
                \/ k = 2 /\ dispatched = p[2].n /\ link_pc \notin {"idle", "read"}
    <3>1. CASE ~Granting
      BY <2>19, <2>21, <3>1 DEF InOrder, Before
    <3>2. CASE Granting
      <4>1. Holds(eth_out, rgr_len, dispatched) /\ rgr_len \in Nat
        BY <2>1, <3>2, Sizes DEF FramePart, LinkOK
      <4>2. /\ 2 <= rgr_len /\ rgr_len <= Len(Region(eth_out)) /\ c[2] = Request(dispatched)
        BY <2>4, <4>1 DEF Holds
      <4>3. Len(Region(eth_out)) \in Nat /\ Len(c) \in Nat /\ Len(Region(eth_out)) <= Len(c)
        BY <2>1, <2>4, FrameSeqs
      <4>4. Len(Region(eth_out)) # 0 /\ 1 \in 1 .. Len(c) /\ 2 \in 1 .. Len(c)
        BY <4>1, <4>2, <4>3
      <4>5. c[1].kind = "endpoint"
        BY <2>1, <2>4, <4>4, GrantedIs
      <4>6. c[2].kind = "request" /\ c[2].n = dispatched
        BY <4>2 DEF Request, Cell
      <4>7. /\ 1 \in 1 .. Len(d) /\ 2 \in 1 .. Len(d) /\ d[1] = c[1] /\ d[2] = c[2]
        BY <2>9, <4>4 DEF Joined
      <4>8. /\ 2 \in 1 .. Len(p) /\ p[1] = c[1] /\ p[2] = c[2]
        BY <2>11, <4>7 DEF Joined
      <4>9. k # 1
        BY <2>21, <4>5, <4>8
      <4>10. CASE k = 2
        BY <3>2, <4>6, <4>8, <4>10 DEF Granting
      <4>11. CASE 2 < k
        BY <2>19, <2>21, <4>6, <4>8, <4>11 DEF InOrder
      <4>12. QED
        BY <4>9, <4>10, <4>11
    <3>3. QED
      BY <3>1, <3>2
  <2>22. OnTheirWay = {k \in 1 .. Len(p) : p[k].kind = "request"}
    BY <2>8, <2>20 DEF OnTheirWay
  <2>23. ASSUME NEW j \in OnTheirWay, NEW k \in OnTheirWay, j < k
         PROVE  p[j].n < p[k].n
    BY <2>19, <2>22, <2>23 DEF InOrder
  <2>24. QED
    BY <2>8, <2>21, <2>22, <2>23 DEF DispatchedInOrder
<1>2. QED
  BY <1>1, InvariantThm, PTL

(* What link_process committed and the socket has not taken is the end of the reply
   stream, without a gap. *)
THEOREM ReplyStreamExactThm == SafeSpec => []ReplyStreamExact
<1>1. ASSUME IInv PROVE ReplyStreamExact
  <2>1. StreamPart
    BY <1>1 DEF IInv
  <2>2. PICK c : c = Contents(eth_in)
    OBVIOUS
  <2>3. c \in Seq(InItems \union {Blank}) /\ Newest(c, replies)
    BY <2>1, <2>2, StreamSeqs DEF StreamPart
  <2>4. DOMAIN c = 1 .. Len(c)
    BY <2>3, LenProperties
  <2>5. \A k \in DOMAIN c : c[k] = Reply(replies - Len(c) + k)
    BY <2>3, <2>4 DEF Newest
  <2>6. QED
    BY <2>2, <2>5 DEF ReplyStreamExact
<1>2. QED
  BY <1>1, InvariantThm, PTL

(* The socket's unacknowledged data is the stretch of the stream just before. *)
THEOREM SocketContinuesStreamThm == SafeSpec => []SocketContinuesStream
<1>1. ASSUME IInv PROVE SocketContinuesStream
  <2>1. SUFFICES ASSUME sock.state \in Synchronized
                 PROVE  \A k \in DOMAIN sock.tx : sock.tx[k] = Taken - Len(sock.tx) + k
    BY DEF SocketContinuesStream, Taken
  <2>2. Upto(sock.tx, Taken) /\ sock \in Sockets
    BY <1>1, <2>1 DEF IInv, StreamPart, EthOK
  <2>3. sock.tx \in Seq(1 .. MaxReplies)
    BY <2>2, SocketFields
  <2>4. DOMAIN sock.tx = 1 .. Len(sock.tx)
    BY <2>3, LenProperties
  <2>5. QED
    BY <2>2, <2>4 DEF Upto
<1>2. QED
  BY <1>1, InvariantThm, PTL

(* Frames wait in eth_out without a link_process to read them only behind a wrap. *)
THEOREM StrandedThm == SafeSpec => []StrandedOnlyByWrap
<1>1. IInv => StrandedOnlyByWrap
  BY DEF IInv
<1>2. QED
  BY <1>1, InvariantThm, PTL

(* Data that an error of poll(), or the end of the receive ring, left in the socket
   will be polled for, whatever round it was left in. *)
THEOREM ReceivedNotForgottenThm == SafeSpec => []ReceivedNotForgotten
<1>1. IInv => ReceivedNotForgotten
  BY DEF IInv, ForgetPart
<1>2. QED
  BY <1>1, InvariantThm, PTL

-----------------------------------------------------------------------------
(* The data path, with the queues' indices taken away *)

(* What DataPath is shown of a state. *)
Unmoved == UNCHANGED <<Contents(eth_out), Held, dispatched, replies,
                       Len(Contents(eth_in))>>

LEMMA UnmovedStutters ==
  ASSUME Unmoved
  PROVE  UNCHANGED D!vars
BY DEF Unmoved, D!vars

LEMMA HeldIs ==
  ASSUME FramePart, LinkOK
  PROVE  /\ Granting => Held = rgr_len /\ rgr_len \in Nat /\ 2 <= rgr_len
         /\ ~Granting => Held = 0
<1>1. rgr_len \in Nat
  BY Sizes DEF LinkOK
<1>2. Granting => 2 <= rgr_len
  BY DEF FramePart, Holds
<1>3. QED
  BY <1>1, <1>2 DEF Held, Granting

(* What waits in eth_out is endpoints and requests. *)
LEMMA WaitingCells ==
  ASSUME FramePart
  PROVE  Contents(eth_out) \in Seq(D!Cells)
<1>1. PICK c : c = Contents(eth_out)
  OBVIOUS
<1>2. c \in Seq(OutItems \union {Blank}) /\ Len(c) \in Nat
  BY <1>1, FrameSeqs
<1>3. \A k \in 1 .. Len(c) : c[k].kind \in {"endpoint", "request"}
  BY <1>1 DEF FramePart, Frames
<1>4. ASSUME NEW k \in 1 .. Len(c) PROVE c[k] \in D!Cells
  <2>1. c[k] \in OutItems \union {Blank}
    BY <1>2, ElementOfSeq
  <2>2. c[k] \in OutItems
    BY <1>3, <2>1 DEF Blank, Cell
  <2>3. MaxConns \in Nat /\ MaxRequests \in Nat
    BY Sizes
  <2>4. QED
    BY <2>2, <2>3 DEF OutItems, D!Cells
<1>5. c = [k \in 1 .. Len(c) |-> c[k]]
  BY <1>2
<1>6. QED
  BY <1>1, <1>2, <1>4, <1>5

(* handle_tcp_rx puts a frame of newer requests at the end of the line. *)
LEMMA RxReceives ==
  ASSUME IInv, IInv', HandleTcpRx
  PROVE  D!Receive \/ Unmoved
<1>1. /\ FramePart /\ LinkOK /\ sock \in Sockets
      /\ FramePart' /\ LinkOK' /\ OrderPart'
  BY DEF IInv, EthOK
<1>2. UNCHANGED <<eth_in, link_pc, rgr_len, dispatched, replies>>
  BY RxLeaves DEF link
<1>3. Granting' = Granting /\ Held' = Held
  BY <1>2 DEF Granting, Held
<1>4. CASE UNCHANGED eth_out
  BY <1>2, <1>3, <1>4 DEF Unmoved
<1>5. CASE RxCommits
  <2>1. PICK c, d, s : /\ c = Contents(eth_out) /\ d = Contents(eth_out')
                       /\ s = Frame(sock)
    OBVIOUS
  <2>2. /\ Joined(c, s, d) /\ Len(s) >= 2 /\ s[1].kind = "endpoint"
        /\ \A k \in 2 .. Len(s) : s[k].kind = "request"
    BY <1>1, <1>5, <2>1, RxJoins, FrameKinds DEF RxCommits
  <2>3. /\ Len(c) \in Nat /\ Len(s) \in Nat /\ Len(d) = Len(c) + Len(s)
        /\ \A k \in 1 .. Len(c) : d[k] = c[k]
        /\ \A k \in 1 .. Len(s) : d[Len(c) + k] = s[k]
    BY <2>2 DEF Joined
  <2>4. d \in Seq(D!Cells)
    <3>1. (Contents(eth_out) \in Seq(D!Cells))'
      BY <1>1, WaitingCells, PTL
    <3>2. QED
      BY <2>1, <3>1 DEF D!Cells
  <2>5. D!OneFrameMore(c, d)
    <3>1. d[Len(c) + 1].kind = "endpoint"
      BY <2>2, <2>3
    <3>2. ASSUME NEW k \in Len(c) + 2 .. Len(d) PROVE d[k].kind = "request"
      <4>1. k - Len(c) \in 2 .. Len(s) /\ Len(c) + (k - Len(c)) = k
            /\ k - Len(c) \in 1 .. Len(s)
        BY <2>3
      <4>2. PICK j : j = k - Len(c)
        OBVIOUS
      <4>3. d[Len(c) + j] = s[j] /\ s[j].kind = "request" /\ Len(c) + j = k
        BY <2>2, <2>3, <4>1, <4>2
      <4>4. QED
        BY <4>3
    <3>3. Len(d) >= Len(c) + 2
      BY <2>2, <2>3
    <3>4. QED
      BY <2>3, <2>4, <3>1, <3>2, <3>3 DEF D!OneFrameMore
  <2>6. ASSUME NEW k \in Len(c) + 2 .. Len(d) PROVE D!Newer(d, k)
    <3>1. PICK a \in 0 .. requests' : InOrder(d, "request", Before', a)
      BY <1>1, <2>1 DEF OrderPart
    <3>2. k \in 1 .. Len(d) /\ d[k].kind = "request"
      BY <2>3, <2>5 DEF D!OneFrameMore
    <3>3. dispatched < d[k].n
      <4>1. CASE ~Granting
        <5>1. Before' = dispatched
          BY <1>2, <1>3, <4>1 DEF Before
        <5>2. QED
          BY <3>1, <3>2, <5>1 DEF InOrder
      <4>2. CASE Granting
        <5>1. /\ 2 <= rgr_len /\ rgr_len <= Len(Region(eth_out)) /\ rgr_len \in Nat
              /\ c[2] = Request(dispatched)
          BY <1>1, <2>1, <4>2, Sizes DEF FramePart, Holds, LinkOK
        <5>2. 2 \in 1 .. Len(c) /\ 2 \in 1 .. Len(d) /\ 2 < k
          BY <1>1, <2>1, <2>3, <5>1, FrameSeqs
        <5>3. d[2].kind = "request" /\ d[2].n = dispatched
          BY <2>3, <5>1, <5>2 DEF Request, Cell
        <5>4. QED
          BY <3>1, <3>2, <5>2, <5>3 DEF InOrder
      <4>3. QED
        BY <4>1, <4>2
    <3>4. ASSUME NEW j \in 1 .. k - 1, d[j].kind = "request" PROVE d[j].n < d[k].n
      <4>1. j \in 1 .. Len(d) /\ j < k
        BY <2>3, <3>2
      <4>2. QED
        BY <3>1, <3>2, <3>4, <4>1 DEF InOrder
    <3>5. QED
      BY <3>3, <3>4 DEF D!Newer
  <2>7. QED
    BY <1>2, <1>3, <2>1, <2>5, <2>6 DEF D!Receive
<1>6. QED
  BY <1>1, <1>4, <1>5, RxIs

(* handle_tcp_tx gives the socket as much as it takes, and no more than there is. *)
LEMMA TxSends ==
  ASSUME IInv, HandleTcpTx
  PROVE  D!Send \/ Unmoved
<1>1. StreamPart /\ LinkOK /\ sock \in Sockets
  BY DEF IInv, EthOK
<1>2. UNCHANGED <<eth_out, link_pc, rgr_len, dispatched, replies>>
  BY DEF HandleTcpTx, link
<1>3. Held' = Held /\ Contents(eth_out)' = Contents(eth_out)
  BY <1>2 DEF Held
<1>4. CASE UNCHANGED eth_in
  BY <1>2, <1>3, <1>4 DEF Unmoved
<1>5. CASE SendAndRelease
  <2>1. PICK n : n = Written
    OBVIOUS
  <2>2. n \in 0 .. Len(Region(eth_in))
    BY <1>1, <1>5, <2>1, SendIs DEF SendAndRelease
  <2>3. eth_in' = Release(Read(eth_in), n)
    BY <1>5, <2>1 DEF SendAndRelease
  <2>4. Len(Contents(eth_in')) = Len(Contents(eth_in)) - n
    BY <1>1, <2>2, <2>3, SentIs
  <2>5. /\ Len(Region(eth_in)) \in Nat /\ Len(Contents(eth_in)) \in Nat
        /\ Len(Region(eth_in)) <= Len(Contents(eth_in)) /\ replies \in Nat
    BY <1>1, StreamSeqs, RegionFront DEF StreamPart, IsFront, LinkOK
  <2>6. PICK l \in Nat, m \in Nat : l = Len(Contents(eth_in)) /\ m = n /\ m <= l
    BY <2>2, <2>5
  <2>7. CASE m = 0
    BY <1>2, <1>3, <2>4, <2>6, <2>7 DEF Unmoved
  <2>8. CASE m # 0
    <3>1. replies' - Len(Contents(eth_in'))
            \in replies - Len(Contents(eth_in)) + 1 .. replies
      BY <1>2, <2>4, <2>5, <2>6, <2>8
    <3>2. QED
      BY <1>2, <1>3, <3>1 DEF D!Send
  <2>9. QED
    BY <2>7, <2>8
<1>6. QED
  BY <1>4, <1>5 DEF HandleTcpTx

(* link_process is granted whole frames, or nothing. *)
LEMMA ReadBegins ==
  ASSUME IInv, IInv', LinkRead
  PROVE  D!Begin \/ Unmoved
<1>1. FramePart /\ LinkOK /\ FramePart' /\ LinkOK'
  BY DEF IInv
<1>2. /\ eth_out' = Read(eth_out) /\ rgr_len' = Len(Region(eth_out))
      /\ link_pc = "read" /\ UNCHANGED <<eth_in, replies>>
  BY DEF LinkRead
<1>3. PICK c : c = Contents(eth_out) /\ c = Contents(eth_out')
  BY <1>1, <1>2, ReadIs DEF FramePart
<1>4. Held = 0
  BY <1>2 DEF Held
<1>5. CASE Region(eth_out) = <<>>
  <2>1. link_pc' = "idle" /\ dispatched' = dispatched
    BY <1>5 DEF LinkRead
  <2>2. Held' = 0
    BY <2>1 DEF Held
  <2>3. QED
    BY <1>2, <1>3, <1>4, <2>1, <2>2 DEF Unmoved
<1>6. CASE Region(eth_out) # <<>>
  <2>1. link_pc' = "dispatch" /\ dispatched' = Region(eth_out)[2].n
    BY <1>6 DEF LinkRead
  <2>2. PICK n : n = Len(Region(eth_out))
    OBVIOUS
  <2>3. n \in Nat /\ n # 0 /\ n <= Len(c) /\ Len(c) \in Nat
    BY <1>1, <1>3, <1>6, <2>2, FrameSeqs, EmptySeq
  <2>4. 2 <= n /\ dispatched' = c[2].n
    BY <1>1, <1>3, <2>1, <2>2, <2>3, GrantedIs
  <2>5. n < Len(c) => c[n + 1].kind = "endpoint"
    BY <1>1, <1>3, <2>2 DEF FramePart, Frames
  <2>6. Held' = n
    BY <1>2, <2>1, <2>2 DEF Held
  <2>7. n \in 2 .. Len(c)
    BY <2>3, <2>4
  <2>8. replies' - Len(Contents(eth_in')) = replies - Len(Contents(eth_in))
    BY <1>2
  <2>9. QED
    BY <1>2, <1>3, <1>4, <2>4, <2>5, <2>6, <2>7, <2>8 DEF D!Begin
<1>7. QED
  BY <1>5, <1>6

(* A batch of the dispatch is one reply of at most REPLY_MTU, or none. *)
LEMMA DispatchAnswers ==
  ASSUME IInv, IInv', InDispatch
  PROVE  D!Answer \/ Unmoved
<1>1. FramePart /\ LinkOK /\ StreamPart /\ LinkOK' /\ BudgetPart'
  BY DEF IInv
<1>2. /\ UNCHANGED <<eth_out, rgr_len, dispatched>> /\ Granting /\ Granting'
  BY InDispatchLeaves
<1>3. Held = rgr_len /\ Held' = rgr_len /\ Held # 0
  BY <1>1, <1>2, HeldIs DEF Held, Granting
<1>4. replies \in Nat /\ Len(Contents(eth_in)) \in Nat
  BY <1>1, StreamSeqs DEF LinkOK
<1>5. CASE GrantReply \/ PendEth \/ DispatchDone
  <2>1. UNCHANGED <<eth_in, replies>>
    BY <1>5 DEF GrantReply, PendEth, DispatchDone
  <2>2. QED
    BY <1>2, <1>3, <2>1 DEF Unmoved
<1>6. ASSUME CommitReply \/ DropReply PROVE replies' <= MaxReplies
  BY <1>6, RepliesBounded DEF IInv
<1>7. CASE CommitReply
  <2>1. PICK len \in 1 .. REPLY_MTU :
          /\ eth_in' = Commit(eth_in, wgr, [k \in 1 .. len |-> Reply(replies + k)])
          /\ link_pc = "fill" /\ replies' = replies + len
    BY <1>7 DEF CommitReply
  <2>2. PICK s : s = [k \in 1 .. len |-> Reply(replies + k)]
    OBVIOUS
  <2>3. len \in 0 .. REPLY_MTU /\ Len(s) = len /\ len \in Nat
    BY <2>2, Sizes
  <2>4. NextReplies(s, len) /\ IsCommit(s, eth_in')
    BY <1>6, <1>7, <2>1, <2>2, <2>3 DEF NextReplies, IsCommit
  <2>5. Len(Contents(eth_in')) = Len(Contents(eth_in)) + len
    BY <1>1, <2>3, <2>4, CommitIs
  <2>6. replies' - Len(Contents(eth_in')) = replies - Len(Contents(eth_in))
    BY <1>4, <2>1, <2>3, <2>5
  <2>7. replies' \in replies + 1 .. replies + REPLY_MTU
    BY <1>4, <2>1, Sizes
  <2>8. QED
    BY <1>2, <1>3, <2>6, <2>7 DEF D!Answer
<1>8. CASE DropReply
  <2>1. /\ eth_in' = Commit(eth_in, wgr, <<>>) /\ link_pc = "fill" /\ replies' = replies
    BY <1>8 DEF DropReply
  <2>2. PICK s : s = <<>> /\ s = [k \in 1 .. 0 |-> Reply(replies + k)] /\ Len(s) = 0
    BY EmptySeq
  <2>3. 0 \in 0 .. REPLY_MTU /\ replies + 0 <= MaxReplies
    BY <1>4, <1>6, <1>8, <2>1, Sizes
  <2>4. NextReplies(s, 0) /\ IsCommit(s, eth_in')
    BY <2>1, <2>2, <2>3 DEF NextReplies, IsCommit
  <2>5. Len(Contents(eth_in')) = Len(Contents(eth_in)) + 0
    BY <1>1, <2>3, <2>4, CommitIs
  <2>6. Len(Contents(eth_in')) = Len(Contents(eth_in))
    BY <1>4, <2>5
  <2>7. QED
    BY <1>2, <1>3, <2>1, <2>6 DEF Unmoved
<1>9. QED
  BY <1>5, <1>7, <1>8 DEF InDispatch

(* The release takes from the line what the grant was, whatever came since. *)
LEMMA ReleaseFinishes ==
  ASSUME IInv, LinkRelease
  PROVE  D!Finish
<1>1. FramePart /\ LinkOK
  BY DEF IInv
<1>2. PICK n, c, d : n = rgr_len /\ c = Contents(eth_out) /\ d = Contents(eth_out')
  OBVIOUS
<1>3. ARelease(eth_out, OutItems, OutSize, n, eth_out') /\ Granting
  BY <1>1, <1>2, ReleaseIs
<1>4. WellFormed(eth_out', OutItems, OutSize) /\ Drops(c, n, d)
  BY <1>2, <1>3, ReleaseDrops
<1>5. n \in Nat /\ n # 0 /\ Held = n
  BY <1>1, <1>2, <1>3, HeldIs
<1>6. PICK S : c \in Seq(S) /\ d \in Seq(S) /\ Len(c) \in Nat /\ Len(d) \in Nat
  BY <1>1, <1>2, <1>4, FrameSeqs, ContentsIs
<1>7. d = SubSeq(c, n + 1, Len(c))
  <2>1. Len(d) = Len(c) - n /\ n <= Len(c) /\ \A k \in 1 .. Len(d) : d[k] = c[k + n]
    BY <1>4 DEF Drops
  <2>2. PICK e : e = SubSeq(c, n + 1, Len(c))
    OBVIOUS
  <2>3. e \in Seq(S) /\ Len(e) = Len(c) - n
        /\ \A k \in 1 .. Len(c) - n : e[k] = c[n + k]
    BY <1>5, <1>6, <2>1, <2>2
  <2>4. \A k \in 1 .. Len(d) : d[k] = e[k]
    BY <1>5, <1>6, <2>1, <2>3
  <2>5. QED
    BY <1>6, <2>1, <2>2, <2>3, <2>4, SeqEqual
<1>8. /\ link_pc' = "idle" /\ UNCHANGED <<eth_in, dispatched, replies>>
  BY DEF LinkRelease
<1>9. Held' = 0
  BY <1>8 DEF Held
<1>10. replies' - Len(Contents(eth_in')) = replies - Len(Contents(eth_in))
  BY <1>8
<1>11. QED
  BY <1>2, <1>5, <1>7, <1>8, <1>9, <1>10 DEF D!Finish

LEMMA StepOfDataPath ==
  ASSUME IInv, IInv', [Next]_vars
  PROVE  [D!Next]_(D!vars)
<1>1. CASE UNCHANGED <<eth_out, eth_in, link>>
  <2>1. Unmoved
    BY <1>1 DEF link, Held, Unmoved
  <2>2. QED
    BY <2>1, UnmovedStutters
<1>2. CASE AtHost \/ UNCHANGED vars
  BY <1>1, <1>2, AtHostLeaves DEF vars
<1>3. CASE AtInterrupt
  <2>1. CASE HandleTcpTx
    BY <2>1, TxSends, UnmovedStutters DEF D!Next
  <2>2. CASE ~HandleTcpTx
    <3>1. UNCHANGED <<eth_out, eth_in, link>>
      BY <1>3, <2>2 DEF AtInterrupt, OtherInterrupt, EnterEthernetEvent, Poll,
         CloseOrListen, PollAt, SmoltcpPollAt
    <3>2. QED
      BY <1>1, <3>1
  <2>3. QED
    BY <2>1, <2>2
<1>4. CASE HandleTcpRx
  BY <1>4, RxReceives, UnmovedStutters DEF D!Next
<1>5. CASE LinkStart
  <2>1. UNCHANGED <<eth_out, eth_in, dispatched, replies>> /\ Held' = 0 /\ Held = 0
    BY <1>5 DEF LinkStart, Held
  <2>2. Unmoved
    BY <2>1 DEF Unmoved
  <2>3. QED
    BY <2>2, UnmovedStutters
<1>6. CASE LinkRead
  BY <1>6, ReadBegins, UnmovedStutters DEF D!Next
<1>7. CASE InDispatch
  BY <1>7, DispatchAnswers, UnmovedStutters DEF D!Next
<1>8. CASE LinkRelease
  BY <1>8, ReleaseFinishes DEF D!Next
<1>9. QED
  BY <1>2, <1>3, <1>4, <1>5, <1>6, <1>7, <1>8, Steps

(* Interrupt and protocol task, over two rings and with their steps interleaved,
   pass the frames on as DataPath says: whole, in order, and given up only by the
   task that was granted them. *)
THEOREM RefinementThm == SafeSpec => ImplementsDataPath
<1>1. Init => D!Init
  <2>1. SUFFICES ASSUME Init PROVE D!Init
    OBVIOUS
  <2>2. eth_out = NewQueue(OutSize) /\ eth_in = NewQueue(InSize)
    BY <2>1 DEF Init
  <2>3. Contents(eth_out) = <<>> /\ Contents(eth_in) = <<>>
    BY <2>2, NewQueueIs, Sizes
  <2>4. Len(Contents(eth_in)) = 0
    BY <2>3, EmptySeq
  <2>5. Held = 0 /\ dispatched = 0 /\ replies = 0
    BY <2>1 DEF Init, Held
  <2>6. replies - Len(Contents(eth_in)) = 0
    BY <2>4, <2>5
  <2>7. QED
    BY <2>3, <2>5, <2>6 DEF D!Init
<1>2. IInv /\ IInv' /\ [Next]_vars => [D!Next]_(D!vars)
  BY StepOfDataPath
<1>3. QED
  BY <1>1, <1>2, InvariantThm, PTL DEF SafeSpec, ImplementsDataPath, D!SafeSpec
=============================================================================
