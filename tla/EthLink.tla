------------------------------- MODULE EthLink -------------------------------
(***************************************************************************)
(* The data path of ecbridge_fw: the TCP socket polled by ethernet_event   *)
(* (ethernet.rs), the two bbqueues between the interrupt and the protocol  *)
(* task, and link_process (vhlink.rs) with the shape of xpi_dispatch: a    *)
(* sequence of reply batches, each granted, filled and committed.          *)
(*                                                                         *)
(* ethernet_event (priority 2) preempts link_process (priority 1) between  *)
(* any two of its steps, and not the other way round.  The network and the *)
(* host are the environment.  smoltcp and RTIC are modelled from their use.*)
(* Time is left out: `timer` says that smoltcp_poll_at is armed or ready,  *)
(* which PollTimer shows to be what ethernet_event makes of poll_at().     *)
(***************************************************************************)
EXTENDS Integers, Sequences, BBQueue

CONSTANTS MAX_ITERATIONS,     \* ethernet.rs:201
          MAX_REPLY_BATCHES,  \* xpi_dispatch.rs:45
          REPLY_MTU,          \* cells granted for a reply, xpi_dispatch.rs:46
          OutSize, InSize,    \* cells of eth_out and eth_in (512 bytes there)
          RxSize,             \* cells of the socket's receive ring, ethernet.rs:72
          TxSize,             \* cells of its transmit buffer
          MaxRequests,        \* requests the host sends, over all connections; one
                              \* that is cut in two (by TCP, or by the end of the
                              \* receive ring) counts as two
          MaxConns            \* connections the host opens

(* Fewer rounds would not do: an error may cost the first, the end of the receive
   ring the second (ReceivedNotForgotten). *)
ASSUME LinkAssumption ==
  /\ {MAX_ITERATIONS, MAX_REPLY_BATCHES, REPLY_MTU, OutSize, InSize, RxSize, TxSize}
       \subseteq Nat \ {0}
  /\ MAX_ITERATIONS >= 3
  /\ MaxRequests \in Nat /\ MaxConns \in Nat

(* What a cell holds: an IpEndpointL, a request or a reply, numbered in the
   order of the connections, of sending and of committing. *)
Endpoint(c) == Cell("endpoint", c)
Request(n)  == Cell("request", n)
Reply(n)    == Cell("reply", n)

None == -1

VARIABLES
  \* the host and the wire
  inbox,        \* packets the MAC has received and poll() has not processed
  host,         \* the connection the host has open, 0 for none
  conns,        \* connections opened so far
  requests,     \* requests sent so far
  \* the interrupt and its socket
  sock,         \* the TCP socket
  eth_pending,  \* the ETH interrupt is pending
  timer,        \* smoltcp_poll_at is armed or ready
  due,          \* it is what made ETH pending: what poll_at() named is due
  eth_pc,       \* where ethernet_event is
  iteration,    \* its loop counter
  \* the queues
  eth_out,      \* from the interrupt to link_process
  eth_in,       \* from link_process to the interrupt
  \* the protocol task
  link_ready,   \* link_process is spawned and has not started
  link_pc,      \* where link_process is
  rgr_len,      \* length of its read grant
  batch,        \* reply batches of the event so far
  wgr,          \* start of its write grant
  dispatched,   \* the newest request given to xpi_dispatch
  replies       \* reply cells committed so far

net  == <<inbox, host, conns, requests>>
eth  == <<sock, eth_pending, timer, due, eth_pc, iteration>>
link == <<link_pc, rgr_len, batch, wgr, dispatched, replies>>
vars == <<net, eth, eth_out, eth_in, link_ready, link>>

(* A "syn" carries the number of its connection, "data" that of the request. *)
Packet(kind, n) == [kind |-> kind, n |-> n]
Packets == [kind : {"ack", "fin", "rst"}, n : {0}]
           \union [kind : {"syn"}, n : 1 .. MaxConns]
           \union [kind : {"data"}, n : 1 .. MaxRequests]

(* rx is what the receive ring holds, from cell `at` on and over its end; `win` is
   the room the host was last told of. *)
ClosedSocket == [state |-> "Closed", conn |-> 0, rx |-> <<>>, at |-> 0, win |-> RxSize,
                 tx |-> <<>>, sent |-> 0, fin_sent |-> FALSE, ack_owed |-> FALSE]

MaxReplies == MaxRequests * MAX_REPLY_BATCHES * REPLY_MTU

TypeOK ==
  /\ inbox \in Seq(Packets)
  /\ host \in 0 .. MaxConns /\ conns \in 0 .. MaxConns /\ requests \in 0 .. MaxRequests
  /\ sock \in [state : {"Closed", "Listen", "Established", "CloseWait", "LastAck"},
               conn : 0 .. MaxConns, rx : Seq(1 .. MaxRequests),
               at : 0 .. RxSize - 1, win : 0 .. RxSize,
               tx : Seq(1 .. MaxReplies), sent : 0 .. TxSize,
               fin_sent : BOOLEAN, ack_owed : BOOLEAN]
  /\ sock.sent <= Len(sock.tx) /\ Len(sock.tx) <= TxSize /\ Len(sock.rx) <= RxSize
  /\ eth_pending \in BOOLEAN /\ timer \in BOOLEAN /\ due \in BOOLEAN
  /\ eth_pc \in {"idle", "poll", "rx", "tx", "close", "poll_at"}
  /\ iteration \in 0 .. MAX_ITERATIONS - 1
  /\ eth_out \in QueueType([kind : {"endpoint"}, n : 1 .. MaxConns]
                           \union [kind : {"request"}, n : 1 .. MaxRequests], OutSize)
  /\ eth_in \in QueueType([kind : {"reply"}, n : 1 .. MaxReplies], InSize)
  /\ link_ready \in BOOLEAN
  /\ link_pc \in {"idle", "read", "dispatch", "fill", "pend", "release"}
  /\ rgr_len \in 0 .. OutSize /\ batch \in 0 .. MAX_REPLY_BATCHES
  /\ wgr \in 0 .. InSize \union {None}
  /\ dispatched \in 0 .. MaxRequests /\ replies \in 0 .. MaxReplies

Init ==
  /\ inbox = <<>> /\ host = 0 /\ conns = 0 /\ requests = 0
  /\ sock = ClosedSocket
  /\ eth_pending = TRUE /\ timer = FALSE /\ due = FALSE
  /\ eth_pc = "idle" /\ iteration = 0
  /\ eth_out = NewQueue(OutSize) /\ eth_in = NewQueue(InSize)
  /\ link_ready = FALSE
  /\ link_pc = "idle" /\ rgr_len = 0 /\ batch = 0 /\ wgr = None
  /\ dispatched = 0 /\ replies = 0

-----------------------------------------------------------------------------
(* The host and the wire, which neither loses nor reorders.  A packet that comes
   in the middle of a round of ethernet_event is first seen by the next poll(),
   so it may as well come just before: arrivals are between rounds. *)

BetweenRounds == eth_pc \in {"idle", "poll"}

Arrives(p) == /\ BetweenRounds
              /\ inbox' = Append(inbox, p)
              /\ eth_pending' = TRUE
              /\ UNCHANGED <<sock, timer, due, eth_pc, iteration,
                             eth_out, eth_in, link_ready, link>>

(* At any other time than in LISTEN smoltcp refuses the connection. *)
HostConnect == /\ host = 0 /\ conns < MaxConns /\ sock.state = "Listen"
               /\ host' = conns + 1 /\ conns' = conns + 1
               /\ Arrives(Packet("syn", conns + 1))
               /\ UNCHANGED requests

(* What is on the wire fits in the window the host knows, hence in the ring. *)
OnTheWire == SelectSeq(inbox, LAMBDA p : p.kind = "data")

HostSend == /\ host # 0 /\ requests < MaxRequests
            /\ Len(sock.rx) + Len(OnTheWire) < RxSize
            /\ requests' = requests + 1
            /\ Arrives(Packet("data", requests + 1))
            /\ UNCHANGED <<host, conns>>

HostHangsUp == \E kind \in {"fin", "rst"} :
            /\ host # 0
            /\ host' = 0
            /\ Arrives(Packet(kind, 0))
            /\ UNCHANGED <<conns, requests>>

HostAck == /\ sock.sent > 0 \/ sock.fin_sent
           /\ \A k \in DOMAIN inbox : inbox[k].kind # "ack"
           /\ Arrives(Packet("ack", 0))
           /\ UNCHANGED <<host, conns, requests>>

(* An end of transmission, or a frame for nobody. *)
OtherInterrupt == /\ BetweenRounds /\ ~eth_pending
                  /\ eth_pending' = TRUE
                  /\ UNCHANGED <<net, sock, timer, due, eth_pc, iteration,
                                 eth_out, eth_in, link_ready, link>>

-----------------------------------------------------------------------------
(* smoltcp *)

Synchronized == {"Established", "CloseWait", "LastAck"}

(* The connection is gone; what was received is still in the buffer. *)
Dropped(s) == [ClosedSocket EXCEPT !.rx = s.rx, !.at = s.at, !.tx = s.tx]

Process(s, p) ==
  CASE p.kind = "syn" /\ s.state = "Listen" ->
         [s EXCEPT !.state = "Established", !.conn = p.n]
    [] p.kind = "data" /\ s.state = "Established" /\ Len(s.rx) < RxSize ->
         [s EXCEPT !.rx = Append(@, p.n), !.ack_owed = TRUE]
    [] p.kind = "fin" /\ s.state = "Established" ->
         [s EXCEPT !.state = "CloseWait", !.ack_owed = TRUE]
    [] p.kind = "ack" /\ s.fin_sent -> Dropped(s)
    [] p.kind = "ack" /\ s.state \in Synchronized /\ ~s.fin_sent ->
         [s EXCEPT !.tx = SubSeq(@, s.sent + 1, Len(@)), !.sent = 0]
    [] p.kind = "rst" /\ s.state \in Synchronized -> Dropped(s)
    [] OTHER -> s

ProcessAll(s, packets) ==
  LET after[k \in 0 .. Len(packets)] ==
        IF k = 0 THEN s ELSE Process(after[k - 1], packets[k])
  IN  after[Len(packets)]

(* There is more room for what the host may still send than it was told of. *)
WindowToUpdate(s) == s.state = "Established" /\ RxSize - Len(s.rx) > s.win

(* Something can be sent at once: data, the FIN of close(), or the new window. *)
HasToSend(s) == \/ /\ s.state \in Synchronized
                   /\ s.sent < Len(s.tx) \/ (s.state = "LastAck" /\ ~s.fin_sent)
                \/ WindowToUpdate(s)

(* Whatever is sent acknowledges all that was received and tells the window. *)
Emitted(s) == [s EXCEPT !.sent = Len(s.tx), !.fin_sent = s.state = "LastAck",
                        !.ack_owed = FALSE, !.win = RxSize - Len(s.rx)]

CanSend(s) == s.state \in {"Established", "CloseWait"} /\ Len(s.tx) < TxSize
IsOpen(s)  == s.state # "Closed"

-----------------------------------------------------------------------------
(* ethernet_event and smoltcp_poll_at *)

EnterEthernetEvent ==
  /\ eth_pc = "idle" /\ eth_pending
  /\ eth_pending' = FALSE
  /\ eth_pc' = "poll" /\ iteration' = 0
  /\ UNCHANGED <<net, sock, timer, due, eth_out, eth_in, link_ready, link>>

(* net.poll(): true if a packet was processed or sent.  An acknowledgement may
   be delayed until smoltcp_poll_at.  An error, which smoltcp returns for some
   packets it met, is answered as false although others were processed. *)
Poll ==
  /\ eth_pc = "poll"
  /\ inbox' = <<>>
  /\ LET s == ProcessAll(sock, inbox) IN
     \/ \E sends \in BOOLEAN :
          /\ HasToSend(s) => sends
          /\ due /\ s.ack_owed => sends
          /\ sends => HasToSend(s) \/ s.ack_owed
          /\ sock' = IF sends THEN Emitted(s) ELSE s
          /\ eth_pc' = IF sends \/ inbox # <<>> THEN "rx" ELSE "tx"
     \/ inbox # <<>> /\ sock' = s /\ eth_pc' = "tx"
  /\ due' = FALSE
  /\ UNCHANGED <<host, conns, requests, eth_pending, timer, iteration,
                 eth_out, eth_in, link_ready, link>>

(* handle_tcp_rx: recv() hands out, and dequeues, what lies before the end of the
   receive ring; the rest is left for a later round.  It becomes one frame, its
   endpoint first.  Without an endpoint, or without room in eth_out, it is
   dropped; the spawn fails when link_process is already spawned. *)
Contiguous(s) == IF s.at + Len(s.rx) <= RxSize THEN Len(s.rx) ELSE RxSize - s.at
Rest(s)       == SubSeq(s.rx, Contiguous(s) + 1, Len(s.rx))
Frame(s) == <<Endpoint(s.conn)>> \o [k \in 1 .. Contiguous(s) |-> Request(s.rx[k])]

(* Mutant: link_process is not spawned. *)
RxWithoutSpawn ==
  /\ eth_pc = "rx"
  /\ sock' = [sock EXCEPT !.rx = Rest(sock), !.at = (@ + Contiguous(sock)) % RxSize]
  /\ LET start == GrantExact(eth_out, Contiguous(sock) + 1) IN
     eth_out' = IF sock.rx # <<>> /\ sock.conn # 0 /\ start # Failed
                THEN Commit(eth_out, start, Frame(sock)) ELSE eth_out
  /\ eth_pc' = "tx"
  /\ UNCHANGED <<net, eth_pending, timer, due, iteration, eth_in, link_ready, link>>

HandleTcpRx ==
  /\ eth_pc = "rx"
  /\ sock' = [sock EXCEPT !.rx = Rest(sock), !.at = (@ + Contiguous(sock)) % RxSize]
  /\ LET start == GrantExact(eth_out, Contiguous(sock) + 1) IN
     IF sock.rx # <<>> /\ sock.conn # 0 /\ start # Failed
     THEN /\ eth_out' = Commit(eth_out, start, Frame(sock))
          /\ link_ready' = TRUE
     ELSE UNCHANGED <<eth_out, link_ready>>
  /\ eth_pc' = "tx"
  /\ UNCHANGED <<net, eth_pending, timer, due, iteration, eth_in, link>>

(* handle_tcp_tx: the socket takes what it has room for. *)
Room    == TxSize - Len(sock.tx)
Written == IF Len(Region(eth_in)) < Room THEN Len(Region(eth_in)) ELSE Room

SendSlice(n) ==
  sock' = [sock EXCEPT !.tx = @ \o [k \in 1 .. n |-> Region(eth_in)[k].n]]

(* Mutant: send_slice is taken to have written all it was given. *)
TxReleasingAll == /\ SendSlice(Written)
                  /\ eth_in' = Release(Read(eth_in), Len(Region(eth_in)))

(* Mutant: the room in the socket is not looked at. *)
TxWithoutRoom == /\ SendSlice(Len(Region(eth_in)))
                 /\ eth_in' = Release(Read(eth_in), Len(Region(eth_in)))

SendAndRelease == SendSlice(Written) /\ eth_in' = Release(Read(eth_in), Written)

HandleTcpTx ==
  /\ eth_pc = "tx"
  /\ IF CanSend(sock) THEN SendAndRelease ELSE UNCHANGED <<sock, eth_in>>
  /\ eth_pc' = "close"
  /\ UNCHANGED <<net, eth_pending, timer, due, iteration,
                 eth_out, link_ready, link>>

(* close() in CLOSE-WAIT; listen(), which resets the buffers, when not open. *)
CloseOrListen ==
  /\ eth_pc = "close"
  /\ sock' = CASE sock.state = "CloseWait" -> [sock EXCEPT !.state = "LastAck"]
               [] ~IsOpen(sock) -> [ClosedSocket EXCEPT !.state = "Listen"]
               [] OTHER -> sock
  /\ eth_pc' = "poll_at"
  /\ UNCHANGED <<net, eth_pending, timer, due, iteration,
                 eth_out, eth_in, link_ready, link>>

(* net.poll_at() and what follows the loop.  An instant is advised while
   something is unacknowledged either way.  With none advised the timer is
   cancelled if it is not too late, also after MAX_ITERATIONS rounds. *)
(* Mutant: an acknowledgement that is owed is no reason to be polled. *)
PollAtForgettingAck ==
  /\ eth_pc = "poll_at"
  /\ LET now   == HasToSend(sock)
         later == sock.sent > 0 \/ sock.fin_sent
     IN  IF now /\ iteration + 1 < MAX_ITERATIONS
         THEN /\ eth_pc' = "poll" /\ iteration' = iteration + 1
              /\ UNCHANGED timer
         ELSE /\ eth_pc' = "idle" /\ iteration' = 0
              /\ IF later /\ ~now THEN timer' = TRUE
                                  ELSE timer' \in {timer, FALSE}
  /\ UNCHANGED <<net, sock, eth_pending, due,
                 eth_out, eth_in, link_ready, link>>

PollAt ==
  /\ eth_pc = "poll_at"
  /\ LET now   == HasToSend(sock)
         later == sock.sent > 0 \/ sock.fin_sent \/ sock.ack_owed
     IN  IF now /\ iteration + 1 < MAX_ITERATIONS
         THEN /\ eth_pc' = "poll" /\ iteration' = iteration + 1
              /\ UNCHANGED timer
         ELSE /\ eth_pc' = "idle" /\ iteration' = 0
              /\ IF later /\ ~now THEN timer' = TRUE
                                  ELSE timer' \in {timer, FALSE}
  /\ UNCHANGED <<net, sock, eth_pending, due,
                 eth_out, eth_in, link_ready, link>>

(* Mutant: the task does not pend ETH. *)
PollAtTaskWithoutPend ==
  /\ eth_pc = "idle" /\ timer
  /\ timer' = FALSE
  /\ due' = TRUE
  /\ UNCHANGED <<net, sock, eth_pc, iteration, eth_pending,
                 eth_out, eth_in, link_ready, link>>

SmoltcpPollAt == /\ eth_pc = "idle" /\ timer
                 /\ timer' = FALSE
                 /\ eth_pending' = TRUE /\ due' = TRUE
                 /\ UNCHANGED <<net, sock, eth_pc, iteration,
                                eth_out, eth_in, link_ready, link>>

EthernetEvent == Poll \/ HandleTcpRx \/ HandleTcpTx \/ CloseOrListen \/ PollAt

-----------------------------------------------------------------------------
(* link_process and xpi_dispatch *)

(* Priority 1 runs while priority 2 has nothing to do. *)
Priority1 == eth_pc = "idle" /\ ~eth_pending

LinkStart == /\ Priority1 /\ link_pc = "idle" /\ link_ready
             /\ link_ready' = FALSE
             /\ link_pc' = "read"
             /\ UNCHANGED <<net, eth, eth_out, eth_in, rgr_len, batch, wgr,
                            dispatched, replies>>

(* Of all that is granted only the first event is parsed and dispatched.  An
   event that does not parse has no batches, like one of no interest. *)
LinkRead ==
  /\ Priority1 /\ link_pc = "read"
  /\ eth_out' = Read(eth_out)
  /\ LET region == Region(eth_out) IN
     /\ rgr_len' = Len(region)
     /\ IF region = <<>>
        THEN link_pc' = "idle" /\ UNCHANGED dispatched
        ELSE link_pc' = "dispatch" /\ dispatched' = region[2].n
  /\ batch' = 0
  /\ UNCHANGED <<net, eth, eth_in, link_ready, wgr, replies>>

(* One more batch: granted, or the dispatch ends with InternalBbqueueError. *)
GrantReply ==
  /\ Priority1 /\ link_pc = "dispatch" /\ batch < MAX_REPLY_BATCHES
  /\ wgr' = GrantExact(eth_in, REPLY_MTU)
  /\ IF wgr' = Failed THEN link_pc' = "release" /\ UNCHANGED batch
                      ELSE link_pc' = "fill" /\ batch' = batch + 1
  /\ UNCHANGED <<net, eth, eth_out, eth_in, link_ready, rgr_len, dispatched, replies>>

(* Mutant: the whole grant is committed, whatever the reply came to. *)
CommitWholeGrant == \E len \in 1 .. REPLY_MTU :
  /\ Priority1 /\ link_pc = "fill"
  /\ eth_in' = Commit(eth_in, wgr, [k \in 1 .. REPLY_MTU |->
                                      IF k <= len THEN Reply(replies + k) ELSE Blank])
  /\ replies' = replies + len
  /\ wgr' = None
  /\ link_pc' = "pend"
  /\ UNCHANGED <<net, eth, eth_out, link_ready, rgr_len, batch, dispatched>>

(* The reply is committed with the length it came to... *)
CommitReply == \E len \in 1 .. REPLY_MTU :
  /\ Priority1 /\ link_pc = "fill"
  /\ eth_in' = Commit(eth_in, wgr, [k \in 1 .. len |-> Reply(replies + k)])
  /\ replies' = replies + len
  /\ wgr' = None
  /\ link_pc' = "pend"
  /\ UNCHANGED <<net, eth, eth_out, link_ready, rgr_len, batch, dispatched>>

(* ...and then ETH is pended... *)
(* Mutant: the interrupt is not told. *)
CommitWithoutPend ==
  /\ Priority1 /\ link_pc = "pend"
  /\ link_pc' = "dispatch"
  /\ UNCHANGED <<net, eth, eth_out, eth_in, link_ready, rgr_len, batch, wgr,
                 dispatched, replies>>

PendEth ==
  /\ Priority1 /\ link_pc = "pend"
  /\ eth_pending' = TRUE
  /\ link_pc' = "dispatch"
  /\ UNCHANGED <<net, sock, timer, due, eth_pc, iteration, eth_out,
                 eth_in, link_ready, rgr_len, batch, wgr, dispatched, replies>>

(* ...or the grant is dropped: only deferred calls in the batch, which goes on
   with the next, or an error, which ends the dispatch. *)
DropReply ==
  /\ Priority1 /\ link_pc = "fill"
  /\ eth_in' = Commit(eth_in, wgr, <<>>)
  /\ wgr' = None
  /\ link_pc' \in {"dispatch", "release"}
  /\ UNCHANGED <<net, eth, eth_out, link_ready, rgr_len, batch, dispatched, replies>>

DispatchDone == /\ Priority1 /\ link_pc = "dispatch"
                /\ link_pc' = "release"
                /\ UNCHANGED <<net, eth, eth_out, eth_in, link_ready, rgr_len,
                               batch, wgr, dispatched, replies>>

(* Mutant: only the event that was dispatched is released. *)
ReleaseOneEvent ==
  /\ Priority1 /\ link_pc = "release"
  /\ eth_out' = Release(eth_out, 2)
  /\ link_pc' = "idle" /\ rgr_len' = 0 /\ batch' = 0 /\ wgr' = None
  /\ UNCHANGED <<net, eth, eth_in, link_ready, dispatched, replies>>

(* Mutant: an early return leaves the grant unreleased. *)
ReturnWithoutRelease ==
  /\ Priority1 /\ link_pc = "release"
  /\ link_pc' = "idle" /\ rgr_len' = 0 /\ batch' = 0 /\ wgr' = None
  /\ UNCHANGED <<net, eth, eth_out, eth_in, link_ready, dispatched, replies>>

(* Mutant: the length is that of the frames there now, not of the grant. *)
ReleaseAllThere ==
  /\ Priority1 /\ link_pc = "release"
  /\ eth_out' = Release(eth_out, Len(Region(eth_out)))
  /\ link_pc' = "idle" /\ rgr_len' = 0 /\ batch' = 0 /\ wgr' = None
  /\ UNCHANGED <<net, eth, eth_in, link_ready, dispatched, replies>>

LinkRelease ==
  /\ Priority1 /\ link_pc = "release"
  /\ eth_out' = Release(eth_out, rgr_len)
  /\ link_pc' = "idle" /\ rgr_len' = 0 /\ batch' = 0 /\ wgr' = None
  /\ UNCHANGED <<net, eth, eth_in, link_ready, dispatched, replies>>

LinkProcess == \/ LinkStart \/ LinkRead \/ GrantReply \/ CommitReply \/ PendEth
               \/ DropReply \/ DispatchDone \/ LinkRelease

Environment == HostConnect \/ HostSend \/ HostHangsUp \/ HostAck \/ OtherInterrupt

Next == Environment \/ EnterEthernetEvent \/ EthernetEvent \/ SmoltcpPollAt
        \/ LinkProcess

(* Handlers and tasks run to completion.  Interrupts leave smoltcp_poll_at and the
   protocol task their share, and the host acknowledges what it is sent: strong
   fairness, for an ETH interrupt disables these until it is served. *)
Fairness == /\ WF_vars(EnterEthernetEvent) /\ WF_vars(EthernetEvent)
            /\ SF_vars(SmoltcpPollAt) /\ SF_vars(LinkProcess)
            /\ SF_vars(HostAck)

SafeSpec == Init /\ [][Next]_vars
Spec     == SafeSpec /\ Fairness

-----------------------------------------------------------------------------
(* Properties *)

(* What link_process is granted always begins with an endpoint followed by a
   request: ssmarshal::deserialize(&rgr).unwrap() at vhlink.rs:22 cannot panic
   over the rest of an earlier frame, wherever frames wrap and whatever the
   interrupt commits between the read and the release. *)
FrameAligned == LET c == Contents(eth_out) IN
                c # <<>> => /\ c[1].kind = "endpoint"
                            /\ Len(c) > 1 /\ c[2].kind = "request"

(* While link_process holds its grant, the interrupt leaves the granted cells
   alone, and the first event in it is the one being dispatched. *)
GrantStable == link_pc \in {"dispatch", "fill", "pend", "release"}
                 => /\ rgr_len >= 2 /\ rgr_len <= Len(Contents(eth_out))
                    /\ eth_out.cells[eth_out.read].kind = "endpoint"
                    /\ eth_out.cells[eth_out.read + 1].n = dispatched

(* Requests keep their order from the host to the dispatcher and none is
   duplicated: what is on its way is increasing, and newer than what was
   dispatched (but for the one being dispatched, still in its frame). *)
Pipeline == Contents(eth_out)
            \o [k \in DOMAIN sock.rx |-> Request(sock.rx[k])]
            \o [k \in DOMAIN inbox |-> IF inbox[k].kind = "data" THEN Request(inbox[k].n)
                                                               ELSE Blank]
OnTheirWay == {k \in DOMAIN Pipeline : Pipeline[k].kind = "request"}
DispatchedInOrder ==
  /\ \A j, k \in OnTheirWay : j < k => Pipeline[j].n < Pipeline[k].n
  /\ \A k \in OnTheirWay :
       \/ dispatched < Pipeline[k].n
       \/ k = 2 /\ dispatched = Pipeline[2].n /\ link_pc \notin {"idle", "read"}

(* What link_process committed and the socket has not taken is, in order and
   without a gap, the end of the reply stream: a partial send_slice, a wrap, a
   dropped grant or a new connection loses and repeats nothing. *)
ReplyStreamExact ==
  LET c == Contents(eth_in) IN
  \A k \in DOMAIN c : c[k] = Reply(replies - Len(c) + k)

(* The other half: the socket's unacknowledged data ends where eth_in begins. *)
SocketContinuesStream ==
  sock.state \in Synchronized =>
    LET taken == replies - Len(Contents(eth_in)) IN
    \A k \in DOMAIN sock.tx : sock.tx[k] = taken - Len(sock.tx) + k

(* Frames wait in eth_out with no link_process to read them only if a wrap has
   cut them off from the grant that the last one read. *)
StrandedOnlyByWrap ==
  ~link_ready /\ link_pc = "idle" /\ Contents(eth_out) # <<>>
    => Read(eth_out) # eth_out

(* Data the handler left in the socket, because poll() reported an error or because
   recv() stopped at the end of the receive ring, is not forgotten when the handler
   ends, not even when it used up its rounds: there will be a poll. *)
ReceivedNotForgotten ==
  eth_pc = "idle" /\ sock.rx # <<>> => eth_pending \/ timer

(* What is left of the two queues once their indices are taken away. *)
Held == IF link_pc \in {"dispatch", "fill", "pend", "release"} THEN rgr_len ELSE 0
D == INSTANCE DataPath WITH
       MaxReply <- REPLY_MTU,
       waiting  <- Contents(eth_out),
       serving  <- Held,
       current  <- dispatched,
       answered <- replies,
       sent     <- replies - Len(Contents(eth_in))

(* Each step of interrupt or task is one that DataPath allows, or none there: no
   frame is split, lost, moved or released without having been granted, whatever
   is committed between the read and the release. *)
ImplementsDataPath == D!SafeSpec

(* Replies go out: committed cells are all taken by the socket, unless the
   connection ends first. *)
ReplyFlushed == Contents(eth_in) # <<>>
                  ~> Contents(eth_in) = <<>> \/ sock.state # "Established"

(* What is received is read, whatever poll() reports. *)
ReceivedIsRead == sock.rx # <<>> ~> sock.rx = <<>>

(* What vhlink.rs:10-12 says of the protocol task, "data slices comes in from
   bbq -> uavcan/webscoket -> packets arrive / XpiRequest is deserialized from
   the packet -> goes to dispatcher": of every packet in the slice the request is
   dispatched before the slice is released. *)
SliceDispatched ==
  link_pc = "release" =>
    \A k \in 0 .. rgr_len - 2 :
      eth_out.cells[eth_out.read + k].kind = "endpoint"
        => eth_out.cells[eth_out.read + k + 1].n <= dispatched
=============================================================================
