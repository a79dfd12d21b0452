------------------------------ MODULE XpiClient ------------------------------
(***************************************************************************)
(* rustyclient: a program that calls the methods of ECBridgeClient one     *)
(* after another and may then observe the bridge, over connections that    *)
(* break, to a peer that answers in order, late, in several replies, or    *)
(* not at all.  Every request has the same RequestId(3), so a reply is     *)
(* told from others by its source and its kind only; and the bridge keeps  *)
(* replies it has not sent when a connection ends (eth_in of EthLink), for *)
(* whoever connects next.                                                  *)
(*                                                                         *)
(* A request is its number over all runs of the program; what it carries   *)
(* is left out.  VhNode (xpi_node) and the peer are external: a node hands *)
(* an event to the filter that matches it and drops it when there is none. *)
(***************************************************************************)
EXTENDS Naturals, Sequences

CONSTANTS MaxCalls,     \* bound of the requests, over all runs
          MaxRuns,      \* bound of the runs of the program
          MaxUpdates    \* bound of the updates of one observation

ASSUME ClientAssumption == {MaxCalls, MaxRuns, MaxUpdates} \subseteq Nat \ {0}

(* call_one is call_sync and call1_unit: they differ in what they send. *)
Ops == {"call_one", "call_many_unit", "write_digit", "read_digit"}

Kinds == {"CallResults", "WriteResults", "ReadResults"}

ReplyKind(o) == CASE o = "write_digit" -> "WriteResults"
                  [] o = "read_digit" -> "ReadResults"
                  [] OTHER             -> "CallResults"

dst_node_id(o) == IF o = "write_digit" THEN 1 ELSE 0

NodeIds == {0, 1}   \* of the peer: 0 is what most methods expect, 1 the bridge's

VARIABLES
  pc,         \* where the program is
  run,        \* the number of this run
  up,         \* connected to the peer
  calls,      \* requests submitted so far
  method,     \* the method that is running, or ran last
  peer,       \* the peer's node id
  requests,   \* on their way to the peer, or waiting there
  replies,    \* on their way to the client, or waiting at the peer
  returned,   \* history: what each call took for its answer
  loose,      \* history: the calls that may leave a reply behind
  observation \* the updates: received, in the stream, with the forwarding task, printed

wire    == <<requests, replies>>
history == <<returned, loose>>
vars    == <<pc, run, up, calls, method, peer, wire, history, observation>>

Numbers  == 1 .. MaxCalls
Requests == [op : Ops, n : Numbers]
Replies  == [kind : Kinds, of : Numbers, single : BOOLEAN]
Returns  == [n : Numbers, of : Numbers, kind : Kinds, ok : BOOLEAN]
Calls    == [n : Numbers, kind : Kinds]

Capacity == 2   \* of mpsc::channel(1): its buffer and one slot per sender

Observations == [received : 0 .. MaxUpdates, stream : 0 .. MaxUpdates,
                 task : {"next", "send", "ended"}, channel : 0 .. Capacity,
                 printed : 0 .. MaxUpdates]
NoUpdates == [received |-> 0, stream |-> 0, task |-> "next", channel |-> 0, printed |-> 0]

TypeOK ==
  /\ pc \in {"start", "ready", "submitted", "waiting", "observing", "over", "exited"}
  /\ run \in 1 .. MaxRuns /\ up \in BOOLEAN
  /\ calls \in 0 .. MaxCalls /\ method \in Ops /\ peer \in NodeIds
  /\ requests \in Seq(Requests) /\ replies \in Seq(Replies)
  /\ returned \in Seq(Returns) /\ loose \subseteq Calls
  /\ observation \in Observations

Init == /\ pc = "start" /\ run = 1 /\ up = FALSE
        /\ calls = 0 /\ method = "call_one" /\ peer \in NodeIds
        /\ requests = <<>> /\ replies = <<>>
        /\ returned = <<>> /\ loose = {}
        /\ observation = NoUpdates

-----------------------------------------------------------------------------
(* The methods of ECBridgeClient *)

ConnectRemote ==
  /\ pc = "start"
  /\ \/ pc' = "ready" /\ up' = TRUE
     \/ pc' = "exited" /\ UNCHANGED up      \* the `?` of main
  /\ UNCHANGED <<run, calls, method, peer, wire, history, observation>>

Call(o, n) == [n |-> n, kind |-> ReplyKind(o)]

(* Mutant: the request is submitted a second time. *)
SubmitTwice(o) ==
  /\ pc = "ready" /\ calls < MaxCalls
  /\ pc' = "submitted" /\ method' = o /\ calls' = calls + 1
  /\ up
  /\ requests' = requests \o <<[op |-> o, n |-> calls + 1], [op |-> o, n |-> calls + 1]>>
  /\ loose' = IF o = "call_many_unit" THEN loose \union {Call(o, calls + 1)} ELSE loose
  /\ UNCHANGED <<run, up, peer, replies, returned, observation>>

(* submit_one; the request may get lost, and one to the client's own node id
   need not go to the peer.  call_many_unit takes the first reply only, however
   many there are. *)
Submit(o) ==
  /\ pc = "ready" /\ calls < MaxCalls
  /\ pc' = "submitted" /\ method' = o /\ calls' = calls + 1
  /\ \/ up /\ requests' = Append(requests, [op |-> o, n |-> calls + 1])
     \/ UNCHANGED requests
  /\ loose' = IF o = "call_many_unit" THEN loose \union {Call(o, calls + 1)} ELSE loose
  /\ UNCHANGED <<run, up, peer, replies, returned, observation>>

(* filter_one: from here on a reply can be taken. *)
Listen == /\ pc = "submitted"
          /\ pc' = "waiting"
          /\ UNCHANGED <<run, up, calls, method, peer, wire, history, observation>>

(* Mutant: the filter does not look at the kind. *)
MatchesAnyKind(r) == pc = "waiting" /\ peer = dst_node_id(method)

(* Its filter: source, destination and request id, and the kind. *)
Matches(r) == pc = "waiting" /\ peer = dst_node_id(method) /\ r.kind = ReplyKind(method)

(* The method wants one result, call_many_unit does not look. *)
Accepts(r) == method = "call_many_unit" \/ r.single

(* A reply comes in: it is returned by the call that waits for its like, or dropped. *)
Deliver ==
  /\ up /\ replies # <<>>
  /\ replies' = Tail(replies)
  /\ LET r == Head(replies)
     IN  IF Matches(r)
         THEN /\ pc' = "ready"
              /\ returned' = Append(returned, [n |-> calls, of |-> r.of, kind |-> r.kind,
                                               ok |-> Accepts(r)])
         ELSE UNCHANGED <<pc, returned>>
  /\ UNCHANGED <<run, up, calls, method, peer, requests, loose, observation>>

(* The 100 ms are over, or submit_one has failed: the method returns an error. *)
Timeout == /\ pc \in {"submitted", "waiting"}
           /\ pc' = "ready"
           /\ loose' = loose \union {Call(method, calls)}
           /\ UNCHANGED <<run, up, calls, method, peer, wire, returned, observation>>

-----------------------------------------------------------------------------
(* observe_one and main *)

(* Subscribe, filter_many, and the task that forwards the updates. *)
ObserveOne == /\ pc = "ready"
              /\ \/ pc' = "observing" /\ observation' = NoUpdates
                 \/ pc' = "exited" /\ UNCHANGED observation
              /\ UNCHANGED <<run, up, calls, method, peer, wire, history>>

Observe(updated) ==
  /\ pc = "observing"
  /\ observation' = updated
  /\ UNCHANGED <<run, up, calls, method, peer, wire, history>>

Update == /\ up /\ observation.received < MaxUpdates /\ observation.task # "ended"
          /\ Observe([observation EXCEPT !.received = @ + 1, !.stream = @ + 1])
          /\ UNCHANGED pc

(* updates.next() *)
TakeUpdate == /\ observation.task = "next" /\ observation.stream > 0
              /\ Observe([observation EXCEPT !.stream = @ - 1, !.task = "send"])
              /\ UNCHANGED pc

(* Mutant: the task does not wait for room. *)
SendUpdateUnbounded == /\ observation.task = "send"
                       /\ Observe([observation EXCEPT !.channel = @ + 1, !.task = "next"])
                       /\ UNCHANGED pc

(* tx.send(1), which waits for room. *)
SendUpdate == /\ observation.task = "send" /\ observation.channel < Capacity
              /\ Observe([observation EXCEPT !.channel = @ + 1, !.task = "next"])
              /\ UNCHANGED pc

(* Mutant: the filter does not end with the connection. *)
StreamNeverEnds == FALSE /\ UNCHANGED vars

(* drop_on_remote_disconnect: the stream is over when its updates are, and so is
   the task, which drops tx. *)
StreamEnds == /\ observation.task = "next" /\ observation.stream = 0 /\ ~up
              /\ Observe([observation EXCEPT !.task = "ended"])
              /\ UNCHANGED pc

PrintUpdate == /\ observation.channel > 0
         /\ Observe([observation EXCEPT !.channel = @ - 1, !.printed = @ + 1])
         /\ UNCHANGED pc

(* The receiver ends when tx is gone and nothing is left in the channel. *)
ObservationOver == /\ observation.task = "ended" /\ observation.channel = 0
                   /\ Observe(observation)
                   /\ pc' = "over"

-----------------------------------------------------------------------------
(* The peer, the connection, the end of the program *)

Reply(q, single) == [kind |-> ReplyKind(q.op), of |-> q.n, single |-> single]

(* The next request is answered: by one reply, by two if it names many resources,
   or not at all when the dispatch fails. *)
PeerAnswers ==
  /\ requests # <<>>
  /\ requests' = Tail(requests)
  /\ LET q == Head(requests)
     IN  \/ UNCHANGED replies
         \/ replies' = Append(replies, Reply(q, TRUE))
         \/ /\ q.op = "call_many_unit"
            /\ replies' = replies \o <<Reply(q, FALSE), Reply(q, FALSE)>>
  /\ UNCHANGED <<pc, run, up, calls, method, peer, history, observation>>

(* What the network had is lost: the requests sent last, the replies sent first.
   What the bridge had in eth_out and eth_in stays. *)
Cut == /\ up' = FALSE
       /\ \E k \in 0 .. Len(requests) : requests' = SubSeq(requests, 1, k)
       /\ \E k \in 1 .. Len(replies) + 1 : replies' = SubSeq(replies, k, Len(replies))

Disconnect == /\ up /\ Cut
              /\ UNCHANGED <<pc, run, calls, method, peer, history, observation>>

(* The 2 s after an observation are over, or there is nothing to observe. *)
Exit == /\ pc \in {"ready", "over"}
        /\ pc' = "exited"
        /\ UNCHANGED <<run, up, calls, method, peer, wire, history, observation>>

(* The program is killed, or has ended, and is started again. *)
Restart == /\ run < MaxRuns
           /\ run' = run + 1 /\ pc' = "start"
           /\ Cut
           /\ loose' = IF pc \in {"submitted", "waiting"}
                       THEN loose \union {Call(method, calls)} ELSE loose
           /\ observation' = NoUpdates
           /\ UNCHANGED <<calls, method, peer, returned>>

Methods   == (\E o \in Ops : Submit(o)) \/ Listen \/ Timeout
Observing == TakeUpdate \/ SendUpdate \/ StreamEnds \/ PrintUpdate \/ ObservationOver

Next == \/ ConnectRemote \/ Methods \/ Deliver
        \/ ObserveOne \/ Update \/ Observing
        \/ PeerAnswers \/ Disconnect \/ Exit \/ Restart

SafeSpec == Init /\ [][Next]_vars
Spec     == SafeSpec /\ WF_vars(Observing)

-----------------------------------------------------------------------------
(* Properties *)

(* With one request id for all, a call may return the answer to an earlier one,
   but only if a call of the same kind, no later than that one, had been left
   without its answer or had several. *)
LateRepliesExplained ==
  \A k \in DOMAIN returned :
    LET r == returned[k]
    IN  r.of # r.n => r.of < r.n /\ \E c \in loose : c.n <= r.of /\ c.kind = r.kind

(* Replies are returned in the order of the requests they answer, each once. *)
RepliesInOrder ==
  \A j, k \in DOMAIN returned :
    j < k => \/ returned[j].of < returned[k].of
             \/ returned[j].of = returned[k].of /\ \E c \in loose : c.n = returned[j].of

(* Whenever the bridge goes away the observation comes to its end, with every
   update that was received printed before. *)
ObservationEnds ==
  pc = "observing" /\ ~up
    ~> pc = "start" \/ (pc = "over" /\ observation.printed = observation.received)
=============================================================================
