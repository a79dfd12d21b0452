--------------------------- MODULE XpiClientProofs ---------------------------
(***************************************************************************)
(* For every number of calls and of runs: a call that returns the answer   *)
(* to an earlier one does so because a call had been left without its own, *)
(* and replies are returned in the order of their requests.                *)
(***************************************************************************)
EXTENDS XpiClient, SequenceTheorems, TLAPS

Running == pc \in {"submitted", "waiting"}

(* A reply that is still to come belongs to the call that waits, or a call of its
   kind has been left without its reply before. *)
Accounted(of, kind) ==
  \/ Running /\ of = calls /\ kind = ReplyKind(method)
  \/ \E c \in loose : c.n <= of /\ c.kind = kind

QueuePart ==
  /\ \A k \in 1 .. Len(requests) :
       /\ requests[k].n <= calls
       /\ Accounted(requests[k].n, ReplyKind(requests[k].op))
       /\ requests[k].op = "call_many_unit" => \E c \in loose : c.n = requests[k].n
  /\ \A k \in 1 .. Len(replies) :
       /\ replies[k].of <= calls
       /\ Accounted(replies[k].of, replies[k].kind)
  /\ \A c \in loose : c.n <= calls /\ (c.n = calls => c.kind = ReplyKind(method))

(* Only the replies to one call may name the same request. *)
InOrder(m, n) == m < n \/ (m = n /\ \E c \in loose : c.n = m)

OrderPart ==
  /\ \A j, k \in 1 .. Len(requests) : j < k => requests[j].n < requests[k].n
  /\ \A j \in 1 .. Len(replies), k \in 1 .. Len(requests) : replies[j].of < requests[k].n
  /\ \A j, k \in 1 .. Len(replies) : j < k => InOrder(replies[j].of, replies[k].of)
  /\ \A j \in 1 .. Len(returned), k \in 1 .. Len(replies) : InOrder(returned[j].of, replies[k].of)
  /\ \A j \in 1 .. Len(returned), k \in 1 .. Len(requests) : returned[j].of < requests[k].n
  /\ \A j \in 1 .. Len(returned) : returned[j].of <= calls

(* What was received is in the stream, with the task, in the channel, or printed. *)
ObservationPart ==
  observation.received = observation.stream + observation.channel + observation.printed
                         + (IF observation.task = "send" THEN 1 ELSE 0)

CallsPart == Running => calls \in Numbers

IInv == /\ TypeOK /\ CallsPart /\ QueuePart /\ OrderPart /\ ObservationPart
        /\ LateRepliesExplained /\ RepliesInOrder

-----------------------------------------------------------------------------
(* Types *)

LEMMA Elements ==
  ASSUME TypeOK
  PROVE  /\ \A k \in 1 .. Len(requests) :
              /\ requests[k] \in Requests /\ requests[k].n \in Nat /\ requests[k].op \in Ops
         /\ \A k \in 1 .. Len(replies) :
              /\ replies[k] \in Replies /\ replies[k].of \in Nat /\ replies[k].kind \in Kinds
         /\ \A k \in 1 .. Len(returned) :
              /\ returned[k].of \in Nat /\ returned[k].n \in Nat
         /\ \A c \in loose : c.n \in Nat /\ c.kind \in Kinds
         /\ Len(requests) \in Nat /\ Len(replies) \in Nat /\ Len(returned) \in Nat
         /\ calls \in Nat
<1>1. Numbers \subseteq Nat /\ 0 .. MaxCalls \subseteq Nat
  BY ClientAssumption DEF Numbers
<1>2. /\ requests \in Seq(Requests) /\ replies \in Seq(Replies)
      /\ returned \in Seq(Returns) /\ loose \subseteq Calls /\ calls \in 0 .. MaxCalls
  BY DEF TypeOK
<1>3. \A k \in 1 .. Len(requests) : requests[k] \in Requests
  BY <1>2
<1>4. \A k \in 1 .. Len(replies) : replies[k] \in Replies
  BY <1>2
<1>5. \A k \in 1 .. Len(returned) : returned[k] \in Returns
  BY <1>2
<1>6. \A q \in Requests : q.n \in Nat /\ q.op \in Ops
  BY <1>1 DEF Requests
<1>7. \A r \in Replies : r.of \in Nat /\ r.kind \in Kinds
  BY <1>1 DEF Replies
<1>8. \A r \in Returns : r.of \in Nat /\ r.n \in Nat
  BY <1>1 DEF Returns
<1>9. \A c \in Calls : c.n \in Nat /\ c.kind \in Kinds
  BY <1>1 DEF Calls
<1>10. Len(requests) \in Nat /\ Len(replies) \in Nat /\ Len(returned) \in Nat
  BY <1>2
<1>11. QED
  BY <1>1, <1>2, <1>3, <1>4, <1>5, <1>6, <1>7, <1>8, <1>9, <1>10

LEMMA ReplyKindType == \A o \in Ops : ReplyKind(o) \in Kinds
BY DEF Ops, ReplyKind, Kinds

LEMMA CallType ==
  \A o, n : Call(o, n).n = n /\ Call(o, n).kind = ReplyKind(o)
BY DEF Call

-----------------------------------------------------------------------------
(* While the calls, the method and what was returned stay, and the program goes on
   waiting or counts its call as left behind, ... *)
Kept ==
  /\ UNCHANGED <<calls, method, returned>>
  /\ loose \subseteq loose' /\ loose' \subseteq loose \union {Call(method, calls)}
  /\ Running => Running' \/ Call(method, calls) \in loose'

(* ... what was accounted for remains so, ... *)
AccountedAfter(of, kind) ==
  \/ Running' /\ of = calls' /\ kind = ReplyKind(method')
  \/ \E c \in loose' : c.n <= of /\ c.kind = kind

LEMMA AccountedKept ==
  ASSUME Kept, NEW of \in Nat, NEW kind, Accounted(of, kind)
  PROVE  AccountedAfter(of, kind)
<1>1. CASE \E c \in loose : c.n <= of /\ c.kind = kind
  BY <1>1 DEF Kept, AccountedAfter
<1>2. CASE Running /\ of = calls /\ kind = ReplyKind(method)
  <2>1. CASE Running'
    BY <1>2, <2>1 DEF Kept, AccountedAfter
  <2>2. CASE Call(method, calls) \in loose'
    <3>1. of <= of
      OBVIOUS
    <3>2. Call(method, calls).n <= of /\ Call(method, calls).kind = kind
      BY <1>2, <3>1, CallType
    <3>3. QED
      BY <2>2, <3>2 DEF AccountedAfter
  <2>3. QED
    BY <1>2, <2>1, <2>2 DEF Kept
<1>3. QED
  BY <1>1, <1>2 DEF Accounted

InOrderAfter(m, n) == m < n \/ (m = n /\ \E c \in loose' : c.n = m)

LEMMA LooseKept ==
  ASSUME IInv, Kept
  PROVE  \A c \in loose' : c.n <= calls' /\ (c.n = calls' => c.kind = ReplyKind(method'))
<1>1. calls \in Nat /\ calls <= calls
  BY Elements DEF IInv
<1>2. QED
  BY <1>1, CallType DEF IInv, QueuePart, Kept

(* ... and the queues may lose what they had. *)
Shrunk ==
  /\ Len(requests') <= Len(requests)
  /\ \A k \in 1 .. Len(requests') : requests'[k] = requests[k]
  /\ \E d \in Nat : /\ Len(replies') + d <= Len(replies)
                    /\ \A k \in 1 .. Len(replies') : replies'[k] = replies[k + d]

LEMMA ShrunkInv ==
  ASSUME IInv, TypeOK', Kept, Shrunk
  PROVE  QueuePart' /\ OrderPart' /\ LateRepliesExplained' /\ RepliesInOrder'
<1>1. TypeOK /\ Len(requests) \in Nat /\ Len(replies) \in Nat
      /\ Len(requests') \in Nat /\ Len(replies') \in Nat /\ Len(returned) \in Nat
  <2>1. TypeOK
    BY DEF IInv
  <2>2. requests' \in Seq(Requests) /\ replies' \in Seq(Replies)
    BY DEF TypeOK
  <2>3. QED
    BY <2>1, <2>2, Elements
<1>2. PICK d \in Nat : /\ Len(replies') + d <= Len(replies)
                      /\ \A k \in 1 .. Len(replies') : replies'[k] = replies[k + d]
  BY DEF Shrunk
<1>3. \A k \in 1 .. Len(requests') : k \in 1 .. Len(requests) /\ requests'[k] = requests[k]
  BY <1>1 DEF Shrunk
<1>4. \A k \in 1 .. Len(replies') : k + d \in 1 .. Len(replies) /\ replies'[k] = replies[k + d]
  BY <1>1, <1>2
<1>5. UNCHANGED <<calls, method, returned>> /\ loose \subseteq loose'
  BY DEF Kept
<1>6. QueuePart'
  <2>1. ASSUME NEW k \in 1 .. Len(requests')
        PROVE  /\ requests'[k].n <= calls'
               /\ AccountedAfter(requests'[k].n, ReplyKind(requests'[k].op))
               /\ requests'[k].op = "call_many_unit" => \E c \in loose' : c.n = requests'[k].n
    <3>1. k \in 1 .. Len(requests) /\ requests'[k] = requests[k]
      BY <1>3
    <3>2. /\ requests[k].n <= calls
          /\ Accounted(requests[k].n, ReplyKind(requests[k].op))
          /\ requests[k].op = "call_many_unit" => \E c \in loose : c.n = requests[k].n
      BY <3>1 DEF IInv, QueuePart
    <3>3. requests[k].n \in Nat
      BY <1>1, <3>1, Elements
    <3>4. AccountedAfter(requests[k].n, ReplyKind(requests[k].op))
      BY <3>2, <3>3, AccountedKept
    <3>5. QED
      BY <1>5, <3>1, <3>2, <3>4
  <2>2. ASSUME NEW k \in 1 .. Len(replies')
        PROVE  replies'[k].of <= calls' /\ AccountedAfter(replies'[k].of, replies'[k].kind)
    <3>1. k + d \in 1 .. Len(replies) /\ replies'[k] = replies[k + d]
      BY <1>4
    <3>2. replies[k + d].of <= calls /\ Accounted(replies[k + d].of, replies[k + d].kind)
      BY <3>1 DEF IInv, QueuePart
    <3>3. replies[k + d].of \in Nat
      BY <1>1, <3>1, Elements
    <3>4. AccountedAfter(replies[k + d].of, replies[k + d].kind)
      BY <3>2, <3>3, AccountedKept
    <3>5. QED
      BY <1>5, <3>1, <3>2, <3>4
  <2>3. QED
    BY <2>1, <2>2, LooseKept DEF QueuePart, Accounted, AccountedAfter
<1>7. OrderPart'
  <2>1. \A j, k \in 1 .. Len(requests') : j < k => requests'[j].n < requests'[k].n
    BY <1>3 DEF IInv, OrderPart
  <2>2. \A j \in 1 .. Len(replies'), k \in 1 .. Len(requests') : replies'[j].of < requests'[k].n
    BY <1>3, <1>4 DEF IInv, OrderPart
  <2>3. ASSUME NEW j \in 1 .. Len(replies'), NEW k \in 1 .. Len(replies'), j < k
        PROVE  InOrderAfter(replies'[j].of, replies'[k].of)
    <3>1. j + d < k + d
      BY <2>3
    <3>2. InOrder(replies[j + d].of, replies[k + d].of)
      BY <1>4, <3>1 DEF IInv, OrderPart
    <3>3. QED
      BY <1>4, <1>5, <3>2 DEF InOrder, InOrderAfter
  <2>4. \A j \in 1 .. Len(returned'), k \in 1 .. Len(replies') :
          InOrderAfter(returned'[j].of, replies'[k].of)
    BY <1>4, <1>5 DEF IInv, OrderPart, InOrder, InOrderAfter
  <2>5. \A j \in 1 .. Len(returned'), k \in 1 .. Len(requests') : returned'[j].of < requests'[k].n
    BY <1>3, <1>5 DEF IInv, OrderPart
  <2>6. \A j \in 1 .. Len(returned') : returned'[j].of <= calls'
    BY <1>5 DEF IInv, OrderPart
  <2>7. QED
    BY <2>1, <2>2, <2>3, <2>4, <2>5, <2>6 DEF OrderPart, InOrder, InOrderAfter
<1>8. QED
  BY <1>5, <1>6, <1>7 DEF IInv, LateRepliesExplained, RepliesInOrder

LEMMA KeepInv ==
  ASSUME IInv, TypeOK', CallsPart', ObservationPart', Kept, Shrunk
  PROVE  IInv'
BY ShrunkInv DEF IInv

LEMMA SameWire == TypeOK /\ UNCHANGED wire => Shrunk
<1>1. SUFFICES ASSUME TypeOK, UNCHANGED wire PROVE Shrunk
  OBVIOUS
<1>2. Len(requests) \in Nat /\ Len(replies) \in Nat
  BY <1>1, Elements
<1>3. /\ Len(replies) + 0 <= Len(replies) /\ Len(requests) <= Len(requests)
      /\ \A k \in 1 .. Len(replies) : k + 0 = k
  BY <1>2
<1>4. QED
  BY <1>1, <1>3 DEF wire, Shrunk

LEMMA CutShrinks == TypeOK /\ Cut => Shrunk /\ requests' \in Seq(Requests) /\ replies' \in Seq(Replies)
<1>1. SUFFICES ASSUME TypeOK, Cut
               PROVE  Shrunk /\ requests' \in Seq(Requests) /\ replies' \in Seq(Replies)
  OBVIOUS
<1>2. requests \in Seq(Requests) /\ replies \in Seq(Replies)
      /\ Len(requests) \in Nat /\ Len(replies) \in Nat
  BY <1>1, Elements DEF TypeOK
<1>3. PICK k \in 0 .. Len(requests) : requests' = SubSeq(requests, 1, k)
  BY <1>1 DEF Cut
<1>4. /\ requests' \in Seq(Requests) /\ Len(requests') = k
      /\ \A i \in 1 .. k : requests'[i] = requests[i]
  BY <1>2, <1>3
<1>5. PICK m \in 1 .. Len(replies) + 1 : replies' = SubSeq(replies, m, Len(replies))
  BY <1>1 DEF Cut
<1>6. /\ replies' \in Seq(Replies) /\ Len(replies') = Len(replies) - m + 1
      /\ \A i \in 1 .. Len(replies') : replies'[i] = replies[i + (m - 1)]
  BY <1>2, <1>5
<1>7. m - 1 \in Nat /\ Len(replies') + (m - 1) <= Len(replies)
  BY <1>2, <1>6
<1>8. Len(requests') <= Len(requests) /\ \A i \in 1 .. Len(requests') : requests'[i] = requests[i]
  BY <1>2, <1>3, <1>4
<1>9. Shrunk
  BY <1>6, <1>7, <1>8 DEF Shrunk
<1>10. QED
  BY <1>4, <1>6, <1>9

LEMMA TailFacts ==
  ASSUME NEW S, NEW s \in Seq(S), s # <<>>
  PROVE  /\ Tail(s) \in Seq(S) /\ Len(Tail(s)) + 1 = Len(s) /\ Head(s) = s[1]
         /\ 1 \in 1 .. Len(s) /\ Head(s) \in S
         /\ \A k \in 1 .. Len(Tail(s)) : k + 1 \in 2 .. Len(s) /\ Tail(s)[k] = s[k + 1]
OBVIOUS

LEMMA AppendFacts ==
  ASSUME NEW S, NEW s \in Seq(S), NEW x \in S
  PROVE  /\ Append(s, x) \in Seq(S) /\ Len(Append(s, x)) = Len(s) + 1
         /\ \A k \in 1 .. Len(s) + 1 :
              \/ k \in 1 .. Len(s) /\ Append(s, x)[k] = s[k]
              \/ k = Len(s) + 1 /\ Append(s, x)[k] = x
OBVIOUS

AppendTwo(s, x) == s \o <<x, x>>

LEMMA AppendTwoFacts ==
  ASSUME NEW S, NEW s \in Seq(S), NEW x \in S
  PROVE  /\ AppendTwo(s, x) \in Seq(S) /\ Len(AppendTwo(s, x)) = Len(s) + 2
         /\ \A k \in 1 .. Len(s) + 2 :
              \/ k \in 1 .. Len(s) /\ AppendTwo(s, x)[k] = s[k]
              \/ Len(s) < k /\ AppendTwo(s, x)[k] = x
<1>1. <<x, x>> \in Seq(S) /\ Len(<<x, x>>) = 2 /\ <<x, x>>[1] = x /\ <<x, x>>[2] = x
  OBVIOUS
<1>2. \A k \in Len(s) + 1 .. Len(s) + 2 : k - Len(s) \in {1, 2} /\ Len(s) < k
  OBVIOUS
<1>3. QED
  BY <1>1, <1>2 DEF AppendTwo

-----------------------------------------------------------------------------
(* The actions *)

LEMMA InitInv == Init => IInv
<1>1. SUFFICES ASSUME Init PROVE IInv
  OBVIOUS
<1>2. MaxCalls \in Nat /\ MaxRuns \in Nat \ {0} /\ MaxUpdates \in Nat
  BY ClientAssumption
<1>3. NoUpdates \in Observations
  BY <1>2 DEF NoUpdates, Observations, Capacity
<1>4. TypeOK
  <2>1. <<>> \in Seq(Requests) /\ <<>> \in Seq(Replies) /\ <<>> \in Seq(Returns)
    OBVIOUS
  <2>2. 0 \in 0 .. MaxCalls /\ 1 \in 1 .. MaxRuns
    BY <1>2
  <2>3. QED
    BY <1>1, <1>3, <2>1, <2>2 DEF Init, TypeOK, Ops
<1>5. Len(requests) = 0 /\ Len(replies) = 0 /\ returned = <<>> /\ Len(returned) = 0 /\ loose = {}
  BY <1>1 DEF Init
<1>6. 1 .. 0 = {}
  OBVIOUS
<1>7. QueuePart /\ OrderPart
  BY <1>5, <1>6 DEF QueuePart, OrderPart
<1>8. DOMAIN returned = {}
  BY <1>5
<1>9. LateRepliesExplained /\ RepliesInOrder
  BY <1>8 DEF LateRepliesExplained, RepliesInOrder
<1>10. ObservationPart
  BY <1>1 DEF Init, ObservationPart, NoUpdates
<1>11. CallsPart
  BY <1>1 DEF Init, CallsPart, Running
<1>12. QED
  BY <1>4, <1>7, <1>9, <1>10, <1>11 DEF IInv

(* Steps that leave the calls alone. *)
LEMMA IdleStepInv ==
  ASSUME IInv,
         ConnectRemote \/ Listen \/ Exit
  PROVE  IInv'
<1>1. UNCHANGED <<run, calls, method, peer, wire, history, observation>>
  BY DEF ConnectRemote, Listen, Exit
<1>2. TypeOK'
  BY <1>1 DEF IInv, TypeOK, ConnectRemote, Listen, Exit, wire, history
<1>3. Kept
  BY <1>1 DEF ConnectRemote, Listen, Exit, Kept, Running, history
<1>4. CallsPart'
  BY <1>1 DEF IInv, CallsPart, Running, ConnectRemote, Listen, Exit
<1>5. QED
  BY <1>1, <1>2, <1>3, <1>4, SameWire, KeepInv DEF IInv, ObservationPart

LEMMA LeftBehind == IInv /\ Running => Call(method, calls) \in Calls
BY ReplyKindType DEF IInv, TypeOK, CallsPart, Call, Calls

LEMMA TimeoutInv == IInv /\ Timeout => IInv'
<1>1. SUFFICES ASSUME IInv, Timeout PROVE IInv'
  OBVIOUS
<1>2. Call(method, calls) \in Calls
  BY <1>1, LeftBehind DEF Timeout, Running
<1>3. TypeOK'
  BY <1>1, <1>2 DEF IInv, TypeOK, Timeout, wire
<1>4. Kept
  BY <1>1 DEF Timeout, Kept, Running
<1>5. Shrunk /\ ObservationPart' /\ CallsPart'
  BY <1>1, SameWire DEF IInv, Timeout, ObservationPart, CallsPart, Running
<1>6. QED
  BY <1>1, <1>3, <1>4, <1>5, KeepInv
LEMMA DisconnectInv == IInv /\ Disconnect => IInv'
<1>1. SUFFICES ASSUME IInv, Disconnect PROVE IInv'
  OBVIOUS
<1>2. Shrunk /\ requests' \in Seq(Requests) /\ replies' \in Seq(Replies) /\ up' = FALSE
  BY <1>1, CutShrinks DEF IInv, Disconnect, Cut
<1>3. UNCHANGED <<pc, run, calls, method, peer, history, observation>>
  BY <1>1 DEF Disconnect
<1>4. TypeOK'
  BY <1>1, <1>2, <1>3 DEF IInv, TypeOK, history
<1>5. Kept /\ ObservationPart' /\ CallsPart'
  BY <1>1, <1>3 DEF IInv, Kept, Running, ObservationPart, CallsPart, history
<1>6. QED
  BY <1>1, <1>2, <1>4, <1>5, KeepInv

LEMMA RestartInv == IInv /\ Restart => IInv'
<1>1. SUFFICES ASSUME IInv, Restart PROVE IInv'
  OBVIOUS
<1>2. Shrunk /\ requests' \in Seq(Requests) /\ replies' \in Seq(Replies) /\ up' = FALSE
  BY <1>1, CutShrinks DEF IInv, Restart, Cut
<1>3. /\ UNCHANGED <<calls, method, peer, returned>>
      /\ pc' = "start" /\ run' = run + 1 /\ run < MaxRuns /\ observation' = NoUpdates
      /\ loose' = IF Running THEN loose \union {Call(method, calls)} ELSE loose
  BY <1>1 DEF Restart, Running
<1>4. NoUpdates \in Observations
  <2>1. MaxUpdates \in Nat
    BY ClientAssumption
  <2>2. QED
    BY <2>1 DEF NoUpdates, Observations, Capacity
<1>5. run' \in 1 .. MaxRuns
  <2>1. MaxRuns \in Nat
    BY ClientAssumption
  <2>2. run \in 1 .. MaxRuns
    BY <1>1 DEF IInv, TypeOK
  <2>3. QED
    BY <1>3, <2>1, <2>2
<1>6. loose' \subseteq Calls
  BY <1>1, <1>3, LeftBehind DEF IInv, TypeOK
<1>7. TypeOK'
  BY <1>1, <1>2, <1>3, <1>4, <1>5, <1>6 DEF IInv, TypeOK
<1>8. Kept
  BY <1>3 DEF Kept
<1>9. ObservationPart'
  BY <1>3 DEF ObservationPart, NoUpdates
<1>10. CallsPart'
  BY <1>3 DEF CallsPart, Running
<1>11. QED
  BY <1>1, <1>2, <1>7, <1>8, <1>9, <1>10, KeepInv

(* The observation *)
LEMMA ObservingInv ==
  ASSUME IInv,
         \/ ObserveOne \/ Update \/ Observing
  PROVE  IInv'
<1>1. /\ UNCHANGED <<run, up, calls, method, peer, wire, history>>
      /\ pc \notin {"submitted", "waiting"} /\ pc' \in {"observing", "over", "exited"}
  BY DEF ObserveOne, Update, Observing, TakeUpdate, SendUpdate, StreamEnds, PrintUpdate,
         ObservationOver, Observe
<1>2. observation' \in Observations /\ ObservationPart'
  <2>1. /\ observation.received \in 0 .. MaxUpdates /\ observation.stream \in 0 .. MaxUpdates
        /\ observation.channel \in 0 .. 2 /\ observation.printed \in 0 .. MaxUpdates
        /\ observation.task \in {"next", "send", "ended"} /\ MaxUpdates \in Nat
        /\ observation \in Observations
    BY ClientAssumption DEF IInv, TypeOK, Observations, Capacity
  <2>2. ObservationPart
    BY DEF IInv
  <2>3. CASE ObserveOne
    <3>1. NoUpdates \in Observations
      BY <2>1 DEF NoUpdates, Observations, Capacity
    <3>2. observation' \in {NoUpdates, observation}
      BY <2>3 DEF ObserveOne
    <3>3. QED
      BY <2>1, <2>2, <3>1, <3>2 DEF ObservationPart, NoUpdates
  <2>4. CASE Update
    <3>1. /\ observation' = [observation EXCEPT !.received = @ + 1, !.stream = @ + 1]
          /\ observation.received < MaxUpdates
      BY <2>4 DEF Update, Observe
    <3>2. observation.received + 1 \in 0 .. MaxUpdates /\ observation.stream + 1 \in 0 .. MaxUpdates
      BY <2>1, <2>2, <3>1 DEF ObservationPart
    <3>3. observation' \in Observations
      BY <2>1, <3>1, <3>2 DEF Observations
    <3>4. /\ observation'.received = observation.received + 1
          /\ observation'.stream = observation.stream + 1
          /\ observation'.task = observation.task
          /\ observation'.channel = observation.channel
          /\ observation'.printed = observation.printed
      BY <2>1, <3>1 DEF Observations
    <3>5. ObservationPart'
      BY <2>1, <2>2, <3>1, <3>4 DEF ObservationPart
    <3>6. QED
      BY <3>3, <3>5
  <2>5. CASE TakeUpdate
    <3>1. /\ observation' = [observation EXCEPT !.stream = @ - 1, !.task = "send"]
          /\ observation.task = "next" /\ observation.stream > 0
      BY <2>5 DEF TakeUpdate, Observe
    <3>2. observation.stream - 1 \in 0 .. MaxUpdates
      BY <2>1, <3>1
    <3>3. observation' \in Observations
      BY <2>1, <3>1, <3>2 DEF Observations
    <3>4. /\ observation'.received = observation.received
          /\ observation'.stream = observation.stream - 1
          /\ observation'.task = "send"
          /\ observation'.channel = observation.channel
          /\ observation'.printed = observation.printed
      BY <2>1, <3>1 DEF Observations
    <3>5. ObservationPart'
      BY <2>1, <2>2, <3>1, <3>4 DEF ObservationPart
    <3>6. QED
      BY <3>3, <3>5
  <2>6. CASE SendUpdate
    <3>1. /\ observation' = [observation EXCEPT !.channel = @ + 1, !.task = "next"]
          /\ observation.task = "send" /\ observation.channel < 2
      BY <2>6 DEF SendUpdate, Observe, Capacity
    <3>2. observation.channel + 1 \in 0 .. 2
      BY <2>1, <3>1
    <3>3. observation' \in Observations
      BY <2>1, <3>1, <3>2 DEF Observations, Capacity
    <3>4. /\ observation'.received = observation.received
          /\ observation'.stream = observation.stream
          /\ observation'.task = "next"
          /\ observation'.channel = observation.channel + 1
          /\ observation'.printed = observation.printed
      BY <2>1, <3>1 DEF Observations
    <3>5. ObservationPart'
      BY <2>1, <2>2, <3>1, <3>4 DEF ObservationPart
    <3>6. QED
      BY <3>3, <3>5
  <2>7. CASE StreamEnds
    <3>1. observation' = [observation EXCEPT !.task = "ended"] /\ observation.task = "next"
      BY <2>7 DEF StreamEnds, Observe
    <3>2. QED
      BY <2>1, <2>2, <3>1 DEF ObservationPart, Observations
  <2>8. CASE PrintUpdate
    <3>1. /\ observation' = [observation EXCEPT !.channel = @ - 1, !.printed = @ + 1]
          /\ observation.channel > 0
      BY <2>8 DEF PrintUpdate, Observe
    <3>2. observation.channel - 1 \in 0 .. 2 /\ observation.printed + 1 \in 0 .. MaxUpdates
      BY <2>1, <2>2, <3>1 DEF ObservationPart
    <3>3. observation' \in Observations
      BY <2>1, <3>1, <3>2 DEF Observations, Capacity
    <3>4. /\ observation'.received = observation.received
          /\ observation'.stream = observation.stream
          /\ observation'.task = observation.task
          /\ observation'.channel = observation.channel - 1
          /\ observation'.printed = observation.printed + 1
      BY <2>1, <3>1 DEF Observations
    <3>5. ObservationPart'
      BY <2>1, <2>2, <3>1, <3>4 DEF ObservationPart
    <3>6. QED
      BY <3>3, <3>5
  <2>9. CASE ObservationOver
    BY <2>1, <2>2, <2>9 DEF ObservationOver, Observe, ObservationPart
  <2>10. QED
    BY <2>3, <2>4, <2>5, <2>6, <2>7, <2>8, <2>9 DEF Observing
<1>3. TypeOK'
  BY <1>1, <1>2 DEF IInv, TypeOK, wire, history
<1>4. Kept /\ CallsPart'
  BY <1>1 DEF Kept, CallsPart, Running, history
<1>5. QED
  BY <1>1, <1>2, <1>3, <1>4, SameWire, KeepInv DEF IInv
(* A request is made while nothing is awaited: everything else is accounted for by
   calls left behind, and the new call is the last. *)
LEMMA SubmitInv == ASSUME IInv, NEW o \in Ops, Submit(o) PROVE IInv'
<1> DEFINE q == [op |-> o, n |-> calls + 1]
<1>1. /\ pc = "ready" /\ calls < MaxCalls /\ pc' = "submitted" /\ method' = o /\ calls' = calls + 1
      /\ requests' = Append(requests, q) \/ requests' = requests
      /\ loose' = IF o = "call_many_unit" THEN loose \union {Call(o, calls + 1)} ELSE loose
      /\ UNCHANGED <<run, up, peer, replies, returned, observation>>
  BY DEF Submit
<1>2. TypeOK /\ calls \in Nat /\ calls + 1 \in Numbers /\ calls + 1 \in 0 .. MaxCalls
  <2>1. calls \in 0 .. MaxCalls /\ MaxCalls \in Nat
    BY ClientAssumption DEF IInv, TypeOK
  <2>2. QED
    BY <1>1, <2>1 DEF IInv, Numbers
<1>3. q \in Requests /\ q.n = calls + 1 /\ q.op = o
  BY <1>2 DEF Requests
<1>4. Call(o, calls + 1) \in Calls
  BY <1>2, ReplyKindType DEF Call, Calls
<1>5. TypeOK'
  <2>1. requests' \in Seq(Requests)
    <3>1. requests \in Seq(Requests)
      BY <1>2 DEF TypeOK
    <3>2. PICK x \in Requests : requests' = Append(requests, x) \/ requests' = requests
      BY <1>1, <1>3
    <3>3. Append(requests, x) \in Seq(Requests)
      BY <3>1, AppendFacts
    <3>4. QED
      BY <3>1, <3>2, <3>3
  <2>2. loose' \subseteq Calls
    BY <1>1, <1>2, <1>4 DEF TypeOK
  <2>3. QED
    BY <1>1, <1>2, <2>1, <2>2 DEF TypeOK
<1>6. \A k \in 1 .. Len(requests') :
        \/ k \in 1 .. Len(requests) /\ requests'[k] = requests[k]
        \/ k = Len(requests') /\ Len(requests) < k /\ requests'[k] = q
  <2>1. requests \in Seq(Requests)
    BY <1>2 DEF TypeOK
  <2>2. QED
    BY <1>1, <1>3, <2>1
<1>7. /\ loose \subseteq loose'
      /\ \A c \in loose' : c \in loose \/ (c.n = calls + 1 /\ c.kind = ReplyKind(o))
      /\ o = "call_many_unit" => \E c \in loose' : c.n = calls + 1
  BY <1>1, CallType
<1>8. \A of, kind : Accounted(of, kind) => \E c \in loose : c.n <= of /\ c.kind = kind
  BY <1>1 DEF Accounted, Running
<1>9. QueuePart'
  <2>1. ASSUME NEW k \in 1 .. Len(requests')
        PROVE  /\ requests'[k].n <= calls'
               /\ AccountedAfter(requests'[k].n, ReplyKind(requests'[k].op))
               /\ requests'[k].op = "call_many_unit" => \E c \in loose' : c.n = requests'[k].n
    <3>1. CASE k \in 1 .. Len(requests) /\ requests'[k] = requests[k]
      <4>1. /\ requests[k].n <= calls /\ requests[k].n \in Nat
            /\ \E c \in loose : c.n <= requests[k].n /\ c.kind = ReplyKind(requests[k].op)
            /\ requests[k].op = "call_many_unit" => \E c \in loose : c.n = requests[k].n
        BY <1>2, <1>8, <3>1, Elements DEF IInv, QueuePart
      <4>2. requests[k].n <= calls'
        BY <1>1, <1>2, <4>1
      <4>3. QED
        BY <1>7, <3>1, <4>1, <4>2 DEF AccountedAfter
    <3>2. CASE requests'[k] = q
      <4>1. calls' <= calls'
        BY <1>1, <1>2
      <4>2. QED
        BY <1>1, <1>3, <1>7, <3>2, <4>1 DEF AccountedAfter, Running
    <3>3. QED
      BY <1>6, <3>1, <3>2
  <2>2. ASSUME NEW k \in 1 .. Len(replies')
        PROVE  replies'[k].of <= calls' /\ AccountedAfter(replies'[k].of, replies'[k].kind)
    <3>1. /\ replies[k].of <= calls /\ replies[k].of \in Nat
          /\ \E c \in loose : c.n <= replies[k].of /\ c.kind = replies[k].kind
      BY <1>1, <1>2, <1>8, Elements DEF IInv, QueuePart
    <3>2. replies[k].of <= calls'
      BY <1>1, <1>2, <3>1
    <3>3. QED
      BY <1>1, <1>7, <3>1, <3>2 DEF AccountedAfter
  <2>3. \A c \in loose' : c.n <= calls' /\ (c.n = calls' => c.kind = ReplyKind(method'))
    <3>1. \A c \in loose : c.n \in Nat /\ c.n <= calls
      BY <1>2, Elements DEF IInv, QueuePart
    <3>2. \A c \in loose : c.n <= calls + 1 /\ c.n # calls + 1
      BY <1>2, <3>1
    <3>3. calls + 1 <= calls + 1
      BY <1>2
    <3>4. QED
      BY <1>1, <1>7, <3>2, <3>3
  <2>4. QED
    BY <2>1, <2>2, <2>3 DEF QueuePart, Accounted, AccountedAfter
<1>10. OrderPart'
  <2>0. /\ \A k \in 1 .. Len(requests) : requests[k].n \in Nat /\ requests[k].n < calls + 1
        /\ \A k \in 1 .. Len(replies) : replies[k].of \in Nat /\ replies[k].of < calls + 1
        /\ \A k \in 1 .. Len(returned) : returned[k].of \in Nat /\ returned[k].of < calls + 1
        /\ Len(requests) \in Nat /\ Len(requests') \in Nat
    <3>1. Len(requests') \in Nat
      BY <1>5, Elements DEF TypeOK
    <3>2. QED
      BY <1>2, <3>1, Elements DEF IInv, QueuePart, OrderPart
  <2>1. ASSUME NEW j \in 1 .. Len(requests'), NEW k \in 1 .. Len(requests'), j < k
        PROVE  requests'[j].n < requests'[k].n
    <3>1. j \in 1 .. Len(requests) /\ requests'[j] = requests[j]
      BY <1>6, <2>0, <2>1
    <3>2. QED
      BY <1>3, <1>6, <2>0, <2>1, <3>1 DEF IInv, OrderPart
  <2>2. \A j \in 1 .. Len(replies'), k \in 1 .. Len(requests') : replies'[j].of < requests'[k].n
    BY <1>1, <1>3, <1>6, <2>0 DEF IInv, OrderPart
  <2>3. \A j, k \in 1 .. Len(replies') : j < k => InOrderAfter(replies'[j].of, replies'[k].of)
    BY <1>1, <1>7 DEF IInv, OrderPart, InOrder, InOrderAfter
  <2>4. \A j \in 1 .. Len(returned'), k \in 1 .. Len(replies') :
          InOrderAfter(returned'[j].of, replies'[k].of)
    BY <1>1, <1>7 DEF IInv, OrderPart, InOrder, InOrderAfter
  <2>5. \A j \in 1 .. Len(returned'), k \in 1 .. Len(requests') : returned'[j].of < requests'[k].n
    BY <1>1, <1>3, <1>6, <2>0 DEF IInv, OrderPart
  <2>6. \A j \in 1 .. Len(returned') : returned'[j].of <= calls'
    BY <1>1, <1>2, <2>0
  <2>7. QED
    BY <2>1, <2>2, <2>3, <2>4, <2>5, <2>6 DEF OrderPart, InOrder, InOrderAfter
<1>11. LateRepliesExplained' /\ RepliesInOrder'
  BY <1>1, <1>7 DEF IInv, LateRepliesExplained, RepliesInOrder
<1>12. ObservationPart' /\ CallsPart'
  BY <1>1, <1>2 DEF IInv, ObservationPart, CallsPart
<1>13. QED
  BY <1>5, <1>9, <1>10, <1>11, <1>12 DEF IInv

(* The bridge answers the oldest request, after all it has answered before. *)
LEMMA PeerAnswersInv == IInv /\ PeerAnswers => IInv'
<1>1. SUFFICES ASSUME IInv, PeerAnswers PROVE IInv'
  OBVIOUS
<1> DEFINE q == Head(requests)
<1>2. /\ requests # <<>> /\ requests' = Tail(requests)
      /\ UNCHANGED <<pc, run, up, calls, method, peer, returned, loose, observation>>
      /\ \/ UNCHANGED replies
         \/ replies' = Append(replies, Reply(q, TRUE))
         \/ /\ q.op = "call_many_unit"
            /\ replies' = replies \o <<Reply(q, FALSE), Reply(q, FALSE)>>
  BY <1>1 DEF PeerAnswers, history
<1>3. TypeOK /\ requests \in Seq(Requests) /\ replies \in Seq(Replies)
  BY <1>1 DEF IInv, TypeOK
<1>4. /\ requests' \in Seq(Requests) /\ q = requests[1] /\ 1 \in 1 .. Len(requests) /\ q \in Requests
      /\ Len(requests') \in Nat
      /\ \A k \in 1 .. Len(requests') :
           k + 1 \in 2 .. Len(requests) /\ requests'[k] = requests[k + 1]
  BY <1>2, <1>3, TailFacts
<1>5. \A b \in BOOLEAN : /\ Reply(q, b) \in Replies
                        /\ Reply(q, b).of = q.n /\ Reply(q, b).kind = ReplyKind(q.op)
  BY <1>4, ReplyKindType DEF Reply, Replies, Requests
<1>6. /\ replies' \in Seq(Replies) /\ Len(replies') \in Nat /\ Len(replies) \in Nat
      /\ \A k \in 1 .. Len(replies') :
           \/ k \in 1 .. Len(replies) /\ replies'[k] = replies[k]
           \/ Len(replies) < k /\ replies'[k].of = q.n /\ replies'[k].kind = ReplyKind(q.op)
      /\ \A j, k \in 1 .. Len(replies') : Len(replies) < j /\ j < k => q.op = "call_many_unit"
  <2>1. CASE UNCHANGED replies
    BY <1>3, <2>1
  <2>2. CASE replies' = Append(replies, Reply(q, TRUE))
    <3>1. Reply(q, TRUE) \in Replies
      BY <1>5
    <3>2. PICK x \in Replies : x = Reply(q, TRUE) /\ replies' = Append(replies, x)
      BY <2>2, <3>1
    <3>3. /\ Len(replies') = Len(replies) + 1 /\ replies' \in Seq(Replies)
          /\ \A k \in 1 .. Len(replies) + 1 :
               \/ k \in 1 .. Len(replies) /\ replies'[k] = replies[k]
               \/ k = Len(replies) + 1 /\ replies'[k] = x
      BY <1>3, <3>2, AppendFacts
    <3>4. Len(replies) \in Nat /\ Len(replies') \in Nat
      BY <1>3, <3>3
    <3>5. \A j, k \in 1 .. Len(replies') : ~(Len(replies) < j /\ j < k)
      BY <3>3, <3>4
    <3>6. x.of = q.n /\ x.kind = ReplyKind(q.op)
      BY <1>5, <3>2
    <3>7. \A k \in 1 .. Len(replies') :
            \/ k \in 1 .. Len(replies) /\ replies'[k] = replies[k]
            \/ Len(replies) < k /\ replies'[k].of = q.n /\ replies'[k].kind = ReplyKind(q.op)
      BY <3>3, <3>4, <3>6
    <3>8. QED
      BY <3>3, <3>4, <3>5, <3>7
  <2>3. CASE q.op = "call_many_unit" /\ replies' = replies \o <<Reply(q, FALSE), Reply(q, FALSE)>>
    <3>1. Reply(q, FALSE) \in Replies
      BY <1>5
    <3>2. PICK x \in Replies : x = Reply(q, FALSE) /\ replies' = AppendTwo(replies, x)
      BY <2>3, <3>1 DEF AppendTwo
    <3>3. /\ Len(replies') = Len(replies) + 2 /\ replies' \in Seq(Replies)
          /\ \A k \in 1 .. Len(replies) + 2 :
               \/ k \in 1 .. Len(replies) /\ replies'[k] = replies[k]
               \/ Len(replies) < k /\ replies'[k] = x
      <4>1. /\ AppendTwo(replies, x) \in Seq(Replies) /\ Len(AppendTwo(replies, x)) = Len(replies) + 2
            /\ \A k \in 1 .. Len(replies) + 2 :
                 \/ k \in 1 .. Len(replies) /\ AppendTwo(replies, x)[k] = replies[k]
                 \/ Len(replies) < k /\ AppendTwo(replies, x)[k] = x
        BY <1>3, AppendTwoFacts
      <4>2. QED
        BY <3>2, <4>1
    <3>4. Len(replies) \in Nat /\ Len(replies') \in Nat
      BY <1>3, <3>3
    <3>5. x.of = q.n /\ x.kind = ReplyKind(q.op)
      BY <1>5, <3>2
    <3>6. \A k \in 1 .. Len(replies') :
            \/ k \in 1 .. Len(replies) /\ replies'[k] = replies[k]
            \/ Len(replies) < k /\ replies'[k].of = q.n /\ replies'[k].kind = ReplyKind(q.op)
      BY <3>3, <3>4, <3>5
    <3>7. QED
      BY <2>3, <3>3, <3>4, <3>6
  <2>4. QED
    BY <1>2, <2>1, <2>2, <2>3
<1>7. TypeOK'
  BY <1>2, <1>3, <1>4, <1>6 DEF TypeOK
<1>8. /\ q.n <= calls /\ Accounted(q.n, ReplyKind(q.op)) /\ q.n \in Nat
      /\ q.op = "call_many_unit" => \E c \in loose : c.n = q.n
  BY <1>1, <1>3, <1>4, Elements DEF IInv, QueuePart
<1>9. \A of, kind : Accounted(of, kind) <=> AccountedAfter(of, kind)
  BY <1>2 DEF Accounted, AccountedAfter, Running
<1>10. QueuePart'
  <2>1. \A k \in 1 .. Len(requests') :
          /\ requests'[k].n <= calls'
          /\ AccountedAfter(requests'[k].n, ReplyKind(requests'[k].op))
          /\ requests'[k].op = "call_many_unit" => \E c \in loose' : c.n = requests'[k].n
    <3>1. \A k \in 1 .. Len(requests') : k + 1 \in 1 .. Len(requests) /\ requests'[k] = requests[k + 1]
      BY <1>4
    <3>2. QED
      BY <1>1, <1>2, <1>9, <3>1 DEF IInv, QueuePart
  <2>2. \A k \in 1 .. Len(replies') :
          replies'[k].of <= calls' /\ AccountedAfter(replies'[k].of, replies'[k].kind)
    BY <1>1, <1>2, <1>6, <1>8, <1>9 DEF IInv, QueuePart
  <2>3. \A c \in loose' : c.n <= calls' /\ (c.n = calls' => c.kind = ReplyKind(method'))
    BY <1>1, <1>2 DEF IInv, QueuePart
  <2>4. QED
    BY <2>1, <2>2, <2>3 DEF QueuePart, Accounted, AccountedAfter
<1>11. OrderPart'
  <2>1. ASSUME NEW j \in 1 .. Len(requests'), NEW k \in 1 .. Len(requests'), j < k
        PROVE  requests'[j].n < requests'[k].n
    <3>1. j + 1 < k + 1 /\ j + 1 \in 1 .. Len(requests) /\ k + 1 \in 1 .. Len(requests)
      BY <1>4, <2>1
    <3>2. QED
      BY <1>1, <1>4, <3>1 DEF IInv, OrderPart
  <2>2. \A j \in 1 .. Len(replies'), k \in 1 .. Len(requests') : replies'[j].of < requests'[k].n
    <3>1. TAKE j \in 1 .. Len(replies'), k \in 1 .. Len(requests')
    <3>2. k + 1 \in 1 .. Len(requests) /\ 1 < k + 1 /\ requests'[k] = requests[k + 1]
      BY <1>4
    <3>3. q.n < requests'[k].n
      BY <1>1, <1>4, <3>2 DEF IInv, OrderPart
    <3>4. j \in 1 .. Len(replies) => replies[j].of < requests'[k].n
      BY <1>1, <3>2 DEF IInv, OrderPart
    <3>5. QED
      BY <1>6, <3>3, <3>4
  <2>3. ASSUME NEW j \in 1 .. Len(replies'), NEW k \in 1 .. Len(replies'), j < k
        PROVE  InOrderAfter(replies'[j].of, replies'[k].of)
    <3>1. CASE j \in 1 .. Len(replies) /\ k \in 1 .. Len(replies)
      <4>1. replies'[j] = replies[j] /\ replies'[k] = replies[k]
        BY <1>6, <3>1
      <4>2. QED
        BY <1>1, <1>2, <2>3, <3>1, <4>1 DEF IInv, OrderPart, InOrder, InOrderAfter
    <3>2. CASE j \in 1 .. Len(replies) /\ Len(replies) < k
      <4>1. replies'[j] = replies[j] /\ replies'[k].of = q.n
        BY <1>6, <3>2
      <4>2. replies[j].of < q.n
        BY <1>1, <1>4, <3>2 DEF IInv, OrderPart
      <4>3. QED
        BY <4>1, <4>2 DEF InOrderAfter
    <3>3. CASE Len(replies) < j
      <4>1. Len(replies) < k
        BY <1>6, <2>3, <3>3
      <4>2. replies'[j].of = q.n /\ replies'[k].of = q.n /\ q.op = "call_many_unit"
        BY <1>6, <2>3, <3>3, <4>1
      <4>3. QED
        BY <1>2, <1>8, <4>2 DEF InOrderAfter
    <3>4. QED
      BY <1>6, <3>1, <3>2, <3>3
  <2>4. \A j \in 1 .. Len(returned'), k \in 1 .. Len(replies') :
          InOrderAfter(returned'[j].of, replies'[k].of)
    <3>1. TAKE j \in 1 .. Len(returned'), k \in 1 .. Len(replies')
    <3>2. returned[j].of < q.n
      BY <1>1, <1>2, <1>4 DEF IInv, OrderPart
    <3>3. k \in 1 .. Len(replies) => InOrder(returned[j].of, replies[k].of)
      BY <1>1, <1>2 DEF IInv, OrderPart
    <3>4. QED
      BY <1>2, <1>6, <3>2, <3>3 DEF InOrder, InOrderAfter
  <2>5. \A j \in 1 .. Len(returned'), k \in 1 .. Len(requests') : returned'[j].of < requests'[k].n
    <3>1. \A k \in 1 .. Len(requests') : k + 1 \in 1 .. Len(requests) /\ requests'[k] = requests[k + 1]
      BY <1>4
    <3>2. QED
      BY <1>1, <1>2, <3>1 DEF IInv, OrderPart
  <2>6. \A j \in 1 .. Len(returned') : returned'[j].of <= calls'
    BY <1>1, <1>2 DEF IInv, OrderPart
  <2>7. QED
    BY <2>1, <2>2, <2>3, <2>4, <2>5, <2>6 DEF OrderPart, InOrder, InOrderAfter
<1>12. LateRepliesExplained' /\ RepliesInOrder' /\ ObservationPart' /\ CallsPart'
  BY <1>1, <1>2 DEF IInv, LateRepliesExplained, RepliesInOrder, ObservationPart, CallsPart, Running
<1>13. QED
  BY <1>7, <1>10, <1>11, <1>12 DEF IInv
(* A reply that comes in is dropped, or ends the call that waits. *)
LEMMA DeliverInv == IInv /\ Deliver => IInv'
<1>1. SUFFICES ASSUME IInv, Deliver PROVE IInv'
  OBVIOUS
<1> DEFINE r == Head(replies)
           new == [n |-> calls, of |-> r.of, kind |-> r.kind, ok |-> Accepts(r)]
<1>2. /\ replies # <<>> /\ replies' = Tail(replies)
      /\ UNCHANGED <<run, up, calls, method, peer, requests, loose, observation>>
      /\ \/ UNCHANGED <<pc, returned>>
         \/ Matches(r) /\ pc' = "ready" /\ returned' = Append(returned, new)
  BY <1>1 DEF Deliver
<1>3. TypeOK /\ replies \in Seq(Replies) /\ requests \in Seq(Requests) /\ returned \in Seq(Returns)
      /\ Len(requests) \in Nat /\ Len(returned) \in Nat
  BY <1>1 DEF IInv, TypeOK
<1>4. /\ replies' \in Seq(Replies) /\ r = replies[1] /\ 1 \in 1 .. Len(replies) /\ r \in Replies
      /\ Len(replies') + 1 = Len(replies) /\ Len(replies') \in Nat
      /\ \A k \in 1 .. Len(replies') :
           k + 1 \in 1 .. Len(replies) /\ 1 < k + 1 /\ replies'[k] = replies[k + 1]
  BY <1>2, <1>3, TailFacts
<1>5. CASE UNCHANGED <<pc, returned>>
  <2>1. TypeOK'
    BY <1>2, <1>3, <1>4, <1>5 DEF TypeOK
  <2>2. Kept /\ CallsPart' /\ ObservationPart'
    BY <1>1, <1>2, <1>5 DEF IInv, Kept, Running, CallsPart, ObservationPart
  <2>3. Shrunk
    <3>1. 1 \in Nat /\ Len(replies') + 1 <= Len(replies) /\ Len(requests) <= Len(requests)
      BY <1>3, <1>4
    <3>2. QED
      BY <1>2, <1>4, <3>1 DEF Shrunk
  <2>4. QED
    BY <1>1, <2>1, <2>2, <2>3, KeepInv
<1>6. CASE Matches(r) /\ pc' = "ready" /\ returned' = Append(returned, new)
  <2>1. /\ Running /\ r.kind = ReplyKind(method) /\ calls \in Numbers /\ calls \in Nat
        /\ r.of \in Nat /\ r.of <= calls /\ Accounted(r.of, r.kind)
    BY <1>1, <1>3, <1>4, <1>6, Elements DEF IInv, CallsPart, Running, Matches, QueuePart
  <2>2. new \in Returns /\ new.of = r.of /\ new.n = calls /\ new.kind = r.kind
    <3>1. Accepts(r) \in BOOLEAN
      BY <1>4 DEF Accepts, Replies
    <3>2. r.of \in Numbers /\ r.kind \in Kinds
      BY <1>4 DEF Replies
    <3>3. QED
      BY <2>1, <3>1, <3>2 DEF Returns
  <2>3. /\ returned' \in Seq(Returns) /\ Len(returned') = Len(returned) + 1
        /\ DOMAIN returned = 1 .. Len(returned) /\ DOMAIN returned' = 1 .. Len(returned')
        /\ \A k \in 1 .. Len(returned') :
             \/ k \in 1 .. Len(returned) /\ returned'[k] = returned[k]
             \/ k = Len(returned) + 1 /\ returned'[k] = new
    BY <1>3, <1>6, <2>2, AppendFacts
  <2>4. TypeOK'
    BY <1>2, <1>3, <1>4, <1>6, <2>3 DEF TypeOK
  (* What is still to come is accounted for by calls left behind. *)
  <2>5. ASSUME NEW of \in Nat, NEW kind, Accounted(of, kind), InOrder(r.of, of)
        PROVE  \E c \in loose : c.n <= of /\ c.kind = kind
    <3>1. CASE of = calls /\ kind = ReplyKind(method)
      <4>1. CASE r.of = calls
        <5>1. PICK c \in loose : c.n = calls
          BY <2>1, <2>5, <3>1, <4>1 DEF InOrder
        <5>2. c.kind = ReplyKind(method) /\ calls <= calls
          BY <1>1, <2>1, <5>1 DEF IInv, QueuePart
        <5>3. QED
          BY <3>1, <5>1, <5>2
      <4>2. CASE r.of # calls
        <5>1. PICK c \in loose : c.n <= r.of /\ c.kind = r.kind
          BY <2>1, <4>2 DEF Accounted
        <5>2. c.n \in Nat
          BY <1>3, Elements
        <5>3. c.n <= calls
          BY <2>1, <5>1, <5>2
        <5>4. QED
          BY <2>1, <3>1, <5>1, <5>3
      <4>3. QED
        BY <4>1, <4>2
    <3>2. QED
      BY <2>5, <3>1 DEF Accounted
  <2>6. \A k \in 1 .. Len(requests) : r.of < requests[k].n /\ InOrder(r.of, requests[k].n)
    BY <1>1, <1>4 DEF IInv, OrderPart, InOrder
  <2>7. \A k \in 1 .. Len(replies') : InOrder(r.of, replies'[k].of)
    BY <1>1, <1>4 DEF IInv, OrderPart
  <2>8. QueuePart'
    <3>1. ASSUME NEW k \in 1 .. Len(requests')
          PROVE  /\ requests'[k].n <= calls'
                 /\ AccountedAfter(requests'[k].n, ReplyKind(requests'[k].op))
                 /\ requests'[k].op = "call_many_unit" => \E c \in loose' : c.n = requests'[k].n
      <4>1. /\ requests[k].n <= calls /\ requests[k].n \in Nat
            /\ Accounted(requests[k].n, ReplyKind(requests[k].op))
            /\ requests[k].op = "call_many_unit" => \E c \in loose : c.n = requests[k].n
        BY <1>1, <1>2, <1>3, Elements DEF IInv, QueuePart
      <4>2. \E c \in loose : c.n <= requests[k].n /\ c.kind = ReplyKind(requests[k].op)
        BY <1>2, <2>5, <2>6, <4>1
      <4>3. QED
        BY <1>2, <4>1, <4>2 DEF AccountedAfter
    <3>2. ASSUME NEW k \in 1 .. Len(replies')
          PROVE  replies'[k].of <= calls' /\ AccountedAfter(replies'[k].of, replies'[k].kind)
      <4>1. /\ replies[k + 1].of <= calls /\ replies[k + 1].of \in Nat
            /\ Accounted(replies[k + 1].of, replies[k + 1].kind)
        BY <1>1, <1>3, <1>4, Elements DEF IInv, QueuePart
      <4>2. InOrder(r.of, replies[k + 1].of)
        BY <1>4, <2>7
      <4>3. \E c \in loose : c.n <= replies[k + 1].of /\ c.kind = replies[k + 1].kind
        BY <2>5, <4>1, <4>2
      <4>4. QED
        BY <1>2, <1>4, <4>1, <4>3 DEF AccountedAfter
    <3>3. \A c \in loose' : c.n <= calls' /\ (c.n = calls' => c.kind = ReplyKind(method'))
      BY <1>1, <1>2 DEF IInv, QueuePart
    <3>4. QED
      BY <3>1, <3>2, <3>3 DEF QueuePart, Accounted, AccountedAfter
  <2>9. OrderPart'
    <3>1. \A j, k \in 1 .. Len(requests') : j < k => requests'[j].n < requests'[k].n
      BY <1>1, <1>2 DEF IInv, OrderPart
    <3>2. \A j \in 1 .. Len(replies'), k \in 1 .. Len(requests') : replies'[j].of < requests'[k].n
      BY <1>1, <1>2, <1>4 DEF IInv, OrderPart
    <3>3. ASSUME NEW j \in 1 .. Len(replies'), NEW k \in 1 .. Len(replies'), j < k
          PROVE  InOrderAfter(replies'[j].of, replies'[k].of)
      <4>1. j + 1 < k + 1
        BY <3>3
      <4>2. InOrder(replies[j + 1].of, replies[k + 1].of)
        BY <1>1, <1>4, <4>1 DEF IInv, OrderPart
      <4>3. QED
        BY <1>2, <1>4, <4>2 DEF InOrder, InOrderAfter
    <3>4. ASSUME NEW j \in 1 .. Len(returned'), NEW k \in 1 .. Len(replies')
          PROVE  InOrderAfter(returned'[j].of, replies'[k].of)
      <4>1. CASE j \in 1 .. Len(returned) /\ returned'[j] = returned[j]
        BY <1>1, <1>2, <1>4, <4>1 DEF IInv, OrderPart, InOrder, InOrderAfter
      <4>2. CASE returned'[j] = new
        BY <1>2, <2>2, <2>7, <4>2 DEF InOrder, InOrderAfter
      <4>3. QED
        BY <2>3, <4>1, <4>2
    <3>5. \A j \in 1 .. Len(returned'), k \in 1 .. Len(requests') : returned'[j].of < requests'[k].n
      BY <1>1, <1>2, <2>2, <2>3, <2>6 DEF IInv, OrderPart
    <3>6. \A j \in 1 .. Len(returned') : returned'[j].of <= calls'
      BY <1>1, <1>2, <2>1, <2>2, <2>3 DEF IInv, OrderPart
    <3>7. QED
      BY <3>1, <3>2, <3>3, <3>4, <3>5, <3>6 DEF OrderPart, InOrder, InOrderAfter
  <2>10. LateRepliesExplained'
    <3>1. r.of # calls => r.of < calls /\ \E c \in loose : c.n <= r.of /\ c.kind = r.kind
      BY <2>1 DEF Accounted
    <3>2. QED
      BY <1>1, <1>2, <2>2, <2>3, <3>1 DEF IInv, LateRepliesExplained
  <2>11. RepliesInOrder'
    <3>1. ASSUME NEW j \in 1 .. Len(returned'), NEW k \in 1 .. Len(returned'), j < k
          PROVE  InOrderAfter(returned'[j].of, returned'[k].of)
      <4>1. j \in 1 .. Len(returned) /\ returned'[j] = returned[j]
        BY <1>3, <2>3, <3>1
      <4>2. CASE k \in 1 .. Len(returned) /\ returned'[k] = returned[k]
        BY <1>1, <1>2, <2>3, <3>1, <4>1, <4>2 DEF IInv, RepliesInOrder, InOrderAfter
      <4>3. CASE returned'[k] = new
        BY <1>1, <1>2, <1>4, <2>2, <4>1, <4>3 DEF IInv, OrderPart, InOrder, InOrderAfter
      <4>4. QED
        BY <2>3, <4>2, <4>3
    <3>2. QED
      BY <2>3, <3>1 DEF RepliesInOrder, InOrderAfter
  <2>12. ObservationPart' /\ CallsPart'
    BY <1>1, <1>2, <1>6 DEF IInv, ObservationPart, CallsPart, Running
  <2>13. QED
    BY <2>4, <2>8, <2>9, <2>10, <2>11, <2>12 DEF IInv
<1>7. QED
  BY <1>2, <1>5, <1>6

-----------------------------------------------------------------------------
(* The theorems *)

LEMMA NextInv == IInv /\ [Next]_vars => IInv'
<1>1. SUFFICES ASSUME IInv, [Next]_vars PROVE IInv'
  OBVIOUS
<1>2. CASE UNCHANGED vars
  <2>1. TypeOK'
    BY <1>1, <1>2 DEF IInv, TypeOK, vars, wire, history
  <2>2. Kept /\ CallsPart' /\ ObservationPart'
    BY <1>1, <1>2 DEF IInv, Kept, Running, CallsPart, ObservationPart, vars, history
  <2>3. Shrunk
    BY <1>1, <1>2, SameWire DEF IInv, vars
  <2>4. QED
    BY <1>1, <2>1, <2>2, <2>3, KeepInv
<1>3. CASE \E o \in Ops : Submit(o)
  BY <1>1, <1>3, SubmitInv
<1>4. CASE ConnectRemote \/ Listen \/ Exit
  BY <1>1, <1>4, IdleStepInv
<1>5. CASE ObserveOne \/ Update \/ Observing
  BY <1>1, <1>5, ObservingInv
<1>6. QED
  BY <1>1, <1>2, <1>3, <1>4, <1>5, TimeoutInv, DeliverInv, PeerAnswersInv, DisconnectInv,
     RestartInv DEF Next, Methods

THEOREM InvariantThm == SafeSpec => []IInv
BY InitInv, NextInv, PTL DEF SafeSpec

(* The types of the client's state, among them that the channel never holds more than
   its capacity, whatever the connection does. *)
THEOREM TypeThm == SafeSpec => []TypeOK
<1>1. IInv => TypeOK
  BY DEF IInv
<1>2. QED
  BY <1>1, InvariantThm, PTL

(* A call returns an earlier call's answer only after some call of the kind was left
   behind without its own, or had several. *)
THEOREM LateThm == SafeSpec => []LateRepliesExplained
<1>1. IInv => LateRepliesExplained
  BY DEF IInv
<1>2. QED
  BY <1>1, InvariantThm, PTL

(* Across timeouts, lost connections and restarts, replies are returned in the order
   of the requests they answer, and none twice. *)
THEOREM OrderThm == SafeSpec => []RepliesInOrder
<1>1. IInv => RepliesInOrder
  BY DEF IInv
<1>2. QED
  BY <1>1, InvariantThm, PTL
=============================================================================
