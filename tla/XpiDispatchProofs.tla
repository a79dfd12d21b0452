-------------------------- MODULE XpiDispatchProofs --------------------------
(***************************************************************************)
(* For every size of the batches, of the reply and of the resource and     *)
(* argument sets: the iterators of xpi_dispatch stay in step, an event is  *)
(* answered in order, once and completely, a failure loses the answers to  *)
(* one batch at most, a reply keeps to its budget but for one kind of      *)
(* error, and XpiDispatch implements Answering.                            *)
(***************************************************************************)
EXTENDS XpiDispatch, SequenceTheorems, FiniteSetTheorems, TLAPS

BatchStart == look - Len(hints)     \* the first resource of the batch

(* The batch is a part of the resource set, each hint that of its resource. *)
HintsMatch ==
  /\ look \in 1 .. Len(ev.uris) + 1
  /\ BatchStart >= 1
  /\ \A k \in 1 .. Len(hints) :
       hints[k] = reply_size_hint(ev.uris[BatchStart - 1 + k], ev.kind)

(* Where the execution iterator is, by the place the dispatch is at. *)
ExecPlace ==
  /\ Supported /\ pc \in {"lookahead", "grant"} => exec = BatchStart
  /\ pc \in {"dispatch", "commit"} => Supported /\ hints # <<>>
  /\ pc = "dispatch" => exec \in BatchStart .. look
  /\ pc = "commit" => exec = look

(* When the loop may stop: nothing is left, or the last round is over. *)
StopReason ==
  /\ pc # "done" => outcome = "Ok"
  /\ ran_out => look = Len(ev.uris) + 1
  /\ pc = "lookahead" /\ hints = <<>> => left = Budget
  /\ pc = "grant" /\ hints = <<>> => ran_out
  /\ Ended => look = Len(ev.uris) + 1 \/ (batches = MAX_REPLY_BATCHES /\ hints # <<>>)

(* The reply being built answers what was executed of the batch. *)
ReplySoFar ==
  pc \in {"dispatch", "commit"} =>
    /\ \A k \in 1 .. Len(results) : results[k].uri \in BatchStart .. exec - 1
    /\ \A j, k \in 1 .. Len(results) : j < k => results[j].uri < results[k].uri
    /\ \A u \in BatchStart .. exec - 1 :
         Owed(u) => \E k \in 1 .. Len(results) : results[k].uri = u

(* The replies sent answer what was dealt with before. *)
SentSoFar ==
  /\ \A n \in 1 .. Len(sent) : \A k \in 1 .. Len(sent[n].results) :
       sent[n].results[k].uri < Dealt
  /\ \A u \in 1 .. Dealt - 1 :
       Owed(u) => \E n \in 1 .. Len(sent) : \E k \in 1 .. Len(sent[n].results) :
                    sent[n].results[k].uri = u
  /\ Len(sent) <= Rounds

IInv == /\ TypeOK
        /\ HintsMatch
        /\ ExecPlace
        /\ StopReason
        /\ ReplySoFar
        /\ SentSoFar
        /\ AnsweredInOrder

-----------------------------------------------------------------------------
(* Lemmas about the helpers *)

(* Every hint fits an empty reply, and a deferred one takes nothing of it. *)
LEMMA HintType ==
  ASSUME NEW uri \in Uris, NEW kind \in Kinds
  PROVE  /\ reply_size_hint(uri, kind) \in Hints
         /\ reply_size_hint(uri, kind).size <= Budget
         /\ reply_size_hint(uri, kind).deferred => reply_size_hint(uri, kind).size = 0
         /\ reply_size_hint(uri, kind).refused => ~reply_size_hint(uri, kind).deferred
BY DispatchAssumption
   DEF reply_size_hint, Immediate, Refused, Deferred, Hints, Uris, Kinds

(* The resource set is a sequence of at most MaxUris resources. *)
LEMMA EventType ==
  ASSUME ev \in Events
  PROVE  /\ ev.kind \in Kinds /\ ev.args \in 0 .. MaxArgs
         /\ ev.uris \in UriSets /\ ev.uris \in Seq(Uris)
         /\ Len(ev.uris) \in 0 .. MaxUris
         /\ DOMAIN ev.uris = 1 .. Len(ev.uris)
         /\ \A u \in 1 .. Len(ev.uris) : ev.uris[u] \in Uris
<1>1. ev.kind \in Kinds /\ ev.args \in 0 .. MaxArgs /\ ev.uris \in UriSets
  BY DEF Events
<1>2. PICK n \in 0 .. MaxUris : ev.uris \in [1 .. n -> Uris]
  BY <1>1 DEF UriSets
<1> QED
  BY <1>1, <1>2, DispatchAssumption

(* A function that prolongs a sequence of sets by one is its Append. *)
LEMMA AppendByElement ==
  ASSUME NEW f, NEW g, NEW n \in Nat, NEW s \in SUBSET Int, NEW F, NEW G,
         f = [k \in 1 .. n |-> F[k]], g = [k \in 1 .. n + 1 |-> G[k]],
         \A k \in 1 .. n : F[k] \in SUBSET Int,
         \A k \in 1 .. n + 1 : G[k] = IF k <= n THEN F[k] ELSE s
  PROVE  g = Append(f, s)
<1>1. f \in Seq(SUBSET Int) /\ Len(f) = n /\ \A k \in 1 .. n : f[k] = F[k]
  OBVIOUS
<1>2. g \in Seq(SUBSET Int) /\ Len(g) = n + 1
  <2>1. ASSUME NEW k \in 1 .. n + 1 PROVE G[k] \in SUBSET Int
    <3>1. CASE k <= n
      <4>1. k \in 1 .. n
        BY <3>1
      <4>2. F[k] \in SUBSET Int
        BY <4>1
      <4> QED
        BY <4>2, <3>1
    <3>2. CASE ~(k <= n)
      BY <3>2
    <3> QED
      BY <3>1, <3>2
  <2>2. g \in [1 .. n + 1 -> SUBSET Int]
    BY <2>1
  <2> QED
    BY <2>2
<1>3. \A k \in 1 .. n : g[k] = f[k]
  BY <1>1
<1>4. g[n + 1] = s
  OBVIOUS
<1> QED
  BY <1>1, <1>2, <1>3, <1>4, AppendProperties, SeqEqual

(* The resources named in the replies sent are numbers. *)
LEMMA SentType ==
  ASSUME TypeOK, NEW n \in 1 .. Len(sent), NEW k \in 1 .. Len(sent[n].results)
  PROVE  sent[n].results[k].uri \in Int
<1>1. sent[n] \in Replies
  BY DEF TypeOK
<1>2. sent[n].results \in Seq(Results)
  BY <1>1 DEF Replies
<1>3. sent[n].results[k] \in Results
  BY <1>2
<1> QED
  BY <1>3 DEF Results

(* What the six ways to answer a resource have in common: the execution
   iterator goes one on, and the resource has a result in the reply, or the
   dispatch fails, or the resource is deferred. *)
ExecutesOne ==
  /\ pc = "dispatch" /\ Answered < Len(hints)
  /\ exec' = exec + 1
  /\ UNCHANGED <<ev, look, batches, hints, left, ran_out, sent>>
  /\ \/ /\ \E ok \in BOOLEAN : results' = Append(results, Result(exec, ok))
        /\ UNCHANGED <<pc, outcome>>
     \/ Fail /\ UNCHANGED results
     \/ Hint.deferred /\ UNCHANGED <<pc, outcome, results>>

Execute == \/ AnswerRefused \/ AnswerRead \/ ExecuteCall \/ ExecuteWrite
           \/ ExecuteDeferred \/ NoArgument

LEMMA ExecuteOne == Execute => ExecutesOne
BY DEF Execute, ExecutesOne, AnswerRefused, AnswerRead, ExecuteCall, ExecuteWrite,
       ExecuteDeferred, NoArgument, Executing, Put, batch, reply, tasks

-----------------------------------------------------------------------------
(* Types *)

LEMMA InitIInv == Init => IInv
<1> SUFFICES ASSUME Init PROVE IInv
  OBVIOUS
<1> USE DispatchAssumption DEF Init
<1>1. TypeOK
  <2>1. /\ look \in 1 .. MaxUris + 1 /\ exec \in 1 .. MaxUris + 1
        /\ arg \in 1 .. MaxArgs + 1 /\ batches \in 1 .. MAX_REPLY_BATCHES
        /\ left \in 0 .. Budget /\ digit \in 0 .. MaxArgs /\ shown \in 0 .. MaxArgs
    OBVIOUS
  <2>2. /\ hints \in Seq(Hints) /\ Len(hints) <= MAX_REPLY_BATCH_LEN
        /\ sent \in Seq(Replies) /\ Len(sent) <= MAX_REPLY_BATCHES
    OBVIOUS
  <2>3. /\ results \in Seq(Results) /\ used \in Nat
        /\ given \in Seq([uri : 1 .. MaxUris, arg : 1 .. MaxArgs])
    OBVIOUS
  <2>4. /\ pc \in {"lookahead", "grant", "dispatch", "commit", "done"}
        /\ outcome \in {"Ok", "Err"} /\ ev \in Events
        /\ ran_out \in BOOLEAN /\ display \in BOOLEAN /\ async \in BOOLEAN
    OBVIOUS
  <2> HIDE DispatchAssumption DEF Init
  <2> QED
    BY ONLY <2>1, <2>2, <2>3, <2>4 DEF TypeOK
<1>2. HintsMatch /\ ExecPlace /\ StopReason
  BY EventType DEF HintsMatch, ExecPlace, StopReason, BatchStart, Ended
<1>3. ReplySoFar /\ SentSoFar /\ AnsweredInOrder
  BY DEF ReplySoFar, SentSoFar, AnsweredInOrder, Dealt, Rounds, Ended
<1> QED
  BY <1>1, <1>2, <1>3 DEF IInv

(* The resource looked at, and its hint. *)
LEMMA PeekedType ==
  ASSUME IInv, look <= Len(ev.uris)
  PROVE  /\ look \in 1 .. Len(ev.uris) /\ look \in 1 .. MaxUris
         /\ Peeked \in Hints /\ Peeked.size <= Budget
         /\ Peeked.deferred => Peeked.size = 0
<1>1. look \in 1 .. Len(ev.uris) /\ ev.uris[look] \in Uris
  BY EventType DEF IInv, TypeOK, HintsMatch
<1>2. look \in 1 .. MaxUris /\ ev.kind \in Kinds
  <2>1. /\ Len(ev.uris) \in 0 .. MaxUris /\ ev.kind \in Kinds
    BY EventType DEF IInv, TypeOK
  <2> QED
    BY <1>1, <2>1, DispatchAssumption
<1> QED
  BY <1>1, <1>2, HintType DEF Peeked

(* The resource being executed is in the set, and its hint is the right one. *)
LEMMA HintInPlace ==
  ASSUME IInv, pc = "dispatch", Answered < Len(hints)
  PROVE  /\ exec \in 1 .. Len(ev.uris) /\ exec \in 1 .. MaxUris
         /\ Answered + 1 \in 1 .. Len(hints)
         /\ Hint = reply_size_hint(ev.uris[exec], ev.kind) /\ Hint \in Hints
<1>1. /\ exec \in Int /\ look \in Int /\ Len(hints) \in Nat
      /\ exec >= BatchStart /\ BatchStart >= 1 /\ look <= Len(ev.uris) + 1
      /\ Len(ev.uris) \in 0 .. MaxUris
  BY EventType DEF IInv, TypeOK, HintsMatch, ExecPlace, BatchStart
<1>2. exec \in 1 .. Len(ev.uris) /\ Answered + 1 \in 1 .. Len(hints)
  BY <1>1, DispatchAssumption DEF BatchStart, Answered
<1>3. Hint = reply_size_hint(ev.uris[exec], ev.kind)
  <2>1. BatchStart - 1 + (Answered + 1) = exec
    BY <1>1 DEF BatchStart, Answered
  <2> QED
    BY <2>1, <1>2 DEF IInv, HintsMatch, Hint
<1>4. ev.uris[exec] \in Uris /\ ev.kind \in Kinds
  BY <1>2, EventType DEF IInv, TypeOK
<1> QED
  BY <1>1, <1>2, <1>3, <1>4, HintType, DispatchAssumption

(* Put keeps the types, whatever it puts. *)
LEMMA PutType ==
  ASSUME IInv, pc = "dispatch", Answered < Len(hints), NEW ok \in BOOLEAN, NEW size \in Nat,
         Put(ok, size)
  PROVE  /\ results' \in Seq(Results) /\ used' \in Nat
         /\ pc' \in {"dispatch", "done"} /\ outcome' \in {"Ok", "Err"}
<1>1. Result(exec, ok) \in Results
  BY HintInPlace DEF Result, Results
<1>2. results \in Seq(Results) /\ used \in Nat /\ outcome \in {"Ok", "Err"}
  BY DEF IInv, TypeOK
<1>3. CASE /\ results' = Append(results, Result(exec, ok))
           /\ used' = used + size /\ UNCHANGED <<pc, outcome>>
  BY <1>1, <1>2, <1>3
<1>4. CASE Fail /\ UNCHANGED reply
  BY <1>2, <1>4 DEF Fail, reply
<1> QED
  BY <1>3, <1>4 DEF Put

(* An argument is one of the event's. *)
LEMMA TakeArgumentType ==
  ASSUME IInv, pc = "dispatch", Answered < Len(hints), TakeArgument
  PROVE  /\ arg \in 0 .. MaxArgs /\ arg' \in 1 .. MaxArgs + 1
         /\ given' \in Seq([uri : 1 .. MaxUris, arg : 1 .. MaxArgs])
<1>1. arg \in 1 .. MaxArgs /\ exec \in 1 .. MaxUris
  <2>1. ev.args \in 0 .. MaxArgs /\ arg \in 1 .. MaxArgs + 1
    BY EventType DEF IInv, TypeOK
  <2> QED
    BY <2>1, HintInPlace, DispatchAssumption DEF TakeArgument
<1>2. [uri |-> exec, arg |-> arg] \in [uri : 1 .. MaxUris, arg : 1 .. MaxArgs]
  BY <1>1
<1>3. given' \in Seq([uri : 1 .. MaxUris, arg : 1 .. MaxArgs])
  BY <1>2 DEF IInv, TypeOK, TakeArgument
<1>4. arg' = arg + 1 /\ MaxArgs \in Nat
  BY DispatchAssumption DEF TakeArgument
<1> QED
  BY <1>1, <1>3, <1>4

LEMMA ExecuteType ==
  ASSUME IInv, Execute
  PROVE  TypeOK'
<1> USE DispatchAssumption
<1>1. /\ pc = "dispatch" /\ Answered < Len(hints) /\ exec' = exec + 1
      /\ UNCHANGED <<ev, look, batches, hints, left, ran_out, sent>>
  BY ExecuteOne DEF ExecutesOne
<1>2. exec' \in 1 .. MaxUris + 1
  BY <1>1, HintInPlace
<1>3. Hint.size \in Nat /\ ErrorSize \in Nat
  BY <1>1, HintInPlace DEF Hints
<1>4. /\ results' \in Seq(Results) /\ used' \in Nat
      /\ pc' \in {"dispatch", "done"} /\ outcome' \in {"Ok", "Err"}
  <2>1. CASE ExecuteDeferred
    BY <2>1, <1>1 DEF ExecuteDeferred, reply, IInv, TypeOK
  <2>2. CASE ~ExecuteDeferred
    <3>1. PICK ok \in BOOLEAN : Put(ok, ErrorSize) \/ Put(ok, Hint.size)
      BY <2>2 DEF Execute, AnswerRefused, AnswerRead, ExecuteCall, ExecuteWrite, NoArgument
    <3> QED
      BY <3>1, <1>1, <1>3, PutType
  <2> QED
    BY <2>1, <2>2
<1>5. /\ arg' \in 1 .. MaxArgs + 1
      /\ given' \in Seq([uri : 1 .. MaxUris, arg : 1 .. MaxArgs])
      /\ digit' \in 0 .. MaxArgs /\ display' \in BOOLEAN /\ shown' \in 0 .. MaxArgs
      /\ async' \in BOOLEAN
  BY <1>1, TakeArgumentType
     DEF Execute, AnswerRefused, AnswerRead, ExecuteCall, ExecuteWrite, ExecuteDeferred,
         NoArgument, SetDigit, tasks, IInv, TypeOK
<1> QED
  BY <1>1, <1>2, <1>4, <1>5 DEF IInv, TypeOK

-----------------------------------------------------------------------------
(* The steps *)

(* One more resource is executed: it is in the reply, or is owed nothing, or
   the dispatch is over. *)
LEMMA ExecuteIInv ==
  ASSUME IInv, Execute
  PROVE  IInv'
<1>1. TypeOK'
  BY ExecuteType
<1>2. ExecutesOne /\ TypeOK
  BY ExecuteOne DEF IInv
<1>3. /\ exec \in 1 .. Len(ev.uris) /\ exec \in Int /\ look \in Int
      /\ Len(hints) \in Nat /\ BatchStart \in Int /\ exec \in BatchStart .. look - 1
      /\ hints # <<>> /\ pc = "dispatch" /\ Supported /\ exec' = exec + 1
      /\ UNCHANGED <<ev, look, batches, hints, left, ran_out, sent, BatchStart, Supported>>
  BY <1>2, HintInPlace DEF ExecutesOne, IInv, TypeOK, ExecPlace, BatchStart, Answered, Supported
<1>4. \A u : Owed(u)' = Owed(u)
  BY <1>3 DEF Owed, Supported
<1>5. HintsMatch'
  BY <1>3 DEF IInv, HintsMatch
<1>6. \/ pc' = "dispatch" /\ outcome' = "Ok"
      \/ pc' = "done" /\ outcome' = "Err"
  BY <1>2, <1>3 DEF ExecutesOne, Fail, IInv, StopReason
<1>7. ExecPlace' /\ StopReason'
  <2>1. ExecPlace'
    BY <1>3, <1>6 DEF ExecPlace
  <2>2. StopReason'
    BY <1>3, <1>6 DEF IInv, StopReason, Ended
  <2> QED
    BY <2>1, <2>2
<1>8. Dealt' = Dealt /\ Rounds' = Rounds
  BY <1>3, <1>6 DEF Dealt, Rounds, Ended
<1>9. SentSoFar' /\ AnsweredInOrder'
  BY <1>3, <1>4, <1>8 DEF IInv, SentSoFar, AnsweredInOrder
<1>10. ReplySoFar'
  <2>1. CASE \E ok \in BOOLEAN : results' = Append(results, Result(exec, ok))
    <3>1. PICK ok \in BOOLEAN : results' = Append(results, Result(exec, ok))
      BY <2>1
    <3>2. /\ Len(results') = Len(results) + 1 /\ Len(results) \in Nat
          /\ results'[Len(results) + 1].uri = exec
          /\ \A k \in 1 .. Len(results) : results'[k] = results[k]
      BY <3>1, <1>2 DEF TypeOK, Result
    <3>3. /\ \A k \in 1 .. Len(results) : results[k].uri \in BatchStart .. exec - 1
          /\ \A j, k \in 1 .. Len(results) : j < k => results[j].uri < results[k].uri
          /\ \A u \in BatchStart .. exec - 1 :
               Owed(u) => \E k \in 1 .. Len(results) : results[k].uri = u
      BY <1>3 DEF IInv, ReplySoFar
    <3>4. /\ \A k \in 1 .. Len(results') : results'[k].uri \in BatchStart .. exec
          /\ \A j, k \in 1 .. Len(results') : j < k => results'[j].uri < results'[k].uri
      <4>1. \A k \in 1 .. Len(results') :
              \/ k \in 1 .. Len(results) /\ results'[k].uri = results[k].uri
              \/ k = Len(results) + 1 /\ results'[k].uri = exec
        BY <3>2
      <4>2. \A k \in 1 .. Len(results') : results'[k].uri \in BatchStart .. exec
        BY <4>1, <3>3, <1>3
      <4>3. ASSUME NEW j \in 1 .. Len(results'), NEW k \in 1 .. Len(results'), j < k
            PROVE  results'[j].uri < results'[k].uri
        <5>1. j \in 1 .. Len(results) /\ results'[j].uri = results[j].uri
          BY <4>3, <4>1, <3>2
        <5>2. results[j].uri \in BatchStart .. exec - 1
          BY <5>1, <3>3
        <5> QED
          BY <4>3, <5>1, <5>2, <4>1, <3>3, <1>3
      <4> QED
        BY <4>2, <4>3
    <3>5. \A u \in BatchStart .. exec :
            Owed(u) => \E k \in 1 .. Len(results') : results'[k].uri = u
      <4> SUFFICES ASSUME NEW u \in BatchStart .. exec, Owed(u)
                   PROVE  \E k \in 1 .. Len(results') : results'[k].uri = u
        OBVIOUS
      <4>1. CASE u = exec
        <5>1. Len(results) + 1 \in 1 .. Len(results')
          BY <3>2
        <5> QED
          BY <4>1, <5>1, <3>2
      <4>2. CASE u # exec
        <5>1. u \in BatchStart .. exec - 1
          BY <4>2, <1>3
        <5>2. PICK k \in 1 .. Len(results) : results[k].uri = u
          BY <5>1, <3>3
        <5>3. k \in 1 .. Len(results') /\ results'[k].uri = u
          BY <5>2, <3>2
        <5> QED
          BY <5>3
      <4> QED
        BY <4>1, <4>2
    <3>6. exec' - 1 = exec /\ BatchStart' = BatchStart
      BY <1>3
    <3> QED
      BY <3>4, <3>5, <3>6, <1>4 DEF ReplySoFar
  <2>2. CASE Fail
    BY <2>2 DEF ReplySoFar, Fail
  <2>3. CASE Hint.deferred /\ results' = results
    <3>1. ~Owed(exec)
      BY <2>3, <1>2, HintInPlace DEF ExecutesOne, Owed
    <3> QED
      BY <2>3, <3>1, <1>3, <1>4 DEF IInv, ReplySoFar
  <2> QED
    BY <1>2, <2>1, <2>2, <2>3 DEF ExecutesOne
<1> QED
  BY <1>1, <1>5, <1>7, <1>9, <1>10 DEF IInv

(* The lookahead takes a resource. *)
LEMMA TakeIInv ==
  ASSUME IInv, Take
  PROVE  IInv'
<1>1. /\ pc = "lookahead" /\ pc' = "lookahead" /\ look <= Len(ev.uris)
      /\ look' = look + 1 /\ hints' = Append(hints, Peeked) /\ left' = left - Peeked.size
      /\ UNCHANGED <<ev, exec, arg, batches, ran_out, results, used, sent, given,
                     outcome, digit, display, shown, async>>
  BY DEF Take, reply, tasks
<1>2. /\ look \in 1 .. Len(ev.uris) /\ look \in 1 .. MaxUris
      /\ Peeked \in Hints /\ Peeked.size \in Nat
      /\ Peeked.deferred => Peeked.size = 0
  BY <1>1, PeekedType DEF Hints
<1>3. /\ hints \in Seq(Hints) /\ left \in 0 .. Budget /\ Len(hints) \in Nat
      /\ MAX_REPLY_BATCH_LEN \in Nat /\ Budget \in Nat /\ MaxUris \in Nat
  BY DispatchAssumption DEF IInv, TypeOK
<1>4. /\ hints' \in Seq(Hints) /\ Len(hints') = Len(hints) + 1
      /\ hints'[Len(hints) + 1] = Peeked
      /\ \A k \in 1 .. Len(hints) : hints'[k] = hints[k]
  BY <1>1, <1>2, <1>3
<1>5. Len(hints') <= MAX_REPLY_BATCH_LEN /\ left' \in 0 .. Budget
  BY <1>1, <1>2, <1>3, <1>4 DEF Take
<1>6. TypeOK'
  BY <1>1, <1>2, <1>4, <1>5, DispatchAssumption DEF IInv, TypeOK
<1>7. BatchStart' = BatchStart /\ BatchStart \in Int
  BY <1>1, <1>2, <1>3, <1>4 DEF BatchStart
<1>8. HintsMatch'
  <2>1. BatchStart - 1 + (Len(hints) + 1) = look
    BY <1>2, <1>3 DEF BatchStart
  <2>2. look' \in 1 .. Len(ev.uris) + 1 /\ BatchStart' >= 1
    BY <1>1, <1>2, <1>7 DEF IInv, HintsMatch
  <2>3. ASSUME NEW k \in 1 .. Len(hints')
        PROVE  hints'[k] = reply_size_hint(ev.uris[BatchStart - 1 + k], ev.kind)
    <3>1. CASE k = Len(hints) + 1
      <4>1. hints'[k] = Peeked /\ BatchStart - 1 + k = look
        BY <1>4, <2>1, <3>1
      <4>2. QED
        BY <4>1 DEF Peeked
    <3>2. CASE k # Len(hints) + 1
      <4>1. k \in 1 .. Len(hints)
        BY <1>3, <1>4, <3>2
      <4>2. QED
        BY <1>4, <4>1 DEF IInv, HintsMatch
    <3>3. QED
      BY <3>1, <3>2
  <2> QED
    BY <2>2, <2>3, <1>1, <1>7 DEF HintsMatch
<1>9. ExecPlace' /\ StopReason' /\ ReplySoFar'
  BY <1>1, <1>2, <1>4, <1>7 DEF IInv, ExecPlace, StopReason, ReplySoFar, Supported, Ended
<1>10. Dealt' = Dealt /\ Rounds' = Rounds
  BY <1>1, <1>7 DEF Dealt, Rounds, Ended, BatchStart
<1>11. SentSoFar' /\ AnsweredInOrder'
  BY <1>1, <1>10 DEF IInv, SentSoFar, AnsweredInOrder, Owed, Supported
<1> QED
  BY <1>6, <1>8, <1>9, <1>11 DEF IInv

(* The lookahead ends.  If it took nothing there was nothing to take: any one
   reply fits an empty budget. *)
LEMMA StopLookingIInv ==
  ASSUME IInv, StopLooking
  PROVE  IInv'
<1>1. /\ pc = "lookahead" /\ pc' = "grant"
      /\ UNCHANGED <<ev, look, exec, arg, batches, hints, left, results, used, sent,
                     given, outcome, digit, display, shown, async>>
      /\ ran_out' \in {ran_out, TRUE}
  BY DEF StopLooking, reply, tasks
<1>2. ran_out' => look = Len(ev.uris) + 1
  <2>1. /\ look \in 1 .. Len(ev.uris) + 1 /\ Len(ev.uris) \in Nat
        /\ ran_out => look = Len(ev.uris) + 1
    BY EventType DEF IInv, TypeOK, HintsMatch, StopReason
  <2>2. ran_out' => ran_out \/ look > Len(ev.uris)
    BY DEF StopLooking
  <2> QED
    BY <2>1, <2>2
<1>3. hints = <<>> => ran_out'
  <2> SUFFICES ASSUME hints = <<>>, ~ran_out' PROVE FALSE
    OBVIOUS
  <2>1. Len(hints) = 0 /\ MAX_REPLY_BATCH_LEN >= 1 /\ left = Budget
    BY <1>1, DispatchAssumption DEF IInv, StopReason
  <2>2. look <= Len(ev.uris) /\ Peeked.size > left
    BY <2>1 DEF StopLooking
  <2> QED
    BY <2>1, <2>2, PeekedType, DispatchAssumption DEF Hints
<1>4. TypeOK'
  BY <1>1 DEF IInv, TypeOK
<1>5. HintsMatch' /\ ExecPlace' /\ StopReason' /\ ReplySoFar'
  BY <1>1, <1>2, <1>3
     DEF IInv, HintsMatch, ExecPlace, StopReason, ReplySoFar, BatchStart, Supported, Ended
<1>6. Dealt' = Dealt /\ Rounds' = Rounds
  BY <1>1 DEF Dealt, Rounds, Ended
<1>7. SentSoFar' /\ AnsweredInOrder'
  <2>1. \A u : Owed(u)' = Owed(u)
    BY <1>1 DEF Owed, Supported
  <2>2. SentSoFar'
    BY <1>1, <1>6, <2>1 DEF IInv, SentSoFar
  <2>3. AnsweredInOrder'
    BY <1>1 DEF IInv, AnsweredInOrder
  <2> QED
    BY <2>2, <2>3
<1> QED
  BY <1>4, <1>5, <1>7 DEF IInv

(* A granted reply is empty, its dispatch at the start of the batch. *)
LEMMA GrantIInv ==
  ASSUME IInv, Grant
  PROVE  IInv'
<1>1. /\ pc = "grant" /\ pc' = "dispatch" /\ hints # <<>> /\ Supported
      /\ results' = <<>> /\ used' = 0 /\ arg' = 1
      /\ UNCHANGED <<ev, look, exec, batches, hints, left, ran_out, sent, given,
                     outcome, digit, display, shown, async>>
  BY DEF Grant, batch, tasks, Supported
<1>2. TypeOK'
  <2>1. results' \in Seq(Results) /\ used' \in Nat /\ arg' \in 1 .. MaxArgs + 1
    BY <1>1, DispatchAssumption
  <2> QED
    BY <1>1, <2>1 DEF IInv, TypeOK
<1>3. /\ exec = BatchStart /\ BatchStart \in Int /\ BatchStart <= look
      /\ UNCHANGED <<BatchStart, Supported>>
  BY <1>1 DEF IInv, TypeOK, ExecPlace, BatchStart, Supported
<1>4. HintsMatch' /\ ExecPlace' /\ StopReason'
  <2>1. HintsMatch' /\ ExecPlace'
    BY <1>1, <1>3 DEF IInv, HintsMatch, ExecPlace, TypeOK
  <2>2. StopReason'
    BY <1>1 DEF IInv, StopReason, Ended
  <2> QED
    BY <2>1, <2>2
<1>5. ReplySoFar'
  BY <1>1, <1>3 DEF ReplySoFar
<1>6. Dealt' = Dealt /\ Rounds' = Rounds
  BY <1>1 DEF Dealt, Rounds, Ended
<1>7. SentSoFar' /\ AnsweredInOrder'
  <2>1. \A u : Owed(u)' = Owed(u)
    BY <1>1 DEF Owed, Supported
  <2>2. SentSoFar'
    BY <1>1, <1>6, <2>1 DEF IInv, SentSoFar
  <2>3. AnsweredInOrder'
    BY <1>1 DEF IInv, AnsweredInOrder
  <2> QED
    BY <2>2, <2>3
<1> QED
  BY <1>2, <1>4, <1>5, <1>7 DEF IInv

(* What leaves the batch as it is and does not go on in it. *)
LEMMA StopIInv ==
  ASSUME IInv, NothingTaken \/ GrantFails \/ DispatchDone
  PROVE  IInv'
<1>1. /\ UNCHANGED <<ev, look, exec, arg, batches, hints, left, ran_out, results, used,
                     sent, given, digit, display, shown, async>>
      /\ \/ pc = "grant" /\ hints = <<>> /\ pc' = "done" /\ outcome' = outcome
         \/ pc = "grant" /\ pc' = "done" /\ outcome' = "Err"
         \/ /\ pc = "dispatch" /\ pc' = "commit" /\ outcome' = outcome
            /\ Answered = Len(hints)
  BY DEF NothingTaken, GrantFails, DispatchDone, Fail, batch, reply, tasks
<1>2. pc = "dispatch" => exec = look
  BY <1>1 DEF IInv, TypeOK, Answered
<1>3. TypeOK'
  BY <1>1 DEF IInv, TypeOK
<1>4. HintsMatch' /\ ExecPlace' /\ StopReason'
  <2>1. UNCHANGED <<BatchStart, Supported>>
    BY <1>1 DEF BatchStart, Supported
  <2>2. HintsMatch'
    BY <1>1, <2>1 DEF IInv, HintsMatch
  <2>3. ExecPlace'
    BY <1>1, <1>2, <2>1 DEF IInv, ExecPlace
  <2>4. StopReason'
    BY <1>1 DEF IInv, StopReason, Ended
  <2> QED
    BY <2>2, <2>3, <2>4
<1>5. ReplySoFar'
  BY <1>1, <1>2 DEF IInv, ReplySoFar, BatchStart, Owed, Supported
<1>6. Dealt' = Dealt /\ Rounds' = Rounds
  BY <1>1 DEF Dealt, Rounds, Ended, IInv, StopReason, TypeOK
<1>7. SentSoFar' /\ AnsweredInOrder'
  <2>1. \A u : Owed(u)' = Owed(u)
    BY <1>1 DEF Owed, Supported
  <2>2. SentSoFar'
    BY <1>1, <1>6, <2>1 DEF IInv, SentSoFar
  <2>3. AnsweredInOrder'
    BY <1>1 DEF IInv, AnsweredInOrder
  <2> QED
    BY <2>2, <2>3
<1> QED
  BY <1>3, <1>4, <1>5, <1>7 DEF IInv

(* The end of a round, after a reply or without one. *)
RoundEnds ==
  /\ pc \in {"grant", "commit"} /\ hints # <<>>
  /\ UNCHANGED <<ev, look, exec, outcome, results, used>>
  /\ \/ /\ batches < MAX_REPLY_BATCHES
        /\ pc' = "lookahead" /\ batches' = batches + 1
        /\ hints' = <<>> /\ left' = Budget /\ ran_out' = FALSE
     \/ /\ ran_out \/ ~(batches < MAX_REPLY_BATCHES)
        /\ pc' = "done"
        /\ UNCHANGED <<batches, hints, left, ran_out>>

LEMMA RoundEndsLeaves ==
  ASSUME IInv, RoundEnds
  PROVE  /\ Dealt = BatchStart /\ Dealt' = look /\ BatchStart < look
         /\ Rounds = batches - 1 /\ Rounds' = batches
         /\ batches \in 1 .. MAX_REPLY_BATCHES /\ look \in 1 .. Len(ev.uris) + 1
         /\ HintsMatch' /\ StopReason' /\ ReplySoFar'
         /\ pc' \in {"lookahead", "done"}
         /\ hints' \in Seq(Hints) /\ Len(hints') <= MAX_REPLY_BATCH_LEN
         /\ left' \in 0 .. Budget /\ ran_out' \in BOOLEAN
         /\ batches' \in 1 .. MAX_REPLY_BATCHES
<1>1. /\ look \in Int /\ hints \in Seq(Hints) /\ Len(hints) \in Nat /\ Len(hints) > 0
      /\ batches \in 1 .. MAX_REPLY_BATCHES /\ MAX_REPLY_BATCHES \in Nat
      /\ MAX_REPLY_BATCH_LEN \in Nat /\ Budget \in Nat
      /\ look \in 1 .. Len(ev.uris) + 1 /\ outcome = "Ok" /\ pc # "done"
  <2>1. /\ hints \in Seq(Hints) /\ hints # <<>> /\ batches \in 1 .. MAX_REPLY_BATCHES
        /\ look \in 1 .. Len(ev.uris) + 1 /\ Len(ev.uris) \in Nat
    BY EventType DEF RoundEnds, IInv, TypeOK, HintsMatch
  <2>2. outcome = "Ok" /\ pc # "done"
    BY DEF RoundEnds, IInv, StopReason
  <2>3. Len(hints) \in Nat /\ Len(hints) > 0
    BY <2>1
  <2>4. MAX_REPLY_BATCHES \in Nat /\ MAX_REPLY_BATCH_LEN \in Nat /\ Budget \in Nat
    BY DispatchAssumption
  <2> QED
    BY <2>1, <2>2, <2>3, <2>4
<1>2. /\ Dealt = BatchStart /\ BatchStart < look /\ Rounds = batches - 1
  BY <1>1 DEF Dealt, Rounds, Ended, BatchStart
<1>3. CASE pc' = "lookahead"
  <2>1. /\ batches < MAX_REPLY_BATCHES /\ batches' = batches + 1
        /\ hints' = <<>> /\ left' = Budget /\ ran_out' = FALSE
        /\ UNCHANGED <<ev, look, outcome>>
    BY <1>3 DEF RoundEnds
  <2>2. Len(hints') = 0 /\ hints' \in Seq(Hints)
    BY <2>1
  <2>3. Dealt' = look /\ Rounds' = batches
    BY <2>1, <2>2, <1>1, <1>3 DEF Dealt, Rounds, Ended
  <2>4. HintsMatch' /\ StopReason' /\ ReplySoFar'
    BY <2>1, <2>2, <1>1, <1>3 DEF HintsMatch, StopReason, ReplySoFar, Ended, BatchStart
  <2>5. /\ Len(hints') <= MAX_REPLY_BATCH_LEN /\ left' \in 0 .. Budget
        /\ ran_out' \in BOOLEAN /\ batches' \in 1 .. MAX_REPLY_BATCHES
    <3>1. 0 <= MAX_REPLY_BATCH_LEN /\ Budget \in 0 .. Budget
      BY <1>1
    <3>2. batches + 1 \in 1 .. MAX_REPLY_BATCHES
      BY <2>1, <1>1
    <3> QED
      BY <2>1, <2>2, <3>1, <3>2
  <2> QED
    BY <2>2, <2>3, <2>4, <2>5, <1>1, <1>2, <1>3
<1>4. CASE pc' = "done"
  <2>1. /\ ran_out \/ batches = MAX_REPLY_BATCHES
        /\ UNCHANGED <<batches, hints, left, ran_out, ev, look, outcome>>
        /\ hints # <<>>
    BY <1>1, <1>4 DEF RoundEnds
  <2>2. Dealt' = look /\ Rounds' = batches
    BY <2>1, <1>1, <1>4 DEF Dealt, Rounds, Ended
  <2>3. HintsMatch' /\ StopReason' /\ ReplySoFar'
    <3>1. HintsMatch'
      BY <2>1 DEF IInv, HintsMatch, BatchStart
    <3>2. StopReason' /\ ReplySoFar'
      BY <2>1, <1>1, <1>4 DEF IInv, StopReason, ReplySoFar, Ended
    <3> QED
      BY <3>1, <3>2
  <2> QED
    BY <2>1, <2>2, <2>3, <1>1, <1>2, <1>4 DEF IInv, TypeOK
<1> QED
  BY <1>3, <1>4 DEF RoundEnds

(* A batch of an unsupported kind is passed over: nothing in it is owed. *)
LEMMA UnsupportedIInv ==
  ASSUME IInv, Unsupported
  PROVE  IInv' /\ RoundEnds
<1>1. /\ pc = "grant" /\ ~Supported /\ RoundEnds
      /\ UNCHANGED <<ev, look, exec, arg, results, used, sent, given, outcome,
                     digit, display, shown, async>>
  BY DEF Unsupported, NextBatch, RoundEnds, Supported, batch, reply, tasks
<1>2. /\ pc' \in {"lookahead", "done"} /\ ~Supported'
      /\ Rounds <= Rounds' /\ Dealt < Dealt' /\ Rounds \in Int /\ Rounds' \in Int
      /\ Dealt \in Int /\ Dealt' \in Int /\ Len(sent) \in Nat
  <2>1. look \in Int /\ BatchStart \in Int /\ batches \in Int /\ Len(sent) \in Nat
    BY DEF IInv, TypeOK, BatchStart
  <2>2. ~Supported'
    BY <1>1 DEF Supported
  <2> QED
    BY <1>1, <2>1, <2>2, RoundEndsLeaves
<1>3. TypeOK'
  BY <1>1, <1>2, RoundEndsLeaves DEF IInv, TypeOK
<1>4. ExecPlace'
  BY <1>2 DEF ExecPlace
<1>5. SentSoFar'
  <2>1. \A n \in 1 .. Len(sent) : \A k \in 1 .. Len(sent[n].results) :
          sent[n].results[k].uri \in Int /\ sent[n].results[k].uri < Dealt
    BY SentType DEF IInv, SentSoFar
  <2>2. \A u : ~Owed(u)'
    BY <1>2 DEF Owed
  <2>3. /\ sent' = sent /\ Len(sent) <= Rounds'
        /\ \A n \in 1 .. Len(sent) : \A k \in 1 .. Len(sent[n].results) :
             sent[n].results[k].uri < Dealt'
    <3>1. sent' = sent /\ Len(sent) <= Rounds
      BY <1>1 DEF IInv, SentSoFar
    <3> QED
      BY <3>1, <2>1, <1>2
  <2> QED
    BY <2>2, <2>3 DEF SentSoFar
<1>6. AnsweredInOrder'
  BY <1>1 DEF IInv, AnsweredInOrder
<1> QED
  BY <1>1, <1>3, <1>4, <1>5, <1>6, RoundEndsLeaves DEF IInv

(* A reply that is committed answers what is owed of its batch; a batch without
   one owes nothing. *)
LEMMA CommitIInv ==
  ASSUME IInv, Commit
  PROVE  IInv' /\ RoundEnds
<1>1. /\ pc = "commit" /\ Supported /\ RoundEnds
      /\ UNCHANGED <<ev, look, exec, arg, results, used, given, outcome,
                     digit, display, shown, async>>
  BY DEF Commit, NextBatch, RoundEnds, Supported, batch, reply, tasks, IInv, ExecPlace
<1>2. /\ pc' \in {"lookahead", "done"} /\ Dealt = BatchStart /\ Dealt' = look
      /\ Rounds' = Rounds + 1 /\ Rounds \in Int /\ Rounds' <= MAX_REPLY_BATCHES
      /\ BatchStart \in Int /\ look \in Int /\ exec = look /\ Len(sent) \in Nat
      /\ MAX_REPLY_BATCHES \in Int /\ BatchStart < look
      /\ Len(sent) <= Rounds
  <2>1. look \in Int /\ BatchStart \in Int /\ batches \in Int /\ Len(sent) \in Nat
    BY DEF IInv, TypeOK, BatchStart
  <2>2. exec = look /\ Len(sent) <= Rounds
    BY <1>1 DEF IInv, ExecPlace, SentSoFar
  <2> QED
    BY <1>1, <2>1, <2>2, RoundEndsLeaves, DispatchAssumption
<1>3. /\ \A u : Owed(u)' = Owed(u)
      /\ results \in Seq(Results) /\ Len(results) \in Nat
      /\ \A k \in 1 .. Len(results) : results[k].uri \in BatchStart .. look - 1
      /\ \A j, k \in 1 .. Len(results) : j < k => results[j].uri < results[k].uri
      /\ \A u \in BatchStart .. look - 1 :
           Owed(u) => \E k \in 1 .. Len(results) : results[k].uri = u
  BY <1>1, <1>2 DEF IInv, TypeOK, ReplySoFar, Owed, Supported
<1>4. /\ \A n \in 1 .. Len(sent) : \A k \in 1 .. Len(sent[n].results) :
           sent[n].results[k].uri \in Int /\ sent[n].results[k].uri < BatchStart
      /\ \A u \in 1 .. BatchStart - 1 :
           Owed(u) => \E n \in 1 .. Len(sent) : \E k \in 1 .. Len(sent[n].results) :
                        sent[n].results[k].uri = u
  BY <1>2, SentType DEF IInv, SentSoFar
<1>5. SentSoFar' /\ AnsweredInOrder' /\ sent' \in Seq(Replies) /\ Len(sent') <= Rounds'
  <2>1. CASE Immediates = {} /\ sent' = sent
    <3>1. \A u \in BatchStart .. look - 1 : ~Owed(u)
      <4> SUFFICES ASSUME NEW u \in BatchStart .. look - 1 PROVE ~Owed(u)
        OBVIOUS
      <4>1. /\ u - BatchStart + 1 \in 1 .. Len(hints)
            /\ BatchStart - 1 + (u - BatchStart + 1) = u
        BY <1>2 DEF IInv, TypeOK, BatchStart
      <4>2. hints[u - BatchStart + 1].deferred
        BY <4>1, <2>1 DEF Immediates, IInv, TypeOK
      <4> QED
        BY <4>1, <4>2 DEF IInv, HintsMatch, Owed
    <3>2. SentSoFar'
      <4>1. \A n \in 1 .. Len(sent) : \A k \in 1 .. Len(sent[n].results) :
              sent[n].results[k].uri < look
        BY <1>2, <1>4
      <4>2. \A u \in 1 .. look - 1 : Owed(u) => u \in 1 .. BatchStart - 1
        BY <3>1, <1>2
      <4> QED
        BY <2>1, <4>1, <4>2, <1>2, <1>3, <1>4 DEF SentSoFar
    <3>3. AnsweredInOrder'
      BY <2>1 DEF IInv, AnsweredInOrder
    <3> QED
      BY <2>1, <3>2, <3>3, <1>2 DEF IInv, TypeOK
  <2>2. CASE sent' = Append(sent, [resources |-> ev.uris, results |-> results])
    <3>1. [resources |-> ev.uris, results |-> results] \in Replies
      BY <1>3, EventType DEF Replies, IInv, TypeOK
    <3>2. /\ sent \in Seq(Replies) /\ sent' \in Seq(Replies)
          /\ Len(sent') = Len(sent) + 1 /\ DOMAIN sent' = 1 .. Len(sent) + 1
          /\ \A n \in 1 .. Len(sent) : sent'[n] = sent[n]
          /\ sent'[Len(sent) + 1].results = results
      BY <2>2, <3>1 DEF IInv, TypeOK
    <3>3. \A n \in 1 .. Len(sent') :
            \/ n \in 1 .. Len(sent) /\ sent'[n].results = sent[n].results
            \/ n = Len(sent) + 1 /\ sent'[n].results = results
      BY <3>2, <1>2
    <3>4. SentSoFar'
      <4>1. ASSUME NEW n \in 1 .. Len(sent'), NEW k \in 1 .. Len(sent'[n].results)
            PROVE  sent'[n].results[k].uri < look
        <5>1. CASE n \in 1 .. Len(sent) /\ sent'[n].results = sent[n].results
          <6>1. /\ sent[n].results[k].uri \in Int
                /\ sent[n].results[k].uri < BatchStart
            BY <5>1, <1>4
          <6> QED
            BY <5>1, <6>1, <1>2
        <5>2. CASE sent'[n].results = results
          BY <5>2, <1>2, <1>3
        <5> QED
          BY <5>1, <5>2, <3>3
      <4>2. ASSUME NEW u \in 1 .. look - 1, Owed(u)
            PROVE  \E n \in 1 .. Len(sent') : \E k \in 1 .. Len(sent'[n].results) :
                     sent'[n].results[k].uri = u
        <5>1. CASE u \in 1 .. BatchStart - 1
          <6>1. PICK n \in 1 .. Len(sent) : \E k \in 1 .. Len(sent[n].results) :
                       sent[n].results[k].uri = u
            BY <5>1, <4>2, <1>4
          <6>2. n \in 1 .. Len(sent') /\ sent'[n].results = sent[n].results
            BY <3>2, <1>2
          <6> QED
            BY <6>1, <6>2
        <5>2. CASE u \in BatchStart .. look - 1
          <6>1. \E k \in 1 .. Len(results) : results[k].uri = u
            BY <5>2, <4>2, <1>3
          <6>2. Len(sent) + 1 \in 1 .. Len(sent') /\ sent'[Len(sent) + 1].results = results
            BY <3>2, <1>2
          <6> QED
            BY <6>1, <6>2
        <5> QED
          BY <5>1, <5>2, <1>2
      <4>3. Dealt' = look /\ Len(sent') <= Rounds'
        BY <3>2, <1>2
      <4>4. \A u \in 1 .. look - 1 : Owed(u)' =>
              \E n \in 1 .. Len(sent') : \E k \in 1 .. Len(sent'[n].results) :
                sent'[n].results[k].uri = u
        BY <4>2, <1>3
      <4> QED
        BY <4>1, <4>3, <4>4 DEF SentSoFar
    <3>5. AnsweredInOrder'
      <4> SUFFICES ASSUME NEW m \in 1 .. Len(sent'), NEW n \in 1 .. Len(sent'),
                          NEW j \in DOMAIN sent'[m].results, NEW k \in DOMAIN sent'[n].results,
                          m < n \/ (m = n /\ j < k)
                   PROVE  sent'[m].results[j].uri < sent'[n].results[k].uri
        BY <3>2 DEF AnsweredInOrder
      <4>1. CASE m \in 1 .. Len(sent) /\ n \in 1 .. Len(sent)
        BY <4>1, <3>2 DEF IInv, AnsweredInOrder
      <4>2. CASE m \in 1 .. Len(sent) /\ n = Len(sent) + 1
        <5>1. sent[m].results \in Seq(Results)
          <6>1. sent[m] \in Replies
            BY <4>2, <3>2
          <6> QED
            BY <6>1 DEF Replies
        <5>2. j \in 1 .. Len(sent[m].results) /\ k \in 1 .. Len(results)
          BY <4>2, <5>1, <3>2, <1>3
        <5> QED
          BY <4>2, <5>2, <3>2, <1>2, <1>3, <1>4
      <4>3. CASE m = Len(sent) + 1 /\ n = Len(sent) + 1
        <5>1. j \in 1 .. Len(results) /\ k \in 1 .. Len(results) /\ j < k
          BY <4>3, <3>2, <1>3
        <5> QED
          BY <4>3, <5>1, <3>2, <1>3
      <4> QED
        BY <4>1, <4>2, <4>3, <3>2, <1>2
    <3> QED
      BY <3>2, <3>4, <3>5, <1>2
  <2> QED
    BY <2>1, <2>2 DEF Commit
<1>6. TypeOK'
  BY <1>1, <1>2, <1>5, RoundEndsLeaves DEF IInv, TypeOK
<1>7. ExecPlace'
  <2>1. pc' = "lookahead" => BatchStart' = look
    BY <1>1, <1>2, RoundEndsLeaves DEF Dealt, Ended, BatchStart
  <2> QED
    BY <1>1, <1>2, <2>1 DEF ExecPlace
<1> QED
  BY <1>1, <1>5, <1>6, <1>7, RoundEndsLeaves DEF IInv

(* The spawned tasks, and steps that change nothing, are outside the dispatch. *)
LEMMA OthersIInv ==
  ASSUME IInv, DisplayTask \/ AsyncTask \/ UNCHANGED vars
  PROVE  IInv'
<1>1. /\ UNCHANGED <<ev, pc, look, exec, arg, batches, hints, left, ran_out, results,
                     used, sent, given, outcome, digit>>
      /\ display' \in {display, FALSE} /\ async' \in {async, FALSE}
      /\ shown' \in {shown, digit}
  BY DEF DisplayTask, AsyncTask, vars, batch, reply, tasks
<1>2. TypeOK'
  BY <1>1 DEF IInv, TypeOK
<1>3. HintsMatch' /\ ExecPlace' /\ StopReason'
  BY <1>1 DEF IInv, HintsMatch, ExecPlace, StopReason, BatchStart, Supported, Ended
<1>4. ReplySoFar' /\ SentSoFar' /\ AnsweredInOrder'
  BY <1>1 DEF IInv, ReplySoFar, SentSoFar, AnsweredInOrder, BatchStart, Owed, Supported,
              Dealt, Rounds, Ended
<1> QED
  BY <1>2, <1>3, <1>4 DEF IInv

LEMMA NextIInv == IInv /\ [Next]_vars => IInv'
BY TakeIInv, StopLookingIInv, GrantIInv, StopIInv, UnsupportedIInv, ExecuteIInv, CommitIInv,
   OthersIInv DEF Next, Execute

THEOREM InvariantThm == SafeSpec => []IInv
BY InitIInv, NextIInv, PTL DEF SafeSpec

-----------------------------------------------------------------------------
(* The theorems *)

(* Types, for every size of the batches, replies and sets. *)
THEOREM TypeThm == SafeSpec => []TypeOK
BY InvariantThm, PTL DEF IInv

(* No expect("") of the execution iterator panics, and each hint is used for
   the resource it was computed for. *)
THEOREM IteratorsThm == SafeSpec => []IteratorsInStep
<1>1. IInv => IteratorsInStep
  <2> SUFFICES ASSUME IInv PROVE IteratorsInStep
    OBVIOUS
  <2>1. Supported /\ pc = "lookahead" => exec = look - Len(hints)
    BY DEF IInv, ExecPlace, BatchStart
  <2>2. pc = "dispatch" => Answered >= 0
    BY DEF IInv, TypeOK, ExecPlace, BatchStart, Answered
  <2>3. pc = "dispatch" /\ Answered < Len(hints) =>
          exec <= Len(ev.uris) /\ Hint = reply_size_hint(ev.uris[exec], ev.kind)
    BY HintInPlace, EventType DEF IInv, TypeOK
  <2> QED
    BY <2>1, <2>2, <2>3 DEF IteratorsInStep
<1> QED
  BY <1>1, InvariantThm, PTL

(* No resource is answered twice or out of order, over all replies. *)
THEOREM InOrderThm == SafeSpec => []AnsweredInOrder
BY InvariantThm, PTL DEF IInv

(* A dispatch that ends well leaves no immediate resource it took unanswered. *)
THEOREM AnsweredThm == SafeSpec => []AnsweredIfOk
<1>1. IInv => AnsweredIfOk
  <2> SUFFICES ASSUME IInv, Ended PROVE AnsweredIfOk
    BY DEF AnsweredIfOk, Ended
  <2>1. Dealt = look
    BY DEF Dealt
  <2>2. ASSUME NEW u \in 1 .. look - 1, Owed(u)
        PROVE  \E n \in DOMAIN sent : u \in Answers(n)
    <3>1. PICK n \in 1 .. Len(sent) : \E k \in 1 .. Len(sent[n].results) :
                 sent[n].results[k].uri = u
      BY <2>1, <2>2 DEF IInv, SentSoFar
    <3>2. sent[n] \in Replies /\ n \in DOMAIN sent
      BY DEF IInv, TypeOK
    <3>3. DOMAIN sent[n].results = 1 .. Len(sent[n].results)
      BY <3>2 DEF Replies
    <3> QED
      BY <3>1, <3>2, <3>3 DEF Answers
  <2>3. look <= Len(ev.uris) => batches = MAX_REPLY_BATCHES
    BY EventType DEF IInv, TypeOK, StopReason
  <2> QED
    BY <2>2, <2>3 DEF AnsweredIfOk
<1> QED
  BY <1>1, InvariantThm, PTL

(* What has been executed is behind the lookahead, and what is answered as done,
   in a reply sent or being built, has been executed. *)
DoneAmong(rs) == \A k \in 1 .. Len(rs) : rs[k].ok => rs[k].uri \in Executed
DoneSoFar ==
  /\ Executed \subseteq 1 .. look - 1
  /\ ev.kind \in {"Call", "Write"} =>
       DoneAmong(results) /\ \A n \in 1 .. Len(sent) : DoneAmong(sent[n].results)

(* An execution adds its resource to what has been executed, or nothing; a result
   that says done is of one that was added. *)
LEMMA ExecuteAdds ==
  ASSUME IInv, Execute
  PROVE  /\ Executed' = Executed \/ Executed' = Executed \union {exec}
         /\ \/ results' = results
            \/ /\ \E ok \in BOOLEAN : results' = Append(results, Result(exec, ok))
               /\ \/ results' = Append(results, Result(exec, FALSE))
                  \/ exec \in Executed' \/ ev.kind = "Read"
<1>1. ASSUME TakeArgument PROVE Executed' = Executed \union {exec}
  <2>1. given \in Seq([uri : 1 .. MaxUris, arg : 1 .. MaxArgs])
    BY DEF IInv, TypeOK
  <2>2. /\ DOMAIN given = 1 .. Len(given) /\ DOMAIN given' = 1 .. Len(given) + 1
        /\ \A k \in 1 .. Len(given) : given'[k] = given[k]
        /\ given'[Len(given) + 1].uri = exec /\ Len(given) \in Nat
    BY <1>1, <2>1 DEF TakeArgument
  <2>3. ASSUME NEW k \in 1 .. Len(given) + 1
        PROVE  given'[k].uri \in Executed \union {exec}
    <3>1. k \in 1 .. Len(given) \/ k = Len(given) + 1
      BY <2>2
    <3> QED
      BY <2>2, <3>1 DEF Executed
  <2>4. ASSUME NEW k \in 1 .. Len(given)
        PROVE  given[k].uri \in Executed'
    BY <2>2 DEF Executed
  <2>5. exec \in Executed'
    BY <2>2 DEF Executed
  <2> QED
    BY <2>2, <2>3, <2>4, <2>5 DEF Executed
<1>2. ASSUME UNCHANGED given PROVE Executed' = Executed
  BY <1>2 DEF Executed
<1>3. TakeArgument \/ UNCHANGED given
  BY DEF Execute, AnswerRefused, AnswerRead, ExecuteCall, ExecuteWrite, ExecuteDeferred,
         NoArgument
<1>4. \/ results' = results
      \/ results' = Append(results, Result(exec, FALSE))
      \/ /\ results' = Append(results, Result(exec, TRUE))
         /\ TakeArgument \/ ev.kind = "Read"
  BY DEF Execute, AnswerRefused, AnswerRead, ExecuteCall, ExecuteWrite, ExecuteDeferred,
         NoArgument, Put, reply
<1> QED
  BY <1>1, <1>2, <1>3, <1>4

LEMMA ExecuteDone ==
  ASSUME IInv, DoneSoFar, Execute
  PROVE  DoneSoFar'
<1>1. /\ exec \in 1 .. look - 1 /\ UNCHANGED <<look, ev, sent>>
  <2>1. pc = "dispatch" /\ Answered < Len(hints) /\ UNCHANGED <<look, ev, sent>>
    BY ExecuteOne DEF ExecutesOne
  <2> QED
    BY <2>1, HintInPlace DEF IInv, TypeOK, Answered
<1>2. Executed \subseteq Executed' /\ Executed' \subseteq 1 .. look' - 1
  BY <1>1, ExecuteAdds DEF DoneSoFar
<1>3. ASSUME ev.kind \in {"Call", "Write"} PROVE DoneAmong(results)'
  <2>1. DoneAmong(results) /\ results \in Seq(Results)
    BY <1>3 DEF DoneSoFar, IInv, TypeOK
  <2>2. CASE results' = results
    BY <2>1, <2>2, <1>2 DEF DoneAmong
  <2>3. CASE \E ok \in BOOLEAN : results' = Append(results, Result(exec, ok))
    <3>1. PICK ok \in BOOLEAN :
            results' = Append(results, Result(exec, ok)) /\ (ok => exec \in Executed')
      <4>1. CASE results' = Append(results, Result(exec, FALSE))
        BY <4>1
      <4>2. CASE exec \in Executed'
        BY <4>2, <2>3
      <4>3. CASE results' = results
        <5>1. FALSE
          BY <4>3, <2>3, <2>1
        <5> QED
          BY <5>1
      <4> QED
        BY <4>1, <4>2, <4>3, <1>3, ExecuteAdds
    <3>2. /\ Len(results') = Len(results) + 1 /\ Len(results) \in Nat
          /\ \A k \in 1 .. Len(results) : results'[k] = results[k]
          /\ results'[Len(results) + 1].uri = exec
          /\ results'[Len(results) + 1].ok = ok
      BY <3>1, <2>1 DEF Result
    <3>3. ASSUME NEW k \in 1 .. Len(results'), results'[k].ok
          PROVE  results'[k].uri \in Executed'
      <4>1. k \in 1 .. Len(results) \/ k = Len(results) + 1
        BY <3>2
      <4> QED
        BY <3>1, <3>2, <3>3, <4>1, <2>1, <1>2 DEF DoneAmong
    <3> QED
      BY <3>3 DEF DoneAmong
  <2> QED
    BY <2>2, <2>3, ExecuteAdds
<1>4. ASSUME ev.kind \in {"Call", "Write"}, NEW n \in 1 .. Len(sent)
      PROVE  DoneAmong(sent[n].results)'
  BY <1>1, <1>2, <1>4 DEF DoneSoFar, DoneAmong
<1> QED
  BY <1>1, <1>2, <1>3, <1>4 DEF DoneSoFar

(* The other steps execute nothing; they empty the reply, or send it. *)
LEMMA RestDone ==
  ASSUME IInv, DoneSoFar, [Next]_vars, ~Execute
  PROVE  DoneSoFar'
<1>1. /\ UNCHANGED <<ev, given>> /\ look' \in {look, look + 1} /\ look \in Int
      /\ results' = results \/ results' = <<>>
      /\ \/ sent' = sent
         \/ sent' = Append(sent, [resources |-> ev.uris, results |-> results])
  BY DEF Next, Execute, vars, reply, tasks, Take, StopLooking, NothingTaken, GrantFails,
         Grant, Unsupported, DispatchDone, Commit, DisplayTask, AsyncTask, IInv, TypeOK
<1>2. Executed' = Executed /\ Executed' \subseteq 1 .. look' - 1
  BY <1>1 DEF Executed, DoneSoFar
<1>3. ASSUME ev.kind \in {"Call", "Write"} PROVE DoneAmong(results)'
  BY <1>1, <1>2, <1>3 DEF DoneSoFar, DoneAmong
<1>4. ASSUME ev.kind \in {"Call", "Write"}, NEW n \in 1 .. Len(sent')
      PROVE  DoneAmong(sent[n].results)'
  <2>1. CASE sent' = sent
    BY <2>1, <1>2, <1>4 DEF DoneSoFar, DoneAmong
  <2>2. CASE sent' = Append(sent, [resources |-> ev.uris, results |-> results])
    <3>1. /\ Len(sent') = Len(sent) + 1 /\ Len(sent) \in Nat
          /\ \A m \in 1 .. Len(sent) : sent'[m] = sent[m]
          /\ sent'[Len(sent) + 1].results = results
      BY <2>2 DEF IInv, TypeOK
    <3>2. n \in 1 .. Len(sent) \/ n = Len(sent) + 1
      BY <3>1
    <3> QED
      BY <3>1, <3>2, <1>2, <1>4 DEF DoneSoFar, DoneAmong
  <2> QED
    BY <2>1, <2>2, <1>1
<1> QED
  BY <1>1, <1>2, <1>3, <1>4 DEF DoneSoFar

LEMMA DoneInvariant == SafeSpec => []DoneSoFar
<1>1. Init => DoneSoFar
  BY DEF Init, DoneSoFar, DoneAmong, Executed
<1>2. IInv /\ DoneSoFar /\ [Next]_vars => DoneSoFar'
  BY ExecuteDone, RestDone
<1> QED
  BY <1>1, <1>2, InvariantThm, PTL DEF SafeSpec

(* Whatever fails and wherever, at most one batch of what was executed goes without
   its answer, the last one, and what is answered as done has been done. *)
THEOREM OneBatchLostThm == SafeSpec => []OneBatchLostAtMost
<1>1. IInv /\ DoneSoFar => OneBatchLostAtMost
  <2> SUFFICES ASSUME IInv, DoneSoFar PROVE OneBatchLostAtMost
    OBVIOUS
  <2>1. /\ sent \in Seq(Replies) /\ DOMAIN sent = 1 .. Len(sent)
        /\ \A n \in 1 .. Len(sent) : DOMAIN sent[n].results = 1 .. Len(sent[n].results)
    <3>1. sent \in Seq(Replies)
      BY DEF IInv, TypeOK
    <3>2. ASSUME NEW n \in 1 .. Len(sent)
          PROVE  DOMAIN sent[n].results = 1 .. Len(sent[n].results)
      <4>1. sent[n] \in Replies
        BY <3>1
      <4> QED
        BY <4>1 DEF Replies
    <3> QED
      BY <3>1, <3>2
  <2>2. Unanswered \subseteq Dealt .. look - 1
    <3> SUFFICES ASSUME NEW u \in Unanswered PROVE u \in Dealt .. look - 1
      OBVIOUS
    <3>1. u \in 1 .. look - 1 /\ Owed(u) /\ \A n \in DOMAIN sent : u \notin Answers(n)
      BY DEF Unanswered, DoneSoFar
    <3>2. u \notin 1 .. Dealt - 1
      <4> SUFFICES ASSUME u \in 1 .. Dealt - 1 PROVE FALSE
        OBVIOUS
      <4>1. PICK n \in 1 .. Len(sent) : \E k \in 1 .. Len(sent[n].results) :
                   sent[n].results[k].uri = u
        BY <3>1 DEF IInv, SentSoFar
      <4> QED
        BY <2>1, <3>1, <4>1 DEF Answers
    <3>3. Dealt \in Int /\ look \in Int
      BY DEF Dealt, IInv, TypeOK
    <3> QED
      BY <3>1, <3>2, <3>3
  <2>3. /\ Dealt \in Int /\ look \in Int /\ look - Dealt <= MAX_REPLY_BATCH_LEN
        /\ MAX_REPLY_BATCH_LEN \in Nat
        /\ Ended => Dealt = look
    BY DispatchAssumption DEF Dealt, IInv, TypeOK
  <2>4. Cardinality(Unanswered) <= MAX_REPLY_BATCH_LEN
    <3>1. PICK d \in Int, l \in Int, m \in Nat :
            d = Dealt /\ l = look /\ m = MAX_REPLY_BATCH_LEN /\ l - d <= m
      BY <2>3
    <3>2. /\ IsFiniteSet(d .. l - 1)
          /\ Cardinality(d .. l - 1) = IF d > l - 1 THEN 0 ELSE (l - 1) - d + 1
      <4>1. l - 1 \in Int
        OBVIOUS
      <4> QED
        BY <4>1, FS_Interval
    <3>3. PICK c : c = Cardinality(d .. l - 1)
      OBVIOUS
    <3>4. c \in Nat /\ c <= m
      BY <3>1, <3>2, <3>3
    <3>5. Unanswered \in SUBSET (d .. l - 1)
      BY <2>2, <3>1
    <3>6. IsFiniteSet(Unanswered) /\ Cardinality(Unanswered) <= c
      BY <3>2, <3>3, <3>5, FS_Subset
    <3>7. Cardinality(Unanswered) \in Nat
      BY <3>6, FS_CardinalityType
    <3> QED
      BY <3>1, <3>4, <3>6, <3>7
  <2>5. ASSUME NEW n \in DOMAIN sent, NEW v \in Answers(n), NEW u \in Unanswered
        PROVE  v < u
    <3>1. PICK k \in 1 .. Len(sent[n].results) : sent[n].results[k].uri = v
      BY <2>1 DEF Answers
    <3>2. v < Dealt /\ v \in Int
      BY <2>1, <3>1, SentType DEF IInv, SentSoFar
    <3>3. u \in Dealt .. look - 1
      BY <2>2
    <3> QED
      BY <2>3, <3>2, <3>3
  <2>6. ASSUME Ended PROVE Unanswered = {}
    <3>1. Dealt .. look - 1 = {}
      BY <2>3, <2>6
    <3> QED
      BY <2>2, <3>1
  <2>7. ASSUME NEW n \in DOMAIN sent, NEW k \in DOMAIN sent[n].results,
               sent[n].results[k].ok, ev.kind \in {"Call", "Write"}
        PROVE  sent[n].results[k].uri \in Executed
    BY <2>1, <2>7 DEF DoneSoFar, DoneAmong
  <2> QED
    BY <2>4, <2>5, <2>6, <2>7 DEF OneBatchLostAtMost, Ended
<1> QED
  BY <1>1, InvariantThm, DoneInvariant, PTL

(* A written digit is on the display or display_task is on its way to show it. *)
THEOREM DisplayThm == SafeSpec => []DisplayFollowsDigit
<1>1. Init => DisplayFollowsDigit
  BY DEF Init, DisplayFollowsDigit
<1>2. DisplayFollowsDigit /\ [Next]_vars => DisplayFollowsDigit'
  <2> SUFFICES ASSUME DisplayFollowsDigit, [Next]_vars
               PROVE  DisplayFollowsDigit'
    OBVIOUS
  <2>1. \/ UNCHANGED <<digit, display, shown>>
        \/ display' = TRUE
        \/ shown' = digit /\ digit' = digit
    BY DEF Next, vars, tasks, Take, StopLooking, NothingTaken, GrantFails, Grant,
           Unsupported, AnswerRefused, AnswerRead, ExecuteCall, ExecuteWrite,
           ExecuteDeferred, NoArgument, DispatchDone, Commit, DisplayTask, AsyncTask, SetDigit
  <2> QED
    BY <2>1 DEF DisplayFollowsDigit
<1> QED
  BY <1>1, <1>2, PTL DEF SafeSpec

-----------------------------------------------------------------------------
(* What a reply takes.  The batch was planned hint by hint; f[j] is what the
   plan gives to its first j resources.  What is in the reply stays within the
   plan, but for the errors of the deferred resources, which it gives nothing. *)

Planned(f) ==
  /\ f \in [0 .. Len(hints) -> Nat] /\ f[0] = 0
  /\ \A j \in 1 .. Len(hints) : f[j] = f[j - 1] + hints[j].size
  /\ f[Len(hints)] = Budget - left

DeferredUpTo(n) == {k \in 1 .. n : hints[k].deferred}

UsedWithin(f) ==
  pc \in {"dispatch", "commit"} =>
    used <= f[Answered] + ErrorSize * Cardinality(DeferredUpTo(Answered))

WithinPlan == \E f : Planned(f) /\ UsedWithin(f)

(* No result takes less than an error, so that an error fits where a result
   was planned. *)
LEMMA ErrorFits ==
  ASSUME NEW uri \in Uris, NEW kind \in Kinds, ~reply_size_hint(uri, kind).deferred
  PROVE  ErrorSize <= reply_size_hint(uri, kind).size
BY DispatchAssumption DEF reply_size_hint, Immediate, Refused, Deferred, Uris, Kinds

(* A set of numbers up to n is finite. *)
LEMMA DeferredFinite ==
  ASSUME NEW n \in Nat
  PROVE  IsFiniteSet(DeferredUpTo(n)) /\ Cardinality(DeferredUpTo(n)) \in Nat
<1>1. IsFiniteSet(1 .. n) /\ DeferredUpTo(n) \subseteq 1 .. n
  BY FS_Interval DEF DeferredUpTo
<1>2. IsFiniteSet(DeferredUpTo(n))
  BY <1>1, FS_Subset
<1> QED
  BY <1>2, FS_CardinalityType

(* A resource puts no more into the reply than was planned for it, or an error
   if it is deferred; or the dispatch is over. *)
LEMMA UsedGrows ==
  ASSUME IInv, Execute
  PROVE  \/ pc' = "done"
         \/ /\ pc' = "dispatch"
            /\ Hint.deferred => used' <= used + ErrorSize
            /\ ~Hint.deferred => used' <= used + Hint.size
<1>1. /\ pc = "dispatch" /\ exec \in 1 .. Len(ev.uris)
      /\ Hint = reply_size_hint(ev.uris[exec], ev.kind) /\ Hint \in Hints
  BY ExecuteOne, HintInPlace DEF ExecutesOne
<1>2. /\ ~Hint.deferred => ErrorSize <= Hint.size
      /\ Hint.refused => ~Hint.deferred
      /\ Hint.deferred => Hint.size = 0
      /\ Hint.size \in Nat
  <2>1. ev.uris[exec] \in Uris /\ ev.kind \in Kinds
    BY <1>1, EventType DEF IInv, TypeOK
  <2> QED
    BY <1>1, <2>1, ErrorFits, HintType DEF Hints
<1>3. used \in Nat /\ ErrorSize \in Nat
  BY DispatchAssumption DEF IInv, TypeOK
<1>4. CASE ExecuteDeferred
  BY <1>1, <1>3, <1>4 DEF ExecuteDeferred, reply
<1>5. CASE ~ExecuteDeferred
  <2>1. PICK ok \in BOOLEAN, size \in {ErrorSize, Hint.size} : Put(ok, size)
    BY <1>5 DEF Execute, AnswerRefused, AnswerRead, ExecuteCall, ExecuteWrite, NoArgument
  <2>2. \/ pc' = "done"
        \/ pc' = "dispatch" /\ used' = used + size
    BY <2>1, <1>1 DEF Put, Fail
  <2> QED
    BY <2>1, <2>2, <1>2, <1>3
<1> QED
  BY <1>4, <1>5

(* One more resource is within the plan if the ones before it are. *)
LEMMA ExecuteWithin ==
  ASSUME IInv, WithinPlan, Execute
  PROVE  WithinPlan'
<1>1. PICK f : Planned(f) /\ UsedWithin(f)
  BY DEF WithinPlan
<1>2. /\ pc = "dispatch" /\ Answered < Len(hints) /\ exec' = exec + 1
      /\ UNCHANGED <<look, hints, left>>
  BY ExecuteOne DEF ExecutesOne
<1> DEFINE n == Answered
<1>3. /\ n \in Nat /\ n + 1 \in 1 .. Len(hints) /\ Answered' = n + 1 /\ Len(hints) \in Nat
  <2>1. /\ look \in Int /\ exec \in Int /\ Len(hints) \in Nat /\ Answered >= 0
    BY <1>2 DEF IInv, TypeOK, ExecPlace, BatchStart, Answered
  <2> QED
    BY <1>2, <2>1 DEF Answered
<1>4. Hint = hints[n + 1] /\ Hint.size \in Nat /\ Hint.deferred \in BOOLEAN
  BY <1>2, HintInPlace DEF Hint, Hints
<1>5. /\ f[n] \in Nat /\ f[n + 1] = f[n] + Hint.size
  <2>1. n \in 0 .. Len(hints) /\ n + 1 - 1 = n
    BY <1>3
  <2> QED
    BY <1>1, <1>3, <1>4, <2>1 DEF Planned
<1>6. Planned(f)'
  BY <1>1, <1>2 DEF Planned
<1>7. CASE pc' = "done"
  BY <1>6, <1>7 DEF WithinPlan, UsedWithin
<1>8. CASE pc' = "dispatch"
  <2> DEFINE c == Cardinality(DeferredUpTo(n))
             d == Cardinality(DeferredUpTo(n + 1))
  <2>1. /\ c \in Nat /\ IsFiniteSet(DeferredUpTo(n)) /\ ErrorSize \in Nat
        /\ used \in Nat /\ used' \in Nat
    BY <1>2, <1>3, DeferredFinite, ExecuteType, DispatchAssumption DEF IInv, TypeOK
  <2>2. used <= f[n] + ErrorSize * c
    BY <1>1, <1>2 DEF UsedWithin
  <2>3. Cardinality(DeferredUpTo(Answered))' = d
    BY <1>2, <1>3 DEF DeferredUpTo
  <2>4. CASE Hint.deferred
    <3>1. DeferredUpTo(n + 1) = DeferredUpTo(n) \cup {n + 1} /\ n + 1 \notin DeferredUpTo(n)
      BY <1>3, <1>4, <2>4 DEF DeferredUpTo
    <3>2. d = c + 1
      BY <3>1, <2>1, FS_AddElement
    <3>3. used' <= used + ErrorSize
      BY <1>8, <2>4, UsedGrows
    <3>4. ErrorSize * d = ErrorSize * c + ErrorSize /\ ErrorSize * c \in Nat
      BY <3>2, <2>1
    <3>5. used' <= f[n + 1] + ErrorSize * d
      <4> HIDE DEF n, c, d
      <4> QED
        BY <3>3, <3>4, <2>1, <2>2, <1>4, <1>5
    <3> QED
      BY <3>5, <2>3, <1>3, <1>6 DEF WithinPlan, UsedWithin
  <2>5. CASE ~Hint.deferred
    <3>1. DeferredUpTo(n + 1) = DeferredUpTo(n)
      BY <1>3, <1>4, <2>5 DEF DeferredUpTo
    <3>2. used' <= used + Hint.size
      BY <1>8, <2>5, UsedGrows
    <3>3. ErrorSize * c \in Nat /\ d = c
      BY <2>1, <3>1
    <3>4. used' <= f[n + 1] + ErrorSize * d
      <4> HIDE DEF n, c, d
      <4> QED
        BY <3>2, <3>3, <2>1, <2>2, <1>4, <1>5
    <3> QED
      BY <3>4, <2>3, <1>3, <1>6 DEF WithinPlan, UsedWithin
  <2> QED
    BY <2>4, <2>5
<1> QED
  BY <1>2, <1>7, <1>8, UsedGrows

(* The lookahead adds what it takes to the plan. *)
LEMMA TakeWithin ==
  ASSUME IInv, WithinPlan, Take
  PROVE  WithinPlan'
<1>1. PICK f : Planned(f)
  BY DEF WithinPlan
<1> DEFINE n == Len(hints)
           g == [j \in 0 .. n + 1 |-> IF j <= n THEN f[j] ELSE f[n] + Peeked.size]
<1>2. /\ n \in Nat /\ Peeked \in Hints /\ Peeked.size \in Nat /\ left \in Nat /\ Budget \in Nat
  <2>1. Peeked \in Hints
    BY PeekedType DEF Take
  <2>2. hints \in Seq(Hints) /\ left \in 0 .. Budget /\ Budget \in Nat
    BY DispatchAssumption DEF IInv, TypeOK
  <2> QED
    BY <2>1, <2>2 DEF Hints
<1>3. /\ pc' = "lookahead" /\ left' = left - Peeked.size
      /\ Len(hints') = n + 1 /\ hints'[n + 1] = Peeked
      /\ \A j \in 1 .. n : hints'[j] = hints[j]
  BY <1>2 DEF Take, IInv, TypeOK
<1>4. /\ f \in [0 .. n -> Nat] /\ f[0] = 0 /\ f[n] = Budget - left
      /\ \A j \in 1 .. n : f[j] = f[j - 1] + hints[j].size
  BY <1>1 DEF Planned
<1> HIDE DEF n
<1>5. /\ 0 \in 0 .. n /\ n \in 0 .. n /\ n + 1 \in 0 .. n + 1 /\ ~(n + 1 <= n)
      /\ 0 \in 0 .. n + 1 /\ n \in 0 .. n + 1
  BY <1>2
<1>6. f[n] \in Nat
  BY <1>4, <1>5
<1>7. \A j \in 0 .. n : g[j] = f[j]
  BY <1>2
<1>8. g[n + 1] = f[n] + Peeked.size
  BY <1>5
<1>9. g \in [0 .. n + 1 -> Nat]
  <2>1. \A j \in 0 .. n + 1 : j <= n => j \in 0 .. n
    BY <1>2
  <2> QED
    BY <2>1, <1>2, <1>4, <1>6
<1>10. PICK h : h = g
  OBVIOUS
<1> HIDE DEF g
<1>11. ASSUME NEW j \in 1 .. n + 1
       PROVE  g[j] = g[j - 1] + hints'[j].size
  <2>1. CASE j \in 1 .. n
    <3>1. j \in 0 .. n /\ j - 1 \in 0 .. n
      BY <2>1, <1>2
    <3> QED
      BY <2>1, <3>1, <1>3, <1>4, <1>7
  <2>2. CASE j = n + 1
    <3>1. j - 1 = n
      BY <2>2, <1>2
    <3> QED
      BY <2>2, <3>1, <1>3, <1>5, <1>7, <1>8
  <2> QED
    BY <2>1, <2>2, <1>2
<1>12. g[n + 1] = Budget - left'
  BY <1>2, <1>3, <1>4, <1>8
<1>13. Planned(h)'
  BY <1>3, <1>4, <1>5, <1>7, <1>9, <1>11, <1>12, <1>10 DEF Planned
<1>14. UsedWithin(h)'
  BY <1>3 DEF UsedWithin
<1> QED
  BY <1>13, <1>14 DEF WithinPlan

(* An empty batch is planned with an empty reply. *)
LEMMA EmptyPlan ==
  ASSUME hints = <<>>, left = Budget
  PROVE  Planned([j \in 0 .. 0 |-> 0])
BY DispatchAssumption DEF Planned

(* The other steps keep the plan, or start a new one with an empty reply. *)
LEMMA RestWithin ==
  ASSUME IInv, WithinPlan, [Next]_vars, ~Execute, ~Take
  PROVE  WithinPlan'
<1>1. PICK f : Planned(f) /\ UsedWithin(f)
  BY DEF WithinPlan
<1>2. CASE Unsupported \/ Commit
  <2>1. RoundEnds
    BY <1>2, UnsupportedIInv, CommitIInv
  <2>2. CASE hints' = <<>> /\ left' = Budget /\ pc' = "lookahead"
    <3>1. Planned([j \in 0 .. 0 |-> 0])'
      BY <2>2, DispatchAssumption DEF Planned
    <3> QED
      BY <2>2, <3>1 DEF WithinPlan, UsedWithin
  <2>3. CASE UNCHANGED <<hints, left>> /\ pc' = "done"
    <3>1. Planned(f)'
      BY <1>1, <2>3 DEF Planned
    <3> QED
      BY <2>3, <3>1 DEF WithinPlan, UsedWithin
  <2> QED
    BY <2>1, <2>2, <2>3 DEF RoundEnds
<1>3. CASE Grant
  <2>1. /\ pc = "grant" /\ used' = 0 /\ UNCHANGED <<exec, look, hints, left>>
        /\ exec = BatchStart
    BY <1>3 DEF Grant, batch, IInv, ExecPlace, Supported
  <2>2. Answered' = 0
    BY <2>1 DEF Answered, BatchStart, IInv, TypeOK
  <2>3. Planned(f)' /\ f[0] = 0
    BY <1>1, <2>1 DEF Planned
  <2>4. /\ ErrorSize \in Nat /\ Cardinality(DeferredUpTo(0)) = 0
        /\ DeferredUpTo(Answered)' = DeferredUpTo(0)
    <3>1. DeferredUpTo(0) = {} /\ DeferredUpTo(Answered)' = {}
      BY <2>2 DEF DeferredUpTo
    <3> QED
      BY <3>1, FS_EmptySet, DispatchAssumption
  <2>5. ErrorSize * Cardinality(DeferredUpTo(Answered))' = 0
    BY <2>4
  <2>6. UsedWithin(f)'
    BY <2>1, <2>2, <2>3, <2>5 DEF UsedWithin
  <2> QED
    BY <2>3, <2>6 DEF WithinPlan
<1>4. CASE NothingTaken \/ GrantFails \/ StopLooking
  <2>1. UNCHANGED <<hints, left>> /\ pc' \in {"grant", "done"}
    BY <1>4 DEF NothingTaken, GrantFails, StopLooking, Fail, batch
  <2>2. Planned(f)' /\ UsedWithin(f)'
    BY <1>1, <2>1 DEF Planned, UsedWithin
  <2> QED
    BY <2>2 DEF WithinPlan
<1>5. CASE DispatchDone \/ DisplayTask \/ AsyncTask \/ UNCHANGED vars
  <2>1. /\ UNCHANGED <<look, exec, hints, left, used>>
        /\ pc' = pc \/ (pc = "dispatch" /\ pc' = "commit")
    BY <1>5 DEF DispatchDone, DisplayTask, AsyncTask, vars, batch, reply
  <2>2. Planned(f)' /\ UsedWithin(f)'
    BY <1>1, <2>1 DEF Planned, UsedWithin, Answered, DeferredUpTo
  <2> QED
    BY <2>2 DEF WithinPlan
<1> QED
  BY <1>2, <1>3, <1>4, <1>5 DEF Next, Execute

LEMMA WithinPlanInvariant == SafeSpec => []WithinPlan
<1>1. Init => WithinPlan
  <2> SUFFICES ASSUME Init PROVE WithinPlan
    OBVIOUS
  <2>1. Planned([j \in 0 .. 0 |-> 0])
    BY EmptyPlan DEF Init
  <2> QED
    BY <2>1 DEF WithinPlan, UsedWithin, Init
<1>2. IInv /\ WithinPlan /\ [Next]_vars => WithinPlan'
  BY ExecuteWithin, TakeWithin, RestWithin
<1> QED
  BY <1>1, <1>2, InvariantThm, PTL DEF SafeSpec

(* Whatever the sizes, a reply takes more than its budget only by the errors of
   deferred calls that were given no argument. *)
THEOREM BudgetThm == SafeSpec => []OverBudgetOnlyByDeferred
<1>1. IInv /\ WithinPlan => OverBudgetOnlyByDeferred
  <2> SUFFICES ASSUME IInv, WithinPlan, pc = "commit" PROVE OverBudgetOnlyByDeferred
    BY DEF OverBudgetOnlyByDeferred
  <2>1. PICK f : Planned(f) /\ UsedWithin(f)
    BY DEF WithinPlan
  <2> DEFINE n == Len(hints)
             c == Cardinality(DeferredUpTo(n))
  <2>2. n \in Nat /\ Answered = n
    BY DEF IInv, TypeOK, ExecPlace, Answered
  <2>3. f[n] = Budget - left /\ left \in Nat /\ Budget \in Nat /\ used \in Nat
    BY <2>1, DispatchAssumption DEF Planned, IInv, TypeOK
  <2>4. ErrorSize * c \in Nat
    <3>1. c \in Nat
      BY <2>2, DeferredFinite
    <3> QED
      BY <3>1, DispatchAssumption
  <2>5. used <= f[n] + ErrorSize * c
    BY <2>1, <2>2 DEF UsedWithin
  <2>6. DOMAIN hints \ Immediates = DeferredUpTo(n)
    BY DEF IInv, TypeOK, Immediates, DeferredUpTo, Hints
  <2>7. used <= Budget + ErrorSize * c
    <3> HIDE DEF n, c
    <3> QED
      BY <2>3, <2>4, <2>5
  <2> QED
    BY <2>6, <2>7 DEF OverBudgetOnlyByDeferred
<1> QED
  BY <1>1, InvariantThm, WithinPlanInvariant, PTL

-----------------------------------------------------------------------------
(* XpiDispatch implements Answering *)

OwedSet     == {u \in DOMAIN ev.uris : Owed(u)}
AnswersSent == [n \in DOMAIN sent |-> Answers(n)]
Status      == IF pc # "done" THEN "busy" ELSE IF Ended THEN "ok" ELSE "failed"

(* The end of a round is the abstract Round for the batch it ends. *)
LEMMA RoundRefines ==
  ASSUME IInv, Unsupported \/ Commit
  PROVE  A!Next
<1>1. RoundEnds
  BY UnsupportedIInv, CommitIInv
<1>2. /\ Dealt = BatchStart /\ Dealt' = look /\ BatchStart < look
      /\ BatchStart \in Int /\ BatchStart >= 1 /\ look \in Int
      /\ look \in 1 .. Len(ev.uris) + 1 /\ Len(ev.uris) \in Nat
      /\ Rounds = batches - 1 /\ Rounds' = batches
      /\ batches \in 1 .. MAX_REPLY_BATCHES /\ MAX_REPLY_BATCHES \in Nat
  <2>1. BatchStart \in Int /\ BatchStart >= 1 /\ look \in Int /\ Len(ev.uris) \in Nat
    BY EventType DEF IInv, TypeOK, HintsMatch, BatchStart
  <2> QED
    BY <2>1, <1>1, RoundEndsLeaves, DispatchAssumption
<1>3. look - 1 \in Dealt .. Len(ev.uris) /\ Dealt' = look - 1 + 1
      /\ Rounds < MAX_REPLY_BATCHES /\ Rounds' = Rounds + 1
  BY <1>2
<1>4. /\ Status = "busy" /\ Status' \in {"busy", "ok"}
      /\ Status' = "busy" => Rounds' < MAX_REPLY_BATCHES
      /\ Status' = "ok" => Dealt' > Len(ev.uris) \/ Rounds' = MAX_REPLY_BATCHES
  <2>1. outcome' = "Ok"
    BY <1>1 DEF RoundEnds, IInv, StopReason
  <2> QED
    BY <1>1, <1>2, <2>1 DEF RoundEnds, Status, Ended, IInv, StopReason
<1>5. UNCHANGED <<Len(ev.uris), OwedSet>> /\ \A u : Owed(u)' = Owed(u)
  BY <1>1 DEF RoundEnds, OwedSet, Owed, Supported
<1>6. \/ /\ \E S \in (SUBSET (Dealt .. look - 1)) \ {{}} :
              /\ OwedSet \intersect (Dealt .. look - 1) \subseteq S
              /\ AnswersSent' = Append(AnswersSent, S)
      \/ /\ OwedSet \intersect (Dealt .. look - 1) = {}
         /\ AnswersSent' = AnswersSent
  <2>1. CASE Unsupported
    <3>1. sent' = sent /\ \A u : ~Owed(u)
      BY <2>1 DEF Unsupported, Owed, Supported
    <3> QED
      BY <3>1 DEF OwedSet, AnswersSent, Answers
  <2>2. CASE Commit /\ Immediates = {}
    <3>1. sent' = sent
      BY <2>2 DEF Commit
    <3>2. ASSUME NEW u \in Dealt .. look - 1
          PROVE  ~Owed(u)
      <4>1. /\ u - BatchStart + 1 \in 1 .. Len(hints)
            /\ BatchStart - 1 + (u - BatchStart + 1) = u
        BY <1>2 DEF IInv, TypeOK, BatchStart
      <4>2. hints[u - BatchStart + 1].deferred
        BY <4>1, <2>2 DEF Immediates, IInv, TypeOK
      <4> QED
        BY <4>1, <4>2 DEF IInv, HintsMatch, Owed
    <3> QED
      BY <3>1, <3>2 DEF OwedSet, AnswersSent, Answers
  <2>3. CASE Commit /\ Immediates # {}
    <3> DEFINE S == {results[k].uri : k \in DOMAIN results}
    <3>1. /\ Supported /\ exec = look /\ results \in Seq(Results)
          /\ sent' = Append(sent, [resources |-> ev.uris, results |-> results])
          /\ \A k \in 1 .. Len(results) : results[k].uri \in Dealt .. look - 1
          /\ \A u \in Dealt .. look - 1 :
               Owed(u) => \E k \in 1 .. Len(results) : results[k].uri = u
      BY <2>3, <1>2 DEF Commit, IInv, TypeOK, ExecPlace, ReplySoFar
    <3>2. S \subseteq Dealt .. look - 1 /\ OwedSet \intersect (Dealt .. look - 1) \subseteq S
      BY <3>1 DEF OwedSet
    <3>3. S # {}
      <4>1. PICK k \in 1 .. Len(hints) : ~hints[k].deferred
        BY <2>3 DEF Immediates, IInv, TypeOK
      <4>2. /\ BatchStart - 1 + k \in Dealt .. look - 1
            /\ hints[k] = reply_size_hint(ev.uris[BatchStart - 1 + k], ev.kind)
        BY <1>2 DEF IInv, TypeOK, HintsMatch, BatchStart
      <4>3. Owed(BatchStart - 1 + k)
        BY <3>1, <4>1, <4>2 DEF Owed
      <4>4. PICK j \in 1 .. Len(results) : results[j].uri = BatchStart - 1 + k
        BY <3>1, <4>2, <4>3
      <4>5. j \in DOMAIN results
        BY <3>1
      <4> QED
        BY <4>5
    <3>4. AnswersSent' = Append(AnswersSent, S)
      <4>1. sent \in Seq(Replies) /\ Len(sent) \in Nat /\ DOMAIN sent = 1 .. Len(sent)
        BY DEF IInv, TypeOK
      <4>2. /\ DOMAIN sent' = 1 .. Len(sent) + 1
            /\ \A n \in 1 .. Len(sent) : sent'[n].results = sent[n].results
            /\ sent'[Len(sent) + 1].results = results
        <5>1. [resources |-> ev.uris, results |-> results] \in Replies
          BY <3>1, EventType DEF Replies, IInv, TypeOK
        <5> QED
          BY <3>1, <4>1, <5>1
      <4>3. ASSUME NEW n \in 1 .. Len(sent) + 1
            PROVE  Answers(n)' = IF n <= Len(sent) THEN Answers(n) ELSE S
        <5>1. CASE n <= Len(sent)
          <6>1. n \in 1 .. Len(sent)
            BY <5>1, <4>1
          <6>2. sent'[n].results = sent[n].results
            BY <6>1, <4>2
          <6> QED
            BY <5>1, <6>2 DEF Answers
        <5>2. CASE ~(n <= Len(sent))
          <6>1. n = Len(sent) + 1
            BY <5>2, <4>1
          <6>2. sent'[n].results = results
            BY <6>1, <4>2
          <6> QED
            BY <5>2, <6>2 DEF Answers
        <5> QED
          BY <5>1, <5>2
      <4>4. /\ AnswersSent = [n \in 1 .. Len(sent) |-> Answers(n)]
            /\ AnswersSent' = [n \in 1 .. Len(sent) + 1 |-> Answers(n)']
        BY <4>1, <4>2 DEF AnswersSent
      <4>5. \A n \in 1 .. Len(sent) : Answers(n) \in SUBSET Int
        <5> SUFFICES ASSUME NEW n \in 1 .. Len(sent) PROVE Answers(n) \in SUBSET Int
          OBVIOUS
        <5>1. sent[n] \in Replies
          BY <4>1
        <5>2. DOMAIN sent[n].results = 1 .. Len(sent[n].results)
          BY <5>1 DEF Replies
        <5> QED
          BY <5>2, SentType DEF Answers, IInv
      <4>6. S \in SUBSET Int
        BY <3>2, <1>2
      <4> HIDE DEF S
      <4> QED
        BY <4>1, <4>3, <4>4, <4>5, <4>6, AppendByElement
    <3> HIDE DEF S
    <3>5. S \in (SUBSET (Dealt .. look - 1)) \ {{}}
      BY <3>2, <3>3
    <3> QED
      BY <3>2, <3>4, <3>5
  <2> QED
    BY <2>1, <2>2, <2>3
<1> QED
  BY <1>3, <1>4, <1>5, <1>6
     DEF A!Next, A!Round, OwedSet, AnswersSent, Status

(* Giving the dispatch up is GiveUp, finding nothing to do is Finish; what is
   left goes on inside a round. *)
LEMMA StepRefines ==
  ASSUME IInv, [Next]_vars
  PROVE  [A!Next]_A!vars
<1> USE DEF A!vars
<1>1. CASE Unsupported \/ Commit
  BY <1>1, RoundRefines
<1>2. ASSUME UNCHANGED <<ev, sent>>
      PROVE  UNCHANGED <<Len(ev.uris), OwedSet, AnswersSent>>
  BY <1>2 DEF OwedSet, AnswersSent, Answers, Owed, Supported
<1>3. CASE NothingTaken
  <2>1. /\ Status = "busy" /\ Status' = "ok" /\ Dealt > Len(ev.uris)
        /\ UNCHANGED <<Dealt, Rounds, ev, sent>>
    <3>1. /\ pc = "grant" /\ hints = <<>> /\ pc' = "done" /\ outcome = "Ok"
        /\ UNCHANGED <<outcome, look, hints, batches, ev, sent>>
      BY <1>3 DEF NothingTaken, batch, IInv, StopReason
    <3>2. look = Len(ev.uris) + 1 /\ Len(ev.uris) \in Nat
      BY <3>1, EventType DEF IInv, TypeOK, StopReason
    <3> QED
      BY <3>1, <3>2 DEF Status, Ended, Dealt, Rounds
  <2> QED
    BY <1>2, <2>1 DEF A!Next, A!Finish, Status, OwedSet, AnswersSent
<1>4. CASE GrantFails \/ Execute
  <2>1. /\ pc \in {"grant", "dispatch"} /\ outcome = "Ok"
        /\ UNCHANGED <<look, hints, batches, ev, sent>>
        /\ \/ pc' = pc /\ outcome' = outcome
           \/ pc' = "done" /\ outcome' = "Err"
    BY <1>4, ExecuteOne DEF GrantFails, ExecutesOne, Fail, batch, IInv, StopReason
  <2>2. UNCHANGED <<Dealt, Rounds>>
    BY <2>1 DEF Dealt, Rounds, Ended
  <2>3. Status = "busy" /\ Status' \in {"busy", "failed"}
    BY <2>1 DEF Status, Ended
  <2> QED
    BY <1>2, <2>1, <2>2, <2>3 DEF A!Next, A!GiveUp, Status, OwedSet, AnswersSent
<1>5. CASE Take
  <2>1. /\ pc = "lookahead" /\ pc' = "lookahead" /\ Dealt' = Dealt
        /\ UNCHANGED <<batches, ev, sent>>
    <3>1. look \in Int /\ hints \in Seq(Hints) /\ Peeked \in Hints
      BY <1>5, PeekedType DEF Take, IInv, TypeOK
    <3> QED
      BY <1>5, <3>1 DEF Take, Dealt, Ended
  <2>2. UNCHANGED <<Rounds, Status>>
    BY <2>1 DEF Rounds, Status, Ended
  <2> QED
    BY <1>2, <2>1, <2>2 DEF Status, OwedSet, AnswersSent
<1>6. CASE StopLooking \/ Grant \/ DispatchDone
  <2>1. /\ pc # "done" /\ pc' # "done" /\ UNCHANGED <<look, hints, batches, ev, sent>>
    BY <1>6 DEF StopLooking, Grant, DispatchDone, batch
  <2>2. UNCHANGED <<Dealt, Rounds, Status>>
    BY <2>1 DEF Dealt, Rounds, Status, Ended
  <2> QED
    BY <1>2, <2>1, <2>2 DEF Status, OwedSet, AnswersSent
<1>7. CASE DisplayTask \/ AsyncTask \/ UNCHANGED vars
  <2>1. UNCHANGED <<pc, outcome, look, hints, batches, ev, sent>>
    BY <1>7 DEF DisplayTask, AsyncTask, vars, batch
  <2>2. UNCHANGED <<Dealt, Rounds, Status>>
    BY <2>1 DEF Dealt, Rounds, Status, Ended
  <2> QED
    BY <1>2, <2>1, <2>2 DEF Status, OwedSet, AnswersSent
<1> QED
  BY <1>1, <1>3, <1>4, <1>5, <1>6, <1>7 DEF Next, Execute

(* Lookahead, hints, budget, iterators and arguments together do what Answering
   promises: every resource dealt with once, in order, in bounded rounds. *)
THEOREM RefinementThm == SafeSpec => ImplementsAnswering
<1>1. Init => A!Init
  <2> SUFFICES ASSUME Init PROVE A!Init
    OBVIOUS
  <2>1. /\ Len(ev.uris) \in 0 .. MaxUris /\ DOMAIN ev.uris = 1 .. Len(ev.uris)
        /\ DOMAIN sent = {} /\ Dealt = 1 /\ Rounds = 0
    BY EventType DEF Init, Dealt, Rounds, Ended
  <2> QED
    BY <2>1 DEF Init, A!Init, Ended
<1>2. IInv /\ [Next]_vars => [A!Next]_A!vars
  BY StepRefines
<1> QED
  BY InvariantThm, <1>1, <1>2, PTL DEF SafeSpec, ImplementsAnswering, A!SafeSpec
=============================================================================
