----------------------------- MODULE XpiDispatch -----------------------------
(***************************************************************************)
(* xpi_dispatch of ecbridge_fw: one event with a set of resources is       *)
(* answered in batches.  For each batch a lookahead iterator takes the     *)
(* resources whose replies fit, a reply is granted and built, an execution *)
(* iterator goes over the same resources again to call, write or read      *)
(* them, and the reply is committed.                                       *)
(*                                                                         *)
(* A resource is named by its place in the resource set; sizes are in      *)
(* nibbles, as in the code.  That grant_exact finds no room, or that the   *)
(* serializer runs out of room, is a choice: neither is decided here, and  *)
(* the resource set itself, of any size, is not part of the budget.        *)
(***************************************************************************)
EXTENDS Integers, Sequences, FiniteSets

CONSTANTS MAX_REPLY_BATCH_LEN,   \* xpi_dispatch.rs:44 (16 there)
          MAX_REPLY_BATCHES,     \* xpi_dispatch.rs:45 (8 there)
          Budget,                \* nibbles for results in a reply (96 there)
          ErrorSize,             \* nibbles of an error result
          MaxUris,               \* bound of the resource set
          MaxArgs                \* bound of the argument set

(* An empty reply has room for each result; an error takes no more than the
   smallest of them. *)
ASSUME DispatchAssumption ==
  /\ {MAX_REPLY_BATCH_LEN, MAX_REPLY_BATCHES} \subseteq Nat \ {0}
  /\ {Budget, MaxUris, MaxArgs} \subseteq Nat
  /\ Budget >= 11 /\ ErrorSize \in 1 .. 3

Kinds == {"Call", "Write", "Read", "Subscribe"}
Uris  == {"/", "/digit", "/sync", "/async", "/unknown"}

UriSets == UNION {[1 .. n -> Uris] : n \in 0 .. MaxUris}
Events  == [kind : Kinds, uris : UriSets, args : 0 .. MaxArgs]

(* reply_size_hint: what the reply about a resource will take, decided before
   anything is executed. *)
Immediate(size) == [deferred |-> FALSE, refused |-> FALSE, size |-> size]
Refused         == [deferred |-> FALSE, refused |-> TRUE, size |-> ErrorSize]
Deferred        == [deferred |-> TRUE, refused |-> FALSE, size |-> 0]
Hints == [deferred : BOOLEAN, refused : BOOLEAN, size : Nat]

reply_size_hint(uri, kind) ==
  CASE uri = "/digit" /\ kind = "Write" -> Immediate(3)
    [] uri = "/digit" /\ kind = "Read"  -> Immediate(5)
    [] uri = "/sync"  /\ kind = "Call"  -> Immediate(11)
    [] uri = "/async" /\ kind = "Call"  -> Deferred
    [] OTHER -> Refused

VARIABLES
  ev,        \* the event
  pc,        \* where the dispatch is
  look,      \* what resource_set_lookahead_uri_iter gives next
  exec,      \* what resource_set_execute_uri_iter gives next
  arg,       \* what args_set_iter gives next
  batches,   \* rounds begun of `for _ in 0..MAX_REPLY_BATCHES`
  hints,     \* reply_lookahead[..batch_len]
  left,      \* reply_nibbles_left
  ran_out,   \* run_out_of_requests
  results,   \* the results in the reply being built
  used,      \* nibbles of them
  sent,      \* the replies committed: the resources named, the results
  given,     \* history: which argument each executed resource was given
  outcome,   \* "Ok", or "Err": the `?` that ended it
  digit,     \* the shared resource: 0, or the number of the argument written last
  display,   \* display_task is spawned
  shown,     \* the digit on the display
  async      \* async_task is spawned

batch == <<hints, left, ran_out>>
reply == <<results, used>>
tasks == <<digit, display, shown, async>>
vars  == <<ev, pc, look, exec, arg, batches, batch, reply, sent, given, outcome, tasks>>

Result(uri, ok) == [uri |-> uri, ok |-> ok]
Results == [uri : 1 .. MaxUris, ok : BOOLEAN]
Replies == [resources : UriSets, results : Seq(Results)]

Immediates == {k \in DOMAIN hints : ~hints[k].deferred}

TypeOK ==
  /\ ev \in Events
  /\ pc \in {"lookahead", "grant", "dispatch", "commit", "done"}
  /\ look \in 1 .. MaxUris + 1 /\ exec \in 1 .. MaxUris + 1 /\ arg \in 1 .. MaxArgs + 1
  /\ batches \in 1 .. MAX_REPLY_BATCHES
  /\ hints \in Seq(Hints) /\ Len(hints) <= MAX_REPLY_BATCH_LEN
  /\ left \in 0 .. Budget /\ ran_out \in BOOLEAN
  /\ results \in Seq(Results) /\ used \in Nat
  /\ sent \in Seq(Replies) /\ Len(sent) <= MAX_REPLY_BATCHES
  /\ given \in Seq([uri : 1 .. MaxUris, arg : 1 .. MaxArgs])
  /\ outcome \in {"Ok", "Err"}
  /\ digit \in 0 .. MaxArgs /\ shown \in 0 .. MaxArgs
  /\ display \in BOOLEAN /\ async \in BOOLEAN

Init == /\ ev \in Events
        /\ pc = "lookahead" /\ look = 1 /\ exec = 1 /\ arg = 1
        /\ batches = 1
        /\ hints = <<>> /\ left = Budget /\ ran_out = FALSE
        /\ results = <<>> /\ used = 0
        /\ sent = <<>> /\ given = <<>> /\ outcome = "Ok"
        /\ digit = 0 /\ display = FALSE /\ shown = 0 /\ async = FALSE

-----------------------------------------------------------------------------
(* The lookahead: how many resources the next reply answers *)

Peeked == reply_size_hint(ev.uris[look], ev.kind)

(* Mutant: the resource is taken without looking at what is left. *)
TakeAnySize == /\ pc = "lookahead" /\ Len(hints) < MAX_REPLY_BATCH_LEN
               /\ look <= Len(ev.uris)
               /\ look' = look + 1
               /\ hints' = Append(hints, Peeked)
               /\ left' = IF Peeked.size <= left THEN left - Peeked.size ELSE 0
               /\ UNCHANGED <<ev, pc, exec, arg, batches, ran_out, reply, sent, given,
                              outcome, tasks>>

Take == /\ pc = "lookahead" /\ Len(hints) < MAX_REPLY_BATCH_LEN
        /\ look <= Len(ev.uris)
        /\ Peeked.deferred \/ Peeked.size <= left
        /\ look' = look + 1
        /\ hints' = Append(hints, Peeked)
        /\ left' = left - Peeked.size
        /\ UNCHANGED <<ev, pc, exec, arg, batches, ran_out, reply, sent, given,
                       outcome, tasks>>

(* Mutant: next() in place of peek(), which loses the resource that does not fit. *)
StopLookingPast == /\ pc = "lookahead"
                   /\ Len(hints) < MAX_REPLY_BATCH_LEN
                   /\ IF look <= Len(ev.uris)
                      THEN /\ ~Peeked.deferred /\ Peeked.size > left
                           /\ look' = look + 1 /\ UNCHANGED ran_out
                      ELSE ran_out' = TRUE /\ UNCHANGED look
                   /\ pc' = "grant"
                   /\ UNCHANGED <<ev, exec, arg, batches, hints, left, reply,
                                  sent, given, outcome, tasks>>

(* The batch is full, the next reply does not fit, or there is none. *)
StopLooking == /\ pc = "lookahead"
               /\ \/ Len(hints) = MAX_REPLY_BATCH_LEN /\ UNCHANGED ran_out
                  \/ /\ Len(hints) < MAX_REPLY_BATCH_LEN
                     /\ look <= Len(ev.uris)
                     /\ ~Peeked.deferred /\ Peeked.size > left
                     /\ UNCHANGED ran_out
                  \/ /\ Len(hints) < MAX_REPLY_BATCH_LEN
                     /\ look > Len(ev.uris)
                     /\ ran_out' = TRUE
               /\ pc' = "grant"
               /\ UNCHANGED <<ev, look, exec, arg, batches, hints, left, reply,
                              sent, given, outcome, tasks>>

-----------------------------------------------------------------------------
(* One reply *)

Fail == /\ pc' = "done" /\ outcome' = "Err"

(* Mutant: one round too many. *)
NextBatchInclusive == IF batches <= MAX_REPLY_BATCHES
                      THEN /\ pc' = "lookahead"
                           /\ batches' = batches + 1
                           /\ hints' = <<>> /\ left' = Budget /\ ran_out' = FALSE
                      ELSE /\ pc' = "done"
                           /\ UNCHANGED <<batches, batch>>

(* The next round of the loop, or its end. *)
NextBatch == IF batches < MAX_REPLY_BATCHES
             THEN /\ pc' = "lookahead"
                  /\ batches' = batches + 1
                  /\ hints' = <<>> /\ left' = Budget /\ ran_out' = FALSE
             ELSE /\ pc' = "done"
                  /\ UNCHANGED <<batches, batch>>

NothingTaken == /\ pc = "grant" /\ hints = <<>>
                /\ pc' = "done"
                /\ UNCHANGED <<ev, look, exec, arg, batches, batch, reply, sent,
                               given, outcome, tasks>>

(* Mutant: `continue` in place of `?`: the batch is passed over. *)
GrantFailsContinuing ==
  /\ pc = "grant" /\ hints # <<>>
  /\ NextBatch
  /\ UNCHANGED <<ev, look, exec, arg, reply, sent, given, outcome, tasks>>

(* grant_exact, or the header, node set or resource set, does not fit. *)
GrantFails == /\ pc = "grant" /\ hints # <<>>
              /\ Fail
              /\ UNCHANGED <<ev, look, exec, arg, batches, batch, reply, sent, given, tasks>>

(* Mutant: the results of the reply before are kept. *)
GrantKeepingResults == /\ pc = "grant" /\ hints # <<>> /\ ev.kind # "Subscribe"
                       /\ pc' = "dispatch"
                       /\ arg' = 1
                       /\ UNCHANGED <<ev, look, exec, batches, batch, reply, sent, given,
                                      outcome, tasks>>

Grant == /\ pc = "grant" /\ hints # <<>> /\ ev.kind # "Subscribe"
         /\ pc' = "dispatch"
         /\ results' = <<>> /\ used' = 0 /\ arg' = 1
         /\ UNCHANGED <<ev, look, exec, batches, batch, sent, given, outcome, tasks>>

(* `continue`: the grant is dropped, no resource executed, the loop goes on. *)
Unsupported == /\ pc = "grant" /\ hints # <<>> /\ ev.kind = "Subscribe"
               /\ NextBatch
               /\ UNCHANGED <<ev, look, exec, arg, reply, sent, given, outcome, tasks>>

(* Mutant: the error of vb.put is not passed on, and the next resource is executed. *)
PutIgnoringError(ok, size) == \/ /\ results' = Append(results, Result(exec, ok))
                                 /\ used' = used + size
                                 /\ UNCHANGED <<pc, outcome>>
                              \/ UNCHANGED <<pc, outcome, reply>>

(* Put a result into the reply; or there is no room for it and the dispatch
   fails, whatever was executed before. *)
Put(ok, size) == \/ /\ results' = Append(results, Result(exec, ok))
                    /\ used' = used + size
                    /\ UNCHANGED <<pc, outcome>>
                 \/ Fail /\ UNCHANGED reply

Answered == exec - (look - Len(hints))   \* resources of the batch already executed
Hint     == hints[Answered + 1]

Executing == /\ pc = "dispatch" /\ Answered < Len(hints)
             /\ exec' = exec + 1
             /\ UNCHANGED <<ev, look, batches, batch, sent>>

(* The hint was an error already: it is the result, and takes no argument. *)
AnswerRefused == /\ Executing /\ Hint.refused
                 /\ Put(FALSE, ErrorSize)
                 /\ UNCHANGED <<arg, given, tasks>>

AnswerRead == /\ Executing /\ ~Hint.refused /\ ev.kind = "Read"
              /\ Put(TRUE, Hint.size)
              /\ UNCHANGED <<arg, given, tasks>>

(* The next argument is given to the resource. *)
TakeArgument == /\ arg <= ev.args
                /\ arg' = arg + 1
                /\ given' = Append(given, [uri |-> exec, arg |-> arg])

(* sync(), which may reject its argument. *)
ExecuteCall == /\ Executing /\ ~Hint.refused /\ ~Hint.deferred /\ ev.kind = "Call"
               /\ TakeArgument
               /\ Put(TRUE, Hint.size) \/ Put(FALSE, ErrorSize)
               /\ UNCHANGED tasks

(* Mutant: the display is not told. *)
SetDigitOnly == digit' = arg /\ UNCHANGED <<display, shown, async>>

(* dispatch_write: the digit, then display_task::spawn(), which fails when the
   task is already spawned; or the value is rejected. *)
SetDigit == digit' = arg /\ display' = TRUE /\ UNCHANGED <<shown, async>>

ExecuteWrite == /\ Executing /\ ~Hint.refused /\ ev.kind = "Write"
                /\ TakeArgument
                /\ \/ SetDigit /\ Put(TRUE, Hint.size)
                   \/ UNCHANGED tasks /\ Put(FALSE, ErrorSize)

(* async_task::spawn(), or the arguments are rejected: whatever comes of it,
   nothing is put in the reply. *)
ExecuteDeferred == /\ Executing /\ Hint.deferred
                   /\ TakeArgument
                   /\ async' \in {async, TRUE}
                   /\ UNCHANGED <<pc, reply, outcome, digit, display, shown>>

(* NoArgumentsProvided, for an immediate and for a deferred resource alike. *)
NoArgument == /\ Executing /\ ~Hint.refused
              /\ ev.kind \in {"Call", "Write"} /\ arg > ev.args
              /\ Put(FALSE, ErrorSize)
              /\ UNCHANGED <<arg, given, tasks>>

DispatchDone == /\ pc = "dispatch" /\ Answered = Len(hints)
                /\ pc' = "commit"
                /\ UNCHANGED <<ev, look, exec, arg, batches, batch, reply, sent,
                               given, outcome, tasks>>

(* Mutant: one deferred resource keeps the batch from being committed. *)
CommitUnlessDeferred ==
  /\ pc = "commit"
  /\ sent' = IF Immediates # DOMAIN hints THEN sent
             ELSE Append(sent, [resources |-> ev.uris, results |-> results])
  /\ IF ran_out THEN pc' = "done" /\ UNCHANGED <<batches, batch>>
                ELSE NextBatch
  /\ UNCHANGED <<ev, look, exec, arg, reply, given, outcome, tasks>>

(* The reply names the whole resource set.  With only deferred resources in the
   batch it is not committed. *)
Commit == /\ pc = "commit"
          /\ sent' = IF Immediates = {} THEN sent
                     ELSE Append(sent, [resources |-> ev.uris, results |-> results])
          /\ IF ran_out THEN pc' = "done" /\ UNCHANGED <<batches, batch>>
                        ELSE NextBatch
          /\ UNCHANGED <<ev, look, exec, arg, reply, given, outcome, tasks>>

(* The tasks that were spawned run at the priority of the dispatch, after it. *)
DisplayTask == /\ pc = "done" /\ display
               /\ display' = FALSE /\ shown' = digit
               /\ UNCHANGED <<ev, pc, look, exec, arg, batches, batch, reply, sent,
                              given, outcome, digit, async>>

AsyncTask == /\ pc = "done" /\ async
             /\ async' = FALSE
             /\ UNCHANGED <<ev, pc, look, exec, arg, batches, batch, reply, sent,
                            given, outcome, digit, display, shown>>

Next == \/ Take \/ StopLooking
        \/ NothingTaken \/ GrantFails \/ Grant \/ Unsupported
        \/ AnswerRefused \/ AnswerRead \/ ExecuteCall \/ ExecuteWrite \/ ExecuteDeferred
        \/ NoArgument \/ DispatchDone \/ Commit
        \/ DisplayTask \/ AsyncTask

SafeSpec == Init /\ [][Next]_vars

-----------------------------------------------------------------------------
(* Properties *)

Supported == ev.kind # "Subscribe"

(* The two iterators stay in step over every batch, so that no
   resource_set_execute_uri_iter.next().expect("") panics, and each hint is
   used for the resource it was computed for. *)
IteratorsInStep ==
  /\ Supported /\ pc = "lookahead" => exec = look - Len(hints)
  /\ pc = "dispatch" =>
       /\ Answered >= 0
       /\ Answered < Len(hints) =>
            /\ exec <= Len(ev.uris)
            /\ Hint = reply_size_hint(ev.uris[exec], ev.kind)

(* Over all its replies an event is answered in the order of its resources and
   nothing is answered twice. *)
AnsweredInOrder ==
  \A m, n \in DOMAIN sent :
    \A j \in DOMAIN sent[m].results, k \in DOMAIN sent[n].results :
      m < n \/ (m = n /\ j < k)
        => sent[m].results[j].uri < sent[n].results[k].uri

Owed(u)   == Supported /\ ~reply_size_hint(ev.uris[u], ev.kind).deferred
Answers(n) == {sent[n].results[k].uri : k \in DOMAIN sent[n].results}

(* A dispatch that ends well has answered every immediate resource it took, and
   has left some out only after MAX_REPLY_BATCHES replies. *)
AnsweredIfOk ==
  pc = "done" /\ outcome = "Ok" =>
    /\ \A u \in 1 .. look - 1 : Owed(u) => \E n \in DOMAIN sent : u \in Answers(n)
    /\ look <= Len(ev.uris) => batches = MAX_REPLY_BATCHES

(* A dispatch that fails loses the answers to what it executed of one batch, and
   to nothing else: what was executed and is owed an answer it has not got is no more
   than a batch can hold, comes after all that was answered, and is none when the
   dispatch ends well.  And what is answered as done has been done. *)
Executed   == {given[k].uri : k \in DOMAIN given}
Unanswered == {u \in Executed : Owed(u) /\ \A n \in DOMAIN sent : u \notin Answers(n)}
OneBatchLostAtMost ==
  /\ Cardinality(Unanswered) <= MAX_REPLY_BATCH_LEN
  /\ \A n \in DOMAIN sent : \A v \in Answers(n), u \in Unanswered : v < u
  /\ pc = "done" /\ outcome = "Ok" => Unanswered = {}
  /\ \A n \in DOMAIN sent : \A k \in DOMAIN sent[n].results :
       sent[n].results[k].ok /\ ev.kind \in {"Call", "Write"}
         => sent[n].results[k].uri \in Executed

(* A reply takes more than its budget only by the errors of deferred calls that
   were given no argument. *)
OverBudgetOnlyByDeferred ==
  pc = "commit" =>
    used <= Budget + ErrorSize * Cardinality(DOMAIN hints \ Immediates)

(* What was written is on the display or will be, also when several writes, or
   one before the dispatch fails, share one display_task. *)
DisplayFollowsDigit == display \/ shown = digit

(* What is left of the batches once the iterators, the hints and the arguments
   are taken away: a batch is dealt with when it is committed or skipped. *)
Ended  == pc = "done" /\ outcome = "Ok"
Dealt  == IF Ended THEN look ELSE look - Len(hints)    \* the next resource to deal with
Rounds == IF Ended /\ hints # <<>> THEN batches ELSE batches - 1
A == INSTANCE Answering WITH
       MaxRounds <- MAX_REPLY_BATCHES, MaxResources <- MaxUris,
       total     <- Len(ev.uris),
       owed      <- {u \in DOMAIN ev.uris : Owed(u)},
       next      <- Dealt,
       rounds    <- Rounds,
       replies   <- [n \in DOMAIN sent |-> Answers(n)],
       status    <- IF pc # "done" THEN "busy" ELSE IF Ended THEN "ok" ELSE "failed"

(* Each step of the dispatch is one that Answering allows, or none there: no
   batch is skipped, split, sent empty, or sent after one that failed. *)
ImplementsAnswering == A!SafeSpec

(* Step 3 of the comment at xpi_dispatch.rs:36-42, "serialize resource subset
   into it": when nothing is deferred, a reply names as many resources as it has
   results, and not those of the other replies. *)
NothingDeferred ==
  \A u \in DOMAIN ev.uris : ~reply_size_hint(ev.uris[u], ev.kind).deferred
RepliesNameTheirSubset ==
  NothingDeferred =>
    \A n \in DOMAIN sent : Len(sent[n].resources) = Len(sent[n].results)

(* Steps 4 and 6 of it, "advance builder to args_set state and dispatch every
   call", "repeat until all calls are processed": the argument set is gone
   through once, no argument is given to two resources. *)
ArgumentsGivenOnce ==
  \A j, k \in DOMAIN given : j # k => given[j].arg # given[k].arg

(* "async replies do not consume any space from this batch", xpi_dispatch.rs:79:
   what a batch puts in its reply stays within the budget it was planned for. *)
DeferredTakesNoSpace == pc = "commit" => used <= Budget
=============================================================================
