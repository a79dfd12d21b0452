------------------------------ MODULE PollTimer ------------------------------
(***************************************************************************)
(* How ecbridge_fw/src/ethernet.rs keeps smoltcp polled: the loop of       *)
(* ethernet_event (at most MAX_ITERATIONS polls, each followed by poll_at),*)
(* then arming, moving or cancelling the software task smoltcp_poll_at     *)
(* through the handle kept in the shared resource poll_at_handle.          *)
(*                                                                         *)
(* The RTIC runtime is modelled from its use: smoltcp_poll_at has one slot *)
(* (main.rs declares no capacity, so 1), which is free, in the timer queue *)
(* or in the ready queue; a handle names a timer-queue entry by a marker   *)
(* that wraps; SysTick has the highest priority and may move an expired    *)
(* entry to the ready queue between any two steps of ethernet_event;       *)
(* ethernet_event and smoltcp_poll_at have the same priority and never     *)
(* preempt each other, and either may run first when both are pending.     *)
(***************************************************************************)
EXTENDS Naturals

CONSTANTS MAX_ITERATIONS,  \* ethernet.rs:201 (5 there)
          MARKERS,         \* number of marker values before they wrap (2^32)
          MaxTime,         \* bound of the clock and of the instants advised
          None

ASSUME IterationsAssumption == MAX_ITERATIONS \in Nat \ {0}
ASSUME MarkersAssumption    == MARKERS \in Nat \ {0}
ASSUME TimeAssumption       == MaxTime \in Nat \ {0}

Instants == 1 .. MaxTime
Handles  == [at : Instants, marker : 0 .. MARKERS - 1]

ASSUME NoneAssumption == None \notin Nat /\ None \notin Handles

VARIABLES
  now,             \* monotonics::now()
  tq,              \* timer-queue entries of smoltcp_poll_at
  free,            \* free slots of smoltcp_poll_at
  ready,           \* smoltcp_poll_at in the dispatcher's ready queue
  marker,          \* the marker the next spawn_at or reschedule_at uses
  poll_at_handle,  \* the shared resource: Option<PollAtHandle>
  eth_pending,     \* the ETH interrupt is pending in the NVIC
  pc,              \* where ethernet_event is ("idle": not running)
  i,               \* its loop counter
  poll_at_advice,  \* its local of that name
  handle,          \* its local copy of poll_at_handle
  advised          \* history: what poll_at() answered last, 0 for "now"

rtic == <<tq, free, ready, marker>>
vars == <<now, tq, free, ready, marker, poll_at_handle, eth_pending,
          pc, i, poll_at_advice, handle, advised>>

Now == 0   \* the instant poll_at() answers for "poll immediately"

TypeOK == /\ now \in 0 .. MaxTime
          /\ tq \subseteq Handles
          /\ free \in 0 .. 1
          /\ ready \in 0 .. 1
          /\ marker \in 0 .. MARKERS - 1
          /\ poll_at_handle \in Handles \union {None}
          /\ eth_pending \in BOOLEAN
          /\ pc \in {"idle", "poll", "take", "arm", "store"}
          /\ i \in 0 .. MAX_ITERATIONS - 1
          /\ poll_at_advice \in Instants \union {None}
          /\ handle \in Handles \union {None}
          /\ advised \in Instants \union {Now, None}

(* init() leaves the handle None and ends by pending ETH. *)
Init == /\ now = 0
        /\ tq = {} /\ free = 1 /\ ready = 0 /\ marker = 0
        /\ poll_at_handle = None
        /\ eth_pending = TRUE
        /\ pc = "idle" /\ i = 0 /\ poll_at_advice = None /\ handle = None
        /\ advised = None

-----------------------------------------------------------------------------
(* The RTIC runtime *)

(* Mutant: the marker does not wrap. *)
MarkerPlusOne == marker + 1

NextMarker == IF marker + 1 = MARKERS THEN 0 ELSE marker + 1

Entry(at) == [at |-> at, marker |-> marker]

(* Entries with the marker of handle h: update_marker and cancel_marker look
   for this and for nothing else. *)
Armed(h) == {e \in tq : e.marker = h.marker}

(* smoltcp_poll_at::spawn_at(t); fails when the slot is taken. *)
SpawnAt(t) == /\ free > 0
              /\ tq' = tq \union {Entry(t)}
              /\ free' = free - 1
              /\ marker' = NextMarker
              /\ handle' = Entry(t)
              /\ UNCHANGED ready

SpawnFails == /\ free = 0
              /\ handle' = None
              /\ UNCHANGED rtic

(* Mutant: the entry moved keeps the handle it had. *)
RescheduleKeepingHandle(t) ==
  /\ marker' = NextMarker
  /\ \/ /\ Armed(handle) # {}
        /\ tq' = (tq \ Armed(handle)) \union {Entry(t)}
        /\ UNCHANGED handle
     \/ /\ Armed(handle) = {}
        /\ handle' = None
        /\ UNCHANGED tq
  /\ UNCHANGED <<free, ready>>

(* Mutant: a handle whose entry has fired arms a second one. *)
RescheduleFired(t) ==
  /\ marker' = NextMarker
  /\ tq' = (tq \ Armed(handle)) \union {Entry(t)}
  /\ handle' = Entry(t)
  /\ UNCHANGED <<free, ready>>

(* handle.reschedule_at(t): consumes a marker whether or not it succeeds. *)
RescheduleAt(t) ==
  /\ marker' = NextMarker
  /\ \/ /\ Armed(handle) # {}
        /\ tq' = (tq \ Armed(handle)) \union {Entry(t)}
        /\ handle' = Entry(t)
     \/ /\ Armed(handle) = {}
        /\ handle' = None
        /\ UNCHANGED tq
  /\ UNCHANGED <<free, ready>>

(* Mutant: a cancelled entry keeps its slot. *)
CancelLeakingSlot(h) == tq' = tq \ Armed(h) /\ UNCHANGED <<free, ready, marker>>

(* handle.cancel(): gives the slot back, unless the entry has fired. *)
CancelTimer(h) ==
  /\ tq' = tq \ Armed(h)
  /\ free' = IF Armed(h) # {} THEN free + 1 ELSE free
  /\ UNCHANGED <<ready, marker>>

(* SysTick moves an expired entry to the ready queue. *)
SysTick == \E e \in tq :
  /\ e.at <= now
  /\ tq' = tq \ {e}
  /\ ready' = ready + 1
  /\ UNCHANGED <<now, free, marker, poll_at_handle, eth_pending,
                 pc, i, poll_at_advice, handle, advised>>

Tick == /\ now < MaxTime
        /\ now' = now + 1
        /\ UNCHANGED <<rtic, poll_at_handle, eth_pending,
                       pc, i, poll_at_advice, handle, advised>>

-----------------------------------------------------------------------------
(* ethernet_event *)

(* The hardware, or rtic::pend(ETH) in link_process, at any moment. *)
EthInterrupt == /\ ~eth_pending
                /\ eth_pending' = TRUE
                /\ UNCHANGED <<now, rtic, poll_at_handle,
                               pc, i, poll_at_advice, handle, advised>>

EnterEthernetEvent ==
  /\ pc = "idle" /\ eth_pending
  /\ eth_pending' = FALSE
  /\ pc' = "poll" /\ i' = 0 /\ poll_at_advice' = None
  /\ UNCHANGED <<now, rtic, poll_at_handle, handle, advised>>

(* One round of the loop whose poll_at() answers instant 0: `continue`, also
   in the last round, which leaves the loop with the advice still None. *)
PollNow ==
  /\ pc = "poll"
  /\ advised' = Now
  /\ \/ i + 1 < MAX_ITERATIONS /\ i' = i + 1 /\ pc' = "poll"
     \/ i + 1 = MAX_ITERATIONS /\ i' = i /\ pc' = "take"
  /\ UNCHANGED <<now, rtic, poll_at_handle, eth_pending, poll_at_advice, handle>>

(* The instant may already be past: poll() and poll_at() read the clock apart. *)
PollLater == \E t \in Instants :
  /\ pc = "poll"
  /\ advised' = t
  /\ poll_at_advice' = t
  /\ pc' = "take"
  /\ UNCHANGED <<now, rtic, poll_at_handle, eth_pending, i, handle>>

PollNever ==
  /\ pc = "poll"
  /\ advised' = None
  /\ poll_at_advice' = None
  /\ pc' = "take"
  /\ UNCHANGED <<now, rtic, poll_at_handle, eth_pending, i, handle>>

TakeHandle ==
  /\ pc = "take"
  /\ handle' = poll_at_handle
  /\ poll_at_handle' = None
  /\ pc' = "arm"
  /\ UNCHANGED <<now, rtic, eth_pending, i, poll_at_advice, advised>>

(* Mutant: the comparison turned round. *)
ArmExistingLater ==
  /\ poll_at_advice # None /\ handle # None
  /\ \/ poll_at_advice > handle.at /\ RescheduleAt(poll_at_advice)
     \/ poll_at_advice <= handle.at /\ UNCHANGED <<rtic, handle>>

(* Mutant: the timer is moved to the advised instant whatever it is. *)
ArmExistingAlways ==
  poll_at_advice # None /\ handle # None /\ RescheduleAt(poll_at_advice)

(* An instant was advised: move the timer if it is too late, else keep it. *)
ArmExisting ==
  /\ poll_at_advice # None /\ handle # None
  /\ \/ poll_at_advice < handle.at /\ RescheduleAt(poll_at_advice)
     \/ poll_at_advice >= handle.at /\ UNCHANGED <<rtic, handle>>

ArmNew ==
  /\ poll_at_advice # None /\ handle = None
  /\ SpawnAt(poll_at_advice) \/ SpawnFails

Arm == /\ pc = "arm"
       /\ ArmExisting \/ ArmNew
       /\ pc' = "store"
       /\ UNCHANGED <<now, poll_at_handle, eth_pending, i, poll_at_advice, advised>>

StoreHandle == /\ pc = "store"
               /\ poll_at_handle' = handle
               /\ handle' = None
               /\ pc' = "idle"
               /\ UNCHANGED <<now, rtic, eth_pending, i, poll_at_advice, advised>>

(* Mutant: the handle is dropped and the timer left armed. *)
DisarmForgettingTimer == /\ pc = "arm" /\ poll_at_advice = None
                         /\ handle' = None
                         /\ pc' = "idle"
                         /\ UNCHANGED <<now, rtic, poll_at_handle, eth_pending,
                                        i, poll_at_advice, advised>>

(* Nothing was advised: cancel what was armed, if it is not too late. *)
Disarm == /\ pc = "arm" /\ poll_at_advice = None
          /\ \/ handle # None /\ CancelTimer(handle)
             \/ handle = None /\ UNCHANGED rtic
          /\ handle' = None
          /\ pc' = "idle"
          /\ UNCHANGED <<now, poll_at_handle, eth_pending, i, poll_at_advice, advised>>

(* Mutant: smoltcp_poll_at does not pend ETH. *)
RunWithoutPend ==
  /\ pc = "idle" /\ ready > 0
  /\ ready' = ready - 1
  /\ free' = free + 1
  /\ poll_at_handle' = None
  /\ UNCHANGED <<now, tq, marker, eth_pending, pc, i, poll_at_advice, handle, advised>>

(* The task smoltcp_poll_at; the dispatcher frees its slot as it starts it. *)
RunSmoltcpPollAt ==
  /\ pc = "idle" /\ ready > 0
  /\ ready' = ready - 1
  /\ free' = free + 1
  /\ poll_at_handle' = None
  /\ eth_pending' = TRUE
  /\ UNCHANGED <<now, tq, marker, pc, i, poll_at_advice, handle, advised>>

EthernetEvent == PollNow \/ PollLater \/ PollNever \/ TakeHandle \/ Arm
                 \/ StoreHandle \/ Disarm

Next == \/ EthInterrupt \/ EnterEthernetEvent \/ EthernetEvent
        \/ RunSmoltcpPollAt \/ SysTick \/ Tick

(* Handlers run to completion, SysTick and the dispatcher run what is due. *)
Fairness == /\ WF_vars(EnterEthernetEvent)
            /\ WF_vars(EthernetEvent)
            /\ WF_vars(RunSmoltcpPollAt)
            /\ WF_vars(SysTick)
            /\ WF_vars(Tick)

SafeSpec == Init /\ [][Next]_vars
Spec     == SafeSpec /\ Fairness

-----------------------------------------------------------------------------
(* Properties *)

LiveHandle == IF handle # None THEN handle ELSE poll_at_handle

(* The one slot of smoltcp_poll_at is free, armed or ready, never two of these
   and never lost: a fired, cancelled or failed timer always gives it back. *)
SlotAccounting == \/ free = 1 /\ tq = {} /\ ready = 0
                  \/ free = 0 /\ ready = 0 /\ \E e \in Handles : tq = {e}
                  \/ free = 0 /\ tq = {} /\ ready = 1

(* An armed timer always has its handle, with the instant it is armed for, in
   poll_at_handle or in ethernet_event's hands; so no armed timer is beyond
   recall, and no wrapped marker makes a stale handle name another entry. *)
HandleTracksTimer == \A e \in tq : LiveHandle = e

(* Whenever ethernet_event has returned after smoltcp asked to be polled by
   instant t, something will run it by t: it is pending, smoltcp_poll_at is
   ready, or the timer is armed for no later than t.  (SysTick racing the
   reschedule, and a spawn_at that fails, must not lose the wake-up.) *)
WakeByAdvice == pc = "idle" /\ advised \in Instants
                  => \/ eth_pending
                     \/ ready > 0
                     \/ \E e \in tq : e.at <= advised

(* No timer is left armed once smoltcp said it needs none. *)
CancelledWhenUnneeded == pc = "idle" /\ advised = None => tq = {}

(* An armed timer is only ever replaced by an earlier one. *)
NeverPostponed == [][\A e \in tq, f \in tq' : f.at <= e.at]_vars

(* Every instant smoltcp asks for leads to another poll. *)
AdviceLeadsToPoll == pc = "idle" /\ advised \in Instants ~> pc = "poll"

(* PollTimer implements the alarm clock of Wakeup. *)
Alarm == IF ready > 0 THEN 0
         ELSE IF tq = {} THEN None
         ELSE (CHOOSE e \in tq : TRUE).at

Clock == INSTANCE Wakeup WITH alarm <- Alarm, pending <- eth_pending,
                              running <- pc \in {"poll", "take", "arm"}

ImplementsWakeup == Clock!Spec

(* What the comment at ethernet.rs:225 says of a poll_at() of instant 0, "poll()
   needs to be called immediately": ethernet_event does not return before it
   has polled again, or at least leaves something that will run it. *)
ImmediatePollHonoured == pc = "idle" /\ advised = Now
                           => eth_pending \/ ready > 0 \/ tq # {}
=============================================================================
