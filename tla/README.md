# A TLA+ model of vhl_hackathon

The repository holds the firmware and tools of two hackathon projects: an
Ethernet bridge that answers requests for resources (`01_led_lighting`) and a
pair of GPS-synchronised LoRa nodes (`02_can_gps_lora`).  This directory models
their control: what the interrupts, tasks and queues do, in every order they
can, and what that guarantees.

## The system

### ecbridge_fw: the Ethernet bridge

An RTIC program on one core.  SysTick has the highest priority, then
`ethernet_event` (the ETH interrupt) and `smoltcp_poll_at` at 2, then
`link_process`, `display_task`, `async_task` at 1, then `idle`.

| part | state | operations | talks to |
|---|---|---|---|
| wake-up timer (`ethernet.rs`) | `poll_at_handle`, the one slot of `smoltcp_poll_at`, the timer queue | poll loop, arm, move, cancel, fire | SysTick, ETH |
| data path (`ethernet.rs`) | TCP socket, `eth_out`, `eth_in` | `poll`, `handle_tcp_rx`, `handle_tcp_tx`, close, listen | host, `link_process` |
| protocol task (`vhlink.rs`) | its read grant | read, parse, dispatch, release | both queues |
| dispatcher (`xpi_dispatch.rs`) | two iterators over the resources, the batch, the reply | lookahead, grant, call/write/read, commit | `eth_in`, ETH, `digit`, tasks |
| display and demo tasks (`oled.rs`, `main.rs`) | `digit`, `symbol`, the display | draw; log | the dispatcher |
| start-up, logging (`main.rs`, `logging.rs`) | hardware | | |

Data goes host -> socket -> `eth_out` -> `link_process` -> dispatcher -> `eth_in`
-> socket -> host.  `handle_tcp_rx` spawns `link_process`; the dispatcher pends
ETH after each commit; smoltcp's own deadlines come back through
`smoltcp_poll_at`.  What is hard: the interrupt runs between any two steps of
the protocol task; SysTick runs between any two steps of the interrupt; the
queues hand out contiguous grants and wrap; spawns fail when a slot is taken;
`poll()` reports errors as "nothing happened"; a dispatch may fail half-way.

What makes each part correct:

* timer: no deadline of smoltcp is lost, no slot leaks, a handle never names
  another timer, nothing is postponed;
* data path: frames are whole, in order and dispatched at most once; the reply
  stream the socket sends is the one that was committed; everything flows on;
* dispatcher: each resource answered once, in order, with its own arguments,
  within the reply; a failure loses the answers to one batch and no more.

### can_gps_lora: a LoRa node

The GPS pulse runs `pps_sync_task` (priority 2): it blinks the LED
(`led_task`, priority 1, two slots) and arms `phase_shift_tx` (priority 2),
which sets `tx_flag`.  `idle` takes the flag and calls `lora_task`, to transmit
or to receive for 50 ms, while holding the locks of both heartbeats; these are
shared with the display task (priority 2), so nothing but SysTick and the
serial interrupt runs until the radio is done.  It is correct when a node
transmits once per pulse, inside its slot, and nothing it holds up is lost.
Two of them, built for different displays, shift by 500 ms and 50 ms: they are
correct together when they never transmit at once.  What passes between them
is a heartbeat in a frame with a magic and a CRC (`radio.rs`); it is correct when
only a heartbeat that was sent is shown.

### rustyclient: the client

A tokio program.  A method of `ECBridgeClient` submits a request, then installs a
filter and waits 100 ms for one reply; all requests carry `RequestId(3)`, so
only the kind of a reply and its source tell whose it is.  `observe_one`
subscribes, and a task forwards the updates to `main` through a channel.  What is
hard: replies that come before the filter, after the timeout, several at a time,
or from an earlier connection, because the bridge keeps what it has not sent.
It is correct when an answer goes to the call it belongs to, unless some call
has lost its own, and when an observation ends with the connection.

### Others

`vhl_cg` is generated (de)serialization of a `Point`; `ledmodule_fw` is empty.

## Modules

| module | models | state and actions |
|---|---|---|
| `Wakeup` | what the timer part promises, without timer queue, slot or handle | one alarm: off, set, ringing |
| `PollTimer` | the loop of `ethernet_event`, then arming, moving or cancelling `smoltcp_poll_at` | `pc` walks through the handler: `poll` (one action per answer of `poll_at`), `take`, `arm`, `store`; SysTick may step in between |
| `PollTimerProofs` | theorems about it | |
| `DataPath` | what the data path promises, without rings, grants, handler or timer | a line of frames, how much of it a server has taken, how much is answered and sent |
| `BBQueue` | the bbqueue crate, a value and one operator per call | `GrantExact`, `Commit`, `Read`, `Release` |
| `BBQueueProofs` | the queue as a sequence: what each call does to its contents | |
| `EthLink` | the data path and `link_process`, over two `BBQueue`s | `eth_pc` walks through a round of `ethernet_event`, `link_pc` through `link_process` |
| `EthLinkProofs` | theorems about it | |
| `Answering` | what the dispatcher promises: resources dealt with in order, in rounds, one reply per round | next resource, rounds, replies |
| `XpiDispatch` | `xpi_dispatch` and everything it calls | `look` and `exec` are the two iterators, one action per way a resource can be answered |
| `XpiDispatchProofs` | theorems about it | |
| `XpiClient` | the methods of `ECBridgeClient`, the observation, `main`; the connection and a peer that answers in order | `pc` walks through a method: `ready`, `submitted`, `waiting`; `requests` and `replies` are what the network and the bridge hold, and outlive connections and runs |
| `XpiClientProofs` | theorems about it | |
| `LoraNode` | one LoRa node with time in units of 10 ms | `Tick` passes while the radio or the display works |
| `LoraNodeProofs` | theorems about it | |
| `LoraPair` | two of them, sharing only time | a step of either, or `Tick` of both |
| `RadioFrame`, `RadioFrameProofs` | `radio.rs` and the heartbeats of `lora_task`, a driver, the air | `Transmit`, `Receive`; `Disturb` and `Fade` of the air |
| `LoraAir` | the pair and the frames together: a transmits to b | `SendA`, `SentA`, `HearB` join a step of the pair with one of the frame |
| `LoraAirProofs` | theorems about the pair, and about both together | |

`EthLink` keeps of the dispatch its shape: batches that are granted, then
committed and pended, or dropped.  It keeps of the timer one bit, `timer`:
`smoltcp_poll_at` is armed or ready, which `PollTimer` shows (`WakeByAdvice`,
`CancelledWhenUnneeded`) to be what `ethernet_event` makes of `poll_at()`.
Operators whose comment begins with *Mutant* are the same code with a plausible
mistake in it; each shows that a property notices that mistake, and none is
used otherwise.

Abstractions.  A cell of a queue stands for the bytes of one endpoint, one
request or one piece of a reply; a request is its number, a reply its place in
the stream.  An event that does not parse is one with no batches.  The receive
ring of the socket is filled in place, and `recv` dequeues only what lies before
its end (`Contiguous`); the rest stays in the socket for a later round and becomes a
frame of its own.  A request that TCP or the end of the ring cuts in two counts as
two.  What makes `poll_at()` name an instant for such a rest is an acknowledgement
still owed or a window to be announced (`WindowToUpdate`).  The network neither loses nor reorders; a packet that arrives in
the middle of a round of `ethernet_event` is seen by the next `poll()`, so
arrivals are placed between rounds.  A transmission that finds no free DMA descriptor is
not modelled: the end-of-transmission interrupt, which is, would resume it.
In the dispatcher, whether a grant or a result fits is a choice wherever the
code can fail, sizes are nibbles, and
a value is the number of the argument it came from.  In the LoRa node code
takes no time but for radio and display, the radio is fitted, and the debug
channel is silent.  A field of a frame is a cell, and the CRC is the sequence it
digests: that different sequences have different CRCs is assumed.  `read_packet`
belongs to a fork of a driver that is not in the repository; `lora.rs:28` says it
returns 255 bytes, and both that and the exact packet are modelled.  A request or
reply of the client is the number of its call and its kind.

## Runs

| run | shows | bounds and why they are enough |
|---|---|---|
| `PollTimer` | types; `SlotAccounting`, `HandleTracksTimer`, `WakeByAdvice`, `CancelledWhenUnneeded`; `NeverPostponed`; `AdviceLeadsToPoll`; refinement of `Wakeup` (`ImplementsWakeup`) | 5 rounds as in the code; 2 markers, so that markers wrap at once; 4 instants allow earlier, equal, later and past advice |
| `EthLink` | `FrameAligned`, `GrantStable`, `DispatchedInOrder`, `ReplyStreamExact`, `SocketContinuesStream`, `StrandedOnlyByWrap`, `ReceivedNotForgotten`; refinement of `DataPath` (`ImplementsDataPath`) | a queue of 5 cells holds two frames of one request and wraps with the third, or takes coalesced requests and refuses the next; a receive ring of 2 wraps with every second request, before or inside a `recv`; replies of 2 in a queue of 3, a socket that takes 1; 4 requests, one connection |
| `EthLinkLive` | `ReplyFlushed`, `ReceivedIsRead` | 2 connections, so that the socket is closed, listens again and inherits replies (that the stream then still goes on is `SocketContinuesStreamThm`); 3 requests in a receive ring of 2: read together, the second and third lie on both sides of its end; `eth_out` takes a frame of one request or of two, and refuses the next until the first is released, or for good once its indices stand in the middle, which bbqueue does too |
| `XpiDispatch` | `IteratorsInStep`, `AnsweredInOrder`, `AnsweredIfOk`, `OverBudgetOnlyByDeferred`, `OneBatchLostAtMost`, `DisplayFollowsDigit`; refinement of `Answering` (`ImplementsAnswering`) | every event of up to 4 resources, 0 to 3 arguments and all four kinds; 3 resources and 14 nibbles per reply, 2 replies: each limit is met alone and with the others |
| `LoraNode` | `TransmitsInSlot`, `EdgeServed`, `LedOffOnItsWay`, `EdgeLeadsToTransmission`, `LedGoesOut`, `HeartbeatShown` | the delays of the source (1 s, 500 ms, 100 ms, 50 ms), 80 ms of transmission, 100 ms of display, which is what the I2C of the SSD1306 node takes |
| `LoraAir` | `NeverBothOnAir`, `HeartbeatsGenuine` | the shortest times that keep two slots apart, 9 units a second, which the two slots fill; one strength of signal, two uptimes, a buffer one cell longer than a frame; displays take no time here (`NeverBothOnAirThm` is for any) |
| `XpiClient` | `LateRepliesExplained`, `RepliesInOrder`, `ObservationEnds` | 3 calls: one left behind, one that takes its reply, one after it; 2 runs, so that a reply crosses to the next; 3 updates fill the channel of 2 and keep the task waiting |

`LoraAir` may stop where a receiver has panicked, `XpiClient` where all runs
have ended; their deadlock is not checked.

The remaining runs each check one statement of a comment in the code and end in
a counterexample:

| run | comment | what happens |
|---|---|---|
| `PollTimerLastRound` | `ethernet.rs:225` "poll() needs to be called immediately" | the fifth `continue` in a row leaves the loop, nothing is armed or pended |
| `EthLinkSlice` | `vhlink.rs:11-12` each packet is deserialized and "goes to dispatcher" | two frames granted together: the second is released unread |
| `XpiSubset` | `xpi_dispatch.rs:39` "serialize resource subset into it" | every batch names the whole set |
| `XpiArgs` | `xpi_dispatch.rs:40-42` dispatch every call, repeat until all are processed | the second batch starts with the first argument again |
| `XpiDeferred` | `xpi_dispatch.rs:79` "async replies do not consume any space from this batch" | without an argument, they do |

Also seen, and not contradicted by any document: `eth_in` outlives a
connection, so replies to one client can be sent to the next, which, with one
request id, may take them for its own; once that has happened every following
call of the kind gets the answer of the one before.  A reply that comes between
`submit_one` and `filter_one` is dropped and the call times out.  `write_digit`
expects its reply from node 1, which the bridge says it is, all other methods
from node 0: no peer answers both.  The bridge does not answer a `Subscribe`.
If `read_packet` returns 255 bytes no frame is ever accepted; if it returns the
packet, one shorter than four bytes panics in `deserialize` (`radio.rs:37`).  No
receiver looks at the source or destination of a frame.  A request whose
grant in `eth_out` fails has been acknowledged and is gone; a frame cut off by a
wrap waits until the next frame spawns `link_process`; `set_digit`, which
`dispatch_call` would spawn, is never reached because `reply_size_hint` refuses
it; a second `/async` call while one is queued is dropped silently.

## Fairness

* `PollTimer`: a handler that is entered runs to its end, pending interrupts
  and ready tasks run (weak fairness of each): RTIC runs whatever is ready, and
  the two priority-2 tasks take turns through the NVIC.  Time passes.
* `EthLink`: the interrupt as above.  `smoltcp_poll_at`, the protocol task and
  the host's acknowledgements have strong fairness, because ETH interrupts
  disable them again and again: interrupts must leave them their share.  This is
  an assumption on the load, not something the code enforces.
* `XpiClient`: `main` and the forwarding task run when they can (weak fairness of
  `Observing`): tokio polls every woken task.  Nothing is assumed of the network,
  the peer, or the calls.
* `LoraNode`: tasks and `idle` go on; strong fairness of `Tick` says that
  frames do not come in so fast that no time passes.

## Proofs

`PollTimerProofs` proves, for every number of rounds, of markers and of
instants (assumed positive, `None` distinct from all instants and handles):
`TypeThm`, `SlotThm`, `HandleThm`, `WakeThm`, `CancelThm`, `NeverPostponedThm`
and `RefinementThm` (the safety part of `PollTimer` implements that of
`Wakeup`).

None of these invariants is inductive alone.  `IInv` joins them with
what holds in the middle of the handler: who holds the handle at each `pc`, and
that between `arm` and `store` the advice of this run is already covered.
`SlotAccounting` says there is at most one timer, `HandleTracksTimer` that the
live handle is its name; together they let `reschedule_at` and `cancel`, which
look for a marker only, be understood as acting on *the* timer, whatever wraps
(`ArmedIsHandle`).  `WakeByAdvice` then follows step by step: a failing
`spawn_at` or `reschedule_at` implies that the task is already ready.
`ArmLeaves` and `DisarmLeaves` carry the same facts over the refinement mapping.

`BBQueueProofs`, for every size, every position of the indices and any cells:
whatever wraps, the queue is the sequence of its `Contents`.  `CommitAppends`:
committing a grant appends what was written; `ReleaseDrops`: releasing part of a
read grant takes it from the front.  Around them: a grant lies outside what is
committed, a commit leaves the read grant its cells, a release leaves the write
grant its room, and `read()` changes nothing but where the index is.  The
arithmetic of the three indices is done first, on numbers alone (`UsedOf`,
`FrontOf`, `PlaceOf`: how much is held, how much is granted, where the k-th cell is).
`WellFormed` is the invariant of a queue: neither index is beyond the end of the
readable region, nor that beyond the queue.

`EthLinkProofs`, for every size of queues and buffers, any numbers of requests,
connections and batches, and at least three rounds per interrupt: every safety
invariant of the run `EthLink`, namely `TypeThm`, `FrameAlignedThm`,
`GrantStableThm`, `DispatchedInOrderThm`, `ReplyStreamExactThm`,
`SocketContinuesStreamThm`, `StrandedThm`, `ReceivedNotForgottenThm`.  Only
`StrandedOnlyByWrap` is part of the invariant as it stands; what the others need:

| part of `IInv` | says | why it is needed |
|---|---|---|
| `FramePart` | `eth_out` holds whole frames, also at the wrap; the read grant begins with the event being dispatched and ends where a frame does | releasing it must leave the queue beginning with an endpoint: `FrameAligned`, `GrantStable` |
| `OrderPart` | two numbers separate what waits in the queue from what the socket holds, and that from what the MAC holds | a frame is appended, and `poll()` takes in packets, without looking at what came before |
| `BudgetPart` | the replies so far, with those this event may still make, are within what the dispatched requests allow | bounds the numbering: `TypeOK` |
| `StreamPart` | a write grant is free until it is committed; `eth_in` ends the stream, the socket's data goes just before it | the interrupt releases while `link_process` fills: `ReplyStreamExact`, `SocketContinuesStream` |
| `ForgetPart` | by the round and the place in it, what is received and unread is owed an acknowledgement or a new window, or ETH is pending | an error of `poll()` skips `handle_tcp_rx`, and `recv` stops at the end of the ring: `ReceivedNotForgotten` |

`ForgetPart` is where the number of rounds matters.  A further round begins
only if there was something to send, so `poll()` in it answers true and what the
socket holds is read, unless an error is reported because of a packet that came in
meanwhile, which pends ETH.  So an error may leave data behind in the first round,
and the end of the ring a rest of it in the second, whose acknowledgement is out
but whose window is not; the third reads that rest.  What is left in the third
round or a later one has come in since the handler was entered, and its
arrival has pended ETH: that the last round drops an instant advised for at once
(`PollTimerLastRound`) then does no harm.  With two rounds TLC finds data forgotten
behind the end of the ring, with one data forgotten by an error.  Hence
`MAX_ITERATIONS >= 3` in `LinkAssumption`; the source has 5.

`RefinementThm`: `EthLink` implements `DataPath`.  What waits in line is `Contents`
of `eth_out`, what the server has taken is the length of the read grant, the
socket has taken what was committed and is no longer in `eth_in`.  By
`CommitAppends` `handle_tcp_rx` is `Receive`, or a stutter when it drops what it
read; that what it appends is newer is `OrderPart`.  By `FramePart` what `read()`
grants is whole frames (`Begin`), and it is still there when `LinkRelease` gives
it up, which by `ReleaseDrops` is `Finish`: frames committed in between stay,
though `ReleaseAllThere`, the mutant that loses them, breaks none of the
invariants above.  A committed reply is `Answer`, `send_slice` is `Send`.

`ProcessAll` is a recursive function over the packets of the inbox.
`ProcessRule` is the induction for it: given a set of sockets for each number of
packets processed, the k-th containing what the k-th packet makes of any of the
one before, the result is in the last.  It comes from `NatSetInduction`, which
is about a set rather than a predicate and follows from the well-foundedness of
the numbers.  `OrderPart` and `StreamPart` cross `poll()` by it.

`XpiDispatchProofs`, for every size of batch, reply, resource and argument set:
`TypeThm`, `IteratorsThm`, `InOrderThm`, `AnsweredThm`, `OneBatchLostThm`, `DisplayThm`,
`BudgetThm` and
`RefinementThm` (`XpiDispatch` implements `Answering`).  `IInv` says what the
lookahead has left (`HintsMatch`: the batch is a part of the resource set, each
hint that of its resource), where the execution iterator is at each `pc`
(`ExecPlace`), why the loop may stop (`StopReason`), and what the reply being built
and the replies sent answer (`ReplySoFar`, `SentSoFar`).  `DoneSoFar` adds what has
been executed: nothing beyond the execution iterator, and all that is answered as
done; what is executed and unanswered is then of the batch at hand.  Each of the six
ways to answer a resource is first reduced to `ExecutesOne`, so that the invariant is
carried over them once.  `BudgetThm` compares two sums without computing
either: `WithinPlan` says there is a function that gives for each part of the
batch what the hints planned for it, ending at `Budget - left`, and that what is in
the reply is no more than it gives for the part executed, but for the errors of
the deferred ones in it.

`LoraNodeProofs`, for all times that satisfy `TimingAssumption` (a slot, and the
LED, are over before the next edge): `TypeThm`, `TransmitsInSlotThm`,
`EdgeServedThm`, `LedThm`.  `TransmitsInSlot` is not inductive: `IInv` bounds, for
each place the edge's work can be at (pending edge, timer, ready task, flag, local
copy, transmission), the time since the edge (`EdgePart`, `ShiftPart`), and says the
same of the LED's two spawns (`LedPart`).  The source's times satisfy the
assumption, and TLC evaluates it for them.
`LoraAirProofs` uses those lemmas for each node: `NeverBothOnAirThm` follows
when the slots of `PairAssumption` do not overlap.

`RadioFrameProofs`, for all uptimes, signals and buffers longer than a frame:
`RoundTrip`, `PaddedRejected`, `GenuineThm`.  `AirPart` says which CRCs can be on the
air: those of frames sent, of foreign packets, or none.  In `LoraAirProofs`,
every step of `LoraAir` is one of `LoraPair` and of `RadioFrame`, or leaves it
alone (`AirThm`), so both theorems hold of the exchange (`ExchangeThm`).

`XpiClientProofs`, for every number of calls, runs and updates: `TypeThm`,
`LateThm`, `OrderThm`.  `QueuePart` says that whatever is still to come belongs to
the call that waits or is accounted for by a call left behind (`Accounted`);
`OrderPart` that what was returned, what comes and what is still to be answered
follow each other.  The two need each other where a reply is taken: what stays
behind it must now be accounted for without the call.  Most steps only make
the queues lose something, which is one lemma (`ShrunkInv`).  `ObservationPart`
keeps the account of the updates.

Every safety invariant, every action property and all three refinements of the
passing runs are theorems.  Only model-checked: liveness (`AdviceLeadsToPoll`,
`ReplyFlushed`, `ReceivedIsRead`, `ObservationEnds`,
`EdgeLeadsToTransmission`, `LedGoesOut`, `HeartbeatShown`, and the fairness part of
`ImplementsWakeup`), which is beyond the prover.  The statements the code does
not keep have their counterexamples.

## Not modelled

Start-up, logging, drawing, the empty LED firmware, the serial console: input
and output without state a property is about.  `Point` serialization, the
overflow in `sync` and in the drawn digit: one expression each, whose values are
abstracted to the argument they came from.  The heartbeats of the second node to
the first take the code of those modelled.  What the client does with the value of a
reply.  `VhNode`, smoltcp, bbqueue and the radio driver are modelled from
their use.

## Plan

1. Done: `Wakeup`, `PollTimer`; `BBQueue`, `EthLink`; `Answering`, `XpiDispatch`;
   `XpiClient`; `LoraNode`, `LoraPair`, `RadioFrame`, `LoraAir`; the proofs above.
2. Done: `BBQueueProofs`, `EthLinkProofs`, and `BudgetThm`: no safety invariant of
   a run is left without a theorem.  `DataPath`, and that `EthLink` implements it.
3. Next: of the liveness properties, the safety steps they rest on (a bound on the
   iterations of a handler, on how often the client waits).
