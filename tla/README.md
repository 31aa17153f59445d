# A verification of xtr-messenger

TLA+ modules, TLC model checks and TLAPS proofs for
[python-xtr-messenger](../src/README.md), an asynchronous message bus: messages
are dispatched through a chain of middlewares, handled in the process or sent to
a transport, and collected from transports by workers.  Everything runs on
asyncio: within one event loop the code between two awaits is atomic, and what
can go wrong lies in what happens at the awaits.  Every action of the modules is
such a stretch, and names the function it stands for; `PROJECT.json` maps each
definition to its lines.

Paths below are relative to `src/src/xtr_messenger/`.

## 1. Inventory

| Component | State it keeps | Operations | Talks to |
|---|---|---|---|
| `Worker` (`worker.py`, `_handling.py`) | `_stopped` (the Event of the run), `_stop_requested`; per run the stream, the fetch task, the message in hand | `run`, `stop` | calls the receiver (`get`, `ack`, `reject`), the bus, the resetter, the event listeners |
| `ChainedReceiver` (`transport/receiver/`) | `_tickets`, `_outstanding`, `_leftovers`; per `get` the streams and one fetch task each | `get` (a generator), `ack`, `reject` | waits on several receivers; is a receiver to the worker |
| `StartedBrokers` (`bridge/taskiq/`) | `_started`, one lock per event loop | `ensure_started`, `forget`, `close_all` | shared by every sender of a transport factory and by its workers |
| `TaskiqWorker` | `_finished`, `_stop_requested`, the broker's `is_worker_process` | `run`, `stop` | wraps taskiq's receive loop; tells `StartedBrokers` to forget |
| `TaskiqSender` | none of its own | `send` | `ensure_started`, then publishes |
| `DispatchAfterCurrentBusMiddleware` | a `_Held` (open, envelopes) in a context variable | `handle` | first of every chain; shared by the buses of one task, copied into the tasks it creates |
| `MessageBus`, `StackMiddleware` | the position in the chain | `dispatch`, `next` | every middleware |
| `SendMessageMiddleware`, `SendersLocator` | none | route and send | the senders of the transports |
| `HandleMessageMiddleware`, `HandlersLocator`, descriptors | registered handlers | invoke every handler | application handlers |
| `RedispatchingHandlers` | the publishing bus, built on first use | redispatch | a second bus |
| `bind_bus`, `PoisonMessageReceiver` (`bridge/taskiq/`) | none between deliveries | one delivery: screen, decode, handle, raise for a retry or quarantine | taskiq's loop and retry policy, the resetter |
| `InMemoryTransport`, `SyncTransport` | queue, sent, rejected | `send`, `get`, `ack`, `reject` | bus and worker |
| `message_registry`, `stamp_registry`, `MiddlewareRegistry`, `HandlersLocator` | name and type tables; handlers and their decorators | declare, claim, look up, decorate | decorators, serializer, senders, `bind_bus`, the bundle |
| `Envelope`, `JsonSerializer` | none | add and read stamps; encode, decode | senders and receivers |
| `TransportFactory`, `MessageBusFactory`, `WorkerFactory` | adapters discovered, transports made, the bus for redispatches | build a bus or a worker, `close_publishers` | adapters, registries, configuration |
| `MessengerBundle` | its handlers, the factory its container built | `build`, `process`, `boot`, `shutdown` | a container; several kernels may live in one process |
| `ConsumeMessagesCommand` | the SIGTERM handler it replaced, a timer | one run of a worker | the worker factory, the signal |

### What is hard here, and what makes each component correct

**ChainedReceiver.**  Fetch tasks run while the generator is suspended, so a
receiver may deliver as `get()` is stopped, and several may be done at once.
Correct means: no message lost or handed out twice; each receiver's order kept,
across `get()`s that were cut short too; no receiver starved; each message
settled once, on its own receiver, in the way asked first.

**Worker.**  A stop or a cancellation may fall on any await, also together with
a delivery; and any listener, handler, settlement or reset may raise.  Correct
means: every message collected is settled exactly once, or the run raises;
services are reset between messages; a stop ends a run that waits for nothing,
collects no more, and is not forgotten if nothing runs yet.

**Brokers.**  Producers, a worker and the shutdown of the application open and
close the same connections, keeping track through a record, a flag and a lock.
Correct means: what is recorded is open, what is open has someone to close it,
nobody publishes over a closed connection because of a stale record or flag, and
a worker told to stop forgets it neither before it runs nor while it does.

**Held messages.**  Handlers may leave tasks running that share the `_Held` of a
message long done.  Correct means: nothing goes out before the current message
succeeded, or after it failed; the order of dispatch is kept; nothing is left in
a list nobody empties; the outcome of the dispatch says what became of them.

**Dispatch.**  One dispatch is sequential, but tasks interleave at every sender
and handler, handlers dispatch in turn, and each of several senders or handlers
may raise.  Correct means: a message goes to each of its destinations once and
to no other; what was received does not go out again, unless redispatched; every
handler runs once, whichever raise, and the dispatch raises exactly if one did;
the stamps of the envelope returned tell what happened, and no more; what a
handler dispatches joins the unit of work of the message handled, and nothing
else does.

**Delivery.**  A delivery can be malformed in many ways, any step of it can
raise, and the process can end between any two.  Correct means: a message leaves
the broker only handled, skipped, quarantined or exhausted; whether it will be
retried is announced truly; nothing is delivered for ever; what is handled is
reported as received from the transport it was sent to, at the attempt it is.

**Wiring.**  Construction is sequential, but lazy: who asks first decides what is
discovered and made, modules may declare more in between, and kernels boot more
than once and share a process.  Correct means: names mean what they meant; each
entry of a chain is the class of its own name with its own arguments, shared just
where the container holds it; who publishes and who consumes under one name hold
one object where they must; handlers are called through the container that is
there; a shutdown closes its own connections and those alone; SIGTERM is given
back to who had it, as far as that can be read back.

## 2. Modules

| Module | Models | Lines |
|---|---|---|
| `Receiver` | what a worker may count on from any receiver (abstract) | `receiver_interface.py` |
| `ChainedReceiver` | `get` from await to await, `_abandon`, `close_stream`, `ack`, `reject` | `chained_receiver.py` |
| `ChainedReceiver_proofs` | its theorems | |
| `Worker` | `run`, `stop`, `_next_unless_stopped`, `_settle`, `handle`, `announce_failure` | `worker.py`, `_handling.py` |
| `Worker_proofs` | its theorems | |
| `BrokerLifecycle` | `StartedBrokers`, `TaskiqWorker`, and the opening part of `TaskiqSender.send` | `bridge/taskiq/` |
| `BrokerLifecycle_proofs` | its theorems | |
| `HeldMessages` | `DispatchAfterCurrentBusMiddleware` | `middleware/` |
| `HeldMessages_proofs` | its theorems | |
| `Lists` | lists made of the elements of others: comprehensions, groupings, lists without duplicates | `envelope.py`, `serializer.py`, `senders_locator.py` |
| `Envelopes` | envelopes, stamps, what a serializer keeps of them: operators | `envelope.py`, `stamp/`, `serialization/` |
| `Envelopes_proofs` | lemmas about the operators of both | |
| `Delivery` | `TaskiqSender.send`, `PoisonMessageReceiver`, the tasks of `bind_bus`, with a broker that redelivers and a process that ends | `bridge/taskiq/`, `_handling.py` |
| `Delivery_proofs` | its theorems | |
| `Dispatch` | `MessageBus` and its chain: units of work, routing, sending, handling, redispatching; the in-memory and sync transports | `middleware/`, `handler/`, `transport/` |
| `Dispatch_proofs` | its theorems | |
| `Declarations` | messages, middleware and handlers as modules declare them | the registries and `decorator/` |
| `Application` | configuration, kernels, buses, workers and the consume command, over `Declarations` | `bundle/`, the factories, `command/` |
| `Application_proofs` | its theorems | |
| `MCChainedReceiver`, `MCBrokerLifecycle`, `MCDispatch`, `MCApplication` | values of the constants, nothing else | |

How they fit: `Worker` takes its messages from "a receiver that keeps the
promises of `Receiver`", and `ChainedReceiver` is shown to keep them
(`ActsAsOneReceiver`, by model checking and by proof).  `BrokerLifecycle` is the
counterpart of `Worker` on the taskiq side, where the receive loop is not this
library's own, and `Delivery` the counterpart of what a worker does with one
message.  `Dispatch` is what happens as either of them hands a message to its
bus; `HeldMessages` is the first middleware of that chain, kept apart because it
alone shares state between dispatches and with tasks left running.
`Delivery` and `Dispatch` extend `Envelopes`, which extends `Lists`, as does
`Application`.  `Application` puts buses and
workers together and takes what they do as given: a run is a bus, the objects it
receives from, and the signal that stops it.

### State and actions against the code

*ChainedReceiver.*  `gen` is where the generator is suspended.  `fetch[p]` is
the state of the task in `fetching` for receiver p (`none`: not in it), `batch`
the part of the sorted `done` not yet looked at; `leftovers`, `tickets` and
`outstanding` are the attributes.  `WakeUp` is the return of `asyncio.wait`,
`ServeMessage`/`ServeEnd`/`ServeFailure` one round of the `for` loop,
`Abandoned` the gather of `_abandon` returning, `CloseStream` one round of the
last loop.  The receivers (`Deliver`, `End`, `Fail`, `Cancelled`) are external:
a cancelled fetch may still deliver.  `leftovers` are appended in any order of
the receivers, since the position of a task in `fetching` says nothing about
them.  `Interrupt` is a cancellation within `finally`; `CloseRaises` a stream
whose closing raises.  `handed`, `wanted`, `dropped` and `overtaken` are history.

*Worker.*  `pc` is the await `run()` is suspended at.  `event` is the Event of
the current run, `current` which Event `_stopped` refers to.  Each await has the
action in which it returns, raises or is cancelled; every await of `handle` that
raises leads to `failing`, every cancellation past it.  `raising` is what
`run()` is about to raise.  `cutShort`, `began`, `owed` and `late` are history.

*BrokerLifecycle.*  `conn` is the broker's connection (external), `flag` its
`is_worker_process`, `started` and `lock` are the registry's; `at`, `worker` and
`closer` say where the producers, the workers and `close_all` are suspended.
Opening and closing take effect as they return; one that raises leaves the
connection `torn`, neither usable nor known to be closed.  `lock` is taken at
once if it is free and nobody waits, as `asyncio.Lock` does; which waiter comes
next is left open.

*HeldMessages.*  `open` and `queue` are the `_Held` of the current message,
`calls` the messages whose chains run within each other, `strays` the current
messages that left a task running with their context.  Messages are numbered as
they are dispatched.

*Delivery.*  `sent` is each message as published, with what is wrong with it (if
anything) as the worker will find; `deliveries` the copies the broker holds, each
with its retries label and the step it is at; `config` whether the binding was
told the broker's limit, whether there is a quarantine, and the transport names.
`Retry`, `Acknowledge` and `Crash` are external.  taskiq's retry policy reads the
label that `retries_from` reads; a label that was lost counts for the policy as
the first attempt, for the library as a late one.  `fates` is history.

*Dispatch.*  `frames` is, for each task, the dispatches it is in, the innermost
last; `offset` is the cursor of a `StackMiddleware`, `todo` the senders or
handlers still to come, `added` the stamps collected, `errors` the names errors
are kept under.  A handler may dispatch, run a worker of its own (`Collect`) or
redispatch.  `dispatches` is history: what each sent, ran and returned, the unit of
work it entered, and the dispatch whose handler made it (`within`, 0 for one of the
application or of a worker at the top).
`Senders` are `memory` and `direct`, transports of this library, and `remote`,
any other sender, which returns the envelope with an id appended or rebuilt
around it, or raises.

*Declarations and Application.*  `nameByType`, `typeByName`, `middleware` and
`locators` are the tables of the registries; a locator keeps for each handler
through what it is called, the container first.  `app[a]` is one application: its
phase, the services of its container, its buses and its worker; one wired by hand
has no container and a `TransportFactory` each for its bus and its workers.
`discovered` and `made` are what the factories remember, `opened` the connections
publishing opened, `sigterm` who the signal reaches.  Objects are told apart by
numbers, so sharing is equality.  Everything up to a built bus or worker is one
step, since construction awaits nothing that another task could disturb.

## 3. What the runs show

| Run | Properties | Bounds |
|---|---|---|
| `chain_settling` | `ReceiverOrderKept`; `SettledAsAsked`; `NoMessageLost`; `ActsAsOneReceiver` | 2 receivers x 2 messages, 3 `get()`s |
| `chain_serving` | `BoundedOvertaking`; `EachMessageInOnePlace`; `LettingGoEnds`; `ReadyIsServed` | 2 receivers x 3 messages, 2 `get()`s, every fault |
| `chain_interrupted` (violated) | `NoMessageLost` with a second cancellation | 2 x 1, one `get()` |
| `worker_runs` | `SettledOnce`; `LossIsRaised`; `ResetBetweenMessages`; `AtRestWhenClosed`; `StopsCollecting`; `StopIsKept`; `StoppedRunReturns`; `InHandIsLetGo` | 3 messages, 2 runs, 2 cancellations |
| `worker_stop_lost` (violated) | `NoStopIsLost` | 1 message, 2 runs |
| `brokers_shared` | `OpenedOnce`; `NoneLeftOpen`; `PublishesOverOpen`; `StoppedWorkerReturns`; `NobodyWaitsForever` | 2 brokers, 2 producers, `close_all` when all are idle |
| `brokers_closed` (violated) | `ListensOverOpen` | the same, `close_all` at any time |
| `brokers_opened_twice` (violated) | `WorkersBrokerLeftAlone` | as `brokers_shared` |
| `held_messages` | `NeverEarly`; `InOrder`; `NothingStranded`; `ResultTellsFates`; `HeldIsDecided` | 5 messages |
| `delivery` | `NothingDropped`; `RetryAsAnnounced`; `HeardAsSent`; `DeliveriesEnd` | 1 message, at most 2 attempts, 5 copies, 1 end of the process |
| `dispatching` | `SentAsRouted`; `EveryHandlerRuns`; `StampsTell`; `UnitsAndErrorsApart` | 3 dispatches, over the settings of `MCDispatch` |
| `wiring` | `NamesHold`; `EachEntryIsItsOwn`; `OneTransportPerName`; `BoundToItsContainer`; `SigtermIsBorrowed`; `ShutdownClosesItsOwn` | 2 declarations, 2 boots, 3 buses or workers asked for, over the configurations of `MCApplication` |

What four of them show, in words.

- `delivery`: whatever is wrong with a message, whichever step raises and
  wherever the process ends, the message is never dropped silently - but as
  poison for which no quarantine was configured, which the code says it drops;
  `will_retry` is true to what the broker does once the binding knows its limit
  and the label is readable; and no failure is delivered for ever, but for poison
  whose quarantine raised, which stays with the broker on purpose.
- `dispatching`: the routing table, the override, the catch-all and the
  declarations give each message the destinations the documentation promises,
  each once, also where a class shares a route with its base; what a worker
  received is never sent on; handlers all run, the dispatch raises exactly if one of
  them did, and errors of one name are all kept.  A unit of work is that of one
  message a worker received or the application dispatched, and of what handlers
  dispatch as it is handled, which has no unit of its own
  (`unit_of_work_middleware.py`, lines 34-35); a message that a handler's own
  worker receives has one.
- `wiring`: sharing is right where it must be and nowhere else, after any order
  of boots, declarations, buses and workers; where building one is refused, what
  its factory had discovered and made by then stays, and is shared all the same.
  `EachEntryIsItsOwn` has two halves: a chain as it is built has, place by place,
  the class each entry's name stands for at that moment with its arguments
  (`BuiltAsMeant`), and two places, of one chain or of bus and worker, are one
  instance exactly if the container holds it and they are the same entry or the
  same bare name (`EntriesApart`).  `SigtermIsBorrowed` says who has the signal
  after a command: a handler of `signal.signal`, or the default, has it back; what
  is not Python's is lost to the default, as `_restore_sigterm` says; and a
  callback of the loop is lost to nobody, see below.
- `brokers_shared`: `OpenedOnce` is about producers: one at a time, the one with
  the lock, opens a broker, and none that is recorded as open.  A broker its worker
  opened need not be recorded; that a producer leaves it alone is another
  statement, which fails (finding 4).  `StoppedWorkerReturns` says that a worker
  told to stop comes to return, and that only the end of a run takes the request
  away, whether it came before `run()`, as it began or as it listened.

Why the bounds are enough.  Two receivers are the least for one to be served
ahead of another, for one to fail while another delivers, and for two to be left
over at once; two messages of each let one be left over with one before and one
after it; three `get()`s let leftovers be left over again.  Settling neither
reads nor changes what serving depends on, so `chain_serving` leaves it out and
goes to three messages.  Two worker runs let a stop, a stale Event and a reset
carry over from one to the next; two cancellations let the second meet the first
one's clean-up.  Two brokers and two producers let one producer wait for the
lock while the other opens another broker, and a shutdown raise with a broker
left to close; nothing in `BrokerLifecycle` counts, so it has no further bound.
Five messages are a current one, two it holds, one that these hold in turn, and
one dispatched by a task left running, or a second current one.  Deliveries share
nothing but the configuration, so one message stands for all; two attempts tell
the last from the one before it, and five copies let each be delivered again
after the process ended.  Three dispatches are one, one its handler makes, and
one of the other task or of a worker run within; a worker's redispatch takes two.
Two declarations let the second meet the first; two boots, two containers; three
builds, a bus and two workers, or two workers before the bus.  The proofs
drop the bounds for every safety property but the half of `StoppedWorkerReturns`
that is one.

`CHECK_DEADLOCK FALSE` is set where the system comes to a legitimate end: all
messages delivered and all `get()`s used, all messages dispatched, or a bound
used up.

### Fairness

- `ChainedReceiver`: the generator runs when it can, since the event loop runs
  every ready task; a consumer that holds an open generator asks on, as
  `Worker.run` does; a cancelled wait ends, which `receiver_interface.py`
  demands.  Nothing makes a receiver deliver or a consumer stop.
- `Worker`: listeners, handlers, settlements and resets return or raise (a
  handler that never returns does stall the worker), and a cancelled fetch comes
  to rest.  Nothing makes a receiver deliver.
- `BrokerLifecycle`: startups, shutdowns, listeners and publishes return or
  raise; strong fairness for taking the lock, since `asyncio.Lock` serves its
  waiters in turn.
- `HeldMessages`: handlers return or raise.
- `Delivery`: some delivery that can go on does - dead-letterers, handlers,
  listeners and resets return or raise, and the broker delivers, retries and
  settles.  Nothing makes the process end, or stay up.
- `Dispatch` and `Application` state no liveness: each of their steps ends on its
  own, and what they wait for is in the other modules.

### Findings

1. **A second cancellation loses a message** (`chain_interrupted`).  `get()`
   promises that a message delivered as it is stopped is kept.  If a further
   cancellation arrives while `_abandon` awaits its gather (line 118), the
   gather raises and its outcomes are dropped, and the streams are not closed.
   The worker can cause it by itself: cancelled while it halts a fetch, it
   cancels that fetch again.
2. **A stop can be lost** (`worker_stop_lost`).  `run()` announces its start
   outside its `try` (line 129).  If that raises, `_stopped` keeps an Event that
   belongs to no run; a `stop()` that follows sets it and nothing else, and the
   next run collects messages, against what `WorkerInterface.stop` says.
3. **`close_all` can shut a broker its worker listens on** (`brokers_closed`).
   Its docstring says such a broker was never recorded; one that a producer
   opened before the worker began was, and stays so.
4. **A worker's broker can be opened again** (`brokers_opened_twice`).
   `ensure_started` looks at the worker flag before it waits for the lock, and
   not again once it has it.

`NoMessageLost` and `StopIsKept` show that outside the first two cases the
promises hold.

A fifth divergence is stated within `SigtermIsBorrowed` and has no run of its own.
`_stop_on_sigterm` says it reports the handler that was installed "so
`_restore_sigterm` can put it back rather than leave the default, which would
silently drop an application's own handler" (`consume.py`, lines 95-97).  Of a
callback the application installed with `loop.add_signal_handler`, `getsignal`
(line 99) reads back only asyncio's no-op; `add_signal_handler` (line 103) and
`remove_signal_handler` (line 119) drop the callback, and line 121 puts the no-op
back: SIGTERM then reaches nobody.  In the model `Displaced` makes such a callback
`"nobody"`, and the property names it as the one case besides a foreign handler in
which what had the signal does not have it again.

Two things the code does, and nothing in the repository says otherwise, are in the
model without a property: closing one stream of a chain raises and the streams
after it stay open (`CloseRaises`), and `close_all` tries every broker though a
shutdown raises (`Closed`), where one that was not closed stays recorded.

## 4. What is proved

For every number of receivers, messages, brokers, producers, `get()`s, runs,
attempts, cancellations, dispatches, handlers and settings, each as
`Spec => []...`, or as `Spec => [][...]_vars` for what a step may do:

| Module | Theorems | Assuming, beyond the types of the constants |
|---|---|---|
| `ChainedReceiver_proofs` | `TypeCorrect`, `OnePlace`, `OrderKept`, `SettledOnce`, `TicketsReleased`, `NoneStarved` | |
| | `NothingLost`, `Implements` (of `Receiver`) | no second cancellation (`"interrupt" \notin Faults`) |
| `Worker_proofs` | `TypeCorrect`, `EachSettledOnce`, `LossRaised`, `ResetEachTime`, `RestBeforeClose`, `StopEndsCollecting`, `StopKept` | |
| `BrokerLifecycle_proofs` | `Invariant`, `OpenedOnceHolds`, `NoneLeftOpenHolds` | |
| | `QuietInvariant`, `PublishesOverOpenHolds`, `ListensOverOpenInQuiet` | the application shuts down once its producers and workers are done (`~CloseAnytime`) |
| `HeldMessages_proofs` | `Invariant`, `NeverEarlyHolds`, `InOrderHolds`, `NothingStrandedHolds`, `ResultTellsFatesHolds` | |
| `Delivery_proofs` | `Invariant`, `NothingDroppedHolds`, `RetryAsAnnouncedHolds`, `HeardAsSentHolds` | |
| `Dispatch_proofs` | `Invariant`, `SentAsRoutedHolds`, `EveryHandlerRunsHolds`, `UnitsAndErrorsApartHolds` | what may be configured and dispatched, see below |
| | `StampsTellHolds` | nobody dispatches an envelope that says it was handled (`Fresh`) |
| `Application_proofs` | `NamesAreKept`, `SigtermIsGivenBack`, `CalledThroughItsContainer` | |
| | `TransportPerName`, `ClosesOnlyItsOwn`, `EntriesAreTheirOwn` | what a configuration is, see below |

`Envelopes_proofs` has no theorem about a behaviour, but what the others rest on:
a list built from ranked places has exactly the elements at these places, each
once, in that order (`Ranked`, and `PickedPlaces` for those picked as they come); reading stamps back keeps those of a known class
and no other (`DecodedStamps`); writing them drops those of this process
(`EncodedLength`).

`"interrupt" \notin Faults` and `~CloseAnytime` are not for convenience: runs
`chain_interrupted` and `brokers_closed` show that the promises fail without
them (findings 1 and 3).  `ListensOverOpenInQuiet` is the other half of the
latter: what `close_all`'s docstring says is true as long as it is called in
quiet.  Two assumptions say no more than that names differ: no producer is
called `None`, no broker as a place the shutdown can be at.

`Dispatch` has its settings and envelopes as constants, and assumes of them what
the code makes of them: the tables of the locators have sequences of names, none
of which is the handler `RedispatchingHandlers` adds by itself; an envelope has a
message and a sequence of stamps, and one that overrides its transports names
some; what an application or a handler dispatches it made, so no transport
stamped it as received - what one was handed goes out again as a redispatch.
`Fresh` is an assumption of `StampsTellHolds` alone, and needed: an in-memory
transport that does not serialize records the envelope as it is, so it would tell
of a handler of somewhere else.  A redispatch strips such stamps, which is proved
(`RedispatchedFresh`); TLC evaluates `Fresh` on the instance of `dispatching`.

`Application` has its configurations as a constant, and assumes of them that the
transports have different names, being a mapping by name, and that an entry of
the chain is a middleware, a name, or a name with arguments, the last of which
alone has any (`ConfigurationsAssumption`).

### The arguments

Each module has an inductive invariant: the types, the properties themselves, and
what relates them to the place the code is at.  All of them were checked by TLC
on the bounds above before they were proved.

- `ChainedReceiver`: order alone is not inductive: a message served from a task
  must come after all those handed out, so one needs that nothing is left over
  while tasks run, that no task is left between two `get()`s, and that what is
  left over is the latest delivery of its receiver (`LeftoversInv`).  Settlement
  needs that no two envelopes share a ticket (`TicketsInv`), since `_take` goes
  by the ticket only.  `NoMessageLost` follows from `EachMessageInOnePlace` and
  `dropped = {}`, which holds as long as nothing interrupts.  `Implements` maps
  `ServeMessage` and `HandLeftover` to `Hand`, `Ack` and `Reject` to `Settle` or
  a stutter, and everything else to a stutter; that a handed message is its
  origin's next one is `EachMessageInOnePlace` and `ReceiverOrderKept` together.
  That no receiver is starved needs a stronger statement about the round in hand
  (`RoundInv`): how often a receiver that is ready was overtaken, and how many
  are still to be served before it in this round, are together at most the
  other receivers of the round it became ready in and those before it in its own.
- `Worker`: each part ties variables to `pc`: a message is in hand exactly
  between collection and reset, unsettled until its one attempt (`InHandInv`); a
  fetch is under way only at the two waits, and what it delivered is untouched
  (`FetchInv`); which Event `_stopped` is, and where a stop asked for while idle
  was noted (`StopInv`).
- `BrokerLifecycle`: a broker is flagged exactly while a `run()` has it, so no
  `run()` finds it flagged by another (`FlagIsTheRuns`), and a producer that is
  busy is busy with a broker (`BusyOnABroker`).  For publishing one adds what
  holds as long as the shutdown comes in quiet (`QuietInv`): nobody uses a broker
  until `close_all` is over, the one it closes is forgotten already, and what is
  recorded as open is open.
- `HeldMessages`: messages are numbered as dispatched and held for one dispatched
  before (`BornInOrder`); a list is open exactly as long as its message is
  handled or what it held goes out, and only then undecided (`OpenForRoot`); the
  chains that run are those in `calls`, each once (`CallsRun`); and what is held
  is in the queue once, what is not was tried and handled, and together that is
  all that was held for the current message (`QueueHolds`).
- `Delivery`: until something became of a message, or it may be dropped as
  documented, one of its deliveries is not settled (`UnsettledUntilDecided`);
  a task about to return has decided (`ReturnsDecided`); what the binding
  announces comes from its own reading of the label, and what the broker does
  from another (`AnnouncedAsMade`), and the two agree as a lost label was that of
  a first attempt (`OfPublished`).  `HeardAsSent` is about what travels: what the
  sender wrote has no stamp of that process, reading it back adds none of them,
  and the worker adds one transport and one attempt.
- `Dispatch`: a frame is at one of four stages (`Starts`, `Sends`, `Arrives`,
  `Handles`), and at each of them the history of its dispatch tells what is done
  and `todo` what is left: the two together are the senders, or the handlers,
  that the locators answered (`Fits`).  A stamp of reception is among those added
  exactly if the sync transport was among the senders, which is why the dispatch
  is handled here.  No two frames are of one dispatch (`FramesApart`), so what
  one does leaves the others as they are; a frame waits exactly if another is
  above it, and for a handler it has left.  A unit of work is of one dispatch that
  is new work, and of those made within one of that unit (`UnitsTold`); for a step
  to keep this, a frame has, until it enters a unit, that of the dispatch whose
  handler made it, and from then on that of its own dispatch (`FramesPlaced`).

  What stamps tell is a second invariant on top of that (`TellInv`).  At every
  frame the stamps begin with those the dispatch came with, and those of a sender
  and of a handler are these followed by `sentTo` and by `ran` (`Says`); while it
  is being sent, the stamps are those it arrived with and those added since.  It
  is not enough to know which stamps there are: order and repetition matter, so
  what is told is shown to be additive (`ToldJoined`: what two lists tell, joined,
  is what each tells), which rests on a list of picked places being unique
  (`ListsAlike`).  The delicate step is `SendAway`, after which the code works out
  what the transport added by subtracting equal stamps one by one: `AroundTells`
  shows that even where the transport puts its id in front, the sender's stamp
  survives the subtraction exactly once.  What an in-memory transport records
  tells of itself as it was stamped last (`PutTells`), which needs that nothing
  handled goes out (`PublishedFresh`).
- `Application`: names need that both tables have what they are said to
  (`NamesInv`): `TypeForName` alone would not tell a name that is missing from
  one that stands for nothing.  SIGTERM needs that a command remembers a handler
  of the process, or what was left of it, and never the loop of the run before it
  (`SigtermInv`).
  Containers need that every locator, also of a kernel yet to boot, calls its
  handlers through what wraps them now, and has one binding at most, which once
  booted is the last container's (`BindingInv`).

  Transports need a relation between what was built long ago and what is there
  now: `Fits` says of each application that its bus, its worker and the bus of its
  redispatches were built of what its factories discovered and made *so far*, that
  a kernel which has any of these, or an open connection, has a factory of the
  container it booted last, and that the adapter of every open connection is one
  the factory would close.  The factories' work goes over transports one by one,
  so what a step leaves of it is shown of the whole by the smallest counterexample
  (`TurnsIs`): nothing discovered or made before is replaced (`Keeps`), which is
  what makes a bus of an earlier step fit afterwards (`FitsOn`), and each sender
  is what its name's transport is built as (`BuiltFor`).  Only a new container
  forgets, and there `Fits` says there is nothing left to fit (`KeptFits`).
  `TransportPerName` then follows since bus and worker were both built of the
  same recorders for the one transport of that name, and `ClosesOnlyItsOwn` since
  the factory has every adapter a connection was opened through.

  Middleware needs the numbers of the objects built so far told apart (`ChainsFit`):
  what the container holds has numbers of its own, one for each service, no greater
  than the count (`NamedFit`); a chain has, in its place for each entry, what was
  handed over, what the container holds under that entry's key, or an object of a
  number nobody else has (`ChainFits`); bus and worker have no such object in common
  (`Apart`).  A new chain keeps this since all it builds is numbered beyond what was
  built before (`NewChainFits`), and `Resolved` numbers the objects of one chain by
  how many come before them, which tells them apart (`CountedApart`).  That keys
  differ wherever arguments do is a count of the entries before, too (`KeysApart`,
  `OrdinalsApart`).  So instances are told apart (`EntriesApart`).  That a chain as it
  is built has what was meant (`BuiltAsMeant`), the other half of
  `EntriesAreTheirOwn`, needs besides that a container which holds middleware has a service for each entry with arguments, of the class of its bare
  name (`ServicesFit`), and holds each it has a service for (`HoldsAll`).

Facts about all the elements of a list would be proved by induction, for which no
prover here is of use: the induction theorems take an operator as a parameter.
Where one is needed the smallest counterexample is taken instead (`Least`).  For
the same reason no module with a theorem uses a fold: `Lists` says which places of
a list are kept, and the two loops of `Application` are recursive functions.

Only model-checked:

- every liveness property (TLAPS proves none under fairness): `LettingGoEnds`,
  `ReadyIsServed`, `StoppedRunReturns`, `InHandIsLetGo`, `StoppedWorkerReturns`
  with its half that is about steps, `NobodyWaitsForever`, `HeldIsDecided`,
  `DeliveriesEnd`.

`TypeOK` and `OutstandingIsUnsettled` are proved and no run repeats them.

## 5. What is not modelled

The list with a reason for each is in `PROJECT.json`.  In short: redaction and log
formatting, events and exceptions (values) and the AMQP bridge (re-exports of an
external package) have no control a property could be about; taskiq, asyncio,
brokers and the container are external and appear only through what the code does
with them.  Within the modelled parts these are left out:

- that `StartedBrokers` keeps one lock per event loop (a second `asyncio.run` in
  the same process), and a `TaskiqWorker` run twice at once;
- the names a `ChainedReceiver` stamps on messages;
- the list of rejected messages `InMemoryTransport` keeps for tests;
- declaring stamps: a serializer restores a fixed set here;
- a `WorkerFactory` handed a bus of its own, and different factories or serializers
  for the parts of an application wired by hand: here bus and workers know the
  same ones, each through a `TransportFactory` of its own;
- reading a DSN or a configuration: they are given as the values that result;
- that two transports of different brokers with a loop of their own are asked for
  in one worker: which of them refuses it is up to their adapters.

## 6. Plan

1. *(done)* `ChainedReceiver` over `Receiver`; `Worker`; `BrokerLifecycle`;
   `HeldMessages`; the safety proofs of the first two.
2. *(done)* `Delivery`, `Dispatch`, `Envelopes`, `Declarations`, `Application`,
   and the first two theorems of `Application`.
3. *(done)* The safety proofs of `BrokerLifecycle`, `HeldMessages`, `Delivery`,
   `Dispatch` and `Application`, `BoundedOvertaking`.
4. `Worker` composed with `ChainedReceiver`: the worker as the consumer, its stop
   as the cancellation, so that finding 1 is reached from `stop()` alone.
