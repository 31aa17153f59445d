------------------------------- MODULE Worker -------------------------------
(***************************************************************************)
(* The library's own receive loop (worker.py) and one message's way        *)
(* through it (_handling.py).                                              *)
(*                                                                         *)
(* Worker.run() is one task: it runs without interruption from one await   *)
(* to the next, and pc names the await it is suspended at.  Everything     *)
(* else happens in between: the receiver delivers, ends or fails; someone  *)
(* calls stop(), or cancels the task; listeners, handlers, settlements and *)
(* resets return or raise.  "next" and "ending" are not awaits: nothing    *)
(* else runs while the task is there.                                      *)
(*                                                                         *)
(* The receiver is any receiver that keeps the promises of module          *)
(* Receiver, seen as one origin.  A worker without listeners or resetter   *)
(* behaves as one whose listeners and resetter do nothing.                 *)
(***************************************************************************)
EXTENDS Naturals

CONSTANTS
  MaxMessages,   \* number of messages the receiver has to deliver
  MaxRuns,       \* bound: how often run() is called, one call after the other
  MaxCancels     \* bound: how often the task of run() is cancelled

ASSUME ConstantsAssumption ==
  /\ MaxMessages \in Nat
  /\ MaxRuns \in Nat
  /\ MaxCancels \in Nat

Messages == 1..MaxMessages

VARIABLES
  pc,             \* where run() is suspended; "idle": not running
  event,          \* `stopped`, the Event of this run: is it set
  current,        \* which Event self._stopped is: "none", "this" run's, or a "stale" one
  stopRequested,  \* self._stop_requested
  fetch,          \* the task waiting for the next message
  taken,          \* how many messages the receiver handed out
  inHand,         \* the message being settled; 0 for none
  raising,        \* what run() is about to raise, or raised last
  settled,        \* how each message was settled
  attempts,       \* how often the worker asked the receiver to settle each message
  services,       \* "clean", "used" since the last reset, or "torn": the reset raised
  runs, cancels,  \* how often run() was called, and its task cancelled
  began,          \* history: how many messages were taken before this run
  cutShort,       \* history: messages a cancellation or a failing settlement left unsettled
  owed,           \* history: a stop asked for while not running, with no run over since: "no",
                  \* one "requested", or one told to the "stale" Event of a run whose start failed
  late            \* history: messages the run may still collect, and those it collected,
                  \* since its Event was set

stopping == <<event, current, stopRequested, owed>>
counting == <<runs, cancels, began>>
message  == <<inHand, settled, attempts, services, cutShort>>
vars == <<pc, fetch, taken, raising, late, stopping, counting, message>>

Handling == {"received", "dispatching", "handled"}  \* the awaits of handle()
Settling == {"failing", "acking", "rejecting"}      \* the awaits that settle a message
Awaits   == {"starting", "waiting", "halting", "resetting", "running", "closing", "stopping"}
              \cup Handling \cup Settling

Init ==
  /\ pc = "idle"
  /\ event = FALSE
  /\ current = "none"
  /\ stopRequested = FALSE
  /\ fetch = "none"
  /\ taken = 0
  /\ inHand = 0
  /\ raising = "no"
  /\ settled = [m \in Messages |-> "none"]
  /\ attempts = [m \in Messages |-> 0]
  /\ services = "clean"
  /\ runs = 0
  /\ cancels = 0
  /\ began = 0
  /\ cutShort = {}
  /\ owed = "no"
  /\ late = [may |-> 0, did |-> 0]

-----------------------------------------------------------------------------
(***************************************************************************)
(* Stopping.                                                               *)
(***************************************************************************)

\* How many messages a run whose Event is set now may still collect: the one it is
\* fetching, which may be delivered in that moment.
MayCollect == IF pc \in {"waiting", "halting"} THEN 1 ELSE 0

SetEvent ==
  /\ event' = TRUE
  /\ late' = IF event THEN late ELSE [may |-> MayCollect, did |-> 0]

\* stop(), from a signal handler, a timer, another task or a listener.
Stop ==
  /\ pc \in Awaits \cup {"idle"}
  /\ IF current = "none" THEN stopRequested' = TRUE ELSE UNCHANGED stopRequested
  /\ IF current = "this" THEN SetEvent ELSE UNCHANGED <<event, late>>
  /\ owed' = IF pc # "idle" THEN owed ELSE IF current = "none" THEN "requested" ELSE "stale"
  /\ UNCHANGED <<pc, fetch, taken, raising, current, counting, message>>

\* A faulty variant: the request of a stop is forgotten as the run begins.
RunUnasked ==
  /\ pc = "idle" /\ runs < MaxRuns
  /\ runs' = runs + 1
  /\ began' = taken
  /\ event' = FALSE
  /\ late' = [may |-> 0, did |-> 0]
  /\ stopRequested' = FALSE
  /\ current' = "this"
  /\ raising' = "no"
  /\ pc' = "starting"
  /\ UNCHANGED <<fetch, taken, owed, cancels, message>>

\* run() begins: a new Event, set at once if a stop was requested.
Run ==
  /\ pc = "idle" /\ runs < MaxRuns
  /\ runs' = runs + 1
  /\ began' = taken
  /\ event' = stopRequested
  /\ late' = [may |-> 0, did |-> 0]
  /\ stopRequested' = FALSE
  /\ current' = "this"
  /\ raising' = "no"
  /\ pc' = "starting"
  /\ UNCHANGED <<fetch, taken, owed, cancels, message>>

\* The step that leaves run(): a stop asked for before it is settled with now.
Return ==
  /\ pc' = "idle"
  /\ owed' = "no"

-----------------------------------------------------------------------------
(***************************************************************************)
(* run(), from one await to the next.                                      *)
(***************************************************************************)
Goes(from, to) == pc = from /\ pc' = to

\* An await that raises an Exception, and one at which the task is cancelled.
Raises == raising' = "error" /\ UNCHANGED cancels
IsCancelled ==
  /\ cancels < MaxCancels
  /\ cancels' = cancels + 1
  /\ raising' = "cancelled"
Breaks == Raises \/ IsCancelled

StartedAnnounced ==
  /\ Goes("starting", "next")
  /\ UNCHANGED <<fetch, taken, raising, late, stopping, counting, message>>

\* Announcing the start is outside the try block: self._stopped keeps this run's Event.
StartFails ==
  /\ pc = "starting" /\ Return
  /\ Breaks
  /\ current' = "stale"
  /\ UNCHANGED <<fetch, taken, late, event, stopRequested, runs, began, message>>

\* _next_unless_stopped, with the stop already there.
NextStopped ==
  /\ event
  /\ Goes("next", "ending")
  /\ UNCHANGED <<fetch, taken, raising, late, stopping, counting, message>>

\* A faulty variant: the Event is not looked at before fetching.
FetchAnyway ==
  /\ Goes("next", "waiting")
  /\ fetch' = "pending"
  /\ UNCHANGED <<taken, raising, late, stopping, counting, message>>

\* _next_unless_stopped: wait for a message or the stop, whichever comes first.
Fetch ==
  /\ ~event
  /\ Goes("next", "waiting")
  /\ fetch' = "pending"
  /\ UNCHANGED <<taken, raising, late, stopping, counting, message>>

\* The fetched message is returned from _next_unless_stopped, and _settle begins.
Collects ==
  /\ pc' = "received"
  /\ inHand' = taken
  /\ services' = "used"
  /\ late' = IF event THEN [late EXCEPT !.did = @ + 1] ELSE late
  /\ UNCHANGED <<raising, cutShort>>

\* The fetched message, if any, goes unsettled: the task is cancelled.
LosesFetched ==
  /\ cutShort' = IF fetch = "ready" THEN cutShort \cup {taken} ELSE cutShort
  /\ pc' = "ending"
  /\ UNCHANGED <<inHand, services, late>>

EndsFetching ==
  /\ pc' = "ending"
  /\ UNCHANGED <<inHand, services, late, cutShort>>

\* What a fetch that is over comes to, unless the task was cancelled meanwhile.
FetchOver ==
  \/ fetch = "ready" /\ Collects
  \/ fetch \in {"ended", "cancelled"} /\ EndsFetching /\ UNCHANGED raising
  \/ fetch = "failed" /\ EndsFetching /\ raising' = "error"

\* asyncio.wait returns with the fetch done, whether or not the stop is there too.
Fetched ==
  /\ pc = "waiting" /\ fetch # "pending"
  /\ FetchOver
  /\ fetch' = "none"
  /\ UNCHANGED <<taken, stopping, counting, settled, attempts>>

\* A faulty variant: only the message is waited for.
NeverHalt ==
  /\ FALSE
  /\ UNCHANGED vars

\* asyncio.wait returns for the stop: the fetch is cancelled, and waited for.
Halt ==
  /\ event /\ fetch = "pending"
  /\ Goes("waiting", "halting")
  /\ UNCHANGED <<fetch, taken, raising, late, stopping, counting, message>>

\* The fetch is at rest; a message it delivered all the same is settled.
Halted ==
  /\ pc = "halting" /\ fetch # "pending"
  /\ IF raising = "cancelled" THEN LosesFetched /\ UNCHANGED raising ELSE FetchOver
  /\ fetch' = "none"
  /\ UNCHANGED <<taken, stopping, counting, settled, attempts>>

\* A faulty variant: the cancelled fetch is not waited for.
CancelledWithoutRest ==
  /\ pc \in {"waiting", "halting"} /\ IsCancelled
  /\ LosesFetched
  /\ fetch' = IF fetch = "pending" THEN fetch ELSE "none"
  /\ UNCHANGED <<taken, stopping, runs, began, settled, attempts>>

\* The task is cancelled while it waits: the fetch is cancelled and waited for, too.
CancelledWaiting ==
  /\ pc \in {"waiting", "halting"} /\ IsCancelled
  /\ IF fetch = "pending"
     THEN pc' = "halting" /\ UNCHANGED <<fetch, inHand, services, late, cutShort>>
     ELSE LosesFetched /\ fetch' = "none"
  /\ UNCHANGED <<taken, stopping, runs, began, settled, attempts>>

-----------------------------------------------------------------------------
(***************************************************************************)
(* _settle and handle: one message, settled once.                          *)
(***************************************************************************)
Continues == UNCHANGED <<fetch, taken, late, stopping, runs, began>>
Untouched == UNCHANGED <<inHand, settled, attempts, services, cutShort>>

\* A listener of the received event lets the message pass, or has it skipped.
Received ==
  /\ Goes("received", "dispatching") \/ Goes("received", "acking")
  /\ Continues /\ Untouched /\ UNCHANGED <<raising, cancels>>

\* The bus returned: the message is announced as handled.
Dispatched ==
  /\ Goes("dispatching", "handled")
  /\ Continues /\ Untouched /\ UNCHANGED <<raising, cancels>>

HandledAnnounced ==
  /\ Goes("handled", "acking")
  /\ Continues /\ Untouched /\ UNCHANGED <<raising, cancels>>

\* A faulty variant: a message that failed is handled again, in place.
HandledAgain ==
  /\ pc \in Handling /\ pc' = "received"
  /\ Continues /\ Untouched /\ UNCHANGED <<raising, cancels>>

\* The bus, or a listener of the received or handled event, raised: the message failed.
HandlingFails ==
  /\ pc \in Handling /\ pc' = "failing"
  /\ Continues /\ Untouched /\ UNCHANGED <<raising, cancels>>

\* A faulty variant: the cancellation is swallowed, and the loop goes on.
CancellationSwallowed ==
  /\ pc \in Handling /\ pc' = "resetting"
  /\ cancels < MaxCancels /\ cancels' = cancels + 1
  /\ cutShort' = cutShort \cup {inHand}
  /\ Continues /\ UNCHANGED <<raising, inHand, settled, attempts, services>>

\* A faulty variant: services are reset only after a message that was settled.
CancelledUnreset ==
  /\ pc \in Handling /\ pc' = "ending"
  /\ IsCancelled
  /\ inHand' = 0
  /\ cutShort' = cutShort \cup {inHand}
  /\ Continues /\ UNCHANGED <<settled, attempts, services>>

\* A cancellation is no failure of the message: it is left unsettled, the reset is not.
HandlingCancelled ==
  /\ pc \in Handling /\ pc' = "resetting"
  /\ IsCancelled
  /\ cutShort' = cutShort \cup {inHand}
  /\ Continues /\ UNCHANGED <<inHand, settled, attempts, services>>

\* announce_failure: the message is rejected whatever the failed event's listeners do.
FailureAnnounced ==
  /\ Goes("failing", "rejecting")
  /\ UNCHANGED <<raising, cancels>> \/ Breaks
  /\ Continues /\ Untouched

Asks == attempts' = [attempts EXCEPT ![inHand] = @ + 1]
Settles(how) == settled' = [settled EXCEPT ![inHand] = how] /\ UNCHANGED cutShort

\* A faulty variant: an acknowledgement that raises counts as a failure of the message.
AckedOrFailed ==
  /\ pc = "acking"
  /\ Asks
  /\ \/ Settles("ack") /\ pc' = "resetting" /\ UNCHANGED <<raising, cancels>>
     \/ pc' = "failing" /\ UNCHANGED <<settled, cutShort, raising, cancels>>
  /\ Continues /\ UNCHANGED <<inHand, services>>

\* receiver.ack and receiver.reject: done, or failing with the message settled or not.
Acked ==
  /\ Goes("acking", "resetting")
  /\ Asks
  /\ \/ Settles("ack") /\ (UNCHANGED <<raising, cancels>> \/ Breaks)
     \/ Breaks /\ cutShort' = cutShort \cup {inHand} /\ UNCHANGED settled
  /\ Continues /\ UNCHANGED <<inHand, services>>

Rejected ==
  /\ Goes("rejecting", "resetting")
  /\ Asks
  /\ \/ Settles("reject") /\ (UNCHANGED <<raising, cancels>> \/ Breaks)
     \/ Breaks /\ cutShort' = cutShort \cup {inHand} /\ UNCHANGED settled
  /\ Continues /\ UNCHANGED <<inHand, services>>

\* The `finally` of _settle, then the running event - or the way out.
Reset ==
  /\ pc = "resetting"
  /\ pc' = IF raising = "no" THEN "running" ELSE "ending"
  /\ services' = "clean"
  /\ inHand' = 0
  /\ Continues /\ UNCHANGED <<raising, cancels, settled, attempts, cutShort>>

ResetBreaks ==
  /\ Goes("resetting", "ending")
  /\ Breaks
  /\ inHand' = 0
  /\ services' = "torn"
  /\ Continues /\ UNCHANGED <<settled, attempts, cutShort>>

RunningAnnounced ==
  /\ \/ Goes("running", "next") /\ UNCHANGED <<raising, cancels>>
     \/ Goes("running", "ending") /\ Breaks
  /\ Continues /\ Untouched

-----------------------------------------------------------------------------
(***************************************************************************)
(* The `finally` of run().                                                 *)
(***************************************************************************)
Finally ==
  /\ Goes("ending", "closing")
  /\ current' = "none"
  /\ UNCHANGED <<fetch, taken, raising, late, event, stopRequested, owed, counting, message>>

Closed ==
  /\ Goes("closing", "stopping")
  /\ Continues /\ Untouched /\ UNCHANGED <<raising, cancels>>

\* Closing the stream raises: the stopped event is not announced.
CloseBreaks ==
  /\ pc = "closing" /\ Return
  /\ Breaks
  /\ UNCHANGED <<fetch, taken, late, event, current, stopRequested, runs, began, message>>

StoppedAnnounced ==
  /\ pc = "stopping" /\ Return
  /\ UNCHANGED <<raising, cancels>> \/ Breaks
  /\ UNCHANGED <<fetch, taken, late, event, current, stopRequested, runs, began, message>>

-----------------------------------------------------------------------------
(***************************************************************************)
(* The receiver, while it is waited on.  Cancelled, it may still deliver,  *)
(* end or fail in that moment.                                             *)
(***************************************************************************)
ReceiverDelivers ==
  /\ fetch = "pending" /\ taken < MaxMessages
  /\ fetch' = "ready"
  /\ taken' = taken + 1
  /\ UNCHANGED <<pc, raising, late, stopping, counting, message>>

ReceiverStops ==
  /\ fetch = "pending"
  /\ \/ fetch' \in {"ended", "failed"}
     \/ pc = "halting" /\ fetch' = "cancelled"
  /\ UNCHANGED <<pc, taken, raising, late, stopping, counting, message>>

-----------------------------------------------------------------------------
Loop ==
  \/ StartedAnnounced \/ NextStopped \/ Fetch \/ Fetched \/ Halt \/ Halted
  \/ Received \/ Dispatched \/ HandledAnnounced \/ HandlingFails
  \/ FailureAnnounced \/ Acked \/ Rejected \/ Reset \/ ResetBreaks \/ RunningAnnounced
  \/ Finally \/ Closed \/ CloseBreaks \/ StoppedAnnounced

Next ==
  \/ Loop \/ StartFails
  \/ Run \/ Stop \/ CancelledWaiting \/ HandlingCancelled
  \/ ReceiverDelivers \/ ReceiverStops

Spec == Init /\ [][Next]_vars

\* Listeners, handlers, settlements and resets return or raise, and a receiver whose
\* wait is cancelled comes to rest.  Nothing makes a receiver deliver, or end.
Fairness ==
  /\ WF_vars(Loop)
  /\ WF_vars(pc = "halting" /\ (ReceiverDelivers \/ ReceiverStops))

FairSpec == Spec /\ Fairness

-----------------------------------------------------------------------------
(***************************************************************************)
(* What the worker promises.                                               *)
(***************************************************************************)

\* Every variable keeps its type.
TypeOK ==
  /\ pc \in Awaits \cup {"idle", "next", "ending"}
  /\ event \in BOOLEAN /\ stopRequested \in BOOLEAN
  /\ owed \in {"no", "requested", "stale"}
  /\ current \in {"none", "this", "stale"}
  /\ fetch \in {"none", "pending", "ready", "ended", "failed", "cancelled"}
  /\ taken \in 0..MaxMessages /\ began \in 0..taken
  /\ inHand \in 0..taken
  /\ raising \in {"no", "error", "cancelled"}
  /\ settled \in [Messages -> {"none", "ack", "reject"}]
  /\ attempts \in [Messages -> Nat]
  /\ services \in {"clean", "used", "torn"}
  /\ runs \in 0..MaxRuns /\ cancels \in 0..MaxCancels
  /\ cutShort \subseteq 1..taken
  /\ late \in [may : 0..1, did : Nat]

\* A collected message is settled, exactly once, or still on its way to be - unless a
\* cancellation or a settlement that raised left it unsettled (Worker.run, _settle,
\* handle and announce_failure between them).
SettledOnce ==
  \A m \in 1..taken :
    /\ attempts[m] <= 1
    /\ settled[m] # "none" => attempts[m] = 1 /\ m \notin cutShort
    /\ \/ settled[m] # "none" \/ m \in cutShort
       \/ m = inHand
       \/ m = taken /\ fetch = "ready"

\* A run never carries on, nor returns normally, past a message it left unsettled: it
\* raises (run(), whose loop has no except clause).
LossIsRaised ==
  (\E m \in cutShort : m > began) => raising # "no"

\* Between two messages the services are reset, however the first ended: handled,
\* skipped, failed, cancelled, or its settlement raising (the `finally` of _settle).
ResetBetweenMessages ==
  services = "used" => pc \in Handling \cup Settling \cup {"resetting"}

\* The stream is closed, and run() left, only once the receiver is at rest, and never
\* with a message the receiver delivered still in the fetch (_next_unless_stopped).
AtRestWhenClosed ==
  pc \in {"next", "ending", "closing", "stopping", "idle"} => fetch = "none"

\* Once stopped, a run collects nothing but the message it was fetching just then
\* (_next_unless_stopped checks the Event before it fetches).
StopsCollecting == late.did <= late.may

\* Where run() fetches or handles a message.
Consuming == {"waiting", "halting", "running"} \cup Handling \cup Settling \cup {"resetting"}

\* A stop asked for before run(), or between two runs, is kept: the next run returns
\* without collecting anything - unless an earlier run failed to start, and left its
\* Event behind (stop(), and the start of run()).
StopIsKept == owed = "requested" => pc \notin Consuming

\* A run that was stopped, or that is to raise, returns, wherever it was
\* (_next_unless_stopped waits for the stop as well as for a message).
StoppedRunReturns == (pc # "idle" /\ (event \/ raising # "no")) ~> pc = "idle"

\* "A stop asked for while the worker is not running [...] is not lost: the next run
\* returns at once, without collecting anything" (WorkerInterface.stop).
NoStopIsLost == owed # "no" => pc \notin Consuming

\* A message in hand does not stay there: it is settled or its run is over.
InHandIsLetGo == \A m \in Messages : (inHand = m) ~> (inHand # m)

-----------------------------------------------------------------------------
(***************************************************************************)
(* The inductive invariant: where run() is says what its variables hold.   *)
(***************************************************************************)
Holding == Handling \cup Settling \cup {"resetting"}

\* The fetch, and what it may have delivered.
FetchInv ==
  /\ fetch # "none" <=> pc \in {"waiting", "halting"}
  /\ fetch = "ready" => taken > began /\ attempts[taken] = 0 /\ settled[taken] = "none"
                        /\ taken \notin cutShort
  /\ fetch # "none" /\ event => late = [may |-> 1, did |-> 0]

\* The message in hand, and those not delivered yet.
InHandInv ==
  /\ inHand # 0 <=> pc \in Holding
  /\ pc \in Holding => inHand > began
  /\ pc \in Handling \cup Settling => attempts[inHand] = 0 /\ inHand \notin cutShort
  /\ pc = "resetting" => settled[inHand] # "none" \/ inHand \in cutShort
  /\ \A m \in Messages : m > taken => attempts[m] = 0 /\ settled[m] = "none"

\* Which Event self._stopped is, and where a stop asked for while idle went.
StopInv ==
  /\ current = "this" <=> pc \notin {"closing", "stopping", "idle"}
  /\ pc # "idle" => current # "stale"
  /\ owed = "requested" /\ pc = "idle" => current = "none" /\ stopRequested
  /\ owed = "requested" /\ pc # "idle" => event
  /\ ~event => late.did = 0

IndInv ==
  /\ TypeOK
  /\ SettledOnce
  /\ LossIsRaised
  /\ ResetBetweenMessages
  /\ StopsCollecting
  /\ StopIsKept
  /\ FetchInv
  /\ InHandInv
  /\ StopInv
=============================================================================
