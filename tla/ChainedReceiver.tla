--------------------------- MODULE ChainedReceiver ---------------------------
(***************************************************************************)
(* One receive loop over several receivers                                 *)
(* (transport/receiver/chained_receiver.py).                               *)
(*                                                                         *)
(* ChainedReceiver.get() is an asynchronous generator: it keeps one fetch  *)
(* task per receiver, sleeps until some of them are done, and yields what  *)
(* they delivered, each message under a ticket of its own.  The tasks run  *)
(* while the generator is suspended, so a delivery, an end or a failure of *)
(* a receiver interleaves with everything else; the generator itself runs  *)
(* without interruption between two awaits.                                *)
(*                                                                         *)
(* The consumer (a worker) and the receivers are the environment: the      *)
(* consumer asks, cancels, closes and settles in any order it is allowed   *)
(* to, and may call get() again; a receiver delivers, ends or fails        *)
(* whenever it is waited on.                                               *)
(***************************************************************************)
EXTENDS Naturals, Sequences, FiniteSets, SequencesExt

CONSTANTS
  N,            \* number of receivers chained, in the order they were given
  PerReceiver,  \* number of messages each receiver has to deliver
  MaxGets,      \* bound: how often the consumer calls get()
  Ways,         \* how the consumer settles what it holds
  Faults        \* what may go wrong while get() lets go of its receivers

ASSUME ConstantsAssumption ==
  /\ N \in Nat
  /\ PerReceiver \in Nat
  /\ MaxGets \in Nat
  /\ Ways \subseteq {"ack", "reject"}
  /\ Faults \subseteq {"interrupt", "close_raises"}

Positions == 1..N
\* A message is named by the receiver it is on and its place in that receiver's queue.
Messages  == [from : Positions, n : 1..PerReceiver]
Envelopes == [ticket : Nat, msg : Messages]

VARIABLES
  delivered,    \* how many messages each receiver delivered so far
  fetch,        \* what became of each stream's fetch task ("none": not in `fetching`)
  open,         \* the streams get() opened and has not closed
  gen,          \* where the generator of the current get() is suspended
  ending,       \* why get() is letting go of its receivers
  batch,        \* the tasks of `done` the loop has yet to look at
  leftovers,    \* _leftovers: delivered as get() was stopped, for the next get()
  tickets,      \* _tickets: the last ticket given out
  outstanding,  \* _outstanding: which message each ticket stands for
  handed,       \* history: every envelope the consumer was given
  wanted,       \* history: the first way the consumer settled each message
  acks,         \* how often each receiver was told to acknowledge each message
  rejects,      \* how often each receiver was told to reject each message
  dropped,      \* history: messages a receiver delivered and get() then let go of
  overtaken,    \* history: messages of others handed out while this one's is ready
  gets          \* how often get() was called

receiving == <<delivered, fetch, open, gen, ending, batch, leftovers, dropped, overtaken,
               gets>>
settling  == <<wanted, acks, rejects>>
ticketing == <<tickets, outstanding, handed>>
vars == <<receiving, settling, ticketing>>

Done     == {"ready", "ended", "failed", "cancelled"}
Fetching == {p \in Positions : fetch[p] # "none"}
Pending  == {p \in Positions : fetch[p] = "pending"}
\* The receiver of S given first, if S has any.
First(S) == {p \in S : \A q \in S : p <= q}

\* Faulty variants, each a bug its definition could have; none is used below.
FirstDone == First({p \in Positions : fetch[p] \in Done})
AllDone == IF Pending = {} THEN Fetching ELSE {}
MayOpenAnyTime == gen \in {"fresh", "leftover_yielded"}

\* The message of p's latest delivery.
Latest(p) == [from |-> p, n |-> delivered[p]]

\* What asyncio.wait returns: every task done by now.
DoneNow == {p \in Positions : fetch[p] \in Done}

\* get() opens its streams only once nothing is left over from an earlier get().
MayOpen == gen \in {"fresh", "leftover_yielded"} /\ leftovers = <<>>

Init ==
  /\ delivered = [p \in Positions |-> 0]
  /\ fetch = [p \in Positions |-> "none"]
  /\ open = {}
  /\ gen = "idle"
  /\ ending = "none"
  /\ batch = {}
  /\ leftovers = <<>>
  /\ tickets = 0
  /\ outstanding = {}
  /\ handed = {}
  /\ wanted = [m \in Messages |-> "none"]
  /\ acks = [m \in Messages |-> 0]
  /\ rejects = [m \in Messages |-> 0]
  /\ dropped = {}
  /\ overtaken = [p \in Positions |-> 0]
  /\ gets = 0

-----------------------------------------------------------------------------
(***************************************************************************)
(* _ticketed: record where the message came from, and hand it out.         *)
(***************************************************************************)
Ticketed(m) ==
  LET e == [ticket |-> tickets + 1, msg |-> m]
  IN  /\ tickets' = e.ticket
      /\ outstanding' = outstanding \cup {e}
      /\ handed' = handed \cup {e}

\* get() builds a generator; nothing runs until the consumer asks it for a message.
Get ==
  /\ gen = "idle" /\ gets < MaxGets
  /\ gen' = "fresh"
  /\ ending' = "none"
  /\ gets' = gets + 1
  /\ UNCHANGED <<delivered, fetch, open, batch, leftovers, dropped, overtaken, settling, ticketing>>

\* The consumer asks while something is left over from an earlier get().
HandLeftover ==
  /\ gen \in {"fresh", "leftover_yielded"}
  /\ leftovers # <<>>
  /\ leftovers' = Tail(leftovers)
  /\ Ticketed(Head(leftovers))
  /\ gen' = "leftover_yielded"
  /\ UNCHANGED <<delivered, fetch, open, ending, batch, dropped, overtaken, gets, settling>>

\* The consumer asks with nothing left over: every stream is opened and waited on.
OpenStreams ==
  /\ MayOpen
  /\ open' = Positions
  /\ fetch' = [p \in Positions |-> "pending"]
  /\ gen' = "serving"
  /\ UNCHANGED <<delivered, ending, batch, leftovers, dropped, overtaken, gets, settling, ticketing>>

\* `while fetching`: wait for any of the tasks.
Wait ==
  /\ gen = "serving" /\ batch = {} /\ Fetching # {}
  /\ gen' = "waiting"
  /\ UNCHANGED <<delivered, fetch, open, ending, batch, leftovers, dropped, overtaken, gets,
                 settling, ticketing>>

\* `while fetching` with nothing to wait for: every receiver is exhausted.
Exhausted ==
  /\ gen = "serving" /\ batch = {} /\ Fetching = {}
  /\ gen' = "abandoning"
  /\ ending' = "ended"
  /\ UNCHANGED <<delivered, fetch, open, batch, leftovers, dropped, overtaken, gets,
                 settling, ticketing>>

\* asyncio.wait returns every task done by now.
WakeUp ==
  /\ gen = "waiting"
  /\ DoneNow # {}
  /\ batch' = DoneNow
  /\ gen' = "serving"
  /\ UNCHANGED <<delivered, fetch, open, ending, leftovers, dropped, overtaken, gets,
                 settling, ticketing>>

\* The next task of `done` has a message: fetch again, then yield it under a ticket.
ServeMessage ==
  /\ gen = "serving"
  /\ \E p \in First(batch) :
         /\ fetch[p] = "ready"
         /\ batch' = batch \ {p}
         /\ fetch' = [fetch EXCEPT ![p] = "pending"]
         /\ Ticketed(Latest(p))
         /\ overtaken' = [q \in Positions |->
                            IF q # p /\ fetch[q] = "ready" THEN overtaken[q] + 1
                                                           ELSE overtaken[q]]
  /\ gen' = "yielded"
  /\ UNCHANGED <<delivered, open, ending, leftovers, dropped, gets, settling>>

\* The next task of `done` met its stream's end: it is not waited on again.
ServeEnd ==
  /\ gen = "serving"
  /\ \E p \in First(batch) :
         /\ fetch[p] = "ended"
         /\ batch' = batch \ {p}
         /\ fetch' = [fetch EXCEPT ![p] = "none"]
  /\ UNCHANGED <<delivered, open, gen, ending, leftovers, dropped, overtaken, gets,
                 settling, ticketing>>

\* The next task of `done` raised: get() raises it too, after its `finally`.
ServeFailure ==
  /\ gen = "serving"
  /\ \E p \in First(batch) :
         /\ fetch[p] = "failed"
         /\ fetch' = [fetch EXCEPT ![p] = "none"]
  /\ batch' = {}
  /\ gen' = "abandoning"
  /\ ending' = "failed"
  /\ UNCHANGED <<delivered, open, leftovers, dropped, overtaken, gets, settling, ticketing>>

\* The consumer asks for the next message: the loop goes on where it yielded.
Resume ==
  /\ gen = "yielded"
  /\ gen' = "serving"
  /\ UNCHANGED <<delivered, fetch, open, ending, batch, leftovers, dropped, overtaken, gets,
                 settling, ticketing>>

\* The consumer cancels the step it waits for.
Cancel ==
  /\ gen = "waiting"
  /\ gen' = "abandoning"
  /\ ending' = "cancelled"
  /\ UNCHANGED <<delivered, fetch, open, batch, leftovers, dropped, overtaken, gets,
                 settling, ticketing>>

\* The consumer closes a generator that is not inside its try block.
CloseEarly ==
  /\ gen \in {"fresh", "leftover_yielded"}
  /\ gen' = "idle"
  /\ UNCHANGED <<delivered, fetch, open, ending, batch, leftovers, dropped, overtaken, gets,
                 settling, ticketing>>

\* The consumer closes the generator while it holds the message last yielded.
CloseYielded ==
  /\ gen = "yielded"
  /\ gen' = "abandoning"
  /\ ending' = "closed"
  /\ batch' = {}
  /\ UNCHANGED <<delivered, fetch, open, leftovers, dropped, overtaken, gets, settling, ticketing>>

-----------------------------------------------------------------------------
(***************************************************************************)
(* _abandon, and the closing of the streams.                               *)
(***************************************************************************)

KeepNothing == {<<>>}

\* What the finished tasks delivered, in any order of the receivers: a task is in
\* `fetching` at most once, and its place there says nothing about the receivers' order.
Kept ==
  {[i \in DOMAIN s |-> Latest(s[i])] : s \in SetToSeqs({p \in Positions : fetch[p] = "ready"})}

\* Every task is over: keep what they delivered for the next get().
Abandoned ==
  /\ gen = "abandoning" /\ Pending = {}
  /\ ending # "interrupted"
  /\ \E kept \in Kept : leftovers' = leftovers \o kept
  /\ fetch' = [p \in Positions |-> "none"]
  /\ gen' = "closing"
  /\ UNCHANGED <<delivered, open, ending, batch, dropped, overtaken, gets, settling, ticketing>>

\* close_stream, for the first stream still open.
CloseStream ==
  /\ gen = "closing"
  /\ \E p \in First(open) : open' = open \ {p}
  /\ UNCHANGED <<delivered, fetch, gen, ending, batch, leftovers, dropped, overtaken, gets,
                 settling, ticketing>>

\* Every stream is closed: the generator is over.
Over ==
  /\ gen = "closing" /\ open = {}
  /\ gen' = "idle"
  /\ UNCHANGED <<delivered, fetch, open, ending, batch, leftovers, dropped, overtaken, gets,
                 settling, ticketing>>

\* Closing a stream raises: get() raises that, and the streams after it stay open.
CloseRaises ==
  /\ "close_raises" \in Faults
  /\ gen = "closing"
  /\ \E p \in First(open) : open' = open \ {p}
  /\ gen' = "idle"
  /\ UNCHANGED <<delivered, fetch, ending, batch, leftovers, dropped, overtaken, gets,
                 settling, ticketing>>

\* A cancellation reaches get() while it waits for the tasks it abandons, or while
\* it closes a stream: the rest of `finally` is skipped.
Interrupt ==
  /\ "interrupt" \in Faults
  /\ \/ gen = "abandoning" /\ Fetching # {} /\ ending # "interrupted" /\ gen' = gen
     \/ gen = "closing" /\ gen' = "idle"
  /\ ending' = "interrupted"
  /\ UNCHANGED <<delivered, fetch, open, batch, leftovers, dropped, overtaken, gets,
                 settling, ticketing>>

\* gather() raises the cancellation once every task is over, its outcomes dropped.
AbandonInterrupted ==
  /\ gen = "abandoning" /\ Pending = {}
  /\ ending = "interrupted"
  /\ dropped' = dropped \cup {Latest(p) : p \in {q \in Positions : fetch[q] = "ready"}}
  /\ fetch' = [p \in Positions |-> "none"]
  /\ gen' = "idle"
  /\ UNCHANGED <<delivered, open, ending, batch, leftovers, overtaken, gets,
                 settling, ticketing>>

-----------------------------------------------------------------------------
(***************************************************************************)
(* The receivers, while they are waited on.  A task that is cancelled may  *)
(* still deliver, end or fail in that moment.                              *)
(***************************************************************************)
Outcome(p, what) ==
  /\ fetch[p] = "pending"
  /\ fetch' = [fetch EXCEPT ![p] = what]
  /\ UNCHANGED <<open, gen, ending, batch, leftovers, dropped, gets, settling, ticketing>>

Deliver(p) ==
  /\ delivered[p] < PerReceiver
  /\ delivered' = [delivered EXCEPT ![p] = @ + 1]
  /\ overtaken' = [overtaken EXCEPT ![p] = 0]
  /\ Outcome(p, "ready")

End(p)  == Outcome(p, "ended") /\ UNCHANGED <<delivered, overtaken>>
Fail(p) == Outcome(p, "failed") /\ UNCHANGED <<delivered, overtaken>>

NeverCancelled(p) == FALSE /\ UNCHANGED vars

Cancelled(p) ==
  /\ gen = "abandoning"
  /\ Outcome(p, "cancelled")
  /\ UNCHANGED <<delivered, overtaken>>

-----------------------------------------------------------------------------
(***************************************************************************)
(* ack and reject: _take the ticket, then tell the receiver it stands for. *)
(***************************************************************************)
TakenInOrder(e) == {o \in outstanding : \A x \in outstanding : o.ticket <= x.ticket}

Taken(e) == {o \in outstanding : o.ticket = e.ticket}

Untaken(e) == outstanding \ Taken(e)

Told(count, es) == [m \in Messages |->
                      IF \E o \in es : o.msg = m THEN count[m] + 1 ELSE count[m]]

Asked(e, how) ==
  wanted' = [wanted EXCEPT ![e.msg] = IF @ = "none" THEN how ELSE @]

Ack(e) ==
  /\ "ack" \in Ways
  /\ Asked(e, "ack")
  /\ outstanding' = Untaken(e)
  /\ acks' = Told(acks, Taken(e))
  /\ UNCHANGED <<receiving, rejects, tickets, handed>>

Reject(e) ==
  /\ "reject" \in Ways
  /\ Asked(e, "reject")
  /\ outstanding' = Untaken(e)
  /\ rejects' = Told(rejects, Taken(e))
  /\ UNCHANGED <<receiving, acks, tickets, handed>>

-----------------------------------------------------------------------------
Generator ==
  \/ Wait \/ Exhausted \/ WakeUp
  \/ ServeMessage \/ ServeEnd \/ ServeFailure
  \/ Abandoned \/ AbandonInterrupted \/ CloseStream \/ Over

Consumer ==
  \/ Get \/ HandLeftover \/ OpenStreams \/ Resume
  \/ Cancel \/ CloseEarly \/ CloseYielded
  \/ \E e \in handed : Ack(e) \/ Reject(e)

Receivers == \E p \in Positions : Deliver(p) \/ End(p) \/ Fail(p) \/ Cancelled(p)

Next == Generator \/ Consumer \/ Receivers \/ CloseRaises \/ Interrupt

Spec == Init /\ [][Next]_vars

(***************************************************************************)
(* The event loop runs every task that is ready; a receiver ends a step    *)
(* that was cancelled (receiver_interface.py asks that of it); a worker    *)
(* asks for the next message once it settled the last.  Nothing makes a    *)
(* receiver deliver, or a consumer cancel, close or call get() again.      *)
(***************************************************************************)
FairSpec ==
  /\ Spec
  /\ WF_vars(Generator)
  /\ WF_vars(HandLeftover \/ OpenStreams \/ Resume)
  /\ \A p \in Positions : WF_vars(Cancelled(p))

-----------------------------------------------------------------------------
(***************************************************************************)
(* Properties.                                                             *)
(***************************************************************************)

\* Every variable has its type, and get() is where its local variables say it is.
TypeOK ==
  /\ delivered \in [Positions -> 0..PerReceiver]
  /\ fetch \in [Positions -> {"none", "pending"} \cup Done]
  /\ open \subseteq Positions
  /\ gen \in {"idle", "fresh", "leftover_yielded", "serving", "waiting", "yielded",
              "abandoning", "closing"}
  /\ ending \in {"none", "ended", "failed", "cancelled", "closed", "interrupted"}
  /\ batch \subseteq Positions
  /\ leftovers \in Seq(Messages)
  /\ tickets \in Nat
  /\ outstanding \subseteq Envelopes
  /\ handed \subseteq Envelopes
  /\ wanted \in [Messages -> {"none", "ack", "reject"}]
  /\ acks \in [Messages -> Nat]
  /\ rejects \in [Messages -> Nat]
  /\ dropped \subseteq Messages
  /\ overtaken \in [Positions -> Nat]
  /\ gets \in 0..MaxGets

Arrived(m) == m.n <= delivered[m.from]
InTask(m)  == fetch[m.from] = "ready" /\ m = Latest(m.from)
Left(m)    == \E i \in DOMAIN leftovers : leftovers[i] = m
Given(m)   == \E e \in handed : e.msg = m

\* A message a receiver delivered is in exactly one place - in its finished task, left
\* over for the next get(), handed to the consumer, or dropped - and handed out or
\* left over only once, through every order of deliveries, stops and further get()s.
EachMessageInOnePlace ==
  /\ \A m \in Messages : Arrived(m) <=> InTask(m) \/ Left(m) \/ Given(m) \/ m \in dropped
  /\ \A m \in Messages :
       /\ InTask(m) => ~Left(m) /\ ~Given(m) /\ m \notin dropped
       /\ Left(m) => ~Given(m) /\ m \notin dropped
       /\ Given(m) => m \notin dropped
  /\ \A i, j \in DOMAIN leftovers : leftovers[i] = leftovers[j] => i = j
  /\ \A e, f \in handed : e.msg = f.msg => e = f

\* "each receiver's own order is kept": across get()s, a message is handed out after
\* every earlier message of its receiver, those left over included.
ReceiverOrderKept ==
  /\ \A e, f \in handed : e.msg.from = f.msg.from /\ e.ticket < f.ticket => e.msg.n < f.msg.n
  /\ \A e \in handed, i \in DOMAIN leftovers :
       e.msg.from = leftovers[i].from => e.msg.n < leftovers[i].n

\* "A message is settled exactly once": however late, often and in whatever order the
\* consumer settles what it holds, each receiver is told of each of its messages once,
\* and in the way its holder settled it first.
SettledAsAsked ==
  \A m \in Messages :
    /\ acks[m] = IF wanted[m] = "ack" THEN 1 ELSE 0
    /\ rejects[m] = IF wanted[m] = "reject" THEN 1 ELSE 0

\* A ticket is outstanding exactly as long as its message was handed out and is unsettled,
\* so tickets are never confused and none is kept for ever.
OutstandingIsUnsettled == outstanding = {e \in handed : wanted[e.msg] = "none"}

\* Between two get()s, and while leftovers are handed out, no fetch is under way; while
\* the receivers are waited on, nothing is left over.  What is left over is the latest
\* delivery of its receiver.
AtRest == gen \in {"idle", "fresh", "leftover_yielded", "closing"}

LeftoversInv ==
  /\ AtRest => \A p \in Positions : fetch[p] = "none"
  /\ ~AtRest => leftovers = <<>>
  /\ \A p \in Positions : fetch[p] = "ready" => delivered[p] > 0
  /\ \A i \in DOMAIN leftovers : leftovers[i] = Latest(leftovers[i].from)

\* No two envelopes share a ticket, and only what was handed out is settled.
TicketsInv ==
  /\ \A e \in handed : e.ticket <= tickets
  /\ \A e, f \in handed : e.ticket = f.ticket => e = f
  /\ \A m \in Messages : wanted[m] # "none" => Given(m)

\* The inductive invariant.
IndInv ==
  /\ TypeOK
  /\ LeftoversInv
  /\ TicketsInv
  /\ EachMessageInOnePlace
  /\ ReceiverOrderKept
  /\ SettledAsAsked
  /\ OutstandingIsUnsettled

\* "one that never runs dry does not keep the others from being served": while a
\* receiver's message waits, each other receiver is served at most once in the round at
\* hand, and those given before it once more in the next.
BoundedOvertaking ==
  \A p \in Positions : fetch[p] = "ready" => overtaken[p] <= (N - 1) + (p - 1)

\* "a message one of them delivered in that same moment is kept [...] rather than lost":
\* what a receiver delivered, get() hands out, keeps for the next get(), or is yet to see.
\* It holds unless a cancellation cuts get()'s `finally` short.
NoMessageLost ==
  \A m \in Messages : Arrived(m) => InTask(m) \/ Left(m) \/ Given(m)

\* Told to stop, or met with a failure, get() comes to rest: it waits for nothing that
\* nobody cancelled.
LettingGoEnds == gen = "abandoning" ~> gen = "idle"

\* A message that arrived is served, or kept as get() stops.
ReadyIsServed == \A p \in Positions : fetch[p] = "ready" ~> fetch[p] # "ready"

\* Together the receivers behave as the one receiver a worker expects.
R == INSTANCE Receiver WITH
       Origins <- Positions,
       handed  <- {e.msg : e \in handed},
       settled <- [m \in Messages |-> IF acks[m] > 0 THEN "ack"
                                     ELSE IF rejects[m] > 0 THEN "reject" ELSE "none"]

ActsAsOneReceiver == R!Spec
=============================================================================
