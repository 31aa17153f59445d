------------------------------- MODULE Dispatch -------------------------------
(***************************************************************************)
(* Dispatching a message through the middleware of a bus (message_bus.py,  *)
(* middleware/, handler/, transport/sender/, transport/sync,               *)
(* transport/in_memory).                                                   *)
(*                                                                         *)
(* Two tasks share the transports: an application dispatching on the bus   *)
(* that publishes, which routes and then handles, and a worker dispatching *)
(* what it collected on its own bus, which only handles.  A dispatch is a  *)
(* frame of its task; a handler that dispatches in turn, a redispatch      *)
(* above all, puts another one on top of it.  Tasks interleave at every    *)
(* middleware, sender and handler.  Holding messages back until the        *)
(* current one was handled is module HeldMessages.                         *)
(***************************************************************************)
EXTENDS Envelopes, FiniteSets, TLC

CONSTANTS
  Messages,      \* what is dispatched: each has a type, and a redispatch an envelope and names
  Settings,      \* what the application may have configured: a set of records, see below
  Inputs,        \* the envelopes an application dispatches
  Generated,     \* the messages a registered receiver hands to the worker
  Nested,        \* the envelopes a handler dispatches
  MaxDispatches  \* bound

WellFormed(e) == e = Envelope(e.message, e.stamps) /\ e.message \in Messages /\ IsSequence(e.stamps)

\* An override names transports.
Addressed(e) ==
  \A i \in DOMAIN e.stamps : e.stamps[i].type = "TransportNames" => e.stamps[i].value \in Seq(STRING)

\* The tables have sequences of names; RedispatchingHandlers adds its handler by itself.
ASSUME SettingsAssumption ==
  \A s \in Settings :
    /\ \A table \in {s.routes, s.declared, s.handlers} : \A k \in DOMAIN table : table[k] \in Seq(STRING)
    /\ \A k \in DOMAIN s.handlers : ~Contains(s.handlers[k], "redispatching")

\* What an application or a handler dispatches it made; what it was handed, it redispatches.
ASSUME EnvelopesAssumption ==
  /\ Generated \subseteq Messages
  /\ \A e \in Inputs \cup Nested : WellFormed(e) /\ Addressed(e) /\ ~Carries(e, "Received")
  /\ \A m \in Messages : m.type = "redispatch" =>
       WellFormed(m.envelope) /\ Addressed(m.envelope) /\ m.names \in Seq(STRING)

ASSUME DispatchesAssumption == MaxDispatches \in Nat

VARIABLES
  settings,    \* [routes, declared, handlers, requireSender, handleUnrouted, requireHandler, serializes]
  frames,      \* for each task the dispatches it is in, the innermost last
  dispatches,  \* history: each dispatch, in the order begun
  recorded,    \* InMemoryTransport._sent
  queue,       \* InMemoryTransport._queue
  units        \* how many units of work were opened

vars == <<settings, frames, dispatches, recorded, queue, units>>

Tasks == {"application", "worker"}

Init ==
  /\ settings \in Settings
  /\ frames = [t \in Tasks |-> <<>>]
  /\ dispatches = <<>>
  /\ recorded = <<>> /\ queue = <<>>
  /\ units = 0

-----------------------------------------------------------------------------
(***************************************************************************)
(* Routing and handlers: what the locators answer.                         *)
(***************************************************************************)

\* __mro__: an order is an event; of what both are besides nothing is ever said.
BaseOf(type) == IF type = "order" THEN "event" ELSE "object"

Found(table, type) == IF type \in DOMAIN table THEN table[type] ELSE <<>>

\* Every entry for the type or a base of it, the most specific first, without duplicates.
Accumulated(table, type) == Found(table, type) \o Found(table, BaseOf(type))

\* transports_of: what the nearest class that declares any does.
DeclaredFor(type) ==
  IF Found(settings.declared, type) # <<>> THEN Found(settings.declared, type)
  ELSE Found(settings.declared, BaseOf(type))

\* _transport_names: a stamp overrides the table, which overrides the declaration.
TransportNames(e) ==
  LET matched == Accumulated(settings.routes, e.message.type)
  IN  IF Carries(e, "TransportNames") THEN LastOf(e, "TransportNames")
      ELSE IF matched # <<>> THEN matched
      ELSE IF Found(settings.routes, "*") # <<>> THEN settings.routes["*"]
      ELSE DeclaredFor(e.message.type)

\* A faulty variant: a route a class shares with its base counts twice.
SendersWithRepeats(e) == TransportNames(e)
SendersFor(e) == Once(TransportNames(e))

\* The transports there are; an override may name another.
Senders == {"remote", "memory", "direct"}

\* HandlersLocator; RedispatchingHandlers adds the one for a redispatch nothing else handles.
HandlersFor(type) ==
  LET found == Once(Accumulated(settings.handlers, type))
  IN  IF found = <<>> /\ type = "redispatch" THEN <<"redispatching">> ELSE found

\* The name of a handler is not always its own.
NameOf(handler) == IF handler = "audit" THEN "notify" ELSE handler

-----------------------------------------------------------------------------
(***************************************************************************)
(* Frames: StackMiddleware, a cursor of its own for each dispatch.         *)
(***************************************************************************)
Chain(bus) == IF bus = "publishing" THEN <<"unit", "send", "handle">> ELSE <<"unit", "handle">>

Top(t) == Last(frames[t])
At(t, step) == frames[t] # <<>> /\ Top(t).step = step
Becomes(t, f) == frames' = [frames EXCEPT ![t] = Append(Front(@), f)]

\* MessageBus.dispatch: the unit of work of the frame below is the one to join.
Frame(t, bus, e) ==
  [dispatch |-> Len(dispatches) + 1, bus |-> bus, envelope |-> e, offset |-> 0, step |-> "next",
   todo |-> <<>>, added |-> <<>>, errors |-> <<>>,
   unit |-> IF frames[t] = <<>> THEN 0 ELSE Top(t).unit]

\* What is kept of a dispatch; `within`, of which handler's dispatch it is, if any, for the
\* properties alone.
Begun(t, bus, e) ==
  Append(dispatches, [bus |-> bus, envelope |-> e, sentTo |-> <<>>, ran |-> <<>>, failed |-> {},
                      unit |-> 0, end |-> "running", stamps |-> <<>>,
                      within |-> IF frames[t] = <<>> THEN 0 ELSE Top(t).dispatch])

\* A handler waits for what it dispatches: its frame is below.
Dispatches(t, bus, e) ==
  /\ Len(dispatches) < MaxDispatches
  /\ frames' = [frames EXCEPT ![t] =
       Append(IF @ = <<>> THEN @ ELSE Append(Front(@), [Last(@) EXCEPT !.step = "awaiting"]), Frame(t, bus, e))]
  /\ dispatches' = Begun(t, bus, e)

\* A handler of frame f ended: stamped, or its error kept under a name no other error has.
Unused(errors, name) ==
  <<name, CHOOSE n \in 1..Len(errors) + 1 : /\ ~Contains(errors, <<name, n>>)
                                            /\ \A k \in 1..n - 1 : Contains(errors, <<name, k>>)>>
HandlerEnds(f, ok) ==
  LET name == NameOf(Head(f.todo))
      rest == [f EXCEPT !.todo = Tail(@), !.step = "handling"]
  IN  IF ok THEN [rest EXCEPT !.envelope = WithStamps(@, <<Stamp("Handled", name)>>)]
      ELSE [rest EXCEPT !.errors = Append(@, Unused(@, name))]

Received(e) == Carries(e, "Received")

\* The dispatch of the top frame is over; the handler that waited for it ends as it did, unless it
\* ran a worker, which goes on after a failure.
Ends(t, end, e) ==
  LET below == Front(frames[t])
      f     == Top(t)
      fine  == end = "returned" \/ Received(f.envelope)
  IN  /\ frames' = [frames EXCEPT ![t] =
            IF below = <<>> THEN <<>> ELSE Append(Front(below), HandlerEnds(Last(below), fine))]
      /\ dispatches' = [i \in DOMAIN dispatches |->
            IF i = f.dispatch THEN [dispatches[i] EXCEPT !.end = end, !.stamps = e.stamps]
            ELSE IF below # <<>> /\ i = Last(below).dispatch
            THEN [dispatches[i] EXCEPT !.ran = Append(@, Head(Last(below).todo)),
                                       !.failed = IF ~fine THEN @ \cup {Head(Last(below).todo)} ELSE @]
            ELSE dispatches[i]]

\* A faulty variant: whatever is dispatched within a unit joins it.
JoinsUnit(t, f) ==
  LET unit == IF f.unit = 0 THEN units + 1 ELSE f.unit
  IN  /\ units' = IF f.unit = 0 THEN units + 1 ELSE units
      /\ Becomes(t, [f EXCEPT !.unit = unit, !.offset = 1])
      /\ dispatches' = [dispatches EXCEPT ![f.dispatch].unit = unit]

\* UnitOfWorkMiddleware: a received message is new work, one dispatched within another joins it.
EntersUnit(t, f) ==
  LET opens == Received(f.envelope) \/ f.unit = 0
      unit  == IF opens THEN units + 1 ELSE f.unit
  IN  /\ units' = IF opens THEN units + 1 ELSE units
      /\ Becomes(t, [f EXCEPT !.unit = unit, !.offset = 1])
      /\ dispatches' = [dispatches EXCEPT ![f.dispatch].unit = unit]

\* stack.next(): the next middleware, or the end of the chain, which returns the envelope.
Advance(t) ==
  /\ At(t, "next")
  /\ LET f == Top(t)
         e == f.envelope
         within == [f EXCEPT !.offset = @ + 1]
     IN  IF f.offset = Len(Chain(f.bus)) THEN Ends(t, "returned", e) /\ UNCHANGED units
         ELSE CASE Chain(f.bus)[f.offset + 1] = "unit" -> EntersUnit(t, f)
                [] Chain(f.bus)[f.offset + 1] = "send" ->
                     /\ Becomes(t, IF Received(e) THEN within
                                   ELSE [within EXCEPT !.step = "sending", !.todo = SendersFor(e)])
                     /\ UNCHANGED <<dispatches, units>>
                [] OTHER ->
                     IF HandlersFor(e.message.type) = <<>> /\ settings.requireHandler
                     THEN Ends(t, "raised", e) /\ UNCHANGED units
                     ELSE /\ Becomes(t, [within EXCEPT !.step = "handling", !.todo = HandlersFor(e.message.type)])
                          /\ UNCHANGED <<dispatches, units>>
  /\ UNCHANGED <<settings, recorded, queue>>

-----------------------------------------------------------------------------
(***************************************************************************)
(* Sending: SendMessageMiddleware and the transports.                      *)
(***************************************************************************)

\* A faulty variant: whatever lies beyond the number of stamps handed over.
AddedAfter(returned, before) == SubSeq(returned, Len(before) + 1, Len(returned))

\* _added_by: what follows the stamps handed over, or each stamp not accounted for by an equal
\* one of these, which accounts for one only.
AddedBy(returned, before) ==
  LET accounted(s) == Cardinality({i \in DOMAIN before : before[i] = s})
      so_far(i)    == Cardinality({j \in 1..i : returned[j] = returned[i]})
  IN  IF IsPrefix(before, returned) THEN SubSeq(returned, Len(before) + 1, Len(returned))
      ELSE Picked(returned, {i \in DOMAIN returned : so_far(i) > accounted(returned[i])})

\* The sender at hand took the envelope, and returned it with `stamps`.
Sent(t, stamps) ==
  LET f == Top(t)
  IN  /\ Becomes(t, [f EXCEPT !.todo = Tail(@), !.added = @ \o AddedBy(stamps, f.envelope.stamps)])
      /\ dispatches' = [dispatches EXCEPT ![f.dispatch].sentTo = Append(@, Head(f.todo))]

\* The envelope handed to the sender at hand: as it was before any of them, with its own stamp.
Stamped(t) == WithStamps(Top(t).envelope, <<Stamp("Sent", Head(Top(t).todo))>>)

Delayed(t) == Carries(Top(t).envelope, "Delay")

\* InMemoryTransport.send: recorded, and queued, under an id; read back first where it serializes.
SendToMemory(t) ==
  /\ At(t, "sending") /\ Top(t).todo # <<>> /\ Head(Top(t).todo) = "memory" /\ ~Delayed(t)
  /\ LET id   == Stamp("MessageId", <<"memory", Len(recorded) + 1>>)
         kept == IF settings.serializes THEN RoundTripped(Stamped(t), DefaultStamps) ELSE Stamped(t)
         put  == WithStamps(kept, <<id>>)
     IN  /\ recorded' = Append(recorded, put)
         /\ queue' = Append(queue, put)
         /\ Sent(t, Stamped(t).stamps \o AllStamps(put, "MessageId"))
  /\ UNCHANGED <<settings, units>>

\* SyncTransport.send: the envelope comes back received, to be handled here.
SendDirectly(t) ==
  /\ At(t, "sending") /\ Top(t).todo # <<>> /\ Head(Top(t).todo) = "direct" /\ ~Delayed(t)
  /\ Sent(t, Append(Stamped(t).stamps, Stamp("Received", "direct")))
  /\ UNCHANGED <<settings, recorded, queue, units>>

\* Any other sender: it appends an id, or rebuilds the envelope around one.
SendAway(t) ==
  /\ At(t, "sending") /\ Top(t).todo # <<>> /\ Head(Top(t).todo) = "remote"
  /\ LET id == <<Stamp("MessageId", <<"remote", Top(t).dispatch>>)>>
     IN  Sent(t, Stamped(t).stamps \o id) \/ Sent(t, id \o Stamped(t).stamps)
  /\ UNCHANGED <<settings, recorded, queue, units>>

\* A sender refuses the envelope or fails, or the override names none: what was sent stays sent.
SendFails(t) ==
  /\ At(t, "sending") /\ Top(t).todo # <<>>
  /\ Head(Top(t).todo) \in {"memory", "direct"} => Delayed(t)
  /\ Ends(t, "raised", Top(t).envelope)
  /\ UNCHANGED <<settings, recorded, queue, units>>

\* Every sender took it: it is handled here too where one handed it back received; and where
\* there was none, only if unrouted messages are to be.
Routed(t) ==
  /\ At(t, "sending") /\ Top(t).todo = <<>>
  /\ LET f    == Top(t)
         e    == WithStamps(f.envelope, f.added)
         sent == dispatches[f.dispatch].sentTo # <<>>
         on   == IF sent THEN Received(e) ELSE ~settings.requireSender /\ settings.handleUnrouted
     IN  IF on THEN Becomes(t, [f EXCEPT !.envelope = e, !.step = "next"]) /\ UNCHANGED dispatches
         ELSE Ends(t, IF ~sent /\ settings.requireSender THEN "raised" ELSE "returned", e)
  /\ UNCHANGED <<settings, recorded, queue, units>>

-----------------------------------------------------------------------------
(***************************************************************************)
(* Handling: HandleMessageMiddleware.                                      *)
(***************************************************************************)
Handling(t) == At(t, "handling") /\ Top(t).todo # <<>>

\* The handler at hand returns, or raises: the others run either way.
HandlerReturns(t) ==
  /\ Handling(t) /\ Head(Top(t).todo) # "redispatching"
  /\ \E ok \in BOOLEAN :
       /\ Becomes(t, HandlerEnds(Top(t), ok))
       /\ dispatches' = [dispatches EXCEPT ![Top(t).dispatch].ran = Append(@, Head(Top(t).todo)),
            ![Top(t).dispatch].failed = IF ok THEN @ ELSE @ \cup {Head(Top(t).todo)}]
  /\ UNCHANGED <<settings, recorded, queue, units>>

\* It dispatches a message of its own, through the bus that publishes.
HandlerDispatches(t) ==
  /\ Handling(t) /\ Head(Top(t).todo) # "redispatching"
  /\ Len(frames[t]) = 1
  /\ \E e \in Nested : Dispatches(t, "publishing", e)
  /\ UNCHANGED <<settings, recorded, queue, units>>

\* RedispatchMessageHandler: the envelope carried goes out as new, to the transports named if any.
Redispatched(m) ==
  WithStamps(WithoutStamps(m.envelope, "NonSendable"),
             IF m.names = <<>> THEN <<>> ELSE <<Stamp("TransportNames", m.names)>>)

Redispatch(t) ==
  /\ Handling(t) /\ Head(Top(t).todo) = "redispatching"
  /\ Dispatches(t, "publishing", Redispatched(Top(t).envelope.message))
  /\ UNCHANGED <<settings, recorded, queue, units>>

\* A faulty variant: the first handler that raises ends the dispatch.
HandlersRanOrOneFailed(t) ==
  /\ At(t, "handling") /\ (Top(t).todo = <<>> \/ Top(t).errors # <<>>)
  /\ IF Top(t).errors # <<>> THEN Ends(t, "raised", Top(t).envelope)
     ELSE Becomes(t, [Top(t) EXCEPT !.step = "next"]) /\ UNCHANGED dispatches
  /\ UNCHANGED <<settings, recorded, queue, units>>

\* Every handler ran: HandlersFailedError if any raised, and the rest of the chain otherwise.
HandlersRan(t) ==
  /\ At(t, "handling") /\ Top(t).todo = <<>>
  /\ IF Top(t).errors # <<>> THEN Ends(t, "raised", Top(t).envelope)
     ELSE Becomes(t, [Top(t) EXCEPT !.step = "next"]) /\ UNCHANGED dispatches
  /\ UNCHANGED <<settings, recorded, queue, units>>

-----------------------------------------------------------------------------
(***************************************************************************)
(* The two tasks.                                                          *)
(***************************************************************************)
Publish ==
  /\ frames["application"] = <<>>
  /\ \E e \in Inputs : Dispatches("application", "publishing", e)
  /\ UNCHANGED <<settings, recorded, queue, units>>

\* InMemoryTransport.get: the head of the queue, stamped as received from there, for the worker
\* or for one that a handler runs.
Collect(t) ==
  /\ IF t = "worker" THEN frames[t] = <<>>
     ELSE Handling(t) /\ Len(frames[t]) = 1 /\ Head(Top(t).todo) # "redispatching"
  /\ queue # <<>>
  /\ queue' = Tail(queue)
  /\ Dispatches(t, "working",
       WithStamps(Head(queue), <<Stamp("Received", "in-memory"), Stamp("AckReceipt", 1)>>))
  /\ UNCHANGED <<settings, recorded, units>>

\* A registered receiver - a scheduler, say - hands over a message this process generated.
Generate ==
  /\ frames["worker"] = <<>>
  /\ \E m \in Generated : Dispatches("worker", "working", Envelope(m, <<Stamp("Received", "scheduler")>>))
  /\ UNCHANGED <<settings, recorded, queue, units>>

Step(t) ==
  \/ Advance(t) \/ SendToMemory(t) \/ SendDirectly(t) \/ SendAway(t) \/ SendFails(t) \/ Routed(t)
  \/ HandlerReturns(t) \/ HandlerDispatches(t) \/ Redispatch(t) \/ HandlersRan(t)

Next == Publish \/ Generate \/ \E t \in Tasks : Collect(t) \/ Step(t)

Spec == Init /\ [][Next]_vars

-----------------------------------------------------------------------------
(***************************************************************************)
(* Properties.                                                             *)
(***************************************************************************)

\* Where an envelope is to go, by the documented precedence: an override, the routes of its
\* class and bases, the catch-all, the declaration; nowhere if it was received.
Destinations(e) ==
  LET type  == e.message.type
      table == UNION {ToSet(Found(settings.routes, class)) : class \in {type, BaseOf(type)}}
  IN  CASE Received(e)                               -> {}
        [] ~Received(e) /\ Carries(e, "TransportNames") -> ToSet(LastOf(e, "TransportNames"))
        [] OTHER -> IF table # {} THEN table
                    ELSE IF Found(settings.routes, "*") # <<>> THEN ToSet(settings.routes["*"])
                    ELSE ToSet(DeclaredFor(type))

Ended(d) == d.end # "running"

\* Each dispatch sends to every one of its destinations once, in this process or another, and
\* what a worker received never goes out again but by a redispatch, which makes it new; one
\* that raised may have sent to some of them, and to no other.
SentAsRouted ==
  \A i \in DOMAIN dispatches :
    LET d == dispatches[i]
    IN  /\ IsInjective(d.sentTo)
        /\ ToSet(d.sentTo) \subseteq Destinations(d.envelope)
        /\ d.end = "returned" => ToSet(d.sentTo) = Destinations(d.envelope)
        /\ d.bus = "publishing" => ~Received(d.envelope)

\* Who is to handle an envelope: every handler of its class and bases.
Bound(type) ==
  LET found == UNION {ToSet(Found(settings.handlers, class)) : class \in {type, BaseOf(type)}}
  IN  IF found = {} /\ type = "redispatch" THEN {"redispatching"} ELSE found

\* Whether it is handled in this process, once sent where it is to go.
HandledHere(d) ==
  \/ Received(d.envelope) \/ Contains(d.sentTo, "direct")
  \/ Destinations(d.envelope) = {} /\ settings.handleUnrouted /\ ~settings.requireSender

\* A message to be handled here runs each of its handlers exactly once, whichever raise, and a
\* dispatch that ran them raises exactly if one of them did; a message handed to a transport is not
\* handled as well.
EveryHandlerRuns ==
  \A i \in DOMAIN dispatches :
    LET d == dispatches[i]
    IN  /\ IsInjective(d.ran)
        /\ d.ran # <<>> => HandledHere(d)
        /\ Ended(d) /\ d.ran # <<>> => /\ ToSet(d.ran) = Bound(d.envelope.message.type)
                                      /\ d.end = "raised" <=> d.failed # {}
        /\ d.end = "returned" /\ HandledHere(d) => ToSet(d.ran) = Bound(d.envelope.message.type)

\* What the application or a handler dispatches nobody handled so far; a redispatch strips what did.
Fresh == \A e \in Inputs \cup Nested : ~Carries(e, "Handled")

\* The envelope a dispatch returns tells all that became of it: a stamp for each sender and for
\* each handler, in order, and the id each transport gave it, beyond those it came with; what
\* each transport records tells of itself alone.
StampsTell ==
  /\ \A i \in DOMAIN dispatches :
       LET d == dispatches[i]
           Values(stamps, type) == [k \in DOMAIN AllStamps(stamps, type) |-> AllStamps(stamps, type)[k].value]
           result == Envelope(d.envelope.message, d.stamps)
       IN  d.end = "returned" =>
             /\ Values(result, "Sent") = Values(d.envelope, "Sent") \o d.sentTo
             /\ Values(result, "Handled") = Values(d.envelope, "Handled") \o [k \in DOMAIN d.ran |-> NameOf(d.ran[k])]
             /\ IsPrefix(d.envelope.stamps, d.stamps)
             /\ Contains(d.sentTo, "remote") => Contains(d.stamps, Stamp("MessageId", <<"remote", i>>))
             /\ Contains(d.sentTo, "memory") =>
                  \E k \in DOMAIN recorded : Contains(d.stamps, Stamp("MessageId", <<"memory", k>>))
  /\ \A k \in DOMAIN recorded :
       /\ LastOf(recorded[k], "MessageId") = <<"memory", k>>
       /\ ~Received(recorded[k]) /\ ~Carries(recorded[k], "Handled")
       /\ Carries(recorded[k], "Sent") => LastOf(recorded[k], "Sent") = "memory"

\* What is new work: a message a worker received, or one no handler dispatched.
Own(d) == d.within = 0 \/ Received(d.envelope)

\* Errors of handlers of one name are all kept.  A message that is new work has a unit of its own,
\* no other's, even within another; one that a handler dispatches is of the unit of the message
\* handled, and so of nobody else's.
UnitsAndErrorsApart ==
  /\ \A t \in Tasks : \A k \in DOMAIN frames[t] :
       LET f == frames[t][k]
       IN  Len(f.errors) = Cardinality(dispatches[f.dispatch].failed) /\ IsInjective(f.errors)
  /\ \A i \in DOMAIN dispatches :
       LET d == dispatches[i]
       IN  /\ d.unit # 0 /\ Own(d) =>
                \A j \in DOMAIN dispatches : j # i /\ Own(dispatches[j]) => dispatches[j].unit # d.unit
           /\ d.unit # 0 /\ ~Own(d) => d.within \in DOMAIN dispatches /\ dispatches[d.within].unit = d.unit
=============================================================================
