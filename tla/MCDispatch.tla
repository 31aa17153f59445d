------------------------------ MODULE MCDispatch ------------------------------
(***************************************************************************)
(* Dispatch for TLC: the settings and envelopes that tell its rules apart. *)
(***************************************************************************)
EXTENDS Dispatch

Order == [type |-> "order"]
Event == [type |-> "event"]

\* Routes: fan-out shared with a base, a catch-all, none; each also for a redispatch.
MCRoutes == { "order" :> <<"memory", "direct">> @@ "event" :> <<"remote", "memory">>,
              "*" :> <<"memory", "remote">>,
              "event" :> <<"direct">>,
              <<>> }

\* Handlers: of both classes with one shared and two of one name; of the base alone; none.
MCHandlers == { "order" :> <<"notify", "store">> @@ "event" :> <<"store", "audit">>,
                "event" :> <<"audit">>,
                <<>> }

\* What a project starts from, and what one may change: where messages go, who handles them,
\* and what becomes of one that goes nowhere.
Usual ==
  [routes |-> <<>>, declared |-> "event" :> <<"remote">>,
   handlers |-> "order" :> <<"notify", "store">> @@ "event" :> <<"store", "audit">>,
   requireSender |-> FALSE, handleUnrouted |-> TRUE, requireHandler |-> TRUE, serializes |-> FALSE]

MCSettings ==
  { [Usual EXCEPT !.routes = routes, !.serializes = serializes] : routes \in MCRoutes, serializes \in BOOLEAN }
  \cup { [Usual EXCEPT !.declared = <<>>, !.handlers = handlers, !.requireHandler = required] :
            handlers \in MCHandlers, required \in BOOLEAN }
  \cup { [Usual EXCEPT !.declared = <<>>, !.requireSender = required, !.handleUnrouted = handled] :
            required \in BOOLEAN, handled \in BOOLEAN }

\* What a handler was handed, kept to be dispatched again later.
Kept == Envelope(Order, <<Stamp("Sent", "memory"), Stamp("MessageId", <<"memory", 0>>),
                          Stamp("Received", "in-memory"), Stamp("Handled", "notify")>>)

MCInputs ==
  { Envelope(Order, <<>>),
    Envelope(Order, <<Stamp("Delay", 1)>>),
    Envelope(Event, <<Stamp("TransportNames", <<"memory", "nowhere">>)>>) }

MCGenerated == { [type |-> "redispatch", envelope |-> Kept, names |-> names] :
                   names \in { <<>>, <<"remote">> } }

MCMessages == {Order, Event} \cup MCGenerated

MCNested == { Envelope(Event, <<>>) }

\* The instance has what StampsTellHolds supposes of the inputs.
ASSUME NobodyHandledThem == Fresh
=============================================================================
