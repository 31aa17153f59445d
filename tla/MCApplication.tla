----------------------------- MODULE MCApplication -----------------------------
(***************************************************************************)
(* Application for TLC: a kernel of many settings beside a second one, or  *)
(* an application wired by hand.                                           *)
(***************************************************************************)
EXTENDS Application

MCDefaultName == [order |-> "shop:Order", remade |-> "shop:Order"]

MCSignature == [plain |-> <<"own", "injected">>, enveloped |-> <<"own", "envelope">>,
                odd |-> <<"injected", "own">>, redispatching |-> <<"own", "envelope">>]

Message(type, name, transports) == [what |-> "message", type |-> type, name |-> name, transports |-> transports]

MCImports ==
  { Message("order", None, <<"async">>), Message("order", "order.v1", <<>>), Message("remade", None, <<>>),
    [what |-> "middleware", name |-> "audit", class |-> "Audit"],
    [what |-> "middleware", name |-> "audit", class |-> "AuditAnew"],
    [what |-> "handler", locator |-> Process, type |-> "order", handler |-> "plain"],
    [what |-> "handler", locator |-> "k1", type |-> "order", handler |-> "enveloped"],
    [what |-> "handler", locator |-> "k1", type |-> "order", handler |-> "odd"],
    [what |-> "wrap", locator |-> "k1"] }

Transport(name, scheme, at, options) ==
  [name |-> name, dsn |-> [scheme |-> scheme, at |-> at, options |-> options], options |-> <<>>, queue |-> None]
Entry(kind, name, args) == [kind |-> kind, name |-> name, args |-> args]

\* Two recorders and two queues of one server; a second scheme that publishes; what only sends.
Usual ==
  [bundled |-> TRUE,
   transports |-> << Transport("memory", "in-memory", "", <<>>), Transport("async", "AMQP", "rabbit", <<>>),
                     Transport("kept", "in-memory", "", "serialize" :> "true"),
                     Transport("late", "amqp", "rabbit", "queue" :> "late") >>,
   routed |-> {"memory", "async"},
   middleware |-> << Entry("name", "audit", None), Entry("args", "audit", "billing"),
                     Entry("built", "Custom", None), Entry("args", "audit", "orders"), Entry("name", "logging", None),
                     Entry("name", "audit", None) >>,
   defaults |-> TRUE, logging |-> TRUE, own |-> {}, receivers |-> << [alias |-> "scheduler"] >>,
   signals |-> TRUE, serializer |-> TRUE]

Simple == [Usual EXCEPT !.middleware = << Entry("name", "logging", None) >>]

Small(transports) == [Simple EXCEPT !.transports = transports, !.routed = {transports[1].name}, !.receivers = <<>>]

Alone(configured, handler) == [apps |-> [k1 |-> configured], sigterm |-> handler]

\* A second application, which publishes over the same broker.
Second == [Small(<< Transport("async", "amqp", "rabbit", <<>>) >>) EXCEPT !.bundled = FALSE]

Memory == Transport("memory", "in-memory", "", <<>>)

MCConfigurations ==
  { Alone(Usual, "app"),
    Alone([Usual EXCEPT !.bundled = FALSE], "foreign"),
    Alone(Small(<< Memory, Transport("kept", "in-memory", "", <<>>) >>), "callback"),
    Alone([Usual EXCEPT !.logging = FALSE, !.defaults = FALSE, !.signals = FALSE], "default"),
    [sigterm |-> "default",
     apps |-> [k1 |-> [Second EXCEPT !.bundled = TRUE, !.own = {"shop"},
                                     !.transports = << Transport("shop", "shop", "here", <<>>), @[1] >>],
               k2 |-> Second]] }
  \cup { Alone(refused, "default") : refused \in {
            Small(<< Transport("direct", "sync", "", <<>>), Memory >>),
            [Small(<< Transport("direct", "journal", "", <<>>), Memory >>) EXCEPT !.own = {"journal"}],
            Small(<< Transport("memory", "in-memory", "", "other" :> "true") >>),
            [Small(<< Memory, Transport("kept", "in-memory", "", "serialize" :> "true") >>)
               EXCEPT !.bundled = FALSE, !.serializer = FALSE],
            Small(<< Memory, Transport("broken", "redis", "", <<>>) >>),
            [Simple EXCEPT !.routed = {"nowhere"}],
            [Simple EXCEPT !.middleware = << Entry("args", "logging", "x") >>],
            [Simple EXCEPT !.receivers = @ \o @] } }

MCAsked == { <<"scheduler", "memory">>, <<"memory", "kept">>, <<"late">>, <<"async", "memory">>, <<"direct", "memory">> }
=============================================================================
