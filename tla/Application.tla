------------------------------ MODULE Application ------------------------------
(***************************************************************************)
(* How applications are put together in one process: from a configuration  *)
(* to a bus and to workers (bundle/, message_bus_factory.py,               *)
(* worker_factory.py, transport_factory*.py, named.py, command/consume.py).*)
(*                                                                         *)
(* An application is a kernel with the messenger bundle, whose services    *)
(* are built as they are first asked for, or is wired by hand: then its    *)
(* bus and its workers have a TransportFactory each.  The container, the   *)
(* brokers' adapters and what a worker does as it runs are not here: a run *)
(* is a bus, the objects it receives from, and the signal that stops it.   *)
(***************************************************************************)
EXTENDS Declarations, Lists

CONSTANTS
  Applications,    \* the applications there may be; each has a locator
  Configurations,  \* what there may be: a set of [apps, sigterm], each application's
                   \* configuration [bundled, transports, routed, middleware, defaults,
                   \* logging, own, receivers, signals, serializer], and whom the process has SIGTERM reach
  Asked,           \* the names a worker may be asked for: a set of sequences
  MaxBoots,        \* bound: how often a kernel boots
  MaxBuilds        \* bound: how often a bus or a worker is asked for

ASSUME ApplicationsAssumption ==
  /\ Applications \subseteq Locators
  /\ \A c \in Configurations : DOMAIN c.apps \subseteq Applications
  /\ MaxBoots \in Nat /\ MaxBuilds \in Nat

\* SIGTERM reaches someone; transports are a mapping by name; of the entries of a chain only those with arguments have any.
ASSUME ConfigurationsAssumption ==
  /\ \A names \in Asked : IsSequence(names)
  /\ \A c \in Configurations : c.sigterm \in {"default", "app", "callback", "foreign"}
  /\ \A c \in Configurations : \A a \in DOMAIN c.apps :
       LET transports == c.apps[a].transports
           entries    == c.apps[a].middleware
       IN  /\ IsSequence(transports) /\ IsSequence(entries)
           /\ \A i, j \in DOMAIN transports : transports[i].name = transports[j].name => i = j
           /\ \A i \in DOMAIN entries :
                /\ entries[i].kind \in {"built", "name", "args"}
                /\ entries[i].kind # "args" => entries[i].args = None

VARIABLES
  config,      \* the configuration of each application
  app,         \* each application, see Init
  discovered,  \* TransportFactory._discovered: the adapters of each, by scheme
  made,        \* InMemoryTransportFactory._made: <<adapter, name>> to transport
  opened,      \* the connections each application's publishers opened: <<adapter, connection>>
  objects,     \* how many objects were built: each is told apart by its number
  builds,      \* how often a bus or a worker was asked for
  sigterm,     \* who SIGTERM reaches: "default", "app" (installed with signal.signal), "callback"
               \* (added to the loop), "foreign" (not Python's), "loop" (the worker's stop) or "nobody"
  installed,   \* who the process installed for it
  command      \* the command that consumes, if any: <<[app, arranged, previous]>>

building == <<app, discovered, made, objects, builds>>
consuming == <<sigterm, command>>
vars == <<declaring, config, building, opened, consuming, installed>>

\* A value there may be none of is a sequence: <<>>, or the value alone.
Init ==
  /\ DeclarationsInit
  /\ \E c \in Configurations : config = c.apps /\ installed = c.sigterm
  /\ app = [a \in DOMAIN config |->
       [phase     |-> IF config[a].bundled THEN "new" ELSE "booted",
        container |-> 0,      \* which one, once booted
        services  |-> <<>>,   \* the middleware it holds, by name: [of, args]
        factory   |-> 0,      \* BuiltTransports.factory: the container it was built for, or 0
        named     |-> <<>>,   \* _NamedMiddleware.builders
        bus       |-> <<>>,   \* the publishing bus: [chain, senders]
        worker    |-> <<>>,   \* the worker that runs: [names, receivers, chain]
        again     |-> <<>>]]  \* WorkerFactory._publishing
  /\ discovered = [r \in (DOMAIN config) \X {"shared", "bus", "workers"} |-> <<>>]
  /\ made = <<>>
  /\ opened = [a \in DOMAIN config |-> {}]
  /\ objects = 0 /\ builds = 0
  /\ sigterm = installed
  /\ command = <<>>

Bundled(a) == config[a].bundled

-----------------------------------------------------------------------------
(***************************************************************************)
(* Configuration.                                                          *)
(***************************************************************************)

\* Dsn.parse: a scheme in lower case; options are no part of the connection.
Lower(scheme) == IF scheme = "AMQP" THEN "amqp" ELSE scheme
Scheme(t) == Lower(t.dsn.scheme)
Connection(t) == <<Scheme(t), t.dsn.at>>
Malformed(t) == t.dsn.scheme = ""

\* TransportConfig.settings: the queue over the options over what the DSN says.
SettingsOf(t) == (IF t.queue = None THEN <<>> ELSE "queue" :> t.queue) @@ t.options @@ t.dsn.options

\* by_connection: those of one server together, servers and transports in the order first named.
ByConnection(transports) ==
  LET server(i) == {j \in DOMAIN transports : Connection(transports[j]) = Connection(transports[i])}
      grouped[k \in 0..Len(transports)] ==
        IF k = 0 THEN <<>>
        ELSE IF \E j \in server(k) : j < k THEN grouped[k - 1]
        ELSE grouped[k - 1] \o Picked(transports, server(k))
  IN  grouped[Len(transports)]

Names(transports) == {transports[i].name : i \in DOMAIN transports}

-----------------------------------------------------------------------------
(***************************************************************************)
(* Transports.  A factory's work goes over the transports asked for, one   *)
(* by one, in [discovered, made, objects, senders, failed].                *)
(***************************************************************************)

\* The schemes an adapter is installed for; those whose adapter owns the consume loop; those
\* whose adapter keeps connections open for publishing.
Installed == {"in-memory", "sync", "amqp"}
OwnLoop   == {"amqp", "shop"}
Publishes == {"amqp", "shop"}
\* Those whose transports cannot be received from.
SendsOnly == {"journal"}

\* Whose TransportFactory: one for all of a kernel, or one of the bus and one of the workers.
Root(a, part) == IF Bundled(a) THEN <<a, "shared">> ELSE <<a, part>>

\* A factory the application registered is number 0, and comes before those discovered.
AdapterOf(a, acc, t) == IF Scheme(t) \in config[a].own THEN 0 ELSE acc.discovered[Scheme(t)]

\* Whether the adapter is there to be built: discovered with no serializer, one that needs it is refused.
Usable(a, t) ==
  /\ ~Malformed(t)
  /\ \/ Scheme(t) \in config[a].own
     \/ Scheme(t) \in Installed /\ (Scheme(t) = "amqp" => config[a].serializer)

\* A faulty variant: an adapter is found anew each time it is asked for.
ServesAnew(a, acc, t) ==
  IF acc.failed \/ ~Usable(a, t) THEN [acc EXCEPT !.failed = TRUE]
  ELSE IF Scheme(t) \in config[a].own THEN acc
  ELSE [acc EXCEPT !.objects = @ + 1, !.discovered = Put(@, Scheme(t), acc.objects + 1)]

\* serving, _discover, factory_for: an adapter is discovered once, when first asked for.
Serves(a, acc, t) ==
  IF acc.failed \/ ~Usable(a, t) THEN [acc EXCEPT !.failed = TRUE]
  ELSE IF Scheme(t) \in config[a].own \cup DOMAIN acc.discovered THEN acc
  ELSE [acc EXCEPT !.objects = @ + 1, !.discovered = Put(@, Scheme(t), acc.objects + 1)]

\* reject_unknown_options, as_bool: what the adapters shipped here accept.
Accepted(a, t) ==
  CASE Scheme(t) = "in-memory" -> /\ DOMAIN SettingsOf(t) \subseteq {"serialize"}
                                  /\ \A o \in DOMAIN SettingsOf(t) : SettingsOf(t)[o] \in {"true", "false"}
                                  /\ "true" \in Range(SettingsOf(t)) => config[a].serializer
    [] Scheme(t) = "sync"      -> DOMAIN SettingsOf(t) = {}
    [] OTHER                   -> TRUE

\* create: a recorder is made once for each name, any other transport whenever it is asked for.
Creates(a, acc, t) ==
  LET adapter == AdapterOf(a, acc, t)
      key     == <<adapter, t.name>>
      kept    == key \in DOMAIN acc.made
      id      == IF kept THEN acc.made[key] ELSE acc.objects + 1
      built   == [name |-> t.name, scheme |-> Scheme(t), id |-> id, over |-> <<adapter, Connection(t)>>]
  IN  IF acc.failed THEN acc
      ELSE IF ~kept /\ ~Accepted(a, t) THEN [acc EXCEPT !.failed = TRUE]
      ELSE [acc EXCEPT !.objects = IF kept THEN @ ELSE id,
                       !.made = IF Scheme(t) = "in-memory" THEN Put(@, key, id) ELSE @,
                       !.senders = Put(@, t.name, built)]

\* A container builds its TransportFactory as it is first needed, with nothing discovered.
Work(a, part, n) ==
  [discovered |-> IF Bundled(a) /\ app[a].factory # app[a].container THEN <<>> ELSE discovered[Root(a, part)],
   made |-> made, objects |-> n, senders |-> <<>>, failed |-> FALSE]

\* One transport after the other: each is served, and created where that is asked for.
Turn(a, acc, t, create) == IF create THEN Creates(a, Serves(a, acc, t), t) ELSE Serves(a, acc, t)
Turns(a, acc, transports, create) ==
  LET after[k \in 0..Len(transports)] == IF k = 0 THEN acc ELSE Turn(a, after[k - 1], transports[k], create)
  IN  after[Len(transports)]

Served(a, acc, transports)  == Turns(a, acc, transports, FALSE)
Created(a, acc, transports) == Turns(a, acc, transports, TRUE)

\* What a factory did stays done, whether or not it failed.
Worked(a, part, acc) ==
  /\ discovered' = [discovered EXCEPT ![Root(a, part)] = acc.discovered]
  /\ made' = acc.made
  /\ objects' = acc.objects

-----------------------------------------------------------------------------
(***************************************************************************)
(* The chain: what the configuration names, each entry an instance         *)
(* [of, args, id]; an entry is [kind, name, args].                         *)
(***************************************************************************)
\* What middleware is registered under: the name, or for an entry with arguments its entry_key.
Bare(name) == <<name>>

\* A faulty variant: entries of one name share a key.
KeyByName(name, ordinal) == <<name, 0>>
EntryKey(name, ordinal) == <<name, ordinal>>

\* _middleware_keys: one with arguments is counted among those alone; one already built has none.
Key(entries, i) ==
  CASE entries[i].kind = "built" -> <<>>
    [] entries[i].kind = "name"  -> Bare(entries[i].name)
    [] OTHER -> EntryKey(entries[i].name, Cardinality({j \in 1..i - 1 : entries[j].kind = "args"}))

\* register_middleware_with_arguments: each entry with arguments is a service of its own.
WithArguments(entries, services) ==
  LET given      == {i \in DOMAIN entries : entries[i].kind = "args"}
      entry(key) == entries[CHOOSE i \in given : Key(entries, i) = key]
  IN  [key \in DOMAIN services \cup {Key(entries, i) : i \in given} |->
         IF key \in DOMAIN services THEN services[key]
         ELSE [of |-> services[Bare(entry(key).name)].of, args |-> entry(key).args]]

\* named_middleware: the container's, then those declared, then the library's own.
ClassNamed(named, name) ==
  IF Bare(name) \in DOMAIN named THEN named[Bare(name)].of
  ELSE IF name \in DOMAIN middleware THEN middleware[name]
  ELSE IF name = "logging" THEN "Logging" ELSE None

\* resolve: an instance for each entry, in order.  Only a class declared can be given arguments
\* here: the container's own come under the key, and the library's takes none.
Resolved(named, entries, n) ==
  LET found    == {i \in DOMAIN entries : Key(entries, i) \in DOMAIN named}
      class(i) == ClassNamed(named, entries[i].name)
      refused  == {i \in DOMAIN entries \ found :
                     \/ entries[i].kind # "built" /\ class(i) = None
                     \/ entries[i].kind = "args" /\ (Bare(entries[i].name) \in DOMAIN named \/ entries[i].name \notin DOMAIN middleware)}
      fresh    == {i \in DOMAIN entries \ (found \cup refused) : entries[i].kind # "built"}
  IN  [chain |-> [i \in DOMAIN entries |->
                    IF i \in found THEN named[Key(entries, i)]
                    ELSE IF i \in fresh
                    THEN [of |-> class(i), args |-> entries[i].args, id |-> n + Cardinality({j \in fresh : j <= i})]
                    ELSE [of |-> entries[i].name, args |-> None, id |-> 0]],
       objects |-> n + Cardinality(fresh),
       failed |-> refused # {}]

BuiltEntry(name) == [kind |-> "built", name |-> name, args |-> None]
\* _in_units_of_work: a kernel's messages are units of work.
Entries(a) == (IF Bundled(a) THEN <<BuiltEntry("UnitOfWork")>> ELSE <<>>) \o config[a].middleware

\* chain: what waits for the current bus first, routing and handling last; or only what is named.
Chain(a, resolved, defaults) ==
  LET built(names) == [i \in DOMAIN names |-> [of |-> names[i], args |-> None, id |-> 0]]
  IN  IF config[a].defaults THEN built(<<"DispatchAfter">>) \o resolved.chain \o built(defaults)
      ELSE resolved.chain

\* _named_from_config: the keys the container has, each built once for bus and workers alike.
NamedOnce(a, n) ==
  LET entries  == config[a].middleware
      services == app[a].services
      held     == {i \in DOMAIN entries : /\ Key(entries, i) \in DOMAIN services
                                          /\ \A j \in 1..i - 1 : Key(entries, j) # Key(entries, i)}
      entry(key) == CHOOSE i \in held : Key(entries, i) = key
  IN  IF ~Bundled(a) \/ app[a].named # <<>> THEN [named |-> app[a].named, objects |-> n]
      ELSE [named |-> [key \in {Key(entries, i) : i \in held} |->
                         [of |-> services[key].of, args |-> services[key].args,
                          id |-> n + Cardinality({j \in held : j <= entry(key)})]],
            objects |-> n + Cardinality(held)]

-----------------------------------------------------------------------------
(***************************************************************************)
(* The kernel: build, boot, shutdown.                                      *)
(***************************************************************************)

\* build, load_extension, process: the handlers and middleware declared so far become services;
\* each entry with arguments must name one that is a class, and receivers an alias of their own.
Build(a) ==
  LET declared == [k \in {Bare(name) : name \in DOMAIN middleware} |-> [of |-> middleware[k[1]], args |-> None]]
      services == IF config[a].logging THEN Put(declared, Bare("logging"), [of |-> "Logging", args |-> None]) ELSE declared
      entries  == config[a].middleware
      ok == /\ \A i \in DOMAIN entries : entries[i].kind = "args" =>
                 Bare(entries[i].name) \in DOMAIN services /\ services[Bare(entries[i].name)].of # "Logging"
            /\ \A i, j \in DOMAIN config[a].receivers :
                 config[a].receivers[i].alias = config[a].receivers[j].alias => i = j
  IN  /\ app[a].phase = "new"
      /\ app' = [app EXCEPT ![a].phase = IF ok THEN "built" ELSE "refused",
                            ![a].services = IF ok THEN WithArguments(entries, services) ELSE <<>>]
      /\ locators' = [locators EXCEPT ![a] = Registered(@, Append(marks, Mark("redispatch", "redispatching")))]
      /\ UNCHANGED <<messages, middleware, marks, declarations, config, discovered, made, objects, builds, opened, consuming, installed>>

\* boot: every handler is called through the container from here on.
Boot(a) ==
  /\ app[a].phase \in {"built", "down"} /\ app[a].container < MaxBoots
  /\ app' = [app EXCEPT ![a].phase = "booted", ![a].container = @ + 1,
                        ![a].named = <<>>, ![a].bus = <<>>, ![a].worker = <<>>]
  /\ locators' = [locators EXCEPT ![a] = Decorate(@, [kind |-> "container", of |-> app[a].container + 1])]
  /\ UNCHANGED <<messages, middleware, marks, declarations, config, discovered, made, objects, builds, opened, consuming, installed>>

\* TransportFactory._behind: the factories registered, then those discovered, in order.
Behind(a) ==
  LET found == discovered[Root(a, "bus")]
  IN  (IF config[a].own = {} THEN {} ELSE {0}) \cup {found[s] : s \in DOMAIN found}

\* A faulty variant: every connection of the process is closed.
ShutdownOfAll(a) ==
  /\ app[a].phase = "booted" /\ Bundled(a) /\ command = <<>>
  /\ app' = [app EXCEPT ![a].phase = "down"]
  /\ opened' = [b \in DOMAIN config |-> {}]
  /\ UNCHANGED <<declaring, config, discovered, made, objects, builds, consuming, installed>>

\* shutdown: nothing to close where no factory was built; otherwise each adapter closes what it
\* opened, up to one that raises, `last`.
Shutdown(a) ==
  /\ app[a].phase = "booted" /\ Bundled(a) /\ command = <<>>
  /\ LET behind == IF app[a].factory = 0 THEN {} ELSE Behind(a)
     IN  \/ /\ app' = [app EXCEPT ![a].phase = "down"]
            /\ opened' = [opened EXCEPT ![a] = {o \in @ : o[1] \notin behind}]
         \/ \E last \in behind :
              /\ \E o \in opened[a] : o[1] = last
              /\ app' = [app EXCEPT ![a].phase = "cut short"]
              /\ opened' = [opened EXCEPT ![a] = {o \in @ : ~(o[1] \in behind /\ o[1] <= last)}]
  /\ UNCHANGED <<declaring, config, discovered, made, objects, builds, consuming, installed>>

-----------------------------------------------------------------------------
(***************************************************************************)
(* The bus and the workers.                                                *)
(***************************************************************************)
Asks(a) == app[a].phase = "booted" /\ builds < MaxBuilds /\ builds' = builds + 1

\* MessageBusFactory.bus: the chain first, then a sender for every transport, server by server;
\* a route to none of them is refused.
Publishing(a, part, named, n) ==
  LET resolved == Resolved(named, Entries(a), n)
      acc == IF resolved.failed \/ ~config[a].defaults THEN Work(a, part, resolved.objects)
             ELSE Created(a, Work(a, part, resolved.objects), ByConnection(config[a].transports))
  IN  [acc |-> acc,
       failed |-> \/ resolved.failed \/ acc.failed
                  \/ config[a].defaults /\ ~(config[a].routed \subseteq DOMAIN acc.senders),
       bus |-> [chain |-> Chain(a, resolved, <<"Send", "Handle">>), senders |-> acc.senders]]

\* The container keeps what it built on the way to a bus, or to a worker factory.
Kept(a, once) ==
  [app[a] EXCEPT !.factory = IF Bundled(a) THEN app[a].container ELSE 0, !.named = once.named]

\* The bus is asked for: built, unless building it fails.
GetBus(a) ==
  LET once == NamedOnce(a, objects)
      p    == Publishing(a, "bus", once.named, once.objects)
  IN  /\ Asks(a) /\ app[a].bus = <<>>
      /\ app' = [app EXCEPT ![a] = [Kept(a, once) EXCEPT !.bus = IF p.failed THEN <<>> ELSE <<p.bus>>]]
      /\ Worked(a, "bus", p.acc)
      /\ UNCHANGED <<declaring, config, opened, consuming, installed>>

\* A message published opens its sender's connection, where the adapter keeps one.
Publish(a) ==
  /\ app[a].phase = "booted" /\ app[a].bus # <<>>
  /\ \E name \in DOMAIN app[a].bus[1].senders :
       LET sender == app[a].bus[1].senders[name]
       IN  sender.scheme \in Publishes /\ opened' = [opened EXCEPT ![a] = @ \cup {sender.over}]
  /\ UNCHANGED <<declaring, config, building, consuming, installed>>

ReceiverOf(alias) == [name |-> alias, scheme |-> "receiver", id |-> 0, over |-> <<>>]
Aliases(a) == {config[a].receivers[i].alias : i \in DOMAIN config[a].receivers}

\* What is drained, in the order asked for.
Ordered(names, found) == Picked(names, {i \in DOMAIN names : names[i] \in DOMAIN found})

\* WorkerFactory.worker: transports of configured names, registered receivers for the others; a
\* broker's own loop takes none of another kind, and a transport that only sends is refused.
WorkerFor(a, names, named, n) ==
  LET transports == config[a].transports
      chosen   == Once(Picked(names, {i \in DOMAIN names : names[i] \in Names(transports)}))
      group    == [i \in DOMAIN chosen |-> CHOOSE t \in ToSet(transports) : t.name = chosen[i]]
      parts    == ByConnection(group)
      resolved == Resolved(named, Entries(a), n)
      served   == Served(a, Work(a, "workers", resolved.objects), parts)
      looping  == {t \in ToSet(group) : Scheme(t) \in OwnLoop}
      mute     == {i \in DOMAIN parts : Scheme(parts[i]) \in SendsOnly}
      created  == IF looping # {} THEN served
                  ELSE Created(a, served, Picked(parts, {i \in DOMAIN parts : \A m \in mute : i <= m}))
      found    == [x \in ToSet(names) |-> IF x \in DOMAIN created.senders THEN created.senders[x] ELSE ReceiverOf(x)]
      order    == Ordered(names, found)
      refused  == resolved.failed \/ ~(ToSet(names) \subseteq Names(transports) \cup Aliases(a))
  IN  [acc |-> IF refused THEN Work(a, "workers", n) ELSE created,
       failed |-> \/ refused \/ created.failed
                  \/ looping # {} /\ Cardinality(looping) # Cardinality(ToSet(names))
                  \/ mute # {},
       worker |-> [names |-> names,
                   receivers |-> IF looping # {} THEN <<>> ELSE [i \in DOMAIN order |-> found[order[i]]],
                   chain |-> Chain(a, resolved, <<"Handle">>)]]

\* WorkerFactory._publishing_bus: a redispatch in a worker wired by hand goes out over the
\* worker's own transports, through a bus built for the first one.
Redispatch(a) ==
  LET p == Publishing(a, "workers", <<>>, objects)
  IN  /\ Asks(a) /\ ~Bundled(a) /\ app[a].worker # <<>> /\ app[a].again = <<>>
      /\ app' = [app EXCEPT ![a].again = IF p.failed THEN <<>> ELSE <<p.bus>>]
      /\ Worked(a, "workers", p.acc)
      /\ UNCHANGED <<declaring, config, opened, consuming, installed>>

-----------------------------------------------------------------------------
(***************************************************************************)
(* messenger:consume: a worker is built and run, and SIGTERM borrowed.     *)
(***************************************************************************)

\* What getsignal tells of who is displaced: nothing of a handler that is not Python's; of a
\* callback of the loop, the handler that does nothing under which the loop keeps callbacks.
Displaced ==
  CASE sigterm = "foreign"  -> None
    [] sigterm = "callback" -> "nobody"
    [] OTHER                -> sigterm

\* A worker is built, or the command fails; _stop_on_sigterm arranges for the signal, where the
\* loop can handle any: a callback the loop had for it is dropped.
Consume(a) ==
  LET once == NamedOnce(a, objects)
  IN  /\ Asks(a) /\ command = <<>>
      /\ \E names \in Asked :
           LET w == WorkerFor(a, names, once.named, once.objects)
           IN  /\ names # <<>>
               /\ app' = [app EXCEPT ![a] = [Kept(a, once) EXCEPT !.worker = IF w.failed THEN <<>> ELSE <<w.worker>>]]
               /\ Worked(a, "workers", w.acc)
               /\ IF w.failed THEN UNCHANGED consuming
                  ELSE /\ command' = <<[app |-> a, arranged |-> config[a].signals, previous |-> Displaced]>>
                       /\ sigterm' = IF config[a].signals THEN "loop" ELSE sigterm
      /\ UNCHANGED <<declaring, config, opened, installed>>

\* A faulty variant: SIGTERM is left at its default.
RestoredToDefault(c) == IF c.arranged THEN "default" ELSE sigterm

\* _restore_sigterm: the loop's own removal leaves the default; what was told is put back.
Restored(c) ==
  IF ~c.arranged THEN sigterm
  ELSE IF c.previous = None THEN "default" ELSE c.previous

\* run() returned or raised: after the time limit, a signal, Ctrl-C, an error.
RunEnds ==
  /\ command # <<>>
  /\ sigterm' = Restored(command[1])
  /\ command' = <<>>
  /\ app' = [app EXCEPT ![command[1].app].worker = <<>>]
  /\ UNCHANGED <<declaring, config, discovered, made, objects, builds, opened, installed>>

-----------------------------------------------------------------------------
Declares == Declare /\ UNCHANGED <<config, building, opened, consuming, installed>>

Next ==
  \/ Declares \/ RunEnds
  \/ \E a \in DOMAIN config :
       Build(a) \/ Boot(a) \/ GetBus(a) \/ Publish(a) \/ Redispatch(a) \/ Consume(a) \/ Shutdown(a)

Spec == Init /\ [][Next]_vars

-----------------------------------------------------------------------------
(***************************************************************************)
(* Properties.                                                             *)
(***************************************************************************)

\* What entry e is meant to be: the class of its name - the container's, as it was built, or the
\* one declared last, or the library's own - with the arguments the entry gives.
Meant(a, e) ==
  [of |-> IF e.kind = "built" THEN e.name
          ELSE IF Bare(e.name) \in DOMAIN app[a].services THEN app[a].services[Bare(e.name)].of
          ELSE IF e.name \in DOMAIN middleware THEN middleware[e.name] ELSE "Logging",
   args |-> e.args]

\* The chains an application has: of its bus, of its worker, of the bus its redispatches go out through.
Chained(r) == {part \in {"bus", "worker", "again"} : r[part] # <<>>}

\* The place before the first entry configured, in a chain; what an entry came to.
First(a) == (IF config[a].defaults THEN 1 ELSE 0) + (IF Bundled(a) THEN 1 ELSE 0)
Instance(a, part, i) == app[a][part][1].chain[First(a) + i]

\* What the container holds for all chains; entries that are one bare name.
Held(a, i) ==
  LET e == config[a].middleware[i]
  IN  /\ Bundled(a)
      /\ e.kind = "args" \/ (e.kind = "name" /\ Bare(e.name) \in DOMAIN app[a].services)
SameEntry(a, i, j) ==
  LET entries == config[a].middleware
  IN  \/ i = j
      \/ entries[i].kind = "name" /\ entries[j].kind = "name" /\ entries[i].name = entries[j].name

\* Two entries of a chain, or of two, are one instance just if the container holds it and they are
\* the same entry or the same bare name - those handed over already built aside.
EntriesApart ==
  \A a \in DOMAIN config : \A p, q \in Chained(app[a]) :
    LET entries == config[a].middleware
    IN  \A i, j \in DOMAIN entries :
          (p # q \/ i # j) /\ ~(entries[i].kind = "built" /\ entries[j].kind = "built") =>
            (Instance(a, p, i) = Instance(a, q, j) <=> Held(a, i) /\ SameEntry(a, i, j))

BeginsWell(a, chain) ==
  /\ config[a].defaults => chain[1].of = "DispatchAfter"
  /\ Bundled(a) => chain[First(a)].of = "UnitOfWork"

\* A chain that is built has, in the place of each entry, the class its name stands for at that
\* moment, with its arguments.
BuiltAsMeant ==
  \A a \in DOMAIN config : \A part \in Chained(app'[a]) :
    app'[a][part] # app[a][part] =>
      LET entries == config[a].middleware
          chain   == app'[a][part][1].chain
      IN  /\ BeginsWell(a, chain)
          /\ \A i \in DOMAIN entries :
               /\ chain[First(a) + i].of = Meant(a, entries[i]).of
               /\ chain[First(a) + i].args = Meant(a, entries[i]).args

\* A chain is as configured, for entries of one name and different arguments above all: each entry
\* is built of its own name with its own arguments, and from then on shares its instance with the
\* same bare name and with the other chains only where a container holds it
\* (middleware_arguments.py, named_middleware.py), whatever is declared before and after.
EachEntryIsItsOwn == [][BuiltAsMeant /\ EntriesApart']_vars

\* A message published to a recorder is where the worker of that name looks for it: a kernel's
\* bus and workers hold one object for the name, and so do a worker wired by hand and the bus its
\* redispatches go out through; a worker receives from all it was asked for, in that order.
OneTransportPerName ==
  \A a \in DOMAIN config : \A i \in DOMAIN app[a].worker :
    LET w == app[a].worker[i]
        buses == IF Bundled(a) THEN app[a].bus ELSE app[a].again
    IN  /\ w.receivers # <<>> => [k \in DOMAIN w.receivers |-> w.receivers[k].name] = w.names
        /\ \A b \in ToSet(buses) : \A k \in DOMAIN w.receivers :
             w.receivers[k].scheme = "in-memory" /\ w.receivers[k].name \in DOMAIN b.senders =>
               w.receivers[k] = b.senders[w.receivers[k].name]

\* Once a kernel has booted, each of its handlers is called through the container it booted with
\* last, whenever it was declared, and whatever wraps it is around that.
BoundToItsContainer ==
  \A a \in DOMAIN config :
    Bundled(a) /\ app[a].container > 0 =>
      \A i \in DOMAIN locators[a].called :
        LET call == locators[a].called[i]
        IN  /\ call # <<>> /\ call[1] = [kind |-> "container", of |-> app[a].container]
            /\ \A k \in 2..Len(call) : call[k].kind # "container"

\* A kernel that shut down left none of its publishers' connections open, unless an adapter
\* raised; nobody else's are closed by it.
ShutdownClosesItsOwn ==
  [][\A a \in DOMAIN config :
       /\ app'[a].phase = "down" => opened'[a] = {}
       /\ ~(opened[a] \subseteq opened'[a]) => app[a].phase = "booted" /\ app'[a].phase # "booted"]_vars

\* SIGTERM is borrowed: it stops the worker as long as one runs under it; afterwards, run after
\* run, a handler installed with signal.signal has it again, or the default.  One that is not
\* Python's is lost to the default, as _restore_sigterm says, and a callback of the loop to
\* nobody: _stop_on_sigterm's "rather than ... silently drop an application's own handler" does
\* not hold of it.
SigtermIsBorrowed ==
  IF command # <<>> /\ command[1].arranged THEN sigterm = "loop"
  ELSE sigterm \in CASE installed = "foreign"  -> {"foreign", "default"}
                     [] installed = "callback" -> {"callback", "nobody"}
                     [] OTHER                  -> {installed}
=============================================================================
