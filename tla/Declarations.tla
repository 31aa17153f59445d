----------------------------- MODULE Declarations -----------------------------
(***************************************************************************)
(* What an application's modules declare as they are imported, or later:   *)
(* messages and their wire names, middleware by name, handlers             *)
(* (message_registry.py, decorator/, middleware_registry.py,               *)
(* handlers_registry.py, handlers_locator.py, handler_descriptor.py).      *)
(*                                                                         *)
(* Everything here belongs to the process, except the locators: beside the *)
(* process-wide one each kernel has its own, which wraps its handlers.     *)
(***************************************************************************)
EXTENDS Naturals, FiniteSets, Sequences, SequencesExt, TLC

CONSTANTS
  DefaultName,     \* module:QualName of each message class: a class made twice shares its own
  Signature,       \* for each handler, what each parameter is: "own", "envelope" or "injected"
  Locators,        \* who keeps handlers
  Imports,         \* the declarations modules make: a set of records, see Declare
  MaxDeclarations  \* bound

ASSUME DeclarationsAssumption == MaxDeclarations \in Nat

VARIABLES
  nameByType, typeByName, transportsByType,  \* message_registry.py
  travelled,    \* history: every name a message class was known by, with the class
  middleware,   \* MiddlewareRegistry._declared, the process-wide one
  marks,        \* HANDLERS_ATTRIBUTE of every handler, in the order declared: [type, handler]
  locators,     \* each HandlersLocator: what was declared, and the decorators in order
  declarations  \* how many were made

messages == <<nameByType, typeByName, transportsByType, travelled>>
declaring == <<messages, middleware, marks, locators, declarations>>

None == "none"
Process == "process"

DeclarationsInit ==
  /\ nameByType = <<>> /\ typeByName = <<>> /\ transportsByType = <<>> /\ travelled = {}
  /\ middleware = <<>>
  /\ marks = <<>>
  /\ locators = [l \in Locators \cup {Process} |-> [declared |-> <<>>, called |-> <<>>, wraps |-> <<>>]]
  /\ declarations = 0

-----------------------------------------------------------------------------
(***************************************************************************)
(* Messages.                                                               *)
(***************************************************************************)
NameOf(type) == IF type \in DOMAIN nameByType THEN nameByType[type] ELSE DefaultName[type]

Claimed(name, type) == name \in DOMAIN typeByName /\ typeByName[name] # type

\* A table with `key` standing for `value`, whatever it stood for before.
Put(table, key, value) ==
  [k \in DOMAIN table \cup {key} |-> IF k = key THEN value ELSE table[k]]

\* A faulty variant: the last class to claim a name has it.
ClaimedAnyway(name, type) ==
  /\ nameByType' = Put(nameByType, type, name)
  /\ typeByName' = Put(typeByName, name, type)

\* _claim: a name another class has is refused.
Claim(name, type) ==
  /\ ~Claimed(name, type)
  /\ nameByType' = Put(nameByType, type, name)
  /\ typeByName' = Put(typeByName, name, type)

\* register_message: a name given is claimed; the default one only where the class has none.
DeclareMessage(type, name, transports) ==
  /\ IF name = None /\ type \in DOMAIN nameByType THEN UNCHANGED <<nameByType, typeByName>>
     ELSE Claim(IF name = None THEN DefaultName[type] ELSE name, type)
  /\ transportsByType' = IF transports = <<>> THEN transportsByType ELSE Put(transportsByType, type, transports)
  /\ travelled' = travelled \cup {[name |-> nameByType'[type], type |-> type]}
  /\ UNCHANGED <<middleware, marks, locators>>

\* type_for_name: a name nothing was declared under resolves to nothing.
TypeForName(name) == IF name \in DOMAIN typeByName THEN typeByName[name] ELSE None

-----------------------------------------------------------------------------
(***************************************************************************)
(* Middleware: the last class declared under a name is the one it names.   *)
(***************************************************************************)
DeclareMiddleware(name, class) ==
  /\ middleware' = Put(middleware, name, class)
  /\ UNCHANGED <<messages, marks, locators>>

-----------------------------------------------------------------------------
(***************************************************************************)
(* Handlers.                                                               *)
(***************************************************************************)

\* _wants_envelope: what the bus passes comes first - the message, and the envelope where the
\* second parameter is annotated so - and what a container supplies follows.
Own(handler) == SelectSeq(Signature[handler], LAMBDA p : p # "injected")
Callable(handler) ==
  /\ Own(handler) # <<>> /\ IsPrefix(Own(handler), Signature[handler])
  /\ Len(Own(handler)) <= 2
  /\ Len(Own(handler)) = 2 => Own(handler)[2] = "envelope"

\* A wrap is something of the application's, a span, say, or a ContainerBinding: that one calls
\* the handler as declared, whatever wrapped it before.
Binds(wrap) == wrap.kind = "container"

\* _decorated: every wrap, in order, from the last that binds on.
Decorated(wraps) == SubSeq(wraps, Max({1} \cup {i \in DOMAIN wraps : Binds(wraps[i])}), Len(wraps))

\* A faulty variant: only what is there as the decorator is added is wrapped.
RegisteredBare(locator, handlers) ==
  [locator EXCEPT !.declared = @ \o handlers,
                  !.called = @ \o [i \in DOMAIN handlers |-> <<>>]]

\* HandlersLocator.register: each as declared, and called through what wraps every handler.
Registered(locator, handlers) ==
  [locator EXCEPT !.declared = @ \o handlers,
                  !.called = @ \o [i \in DOMAIN handlers |-> Decorated(locator.wraps)]]

\* HandlersLocator.decorate: one equal to a wrap there - any container's binding - takes its place.
Decorate(locator, wrap) ==
  LET same(w) == w.kind = wrap.kind
      wraps   == IF \E i \in DOMAIN locator.wraps : same(locator.wraps[i])
                 THEN [i \in DOMAIN locator.wraps |-> IF same(locator.wraps[i]) THEN wrap ELSE locator.wraps[i]]
                 ELSE Append(locator.wraps, wrap)
  IN  [locator EXCEPT !.wraps = wraps, !.called = [i \in DOMAIN locator.declared |-> Decorated(wraps)]]

\* What a handler is declared for.
Mark(type, handler) == [type |-> type, handler |-> handler]

\* @as_message_handler: registered with the locator given, unless the bus could not call it, and
\* marked; handlers_declared_on reads each type once.
DeclareHandler(locator, type, handler) ==
  /\ Callable(handler)
  /\ locators' = [locators EXCEPT ![locator] = Registered(@, <<Mark(type, handler)>>)]
  /\ marks' = IF Contains(marks, Mark(type, handler)) THEN marks ELSE Append(marks, Mark(type, handler))
  /\ UNCHANGED <<messages, middleware>>

\* An application wraps the handlers of a locator.
Wrap(locator) ==
  /\ locators' = [locators EXCEPT ![locator] = Decorate(@, [kind |-> "span", of |-> 0])]
  /\ UNCHANGED <<messages, middleware, marks>>

Declare ==
  /\ declarations < MaxDeclarations
  /\ declarations' = declarations + 1
  /\ \E d \in Imports :
       CASE d.what = "message"    -> DeclareMessage(d.type, d.name, d.transports)
         [] d.what = "middleware" -> DeclareMiddleware(d.name, d.class)
         [] d.what = "handler"    -> DeclareHandler(d.locator, d.type, d.handler)
         [] OTHER                 -> Wrap(d.locator)

-----------------------------------------------------------------------------
\* A name a message class once travelled under is read back as that class for good, whatever is
\* declared afterwards; the name it travels under now as well.
NamesHold ==
  /\ \A t \in travelled : TypeForName(t.name) = t.type
  /\ \A type \in DOMAIN nameByType : TypeForName(NameOf(type)) = type
=============================================================================
