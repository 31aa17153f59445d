--------------------------- MODULE Application_proofs ---------------------------
(***************************************************************************)
(* Theorems of Application: names hold whatever is declared, SIGTERM is    *)
(* given back, handlers are called through the container that is there,    *)
(* a name stands for one transport, a shutdown closes what was opened and  *)
(* nothing else, and the middleware of a chain is what was configured, for *)
(* any applications, configurations, declarations and bounds.              *)
(***************************************************************************)
EXTENDS Application, Envelopes_proofs

-----------------------------------------------------------------------------
(***************************************************************************)
(* Names.                                                                  *)
(***************************************************************************)

\* What NamesHold rests on: both tables have what they are said to.
NamesInv ==
  /\ \A t \in travelled : t.name \in DOMAIN typeByName /\ typeByName[t.name] = t.type
  /\ \A type \in DOMAIN nameByType :
       nameByType[type] \in DOMAIN typeByName /\ typeByName[nameByType[type]] = type

LEMMA NamesInvGivesNamesHold ==
  NamesInv => NamesHold
BY DEF NamesInv, NamesHold, TypeForName, NameOf

LEMMA NamesInit ==
  Init => NamesInv
BY DEF Init, DeclarationsInit, NamesInv

\* A claim keeps every name that resolved, and has the class resolve to the one claimed.
LEMMA ClaimKeepsNames ==
  ASSUME NamesInv, NEW name, NEW type, Claim(name, type)
  PROVE  /\ \A n \in DOMAIN typeByName : n \in DOMAIN typeByName' /\ typeByName'[n] = typeByName[n]
         /\ type \in DOMAIN nameByType'
         /\ \A other \in DOMAIN nameByType' :
              nameByType'[other] \in DOMAIN typeByName' /\ typeByName'[nameByType'[other]] = other
<1>1. /\ nameByType' = Put(nameByType, type, name)
      /\ typeByName' = Put(typeByName, name, type)
      /\ name \in DOMAIN typeByName => typeByName[name] = type
  BY DEF Claim, Claimed
<1>2. \A n \in DOMAIN typeByName : n \in DOMAIN typeByName' /\ typeByName'[n] = typeByName[n]
  BY <1>1 DEF Put
<1>3. name \in DOMAIN typeByName' /\ typeByName'[name] = type
  BY <1>1 DEF Put
<1>4. DOMAIN nameByType' = DOMAIN nameByType \cup {type} /\ nameByType'[type] = name
  BY <1>1 DEF Put
<1>5. ASSUME NEW other \in DOMAIN nameByType'
      PROVE  nameByType'[other] \in DOMAIN typeByName' /\ typeByName'[nameByType'[other]] = other
  <2>1. CASE other = type
    BY <2>1, <1>3, <1>4
  <2>2. CASE other # type
    <3>1. other \in DOMAIN nameByType /\ nameByType'[other] = nameByType[other]
      BY <2>2, <1>1, <1>4 DEF Put
    <3>2. nameByType[other] \in DOMAIN typeByName /\ typeByName[nameByType[other]] = other
      BY <3>1 DEF NamesInv
    <3> QED
      BY <3>1, <3>2, <1>2
  <2> QED
    BY <2>1, <2>2
<1> QED
  BY <1>2, <1>4, <1>5

LEMMA DeclareMessageKeepsNames ==
  ASSUME NamesInv, NEW type, NEW name, NEW transports, DeclareMessage(type, name, transports)
  PROVE  NamesInv'
<1> DEFINE claimed == IF name = None THEN DefaultName[type] ELSE name
<1>1. travelled' = travelled \cup {[name |-> nameByType'[type], type |-> type]}
  BY DEF DeclareMessage
<1>2. /\ \A n \in DOMAIN typeByName : n \in DOMAIN typeByName' /\ typeByName'[n] = typeByName[n]
      /\ type \in DOMAIN nameByType'
      /\ \A other \in DOMAIN nameByType' :
           nameByType'[other] \in DOMAIN typeByName' /\ typeByName'[nameByType'[other]] = other
  <2>1. CASE name = None /\ type \in DOMAIN nameByType
    BY <2>1 DEF DeclareMessage, NamesInv
  <2>2. CASE ~(name = None /\ type \in DOMAIN nameByType)
    <3>1. Claim(claimed, type)
      BY <2>2 DEF DeclareMessage
    <3> HIDE DEF claimed
    <3> QED
      BY <3>1, ClaimKeepsNames
  <2> QED
    BY <2>1, <2>2
<1>3. \A t \in travelled : t.name \in DOMAIN typeByName' /\ typeByName'[t.name] = t.type
  BY <1>2 DEF NamesInv
<1> QED
  BY <1>1, <1>2, <1>3 DEF NamesInv

LEMMA NamesNext ==
  ASSUME NamesInv, [Next]_vars
  PROVE  NamesInv'
<1>1. ASSUME UNCHANGED messages PROVE NamesInv'
  BY <1>1 DEF NamesInv, messages
<1>2. CASE Declares
  <2>1. PICK d \in Imports :
          CASE d.what = "message"    -> DeclareMessage(d.type, d.name, d.transports)
            [] d.what = "middleware" -> DeclareMiddleware(d.name, d.class)
            [] d.what = "handler"    -> DeclareHandler(d.locator, d.type, d.handler)
            [] OTHER                 -> Wrap(d.locator)
    BY <1>2 DEF Declares, Declare
  <2>2. \/ DeclareMessage(d.type, d.name, d.transports)
        \/ DeclareMiddleware(d.name, d.class)
        \/ DeclareHandler(d.locator, d.type, d.handler)
        \/ Wrap(d.locator)
    BY <2>1
  <2>3. CASE DeclareMessage(d.type, d.name, d.transports)
    BY <2>3, DeclareMessageKeepsNames
  <2>4. CASE DeclareMiddleware(d.name, d.class)
    BY <2>4, <1>1 DEF DeclareMiddleware
  <2>5. CASE DeclareHandler(d.locator, d.type, d.handler)
    BY <2>5, <1>1 DEF DeclareHandler
  <2>6. CASE Wrap(d.locator)
    BY <2>6, <1>1 DEF Wrap
  <2> QED
    BY <2>2, <2>3, <2>4, <2>5, <2>6
<1>3. CASE RunEnds
  BY <1>3, <1>1 DEF RunEnds, declaring
<1>4. ASSUME NEW a \in DOMAIN config,
             Build(a) \/ Boot(a) \/ GetBus(a) \/ Publish(a) \/ Redispatch(a) \/ Consume(a) \/ Shutdown(a)
      PROVE  NamesInv'
  BY <1>4, <1>1 DEF Build, Boot, GetBus, Publish, Redispatch, Consume, Shutdown, declaring
<1>5. CASE UNCHANGED vars
  BY <1>5, <1>1 DEF vars, declaring
<1> QED
  BY <1>2, <1>3, <1>4, <1>5 DEF Next

\* NamesHold: what was once written under a name is read back as the same class for good,
\* whatever modules declare, and in whatever order (message_registry._claim).
THEOREM NamesAreKept ==
  Spec => []NamesHold
<1>1. Spec => []NamesInv
  BY NamesInit, NamesNext, PTL DEF Spec
<1> QED
  BY <1>1, NamesInvGivesNamesHold, PTL

-----------------------------------------------------------------------------
(***************************************************************************)
(* SIGTERM.                                                                *)
(***************************************************************************)

\* Who may have SIGTERM while no run has: who the process installed, or who is left of that.
OwnHandler(handler) ==
  handler \in CASE installed = "foreign"  -> {"foreign", "default"}
                [] installed = "callback" -> {"callback", "nobody"}
                [] OTHER                  -> {installed}

\* A command remembers what is left of the process's own handler, never the loop of a run before it.
SigtermInv ==
  /\ SigtermIsBorrowed
  /\ installed \in {"default", "app", "callback", "foreign"}
  /\ command # <<>> => OwnHandler(IF command[1].previous = None THEN "default" ELSE command[1].previous)

LEMMA SigtermInit ==
  Init => SigtermInv
<1> SUFFICES ASSUME Init PROVE SigtermInv
  OBVIOUS
<1>1. command = <<>> /\ sigterm = installed
  BY DEF Init
<1>2. installed \in {"default", "app", "callback", "foreign"}
  BY ConfigurationsAssumption DEF Init
<1>3. OwnHandler(installed)
  BY <1>2 DEF OwnHandler
<1> QED
  BY <1>1, <1>2, <1>3 DEF SigtermInv, SigtermIsBorrowed, OwnHandler

\* What getsignal tells of an own handler is enough to put back what is left of it.
LEMMA DisplacedIsOwn ==
  ASSUME installed \in {"default", "app", "callback", "foreign"}, OwnHandler(sigterm)
  PROVE  OwnHandler(IF Displaced = None THEN "default" ELSE Displaced)
BY DEF OwnHandler, Displaced, None

LEMMA ConsumeKeepsSigterm ==
  ASSUME SigtermInv, NEW a \in DOMAIN config, Consume(a)
  PROVE  SigtermInv'
<1>1. command = <<>> /\ installed' = installed
  BY DEF Consume
<1>2. installed \in {"default", "app", "callback", "foreign"} /\ OwnHandler(sigterm)
  BY <1>1 DEF SigtermInv, SigtermIsBorrowed, OwnHandler
<1>3. CASE UNCHANGED consuming
  BY <1>1, <1>3 DEF consuming, SigtermInv, SigtermIsBorrowed
<1>4. CASE /\ command' = <<[app |-> a, arranged |-> config[a].signals, previous |-> Displaced]>>
           /\ sigterm' = IF config[a].signals THEN "loop" ELSE sigterm
  <2>1. command' # <<>> /\ command'[1].previous = Displaced /\ command'[1].arranged = config[a].signals
    BY <1>4
  <2>2. OwnHandler(IF command'[1].previous = None THEN "default" ELSE command'[1].previous)
    BY <1>2, <2>1, DisplacedIsOwn
  <2>3. SigtermIsBorrowed'
    BY <1>1, <1>2, <1>4, <2>1 DEF SigtermIsBorrowed, OwnHandler
  <2> QED
    BY <1>1, <1>2, <2>2, <2>3 DEF SigtermInv, OwnHandler
<1> QED
  BY <1>3, <1>4 DEF Consume

LEMMA RunEndsKeepsSigterm ==
  ASSUME SigtermInv, RunEnds
  PROVE  SigtermInv'
<1>1. command # <<>> /\ command' = <<>> /\ installed' = installed /\ sigterm' = Restored(command[1])
  BY DEF RunEnds
<1>2. /\ installed \in {"default", "app", "callback", "foreign"}
      /\ OwnHandler(IF command[1].previous = None THEN "default" ELSE command[1].previous)
  BY <1>1 DEF SigtermInv
<1>3. CASE command[1].arranged
  BY <1>1, <1>2, <1>3 DEF Restored, OwnHandler, SigtermInv, SigtermIsBorrowed
<1>4. CASE ~command[1].arranged
  BY <1>1, <1>2, <1>4 DEF Restored, SigtermInv, SigtermIsBorrowed
<1> QED
  BY <1>3, <1>4

LEMMA SigtermNext ==
  ASSUME SigtermInv, [Next]_vars
  PROVE  SigtermInv'
<1>1. ASSUME UNCHANGED <<consuming, installed>> PROVE SigtermInv'
  BY <1>1 DEF consuming, SigtermInv, SigtermIsBorrowed, OwnHandler
<1>2. CASE Declares
  BY <1>2, <1>1 DEF Declares
<1>3. CASE RunEnds
  BY <1>3, RunEndsKeepsSigterm
<1>4. ASSUME NEW a \in DOMAIN config, Consume(a) PROVE SigtermInv'
  BY <1>4, ConsumeKeepsSigterm
<1>5. ASSUME NEW a \in DOMAIN config,
             Build(a) \/ Boot(a) \/ GetBus(a) \/ Publish(a) \/ Redispatch(a) \/ Shutdown(a)
      PROVE  SigtermInv'
  BY <1>5, <1>1 DEF Build, Boot, GetBus, Publish, Redispatch, Shutdown
<1>6. CASE UNCHANGED vars
  BY <1>6, <1>1 DEF vars
<1> QED
  BY <1>2, <1>3, <1>4, <1>5, <1>6 DEF Next

\* SigtermIsBorrowed: however many commands consume one after another, and however they end,
\* SIGTERM stops the one that runs, and is then with who had it before them, or with what is left
\* of who had it: the default in place of a handler that is not Python's, nobody in place of a
\* callback of the loop (command/consume.py, _restore_sigterm).
THEOREM SigtermIsGivenBack ==
  Spec => []SigtermIsBorrowed
<1>1. Spec => []SigtermInv
  BY SigtermInit, SigtermNext, PTL DEF Spec
<1>2. SigtermInv => SigtermIsBorrowed
  BY DEF SigtermInv
<1> QED
  BY <1>1, <1>2, PTL

-----------------------------------------------------------------------------
(***************************************************************************)
(* Containers.                                                             *)
(***************************************************************************)

Marked == {Mark(d.type, d.handler) : d \in Imports} \cup {Mark("redispatch", "redispatching")}
Wraps == [kind : {"container", "span"}, of : Nat]
Binding(container) == [kind |-> "container", of |-> container]

\* Every handler is called through what wraps them all, one container's binding at most.
Sound(locator) ==
  /\ DOMAIN locator = {"declared", "called", "wraps"}
  /\ locator.declared \in Seq(Marked)
  /\ locator.wraps \in Seq(Wraps)
  /\ locator.called = [i \in DOMAIN locator.declared |-> Decorated(locator.wraps)]
  /\ \A i, j \in DOMAIN locator.wraps :
       locator.wraps[i].kind = "container" /\ locator.wraps[j].kind = "container" => i = j

BoundTo(locator, container) ==
  \E i \in DOMAIN locator.wraps : locator.wraps[i] = Binding(container)

\* What BoundToItsContainer rests on: a locator is sound before its kernel boots as well, and the
\* binding it has afterwards is the last container's.
BindingInv ==
  /\ DOMAIN config \subseteq Locators
  /\ marks \in Seq(Marked)
  /\ DOMAIN locators = Locators \cup {Process}
  /\ \A l \in DOMAIN locators : Sound(locators[l])
  /\ DOMAIN app = DOMAIN config
  /\ \A a \in DOMAIN config :
       /\ "container" \in DOMAIN app[a] /\ app[a].container \in Nat
       /\ app[a].container > 0 => BoundTo(locators[a], app[a].container)

\* What a handler is called through begins with the one binding there is.
LEMMA CallBeginsWithBinding ==
  ASSUME NEW wraps \in Seq(Wraps), NEW i \in DOMAIN wraps, wraps[i].kind = "container",
         \A j \in DOMAIN wraps : wraps[j].kind = "container" => j = i
  PROVE  /\ Decorated(wraps) # <<>> /\ Decorated(wraps)[1] = wraps[i]
         /\ \A k \in 2..Len(Decorated(wraps)) : Decorated(wraps)[k].kind # "container"
<1> DEFINE starts == {1} \cup {j \in DOMAIN wraps : wraps[j].kind = "container"}
<1>1. i \in 1..Len(wraps) /\ Len(wraps) \in Nat /\ DOMAIN wraps = 1..Len(wraps)
  OBVIOUS
<1>2. starts = {1, i}
  OBVIOUS
<1>3. Max(starts) = i
  <2>1. i \in starts /\ \A y \in starts : i >= y
    BY <1>1, <1>2
  <2>2. \A x \in starts : (\A y \in starts : x >= y) => x = i
    BY <1>1, <1>2
  <2> QED
    BY <2>1, <2>2 DEF Max
<1>4. Decorated(wraps) = SubSeq(wraps, i, Len(wraps))
  BY <1>3 DEF Decorated, Binds
<1>5. /\ Len(SubSeq(wraps, i, Len(wraps))) = Len(wraps) - i + 1
      /\ \A k \in 1..(Len(wraps) - i + 1) : SubSeq(wraps, i, Len(wraps))[k] = wraps[i + k - 1]
  BY <1>1
<1>6. Decorated(wraps) # <<>>
  BY <1>1, <1>4, <1>5
<1>7. Decorated(wraps)[1] = wraps[i]
  BY <1>1, <1>4, <1>5
<1>8. ASSUME NEW k \in 2..Len(Decorated(wraps))
      PROVE  Decorated(wraps)[k].kind # "container"
  <2>1. k \in 1..(Len(wraps) - i + 1) /\ i + k - 1 \in DOMAIN wraps /\ i + k - 1 # i
    BY <1>1, <1>4, <1>5
  <2>2. Decorated(wraps)[k] = wraps[i + k - 1]
    BY <2>1, <1>4, <1>5
  <2> QED
    BY <2>1, <2>2
<1> QED
  BY <1>6, <1>7, <1>8

LEMMA BindingInvGivesBound ==
  BindingInv => BoundToItsContainer
<1> SUFFICES ASSUME BindingInv, NEW a \in DOMAIN config, app[a].container > 0,
                    NEW n \in DOMAIN locators[a].called
             PROVE  LET call == locators[a].called[n]
                    IN  /\ call # <<>> /\ call[1] = [kind |-> "container", of |-> app[a].container]
                        /\ \A k \in 2..Len(call) : call[k].kind # "container"
  BY DEF BoundToItsContainer
<1> DEFINE wraps == locators[a].wraps
<1>1. Sound(locators[a]) /\ BoundTo(locators[a], app[a].container)
  BY DEF BindingInv
<1>2. PICK i \in DOMAIN wraps : wraps[i] = Binding(app[a].container)
  BY <1>1 DEF BoundTo
<1>3. wraps \in Seq(Wraps) /\ \A j \in DOMAIN wraps : wraps[j].kind = "container" => j = i
  BY <1>1, <1>2 DEF Sound, Binding
<1>4. wraps[i].kind = "container"
  BY <1>2 DEF Binding
<1>5. locators[a].called[n] = Decorated(wraps)
  BY <1>1 DEF Sound
<1> HIDE DEF wraps
<1> QED
  BY <1>2, <1>3, <1>4, <1>5, CallBeginsWithBinding DEF Binding

\* Registering keeps a locator sound, and its wraps.
LEMMA RegisteredSound ==
  ASSUME NEW locator, Sound(locator), NEW handlers \in Seq(Marked)
  PROVE  Sound(Registered(locator, handlers)) /\ Registered(locator, handlers).wraps = locator.wraps
<1> DEFINE call     == Decorated(locator.wraps)
           after    == Registered(locator, handlers)
           calls    == [i \in DOMAIN handlers |-> call]
           declared == locator.declared
<1>1. /\ DOMAIN after = DOMAIN locator
      /\ after.declared = declared \o handlers
      /\ after.called = locator.called \o calls
      /\ after.wraps = locator.wraps
  BY DEF Sound, Registered
<1>2. declared \in Seq(Marked)
  BY DEF Sound
<1>3. /\ declared \o handlers \in Seq(Marked)
      /\ Len(declared \o handlers) = Len(declared) + Len(handlers)
  BY <1>2, ConcatProperties
<1>4. locator.called = [i \in DOMAIN declared |-> call]
  BY DEF Sound
<1> HIDE DEF call, declared, after
<1>5. /\ locator.called \in Seq({call}) /\ Len(locator.called) = Len(declared)
      /\ calls \in Seq({call}) /\ Len(calls) = Len(handlers)
  <2>1. locator.called \in [1..Len(declared) -> {call}] /\ Len(declared) \in Nat
    BY <1>2, <1>4
  <2>2. calls \in [1..Len(handlers) -> {call}] /\ Len(handlers) \in Nat
    OBVIOUS
  <2> QED
    BY <2>1, <2>2
<1> HIDE DEF calls
<1>6. /\ locator.called \o calls \in Seq({call})
      /\ Len(locator.called \o calls) = Len(declared) + Len(handlers)
  <2> DEFINE called == locator.called
  <2>1. called \in Seq({call}) /\ calls \in Seq({call})
    BY <1>5
  <2> HIDE DEF called
  <2>2. called \o calls \in Seq({call}) /\ Len(called \o calls) = Len(called) + Len(calls)
    BY <2>1, ConcatProperties
  <2> QED
    BY <1>5, <2>2 DEF called
<1>7. locator.called \o calls = [i \in DOMAIN (declared \o handlers) |-> call]
  <2>1. /\ DOMAIN (locator.called \o calls) = DOMAIN (declared \o handlers)
        /\ \A i \in DOMAIN (locator.called \o calls) : (locator.called \o calls)[i] = call
    BY <1>3, <1>6
  <2>2. locator.called \o calls = [i \in DOMAIN (locator.called \o calls) |-> (locator.called \o calls)[i]]
    BY <1>6
  <2> QED
    BY <2>1, <2>2
<1> QED
  BY <1>1, <1>3, <1>7 DEF Sound, call, after

\* Decorating keeps a locator sound: a binding takes the place of another container's.
LEMMA DecorateSound ==
  ASSUME NEW locator, Sound(locator), NEW wrap \in Wraps
  PROVE  /\ Sound(Decorate(locator, wrap))
         /\ wrap.kind = "container" => BoundTo(Decorate(locator, wrap), wrap.of)
         /\ wrap.kind # "container" =>
              \A container : BoundTo(locator, container) => BoundTo(Decorate(locator, wrap), container)
<1> DEFINE old   == locator.wraps
           after == Decorate(locator, wrap)
           same(w) == w.kind = wrap.kind
           swapped == [i \in DOMAIN old |-> IF same(old[i]) THEN wrap ELSE old[i]]
           wraps == IF \E i \in DOMAIN old : same(old[i]) THEN swapped ELSE Append(old, wrap)
<1>1. /\ DOMAIN after = DOMAIN locator /\ after.declared = locator.declared
      /\ after.wraps = wraps
      /\ after.called = [i \in DOMAIN locator.declared |-> Decorated(wraps)]
  BY DEF Decorate, Sound
<1>2. old \in Seq(Wraps)
  BY DEF Sound
<1>3. \A i, j \in DOMAIN old : old[i].kind = "container" /\ old[j].kind = "container" => i = j
  BY DEF Sound
<1>4. wrap = [kind |-> wrap.kind, of |-> wrap.of]
  BY DEF Wraps
<1> HIDE DEF after
<1> SUFFICES /\ wraps \in Seq(Wraps)
             /\ \A i, j \in DOMAIN wraps : wraps[i].kind = "container" /\ wraps[j].kind = "container" => i = j
             /\ wrap.kind = "container" => \E i \in DOMAIN wraps : wraps[i] = wrap
             /\ wrap.kind # "container" =>
                  \A container : (\E i \in DOMAIN old : old[i] = Binding(container))
                                   => \E i \in DOMAIN wraps : wraps[i] = Binding(container)
  <2> HIDE DEF wraps
  <2> QED
    BY <1>1, <1>4 DEF Sound, BoundTo, Binding, after
<1> HIDE DEF old
<1>5. CASE \E i \in DOMAIN old : same(old[i])
  <2>1. wraps = swapped /\ DOMAIN swapped = DOMAIN old
    BY <1>5
  <2>2. swapped \in Seq(Wraps)
    <3>1. swapped \in [1..Len(old) -> Wraps] /\ Len(old) \in Nat
      BY <1>2
    <3> QED
      BY <3>1
  <2>3. \A i \in DOMAIN old : swapped[i].kind = old[i].kind
    OBVIOUS
  <2>4. \A i \in DOMAIN old : swapped[i] = IF same(old[i]) THEN wrap ELSE old[i]
    OBVIOUS
  <2> HIDE DEF swapped
  <2> QED
    BY <1>3, <1>5, <2>1, <2>2, <2>3, <2>4 DEF Binding
<1>6. CASE ~\E i \in DOMAIN old : same(old[i])
  <2>1. wraps = Append(old, wrap)
    BY <1>6
  <2>2. /\ Append(old, wrap) \in Seq(Wraps)
        /\ Len(Append(old, wrap)) = Len(old) + 1
        /\ \A i \in 1..Len(old) : Append(old, wrap)[i] = old[i]
        /\ Append(old, wrap)[Len(old) + 1] = wrap
    BY <1>2, AppendProperties
  <2>3. /\ DOMAIN old = 1..Len(old) /\ Len(old) \in Nat
        /\ DOMAIN Append(old, wrap) = 1..(Len(old) + 1)
    BY <1>2, <2>2
  <2>4. \A i, j \in 1..(Len(old) + 1) :
          Append(old, wrap)[i].kind = "container" /\ Append(old, wrap)[j].kind = "container" => i = j
    <3>1. ASSUME NEW i \in 1..(Len(old) + 1)
          PROVE  i \in DOMAIN old \/ i = Len(old) + 1
      BY <2>3
    <3> QED
      BY <1>3, <1>6, <2>2, <2>3, <3>1
  <2>5. Len(old) + 1 \in DOMAIN Append(old, wrap) /\ \A i \in DOMAIN old : i \in DOMAIN Append(old, wrap)
    BY <2>3
  <2>6. wraps[Len(old) + 1] = wrap /\ Len(old) + 1 \in DOMAIN wraps
    BY <2>1, <2>2, <2>5
  <2>7. \A container : (\E i \in DOMAIN old : old[i] = Binding(container))
                        => \E i \in DOMAIN wraps : wraps[i] = Binding(container)
    BY <2>1, <2>2, <2>3, <2>5
  <2>8. wraps \in Seq(Wraps)
    BY <2>1, <2>2
  <2>9. \A i, j \in DOMAIN wraps : wraps[i].kind = "container" /\ wraps[j].kind = "container" => i = j
    <3> DEFINE longer == Append(old, wrap)
    <3>1. wraps = longer /\ DOMAIN longer = 1..(Len(old) + 1)
      BY <2>1, <2>3
    <3>2. \A i, j \in 1..(Len(old) + 1) :
            longer[i].kind = "container" /\ longer[j].kind = "container" => i = j
      BY <2>4
    <3> HIDE DEF longer, wraps
    <3> QED
      BY <3>1, <3>2
  <2> HIDE DEF wraps
  <2> QED
    BY <2>6, <2>7, <2>8, <2>9
<1> QED
  BY <1>5, <1>6

LEMMA BindingInit ==
  Init => BindingInv
<1> SUFFICES ASSUME Init PROVE BindingInv
  OBVIOUS
<1>1. DOMAIN config \subseteq Locators
  BY ApplicationsAssumption DEF Init
<1>2. marks \in Seq(Marked)
  BY DEF Init, DeclarationsInit
<1>3. DOMAIN locators = Locators \cup {Process}
  BY DEF Init, DeclarationsInit
<1>4. ASSUME NEW l \in DOMAIN locators PROVE Sound(locators[l])
  <2>1. locators[l] = [declared |-> <<>>, called |-> <<>>, wraps |-> <<>>]
    BY <1>3 DEF Init, DeclarationsInit
  <2>2. <<>> = [i \in DOMAIN <<>> |-> Decorated(<<>>)]
    OBVIOUS
  <2> QED
    BY <2>1, <2>2 DEF Sound
<1>5. /\ DOMAIN app = DOMAIN config
      /\ \A a \in DOMAIN config : "container" \in DOMAIN app[a] /\ app[a].container = 0
  BY DEF Init
<1> QED
  BY <1>1, <1>2, <1>3, <1>4, <1>5 DEF BindingInv

\* A locator that changes stays sound and keeps its binding: nothing else is disturbed.
LEMMA LocatorChanges ==
  ASSUME BindingInv, NEW l, NEW locator,
         locators' = [locators EXCEPT ![l] = locator], UNCHANGED <<config, app>>, marks' \in Seq(Marked),
         l \in DOMAIN locators =>
           /\ Sound(locator)
           /\ \A container : BoundTo(locators[l], container) => BoundTo(locator, container)
  PROVE  BindingInv'
<1>1. DOMAIN locators' = DOMAIN locators
  OBVIOUS
<1>2. ASSUME NEW m \in DOMAIN locators
      PROVE  Sound(locators'[m]) /\ \A container : BoundTo(locators[m], container) => BoundTo(locators'[m], container)
  <2>1. locators'[m] = IF m = l THEN locator ELSE locators[m]
    OBVIOUS
  <2> QED
    BY <2>1 DEF BindingInv
<1>3. ASSUME NEW a \in DOMAIN config, app[a].container > 0
      PROVE  BoundTo(locators'[a], app[a].container)
  BY <1>2, <1>3 DEF BindingInv
<1> QED
  BY <1>1, <1>2, <1>3 DEF BindingInv

\* The step leaves the locators and what containers there are.
LEMMA ContainersStay ==
  ASSUME BindingInv, UNCHANGED <<locators, marks, config>>,
         DOMAIN app' = DOMAIN app,
         \A a \in DOMAIN app : "container" \in DOMAIN app'[a] /\ app'[a].container = app[a].container
  PROVE  BindingInv'
BY DEF BindingInv

LEMMA DeclaresKeepsBinding ==
  ASSUME BindingInv, Declares
  PROVE  BindingInv'
<1>1. PICK d \in Imports :
        CASE d.what = "message"    -> DeclareMessage(d.type, d.name, d.transports)
          [] d.what = "middleware" -> DeclareMiddleware(d.name, d.class)
          [] d.what = "handler"    -> DeclareHandler(d.locator, d.type, d.handler)
          [] OTHER                 -> Wrap(d.locator)
  BY DEF Declares, Declare
<1>2. \/ DeclareMessage(d.type, d.name, d.transports)
      \/ DeclareMiddleware(d.name, d.class)
      \/ DeclareHandler(d.locator, d.type, d.handler)
      \/ Wrap(d.locator)
  BY <1>1
<1>3. UNCHANGED <<config, app>>
  BY DEF Declares, building
<1>4. marks \in Seq(Marked) /\ Mark(d.type, d.handler) \in Marked
  BY DEF BindingInv, Marked
<1>5. CASE DeclareMessage(d.type, d.name, d.transports) \/ DeclareMiddleware(d.name, d.class)
  <2>1. UNCHANGED <<marks, locators>>
    BY <1>5 DEF DeclareMessage, DeclareMiddleware
  <2> QED
    BY <2>1, <1>3 DEF BindingInv
<1>6. CASE DeclareHandler(d.locator, d.type, d.handler)
  <2> DEFINE mark    == Mark(d.type, d.handler)
             locator == Registered(locators[d.locator], <<mark>>)
  <2>1. locators' = [locators EXCEPT ![d.locator] = locator]
    BY <1>6 DEF DeclareHandler
  <2>2. marks' \in Seq(Marked)
    <3>1. marks' = marks \/ marks' = Append(marks, mark)
      BY <1>6 DEF DeclareHandler
    <3> QED
      BY <3>1, <1>4, AppendProperties
  <2>3. ASSUME d.locator \in DOMAIN locators
        PROVE  Sound(locator) /\ locator.wraps = locators[d.locator].wraps
    <3>1. Sound(locators[d.locator]) /\ <<mark>> \in Seq(Marked)
      BY <2>3, <1>4 DEF BindingInv
    <3> QED
      BY <3>1, RegisteredSound
  <2> HIDE DEF locator
  <2>4. d.locator \in DOMAIN locators =>
          \A container : BoundTo(locators[d.locator], container) => BoundTo(locator, container)
    BY <2>3 DEF BoundTo
  <2> QED
    BY <1>3, <2>1, <2>2, <2>3, <2>4, LocatorChanges
<1>7. CASE Wrap(d.locator)
  <2> DEFINE span    == [kind |-> "span", of |-> 0]
             locator == Decorate(locators[d.locator], span)
  <2>1. locators' = [locators EXCEPT ![d.locator] = locator] /\ marks' = marks
    BY <1>7 DEF Wrap
  <2>2. span \in Wraps /\ span.kind # "container"
    BY DEF Wraps
  <2>3. ASSUME d.locator \in DOMAIN locators
        PROVE  /\ Sound(locator)
               /\ \A container : BoundTo(locators[d.locator], container) => BoundTo(locator, container)
    <3>1. Sound(locators[d.locator])
      BY <2>3 DEF BindingInv
    <3> HIDE DEF span
    <3> QED
      BY <3>1, <2>2, DecorateSound
  <2> HIDE DEF locator
  <2> QED
    BY <1>3, <1>4, <2>1, <2>3, LocatorChanges
<1> QED
  BY <1>2, <1>5, <1>6, <1>7

LEMMA BuildKeepsBinding ==
  ASSUME BindingInv, NEW a \in DOMAIN config, Build(a)
  PROVE  BindingInv'
<1> DEFINE handlers == Append(marks, Mark("redispatch", "redispatching"))
           locator  == Registered(locators[a], handlers)
<1>1. locators' = [locators EXCEPT ![a] = locator] /\ UNCHANGED <<marks, config>>
  BY DEF Build
<1>2. \E phase, services : app' = [app EXCEPT ![a].phase = phase, ![a].services = services]
  BY DEF Build
<1>3. /\ DOMAIN app' = DOMAIN app
      /\ \A b \in DOMAIN app : "container" \in DOMAIN app[b] =>
           "container" \in DOMAIN app'[b] /\ app'[b].container = app[b].container
  BY <1>2
<1>4. handlers \in Seq(Marked)
  BY AppendProperties DEF BindingInv, Marked
<1>5. Sound(locators[a]) /\ a \in DOMAIN locators
  BY DEF BindingInv
<1>6. Sound(locator) /\ locator.wraps = locators[a].wraps
  BY <1>4, <1>5, RegisteredSound
<1> HIDE DEF locator, handlers
<1>7. \A m \in DOMAIN locators :
        Sound(locators'[m]) /\ \A container : BoundTo(locators[m], container) => BoundTo(locators'[m], container)
  BY <1>1, <1>5, <1>6 DEF BindingInv, BoundTo
<1>8. DOMAIN locators' = DOMAIN locators
  BY <1>1
<1> QED
  BY <1>1, <1>3, <1>7, <1>8 DEF BindingInv

LEMMA BootKeepsBinding ==
  ASSUME BindingInv, NEW a \in DOMAIN config, Boot(a)
  PROVE  BindingInv'
<1> DEFINE locator == Decorate(locators[a], Binding(app[a].container + 1))
<1>1. locators' = [locators EXCEPT ![a] = locator] /\ UNCHANGED <<marks, config>>
  BY DEF Boot, Binding
<1>2. /\ DOMAIN app' = DOMAIN app /\ a \in DOMAIN app
      /\ "container" \in DOMAIN app'[a] /\ app'[a].container = app[a].container + 1
      /\ \A b \in DOMAIN app : b # a => app'[b] = app[b]
  BY DEF Boot, BindingInv
<1>3. Binding(app[a].container + 1) \in Wraps
  BY DEF Binding, Wraps, BindingInv
<1>4. Sound(locators[a]) /\ a \in DOMAIN locators
  BY DEF BindingInv
<1>5. Sound(locator) /\ BoundTo(locator, app[a].container + 1)
  <2> DEFINE wrap == Binding(app[a].container + 1)
  <2>1. wrap.kind = "container" /\ wrap.of = app[a].container + 1
    BY DEF Binding
  <2> HIDE DEF wrap
  <2> QED
    BY <1>3, <1>4, <2>1, DecorateSound DEF wrap
<1> HIDE DEF locator
<1>6. /\ DOMAIN locators' = DOMAIN locators /\ locators'[a] = locator
      /\ \A m \in DOMAIN locators : m # a => locators'[m] = locators[m]
  BY <1>1, <1>4
<1>7. \A m \in DOMAIN locators' : Sound(locators'[m])
  BY <1>5, <1>6 DEF BindingInv
<1>8. ASSUME NEW b \in DOMAIN config
      PROVE  /\ "container" \in DOMAIN app'[b] /\ app'[b].container \in Nat
             /\ app'[b].container > 0 => BoundTo(locators'[b], app'[b].container)
  <2>1. CASE b = a
    BY <2>1, <1>2, <1>5, <1>6 DEF BindingInv
  <2>2. CASE b # a
    BY <2>2, <1>2, <1>6 DEF BindingInv
  <2> QED
    BY <2>1, <2>2
<1> QED
  BY <1>1, <1>2, <1>6, <1>7, <1>8 DEF BindingInv

LEMMA BindingNext ==
  ASSUME BindingInv, [Next]_vars
  PROVE  BindingInv'
<1>0. \A b \in DOMAIN app : "container" \in DOMAIN app[b]
  BY DEF BindingInv
<1>1. CASE Declares
  BY <1>1, DeclaresKeepsBinding
<1>2. ASSUME NEW a \in DOMAIN config, Build(a) PROVE BindingInv'
  BY <1>2, BuildKeepsBinding
<1>3. ASSUME NEW a \in DOMAIN config, Boot(a) PROVE BindingInv'
  BY <1>3, BootKeepsBinding
<1>4. ASSUME NEW a \in DOMAIN config, GetBus(a) PROVE BindingInv'
  <2>1. UNCHANGED <<locators, marks, config>>
    BY <1>4 DEF GetBus, declaring
  <2>2. \E once, bus : app' = [app EXCEPT ![a] = [Kept(a, once) EXCEPT !.bus = bus]]
    BY <1>4 DEF GetBus
  <2> QED
    BY <1>0, <2>1, <2>2, ContainersStay DEF Kept
<1>5. ASSUME NEW a \in DOMAIN config, Consume(a) PROVE BindingInv'
  <2>1. UNCHANGED <<locators, marks, config>>
    BY <1>5 DEF Consume, declaring
  <2>2. \E once, worker : app' = [app EXCEPT ![a] = [Kept(a, once) EXCEPT !.worker = worker]]
    BY <1>5 DEF Consume
  <2> QED
    BY <1>0, <2>1, <2>2, ContainersStay DEF Kept
<1>6. ASSUME NEW a \in DOMAIN config, Redispatch(a) PROVE BindingInv'
  <2>1. UNCHANGED <<locators, marks, config>>
    BY <1>6 DEF Redispatch, declaring
  <2>2. \E again : app' = [app EXCEPT ![a].again = again]
    BY <1>6 DEF Redispatch
  <2> QED
    BY <1>0, <2>1, <2>2, ContainersStay
<1>7. ASSUME NEW a \in DOMAIN config, Shutdown(a) PROVE BindingInv'
  <2>1. UNCHANGED <<locators, marks, config>>
    BY <1>7 DEF Shutdown, declaring
  <2>2. \E phase : app' = [app EXCEPT ![a].phase = phase]
    BY <1>7 DEF Shutdown
  <2> QED
    BY <1>0, <2>1, <2>2, ContainersStay
<1>8. CASE RunEnds
  <2>1. UNCHANGED <<locators, marks, config>>
    BY <1>8 DEF RunEnds, declaring
  <2>2. \E a : app' = [app EXCEPT ![a].worker = <<>>]
    BY <1>8 DEF RunEnds
  <2> QED
    BY <1>0, <2>1, <2>2, ContainersStay
<1>9. ASSUME NEW a \in DOMAIN config, Publish(a) PROVE BindingInv'
  BY <1>9 DEF Publish, declaring, building, BindingInv
<1>10. CASE UNCHANGED vars
  BY <1>10 DEF vars, declaring, building, BindingInv
<1> QED
  BY <1>1, <1>2, <1>3, <1>4, <1>5, <1>6, <1>7, <1>8, <1>9, <1>10 DEF Next

\* BoundToItsContainer: whenever a handler is declared, however its kernel's handlers are wrapped,
\* and however often the kernel boots, it is called through the container that booted last, and
\* through none before it (bundle/_container_binding.py, HandlersLocator.decorate and register).
THEOREM CalledThroughItsContainer ==
  Spec => []BoundToItsContainer
<1>1. Spec => []BindingInv
  BY BindingInit, BindingNext, PTL DEF Spec
<1> QED
  BY <1>1, BindingInvGivesBound, PTL

-----------------------------------------------------------------------------
(***************************************************************************)
(* What a factory does to transports, one after the other.                 *)
(***************************************************************************)

\* What is made of some transports, by how many it has been the turn of.
TakesTurns(after, a, w, transports, create) ==
  /\ after[0] = w
  /\ \A k \in 1..Len(transports) : after[k] = Turn(a, after[k - 1], transports[k], create)
  /\ Turns(a, w, transports, create) = after[Len(transports)]

LEMMA TurnsAre ==
  ASSUME NEW a, NEW w, NEW transports, IsSequence(transports), NEW create
  PROVE  \E after : TakesTurns(after, a, w, transports, create)
<1> DEFINE n == Len(transports)
           Step(x, k) == Turn(a, x, transports[k], create)
           Is(f, m) == f = [k \in 0..m |-> IF k = 0 THEN w ELSE Step(f[k - 1], k)]
           bad == {m \in 0..n : ~ \E f : Is(f, m)}
<1>1. n \in Nat
  BY PlacesOf
<1>2. Turns(a, w, transports, create) = (CHOOSE f : Is(f, n))[n]
  BY DEF Turns
<1> HIDE DEF n
<1>3. bad = {}
  <2> SUFFICES ASSUME bad # {} PROVE FALSE
    OBVIOUS
  <2>1. bad \subseteq Nat
    BY <1>1
  <2>2. PICK m \in bad : \A l \in bad : m <= l
    <3> HIDE DEF bad
    <3> QED BY <2>1, Least
  <2>3. m \in Nat /\ m \in 0..n /\ ~ \E f : Is(f, m)
    BY <2>2, <1>1
  <2>4. CASE m = 0
    <3> DEFINE f == [k \in 0..0 |-> w]
    <3>1. Is(f, 0)
      <4> HIDE DEF Step
      <4>1. \A k \in 0..0 : k = 0
        OBVIOUS
      <4> QED BY <4>1
    <3> QED BY <3>1, <2>3, <2>4
  <2>5. CASE m # 0
    <3>1. m - 1 \in 0..n /\ ~(m <= m - 1)
      BY <2>3, <2>5, <1>1
    <3>2. m - 1 \notin bad
      BY <2>2, <3>1
    <3>3. PICK g : Is(g, m - 1)
      BY <3>1, <3>2
    <3> HIDE DEF Step
    <3> DEFINE f == [k \in 0..m |-> IF k = m THEN Step(g[m - 1], m) ELSE g[k]]
    <3>4. \A k \in 0..m : f[k] = IF k = 0 THEN w ELSE Step(f[k - 1], k)
      <4> SUFFICES ASSUME NEW k \in 0..m PROVE f[k] = IF k = 0 THEN w ELSE Step(f[k - 1], k)
        OBVIOUS
      <4>1. k \in Nat
        BY <2>3
      <4>2. CASE k = 0
        <5>1. 0 \in 0..m - 1 /\ 0 \in 0..m
          BY <2>3, <2>5
        <5>2. g[0] = w
          BY <3>3, <5>1
        <5> QED BY <4>2, <5>1, <5>2, <2>5
      <4>3. CASE k # 0 /\ k # m
        <5>1. k \in 0..m - 1 /\ k - 1 \in 0..m /\ k - 1 # m
          BY <2>3, <4>1, <4>3
        <5>2. g[k] = Step(g[k - 1], k)
          BY <3>3, <5>1, <4>3
        <5> QED BY <4>3, <5>1, <5>2
      <4>4. CASE k # 0 /\ k = m
        <5>1. m - 1 \in 0..m /\ m - 1 # m
          BY <2>3, <2>5
        <5> QED BY <4>4, <5>1
      <4> QED BY <4>2, <4>3, <4>4
    <3>5. DOMAIN f = 0..m
      OBVIOUS
    <3>6. f = [k \in DOMAIN f |-> f[k]]
      OBVIOUS
    <3> HIDE DEF f
    <3>7. Is(f, m)
      BY <3>4, <3>5, <3>6, Zenon
    <3> QED BY <3>7, <2>3
  <2> QED BY <2>4, <2>5
<1>4. PICK f : Is(f, n) /\ Turns(a, w, transports, create) = f[n]
  <2>1. n \in 0..n
    BY <1>1
  <2>2. \E f : Is(f, n)
    BY <1>3, <2>1
  <2> HIDE DEF Is
  <2>3. Is(CHOOSE f : Is(f, n), n)
    BY <2>2
  <2> QED BY <1>2, <2>3
<1>5. f[0] = w
  <2>1. 0 \in 0..n
    BY <1>1
  <2> QED BY <1>4, <2>1
<1>6. \A k \in 1..n : f[k] = Step(f[k - 1], k)
  <2> HIDE DEF Step
  <2>1. \A k \in 1..n : k \in 0..n /\ k # 0
    BY <1>1
  <2> QED BY <1>4, <2>1
<1> QED BY <1>4, <1>5, <1>6 DEF n, TakesTurns

\* by_connection yields transports of the configuration, and nothing else.
LEMMA ByConnectionIs ==
  ASSUME NEW transports, IsSequence(transports)
  PROVE  IsSequence(ByConnection(transports)) /\ ToSet(ByConnection(transports)) \subseteq ToSet(transports)
<1> DEFINE n == Len(transports)
           T == ToSet(transports)
           server(i) == {j \in DOMAIN transports : Connection(transports[j]) = Connection(transports[i])}
           Step(x, k) == IF \E j \in server(k) : j < k THEN x ELSE x \o Picked(transports, server(k))
           Is(f, m) == f = [k \in 0..m |-> IF k = 0 THEN <<>>
                                           ELSE IF \E j \in server(k) : j < k THEN f[k - 1]
                                           ELSE f[k - 1] \o Picked(transports, server(k))]
           bad == {m \in 0..n : ~ \E f : Is(f, m)}
<1>1. n \in Nat /\ DOMAIN transports = 1..n
  BY PlacesOf
<1>2. ByConnection(transports) = (CHOOSE f : Is(f, n))[n]
  BY DEF ByConnection
<1>3. ASSUME NEW k \in 1..n PROVE Picked(transports, server(k)) \in Seq(T)
  <2>1. server(k) \subseteq 1..n
    BY <1>1
  <2>2. {transports[i] : i \in server(k)} \subseteq T
    BY DEF ToSet
  <2> DEFINE places == server(k)
  <2> HIDE DEF server, n, T
  <2>3. Picked(transports, places) \in Seq({transports[i] : i \in places})
    BY <1>1, <2>1, PickedSequence
  <2> QED BY <2>2, <2>3, SeqMonotonic
<1>4. ASSUME NEW x \in Seq(T), NEW k \in 1..n PROVE Step(x, k) \in Seq(T)
  <2> DEFINE more == Picked(transports, server(k))
  <2>1. more \in Seq(T)
    BY <1>3
  <2> HIDE DEF more, T
  <2>2. x \o more \in Seq(T)
    BY <2>1
  <2> QED BY <2>2 DEF more
<1> HIDE DEF n, T
<1>5. ASSUME NEW m \in Nat, NEW f, Is(f, m)
      PROVE  /\ DOMAIN f = 0..m /\ f[0] = <<>>
             /\ \A k \in 1..m : f[k] = Step(f[k - 1], k)
  <2>1. 0 \in 0..m /\ \A k \in 1..m : k \in 0..m /\ k # 0
    OBVIOUS
  <2> HIDE DEF server
  <2> QED BY <1>5, <2>1
<1>6. ASSUME NEW m \in Nat, NEW f, DOMAIN f = 0..m, f = [k \in DOMAIN f |-> f[k]], f[0] = <<>>,
             \A k \in 1..m : f[k] = Step(f[k - 1], k)
      PROVE  Is(f, m)
  <2>1. \A k \in 0..m : k = 0 \/ k \in 1..m
    OBVIOUS
  <2> HIDE DEF server
  <2> QED BY <1>6, <2>1
<1> HIDE DEF Step, Is
<1>7. bad = {}
  <2> SUFFICES ASSUME bad # {} PROVE FALSE
    OBVIOUS
  <2>1. bad \subseteq Nat
    BY <1>1
  <2>2. PICK m \in bad : \A l \in bad : m <= l
    <3> HIDE DEF bad
    <3> QED BY <2>1, Least
  <2>3. m \in Nat /\ m \in 0..n
    BY <2>2, <1>1
  <2>4. CASE m = 0
    <3> DEFINE f == [k \in 0..0 |-> <<>>]
    <3>1. /\ DOMAIN f = 0..0 /\ f = [k \in DOMAIN f |-> f[k]] /\ \A k \in 0..0 : f[k] = <<>>
          /\ 0 \in 0..0
      OBVIOUS
    <3>2. 0 \in Nat /\ 1..0 = {}
      OBVIOUS
    <3> HIDE DEF f
    <3>3. Is(f, 0)
      BY <3>1, <3>2, <1>6
    <3> QED BY <3>3, <2>2, <2>4
  <2>5. CASE m # 0
    <3>1. m - 1 \in 0..n /\ ~(m <= m - 1) /\ m - 1 \in Nat /\ m \in 1..n
      BY <2>3, <2>5, <1>1
    <3>2. m - 1 \notin bad
      BY <2>2, <3>1
    <3>3. PICK g : Is(g, m - 1)
      BY <3>1, <3>2
    <3>4. g[0] = <<>> /\ \A k \in 1..m - 1 : g[k] = Step(g[k - 1], k)
      BY <3>1, <3>3, <1>5
    <3> DEFINE f == [k \in 0..m |-> IF k = m THEN Step(g[m - 1], m) ELSE g[k]]
    <3>5. DOMAIN f = 0..m /\ f = [k \in DOMAIN f |-> f[k]]
      OBVIOUS
    <3>6. \A k \in 0..m - 1 : f[k] = g[k]
      <4>1. \A k \in 0..m - 1 : k \in 0..m /\ k # m
        BY <2>3
      <4> QED BY <4>1
    <3>7. f[m] = Step(g[m - 1], m)
      BY <2>3
    <3> HIDE DEF f
    <3>8. f[0] = <<>>
      <4>1. 0 \in 0..m - 1
        BY <2>3, <2>5
      <4> QED BY <3>4, <3>6, <4>1
    <3>9. \A k \in 1..m : f[k] = Step(f[k - 1], k)
      <4> SUFFICES ASSUME NEW k \in 1..m PROVE f[k] = Step(f[k - 1], k)
        OBVIOUS
      <4>1. k \in Nat /\ k - 1 \in 0..m - 1 /\ (k # m => k \in 1..m - 1 /\ k \in 0..m - 1)
        BY <2>3, <2>5
      <4>2. f[k - 1] = g[k - 1]
        BY <3>6, <4>1
      <4>3. CASE k = m
        BY <3>7, <4>2, <4>3
      <4>4. CASE k # m
        <5>1. f[k] = g[k]
          BY <3>6, <4>1, <4>4
        <5>2. g[k] = Step(g[k - 1], k)
          BY <3>4, <4>1, <4>4
        <5> QED BY <4>2, <5>1, <5>2
      <4> QED BY <4>3, <4>4
    <3>10. Is(f, m)
      BY <2>3, <3>5, <3>8, <3>9, <1>6
    <3> QED BY <3>10, <2>2
  <2> QED BY <2>4, <2>5
<1>8. PICK f : Is(f, n) /\ ByConnection(transports) = f[n]
  <2>1. n \in 0..n
    BY <1>1
  <2>2. \E f : Is(f, n)
    BY <1>7, <2>1
  <2>3. Is(CHOOSE f : Is(f, n), n)
    BY <2>2
  <2> QED BY <1>2, <2>3
<1>9. f[0] = <<>> /\ \A k \in 1..n : f[k] = Step(f[k - 1], k)
  BY <1>1, <1>8, <1>5
<1> DEFINE wrong == {k \in 0..n : f[k] \notin Seq(T)}
<1>10. wrong = {}
  <2> SUFFICES ASSUME wrong # {} PROVE FALSE
    OBVIOUS
  <2>1. wrong \subseteq Nat
    BY <1>1
  <2>2. PICK m \in wrong : \A l \in wrong : m <= l
    <3> HIDE DEF wrong
    <3> QED BY <2>1, Least
  <2>3. m # 0
    <3>1. <<>> \in Seq(T)
      OBVIOUS
    <3> QED BY <3>1, <2>2, <1>9
  <2>4. m \in 1..n /\ m - 1 \in 0..n /\ ~(m <= m - 1)
    BY <2>2, <2>3, <1>1
  <2>5. f[m - 1] \in Seq(T)
    BY <2>2, <2>4
  <2>6. f[m] \in Seq(T)
    BY <2>4, <2>5, <1>9, <1>4
  <2> QED BY <2>2, <2>6
<1>11. f[n] \in Seq(T)
  <2>1. n \in 0..n
    BY <1>1
  <2> QED BY <2>1, <1>10
<1> QED BY <1>8, <1>11, IsSequenceOf DEF T

-----------------------------------------------------------------------------
(***************************************************************************)
(* What a factory does.                                                    *)
(***************************************************************************)

\* A factory's work.
IsWork(w) ==
  /\ w = [discovered |-> w.discovered, made |-> w.made, objects |-> w.objects,
          senders |-> w.senders, failed |-> w.failed]
  /\ w.objects \in Nat

\* What a table had is there as it was.
Keeps(f, g) == DOMAIN f \subseteq DOMAIN g /\ \A x \in DOMAIN f : g[x] = f[x]

Grown(v, w) == w.objects >= v.objects /\ Keeps(v.discovered, w.discovered) /\ Keeps(v.made, w.made)

\* What was built for transport t: the adapter its server goes to is there, and a recorder is
\* the one the adapter keeps for that name.
Built(a, w, t, built) ==
  /\ Scheme(t) \in config[a].own \cup DOMAIN w.discovered
  /\ built = [name |-> t.name, scheme |-> Scheme(t), id |-> built.id, over |-> <<AdapterOf(a, w, t), Connection(t)>>]
  /\ Scheme(t) = "in-memory" =>
       <<AdapterOf(a, w, t), t.name>> \in DOMAIN w.made /\ built.id = w.made[<<AdapterOf(a, w, t), t.name>>]

\* Each sender was built for the transport of its name.
BuiltFor(a, w, senders, T) ==
  \A x \in DOMAIN senders : \E t \in T : t.name = x /\ Built(a, w, t, senders[x])

\* Whatever has these parts is a factory's work.
LEMMA WorkIs ==
  ASSUME NEW w, NEW found, NEW recorders, NEW n \in Nat, NEW senders, NEW failed,
         w = [discovered |-> found, made |-> recorders, objects |-> n, senders |-> senders, failed |-> failed]
  PROVE  /\ IsWork(w)
         /\ w.discovered = found /\ w.made = recorders /\ w.objects = n /\ w.senders = senders /\ w.failed = failed
BY DEF IsWork

LEMMA GrownOn ==
  ASSUME NEW u, NEW v, NEW w, IsWork(u), IsWork(v), IsWork(w), Grown(u, v), Grown(v, w)
  PROVE  Grown(u, w)
BY DEF IsWork, Grown, Keeps

LEMMA GrownNot ==
  ASSUME NEW w, IsWork(w)
  PROVE  Grown(w, w)
BY DEF IsWork, Grown, Keeps

LEMMA PutKeeps ==
  ASSUME NEW f, NEW x, NEW y, x \in DOMAIN f => f[x] = y
  PROVE  Keeps(f, Put(f, x, y)) /\ x \in DOMAIN Put(f, x, y) /\ Put(f, x, y)[x] = y
BY DEF Keeps, Put

\* What was built stays what it is as adapters are discovered and recorders are made.
LEMMA BuiltStays ==
  ASSUME NEW a, NEW v, NEW w, NEW t, NEW built, Built(a, v, t, built),
         Keeps(v.discovered, w.discovered), Keeps(v.made, w.made)
  PROVE  Built(a, w, t, built)
<1>1. AdapterOf(a, w, t) = AdapterOf(a, v, t)
  BY DEF Built, Keeps, AdapterOf
<1>2. Scheme(t) \in config[a].own \cup DOMAIN w.discovered
  BY DEF Built, Keeps
<1> DEFINE adapter == AdapterOf(a, v, t)
<1> HIDE DEF adapter
<1> QED BY <1>1, <1>2 DEF Built, Keeps, adapter

LEMMA BuiltForStays ==
  ASSUME NEW a, NEW v, NEW w, NEW T, NEW senders, BuiltFor(a, v, senders, T),
         Keeps(v.discovered, w.discovered), Keeps(v.made, w.made)
  PROVE  BuiltFor(a, w, senders, T)
BY BuiltStays DEF BuiltFor

\* A transport that is served has an adapter afterwards, and what there was is as it was.
LEMMA ServesIs ==
  ASSUME NEW a, NEW w, NEW t, IsWork(w)
  PROVE  /\ IsWork(Serves(a, w, t)) /\ Grown(w, Serves(a, w, t))
         /\ Serves(a, w, t).senders = w.senders
         /\ ~Serves(a, w, t).failed => Scheme(t) \in config[a].own \cup DOMAIN Serves(a, w, t).discovered
<1> DEFINE s == Serves(a, w, t)
<1>1. CASE w.failed \/ ~Usable(a, t)
  <2>1. s = [w EXCEPT !.failed = TRUE]
    BY <1>1 DEF Serves
  <2>2. s = [discovered |-> w.discovered, made |-> w.made, objects |-> w.objects, senders |-> w.senders, failed |-> TRUE]
    BY <2>1 DEF IsWork
  <2>3. w.objects \in Nat
    BY DEF IsWork
  <2> HIDE DEF s
  <2>4. /\ IsWork(s) /\ s.discovered = w.discovered /\ s.made = w.made /\ s.objects = w.objects
        /\ s.senders = w.senders /\ s.failed = TRUE
    BY <2>2, <2>3, WorkIs
  <2> QED BY <2>3, <2>4 DEF Grown, Keeps, s
<1>2. CASE ~(w.failed \/ ~Usable(a, t)) /\ Scheme(t) \in config[a].own \cup DOMAIN w.discovered
  <2>1. s = w
    BY <1>2 DEF Serves
  <2> QED BY <2>1, <1>2, GrownNot
<1>3. CASE ~(w.failed \/ ~Usable(a, t)) /\ Scheme(t) \notin config[a].own \cup DOMAIN w.discovered
  <2> DEFINE found == Put(w.discovered, Scheme(t), w.objects + 1)
  <2>1. s = [w EXCEPT !.objects = @ + 1, !.discovered = found]
    BY <1>3 DEF Serves
  <2>2. Keeps(w.discovered, found) /\ Scheme(t) \in DOMAIN found
    BY <1>3, PutKeeps
  <2> HIDE DEF found
  <2>3. s = [discovered |-> found, made |-> w.made, objects |-> w.objects + 1, senders |-> w.senders, failed |-> w.failed]
    BY <2>1 DEF IsWork
  <2>4. w.objects \in Nat /\ w.objects + 1 \in Nat /\ w.objects + 1 >= w.objects
    BY DEF IsWork
  <2> HIDE DEF s
  <2>5. IsWork(s) /\ s.discovered = found /\ s.made = w.made /\ s.objects = w.objects + 1 /\ s.senders = w.senders
    BY <2>3, <2>4, WorkIs
  <2> QED BY <2>2, <2>4, <2>5 DEF Grown, Keeps, s
<1> QED BY <1>1, <1>2, <1>3

\* A transport that is created has its sender, and the others have theirs.
LEMMA CreatesIs ==
  ASSUME NEW a, NEW w, NEW T, NEW t \in T, IsWork(w), BuiltFor(a, w, w.senders, T),
         ~w.failed => Scheme(t) \in config[a].own \cup DOMAIN w.discovered
  PROVE  /\ IsWork(Creates(a, w, t)) /\ Grown(w, Creates(a, w, t))
         /\ BuiltFor(a, Creates(a, w, t), Creates(a, w, t).senders, T)
<1> DEFINE adapter == AdapterOf(a, w, t)
           key     == <<adapter, t.name>>
           kept    == key \in DOMAIN w.made
           id      == IF kept THEN w.made[key] ELSE w.objects + 1
           built   == [name |-> t.name, scheme |-> Scheme(t), id |-> id, over |-> <<adapter, Connection(t)>>]
           c       == Creates(a, w, t)
<1>1. CASE w.failed
  <2>1. c = w
    BY <1>1 DEF Creates
  <2> QED BY <2>1, GrownNot
<1>2. CASE ~w.failed /\ ~kept /\ ~Accepted(a, t)
  <2>1. c = [w EXCEPT !.failed = TRUE]
    BY <1>2 DEF Creates
  <2>2. c = [discovered |-> w.discovered, made |-> w.made, objects |-> w.objects, senders |-> w.senders, failed |-> TRUE]
    BY <2>1 DEF IsWork
  <2>3. w.objects \in Nat
    BY DEF IsWork
  <2> HIDE DEF c
  <2>4. /\ IsWork(c) /\ c.discovered = w.discovered /\ c.made = w.made /\ c.objects = w.objects
        /\ c.senders = w.senders
    BY <2>2, <2>3, WorkIs
  <2>5. Grown(w, c)
    BY <2>3, <2>4 DEF Grown, Keeps
  <2>6. BuiltFor(a, c, c.senders, T)
    BY <2>4, <2>5, BuiltForStays DEF Grown
  <2> QED BY <2>4, <2>5, <2>6 DEF c
<1>3. CASE ~w.failed /\ ~(~kept /\ ~Accepted(a, t))
  <2> DEFINE objects2 == IF kept THEN w.objects ELSE id
             made2    == IF Scheme(t) = "in-memory" THEN Put(w.made, key, id) ELSE w.made
             senders2 == Put(w.senders, t.name, built)
  <2>1. c = [w EXCEPT !.objects = objects2, !.made = made2, !.senders = senders2]
    BY <1>3 DEF Creates
  <2>2. Keeps(w.made, made2) /\ (Scheme(t) = "in-memory" => key \in DOMAIN made2 /\ made2[key] = id)
    <3>1. key \in DOMAIN w.made => w.made[key] = id
      OBVIOUS
    <3>2. Keeps(w.made, w.made)
      BY DEF Keeps
    <3> HIDE DEF key, id
    <3> QED BY <3>1, <3>2, PutKeeps
  <2>3. objects2 \in Nat /\ objects2 >= w.objects
    BY DEF IsWork
  <2>4. built = [name |-> t.name, scheme |-> Scheme(t), id |-> built.id, over |-> <<adapter, Connection(t)>>]
        /\ built.id = id
    OBVIOUS
  <2>5. Scheme(t) \in config[a].own \cup DOMAIN w.discovered
    BY <1>3
  <2> HIDE DEF objects2, made2, senders2, c
  <2>6. IsWork(c) /\ c.discovered = w.discovered /\ c.made = made2 /\ c.objects = objects2 /\ c.senders = senders2
    <3>1. c = [discovered |-> w.discovered, made |-> made2, objects |-> objects2, senders |-> senders2, failed |-> w.failed]
      BY <2>1 DEF IsWork
    <3> QED BY <2>3, <3>1, WorkIs
  <2>7. Grown(w, c)
    BY <2>2, <2>3, <2>6 DEF Grown, Keeps
  <2>8. AdapterOf(a, c, t) = adapter
    BY <2>6 DEF AdapterOf
  <2>9. Built(a, c, t, built)
    <3> HIDE DEF built, id, adapter
    <3> QED BY <2>2, <2>4, <2>5, <2>6, <2>8 DEF Built, key
  <2>10. BuiltFor(a, c, w.senders, T)
    BY <2>7, BuiltForStays DEF Grown
  <2> HIDE DEF built
  <2>11. \A x \in DOMAIN senders2 : senders2[x] = IF x = t.name THEN built ELSE w.senders[x]
    BY DEF senders2, Put
  <2>12. \A x \in DOMAIN senders2 : x = t.name \/ x \in DOMAIN w.senders
    BY DEF senders2, Put
  <2>13. BuiltFor(a, c, senders2, T)
    BY <2>9, <2>10, <2>11, <2>12 DEF BuiltFor
  <2> QED BY <2>6, <2>7, <2>13 DEF c
<1> QED BY <1>1, <1>2, <1>3

LEMMA TurnIs ==
  ASSUME NEW a, NEW w, NEW T, NEW t \in T, NEW create, IsWork(w), BuiltFor(a, w, w.senders, T)
  PROVE  /\ IsWork(Turn(a, w, t, create)) /\ Grown(w, Turn(a, w, t, create))
         /\ BuiltFor(a, Turn(a, w, t, create), Turn(a, w, t, create).senders, T)
<1> DEFINE s == Serves(a, w, t)
<1>1. /\ IsWork(s) /\ Grown(w, s) /\ s.senders = w.senders
      /\ ~s.failed => Scheme(t) \in config[a].own \cup DOMAIN s.discovered
  BY ServesIs
<1> HIDE DEF s
<1>2. BuiltFor(a, s, s.senders, T)
  BY <1>1, BuiltForStays DEF Grown
<1> DEFINE c == Creates(a, s, t)
<1>3. IsWork(c) /\ Grown(s, c) /\ BuiltFor(a, c, c.senders, T)
  BY <1>1, <1>2, CreatesIs
<1>4. Turn(a, w, t, create) = IF create THEN c ELSE s
  BY DEF Turn, s
<1> HIDE DEF c
<1>5. Grown(w, c)
  BY <1>1, <1>3, GrownOn
<1> QED BY <1>1, <1>2, <1>3, <1>4, <1>5

\* So it is for all of them: the transports created are built, nothing made before is disturbed.
LEMMA TurnsIs ==
  ASSUME NEW a, NEW w, NEW T, NEW transports, IsSequence(transports), ToSet(transports) \subseteq T,
         NEW create, IsWork(w), BuiltFor(a, w, w.senders, T)
  PROVE  /\ IsWork(Turns(a, w, transports, create)) /\ Grown(w, Turns(a, w, transports, create))
         /\ BuiltFor(a, Turns(a, w, transports, create), Turns(a, w, transports, create).senders, T)
<1> DEFINE n == Len(transports)
           Good(v) == IsWork(v) /\ Grown(w, v) /\ BuiltFor(a, v, v.senders, T)
<1>1. n \in Nat /\ DOMAIN transports = 1..n
  BY PlacesOf
<1>2. PICK after :
        /\ after[0] = w
        /\ \A k \in 1..n : after[k] = Turn(a, after[k - 1], transports[k], create)
        /\ Turns(a, w, transports, create) = after[n]
  <2>1. PICK after : TakesTurns(after, a, w, transports, create)
    BY TurnsAre
  <2> QED BY <2>1 DEF TakesTurns
<1>3. ASSUME NEW v, Good(v), NEW k \in 1..n PROVE Good(Turn(a, v, transports[k], create))
  <2>1. transports[k] \in T
    BY <1>1 DEF ToSet
  <2> DEFINE t == transports[k]
             u == Turn(a, v, t, create)
  <2> HIDE DEF t
  <2>2. IsWork(u) /\ Grown(v, u) /\ BuiltFor(a, u, u.senders, T)
    BY <1>3, <2>1, TurnIs DEF t
  <2> HIDE DEF u
  <2>3. Grown(w, u)
    BY <1>3, <2>2, GrownOn
  <2> QED BY <2>2, <2>3 DEF t, u
<1>4. Good(w)
  BY GrownNot
<1> HIDE DEF n, Good
<1> DEFINE bad == {k \in 0..n : ~Good(after[k])}
<1>5. bad = {}
  <2> SUFFICES ASSUME bad # {} PROVE FALSE
    OBVIOUS
  <2>1. bad \subseteq Nat
    BY <1>1
  <2>2. PICK m \in bad : \A l \in bad : m <= l
    <3> HIDE DEF bad
    <3> QED BY <2>1, Least
  <2>3. m # 0
    BY <2>2, <1>2, <1>4
  <2>4. m \in 1..n /\ m - 1 \in 0..n /\ ~(m <= m - 1)
    BY <2>2, <2>3, <1>1
  <2>5. Good(after[m - 1])
    BY <2>2, <2>4
  <2>6. Good(after[m])
    BY <2>4, <2>5, <1>2, <1>3
  <2> QED BY <2>2, <2>6
<1>6. Good(after[n])
  <2>1. n \in 0..n
    BY <1>1
  <2> QED BY <2>1, <1>5
<1> QED BY <1>2, <1>6 DEF Good

-----------------------------------------------------------------------------
(***************************************************************************)
(* What buses and workers are built of.                                    *)
(***************************************************************************)

LEMMA SomePlaces ==
  ASSUME NEW s, IsSequence(s), NEW places, places \subseteq DOMAIN s
  PROVE  IsFiniteSet(places) /\ Cardinality(places) \in Nat
<1>1. IsFiniteSet(1..Len(s)) /\ DOMAIN s = 1..Len(s)
  BY PlacesOf, FS_Interval
<1>2. IsFiniteSet(places)
  BY <1>1, FS_Subset
<1> QED BY <1>2, FS_CardinalityType

\* Resolving, or building what the container has, only ever makes more objects.
LEMMA ResolvedGrows ==
  ASSUME NEW named, NEW entries, IsSequence(entries), NEW n \in Nat
  PROVE  Resolved(named, entries, n).objects \in Nat /\ Resolved(named, entries, n).objects >= n
<1> DEFINE found    == {i \in DOMAIN entries : Key(entries, i) \in DOMAIN named}
           class(i) == ClassNamed(named, entries[i].name)
           refused  == {i \in DOMAIN entries \ found :
                          \/ entries[i].kind # "built" /\ class(i) = None
                          \/ entries[i].kind = "args" /\ (Bare(entries[i].name) \in DOMAIN named \/ entries[i].name \notin DOMAIN middleware)}
           fresh    == {i \in DOMAIN entries \ (found \cup refused) : entries[i].kind # "built"}
<1>1. fresh \subseteq DOMAIN entries
  OBVIOUS
<1>2. Resolved(named, entries, n).objects = n + Cardinality(fresh)
  BY DEF Resolved
<1> HIDE DEF fresh
<1>3. Cardinality(fresh) \in Nat
  BY <1>1, SomePlaces
<1> QED BY <1>2, <1>3

LEMMA NamedOnceGrows ==
  ASSUME NEW a, IsSequence(config[a].middleware), NEW n \in Nat
  PROVE  NamedOnce(a, n).objects \in Nat /\ NamedOnce(a, n).objects >= n
<1> DEFINE entries == config[a].middleware
           held    == {i \in DOMAIN entries : /\ Key(entries, i) \in DOMAIN app[a].services
                                              /\ \A j \in 1..i - 1 : Key(entries, j) # Key(entries, i)}
<1>1. held \subseteq DOMAIN entries
  OBVIOUS
<1>2. NamedOnce(a, n).objects = n \/ NamedOnce(a, n).objects = n + Cardinality(held)
  BY DEF NamedOnce
<1> HIDE DEF held
<1>3. Cardinality(held) \in Nat
  BY <1>1, SomePlaces
<1> QED BY <1>2, <1>3

LEMMA EntriesAre ==
  ASSUME NEW a, IsSequence(config[a].middleware)
  PROVE  IsSequence(Entries(a))
<1>1. IsSequence(<<>>)
  BY DEF IsSequence
<1>2. ASSUME NEW x PROVE IsSequence(<<x>>)
  <2>1. <<x>> \in Seq({x})
    OBVIOUS
  <2> QED BY <2>1, IsSequenceOf
<1> QED BY <1>1, <1>2, Joined DEF Entries

\* What an application's factory starts its work from.
Start(a, part) == IF Bundled(a) /\ app[a].factory # app[a].container THEN <<>> ELSE discovered[Root(a, part)]
Transports(a) == ToSet(config[a].transports)

\* A factory's work for an application: nothing discovered or made before is disturbed.
WorksFor(a, part, w) ==
  IsWork(w) /\ Keeps(Start(a, part), w.discovered) /\ Keeps(made, w.made)

LEMMA WorkBegins ==
  ASSUME NEW a, NEW part, NEW n \in Nat
  PROVE  /\ WorksFor(a, part, Work(a, part, n)) /\ Work(a, part, n).objects = n
         /\ Work(a, part, n).senders = <<>> /\ ~Work(a, part, n).failed
<1> DEFINE w == Work(a, part, n)
<1>1. w = [discovered |-> Start(a, part), made |-> made, objects |-> n, senders |-> <<>>, failed |-> FALSE]
  BY DEF Work, Start
<1> HIDE DEF w
<1>2. IsWork(w) /\ w.discovered = Start(a, part) /\ w.made = made /\ w.objects = n /\ w.senders = <<>> /\ w.failed = FALSE
  BY <1>1, WorkIs
<1> QED BY <1>2 DEF WorksFor, Keeps, w

LEMMA WorkGoesOn ==
  ASSUME NEW a, NEW part, NEW v, NEW w, WorksFor(a, part, v), IsWork(w), Grown(v, w)
  PROVE  WorksFor(a, part, w) /\ w.objects >= v.objects
BY DEF WorksFor, Grown, Keeps

LEMMA NoSenders ==
  ASSUME NEW a, NEW w, NEW T
  PROVE  BuiltFor(a, w, <<>>, T)
BY DEF BuiltFor

\* A bus is built over the transports configured, each sender for one of its name.
LEMMA PublishingIs ==
  ASSUME NEW a, IsSequence(config[a].middleware), IsSequence(config[a].transports),
         NEW part, NEW named, NEW n \in Nat
  PROVE  /\ WorksFor(a, part, Publishing(a, part, named, n).acc)
         /\ Publishing(a, part, named, n).acc.objects >= n
         /\ Publishing(a, part, named, n).acc.objects >= Resolved(named, Entries(a), n).objects
         /\ BuiltFor(a, Publishing(a, part, named, n).acc, Publishing(a, part, named, n).bus.senders, Transports(a))
<1> DEFINE p        == Publishing(a, part, named, n)
           resolved == Resolved(named, Entries(a), n)
           w        == Work(a, part, resolved.objects)
           parts    == ByConnection(config[a].transports)
           created  == Turns(a, w, parts, TRUE)
<1>1. p.acc = w \/ p.acc = created
  BY DEF Publishing, Created
<1>2. p.bus.senders = p.acc.senders
  BY DEF Publishing
<1>3. resolved.objects \in Nat /\ resolved.objects >= n
  BY EntriesAre, ResolvedGrows
<1> HIDE DEF resolved, p
<1>4. WorksFor(a, part, w) /\ w.objects = resolved.objects /\ w.senders = <<>>
  BY <1>3, WorkBegins
<1>5. IsSequence(parts) /\ ToSet(parts) \subseteq Transports(a)
  BY ByConnectionIs DEF Transports
<1> HIDE DEF parts, w
<1>6. BuiltFor(a, w, w.senders, Transports(a))
  BY <1>4, NoSenders
<1>7. IsWork(created) /\ Grown(w, created) /\ BuiltFor(a, created, created.senders, Transports(a))
  BY <1>4, <1>5, <1>6, TurnsIs DEF WorksFor
<1> HIDE DEF created
<1>8. WorksFor(a, part, created) /\ created.objects >= w.objects
  BY <1>4, <1>7, WorkGoesOn
<1>9. WorksFor(a, part, p.acc) /\ p.acc.objects >= n /\ p.acc.objects >= resolved.objects /\ BuiltFor(a, p.acc, p.acc.senders, Transports(a))
  <2>1. w.objects \in Nat /\ created.objects \in Nat
    BY <1>4, <1>8 DEF WorksFor, IsWork
  <2>2. created.objects >= n /\ created.objects >= resolved.objects /\ w.objects >= resolved.objects
    BY <1>3, <1>4, <1>8, <2>1
  <2> QED BY <1>1, <1>3, <1>4, <1>6, <1>7, <1>8, <2>2
<1> QED BY <1>2, <1>9 DEF p, resolved

\* What an application receives from: a registered receiver, or what was built for a transport.
ReceivesFrom(a, w, receivers) ==
  \A k \in DOMAIN receivers :
    receivers[k].scheme = "in-memory" => \E t \in Transports(a) : Built(a, w, t, receivers[k])

\* All of s is s.
LEMMA PickedAll ==
  ASSUME NEW s, IsSequence(s)
  PROVE  Picked(s, DOMAIN s) = s
<1> DEFINE k == Len(s)
           before == [i \in 1..k |-> {j \in 1..k : j < i}]
<1>1. k \in Nat /\ DOMAIN s = 1..k /\ s = [i \in 1..k |-> s[i]]
  BY PlacesOf DEF IsSequence
<1> HIDE DEF k
<1>2. \A i \in 1..k : before[i] = 1..i - 1
  BY <1>1
<1>3. \A i \in 1..k : Cardinality(before[i]) = i - 1
  <2>1. \A i \in 1..k : 1 \in Int /\ i - 1 \in Int /\ (1 > i - 1 => i - 1 = 0) /\ ~(1 > i - 1 /\ i # 1)
    BY <1>1
  <2>2. \A i \in 1..k : Cardinality(1..i - 1) = i - 1
    BY <2>1, FS_Interval
  <2> QED BY <1>2, <2>2
<1>4. DOMAIN before = 1..k
  OBVIOUS
<1>5. Cardinality(1..k) = k
  BY <1>1, FS_Interval
<1>6. Picked(s, DOMAIN s) = Listed(s, before)
  BY <1>1 DEF Picked
<1> HIDE DEF before
<1>7. \A n \in 1..k : (CHOOSE i \in 1..k : Cardinality(before[i]) = n - 1) = n
  <2> SUFFICES ASSUME NEW n \in 1..k PROVE (CHOOSE i \in 1..k : Cardinality(before[i]) = n - 1) = n
    OBVIOUS
  <2>1. Cardinality(before[n]) = n - 1
    BY <1>3
  <2>2. \A i \in 1..k : Cardinality(before[i]) = n - 1 => i = n
    BY <1>1, <1>3
  <2> QED BY <2>1, <2>2
<1>8. Listed(s, before) = [n \in 1..k |-> s[CHOOSE i \in 1..k : Cardinality(before[i]) = n - 1]]
  BY <1>4, <1>5 DEF Listed
<1>9. Listed(s, before) = [n \in 1..k |-> s[n]]
  BY <1>7, <1>8
<1> QED BY <1>1, <1>6, <1>9

LEMMA PickedFrom ==
  ASSUME NEW s, IsSequence(s), NEW places, places \subseteq DOMAIN s
  PROVE  IsSequence(Picked(s, places)) /\ ToSet(Picked(s, places)) \subseteq {s[i] : i \in places}
<1>1. Len(s) \in Nat /\ DOMAIN s = 1..Len(s)
  BY PlacesOf
<1>2. Picked(s, places) \in Seq({s[i] : i \in places})
  BY <1>1, PickedSequence
<1> QED BY <1>2, IsSequenceOf

\* The transports a worker is asked for are transports of the configuration.
Chosen(transports, names) == Once(Picked(names, {i \in DOMAIN names : names[i] \in Names(transports)}))
Group(transports, names) ==
  [i \in DOMAIN Chosen(transports, names) |-> CHOOSE t \in ToSet(transports) : t.name = Chosen(transports, names)[i]]

LEMMA GroupIs ==
  ASSUME NEW transports, IsSequence(transports), NEW names, IsSequence(names)
  PROVE  IsSequence(Group(transports, names)) /\ ToSet(Group(transports, names)) \subseteq ToSet(transports)
<1> DEFINE chosen == Chosen(transports, names)
           group == Group(transports, names)
           P == {i \in DOMAIN names : names[i] \in Names(transports)}
           q == Picked(names, P)
           R == {i \in DOMAIN q : \A j \in 1..i - 1 : q[j] # q[i]}
<1>1. IsSequence(q) /\ ToSet(q) \subseteq {names[i] : i \in P}
  BY PickedFrom
<1>2. {names[i] : i \in P} \subseteq Names(transports)
  OBVIOUS
<1>3. chosen = Picked(q, R)
  BY DEF Chosen, Once
<1> HIDE DEF q, chosen
<1>4. IsSequence(chosen) /\ ToSet(chosen) \subseteq {q[i] : i \in R}
  <2>1. R \subseteq DOMAIN q
    OBVIOUS
  <2> HIDE DEF R
  <2> QED BY <1>1, <1>3, <2>1, PickedFrom
<1>5. ToSet(chosen) \subseteq Names(transports)
  BY <1>1, <1>2, <1>4 DEF ToSet
<1>6. Len(chosen) \in Nat /\ DOMAIN chosen = 1..Len(chosen)
  BY <1>4, PlacesOf
<1>7. \A i \in DOMAIN chosen : group[i] \in ToSet(transports)
  <2> SUFFICES ASSUME NEW i \in DOMAIN chosen PROVE group[i] \in ToSet(transports)
    OBVIOUS
  <2>1. chosen[i] \in Names(transports)
    BY <1>5 DEF ToSet
  <2>2. \E t \in ToSet(transports) : t.name = chosen[i]
    BY <2>1 DEF Names, ToSet
  <2>3. group[i] = CHOOSE t \in ToSet(transports) : t.name = chosen[i]
    BY DEF Group, chosen
  <2> QED BY <2>2, <2>3
<1>8. group \in [1..Len(chosen) -> ToSet(transports)]
  BY <1>6, <1>7 DEF Group, chosen
<1>9. group \in Seq(ToSet(transports))
  <2> DEFINE m == Len(chosen)
             S == ToSet(transports)
  <2>1. m \in Nat /\ group \in [1..m -> S]
    BY <1>6, <1>8
  <2> HIDE DEF m, S, group
  <2>2. group \in Seq(S)
    BY ONLY <2>1
  <2> QED BY <2>2 DEF S
<1> QED BY <1>9, IsSequenceOf

\* A worker receives from the transports and receivers it was asked for, in that order, each
\* transport built for one of the configuration.
LEMMA WorkerForIs ==
  ASSUME NEW a, IsSequence(config[a].middleware), IsSequence(config[a].transports),
         NEW names, IsSequence(names), NEW named, NEW n \in Nat
  PROVE  LET w == WorkerFor(a, names, named, n)
         IN  /\ WorksFor(a, "workers", w.acc) /\ w.acc.objects >= n
             /\ ~w.failed => w.acc.objects >= Resolved(named, Entries(a), n).objects
             /\ w.worker.names = names
             /\ w.worker.receivers # <<>> =>
                  [k \in DOMAIN w.worker.receivers |-> w.worker.receivers[k].name] = names
             /\ ~w.failed => ReceivesFrom(a, w.acc, w.worker.receivers)
<1> DEFINE w        == WorkerFor(a, names, named, n)
           transports == config[a].transports
           chosen   == Once(Picked(names, {i \in DOMAIN names : names[i] \in Names(transports)}))
           group    == [i \in DOMAIN chosen |-> CHOOSE t \in ToSet(transports) : t.name = chosen[i]]
           parts    == ByConnection(group)
           resolved == Resolved(named, Entries(a), n)
           start    == Work(a, "workers", resolved.objects)
           served   == Turns(a, start, parts, FALSE)
           looping  == {t \in ToSet(group) : Scheme(t) \in OwnLoop}
           mute     == {i \in DOMAIN parts : Scheme(parts[i]) \in SendsOnly}
           upto     == {i \in DOMAIN parts : \A m \in mute : i <= m}
           creating == Turns(a, served, Picked(parts, upto), TRUE)
           created  == IF looping # {} THEN served ELSE creating
           found    == [x \in ToSet(names) |-> IF x \in DOMAIN created.senders THEN created.senders[x] ELSE ReceiverOf(x)]
           order    == Ordered(names, found)
           receivers == IF looping # {} THEN <<>> ELSE [i \in DOMAIN order |-> found[order[i]]]
           refused  == resolved.failed \/ ~(ToSet(names) \subseteq Names(transports) \cup Aliases(a))
<1>1. /\ w.acc = IF refused THEN Work(a, "workers", n) ELSE created
      /\ ~w.failed => ~refused
      /\ w.worker.names = names /\ w.worker.receivers = receivers
  BY DEF WorkerFor, Served, Created
<1>2. resolved.objects \in Nat /\ resolved.objects >= n
  BY EntriesAre, ResolvedGrows
<1> HIDE DEF w, resolved
<1>3. IsSequence(parts) /\ ToSet(parts) \subseteq Transports(a)
  <2>1. IsSequence(group) /\ ToSet(group) \subseteq ToSet(transports)
    <3>1. group = Group(transports, names) /\ IsSequence(transports)
      BY DEF Group, Chosen
    <3> HIDE DEF transports, chosen, group
    <3> QED BY <3>1, GroupIs
  <2> HIDE DEF chosen, group
  <2>2. IsSequence(parts) /\ ToSet(parts) \subseteq ToSet(group)
    BY <2>1, ByConnectionIs
  <2> QED BY <2>1, <2>2 DEF Transports
<1> DEFINE T == Transports(a)
<1> HIDE DEF parts, T
<1>4. IsSequence(Picked(parts, upto)) /\ ToSet(Picked(parts, upto)) \subseteq T
  <2>1. upto \subseteq DOMAIN parts
    OBVIOUS
  <2> HIDE DEF upto
  <2>2. IsSequence(Picked(parts, upto)) /\ ToSet(Picked(parts, upto)) \subseteq {parts[i] : i \in upto}
    BY <1>3, <2>1, PickedFrom
  <2>3. {parts[i] : i \in upto} \subseteq ToSet(parts)
    BY <2>1 DEF ToSet
  <2> QED BY <1>3, <2>2, <2>3 DEF T
<1>5. WorksFor(a, "workers", start) /\ start.objects = resolved.objects /\ start.senders = <<>>
  BY <1>2, WorkBegins
<1> HIDE DEF start, upto
<1>6. BuiltFor(a, start, start.senders, T)
  BY <1>5, NoSenders
<1>7. IsWork(served) /\ Grown(start, served) /\ BuiltFor(a, served, served.senders, T)
  BY <1>3, <1>5, <1>6, TurnsIs DEF WorksFor, T
<1> HIDE DEF served
<1>8. IsWork(creating) /\ Grown(served, creating) /\ BuiltFor(a, creating, creating.senders, T)
  BY <1>4, <1>7, TurnsIs
<1> HIDE DEF creating
<1>9. IsWork(created) /\ Grown(start, created) /\ BuiltFor(a, created, created.senders, T)
  BY <1>5, <1>7, <1>8, GrownOn DEF WorksFor
<1> HIDE DEF created
<1>10. WorksFor(a, "workers", created) /\ created.objects >= n /\ created.objects >= resolved.objects
  <2>1. WorksFor(a, "workers", created) /\ created.objects >= start.objects
    BY <1>5, <1>9, WorkGoesOn
  <2> QED BY <1>2, <1>5, <1>9, <2>1 DEF IsWork
<1>11. WorksFor(a, "workers", Work(a, "workers", n)) /\ Work(a, "workers", n).objects >= n
  BY WorkBegins
<1>12. WorksFor(a, "workers", w.acc) /\ w.acc.objects >= n /\ (~w.failed => w.acc.objects >= resolved.objects)
  BY <1>1, <1>10, <1>11
<1>13. order = names
  <2>1. {i \in DOMAIN names : names[i] \in DOMAIN found} = DOMAIN names
    BY DEF ToSet
  <2> QED BY <2>1, PickedAll DEF Ordered
<1> HIDE DEF order, looping
<1>14. \A x \in ToSet(names) : found[x].name = x
  <2> SUFFICES ASSUME NEW x \in ToSet(names) PROVE found[x].name = x
    OBVIOUS
  <2>1. CASE x \in DOMAIN created.senders
    <3>1. found[x] = created.senders[x]
      BY <2>1
    <3> HIDE DEF found
    <3>2. PICK t \in T : t.name = x /\ Built(a, created, t, found[x])
      BY <1>9, <2>1, <3>1 DEF BuiltFor
    <3>3. found[x].name = t.name
      BY <3>2 DEF Built
    <3> QED BY <3>2, <3>3
  <2>2. CASE x \notin DOMAIN created.senders
    BY <2>2 DEF ReceiverOf
  <2> QED BY <2>1, <2>2
<1>15. \A x \in ToSet(names) :
         found[x].scheme = "in-memory" => \E t \in T : Built(a, created, t, found[x])
  <2> SUFFICES ASSUME NEW x \in ToSet(names), found[x].scheme = "in-memory"
               PROVE  \E t \in T : Built(a, created, t, found[x])
    OBVIOUS
  <2>1. CASE x \in DOMAIN created.senders
    <3>1. found[x] = created.senders[x]
      BY <2>1
    <3> HIDE DEF found
    <3> QED BY <1>9, <2>1, <3>1 DEF BuiltFor
  <2>2. CASE x \notin DOMAIN created.senders
    BY <2>2 DEF ReceiverOf
  <2> QED BY <2>1, <2>2
<1> HIDE DEF found
<1>16. Len(names) \in Nat /\ DOMAIN names = 1..Len(names) /\ names = [k \in DOMAIN names |-> names[k]]
       /\ \A k \in DOMAIN names : names[k] \in ToSet(names)
  BY PlacesOf DEF IsSequence, ToSet
<1>17. CASE looping # {}
  <2>1. receivers = <<>>
    BY <1>17
  <2>2. ReceivesFrom(a, created, <<>>)
    BY DEF ReceivesFrom
  <2> QED BY <1>1, <1>12, <2>1, <2>2 DEF w, resolved
<1>18. CASE looping = {}
  <2>1. receivers = [i \in DOMAIN names |-> found[names[i]]]
    BY <1>13, <1>18
  <2> HIDE DEF receivers
  <2>2. DOMAIN receivers = DOMAIN names /\ \A k \in DOMAIN names : receivers[k] = found[names[k]]
    BY <2>1
  <2>3. [k \in DOMAIN receivers |-> receivers[k].name] = names
    BY <1>14, <1>16, <2>2
  <2>4. ReceivesFrom(a, created, receivers)
    BY <1>15, <1>16, <2>2 DEF ReceivesFrom, T
  <2> QED BY <1>1, <1>12, <2>3, <2>4 DEF w, resolved
<1> QED BY <1>17, <1>18

-----------------------------------------------------------------------------
(***************************************************************************)
(* Adapters, transports and connections.                                   *)
(***************************************************************************)

\* What a part of an application has discovered, and the recorders there are.
Here(a, part) == [discovered |-> discovered[Root(a, part)], made |-> made]
Parts == {"bus", "workers"}

\* A worker receives from what it was asked for, in that order.
InOrder(worker) ==
  worker.receivers # <<>> => [k \in DOMAIN worker.receivers |-> worker.receivers[k].name] = worker.names

\* An application r fits what its bus's factory (v) and its workers' (w) discovered and made, and
\* the connections o its publishers opened: what it has was built of that, for the container it
\* has now, and a connection's adapter is there to close it.
Fits(a, r, v, w, o) ==
  /\ DOMAIN r = {"phase", "container", "services", "factory", "named", "bus", "worker", "again"}
  /\ r.container \in Nat
  /\ ~Bundled(a) => r.phase = "booted"
  /\ Bundled(a) => r.again = <<>>
  /\ Bundled(a) /\ r.phase = "booted" => r.container > 0
  /\ r.phase \notin {"booted", "cut short"} => o = {}
  /\ IsSequence(r.bus)
  /\ Bundled(a) /\ (r.bus # <<>> \/ r.worker # <<>> \/ o # {}) => r.factory = r.container /\ r.container > 0
  /\ \A i \in DOMAIN r.bus : BuiltFor(a, v, r.bus[i].senders, Transports(a))
  /\ \A i \in DOMAIN r.again : BuiltFor(a, w, r.again[i].senders, Transports(a))
  /\ \A i \in DOMAIN r.worker :
       /\ InOrder(r.worker[i])
       /\ ReceivesFrom(a, w, r.worker[i].receivers)
  /\ \A c \in o : c[1] \in (IF config[a].own = {} THEN {} ELSE {0}) \cup {v.discovered[s] : s \in DOMAIN v.discovered}

WiringInv ==
  /\ \E c \in Configurations : config = c.apps
  /\ objects \in Nat
  /\ DOMAIN app = DOMAIN config
  /\ DOMAIN opened = DOMAIN config
  /\ DOMAIN discovered = (DOMAIN config) \X {"shared", "bus", "workers"}
  /\ \A a \in DOMAIN config : Fits(a, app[a], Here(a, "bus"), Here(a, "workers"), opened[a])

LEMMA ConfigIs ==
  ASSUME \E c \in Configurations : config = c.apps, NEW a \in DOMAIN config
  PROVE  /\ IsSequence(config[a].transports) /\ IsSequence(config[a].middleware)
         /\ \A i, j \in DOMAIN config[a].transports :
              config[a].transports[i].name = config[a].transports[j].name => i = j
         /\ \A i \in DOMAIN config[a].middleware :
              /\ config[a].middleware[i].kind \in {"built", "name", "args"}
              /\ config[a].middleware[i].kind # "args" => config[a].middleware[i].args = None
BY ConfigurationsAssumption

\* What an application has goes on fitting as more is discovered and made.
LEMMA FitsOn ==
  ASSUME NEW a, NEW r, NEW v, NEW w, NEW o, Fits(a, r, v, w, o), NEW v2, NEW w2,
         Keeps(v.discovered, v2.discovered), Keeps(v.made, v2.made),
         Keeps(w.discovered, w2.discovered), Keeps(w.made, w2.made)
  PROVE  Fits(a, r, v2, w2, o)
<1>1. \A i \in DOMAIN r.bus : BuiltFor(a, v2, r.bus[i].senders, Transports(a))
  BY BuiltForStays DEF Fits
<1>2. \A i \in DOMAIN r.again : BuiltFor(a, w2, r.again[i].senders, Transports(a))
  BY BuiltForStays DEF Fits
<1>3. \A i \in DOMAIN r.worker : ReceivesFrom(a, w2, r.worker[i].receivers)
  <2>1. \A i \in DOMAIN r.worker : ReceivesFrom(a, w, r.worker[i].receivers)
    BY DEF Fits
  <2> QED BY <2>1, BuiltStays DEF ReceivesFrom
<1>4. {v.discovered[s] : s \in DOMAIN v.discovered} \subseteq {v2.discovered[s] : s \in DOMAIN v2.discovered}
  BY DEF Keeps
<1> QED BY <1>1, <1>2, <1>3, <1>4 DEF Fits

LEMMA FitsWithBus ==
  ASSUME NEW a, NEW r, NEW v, NEW w, NEW o, Fits(a, r, v, w, o), NEW bus,
         Bundled(a) => r.factory = r.container /\ r.container > 0,
         BuiltFor(a, v, bus.senders, Transports(a)),
         NEW failed
  PROVE  Fits(a, [r EXCEPT !.bus = IF failed THEN <<>> ELSE <<bus>>], v, w, o)
<1> DEFINE s == IF failed THEN <<>> ELSE <<bus>>
           r2 == [r EXCEPT !.bus = s]
<1>1. IsSequence(s) /\ \A i \in DOMAIN s : s[i] = bus
  <2>1. <<bus>> \in Seq({bus}) /\ <<>> \in Seq({bus})
    OBVIOUS
  <2>2. s \in Seq({bus})
    BY <2>1
  <2> HIDE DEF s
  <2>3. IsSequence(s)
    BY <2>2, IsSequenceOf
  <2>4. \A i \in DOMAIN s : s[i] \in {bus}
    BY <2>2
  <2> QED BY <2>3, <2>4
<1> HIDE DEF s
<1>2. /\ DOMAIN r2 = DOMAIN r /\ r2.phase = r.phase /\ r2.container = r.container /\ r2.factory = r.factory
      /\ r2.bus = s /\ r2.worker = r.worker /\ r2.again = r.again
  BY DEF Fits
<1> HIDE DEF r2
<1>3. Fits(a, r2, v, w, o)
  BY <1>1, <1>2 DEF Fits
<1> QED BY <1>3 DEF r2, s

LEMMA FitsWithAgain ==
  ASSUME NEW a, NEW r, NEW v, NEW w, NEW o, Fits(a, r, v, w, o), NEW bus, ~Bundled(a),
         BuiltFor(a, w, bus.senders, Transports(a)),
         NEW failed
  PROVE  Fits(a, [r EXCEPT !.again = IF failed THEN <<>> ELSE <<bus>>], v, w, o)
<1> DEFINE s == IF failed THEN <<>> ELSE <<bus>>
           r2 == [r EXCEPT !.again = s]
<1>1. \A i \in DOMAIN s : s[i] = bus
  OBVIOUS
<1> HIDE DEF s
<1>2. /\ DOMAIN r2 = DOMAIN r /\ r2.phase = r.phase /\ r2.container = r.container /\ r2.factory = r.factory
      /\ r2.bus = r.bus /\ r2.worker = r.worker /\ r2.again = s
  BY DEF Fits
<1> HIDE DEF r2
<1>3. \A i \in DOMAIN r2.again : BuiltFor(a, w, r2.again[i].senders, Transports(a))
  BY <1>1, <1>2
<1>4. Fits(a, r2, v, w, o)
  BY <1>2, <1>3 DEF Fits
<1> QED BY <1>4 DEF r2, s

LEMMA FitsWithWorker ==
  ASSUME NEW a, NEW r, NEW v, NEW w, NEW o, Fits(a, r, v, w, o), NEW worker,
         Bundled(a) => r.factory = r.container /\ r.container > 0,
         NEW failed,
         ~failed =>
           /\ InOrder(worker)
           /\ ReceivesFrom(a, w, worker.receivers)
  PROVE  Fits(a, [r EXCEPT !.worker = IF failed THEN <<>> ELSE <<worker>>], v, w, o)
<1> DEFINE s == IF failed THEN <<>> ELSE <<worker>>
           r2 == [r EXCEPT !.worker = s]
<1>1. \A i \in DOMAIN s : ~failed /\ s[i] = worker
  OBVIOUS
<1> HIDE DEF s
<1>2. /\ DOMAIN r2 = DOMAIN r /\ r2.phase = r.phase /\ r2.container = r.container /\ r2.factory = r.factory
      /\ r2.bus = r.bus /\ r2.worker = s /\ r2.again = r.again
  BY DEF Fits
<1> HIDE DEF r2
<1>3. \A i \in DOMAIN r2.worker :
        /\ InOrder(r2.worker[i])
        /\ ReceivesFrom(a, w, r2.worker[i].receivers)
  BY <1>1, <1>2
<1>4. Fits(a, r2, v, w, o)
  BY <1>2, <1>3 DEF Fits
<1> QED BY <1>4 DEF r2, s

\* The kernel has a new container since its factory was built.
Anew(a) == Bundled(a) /\ app[a].factory # app[a].container

\* A factory's work disturbs nothing any application has; its own it starts anew with the container.
LEMMA WorkedIs ==
  ASSUME WiringInv, UNCHANGED config, NEW a \in DOMAIN config, NEW part \in Parts, NEW acc,
         WorksFor(a, part, acc), Worked(a, part, acc)
  PROVE  /\ objects' \in Nat /\ objects' = acc.objects
         /\ DOMAIN discovered' = DOMAIN discovered
         /\ Keeps(made, made')
         /\ discovered'[Root(a, part)] = acc.discovered /\ made' = acc.made
         /\ \A b \in DOMAIN config, p \in Parts :
              b # a \/ ~Anew(a) => Keeps(discovered[Root(b, p)], discovered'[Root(b, p)])
<1>1. /\ discovered' = [discovered EXCEPT ![Root(a, part)] = acc.discovered]
      /\ made' = acc.made /\ objects' = acc.objects
  BY DEF Worked
<1>2. objects' \in Nat /\ Keeps(made, made')
  BY <1>1 DEF WorksFor, IsWork
<1>3. \A b \in DOMAIN config, p \in Parts : Root(b, p) \in DOMAIN discovered
  BY DEF Root, Parts, WiringInv
<1>4. discovered'[Root(a, part)] = acc.discovered
  BY <1>1, <1>3
<1>5. ASSUME NEW b \in DOMAIN config, NEW p \in Parts, b # a \/ ~Anew(a)
      PROVE  Keeps(discovered[Root(b, p)], discovered'[Root(b, p)])
  <2>1. CASE Root(b, p) = Root(a, part)
    <3>1. b = a
      BY <2>1 DEF Root
    <3>2. Start(a, part) = discovered[Root(a, part)]
      BY <1>5, <3>1 DEF Start, Anew
    <3> QED BY <2>1, <3>2, <1>4 DEF WorksFor
  <2>2. CASE Root(b, p) # Root(a, part)
    <3>1. discovered'[Root(b, p)] = discovered[Root(b, p)]
      BY <1>1, <2>2, <1>3
    <3> QED BY <3>1 DEF Keeps
  <2> QED BY <2>1, <2>2
<1> QED BY <1>1, <1>2, <1>4, <1>5

\* What is so of some values stays so, as long as the configuration is the same.
LEMMA FitsNext ==
  ASSUME UNCHANGED config, NEW CONSTANT a, NEW CONSTANT r, NEW CONSTANT v, NEW CONSTANT w, NEW CONSTANT o,
         Fits(a, r, v, w, o)
  PROVE  Fits(a, r, v, w, o)'
<1>1. \A c, t, b : Built(a, c, t, b) => Built(a, c, t, b)'
  BY DEF Built, AdapterOf
<1>2. Bundled(a)' = Bundled(a) /\ Transports(a)' = Transports(a)
  BY DEF Bundled, Transports
<1>3. \A c, s, T : BuiltFor(a, c, s, T) => BuiltFor(a, c, s, T)'
  BY <1>1 DEF BuiltFor
<1>4. \A c, s : ReceivesFrom(a, c, s) => ReceivesFrom(a, c, s)'
  BY <1>1, <1>2 DEF ReceivesFrom
<1>5. \A i \in DOMAIN r.bus : BuiltFor(a, v, r.bus[i].senders, Transports(a))'
  BY <1>2, <1>3 DEF Fits
<1>6. \A i \in DOMAIN r.again : BuiltFor(a, w, r.again[i].senders, Transports(a))'
  BY <1>2, <1>3 DEF Fits
<1>7. \A i \in DOMAIN r.worker : ReceivesFrom(a, w, r.worker[i].receivers)'
  BY <1>4 DEF Fits
<1> QED BY <1>2, <1>5, <1>6, <1>7 DEF Fits

\* One application does something; whatever is discovered and made, the others fit as before.
LEMMA WiringOn ==
  ASSUME WiringInv, UNCHANGED config, objects' \in Nat, DOMAIN app' = DOMAIN app, DOMAIN opened' = DOMAIN opened,
         DOMAIN discovered' = DOMAIN discovered, Keeps(made, made'), NEW a \in DOMAIN config,
         \A b \in DOMAIN config \ {a} :
           /\ app'[b] = app[b] /\ opened'[b] = opened[b]
           /\ \A p \in Parts : Keeps(discovered[Root(b, p)], discovered'[Root(b, p)]),
         Fits(a, app'[a], [discovered |-> discovered'[Root(a, "bus")], made |-> made'],
                 [discovered |-> discovered'[Root(a, "workers")], made |-> made'], opened'[a])
  PROVE  WiringInv'
<1>1. ASSUME NEW b \in DOMAIN config
      PROVE  Fits(b, app'[b], [discovered |-> discovered'[Root(b, "bus")], made |-> made'],
                  [discovered |-> discovered'[Root(b, "workers")], made |-> made'], opened'[b])
  <2>1. CASE b = a
    BY <2>1
  <2>2. CASE b # a
    <3>1. Fits(b, app[b], Here(b, "bus"), Here(b, "workers"), opened[b])
      BY DEF WiringInv
    <3>2. \A p \in Parts : Keeps(discovered[Root(b, p)], discovered'[Root(b, p)])
      BY <2>2
    <3> DEFINE v == Here(b, "bus")
               w == Here(b, "workers")
               v2 == [discovered |-> discovered'[Root(b, "bus")], made |-> made']
               w2 == [discovered |-> discovered'[Root(b, "workers")], made |-> made']
    <3>3. /\ Keeps(v.discovered, v2.discovered) /\ Keeps(v.made, v2.made)
          /\ Keeps(w.discovered, w2.discovered) /\ Keeps(w.made, w2.made)
      BY <3>2 DEF Here, Parts
    <3> HIDE DEF v, w, v2, w2
    <3>4. Fits(b, app[b], v2, w2, opened[b])
      BY <3>1, <3>3, FitsOn DEF v, w
    <3> QED BY <2>2, <3>4 DEF v2, w2
  <2> QED BY <2>1, <2>2
<1>2. ASSUME NEW b \in DOMAIN config
      PROVE  Fits(b, app[b], Here(b, "bus"), Here(b, "workers"), opened[b])'
  <2>1. PICK r : r = app'[b]
    OBVIOUS
  <2>2. PICK o : o = opened'[b]
    OBVIOUS
  <2>3. PICK v : v = [discovered |-> discovered'[Root(b, "bus")], made |-> made']
    OBVIOUS
  <2>4. PICK w : w = [discovered |-> discovered'[Root(b, "workers")], made |-> made']
    OBVIOUS
  <2>5. Fits(b, r, v, w, o)
    BY <1>1, <2>1, <2>2, <2>3, <2>4
  <2>6. Fits(b, r, v, w, o)'
    BY <2>5, FitsNext
  <2>7. v = Here(b, "bus")' /\ w = Here(b, "workers")'
    BY <2>3, <2>4 DEF Here, Root, Bundled
  <2> QED BY <2>1, <2>2, <2>6, <2>7
<1> QED BY <1>2 DEF WiringInv

\* What the container keeps of building fits what its factory has done since.
LEMMA KeptFits ==
  ASSUME WiringInv, NEW a \in DOMAIN config, app[a].phase = "booted", NEW once, NEW v, NEW w,
         ~Anew(a) =>
           /\ Keeps(discovered[Root(a, "bus")], v.discovered) /\ Keeps(made, v.made)
           /\ Keeps(discovered[Root(a, "workers")], w.discovered) /\ Keeps(made, w.made)
  PROVE  /\ Fits(a, Kept(a, once), v, w, opened[a])
         /\ Bundled(a) => Kept(a, once).factory = Kept(a, once).container /\ Kept(a, once).container > 0
<1> DEFINE r  == app[a]
           r2 == Kept(a, once)
           o  == opened[a]
           v0 == Here(a, "bus")
           w0 == Here(a, "workers")
<1>1. Fits(a, r, v0, w0, o)
  BY DEF WiringInv
<1>2. /\ DOMAIN r2 = DOMAIN r /\ r2.phase = r.phase /\ r2.container = r.container
      /\ r2.factory = IF Bundled(a) THEN r.container ELSE 0
      /\ r2.bus = r.bus /\ r2.worker = r.worker /\ r2.again = r.again
  BY <1>1 DEF Fits, Kept
<1> HIDE DEF r2
<1>3. CASE Anew(a)
  <2>1. r.bus = <<>> /\ r.worker = <<>> /\ r.again = <<>> /\ o = {}
    BY <1>1, <1>3 DEF Fits, Anew
  <2> HIDE DEF r, o
  <2> QED BY <1>1, <1>2, <1>3, <2>1 DEF Fits, Anew, r2, r, o
<1>4. CASE ~Anew(a)
  <2>1. /\ Keeps(v0.discovered, v.discovered) /\ Keeps(v0.made, v.made)
        /\ Keeps(w0.discovered, w.discovered) /\ Keeps(w0.made, w.made)
    BY <1>4 DEF Here
  <2> HIDE DEF v0, w0, r, o
  <2>2. Fits(a, r, v, w, o)
    BY <1>1, <2>1, FitsOn
  <2>3. r.phase = "booted" /\ (Bundled(a) => r.container > 0 /\ r.factory = r.container)
    BY <1>4, <2>2 DEF Fits, Anew, r
  <2>4. Fits(a, r2, v, w, o)
    BY <1>2, <2>2, <2>3 DEF Fits
  <2> QED BY <1>2, <2>3, <2>4 DEF r2, r, o
<1> QED BY <1>3, <1>4

LEMMA KeepsIt ==
  ASSUME NEW f
  PROVE  Keeps(f, f)
BY DEF Keeps

\* What fits an application afterwards, its factory having worked.
LEMMA WorkedFits ==
  ASSUME WiringInv, UNCHANGED <<config, opened>>, NEW a \in DOMAIN config, app[a].phase = "booted",
         NEW part \in Parts, NEW acc, WorksFor(a, part, acc), Worked(a, part, acc), NEW once, NEW v, NEW w,
         v = [discovered |-> discovered'[Root(a, "bus")], made |-> made'],
         w = [discovered |-> discovered'[Root(a, "workers")], made |-> made']
  PROVE  /\ Fits(a, Kept(a, once), v, w, opened[a])
         /\ Bundled(a) => Kept(a, once).factory = Kept(a, once).container /\ Kept(a, once).container > 0
         /\ ~Bundled(a) => Fits(a, app[a], v, w, opened[a])
         /\ part = "bus" => \A senders, T : BuiltFor(a, acc, senders, T) => BuiltFor(a, v, senders, T)
         /\ part = "workers" =>
              /\ \A senders, T : BuiltFor(a, acc, senders, T) => BuiltFor(a, w, senders, T)
              /\ \A receivers : ReceivesFrom(a, acc, receivers) => ReceivesFrom(a, w, receivers)
<1>1. /\ discovered'[Root(a, part)] = acc.discovered /\ made' = acc.made
      /\ Keeps(made, made')
      /\ ~Anew(a) => \A p \in Parts : Keeps(discovered[Root(a, p)], discovered'[Root(a, p)])
  BY WorkedIs
<1>2. v.discovered = discovered'[Root(a, "bus")] /\ v.made = made'
      /\ w.discovered = discovered'[Root(a, "workers")] /\ w.made = made'
  OBVIOUS
<1>3. ~Anew(a) =>
        /\ Keeps(discovered[Root(a, "bus")], v.discovered) /\ Keeps(made, v.made)
        /\ Keeps(discovered[Root(a, "workers")], w.discovered) /\ Keeps(made, w.made)
  BY <1>1, <1>2 DEF Parts
<1>4. /\ Fits(a, Kept(a, once), v, w, opened[a])
      /\ Bundled(a) => Kept(a, once).factory = Kept(a, once).container /\ Kept(a, once).container > 0
  BY <1>3, KeptFits
<1>5. ASSUME ~Bundled(a) PROVE Fits(a, app[a], v, w, opened[a])
  <2> DEFINE v0 == Here(a, "bus")
             w0 == Here(a, "workers")
             r  == app[a]
             o  == opened[a]
  <2>1. ~Anew(a)
    BY <1>5 DEF Anew
  <2>2. /\ Keeps(v0.discovered, v.discovered) /\ Keeps(v0.made, v.made)
        /\ Keeps(w0.discovered, w.discovered) /\ Keeps(w0.made, w.made)
    BY <1>3, <2>1 DEF Here
  <2>3. Fits(a, r, v0, w0, o)
    BY DEF WiringInv
  <2> HIDE DEF v0, w0, r, o
  <2>4. Fits(a, r, v, w, o)
    BY <2>2, <2>3, FitsOn
  <2> QED BY <2>4 DEF r, o
<1>6. ASSUME part = "bus", NEW senders, NEW T, BuiltFor(a, acc, senders, T)
      PROVE  BuiltFor(a, v, senders, T)
  BY <1>1, <1>2, <1>6, KeepsIt, BuiltForStays
<1>7. ASSUME part = "workers", NEW senders, NEW T, BuiltFor(a, acc, senders, T)
      PROVE  BuiltFor(a, w, senders, T)
  BY <1>1, <1>2, <1>7, KeepsIt, BuiltForStays
<1>8. ASSUME part = "workers", NEW receivers, ReceivesFrom(a, acc, receivers)
      PROVE  ReceivesFrom(a, w, receivers)
  <2>1. \A t, b : Built(a, acc, t, b) => Built(a, w, t, b)
    BY <1>1, <1>2, <1>8, KeepsIt, BuiltStays
  <2> QED BY <2>1, <1>8 DEF ReceivesFrom
<1> QED BY <1>4, <1>5, <1>6, <1>7, <1>8

\* An application's factory works, and the application becomes r.
LEMMA WorkedOn ==
  ASSUME WiringInv, UNCHANGED <<config, opened>>, NEW a \in DOMAIN config,
         NEW part \in Parts, NEW acc, WorksFor(a, part, acc), Worked(a, part, acc),
         NEW r, app' = [app EXCEPT ![a] = r],
         Fits(a, r, [discovered |-> discovered'[Root(a, "bus")], made |-> made'],
                 [discovered |-> discovered'[Root(a, "workers")], made |-> made'], opened[a])
  PROVE  WiringInv'
<1>1. /\ objects' \in Nat /\ DOMAIN discovered' = DOMAIN discovered /\ Keeps(made, made')
      /\ \A b \in DOMAIN config, p \in Parts :
           b # a \/ ~Anew(a) => Keeps(discovered[Root(b, p)], discovered'[Root(b, p)])
  BY WorkedIs
<1>2. DOMAIN app' = DOMAIN app /\ app'[a] = r /\ \A b \in DOMAIN config \ {a} : app'[b] = app[b]
  BY DEF WiringInv
<1>3. \A b \in DOMAIN config \ {a} :
           /\ app'[b] = app[b] /\ opened'[b] = opened[b]
           /\ \A p \in Parts : Keeps(discovered[Root(b, p)], discovered'[Root(b, p)])
  BY <1>1, <1>2
<1>4. Fits(a, app'[a], [discovered |-> discovered'[Root(a, "bus")], made |-> made'],
                 [discovered |-> discovered'[Root(a, "workers")], made |-> made'], opened'[a])
  BY <1>2
<1> QED BY <1>1, <1>2, <1>3, <1>4, WiringOn

LEMMA WiringGetBus ==
  ASSUME WiringInv, NEW a \in DOMAIN config, GetBus(a)
  PROVE  WiringInv'
<1> DEFINE once == NamedOnce(a, objects)
           p    == Publishing(a, "bus", once.named, once.objects)
           r    == [Kept(a, once) EXCEPT !.bus = IF p.failed THEN <<>> ELSE <<p.bus>>]
           v    == [discovered |-> discovered'[Root(a, "bus")], made |-> made']
           w    == [discovered |-> discovered'[Root(a, "workers")], made |-> made']
<1>1. /\ app[a].phase = "booted" /\ app' = [app EXCEPT ![a] = r] /\ Worked(a, "bus", p.acc)
      /\ UNCHANGED <<config, opened>>
  BY DEF GetBus, Asks
<1>2. objects \in Nat /\ IsSequence(config[a].middleware) /\ IsSequence(config[a].transports)
  BY ConfigIs DEF WiringInv
<1>3. once.objects \in Nat
  BY <1>2, NamedOnceGrows
<1> HIDE DEF once
<1>4. WorksFor(a, "bus", p.acc) /\ BuiltFor(a, p.acc, p.bus.senders, Transports(a))
  BY <1>2, <1>3, PublishingIs
<1> HIDE DEF p
<1> DEFINE kept == Kept(a, once)
<1>5. /\ Fits(a, kept, v, w, opened[a])
      /\ Bundled(a) => kept.factory = kept.container /\ kept.container > 0
      /\ \A senders, T : BuiltFor(a, p.acc, senders, T) => BuiltFor(a, v, senders, T)
  BY <1>1, <1>4, WorkedFits DEF Parts
<1>6. BuiltFor(a, v, p.bus.senders, Transports(a))
  BY <1>4, <1>5
<1> HIDE DEF kept, v, w
<1>7. Fits(a, r, v, w, opened[a])
  BY <1>5, <1>6, FitsWithBus DEF kept
<1> HIDE DEF r
<1> QED BY <1>1, <1>4, <1>7, WorkedOn DEF Parts, v, w

LEMMA WiringRedispatch ==
  ASSUME WiringInv, NEW a \in DOMAIN config, Redispatch(a)
  PROVE  WiringInv'
<1> DEFINE p    == Publishing(a, "workers", <<>>, objects)
           r    == [app[a] EXCEPT !.again = IF p.failed THEN <<>> ELSE <<p.bus>>]
           v    == [discovered |-> discovered'[Root(a, "bus")], made |-> made']
           w    == [discovered |-> discovered'[Root(a, "workers")], made |-> made']
<1>1. /\ app[a].phase = "booted" /\ ~Bundled(a)
      /\ app' = [app EXCEPT ![a].again = IF p.failed THEN <<>> ELSE <<p.bus>>] /\ Worked(a, "workers", p.acc)
      /\ UNCHANGED <<config, opened>>
  BY DEF Redispatch, Asks
<1>2. objects \in Nat /\ IsSequence(config[a].middleware) /\ IsSequence(config[a].transports)
  BY ConfigIs DEF WiringInv
<1>3. app' = [app EXCEPT ![a] = r]
  BY <1>1 DEF WiringInv
<1>4. WorksFor(a, "workers", p.acc) /\ BuiltFor(a, p.acc, p.bus.senders, Transports(a))
  BY <1>2, PublishingIs
<1> HIDE DEF p
<1>5. PICK acc : acc = p.acc
  OBVIOUS
<1>6. \A once : /\ Fits(a, Kept(a, once), v, w, opened[a]) /\ Fits(a, app[a], v, w, opened[a])
                /\ \A senders, T : BuiltFor(a, acc, senders, T) => BuiltFor(a, w, senders, T)
  BY <1>1, <1>4, <1>5, WorkedFits DEF Parts
<1>7. BuiltFor(a, w, p.bus.senders, Transports(a)) /\ Fits(a, app[a], v, w, opened[a])
  BY <1>4, <1>6, <1>5
<1> HIDE DEF v, w
<1>8. Fits(a, r, v, w, opened[a])
  BY <1>1, <1>7, FitsWithAgain
<1> HIDE DEF r
<1> QED BY <1>1, <1>3, <1>4, <1>8, WorkedOn DEF Parts, v, w

LEMMA WiringConsume ==
  ASSUME WiringInv, NEW a \in DOMAIN config, Consume(a)
  PROVE  WiringInv'
<1> DEFINE once == NamedOnce(a, objects)
           v    == [discovered |-> discovered'[Root(a, "bus")], made |-> made']
           w    == [discovered |-> discovered'[Root(a, "workers")], made |-> made']
<1>1. PICK names \in Asked :
        LET wf == WorkerFor(a, names, once.named, once.objects)
        IN  /\ app' = [app EXCEPT ![a] = [Kept(a, once) EXCEPT !.worker = IF wf.failed THEN <<>> ELSE <<wf.worker>>]]
            /\ Worked(a, "workers", wf.acc)
  BY DEF Consume
<1> DEFINE wf == WorkerFor(a, names, once.named, once.objects)
           r  == [Kept(a, once) EXCEPT !.worker = IF wf.failed THEN <<>> ELSE <<wf.worker>>]
<1>2. /\ app[a].phase = "booted" /\ app' = [app EXCEPT ![a] = r] /\ Worked(a, "workers", wf.acc)
      /\ UNCHANGED <<config, opened>>
  BY <1>1 DEF Consume, Asks
<1>3. objects \in Nat /\ IsSequence(config[a].middleware) /\ IsSequence(config[a].transports) /\ IsSequence(names)
  BY ConfigIs, ConfigurationsAssumption DEF WiringInv
<1>4. once.objects \in Nat
  BY <1>3, NamedOnceGrows
<1> HIDE DEF once
<1>5. /\ WorksFor(a, "workers", wf.acc)
      /\ InOrder(wf.worker)
      /\ ~wf.failed => ReceivesFrom(a, wf.acc, wf.worker.receivers)
  BY <1>3, <1>4, WorkerForIs DEF InOrder
<1> HIDE DEF wf
<1> DEFINE kept == Kept(a, once)
<1>6. /\ Fits(a, kept, v, w, opened[a])
      /\ Bundled(a) => kept.factory = kept.container /\ kept.container > 0
      /\ \A receivers : ReceivesFrom(a, wf.acc, receivers) => ReceivesFrom(a, w, receivers)
  BY <1>2, <1>5, WorkedFits DEF Parts
<1>7. ~wf.failed => InOrder(wf.worker) /\ ReceivesFrom(a, w, wf.worker.receivers)
  BY <1>5, <1>6
<1> HIDE DEF kept, v, w
<1>8. Fits(a, r, v, w, opened[a])
  BY <1>6, <1>7, FitsWithWorker DEF kept
<1> HIDE DEF r
<1> QED BY <1>2, <1>5, <1>8, WorkedOn DEF Parts, v, w

\* Only application a and its connections change.
Alone(a) ==
  /\ DOMAIN app' = DOMAIN app /\ DOMAIN opened' = DOMAIN opened
  /\ \A b \in DOMAIN config \ {a} : app'[b] = app[b] /\ opened'[b] = opened[b]

\* Nothing is built: an application becomes r and its publishers' connections o.
LEMMA OneChanges ==
  ASSUME WiringInv, UNCHANGED <<config, discovered, made, objects>>, NEW a \in DOMAIN config, NEW r, NEW o,
         Alone(a), app'[a] = r, opened'[a] = o,
         \A v, w : v = Here(a, "bus") /\ w = Here(a, "workers") /\ Fits(a, app[a], v, w, opened[a]) => Fits(a, r, v, w, o)
  PROVE  WiringInv'
<1>1. /\ DOMAIN app' = DOMAIN app /\ DOMAIN opened' = DOMAIN opened
      /\ \A b \in DOMAIN config \ {a} : app'[b] = app[b] /\ opened'[b] = opened[b]
  BY DEF Alone
<1>2. Fits(a, app[a], Here(a, "bus"), Here(a, "workers"), opened[a])
  BY DEF WiringInv
<1>3. Fits(a, app'[a], [discovered |-> discovered'[Root(a, "bus")], made |-> made'],
                 [discovered |-> discovered'[Root(a, "workers")], made |-> made'], opened'[a])
  BY <1>1, <1>2 DEF Here
<1>4. /\ objects' \in Nat /\ DOMAIN discovered' = DOMAIN discovered /\ Keeps(made, made')
      /\ \A b \in DOMAIN config \ {a} :
           /\ app'[b] = app[b] /\ opened'[b] = opened[b]
           /\ \A p \in Parts : Keeps(discovered[Root(b, p)], discovered'[Root(b, p)])
  BY <1>1, KeepsIt DEF WiringInv
<1> QED BY <1>1, <1>3, <1>4, WiringOn

LEMMA WiringSame ==
  ASSUME WiringInv, UNCHANGED <<config, opened, discovered, made, objects>>,
         DOMAIN app' = DOMAIN app, \A a \in DOMAIN config : app'[a] = app[a]
  PROVE  WiringInv'
<1>1. ASSUME NEW a \in DOMAIN config
      PROVE  Fits(a, app[a], Here(a, "bus"), Here(a, "workers"), opened[a])'
  <2>1. PICK r : r = app[a]
    OBVIOUS
  <2>2. PICK o : o = opened[a]
    OBVIOUS
  <2>3. PICK v : v = Here(a, "bus")
    OBVIOUS
  <2>4. PICK w : w = Here(a, "workers")
    OBVIOUS
  <2>5. Fits(a, r, v, w, o)
    BY <2>1, <2>2, <2>3, <2>4 DEF WiringInv
  <2>6. Fits(a, r, v, w, o)'
    BY <2>5, FitsNext
  <2>7. v = Here(a, "bus")' /\ w = Here(a, "workers")'
    BY <2>3, <2>4 DEF Here, Root, Bundled
  <2> QED BY <2>1, <2>2, <2>6, <2>7
<1> QED BY <1>1 DEF WiringInv

LEMMA WiringBuild ==
  ASSUME WiringInv, NEW a \in DOMAIN config, Build(a)
  PROVE  WiringInv'
<1>1. PICK ok, services : app' = [app EXCEPT ![a].phase = IF ok THEN "built" ELSE "refused", ![a].services = services]
  BY Zenon DEF Build
<1> DEFINE phase == IF ok THEN "built" ELSE "refused"
<1>2. phase \in {"built", "refused"}
  BY Zenon
<1> HIDE DEF phase
<1>3. app[a].phase = "new" /\ UNCHANGED <<config, discovered, made, objects, opened>>
  BY DEF Build
<1> DEFINE r == [app[a] EXCEPT !.phase = phase, !.services = services]
<1>4. Alone(a) /\ app'[a] = r /\ opened'[a] = opened[a]
  BY <1>1, <1>3 DEF WiringInv, Alone, phase
<1>5. ASSUME NEW v, NEW w, Fits(a, app[a], v, w, opened[a]) PROVE Fits(a, r, v, w, opened[a])
  <2>1. /\ DOMAIN r = DOMAIN app[a] /\ r.phase = phase /\ r.container = app[a].container /\ r.factory = app[a].factory
        /\ r.bus = app[a].bus /\ r.worker = app[a].worker /\ r.again = app[a].again
    BY <1>5 DEF Fits
  <2> HIDE DEF r
  <2> QED BY <1>2, <1>3, <1>5, <2>1 DEF Fits
<1> HIDE DEF r
<1> QED BY <1>3, <1>4, <1>5, OneChanges

LEMMA WiringBoot ==
  ASSUME WiringInv, NEW a \in DOMAIN config, Boot(a)
  PROVE  WiringInv'
<1>1. /\ app[a].phase \in {"built", "down"}
      /\ app' = [app EXCEPT ![a].phase = "booted", ![a].container = @ + 1,
                            ![a].named = <<>>, ![a].bus = <<>>, ![a].worker = <<>>]
      /\ UNCHANGED <<config, discovered, made, objects, opened>>
  BY DEF Boot
<1> DEFINE r == [app[a] EXCEPT !.phase = "booted", !.container = app[a].container + 1,
                               !.named = <<>>, !.bus = <<>>, !.worker = <<>>]
<1>2. Alone(a) /\ app'[a] = r /\ opened'[a] = opened[a]
  BY <1>1 DEF WiringInv, Alone
<1>3. ASSUME NEW v, NEW w, Fits(a, app[a], v, w, opened[a]) PROVE Fits(a, r, v, w, opened[a])
  <2>1. /\ DOMAIN r = DOMAIN app[a] /\ r.phase = "booted" /\ r.container = app[a].container + 1
        /\ r.bus = <<>> /\ r.worker = <<>> /\ r.again = app[a].again
    BY <1>3 DEF Fits
  <2>2. opened[a] = {} /\ app[a].container \in Nat
    BY <1>1, <1>3 DEF Fits
  <2>3. IsSequence(<<>>) /\ DOMAIN <<>> = {}
    BY DEF IsSequence
  <2>4. app[a].container + 1 \in Nat /\ app[a].container + 1 > 0
    BY <2>2
  <2> HIDE DEF r
  <2> QED BY <1>3, <2>1, <2>2, <2>3, <2>4 DEF Fits
<1> HIDE DEF r
<1> QED BY <1>1, <1>2, <1>3, OneChanges

LEMMA WiringPublish ==
  ASSUME WiringInv, NEW a \in DOMAIN config, Publish(a)
  PROVE  WiringInv'
<1>1. /\ app[a].phase = "booted" /\ app[a].bus # <<>>
      /\ UNCHANGED <<config, app, discovered, made, objects>>
  BY DEF Publish, building
<1>2. PICK name \in DOMAIN app[a].bus[1].senders : opened' = [opened EXCEPT ![a] = @ \cup {app[a].bus[1].senders[name].over}]
  BY DEF Publish
<1> DEFINE over == app[a].bus[1].senders[name].over
           o    == opened[a] \cup {over}
<1>3. Alone(a) /\ app'[a] = app[a] /\ opened'[a] = o
  BY <1>1, <1>2 DEF WiringInv, Alone
<1>4. ASSUME NEW v, NEW w, Fits(a, app[a], v, w, opened[a]) PROVE Fits(a, app[a], v, w, o)
  <2>1. 1 \in DOMAIN app[a].bus
    <3>1. IsSequence(app[a].bus)
      BY <1>4 DEF Fits
    <3> QED BY <3>1, <1>1, PlacesOf
  <2>2. BuiltFor(a, v, app[a].bus[1].senders, Transports(a))
    BY <1>4, <2>1 DEF Fits
  <2>3. PICK t : Built(a, v, t, app[a].bus[1].senders[name])
    BY <1>2, <2>2 DEF BuiltFor
  <2>4. over[1] = AdapterOf(a, v, t) /\ Scheme(t) \in config[a].own \cup DOMAIN v.discovered
    BY <2>3 DEF Built
  <2>5. over[1] \in (IF config[a].own = {} THEN {} ELSE {0}) \cup {v.discovered[s] : s \in DOMAIN v.discovered}
    BY <2>4 DEF AdapterOf
  <2> HIDE DEF over
  <2> QED BY <1>1, <1>4, <2>5 DEF Fits
<1> HIDE DEF o
<1> QED BY <1>1, <1>3, <1>4, OneChanges

\* A kernel that shuts down closes all its publishers opened, or as far as it came.
LEMMA ClosesAll ==
  ASSUME WiringInv, NEW a \in DOMAIN config, Shutdown(a)
  PROVE  \E phase, o :
           /\ (phase = "down" /\ o = {}) \/ (phase = "cut short" /\ o \subseteq opened[a])
           /\ app' = [app EXCEPT ![a].phase = phase] /\ opened' = [opened EXCEPT ![a] = o]
<1> DEFINE behind == IF app[a].factory = 0 THEN {} ELSE Behind(a)
           left(last) == {o \in opened[a] : ~(o[1] \in behind /\ o[1] <= last)}
<1>1. app[a].phase = "booted" /\ Bundled(a)
  BY DEF Shutdown
<1>2. CASE /\ app' = [app EXCEPT ![a].phase = "down"]
           /\ opened' = [opened EXCEPT ![a] = {o \in @ : o[1] \notin behind}]
  <2>1. Fits(a, app[a], Here(a, "bus"), Here(a, "workers"), opened[a])
    BY DEF WiringInv
  <2>2. \A o \in opened[a] : o[1] \in Behind(a)
    <3>1. Behind(a) = (IF config[a].own = {} THEN {} ELSE {0}) \cup
                        {Here(a, "bus").discovered[s] : s \in DOMAIN Here(a, "bus").discovered}
      BY DEF Behind, Here
    <3> QED BY <2>1, <3>1 DEF Fits
  <2>3. opened[a] # {} => app[a].factory # 0
    BY <1>1, <2>1 DEF Fits
  <2>4. {o \in opened[a] : o[1] \notin behind} = {}
    BY <2>2, <2>3
  <2>5. opened' = [opened EXCEPT ![a] = {}]
    BY <1>2, <2>4
  <2> QED BY <1>2, <2>5
<1>3. CASE \E last : /\ app' = [app EXCEPT ![a].phase = "cut short"]
                     /\ opened' = [opened EXCEPT ![a] = {o \in @ : ~(o[1] \in behind /\ o[1] <= last)}]
  <2>1. PICK last : /\ app' = [app EXCEPT ![a].phase = "cut short"]
                    /\ opened' = [opened EXCEPT ![a] = left(last)]
    BY <1>3
  <2>2. left(last) \subseteq opened[a]
    OBVIOUS
  <2> HIDE DEF left
  <2> QED BY <2>1, <2>2
<1> QED BY <1>2, <1>3 DEF Shutdown

LEMMA WiringShutdown ==
  ASSUME WiringInv, NEW a \in DOMAIN config, Shutdown(a)
  PROVE  WiringInv'
<1>1. /\ app[a].phase = "booted" /\ Bundled(a)
      /\ UNCHANGED <<config, discovered, made, objects>>
  BY DEF Shutdown
<1>2. PICK phase, o :
        /\ (phase = "down" /\ o = {}) \/ (phase = "cut short" /\ o \subseteq opened[a])
        /\ app' = [app EXCEPT ![a].phase = phase] /\ opened' = [opened EXCEPT ![a] = o]
  BY ClosesAll
<1> DEFINE r == [app[a] EXCEPT !.phase = phase]
<1>3. Alone(a) /\ app'[a] = r /\ opened'[a] = o
  BY <1>2 DEF WiringInv, Alone
<1>4. ASSUME NEW v, NEW w, Fits(a, app[a], v, w, opened[a]) PROVE Fits(a, r, v, w, o)
  <2>1. /\ DOMAIN r = DOMAIN app[a] /\ r.phase = phase /\ r.container = app[a].container /\ r.factory = app[a].factory
        /\ r.bus = app[a].bus /\ r.worker = app[a].worker /\ r.again = app[a].again
    BY <1>4 DEF Fits
  <2> HIDE DEF r
  <2> QED BY <1>1, <1>2, <1>4, <2>1 DEF Fits
<1> HIDE DEF r
<1> QED BY <1>1, <1>3, <1>4, OneChanges

LEMMA WiringRunEnds ==
  ASSUME WiringInv, RunEnds
  PROVE  WiringInv'
<1> DEFINE a == command[1].app
<1>1. UNCHANGED <<config, discovered, made, objects, opened>> /\ app' = [app EXCEPT ![a].worker = <<>>]
  BY DEF RunEnds
<1> HIDE DEF a
<1>2. CASE a \notin DOMAIN config
  <2>1. DOMAIN app' = DOMAIN app /\ \A b \in DOMAIN config : app'[b] = app[b]
    BY <1>1, <1>2 DEF WiringInv
  <2> QED BY <1>1, <2>1, WiringSame
<1>3. CASE a \in DOMAIN config
  <2> DEFINE r == [app[a] EXCEPT !.worker = <<>>]
  <2>1. Alone(a) /\ app'[a] = r /\ opened'[a] = opened[a]
    BY <1>1, <1>3 DEF WiringInv, Alone
  <2>2. ASSUME NEW v, NEW w, Fits(a, app[a], v, w, opened[a]) PROVE Fits(a, r, v, w, opened[a])
    <3>1. /\ DOMAIN r = DOMAIN app[a] /\ r.phase = app[a].phase /\ r.container = app[a].container
          /\ r.factory = app[a].factory
          /\ r.bus = app[a].bus /\ r.worker = <<>> /\ r.again = app[a].again
      BY <2>2 DEF Fits
    <3>2. DOMAIN <<>> = {}
      OBVIOUS
    <3> HIDE DEF r
    <3> QED BY <2>2, <3>1, <3>2 DEF Fits
  <2> HIDE DEF r
  <2> QED BY <1>1, <1>3, <2>1, <2>2, OneChanges
<1> QED BY <1>2, <1>3


LEMMA WiringInit ==
  ASSUME Init
  PROVE  WiringInv
<1>1. /\ \E c \in Configurations : config = c.apps
      /\ objects = 0 /\ DOMAIN app = DOMAIN config /\ DOMAIN opened = DOMAIN config
      /\ DOMAIN discovered = (DOMAIN config) \X {"shared", "bus", "workers"}
      /\ \A a \in DOMAIN config : opened[a] = {}
  BY DEF Init
<1>2. ASSUME NEW a \in DOMAIN config
      PROVE  Fits(a, app[a], Here(a, "bus"), Here(a, "workers"), opened[a])
  <2> DEFINE r == app[a]
             v == Here(a, "bus")
             w == Here(a, "workers")
  <2>1. /\ DOMAIN r = {"phase", "container", "services", "factory", "named", "bus", "worker", "again"}
        /\ r.phase = (IF config[a].bundled THEN "new" ELSE "booted") /\ r.container = 0
        /\ r.bus = <<>> /\ r.worker = <<>> /\ r.again = <<>>
    BY DEF Init
  <2>2. DOMAIN <<>> = {} /\ IsSequence(<<>>)
    BY DEF IsSequence
  <2> HIDE DEF r, v, w
  <2>3. Fits(a, r, v, w, {})
    BY <2>1, <2>2 DEF Fits, Bundled
  <2> QED BY <1>1, <2>3 DEF r, v, w
<1> QED BY <1>1, <1>2 DEF WiringInv

LEMMA WiringNext ==
  ASSUME WiringInv, [Next]_vars
  PROVE  WiringInv'
<1>1. CASE Declares
  BY <1>1, WiringSame DEF Declares, building
<1>2. CASE UNCHANGED vars
  BY <1>2, WiringSame DEF vars, building
<1>3. CASE RunEnds
  BY <1>3, WiringRunEnds
<1>4. CASE \E a \in DOMAIN config :
             Build(a) \/ Boot(a) \/ GetBus(a) \/ Publish(a) \/ Redispatch(a) \/ Consume(a) \/ Shutdown(a)
  BY <1>4, WiringBuild, WiringBoot, WiringGetBus, WiringPublish, WiringRedispatch, WiringConsume, WiringShutdown
<1> QED BY <1>1, <1>2, <1>3, <1>4 DEF Next

LEMMA Wiring == Spec => []WiringInv
<1> QED BY WiringInit, WiringNext, PTL DEF Spec

LEMMA OneFactory ==
  ASSUME WiringInv
  PROVE  OneTransportPerName
<1> SUFFICES ASSUME NEW a \in DOMAIN config, NEW i \in DOMAIN app[a].worker
             PROVE  LET w == app[a].worker[i]
                        buses == IF Bundled(a) THEN app[a].bus ELSE app[a].again
                    IN  /\ w.receivers # <<>> => [k \in DOMAIN w.receivers |-> w.receivers[k].name] = w.names
                        /\ \A b \in ToSet(buses) : \A k \in DOMAIN w.receivers :
                             w.receivers[k].scheme = "in-memory" /\ w.receivers[k].name \in DOMAIN b.senders =>
                               w.receivers[k] = b.senders[w.receivers[k].name]
  BY DEF OneTransportPerName
<1> DEFINE w == app[a].worker[i]
           v == Here(a, "workers")
           buses == IF Bundled(a) THEN app[a].bus ELSE app[a].again
<1>1. Fits(a, app[a], Here(a, "bus"), v, opened[a])
  BY DEF WiringInv
<1>2. InOrder(w) /\ ReceivesFrom(a, v, w.receivers)
  BY <1>1 DEF Fits
<1>3. Bundled(a) => Here(a, "bus") = v
  BY DEF Here, Root
<1>4. \A j \in DOMAIN buses : BuiltFor(a, v, buses[j].senders, Transports(a))
  BY <1>1, <1>3 DEF Fits
<1> HIDE DEF v, w, buses
<1>5. ASSUME NEW b \in ToSet(buses), NEW k \in DOMAIN w.receivers,
             w.receivers[k].scheme = "in-memory", w.receivers[k].name \in DOMAIN b.senders
      PROVE  w.receivers[k] = b.senders[w.receivers[k].name]
  <2> DEFINE name == w.receivers[k].name
  <2>1. PICK t \in Transports(a) : Built(a, v, t, w.receivers[k])
    BY <1>2, <1>5 DEF ReceivesFrom
  <2>2. BuiltFor(a, v, b.senders, Transports(a))
    BY <1>4 DEF ToSet
  <2>3. PICK u \in Transports(a) : u.name = name /\ Built(a, v, u, b.senders[name])
    BY <2>2, <1>5 DEF BuiltFor
  <2>4. t.name = name
    <3> DEFINE r == w.receivers[k]
    <3>1. Built(a, v, t, r)
      BY <2>1
    <3> HIDE DEF r
    <3>2. r.name = t.name
      BY <3>1 DEF Built
    <3> QED BY <3>2 DEF r
  <2>5. t = u
    BY <2>3, <2>4, ConfigIs DEF WiringInv, Transports, ToSet
  <2>6. ASSUME NEW x, NEW y, Built(a, v, t, x), Built(a, v, t, y), x.scheme = "in-memory"
        PROVE  x = y
    <3>1. Scheme(t) = "in-memory" /\ x.id = y.id
      BY <2>6 DEF Built
    <3> QED BY <2>6, <3>1 DEF Built
  <2> QED BY <1>5, <2>1, <2>3, <2>5, <2>6
<1> QED BY <1>2, <1>5 DEF w, buses, InOrder

\* A message published to a recorder is where the worker of that name looks for it, whatever the
\* configurations, the applications and what is asked for.
THEOREM TransportPerName == Spec => []OneTransportPerName
<1> QED BY Wiring, OneFactory, PTL

\* Nothing but a kernel's shutdown closes a connection of its publishers.
LEMMA ClosedByShutdown ==
  ASSUME WiringInv, [Next]_vars, NEW a \in DOMAIN config, ~(opened[a] \subseteq opened'[a])
  PROVE  app[a].phase = "booted" /\ app'[a].phase # "booted"
<1>1. CASE Declares \/ RunEnds \/ UNCHANGED vars
  BY <1>1 DEF Declares, RunEnds, vars
<1>2. ASSUME NEW b \in DOMAIN config, Build(b) \/ Boot(b) \/ GetBus(b) \/ Redispatch(b) \/ Consume(b)
      PROVE  FALSE
  BY <1>2 DEF Build, Boot, GetBus, Redispatch, Consume
<1>3. ASSUME NEW b \in DOMAIN config, Publish(b)
      PROVE  FALSE
  <2>1. PICK x : opened' = [opened EXCEPT ![b] = @ \cup {x}]
    BY <1>3 DEF Publish
  <2> QED BY <2>1 DEF WiringInv
<1>4. ASSUME NEW b \in DOMAIN config, Shutdown(b)
      PROVE  app[a].phase = "booted" /\ app'[a].phase # "booted"
  <2>1. PICK phase, o :
          /\ (phase = "down" /\ o = {}) \/ (phase = "cut short" /\ o \subseteq opened[b])
          /\ app' = [app EXCEPT ![b].phase = phase] /\ opened' = [opened EXCEPT ![b] = o]
    BY <1>4, ClosesAll
  <2>2. a = b
    BY <2>1 DEF WiringInv
  <2>3. app[a].phase = "booted"
    BY <1>4, <2>2 DEF Shutdown
  <2>4. "phase" \in DOMAIN app[a]
    BY DEF WiringInv, Fits
  <2>5. app'[a].phase = phase
    BY <2>1, <2>2, <2>4 DEF WiringInv
  <2> QED BY <2>1, <2>3, <2>5
<1> QED BY <1>1, <1>2, <1>3, <1>4 DEF Next

ClosesItsOwn ==
  \A a \in DOMAIN config :
    /\ app'[a].phase = "down" => opened'[a] = {}
    /\ ~(opened[a] \subseteq opened'[a]) => app[a].phase = "booted" /\ app'[a].phase # "booted"

LEMMA ConfigStays ==
  ASSUME [Next]_vars
  PROVE  UNCHANGED config
BY DEF Next, vars, Declares, RunEnds, Build, Boot, GetBus, Publish, Redispatch, Consume, Shutdown

LEMMA StepCloses ==
  ASSUME WiringInv, WiringInv', [Next]_vars
  PROVE  ClosesItsOwn
<1> SUFFICES ASSUME NEW a \in DOMAIN config
             PROVE  /\ app'[a].phase = "down" => opened'[a] = {}
                    /\ ~(opened[a] \subseteq opened'[a]) => app[a].phase = "booted" /\ app'[a].phase # "booted"
  BY DEF ClosesItsOwn
<1>1. Fits(a, app[a], Here(a, "bus"), Here(a, "workers"), opened[a])'
  BY ConfigStays DEF WiringInv
<1>2. app'[a].phase = "down" => opened'[a] = {}
  BY <1>1 DEF Fits
<1> QED BY <1>2, ClosedByShutdown

\* A kernel that shut down left none of its publishers' connections open, unless an adapter
\* raised; nobody else's are closed by it.
THEOREM ClosesOnlyItsOwn == Spec => ShutdownClosesItsOwn
<1>1. [Next]_vars /\ WiringInv /\ WiringInv' => [ClosesItsOwn]_vars
  BY StepCloses
<1>2. ShutdownClosesItsOwn <=> [][ClosesItsOwn]_vars
  BY PTL DEF ShutdownClosesItsOwn, ClosesItsOwn
<1> QED BY <1>1, <1>2, Wiring, PTL DEF Spec

-----------------------------------------------------------------------------
(***************************************************************************)
(* Middleware: what the entries of a chain are.                            *)
(***************************************************************************)

\* Counting the elements of S up to each of them tells them apart.
LEMMA CountedApart ==
  ASSUME NEW S, IsFiniteSet(S), S \subseteq Nat, NEW i \in S
  PROVE  /\ Cardinality({m \in S : m <= i}) \in 1..Cardinality(S)
         /\ \A j \in S : j # i => Cardinality({m \in S : m <= j}) # Cardinality({m \in S : m <= i})
<1>1. ASSUME NEW j \in S
      PROVE  /\ IsFiniteSet({m \in S : m <= j}) /\ Cardinality({m \in S : m <= j}) \in Nat
             /\ Cardinality({m \in S : m <= j}) <= Cardinality(S)
  BY FS_Subset, FS_CardinalityType
<1>2. ASSUME NEW j \in S, NEW k \in S, j < k
      PROVE  Cardinality({m \in S : m <= j}) < Cardinality({m \in S : m <= k})
  <2> DEFINE T == {m \in S : m <= j}
             U == {m \in S : m <= k}
  <2>1. T \in SUBSET U /\ T # U
    <3>1. i \in Nat /\ j \in Nat /\ k \in Nat /\ S \subseteq Nat
      OBVIOUS
    <3>2. k \in U /\ k \notin T
      BY <1>2, <3>1
    <3>3. ASSUME NEW m \in T PROVE m \in U
      <4>1. m \in S /\ m \in Nat /\ m <= j
        BY <3>1
      <4>2. m <= k
        BY <1>2, <3>1, <4>1
      <4> QED BY <4>1, <4>2
    <3> QED BY <3>2, <3>3
  <2>2. IsFiniteSet(U) /\ Cardinality(T) \in Nat /\ Cardinality(U) \in Nat
    BY <1>1
  <2> HIDE DEF T, U
  <2>3. Cardinality(T) <= Cardinality(U) /\ (Cardinality(U) = Cardinality(T) => U = T)
    BY <2>1, <2>2, FS_Subset
  <2>4. Cardinality(T) < Cardinality(U)
    BY <2>1, <2>2, <2>3
  <2> QED BY <2>4 DEF T, U
<1>3. Cardinality({m \in S : m <= i}) # 0
  <2>1. i \in {m \in S : m <= i}
    OBVIOUS
  <2> QED BY <2>1, <1>1, FS_EmptySet
<1>4. Cardinality(S) \in Nat
  BY FS_CardinalityType
<1>5. ASSUME NEW j \in S, j # i
      PROVE  Cardinality({m \in S : m <= j}) # Cardinality({m \in S : m <= i})
  <2>1. CASE j < i
    BY <1>1, <1>2, <2>1
  <2>2. CASE i < j
    BY <1>1, <1>2, <2>2
  <2> QED BY <1>5, <2>1, <2>2
<1> QED BY <1>1, <1>3, <1>4, <1>5

\* How many entries with arguments come before entry i.
Ordinal(entries, i) == Cardinality({j \in 1..i - 1 : entries[j].kind = "args"})

\* Entries with arguments are counted apart.
LEMMA OrdinalsApart ==
  ASSUME NEW entries, IsSequence(entries), NEW i \in DOMAIN entries, NEW j \in DOMAIN entries,
         entries[i].kind = "args", i < j
  PROVE  Ordinal(entries, i) # Ordinal(entries, j)
<1> DEFINE T == {m \in 1..i - 1 : entries[m].kind = "args"}
           U == {m \in 1..j - 1 : entries[m].kind = "args"}
<1>1. i \in Nat /\ j \in Nat /\ U \subseteq DOMAIN entries
  BY PlacesOf
<1>2. T \in SUBSET U /\ i \in U /\ i \notin T
  BY <1>1, PlacesOf
<1> HIDE DEF T, U
<1>3. IsFiniteSet(U)
  BY <1>1, SomePlaces
<1>4. Cardinality(U) # Cardinality(T)
  BY <1>2, <1>3, FS_Subset
<1> QED BY <1>4 DEF T, U, Ordinal

Kinds(entries) ==
  \A i \in DOMAIN entries :
    /\ entries[i].kind \in {"built", "name", "args"}
    /\ entries[i].kind # "args" => entries[i].args = None

\* One with arguments has a key of its own.
LEMMA KeysAre ==
  ASSUME NEW entries, IsSequence(entries), Kinds(entries), NEW i \in DOMAIN entries
  PROVE  /\ entries[i].kind = "built" => Key(entries, i) = <<>>
         /\ entries[i].kind = "name" => Key(entries, i) = Bare(entries[i].name)
         /\ entries[i].kind = "args" => Key(entries, i) = <<entries[i].name, Ordinal(entries, i)>>
         /\ entries[i].kind # "built" => Key(entries, i) # <<>>
         /\ entries[i].kind = "args" => \A name : Key(entries, i) # Bare(name)
<1>1. entries[i].kind \in {"built", "name", "args"}
  BY DEF Kinds
<1>2. \A x, y, z : <<x, y>> # <<z>> /\ <<x, y>> # <<>> /\ <<z>> # <<>>
  OBVIOUS
<1>3. CASE entries[i].kind = "args"
  BY <1>2, <1>3 DEF Key, EntryKey, Ordinal, Bare
<1>4. CASE entries[i].kind # "args"
  BY <1>1, <1>2, <1>4 DEF Key, Bare
<1> QED BY <1>3, <1>4

LEMMA KeysApart ==
  ASSUME NEW entries, IsSequence(entries), Kinds(entries), NEW i \in DOMAIN entries, NEW j \in DOMAIN entries,
         i # j, entries[i].kind = "args"
  PROVE  Key(entries, i) # Key(entries, j)
<1>1. CASE entries[j].kind = "args"
  <2>1. i < j \/ j < i
    BY PlacesOf
  <2>2. Ordinal(entries, i) # Ordinal(entries, j)
    BY <1>1, <2>1, OrdinalsApart
  <2>3. Key(entries, i) = <<entries[i].name, Ordinal(entries, i)>> /\ Key(entries, j) = <<entries[j].name, Ordinal(entries, j)>>
    BY <1>1, KeysAre
  <2> QED BY <2>2, <2>3
<1>2. CASE entries[j].kind # "args"
  <2>1. Key(entries, j) = <<>> \/ Key(entries, j) = Bare(entries[j].name)
    BY <1>2, KeysAre DEF Kinds
  <2> QED BY <2>1, KeysAre
<1> QED BY <1>1, <1>2

\* The places of the entries configured in the chain that is resolved.
Before(a) == IF Bundled(a) THEN 1 ELSE 0

LEMMA EntriesShift ==
  ASSUME NEW a, IsSequence(config[a].middleware), NEW i \in DOMAIN config[a].middleware
  PROVE  /\ Before(a) + i \in DOMAIN Entries(a)
         /\ Entries(a)[Before(a) + i] = config[a].middleware[i]
         /\ Key(Entries(a), Before(a) + i) = Key(config[a].middleware, i)
<1> DEFINE m == config[a].middleware
           e == Entries(a)
<1>1. /\ i \in Nat /\ i > 0 /\ DOMAIN m = 1..Len(m) /\ Len(m) \in Nat
      /\ i <= Len(m)
  BY PlacesOf
<1>2. CASE ~Bundled(a)
  <2>1. e = <<>> \o m
    BY <1>2 DEF Entries
  <2>2. e = m
    BY <2>1 DEF IsSequence
  <2> QED BY <1>1, <1>2, <2>2 DEF Before
<1>3. CASE Bundled(a)
  <2> DEFINE one == <<BuiltEntry("UnitOfWork")>>
  <2>1. e = one \o m
    BY <1>3 DEF Entries
  <2>2. one \in Seq({BuiltEntry("UnitOfWork")}) /\ Len(one) = 1 /\ one[1] = BuiltEntry("UnitOfWork")
    OBVIOUS
  <2>3. IsSequence(one)
    BY <2>2, IsSequenceOf
  <2>4. IsSequence(m) /\ 1 \in 1..1
    OBVIOUS
  <2> HIDE DEF one, m, e
  <2>5. /\ IsSequence(one \o m) /\ Len(one \o m) = Len(one) + Len(m)
        /\ \A j \in 1..Len(one) : (one \o m)[j] = one[j]
        /\ \A j \in 1..Len(m) : (one \o m)[Len(one) + j] = m[j]
    BY <2>3, <2>4, Joined
  <2>6. /\ IsSequence(e) /\ Len(e) = 1 + Len(m)
        /\ e[1] = BuiltEntry("UnitOfWork")
        /\ \A j \in 1..Len(m) : e[1 + j] = m[j]
    BY <2>1, <2>2, <2>4, <2>5
  <2> HIDE DEF e
  <2>7. DOMAIN e = 1..1 + Len(m)
    BY <2>6, PlacesOf
  <2>8. e[1 + i] = m[i] /\ 1 + i \in DOMAIN e
    BY <1>1, <2>6, <2>7
  <2> DEFINE S == {j \in 1..i - 1 : m[j].kind = "args"}
             T == {j \in 1..(1 + i) - 1 : e[j].kind = "args"}
  <2>9. e[1].kind = "built"
    BY <2>6 DEF BuiltEntry
  <2>10. \A j \in 1..i - 1 : e[j + 1] = m[j]
    BY <1>1, <2>6
  <2>11. T = {j + 1 : j \in S}
    <3>1. \A j \in S : j + 1 \in T
      BY <1>1, <2>10
    <3>2. ASSUME NEW t \in T PROVE \E j \in S : j + 1 = t
      <4>1. t \in 1..i /\ t # 1 /\ e[t].kind = "args"
        BY <1>1, <2>9
      <4>2. t - 1 \in 1..i - 1 /\ (t - 1) + 1 = t
        BY <1>1, <4>1
      <4>3. m[t - 1] = e[t]
        BY <2>10, <4>2
      <4>4. t - 1 \in S
        BY <4>1, <4>2, <4>3
      <4> QED BY <4>2, <4>4
    <3> HIDE DEF S, T
    <3> QED BY <3>1, <3>2
  <2>12. IsFiniteSet(S) /\ S \subseteq Nat
    <3>1. S \subseteq DOMAIN m
      BY <1>1
    <3> QED BY <3>1, <1>1, SomePlaces DEF m
  <2> HIDE DEF S, T
  <2>13. Cardinality(S) = Cardinality(T)
    BY <2>11, <2>12, ShiftedCount
  <2>14. Key(e, 1 + i) = Key(m, i)
    BY <2>8, <2>13 DEF Key, S, T
  <2> QED BY <1>3, <2>8, <2>14 DEF e, m, Before
<1> QED BY <1>2, <1>3

\* Entry i is built for the chain, since the container does not have it.
Fresh(named, entries, i) == entries[i].kind # "built" /\ Key(entries, i) \notin DOMAIN named

\* Instance x is what entry i comes to: what was handed over, what the container has, or a new
\* object, beyond number lo and up to hi.
IsEntry(x, named, entries, i, lo, hi) ==
  /\ entries[i].kind = "built" => x = [of |-> entries[i].name, args |-> None, id |-> 0]
  /\ entries[i].kind # "built" /\ Key(entries, i) \in DOMAIN named => x = named[Key(entries, i)]
  /\ Fresh(named, entries, i) => x.args = entries[i].args /\ x.id \in Nat /\ lo < x.id /\ x.id <= hi

\* The instances of a chain, from place `at` on, are what the entries come to, no two the same object.
IsChain(chain, at, named, entries, lo, hi) ==
  /\ \A i \in DOMAIN entries : IsEntry(chain[at + i], named, entries, i, lo, hi)
  /\ \A i, j \in DOMAIN entries :
       i # j /\ Fresh(named, entries, i) /\ Fresh(named, entries, j) => chain[at + i].id # chain[at + j].id

\* Those that are new are of the class their name stands for.
IsOfClass(chain, at, named, entries) ==
  \A i \in DOMAIN entries :
    Fresh(named, entries, i) =>
      chain[at + i].of = ClassNamed(named, entries[i].name) /\ ClassNamed(named, entries[i].name) # None

LEMMA ResolvedIs ==
  ASSUME NEW named, NEW entries, IsSequence(entries), Kinds(entries), NEW n \in Nat, <<>> \notin DOMAIN named,
         ~Resolved(named, entries, n).failed
  PROVE  /\ IsSequence(Resolved(named, entries, n).chain)
         /\ DOMAIN Resolved(named, entries, n).chain = DOMAIN entries
         /\ IsChain(Resolved(named, entries, n).chain, 0, named, entries, n, Resolved(named, entries, n).objects)
         /\ IsOfClass(Resolved(named, entries, n).chain, 0, named, entries)
<1> DEFINE found    == {i \in DOMAIN entries : Key(entries, i) \in DOMAIN named}
           class(i) == ClassNamed(named, entries[i].name)
           refused  == {i \in DOMAIN entries \ found :
                          \/ entries[i].kind # "built" /\ class(i) = None
                          \/ entries[i].kind = "args" /\ (Bare(entries[i].name) \in DOMAIN named \/ entries[i].name \notin DOMAIN middleware)}
           fresh    == {i \in DOMAIN entries \ (found \cup refused) : entries[i].kind # "built"}
           count(i) == Cardinality({j \in fresh : j <= i})
           chain    == [i \in DOMAIN entries |->
                          IF i \in found THEN named[Key(entries, i)]
                          ELSE IF i \in fresh THEN [of |-> class(i), args |-> entries[i].args, id |-> n + count(i)]
                          ELSE [of |-> entries[i].name, args |-> None, id |-> 0]]
           r        == Resolved(named, entries, n)
<1>1. r = [chain |-> chain, objects |-> n + Cardinality(fresh), failed |-> refused # {}]
  BY DEF Resolved
<1>2. r.chain = chain /\ r.objects = n + Cardinality(fresh) /\ refused = {}
  <2>1. ~r.failed
    OBVIOUS
  <2> HIDE DEF chain, fresh, refused, r
  <2> QED BY <1>1, <2>1
<1>3. refused = {}
  BY <1>2
<1>4. \A i \in DOMAIN entries : Fresh(named, entries, i) <=> i \in fresh
  BY <1>3 DEF Fresh
<1>5. \A i \in DOMAIN entries : entries[i].kind = "built" => i \notin found /\ i \notin fresh
  BY KeysAre
<1>6. \A i \in DOMAIN entries : entries[i].kind # "built" /\ i \notin found => i \in fresh
  BY <1>3
<1>7. \A i \in DOMAIN entries : i \in found <=> Key(entries, i) \in DOMAIN named
  OBVIOUS
<1>8. /\ fresh \subseteq DOMAIN entries /\ fresh \cap found = {}
      /\ \A i \in fresh : class(i) # None
  BY <1>3
<1> HIDE DEF fresh, refused, found, class, r
<1>9. IsFiniteSet(fresh) /\ Cardinality(fresh) \in Nat /\ fresh \subseteq Nat
  BY <1>8, SomePlaces, PlacesOf
<1>10. ASSUME NEW i \in fresh
       PROVE  /\ count(i) \in 1..Cardinality(fresh)
              /\ \A j \in fresh : j # i => count(j) # count(i)
  BY <1>9, CountedApart
<1> HIDE DEF count
<1>11. ASSUME NEW i \in fresh
       PROVE  /\ chain[i].of = class(i) /\ chain[i].args = entries[i].args /\ chain[i].id = n + count(i)
              /\ chain[i].id \in Nat /\ n < chain[i].id /\ chain[i].id <= n + Cardinality(fresh)
  <2>1. chain[i] = [of |-> class(i), args |-> entries[i].args, id |-> n + count(i)]
    BY <1>8
  <2>2. chain[i].of = class(i) /\ chain[i].args = entries[i].args /\ chain[i].id = n + count(i)
    BY <2>1
  <2>3. count(i) \in Nat /\ 0 < count(i) /\ count(i) <= Cardinality(fresh)
    BY <1>9, <1>10
  <2> HIDE DEF chain
  <2> QED BY <1>9, <2>2, <2>3
<1>12. ASSUME NEW i \in DOMAIN entries
       PROVE  /\ entries[i].kind = "built" => chain[i] = [of |-> entries[i].name, args |-> None, id |-> 0]
              /\ i \in found => chain[i] = named[Key(entries, i)]
  BY <1>5
<1>13. IsSequence(chain) /\ DOMAIN chain = DOMAIN entries
  <2>1. DOMAIN entries = 1..Len(entries) /\ Len(entries) \in Nat
    BY PlacesOf
  <2> DEFINE S == {chain[i] : i \in DOMAIN entries}
  <2>2. chain \in [1..Len(entries) -> S]
    BY <2>1
  <2>3. chain \in Seq(S)
    BY <2>1, <2>2
  <2> HIDE DEF S
  <2> QED BY <2>3, IsSequenceOf
<1> HIDE DEF chain
<1>14. ASSUME NEW i \in DOMAIN entries
       PROVE  IsEntry(chain[0 + i], named, entries, i, n, n + Cardinality(fresh))
  <2>1. 0 + i = i
    BY PlacesOf
  <2> QED BY <2>1, <1>4, <1>7, <1>11, <1>12 DEF IsEntry
<1>15. ASSUME NEW i \in DOMAIN entries, NEW j \in DOMAIN entries, i # j, Fresh(named, entries, i), Fresh(named, entries, j)
       PROVE  chain[0 + i].id # chain[0 + j].id
  <2>1. 0 + i = i /\ 0 + j = j
    BY PlacesOf
  <2>2. i \in fresh /\ j \in fresh
    BY <1>4, <1>15
  <2>3. count(i) \in Nat /\ count(j) \in Nat /\ count(i) # count(j)
    BY <1>10, <1>15, <2>2
  <2>4. chain[i].id = n + count(i) /\ chain[j].id = n + count(j)
    BY <2>2, <1>11
  <2> QED BY <2>1, <2>3, <2>4
<1>16. IsChain(chain, 0, named, entries, n, n + Cardinality(fresh))
  BY <1>14, <1>15 DEF IsChain
<1>17. ASSUME NEW i \in DOMAIN entries, Fresh(named, entries, i)
       PROVE  chain[0 + i].of = class(i) /\ class(i) # None
  <2>1. 0 + i = i
    BY PlacesOf
  <2> QED BY <2>1, <1>4, <1>8, <1>11, <1>17
<1>18. IsOfClass(chain, 0, named, entries)
  BY <1>17 DEF IsOfClass, class
<1> QED BY <1>2, <1>13, <1>16, <1>18 DEF r

\* What the container holds for its chains was built of its services, each once.
NamedFit(services, named, n) ==
  /\ <<>> \notin DOMAIN named
  /\ \A k \in DOMAIN named :
       /\ k \in DOMAIN services /\ named[k].of = services[k].of /\ named[k].args = services[k].args
       /\ named[k].id \in Nat /\ 0 < named[k].id /\ named[k].id <= n
  /\ \A k, l \in DOMAIN named : k # l => named[k].id # named[l].id

\* Every entry that is one of the services is held.
HoldsAll(entries, services, named) ==
  \A i \in DOMAIN entries :
    entries[i].kind # "built" => (Key(entries, i) \in DOMAIN named <=> Key(entries, i) \in DOMAIN services)

LEMMA NamedOnceIs ==
  ASSUME NEW a, IsSequence(config[a].middleware), Kinds(config[a].middleware), NEW n \in Nat,
         Bundled(a), app[a].named = <<>>, <<>> \notin DOMAIN app[a].services
  PROVE  /\ NamedFit(app[a].services, NamedOnce(a, n).named, NamedOnce(a, n).objects)
         /\ HoldsAll(config[a].middleware, app[a].services, NamedOnce(a, n).named)
         /\ \A k \in DOMAIN NamedOnce(a, n).named :
              \E i \in DOMAIN config[a].middleware : k = Key(config[a].middleware, i) /\ config[a].middleware[i].kind # "built"
<1> DEFINE entries  == config[a].middleware
           services == app[a].services
           held     == {i \in DOMAIN entries : /\ Key(entries, i) \in DOMAIN services
                                               /\ \A j \in 1..i - 1 : Key(entries, j) # Key(entries, i)}
           entry(key) == CHOOSE i \in held : Key(entries, i) = key
           keys     == {Key(entries, i) : i \in held}
           count(i) == Cardinality({j \in held : j <= i})
           named    == [key \in keys |-> [of |-> services[key].of, args |-> services[key].args, id |-> n + count(entry(key))]]
           r        == NamedOnce(a, n)
<1>1. r = [named |-> named, objects |-> n + Cardinality(held)]
  BY DEF NamedOnce
<1>2. r.named = named /\ r.objects = n + Cardinality(held)
  <2> HIDE DEF named, held, r
  <2> QED BY <1>1
<1>3. DOMAIN entries = 1..Len(entries) /\ Len(entries) \in Nat
  BY PlacesOf
<1>4. held \subseteq DOMAIN entries /\ \A i \in held : Key(entries, i) \in DOMAIN services
  OBVIOUS
<1>5. ASSUME NEW i \in DOMAIN entries, Key(entries, i) \in DOMAIN services
      PROVE  Key(entries, i) \in keys
  <2> DEFINE T == {j \in DOMAIN entries : Key(entries, j) = Key(entries, i)}
  <2>1. T \subseteq Nat /\ i \in T
    BY <1>3
  <2>2. PICK l \in T : \A j \in T : l <= j
    <3> HIDE DEF T
    <3> QED BY <2>1, Least
  <2>3. \A j \in 1..l - 1 : Key(entries, j) # Key(entries, l)
    <3> SUFFICES ASSUME NEW j \in 1..l - 1, Key(entries, j) = Key(entries, l) PROVE FALSE
      OBVIOUS
    <3>1. l \in 1..Len(entries) /\ j \in DOMAIN entries /\ j < l
      BY <1>3
    <3>2. j \in T
      BY <3>1
    <3> QED BY <2>2, <3>1, <3>2
  <2>4. l \in held
    BY <1>5, <2>3
  <2> QED BY <2>4
<1> HIDE DEF held
<1>6. \A key \in keys : entry(key) \in held /\ Key(entries, entry(key)) = key
  OBVIOUS
<1>7. IsFiniteSet(held) /\ Cardinality(held) \in Nat /\ held \subseteq Nat
  BY <1>3, <1>4, SomePlaces
<1>8. /\ \A i \in held : count(i) \in Nat /\ 0 < count(i) /\ count(i) <= Cardinality(held)
      /\ \A i, j \in held : j # i => count(j) # count(i)
  <2>1. ASSUME NEW i \in held
        PROVE  count(i) \in 1..Cardinality(held) /\ \A j \in held : j # i => count(j) # count(i)
    BY <1>7, CountedApart
  <2> HIDE DEF count
  <2>2. \A i \in held : count(i) \in 1..Cardinality(held)
    BY <2>1
  <2>3. \A i, j \in held : j # i => count(j) # count(i)
    BY <2>1
  <2> QED BY <1>7, <2>2, <2>3
<1>9. \A key \in keys : \E i \in DOMAIN entries : key = Key(entries, i) /\ entries[i].kind # "built" /\ key \in DOMAIN services
  <2> SUFFICES ASSUME NEW i \in held
               PROVE  entries[i].kind # "built" /\ Key(entries, i) \in DOMAIN services
    BY <1>4
  <2>1. Key(entries, i) # <<>>
    BY <1>4
  <2> QED BY <1>4, <2>1, KeysAre
<1> HIDE DEF entry, count
<1>10. \A key \in keys :
         /\ named[key].of = services[key].of /\ named[key].args = services[key].args
         /\ named[key].id = n + count(entry(key))
  OBVIOUS
<1>11. DOMAIN named = keys
  OBVIOUS
<1> HIDE DEF keys, named, r
<1>12. \A key \in keys : named[key].id \in Nat /\ 0 < named[key].id /\ named[key].id <= n + Cardinality(held)
  <2> SUFFICES ASSUME NEW key \in keys
               PROVE  named[key].id \in Nat /\ 0 < named[key].id /\ named[key].id <= n + Cardinality(held)
    OBVIOUS
  <2>1. count(entry(key)) \in Nat /\ 0 < count(entry(key)) /\ count(entry(key)) <= Cardinality(held)
    BY <1>6, <1>8
  <2>2. named[key].id = n + count(entry(key))
    BY <1>10
  <2> QED BY <1>7, <2>1, <2>2
<1>13. \A k, l \in keys : k # l => named[k].id # named[l].id
  <2> SUFFICES ASSUME NEW k \in keys, NEW l \in keys, k # l PROVE named[k].id # named[l].id
    OBVIOUS
  <2>1. entry(k) # entry(l) /\ entry(k) \in held /\ entry(l) \in held
    BY <1>6
  <2>2. count(entry(k)) \in Nat /\ count(entry(l)) \in Nat /\ count(entry(k)) # count(entry(l))
    BY <1>8, <2>1
  <2> QED BY <1>10, <2>2
<1>14. NamedFit(services, named, n + Cardinality(held))
  BY <1>9, <1>10, <1>11, <1>12, <1>13 DEF NamedFit
<1>15. HoldsAll(entries, services, named)
  BY <1>5, <1>9, <1>11 DEF HoldsAll
<1> QED BY <1>2, <1>9, <1>11, <1>14, <1>15 DEF r

LEMMA BuiltOnes ==
  ASSUME NEW names, IsSequence(names), NEW built,
         built = [i \in DOMAIN names |-> [of |-> names[i], args |-> None, id |-> 0]]
  PROVE  IsSequence(built)
<1>1. DOMAIN names = 1..Len(names) /\ Len(names) \in Nat
  BY PlacesOf
<1> DEFINE S == {[of |-> names[i], args |-> None, id |-> 0] : i \in DOMAIN names}
<1>2. built \in [1..Len(names) -> S]
  BY <1>1
<1>3. built \in Seq(S)
  BY <1>1, <1>2
<1> HIDE DEF S
<1> QED BY <1>3, IsSequenceOf

LEMMA EntriesKinds ==
  ASSUME NEW a, IsSequence(config[a].middleware), Kinds(config[a].middleware)
  PROVE  /\ Kinds(Entries(a))
         /\ Bundled(a) => 1 \in DOMAIN Entries(a) /\ Entries(a)[1] = BuiltEntry("UnitOfWork")
<1> DEFINE m == config[a].middleware
           e == Entries(a)
           one == <<BuiltEntry("UnitOfWork")>>
<1>1. one \in Seq({BuiltEntry("UnitOfWork")}) /\ Len(one) = 1 /\ one[1] = BuiltEntry("UnitOfWork")
  OBVIOUS
<1>2. IsSequence(one) /\ ToSet(one) = {BuiltEntry("UnitOfWork")}
  <2>1. IsSequence(one) /\ ToSet(one) \subseteq {BuiltEntry("UnitOfWork")}
    BY <1>1, IsSequenceOf
  <2>2. one[1] \in ToSet(one)
    BY DEF ToSet
  <2> QED BY <1>1, <2>1, <2>2
<1>3. CASE ~Bundled(a)
  <2>1. e = <<>> \o m
    BY <1>3 DEF Entries
  <2>2. e = m
    BY <2>1, JoinedNothing
  <2> QED BY <1>3, <2>2
<1>4. CASE Bundled(a)
  <2>1. e = one \o m
    BY <1>4 DEF Entries
  <2>2. IsSequence(m)
    OBVIOUS
  <2> HIDE DEF one, m, e
  <2>3. /\ IsSequence(one \o m) /\ Len(one \o m) = Len(one) + Len(m) /\ ToSet(one \o m) = ToSet(one) \cup ToSet(m)
        /\ \A j \in 1..Len(one) : (one \o m)[j] = one[j]
    BY <1>2, <2>2, Joined
  <2>4. e[1] = BuiltEntry("UnitOfWork") /\ 1 \in DOMAIN e
    BY <1>1, <2>1, <2>2, <2>3, PlacesOf
  <2>5. \A x \in ToSet(e) : x.kind \in {"built", "name", "args"} /\ (x.kind # "args" => x.args = None)
    <3>1. \A x \in ToSet(m) : x.kind \in {"built", "name", "args"} /\ (x.kind # "args" => x.args = None)
      BY DEF ToSet, Kinds, m
    <3>2. BuiltEntry("UnitOfWork").kind = "built" /\ BuiltEntry("UnitOfWork").args = None
      BY DEF BuiltEntry
    <3> QED BY <1>2, <2>1, <2>3, <3>1, <3>2
  <2>6. Kinds(e)
    BY <2>5 DEF Kinds, ToSet
  <2> QED BY <2>4, <2>6 DEF e
<1> QED BY <1>3, <1>4

LEMMA ChainIs ==
  ASSUME NEW a, IsSequence(config[a].middleware), Kinds(config[a].middleware), NEW named, NEW n \in Nat,
         <<>> \notin DOMAIN named, NEW x, x = Resolved(named, Entries(a), n), ~x.failed,
         NEW defaults, IsSequence(defaults)
  PROVE  /\ IsChain(Chain(a, x, defaults), First(a), named, config[a].middleware, n, x.objects)
         /\ IsOfClass(Chain(a, x, defaults), First(a), named, config[a].middleware)
         /\ BeginsWell(a, Chain(a, x, defaults))
<1> DEFINE m == config[a].middleware
           e == Entries(a)
           c == x.chain
           b == Before(a)
           d == IF config[a].defaults THEN 1 ELSE 0
           chain == Chain(a, x, defaults)
<1>1. /\ IsSequence(e) /\ Kinds(e)
      /\ Bundled(a) => 1 \in DOMAIN e /\ e[1] = BuiltEntry("UnitOfWork")
  BY EntriesAre, EntriesKinds
<1>2. IsSequence(c) /\ DOMAIN c = DOMAIN e /\ IsChain(c, 0, named, e, n, x.objects) /\ IsOfClass(c, 0, named, e)
  BY <1>1, ResolvedIs
<1>3. First(a) = d + b /\ d \in {0, 1} /\ b \in {0, 1} /\ (Bundled(a) <=> b = 1)
  BY DEF First, Before
<1>4. \A i \in DOMAIN m : /\ i \in Nat /\ b + i \in DOMAIN e /\ e[b + i] = m[i] /\ Key(e, b + i) = Key(m, i)
  BY EntriesShift, PlacesOf
<1> HIDE DEF m, e, c, b
<1>5. /\ \A k \in DOMAIN c : k \in Nat /\ chain[d + k] = c[k]
      /\ config[a].defaults => chain[1].of = "DispatchAfter"
  <2>1. DOMAIN c = 1..Len(c) /\ Len(c) \in Nat
    BY <1>2, PlacesOf
  <2>2. CASE ~config[a].defaults
    <3>1. chain = c
      BY <2>2 DEF Chain, c
    <3> HIDE DEF chain
    <3> QED BY <2>1, <2>2, <3>1
  <2>3. CASE config[a].defaults
    <3> DEFINE w == <<"DispatchAfter">>
               head == [i \in DOMAIN w |-> [of |-> w[i], args |-> None, id |-> 0]]
               tail == [i \in DOMAIN defaults |-> [of |-> defaults[i], args |-> None, id |-> 0]]
    <3>1. chain = (head \o c) \o tail
      BY <2>3 DEF Chain, c
    <3>2. w \in Seq({"DispatchAfter"}) /\ DOMAIN w = 1..1 /\ w[1] = "DispatchAfter"
      OBVIOUS
    <3>3. IsSequence(w)
      BY <3>2, IsSequenceOf
    <3> HIDE DEF w
    <3>4. IsSequence(head) /\ DOMAIN head = 1..1 /\ head[1].of = "DispatchAfter"
      BY <3>2, <3>3, BuiltOnes
    <3>5. IsSequence(tail)
      BY BuiltOnes
    <3> HIDE DEF head, tail, chain
    <3>6. Len(head) = 1
      BY <3>4, PlacesOf
    <3>7. /\ IsSequence(head \o c) /\ Len(head \o c) = Len(head) + Len(c)
          /\ \A k \in 1..Len(head) : (head \o c)[k] = head[k]
          /\ \A k \in 1..Len(c) : (head \o c)[Len(head) + k] = c[k]
      BY <1>2, <3>4, Joined
    <3> DEFINE front == head \o c
    <3>8. IsSequence(front) /\ Len(front) = 1 + Len(c) /\ front[1] = head[1] /\ \A k \in 1..Len(c) : front[1 + k] = c[k]
      BY <3>6, <3>7
    <3> HIDE DEF front
    <3>9. \A k \in 1..Len(front) : (front \o tail)[k] = front[k]
      BY <3>5, <3>8, Joined
    <3>10. \A k \in 1..Len(front) : chain[k] = front[k]
      BY <3>1, <3>9 DEF front
    <3>11. chain[1] = head[1]
      BY <2>1, <3>8, <3>10
    <3>12. \A k \in 1..Len(c) : 1 + k \in 1..Len(front)
      BY <2>1, <3>8
    <3> QED BY <2>1, <2>3, <3>4, <3>8, <3>10, <3>11, <3>12
  <2> QED BY <2>2, <2>3
<1> HIDE DEF chain
<1>6. ASSUME NEW i \in DOMAIN m PROVE chain[First(a) + i] = c[0 + (b + i)]
  <2>1. b + i \in DOMAIN c /\ i \in Nat /\ b \in Nat
    BY <1>2, <1>3, <1>4
  <2>2. chain[d + (b + i)] = c[b + i]
    BY <1>5, <2>1
  <2>3. First(a) + i = d + (b + i) /\ 0 + (b + i) = b + i
    BY <1>3, <2>1
  <2> QED BY <2>2, <2>3
<1>7. ASSUME NEW i \in DOMAIN m PROVE IsEntry(chain[First(a) + i], named, m, i, n, x.objects)
  <2>1. IsEntry(c[0 + (b + i)], named, e, b + i, n, x.objects)
    BY <1>2, <1>4 DEF IsChain
  <2> QED BY <1>4, <1>6, <2>1 DEF IsEntry, Fresh
<1>8. ASSUME NEW i \in DOMAIN m, NEW j \in DOMAIN m, i # j, Fresh(named, m, i), Fresh(named, m, j)
      PROVE  chain[First(a) + i].id # chain[First(a) + j].id
  <2>1. Fresh(named, e, b + i) /\ Fresh(named, e, b + j) /\ b + i # b + j
    BY <1>3, <1>4, <1>8 DEF Fresh
  <2>2. c[0 + (b + i)].id # c[0 + (b + j)].id
    BY <1>2, <1>4, <2>1 DEF IsChain
  <2> QED BY <1>6, <2>2
<1>9. Bundled(a) => chain[First(a)].of = "UnitOfWork"
  <2> SUFFICES ASSUME Bundled(a) PROVE chain[First(a)].of = "UnitOfWork"
    OBVIOUS
  <2>1. e[1].kind = "built" /\ e[1].name = "UnitOfWork" /\ 1 \in DOMAIN e
    BY <1>1 DEF BuiltEntry
  <2>2. IsEntry(c[0 + 1], named, e, 1, n, x.objects)
    BY <1>2, <2>1 DEF IsChain
  <2>3. c[0 + 1].of = "UnitOfWork"
    BY <2>1, <2>2 DEF IsEntry
  <2>4. chain[d + 1] = c[1] /\ First(a) = d + 1 /\ 0 + 1 = 1
    BY <1>2, <1>3, <1>5, <2>1
  <2> QED BY <2>3, <2>4
<1>10. ASSUME NEW i \in DOMAIN m, Fresh(named, m, i)
       PROVE  chain[First(a) + i].of = ClassNamed(named, m[i].name) /\ ClassNamed(named, m[i].name) # None
  <2>1. Fresh(named, e, b + i)
    BY <1>4, <1>10 DEF Fresh
  <2> QED BY <1>2, <1>4, <1>6, <2>1 DEF IsOfClass
<1> QED BY <1>5, <1>7, <1>8, <1>9, <1>10 DEF IsChain, IsOfClass, BeginsWell, m, chain

-----------------------------------------------------------------------------
(***************************************************************************)
(* Middleware: what a container holds and what chains share.               *)
(***************************************************************************)

\* A container has a service for each entry with arguments, of the class of its name.
ServicesFit(entries, services) ==
  /\ <<>> \notin DOMAIN services
  /\ \A i \in DOMAIN entries :
       /\ entries[i].kind = "args" =>
            /\ Key(entries, i) \in DOMAIN services /\ Bare(entries[i].name) \in DOMAIN services
            /\ services[Key(entries, i)].args = entries[i].args
            /\ services[Key(entries, i)].of = services[Bare(entries[i].name)].of
       /\ entries[i].kind = "name" /\ Bare(entries[i].name) \in DOMAIN services =>
            services[Bare(entries[i].name)].args = None

LEMMA WithArgumentsIs ==
  ASSUME NEW entries, IsSequence(entries), Kinds(entries), NEW services,
         \A k \in DOMAIN services : (\E name : k = Bare(name)) /\ services[k].args = None,
         \A i \in DOMAIN entries : entries[i].kind = "args" => Bare(entries[i].name) \in DOMAIN services
  PROVE  ServicesFit(entries, WithArguments(entries, services))
<1> DEFINE given      == {i \in DOMAIN entries : entries[i].kind = "args"}
           keys       == {Key(entries, i) : i \in given}
           entry(key) == entries[CHOOSE i \in given : Key(entries, i) = key]
           with       == [key \in DOMAIN services \cup keys |->
                            IF key \in DOMAIN services THEN services[key]
                            ELSE [of |-> services[Bare(entry(key).name)].of, args |-> entry(key).args]]
<1>1. WithArguments(entries, services) = with
  BY DEF WithArguments
<1>2. \A k \in DOMAIN services : k # <<>> /\ \A i \in given : k # Key(entries, i)
  <2> SUFFICES ASSUME NEW name, Bare(name) \in DOMAIN services
               PROVE  Bare(name) # <<>> /\ \A i \in given : Bare(name) # Key(entries, i)
    OBVIOUS
  <2>1. Bare(name) # <<>>
    BY DEF Bare
  <2> QED BY <2>1, KeysAre
<1>3. \A i \in given : entry(Key(entries, i)) = entries[i]
  <2> SUFFICES ASSUME NEW i \in given PROVE entry(Key(entries, i)) = entries[i]
    OBVIOUS
  <2> DEFINE j == CHOOSE j \in given : Key(entries, j) = Key(entries, i)
  <2>1. j \in given /\ Key(entries, j) = Key(entries, i)
    OBVIOUS
  <2> HIDE DEF j
  <2>2. j = i
    BY <2>1, KeysApart
  <2> QED BY <2>2 DEF j
<1>4. <<>> \notin DOMAIN with
  BY <1>2, KeysAre
<1>5. ASSUME NEW i \in given
      PROVE  /\ Key(entries, i) \in DOMAIN with /\ Bare(entries[i].name) \in DOMAIN with
             /\ with[Key(entries, i)].args = entries[i].args
             /\ with[Key(entries, i)].of = with[Bare(entries[i].name)].of
  <2>1. Key(entries, i) \notin DOMAIN services /\ Key(entries, i) \in keys /\ Bare(entries[i].name) \in DOMAIN services
    BY <1>2
  <2>2. with[Bare(entries[i].name)] = services[Bare(entries[i].name)]
    BY <2>1
  <2>3. with[Key(entries, i)] = [of |-> services[Bare(entries[i].name)].of, args |-> entries[i].args]
    <3> HIDE DEF given, keys, entry
    <3> QED BY <1>3, <2>1
  <2> QED BY <2>1, <2>2, <2>3
<1>6. ASSUME NEW i \in DOMAIN entries, Bare(entries[i].name) \in DOMAIN with
      PROVE  with[Bare(entries[i].name)].args = None
  <2>1. Bare(entries[i].name) \in DOMAIN services
    BY <1>6, KeysAre
  <2> QED BY <2>1
<1> HIDE DEF with
<1> QED BY <1>1, <1>4, <1>5, <1>6 DEF ServicesFit

\* Chain is what an application's entries come to, with objects built so far.
ChainFits(a, named, chain, n) ==
  /\ BeginsWell(a, chain)
  /\ IsChain(chain, First(a), named, config[a].middleware, 0, n)
  /\ \A i \in DOMAIN config[a].middleware : \A k \in DOMAIN named :
       Fresh(named, config[a].middleware, i) => chain[First(a) + i].id # named[k].id

\* What is not the container's is not shared.
Apart(a, named, chain, other) ==
  \A i, j \in DOMAIN config[a].middleware :
    Fresh(named, config[a].middleware, i) /\ Fresh(named, config[a].middleware, j) =>
      chain[First(a) + i].id # other[First(a) + j].id

\* The services of an application r, what is held of them, and its chains fit each other and the
\* configuration, n objects being built so far.
ChainsFit(a, r, n) ==
  /\ r.phase \in {"new", "refused"} => r.named = <<>> /\ Chained(r) = {}
  /\ Bundled(a) /\ r.phase \notin {"new", "refused"} => ServicesFit(config[a].middleware, r.services)
  /\ Bundled(a) => r.again = <<>>
  /\ ~Bundled(a) => r.named = <<>> /\ r.services = <<>>
  /\ NamedFit(r.services, r.named, n)
  /\ Bundled(a) /\ (r.named # <<>> \/ Chained(r) # {}) => HoldsAll(config[a].middleware, r.services, r.named)
  /\ \A p \in Chained(r) : ChainFits(a, r.named, r[p][1].chain, n)
  /\ \A p, q \in Chained(r) : p # q => Apart(a, r.named, r[p][1].chain, r[q][1].chain)

ChainsInv ==
  /\ WiringInv
  /\ \A a \in DOMAIN config : ChainsFit(a, app[a], objects)

\* More objects are built.
LEMMA IsChainOn ==
  ASSUME NEW chain, NEW at, NEW named, NEW entries, NEW lo \in Nat, NEW hi \in Nat, IsChain(chain, at, named, entries, lo, hi),
         NEW lo2 \in Nat, NEW hi2 \in Nat, lo2 <= lo, hi <= hi2
  PROVE  IsChain(chain, at, named, entries, lo2, hi2)
<1>1. ASSUME NEW i \in DOMAIN entries PROVE IsEntry(chain[at + i], named, entries, i, lo2, hi2)
  <2>1. IsEntry(chain[at + i], named, entries, i, lo, hi)
    BY DEF IsChain
  <2> DEFINE x == chain[at + i]
  <2> HIDE DEF x
  <2>2. IsEntry(x, named, entries, i, lo2, hi2)
    BY <2>1 DEF IsEntry, x
  <2> QED BY <2>2 DEF x
<1> QED BY <1>1 DEF IsChain

LEMMA ChainsFitOn ==
  ASSUME NEW a, NEW r, NEW n \in Nat, NEW n2 \in Nat, n <= n2, ChainsFit(a, r, n)
  PROVE  ChainsFit(a, r, n2)
<1>1. NamedFit(r.services, r.named, n2)
  BY DEF ChainsFit, NamedFit
<1>2. \A chain : ChainFits(a, r.named, chain, n) => ChainFits(a, r.named, chain, n2)
  BY IsChainOn DEF ChainFits
<1> QED BY <1>1, <1>2 DEF ChainsFit

LEMMA ChainsFitNext ==
  ASSUME UNCHANGED config, NEW CONSTANT a, NEW CONSTANT r, NEW CONSTANT n, ChainsFit(a, r, n)
  PROVE  ChainsFit(a, r, n)'
<1>1. Bundled(a)' = Bundled(a) /\ First(a)' = First(a) /\ config'[a] = config[a]
  BY DEF Bundled, First
<1>2. \A named, chain : ChainFits(a, named, chain, n) => ChainFits(a, named, chain, n)'
  BY <1>1 DEF ChainFits, BeginsWell
<1>3. \A named, chain, other : Apart(a, named, chain, other) => Apart(a, named, chain, other)'
  BY <1>1 DEF Apart
<1>4. \A p \in Chained(r) : ChainFits(a, r.named, r[p][1].chain, n)'
  BY <1>2 DEF ChainsFit
<1>5. \A p, q \in Chained(r) : p # q => Apart(a, r.named, r[p][1].chain, r[q][1].chain)'
  BY <1>3 DEF ChainsFit
<1> QED BY <1>1, <1>4, <1>5 DEF ChainsFit

\* A chain just built shares only what the container holds with those built before.
LEMMA NewChainFits ==
  ASSUME NEW a, NEW services, NEW named, NEW n \in Nat, NEW hi \in Nat, n <= hi, NamedFit(services, named, n), NEW chain,
         IsChain(chain, First(a), named, config[a].middleware, n, hi), BeginsWell(a, chain)
  PROVE  /\ ChainFits(a, named, chain, hi)
         /\ \A other : ChainFits(a, named, other, n) => Apart(a, named, chain, other) /\ Apart(a, named, other, chain)
<1> DEFINE m == config[a].middleware
           at(c, i) == c[First(a) + i]
<1>1. \A i \in DOMAIN m : Fresh(named, m, i) => at(chain, i).id \in Nat /\ n < at(chain, i).id
  BY DEF IsChain, IsEntry
<1>2. \A k \in DOMAIN named : named[k].id \in Nat /\ named[k].id <= n
  BY DEF NamedFit
<1>3. IsChain(chain, First(a), named, m, 0, hi)
  BY IsChainOn
<1>4. ChainFits(a, named, chain, hi)
  BY <1>1, <1>2, <1>3 DEF ChainFits
<1>5. ASSUME NEW other, ChainFits(a, named, other, n)
      PROVE  \A i, j \in DOMAIN m : Fresh(named, m, i) /\ Fresh(named, m, j) => at(other, i).id # at(chain, j).id
  <2>1. \A i \in DOMAIN m : Fresh(named, m, i) => at(other, i).id \in Nat /\ at(other, i).id <= n
    BY <1>5 DEF ChainFits, IsChain, IsEntry
  <2> HIDE DEF at
  <2> QED BY <1>1, <2>1
<1> QED BY <1>4, <1>5 DEF Apart

\* What is held is held once: nothing changes where there are chains already.
LEMMA OnceFits ==
  ASSUME NEW a, IsSequence(config[a].middleware), Kinds(config[a].middleware), NEW n \in Nat,
         ChainsFit(a, app[a], n), app[a].phase = "booted"
  PROVE  LET once == NamedOnce(a, n)
         IN  /\ once.objects \in Nat /\ n <= once.objects
             /\ NamedFit(app[a].services, once.named, once.objects)
             /\ ~Bundled(a) => once.named = <<>>
             /\ Bundled(a) => HoldsAll(config[a].middleware, app[a].services, once.named)
             /\ \A p \in Chained(app[a]) : ChainFits(a, once.named, app[a][p][1].chain, n)
             /\ \A p, q \in Chained(app[a]) :
                  p # q => Apart(a, once.named, app[a][p][1].chain, app[a][q][1].chain)
<1> DEFINE once == NamedOnce(a, n)
           m    == config[a].middleware
           r    == app[a]
<1>1. once.objects \in Nat /\ n <= once.objects
  BY NamedOnceGrows
<1>2. CASE ~Bundled(a) \/ r.named # <<>>
  <2>1. once = [named |-> r.named, objects |-> n]
    BY <1>2 DEF NamedOnce
  <2>2. once.named = r.named /\ once.objects = n
    BY <2>1
  <2> HIDE DEF once, r
  <2> QED BY <1>1, <1>2, <2>2 DEF ChainsFit, once, r
<1>3. CASE Bundled(a) /\ r.named = <<>>
  <2>1. ServicesFit(m, r.services)
    BY <1>3 DEF ChainsFit
  <2>2. /\ NamedFit(r.services, once.named, once.objects)
        /\ HoldsAll(m, r.services, once.named)
        /\ \A k \in DOMAIN once.named : \E i \in DOMAIN m : k = Key(m, i) /\ m[i].kind # "built"
    BY <1>3, <2>1, NamedOnceIs DEF ServicesFit
  <2> HIDE DEF once
  <2>3. CASE Chained(r) = {}
    BY <1>1, <1>3, <2>2, <2>3 DEF once
  <2>4. CASE Chained(r) # {}
    <3>1. HoldsAll(m, r.services, <<>>)
      BY <1>3, <2>4 DEF ChainsFit
    <3>2. DOMAIN once.named = {} /\ DOMAIN <<>> = {}
      <4> SUFFICES ASSUME NEW k \in DOMAIN once.named PROVE FALSE
        OBVIOUS
      <4>1. PICK i \in DOMAIN m : k = Key(m, i) /\ m[i].kind # "built"
        BY <2>2
      <4>2. k \in DOMAIN r.services
        BY <2>2, <4>1 DEF HoldsAll
      <4> QED BY <3>1, <4>1, <4>2 DEF HoldsAll
    <3>3. \A i \in DOMAIN m : Fresh(once.named, m, i) <=> Fresh(<<>>, m, i)
      BY <3>2 DEF Fresh
    <3>4. ASSUME NEW chain, ChainFits(a, <<>>, chain, n) PROVE ChainFits(a, once.named, chain, n)
      <4>1. \A i \in DOMAIN m : IsEntry(chain[First(a) + i], once.named, m, i, 0, n)
        BY <3>2, <3>3, <3>4 DEF ChainFits, IsChain, IsEntry
      <4> QED BY <3>2, <3>3, <3>4, <4>1 DEF ChainFits, IsChain
    <3>5. ASSUME NEW chain, NEW other, Apart(a, <<>>, chain, other) PROVE Apart(a, once.named, chain, other)
      BY <3>3, <3>5 DEF Apart
    <3>6. /\ \A p \in Chained(r) : ChainFits(a, once.named, r[p][1].chain, n)
          /\ \A p, q \in Chained(r) : p # q => Apart(a, once.named, r[p][1].chain, r[q][1].chain)
      BY <1>3, <3>4, <3>5 DEF ChainsFit
    <3> QED BY <1>1, <1>3, <2>2, <3>6 DEF once
  <2> QED BY <2>3, <2>4
<1> QED BY <1>2, <1>3

Users == {"bus", "worker", "again"}

LEMMA SameChains ==
  ASSUME NEW r, NEW r2, \A p \in Users : r2[p] = r[p]
  PROVE  /\ Chained(r2) = Chained(r) /\ \A p \in Chained(r) : r2[p] = r[p]
         /\ r2.bus = r.bus /\ r2.worker = r.worker /\ r2.again = r.again
<1>1. \A p \in Users : r2[p] # <<>> <=> r[p] # <<>>
  OBVIOUS
<1> QED BY <1>1 DEF Chained, Users

Parted(r) == DOMAIN r = {"phase", "container", "services", "factory", "named", "bus", "worker", "again"}

LEMMA KeptChains ==
  ASSUME NEW a, IsSequence(config[a].middleware), Kinds(config[a].middleware), NEW n \in Nat,
         ChainsFit(a, app[a], n), app[a].phase = "booted", Parted(app[a]), NEW once, once = NamedOnce(a, n)
  PROVE  /\ once.objects \in Nat /\ n <= once.objects /\ <<>> \notin DOMAIN once.named
         /\ Parted(Kept(a, once)) /\ Kept(a, once).phase = "booted" /\ Kept(a, once).named = once.named
         /\ Kept(a, once).services = app[a].services /\ \A p \in Users : Kept(a, once)[p] = app[a][p]
         /\ ChainsFit(a, Kept(a, once), once.objects)
         /\ Bundled(a) => HoldsAll(config[a].middleware, Kept(a, once).services, Kept(a, once).named)
<1> DEFINE r  == app[a]
           r2 == Kept(a, once)
           m  == config[a].middleware
<1>1. /\ DOMAIN r2 = DOMAIN r /\ r2.phase = r.phase /\ r2.services = r.services /\ r2.named = once.named
      /\ \A p \in Users : r2[p] = r[p]
  BY DEF Kept, Parted, Users
<1>2. /\ once.objects \in Nat /\ n <= once.objects
      /\ NamedFit(r.services, once.named, once.objects)
      /\ ~Bundled(a) => once.named = <<>>
      /\ Bundled(a) => HoldsAll(m, r.services, once.named)
      /\ \A p \in Chained(r) : ChainFits(a, once.named, r[p][1].chain, n)
      /\ \A p, q \in Chained(r) : p # q => Apart(a, once.named, r[p][1].chain, r[q][1].chain)
  BY OnceFits
<1> HIDE DEF r2
<1>3. \A chain : ChainFits(a, once.named, chain, n) => ChainFits(a, once.named, chain, once.objects)
  BY <1>2, IsChainOn DEF ChainFits
<1>4. Chained(r2) = Chained(r) /\ r2.again = r.again /\ \A p \in Chained(r) : r2[p] = r[p]
  BY <1>1, SameChains
<1>5. ChainsFit(a, r2, once.objects)
  BY <1>1, <1>2, <1>3, <1>4 DEF ChainsFit
<1>6. <<>> \notin DOMAIN once.named
  BY <1>2 DEF NamedFit
<1> QED BY <1>1, <1>2, <1>5, <1>6 DEF r2, Parted

\* A part has got the chain that was built for it, or none.
LEMMA ChainsFitWith ==
  ASSUME NEW a, NEW r, r.phase = "booted", NEW n \in Nat, NEW hi \in Nat, n <= hi, ChainsFit(a, r, n),
         Bundled(a) => HoldsAll(config[a].middleware, r.services, r.named),
         NEW part \in Users, Bundled(a) => part # "again", NEW b, NEW failed,
         ~failed => IsChain(b.chain, First(a), r.named, config[a].middleware, n, hi) /\ BeginsWell(a, b.chain),
         NEW r2, r2.phase = r.phase, r2.services = r.services, r2.named = r.named,
         r2[part] = (IF failed THEN <<>> ELSE <<b>>), \A p \in Users \ {part} : r2[p] = r[p]
  PROVE  ChainsFit(a, r2, hi)
<1>1. ChainsFit(a, r, hi)
  BY ChainsFitOn
<1>2. \A p \in Chained(r2) : p = part \/ (p \in Chained(r) /\ r2[p] = r[p])
  BY DEF Chained, Users
<1>3. part \in Chained(r2) => ~failed /\ r2[part][1] = b
  <2>1. part \in Chained(r2) => r2[part] # <<>>
    BY DEF Chained
  <2>2. CASE failed
    BY <2>1, <2>2
  <2>3. CASE ~failed
    <3>1. r2[part] = <<b>>
      BY <2>3
    <3> QED BY <2>3, <3>1
  <2> QED BY <2>2, <2>3
<1>4. ASSUME ~failed
      PROVE  /\ ChainFits(a, r.named, b.chain, hi)
             /\ \A other : ChainFits(a, r.named, other, n) =>
                  Apart(a, r.named, b.chain, other) /\ Apart(a, r.named, other, b.chain)
  BY <1>4, NewChainFits DEF ChainsFit
<1>5. \A p \in Chained(r2) : ChainFits(a, r.named, r2[p][1].chain, hi)
  BY <1>1, <1>2, <1>3, <1>4 DEF ChainsFit
<1>6. ASSUME NEW p \in Chained(r2), NEW q \in Chained(r2), p # q
      PROVE  Apart(a, r.named, r2[p][1].chain, r2[q][1].chain)
  <2>1. CASE p # part /\ q # part
    BY <1>2, <1>6, <2>1 DEF ChainsFit
  <2>2. CASE p = part
    <3>1. q \in Chained(r) /\ r2[q] = r[q]
      BY <1>2, <1>6, <2>2
    <3>2. ChainFits(a, r.named, r2[q][1].chain, n)
      BY <3>1 DEF ChainsFit
    <3> QED BY <1>3, <1>4, <2>2, <3>2
  <2>3. CASE q = part
    <3>1. p \in Chained(r) /\ r2[p] = r[p]
      BY <1>2, <1>6, <2>3
    <3>2. ChainFits(a, r.named, r2[p][1].chain, n)
      BY <3>1 DEF ChainsFit
    <3> QED BY <1>3, <1>4, <2>3, <3>2
  <2> QED BY <2>1, <2>2, <2>3
<1>7. Bundled(a) => r2.again = <<>>
  <2>1. Bundled(a) => r2["again"] = r["again"]
    BY DEF Users
  <2> QED BY <2>1 DEF ChainsFit
<1> QED BY <1>1, <1>5, <1>6, <1>7 DEF ChainsFit

LEMMA ListOfTwo ==
  ASSUME NEW x, NEW y
  PROVE  IsSequence(<<x>>) /\ IsSequence(<<x, y>>)
<1>1. <<x>> \in Seq({x, y}) /\ <<x, y>> \in Seq({x, y})
  OBVIOUS
<1> QED BY <1>1, IsSequenceOf

LEMMA PublishingChain ==
  ASSUME NEW a, IsSequence(config[a].middleware), Kinds(config[a].middleware), IsSequence(config[a].transports),
         NEW part, NEW named, NEW n \in Nat, <<>> \notin DOMAIN named, ~Publishing(a, part, named, n).failed
  PROVE  LET p == Publishing(a, part, named, n)
         IN  /\ IsChain(p.bus.chain, First(a), named, config[a].middleware, n, p.acc.objects)
             /\ IsOfClass(p.bus.chain, First(a), named, config[a].middleware)
             /\ BeginsWell(a, p.bus.chain)
<1> DEFINE p == Publishing(a, part, named, n)
           x == Resolved(named, Entries(a), n)
<1>1. ~x.failed /\ p.bus.chain = Chain(a, x, <<"Send", "Handle">>)
  BY DEF Publishing
<1>2. p.acc.objects \in Nat /\ x.objects \in Nat /\ p.acc.objects >= x.objects
  BY PublishingIs, EntriesAre, ResolvedGrows DEF WorksFor, IsWork
<1> DEFINE chain == Chain(a, x, <<"Send", "Handle">>)
<1>3. /\ IsChain(chain, First(a), named, config[a].middleware, n, x.objects)
      /\ IsOfClass(chain, First(a), named, config[a].middleware) /\ BeginsWell(a, chain)
  BY <1>1, ListOfTwo, ChainIs
<1> HIDE DEF p, x, chain
<1>4. IsChain(chain, First(a), named, config[a].middleware, n, p.acc.objects)
  BY <1>2, <1>3, IsChainOn
<1> QED BY <1>1, <1>3, <1>4 DEF p, chain

LEMMA WorkerChain ==
  ASSUME NEW a, IsSequence(config[a].middleware), Kinds(config[a].middleware), IsSequence(config[a].transports),
         NEW names, IsSequence(names), NEW named, NEW n \in Nat, <<>> \notin DOMAIN named, ~WorkerFor(a, names, named, n).failed
  PROVE  LET w == WorkerFor(a, names, named, n)
         IN  /\ IsChain(w.worker.chain, First(a), named, config[a].middleware, n, w.acc.objects)
             /\ IsOfClass(w.worker.chain, First(a), named, config[a].middleware)
             /\ BeginsWell(a, w.worker.chain)
<1> DEFINE w == WorkerFor(a, names, named, n)
           x == Resolved(named, Entries(a), n)
<1>1. ~x.failed /\ w.worker.chain = Chain(a, x, <<"Handle">>)
  BY DEF WorkerFor
<1>2. w.acc.objects \in Nat /\ x.objects \in Nat /\ w.acc.objects >= x.objects
  BY WorkerForIs, EntriesAre, ResolvedGrows DEF WorksFor, IsWork
<1> DEFINE chain == Chain(a, x, <<"Handle">>)
<1>3. /\ IsChain(chain, First(a), named, config[a].middleware, n, x.objects)
      /\ IsOfClass(chain, First(a), named, config[a].middleware) /\ BeginsWell(a, chain)
  BY <1>1, ListOfTwo, ChainIs
<1> HIDE DEF w, x, chain
<1>4. IsChain(chain, First(a), named, config[a].middleware, n, w.acc.objects)
  BY <1>2, <1>3, IsChainOn
<1> QED BY <1>1, <1>3, <1>4 DEF w, chain

-----------------------------------------------------------------------------
(***************************************************************************)
(* Middleware: the chains of applications.                                 *)
(***************************************************************************)

\* One application becomes r; n objects are built by then.
LEMMA ChainsOn ==
  ASSUME ChainsInv, WiringInv', UNCHANGED config, NEW a \in DOMAIN config, NEW r, NEW n, n = objects', app'[a] = r,
         n \in Nat, objects <= n, ChainsFit(a, r, n),
         \A b \in DOMAIN config \ {a} : app'[b] = app[b]
  PROVE  ChainsInv'
<1>1. ASSUME NEW b \in DOMAIN config PROVE ChainsFit(b, app'[b], n)
  <2>1. CASE b = a
    BY <2>1
  <2>2. CASE b # a
    <3>1. ChainsFit(b, app[b], objects) /\ objects \in Nat
      BY DEF ChainsInv, WiringInv
    <3> QED BY <2>2, <3>1, ChainsFitOn
  <2> QED BY <2>1, <2>2
<1>2. ASSUME NEW b \in DOMAIN config PROVE ChainsFit(b, app[b], objects)'
  <2>1. PICK s : s = app'[b]
    OBVIOUS
  <2>2. PICK k : k = objects'
    OBVIOUS
  <2>3. ChainsFit(b, s, k)
    BY <1>1, <2>1, <2>2
  <2>4. ChainsFit(b, s, k)'
    BY <2>3, ChainsFitNext
  <2> QED BY <2>1, <2>2, <2>4
<1> QED BY <1>2 DEF ChainsInv

LEMMA ChainsSame ==
  ASSUME ChainsInv, WiringInv', UNCHANGED <<config, objects>>,
         \A a \in DOMAIN config : app'[a] = app[a]
  PROVE  ChainsInv'
<1>1. ASSUME NEW b \in DOMAIN config PROVE ChainsFit(b, app[b], objects)'
  <2>1. PICK s : s = app[b]
    OBVIOUS
  <2>2. PICK k : k = objects
    OBVIOUS
  <2>3. ChainsFit(b, s, k)
    BY <2>1, <2>2 DEF ChainsInv
  <2>4. ChainsFit(b, s, k)'
    BY <2>3, ChainsFitNext
  <2> QED BY <2>1, <2>2, <2>4
<1> QED BY <1>1 DEF ChainsInv

\* What an application and its configuration are made of.
LEMMA PartsAre ==
  ASSUME ChainsInv, NEW a \in DOMAIN config
  PROVE  /\ IsSequence(config[a].middleware) /\ Kinds(config[a].middleware) /\ IsSequence(config[a].transports)
         /\ objects \in Nat /\ Parted(app[a]) /\ ChainsFit(a, app[a], objects)
         /\ a \in DOMAIN app /\ DOMAIN app = DOMAIN config
         /\ ~Bundled(a) => app[a].phase = "booted"
<1>1. WiringInv
  BY DEF ChainsInv
<1>2. /\ IsSequence(config[a].middleware) /\ Kinds(config[a].middleware) /\ IsSequence(config[a].transports)
  BY <1>1, ConfigIs DEF WiringInv, Kinds
<1>3. Fits(a, app[a], Here(a, "bus"), Here(a, "workers"), opened[a])
  BY <1>1 DEF WiringInv
<1> QED BY <1>1, <1>2, <1>3 DEF ChainsInv, WiringInv, Fits, Parted

\* What an entry comes to is the class meant, with the arguments of the entry.
AsMeant(a, chain) ==
  /\ BeginsWell(a, chain)
  /\ \A i \in DOMAIN config[a].middleware :
       /\ chain[First(a) + i].of = Meant(a, config[a].middleware[i]).of
       /\ chain[First(a) + i].args = Meant(a, config[a].middleware[i]).args

LEMMA ChainMeant ==
  ASSUME NEW a, IsSequence(config[a].middleware), Kinds(config[a].middleware), NEW kept, NEW n,
         kept.phase = "booted", kept.services = app[a].services, ChainsFit(a, kept, n),
         Bundled(a) => HoldsAll(config[a].middleware, kept.services, kept.named),
         NEW chain, NEW lo, NEW hi, IsChain(chain, First(a), kept.named, config[a].middleware, lo, hi),
         IsOfClass(chain, First(a), kept.named, config[a].middleware), BeginsWell(a, chain)
  PROVE  AsMeant(a, chain)
<1>1. PICK named, services : named = kept.named /\ services = app[a].services
  OBVIOUS
<1>2. /\ NamedFit(services, named, n)
      /\ Bundled(a) => /\ ServicesFit(config[a].middleware, services)
                       /\ HoldsAll(config[a].middleware, services, named)
      /\ ~Bundled(a) => named = <<>> /\ services = <<>>
  BY <1>1 DEF ChainsFit
<1>3. /\ IsSequence(config[a].middleware) /\ Kinds(config[a].middleware)
      /\ IsChain(chain, First(a), named, config[a].middleware, lo, hi)
      /\ IsOfClass(chain, First(a), named, config[a].middleware)
  BY <1>1
<1>4. ASSUME NEW i \in DOMAIN config[a].middleware
      PROVE  /\ chain[First(a) + i].of = Meant(a, config[a].middleware[i]).of
             /\ chain[First(a) + i].args = Meant(a, config[a].middleware[i]).args
  <2> DEFINE m == config[a].middleware
             x == chain[First(a) + i]
             key == Key(m, i)
             bare == Bare(m[i].name)
  <2>1. /\ m[i].kind \in {"built", "name", "args"} /\ (m[i].kind # "args" => m[i].args = None)
    BY <1>3 DEF Kinds
  <2>2. IsEntry(x, named, m, i, lo, hi)
    BY <1>3 DEF IsChain
  <2>3. Fresh(named, m, i) => x.of = ClassNamed(named, m[i].name) /\ ClassNamed(named, m[i].name) # None
    BY <1>3 DEF IsOfClass
  <2>4. /\ m[i].kind = "name" => key = bare
        /\ m[i].kind # "built" => key # <<>>
    BY <1>3, <2>1, KeysAre
  <2>5. /\ key \in DOMAIN named => /\ key \in DOMAIN services
                                   /\ named[key].of = services[key].of /\ named[key].args = services[key].args
        /\ Bundled(a) => /\ m[i].kind = "args" =>
                              /\ key \in DOMAIN services /\ bare \in DOMAIN services
                              /\ services[key].args = m[i].args
                              /\ services[key].of = services[bare].of
                         /\ m[i].kind = "name" /\ bare \in DOMAIN services => services[bare].args = None
                         /\ m[i].kind # "built" => (key \in DOMAIN named <=> key \in DOMAIN services)
    BY <1>2 DEF NamedFit, ServicesFit, HoldsAll
  <2>6. ~Bundled(a) => DOMAIN named = {} /\ DOMAIN services = {}
    <3>1. DOMAIN <<>> = {}
      OBVIOUS
    <3> QED BY <1>2, <3>1
  <2>7. /\ Meant(a, m[i]).args = m[i].args
        /\ Meant(a, m[i]).of = IF m[i].kind = "built" THEN m[i].name
                                ELSE IF bare \in DOMAIN services THEN services[bare].of
                                ELSE IF m[i].name \in DOMAIN middleware THEN middleware[m[i].name] ELSE "Logging"
    BY <1>1 DEF Meant
  <2> HIDE DEF x, key, bare, m
  <2>8. CASE m[i].kind = "built"
    <3>1. x = [of |-> m[i].name, args |-> None, id |-> 0]
      BY <2>2, <2>8 DEF IsEntry
    <3>2. x.args = None /\ x.of = m[i].name
      BY <3>1
    <3> QED BY <2>1, <2>7, <2>8, <3>2 DEF x, m
  <2>9. CASE m[i].kind # "built" /\ key \in DOMAIN named
    <3>1. x = named[key]
      BY <2>2, <2>9 DEF IsEntry, key
    <3>2. Bundled(a)
      BY <2>6, <2>9
    <3>3. bare \in DOMAIN services /\ services[key].of = services[bare].of /\ services[key].args = m[i].args
      BY <2>1, <2>4, <2>5, <2>9, <3>2
    <3>4. Meant(a, m[i]).of = services[bare].of
      BY <2>7, <2>9, <3>3
    <3> QED BY <2>5, <2>7, <2>9, <3>1, <3>3, <3>4 DEF x, m
  <2>10. CASE m[i].kind # "built" /\ key \notin DOMAIN named
    <3>1. Fresh(named, m, i)
      BY <2>10 DEF Fresh, key
    <3>2. x.args = m[i].args
      BY <2>2, <3>1 DEF IsEntry
    <3>3. bare \notin DOMAIN services /\ bare \notin DOMAIN named
      <4>1. CASE Bundled(a)
        <5>1. m[i].kind = "name" /\ key = bare
          BY <2>1, <2>4, <2>5, <2>10, <4>1
        <5> QED BY <2>5, <2>10, <4>1, <5>1
      <4>2. CASE ~Bundled(a)
        BY <2>6, <4>2
      <4> QED BY <4>1, <4>2
    <3>4. ClassNamed(named, m[i].name) =
            IF m[i].name \in DOMAIN middleware THEN middleware[m[i].name]
            ELSE IF m[i].name = "logging" THEN "Logging" ELSE None
      BY <3>3 DEF ClassNamed, bare
    <3>5. x.of = IF m[i].name \in DOMAIN middleware THEN middleware[m[i].name] ELSE "Logging"
      BY <2>3, <3>1, <3>4
    <3> QED BY <2>7, <2>10, <3>2, <3>3, <3>5 DEF x, m
  <2> QED BY <2>8, <2>9, <2>10
<1> QED BY <1>4 DEF AsMeant

\* No chain is built but the one of a part, or none.
LEMMA NoneBuilt ==
  ASSUME \A a \in DOMAIN config : \A u \in Users : app'[a][u] = app[a][u] \/ app'[a][u] = <<>>
  PROVE  BuiltAsMeant
BY DEF BuiltAsMeant, Chained, Users

LEMMA OneBuilt ==
  ASSUME NEW a \in DOMAIN config, NEW part \in Users, NEW r, NEW r2, app'[a] = r2, app[a] = r,
         r2[part] = <<>> \/ AsMeant(a, r2[part][1].chain),
         \A u \in Users \ {part} : r2[u] = r[u],
         \A b \in DOMAIN config \ {a} : app'[b] = app[b]
  PROVE  BuiltAsMeant
<1> SUFFICES ASSUME NEW b \in DOMAIN config, NEW u \in Chained(app'[b]), app'[b][u] # app[b][u]
             PROVE  AsMeant(b, app'[b][u][1].chain)
  BY DEF BuiltAsMeant, AsMeant
<1>1. b = a /\ u \in Users /\ r2[u] # <<>> /\ r2[u] # r[u]
  BY DEF Chained, Users
<1>2. u = part
  BY <1>1
<1> QED BY <1>1, <1>2

LEMMA ChainsGetBus ==
  ASSUME ChainsInv, WiringInv', NEW a \in DOMAIN config, GetBus(a)
  PROVE  ChainsInv' /\ BuiltAsMeant
<1> DEFINE once == NamedOnce(a, objects)
           p    == Publishing(a, "bus", once.named, once.objects)
           kept == Kept(a, once)
           r    == [kept EXCEPT !.bus = IF p.failed THEN <<>> ELSE <<p.bus>>]
           m    == config[a].middleware
<1>1. /\ app[a].phase = "booted" /\ app' = [app EXCEPT ![a] = r] /\ objects' = p.acc.objects
      /\ UNCHANGED config
  BY DEF GetBus, Asks, Worked
<1>2. /\ IsSequence(m) /\ Kinds(m) /\ IsSequence(config[a].transports)
      /\ objects \in Nat /\ Parted(app[a]) /\ ChainsFit(a, app[a], objects) /\ a \in DOMAIN app /\ DOMAIN app = DOMAIN config
  BY PartsAre
<1>3. /\ once.objects \in Nat /\ objects <= once.objects /\ <<>> \notin DOMAIN once.named
      /\ Parted(kept) /\ kept.phase = "booted" /\ kept.named = once.named
      /\ kept.services = app[a].services /\ \A u \in Users : kept[u] = app[a][u]
      /\ ChainsFit(a, kept, once.objects)
      /\ Bundled(a) => HoldsAll(m, kept.services, kept.named)
  BY <1>1, <1>2, KeptChains
<1> HIDE DEF once, kept
<1>4. p.acc.objects \in Nat /\ once.objects <= p.acc.objects
  BY <1>2, <1>3, PublishingIs DEF WorksFor, IsWork
<1>5. ~p.failed => /\ IsChain(p.bus.chain, First(a), kept.named, m, once.objects, p.acc.objects)
                   /\ IsOfClass(p.bus.chain, First(a), kept.named, m) /\ BeginsWell(a, p.bus.chain)
  BY <1>2, <1>3, PublishingChain
<1> HIDE DEF p
<1>6. /\ r.phase = kept.phase /\ r.services = kept.services /\ r.named = kept.named
      /\ r["bus"] = (IF p.failed THEN <<>> ELSE <<p.bus>>) /\ \A u \in Users \ {"bus"} : r[u] = kept[u]
      /\ "bus" \in Users
  BY <1>3 DEF Parted, Users
<1> HIDE DEF r
<1>7. ChainsFit(a, r, p.acc.objects)
  BY <1>3, <1>4, <1>5, <1>6, ChainsFitWith
<1>8. ~p.failed => AsMeant(a, p.bus.chain)
  BY <1>2, <1>3, <1>5, ChainMeant
<1> HIDE DEF m
<1>9. app'[a] = r /\ \A b \in DOMAIN config \ {a} : app'[b] = app[b]
  BY <1>1, <1>2
<1>10. objects <= p.acc.objects
  BY <1>2, <1>3, <1>4
<1>11. BuiltAsMeant
  <2>1. r["bus"] = <<>> \/ AsMeant(a, r["bus"][1].chain)
    BY <1>6, <1>8
  <2> QED BY <1>3, <1>6, <1>9, <2>1, OneBuilt
<1> QED BY <1>1, <1>4, <1>7, <1>9, <1>10, <1>11, ChainsOn

LEMMA ChainsConsume ==
  ASSUME ChainsInv, WiringInv', NEW a \in DOMAIN config, Consume(a)
  PROVE  ChainsInv' /\ BuiltAsMeant
<1> DEFINE once == NamedOnce(a, objects)
           kept == Kept(a, once)
           m    == config[a].middleware
<1>1. PICK names \in Asked :
        LET wf == WorkerFor(a, names, once.named, once.objects)
        IN  /\ app' = [app EXCEPT ![a] = [kept EXCEPT !.worker = IF wf.failed THEN <<>> ELSE <<wf.worker>>]]
            /\ Worked(a, "workers", wf.acc)
  BY DEF Consume
<1> DEFINE wf == WorkerFor(a, names, once.named, once.objects)
           r  == [kept EXCEPT !.worker = IF wf.failed THEN <<>> ELSE <<wf.worker>>]
<1>2. /\ app[a].phase = "booted" /\ app' = [app EXCEPT ![a] = r] /\ objects' = wf.acc.objects
      /\ UNCHANGED config
  BY <1>1 DEF Consume, Asks, Worked
<1>3. /\ IsSequence(m) /\ Kinds(m) /\ IsSequence(config[a].transports) /\ IsSequence(names)
      /\ objects \in Nat /\ Parted(app[a]) /\ ChainsFit(a, app[a], objects) /\ a \in DOMAIN app /\ DOMAIN app = DOMAIN config
  BY PartsAre, ConfigurationsAssumption
<1>4. /\ once.objects \in Nat /\ objects <= once.objects /\ <<>> \notin DOMAIN once.named
      /\ Parted(kept) /\ kept.phase = "booted" /\ kept.named = once.named
      /\ kept.services = app[a].services /\ \A u \in Users : kept[u] = app[a][u]
      /\ ChainsFit(a, kept, once.objects)
      /\ Bundled(a) => HoldsAll(m, kept.services, kept.named)
  BY <1>2, <1>3, KeptChains
<1> HIDE DEF once, kept
<1>5. wf.acc.objects \in Nat /\ once.objects <= wf.acc.objects
  BY <1>3, <1>4, WorkerForIs DEF WorksFor, IsWork
<1>6. ~wf.failed => /\ IsChain(wf.worker.chain, First(a), kept.named, m, once.objects, wf.acc.objects)
                    /\ IsOfClass(wf.worker.chain, First(a), kept.named, m) /\ BeginsWell(a, wf.worker.chain)
  BY <1>3, <1>4, WorkerChain
<1> HIDE DEF wf
<1>7. /\ r.phase = kept.phase /\ r.services = kept.services /\ r.named = kept.named
      /\ r["worker"] = (IF wf.failed THEN <<>> ELSE <<wf.worker>>) /\ \A u \in Users \ {"worker"} : r[u] = kept[u]
      /\ "worker" \in Users
  BY <1>4 DEF Parted, Users
<1> HIDE DEF r
<1>8. ChainsFit(a, r, wf.acc.objects)
  BY <1>4, <1>5, <1>6, <1>7, ChainsFitWith
<1>9. ~wf.failed => AsMeant(a, wf.worker.chain)
  BY <1>3, <1>4, <1>6, ChainMeant
<1> HIDE DEF m
<1>10. app'[a] = r /\ \A b \in DOMAIN config \ {a} : app'[b] = app[b]
  BY <1>2, <1>3
<1>11. objects <= wf.acc.objects
  BY <1>3, <1>4, <1>5
<1>12. BuiltAsMeant
  <2>1. r["worker"] = <<>> \/ AsMeant(a, r["worker"][1].chain)
    BY <1>7, <1>9
  <2> QED BY <1>4, <1>7, <1>10, <2>1, OneBuilt
<1> QED BY <1>2, <1>5, <1>8, <1>10, <1>11, <1>12, ChainsOn

LEMMA ChainsRedispatch ==
  ASSUME ChainsInv, WiringInv', NEW a \in DOMAIN config, Redispatch(a)
  PROVE  ChainsInv' /\ BuiltAsMeant
<1> DEFINE p == Publishing(a, "workers", <<>>, objects)
           s == IF p.failed THEN <<>> ELSE <<p.bus>>
           r == [app[a] EXCEPT !.again = s]
           m == config[a].middleware
<1>1. /\ app' = [app EXCEPT ![a].again = s] /\ objects' = p.acc.objects /\ UNCHANGED config
      /\ ~Bundled(a) /\ DOMAIN <<>> = {}
  BY DEF Redispatch, Worked
<1>2. /\ IsSequence(m) /\ Kinds(m) /\ IsSequence(config[a].transports)
      /\ objects \in Nat /\ Parted(app[a]) /\ ChainsFit(a, app[a], objects) /\ a \in DOMAIN app /\ DOMAIN app = DOMAIN config
      /\ app[a].phase = "booted"
  BY <1>1, PartsAre
<1>3. p.acc.objects \in Nat /\ objects <= p.acc.objects
  BY <1>2, PublishingIs DEF WorksFor, IsWork
<1>4. app[a].named = <<>>
  BY <1>1, <1>2 DEF ChainsFit
<1>5. ~p.failed => /\ IsChain(p.bus.chain, First(a), app[a].named, m, objects, p.acc.objects)
                   /\ IsOfClass(p.bus.chain, First(a), app[a].named, m) /\ BeginsWell(a, p.bus.chain)
  BY <1>1, <1>2, <1>4, PublishingChain
<1> HIDE DEF p
<1>9. ~p.failed => AsMeant(a, p.bus.chain)
  BY <1>1, <1>2, <1>5, ChainMeant
<1> HIDE DEF m
<1>6. /\ r.phase = app[a].phase /\ r.services = app[a].services /\ r.named = app[a].named
      /\ r["again"] = s /\ \A u \in Users \ {"again"} : r[u] = app[a][u]
  BY <1>2 DEF Parted, Users
<1>7. app'[a] = r /\ \A b \in DOMAIN config \ {a} : app'[b] = app[b]
  BY <1>1, <1>2
<1> HIDE DEF r
<1>8. ChainsFit(a, r, p.acc.objects)
  <2>1. "again" \in Users
    BY DEF Users
  <2> QED BY <1>1, <1>2, <1>3, <1>5, <1>6, <2>1, ChainsFitWith DEF m
<1>10. BuiltAsMeant
  <2>1. r["again"] = <<>> \/ AsMeant(a, r["again"][1].chain)
    BY <1>6, <1>9
  <2>2. "again" \in Users
    BY DEF Users
  <2> QED BY <1>6, <1>7, <2>1, <2>2, OneBuilt
<1> QED BY <1>1, <1>3, <1>7, <1>8, <1>10, ChainsOn

LEMMA ChainsBuild ==
  ASSUME ChainsInv, WiringInv', NEW a \in DOMAIN config, Build(a)
  PROVE  ChainsInv' /\ BuiltAsMeant
<1> DEFINE m        == config[a].middleware
           declared == [k \in {Bare(name) : name \in DOMAIN middleware} |-> [of |-> middleware[k[1]], args |-> None]]
           services == IF config[a].logging THEN Put(declared, Bare("logging"), [of |-> "Logging", args |-> None]) ELSE declared
           ok == /\ \A i \in DOMAIN m : m[i].kind = "args" =>
                      Bare(m[i].name) \in DOMAIN services /\ services[Bare(m[i].name)].of # "Logging"
                 /\ \A i, j \in DOMAIN config[a].receivers :
                      config[a].receivers[i].alias = config[a].receivers[j].alias => i = j
           phase == IF ok THEN "built" ELSE "refused"
           with  == IF ok THEN WithArguments(m, services) ELSE <<>>
           r     == [app[a] EXCEPT !.phase = phase, !.services = with]
<1>1. app' = [app EXCEPT ![a].phase = phase, ![a].services = with]
  BY Zenon DEF Build
<1>2. app[a].phase = "new" /\ UNCHANGED <<config, objects>>
  BY DEF Build
<1>3. /\ IsSequence(m) /\ Kinds(m) /\ objects \in Nat /\ Parted(app[a]) /\ ChainsFit(a, app[a], objects)
      /\ a \in DOMAIN app /\ DOMAIN app = DOMAIN config /\ (~Bundled(a) => app[a].phase = "booted")
  BY PartsAre
<1>4. \A k \in DOMAIN services : (\E name : k = Bare(name)) /\ services[k].args = None
  <2>1. \A k \in DOMAIN declared : (\E name : k = Bare(name)) /\ declared[k].args = None
    OBVIOUS
  <2> HIDE DEF declared
  <2> QED BY <2>1 DEF Put
<1>5. ok => \A i \in DOMAIN m : m[i].kind = "args" => Bare(m[i].name) \in DOMAIN services
  OBVIOUS
<1> HIDE DEF services, declared, m
<1>6. ok => ServicesFit(m, WithArguments(m, services))
  BY <1>3, <1>4, <1>5, WithArgumentsIs
<1> HIDE DEF ok
<1>7. phase \in {"built", "refused"} /\ (phase # "refused" => ServicesFit(m, with))
  <2>1. CASE ok
    BY <1>6, <2>1
  <2>2. CASE ~ok
    BY <2>2
  <2> QED BY <2>1, <2>2
<1> HIDE DEF phase, with
<1>8. app'[a] = r /\ \A b \in DOMAIN config \ {a} : app'[b] = app[b]
  BY <1>1, <1>3
<1>9. /\ r.phase = phase /\ r.services = with /\ r.named = app[a].named
      /\ \A u \in Users : r[u] = app[a][u]
  BY <1>3 DEF Parted, Users
<1>10. /\ app[a].named = <<>> /\ Chained(app[a]) = {} /\ DOMAIN <<>> = {} /\ Bundled(a)
       /\ app[a].again = <<>>
  BY <1>2, <1>3 DEF ChainsFit
<1> HIDE DEF r
<1>11. Chained(r) = {} /\ r.again = <<>>
  BY <1>9, <1>10, SameChains
<1>12. ChainsFit(a, r, objects)
  BY <1>2, <1>3, <1>7, <1>9, <1>10, <1>11 DEF ChainsFit, NamedFit, m
<1>13. BuiltAsMeant
  BY <1>8, <1>9, NoneBuilt
<1> QED BY <1>2, <1>3, <1>8, <1>12, <1>13, ChainsOn

LEMMA ChainsBoot ==
  ASSUME ChainsInv, WiringInv', NEW a \in DOMAIN config, Boot(a)
  PROVE  ChainsInv' /\ BuiltAsMeant
<1> DEFINE r == [app[a] EXCEPT !.phase = "booted", !.container = app[a].container + 1,
                               !.named = <<>>, !.bus = <<>>, !.worker = <<>>]
<1>1. /\ app[a].phase \in {"built", "down"} /\ UNCHANGED <<config, objects>>
      /\ app' = [app EXCEPT ![a].phase = "booted", ![a].container = @ + 1,
                            ![a].named = <<>>, ![a].bus = <<>>, ![a].worker = <<>>]
  BY DEF Boot
<1>2. /\ objects \in Nat /\ Parted(app[a]) /\ ChainsFit(a, app[a], objects) /\ a \in DOMAIN app /\ DOMAIN app = DOMAIN config
  BY PartsAre
<1>3. app'[a] = r /\ \A b \in DOMAIN config \ {a} : app'[b] = app[b]
  BY <1>1, <1>2
<1>4. /\ r.phase = "booted" /\ r.services = app[a].services /\ r.named = <<>>
      /\ r.bus = <<>> /\ r.worker = <<>> /\ r.again = app[a].again /\ DOMAIN <<>> = {}
  BY <1>2 DEF Parted
<1> HIDE DEF r
<1>5. Bundled(a)
  BY <1>1, PartsAre
<1>6. Chained(r) = {} /\ r.again = <<>>
  BY <1>2, <1>4, <1>5 DEF ChainsFit, Chained
<1>7. ChainsFit(a, r, objects)
  BY <1>1, <1>2, <1>4, <1>5, <1>6 DEF ChainsFit, NamedFit
<1>13. BuiltAsMeant
  BY <1>3, <1>4, NoneBuilt DEF Users
<1> QED BY <1>1, <1>2, <1>3, <1>7, <1>13, ChainsOn

LEMMA ChainsShutdown ==
  ASSUME ChainsInv, WiringInv', NEW a \in DOMAIN config, Shutdown(a)
  PROVE  ChainsInv' /\ BuiltAsMeant
<1>1. /\ app[a].phase = "booted" /\ UNCHANGED <<config, objects>>
  BY DEF Shutdown
<1>2. PICK phase : phase \in {"down", "cut short"} /\ app' = [app EXCEPT ![a].phase = phase]
  <2>1. PICK phase, o :
          /\ (phase = "down" /\ o = {}) \/ (phase = "cut short" /\ o \subseteq opened[a])
          /\ app' = [app EXCEPT ![a].phase = phase] /\ opened' = [opened EXCEPT ![a] = o]
    BY ClosesAll DEF ChainsInv
  <2> QED BY <2>1
<1> DEFINE r == [app[a] EXCEPT !.phase = phase]
<1>3. /\ objects \in Nat /\ Parted(app[a]) /\ ChainsFit(a, app[a], objects) /\ a \in DOMAIN app /\ DOMAIN app = DOMAIN config
  BY PartsAre
<1>4. app'[a] = r /\ \A b \in DOMAIN config \ {a} : app'[b] = app[b]
  BY <1>2, <1>3
<1>5. /\ r.phase = phase /\ r.services = app[a].services /\ r.named = app[a].named
      /\ \A u \in Users : r[u] = app[a][u]
  BY <1>3 DEF Parted, Users
<1> HIDE DEF r
<1>6. r.phase \notin {"new", "refused"} /\ app[a].phase \notin {"new", "refused"}
  BY <1>1, <1>2, <1>5, Zenon
<1>7. Chained(r) = Chained(app[a]) /\ r.again = app[a].again /\ \A u \in Chained(app[a]) : r[u] = app[a][u]
  BY <1>5, SameChains
<1>8. ChainsFit(a, r, objects)
  BY <1>1, <1>3, <1>5, <1>7, <1>6 DEF ChainsFit
<1>13. BuiltAsMeant
  BY <1>4, <1>5, NoneBuilt
<1> QED BY <1>1, <1>3, <1>4, <1>8, <1>13, ChainsOn

LEMMA ChainsRunEnds ==
  ASSUME ChainsInv, WiringInv', RunEnds
  PROVE  ChainsInv' /\ BuiltAsMeant
<1> DEFINE a == command[1].app
<1>1. UNCHANGED <<config, objects>> /\ app' = [app EXCEPT ![a].worker = <<>>]
  BY DEF RunEnds
<1> HIDE DEF a
<1>2. CASE a \notin DOMAIN config
  <2>1. \A b \in DOMAIN config : app'[b] = app[b]
    BY <1>1, <1>2 DEF ChainsInv, WiringInv
  <2> QED BY <1>1, <2>1, ChainsSame, NoneBuilt
<1>3. CASE a \in DOMAIN config
  <2> DEFINE r == [app[a] EXCEPT !.worker = <<>>]
  <2>1. /\ objects \in Nat /\ Parted(app[a]) /\ ChainsFit(a, app[a], objects) /\ a \in DOMAIN app /\ DOMAIN app = DOMAIN config
    BY <1>3, PartsAre
  <2>2. app'[a] = r /\ \A b \in DOMAIN config \ {a} : app'[b] = app[b]
    BY <1>1, <2>1
  <2>3. /\ r.phase = app[a].phase /\ r.services = app[a].services /\ r.named = app[a].named
        /\ r["worker"] = <<>> /\ r.again = app[a].again /\ \A u \in Users \ {"worker"} : r[u] = app[a][u]
    BY <2>1 DEF Parted, Users
  <2> HIDE DEF r
  <2>4. Chained(r) \subseteq Chained(app[a]) /\ \A u \in Chained(r) : r[u] = app[a][u]
    BY <2>3 DEF Chained, Users
  <2>5. ChainsFit(a, r, objects)
    BY <2>1, <2>3, <2>4 DEF ChainsFit
  <2>6. BuiltAsMeant
    BY <2>2, <2>3, NoneBuilt
  <2> QED BY <1>1, <1>3, <2>1, <2>2, <2>5, <2>6, ChainsOn
<1> QED BY <1>2, <1>3

LEMMA ChainsInit ==
  ASSUME Init
  PROVE  ChainsInv
<1>1. WiringInv /\ objects = 0
  BY WiringInit DEF Init
<1>2. ASSUME NEW a \in DOMAIN config PROVE ChainsFit(a, app[a], 0)
  <2> DEFINE r == app[a]
  <2>1. /\ r.phase = (IF config[a].bundled THEN "new" ELSE "booted") /\ r.services = <<>> /\ r.named = <<>>
        /\ r.bus = <<>> /\ r.worker = <<>> /\ r.again = <<>> /\ DOMAIN <<>> = {}
    BY DEF Init
  <2> HIDE DEF r
  <2>2. Chained(r) = {}
    BY <2>1 DEF Chained
  <2>3. ChainsFit(a, r, 0)
    BY <2>1, <2>2 DEF ChainsFit, NamedFit, Bundled
  <2> QED BY <2>3 DEF r
<1> QED BY <1>1, <1>2 DEF ChainsInv

LEMMA ChainsNext ==
  ASSUME ChainsInv, [Next]_vars
  PROVE  ChainsInv' /\ BuiltAsMeant
<1>1. WiringInv'
  BY WiringNext DEF ChainsInv
<1>2. CASE Declares
  BY <1>1, <1>2, ChainsSame, NoneBuilt DEF Declares, building
<1>3. CASE UNCHANGED vars
  BY <1>1, <1>3, ChainsSame, NoneBuilt DEF vars, building
<1>4. CASE RunEnds
  BY <1>1, <1>4, ChainsRunEnds
<1>5. ASSUME NEW a \in DOMAIN config, Publish(a) PROVE ChainsInv' /\ BuiltAsMeant
  BY <1>1, <1>5, ChainsSame, NoneBuilt DEF Publish, building
<1>6. CASE \E a \in DOMAIN config :
             Build(a) \/ Boot(a) \/ GetBus(a) \/ Publish(a) \/ Redispatch(a) \/ Consume(a) \/ Shutdown(a)
  BY <1>1, <1>5, <1>6, ChainsBuild, ChainsBoot, ChainsGetBus, ChainsRedispatch, ChainsConsume, ChainsShutdown
<1> QED BY <1>2, <1>3, <1>4, <1>6 DEF Next

LEMMA Chains == Spec => []ChainsInv
<1> QED BY ChainsInit, ChainsNext, PTL DEF Spec

\* What the entries of a chain, or of two, come to is one object only where the container holds it.
LEMMA InstancesApart ==
  ASSUME NEW a, IsSequence(config[a].middleware), Kinds(config[a].middleware), NEW services, NEW named, NEW n,
         NamedFit(services, named, n),
         NEW chain, ChainFits(a, named, chain, n), NEW other, ChainFits(a, named, other, n),
         NEW i \in DOMAIN config[a].middleware, NEW j \in DOMAIN config[a].middleware,
         (chain = other /\ i # j) \/ Apart(a, named, chain, other),
         ~(config[a].middleware[i].kind = "built" /\ config[a].middleware[j].kind = "built")
  PROVE  chain[First(a) + i] = other[First(a) + j] <=>
           /\ Key(config[a].middleware, i) = Key(config[a].middleware, j)
           /\ Key(config[a].middleware, i) \in DOMAIN named
<1> DEFINE m == config[a].middleware
           x(k) == chain[First(a) + k]
           y(k) == other[First(a) + k]
<1>1. \A k \in DOMAIN m : IsEntry(x(k), named, m, k, 0, n) /\ IsEntry(y(k), named, m, k, 0, n)
  BY DEF ChainFits, IsChain
<1>2. \A k \in DOMAIN m : /\ m[k].kind = "built" => Key(m, k) = <<>>
                          /\ m[k].kind # "built" => Key(m, k) # <<>>
  BY KeysAre
<1>3. \A k \in DOMAIN m : m[k].kind # "built" /\ ~Fresh(named, m, k) =>
        Key(m, k) \in DOMAIN named /\ x(k) = named[Key(m, k)] /\ y(k) = named[Key(m, k)]
  BY <1>1 DEF IsEntry, Fresh
<1>4. \A k \in DOMAIN m : Fresh(named, m, k) =>
        /\ x(k).id \in Nat /\ 0 < x(k).id /\ y(k).id \in Nat /\ 0 < y(k).id
        /\ m[k].kind # "built" /\ Key(m, k) \notin DOMAIN named
  BY <1>1 DEF IsEntry, Fresh
<1>5. \A k \in DOMAIN m, key \in DOMAIN named :
        Fresh(named, m, k) => x(k).id # named[key].id /\ y(k).id # named[key].id
  BY DEF ChainFits
<1>6. Fresh(named, m, i) /\ Fresh(named, m, j) => x(i).id # y(j).id
  BY DEF ChainFits, IsChain, Apart
<1>7. /\ <<>> \notin DOMAIN named
      /\ \A k, l \in DOMAIN named : named[k].id \in Nat /\ 0 < named[k].id /\ (k # l => named[k].id # named[l].id)
  BY DEF NamedFit
<1>8. \A k \in DOMAIN m : m[k].kind = "built" => x(k).id = 0 /\ y(k).id = 0
  <2> SUFFICES ASSUME NEW k \in DOMAIN m, m[k].kind = "built" PROVE x(k).id = 0 /\ y(k).id = 0
    OBVIOUS
  <2>1. x(k) = [of |-> m[k].name, args |-> None, id |-> 0] /\ y(k) = [of |-> m[k].name, args |-> None, id |-> 0]
    BY <1>1 DEF IsEntry
  <2> QED BY <2>1
<1>9. ~(m[i].kind = "built" /\ m[j].kind = "built")
  OBVIOUS
<1> HIDE DEF x, y, m
<1>10. CASE m[i].kind = "built"
  <2>1. y(j).id \in Nat /\ 0 < y(j).id
    BY <1>3, <1>4, <1>7, <1>9, <1>10 DEF m
  <2> QED BY <1>2, <1>7, <1>8, <1>10, <2>1 DEF x, y, m
<1>11. CASE m[j].kind = "built"
  <2>1. x(i).id \in Nat /\ 0 < x(i).id
    BY <1>3, <1>4, <1>7, <1>9, <1>11 DEF m
  <2>2. Key(m, i) # Key(m, j)
    BY <1>2, <1>9, <1>11 DEF m
  <2> QED BY <1>8, <1>11, <2>1, <2>2 DEF x, y, m
<1>12. CASE m[i].kind # "built" /\ m[j].kind # "built"
  <2>1. CASE Fresh(named, m, i) /\ Fresh(named, m, j)
    BY <1>4, <1>6, <2>1 DEF x, y, m
  <2>2. CASE Fresh(named, m, i) /\ ~Fresh(named, m, j)
    BY <1>3, <1>4, <1>5, <1>12, <2>2 DEF x, y, m
  <2>3. CASE ~Fresh(named, m, i) /\ Fresh(named, m, j)
    <3>1. Key(m, i) \in DOMAIN named /\ x(i) = named[Key(m, i)] /\ Key(m, j) \notin DOMAIN named
      BY <1>3, <1>4, <1>12, <2>3 DEF m
    <3>2. x(i).id # y(j).id
      BY <1>5, <2>3, <3>1 DEF m
    <3> QED BY <3>1, <3>2 DEF x, y, m
  <2>4. CASE ~Fresh(named, m, i) /\ ~Fresh(named, m, j)
    <3>1. /\ Key(m, i) \in DOMAIN named /\ x(i) = named[Key(m, i)]
          /\ Key(m, j) \in DOMAIN named /\ y(j) = named[Key(m, j)]
      BY <1>3, <1>12, <2>4 DEF m
    <3>2. x(i) = y(j) <=> Key(m, i) = Key(m, j)
      BY <1>7, <3>1
    <3> QED BY <3>1, <3>2 DEF x, y, m
  <2> QED BY <2>1, <2>2, <2>3, <2>4
<1> QED BY <1>10, <1>11, <1>12

\* Entries have one key in common just if they are the same, or the same bare name.
LEMMA SameKey ==
  ASSUME NEW a, IsSequence(config[a].middleware), Kinds(config[a].middleware),
         NEW i \in DOMAIN config[a].middleware, NEW j \in DOMAIN config[a].middleware,
         config[a].middleware[i].kind # "built"
  PROVE  Key(config[a].middleware, i) = Key(config[a].middleware, j) <=> SameEntry(a, i, j)
<1> DEFINE m == config[a].middleware
<1>1. m[i].kind \in {"name", "args"} /\ m[j].kind \in {"built", "name", "args"}
  BY DEF Kinds
<1>2. CASE i = j
  BY <1>2 DEF SameEntry
<1>3. CASE i # j /\ (m[i].kind = "args" \/ m[j].kind = "args")
  <2>1. Key(m, i) # Key(m, j)
    BY <1>3, KeysApart
  <2> QED BY <1>3, <2>1 DEF SameEntry
<1>4. CASE i # j /\ m[i].kind = "name" /\ m[j].kind = "built"
  <2>1. Key(m, i) # Key(m, j)
    BY <1>4, KeysAre
  <2> QED BY <1>4, <2>1 DEF SameEntry
<1>5. CASE i # j /\ m[i].kind = "name" /\ m[j].kind = "name"
  <2>1. Key(m, i) = Bare(m[i].name) /\ Key(m, j) = Bare(m[j].name)
    BY <1>5, KeysAre
  <2>2. \A y, z : <<y>> = <<z>> <=> y = z
    OBVIOUS
  <2> QED BY <1>5, <2>1, <2>2 DEF SameEntry, Bare
<1> QED BY <1>1, <1>2, <1>3, <1>4, <1>5

LEMMA ChainsInvGives ==
  ASSUME ChainsInv
  PROVE  EntriesApart
<1> SUFFICES ASSUME NEW a \in DOMAIN config, NEW p \in Chained(app[a]), NEW q \in Chained(app[a]),
                    NEW i \in DOMAIN config[a].middleware, NEW j \in DOMAIN config[a].middleware,
                    p # q \/ i # j,
                    ~(config[a].middleware[i].kind = "built" /\ config[a].middleware[j].kind = "built")
             PROVE  Instance(a, p, i) = Instance(a, q, j) <=> Held(a, i) /\ SameEntry(a, i, j)
  BY DEF EntriesApart
<1> DEFINE m == config[a].middleware
           r == app[a]
           key == Key(m, i)
<1>1. IsSequence(m) /\ Kinds(m) /\ ChainsFit(a, r, objects)
  BY PartsAre
<1>2. r.phase \notin {"new", "refused"} /\ (Bundled(a) => HoldsAll(m, r.services, r.named))
  BY <1>1 DEF ChainsFit
<1>3. NamedFit(r.services, r.named, objects) /\ (~Bundled(a) => DOMAIN r.named = {}) /\ (Bundled(a) => ServicesFit(m, r.services))
  <2>1. DOMAIN <<>> = {}
    OBVIOUS
  <2> QED BY <1>1, <1>2, <2>1 DEF ChainsFit
<1>4. /\ ChainFits(a, r.named, r[p][1].chain, objects) /\ ChainFits(a, r.named, r[q][1].chain, objects)
      /\ p # q => Apart(a, r.named, r[p][1].chain, r[q][1].chain)
  BY <1>1 DEF ChainsFit
<1>5. p = q => i # j /\ r[p][1].chain = r[q][1].chain
  OBVIOUS
<1>6. ~(m[i].kind = "built" /\ m[j].kind = "built")
  OBVIOUS
<1> HIDE DEF r, m
<1>7. r[p][1].chain[First(a) + i] = r[q][1].chain[First(a) + j] <=> key = Key(m, j) /\ key \in DOMAIN r.named
  BY <1>1, <1>3, <1>4, <1>5, <1>6, InstancesApart DEF m
<1>8. m[i].kind # "built" => (key = Key(m, j) <=> SameEntry(a, i, j))
  BY <1>1, SameKey DEF m
<1>9. key \in DOMAIN r.named <=> Held(a, i)
  <2>1. m[i].kind \in {"built", "name", "args"}
    BY <1>1 DEF Kinds, m
  <2>2. /\ m[i].kind = "built" => key = <<>>
        /\ m[i].kind = "name" => key = Bare(m[i].name)
    BY <1>1, KeysAre DEF m
  <2>3. m[i].kind # "built" => (key \in DOMAIN r.named <=> Bundled(a) /\ key \in DOMAIN r.services)
    BY <1>2, <1>3 DEF HoldsAll, m
  <2>4. Bundled(a) /\ m[i].kind = "args" => key \in DOMAIN r.services
    BY <1>3 DEF ServicesFit, m
  <2>5. <<>> \notin DOMAIN r.named
    BY <1>3 DEF NamedFit
  <2>6. Held(a, i) <=> /\ Bundled(a)
                       /\ m[i].kind = "args" \/ (m[i].kind = "name" /\ Bare(m[i].name) \in DOMAIN r.services)
    BY DEF Held, m, r
  <2> HIDE DEF key
  <2> QED BY <2>1, <2>2, <2>3, <2>4, <2>5, <2>6
<1>10. Instance(a, p, i) = Instance(a, q, j) <=> r[p][1].chain[First(a) + i] = r[q][1].chain[First(a) + j]
  BY DEF Instance, r
<1>11. Held(a, i) => m[i].kind # "built"
  BY DEF Held, m
<1> QED BY <1>7, <1>8, <1>9, <1>10, <1>11

\* Each entry of a chain is the class its name stands for as the chain is built, with its own
\* arguments, and is shared just where a container holds it: with the other chains, and with the
\* entries of the same bare name.
THEOREM EntriesAreTheirOwn == Spec => EachEntryIsItsOwn
<1>1. ChainsInv => EntriesApart
  BY ChainsInvGives
<1>2. [Next]_vars /\ ChainsInv => [BuiltAsMeant]_vars
  BY ChainsNext
<1> QED BY <1>1, <1>2, Chains, PTL DEF Spec, EachEntryIsItsOwn

===============================================================================
