------------------------ MODULE BrokerLifecycle_proofs ------------------------
(***************************************************************************)
(* Proofs about BrokerLifecycle, for any number of brokers and producers.  *)
(* What close_all may do to a broker in use depends on CloseAnytime: a     *)
(* theorem that needs it called only while nobody uses a broker says so.   *)
(***************************************************************************)
EXTENDS BrokerLifecycle, TLAPS

(***************************************************************************)
(* What holds whenever close_all is called.                                *)
(***************************************************************************)

TypeOK ==
  /\ conn \in [Brokers -> {"down", "up", "torn"}]
  /\ flag \in [Brokers -> BOOLEAN]
  /\ started \subseteq Brokers
  /\ lock \in Producers \cup {None}
  /\ at \in [Producers -> {"idle", "waiting", "starting", "publishing"}]
  /\ on \in [Producers -> Brokers \cup {None}]
  /\ worker \in [Brokers -> Running \cup {"idle", "stopped"}]
  /\ claimed \in [Brokers -> BOOLEAN]
  /\ finished \in [Brokers -> {"none", "clear", "set"}]
  /\ requested \in [Brokers -> BOOLEAN]
  /\ closer \in Brokers \cup {"idle", "next"}
  /\ todo \subseteq Brokers

\* A producer that is busy is busy with a broker.
BusyOnABroker == \A p \in Producers : at[p] # "idle" => on[p] \in Brokers

\* A broker is flagged as a worker's exactly while a run() has it, so no run() finds it
\* flagged.
FlagIsTheRuns ==
  /\ \A b \in Brokers : flag[b] <=> worker[b] \in Running
  /\ \A b \in Brokers : worker[b] \in Running => ~claimed[b]

\* The inductive invariant.
IndInv == TypeOK /\ BusyOnABroker /\ FlagIsTheRuns /\ OpenedOnce /\ NoneLeftOpen

(***************************************************************************)
(* What holds if close_all is called only while nobody uses a broker.      *)
(***************************************************************************)

\* Nobody sends or runs until close_all is over, and the broker it closes is forgotten.
ClosesInQuiet ==
  /\ closer # "idle" => Quiet
  /\ closer \notin started

\* What is recorded as open is open.
RecordedIsOpen == \A b \in started : conn[b] = "up"

QuietInv == IndInv /\ ClosesInQuiet /\ RecordedIsOpen /\ ListensOverOpen

-----------------------------------------------------------------------------
\* Initially the inductive invariant holds.
LEMMA InitInv == Init => IndInv
  BY ConstantsAssumption
  DEF ConstantsAssumption, Init, IndInv, TypeOK, BusyOnABroker, FlagIsTheRuns, Running,
      OpenedOnce, OneStarter, StartsUnrecorded, NoneLeftOpen

\* Each step of a producer keeps it.
LEMMA ProducersKeepInv ==
  ASSUME IndInv, NEW p \in Producers,
         Produce(p) \/ Locked(p) \/ GivesUp(p) \/ \E b \in Brokers : Send(p, b)
  PROVE  IndInv'
  <1> USE ConstantsAssumption
      DEF ConstantsAssumption, IndInv, consuming, closing, Producer
  <1>1. CASE \E b \in Brokers : Send(p, b)
    <2> PICK b \in Brokers : Send(p, b)
      BY <1>1
    <2>1. TypeOK' /\ BusyOnABroker'
      BY DEF Send, TypeOK, BusyOnABroker
    <2>2. OpenedOnce'
      BY DEF Send, NeedsNoStart, LockIsFree, TypeOK, OpenedOnce, OneStarter, StartsUnrecorded
    <2>3. FlagIsTheRuns' /\ NoneLeftOpen'
      BY DEF Send, FlagIsTheRuns, NoneLeftOpen
    <2> QED BY <2>1, <2>2, <2>3
  <1>2. CASE StartedUp(p)
    <2>1. on[p] \in Brokers /\ lock = p
      BY <1>2 DEF StartedUp, BusyOnABroker, OpenedOnce, OneStarter
    <2>2. TypeOK' /\ BusyOnABroker'
      BY <1>2, <2>1 DEF StartedUp, TypeOK, BusyOnABroker
    <2>3. OpenedOnce'
      BY <1>2, <2>1 DEF StartedUp, TypeOK, OpenedOnce, OneStarter, StartsUnrecorded
    <2>4. FlagIsTheRuns' /\ NoneLeftOpen'
      BY <1>2, <2>1 DEF StartedUp, TypeOK, FlagIsTheRuns, NoneLeftOpen
    <2> QED BY <2>2, <2>3, <2>4
  <1>3. CASE Published(p)
    BY <1>3 DEF Published, TypeOK, BusyOnABroker, FlagIsTheRuns, NoneLeftOpen,
                OpenedOnce, OneStarter, StartsUnrecorded
  <1>4. CASE Locked(p)
    BY <1>4 DEF Locked, TypeOK, BusyOnABroker, FlagIsTheRuns, NoneLeftOpen,
                OpenedOnce, OneStarter, StartsUnrecorded
  <1>5. CASE GivesUp(p)
    <2>1. on[p] \in Brokers
      BY <1>5 DEF GivesUp, BusyOnABroker
    <2>2. TypeOK' /\ BusyOnABroker'
      BY <1>5, <2>1 DEF GivesUp, TypeOK, BusyOnABroker
    <2>3. OpenedOnce'
      BY <1>5 DEF GivesUp, TypeOK, OpenedOnce, OneStarter, StartsUnrecorded
    <2>4. FlagIsTheRuns' /\ NoneLeftOpen'
      BY <1>5, <2>1 DEF GivesUp, TypeOK, FlagIsTheRuns, NoneLeftOpen
    <2> QED BY <2>2, <2>3, <2>4
  <1> QED BY <1>1, <1>2, <1>3, <1>4, <1>5 DEF Produce

\* So does each step of a worker.
LEMMA WorkersKeepInv ==
  ASSUME IndInv, NEW b \in Brokers, Consume(b) \/ Breaks(b) \/ Run(b) \/ Stop(b)
  PROVE  IndInv'
  <1> USE DEF IndInv, producing, closing, Goes, Running
  <1>1. TypeOK'
    <2> USE DEF TypeOK
    <2>1. CASE ShutDown(b)
      BY <2>1 DEF ShutDown, Forget, RestoreFlag
    <2>2. CASE Run(b)
      <3>1. finished' \in [Brokers -> {"none", "clear", "set"}]
        BY <2>2 DEF Run
      <3> QED BY <2>2, <3>1 DEF Run
    <2>3. CASE Stop(b)
      BY <2>3 DEF Stop
    <2>4. CASE Announced(b) \/ Listens(b) \/ Finishes(b) \/ Returns(b) \/ Breaks(b)
      BY <2>4 DEF Announced, Listens, Finishes, Returns, Breaks
    <2> QED BY <2>1, <2>2, <2>3, <2>4 DEF Consume
  <1>2. BusyOnABroker'
    BY DEF BusyOnABroker, Consume, Announced, Listens, Finishes, ShutDown, Returns, Breaks,
           Run, Stop
  <1>3. FlagIsTheRuns'
    BY DEF TypeOK, FlagIsTheRuns, Consume, Announced, Listens, Finishes, ShutDown, Returns,
           Breaks, Run, Stop, RestoreFlag
  <1>4. OpenedOnce'
    BY DEF OpenedOnce, OneStarter, StartsUnrecorded, Consume, Announced, Listens, Finishes,
           ShutDown, Returns, Breaks, Run, Stop, Forget
  <1>5. NoneLeftOpen'
    BY DEF TypeOK, NoneLeftOpen, Consume, Announced, Listens, Finishes, ShutDown, Returns,
           Breaks, Run, Stop, Forget
  <1> QED BY <1>1, <1>2, <1>3, <1>4, <1>5

\* And each step of close_all.
LEMMA CloseKeepsInv ==
  ASSUME IndInv, Close \/ CloseAll \/ CloseCancelled
  PROVE  IndInv'
  <1> USE ConstantsAssumption
      DEF ConstantsAssumption, IndInv, producing, consuming, Close, CloseNext, Closed,
          AllClosed, CloseAll, CloseCancelled
  <1>1. TypeOK'
    BY DEF TypeOK
  <1>2. BusyOnABroker' /\ FlagIsTheRuns'
    BY DEF BusyOnABroker, FlagIsTheRuns
  <1>3. OpenedOnce'
    BY DEF OpenedOnce, OneStarter, StartsUnrecorded
  <1>4. NoneLeftOpen'
    BY DEF TypeOK, NoneLeftOpen
  <1> QED BY <1>1, <1>2, <1>3, <1>4

\* So the invariant is inductive.
LEMMA StepInv == IndInv /\ [Next]_vars => IndInv'
  <1> SUFFICES ASSUME IndInv, [Next]_vars PROVE IndInv'
    OBVIOUS
  <1>1. CASE UNCHANGED vars
    BY <1>1 DEF vars, producing, consuming, closing, IndInv, TypeOK, BusyOnABroker,
                FlagIsTheRuns, OpenedOnce, OneStarter, StartsUnrecorded, NoneLeftOpen
  <1> QED BY <1>1, ProducersKeepInv, WorkersKeepInv, CloseKeepsInv DEF Next

\* The invariant holds of every run, whenever close_all is called.
THEOREM Invariant == Spec => []IndInv
  BY InitInv, StepInv, PTL DEF Spec

\* One producer at a time opens brokers, and never one that is recorded as open.
THEOREM OpenedOnceHolds == Spec => []OpenedOnce
  BY Invariant, PTL DEF IndInv

\* No connection outlives its users, even with close_all called while they use it.
THEOREM NoneLeftOpenHolds == Spec => []NoneLeftOpen
  BY Invariant, PTL DEF IndInv

-----------------------------------------------------------------------------
\* With close_all called only while nobody uses a broker, what it closes stays closed, what
\* is recorded is open, and so is what a worker listens on.
LEMMA QuietStep ==
  ASSUME ~CloseAnytime, QuietInv, IndInv', [Next]_vars
  PROVE  QuietInv'
  <1> USE ConstantsAssumption
      DEF ConstantsAssumption, QuietInv, ClosesInQuiet, Quiet, RecordedIsOpen, ListensOverOpen
  <1>1. ASSUME NEW p \in Producers, Produce(p) \/ Locked(p) \/ GivesUp(p)
        PROVE  QuietInv'
    <2>1. closer = "idle" /\ on[p] \in Brokers
      BY <1>1 DEF Produce, StartedUp, Published, Locked, GivesUp, Producer, IndInv, TypeOK,
                  BusyOnABroker
    <2>2. ClosesInQuiet'
      BY <1>1, <2>1 DEF Produce, StartedUp, Published, Locked, GivesUp, closing, IndInv, TypeOK
    <2>3. RecordedIsOpen'
      BY <1>1, <2>1 DEF Produce, StartedUp, Published, Locked, GivesUp, Producer, IndInv, TypeOK,
                        OpenedOnce, StartsUnrecorded
    <2>4. ListensOverOpen'
      BY <1>1, <2>1 DEF Produce, StartedUp, Published, Locked, GivesUp, consuming, IndInv, TypeOK
    <2> QED BY <2>2, <2>3, <2>4
  <1>2. ASSUME NEW p \in Producers, NEW b \in Brokers, Send(p, b)
        PROVE  QuietInv'
    BY <1>2 DEF Send, consuming, closing
  <1>3. ASSUME NEW b \in Brokers, Consume(b) \/ Breaks(b) \/ Run(b)
        PROVE  QuietInv'
    <2>1. closer = "idle"
      BY <1>3 DEF Consume, Announced, Listens, Finishes, ShutDown, Returns, Breaks, Run, Goes,
                  IndInv, TypeOK, Running
    <2>2. ClosesInQuiet'
      BY <1>3, <2>1 DEF Consume, Announced, Listens, Finishes, ShutDown, Returns, Breaks, Run,
                        closing, IndInv, TypeOK
    <2>3. RecordedIsOpen'
      BY <1>3 DEF Consume, Announced, Listens, Finishes, ShutDown, Returns, Breaks, Run, Forget,
                  IndInv, TypeOK
    <2>4. ListensOverOpen'
      BY <1>3 DEF Consume, Announced, Listens, Finishes, ShutDown, Returns, Breaks, Run, Goes,
                  IndInv, TypeOK
    <2> QED BY <2>2, <2>3, <2>4
  <1>4. ASSUME NEW b \in Brokers, Stop(b)
        PROVE  QuietInv'
    BY <1>4 DEF Stop, producing, closing
  <1>5. CASE Close \/ CloseAll \/ CloseCancelled
    BY <1>5 DEF Close, CloseNext, Closed, AllClosed, CloseAll, CloseCancelled, producing,
                consuming, IndInv, TypeOK
  <1>6. CASE UNCHANGED vars
    BY <1>6 DEF vars, producing, consuming, closing
  <1> QED BY <1>1, <1>2, <1>3, <1>4, <1>5, <1>6 DEF Next

\* So while close_all is called only then, that is an invariant.
THEOREM QuietInvariant ==
  ASSUME ~CloseAnytime
  PROVE  Spec => []QuietInv
  <1>1. Init => QuietInv
    BY InitInv, ConstantsAssumption
    DEF ConstantsAssumption, Init, QuietInv, ClosesInQuiet, RecordedIsOpen, ListensOverOpen
  <1>2. QuietInv /\ [Next]_vars => QuietInv'
    BY QuietStep, StepInv DEF QuietInv
  <1> QED BY <1>1, <1>2, PTL DEF Spec

\* Called only while nobody uses a broker, close_all closes no connection a worker listens
\* on: what its documentation says of it holds under that condition.
THEOREM ListensOverOpenInQuiet ==
  ASSUME ~CloseAnytime
  PROVE  Spec => []ListensOverOpen
  BY QuietInvariant, PTL DEF QuietInv

\* A producer goes on to publish only over an open connection, or one whose owning worker is
\* still opening or already closing it.
THEOREM PublishesOverOpenHolds ==
  ASSUME ~CloseAnytime
  PROVE  Spec => PublishesOverOpen
  <1> DEFINE Publishes(p) ==
        at[p] # "publishing" /\ at'[p] = "publishing" =>
          \/ conn'[on'[p]] = "up"
          \/ worker[on'[p]] \in {"announcing", "starting", "closing"}
  <1>1. ASSUME QuietInv, [Next]_vars, NEW p \in Producers PROVE Publishes(p)
    <2> SUFFICES ASSUME at[p] # "publishing", at'[p] = "publishing"
                 PROVE  Publishes(p)
      OBVIOUS
    <2> USE DEF QuietInv, IndInv, TypeOK
    <2>1. StartedUp(p) \/ Locked(p) \/ \E b \in Brokers : Send(p, b)
      BY <1>1 DEF Next, vars, producing, Produce, StartedUp, Published, Locked, GivesUp, Send,
                  Producer, Consume, Announced, Listens, Finishes, ShutDown, Returns, Breaks,
                  Run, Stop, Close, CloseNext, Closed, AllClosed, CloseAll, CloseCancelled
    <2>2. CASE StartedUp(p)
      BY <1>1, <2>2 DEF StartedUp, Producer, BusyOnABroker
    <2>3. CASE Locked(p)
      BY <1>1, <2>3 DEF Locked, Producer, RecordedIsOpen
    <2>4. ASSUME NEW b \in Brokers, Send(p, b) PROVE Publishes(p)
      <3>1. on'[p] = b /\ UNCHANGED <<conn, worker>> /\ (flag[b] \/ b \in started)
        BY <1>1, <2>4 DEF Send, Producer, NeedsNoStart, consuming
      <3> QED BY <1>1, <3>1 DEF FlagIsTheRuns, Running, RecordedIsOpen, ListensOverOpen
    <2> QED BY <2>1, <2>2, <2>3, <2>4
  <1>2. QuietInv /\ [Next]_vars => [\A p \in Producers : Publishes(p)]_vars
    BY <1>1
  <1>3. PublishesOverOpen <=> [][\A p \in Producers : Publishes(p)]_vars
    BY PTL DEF PublishesOverOpen
  <1> QED BY <1>2, <1>3, QuietInvariant, PTL DEF Spec
=============================================================================
