--------------------------- MODULE BrokerLifecycle ---------------------------
(***************************************************************************)
(* Who opens and closes a taskiq broker's connection in one process        *)
(* (bridge/taskiq/started_brokers.py, bridge/taskiq/taskiq_worker.py and   *)
(* the first half of TaskiqSender.send).                                   *)
(*                                                                         *)
(* Three kinds of tasks share the brokers of one StartedBrokers registry:  *)
(* producers, which open a broker before they publish through it; a        *)
(* TaskiqWorker per broker, which opens and closes it around its run; and  *)
(* close_all, called as the application shuts down.  Opening and closing   *)
(* take time, and each takes effect as it returns: a step of this module   *)
(* is what a task does from one await to the next.                         *)
(*                                                                         *)
(* The broker itself - AsyncBroker of the taskiq package - is external,    *)
(* and so is the receive loop that listens on it.  All tasks share one     *)
(* event loop, so the registry has one lock.                               *)
(***************************************************************************)
EXTENDS Naturals, FiniteSets

CONSTANTS
  Brokers,     \* the brokers of one owner
  Producers,   \* the tasks that publish through them
  CloseAnytime \* whether close_all may be called while brokers are in use

None == "none"

\* What stands for nobody is no producer, and a place of close_all is no broker.
ASSUME ConstantsAssumption ==
  /\ CloseAnytime \in BOOLEAN
  /\ None \notin Producers
  /\ Brokers \cap {"idle", "next"} = {}

VARIABLES
  conn,       \* each connection: "down", "up", or "torn": opening or closing it raised
  flag,       \* is_worker_process of each broker
  started,    \* _started: the brokers the registry knows to be open
  lock,       \* the producer holding the registry's lock, or None
  at, on,     \* what each producer does, and through which broker (None while idle)
  worker,     \* where the run() of each broker's worker is suspended
  claimed,    \* `claimed` of that run: the flag it found
  finished,   \* _finished of each worker: no Event, one that is "clear", one that is "set"
  requested,  \* _stop_requested of each worker
  closer,     \* where close_all is: "idle", "next", or "closing" a broker
  todo        \* the brokers close_all has yet to close

producing == <<lock, at, on>>
consuming == <<worker, claimed, finished, requested>>
closing   == <<closer, todo>>
vars == <<conn, flag, started, producing, consuming, closing>>

\* Where run() has the broker flagged as a worker's.
Running == {"announcing", "starting", "listening", "closing"}

Init ==
  /\ conn = [b \in Brokers |-> "down"]
  /\ flag = [b \in Brokers |-> FALSE]
  /\ started = {}
  /\ lock = None
  /\ at = [p \in Producers |-> "idle"]
  /\ on = [p \in Producers |-> None]
  /\ worker = [b \in Brokers |-> "idle"]
  /\ claimed = [b \in Brokers |-> FALSE]
  /\ finished = [b \in Brokers |-> "none"]
  /\ requested = [b \in Brokers |-> FALSE]
  /\ closer = "idle"
  /\ todo = {}

-----------------------------------------------------------------------------
(***************************************************************************)
(* Producers: ensure_started, then the publish.                            *)
(***************************************************************************)
Producer(p, from, to) == at[p] = from /\ at' = [at EXCEPT ![p] = to]

\* In a worker, or with the broker recorded, there is nothing to open.
NeedsNoStart(b) == flag[b] \/ b \in started

\* The lock, with nobody waiting for it, is taken without an await.
LockIsFree == lock = None /\ \A p \in Producers : at[p] # "waiting"

Send(p, b) ==
  /\ CloseAnytime \/ closer = "idle"
  /\ on' = [on EXCEPT ![p] = b]
  /\ \/ NeedsNoStart(b) /\ Producer(p, "idle", "publishing") /\ UNCHANGED lock
     \/ ~NeedsNoStart(b) /\ LockIsFree /\ Producer(p, "idle", "starting") /\ lock' = p
     \/ ~NeedsNoStart(b) /\ ~LockIsFree /\ Producer(p, "idle", "waiting") /\ UNCHANGED lock
  /\ UNCHANGED <<conn, flag, started, consuming, closing>>

\* A faulty variant: no second look once the lock is taken.
LockedUnchecked(p) ==
  /\ lock = None
  /\ Producer(p, "waiting", "starting") /\ lock' = p
  /\ UNCHANGED <<on, conn, flag, started, consuming, closing>>

\* A producer that waited takes the lock; what is recorded by now is not opened again.
Locked(p) ==
  /\ lock = None
  /\ \/ on[p] \in started /\ Producer(p, "waiting", "publishing") /\ lock' = None
     \/ on[p] \notin started /\ Producer(p, "waiting", "starting") /\ lock' = p
  /\ UNCHANGED <<on, conn, flag, started, consuming, closing>>

\* Faulty variants: the lock stays held, or the broker is not recorded.
StartedHolding(p) ==
  /\ Producer(p, "starting", "publishing")
  /\ conn' = [conn EXCEPT ![on[p]] = "up"]
  /\ started' = started \cup {on[p]}
  /\ UNCHANGED <<lock, on, flag, consuming, closing>>
StartedUnrecorded(p) ==
  /\ Producer(p, "starting", "publishing")
  /\ conn' = [conn EXCEPT ![on[p]] = "up"]
  /\ lock' = None
  /\ UNCHANGED <<started, on, flag, consuming, closing>>

\* The broker is open: it is recorded, and the lock released.
StartedUp(p) ==
  /\ Producer(p, "starting", "publishing")
  /\ conn' = [conn EXCEPT ![on[p]] = "up"]
  /\ started' = started \cup {on[p]}
  /\ lock' = None
  /\ UNCHANGED <<on, flag, consuming, closing>>

Published(p) ==
  /\ Producer(p, "publishing", "idle")
  /\ on' = [on EXCEPT ![p] = None]
  /\ UNCHANGED <<lock, conn, flag, started, consuming, closing>>

\* startup() raises, or the producer is cancelled: the lock is released.
GivesUp(p) ==
  /\ \/ Producer(p, "waiting", "idle") /\ UNCHANGED <<lock, conn>>
     \/ /\ Producer(p, "starting", "idle")
        /\ lock' = None
        /\ conn' = [conn EXCEPT ![on[p]] = IF @ = "up" THEN @ ELSE "torn"]
  /\ on' = [on EXCEPT ![p] = None]
  /\ UNCHANGED <<flag, started, consuming, closing>>

-----------------------------------------------------------------------------
(***************************************************************************)
(* TaskiqWorker.                                                           *)
(***************************************************************************)
Goes(b, from, to) == worker[b] = from /\ worker' = [worker EXCEPT ![b] = to]

\* run() begins: the broker is claimed, and the start announced.
Run(b) ==
  /\ CloseAnytime \/ closer = "idle"
  /\ Goes(b, "idle", "announcing")
  /\ claimed' = [claimed EXCEPT ![b] = flag[b]]
  /\ flag' = [flag EXCEPT ![b] = TRUE]
  /\ finished' = [finished EXCEPT ![b] = IF requested[b] THEN "set" ELSE "clear"]
  /\ requested' = [requested EXCEPT ![b] = FALSE]
  /\ UNCHANGED <<conn, started, producing, closing>>

\* The start is announced; the receiver opens the broker before it listens.
Announced(b) ==
  /\ Goes(b, "announcing", "starting")
  /\ UNCHANGED <<conn, flag, started, producing, closing, claimed, finished, requested>>

Listens(b) ==
  /\ Goes(b, "starting", "listening")
  /\ conn' = [conn EXCEPT ![b] = "up"]
  /\ UNCHANGED <<flag, started, producing, closing, claimed, finished, requested>>

\* A faulty variant: the receiver is never told to finish.
NeverFinishes(b) == FALSE /\ b \in Brokers /\ UNCHANGED vars

\* The receiver returns once it is told to finish.
Finishes(b) ==
  /\ finished[b] = "set"
  /\ Goes(b, "listening", "closing")
  /\ UNCHANGED <<conn, flag, started, producing, closing, claimed, finished, requested>>

\* A listener, the startup or the receiver raises, or the task is cancelled.
Breaks(b) ==
  /\ \E from \in {"announcing", "starting", "listening"} : Goes(b, from, "closing")
  /\ UNCHANGED <<conn, flag, started, producing, closing, claimed, finished, requested>>

\* A faulty variant: the registry still knows the broker the worker closed.
StillRecorded(b) == UNCHANGED started

\* forget(), in the registry the worker was given.
Forget(b) == started' = started \ {b}

RestoreFlag(b) == flag' = [flag EXCEPT ![b] = claimed[b]]

\* The broker is shut down, or the shutdown raises: either way run() lets go of it.
ShutDown(b) ==
  /\ Goes(b, "closing", "stopped")
  /\ \E outcome \in {"down", "torn"} : conn' = [conn EXCEPT ![b] = outcome]
  /\ Forget(b)
  /\ RestoreFlag(b)
  /\ finished' = [finished EXCEPT ![b] = "none"]
  /\ UNCHANGED <<producing, closing, claimed, requested>>

\* The stop is announced, or a listener raises: run() is over.
Returns(b) ==
  /\ Goes(b, "stopped", "idle")
  /\ UNCHANGED <<conn, flag, started, producing, closing, claimed, finished, requested>>

Stop(b) ==
  /\ \/ finished[b] # "none" /\ finished' = [finished EXCEPT ![b] = "set"]
                             /\ UNCHANGED requested
     \/ finished[b] = "none" /\ requested' = [requested EXCEPT ![b] = TRUE]
                             /\ UNCHANGED finished
  /\ UNCHANGED <<conn, flag, started, producing, closing, worker, claimed>>

-----------------------------------------------------------------------------
(***************************************************************************)
(* close_all, which MessengerBundle.shutdown() comes to.                   *)
(***************************************************************************)
Quiet == /\ \A p \in Producers : at[p] = "idle"
         /\ \A b \in Brokers : worker[b] = "idle"

\* A snapshot of what is recorded.
CloseAll ==
  /\ closer = "idle" /\ started # {}
  /\ CloseAnytime \/ Quiet
  /\ closer' = "next"
  /\ todo' = started
  /\ UNCHANGED <<conn, flag, started, producing, consuming>>

\* The next broker is forgotten, then shut down.
CloseNext ==
  /\ closer = "next"
  /\ \E b \in todo :
       /\ started' = started \ {b}
       /\ closer' = b
       /\ todo' = todo \ {b}
  /\ UNCHANGED <<conn, flag, producing, consuming>>

\* The shutdown returned or raised: the next broker's turn comes either way.
Closed ==
  /\ closer \in Brokers
  /\ \E outcome \in {"down", "torn"} : conn' = [conn EXCEPT ![closer] = outcome]
  /\ closer' = "next"
  /\ UNCHANGED <<flag, started, todo, producing, consuming>>

\* close_all returns, or raises the failures together.
AllClosed ==
  /\ closer = "next" /\ todo = {}
  /\ closer' = "idle"
  /\ UNCHANGED <<conn, flag, started, todo, producing, consuming>>

\* close_all is cancelled while a shutdown is under way: it tries no further broker.
CloseCancelled ==
  /\ closer \in Brokers
  /\ \E outcome \in {"down", "torn"} : conn' = [conn EXCEPT ![closer] = outcome]
  /\ closer' = "idle"
  /\ todo' = {}
  /\ UNCHANGED <<flag, started, producing, consuming>>

-----------------------------------------------------------------------------
Produce(p) == StartedUp(p) \/ Published(p)
Consume(b) == Announced(b) \/ Listens(b) \/ Finishes(b) \/ ShutDown(b) \/ Returns(b)
Close      == CloseNext \/ Closed \/ AllClosed

Next ==
  \/ \E p \in Producers : Produce(p) \/ Locked(p) \/ GivesUp(p) \/ \E b \in Brokers : Send(p, b)
  \/ \E b \in Brokers : Consume(b) \/ Breaks(b) \/ Run(b) \/ Stop(b)
  \/ Close \/ CloseAll \/ CloseCancelled

Spec == Init /\ [][Next]_vars

(***************************************************************************)
(* Startups, shutdowns, listeners and publishes return or raise, and       *)
(* asyncio.Lock serves its waiters in turn.  Nobody has to send, run,      *)
(* stop or close.                                                          *)
(***************************************************************************)
FairSpec ==
  /\ Spec
  /\ \A p \in Producers : WF_vars(Produce(p)) /\ SF_vars(Locked(p))
  /\ \A b \in Brokers : WF_vars(Consume(b))
  /\ WF_vars(Close)

-----------------------------------------------------------------------------
(***************************************************************************)
(* Properties.                                                             *)
(***************************************************************************)

\* One producer at a time opens brokers, and never one that is recorded as open: "the lock
\* makes concurrent first publishes safe" (ensure_started's second look, under the lock).
OneStarter ==
  \A p \in Producers : at[p] = "starting" <=> lock = p
StartsUnrecorded ==
  \A p \in Producers : at[p] = "starting" => on[p] \notin started
OpenedOnce == OneStarter /\ StartsUnrecorded

\* No connection outlives its users: one that is open is recorded, and so closed by
\* close_all, or in the hands of a worker, which closes it as it stops.
NoneLeftOpen ==
  \A b \in Brokers : conn[b] = "up" =>
    \/ b \in started
    \/ worker[b] \in Running
    \/ closer = b

\* A producer goes on to publish only over an open connection - or one a worker that owns
\* the broker is still opening, or is closing (ensure_started trusts its flag).
PublishesOverOpen ==
  [][\A p \in Producers :
       at[p] # "publishing" /\ at'[p] = "publishing" =>
         \/ conn'[on'[p]] = "up"
         \/ worker[on'[p]] \in {"announcing", "starting", "closing"}]_vars

\* A worker told to stop shuts its broker down and returns; and a stop, one asked for before run()
\* began too, is never forgotten but as a run comes to its end (stop, and run's look at
\* _stop_requested).
ToldToStop(b) == requested[b] \/ finished[b] = "set"
StoppedWorkerReturns ==
  /\ \A b \in Brokers : finished[b] = "set" ~> worker[b] = "idle"
  /\ [][\A b \in Brokers : ToldToStop(b) => ToldToStop(b)' \/ worker[b] = "closing"]_vars

\* A producer that waits for the lock gets its turn, or gives up.
NobodyWaitsForever == \A p \in Producers : at[p] = "waiting" ~> at[p] # "waiting"

\* "This never closes a connection something is still consuming from": while a worker
\* listens, its broker's connection is up.
ListensOverOpen == \A b \in Brokers : worker[b] = "listening" => conn[b] = "up"

\* "In a worker the receiver has already started the broker.  Starting it again re-fires the
\* worker startup events": no producer sets out to open a broker its worker listens on.
WorkersBrokerLeftAlone ==
  [][\A p \in Producers :
       at[p] # "starting" /\ at'[p] = "starting" => worker[on'[p]] # "listening"]_vars
=============================================================================
