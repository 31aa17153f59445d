---------------------------- MODULE Worker_proofs ----------------------------
(***************************************************************************)
(* Proofs about module Worker: its safety properties, for any number of    *)
(* messages, runs and cancellations.  One inductive invariant, IndInv,     *)
(* carries them all: it ties what the variables hold to where run() is     *)
(* suspended.                                                              *)
(***************************************************************************)
EXTENDS Worker, TLAPS

\* The initial state satisfies the invariant.
LEMMA InitIndInv == Init => IndInv
  <1> SUFFICES ASSUME Init PROVE IndInv
    OBVIOUS
  <1> USE ConstantsAssumption
      DEF ConstantsAssumption, Init, Messages, Handling, Settling, Holding, Awaits, Consuming
  <1>1. TypeOK
    <2>1. settled \in [Messages -> {"none", "ack", "reject"}] /\ attempts \in [Messages -> Nat]
      OBVIOUS
    <2>2. late \in [may : 0..1, did : Nat]
      OBVIOUS
    <2>3. pc \in Awaits \cup {"idle", "next", "ending"} /\ cutShort \subseteq 1..taken
      OBVIOUS
    <2>4. /\ inHand \in 0..taken /\ began \in 0..taken /\ taken \in 0..MaxMessages
          /\ runs \in 0..MaxRuns /\ cancels \in 0..MaxCancels
      OBVIOUS
    <2>5. event \in BOOLEAN /\ stopRequested \in BOOLEAN
      OBVIOUS
    <2> QED BY <2>1, <2>2, <2>3, <2>4, <2>5 DEF TypeOK
  <1>2. SettledOnce
    BY DEF SettledOnce
  <1>3. LossIsRaised
    BY DEF LossIsRaised
  <1>4. ResetBetweenMessages
    BY DEF ResetBetweenMessages
  <1>5. StopsCollecting
    BY DEF StopsCollecting
  <1>6. StopIsKept
    BY DEF StopIsKept
  <1>7. FetchInv
    BY DEF FetchInv
  <1>8. InHandInv
    BY DEF InHandInv
  <1>9. StopInv
    BY DEF StopInv
  <1> QED BY <1>1, <1>2, <1>3, <1>4, <1>5, <1>6, <1>7, <1>8, <1>9 DEF IndInv

\* A stop, and the beginning of a run.
LEMMA StoppingKeeps ==
  ASSUME IndInv,
         Stop \/ Run
  PROVE  IndInv'
  <1> USE ConstantsAssumption
      DEF ConstantsAssumption, IndInv, TypeOK, SettledOnce, LossIsRaised, ResetBetweenMessages, StopsCollecting,
      StopIsKept, FetchInv, InHandInv, StopInv, Messages, Handling, Settling, Holding, Awaits,
      Consuming, Goes, Return, Raises, IsCancelled, Breaks, Continues, Untouched, stopping,
      counting, message
  <1>1. CASE Stop
    <2>1. TypeOK'
      <3>1. late' \in [may : 0..1, did : Nat]
        BY <1>1 DEF Stop, SetEvent, MayCollect
      <3>2. event' \in BOOLEAN /\ stopRequested' \in BOOLEAN
        BY <1>1 DEF Stop, SetEvent
      <3> QED BY <1>1, <3>1, <3>2 DEF Stop
    <2>2. SettledOnce'
      BY <1>1 DEF Stop, SetEvent, MayCollect
    <2>3. LossIsRaised'
      BY <1>1 DEF Stop, SetEvent, MayCollect
    <2>4. ResetBetweenMessages'
      BY <1>1 DEF Stop, SetEvent, MayCollect
    <2>5. StopsCollecting'
      BY <1>1 DEF Stop, SetEvent, MayCollect
    <2>6. StopIsKept'
      BY <1>1 DEF Stop, SetEvent, MayCollect
    <2>7. FetchInv'
      BY <1>1 DEF Stop, SetEvent, MayCollect
    <2>8. InHandInv'
      BY <1>1 DEF Stop, SetEvent, MayCollect
    <2>9. StopInv'
      BY <1>1 DEF Stop, SetEvent, MayCollect
    <2> QED BY <2>1, <2>2, <2>3, <2>4, <2>5, <2>6, <2>7, <2>8, <2>9
  <1>2. CASE Run
    <2>1. TypeOK'
      <3>1. late' \in [may : 0..1, did : Nat]
        BY <1>2 DEF Run
      <3>2. event' \in BOOLEAN /\ stopRequested' \in BOOLEAN
        BY <1>2 DEF Run
      <3> QED BY <1>2, <3>1, <3>2 DEF Run
    <2>2. SettledOnce'
      BY <1>2 DEF Run, SetEvent, MayCollect
    <2>3. LossIsRaised'
      BY <1>2 DEF Run, SetEvent, MayCollect
    <2>4. ResetBetweenMessages'
      BY <1>2 DEF Run, SetEvent, MayCollect
    <2>5. StopsCollecting'
      BY <1>2 DEF Run, SetEvent, MayCollect
    <2>6. StopIsKept'
      BY <1>2 DEF Run, SetEvent, MayCollect
    <2>7. FetchInv'
      BY <1>2 DEF Run, SetEvent, MayCollect
    <2>8. InHandInv'
      BY <1>2 DEF Run, SetEvent, MayCollect
    <2>9. StopInv'
      BY <1>2 DEF Run, SetEvent, MayCollect
    <2> QED BY <2>1, <2>2, <2>3, <2>4, <2>5, <2>6, <2>7, <2>8, <2>9
  <1> QED BY <1>1, <1>2

\* Waiting for a message: the fetch is at rest when it is over, and what it delivered is in hand
\* or lost to a cancellation.
LEMMA FetchingKeeps ==
  ASSUME IndInv,
         Fetch \/ Fetched \/ Halt \/ Halted \/ CancelledWaiting
         \/ ReceiverDelivers \/ ReceiverStops
  PROVE  IndInv'
  <1> USE ConstantsAssumption
      DEF ConstantsAssumption, IndInv, TypeOK, SettledOnce, LossIsRaised, ResetBetweenMessages, StopsCollecting,
      StopIsKept, FetchInv, InHandInv, StopInv, Messages, Handling, Settling, Holding, Awaits,
      Consuming, Goes, Return, Raises, IsCancelled, Breaks, Continues, Untouched, stopping,
      counting, message
  <1>1. CASE Fetch
    BY <1>1 DEF Fetch, Collects, LosesFetched, EndsFetching, FetchOver
  <1>2. CASE Fetched
    BY <1>2 DEF Fetched, Collects, LosesFetched, EndsFetching, FetchOver
  <1>3. CASE Halt
    BY <1>3 DEF Halt, Collects, LosesFetched, EndsFetching, FetchOver
  <1>4. CASE Halted
    BY <1>4 DEF Halted, Collects, LosesFetched, EndsFetching, FetchOver
  <1>5. CASE CancelledWaiting
    <2>1. TypeOK'
      <3>1. cutShort' = cutShort \/ LosesFetched
        BY <1>5 DEF CancelledWaiting
      <3>2. cutShort' = cutShort \/ (fetch = "ready" /\ cutShort' = cutShort \cup {taken})
        BY <3>1 DEF LosesFetched
      <3>3. fetch = "ready" => taken \in 1..taken
        OBVIOUS
      <3>4. cutShort' \subseteq 1..taken /\ taken' = taken
        <4>1. taken' = taken
          BY <1>5 DEF CancelledWaiting
        <4>2. cutShort \subseteq 1..taken
          OBVIOUS
        <4> QED BY <3>2, <3>3, <4>1, <4>2
      <3>5. pc' \in {"halting", "ending"} /\ fetch' \in {"none", "pending"}
        BY <1>5 DEF CancelledWaiting, LosesFetched
      <3>6. cancels' \in 0..MaxCancels /\ raising' = "cancelled"
        BY <1>5 DEF CancelledWaiting
      <3>7. UNCHANGED <<inHand, services, late, event, current, stopRequested, owed, runs, began,
                        settled, attempts>>
        BY <1>5 DEF CancelledWaiting, LosesFetched
      <3> QED BY <3>4, <3>5, <3>6, <3>7
    <2>2. SettledOnce'
      BY <1>5 DEF CancelledWaiting, Collects, LosesFetched, EndsFetching, FetchOver
    <2>3. LossIsRaised'
      BY <1>5 DEF CancelledWaiting, Collects, LosesFetched, EndsFetching, FetchOver
    <2>4. ResetBetweenMessages'
      BY <1>5 DEF CancelledWaiting, Collects, LosesFetched, EndsFetching, FetchOver
    <2>5. StopsCollecting'
      BY <1>5 DEF CancelledWaiting, Collects, LosesFetched, EndsFetching, FetchOver
    <2>6. StopIsKept'
      BY <1>5 DEF CancelledWaiting, Collects, LosesFetched, EndsFetching, FetchOver
    <2>7. FetchInv'
      BY <1>5 DEF CancelledWaiting, Collects, LosesFetched, EndsFetching, FetchOver
    <2>8. InHandInv'
      BY <1>5 DEF CancelledWaiting, Collects, LosesFetched, EndsFetching, FetchOver
    <2>9. StopInv'
      BY <1>5 DEF CancelledWaiting, Collects, LosesFetched, EndsFetching, FetchOver
    <2> QED BY <2>1, <2>2, <2>3, <2>4, <2>5, <2>6, <2>7, <2>8, <2>9
  <1>6. CASE ReceiverDelivers
    BY <1>6 DEF ReceiverDelivers, Collects, LosesFetched, EndsFetching, FetchOver
  <1>7. CASE ReceiverStops
    BY <1>7 DEF ReceiverStops, Collects, LosesFetched, EndsFetching, FetchOver
  <1> QED BY <1>1, <1>2, <1>3, <1>4, <1>5, <1>6, <1>7

\* Handling the message in hand: it stays in hand, or is left behind unsettled.
LEMMA HandlingKeeps ==
  ASSUME IndInv,
         Received \/ Dispatched \/ HandledAnnounced \/ HandlingFails \/ HandlingCancelled
         \/ FailureAnnounced
  PROVE  IndInv'
  <1> USE ConstantsAssumption
      DEF ConstantsAssumption, IndInv, TypeOK, SettledOnce, LossIsRaised, ResetBetweenMessages, StopsCollecting,
      StopIsKept, FetchInv, InHandInv, StopInv, Messages, Handling, Settling, Holding, Awaits,
      Consuming, Goes, Return, Raises, IsCancelled, Breaks, Continues, Untouched, stopping,
      counting, message
  <1>1. CASE Received
    BY <1>1 DEF Received
  <1>2. CASE Dispatched
    BY <1>2 DEF Dispatched
  <1>3. CASE HandledAnnounced
    BY <1>3 DEF HandledAnnounced
  <1>4. CASE HandlingFails
    BY <1>4 DEF HandlingFails
  <1>5. CASE HandlingCancelled
    BY <1>5 DEF HandlingCancelled
  <1>6. CASE FailureAnnounced
    BY <1>6 DEF FailureAnnounced
  <1> QED BY <1>1, <1>2, <1>3, <1>4, <1>5, <1>6

\* Settling the message in hand, and the reset after it.
LEMMA SettlingKeeps ==
  ASSUME IndInv,
         Acked \/ Rejected \/ Reset \/ ResetBreaks
  PROVE  IndInv'
  <1> USE ConstantsAssumption
      DEF ConstantsAssumption, IndInv, TypeOK, SettledOnce, LossIsRaised, ResetBetweenMessages, StopsCollecting,
      StopIsKept, FetchInv, InHandInv, StopInv, Messages, Handling, Settling, Holding, Awaits,
      Consuming, Goes, Return, Raises, IsCancelled, Breaks, Continues, Untouched, stopping,
      counting, message
  <1>1. CASE Acked
    <2>1. TypeOK'
      <3>1. inHand \in 1..taken
        BY <1>1 DEF Acked
      <3>2. cutShort' = cutShort \/ cutShort' = cutShort \cup {inHand}
        BY <1>1 DEF Acked, Settles
      <3>3. cutShort' \subseteq 1..taken'
        BY <1>1, <3>1, <3>2 DEF Acked
      <3>4. attempts' \in [Messages -> Nat] /\ settled' \in [Messages -> {"none", "ack", "reject"}]
        BY <1>1, <3>1 DEF Acked, Asks, Settles
      <3> QED BY <1>1, <3>3, <3>4 DEF Acked
    <2>2. SettledOnce'
      BY <1>1 DEF Acked, Asks, Settles
    <2>3. LossIsRaised'
      BY <1>1 DEF Acked, Asks, Settles
    <2>4. ResetBetweenMessages'
      BY <1>1 DEF Acked, Asks, Settles
    <2>5. StopsCollecting'
      BY <1>1 DEF Acked, Asks, Settles
    <2>6. StopIsKept'
      BY <1>1 DEF Acked, Asks, Settles
    <2>7. FetchInv'
      BY <1>1 DEF Acked, Asks, Settles
    <2>8. InHandInv'
      BY <1>1 DEF Acked, Asks, Settles
    <2>9. StopInv'
      BY <1>1 DEF Acked, Asks, Settles
    <2> QED BY <2>1, <2>2, <2>3, <2>4, <2>5, <2>6, <2>7, <2>8, <2>9
  <1>2. CASE Rejected
    <2>1. TypeOK'
      <3>1. inHand \in 1..taken
        BY <1>2 DEF Rejected
      <3>2. cutShort' = cutShort \/ cutShort' = cutShort \cup {inHand}
        BY <1>2 DEF Rejected, Settles
      <3>3. cutShort' \subseteq 1..taken'
        BY <1>2, <3>1, <3>2 DEF Rejected
      <3>4. attempts' \in [Messages -> Nat] /\ settled' \in [Messages -> {"none", "ack", "reject"}]
        BY <1>2, <3>1 DEF Rejected, Asks, Settles
      <3> QED BY <1>2, <3>3, <3>4 DEF Rejected
    <2>2. SettledOnce'
      BY <1>2 DEF Rejected, Asks, Settles
    <2>3. LossIsRaised'
      BY <1>2 DEF Rejected, Asks, Settles
    <2>4. ResetBetweenMessages'
      BY <1>2 DEF Rejected, Asks, Settles
    <2>5. StopsCollecting'
      BY <1>2 DEF Rejected, Asks, Settles
    <2>6. StopIsKept'
      BY <1>2 DEF Rejected, Asks, Settles
    <2>7. FetchInv'
      BY <1>2 DEF Rejected, Asks, Settles
    <2>8. InHandInv'
      BY <1>2 DEF Rejected, Asks, Settles
    <2>9. StopInv'
      BY <1>2 DEF Rejected, Asks, Settles
    <2> QED BY <2>1, <2>2, <2>3, <2>4, <2>5, <2>6, <2>7, <2>8, <2>9
  <1>3. CASE Reset
    BY <1>3 DEF Reset, Asks, Settles
  <1>4. CASE ResetBreaks
    BY <1>4 DEF ResetBreaks, Asks, Settles
  <1> QED BY <1>1, <1>2, <1>3, <1>4

\* The rest of run(), which has no message in hand.
LEMMA RunningKeeps ==
  ASSUME IndInv,
         StartedAnnounced \/ StartFails \/ NextStopped \/ RunningAnnounced \/ Finally
         \/ Closed \/ CloseBreaks \/ StoppedAnnounced
  PROVE  IndInv'
  <1> USE ConstantsAssumption
      DEF ConstantsAssumption, IndInv, TypeOK, SettledOnce, LossIsRaised, ResetBetweenMessages, StopsCollecting,
      StopIsKept, FetchInv, InHandInv, StopInv, Messages, Handling, Settling, Holding, Awaits,
      Consuming, Goes, Return, Raises, IsCancelled, Breaks, Continues, Untouched, stopping,
      counting, message
  <1>1. CASE StartedAnnounced
    BY <1>1 DEF StartedAnnounced
  <1>2. CASE StartFails
    BY <1>2 DEF StartFails
  <1>3. CASE NextStopped
    BY <1>3 DEF NextStopped
  <1>4. CASE RunningAnnounced
    BY <1>4 DEF RunningAnnounced
  <1>5. CASE Finally
    BY <1>5 DEF Finally
  <1>6. CASE Closed
    BY <1>6 DEF Closed
  <1>7. CASE CloseBreaks
    BY <1>7 DEF CloseBreaks
  <1>8. CASE StoppedAnnounced
    BY <1>8 DEF StoppedAnnounced
  <1> QED BY <1>1, <1>2, <1>3, <1>4, <1>5, <1>6, <1>7, <1>8

\* Every step keeps the invariant.
LEMMA NextIndInv == IndInv /\ [Next]_vars => IndInv'
  <1> SUFFICES ASSUME IndInv, [Next]_vars PROVE IndInv'
    OBVIOUS
  <1>1. CASE UNCHANGED vars
    BY <1>1
    DEF vars, stopping, counting, message, IndInv, TypeOK, SettledOnce, LossIsRaised,
        ResetBetweenMessages, StopsCollecting, StopIsKept, FetchInv, InHandInv, StopInv
  <1>2. CASE Next
    BY <1>2, StoppingKeeps, FetchingKeeps, HandlingKeeps, SettlingKeeps, RunningKeeps
    DEF Next, Loop
  <1> QED BY <1>1, <1>2

\* The inductive invariant holds throughout, whatever the receiver, the handlers and those
\* who stop or cancel the worker do.
THEOREM Inductive == Spec => []IndInv
  BY InitIndInv, NextIndInv, PTL DEF Spec

\* Type correctness of Worker.
THEOREM TypeCorrect == Spec => []TypeOK
  <1>1. IndInv => TypeOK
    BY DEF IndInv
  <1> QED BY <1>1, Inductive, PTL

\* Every message collected is settled once, is about to be, or was left unsettled by a
\* cancellation or a settlement that raised.
THEOREM EachSettledOnce == Spec => []SettledOnce
  <1>1. IndInv => SettledOnce
    BY DEF IndInv
  <1> QED BY <1>1, Inductive, PTL

\* A run that leaves a message unsettled raises.
THEOREM LossRaised == Spec => []LossIsRaised
  <1>1. IndInv => LossIsRaised
    BY DEF IndInv
  <1> QED BY <1>1, Inductive, PTL

\* Services are reset, or their reset raises, between any two messages.
THEOREM ResetEachTime == Spec => []ResetBetweenMessages
  <1>1. IndInv => ResetBetweenMessages
    BY DEF IndInv
  <1> QED BY <1>1, Inductive, PTL

\* The receiver is at rest whenever its stream is closed.
THEOREM RestBeforeClose == Spec => []AtRestWhenClosed
  <1>1. IndInv => AtRestWhenClosed
    BY DEF IndInv, FetchInv, AtRestWhenClosed
  <1> QED BY <1>1, Inductive, PTL

\* A stopped run collects at most the message it was fetching.
THEOREM StopEndsCollecting == Spec => []StopsCollecting
  <1>1. IndInv => StopsCollecting
    BY DEF IndInv
  <1> QED BY <1>1, Inductive, PTL

\* A stop asked for between runs is kept for the next one, unless an earlier run failed to
\* start.
THEOREM StopKept == Spec => []StopIsKept
  <1>1. IndInv => StopIsKept
    BY DEF IndInv
  <1> QED BY <1>1, Inductive, PTL
=============================================================================
