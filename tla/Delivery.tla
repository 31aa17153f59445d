------------------------------- MODULE Delivery -------------------------------
(***************************************************************************)
(* What a worker makes of the deliveries of a taskiq broker                *)
(* (bridge/taskiq: taskiq_sender.py, poison_message_receiver.py,           *)
(* binding.py, labels.py; _handling.py).                                   *)
(*                                                                         *)
(* A sender publishes a message once.  Each copy of it the broker holds is *)
(* a delivery: screened by the PoisonMessageReceiver, rebuilt and handled  *)
(* by the task bound to it, reset after, and then acted on by taskiq, which*)
(* is external: a task that raised has its message published again, one    *)
(* attempt on, unless that was the last; the delivery is acknowledged      *)
(* either way.  Deliveries are handled concurrently, one await at a time.  *)
(* A process that ends leaves what it did not acknowledge with the broker, *)
(* and another one begins over with it.                                    *)
(***************************************************************************)
EXTENDS Envelopes

CONSTANTS
  Messages,
  MaxAttempts,    \* bound: the most deliveries a broker is configured to make
  MaxDeliveries,  \* bound: the copies the broker ever holds
  MaxCrashes      \* bound: how often the worker's process ends

ASSUME ConstantsAssumption ==
  MaxAttempts \in Nat \ {0} /\ MaxDeliveries \in Nat /\ MaxCrashes \in Nat

VARIABLES
  config,      \* how broker and worker were set up
  sent,        \* each message, as it was published; [flaw |-> "unsent"] before
  deliveries,  \* the copies the broker holds or held, in the order published
  fates,       \* history: what became of each message, possibly several things
  crashes

vars == <<config, sent, deliveries, fates, crashes>>

\* receiver_names: the transport for each queue the broker consumes, "none" its default queue.
Bindings ==
  { <<>>, [q \in {"high"} |-> "priority"],
    [q \in {"none", "high"} |-> IF q = "high" THEN "priority" ELSE "async"] }

\* max_attempts is the broker's own limit where bind_bus is told one; with a quarantine, both
\* the receive loop and the binding are given a dead-letterer.
Configs ==
  [names: Bindings, attempts: 1..MaxAttempts, told: BOOLEAN,
   quarantine: BOOLEAN]

Init ==
  /\ config \in Configs
  /\ sent = [m \in Messages |-> [flaw |-> "unsent"]]
  /\ deliveries = <<>>
  /\ fates = [m \in Messages |-> {}]
  /\ crashes = 0

Became(m, fate) == fates' = [fates EXCEPT ![m] = @ \cup {fate}]

-----------------------------------------------------------------------------
(***************************************************************************)
(* Publishing: TaskiqSender.send, once the broker is started.              *)
(***************************************************************************)
QueueOf(transport) == IF transport = "priority" THEN "high" ELSE "none"

Transports == IF config.names = <<>> THEN {"async"} ELSE {config.names[q] : q \in DOMAIN config.names}

\* What may be wrong with a delivery, as the worker sees it: it does not parse, nobody
\* registered its task, its headers label is no object of strings, its type header names
\* no declared message or another than the task, its body or a stamp does not fit its class.
Unhandleable == {"unparsable", "untasked"}
Undecodable == {"headers", "undeclared", "mistyped", "body", "stamp"}

\* What an application may have left on the envelope: a delay, and what it was received with itself.
Carried == <<Stamp("Delay", 1), Stamp("Redelivery", MaxAttempts + 5), Stamp("Received", "elsewhere"), Stamp("Own", 1)>>

\* A retries label, as it arrives: a number, its text, or nothing one can read.
Label(form, count) == [form |-> form, count |-> count]
Readable(label) == label.form \in {"number", "text"}

Delivered(m, retries) ==
  [message |-> m, retries |-> retries, at |-> "queued", announced |-> "none", again |-> FALSE]

\* The message is published with no retries, or its delay is refused; the label may be lost on the way.
Send(m) ==
  /\ sent[m].flaw = "unsent"
  /\ \E flaw \in {"none"} \cup Unhandleable \cup Undecodable, via \in Transports, supportsDelay \in BOOLEAN :
       LET e == Envelope(m, Carried)
       IN  IF Carries(e, "Delay") /\ ~supportsDelay
           THEN /\ sent' = [sent EXCEPT ![m] = [flaw |-> "refused"]]
                /\ UNCHANGED deliveries
           ELSE /\ sent' = [sent EXCEPT ![m] =
                     [flaw |-> flaw, via |-> via, queue |-> QueueOf(via), stamps |-> EncodeStamps(e)]]
                /\ \E form \in {"text", "lost"} :
                     deliveries' = Append(deliveries, Delivered(m, Label(form, 0)))
  /\ UNCHANGED <<config, fates, crashes>>

-----------------------------------------------------------------------------
(***************************************************************************)
(* Reading a delivery.                                                     *)
(***************************************************************************)

\* A missing retries label counts as one attempt too many: _LOST_LABEL_ATTEMPT.
LostLabelAttempt == 1000000
AttemptFrom(d) == IF Readable(d.retries) THEN d.retries.count ELSE LostLabelAttempt

Names == config.names

\* One transport needs no lookup; a queue nobody named is reported as taskiq's.
ReceiverName(d) ==
  LET queue == sent[d.message].queue
  IN  IF \E name \in DOMAIN Names : DOMAIN Names = {name}
      THEN Names[CHOOSE name \in DOMAIN Names : TRUE]
      ELSE IF queue \in DOMAIN Names THEN Names[queue] ELSE "taskiq"

\* A faulty variant: what the delivery says comes before what travelled with the message.
RebuiltBehind(d) ==
  Envelope(d.message,
           <<Stamp("Received", ReceiverName(d)), Stamp("Redelivery", AttemptFrom(d))>>
           \o DecodeStamps(sent[d.message].stamps, DefaultStamps))

\* _rebuild: the stamps of this delivery come after those that travelled with the message.
Rebuilt(d) ==
  WithStamps(Envelope(d.message, DecodeStamps(sent[d.message].stamps, DefaultStamps)),
             <<Stamp("Received", ReceiverName(d)), Stamp("Redelivery", AttemptFrom(d))>>)

\* A faulty variant of will_retry: the limit is reached one attempt late.
RetriesOneMore(d) == config.told /\ LastOf(Rebuilt(d), "Redelivery") < config.attempts

\* will_retry: another delivery follows this failure, as far as the binding knows.
WillRetry(d) == config.told /\ LastOf(Rebuilt(d), "Redelivery") < config.attempts - 1

Flaw(d) == sent[d.message].flaw

-----------------------------------------------------------------------------
(***************************************************************************)
(* The steps of delivery i.                                                *)
(***************************************************************************)
At(i, place) == i \in DOMAIN deliveries /\ deliveries[i].at = place
Moves(i, place) == deliveries' = [deliveries EXCEPT ![i].at = place]

\* callback: poison is quarantined if there is somewhere to, and settled; the task of all else runs.
Receive(i) ==
  /\ At(i, "queued")
  /\ IF Flaw(deliveries[i]) \notin Unhandleable THEN Moves(i, "rebuilding")
     ELSE IF config.quarantine THEN Moves(i, "poisoned") ELSE Moves(i, "settling")
  /\ UNCHANGED <<config, sent, fates, crashes>>

\* A faulty variant: a poison delivery is settled whether or not its quarantine succeeded.
SettledAnyway(i) ==
  /\ At(i, "poisoned")
  /\ Moves(i, "settling")
  /\ Became(deliveries[i].message, "quarantined") \/ UNCHANGED fates
  /\ UNCHANGED <<config, sent, crashes>>

\* Another: a delivery whose quarantine raised is given back at once, to be delivered again.
GivenBack(i) ==
  /\ At(i, "poisoned")
  /\ \/ Moves(i, "settling") /\ Became(deliveries[i].message, "quarantined")
     \/ Moves(i, "queued") /\ UNCHANGED fates
  /\ UNCHANGED <<config, sent, crashes>>

\* The poison dead-letterer: where it raises, the delivery stays with the broker, unsettled.
QuarantinePoison(i) ==
  /\ At(i, "poisoned")
  /\ \/ Moves(i, "settling") /\ Became(deliveries[i].message, "quarantined")
     \/ Moves(i, "stuck") /\ UNCHANGED fates
  /\ UNCHANGED <<config, sent, crashes>>

\* The message is decoded, or goes to the dead-letterer of the binding, or the failure is raised.
Rebuild(i) ==
  /\ At(i, "rebuilding")
  /\ IF Flaw(deliveries[i]) \notin Undecodable THEN Moves(i, "handling")
     ELSE IF config.quarantine THEN Moves(i, "undecoded") ELSE Moves(i, "raising")
  /\ UNCHANGED <<config, sent, fates, crashes>>

\* A dead-letterer that raises fails the task, which is then retried like any other.
QuarantineUndecodable(i) ==
  /\ At(i, "undecoded")
  /\ \/ Moves(i, "returning") /\ Became(deliveries[i].message, "quarantined")
     \/ Moves(i, "raising") /\ UNCHANGED fates
  /\ UNCHANGED <<config, sent, crashes>>

\* handle: a listener skips the message; the bus handles it; it, or a listener before or
\* after it, raises - the handlers ran, then, all the same.
Handle(i) ==
  /\ At(i, "handling")
  /\ \/ Moves(i, "returning") /\ \E fate \in {"skipped", "handled"} : Became(deliveries[i].message, fate)
     \/ Moves(i, "failed") /\ (Became(deliveries[i].message, "handled") \/ UNCHANGED fates)
  /\ UNCHANGED <<config, sent, crashes>>

\* The failure is announced, and raised; a listener that raises has its own error raised.
Announce(i) ==
  /\ At(i, "failed")
  /\ deliveries' = [deliveries EXCEPT ![i].at = "raising",
                      ![i].announced = IF WillRetry(deliveries[i]) THEN "again" ELSE "last"]
  /\ UNCHANGED <<config, sent, fates, crashes>>

\* `finally`: services are reset; a reset that raises fails the task, whatever became of the message.
ResetServices(i) ==
  /\ \/ At(i, "returning") /\ (Moves(i, "settling") \/ Moves(i, "retrying"))
     \/ At(i, "raising") /\ Moves(i, "retrying")
  /\ UNCHANGED <<config, sent, fates, crashes>>

\* External: the retry policy reads the label the worker reads; one that is lost was 0, as it reads it.
Attempts(d) == d.retries.count + 1

\* External: the message of a task that raised is published again, or its attempts are over.
Retry(i) ==
  /\ At(i, "retrying")
  /\ LET d == deliveries[i]
     IN  IF Attempts(d) < config.attempts
         THEN /\ Len(deliveries) < MaxDeliveries
              /\ deliveries' = Append([deliveries EXCEPT ![i].at = "settling", ![i].again = TRUE],
                                      Delivered(d.message, Label("number", Attempts(d))))
              /\ UNCHANGED fates
         ELSE Moves(i, "settling") /\ Became(d.message, "exhausted")
  /\ UNCHANGED <<config, sent, crashes>>

\* External: the delivery is acknowledged; for poison, by the callback itself.
Acknowledge(i) ==
  /\ At(i, "settling")
  /\ Moves(i, "gone")
  /\ UNCHANGED <<config, sent, fates, crashes>>

\* External: the process ends; the broker delivers again what was not acknowledged.
Crash ==
  /\ crashes < MaxCrashes
  /\ crashes' = crashes + 1
  /\ deliveries' = [i \in DOMAIN deliveries |->
       IF At(i, "gone") THEN deliveries[i] ELSE Delivered(deliveries[i].message, deliveries[i].retries)]
  /\ UNCHANGED <<config, sent, fates>>

-----------------------------------------------------------------------------
Step(i) ==
  \/ Receive(i) \/ QuarantinePoison(i) \/ Rebuild(i) \/ QuarantineUndecodable(i)
  \/ Handle(i) \/ Announce(i) \/ ResetServices(i) \/ Retry(i) \/ Acknowledge(i)

Next == (\E m \in Messages : Send(m)) \/ (\E i \in DOMAIN deliveries : Step(i)) \/ Crash

Spec == Init /\ [][Next]_vars

\* Dead-letterers, handlers, listeners and resets return or raise; the broker delivers and settles.
FairSpec == Spec /\ WF_vars(\E i \in DOMAIN deliveries : Step(i))

-----------------------------------------------------------------------------
(***************************************************************************)
(* Properties.                                                             *)
(***************************************************************************)
Published(m) == sent[m].flaw \notin {"unsent", "refused"}
Held(m) == \E i \in DOMAIN deliveries : deliveries[i].message = m /\ ~At(i, "gone")

\* A message leaves the broker for good only handled, skipped by a listener, quarantined or
\* at the end of its attempts - whatever fails or ends between two of these steps - or as
\* poison for which no quarantine was configured.
NothingDropped ==
  \A m \in Messages : Published(m) /\ ~Held(m) =>
    fates[m] # {} \/ (sent[m].flaw \in Unhandleable /\ ~config.quarantine)

\* "will_retry says whether another attempt follows": once a failed delivery is settled, its
\* message was published again if that was announced, and not if the binding, told the
\* limit and shown the attempt, announced that it was the last.
RetryAsAnnounced ==
  \A i \in DOMAIN deliveries :
    LET d == deliveries[i]
    IN  At(i, "gone") => /\ d.announced = "again" => d.again
                         /\ d.announced = "last" /\ config.told /\ Readable(d.retries) => ~d.again

\* What is handled is said to come from the transport it was published to, at the attempt
\* the broker is at, whatever the envelope it was published in had gone through before;
\* stamps the producer's process kept to itself, or the worker never declared, are not on it.
HeardAsSent ==
  \A i \in DOMAIN deliveries : At(i, "handling") =>
    LET e == Rebuilt(deliveries[i])
    IN  /\ LastOf(e, "Received") = IF Names = <<>> THEN "taskiq" ELSE sent[deliveries[i].message].via
        /\ Readable(deliveries[i].retries) => LastOf(e, "Redelivery") + 1 = Attempts(deliveries[i])
        /\ Cardinality({k \in DOMAIN e.stamps : IsA(e.stamps[k], "Received")}) = 1
        /\ ~Carries(e, "Own")

\* Every delivery is settled in the end, but poison whose quarantine raised: no failure, of
\* decoding above all, has a message delivered over and over.
DeliveriesEnd ==
  \A i \in 1..MaxDeliveries : At(i, "queued") ~> (At(i, "gone") \/ At(i, "stuck"))
=============================================================================
