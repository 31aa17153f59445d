--------------------------- MODULE Delivery_proofs ---------------------------
(***************************************************************************)
(* Proofs about Delivery, for any number of messages, attempts, deliveries *)
(* and crashes, and whatever the order in which deliveries are handled.    *)
(***************************************************************************)
EXTENDS Delivery, Envelopes_proofs

\* What travels with each message, as the worker decodes it.
Travelled(m) == DecodeStamps(EncodeStamps(Envelope(m, Carried)), DefaultStamps)

Flaws == {"none"} \cup Unhandleable \cup Undecodable

\* A message as Send publishes it.
PublishedAs(m, flaw, via) ==
  [flaw |-> flaw, via |-> via, queue |-> QueueOf(via),
   stamps |-> EncodeStamps(Envelope(m, Carried))]

Unsent == [flaw |-> "unsent"]
Refused == [flaw |-> "refused"]

SentAs(m) ==
  {Unsent, Refused} \cup {PublishedAs(m, flaw, via) : flaw \in Flaws, via \in Transports}

Places ==
  {"queued", "poisoned", "stuck", "rebuilding", "undecoded", "handling", "failed",
   "raising", "returning", "retrying", "settling", "gone"}

Deliveries ==
  [message : Messages, retries : [form : {"number", "text", "lost"}, count : Nat],
   at : Places, announced : {"none", "again", "last"}, again : BOOLEAN]

TypeOK ==
  /\ config \in Configs
  /\ DOMAIN sent = Messages
  /\ \A m \in Messages : sent[m] \in SentAs(m)
  /\ deliveries \in Seq(Deliveries)
  /\ fates \in [Messages -> SUBSET {"quarantined", "skipped", "handled", "exhausted"}]
  /\ crashes \in Nat

\* What the broker delivers was published; a label that is lost was a 0.
OfPublished ==
  \A i \in DOMAIN deliveries :
    /\ Published(deliveries[i].message)
    /\ deliveries[i].retries.form = "lost" => deliveries[i].retries.count = 0

\* Something became of a message whose task is about to return.
ReturnsDecided ==
  \A i \in DOMAIN deliveries :
    deliveries[i].at = "returning" => fates[deliveries[i].message] # {}

Settled == {"settling", "gone"}

\* What is enough for a message to leave the broker.
Decided(m) == fates[m] # {} \/ (sent[m].flaw \in Unhandleable /\ ~config.quarantine)

\* Until then, a delivery of the message is not settled.
UnsettledUntilDecided ==
  \A m \in Messages : Published(m) /\ ~Decided(m) =>
    \E i \in DOMAIN deliveries :
      deliveries[i].message = m /\ deliveries[i].at \notin Settled

\* Whether the broker makes another attempt once the task of d raised.
AnotherAttempt(d) == Attempts(d) < config.attempts

\* What the binding announces of a failure, and what the broker then does.
AsMade(d) ==
  LET foreseen == config.told /\ AttemptFrom(d) < config.attempts - 1
  IN  /\ d.announced # "none" => d.at \in {"raising", "retrying"} \cup Settled
      /\ d.announced = "again" => foreseen
      /\ d.announced = "last" => ~foreseen
      /\ d.again => d.at \in Settled /\ AnotherAttempt(d)
      /\ d.announced # "none" /\ d.at \in Settled => d.again = AnotherAttempt(d)

AnnouncedAsMade == \A i \in DOMAIN deliveries : AsMade(deliveries[i])

\* The inductive invariant.
IndInv == /\ TypeOK /\ OfPublished /\ ReturnsDecided
          /\ UnsettledUntilDecided /\ AnnouncedAsMade

-----------------------------------------------------------------------------
(***************************************************************************)
(* What a delivery is said to be.                                          *)
(***************************************************************************)

\* What travels with a message is a sequence of stamps of the classes every serializer knows.
LEMMA TravelledStamps ==
  ASSUME NEW m
  PROVE  \E S : /\ Travelled(m) \in Seq(S)
                /\ \A n \in DOMAIN Travelled(m) : Travelled(m)[n].type \in DefaultStamps
  <1> DEFINE e == Envelope(m, Carried)
  <1>1. DOMAIN e.stamps = 1..4 /\ 4 \in Nat
    BY DEF Envelope, Carried
  <1> HIDE DEF e
  <1>2. PICK l \in Nat : DOMAIN EncodeStamps(e) = 1..l
    BY <1>1, EncodedLength
  <1>3. /\ DecodeStamps(EncodeStamps(e), DefaultStamps) \in Seq({EncodeStamps(e)[i] : i \in 1..l})
        /\ \A n \in DOMAIN DecodeStamps(EncodeStamps(e), DefaultStamps) :
             DecodeStamps(EncodeStamps(e), DefaultStamps)[n].type \in DefaultStamps
    BY <1>2, DecodedStamps
  <1> QED BY <1>3 DEF Travelled, e

\* The stamps of a delivery as it is rebuilt: what travelled, then the two _rebuild adds.
LEMMA RebuiltStamps ==
  ASSUME TypeOK, NEW i \in DOMAIN deliveries, Published(deliveries[i].message)
  PROVE  LET d == deliveries[i]
             u == Rebuilt(d).stamps
         IN  \E n \in Nat :
               /\ Len(u) = n + 2 /\ DOMAIN u = 1..(n + 2)
               /\ \A k \in 1..n : u[k].type \in DefaultStamps
               /\ u[n + 1] = Stamp("Received", ReceiverName(d))
               /\ u[n + 2] = Stamp("Redelivery", AttemptFrom(d))
  <1> DEFINE d == deliveries[i]
             t == DecodeStamps(sent[d.message].stamps, DefaultStamps)
             added == <<Stamp("Received", ReceiverName(d)), Stamp("Redelivery", AttemptFrom(d))>>
  <1>1. d \in Deliveries /\ d.message \in Messages
    <2>1. deliveries \in Seq(Deliveries)
      BY DEF TypeOK
    <2>2. deliveries[i] \in Deliveries
      BY <2>1, ElementOfSeq
    <2> QED BY <2>2 DEF Deliveries
  <1>2. sent[d.message].stamps = EncodeStamps(Envelope(d.message, Carried))
    BY <1>1 DEF TypeOK, SentAs, PublishedAs, Published, Unsent, Refused
  <1>3. t = Travelled(d.message)
    BY <1>2 DEF Travelled
  <1>4. \E S : /\ t \in Seq(S)
               /\ \A n \in DOMAIN t : t[n].type \in DefaultStamps
    <2>1. \A m : \E S : /\ Travelled(m) \in Seq(S)
                        /\ \A n \in DOMAIN Travelled(m) : Travelled(m)[n].type \in DefaultStamps
      BY TravelledStamps
    <2> QED BY <1>3, <2>1
  <1>5. Rebuilt(d).stamps = t \o added
    BY DEF Rebuilt, WithStamps, Envelope
  <1> HIDE DEF t
  <1>6. PICK S : t \in Seq(S) /\ \A n \in DOMAIN t : t[n].type \in DefaultStamps
    BY <1>4
  <1>7. /\ Len(added) = 2
        /\ added[1] = Stamp("Received", ReceiverName(d))
        /\ added[2] = Stamp("Redelivery", AttemptFrom(d))
    OBVIOUS
  <1>8. added \in Seq({added[1], added[2]})
    OBVIOUS
  <1> HIDE DEF added
  <1> DEFINE T == S \cup {added[1], added[2]}
  <1>9. t \in Seq(T) /\ added \in Seq(T)
    BY <1>6, <1>8, SeqMonotonic
  <1>10. Len(t) \in Nat /\ DOMAIN t = 1..Len(t)
    BY <1>6
  <1> HIDE DEF T
  <1>11. /\ t \o added \in Seq(T) /\ Len(t \o added) = Len(t) + 2
         /\ \A k \in 1..(Len(t) + 2) :
              (t \o added)[k] = IF k <= Len(t) THEN t[k] ELSE added[k - Len(t)]
    <2>1. /\ t \o added \in Seq(T) /\ Len(t \o added) = Len(t) + Len(added)
          /\ \A k \in 1..(Len(t) + Len(added)) :
               (t \o added)[k] = IF k <= Len(t) THEN t[k] ELSE added[k - Len(t)]
      BY <1>9, ConcatProperties, Zenon
    <2> QED BY <1>7, <2>1
  <1>12. DOMAIN (t \o added) = 1..(Len(t) + 2)
    BY <1>11
  <1>13. /\ \A k \in 1..Len(t) : (t \o added)[k].type \in DefaultStamps
         /\ (t \o added)[Len(t) + 1] = added[1]
         /\ (t \o added)[Len(t) + 2] = added[2]
    BY <1>6, <1>10, <1>11
  <1> QED BY <1>5, <1>7, <1>10, <1>11, <1>12, <1>13

\* A delivery is reported as its queue and its label say, once: what the message carries of an
\* earlier journey, or of its own process, is not read.
LEMMA HeardFrom ==
  ASSUME TypeOK, NEW i \in DOMAIN deliveries, Published(deliveries[i].message)
  PROVE  LET d == deliveries[i]
             e == Rebuilt(d)
         IN  /\ LastOf(e, "Received") = ReceiverName(d)
             /\ LastOf(e, "Redelivery") = AttemptFrom(d)
             /\ Cardinality({k \in DOMAIN e.stamps : IsA(e.stamps[k], "Received")}) = 1
             /\ ~Carries(e, "Own")
  <1> DEFINE d == deliveries[i]
             e == Rebuilt(d)
             u == e.stamps
             name == ReceiverName(d)
             attempt == AttemptFrom(d)
  <1>1. PICK n \in Nat :
          /\ Len(u) = n + 2 /\ DOMAIN u = 1..(n + 2)
          /\ \A k \in 1..n : u[k].type \in DefaultStamps
          /\ u[n + 1] = Stamp("Received", name)
          /\ u[n + 2] = Stamp("Redelivery", attempt)
    BY RebuiltStamps
  <1> DEFINE received == {k \in 1..Len(u) : IsA(u[k], "Received")}
             redelivered == {k \in 1..Len(u) : IsA(u[k], "Redelivery")}
  <1> HIDE DEF e, name, attempt
  <1>2. /\ u[n + 1].type = "Received" /\ u[n + 1].value = name
        /\ u[n + 2].type = "Redelivery" /\ u[n + 2].value = attempt
    BY <1>1 DEF Stamp
  <1>3. \A k \in 1..(n + 2) : k \in 1..n \/ k = n + 1 \/ k = n + 2
    OBVIOUS
  <1>4. \A k \in 1..n : u[k].type # "Received" /\ u[k].type # "Own"
    BY <1>1 DEF DefaultStamps
  <1>5. received = {n + 1}
    BY <1>1, <1>2, <1>3, <1>4 DEF IsA
  <1>6. /\ redelivered \subseteq 1..(n + 2)
        /\ n + 2 \in redelivered
    BY <1>1, <1>2 DEF IsA
  <1>7. LastOf(e, "Received") = name
    <2>1. SelectLastInSeq(u, LAMBDA s : IsA(s, "Received")) = n + 1
      BY <1>5 DEF SelectLastInSeq, Max
    <2> QED BY <2>1, <1>2 DEF LastOf
  <1>8. LastOf(e, "Redelivery") = attempt
    <2>1. SelectLastInSeq(u, LAMBDA s : IsA(s, "Redelivery")) = n + 2
      <3>1. Max(redelivered) = n + 2
        BY <1>6 DEF Max
      <3> QED BY <1>6, <3>1 DEF SelectLastInSeq
    <2> QED BY <2>1, <1>2 DEF LastOf
  <1>9. Cardinality({k \in DOMAIN u : IsA(u[k], "Received")}) = 1
    BY <1>1, <1>5, FS_Singleton
  <1>10. ~Carries(e, "Own")
    BY <1>1, <1>2, <1>3, <1>4 DEF Carries, IsA
  <1> QED BY <1>7, <1>8, <1>9, <1>10 DEF e, name, attempt

-----------------------------------------------------------------------------
(***************************************************************************)
(* The invariant is inductive.                                             *)
(***************************************************************************)
Fates == SUBSET {"quarantined", "skipped", "handled", "exhausted"}

LEMMA InitInv == Init => IndInv
  BY DEF Init, IndInv, TypeOK, OfPublished, ReturnsDecided, UnsettledUntilDecided,
         AnnouncedAsMade, SentAs, Unsent, Published, Fates

\* What was published stays so; what became of a message stays.
LEMMA Kept ==
  ASSUME UNCHANGED <<config, sent>>, NEW m
  PROVE  /\ Published(m)' = Published(m)
         /\ SentAs(m)' = SentAs(m)
         /\ Decided(m)' = (fates'[m] # {} \/ (sent[m].flaw \in Unhandleable /\ ~config.quarantine))
  BY DEF Published, SentAs, PublishedAs, QueueOf, Transports, Decided

\* Every delivery is one of the broker's.
LEMMA DeliveryOf ==
  ASSUME deliveries \in Seq(Deliveries), NEW i \in DOMAIN deliveries
  PROVE  deliveries[i] \in Deliveries /\ deliveries[i].message \in Messages
  <1>1. deliveries[i] \in Deliveries
    BY ElementOfSeq
  <1> QED BY <1>1 DEF Deliveries

\* A step keeps the invariant that leaves each delivery its message, publishes again what was
\* published, settles a delivery only once its message is decided or about to be delivered
\* again, and announces as AsMade says.
LEMMA Evolved ==
  ASSUME IndInv, UNCHANGED <<config, sent>>, crashes' \in Nat,
         fates' \in [Messages -> Fates], \A m \in Messages : fates[m] \subseteq fates'[m],
         deliveries' \in Seq(Deliveries), DOMAIN deliveries \subseteq DOMAIN deliveries',
         \A j \in DOMAIN deliveries' :
           /\ \E k \in DOMAIN deliveries : deliveries[k].message = deliveries'[j].message
           /\ deliveries'[j].retries.form = "lost" => deliveries'[j].retries.count = 0
           /\ deliveries'[j].at = "returning" => fates'[deliveries'[j].message] # {}
           /\ AsMade(deliveries'[j]),
         \A j \in DOMAIN deliveries :
           /\ deliveries'[j].message = deliveries[j].message
           /\ \/ deliveries'[j].at \notin Settled
              \/ deliveries[j].at \in Settled
              \/ Decided(deliveries[j].message)'
              \/ \E k \in DOMAIN deliveries' : /\ deliveries'[k].message = deliveries[j].message
                                               /\ deliveries'[k].at \notin Settled
  PROVE  IndInv'
  <1>1. TypeOK'
    <2>1. \A m \in Messages : SentAs(m)' = SentAs(m)
      BY Kept
    <2>2. config' \in Configs /\ DOMAIN sent' = Messages
      BY DEF IndInv, TypeOK
    <2>3. \A m \in Messages : sent'[m] \in SentAs(m)'
      BY <2>1 DEF IndInv, TypeOK
    <2> QED BY <2>2, <2>3 DEF TypeOK, Fates
  <1>2. OfPublished'
    BY DEF IndInv, OfPublished, Published
  <1>3. ReturnsDecided'
    BY DEF ReturnsDecided
  <1>4. UnsettledUntilDecided'
    <2> SUFFICES ASSUME NEW m \in Messages, Published(m)', ~Decided(m)'
                 PROVE  \E j \in DOMAIN deliveries' :
                          deliveries'[j].message = m /\ deliveries'[j].at \notin Settled
      BY DEF UnsettledUntilDecided, Settled
    <2>1. Published(m) /\ ~Decided(m)
      BY Kept DEF Decided
    <2>2. PICK j \in DOMAIN deliveries : deliveries[j].message = m /\ deliveries[j].at \notin Settled
      BY <2>1 DEF IndInv, UnsettledUntilDecided
    <2> QED BY <2>2
  <1>5. AnnouncedAsMade'
    BY DEF AnnouncedAsMade, AsMade, AnotherAttempt, Attempts, AttemptFrom
  <1> QED BY <1>1, <1>2, <1>3, <1>4, <1>5 DEF IndInv

\* In particular, one delivery moves on.
LEMMA OneChanged ==
  ASSUME IndInv, UNCHANGED <<config, sent, crashes>>,
         NEW i \in DOMAIN deliveries, NEW c \in Deliveries,
         deliveries' = [deliveries EXCEPT ![i] = c],
         c.message = deliveries[i].message, c.retries = deliveries[i].retries,
         fates' \in [Messages -> Fates], \A m \in Messages : fates[m] \subseteq fates'[m],
         c.at = "returning" => fates'[c.message] # {},
         c.at \in Settled => Decided(c.message)' \/ deliveries[i].at \in Settled,
         AsMade(c)
  PROVE  IndInv'
  <1>1. deliveries \in Seq(Deliveries)
    BY DEF IndInv, TypeOK
  <1>2. /\ deliveries' \in Seq(Deliveries) /\ DOMAIN deliveries' = DOMAIN deliveries
        /\ deliveries'[i] = c
        /\ \A j \in DOMAIN deliveries : j # i => deliveries'[j] = deliveries[j]
    BY <1>1, ExceptSeq
  <1>3. \A j \in DOMAIN deliveries : deliveries[j].message \in Messages
    BY <1>1, DeliveryOf
  <1>4. \A j \in DOMAIN deliveries : /\ deliveries'[j].message = deliveries[j].message
                                     /\ deliveries'[j].retries = deliveries[j].retries
    BY <1>2
  <1>5. \A j \in DOMAIN deliveries' :
          /\ \E k \in DOMAIN deliveries : deliveries[k].message = deliveries'[j].message
          /\ deliveries'[j].retries.form = "lost" => deliveries'[j].retries.count = 0
    BY <1>2, <1>4 DEF IndInv, OfPublished
  <1>6. \A j \in DOMAIN deliveries' : deliveries'[j].at = "returning" => fates'[deliveries'[j].message] # {}
    BY <1>2, <1>3 DEF IndInv, ReturnsDecided
  <1>7. \A j \in DOMAIN deliveries' : AsMade(deliveries'[j])
    BY <1>2 DEF IndInv, AnnouncedAsMade
  <1>8. \A j \in DOMAIN deliveries : \/ deliveries'[j].at \notin Settled
                                     \/ deliveries[j].at \in Settled
                                     \/ Decided(deliveries[j].message)'
    <2> SUFFICES ASSUME NEW j \in DOMAIN deliveries
                 PROVE  \/ deliveries'[j].at \notin Settled
                        \/ deliveries[j].at \in Settled
                        \/ Decided(deliveries[j].message)'
      OBVIOUS
    <2>1. CASE j = i
      BY <2>1, <1>2 DEF Decided
    <2>2. CASE j # i
      BY <2>2, <1>2
    <2> QED BY <2>1, <2>2
  <1>9. crashes' \in Nat
    BY DEF IndInv, TypeOK
  <1> QED BY <1>2, <1>4, <1>5, <1>6, <1>7, <1>8, <1>9, Evolved

\* A move of one delivery, from where nothing was announced yet, or to the end of what was.
LEMMA MovesOn ==
  ASSUME IndInv, UNCHANGED <<config, sent, crashes>>,
         NEW i \in DOMAIN deliveries, NEW place \in Places, Moves(i, place),
         NEW m \in Messages, deliveries[i].message = m,
         fates' \in [Messages -> Fates], \A n \in Messages : fates[n] \subseteq fates'[n],
         place = "returning" => fates'[m] # {},
         place \in Settled => Decided(m)' \/ deliveries[i].at \in Settled,
         \/ deliveries[i].at \notin {"raising", "retrying"} \cup Settled
         \/ deliveries[i].at = "raising" /\ place = "retrying"
         \/ deliveries[i].at = "retrying" /\ place = "settling" /\ ~AnotherAttempt(deliveries[i])
         \/ deliveries[i].at \in Settled /\ place \in Settled
  PROVE  IndInv'
  <1>1. deliveries \in Seq(Deliveries)
    BY DEF IndInv, TypeOK
  <1>2. deliveries[i] \in Deliveries
    BY <1>1, DeliveryOf
  <1>3. AsMade(deliveries[i])
    BY DEF IndInv, AnnouncedAsMade
  <1>4. PICK c : c = [deliveries[i] EXCEPT !.at = place]
    OBVIOUS
  <1>5. /\ c \in Deliveries /\ c.at = place
        /\ c.message = deliveries[i].message /\ c.retries = deliveries[i].retries
        /\ c.announced = deliveries[i].announced /\ c.again = deliveries[i].again
        /\ c.again \in BOOLEAN
    BY <1>2, <1>4 DEF Deliveries
  <1>6. deliveries' = [deliveries EXCEPT ![i] = c]
    BY <1>4 DEF Moves
  <1>7. AsMade(c)
    BY <1>3, <1>5 DEF AsMade, AnotherAttempt, Attempts, AttemptFrom, Settled
  <1>8. /\ c.at = "returning" => fates'[c.message] # {}
        /\ c.at \in Settled => Decided(c.message)' \/ deliveries[i].at \in Settled
    BY <1>5 DEF Decided
  <1> QED BY <1>5, <1>6, <1>7, <1>8, OneChanged

\* What becomes of a message is added to what became of it.
LEMMA BecameMore ==
  ASSUME fates \in [Messages -> Fates], NEW m \in Messages,
         NEW fate \in {"quarantined", "skipped", "handled", "exhausted"}, Became(m, fate)
  PROVE  /\ fates' \in [Messages -> Fates] /\ fates'[m] # {}
         /\ \A n \in Messages : fates[n] \subseteq fates'[n]
  <1>1. fates' \in [Messages -> Fates]
    BY DEF Became, Fates
  <1>2. \A n \in Messages : fates'[n] = IF n = m THEN fates[n] \cup {fate} ELSE fates[n]
    BY DEF Became
  <1> QED BY <1>1, <1>2

\* The steps of a delivery that move it on, each from its place.
LEMMA StepMoves ==
  ASSUME IndInv, NEW i \in DOMAIN deliveries,
         \/ Receive(i) \/ QuarantinePoison(i) \/ Rebuild(i) \/ QuarantineUndecodable(i)
         \/ Handle(i) \/ ResetServices(i) \/ Acknowledge(i)
  PROVE  IndInv'
  <1> PICK m \in Messages : deliveries[i].message = m
    BY DeliveryOf DEF IndInv, TypeOK
  <1>1. /\ fates \in [Messages -> Fates]
        /\ \A n \in Messages : fates[n] \subseteq fates[n]
    BY DEF IndInv, TypeOK, Fates
  <1>2. CASE Receive(i)
    <2>1. PICK place \in {"rebuilding", "poisoned", "settling"} :
            /\ Moves(i, place)
            /\ place = "settling" => Flaw(deliveries[i]) \in Unhandleable /\ ~config.quarantine
      BY <1>2 DEF Receive
    <2>2. deliveries[i].at = "queued" /\ UNCHANGED <<config, sent, fates, crashes>>
      BY <1>2 DEF Receive, At
    <2>3. place \in Settled => Decided(m)'
      BY <2>1, <2>2 DEF Settled, Decided, Flaw
    <2> QED BY <1>1, <2>1, <2>2, <2>3, MovesOn DEF Places, Settled
  <1>3. CASE QuarantinePoison(i)
    <2>1. deliveries[i].at = "poisoned" /\ UNCHANGED <<config, sent, crashes>>
      BY <1>3 DEF QuarantinePoison, At
    <2>2. CASE Moves(i, "settling") /\ Became(m, "quarantined")
      <3>1. /\ fates' \in [Messages -> Fates] /\ fates'[m] # {}
            /\ \A n \in Messages : fates[n] \subseteq fates'[n]
        BY <1>1, <2>2, BecameMore
      <3>2. Decided(m)'
        BY <3>1 DEF Decided
      <3> QED BY <2>1, <2>2, <3>1, <3>2, MovesOn DEF Places, Settled
    <2>3. CASE Moves(i, "stuck") /\ UNCHANGED fates
      BY <1>1, <2>1, <2>3, MovesOn DEF Places, Settled
    <2> QED BY <1>3, <2>2, <2>3 DEF QuarantinePoison
  <1>4. CASE Rebuild(i)
    <2>1. PICK place \in {"handling", "undecoded", "raising"} : Moves(i, place)
      BY <1>4 DEF Rebuild
    <2>2. deliveries[i].at = "rebuilding" /\ UNCHANGED <<config, sent, fates, crashes>>
      BY <1>4 DEF Rebuild, At
    <2> QED BY <1>1, <2>1, <2>2, MovesOn DEF Places, Settled
  <1>5. CASE QuarantineUndecodable(i)
    <2>1. deliveries[i].at = "undecoded" /\ UNCHANGED <<config, sent, crashes>>
      BY <1>5 DEF QuarantineUndecodable, At
    <2>2. CASE Moves(i, "returning") /\ Became(m, "quarantined")
      <3>1. /\ fates' \in [Messages -> Fates] /\ fates'[m] # {}
            /\ \A n \in Messages : fates[n] \subseteq fates'[n]
        BY <1>1, <2>2, BecameMore
      <3> QED BY <2>1, <2>2, <3>1, MovesOn DEF Places, Settled
    <2>3. CASE Moves(i, "raising") /\ UNCHANGED fates
      BY <1>1, <2>1, <2>3, MovesOn DEF Places, Settled
    <2> QED BY <1>5, <2>2, <2>3 DEF QuarantineUndecodable
  <1>6. CASE Handle(i)
    <2>1. deliveries[i].at = "handling" /\ UNCHANGED <<config, sent, crashes>>
      BY <1>6 DEF Handle, At
    <2>2. ASSUME NEW fate \in {"skipped", "handled"}, NEW place \in {"returning", "failed"},
                 Moves(i, place), Became(m, fate)
          PROVE  IndInv'
      <3>1. /\ fates' \in [Messages -> Fates] /\ fates'[m] # {}
            /\ \A n \in Messages : fates[n] \subseteq fates'[n]
        BY <1>1, <2>2, BecameMore
      <3> QED BY <2>1, <2>2, <3>1, MovesOn DEF Places, Settled
    <2>3. CASE Moves(i, "failed") /\ UNCHANGED fates
      BY <1>1, <2>1, <2>3, MovesOn DEF Places, Settled
    <2> QED BY <1>6, <2>2, <2>3 DEF Handle
  <1>7. CASE ResetServices(i)
    <2>1. UNCHANGED <<config, sent, fates, crashes>>
      BY <1>7 DEF ResetServices
    <2>2. CASE deliveries[i].at = "returning"
      <3>1. PICK place \in {"settling", "retrying"} : Moves(i, place)
        BY <1>7, <2>2 DEF ResetServices, At
      <3>2. Decided(m)'
        BY <2>1, <2>2 DEF IndInv, ReturnsDecided, Decided
      <3> QED BY <1>1, <2>1, <2>2, <3>1, <3>2, MovesOn DEF Places, Settled
    <2>3. CASE deliveries[i].at = "raising" /\ Moves(i, "retrying")
      BY <1>1, <2>1, <2>3, MovesOn DEF Places, Settled
    <2> QED BY <1>7, <2>2, <2>3 DEF ResetServices, At
  <1>8. CASE Acknowledge(i)
    <2>1. /\ deliveries[i].at = "settling" /\ Moves(i, "gone")
          /\ UNCHANGED <<config, sent, fates, crashes>>
      BY <1>8 DEF Acknowledge, At
    <2> QED BY <1>1, <2>1, MovesOn DEF Places, Settled
  <1> QED BY <1>2, <1>3, <1>4, <1>5, <1>6, <1>7, <1>8

\* What is announced is what the broker's policy will decide, as far as the binding can tell.
LEMMA AnnounceKeeps ==
  ASSUME IndInv, NEW i \in DOMAIN deliveries, Announce(i)
  PROVE  IndInv'
  <1> DEFINE d == deliveries[i]
             foreseen == config.told /\ AttemptFrom(d) < config.attempts - 1
  <1>1. /\ deliveries \in Seq(Deliveries) /\ fates \in [Messages -> Fates]
        /\ \A m \in Messages : fates[m] \subseteq fates[m]
    BY DEF IndInv, TypeOK, Fates
  <1>2. d \in Deliveries
    BY <1>1, DeliveryOf
  <1>3. d.at = "failed" /\ UNCHANGED <<config, sent, fates, crashes>>
    BY DEF Announce, At
  <1>4. Published(d.message)
    BY DEF IndInv, OfPublished
  <1>5. WillRetry(d) <=> foreseen
    <2>1. LastOf(Rebuilt(d), "Redelivery") = AttemptFrom(d)
      BY <1>4, HeardFrom DEF IndInv
    <2> QED BY <2>1 DEF WillRetry
  <1>6. PICK c : c = [d EXCEPT !.at = "raising", !.announced = IF WillRetry(d) THEN "again" ELSE "last"]
    OBVIOUS
  <1>7. deliveries' = [deliveries EXCEPT ![i] = c]
    BY <1>6 DEF Announce
  <1>8. /\ c.at = "raising" /\ c.announced = (IF foreseen THEN "again" ELSE "last")
        /\ c.message = d.message /\ c.retries = d.retries /\ c.again = d.again
        /\ c \in Deliveries
    BY <1>2, <1>5, <1>6 DEF Deliveries, Places
  <1>9. ~d.again
    BY <1>3 DEF IndInv, AnnouncedAsMade, AsMade, Settled
  <1>10. AsMade(c)
    BY <1>8, <1>9 DEF AsMade, AttemptFrom, Settled
  <1>11. c.at # "returning" /\ c.at \notin Settled
    BY <1>8 DEF Settled
  <1> QED BY <1>1, <1>3, <1>7, <1>8, <1>10, <1>11, OneChanged

\* The message of a task that raised is delivered again, or its attempts are over.
LEMMA RetryKeeps ==
  ASSUME IndInv, NEW i \in DOMAIN deliveries, Retry(i)
  PROVE  IndInv'
  <1> DEFINE d == deliveries[i]
  <1>1. /\ deliveries \in Seq(Deliveries) /\ fates \in [Messages -> Fates]
        /\ \A m \in Messages : fates[m] \subseteq fates[m]
        /\ crashes \in Nat
    BY DEF IndInv, TypeOK, Fates
  <1>2. PICK m \in Messages : d \in Deliveries /\ d.message = m
    BY <1>1, DeliveryOf
  <1>3. d.at = "retrying" /\ UNCHANGED <<config, sent, crashes>>
    BY DEF Retry, At
  <1>4. CASE ~AnotherAttempt(d)
    <2>1. Moves(i, "settling") /\ Became(m, "exhausted")
      BY <1>2, <1>4 DEF Retry, AnotherAttempt
    <2>2. /\ fates' \in [Messages -> Fates] /\ fates'[m] # {}
          /\ \A n \in Messages : fates[n] \subseteq fates'[n]
      BY <1>1, <2>1, BecameMore
    <2>3. Decided(m)'
      BY <2>2 DEF Decided
    <2> QED BY <1>2, <1>3, <1>4, <2>1, <2>2, <2>3, MovesOn DEF Places, Settled
  <1>5. CASE AnotherAttempt(d)
    <2>1. PICK c : c = [d EXCEPT !.at = "settling", !.again = TRUE]
      OBVIOUS
    <2>2. PICK n : n = Delivered(m, Label("number", Attempts(d)))
      OBVIOUS
    <2>3. /\ deliveries' = Append([deliveries EXCEPT ![i] = c], n)
          /\ UNCHANGED fates
      BY <1>2, <1>5, <2>1, <2>2 DEF Retry, AnotherAttempt
    <2>4. /\ c \in Deliveries /\ c.at = "settling" /\ c.again
          /\ c.message = m /\ c.retries = d.retries /\ c.announced = d.announced
      BY <1>2, <2>1 DEF Deliveries, Places
    <2>5. d.retries.count \in Nat
      BY <1>2 DEF Deliveries
    <2>6. /\ n \in Deliveries /\ n.at = "queued" /\ ~n.again /\ n.announced = "none"
          /\ n.message = m /\ n.retries.form = "number"
      BY <2>2, <2>5 DEF Deliveries, Places, Delivered, Label, Attempts
    <2> DEFINE moved == [deliveries EXCEPT ![i] = c]
    <2>7. /\ moved \in Seq(Deliveries) /\ Len(moved) = Len(deliveries)
          /\ \A j \in 1..Len(deliveries) : moved[j] = IF j = i THEN c ELSE deliveries[j]
      BY <1>1, <2>4, ExceptSeq
    <2>8. Len(deliveries) \in Nat /\ DOMAIN deliveries = 1..Len(deliveries)
      BY <1>1
    <2> HIDE DEF moved
    <2>9. /\ Append(moved, n) \in Seq(Deliveries)
          /\ Len(Append(moved, n)) = Len(moved) + 1
          /\ \A j \in 1..Len(moved) : Append(moved, n)[j] = moved[j]
          /\ Append(moved, n)[Len(moved) + 1] = n
      <3>1. n \in Deliveries
        BY <2>6
      <3>2. moved \in Seq(Deliveries)
        BY <2>7
      <3> QED BY <3>1, <3>2, AppendProperties
    <2>10. /\ deliveries' \in Seq(Deliveries) /\ DOMAIN deliveries' = 1..(Len(deliveries) + 1)
           /\ \A j \in 1..Len(deliveries) : deliveries'[j] = IF j = i THEN c ELSE deliveries[j]
           /\ deliveries'[Len(deliveries) + 1] = n
      BY <2>3, <2>7, <2>8, <2>9 DEF moved
    <2>11. \A j \in DOMAIN deliveries' : \/ deliveries'[j] = n \/ deliveries'[j] = c
                                         \/ j \in DOMAIN deliveries /\ deliveries'[j] = deliveries[j]
      <3>1. \A j \in 1..(Len(deliveries) + 1) : j \in 1..Len(deliveries) \/ j = Len(deliveries) + 1
        BY <2>8
      <3> QED BY <3>1, <2>8, <2>10
    <2>12. AsMade(c) /\ AsMade(n)
      <3>1. AsMade(d)
        BY DEF IndInv, AnnouncedAsMade
      <3> QED BY <3>1, <1>5, <2>4, <2>6 DEF AsMade, Settled, AnotherAttempt, Attempts, AttemptFrom
    <2>13. \A j \in DOMAIN deliveries' :
             /\ \E k \in DOMAIN deliveries : deliveries[k].message = deliveries'[j].message
             /\ deliveries'[j].retries.form = "lost" => deliveries'[j].retries.count = 0
      BY <1>2, <2>4, <2>6, <2>11 DEF IndInv, OfPublished
    <2>14. \A j \in DOMAIN deliveries' : deliveries'[j].at = "returning" => fates'[deliveries'[j].message] # {}
      BY <2>3, <2>4, <2>6, <2>11 DEF IndInv, ReturnsDecided
    <2>15. \A j \in DOMAIN deliveries' : AsMade(deliveries'[j])
      BY <2>11, <2>12 DEF IndInv, AnnouncedAsMade
    <2>16. /\ \A j \in DOMAIN deliveries : deliveries'[j].message = deliveries[j].message
           /\ \A j \in DOMAIN deliveries : j # i => deliveries'[j].at = deliveries[j].at
      BY <1>2, <2>4, <2>8, <2>10
    <2>17. /\ Len(deliveries) + 1 \in DOMAIN deliveries'
           /\ deliveries'[Len(deliveries) + 1].message = deliveries[i].message
           /\ deliveries'[Len(deliveries) + 1].at \notin Settled
      BY <1>2, <2>6, <2>8, <2>10 DEF Settled
    <2>18. \A j \in DOMAIN deliveries :
             \/ deliveries'[j].at \notin Settled
             \/ deliveries[j].at \in Settled
             \/ \E k \in DOMAIN deliveries' : /\ deliveries'[k].message = deliveries[j].message
                                              /\ deliveries'[k].at \notin Settled
      BY <2>16, <2>17
    <2>19. /\ crashes' \in Nat /\ fates' \in [Messages -> Fates]
           /\ \A p \in Messages : fates[p] \subseteq fates'[p]
           /\ DOMAIN deliveries \subseteq DOMAIN deliveries'
      BY <1>1, <1>3, <2>3, <2>8, <2>10
    <2> QED BY <1>3, <2>10, <2>13, <2>14, <2>15, <2>16, <2>18, <2>19, Evolved
  <1> QED BY <1>4, <1>5

\* What the process that ended leaves with the broker is delivered again, as it was published.
LEMMA CrashKeeps ==
  ASSUME IndInv, Crash
  PROVE  IndInv'
  <1>1. /\ deliveries \in Seq(Deliveries) /\ fates \in [Messages -> Fates]
        /\ \A m \in Messages : fates[m] \subseteq fates[m]
        /\ crashes \in Nat
    BY DEF IndInv, TypeOK, Fates
  <1>2. /\ UNCHANGED <<config, sent, fates>> /\ crashes' \in Nat
    BY <1>1 DEF Crash
  <1>3. Len(deliveries) \in Nat /\ DOMAIN deliveries = 1..Len(deliveries)
    BY <1>1
  <1>4. /\ DOMAIN deliveries' = DOMAIN deliveries
        /\ deliveries' = [i \in 1..Len(deliveries) |-> deliveries'[i]]
        /\ \A i \in DOMAIN deliveries :
             deliveries'[i] = IF deliveries[i].at = "gone" THEN deliveries[i]
                              ELSE Delivered(deliveries[i].message, deliveries[i].retries)
    BY <1>3 DEF Crash, At
  <1>5. \A i \in DOMAIN deliveries :
          /\ deliveries'[i] \in Deliveries
          /\ deliveries'[i].message = deliveries[i].message
          /\ deliveries'[i].retries = deliveries[i].retries
          /\ \/ deliveries'[i] = deliveries[i] /\ deliveries[i].at = "gone"
             \/ deliveries'[i].at = "queued" /\ deliveries'[i].announced = "none" /\ ~deliveries'[i].again
    <2> SUFFICES ASSUME NEW i \in DOMAIN deliveries
                 PROVE  /\ deliveries'[i] \in Deliveries
                        /\ deliveries'[i].message = deliveries[i].message
                        /\ deliveries'[i].retries = deliveries[i].retries
                        /\ \/ deliveries'[i] = deliveries[i] /\ deliveries[i].at = "gone"
                           \/ /\ deliveries'[i].at = "queued" /\ deliveries'[i].announced = "none"
                              /\ ~deliveries'[i].again
      OBVIOUS
    <2>1. deliveries[i] \in Deliveries
      BY <1>1, DeliveryOf
    <2>2. CASE deliveries[i].at = "gone"
      BY <1>4, <2>1, <2>2
    <2>3. CASE deliveries[i].at # "gone"
      <3>1. deliveries'[i] = Delivered(deliveries[i].message, deliveries[i].retries)
        BY <1>4, <2>3
      <3> QED BY <2>1, <3>1 DEF Deliveries, Places, Delivered
    <2> QED BY <2>2, <2>3
  <1>6. deliveries' \in Seq(Deliveries)
    BY <1>3, <1>4, <1>5
  <1>7. \A i \in DOMAIN deliveries : AsMade(deliveries'[i])
    BY <1>5 DEF IndInv, AnnouncedAsMade, AsMade, Settled
  <1>8. \A i \in DOMAIN deliveries' :
          /\ \E k \in DOMAIN deliveries : deliveries[k].message = deliveries'[i].message
          /\ deliveries'[i].retries.form = "lost" => deliveries'[i].retries.count = 0
          /\ deliveries'[i].at = "returning" => fates'[deliveries'[i].message] # {}
          /\ AsMade(deliveries'[i])
    BY <1>4, <1>5, <1>7 DEF IndInv, OfPublished
  <1>9. \A i \in DOMAIN deliveries :
          /\ deliveries'[i].message = deliveries[i].message
          /\ deliveries'[i].at \notin Settled \/ deliveries[i].at \in Settled
    BY <1>5 DEF Settled
  <1> QED BY <1>1, <1>2, <1>4, <1>6, <1>8, <1>9, Evolved

\* A message is published once, with one delivery, or its delay is refused.
LEMMA SendKeeps ==
  ASSUME IndInv, NEW m \in Messages, Send(m)
  PROVE  IndInv'
  <1>1. /\ deliveries \in Seq(Deliveries) /\ DOMAIN sent = Messages
        /\ config \in Configs /\ crashes \in Nat /\ fates \in [Messages -> Fates]
        /\ \A n \in Messages : sent[n] \in SentAs(n)
    BY DEF IndInv, TypeOK, Fates
  <1>2. ~Published(m) /\ UNCHANGED <<config, fates, crashes>>
    BY DEF Send, Published
  <1>3. Len(deliveries) \in Nat /\ DOMAIN deliveries = 1..Len(deliveries)
    BY <1>1
  <1>4. \A n \in Messages : SentAs(n)' = SentAs(n)
    BY <1>2 DEF SentAs, PublishedAs, QueueOf, Transports
  <1>5. ASSUME NEW s \in SentAs(m), sent' = [sent EXCEPT ![m] = s]
        PROVE  /\ DOMAIN sent' = Messages /\ sent'[m] = s
               /\ \A n \in Messages : n # m => sent'[n] = sent[n]
               /\ \A n \in Messages : sent'[n] \in SentAs(n)'
               /\ \A n \in Messages : n # m => Published(n)' = Published(n) /\ Decided(n)' = Decided(n)
    <2>1. /\ DOMAIN sent' = Messages /\ sent'[m] = s
          /\ \A n \in Messages : n # m => sent'[n] = sent[n]
      BY <1>1, <1>5
    <2>2. \A n \in Messages : sent'[n] \in SentAs(n)'
      BY <1>1, <1>4, <1>5, <2>1
    <2> QED BY <1>2, <2>1, <2>2 DEF Published, Decided
  <1>6. \A i \in DOMAIN deliveries : deliveries[i].message \in Messages /\ deliveries[i].message # m
    BY <1>1, <1>2, DeliveryOf DEF IndInv, OfPublished
  <1>7. \A d : AsMade(d)' = AsMade(d)
    <2> SUFFICES ASSUME NEW d PROVE AsMade(d)' = AsMade(d)
      OBVIOUS
    <2> QED BY <1>2 DEF AsMade, AnotherAttempt, Attempts, AttemptFrom
  <1>8. CASE sent' = [sent EXCEPT ![m] = [flaw |-> "refused"]] /\ UNCHANGED deliveries
    <2>1. PICK s \in SentAs(m) : s = [flaw |-> "refused"]
      <3>1. Refused \in SentAs(m)
        BY DEF SentAs
      <3>2. Refused = [flaw |-> "refused"]
        BY DEF Refused
      <3> QED BY <3>1, <3>2
    <2>2. /\ DOMAIN sent' = Messages /\ sent'[m] = s
          /\ \A n \in Messages : sent'[n] \in SentAs(n)'
          /\ \A n \in Messages : n # m => Published(n)' = Published(n) /\ Decided(n)' = Decided(n)
      BY <1>5, <1>8, <2>1
    <2>3. ~Published(m)'
      BY <2>1, <2>2 DEF Published
    <2>4. TypeOK'
      BY <1>1, <1>2, <1>8, <2>2 DEF TypeOK, Fates
    <2>5. \A i \in DOMAIN deliveries : Published(deliveries[i].message)'
      BY <1>6, <1>8, <2>2 DEF IndInv, OfPublished, Published
    <2>6. OfPublished' /\ ReturnsDecided'
      BY <1>2, <1>8, <2>5 DEF IndInv, OfPublished, ReturnsDecided
    <2>7. UnsettledUntilDecided'
      BY <1>8, <2>2, <2>3 DEF IndInv, UnsettledUntilDecided, Settled
    <2>8. AnnouncedAsMade'
      BY <1>2, <1>8 DEF IndInv, AnnouncedAsMade, AsMade, AnotherAttempt, Attempts, AttemptFrom
    <2> QED BY <2>4, <2>6, <2>7, <2>8 DEF IndInv
  <1>9. ASSUME NEW flaw \in Flaws, NEW via \in Transports, NEW form \in {"text", "lost"},
               sent' = [sent EXCEPT ![m] = PublishedAs(m, flaw, via)],
               deliveries' = Append(deliveries, Delivered(m, Label(form, 0)))
        PROVE  IndInv'
    <2>1. PICK s \in SentAs(m) : s = PublishedAs(m, flaw, via)
      BY DEF SentAs
    <2>2. /\ DOMAIN sent' = Messages /\ sent'[m] = s
          /\ \A n \in Messages : sent'[n] \in SentAs(n)'
          /\ \A n \in Messages : n # m => Published(n)' = Published(n) /\ Decided(n)' = Decided(n)
      BY <1>5, <1>9, <2>1
    <2>3. Published(m)'
      BY <2>1, <2>2 DEF Published, PublishedAs, Flaws, Unhandleable, Undecodable
    <2>4. PICK d : d = Delivered(m, Label(form, 0))
      OBVIOUS
    <2>5. /\ d \in Deliveries /\ d.message = m /\ d.at = "queued"
          /\ d.announced = "none" /\ ~d.again /\ d.retries.count = 0
      BY <2>4 DEF Deliveries, Places, Delivered, Label
    <2>6. /\ Append(deliveries, d) \in Seq(Deliveries)
          /\ Len(Append(deliveries, d)) = Len(deliveries) + 1
          /\ \A j \in 1..Len(deliveries) : Append(deliveries, d)[j] = deliveries[j]
          /\ Append(deliveries, d)[Len(deliveries) + 1] = d
      <3>1. d \in Deliveries
        BY <2>5
      <3> QED BY <1>1, <3>1, AppendProperties
    <2>7. /\ deliveries' \in Seq(Deliveries) /\ DOMAIN deliveries' = 1..(Len(deliveries) + 1)
          /\ \A j \in DOMAIN deliveries : j \in DOMAIN deliveries' /\ deliveries'[j] = deliveries[j]
          /\ Len(deliveries) + 1 \in DOMAIN deliveries' /\ deliveries'[Len(deliveries) + 1] = d
      BY <1>3, <1>9, <2>4, <2>6
    <2>8. \A j \in DOMAIN deliveries' : \/ j \in DOMAIN deliveries /\ deliveries'[j] = deliveries[j]
                                        \/ deliveries'[j] = d
      <3>1. \A j \in 1..(Len(deliveries) + 1) : j \in 1..Len(deliveries) \/ j = Len(deliveries) + 1
        BY <1>3
      <3> QED BY <3>1, <1>3, <2>7
    <2>9. TypeOK'
      BY <1>1, <1>2, <2>2, <2>7 DEF TypeOK, Fates
    <2>10. \A j \in DOMAIN deliveries' :
             /\ sent'[deliveries'[j].message].flaw \notin {"unsent", "refused"}
             /\ deliveries'[j].retries.form = "lost" => deliveries'[j].retries.count = 0
             /\ deliveries'[j].at = "returning" => fates'[deliveries'[j].message] # {}
      <3>1. \A j \in DOMAIN deliveries : sent'[deliveries[j].message].flaw \notin {"unsent", "refused"}
        BY <1>6, <2>2 DEF IndInv, OfPublished, Published
      <3>2. sent'[d.message].flaw \notin {"unsent", "refused"}
        BY <2>3, <2>5 DEF Published
      <3> QED BY <1>2, <2>5, <2>8, <3>1, <3>2 DEF IndInv, OfPublished, ReturnsDecided
    <2>11. OfPublished' /\ ReturnsDecided'
      BY <2>10 DEF OfPublished, ReturnsDecided, Published
    <2>12. UnsettledUntilDecided'
      <3> SUFFICES ASSUME NEW n \in Messages, Published(n)', ~Decided(n)'
                   PROVE  \E j \in DOMAIN deliveries' :
                            deliveries'[j].message = n /\ deliveries'[j].at \notin Settled
        BY DEF UnsettledUntilDecided, Settled
      <3>1. CASE n = m
        BY <2>5, <2>7, <3>1 DEF Settled
      <3>2. CASE n # m
        <4>1. PICK j \in DOMAIN deliveries : deliveries[j].message = n /\ deliveries[j].at \notin Settled
          BY <2>2, <3>2 DEF IndInv, UnsettledUntilDecided
        <4> QED BY <2>7, <4>1
      <3> QED BY <3>1, <3>2
    <2>13. AnnouncedAsMade'
      <3>1. AsMade(d)
        BY <2>5 DEF AsMade
      <3>2. \A j \in DOMAIN deliveries' : AsMade(deliveries'[j])
        BY <2>8, <3>1 DEF IndInv, AnnouncedAsMade
      <3> QED BY <1>2, <3>2 DEF AnnouncedAsMade, AsMade, AnotherAttempt, Attempts, AttemptFrom
    <2> QED BY <2>9, <2>11, <2>12, <2>13 DEF IndInv
  <1>10. \/ sent' = [sent EXCEPT ![m] = [flaw |-> "refused"]] /\ UNCHANGED deliveries
         \/ \E flaw \in Flaws, via \in Transports, form \in {"text", "lost"} :
              /\ sent' = [sent EXCEPT ![m] = PublishedAs(m, flaw, via)]
              /\ deliveries' = Append(deliveries, Delivered(m, Label(form, 0)))
    BY DEF Send, Flaws, PublishedAs
  <1> QED BY <1>8, <1>9, <1>10

\* The inductive invariant holds of every behaviour: of any number of messages, attempts,
\* copies and crashes, in whatever order deliveries are handled.
THEOREM Invariant == Spec => []IndInv
  <1>1. IndInv /\ [Next]_vars => IndInv'
    <2> SUFFICES ASSUME IndInv, [Next]_vars PROVE IndInv'
      OBVIOUS
    <2>1. CASE UNCHANGED vars
      BY <2>1 DEF vars, IndInv, TypeOK, OfPublished, ReturnsDecided, UnsettledUntilDecided,
                  AnnouncedAsMade, AsMade, AnotherAttempt, Attempts, AttemptFrom, Published,
                  Decided, SentAs, PublishedAs, QueueOf, Transports
    <2>2. ASSUME NEW m \in Messages, Send(m) PROVE IndInv'
      BY <2>2, SendKeeps
    <2>3. ASSUME NEW i \in DOMAIN deliveries, Step(i) PROVE IndInv'
      BY <2>3, StepMoves, AnnounceKeeps, RetryKeeps DEF Step
    <2>4. CASE Crash
      BY <2>4, CrashKeeps
    <2> QED BY <2>1, <2>2, <2>3, <2>4 DEF Next
  <1> QED BY InitInv, <1>1, PTL DEF Spec

-----------------------------------------------------------------------------
(***************************************************************************)
(* What follows of the properties of Delivery.                             *)
(***************************************************************************)

\* A message leaves the broker only handled, skipped, quarantined or at the end of its
\* attempts, or as poison without quarantine - whatever fails, or ends, in between.
THEOREM NothingDroppedHolds == Spec => []NothingDropped
  <1>1. IndInv => NothingDropped
    <2> SUFFICES ASSUME IndInv, NEW m \in Messages, Published(m), ~Held(m)
                 PROVE  Decided(m)
      BY DEF NothingDropped, Decided
    <2>1. \A i \in DOMAIN deliveries : deliveries[i].message = m => deliveries[i].at = "gone"
      BY DEF Held, At
    <2> QED BY <2>1 DEF IndInv, UnsettledUntilDecided, Settled
  <1> QED BY Invariant, <1>1, PTL

\* Once a failed delivery is settled, its message was published again where that was
\* announced, and not where the binding, told the limit and shown the attempt, said it was
\* the last one - for every limit a broker may have.
THEOREM RetryAsAnnouncedHolds == Spec => []RetryAsAnnounced
  <1>1. IndInv => RetryAsAnnounced
    <2> SUFFICES ASSUME IndInv, NEW i \in DOMAIN deliveries, deliveries[i].at = "gone"
                 PROVE  LET d == deliveries[i]
                        IN  /\ d.announced = "again" => d.again
                            /\ d.announced = "last" /\ config.told /\ Readable(d.retries) => ~d.again
      BY DEF RetryAsAnnounced, At
    <2> DEFINE d == deliveries[i]
    <2>1. deliveries \in Seq(Deliveries) /\ config \in Configs
      BY DEF IndInv, TypeOK
    <2>2. d \in Deliveries
      BY <2>1, DeliveryOf
    <2>3. d.retries.count \in Nat /\ d.again \in BOOLEAN /\ config.attempts \in Nat
      BY <2>1, <2>2, ConstantsAssumption DEF Deliveries, Configs
    <2>4. d.retries.form = "lost" => d.retries.count = 0
      BY DEF IndInv, OfPublished
    <2>5. d.retries.form \in {"number", "text", "lost"}
      BY <2>2 DEF Deliveries
    <2>6. AsMade(d)
      BY DEF IndInv, AnnouncedAsMade
    <2>7. AttemptFrom(d) = IF d.retries.form = "lost" THEN 1000000 ELSE d.retries.count
      BY <2>5 DEF AttemptFrom, Readable, LostLabelAttempt
    <2>8. d.announced # "none" => d.again = (d.retries.count + 1 < config.attempts)
      BY <2>6 DEF AsMade, Settled, AnotherAttempt, Attempts
    <2>9. d.announced = "again" => d.again
      <3>1. d.announced = "again" => AttemptFrom(d) < config.attempts - 1
        BY <2>6 DEF AsMade
      <3> QED BY <2>3, <2>4, <2>7, <2>8, <3>1
    <2>10. d.announced = "last" /\ config.told /\ Readable(d.retries) => ~d.again
      <3>1. d.announced = "last" /\ config.told => ~(AttemptFrom(d) < config.attempts - 1)
        BY <2>6 DEF AsMade
      <3> QED BY <2>3, <2>7, <2>8, <3>1 DEF Readable
    <2> QED BY <2>9, <2>10
  <1> QED BY Invariant, <1>1, PTL

\* What is handled is said to come from the transport it was published to, at the attempt the
\* broker is at, and only that, whatever it carried of an earlier journey.
THEOREM HeardAsSentHolds == Spec => []HeardAsSent
  <1>1. IndInv => HeardAsSent
    <2> SUFFICES ASSUME IndInv, NEW i \in DOMAIN deliveries
                 PROVE  LET e == Rebuilt(deliveries[i])
                        IN  /\ LastOf(e, "Received") = IF Names = <<>> THEN "taskiq"
                                                       ELSE sent[deliveries[i].message].via
                            /\ Readable(deliveries[i].retries) => LastOf(e, "Redelivery") + 1 = Attempts(deliveries[i])
                            /\ Cardinality({k \in DOMAIN e.stamps : IsA(e.stamps[k], "Received")}) = 1
                            /\ ~Carries(e, "Own")
      BY DEF HeardAsSent
    <2> DEFINE d == deliveries[i]
    <2>1. TypeOK /\ Published(d.message)
      BY DEF IndInv, OfPublished
    <2>2. /\ LastOf(Rebuilt(d), "Received") = ReceiverName(d)
          /\ LastOf(Rebuilt(d), "Redelivery") = AttemptFrom(d)
          /\ Cardinality({k \in DOMAIN Rebuilt(d).stamps : IsA(Rebuilt(d).stamps[k], "Received")}) = 1
          /\ ~Carries(Rebuilt(d), "Own")
      BY <2>1, HeardFrom
    <2>3. PICK m \in Messages : d.message = m
      BY <2>1, DeliveryOf DEF TypeOK
    <2>4. sent[m].via \in Transports /\ sent[m].queue = QueueOf(sent[m].via)
      BY <2>1, <2>3 DEF TypeOK, SentAs, PublishedAs, Published, Unsent, Refused
    <2>5. Names \in Bindings
      BY <2>1 DEF TypeOK, Configs, Names
    <2>6. ASSUME Names = <<>> PROVE ReceiverName(d) = "taskiq"
      <3>1. DOMAIN Names = {}
        BY <2>6
      <3> QED BY <3>1 DEF ReceiverName
    <2>7. ASSUME Names = [q \in {"high"} |-> "priority"]
          PROVE  Names # <<>> /\ ReceiverName(d) = sent[m].via
      <3>1. DOMAIN Names = {"high"} /\ Names["high"] = "priority" /\ DOMAIN <<>> = {}
        BY <2>7
      <3>2. Names # <<>>
        BY <3>1
      <3>3. ReceiverName(d) = "priority"
        BY <3>1 DEF ReceiverName
      <3>4. Transports = {"priority"}
        BY <3>1, <3>2 DEF Transports, Names
      <3> QED BY <2>4, <3>2, <3>3, <3>4
    <2>8. ASSUME Names = [q \in {"none", "high"} |-> IF q = "high" THEN "priority" ELSE "async"]
          PROVE  Names # <<>> /\ ReceiverName(d) = sent[m].via
      <3>1. /\ DOMAIN Names = {"none", "high"} /\ DOMAIN <<>> = {}
            /\ Names["high"] = "priority" /\ Names["none"] = "async"
        BY <2>8
      <3>2. Names # <<>>
        BY <3>1
      <3>3. sent[m].via \in {"priority", "async"}
        BY <2>4, <3>1, <3>2 DEF Transports, Names
      <3>4. sent[m].queue = IF sent[m].via = "priority" THEN "high" ELSE "none"
        BY <2>4 DEF QueueOf
      <3>5. ~ \E name \in DOMAIN Names : DOMAIN Names = {name}
        BY <3>1
      <3>6. ReceiverName(d) = IF sent[m].queue \in DOMAIN Names THEN Names[sent[m].queue] ELSE "taskiq"
        BY <2>3, <3>5 DEF ReceiverName
      <3> QED BY <3>1, <3>2, <3>3, <3>4, <3>6
    <2>9. ReceiverName(d) = IF Names = <<>> THEN "taskiq" ELSE sent[m].via
      BY <2>5, <2>6, <2>7, <2>8 DEF Bindings
    <2>10. Readable(d.retries) => AttemptFrom(d) + 1 = Attempts(d)
      BY DEF AttemptFrom, Attempts
    <2> QED BY <2>2, <2>3, <2>9, <2>10
  <1> QED BY Invariant, <1>1, PTL

=============================================================================
