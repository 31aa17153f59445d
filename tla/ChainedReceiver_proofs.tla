------------------------ MODULE ChainedReceiver_proofs ------------------------
(***************************************************************************)
(* Proofs about ChainedReceiver, for any number of receivers, messages and *)
(* get()s, and whatever goes wrong while get() lets go.                    *)
(***************************************************************************)
EXTENDS ChainedReceiver, FiniteSetTheorems, FunctionTheorems, SequenceTheorems, TLAPS

(***************************************************************************)
(* What `_abandon` keeps is every finished delivery, each of them once.    *)
(***************************************************************************)
\* There are finitely many receivers.
LEMMA PositionsFinite == IsFiniteSet(Positions)
  <1>1. 1 \in Int /\ N \in Int
    BY ConstantsAssumption DEF ConstantsAssumption
  <1>2. IsFiniteSet(1..N)
    BY <1>1, FS_Interval, Zenon
  <1> QED BY <1>2 DEF Positions

\* What `_abandon` keeps is a sequence of the ready receivers' latest deliveries: each of
\* them, once.
LEMMA KeptProperties ==
  ASSUME TypeOK, LeftoversInv, NEW s \in Kept
  PROVE  /\ s \in Seq(Messages)
         /\ \A i \in DOMAIN s : s[i] = Latest(s[i].from) /\ fetch[s[i].from] = "ready"
         /\ \A i, j \in DOMAIN s : s[i] = s[j] => i = j
         /\ \A p \in Positions : fetch[p] = "ready" => \E i \in DOMAIN s : s[i] = Latest(p)
  <1> DEFINE ready == {p \in Positions : fetch[p] = "ready"}
             k == Cardinality(ready)
  <1>1. IsFiniteSet(ready) /\ k \in Nat
    BY PositionsFinite, FS_Subset, FS_CardinalityType
  <1>2. PICK f \in SetToSeqs(ready) : s = [i \in DOMAIN f |-> Latest(f[i])]
    BY DEF Kept
  <1>3. f \in [1..k -> ready] /\ \A i, j \in 1..k : i # j => f[i] # f[j]
    BY <1>2 DEF SetToSeqs
  <1>4. \A p \in ready : \E i \in 1..k : f[i] = p
    <2>1. f \in Injection(1..k, ready)
      BY <1>3, Fun_IsInj
    <2>2. IsFiniteSet(1..k) /\ Cardinality(1..k) = k
      <3>1. 1 \in Int /\ k \in Int
        BY <1>1
      <3>2. Cardinality(1..k) = IF 1 > k THEN 0 ELSE k - 1 + 1
        BY <3>1, FS_Interval, Zenon
      <3> QED BY <1>1, <3>1, <3>2, FS_Interval
    <2>3. f \in Surjection(1..k, ready)
      BY <1>1, <2>1, <2>2, FS_Injection, Zenon
    <2> QED BY <2>3 DEF Surjection
  <1>5. \A p \in ready : Latest(p) \in Messages /\ Latest(p).from = p
    <2> SUFFICES ASSUME NEW p \in ready PROVE Latest(p) \in Messages /\ Latest(p).from = p
      OBVIOUS
    <2>1. p \in Positions /\ fetch[p] = "ready"
      OBVIOUS
    <2>2. delivered[p] \in 1..PerReceiver
      BY <2>1, ConstantsAssumption DEF ConstantsAssumption, TypeOK, LeftoversInv
    <2> QED BY <2>1, <2>2 DEF Latest, Messages
  <1>6. DOMAIN s = 1..k /\ \A i \in 1..k : s[i] = Latest(f[i]) /\ f[i] \in ready
    BY <1>2, <1>3
  <1>7. s \in [1..k -> Messages]
    BY <1>2, <1>3, <1>5
  <1>8. s \in Seq(Messages)
    BY <1>1, <1>7, SeqDef
  <1> QED BY <1>3, <1>4, <1>5, <1>6, <1>8

-----------------------------------------------------------------------------
(***************************************************************************)
(* Most steps only move get() along: they hand nothing out, settle nothing *)
(* and leave what is ready as it is.                                       *)
(***************************************************************************)
\* A step that leaves messages, tickets and what is ready as they are keeps the invariant.
LEMMA MovesAlong ==
  ASSUME IndInv, TypeOK', LeftoversInv',
         UNCHANGED <<delivered, leftovers, dropped, settling, ticketing>>,
         \A p \in Positions : fetch'[p] = "ready" <=> fetch[p] = "ready"
  PROVE  IndInv'
  <1> USE DEF settling, ticketing
  <1>1. TicketsInv'
    BY DEF IndInv, TicketsInv, Given
  <1>2. EachMessageInOnePlace'
    BY DEF IndInv, EachMessageInOnePlace, Arrived, InTask, Left, Given, Latest, Messages
  <1>3. ReceiverOrderKept' /\ SettledAsAsked' /\ OutstandingIsUnsettled'
    BY DEF IndInv, ReceiverOrderKept, SettledAsAsked, OutstandingIsUnsettled
  <1> QED BY <1>1, <1>2, <1>3 DEF IndInv

\* So do the steps of get() that serve nothing and let go of nothing ready.
LEMMA GeneratorMovesAlong ==
  ASSUME IndInv,
         \/ Get \/ OpenStreams \/ Wait \/ Exhausted \/ WakeUp \/ ServeEnd \/ ServeFailure
         \/ Resume \/ Cancel \/ CloseEarly \/ CloseYielded
         \/ CloseStream \/ Over \/ CloseRaises \/ Interrupt
  PROVE  IndInv'
  <1> USE DEF receiving, settling, ticketing, Done
  <1>1. TypeOK /\ LeftoversInv
    BY DEF IndInv
  <1>2. UNCHANGED <<delivered, leftovers, dropped, settling, ticketing>>
    BY DEF Get, OpenStreams, Wait, Exhausted, WakeUp, ServeEnd, ServeFailure, Resume,
           Cancel, CloseEarly, CloseYielded, CloseStream, Over, CloseRaises, Interrupt
  <1>3. TypeOK'
    <2>1. gets' \in 0..MaxGets
      BY <1>1, ConstantsAssumption
      DEF TypeOK, ConstantsAssumption, Get, OpenStreams, Wait, Exhausted, WakeUp, ServeEnd,
          ServeFailure, Resume, Cancel, CloseEarly, CloseYielded, CloseStream, Over,
          CloseRaises, Interrupt
    <2>2. fetch' \in [Positions -> {"none", "pending"} \cup Done] /\ batch' \subseteq Positions
      BY <1>1
      DEF TypeOK, Get, OpenStreams, Wait, Exhausted, WakeUp, DoneNow, ServeEnd, ServeFailure,
          Resume, Cancel, CloseEarly, CloseYielded, CloseStream, Over, CloseRaises, Interrupt
    <2>3. /\ open' \subseteq Positions
          /\ gen' \in {"idle", "fresh", "leftover_yielded", "serving", "waiting", "yielded",
                      "abandoning", "closing"}
          /\ ending' \in {"none", "ended", "failed", "cancelled", "closed", "interrupted"}
          /\ overtaken' \in [Positions -> Nat]
      BY <1>1
      DEF TypeOK, Get, OpenStreams, Wait, Exhausted, WakeUp, ServeEnd, ServeFailure,
          Resume, Cancel, CloseEarly, CloseYielded, CloseStream, Over, CloseRaises, Interrupt
    <2> QED BY <1>1, <1>2, <2>1, <2>2, <2>3 DEF TypeOK
  <1>4. LeftoversInv' /\ \A p \in Positions : fetch'[p] = "ready" <=> fetch[p] = "ready"
    <2> USE <1>1, <1>2 DEF TypeOK, LeftoversInv, AtRest, Latest
    <2>1. CASE OpenStreams
      BY <2>1 DEF OpenStreams, MayOpen
    <2>2. CASE ServeEnd \/ ServeFailure
      BY <2>2 DEF ServeEnd, ServeFailure, First
    <2>3. CASE Get \/ Wait \/ Exhausted \/ WakeUp \/ Resume \/ Cancel
      BY <2>3 DEF Get, Wait, Exhausted, WakeUp, Resume, Cancel
    <2>4. CASE CloseEarly \/ CloseYielded \/ CloseStream \/ Over \/ CloseRaises \/ Interrupt
      BY <2>4 DEF CloseEarly, CloseYielded, CloseStream, Over, CloseRaises, Interrupt
    <2> QED BY <2>1, <2>2, <2>3, <2>4
  <1> QED BY <1>2, <1>3, <1>4, MovesAlong

\* A receiver that ends, fails or is cancelled leaves what is ready as it is.
LEMMA ReceiverStops ==
  ASSUME IndInv, NEW p \in Positions, End(p) \/ Fail(p) \/ Cancelled(p)
  PROVE  IndInv'
  <1> USE DEF receiving, settling, ticketing, Done, End, Fail, Cancelled, Outcome
  <1>1. TypeOK /\ LeftoversInv
    BY DEF IndInv
  <1>2. UNCHANGED <<delivered, leftovers, dropped, settling, ticketing, gen>>
    OBVIOUS
  <1>3. TypeOK'
    BY <1>1 DEF TypeOK
  <1>4. LeftoversInv' /\ \A q \in Positions : fetch'[q] = "ready" <=> fetch[q] = "ready"
    BY <1>1, <1>2 DEF TypeOK, LeftoversInv, AtRest, Latest
  <1> QED BY <1>2, <1>3, <1>4, MovesAlong

(***************************************************************************)
(* A delivery: the message is new, and nothing is left over meanwhile.     *)
(***************************************************************************)
\* A delivery keeps the invariant.
LEMMA DeliverKeeps ==
  ASSUME IndInv, NEW p \in Positions, Deliver(p)
  PROVE  IndInv'
  <1> USE DEF receiving, settling, ticketing, Done, Deliver, Outcome
  <1>1. TypeOK /\ LeftoversInv /\ EachMessageInOnePlace
    BY DEF IndInv
  <1>2. leftovers = <<>> /\ ~AtRest
    BY <1>1 DEF LeftoversInv, AtRest
  <1>3. TypeOK'
    BY <1>1, ConstantsAssumption DEF TypeOK, ConstantsAssumption
  <1>4. LeftoversInv'
    BY <1>1, <1>2 DEF TypeOK, LeftoversInv, AtRest
  <1>5. TicketsInv'
    BY DEF IndInv, TicketsInv, Given
  <1>6. EachMessageInOnePlace'
    <2> DEFINE new == [from |-> p, n |-> delivered[p] + 1]
    <2>1. new \in Messages
      BY <1>1, ConstantsAssumption DEF TypeOK, Messages, ConstantsAssumption
    <2>2. \A m \in Messages : Arrived(m)' <=> Arrived(m) \/ m = new
      <3> SUFFICES ASSUME NEW m \in Messages
                   PROVE  Arrived(m)' <=> Arrived(m) \/ m = new
        OBVIOUS
      <3>1. m.from \in Positions /\ m.n \in Nat /\ delivered[m.from] \in Nat
        BY <1>1 DEF TypeOK, Messages
      <3>2. CASE m.from # p
        BY <1>1, <3>1, <3>2 DEF TypeOK, Arrived
      <3>3. CASE m.from = p
        <4>1. m = new <=> m.n = delivered[p] + 1
          BY <3>3 DEF Messages
        <4>2. delivered'[p] = delivered[p] + 1
          BY <1>1 DEF TypeOK
        <4> QED BY <3>1, <3>3, <4>1, <4>2 DEF Arrived
      <3> QED BY <3>2, <3>3
    <2>3. \A m \in Messages : InTask(m)' <=> InTask(m) \/ m = new
      BY <1>1 DEF TypeOK, InTask, Latest, Messages
    <2>4. ~Arrived(new)
      BY <1>1 DEF TypeOK, Arrived
    <2>5. ~Left(new) /\ ~Given(new) /\ new \notin dropped
      BY <1>1, <2>1, <2>4 DEF EachMessageInOnePlace
    <2>6. \A m \in Messages : (Left(m)' <=> Left(m)) /\ (Given(m)' <=> Given(m))
      BY DEF Left, Given
    <2> HIDE DEF new, Deliver
    <2>7. UNCHANGED <<handed, leftovers, dropped>>
      BY DEF Deliver
    <2> QED BY <1>1, <2>1, <2>2, <2>3, <2>5, <2>6, <2>7 DEF EachMessageInOnePlace
  <1>7. ReceiverOrderKept' /\ SettledAsAsked' /\ OutstandingIsUnsettled'
    BY DEF IndInv, ReceiverOrderKept, SettledAsAsked, OutstandingIsUnsettled
  <1> QED BY <1>3, <1>4, <1>5, <1>6, <1>7 DEF IndInv

(***************************************************************************)
(* Handing out a message that waited in its finished task or was left      *)
(* over, under the next ticket.                                            *)
(***************************************************************************)
\* _ticketed hands out one more envelope, under a ticket no other has.
LEMMA TicketedKeeps ==
  ASSUME IndInv, NEW m \in Messages, ~Given(m), Ticketed(m), UNCHANGED settling
  PROVE  /\ tickets' \in Nat /\ outstanding' \subseteq Envelopes /\ handed' \subseteq Envelopes
         /\ \E e \in Envelopes : handed' = handed \cup {e} /\ e.msg = m /\ e.ticket > tickets
         /\ TicketsInv' /\ SettledAsAsked' /\ OutstandingIsUnsettled'
         /\ \A k \in Messages : Given(k)' <=> Given(k) \/ k = m
  <1> DEFINE e == [ticket |-> tickets + 1, msg |-> m]
  <1> USE DEF settling
  <1>1. TypeOK /\ TicketsInv /\ SettledAsAsked /\ OutstandingIsUnsettled
    BY DEF IndInv
  <1>2. /\ e \in Envelopes /\ e.ticket = tickets + 1 /\ e.msg = m
        /\ tickets' = tickets + 1
        /\ outstanding' = outstanding \cup {e}
        /\ handed' = handed \cup {e}
    BY <1>1 DEF Ticketed, TypeOK, Envelopes
  <1> HIDE DEF e
  <1>3. \A k \in Messages : Given(k)' <=> Given(k) \/ k = m
    BY <1>2 DEF Given
  <1>4. TicketsInv'
    <2>1. \A f \in handed : f.ticket \in Nat /\ f.ticket <= tickets
      BY <1>1 DEF TypeOK, TicketsInv, Envelopes
    <2>2. \A f \in handed' : f.ticket <= tickets'
      BY <1>1, <1>2, <2>1 DEF TypeOK
    <2>3. \A f, g \in handed' : f.ticket = g.ticket => f = g
      BY <1>1, <1>2, <2>1 DEF TypeOK, TicketsInv
    <2>4. \A k \in Messages : wanted'[k] # "none" => Given(k)'
      BY <1>1, <1>3 DEF TicketsInv
    <2> QED BY <2>2, <2>3, <2>4 DEF TicketsInv
  <1>5. wanted[m] = "none"
    BY <1>1 DEF TicketsInv
  <1>6. SettledAsAsked'
    BY <1>1 DEF SettledAsAsked
  <1>7. OutstandingIsUnsettled'
    BY <1>1, <1>2, <1>5 DEF OutstandingIsUnsettled
  <1>8. tickets' \in Nat /\ outstanding' \subseteq Envelopes /\ handed' \subseteq Envelopes
    BY <1>1, <1>2 DEF TypeOK
  <1>9. \E x \in Envelopes : handed' = handed \cup {x} /\ x.msg = m /\ x.ticket > tickets
    BY <1>1, <1>2 DEF TypeOK
  <1> QED BY <1>3, <1>4, <1>6, <1>7, <1>8, <1>9

\* Serving the message of a finished task keeps the invariant.
LEMMA ServeMessageKeeps ==
  ASSUME IndInv, ServeMessage
  PROVE  IndInv'
  <1>1. TypeOK /\ LeftoversInv /\ EachMessageInOnePlace /\ ReceiverOrderKept
    BY DEF IndInv
  <1>2. PICK p \in First(batch) :
          /\ fetch[p] = "ready"
          /\ batch' = batch \ {p}
          /\ fetch' = [fetch EXCEPT ![p] = "pending"]
          /\ Ticketed(Latest(p))
          /\ overtaken' = [q \in Positions |->
                             IF q # p /\ fetch[q] = "ready" THEN overtaken[q] + 1
                                                            ELSE overtaken[q]]
    BY DEF ServeMessage
  <1>3. /\ p \in Positions
        /\ gen = "serving" /\ gen' = "yielded"
        /\ UNCHANGED <<delivered, open, ending, leftovers, dropped, gets, settling>>
    BY <1>1 DEF ServeMessage, First, TypeOK
  <1> DEFINE m == Latest(p)
  <1>4. m \in Messages /\ m.from = p /\ InTask(m)
    BY <1>1, <1>2, <1>3, ConstantsAssumption
    DEF ConstantsAssumption, LeftoversInv, TypeOK, Latest, Messages, InTask
  <1>5. ~Given(m) /\ leftovers = <<>>
    BY <1>1, <1>3, <1>4 DEF EachMessageInOnePlace, LeftoversInv, AtRest
  <1> HIDE DEF m
  <1>6. Ticketed(m)
    BY <1>2 DEF m
  <1>7. PICK e \in Envelopes : handed' = handed \cup {e} /\ e.msg = m /\ e.ticket > tickets
    BY <1>3, <1>4, <1>5, <1>6, TicketedKeeps
  <1>8. /\ tickets' \in Nat /\ outstanding' \subseteq Envelopes /\ handed' \subseteq Envelopes
        /\ TicketsInv' /\ SettledAsAsked' /\ OutstandingIsUnsettled'
        /\ \A k \in Messages : Given(k)' <=> Given(k) \/ k = m
    BY <1>3, <1>4, <1>5, <1>6, TicketedKeeps
  <1>9. TypeOK'
    BY <1>1, <1>2, <1>3, <1>8 DEF TypeOK, settling, Done
  <1>10. LeftoversInv'
    BY <1>1, <1>2, <1>3, <1>5 DEF TypeOK, LeftoversInv, AtRest, Done
  <1>11. EachMessageInOnePlace'
    <2>1. \A k \in Messages : InTask(k)' <=> InTask(k) /\ k # m
      BY <1>1, <1>2, <1>3, <1>4 DEF InTask, Latest, m, TypeOK, Messages
    <2>2. \A k \in Messages : (Arrived(k)' <=> Arrived(k)) /\ (Left(k)' <=> Left(k)) /\ ~Left(k)
      BY <1>3, <1>5 DEF Arrived, Left
    <2>3. \A f, g \in handed' : f.msg = g.msg => f = g
      BY <1>1, <1>5, <1>7 DEF EachMessageInOnePlace, Given
    <2> QED BY <1>1, <1>3, <1>4, <1>5, <1>8, <2>1, <2>2, <2>3 DEF EachMessageInOnePlace
  <1>12. ReceiverOrderKept'
    <2>1. \A f \in handed : f.msg.from = p => f.msg.n < m.n
      <3> SUFFICES ASSUME NEW f \in handed, f.msg.from = p
                   PROVE  f.msg.n < m.n
        OBVIOUS
      <3>1. f.msg \in Messages /\ Given(f.msg)
        BY <1>1 DEF TypeOK, Envelopes, Given
      <3>2. Arrived(f.msg) /\ f.msg # m
        BY <1>1, <1>5, <3>1 DEF EachMessageInOnePlace
      <3> QED BY <1>1, <1>3, <3>1, <3>2 DEF Arrived, m, Latest, Messages, TypeOK
    <2>2. \A f \in handed : f.ticket <= tickets /\ f.ticket \in Nat /\ f.msg \in Messages
      BY DEF IndInv, TicketsInv, TypeOK, Envelopes
    <2>3. e.ticket \in Nat /\ e.msg.from = p
      BY <1>4, <1>7 DEF Envelopes
    <2>4. ASSUME NEW f \in handed', NEW g \in handed', f.msg.from = g.msg.from,
                 f.ticket < g.ticket
          PROVE  f.msg.n < g.msg.n
      <3>1. f # e
        BY <1>1, <1>7, <2>2, <2>3, <2>4 DEF TypeOK
      <3>2. CASE g = e
        BY <1>7, <2>1, <2>3, <2>4, <3>1, <3>2
      <3>3. CASE g # e
        BY <1>1, <1>7, <2>4, <3>1, <3>3 DEF ReceiverOrderKept
      <3> QED BY <3>2, <3>3
    <2> QED BY <1>3, <1>5, <2>4 DEF ReceiverOrderKept
  <1> QED BY <1>8, <1>9, <1>10, <1>11, <1>12 DEF IndInv

\* Handing out the first message left over keeps the invariant.
LEMMA HandLeftoverKeeps ==
  ASSUME IndInv, HandLeftover
  PROVE  IndInv'
  <1>1. TypeOK /\ LeftoversInv /\ EachMessageInOnePlace /\ ReceiverOrderKept
    BY DEF IndInv
  <1>2. /\ gen \in {"fresh", "leftover_yielded"} /\ gen' = "leftover_yielded"
        /\ leftovers # <<>> /\ leftovers' = Tail(leftovers)
        /\ Ticketed(Head(leftovers))
        /\ UNCHANGED <<delivered, fetch, open, ending, batch, dropped, overtaken, gets, settling>>
    BY DEF HandLeftover
  <1> DEFINE m == Head(leftovers)
  <1>3. /\ leftovers \in Seq(Messages) /\ Len(leftovers) \in Nat \ {0}
        /\ DOMAIN leftovers = 1..Len(leftovers) /\ m = leftovers[1] /\ m \in Messages
    BY <1>1, <1>2 DEF TypeOK
  <1>4. /\ leftovers' \in Seq(Messages)
        /\ DOMAIN leftovers' = 1..(Len(leftovers) - 1)
        /\ \A i \in DOMAIN leftovers' : i + 1 \in DOMAIN leftovers /\ leftovers'[i] = leftovers[i + 1]
    BY <1>2, <1>3
  <1> HIDE DEF m
  <1>5. Left(m) /\ ~Given(m) /\ m \notin dropped /\ ~InTask(m)
    BY <1>1, <1>3 DEF Left, EachMessageInOnePlace
  <1>6. Ticketed(m)
    BY <1>2 DEF m
  <1>7. PICK e \in Envelopes : handed' = handed \cup {e} /\ e.msg = m /\ e.ticket > tickets
    BY <1>2, <1>3, <1>5, <1>6, TicketedKeeps
  <1>8. /\ tickets' \in Nat /\ outstanding' \subseteq Envelopes /\ handed' \subseteq Envelopes
        /\ TicketsInv' /\ SettledAsAsked' /\ OutstandingIsUnsettled'
        /\ \A k \in Messages : Given(k)' <=> Given(k) \/ k = m
    BY <1>2, <1>3, <1>5, <1>6, TicketedKeeps
  <1>9. TypeOK'
    BY <1>1, <1>2, <1>4, <1>8 DEF TypeOK, settling, Done
  <1>10. LeftoversInv'
    BY <1>1, <1>2, <1>4 DEF LeftoversInv, AtRest, Latest
  <1>11. \A k \in Messages : Left(k)' <=> Left(k) /\ k # m
    <2> SUFFICES ASSUME NEW k \in Messages PROVE Left(k)' <=> Left(k) /\ k # m
      OBVIOUS
    <2>1. ASSUME Left(k)' PROVE Left(k) /\ k # m
      <3>1. PICK i \in DOMAIN leftovers' : leftovers'[i] = k
        BY <2>1 DEF Left
      <3>2. i \in Nat /\ i + 1 # 1 /\ i + 1 \in DOMAIN leftovers /\ leftovers[i + 1] = k
        BY <1>4, <3>1
      <3> QED BY <1>1, <1>3, <3>2 DEF Left, EachMessageInOnePlace
    <2>2. ASSUME Left(k), k # m PROVE Left(k)'
      <3>1. PICK i \in DOMAIN leftovers : leftovers[i] = k
        BY <2>2 DEF Left
      <3>2. i # 1
        BY <1>3, <2>2, <3>1
      <3>3. i - 1 \in DOMAIN leftovers' /\ (i - 1) + 1 = i
        BY <1>3, <1>4, <3>1, <3>2
      <3> QED BY <1>4, <3>1, <3>3 DEF Left
    <2> QED BY <2>1, <2>2
  <1>12. EachMessageInOnePlace'
    <2>1. \A k \in Messages : (Arrived(k)' <=> Arrived(k)) /\ (InTask(k)' <=> InTask(k))
      BY <1>2 DEF Arrived, InTask, Latest
    <2>2. \A f, g \in handed' : f.msg = g.msg => f = g
      BY <1>1, <1>5, <1>7 DEF EachMessageInOnePlace, Given
    <2>3. \A i, j \in DOMAIN leftovers' : leftovers'[i] = leftovers'[j] => i = j
      <3> SUFFICES ASSUME NEW i \in DOMAIN leftovers', NEW j \in DOMAIN leftovers',
                          leftovers'[i] = leftovers'[j]
                   PROVE  i = j
        OBVIOUS
      <3>1. leftovers[i + 1] = leftovers[j + 1]
        BY <1>4
      <3>2. i + 1 = j + 1
        BY <1>1, <1>4, <3>1 DEF EachMessageInOnePlace
      <3> QED BY <1>3, <1>4, <3>2
    <2> QED BY <1>1, <1>2, <1>5, <1>8, <1>11, <2>1, <2>2, <2>3 DEF EachMessageInOnePlace
  <1>13. ReceiverOrderKept'
    <2>1. \A f \in handed : f.msg.from = m.from => f.msg.n < m.n
      BY <1>1, <1>3 DEF ReceiverOrderKept
    <2>2. \A f \in handed : f.ticket <= tickets /\ f.ticket \in Nat /\ tickets \in Nat
      BY DEF IndInv, TicketsInv, TypeOK, Envelopes
    <2>3. e.ticket \in Nat
      BY DEF Envelopes
    <2>4. ASSUME NEW f \in handed', NEW g \in handed', f.msg.from = g.msg.from,
                 f.ticket < g.ticket
          PROVE  f.msg.n < g.msg.n
      <3>1. f # e
        BY <1>7, <2>2, <2>3, <2>4
      <3>2. CASE g = e
        BY <1>7, <2>1, <2>4, <3>1, <3>2
      <3>3. CASE g # e
        BY <1>1, <1>7, <2>4, <3>1, <3>3 DEF ReceiverOrderKept
      <3> QED BY <3>2, <3>3
    <2>5. ASSUME NEW f \in handed', NEW i \in DOMAIN leftovers', f.msg.from = leftovers'[i].from
          PROVE  f.msg.n < leftovers'[i].n
      <3>1. i + 1 \in DOMAIN leftovers /\ leftovers'[i] = leftovers[i + 1] /\ i + 1 # 1
        BY <1>4
      <3>2. CASE f = e
        <4>1. leftovers[i + 1].from = m.from
          BY <1>7, <2>5, <3>1, <3>2
        <4>2. leftovers[i + 1] = m
          BY <1>1, <1>3, <3>1, <4>1 DEF LeftoversInv
        <4> QED BY <1>1, <1>3, <3>1, <4>2 DEF EachMessageInOnePlace
      <3>3. CASE f # e
        BY <1>1, <1>7, <2>5, <3>1, <3>3 DEF ReceiverOrderKept
      <3> QED BY <3>2, <3>3
    <2> QED BY <2>4, <2>5 DEF ReceiverOrderKept
  <1> QED BY <1>8, <1>9, <1>10, <1>12, <1>13 DEF IndInv

(***************************************************************************)
(* Letting go: what is ready becomes left over, or - interrupted - is      *)
(* dropped.                                                                *)
(***************************************************************************)
\* Letting go of the finished tasks, their messages kept, keeps the invariant.
LEMMA AbandonedKeeps ==
  ASSUME IndInv, Abandoned
  PROVE  IndInv'
  <1> USE DEF settling, ticketing
  <1>1. TypeOK /\ LeftoversInv /\ EachMessageInOnePlace /\ ReceiverOrderKept
    BY DEF IndInv
  <1>2. /\ gen = "abandoning" /\ gen' = "closing"
        /\ fetch' = [p \in Positions |-> "none"]
        /\ UNCHANGED <<delivered, open, ending, batch, dropped, overtaken, gets, settling, ticketing>>
    BY DEF Abandoned
  <1>3. PICK kept \in Kept : leftovers' = leftovers \o kept
    BY DEF Abandoned
  <1>4. leftovers = <<>>
    BY <1>1, <1>2 DEF LeftoversInv, AtRest
  <1>5. /\ kept \in Seq(Messages)
        /\ \A i \in DOMAIN kept : kept[i] = Latest(kept[i].from) /\ fetch[kept[i].from] = "ready"
        /\ \A i, j \in DOMAIN kept : kept[i] = kept[j] => i = j
        /\ \A p \in Positions : fetch[p] = "ready" => \E i \in DOMAIN kept : kept[i] = Latest(p)
    BY <1>1, KeptProperties
  <1>6. leftovers' = kept
    BY <1>3, <1>4, <1>5, ConcatEmptySeq
  <1>7. TypeOK'
    BY <1>1, <1>2, <1>5, <1>6 DEF TypeOK, Done
  <1>8. LeftoversInv'
    BY <1>1, <1>2, <1>5, <1>6 DEF LeftoversInv, AtRest, Latest
  <1>9. \A m \in Messages : ~InTask(m)' /\ (Left(m)' <=> InTask(m)) /\ ~Left(m)
    <2> SUFFICES ASSUME NEW m \in Messages
                 PROVE  ~InTask(m)' /\ (Left(m)' <=> InTask(m)) /\ ~Left(m)
      OBVIOUS
    <2>1. m.from \in Positions
      BY DEF Messages
    <2>2. ~InTask(m)' /\ ~Left(m)
      BY <1>2, <1>4, <2>1 DEF InTask, Left
    <2>3. Left(m)' <=> InTask(m)
      BY <1>5, <1>6, <2>1 DEF InTask, Left
    <2> QED BY <2>2, <2>3
  <1>10. EachMessageInOnePlace'
    BY <1>1, <1>2, <1>5, <1>6, <1>9 DEF EachMessageInOnePlace, Arrived, Given
  <1>11. ReceiverOrderKept'
    <2>1. ASSUME NEW e \in handed, NEW i \in DOMAIN kept, e.msg.from = kept[i].from
          PROVE  e.msg.n < kept[i].n
      <3>1. e.msg \in Messages /\ Given(e.msg) /\ kept[i] \in Messages
        BY <1>1, <1>5 DEF TypeOK, Envelopes, Given
      <3>2. InTask(kept[i])
        BY <1>5 DEF InTask
      <3>3. Arrived(e.msg) /\ e.msg # kept[i]
        BY <1>1, <3>1, <3>2 DEF EachMessageInOnePlace
      <3>4. kept[i].n = delivered[e.msg.from]
        BY <1>5, <2>1 DEF Latest
      <3>5. e.msg.n # kept[i].n
        BY <2>1, <3>1, <3>3 DEF Messages
      <3>6. e.msg.n <= kept[i].n /\ e.msg.n \in Nat /\ kept[i].n \in Nat
        BY <3>1, <3>3, <3>4 DEF Arrived, Messages
      <3> QED BY <3>5, <3>6
    <2> QED BY <1>1, <1>2, <1>6, <2>1 DEF ReceiverOrderKept
  <1>12. TicketsInv' /\ SettledAsAsked' /\ OutstandingIsUnsettled'
    BY <1>2 DEF IndInv, TicketsInv, Given, SettledAsAsked, OutstandingIsUnsettled
  <1> QED BY <1>7, <1>8, <1>10, <1>11, <1>12 DEF IndInv

\* Letting go of them with their messages dropped keeps it, too.
LEMMA AbandonInterruptedKeeps ==
  ASSUME IndInv, AbandonInterrupted
  PROVE  IndInv'
  <1> USE DEF settling, ticketing
  <1>1. TypeOK /\ LeftoversInv /\ EachMessageInOnePlace /\ ReceiverOrderKept
    BY DEF IndInv
  <1>2. /\ gen = "abandoning" /\ gen' = "idle"
        /\ dropped' = dropped \cup {Latest(p) : p \in {q \in Positions : fetch[q] = "ready"}}
        /\ fetch' = [p \in Positions |-> "none"]
        /\ UNCHANGED <<delivered, open, ending, batch, leftovers, overtaken, gets, settling, ticketing>>
    BY DEF AbandonInterrupted
  <1>3. \A p \in Positions : fetch[p] = "ready" => Latest(p) \in Messages /\ Latest(p).from = p
    BY <1>1, ConstantsAssumption DEF ConstantsAssumption, LeftoversInv, TypeOK, Latest, Messages
  <1>4. TypeOK'
    BY <1>1, <1>2, <1>3 DEF TypeOK, Done
  <1>5. LeftoversInv'
    BY <1>1, <1>2 DEF LeftoversInv, AtRest, Latest
  <1>6. leftovers = <<>>
    BY <1>1, <1>2 DEF LeftoversInv, AtRest
  <1>7. \A m \in Messages : ~InTask(m)' /\ ~Left(m)' /\ (m \in dropped' <=> m \in dropped \/ InTask(m))
    <2> SUFFICES ASSUME NEW m \in Messages
                 PROVE  ~InTask(m)' /\ ~Left(m)' /\ (m \in dropped' <=> m \in dropped \/ InTask(m))
      OBVIOUS
    <2>1. m.from \in Positions
      BY DEF Messages
    <2> QED BY <1>2, <1>3, <1>6, <2>1 DEF InTask, Left
  <1>8. EachMessageInOnePlace'
    <2>1. \A m \in Messages : (Arrived(m)' <=> Arrived(m)) /\ (Given(m)' <=> Given(m))
      BY <1>2 DEF Arrived, Given
    <2> QED BY <1>1, <1>2, <1>6, <1>7, <2>1 DEF EachMessageInOnePlace, Left
  <1>9. ReceiverOrderKept'
    BY <1>1, <1>2 DEF ReceiverOrderKept
  <1>10. TicketsInv' /\ SettledAsAsked' /\ OutstandingIsUnsettled'
    BY <1>2 DEF IndInv, TicketsInv, Given, SettledAsAsked, OutstandingIsUnsettled
  <1> QED BY <1>4, <1>5, <1>8, <1>9, <1>10 DEF IndInv

(***************************************************************************)
(* Settling: the ticket an envelope carries stands for its own message, if *)
(* it stands for anything still.                                           *)
(***************************************************************************)
\* What a settlement takes is the envelope's own ticket, if its message is unsettled, or else
\* nothing.
LEMMA TakenIsOwn ==
  ASSUME IndInv, NEW e \in handed
  PROVE  /\ e \in Envelopes /\ e.msg \in Messages
         /\ Taken(e) = IF wanted[e.msg] = "none" THEN {e} ELSE {}
  <1>1. e \in Envelopes /\ e.msg \in Messages
    BY DEF IndInv, TypeOK, Envelopes
  <1>2. \A o \in Taken(e) : o = e /\ wanted[e.msg] = "none"
    BY DEF IndInv, Taken, OutstandingIsUnsettled, TicketsInv
  <1>3. wanted[e.msg] = "none" => e \in Taken(e)
    BY DEF IndInv, Taken, OutstandingIsUnsettled
  <1>4. CASE wanted[e.msg] = "none"
    BY <1>1, <1>2, <1>3, <1>4
  <1>5. CASE wanted[e.msg] # "none"
    BY <1>1, <1>2, <1>5
  <1> QED BY <1>4, <1>5

\* Ack and reject keep the invariant.
LEMMA SettlingKeeps ==
  ASSUME IndInv, NEW e \in handed, Ack(e) \/ Reject(e)
  PROVE  IndInv'
  <1>1. TypeOK /\ TicketsInv /\ SettledAsAsked /\ OutstandingIsUnsettled
    BY DEF IndInv
  <1>2. UNCHANGED <<receiving, tickets, handed>> /\ outstanding' = Untaken(e)
    BY DEF Ack, Reject
  <1>3. e \in Envelopes /\ e.msg \in Messages /\ Taken(e) = IF wanted[e.msg] = "none" THEN {e} ELSE {}
    BY TakenIsOwn
  <1>4. LeftoversInv' /\ EachMessageInOnePlace' /\ ReceiverOrderKept'
    BY <1>2
    DEF IndInv, LeftoversInv, AtRest, Latest, EachMessageInOnePlace, Arrived, InTask, Left,
        Given, ReceiverOrderKept, receiving
  <1>5. ASSUME wanted[e.msg] # "none"
        PROVE  UNCHANGED <<wanted, acks, rejects, outstanding>>
    BY <1>1, <1>2, <1>3, <1>5 DEF Ack, Reject, Asked, Told, Untaken, TypeOK
  <1>6. ASSUME wanted[e.msg] = "none"
        PROVE  /\ outstanding' = outstanding \ {e}
               /\ \/ /\ wanted' = [wanted EXCEPT ![e.msg] = "ack"]
                     /\ acks' = [acks EXCEPT ![e.msg] = @ + 1]
                     /\ rejects' = rejects
                  \/ /\ wanted' = [wanted EXCEPT ![e.msg] = "reject"]
                     /\ rejects' = [rejects EXCEPT ![e.msg] = @ + 1]
                     /\ acks' = acks
    <2>1. outstanding' = outstanding \ {e}
      BY <1>2, <1>3, <1>6 DEF Untaken
    <2>2. Told(acks, Taken(e)) = [acks EXCEPT ![e.msg] = @ + 1]
      BY <1>1, <1>3, <1>6 DEF Told, TypeOK
    <2>3. Told(rejects, Taken(e)) = [rejects EXCEPT ![e.msg] = @ + 1]
      BY <1>1, <1>3, <1>6 DEF Told, TypeOK
    <2> QED BY <1>1, <1>3, <1>6, <2>1, <2>2, <2>3 DEF Ack, Reject, Asked, TypeOK
  <1>7. CASE wanted[e.msg] # "none"
    <2>1. UNCHANGED <<receiving, tickets, handed, wanted, acks, rejects, outstanding>>
      BY <1>2, <1>5, <1>7
    <2>2. TypeOK' /\ TicketsInv' /\ SettledAsAsked' /\ OutstandingIsUnsettled'
      BY <1>1, <2>1
      DEF TypeOK, TicketsInv, Given, SettledAsAsked, OutstandingIsUnsettled, receiving
    <2> QED BY <1>4, <2>2 DEF IndInv
  <1>8. CASE wanted[e.msg] = "none"
    <2>1. TypeOK'
      <3>1. wanted' \in [Messages -> {"none", "ack", "reject"}]
        BY <1>1, <1>6, <1>8 DEF TypeOK
      <3>2. acks' \in [Messages -> Nat] /\ rejects' \in [Messages -> Nat]
        <4>1. acks[e.msg] + 1 \in Nat /\ rejects[e.msg] + 1 \in Nat
          BY <1>1, <1>3 DEF TypeOK
        <4>2. /\ [acks EXCEPT ![e.msg] = @ + 1] \in [Messages -> Nat]
              /\ [rejects EXCEPT ![e.msg] = @ + 1] \in [Messages -> Nat]
          BY <1>1, <4>1 DEF TypeOK
        <4>3. acks' \in {acks, [acks EXCEPT ![e.msg] = @ + 1]}
          BY <1>6, <1>8
        <4>4. rejects' \in {rejects, [rejects EXCEPT ![e.msg] = @ + 1]}
          BY <1>6, <1>8
        <4> QED BY <1>1, <4>2, <4>3, <4>4 DEF TypeOK
      <3>3. outstanding' \subseteq Envelopes
        BY <1>1, <1>6, <1>8 DEF TypeOK
      <3> QED BY <1>1, <1>2, <3>1, <3>2, <3>3 DEF TypeOK, receiving
    <2>2. TicketsInv'
      BY <1>1, <1>2, <1>3, <1>6, <1>8 DEF TicketsInv, Given, TypeOK
    <2>3. SettledAsAsked'
      BY <1>1, <1>3, <1>6, <1>8 DEF SettledAsAsked, TypeOK
    <2>4. OutstandingIsUnsettled'
      <3>1. \A f \in handed : f.msg \in Messages /\ (f.msg = e.msg => f = e)
        BY DEF IndInv, EachMessageInOnePlace, TypeOK, Envelopes
      <3>2. \A f \in handed : wanted'[f.msg] = "none" <=> wanted[f.msg] = "none" /\ f # e
        BY <1>1, <1>3, <1>6, <1>8, <3>1 DEF TypeOK
      <3> QED BY <1>1, <1>2, <1>6, <1>8, <3>2 DEF OutstandingIsUnsettled
    <2> QED BY <1>4, <2>1, <2>2, <2>3, <2>4 DEF IndInv
  <1> QED BY <1>7, <1>8

-----------------------------------------------------------------------------
\* The initial state satisfies the invariant.
LEMMA InitIndInv == Init => IndInv
  <1> SUFFICES ASSUME Init PROVE IndInv
    OBVIOUS
  <1> USE DEF Init
  <1>1. TypeOK
    BY ConstantsAssumption DEF TypeOK, ConstantsAssumption, Done
  <1>2. LeftoversInv /\ TicketsInv /\ ReceiverOrderKept /\ SettledAsAsked /\ OutstandingIsUnsettled
    BY DEF LeftoversInv, TicketsInv, ReceiverOrderKept, SettledAsAsked, OutstandingIsUnsettled
  <1>3. EachMessageInOnePlace
    BY DEF EachMessageInOnePlace, Arrived, InTask, Left, Given, Messages
  <1> QED BY <1>1, <1>2, <1>3 DEF IndInv

\* Every step keeps the invariant.
LEMMA NextIndInv == IndInv /\ [Next]_vars => IndInv'
  <1> SUFFICES ASSUME IndInv, [Next]_vars PROVE IndInv'
    OBVIOUS
  <1>1. CASE Generator
    BY <1>1, GeneratorMovesAlong, ServeMessageKeeps, AbandonedKeeps, AbandonInterruptedKeeps
    DEF Generator
  <1>2. CASE Consumer
    BY <1>2, GeneratorMovesAlong, HandLeftoverKeeps, SettlingKeeps DEF Consumer
  <1>3. CASE Receivers
    BY <1>3, DeliverKeeps, ReceiverStops DEF Receivers
  <1>4. CASE CloseRaises \/ Interrupt
    BY <1>4, GeneratorMovesAlong
  <1>5. CASE UNCHANGED vars
    <2>1. TypeOK' /\ LeftoversInv'
      BY <1>5 DEF vars, receiving, settling, ticketing, IndInv, TypeOK, LeftoversInv, AtRest, Latest
    <2> QED BY <1>5, <2>1, MovesAlong DEF vars, receiving
  <1> QED BY <1>1, <1>2, <1>3, <1>4, <1>5 DEF Next

\* The inductive invariant holds throughout, whatever the receivers and the consumer do.
THEOREM Inductive == Spec => []IndInv
  <1> QED BY InitIndInv, NextIndInv, PTL DEF Spec

\* Type correctness of ChainedReceiver.
THEOREM TypeCorrect == Spec => []TypeOK
  <1>1. IndInv => TypeOK
    BY DEF IndInv
  <1> QED BY <1>1, Inductive, PTL

\* Through every get() and stop, a delivered message is in one place, and only there.
THEOREM OnePlace == Spec => []EachMessageInOnePlace
  <1>1. IndInv => EachMessageInOnePlace
    BY DEF IndInv
  <1> QED BY <1>1, Inductive, PTL

\* Each receiver's own order is kept across get()s, leftovers included.
THEOREM OrderKept == Spec => []ReceiverOrderKept
  <1>1. IndInv => ReceiverOrderKept
    BY DEF IndInv
  <1> QED BY <1>1, Inductive, PTL

\* Every message is settled at most once, on its own receiver, and the way it was
\* settled first.
THEOREM SettledOnce == Spec => []SettledAsAsked
  <1>1. IndInv => SettledAsAsked
    BY DEF IndInv
  <1> QED BY <1>1, Inductive, PTL

\* The tickets outstanding are those of the messages in hand and unsettled.
THEOREM TicketsReleased == Spec => []OutstandingIsUnsettled
  <1>1. IndInv => OutstandingIsUnsettled
    BY DEF IndInv
  <1> QED BY <1>1, Inductive, PTL

-----------------------------------------------------------------------------
(***************************************************************************)
(* No receiver is starved.                                                 *)
(***************************************************************************)
\* The tasks of this round that are served before p's.
Ahead(p) == IF p \in batch THEN {q \in batch : q < p} ELSE batch

\* How often p may have been overtaken once those are served: in the round p's message came
\* in by every other receiver, and in its own by those given before it.
Bound(p) == IF p \in batch \/ gen = "abandoning" THEN (N - 1) + (p - 1) ELSE N - 1

\* Tasks are looked at in rounds, each of tasks that were done as it began.
RoundInv ==
  /\ gen \notin {"serving", "yielded"} => batch = {}
  /\ \A p \in batch : fetch[p] \in Done
  /\ \A p \in Positions :
       fetch[p] = "ready" => overtaken[p] + Cardinality(Ahead(p)) <= Bound(p)

\* At most N - 1 others are in a round, and at most p - 1 of them come before p.
LEMMA OfARound ==
  ASSUME NEW S \in SUBSET Positions, NEW p \in Positions
  PROVE  /\ IsFiniteSet(S) /\ Cardinality(S) \in Nat
         /\ p \notin S => Cardinality(S) <= N - 1
         /\ IsFiniteSet({q \in S : q < p}) /\ Cardinality({q \in S : q < p}) \in Nat
         /\ Cardinality({q \in S : q < p}) <= p - 1
  <1>1. N \in Nat /\ p \in Int /\ p \in 1..N
    BY ConstantsAssumption DEF Positions
  <1>2. IsFiniteSet(1..N) /\ Cardinality(1..N) = N
    <2>1. IsFiniteSet(1..N) /\ Cardinality(1..N) = IF 1 > N THEN 0 ELSE N - 1 + 1
      BY <1>1, FS_Interval
    <2> QED BY <1>1, <2>1
  <1>3. IsFiniteSet(S) /\ Cardinality(S) \in Nat
    BY <1>2, FS_Subset, FS_CardinalityType DEF Positions
  <1>4. p \notin S => Cardinality(S) <= N - 1
    <2>1. IsFiniteSet((1..N) \ {p}) /\ Cardinality((1..N) \ {p}) = N - 1
      <3>1. /\ IsFiniteSet((1..N) \ {p})
            /\ Cardinality((1..N) \ {p}) =
                 IF p \in 1..N THEN Cardinality(1..N) - 1 ELSE Cardinality(1..N)
        BY <1>2, FS_RemoveElement, Zenon
      <3> QED BY <1>1, <1>2, <3>1
    <2>2. p \notin S => S \in SUBSET ((1..N) \ {p})
      BY DEF Positions
    <2> QED BY <2>1, <2>2, FS_Subset
  <1>5. IsFiniteSet(1..(p - 1)) /\ Cardinality(1..(p - 1)) = p - 1
    <2>1. p - 1 \in Int /\ 1 \in Int
      BY <1>1
    <2>2. /\ IsFiniteSet(1..(p - 1))
          /\ Cardinality(1..(p - 1)) = IF 1 > p - 1 THEN 0 ELSE (p - 1) - 1 + 1
      BY <2>1, FS_Interval
    <2> QED BY <1>1, <2>2
  <1>6. {q \in S : q < p} \in SUBSET (1..(p - 1))
    <2>1. \A q \in S : q < p => q \in 1..(p - 1)
      BY <1>1 DEF Positions
    <2> QED BY <2>1
  <1>7. /\ IsFiniteSet({q \in S : q < p}) /\ Cardinality({q \in S : q < p}) \in Nat
        /\ Cardinality({q \in S : q < p}) <= Cardinality(1..(p - 1))
    BY <1>5, <1>6, FS_Subset, FS_CardinalityType
  <1> QED BY <1>3, <1>4, <1>5, <1>7

\* The same of the tasks ahead of p, and p's bound is one of the two.
LEMMA AheadOf ==
  ASSUME TypeOK, NEW p \in Positions
  PROVE  /\ IsFiniteSet(Ahead(p)) /\ Cardinality(Ahead(p)) \in Nat
         /\ N \in Nat /\ p \in Nat /\ p >= 1 /\ overtaken[p] \in Nat
         /\ Bound(p) <= (N - 1) + (p - 1)
  <1>1. batch \in SUBSET Positions /\ overtaken[p] \in Nat
    BY DEF TypeOK
  <1>2. N \in Nat /\ p \in Nat /\ p >= 1
    BY ConstantsAssumption DEF Positions
  <1>3. IsFiniteSet(Ahead(p)) /\ Cardinality(Ahead(p)) \in Nat
    BY <1>1, OfARound DEF Ahead
  <1> QED BY <1>1, <1>2, <1>3 DEF Bound

LEMMA RoundInit == Init => RoundInv
  BY DEF Init, RoundInv, Positions

\* A get() that lets go serves no one any more.
LEMMA LetsGo ==
  ASSUME TypeOK, RoundInv, batch' = {}, gen' = "abandoning", overtaken' = overtaken,
         \A q \in Positions : fetch'[q] = "ready" => fetch[q] = "ready"
  PROVE  RoundInv'
  <1>1. ASSUME NEW q \in Positions, fetch'[q] = "ready"
        PROVE  overtaken[q] + Cardinality({}) <= (N - 1) + (q - 1)
    <2>1. overtaken[q] + Cardinality(Ahead(q)) <= Bound(q)
      BY <1>1 DEF RoundInv
    <2>2. Cardinality({}) = 0
      BY FS_EmptySet
    <2> QED BY <2>1, <2>2, AheadOf DEF Bound
  <1> QED BY <1>1 DEF RoundInv, Ahead, Bound

\* A round begins with every task done by then.
LEMMA WakesUp ==
  ASSUME TypeOK, RoundInv, WakeUp
  PROVE  RoundInv'
  <1>1. batch = {} /\ gen = "waiting"
    BY DEF RoundInv, WakeUp
  <1>2. batch' = {p \in Positions : fetch[p] \in Done} /\ gen' = "serving" /\ UNCHANGED <<fetch, overtaken>>
    BY DEF WakeUp, DoneNow
  <1>3. ASSUME NEW p \in Positions, fetch[p] = "ready"
        PROVE  /\ p \in batch'
               /\ overtaken[p] + Cardinality({q \in batch' : q < p}) <= (N - 1) + (p - 1)
    <2>1. p \in batch'
      BY <1>2, <1>3 DEF Done
    <2>2. overtaken[p] <= N - 1
      <3>1. overtaken[p] + Cardinality({}) <= N - 1
        BY <1>1, <1>3 DEF RoundInv, Ahead, Bound
      <3> QED BY <3>1, AheadOf, FS_EmptySet
    <2>3. Cardinality({q \in batch' : q < p}) \in Nat /\ Cardinality({q \in batch' : q < p}) <= p - 1
      <3>1. PICK S \in SUBSET Positions : S = batch'
        BY <1>2
      <3>2. Cardinality({q \in S : q < p}) \in Nat /\ Cardinality({q \in S : q < p}) <= p - 1
        BY OfARound
      <3> QED BY <3>1, <3>2
    <2> QED BY <2>1, <2>2, <2>3, AheadOf
  <1> QED BY <1>2, <1>3 DEF RoundInv, Ahead, Bound

\* Serving the first of the round takes it from what is ahead of the others.
LEMMA Serves ==
  ASSUME TypeOK, RoundInv, NEW first \in First(batch),
         batch' = batch \ {first}, fetch'[first] # "ready", gen' \in {"serving", "yielded"},
         \A q \in Positions : q # first => fetch'[q] = fetch[q],
         \A q \in Positions : q # first => overtaken'[q] \in {overtaken[q], overtaken[q] + 1},
         gen \in {"serving", "yielded"}
  PROVE  RoundInv'
  <1>1. first \in batch /\ first \in Positions /\ \A q \in batch : first <= q
    BY DEF First, TypeOK
  <1>2. \A q \in batch' : fetch'[q] \in Done
    BY <1>1 DEF RoundInv, TypeOK
  <1>3. ASSUME NEW p \in Positions, fetch'[p] = "ready"
        PROVE  overtaken'[p] + Cardinality(Ahead(p))' <= Bound(p)'
    <2>1. p # first /\ fetch[p] = "ready"
      BY <1>3
    <2>2. overtaken[p] + Cardinality(Ahead(p)) <= Bound(p)
      BY <2>1 DEF RoundInv
    <2>3. first \in Ahead(p)
      <3>1. p \in batch => first < p
        BY <1>1, <2>1 DEF Positions
      <3> QED BY <1>1, <3>1 DEF Ahead
    <2>4. Ahead(p)' = Ahead(p) \ {first} /\ Bound(p)' = Bound(p)
      BY <2>1 DEF Ahead, Bound
    <2>5. Cardinality(Ahead(p))' = Cardinality(Ahead(p)) - 1
      <3>1. Cardinality(Ahead(p) \ {first}) = Cardinality(Ahead(p)) - 1
        BY <2>3, AheadOf, FS_RemoveElement
      <3> QED BY <2>4, <3>1
    <2> QED BY <2>1, <2>2, <2>4, <2>5, AheadOf DEF Bound
  <1> QED BY <1>2, <1>3 DEF RoundInv

\* A message arrives: nobody has overtaken it, and it is in no round yet.
LEMMA Arrives ==
  ASSUME TypeOK, RoundInv, NEW p \in Positions, Deliver(p)
  PROVE  RoundInv'
  <1>1. /\ fetch[p] = "pending" /\ fetch' = [fetch EXCEPT ![p] = "ready"]
        /\ overtaken' = [overtaken EXCEPT ![p] = 0] /\ UNCHANGED <<gen, batch>>
    BY DEF Deliver, Outcome
  <1>2. p \notin batch
    BY <1>1 DEF RoundInv, Done
  <1>3. overtaken'[p] + Cardinality(batch) <= Bound(p)
    <2>1. Cardinality(batch) \in Nat /\ Cardinality(batch) <= N - 1
      <3>1. PICK S \in SUBSET Positions : S = batch
        BY DEF TypeOK
      <3> QED BY <1>2, <3>1, OfARound
    <2>2. overtaken'[p] = 0
      BY <1>1 DEF TypeOK
    <2> QED BY <2>1, <2>2, AheadOf DEF Bound
  <1>4. /\ \A q \in batch : fetch'[q] \in Done
        /\ \A q \in Positions : q # p => fetch'[q] = fetch[q] /\ overtaken'[q] = overtaken[q]
    BY <1>1, <1>2 DEF RoundInv, TypeOK
  <1>5. ASSUME NEW q \in Positions, fetch'[q] = "ready"
        PROVE  overtaken'[q] + Cardinality(Ahead(q)) <= Bound(q)
    <2>1. CASE q = p
      BY <1>2, <1>3, <2>1 DEF Ahead
    <2>2. CASE q # p
      BY <1>4, <1>5, <2>2 DEF RoundInv
    <2> QED BY <2>1, <2>2
  <1> QED BY <1>1, <1>4, <1>5 DEF RoundInv, Ahead, Bound

LEMMA RoundNext ==
  ASSUME IndInv, IndInv', RoundInv, [Next]_vars
  PROVE  RoundInv'
  <1>1. TypeOK /\ \A p \in Positions : fetch[p] \in {"none", "pending"} \cup Done
    BY DEF IndInv, TypeOK
  <1>2. ASSUME AtRest', batch = {}, batch' = {} PROVE RoundInv'
    <2>1. \A p \in Positions : fetch'[p] = "none"
      BY <1>2 DEF IndInv, LeftoversInv
    <2> QED BY <1>2, <2>1 DEF RoundInv, AtRest
  <1>3. ASSUME UNCHANGED <<fetch, batch, overtaken>>, gen \in {"serving", "yielded"} \/ gen' = gen,
               gen' = gen \/ gen' = "serving" \/ (gen' = "waiting" /\ batch = {})
        PROVE  RoundInv'
    BY <1>3 DEF RoundInv, Ahead, Bound
  <1>4. CASE Get \/ HandLeftover \/ CloseEarly \/ CloseStream \/ Over \/ CloseRaises
    <2>1. AtRest' /\ batch = {} /\ batch' = {}
      BY <1>4 DEF Get, HandLeftover, CloseEarly, CloseStream, Over, CloseRaises, AtRest, RoundInv
    <2> QED BY <1>2, <2>1
  <1>5. CASE Abandoned \/ AbandonInterrupted
    <2>1. AtRest' /\ batch = {} /\ batch' = {}
      BY <1>5 DEF Abandoned, AbandonInterrupted, AtRest, RoundInv
    <2> QED BY <1>2, <2>1
  <1>6. CASE OpenStreams
    BY <1>6 DEF OpenStreams, MayOpen, RoundInv
  <1>7. CASE Wait \/ Resume
    BY <1>3, <1>7 DEF Wait, Resume
  <1>8. CASE WakeUp
    BY <1>1, <1>8, WakesUp
  <1>9. CASE Exhausted \/ Cancel \/ CloseYielded
    BY <1>1, <1>9, LetsGo DEF Exhausted, Cancel, CloseYielded, RoundInv
  <1>10. CASE ServeFailure
    BY <1>1, <1>10, LetsGo DEF ServeFailure, First, TypeOK
  <1>11. CASE ServeMessage
    <2>1. PICK p \in First(batch) :
            /\ fetch[p] = "ready" /\ batch' = batch \ {p}
            /\ fetch' = [fetch EXCEPT ![p] = "pending"]
            /\ overtaken' = [q \in Positions |-> IF q # p /\ fetch[q] = "ready" THEN overtaken[q] + 1
                                                  ELSE overtaken[q]]
      BY <1>11 DEF ServeMessage
    <2>2. gen = "serving" /\ gen' = "yielded" /\ p \in Positions
      BY <1>1, <1>11, <2>1 DEF ServeMessage, First, TypeOK
    <2> QED BY <1>1, <2>1, <2>2, Serves DEF TypeOK
  <1>12. CASE ServeEnd
    <2>1. PICK p \in First(batch) :
            /\ fetch[p] = "ended" /\ batch' = batch \ {p}
            /\ fetch' = [fetch EXCEPT ![p] = "none"]
      BY <1>12 DEF ServeEnd
    <2>2. gen = "serving" /\ gen' = gen /\ p \in Positions /\ overtaken' = overtaken
      BY <1>1, <1>12, <2>1 DEF ServeEnd, First, TypeOK
    <2> QED BY <1>1, <2>1, <2>2, Serves DEF TypeOK
  <1>13. CASE Interrupt
    <2>1. CASE gen' = gen
      BY <1>3, <1>13, <2>1 DEF Interrupt
    <2>2. CASE gen = "closing" /\ gen' = "idle"
      BY <1>2, <1>13, <2>2 DEF Interrupt, AtRest, RoundInv
    <2> QED BY <1>13, <2>1, <2>2 DEF Interrupt
  <1>14. ASSUME NEW e \in handed, Ack(e) \/ Reject(e) PROVE RoundInv'
    BY <1>3, <1>14 DEF Ack, Reject, receiving
  <1>15. ASSUME NEW p \in Positions, Deliver(p) PROVE RoundInv'
    BY <1>1, <1>15, Arrives
  <1>16. ASSUME NEW p \in Positions, End(p) \/ Fail(p) \/ Cancelled(p) PROVE RoundInv'
    <2>1. PICK what \in {"ended", "failed", "cancelled"} : fetch' = [fetch EXCEPT ![p] = what]
      BY <1>16 DEF End, Fail, Cancelled, Outcome
    <2>2. fetch[p] = "pending" /\ UNCHANGED <<gen, batch, overtaken>>
      BY <1>16 DEF End, Fail, Cancelled, Outcome
    <2>3. /\ \A q \in batch : fetch'[q] \in Done
          /\ \A q \in Positions : fetch'[q] = "ready" => fetch[q] = "ready"
      BY <1>1, <2>1, <2>2 DEF RoundInv, TypeOK, Done
    <2> QED BY <2>2, <2>3 DEF RoundInv, Ahead, Bound
  <1>17. CASE UNCHANGED vars
    BY <1>3, <1>17 DEF vars, receiving
  <1> QED
    BY <1>4, <1>5, <1>6, <1>7, <1>8, <1>9, <1>10, <1>11, <1>12, <1>13, <1>14, <1>15, <1>16, <1>17
    DEF Next, Generator, Consumer, Receivers

\* "one that never runs dry does not keep the others from being served": for any number of
\* receivers, a message that waits is overtaken once by each of the others, and once more by
\* those given before its own.
THEOREM NoneStarved == Spec => []BoundedOvertaking
  <1>1. IndInv /\ RoundInv => BoundedOvertaking
    <2> SUFFICES ASSUME IndInv, RoundInv, NEW p \in Positions, fetch[p] = "ready"
                 PROVE  overtaken[p] <= (N - 1) + (p - 1)
      BY DEF BoundedOvertaking
    <2>1. overtaken[p] + Cardinality(Ahead(p)) <= Bound(p) /\ TypeOK
      BY DEF RoundInv, IndInv
    <2> QED BY <2>1, AheadOf DEF Bound
  <1>2. RoundInv /\ IndInv /\ IndInv' /\ [Next]_vars => RoundInv'
    BY RoundNext
  <1> QED BY <1>1, <1>2, RoundInit, Inductive, PTL DEF Spec

-----------------------------------------------------------------------------
(***************************************************************************)
(* Without an interruption nothing is dropped, and the chain implements    *)
(* the one receiver a worker expects.                                      *)
(***************************************************************************)
Uncut == ending # "interrupted" /\ dropped = {}

\* Without interruptions nothing is ever dropped.
LEMMA UncutKept ==
  ASSUME "interrupt" \notin Faults, Uncut, [Next]_vars
  PROVE  Uncut'
  <1> USE DEF Uncut, vars, receiving
  <1>1. CASE Generator
    BY <1>1
    DEF Generator, Wait, Exhausted, WakeUp, ServeMessage, ServeEnd, ServeFailure, Abandoned,
        AbandonInterrupted, CloseStream, Over
  <1>2. CASE Consumer
    BY <1>2
    DEF Consumer, Get, HandLeftover, OpenStreams, Resume, Cancel, CloseEarly, CloseYielded,
        Ack, Reject
  <1>3. CASE Receivers
    BY <1>3 DEF Receivers, Deliver, End, Fail, Cancelled, Outcome
  <1>4. CASE CloseRaises \/ Interrupt
    BY <1>4 DEF CloseRaises, Interrupt
  <1> QED BY <1>1, <1>2, <1>3, <1>4 DEF Next

\* A stop loses nothing a receiver delivered in that moment, unless a cancellation
\* reaches get() while it lets go of its receivers.
THEOREM NothingLost == ASSUME "interrupt" \notin Faults PROVE Spec => []NoMessageLost
  <1>1. Init => Uncut
    BY DEF Init, Uncut
  <1>2. Uncut /\ [Next]_vars => Uncut'
    BY UncutKept
  <1>3. IndInv /\ Uncut => NoMessageLost
    BY DEF IndInv, Uncut, NoMessageLost, EachMessageInOnePlace
  <1> QED BY <1>1, <1>2, <1>3, Inductive, PTL DEF Spec

Handed  == {e.msg : e \in handed}
Settled == [m \in Messages |-> IF acks[m] > 0 THEN "ack"
                              ELSE IF rejects[m] > 0 THEN "reject" ELSE "none"]

\* Handing out the latest delivery of its receiver is the abstract Hand.
LEMMA HandsNext ==
  ASSUME IndInv, Uncut, NEW m \in Messages, m = Latest(m.from), InTask(m) \/ Left(m),
         Ticketed(m), UNCHANGED settling
  PROVE  R!Hand(m)
  <1>1. TypeOK /\ LeftoversInv /\ EachMessageInOnePlace
    BY DEF IndInv
  <1>2. ~Given(m)
    BY <1>1 DEF EachMessageInOnePlace
  <1>3. \A k \in Messages : k.from = m.from /\ k.n < m.n => Given(k)
    <2> SUFFICES ASSUME NEW k \in Messages, k.from = m.from, k.n < m.n PROVE Given(k)
      OBVIOUS
    <2>1. m.n = delivered[k.from] /\ k # m
      BY DEF Latest, Messages
    <2>2. Arrived(k)
      BY <2>1, <1>1 DEF Arrived, Messages
    <2>3. ~InTask(k)
      BY <2>1 DEF InTask
    <2>4. ~Left(k)
      BY <1>1, <2>1 DEF Left, LeftoversInv
    <2> QED BY <1>1, <2>2, <2>3, <2>4 DEF EachMessageInOnePlace, Uncut
  <1>4. Handed' = Handed \cup {m}
    <2>1. PICK e : handed' = handed \cup {e} /\ e.msg = m
      <3>1. PICK e : e = [ticket |-> tickets + 1, msg |-> m]
        OBVIOUS
      <3>2. handed' = handed \cup {e}
        BY <3>1 DEF Ticketed
      <3>3. e.msg = m
        BY <3>1
      <3> QED BY <3>2, <3>3
    <2>2. \A x : x \in Handed' <=> x \in Handed \/ x = m
      BY <2>1 DEF Handed
    <2> QED BY <2>2
  <1>5. Settled' = Settled
    BY DEF Settled, settling
  <1>6. \A k : Given(k) <=> k \in Handed
    BY DEF Given, Handed
  <1> QED BY <1>2, <1>3, <1>4, <1>5, <1>6 DEF R!Hand, R!Messages, Messages, Handed, Settled

\* Every step is a step of the abstract receiver, or none.
LEMMA StepsRefine ==
  ASSUME IndInv, Uncut, "interrupt" \notin Faults, [Next]_vars
  PROVE  [R!Next]_(R!vars)
  <1>1. TypeOK /\ LeftoversInv /\ EachMessageInOnePlace
    BY DEF IndInv
  <1>2. ASSUME UNCHANGED <<handed, acks, rejects>> PROVE UNCHANGED R!vars
    BY <1>2 DEF R!vars, Handed, Settled
  <1>3. \A m \in Messages : R!Hand(m) => R!Next
    BY DEF R!Next, R!Messages, Messages
  <1>4. CASE ServeMessage
    <2>1. PICK p \in First(batch) : fetch[p] = "ready" /\ Ticketed(Latest(p))
      BY <1>4 DEF ServeMessage
    <2>2. p \in Positions
      BY <1>1, <2>1 DEF First, TypeOK
    <2>3. Latest(p) \in Messages /\ Latest(p).from = p
      BY <1>1, <2>1, <2>2, ConstantsAssumption
      DEF ConstantsAssumption, LeftoversInv, TypeOK, Latest, Messages
    <2>4. InTask(Latest(p)) /\ UNCHANGED settling
      BY <1>4, <2>1, <2>3 DEF InTask, ServeMessage
    <2> QED BY <1>3, <2>1, <2>3, <2>4, HandsNext
  <1>5. CASE HandLeftover
    <2>1. leftovers # <<>> /\ Ticketed(Head(leftovers)) /\ UNCHANGED settling
      BY <1>5 DEF HandLeftover
    <2>2. Head(leftovers) \in Messages /\ 1 \in DOMAIN leftovers /\ Head(leftovers) = leftovers[1]
      BY <1>1, <2>1 DEF TypeOK
    <2>3. Left(Head(leftovers)) /\ Head(leftovers) = Latest(Head(leftovers).from)
      BY <1>1, <2>2 DEF Left, LeftoversInv
    <2> QED BY <1>3, <2>1, <2>2, <2>3, HandsNext
  <1>6. ASSUME NEW e \in handed, Ack(e) \/ Reject(e)
        PROVE  [R!Next]_(R!vars)
    <2> DEFINE m == e.msg
    <2>1. m \in Messages /\ Taken(e) = IF wanted[m] = "none" THEN {e} ELSE {}
      BY TakenIsOwn
    <2>2. UNCHANGED handed
      BY <1>6 DEF Ack, Reject
    <2>3. CASE wanted[m] # "none"
      BY <1>1, <1>2, <1>6, <2>1, <2>2, <2>3 DEF Ack, Reject, Told, TypeOK
    <2>4. CASE wanted[m] = "none"
      <3>1. acks[m] = 0 /\ rejects[m] = 0
        BY <2>1, <2>4 DEF IndInv, SettledAsAsked
      <3>2. PICK how \in {"ack", "reject"} : Settled' = [Settled EXCEPT ![m] = how]
        <4>1. \A k \in Messages : acks[k] \in Nat /\ rejects[k] \in Nat
          BY <1>1 DEF TypeOK
        <4>2. CASE Ack(e)
          <5>1. acks' = [k \in Messages |-> IF k = m THEN acks[k] + 1 ELSE acks[k]]
            BY <2>1, <2>4, <4>2 DEF Ack, Told
          <5>2. rejects' = rejects
            BY <4>2 DEF Ack
          <5>3. \A k \in Messages : Settled'[k] = IF k = m THEN "ack" ELSE Settled[k]
            BY <3>1, <4>1, <5>1, <5>2 DEF Settled
          <5> QED BY <5>3 DEF Settled
        <4>3. CASE Reject(e)
          <5>1. rejects' = [k \in Messages |-> IF k = m THEN rejects[k] + 1 ELSE rejects[k]]
            BY <2>1, <2>4, <4>3 DEF Reject, Told
          <5>2. acks' = acks
            BY <4>3 DEF Reject
          <5>3. \A k \in Messages : Settled'[k] = IF k = m THEN "reject" ELSE Settled[k]
            BY <3>1, <4>1, <5>1, <5>2 DEF Settled
          <5> QED BY <5>3 DEF Settled
        <4> QED BY <1>6, <4>2, <4>3
      <3>3. m \in Handed /\ Settled[m] = "none" /\ Handed' = Handed
        BY <2>1, <2>2, <3>1 DEF Handed, Settled
      <3>4. R!Settle(m, how)
        BY <3>2, <3>3 DEF R!Settle, Handed, Settled, R!Messages, Messages
      <3> QED BY <2>1, <3>4 DEF R!Next, R!Messages, Messages
    <2> QED BY <2>3, <2>4
  <1>7. CASE Wait \/ Exhausted \/ WakeUp \/ ServeEnd \/ ServeFailure \/ Abandoned
             \/ AbandonInterrupted \/ CloseStream \/ Over
    BY <1>2, <1>7
    DEF Wait, Exhausted, WakeUp, ServeEnd, ServeFailure, Abandoned, AbandonInterrupted,
        CloseStream, Over, settling, ticketing
  <1>8. CASE Get \/ OpenStreams \/ Resume \/ Cancel \/ CloseEarly \/ CloseYielded
    BY <1>2, <1>8
    DEF Get, OpenStreams, Resume, Cancel, CloseEarly, CloseYielded, settling, ticketing
  <1>9. CASE Receivers \/ CloseRaises \/ Interrupt
    BY <1>2, <1>9
    DEF Receivers, Deliver, End, Fail, Cancelled, Outcome, CloseRaises, Interrupt, settling,
        ticketing
  <1>10. CASE UNCHANGED vars
    BY <1>2, <1>10 DEF vars, settling, ticketing
  <1> QED BY <1>4, <1>5, <1>6, <1>7, <1>8, <1>9, <1>10 DEF Next, Generator, Consumer

\* Uninterrupted, the chain is a receiver as a worker expects one: in each origin's order,
\* without a gap, each message once, settled at most once.
THEOREM Implements == ASSUME "interrupt" \notin Faults PROVE Spec => ActsAsOneReceiver
  <1>1. Init => R!Init
    BY DEF Init, R!Init, R!Messages, Messages
  <1>2. Init => Uncut
    BY DEF Init, Uncut
  <1>3. Uncut /\ [Next]_vars => Uncut'
    BY UncutKept
  <1>4. IndInv /\ Uncut /\ [Next]_vars => [R!Next]_(R!vars)
    BY StepsRefine
  <1> QED BY <1>1, <1>2, <1>3, <1>4, Inductive, PTL DEF Spec, ActsAsOneReceiver, R!Spec
=============================================================================
