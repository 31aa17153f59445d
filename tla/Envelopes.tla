------------------------------ MODULE Envelopes ------------------------------
(***************************************************************************)
(* Envelopes, their stamps, and what a serializer makes of both            *)
(* (envelope.py, stamp/, stamp_registry.py, serialization/serializer.py).  *)
(* An envelope is [message, stamps]; a stamp is [type, value].             *)
(***************************************************************************)
EXTENDS Lists

\* NonSendableStampInterface: stamps that describe this process.
NonSendable == {"Received", "Sent", "Handled", "AckReceipt", "DispatchAfter"}

\* DEFAULT_STAMP_TYPES: the stamps every serializer restores.
DefaultStamps == {"Delay", "ErrorDetails", "Redelivery", "MessageId", "TransportNames"}

Stamp(type, value) == [type |-> type, value |-> value]

IsA(stamp, type) == IF type = "NonSendable" THEN stamp.type \in NonSendable ELSE stamp.type = type

Envelope(message, stamps) == [message |-> message, stamps |-> stamps]

WithStamps(e, stamps) == [e EXCEPT !.stamps = @ \o stamps]

WithoutStamps(e, type) ==
  [e EXCEPT !.stamps = Picked(@, {i \in DOMAIN @ : ~IsA(@[i], type)})]

AllStamps(e, type) == Picked(e.stamps, {i \in DOMAIN e.stamps : IsA(e.stamps[i], type)})

Carries(e, type) == \E i \in DOMAIN e.stamps : IsA(e.stamps[i], type)

\* The value of the stamp added last, where there is one: the last one wins.
LastOf(e, type) == e.stamps[SelectLastInSeq(e.stamps, LAMBDA s : IsA(s, type))].value

\* Where the class of stamps[i] is first met.
FirstOfClass(stamps, i) == SelectInSeq(stamps, LAMBDA s : s.type = stamps[i].type)

\* The stamps that may leave the process as they are written: one header for each class, in
\* the order the classes are met; a header has the stamps of its class in the order added.
EncodeStamps(e) ==
  LET kept           == {i \in DOMAIN e.stamps : ~IsA(e.stamps[i], "NonSendable")}
      header(i)      == FirstOfClass(e.stamps, i)
      precedes(i, j) == header(i) < header(j) \/ (header(i) = header(j) /\ i < j)
  IN  Listed(e.stamps, [i \in kept |-> {j \in kept : precedes(j, i)}])

\* The stamps of the headers whose class is known here, header by header.
DecodeStamps(headers, known) == Picked(headers, {i \in DOMAIN headers : headers[i].type \in known})

\* What a serializer restoring the stamps `known` makes of an envelope that was written and read back.
RoundTripped(e, known) == Envelope(e.message, DecodeStamps(EncodeStamps(e), known))
=============================================================================
