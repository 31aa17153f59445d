------------------------- MODULE HeldMessages_proofs -------------------------
(***************************************************************************)
(* Proofs about HeldMessages, for any number of messages, however deep     *)
(* they are dispatched within each other, and whatever tasks are left      *)
(* running.                                                                *)
(***************************************************************************)
EXTENDS HeldMessages, SequenceTheorems, TLAPS

\* What becomes of a message in the end.
Ends == {"done", "failed", "dropped", "cancelled"}

TypeOK ==
  /\ phase \in {"idle", "handling", "draining", "rest"}
  /\ root \in 0..MaxMessages
  /\ calls \in Seq(Messages)
  /\ open \in BOOLEAN
  /\ queue \in Seq(Messages) /\ order \in Seq(Messages) /\ tried \in Seq(Messages)
  /\ strays \subseteq Messages
  /\ born \in 0..MaxMessages
  /\ fate \in [Messages -> {"unborn", "running", "held"} \cup Ends]
  /\ heldBy \in [Messages -> 0..MaxMessages]
  /\ result \in [Messages -> {"none", "returned", "delayed", "raised", "cancelled"}]

\* Messages are named as they are dispatched, and held for one dispatched before.
BornInOrder ==
  /\ root <= born
  /\ \A m \in Messages : fate[m] = "unborn" <=> m > born
  /\ \A m \in Messages : heldBy[m] <= root /\ (heldBy[m] # 0 => m <= born)
  /\ \A r \in Messages : r > root => result[r] = "none"

\* The _Held is open while the current message is handled, or what it held goes out; only
\* then is the dispatch of that message undecided.
OpenForRoot ==
  /\ open <=> phase # "idle"
  /\ open => root # 0 /\ result[root] = "none"
  /\ phase = "handling" => tried = <<>> /\ fate[root] = "running"
  /\ phase \in {"draining", "rest"} => fate[root] = "done"

\* The chains that run are those of the messages in calls, each of them once; only the first
\* may be of a message that was held.
CallsRun ==
  /\ phase \in {"handling", "rest"} <=> calls # <<>>
  /\ phase = "handling" => calls[1] = root
  /\ phase = "rest" => tried # <<>> /\ calls[1] = tried[Len(tried)]
  /\ \A i, j \in DOMAIN calls : calls[i] = calls[j] => i = j
  /\ \A i \in DOMAIN calls :
       /\ fate[calls[i]] = "running"
       /\ heldBy[calls[i]] = 0 \/ (phase = "rest" /\ i = 1)
  /\ \A m \in Messages : fate[m] = "running" => \E i \in DOMAIN calls : calls[i] = m

\* What is held is in the queue, once; what went out was handled, but for the last one
\* while its chain runs; and that is all that was held for the current message.
QueueHolds ==
  /\ \A i, j \in DOMAIN queue : queue[i] = queue[j] => i = j
  /\ \A i \in DOMAIN queue : fate[queue[i]] = "held" /\ heldBy[queue[i]] = root
  /\ \A m \in Messages : fate[m] = "held" => \E i \in DOMAIN queue : queue[i] = m
  /\ open => \A i \in DOMAIN tried :
               /\ heldBy[tried[i]] = root
               /\ \/ fate[tried[i]] \in {"done", "failed"}
                  \/ (phase = "rest" /\ i = Len(tried))
  /\ open => \A m \in HeldFor(root) :
               \/ \E i \in DOMAIN queue : queue[i] = m
               \/ \E i \in DOMAIN tried : tried[i] = m
  /\ ~open => queue = <<>>

Structure == TypeOK /\ BornInOrder /\ OpenForRoot /\ CallsRun /\ QueueHolds

\* The inductive invariant.
IndInv == Structure /\ InOrder /\ NeverEarly /\ ResultTellsFates

-----------------------------------------------------------------------------
(***************************************************************************)
(* The structure: what runs, what is held, and what went out.              *)
(***************************************************************************)

\* Initially there is nothing to keep track of.
LEMMA InitInv == Init => IndInv
  <1> SUFFICES ASSUME Init PROVE IndInv
    OBVIOUS
  <1>1. MaxMessages \in Nat /\ \A m \in Messages : m \in 1..MaxMessages
    BY ConstantsAssumption DEF ConstantsAssumption, Messages
  <1>2. TypeOK
    <2>1. calls \in Seq(Messages) /\ queue \in Seq(Messages)
      BY DEF Init
    <2>2. order \in Seq(Messages) /\ tried \in Seq(Messages)
      BY DEF Init
    <2>3. fate \in [Messages -> {"unborn", "running", "held"} \cup Ends]
      BY DEF Init
    <2>4. /\ heldBy \in [Messages -> 0..MaxMessages]
          /\ result \in [Messages -> {"none", "returned", "delayed", "raised", "cancelled"}]
      BY <1>1 DEF Init
    <2>5. root \in 0..MaxMessages /\ born \in 0..MaxMessages
      BY <1>1 DEF Init
    <2> QED BY <2>1, <2>2, <2>3, <2>4, <2>5 DEF Init, TypeOK
  <1>3. BornInOrder /\ OpenForRoot
    BY <1>1 DEF Init, BornInOrder, OpenForRoot
  <1>4. CallsRun /\ QueueHolds
    BY <1>1 DEF Init, CallsRun, QueueHolds
  <1>5. InOrder /\ NeverEarly /\ ResultTellsFates
    BY <1>1 DEF Init, InOrder, NeverEarly, ResultTellsFates
  <1> QED BY <1>2, <1>3, <1>4, <1>5 DEF IndInv, Structure

\* The sequences hold messages.
LEMMA Elements ==
  ASSUME TypeOK
  PROVE  /\ Len(calls) \in Nat /\ DOMAIN calls = 1..Len(calls)
         /\ Len(queue) \in Nat /\ DOMAIN queue = 1..Len(queue)
         /\ Len(tried) \in Nat /\ DOMAIN tried = 1..Len(tried)
         /\ \A i \in DOMAIN calls : calls[i] \in Messages
         /\ \A i \in DOMAIN queue : queue[i] \in Messages
         /\ \A i \in DOMAIN tried : tried[i] \in Messages
  BY DEF TypeOK

\* The next message to be dispatched is one nothing knows yet.
LEMMA NextIsNew ==
  ASSUME Structure, born < MaxMessages
  PROVE  /\ born + 1 \in Messages /\ born + 1 \in 0..MaxMessages
         /\ fate[born + 1] = "unborn" /\ heldBy[born + 1] = 0
         /\ root < born + 1 /\ root # born + 1
         /\ \A i \in DOMAIN calls : calls[i] # born + 1
         /\ \A i \in DOMAIN queue : queue[i] # born + 1
         /\ open => \A i \in DOMAIN tried : tried[i] # born + 1
  <1> USE ConstantsAssumption
      DEF ConstantsAssumption, Structure, TypeOK, Messages
  <1>1. born + 1 \in Messages /\ born + 1 \in 0..MaxMessages
    OBVIOUS
  <1>2. /\ fate[born + 1] = "unborn" /\ heldBy[born + 1] = 0
        /\ root < born + 1 /\ root # born + 1
    BY <1>1 DEF BornInOrder
  <1>3. /\ \A i \in DOMAIN calls : calls[i] # born + 1
        /\ \A i \in DOMAIN queue : queue[i] # born + 1
    BY <1>2 DEF CallsRun, QueueHolds
  <1>4. open => \A i \in DOMAIN tried : tried[i] # born + 1
    BY <1>2 DEF QueueHolds, OpenForRoot
  <1> QED BY <1>1, <1>2, <1>3, <1>4

\* Naming the next message keeps the names in order.
LEMMA DispatchedKeepsOrder ==
  ASSUME Structure, NEW what \in {"running", "held", "done", "failed"}, Dispatched(what),
         root' = root \/ root' = born + 1,
         \A m \in Messages : heldBy'[m] = heldBy[m] \/ (m = born + 1 /\ heldBy'[m] = root),
         UNCHANGED result
  PROVE  /\ BornInOrder'
         /\ born' \in 0..MaxMessages
         /\ fate' \in [Messages -> {"unborn", "running", "held"} \cup Ends]
         /\ \A m \in Messages : fate'[m] = IF m = born + 1 THEN what ELSE fate[m]
  <1>1. /\ born + 1 \in Messages /\ born + 1 \in 0..MaxMessages
        /\ fate[born + 1] = "unborn" /\ heldBy[born + 1] = 0
        /\ root < born + 1 /\ born' = born + 1
    BY NextIsNew DEF Dispatched
  <1>2. fate' = [fate EXCEPT ![born + 1] = what] /\ TypeOK
    BY DEF Dispatched, Structure
  <1>3. \A m \in Messages : fate'[m] = IF m = born + 1 THEN what ELSE fate[m]
    BY <1>1, <1>2 DEF TypeOK
  <1>4. fate' \in [Messages -> {"unborn", "running", "held"} \cup Ends]
    BY <1>1, <1>2 DEF TypeOK, Ends
  <1>5. /\ MaxMessages \in Nat /\ \A m \in Messages : m \in Int
        /\ root \in Int /\ born \in Int
        /\ \A m \in Messages : heldBy[m] \in Int
    BY <1>2, ConstantsAssumption DEF ConstantsAssumption, Messages, TypeOK
  <1>6. BornInOrder'
    BY <1>1, <1>3, <1>5 DEF BornInOrder, Structure
  <1> QED BY <1>1, <1>3, <1>4, <1>6

\* A message is dispatched while nothing is handled.
LEMMA BeginKeeps == ASSUME Structure, Begin PROVE Structure'
  <1>1. /\ born + 1 \in Messages /\ born + 1 \in 0..MaxMessages
        /\ fate[born + 1] = "unborn" /\ heldBy[born + 1] = 0
        /\ root < born + 1
    BY NextIsNew DEF Begin, Dispatched
  <1>2. /\ TypeOK
        /\ phase = "idle" /\ calls = <<>> /\ queue = <<>> /\ ~open
    BY DEF Structure, CallsRun, QueueHolds, OpenForRoot, Begin
  <1>3. /\ BornInOrder' /\ born' \in 0..MaxMessages
        /\ fate' \in [Messages -> {"unborn", "running", "held"} \cup Ends]
        /\ \A m \in Messages : fate'[m] = IF m = born + 1 THEN "running" ELSE fate[m]
    BY DispatchedKeepsOrder DEF Begin
  <1>4. TypeOK'
    BY <1>1, <1>2, <1>3 DEF TypeOK, Begin
  <1>5. OpenForRoot'
    BY <1>1, <1>2, <1>3 DEF OpenForRoot, Begin, Structure, BornInOrder, Messages
  <1>6. CallsRun'
    BY <1>1, <1>2, <1>3 DEF CallsRun, Begin, Structure
  <1>7. QueueHolds'
    <2>1. \A m \in Messages : heldBy[m] # born + 1
      <3>1. root \in Int /\ \A m \in Messages : heldBy[m] \in Int
        BY <1>2, ConstantsAssumption DEF TypeOK, ConstantsAssumption
      <3> QED BY <1>1, <3>1 DEF Structure, BornInOrder
    <2> QED BY <1>1, <1>2, <1>3, <2>1 DEF QueueHolds, HeldFor, Begin, Structure
  <1> QED BY <1>3, <1>4, <1>5, <1>6, <1>7 DEF Structure

\* One is dispatched within another.
LEMMA NestKeeps == ASSUME Structure, Nest PROVE Structure'
  <1>1. /\ born + 1 \in Messages
        /\ fate[born + 1] = "unborn" /\ heldBy[born + 1] = 0
        /\ root # born + 1
        /\ \A i \in DOMAIN calls : calls[i] # born + 1
        /\ \A i \in DOMAIN queue : queue[i] # born + 1
        /\ open => \A i \in DOMAIN tried : tried[i] # born + 1
    BY NextIsNew DEF Nest, Dispatched
  <1>2. /\ TypeOK /\ calls # <<>> /\ phase \in {"handling", "rest"}
        /\ UNCHANGED <<phase, root, strays, result, open, queue, order, tried, heldBy>>
    BY DEF Structure, CallsRun, Nest, Handling, holding
  <1>3. /\ BornInOrder' /\ born' \in 0..MaxMessages
        /\ fate' \in [Messages -> {"unborn", "running", "held"} \cup Ends]
        /\ \A m \in Messages : fate'[m] = IF m = born + 1 THEN "running" ELSE fate[m]
    BY <1>2, DispatchedKeepsOrder DEF Nest
  <1>4. calls' = Append(calls, born + 1) /\ calls' \in Seq(Messages)
    BY <1>1, <1>2, AppendProperties DEF Nest, TypeOK
  <1>5. /\ Len(calls) \in Nat /\ 1 \in 1..Len(calls)
        /\ DOMAIN calls = 1..Len(calls) /\ DOMAIN calls' = 1..(Len(calls) + 1)
        /\ calls' # <<>>
        /\ \A i \in 1..Len(calls) : calls'[i] = calls[i] /\ calls[i] \in Messages
        /\ calls'[Len(calls) + 1] = born + 1
    <2>1. Len(calls) \in Nat /\ 1 \in 1..Len(calls) /\ DOMAIN calls = 1..Len(calls)
      BY <1>2 DEF TypeOK
    <2>2. calls' # <<>>
      <3>1. calls \in Seq(Messages)
        BY <1>2 DEF TypeOK
      <3>2. Append(calls, born + 1) # <<>>
        BY <1>1, <3>1, AppendProperties, Zenon
      <3> QED BY <1>4, <3>2, Zenon
    <2>3. /\ DOMAIN calls' = 1..(Len(calls) + 1)
          /\ \A i \in 1..Len(calls) : calls'[i] = calls[i] /\ calls[i] \in Messages
          /\ calls'[Len(calls) + 1] = born + 1
      BY <1>1, <1>2, <1>4, <2>1, AppendProperties, LenProperties DEF TypeOK
    <2> QED BY <2>1, <2>2, <2>3
  <1>6. TypeOK'
    BY <1>2, <1>3, <1>4 DEF TypeOK
  <1>7. OpenForRoot'
    BY <1>1, <1>2, <1>3 DEF OpenForRoot, TypeOK, Structure, Messages
  <1>8. CallsRun'
    <2>1. \A i, j \in DOMAIN calls' : calls'[i] = calls'[j] => i = j
      BY <1>1, <1>5 DEF CallsRun, Structure
    <2>2. \A i \in DOMAIN calls' :
            /\ fate'[calls'[i]] = "running"
            /\ heldBy'[calls'[i]] = 0 \/ (phase' = "rest" /\ i = 1)
      BY <1>1, <1>2, <1>3, <1>5 DEF CallsRun, Structure
    <2>3. \A m \in Messages : fate'[m] = "running" => \E i \in DOMAIN calls' : calls'[i] = m
      BY <1>1, <1>3, <1>5 DEF CallsRun, Structure
    <2> QED BY <1>2, <1>5, <2>1, <2>2, <2>3 DEF CallsRun, Structure
  <1>9. QueueHolds'
    BY <1>1, <1>2, <1>3, Elements DEF QueueHolds, HeldFor, Structure
  <1> QED BY <1>3, <1>6, <1>7, <1>8, <1>9 DEF Structure

\* A stamped message is dispatched, and held.
LEMMA HoldsKeeps == ASSUME Structure, Holds, open PROVE Structure'
  <1>1. /\ born + 1 \in Messages
        /\ fate[born + 1] = "unborn" /\ heldBy[born + 1] = 0
        /\ root # born + 1
        /\ \A i \in DOMAIN calls : calls[i] # born + 1
        /\ \A i \in DOMAIN queue : queue[i] # born + 1
        /\ open => \A i \in DOMAIN tried : tried[i] # born + 1
    BY NextIsNew DEF Holds, Dispatched
  <1>2. TypeOK /\ UNCHANGED <<phase, root, calls, open, tried, strays, result>>
    BY DEF Structure, Holds
  <1>3. /\ heldBy' \in [Messages -> 0..MaxMessages]
        /\ \A m \in Messages : heldBy'[m] = IF m = born + 1 THEN root ELSE heldBy[m]
    BY <1>1, <1>2 DEF TypeOK, Holds
  <1>4. /\ BornInOrder' /\ born' \in 0..MaxMessages
        /\ fate' \in [Messages -> {"unborn", "running", "held"} \cup Ends]
        /\ \A m \in Messages : fate'[m] = IF m = born + 1 THEN "held" ELSE fate[m]
    BY <1>2, <1>3, DispatchedKeepsOrder DEF Holds
  <1>5. /\ queue' = Append(queue, born + 1) /\ queue' \in Seq(Messages)
        /\ order' \in Seq(Messages)
    BY <1>1, <1>2, AppendProperties DEF Holds, TypeOK
  <1>6. /\ Len(queue) \in Nat
        /\ DOMAIN queue = 1..Len(queue) /\ DOMAIN queue' = 1..(Len(queue) + 1)
        /\ \A i \in 1..Len(queue) : queue'[i] = queue[i] /\ queue[i] \in Messages
        /\ queue'[Len(queue) + 1] = born + 1
    BY <1>1, <1>2, <1>5, AppendProperties, LenProperties DEF TypeOK
  <1>7. TypeOK'
    BY <1>2, <1>3, <1>4, <1>5 DEF TypeOK
  <1>8. OpenForRoot'
    BY <1>1, <1>2, <1>4 DEF OpenForRoot, TypeOK, Structure, Messages
  <1>9. CallsRun'
    BY <1>1, <1>2, <1>3, <1>4, Elements DEF CallsRun, Structure
  <1>10. QueueHolds'
    <2>1. \A i, j \in DOMAIN queue' : queue'[i] = queue'[j] => i = j
      BY <1>1, <1>6 DEF QueueHolds, Structure
    <2>2. \A i \in DOMAIN queue' : fate'[queue'[i]] = "held" /\ heldBy'[queue'[i]] = root'
      BY <1>1, <1>2, <1>3, <1>4, <1>6 DEF QueueHolds, Structure
    <2>3. \A m \in Messages : m = born + 1 \/ (\E i \in DOMAIN queue : queue[i] = m)
                                => \E i \in DOMAIN queue' : queue'[i] = m
      BY <1>6
    <2>4. \A m \in Messages : fate'[m] = "held" => \E i \in DOMAIN queue' : queue'[i] = m
      BY <1>4, <2>3 DEF QueueHolds, Structure
    <2>5. \A i \in DOMAIN tried' :
               /\ heldBy'[tried'[i]] = root'
               /\ \/ fate'[tried'[i]] \in {"done", "failed"}
                  \/ (phase' = "rest" /\ i = Len(tried'))
      BY <1>1, <1>2, <1>3, <1>4, Elements DEF QueueHolds, Structure
    <2>6. \A m \in HeldFor(root)' :
               \/ \E i \in DOMAIN queue' : queue'[i] = m
               \/ \E i \in DOMAIN tried' : tried'[i] = m
      <3>1. \A m \in HeldFor(root)' : m \in Messages /\ (m = born + 1 \/ m \in HeldFor(root))
        BY <1>2, <1>3 DEF HeldFor
      <3>2. \A m \in HeldFor(root) :
               \/ \E i \in DOMAIN queue : queue[i] = m
               \/ \E i \in DOMAIN tried : tried[i] = m
        BY DEF QueueHolds, Structure
      <3> QED BY <1>2, <2>3, <3>1, <3>2
    <2> QED BY <1>2, <2>1, <2>2, <2>4, <2>5, <2>6 DEF QueueHolds
  <1> QED BY <1>4, <1>7, <1>8, <1>9, <1>10 DEF Structure

\* A task left running dispatches a message that is handled apart from everything here.
LEMMA ApartKeeps ==
  ASSUME Structure, Dispatched("done") \/ Dispatched("failed"),
         UNCHANGED <<phase, root, calls, strays, result, holding>>
  PROVE  Structure'
  <1>1. /\ born + 1 \in Messages
        /\ fate[born + 1] = "unborn" /\ heldBy[born + 1] = 0
        /\ root # born + 1
        /\ \A i \in DOMAIN calls : calls[i] # born + 1
        /\ \A i \in DOMAIN queue : queue[i] # born + 1
        /\ open => \A i \in DOMAIN tried : tried[i] # born + 1
    BY NextIsNew DEF Dispatched
  <1>2. /\ TypeOK
        /\ UNCHANGED <<phase, root, calls, strays, result, open, queue, order, tried, heldBy>>
    BY DEF Structure, holding
  <1>3. /\ BornInOrder' /\ born' \in 0..MaxMessages
        /\ fate' \in [Messages -> {"unborn", "running", "held"} \cup Ends]
        /\ \A m \in Messages : fate'[m] = IF m = born + 1 THEN fate'[m] ELSE fate[m]
        /\ fate'[born + 1] \in {"done", "failed"}
    BY <1>1, <1>2, DispatchedKeepsOrder
  <1>4. TypeOK'
    BY <1>2, <1>3 DEF TypeOK
  <1>5. OpenForRoot'
    BY <1>1, <1>2, <1>3 DEF OpenForRoot, TypeOK, Structure, Messages
  <1>6. CallsRun'
    BY <1>1, <1>2, <1>3, Elements DEF CallsRun, Structure
  <1>7. QueueHolds'
    BY <1>1, <1>2, <1>3, Elements DEF QueueHolds, HeldFor, Structure
  <1> QED BY <1>3, <1>4, <1>5, <1>6, <1>7 DEF Structure

\* What becomes of a message that was dispatched before leaves the names as they are.
LEMMA BecomesKeepsOrder ==
  ASSUME Structure, NEW m \in Messages, fate[m] # "unborn",
         NEW what \in {"running", "done", "failed"}, fate' = [fate EXCEPT ![m] = what],
         UNCHANGED <<root, born, heldBy, result>>
  PROVE  /\ BornInOrder'
         /\ fate' \in [Messages -> {"unborn", "running", "held"} \cup Ends]
         /\ \A n \in Messages : fate'[n] = IF n = m THEN what ELSE fate[n]
  <1>1. \A n \in Messages : fate'[n] = IF n = m THEN what ELSE fate[n]
    BY DEF Structure, TypeOK
  <1>2. fate' \in [Messages -> {"unborn", "running", "held"} \cup Ends]
    BY DEF Structure, TypeOK, Ends
  <1>3. BornInOrder'
    BY <1>1 DEF BornInOrder, Structure
  <1> QED BY <1>1, <1>2, <1>3

\* A message dispatched within another is handled, or fails.
LEMMA NestedEndsKeeps == ASSUME Structure, NestedEnds PROVE Structure'
  <1> DEFINE n == Len(calls)
             m == calls[n]
  <1>1. /\ TypeOK /\ phase \in {"handling", "rest"}
        /\ UNCHANGED <<phase, root, strays, born, result, open, queue, order, tried, heldBy>>
    BY DEF Structure, NestedEnds, Handling, holding
  <1>2. /\ n \in Nat /\ n > 1 /\ DOMAIN calls = 1..n /\ n \in DOMAIN calls
        /\ \A i \in 1..n : calls[i] \in Messages
    BY <1>1 DEF TypeOK, NestedEnds
  <1>3. /\ calls' \in Seq(Messages) /\ Len(calls') = n - 1
        /\ \A i \in 1..(n - 1) : calls'[i] = calls[i]
    <2>1. calls' = SubSeq(calls, 1, n - 1)
      BY DEF NestedEnds, Front
    <2>2. 1 \in Int /\ n - 1 \in Int /\ \A i \in 1..(n - 1) : calls[i] \in Messages
      BY <1>2
    <2>3. /\ SubSeq(calls, 1, n - 1) \in Seq(Messages)
          /\ Len(SubSeq(calls, 1, n - 1)) = n - 1
          /\ \A i \in 1..(n - 1) : SubSeq(calls, 1, n - 1)[i] = calls[i]
      <3> HIDE DEF n
      <3> QED BY <1>2, <2>2, SubSeqProperties
    <2> QED BY <2>1, <2>3
  <1>4. DOMAIN calls' = 1..(n - 1) /\ calls' # <<>> /\ 1 \in 1..(n - 1)
    BY <1>2, <1>3
  <1>5. m \in Messages /\ fate[m] = "running" /\ heldBy[m] = 0
    BY <1>1, <1>2 DEF Structure, CallsRun
  <1>6. PICK end \in {"done", "failed"} : fate' = [fate EXCEPT ![m] = end]
    BY DEF NestedEnds, Last
  <1> HIDE DEF m, n
  <1>7. /\ BornInOrder'
        /\ fate' \in [Messages -> {"unborn", "running", "held"} \cup Ends]
        /\ \A k \in Messages : fate'[k] = IF k = m THEN end ELSE fate[k]
    BY <1>1, <1>5, <1>6, BecomesKeepsOrder
  <1>8. TypeOK'
    BY <1>1, <1>3, <1>7 DEF TypeOK
  <1>9. \A i \in 1..(n - 1) : calls[i] # m
    BY <1>2 DEF Structure, CallsRun, m
  <1>10. open /\ root \in Messages
    BY <1>1, ConstantsAssumption
    DEF Structure, OpenForRoot, TypeOK, Messages, ConstantsAssumption
  <1>11. OpenForRoot'
    <2>1. root # m
      BY <1>1, <1>4, <1>5, <1>9 DEF Structure, OpenForRoot, CallsRun
    <2> QED BY <1>1, <1>7, <1>10, <2>1 DEF Structure, OpenForRoot
  <1>12. CallsRun'
    <2>1. \A i \in 1..(n - 1) : i \in 1..n
      BY <1>2
    <2>2. \A i, j \in DOMAIN calls' : calls'[i] = calls'[j] => i = j
      BY <1>2, <1>3, <1>4, <2>1 DEF Structure, CallsRun
    <2>3. \A i \in DOMAIN calls' :
            /\ fate'[calls'[i]] = "running"
            /\ heldBy'[calls'[i]] = 0 \/ (phase' = "rest" /\ i = 1)
      BY <1>1, <1>2, <1>3, <1>4, <1>7, <1>9, <2>1 DEF Structure, CallsRun
    <2>4. ASSUME NEW k \in Messages, fate'[k] = "running"
          PROVE  \E i \in DOMAIN calls' : calls'[i] = k
      <3>1. k # m /\ fate[k] = "running"
        BY <1>7, <2>4
      <3>2. PICK i \in 1..n : calls[i] = k
        BY <1>2, <3>1 DEF Structure, CallsRun
      <3>3. i \in 1..(n - 1)
        BY <1>2, <3>1, <3>2 DEF m
      <3> QED BY <1>3, <1>4, <3>2, <3>3
    <2> QED BY <1>1, <1>3, <1>4, <2>2, <2>3, <2>4 DEF Structure, CallsRun
  <1>13. QueueHolds'
    <2>1. \A i \in DOMAIN tried : tried[i] # m
      <3>1. root # 0
        BY <1>10 DEF Structure, OpenForRoot
      <3> QED BY <1>5, <1>10, <3>1 DEF Structure, QueueHolds
    <2> QED BY <1>1, <1>5, <1>7, <2>1, Elements DEF Structure, QueueHolds, HeldFor
  <1> QED BY <1>7, <1>8, <1>11, <1>12, <1>13 DEF Structure

\* The chain of the current message returned.
LEMMA CurrentReturnsKeeps == ASSUME Structure, CurrentReturns PROVE Structure'
  <1>1. /\ TypeOK /\ phase = "handling" /\ phase' = "draining" /\ calls' = <<>>
        /\ UNCHANGED <<root, strays, born, result, open, queue, order, tried, heldBy>>
        /\ open /\ root # 0 /\ tried = <<>> /\ fate[root] = "running"
    BY DEF Structure, OpenForRoot, CurrentReturns, holding
  <1>2. root \in Messages
    BY <1>1, ConstantsAssumption DEF TypeOK, Messages, ConstantsAssumption
  <1>3. /\ BornInOrder'
        /\ fate' \in [Messages -> {"unborn", "running", "held"} \cup Ends]
        /\ \A k \in Messages : fate'[k] = IF k = root THEN "done" ELSE fate[k]
    BY <1>1, <1>2, BecomesKeepsOrder DEF CurrentReturns
  <1>4. TypeOK'
    <2>1. calls' \in Seq(Messages)
      BY <1>1
    <2> QED BY <1>1, <1>3, <2>1 DEF TypeOK
  <1>5. OpenForRoot'
    BY <1>1, <1>2, <1>3 DEF Structure, OpenForRoot
  <1>6. CallsRun'
    <2>1. \A k \in Messages : fate[k] = "running" => k = root
      <3>1. DOMAIN calls = {1} /\ calls[1] = root
        BY <1>1 DEF CurrentReturns, TypeOK, Structure, CallsRun
      <3> QED BY <3>1 DEF Structure, CallsRun
    <2> QED BY <1>1, <1>3, <2>1 DEF CallsRun
  <1>7. QueueHolds'
    BY <1>1, <1>2, <1>3, Elements DEF Structure, QueueHolds, HeldFor
  <1> QED BY <1>3, <1>4, <1>5, <1>6, <1>7 DEF Structure

\* The next message held goes out.
LEMMA ReleaseKeeps == ASSUME Structure, Release PROVE Structure'
  <1> DEFINE m == Head(queue)
  <1>1. /\ TypeOK /\ phase = "draining" /\ phase' = "rest" /\ queue # <<>>
        /\ queue' = Tail(queue) /\ tried' = Append(tried, m)
        /\ UNCHANGED <<root, strays, born, result, open, order, heldBy>>
        /\ open /\ root # 0 /\ calls = <<>> /\ fate[root] = "done"
    BY DEF Structure, OpenForRoot, CallsRun, Release, Pop
  <1>2. /\ Len(queue) \in Nat /\ Len(queue) > 0 /\ DOMAIN queue = 1..Len(queue)
        /\ m = queue[1] /\ m \in Messages
        /\ Len(tried) \in Nat /\ DOMAIN tried = 1..Len(tried)
    BY <1>1 DEF TypeOK
  <1>3. fate[m] = "held" /\ heldBy[m] = root /\ m # root
    BY <1>1, <1>2 DEF Structure, QueueHolds
  <1>4. /\ queue' \in Seq(Messages) /\ Len(queue') = Len(queue) - 1
        /\ \A i \in 1..(Len(queue) - 1) : queue'[i] = queue[i + 1]
    BY <1>1, <1>2, HeadTailProperties DEF TypeOK
  <1> HIDE DEF m
  <1>5. /\ tried' \in Seq(Messages) /\ Len(tried') = Len(tried) + 1
        /\ \A i \in 1..Len(tried) : tried'[i] = tried[i]
        /\ tried'[Len(tried) + 1] = m
    BY <1>1, <1>2, AppendProperties DEF TypeOK
  <1>6. /\ DOMAIN queue' = 1..(Len(queue) - 1) /\ DOMAIN tried' = 1..(Len(tried) + 1)
        /\ tried' # <<>>
    BY <1>2, <1>4, <1>5
  <1>7. Last(tried') = m
    BY <1>5 DEF Last
  <1>8. /\ BornInOrder'
        /\ fate' \in [Messages -> {"unborn", "running", "held"} \cup Ends]
        /\ \A k \in Messages : fate'[k] = IF k = m THEN "running" ELSE fate[k]
    BY <1>1, <1>2, <1>3, <1>7, BecomesKeepsOrder DEF Release
  <1>9. calls' = <<m>> /\ calls' \in Seq(Messages) /\ DOMAIN calls' = {1} /\ calls'[1] = m
    BY <1>2, <1>7 DEF Release
  <1>10. TypeOK'
    BY <1>1, <1>4, <1>5, <1>8, <1>9 DEF TypeOK
  <1>11. OpenForRoot'
    BY <1>1, <1>3, <1>8, ConstantsAssumption
    DEF Structure, OpenForRoot, TypeOK, Messages, ConstantsAssumption
  <1>12. CallsRun'
    <2>1. \A k \in Messages : fate[k] # "running"
      BY <1>1 DEF Structure, CallsRun
    <2>2. calls' # <<>> /\ calls'[1] = tried'[Len(tried')]
      BY <1>5, <1>9
    <2> QED BY <1>1, <1>2, <1>6, <1>8, <1>9, <2>1, <2>2 DEF CallsRun
  <1>13. QueueHolds'
    <2>1. \A i \in DOMAIN queue' : /\ i + 1 \in DOMAIN queue /\ queue'[i] = queue[i + 1]
                                   /\ queue[i + 1] # m /\ queue[i + 1] \in Messages
      BY <1>1, <1>2, <1>4, <1>6, Elements DEF Structure, QueueHolds
    <2>2. \A i \in DOMAIN queue : i # 1 => i - 1 \in DOMAIN queue' /\ queue'[i - 1] = queue[i]
      BY <1>2, <1>4, <1>6
    <2>3. \A i, j \in DOMAIN queue' : queue'[i] = queue'[j] => i = j
      BY <1>2, <1>6, <2>1 DEF Structure, QueueHolds
    <2>4. \A i \in DOMAIN queue' : fate'[queue'[i]] = "held" /\ heldBy'[queue'[i]] = root'
      BY <1>1, <1>8, <2>1 DEF Structure, QueueHolds
    <2>5. \A k \in Messages :
            (\E i \in DOMAIN queue : queue[i] = k) /\ k # m => \E i \in DOMAIN queue' : queue'[i] = k
      BY <1>2, <2>2
    <2>6. \A k \in Messages : fate'[k] = "held" => \E i \in DOMAIN queue' : queue'[i] = k
      BY <1>8, <2>5 DEF Structure, QueueHolds
    <2>7. \A i \in DOMAIN tried' :
               /\ heldBy'[tried'[i]] = root'
               /\ \/ fate'[tried'[i]] \in {"done", "failed"}
                  \/ (phase' = "rest" /\ i = Len(tried'))
      <3> SUFFICES ASSUME NEW i \in 1..Len(tried)
                   PROVE  heldBy[tried[i]] = root /\ fate'[tried[i]] \in {"done", "failed"}
        BY <1>1, <1>2, <1>3, <1>5, <1>6
      <3>1. heldBy[tried[i]] = root /\ fate[tried[i]] \in {"done", "failed"}
        BY <1>1, <1>2 DEF Structure, QueueHolds
      <3> QED BY <1>1, <1>2, <1>3, <1>8, <3>1, Elements
    <2>8. \A k \in HeldFor(root)' :
               \/ \E i \in DOMAIN queue' : queue'[i] = k
               \/ \E i \in DOMAIN tried' : tried'[i] = k
      <3> SUFFICES ASSUME NEW k \in HeldFor(root)
                   PROVE  \/ \E i \in DOMAIN queue' : queue'[i] = k
                          \/ \E i \in DOMAIN tried' : tried'[i] = k
        BY <1>1 DEF HeldFor
      <3>1. k \in Messages
        BY DEF HeldFor
      <3>2. CASE \E i \in DOMAIN queue : queue[i] = k
        BY <1>2, <1>5, <1>6, <2>5, <3>1, <3>2
      <3>3. CASE \E i \in DOMAIN tried : tried[i] = k
        BY <1>2, <1>5, <1>6, <3>3
      <3> QED BY <1>1, <3>2, <3>3 DEF Structure, QueueHolds
    <2> QED BY <1>1, <2>3, <2>4, <2>6, <2>7, <2>8 DEF QueueHolds
  <1> QED BY <1>8, <1>10, <1>11, <1>12, <1>13 DEF Structure

\* It is handled, or fails.
LEMMA ReleasedKeeps == ASSUME Structure, Released PROVE Structure'
  <1> DEFINE m == calls[1]
  <1>1. /\ TypeOK /\ phase = "rest" /\ phase' = "draining" /\ calls' = <<>> /\ Len(calls) = 1
        /\ UNCHANGED <<root, strays, born, result, open, queue, order, tried, heldBy>>
        /\ open /\ root # 0 /\ fate[root] = "done"
    BY DEF Structure, OpenForRoot, Released, holding
  <1>2. DOMAIN calls = {1} /\ m \in Messages /\ fate[m] = "running"
    BY <1>1 DEF TypeOK, Structure, CallsRun
  <1>3. PICK end \in {"done", "failed"} : fate' = [fate EXCEPT ![m] = end]
    BY <1>1 DEF Released, Last
  <1>4. /\ Len(tried) \in Nat /\ Len(tried) > 0 /\ DOMAIN tried = 1..Len(tried)
        /\ m = tried[Len(tried)]
    BY <1>1 DEF TypeOK, Structure, CallsRun
  <1>5. \A k \in Messages : fate[k] = "running" => k = m
    BY <1>2 DEF Structure, CallsRun
  <1> HIDE DEF m
  <1>6. /\ BornInOrder'
        /\ fate' \in [Messages -> {"unborn", "running", "held"} \cup Ends]
        /\ \A k \in Messages : fate'[k] = IF k = m THEN end ELSE fate[k]
    BY <1>1, <1>2, <1>3, BecomesKeepsOrder
  <1>7. TypeOK'
    <2>1. calls' \in Seq(Messages)
      BY <1>1
    <2> QED BY <1>1, <1>6, <2>1 DEF TypeOK
  <1>8. OpenForRoot'
    BY <1>1, <1>2, <1>6, ConstantsAssumption
    DEF Structure, OpenForRoot, TypeOK, Messages, ConstantsAssumption
  <1>9. CallsRun'
    BY <1>1, <1>5, <1>6 DEF CallsRun
  <1>10. QueueHolds'
    <2>1. \A i \in DOMAIN tried : heldBy[tried[i]] = root /\ fate'[tried[i]] \in {"done", "failed"}
      <3> SUFFICES ASSUME NEW i \in DOMAIN tried
                   PROVE  heldBy[tried[i]] = root /\ fate'[tried[i]] \in {"done", "failed"}
        OBVIOUS
      <3>1. /\ heldBy[tried[i]] = root /\ tried[i] \in Messages
            /\ tried[i] = m \/ fate[tried[i]] \in {"done", "failed"}
        BY <1>1, <1>4, Elements DEF Structure, QueueHolds
      <3> QED BY <1>6, <3>1
    <2> QED BY <1>1, <1>2, <1>6, <2>1, Elements DEF Structure, QueueHolds, HeldFor
  <1> QED BY <1>6, <1>7, <1>8, <1>9, <1>10 DEF Structure

\* However the dispatch of the current message ends, nothing of it is left once the _Held is
\* closed, if nothing is left running or held.
LEMMA ClosesKeeps ==
  ASSUME Structure, open,
         NEW how \in {"returned", "delayed", "raised", "cancelled"}, Closes(how),
         fate' \in [Messages -> {"unborn"} \cup Ends],
         \A m \in Messages : fate'[m] = "unborn" <=> fate[m] = "unborn"
  PROVE  Structure'
  <1>1. /\ TypeOK /\ phase' = "idle" /\ calls' = <<>> /\ queue' = <<>> /\ open' = FALSE
        /\ UNCHANGED <<root, strays, born, order, tried, heldBy>>
        /\ root # 0
    BY DEF Structure, OpenForRoot, Closes
  <1>2. \A m \in Messages : fate'[m] # "running" /\ fate'[m] # "held"
    BY DEF Ends
  <1>3. /\ root \in Messages
        /\ result' \in [Messages -> {"none", "returned", "delayed", "raised", "cancelled"}]
        /\ \A r \in Messages : r # root => result'[r] = result[r]
    BY <1>1, ConstantsAssumption DEF TypeOK, Messages, ConstantsAssumption, Closes
  <1>4. TypeOK'
    <2>1. calls' \in Seq(Messages) /\ queue' \in Seq(Messages)
      BY <1>1
    <2>2. fate' \in [Messages -> {"unborn", "running", "held"} \cup Ends]
      OBVIOUS
    <2> QED BY <1>1, <1>3, <2>1, <2>2 DEF TypeOK
  <1>5. BornInOrder'
    <2>1. root \in Int
      BY <1>1, ConstantsAssumption DEF TypeOK, ConstantsAssumption
    <2> QED BY <1>1, <1>3, <2>1 DEF Structure, BornInOrder
  <1>6. OpenForRoot' /\ CallsRun' /\ QueueHolds'
    BY <1>1, <1>2 DEF OpenForRoot, CallsRun, QueueHolds
  <1> QED BY <1>4, <1>5, <1>6 DEF Structure

\* What was running ends, and what was held is dropped.
LEMMA EndedDecides ==
  ASSUME Structure, NEW end \in {"failed", "cancelled"}, Ended(end)
  PROVE  /\ fate' \in [Messages -> {"unborn"} \cup Ends]
         /\ \A m \in Messages : fate[m] = "held" => fate'[m] = "dropped"
         /\ \A m \in Messages : fate[m] # "held" /\ fate[m] # "running" => fate'[m] = fate[m]
         /\ \A m \in Messages : fate[m] = "running" => fate'[m] = end
  <1>1. \A m \in Messages :
          fate'[m] = IF fate[m] = "held" THEN "dropped"
                     ELSE IF \E i \in DOMAIN calls : calls[i] = m THEN end ELSE fate[m]
    BY DEF Ended
  <1>2. \A m \in Messages : fate[m] = "running" <=> \E i \in DOMAIN calls : calls[i] = m
    BY DEF Structure, CallsRun
  <1>3. \A m \in Messages : fate[m] \in {"unborn", "running", "held"} \cup Ends
    BY DEF Structure, TypeOK
  <1>4. fate' \in [Messages -> {"unborn"} \cup Ends]
    <2>1. \A m \in Messages : fate'[m] \in {"unborn"} \cup Ends
      BY <1>1, <1>2, <1>3 DEF Ends
    <2> QED BY <2>1 DEF Ended
  <1> QED BY <1>1, <1>2, <1>4

\* Every step keeps the structure.
LEMMA StepStructure == ASSUME Structure, [Next]_vars PROVE Structure'
  <1>1. CASE UNCHANGED vars \/ Leave
    <2>1. /\ UNCHANGED <<phase, root, calls, born, fate, result>>
          /\ UNCHANGED <<open, queue, order, tried, heldBy>>
          /\ strays' = strays \/ (Handling /\ strays' = strays \cup {root})
      BY <1>1 DEF vars, Leave, holding
    <2>2. strays' \subseteq Messages
      <3>1. strays \subseteq Messages /\ root \in 0..MaxMessages
        BY DEF Structure, TypeOK
      <3>2. Handling => root \in Messages
        <4>1. Handling => root # 0
          BY DEF Handling, Structure, OpenForRoot
        <4> QED BY <3>1, <4>1, ConstantsAssumption DEF Messages, ConstantsAssumption
      <3> QED BY <2>1, <3>1, <3>2
    <2> QED BY <2>1, <2>2
        DEF Structure, TypeOK, BornInOrder, OpenForRoot, CallsRun, QueueHolds, HeldFor
  <1>2. CASE Hold
    BY <1>2, HoldsKeeps DEF Hold, Handling, Structure, OpenForRoot
  <1>3. CASE StrayDispatches
    BY <1>3, HoldsKeeps, ApartKeeps DEF StrayDispatches
  <1>4. CASE CurrentFails \/ Cancelled
    <2>1. open
      BY <1>4 DEF CurrentFails, Cancelled, Handling, Structure, OpenForRoot
    <2>2. PICK end \in {"failed", "cancelled"} : Ended(end)
      BY <1>4 DEF CurrentFails, Cancelled
    <2>3. /\ fate' \in [Messages -> {"unborn"} \cup Ends]
          /\ \A m \in Messages : fate'[m] = "unborn" <=> fate[m] = "unborn"
      BY <2>2, EndedDecides DEF Ends
    <2>4. Closes("raised") \/ Closes("cancelled")
      BY <1>4 DEF CurrentFails, Cancelled
    <2> QED BY <2>1, <2>3, <2>4, ClosesKeeps
  <1>5. CASE Finish
    <2>1. open /\ queue = <<>> /\ calls = <<>> /\ fate' = fate
      BY <1>5 DEF Finish, Structure, OpenForRoot, CallsRun
    <2>2. \A m \in Messages : fate[m] # "running" /\ fate[m] # "held"
      BY <2>1 DEF Structure, CallsRun, QueueHolds
    <2>3. fate' \in [Messages -> {"unborn"} \cup Ends]
      BY <2>1, <2>2 DEF Structure, TypeOK
    <2> QED BY <1>5, <2>1, <2>3, ClosesKeeps DEF Finish
  <1> QED BY <1>1, <1>2, <1>3, <1>4, <1>5, BeginKeeps, NestKeeps, NestedEndsKeeps,
             CurrentReturnsKeeps, ReleaseKeeps, ReleasedKeeps
      DEF Next, Chain

-----------------------------------------------------------------------------
(***************************************************************************)
(* What the structure is for.                                              *)
(***************************************************************************)

\* How each step changes what became of a message, and what it is held for.
LEMMA StepFates ==
  ASSUME Structure, Next, NEW m \in Messages
  PROVE  /\ fate[m] \in Ends => fate'[m] = fate[m]
         /\ fate[m] = "held" /\ fate'[m] \notin {"held", "dropped"} =>
              phase = "draining" /\ heldBy[m] = root
         /\ heldBy'[m] # heldBy[m] =>
              heldBy[m] = 0 /\ fate[m] = "unborn" /\ fate'[m] = "held" /\ open /\ heldBy'[m] = root
  <1> USE DEF Ends
  <1>1. /\ TypeOK /\ fate \in [Messages -> {"unborn", "running", "held"} \cup Ends]
        /\ heldBy \in [Messages -> 0..MaxMessages]
    BY DEF Structure, TypeOK
  <1>2. ASSUME NEW what, Dispatched(what) PROVE fate[m] # "unborn" => fate'[m] = fate[m]
    BY <1>1, <1>2, NextIsNew DEF Dispatched
  <1>3. CASE Begin \/ Nest \/ Leave
    BY <1>1, <1>2, <1>3 DEF Begin, Nest, Leave, holding
  <1>4. ASSUME Holds, open
        PROVE  /\ fate[m] # "unborn" => fate'[m] = fate[m]
               /\ heldBy'[m] # heldBy[m] =>
                    heldBy[m] = 0 /\ fate[m] = "unborn" /\ fate'[m] = "held" /\ heldBy'[m] = root
    BY <1>1, <1>4, NextIsNew DEF Holds, Dispatched
  <1>5. CASE Hold
    <2>1. Holds /\ open
      BY <1>5 DEF Hold, Handling, Structure, OpenForRoot
    <2> QED BY <1>4, <2>1
  <1>6. CASE StrayDispatches
    BY <1>1, <1>2, <1>4, <1>6 DEF StrayDispatches, holding
  <1>7. CASE NestedEnds
    <2>1. Len(calls) \in DOMAIN calls
      BY <1>1, <1>7 DEF NestedEnds, TypeOK
    <2>2. fate[Last(calls)] = "running"
      BY <2>1 DEF Last, Structure, CallsRun
    <2> QED BY <1>1, <1>7, <2>2 DEF NestedEnds, holding
  <1>8. CASE CurrentReturns
    BY <1>1, <1>8 DEF CurrentReturns, holding, Structure, OpenForRoot
  <1>9. CASE CurrentFails \/ Cancelled
    <2>1. PICK end \in {"failed", "cancelled"} : Ended(end)
      BY <1>9 DEF CurrentFails, Cancelled
    <2>2. heldBy' = heldBy
      BY <1>9 DEF CurrentFails, Cancelled, Closes
    <2> QED BY <1>1, <2>1, <2>2, EndedDecides
  <1>10. CASE Release
    <2>1. queue # <<>> /\ tried' = Append(tried, Head(queue)) /\ heldBy' = heldBy
      BY <1>10 DEF Release, Pop
    <2>2. Head(queue) = queue[1] /\ 1 \in DOMAIN queue /\ Head(queue) \in Messages
      BY <1>1, <2>1 DEF TypeOK
    <2>3. Last(tried') = Head(queue)
      BY <1>1, <2>1, <2>2, AppendProperties DEF TypeOK, Last
    <2>4. fate[Head(queue)] = "held" /\ heldBy[Head(queue)] = root
      BY <2>2 DEF Structure, QueueHolds
    <2> QED BY <1>1, <1>10, <2>1, <2>3, <2>4 DEF Release
  <1>11. CASE Released
    <2>1. fate[Last(calls)] = "running"
      BY <1>1, <1>11 DEF Released, Last, TypeOK, Structure, CallsRun
    <2> QED BY <1>1, <1>11, <2>1 DEF Released, holding
  <1>12. CASE Finish
    BY <1>12 DEF Finish, Closes
  <1> QED BY <1>3, <1>5, <1>6, <1>7, <1>8, <1>9, <1>10, <1>11, <1>12 DEF Next, Chain

\* A message held for a dispatch that is over is decided.
LEMMA PastIsDecided ==
  ASSUME Structure, NEW r \in Messages, result[r] # "none", NEW m \in HeldFor(r)
  PROVE  /\ fate[m] \in Ends
         /\ open => r # root
  <1>1. m \in Messages /\ heldBy[m] = r /\ r # 0
    BY DEF HeldFor, Messages
  <1>2. open => r # root
    BY DEF Structure, OpenForRoot
  <1>3. fate[m] # "unborn"
    <2>1. m <= born /\ m \in Int /\ born \in Int
      BY <1>1, ConstantsAssumption
      DEF Structure, BornInOrder, TypeOK, Messages, ConstantsAssumption
    <2> QED BY <1>1, <2>1 DEF Structure, BornInOrder
  <1>4. fate[m] # "held"
    BY <1>1, <1>2 DEF Structure, QueueHolds, TypeOK
  <1>5. fate[m] # "running"
    <2> SUFFICES ASSUME fate[m] = "running" PROVE FALSE
      OBVIOUS
    <2>1. PICK i \in DOMAIN calls : calls[i] = m
      BY <1>1 DEF Structure, CallsRun
    <2>2. phase = "rest" /\ calls[1] = m /\ tried # <<>> /\ m = tried[Len(tried)]
      BY <1>1, <2>1 DEF Structure, CallsRun
    <2>3. open /\ Len(tried) \in DOMAIN tried
      BY <2>2 DEF Structure, OpenForRoot, TypeOK
    <2> QED BY <1>1, <1>2, <2>2, <2>3 DEF Structure, QueueHolds
  <1> QED BY <1>1, <1>2, <1>3, <1>4, <1>5 DEF Structure, TypeOK

\* What went out goes out after the current message succeeded, for good.
LEMMA NeverEarlyKept ==
  ASSUME Structure, Structure', NeverEarly, Next
  PROVE  NeverEarly'
  <1> SUFFICES ASSUME NEW m \in Messages, heldBy'[m] # 0, fate'[m] \notin {"held", "dropped"}
               PROVE  fate'[heldBy'[m]] = "done"
    BY DEF NeverEarly
  <1>1. heldBy'[m] = heldBy[m] /\ heldBy[m] \in Messages
    <2>1. heldBy'[m] = heldBy[m] /\ heldBy[m] # 0
      BY StepFates
    <2>2. heldBy[m] \in 0..MaxMessages
      BY DEF Structure, TypeOK
    <2> QED BY <2>1, <2>2, ConstantsAssumption DEF Messages, ConstantsAssumption
  <1>2. fate[heldBy[m]] = "done"
    <2>1. CASE fate[m] = "held"
      <3>1. phase = "draining" /\ heldBy[m] = root
        BY <2>1, StepFates
      <3> QED BY <3>1 DEF Structure, OpenForRoot
    <2>2. CASE fate[m] = "dropped"
      BY <2>2, StepFates DEF Ends
    <2> QED BY <1>1, <2>1, <2>2 DEF NeverEarly
  <1> QED BY <1>1, <1>2, StepFates DEF Ends

\* What is held joins the end of the line, and goes out from its beginning.
LEMMA InOrderKept ==
  ASSUME Structure, InOrder, [Next]_vars
  PROVE  InOrder'
  <1>1. /\ queue \in Seq(Messages) /\ order \in Seq(Messages) /\ tried \in Seq(Messages)
    BY DEF Structure, TypeOK
  <1>2. CASE Begin
    <2>1. <<>> \in Seq(Messages)
      OBVIOUS
    <2>2. <<>> \o <<>> = <<>>
      BY <2>1, ConcatEmptySeq, Zenon
    <2> QED BY <1>2, <2>2, Zenon DEF Begin, InOrder
  <1>3. ASSUME Holds, open PROVE InOrder'
    <2> DEFINE new == <<born + 1>>
    <2>1. born + 1 \in Messages /\ new \in Seq(Messages)
      BY <1>3, NextIsNew DEF Holds, Dispatched
    <2>2. order' = order \o new /\ queue' = queue \o new /\ tried' = tried
      BY <1>1, <1>3, <2>1, AppendIsConcat DEF Holds
    <2>3. order = tried \o queue
      BY <1>3 DEF InOrder
    <2> HIDE DEF new
    <2>4. (tried \o queue) \o new = tried \o (queue \o new)
      BY <1>1, <2>1, ConcatAssociative
    <2> QED BY <2>2, <2>3, <2>4 DEF InOrder
  <1>4. CASE Release
    <2> DEFINE first == <<Head(queue)>>
    <2>1. /\ queue # <<>> /\ queue' = Tail(queue) /\ tried' = Append(tried, Head(queue))
          /\ order' = order /\ open' = open
      BY <1>4 DEF Release, Pop
    <2>2. Head(queue) \in Messages /\ Tail(queue) \in Seq(Messages) /\ first \in Seq(Messages)
      BY <1>1, <2>1, HeadTailProperties
    <2>3. tried' = tried \o first
      BY <1>1, <2>1, <2>2, AppendIsConcat
    <2>4. queue = first \o Tail(queue)
      BY <1>1, <2>1
    <2> HIDE DEF first
    <2>5. (tried \o first) \o Tail(queue) = tried \o (first \o Tail(queue))
      BY <1>1, <2>2, ConcatAssociative
    <2> QED BY <2>1, <2>3, <2>4, <2>5 DEF InOrder
  <1>5. CASE CurrentFails \/ Cancelled \/ Finish
    BY <1>5 DEF CurrentFails, Cancelled, Finish, Closes, InOrder
  <1>6. CASE StrayDispatches
    BY <1>3, <1>6 DEF StrayDispatches, InOrder, holding
  <1>7. CASE Hold
    BY <1>3, <1>7 DEF Hold, Handling, Structure, OpenForRoot
  <1>8. CASE Nest \/ Leave \/ NestedEnds \/ CurrentReturns \/ Released \/ UNCHANGED vars
    BY <1>8 DEF Nest, Leave, NestedEnds, CurrentReturns, Released, vars, holding, InOrder
  <1> QED BY <1>2, <1>4, <1>5, <1>6, <1>7, <1>8 DEF Next, Chain

\* How a dispatch ended goes on telling what became of the messages it held.
LEMMA ResultTellsFatesKept ==
  ASSUME Structure, ResultTellsFates, Next
  PROVE  ResultTellsFates'
  <1> DEFINE Tells(r) ==
        /\ result'[r] = "returned" => \A m \in HeldFor(r)' : fate'[m] = "done"
        /\ result'[r] = "delayed"  => /\ \A m \in HeldFor(r)' : fate'[m] \in {"done", "failed"}
                                      /\ \E m \in HeldFor(r)' : fate'[m] = "failed"
        /\ result'[r] = "raised"   => \A m \in HeldFor(r)' : fate'[m] = "dropped"
  <1>1. ASSUME NEW r \in Messages, result'[r] = result[r] PROVE Tells(r)
    <2> SUFFICES ASSUME result[r] # "none" PROVE Tells(r)
      BY <1>1
    <2>1. \A m \in HeldFor(r) : m \in Messages /\ heldBy[m] = r /\ fate[m] \in Ends
      BY PastIsDecided DEF HeldFor
    <2>2. \A m \in HeldFor(r) : fate'[m] = fate[m] /\ heldBy'[m] = r
      BY <2>1, StepFates DEF Ends
    <2>3. ASSUME NEW m \in Messages, heldBy'[m] = r PROVE heldBy[m] = r
      <3> SUFFICES ASSUME heldBy'[m] # heldBy[m] PROVE FALSE
        BY <2>3
      <3>1. open /\ r = root
        BY <2>3, StepFates
      <3> QED BY <3>1 DEF Structure, OpenForRoot
    <2>4. HeldFor(r)' = HeldFor(r)
      BY <2>1, <2>2, <2>3 DEF HeldFor
    <2> QED BY <1>1, <2>2, <2>4 DEF ResultTellsFates
  <1>2. CASE result' = result
    BY <1>1, <1>2 DEF ResultTellsFates
  <1>3. ASSUME open, NEW how \in {"returned", "delayed", "raised", "cancelled"}, Closes(how),
               Tells(root)
        PROVE  ResultTellsFates'
    <2>1. result' = [result EXCEPT ![root] = how] /\ DOMAIN result = Messages
      BY <1>3 DEF Closes, Structure, TypeOK
    <2>2. \A r \in Messages : r # root => result'[r] = result[r]
      BY <2>1
    <2>3. \A r \in Messages : Tells(r)
      <3> HIDE DEF Tells
      <3> QED BY <1>1, <1>3, <2>2
    <2> QED BY <2>3 DEF ResultTellsFates
  <1>4. CASE CurrentFails
    <2>1. Closes("raised") /\ Ended("failed") /\ open /\ tried = <<>>
      BY <1>4 DEF CurrentFails, Structure, OpenForRoot
    <2>2. result'[root] \in {"raised"} \cup {result[root]} /\ result[root] = "none"
      BY <2>1 DEF Closes, Structure, OpenForRoot, TypeOK
    <2>3. HeldFor(root)' = HeldFor(root)
      BY <2>1 DEF Closes, HeldFor
    <2>4. ASSUME NEW m \in HeldFor(root) PROVE fate'[m] = "dropped"
      <3>1. m \in Messages /\ \E i \in DOMAIN queue : queue[i] = m
        BY <2>1 DEF Structure, QueueHolds, HeldFor
      <3>2. fate[m] = "held"
        BY <3>1 DEF Structure, QueueHolds
      <3> QED BY <2>1, <3>1, <3>2, EndedDecides
    <2> QED BY <1>3, <2>1, <2>2, <2>3, <2>4
  <1>5. CASE Cancelled
    <2>1. Closes("cancelled") /\ open
      BY <1>5 DEF Cancelled, Handling, Structure, OpenForRoot
    <2>2. result'[root] \in {"cancelled"} \cup {result[root]} /\ result[root] = "none"
      BY <2>1 DEF Closes, Structure, OpenForRoot, TypeOK
    <2> QED BY <1>3, <2>1, <2>2
  <1>6. CASE Finish
    <2> DEFINE how == IF SomeFailed THEN "delayed" ELSE "returned"
    <2>1. Closes(how) /\ open /\ queue = <<>> /\ phase = "draining" /\ fate' = fate
      BY <1>6 DEF Finish, Structure, OpenForRoot
    <2>2. HeldFor(root)' = HeldFor(root)
      BY <2>1 DEF Closes, HeldFor
    <2>3. \A m \in HeldFor(root) : \E i \in DOMAIN tried : tried[i] = m
      BY <2>1 DEF Structure, QueueHolds
    <2>4. \A i \in DOMAIN tried : tried[i] \in HeldFor(root) /\ fate[tried[i]] \in {"done", "failed"}
      BY <2>1, Elements DEF Structure, QueueHolds, HeldFor
    <2>5. result'[root] \in {how} \cup {result[root]} /\ result[root] = "none"
      BY <2>1 DEF Closes, Structure, OpenForRoot, TypeOK
    <2>6. CASE SomeFailed
      <3>1. \E m \in HeldFor(root) : fate[m] = "failed"
        BY <2>4, <2>6 DEF SomeFailed
      <3>2. \A m \in HeldFor(root) : fate[m] \in {"done", "failed"}
        BY <2>3, <2>4
      <3>3. Tells(root)
        BY <2>1, <2>2, <2>5, <2>6, <3>1, <3>2
      <3> QED BY <1>3, <2>1, <3>3
    <2>7. CASE ~SomeFailed
      <3>1. \A m \in HeldFor(root) : fate[m] = "done"
        BY <2>3, <2>4, <2>7 DEF SomeFailed
      <3>2. Tells(root)
        BY <2>1, <2>2, <2>5, <2>7, <3>1
      <3> QED BY <1>3, <2>1, <3>2
    <2> QED BY <2>6, <2>7
  <1> HIDE DEF Tells
  <1> QED BY <1>2, <1>4, <1>5, <1>6
      DEF Next, Chain, Begin, Nest, Hold, Holds, Leave, StrayDispatches, NestedEnds,
          CurrentReturns, Release, Released

\* So the invariant is inductive.
LEMMA StepInv == IndInv /\ [Next]_vars => IndInv'
  <1> SUFFICES ASSUME IndInv, [Next]_vars PROVE IndInv'
    OBVIOUS
  <1>1. Structure /\ InOrder /\ NeverEarly /\ ResultTellsFates
    BY DEF IndInv
  <1>2. Structure' /\ InOrder'
    BY <1>1, StepStructure, InOrderKept
  <1>3. CASE UNCHANGED vars
    <2>1. NeverEarly' /\ ResultTellsFates'
      BY <1>1, <1>3 DEF vars, holding, NeverEarly, ResultTellsFates, HeldFor
    <2> QED BY <1>2, <2>1 DEF IndInv
  <1>4. CASE Next
    BY <1>1, <1>2, <1>4, NeverEarlyKept, ResultTellsFatesKept DEF IndInv
  <1> QED BY <1>3, <1>4

\* The invariant holds of every run.
THEOREM Invariant == Spec => []IndInv
  BY InitInv, StepInv, PTL DEF Spec

\* A message held never goes out before the current one succeeded, however deep it was
\* dispatched, and whichever task dispatched it.
THEOREM NeverEarlyHolds == Spec => []NeverEarly
  BY Invariant, PTL DEF IndInv

\* Held-back messages go out in the order they were dispatched.
THEOREM InOrderHolds == Spec => []InOrder
  BY Invariant, PTL DEF IndInv

\* No message is left behind in a _Held nobody empties any more.
THEOREM NothingStrandedHolds == Spec => []NothingStranded
  <1>1. IndInv => NothingStranded
    BY DEF IndInv, Structure, TypeOK, OpenForRoot, QueueHolds, NothingStranded
  <1> QED BY <1>1, Invariant, PTL

\* How a dispatch ends says what became of the messages it held.
THEOREM ResultTellsFatesHolds == Spec => []ResultTellsFates
  BY Invariant, PTL DEF IndInv
=============================================================================
