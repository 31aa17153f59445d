---------------------------- MODULE HeldMessages ----------------------------
(***************************************************************************)
(* Dispatching after the current message                                   *)
(* (middleware/dispatch_after_current_bus_middleware.py).                  *)
(*                                                                         *)
(* The first message dispatched in a task is the current one.  While its   *)
(* chain runs, the handlers of it, and of the messages they dispatch in    *)
(* turn, may dispatch stamped messages: those are held, in a _Held that    *)
(* every chain of the task finds in a context variable, and go out once    *)
(* the current message succeeded.  A task a handler leaves running copied  *)
(* the context: it finds the same _Held, also when that is long closed.    *)
(*                                                                         *)
(* Chains suspend at awaits, so what a task left running does may fall     *)
(* between any two steps of the current one.  Another task dispatching a   *)
(* message has a _Held of its own and shares nothing with this one.  What  *)
(* a task left running dispatches without the stamp is not modelled: it    *)
(* goes through beside everything here, and what is held while it runs is  *)
(* held as by that task.                                                   *)
(***************************************************************************)
EXTENDS Naturals, Sequences, SequencesExt

CONSTANT MaxMessages  \* bound: the messages dispatched, named in that order

ASSUME ConstantsAssumption == MaxMessages \in Nat

Messages == 1..MaxMessages

VARIABLES
  phase,   \* of the current message: "idle", "handling", "draining", or "rest"
  root,    \* the current message, or the last one; 0 at first
  calls,   \* the messages whose chains are running, each dispatched by the one before
  open,    \* _Held.open
  queue,   \* _Held.envelopes
  order,   \* history: what this _Held held, in the order it was dispatched
  tried,   \* history: what went out of it, in that order
  strays,  \* the current messages that left a task running
  born,    \* how many messages were dispatched
  fate,    \* what became of each message
  heldBy,  \* history: the current message each one was held for; 0 for none
  result   \* how the dispatch of each current message ended

holding == <<open, queue, order, tried, heldBy>>
vars == <<phase, root, calls, strays, born, fate, result, holding>>

Init ==
  /\ phase = "idle"
  /\ root = 0
  /\ calls = <<>>
  /\ open = FALSE
  /\ queue = <<>> /\ order = <<>> /\ tried = <<>>
  /\ strays = {}
  /\ born = 0
  /\ fate = [m \in Messages |-> "unborn"]
  /\ heldBy = [m \in Messages |-> 0]
  /\ result = [m \in Messages |-> "none"]

\* A message is dispatched, and becomes `what` at once.
Dispatched(what) ==
  /\ born < MaxMessages
  /\ born' = born + 1
  /\ fate' = [fate EXCEPT ![born + 1] = what]

\* A chain runs in this task.
Handling == phase \in {"handling", "rest"}

-----------------------------------------------------------------------------
(***************************************************************************)
(* handle(): what becomes of a message as it is dispatched.                *)
(***************************************************************************)

\* Nothing is handled: the message, stamped or not, is the current one.
Begin ==
  /\ phase = "idle" /\ phase' = "handling"
  /\ Dispatched("running")
  /\ root' = born + 1
  /\ calls' = <<born + 1>>
  /\ open' = TRUE
  /\ queue' = <<>> /\ order' = <<>> /\ tried' = <<>>
  /\ UNCHANGED <<strays, heldBy, result>>

\* A handler dispatches a message without the stamp: it goes through, within this one.
Nest ==
  /\ Handling
  /\ Dispatched("running")
  /\ calls' = Append(calls, born + 1)
  /\ UNCHANGED <<phase, root, strays, result, holding>>

Holds ==
  /\ Dispatched("held")
  /\ queue' = Append(queue, born + 1)
  /\ order' = Append(order, born + 1)
  /\ heldBy' = [heldBy EXCEPT ![born + 1] = root]
  /\ UNCHANGED <<phase, root, calls, open, tried, strays, result>>

\* A handler dispatches a stamped message.
Hold == Handling /\ Holds

\* A handler leaves a task running.
Leave ==
  /\ Handling
  /\ strays' = strays \cup {root}
  /\ UNCHANGED <<phase, root, calls, born, fate, result, holding>>

\* A task left running dispatches a stamped message: held if its _Held is open, else
\* current itself, and handled apart from everything here.
StrayDispatches ==
  \E r \in strays :
    \/ r = root /\ open /\ Holds
    \/ /\ r # root \/ ~open
       /\ Dispatched("done") \/ Dispatched("failed")
       /\ UNCHANGED <<phase, root, calls, strays, result, holding>>

-----------------------------------------------------------------------------
(***************************************************************************)
(* How a chain ends.                                                       *)
(***************************************************************************)

\* A message dispatched within another is handled, or fails and its handler copes.
NestedEnds ==
  /\ Handling /\ Len(calls) > 1
  /\ \E end \in {"done", "failed"} : fate' = [fate EXCEPT ![Last(calls)] = end]
  /\ calls' = Front(calls)
  /\ UNCHANGED <<phase, root, strays, born, result, holding>>

\* The whole chain of the current message returned.
CurrentReturns ==
  /\ phase = "handling" /\ Len(calls) = 1
  /\ phase' = "draining"
  /\ fate' = [fate EXCEPT ![root] = "done"]
  /\ calls' = <<>>
  /\ UNCHANGED <<root, strays, born, result, holding>>

\* Faulty variants: the held message dispatched last goes out first; the _Held is left open.
PopLast == queue # <<>> /\ queue' = Front(queue) /\ tried' = Append(tried, Last(queue))
LeftOpen(how) ==
  /\ open' = open
  /\ queue' = <<>>
  /\ phase' = "idle"
  /\ calls' = <<>>
  /\ result' = [result EXCEPT ![root] = how]
  /\ UNCHANGED <<root, strays, born, order, tried, heldBy>>

\* held.envelopes.pop(0)
Pop == queue # <<>> /\ queue' = Tail(queue) /\ tried' = Append(tried, Head(queue))

\* `finally`: the _Held is closed, and what it still holds is dropped.
Closes(how) ==
  /\ open' = FALSE
  /\ queue' = <<>>
  /\ phase' = "idle"
  /\ calls' = <<>>
  /\ result' = [result EXCEPT ![root] = how]
  /\ UNCHANGED <<root, strays, born, order, tried, heldBy>>

\* What becomes of the messages whose chains run, and of those held, as `finally` is met.
Ended(end) ==
  fate' = [m \in Messages |->
             IF fate[m] = "held" THEN "dropped"
             ELSE IF \E i \in DOMAIN calls : calls[i] = m THEN end ELSE fate[m]]

\* A faulty variant: what is held goes out whether or not the current message failed.
FailsAndDrains ==
  /\ phase = "handling" /\ Len(calls) = 1
  /\ phase' = "draining"
  /\ fate' = [fate EXCEPT ![root] = "failed"]
  /\ calls' = <<>>
  /\ UNCHANGED <<root, strays, born, result, holding>>

\* The current message fails.
CurrentFails ==
  /\ phase = "handling" /\ Len(calls) = 1
  /\ Ended("failed")
  /\ Closes("raised")

\* The task is cancelled, wherever it is suspended.
Cancelled ==
  /\ Handling
  /\ Ended("cancelled")
  /\ Closes("cancelled")

-----------------------------------------------------------------------------
(***************************************************************************)
(* `while held.envelopes`                                                  *)
(***************************************************************************)

\* The next message held goes out, through the rest of its chain.
Release ==
  /\ phase = "draining" /\ phase' = "rest"
  /\ Pop
  /\ calls' = <<Last(tried')>>
  /\ fate' = [fate EXCEPT ![Last(tried')] = "running"]
  /\ UNCHANGED <<root, open, order, strays, born, heldBy, result>>

\* A faulty variant: the first failure ends the loop.
ReleasedOrRaised ==
  /\ phase = "rest" /\ Len(calls) = 1
  /\ \/ /\ phase' = "draining"
        /\ fate' = [fate EXCEPT ![Last(calls)] = "done"]
        /\ calls' = <<>>
        /\ UNCHANGED <<root, strays, born, result, holding>>
     \/ Ended("failed") /\ Closes("delayed")

\* It is handled, or fails: the next one's turn comes either way.
Released ==
  /\ phase = "rest" /\ Len(calls) = 1
  /\ phase' = "draining"
  /\ \E end \in {"done", "failed"} : fate' = [fate EXCEPT ![Last(calls)] = end]
  /\ calls' = <<>>
  /\ UNCHANGED <<root, strays, born, result, holding>>

\* Whether a message that went out failed: `errors`.
SomeFailed == \E i \in DOMAIN tried : fate[tried[i]] = "failed"

\* Nothing is held any more, and no await comes in between: the dispatch returns, or raises
\* DelayedMessageHandlingError.
Finish ==
  /\ phase = "draining" /\ queue = <<>>
  /\ Closes(IF SomeFailed THEN "delayed" ELSE "returned")
  /\ UNCHANGED fate

-----------------------------------------------------------------------------
Chain == NestedEnds \/ CurrentReturns \/ CurrentFails \/ Release \/ Released \/ Finish

Next == Begin \/ Nest \/ Hold \/ Leave \/ StrayDispatches \/ Chain \/ Cancelled

Spec == Init /\ [][Next]_vars

\* Handlers return or raise.
FairSpec == Spec /\ WF_vars(Chain)

-----------------------------------------------------------------------------
(***************************************************************************)
(* Properties.                                                             *)
(***************************************************************************)
\* A message held never goes out before the current one succeeded: its whole chain
\* returned, whatever was dispatched within it, and by whom.
NeverEarly ==
  \A m \in Messages :
    heldBy[m] # 0 /\ fate[m] \notin {"held", "dropped"} => fate[heldBy[m]] = "done"

\* "Held-back messages go out in the order dispatched; one they dispatch with the stamp
\* joins the end of the line" - and so does one a task left running dispatches meanwhile.
InOrder == open => order = tried \o queue

\* No message is left behind in a _Held nobody empties any more, however its dispatch ended
\* and whoever still knows that _Held.
NothingStranded ==
  \A m \in Messages :
    fate[m] = "held" => phase # "idle" /\ \E i \in DOMAIN queue : queue[i] = m

\* The messages held for r.
HeldFor(r) == {m \in Messages : heldBy[m] = r}

\* How the dispatch of the current message ends says what became of those it held: each
\* was tried if it succeeded, none went out if it failed, and failures of theirs are raised.
ResultTellsFates ==
  \A r \in Messages :
    /\ result[r] = "returned" => \A m \in HeldFor(r) : fate[m] = "done"
    /\ result[r] = "delayed"  => /\ \A m \in HeldFor(r) : fate[m] \in {"done", "failed"}
                                 /\ \E m \in HeldFor(r) : fate[m] = "failed"
    /\ result[r] = "raised"   => \A m \in HeldFor(r) : fate[m] = "dropped"

\* A message held goes out or is dropped, as long as handlers return.
HeldIsDecided == \A m \in Messages : fate[m] = "held" ~> fate[m] # "held"
=============================================================================
