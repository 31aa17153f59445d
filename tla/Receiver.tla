------------------------------ MODULE Receiver ------------------------------
(***************************************************************************)
(* What a worker may count on from a receiver                              *)
(* (transport/receiver/receiver_interface.py): every message of every      *)
(* origin is handed out at most once, in its origin's order and without    *)
(* leaving one out, and is settled at most once, after it was handed out.  *)
(***************************************************************************)
EXTENDS Naturals

CONSTANTS
  Origins,      \* where messages come from
  PerReceiver   \* number of messages of each origin

Messages == [from : Origins, n : 1..PerReceiver]

VARIABLES
  handed,       \* the messages handed out
  settled       \* how each message was settled

vars == <<handed, settled>>

Init ==
  /\ handed = {}
  /\ settled = [m \in Messages |-> "none"]

\* get() yields the next message of some origin.
Hand(m) ==
  /\ m \notin handed
  /\ \A k \in Messages : k.from = m.from /\ k.n < m.n => k \in handed
  /\ handed' = handed \cup {m}
  /\ UNCHANGED settled

\* ack or reject: the first settlement counts.
Settle(m, how) ==
  /\ m \in handed
  /\ settled[m] = "none"
  /\ settled' = [settled EXCEPT ![m] = how]
  /\ UNCHANGED handed

Next == \E m \in Messages : Hand(m) \/ \E how \in {"ack", "reject"} : Settle(m, how)

Spec == Init /\ [][Next]_vars
=============================================================================
