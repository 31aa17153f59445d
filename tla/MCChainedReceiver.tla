-------------------------- MODULE MCChainedReceiver --------------------------
(***************************************************************************)
(* ChainedReceiver on small instances; the bounds are in the .cfg files.   *)
(***************************************************************************)
EXTENDS ChainedReceiver

\* What can go wrong while get() lets go: everything, or only what loses no message.
EveryFault == {"interrupt", "close_raises"}
Uninterrupted == {"close_raises"}
Interrupted == {"interrupt"}

\* A consumer that settles what it holds, and one that settles nothing yet: settling
\* reads and changes nothing that serving depends on.
EitherWay == {"ack", "reject"}
NotYet == {}
=============================================================================
