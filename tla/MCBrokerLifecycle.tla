-------------------------- MODULE MCBrokerLifecycle --------------------------
(***************************************************************************)
(* BrokerLifecycle on two brokers and two producers: the least for a       *)
(* producer to wait for the lock while another opens another broker, and   *)
(* for a shutdown to raise with a broker left to close.                    *)
(***************************************************************************)
EXTENDS BrokerLifecycle

CONSTANTS b1, b2, p1, p2

TwoBrokers == {b1, b2}
TwoProducers == {p1, p2}
=============================================================================
