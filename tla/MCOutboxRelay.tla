-------------------------- MODULE MCOutboxRelay --------------------------
(***************************************************************************)
(* The instances of OutboxRelay that TLC checks: a1 and a2 are two messages *)
(* of one aggregate, b1, in between, one of another.  a1 has two consumers, *)
(* as AttemptScored has the evidence and the report consumer.              *)
(***************************************************************************)
EXTENDS OutboxRelay, TLC

CONSTANTS a1, a2, b1,
    HeadConsumers  \* how many consumers a1 has

MCAggregateOf == [m \in Message |-> IF m = b1 THEN "b" ELSE "a"]
MCOccurred == [m \in Message |-> IF m = a1 THEN 1 ELSE IF m = b1 THEN 2 ELSE 3]
MCConsumers == [m \in Message |-> IF m = a1 THEN HeadConsumers ELSE 1]
RelaySymmetry == Permutations(Relay)
=============================================================================
