---------------------------- MODULE OutboxQueue ----------------------------
(***************************************************************************)
(* What the outbox promises, as the header of platform/outbox/relay.ts     *)
(* states it and with no relay in sight: a committed message is offered    *)
(* only when no earlier live message of its aggregate stands before it, is *)
(* handed to its consumers in their registered order, possibly more than   *)
(* once, and leaves the live backlog only when every one of them has       *)
(* returned or when it is dead-lettered.  OutboxRelay implements it.       *)
(***************************************************************************)
EXTENDS Naturals

CONSTANTS
    Message,      \* the rows of platform.outbox_message
    AggregateOf,  \* the aggregate a message is about
    Occurred,     \* a message's rank in (occurred_at, outbox_message_id) order, distinct
    Consumers     \* how many consumers are registered for its event type

\* The other messages of m's aggregate that occurred before it and that some
\* consumer is registered for: the ones m waits behind while they are live.
Earlier(m) == {e \in Message : /\ AggregateOf[e] = AggregateOf[m]
                               /\ Occurred[e] < Occurred[m]
                               /\ Consumers[e] > 0}

AllOf(m) == 1..Consumers[m]

VARIABLES
    status,   \* absent, live, published or dead
    offered,  \* messages a relay has ever taken
    handled   \* the consumers, by position, that have returned for a message

vars == <<status, offered, handled>>

-----------------------------------------------------------------------------
Init == /\ status = [m \in Message |-> "absent"]
        /\ offered = {}
        /\ handled = [m \in Message |-> {}]

Commit(m) == /\ status[m] = "absent"
             /\ status' = [status EXCEPT ![m] = "live"]
             /\ UNCHANGED <<offered, handled>>

Offer(S) == /\ \A m \in S : /\ status[m] = "live"
                            /\ Consumers[m] > 0
                            /\ \A e \in Earlier(m) : status[e] # "live"
            /\ offered' = offered \cup S
            /\ UNCHANGED <<status, handled>>

Handle(m, i) == /\ m \in offered
                /\ i \in AllOf(m)
                /\ 1..(i - 1) \subseteq handled[m]
                /\ handled' = [handled EXCEPT ![m] = @ \cup {i}]
                /\ UNCHANGED <<status, offered>>

Publish(m) == /\ status[m] = "live"
              /\ m \in offered
              /\ handled[m] = AllOf(m)
              /\ status' = [status EXCEPT ![m] = "published"]
              /\ UNCHANGED <<offered, handled>>

DeadLetter(m) == /\ status[m] = "live"
                 /\ m \in offered
                 /\ status' = [status EXCEPT ![m] = "dead"]
                 /\ UNCHANGED <<offered, handled>>

Requeue(m) == /\ status[m] = "dead"
              /\ status' = [status EXCEPT ![m] = "live"]
              /\ UNCHANGED <<offered, handled>>

Next == \/ \E S \in SUBSET Message : Offer(S)
        \/ \E m \in Message : \/ Commit(m)
                              \/ \E i \in AllOf(m) : Handle(m, i)
                              \/ Publish(m)
                              \/ DeadLetter(m)
                              \/ Requeue(m)

Spec == Init /\ [][Next]_vars
=============================================================================
