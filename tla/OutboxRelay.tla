---------------------------- MODULE OutboxRelay ----------------------------
(***************************************************************************)
(* The outbox relay, platform/outbox/relay.ts: every API instance runs one *)
(* and its scheduler drains it, one drain at a time.  A drain claims rows  *)
(* under a lease, hands each to the consumers of its type in order, and    *)
(* then publishes it, schedules a retry or dead-letters it.  The claim is  *)
(* one SQL statement; what ends a delivery is another, much later, and it  *)
(* names the row only by its id: it does not ask whether the claim it      *)
(* ends is still the relay's own.                                          *)
(*                                                                         *)
(* Time.  The code compares claimed_until and retry_at with the moment its *)
(* drain was given.  Only the outcome of those comparisons matters, so the *)
(* model keeps the outcome: a lease is running (a pair in tenure) until    *)
(* LeaseEnds, a back-off (a message in waiting) until BackoffEnds, each at *)
(* any moment.  A drain whose moment is already old finds less to claim,   *)
(* which is a drain that claims later or not at all.                       *)
(***************************************************************************)
EXTENDS Naturals, FiniteSets

CONSTANTS
    Message,        \* the rows of platform.outbox_message
    AggregateOf,    \* the aggregate a message is about
    Occurred,       \* a message's rank in (occurred_at, outbox_message_id) order
    Consumers,      \* how many consumers are registered for its event type
    Undisciplined,  \* messages whose payload breaks the payload discipline
    Relay,          \* the relays, one in each instance of the application
    NoRelay,        \* claimed_until IS NULL
    BatchSize,      \* policy.batchSize
    MaxAttempts,    \* policy.maxAttempts
    MaxCrashes,     \* bound: deaths of a relay, or failed statements, in a behaviour
    MaxRequeues     \* bound: operator requeues in a behaviour

ASSUME RelayAssumption ==
    /\ Occurred \in [Message -> Nat]
    /\ \A m, n \in Message : Occurred[m] = Occurred[n] => m = n
    /\ Consumers \in [Message -> Nat]
    /\ NoRelay \notin Relay
    /\ BatchSize \in Nat \ {0}
    /\ MaxAttempts \in Nat \ {0}
    /\ MaxCrashes \in Nat
    /\ MaxRequeues \in Nat

VARIABLES
    \* platform.outbox_message
    committed,  \* rows a producing transaction has committed
    published,  \* published_at IS NOT NULL
    dead,       \* dead_at IS NOT NULL
    attempts,   \* attempts
    claim,      \* the relay whose claim wrote claimed_until, or NoRelay
    waiting,    \* rows whose retry_at is still to come
    \* the leases that have not run out, whoever wrote claimed_until last
    tenure,
    \* the relays
    held,       \* rows of the claimed batch not yet finished with
    seen,       \* attempts as the claim returned it
    at,         \* where the delivery stands
    next,       \* the position of the next consumer to call
    \* the consumers
    handled,    \* positions of the consumers that have returned for a message
    \* history and bounds
    offered,    \* messages that have been claimed at least once
    everDead,   \* messages that have been dead-lettered at least once
    overtaken,  \* messages committed after a later one of their aggregate was claimed
    crashes, requeues

row == <<committed, published, dead, attempts, claim, waiting>>
relay == <<held, seen, at, next>>
history == <<offered, everDead, overtaken, crashes, requeues>>
vars == <<row, tenure, relay, handled, history>>

-----------------------------------------------------------------------------
Live(m) == m \in committed /\ m \notin published /\ m \notin dead

Earlier(m) == {e \in Message : /\ AggregateOf[e] = AggregateOf[m]
                               /\ Occurred[e] < Occurred[m]
                               /\ Consumers[e] > 0}

Leased(m) == claim[m] # NoRelay /\ <<claim[m], m>> \in tenure

\* Mutant: the claim's query without its NOT EXISTS.
DueWhateverCameBefore(m) ==
    /\ Live(m)
    /\ Consumers[m] > 0
    /\ ~Leased(m)
    /\ m \notin waiting

\* The rows the claim's CTE selects.
Due(m) == /\ Live(m)
          /\ Consumers[m] > 0
          /\ ~Leased(m)
          /\ m \notin waiting
          /\ \A e \in Earlier(m) : ~Live(e)

AllOf(m) == 1..Consumers[m]

\* A batch is worked through in delivery order.
Current(r, m) == /\ m \in held[r]
                 /\ \A n \in held[r] : Occurred[m] <= Occurred[n]

\* The relay has finished with m and turns to the rest of its batch.
Finish(r, m) == /\ held' = [held EXCEPT ![r] = @ \ {m}]
                /\ at' = [at EXCEPT ![r] = IF held[r] = {m} THEN "idle" ELSE "consume"]
                /\ next' = [next EXCEPT ![r] = 1]
                /\ seen' = [seen EXCEPT ![r][m] = 0]

\* The drain ended by an exception or with its process: nothing is released.
Abandon(r) == /\ held' = [held EXCEPT ![r] = {}]
              /\ at' = [at EXCEPT ![r] = "idle"]
              /\ next' = [next EXCEPT ![r] = 1]
              /\ seen' = [seen EXCEPT ![r] = [m \in Message |-> 0]]

Init == /\ committed = {} /\ published = {} /\ dead = {}
        /\ attempts = [m \in Message |-> 0]
        /\ claim = [m \in Message |-> NoRelay]
        /\ waiting = {}
        /\ tenure = {}
        /\ held = [r \in Relay |-> {}]
        /\ seen = [r \in Relay |-> [m \in Message |-> 0]]
        /\ at = [r \in Relay |-> "idle"]
        /\ next = [r \in Relay |-> 1]
        /\ handled = [m \in Message |-> {}]
        /\ offered = {} /\ everDead = {} /\ overtaken = {}
        /\ crashes = 0 /\ requeues = 0

-----------------------------------------------------------------------------
(***************************************************************************)
(* The producers, the operator and the passing of time.                    *)
(***************************************************************************)

\* A producing transaction commits.  Occurrence is the producer's clock
\* reading, so a message can commit after a later one was already claimed.
Commit(m) ==
    /\ m \notin committed
    /\ committed' = committed \cup {m}
    /\ overtaken' = IF \E n \in offered : m \in Earlier(n)
                    THEN overtaken \cup {m} ELSE overtaken
    /\ UNCHANGED <<published, dead, attempts, claim, waiting, tenure, relay,
                   handled, offered, everDead, crashes, requeues>>

\* The operator's requeue: only a dead message, its bookkeeping cleared.
Requeue(m) ==
    /\ m \in dead
    /\ requeues < MaxRequeues
    /\ dead' = dead \ {m}
    /\ attempts' = [attempts EXCEPT ![m] = 0]
    /\ waiting' = waiting \ {m}
    /\ claim' = [claim EXCEPT ![m] = NoRelay]
    /\ requeues' = requeues + 1
    /\ UNCHANGED <<committed, published, tenure, relay, handled, offered,
                   everDead, overtaken, crashes>>

LeaseEnds(r, m) ==
    /\ <<r, m>> \in tenure
    /\ tenure' = tenure \ {<<r, m>>}
    /\ UNCHANGED <<row, relay, handled, history>>

BackoffEnds(m) ==
    /\ m \in waiting
    /\ waiting' = waiting \ {m}
    /\ UNCHANGED <<committed, published, dead, attempts, claim, tenure, relay,
                   handled, history>>

-----------------------------------------------------------------------------
(***************************************************************************)
(* One relay's drain.                                                      *)
(***************************************************************************)

\* One statement.  It skips the rows another statement has locked at that
\* moment, so it may take any of the due rows, up to a batch of them.
Claim(r) ==
    /\ at[r] = "idle"
    /\ \E S \in SUBSET {m \in Message : Due(m)} :
          /\ S # {}
          /\ Cardinality(S) <= BatchSize
          /\ claim' = [m \in Message |-> IF m \in S THEN r ELSE claim[m]]
          /\ attempts' = [m \in Message |-> IF m \in S THEN attempts[m] + 1
                                                       ELSE attempts[m]]
          /\ tenure' = tenure \cup ({r} \X S)
          /\ held' = [held EXCEPT ![r] = S]
          /\ seen' = [seen EXCEPT ![r] = [m \in Message |-> IF m \in S THEN attempts'[m] ELSE 0]]
          /\ at' = [at EXCEPT ![r] = "consume"]
          /\ next' = [next EXCEPT ![r] = 1]
          /\ offered' = offered \cup S
    /\ UNCHANGED <<committed, published, dead, waiting, handled, everDead,
                   overtaken, crashes, requeues>>

\* A payload that breaks the discipline is dead-lettered, no consumer seeing it.
Refuse(r, m) ==
    /\ at[r] = "consume" /\ Current(r, m)
    /\ m \in Undisciplined
    /\ at' = [at EXCEPT ![r] = "bury"]
    /\ UNCHANGED <<row, tenure, held, seen, next, handled, history>>

\* Mutant: acknowledged as soon as one consumer has returned.
ConsumeFirstOnly(r, m) ==
    /\ at[r] = "consume" /\ Current(r, m)
    /\ m \notin Undisciplined
    /\ next[r] \in AllOf(m)
    /\ handled' = [handled EXCEPT ![m] = @ \cup {next[r]}]
    /\ next' = [next EXCEPT ![r] = @ + 1]
    /\ at' = [at EXCEPT ![r] = "publish"]
    /\ UNCHANGED <<row, tenure, held, seen, history>>

\* The next consumer in the registered order returns.
Consume(r, m) ==
    /\ at[r] = "consume" /\ Current(r, m)
    /\ m \notin Undisciplined
    /\ next[r] \in AllOf(m)
    /\ handled' = [handled EXCEPT ![m] = @ \cup {next[r]}]
    /\ next' = [next EXCEPT ![r] = @ + 1]
    /\ at' = [at EXCEPT ![r] = IF next[r] = Consumers[m] THEN "publish" ELSE "consume"]
    /\ UNCHANGED <<row, tenure, held, seen, history>>

\* It throws: an ordinary error, or a PermanentDeliveryFailure.
Throw(r, m) ==
    /\ at[r] = "consume" /\ Current(r, m)
    /\ m \notin Undisciplined
    /\ \/ at' = [at EXCEPT ![r] = IF seen[r][m] >= MaxAttempts THEN "bury" ELSE "fail"]
       \/ at' = [at EXCEPT ![r] = "bury"]
    /\ UNCHANGED <<row, tenure, held, seen, next, handled, history>>

\* Mutant: the acknowledgement without the constraint behind it.
PublishEvenDead(r, m) ==
    /\ at[r] = "publish" /\ Current(r, m)
    /\ published' = published \cup {m}
    /\ claim' = [claim EXCEPT ![m] = NoRelay]
    /\ waiting' = waiting \ {m}
    /\ tenure' = tenure \ {<<r, m>>}
    /\ Finish(r, m)
    /\ UNCHANGED <<committed, dead, attempts, handled, history>>

\* The UPDATE that acknowledges.  A row that is already dead refuses it (the
\* outbox_message_published_xor_dead constraint) and the drain ends there.
Publish(r, m) ==
    /\ at[r] = "publish" /\ Current(r, m)
    /\ IF m \in dead
       THEN /\ Abandon(r)
            /\ UNCHANGED <<published, claim, waiting, tenure>>
       ELSE /\ published' = published \cup {m}
            /\ claim' = [claim EXCEPT ![m] = NoRelay]
            /\ waiting' = waiting \ {m}
            /\ tenure' = tenure \ {<<r, m>>}
            /\ Finish(r, m)
    /\ UNCHANGED <<committed, dead, attempts, handled, history>>

\* Mutant: a failed delivery gives its attempts back.
FailForgetting(r, m) ==
    /\ at[r] = "fail" /\ Current(r, m)
    /\ claim' = [claim EXCEPT ![m] = NoRelay]
    /\ waiting' = waiting \cup {m}
    /\ tenure' = tenure \ {<<r, m>>}
    /\ attempts' = [attempts EXCEPT ![m] = 0]
    /\ Finish(r, m)
    /\ UNCHANGED <<committed, published, dead, handled, history>>

\* #fail with attempts to spare: claimable again after the back-off.
Fail(r, m) ==
    /\ at[r] = "fail" /\ Current(r, m)
    /\ claim' = [claim EXCEPT ![m] = NoRelay]
    /\ waiting' = waiting \cup {m}
    /\ tenure' = tenure \ {<<r, m>>}
    /\ Finish(r, m)
    /\ UNCHANGED <<committed, published, dead, attempts, handled, history>>

\* #markDead.  A row that is already published refuses it.
MarkDead(r, m) ==
    /\ at[r] = "bury" /\ Current(r, m)
    /\ IF m \in published
       THEN /\ Abandon(r)
            /\ UNCHANGED <<dead, claim, waiting, tenure, everDead>>
       ELSE /\ dead' = dead \cup {m}
            /\ everDead' = everDead \cup {m}
            /\ claim' = [claim EXCEPT ![m] = NoRelay]
            /\ waiting' = waiting \ {m}
            /\ tenure' = tenure \ {<<r, m>>}
            /\ Finish(r, m)
    /\ UNCHANGED <<committed, published, attempts, handled, offered, overtaken,
                   crashes, requeues>>

\* The process dies, or a statement fails: whatever was claimed stays claimed
\* until its lease runs out.
Crash(r) ==
    /\ at[r] # "idle"
    /\ crashes < MaxCrashes
    /\ crashes' = crashes + 1
    /\ Abandon(r)
    /\ UNCHANGED <<row, tenure, handled, offered, everDead, overtaken, requeues>>

-----------------------------------------------------------------------------
Deliver(r) == \E m \in Message : \/ Refuse(r, m) \/ Consume(r, m) \/ Throw(r, m)
                                 \/ Publish(r, m) \/ Fail(r, m) \/ MarkDead(r, m)

Next == \/ \E m \in Message : Commit(m) \/ Requeue(m) \/ BackoffEnds(m)
        \/ \E r \in Relay : \/ \E m \in Message : LeaseEnds(r, m)
                            \/ Claim(r)
                            \/ Deliver(r)
                            \/ Crash(r)

Spec == Init /\ [][Next]_vars

(***************************************************************************)
(* Fairness.  The scheduler ticks every second and drains, so a relay that *)
(* is up goes on claiming and working through what it claimed; a consumer  *)
(* returns or throws; a lease and a back-off are finite spans of time.     *)
(* Nothing is assumed of producers, operators or crashes.                  *)
(***************************************************************************)
Fairness == /\ \A r \in Relay : WF_vars(Claim(r)) /\ WF_vars(Deliver(r))
            /\ \A r \in Relay, m \in Message : WF_vars(LeaseEnds(r, m))
            /\ \A m \in Message : WF_vars(BackoffEnds(m))

FairSpec == Spec /\ Fairness

-----------------------------------------------------------------------------
\* Every variable keeps its type: the row's columns, the leases, each relay's
\* place in its drain and the histories.
TypeOK ==
    /\ committed \subseteq Message /\ published \subseteq Message
    /\ dead \subseteq Message /\ waiting \subseteq Message
    /\ attempts \in [Message -> Nat]
    /\ claim \in [Message -> Relay \cup {NoRelay}]
    /\ tenure \subseteq Relay \X Message
    /\ held \in [Relay -> SUBSET Message]
    /\ seen \in [Relay -> [Message -> Nat]]
    /\ at \in [Relay -> {"idle", "consume", "publish", "fail", "bury"}]
    /\ next \in [Relay -> Nat]
    /\ handled \in [Message -> SUBSET Nat]
    /\ offered \subseteq Message /\ everDead \subseteq Message
    /\ overtaken \subseteq Message
    /\ crashes \in Nat /\ requeues \in Nat

\* At least once, and in the registered order: a message has left the backlog
\* as published only when every consumer of its type has returned for it, and
\* a consumer has it only after the ones before it have returned (the report
\* consumer reads what the evidence consumer wrote).  However many relays hold
\* it, whichever of them publishes.
AtLeastOnce ==
    \A m \in Message : /\ m \in published => handled[m] = AllOf(m)
                       /\ \A i \in handled[m] : 1..i \subseteq handled[m]

\* In order per aggregate: a message a consumer has seen has no earlier live
\* message of its aggregate that had not been delivered when it was first
\* taken, except one that has been dead-lettered or one that committed too
\* late to be waited for.  Stale relays and requeues included.
InOrderPerAggregate ==
    \A m \in Message : handled[m] # {} =>
        \A e \in Earlier(m) \cap committed :
            \/ handled[e] = AllOf(e)
            \/ e \in everDead
            \/ e \in overtaken

\* A relay that dies, a consumer that keeps failing or a poison message stalls
\* nothing: every committed message somebody consumes leaves the backlog.
EveryMessageSettles ==
    \A m \in Message :
        (m \in committed /\ Consumers[m] > 0) ~> (m \in published \cup dead)

-----------------------------------------------------------------------------
(***************************************************************************)
(* The relay implements what its header promises.                          *)
(***************************************************************************)
StatusOf(m) == IF m \notin committed THEN "absent"
               ELSE IF m \in published THEN "published"
               ELSE IF m \in dead THEN "dead" ELSE "live"

Queue == INSTANCE OutboxQueue WITH status <- [m \in Message |-> StatusOf(m)]

\* Every behaviour of the relays over the rows is one of the queue's.
ImplementsQueue == Queue!Spec
=============================================================================
