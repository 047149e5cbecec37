------------------------- MODULE OutboxRelayProofs -------------------------
(***************************************************************************)
(* Theorems about OutboxRelay for any set of messages, relays and          *)
(* consumers and any policy: its invariants, and that it implements the    *)
(* promise stated in OutboxQueue.                                          *)
(***************************************************************************)
EXTENDS OutboxRelay, TLAPS

\* What the row columns and the histories say of one another.
RowInv ==
    /\ offered \subseteq committed
    /\ published \subseteq offered
    /\ dead \subseteq everDead
    /\ everDead \subseteq offered
    /\ published \cap dead = {}
    /\ \A m \in offered : Consumers[m] > 0

\* What has been handled, and in which order.
HandledInv ==
    /\ \A m \in Message : handled[m] \subseteq AllOf(m)
    /\ \A m \in Message : \A i \in handled[m] : 1..i \subseteq handled[m]
    /\ \A m \in Message : handled[m] # {} => m \in offered
    /\ \A m \in published : handled[m] = AllOf(m)

\* What a relay in the middle of a delivery knows.
RelayInv ==
    \A r \in Relay :
        /\ held[r] \subseteq offered
        /\ next[r] \in Nat \ {0}
        /\ at[r] = "consume" => \A m \in Message :
               Current(r, m) => 1..(next[r] - 1) \subseteq handled[m]
        /\ at[r] = "publish" => \A m \in Message :
               Current(r, m) => handled[m] = AllOf(m)

\* Why a message was free to be taken.
OrderInv ==
    \A m \in offered : \A e \in Earlier(m) :
        e \in committed => e \in published \/ e \in everDead \/ e \in overtaken

IInv == TypeOK /\ RowInv /\ HandledInv /\ RelayInv /\ OrderInv

-----------------------------------------------------------------------------
\* An empty outbox and idle relays satisfy the invariant.
LEMMA InitInv == Init => IInv
  BY RelayAssumption DEF Init, IInv, TypeOK, RowInv, HandledInv, RelayInv, OrderInv,
     AllOf, Current, Earlier

\* The relays' own variables keep their types when one of them finishes with a
\* message or drops its batch.
LEMMA RelayTypes ==
  ASSUME TypeOK, NEW r \in Relay, NEW m \in Message, Finish(r, m) \/ Abandon(r)
  PROVE  /\ held' \in [Relay -> SUBSET Message]
         /\ seen' \in [Relay -> [Message -> Nat]]
         /\ at' \in [Relay -> {"idle", "consume", "publish", "fail", "bury"}]
         /\ next' \in [Relay -> Nat]
<1>1. CASE Finish(r, m)
  <2>1. seen' \in [Relay -> [Message -> Nat]]
    <3> DEFINE f == [seen[r] EXCEPT ![m] = 0]
    <3>1. f \in [Message -> Nat]
      BY DEF TypeOK
    <3>2. seen' = [seen EXCEPT ![r] = f]
      BY <1>1 DEF Finish
    <3> HIDE DEF f
    <3> QED BY <3>1, <3>2 DEF TypeOK
  <2>2. held' \in [Relay -> SUBSET Message]
    BY <1>1 DEF Finish, TypeOK
  <2>3. at' \in [Relay -> {"idle", "consume", "publish", "fail", "bury"}]
    BY <1>1 DEF Finish, TypeOK
  <2> QED BY <1>1, <2>1, <2>2, <2>3 DEF Finish, TypeOK
<1>2. CASE Abandon(r)
  <2>1. seen' \in [Relay -> [Message -> Nat]]
    <3> DEFINE f == [n \in Message |-> 0]
    <3>1. f \in [Message -> Nat]
      OBVIOUS
    <3>2. seen' = [seen EXCEPT ![r] = f]
      BY <1>2 DEF Abandon
    <3> HIDE DEF f
    <3> QED BY <3>1, <3>2 DEF TypeOK
  <2> QED BY <1>2, <2>1 DEF Abandon, TypeOK
<1> QED BY <1>1, <1>2

\* Every step of a producer, an operator, a relay or the clock keeps the types.
LEMMA TypeStep == TypeOK /\ [Next]_vars => TypeOK'
<1> SUFFICES ASSUME TypeOK, [Next]_vars PROVE TypeOK'
  OBVIOUS
<1> USE RelayAssumption DEF TypeOK
<1>1. CASE UNCHANGED vars
  BY <1>1 DEF vars, row, relay, history
<1>2. ASSUME NEW m \in Message, Commit(m) PROVE TypeOK'
  BY <1>2 DEF Commit, relay
<1>3. ASSUME NEW m \in Message, Requeue(m) PROVE TypeOK'
  BY <1>3 DEF Requeue, relay
<1>4. ASSUME NEW m \in Message, BackoffEnds(m) PROVE TypeOK'
  BY <1>4 DEF BackoffEnds, relay, history
<1>5. ASSUME NEW r \in Relay, NEW m \in Message, LeaseEnds(r, m) PROVE TypeOK'
  BY <1>5 DEF LeaseEnds, row, relay, history
<1>6. ASSUME NEW r \in Relay, Claim(r) PROVE TypeOK'
  <2>1. PICK S \in SUBSET {m \in Message : Due(m)} :
          /\ claim' = [m \in Message |-> IF m \in S THEN r ELSE claim[m]]
          /\ attempts' = [m \in Message |-> IF m \in S THEN attempts[m] + 1
                                                       ELSE attempts[m]]
          /\ tenure' = tenure \cup ({r} \X S)
          /\ held' = [held EXCEPT ![r] = S]
          /\ seen' = [seen EXCEPT ![r] = [m \in Message |-> IF m \in S THEN attempts'[m] ELSE 0]]
          /\ at' = [at EXCEPT ![r] = "consume"]
          /\ next' = [next EXCEPT ![r] = 1]
          /\ offered' = offered \cup S
    BY <1>6 DEF Claim
  <2>2. S \subseteq Message
    OBVIOUS
  <2>3. attempts' \in [Message -> Nat]
    BY <2>1
  <2>4. seen' \in [Relay -> [Message -> Nat]]
    <3> DEFINE f == [m \in Message |-> IF m \in S THEN attempts'[m] ELSE 0]
    <3>1. f \in [Message -> Nat]
      BY <2>3
    <3>2. seen' = [seen EXCEPT ![r] = f]
      BY <2>1
    <3> HIDE DEF f
    <3> QED BY <3>1, <3>2
  <2>5. tenure' \subseteq Relay \X Message
    BY <2>1, <2>2
  <2>6. held' \in [Relay -> SUBSET Message]
    BY <2>1, <2>2
  <2> QED BY <1>6, <2>1, <2>2, <2>3, <2>4, <2>5, <2>6 DEF Claim
<1>7. ASSUME NEW r \in Relay, NEW m \in Message, Refuse(r, m) PROVE TypeOK'
  BY <1>7 DEF Refuse, row, history
<1>8. ASSUME NEW r \in Relay, NEW m \in Message, Consume(r, m) PROVE TypeOK'
  <2>1. next[r] \in Nat
    OBVIOUS
  <2> QED BY <1>8, <2>1 DEF Consume, row, history
<1>9. ASSUME NEW r \in Relay, NEW m \in Message, Throw(r, m) PROVE TypeOK'
  BY <1>9 DEF Throw, row, history
<1>10. ASSUME NEW r \in Relay, NEW m \in Message, Publish(r, m) PROVE TypeOK'
  <2>1. Finish(r, m) \/ Abandon(r)
    BY <1>10 DEF Publish
  <2> QED BY <1>10, <2>1, RelayTypes DEF Publish, history
<1>11. ASSUME NEW r \in Relay, NEW m \in Message, Fail(r, m) PROVE TypeOK'
  <2>1. Finish(r, m) \/ Abandon(r)
    BY <1>11 DEF Fail
  <2> QED BY <1>11, <2>1, RelayTypes DEF Fail, history
<1>12. ASSUME NEW r \in Relay, NEW m \in Message, MarkDead(r, m) PROVE TypeOK'
  <2>1. Finish(r, m) \/ Abandon(r)
    BY <1>12 DEF MarkDead
  <2> QED BY <1>12, <2>1, RelayTypes DEF MarkDead
<1>13. ASSUME NEW r \in Relay, Crash(r) PROVE TypeOK'
  <2>1. /\ held' \in [Relay -> SUBSET Message]
        /\ seen' \in [Relay -> [Message -> Nat]]
        /\ at' \in [Relay -> {"idle", "consume", "publish", "fail", "bury"}]
        /\ next' \in [Relay -> Nat]
    <3> DEFINE f == [n \in Message |-> 0]
    <3>1. f \in [Message -> Nat]
      OBVIOUS
    <3>2. seen' = [seen EXCEPT ![r] = f]
      BY <1>13 DEF Crash, Abandon
    <3> HIDE DEF f
    <3> QED BY <1>13, <3>1, <3>2 DEF Crash, Abandon
  <2> QED BY <1>13, <2>1 DEF Crash, row
<1> QED BY <1>1, <1>2, <1>3, <1>4, <1>5, <1>6, <1>7, <1>8, <1>9, <1>10, <1>11, <1>12, <1>13
        DEF Next, Deliver

\* The row columns, the leases and the relays' own state keep their types
\* whatever the relays do (relay.ts).
THEOREM TypeCorrect == Spec => []TypeOK
<1>1. Init => TypeOK
  BY InitInv DEF IInv
<1> QED BY <1>1, TypeStep, PTL DEF Spec

-----------------------------------------------------------------------------
(***************************************************************************)
(* The inductive invariant.                                                *)
(***************************************************************************)
\* A row is published or dead, never both, and only after it was offered.
LEMMA RowStep == TypeOK /\ RowInv /\ RelayInv /\ [Next]_vars => RowInv'
<1> SUFFICES ASSUME TypeOK, RowInv, RelayInv, [Next]_vars PROVE RowInv'
  OBVIOUS
<1> USE DEF RowInv
<1>1. CASE UNCHANGED vars
  BY <1>1 DEF vars, row, history
<1>2. ASSUME NEW m \in Message, Commit(m) \/ Requeue(m) \/ BackoffEnds(m) PROVE RowInv'
  BY <1>2 DEF Commit, Requeue, BackoffEnds, history
<1>3. ASSUME NEW r \in Relay, NEW m \in Message, LeaseEnds(r, m) PROVE RowInv'
  BY <1>3 DEF LeaseEnds, row, history
<1>4. ASSUME NEW r \in Relay, Claim(r) PROVE RowInv'
  BY <1>4 DEF Claim, Due, Live
<1>5. ASSUME NEW r \in Relay, NEW m \in Message,
             Refuse(r, m) \/ Consume(r, m) \/ Throw(r, m) \/ Fail(r, m)
      PROVE  RowInv'
  BY <1>5 DEF Refuse, Consume, Throw, Fail, row, history
<1>6. ASSUME NEW r \in Relay, NEW m \in Message, Publish(r, m) PROVE RowInv'
  <2>1. m \in offered
    BY <1>6 DEF Publish, Current, RelayInv
  <2> QED BY <1>6, <2>1 DEF Publish, history
<1>7. ASSUME NEW r \in Relay, NEW m \in Message, MarkDead(r, m) PROVE RowInv'
  <2>1. m \in offered
    BY <1>7 DEF MarkDead, Current, RelayInv
  <2> QED BY <1>7, <2>1 DEF MarkDead
<1>8. ASSUME NEW r \in Relay, Crash(r) PROVE RowInv'
  BY <1>8 DEF Crash, row
<1> QED BY <1>1, <1>2, <1>3, <1>4, <1>5, <1>6, <1>7, <1>8 DEF Next, Deliver

\* The message a relay is at is one message: occurrence ranks are distinct.
LEMMA CurrentIsOne ==
  ASSUME NEW r \in Relay, NEW m \in Message, NEW n \in Message,
         Current(r, m), Current(r, n)
  PROVE  m = n
<1>1. /\ Occurred[m] \in Nat /\ Occurred[n] \in Nat
      /\ Occurred[m] <= Occurred[n] /\ Occurred[n] <= Occurred[m]
  BY RelayAssumption DEF Current
<1> QED BY <1>1, RelayAssumption

\* Consumers return for a message in order, and all of them before it is
\* published.
LEMMA HandledStep ==
  TypeOK /\ RowInv /\ HandledInv /\ RelayInv /\ [Next]_vars => HandledInv'
<1> SUFFICES ASSUME TypeOK, RowInv, HandledInv, RelayInv, [Next]_vars PROVE HandledInv'
  OBVIOUS
<1> USE DEF HandledInv
<1>1. CASE UNCHANGED vars
  BY <1>1 DEF vars, row, history
<1>2. ASSUME NEW m \in Message, Commit(m) \/ Requeue(m) \/ BackoffEnds(m) PROVE HandledInv'
  BY <1>2 DEF Commit, Requeue, BackoffEnds, history
<1>3. ASSUME NEW r \in Relay, NEW m \in Message, LeaseEnds(r, m) PROVE HandledInv'
  BY <1>3 DEF LeaseEnds, row, history
<1>4. ASSUME NEW r \in Relay, Claim(r) PROVE HandledInv'
  BY <1>4 DEF Claim
<1>5. ASSUME NEW r \in Relay, NEW m \in Message,
             Refuse(r, m) \/ Throw(r, m) \/ Fail(r, m) \/ MarkDead(r, m)
      PROVE  HandledInv'
  BY <1>5 DEF Refuse, Throw, Fail, MarkDead, row, history
<1>6. ASSUME NEW r \in Relay, NEW m \in Message, Consume(r, m) PROVE HandledInv'
  <2>1. /\ handled' = [handled EXCEPT ![m] = handled[m] \cup {next[r]}]
        /\ published' = published /\ offered' = offered
        /\ next[r] \in AllOf(m) /\ m \in offered
        /\ 1..(next[r] - 1) \subseteq handled[m]
    BY <1>6 DEF Consume, row, history, RelayInv, Current
  <2>2. Consumers[m] \in Nat /\ next[r] \in Nat \ {0} /\ handled[m] \subseteq Nat
    BY RelayAssumption DEF RelayInv, TypeOK
  <2>3. handled'[m] = handled[m] \cup {next[r]}
    BY <2>1 DEF TypeOK
  <2>4. \A n \in Message : n # m => handled'[n] = handled[n]
    BY <2>1 DEF TypeOK
  <2>5. 1..next[r] \subseteq handled'[m]
    BY <2>1, <2>2, <2>3
  <2>6. \A n \in Message : handled'[n] \subseteq AllOf(n)
    BY <2>1, <2>3, <2>4
  <2>7. \A n \in Message : \A i \in handled'[n] : 1..i \subseteq handled'[n]
    BY <2>3, <2>4, <2>5
  <2>8. \A n \in Message : handled'[n] # {} => n \in offered'
    BY <2>1, <2>3, <2>4
  <2>9. \A n \in published' : handled'[n] = AllOf(n)
    <3> SUFFICES ASSUME NEW n \in published' PROVE handled'[n] = AllOf(n)
      OBVIOUS
    <3>1. n \in Message /\ handled[n] = AllOf(n)
      BY <2>1 DEF TypeOK
    <3> QED BY <2>1, <2>3, <2>4, <3>1
  <2> QED BY <2>6, <2>7, <2>8, <2>9 DEF AllOf
<1>7. ASSUME NEW r \in Relay, NEW m \in Message, Publish(r, m) PROVE HandledInv'
  <2>1. handled[m] = AllOf(m)
    BY <1>7 DEF Publish, RelayInv
  <2> QED BY <1>7, <2>1 DEF Publish, history
<1>8. ASSUME NEW r \in Relay, Crash(r) PROVE HandledInv'
  BY <1>8 DEF Crash, row
<1> QED BY <1>1, <1>2, <1>3, <1>4, <1>5, <1>6, <1>7, <1>8 DEF Next, Deliver

\* Once a message was offered, what is earlier of its aggregate has settled or
\* came too late, and neither is ever undone.
LEMMA OrderStep == TypeOK /\ RowInv /\ OrderInv /\ [Next]_vars => OrderInv'
<1> SUFFICES ASSUME TypeOK, RowInv, OrderInv, [Next]_vars PROVE OrderInv'
  OBVIOUS
<1> USE DEF OrderInv
<1>1. CASE UNCHANGED vars
  BY <1>1 DEF vars, row, history
<1>2. ASSUME NEW m \in Message, Commit(m) PROVE OrderInv'
  <2> SUFFICES ASSUME NEW n \in offered', NEW e \in Earlier(n), e \in committed'
               PROVE  e \in published' \/ e \in everDead' \/ e \in overtaken'
    OBVIOUS
  <2>1. n \in offered /\ published' = published /\ everDead' = everDead
        /\ overtaken \subseteq overtaken'
    BY <1>2 DEF Commit
  <2>2. CASE e = m
    BY <1>2, <2>1, <2>2 DEF Commit
  <2>3. CASE e # m
    BY <1>2, <2>1, <2>3 DEF Commit
  <2> QED BY <2>2, <2>3
<1>3. ASSUME NEW m \in Message, Requeue(m) \/ BackoffEnds(m) PROVE OrderInv'
  BY <1>3 DEF Requeue, BackoffEnds, history
<1>4. ASSUME NEW r \in Relay, NEW m \in Message, LeaseEnds(r, m) PROVE OrderInv'
  BY <1>4 DEF LeaseEnds, row, history
<1>5. ASSUME NEW r \in Relay, Claim(r) PROVE OrderInv'
  <2> SUFFICES ASSUME NEW n \in offered', NEW e \in Earlier(n), e \in committed'
               PROVE  e \in published' \/ e \in everDead' \/ e \in overtaken'
    OBVIOUS
  <2>1. n \in offered \/ Due(n)
    BY <1>5 DEF Claim
  <2>2. CASE n \in offered
    BY <1>5, <2>2 DEF Claim
  <2>3. CASE Due(n)
    BY <1>5, <2>3 DEF Claim, Due, Live, Earlier, RowInv
  <2> QED BY <2>1, <2>2, <2>3
<1>6. ASSUME NEW r \in Relay, NEW m \in Message,
             Refuse(r, m) \/ Consume(r, m) \/ Throw(r, m) \/ Fail(r, m)
      PROVE  OrderInv'
  BY <1>6 DEF Refuse, Consume, Throw, Fail, row, history
<1>7. ASSUME NEW r \in Relay, NEW m \in Message, Publish(r, m) \/ MarkDead(r, m)
      PROVE  OrderInv'
  BY <1>7 DEF Publish, MarkDead, history
<1>8. ASSUME NEW r \in Relay, Crash(r) PROVE OrderInv'
  BY <1>8 DEF Crash, row
<1> QED BY <1>1, <1>2, <1>3, <1>4, <1>5, <1>6, <1>7, <1>8 DEF Next, Deliver

\* One relay's knowledge, so that a step of another relay can be set aside.
Knows(q) ==
    /\ held[q] \subseteq offered
    /\ next[q] \in Nat \ {0}
    /\ at[q] = "consume" => \A n \in Message :
           Current(q, n) => 1..(next[q] - 1) \subseteq handled[n]
    /\ at[q] = "publish" => \A n \in Message :
           Current(q, n) => handled[n] = AllOf(n)

\* What a relay knows outlives a step that leaves the relay alone and lets
\* the histories grow.
LEMMA OthersKnow ==
  ASSUME TypeOK, HandledInv, HandledInv', NEW q \in Relay, Knows(q),
         held'[q] = held[q], next'[q] = next[q], at'[q] = at[q],
         offered \subseteq offered',
         \A n \in Message : handled[n] \subseteq handled'[n]
  PROVE  Knows(q)'
<1>1. \A n \in Message : Current(q, n)' <=> Current(q, n)
  BY DEF Current
<1>2. \A n \in Message : handled[n] = AllOf(n) => handled'[n] = AllOf(n)
  BY DEF HandledInv, AllOf
<1> QED BY <1>1, <1>2 DEF Knows

\* A relay between two messages, or with no batch, has nothing to know.
LEMMA FreshKnows ==
  ASSUME NEW q \in Relay, held'[q] \subseteq offered', next'[q] = 1,
         at'[q] \in {"idle", "consume", "fail", "bury"}
  PROVE  Knows(q)'
<1>1. 1..(next'[q] - 1) = {}
  OBVIOUS
<1> QED BY <1>1 DEF Knows

\* What a relay in the middle of a delivery knows survives every step, its
\* own and the others'.
LEMMA RelayStep ==
  TypeOK /\ RowInv /\ HandledInv /\ RelayInv /\ HandledInv' /\ [Next]_vars => RelayInv'
<1> SUFFICES ASSUME TypeOK, RowInv, HandledInv, RelayInv, HandledInv', [Next]_vars,
                    NEW q \in Relay
             PROVE  Knows(q)'
  BY DEF RelayInv, Knows, Current, AllOf
<1>0. Knows(q)
  BY DEF RelayInv, Knows
<1>1. CASE UNCHANGED vars
  BY <1>0, <1>1, OthersKnow DEF vars, relay, row, history
<1>2. ASSUME NEW m \in Message, Commit(m) \/ Requeue(m) \/ BackoffEnds(m)
      PROVE  Knows(q)'
  <2>1. /\ held' = held /\ next' = next /\ at' = at
        /\ offered' = offered /\ handled' = handled
    BY <1>2 DEF Commit, Requeue, BackoffEnds, relay, history
  <2> QED BY <1>0, <2>1, OthersKnow
<1>3. ASSUME NEW r \in Relay, NEW m \in Message, LeaseEnds(r, m) PROVE Knows(q)'
  BY <1>0, <1>3, OthersKnow DEF LeaseEnds, relay, history
<1>4. ASSUME NEW r \in Relay, Claim(r) PROVE Knows(q)'
  <2>1. /\ offered \subseteq offered' /\ handled' = handled
        /\ held'[r] \subseteq offered' /\ next'[r] = 1 /\ at'[r] = "consume"
        /\ q # r => held'[q] = held[q] /\ next'[q] = next[q] /\ at'[q] = at[q]
    BY <1>4 DEF Claim, TypeOK
  <2> QED BY <1>0, <2>1, OthersKnow, FreshKnows
<1>5. ASSUME NEW r \in Relay, NEW m \in Message, Refuse(r, m) PROVE Knows(q)'
  <2>1. CASE q # r
    BY <1>0, <1>5, <2>1, OthersKnow DEF Refuse, TypeOK, row, history
  <2>2. CASE q = r
    BY <1>0, <1>5, <2>2 DEF Refuse, TypeOK, Knows, Current, history
  <2> QED BY <2>1, <2>2
<1>6. ASSUME NEW r \in Relay, NEW m \in Message, Consume(r, m) PROVE Knows(q)'
  <2>1. /\ handled'[m] = handled[m] \cup {next[r]}
        /\ \A n \in Message : n # m => handled'[n] = handled[n]
        /\ held' = held /\ offered' = offered
        /\ next[r] \in AllOf(m) /\ Current(r, m) /\ at[r] = "consume"
        /\ next' = [next EXCEPT ![r] = next[r] + 1]
        /\ at' = [at EXCEPT ![r] = IF next[r] = Consumers[m] THEN "publish" ELSE "consume"]
    BY <1>6 DEF Consume, TypeOK, history
  <2>2. \A n \in Message : handled[n] \subseteq handled'[n]
    BY <2>1
  <2>3. CASE q # r
    BY <1>0, <2>1, <2>2, <2>3, OthersKnow DEF TypeOK
  <2>4. CASE q = r
    <3>1. /\ next'[q] = next[q] + 1 /\ next[q] \in Nat \ {0}
          /\ 1..(next[q] - 1) \subseteq handled[m]
      BY <1>0, <2>1, <2>4 DEF TypeOK, Knows
    <3>2. \A n \in Message : Current(q, n)' => n = m
      BY <2>1, <2>4, CurrentIsOne DEF Current
    <3>3. 1..(next'[q] - 1) \subseteq handled'[m]
      BY <2>1, <2>4, <3>1
    <3>4. held'[q] \subseteq offered'
      BY <1>0, <2>1 DEF Knows
    <3>5. CASE next[q] = Consumers[m]
      <4>1. at'[q] = "publish"
        BY <2>1, <2>4, <3>5 DEF TypeOK
      <4>2. handled'[m] = AllOf(m)
        <5>1. handled'[m] \subseteq AllOf(m)
          BY DEF HandledInv, AllOf
        <5>2. next'[q] - 1 = Consumers[m]
          BY <3>1, <3>5
        <5> QED BY <3>3, <5>1, <5>2 DEF AllOf
      <4> QED BY <3>1, <3>2, <3>4, <4>1, <4>2 DEF Knows, AllOf
    <3>6. CASE next[q] # Consumers[m]
      <4>1. at'[q] = "consume"
        BY <2>1, <2>4, <3>6 DEF TypeOK
      <4> QED BY <3>1, <3>2, <3>3, <3>4, <4>1 DEF Knows
    <3> QED BY <3>5, <3>6
  <2> QED BY <2>3, <2>4
<1>7. ASSUME NEW r \in Relay, NEW m \in Message, Throw(r, m) PROVE Knows(q)'
  <2>1. CASE q # r
    BY <1>0, <1>7, <2>1, OthersKnow DEF Throw, TypeOK, row, history
  <2>2. CASE q = r
    BY <1>0, <1>7, <2>2 DEF Throw, TypeOK, Knows, Current, history
  <2> QED BY <2>1, <2>2
<1>8. ASSUME NEW r \in Relay, handled' = handled, offered' = offered,
             Abandon(r) \/ \E m \in Message : Finish(r, m)
      PROVE  Knows(q)'
  <2>1. /\ held'[r] \subseteq held[r] /\ next'[r] = 1
        /\ at'[r] \in {"idle", "consume"}
        /\ q # r => held'[q] = held[q] /\ next'[q] = next[q] /\ at'[q] = at[q]
    BY <1>8 DEF Abandon, Finish, TypeOK
  <2> QED BY <1>0, <1>8, <2>1, OthersKnow, FreshKnows DEF Knows
<1>9. ASSUME NEW r \in Relay, NEW m \in Message,
             Publish(r, m) \/ Fail(r, m) \/ MarkDead(r, m)
      PROVE  Knows(q)'
  <2>1. /\ handled' = handled /\ offered' = offered
        /\ Abandon(r) \/ Finish(r, m)
    BY <1>9 DEF Publish, Fail, MarkDead, history
  <2> QED BY <1>8, <2>1
<1>10. ASSUME NEW r \in Relay, Crash(r) PROVE Knows(q)'
  <2>1. handled' = handled /\ offered' = offered /\ Abandon(r)
    BY <1>10 DEF Crash
  <2> QED BY <1>8, <2>1
<1> QED BY <1>1, <1>2, <1>3, <1>4, <1>5, <1>6, <1>7, <1>9, <1>10 DEF Next, Deliver

\* The invariant is kept by every step.
LEMMA InvStep == IInv /\ [Next]_vars => IInv'
  BY TypeStep, RowStep, HandledStep, RelayStep, OrderStep DEF IInv

\* The inductive invariant holds in every reachable state of any number of
\* relays.
THEOREM Invariant == Spec => []IInv
<1> QED BY InitInv, InvStep, PTL DEF Spec

\* At least once: a published message has been through every one of its
\* consumers, and each consumer had it after the ones registered before it,
\* for any number of relays taking it from one another.
THEOREM AtLeastOnceAlways == Spec => []AtLeastOnce
<1>1. IInv => AtLeastOnce
  BY DEF IInv, TypeOK, HandledInv, AtLeastOnce
<1> QED BY <1>1, Invariant, PTL

\* In order per aggregate: when a consumer has seen a message, everything
\* earlier of its aggregate has been delivered, dead-lettered, or committed
\* after the message had been taken.
THEOREM InOrderAlways == Spec => []InOrderPerAggregate
<1>1. IInv => InOrderPerAggregate
  BY DEF IInv, TypeOK, HandledInv, OrderInv, InOrderPerAggregate, Earlier
<1> QED BY <1>1, Invariant, PTL

-----------------------------------------------------------------------------
(***************************************************************************)
(* Refinement: the drains, the races and the crashes of OutboxRelay are    *)
(* steps of OutboxQueue or stutter.                                        *)
(***************************************************************************)
Abs == [m \in Message |-> StatusOf(m)]

\* Nothing is committed, offered or handled, as the promise begins.
LEMMA QueueInit == Init => Queue!Init
  BY DEF Init, Queue!Init, StatusOf

\* A step that leaves committed, published and dead alone leaves every status.
LEMMA SameStatus ==
  ASSUME UNCHANGED <<committed, published, dead>>
  PROVE  Abs' = Abs
  BY DEF Abs, StatusOf

\* Every step is a step of the promise, or leaves what it speaks of unchanged.
LEMMA QueueStep == IInv /\ IInv' /\ [Next]_vars => [Queue!Next]_(Queue!vars)
<1> SUFFICES ASSUME IInv, IInv', [Next]_vars PROVE [Queue!Next]_(Queue!vars)
  OBVIOUS
<1>a. TypeOK /\ RowInv /\ HandledInv /\ RelayInv
  BY DEF IInv
<1>b. \A m \in Message : Queue!AllOf(m) = AllOf(m) /\ Queue!Earlier(m) = Earlier(m)
  BY DEF Queue!AllOf, AllOf, Queue!Earlier, Earlier
<1>c. ASSUME UNCHANGED <<committed, published, dead, offered, handled>>
      PROVE  UNCHANGED Queue!vars
  BY <1>c DEF Queue!vars, StatusOf
<1>1. CASE UNCHANGED vars
  BY <1>1, <1>c DEF vars, row, history
<1>2. ASSUME NEW m \in Message, Commit(m) PROVE Queue!Commit(m)
  BY <1>2, <1>a DEF Commit, Queue!Commit, StatusOf, RowInv
<1>3. ASSUME NEW m \in Message, Requeue(m) PROVE Queue!Requeue(m)
  BY <1>3, <1>a DEF Requeue, Queue!Requeue, StatusOf, RowInv, TypeOK
<1>4. ASSUME NEW r \in Relay, Claim(r)
      PROVE  \E S \in SUBSET Message : Queue!Offer(S)
  <2>1. PICK S \in SUBSET {m \in Message : Due(m)} :
          /\ offered' = offered \cup S
          /\ UNCHANGED <<committed, published, dead, handled>>
    BY <1>4 DEF Claim
  <2>2. \A m \in S : /\ StatusOf(m) = "live" /\ Consumers[m] > 0
                     /\ \A e \in Earlier(m) : StatusOf(e) # "live"
    BY DEF Due, Live, StatusOf, Earlier
  <2>3. Queue!Offer(S)
    <3>1. \A m \in S : m \in Message /\ \A e \in Earlier(m) : e \in Message
      BY DEF Earlier
    <3>2. Abs' = Abs
      BY <2>1, SameStatus
    <3> QED BY <1>b, <2>1, <2>2, <3>1, <3>2 DEF Queue!Offer, Abs
  <2> QED BY <2>3
<1>5. ASSUME NEW r \in Relay, NEW m \in Message, Consume(r, m)
      PROVE  \E i \in Queue!AllOf(m) : Queue!Handle(m, i)
  <2>1. /\ next[r] \in AllOf(m) /\ m \in offered
        /\ 1..(next[r] - 1) \subseteq handled[m]
        /\ handled' = [handled EXCEPT ![m] = handled[m] \cup {next[r]}]
        /\ offered' = offered
        /\ UNCHANGED <<committed, published, dead>>
    BY <1>5, <1>a DEF Consume, RelayInv, Current, history, row
  <2>2. Abs' = Abs
    BY <2>1, SameStatus
  <2>3. Queue!Handle(m, next[r])
    BY <1>b, <2>1, <2>2 DEF Queue!Handle, Abs
  <2> QED BY <1>b, <2>1, <2>3
<1>6. ASSUME NEW r \in Relay, NEW m \in Message, Publish(r, m)
      PROVE  Queue!Publish(m) \/ UNCHANGED Queue!vars
  <2>1. m \in offered /\ handled[m] = AllOf(m) /\ offered' = offered /\ handled' = handled
    BY <1>6, <1>a DEF Publish, RelayInv, Current, history
  <2>2. CASE m \in dead \/ m \in published
    <3>1. UNCHANGED <<committed, published, dead>>
      BY <1>6, <2>2 DEF Publish
    <3> QED BY <2>1, <3>1, <1>c
  <2>3. CASE m \notin dead /\ m \notin published
    <3>1. /\ published' = published \cup {m}
          /\ UNCHANGED <<committed, dead>> /\ m \in committed
      BY <1>6, <1>a, <2>1, <2>3 DEF Publish, RowInv
    <3>2. StatusOf(m) = "live"
      BY <2>3, <3>1 DEF StatusOf
    <3>3. Abs' = [Abs EXCEPT ![m] = "published"]
      BY <3>1 DEF Abs, StatusOf
    <3>4. /\ Abs[m] = "live" /\ Queue!AllOf(m) = AllOf(m)
      BY <1>b, <3>2 DEF Abs
    <3> QED BY <2>1, <3>3, <3>4 DEF Queue!Publish, Abs
  <2> QED BY <2>2, <2>3
<1>7. ASSUME NEW r \in Relay, NEW m \in Message, MarkDead(r, m)
      PROVE  Queue!DeadLetter(m) \/ UNCHANGED Queue!vars
  <2>1. m \in offered /\ offered' = offered /\ handled' = handled
    BY <1>7, <1>a DEF MarkDead, RelayInv, Current
  <2>2. CASE m \in dead \/ m \in published
    <3>1. UNCHANGED <<committed, published, dead>>
      BY <1>7, <2>2 DEF MarkDead
    <3> QED BY <2>1, <3>1, <1>c
  <2>3. CASE m \notin dead /\ m \notin published
    <3>1. /\ dead' = dead \cup {m}
          /\ UNCHANGED <<committed, published>> /\ m \in committed
      BY <1>7, <1>a, <2>1, <2>3 DEF MarkDead, RowInv
    <3>2. StatusOf(m) = "live"
      BY <2>3, <3>1 DEF StatusOf
    <3>3. Abs' = [Abs EXCEPT ![m] = "dead"]
      BY <2>3, <3>1, <1>a DEF Abs, StatusOf, RowInv
    <3> QED BY <2>1, <3>2, <3>3 DEF Queue!DeadLetter, Abs
  <2> QED BY <2>2, <2>3
<1>8. ASSUME NEW r \in Relay, NEW m \in Message,
             BackoffEnds(m) \/ LeaseEnds(r, m) \/ Refuse(r, m) \/ Throw(r, m) \/ Fail(r, m)
      PROVE  UNCHANGED Queue!vars
  BY <1>8, <1>c DEF BackoffEnds, LeaseEnds, Refuse, Throw, Fail, row, history
<1>9. ASSUME NEW r \in Relay, Crash(r) PROVE UNCHANGED Queue!vars
  BY <1>9, <1>c DEF Crash, row
<1>10. ASSUME NEW m \in Message, Commit(m) \/ Requeue(m) \/ BackoffEnds(m)
       PROVE  Queue!Next \/ UNCHANGED Queue!vars
  BY <1>2, <1>3, <1>10, <1>c DEF Queue!Next, BackoffEnds, history
<1>11. ASSUME NEW r \in Relay, Deliver(r)
       PROVE  Queue!Next \/ UNCHANGED Queue!vars
  <2>1. PICK m \in Message : \/ Refuse(r, m) \/ Consume(r, m) \/ Throw(r, m)
                             \/ Publish(r, m) \/ Fail(r, m) \/ MarkDead(r, m)
    BY <1>11 DEF Deliver
  <2>2. CASE Consume(r, m)
    BY <1>5, <2>2 DEF Queue!Next
  <2>3. CASE Publish(r, m)
    BY <1>6, <2>3 DEF Queue!Next
  <2>4. CASE MarkDead(r, m)
    BY <1>7, <2>4 DEF Queue!Next
  <2>5. CASE Refuse(r, m) \/ Throw(r, m) \/ Fail(r, m)
    BY <1>8, <2>5
  <2> QED BY <2>1, <2>2, <2>3, <2>4, <2>5
<1>12. ASSUME NEW r \in Relay, Claim(r) PROVE Queue!Next
  BY <1>4, <1>12 DEF Queue!Next
<1>13. ASSUME NEW r \in Relay, NEW m \in Message, LeaseEnds(r, m)
       PROVE  UNCHANGED Queue!vars
  BY <1>8, <1>13
<1> QED BY <1>1, <1>9, <1>10, <1>11, <1>12, <1>13 DEF Next

\* The relay implements the outbox's promise: whatever relays claim, lose,
\* repeat or give up, the messages only ever make the moves of OutboxQueue.
THEOREM RelayImplementsQueue == Spec => ImplementsQueue
<1>1. Init => Queue!Init
  BY QueueInit
<1>2. IInv /\ IInv' /\ [Next]_vars => [Queue!Next]_(Queue!vars)
  BY QueueStep
<1> QED BY <1>1, <1>2, Invariant, PTL DEF Spec, ImplementsQueue, Queue!Spec
=============================================================================
