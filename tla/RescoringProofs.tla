-------------------------- MODULE RescoringProofs --------------------------
(***************************************************************************)
(* Proofs about Rescoring, for any attempts, scores, operations and        *)
(* relays, and whatever inputs each dry run and each execution brings.     *)
(*                                                                         *)
(* That one score stands needs that it is the last of the history, so that *)
(* a plan made over a record that no longer stands is not admitted.  That  *)
(* the evidence is of one score, and that a report which names the record  *)
(* that stands was made from it, then rest on histories only growing: what *)
(* a delivery has read stays a record, and is never older than the one its *)
(* message names.  That an approval stands needs that the steps under way  *)
(* which could still be saved are legal from where the operation is, and   *)
(* that an operation has one execution, which is over when it completes.   *)
(* That the evidence settles needs that, while deliveries do not cross,    *)
(* the evidence is of the last record as soon as that record's message has *)
(* gone through, and that the one delivery under way will make it so.      *)
(* That the scorebook is implemented needs that a preview names records,   *)
(* which stay what they are while later ones are appended.                 *)
(***************************************************************************)
EXTENDS Rescoring, TLAPS

\* Scoring's records and the messages that announce them.
Records ==
    /\ history \in [Attempt -> Seq(Score)]
    /\ DOMAIN standing = Attempt
    /\ \A a \in Attempt :
          /\ standing[a] = IF history[a] = <<>> THEN {} ELSE {Len(history[a])}
          /\ \A g \in 1..Len(history[a]) : <<a, g>> \in feed
    /\ \A m \in feed : \E a \in Attempt : \E g \in 1..Len(history[a]) : m = <<a, g>>
    /\ \A p \in planned : p.inputs \in Correction

Hands == [at : {"idle", "evidence", "record", "slots", "report", "done"},
          message : feed \cup {<<>>}, read : Nat]

\* What each delivery holds: a message that was announced, and a record that is
\* no older than the one it names.
Deliveries ==
    /\ work \in [Relay -> Hands]
    /\ \A r \in Relay : work[r].at # "idle" =>
          /\ work[r].message \in feed
          /\ work[r].at \in {"record", "report"} =>
                 /\ work[r].read \in Nat
                 /\ LabelOf(work[r].message) <= work[r].read
                 /\ work[r].read <= Len(history[AttemptOf(work[r].message)])

Evidence == /\ worth \in [Attempt -> [Slot -> {"none", "withdrawn"} \cup EvidenceOutcome]]
            /\ EvidenceIsOfOneScore

Reports == \A p \in reports : /\ p.attempt \in Attempt
                              /\ p.label \in Nat /\ p.of \in Nat
                              /\ p.label <= p.of /\ p.of <= Len(history[p.attempt])

LearningInv == Records /\ Deliveries /\ Evidence /\ Reports

\* Where an operation's next save may come from.
Operations ==
    /\ DOMAIN op = Operation
    /\ \A o \in Operation :
          /\ op[o] = [state |-> op[o].state, version |-> op[o].version,
                      preview |-> op[o].preview]
          /\ op[o].version \in Nat
          /\ op[o].state = "absent" => op[o].version = 0
    /\ \A d \in desk :
          /\ d.op \in Operation /\ d.version \in Nat /\ d.version <= op[d.op].version
          /\ d.version = op[d.op].version =>
                /\ <<op[d.op].state, d.to>> \in Legal
                /\ d.to \in {"approved", "executing"} => d.preview = op[d.op].preview
    /\ running \subseteq Operation
    /\ \A o \in running : op[o].state = "executing" /\ \A p \in planned : p.op # o
    /\ \A p \in planned : p.op \in Operation /\ op[p.op].state = "executing"
    /\ \A p, q \in planned : p.op = q.op => p = q

-----------------------------------------------------------------------------
\* What appending to a sequence gives.
LEMMA Appended ==
    ASSUME NEW S, NEW s \in Seq(S), NEW e \in S
    PROVE  /\ Append(s, e) \in Seq(S)
           /\ Len(s) \in Nat /\ Len(Append(s, e)) = Len(s) + 1 /\ Append(s, e) # <<>>
           /\ \A i \in 1..Len(s) : Append(s, e)[i] = s[i]
  OBVIOUS

\* Inputs name attempts and give each a score.
LEMMA Inputs ==
    ASSUME RescoringAssumption, NEW c \in Correction
    PROVE  DOMAIN c \subseteq Attempt /\ \A a \in DOMAIN c : c[a] \in Score
  BY DEF RescoringAssumption

\* An attempt with a message announced has its last record standing.
LEMMA LastStands ==
    ASSUME Records, NEW a \in Attempt, history[a] # <<>>
    PROVE  standing[a] = {Len(history[a])} /\ Standing(a) = Len(history[a])
  BY DEF Records, Standing

\* The database admits a successor over the last record only.
LEMMA AdmitsLast ==
    ASSUME Records, NEW a \in Attempt, NEW g, Admits(a, g)
    PROVE  history[a] # <<>> /\ g = Len(history[a])
  BY DEF Records, Admits

\* Nothing is announced when nothing has happened.
LEMMA InitLearning == Init => LearningInv
<1> SUFFICES ASSUME Init PROVE LearningInv
    OBVIOUS
<1> USE DEF Init
<1>1. Records
  BY DEF Records
<1>2. Deliveries
  BY DEF Deliveries, Hands, Idle, Records
<1>3. Evidence
  BY DEF Evidence, EvidenceIsOfOneScore
<1>4. Reports
  BY DEF Reports
<1> QED BY <1>1, <1>2, <1>3, <1>4 DEF LearningInv

\* Before anything is scored or drafted, nothing stands, and no operation is at
\* a state that rests on another's.
LEMMA InitOperations == Init => Operations
  BY DEF Init, Operations

-----------------------------------------------------------------------------
\* Histories are written by marking and by completions alone.
LEMMA Writers ==
    [Next]_vars => \/ \E a \in Attempt : ScoreAttempt(a)
                   \/ \E p \in planned : Complete(p)
                   \/ UNCHANGED <<history, standing, feed>>
  BY DEF Next, Correct, Deliver, vars, scoring, learning, Draft, RunDryRun, Proceed, Decide,
         Save, Plan, Interrupt, Take, Assemble, RecordEvidence, ReadSlots, WriteReport,
         Acknowledge, Throw

\* Scoring's steps leave Learning alone, and a delivery leaves scoring alone.
LEMMA Apart ==
    ASSUME [Next]_vars
    PROVE  \/ UNCHANGED <<settled, learning>>
           \/ (\E r \in Relay : Deliver(r)) /\ UNCHANGED <<scoring, feed>>
<1>1. ASSUME NEW r \in Relay, Deliver(r)
      PROVE  UNCHANGED <<scoring, feed>>
  BY <1>1 DEF Deliver, Take, Assemble, RecordEvidence, ReadSlots, WriteReport, Acknowledge,
              Throw
<1>2. ASSUME NEW o \in Operation, Correct(o)
      PROVE  UNCHANGED <<settled, learning>>
  BY <1>2 DEF Correct, Draft, RunDryRun, Proceed, Decide, Plan, Interrupt
<1>3. CASE \/ \E a \in Attempt : ScoreAttempt(a)
           \/ \E d \in desk : Save(d)
           \/ \E p \in planned : Complete(p)
           \/ UNCHANGED vars
  BY <1>3 DEF ScoreAttempt, Save, Complete, vars
<1> QED BY <1>1, <1>2, <1>3 DEF Next

\* What an execution has planned it planned with inputs it may be called with.
LEMMA PlannedInputs ==
    ASSUME Records, [Next]_vars, NEW p \in planned'
    PROVE  p.inputs \in Correction
<1>1. CASE UNCHANGED planned
  BY <1>1 DEF Records
<1>2. CASE \E o \in Operation, c \in Correction : Plan(o, c)
  BY <1>2 DEF Plan, Records
<1>3. CASE \E q \in planned : Complete(q)
  BY <1>3 DEF Complete, Records
<1>4. ASSUME NEW o \in Operation, Correct(o)
      PROVE  UNCHANGED planned \/ \E c \in Correction : Plan(o, c)
  BY <1>4 DEF Correct, Draft, RunDryRun, Proceed, Decide, Interrupt
<1>5. CASE \/ \E a \in Attempt : ScoreAttempt(a)
           \/ \E d \in desk : Save(d)
           \/ UNCHANGED vars
  BY <1>1, <1>5 DEF ScoreAttempt, Save, vars, scoring
<1>6. CASE \E r \in Relay : Deliver(r)
  BY <1>1, <1>6 DEF Deliver, Take, Assemble, RecordEvidence, ReadSlots, WriteReport,
                    Acknowledge, Throw, scoring
<1> QED BY <1>1, <1>2, <1>3, <1>4, <1>5, <1>6 DEF Next

\* The first record of an attempt keeps the records in order.
LEMMA ScoreAttemptRecords ==
    ASSUME Records, RescoringAssumption, [Next]_vars, NEW a \in Attempt, ScoreAttempt(a)
    PROVE  Records'
<1> USE DEF ScoreAttempt, Records
<1>1. /\ FirstScore[a] \in Score
      /\ history'[a] = <<FirstScore[a]>> /\ Len(history'[a]) = 1 /\ history'[a] # <<>>
      /\ standing'[a] = {1}
  BY DEF RescoringAssumption
<1>2. history' \in [Attempt -> Seq(Score)] /\ DOMAIN standing' = Attempt
  BY <1>1
<1>3. ASSUME NEW b \in Attempt
      PROVE  /\ standing'[b] = IF history'[b] = <<>> THEN {} ELSE {Len(history'[b])}
             /\ \A g \in 1..Len(history'[b]) : <<b, g>> \in feed'
  <2>1. CASE b = a
    BY <1>1, <2>1
  <2>2. CASE b # a
    BY <2>2
  <2> QED BY <2>1, <2>2
<1>4. ASSUME NEW m \in feed'
      PROVE  \E b \in Attempt : \E g \in 1..Len(history'[b]) : m = <<b, g>>
  <2>1. CASE m = <<a, 1>>
    BY <1>1, <2>1
  <2>2. CASE m \in feed
    <3>1. PICK b \in Attempt : \E g \in 1..Len(history[b]) : m = <<b, g>>
      BY <2>2
    <3>2. b # a
      BY <3>1
    <3> QED BY <3>1, <3>2
  <2> QED BY <2>1, <2>2
<1> QED BY <1>2, <1>3, <1>4, PlannedInputs

\* A completion appends to each attempt it names, or changes no history.
LEMMA CompleteAppends ==
    ASSUME Records, RescoringAssumption, NEW p \in planned, Complete(p)
    PROVE  LET c == p.inputs
           IN \/ UNCHANGED <<history, standing, feed>>
              \/ /\ \A a \in DOMAIN c : /\ a \in Attempt
                                        /\ history'[a] = Append(history[a], c[a])
                                        /\ c[a] \in Score
                                        /\ standing'[a] = {Len(history[a]) + 1}
                 /\ \A a \in Attempt \ DOMAIN c : /\ history'[a] = history[a]
                                                  /\ standing'[a] = standing[a]
                 /\ history' = [a \in Attempt |-> history'[a]]
                 /\ DOMAIN standing' = Attempt
                 /\ feed' = feed \cup {<<a, Len(history[a]) + 1>> : a \in DOMAIN c}
<1> DEFINE c == p.inputs
<1>1. CASE \A a \in DOMAIN c : Admits(a, p.before[a])
  <2>1. \A a \in DOMAIN c : /\ a \in Attempt /\ c[a] \in Score
                            /\ p.before[a] = Len(history[a])
    BY <1>1, AdmitsLast, Inputs DEF Records
  <2>2. {<<a, p.before[a] + 1>> : a \in DOMAIN c}
            = {<<a, Len(history[a]) + 1>> : a \in DOMAIN c}
    BY <2>1
  <2> QED BY <1>1, <2>1, <2>2 DEF Complete, Lengthened
<1>2. CASE ~\A a \in DOMAIN c : Admits(a, p.before[a])
  BY <1>2 DEF Complete
<1> QED BY <1>1, <1>2

\* An attempt that is named has a longer history, whose last record stands.
LEMMA Corrected ==
    ASSUME Records, RescoringAssumption, NEW p \in planned, Complete(p),
           ~UNCHANGED <<history, standing, feed>>,
           NEW a \in DOMAIN p.inputs
    PROVE  /\ a \in Attempt /\ Len(history[a]) \in Nat
           /\ history'[a] \in Seq(Score) /\ history'[a] # <<>>
           /\ Len(history'[a]) = Len(history[a]) + 1
           /\ \A g \in 1..Len(history[a]) : history'[a][g] = history[a][g]
           /\ standing'[a] = {Len(history'[a])}
<1>1. /\ a \in Attempt /\ history[a] \in Seq(Score) /\ p.inputs[a] \in Score
      /\ history'[a] = Append(history[a], p.inputs[a])
      /\ standing'[a] = {Len(history[a]) + 1}
  BY CompleteAppends DEF Records
<1> QED BY <1>1, Appended

\* A completion keeps the records in order.
LEMMA CompleteRecords ==
    ASSUME Records, RescoringAssumption, [Next]_vars, NEW p \in planned, Complete(p)
    PROVE  Records'
<1> USE DEF Records
<1>1. CASE UNCHANGED <<history, standing, feed>>
  BY <1>1, PlannedInputs
<1>2. CASE ~UNCHANGED <<history, standing, feed>>
  <2>1. /\ \A a \in Attempt \ DOMAIN p.inputs : /\ history'[a] = history[a]
                                           /\ standing'[a] = standing[a]
        /\ history' = [a \in Attempt |-> history'[a]] /\ DOMAIN standing' = Attempt
        /\ feed' = feed \cup {<<a, Len(history[a]) + 1>> : a \in DOMAIN p.inputs}
    BY <1>2, CompleteAppends
  <2>2. history' \in [Attempt -> Seq(Score)] /\ DOMAIN standing' = Attempt
    <3>1. \A a \in Attempt : history'[a] \in Seq(Score)
      BY <1>2, <2>1, Corrected
    <3> QED BY <2>1, <3>1
  <2>3. ASSUME NEW a \in Attempt
        PROVE  /\ standing'[a] = IF history'[a] = <<>> THEN {} ELSE {Len(history'[a])}
               /\ \A g \in 1..Len(history'[a]) : <<a, g>> \in feed'
    <3>1. CASE a \in DOMAIN p.inputs
      <4>1. \A g \in 1..Len(history'[a]) :
                g \in 1..Len(history[a]) \/ g = Len(history[a]) + 1
        BY <1>2, <3>1, Corrected
      <4>2. \A g \in 1..Len(history[a]) : <<a, g>> \in feed
        OBVIOUS
      <4> QED BY <1>2, <2>1, <3>1, <4>1, <4>2, Corrected
    <3>2. CASE a \notin DOMAIN p.inputs
      BY <2>1, <3>2
    <3> QED BY <3>1, <3>2
  <2>4. ASSUME NEW m \in feed'
        PROVE  \E a \in Attempt : \E g \in 1..Len(history'[a]) : m = <<a, g>>
    <3>1. CASE m \in feed
      <4>1. PICK a \in Attempt : \E g \in 1..Len(history[a]) : m = <<a, g>>
        BY <3>1
      <4>2. CASE a \in DOMAIN p.inputs
        <5>1. 1..Len(history[a]) \subseteq 1..Len(history'[a])
          BY <1>2, <4>2, Corrected
        <5> QED BY <4>1, <5>1
      <4>3. CASE a \notin DOMAIN p.inputs
        BY <2>1, <4>1, <4>3
      <4> QED BY <4>2, <4>3
    <3>2. CASE m \notin feed
      <4>1. PICK a \in DOMAIN p.inputs : m = <<a, Len(history[a]) + 1>>
        BY <2>1, <3>2
      <4>2. a \in Attempt /\ Len(history[a]) + 1 \in 1..Len(history'[a])
        BY <1>2, Corrected
      <4> QED BY <4>1, <4>2
    <3> QED BY <3>1, <3>2
  <2> QED BY <2>2, <2>3, <2>4, PlannedInputs
<1> QED BY <1>1, <1>2

\* Every step keeps the records in order.
LEMMA RecordsStep ==
    ASSUME Records, RescoringAssumption, [Next]_vars
    PROVE  Records'
<1>1. CASE UNCHANGED <<history, standing, feed>>
  BY <1>1, PlannedInputs DEF Records
<1> QED BY <1>1, Writers, ScoreAttemptRecords, CompleteRecords

\* A record is never changed and never goes: histories only grow.
LEMMA HistoriesGrow ==
    ASSUME Records, RescoringAssumption, [Next]_vars, NEW a \in Attempt
    PROVE  /\ Len(history[a]) <= Len(history'[a])
           /\ \A g \in 1..Len(history[a]) : history'[a][g] = history[a][g]
           /\ feed \subseteq feed'
<1> USE DEF Records
<1>1. CASE UNCHANGED <<history, standing, feed>>
  BY <1>1
<1>2. CASE \E b \in Attempt : ScoreAttempt(b)
  BY <1>2 DEF ScoreAttempt
<1>3. ASSUME NEW p \in planned, Complete(p)
      PROVE  /\ Len(history[a]) <= Len(history'[a])
             /\ \A g \in 1..Len(history[a]) : history'[a][g] = history[a][g]
             /\ feed \subseteq feed'
  <2>1. feed \subseteq feed'
    BY <1>3, CompleteAppends
  <2>2. CASE a \in DOMAIN p.inputs /\ ~UNCHANGED <<history, standing, feed>>
    BY <1>3, <2>1, <2>2, Corrected
  <2>3. CASE a \notin DOMAIN p.inputs /\ ~UNCHANGED <<history, standing, feed>>
    <3>1. history'[a] = history[a] /\ Len(history[a]) \in Nat
      BY <1>3, <2>3, CompleteAppends
    <3> QED BY <2>1, <3>1
  <2> QED BY <1>1, <2>2, <2>3
<1> QED BY <1>1, <1>2, <1>3, Writers

-----------------------------------------------------------------------------
\* A message names a record, and its attempt's last record stands.
LEMMA Announced ==
    ASSUME Records, NEW m \in feed
    PROVE  LET a == AttemptOf(m)
           IN /\ a \in Attempt /\ Len(history[a]) \in Nat
              /\ LabelOf(m) \in Nat /\ LabelOf(m) <= Len(history[a])
              /\ Standing(a) = Len(history[a])
<1>1. PICK a \in Attempt : \E g \in 1..Len(history[a]) : m = <<a, g>>
  BY DEF Records
<1>2. /\ AttemptOf(m) = a /\ Len(history[a]) \in Nat
      /\ LabelOf(m) \in 1..Len(history[a]) /\ history[a] # <<>>
  BY <1>1 DEF Records, AttemptOf, LabelOf
<1> QED BY <1>2, LastStands

\* Reading the score that stands gives a record no older than the message's.
LEMMA ReadsTheLast ==
    ASSUME Records, Deliveries, NEW r \in Relay, Assemble(r) \/ ReadSlots(r)
    PROVE  Deliveries'
<1> DEFINE last == Standing(AttemptOf(work[r].message))
<1>1. /\ work[r].message \in feed /\ UNCHANGED <<history, feed>>
      /\ \/ work' = [work EXCEPT ![r].at = "record", ![r].read = last]
         \/ work' = [work EXCEPT ![r].at = "report", ![r].read = last]
  BY DEF Assemble, ReadSlots, Deliveries, scoring
<1>2. /\ last \in Nat /\ last <= Len(history[AttemptOf(work[r].message)])
      /\ LabelOf(work[r].message) <= last
  BY <1>1, Announced
<1> HIDE DEF last
<1>3. /\ work' \in [Relay -> Hands']
      /\ work'[r].message = work[r].message /\ work'[r].read = last
      /\ \A q \in Relay \ {r} : work'[q] = work[q]
  <2>1. work \in [Relay -> Hands] /\ Hands' = Hands
    BY <1>1 DEF Deliveries, Hands
  <2> QED BY <1>1, <1>2, <2>1 DEF Hands
<1>4. ASSUME NEW q \in Relay, work'[q].at # "idle"
      PROVE  /\ work'[q].message \in feed'
             /\ work'[q].at \in {"record", "report"} =>
                    /\ work'[q].read \in Nat
                    /\ LabelOf(work'[q].message) <= work'[q].read
                    /\ work'[q].read <= Len(history'[AttemptOf(work'[q].message)])
  <2>1. CASE q = r
    BY <1>1, <1>2, <1>3, <2>1
  <2>2. CASE q # r
    BY <1>1, <1>3, <1>4, <2>2 DEF Deliveries
  <2> QED BY <2>1, <2>2
<1> QED BY <1>3, <1>4 DEF Deliveries

\* A message or a record that a delivery holds stays one.
LEMMA DeliveriesStep ==
    ASSUME Records, Deliveries, RescoringAssumption, [Next]_vars
    PROVE  Deliveries'
<1>1. CASE UNCHANGED work
  <2>1. ASSUME NEW r \in Relay, work[r].at \in {"record", "report"}
        PROVE  /\ work[r].read \in Nat
               /\ LabelOf(work[r].message) <= work[r].read
               /\ work[r].read <= Len(history'[AttemptOf(work[r].message)])
    <3> DEFINE a == AttemptOf(work[r].message)
    <3>1. /\ a \in Attempt /\ Len(history[a]) \in Nat
          /\ work[r].read \in Nat /\ work[r].read <= Len(history[a])
          /\ LabelOf(work[r].message) <= work[r].read
      BY <2>1, Announced DEF Deliveries
    <3>2. Len(history[a]) <= Len(history'[a]) /\ Len(history'[a]) \in Nat
      BY <3>1, HistoriesGrow, RecordsStep DEF Records
    <3> QED BY <3>1, <3>2
  <2>2. feed \subseteq feed'
    BY HistoriesGrow, Writers DEF ScoreAttempt, Complete
  <2> QED BY <1>1, <2>1, <2>2 DEF Deliveries, Hands
<1>2. CASE \E r \in Relay, m \in feed : Take(r, m)
  BY <1>2 DEF Take, Deliveries, Hands, scoring
<1>3. CASE \E r \in Relay : Assemble(r) \/ ReadSlots(r)
  BY <1>3, ReadsTheLast
<1>4. CASE \E r \in Relay : RecordEvidence(r) \/ WriteReport(r)
  <2>1. PICK r \in Relay, next \in {"slots", "done"} :
             work[r].at # "idle" /\ work' = [work EXCEPT ![r].at = next]
    BY <1>4 DEF RecordEvidence, WriteReport
  <2>2. UNCHANGED <<history, feed>> /\ Hands' = Hands /\ work \in [Relay -> Hands]
    BY <1>4 DEF RecordEvidence, WriteReport, scoring, Hands, Deliveries
  <2>3. work' \in [Relay -> Hands']
    BY <2>1, <2>2 DEF Hands
  <2>4. \A q \in Relay : /\ work'[q].message = work[q].message
                         /\ work'[q].at # "idle" => work[q].at # "idle"
                         /\ work'[q].at \in {"record", "report"} => work'[q] = work[q]
    BY <2>1, <2>2 DEF Hands
  <2> QED BY <2>2, <2>3, <2>4 DEF Deliveries
<1>5. CASE \E r \in Relay : Acknowledge(r) \/ Throw(r)
  <2>1. PICK r \in Relay : work' = [work EXCEPT ![r] = Idle]
    BY <1>5 DEF Acknowledge, Throw
  <2>2. UNCHANGED <<history, feed>> /\ Hands' = Hands /\ Idle \in Hands
    BY <1>5 DEF Acknowledge, Throw, scoring, Hands, Idle
  <2>3. work' \in [Relay -> Hands] /\ work'[r].at = "idle"
    BY <2>1, <2>2 DEF Deliveries, Idle
  <2>4. \A q \in Relay : q # r => work'[q] = work[q]
    BY <2>1 DEF Deliveries
  <2> QED BY <2>2, <2>3, <2>4 DEF Deliveries
<1>6. CASE UNCHANGED <<settled, learning>>
  BY <1>1, <1>6 DEF learning
<1>7. CASE \E r \in Relay : Deliver(r)
  BY <1>2, <1>3, <1>4, <1>5, <1>7 DEF Deliver
<1> QED BY <1>6, <1>7, Apart

\* A response is recorded, corrected or withdrawn as one record has it, whatever
\* else is written meanwhile.
LEMMA EvidenceStep ==
    ASSUME Records, Deliveries, Evidence, RescoringAssumption, [Next]_vars
    PROVE  Evidence'
<1> USE DEF Evidence
<1>1. CASE UNCHANGED worth
  <2>1. ASSUME NEW a \in Attempt
        PROVE  \/ \A s \in Slot : worth[a][s] = "none"
               \/ \E g \in DOMAIN history'[a] : Agrees(a, history'[a][g])
    <3>1. CASE \E s \in Slot : worth[a][s] # "none"
      <4>1. PICK g \in DOMAIN history[a] : Agrees(a, history[a][g])
        BY <3>1 DEF EvidenceIsOfOneScore
      <4>2. g \in DOMAIN history'[a] /\ history'[a][g] = history[a][g]
        BY <4>1, HistoriesGrow, RecordsStep DEF Records
      <4> QED BY <4>1, <4>2
    <3> QED BY <3>1
  <2> QED BY <1>1, <2>1 DEF EvidenceIsOfOneScore, Agrees
<1>2. ASSUME NEW r \in Relay, RecordEvidence(r)
      PROVE  Evidence'
  <2> DEFINE a == AttemptOf(work[r].message)
             marks == history[a][work[r].read]
  <2>1. work[r].at = "record" /\ UNCHANGED history
    BY <1>2 DEF RecordEvidence, scoring
  <2>2. a \in Attempt /\ work[r].read \in DOMAIN history[a]
    <3>1. /\ work[r].message \in feed /\ work[r].read \in Nat
          /\ LabelOf(work[r].message) <= work[r].read /\ work[r].read <= Len(history[a])
      BY <2>1 DEF Deliveries
    <3>2. a \in Attempt /\ LabelOf(work[r].message) \in Nat
          /\ LabelOf(work[r].message) >= 1
      BY <3>1 DEF Records, AttemptOf, LabelOf
    <3> QED BY <3>1, <3>2 DEF Records
  <2>3. worth' = [worth EXCEPT ![a] =
                    [s \in Slot |-> IF marks[s] \in EvidenceOutcome THEN marks[s]
                                    ELSE IF worth[a][s] = "none" THEN "none"
                                    ELSE "withdrawn"]]
    BY <1>2 DEF RecordEvidence
  <2>4. worth' \in [Attempt -> [Slot -> {"none", "withdrawn"} \cup EvidenceOutcome]]
    BY <2>2, <2>3
  <2>5. ASSUME NEW b \in Attempt
        PROVE  \/ \A s \in Slot : worth'[b][s] = "none"
               \/ \E g \in DOMAIN history'[b] :
                      \A s \in Slot : IF history'[b][g][s] \in EvidenceOutcome
                                      THEN worth'[b][s] = history'[b][g][s]
                                      ELSE worth'[b][s] \in {"none", "withdrawn"}
    <3>1. CASE b = a
      <4>1. \A s \in Slot : IF marks[s] \in EvidenceOutcome THEN worth'[a][s] = marks[s]
                            ELSE worth'[a][s] \in {"none", "withdrawn"}
        BY <2>2, <2>3
      <4> QED BY <2>1, <2>2, <3>1, <4>1
    <3>2. CASE b # a
      BY <2>1, <2>3, <3>2 DEF EvidenceIsOfOneScore, Agrees
    <3> QED BY <3>1, <3>2
  <2> QED BY <2>4, <2>5 DEF EvidenceIsOfOneScore, Agrees
<1> QED
  BY <1>1, <1>2
  DEF Next, Correct, Deliver, vars, learning, ScoreAttempt, Draft, RunDryRun, Proceed,
      Decide, Save, Plan, Complete, Interrupt, Take, Assemble, ReadSlots, WriteReport,
      Acknowledge, Throw

\* A report is made from a record no older than the one it names.
LEMMA ReportsStep ==
    ASSUME Records, Deliveries, Reports, RescoringAssumption, [Next]_vars
    PROVE  Reports'
<1>1. ASSUME NEW p \in reports
      PROVE  /\ p.attempt \in Attempt /\ p.label \in Nat /\ p.of \in Nat
             /\ p.label <= p.of /\ p.of <= Len(history'[p.attempt])
  <2>1. /\ p.attempt \in Attempt /\ p.label \in Nat /\ p.of \in Nat
        /\ p.label <= p.of /\ p.of <= Len(history[p.attempt])
    BY DEF Reports
  <2>2. /\ Len(history[p.attempt]) \in Nat /\ Len(history'[p.attempt]) \in Nat
        /\ Len(history[p.attempt]) <= Len(history'[p.attempt])
    <3>1. Records'
      BY RecordsStep
    <3>2. Len(history[p.attempt]) <= Len(history'[p.attempt])
      BY <2>1, HistoriesGrow
    <3> QED BY <2>1, <3>1, <3>2 DEF Records
  <2> QED BY <2>1, <2>2
<1>2. CASE UNCHANGED reports
  BY <1>1, <1>2 DEF Reports
<1>3. ASSUME NEW r \in Relay, WriteReport(r)
      PROVE  Reports'
  <2> DEFINE m == work[r].message
             p == [attempt |-> AttemptOf(m), label |-> LabelOf(m), of |-> work[r].read]
  <2>1. UNCHANGED history /\ reports' \subseteq reports \cup {p}
    BY <1>3 DEF WriteReport, scoring
  <2>2. /\ m \in feed /\ work[r].read \in Nat
        /\ LabelOf(m) <= work[r].read /\ work[r].read <= Len(history[AttemptOf(m)])
    BY <1>3 DEF WriteReport, Deliveries
  <2>3. AttemptOf(m) \in Attempt /\ LabelOf(m) \in Nat
    BY <2>2, Announced
  <2> QED BY <1>1, <2>1, <2>2, <2>3 DEF Reports
<1> QED
  BY <1>2, <1>3
  DEF Next, Correct, Deliver, vars, learning, ScoreAttempt, Draft, RunDryRun, Proceed,
      Decide, Save, Plan, Complete, Interrupt, Take, Assemble, RecordEvidence, ReadSlots,
      Acknowledge, Throw

-----------------------------------------------------------------------------
\* A save that is under way is legal if nobody saves before it.
LEMMA OperationsStep ==
    ASSUME Operations, [Next]_vars
    PROVE  Operations'
<1> USE DEF Operations
<1>1. CASE UNCHANGED <<op, desk, running, planned>>
  BY <1>1
<1>2. ASSUME NEW o \in Operation, Draft(o)
      PROVE  Operations'
  <2>1. \A d \in desk : d.op # o
    BY <1>2 DEF Draft, Legal
  <2>2. /\ op' = [op EXCEPT ![o] = [state |-> "drafted", version |-> 1,
                                   preview |-> NoPreview]]
        /\ UNCHANGED <<desk, running, planned>> /\ op[o].state = "absent"
    BY <1>2 DEF Draft
  <2>3. \A p \in planned : p.op # o
    BY <2>2
  <2>4. o \notin running
    BY <2>2
  <2> QED BY <2>1, <2>2, <2>3, <2>4
<1>3. ASSUME NEW o \in Operation, (\E c \in Correction : RunDryRun(o, c)) \/ Proceed(o)
      PROVE  Operations'
  BY <1>3 DEF RunDryRun, Proceed, Decide
<1>4. ASSUME NEW d \in desk, Save(d)
      PROVE  Operations'
  <2>1. CASE op[d.op].version = d.version
    BY <1>4, <2>1 DEF Save, Legal
  <2>2. CASE op[d.op].version # d.version
    BY <1>4, <2>2 DEF Save
  <2> QED BY <2>1, <2>2
<1>5. ASSUME NEW o \in Operation, NEW c \in Correction, Plan(o, c)
      PROVE  Operations'
  BY <1>5 DEF Plan
<1>6. ASSUME NEW p \in planned, Complete(p)
      PROVE  Operations'
  BY <1>6 DEF Complete, Legal
<1>7. ASSUME NEW o \in Operation, Interrupt(o)
      PROVE  Operations'
  BY <1>7 DEF Interrupt
<1> QED
  BY <1>1, <1>2, <1>3, <1>4, <1>5, <1>6, <1>7
  DEF Next, Correct, Deliver, vars, scoring, ScoreAttempt, Take, Assemble,
      RecordEvidence, ReadSlots, WriteReport, Acknowledge, Throw

\* Only a legal save, a completion or a draft changes an operation, so an
\* approved one keeps its preview and a completed one stays as it is.
LEMMA ApprovalStep ==
    ASSUME Operations, [Next]_vars, NEW o \in Operation
    PROVE  /\ op[o].state \in {"approved", "executing", "completed"} =>
                 /\ op'[o].preview = op[o].preview
                 /\ op'[o].state \in {"approved", "executing", "completed"}
           /\ op[o].state = "executing" => op'[o].state # "approved"
           /\ op[o].state = "completed" => op'[o] = op[o]
<1> USE DEF Operations
<1>1. CASE UNCHANGED op
  BY <1>1
<1>2. CASE \E q \in Operation : Draft(q)
  BY <1>2 DEF Draft
<1>3. ASSUME NEW d \in desk, Save(d)
      PROVE  /\ op[o].state \in {"approved", "executing", "completed"} =>
                   /\ op'[o].preview = op[o].preview
                   /\ op'[o].state \in {"approved", "executing", "completed"}
             /\ op[o].state = "executing" => op'[o].state # "approved"
             /\ op[o].state = "completed" => op'[o] = op[o]
  <2>1. CASE d.op = o /\ op[o].version = d.version
    <3>1. /\ <<op[o].state, d.to>> \in Legal
          /\ d.to \in {"approved", "executing"} => d.preview = op[o].preview
          /\ op'[o].state = d.to /\ op'[o].preview = d.preview
      BY <1>3, <2>1 DEF Save
    <3> QED BY <3>1 DEF Legal
  <2>2. CASE ~(d.op = o /\ op[o].version = d.version)
    BY <1>3, <2>2 DEF Save
  <2> QED BY <2>1, <2>2
<1>4. ASSUME NEW p \in planned, Complete(p)
      PROVE  /\ op[o].state \in {"approved", "executing", "completed"} =>
                   /\ op'[o].preview = op[o].preview
                   /\ op'[o].state \in {"approved", "executing", "completed"}
             /\ op[o].state = "executing" => op'[o].state # "approved"
             /\ op[o].state = "completed" => op'[o] = op[o]
  <2>1. p.op \in Operation /\ op[p.op].state = "executing"
    OBVIOUS
  <2> QED BY <1>4, <2>1 DEF Complete
<1> QED
  BY <1>1, <1>2, <1>3, <1>4
  DEF Next, Correct, Deliver, vars, scoring, ScoreAttempt, RunDryRun, Proceed, Decide, Plan,
      Interrupt, Take, Assemble, RecordEvidence, ReadSlots, WriteReport, Acknowledge, Throw

\* The strengthened invariant holds in every state, whatever the attempts, the
\* scopes, the corrections and the relays.
THEOREM Invariant == Spec => [](LearningInv /\ Operations)
<1>1. Init => LearningInv /\ Operations
  BY InitLearning, InitOperations
<1>2. LearningInv /\ Operations /\ [Next]_vars => (LearningInv /\ Operations)'
  BY RecordsStep, DeliveriesStep, EvidenceStep, ReportsStep, OperationsStep,
     RescoringAssumption DEF LearningInv
<1> QED BY <1>1, <1>2, PTL DEF Spec

\* One record of a scored attempt stands, its latest, and every record of it has
\* been announced: scoring-handlers.ts, rescoring-handlers.ts.
THEOREM OneStandingScoreAlways == Spec => []OneStandingScore
<1>1. LearningInv => OneStandingScore
  BY DEF LearningInv, Records, OneStandingScore
<1> QED BY <1>1, Invariant, PTL

\* What Learning holds of an attempt is the evidence of one of its records:
\* record-evidence-handler.ts.
THEOREM EvidenceIsOfOneScoreAlways == Spec => []EvidenceIsOfOneScore
<1>1. LearningInv => EvidenceIsOfOneScore
  BY DEF LearningInv, Evidence
<1> QED BY <1>1, Invariant, PTL

\* A report that names the record that stands was made from it: report-handlers.ts.
THEOREM StandingReportIsItsOwnAlways == Spec => []StandingReportIsItsOwn
<1>1. ASSUME LearningInv, NEW p \in reports, p.label \in standing[p.attempt]
      PROVE  p.of = p.label
  <2>1. /\ p.attempt \in Attempt /\ p.label \in Nat /\ p.of \in Nat
        /\ p.label <= p.of /\ p.of <= Len(history[p.attempt])
    BY <1>1 DEF LearningInv, Reports
  <2>2. p.label = Len(history[p.attempt])
    BY <1>1, <2>1 DEF LearningInv, Records
  <2> QED BY <2>1, <2>2
<1>2. LearningInv => StandingReportIsItsOwn
  BY <1>1 DEF StandingReportIsItsOwn
<1> QED BY <1>2, Invariant, PTL

\* An approval, once given, is not overwritten by a step that was under way:
\* rescoring-operation.repository.ts.
THEOREM ApprovalStandsAlways == Spec => ApprovalStands
<1> DEFINE Kept == \A o \in Operation :
          /\ op[o].state \in {"approved", "executing", "completed"} =>
                 /\ op'[o].preview = op[o].preview
                 /\ op'[o].state \in {"approved", "executing", "completed"}
          /\ op[o].state = "executing" => op'[o].state # "approved"
          /\ op[o].state = "completed" => op'[o] = op[o]
<1>1. LearningInv /\ Operations /\ [Next]_vars => Kept
  BY ApprovalStep
<1>2. Spec => [][Kept]_vars
  BY <1>1, Invariant, PTL DEF Spec
<1> QED BY <1>2 DEF ApprovalStands

-----------------------------------------------------------------------------
\* A delivery is at work on an attempt.
On(r, a) == work[r].at # "idle" /\ AttemptOf(work[r].message) = a

\* The message of an attempt's last record, and that its evidence was recorded.
Last(a) == <<a, Len(history[a])>>
Recorded(a) == \/ Last(a) \in settled
               \/ \E r \in Relay : /\ work[r].at \in {"slots", "report", "done"}
                                   /\ work[r].message = Last(a)

\* An attempt whose deliveries come one at a time has the evidence of its last
\* record once that record's message has been gone through, and an older message
\* that comes after it reads the last record too.
Settling(a) ==
    /\ \A q, r \in Relay : On(q, a) /\ On(r, a) => q = r
    /\ history[a] # <<>> =>
          /\ Recorded(a) => Agrees(a, history[a][Len(history[a])])
          /\ Last(a) \in settled =>
                \A r \in Relay : On(r, a) /\ work[r].at = "record"
                                     => work[r].read = Len(history[a])

SettlingInv == settled \subseteq feed /\ \A a \in Attempt \ crossed : Settling(a)

\* A new record's message has been handed to nobody.
LEMMA NewRecordIsUnread ==
    ASSUME Records, Deliveries, SettlingInv, NEW a \in Attempt \ crossed,
           UNCHANGED <<work, settled, worth, crossed>>,
           Len(history'[a]) > Len(history[a]), Len(history'[a]) \in Nat
    PROVE  Settling(a)'
<1>1. /\ Last(a)' = <<a, Len(history'[a])>>
      /\ \A g \in Nat : <<a, g>> \in feed => g <= Len(history[a])
      /\ Len(history[a]) \in Nat
  BY DEF Last, Records
<1>2. <<a, Len(history'[a])>> \notin feed
  BY <1>1
<1>3. ~Recorded(a)'
  BY <1>1, <1>2 DEF Recorded, Deliveries, SettlingInv
<1>4. Last(a)' \notin settled'
  BY <1>1, <1>2 DEF SettlingInv
<1> QED BY <1>3, <1>4 DEF Settling, SettlingInv, On

\* A step that neither works on the attempt nor adds to its records.
LEMMA NobodyWorksOnIt ==
    ASSUME SettlingInv, NEW a \in Attempt \ crossed, history'[a] = history[a],
           \A r \in Relay : On(r, a)' <=> On(r, a),
           \A r \in Relay : On(r, a) => work'[r] = work[r],
           \A r \in Relay : work[r].message = Last(a) /\ work[r].at # "idle" => On(r, a),
           \A r \in Relay : work'[r].message = Last(a) /\ work'[r].at # "idle" => On(r, a)',
           Last(a) \in settled' => Last(a) \in settled,
           worth'[a] = worth[a]
    PROVE  Settling(a)'
<1>1. Settling(a) /\ Last(a)' = Last(a)
  BY DEF SettlingInv, Last
<1>2. Recorded(a)' => Recorded(a)
  BY <1>1 DEF Recorded
<1>3. Agrees(a, history[a][Len(history[a])]) => Agrees(a, history[a][Len(history[a])])'
  BY DEF Agrees
<1> QED BY <1>1, <1>2, <1>3 DEF Settling

\* The messages that name an attempt are its own.
LEMMA OfLast == ASSUME NEW a PROVE AttemptOf(Last(a)) = a /\ LabelOf(Last(a)) = Len(history[a])
  BY DEF AttemptOf, LabelOf, Last

\* A delivery's step keeps the evidence of its own attempt settling, because no
\* other delivery is at work on it; and does not touch the other attempts.
LEMMA DeliverySettles ==
    ASSUME Records, Deliveries, Evidence, SettlingInv, NEW r \in Relay, Deliver(r),
           NEW a \in Attempt \ crossed'
    PROVE  Settling(a)'
<1>1. /\ UNCHANGED <<history, standing, feed>> /\ crossed \subseteq crossed'
      /\ \A q \in Relay : q # r => work'[q] = work[q]
  BY DEF Deliver, Take, Assemble, RecordEvidence, ReadSlots, WriteReport, Acknowledge, Throw,
         scoring, Deliveries
<1>2. /\ a \in Attempt \ crossed /\ Settling(a) /\ Last(a)' = Last(a) /\ history'[a] = history[a]
  BY <1>1 DEF SettlingInv, Last
<1>3. work[r].at # "idle" \/ \E m \in feed : Take(r, m)
  BY DEF Deliver, Assemble, RecordEvidence, ReadSlots, WriteReport, Acknowledge, Throw
<1>7. ASSUME work[r].at # "idle"
      PROVE  /\ work'[r].at = "idle" \/ work'[r].message = work[r].message
             /\ RecordEvidence(r) \/ UNCHANGED worth
             /\ settled' \subseteq settled \cup {work[r].message}
  <2>1. work \in [Relay -> Hands]
    BY DEF Deliveries
  <2>2. CASE Assemble(r) \/ RecordEvidence(r) \/ ReadSlots(r) \/ WriteReport(r)
    BY <2>1, <2>2 DEF Assemble, RecordEvidence, ReadSlots, WriteReport, Hands
  <2>3. CASE Acknowledge(r) \/ Throw(r)
    BY <2>1, <2>3 DEF Acknowledge, Throw, Idle
  <2> QED BY <1>7, <2>2, <2>3 DEF Deliver, Take
<1>4. CASE \E m \in feed : Take(r, m)
  <2>1. PICK m \in feed : Take(r, m)
    BY <1>4
  <2>2. /\ work[r].at = "idle" /\ work'[r].at = "evidence" /\ work'[r].message = m
        /\ UNCHANGED <<settled, worth>>
    BY <2>1 DEF Take, Deliveries
  <2>3. CASE AttemptOf(m) # a
    <3>1. ~On(r, a) /\ ~On(r, a)' /\ work'[r].message # Last(a)
      BY <2>2, <2>3, OfLast DEF On
    <3> QED BY <1>1, <1>2, <2>2, <3>1, NobodyWorksOnIt, OfLast DEF On
  <2>4. CASE AttemptOf(m) = a
    <3>1. \A q \in Relay : ~On(q, a)
      BY <1>2, <2>1, <2>4 DEF Take, On
    <3>2. \A q \in Relay : On(q, a)' => q = r
      BY <1>1, <3>1 DEF On
    <3>3. Recorded(a)' => Recorded(a)
      BY <1>1, <1>2, <2>2 DEF Recorded
    <3>4. Agrees(a, history[a][Len(history[a])]) => Agrees(a, history[a][Len(history[a])])'
      BY <1>1, <2>2 DEF Agrees
    <3> QED BY <1>1, <1>2, <2>2, <3>2, <3>3, <3>4 DEF Settling
  <2> QED BY <2>3, <2>4
<1>5. CASE work[r].at # "idle" /\ AttemptOf(work[r].message) # a
  <2>1. work[r].message # Last(a) /\ ~On(r, a)
    BY <1>5, OfLast DEF On
  <2>2. ~On(r, a)' /\ (work'[r].message = Last(a) => work'[r].at = "idle")
    BY <1>5, <1>7, <2>1 DEF On
  <2>3. worth'[a] = worth[a]
    <3>1. CASE RecordEvidence(r)
      BY <1>5, <3>1 DEF RecordEvidence, Evidence
    <3> QED BY <1>5, <1>7, <3>1
  <2>4. Last(a) \in settled' => Last(a) \in settled
    BY <1>5, <1>7, <2>1
  <2>5. \A q \in Relay : /\ On(q, a)' <=> On(q, a)
                         /\ On(q, a) => work'[q] = work[q]
                         /\ work[q].message = Last(a) /\ work[q].at # "idle" => On(q, a)
                         /\ work'[q].message = Last(a) /\ work'[q].at # "idle" => On(q, a)'
    <3> TAKE q \in Relay
    <3>1. CASE q = r
      BY <2>1, <2>2, <3>1
    <3>2. CASE q # r
      BY <1>1, <3>2, OfLast DEF On
    <3> QED BY <3>1, <3>2
  <2> QED BY <1>2, <2>3, <2>4, <2>5, NobodyWorksOnIt
<1>6. CASE work[r].at # "idle" /\ AttemptOf(work[r].message) = a
  <2>1. /\ On(r, a) /\ work[r].message \in feed
        /\ \A q \in Relay : On(q, a) => q = r
        /\ \A q \in Relay : On(q, a)' => q = r
    BY <1>1, <1>2, <1>6 DEF Settling, On, Deliveries
  <2>2. Standing(a) = Len(history[a]) /\ Len(history[a]) \in Nat
    BY <1>6, <2>1, Announced
  <2>3. work[r].at \in {"record", "report"} =>
            /\ work[r].read \in Nat /\ work[r].read <= Len(history[a])
            /\ LabelOf(work[r].message) <= work[r].read
    BY <1>6 DEF Deliveries
  <2>4. \A q \in Relay : work'[q].message = Last(a) /\ work'[q].at # "idle" => q = r
    BY <2>1, OfLast DEF On
  <2>7. /\ Assemble(r) => work[r].at = "evidence" /\ work'[r].at = "record"
        /\ ReadSlots(r) => work[r].at = "slots" /\ work'[r].at = "report"
        /\ WriteReport(r) => work[r].at = "report" /\ work'[r].at = "done"
        /\ Acknowledge(r) \/ Throw(r) => work'[r].at = "idle"
    <3>1. work \in [Relay -> Hands]
      BY DEF Deliveries
    <3> QED BY <3>1 DEF Hands, Assemble, ReadSlots, WriteReport, Acknowledge, Throw, Idle
  <2>5. CASE Assemble(r) \/ ReadSlots(r) \/ WriteReport(r) \/ Acknowledge(r) \/ Throw(r)
    <3>1. worth' = worth
      BY <2>5 DEF Assemble, ReadSlots, WriteReport, Acknowledge, Throw
    <3>2. Recorded(a)' => Recorded(a)
      <4> SUFFICES ASSUME Recorded(a)' PROVE Recorded(a)
        OBVIOUS
      <4>1. CASE Last(a) \in settled'
        <5>1. settled' = settled \/ (Acknowledge(r) /\ settled' = settled \cup {work[r].message})
          BY <2>5 DEF Assemble, ReadSlots, WriteReport, Acknowledge, Throw
        <5> QED BY <4>1, <5>1 DEF Recorded, Acknowledge
      <4>2. CASE /\ work'[r].at \in {"slots", "report", "done"}
                 /\ work'[r].message = Last(a)
        <5>1. work[r].at \in {"slots", "report"}
          BY <2>5, <2>7, <4>2
        <5>2. work[r].message = Last(a)
          BY <1>6, <1>7, <4>2
        <5> QED BY <5>1, <5>2 DEF Recorded
      <4> QED BY <1>2, <2>4, <4>1, <4>2 DEF Recorded
    <3>3. Agrees(a, history[a][Len(history[a])]) => Agrees(a, history[a][Len(history[a])])'
      BY <1>1, <3>1 DEF Agrees
    <3>4. work'[r].at = "record" => work'[r].read = Len(history[a])
      <4>1. CASE Assemble(r)
        BY <1>6, <2>2, <4>1 DEF Assemble, Deliveries
      <4>2. CASE ReadSlots(r) \/ WriteReport(r) \/ Acknowledge(r) \/ Throw(r)
        BY <2>7, <4>2
      <4> QED BY <2>5, <4>1, <4>2
    <3> QED BY <1>1, <1>2, <2>1, <3>2, <3>3, <3>4 DEF Settling
  <2>6. CASE RecordEvidence(r)
    <3>1. /\ work[r].at = "record" /\ work'[r].at = "slots" /\ work'[r].message = work[r].message
          /\ settled' = settled
      BY <2>6 DEF RecordEvidence, Deliveries
    <3>2. ASSUME history[a] # <<>>, Recorded(a)'
          PROVE  work[r].read = Len(history[a])
      <4>1. CASE Last(a) \in settled
        BY <1>2, <2>1, <3>1, <3>2, <4>1 DEF Settling
      <4>2. CASE work[r].message = Last(a)
        BY <2>2, <2>3, <3>1, <4>2, OfLast
      <4> QED BY <1>2, <2>4, <3>1, <3>2, <4>1, <4>2 DEF Recorded
    <3>3. ASSUME work[r].read = Len(history[a])
          PROVE  Agrees(a, history[a][Len(history[a])])'
      <4> DEFINE marks == history[a][Len(history[a])]
      <4>1. worth' = [worth EXCEPT ![a] =
                        [s \in Slot |-> IF marks[s] \in EvidenceOutcome THEN marks[s]
                                        ELSE IF worth[a][s] = "none" THEN "none"
                                        ELSE "withdrawn"]]
        BY <1>6, <2>6, <3>3 DEF RecordEvidence
      <4> HIDE DEF marks
      <4>2. \A s \in Slot : worth'[a][s] = IF marks[s] \in EvidenceOutcome THEN marks[s]
                                           ELSE IF worth[a][s] = "none" THEN "none"
                                           ELSE "withdrawn"
        BY <4>1 DEF Evidence
      <4>3. Agrees(a, marks)'
        BY <1>1, <4>2 DEF Agrees, marks
      <4> QED BY <1>1, <4>3 DEF marks
    <3>4. work'[r].at # "record"
      BY <3>1
    <3> QED BY <1>1, <1>2, <2>1, <3>2, <3>3, <3>4 DEF Settling
  <2> QED BY <1>6, <2>5, <2>6 DEF Deliver, Take
<1> QED BY <1>3, <1>4, <1>5, <1>6

\* What has settled stays settled, until there is a record more.
LEMMA SettlingStep ==
    ASSUME LearningInv, SettlingInv, RescoringAssumption, [Next]_vars
    PROVE  SettlingInv'
<1>1. settled' \subseteq feed'
  <2>1. CASE UNCHANGED settled
    BY <2>1, HistoriesGrow DEF SettlingInv, LearningInv, Records
  <2>2. CASE \E r \in Relay : Deliver(r) /\ ~UNCHANGED settled
    BY <2>2, Apart DEF Deliver, Take, Assemble, RecordEvidence, ReadSlots, WriteReport,
                       Acknowledge, Throw, SettlingInv, LearningInv, Deliveries
  <2> QED BY <2>1, <2>2, Apart
<1>2. CASE \E r \in Relay : Deliver(r)
  BY <1>1, <1>2, DeliverySettles DEF LearningInv, SettlingInv
<1>3. CASE UNCHANGED learning /\ UNCHANGED settled
  <2>1. ASSUME NEW a \in Attempt \ crossed'
        PROVE  Settling(a)'
    <3>1. a \in Attempt \ crossed /\ UNCHANGED <<work, settled, worth, crossed>>
      BY <1>3, <2>1 DEF learning
    <3>2. /\ Len(history[a]) \in Nat /\ Len(history'[a]) \in Nat
          /\ Len(history[a]) <= Len(history'[a])
          /\ history[a] \in Seq(Score) /\ history'[a] \in Seq(Score)
          /\ \A g \in 1..Len(history[a]) : history'[a][g] = history[a][g]
      BY RecordsStep, HistoriesGrow DEF LearningInv, Records
    <3>3. CASE Len(history'[a]) > Len(history[a])
      BY <3>1, <3>2, <3>3, NewRecordIsUnread DEF LearningInv
    <3>4. CASE Len(history'[a]) = Len(history[a])
      <4>1. history'[a] = history[a]
        <5>1. /\ history[a] \in [1..Len(history[a]) -> Score]
              /\ history'[a] \in [1..Len(history[a]) -> Score]
          BY <3>2, <3>4
        <5>2. /\ history[a] = [g \in 1..Len(history[a]) |-> history[a][g]]
              /\ history'[a] = [g \in 1..Len(history[a]) |-> history'[a][g]]
          BY <5>1
        <5>3. [g \in 1..Len(history[a]) |-> history[a][g]]
                  = [g \in 1..Len(history[a]) |-> history'[a][g]]
          BY <3>2
        <5> QED BY <5>2, <5>3, Zenon
      <4> QED BY <3>1, <4>1 DEF SettlingInv, Settling, Recorded, Last, On, Agrees
    <3> QED BY <3>2, <3>3, <3>4
  <2> QED BY <1>1, <2>1 DEF SettlingInv
<1> QED BY <1>2, <1>3, Apart

\* When everything announced of an attempt has been delivered, one delivery at a
\* time, the evidence is that of the score that stands: learning-consumer.ts.
THEOREM EvidenceSettlesAlways == Spec => []EvidenceSettles
<1>1. Init => SettlingInv
  BY DEF Init, SettlingInv, Settling, On, Idle
<1>2. ASSUME LearningInv, SettlingInv, NEW a \in Attempt \ crossed, Scored(a), Quiet(a)
      PROVE  Agrees(a, history[a][Standing(a)])
  <2>1. history[a] # <<>> /\ Last(a) \in feed /\ Standing(a) = Len(history[a])
    BY <1>2, LastStands DEF LearningInv, Records, Scored, Last
  <2>2. Recorded(a)
    BY <1>2, <2>1, OfLast DEF Quiet, Recorded
  <2> QED BY <1>2, <2>1, <2>2 DEF SettlingInv, Settling
<1>3. LearningInv /\ SettlingInv => EvidenceSettles
  BY <1>2 DEF EvidenceSettles
<1>4. LearningInv /\ Operations /\ SettlingInv /\ [Next]_vars => SettlingInv'
  BY SettlingStep, RescoringAssumption
<1> QED BY <1>1, <1>3, <1>4, Invariant, PTL DEF Spec
-----------------------------------------------------------------------------
\* A preview is of the attempts that some inputs name, and of records of theirs.
OfRecords(preview, records) ==
    \E c \in Correction : /\ DOMAIN preview = DOMAIN c
                          /\ \A a \in DOMAIN c : preview[a] \in 1..Len(records[a])

\* What an operation's preview names, and what a dry run under way is about to
\* make it name, are records.
Previews ==
    /\ \A o \in Operation :
          op[o].state \in {"previewed", "approved", "executing", "completed"} =>
              OfRecords(op[o].preview, history)
    /\ \A d \in desk : d.to = "previewed" => OfRecords(d.preview, history)

\* A record stays a record.
LEMMA StillRecords ==
    ASSUME Records, RescoringAssumption, [Next]_vars, NEW a \in Attempt,
           NEW g \in 1..Len(history[a])
    PROVE  g \in 1..Len(history'[a]) /\ history'[a][g] = history[a][g]
<1>1. Len(history[a]) \in Nat /\ Len(history'[a]) \in Nat
  BY RecordsStep DEF Records
<1>2. /\ Len(history[a]) <= Len(history'[a])
      /\ history'[a][g] = history[a][g]
  BY HistoriesGrow
<1> QED BY <1>1, <1>2

\* ... so that a preview of records stays one, of the same scores.
LEMMA StillOfRecords ==
    ASSUME Records, RescoringAssumption, [Next]_vars,
           NEW preview, OfRecords(preview, history)
    PROVE  /\ OfRecords(preview, history')
           /\ \A a \in DOMAIN preview : /\ a \in Attempt /\ history[a][preview[a]] \in Score
                                      /\ history'[a][preview[a]] = history[a][preview[a]]
<1>1. PICK c \in Correction : /\ DOMAIN preview = DOMAIN c
                              /\ \A a \in DOMAIN c : preview[a] \in 1..Len(history[a])
  BY DEF OfRecords
<1>2. \A a \in DOMAIN c : a \in Attempt
  BY Inputs
<1>3. \A a \in DOMAIN c : /\ preview[a] \in 1..Len(history'[a])
                          /\ history'[a][preview[a]] = history[a][preview[a]]
  BY <1>1, <1>2, StillRecords
<1>4. \A a \in DOMAIN c : history[a][preview[a]] \in Score
  BY <1>1, <1>2 DEF Records
<1> QED BY <1>1, <1>2, <1>3, <1>4 DEF OfRecords

\* A dry run names the records that stand, and only a dry run names any.
LEMMA PreviewsStep ==
    ASSUME Records, Operations, Previews, RescoringAssumption, [Next]_vars
    PROVE  Previews'
<1>2. \A o \in Operation :
          op[o].state \in {"previewed", "approved", "executing", "completed"} =>
              OfRecords(op[o].preview, history')
  BY StillOfRecords DEF Previews
<1>3. \A d \in desk : d.to = "previewed" => OfRecords(d.preview, history')
  BY StillOfRecords DEF Previews
<1>4. CASE UNCHANGED <<op, desk>>
  BY <1>2, <1>3, <1>4 DEF Previews
<1>5. ASSUME NEW o \in Operation, Draft(o)
      PROVE  Previews'
  BY <1>2, <1>3, <1>5 DEF Previews, Draft, Operations
<1>6. ASSUME NEW o \in Operation, NEW to, NEW preview, Decide(o, to, preview),
             to = "previewed" => OfRecords(preview, history)
      PROVE  Previews'
  <2>1. /\ desk' = desk \cup {[op |-> o, to |-> to, version |-> op[o].version,
                               preview |-> preview]}
        /\ UNCHANGED <<op, history>>
    BY <1>6 DEF Decide
  <2> QED BY <1>2, <1>3, <1>6, <2>1 DEF Previews
<1>7. ASSUME NEW o \in Operation, NEW c \in Correction, RunDryRun(o, c)
      PROVE  Previews'
  <2> DEFINE preview == [a \in DOMAIN c |-> Standing(a)]
  <2>1. ASSUME NEW a \in DOMAIN c
        PROVE  preview[a] \in 1..Len(history[a])
    <3>1. a \in Attempt /\ history[a] # <<>>
      BY <1>7, Inputs DEF RunDryRun, Scored, Records
    <3>2. history[a] \in Seq(Score) /\ Standing(a) = Len(history[a])
      BY <3>1, LastStands DEF Records
    <3> QED BY <3>1, <3>2
  <2>2. OfRecords(preview, history)
    BY <2>1 DEF OfRecords
  <2>3. Decide(o, "previewed", preview)
    BY <1>7 DEF RunDryRun
  <2> HIDE DEF preview
  <2> QED BY <1>6, <2>2, <2>3
<1>8. ASSUME NEW o \in Operation, Proceed(o)
      PROVE  Previews'
  BY <1>6, <1>8 DEF Proceed
<1>9. ASSUME NEW d \in desk, Save(d)
      PROVE  Previews'
  <2>1. /\ desk' \subseteq desk /\ UNCHANGED history
        /\ \A o \in Operation : \/ op'[o] = op[o]
                                 \/ /\ o = d.op /\ op[o].version = d.version
                                    /\ op'[o].state = d.to /\ op'[o].preview = d.preview
    BY <1>9 DEF Save, Operations
  <2>2. ASSUME d.op \in Operation, op[d.op].version = d.version
        PROVE  OfRecords(d.preview, history)
    <3>1. /\ <<op[d.op].state, d.to>> \in Legal
          /\ d.to \in {"approved", "executing"} => d.preview = op[d.op].preview
      BY <2>2 DEF Operations
    <3> QED BY <2>2, <3>1 DEF Legal, Previews
  <2> QED BY <1>2, <1>3, <2>1, <2>2 DEF Previews
<1>10. ASSUME NEW p \in planned, Complete(p)
       PROVE  Previews'
  <2>1. op[p.op].state = "executing" /\ UNCHANGED desk
    BY <1>10 DEF Complete, Operations
  <2>2. \A q \in Operation : /\ op'[q].preview = op[q].preview
                             /\ op'[q].state = op[q].state \/ q = p.op
    BY <1>10 DEF Complete, Operations
  <2> QED BY <1>2, <1>3, <2>1, <2>2 DEF Previews
<1> QED
  BY <1>4, <1>5, <1>7, <1>8, <1>9, <1>10
  DEF Next, Correct, Deliver, vars, scoring, ScoreAttempt, Plan, Interrupt, Take, Assemble,
      RecordEvidence, ReadSlots, WriteReport, Acknowledge, Throw

-----------------------------------------------------------------------------
\* Before anything is scored or drafted the scorebook is empty.
LEMMA BookInit == Init => Book!Init
<1> SUFFICES ASSUME Init PROVE Book!Init
    OBVIOUS
<1>1. \A a \in Attempt : MarkOf(a) = {}
  BY DEF Init, MarkOf
<1>2. \A o \in Operation : Stage(o) = "open" /\ BasisOf(o) = {}
  BY DEF Init, Stage, BasisOf
<1> QED BY <1>1, <1>2 DEF Book!Init

\* An operation that keeps its state and its preview keeps its stage and its
\* basis, whatever is written to the histories.
LEMMA StageKept ==
    ASSUME Records, Previews, RescoringAssumption, [Next]_vars, NEW o \in Operation,
           op'[o].preview = op[o].preview, Stage(o)' = Stage(o)
    PROVE  BasisOf(o)' = BasisOf(o)
<1>1. CASE Stage(o) = "open"
  BY <1>1 DEF BasisOf
<1>2. CASE Stage(o) # "open"
  <2>1. OfRecords(op[o].preview, history)
    BY <1>2 DEF Stage, Previews
  <2>2. \A a \in DOMAIN op[o].preview :
            history'[a][op'[o].preview[a]] = history[a][op[o].preview[a]]
    BY <2>1, StillOfRecords
  <2>3. Previewed(o)' = Previewed(o)
    BY <2>2 DEF Previewed
  <2> QED BY <2>3 DEF BasisOf
<1> QED BY <1>1, <1>2

\* Marking an attempt gives it its first score.
LEMMA MarkingIsMark ==
    ASSUME Records, Previews, RescoringAssumption, [Next]_vars,
           NEW a \in Attempt, ScoreAttempt(a)
    PROVE  Book!Mark(a)
<1>1. MarkOf(a) = {} /\ MarkOf(a)' = {FirstScore[a]}
  BY DEF ScoreAttempt, MarkOf, Records, Scored
<1>2. \A b \in Attempt : b # a => MarkOf(b)' = MarkOf(b)
  BY DEF ScoreAttempt, MarkOf, Records
<1>3. \A o \in Operation : Stage(o)' = Stage(o) /\ op'[o].preview = op[o].preview
  BY DEF ScoreAttempt, Stage
<1>4. \A o \in Operation : BasisOf(o)' = BasisOf(o)
  BY <1>3, StageKept
<1> QED BY <1>1, <1>2, <1>3, <1>4 DEF Book!Mark

\* A save that is accepted is an approval, or nothing to the scorebook.
LEMMA SaveIsApprove ==
    ASSUME Records, Operations, Previews, RescoringAssumption, [Next]_vars,
           NEW d \in desk, Save(d)
    PROVE  \/ \E c \in Correction : Book!Approve(d.op, c)
           \/ UNCHANGED Book!vars
<1>1. /\ UNCHANGED <<history, standing>> /\ d.op \in Operation
      /\ \A o \in Operation : o # d.op => op'[o] = op[o]
  BY DEF Save, Operations
<1>2. \A a \in Attempt : MarkOf(a)' = MarkOf(a)
  BY <1>1 DEF MarkOf
<1>3. \A o \in Operation : o # d.op => Stage(o)' = Stage(o) /\ BasisOf(o)' = BasisOf(o)
  BY <1>1 DEF Stage, BasisOf, Previewed
<1>4. CASE op[d.op].version # d.version
  <2>1. op' = op
    BY <1>4 DEF Save
  <2> QED BY <1>1, <1>2, <2>1 DEF Book!vars, Stage, BasisOf, Previewed
<1>5. CASE op[d.op].version = d.version
  <2>1. /\ <<op[d.op].state, d.to>> \in Legal
        /\ d.to \in {"approved", "executing"} => d.preview = op[d.op].preview
        /\ op'[d.op].state = d.to /\ op'[d.op].preview = d.preview
    BY <1>5 DEF Save, Operations
  <2>2. CASE d.to = "approved"
    <3>1. /\ Stage(d.op) = "open" /\ Stage(d.op)' = "approved"
          /\ OfRecords(op[d.op].preview, history)
      BY <1>1, <2>1, <2>2 DEF Legal, Stage, Previews
    <3>2. Previewed(d.op)' = Previewed(d.op)
      BY <1>1, <2>1, <2>2 DEF Previewed
    <3>3. PICK c \in Correction : DOMAIN op[d.op].preview = DOMAIN c
      BY <3>1 DEF OfRecords
    <3>4. Previewed(d.op) \in [DOMAIN c -> Score]
      BY <3>1, <3>3, StillOfRecords DEF Previewed
    <3>5. BasisOf(d.op)' = {Previewed(d.op)}
      BY <3>1, <3>2 DEF BasisOf
    <3>6. PICK o \in Operation : o = d.op
      BY <1>1
    <3>7. Book!Approve(o, c)
      BY <1>2, <1>3, <3>1, <3>4, <3>5, <3>6 DEF Book!Approve
    <3> QED BY <3>6, <3>7
  <2>3. CASE d.to # "approved"
    <3>1. Stage(d.op)' = Stage(d.op)
      BY <2>1, <2>3 DEF Legal, Stage
    <3>2. BasisOf(d.op)' = BasisOf(d.op)
      BY <1>1, <2>1, <2>3, <3>1 DEF Legal, Stage, BasisOf, Previewed
    <3> QED BY <1>2, <1>3, <3>1, <3>2 DEF Book!vars
  <2> QED BY <2>2, <2>3
<1> QED BY <1>4, <1>5

\* A completion that the database admits corrects every attempt it names.
LEMMA CompletionIsMake ==
    ASSUME Records, Operations, Previews, RescoringAssumption, [Next]_vars,
           NEW p \in planned, Complete(p)
    PROVE  Book!Make(p.op, p.inputs) \/ UNCHANGED Book!vars
<1> DEFINE o == p.op
           c == p.inputs
<1>0. c \in Correction /\ o \in Operation
  BY DEF Records, Operations
<1>1. CASE ~\A a \in DOMAIN c : Admits(a, p.before[a])
  BY <1>1 DEF Complete, Book!vars, MarkOf, Stage, BasisOf, Previewed
<1>2. CASE \A a \in DOMAIN c : Admits(a, p.before[a])
  <2>1. \A a \in DOMAIN c : /\ a \in Attempt /\ history[a] # <<>> /\ c[a] \in Score
                            /\ p.before[a] = Len(history[a])
    BY <1>0, <1>2, AdmitsLast, Inputs
  <2>2. ASSUME NEW a \in DOMAIN c
        PROVE  MarkOf(a) # {} /\ MarkOf(a)' = {c[a]}
    <3>1. /\ a \in Attempt /\ history[a] \in Seq(Score)
          /\ standing[a] = {Len(history[a])} /\ c[a] \in Score
      BY <2>1 DEF Records
    <3>2. /\ history'[a] = Append(history[a], c[a])
          /\ standing'[a] = {Len(history[a]) + 1}
      BY <1>2, <2>1 DEF Complete, Lengthened
    <3>3. history'[a][Len(history[a]) + 1] = c[a]
      BY <3>1, <3>2
    <3> QED BY <3>1, <3>2, <3>3 DEF MarkOf
  <2>3. \A a \in Attempt \ DOMAIN c : MarkOf(a)' = MarkOf(a)
    BY <1>2 DEF Complete, Lengthened, MarkOf
  <2>4. op[o].state = "executing" /\ op'[o].state = "completed"
        /\ op'[o].preview = op[o].preview
    BY <1>2 DEF Complete, Operations
  <2>5. \A q \in Operation : q # o => /\ op'[q] = op[q] /\ Stage(q)' = Stage(q)
                                      /\ BasisOf(q)' = BasisOf(q)
    <3>1. \A q \in Operation : q # o => op'[q] = op[q]
      BY <1>2 DEF Complete, Operations
    <3>2. \A q \in Operation : q # o => Stage(q)' = Stage(q)
      BY <3>1 DEF Stage
    <3> QED BY <3>1, <3>2, StageKept
  <2>6. Stage(o) = "approved" /\ Stage(o)' = "made"
    BY <2>4 DEF Stage
  <2>7. BasisOf(o)' = BasisOf(o)
    <3>1. OfRecords(op[o].preview, history)
      BY <1>0, <2>4 DEF Previews
    <3>2. Previewed(o)' = Previewed(o)
      BY <2>4, <3>1, StillOfRecords DEF Previewed
    <3> QED BY <2>6, <3>2 DEF BasisOf
  <2> QED BY <1>0, <2>1, <2>2, <2>3, <2>5, <2>6, <2>7 DEF Book!Make
<1> QED BY <1>1, <1>2

\* Every step is a step of the scorebook, or none.
LEMMA BookStep ==
    ASSUME Records, Operations, Previews, RescoringAssumption, [Next]_vars
    PROVE  [Book!Next]_(Book!vars)
<1>1. CASE UNCHANGED <<history, standing, op>>
  BY <1>1 DEF Book!vars, MarkOf, Stage, BasisOf, Previewed
<1>2. CASE \E a \in Attempt : ScoreAttempt(a)
  BY <1>2, MarkingIsMark DEF Book!Next
<1>3. ASSUME NEW o \in Operation, Draft(o)
      PROVE  UNCHANGED Book!vars
  <2>1. /\ UNCHANGED <<history, standing>>
        /\ op[o].state = "absent" /\ op'[o].state = "drafted"
        /\ \A q \in Operation : q # o => op'[q] = op[q]
    BY <1>3 DEF Draft, Operations
  <2>2. \A q \in Operation : Stage(q)' = Stage(q) /\ BasisOf(q)' = BasisOf(q)
    BY <2>1 DEF Stage, BasisOf, Previewed
  <2> QED BY <2>1, <2>2 DEF Book!vars, MarkOf
<1>4. ASSUME NEW d \in desk, Save(d)
      PROVE  [Book!Next]_(Book!vars)
  <2>1. PICK o \in Operation : o = d.op
    BY DEF Operations
  <2>2. \/ \E c \in Correction : Book!Approve(o, c)
        \/ UNCHANGED Book!vars
    BY <1>4, <2>1, SaveIsApprove
  <2> QED BY <2>2 DEF Book!Next
<1>5. ASSUME NEW p \in planned, Complete(p)
      PROVE  [Book!Next]_(Book!vars)
  <2>1. p.op \in Operation /\ p.inputs \in Correction
    BY DEF Operations, Records
  <2> QED BY <1>5, <2>1, CompletionIsMake DEF Book!Next
<1> QED
  BY <1>1, <1>2, <1>3, <1>4, <1>5
  DEF Next, Correct, Deliver, vars, scoring, RunDryRun, Proceed, Decide, Plan, Interrupt,
      Take, Assemble, RecordEvidence, ReadSlots, WriteReport, Acknowledge, Throw

\* Rescoring implements the scorebook: one score, which nothing changes but the one
\* execution of an operation that was approved, in one step for all the attempts
\* that the execution names; over whatever inputs the dry run and the execution
\* each bring, which are not compared: scoring-handlers.ts, rescoring-handlers.ts,
\* rescoring-operation.repository.ts.
THEOREM ImplementsScorebookAlways == Spec => ImplementsScorebook
<1>1. Init => Previews
  BY DEF Init, Previews
<1>2. LearningInv /\ Operations /\ Previews /\ [Next]_vars => Previews'
  BY PreviewsStep, RescoringAssumption DEF LearningInv
<1>3. LearningInv /\ Operations /\ Previews /\ [Next]_vars => [Book!Next]_(Book!vars)
  BY BookStep, RescoringAssumption DEF LearningInv
<1> QED BY <1>1, <1>2, <1>3, BookInit, Invariant, PTL DEF Spec, ImplementsScorebook, Book!Spec
=============================================================================
