--------------------------- MODULE SideBySideProofs ---------------------------
(* Proofs about five components that share nothing: what generation spends,  *)
(* the candidates it proposes, the sessions of a user, the slots of bounded  *)
(* work and the audit chain.                                                 *)
(*                                                                           *)
(* Of the budget: an enqueue that holds the lock has read the sum that is    *)
(* still the sum, and every call in flight is of a run that has reserved.    *)
(* Of the candidates: an acceptance under way holds a candidate that may be  *)
(* accepted, what it holds is a prefix of what is stored, and the draft it   *)
(* has made is that candidate's.                                             *)
(* Of the sessions: a rotation that has updated its old session keeps it     *)
(* live and without a successor for everybody else until it commits; a       *)
(* session that is being inserted is nobody else's and not there yet; and    *)
(* while a sign-in holds the user's row, no session comes that it has not    *)
(* seen.  So every commit is one step of the book of the sessions.           *)
(* Of bounded work: the slots in use are those of the callers at work, and   *)
(* whoever waits is in the queue once.                                       *)
(* Of the chain: only the transaction that holds the lock has read its head, *)
(* and a day that is over gains no record, so a sealer that read it after    *)
(* its end has read all there will be.                                       *)
EXTENDS GenerationBudget, GenerationCandidates, IdentitySessions, BoundedWork,
        AuditChain, FiniteSetTheorems, WellFoundedInduction, TLAPS

(* The budget *)

AdmissionIsCurrent ==
    admitting # NobodyAdmits =>
        /\ admitting.run \in Runs /\ budget[admitting.run] = 0
        /\ admitting.read = committed /\ admitting.asks \in Reservations

CallsAreAdmitted == \A m \in Meters : call[m] # NoRun => budget[call[m]] # 0

BudgetIInv ==
    BudgetTypeOK /\ AdmissionIsCurrent /\ CallsAreAdmitted /\ ReservedWithinCeiling
    /\ OvershootIsCallsInFlight

\* A larger number of calls may use no less.
LEMMA MoreCallsMoreUsage ==
    ASSUME NEW a \in Nat, NEW b \in Nat, a <= b
    PROVE  MaxUsage * a <= MaxUsage * b /\ MaxUsage * a \in Nat /\ MaxUsage * (a + 1) = MaxUsage * a + MaxUsage
  BY BudgetAssumption

LEMMA BudgetInitInv == BudgetInit => BudgetIInv
  BY BudgetAssumption
     DEF BudgetInit, BudgetIInv, BudgetTypeOK, NobodyAdmits, AdmissionIsCurrent,
         CallsAreAdmitted, ReservedWithinCeiling, OvershootIsCallsInFlight

LEMMA InFlightIsFinite ==
    ASSUME NEW r
    PROVE  /\ IsFiniteSet(InFlight(r)) /\ Cardinality(InFlight(r)) \in Nat
           /\ Cardinality(Meters) \in Nat /\ Cardinality(InFlight(r)) <= Cardinality(Meters)
  BY BudgetAssumption, FS_Subset, FS_CardinalityType DEF InFlight

\* A call that ends leaves one fewer of its run's, and the others' as they are.
LEMMA CallEnds ==
    ASSUME BudgetTypeOK, NEW m \in Meters, NEW r \in Runs, call[m] = r,
           call' = [call EXCEPT ![m] = NoRun]
    PROVE  /\ Cardinality(InFlight(r)') = Cardinality(InFlight(r)) - 1
           /\ \A s \in Runs : s # r => InFlight(s)' = InFlight(s)
  <1>1. \A n \in Meters : n # m => call'[n] = call[n]
    BY DEF BudgetTypeOK
  <1>2. call'[m] = NoRun /\ NoRun # r
    BY BudgetAssumption DEF BudgetTypeOK
  <1>3. InFlight(r)' = InFlight(r) \ {m} /\ m \in InFlight(r)
    BY <1>1, <1>2 DEF InFlight
  <1>4. \A s \in Runs : s # r => InFlight(s)' = InFlight(s)
    BY <1>1, <1>2, BudgetAssumption DEF InFlight
  <1> QED
    BY <1>3, <1>4, InFlightIsFinite, FS_RemoveElement

\* Overshoot of one run, the meters' calls and its ledger as given.
LEMMA OvershootKept ==
    ASSUME NEW b \in Nat, NEW spentBy \in Nat, NEW n \in Nat, NEW all \in Nat,
           NEW used \in 0..MaxUsage, n >= 1,
           spentBy + MaxUsage * n <= b - 1 + MaxUsage * all
    PROVE  (spentBy + used) + MaxUsage * (n - 1) <= b - 1 + MaxUsage * all
  <1>1. MaxUsage * n \in Nat /\ MaxUsage * all \in Nat /\ MaxUsage \in Nat
    BY BudgetAssumption
  <1>2. MaxUsage * (n - 1) = MaxUsage * n - MaxUsage
    BY BudgetAssumption
  <1> DEFINE x == MaxUsage * n
             y == MaxUsage * all
             z == MaxUsage * (n - 1)
  <1>3. x \in Nat /\ y \in Nat /\ z = x - MaxUsage /\ spentBy + x <= b - 1 + y
    BY <1>1, <1>2
  <1> HIDE DEF x, y, z
  <1>4. (spentBy + used) + z <= b - 1 + y
    BY <1>1, <1>3
  <1> QED
    BY <1>4 DEF y, z

-----------------------------------------------------------------------------
\* Nothing but the ledger and the calls in flight bears on an overshoot.
LEMMA AdmittingStep ==
    ASSUME BudgetIInv, UNCHANGED <<spent, call>>, BudgetTypeOK',
           \A r \in Runs : budget'[r] # budget[r] => budget[r] = 0 /\ budget'[r] \in Reservations
    PROVE  OvershootIsCallsInFlight' /\ CallsAreAdmitted'
  <1>1. ASSUME NEW r \in Runs, budget'[r] # 0
        PROVE  spent'[r] + MaxUsage * Cardinality(InFlight(r)')
                   <= budget'[r] - 1 + MaxUsage * Cardinality(Meters)
    <2>1. InFlight(r)' = InFlight(r) /\ spent' = spent
      BY DEF InFlight
    <2>2. CASE budget'[r] = budget[r]
      BY <1>1, <2>1, <2>2 DEF BudgetIInv, OvershootIsCallsInFlight
    <2>3. CASE budget[r] = 0 /\ budget'[r] \in Reservations
      <3>1. spent[r] = 0 /\ budget'[r] \in Nat \ {0}
        BY <2>3, BudgetAssumption DEF BudgetIInv, ReservedWithinCeiling
      <3> DEFINE n == Cardinality(InFlight(r))
                 all == Cardinality(Meters)
      <3>2. n \in Nat /\ all \in Nat /\ n <= all
        BY InFlightIsFinite
      <3> HIDE DEF n, all
      <3>3. MaxUsage * n <= MaxUsage * all /\ MaxUsage * n \in Nat /\ MaxUsage * all \in Nat
        BY <3>2, BudgetAssumption, MoreCallsMoreUsage
      <3> DEFINE x == MaxUsage * n
                 y == MaxUsage * all
      <3>4. x \in Nat /\ y \in Nat /\ x <= y
        BY <3>3
      <3> HIDE DEF x, y
      <3>5. 0 + x <= budget'[r] - 1 + y
        BY <3>1, <3>4
      <3> QED
        BY <2>1, <3>1, <3>5 DEF x, y, n, all
    <2> QED
      BY <2>2, <2>3
  <1>2. OvershootIsCallsInFlight'
    BY <1>1 DEF OvershootIsCallsInFlight
  <1>3. CallsAreAdmitted'
    <2>1. \A r \in Runs : budget[r] # 0 => budget'[r] # 0
      OBVIOUS
    <2>2. \A m \in Meters : call[m] # NoRun => call[m] \in Runs
      BY DEF BudgetIInv, BudgetTypeOK
    <2> QED
      BY <2>1, <2>2 DEF BudgetIInv, CallsAreAdmitted
  <1> QED
    BY <1>2, <1>3

LEMMA DeclareBudgetStep == ASSUME BudgetIInv, DeclareBudget PROVE BudgetIInv'
  <1>1. BudgetTypeOK' /\ AdmissionIsCurrent' /\ ReservedWithinCeiling'
    BY BudgetAssumption DEF BudgetIInv, DeclareBudget, BudgetTypeOK, AdmissionIsCurrent,
       ReservedWithinCeiling, NobodyAdmits
  <1>2. OvershootIsCallsInFlight' /\ CallsAreAdmitted'
    <2>1. UNCHANGED <<spent, call>> /\ \A s \in Runs : budget'[s] = budget[s]
      BY DEF DeclareBudget
    <2> QED
      BY <1>1, <2>1, AdmittingStep
  <1> QED
    BY <1>1, <1>2 DEF BudgetIInv

LEMMA AdmitBeginsStep ==
    ASSUME BudgetIInv, NEW r \in Runs, NEW asks \in Reservations, AdmitBegins(r, asks)
    PROVE  BudgetIInv'
  <1>1. BudgetTypeOK' /\ AdmissionIsCurrent' /\ ReservedWithinCeiling'
    BY BudgetAssumption DEF BudgetIInv, AdmitBegins, BudgetTypeOK, AdmissionIsCurrent,
       ReservedWithinCeiling, NobodyAdmits
  <1>2. OvershootIsCallsInFlight' /\ CallsAreAdmitted'
    <2>1. UNCHANGED <<spent, call>> /\ \A s \in Runs : budget'[s] = budget[s]
      BY DEF AdmitBegins
    <2> QED
      BY <1>1, <2>1, AdmittingStep
  <1> QED
    BY <1>1, <1>2 DEF BudgetIInv

LEMMA AdmitIsLostStep == ASSUME BudgetIInv, AdmitIsLost PROVE BudgetIInv'
  <1>1. BudgetTypeOK' /\ AdmissionIsCurrent' /\ ReservedWithinCeiling'
    BY BudgetAssumption DEF BudgetIInv, AdmitIsLost, BudgetTypeOK, AdmissionIsCurrent,
       ReservedWithinCeiling, NobodyAdmits
  <1>2. OvershootIsCallsInFlight' /\ CallsAreAdmitted'
    <2>1. UNCHANGED <<spent, call>> /\ \A s \in Runs : budget'[s] = budget[s]
      BY DEF AdmitIsLost
    <2> QED
      BY <1>1, <2>1, AdmittingStep
  <1> QED
    BY <1>1, <1>2 DEF BudgetIInv

LEMMA AdmitEndsStep == ASSUME BudgetIInv, AdmitEnds PROVE BudgetIInv'
  <1>1. /\ admitting.run \in Runs /\ budget[admitting.run] = 0
        /\ admitting.read = committed /\ admitting.asks \in Reservations
        /\ admitting.asks \in Nat \ {0}
    BY BudgetAssumption DEF BudgetIInv, AdmissionIsCurrent, AdmitEnds
  <1>2. admitting' = NobodyAdmits /\ UNCHANGED <<ceiling, spent, call>>
    BY DEF AdmitEnds
  <1>3. AdmissionIsCurrent' /\ admitting' \in [run : Runs \cup {NoRun}, asks : Nat, read : Nat]
    BY <1>2 DEF AdmissionIsCurrent, NobodyAdmits
  <1>4. CASE /\ admitting.read + admitting.asks <= ceiling
             /\ budget' = [budget EXCEPT ![admitting.run] = admitting.asks]
             /\ committed' = committed + admitting.asks
    <2>1. BudgetTypeOK'
      BY <1>1, <1>2, <1>3, <1>4 DEF BudgetIInv, BudgetTypeOK
    <2>2. \A r \in Runs : budget'[r] # budget[r] => budget[r] = 0 /\ budget'[r] \in Reservations
      BY <1>1, <1>4 DEF BudgetIInv, BudgetTypeOK
    <2>3. ReservedWithinCeiling'
      <3>1. committed' <= ceiling'
        BY <1>1, <1>2, <1>4
      <3>2. \A r \in Runs : budget'[r] = 0 => spent'[r] = 0
        BY <1>2, <2>2, BudgetAssumption DEF BudgetIInv, ReservedWithinCeiling
      <3> QED
        BY <3>1, <3>2 DEF ReservedWithinCeiling
    <2>4. UNCHANGED <<spent, call>>
      BY <1>2
    <2>5. OvershootIsCallsInFlight' /\ CallsAreAdmitted'
      BY <2>1, <2>2, <2>4, AdmittingStep
    <2> QED
      BY <1>3, <2>1, <2>3, <2>5 DEF BudgetIInv
  <1>5. CASE UNCHANGED <<budget, committed>>
    <2>1. BudgetTypeOK' /\ ReservedWithinCeiling'
      BY <1>2, <1>3, <1>5 DEF BudgetIInv, BudgetTypeOK, ReservedWithinCeiling
    <2>2. UNCHANGED <<spent, call>> /\ \A s \in Runs : budget'[s] = budget[s]
      BY <1>2, <1>5
    <2>3. OvershootIsCallsInFlight' /\ CallsAreAdmitted'
      BY <2>1, <2>2, AdmittingStep
    <2> QED
      BY <1>3, <2>1, <2>3 DEF BudgetIInv
  <1> QED
    BY <1>4, <1>5 DEF AdmitEnds

LEMMA CallBeginsStep ==
    ASSUME BudgetIInv, NEW m \in Meters, NEW r \in Runs, CallBegins(m, r)
    PROVE  BudgetIInv'
  <1>1. /\ call[m] = NoRun /\ budget[r] # 0 /\ spent[r] < budget[r]
        /\ call' = [call EXCEPT ![m] = r]
        /\ UNCHANGED <<ceiling, committed, budget, admitting, spent>>
    BY DEF CallBegins
  <1>2. BudgetTypeOK' /\ AdmissionIsCurrent' /\ ReservedWithinCeiling' /\ CallsAreAdmitted'
    BY <1>1 DEF BudgetIInv, BudgetTypeOK, AdmissionIsCurrent, ReservedWithinCeiling,
       CallsAreAdmitted
  <1>3. ASSUME NEW s \in Runs, budget'[s] # 0
        PROVE  spent'[s] + MaxUsage * Cardinality(InFlight(s)')
                   <= budget'[s] - 1 + MaxUsage * Cardinality(Meters)
    <2>1. CASE s # r
      <3>1. InFlight(s)' = InFlight(s)
        BY <1>1, <2>1, BudgetAssumption DEF InFlight, BudgetIInv, BudgetTypeOK
      <3> QED
        BY <1>1, <1>3, <3>1 DEF BudgetIInv, OvershootIsCallsInFlight
    <2>2. CASE s = r
      <3> DEFINE n == Cardinality(InFlight(r)')
                 all == Cardinality(Meters)
      <3>1. n \in Nat /\ all \in Nat /\ n <= all
        <4>1. InFlight(r)' \in SUBSET Meters
          BY DEF InFlight
        <4> QED
          BY <4>1, BudgetAssumption, FS_Subset, FS_CardinalityType
      <3> HIDE DEF n, all
      <3> DEFINE x == MaxUsage * n
                 y == MaxUsage * all
      <3>2. x \in Nat /\ y \in Nat /\ x <= y
        BY <3>1, BudgetAssumption, MoreCallsMoreUsage
      <3> HIDE DEF x, y
      <3>3. spent[r] \in Nat /\ budget[r] \in Nat
        BY DEF BudgetIInv, BudgetTypeOK
      <3>4. spent[r] + x <= budget[r] - 1 + y
        BY <1>1, <3>2, <3>3
      <3> QED
        BY <1>1, <2>2, <3>4 DEF x, y, n, all
    <2> QED
      BY <2>1, <2>2
  <1>4. OvershootIsCallsInFlight'
    BY <1>3 DEF OvershootIsCallsInFlight
  <1> QED
    BY <1>2, <1>4 DEF BudgetIInv

\* A call that ends, with what it used on the ledger or with nothing.
LEMMA CallEndsStep ==
    ASSUME BudgetIInv, NEW m \in Meters, call[m] # NoRun, NEW used \in 0..MaxUsage,
           call' = [call EXCEPT ![m] = NoRun],
           spent' = [spent EXCEPT ![call[m]] = @ + used],
           UNCHANGED <<ceiling, committed, budget, admitting>>
    PROVE  BudgetIInv'
  <1>0. PICK r \in Runs : r = call[m]
    BY DEF BudgetIInv, BudgetTypeOK
  <1>1. budget[r] # 0
    BY <1>0 DEF BudgetIInv, CallsAreAdmitted
  <1>2. used \in Nat /\ spent' = [spent EXCEPT ![r] = spent[r] + used]
    BY <1>0, BudgetAssumption
  <1>3. /\ Cardinality(InFlight(r)') = Cardinality(InFlight(r)) - 1
        /\ \A s \in Runs : s # r => InFlight(s)' = InFlight(s)
    <2>1. BudgetTypeOK
      BY DEF BudgetIInv
    <2> QED
      BY <1>0, <2>1, CallEnds
  <1>4. BudgetTypeOK'
    BY <1>1, <1>2 DEF BudgetIInv, BudgetTypeOK
  <1>5. AdmissionIsCurrent' /\ CallsAreAdmitted'
    BY DEF BudgetIInv, BudgetTypeOK, AdmissionIsCurrent, CallsAreAdmitted
  <1>6. ReservedWithinCeiling'
    BY <1>1, <1>2 DEF BudgetIInv, BudgetTypeOK, ReservedWithinCeiling
  <1>7. ASSUME NEW s \in Runs, budget'[s] # 0
        PROVE  spent'[s] + MaxUsage * Cardinality(InFlight(s)')
                   <= budget'[s] - 1 + MaxUsage * Cardinality(Meters)
    <2>1. spent[s] + MaxUsage * Cardinality(InFlight(s))
              <= budget[s] - 1 + MaxUsage * Cardinality(Meters)
      BY <1>7 DEF BudgetIInv, OvershootIsCallsInFlight
    <2>2. CASE s # r
      BY <1>2, <1>3, <2>1, <2>2 DEF BudgetIInv, BudgetTypeOK
    <2>3. CASE s = r
      <3>1. spent[s] \in Nat /\ budget[s] \in Nat /\ spent'[s] = spent[s] + used
        BY <1>1, <1>2, <2>3 DEF BudgetIInv, BudgetTypeOK
      <3>2. Cardinality(InFlight(s)) \in Nat /\ Cardinality(Meters) \in Nat
        BY InFlightIsFinite
      <3>3. Cardinality(InFlight(s)) >= 1
        <4>1. m \in InFlight(s)
          BY <1>0, <2>3 DEF InFlight
        <4>2. Cardinality(InFlight(s)) # 0
          BY <4>1, InFlightIsFinite, FS_EmptySet
        <4> QED
          BY <3>2, <4>2
      <3>4. (spent[s] + used) + MaxUsage * (Cardinality(InFlight(s)) - 1)
                <= budget[s] - 1 + MaxUsage * Cardinality(Meters)
        BY <2>1, <3>1, <3>2, <3>3, OvershootKept
      <3>5. Cardinality(InFlight(s)') = Cardinality(InFlight(s)) - 1
        BY <1>3, <2>3
      <3>6. budget'[s] = budget[s]
        OBVIOUS
      <3> QED
        BY <3>1, <3>4, <3>5, <3>6
    <2> QED
      BY <2>2, <2>3
  <1>8. OvershootIsCallsInFlight'
    BY <1>7 DEF OvershootIsCallsInFlight
  <1> QED
    BY <1>4, <1>5, <1>6, <1>8 DEF BudgetIInv

LEMMA BudgetStep == BudgetIInv /\ [BudgetNext]_budgetVars => BudgetIInv'
  <1> SUFFICES ASSUME BudgetIInv, [BudgetNext]_budgetVars PROVE BudgetIInv'
    OBVIOUS
  <1>1. CASE UNCHANGED budgetVars
    BY <1>1 DEF budgetVars, BudgetIInv, BudgetTypeOK, AdmissionIsCurrent, CallsAreAdmitted,
       ReservedWithinCeiling, OvershootIsCallsInFlight, InFlight
  <1>2. CASE DeclareBudget \/ AdmitEnds \/ AdmitIsLost
    BY <1>2, DeclareBudgetStep, AdmitEndsStep, AdmitIsLostStep
  <1>3. CASE \E r \in Runs, asks \in Reservations : AdmitBegins(r, asks)
    BY <1>3, AdmitBeginsStep
  <1>4. CASE \E m \in Meters, r \in Runs : CallBegins(m, r)
    BY <1>4, CallBeginsStep
  <1>5. ASSUME NEW m \in Meters, CallRecords(m) PROVE BudgetIInv'
    <2>1. PICK used \in 1..MaxUsage : spent' = [spent EXCEPT ![call[m]] = @ + used]
      BY <1>5 DEF CallRecords
    <2>2. used \in 0..MaxUsage
      BY BudgetAssumption
    <2> QED
      BY <1>5, <2>1, <2>2, CallEndsStep DEF CallRecords
  <1>6. ASSUME NEW m \in Meters, CallFails(m) PROVE BudgetIInv'
    <2>1. call[m] \in Runs /\ spent \in [Runs -> Nat]
      BY <1>6 DEF CallFails, BudgetIInv, BudgetTypeOK
    <2>2. spent' = [spent EXCEPT ![call[m]] = @ + 0]
      BY <1>6, <2>1 DEF CallFails
    <2>3. 0 \in 0..MaxUsage
      BY BudgetAssumption
    <2> QED
      BY <1>6, <2>2, <2>3, CallEndsStep DEF CallFails
  <1> QED
    BY <1>1, <1>2, <1>3, <1>4, <1>5, <1>6 DEF BudgetNext

\* The strengthening, with the type invariant of the budget.
THEOREM BudgetInvariant == BudgetSpec => []BudgetIInv
  BY BudgetInitInv, BudgetStep, PTL DEF BudgetSpec

\* For any number of enqueues the reservations stay within the ceiling, by the
\* advisory lock that keeps the sum an enqueue has read.
THEOREM ReservedWithinCeilingAlways == BudgetSpec => []ReservedWithinCeiling
  <1>1. BudgetIInv => ReservedWithinCeiling
    BY DEF BudgetIInv
  <1> QED
    BY <1>1, BudgetInvariant, PTL

\* For any number of calls in flight, a run passes its reservation by no more
\* than the calls that were in flight when it was used up.
THEOREM OvershootIsCallsInFlightAlways == BudgetSpec => []OvershootIsCallsInFlight
  <1>1. BudgetIInv => OvershootIsCallsInFlight
    BY DEF BudgetIInv
  <1> QED
    BY <1>1, BudgetInvariant, PTL

-----------------------------------------------------------------------------
(* The candidates *)

Verdict == [check : PrecheckIds, outcome : {"pass", "fail"}]
Row == [verdicts : Seq(Verdict), state : {"proposed", "accepted", "rejected"}]
Draft == [of : Candidates, state : {"draft", "submitted"}]

Command == [at : {"idle", "battery", "accepting", "submitting", "saves", "compared", "agreed"},
            of : Candidates \cup {NoCandidate}, loaded : Row, seen : Row, made : Nat]

\* No check twice.
OneEach(row) == \A i, j \in DOMAIN row.verdicts : row.verdicts[i].check = row.verdicts[j].check => i = j

Passes(row) == FailedBlockingChecks(row) = {} /\ BlockingPrechecks \subseteq Checked(row)

Stored ==
    /\ candidate \in [Candidates -> Row] /\ \A c \in Candidates : OneEach(candidate[c])
    /\ draft \in Seq(Draft)
    /\ handling \in [Handlers -> Command]

\* What a decision was made on is stored; of an acceptance it passes, and its
\* draft is that candidate's.  What a save has read is not undone.
HoldsSoundly(w) ==
    w.at # "idle" =>
        /\ w.of \in Candidates /\ OneEach(w.loaded)
        /\ w.at \in {"battery", "accepting", "submitting"} => w.loaded.state = "proposed"
        /\ w.at \in {"accepting", "submitting"} \/ w.loaded.state # "proposed" =>
              IsPrefix(w.loaded.verdicts, candidate[w.of].verdicts)
        /\ w.at \in {"accepting", "submitting"} \/ w.loaded.state = "accepted" => Passes(w.loaded)
        /\ w.at = "submitting" => w.made \in DOMAIN draft /\ draft[w.made].of = w.of
        /\ w.loaded.state = "accepted" =>
              w.made \in DOMAIN draft /\ draft[w.made] = [of |-> w.of, state |-> "submitted"]
        /\ w.at \in {"compared", "agreed"} => IsPrefix(w.seen.verdicts, w.loaded.verdicts)
        /\ w.at = "agreed" =>
              /\ w.seen.state \in {"proposed", w.loaded.state}
              /\ w.seen.state # "proposed" => candidate[w.of].state = w.seen.state

CandidatesIInv ==
    /\ Stored /\ AcceptedWasChecked /\ AnnouncedAsDecided
    /\ \A h \in Handlers : HoldsSoundly(handling[h])

LEMMA PrefixIsReflexive ==
    ASSUME NEW S, NEW s \in Seq(S) PROVE IsPrefix(s, s)
  BY DEF IsPrefix

LEMMA PrefixElements ==
    ASSUME NEW S, NEW s \in Seq(S), NEW t \in Seq(S)
    PROVE  IsPrefix(s, t) <=> Len(s) <= Len(t) /\ \A i \in 1..Len(s) : s[i] = t[i]
  <1>1. SUFFICES ASSUME Len(s) <= Len(t)
                 PROVE  SubSeq(s, 1, Len(s)) = SubSeq(t, 1, Len(s))
                            <=> \A i \in 1..Len(s) : s[i] = t[i]
    BY DEF IsPrefix
  <1>2. /\ SubSeq(s, 1, Len(s)) = [i \in 1..Len(s) |-> s[i]]
        /\ SubSeq(t, 1, Len(s)) = [i \in 1..Len(s) |-> t[i]]
    BY <1>1
  <1> QED
    BY <1>2

LEMMA PrefixIsTransitive ==
    ASSUME NEW S, NEW s \in Seq(S), NEW t \in Seq(S), NEW u \in Seq(S),
           IsPrefix(s, t), IsPrefix(t, u)
    PROVE  IsPrefix(s, u)
  <1>1. /\ Len(s) <= Len(t) /\ \A i \in 1..Len(s) : s[i] = t[i]
        /\ Len(t) <= Len(u) /\ \A i \in 1..Len(t) : t[i] = u[i]
    BY PrefixElements
  <1>2. Len(s) <= Len(u) /\ \A i \in 1..Len(s) : s[i] = u[i]
    BY <1>1
  <1> QED
    BY <1>2, PrefixElements

LEMMA PrefixOfAppend ==
    ASSUME NEW S, NEW s \in Seq(S), NEW e \in S
    PROVE  IsPrefix(s, Append(s, e)) /\ Append(s, e) \in Seq(S)
  <1>1. Append(s, e) \in Seq(S) /\ Len(s) <= Len(Append(s, e))
        /\ \A i \in 1..Len(s) : s[i] = Append(s, e)[i]
    OBVIOUS
  <1> QED
    BY <1>1, PrefixElements

LEMMA CandidatesInitInv == CandidatesInit => CandidatesIInv
  <1> SUFFICES ASSUME CandidatesInit PROVE CandidatesIInv
    OBVIOUS
  <1>1. Proposed \in Row /\ Proposed.state = "proposed" /\ OneEach(Proposed)
    BY DEF Proposed, Row, OneEach
  <1>2. Nothing \in Command /\ Nothing.at = "idle"
    BY <1>1 DEF Doing, Nothing, Command
  <1>3. Stored
    BY <1>1, <1>2 DEF CandidatesInit, Stored
  <1>4. \A h \in Handlers : HoldsSoundly(handling[h])
    BY <1>2 DEF CandidatesInit, HoldsSoundly
  <1>5. AcceptedWasChecked /\ AnnouncedAsDecided
    BY <1>1 DEF CandidatesInit, AcceptedWasChecked, AnnouncedAsDecided
  <1> QED
    BY <1>3, <1>4, <1>5 DEF CandidatesIInv

\* What a step may make of the record of a candidate, and of the drafts.
Grows(row, next) ==
    /\ IsPrefix(row.verdicts, next.verdicts)
    /\ \A i \in DOMAIN next.verdicts :
          i \notin DOMAIN row.verdicts => next.verdicts[i].check \notin Checked(row)
    /\ row.state # "proposed" => next.state = row.state

RecordKept == \A c \in Candidates : Grows(candidate[c], candidate'[c])

DraftsKept ==
    \A d \in DOMAIN draft :
        /\ d \in DOMAIN draft' /\ draft'[d].of = draft[d].of
        /\ draft[d].state = "submitted" => draft'[d].state = "submitted"

\* A record that began with one that passes, and has no check twice, passes.
LEMMA PassesOn ==
    ASSUME NEW row \in Row, NEW next \in Row, IsPrefix(row.verdicts, next.verdicts),
           OneEach(next), Passes(row)
    PROVE  Passes(next)
  <1> DEFINE old == row.verdicts
             new == next.verdicts
  <1>1. /\ old \in Seq(Verdict) /\ new \in Seq(Verdict)
        /\ DOMAIN old = 1..Len(old) /\ DOMAIN new = 1..Len(new) /\ Len(old) \in Nat /\ Len(new) \in Nat
    BY DEF Row
  <1>2. Len(old) <= Len(new) /\ \A i \in 1..Len(old) : old[i] = new[i]
    BY <1>1, PrefixElements
  <1>3. \A i \in DOMAIN old : i \in DOMAIN new /\ new[i] = old[i]
    BY <1>1, <1>2
  <1>4. BlockingPrechecks \subseteq Checked(next)
    BY <1>3 DEF Passes, Checked
  <1>5. ASSUME NEW b \in BlockingPrechecks, NEW i \in DOMAIN new, new[i] = [check |-> b, outcome |-> "fail"]
        PROVE  FALSE
    <2>1. PICK j \in DOMAIN old : old[j].check = b
      BY DEF Passes, Checked
    <2>2. j = i
      BY <1>3, <1>5, <2>1 DEF OneEach
    <2> QED
      BY <1>3, <1>5, <2>1, <2>2 DEF Passes, FailedBlockingChecks
  <1> QED
    BY <1>4, <1>5 DEF Passes, FailedBlockingChecks

LEMMA RowGrows == ASSUME NEW row \in Row PROVE Grows(row, row)
  BY PrefixIsReflexive DEF Grows, Row

\* A longer record without a check twice has gained verdicts of others only.
LEMMA VerdictsGrow ==
    ASSUME NEW row \in Row, NEW next \in Row, IsPrefix(row.verdicts, next.verdicts), OneEach(next),
           row.state # "proposed" => next.state = row.state
    PROVE  Grows(row, next)
  <1> DEFINE old == row.verdicts
             new == next.verdicts
  <1>1. /\ old \in Seq(Verdict) /\ new \in Seq(Verdict)
        /\ DOMAIN old = 1..Len(old) /\ DOMAIN new = 1..Len(new) /\ Len(old) \in Nat /\ Len(new) \in Nat
    BY DEF Row
  <1>2. Len(old) <= Len(new) /\ \A i \in 1..Len(old) : old[i] = new[i]
    BY <1>1, PrefixElements
  <1>3. \A i \in DOMAIN old : i \in DOMAIN new /\ new[i] = old[i]
    BY <1>1, <1>2
  <1> QED
    BY <1>3 DEF Grows, OneEach, Checked

LEMMA CandidateStays ==
    ASSUME CandidatesIInv, candidate' = candidate PROVE RecordKept
  BY RowGrows DEF CandidatesIInv, Stored, RecordKept

LEMMA DraftsStay == ASSUME draft' = draft PROVE DraftsKept
  BY DEF DraftsKept

\* What is accepted passes on, and what has been announced stays true.
LEMMA AcceptedPassesOn ==
    ASSUME CandidatesIInv, Stored', RecordKept, NEW c \in Candidates, candidate[c].state = "accepted"
    PROVE  Passes(candidate'[c]) /\ candidate'[c].state = "accepted"
  <1>1. /\ candidate[c] \in Row /\ candidate'[c] \in Row /\ OneEach(candidate'[c])
        /\ Passes(candidate[c]) /\ Grows(candidate[c], candidate'[c])
    BY DEF CandidatesIInv, Stored, AcceptedWasChecked, RecordKept, Passes, OneEach
  <1> QED
    BY <1>1, PassesOn DEF Grows

LEMMA AnnouncementsStay ==
    ASSUME CandidatesIInv, Stored', RecordKept, DraftsKept
    PROVE  \A c \in Candidates, d \in 0..MaxDrafts :
              /\ <<c, "rejected", d>> \in announced => candidate'[c].state = "rejected"
              /\ <<c, "accepted", d>> \in announced =>
                    /\ candidate'[c].state = "accepted"
                    /\ d \in DOMAIN draft' /\ draft'[d] = [of |-> c, state |-> "submitted"]
  <1> SUFFICES ASSUME NEW c \in Candidates, NEW d \in 0..MaxDrafts
               PROVE  /\ <<c, "rejected", d>> \in announced => candidate'[c].state = "rejected"
                      /\ <<c, "accepted", d>> \in announced =>
                            /\ candidate'[c].state = "accepted"
                            /\ d \in DOMAIN draft' /\ draft'[d] = [of |-> c, state |-> "submitted"]
    OBVIOUS
  <1>1. <<c, "rejected", d>> \in announced => candidate'[c].state = "rejected"
    BY DEF CandidatesIInv, AnnouncedAsDecided, RecordKept, Grows
  <1>2. ASSUME <<c, "accepted", d>> \in announced
        PROVE  /\ candidate'[c].state = "accepted"
               /\ d \in DOMAIN draft' /\ draft'[d] = [of |-> c, state |-> "submitted"]
    <2>1. /\ candidate[c].state = "accepted" /\ d \in DOMAIN draft
          /\ draft[d] = [of |-> c, state |-> "submitted"]
      BY <1>2 DEF CandidatesIInv, AnnouncedAsDecided
    <2>2. d \in DOMAIN draft' /\ draft'[d].of = c /\ draft'[d].state = "submitted"
      BY <2>1 DEF DraftsKept
    <2>3. draft'[d] \in Draft
      BY <2>2 DEF Stored
    <2>4. draft'[d] = [of |-> c, state |-> "submitted"]
      BY <2>2, <2>3 DEF Draft
    <2> QED
      BY <2>1, <2>2, <2>4 DEF RecordKept, Grows
  <1> QED
    BY <1>1, <1>2

\* What a command holds stays sound whatever others commit.
LEMMA SoundStays ==
    ASSUME CandidatesIInv, Stored', RecordKept, DraftsKept, NEW w \in Command, HoldsSoundly(w)
    PROVE  HoldsSoundly(w)'
  <1> SUFFICES ASSUME w.at # "idle" PROVE HoldsSoundly(w)'
    BY DEF HoldsSoundly
  <1>1. PICK c \in Candidates : c = w.of
    BY DEF HoldsSoundly
  <1>2. /\ candidate[c] \in Row /\ candidate'[c] \in Row /\ Grows(candidate[c], candidate'[c])
        /\ w.loaded \in Row
    BY DEF CandidatesIInv, Stored, RecordKept, Command
  <1>3. IsPrefix(w.loaded.verdicts, candidate[c].verdicts) => IsPrefix(w.loaded.verdicts, candidate'[c].verdicts)
    <2>1. /\ candidate[c].verdicts \in Seq(Verdict) /\ candidate'[c].verdicts \in Seq(Verdict)
          /\ w.loaded.verdicts \in Seq(Verdict)
      BY <1>2 DEF Row
    <2> QED
      BY <1>2, <2>1, PrefixIsTransitive DEF Grows
  <1>4. w.seen.state # "proposed" /\ candidate[c].state = w.seen.state => candidate'[c].state = w.seen.state
    BY <1>2 DEF Grows
  <1>5. ASSUME w.made \in DOMAIN draft, draft[w.made] = [of |-> c, state |-> "submitted"]
        PROVE  w.made \in DOMAIN draft' /\ draft'[w.made] = [of |-> c, state |-> "submitted"]
    <2>1. w.made \in DOMAIN draft' /\ draft'[w.made].of = c /\ draft'[w.made].state = "submitted"
      BY <1>5 DEF DraftsKept
    <2>2. draft'[w.made] \in Draft
      BY <2>1 DEF Stored
    <2> QED
      BY <2>1, <2>2 DEF Draft
  <1>6. w.made \in DOMAIN draft /\ draft[w.made].of = c => w.made \in DOMAIN draft' /\ draft'[w.made].of = c
    BY DEF DraftsKept
  <1> QED
    BY <1>1, <1>3, <1>4, <1>5, <1>6 DEF HoldsSoundly, OneEach, Passes, FailedBlockingChecks, Checked

\* One command steps; what it goes on with is sound.
LEMMA CommandSteps ==
    ASSUME CandidatesIInv, NEW h \in Handlers, NEW does \in Command, Handles(h, does),
           candidate' \in [Candidates -> Row], \A c \in Candidates : OneEach(candidate'[c]),
           draft' \in Seq(Draft), RecordKept, DraftsKept, HoldsSoundly(does)'
    PROVE  Stored' /\ \A p \in Handlers : HoldsSoundly(handling[p])'
  <1>1. \A p \in Handlers : handling'[p] = IF p = h THEN does ELSE handling[p]
    BY DEF CandidatesIInv, Stored, Handles
  <1>2. Stored'
    <2>1. \A c \in Candidates : OneEach(candidate[c])'
      BY DEF OneEach
    <2> QED
      BY <2>1 DEF CandidatesIInv, Stored, Handles
  <1>3. ASSUME NEW p \in Handlers PROVE HoldsSoundly(handling[p])'
    <2>1. PICK w : w = handling'[p]
      OBVIOUS
    <2>2. HoldsSoundly(w)'
      <3>1. CASE p = h
        BY <1>1, <2>1, <3>1
      <3>2. CASE p # h
        <4>1. w = handling[p] /\ w \in Command /\ HoldsSoundly(w)
          BY <1>1, <2>1, <3>2 DEF CandidatesIInv, Stored
        <4> QED
          BY <1>2, <4>1, SoundStays
      <3> QED
        BY <3>1, <3>2
    <2> QED
      BY <2>1, <2>2 DEF HoldsSoundly
  <1> QED
    BY <1>2, <1>3

\* A step of one command that leaves the candidates and what is announced alone.
LEMMA OneCommandSteps ==
    ASSUME CandidatesIInv, NEW h \in Handlers, NEW does \in Command, Handles(h, does),
           UNCHANGED <<candidate, announced>>, draft' \in Seq(Draft), DraftsKept, HoldsSoundly(does)'
    PROVE  CandidatesIInv' /\ RecordKept
  <1>1. RecordKept
    BY CandidateStays
  <1>2. Stored' /\ \A p \in Handlers : HoldsSoundly(handling[p])'
    BY <1>1, CommandSteps DEF CandidatesIInv, Stored
  <1>3. AcceptedWasChecked'
    BY DEF CandidatesIInv, AcceptedWasChecked, FailedBlockingChecks, Checked
  <1>4. AnnouncedAsDecided'
    BY <1>1, <1>2, AnnouncementsStay DEF AnnouncedAsDecided
  <1> QED
    BY <1>1, <1>2, <1>3, <1>4 DEF CandidatesIInv

\* And that leaves the drafts alone as well.
LEMMA CommandGoesOn ==
    ASSUME CandidatesIInv, NEW h \in Handlers, NEW does \in Command, Handles(h, does),
           UNCHANGED <<candidate, draft, announced>>, HoldsSoundly(does)
    PROVE  CandidatesIInv' /\ RecordKept
  <1>1. HoldsSoundly(does)'
    BY DEF HoldsSoundly, OneEach, Passes, FailedBlockingChecks, Checked
  <1>2. DraftsKept /\ draft' \in Seq(Draft)
    BY DraftsStay DEF CandidatesIInv, Stored
  <1> QED
    BY <1>1, <1>2, OneCommandSteps

LEMMA Resting == Nothing \in Command /\ HoldsSoundly(Nothing)
  <1>1. Proposed \in Row
    BY DEF Proposed, Row
  <1> QED
    BY <1>1 DEF Doing, Nothing, Command, HoldsSoundly

LEMMA InBattery == ASSUME NEW c \in Candidates PROVE Battery(c) \in Command /\ HoldsSoundly(Battery(c))
  <1>1. Proposed \in Row /\ Proposed.state = "proposed" /\ OneEach(Proposed)
    BY DEF Proposed, Row, OneEach
  <1>2. Battery(c) = [at |-> "battery", of |-> c, loaded |-> Proposed, seen |-> Proposed, made |-> 0]
    BY DEF Doing, Battery
  <1> QED
    BY <1>1, <1>2 DEF Command, HoldsSoundly

LEMMA InAcceptance ==
    ASSUME CandidatesIInv, NEW c \in Candidates, MayBeAccepted(candidate[c])
    PROVE  Accepting(c, candidate[c]) \in Command /\ HoldsSoundly(Accepting(c, candidate[c]))
  <1>1. /\ Proposed \in Row /\ candidate[c] \in Row /\ OneEach(candidate[c])
        /\ IsPrefix(candidate[c].verdicts, candidate[c].verdicts)
    BY PrefixIsReflexive DEF Proposed, Row, CandidatesIInv, Stored
  <1>2. Accepting(c, candidate[c]) =
            [at |-> "accepting", of |-> c, loaded |-> candidate[c], seen |-> Proposed, made |-> 0]
    BY DEF Doing, Accepting
  <1>3. candidate[c].state = "proposed" /\ Passes(candidate[c])
    BY DEF MayBeAccepted, Passes
  <1> QED
    BY <1>1, <1>2, <1>3 DEF Command, HoldsSoundly

\* A rejection is saved of what is stored.
LEMMA InRejection ==
    ASSUME CandidatesIInv, NEW c \in Candidates
    PROVE  LET does == Saving(c, [candidate[c] EXCEPT !.state = "rejected"], 0)
           IN  does \in Command /\ HoldsSoundly(does)
  <1> DEFINE row == [candidate[c] EXCEPT !.state = "rejected"]
  <1>1. Proposed \in Row /\ candidate[c] \in Row /\ OneEach(candidate[c])
    BY DEF Proposed, Row, CandidatesIInv, Stored
  <1>2. row \in Row /\ row.verdicts = candidate[c].verdicts /\ row.state = "rejected"
    BY <1>1 DEF Row
  <1> HIDE DEF row
  <1>3. IsPrefix(row.verdicts, candidate[c].verdicts) /\ OneEach(row)
    BY <1>1, <1>2, PrefixIsReflexive DEF OneEach, Row
  <1>4. Saving(c, row, 0) \in Command /\ HoldsSoundly(Saving(c, row, 0))
    BY <1>1, <1>2, <1>3 DEF Doing, Saving, Command, HoldsSoundly
  <1> QED
    BY <1>4 DEF row

LEMMA CommandIsOver ==
    ASSUME CandidatesIInv, NEW h \in Handlers, Rests(h), UNCHANGED <<candidate, draft, announced>>
    PROVE  CandidatesIInv' /\ RecordKept
  BY Resting, CommandGoesOn DEF Rests

\* Of whom a command at work is.
LEMMA AtWork ==
    ASSUME CandidatesIInv, NEW h \in Handlers, handling[h].at # "idle"
    PROVE  handling[h] \in Command /\ HoldsSoundly(handling[h]) /\ handling[h].of \in Candidates
  BY DEF CandidatesIInv, Stored, HoldsSoundly

LEMMA BatteryBeginsStep ==
    ASSUME CandidatesIInv, NEW h \in Handlers, NEW c \in Candidates, BatteryBegins(h, c)
    PROVE  CandidatesIInv' /\ RecordKept
  BY InBattery, CommandGoesOn DEF BatteryBegins

LEMMA OperatorAcceptsStep ==
    ASSUME CandidatesIInv, NEW h \in Handlers, NEW c \in Candidates, OperatorAccepts(h, c)
    PROVE  CandidatesIInv' /\ RecordKept
  <1>1. PICK does : does = Accepting(c, candidate[c])
    OBVIOUS
  <1>2. does \in Command /\ HoldsSoundly(does)
    BY <1>1, InAcceptance DEF OperatorAccepts
  <1> QED
    BY <1>1, <1>2, CommandGoesOn DEF OperatorAccepts

LEMMA OperatorRejectsStep ==
    ASSUME CandidatesIInv, NEW h \in Handlers, NEW c \in Candidates, OperatorRejects(h, c)
    PROVE  CandidatesIInv' /\ RecordKept
  <1>1. PICK does : does = Saving(c, [candidate[c] EXCEPT !.state = "rejected"], 0)
    OBVIOUS
  <1>2. does \in Command /\ HoldsSoundly(does)
    BY <1>1, InRejection
  <1> QED
    BY <1>1, <1>2, CommandGoesOn DEF OperatorRejects

LEMMA BatteryDisposesStep ==
    ASSUME CandidatesIInv, NEW h \in Handlers, BatteryDisposes(h)
    PROVE  CandidatesIInv' /\ RecordKept
  <1>1. PICK c \in Candidates : c = handling[h].of
    BY AtWork DEF BatteryDisposes
  <1>2. PICK does : /\ Handles(h, does)
                    /\ \/ does = Accepting(c, candidate[c]) /\ DispositionOf(candidate[c]) = "accept"
                       \/ does = Saving(c, [candidate[c] EXCEPT !.state = "rejected"], 0)
                       \/ does = Nothing
    BY <1>1 DEF BatteryDisposes
  <1>3. DispositionOf(candidate[c]) = "accept" => MayBeAccepted(candidate[c])
    BY DEF DispositionOf, MayBeAccepted
  <1>4. does \in Command /\ HoldsSoundly(does)
    BY <1>2, <1>3, InAcceptance, InRejection, Resting
  <1> QED
    BY <1>2, <1>4, CommandGoesOn DEF BatteryDisposes

LEMMA BatteryRecordsStep ==
    ASSUME CandidatesIInv, NEW h \in Handlers, BatteryRecords(h)
    PROVE  CandidatesIInv' /\ RecordKept
  <1>1. PICK c \in Candidates : c = handling[h].of
    BY AtWork DEF BatteryRecords
  <1>2. PICK k \in PrecheckIds \ Checked(candidate[c]), o \in {"pass", "fail"} :
            Handles(h, Saving(c, [candidate[c] EXCEPT !.verdicts = Append(@, [check |-> k, outcome |-> o])], 0))
    BY <1>1 DEF BatteryRecords
  <1> DEFINE verdict == [check |-> k, outcome |-> o]
             old == candidate[c].verdicts
             longer == Append(old, verdict)
  <1>3. PICK row : row = [candidate[c] EXCEPT !.verdicts = longer]
    OBVIOUS
  <1>4. /\ candidate[c] \in Row /\ old \in Seq(Verdict) /\ verdict \in Verdict /\ verdict.check = k
        /\ OneEach(candidate[c]) /\ candidate[c].state = "proposed" /\ Proposed \in Row
    <2>1. candidate[c] \in Row /\ OneEach(candidate[c])
      BY DEF CandidatesIInv, Stored
    <2>2. old \in Seq(Verdict) /\ Proposed \in Row
      BY <2>1 DEF Row, Proposed
    <2> QED
      BY <1>1, <2>1, <2>2 DEF Verdict, BatteryRecords
  <1> HIDE DEF verdict
  <1>5. /\ longer \in Seq(Verdict) /\ DOMAIN longer = 1..(Len(old) + 1) /\ DOMAIN old = 1..Len(old)
        /\ longer[Len(old) + 1] = verdict /\ \A i \in DOMAIN old : longer[i] = old[i]
        /\ Len(old) \in Nat
    BY <1>4
  <1> HIDE DEF longer
  <1>6. row \in Row /\ row.verdicts = longer /\ row.state = "proposed"
    BY <1>3, <1>4, <1>5 DEF Row
  <1>7. OneEach(row)
    <2>1. \A i \in DOMAIN longer : i \in DOMAIN old \/ i = Len(old) + 1
      BY <1>5
    <2>2. \A i \in DOMAIN old : old[i].check # k
      BY <1>2 DEF Checked
    <2> QED
      BY <1>4, <1>5, <1>6, <2>1, <2>2 DEF OneEach
  <1>8. PICK does : does = Saving(c, row, 0)
    OBVIOUS
  <1>9. does \in Command /\ HoldsSoundly(does)
    BY <1>4, <1>6, <1>7, <1>8 DEF Doing, Saving, Command, HoldsSoundly
  <1> QED
    BY <1>2, <1>3, <1>8, <1>9, CommandGoesOn DEF BatteryRecords, longer, verdict

LEMMA DraftIsCreatedStep ==
    ASSUME CandidatesIInv, NEW h \in Handlers, DraftIsCreated(h)
    PROVE  CandidatesIInv' /\ RecordKept
  <1> DEFINE new == [of |-> handling[h].of, state |-> "draft"]
  <1>1. PICK w : w = handling[h]
    OBVIOUS
  <1>2. w \in Command /\ HoldsSoundly(w) /\ w.of \in Candidates /\ w.at = "accepting"
    BY <1>1, AtWork DEF DraftIsCreated
  <1>3. PICK drafted : drafted = Len(draft) + 1
    OBVIOUS
  <1>4. PICK does : does = [w EXCEPT !.at = "submitting", !.made = drafted]
    OBVIOUS
  <1>5. /\ draft' = Append(draft, new) /\ draft \in Seq(Draft) /\ new \in Draft /\ new.of = w.of
        /\ Handles(h, does) /\ UNCHANGED <<candidate, announced>>
    BY <1>1, <1>2, <1>3, <1>4 DEF DraftIsCreated, CandidatesIInv, Stored, Draft
  <1> HIDE DEF new
  <1>6. /\ draft' \in Seq(Draft) /\ drafted \in DOMAIN draft' /\ drafted \in Nat
        /\ draft'[drafted] = new /\ \A d \in DOMAIN draft : d \in DOMAIN draft' /\ draft'[d] = draft[d]
    BY <1>3, <1>5
  <1>7. DraftsKept
    BY <1>6 DEF DraftsKept
  <1>8. /\ does \in Command /\ does.at = "submitting" /\ does.of = w.of /\ does.loaded = w.loaded
        /\ does.made = drafted
    BY <1>2, <1>4, <1>6 DEF Command
  <1>9. HoldsSoundly(does)'
    BY <1>2, <1>5, <1>6, <1>8 DEF HoldsSoundly, OneEach, Passes, FailedBlockingChecks, Checked
  <1> QED
    BY <1>5, <1>6, <1>7, <1>8, <1>9, OneCommandSteps

LEMMA DraftIsSubmittedStep ==
    ASSUME CandidatesIInv, NEW h \in Handlers, DraftIsSubmitted(h)
    PROVE  CandidatesIInv' /\ RecordKept
  <1>1. PICK w : w = handling[h]
    OBVIOUS
  <1>2. w \in Command /\ HoldsSoundly(w) /\ w.of \in Candidates /\ w.at = "submitting"
    BY <1>1, AtWork DEF DraftIsSubmitted
  <1>3. PICK row : row = [w.loaded EXCEPT !.state = "accepted"]
    OBVIOUS
  <1>4. PICK does : does = Saving(w.of, row, w.made)
    OBVIOUS
  <1>5. /\ draft' = [draft EXCEPT ![w.made].state = "submitted"] /\ draft \in Seq(Draft)
        /\ Handles(h, does) /\ UNCHANGED <<candidate, announced>>
    BY <1>1, <1>3, <1>4 DEF DraftIsSubmitted, CandidatesIInv, Stored
  <1>6. w.made \in DOMAIN draft /\ draft[w.made] \in Draft /\ draft[w.made].of = w.of
    BY <1>2, <1>5 DEF HoldsSoundly
  <1>7. [draft[w.made] EXCEPT !.state = "submitted"] = [of |-> w.of, state |-> "submitted"]
    BY <1>6 DEF Draft
  <1>8. /\ draft' \in Seq(Draft) /\ DOMAIN draft' = DOMAIN draft
        /\ draft'[w.made] = [of |-> w.of, state |-> "submitted"]
        /\ \A d \in DOMAIN draft : d # w.made => draft'[d] = draft[d]
    <2>1. [of |-> w.of, state |-> "submitted"] \in Draft
      BY <1>2 DEF Draft
    <2> QED
      BY <1>5, <1>6, <1>7, <2>1
  <1>9. DraftsKept
    BY <1>6, <1>8 DEF DraftsKept
  <1>10. /\ row \in Row /\ row.verdicts = w.loaded.verdicts /\ row.state = "accepted" /\ Proposed \in Row
    BY <1>2, <1>3 DEF Command, Row, Proposed
  <1>11. /\ does \in Command /\ does.at = "saves" /\ does.of = w.of /\ does.loaded = row /\ does.made = w.made
    BY <1>2, <1>4, <1>10 DEF Doing, Saving, Command
  <1>12. OneEach(row) /\ Passes(row) /\ IsPrefix(row.verdicts, candidate[w.of].verdicts)
    BY <1>2, <1>10 DEF HoldsSoundly, OneEach, Passes, FailedBlockingChecks, Checked
  <1>13. HoldsSoundly(does)'
    BY <1>2, <1>5, <1>6, <1>8, <1>10, <1>11, <1>12
       DEF HoldsSoundly, OneEach, Passes, FailedBlockingChecks, Checked
  <1> QED
    BY <1>5, <1>8, <1>9, <1>11, <1>13, OneCommandSteps

LEMMA SaveComparesVerdictsStep ==
    ASSUME CandidatesIInv, NEW h \in Handlers, SaveComparesVerdicts(h)
    PROVE  CandidatesIInv' /\ RecordKept
  <1>1. PICK w : w = handling[h]
    OBVIOUS
  <1>2. w \in Command /\ HoldsSoundly(w) /\ w.of \in Candidates /\ w.at = "saves"
    BY <1>1, AtWork DEF SaveComparesVerdicts
  <1>3. PICK row : row = [verdicts |-> candidate[w.of].verdicts, state |-> "proposed"]
    OBVIOUS
  <1>4. PICK does : does = [w EXCEPT !.at = "compared", !.seen = row]
    OBVIOUS
  <1>5. row \in Row /\ IsPrefix(row.verdicts, w.loaded.verdicts)
    BY <1>1, <1>2, <1>3 DEF CandidatesIInv, Stored, Row, SaveComparesVerdicts
  <1>6. /\ does \in Command /\ does.at = "compared" /\ does.of = w.of /\ does.loaded = w.loaded
        /\ does.made = w.made /\ does.seen = row
    BY <1>2, <1>4, <1>5 DEF Command
  <1>7. HoldsSoundly(does)
    BY <1>2, <1>5, <1>6 DEF HoldsSoundly
  <1> QED
    BY <1>1, <1>3, <1>4, <1>6, <1>7, CommandGoesOn DEF SaveComparesVerdicts

LEMMA SaveComparesDecisionStep ==
    ASSUME CandidatesIInv, NEW h \in Handlers, SaveComparesDecision(h)
    PROVE  CandidatesIInv' /\ RecordKept
  <1>1. PICK w : w = handling[h]
    OBVIOUS
  <1>2. w \in Command /\ HoldsSoundly(w) /\ w.of \in Candidates /\ w.at = "compared"
    BY <1>1, AtWork DEF SaveComparesDecision
  <1>3. PICK row : row = [verdicts |-> w.seen.verdicts, state |-> candidate[w.of].state]
    OBVIOUS
  <1>4. PICK does : does = [w EXCEPT !.at = "agreed", !.seen = row]
    OBVIOUS
  <1>5. /\ row \in Row /\ row.verdicts = w.seen.verdicts /\ row.state = candidate[w.of].state
        /\ row.state \in {"proposed", w.loaded.state}
    BY <1>1, <1>2, <1>3 DEF CandidatesIInv, Stored, Row, Command, SaveComparesDecision
  <1>6. /\ does \in Command /\ does.at = "agreed" /\ does.of = w.of /\ does.loaded = w.loaded
        /\ does.made = w.made /\ does.seen = row
    BY <1>2, <1>4, <1>5 DEF Command
  <1>7. HoldsSoundly(does)
    BY <1>2, <1>5, <1>6 DEF HoldsSoundly
  <1> QED
    BY <1>1, <1>3, <1>4, <1>6, <1>7, CommandGoesOn DEF SaveComparesDecision

LEMMA SaveCommitsStep ==
    ASSUME CandidatesIInv, NEW h \in Handlers, SaveCommits(h)
    PROVE  CandidatesIInv' /\ RecordKept
  <1>1. PICK w : w = handling[h]
    OBVIOUS
  <1>2. w \in Command /\ HoldsSoundly(w) /\ w.at = "agreed"
    BY <1>1, AtWork DEF SaveCommits
  <1>3. PICK c \in Candidates : c = w.of
    BY <1>2 DEF HoldsSoundly
  <1>4. PICK now : now = candidate[c]
    OBVIOUS
  <1>5. PICK next : next = [verdicts |-> IF w.loaded.verdicts # w.seen.verdicts THEN w.loaded.verdicts ELSE now.verdicts,
                            state |-> IF w.loaded.state # w.seen.state THEN w.loaded.state ELSE now.state]
    OBVIOUS
  <1>6. KeysAreFree(now, w) /\ candidate' = [candidate EXCEPT ![c] = next] /\ draft' = draft
    BY <1>1, <1>3, <1>4, <1>5 DEF SaveCommits
  <1>7. /\ now \in Row /\ OneEach(now) /\ w.loaded \in Row /\ w.seen \in Row /\ OneEach(w.loaded)
        /\ IsPrefix(w.seen.verdicts, w.loaded.verdicts)
    BY <1>2, <1>3, <1>4 DEF CandidatesIInv, Stored, HoldsSoundly, Command
  <1>8. /\ next.verdicts = IF w.loaded.verdicts # w.seen.verdicts THEN w.loaded.verdicts ELSE now.verdicts
        /\ next.state = IF w.loaded.state # w.seen.state THEN w.loaded.state ELSE now.state
        /\ next \in Row
    BY <1>5, <1>7 DEF Row
  <1>9. IsPrefix(now.verdicts, next.verdicts) /\ OneEach(next)
    <2>1. CASE w.loaded.verdicts # w.seen.verdicts
      BY <1>6, <1>7, <1>8, <2>1 DEF KeysAreFree, OneEach
    <2>2. CASE w.loaded.verdicts = w.seen.verdicts
      BY <1>7, <1>8, <2>2, PrefixIsReflexive DEF OneEach, Row
    <2> QED
      BY <2>1, <2>2
  <1>10. /\ now.state # "proposed" => next.state = now.state
         /\ w.loaded.state # "proposed" => next.state = w.loaded.state
         /\ w.loaded.state = "proposed" => next.state = now.state
    BY <1>2, <1>3, <1>4, <1>6, <1>8 DEF HoldsSoundly, KeysAreFree
  <1>11. Grows(now, next)
    BY <1>7, <1>8, <1>9, <1>10, VerdictsGrow
  <1>12. /\ candidate' \in [Candidates -> Row] /\ candidate'[c] = next
         /\ \A b \in Candidates : b # c => candidate'[b] = candidate[b]
    BY <1>6, <1>8 DEF CandidatesIInv, Stored
  <1>13. RecordKept
    BY <1>4, <1>11, <1>12, RowGrows DEF RecordKept, CandidatesIInv, Stored
  <1>14. \A b \in Candidates : OneEach(candidate'[b])
    BY <1>9, <1>12 DEF CandidatesIInv, Stored
  <1>15. PICK does : /\ Handles(h, does)
                     /\ \/ does = Battery(c) /\ w.loaded.state = "proposed" /\ announced' = announced
                        \/ /\ does = Nothing /\ w.loaded.state # "proposed"
                           /\ announced' = announced \cup {<<c, w.loaded.state, w.made>>}
    BY <1>1, <1>3 DEF SaveCommits, Rests
  <1>16. does \in Command /\ HoldsSoundly(does)'
    <2>1. CASE does = Battery(c)
      <3>1. does \in Command /\ does.at = "battery" /\ does.of = c /\ does.loaded = Proposed
        BY <2>1, InBattery DEF Doing, Battery
      <3>2. Proposed.state = "proposed" /\ OneEach(Proposed)
        BY DEF Proposed, OneEach
      <3> QED
        BY <3>1, <3>2 DEF HoldsSoundly, OneEach, Proposed
    <2>2. CASE does = Nothing
      BY <2>2, Resting DEF HoldsSoundly, Nothing, Doing
    <2> QED
      BY <1>15, <2>1, <2>2
  <1>17. DraftsKept /\ draft' \in Seq(Draft)
    BY <1>6, DraftsStay DEF CandidatesIInv, Stored
  <1>18. Stored' /\ \A p \in Handlers : HoldsSoundly(handling[p])'
    BY <1>12, <1>13, <1>14, <1>15, <1>16, <1>17, CommandSteps
  <1>19. w.loaded.state = "accepted" => Passes(next)
    <2>1. w.loaded.state = "accepted" => IsPrefix(w.loaded.verdicts, now.verdicts) /\ Passes(w.loaded)
      BY <1>2, <1>3, <1>4 DEF HoldsSoundly
    <2>2. /\ w.loaded.verdicts \in Seq(Verdict) /\ now.verdicts \in Seq(Verdict)
          /\ next.verdicts \in Seq(Verdict)
      BY <1>7, <1>8 DEF Row
    <2> QED
      BY <1>7, <1>8, <1>9, <2>1, <2>2, PrefixIsTransitive, PassesOn
  <1>20. AcceptedWasChecked'
    <2>1. ASSUME NEW b \in Candidates, candidate'[b].state = "accepted" PROVE Passes(candidate'[b])
      <3>1. CASE candidate[b].state = "accepted"
        BY <1>13, <1>18, <3>1, AcceptedPassesOn
      <3>2. CASE candidate[b].state # "accepted"
        <4>1. b = c
          BY <1>12, <2>1, <3>2
        <4>2. w.loaded.state = "accepted"
          <5>1. next.state = "accepted" /\ now.state # "accepted"
            BY <1>4, <1>12, <2>1, <3>2, <4>1
          <5> QED
            BY <1>10, <5>1
        <4> QED
          BY <1>12, <1>19, <4>1, <4>2
      <3> QED
        BY <3>1, <3>2
    <2> QED
      BY <2>1 DEF AcceptedWasChecked, Passes, FailedBlockingChecks, Checked
  <1>21. AnnouncedAsDecided'
    <2>1. w.loaded.state = "accepted" => w.made \in DOMAIN draft' /\ draft'[w.made] = [of |-> c, state |-> "submitted"]
      BY <1>2, <1>3, <1>6 DEF HoldsSoundly
    <2>2. w.loaded.state # "proposed" => candidate'[c].state = w.loaded.state
      BY <1>10, <1>12
    <2>3. \A b \in Candidates, d \in 0..MaxDrafts :
              /\ <<b, "rejected", d>> \in announced => candidate'[b].state = "rejected"
              /\ <<b, "accepted", d>> \in announced =>
                    /\ candidate'[b].state = "accepted"
                    /\ d \in DOMAIN draft' /\ draft'[d] = [of |-> b, state |-> "submitted"]
      BY <1>13, <1>17, <1>18, AnnouncementsStay
    <2>4. CASE announced' = announced
      BY <2>3, <2>4 DEF AnnouncedAsDecided
    <2>5. CASE w.loaded.state # "proposed" /\ announced' = announced \cup {<<c, w.loaded.state, w.made>>}
      <3>1. ASSUME NEW b \in Candidates, NEW d \in 0..MaxDrafts, NEW decision,
                   <<b, decision, d>> \in announced', <<b, decision, d>> \notin announced
            PROVE  b = c /\ decision = w.loaded.state /\ d = w.made
        BY <2>5, <3>1
      <3> QED
        BY <2>1, <2>2, <2>3, <2>5, <3>1 DEF AnnouncedAsDecided
    <2> QED
      BY <1>15, <2>4, <2>5
  <1> QED
    BY <1>13, <1>18, <1>20, <1>21 DEF CandidatesIInv

LEMMA CandidatesStep ==
    CandidatesIInv /\ [CandidatesNext]_candidateVars => CandidatesIInv' /\ RecordKept
  <1> SUFFICES ASSUME CandidatesIInv, [CandidatesNext]_candidateVars
               PROVE  CandidatesIInv' /\ RecordKept
    OBVIOUS
  <1>1. CASE UNCHANGED candidateVars
    <2>1. Stored' /\ AnnouncedAsDecided' /\ AcceptedWasChecked'
      BY <1>1 DEF candidateVars, CandidatesIInv, Stored, AnnouncedAsDecided, AcceptedWasChecked,
         OneEach, FailedBlockingChecks, Checked
    <2>2. ASSUME NEW h \in Handlers PROVE HoldsSoundly(handling[h])'
      BY <1>1 DEF candidateVars, CandidatesIInv, HoldsSoundly, OneEach, Passes, FailedBlockingChecks, Checked
    <2> QED
      BY <1>1, <2>1, <2>2, CandidateStays DEF candidateVars, CandidatesIInv
  <1>2. ASSUME NEW h \in Handlers,
               \/ BatteryRecords(h) \/ BatteryDisposes(h)
               \/ DraftIsCreated(h) \/ DraftIsSubmitted(h)
               \/ SaveComparesVerdicts(h) \/ SaveComparesDecision(h) \/ SaveCommits(h)
        PROVE  CandidatesIInv' /\ RecordKept
    BY <1>2, BatteryRecordsStep, BatteryDisposesStep, DraftIsCreatedStep, DraftIsSubmittedStep,
       SaveComparesVerdictsStep, SaveComparesDecisionStep, SaveCommitsStep
  <1>3. ASSUME NEW h \in Handlers, HandlingFails(h) PROVE CandidatesIInv' /\ RecordKept
    BY <1>3, CommandIsOver DEF HandlingFails
  <1>4. ASSUME NEW h \in Handlers, VerdictIsRefused(h) PROVE CandidatesIInv' /\ RecordKept
    <2>1. PICK c \in Candidates : c = handling[h].of
      BY <1>4, AtWork DEF VerdictIsRefused
    <2> QED
      BY <1>4, <2>1, InBattery, CommandGoesOn DEF VerdictIsRefused
  <1>5. ASSUME NEW h \in Handlers, NEW c \in Candidates,
               BatteryBegins(h, c) \/ OperatorAccepts(h, c) \/ OperatorRejects(h, c)
        PROVE  CandidatesIInv' /\ RecordKept
    BY <1>5, BatteryBeginsStep, OperatorAcceptsStep, OperatorRejectsStep
  <1> QED
    BY <1>1, <1>2, <1>3, <1>4, <1>5 DEF CandidatesNext

\* The strengthening, with the types of what is stored.
THEOREM CandidatesInvariant == CandidatesSpec => []CandidatesIInv
  BY CandidatesInitInv, CandidatesStep, PTL DEF CandidatesSpec

\* For any number of checks and commands, what is accepted has passed every
\* blocking check, although a save locks nothing it has compared: verdicts are only
\* added, one of each check, so no later one can fail what has passed.
THEOREM AcceptedWasCheckedAlways == CandidatesSpec => []AcceptedWasChecked
  <1>1. CandidatesIInv => AcceptedWasChecked
    BY DEF CandidatesIInv
  <1> QED
    BY <1>1, CandidatesInvariant, PTL

\* Every announcement names the decision that stands and, of an acceptance, a
\* draft of that candidate that was submitted for review.
THEOREM AnnouncedAsDecidedAlways == CandidatesSpec => []AnnouncedAsDecided
  <1>1. CandidatesIInv => AnnouncedAsDecided
    BY DEF CandidatesIInv
  <1> QED
    BY <1>1, CandidatesInvariant, PTL

\* For any number of commands between the statements of whose saves others commit,
\* no step changes a verdict, gives a check a second one, or changes a decision.
THEOREM RecordStandsAlways == CandidatesSpec => RecordStands
  <1>1. CandidatesIInv /\ [CandidatesNext]_candidateVars =>
            [\A c \in Candidates :
                /\ IsPrefix(candidate[c].verdicts, candidate'[c].verdicts)
                /\ \A i \in DOMAIN candidate'[c].verdicts :
                      i \notin DOMAIN candidate[c].verdicts =>
                          candidate'[c].verdicts[i].check \notin Checked(candidate[c])
                /\ candidate[c].state # "proposed" => candidate'[c].state = candidate[c].state]_candidateVars
    BY CandidatesStep DEF RecordKept, Grows
  <1> QED
    BY <1>1, CandidatesInvariant, PTL DEF CandidatesSpec, RecordStands

-----------------------------------------------------------------------------
(* The sessions *)

Session == [state : {"none", "live", "ended"}, from : SessionIds \cup {NoSession}]
Transaction == [op : {"rest", "signs in", "limits", "rotates", "revokes"},
                mine : SessionIds \cup {NoSession}, old : SessionIds \cup {NoSession},
                ends : SUBSET SessionIds]

SessionsTypeOK ==
    /\ session \in [SessionIds -> Session] /\ made \in 0..MaxSessions
    /\ working \in [Commands -> Transaction]

Inserts(q) == working[q].op \in {"signs in", "limits", "rotates"}

\* What is numbered and not there belongs to one command at most.
NumbersAreOwned ==
    /\ \A s \in SessionIds : s > made => session[s].state = "none"
    /\ \A s \in SessionIds : session[s].state = "none" => session[s].from = NoSession
    /\ \A q \in Commands : Inserts(q) =>
          /\ working[q].mine \in 1..made /\ session[working[q].mine].state = "none"
          /\ \A p \in Commands : Inserts(p) /\ working[p].mine = working[q].mine => p = q

\* The row a rotation has locked stays as it was, and is locked once.
RotationsAreAlone ==
    \A q \in Commands : working[q].op = "rotates" =>
        /\ working[q].old \in SessionIds /\ session[working[q].old].state = "live"
        /\ \A t \in SessionIds : session[t].from # working[q].old
        /\ \A p \in Commands : working[p].op = "rotates" /\ working[p].old = working[q].old => p = q

\* What a statement is to end was there when it began, or is its own.
EndsWereThere ==
    \A q \in Commands : working[q].op \in {"limits", "revokes"} =>
        \A s \in working[q].ends :
            session[s].state = "none" => working[q].op = "limits" /\ s = working[q].mine

\* A sign-in that holds the user's row holds it alone, and ends what the limit
\* asks of sessions that are all there can be.
Beyond(seen) == {s \in seen : Cardinality({t \in seen : t > s}) >= MaxLive}

LimitIsKept ==
    \A q \in Commands : working[q].op = "limits" =>
        /\ \A p \in Commands : working[p].op = "limits" => p = q
        /\ \E seen \in SUBSET SessionIds :
              Live \cup {working[q].mine} \subseteq seen /\ working[q].ends = Beyond(seen)

SessionsIInv ==
    SessionsTypeOK /\ NumbersAreOwned /\ RotationsAreAlone /\ EndsWereThere /\ LimitIsKept
    /\ RotatedOnce /\ WithinDeviceLimit

-----------------------------------------------------------------------------
(* The newest sessions of a set *)

LEMMA HasOldest ==
    ASSUME NEW T \in SUBSET SessionIds, T # {}
    PROVE  \E x \in T : \A y \in T : y >= x
  <1>1. SessionIds \subseteq Nat
    BY SessionsAssumption DEF SessionIds
  <1>2. \E x \in T : \A y \in T : ~(<<y, x>> \in OpToRel(<, Nat))
    BY <1>1, NatLessThanWellFounded, WFMin
  <1>3. OpToRel(<, Nat) = {ss \in Nat \X Nat : ss[1] < ss[2]}
    BY DEF OpToRel
  <1>4. PICK x \in T : \A y \in T : <<y, x>> \notin {ss \in Nat \X Nat : ss[1] < ss[2]}
    BY <1>2, <1>3
  <1>5. \A y \in T : y \in Nat /\ x \in Nat /\ ~(y < x)
    BY <1>1, <1>4
  <1> QED
    BY <1>5

LEMMA SessionsAreFinite ==
    ASSUME NEW T \in SUBSET SessionIds
    PROVE  IsFiniteSet(T) /\ Cardinality(T) \in Nat
  <1>1. IsFiniteSet(SessionIds)
    BY SessionsAssumption, FS_Interval DEF SessionIds
  <1> QED
    BY <1>1, FS_Subset, FS_CardinalityType

\* Without those that as many as the limit are newer than, a set is within it:
\* if it were not, its oldest would be one of those.
LEMMA NewestAreWithinLimit ==
    ASSUME NEW seen \in SUBSET SessionIds
    PROVE  Cardinality(seen \ Beyond(seen)) <= MaxLive
  <1> DEFINE T == seen \ Beyond(seen)
  <1>1. Cardinality(T) \in Nat /\ IsFiniteSet(T) /\ MaxLive \in Nat
    BY SessionsAreFinite, SessionsAssumption
  <1>2. SUFFICES ASSUME ~(Cardinality(T) <= MaxLive) PROVE FALSE
    OBVIOUS
  <1>3. T # {}
    BY <1>1, <1>2, FS_EmptySet
  <1>4. PICK x \in T : \A y \in T : y >= x
    BY <1>3, HasOldest
  <1> DEFINE newer == {t \in seen : t > x}
  <1>5. IsFiniteSet(newer) /\ Cardinality(newer) \in Nat
    BY SessionsAreFinite
  <1>6. Cardinality(T \ {x}) = Cardinality(T) - 1
    BY <1>1, <1>4, FS_RemoveElement
  <1>7. T \ {x} \in SUBSET newer
    <2>1. \A y \in SessionIds : y \in Nat
      BY SessionsAssumption DEF SessionIds
    <2> QED
      BY <1>4, <2>1
  <1>8. Cardinality(T \ {x}) <= Cardinality(newer)
    BY <1>5, <1>7, FS_Subset
  <1>9. Cardinality(newer) >= MaxLive
    BY <1>1, <1>2, <1>5, <1>6, <1>8
  <1> QED
    BY <1>4, <1>9 DEF Beyond

LEMMA FewerAreWithinLimit ==
    ASSUME NEW S \in SUBSET SessionIds, NEW T \in SUBSET S, Cardinality(S) <= MaxLive
    PROVE  Cardinality(T) <= MaxLive
  <1>1. Cardinality(T) <= Cardinality(S) /\ Cardinality(T) \in Nat /\ Cardinality(S) \in Nat
    BY SessionsAreFinite, FS_Subset
  <1> QED
    BY <1>1, SessionsAssumption

-----------------------------------------------------------------------------
LEMMA SessionsInitInv == SessionsInit => SessionsIInv
  <1> SUFFICES ASSUME SessionsInit PROVE SessionsIInv
    OBVIOUS
  <1>1. NoSession \notin SessionIds
    BY DEF NoSession, SessionIds
  <1>2. AtRest \in Transaction /\ AtRest.op = "rest"
    BY DEF AtRest, Transaction
  <1>3. [state |-> "none", from |-> NoSession] \in Session
    BY DEF Session
  <1>4. SessionsTypeOK
    BY <1>2, <1>3, SessionsAssumption DEF SessionsInit, SessionsTypeOK
  <1>5. NumbersAreOwned /\ RotationsAreAlone /\ EndsWereThere /\ LimitIsKept
    BY <1>2 DEF SessionsInit, NumbersAreOwned, Inserts, RotationsAreAlone, EndsWereThere,
       LimitIsKept
  <1>6. RotatedOnce
    BY DEF SessionsInit, RotatedOnce
  <1>7. WithinDeviceLimit
    <2>1. Live = {}
      BY DEF SessionsInit, Live
    <2> QED
      BY <2>1, FS_EmptySet, SessionsAssumption DEF WithinDeviceLimit
  <1> QED
    BY <1>4, <1>5, <1>6, <1>7 DEF SessionsIInv

\* What a command has written down of its transaction.
LEMMA TransactionStep ==
    ASSUME SessionsTypeOK, NEW q \in Commands, NEW next \in Transaction,
           working' = [working EXCEPT ![q] = next]
    PROVE  /\ working' \in [Commands -> Transaction] /\ working'[q] = next
           /\ \A p \in Commands : p # q => working'[p] = working[p]
  BY DEF SessionsTypeOK

LEMMA TransactionEnds ==
    ASSUME SessionsTypeOK, NEW q \in Commands, Commits(q)
    PROVE  /\ working' \in [Commands -> Transaction] /\ working'[q] = AtRest
           /\ working'[q].op = "rest"
           /\ \A p \in Commands : p # q => working'[p] = working[p]
  <1>1. AtRest \in Transaction /\ AtRest.op = "rest"
    BY DEF AtRest, Transaction
  <1> QED
    BY <1>1, TransactionStep DEF Commits

\* Nothing of the sessions moves: they are as they were.
LEMMA SessionsStay ==
    ASSUME SessionsIInv, session' = session
    PROVE  RotatedOnce' /\ WithinDeviceLimit' /\ Live' = Live
  BY DEF SessionsIInv, RotatedOnce, WithinDeviceLimit, Live

\* Every number keeps its owner, or its owner lets it go.
LEMMA NumbersStay ==
    ASSUME SessionsIInv, NEW q \in Commands, session' = session, made' = made,
           \A p \in Commands : p # q => working'[p] = working[p],
           Inserts(q)' => Inserts(q) /\ working'[q].mine = working[q].mine
    PROVE  NumbersAreOwned'
  <1>1. \A p \in Commands : Inserts(p)' => Inserts(p) /\ working'[p].mine = working[p].mine
    BY DEF Inserts
  <1>2. ASSUME NEW p \in Commands, Inserts(p)'
        PROVE  /\ working'[p].mine \in 1..made' /\ session'[working'[p].mine].state = "none"
               /\ \A r \in Commands : Inserts(r)' /\ working'[r].mine = working'[p].mine => r = p
    <2>1. Inserts(p) /\ working'[p].mine = working[p].mine
      BY <1>1, <1>2
    <2>2. /\ working[p].mine \in 1..made /\ session[working[p].mine].state = "none"
          /\ \A r \in Commands : Inserts(r) /\ working[r].mine = working[p].mine => r = p
      BY <2>1 DEF SessionsIInv, NumbersAreOwned
    <2> QED
      BY <1>1, <2>1, <2>2
  <1>3. /\ \A s \in SessionIds : s > made => session[s].state = "none"
        /\ \A s \in SessionIds : session[s].state = "none" => session[s].from = NoSession
    BY DEF SessionsIInv, NumbersAreOwned
  <1> QED
    BY <1>2, <1>3 DEF NumbersAreOwned

\* A command takes the next number.
LEMMA NumberIsTaken ==
    ASSUME SessionsIInv, NEW q \in Commands, session' = session, made' = made + 1,
           made + 1 \in SessionIds, working'[q].mine = made + 1,
           \A p \in Commands : p # q => working'[p] = working[p]
    PROVE  NumbersAreOwned'
  <1>1. /\ \A s \in SessionIds : s > made => session[s].state = "none"
        /\ \A s \in SessionIds : session[s].state = "none" => session[s].from = NoSession
        /\ made \in Nat /\ SessionIds \subseteq Nat
    BY SessionsAssumption DEF SessionsIInv, NumbersAreOwned, SessionsTypeOK, SessionIds
  <1>2. \A p \in Commands : p # q /\ Inserts(p)' =>
            /\ Inserts(p) /\ working'[p].mine = working[p].mine
            /\ working[p].mine \in 1..made /\ session[working[p].mine].state = "none"
    BY DEF SessionsIInv, NumbersAreOwned, Inserts
  <1>3. \A p \in Commands : p # q /\ Inserts(p)' => working'[p].mine # made + 1
    BY <1>1, <1>2
  <1>4. ASSUME NEW p \in Commands, Inserts(p)'
        PROVE  /\ working'[p].mine \in 1..made' /\ session'[working'[p].mine].state = "none"
               /\ \A r \in Commands : Inserts(r)' /\ working'[r].mine = working'[p].mine => r = p
    <2>1. CASE p = q
      <3>1. made + 1 \in 1..made' /\ session[made + 1].state = "none"
        BY <1>1
      <3> QED
        BY <1>3, <2>1, <3>1
    <2>2. CASE p # q
      <3>1. working'[p].mine \in 1..made' /\ session'[working'[p].mine].state = "none"
        BY <1>1, <1>2, <1>4, <2>2
      <3>2. \A r \in Commands : Inserts(r) /\ working[r].mine = working[p].mine => r = p
        BY <1>2, <1>4, <2>2 DEF SessionsIInv, NumbersAreOwned
      <3> QED
        BY <1>2, <1>3, <1>4, <2>2, <3>1, <3>2
    <2> QED
      BY <2>1, <2>2
  <1> QED
    BY <1>1, <1>4 DEF NumbersAreOwned

LEMMA SignInBeginsStep ==
    ASSUME SessionsIInv, NEW q \in Commands, SignInBegins(q) PROVE SessionsIInv'
  <1> DEFINE next == [op |-> "signs in", mine |-> made + 1, old |-> NoSession, ends |-> {}]
  <1>1. SessionsTypeOK /\ made \in Nat /\ made + 1 \in SessionIds /\ made' = made + 1
        /\ session' = session /\ working[q].op = "rest"
    <2>1. SessionsTypeOK /\ made' = made + 1 /\ session' = session /\ working[q].op = "rest"
      <3>1. SessionsTypeOK /\ made' = made + 1 /\ session' = session /\ working[q] = AtRest
        BY DEF SessionsIInv, SignInBegins
      <3>2. AtRest.op = "rest"
        BY DEF AtRest
      <3> QED
        BY <3>1, <3>2
    <2>2. made \in 0..MaxSessions /\ made < MaxSessions
      BY DEF SessionsIInv, SessionsTypeOK, SignInBegins
    <2>3. made \in Nat /\ made + 1 \in SessionIds
      BY <2>2, SessionsAssumption DEF SessionIds
    <2> QED
      BY <2>1, <2>3
  <1>2. next \in Transaction /\ next.op = "signs in" /\ next.mine = made + 1
    BY <1>1 DEF Transaction
  <1>3. working' = [working EXCEPT ![q] = next]
    BY DEF SignInBegins, Works
  <1> HIDE DEF next
  <1>4. /\ working' \in [Commands -> Transaction] /\ working'[q] = next
        /\ \A p \in Commands : p # q => working'[p] = working[p]
    BY <1>1, <1>2, <1>3, TransactionStep
  <1>5. SessionsTypeOK'
    BY <1>1, <1>4, SessionsAssumption DEF SessionsTypeOK, SessionIds
  <1>6. NumbersAreOwned'
    BY <1>1, <1>2, <1>4, NumberIsTaken
  <1>7. RotationsAreAlone' /\ EndsWereThere'
    <2>1. /\ session' = session /\ working'[q].op = "signs in"
          /\ \A p \in Commands : p # q => working'[p] = working[p]
      BY <1>1, <1>2, <1>4
    <2>2. RotationsAreAlone /\ EndsWereThere
      BY DEF SessionsIInv
    <2>3. RotationsAreAlone'
      BY <2>1, <2>2 DEF RotationsAreAlone
    <2>4. EndsWereThere'
      BY <2>1, <2>2 DEF EndsWereThere
    <2> QED
      BY <2>3, <2>4
  <1>8. RotatedOnce' /\ WithinDeviceLimit' /\ Live' = Live
    BY <1>1, SessionsStay
  <1>9. LimitIsKept'
    BY <1>2, <1>4, <1>8 DEF SessionsIInv, LimitIsKept
  <1> QED
    BY <1>5, <1>6, <1>7, <1>8, <1>9 DEF SessionsIInv

LEMMA SignInLocksStep ==
    ASSUME SessionsIInv, NEW q \in Commands, SignInLocks(q) PROVE SessionsIInv'
  <1> DEFINE mine == working[q].mine
             seen == Live \cup {mine}
             next == [op |-> "limits", mine |-> mine, old |-> NoSession, ends |-> Beyond(seen)]
  <1>1. /\ SessionsTypeOK /\ mine \in SessionIds /\ seen \in SUBSET SessionIds
        /\ session' = session /\ made' = made /\ working[q].op = "signs in"
    <2>1. SessionsTypeOK /\ session' = session /\ made' = made /\ working[q].op = "signs in"
      BY DEF SessionsIInv, SignInLocks
    <2>2. mine \in 1..made /\ made \in 0..MaxSessions
      BY <2>1 DEF SessionsIInv, SessionsTypeOK, NumbersAreOwned, Inserts
    <2>3. mine \in SessionIds
      BY <2>2, SessionsAssumption DEF SessionIds
    <2> QED
      BY <2>1, <2>3 DEF Live
  <1>2. Beyond(seen) \subseteq seen
    BY DEF Beyond
  <1>3. working' = [working EXCEPT ![q] = next]
    BY DEF SignInLocks, Works, Beyond
  <1> HIDE DEF seen
  <1>4. /\ next \in Transaction /\ next.op = "limits" /\ next.mine = mine
        /\ next.ends = Beyond(seen)
    BY <1>1, <1>2 DEF Transaction
  <1> HIDE DEF next
  <1>5. /\ working' \in [Commands -> Transaction] /\ working'[q] = next
        /\ \A p \in Commands : p # q => working'[p] = working[p]
    BY <1>1, <1>3, <1>4, TransactionStep
  <1>6. SessionsTypeOK'
    BY <1>1, <1>5 DEF SessionsTypeOK
  <1>7. NumbersAreOwned' /\ RotationsAreAlone'
    <2>1. Inserts(q) /\ working'[q].mine = working[q].mine
      BY <1>1, <1>4, <1>5 DEF Inserts
    <2>2. NumbersAreOwned'
      BY <1>1, <1>5, <2>1, NumbersStay
    <2>3. RotationsAreAlone'
      BY <1>1, <1>4, <1>5 DEF SessionsIInv, RotationsAreAlone
    <2> QED
      BY <2>2, <2>3
  <1>8. EndsWereThere'
    <2>1. \A s \in Beyond(seen) : session[s].state # "none" \/ s = mine
      BY <1>2 DEF seen, Live
    <2> QED
      BY <1>1, <1>4, <1>5, <2>1 DEF SessionsIInv, EndsWereThere
  <1>9. RotatedOnce' /\ WithinDeviceLimit' /\ Live' = Live
    BY <1>1, SessionsStay
  <1>10. LimitIsKept'
    <2>1. \A p \in Commands : working[p].op # "limits"
      BY DEF SignInLocks, UserIsLocked
    <2>2. Live' \cup {mine} \subseteq seen
      BY <1>9 DEF seen
    <2> QED
      BY <1>1, <1>4, <1>5, <2>1, <2>2 DEF LimitIsKept
  <1> QED
    BY <1>6, <1>7, <1>8, <1>9, <1>10 DEF SessionsIInv

LEMMA RotateEndsStep ==
    ASSUME SessionsIInv, NEW q \in Commands, NEW s \in SessionIds, RotateEnds(q, s)
    PROVE  SessionsIInv'
  <1> DEFINE next == [op |-> "rotates", mine |-> made + 1, old |-> s, ends |-> {}]
  <1>1. /\ SessionsTypeOK /\ made \in Nat /\ made + 1 \in SessionIds /\ made' = made + 1
        /\ session' = session /\ working[q].op = "rest" /\ session[s].state = "live"
    BY SessionsAssumption DEF SessionsIInv, SessionsTypeOK, RotateEnds, SessionIds, AtRest, Live
  <1>2. next \in Transaction /\ next.op = "rotates" /\ next.mine = made + 1 /\ next.old = s
    BY <1>1 DEF Transaction
  <1>3. working' = [working EXCEPT ![q] = next]
    BY DEF RotateEnds, Works
  <1> HIDE DEF next
  <1>4. /\ working' \in [Commands -> Transaction] /\ working'[q] = next
        /\ \A p \in Commands : p # q => working'[p] = working[p]
    BY <1>1, <1>2, <1>3, TransactionStep
  <1>5. SessionsTypeOK'
    BY <1>1, <1>4, SessionsAssumption DEF SessionsTypeOK, SessionIds
  <1>6. NumbersAreOwned'
    BY <1>1, <1>2, <1>4, NumberIsTaken
  <1>7. RotationsAreAlone'
    <2>1. \A p \in Commands : working[p].op = "rotates" => working[p].old # s
      BY <1>1 DEF RotateEnds, LockedByAnother
    <2>2. \A t \in SessionIds : session[t].from # s
      <3>1. NoSession # s
        BY DEF NoSession, SessionIds
      <3> QED
        BY <1>1, <3>1 DEF SessionsIInv, RotatedOnce, NumbersAreOwned
    <2> QED
      BY <1>1, <1>2, <1>4, <2>1, <2>2 DEF SessionsIInv, RotationsAreAlone
  <1>8. EndsWereThere'
    BY <1>1, <1>2, <1>4 DEF SessionsIInv, EndsWereThere
  <1>9. RotatedOnce' /\ WithinDeviceLimit' /\ Live' = Live
    BY <1>1, SessionsStay
  <1>10. LimitIsKept'
    BY <1>2, <1>4, <1>9 DEF SessionsIInv, LimitIsKept
  <1> QED
    BY <1>5, <1>6, <1>7, <1>8, <1>9, <1>10 DEF SessionsIInv

LEMMA RevokeSeesStep ==
    ASSUME SessionsIInv, NEW q \in Commands, RevokeSees(q) PROVE SessionsIInv'
  <1>1. PICK kept \in SUBSET Live : Works(q, "revokes", NoSession, NoSession, Live \ kept)
    BY DEF RevokeSees
  <1> DEFINE ends == Live \ kept
             next == [op |-> "revokes", mine |-> NoSession, old |-> NoSession, ends |-> ends]
  <1>2. /\ SessionsTypeOK /\ session' = session /\ made' = made /\ working[q].op = "rest"
        /\ ends \subseteq SessionIds /\ \A s \in ends : session[s].state = "live"
    BY DEF SessionsIInv, RevokeSees, AtRest, Live
  <1>3. working' = [working EXCEPT ![q] = next]
    BY <1>1 DEF Works
  <1> HIDE DEF ends
  <1>4. next \in Transaction /\ next.op = "revokes" /\ next.ends = ends
    BY <1>2 DEF Transaction
  <1> HIDE DEF next
  <1>5. /\ working' \in [Commands -> Transaction] /\ working'[q] = next
        /\ \A p \in Commands : p # q => working'[p] = working[p]
    BY <1>2, <1>3, <1>4, TransactionStep
  <1>6. SessionsTypeOK'
    BY <1>2, <1>5 DEF SessionsTypeOK
  <1>7. NumbersAreOwned' /\ RotationsAreAlone' /\ EndsWereThere'
    <2>1. ~Inserts(q)'
      BY <1>4, <1>5 DEF Inserts
    <2>2. NumbersAreOwned'
      BY <1>2, <1>5, <2>1, NumbersStay
    <2>3. RotationsAreAlone' /\ EndsWereThere'
      BY <1>2, <1>4, <1>5 DEF SessionsIInv, RotationsAreAlone, EndsWereThere
    <2> QED
      BY <2>2, <2>3
  <1>8. RotatedOnce' /\ WithinDeviceLimit' /\ Live' = Live
    BY <1>2, SessionsStay
  <1>9. LimitIsKept'
    BY <1>4, <1>5, <1>8 DEF SessionsIInv, LimitIsKept
  <1> QED
    BY <1>6, <1>7, <1>8, <1>9 DEF SessionsIInv

LEMMA RollsBackStep ==
    ASSUME SessionsIInv, NEW q \in Commands, RollsBack(q) PROVE SessionsIInv'
  <1>1. /\ working' \in [Commands -> Transaction] /\ working'[q].op = "rest"
        /\ \A p \in Commands : p # q => working'[p] = working[p]
    BY TransactionEnds DEF SessionsIInv, RollsBack
  <1>2. session' = session /\ made' = made
    BY DEF RollsBack
  <1>3. SessionsTypeOK' /\ NumbersAreOwned' /\ RotationsAreAlone' /\ EndsWereThere'
    <2>1. ~Inserts(q)'
      BY <1>1 DEF Inserts
    <2>2. NumbersAreOwned'
      BY <1>1, <1>2, <2>1, NumbersStay
    <2>3. SessionsTypeOK' /\ RotationsAreAlone' /\ EndsWereThere'
      BY <1>1, <1>2 DEF SessionsIInv, SessionsTypeOK, RotationsAreAlone, EndsWereThere
    <2> QED
      BY <2>2, <2>3
  <1>4. RotatedOnce' /\ WithinDeviceLimit' /\ Live' = Live
    BY <1>2, SessionsStay
  <1>5. LimitIsKept'
    BY <1>1, <1>4 DEF SessionsIInv, LimitIsKept
  <1> QED
    BY <1>3, <1>4, <1>5 DEF SessionsIInv

-----------------------------------------------------------------------------
(* Commits *)

\* What a commit that ends sessions, and may bring one to life that it numbered
\* itself, does to the rows.
Ends(ends, fresh) ==
    \A s \in SessionIds :
        /\ session'[s].from = session[s].from
        /\ session'[s].state = IF s \in ends THEN "ended"
                               ELSE IF s = fresh THEN "live" ELSE session[s].state

LEMMA EndingStep ==
    ASSUME SessionsIInv, NEW q \in Commands,
           NEW ends \in SUBSET SessionIds, NEW fresh \in SessionIds \cup {NoSession},
           session' \in [SessionIds -> Session], Ends(ends, fresh), made' = made,
           \A s \in ends : session[s].state # "none" \/ s = fresh,
           fresh # NoSession => Inserts(q) /\ fresh = working[q].mine,
           \A p \in Commands : working[p].op = "rotates" => working[p].old \notin ends,
           working' \in [Commands -> Transaction], working'[q].op = "rest",
           \A p \in Commands : p # q => working'[p] = working[p]
    PROVE  /\ SessionsTypeOK' /\ NumbersAreOwned' /\ RotationsAreAlone' /\ EndsWereThere'
           /\ RotatedOnce'
  <1>1. NoSession \notin SessionIds
    BY DEF NoSession, SessionIds
  <1>2. fresh \in SessionIds => /\ fresh \in 1..made /\ session[fresh].state = "none"
                                /\ session[fresh].from = NoSession
                                /\ \A p \in Commands : Inserts(p) /\ working[p].mine = fresh => p = q
    BY <1>1 DEF SessionsIInv, NumbersAreOwned
  <1>3. SessionsTypeOK'
    BY DEF SessionsIInv, SessionsTypeOK
  <1>4. \A s \in SessionIds : session'[s].state = "none" => session[s].state = "none"
    BY DEF Ends
  <1>5. \A s \in SessionIds : session[s].state = "none" /\ s # fresh => session'[s].state = "none"
    BY DEF Ends
  <1>6. \A p \in Commands : p # q /\ Inserts(p)' => Inserts(p) /\ working'[p] = working[p]
    BY DEF Inserts
  <1>7. ~Inserts(q)'
    BY DEF Inserts
  <1>8. NumbersAreOwned'
    <2>1. /\ \A s \in SessionIds : s > made => session[s].state = "none"
          /\ \A s \in SessionIds : session[s].state = "none" => session[s].from = NoSession
          /\ made \in Nat /\ SessionIds \subseteq Nat /\ 1..made \subseteq SessionIds
      BY SessionsAssumption DEF SessionsIInv, NumbersAreOwned, SessionsTypeOK, SessionIds
    <2>2. ASSUME NEW s \in SessionIds, s > made' PROVE session'[s].state = "none"
      <3>1. s > made /\ s # fresh
        BY <1>2, <2>1, <2>2
      <3> QED
        BY <1>5, <2>1, <3>1
    <2>3. \A s \in SessionIds : session'[s].state = "none" => session'[s].from = NoSession
      BY <1>4, <2>1 DEF Ends
    <2>4. ASSUME NEW p \in Commands, Inserts(p)'
          PROVE  /\ working'[p].mine \in 1..made' /\ session'[working'[p].mine].state = "none"
                 /\ \A r \in Commands : Inserts(r)' /\ working'[r].mine = working'[p].mine => r = p
      <3>1. p # q /\ Inserts(p) /\ working'[p] = working[p]
        BY <1>6, <1>7, <2>4
      <3>2. /\ working[p].mine \in 1..made /\ session[working[p].mine].state = "none"
            /\ \A r \in Commands : Inserts(r) /\ working[r].mine = working[p].mine => r = p
        BY <3>1 DEF SessionsIInv, NumbersAreOwned
      <3>3. working[p].mine \in SessionIds /\ working[p].mine # fresh
        BY <1>1, <1>2, <2>1, <3>1, <3>2
      <3>4. session'[working[p].mine].state = "none"
        BY <1>5, <3>2, <3>3
      <3> QED
        BY <1>6, <1>7, <3>1, <3>2, <3>4
    <2> QED
      BY <2>2, <2>3, <2>4 DEF NumbersAreOwned
  <1>9. RotationsAreAlone'
    <2>1. ASSUME NEW p \in Commands, working'[p].op = "rotates"
          PROVE  /\ working'[p].old \in SessionIds /\ session'[working'[p].old].state = "live"
                 /\ \A t \in SessionIds : session'[t].from # working'[p].old
                 /\ \A r \in Commands :
                       working'[r].op = "rotates" /\ working'[r].old = working'[p].old => r = p
      <3>1. p # q /\ working'[p] = working[p]
        BY <2>1
      <3>2. /\ working[p].old \in SessionIds /\ session[working[p].old].state = "live"
            /\ \A t \in SessionIds : session[t].from # working[p].old
            /\ \A r \in Commands :
                  working[r].op = "rotates" /\ working[r].old = working[p].old => r = p
        BY <2>1, <3>1 DEF SessionsIInv, RotationsAreAlone
      <3>3. working[p].old \notin ends
        BY <2>1, <3>1
      <3>4. session'[working[p].old].state = "live"
        BY <3>2, <3>3 DEF Ends
      <3>5. \A t \in SessionIds : session'[t].from # working[p].old
        BY <3>2 DEF Ends
      <3>6. \A r \in Commands : working'[r].op = "rotates" => r # q /\ working'[r] = working[r]
        OBVIOUS
      <3> QED
        BY <3>1, <3>2, <3>4, <3>5, <3>6
    <2> QED
      BY <2>1 DEF RotationsAreAlone
  <1>10. EndsWereThere'
    <2>1. ASSUME NEW p \in Commands, working'[p].op \in {"limits", "revokes"},
                 NEW s \in working'[p].ends
          PROVE  session'[s].state = "none" => working'[p].op = "limits" /\ s = working'[p].mine
      <3>1. p # q /\ working'[p] = working[p]
        BY <2>1
      <3>2. s \in SessionIds
        BY <2>1 DEF Transaction
      <3>3. session[s].state = "none" => working[p].op = "limits" /\ s = working[p].mine
        BY <2>1, <3>1 DEF SessionsIInv, EndsWereThere
      <3> QED
        BY <1>4, <3>1, <3>2, <3>3
    <2> QED
      BY <2>1 DEF EndsWereThere
  <1>11. RotatedOnce'
    <2>1. ASSUME NEW s \in SessionIds, NEW t \in SessionIds,
                 session'[t].from = s, session'[t].state # "none"
          PROVE  /\ session'[s].state = "ended"
                 /\ \A u \in SessionIds : session'[u].from = s => u = t
      <3>1. session[t].from = s
        BY <2>1 DEF Ends
      <3>2. session[t].state # "none"
        BY <1>1, <3>1 DEF SessionsIInv, NumbersAreOwned
      <3>3. session[s].state = "ended" /\ \A u \in SessionIds : session[u].from = s => u = t
        BY <3>1, <3>2 DEF SessionsIInv, RotatedOnce
      <3>4. s # fresh
        BY <1>2, <3>3
      <3> QED
        BY <3>3, <3>4 DEF Ends
    <2> QED
      BY <2>1 DEF RotatedOnce
  <1> QED
    BY <1>3, <1>8, <1>9, <1>10, <1>11

\* Where no session comes to life, the limit is kept.
LEMMA FewerLive ==
    ASSUME SessionsIInv, NEW q \in Commands, Live' \subseteq Live, working'[q].op = "rest",
           \A p \in Commands : p # q => working'[p] = working[p]
    PROVE  LimitIsKept' /\ WithinDeviceLimit'
  <1>1. WithinDeviceLimit'
    <2>1. Live \in SUBSET SessionIds
      BY DEF Live
    <2> QED
      BY <2>1, FewerAreWithinLimit DEF SessionsIInv, WithinDeviceLimit
  <1>2. LimitIsKept'
    BY DEF SessionsIInv, LimitIsKept
  <1> QED
    BY <1>1, <1>2

\* Signing out ends the one session.
LEMMA SignOutEnds ==
    ASSUME SessionsIInv, NEW q \in Commands, NEW s \in SessionIds, SignOut(q, s)
    PROVE  /\ session' \in [SessionIds -> Session] /\ Ends({s}, NoSession)
           /\ {s} \subseteq Live /\ made' = made /\ working' = working
  <1> DEFINE row == [session[s] EXCEPT !.state = "ended"]
  <1>1. /\ SessionsTypeOK /\ session[s] \in Session /\ session[s].state = "live"
        /\ session' = [session EXCEPT ![s] = row] /\ made' = made /\ working' = working
    BY DEF SessionsIInv, SessionsTypeOK, SignOut, Live
  <1>2. working[q].op = "rest"
    <2>1. working[q] = AtRest /\ AtRest.op = "rest"
      BY DEF SignOut, AtRest
    <2> QED
      BY <2>1
  <1>3. row \in Session /\ row.state = "ended" /\ row.from = session[s].from
    BY <1>1 DEF Session
  <1> HIDE DEF row
  <1>4. session' \in [SessionIds -> Session] /\ session'[s] = row
        /\ \A t \in SessionIds : t # s => session'[t] = session[t]
    BY <1>1, <1>3 DEF SessionsTypeOK
  <1>5. Ends({s}, NoSession)
    <2>1. NoSession \notin SessionIds
      BY DEF NoSession, SessionIds
    <2> QED
      BY <1>3, <1>4, <2>1 DEF Ends
  <1> QED
    BY <1>1, <1>4, <1>5 DEF Live

LEMMA SignOutStep ==
    ASSUME SessionsIInv, NEW q \in Commands, NEW s \in SessionIds, SignOut(q, s)
    PROVE  SessionsIInv'
  <1>1. /\ SessionsTypeOK /\ session[s].state = "live" /\ made' = made /\ working' = working
    BY DEF SessionsIInv, SignOut, Live
  <1>2. working[q].op = "rest"
    <2>1. working[q] = AtRest /\ AtRest.op = "rest"
      BY DEF SignOut, AtRest
    <2> QED
      BY <2>1
  <1>3. session' \in [SessionIds -> Session] /\ Ends({s}, NoSession)
    BY SignOutEnds
  <1>4. \A p \in Commands : working[p].op = "rotates" => working[p].old \notin {s}
    BY <1>2 DEF SignOut, LockedByAnother
  <1>5. /\ SessionsTypeOK' /\ NumbersAreOwned' /\ RotationsAreAlone' /\ EndsWereThere'
        /\ RotatedOnce'
    <2>1. working' \in [Commands -> Transaction]
      BY <1>1 DEF SessionsTypeOK
    <2>2. {s} \in SUBSET SessionIds /\ \A t \in {s} : session[t].state # "none"
      BY <1>1
    <2> QED
      BY <1>1, <1>2, <1>3, <1>4, <2>1, <2>2, EndingStep
  <1>6. Live' \subseteq Live
    <2>1. NoSession \notin SessionIds
      BY DEF NoSession, SessionIds
    <2> QED
      BY <1>3, <2>1 DEF Live, Ends
  <1>7. LimitIsKept' /\ WithinDeviceLimit'
    BY <1>1, <1>2, <1>6, FewerLive
  <1> QED
    BY <1>5, <1>7 DEF SessionsIInv

\* What a revocation commits ends what its statement saw.
LEMMA RevocationEnds ==
    ASSUME SessionsIInv, NEW q \in Commands, RevokeCommits(q)
    PROVE  /\ working[q].ends \subseteq SessionIds /\ session' \in [SessionIds -> Session]
           /\ Ends(working[q].ends, NoSession) /\ \A s \in working[q].ends : session[s].state # "none"
  <1> DEFINE ends == working[q].ends
  <1>1. /\ SessionsTypeOK /\ ends \in SUBSET SessionIds
        /\ session' = [s \in SessionIds |->
              IF s \in ends THEN [session[s] EXCEPT !.state = "ended"] ELSE session[s]]
    BY DEF SessionsIInv, SessionsTypeOK, RevokeCommits, Transaction
  <1>2. \A s \in ends : session[s].state # "none"
    BY DEF RevokeCommits, SessionsIInv, EndsWereThere
  <1> HIDE DEF ends
  <1>3. /\ session' \in [SessionIds -> Session] /\ Ends(ends, NoSession)
    <2>1. NoSession \notin SessionIds
      BY DEF NoSession, SessionIds
    <2>2. \A s \in SessionIds : /\ [session[s] EXCEPT !.state = "ended"] \in Session
                                /\ [session[s] EXCEPT !.state = "ended"].state = "ended"
                                /\ [session[s] EXCEPT !.state = "ended"].from = session[s].from
      BY <1>1 DEF SessionsTypeOK, Session
    <2>3. \A s \in SessionIds : session[s] \in Session
      BY <1>1 DEF SessionsTypeOK
    <2>4. \A s \in SessionIds : session'[s] =
              IF s \in ends THEN [session[s] EXCEPT !.state = "ended"] ELSE session[s]
      BY <1>1
    <2>5. session' \in [SessionIds -> Session]
      BY <1>1, <2>2, <2>3
    <2>6. ASSUME NEW s \in SessionIds
          PROVE  /\ session'[s].from = session[s].from
                 /\ session'[s].state = IF s \in ends THEN "ended"
                                        ELSE IF s = NoSession THEN "live" ELSE session[s].state
      <3>1. CASE s \in ends
        <4>1. session'[s] = [session[s] EXCEPT !.state = "ended"]
          BY <2>4, <3>1
        <4> QED
          BY <2>2, <3>1, <4>1
      <3>2. CASE s \notin ends
        BY <2>1, <2>4, <3>2
      <3> QED
        BY <3>1, <3>2
    <2> QED
      BY <2>5, <2>6 DEF Ends
  <1> QED
    BY <1>1, <1>2, <1>3 DEF ends

LEMMA RevokeCommitsStep ==
    ASSUME SessionsIInv, NEW q \in Commands, RevokeCommits(q) PROVE SessionsIInv'
  <1> DEFINE ends == working[q].ends
  <1>1. /\ SessionsTypeOK /\ working[q].op = "revokes" /\ made' = made
        /\ ends \in SUBSET SessionIds
    BY RevocationEnds DEF SessionsIInv, RevokeCommits
  <1>2. /\ working' \in [Commands -> Transaction] /\ working'[q].op = "rest"
        /\ \A p \in Commands : p # q => working'[p] = working[p]
    BY <1>1, TransactionEnds DEF RevokeCommits
  <1>3. \A s \in ends : session[s].state # "none"
    BY RevocationEnds
  <1>4. \A p \in Commands : working[p].op = "rotates" => working[p].old \notin ends
    BY <1>1 DEF RevokeCommits, LockedByAnother
  <1>5. session' \in [SessionIds -> Session] /\ Ends(ends, NoSession)
    BY RevocationEnds
  <1> HIDE DEF ends
  <1>6. /\ SessionsTypeOK' /\ NumbersAreOwned' /\ RotationsAreAlone' /\ EndsWereThere'
        /\ RotatedOnce'
    BY <1>1, <1>2, <1>3, <1>4, <1>5, EndingStep
  <1>7. Live' \subseteq Live
    <2>1. \A s \in SessionIds : session'[s].state = "live" => session[s].state = "live"
      <3>1. NoSession \notin SessionIds
        BY DEF NoSession, SessionIds
      <3> QED
        BY <1>5, <3>1 DEF Ends
    <2> QED
      BY <2>1 DEF Live
  <1>8. LimitIsKept' /\ WithinDeviceLimit'
    BY <1>2, <1>7, FewerLive
  <1> QED
    BY <1>6, <1>8 DEF SessionsIInv

\* What a sign-in commits brings its session to life, and ends the sessions
\* past the limit of a set that misses none.
LEMMA SignInEnds ==
    ASSUME SessionsIInv, NEW q \in Commands, SignInCommits(q)
    PROVE  /\ working[q].mine \in SessionIds /\ session[working[q].mine].state = "none"
           /\ working[q].ends \subseteq SessionIds
           /\ \A s \in working[q].ends : session[s].state # "none" \/ s = working[q].mine
           /\ session' \in [SessionIds -> Session] /\ Ends(working[q].ends, working[q].mine)
           /\ \E seen \in SUBSET SessionIds :
                 Live \cup {working[q].mine} \subseteq seen /\ working[q].ends = Beyond(seen)
  <1> DEFINE ends == working[q].ends
             mine == working[q].mine
  <1>1. /\ SessionsTypeOK /\ working[q].op = "limits"
        /\ ends \in SUBSET SessionIds
        /\ session' = [s \in SessionIds |->
              IF s \in ends THEN [session[s] EXCEPT !.state = "ended"]
              ELSE IF s = mine THEN [session[s] EXCEPT !.state = "live"]
              ELSE session[s]]
    BY DEF SessionsIInv, SessionsTypeOK, SignInCommits, Transaction
  <1>2. \A s \in ends : session[s].state # "none" \/ s = mine
    BY <1>1 DEF SessionsIInv, EndsWereThere
  <1>3. mine \in SessionIds /\ session[mine].state = "none"
    <2>1. mine \in 1..made /\ made \in 0..MaxSessions /\ session[mine].state = "none"
      BY <1>1 DEF SessionsIInv, NumbersAreOwned, SessionsTypeOK, Inserts
    <2> QED
      BY <2>1, SessionsAssumption DEF SessionIds
  <1>4. \E seen \in SUBSET SessionIds : Live \cup {mine} \subseteq seen /\ ends = Beyond(seen)
    BY <1>1 DEF SessionsIInv, LimitIsKept
  <1> HIDE DEF ends
  <1>5. session' \in [SessionIds -> Session] /\ Ends(ends, mine)
    <2> DEFINE As(s, state) == [session[s] EXCEPT !.state = state]
    <2>1. \A s \in SessionIds : \A state \in {"ended", "live"} :
              As(s, state) \in Session /\ As(s, state).state = state
              /\ As(s, state).from = session[s].from
      BY <1>1 DEF SessionsTypeOK, Session
    <2>2. \A s \in SessionIds : session[s] \in Session
      BY <1>1 DEF SessionsTypeOK
    <2>3. \A s \in SessionIds : session'[s] =
              IF s \in ends THEN As(s, "ended") ELSE IF s = mine THEN As(s, "live") ELSE session[s]
      BY <1>1
    <2>4. session' \in [SessionIds -> Session]
      <3>1. \A s \in SessionIds : session'[s] \in Session
        <4> HIDE DEF As
        <4> QED
          BY <2>1, <2>2, <2>3
      <3>2. session' = [s \in SessionIds |-> session'[s]]
        BY <1>1
      <3> QED
        BY <3>1, <3>2
    <2> HIDE DEF As, mine
    <2>5. Ends(ends, mine)
      BY <2>1, <2>2, <2>3 DEF Ends
    <2> QED
      BY <2>4, <2>5
  <1> QED
    BY <1>1, <1>2, <1>3, <1>4, <1>5 DEF ends, mine

LEMMA SignInCommitsStep ==
    ASSUME SessionsIInv, NEW q \in Commands, SignInCommits(q) PROVE SessionsIInv'
  <1> DEFINE ends == working[q].ends
             mine == working[q].mine
  <1>1. /\ SessionsTypeOK /\ working[q].op = "limits" /\ made' = made
        /\ ends \in SUBSET SessionIds
    BY SignInEnds DEF SessionsIInv, SignInCommits
  <1>2. /\ working' \in [Commands -> Transaction] /\ working'[q].op = "rest"
        /\ \A p \in Commands : p # q => working'[p] = working[p]
    BY <1>1, TransactionEnds DEF SignInCommits
  <1>3. \A s \in ends : session[s].state # "none" \/ s = mine
    BY SignInEnds
  <1>4. \A p \in Commands : working[p].op = "rotates" => working[p].old \notin ends
    BY <1>1 DEF SignInCommits, LockedByAnother
  <1>5. Inserts(q) /\ mine \in SessionIds
    BY <1>1, SignInEnds DEF Inserts
  <1>6. PICK seen \in SUBSET SessionIds : Live \cup {mine} \subseteq seen /\ ends = Beyond(seen)
    BY SignInEnds
  <1>7. session' \in [SessionIds -> Session] /\ Ends(ends, mine)
    BY SignInEnds
  <1> HIDE DEF ends
  <1>8. /\ SessionsTypeOK' /\ NumbersAreOwned' /\ RotationsAreAlone' /\ EndsWereThere'
        /\ RotatedOnce'
    BY <1>1, <1>2, <1>3, <1>4, <1>5, <1>7, EndingStep
  <1>9. WithinDeviceLimit'
    <2>1. Live' \subseteq seen \ Beyond(seen)
      BY <1>6, <1>7 DEF Live, Ends
    <2>2. Cardinality(seen \ Beyond(seen)) <= MaxLive /\ seen \ Beyond(seen) \in SUBSET SessionIds
      BY NewestAreWithinLimit
    <2>3. Cardinality(Live') <= MaxLive
      BY <2>1, <2>2, FewerAreWithinLimit
    <2> QED
      BY <2>3 DEF WithinDeviceLimit
  <1>10. LimitIsKept'
    <2>1. \A p \in Commands : working'[p].op # "limits"
      BY <1>1, <1>2 DEF SessionsIInv, LimitIsKept
    <2> QED
      BY <2>1 DEF LimitIsKept
  <1> QED
    BY <1>8, <1>9, <1>10 DEF SessionsIInv

\* What a rotation commits ends the session it had locked and brings to life
\* the one that it numbered.
LEMMA RotationExchanges ==
    ASSUME SessionsIInv, NEW q \in Commands, RotateCommits(q)
    PROVE  LET old == working[q].old  mine == working[q].mine IN
           /\ old \in SessionIds /\ session[old].state = "live"
           /\ mine \in SessionIds /\ mine \in 1..made /\ session[mine].state = "none" /\ mine # old
           /\ session' \in [SessionIds -> Session]
           /\ session'[old].state = "ended" /\ session'[old].from = session[old].from
           /\ session'[mine].state = "live" /\ session'[mine].from = old
           /\ \A s \in SessionIds : s # mine /\ s # old => session'[s] = session[s]
  <1> DEFINE old == working[q].old
             mine == working[q].mine
             row == [session[old] EXCEPT !.state = "ended"]
             new == [state |-> "live", from |-> old]
  <1>1. /\ SessionsTypeOK /\ working[q].op = "rotates" /\ Inserts(q)
        /\ session' = [[session EXCEPT ![old] = row] EXCEPT ![mine] = new]
    BY DEF SessionsIInv, RotateCommits, Inserts
  <1>2. old \in SessionIds /\ session[old].state = "live"
    BY <1>1 DEF SessionsIInv, RotationsAreAlone
  <1>3. mine \in 1..made /\ mine \in SessionIds /\ session[mine].state = "none" /\ mine # old
    <2>1. mine \in 1..made /\ made \in 0..MaxSessions /\ session[mine].state = "none"
      BY <1>1 DEF SessionsIInv, NumbersAreOwned, SessionsTypeOK
    <2>2. mine \in SessionIds
      BY <2>1, SessionsAssumption DEF SessionIds
    <2> QED
      BY <1>2, <2>1, <2>2
  <1>4. /\ row \in Session /\ row.state = "ended" /\ row.from = session[old].from
        /\ new \in Session /\ new.state = "live" /\ new.from = old
    <2>1. session[old] \in Session
      BY <1>1, <1>2 DEF SessionsTypeOK
    <2> QED
      BY <1>2, <2>1 DEF Session
  <1> HIDE DEF row, new
  <1>5. /\ session' \in [SessionIds -> Session] /\ session'[mine] = new /\ session'[old] = row
        /\ \A s \in SessionIds : s # mine /\ s # old => session'[s] = session[s]
    BY <1>1, <1>2, <1>3, <1>4 DEF SessionsTypeOK
  <1> QED
    BY <1>2, <1>3, <1>4, <1>5 DEF old, mine

LEMMA RotateCommitsStep ==
    ASSUME SessionsIInv, NEW q \in Commands, RotateCommits(q) PROVE SessionsIInv'
  <1> DEFINE old == working[q].old
             mine == working[q].mine
  <1>1. SessionsTypeOK /\ working[q].op = "rotates" /\ made' = made /\ Inserts(q)
    BY DEF SessionsIInv, RotateCommits, Inserts
  <1>2. /\ working' \in [Commands -> Transaction] /\ working'[q].op = "rest"
        /\ \A p \in Commands : p # q => working'[p] = working[p]
    BY <1>1, TransactionEnds DEF RotateCommits
  <1>3. /\ old \in SessionIds /\ session[old].state = "live"
        /\ \A t \in SessionIds : session[t].from # old
        /\ \A p \in Commands : working[p].op = "rotates" /\ working[p].old = old => p = q
    BY <1>1 DEF SessionsIInv, RotationsAreAlone
  <1>4. mine \in 1..made /\ mine \in SessionIds /\ session[mine].state = "none" /\ mine # old
    BY RotationExchanges
  <1>5. /\ session'[old].state = "ended" /\ session'[old].from = session[old].from
        /\ session'[mine].state = "live" /\ session'[mine].from = old
    BY RotationExchanges
  <1>6. /\ session' \in [SessionIds -> Session]
        /\ \A s \in SessionIds : s # mine /\ s # old => session'[s] = session[s]
    BY RotationExchanges
  <1>7. SessionsTypeOK'
    BY <1>1, <1>2, <1>6 DEF SessionsTypeOK
  <1>n. NoSession \notin SessionIds
    BY DEF NoSession, SessionIds
  <1> HIDE DEF old, mine
  <1>8. NumbersAreOwned'
    <2>1. /\ \A s \in SessionIds : s > made => session[s].state = "none"
          /\ \A s \in SessionIds : session[s].state = "none" => session[s].from = NoSession
          /\ made \in Nat /\ SessionIds \subseteq Nat /\ 1..made \subseteq SessionIds
      BY <1>1, SessionsAssumption DEF SessionsIInv, NumbersAreOwned, SessionsTypeOK, SessionIds
    <2>2. ASSUME NEW s \in SessionIds, s > made' PROVE session'[s].state = "none"
      <3>1. s > made /\ s # mine
        BY <1>1, <1>4, <2>1, <2>2
      <3>2. s # old
        BY <1>3, <2>1, <3>1
      <3> QED
        BY <1>6, <2>1, <3>1, <3>2
    <2>3. \A s \in SessionIds : session'[s].state = "none" => session'[s].from = NoSession
      BY <1>5, <1>6, <2>1
    <2>4. ASSUME NEW p \in Commands, Inserts(p)'
          PROVE  /\ working'[p].mine \in 1..made' /\ session'[working'[p].mine].state = "none"
                 /\ \A r \in Commands : Inserts(r)' /\ working'[r].mine = working'[p].mine => r = p
      <3>0. \A r \in Commands : Inserts(r)' => r # q /\ Inserts(r) /\ working'[r] = working[r]
        BY <1>2 DEF Inserts
      <3>1. p # q /\ Inserts(p) /\ working'[p] = working[p]
        BY <2>4, <3>0
      <3>2. /\ working[p].mine \in 1..made /\ session[working[p].mine].state = "none"
            /\ \A r \in Commands : Inserts(r) /\ working[r].mine = working[p].mine => r = p
        BY <3>1 DEF SessionsIInv, NumbersAreOwned
      <3>3. working[p].mine \in SessionIds /\ working[p].mine # mine /\ working[p].mine # old
        BY <1>1, <1>3, <2>1, <3>1, <3>2 DEF mine
      <3>4. session'[working[p].mine].state = "none"
        BY <1>6, <3>2, <3>3
      <3> QED
        BY <1>1, <3>0, <3>1, <3>2, <3>4
    <2> QED
      BY <2>2, <2>3, <2>4 DEF NumbersAreOwned
  <1>9. RotationsAreAlone'
    <2>1. ASSUME NEW p \in Commands, working'[p].op = "rotates"
          PROVE  /\ working'[p].old \in SessionIds /\ session'[working'[p].old].state = "live"
                 /\ \A t \in SessionIds : session'[t].from # working'[p].old
                 /\ \A r \in Commands :
                       working'[r].op = "rotates" /\ working'[r].old = working'[p].old => r = p
      <3>1. p # q /\ working'[p] = working[p]
        BY <1>2, <2>1
      <3>2. /\ working[p].old \in SessionIds /\ session[working[p].old].state = "live"
            /\ \A t \in SessionIds : session[t].from # working[p].old
            /\ \A r \in Commands :
                  working[r].op = "rotates" /\ working[r].old = working[p].old => r = p
        BY <2>1, <3>1 DEF SessionsIInv, RotationsAreAlone
      <3>3. working[p].old # old /\ working[p].old # mine
        BY <1>3, <1>4, <2>1, <3>1, <3>2
      <3>4. session'[working[p].old].state = "live"
        BY <1>6, <3>2, <3>3
      <3>5. \A t \in SessionIds : session'[t].from # working[p].old
        BY <1>5, <1>6, <3>2, <3>3
      <3>6. \A r \in Commands : working'[r].op = "rotates" => r # q /\ working'[r] = working[r]
        BY <1>2
      <3> QED
        BY <3>1, <3>2, <3>4, <3>5, <3>6
    <2> QED
      BY <2>1 DEF RotationsAreAlone
  <1>10. \A s \in SessionIds : session'[s].state = "none" => session[s].state = "none"
    BY <1>5, <1>6
  <1>11. EndsWereThere'
    <2>1. ASSUME NEW p \in Commands, working'[p].op \in {"limits", "revokes"},
                 NEW s \in working'[p].ends
          PROVE  session'[s].state = "none" => working'[p].op = "limits" /\ s = working'[p].mine
      <3>1. p # q /\ working'[p] = working[p]
        BY <1>2, <2>1
      <3>2. s \in SessionIds
        BY <1>2, <2>1 DEF Transaction
      <3>3. session[s].state = "none" => working[p].op = "limits" /\ s = working[p].mine
        BY <2>1, <3>1 DEF SessionsIInv, EndsWereThere
      <3> QED
        BY <1>10, <3>1, <3>2, <3>3
    <2> QED
      BY <2>1 DEF EndsWereThere
  <1>12. RotatedOnce'
    <2>1. ASSUME NEW s \in SessionIds, NEW t \in SessionIds,
                 session'[t].from = s, session'[t].state # "none"
          PROVE  /\ session'[s].state = "ended"
                 /\ \A u \in SessionIds : session'[u].from = s => u = t
      <3>1. CASE s = old
        <4>1. \A u \in SessionIds : session'[u].from = old => u = mine
          BY <1>3, <1>5, <1>6
        <4> QED
          BY <1>5, <1>6, <2>1, <3>1, <4>1
      <3>2. CASE s # old
        <4>1. t # mine /\ session[t].from = s
          BY <1>5, <1>6, <2>1, <3>2
        <4>2. session[t].state # "none"
          BY <1>n, <4>1 DEF SessionsIInv, NumbersAreOwned
        <4>3. session[s].state = "ended" /\ \A u \in SessionIds : session[u].from = s => u = t
          BY <4>1, <4>2 DEF SessionsIInv, RotatedOnce
        <4>4. s # mine
          BY <1>4, <4>3
        <4>5. \A u \in SessionIds : session'[u].from = s => session[u].from = s
          BY <1>5, <1>6, <3>2
        <4> QED
          BY <1>6, <3>2, <4>3, <4>4, <4>5
      <3> QED
        BY <3>1, <3>2
    <2> QED
      BY <2>1 DEF RotatedOnce
  <1>13. WithinDeviceLimit'
    <2>1. Live' = (Live \ {old}) \cup {mine} /\ mine \notin Live /\ old \in Live
      BY <1>3, <1>4, <1>5, <1>6 DEF Live
    <2>2. IsFiniteSet(Live) /\ Cardinality(Live) \in Nat
      <3>1. Live \in SUBSET SessionIds
        BY DEF Live
      <3> QED
        BY <3>1, SessionsAreFinite
    <2>3. IsFiniteSet(Live \ {old}) /\ Cardinality(Live \ {old}) = Cardinality(Live) - 1
      BY <2>1, <2>2, FS_RemoveElement
    <2>4. Cardinality((Live \ {old}) \cup {mine}) = Cardinality(Live \ {old}) + 1
      BY <2>1, <2>3, FS_AddElement
    <2>5. Cardinality(Live') = Cardinality(Live)
      BY <2>1, <2>2, <2>3, <2>4
    <2> QED
      BY <2>5 DEF SessionsIInv, WithinDeviceLimit
  <1>14. LimitIsKept'
    <2>1. \A p \in Commands : working'[p].op # "limits"
      BY <1>2 DEF RotateCommits, UserIsLocked
    <2> QED
      BY <2>1 DEF LimitIsKept
  <1> QED
    BY <1>7, <1>8, <1>9, <1>11, <1>12, <1>13, <1>14 DEF SessionsIInv

-----------------------------------------------------------------------------
LEMMA SessionsStep == SessionsIInv /\ [SessionsNext]_sessionVars => SessionsIInv'
  <1> SUFFICES ASSUME SessionsIInv, [SessionsNext]_sessionVars PROVE SessionsIInv'
    OBVIOUS
  <1>1. CASE UNCHANGED sessionVars
    <2>1. session' = session /\ made' = made /\ working' = working
      BY <1>1 DEF sessionVars
    <2>2. RotatedOnce' /\ WithinDeviceLimit' /\ Live' = Live
      BY <2>1, SessionsStay
    <2>3. SessionsTypeOK' /\ RotationsAreAlone' /\ EndsWereThere'
      BY <2>1 DEF SessionsIInv, SessionsTypeOK, RotationsAreAlone, EndsWereThere
    <2>4. NumbersAreOwned'
      BY <2>1 DEF SessionsIInv, NumbersAreOwned, Inserts
    <2>5. LimitIsKept'
      BY <2>1, <2>2 DEF SessionsIInv, LimitIsKept
    <2> QED
      BY <2>2, <2>3, <2>4, <2>5 DEF SessionsIInv
  <1>2. ASSUME NEW q \in Commands, SignInBegins(q) \/ SignInLocks(q) \/ SignInCommits(q)
        PROVE  SessionsIInv'
    BY <1>2, SignInBeginsStep, SignInLocksStep, SignInCommitsStep
  <1>3. ASSUME NEW q \in Commands,
               RotateCommits(q) \/ RevokeSees(q) \/ RevokeCommits(q) \/ RollsBack(q)
        PROVE  SessionsIInv'
    BY <1>3, RotateCommitsStep, RevokeSeesStep, RevokeCommitsStep, RollsBackStep
  <1>4. ASSUME NEW q \in Commands, NEW s \in SessionIds, RotateEnds(q, s) \/ SignOut(q, s)
        PROVE  SessionsIInv'
    BY <1>4, RotateEndsStep, SignOutStep
  <1> QED
    BY <1>1, <1>2, <1>3, <1>4 DEF SessionsNext

\* The strengthening, with the types of the rows and of the transactions.
THEOREM SessionsInvariant == SessionsSpec => []SessionsIInv
  BY SessionsInitInv, SessionsStep, PTL DEF SessionsSpec

\* For any number of requests a token is exchanged once, by the row the old
\* session's UPDATE locks.
THEOREM RotatedOnceAlways == SessionsSpec => []RotatedOnce
  <1>1. SessionsIInv => RotatedOnce
    BY DEF SessionsIInv
  <1> QED
    BY <1>1, SessionsInvariant, PTL

\* For any number of requests and any limit, the sessions that are live at a
\* commit are within the limit, by the user's row that sign-ins and rotations
\* take in turn.
THEOREM WithinDeviceLimitAlways == SessionsSpec => []WithinDeviceLimit
  <1>1. SessionsIInv => WithinDeviceLimit
    BY DEF SessionsIInv
  <1> QED
    BY <1>1, SessionsInvariant, PTL

-----------------------------------------------------------------------------
(* The book of the sessions *)

LEMMA BookInit == SessionsInit => Book!Init
  <1> SUFFICES ASSUME SessionsInit PROVE Book!Init
    OBVIOUS
  <1>1. \A p \in SessionIds \X SessionIds : session[p[2]].from # p[1]
    BY DEF SessionsInit, NoSession, SessionIds
  <1>2. Live = {} /\ Ended = {}
    BY DEF SessionsInit, Live, Ended
  <1> QED
    BY <1>1, <1>2 DEF Book!Init, Successions

LEMMA BookStays ==
    ASSUME session' = session PROVE UNCHANGED Book!vars
  BY DEF Book!vars, Live, Ended, Successions

\* What such a commit does to the sets of the book.
LEMMA EndingOfSets ==
    ASSUME SessionsIInv, NEW ends \in SUBSET SessionIds, NEW fresh \in SessionIds \cup {NoSession},
           session' \in [SessionIds -> Session], Ends(ends, fresh),
           \A s \in ends : session[s].state # "none" \/ s = fresh,
           fresh # NoSession => session[fresh].state = "none"
    PROVE  LET held == Live \cup ({fresh} \ {NoSession}) IN
           /\ Live' = held \ (ends \cap held) /\ Ended' = Ended \cup (ends \cap held)
           /\ Successions' = Successions
  <1> DEFINE held == Live \cup ({fresh} \ {NoSession})
  <1>1. NoSession \notin SessionIds
    BY DEF NoSession, SessionIds
  <1>2. \A s \in SessionIds : session[s].state \in {"none", "live", "ended"}
    BY DEF SessionsIInv, SessionsTypeOK, Session
  <1>3. \A s \in SessionIds : s \in held <=> session[s].state = "live" \/ s = fresh
    BY <1>1 DEF Live
  <1>4. held \subseteq SessionIds
    BY DEF Live
  <1> HIDE DEF held
  <1>5. Live' = held \ (ends \cap held)
    BY <1>3, <1>4 DEF Ends, Live
  <1>6. Ended' = Ended \cup (ends \cap held)
    BY <1>1, <1>2, <1>3, <1>4 DEF Ends, Ended
  <1>7. Successions' = Successions
    <2>1. \A p \in SessionIds \X SessionIds : session'[p[2]].from = session[p[2]].from
      BY DEF Ends
    <2> QED
      BY <2>1 DEF Successions
  <1> QED
    BY <1>5, <1>6, <1>7 DEF held

\* Whoever is past the limit is older than whoever is not.
LEMMA OldestAreBeyond ==
    ASSUME NEW seen \in SUBSET SessionIds, NEW o \in Beyond(seen), NEW k \in seen \ Beyond(seen)
    PROVE  o < k
  <1>1. o \in Nat /\ k \in Nat /\ \A t \in seen : t \in Nat
    BY SessionsAssumption DEF SessionIds, Beyond
  <1>2. SUFFICES ASSUME k <= o PROVE FALSE
    BY <1>1
  <1> DEFINE pastO == {t \in seen : t > o}
             pastK == {t \in seen : t > k}
  <1>3. pastO \in SUBSET pastK
    <2>1. \A t \in seen : t > o => t > k
      BY <1>1, <1>2
    <2> QED
      BY <2>1
  <1>4. /\ IsFiniteSet(pastK) /\ Cardinality(pastK) \in Nat /\ Cardinality(pastO) \in Nat
        /\ Cardinality(pastO) <= Cardinality(pastK)
    <2>1. pastK \in SUBSET SessionIds /\ pastO \in SUBSET SessionIds
      OBVIOUS
    <2> QED
      BY <1>3, <2>1, SessionsAreFinite, FS_Subset
  <1>5. Cardinality(pastO) >= MaxLive /\ ~(Cardinality(pastK) >= MaxLive)
    BY DEF Beyond
  <1> QED
    BY <1>4, <1>5, SessionsAssumption

LEMMA SignInIsInTheBook ==
    ASSUME SessionsIInv, NEW q \in Commands, SignInCommits(q)
    PROVE  \E s \in SessionIds : \E pushed \in SUBSET (Live \cup {s}) : Book!SignIn(s, pushed)
  <1> DEFINE mine == working[q].mine
             ends == working[q].ends
             held == Live \cup {mine}
             pushed == ends \cap held
  <1>1. /\ mine \in SessionIds /\ session[mine].state = "none"
        /\ ends \in SUBSET SessionIds
        /\ \A s \in ends : session[s].state # "none" \/ s = mine
        /\ session' \in [SessionIds -> Session] /\ Ends(ends, mine)
    BY SignInEnds
  <1>2. PICK seen \in SUBSET SessionIds : Live \cup {mine} \subseteq seen /\ ends = Beyond(seen)
    BY SignInEnds
  <1> HIDE DEF mine, ends
  <1>3. NoSession \notin SessionIds
    BY DEF NoSession, SessionIds
  <1>4. Live' = held \ pushed /\ Ended' = Ended \cup pushed /\ Successions' = Successions
    <2> DEFINE known == Live \cup ({mine} \ {NoSession})
    <2>1. /\ Live' = known \ (ends \cap known) /\ Ended' = Ended \cup (ends \cap known)
          /\ Successions' = Successions
      BY <1>1, EndingOfSets
    <2>2. known = held
      BY <1>1, <1>3
    <2> QED
      BY <2>1, <2>2
  <1>5. mine \in Book!New
    BY <1>1 DEF Book!New, Live, Ended
  <1>6. \A o \in pushed, k \in held \ pushed : o < k
    BY <1>2, OldestAreBeyond
  <1>7. Book!Cardinality(held \ pushed) <= MaxLive
    <2>1. WithinDeviceLimit'
      BY SignInCommitsStep DEF SessionsIInv
    <2>2. Cardinality(held \ pushed) <= MaxLive
      BY <1>4, <2>1 DEF WithinDeviceLimit
    <2>3. Book!Cardinality(held \ pushed) = Cardinality(held \ pushed)
      BY DEF Book!Cardinality, Cardinality
    <2> QED
      BY <2>2, <2>3
  <1>8. pushed \in SUBSET held
    OBVIOUS
  <1> HIDE DEF pushed
  <1>9. Book!SignIn(mine, pushed)
    BY <1>4, <1>5, <1>6, <1>7, <1>8 DEF Book!SignIn
  <1> QED
    BY <1>1, <1>8, <1>9

\* Where no session comes to life, what was live of those that are ended is over.
LEMMA EndingIsInTheBook ==
    ASSUME SessionsIInv, NEW ends \in SUBSET SessionIds,
           session' \in [SessionIds -> Session], Ends(ends, NoSession),
           \A s \in ends : session[s].state # "none"
    PROVE  \E some \in SUBSET Live : Book!End(some)
  <1>1. LET held == Live \cup ({NoSession} \ {NoSession}) IN
        /\ Live' = held \ (ends \cap held) /\ Ended' = Ended \cup (ends \cap held)
        /\ Successions' = Successions
    BY EndingOfSets
  <1>2. /\ Live' = Live \ (ends \cap Live) /\ Ended' = Ended \cup (ends \cap Live)
        /\ Successions' = Successions
    BY <1>1
  <1>3. Book!End(ends \cap Live)
    BY <1>2 DEF Book!End
  <1> QED
    BY <1>3

LEMMA RotationIsInTheBook ==
    ASSUME SessionsIInv, NEW q \in Commands, RotateCommits(q)
    PROVE  \E o, s \in SessionIds : Book!Exchange(o, s)
  <1> DEFINE old == working[q].old
             mine == working[q].mine
  <1>1. /\ old \in SessionIds /\ session[old].state = "live"
        /\ mine \in SessionIds /\ session[mine].state = "none" /\ mine # old
        /\ session'[old].state = "ended" /\ session'[old].from = session[old].from
        /\ session'[mine].state = "live" /\ session'[mine].from = old
        /\ \A s \in SessionIds : s # mine /\ s # old => session'[s] = session[s]
    BY RotationExchanges
  <1> HIDE DEF old, mine
  <1>2. old \in Live /\ mine \in Book!New
    BY <1>1 DEF Book!New, Live, Ended
  <1>3. Live' = (Live \ {old}) \cup {mine}
    BY <1>1 DEF Live
  <1>4. Ended' = Ended \cup {old}
    BY <1>1 DEF Ended
  <1>5. Successions' = Successions \cup {<<old, mine>>}
    <2>1. session[mine].from = NoSession /\ NoSession \notin SessionIds
      BY <1>1 DEF SessionsIInv, NumbersAreOwned, NoSession, SessionIds
    <2>2. ASSUME NEW p \in SessionIds \X SessionIds
          PROVE  session'[p[2]].from = p[1] <=> session[p[2]].from = p[1] \/ p = <<old, mine>>
      <3>1. CASE p[2] = mine
        BY <1>1, <2>1, <3>1
      <3>2. CASE p[2] # mine
        BY <1>1, <3>2
      <3> QED
        BY <3>1, <3>2
    <2> QED
      BY <1>1, <2>2 DEF Successions
  <1>6. Book!Exchange(old, mine)
    BY <1>2, <1>3, <1>4, <1>5 DEF Book!Exchange
  <1> QED
    BY <1>1, <1>6

LEMMA BookStep == SessionsIInv /\ [SessionsNext]_sessionVars => [Book!Next]_(Book!vars)
  <1> SUFFICES ASSUME SessionsIInv, [SessionsNext]_sessionVars PROVE [Book!Next]_(Book!vars)
    OBVIOUS
  <1>1. CASE UNCHANGED sessionVars
    BY <1>1, BookStays DEF sessionVars
  <1>2. ASSUME NEW q \in Commands, SignInCommits(q) PROVE [Book!Next]_(Book!vars)
    BY <1>2, SignInIsInTheBook DEF Book!Next
  <1>3. ASSUME NEW q \in Commands, RevokeCommits(q) PROVE [Book!Next]_(Book!vars)
    BY <1>3, RevocationEnds, EndingIsInTheBook DEF Book!Next
  <1>4. ASSUME NEW q \in Commands, NEW s \in SessionIds, SignOut(q, s)
        PROVE  [Book!Next]_(Book!vars)
    <2>1. session' \in [SessionIds -> Session] /\ Ends({s}, NoSession) /\ {s} \subseteq Live
      BY <1>4, SignOutEnds
    <2>2. \A t \in {s} : session[t].state # "none"
      BY <2>1 DEF Live
    <2> QED
      BY <2>1, <2>2, EndingIsInTheBook DEF Book!Next
  <1>5. ASSUME NEW q \in Commands, RotateCommits(q) PROVE [Book!Next]_(Book!vars)
    BY <1>5, RotationIsInTheBook DEF Book!Next
  <1>6. ASSUME NEW q \in Commands, SignInBegins(q) \/ SignInLocks(q) \/ RevokeSees(q) \/ RollsBack(q)
        PROVE  [Book!Next]_(Book!vars)
    BY <1>6, BookStays DEF SignInBegins, SignInLocks, RevokeSees, RollsBack
  <1>7. ASSUME NEW q \in Commands, NEW s \in SessionIds, RotateEnds(q, s)
        PROVE  [Book!Next]_(Book!vars)
    BY <1>7, BookStays DEF RotateEnds
  <1> QED
    BY <1>1, <1>2, <1>3, <1>4, <1>5, <1>6, <1>7 DEF SessionsNext

\* For any number of requests, sessions and any limit, what the transactions make
\* of the sessions is what the book promises: each is one step of it, taken at
\* its commit, or nothing.
THEOREM ImplementsSessionBookAlways == SessionsSpec => ImplementsSessionBook
  <1> QED
    BY BookInit, BookStep, SessionsInvariant, PTL DEF SessionsSpec, ImplementsSessionBook, Book!Spec

-----------------------------------------------------------------------------
(* Bounded work *)

WorkIInv ==
    /\ running \in Nat /\ queue \in Seq(Callers) /\ timers \subseteq Callers
    /\ doing \in [Callers -> {"away", "waiting", "served", "working"}]
    /\ SlotsAreHeld

LEMMA HoldersAreFinite ==
    IsFiniteSet(Holders) /\ Cardinality(Holders) \in Nat
  BY BoundAssumption, FS_Subset, FS_CardinalityType DEF Holders

Distinct(s) == \A i, j \in DOMAIN s : s[i] = s[j] => i = j

\* A queue without one of its places, the rest in order.
Without(s, i, t) ==
    /\ t \in Seq(Callers) /\ Len(t) = Len(s) - 1
    /\ \A j \in 1..(Len(s) - 1) : t[j] = IF j < i THEN s[j] ELSE s[j + 1]

\* It holds the same callers but one, still once each.
LEMMA RestOfQueue ==
    ASSUME NEW s \in Seq(Callers), Distinct(s), NEW i \in DOMAIN s, NEW t, Without(s, i, t)
    PROVE  /\ Distinct(t)
           /\ \A b : (\E j \in DOMAIN t : t[j] = b) <=> b # s[i] /\ \E k \in DOMAIN s : s[k] = b
  <1> DEFINE At(j) == IF j < i THEN j ELSE j + 1
  <1>1. /\ Len(s) \in Nat /\ i \in 1..Len(s) /\ DOMAIN s = 1..Len(s)
        /\ DOMAIN t = 1..(Len(s) - 1)
    BY DEF Without
  <1>2. \A j \in DOMAIN t : At(j) \in DOMAIN s /\ At(j) # i /\ t[j] = s[At(j)]
    BY <1>1 DEF Without
  <1>3. \A j, k \in DOMAIN t : At(j) = At(k) => j = k
    BY <1>1
  <1>4. \A k \in DOMAIN s : k # i => \E j \in DOMAIN t : At(j) = k
    <2> TAKE k \in DOMAIN s
    <2> HAVE k # i
    <2>1. CASE k < i
      <3>1. k \in DOMAIN t /\ At(k) = k
        BY <1>1, <2>1
      <3> QED
        BY <3>1
    <2>2. CASE k > i
      <3>1. k - 1 \in DOMAIN t /\ At(k - 1) = k
        BY <1>1, <2>2
      <3> QED
        BY <3>1
    <2> QED
      BY <1>1, <2>1, <2>2
  <1> HIDE DEF At
  <1>5. Distinct(t)
    <2> SUFFICES ASSUME NEW j \in DOMAIN t, NEW k \in DOMAIN t, t[j] = t[k] PROVE j = k
      BY DEF Distinct
    <2>1. At(j) = At(k)
      BY <1>2 DEF Distinct
    <2> QED
      BY <1>3, <2>1
  <1>6. ASSUME NEW b, NEW j \in DOMAIN t, t[j] = b
        PROVE  b # s[i] /\ \E k \in DOMAIN s : s[k] = b
    BY <1>2, <1>6 DEF Distinct
  <1>7. ASSUME NEW b, b # s[i], NEW k \in DOMAIN s, s[k] = b PROVE \E j \in DOMAIN t : t[j] = b
    BY <1>2, <1>4, <1>7
  <1> QED
    BY <1>5, <1>6, <1>7

\* The first place of a caller that has one place is that place.
LEMMA RemovedFromQueue ==
    ASSUME NEW s \in Seq(Callers), Distinct(s), NEW i \in DOMAIN s
    PROVE  Without(s, i, RemoveFirst(s, s[i]))
  <1> DEFINE I == {j \in 1..Len(s) : s[j] = s[i]}
  <1>1. RemoveFirst(s, s[i]) = IF \E j \in 1..Len(s) : s[j] = s[i]
                               THEN RemoveAt(s, IF I # {} THEN Min(I) ELSE 0) ELSE s
    BY DEF RemoveFirst, SelectInSeq
  <1>2. I = {i}
    BY DEF Distinct
  <1>3. Min({i}) = i
    BY DEF Min
  <1>4. RemoveFirst(s, s[i]) = SubSeq(s, 1, i - 1) \o SubSeq(s, i + 1, Len(s))
    BY <1>1, <1>2, <1>3 DEF RemoveAt
  <1>5. /\ SubSeq(s, 1, i - 1) \in Seq(Callers) /\ Len(SubSeq(s, 1, i - 1)) = i - 1
        /\ \A j \in 1..(i - 1) : SubSeq(s, 1, i - 1)[j] = s[j]
    OBVIOUS
  <1>6. /\ SubSeq(s, i + 1, Len(s)) \in Seq(Callers)
        /\ Len(SubSeq(s, i + 1, Len(s))) = Len(s) - i
        /\ \A j \in 1..(Len(s) - i) : SubSeq(s, i + 1, Len(s))[j] = s[i + j]
    OBVIOUS
  <1> QED
    <2> DEFINE u == SubSeq(s, 1, i - 1)
               v == SubSeq(s, i + 1, Len(s))
    <2>1. u \in Seq(Callers) /\ v \in Seq(Callers) /\ Len(u) = i - 1 /\ Len(v) = Len(s) - i
      BY <1>5, <1>6
    <2> HIDE DEF u, v
    <2>2. /\ u \o v \in Seq(Callers) /\ Len(u \o v) = Len(s) - 1
          /\ \A j \in 1..(Len(s) - 1) : (u \o v)[j] = IF j < i THEN u[j] ELSE v[j - (i - 1)]
      BY <2>1
    <2>3. \A j \in 1..(Len(s) - 1) : j < i => u[j] = s[j]
      BY <1>5 DEF u
    <2>4. ASSUME NEW j \in 1..(Len(s) - 1), ~(j < i) PROVE v[j - (i - 1)] = s[j + 1]
      <3>1. j - (i - 1) \in 1..(Len(s) - i) /\ i + (j - (i - 1)) = j + 1
        BY <2>4
      <3> QED
        BY <1>6, <3>1 DEF v
    <2> QED
      BY <1>4, <2>2, <2>3, <2>4 DEF Without, u, v

LEMMA WorkInitInv == WorkInit => WorkIInv
  <1> SUFFICES ASSUME WorkInit PROVE WorkIInv
    OBVIOUS
  <1>1. Holders = {}
    BY DEF WorkInit, Holders
  <1>2. Cardinality(Holders) = 0
    BY <1>1, FS_EmptySet
  <1> QED
    BY <1>2, BoundAssumption DEF WorkInit, WorkIInv, SlotsAreHeld

LEMMA RunStartsStep == ASSUME WorkIInv, NEW c \in Callers, RunStarts(c) PROVE WorkIInv'
  <1>1. Holders' = Holders \cup {c} /\ c \notin Holders
    BY DEF WorkIInv, RunStarts, Holders
  <1>2. Cardinality(Holders') = Cardinality(Holders) + 1
    BY <1>1, HoldersAreFinite, FS_AddElement
  <1>3. queue = <<>>
    BY BoundAssumption DEF WorkIInv, SlotsAreHeld, RunStarts
  <1> QED
    BY <1>2, <1>3, BoundAssumption DEF WorkIInv, SlotsAreHeld, RunStarts

LEMMA RunWaitsStep == ASSUME WorkIInv, NEW c \in Callers, RunWaits(c) PROVE WorkIInv'
  <1>1. Holders' = Holders
    BY DEF WorkIInv, RunWaits, Holders
  <1>2. /\ queue' \in Seq(Callers) /\ Len(queue') = Len(queue) + 1 /\ queue'[Len(queue) + 1] = c
        /\ \A i \in DOMAIN queue : queue'[i] = queue[i] /\ queue[i] # c
    BY DEF WorkIInv, RunWaits, SlotsAreHeld
  <1>3. \A i, j \in DOMAIN queue' : queue'[i] = queue'[j] => i = j
    BY <1>2 DEF WorkIInv, SlotsAreHeld
  <1>4. \A b \in Callers : doing'[b] = "waiting" <=> \E i \in DOMAIN queue' : queue'[i] = b
    <2> TAKE b \in Callers
    <2>1. CASE b = c
      BY <1>2, <2>1 DEF WorkIInv, RunWaits
    <2>2. CASE b # c
      <3>1. doing'[b] = doing[b]
        BY <2>2 DEF WorkIInv, RunWaits
      <3>2. (\E i \in DOMAIN queue' : queue'[i] = b) <=> \E i \in DOMAIN queue : queue[i] = b
        BY <1>2, <2>2 DEF WorkIInv
      <3> QED
        BY <3>1, <3>2 DEF WorkIInv, SlotsAreHeld
    <2> QED
      BY <2>1, <2>2
  <1>5. timers' = {b \in Callers : doing'[b] = "waiting"}
    BY DEF WorkIInv, RunWaits, SlotsAreHeld
  <1> QED
    BY <1>1, <1>2, <1>3, <1>4, <1>5, BoundAssumption DEF WorkIInv, SlotsAreHeld, RunWaits

LEMMA TimesOutStep == ASSUME WorkIInv, NEW c \in Callers, TimesOut(c) PROVE WorkIInv'
  <1>1. PICK i \in DOMAIN queue : queue[i] = c
    BY DEF WorkIInv, TimesOut, SlotsAreHeld
  <1>2. Distinct(queue) /\ Without(queue, i, queue')
    BY <1>1, RemovedFromQueue DEF WorkIInv, TimesOut, SlotsAreHeld, Distinct
  <1>3. /\ doing' = [doing EXCEPT ![c] = "away"] /\ running' = running
        /\ timers' = timers \ {c} /\ doing[c] = "waiting"
    BY DEF TimesOut, WorkIInv, SlotsAreHeld
  <1>4. Holders' = Holders
    BY <1>3 DEF WorkIInv, Holders
  <1>5. \A j, k \in DOMAIN queue' : queue'[j] = queue'[k] => j = k
    BY <1>2, RestOfQueue DEF WorkIInv, Distinct
  <1>9. \A b : (\E j \in DOMAIN queue' : queue'[j] = b) <=> b # c /\ \E k \in DOMAIN queue : queue[k] = b
    <2>1. queue \in Seq(Callers)
      BY DEF WorkIInv
    <2>2. \A b : (\E j \in DOMAIN queue' : queue'[j] = b)
                     <=> b # queue[i] /\ \E k \in DOMAIN queue : queue[k] = b
      BY <1>2, <2>1, RestOfQueue, Zenon
    <2> QED
      BY <1>1, <2>2, Zenon
  <1>6. \A b \in Callers : doing'[b] = "waiting" <=> \E j \in DOMAIN queue' : queue'[j] = b
    BY <1>3, <1>9 DEF WorkIInv, SlotsAreHeld
  <1>7. timers' = {b \in Callers : doing'[b] = "waiting"}
    BY <1>3 DEF WorkIInv, SlotsAreHeld
  <1>8. queue # <<>>
    BY <1>1 DEF WorkIInv
  <1> QED
    BY <1>2, <1>3, <1>4, <1>5, <1>6, <1>7, <1>8, BoundAssumption
    DEF WorkIInv, SlotsAreHeld, Without

LEMMA TakesUpStep == ASSUME WorkIInv, NEW c \in Callers, TakesUp(c) PROVE WorkIInv'
  <1>1. Holders' = Holders
    BY DEF WorkIInv, TakesUp, Holders
  <1> QED
    BY <1>1 DEF WorkIInv, SlotsAreHeld, TakesUp

LEMMA WorkEndsStep == ASSUME WorkIInv, NEW c \in Callers, WorkEnds(c) PROVE WorkIInv'
  <1>1. CASE queue = <<>>
    <2>1. Holders' = Holders \ {c} /\ c \in Holders
      BY <1>1 DEF WorkIInv, WorkEnds, Holders
    <2>2. Cardinality(Holders') = Cardinality(Holders) - 1
      BY <2>1, HoldersAreFinite, FS_RemoveElement
    <2>3. Cardinality(Holders') \in Nat
      BY <2>1, HoldersAreFinite, FS_RemoveElement, FS_CardinalityType
    <2> QED
      BY <1>1, <2>2, <2>3, BoundAssumption DEF WorkIInv, SlotsAreHeld, WorkEnds
  <1>2. CASE queue # <<>>
    <2> DEFINE h == Head(queue)
    <2>1. /\ h \in Callers /\ h = queue[1] /\ Len(queue) \in Nat \ {0}
          /\ doing[h] = "waiting" /\ doing[c] = "working" /\ h # c
      BY <1>2 DEF WorkIInv, SlotsAreHeld, WorkEnds
    <2>2. Without(queue, 1, queue') /\ Distinct(queue) /\ 1 \in DOMAIN queue
      <3>1. queue' = Tail(queue) /\ queue \in Seq(Callers) /\ Len(queue) \in Nat \ {0}
        BY <1>2, <2>1 DEF WorkIInv, WorkEnds
      <3>2. Tail(queue) \in Seq(Callers) /\ Len(Tail(queue)) = Len(queue) - 1
        BY <1>2, <3>1
      <3>3. \A j \in 1..(Len(queue) - 1) : Tail(queue)[j] = queue[j + 1]
        BY <1>2, <3>1
      <3> QED
        BY <3>1, <3>2, <3>3 DEF Without, Distinct, WorkIInv, SlotsAreHeld
    <2>3. /\ doing' = [doing EXCEPT ![c] = "away", ![h] = "served"]
          /\ running' = running /\ timers' = timers \ {h}
      BY <1>2 DEF WorkEnds
    <2> HIDE DEF h
    <2>4. doing'[c] = "away" /\ doing'[h] = "served"
          /\ \A b \in Callers : b # c /\ b # h => doing'[b] = doing[b]
      BY <2>1, <2>3 DEF WorkIInv
    <2>5. Holders' = (Holders \ {c}) \cup {h} /\ h \notin Holders \ {c} /\ c \in Holders
      BY <2>1, <2>4 DEF Holders
    <2>6. Cardinality(Holders') = Cardinality(Holders)
      <3>1. IsFiniteSet(Holders \ {c}) /\ Cardinality(Holders \ {c}) = Cardinality(Holders) - 1
        BY <2>5, HoldersAreFinite, FS_RemoveElement
      <3>2. Cardinality(Holders') = Cardinality(Holders \ {c}) + 1
        BY <2>5, <3>1, FS_AddElement
      <3> QED
        BY <3>1, <3>2, HoldersAreFinite
    <2>7. \A j, k \in DOMAIN queue' : queue'[j] = queue'[k] => j = k
      BY <2>2, RestOfQueue DEF WorkIInv, Distinct
    <2>11. \A b : (\E j \in DOMAIN queue' : queue'[j] = b) <=> b # h /\ \E k \in DOMAIN queue : queue[k] = b
      <3>1. queue \in Seq(Callers)
        BY DEF WorkIInv
      <3>2. \A b : (\E j \in DOMAIN queue' : queue'[j] = b)
                       <=> b # queue[1] /\ \E k \in DOMAIN queue : queue[k] = b
        BY <2>2, <3>1, RestOfQueue, Zenon
      <3> QED
        BY <2>1, <3>2, Zenon
    <2>8. \A b \in Callers : doing'[b] = "waiting" <=> \E j \in DOMAIN queue' : queue'[j] = b
      BY <2>1, <2>4, <2>11 DEF WorkIInv, SlotsAreHeld
    <2>9. timers' = {b \in Callers : doing'[b] = "waiting"}
      BY <2>1, <2>3, <2>4 DEF WorkIInv, SlotsAreHeld
    <2>10. doing' \in [Callers -> {"away", "waiting", "served", "working"}]
      BY <2>3 DEF WorkIInv
    <2> QED
      BY <1>2, <2>2, <2>3, <2>6, <2>7, <2>8, <2>9, <2>10, <2>1, BoundAssumption
      DEF WorkIInv, SlotsAreHeld, Without
  <1> QED
    BY <1>1, <1>2

LEMMA WorkStep == WorkIInv /\ [WorkNext]_workVars => WorkIInv'
  <1> SUFFICES ASSUME WorkIInv, [WorkNext]_workVars PROVE WorkIInv'
    OBVIOUS
  <1>1. CASE UNCHANGED workVars
    BY <1>1 DEF workVars, WorkIInv, SlotsAreHeld, Holders
  <1>2. CASE WorkNext
    BY <1>2, RunStartsStep, RunWaitsStep, TimesOutStep, TakesUpStep, WorkEndsStep DEF WorkNext
  <1> QED
    BY <1>1, <1>2

\* For any number of callers, slots and places: no slot is lost or used twice,
\* whoever waits is queued once with a timer, and nobody waits beside a free slot.
THEOREM SlotsAreHeldAlways == WorkSpec => []SlotsAreHeld
  <1>1. WorkIInv => SlotsAreHeld
    BY DEF WorkIInv
  <1> QED
    BY WorkInitInv, WorkStep, <1>1, PTL DEF WorkSpec

-----------------------------------------------------------------------------
(* The audit chain *)

ChainedRow == [by : Writers, day : Nat, prev : Seq(Writers \X Nat), hash : Seq(Writers \X Nat)]

Linked(rows) ==
    \A i \in 1..Len(rows) :
        /\ rows[i].prev = IF i = 1 THEN Genesis ELSE rows[i - 1].hash
        /\ rows[i].hash = Hash(rows[i].prev, <<rows[i].by, rows[i].day>>)

ChainTypeOK ==
    /\ today \in 1..MaxDay /\ chain \in Seq(ChainedRow)
    /\ writing \in [Writers -> [day : 0..MaxDay, rows : Seq(ChainedRow)]]
    /\ DOMAIN sealing = Sealers /\ DOMAIN anchor = 1..MaxDay

\* One transaction has the lock, and what it has written continues the chain.
WritersTakeTurns ==
    /\ \A v, w \in Writers : HasTheLock(v) /\ HasTheLock(w) => v = w
    /\ \A w \in Writers : /\ Linked(chain \o writing[w].rows)
                          /\ \A i \in DOMAIN writing[w].rows : writing[w].rows[i].day = writing[w].day
                          /\ HasTheLock(w) => writing[w].day # 0
                          /\ writing[w].day <= today

\* A summary says of its day, which is over, what the chain says.
Says(s, d) ==
    /\ DayIsOver(d) /\ DayRows(d) # {}
    /\ \A f \in {"first", "last", "count", "head"} : Summary(d)[f] = s[f]

SummariesStand ==
    /\ \A k \in Sealers : sealing[k] # NoSummary =>
          /\ sealing[k].day \in 1..MaxDay
          /\ sealing[k].over => Says(sealing[k], sealing[k].day)
    /\ \A d \in 1..MaxDay : anchor[d] # NoSummary /\ anchor[d].over => Says(anchor[d], d)

ChainIInv == ChainTypeOK /\ Linked(chain) /\ WritersTakeTurns /\ SummariesStand

LEMMA HasLast ==
    ASSUME NEW n \in Nat, NEW T \in SUBSET (1..n), T # {}
    PROVE  Max(T) \in T
  <1> DEFINE U == {n - x : x \in T}
  <1>1. U \subseteq Nat /\ U # {}
    <2>1. \A x \in T : n - x \in Nat
      OBVIOUS
    <2> QED
      BY <2>1
  <1>2. \E x \in U : \A y \in U : ~(<<y, x>> \in OpToRel(<, Nat))
    BY <1>1, NatLessThanWellFounded, WFMin
  <1>3. OpToRel(<, Nat) = {ss \in Nat \X Nat : ss[1] < ss[2]}
    BY DEF OpToRel
  <1>4. PICK x \in U : \A y \in U : <<y, x>> \notin {ss \in Nat \X Nat : ss[1] < ss[2]}
    BY <1>2, <1>3
  <1>5. \A y \in U : ~(y < x) /\ x \in Nat /\ y \in Nat
    BY <1>1, <1>4
  <1>6. PICK m \in T : x = n - m
    OBVIOUS
  <1>7. \A y \in T : m >= y
    <2> TAKE y \in T
    <2>1. n - y \in U
      OBVIOUS
    <2> QED
      BY <1>5, <1>6, <2>1
  <1> QED
    BY <1>6, <1>7 DEF Max

\* Nothing is added to a day that is over, so what was said of it is still true.
LEMMA DayStands ==
    ASSUME ChainTypeOK, NEW s, NEW d \in 1..MaxDay, Says(s, d), DayIsOver(d)',
           NEW rows \in Seq(ChainedRow), chain' = chain \o rows,
           \A i \in DOMAIN rows : rows[i].day # d
    PROVE  Says(s, d)'
  <1>1. /\ Len(chain) \in Nat /\ Len(rows) \in Nat /\ Len(chain') = Len(chain) + Len(rows)
        /\ DOMAIN chain = 1..Len(chain) /\ DOMAIN chain' = 1..(Len(chain) + Len(rows))
        /\ \A i \in 1..Len(chain) : chain'[i] = chain[i]
        /\ \A i \in 1..(Len(chain) + Len(rows)) :
              i > Len(chain) => i - Len(chain) \in DOMAIN rows /\ chain'[i] = rows[i - Len(chain)]
    BY DEF ChainTypeOK
  <1>2. DayRows(d)' = DayRows(d)
    BY <1>1 DEF DayRows
  <1>3. Max(DayRows(d)) \in DOMAIN chain
    <2>1. DayRows(d) \in SUBSET (1..Len(chain)) /\ DayRows(d) # {}
      BY <1>1 DEF DayRows, Says
    <2>2. Max(DayRows(d)) \in DayRows(d)
      BY <1>1, <2>1, HasLast
    <2> QED
      BY <2>2 DEF DayRows
  <1>4. chain'[Max(DayRows(d))] = chain[Max(DayRows(d))]
    BY <1>1, <1>3
  <1>5. Summary(d)' = Summary(d)
    BY <1>2, <1>4 DEF Summary
  <1> QED
    BY <1>2, <1>5 DEF Says

\* The same when nothing is added at all.
LEMMA DayStays ==
    ASSUME NEW s, NEW d, Says(s, d), DayIsOver(d)', chain' = chain
    PROVE  Says(s, d)'
  BY DEF Says, Summary, DayRows

LEMMA ChainInitInv == ChainInit => ChainIInv
  <1> SUFFICES ASSUME ChainInit PROVE ChainIInv
    OBVIOUS
  <1>1. ChainTypeOK
    BY ChainAssumption DEF ChainInit, ChainTypeOK, NotWriting
  <1>2. Linked(chain) /\ WritersTakeTurns
    BY ChainAssumption DEF ChainInit, WritersTakeTurns, Linked, HasTheLock, NotWriting
  <1>3. SummariesStand
    BY DEF ChainInit, SummariesStand
  <1> QED
    BY <1>1, <1>2, <1>3 DEF ChainIInv

LEMMA DayPassesStep == ASSUME ChainIInv, DayPasses PROVE ChainIInv'
  <1>1. ChainTypeOK'
    BY ChainAssumption DEF DayPasses, ChainIInv, ChainTypeOK
  <1>2. Linked(chain)' /\ WritersTakeTurns'
    <2>1. chain' = chain /\ writing' = writing /\ today' = today + 1 /\ today \in Nat
      BY ChainAssumption DEF DayPasses, ChainIInv, ChainTypeOK
    <2>2. \A w \in Writers : writing[w].day \in Nat /\ writing[w].day <= today
      BY ChainAssumption DEF ChainIInv, ChainTypeOK, WritersTakeTurns
    <2>3. \A w \in Writers : writing[w].day <= today'
      BY <2>1, <2>2
    <2>4. Linked(chain)'
      BY <2>1 DEF ChainIInv, Linked
    <2>5. WritersTakeTurns'
      BY <2>1, <2>3 DEF ChainIInv, WritersTakeTurns, HasTheLock, Linked
    <2> QED BY <2>4, <2>5
  <1>3. \A d \in 1..MaxDay : DayIsOver(d) => DayIsOver(d)'
    BY ChainAssumption DEF DayPasses, ChainIInv, ChainTypeOK, DayIsOver
  <1>4. \A d \in 1..MaxDay : \A s : Says(s, d) => Says(s, d)'
    BY <1>3, DayStays DEF DayPasses, Says
  <1> QED
    BY <1>1, <1>2, <1>4 DEF DayPasses, ChainIInv, SummariesStand

\* A transaction that gains no record leaves the chain, and the days it is not of.
LEMMA WriterStays ==
    ASSUME ChainIInv, NEW w \in Writers, NEW new \in [day : 0..MaxDay, rows : Seq(ChainedRow)],
           writing' = [writing EXCEPT ![w] = new], new.rows = <<>>,
           new.day \in {0, today},
           UNCHANGED <<today, chain, sealing, anchor>>
    PROVE  ChainIInv'
  <1>1. ChainTypeOK'
    BY DEF ChainIInv, ChainTypeOK
  <1>2. Linked(chain)'
    BY DEF ChainIInv, Linked
  <1>3. chain \o <<>> = chain
    BY DEF ChainIInv, ChainTypeOK
  <1>4. WritersTakeTurns'
    <2>1. writing'[w] = new /\ \A v \in Writers : v # w => writing'[v] = writing[v]
      BY DEF ChainIInv, ChainTypeOK
    <2>2. \A v \in Writers : HasTheLock(v)' => HasTheLock(v) /\ v # w
      BY <2>1 DEF HasTheLock
    <2>3. \A v \in Writers : Linked(chain' \o writing'[v].rows)
      BY <1>3, <2>1 DEF ChainIInv, WritersTakeTurns
    <2>4. \A v \in Writers : /\ writing'[v].day <= today'
                             /\ HasTheLock(v)' => writing'[v].day # 0
                             /\ \A i \in DOMAIN writing'[v].rows :
                                    writing'[v].rows[i].day = writing'[v].day
      BY <2>1, <2>2 DEF ChainIInv, ChainTypeOK, WritersTakeTurns
    <2> QED
      BY <2>2, <2>3, <2>4 DEF ChainIInv, WritersTakeTurns
  <1>5. \A d \in 1..MaxDay : DayIsOver(d) => DayIsOver(d)'
    BY DEF ChainIInv, ChainTypeOK, DayIsOver
  <1>6. \A d \in 1..MaxDay : \A s : Says(s, d) => Says(s, d)'
    BY <1>5, DayStays DEF Says
  <1> QED
    BY <1>1, <1>2, <1>4, <1>6 DEF ChainIInv, SummariesStand

LEMMA WriterBeginsStep == ASSUME ChainIInv, NEW w \in Writers, WriterBegins(w) PROVE ChainIInv'
  <1>1. writing' = [writing EXCEPT ![w] = [day |-> today, rows |-> <<>>]]
    <2>1. [NotWriting EXCEPT !.day = today] = [day |-> today, rows |-> <<>>]
      BY DEF NotWriting
    <2>2. writing[w] = NotWriting /\ writing' = [writing EXCEPT ![w] = [writing[w] EXCEPT !.day = today]]
      BY DEF WriterBegins
    <2> QED
      BY <2>1, <2>2
  <1>2. [day |-> today, rows |-> <<>>] \in [day : 0..MaxDay, rows : Seq(ChainedRow)]
    BY ChainAssumption DEF ChainIInv, ChainTypeOK
  <1> QED
    BY <1>1, <1>2, WriterStays DEF WriterBegins

LEMMA WriterRollsBackStep ==
    ASSUME ChainIInv, NEW w \in Writers, WriterRollsBack(w) PROVE ChainIInv'
  <1>1. [day |-> 0, rows |-> <<>>] \in [day : 0..MaxDay, rows : Seq(ChainedRow)]
    BY ChainAssumption
  <1> QED
    BY <1>1, WriterStays DEF WriterRollsBack, NotWriting

\* Linking one more record to a linked sequence.
LEMMA LinkOne ==
    ASSUME NEW s \in Seq(ChainedRow), Linked(s), NEW row \in ChainedRow,
           row.prev = HeadHash(s), row.hash = Hash(row.prev, <<row.by, row.day>>)
    PROVE  Linked(Append(s, row))
  <1>1. /\ Len(s) \in Nat /\ Len(Append(s, row)) = Len(s) + 1
        /\ Append(s, row)[Len(s) + 1] = row
        /\ \A i \in 1..Len(s) : Append(s, row)[i] = s[i]
    OBVIOUS
  <1>2. s = <<>> <=> Len(s) = 0
    OBVIOUS
  <1>3. ASSUME NEW i \in 1..Len(s)
        PROVE  /\ Append(s, row)[i] = s[i]
               /\ i # 1 => Append(s, row)[i - 1] = s[i - 1]
    <2>1. i # 1 => i - 1 \in 1..Len(s)
      BY <1>1
    <2> QED
      BY <1>1, <2>1
  <1>4. Len(s) # 0 => Append(s, row)[Len(s)] = s[Len(s)]
    BY <1>1
  <1> QED
    BY <1>1, <1>2, <1>3, <1>4 DEF Linked, HeadHash

LEMMA RecordIsChainedStep ==
    ASSUME ChainIInv, NEW w \in Writers, RecordIsChained(w) PROVE ChainIInv'
  <1> DEFINE prev == HeadHash(chain \o writing[w].rows)
             row == [by |-> w, day |-> writing[w].day, prev |-> prev,
                     hash |-> Hash(prev, <<w, writing[w].day>>)]
  <1>1. /\ writing[w].day # 0 /\ \A v \in Writers \ {w} : ~HasTheLock(v)
        /\ writing' = [writing EXCEPT ![w].rows = Append(@, row)]
        /\ UNCHANGED <<today, chain, sealing, anchor>>
    BY DEF RecordIsChained
  <1>2. /\ chain \in Seq(ChainedRow) /\ writing[w].rows \in Seq(ChainedRow) /\ writing[w].day \in 0..MaxDay
        /\ chain \o writing[w].rows \in Seq(ChainedRow)
    BY DEF ChainIInv, ChainTypeOK
  <1>3. prev \in Seq(Writers \X Nat)
    <2>1. CASE chain \o writing[w].rows = <<>>
      BY <2>1 DEF HeadHash, Genesis
    <2>2. CASE chain \o writing[w].rows # <<>>
      <3>1. (chain \o writing[w].rows)[Len(chain \o writing[w].rows)] \in ChainedRow
        BY <1>2, <2>2
      <3> QED
        BY <2>2, <3>1 DEF HeadHash, ChainedRow
    <2> QED
      BY <2>1, <2>2
  <1>4. row \in ChainedRow
    <2>1. Hash(prev, <<w, writing[w].day>>) \in Seq(Writers \X Nat)
      BY <1>2, <1>3, ChainAssumption DEF Hash
    <2> QED
      BY <1>2, <1>3, <2>1, ChainAssumption DEF ChainedRow
  <1>5. row.prev = prev /\ row.hash = Hash(row.prev, <<row.by, row.day>>) /\ row.day = writing[w].day
    OBVIOUS
  <1> HIDE DEF row, prev
  <1>6. Linked(Append(chain \o writing[w].rows, row))
    BY <1>2, <1>4, <1>5, LinkOne DEF prev, ChainIInv, WritersTakeTurns
  <1>7. chain \o Append(writing[w].rows, row) = Append(chain \o writing[w].rows, row)
    BY <1>2, <1>4
  <1>8. /\ writing'[w].rows = Append(writing[w].rows, row) /\ writing'[w].day = writing[w].day
        /\ \A v \in Writers : v # w => writing'[v] = writing[v]
    BY <1>1 DEF ChainIInv, ChainTypeOK
  <1>9. ChainTypeOK'
    <2>1. Append(writing[w].rows, row) \in Seq(ChainedRow)
      BY <1>2, <1>4
    <2> QED
      BY <1>1, <2>1 DEF ChainIInv, ChainTypeOK
  <1>10. WritersTakeTurns'
    <2>1. \A v \in Writers : HasTheLock(v)' => v = w
      BY <1>1, <1>8 DEF HasTheLock
    <2>2. \A v \in Writers : Linked(chain' \o writing'[v].rows)
      BY <1>1, <1>6, <1>7, <1>8 DEF ChainIInv, WritersTakeTurns
    <2>3. \A i \in DOMAIN writing'[w].rows : writing'[w].rows[i].day = writing'[w].day
      <3>1. \A i \in DOMAIN writing[w].rows : writing[w].rows[i].day = writing[w].day
        BY DEF ChainIInv, WritersTakeTurns
      <3>2. /\ DOMAIN Append(writing[w].rows, row) = 1..(Len(writing[w].rows) + 1)
            /\ \A i \in 1..Len(writing[w].rows) : Append(writing[w].rows, row)[i] = writing[w].rows[i]
            /\ Append(writing[w].rows, row)[Len(writing[w].rows) + 1] = row
            /\ Len(writing[w].rows) \in Nat /\ DOMAIN writing[w].rows = 1..Len(writing[w].rows)
        BY <1>2, <1>4
      <3> QED
        BY <1>5, <1>8, <3>1, <3>2
    <2>4. \A v \in Writers : /\ writing'[v].day <= today'
                             /\ HasTheLock(v)' => writing'[v].day # 0
                             /\ \A i \in DOMAIN writing'[v].rows :
                                    writing'[v].rows[i].day = writing'[v].day
      BY <1>1, <1>8, <2>1, <2>3 DEF ChainIInv, WritersTakeTurns
    <2> QED
      BY <2>1, <2>2, <2>4 DEF WritersTakeTurns
  <1>11. \A d \in 1..MaxDay : DayIsOver(d) => DayIsOver(d)'
    BY <1>1, <1>8 DEF DayIsOver
  <1>12. \A d \in 1..MaxDay : \A s : Says(s, d) => Says(s, d)'
    BY <1>1, <1>11, DayStays DEF Says
  <1> QED
    BY <1>1, <1>9, <1>10, <1>12 DEF ChainIInv, SummariesStand, Linked

LEMMA WriterCommitsStep == ASSUME ChainIInv, NEW w \in Writers, WriterCommits(w) PROVE ChainIInv'
  <1> DEFINE rows == writing[w].rows
  <1>1. /\ HasTheLock(w) /\ chain' = chain \o rows
        /\ writing' = [writing EXCEPT ![w] = [day |-> 0, rows |-> <<>>]]
        /\ UNCHANGED <<today, sealing, anchor>>
    BY DEF WriterCommits, NotWriting
  <1>2. chain \in Seq(ChainedRow) /\ rows \in Seq(ChainedRow) /\ chain' \in Seq(ChainedRow)
    BY <1>1 DEF ChainIInv, ChainTypeOK
  <1>3. Linked(chain)'
    BY <1>1 DEF ChainIInv, WritersTakeTurns, Linked
  <1>4. writing'[w] = [day |-> 0, rows |-> <<>>] /\ \A v \in Writers : v # w => writing'[v] = writing[v]
    BY <1>1 DEF ChainIInv, ChainTypeOK
  <1>5. \A v \in Writers : writing'[v].rows = <<>>
    BY <1>1, <1>4 DEF ChainIInv, WritersTakeTurns, HasTheLock
  <1>6. ChainTypeOK'
    BY <1>1, <1>2, ChainAssumption DEF ChainIInv, ChainTypeOK
  <1>7. WritersTakeTurns'
    <2>1. chain' \o <<>> = chain'
      BY <1>2
    <2>2. \A v \in Writers : ~HasTheLock(v)'
      BY <1>5 DEF HasTheLock
    <2>3. \A v \in Writers : writing'[v].day <= today'
      BY <1>1, <1>4 DEF ChainIInv, ChainTypeOK, WritersTakeTurns
    <2>4. \A v \in Writers : Linked(chain' \o writing'[v].rows)
      BY <1>3, <1>5, <2>1 DEF Linked
    <2>5. \A v \in Writers : \A i \in DOMAIN writing'[v].rows : FALSE
      BY <1>5
    <2> QED
      BY <2>2, <2>3, <2>4, <2>5 DEF WritersTakeTurns
  <1>8. ASSUME NEW d \in 1..MaxDay, NEW s, Says(s, d) PROVE Says(s, d)'
    <2>1. DayIsOver(d)'
      BY <1>1, <1>4, <1>8 DEF Says, DayIsOver
    <2>2. \A i \in DOMAIN rows : rows[i].day # d
      BY <1>8 DEF Says, DayIsOver, ChainIInv, WritersTakeTurns
    <2> QED
      BY <1>1, <1>2, <1>8, <2>1, <2>2, DayStands DEF ChainIInv
  <1> QED
    BY <1>1, <1>3, <1>6, <1>7, <1>8 DEF ChainIInv, SummariesStand

\* Sealing writes no record.
LEMMA SealingStays ==
    ASSUME ChainIInv, UNCHANGED <<today, chain, writing>>,
           DOMAIN sealing' = Sealers, DOMAIN anchor' = 1..MaxDay
    PROVE  /\ ChainTypeOK' /\ Linked(chain)' /\ WritersTakeTurns'
           /\ \A d, s : Says(s, d) => Says(s, d)'
  <1>1. \A d : DayIsOver(d) => DayIsOver(d)'
    BY DEF DayIsOver
  <1>2. \A d, s : Says(s, d) => Says(s, d)'
    BY <1>1, DayStays DEF Says
  <1> QED
    BY <1>2 DEF ChainIInv, ChainTypeOK, WritersTakeTurns, HasTheLock, Linked

LEMMA SealReadsStep ==
    ASSUME ChainIInv, NEW k \in Sealers, NEW d \in 1..MaxDay, SealReads(k, d) PROVE ChainIInv'
  <1> DEFINE s == [f \in DOMAIN NoSummary |-> IF f = "over" THEN DayIsOver(d) ELSE Summary(d)[f]]
  <1>1. /\ DayRows(d) # {} /\ sealing' = [sealing EXCEPT ![k] = s]
        /\ UNCHANGED <<today, chain, writing, anchor>>
    BY DEF SealReads
  <1>2. DOMAIN NoSummary = {"day", "first", "last", "count", "head", "over"}
    BY DEF NoSummary
  <1>3. /\ s.day = Summary(d)["day"] /\ s.over = DayIsOver(d)
        /\ \A f \in {"first", "last", "count", "head"} : Summary(d)[f] = s[f]
    BY <1>2
  <1>4. Summary(d)["day"] = d
    BY DEF Summary
  <1> HIDE DEF s
  <1>5. s.over => Says(s, d)
    BY <1>1, <1>3 DEF Says
  <1>6. DOMAIN sealing' = Sealers /\ sealing'[k] = s
        /\ \A j \in Sealers : j # k => sealing'[j] = sealing[j]
    BY <1>1 DEF ChainIInv, ChainTypeOK
  <1>7. /\ ChainTypeOK' /\ Linked(chain)' /\ WritersTakeTurns'
        /\ \A e, t : Says(t, e) => Says(t, e)'
    BY <1>1, <1>6, SealingStays DEF ChainIInv, ChainTypeOK
  <1>8. SummariesStand'
    BY <1>1, <1>3, <1>4, <1>5, <1>6, <1>7 DEF ChainIInv, SummariesStand
  <1> QED
    BY <1>7, <1>8 DEF ChainIInv

LEMMA SealEndsStep ==
    ASSUME ChainIInv, NEW k \in Sealers, SealEnds(k) \/ SealIsLost(k) PROVE ChainIInv'
  <1> DEFINE d == sealing[k].day
  <1>1. /\ sealing[k] # NoSummary /\ sealing' = [sealing EXCEPT ![k] = NoSummary]
        /\ UNCHANGED <<today, chain, writing>>
        /\ anchor' = anchor \/ anchor' = [anchor EXCEPT ![d] = sealing[k]]
    BY DEF SealEnds, SealIsLost
  <1>2. d \in 1..MaxDay /\ (sealing[k].over => Says(sealing[k], d))
    BY <1>1 DEF ChainIInv, SummariesStand
  <1> HIDE DEF d
  <1>3. DOMAIN sealing' = Sealers /\ DOMAIN anchor' = 1..MaxDay
    BY <1>1 DEF ChainIInv, ChainTypeOK
  <1>4. /\ ChainTypeOK' /\ Linked(chain)' /\ WritersTakeTurns'
        /\ \A e, t : Says(t, e) => Says(t, e)'
    BY <1>1, <1>3, SealingStays
  <1>5. \A j \in Sealers : sealing'[j] = NoSummary \/ sealing'[j] = sealing[j]
    BY <1>1 DEF ChainIInv, ChainTypeOK
  <1>6. \A e \in 1..MaxDay : anchor'[e] = anchor[e] \/ (e = d /\ anchor'[e] = sealing[k])
    BY <1>1, <1>2 DEF ChainIInv, ChainTypeOK
  <1>7. SummariesStand'
    BY <1>2, <1>4, <1>5, <1>6 DEF ChainIInv, SummariesStand
  <1> QED
    BY <1>4, <1>7 DEF ChainIInv

LEMMA ChainStep == ChainIInv /\ [ChainNext]_auditVars => ChainIInv'
  <1> SUFFICES ASSUME ChainIInv, [ChainNext]_auditVars PROVE ChainIInv'
    OBVIOUS
  <1>1. CASE UNCHANGED auditVars
    <2>1. UNCHANGED <<today, chain, writing, sealing, anchor>>
      BY <1>1 DEF auditVars
    <2>2. /\ ChainTypeOK' /\ Linked(chain)' /\ WritersTakeTurns'
          /\ \A d, s : Says(s, d) => Says(s, d)'
      BY <2>1, SealingStays DEF ChainIInv, ChainTypeOK
    <2> QED
      BY <2>1, <2>2 DEF ChainIInv, SummariesStand
  <1>2. CASE ChainNext
    BY <1>2, DayPassesStep, WriterBeginsStep, RecordIsChainedStep, WriterCommitsStep,
       WriterRollsBackStep, SealReadsStep, SealEndsStep DEF ChainNext
  <1> QED
    BY <1>1, <1>2

\* For any number of transactions, sealers, days and records, the chain is one
\* unbroken order, and the anchor of a day that was over when it was read is
\* what the chain says of that day.
THEOREM HonestHistoryVerifiesAlways == ChainSpec => []HonestHistoryVerifies
  <1>1. ChainIInv => HonestHistoryVerifies
    <2> SUFFICES ASSUME ChainIInv PROVE HonestHistoryVerifies
      OBVIOUS
    <2>1. VerifyChain(1, Len(chain))
      BY DEF ChainIInv, Linked, VerifyChain
    <2>2. \A d \in 1..MaxDay : anchor[d] # NoSummary /\ anchor[d].over => VerifyAnchor(d)
      BY DEF ChainIInv, SummariesStand, Says, VerifyAnchor
    <2> QED
      BY <2>1, <2>2 DEF HonestHistoryVerifies
  <1> QED
    BY ChainInitInv, ChainStep, <1>1, PTL DEF ChainSpec
=============================================================================
