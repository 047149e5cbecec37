------------------------ MODULE AttemptServerProofs ------------------------
(***************************************************************************)
(* Theorems about AttemptServer for any number of attempts, any answers,   *)
(* any window and any duration.                                            *)
(***************************************************************************)
EXTENDS AttemptServer, TLAPS

\* What a delivery has read of a log, and what a score was computed from, is
\* what the submission froze; nothing precedes the attempt it belongs to.
MarkingInv ==
    /\ \A w \in marking : state[w[1]] = "submitted" /\ w[2] = counted[w[1]]
    /\ ScoreIsOfTheSubmission

IInv == TypeOK /\ AnnouncedOnce /\ MarkingInv

-----------------------------------------------------------------------------
\* Nothing has been created, announced or marked to begin with.
LEMMA InitInv == Init => IInv
  BY AttemptAssumption
     DEF Init, IInv, TypeOK, AnnouncedOnce, MarkingInv, ScoreIsOfTheSubmission,
         Active, Final

\* A step that changes no row but one that is not submitted, before or after,
\* and no score, leaves what is marked as it was.
LEMMA OtherRow ==
  ASSUME TypeOK, AnnouncedOnce, MarkingInv, NEW a \in Attempt,
         state[a] # "submitted", NEW s \in {"created", "in_progress", "abandoned"},
         state' = [state EXCEPT ![a] = s],
         UNCHANGED <<announced, counted, marking, score>>
  PROVE  AnnouncedOnce' /\ MarkingInv'
<1>1. AnnouncedOnce'
  BY DEF AnnouncedOnce, TypeOK
<1>2. \A w \in marking' : state'[w[1]] = "submitted" /\ w[2] = counted'[w[1]]
  BY DEF MarkingInv, TypeOK
<1>3. ScoreIsOfTheSubmission'
  BY DEF MarkingInv, ScoreIsOfTheSubmission, TypeOK
<1> QED BY <1>1, <1>2, <1>3 DEF MarkingInv

\* The transaction that submits, whoever asked for it.
LEMMA SubmissionStep ==
  ASSUME IInv, NEW a \in Attempt, SaveSubmission(a)
  PROVE  IInv'
<1> USE DEF IInv, SaveSubmission
<1>1. TypeOK'
  BY DEF TypeOK, log, work, Active, Final
<1>2. AnnouncedOnce'
  BY DEF AnnouncedOnce, TypeOK, log, work
<1>3. \A w \in marking' : state'[w[1]] = "submitted" /\ w[2] = counted'[w[1]]
  BY DEF MarkingInv, TypeOK, log, work
<1>4. ScoreIsOfTheSubmission'
  BY DEF MarkingInv, ScoreIsOfTheSubmission, TypeOK, log, work
<1> QED BY <1>1, <1>2, <1>3, <1>4 DEF MarkingInv

\* The invariant is kept by every step of the system.
LEMMA InvStep == IInv /\ [Next]_vars => IInv'
<1> SUFFICES ASSUME IInv, [Next]_vars PROVE IInv'
  OBVIOUS
<1> USE DEF IInv
<1>1. CASE UNCHANGED vars
  BY <1>1 DEF vars, attempt, log, work, TypeOK, AnnouncedOnce, MarkingInv,
              ScoreIsOfTheSubmission
<1>2. CASE Tick \/ Open \/ Close
  BY <1>2 DEF Tick, Open, Close, attempt, log, work, TypeOK, AnnouncedOnce,
              MarkingInv, ScoreIsOfTheSubmission
<1>3. ASSUME NEW a \in Attempt, Create(a) PROVE IInv'
  <2>1. TypeOK'
    BY <1>3, AttemptAssumption DEF Create, log, work, TypeOK, Active, Final
  <2> QED BY <1>3, <2>1, OtherRow DEF Create, log, work
<1>4. ASSUME NEW a \in Attempt, Start(a) PROVE IInv'
  <2>1. PICK t \in createdAt[a]..now : deadline' = [deadline EXCEPT ![a] = t + Duration]
    BY <1>4 DEF Start
  <2>2. t + Duration \in Nat
    BY <2>1, AttemptAssumption DEF TypeOK
  <2>3. TypeOK'
    BY <1>4, <2>1, <2>2 DEF Start, log, work, TypeOK, Active, Final
  <2> QED BY <1>4, <2>3, OtherRow DEF Start, log, work
<1>5. ASSUME NEW a \in Attempt, NEW e \in Event, Append(a, e) PROVE IInv'
  <2>1. TypeOK'
    BY <1>5 DEF Append, attempt, work, TypeOK
  <2>2. AnnouncedOnce'
    BY <1>5 DEF Append, attempt, AnnouncedOnce
  <2>3. \A b \in Attempt : state[b] = "submitted" => counted'[b] = counted[b]
    BY <1>5 DEF Append, TypeOK
  <2>4. \A w \in marking' : state'[w[1]] = "submitted" /\ w[2] = counted'[w[1]]
    BY <1>5, <2>3 DEF Append, attempt, work, MarkingInv, TypeOK
  <2>5. ScoreIsOfTheSubmission'
    BY <1>5, <2>3 DEF Append, attempt, work, MarkingInv, ScoreIsOfTheSubmission
  <2> QED BY <2>1, <2>2, <2>4, <2>5 DEF MarkingInv
<1>6. ASSUME NEW a \in Attempt, SubmitExpired(a) \/ \E why \in {"manual", "expiry", "recovered"} : Submit(a, why)
      PROVE IInv'
  BY <1>6, SubmissionStep DEF SubmitExpired, Submit
<1>7. ASSUME NEW a \in Attempt, CountAnswers(a) PROVE IInv'
  <2>1. TypeOK'
    BY <1>7 DEF CountAnswers, attempt, log, TypeOK
  <2> QED BY <1>7, <2>1 DEF CountAnswers, attempt, log, AnnouncedOnce, MarkingInv,
                            ScoreIsOfTheSubmission
<1>8. ASSUME NEW a \in Attempt, NEW read \in Active, Abandon(a, read) PROVE IInv'
  <2>1. TypeOK'
    BY <1>8 DEF Abandon, log, TypeOK, Active, Final
  <2>2. CASE state[a] = read
    <3>1. state[a] # "submitted"
      BY <2>2 DEF Active
    <3> QED BY <1>8, <2>1, <2>2, <3>1, OtherRow DEF Abandon, log
  <2>3. CASE state[a] # read
    BY <1>8, <2>1, <2>3 DEF Abandon, log, AnnouncedOnce, MarkingInv, ScoreIsOfTheSubmission
  <2> QED BY <2>2, <2>3
<1>9. ASSUME NEW a \in Attempt, ReadLog(a) PROVE IInv'
  <2>1. TypeOK'
    BY <1>9 DEF ReadLog, attempt, log, TypeOK
  <2>2. \A w \in marking' : state'[w[1]] = "submitted" /\ w[2] = counted'[w[1]]
    BY <1>9 DEF ReadLog, attempt, log, MarkingInv
  <2> QED BY <1>9, <2>1, <2>2 DEF ReadLog, attempt, log, AnnouncedOnce, MarkingInv,
                                  ScoreIsOfTheSubmission
<1>10. ASSUME NEW a \in Attempt, NEW read \in SUBSET Event, WriteScore(a, read) PROVE IInv'
  <2>1. TypeOK'
    BY <1>10 DEF WriteScore, attempt, log, TypeOK
  <2>2. AnnouncedOnce'
    BY <1>10 DEF WriteScore, attempt, AnnouncedOnce
  <2>3. \A w \in marking' : state'[w[1]] = "submitted" /\ w[2] = counted'[w[1]]
    BY <1>10 DEF WriteScore, attempt, log, MarkingInv
  <2>4. state[a] = "submitted" /\ read = counted[a]
    BY <1>10 DEF WriteScore, MarkingInv
  <2>5. ScoreIsOfTheSubmission'
    BY <1>10, <2>4 DEF WriteScore, attempt, log, MarkingInv, ScoreIsOfTheSubmission, TypeOK
  <2> QED BY <2>1, <2>2, <2>3, <2>5 DEF MarkingInv
<1> QED BY <1>1, <1>2, <1>3, <1>4, <1>5, <1>6, <1>7, <1>8, <1>9, <1>10
        DEF Next, Request, Sweep, Consume

\* TypeOK, AnnouncedOnce and what makes them inductive hold in every reachable
\* state.
THEOREM Invariant == Spec => []IInv
<1> QED BY InitInv, InvStep, PTL DEF Spec

\* Every column and every piece of work in flight keeps its type.
THEOREM TypeCorrect == Spec => []TypeOK
<1>1. IInv => TypeOK
  BY DEF IInv
<1> QED BY <1>1, Invariant, PTL

\* A submitted attempt has exactly one AttemptSubmitted in the outbox, any
\* other none, whoever races to submit it (attempt.repository.ts #move).
THEOREM AnnouncedOnceAlways == Spec => []AnnouncedOnce
<1>1. IInv => AnnouncedOnce
  BY DEF IInv
<1> QED BY <1>1, Invariant, PTL

\* A score is that of the answers the submission froze, whichever delivery
\* read them (scoring-consumer.ts, classify_response_event).
THEOREM ScoreIsOfTheSubmissionAlways == Spec => []ScoreIsOfTheSubmission
<1>1. IInv => ScoreIsOfTheSubmission
  BY DEF IInv, MarkingInv
<1> QED BY <1>1, Invariant, PTL

-----------------------------------------------------------------------------
\* Nothing has begun, as the promise says.
LEMMA SittingInit == Init => Promise!Init
  BY DEF Init, Promise!Init, PhaseOf, Active

\* Every step is a step of the promise or leaves what it speaks of unchanged.
LEMMA SittingStep == IInv /\ [Next]_vars => [Promise!Next]_(Promise!vars)
<1> SUFFICES ASSUME IInv, [Next]_vars PROVE Promise!Next \/ UNCHANGED Promise!vars
  OBVIOUS
<1> USE DEF IInv
<1> DEFINE phase == [a \in Attempt |-> PhaseOf(state[a])]
<1>0. /\ PhaseOf("absent") = "none" /\ PhaseOf("created") = "open"
      /\ PhaseOf("in_progress") = "open" /\ PhaseOf("submitted") = "submitted"
      /\ PhaseOf("abandoned") = "lapsed"
  BY DEF PhaseOf, Active
<1>m. ASSUME NEW a \in Attempt, NEW s, state' = [state EXCEPT ![a] = s]
      PROVE phase' = [phase EXCEPT ![a] = PhaseOf(s)]
  BY <1>m DEF TypeOK
<1>1. CASE UNCHANGED <<state, counted, score>>
  BY <1>1 DEF Promise!vars
<1>2. ASSUME NEW a \in Attempt, Create(a) PROVE Promise!Next
  <2>1. phase' = [phase EXCEPT ![a] = "open"]
    <3>1. state' = [state EXCEPT ![a] = "created"]
      BY <1>2 DEF Create
    <3>2. phase' = [phase EXCEPT ![a] = PhaseOf("created")]
      BY <3>1, <1>m
    <3> QED BY <3>2, <1>0
  <2>2. phase[a] = "none" /\ UNCHANGED <<counted, score>>
    <3>1. state[a] = "absent" /\ UNCHANGED <<counted, score>>
      BY <1>2 DEF Create, log, work
    <3> QED BY <3>1, <1>0
  <2>3. Promise!Begin(a)
    BY <2>1, <2>2 DEF Promise!Begin
  <2> QED BY <2>3 DEF Promise!Next
<1>3. ASSUME NEW a \in Attempt, Start(a) PROVE UNCHANGED Promise!vars
  <2>1. phase' = phase
    BY <1>0, <1>3, <1>m DEF Start, TypeOK
  <2> QED BY <1>3, <2>1 DEF Start, log, work, Promise!vars
<1>4. ASSUME NEW a \in Attempt, NEW e \in Event, Append(a, e)
      PROVE Promise!Next \/ UNCHANGED Promise!vars
  <2>1. CASE state[a] = "in_progress"
    <3>1. Promise!Answer(a, e)
      BY <1>0, <1>4, <2>1 DEF Append, attempt, work, Promise!Answer
    <3> QED BY <3>1 DEF Promise!Next
  <2>2. CASE state[a] = "submitted"
    BY <1>4, <2>2 DEF Append, attempt, work, Promise!vars
  <2> QED BY <1>4, <2>1, <2>2 DEF Append
<1>5. ASSUME NEW a \in Attempt, SaveSubmission(a) PROVE Promise!Next
  <2>1. Promise!Submit(a)
    BY <1>0, <1>5, <1>m DEF SaveSubmission, log, work, Promise!Submit
  <2> QED BY <2>1 DEF Promise!Next
<1>6. ASSUME NEW a \in Attempt, NEW read \in Active, Abandon(a, read)
      PROVE Promise!Next \/ UNCHANGED Promise!vars
  <2>1. CASE state[a] = read
    <3>1. Promise!Lapse(a)
      BY <1>0, <1>6, <2>1, <1>m DEF Abandon, log, Active, Promise!Lapse
    <3> QED BY <3>1 DEF Promise!Next
  <2>2. CASE state[a] # read
    BY <1>6, <2>2 DEF Abandon, log, Promise!vars
  <2> QED BY <2>1, <2>2
<1>7. ASSUME NEW a \in Attempt, NEW read \in SUBSET Event, WriteScore(a, read)
      PROVE Promise!Next \/ UNCHANGED Promise!vars
  <2>1. state[a] = "submitted" /\ read = counted[a]
    BY <1>7 DEF WriteScore, MarkingInv
  <2>2. CASE score[a] = {}
    <3>1. Promise!Mark(a)
      BY <1>0, <1>7, <2>1, <2>2 DEF WriteScore, attempt, log, Promise!Mark
    <3> QED BY <3>1 DEF Promise!Next
  <2>3. CASE score[a] # {}
    BY <1>7, <2>3 DEF WriteScore, attempt, log, Promise!vars
  <2> QED BY <2>2, <2>3
<1> QED
  BY <1>1, <1>2, <1>3, <1>4, <1>5, <1>6, <1>7
     DEF Next, Request, Sweep, Consume, Submit, SubmitExpired, Tick, Open, Close,
         CountAnswers, ReadLog, vars, attempt, log, work

\* The server implements the promise: what the sweeps and the requests do in
\* any interleaving, a student sees as one sitting, submitted and marked once.
THEOREM ServerImplementsSitting == Spec => ImplementsSitting
<1> QED BY SittingInit, SittingStep, Invariant, PTL DEF Spec, ImplementsSitting, Promise!Spec
-----------------------------------------------------------------------------
\* An attempt a sweep found started and vacant, as it was read, is vacant still;
\* one that has not been started, or was abandoned, has never had an answer.
VacantInv ==
    /\ \A a \in Attempt : state[a] \in {"absent", "created", "abandoned"} => counted[a] = {}
    /\ \A a \in Attempt : <<a, "in_progress">> \in vacant => counted[a] = {}

\* A step that adds no answer keeps it, if nobody is abandoned but the vacant and
\* no attempt goes back.
LEMMA VacantKept ==
  ASSUME TypeOK, VacantInv, UNCHANGED counted,
         \A a \in Attempt : /\ state'[a] \in {"absent", "created", "abandoned"} =>
                                 counted[a] = {}
                            /\ <<a, "in_progress">> \in vacant' =>
                                 <<a, "in_progress">> \in vacant \/ counted[a] = {}
  PROVE  VacantInv'
BY DEF VacantInv

LEMMA VacantStep == IInv /\ VacantInv /\ [Next /\ NoAnswerCrossesTheSweep]_vars => VacantInv'
<1> SUFFICES ASSUME IInv, VacantInv, [Next /\ NoAnswerCrossesTheSweep]_vars PROVE VacantInv'
  OBVIOUS
<1> USE DEF IInv
<1>1. CASE UNCHANGED vars
  BY <1>1 DEF vars, attempt, log, work, VacantInv
<1>2. CASE Tick \/ Open \/ Close
  BY <1>2 DEF Tick, Open, Close, attempt, log, work, VacantInv
<1>3. ASSUME NEW a \in Attempt, Create(a) \/ Start(a) PROVE VacantInv'
  BY <1>3, VacantKept DEF Create, Start, log, work, TypeOK, VacantInv
<1>4. ASSUME NEW a \in Attempt, NEW e \in Event, Append(a, e), NoAnswerCrossesTheSweep
      PROVE VacantInv'
  <2>1. CASE state[a] = "submitted"
    BY <1>4, <2>1 DEF Append, attempt, work, VacantInv
  <2>2. CASE state[a] = "in_progress"
    <3>1. /\ e \notin counted[a] /\ counted' = [counted EXCEPT ![a] = @ \cup {e}]
          /\ UNCHANGED <<state, vacant>>
      BY <1>4, <2>2 DEF Append, attempt, work
    <3>2. counted'[a] # counted[a] /\ \A b \in Attempt \ {a} : counted'[b] = counted[b]
      BY <3>1 DEF TypeOK
    <3>3. <<a, "in_progress">> \notin vacant
      BY <1>4, <3>2 DEF NoAnswerCrossesTheSweep
    <3> QED BY <2>2, <3>1, <3>2, <3>3 DEF VacantInv
  <2> QED BY <1>4, <2>1, <2>2 DEF Append
<1>5. ASSUME NEW a \in Attempt, SaveSubmission(a) PROVE VacantInv'
  BY <1>5, VacantKept DEF SaveSubmission, log, work, TypeOK, VacantInv
<1>6. ASSUME NEW a \in Attempt, CountAnswers(a) PROVE VacantInv'
  BY <1>6, VacantKept DEF CountAnswers, attempt, log, TypeOK, VacantInv
<1>7. ASSUME NEW a \in Attempt, NEW read \in Active, Abandon(a, read) PROVE VacantInv'
  BY <1>7, VacantKept DEF Abandon, log, Active, TypeOK, VacantInv
<1>8. ASSUME NEW a \in Attempt, ReadLog(a) \/ \E read \in SUBSET Event : WriteScore(a, read)
      PROVE VacantInv'
  BY <1>8 DEF ReadLog, WriteScore, attempt, log, VacantInv
<1> QED BY <1>1, <1>2, <1>3, <1>4, <1>5, <1>6, <1>7, <1>8
        DEF Next, Request, Sweep, Consume, Submit, SubmitExpired

\* An abandoned attempt holds no answer, if none lands between a sweep's count
\* and its save: nothing else can put one there (sweep-handler.ts).
THEOREM AbandonedHoldsNothingUncrossed ==
    Spec /\ [][NoAnswerCrossesTheSweep]_vars => []AbandonedHoldsNothing
<1>1. Init => VacantInv
  BY DEF Init, VacantInv
<1>2. VacantInv => AbandonedHoldsNothing
  BY DEF VacantInv, AbandonedHoldsNothing
<1>3. [Next]_vars /\ [NoAnswerCrossesTheSweep]_vars => [Next /\ NoAnswerCrossesTheSweep]_vars
  OBVIOUS
<1> QED BY <1>1, <1>2, <1>3, VacantStep, Invariant, PTL DEF Spec
=============================================================================
