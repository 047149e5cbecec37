--------------------------- MODULE AttemptServer ---------------------------
(***************************************************************************)
(* The server side of a mock: the attempt handlers, the two sweeps and the *)
(* scoring consumer of contexts/assessment, over the rows they share.      *)
(* Several instances run all of them at once.                              *)
(*                                                                         *)
(* Reads and writes.  A handler reads the attempt, decides, and writes     *)
(* with one statement that names the state it read (attempt.repository.ts: *)
(* WHERE attempt_id = $1 AND state = $2).  No state is entered twice and a *)
(* row changes only with its state, so a write that succeeds wrote over    *)
(* the very row its handler read: reading and writing are one action, and  *)
(* a write that fails changes nothing.  What can be stale at the write is  *)
(* what is not that row: the moment the handler took (any \E t below), the *)
(* number of answers a sweep counted (vacant) and the log a consumer read  *)
(* (marking).                                                              *)
(*                                                                         *)
(* One student and one form; practice attempts, which have no form and no  *)
(* window, are not in this module.  An attempt is named by the creation    *)
(* key that made it: a unique index makes the two one-to-one, so a retried *)
(* create finds the attempt there.                                         *)
(***************************************************************************)
EXTENDS Naturals

CONSTANTS
    Attempt,    \* creation keys, and the attempts they make
    Event,      \* answering events (select, change), named by their event ids
    OpensAt, ClosesAt,  \* the form's window
    Duration,   \* the exam profile's duration
    MaxNow      \* bound: the last moment of a behaviour

ASSUME AttemptAssumption ==
    /\ OpensAt \in Nat /\ ClosesAt \in Nat /\ OpensAt < ClosesAt
    /\ Duration \in Nat \ {0}
    /\ MaxNow \in Nat

VARIABLES
    now,        \* the clock
    form,       \* assessment.form.state
    state,      \* assessment.attempt.state, or absent
    createdAt,  \* created_at
    deadline,   \* deadline_at; 0 until the attempt is started
    counted,    \* assessment.response_event, after_submission false
    late,       \* the same, after_submission true
    announced,  \* AttemptSubmitted messages in the outbox
    vacant,     \* attempts a sweep found past their window with no answer, as it read them
    marking,    \* attempts a delivery is scoring, with the answers it read
    score       \* its current score records, as the answers each was computed from

attempt == <<state, createdAt, deadline, announced>>
log == <<counted, late>>
work == <<vacant, marking, score>>
vars == <<now, form, attempt, log, work>>

-----------------------------------------------------------------------------
Active == {"created", "in_progress"}
Final == {"submitted", "abandoned"}

Init == /\ now = 0
        /\ form = "embargoed"
        /\ state = [a \in Attempt |-> "absent"]
        /\ createdAt = [a \in Attempt |-> 0]
        /\ deadline = [a \in Attempt |-> 0]
        /\ counted = [a \in Attempt |-> {}]
        /\ late = [a \in Attempt |-> {}]
        /\ announced = [a \in Attempt |-> 0]
        /\ vacant = {}
        /\ marking = {}
        /\ score = [a \in Attempt |-> {}]

Tick == /\ now < MaxNow
        /\ now' = now + 1
        /\ UNCHANGED <<form, attempt, log, work>>

-----------------------------------------------------------------------------
(***************************************************************************)
(* The student's requests.                                                 *)
(***************************************************************************)

\* CreateAttempt: the window is open at the handler's moment, and when the row
\* is inserted the form is active and no other mock of the student's is.
Create(a) ==
    /\ state[a] = "absent"
    /\ form = "active"
    /\ \A b \in Attempt : state[b] \notin Active
    /\ \E t \in OpensAt..now :
          /\ t < ClosesAt
          /\ createdAt' = [createdAt EXCEPT ![a] = t]
    /\ state' = [state EXCEPT ![a] = "created"]
    /\ UNCHANGED <<now, form, deadline, announced, log, work>>

\* StartAttempt: the deadline is anchored at the handler's moment.
Start(a) ==
    /\ state[a] = "created"
    /\ \E t \in createdAt[a]..now :
          /\ t < ClosesAt
          /\ deadline' = [deadline EXCEPT ![a] = t + Duration]
    /\ state' = [state EXCEPT ![a] = "in_progress"]
    /\ UNCHANGED <<now, form, createdAt, announced, log, work>>

\* One event of IngestResponseEvents: each is its own statement, an id already
\* there changes nothing, and the trigger reads the attempt under a lock that
\* a submission waits for, so the event is classified by the state it is
\* stored under.
Append(a, e) ==
    /\ e \notin counted[a] \cup late[a]
    /\ \/ /\ state[a] = "in_progress"
          /\ counted' = [counted EXCEPT ![a] = @ \cup {e}]
          /\ UNCHANGED late
       \/ /\ state[a] = "submitted"
          /\ late' = [late EXCEPT ![a] = @ \cup {e}]
          /\ UNCHANGED counted
    /\ UNCHANGED <<now, form, attempt, work>>

\* Mutant: the event is emitted before the row is known to have moved.
SaveSubmissionAnnouncingFirst(a) ==
    /\ state[a] \in {"in_progress", "submitted"}
    /\ state' = [state EXCEPT ![a] = "submitted"]
    /\ announced' = [announced EXCEPT ![a] = IF @ < 2 THEN @ + 1 ELSE @]
    /\ UNCHANGED <<now, form, createdAt, deadline, log, work>>

\* Mutant: the row moves and nothing is said of it.
SaveSubmissionSilently(a) ==
    /\ state[a] = "in_progress"
    /\ state' = [state EXCEPT ![a] = "submitted"]
    /\ UNCHANGED <<now, form, createdAt, deadline, announced, log, work>>

\* The transaction both submissions end in: the row moves and the event is
\* emitted, or neither.
SaveSubmission(a) ==
    /\ state[a] = "in_progress"
    /\ state' = [state EXCEPT ![a] = "submitted"]
    /\ announced' = [announced EXCEPT ![a] = @ + 1]
    /\ UNCHANGED <<now, form, createdAt, deadline, log, work>>

\* SubmitAttempt: an expiry is believed only past the deadline.  The reason
\* is written with the submission and read by nothing here.
Submit(a, why) ==
    /\ why = "expiry" => now >= deadline[a]
    /\ SaveSubmission(a)

-----------------------------------------------------------------------------
(***************************************************************************)
(* The scheduled sweeps.                                                   *)
(***************************************************************************)

\* SubmitExpiredAttempts, for one attempt it found.
SubmitExpired(a) ==
    /\ now >= deadline[a]
    /\ SaveSubmission(a)

\* SweepWindows: the form.
Open == /\ form = "embargoed"
        /\ now >= OpensAt
        /\ form' = "active"
        /\ UNCHANGED <<now, attempt, log, work>>

Close == /\ form = "active"
         /\ now >= ClosesAt
         /\ form' = "closed"
         /\ UNCHANGED <<now, attempt, log, work>>

\* Mutant: an attempt that was never started is not looked for.
CountAnswersOfStarted(a) ==
    /\ state[a] = "in_progress"
    /\ now >= ClosesAt
    /\ counted[a] = {}
    /\ <<a, state[a]>> \notin vacant
    /\ vacant' = vacant \cup {<<a, state[a]>>}
    /\ UNCHANGED <<now, form, attempt, log, marking, score>>

\* SweepWindows: an attempt past its window, counted and found without answers.
CountAnswers(a) ==
    /\ state[a] \in Active
    /\ now >= ClosesAt
    /\ counted[a] = {}
    /\ <<a, state[a]>> \notin vacant
    /\ vacant' = vacant \cup {<<a, state[a]>>}
    /\ UNCHANGED <<now, form, attempt, log, marking, score>>

\* Mutant: the save does not ask for the state that was read.
AbandonWhateverTheState(a, read) ==
    /\ <<a, read>> \in vacant
    /\ vacant' = vacant \ {<<a, read>>}
    /\ state' = [state EXCEPT ![a] = "abandoned"]
    /\ UNCHANGED <<now, form, createdAt, deadline, announced, log, marking, score>>

\* ... and abandoned, if it is still in the state that was read.
Abandon(a, read) ==
    /\ <<a, read>> \in vacant
    /\ vacant' = vacant \ {<<a, read>>}
    /\ state' = IF state[a] = read THEN [state EXCEPT ![a] = "abandoned"] ELSE state
    /\ UNCHANGED <<now, form, createdAt, deadline, announced, log, marking, score>>

-----------------------------------------------------------------------------
(***************************************************************************)
(* The consumer of AttemptSubmitted, in as many deliveries as the outbox   *)
(* makes.                                                                  *)
(***************************************************************************)

\* Mutant: the projection counts what came after the submission.
ReadLogWithLate(a) ==
    /\ announced[a] > 0
    /\ state[a] = "submitted"
    /\ marking' = marking \cup {<<a, counted[a] \cup late[a]>>}
    /\ UNCHANGED <<now, form, attempt, log, vacant, score>>

ReadLog(a) ==
    /\ announced[a] > 0
    /\ state[a] = "submitted"
    /\ marking' = marking \cup {<<a, counted[a]>>}
    /\ UNCHANGED <<now, form, attempt, log, vacant, score>>

\* A score record that is there already is the answer: by the handler's read,
\* or by the index that admits one current record for an attempt.
WriteScore(a, read) ==
    /\ <<a, read>> \in marking
    /\ marking' = marking \ {<<a, read>>}
    /\ score' = IF score[a] = {} THEN [score EXCEPT ![a] = {read}] ELSE score
    /\ UNCHANGED <<now, form, attempt, log, vacant>>

-----------------------------------------------------------------------------
Request(a) == \/ Create(a)
              \/ Start(a)
              \/ \E e \in Event : Append(a, e)
              \/ \E why \in {"manual", "expiry", "recovered"} : Submit(a, why)

Sweep(a) == \/ SubmitExpired(a)
            \/ CountAnswers(a)
            \/ \E read \in Active : Abandon(a, read)

Consume(a) == \/ ReadLog(a)
              \/ \E read \in SUBSET Event : WriteScore(a, read)

Next == \/ Tick \/ Open \/ Close
        \/ \E a \in Attempt : Request(a) \/ Sweep(a) \/ Consume(a)

Spec == Init /\ [][Next]_vars

(***************************************************************************)
(* Fairness.  Time passes; the scheduler runs submit-expired every 15 s    *)
(* and sweep-windows every 30 s, and each goes through all it found; the   *)
(* outbox delivers what is announced until its consumer returns.  Nothing  *)
(* is assumed of the student.                                              *)
(***************************************************************************)
Fairness == /\ WF_vars(Tick) /\ WF_vars(Open) /\ WF_vars(Close)
            /\ \A a \in Attempt :
                  /\ WF_vars(SubmitExpired(a))
                  /\ WF_vars(CountAnswers(a))
                  /\ \A read \in Active : WF_vars(Abandon(a, read))
                  /\ WF_vars(ReadLog(a))
                  /\ WF_vars(\E read \in SUBSET Event : WriteScore(a, read))

FairSpec == Spec /\ Fairness

-----------------------------------------------------------------------------
\* Every variable keeps its type: the columns of the form, the attempts, the
\* response log and the score records, and the work in flight.
TypeOK ==
    /\ now \in Nat
    /\ form \in {"embargoed", "active", "closed"}
    /\ state \in [Attempt -> {"absent"} \cup Active \cup Final]
    /\ createdAt \in [Attempt -> Nat]
    /\ deadline \in [Attempt -> Nat]
    /\ counted \in [Attempt -> SUBSET Event]
    /\ late \in [Attempt -> SUBSET Event]
    /\ announced \in [Attempt -> Nat]
    /\ vacant \subseteq Attempt \X Active
    /\ marking \subseteq Attempt \X SUBSET Event
    /\ score \in [Attempt -> SUBSET SUBSET Event]

\* An attempt submitted is an attempt scoring hears of, once: however the
\* device's submission, its retries and the expiry sweep of several instances
\* meet, exactly one AttemptSubmitted is in the outbox for a submitted attempt
\* and none for any other.
AnnouncedOnce ==
    \A a \in Attempt : announced[a] = IF state[a] = "submitted" THEN 1 ELSE 0

\* The score is that of the answers the server had when it submitted the
\* attempt, none missed and none let in late, whichever delivery of the event
\* read the log and whatever was still being appended.
ScoreIsOfTheSubmission ==
    \A a \in Attempt : score[a] # {} => /\ state[a] = "submitted"
                                        /\ score[a] = {counted[a]}

\* "An attempt with responses is submitted, never abandoned": an abandoned
\* attempt holds no answer.
AbandonedHoldsNothing ==
    \A a \in Attempt : state[a] = "abandoned" => counted[a] = {}

\* What the statement above takes: no answer lands between the moment a sweep
\* counts an attempt's answers and the moment it saves it.
NoAnswerCrossesTheSweep ==
    \A a \in Attempt : counted'[a] # counted[a] => <<a, "in_progress">> \notin vacant

\* No attempt counts against its student for ever: one that was created is
\* submitted or abandoned, though its device never comes back.
EveryAttemptEnds ==
    \A a \in Attempt : (state[a] \in Active) ~> (state[a] \in Final)

\* An attempt is never silently left scoreless.
EverySubmissionScored ==
    \A a \in Attempt : (state[a] = "submitted") ~> (score[a] # {})

-----------------------------------------------------------------------------
(***************************************************************************)
(* The server implements the promise.  Creating and starting are what the  *)
(* student sees as beginning; a score is a result.                         *)
(***************************************************************************)
PhaseOf(s) == CASE s = "absent" -> "none"
                [] s \in Active -> "open"
                [] s = "submitted" -> "submitted"
                [] s = "abandoned" -> "lapsed"

Promise == INSTANCE Sitting WITH
               phase <- [a \in Attempt |-> PhaseOf(state[a])],
               answers <- counted,
               result <- score

\* Every behaviour of the server is one of Sitting's: an abandoned or submitted
\* attempt takes no more answers, and marking reads what was submitted.
ImplementsSitting == Promise!Spec
=============================================================================
