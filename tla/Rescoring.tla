----------------------------- MODULE Rescoring -----------------------------
(***************************************************************************)
(* A score, its corrections and what Learning makes of them: the scoring   *)
(* handlers and the rescoring operations of contexts/scoring, the outbox   *)
(* messages they write, and Learning's two consumers of those messages.    *)
(*                                                                         *)
(* A score record is appended and never changed; a correction appends a    *)
(* successor and stands its predecessor down.  Each record is announced by *)
(* a message of its own, and, since a message's aggregate is the record,   *)
(* the messages of one attempt are not kept in order and may be in several *)
(* relays' hands at once (OutboxRelay has the relay).                      *)
(*                                                                         *)
(* Reads and writes.  An operation is saved under the version that was     *)
(* read; a handler's read and its save are two steps here, because another *)
(* may save between them.  Learning's consumers read the score that stands *)
(* in one step and write in another, in a transaction serialised for the   *)
(* learner that does not look at scoring again.                            *)
(*                                                                         *)
(* The concept states, transitions and review schedules that the evidence  *)
(* is folded into are functions of it, computed in the same transaction,   *)
(* and are left out, as are the reasons an operation is drafted for.       *)
(*                                                                         *)
(* A dry run and an execution are each called with attempts, responses and *)
(* rules of their own, and nothing compares the ones with the others or    *)
(* with the operation: here each takes any of the inputs there are.        *)
(***************************************************************************)
EXTENDS Naturals, Sequences, FiniteSets

CONSTANTS
    Attempt,      \* submitted attempts
    Slot,         \* the slots of a paper
    Operation,    \* rescoring operations
    FirstScore,   \* what marking makes of an attempt at first, slot by slot
    Correction,   \* the inputs a dry run or an execution may be called with: what
                  \* they make of each attempt that they name
    Relay,        \* the deliveries that can be in progress at once
    MaxVersion,   \* bound: saves of an operation
    MaxDesk       \* bound: requests that have read an operation and not saved it

Outcome == {"correct", "incorrect", "dropped"}
EvidenceOutcome == {"correct", "incorrect"}
Score == [Slot -> Outcome]

ASSUME RescoringAssumption ==
    /\ FirstScore \in [Attempt -> Score]
    /\ Correction \subseteq UNION {[named -> Score] : named \in SUBSET Attempt}
    /\ MaxVersion \in Nat /\ MaxDesk \in Nat

VARIABLES
    \* scoring
    history,    \* score records, by generation
    standing,   \* the generations that are current
    op,         \* scoring.rescoring_operation
    desk,       \* operations read by a handler that has not saved yet
    running,    \* executions that have begun
    planned,    \* executions with their successors computed, each over a predecessor
    \* the outbox, for the two events Learning consumes
    feed,       \* AttemptScored and AttemptScoreSuperseded, one for each record
    settled,    \* those that have been acknowledged
    \* Learning
    work,       \* each delivery in progress
    worth,      \* what each response counts as: the evidence, as corrected
    notebook,   \* error entries
    reports,    \* diagnostic reports: the record in the label and the one read
    \* history
    crossed     \* attempts that had two deliveries in progress at once

scoring == <<history, standing, op, desk, running, planned>>
learning == <<work, worth, notebook, reports, crossed>>
vars == <<scoring, feed, settled, learning>>

-----------------------------------------------------------------------------
\* LEGAL_TRANSITIONS
Legal == {<<"drafted", "previewed">>, <<"previewed", "previewed">>,
          <<"previewed", "approved">>, <<"approved", "executing">>}

\* findCurrentByAttemptId
Standing(a) == CHOOSE g \in standing[a] : TRUE
Scored(a) == standing[a] # {}

NoPreview == [a \in {} |-> 0]
Idle == [at |-> "idle", message |-> <<>>, read |-> 0]

Init == /\ history = [a \in Attempt |-> <<>>]
        /\ standing = [a \in Attempt |-> {}]
        /\ op = [o \in Operation |-> [state |-> "absent", version |-> 0, preview |-> NoPreview]]
        /\ desk = {} /\ running = {} /\ planned = {}
        /\ feed = {} /\ settled = {}
        /\ work = [r \in Relay |-> Idle]
        /\ worth = [a \in Attempt |-> [s \in Slot |-> "none"]]
        /\ notebook = [a \in Attempt |-> {}]
        /\ reports = {}
        /\ crossed = {}

-----------------------------------------------------------------------------
(***************************************************************************)
(* Scoring.                                                                *)
(***************************************************************************)

\* ScoreAttempt: a record that is there already is the answer, and the record
\* and its event are one transaction.
ScoreAttempt(a) ==
    /\ ~Scored(a)
    /\ history[a] = <<>>
    /\ history' = [history EXCEPT ![a] = <<FirstScore[a]>>]
    /\ standing' = [standing EXCEPT ![a] = {1}]
    /\ feed' = feed \cup {<<a, 1>>}
    /\ UNCHANGED <<op, desk, running, planned, settled, learning>>

Draft(o) ==
    /\ op[o].state = "absent"
    /\ op' = [op EXCEPT ![o] = [state |-> "drafted", version |-> 1, preview |-> NoPreview]]
    /\ UNCHANGED <<history, standing, desk, running, planned, feed, settled, learning>>

\* A handler reads the operation and decides where it goes and with what preview.
Decide(o, to, preview) ==
    /\ <<op[o].state, to>> \in Legal
    /\ op[o].version < MaxVersion /\ Cardinality(desk) < MaxDesk
    /\ desk' = desk \cup {[op |-> o, to |-> to, version |-> op[o].version, preview |-> preview]}
    /\ UNCHANGED <<history, standing, op, running, planned, feed, settled, learning>>

\* A dry run re-scores the attempts it is called with, over the records that stand.
\* What it makes of them is stored to be shown, and no handler reads it again: of
\* the preview the records are kept.
RunDryRun(o, c) ==
    /\ \A a \in DOMAIN c : Scored(a)
    /\ Decide(o, "previewed", [a \in DOMAIN c |-> Standing(a)])

\* An approval, or the beginning of an execution, which look at no attempt.
Proceed(o) == \E to \in {"approved", "executing"} : Decide(o, to, op[o].preview)

\* Mutant: the upsert without its WHERE.
SaveOverAnyVersion(d) ==
    /\ d \in desk
    /\ desk' = desk \ {d}
    /\ op' = [op EXCEPT ![d.op] =
                [state |-> d.to, version |-> @.version + 1, preview |-> d.preview]]
    /\ running' = IF d.to = "executing" THEN running \cup {d.op} ELSE running
    /\ UNCHANGED <<history, standing, planned, feed, settled, learning>>

\* ... and saves it, if nobody has since.
Save(d) ==
    /\ d \in desk
    /\ desk' = desk \ {d}
    /\ IF op[d.op].version = d.version
       THEN /\ op' = [op EXCEPT ![d.op] = [state |-> d.to, version |-> @.version + 1,
                                           preview |-> d.preview]]
            /\ running' = IF d.to = "executing" THEN running \cup {d.op} ELSE running
       ELSE UNCHANGED <<op, running>>
    /\ UNCHANGED <<history, standing, planned, feed, settled, learning>>

\* The execution re-scores the attempts that it is called with, over the records
\* that stand now.
Plan(o, c) ==
    /\ o \in running
    /\ \A a \in DOMAIN c : Scored(a)
    /\ running' = running \ {o}
    /\ planned' = planned \cup {[op |-> o, inputs |-> c,
                                 before |-> [a \in DOMAIN c |-> Standing(a)]]}
    /\ UNCHANGED <<history, standing, op, desk, feed, settled, learning>>

\* The database admits the supersession: the predecessor still stands (a record
\* only ever stands down), and nothing else of the attempt stands or has the
\* successor's generation.
Admits(a, predecessor) == /\ standing[a] = {predecessor}
                          /\ predecessor + 1 \notin DOMAIN history[a]

\* Each attempt the execution names gets a record more.
Lengthened(c) == [a \in Attempt |-> IF a \in DOMAIN c THEN Append(history[a], c[a])
                                                       ELSE history[a]]

\* Mutant: whatever stands, the successor is written beside it.
CompleteBesideWhatStands(p) ==
    /\ p \in planned
    /\ planned' = planned \ {p}
    /\ history' = Lengthened(p.inputs)
    /\ standing' = [a \in Attempt |->
                      IF a \in DOMAIN p.inputs
                      THEN (standing[a] \ {p.before[a]}) \cup {Len(history[a]) + 1}
                      ELSE standing[a]]
    /\ op' = [op EXCEPT ![p.op].state = "completed", ![p.op].version = @ + 1]
    /\ feed' = feed \cup {<<a, Len(history[a]) + 1>> : a \in DOMAIN p.inputs}
    /\ UNCHANGED <<desk, running, settled, learning>>

\* completeWithSuccessors: every supersession, the completion and every message,
\* or none of them, the operation then left executing.
Complete(p) ==
    /\ p \in planned
    /\ planned' = planned \ {p}
    /\ IF \A a \in DOMAIN p.inputs : Admits(a, p.before[a])
       THEN /\ history' = Lengthened(p.inputs)
            /\ standing' = [a \in Attempt |-> IF a \in DOMAIN p.inputs THEN {p.before[a] + 1}
                                                                      ELSE standing[a]]
            /\ op' = [op EXCEPT ![p.op].state = "completed", ![p.op].version = @ + 1]
            /\ feed' = feed \cup {<<a, p.before[a] + 1>> : a \in DOMAIN p.inputs}
       ELSE UNCHANGED <<history, standing, op, feed>>
    /\ UNCHANGED <<desk, running, settled, learning>>

\* The execution dies, or re-scoring refuses (an attempt it names has no score):
\* nothing takes it up again.
Interrupt(o) ==
    /\ o \in running
    /\ running' = running \ {o}
    /\ UNCHANGED <<history, standing, op, desk, planned, feed, settled, learning>>

-----------------------------------------------------------------------------
(***************************************************************************)
(* Learning: the evidence consumer and then the report consumer.           *)
(***************************************************************************)
AttemptOf(message) == message[1]
LabelOf(message) == message[2]

\* A relay hands over a message that is not acknowledged; another may still be
\* at work on it, or on another message of the attempt.
Take(r, m) ==
    /\ work[r].at = "idle"
    /\ m \in feed \ settled
    /\ work' = [work EXCEPT ![r] = [at |-> "evidence", message |-> m, read |-> 0]]
    /\ crossed' = IF \E q \in Relay : /\ work[q].at # "idle"
                                      /\ AttemptOf(work[q].message) = AttemptOf(m)
                  THEN crossed \cup {AttemptOf(m)} ELSE crossed
    /\ UNCHANGED <<scoring, feed, settled, worth, notebook, reports>>

\* Mutant: the score the message names is read, and not the one that stands.
AssembleWhatIsNamed(r) ==
    /\ work[r].at = "evidence"
    /\ work' = [work EXCEPT ![r].at = "record", ![r].read = LabelOf(work[r].message)]
    /\ UNCHANGED <<scoring, feed, settled, worth, notebook, reports, crossed>>

\* evidenceForScoredAttempt: the score that stands.
Assemble(r) ==
    /\ work[r].at = "evidence"
    /\ work' = [work EXCEPT ![r].at = "record",
                            ![r].read = Standing(AttemptOf(work[r].message))]
    /\ UNCHANGED <<scoring, feed, settled, worth, notebook, reports, crossed>>

\* Mutant: a response the score no longer counts is left as it was.
RecordWithoutWithdrawing(r) ==
    LET a == AttemptOf(work[r].message)
        marks == history[a][work[r].read]
    IN /\ work[r].at = "record"
       /\ worth' = [worth EXCEPT ![a] =
                      [s \in Slot |-> IF marks[s] \in EvidenceOutcome THEN marks[s]
                                                                      ELSE worth[a][s]]]
       /\ notebook' = [notebook EXCEPT ![a] =
                         @ \cup {s \in Slot : worth[a][s] = "none" /\ marks[s] = "incorrect"}]
       /\ work' = [work EXCEPT ![r].at = "slots"]
       /\ UNCHANGED <<scoring, feed, settled, reports, crossed>>

\* RecordMasteryEvidence: a response not stored yet is stored, and entered in
\* the error notebook if it was wrong; one stored with another outcome is
\* corrected, and one the score no longer counts is withdrawn.
RecordEvidence(r) ==
    LET a == AttemptOf(work[r].message)
        marks == history[a][work[r].read]
    IN /\ work[r].at = "record"
       /\ worth' = [worth EXCEPT ![a] =
                      [s \in Slot |-> IF marks[s] \in EvidenceOutcome THEN marks[s]
                                      ELSE IF worth[a][s] = "none" THEN "none"
                                      ELSE "withdrawn"]]
       /\ notebook' = [notebook EXCEPT ![a] =
                         @ \cup {s \in Slot : worth[a][s] = "none" /\ marks[s] = "incorrect"}]
       /\ work' = [work EXCEPT ![r].at = "slots"]
       /\ UNCHANGED <<scoring, feed, settled, reports, crossed>>

\* slotsForScoredAttempt: the score that stands, read again.
ReadSlots(r) ==
    /\ work[r].at = "slots"
    /\ work' = [work EXCEPT ![r].at = "report",
                            ![r].read = Standing(AttemptOf(work[r].message))]
    /\ UNCHANGED <<scoring, feed, settled, worth, notebook, reports, crossed>>

\* Mutant: the report is labelled with the record that stands when it is written.
WriteReportUnderTheStandingLabel(r) ==
    LET a == AttemptOf(work[r].message)
        label == Standing(a)
    IN /\ work[r].at = "report"
       /\ reports' = IF \E p \in reports : p.attempt = a /\ p.label = label THEN reports
                     ELSE reports \cup {[attempt |-> a, label |-> label, of |-> work[r].read]}
       /\ work' = [work EXCEPT ![r].at = "done"]
       /\ UNCHANGED <<scoring, feed, settled, worth, notebook, crossed>>

\* GenerateDiagnosticReport: one report for the record the message names.
WriteReport(r) ==
    LET a == AttemptOf(work[r].message)
        label == LabelOf(work[r].message)
    IN /\ work[r].at = "report"
       /\ reports' = IF \E p \in reports : p.attempt = a /\ p.label = label THEN reports
                     ELSE reports \cup {[attempt |-> a, label |-> label, of |-> work[r].read]}
       /\ work' = [work EXCEPT ![r].at = "done"]
       /\ UNCHANGED <<scoring, feed, settled, worth, notebook, crossed>>

Acknowledge(r) ==
    /\ work[r].at = "done"
    /\ settled' = settled \cup {work[r].message}
    /\ work' = [work EXCEPT ![r] = Idle]
    /\ UNCHANGED <<scoring, feed, worth, notebook, reports, crossed>>

\* A consumer throws, or the relay dies: the message is handed over again.
Throw(r) ==
    /\ work[r].at # "idle"
    /\ work' = [work EXCEPT ![r] = Idle]
    /\ UNCHANGED <<scoring, feed, settled, worth, notebook, reports, crossed>>

-----------------------------------------------------------------------------
Correct(o) == \/ Draft(o)
              \/ \E c \in Correction : RunDryRun(o, c) \/ Plan(o, c)
              \/ Proceed(o)
              \/ Interrupt(o)

Deliver(r) == \/ \E m \in feed : Take(r, m)
              \/ Assemble(r) \/ RecordEvidence(r) \/ ReadSlots(r) \/ WriteReport(r)
              \/ Acknowledge(r) \/ Throw(r)

Next == \/ \E a \in Attempt : ScoreAttempt(a)
        \/ \E o \in Operation : Correct(o)
        \/ \E d \in desk : Save(d)
        \/ \E p \in planned : Complete(p)
        \/ \E r \in Relay : Deliver(r)

Spec == Init /\ [][Next]_vars

-----------------------------------------------------------------------------
\* INV-11: an attempt that has been scored has one record standing, its latest,
\* and every record of it has been announced: with operations planned over one
\* another's successors, retried and interrupted.
OneStandingScore ==
    \A a \in Attempt :
        /\ standing[a] = IF history[a] = <<>> THEN {} ELSE {Len(history[a])}
        /\ DOMAIN history[a] = {g \in 1..Len(history[a]) : <<a, g>> \in feed}

\* "A second writer working from a stale read is refused rather than silently
\* overwriting an approval it never saw": once an operation is approved, no dry
\* run or approval that was already under way changes its preview or takes it
\* back, and it is executed once.
ApprovalStands ==
    [][\A o \in Operation :
          /\ op[o].state \in {"approved", "executing", "completed"} =>
                 /\ op'[o].preview = op[o].preview
                 /\ op'[o].state \in {"approved", "executing", "completed"}
          /\ op[o].state = "executing" => op'[o].state # "approved"
          /\ op[o].state = "completed" => op'[o] = op[o]]_vars

\* The scorebook that all this keeps: an attempt's score is that of its standing
\* record, a correction is approved from its approval to its completion, and what
\* it was approved over are the scores of the records that its preview names.
Stage(o) == IF op[o].state = "completed" THEN "made"
            ELSE IF op[o].state \in {"approved", "executing"} THEN "approved" ELSE "open"
MarkOf(a) == {history[a][g] : g \in standing[a]}
Previewed(o) == [a \in DOMAIN op[o].preview |-> history[a][op[o].preview[a]]]
BasisOf(o) == IF Stage(o) = "open" THEN {} ELSE {Previewed(o)}

Book == INSTANCE Scorebook WITH marks <- [a \in Attempt |-> MarkOf(a)],
                                stage <- [o \in Operation |-> Stage(o)],
                                basis <- [o \in Operation |-> BasisOf(o)]

\* Marking, the dry runs, approvals and executions, each of a read and a save of
\* its own, come to the scorebook: an execution reaches every attempt that it
\* names or none of them, once, after an approval of its operation that no save
\* under way takes back, and whose preview none changes.
ImplementsScorebook == Book!Spec

\* The evidence Learning holds of an attempt is what these marks come to.
Agrees(a, marks) ==
    \A s \in Slot : IF marks[s] \in EvidenceOutcome THEN worth[a][s] = marks[s]
                                                    ELSE worth[a][s] \in {"none", "withdrawn"}

\* What Learning holds of an attempt is the evidence of one score record, never
\* some responses of one and some of another.
EvidenceIsOfOneScore ==
    \A a \in Attempt : \/ \A s \in Slot : worth[a][s] = "none"
                       \/ \E g \in DOMAIN history[a] : Agrees(a, history[a][g])

\* Nothing announced of an attempt is left to deliver.
Quiet(a) == /\ \A m \in feed : AttemptOf(m) = a => m \in settled
            /\ \A r \in Relay : work[r].at # "idle" => AttemptOf(work[r].message) # a

\* "A message that waited behind a second re-score reconciles to the latest one":
\* when all that was announced of an attempt has been delivered, the evidence is
\* that of the score that stands, though the messages came late, out of order and
\* more than once; so long as no two of its deliveries were in progress together.
EvidenceSettles ==
    \A a \in Attempt \ crossed :
        (Scored(a) /\ Quiet(a)) => Agrees(a, history[a][Standing(a)])

\* The same, whichever deliveries were in progress together.
EvidenceSettlesWhateverCrossed ==
    \A a \in Attempt : (Scored(a) /\ Quiet(a)) => Agrees(a, history[a][Standing(a)])

\* A report labelled with the record that stands was made from that record.
StandingReportIsItsOwn ==
    \A p \in reports : p.label \in standing[p.attempt] => p.of = p.label
=============================================================================
