# A TLA+ model of the question bank

The question bank is an examination platform: staff author and review items,
items are assembled into papers, learners sit the papers on devices that may be
offline, the server scores what was submitted, scores may be corrected, and what
was answered becomes evidence of what a learner knows. This directory holds the
specifications of the parts of it where several actors meet, the TLC
configurations that check them on small instances, and TLAPS proofs of their main
properties for every instance. Paths below are relative to the repository.

- [1. The system](#1-the-system)
- [2. The modules](#2-the-modules)
- [3. What the runs show](#3-what-the-runs-show)
- [4. Fairness](#4-fairness)
- [5. What is proved](#5-what-is-proved)
- [6. Where code and text disagree](#6-where-code-and-text-disagree)
- [7. What is left out, and why](#7-what-is-left-out-and-why)
- [8. Plan](#8-plan)
- [9. Running it](#9-running-it)

## 1. The system

One API (`apps/api`, a modular monolith of seven contexts over one PostgreSQL
database, run in several instances) and two browser applications (`apps/learn`,
`apps/studio`). The contexts do not call into each other's tables; they meet in
ports wired in `apps/api/src/platform/composition` and in domain events that go
through an outbox table.

| Part | State it keeps | Operations | Meets others by | Hard because | Correct when |
|---|---|---|---|---|---|
| **Outbox** `platform/outbox` | `platform.outbox_message`: published, dead, attempts, lease, retry | claim, deliver, publish, fail, dead-letter, requeue | producers' transactions; consumers in a registered order | every instance runs a relay, leases run out mid-delivery, consumers throw, processes die | delivered to every consumer at least once, in order per aggregate; everything settles |
| **Assessment, mock attempts** `contexts/assessment` | forms, attempts, the response log | create, start, ingest, submit, expire, abandon, open and close a form | emits `AttemptSubmitted`; consumes it to ask for a score | the device, its retries and two sweeps race on one row; the log grows meanwhile | announced once; scored as submitted; every attempt ends |
| **Learner session** `apps/learn/src/session` | the log, queue, acknowledgements, one record on disk, a commit in flight | answer, submit, commit, send, acknowledge, reopen | the attempts API | killed at any moment, a disk that fails, a network that loses and delays | nothing is sent that is not on disk, nothing is dropped, the paper goes in whole |
| **Attempt engine** `packages/attempt-engine` | none: pure functions of a log | append, merge, project, queue, time | used by the session and by the server's projection | two logs of one attempt merged in any order | the union, in one order, from any device |
| **Scoring** `contexts/scoring` | score records (append-only), rescoring operations | score, draft, dry run, approve, execute | emits `AttemptScored`, `AttemptScoreSuperseded` | operations over the same attempts; people who read and save at their own pace | one score stands; nothing but an execution that was approved changes it, once, of all it names |
| **Learning** `contexts/learning` | evidence, corrections, concept states, notebook, reports, plans | record evidence, make a report, decide transitions | consumes the score events, reads scoring and assessment through ports | deliveries are late, repeated and out of order, and read the score that stands *now* | the evidence comes to the score that stands |
| **Assessment, practice** | practice attempts | create, submit, score | its own consumer | as mock attempts, without window or deadline | as mock attempts |
| **Content** `contexts/content` | items, versions, solutions, stimuli, media, reviews | author, import, submit, decide, publish, suspend, retire; claim and age reviews | gives assessment the items and keys | two reviewers claim at once, a decision meets an edit | a published version was approved as it stands |
| **Generation** `contexts/generation` | runs, proposals, verdicts, spending | run, propose, judge, decide | language model providers; proposes to content | calls in parallel against one budget | a run does not pass its budget unnoticed |
| **Curriculum** `contexts/curriculum` | a syllabus as rows, nodes and edges; exam profiles and their sections; migrations and mappings | edit, publish, activate, supersede; map, dry run, execute | read by all others | rows of one aggregate are read in statements of their own, beside saves; an execution is cut short and taken up | what is published is consistent, nobody's edit is lost, an execution is whole |
| **Identity** `contexts/identity` | accounts, sessions, roles, tokens | sign in, rotate, revoke, verify, assign | principals for every request | a rotation against a revocation of everything | a revoked session has no successor |
| **Idempotency, audit chain, media, pool** `platform/persistence` | keys with responses; a hash-linked log with anchors; files | run once; append, anchor, verify; store | every command | two requests with one key; two appends to one head | one response a key; one successor a link |
| **Rate limits, bounded work** `platform/rate-limit`, `platform/concurrency` | counters, a queue of waiting work | admit, run, time out | requests; outgoing calls | at the limit, with failures | never above the bound, nobody waits for ever |
| **Scheduler** `platform/scheduling` | jobs and whether each is running | tick | calls sweeps and the relay | a job slower than its tick | one run of a job at a time in an instance |
| **Auth, analytics, observability, http, config** | none that lasts | – | – | – | – |
| **Studio, interfaces, contracts, renderer, domain types** | drafts in the browser | autosave, undo | content API | a save in flight behind another | the last edit is the one saved |

Two lines of data carry the program's own purpose, and both are modelled. One is
*device → response log → submission → outbox → score → outbox → evidence and
report*, with the sweeps and the rescoring operations cutting in. The other is
*proposal → draft → review → approval → publication*, in which people and two
contexts act on what they read some time ago.

```
AttemptSession ──events, submission──▶ AttemptServer ──AttemptSubmitted──▶ OutboxRelay
   (device)                              (assessment)                         │
                                              ▲                               ▼
                                              └──── scoring consumer ──▶ score records
                                                                              │ AttemptScored,
                                                    Rescoring ◀───────────────┤ AttemptScoreSuperseded
                                             (scoring and Learning)           ▼
                                                                evidence, then report

GenerationBudget ──▶ GenerationCandidates ──draft──▶ ContentReview ──published──▶ papers
                                                          ▲
                          ContentPublication ─────────────┘
                     (its solutions and its stimulus)

Taxonomy ──published──▶ ExamProfiles ──published──▶ papers, items
    └──two versions──▶ TaxonomyMigration ──mappings──▶ executor

IdentitySessions · AuditChain · BoundedWork: under every request
```

## 2. The modules

Each component has a module with its state and one action per operation, and a
module of proofs that extends it; an `MC` module names the instance TLC checks.
Five modules (`OutboxQueue`, `Sitting`, `Scorebook`, `Edition`, `SessionBook`) state what a
component promises with none of its machinery, and the component is shown to
implement them. Operators whose comment begins *Mutant* are plausible mistakes in
the operation that follows them. They are part of no specification; they are there
to show that each property can fail.

| Module | Models |
|---|---|
| `OutboxQueue` | the promise of the outbox: a message is live until every consumer has returned or it is dead, and is offered only when nothing live stands before it |
| `OutboxRelay` | `platform/outbox/relay.ts` over its table, for several relays |
| `Sitting` | the promise of a sitting: answers are taken while it is open, and what it holds when submitted is what is marked, once |
| `AttemptServer` | the handlers, sweeps and scoring consumer of a mock attempt |
| `AttemptSession` | the learner's device: session, record writer, disk, network, and enough of the server to answer it |
| `Scorebook` | the promise of scoring: one score an attempt, which only the one making of an approved correction changes, every attempt it names in one step |
| `Rescoring` | score records, rescoring operations, and Learning's two consumers of their events |
| `ContentLifecycle` | the table of states and transitions that items, solutions, stimuli and media share |
| `Edition` | the promise of review and publication: what students are shown is one version, signed for by somebody else, and stays |
| `ContentReview` | one item with its versions, and the review workspace: claims, leases, decisions, edits, ageing |
| `ContentPublication` | an item, its solutions and its stimulus, each saved and published by itself |
| `GenerationBudget` | the period's ceiling, the admission of runs, the meter of provider calls |
| `GenerationCandidates` | a candidate's verdicts and its decision, with the draft it becomes in content |
| `Taxonomy` | one version of a syllabus under its curators |
| `TaxonomyMigration` | a migration between two versions: mappings, dry run, execution |
| `ExamProfiles` | the profiles of one exam and year, with the taxonomy they refer to |
| `SessionBook` | the promise of sessions: a sign-in keeps the limit by ending the oldest, a token is exchanged for one that takes its place, what is over never comes back |
| `IdentitySessions` | the sessions of one user, statement by statement |
| `BoundedWork` | `platform/concurrency/bounded-work.ts`, turn by turn |
| `AuditChain` | the linked audit records, the sealing of a day and its verification |

### `OutboxRelay`

`committed`, `published`, `dead`, `attempts`, `claim` and `waiting` are the row's
columns (`claim` is the relay whose UPDATE wrote `claimed_until`; `waiting` is
`retry_at` in the future). `held`, `seen`, `at`, `next` are the locals of a relay
in `drain` and `#deliver`. The claim is one statement (`FOR UPDATE SKIP LOCKED`),
so it is one action; because rows locked by another statement are skipped, it may
take any of the due rows. Each consumer call, and the UPDATE that ends a delivery,
is a separate action, because leases run out in between. The three ending UPDATEs
name the row by its id alone, as the code does: whether the relay still has the
claim is not asked. A CHECK constraint refuses a row that is both published and
dead; the statement throws and the rest of the drain is lost with it.

The code compares instants. Only the outcome matters, so the model keeps the
outcomes: a lease is in `tenure` and a back-off in `waiting` until they end, at any
time. `tenure` survives the clearing of `claim` by somebody else. `overtaken` records messages that committed
after a later one of their aggregate was claimed: occurrence is the producer's
clock and no relay can wait for a row it cannot see.

### `AttemptServer` and `Sitting`

`state`, `createdAt`, `deadline`, `form` are columns; `counted` and `late` the
response log on either side of `after_submission`; `announced` the outbox rows;
`vacant` and `marking` what a sweep or a delivery has read and not yet written on.
A handler's read and its save are one action where the save names the state that
was read and no state is entered twice, so that a save that succeeds wrote over
the row its handler saw. What can be stale is modelled: the instant the handler
took (`\E t \in ..now`), the number of answers the window sweep counted, and the
log the scoring consumer projected.

One student and one form stand for all: no statement relates two students, and the
rule that does relate attempts (one active mock a student) is inside the module.
`Attempt` are creation keys, which a unique index makes the same as attempts.

### `AttemptSession`

Variables are the session's private fields by name (`#unsaved`, `#queue`,
`#acknowledged`, …), the record writer's commit in flight, the disk, the network
and a small server. A commit that is in flight at a crash landed or did not. A
request, once sent, may arrive at any later time, or never, or its answer may be
lost; giving up waiting does not recall it. An event is an id and a sequence
number; visits, flags and changes of an answer are events like any other.

`failures` counts the sends that failed in a row. At `MaxFailures` (12 in
`ports.ts:57`) the queue suspends and offers no batch (`Suspended`), and only
`SyncNow` lifts that: the browser's *online* event (`Root.tsx:62`) or the learner's
*Try now* (`LearnApp.tsx:71`), not the pump. An answered batch is followed by the
next one inside `#send` without looking at the disk again, which is why
`Acknowledged` sends. A reopened session takes over the server's events that count;
a late one is sent again.

`trouble` and `early` name the two circumstances in which the code gives up a
promise on purpose: the disk has failed or outlasted the grace, and answers are
sent unsaved; or the submission was sent before it was on disk itself.

### `Rescoring`

`history` and `standing` are the score records; `op` the operations with the
version their save is conditional on; `desk` what a person's request has read and
not saved; `running` and `planned` the stages of an execution, whose reads and
writes are far apart. A dry run and an execution are each called with attempts,
responses and a rule set of their own (`scoring-commands.ts:26`), and nothing
compares the ones with the others, or with the operation's scope. `Correction` is
the set of inputs there are, each reduced to what marking makes of the attempts it
names; `RunDryRun` and `Plan` take any of them, also for one operation. Of a preview
the model keeps the records it was made over: what it made of them is stored to be
shown and never read again. `work` is each delivery in progress with what it has read;
`worth` is what Learning holds of each response with corrections and withdrawals
applied. `crossed` records attempts of which two deliveries were in progress
together. Records of one attempt are separate aggregates for the outbox, so two
relays can have two of them at once, and `OutboxRelay` says nothing of their
order; `Take` therefore takes any.

An `Interrupt` leaves an operation executing with nothing to resume it, as the
code does.

To `Scorebook` the marks of an attempt are those of its standing record, a
correction is approved from its approval to its completion, and what it was
approved over are the scores its preview names. Dry runs, drafts, reads, refused
saves and everything Learning does are stutters. The scorebook says that a score
changes by the one making of an approved correction and in no other way, and that
what an approval was given over stays what it was. It does not say that a correction
is made over those scores, of those attempts, or as it was previewed, and it need not
be (section 6): an execution marks its own attempts by its own inputs over what
stands when it runs (`rescoring-handlers.ts:193`).

### `ContentReview`

`item` is the row with its versions (`saves` is `aggregate_version`), `decisions`
and `assignments` are rows in the order of their commits, and `read` is what each
request has read of the item. A handler is two steps: `Reads`, and the action named
after it, which decides on what was read and saves; between them anything may
happen. `Save` is the repository: it goes through only from the version that was
read (`Accepts`), leaves a published version as it is stored (`Stored`), and
carries the decision in its own transaction. Deletion compares nothing and is
guarded by the row's CHECK, which is modelled where it bites.

A claim is two steps as well, because `FOR UPDATE OF v` locks the version and
judges the item by the statement's snapshot; `claiming` is the statement that
waits. Time is counted in turns of the clock up to the longest lease and the
escalation threshold, past which nothing in the code tells ages apart. Of a
version's content the model keeps which edit produced it (`body`), so that what
was signed can be compared with what is published.

To `Edition` an item is withheld until it is published, its edition is the version
it names with its body, author and editor, and its signatory is whoever recorded the
latest approving decision on that version.

Two things read oddly and are the code's. `approve_with_edits` is two things: the
command of that name (`ApproveWithEdits`) adds an edited version, records an
approving decision on it and leaves the item in review; the same word as the outcome
of an ordinary decision, which the wire accepts (`content-schemas.ts:51`, `:232`),
approves the item and adds nothing (`lifecycle-handlers.ts:138`). `ReviewOutcome` has
all four outcomes. And a decision may name any version of the item.

### `ContentPublication`

`pubItem`, `solution` and `stimulus` are three aggregates with a version each. A
handler that reads one and saves it is one step; the ones that read another
aggregate, or record a decision before they save, are two (`...Begins` and
`...Saves`), with what they will compare in `held`. `signed` says whether an
approving decision is on record and whether the text was edited since. Only the key
and the answer are kept of the content. Solutions and stimuli have no handler that
adds a version.

### `GenerationBudget` and `GenerationCandidates`

Admission holds an advisory lock from the sum it reads to its commit (`admitting`);
a meter's check and its record in the ledger are apart, with the provider between.
A candidate is loaded, changed and saved, and the two commands in content that make
the draft have committed before the save. The save is taken apart at its statements
(`SaveComparesVerdicts`, `SaveComparesDecision`, `SaveCommits`): each sees what is
committed by then, none locks what it reads, and what stops a second writer are the
keys of the two tables (`KeysAreFree`). A row inserted is there at the commit; that
another with its key waits for it comes to the same. A command may end anywhere
(`HandlingFails`), and a battery whose verdict was refused goes on
(`VerdictIsRefused`).

### `Taxonomy`, `TaxonomyMigration` and `ExamProfiles`

All three take a command apart at its reads. `findById` reads the row, then the
rows that belong to it, in statements that other commits fall between, so `curator`,
`migrator` and `request` hold what has been read so far, and what was loaded may mix
two saves. The save is one transaction that asks for the version the client named;
the client is taken to have seen the row just before its command read it, since a
command that names an older one is refused whatever it read. A client that names a
version it has not seen is outside the model and its claims: the handler passes the
named version to the save and compares it with nothing it loaded
(`taxonomy-handlers.ts:78`), so a right guess would write an older reading over a
newer row. `EditsOf` is what one
command may make of a syllabus: the checks of `taxonomy-version.ts` with what
they let through, one operator for each. A concept has one node in a version, so
a node is named by its concept. `DescendantsOf` and `HasCycle` are stated as least
and invariant sets, not as the searches that compute them. The derivation of depths
that never ends (`DerivesAgain`) is a synchronous loop in the code and stops its whole
process (`taxonomy-version.ts:480`); in the model it stops that curator, and the
others stand for requests in other instances, which only adds behaviours.

The two versions of a migration may be drafts or published, and a draft may change
and be published while the migration is under way (`VersionsChange`,
`VersionIsPublished`); `covers` remembers what the source held at the last dry run
before the execution was marked.

The executor of a migration is modelled by its interface (`MigrationExecutor`,
`migration-handlers.ts:28`): it knows durably what it has applied. The one wired in
`curriculum/public/composition.ts` remembers for as long as its process lives. Of an
exam profile the model keeps the marks its row declares and those its sections come
to, which are in another table and which the publication compares.

### `IdentitySessions`

Every command is a READ COMMITTED transaction taken apart at its first statement:
`working` is what it will insert and update and which row it holds. A rotated row
is locked and looks live to others until the commit; a row inserted is not there; a
statement that waits for a row judges it again, and never sees a row that appears
meanwhile. A foreign key makes a rotation wait for the user's row, which a sign-in
holds, so the two may wait for each other and the database ends one (`RollsBack`).
To `SessionBook` the rows that are live and those that are ended are the sessions a
user holds and those that are over, `rotated_from` says who took whose place, and a
command happens at its commit or not at all: what its earlier statements saw or
locked is in `IdentitySessions` only. A session that is signed in and pushed out by
the same commit, because its clock was read before that of others that were faster,
is over as soon as it begins.

### `BoundedWork` and `AuditChain`

A step of `BoundedWork` is a turn of the event loop to its next `await`: a promise
that was resolved is taken up in a later turn, and timers run out between the two.
In `AuditChain` a hash is modelled by what it commits to, the sequence of records
up to it; the lock is held to the end of the transaction, and sealing reads a day
in one statement and writes its anchor in a later transaction. `over` records
whether the day could still grow when it was read, which no step of the code asks.

## 3. What the runs show

Every property of a passing run has a mutant, listed in `PROJECT.json`, on which
the run fails.

| Run | Instance | Properties |
|---|---|---|
| `outbox_safety` | 2 relays; 3 messages, 2 of one aggregate; one with 2 consumers, one undisciplined; batches of 2, 2 attempts | `AtLeastOnce`, `InOrderPerAggregate`, `ImplementsQueue` |
| `outbox_liveness` | 2 relays; 2 messages of one aggregate, the first undisciplined; 1 death, 1 requeue | `EveryMessageSettles` |
| `attempt_server` | 2 attempts, 1 answer, window [0,2), duration 2, time to 3 | `AnnouncedOnce`, `ScoreIsOfTheSubmission`, `ImplementsSitting`, `EveryAttemptEnds`, `EverySubmissionScored` |
| `attempt_session` | 3 answers, batches of 2, 2 failures suspend, disk may fail, 1 kill | `DeviceHasWhatItSent`, `SequencesAreUnique`, `NoAnswerIsDropped`, `HandedInWhole`, `SubmissionCompletes` |
| `rescoring` | 1 attempt at 2 slots, 2 operations, 2 inputs for any dry run or execution, 2 deliveries at once, 4 saves of an operation, 2 requests in hand | `OneStandingScore`, `EvidenceIsOfOneScore`, `EvidenceSettles`, `StandingReportIsItsOwn`, `ImplementsScorebook` |
| `content_review` | a writer, a Content Ops person who also reviews, a reviewer; 2 requests, 2 versions, 6 saves, 1 claim | `ApprovedAsDecided`, `SignedIndependently`, `ImplementsEdition`, `EveryClaimEnds`, `WaitingIsEscalated` |
| `side_by_side`: publication | 1 solution, 1 stimulus, 2 requests, 2 keys, 5 to 6 saves of each | `PublishedItemIsExplained`, `PublishedIsSigned` |
| – budget | 2 runs, 2 meters, ceilings 3 and 4, reservations 2 and 3, calls of up to 2 tokens | `ReservedWithinCeiling`, `OvershootIsCallsInFlight` |
| – candidates | 1 candidate, 2 commands, 2 blocking checks and 1 advisory, 3 drafts | `AcceptedWasChecked`, `AnnouncedAsDecided` |
| – sessions | 2 commands, a limit of 2, 5 sessions | `ImplementsSessionBook`, `WithinDeviceLimit` |
| – audit | 2 writers, 2 sealers, 2 days, 3 records | `HonestHistoryVerifies` |
| – work | 5 callers, 2 at once, a queue of 2 | `SlotsAreHeld`, `NobodyWaitsForEver` |
| `curriculum`: syllabus | 3 concepts in 2 domains, 2 curators, 5 saves | `DepthsFollow`, `NoEditIsLost` |
| – migration | 2 concepts from, 2 to, one in both; 2 requests, 6 saves, 3 applied; drafts with 1 change, and the publication of either | `NothingUnresolved`, `ExecutedWhole` |
| – profiles | 2 profiles, 2 requests, marks 1 and 2, 3 saves of each | `PublishedAddsUp` |

The remaining runs (`attempt_abandon`, `attempt_session_reopens`,
`evidence_stale`, `published_reworked`) each check one statement of the repository
that the code does not keep; see section 6.

**`side_by_side`** checks six components in one run. They share no state and call
nothing of each other, so their interleavings say nothing: a behaviour chooses at
its start which of them moves (`moves`), and the states are the sum of the six and
not their product. Two further reductions concern the publication. Its requests are
alike, so the first free one takes the next (`FirstFree`). The solution and the
stimulus meet only in the item, so a behaviour moves one of the two
(`OneCompanionMoves`); the theorems about them need neither.

**`curriculum`** is three components in one run in the same way (`edited`): they
share no rows, and a migration or a profile sees a syllabus as what it holds or as
whether it is published.

**Bounds, and why they are enough.**
*Outbox.* Two relays are enough for a stale claim and a fresh one; two messages of
one aggregate for order; the third, in another aggregate, for a batch that spans
aggregates and for a drain cut short with rows left. Two attempts let a message
fail, be retried, and be dead-lettered. Deaths and requeues are left to the
smaller instance: a death abandons a batch exactly as a refused statement does,
which the larger instance has. The proofs cover all of them in any number.
*Server.* One answer distinguishes an empty log from another, before and after
submission. A second attempt reaches the rule of one active attempt. Window and
duration are such that an attempt started at 1 has its deadline at 3, past the
close at 2. Time stops at `MaxNow`, the first moment at which everything is due.
*Session.* Three answers and batches of two give a head and a tail of the queue;
one kill gives every state a reopening can find. Two failures in a row suspend the
queue: one that does not and one that does. Two answers, two kills and
batches of one are what `attempt_session_reopens` needs.
*Rescoring.* Two operations over one attempt are what crosses. Each dry run and each
execution takes either of two inputs, so what is made may differ from what was
previewed; one turns an outcome round, the other also drops a slot, so correction and
withdrawal both occur. That inputs name several attempts, or other ones than the dry
run, is in the theorems only. Four saves let an operation be drafted, previewed twice, and approved, or
go through to its execution, with two requests holding stale reads.
*Review.* Six saves are a draft, its submission, an approval, a return, an edit or
a derived version and what follows; two versions let a decision name the wrong
one. Two requests race with the clock still; claims, the clock and the sweep run
against one request over a history of four saves, which is a review with an edit in
it (`InFocus`). One claim suffices to see it end, since the unique index lets a
version have one live claim; two claims one after the other are outside the run,
and the proofs bound neither.
*Side by side.* Two of everything that competes: two requests with a solution and a
key, two runs whose reservations together pass a ceiling, two commands over one
candidate, two commands over one user with a limit of two and a third session to
push out the oldest, two transactions and two sealers; five callers for two slots and
two places in the queue, so that one is refused.
*Curriculum.* Three concepts allow a chain of three, a node with two children, and a
domain whose only node stands under another's; two curators, an edit read on either
side of another's save. Five saves place all three concepts and publish, or place
two, require one of the other, and publish. Two mappings are the most that
two source concepts admit. Versions that are not both published start as drafts, the
source with one concept, gain or lose one, and are published at any time; there one
request is served at a time and a first mapping is an identity, which lets a draft
grow, and be published, between a resolved preview and the execution, and lets a row
stop loading. This is `InBounds`, and the theorems need neither it nor the other
bounds. Three saves of a
profile are a draft, its publication and its replacement; two profiles of a year
compete to be active.

Deadlock checking is off in all of them: a sitting ends, a queue drains, a bound
is reached.

**Symmetry.** Relays are interchangeable in `outbox_safety`, and relays and operations
in `rescoring`: the properties are invariants and refinements that name none of them,
and either operation may take any input. Curators, requests and profiles are in
`curriculum`, whose properties are invariants and action properties. No liveness property is checked under symmetry.

## 4. Fairness

- *Outbox* (`OutboxRelay!Fairness`). Every instance's scheduler ticks each second
  and drains (`scheduling/scheduler.ts`), so a relay goes on claiming and
  delivering; a consumer returns or throws; a lease and a back-off are finite.
  Crashes, producers and operators are free.
- *Server* (`AttemptServer!Fairness`). Time passes; the two sweeps are scheduled
  (15 s and 30 s) and go through all they find; the outbox delivers what was
  announced until its consumer returns, which is `EveryMessageSettles` with the
  dead letters left out (a dead-lettered submission waits for an operator).
  Nothing is assumed of the student.
- *Session* (`AttemptSession!Fairness`). The application pumps every second while
  it runs. Of what is tried again and again, some gets through: acknowledgement
  and the answer to a submission have strong fairness because each failure
  disables them until the next try. After twelve failed sends in a row the queue
  suspends (`sync-queue.ts:86`), no pump resumes it, and nothing obliges the browser
  or the learner to: `SyncNow` has no fairness, and `SubmissionCompletes` has as its
  hypothesis that the queue is again and again not suspended (`[]<>~Suspended`).
  Nothing is assumed of the disk, the learner or crashes, and the property ends with
  the application closed.
- *Rescoring* has no liveness property: `EvidenceSettles` is stated as an
  invariant of quiet states.
- *Review* (`ContentReview!ReviewFairness`). Time passes, and the scheduler runs the
  ageing sweep every hour (`content/public/composition.ts:250`), which releases what
  has expired and escalates what has aged. Reviewers and authors may do nothing for
  ever, or extend a lease as often as they like: the cap is what ends it.
- *Work* (`BoundedWork!WorkFairness`). A timer runs out and a resolved promise is
  taken up. The work that holds a slot may never end.

## 5. What is proved

`tlapm` checks every leaf. The theorems hold for any values of the constants
allowed by the named assumptions, which say only that ranks are distinct natural
numbers, that consumers are counted in natural numbers, that the policy's batch and
attempts are positive, that a window is not empty, that first scores and the inputs of
a correction are functions of the right shape, that the checks which block and those
which advise are different ones, and that the concepts of a migration are finitely
many.

**Outbox** (`OutboxRelayProofs`): `TypeCorrect`, `AtLeastOnceAlways`,
`InOrderAlways`, `RelayImplementsQueue`. `AtLeastOnce` is not inductive: a relay
about to publish must know that every consumer has returned, and one in the middle
that all earlier ones have; `RelayInv` says so of each relay, and survives the
others' steps because `handled` only grows. `InOrderPerAggregate` rests on
`OrderInv`: at the moment a message was first offered, each earlier one was
published, had been dead-lettered, or had not committed. The refinement maps each
relay action to a step of the queue or to a stutter; deaths, leases and
back-offs stutter.

**Server** (`AttemptServerProofs`): `TypeCorrect`, `AnnouncedOnceAlways`,
`ScoreIsOfTheSubmissionAlways`, `ServerImplementsSitting`. The strengthening is
that what a delivery has *read* is what the submission froze: `counted` does not
change once the attempt is submitted. `AbandonedHoldsNothingUncrossed` says what the
statement of section 6.1 takes: if no answer arrives between the sweep's count and
its save (`NoAnswerCrossesTheSweep`), no attempt with answers is abandoned. The
sweep then knows of every attempt it counted that it still holds nothing.

**Session** (`AttemptSessionProofs`): `NoAnswerIsDroppedAlways`,
`DeviceHasWhatItSentAlways`. The first is inductive. The second needs that the
queue, not only the wire, is on the disk, and that a commit in flight contains
everything already on the disk, so that landing takes nothing away.
`SequencesAreUniqueAlways` needs of every log, in memory, on the disk and on its way
there, that its numbers differ, which is what lets it be rebuilt, and that one of its
events has the highest, which is where a reopened session counts on from. `HandedInWholeAlways` needs that a submission
on the disk stays there, and that no answer is taken after it. From the same
invariant, `RecordsRebuildWhileSaved`: as long as nothing left the device unsaved,
whatever is on the disk can be opened again (section 6.2).

**Rescoring** (`RescoringProofs`): `OneStandingScoreAlways`,
`EvidenceIsOfOneScoreAlways`, `EvidenceSettlesAlways`,
`StandingReportIsItsOwnAlways`, `ApprovalStandsAlways`,
`ImplementsScorebookAlways`. One score stands because the record that stands is the
last, so a plan over an older one is not admitted; the evidence and report
theorems rest on histories only growing and on a delivery never reading a record
older than the one its message names. `EvidenceSettles` needs besides that, while
the deliveries of an attempt do not cross, its evidence is of the last record once
that record's message has gone through. `ApprovalStands` needs that the requests in
hand which could still be saved are legal from where the operation is, and that an
operation is executed once. For the scorebook it is needed besides that a preview, of
an operation or of a dry run under way, is of attempts that some inputs name and of
records there are (`Previews`): they stay what they are while later ones are appended,
so the scores an approval was given over are still those. A marking is then the
scorebook's, an accepted save is an approval or nothing, and an admitted completion is
the one making of an approved correction, of every attempt the execution names
(`MarkingIsMark`, `SaveIsApprove`, `CompletionIsMake`), whatever inputs it brought.

**Review** (`ContentReviewProofs`): `ApprovedAsDecidedAlways`,
`SignedIndependentlyAlways`, `PublishedIsFrozenAlways`,
`ImplementsEditionAlways`, `PublishedAsReviewedOfTheLatest`. Every step of `ContentReview`
is shown to have one of a few effects on the item (it keeps, edits, derives, moves,
decides, approves an edited version, or publishes), each of them on an item that is
still the one its request read; the three properties then follow from the effects
alone. The invariant is that no request holds a newer item than the row, that a
request whose item is as new as the row holds the row, and that an item is
published exactly where it names a version. `SignedIndependently` holds although a
version can be edited after its approval, because neither its author nor its editor
changes with an edit; `PublishedAsReviewed`, which says more, does not hold (section 6).
The refinement of `Edition` needs that the signatory is one person
(`OneSignatory`: the latest approval of a version is one decision), that a publication
takes the body of the row and an approval that counts, and that on a published item
nothing but a suspension or a retirement is saved and no decision is recorded, so
that a later decision cannot change who signed. `PublishedAsReviewedOfTheLatest` says
what the broken statement takes: in every behaviour in which decisions and
publications are about the latest version (`AboutTheLatest`), which the code never
asks, what is published is what was approved. The invariant is that an item that is
approved has an approving decision on its latest version with the body that version
has.

**Publication** (`ContentPublicationProofs`): `PublishedItemIsExplainedAlways`,
`PublishedIsSignedAlways`. Neither is inductive: a request that is about to save
knows something of the aggregate it read (a solution agrees with the key, a
decision is of the text as it stands) and this still holds if nothing has saved the
aggregate since, which is what its save compares. A published solution never
changes, so what was true of it when the item's handler read it is true when the
item is saved.

**Generation** (`SideBySideProofs`): `ReservedWithinCeilingAlways`,
`OvershootIsCallsInFlightAlways`, `AcceptedWasCheckedAlways`,
`AnnouncedAsDecidedAlways`, `RecordStandsAlways`. The sum an admission read is the
sum there is as long as it holds the lock. A call in flight was begun below the
reservation, so all of those that cross it together are as many as there are
meters. Of candidates, what a decision was made on is a prefix of the record, and what
a save has compared is not undone before it commits. Two saves may both pass their
comparisons; a verdict takes the place after those its save has seen and a decision is
one row, so one of the two commits. So no verdict is changed, doubled or moved, and no
decision changes (`RecordStands`); a verdict may come after the decision, on a check
that had none, and cannot fail a check that has passed, so what was accepted stays
checked.

**Sessions** (`SideBySideProofs`): `RotatedOnceAlways`,
`WithinDeviceLimitAlways`, `ImplementsSessionBookAlways`. A rotation keeps its old session live and without a
successor for everybody else until it commits, and a session being inserted is
nobody else's and not there yet. While a sign-in holds the user's row no session
appears that it has not seen, so the newest it leaves are within the limit. Each commit is one step
of `SessionBook`. That a sign-in pushes out the oldest of those there are *then*
needs the set it judged by to have missed none, and that whoever is past the limit
of a set is older than whoever is not (`OldestAreBeyond`); that a rotation exchanges
a session still live needs that the row it locked was nobody else's to end.

**Bounded work** (`SideBySideProofs`): `SlotsAreHeldAlways`. The counter is the number
of callers at work, counted as a finite set; a slot passes from the caller that ends
to the first waiter without the counter being touched.

**Audit chain** (`SideBySideProofs`): `HonestHistoryVerifiesAlways`. The transaction
that holds the lock continues the head it read, because nobody else appends until it
ends, and a day that is over gains no record; a sealer that read such a day has
therefore read all of it.

**Curriculum** (`CurriculumProofs`): `PublishedIsConsistentAlways`,
`NoEditIsLostAlways`, `PublishedAddsUpAlways`, `OneActivePerYearAlways`,
`NothingUnresolvedAlways`, `MappingsStandAlways`, `DepthsFollowAlways`,
`ExecutedWholeAlways`. Each of the three parts has an
invariant of one shape: a request that has read the row as it is now has also read
everything else as it is now, because a row and its parts are saved together, and so
would write an edit, a publication or a step that is legal for what is stored. A
request that read an older row may hold anything, and is refused. For the migration
one fact more is needed. The gate of an execution is a preview stored earlier, and
mappings may be added, and the versions changed and published, after it; but a
resolved preview names every concept it covered, and a concept is named once, so a
later mapping takes none of those (`SettledStays`). What it takes the preview had not
seen, and section 6 says what comes of that.

`DepthsFollowAlways` is of trees of any size. Depths are computed in the code by
searches over the tree, and the proof has no induction over trees; it takes least
elements of sets of numbers instead. After a move the new depths below the moved node
are the old ones, all shifted by as much (`DepthsBelowShift`): otherwise there is a
node of least depth for which this fails, and its parent, which is less deep, makes it
hold. `ExecutedWholeAlways` needs that no two mappings of a migration name one
concept (`Apart`), so that a request which finds a mapping not outstanding finds that
very mapping applied, and of every request at its chunks that what is neither applied
nor left to it does not exist (`Carries`); the executor forgets nothing, so a request
that is cut short, or overtaken by another, leaves a truth behind.

**Only proved.** `OutboxRelay!TypeOK`, `AttemptServer!TypeOK`, `RecordStands`,
`PublishedIsConsistent`, `OneActivePerYear`, `MappingsStand`, `ApprovalStands`,
`PublishedIsFrozen` and `RotatedOnce` are stated by theorems and no run repeats them. Type correctness
is part of every inductive invariant; `PublishedIsConsistent` follows from what
`NoEditIsLost` says of each save; the last three are what the runs check, in more,
as `ImplementsScorebook`, `ImplementsEdition` and `ImplementsSessionBook`.

**Only model-checked:** liveness (`EveryMessageSettles`, `EveryAttemptEnds`,
`EverySubmissionScored`, `SubmissionCompletes`, `EveryClaimEnds`,
`WaitingIsEscalated`, `NobodyWaitsForEver`), which is beyond the prover. Every
invariant, action property and refinement of a passing run is a theorem.

## 6. Where code and text disagree

Each of the four statements is violated by a run, and each has a theorem that says
under which condition, which the code does not secure, it holds:
`AbandonedHoldsNothingUncrossed`, `RecordsRebuildWhileSaved`, `EvidenceSettlesAlways`
and `PublishedAsReviewedOfTheLatest`.

1. `attempt_abandon`. `sweep-handler.ts:23` and `attempt.ts:351`: an attempt with
   answers is submitted, never abandoned. The answers are counted at
   `sweep-handler.ts:78` and the save at `:92` checks the state only.
2. `attempt_session_reopens`. `docs/IMPLEMENTATION-DECISIONS.md:571`
   (DEC-M7-29): the merge does not require distinct sequence numbers. A session
   that has merged two events of one number writes that log down, and the record is
   rebuilt on the next reopening by `captureResponse`, which does. In the model the
   equal numbers come of an answer sent unsaved after the grace; two devices, which
   the decision names, would do as well.
3. `evidence_stale`. `learning-consumer.ts:26`: a message that waited reconciles to
   the latest score. Two deliveries for one attempt, each in a relay of its own,
   can read and write in opposite orders, and the older reading stays.
   `EvidenceSettles` shows that without such a crossing the statement is kept.
4. `published_reworked`. `item-lifecycle.ts:78`: what was sent back does not reach
   `published` without going back through review; `publication-preconditions.ts:160`:
   a published version carries a signature *for that version*. An approval is
   looked up by version id (`review-decision.repository.ts:164`), a version that was
   approved and sent back is rewritten in place under its id, and the decision that
   approves the item again may name another version.

**Seen while modelling, without a run of their own.** These are behaviours of the
models above that a reader of the code may want to know of.

- *Outbox*: `#fail` (`relay.ts:274`) clears a claim by the row's id, so a relay that
  has lost its lease releases its successor's. Delivery is at least once and in
  order nevertheless, which `outbox_safety` shows with this behaviour in it.
- *Attempts*: an attempt started just before the close is abandoned by the window
  sweep if it holds no answer, though `docs/DEBT.md` (D64, line 454) says a started
  paper is never cut short. Once a sweep has submitted under its own key, the
  device's submission is refused at every retry (`attempt-session.ts:511`).
- *Review*: the claim locks the version and judges the item by the snapshot of its
  statement, the withdrawal locks the item (`lifecycle-handlers.ts:276`), so each may
  miss the other and a claim runs on a draft; `EveryClaimEnds` shows that it ends.
  The command `ApproveWithEdits` decides on the version it adds, and the item stays in
  review; the editor's own decision is refused as a signature for that version
  (ADR-0018 says that no second reviewer is required). The outcome of the same name on
  an ordinary decision approves the version as it is, with no edit. Nobody asks
  who wrote the earlier versions of a text: its first author may approve what
  somebody derived from it. A decision is accepted under a lease that has run out.
  `claimNext` takes the oldest version that is not the reviewer's own *by author*,
  and is refused altogether if the reviewer edited it
  (`review-assignment.repository.ts:148`). A withdrawal asks for a claim of the
  latest version only. `suspended` has a `reinstate` transition and no handler.
- *Scoring*: an approval and an execution are tied by the operation's name alone. The
  handlers say that "a preview cannot promise one thing and the run deliver another"
  (`rescoring-handlers.ts:28`) and the dry run that "what the operator approves is what
  will happen" (`rescoring-dry-run.ts:10`); the execution re-scores the attempts,
  responses and rules of its own command (`:193`, against `:125`), and nothing compares
  them with those previewed or with the scores that stood then. The two share the
  executor, and that is all that makes them agree. The controller passes an operation's
  name and no attempts (`scoring.controller.ts:107`), so what they are called with is
  decided by callers the repository does not have.
- *Publication*: a stimulus may be retired while an item that pins it is being
  published. A version's media assets go the way of its stimulus.
- *Generation*: acceptances of one candidate at once are both reported as
  successful and announced, each with a draft of its own in content; an advisory verdict that arrives between the load and
  the save fails an acceptance whose draft has been made (D40 accepts that the two
  contexts commit apart). `generation-candidate.ts:252` says that only a proposed
  candidate takes a verdict, since one written afterwards "would rewrite the record the
  decision was made on"; a verdict whose save has looked for a decision and found none
  (`generation-candidate.repository.ts:145`) is recorded although a decision commits
  before it. A blocking check of an accepted candidate is out of its reach, because it
  has its verdict. `metered-provider.ts:54` bounds the overshoot by one call;
  it is one call for each meter in flight, which `OvershootIsCallsInFlight` states.
- *Sessions*: a sign-in whose password was checked, or a rotation, that was under
  way when every session was revoked commits its own session afterwards.
- *Syllabus*: `taxonomy-version.ts:88` says that a draft can never hold an
  inconsistent taxonomy. A concept may be added under a node of another domain, whose
  own domain then has no root (`:249`); the publication refuses it, the draft keeps
  it. A node is not among its own descendants (`:307`), so a move under itself is not
  refused, and the derivation of depths queues the node for itself without end
  (`:474`); that command never saves, so nothing stored is touched.
- *Migration*: the gate of an execution is a stored preview
  (`migration-handlers.ts:250`). It is still true when used of the concepts it covered
  (`NothingUnresolved`), and of no others: nothing asks that a migration be between
  published versions (`:91`), so a draft source may gain a concept after the preview, be
  published, and be executed with that concept unmapped or with a mapping of it
  pending, where the test at `migration-handlers.integration.spec.ts:290` "rejects
  execution while an exception is undispositioned" by the preview alone. What is outstanding is read once, before the chunks (`:304`), and a second
  request may take up an execution that another is running, so a chunk may be applied
  twice. Loading refuses a mapping whose concept a draft has lost
  (`taxonomy-migration.repository.ts:158`), so the preview that lists malformed
  mappings (`migration-dry-run.ts:42`) is never reached for one.
- *Curriculum*: a mapping whose disposition is a rejection is executed like an
  accepted one, and no command changes a disposition that is pending. A profile
  published without being activated has no way to become active later. Its golden
  set is not consulted when it is activated, which `docs/DOMAIN-MODEL.md:199` asks.
  The supersession of a syllabus and the removal of a prerequisite have no handler.
- *Audit*: nothing waits for a day to be over before it is sealed; a record of a
  sealed day that commits later makes `verifyAnchor` report a range mismatch.
  `HonestHistoryVerifies` therefore speaks of days that were over. `sealDay` has no
  caller in production code.

## 7. What is left out, and why

Within the modelled parts: practice attempts; the student's other attempts at other
forms; the reason of a submission on the server; visits, timings and the cap on
intervals; the lengths of back-offs; a device's second device and its clock; events
the server refuses for good; a disk that cannot be read at boot (treated by the code
as empty) and a device that finds the attempt abandoned; the migration of records
of an older shape; an operation's reason, its give-up entries and the dead-lettering
of score events (their deliveries repeat without bound in `Rescoring`); concept
states and review schedules, which are functions of the evidence computed with it.

Within content: bulk import, media assets, attachments, the response specifications
and rendering (a publication whose other preconditions fail is refused, which is a
behaviour of the model), the order of the review queue, fingerprints, duplicate
candidates and sampling, and `ReassignReview`, which assigns as `AssignSees` does.
Within generation: what a provider proposes and how a check judges it, evaluation
runs and the version registry. Within identity: passwords, one-time tokens,
registration and roles. Within the audit chain: tampering, which is what the hashes
are for and no behaviour of this program. Rate limiters count in one statement or
in one process.

Within the curriculum: names, order, weights and hours; exams and concept identities,
which are created and never change; policies and the shape of marking rules; the
difference between a rename and an identity; the supersession of a syllabus.

Whole parts: practice attempts, forms and packages; Learning's read side; the
idempotency store, which is a
check and a later write that promise nothing by themselves: what keeps a repeated
command from a second effect is the optimistic save of that command, which the models
of the commands have. Authentication, observability, analytics, HTTP, configuration,
rendering, the studio and the contracts keep no state that two actors share, or none
that lasts; they are the greater part of the repository's lines.
`PROJECT.json` lists every part with its status, and the hazards no property
covers yet with the reason.

## 8. Plan

Done, in this order: the outbox (everything after a submission rests on it), the
attempt on the server, the device, scoring and Learning; then content's review and
publication, generation, the sessions, the audit chain and bounded work; then the
curriculum, with its syllabus, migrations and exam profiles.

What would come next:

1. **The sitting end to end.** Compose `AttemptSession`'s device with
   `AttemptServer`'s sweeps, so that an attempt abandoned or expired under a device
   that is still answering is a behaviour, with the events the server refuses, a
   second device and the unreadable disk. Abstract specification: `Sitting`, from
   the learner's side. Theorem: what the server counts is what some device showed.
2. **Attempt engine.** `mergeLogs`, `project`, the sync queue and the timer as
   operators over bounded logs, checked against reference definitions.
3. **Publication as one promise.** `Edition` is implemented by `ContentReview`; with
   the solution and the key beside the version it would be what `ContentPublication`
   implements as well.
4. **Practice attempts**, which have no window or deadline and a consumer of their own.

## 9. Running it

In this directory: `tlc -workers 2 -config OutboxRelaySafety.cfg MCOutboxRelay`
and likewise for the other configurations (each module `MCX` has its configurations
named `X*.cfg`, `MCOutboxRelay`'s being `OutboxRelay*.cfg`); `tlapm
OutboxRelayProofs.tla` for the proofs. The largest runs, `rescoring`,
`curriculum` and `content_review`, take two or three minutes each.
