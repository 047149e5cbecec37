--------------------------- MODULE AttemptSession ---------------------------
(***************************************************************************)
(* One learner's device in an attempt: apps/learn's AttemptSession and its *)
(* RecordWriter over the attempt engine, the disk, the network, and as     *)
(* much of the server as answers it.  An answer is on the screen at once,  *)
(* is written down by a commit in the background, is sent only when the    *)
(* commit holding it has landed (or when the disk is failing), and leaves  *)
(* the queue only when the server has acknowledged it.  The application    *)
(* may be killed at any moment and opened again with the server, or        *)
(* without it.                                                             *)
(*                                                                         *)
(* Network.  A request may be lost, may be answered and the answer lost,   *)
(* or may arrive long after the device stopped waiting for it.  What has   *)
(* been sent stays in wire (handed, for the submission) and can arrive at  *)
(* any later moment; a device that gives up waiting just stops waiting.    *)
(* The server keeps an event once however often it arrives.                *)
(*                                                                         *)
(* The server here is one attempt in progress, its ingestion, submission   *)
(* and expiry sweep (AttemptServer has the whole of it).  Of an event only *)
(* its id and sequence number matter; visits, flags and timings are events *)
(* like any other.                                                         *)
(***************************************************************************)
EXTENDS Naturals, FiniteSets

CONSTANTS
    MaxAnswers,  \* bound: event ids a behaviour uses
    BatchSize,   \* syncPolicy.batchSize
    MaxFailures, \* syncPolicy.maxConsecutiveFailures
    DiskMayFail, \* whether commits may fail, or stay unanswered past the grace
    MaxCrashes   \* bound: times the application is killed

ASSUME SessionAssumption == /\ MaxAnswers \in Nat
                            /\ BatchSize \in Nat \ {0}
                            /\ MaxFailures \in Nat \ {0}
                            /\ DiskMayFail \in BOOLEAN
                            /\ MaxCrashes \in Nat

Id == 1..MaxAnswers

VARIABLES
    \* the running application
    up,         \* it is running
    phase,      \* #phase
    log,        \* #attempt.log, as ids
    reason,     \* #attempt.submission, its reason, or none
    unsaved,    \* #unsaved
    queue,      \* #queue.pending
    failures,   \* #queue.consecutiveFailures
    acked,      \* #acknowledged
    sending,    \* the batch sendEvents has not answered, or {}
    telling,    \* transport.submit has not answered
    failing,    \* #storageError is set
    \* the disk
    commit,     \* the commit in flight, a set of at most one record
    disk,       \* what is on it, a set of at most one record
    \* the network
    wire,       \* events that have been sent and may yet arrive
    handed,     \* reasons of the submissions that have been sent and may yet arrive
    \* the server
    counted,    \* events kept that count
    late,       \* events kept after the submission
    key,        \* under whose key it was submitted: none, device or sweep
    expired,    \* its clock has passed the deadline
    \* history and bounds
    seq,        \* the sequence number each event was given
    used,       \* event ids given out
    crashes,
    trouble,    \* the disk failed, or a submission stopped waiting for it
    early       \* the submission was sent before it was on disk

engine == <<phase, log, reason, unsaved, queue, acked, sending, telling, failing, failures>>
network == <<wire, handed>>
server == <<counted, late, key, expired>>
numbering == <<seq, used>>
vars == <<up, engine, commit, disk, network, server, numbering, crashes, trouble, early>>

-----------------------------------------------------------------------------
None == "none"
Held == counted \cup late

LastSequence(events) == IF events = {} THEN 0
                        ELSE CHOOSE n \in {seq[e] : e \in events} :
                                 \A e \in events : seq[e] <= n

\* What #record_ puts together from the session.
Record(events, known, why) == [events |-> events, acked |-> known, submission |-> why]

\* RecordWriter.kick: one commit at a time, and only of what is not there yet.
Kicked(record) == IF commit = {} /\ disk # {record} THEN {record} ELSE commit

Stored == UNION {d.events : d \in disk}

\* The engine takes an event only with a number above the ones before it, so a
\* log in which two carry one number does not rebuild.
Rebuilds(events) == \A d, e \in events : seq[d] = seq[e] => d = e

Init == /\ up = TRUE /\ phase = "in_progress"
        /\ log = {} /\ reason = None /\ unsaved = {} /\ queue = {} /\ acked = {}
        /\ sending = {} /\ telling = FALSE /\ failing = FALSE /\ failures = 0
        /\ commit = {Record({}, {}, None)}
        /\ disk = {}
        /\ wire = {} /\ handed = {}
        /\ counted = {} /\ late = {} /\ key = None /\ expired = FALSE
        /\ seq = [e \in Id |-> 0] /\ used = 0
        /\ crashes = 0 /\ trouble = FALSE /\ early = FALSE

-----------------------------------------------------------------------------
(***************************************************************************)
(* The learner.                                                            *)
(***************************************************************************)

\* Mutant: the event is sent as soon as it is made.
AnswerSentAtOnce ==
    /\ up /\ phase = "in_progress"
    /\ used < MaxAnswers
    /\ used' = used + 1
    /\ seq' = [seq EXCEPT ![used + 1] = LastSequence(log) + 1]
    /\ log' = log \cup {used + 1}
    /\ queue' = queue \cup {used + 1}
    /\ commit' = Kicked(Record(log \cup {used + 1}, acked, reason))
    /\ UNCHANGED <<up, phase, reason, unsaved, acked, sending, telling, failing, failures, disk,
                   network, server, crashes, trouble, early>>

\* #record: a fresh id, the next sequence number of the log.
Answer ==
    /\ up /\ phase = "in_progress"
    /\ used < MaxAnswers
    /\ used' = used + 1
    /\ seq' = [seq EXCEPT ![used + 1] = LastSequence(log) + 1]
    /\ log' = log \cup {used + 1}
    /\ IF failing
       THEN /\ queue' = queue \cup {used + 1}
            /\ UNCHANGED unsaved
       ELSE /\ unsaved' = unsaved \cup {used + 1}
            /\ UNCHANGED queue
    /\ commit' = Kicked(Record(log \cup {used + 1}, acked, reason))
    /\ UNCHANGED <<up, phase, reason, acked, sending, telling, failing, failures, disk,
                   network, server, crashes, trouble, early>>

\* submit: the learner's own, or the timer's, which stands when the server
\* cannot be asked and may run ahead of the server's clock.
Submit(why) ==
    /\ up /\ phase = "in_progress"
    /\ reason' = why
    /\ phase' = "submitting"
    /\ commit' = Kicked(Record(log, acked, why))
    /\ UNCHANGED <<up, log, unsaved, queue, acked, sending, telling, failing, failures, disk,
                   network, server, numbering, crashes, trouble, early>>

-----------------------------------------------------------------------------
(***************************************************************************)
(* The disk.                                                               *)
(***************************************************************************)

\* A commit lands: its events may be sent, and what changed meanwhile goes in
\* the next one.
CommitLands ==
    /\ up
    /\ \E c \in commit :
          /\ disk' = {c}
          /\ unsaved' = unsaved \ c.events
          /\ queue' = queue \cup (unsaved \cap c.events)
          /\ commit' = {Record(log, acked, reason)} \ {c}
    /\ failing' = FALSE
    /\ UNCHANGED <<up, phase, log, reason, acked, sending, telling, failures, network,
                   server, numbering, crashes, trouble, early>>

\* It fails: the answers it held, and those waiting behind it, are sent as they
\* are.
CommitFails ==
    /\ DiskMayFail
    /\ up
    /\ commit # {}
    /\ commit' = {}
    /\ failing' = TRUE
    /\ queue' = queue \cup unsaved
    /\ unsaved' = {}
    /\ trouble' = TRUE
    /\ UNCHANGED <<up, phase, log, reason, acked, sending, telling, failures, disk, network,
                   server, numbering, crashes, early>>

\* pump: a commit that failed is tried again.
Kick ==
    /\ up
    /\ commit = {}
    /\ disk # {Record(log, acked, reason)}
    /\ commit' = {Record(log, acked, reason)}
    /\ UNCHANGED <<up, engine, disk, network, server, numbering, crashes, trouble, early>>

\* #finishSubmission, after durabilityGraceMs: the answers are sent unsaved.
GraceSpent ==
    /\ DiskMayFail
    /\ up /\ phase = "submitting"
    /\ unsaved # {}
    /\ queue' = queue \cup unsaved
    /\ unsaved' = {}
    /\ trouble' = TRUE
    /\ UNCHANGED <<up, phase, log, reason, acked, sending, telling, failing, failures, commit, disk,
                   network, server, numbering, crashes, early>>

-----------------------------------------------------------------------------
(***************************************************************************)
(* Sending.                                                                *)
(***************************************************************************)

Before(d, e) == seq[d] < seq[e] \/ (seq[d] = seq[e] /\ d < e)

\* isSuspended: so many sends in a row have failed that no batch is offered.
Suspended == failures >= MaxFailures

\* nextBatch: the head of what is pending, in canonical order, up to the batch
\* size.
IsNextBatch(batch, pending) ==
    /\ batch # {}
    /\ \A d \in batch, e \in pending \ batch : Before(d, e)
    /\ Cardinality(batch) = BatchSize \/ batch = pending
    /\ Cardinality(batch) <= BatchSize

\* #send puts the next batch on the wire.
Sends(pending) ==
    \E batch \in SUBSET pending :
        /\ IsNextBatch(batch, pending)
        /\ sending' = batch
        /\ wire' = wire \cup batch

\* pump sends: while the attempt is in progress it waits for the commit in flight
\* first; a submission does not, but it waits for what is unsaved.  The back-off
\* is in when it is taken.
Send ==
    /\ up
    /\ sending = {}
    /\ ~Suspended
    /\ IF phase = "submitting" THEN unsaved = {} ELSE commit = {}
    /\ Sends(queue)
    /\ UNCHANGED <<up, phase, log, reason, unsaved, queue, acked, telling, failing, failures, commit,
                   disk, handed, server, numbering, crashes, trouble, early>>

\* The server answers for the batch, and #send goes on with the next one at
\* once, whatever commit is in flight.
Acknowledged ==
    /\ up
    /\ sending # {}
    /\ sending \subseteq Held
    /\ acked' = acked \cup sending
    /\ queue' = queue \ sending
    /\ failures' = 0
    /\ IF queue' = {}
       THEN sending' = {} /\ UNCHANGED wire
       ELSE Sends(queue')
    /\ commit' = Kicked(Record(log, acked \cup sending, reason))
    /\ UNCHANGED <<up, phase, log, reason, unsaved, telling, failing, disk, handed,
                   server, numbering, crashes, trouble, early>>

\* Mutant: a batch that was not answered is not asked about again.
SendFailsAndForgets ==
    /\ up
    /\ sending # {}
    /\ sending' = {}
    /\ queue' = queue \ sending
    /\ failures' = failures + 1
    /\ UNCHANGED <<up, phase, log, reason, unsaved, acked, telling, failing, commit, disk,
                   network, server, numbering, crashes, trouble, early>>

\* No answer comes: recordFailure.
SendFails ==
    /\ up
    /\ sending # {}
    /\ sending' = {}
    /\ failures' = failures + 1
    /\ commit' = Kicked(Record(log, acked, reason))
    /\ UNCHANGED <<up, phase, log, reason, unsaved, queue, acked, telling, failing, disk,
                   network, server, numbering, crashes, trouble, early>>

\* syncNow: the browser is online again, or the learner asks; what is due is then
\* sent, as at a pump.
SyncNow ==
    /\ up
    /\ failures > 0
    /\ failures' = 0
    /\ UNCHANGED <<up, phase, log, reason, unsaved, queue, acked, sending, telling, failing,
                   commit, disk, network, server, numbering, crashes, trouble, early>>

\* Mutant: the paper is handed in with answers still in the queue.
TellWithAnswersBehind ==
    /\ up /\ phase = "submitting"
    /\ unsaved = {} /\ ~telling
    /\ telling' = TRUE
    /\ handed' = handed \cup {reason}
    /\ early' = (early \/ \A d \in disk : d.submission = None)
    /\ UNCHANGED <<up, phase, log, reason, unsaved, queue, acked, sending, failing, failures, commit,
                   disk, wire, server, numbering, crashes, trouble>>

\* #finishSubmission: nothing unsaved, nothing unacknowledged, so the server is
\* told.
Tell ==
    /\ up /\ phase = "submitting"
    /\ unsaved = {} /\ queue = {} /\ ~telling
    /\ telling' = TRUE
    /\ handed' = handed \cup {reason}
    /\ early' = (early \/ \A d \in disk : d.submission = None)
    /\ UNCHANGED <<up, phase, log, reason, unsaved, queue, acked, sending, failing, failures, commit,
                   disk, wire, server, numbering, crashes, trouble>>

\* It answers that it has the submission: this one, or the one made before
\* under the same key.
Told ==
    /\ up /\ telling
    /\ key = "device"
    /\ telling' = FALSE
    /\ phase' = "submitted"
    /\ commit' = Kicked(Record(log, acked, reason))
    /\ UNCHANGED <<up, log, reason, unsaved, queue, acked, sending, failing, failures, disk,
                   network, server, numbering, crashes, trouble, early>>

\* Mutant: a submission that is not answered is dropped.
TellFailsForGood ==
    /\ up /\ telling
    /\ telling' = FALSE
    /\ phase' = "in_progress"
    /\ UNCHANGED <<up, log, reason, unsaved, queue, acked, sending, failing, failures, commit, disk,
                   network, server, numbering, crashes, trouble, early>>

\* It refuses, or no answer comes: the phase stays, and it is tried again.
TellFails ==
    /\ up /\ telling
    /\ telling' = FALSE
    /\ commit' = Kicked(Record(log, acked, reason))
    /\ UNCHANGED <<up, phase, log, reason, unsaved, queue, acked, sending, failing, failures,
                   disk, network, server, numbering, crashes, trouble, early>>

-----------------------------------------------------------------------------
(***************************************************************************)
(* The server.                                                             *)
(***************************************************************************)

\* Ingestion: an event is kept once, and counts unless it is late.
Arrive(e) ==
    /\ e \in wire \ Held
    /\ IF key = None
       THEN /\ counted' = counted \cup {e}
            /\ UNCHANGED late
       ELSE /\ late' = late \cup {e}
            /\ UNCHANGED counted
    /\ UNCHANGED <<up, engine, commit, disk, network, key, expired, numbering, crashes,
                   trouble, early>>

\* The device's submission: an expiry is refused before the deadline.
SubmissionArrives(why) ==
    /\ why \in handed
    /\ key = None
    /\ why = "expiry" => expired
    /\ key' = "device"
    /\ UNCHANGED <<up, engine, commit, disk, network, counted, late, expired, numbering,
                   crashes, trouble, early>>

DeadlinePasses ==
    /\ ~expired
    /\ expired' = TRUE
    /\ UNCHANGED <<up, engine, commit, disk, network, counted, late, key, numbering,
                   crashes, trouble, early>>

\* The sweep submits an attempt whose device has not come back.
ServerExpires ==
    /\ expired
    /\ key = None
    /\ key' = "sweep"
    /\ UNCHANGED <<up, engine, commit, disk, network, counted, late, expired, numbering,
                   crashes, trouble, early>>

-----------------------------------------------------------------------------
(***************************************************************************)
(* Killed and opened again.                                                *)
(***************************************************************************)

\* What was in memory is gone; the commit in flight landed or did not.
Crash ==
    /\ up
    /\ crashes < MaxCrashes
    /\ crashes' = crashes + 1
    /\ up' = FALSE
    /\ disk' \in {disk} \cup {{c} : c \in commit}
    /\ commit' = {}
    /\ phase' = "in_progress" /\ log' = {} /\ reason' = None /\ unsaved' = {}
    /\ queue' = {} /\ acked' = {} /\ sending' = {} /\ telling' = FALSE /\ failing' = FALSE
    /\ failures' = 0
    /\ UNCHANGED <<network, server, numbering, trouble, early>>

\* AttemptSession.resume, from what is known of the attempt: the log is the
\* union, and what the server is not known to have is queued.
Resume(events, known, why, submitted) ==
    /\ up' = TRUE
    /\ log' = events /\ acked' = known /\ queue' = events \ known
    /\ reason' = why
    /\ phase' = IF submitted THEN "submitted"
                ELSE IF why # None THEN "submitting" ELSE "in_progress"
    /\ unsaved' = {} /\ sending' = {} /\ telling' = FALSE /\ failing' = FALSE
    /\ failures' = 0
    /\ commit' = Kicked(Record(events, known, why))
    /\ UNCHANGED <<disk, network, server, numbering, crashes, trouble, early>>

\* The reason of a submission found on the server.
ServersReason == IF key = "sweep" THEN "expiry" ELSE CHOOSE why \in handed : TRUE

\* boot, the server reached and a record on the disk.  The server's log is the
\* events that count; one that came late is sent again.
ReopenOnline ==
    /\ ~up
    /\ \E d \in disk : /\ Rebuilds(d.events)
                       /\ Resume(d.events \cup counted, d.acked \cup counted,
                                 IF d.submission = None /\ key # None
                                 THEN ServersReason ELSE d.submission,
                                 key # None)

\* boot, the server out of reach: the record alone.
ReopenOffline ==
    /\ ~up
    /\ \E d \in disk : /\ Rebuilds(d.events)
                       /\ Resume(d.events, d.acked, d.submission, FALSE)

\* boot, nothing on the disk: the create and the start are replayed and the
\* server's log is carried on from, or a first one begun.
ReopenFromServer ==
    /\ ~up
    /\ disk = {}
    /\ key = None
    /\ Resume(counted, counted, None, FALSE)

-----------------------------------------------------------------------------
Learner == Answer \/ \E why \in {"manual", "expiry"} : Submit(why)
Disk == CommitLands \/ CommitFails \/ Kick
Sync == GraceSpent \/ Send \/ Acknowledged \/ SendFails \/ SyncNow \/ Tell \/ Told \/ TellFails
Server == \/ \E e \in Id : Arrive(e)
          \/ \E why \in {"manual", "expiry"} : SubmissionArrives(why)
          \/ DeadlinePasses \/ ServerExpires
Life == Crash \/ ReopenOnline \/ ReopenOffline \/ ReopenFromServer

Next == Learner \/ Disk \/ Sync \/ Server \/ Life

Spec == Init /\ [][Next]_vars

(***************************************************************************)
(* Fairness.  The application pumps every second while it runs, so it goes *)
(* on sending and telling while the queue is not suspended; of what is     *)
(* tried again and again some arrives, and some of the answers come back   *)
(* (strong fairness: each failure makes the answer impossible until the    *)
(* next try); the grace and the server's deadline are finite spans.        *)
(* Nothing is assumed of the disk, of crashes or of the learner, and       *)
(* nothing of SyncNow: no pump lifts a suspension.                         *)
(***************************************************************************)
Fairness == /\ WF_vars(Send) /\ WF_vars(Tell) /\ WF_vars(GraceSpent)
            /\ WF_vars(DeadlinePasses)
            /\ \A e \in Id : WF_vars(Arrive(e))
            /\ \A why \in {"manual", "expiry"} : WF_vars(SubmissionArrives(why))
            /\ SF_vars(Acknowledged) /\ SF_vars(Told)

FairSpec == Spec /\ Fairness

-----------------------------------------------------------------------------
\* "The server has it" stays a subset of "the device has it": while the disk has
\* kept its word, whatever has left the device is on its disk, crashes and
\* reopenings included.
DeviceHasWhatItSent == ~trouble => wire \subseteq Stored

\* ... and so no two events the device or the server holds carry one sequence
\* number, though the application was killed with answers not yet written and
\* went on from what it remembered.
SequencesAreUnique == ~trouble => Rebuilds(log \cup Held)

\* The merge "does not require sequence numbers to be distinct": a record that a
\* session wrote down, merged as it may have been with the server's log, is one
\* that a session can be carried on from.
RecordsRebuild == \A d \in disk : Rebuilds(d.events)

\* The queue's one promise: an event leaves it only when it has been
\* acknowledged.  Every answer of the running application is unsaved, queued or
\* at the server, and every answer marked acknowledged, in memory, in a commit
\* or on disk, is at the server: through failed sends, failed commits, lost
\* answers and reopenings.
NoAnswerIsDropped ==
    /\ log \subseteq unsaved \cup queue \cup Held
    /\ acked \subseteq Held
    /\ \A r \in disk \cup commit : r.acked \subseteq Held

\* A paper is not handed in with answers behind it: when the server takes the
\* device's submission it has every answer the device holds, on screen or on
\* disk, unless the disk failed or the submission left before it was on disk.
HandedInWhole ==
    [][(key = None /\ key' = "device" /\ ~trouble /\ ~early)
           => log \cup Stored \subseteq counted]_vars

\* A submission the learner or the timer made gets through, with the disk failing
\* or silent, if the application stays open, the server's sweep does not submit
\* the attempt first, and the queue is not left suspended for good: after
\* MaxFailures failed sends in a row it sends nothing, and so hands nothing in,
\* until the browser says it is online or the learner tries again.
SubmissionCompletes ==
    []<>~Suspended =>
        ((phase = "submitting") ~> (phase = "submitted" \/ key = "sweep" \/ ~up))

=============================================================================
