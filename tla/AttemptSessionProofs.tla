------------------------ MODULE AttemptSessionProofs ------------------------
(***************************************************************************)
(* Proofs about AttemptSession, for any number of answers, batch size and  *)
(* crashes.                                                                *)
(*                                                                         *)
(* NoAnswerIsDropped is inductive.  DeviceHasWhatItSent is not: what is    *)
(* sent comes from the queue, so the queue must be on the disk too, and it *)
(* gets there by commits, so a commit in flight must hold everything that  *)
(* is on the disk (a commit replaces it) and nothing that is not on the    *)
(* screen; a session reopened from the disk has all of it on the screen.   *)
(*                                                                         *)
(* SequencesAreUnique and HandedInWhole rest on that invariant.  The next  *)
(* number is above every number of the log because every log there has     *)
(* been has an event of the highest number; a log that was reopened is one *)
(* that was written down.  A submission that is on the disk stays there,   *)
(* and no answer is taken by a session that has one.                       *)
(***************************************************************************)
EXTENDS AttemptSession, TLAPS

\* The records: a commit never takes away what is on the disk.
RecordsGrow ==
    /\ \A d, e \in disk : d = e
    /\ up => \A d \in disk : d.events \subseteq log
    /\ ~up => commit = {}
    /\ \A c \in commit : /\ c.events \subseteq log
                         /\ \A d \in disk : d.events \subseteq c.events

\* While the disk has kept its word, what is sent or may be sent is on it.
SavedFirst ==
    ~trouble => /\ ~failing
                /\ queue \subseteq Stored
                /\ wire \subseteq Stored

IInv == NoAnswerIsDropped /\ Held \subseteq wire /\ RecordsGrow /\ SavedFirst

USE DEF Record

-----------------------------------------------------------------------------
\* A kicked writer has in flight what it had, or the record it was given.
LEMMA KickedFacts ==
    ASSUME NEW rec
    PROVE  /\ Kicked(rec) \subseteq commit \cup {rec}
           /\ commit # {} => Kicked(rec) = commit
  BY DEF Kicked

\* The invariant holds when the attempt begins.
LEMMA InitInv == Init => IInv
  BY DEF Init, IInv, NoAnswerIsDropped, RecordsGrow, SavedFirst, Held, Stored

\* No step takes an answer from where it was held without its being elsewhere.
LEMMA DroppedStep == IInv /\ [Next]_vars => NoAnswerIsDropped'
<1> SUFFICES ASSUME IInv, [Next]_vars PROVE NoAnswerIsDropped'
    OBVIOUS
<1> USE DEF IInv, NoAnswerIsDropped, Held
<1>1. CASE Answer
  BY <1>1, KickedFacts DEF Answer, server
<1>2. CASE \E why \in {"manual", "expiry"} : Submit(why)
  BY <1>2, KickedFacts DEF Submit, server
<1>3. CASE CommitLands
  BY <1>3 DEF CommitLands, server
<1>4. CASE CommitFails
  BY <1>4 DEF CommitFails, server
<1>5. CASE Kick
  BY <1>5 DEF Kick, server, engine
<1>6. CASE GraceSpent
  BY <1>6 DEF GraceSpent, server
<1>7. CASE Send
  BY <1>7 DEF Send, server
<1>8. CASE Acknowledged
  BY <1>8, KickedFacts DEF Acknowledged, server
<1>9. CASE SendFails \/ SyncNow \/ Tell \/ Told \/ TellFails
  BY <1>9, KickedFacts DEF SendFails, SyncNow, Tell, Told, TellFails, server
<1>10. CASE Server
  BY <1>10 DEF Server, Arrive, SubmissionArrives, DeadlinePasses, ServerExpires, engine
<1>11. CASE Crash
  BY <1>11 DEF Crash, server
<1>12. ASSUME NEW events, NEW known, NEW why, NEW submitted,
              Resume(events, known, why, submitted), known \subseteq Held
       PROVE  NoAnswerIsDropped'
  BY <1>12, KickedFacts DEF Resume, server
<1>13. CASE ReopenOnline
  BY <1>12, <1>13 DEF ReopenOnline
<1>14. CASE ReopenOffline
  BY <1>12, <1>14 DEF ReopenOffline
<1>15. CASE ReopenFromServer
  BY <1>12, <1>15 DEF ReopenFromServer
<1>16. CASE UNCHANGED vars
  BY <1>16 DEF vars, engine, server
<1> QED
  BY <1>1, <1>2, <1>3, <1>4, <1>5, <1>6, <1>7, <1>8, <1>9, <1>10, <1>11, <1>13,
     <1>14, <1>15, <1>16 DEF Next, Learner, Disk, Sync, Life

\* No step takes an event off the disk, or puts one there that is not on the
\* screen.
LEMMA RecordsStep == IInv /\ [Next]_vars => RecordsGrow'
<1> SUFFICES ASSUME IInv, [Next]_vars PROVE RecordsGrow'
    OBVIOUS
<1> USE DEF IInv, RecordsGrow
<1>1. CASE Answer
  BY <1>1, KickedFacts DEF Answer
<1>2. CASE \E why \in {"manual", "expiry"} : Submit(why)
  BY <1>2, KickedFacts DEF Submit
<1>3. CASE CommitLands
  BY <1>3 DEF CommitLands
<1>4. CASE CommitFails
  BY <1>4 DEF CommitFails
<1>5. CASE Kick
  BY <1>5 DEF Kick, engine
<1>6. CASE GraceSpent \/ Send \/ SendFails \/ SyncNow \/ Tell \/ Told \/ TellFails
  BY <1>6, KickedFacts DEF GraceSpent, Send, SendFails, SyncNow, Tell, Told, TellFails
<1>7. CASE Acknowledged
  BY <1>7, KickedFacts DEF Acknowledged
<1>8. CASE Server
  BY <1>8 DEF Server, Arrive, SubmissionArrives, DeadlinePasses, ServerExpires, engine
<1>9. CASE Crash
  BY <1>9 DEF Crash
<1>10. ASSUME ~up, NEW events, NEW known, NEW why, NEW submitted,
              Resume(events, known, why, submitted),
              \A d \in disk : d.events \subseteq events
       PROVE  RecordsGrow'
  BY <1>10, KickedFacts DEF Resume
<1>11. CASE ReopenOnline
  BY <1>10, <1>11 DEF ReopenOnline
<1>12. CASE ReopenOffline
  <2>1. ~up
    BY <1>12 DEF ReopenOffline
  <2>2. PICK d \in disk : Resume(d.events, d.acked, d.submission, FALSE)
    BY <1>12 DEF ReopenOffline
  <2>3. \A e \in disk : e.events \subseteq d.events
    BY <2>2
  <2> QED
    BY <1>10, <2>1, <2>2, <2>3
<1>13. CASE ReopenFromServer
  BY <1>10, <1>13 DEF ReopenFromServer
<1>14. CASE UNCHANGED vars
  BY <1>14 DEF vars, engine
<1> QED
  BY <1>1, <1>2, <1>3, <1>4, <1>5, <1>6, <1>7, <1>8, <1>9, <1>11, <1>12, <1>13,
     <1>14 DEF Next, Learner, Disk, Sync, Life

\* The server holds only what was sent, and what is sent was saved.
LEMMA SavedStep == IInv /\ [Next]_vars => (Held \subseteq wire)' /\ SavedFirst'
<1> SUFFICES ASSUME IInv, [Next]_vars PROVE (Held \subseteq wire)' /\ SavedFirst'
    OBVIOUS
<1> USE DEF IInv, Held, SavedFirst, Stored
<1>1. CASE Answer
  BY <1>1 DEF Answer, server, network
<1>2. CASE \E why \in {"manual", "expiry"} : Submit(why)
  BY <1>2 DEF Submit, server, network
<1>3. CASE CommitLands
  BY <1>3 DEF CommitLands, server, network, RecordsGrow
<1>4. CASE CommitFails \/ GraceSpent
  BY <1>4 DEF CommitFails, GraceSpent, server, network
<1>5. CASE Kick
  BY <1>5 DEF Kick, server, network, engine
<1>6. CASE Send
  BY <1>6 DEF Send, Sends, server
<1>7. CASE Acknowledged
  BY <1>7 DEF Acknowledged, Sends, server, network
<1>8. CASE SendFails \/ SyncNow \/ Tell \/ Told \/ TellFails
  BY <1>8 DEF SendFails, SyncNow, Tell, Told, TellFails, server, network
<1>9. CASE Server
  BY <1>9 DEF Server, Arrive, SubmissionArrives, DeadlinePasses, ServerExpires, engine,
     network
<1>10. CASE Crash
  BY <1>10 DEF Crash, server, network, RecordsGrow
<1>11. ASSUME NEW events, NEW known, NEW why, NEW submitted,
              Resume(events, known, why, submitted),
              ~trouble => events \ known \subseteq Stored
       PROVE  (Held \subseteq wire)' /\ SavedFirst'
  BY <1>11 DEF Resume, server, network
<1>12. CASE ReopenOnline
  BY <1>11, <1>12 DEF ReopenOnline
<1>13. CASE ReopenOffline
  BY <1>11, <1>13 DEF ReopenOffline
<1>14. CASE ReopenFromServer
  BY <1>11, <1>14 DEF ReopenFromServer
<1>15. CASE UNCHANGED vars
  BY <1>15 DEF vars, engine, server, network
<1> QED
  BY <1>1, <1>2, <1>3, <1>4, <1>5, <1>6, <1>7, <1>8, <1>9, <1>10, <1>12, <1>13,
     <1>14, <1>15 DEF Next, Learner, Disk, Sync, Life

-----------------------------------------------------------------------------
\* The inductive invariant holds in every reachable state.
THEOREM Invariant == Spec => []IInv
<1>1. IInv /\ [Next]_vars => IInv'
  BY DroppedStep, RecordsStep, SavedStep DEF IInv
<1> QED
  BY InitInv, <1>1, PTL DEF Spec

\* An answer leaves the queue only when the server has it, however the sends,
\* the commits and the application itself fail.
THEOREM NoAnswerIsDroppedAlways == Spec => []NoAnswerIsDropped
<1>1. IInv => NoAnswerIsDropped
  BY DEF IInv
<1> QED
  BY Invariant, <1>1, PTL

\* While the disk has kept its word, what has left the device is on its disk.
THEOREM DeviceHasWhatItSentAlways == Spec => []DeviceHasWhatItSent
<1>1. IInv => DeviceHasWhatItSent
  BY DEF IInv, SavedFirst, DeviceHasWhatItSent
<1> QED
  BY Invariant, <1>1, PTL

-----------------------------------------------------------------------------
\* An event of the highest number, if there are any: what LastSequence chooses.
Topped(events) == events = {} \/ \E e \in events : \A d \in events : seq[d] <= seq[e]

\* A log the session has, or has written down.
Numbered(events) == events \subseteq 1..used /\ Topped(events) /\ Rebuilds(events)

SequenceInv ==
    /\ used \in Nat /\ used <= MaxAnswers
    /\ ~up => log = {}
    /\ ~trouble => /\ seq \in [Id -> Nat]
                   /\ Numbered(log)
                   /\ \A r \in disk \cup commit : Numbered(r.events)

\* The number an answer is given is above those of the log.
LEMMA NextIsAbove ==
    ASSUME SequenceInv, ~trouble
    PROVE  LastSequence(log) \in Nat /\ \A e \in log : seq[e] <= LastSequence(log)
<1>1. CASE log = {}
  BY <1>1 DEF LastSequence
<1>2. CASE log # {}
  <2>1. log \subseteq Id
    BY SessionAssumption DEF Numbered, SequenceInv, Id
  <2>2. PICK e \in log : \A d \in log : seq[d] <= seq[e]
    BY <1>2 DEF SequenceInv, Numbered, Topped
  <2>3. \E n \in {seq[d] : d \in log} : \A d \in log : seq[d] <= n
    BY <2>2
  <2>4. LastSequence(log) \in {seq[d] : d \in log} /\ \A d \in log : seq[d] <= LastSequence(log)
    BY <1>2, <2>3, Zenon DEF LastSequence
  <2> QED
    BY <2>1, <2>4 DEF SequenceInv
<1> QED
  BY <1>1, <1>2

\* An answer's number is its own among those of any log the new number is above.
LEMMA AnswerNumbers ==
    ASSUME SequenceInv, Answer, ~trouble
    PROVE  /\ used' \in Nat /\ used' <= MaxAnswers /\ seq' \in [Id -> Nat]
           /\ Numbered(log)'
           /\ \A r \in disk \cup commit : Numbered(r.events)'
<1>1. /\ used' = used + 1 /\ used + 1 \in Id /\ used' <= MaxAnswers /\ used' \in Nat
      /\ seq' = [seq EXCEPT ![used + 1] = LastSequence(log) + 1]
      /\ log' = log \cup {used + 1}
  BY SessionAssumption DEF Answer, SequenceInv, Id
<1>2. LastSequence(log) \in Nat /\ \A e \in log : seq[e] <= LastSequence(log)
  BY NextIsAbove DEF SequenceInv
<1>3. seq' \in [Id -> Nat] /\ seq'[used + 1] = LastSequence(log) + 1
      /\ \A e \in 1..used : seq'[e] = seq[e] /\ e \in Id /\ e # used + 1 /\ seq[e] \in Nat
  BY <1>1, <1>2, SessionAssumption DEF SequenceInv, Id
<1>4. ASSUME NEW S, Numbered(S) PROVE Numbered(S)'
  BY <1>1, <1>3, <1>4 DEF Numbered, Topped, Rebuilds, SequenceInv
<1>5. log' \subseteq 1..used'
  BY <1>1 DEF SequenceInv, Numbered, Id
<1>6. \A d \in log : seq'[d] <= LastSequence(log) /\ seq'[d] \in Nat
  BY <1>2, <1>3 DEF SequenceInv, Numbered
<1>7. \A d \in log' : seq'[d] <= seq'[used + 1]
  BY <1>1, <1>2, <1>3, <1>6
<1>8. Topped(log)'
  BY <1>1, <1>7 DEF Topped
<1>9. Rebuilds(log)'
  <2>1. Rebuilds(log) /\ log \subseteq 1..used
    BY DEF SequenceInv, Numbered
  <2> QED
    BY <1>1, <1>2, <1>3, <1>6, <2>1 DEF Rebuilds
<1> QED
  BY <1>1, <1>3, <1>4, <1>5, <1>8, <1>9 DEF SequenceInv, Numbered

\* Answers are numbered above what the log holds, and a session that is opened
\* again goes on from a log that was written down.
LEMMA SequenceStep == IInv /\ SequenceInv /\ [Next]_vars => SequenceInv'
<1> SUFFICES ASSUME IInv, SequenceInv, [Next]_vars PROVE SequenceInv'
    OBVIOUS
<1>1. CASE Answer
  <2>1. CASE trouble
    BY <1>1, <2>1, SessionAssumption DEF SequenceInv, Answer
  <2>2. CASE ~trouble
    <3>1. Kicked(Record(log \cup {used + 1}, acked, reason))
              \subseteq commit \cup {Record(log \cup {used + 1}, acked, reason)}
      BY KickedFacts
    <3>2. \A r \in (disk \cup commit)' : r \in disk \cup commit \/ r.events = log'
      <4>1. /\ commit' = Kicked(Record(log \cup {used + 1}, acked, reason))
            /\ disk' = disk /\ log' = log \cup {used + 1}
        BY <1>1 DEF Answer
      <4> QED
        BY <3>1, <4>1
    <3>3. \A S : S = log' => Numbered(S)'
      BY <1>1, <2>2, AnswerNumbers
    <3>4. up' /\ ~trouble'
      BY <1>1, <2>2 DEF Answer
    <3> QED
      BY <1>1, <2>2, <3>2, <3>3, <3>4, AnswerNumbers DEF SequenceInv
  <2> QED
    BY <2>1, <2>2
<1>0. ASSUME UNCHANGED <<numbering, trouble>>, NEW S, Numbered(S) PROVE Numbered(S)'
  BY <1>0 DEF Numbered, Topped, Rebuilds, numbering
<1>20. ASSUME UNCHANGED numbering, trouble => trouble', ~up' => log' = {},
              ~trouble' => Numbered(log') /\ \A r \in (disk \cup commit)' : Numbered(r.events)
       PROVE  SequenceInv'
  BY <1>0, <1>20 DEF SequenceInv, numbering, Numbered, Topped, Rebuilds
<1>2. CASE \E why \in {"manual", "expiry"} : Submit(why)
  BY <1>2, <1>20, KickedFacts DEF Submit, SequenceInv, numbering
<1>3. CASE CommitLands
  BY <1>3, <1>20 DEF CommitLands, SequenceInv, numbering
<1>4. CASE CommitFails \/ GraceSpent
  BY <1>4, <1>20 DEF CommitFails, GraceSpent, SequenceInv, numbering
<1>5. CASE Kick
  BY <1>5, <1>20 DEF Kick, SequenceInv, numbering, engine
<1>6. CASE Send \/ SyncNow \/ Tell
  BY <1>6, <1>20 DEF Send, SyncNow, Tell, SequenceInv, numbering
<1>16. CASE SendFails \/ Told \/ TellFails
  BY <1>16, <1>20, KickedFacts DEF SendFails, Told, TellFails, SequenceInv, numbering
<1>7. CASE Acknowledged
  BY <1>7, <1>20, KickedFacts DEF Acknowledged, SequenceInv, numbering
<1>8. CASE Server
  BY <1>8, <1>20 DEF Server, Arrive, SubmissionArrives, DeadlinePasses, ServerExpires, engine,
     SequenceInv, numbering
<1>9. CASE Crash
  <2>1. UNCHANGED <<numbering, trouble>> /\ log' = {} /\ commit' = {}
    BY <1>9 DEF Crash
  <2>2. disk' \subseteq disk \cup commit
    BY <1>9 DEF Crash
  <2>3. Numbered({})
    BY DEF Numbered, Topped, Rebuilds
  <2> QED
    BY <1>20, <2>1, <2>2, <2>3 DEF SequenceInv
<1>10. ASSUME NEW events, NEW known, NEW why, NEW submitted,
              Resume(events, known, why, submitted), ~trouble => Numbered(events)
       PROVE  SequenceInv'
  BY <1>10, <1>20, KickedFacts DEF Resume, SequenceInv, numbering
<1>11. ASSUME ~trouble PROVE Held \subseteq Stored
  BY <1>11 DEF IInv, SavedFirst
<1>12. CASE ReopenOnline
  <2>1. PICK d \in disk : Resume(d.events \cup counted, d.acked \cup counted,
                                 IF d.submission = None /\ key # None
                                 THEN ServersReason ELSE d.submission, key # None)
    BY <1>12 DEF ReopenOnline
  <2>2. ~trouble => d.events \cup counted = d.events
    BY <1>11 DEF Stored, IInv, RecordsGrow, Held
  <2> QED
    BY <1>10, <2>1, <2>2 DEF SequenceInv
<1>13. CASE ReopenOffline
  BY <1>10, <1>13 DEF ReopenOffline, SequenceInv
<1>14. CASE ReopenFromServer
  <2>1. ~trouble => counted = {}
    BY <1>11, <1>14 DEF Stored, ReopenFromServer, Held
  <2>2. Numbered({})
    BY DEF Numbered, Topped, Rebuilds
  <2> QED
    BY <1>10, <1>14, <2>1, <2>2 DEF ReopenFromServer
<1>15. CASE UNCHANGED vars
  BY <1>15, <1>20 DEF vars, engine, SequenceInv, numbering
<1> QED
  BY <1>1, <1>2, <1>3, <1>4, <1>5, <1>6, <1>7, <1>8, <1>9, <1>12, <1>13, <1>14, <1>15, <1>16
  DEF Next, Learner, Disk, Sync, Life

\* Every log there is, in memory, on the disk or on its way there, is numbered.
THEOREM SequencesInvariant == Spec => []SequenceInv
<1>1. Init => SequenceInv
  BY SessionAssumption DEF Init, SequenceInv, Numbered, Topped, Rebuilds, Id
<1> QED
  BY Invariant, SequenceStep, <1>1, PTL DEF Spec

\* While the disk has kept its word, no two events the device or the server
\* holds carry one number, crashes and reopenings included.
THEOREM SequencesAreUniqueAlways == Spec => []SequencesAreUnique
<1>1. Spec => []SequenceInv
  BY SequencesInvariant
<1>2. IInv /\ SequenceInv => SequencesAreUnique
  <2> SUFFICES ASSUME IInv, SequenceInv, ~trouble PROVE Rebuilds(log \cup Held)
      BY DEF SequencesAreUnique
  <2>1. Held \subseteq Stored
    BY DEF IInv, SavedFirst
  <2>2. CASE disk = {}
    BY <2>1, <2>2 DEF Stored, SequenceInv, Numbered, Rebuilds
  <2>3. CASE disk # {}
    <3>1. PICK d \in disk : Stored = d.events
      BY <2>3 DEF IInv, RecordsGrow, Stored
    <3>2. log \cup Held \subseteq d.events \/ log \cup Held = log
      BY <2>1, <3>1 DEF IInv, RecordsGrow, SequenceInv
    <3> QED
      BY <3>1, <3>2 DEF SequenceInv, Numbered, Rebuilds
  <2> QED
    BY <2>2, <2>3
<1> QED
  BY Invariant, <1>1, <1>2, PTL

\* The records a session leaves behind rebuild, as long as the disk keeps its
\* word: two events of one number come only of answers sent unsaved.
THEOREM RecordsRebuildWhileSaved == Spec => [](~trouble => RecordsRebuild)
<1>1. SequenceInv => (~trouble => RecordsRebuild)
  BY DEF SequenceInv, Numbered, RecordsRebuild
<1> QED
  BY SequencesInvariant, <1>1, PTL

-----------------------------------------------------------------------------
Reasons == {"manual", "expiry"}

\* A submission that is written down, or about to be, is the session's, and is
\* in whatever is written down after it.
SubmissionStands ==
    /\ \A c \in commit : c.submission # None => reason # None
    /\ \A d \in disk : d.submission # None =>
           /\ up => reason # None
           /\ \A c \in commit : c.submission # None

\* Until the server has the submission, the session's phase says whether it has
\* made one, and nothing has come late.
StillOpen ==
    key = None => /\ late = {}
                  /\ up => phase = IF reason = None THEN "in_progress" ELSE "submitting"

\* Once it is told, with the submission on the disk first, the device holds
\* nothing that the server has not.
NothingBehind ==
    (key = None /\ handed # {} /\ ~trouble /\ ~early) =>
        /\ disk # {}
        /\ \A d \in disk : d.submission # None /\ d.events \subseteq Held
        /\ up => log \subseteq Held
        /\ ~up => log = {}

HandInv == SubmissionStands /\ StillOpen /\ NothingBehind

\* What a reopening goes on from, in the terms of the invariant.
LEMMA ResumeHands ==
    ASSUME IInv, HandInv, ~up,
           NEW events, NEW known, NEW why, NEW submitted,
           Resume(events, known, why, submitted),
           \A d \in disk : d.submission # None => why # None,
           key = None => ~submitted,
           \A d \in disk : d.events \subseteq events,
           disk # {} => \A e \in events : e \in Held \/ \E d \in disk : e \in d.events
    PROVE  HandInv'
<1> USE DEF IInv, HandInv
<1>1. commit' \subseteq {Record(events, known, why)}
  <2>1. Kicked(Record(events, known, why)) \subseteq commit \cup {Record(events, known, why)}
    BY KickedFacts
  <2> QED
    BY <2>1 DEF Resume, RecordsGrow
<1>2. up' /\ log' = events /\ reason' = why /\ UNCHANGED <<disk, network, server, trouble, early>>
      /\ phase' = IF submitted THEN "submitted"
                  ELSE IF why # None THEN "submitting" ELSE "in_progress"
  BY DEF Resume
<1>3. SubmissionStands'
  BY <1>1, <1>2 DEF SubmissionStands
<1>4. StillOpen'
  BY <1>2 DEF StillOpen, server
<1>5. NothingBehind'
  BY <1>2 DEF NothingBehind, server, network, Held
<1> QED
  BY <1>3, <1>4, <1>5

\* After the submission is on its way no answer is taken, and what the device
\* holds is at the server and stays there.
LEMMA HandStep == IInv /\ HandInv /\ [Next]_vars => HandInv'
<1> SUFFICES ASSUME IInv, HandInv, [Next]_vars PROVE HandInv'
    OBVIOUS
<1> USE DEF IInv, HandInv, SubmissionStands, StillOpen, NothingBehind, Held
<1>1. CASE Answer
  <2>1. commit' \subseteq commit \cup {Record(log \cup {used + 1}, acked, reason)}
        /\ (commit # {} => commit' = commit)
    BY <1>1, KickedFacts DEF Answer
  <2>2. /\ up /\ phase = "in_progress"
        /\ UNCHANGED <<up, phase, reason, disk, network, server, trouble, early>>
    BY <1>1 DEF Answer
  <2>3. key = None => reason = None
    BY <2>2
  <2> QED
    BY <2>1, <2>2, <2>3 DEF server, network
<1>2. CASE \E why \in Reasons : Submit(why)
  <2>1. PICK why \in Reasons : Submit(why)
    BY <1>2
  <2>2. commit' \subseteq commit \cup {Record(log, acked, why)}
    BY <2>1, KickedFacts DEF Submit
  <2> QED
    BY <2>1, <2>2 DEF Submit, server, network, Reasons, None
<1>3. CASE CommitLands
  <2>1. PICK c \in commit : disk' = {c} /\ commit' = {Record(log, acked, reason)} \ {c}
    BY <1>3 DEF CommitLands
  <2>2. up /\ UNCHANGED <<up, phase, log, reason, network, server, trouble, early>>
    BY <1>3 DEF CommitLands
  <2>3. c.events \subseteq log
    BY DEF RecordsGrow
  <2> QED
    BY <2>1, <2>2, <2>3 DEF server, network
<1>4. CASE CommitFails \/ GraceSpent
  BY <1>4 DEF CommitFails, GraceSpent, server, network
<1>5. CASE Kick
  <2>1. /\ up /\ commit' = {Record(log, acked, reason)}
        /\ UNCHANGED <<up, phase, log, reason, disk, network, server, trouble, early>>
    BY <1>5 DEF Kick, engine
  <2> QED
    BY <2>1 DEF server, network
<1>6. CASE Send \/ SyncNow
  BY <1>6 DEF Send, SyncNow, server, network
<1>16. CASE SendFails \/ TellFails
  <2>1. commit' \subseteq commit \cup {Record(log, acked, reason)}
    BY <1>16, KickedFacts DEF SendFails, TellFails
  <2>2. up /\ UNCHANGED <<up, phase, log, reason, disk, network, server, trouble, early>>
    BY <1>16 DEF SendFails, TellFails
  <2> QED
    BY <2>1, <2>2 DEF server, network
<1>7. CASE Acknowledged
  <2>1. commit' \subseteq commit \cup {Record(log, acked \cup sending, reason)}
    BY <1>7, KickedFacts DEF Acknowledged
  <2>2. up /\ UNCHANGED <<up, phase, log, reason, disk, handed, server, trouble, early>>
    BY <1>7 DEF Acknowledged
  <2> QED
    BY <2>1, <2>2 DEF server, network
<1>8. CASE Tell
  <2>1. log \subseteq Held
    BY <1>8 DEF Tell, NoAnswerIsDropped
  <2>2. \A d \in disk : d.events \subseteq log
    BY <1>8 DEF Tell, RecordsGrow
  <2>3. ~early' => disk # {} /\ \A d \in disk : d.submission # None
    BY <1>8 DEF Tell, RecordsGrow
  <2>4. up /\ UNCHANGED <<up, phase, log, reason, commit, disk, server, trouble>>
    BY <1>8 DEF Tell
  <2> QED
    BY <2>1, <2>2, <2>3, <2>4 DEF server
<1>9. CASE Told
  <2>1. commit' \subseteq commit \cup {Record(log, acked, reason)}
    BY <1>9, KickedFacts DEF Told
  <2>2. /\ up /\ key = "device"
        /\ UNCHANGED <<up, log, reason, disk, network, server, trouble, early>>
    BY <1>9 DEF Told
  <2> QED
    BY <2>1, <2>2 DEF server, network, None
<1>10. CASE Server
  BY <1>10 DEF Server, Arrive, SubmissionArrives, DeadlinePasses, ServerExpires, engine,
     network, None
<1>11. CASE Crash
  <2>1. /\ up /\ ~up' /\ commit' = {} /\ log' = {}
        /\ UNCHANGED <<network, server, trouble, early>>
    BY <1>11 DEF Crash
  <2>2. disk' = disk \/ \E c \in commit : disk' = {c}
    BY <1>11 DEF Crash
  <2>3. \A c \in commit : c.events \subseteq log
    BY DEF RecordsGrow
  <2> QED
    BY <2>1, <2>2, <2>3 DEF server, network
<1>12. CASE ReopenOnline
  <2>1. PICK d \in disk : Resume(d.events \cup counted, d.acked \cup counted,
                                 IF d.submission = None /\ key # None
                                 THEN ServersReason ELSE d.submission, key # None)
    BY <1>12 DEF ReopenOnline
  <2>2. ~up /\ \A e \in disk : e = d
    BY <1>12 DEF ReopenOnline, RecordsGrow
  <2> DEFINE why == IF d.submission = None /\ key # None THEN ServersReason ELSE d.submission
  <2>3. \A e \in disk : e.submission # None => why # None
    BY <2>2
  <2>4. \A e \in disk : e.events \subseteq d.events \cup counted
    BY <2>2
  <2>5. disk # {} => \A a \in d.events \cup counted : a \in Held \/ \E e \in disk : a \in e.events
    OBVIOUS
  <2>6. IInv /\ HandInv
    OBVIOUS
  <2> HIDE DEF why, IInv, HandInv, Held
  <2> QED
    BY <2>1, <2>2, <2>3, <2>4, <2>5, <2>6, ResumeHands DEF why
<1>13. CASE ReopenOffline
  <2>1. PICK d \in disk : Resume(d.events, d.acked, d.submission, FALSE)
    BY <1>13 DEF ReopenOffline
  <2>2. ~up /\ \A e \in disk : e = d
    BY <1>13 DEF ReopenOffline, RecordsGrow
  <2>3. /\ \A e \in disk : e.submission # None => d.submission # None
        /\ \A e \in disk : e.events \subseteq d.events
        /\ \A a \in d.events : a \in Held \/ \E e \in disk : a \in e.events
    BY <2>2
  <2>4. IInv /\ HandInv
    OBVIOUS
  <2> HIDE DEF IInv, HandInv, Held
  <2> QED
    BY <2>1, <2>2, <2>3, <2>4, ResumeHands
<1>14. CASE ReopenFromServer
  BY <1>14, ResumeHands DEF ReopenFromServer
<1>15. CASE UNCHANGED vars
  BY <1>15 DEF vars, engine, server, network
<1> QED
  BY <1>1, <1>2, <1>3, <1>4, <1>5, <1>6, <1>7, <1>8, <1>9, <1>10, <1>11, <1>12, <1>13,
     <1>14, <1>15, <1>16 DEF Next, Learner, Disk, Sync, Life, Reasons

\* When the server takes the device's submission it has every answer the device
\* holds, on screen or on disk, unless the disk failed or the submission left
\* before it was on disk.
THEOREM HandedInWholeAlways == Spec => HandedInWhole
<1>1. Init => HandInv
  BY DEF Init, HandInv, SubmissionStands, StillOpen, NothingBehind, None
<1>2. IInv /\ HandInv /\ [Next]_vars =>
          [(key = None /\ key' = "device" /\ ~trouble /\ ~early)
               => log \cup Stored \subseteq counted]_vars
  <2> SUFFICES ASSUME IInv, HandInv, Next, key = None, key' = "device", ~trouble, ~early
               PROVE  log \cup Stored \subseteq counted
      OBVIOUS
  <2>1. PICK why \in Reasons : SubmissionArrives(why)
    BY DEF Next, Learner, Disk, Sync, Server, Life, Answer, Submit, CommitLands, CommitFails,
       Kick, GraceSpent, Send, Acknowledged, SendFails, SyncNow, Tell, Told, TellFails, Arrive,
       SubmissionArrives, DeadlinePasses, ServerExpires, Crash, ReopenOnline, ReopenOffline,
       ReopenFromServer, Resume, server, None, Reasons
  <2>2. handed # {} /\ late = {}
    BY <2>1 DEF SubmissionArrives, HandInv, StillOpen
  <2> QED
    BY <2>2 DEF HandInv, NothingBehind, Held, Stored
<1> QED
  BY Invariant, HandStep, <1>1, <1>2, PTL DEF Spec, HandedInWhole
=============================================================================
