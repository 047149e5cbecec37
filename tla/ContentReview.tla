---------------------------- MODULE ContentReview ----------------------------
(* One item on its way from draft to publication, and the review workspace   *)
(* around it: authors and Content Ops who write, reviewers who claim, decide *)
(* and edit, the hourly ageing sweep, and the clock.                         *)
(*                                                                           *)
(* Every handler reads the item (`findById`), decides in memory, and saves   *)
(* under the aggregate version it read.  A request is therefore two steps:   *)
(* Reads, and one of the finishing actions, with anything in between.  The   *)
(* several statements of one `findById` are one step: the item row is read   *)
(* first, so a read torn by a save carries the older version and loses.      *)
(* A decision is always saved with the item, in the same transaction, so     *)
(* decisions are ordered by the item's versions.                             *)
(*                                                                           *)
(* Of a version's content the model keeps which edit produced it, `body`,    *)
(* which is no column of the code.                                           *)
EXTENDS ContentLifecycle, Integers, Sequences

CONSTANTS
    Authors,         \* people who may write drafts
    ContentOps,      \* those of them who may also touch anyone's draft
    Reviewers,       \* people who may claim and decide; they may be authors too
    ReviewRequests,  \* requests in flight against the item
    LeaseTime,       \* reviewPolicy.leaseHours
    EscalateAfter,   \* reviewPolicy.escalateAfterHours
    Nobody,
    MaxSaves, MaxVersions, MaxEdits, MaxClaims   \* bounds of the instance

ASSUME ReviewAssumption ==
    /\ ContentOps \subseteq Authors
    /\ Nobody \notin Authors \cup Reviewers
    /\ LeaseTime \in Nat \ {0} /\ EscalateAfter \in Nat \ {0}
    /\ MaxSaves \in Nat /\ MaxVersions \in Nat /\ MaxEdits \in Nat /\ MaxClaims \in Nat

VARIABLES
    item,         \* content.item and its versions; saves = aggregate_version
    read,         \* the item each request read; saves = 0 when it read none
    decisions,    \* content.review_decision, in commit order
    assignments,  \* content.review_assignment
    claiming,     \* a claim between its statement's snapshot and its lock
    waited,       \* time since state_entered_at, up to EscalateAfter
    escalated,    \* versions content.review_escalation names
    sweepSaw      \* the version the ageing sweep is about to escalate, or 0

reviewVars == <<item, read, decisions, assignments, claiming, waited, escalated, sweepSaw>>

NoItem == [state |-> "draft", versions |-> <<>>, published |-> 0, saves |-> 0, deleted |-> FALSE]
NotClaiming == [version |-> 0, kind |-> "claimed"]

ReviewInit ==
    /\ item = NoItem
    /\ read = [q \in ReviewRequests |-> NoItem]
    /\ decisions = <<>>
    /\ assignments = <<>>
    /\ claiming = [r \in Reviewers |-> NotClaiming]
    /\ waited = 0 /\ escalated = {} /\ sweepSaw = 0

-----------------------------------------------------------------------------
(* What the handlers ask of the item they read, and how it is saved. *)

Latest(i) == Len(i.versions)

\* The owner of the latest version, or Content Ops.
MayTouch(who, i) == who \in ContentOps \/ who = i.versions[Latest(i)].author

\* Mutant: publication asks for the author only and forgets the editor.
MutantIsSelfReview(version, who) == who = version.author

\* INV-12 as the code asks it, in its three places.
IsSelfReview(version, who) == who \in {version.author, version.editor}

Approving(v) ==
    {k \in DOMAIN decisions : decisions[k].version = v /\ IsApproving(decisions[k].outcome)}

\* findApprovalFor: the latest approving decision on a version.
IsApprovalFor(k, v) == k \in Approving(v) /\ \A j \in Approving(v) : j <= k

\* A body no version of the item has had.
NewBody(i) == {b \in 1..MaxEdits : \A v \in DOMAIN i.versions : i.versions[v].body < b}

\* deriveDraft: another version by whoever derives it; the editor carries over.
Derived(version, who) == [version EXCEPT !.author = who]

\* deriveReviewerEditedVersion: the author stays the author.
ReviewerEdited(version, who, b) == [body |-> b, author |-> version.author, editor |-> who]

AddVersion(i, version) == [i EXCEPT !.versions = Append(@, version)]

ReplaceDraftVersion(i, b) == [i EXCEPT !.versions[Latest(i)].body = b]

\* The preconditions that name the version's signature; the others (tags,
\* licensing, a solution, rendering) hold or the request is refused.
Publishable(i, v) ==
    \E k \in DOMAIN decisions :
        IsApprovalFor(k, v) /\ ~IsSelfReview(i.versions[v], decisions[k].by)

Read(q) == read[q].saves > 0 /\ item.saves < MaxSaves

Done(q) == read' = [read EXCEPT ![q] = NoItem]

\* Mutant: the save compares no version, and the last writer wins.
MutantAccepts(next) == item.deleted => next.state = "draft" /\ next.published = 0

\* The save goes through only from the version that was read, and a deleted
\* row takes nothing but a draft that was never published.
Accepts(next) ==
    /\ item.saves < next.saves
    /\ item.deleted => next.state = "draft" /\ next.published = 0

\* A published version is left exactly as it is stored.
Stored(next) ==
    [next EXCEPT !.versions = [v \in DOMAIN next.versions |->
                     IF v = item.published THEN item.versions[v] ELSE next.versions[v]],
                 !.deleted = item.deleted]

\* `alongside` happens in the transaction of the save, or not at all.
Save(q, next, alongside) ==
    LET attempt == [next EXCEPT !.saves = @ + 1] IN
    /\ Done(q)
    /\ IF Accepts(attempt)
       THEN /\ item' = Stored(attempt)
            /\ waited' = IF attempt.state = item.state THEN waited ELSE 0
            /\ alongside
       ELSE UNCHANGED <<item, waited, decisions, assignments>>

NothingElse == UNCHANGED <<decisions, assignments>>

\* The rows a decision writes: itself, and its assignment, which must be live.
Records(v, who, outcome, body, k) ==
    /\ decisions' = Append(decisions,
                       [version |-> v, by |-> who, outcome |-> outcome, body |-> body])
    /\ assignments' = IF k = 0 THEN assignments
                      ELSE [assignments EXCEPT ![k].state = "decided"]

LiveAssignment(k) == k \in DOMAIN assignments /\ assignments[k].state = "claimed"

-----------------------------------------------------------------------------
(* Authors and Content Ops *)

CreateDraft(a) ==
    /\ item.saves = 0
    /\ item' = [item EXCEPT !.saves = 1,
                   !.versions = <<[body |-> 0, author |-> a, editor |-> Nobody]>>]
    /\ UNCHANGED <<read, decisions, assignments, claiming, waited, escalated, sweepSaw>>

Reads(q) ==
    /\ read[q].saves = 0 /\ item.saves > 0 /\ ~item.deleted
    /\ read' = [read EXCEPT ![q] = item]
    /\ UNCHANGED <<item, decisions, assignments, claiming, waited, escalated, sweepSaw>>

\* A request the handler refuses ends without a write.
Refused(q) ==
    /\ read[q].saves > 0
    /\ Done(q)
    /\ UNCHANGED <<item, decisions, assignments, claiming, waited, escalated, sweepSaw>>

\* Rewrites the latest version in place; it keeps its author and its editor.
UpdateDraft(q, who) ==
    LET seen == read[q] IN
    /\ Read(q) /\ MayTouch(who, seen)
    /\ IsEditable(seen.state) /\ Latest(seen) # seen.published
    /\ \E b \in NewBody(seen) :
          Save(q, ReplaceDraftVersion(seen, b), NothingElse)
    /\ UNCHANGED <<claiming, escalated, sweepSaw>>

\* Only the latest version's successor has the number addVersion asks for.
DeriveDraft(q, who) ==
    LET seen == read[q] IN
    /\ Read(q) /\ MayTouch(who, seen)
    /\ IsEditable(seen.state) /\ Latest(seen) < MaxVersions
    /\ Save(q, AddVersion(seen, Derived(seen.versions[Latest(seen)], who)), NothingElse)
    /\ UNCHANGED <<claiming, escalated, sweepSaw>>

\* Deletion compares no version; the CHECK on the row is what guards it.
DeleteDraft(q, who) ==
    LET seen == read[q] IN
    /\ Read(q) /\ MayTouch(who, seen)
    /\ seen.state = "draft" /\ seen.published = 0
    /\ Done(q)
    /\ item' = IF item.state = "draft" /\ item.published = 0
               THEN [item EXCEPT !.deleted = TRUE] ELSE item
    /\ UNCHANGED <<decisions, assignments, claiming, waited, escalated, sweepSaw>>

SubmitForReview(q, who) ==
    LET seen == read[q] IN
    /\ Read(q) /\ MayTouch(who, seen)
    /\ Permitted(seen.state, "submit_for_review")
    /\ Save(q, [seen EXCEPT !.state = Transitioned(@, "submit_for_review")], NothingElse)
    /\ UNCHANGED <<claiming, escalated, sweepSaw>>

\* A claim whose lease still runs.
HasLiveClaim(v) ==
    \E k \in DOMAIN assignments :
        /\ assignments[k].version = v /\ LiveAssignment(k)
        /\ assignments[k].age < assignments[k].lease

\* Refused when review of the version has begun.
Withdraw(q) ==
    LET seen == read[q] IN
    /\ Read(q)
    /\ Permitted(seen.state, "withdraw")
    /\ ~HasLiveClaim(Latest(seen))
    /\ Save(q, [seen EXCEPT !.state = Transitioned(@, "withdraw")], NothingElse)
    /\ UNCHANGED <<claiming, escalated, sweepSaw>>

-----------------------------------------------------------------------------
(* Reviewers and publishers *)

\* Any version of the item may be decided, with or without an assignment, and
\* with any outcome: approve_with_edits said here approves as it is, without an
\* edit.
RecordDecision(q, r, v, outcome, k) ==
    LET seen == read[q] IN
    /\ Read(q) /\ v \in DOMAIN seen.versions
    /\ ~IsSelfReview(seen.versions[v], r)
    /\ Permitted(seen.state, TransitionFor(outcome))
    /\ k = 0 \/ LiveAssignment(k)
    /\ Save(q, [seen EXCEPT !.state = Transitioned(@, TransitionFor(outcome))],
            Records(v, r, outcome, seen.versions[v].body, k))
    /\ UNCHANGED <<claiming, escalated, sweepSaw>>

\* The edited version is decided on, and the item stays under review.
ApproveWithEdits(q, r, k) ==
    LET seen == read[q]
        from == seen.versions[Latest(seen)]
    IN
    /\ Read(q) /\ seen.state = "in_review" /\ Latest(seen) < MaxVersions
    /\ ~IsSelfReview(from, r)
    /\ k = 0 \/ LiveAssignment(k)
    /\ \E b \in NewBody(seen) :
          Save(q, AddVersion(seen, ReviewerEdited(from, r, b)),
               Records(Latest(seen) + 1, r, "approve_with_edits", b, k))
    /\ UNCHANGED <<claiming, escalated, sweepSaw>>

PublishVersion(q, v) ==
    LET seen == read[q] IN
    /\ Read(q) /\ v \in DOMAIN seen.versions
    /\ Publishable(seen, v)
    /\ Permitted(seen.state, "publish")
    /\ Save(q, [seen EXCEPT !.state = Transitioned(@, "publish"), !.published = v], NothingElse)
    /\ UNCHANGED <<claiming, escalated, sweepSaw>>

Suspend(q) ==
    LET seen == read[q] IN
    /\ Read(q) /\ Permitted(seen.state, "suspend")
    /\ Save(q, [seen EXCEPT !.state = Transitioned(@, "suspend")], NothingElse)
    /\ UNCHANGED <<claiming, escalated, sweepSaw>>

Retire(q) ==
    LET seen == read[q] IN
    /\ Read(q) /\ Permitted(seen.state, "retire")
    /\ Save(q, [seen EXCEPT !.state = Transitioned(@, "retire")], NothingElse)
    /\ UNCHANGED <<claiming, escalated, sweepSaw>>

-----------------------------------------------------------------------------
(* Claims.  `SELECT ... FOR UPDATE OF v` locks the version and not the item: *)
(* the item's state is the one of the statement's snapshot, however long the *)
(* statement waits for the version's lock.                                   *)

\* claimNext: the latest version, not the reviewer's own, with no claim on it.
ClaimNextSees(r) ==
    /\ claiming[r].version = 0 /\ Len(assignments) < MaxClaims
    /\ item.state = "in_review"
    /\ item.versions[Latest(item)].author # r
    /\ ~\E k \in DOMAIN assignments : assignments[k].version = Latest(item) /\ LiveAssignment(k)
    /\ claiming' = [claiming EXCEPT ![r] = [version |-> Latest(item), kind |-> "claimed"]]
    /\ UNCHANGED <<item, read, decisions, assignments, waited, escalated, sweepSaw>>

\* assign: the version that was named, whichever it is.
AssignSees(r, v) ==
    /\ claiming[r].version = 0 /\ Len(assignments) < MaxClaims
    /\ item.state = "in_review" /\ v \in DOMAIN item.versions
    /\ claiming' = [claiming EXCEPT ![r] = [version |-> v, kind |-> "assigned"]]
    /\ UNCHANGED <<item, read, decisions, assignments, waited, escalated, sweepSaw>>

\* The unique index keeps a version from a second live claim.
ClaimTakes(r) ==
    LET v == claiming[r].version IN
    /\ v # 0
    /\ claiming' = [claiming EXCEPT ![r] = NotClaiming]
    /\ IF /\ ~IsSelfReview(item.versions[v], r)
          /\ ~\E k \in DOMAIN assignments : assignments[k].version = v /\ LiveAssignment(k)
          /\ Len(assignments) < MaxClaims
       THEN assignments' = Append(assignments,
                [version |-> v, by |-> r, kind |-> claiming[r].kind, state |-> "claimed",
                 age |-> 0, lease |-> LeaseTime])
       ELSE UNCHANGED assignments
    /\ UNCHANGED <<item, read, decisions, waited, escalated, sweepSaw>>

\* Read and conditional write are one step: the write names the version read.
ReleaseAssignment(k) ==
    /\ LiveAssignment(k)
    /\ assignments' = [assignments EXCEPT ![k].state = "released"]
    /\ UNCHANGED <<item, read, decisions, claiming, waited, escalated, sweepSaw>>

\* Mutant: the lease can be extended from now, without a cap.
MutantExtendLease(k) ==
    /\ LiveAssignment(k)
    /\ assignments' = [assignments EXCEPT ![k].age = 0]
    /\ UNCHANGED <<item, read, decisions, claiming, waited, escalated, sweepSaw>>

\* Never past one further lease from the claim, and never backwards.
ExtendLease(k) ==
    LET asked == assignments[k].age + LeaseTime
        cap == 2 * LeaseTime
        granted == IF asked < cap THEN asked ELSE cap
    IN
    /\ LiveAssignment(k)
    /\ granted > assignments[k].lease
    /\ assignments' = [assignments EXCEPT ![k].lease = granted]
    /\ UNCHANGED <<item, read, decisions, claiming, waited, escalated, sweepSaw>>

-----------------------------------------------------------------------------
(* The clock and the hourly sweep *)

\* Ages past the longest lease and the escalation threshold are not told
\* apart, and how long an item has been in another state is never asked.
TimePasses ==
    /\ waited' = IF item.state = "in_review" /\ waited < EscalateAfter THEN waited + 1 ELSE waited
    /\ assignments' = [k \in DOMAIN assignments |->
            IF LiveAssignment(k) /\ assignments[k].age < 2 * LeaseTime
            THEN [assignments[k] EXCEPT !.age = @ + 1] ELSE assignments[k]]
    /\ <<waited, assignments>>' # <<waited, assignments>>
    /\ UNCHANGED <<item, read, decisions, claiming, escalated, sweepSaw>>

SweepReleases ==
    LET Expired == {k \in DOMAIN assignments :
                      LiveAssignment(k) /\ assignments[k].lease <= assignments[k].age}
    IN
    /\ Expired # {}
    /\ assignments' = [k \in DOMAIN assignments |->
            IF k \in Expired THEN [assignments[k] EXCEPT !.state = "expired"] ELSE assignments[k]]
    /\ UNCHANGED <<item, read, decisions, claiming, waited, escalated, sweepSaw>>

\* Mutant: an item is escalated once, not each of its versions.
MutantSweepSees ==
    /\ sweepSaw = 0 /\ item.state = "in_review" /\ waited >= EscalateAfter
    /\ escalated = {}
    /\ sweepSaw' = Latest(item)
    /\ UNCHANGED <<item, read, decisions, assignments, claiming, waited, escalated>>

\* The sweep's page of submitted items, and one transaction per aged item.
SweepSees ==
    /\ sweepSaw = 0 /\ item.state = "in_review" /\ waited >= EscalateAfter
    /\ Latest(item) \notin escalated
    /\ sweepSaw' = Latest(item)
    /\ UNCHANGED <<item, read, decisions, assignments, claiming, waited, escalated>>

SweepEscalates ==
    /\ sweepSaw # 0
    /\ escalated' = escalated \cup {sweepSaw}
    /\ sweepSaw' = 0
    /\ UNCHANGED <<item, read, decisions, assignments, claiming, waited>>

-----------------------------------------------------------------------------
AuthorActs(q) ==
    \/ Reads(q) \/ Refused(q) \/ Withdraw(q) \/ Suspend(q) \/ Retire(q)
    \/ \E a \in Authors :
          UpdateDraft(q, a) \/ DeriveDraft(q, a) \/ DeleteDraft(q, a) \/ SubmitForReview(q, a)

ReviewerActs(q) ==
    \/ \E v \in 1..MaxVersions : PublishVersion(q, v)
    \/ \E r \in Reviewers, k \in 0..MaxClaims :
          \/ ApproveWithEdits(q, r, k)
          \/ \E v \in 1..MaxVersions, o \in ReviewOutcome :
                RecordDecision(q, r, v, o, k)

ReviewNext ==
    \/ \E a \in Authors : CreateDraft(a)
    \/ \E q \in ReviewRequests : AuthorActs(q) \/ ReviewerActs(q)
    \/ \E r \in Reviewers :
          ClaimNextSees(r) \/ ClaimTakes(r) \/ \E v \in 1..MaxVersions : AssignSees(r, v)
    \/ \E k \in 1..MaxClaims : ReleaseAssignment(k) \/ ExtendLease(k)
    \/ TimePasses \/ SweepReleases \/ SweepSees \/ SweepEscalates

\* Time passes, and the scheduler runs the sweep again and again.
ReviewFairness ==
    /\ WF_reviewVars(TimePasses)
    /\ WF_reviewVars(SweepReleases) /\ WF_reviewVars(SweepSees) /\ WF_reviewVars(SweepEscalates)

ReviewSpec == ReviewInit /\ [][ReviewNext]_reviewVars /\ ReviewFairness
-----------------------------------------------------------------------------
(* Properties *)

Version == [body : 0..MaxEdits, author : Authors, editor : Reviewers \cup {Nobody}]

\* An approved item was approved by the last decision taken, and the version
\* that decision names still holds what the reviewer's request read.
ApprovedAsDecided ==
    item.state = "approved" =>
        /\ decisions # <<>>
        /\ LET last == decisions[Len(decisions)]
           IN  IsApproving(last.outcome) /\ last.body = item.versions[last.version].body

\* A published version was approved by somebody who is neither its author nor
\* its editor, whichever versions were edited, derived or decided on the way.
SignedIndependently ==
    item.published # 0 =>
        \E k \in DOMAIN decisions :
            /\ decisions[k].version = item.published /\ IsApproving(decisions[k].outcome)
            /\ decisions[k].by \notin {item.versions[item.published].author,
                                       item.versions[item.published].editor}

\* No request, however old what it read, takes an item back from publication,
\* publishes another version of it, or changes the published one (INV-03).
PublishedIsFrozen ==
    [][item.published # 0 =>
         /\ item'.published = item.published
         /\ item'.versions[item.published] = item.versions[item.published]
         /\ item.state = "retired" => item'.state = "retired"]_reviewVars

\* What students see of the item, and who signed for that: the latest approving
\* decision on a version is the one publication asks about.
Standing ==
    CASE item.state \in {"suspended", "retired"} -> item.state
      [] item.state = "published" -> "public"
      [] OTHER -> "withheld"

PublishedVersions == {item.published} \ {0}
Signatories(v) == {decisions[k].by : k \in {j \in DOMAIN decisions : IsApprovalFor(j, v)}}

Shown == INSTANCE Edition WITH
    People <- Authors \cup Reviewers,
    Bodies <- 0..MaxEdits,
    standing <- Standing,
    edition <- {item.versions[v] : v \in PublishedVersions},
    signatory <- UNION {Signatories(v) : v \in PublishedVersions}

\* Every behaviour of the item is one of Edition's: what is published was signed
\* for by somebody else, and however old what a request read, neither the version
\* nor its signature changes, and the item does not come back (INV-03, INV-12).
ImplementsEdition == Shown!Spec

\* Every claim ends, by a decision, a release or the sweep, although its
\* holder may extend its lease: the cap keeps a version from being held for ever.
EveryClaimEnds ==
    \A k \in 1..MaxClaims : LiveAssignment(k) ~> ~LiveAssignment(k)

\* An item that has waited past the threshold is escalated, unless it leaves
\* review first; a version added while it waits is a version to escalate.
WaitingIsEscalated ==
    (item.state = "in_review" /\ waited >= EscalateAfter)
        ~> (item.state # "in_review" \/ Latest(item) \in escalated)

\* What publication-preconditions.ts and item-lifecycle.ts say: the version
\* published is signed for, and reworked content goes back through review.
PublishedAsReviewed ==
    item.published # 0 =>
        \E k \in DOMAIN decisions :
            /\ decisions[k].version = item.published /\ IsApproving(decisions[k].outcome)
            /\ decisions[k].body = item.versions[item.published].body

\* What that takes: reviewers decide on the latest version, and publishers
\* publish it.
AboutTheLatest ==
    /\ decisions' # decisions => decisions'[Len(decisions')].version = Latest(item')
    /\ item'.published # item.published => item'.published = Latest(item')

=============================================================================
