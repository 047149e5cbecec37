------------------------------ MODULE ExamProfiles ------------------------------
(* The profile versions of one exam for one academic year: drafted, rewritten,*)
(* published, made the year's active one in the same request, and superseded. *)
(* A request reads a profile's row and then its sections, which are rows of   *)
(* their own; a publication then reads the taxonomy and, to activate, which   *)
(* profile of the year is active.  It saves row and sections if the row is    *)
(* still the one its client saw, just before its request read it.             *)
(* Of a profile's content the model keeps the marks its row declares, with the*)
(* marking rules that go with them, and the marks its sections sum to.        *)
EXTENDS Integers, FiniteSets

CONSTANTS
    Profiles,         \* profile versions of the year
    ProfileRequests,  \* requests being served at once
    Marks,            \* totals a profile may declare or come to
    MaxProfileSaves   \* bound of the instance: saves of one profile

NoHash == 0

ASSUME ProfilesAssumption == Marks \subseteq Nat \ {NoHash} /\ MaxProfileSaves \in Nat

VARIABLES
    profile,    \* the rows; saves is aggregate_version
    taxonomy,   \* the state of the taxonomy version they refer to
    request     \* each request: what it has read, or would write

profileVars == <<profile, taxonomy, request>>

NoProfile(marks) ==
    [state |-> "none", total |-> marks, sections |-> marks, hash |-> NoHash, active |-> FALSE, saves |-> 0]

NoRequest == [step |-> "rest"]

ProfilesInit ==
    /\ \E marks \in Marks : profile = [p \in Profiles |-> NoProfile(marks)]
    /\ taxonomy = "draft"
    /\ request = [q \in ProfileRequests |-> NoRequest]

Requests(q, does) == request' = [request EXCEPT ![q] = does]

Active == {p \in Profiles : profile[p].active}

TaxonomyIsPublished ==
    /\ taxonomy = "draft" /\ taxonomy' = "published"
    /\ UNCHANGED <<profile, request>>

\* CreateProfileDraft: what it says need not add up.
ProfileIsDrafted(p) ==
    /\ profile[p].state = "none"
    /\ \E total, sum \in Marks :
           profile' = [profile EXCEPT ![p] = [NoProfile(total) EXCEPT !.state = "draft", !.sections = sum, !.saves = 1]]
    /\ UNCHANGED <<taxonomy, request>>

-----------------------------------------------------------------------------
(* Loading a profile *)

ReadsRow(q, p) ==
    /\ request[q] = NoRequest /\ profile[p].state # "none" /\ profile[p].saves < MaxProfileSaves
    /\ \E op \in {"update", "publish", "activate", "supersede"} :
           Requests(q, [step |-> "row", op |-> op, on |-> p, holds |-> profile[p]])
    /\ UNCHANGED <<profile, taxonomy>>

ReadsSections(q) ==
    /\ request[q].step = "row"
    /\ Requests(q, [request[q] EXCEPT !.step = "loaded", !.holds.sections = profile[request[q].on].sections])
    /\ UNCHANGED <<profile, taxonomy>>

Refuses(q) ==
    /\ request[q].step \in {"loaded", "publishable"}
    /\ Requests(q, NoRequest)
    /\ UNCHANGED <<profile, taxonomy>>

-----------------------------------------------------------------------------
(* What the request would save *)

\* UpdateProfileDraft rebuilds the draft from what the client sends.
Rewrites(q) ==
    /\ request[q].step = "loaded" /\ request[q].op = "update" /\ request[q].holds.state = "draft"
    /\ \E total, sum \in Marks :
           Requests(q, [request[q] EXCEPT !.step = "saves", !.holds.total = total, !.holds.sections = sum])
    /\ UNCHANGED <<profile, taxonomy>>

\* publicationPreconditions, over the rows as they were loaded; the hash of the
\* marking rules is frozen with them.
MayPublish(q) ==
    /\ request[q].step = "loaded" /\ request[q].op \in {"publish", "activate"}
    /\ request[q].holds.state = "draft" /\ request[q].holds.total = request[q].holds.sections
    /\ taxonomy = "published"

Publishes(q) ==
    /\ MayPublish(q)
    /\ Requests(q, [request[q] EXCEPT !.step = IF request[q].op = "activate" THEN "publishable" ELSE "saves",
                        !.holds.state = "published", !.holds.hash = request[q].holds.total])
    /\ UNCHANGED <<profile, taxonomy>>

\* Exam.activateProfileVersion, over the exam as it is read now.
Activates(q) ==
    /\ request[q].step = "publishable"
    /\ Active = {}
    /\ Requests(q, [request[q] EXCEPT !.step = "saves", !.holds.active = TRUE])
    /\ UNCHANGED <<profile, taxonomy>>

\* The flag is not handed to the update, which clears it.
Supersedes(q) ==
    /\ request[q].step = "loaded" /\ request[q].op = "supersede" /\ request[q].holds.state = "published"
    /\ Requests(q, [request[q] EXCEPT !.step = "saves", !.holds.state = "superseded", !.holds.active = FALSE])
    /\ UNCHANGED <<profile, taxonomy>>

-----------------------------------------------------------------------------
(* The save: DrizzleExamProfileVersionRepository.update *)

\* Mutant: whatever the row has become.
MutantIsAsSeen(q) == TRUE

IsAsSeen(q) == request[q].holds.saves = profile[request[q].on].saves

\* The trigger on published rows: their content is frozen.
IsLegalUpdate(old, new) ==
    old.state # "draft" =>
        /\ new.total = old.total /\ new.hash = old.hash
        /\ new.state = old.state \/ (old.state = "published" /\ new.state = "superseded")

\* exam_profile_version_one_active_per_year_idx
ActiveIsUnique(q) == request[q].holds.active => Active \subseteq {request[q].on}

\* Sections are replaced with a draft's row, and only then.
SavesProfile(q) ==
    LET p == request[q].on
        new == request[q].holds
    IN /\ request[q].step = "saves"
       /\ IsAsSeen(q) /\ IsLegalUpdate(profile[p], new) /\ ActiveIsUnique(q)
       /\ profile' = [profile EXCEPT ![p] =
             [new EXCEPT !.sections = IF new.state = "draft" THEN new.sections ELSE profile[p].sections,
                         !.saves = profile[p].saves + 1]]
       /\ Requests(q, NoRequest)
       /\ UNCHANGED taxonomy

SaveIsRefused(q) ==
    /\ request[q].step = "saves"
    /\ ~(IsAsSeen(q) /\ IsLegalUpdate(profile[request[q].on], request[q].holds) /\ ActiveIsUnique(q))
    /\ Requests(q, NoRequest)
    /\ UNCHANGED <<profile, taxonomy>>

ProfilesNext ==
    \/ TaxonomyIsPublished
    \/ \E p \in Profiles : ProfileIsDrafted(p)
    \/ \E q \in ProfileRequests :
          \/ \E p \in Profiles : ReadsRow(q, p)
          \/ ReadsSections(q) \/ Rewrites(q) \/ Publishes(q) \/ Activates(q) \/ Supersedes(q)
          \/ Refuses(q) \/ SavesProfile(q) \/ SaveIsRefused(q)

ProfilesSpec == ProfilesInit /\ [][ProfilesNext]_profileVars

-----------------------------------------------------------------------------
(* Properties *)

\* The sections of a published profile come to the marks it declares and its
\* hash is that of its rules, although row and sections were read, checked and
\* are written apart: publicationPreconditions and the update.
PublishedAddsUp ==
    \A p \in Profiles : profile[p].state \in {"published", "superseded"} =>
        profile[p].total = profile[p].sections /\ profile[p].hash = profile[p].total

\* One profile is active for the year, and it is a published one, whoever
\* publishes what at once: activateProfileVersion and the unique index.
OneActivePerYear ==
    /\ \A p, r \in Active : p = r
    /\ \A p \in Active : profile[p].state = "published"
=============================================================================
