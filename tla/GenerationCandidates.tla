------------------------- MODULE GenerationCandidates -------------------------
(* A candidate from its proposal to its decision: the pre-check battery that  *)
(* records verdicts, and the acceptance that makes it a draft in content.     *)
(*                                                                            *)
(* A candidate is loaded, changed in memory and saved.  The save compares the *)
(* stored verdicts with its own, then the stored decision, and inserts what   *)
(* is new: its statements each see what is committed by then and lock no row  *)
(* they read, so that others commit between them, and the keys of the two     *)
(* tables are what refuses a second writer.  A load is one step: of three     *)
(* reads the last finds no decision, so there was none at the first.  Between *)
(* the load and the save of an acceptance there are two commands of another   *)
(* context, with transactions of their own.                                   *)
(* The operator's AcceptCandidate and RejectCandidate, and the battery with   *)
(* its DisposeCandidate, run side by side.                                    *)
EXTENDS Integers, Sequences, SequencesExt, FiniteSets

CONSTANTS
    Candidates,
    Handlers,            \* commands being handled at once
    BlockingPrechecks,
    AdvisoryPrechecks,
    NoCandidate,
    MaxDrafts            \* bound of the instance: drafts content creates

PrecheckIds == BlockingPrechecks \cup AdvisoryPrechecks

ASSUME CandidatesAssumption ==
    /\ BlockingPrechecks \cap AdvisoryPrechecks = {}
    /\ NoCandidate \notin Candidates /\ MaxDrafts \in Nat

VARIABLES
    candidate,   \* what is stored: verdicts in the order of their ordinals, and the decision
    handling,    \* what each command is doing, the candidate it has loaded or would
                 \* save, and what its save has read of the stored one
    draft,       \* the drafts content made of candidates: of which, and whether submitted
    announced    \* the events in the outbox: <<candidate, decision, draft>>

candidateVars == <<candidate, handling, draft, announced>>

Proposed == [verdicts |-> <<>>, state |-> "proposed"]
Doing(at, c, held, made) == [at |-> at, of |-> c, loaded |-> held, seen |-> Proposed, made |-> made]
Nothing == Doing("idle", NoCandidate, Proposed, 0)

CandidatesInit ==
    /\ candidate = [c \in Candidates |-> Proposed]
    /\ handling = [h \in Handlers |-> Nothing]
    /\ draft = <<>>
    /\ announced = {}

-----------------------------------------------------------------------------
(* The domain: generation-candidate.ts *)

Checked(loaded) == {loaded.verdicts[i].check : i \in DOMAIN loaded.verdicts}

FailedBlockingChecks(loaded) ==
    {b \in BlockingPrechecks : \E i \in DOMAIN loaded.verdicts :
        loaded.verdicts[i] = [check |-> b, outcome |-> "fail"]}

DispositionOf(loaded) ==
    IF loaded.state # "proposed" THEN "undecided"
    ELSE IF FailedBlockingChecks(loaded) # {} THEN "reject"
    ELSE IF BlockingPrechecks \subseteq Checked(loaded) THEN "accept" ELSE "undecided"

\* Mutant: that the checks which ran have passed is enough.
MutantMayBeAccepted(loaded) ==
    loaded.state = "proposed" /\ FailedBlockingChecks(loaded) = {}

MayBeAccepted(loaded) ==
    /\ loaded.state = "proposed"
    /\ FailedBlockingChecks(loaded) = {}
    /\ BlockingPrechecks \subseteq Checked(loaded)

-----------------------------------------------------------------------------
(* A command's next step *)

Handles(h, does) == handling' = [handling EXCEPT ![h] = does]

Rests(h) == Handles(h, Nothing)

Battery(c) == Doing("battery", c, Proposed, 0)

Accepting(c, loaded) == Doing("accepting", c, loaded, 0)

\* To save what the candidate is to become, as the domain made it of the loaded.
Saving(c, becomes, made) == Doing("saves", c, becomes, made)

-----------------------------------------------------------------------------
(* The battery *)

\* RunPrecheckBattery starts on a proposed candidate.
BatteryBegins(h, c) ==
    /\ handling[h] = Nothing /\ candidate[c].state = "proposed"
    /\ Handles(h, Battery(c))
    /\ UNCHANGED <<candidate, draft, announced>>

\* A check has run.  RecordPrecheckVerdict loads the candidate as it is now, and
\* refuses one that is decided or that has a verdict of this check.
BatteryRecords(h) ==
    LET c == handling[h].of IN
    /\ handling[h].at = "battery" /\ candidate[c].state = "proposed"
    /\ \E k \in PrecheckIds \ Checked(candidate[c]), o \in {"pass", "fail"} :
          Handles(h, Saving(c, [candidate[c] EXCEPT !.verdicts = Append(@, [check |-> k, outcome |-> o])], 0))
    /\ UNCHANGED <<candidate, draft, announced>>

\* Its last act is DisposeCandidate, which loads the candidate again.
BatteryDisposes(h) ==
    LET c == handling[h].of
        now == candidate[c]
    IN
    /\ handling[h].at = "battery"
    /\ Handles(h, CASE DispositionOf(now) = "accept" -> Accepting(c, now)
                    [] DispositionOf(now) = "reject" -> Saving(c, [now EXCEPT !.state = "rejected"], 0)
                    [] OTHER -> Nothing)
    /\ UNCHANGED <<candidate, draft, announced>>

-----------------------------------------------------------------------------
(* The decision *)

OperatorAccepts(h, c) ==
    /\ handling[h] = Nothing /\ MayBeAccepted(candidate[c])
    /\ Handles(h, Accepting(c, candidate[c]))
    /\ UNCHANGED <<candidate, draft, announced>>

OperatorRejects(h, c) ==
    /\ handling[h] = Nothing /\ candidate[c].state = "proposed"
    /\ Handles(h, Saving(c, [candidate[c] EXCEPT !.state = "rejected"], 0))
    /\ UNCHANGED <<candidate, draft, announced>>

\* Content's CreateItemDraft, in its own transaction.
DraftIsCreated(h) ==
    /\ handling[h].at = "accepting" /\ Len(draft) < MaxDrafts
    /\ draft' = Append(draft, [of |-> handling[h].of, state |-> "draft"])
    /\ Handles(h, [handling[h] EXCEPT !.at = "submitting", !.made = Len(draft) + 1])
    /\ UNCHANGED <<candidate, announced>>

\* Mutant: the decision is saved without the draft having gone to review.
MutantDraftIsSubmitted(h) ==
    LET w == handling[h] IN
    /\ w.at = "submitting"
    /\ draft' = draft
    /\ Handles(h, Saving(w.of, [w.loaded EXCEPT !.state = "accepted"], w.made))
    /\ UNCHANGED <<candidate, announced>>

\* Content's SubmitItemForReview, in its own transaction; the decision is saved next.
DraftIsSubmitted(h) ==
    LET w == handling[h] IN
    /\ w.at = "submitting"
    /\ draft' = [draft EXCEPT ![w.made].state = "submitted"]
    /\ Handles(h, Saving(w.of, [w.loaded EXCEPT !.state = "accepted"], w.made))
    /\ UNCHANGED <<candidate, announced>>

-----------------------------------------------------------------------------
(* The save: #saveWithin *)

\* What is stored must begin what is saved.
SaveComparesVerdicts(h) ==
    LET w == handling[h] IN
    /\ w.at = "saves" /\ IsPrefix(candidate[w.of].verdicts, w.loaded.verdicts)
    /\ Handles(h, [w EXCEPT !.at = "compared", !.seen = [verdicts |-> candidate[w.of].verdicts, state |-> "proposed"]])
    /\ UNCHANGED <<candidate, draft, announced>>

\* And a stored decision must be the one saved.
SaveComparesDecision(h) ==
    LET w == handling[h] IN
    /\ w.at = "compared" /\ candidate[w.of].state \in {"proposed", w.loaded.state}
    /\ Handles(h, [w EXCEPT !.at = "agreed", !.seen = [verdicts |-> w.seen.verdicts, state |-> candidate[w.of].state]])
    /\ UNCHANGED <<candidate, draft, announced>>

\* A verdict is inserted at the ordinal after those seen, and a decision if none
\* was: rows whose key another has taken since abort the transaction.
KeysAreFree(now, w) ==
    /\ w.loaded.verdicts # w.seen.verdicts => now.verdicts = w.seen.verdicts
    /\ w.loaded.state # w.seen.state => now.state = w.seen.state

\* A decision commits with its event, and its command is over; a battery goes on.
SaveCommits(h) ==
    LET w == handling[h]
        now == candidate[w.of]
    IN
    /\ w.at = "agreed" /\ KeysAreFree(now, w)
    /\ candidate' = [candidate EXCEPT ![w.of] =
          [verdicts |-> IF w.loaded.verdicts # w.seen.verdicts THEN w.loaded.verdicts ELSE now.verdicts,
           state |-> IF w.loaded.state # w.seen.state THEN w.loaded.state ELSE now.state]]
    /\ IF w.loaded.state = "proposed"
       THEN announced' = announced /\ Handles(h, Battery(w.of))
       ELSE announced' = announced \cup {<<w.of, w.loaded.state, w.made>>} /\ Rests(h)
    /\ UNCHANGED draft

\* A battery whose verdict was not recorded reports that, and goes on.
VerdictIsRefused(h) ==
    /\ handling[h].at \in {"saves", "compared", "agreed"} /\ handling[h].loaded.state = "proposed"
    /\ Handles(h, Battery(handling[h].of))
    /\ UNCHANGED <<candidate, draft, announced>>

\* Content refuses or cannot be reached, a save is a conflict, or the process
\* dies: the command ends where it is, and what was committed stays.
HandlingFails(h) ==
    /\ handling[h] # Nothing
    /\ Rests(h)
    /\ UNCHANGED <<candidate, draft, announced>>

CandidatesNext ==
    \E h \in Handlers :
        \/ BatteryRecords(h) \/ BatteryDisposes(h)
        \/ DraftIsCreated(h) \/ DraftIsSubmitted(h)
        \/ SaveComparesVerdicts(h) \/ SaveComparesDecision(h) \/ SaveCommits(h)
        \/ VerdictIsRefused(h) \/ HandlingFails(h)
        \/ \E c \in Candidates : BatteryBegins(h, c) \/ OperatorAccepts(h, c) \/ OperatorRejects(h, c)

CandidatesSpec == CandidatesInit /\ [][CandidatesNext]_candidateVars

-----------------------------------------------------------------------------
(* Properties *)

\* An accepted candidate holds a pass for every blocking check and none that
\* failed, whoever recorded what between the load and the commit, and after it: a
\* verdict whose save had compared the decision before there was one comes late.
AcceptedWasChecked ==
    \A c \in Candidates : candidate[c].state = "accepted" =>
        /\ FailedBlockingChecks(candidate[c]) = {}
        /\ BlockingPrechecks \subseteq Checked(candidate[c])

\* Everyone who is told of a decision is told the same: every announcement names
\* the decision that stands, and an acceptance names a draft of that candidate
\* that was submitted for review, although content and generation commit apart.
AnnouncedAsDecided ==
    \A c \in Candidates, d \in 0..MaxDrafts :
        /\ <<c, "rejected", d>> \in announced => candidate[c].state = "rejected"
        /\ <<c, "accepted", d>> \in announced =>
              /\ candidate[c].state = "accepted"
              /\ d \in DOMAIN draft /\ draft[d] = [of |-> c, state |-> "submitted"]

\* A verdict, once recorded, stays as it is and where it is, no check gets a
\* second one, and a decision once made stays: the comparisons of two saves may
\* both pass, the keys let one of them commit.  A verdict may still come after the
\* decision, on a check that had none.
RecordStands ==
    [][\A c \in Candidates :
          /\ IsPrefix(candidate[c].verdicts, candidate'[c].verdicts)
          /\ \A i \in DOMAIN candidate'[c].verdicts :
                i \notin DOMAIN candidate[c].verdicts =>
                    candidate'[c].verdicts[i].check \notin Checked(candidate[c])
          /\ candidate[c].state # "proposed" => candidate'[c].state = candidate[c].state]_candidateVars

=============================================================================
