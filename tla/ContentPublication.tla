------------------------- MODULE ContentPublication -------------------------
(* What must be true of several aggregates when an item reaches students:    *)
(* an item, the solutions that explain it and the stimulus it pins, each     *)
(* with its own lifecycle, its own aggregate version and its own save.       *)
(*                                                                           *)
(* A handler that reads one aggregate and saves it under the version it read *)
(* is one step here: the save goes through only if nothing came between.     *)
(* The handlers that read a second aggregate, or write before they save, are *)
(* taken apart: the other aggregate is not part of any comparison.           *)
(* Solutions and stimuli have no handler that adds a version, so each is its *)
(* only version; ContentReview has the item's versions and its reviewers.    *)
EXTENDS ContentLifecycle, Integers

CONSTANTS
    Solutions,     \* solutions written for the item; the code does not limit them to one
    PubRequests,   \* requests in flight
    Keys,          \* the answers an item's key or a solution may state
    NoAnswer,
    MaxItemSaves, MaxSolutionSaves, MaxStimulusSaves    \* bounds of the instance

ASSUME PublicationAssumption == 
    /\ NoAnswer \notin Keys \cup Solutions \cup {"stimulus"} /\ "stimulus" \notin Solutions
    /\ MaxItemSaves \in Nat /\ MaxSolutionSaves \in Nat /\ MaxStimulusSaves \in Nat

VARIABLES
    pubItem,    \* the item: lifecycle, key, whether it pins the stimulus
    solution,   \* the solutions: lifecycle and the final answer they assert
    stimulus,   \* the stimulus: its lifecycle
    signed,     \* of each solution and the stimulus: whether an approving decision is
                \* on record, and whether it has been edited since the last of them
    held        \* what each request has read and is about to write

pubVars == <<pubItem, solution, stimulus, signed, held>>

Idle == [op |-> "idle", on |-> NoAnswer, saves |-> 0, state |-> "draft"]

PubInit ==
    /\ \E k \in Keys : pubItem = [state |-> "draft", key |-> k, pins |-> FALSE, saves |-> 1]
    /\ solution = [s \in Solutions |-> [state |-> "draft", answer |-> NoAnswer, saves |-> 0]]
    /\ stimulus = [state |-> "draft", saves |-> 1]
    /\ signed = [o \in Solutions \cup {"stimulus"} |-> "never"]
    /\ held = [q \in PubRequests |-> Idle]

InStudentsHands(state) == state \in {"published", "suspended"}

\* Mutant: an approved solution is still open to its author.
MutantIsLaterDraftEditable(state) == state \in {"draft", "changes_requested", "rejected", "approved"}

\* A published solution or stimulus would be open too, but for its only version
\* being then the published one, which is excluded by name.
IsLaterDraftEditable(state) == state \in {"draft", "changes_requested", "rejected"}

Holds(q, op, on, aggregate) ==
    /\ held[q] = Idle
    /\ held' = [held EXCEPT ![q] = [op |-> op, on |-> on, saves |-> aggregate.saves,
                                    state |-> aggregate.state]]

Lets(q) == held' = [held EXCEPT ![q] = Idle]

\* The comparison every save makes.
Unmoved(q, aggregate) == aggregate.saves = held[q].saves

Edited(o) == [signed EXCEPT ![o] = IF @ = "never" THEN @ ELSE "before an edit"]

Moved(aggregate, transition) ==
    [aggregate EXCEPT !.state = Transitioned(@, transition), !.saves = @ + 1]

-----------------------------------------------------------------------------
(* The item *)

ItemIsEdited ==
    /\ IsEditable(pubItem.state) /\ pubItem.saves < MaxItemSaves
    /\ \E k \in Keys : pubItem' = [pubItem EXCEPT !.key = k, !.saves = @ + 1]
    /\ UNCHANGED <<solution, stimulus, signed, held>>

ItemMoves ==
    /\ pubItem.saves < MaxItemSaves
    /\ \E t \in {"submit_for_review", "withdraw", "approve", "request_changes",
                 "reject", "suspend", "retire"} :
          Permitted(pubItem.state, t) /\ pubItem' = Moved(pubItem, t)
    /\ UNCHANGED <<solution, stimulus, signed, held>>

\* AttachStimulusToItem: the stimulus is read after the item was.
AttachBegins(q) ==
    /\ IsEditable(pubItem.state) /\ stimulus.state # "retired"
    /\ Holds(q, "attach", NoAnswer, pubItem)
    /\ UNCHANGED <<pubItem, solution, stimulus, signed>>

AttachSaves(q) ==
    /\ held[q].op = "attach"
    /\ pubItem' = IF Unmoved(q, pubItem) /\ pubItem.saves < MaxItemSaves
                  THEN [pubItem EXCEPT !.pins = TRUE, !.saves = @ + 1] ELSE pubItem
    /\ Lets(q)
    /\ UNCHANGED <<solution, stimulus, signed>>

\* Mutant: that a solution is there is enough.
MutantPublishItemBegins(q) ==
    /\ pubItem.state = "approved"
    /\ \E s \in Solutions : solution[s].state = "published"
    /\ Holds(q, "publish", NoAnswer, pubItem)
    /\ UNCHANGED <<pubItem, solution, stimulus, signed>>

\* PublishItemVersion, resolveFacts: one of the published solutions that
\* target the version, in no particular order, agrees with the key that was read.
PublishItemBegins(q) ==
    /\ pubItem.state = "approved"
    /\ \E s \in Solutions : solution[s].state = "published" /\ solution[s].answer = pubItem.key
    /\ Holds(q, "publish", NoAnswer, pubItem)
    /\ UNCHANGED <<pubItem, solution, stimulus, signed>>

PublishItemSaves(q) ==
    /\ held[q].op = "publish" /\ held[q].on = NoAnswer
    /\ pubItem' = IF Unmoved(q, pubItem) /\ pubItem.saves < MaxItemSaves
                  THEN Moved(pubItem, "publish") ELSE pubItem
    /\ Lets(q)
    /\ UNCHANGED <<solution, stimulus, signed>>

-----------------------------------------------------------------------------
(* Solutions *)

\* What is written agrees with the key there is when it is written.  A key
\* changed between the reading and the save is the same as one changed after it.
SolutionIsWritten(s) ==
    /\ solution[s].saves < MaxSolutionSaves
    /\ IsLaterDraftEditable(solution[s].state)
    /\ solution' = [solution EXCEPT ![s].answer = pubItem.key, ![s].saves = @ + 1]
    /\ signed' = Edited(s)
    /\ UNCHANGED <<pubItem, stimulus, held>>

SolutionIsSubmitted(s) ==
    /\ solution[s].saves \in 1..(MaxSolutionSaves - 1)
    /\ Permitted(solution[s].state, "submit_for_review")
    /\ solution' = [solution EXCEPT ![s] = Moved(@, "submit_for_review")]
    /\ UNCHANGED <<pubItem, stimulus, signed, held>>

\* RecordSolutionReviewDecision: the decision is on record before the
\* transition is tried, and stays there when the transition or the save fails.
SolutionIsDecided(q, s) ==
    /\ solution[s].saves > 0
    /\ Holds(q, "decide", s, solution[s])
    /\ signed' = [signed EXCEPT ![s] = "as it stands"]
    /\ UNCHANGED <<pubItem, solution, stimulus>>

SolutionIsApproved(q) ==
    LET s == held[q].on IN
    /\ held[q].op = "decide" /\ s \in Solutions
    /\ solution' = IF /\ Permitted(held[q].state, "approve")
                      /\ Unmoved(q, solution[s]) /\ solution[s].saves < MaxSolutionSaves
                   THEN [solution EXCEPT ![s] = Moved(@, "approve")] ELSE solution
    /\ Lets(q)
    /\ UNCHANGED <<pubItem, stimulus, signed>>

SolutionIsReturned(s) ==
    /\ solution[s].saves \in 1..(MaxSolutionSaves - 1)
    /\ \E t \in {"request_changes", "reject"} :
          Permitted(solution[s].state, t) /\ solution' = [solution EXCEPT ![s] = Moved(@, t)]
    /\ UNCHANGED <<pubItem, stimulus, signed, held>>

\* PublishSolutionVersion: an approving decision there is, and the key as it
\* is now; then the save, which compares the solution's version only.
PublishSolutionBegins(q, s) ==
    /\ solution[s].state = "approved"
    /\ signed[s] # "never"
    /\ solution[s].answer = pubItem.key
    /\ Holds(q, "publish", s, solution[s])
    /\ UNCHANGED <<pubItem, solution, stimulus, signed>>

PublishSolutionSaves(q) ==
    LET s == held[q].on IN
    /\ held[q].op = "publish" /\ s \in Solutions
    /\ solution' = IF Unmoved(q, solution[s]) /\ solution[s].saves < MaxSolutionSaves
                   THEN [solution EXCEPT ![s] = Moved(@, "publish")] ELSE solution
    /\ Lets(q)
    /\ UNCHANGED <<pubItem, stimulus, signed>>

-----------------------------------------------------------------------------
(* The stimulus *)

StimulusIsEdited ==
    /\ IsLaterDraftEditable(stimulus.state) /\ stimulus.saves < MaxStimulusSaves
    /\ stimulus' = [stimulus EXCEPT !.saves = @ + 1]
    /\ signed' = Edited("stimulus")
    /\ UNCHANGED <<pubItem, solution, held>>

StimulusMoves ==
    /\ stimulus.saves < MaxStimulusSaves
    /\ \/ \E t \in {"submit_for_review", "request_changes", "reject"} :
             Permitted(stimulus.state, t) /\ stimulus' = Moved(stimulus, t)
       \/ /\ Permitted(stimulus.state, "publish")
          /\ signed["stimulus"] # "never"
          /\ stimulus' = Moved(stimulus, "publish")
    /\ UNCHANGED <<pubItem, solution, signed, held>>

StimulusIsDecided(q) ==
    /\ Holds(q, "decide", "stimulus", stimulus)
    /\ signed' = [signed EXCEPT !["stimulus"] = "as it stands"]
    /\ UNCHANGED <<pubItem, solution, stimulus>>

StimulusIsApproved(q) ==
    /\ held[q].op = "decide" /\ held[q].on = "stimulus"
    /\ stimulus' = IF /\ Permitted(held[q].state, "approve")
                      /\ Unmoved(q, stimulus) /\ stimulus.saves < MaxStimulusSaves
                   THEN Moved(stimulus, "approve") ELSE stimulus
    /\ Lets(q)
    /\ UNCHANGED <<pubItem, solution, signed>>

\* RetireStimulus counts the published items that pin it, then saves.
RetireStimulusBegins(q) ==
    /\ Permitted(stimulus.state, "retire")
    /\ ~(pubItem.pins /\ InStudentsHands(pubItem.state))
    /\ Holds(q, "retire", "stimulus", stimulus)
    /\ UNCHANGED <<pubItem, solution, stimulus, signed>>

RetireStimulusSaves(q) ==
    /\ held[q].op = "retire" /\ held[q].on = "stimulus"
    /\ stimulus' = IF Unmoved(q, stimulus) /\ stimulus.saves < MaxStimulusSaves
                   THEN Moved(stimulus, "retire") ELSE stimulus
    /\ Lets(q)
    /\ UNCHANGED <<pubItem, solution, signed>>

-----------------------------------------------------------------------------
PubNext ==
    \/ ItemIsEdited \/ ItemMoves \/ StimulusIsEdited \/ StimulusMoves
    \/ \E s \in Solutions : SolutionIsWritten(s) \/ SolutionIsSubmitted(s) \/ SolutionIsReturned(s)
    \/ \E q \in PubRequests :
          \/ AttachBegins(q) \/ AttachSaves(q) \/ PublishItemBegins(q)
          \/ PublishItemSaves(q)
          \/ SolutionIsApproved(q) \/ PublishSolutionSaves(q)
          \/ StimulusIsDecided(q) \/ StimulusIsApproved(q)
          \/ RetireStimulusBegins(q) \/ RetireStimulusSaves(q)
          \/ \E s \in Solutions : SolutionIsDecided(q, s) \/ PublishSolutionBegins(q, s)

PubSpec == PubInit /\ [][PubNext]_pubVars

-----------------------------------------------------------------------------
(* Properties *)

\* INV-08: an item students have was published with a published solution that
\* states the answer its key states, although key and solution are edited and
\* published apart from each other.
PublishedItemIsExplained ==
    InStudentsHands(pubItem.state) =>
        \E s \in Solutions : solution[s].state = "published" /\ solution[s].answer = pubItem.key

\* What is published of a solution or a stimulus was approved as it stands,
\* although an approval is on record before the aggregate is saved, and stays
\* on record when the save is refused.
PublishedIsSigned ==
    /\ \A s \in Solutions :
          solution[s].state = "published" => signed[s] = "as it stands"
    /\ stimulus.state = "published" => signed["stimulus"] = "as it stands"

=============================================================================
