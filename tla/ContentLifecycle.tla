-------------------------- MODULE ContentLifecycle --------------------------
(* The lifecycle that items, stimuli, solutions and media share.  The code   *)
(* writes it as one table and refuses every transition the table does not    *)
(* name, so the model is the same table: a set of triples.                   *)

LifecycleState == {"draft", "in_review", "changes_requested", "approved",
                   "rejected", "published", "suspended", "retired"}

\* <<state, transition, state it leads to>>
LifecycleTable ==
    {<<"draft", "submit_for_review", "in_review">>,
     <<"in_review", "withdraw", "draft">>,
     <<"in_review", "request_changes", "changes_requested">>,
     <<"in_review", "approve", "approved">>,
     <<"in_review", "reject", "rejected">>,
     <<"changes_requested", "submit_for_review", "in_review">>,
     <<"approved", "publish", "published">>,
     <<"approved", "request_changes", "changes_requested">>,
     <<"rejected", "submit_for_review", "in_review">>,
     <<"published", "suspend", "suspended">>,
     <<"published", "retire", "retired">>,
     <<"suspended", "reinstate", "published">>,
     <<"suspended", "retire", "retired">>}

\* A transition the table does not name is refused.
Permitted(from, transition) ==
    \E to \in LifecycleState : <<from, transition, to>> \in LifecycleTable

Transitioned(from, transition) ==
    CHOOSE to \in LifecycleState : <<from, transition, to>> \in LifecycleTable

\* Mutant: editable wherever a solution is, that is, under approval too.
MutantIsEditable(state) == state \notin {"in_review", "published", "suspended", "retired"}

\* Where an author may still change an item's or a stimulus's content.
IsEditable(state) == state \in {"draft", "changes_requested", "rejected"}

\* REVIEW_OUTCOMES, and what the wire accepts of a reviewer.
ReviewOutcome == {"approve", "approve_with_edits", "request_changes", "reject"}

\* The transition a reviewer's outcome drives.
TransitionFor(outcome) ==
    IF outcome = "approve_with_edits" THEN "approve" ELSE outcome

IsApproving(outcome) == outcome \in {"approve", "approve_with_edits"}
=============================================================================
