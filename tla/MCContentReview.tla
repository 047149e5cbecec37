--------------------------- MODULE MCContentReview ---------------------------
(* The instance: a writer, a Content Ops person who also reviews, and a     *)
(* reviewer.  Requests race each other with the clock still; claims, the    *)
(* clock and the sweep run against one request, on a shorter history.       *)
EXTENDS ContentReview

CONSTANTS Racer,               \* the request that runs only when the clock is still
          MaxSavesUnderReview  \* how long a history the clock and claims see

WorkspaceInUse ==
    \/ assignments # <<>> \/ waited > 0 \/ escalated # {} \/ sweepSaw # 0
    \/ \E r \in Reviewers : claiming[r].version # 0

InFocus == WorkspaceInUse => /\ item.saves <= MaxSavesUnderReview
                             /\ \A q \in {Racer} \cap ReviewRequests : read[q].saves = 0

MCReviewSpec == ReviewInit /\ [][ReviewNext /\ InFocus']_reviewVars /\ ReviewFairness
=============================================================================
