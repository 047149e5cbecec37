------------------------- MODULE ContentReviewProofs -------------------------
(* Proofs about ContentReview.                                               *)
(*                                                                           *)
(* What carries them is Current: a request whose read is as new as the item  *)
(* has read what the item is.  A save that is accepted is such a request's,  *)
(* so what its handler decided about the item it read holds of the item.     *)
(* Effects names what a step can do to the item and the decisions; the       *)
(* invariants are proved from that alone.                                    *)
EXTENDS ContentReview, TLAPS

ItemRow == [state : LifecycleState, versions : Seq(Version), published : Nat,
            saves : Nat, deleted : BOOLEAN]
DecisionRow == [version : Nat, by : Reviewers, body : 0..MaxEdits,
                outcome : ReviewOutcome]

Rows ==
    /\ item \in ItemRow /\ read \in [ReviewRequests -> ItemRow]
    /\ decisions \in Seq(DecisionRow)

Begun(i) ==
    /\ i.saves = 0 => i.state = "draft" /\ i.published = 0
    /\ i.saves > 0 => Len(i.versions) > 0

Current ==
    /\ Begun(item)
    /\ \A q \in ReviewRequests :
          /\ Begun(read[q])
          /\ read[q].saves <= item.saves
          /\ read[q].saves > 0 /\ read[q].saves = item.saves =>
                /\ read[q].state = item.state /\ read[q].versions = item.versions
                /\ read[q].published = item.published

InPublication == {"published", "suspended", "retired"}

PublishedIsNamed ==
    /\ item.published \in 0..Len(item.versions)
    /\ item.state \in InPublication <=> item.published # 0

IInv == Rows /\ Current /\ PublishedIsNamed /\ ApprovedAsDecided /\ SignedIndependently

-----------------------------------------------------------------------------
(* What a step does *)

SavedOnce == item'.saves = item.saves + 1 /\ item.saves > 0

Keeps ==
    /\ item'.saves = item.saves /\ item'.state = item.state
    /\ item'.versions = item.versions /\ item'.published = item.published
    /\ decisions' = decisions

Creates ==
    /\ item.saves = 0 /\ item'.saves = 1 /\ item'.state = item.state
    /\ item'.published = item.published /\ decisions' = decisions
    /\ \E a \in Authors : item'.versions = <<[body |-> 0, author |-> a, editor |-> Nobody]>>

Edits ==
    /\ SavedOnce /\ IsEditable(item.state) /\ item'.state = item.state
    /\ item'.published = item.published /\ decisions' = decisions
    /\ \E b \in 0..MaxEdits : item'.versions = [item.versions EXCEPT ![Latest(item)].body = b]

Derives ==
    /\ SavedOnce /\ IsEditable(item.state) /\ item'.state = item.state
    /\ item'.published = item.published /\ decisions' = decisions
    /\ \E a \in Authors : item'.versions =
          Append(item.versions, [item.versions[Latest(item)] EXCEPT !.author = a])

Moves ==
    /\ SavedOnce /\ item'.versions = item.versions /\ item'.published = item.published
    /\ decisions' = decisions
    /\ \E t \in {"submit_for_review", "withdraw", "suspend", "retire"} :
          <<item.state, t, item'.state>> \in LifecycleTable

Decides ==
    /\ SavedOnce /\ item'.versions = item.versions /\ item'.published = item.published
    /\ \E v \in DOMAIN item.versions, r \in Reviewers, o \in ReviewOutcome :
          /\ <<item.state, TransitionFor(o), item'.state>> \in LifecycleTable
          /\ decisions' = Append(decisions, [version |-> v, by |-> r, outcome |-> o,
                                             body |-> item.versions[v].body])

ApprovesEdited ==
    /\ SavedOnce /\ item.state = "in_review" /\ item'.state = item.state
    /\ item'.published = item.published
    /\ \E b \in 0..MaxEdits, r \in Reviewers :
          /\ item'.versions = Append(item.versions,
                [body |-> b, author |-> item.versions[Latest(item)].author, editor |-> r])
          /\ decisions' = Append(decisions, [version |-> Latest(item) + 1, by |-> r,
                                             outcome |-> "approve_with_edits", body |-> b])

Publishes ==
    /\ SavedOnce /\ item.state = "approved" /\ item'.state = "published"
    /\ item'.versions = item.versions /\ decisions' = decisions
    /\ item'.published \in DOMAIN item.versions
    /\ \E k \in Approving(item'.published) :
          /\ IsApprovalFor(k, item'.published)
          /\ ~IsSelfReview(item.versions[item'.published], decisions[k].by)

Effects == \/ Keeps \/ Creates \/ Edits \/ Derives \/ Moves \/ Decides \/ ApprovesEdited \/ Publishes

-----------------------------------------------------------------------------
LEMMA TransitionIsInTable ==
    ASSUME NEW from, NEW t, Permitted(from, t)
    PROVE  /\ <<from, t, Transitioned(from, t)>> \in LifecycleTable
           /\ Transitioned(from, t) \in LifecycleState
  BY DEF Permitted, Transitioned

LEMMA InitInv == ReviewInit => IInv
  BY DEF ReviewInit, NoItem, IInv, Rows, ItemRow, LifecycleState, Current, Begun,
         PublishedIsNamed, InPublication, ApprovedAsDecided, SignedIndependently

\* A save that is accepted finds the item as the request read it.
LEMMA AcceptedIsCurrent ==
    ASSUME IInv, NEW q \in ReviewRequests, NEW attempt,
           read[q].saves > 0, attempt.saves = read[q].saves + 1, Accepts(attempt)
    PROVE  /\ item.saves > 0 /\ read[q].saves = item.saves
           /\ read[q].state = item.state /\ read[q].versions = item.versions
           /\ read[q].published = item.published
  <1>1. item.saves \in Nat /\ read[q].saves \in Nat
    BY DEF IInv, Rows, ItemRow
  <1>2. read[q].saves <= item.saves /\ item.saves < read[q].saves + 1
    BY DEF IInv, Current, Accepts
  <1>3. read[q].saves = item.saves
    BY <1>1, <1>2
  <1> QED
    BY <1>3 DEF IInv, Current

\* Leaving the published version as it is stored changes nothing else.
LEMMA StoredAsMade ==
    ASSUME IInv, NEW attempt \in ItemRow,
           item.published # 0 => attempt.versions = item.versions
    PROVE  /\ Stored(attempt).state = attempt.state
           /\ Stored(attempt).versions = attempt.versions
           /\ Stored(attempt).published = attempt.published
           /\ Stored(attempt).saves = attempt.saves
           /\ Stored(attempt) \in ItemRow
  <1> DEFINE rows == [v \in DOMAIN attempt.versions |->
                        IF v = item.published THEN item.versions[v] ELSE attempt.versions[v]]
  <1>1. attempt.versions \in Seq(Version) /\ item.deleted \in BOOLEAN
    BY DEF IInv, Rows, ItemRow
  <1>2. 0 \notin DOMAIN attempt.versions
    BY <1>1
  <1>3. rows = attempt.versions
    <2>1. \A v \in DOMAIN attempt.versions : rows[v] = attempt.versions[v]
      BY <1>2
    <2>2. attempt.versions = [v \in DOMAIN attempt.versions |-> attempt.versions[v]]
      BY <1>1
    <2> QED
      BY <2>1, <2>2
  <1>4. Stored(attempt) = [attempt EXCEPT !.versions = rows, !.deleted = item.deleted]
    BY DEF Stored
  <1> HIDE DEF rows
  <1> QED
    BY <1>1, <1>3, <1>4 DEF ItemRow

\* Save, with what its transaction does to the decisions named `told`.
LEMMA SaveEffect ==
    ASSUME IInv, NEW q \in ReviewRequests, NEW next \in ItemRow,
           read[q].saves > 0, next.saves = read[q].saves,
           item.published # 0 /\ Accepts([next EXCEPT !.saves = @ + 1])
              => next.versions = item.versions,
           NEW ACTION kept,
           Save(q, next, kept)
    PROVE  \/ item' = item /\ decisions' = decisions
           \/ /\ kept
              /\ item.saves > 0 /\ read[q].saves = item.saves
              /\ read[q].state = item.state /\ read[q].versions = item.versions
              /\ read[q].published = item.published
              /\ item'.saves = item.saves + 1
              /\ item'.state = next.state /\ item'.versions = next.versions
              /\ item'.published = next.published
              /\ item' \in ItemRow
  <1> DEFINE attempt == [next EXCEPT !.saves = @ + 1]
  <1>1. attempt \in ItemRow /\ attempt.saves = read[q].saves + 1
    BY DEF ItemRow
  <1>2. CASE ~Accepts(attempt)
    BY <1>2 DEF Save
  <1>3. CASE Accepts(attempt)
    <2>1. kept /\ item' = Stored(attempt)
      BY <1>3 DEF Save
    <2>2. /\ item.saves > 0 /\ read[q].saves = item.saves
          /\ read[q].state = item.state /\ read[q].versions = item.versions
          /\ read[q].published = item.published
      BY <1>1, <1>3, AcceptedIsCurrent
    <2>3. item.published # 0 => attempt.versions = item.versions
      BY <1>3
    <2> HIDE DEF attempt
    <2>4. /\ item'.state = attempt.state /\ item'.versions = attempt.versions
          /\ item'.published = attempt.published /\ item'.saves = attempt.saves
          /\ item' \in ItemRow
      BY <1>1, <2>1, <2>3, StoredAsMade
    <2>5. attempt.state = next.state /\ attempt.versions = next.versions
          /\ attempt.published = next.published
      BY DEF attempt, ItemRow
    <2> QED
      BY <1>1, <2>1, <2>2, <2>4, <2>5
  <1> QED
    BY <1>2, <1>3

\* What the handlers read is an item as the tables hold one.
LEMMA ReadRow ==
    ASSUME IInv, NEW q \in ReviewRequests, read[q].saves > 0
    PROVE  /\ read[q] \in ItemRow
           /\ Len(read[q].versions) \in Nat /\ Len(read[q].versions) > 0
           /\ read[q].versions[Latest(read[q])] \in Version
  <1>1. read[q] \in ItemRow /\ Len(read[q].versions) > 0
    BY DEF IInv, Rows, Current, Begun
  <1>2. read[q].versions \in Seq(Version)
    BY <1>1 DEF ItemRow
  <1> QED
    BY <1>1, <1>2 DEF Latest

LEMMA UpdateDraftEffect ==
    ASSUME IInv, NEW q \in ReviewRequests, NEW who \in Authors, UpdateDraft(q, who)
    PROVE  (Keeps \/ Edits) /\ item' \in ItemRow
  <1> DEFINE seen == read[q]
  <1>1. read[q].saves > 0 /\ IsEditable(seen.state)
    BY DEF UpdateDraft, Read
  <1>2. seen \in ItemRow /\ Latest(seen) \in DOMAIN seen.versions
    BY <1>1, ReadRow DEF ItemRow, Latest
  <1>3. PICK b \in NewBody(seen) :
          Save(q, [seen EXCEPT !.versions[Latest(seen)].body = b], NothingElse)
    BY DEF UpdateDraft, ReplaceDraftVersion
  <1> DEFINE next == [seen EXCEPT !.versions[Latest(seen)].body = b]
  <1>4. b \in 0..MaxEdits
    BY ReviewAssumption DEF NewBody
  <1>5. /\ next.versions = [seen.versions EXCEPT ![Latest(seen)].body = b]
        /\ next.state = seen.state /\ next.published = seen.published
        /\ next.saves = seen.saves
    BY <1>2 DEF ItemRow
  <1>6. next \in ItemRow
    <2> DEFINE row == [seen.versions[Latest(seen)] EXCEPT !.body = b]
    <2>1. row \in Version
      BY <1>1, <1>4, ReadRow DEF Version
    <2>2. next.versions = [seen.versions EXCEPT ![Latest(seen)] = row]
      BY <1>5
    <2> HIDE DEF row
    <2>3. next.versions \in Seq(Version)
      BY <1>2, <2>1, <2>2 DEF ItemRow
    <2> QED
      BY <1>2, <2>3 DEF ItemRow
  <1> HIDE DEF next
  <1>7. ASSUME item.published # 0, Accepts([next EXCEPT !.saves = @ + 1])
        PROVE  next.versions = item.versions
    <2>1. item.state = seen.state
      BY <1>1, <1>5, <1>6, <1>7, AcceptedIsCurrent DEF ItemRow
    <2> QED
      BY <1>1, <1>7, <2>1 DEF IInv, PublishedIsNamed, InPublication, IsEditable
  <1>8. Save(q, next, NothingElse)
    BY <1>3 DEF next
  <1>9. CASE item' = item /\ decisions' = decisions
    BY <1>9 DEF Keeps, IInv, Rows
  <1>10. CASE /\ NothingElse
              /\ item.saves > 0 /\ read[q].state = item.state
              /\ read[q].versions = item.versions /\ read[q].published = item.published
              /\ item'.saves = item.saves + 1
              /\ item'.state = next.state /\ item'.versions = next.versions
              /\ item'.published = next.published
              /\ item' \in ItemRow
    BY <1>1, <1>4, <1>5, <1>10 DEF Edits, SavedOnce, Latest, NothingElse
  <1> QED
    BY <1>1, <1>5, <1>6, <1>7, <1>8, <1>9, <1>10, SaveEffect

LEMMA DeriveDraftEffect ==
    ASSUME IInv, NEW q \in ReviewRequests, NEW who \in Authors, DeriveDraft(q, who)
    PROVE  (Keeps \/ Derives) /\ item' \in ItemRow
  <1> DEFINE seen == read[q]
             row == [seen.versions[Latest(seen)] EXCEPT !.author = who]
             next == [seen EXCEPT !.versions = Append(@, row)]
  <1>1. read[q].saves > 0 /\ IsEditable(seen.state)
    BY DEF DeriveDraft, Read
  <1>2. seen \in ItemRow /\ row \in Version
    BY <1>1, ReadRow DEF Version
  <1> HIDE DEF row
  <1>3. /\ next.versions = Append(seen.versions, row)
        /\ next.state = seen.state /\ next.published = seen.published
        /\ next.saves = seen.saves
    BY <1>2 DEF ItemRow
  <1>4. next \in ItemRow
    <2>1. Append(seen.versions, row) \in Seq(Version)
      BY <1>2 DEF ItemRow
    <2> QED
      BY <1>2, <2>1 DEF ItemRow
  <1>5. Save(q, next, NothingElse)
    BY DEF DeriveDraft, AddVersion, Derived, row
  <1> HIDE DEF next
  <1>6. ASSUME item.published # 0, Accepts([next EXCEPT !.saves = @ + 1])
        PROVE  next.versions = item.versions
    <2>1. item.state = seen.state
      BY <1>1, <1>3, <1>4, <1>6, AcceptedIsCurrent DEF ItemRow
    <2> QED
      BY <1>1, <1>6, <2>1 DEF IInv, PublishedIsNamed, InPublication, IsEditable
  <1>7. CASE item' = item /\ decisions' = decisions
    BY <1>7 DEF Keeps, IInv, Rows
  <1>8. CASE /\ NothingElse
             /\ item.saves > 0 /\ read[q].state = item.state
             /\ read[q].versions = item.versions /\ read[q].published = item.published
             /\ item'.saves = item.saves + 1
             /\ item'.state = next.state /\ item'.versions = next.versions
             /\ item'.published = next.published
             /\ item' \in ItemRow
    BY <1>1, <1>3, <1>8 DEF Derives, SavedOnce, Latest, NothingElse, row
  <1> QED
    BY <1>1, <1>3, <1>4, <1>5, <1>6, <1>7, <1>8, SaveEffect

LEMMA CreateDraftEffect ==
    ASSUME IInv, NEW a \in Authors, CreateDraft(a)
    PROVE  Creates /\ item' \in ItemRow
  <1> DEFINE row == [body |-> 0, author |-> a, editor |-> Nobody]
  <1>1. item \in ItemRow /\ row \in Version
    BY ReviewAssumption DEF IInv, Rows, Version
  <1>2. /\ item.saves = 0 /\ decisions' = decisions
        /\ item' = [item EXCEPT !.saves = 1, !.versions = <<row>>]
    BY DEF CreateDraft
  <1> HIDE DEF row
  <1>3. <<row>> \in Seq(Version)
    BY <1>1
  <1>4. /\ item'.saves = 1 /\ item'.versions = <<row>> /\ item'.state = item.state
        /\ item'.published = item.published /\ item' \in ItemRow
    BY <1>1, <1>2, <1>3 DEF ItemRow
  <1> QED
    BY <1>2, <1>4 DEF Creates, row

LEMMA DeleteDraftEffect ==
    ASSUME IInv, NEW q \in ReviewRequests, NEW who \in Authors, DeleteDraft(q, who)
    PROVE  Keeps /\ item' \in ItemRow
  <1>1. item \in ItemRow
    BY DEF IInv, Rows
  <1>2. decisions' = decisions /\ item' \in {item, [item EXCEPT !.deleted = TRUE]}
    BY DEF DeleteDraft
  <1> QED
    BY <1>1, <1>2 DEF Keeps, ItemRow

\* The four transitions a request makes that writes no decision.
LEMMA MoveEffect ==
    ASSUME IInv, NEW q \in ReviewRequests, read[q].saves > 0,
           NEW t \in {"submit_for_review", "withdraw", "suspend", "retire"},
           Permitted(read[q].state, t),
           Save(q, [read[q] EXCEPT !.state = Transitioned(@, t)], NothingElse)
    PROVE  (Keeps \/ Moves) /\ item' \in ItemRow
  <1> DEFINE seen == read[q]
             next == [seen EXCEPT !.state = Transitioned(@, t)]
  <1>1. seen \in ItemRow
    BY ReadRow
  <1>2. <<seen.state, t, Transitioned(seen.state, t)>> \in LifecycleTable
        /\ Transitioned(seen.state, t) \in LifecycleState
    BY TransitionIsInTable
  <1>3. /\ next.versions = seen.versions /\ next.state = Transitioned(seen.state, t)
        /\ next.published = seen.published /\ next.saves = seen.saves
        /\ next \in ItemRow
    BY <1>1, <1>2 DEF ItemRow
  <1>4. Save(q, next, NothingElse)
    OBVIOUS
  <1> HIDE DEF next
  <1>5. Accepts([next EXCEPT !.saves = @ + 1]) => next.versions = item.versions
    BY <1>3, AcceptedIsCurrent DEF ItemRow
  <1>6. CASE item' = item /\ decisions' = decisions
    BY <1>6 DEF Keeps, IInv, Rows
  <1>7. CASE /\ NothingElse
             /\ item.saves > 0 /\ read[q].state = item.state
             /\ read[q].versions = item.versions /\ read[q].published = item.published
             /\ item'.saves = item.saves + 1
             /\ item'.state = next.state /\ item'.versions = next.versions
             /\ item'.published = next.published
             /\ item' \in ItemRow
    BY <1>2, <1>3, <1>7 DEF Moves, SavedOnce, NothingElse
  <1> QED
    BY <1>3, <1>4, <1>5, <1>6, <1>7, SaveEffect

LEMMA RecordDecisionEffect ==
    ASSUME IInv, NEW q \in ReviewRequests, NEW r \in Reviewers, NEW v \in Nat,
           NEW o \in ReviewOutcome, NEW k \in Nat,
           RecordDecision(q, r, v, o, k)
    PROVE  (Keeps \/ Decides) /\ item' \in ItemRow
  <1> DEFINE seen == read[q]
             next == [seen EXCEPT !.state = Transitioned(@, TransitionFor(o))]
             told == Records(v, r, o, seen.versions[v].body, k)
  <1>1. seen \in ItemRow /\ read[q].saves > 0 /\ v \in DOMAIN seen.versions
    BY ReadRow DEF RecordDecision, Read
  <1>3. LET t == TransitionFor(o) IN
           /\ <<seen.state, t, Transitioned(seen.state, t)>> \in LifecycleTable
           /\ Transitioned(seen.state, t) \in LifecycleState
    BY TransitionIsInTable DEF RecordDecision
  <1>4. /\ next.versions = seen.versions
        /\ next.state = Transitioned(seen.state, TransitionFor(o))
        /\ next.published = seen.published /\ next.saves = seen.saves
        /\ next \in ItemRow
    BY <1>1, <1>3 DEF ItemRow
  <1>5. Save(q, next, told)
    BY DEF RecordDecision
  <1>6. told => decisions' = Append(decisions, [version |-> v, by |-> r, outcome |-> o,
                                                body |-> seen.versions[v].body])
    BY DEF Records
  <1> HIDE DEF next, told
  <1>7. Accepts([next EXCEPT !.saves = @ + 1]) => next.versions = item.versions
    BY <1>1, <1>4, AcceptedIsCurrent DEF ItemRow
  <1>8. CASE item' = item /\ decisions' = decisions
    BY <1>8 DEF Keeps, IInv, Rows
  <1>9. CASE /\ told
             /\ item.saves > 0 /\ read[q].state = item.state
             /\ read[q].versions = item.versions /\ read[q].published = item.published
             /\ item'.saves = item.saves + 1
             /\ item'.state = next.state /\ item'.versions = next.versions
             /\ item'.published = next.published
             /\ item' \in ItemRow
    BY <1>1, <1>3, <1>4, <1>6, <1>9 DEF Decides, SavedOnce
  <1> QED
    BY <1>1, <1>4, <1>5, <1>7, <1>8, <1>9, SaveEffect

LEMMA ApproveWithEditsEffect ==
    ASSUME IInv, NEW q \in ReviewRequests, NEW r \in Reviewers, NEW k \in Nat,
           ApproveWithEdits(q, r, k)
    PROVE  (Keeps \/ ApprovesEdited) /\ item' \in ItemRow
  <1> DEFINE seen == read[q]
             from == seen.versions[Latest(seen)]
  <1>1. read[q].saves > 0 /\ seen.state = "in_review"
    BY DEF ApproveWithEdits, Read
  <1>2. PICK b \in NewBody(seen) :
          Save(q, [seen EXCEPT !.versions =
                      Append(@, [body |-> b, author |-> from.author, editor |-> r])],
               Records(Latest(seen) + 1, r, "approve_with_edits", b, k))
    BY DEF ApproveWithEdits, AddVersion, ReviewerEdited
  <1> DEFINE row == [body |-> b, author |-> from.author, editor |-> r]
             next == [seen EXCEPT !.versions = Append(@, row)]
             told == Records(Latest(seen) + 1, r, "approve_with_edits", b, k)
  <1>3. b \in 0..MaxEdits
    BY ReviewAssumption DEF NewBody
  <1>4. seen \in ItemRow /\ row \in Version
    BY <1>1, <1>3, ReadRow DEF Version
  <1>5. Save(q, next, told)
    BY <1>2
  <1>6. told => decisions' = Append(decisions,
                   [version |-> Latest(seen) + 1, by |-> r,
                    outcome |-> "approve_with_edits", body |-> b])
    BY DEF Records
  <1> HIDE DEF row, told
  <1>7. /\ next.versions = Append(seen.versions, row)
        /\ next.state = seen.state /\ next.published = seen.published
        /\ next.saves = seen.saves
    BY <1>4 DEF ItemRow
  <1>8. next \in ItemRow
    <2>1. Append(seen.versions, row) \in Seq(Version)
      BY <1>4 DEF ItemRow
    <2> QED
      BY <1>4, <2>1 DEF ItemRow
  <1> HIDE DEF next
  <1>9. ASSUME item.published # 0, Accepts([next EXCEPT !.saves = @ + 1])
        PROVE  next.versions = item.versions
    <2>1. item.state = seen.state
      BY <1>1, <1>7, <1>8, <1>9, AcceptedIsCurrent DEF ItemRow
    <2> QED
      BY <1>1, <1>9, <2>1 DEF IInv, PublishedIsNamed, InPublication
  <1>10. CASE item' = item /\ decisions' = decisions
    BY <1>10 DEF Keeps, IInv, Rows
  <1>11. CASE /\ told
              /\ item.saves > 0 /\ read[q].state = item.state
              /\ read[q].versions = item.versions /\ read[q].published = item.published
              /\ item'.saves = item.saves + 1
              /\ item'.state = next.state /\ item'.versions = next.versions
              /\ item'.published = next.published
              /\ item' \in ItemRow
    BY <1>1, <1>3, <1>6, <1>7, <1>11 DEF ApprovesEdited, SavedOnce, Latest, row
  <1> QED
    BY <1>1, <1>7, <1>8, <1>5, <1>9, <1>10, <1>11, SaveEffect

LEMMA PublishVersionEffect ==
    ASSUME IInv, NEW q \in ReviewRequests, NEW v \in Nat, PublishVersion(q, v)
    PROVE  (Keeps \/ Publishes) /\ item' \in ItemRow
  <1> DEFINE seen == read[q]
             next == [seen EXCEPT !.state = Transitioned(@, "publish"), !.published = v]
  <1>1. seen \in ItemRow /\ read[q].saves > 0 /\ v \in DOMAIN seen.versions
    BY ReadRow DEF PublishVersion, Read
  <1>2. <<seen.state, "publish", Transitioned(seen.state, "publish")>> \in LifecycleTable
    BY TransitionIsInTable DEF PublishVersion
  <1>3. seen.state = "approved" /\ Transitioned(seen.state, "publish") = "published"
    BY <1>2 DEF LifecycleTable
  <1>4. /\ next.versions = seen.versions /\ next.state = "published"
        /\ next.published = v /\ next.saves = seen.saves
        /\ next \in ItemRow
    BY <1>1, <1>3 DEF ItemRow, LifecycleState
  <1>5. Save(q, next, NothingElse)
    BY DEF PublishVersion
  <1>6. PICK k \in DOMAIN decisions :
          IsApprovalFor(k, v) /\ ~IsSelfReview(seen.versions[v], decisions[k].by)
    BY DEF PublishVersion, Publishable
  <1> HIDE DEF next
  <1>7. Accepts([next EXCEPT !.saves = @ + 1]) => next.versions = item.versions
    BY <1>1, <1>4, AcceptedIsCurrent DEF ItemRow
  <1>8. CASE item' = item /\ decisions' = decisions
    BY <1>8 DEF Keeps, IInv, Rows
  <1>9. CASE /\ NothingElse
             /\ item.saves > 0 /\ read[q].state = item.state
             /\ read[q].versions = item.versions /\ read[q].published = item.published
             /\ item'.saves = item.saves + 1
             /\ item'.state = next.state /\ item'.versions = next.versions
             /\ item'.published = next.published
             /\ item' \in ItemRow
    BY <1>1, <1>3, <1>4, <1>6, <1>9 DEF Publishes, SavedOnce, NothingElse, IsApprovalFor
  <1> QED
    BY <1>1, <1>4, <1>5, <1>7, <1>8, <1>9, SaveEffect

\* Every step is one of the effects; a request's read stays, ends, or is of the
\* item as it is.
LEMMA StepEffect ==
    ASSUME IInv, [ReviewNext]_reviewVars
    PROVE  /\ Effects /\ item' \in ItemRow
           /\ read' \in [ReviewRequests -> ItemRow]
           /\ \A q \in ReviewRequests : read'[q] \in {read[q], NoItem, item}
  <1> DEFINE Reading == /\ read' \in [ReviewRequests -> ItemRow]
                        /\ \A q \in ReviewRequests : read'[q] \in {read[q], NoItem, item}
             Goal == Effects /\ item' \in ItemRow /\ Reading
  <1>1. item \in ItemRow /\ read \in [ReviewRequests -> ItemRow] /\ NoItem \in ItemRow
    BY DEF IInv, Rows, NoItem, ItemRow, LifecycleState
  <1>2. ASSUME item' = item, decisions' = decisions, Reading PROVE Goal
    BY <1>1, <1>2 DEF Effects, Keeps
  <1>3. ASSUME NEW q \in ReviewRequests, Done(q) PROVE Reading
    BY <1>1, <1>3 DEF Done
  <1>4. ASSUME UNCHANGED reviewVars PROVE Goal
    BY <1>1, <1>2, <1>4 DEF reviewVars
  <1>5. ASSUME \E a \in Authors : CreateDraft(a) PROVE Goal
    BY <1>1, <1>5, CreateDraftEffect DEF Effects, CreateDraft
  <1>6. ASSUME NEW q \in ReviewRequests, AuthorActs(q) PROVE Goal
    <2>1. CASE Reads(q)
      BY <1>1, <1>2, <2>1 DEF Reads
    <2>2. CASE Refused(q)
      BY <1>2, <1>3, <2>2 DEF Refused
    <2>3. CASE Withdraw(q)
      BY <1>3, <2>3, MoveEffect DEF Withdraw, Read, Effects, Save
    <2>4. CASE Suspend(q)
      BY <1>3, <2>4, MoveEffect DEF Suspend, Read, Effects, Save
    <2>5. CASE Retire(q)
      BY <1>3, <2>5, MoveEffect DEF Retire, Read, Effects, Save
    <2>6. ASSUME NEW a \in Authors, UpdateDraft(q, a) PROVE Goal
      BY <1>3, <2>6, UpdateDraftEffect DEF UpdateDraft, Effects, Save
    <2>7. ASSUME NEW a \in Authors, DeriveDraft(q, a) PROVE Goal
      BY <1>3, <2>7, DeriveDraftEffect DEF DeriveDraft, Effects, Save
    <2>8. ASSUME NEW a \in Authors, DeleteDraft(q, a) PROVE Goal
      BY <1>3, <2>8, DeleteDraftEffect DEF DeleteDraft, Effects
    <2>9. ASSUME NEW a \in Authors, SubmitForReview(q, a) PROVE Goal
      BY <1>3, <2>9, MoveEffect DEF SubmitForReview, Read, Effects, Save
    <2> QED
      BY <1>6, <2>1, <2>2, <2>3, <2>4, <2>5, <2>6, <2>7, <2>8, <2>9 DEF AuthorActs
  <1>7. ASSUME NEW q \in ReviewRequests, ReviewerActs(q) PROVE Goal
    <2>1. 1..MaxVersions \subseteq Nat /\ 0..MaxClaims \subseteq Nat
      BY ReviewAssumption
    <2>2. ASSUME NEW v \in 1..MaxVersions, PublishVersion(q, v) PROVE Goal
      BY <1>3, <2>1, <2>2, PublishVersionEffect DEF PublishVersion, Effects, Save
    <2>3. ASSUME NEW r \in Reviewers, NEW k \in 0..MaxClaims, ApproveWithEdits(q, r, k) PROVE Goal
      BY <1>3, <2>1, <2>3, ApproveWithEditsEffect DEF ApproveWithEdits, Effects, Save
    <2>4. ASSUME NEW r \in Reviewers, NEW k \in 0..MaxClaims, NEW v \in 1..MaxVersions,
                 NEW o \in ReviewOutcome,
                 RecordDecision(q, r, v, o, k)
          PROVE  Goal
      BY <1>3, <2>1, <2>4, RecordDecisionEffect DEF RecordDecision, Effects, Save
    <2> QED
      BY <1>7, <2>2, <2>3, <2>4 DEF ReviewerActs
  <1>8. ASSUME \E r \in Reviewers :
                 ClaimNextSees(r) \/ ClaimTakes(r) \/ \E v \in 1..MaxVersions : AssignSees(r, v)
        PROVE  Goal
    BY <1>1, <1>2, <1>8 DEF ClaimNextSees, ClaimTakes, AssignSees
  <1>9. ASSUME \E k \in 1..MaxClaims : ReleaseAssignment(k) \/ ExtendLease(k) PROVE Goal
    BY <1>1, <1>2, <1>9 DEF ReleaseAssignment, ExtendLease
  <1>10. ASSUME TimePasses \/ SweepReleases \/ SweepSees \/ SweepEscalates PROVE Goal
    BY <1>1, <1>2, <1>10 DEF TimePasses, SweepReleases, SweepSees, SweepEscalates
  <1> HIDE DEF Goal
  <1>11. Goal
    BY <1>4, <1>5, <1>6, <1>7, <1>8, <1>9, <1>10 DEF ReviewNext
  <1> QED
    BY <1>11 DEF Goal

-----------------------------------------------------------------------------
(* The invariants, from the effects *)

LEMMA DecisionsRow == ASSUME IInv, Effects PROVE decisions' \in Seq(DecisionRow)
  <1>1. decisions \in Seq(DecisionRow) /\ item.versions \in Seq(Version)
    BY DEF IInv, Rows, ItemRow
  <1>2. CASE decisions' = decisions
    BY <1>1, <1>2
  <1>3. CASE Decides
    <2>1. PICK v \in DOMAIN item.versions, r \in Reviewers,
               o \in ReviewOutcome :
            decisions' = Append(decisions, [version |-> v, by |-> r, outcome |-> o,
                                            body |-> item.versions[v].body])
      BY <1>3 DEF Decides
    <2>2. v \in Nat /\ item.versions[v] \in Version
      BY <1>1
    <2>3. [version |-> v, by |-> r, outcome |-> o, body |-> item.versions[v].body] \in DecisionRow
      BY <2>2 DEF DecisionRow, Version
    <2> QED
      BY <1>1, <2>1, <2>3
  <1>4. CASE ApprovesEdited
    <2>1. PICK b \in 0..MaxEdits, r \in Reviewers :
            decisions' = Append(decisions, [version |-> Latest(item) + 1, by |-> r,
                                            outcome |-> "approve_with_edits", body |-> b])
      BY <1>4 DEF ApprovesEdited
    <2>2. Latest(item) + 1 \in Nat
      BY <1>1 DEF Latest
    <2>3. [version |-> Latest(item) + 1, by |-> r,
           outcome |-> "approve_with_edits", body |-> b] \in DecisionRow
      BY <2>2 DEF DecisionRow, ReviewOutcome
    <2> QED
      BY <1>1, <2>1, <2>3
  <1> QED
    BY <1>2, <1>3, <1>4 DEF Effects, Keeps, Creates, Edits, Derives, Moves, Publishes

LEMMA CurrentStep ==
    ASSUME IInv, Effects, item' \in ItemRow,
           \A q \in ReviewRequests : read'[q] \in {read[q], NoItem, item}
    PROVE  Current'
  <1>1. item \in ItemRow /\ item.versions \in Seq(Version) /\ Begun(item)
        /\ \A q \in ReviewRequests : read[q] \in ItemRow
    BY DEF IInv, Rows, ItemRow, Current
  <1>2. Begun(item)'
    <2>1. CASE Keeps \/ Creates
      BY <1>1, <2>1 DEF Keeps, Creates, Begun
    <2>2. CASE Edits
      BY <1>1, <2>2 DEF Edits, SavedOnce, Begun, ItemRow
    <2>3. CASE Derives \/ ApprovesEdited
      <3>1. PICK row : item'.versions = Append(item.versions, row)
        BY <2>3 DEF Derives, ApprovesEdited
      <3>2. Len(item'.versions) = Len(item.versions) + 1
        BY <1>1, <3>1
      <3> QED
        BY <1>1, <2>3, <3>2 DEF Derives, ApprovesEdited, SavedOnce, Begun, ItemRow
    <2>4. CASE Moves \/ Decides \/ Publishes
      BY <1>1, <2>4 DEF Moves, Decides, Publishes, SavedOnce, Begun, ItemRow
    <2> QED
      BY <2>1, <2>2, <2>3, <2>4 DEF Effects
  <1>3. \/ item'.saves = item.saves /\ Keeps
        \/ item'.saves = item.saves + 1
    BY <1>1 DEF Effects, Keeps, Creates, Edits, Derives, Moves, Decides, ApprovesEdited,
                Publishes, SavedOnce, ItemRow
  <1>4. ASSUME NEW q \in ReviewRequests
        PROVE  /\ Begun(read'[q]) /\ read'[q].saves <= item'.saves
               /\ read'[q].saves > 0 /\ read'[q].saves = item'.saves =>
                    /\ read'[q].state = item'.state /\ read'[q].versions = item'.versions
                    /\ read'[q].published = item'.published
    <2>1. CASE read'[q] = read[q]
      BY <1>1, <1>3, <2>1 DEF IInv, Current, Keeps, ItemRow
    <2>2. CASE read'[q] = NoItem
      BY <1>1, <1>3, <2>2 DEF NoItem, Begun, ItemRow
    <2>3. CASE read'[q] = item
      BY <1>1, <1>3, <2>3 DEF Keeps, ItemRow
    <2> QED
      BY <2>1, <2>2, <2>3
  <1> QED
    BY <1>2, <1>4 DEF Current, Begun

LEMMA PublishedStep ==
    ASSUME IInv, Effects, item' \in ItemRow
    PROVE  PublishedIsNamed'
  <1>1. /\ item \in ItemRow /\ item.versions \in Seq(Version)
        /\ item.published \in 0..Len(item.versions)
        /\ item.state \in InPublication <=> item.published # 0
    BY DEF IInv, Rows, ItemRow, PublishedIsNamed
  <1>2. CASE Keeps
    BY <1>1, <1>2 DEF Keeps, PublishedIsNamed
  <1>3. CASE Creates
    BY <1>1, <1>3 DEF Creates, PublishedIsNamed, IInv, Current, Begun, InPublication
  <1>4. CASE Edits
    BY <1>1, <1>4 DEF Edits, PublishedIsNamed, IsEditable, InPublication
  <1>5. CASE Derives \/ ApprovesEdited
    BY <1>1, <1>5 DEF Derives, ApprovesEdited, PublishedIsNamed, IsEditable, InPublication
  <1>6. CASE Moves \/ Decides
    BY <1>1, <1>6 DEF Moves, Decides, PublishedIsNamed, LifecycleTable, InPublication,
                      ReviewOutcome, TransitionFor
  <1>7. CASE Publishes
    BY <1>1, <1>7 DEF Publishes, PublishedIsNamed, InPublication
  <1> QED
    BY <1>2, <1>3, <1>4, <1>5, <1>6, <1>7 DEF Effects

LEMMA ApprovedStep ==
    ASSUME IInv, Effects
    PROVE  ApprovedAsDecided'
  <1>1. decisions \in Seq(DecisionRow) /\ item.versions \in Seq(Version)
    BY DEF IInv, Rows, ItemRow
  <1>2. CASE Keeps
    BY <1>2 DEF Keeps, IInv, ApprovedAsDecided
  <1>3. CASE Creates
    <2>1. item.state # "approved"
      BY <1>3 DEF Creates, IInv, Current, Begun
    <2> QED
      BY <1>3, <2>1 DEF Creates, ApprovedAsDecided
  <1>4. CASE Edits \/ Derives \/ ApprovesEdited \/ Publishes
    BY <1>4 DEF Edits, Derives, ApprovesEdited, Publishes, IsEditable, ApprovedAsDecided
  <1>5. CASE Moves
    BY <1>5 DEF Moves, LifecycleTable, ApprovedAsDecided
  <1>6. CASE Decides
    <2>1. PICK v \in DOMAIN item.versions, r \in Reviewers,
               o \in ReviewOutcome :
            /\ <<item.state, TransitionFor(o), item'.state>> \in LifecycleTable
            /\ decisions' = Append(decisions, [version |-> v, by |-> r, outcome |-> o,
                                               body |-> item.versions[v].body])
      BY <1>6 DEF Decides
    <2>2. item'.state = "approved" => IsApproving(o)
      BY <2>1 DEF LifecycleTable, TransitionFor, IsApproving
    <2>3. /\ Len(decisions') = Len(decisions) + 1 /\ decisions' # <<>>
          /\ decisions'[Len(decisions')] = [version |-> v, by |-> r, outcome |-> o,
                                             body |-> item.versions[v].body]
      BY <1>1, <2>1
    <2> QED
      BY <1>6, <2>2, <2>3 DEF Decides, ApprovedAsDecided
  <1> QED
    BY <1>2, <1>3, <1>4, <1>5, <1>6 DEF Effects

\* The published version stays the one it is, and so do its author and editor.
LEMMA PublishedVersionStays ==
    ASSUME IInv, Effects, item.published # 0
    PROVE  /\ item'.published = item.published
           /\ item'.versions[item.published] = item.versions[item.published]
           /\ item.state = "retired" => item'.state = "retired"
  <1>1. item.state \in InPublication /\ item.saves # 0
    BY DEF IInv, PublishedIsNamed, Current, Begun
  <1> QED
    BY <1>1 DEF Effects, Keeps, Creates, Edits, Derives, Moves, Decides, ApprovesEdited,
                Publishes, IsEditable, InPublication, LifecycleTable

LEMMA SignedStep ==
    ASSUME IInv, Effects
    PROVE  SignedIndependently'
  <1>1. decisions \in Seq(DecisionRow)
    BY DEF IInv, Rows
  <1> SUFFICES ASSUME item'.published # 0
               PROVE  \E k \in DOMAIN decisions' :
                        /\ decisions'[k].version = item'.published
                        /\ IsApproving(decisions'[k].outcome)
                        /\ decisions'[k].by \notin {item'.versions[item'.published].author,
                                                    item'.versions[item'.published].editor}
    BY DEF SignedIndependently
  <1>2. CASE item.published # 0
    <2>1. PICK k \in DOMAIN decisions :
            /\ decisions[k].version = item.published /\ IsApproving(decisions[k].outcome)
            /\ decisions[k].by \notin {item.versions[item.published].author,
                                       item.versions[item.published].editor}
      BY <1>2 DEF IInv, SignedIndependently
    <2>2. k \in DOMAIN decisions' /\ decisions'[k] = decisions[k]
      <3>1. decisions' = decisions \/ \E row : decisions' = Append(decisions, row)
        BY DEF Effects, Keeps, Creates, Edits, Derives, Moves, Decides, ApprovesEdited, Publishes
      <3> QED
        BY <1>1, <2>1, <3>1
    <2> QED
      BY <1>2, <2>1, <2>2, PublishedVersionStays
  <1>3. CASE item.published = 0
    <2>1. Publishes
      BY <1>3 DEF Effects, Keeps, Creates, Edits, Derives, Moves, Decides, ApprovesEdited
    <2>2. PICK k \in Approving(item'.published) :
            ~IsSelfReview(item.versions[item'.published], decisions[k].by)
      BY <2>1 DEF Publishes
    <2> QED
      BY <2>1, <2>2 DEF Publishes, Approving, IsSelfReview
  <1> QED
    BY <1>2, <1>3

LEMMA InvStep == IInv /\ [ReviewNext]_reviewVars => IInv'
  <1> SUFFICES ASSUME IInv, [ReviewNext]_reviewVars PROVE IInv'
    OBVIOUS
  <1>1. /\ Effects /\ item' \in ItemRow
        /\ read' \in [ReviewRequests -> ItemRow]
        /\ \A q \in ReviewRequests : read'[q] \in {read[q], NoItem, item}
    BY StepEffect
  <1>2. Rows'
    BY <1>1, DecisionsRow DEF Rows
  <1> QED
    BY <1>1, <1>2, CurrentStep, PublishedStep, ApprovedStep, SignedStep DEF IInv

\* The invariant from which the theorems below follow: a request whose read is
\* as new as the item has read what the item is.
THEOREM Invariant == ReviewSpec => []IInv
  BY InitInv, InvStep, PTL DEF ReviewSpec

\* An approved item was approved by the last decision, on what the version that
\* decision names still holds: for any people, requests and bounds.
THEOREM ApprovedAsDecidedAlways == ReviewSpec => []ApprovedAsDecided
  <1>1. IInv => ApprovedAsDecided
    BY DEF IInv
  <1> QED
    BY <1>1, Invariant, PTL

\* A published version was approved by somebody who is neither its author nor
\* its editor.
THEOREM SignedIndependentlyAlways == ReviewSpec => []SignedIndependently
  <1>1. IInv => SignedIndependently
    BY DEF IInv
  <1> QED
    BY <1>1, Invariant, PTL

\* No request, however old what it read, takes an item back from publication,
\* publishes another of its versions, or changes the published one.
THEOREM PublishedIsFrozenAlways == ReviewSpec => PublishedIsFrozen
  <1>1. IInv /\ [ReviewNext]_reviewVars =>
          [item.published # 0 =>
             /\ item'.published = item.published
             /\ item'.versions[item.published] = item.versions[item.published]
             /\ item.state = "retired" => item'.state = "retired"]_reviewVars
    BY StepEffect, PublishedVersionStays
  <1> QED
    BY <1>1, Invariant, PTL DEF ReviewSpec, PublishedIsFrozen

-----------------------------------------------------------------------------
(* What students see of it: the effects of a step are steps of Edition *)

LEMMA ShownInit == ReviewInit => Shown!Init
  BY DEF ReviewInit, NoItem, Shown!Init, Standing, PublishedVersions

\* On a published item nothing is left to a step but to suspend and to retire.
LEMMA InPublicationStep ==
    ASSUME IInv, Effects, item.published # 0
    PROVE  /\ decisions' = decisions
           /\ \/ item'.state = item.state
              \/ item.state = "published" /\ item'.state = "suspended"
              \/ item.state \in {"published", "suspended"} /\ item'.state = "retired"
  <1>1. item.state \in InPublication /\ item.saves # 0
    BY DEF IInv, PublishedIsNamed, Current, Begun
  <1> QED
    BY <1>1 DEF Effects, Keeps, Creates, Edits, Derives, Moves, Decides, ApprovesEdited,
                Publishes, IsEditable, InPublication, LifecycleTable, ReviewOutcome,
                TransitionFor

\* The latest approving decision is one decision.
LEMMA OneSignatory ==
    ASSUME IInv, NEW v, NEW k, IsApprovalFor(k, v)
    PROVE  Signatories(v) = {decisions[k].by} /\ decisions[k].by \in Reviewers
  <1>1. decisions \in Seq(DecisionRow) /\ k \in DOMAIN decisions
    BY DEF IInv, Rows, IsApprovalFor, Approving
  <1>2. ASSUME NEW j \in DOMAIN decisions, IsApprovalFor(j, v) PROVE j = k
    <2>1. j <= k /\ k <= j
      BY <1>2 DEF IsApprovalFor
    <2> QED
      BY <1>1, <1>2, <2>1
  <1>3. decisions[k] \in DecisionRow
    BY <1>1
  <1> QED
    BY <1>1, <1>2, <1>3 DEF Signatories, DecisionRow

LEMMA PublishIsShown ==
    ASSUME IInv, Publishes, item.published = 0
    PROVE  \E e \in Shown!Editions, p \in Authors \cup Reviewers : Shown!Publish(e, p)
  <1>1. /\ decisions \in Seq(DecisionRow) /\ item.versions \in Seq(Version)
        /\ item.published = 0
    BY DEF IInv, Rows, ItemRow
  <1>2. PICK v \in DOMAIN item.versions : v = item'.published
    BY DEF Publishes
  <1>3. PICK k \in Approving(v) :
          IsApprovalFor(k, v) /\ ~IsSelfReview(item.versions[v], decisions[k].by)
    BY <1>2 DEF Publishes
  <1>4. v # 0 /\ item.versions[v] \in Shown!Editions
    <2>1. v # 0 /\ item.versions[v] \in Version
      BY <1>1
    <2>2. Version \subseteq Shown!Editions
      BY DEF Version, Shown!Editions
    <2> QED
      BY <2>1, <2>2
  <1>5. Signatories(v) = {decisions[k].by} /\ decisions[k].by \in Reviewers
    BY <1>3, OneSignatory
  <1>6. Signatories(v)' = Signatories(v)
    <2>1. decisions' = decisions
      BY DEF Publishes
    <2> QED
      BY <2>1 DEF Signatories, IsApprovalFor, Approving
  <1>7. PublishedVersions = {} /\ PublishedVersions' = {v}
    BY <1>2, <1>4 DEF PublishedVersions
  <1>8. /\ {item.versions[w] : w \in PublishedVersions}' = {item.versions[v]}
        /\ (UNION {Signatories(w) : w \in PublishedVersions})' = {decisions[k].by}
    <2>1. item'.versions = item.versions
      BY DEF Publishes
    <2> QED
      BY <1>5, <1>6, <1>7, <2>1
  <1>9. Standing = "withheld" /\ Standing' = "public"
    BY DEF Publishes, Standing
  <1>10. PICK e \in Shown!Editions : e = item.versions[v]
    BY <1>4
  <1>11. PICK p \in Authors \cup Reviewers : p = decisions[k].by
    BY <1>5
  <1>12. Shown!Publish(e, p)
    BY <1>3, <1>8, <1>9, <1>10, <1>11 DEF Shown!Publish, IsSelfReview
  <1> QED
    BY <1>12

LEMMA ShownStep ==
    ASSUME IInv, [ReviewNext]_reviewVars
    PROVE  [Shown!Next]_(Shown!vars)
  <1>1. Effects /\ PublishedIsNamed /\ PublishedIsNamed'
    BY StepEffect, PublishedStep DEF IInv
  <1>2. CASE item.published # 0
    <2>1. /\ decisions' = decisions
          /\ item'.published = item.published
          /\ item'.versions[item.published] = item.versions[item.published]
      BY <1>1, <1>2, InPublicationStep, PublishedVersionStays
    <2>2. PublishedVersions' = PublishedVersions /\ PublishedVersions = {item.published}
      BY <1>2, <2>1 DEF PublishedVersions
    <2>3. {item.versions[v] : v \in PublishedVersions}'
            = {item.versions[v] : v \in PublishedVersions}
      BY <2>1, <2>2
    <2>4. (UNION {Signatories(v) : v \in PublishedVersions})'
            = UNION {Signatories(v) : v \in PublishedVersions}
      BY <2>1, <2>2 DEF Signatories, IsApprovalFor, Approving
    <2>5. \/ Standing' = Standing
          \/ Standing = "public" /\ Standing' = "suspended"
          \/ Standing \in {"public", "suspended"} /\ Standing' = "retired"
      BY <1>1, <1>2, InPublicationStep DEF Standing
    <2> QED
      BY <2>3, <2>4, <2>5 DEF Shown!Next, Shown!Suspend, Shown!Retire, Shown!vars
  <1>3. CASE item.published = 0 /\ Publishes
    BY <1>3, PublishIsShown DEF Shown!Next
  <1>4. CASE item.published = 0 /\ ~Publishes
    <2>1. item'.published = 0
      BY <1>1, <1>4 DEF Effects, Keeps, Creates, Edits, Derives, Moves, Decides, ApprovesEdited
    <2>2. PublishedVersions = {} /\ PublishedVersions' = {}
      BY <1>4, <2>1 DEF PublishedVersions
    <2>3. Standing = "withheld" /\ Standing' = "withheld"
      BY <1>1, <1>4, <2>1 DEF PublishedIsNamed, InPublication, Standing
    <2> QED
      BY <2>2, <2>3 DEF Shown!vars
  <1> QED
    BY <1>2, <1>3, <1>4

\* Whatever requests race for an item, students see it make the steps of
\* Edition: shown once, signed for by somebody else, and fixed from then on.
THEOREM ImplementsEditionAlways == ReviewSpec => ImplementsEdition
  <1>1. IInv /\ [ReviewNext]_reviewVars => [Shown!Next]_(Shown!vars)
    BY ShownStep
  <1> QED
    BY <1>1, ShownInit, Invariant, PTL DEF ReviewSpec, ImplementsEdition, Shown!Spec
-----------------------------------------------------------------------------
(* What is published is what was reviewed, if decisions and publications are *)
(* of the latest version                                                     *)

ReviewedInv ==
    /\ item.state = "approved" => decisions[Len(decisions)].version = Latest(item)
    /\ PublishedAsReviewed

LEMMA ReviewedStep ==
    ASSUME IInv, ReviewedInv, Effects, UNCHANGED reviewVars \/ AboutTheLatest
    PROVE  ReviewedInv'
  <1>1. decisions \in Seq(DecisionRow) /\ item.versions \in Seq(Version)
    BY DEF IInv, Rows, ItemRow
  <1>2. item'.state = "approved" => (decisions[Len(decisions)].version = Latest(item))'
    <2>1. CASE Decides
      <3>1. decisions' # decisions
        BY <1>1, <2>1 DEF Decides
      <3> QED
        BY <3>1 DEF AboutTheLatest, reviewVars
    <2>2. CASE Keeps
      BY <2>2 DEF Keeps, ReviewedInv, Latest
    <2>3. CASE Creates
      BY <2>3 DEF Creates, IInv, Current, Begun
    <2>4. CASE Edits \/ Derives \/ Moves \/ ApprovesEdited \/ Publishes
      BY <2>4 DEF Edits, Derives, Moves, ApprovesEdited, Publishes, IsEditable, LifecycleTable
    <2> QED
      BY <2>1, <2>2, <2>3, <2>4 DEF Effects
  <1>3. PublishedAsReviewed'
    <2>1. CASE item.published # 0
      <3>1. PICK k \in DOMAIN decisions :
              /\ decisions[k].version = item.published /\ IsApproving(decisions[k].outcome)
              /\ decisions[k].body = item.versions[item.published].body
        BY <2>1 DEF ReviewedInv, PublishedAsReviewed
      <3>2. /\ decisions' = decisions /\ item'.published = item.published
            /\ item'.versions[item.published] = item.versions[item.published]
        BY <2>1, InPublicationStep, PublishedVersionStays
      <3> QED
        BY <3>1, <3>2 DEF PublishedAsReviewed
    <2>2. CASE item.published = 0 /\ Publishes
      <3>1. /\ item.state = "approved" /\ item'.versions = item.versions /\ decisions' = decisions
            /\ item'.published # item.published
        BY <1>1, <2>2 DEF Publishes
      <3>2. item'.published = Latest(item)
        BY <3>1 DEF AboutTheLatest, reviewVars, Latest
      <3>3. /\ Len(decisions) \in DOMAIN decisions
            /\ IsApproving(decisions[Len(decisions)].outcome)
            /\ decisions[Len(decisions)].version = Latest(item)
            /\ decisions[Len(decisions)].body = item.versions[Latest(item)].body
        BY <1>1, <3>1 DEF IInv, ApprovedAsDecided, ReviewedInv
      <3> QED
        BY <3>1, <3>2, <3>3 DEF PublishedAsReviewed, IsApproving
    <2>3. CASE item.published = 0 /\ ~Publishes
      BY <2>3 DEF Effects, Keeps, Creates, Edits, Derives, Moves, Decides, ApprovesEdited,
                  PublishedAsReviewed
    <2> QED
      BY <2>1, <2>2, <2>3
  <1> QED
    BY <1>2, <1>3 DEF ReviewedInv

\* The version published holds what was approved of it, as long as reviewers
\* decide on the latest version and publishers publish it: that either may name
\* another version (lifecycle-handlers.ts) is all that stands in the way.
THEOREM PublishedAsReviewedOfTheLatest ==
    ReviewSpec /\ [][AboutTheLatest]_reviewVars => []PublishedAsReviewed
  <1>1. ReviewInit => ReviewedInv
    BY DEF ReviewInit, NoItem, ReviewedInv, PublishedAsReviewed
  <1>2. IInv /\ ReviewedInv /\ [ReviewNext]_reviewVars /\ [AboutTheLatest]_reviewVars => ReviewedInv'
    BY StepEffect, ReviewedStep
  <1>3. ReviewedInv => PublishedAsReviewed
    BY DEF ReviewedInv
  <1> QED
    BY <1>1, <1>2, <1>3, Invariant, PTL DEF ReviewSpec
=============================================================================
