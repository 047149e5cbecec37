----------------------- MODULE ContentPublicationProofs -----------------------
(* Proofs about ContentPublication.                                          *)
(*                                                                           *)
(* A request that is about to save knows something of the aggregate it read, *)
(* and it is still so if nothing has saved the aggregate since: that is the  *)
(* strengthening, once for the item, once for the solutions and once for the *)
(* stimulus.  A published solution does not change at all, so what a request *)
(* knows of a solution beside the item stays true without being compared.    *)
EXTENDS ContentPublication, TLAPS

ItemRow == [state : LifecycleState, key : Keys, pins : BOOLEAN, saves : Nat]
SolutionRow == [state : LifecycleState, answer : Keys \cup {NoAnswer}, saves : Nat]
StimulusRow == [state : LifecycleState, saves : Nat]
Owners == Solutions \cup {"stimulus"}
Request == [op : {"idle", "attach", "publish", "decide", "retire"},
            on : Owners \cup {NoAnswer}, saves : Nat, state : LifecycleState]

Rows ==
    /\ pubItem \in ItemRow /\ solution \in [Solutions -> SolutionRow]
    /\ stimulus \in StimulusRow
    /\ signed \in [Owners -> {"never", "before an edit", "as it stands"}]
    /\ held \in [PubRequests -> Request]

Explained(key) == \E s \in Solutions : solution[s].state = "published" /\ solution[s].answer = key

PublishingItem(q) == held[q].op = "publish" /\ held[q].on = NoAnswer

ItemIsKnown ==
    \A q \in PubRequests : PublishingItem(q) =>
        /\ held[q].saves <= pubItem.saves
        /\ held[q].saves = pubItem.saves => Explained(pubItem.key) /\ pubItem.state = "approved"

\* What a request that holds an aggregate of `saves` saves knows of it.
Knows(q, owner, aggregate) ==
    held[q].op \in {"decide", "publish", "retire"} /\ held[q].on = owner =>
        /\ held[q].saves <= aggregate.saves
        /\ held[q].saves = aggregate.saves =>
              /\ held[q].op = "decide" => held[q].state = aggregate.state
              /\ held[q].op = "decide" => signed[owner] = "as it stands"
              /\ held[q].op = "publish" => aggregate.state = "approved"
              /\ held[q].op = "retire" => Permitted(aggregate.state, "retire")

CompanionsAreKnown ==
    \A q \in PubRequests :
        /\ \A s \in Solutions : Knows(q, s, solution[s])
        /\ Knows(q, "stimulus", stimulus)

SignedAsApproved ==
    /\ \A s \in Solutions :
          solution[s].state \in {"approved", "published"} => signed[s] = "as it stands"
    /\ stimulus.state \in {"approved", "published"} => signed["stimulus"] = "as it stands"

IInv == Rows /\ ItemIsKnown /\ CompanionsAreKnown /\ SignedAsApproved /\ PublishedItemIsExplained

-----------------------------------------------------------------------------
LEMMA TransitionIsInTable ==
    ASSUME NEW from, NEW t, Permitted(from, t)
    PROVE  /\ <<from, t, Transitioned(from, t)>> \in LifecycleTable
           /\ Transitioned(from, t) \in LifecycleState
  BY DEF Permitted, Transitioned

LEMMA InitInv == PubInit => IInv
  BY PublicationAssumption
     DEF PubInit, Idle, IInv, Rows, ItemRow, SolutionRow, StimulusRow, Owners, Request,
         LifecycleState, ItemIsKnown, PublishingItem, CompanionsAreKnown, Knows,
         SignedAsApproved, PublishedItemIsExplained, InStudentsHands

\* A transition moves the state as the table says, and counts the save.
LEMMA MovedItem ==
    ASSUME NEW row \in ItemRow, NEW t, Permitted(row.state, t)
    PROVE  /\ Moved(row, t) \in ItemRow /\ Moved(row, t).saves = row.saves + 1 /\ Moved(row, t).key = row.key /\ Moved(row, t).pins = row.pins
           /\ <<row.state, t, Moved(row, t).state>> \in LifecycleTable
  <1> DEFINE to == Transitioned(row.state, t)
             moved == [row EXCEPT !.state = to]
             counted == [moved EXCEPT !.saves = row.saves + 1]
  <1>1. <<row.state, t, to>> \in LifecycleTable /\ to \in LifecycleState
    BY TransitionIsInTable
  <1>2. Moved(row, t) = counted
    BY DEF Moved
  <1> HIDE DEF to
  <1>3. moved \in ItemRow /\ moved.state = to /\ moved.saves = row.saves /\ moved.key = row.key /\ moved.pins = row.pins
    BY <1>1 DEF ItemRow
  <1> HIDE DEF moved
  <1>4. counted \in ItemRow /\ counted.saves = row.saves + 1 /\ counted.state = to /\ counted.key = moved.key /\ counted.pins = moved.pins
    BY <1>3 DEF ItemRow
  <1> QED
    BY <1>1, <1>2, <1>3, <1>4

LEMMA MovedSolution ==
    ASSUME NEW row \in SolutionRow, NEW t, Permitted(row.state, t)
    PROVE  /\ Moved(row, t) \in SolutionRow /\ Moved(row, t).saves = row.saves + 1 /\ Moved(row, t).answer = row.answer
           /\ <<row.state, t, Moved(row, t).state>> \in LifecycleTable
  <1> DEFINE to == Transitioned(row.state, t)
             moved == [row EXCEPT !.state = to]
             counted == [moved EXCEPT !.saves = row.saves + 1]
  <1>1. <<row.state, t, to>> \in LifecycleTable /\ to \in LifecycleState
    BY TransitionIsInTable
  <1>2. Moved(row, t) = counted
    BY DEF Moved
  <1> HIDE DEF to
  <1>3. moved \in SolutionRow /\ moved.state = to /\ moved.saves = row.saves /\ moved.answer = row.answer
    BY <1>1 DEF SolutionRow
  <1> HIDE DEF moved
  <1>4. counted \in SolutionRow /\ counted.saves = row.saves + 1 /\ counted.state = to /\ counted.answer = moved.answer
    BY <1>3 DEF SolutionRow
  <1> QED
    BY <1>1, <1>2, <1>3, <1>4

LEMMA MovedStimulus ==
    ASSUME NEW row \in StimulusRow, NEW t, Permitted(row.state, t)
    PROVE  /\ Moved(row, t) \in StimulusRow /\ Moved(row, t).saves = row.saves + 1
           /\ <<row.state, t, Moved(row, t).state>> \in LifecycleTable
  <1> DEFINE to == Transitioned(row.state, t)
             moved == [row EXCEPT !.state = to]
             counted == [moved EXCEPT !.saves = row.saves + 1]
  <1>1. <<row.state, t, to>> \in LifecycleTable /\ to \in LifecycleState
    BY TransitionIsInTable
  <1>2. Moved(row, t) = counted
    BY DEF Moved
  <1> HIDE DEF to
  <1>3. moved \in StimulusRow /\ moved.state = to /\ moved.saves = row.saves
    BY <1>1 DEF StimulusRow
  <1> HIDE DEF moved
  <1>4. counted \in StimulusRow /\ counted.saves = row.saves + 1 /\ counted.state = to
    BY <1>3 DEF StimulusRow
  <1> QED
    BY <1>1, <1>2, <1>3, <1>4

-----------------------------------------------------------------------------
(* What a step does to each aggregate *)

\* The item keeps its saves and everything else, or counts one more save; it
\* comes into students' hands only by a publication of what was read.
ItemStays == pubItem' = pubItem
ItemSaved ==
    /\ pubItem'.saves = pubItem.saves + 1
    /\ InStudentsHands(pubItem'.state) =>
          \/ InStudentsHands(pubItem.state) /\ pubItem'.key = pubItem.key
          \/ Explained(pubItem.key) /\ pubItem'.key = pubItem.key

SolutionStays(s) == solution'[s] = solution[s]
SolutionSaved(s) ==
    /\ solution'[s].saves = solution[s].saves + 1 /\ solution[s].state # "published"
    /\ solution'[s].state \in {"approved", "published"} => signed'[s] = "as it stands"

StimulusStays == stimulus' = stimulus
StimulusSaved ==
    /\ stimulus'.saves = stimulus.saves + 1
    /\ stimulus'.state \in {"approved", "published"} => signed'["stimulus"] = "as it stands"

\* An owner's signature stands unless it is edited, which is a save.
SignatureStays(o) == signed'[o] = signed[o] \/ signed'[o] = "as it stands"

\* A request goes on holding what it holds, lets go, or takes hold of an
\* aggregate as it is.
Takes(q) ==
    \/ held'[q] = held[q]
    \/ held'[q] = Idle
    \/ /\ held'[q].op = "attach"
    \/ /\ held'[q].op = "publish" /\ held'[q].on = NoAnswer
       /\ held'[q].saves = pubItem.saves
       /\ Explained(pubItem.key) /\ pubItem.state = "approved"
       /\ pubItem' = pubItem /\ solution' = solution
    \/ /\ held'[q].op \in {"decide", "publish"} /\ held'[q].on \in Solutions
       /\ held'[q].saves = solution[held'[q].on].saves
       /\ held'[q].op = "decide" => /\ held'[q].state = solution[held'[q].on].state
                                    /\ signed'[held'[q].on] = "as it stands"
       /\ held'[q].op = "publish" => solution[held'[q].on].state = "approved"
       /\ solution' = solution
    \/ /\ held'[q].op \in {"decide", "retire"} /\ held'[q].on = "stimulus"
       /\ held'[q].saves = stimulus.saves
       /\ held'[q].op = "decide" => /\ held'[q].state = stimulus.state
                                    /\ signed'["stimulus"] = "as it stands"
       /\ held'[q].op = "retire" => Permitted(stimulus.state, "retire")
       /\ stimulus' = stimulus

Effects ==
    /\ ItemStays \/ ItemSaved
    /\ \A s \in Solutions : (SolutionStays(s) /\ SignatureStays(s)) \/ SolutionSaved(s)
    /\ (StimulusStays /\ SignatureStays("stimulus")) \/ StimulusSaved
    /\ \A q \in PubRequests : Takes(q)

-----------------------------------------------------------------------------
LEMMA KnowledgeStep ==
    ASSUME IInv, Rows', Effects
    PROVE  ItemIsKnown' /\ CompanionsAreKnown'
  <1>1. /\ pubItem \in ItemRow /\ pubItem' \in ItemRow
        /\ \A s \in Solutions : solution[s] \in SolutionRow /\ solution'[s] \in SolutionRow
        /\ stimulus \in StimulusRow /\ stimulus' \in StimulusRow
        /\ \A q \in PubRequests : held[q] \in Request /\ held'[q] \in Request
    BY DEF IInv, Rows
  <1>0. /\ pubItem.saves \in Nat /\ stimulus.saves \in Nat
        /\ \A s \in Solutions : solution[s].saves \in Nat
        /\ \A q \in PubRequests : held[q].saves \in Nat
    BY <1>1 DEF ItemRow, SolutionRow, StimulusRow, Request
  <1>t. \A q \in PubRequests : Takes(q)
    BY DEF Effects
  <1>i. Idle.op = "idle"
    BY DEF Idle
  <1>2. \A s \in Solutions : solution[s].state = "published" => solution'[s] = solution[s]
    BY DEF Effects, SolutionStays, SolutionSaved
  <1>3. ASSUME NEW q \in PubRequests, held'[q].op = "publish", held'[q].on = NoAnswer
        PROVE  /\ held'[q].saves <= pubItem'.saves
               /\ held'[q].saves = pubItem'.saves =>
                     Explained(pubItem.key)' /\ pubItem'.state = "approved"
    <2>1. CASE held'[q] = held[q]
      <3>1. /\ held[q].saves <= pubItem.saves
            /\ held[q].saves = pubItem.saves =>
                  Explained(pubItem.key) /\ pubItem.state = "approved"
        BY <1>3, <2>1 DEF IInv, ItemIsKnown, PublishingItem
      <3>2. CASE ItemStays
        BY <1>2, <2>1, <3>1, <3>2 DEF ItemStays, Explained
      <3>3. CASE ItemSaved
        BY <1>0, <2>1, <3>1, <3>3 DEF ItemSaved
      <3> QED
        BY <3>2, <3>3 DEF Effects
    <2>2. CASE held'[q].saves = pubItem.saves
               /\ Explained(pubItem.key) /\ pubItem.state = "approved"
               /\ pubItem' = pubItem /\ solution' = solution
      BY <1>0, <2>2 DEF Explained
    <2> QED
      BY <1>t, <1>i, <1>3, <2>1, <2>2, PublicationAssumption DEF Takes
  <1>4. ASSUME NEW q \in PubRequests, NEW s \in Solutions
        PROVE  Knows(q, s, solution[s])'
    <2> SUFFICES ASSUME held'[q].op \in {"decide", "publish", "retire"}, held'[q].on = s
                 PROVE  /\ held'[q].saves <= solution'[s].saves
                        /\ held'[q].saves = solution'[s].saves =>
                              /\ held'[q].op = "decide" => held'[q].state = solution'[s].state
                              /\ held'[q].op = "decide" => signed'[s] = "as it stands"
                              /\ held'[q].op = "publish" => solution'[s].state = "approved"
                              /\ held'[q].op = "retire" => Permitted(solution'[s].state, "retire")
      BY DEF Knows
    <2>1. CASE held'[q] = held[q]
      <3>1. Knows(q, s, solution[s])
        BY DEF IInv, CompanionsAreKnown
      <3>2. CASE SolutionStays(s) /\ SignatureStays(s)
        BY <2>1, <3>1, <3>2 DEF SolutionStays, SignatureStays, Knows
      <3>3. CASE SolutionSaved(s)
        <4>1. held[q].saves <= solution[s].saves
          BY <2>1, <3>1 DEF Knows
        <4>2. solution'[s].saves = solution[s].saves + 1
          BY <3>3 DEF SolutionSaved
        <4>3. held'[q].saves <= solution'[s].saves /\ held'[q].saves # solution'[s].saves
          BY <1>0, <2>1, <4>1, <4>2
        <4> QED
          BY <4>3
      <3> QED
        BY <3>2, <3>3 DEF Effects
    <2>2. CASE /\ held'[q].saves = solution[s].saves
               /\ held'[q].op = "decide" => /\ held'[q].state = solution[s].state
                                            /\ signed'[s] = "as it stands"
               /\ held'[q].op = "publish" => solution[s].state = "approved"
               /\ held'[q].op # "retire"
               /\ solution' = solution
      <3>1. held'[q].saves <= solution'[s].saves
        <4>1. held'[q].saves = solution[s].saves /\ solution'[s].saves = solution[s].saves
          BY <2>2
        <4>2. \A n \in Nat : n <= n
          OBVIOUS
        <4>3. solution[s].saves <= solution[s].saves
          BY <1>0, <4>2
        <4> QED
          BY <4>1, <4>3
      <3>2. held'[q].op = "decide" => held'[q].state = solution'[s].state
        BY <2>2
      <3>3. held'[q].op = "decide" => signed'[s] = "as it stands"
        BY <2>2
      <3>4. held'[q].op = "publish" => solution'[s].state = "approved"
        BY <2>2
      <3>5. held'[q].op = "retire" => Permitted(solution'[s].state, "retire")
        BY <2>2
      <3> QED
        BY <3>1, <3>2, <3>3, <3>4, <3>5
    <2> QED
      BY <1>t, <1>i, <2>1, <2>2, PublicationAssumption DEF Takes
  <1>5. ASSUME NEW q \in PubRequests
        PROVE  Knows(q, "stimulus", stimulus)'
    <2> SUFFICES ASSUME held'[q].op \in {"decide", "publish", "retire"}, held'[q].on = "stimulus"
                 PROVE  /\ held'[q].saves <= stimulus'.saves
                        /\ held'[q].saves = stimulus'.saves =>
                              /\ held'[q].op = "decide" => held'[q].state = stimulus'.state
                              /\ held'[q].op = "decide" => signed'["stimulus"] = "as it stands"
                              /\ held'[q].op = "publish" => stimulus'.state = "approved"
                              /\ held'[q].op = "retire" => Permitted(stimulus'.state, "retire")
      BY DEF Knows
    <2>1. CASE held'[q] = held[q]
      <3>1. Knows(q, "stimulus", stimulus)
        BY DEF IInv, CompanionsAreKnown
      <3>2. CASE StimulusStays /\ SignatureStays("stimulus")
        BY <2>1, <3>1, <3>2 DEF StimulusStays, SignatureStays, Knows
      <3>3. CASE StimulusSaved
        <4>1. held[q].saves <= stimulus.saves
          BY <2>1, <3>1 DEF Knows
        <4>2. stimulus'.saves = stimulus.saves + 1
          BY <3>3 DEF StimulusSaved
        <4>3. held'[q].saves <= stimulus'.saves /\ held'[q].saves # stimulus'.saves
          BY <1>0, <2>1, <4>1, <4>2
        <4> QED
          BY <4>3
      <3> QED
        BY <3>2, <3>3 DEF Effects
    <2>2. CASE /\ held'[q].saves = stimulus.saves /\ held'[q].op # "publish"
               /\ held'[q].op = "decide" => /\ held'[q].state = stimulus.state
                                            /\ signed'["stimulus"] = "as it stands"
               /\ held'[q].op = "retire" => Permitted(stimulus.state, "retire")
               /\ stimulus' = stimulus
      <3>1. held'[q].saves <= stimulus'.saves
        <4>1. held'[q].saves = stimulus.saves /\ stimulus'.saves = stimulus.saves
          BY <2>2
        <4>2. \A n \in Nat : n <= n
          OBVIOUS
        <4>3. stimulus.saves <= stimulus.saves
          BY <1>0, <4>2
        <4> QED
          BY <4>1, <4>3
      <3>2. held'[q].op = "decide" => held'[q].state = stimulus'.state
        BY <2>2
      <3>3. held'[q].op = "decide" => signed'["stimulus"] = "as it stands"
        BY <2>2
      <3>4. held'[q].op = "publish" => stimulus'.state = "approved"
        BY <2>2
      <3>5. held'[q].op = "retire" => Permitted(stimulus'.state, "retire")
        BY <2>2
      <3> QED
        BY <3>1, <3>2, <3>3, <3>4, <3>5
    <2> QED
      BY <1>t, <1>i, <2>1, <2>2, PublicationAssumption DEF Takes
  <1>6. ItemIsKnown'
    BY <1>3 DEF ItemIsKnown, PublishingItem
  <1>7. CompanionsAreKnown'
    BY <1>4, <1>5 DEF CompanionsAreKnown
  <1> QED
    BY <1>6, <1>7

\* With the effects of a step, the other parts of the invariant are kept.
LEMMA PropertiesStep ==
    ASSUME IInv, Rows', Effects
    PROVE  SignedAsApproved' /\ PublishedItemIsExplained'
  <1>1. \A s \in Solutions : solution[s].state = "published" => solution'[s] = solution[s]
    BY DEF Effects, SolutionStays, SolutionSaved
  <1>2. ASSUME NEW s \in Solutions, solution'[s].state \in {"approved", "published"}
        PROVE  signed'[s] = "as it stands"
    <2>1. CASE SolutionStays(s) /\ SignatureStays(s)
      BY <1>2, <2>1 DEF SolutionStays, SignatureStays, IInv, SignedAsApproved
    <2>2. CASE SolutionSaved(s)
      BY <1>2, <2>2 DEF SolutionSaved
    <2> QED
      BY <2>1, <2>2 DEF Effects
  <1>3. ASSUME stimulus'.state \in {"approved", "published"}
        PROVE  signed'["stimulus"] = "as it stands"
    <2>1. CASE StimulusStays /\ SignatureStays("stimulus")
      BY <1>3, <2>1 DEF StimulusStays, SignatureStays, IInv, SignedAsApproved
    <2>2. CASE StimulusSaved
      BY <1>3, <2>2 DEF StimulusSaved
    <2> QED
      BY <2>1, <2>2 DEF Effects
  <1>4. ASSUME InStudentsHands(pubItem'.state)
        PROVE  \E s \in Solutions :
                  solution'[s].state = "published" /\ solution'[s].answer = pubItem'.key
    <2>1. Explained(pubItem.key) /\ pubItem'.key = pubItem.key
      <3>1. CASE ItemStays
        BY <1>4, <3>1 DEF ItemStays, Explained, IInv, PublishedItemIsExplained
      <3>2. CASE ItemSaved
        BY <1>4, <3>2 DEF ItemSaved, Explained, IInv, PublishedItemIsExplained
      <3> QED
        BY <3>1, <3>2 DEF Effects
    <2> QED
      BY <1>1, <2>1 DEF Explained
  <1>5. SignedAsApproved'
    BY <1>2, <1>3 DEF SignedAsApproved
  <1>6. PublishedItemIsExplained'
    BY <1>4 DEF PublishedItemIsExplained
  <1> QED
    BY <1>5, <1>6

-----------------------------------------------------------------------------
(* Steps of one aggregate *)

Requests == [PubRequests -> Request]
Signatures == [Owners -> {"never", "before an edit", "as it stands"}]

LEMMA RequestsStay ==
    ASSUME Rows, NEW q \in PubRequests, UNCHANGED held \/ Lets(q)
    PROVE  held' \in Requests /\ \A p \in PubRequests : Takes(p)
  <1>1. Idle \in Request
    BY PublicationAssumption DEF Idle, Request, Owners, LifecycleState
  <1>2. held' = held \/ held' = [held EXCEPT ![q] = Idle]
    BY DEF Lets
  <1>3. held \in Requests
    BY DEF Rows, Requests
  <1>4. held' \in Requests
    BY <1>1, <1>2, <1>3 DEF Requests
  <1>5. \A p \in PubRequests : held'[p] = held[p] \/ held'[p] = Idle
    BY <1>2, <1>3 DEF Requests
  <1> QED
    BY <1>4, <1>5 DEF Takes

LEMMA RequestTakesHold ==
    ASSUME Rows, NEW q \in PubRequests,
           NEW op \in {"attach", "publish", "decide", "retire"},
           NEW on \in Owners \cup {NoAnswer}, NEW aggregate,
           aggregate.saves \in Nat, aggregate.state \in LifecycleState,
           Holds(q, op, on, aggregate)
    PROVE  /\ held' \in Requests
           /\ \A p \in PubRequests : p # q => Takes(p)
           /\ held'[q].op = op /\ held'[q].on = on
           /\ held'[q].saves = aggregate.saves /\ held'[q].state = aggregate.state
  <1> DEFINE taken == [op |-> op, on |-> on, saves |-> aggregate.saves, state |-> aggregate.state]
  <1>1. taken \in Request
    BY DEF Request
  <1>2. held' = [held EXCEPT ![q] = taken]
    BY DEF Holds
  <1>3. held \in Requests
    BY DEF Rows, Requests
  <1>4. taken.op = op /\ taken.on = on /\ taken.saves = aggregate.saves
        /\ taken.state = aggregate.state
    OBVIOUS
  <1> HIDE DEF taken
  <1>5. held' \in Requests /\ held'[q] = taken
    BY <1>1, <1>2, <1>3 DEF Requests
  <1>6. \A p \in PubRequests : p # q => held'[p] = held[p]
    BY <1>2, <1>3 DEF Requests
  <1> QED
    BY <1>4, <1>5, <1>6 DEF Takes

LEMMA ItemStep ==
    ASSUME Rows, pubItem' \in ItemRow, ItemStays \/ ItemSaved,
           UNCHANGED <<solution, stimulus, signed>>,
           held' \in Requests, \A p \in PubRequests : Takes(p)
    PROVE  Rows' /\ Effects
  <1>1. Rows'
    BY DEF Rows, Requests
  <1>2. Effects
    BY DEF Effects, SolutionStays, SignatureStays, StimulusStays
  <1> QED
    BY <1>1, <1>2

LEMMA SolutionStep ==
    ASSUME Rows, NEW s \in Solutions, NEW row \in SolutionRow,
           solution' = [solution EXCEPT ![s] = row], SolutionSaved(s),
           UNCHANGED <<pubItem, stimulus>>,
           signed' \in Signatures, \A o \in Owners : o # s => signed'[o] = signed[o],
           held' \in Requests, \A p \in PubRequests : Takes(p)
    PROVE  Rows' /\ Effects
  <1>1. solution' \in [Solutions -> SolutionRow]
        /\ \A r \in Solutions : r # s => solution'[r] = solution[r]
    BY DEF Rows
  <1>2. Rows'
    BY <1>1 DEF Rows, Requests, Signatures
  <1>3. \A r \in Solutions : (SolutionStays(r) /\ SignatureStays(r)) \/ SolutionSaved(r)
    BY <1>1 DEF SolutionStays, SignatureStays, Owners
  <1>4. StimulusStays /\ SignatureStays("stimulus") /\ ItemStays
    BY PublicationAssumption DEF StimulusStays, SignatureStays, Owners, ItemStays
  <1> QED
    BY <1>2, <1>3, <1>4 DEF Effects

LEMMA StimulusStep ==
    ASSUME Rows, stimulus' \in StimulusRow, StimulusSaved,
           UNCHANGED <<pubItem, solution>>,
           signed' \in Signatures, \A s \in Solutions : signed'[s] = signed[s],
           held' \in Requests, \A p \in PubRequests : Takes(p)
    PROVE  Rows' /\ Effects
  <1>1. Rows'
    BY DEF Rows, Requests, Signatures
  <1>2. Effects
    BY DEF Effects, SolutionStays, SignatureStays, ItemStays
  <1> QED
    BY <1>1, <1>2

LEMMA NoAggregateStep ==
    ASSUME Rows, UNCHANGED <<pubItem, solution, stimulus>>,
           signed' \in Signatures, \A o \in Owners : SignatureStays(o),
           held' \in Requests, \A p \in PubRequests : Takes(p)
    PROVE  Rows' /\ Effects
  <1>1. Rows'
    BY DEF Rows, Requests, Signatures
  <1>2. Effects
    BY DEF Effects, SolutionStays, StimulusStays, ItemStays, Owners
  <1> QED
    BY <1>1, <1>2

LEMMA SignaturesStay ==
    ASSUME Rows, UNCHANGED signed
    PROVE  /\ signed' \in Signatures /\ \A o \in Owners : signed'[o] = signed[o]
           /\ \A o \in Owners : SignatureStays(o)
  BY DEF Rows, Signatures, SignatureStays

LEMMA OwnerIsEdited ==
    ASSUME Rows, NEW o \in Owners, signed' = Edited(o)
    PROVE  /\ signed' \in Signatures
           /\ \A r \in Owners : r # o => signed'[r] = signed[r]
  BY DEF Rows, Signatures, Edited

LEMMA OwnerIsSigned ==
    ASSUME Rows, NEW o \in Owners, signed' = [signed EXCEPT ![o] = "as it stands"]
    PROVE  /\ signed' \in Signatures /\ signed'[o] = "as it stands"
           /\ \A r \in Owners : SignatureStays(r)
  BY DEF Rows, Signatures, SignatureStays

-----------------------------------------------------------------------------
(* The item *)

LEMMA ItemIsEditedStep == ASSUME IInv, ItemIsEdited PROVE Rows' /\ Effects
  <1>1. Rows /\ pubItem \in ItemRow
    BY DEF IInv, Rows
  <1>2. PICK k \in Keys : pubItem' = [pubItem EXCEPT !.key = k, !.saves = @ + 1]
    BY DEF ItemIsEdited
  <1> DEFINE keyed == [pubItem EXCEPT !.key = k]
  <1>3. keyed \in ItemRow /\ keyed.state = pubItem.state /\ keyed.saves = pubItem.saves
    BY <1>1 DEF ItemRow
  <1>4. pubItem' = [keyed EXCEPT !.saves = pubItem.saves + 1]
    BY <1>2
  <1> HIDE DEF keyed
  <1>5. /\ pubItem' \in ItemRow /\ pubItem'.saves = pubItem.saves + 1
        /\ pubItem'.state = pubItem.state
    BY <1>1, <1>3, <1>4 DEF ItemRow
  <1>6. ~InStudentsHands(pubItem.state)
    BY DEF ItemIsEdited, IsEditable, InStudentsHands
  <1>7. ItemSaved
    BY <1>5, <1>6 DEF ItemSaved
  <1>8. held' \in Requests /\ \A p \in PubRequests : Takes(p)
    BY <1>1 DEF ItemIsEdited, Rows, Requests, Takes
  <1> QED
    BY <1>1, <1>5, <1>7, <1>8, ItemStep DEF ItemIsEdited

LEMMA ItemMovesStep == ASSUME IInv, ItemMoves PROVE Rows' /\ Effects
  <1>1. Rows /\ pubItem \in ItemRow
    BY DEF IInv, Rows
  <1>2. PICK t \in {"submit_for_review", "withdraw", "approve", "request_changes",
                    "reject", "suspend", "retire"} :
            Permitted(pubItem.state, t) /\ pubItem' = Moved(pubItem, t)
    BY DEF ItemMoves
  <1>3. /\ pubItem' \in ItemRow /\ pubItem'.saves = pubItem.saves + 1
        /\ pubItem'.key = pubItem.key
        /\ <<pubItem.state, t, pubItem'.state>> \in LifecycleTable
    BY <1>1, <1>2, MovedItem
  <1>4. InStudentsHands(pubItem'.state) => InStudentsHands(pubItem.state)
    BY <1>2, <1>3 DEF LifecycleTable, InStudentsHands
  <1>5. ItemSaved
    BY <1>3, <1>4 DEF ItemSaved
  <1>6. held' \in Requests /\ \A p \in PubRequests : Takes(p)
    BY <1>1 DEF ItemMoves, Rows, Requests, Takes
  <1> QED
    BY <1>1, <1>3, <1>5, <1>6, ItemStep DEF ItemMoves

LEMMA AttachBeginsStep ==
    ASSUME IInv, NEW q \in PubRequests, AttachBegins(q) PROVE Rows' /\ Effects
  <1>1. Rows /\ pubItem.saves \in Nat /\ pubItem.state \in LifecycleState
    BY DEF IInv, Rows, ItemRow
  <1>2. Holds(q, "attach", NoAnswer, pubItem)
    BY DEF AttachBegins
  <1>3. /\ held' \in Requests /\ \A p \in PubRequests : p # q => Takes(p)
        /\ held'[q].op = "attach"
    BY <1>1, <1>2, RequestTakesHold
  <1>4. Takes(q)
    BY <1>3 DEF Takes
  <1> QED
    BY <1>1, <1>3, <1>4, SignaturesStay, NoAggregateStep DEF AttachBegins

LEMMA AttachSavesStep ==
    ASSUME IInv, NEW q \in PubRequests, AttachSaves(q) PROVE Rows' /\ Effects
  <1>1. Rows /\ pubItem \in ItemRow
    BY DEF IInv, Rows
  <1>2. held' \in Requests /\ \A p \in PubRequests : Takes(p)
    BY <1>1, RequestsStay DEF AttachSaves
  <1>3. CASE pubItem' = pubItem
    BY <1>1, <1>2, <1>3, ItemStep DEF AttachSaves, ItemStays
  <1>4. CASE pubItem' = [pubItem EXCEPT !.pins = TRUE, !.saves = @ + 1]
    <2> DEFINE pinned == [pubItem EXCEPT !.pins = TRUE]
    <2>1. pinned \in ItemRow /\ pinned.state = pubItem.state /\ pinned.key = pubItem.key
          /\ pinned.saves = pubItem.saves
      BY <1>1 DEF ItemRow
    <2>2. pubItem' = [pinned EXCEPT !.saves = pubItem.saves + 1]
      BY <1>4
    <2> HIDE DEF pinned
    <2>3. /\ pubItem' \in ItemRow /\ pubItem'.saves = pubItem.saves + 1
          /\ pubItem'.state = pubItem.state /\ pubItem'.key = pubItem.key
      BY <1>1, <2>1, <2>2 DEF ItemRow
    <2>4. ItemSaved
      BY <2>3 DEF ItemSaved
    <2> QED
      BY <1>1, <1>2, <2>3, <2>4, ItemStep DEF AttachSaves
  <1> QED
    BY <1>3, <1>4 DEF AttachSaves

LEMMA PublishItemBeginsStep ==
    ASSUME IInv, NEW q \in PubRequests, PublishItemBegins(q) PROVE Rows' /\ Effects
  <1>1. Rows /\ pubItem.saves \in Nat /\ pubItem.state \in LifecycleState
    BY DEF IInv, Rows, ItemRow
  <1>2. Holds(q, "publish", NoAnswer, pubItem)
    BY DEF PublishItemBegins
  <1>3. /\ held' \in Requests /\ \A p \in PubRequests : p # q => Takes(p)
        /\ held'[q].op = "publish" /\ held'[q].on = NoAnswer /\ held'[q].saves = pubItem.saves
    BY <1>1, <1>2, RequestTakesHold
  <1>4. Takes(q)
    BY <1>3 DEF Takes, PublishItemBegins, Explained
  <1> QED
    BY <1>1, <1>3, <1>4, SignaturesStay, NoAggregateStep DEF PublishItemBegins

LEMMA PublishItemSavesStep ==
    ASSUME IInv, NEW q \in PubRequests, PublishItemSaves(q) PROVE Rows' /\ Effects
  <1>1. Rows /\ pubItem \in ItemRow
    BY DEF IInv, Rows
  <1>2. held' \in Requests /\ \A p \in PubRequests : Takes(p)
    BY <1>1, RequestsStay DEF PublishItemSaves
  <1>3. CASE pubItem' = pubItem
    BY <1>1, <1>2, <1>3, ItemStep DEF PublishItemSaves, ItemStays
  <1>4. CASE Unmoved(q, pubItem) /\ pubItem' = Moved(pubItem, "publish")
    <2>1. Explained(pubItem.key) /\ pubItem.state = "approved"
      BY <1>4 DEF PublishItemSaves, IInv, ItemIsKnown, PublishingItem, Unmoved
    <2>2. Permitted(pubItem.state, "publish")
      BY <2>1 DEF Permitted, LifecycleState, LifecycleTable
    <2>3. /\ pubItem' \in ItemRow /\ pubItem'.saves = pubItem.saves + 1
          /\ pubItem'.key = pubItem.key
      BY <1>1, <1>4, <2>2, MovedItem
    <2>4. ItemSaved
      BY <2>1, <2>3 DEF ItemSaved
    <2> QED
      BY <1>1, <1>2, <2>3, <2>4, ItemStep DEF PublishItemSaves
  <1> QED
    BY <1>3, <1>4 DEF PublishItemSaves

-----------------------------------------------------------------------------
(* Solutions *)

LEMMA SolutionIsWrittenStep ==
    ASSUME IInv, NEW s \in Solutions, SolutionIsWritten(s) PROVE Rows' /\ Effects
  <1>1. Rows /\ solution[s] \in SolutionRow /\ pubItem.key \in Keys
    BY DEF IInv, Rows, ItemRow
  <1> DEFINE row == [state |-> solution[s].state, answer |-> pubItem.key,
                     saves |-> solution[s].saves + 1]
  <1>2. row \in SolutionRow
    BY <1>1 DEF SolutionRow
  <1>3. solution' = [solution EXCEPT ![s] = row]
    <2> DEFINE keyed == [solution[s] EXCEPT !.answer = pubItem.key]
               between == [solution EXCEPT ![s] = keyed]
    <2>1. solution' = [between EXCEPT ![s] = [between[s] EXCEPT !.saves = between[s].saves + 1]]
      BY DEF SolutionIsWritten
    <2>2. keyed = [state |-> solution[s].state, answer |-> pubItem.key,
                   saves |-> solution[s].saves]
      BY <1>1 DEF SolutionRow
    <2>3. solution \in [Solutions -> SolutionRow]
      BY <1>1 DEF Rows
    <2> HIDE DEF keyed
    <2>4. between[s] = keyed /\ between \in [Solutions -> {keyed} \cup SolutionRow]
      BY <2>3
    <2>5. [keyed EXCEPT !.saves = keyed.saves + 1] = row
      BY <2>2
    <2> HIDE DEF row
    <2>6. [between EXCEPT ![s] = row] = [solution EXCEPT ![s] = row]
      BY <2>3
    <2> QED
      BY <2>1, <2>4, <2>5, <2>6
  <1>4. row.saves = solution[s].saves + 1 /\ row.state = solution[s].state
    OBVIOUS
  <1> HIDE DEF row
  <1>5. solution'[s] = row
    BY <1>1, <1>3 DEF Rows
  <1>6. SolutionSaved(s)
    BY <1>4, <1>5 DEF SolutionSaved, SolutionIsWritten, IsLaterDraftEditable
  <1>7. signed' \in Signatures /\ \A o \in Owners : o # s => signed'[o] = signed[o]
    BY <1>1, OwnerIsEdited DEF SolutionIsWritten, Owners
  <1>8. held' \in Requests /\ \A p \in PubRequests : Takes(p)
    BY <1>1 DEF SolutionIsWritten, Rows, Requests, Takes
  <1> QED
    BY <1>1, <1>2, <1>3, <1>6, <1>7, <1>8, SolutionStep DEF SolutionIsWritten

\* A solution that a permitted transition moves, nothing else moving.
LEMMA SolutionMovesStep ==
    ASSUME IInv, NEW s \in Solutions, NEW t, Permitted(solution[s].state, t),
           t \in {"approve", "publish", "reinstate"} => signed[s] = "as it stands",
           solution[s].state # "published",
           solution' = [solution EXCEPT ![s] = Moved(@, t)],
           UNCHANGED <<pubItem, stimulus, signed>>,
           held' \in Requests, \A p \in PubRequests : Takes(p)
    PROVE  Rows' /\ Effects
  <1>1. Rows /\ solution[s] \in SolutionRow
    BY DEF IInv, Rows
  <1> DEFINE row == Moved(solution[s], t)
  <1>2. /\ row \in SolutionRow /\ row.saves = solution[s].saves + 1
        /\ <<solution[s].state, t, row.state>> \in LifecycleTable
    BY <1>1, MovedSolution
  <1>3. solution' = [solution EXCEPT ![s] = row]
    OBVIOUS
  <1> HIDE DEF row
  <1>4. solution'[s] = row
    BY <1>1, <1>3 DEF Rows
  <1>5. row.state \in {"approved", "published"} => t \in {"approve", "publish", "reinstate"}
    BY <1>2 DEF LifecycleTable
  <1>6. signed' \in Signatures /\ \A o \in Owners : signed'[o] = signed[o]
    BY <1>1, SignaturesStay
  <1>7. SolutionSaved(s)
    BY <1>2, <1>4, <1>5 DEF SolutionSaved
  <1> QED
    BY <1>1, <1>2, <1>3, <1>6, <1>7, SolutionStep

LEMMA SolutionIsSubmittedStep ==
    ASSUME IInv, NEW s \in Solutions, SolutionIsSubmitted(s) PROVE Rows' /\ Effects
  <1>1. held' \in Requests /\ \A p \in PubRequests : Takes(p)
    BY DEF SolutionIsSubmitted, IInv, Rows, Requests, Takes
  <1>2. solution[s].state # "published"
    BY DEF SolutionIsSubmitted, Permitted, LifecycleTable
  <1>3. /\ Permitted(solution[s].state, "submit_for_review")
        /\ solution' = [solution EXCEPT ![s] = Moved(@, "submit_for_review")]
    BY DEF SolutionIsSubmitted
  <1>4. UNCHANGED <<pubItem, stimulus, signed>>
    BY DEF SolutionIsSubmitted
  <1> QED
    BY <1>1, <1>2, <1>3, <1>4, SolutionMovesStep

LEMMA SolutionIsReturnedStep ==
    ASSUME IInv, NEW s \in Solutions, SolutionIsReturned(s) PROVE Rows' /\ Effects
  <1>1. held' \in Requests /\ \A p \in PubRequests : Takes(p)
    BY DEF SolutionIsReturned, IInv, Rows, Requests, Takes
  <1>2. PICK t \in {"request_changes", "reject"} :
            Permitted(solution[s].state, t) /\ solution' = [solution EXCEPT ![s] = Moved(@, t)]
    BY DEF SolutionIsReturned
  <1>3. solution[s].state # "published"
    BY <1>2 DEF Permitted, LifecycleTable
  <1>4. UNCHANGED <<pubItem, stimulus, signed>>
    BY DEF SolutionIsReturned
  <1> QED
    BY <1>1, <1>2, <1>3, <1>4, SolutionMovesStep

LEMMA SolutionIsDecidedStep ==
    ASSUME IInv, NEW q \in PubRequests, NEW s \in Solutions, SolutionIsDecided(q, s)
    PROVE  Rows' /\ Effects
  <1>1. Rows /\ solution[s].saves \in Nat /\ solution[s].state \in LifecycleState
    BY DEF IInv, Rows, SolutionRow
  <1>2. signed' \in Signatures /\ signed'[s] = "as it stands"
        /\ \A o \in Owners : SignatureStays(o)
    BY <1>1, OwnerIsSigned DEF SolutionIsDecided, Owners
  <1>3. Holds(q, "decide", s, solution[s])
    BY DEF SolutionIsDecided
  <1>4. /\ held' \in Requests /\ \A p \in PubRequests : p # q => Takes(p)
        /\ held'[q].op = "decide" /\ held'[q].on = s
        /\ held'[q].saves = solution[s].saves /\ held'[q].state = solution[s].state
    BY <1>1, <1>3, RequestTakesHold DEF Owners
  <1>5. Takes(q)
    BY <1>2, <1>4 DEF Takes, SolutionIsDecided
  <1> QED
    BY <1>1, <1>2, <1>4, <1>5, NoAggregateStep DEF SolutionIsDecided

LEMMA PublishSolutionBeginsStep ==
    ASSUME IInv, NEW q \in PubRequests, NEW s \in Solutions, PublishSolutionBegins(q, s)
    PROVE  Rows' /\ Effects
  <1>1. Rows /\ solution[s].saves \in Nat /\ solution[s].state \in LifecycleState
    BY DEF IInv, Rows, SolutionRow
  <1>2. Holds(q, "publish", s, solution[s])
    BY DEF PublishSolutionBegins
  <1>3. /\ held' \in Requests /\ \A p \in PubRequests : p # q => Takes(p)
        /\ held'[q].op = "publish" /\ held'[q].on = s
        /\ held'[q].saves = solution[s].saves
    BY <1>1, <1>2, RequestTakesHold DEF Owners
  <1>4. Takes(q)
    BY <1>3 DEF Takes, PublishSolutionBegins
  <1> QED
    BY <1>1, <1>3, <1>4, SignaturesStay, NoAggregateStep DEF PublishSolutionBegins

LEMMA SolutionIsApprovedStep ==
    ASSUME IInv, NEW q \in PubRequests, SolutionIsApproved(q) PROVE Rows' /\ Effects
  <1> DEFINE s == held[q].on
  <1>1. Rows /\ s \in Solutions
    BY DEF SolutionIsApproved, IInv
  <1>2. held' \in Requests /\ \A p \in PubRequests : Takes(p)
    BY <1>1, RequestsStay DEF SolutionIsApproved
  <1>3. CASE solution' = solution
    BY <1>1, <1>2, <1>3, SignaturesStay, NoAggregateStep DEF SolutionIsApproved
  <1>4. CASE /\ Permitted(held[q].state, "approve") /\ Unmoved(q, solution[s])
             /\ solution' = [solution EXCEPT ![s] = Moved(@, "approve")]
    <2>1. held[q].state = solution[s].state /\ signed[s] = "as it stands"
      <3>1. Knows(q, s, solution[s])
        BY <1>1 DEF IInv, CompanionsAreKnown
      <3> QED
        BY <1>4, <3>1 DEF Knows, Unmoved, SolutionIsApproved
    <2>2. Permitted(solution[s].state, "approve") /\ solution[s].state # "published"
      BY <1>4, <2>1 DEF Permitted, LifecycleTable
    <2>3. UNCHANGED <<pubItem, stimulus, signed>>
      BY DEF SolutionIsApproved
    <2>4. solution' = [solution EXCEPT ![s] = Moved(@, "approve")]
      BY <1>4
    <2> HIDE DEF s
    <2> QED
      BY <1>1, <1>2, <2>1, <2>2, <2>3, <2>4, SolutionMovesStep
  <1> QED
    BY <1>3, <1>4 DEF SolutionIsApproved

LEMMA PublishSolutionSavesStep ==
    ASSUME IInv, NEW q \in PubRequests, PublishSolutionSaves(q) PROVE Rows' /\ Effects
  <1> DEFINE s == held[q].on
  <1>1. Rows /\ s \in Solutions
    BY DEF PublishSolutionSaves, IInv
  <1>2. held' \in Requests /\ \A p \in PubRequests : Takes(p)
    BY <1>1, RequestsStay DEF PublishSolutionSaves
  <1>3. CASE solution' = solution
    BY <1>1, <1>2, <1>3, SignaturesStay, NoAggregateStep DEF PublishSolutionSaves
  <1>4. CASE /\ Unmoved(q, solution[s])
             /\ solution' = [solution EXCEPT ![s] = Moved(@, "publish")]
    <2>1. solution[s].state = "approved"
      <3>1. Knows(q, s, solution[s])
        BY <1>1 DEF IInv, CompanionsAreKnown
      <3> QED
        BY <1>4, <3>1 DEF Knows, Unmoved, PublishSolutionSaves
    <2>2. signed[s] = "as it stands"
      BY <1>1, <2>1 DEF IInv, SignedAsApproved
    <2>3. Permitted(solution[s].state, "publish") /\ solution[s].state # "published"
      BY <2>1 DEF Permitted, LifecycleState, LifecycleTable
    <2>4. UNCHANGED <<pubItem, stimulus, signed>>
      BY DEF PublishSolutionSaves
    <2>5. solution' = [solution EXCEPT ![s] = Moved(@, "publish")]
      BY <1>4
    <2> HIDE DEF s
    <2> QED
      BY <1>1, <1>2, <2>2, <2>3, <2>4, <2>5, SolutionMovesStep
  <1> QED
    BY <1>3, <1>4 DEF PublishSolutionSaves

-----------------------------------------------------------------------------
(* The stimulus *)

LEMMA StimulusIsEditedStep == ASSUME IInv, StimulusIsEdited PROVE Rows' /\ Effects
  <1>1. Rows /\ stimulus \in StimulusRow
    BY DEF IInv, Rows
  <1>2. /\ stimulus' \in StimulusRow /\ stimulus'.saves = stimulus.saves + 1
        /\ stimulus'.state = stimulus.state
    BY <1>1 DEF StimulusIsEdited, StimulusRow
  <1>3. StimulusSaved
    BY <1>2 DEF StimulusSaved, StimulusIsEdited, IsLaterDraftEditable
  <1>4. signed' \in Signatures /\ \A s \in Solutions : signed'[s] = signed[s]
    BY <1>1, OwnerIsEdited, PublicationAssumption DEF StimulusIsEdited, Owners
  <1>5. held' \in Requests /\ \A p \in PubRequests : Takes(p)
    BY <1>1 DEF StimulusIsEdited, Rows, Requests, Takes
  <1> QED
    BY <1>1, <1>2, <1>3, <1>4, <1>5, StimulusStep DEF StimulusIsEdited

\* The stimulus moved by a permitted transition, nothing else moving.
LEMMA StimulusTransitionStep ==
    ASSUME IInv, NEW t, Permitted(stimulus.state, t),
           t \in {"approve", "publish", "reinstate"} => signed["stimulus"] = "as it stands",
           stimulus' = Moved(stimulus, t),
           UNCHANGED <<pubItem, solution, signed>>,
           held' \in Requests, \A p \in PubRequests : Takes(p)
    PROVE  Rows' /\ Effects
  <1>1. Rows /\ stimulus \in StimulusRow
    BY DEF IInv, Rows
  <1>2. /\ stimulus' \in StimulusRow /\ stimulus'.saves = stimulus.saves + 1
        /\ <<stimulus.state, t, stimulus'.state>> \in LifecycleTable
    BY <1>1, MovedStimulus
  <1>3. stimulus'.state \in {"approved", "published"} => t \in {"approve", "publish", "reinstate"}
    BY <1>2 DEF LifecycleTable
  <1>4. signed' \in Signatures /\ \A s \in Solutions : signed'[s] = signed[s]
    BY <1>1, SignaturesStay DEF Owners
  <1>5. StimulusSaved
    BY <1>2, <1>3 DEF StimulusSaved
  <1> QED
    BY <1>1, <1>2, <1>4, <1>5, StimulusStep

LEMMA StimulusMovesStep == ASSUME IInv, StimulusMoves PROVE Rows' /\ Effects
  <1>1. held' \in Requests /\ \A p \in PubRequests : Takes(p)
    BY DEF StimulusMoves, IInv, Rows, Requests, Takes
  <1>2. CASE \E t \in {"submit_for_review", "request_changes", "reject"} :
                Permitted(stimulus.state, t) /\ stimulus' = Moved(stimulus, t)
    <2>1. PICK t \in {"submit_for_review", "request_changes", "reject"} :
              Permitted(stimulus.state, t) /\ stimulus' = Moved(stimulus, t)
      BY <1>2
    <2>2. UNCHANGED <<pubItem, solution, signed>>
      BY DEF StimulusMoves
    <2> QED
      BY <1>1, <2>1, <2>2, StimulusTransitionStep
  <1>3. CASE Permitted(stimulus.state, "publish") /\ stimulus' = Moved(stimulus, "publish")
    <2>1. stimulus.state = "approved"
      BY <1>3 DEF Permitted, LifecycleTable
    <2>2. signed["stimulus"] = "as it stands"
      BY <2>1 DEF IInv, SignedAsApproved
    <2> QED
      BY <1>1, <1>3, <2>2, StimulusTransitionStep DEF StimulusMoves
  <1> QED
    BY <1>2, <1>3 DEF StimulusMoves

LEMMA StimulusIsDecidedStep ==
    ASSUME IInv, NEW q \in PubRequests, StimulusIsDecided(q) PROVE Rows' /\ Effects
  <1>1. Rows /\ stimulus.saves \in Nat /\ stimulus.state \in LifecycleState
    BY DEF IInv, Rows, StimulusRow
  <1>2. signed' \in Signatures /\ signed'["stimulus"] = "as it stands"
        /\ \A o \in Owners : SignatureStays(o)
    BY <1>1, OwnerIsSigned DEF StimulusIsDecided, Owners
  <1>3. Holds(q, "decide", "stimulus", stimulus)
    BY DEF StimulusIsDecided
  <1>4. /\ held' \in Requests /\ \A p \in PubRequests : p # q => Takes(p)
        /\ held'[q].op = "decide" /\ held'[q].on = "stimulus"
        /\ held'[q].saves = stimulus.saves /\ held'[q].state = stimulus.state
    BY <1>1, <1>3, RequestTakesHold DEF Owners
  <1>5. Takes(q)
    BY <1>2, <1>4 DEF Takes, StimulusIsDecided
  <1> QED
    BY <1>1, <1>2, <1>4, <1>5, NoAggregateStep DEF StimulusIsDecided

LEMMA StimulusIsApprovedStep ==
    ASSUME IInv, NEW q \in PubRequests, StimulusIsApproved(q) PROVE Rows' /\ Effects
  <1>1. Rows
    BY DEF IInv
  <1>2. held' \in Requests /\ \A p \in PubRequests : Takes(p)
    BY <1>1, RequestsStay DEF StimulusIsApproved
  <1>3. CASE stimulus' = stimulus
    BY <1>1, <1>2, <1>3, SignaturesStay, NoAggregateStep DEF StimulusIsApproved
  <1>4. CASE /\ Permitted(held[q].state, "approve") /\ Unmoved(q, stimulus)
             /\ stimulus' = Moved(stimulus, "approve")
    <2>1. Knows(q, "stimulus", stimulus)
      BY DEF IInv, CompanionsAreKnown
    <2>2. held[q].state = stimulus.state /\ signed["stimulus"] = "as it stands"
      BY <1>4, <2>1 DEF Knows, Unmoved, StimulusIsApproved
    <2> QED
      BY <1>2, <1>4, <2>2, StimulusTransitionStep DEF StimulusIsApproved
  <1> QED
    BY <1>3, <1>4 DEF StimulusIsApproved

LEMMA RetireStimulusBeginsStep ==
    ASSUME IInv, NEW q \in PubRequests, RetireStimulusBegins(q) PROVE Rows' /\ Effects
  <1>1. Rows /\ stimulus.saves \in Nat /\ stimulus.state \in LifecycleState
    BY DEF IInv, Rows, StimulusRow
  <1>2. Holds(q, "retire", "stimulus", stimulus)
    BY DEF RetireStimulusBegins
  <1>3. /\ held' \in Requests /\ \A p \in PubRequests : p # q => Takes(p)
        /\ held'[q].op = "retire" /\ held'[q].on = "stimulus"
        /\ held'[q].saves = stimulus.saves
    BY <1>1, <1>2, RequestTakesHold DEF Owners
  <1>4. Takes(q)
    BY <1>3 DEF Takes, RetireStimulusBegins
  <1> QED
    BY <1>1, <1>3, <1>4, SignaturesStay, NoAggregateStep DEF RetireStimulusBegins

LEMMA RetireStimulusSavesStep ==
    ASSUME IInv, NEW q \in PubRequests, RetireStimulusSaves(q) PROVE Rows' /\ Effects
  <1>1. Rows
    BY DEF IInv
  <1>2. held' \in Requests /\ \A p \in PubRequests : Takes(p)
    BY <1>1, RequestsStay DEF RetireStimulusSaves
  <1>3. CASE stimulus' = stimulus
    BY <1>1, <1>2, <1>3, SignaturesStay, NoAggregateStep DEF RetireStimulusSaves
  <1>4. CASE Unmoved(q, stimulus) /\ stimulus' = Moved(stimulus, "retire")
    <2>1. held[q].on = "stimulus"
      BY DEF RetireStimulusSaves
    <2>2. Knows(q, "stimulus", stimulus)
      BY DEF IInv, CompanionsAreKnown
    <2>3. Permitted(stimulus.state, "retire")
      BY <1>4, <2>1, <2>2 DEF Knows, Unmoved, RetireStimulusSaves
    <2> QED
      BY <1>2, <1>4, <2>3, StimulusTransitionStep DEF RetireStimulusSaves
  <1> QED
    BY <1>3, <1>4 DEF RetireStimulusSaves

-----------------------------------------------------------------------------
LEMMA Step == IInv /\ [PubNext]_pubVars => IInv'
  <1> SUFFICES ASSUME IInv, [PubNext]_pubVars PROVE IInv'
    OBVIOUS
  <1>1. Rows' /\ Effects
    <2>1. CASE UNCHANGED pubVars
      <3>1. Rows
        BY DEF IInv
      <3>2. held' \in Requests /\ \A p \in PubRequests : Takes(p)
        BY <2>1, <3>1 DEF pubVars, Rows, Requests, Takes
      <3> QED
        BY <2>1, <3>1, <3>2, SignaturesStay, NoAggregateStep DEF pubVars
    <2>2. CASE ItemIsEdited \/ ItemMoves \/ StimulusIsEdited \/ StimulusMoves
      BY <2>2, ItemIsEditedStep, ItemMovesStep, StimulusIsEditedStep, StimulusMovesStep
    <2>3. CASE \E s \in Solutions :
                  SolutionIsWritten(s) \/ SolutionIsSubmitted(s) \/ SolutionIsReturned(s)
      BY <2>3, SolutionIsWrittenStep, SolutionIsSubmittedStep, SolutionIsReturnedStep
    <2>4. ASSUME NEW q \in PubRequests,
                 AttachBegins(q) \/ AttachSaves(q) \/ PublishItemBegins(q) \/ PublishItemSaves(q)
          PROVE  Rows' /\ Effects
      BY <2>4, AttachBeginsStep, AttachSavesStep, PublishItemBeginsStep, PublishItemSavesStep
    <2>5. ASSUME NEW q \in PubRequests,
                 \/ SolutionIsApproved(q) \/ PublishSolutionSaves(q)
                 \/ \E s \in Solutions : SolutionIsDecided(q, s) \/ PublishSolutionBegins(q, s)
          PROVE  Rows' /\ Effects
      BY <2>5, SolutionIsApprovedStep, PublishSolutionSavesStep, SolutionIsDecidedStep,
         PublishSolutionBeginsStep
    <2>6. ASSUME NEW q \in PubRequests,
                 \/ StimulusIsDecided(q) \/ StimulusIsApproved(q)
                 \/ RetireStimulusBegins(q) \/ RetireStimulusSaves(q)
          PROVE  Rows' /\ Effects
      BY <2>6, StimulusIsDecidedStep, StimulusIsApprovedStep, RetireStimulusBeginsStep,
         RetireStimulusSavesStep
    <2> QED
      BY <2>1, <2>2, <2>3, <2>4, <2>5, <2>6 DEF PubNext
  <1>2. ItemIsKnown' /\ CompanionsAreKnown'
    BY <1>1, KnowledgeStep
  <1>3. SignedAsApproved' /\ PublishedItemIsExplained'
    BY <1>1, PropertiesStep
  <1> QED
    BY <1>1, <1>2, <1>3 DEF IInv

\* The strengthening holds throughout: what is about to be saved is known of
\* an aggregate that nothing has saved since.
THEOREM PublicationInvariant == PubSpec => []IInv
  BY InitInv, Step, PTL DEF PubSpec

\* INV-08 for any number of solutions, requests and saves: an item students
\* have is explained by a published solution that states its key.
THEOREM PublishedItemIsExplainedAlways == PubSpec => []PublishedItemIsExplained
  <1>1. IInv => PublishedItemIsExplained
    BY DEF IInv
  <1> QED
    BY <1>1, PublicationInvariant, PTL

\* A solution or a stimulus is published as it was approved, although the
\* approving decision is on record before the transition is tried.
THEOREM PublishedIsSignedAlways == PubSpec => []PublishedIsSigned
  <1>1. IInv => PublishedIsSigned
    BY DEF IInv, SignedAsApproved, PublishedIsSigned
  <1> QED
    BY <1>1, PublicationInvariant, PTL
=============================================================================
