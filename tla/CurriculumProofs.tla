--------------------------- MODULE CurriculumProofs ---------------------------
(* Proofs about a version of a syllabus, about the exam profiles of a year   *)
(* and about a migration between two versions.                               *)
(*                                                                           *)
(* Of the syllabus: a curator whose row has not been saved since it was read *)
(* holds the version as it stands, and would write an edit of it.  Its edits *)
(* keep it a tree: below a node that moves the new depths are the old ones   *)
(* shifted, and a least depth that is wrong does not exist.                  *)
(* Of the profiles: a request whose row has not been saved since it was read *)
(* holds the profile as it stands, or the one step from it that it will save.*)
(* Of the migration likewise; and a resolved preview of two published        *)
(* versions stays true, since no concept is left for another mapping to name.*)
(* What a request at its chunks has not left to do is applied, since no two  *)
(* mappings name one concept and the executor forgets nothing.               *)
EXTENDS Taxonomy, TaxonomyMigration, ExamProfiles, FiniteSetTheorems,
        WellFoundedInduction, TLAPS

(* The syllabus *)

\* A version is its state, its nodes and its edges, and nothing else.
IsVersion(v) == v = [state |-> v.state, nodes |-> v.nodes, edges |-> v.edges]

\* What a curator has read is current unless the row was saved since.
CuratorIsCurrent(q) ==
    /\ curator[q].step \in {"rest", "row", "nodes", "saves", "derives"}
    /\ curator[q].step \in {"row", "nodes", "saves"} =>
          curator[q].saw \in Nat /\ curator[q].saw <= taxonomySaves
    /\ curator[q].step \in {"row", "nodes"} /\ curator[q].saw = taxonomySaves =>
          curator[q].state = syllabus.state
    /\ curator[q].step = "nodes" /\ curator[q].saw = taxonomySaves =>
          curator[q].nodes = syllabus.nodes
    /\ curator[q].step = "saves" /\ curator[q].saw = taxonomySaves =>
          curator[q].becomes \in EditsOf(syllabus)

TaxonomyIInv ==
    /\ IsVersion(syllabus) /\ taxonomySaves \in Nat
    /\ curator = [q \in Curators |-> curator[q]]
    /\ \A q \in Curators : CuratorIsCurrent(q)
    /\ PublishedIsConsistent

\* The checks are of the nodes and the edges, whatever the state.
LEMMA ChecksIgnoreState ==
    ASSUME NEW v, NEW w, v.nodes = w.nodes, v.edges = w.edges
    PROVE  Validates(v) <=> Validates(w)
  BY DEF Validates, NoOrphans, UpEdges, OneRootPerDomain, EndpointsExist, Placed, RootsOf

\* An edit of a draft is a draft, or its publication, which passed the checks.
LEMMA EditsAre ==
    ASSUME NEW v, IsVersion(v), NEW w \in EditsOf(v)
    PROVE  /\ IsVersion(w) /\ v.state = "draft"
           /\ \/ w.state = "draft"
              \/ w = [v EXCEPT !.state = "published"] /\ Validates(v)
  <1>1. v.state = "draft"
    BY DEF EditsOf
  <1>2. CASE w \in Additions(v) \cup Moves(v) \cup Removals(v)
    <2>1. \E nodes : w = [v EXCEPT !.nodes = nodes]
      BY <1>2 DEF Additions, Moves, Removals
    <2> QED BY <2>1, <1>1 DEF IsVersion
  <1>3. CASE w \in Requirements(v)
    <2>1. \E m : w = [v EXCEPT !.edges = @ \cup {m}]
      BY <1>3 DEF Requirements
    <2> QED BY <2>1, <1>1 DEF IsVersion
  <1>4. CASE w \in Publications(v)
    BY <1>4, <1>1 DEF Publications, IsVersion
  <1> QED BY <1>1, <1>2, <1>3, <1>4 DEF EditsOf

LEMMA TaxonomyInitInv == TaxonomyInit => TaxonomyIInv
  BY TaxonomyAssumption DEF TaxonomyInit, TaxonomyIInv, IsVersion, CuratorIsCurrent,
     PublishedIsConsistent, NotEditing

\* One curator steps and nothing is saved: the others hold what they held.
LEMMA CuratorSteps ==
    ASSUME TaxonomyIInv, NEW q \in Curators, NEW does, Curates(q, does),
           UNCHANGED <<syllabus, taxonomySaves>>, CuratorIsCurrent(q)'
    PROVE  TaxonomyIInv'
  <1>1. curator' = [curator EXCEPT ![q] = does]
    BY DEF Curates
  <1>2. curator' = [p \in Curators |-> curator'[p]]
    BY <1>1 DEF TaxonomyIInv
  <1>3. \A p \in Curators : CuratorIsCurrent(p)'
    <2> TAKE p \in Curators
    <2>1. CASE p = q
      BY <2>1
    <2>2. CASE p # q
      <3>1. curator'[p] = curator[p]
        BY <1>1, <2>2 DEF TaxonomyIInv
      <3>2. CuratorIsCurrent(p)
        BY DEF TaxonomyIInv
      <3> QED BY <3>1, <3>2 DEF CuratorIsCurrent
    <2> QED BY <2>1, <2>2
  <1>4. IsVersion(syllabus)' /\ (taxonomySaves \in Nat)' /\ PublishedIsConsistent'
    BY DEF TaxonomyIInv, IsVersion, PublishedIsConsistent, Validates, NoOrphans, UpEdges,
           OneRootPerDomain, EndpointsExist, Placed, RootsOf
  <1> QED BY <1>2, <1>3, <1>4 DEF TaxonomyIInv

\* After the step the curator's record is the one the action names.
LEMMA CuratorIs ==
    ASSUME TaxonomyIInv, NEW q \in Curators, NEW does, Curates(q, does)
    PROVE  curator'[q] = does
  BY DEF TaxonomyIInv, Curates

LEMMA RestsStep ==
    ASSUME TaxonomyIInv, NEW q \in Curators, Curates(q, NotEditing),
           UNCHANGED <<syllabus, taxonomySaves>>
    PROVE  TaxonomyIInv'
  <1>1. curator'[q] = NotEditing
    BY CuratorIs
  <1>2. CuratorIsCurrent(q)'
    BY <1>1 DEF CuratorIsCurrent, NotEditing
  <1> QED BY <1>2, CuratorSteps

LEMMA ReadsVersionStep ==
    ASSUME TaxonomyIInv, NEW q \in Curators, ReadsVersion(q)
    PROVE  TaxonomyIInv'
  <1> DEFINE does == [step |-> "row", saw |-> taxonomySaves, state |-> syllabus.state]
  <1>1. Curates(q, does) /\ UNCHANGED <<syllabus, taxonomySaves>>
    BY DEF ReadsVersion
  <1>2. curator'[q] = does
    BY <1>1, CuratorIs
  <1>3. CuratorIsCurrent(q)'
    BY <1>1, <1>2 DEF CuratorIsCurrent, TaxonomyIInv
  <1> QED BY <1>1, <1>3, CuratorSteps

LEMMA ReadsNodesStep ==
    ASSUME TaxonomyIInv, NEW q \in Curators, ReadsNodes(q)
    PROVE  TaxonomyIInv'
  <1> DEFINE does == [step |-> "nodes", saw |-> curator[q].saw,
                      state |-> curator[q].state, nodes |-> syllabus.nodes]
  <1>1. /\ Curates(q, does) /\ UNCHANGED <<syllabus, taxonomySaves>>
        /\ curator[q].step = "row" /\ CuratorIsCurrent(q)
    BY DEF ReadsNodes, TaxonomyIInv
  <1>2. curator'[q] = does
    BY <1>1, CuratorIs
  <1>3. CuratorIsCurrent(q)'
    BY <1>1, <1>2 DEF CuratorIsCurrent, TaxonomyIInv
  <1> QED BY <1>1, <1>3, CuratorSteps

LEMMA EditsStep ==
    ASSUME TaxonomyIInv, NEW q \in Curators, Edits(q)
    PROVE  TaxonomyIInv'
  <1>1. PICK w \in EditsOf(Loaded(q)) :
            Curates(q, [step |-> "saves", saw |-> curator[q].saw, becomes |-> w])
    BY DEF Edits
  <1> DEFINE does == [step |-> "saves", saw |-> curator[q].saw, becomes |-> w]
  <1>2. /\ Curates(q, does) /\ UNCHANGED <<syllabus, taxonomySaves>>
        /\ curator[q].step = "nodes" /\ CuratorIsCurrent(q) /\ IsVersion(syllabus)
    BY <1>1 DEF Edits, TaxonomyIInv
  <1>3. curator'[q] = does
    BY <1>2, CuratorIs
  <1>4. curator[q].saw = taxonomySaves => Loaded(q) = syllabus
    BY <1>2 DEF CuratorIsCurrent, Loaded, IsVersion
  <1>5. curator[q].saw = taxonomySaves => w \in EditsOf(syllabus)
    BY <1>1, <1>4
  <1>6. CuratorIsCurrent(q)'
    BY <1>2, <1>3, <1>5 DEF CuratorIsCurrent
  <1> QED BY <1>2, <1>6, CuratorSteps

LEMMA MovesUnderItselfStep ==
    ASSUME TaxonomyIInv, NEW q \in Curators, MovesUnderItself(q)
    PROVE  TaxonomyIInv'
  <1>1. PICK c \in Concepts :
            Curates(q, [step |-> "derives", nodes |-> [curator[q].nodes EXCEPT ![c].parent = c]])
    BY DEF MovesUnderItself
  <1> DEFINE does == [step |-> "derives", nodes |-> [curator[q].nodes EXCEPT ![c].parent = c]]
  <1>2. Curates(q, does) /\ UNCHANGED <<syllabus, taxonomySaves>>
    BY <1>1 DEF MovesUnderItself
  <1>3. curator'[q] = does
    BY <1>2, CuratorIs
  <1>4. curator'[q].step = "derives"
    BY <1>3
  <1>5. CuratorIsCurrent(q)'
    BY <1>4 DEF CuratorIsCurrent
  <1> QED BY <1>2, <1>5, CuratorSteps

\* A save writes an edit of the version as it stands.
LEMMA SaveIsAnEdit ==
    ASSUME TaxonomyIInv, NEW q \in Curators, SavesVersion(q)
    PROVE  syllabus' \in EditsOf(syllabus)
  <1>1. /\ curator[q].becomes \in EditsOf(syllabus) /\ IsVersion(syllabus)
        /\ syllabus' = IF curator[q].becomes.state = "draft" THEN curator[q].becomes
                       ELSE [syllabus EXCEPT !.state = curator[q].becomes.state]
    BY DEF SavesVersion, TaxonomyIInv, CuratorIsCurrent
  <1>2. \/ curator[q].becomes.state = "draft"
        \/ curator[q].becomes = [syllabus EXCEPT !.state = "published"]
    BY <1>1, EditsAre
  <1>3. CASE curator[q].becomes.state = "draft"
    BY <1>1, <1>3
  <1>4. CASE curator[q].becomes = [syllabus EXCEPT !.state = "published"]
    <2>1. curator[q].becomes.state = "published"
      BY <1>1, <1>4 DEF IsVersion
    <2> QED BY <1>1, <1>4, <2>1
  <1> QED BY <1>2, <1>3, <1>4

LEMMA SavesVersionStep ==
    ASSUME TaxonomyIInv, NEW q \in Curators, SavesVersion(q)
    PROVE  TaxonomyIInv'
  <1>1. syllabus' \in EditsOf(syllabus) /\ IsVersion(syllabus)
    BY SaveIsAnEdit DEF TaxonomyIInv
  <1>2. /\ taxonomySaves \in Nat /\ taxonomySaves' = taxonomySaves + 1
        /\ Curates(q, NotEditing)
    BY DEF SavesVersion, TaxonomyIInv
  <1>3. curator' = [curator EXCEPT ![q] = NotEditing]
    BY <1>2 DEF Curates
  <1>4. curator' = [p \in Curators |-> curator'[p]]
    BY <1>3 DEF TaxonomyIInv
  <1>5. \A p \in Curators : CuratorIsCurrent(p)'
    <2> TAKE p \in Curators
    <2>1. CASE p = q
      <3>1. curator'[p] = NotEditing
        BY <1>3, <2>1 DEF TaxonomyIInv
      <3> QED BY <3>1 DEF CuratorIsCurrent, NotEditing
    <2>2. CASE p # q
      <3>1. curator'[p] = curator[p] /\ CuratorIsCurrent(p)
        BY <1>3, <2>2 DEF TaxonomyIInv
      <3> QED BY <1>2, <3>1 DEF CuratorIsCurrent
    <2> QED BY <2>1, <2>2
  <1>6. /\ IsVersion(syllabus') /\ syllabus.state = "draft"
        /\ \/ syllabus'.state = "draft"
           \/ syllabus' = [syllabus EXCEPT !.state = "published"] /\ Validates(syllabus)
    BY <1>1, EditsAre
  <1>7. PublishedIsConsistent'
    <2>1. CASE syllabus'.state = "draft"
      BY <2>1 DEF PublishedIsConsistent
    <2>2. CASE syllabus' = [syllabus EXCEPT !.state = "published"] /\ Validates(syllabus)
      <3>1. syllabus'.nodes = syllabus.nodes /\ syllabus'.edges = syllabus.edges
        BY <1>1, <2>2 DEF IsVersion
      <3>2. Validates(syllabus')
        BY <2>2, <3>1, ChecksIgnoreState
      <3> QED BY <3>2 DEF PublishedIsConsistent, Validates, NoOrphans, UpEdges,
                          OneRootPerDomain, EndpointsExist, Placed, RootsOf
    <2> QED BY <1>6, <2>1, <2>2
  <1>8. IsVersion(syllabus)' /\ (taxonomySaves \in Nat)'
    BY <1>2, <1>6 DEF IsVersion
  <1> QED BY <1>4, <1>5, <1>7, <1>8 DEF TaxonomyIInv

LEMMA TaxonomyStep == TaxonomyIInv /\ [TaxonomyNext]_taxonomyVars => TaxonomyIInv'
  <1> SUFFICES ASSUME TaxonomyIInv, [TaxonomyNext]_taxonomyVars PROVE TaxonomyIInv'
    OBVIOUS
  <1>1. CASE UNCHANGED taxonomyVars
    <2>1. syllabus' = syllabus /\ taxonomySaves' = taxonomySaves /\ curator' = curator
      BY <1>1 DEF taxonomyVars
    <2>2. \A q \in Curators : CuratorIsCurrent(q)'
      BY <2>1 DEF TaxonomyIInv, CuratorIsCurrent
    <2>3. PublishedIsConsistent'
      BY <2>1, ChecksIgnoreState DEF TaxonomyIInv, PublishedIsConsistent
    <2>4. IsVersion(syllabus)' /\ (taxonomySaves \in Nat)' /\ curator' = [q \in Curators |-> curator'[q]]
      BY <2>1 DEF TaxonomyIInv, IsVersion
    <2> QED BY <2>2, <2>3, <2>4 DEF TaxonomyIInv
  <1>2. ASSUME NEW q \in Curators, ReadsVersion(q) PROVE TaxonomyIInv'
    BY <1>2, ReadsVersionStep
  <1>3. ASSUME NEW q \in Curators, ReadsNodes(q) PROVE TaxonomyIInv'
    BY <1>3, ReadsNodesStep
  <1>4. ASSUME NEW q \in Curators, Edits(q) PROVE TaxonomyIInv'
    BY <1>4, EditsStep
  <1>5. ASSUME NEW q \in Curators, IsRefused(q) \/ Conflicts(q) PROVE TaxonomyIInv'
    BY <1>5, RestsStep DEF IsRefused, Conflicts
  <1>6. ASSUME NEW q \in Curators, MovesUnderItself(q) PROVE TaxonomyIInv'
    BY <1>6, MovesUnderItselfStep
  <1>7. ASSUME NEW q \in Curators, SavesVersion(q) PROVE TaxonomyIInv'
    BY <1>7, SavesVersionStep
  <1>8. ASSUME NEW q \in Curators, DerivesAgain(q) PROVE UNCHANGED taxonomyVars
    BY <1>8 DEF DerivesAgain
  <1> QED BY <1>1, <1>2, <1>3, <1>4, <1>5, <1>6, <1>7, <1>8 DEF TaxonomyNext

\* What every curator holds is current or refused, and what is published is consistent.
THEOREM TaxonomyInvariant == TaxonomySpec => []TaxonomyIInv
  BY TaxonomyInitInv, TaxonomyStep, PTL DEF TaxonomySpec

\* A published version passes every check, for any number of curators and any
\* concepts: the publication is of the rows as they stood, taxonomy-version.ts publish.
THEOREM PublishedIsConsistentAlways == TaxonomySpec => []PublishedIsConsistent
  <1>1. TaxonomyIInv => PublishedIsConsistent
    BY DEF TaxonomyIInv
  <1> QED BY <1>1, TaxonomyInvariant, PTL

\* Every save is one edit of the version as it stood: the expected version of the
\* update keeps an edit of rows read side by side with a save from being written.
THEOREM NoEditIsLostAlways == TaxonomySpec => NoEditIsLost
  <1>1. TaxonomyIInv /\ [TaxonomyNext]_taxonomyVars => [syllabus' \in EditsOf(syllabus)]_syllabus
    <2> SUFFICES ASSUME TaxonomyIInv, [TaxonomyNext]_taxonomyVars, syllabus' # syllabus
                 PROVE  syllabus' \in EditsOf(syllabus)
      OBVIOUS
    <2>1. \E q \in Curators : SavesVersion(q)
      BY DEF taxonomyVars, TaxonomyNext, ReadsVersion, ReadsNodes, Edits, IsRefused,
             MovesUnderItself, DerivesAgain, Conflicts
    <2> QED BY <2>1, SaveIsAnEdit
  <1> QED BY <1>1, TaxonomyInvariant, PTL DEF TaxonomySpec, NoEditIsLost

-----------------------------------------------------------------------------
(* The tree of a syllabus *)

LEMMA HasLeast ==
    ASSUME NEW T \in SUBSET Nat, T # {}
    PROVE  \E n \in T : \A m \in T : n <= m
  <1>1. PICK n \in T : \A m \in T : ~(<<m, n>> \in OpToRel(<, Nat))
    BY NatLessThanWellFounded, WFMin
  <1>2. OpToRel(<, Nat) = {ss \in Nat \X Nat : ss[1] < ss[2]}
    BY DEF OpToRel
  <1>3. \A m \in T : ~(m < n)
    BY <1>1, <1>2
  <1> QED BY <1>3

\* Its depths follow from its parents, so they count the steps from the top.
IsTree(v) ==
    /\ v.nodes = [c \in Concepts |-> v.nodes[c]]
    /\ \A c \in Concepts : v.nodes[c].depth \in Nat
    /\ \A c \in Placed(v) : /\ v.nodes[c].parent = Top \/ v.nodes[c].parent \in Placed(v)
                            /\ v.nodes[c] = Under(v, v.nodes[c].parent)

LEMMA OrphanHasNoParent ==
    ASSUME NEW v
    PROVE  NoOrphans(v) <=> \A c \in Placed(v) : v.nodes[c].parent = Top \/ v.nodes[c].parent \in Placed(v)
  <1> DEFINE hung == {d \in Placed(v) : v.nodes[d].parent # Top}
  <1>1. UpEdges(v) = {<<c, v.nodes[c].parent>> : c \in hung}
    BY DEF UpEdges
  <1>2. \A c \in hung : <<c, v.nodes[c].parent>>[2] = v.nodes[c].parent
    OBVIOUS
  <1>3. NoOrphans(v) <=> \A c \in hung : <<c, v.nodes[c].parent>>[2] \in Placed(v)
    BY <1>1 DEF NoOrphans
  <1> QED BY <1>2, <1>3

LEMMA DepthsFollowFromTree ==
    ASSUME IsTree(syllabus)
    PROVE  DepthsFollow
  BY OrphanHasNoParent DEF IsTree, DepthsFollow

\* A placed concept is one below its parent.
LEMMA OneBelowParent ==
    ASSUME NEW v, IsTree(v), NEW c \in Placed(v)
    PROVE  /\ c \in Concepts /\ c # Top /\ v.nodes[c].depth \in Nat
           /\ v.nodes[c].parent = Top => v.nodes[c].depth = 0
           /\ v.nodes[c].parent # Top =>
                 v.nodes[c].parent \in Placed(v) /\ v.nodes[c].depth = v.nodes[v.nodes[c].parent].depth + 1
           /\ v.nodes[c] = [parent |-> v.nodes[c].parent, depth |-> v.nodes[c].depth]
  <1>1. c \in Concepts /\ c # Top
    BY TaxonomyAssumption DEF Placed
  <1> DEFINE o == v.nodes[c].parent
  <1>2. v.nodes[c] = [parent |-> o, depth |-> IF o = Top THEN 0 ELSE v.nodes[o].depth + 1]
    BY DEF IsTree, Under
  <1>3. v.nodes[c].depth = IF o = Top THEN 0 ELSE v.nodes[o].depth + 1
    BY <1>2
  <1>4. (o = Top \/ o \in Placed(v)) /\ v.nodes[c].depth \in Nat
    BY <1>1 DEF IsTree
  <1> QED BY <1>1, <1>2, <1>3, <1>4

\* The descendants are the least set that holds the children and theirs.
LEMMA DescendantsClosed ==
    ASSUME NEW v, NEW c
    PROVE  /\ ChildrenOf(v, c) \subseteq DescendantsOf(v, c)
           /\ \A e \in DescendantsOf(v, c) : ChildrenOf(v, e) \subseteq DescendantsOf(v, c)
           /\ DescendantsOf(v, c) \subseteq Concepts
  <1>1. \A e : ChildrenOf(v, e) \subseteq Concepts
    BY DEF ChildrenOf, Placed
  <1> QED BY <1>1 DEF DescendantsOf

LEMMA DescendantsLeast ==
    ASSUME NEW v, NEW c, NEW S \in SUBSET Concepts, ChildrenOf(v, c) \subseteq S,
           \A e \in S : ChildrenOf(v, e) \subseteq S
    PROVE  DescendantsOf(v, c) \subseteq S
  BY DEF DescendantsOf

\* In a tree they are deeper than the concept, and each hangs under it or another.
LEMMA DescendantsHang ==
    ASSUME NEW v, IsTree(v), NEW c \in Placed(v), NEW d \in DescendantsOf(v, c)
    PROVE  /\ d \in Placed(v) /\ d # c
           /\ v.nodes[d].parent \in DescendantsOf(v, c) \cup {c}
           /\ v.nodes[d].depth > v.nodes[c].depth
  <1> DEFINE below == DescendantsOf(v, c)
             S == {e \in below : /\ e \in Placed(v) /\ v.nodes[e].parent \in below \cup {c}
                                 /\ v.nodes[e].depth > v.nodes[c].depth}
  <1>1. v.nodes[c].depth \in Nat /\ c # Top
    BY OneBelowParent
  <1>2. S \subseteq Concepts
    BY DescendantsClosed
  <1>3. ASSUME NEW e \in ChildrenOf(v, c) PROVE e \in S
    <2>1. e \in Placed(v) /\ v.nodes[e].parent = c /\ e \in below
      BY DescendantsClosed DEF ChildrenOf
    <2>2. v.nodes[e].depth = v.nodes[c].depth + 1
      BY <1>1, <2>1, OneBelowParent
    <2> QED BY <1>1, <2>1, <2>2
  <1>4. ASSUME NEW e \in S, NEW x \in ChildrenOf(v, e) PROVE x \in S
    <2>1. x \in Placed(v) /\ v.nodes[x].parent = e /\ x \in below
      BY DescendantsClosed DEF ChildrenOf
    <2>2. e \in Placed(v) /\ v.nodes[e].depth > v.nodes[c].depth /\ e \in below
      OBVIOUS
    <2>3. v.nodes[x].depth = v.nodes[e].depth + 1 /\ v.nodes[e].depth \in Nat
      BY <2>1, <2>2, OneBelowParent
    <2> QED BY <1>1, <2>1, <2>2, <2>3
  <1>5. below \subseteq S
    <2> HIDE DEF S
    <2> QED BY <1>2, <1>3, <1>4, DescendantsLeast
  <1> QED BY <1>1, <1>5

\* A new leaf: nobody hung under a concept that was not placed.
LEMMA AdditionIsTree ==
    ASSUME NEW v, IsTree(v), NEW c \in Concepts, NEW p \in Concepts \cup {Top}, MayAdd(v, c, p),
           NEW w, w.nodes = [v.nodes EXCEPT ![c] = Under(v, p)]
    PROVE  IsTree(w)
  <1>1. c \notin Placed(v) /\ (p = Top \/ (p \in Placed(v) /\ p # Top))
    <2>1. c \notin Placed(v) /\ (p = Top \/ p \in Placed(v))
      BY DEF MayAdd
    <2>2. Top \notin Placed(v)
      BY TaxonomyAssumption DEF Placed
    <2> QED BY <2>1, <2>2
  <1>2. /\ \A d \in Concepts : w.nodes[d] = IF d = c THEN Under(v, p) ELSE v.nodes[d]
        /\ w.nodes = [d \in Concepts |-> w.nodes[d]]
    BY DEF IsTree
  <1>3. Under(v, p).parent = p /\ Under(v, p).depth \in Nat /\ Under(v, p) # Unplaced
    BY <1>1 DEF IsTree, Under, Placed, Unplaced, Top
  <1>4. Placed(w) = Placed(v) \cup {c}
    BY <1>1, <1>2, <1>3 DEF Placed
  <1>5. ASSUME NEW d \in Placed(w)
        PROVE  /\ w.nodes[d].parent = Top \/ w.nodes[d].parent \in Placed(w)
               /\ w.nodes[d] = Under(w, w.nodes[d].parent)
    <2>1. CASE d = c
      <3>1. w.nodes[d] = Under(v, p) /\ w.nodes[d].parent = p
        BY <1>2, <1>3, <2>1
      <3>2. p # Top => p \in Placed(v) /\ w.nodes[p] = v.nodes[p]
        BY <1>1, <1>2
      <3> QED BY <1>1, <1>4, <3>1, <3>2 DEF Under
    <2>2. CASE d # c
      <3>1. d \in Placed(v) /\ w.nodes[d] = v.nodes[d]
        BY <1>2, <1>4, <2>2 DEF Placed
      <3> DEFINE o == v.nodes[d].parent
      <3>2. (o = Top \/ o \in Placed(v)) /\ v.nodes[d] = Under(v, o)
        BY <3>1 DEF IsTree
      <3>3. o # Top => w.nodes[o] = v.nodes[o]
        BY <1>1, <1>2, <3>2 DEF Placed
      <3> QED BY <1>4, <3>1, <3>2, <3>3 DEF Under
    <2> QED BY <2>1, <2>2
  <1> QED BY <1>2, <1>3, <1>5 DEF IsTree

\* A leaf that goes leaves nobody behind.
LEMMA RemovalIsTree ==
    ASSUME NEW v, IsTree(v), NEW c \in Concepts, MayRemove(v, c),
           NEW w, w.nodes = [v.nodes EXCEPT ![c] = Unplaced]
    PROVE  IsTree(w)
  <1>1. \A d \in Placed(v) : v.nodes[d].parent # c
    BY DEF MayRemove, ChildrenOf
  <1>2. /\ \A d \in Concepts : w.nodes[d] = IF d = c THEN Unplaced ELSE v.nodes[d]
        /\ w.nodes = [d \in Concepts |-> w.nodes[d]]
    BY DEF IsTree
  <1>3. Placed(w) = Placed(v) \ {c}
    BY <1>2 DEF Placed
  <1>4. ASSUME NEW d \in Placed(w)
        PROVE  /\ w.nodes[d].parent = Top \/ w.nodes[d].parent \in Placed(w)
               /\ w.nodes[d] = Under(w, w.nodes[d].parent)
    <2>1. d \in Placed(v) /\ w.nodes[d] = v.nodes[d]
      BY <1>2, <1>3 DEF Placed
    <2> DEFINE o == v.nodes[d].parent
    <2>2. (o = Top \/ o \in Placed(v)) /\ v.nodes[d] = Under(v, o) /\ o # c
      BY <1>1, <2>1 DEF IsTree
    <2>3. o # Top => o \in Placed(w) /\ w.nodes[o] = v.nodes[o]
      BY <1>2, <1>3, <2>2 DEF Placed
    <2> QED BY <2>1, <2>2, <2>3 DEF Under
  <1> QED BY <1>2, <1>4 DEF IsTree, Unplaced

\* The depths derived below a moved node are those of before, shifted as its own:
\* they solve the recursion, and a deepest difference from them would be one above.
LEMMA DepthsBelowShift ==
    ASSUME NEW v, IsTree(v), NEW c \in Placed(v), NEW p \in Placed(v),
           NEW d \in DescendantsOf(v, c) \cup {c}
    PROVE  DepthsBelow(v, c, p)[d] = v.nodes[d].depth + (v.nodes[p].depth + 1) - v.nodes[c].depth
  <1> DEFINE S == DescendantsOf(v, c) \cup {c}
             above(e) == v.nodes[e].parent
             g == [e \in S |-> v.nodes[e].depth + (v.nodes[p].depth + 1) - v.nodes[c].depth]
             f == DepthsBelow(v, c, p)
  <1>1. \A e \in S : e \in Placed(v) /\ v.nodes[e].depth \in Nat
    BY DescendantsHang, OneBelowParent
  <1>2. v.nodes[p].depth \in Nat /\ v.nodes[c].depth \in Nat
    BY OneBelowParent
  <1>3. \A e \in S : e # c => above(e) \in S /\ v.nodes[e].depth = v.nodes[above(e)].depth + 1
    <2> SUFFICES ASSUME NEW e \in S, e # c
                 PROVE  above(e) \in S /\ v.nodes[e].depth = v.nodes[above(e)].depth + 1
      OBVIOUS
    <2>1. above(e) \in S /\ e \in Placed(v)
      BY <1>1, DescendantsHang
    <2>2. above(e) # Top
      BY <1>1, <2>1, OneBelowParent
    <2> QED BY <2>1, <2>2, OneBelowParent
  <1>4. g = [e \in S |-> IF e = c THEN v.nodes[p].depth + 1 ELSE g[above(e)] + 1]
    <2>1. \A e \in S : g[e] = IF e = c THEN v.nodes[p].depth + 1 ELSE g[above(e)] + 1
      BY <1>1, <1>2, <1>3
    <2> QED BY <2>1
  <1>5. f = [e \in S |-> IF e = c THEN v.nodes[p].depth + 1 ELSE f[above(e)] + 1]
    <2> HIDE DEF g
    <2> QED BY <1>4 DEF DepthsBelow
  <1> DEFINE D == {v.nodes[e].depth : e \in {e \in S : f[e] # g[e]}}
  <1>6. D = {}
    <2> SUFFICES ASSUME D # {} PROVE FALSE
      OBVIOUS
    <2>1. D \subseteq Nat
      BY <1>1
    <2>2. PICK n \in D : \A m \in D : n <= m
      <3> HIDE DEF D
      <3> QED BY <2>1, HasLeast
    <2>3. PICK e \in S : f[e] # g[e] /\ v.nodes[e].depth = n
      BY <2>2
    <2>4. e # c
      BY <1>4, <1>5, <2>3
    <2>5. above(e) \in S /\ v.nodes[e].depth = v.nodes[above(e)].depth + 1
      BY <1>3, <2>3, <2>4
    <2>6. f[above(e)] = g[above(e)]
      <3>1. v.nodes[above(e)].depth < n /\ v.nodes[above(e)].depth \in Nat
        BY <1>1, <2>3, <2>5
      <3>2. f[above(e)] # g[above(e)] => v.nodes[above(e)].depth \in D
        BY <2>5
      <3>3. n \in Nat
        BY <2>1, <2>2
      <3> HIDE DEF D, f, g
      <3> QED BY <2>2, <3>1, <3>2, <3>3
    <2>7. f[e] = f[above(e)] + 1 /\ g[e] = g[above(e)] + 1
      BY <1>4, <1>5, <2>4, <2>3
    <2> QED BY <2>3, <2>6, <2>7
  <1> QED BY <1>6

\* A move keeps everything under the moved node, one deeper than its parent.
LEMMA MoveIsTree ==
    ASSUME NEW v, IsTree(v), NEW c \in Concepts, NEW p \in Concepts, c # p, MovesOn(v, c, p),
           NEW w, w.nodes = Reparented(v, c, p)
    PROVE  IsTree(w)
  <1> DEFINE below == DescendantsOf(v, c)
             f == DepthsBelow(v, c, p)
  <1>1. c \in Placed(v) /\ p \in Placed(v) /\ p \notin below /\ p # Top
    BY TaxonomyAssumption DEF MovesOn
  <1>2. /\ \A d \in Concepts : w.nodes[d] =
              IF d = c THEN [parent |-> p, depth |-> f[c]]
              ELSE IF d \in below THEN [v.nodes[d] EXCEPT !.depth = f[d]] ELSE v.nodes[d]
        /\ w.nodes = [d \in Concepts |-> w.nodes[d]]
    BY DEF Reparented
  <1>3. v.nodes[p].depth \in Nat /\ v.nodes[c].depth \in Nat
    BY <1>1, OneBelowParent
  <1>4. f[c] = v.nodes[p].depth + 1
    BY <1>1, <1>3, DepthsBelowShift
  <1>5. ASSUME NEW d \in below
        PROVE  /\ d \in Placed(v) /\ d # c /\ d \in Concepts /\ f[d] \in Nat /\ f[d] # 0
               /\ v.nodes[d].parent \in below \cup {c} /\ v.nodes[d].parent \in Concepts
               /\ f[d] = f[v.nodes[d].parent] + 1
               /\ w.nodes[d] = [parent |-> v.nodes[d].parent, depth |-> f[d]]
               /\ w.nodes[d].depth = f[d]
    <2> DEFINE o == v.nodes[d].parent
    <2>1. d \in Placed(v) /\ d # c /\ o \in below \cup {c} /\ v.nodes[d].depth > v.nodes[c].depth
      BY <1>1, DescendantsHang
    <2>2. o \in Concepts /\ d \in Concepts
      BY <1>1, <2>1, DescendantsClosed
    <2>3. /\ o # Top /\ v.nodes[d].depth = v.nodes[o].depth + 1 /\ v.nodes[d].depth \in Nat
          /\ v.nodes[d] = [parent |-> o, depth |-> v.nodes[d].depth]
      BY <2>1, <2>2, TaxonomyAssumption, OneBelowParent
    <2>4. v.nodes[o].depth \in Nat
      BY <2>2 DEF IsTree
    <2>5. /\ f[d] = v.nodes[d].depth + (v.nodes[p].depth + 1) - v.nodes[c].depth
          /\ f[o] = v.nodes[o].depth + (v.nodes[p].depth + 1) - v.nodes[c].depth
      BY <1>1, <2>1, DepthsBelowShift
    <2>6. w.nodes[d] = [v.nodes[d] EXCEPT !.depth = f[d]]
      BY <1>2, <2>1, <2>2
    <2> HIDE DEF f
    <2> QED BY <1>3, <2>1, <2>2, <2>3, <2>4, <2>5, <2>6
  <1>6. /\ w.nodes[c] = [parent |-> p, depth |-> v.nodes[p].depth + 1]
        /\ w.nodes[c].depth = v.nodes[p].depth + 1
    <2>1. w.nodes[c] = [parent |-> p, depth |-> v.nodes[p].depth + 1]
      BY <1>2, <1>4
    <2> QED BY <2>1
  <1>7. \A d \in Concepts \ (below \cup {c}) : w.nodes[d] = v.nodes[d]
    BY <1>2
  <1> HIDE DEF f
  <1>8. Placed(w) = Placed(v)
    <2>1. w.nodes[c].depth # 0 /\ \A d \in below : w.nodes[d].depth # 0
      <3>1. v.nodes[p].depth + 1 # 0
        BY <1>3
      <3> QED BY <1>5, <1>6, <3>1
    <2>2. Unplaced.depth = 0
      BY DEF Unplaced
    <2> QED BY <1>1, <1>5, <1>7, <2>1, <2>2 DEF Placed
  <1>9. ASSUME NEW d \in Placed(w)
        PROVE  /\ w.nodes[d].parent = Top \/ w.nodes[d].parent \in Placed(w)
               /\ w.nodes[d] = Under(w, w.nodes[d].parent)
    <2>1. CASE d = c
      <3>1. w.nodes[p] = v.nodes[p]
        BY <1>1, <1>7
      <3> QED BY <1>1, <1>6, <1>8, <2>1, <3>1 DEF Under
    <2>2. CASE d \in below
      <3> DEFINE o == v.nodes[d].parent
      <3>1. /\ w.nodes[d] = [parent |-> o, depth |-> f[o] + 1]
            /\ o \in below \cup {c}
        BY <1>5, <2>2
      <3>2. w.nodes[o].depth = f[o] /\ o \in Placed(v) /\ o # Top
        <4>1. CASE o = c
          BY <1>1, <1>4, <1>6, <4>1, OneBelowParent
        <4>2. CASE o \in below
          <5>1. o \in Placed(v) /\ w.nodes[o].depth = f[o]
            BY <1>5, <4>2
          <5> QED BY <5>1, OneBelowParent
        <4> QED BY <3>1, <4>1, <4>2
      <3> QED BY <1>8, <3>1, <3>2 DEF Under
    <2>3. CASE d \notin below \cup {c}
      <3> DEFINE o == v.nodes[d].parent
      <3>1. d \in Placed(v) /\ w.nodes[d] = v.nodes[d] /\ d \in Concepts
        BY <1>7, <1>8, <2>3 DEF Placed
      <3>2. (o = Top \/ o \in Placed(v)) /\ v.nodes[d] = Under(v, o)
        BY <3>1 DEF IsTree
      <3>3. o \notin below \cup {c}
        <4>1. d \in ChildrenOf(v, o)
          BY <3>1 DEF ChildrenOf
        <4> QED BY <2>3, <4>1, DescendantsClosed
      <3>4. o # Top => w.nodes[o] = v.nodes[o]
        BY <1>7, <3>2, <3>3 DEF Placed
      <3> QED BY <1>8, <3>1, <3>2, <3>4 DEF Under
    <2> QED BY <2>1, <2>2, <2>3
  <1>10. \A d \in Concepts : w.nodes[d].depth \in Nat
    <2> TAKE d \in Concepts
    <2>1. CASE d \in below
      BY <1>5, <2>1
    <2>2. CASE d = c
      BY <1>3, <1>6, <2>2
    <2>3. CASE d \notin below \cup {c}
      BY <1>7, <2>3 DEF IsTree
    <2> QED BY <2>1, <2>2, <2>3
  <1> QED BY <1>2, <1>9, <1>10 DEF IsTree

\* Whatever one command makes of a tree is a tree.
LEMMA EditIsTree ==
    ASSUME NEW v, IsVersion(v), IsTree(v), NEW w \in EditsOf(v)
    PROVE  IsTree(w)
  <1>1. ASSUME NEW nodes, w = [v EXCEPT !.nodes = nodes] PROVE w.nodes = nodes
    BY <1>1 DEF IsVersion
  <1>2. CASE w \in Additions(v)
    <2>1. PICK c \in Concepts, p \in Concepts \cup {Top} :
              MayAdd(v, c, p) /\ w = [v EXCEPT !.nodes[c] = Under(v, p)]
      BY <1>2 DEF Additions
    <2>2. w.nodes = [v.nodes EXCEPT ![c] = Under(v, p)]
      BY <2>1 DEF IsVersion
    <2>3. MayAdd(v, c, p)
      BY <2>1
    <2> QED BY <2>2, <2>3, AdditionIsTree
  <1>3. CASE w \in Moves(v)
    <2>1. PICK m \in Concepts \X Concepts :
              m[1] # m[2] /\ MovesOn(v, m[1], m[2]) /\ w = [v EXCEPT !.nodes = Reparented(v, m[1], m[2])]
      BY <1>3 DEF Moves
    <2>2. w.nodes = Reparented(v, m[1], m[2])
      BY <1>1, <2>1
    <2> QED BY <2>1, <2>2, MoveIsTree
  <1>4. CASE w \in Removals(v)
    <2>1. PICK c \in Concepts : MayRemove(v, c) /\ w = [v EXCEPT !.nodes[c] = Unplaced]
      BY <1>4 DEF Removals
    <2>2. w.nodes = [v.nodes EXCEPT ![c] = Unplaced]
      BY <2>1 DEF IsVersion
    <2> QED BY <2>1, <2>2, RemovalIsTree
  <1>5. CASE w \in Requirements(v) \cup Publications(v)
    <2>1. w.nodes = v.nodes
      BY <1>5 DEF Requirements, Publications, IsVersion
    <2>2. Placed(w) = Placed(v)
      BY <2>1 DEF Placed
    <2> QED BY <2>1, <2>2 DEF IsTree, Under
  <1> QED BY <1>2, <1>3, <1>4, <1>5 DEF EditsOf

\* However often nodes are added, moved and removed, for any concepts and any number
\* of curators, what is stored is a tree and its depths follow from it: the moves of
\* taxonomy-version.ts derive again every depth they change, and a save writes one
\* edit of what it read whole.
THEOREM DepthsFollowAlways == TaxonomySpec => []DepthsFollow
  <1>1. TaxonomyInit => IsTree(syllabus)
    BY DEF TaxonomyInit, IsTree, Placed, Unplaced
  <1>2. TaxonomyIInv /\ IsTree(syllabus) /\ [TaxonomyNext]_taxonomyVars => IsTree(syllabus)'
    <2> SUFFICES ASSUME TaxonomyIInv, IsTree(syllabus), [TaxonomyNext]_taxonomyVars
                 PROVE  IsTree(syllabus')
      BY DEF IsTree, Placed, Under
    <2>1. syllabus' = syllabus \/ syllabus' \in EditsOf(syllabus)
      BY SaveIsAnEdit DEF taxonomyVars, TaxonomyNext, ReadsVersion, ReadsNodes, Edits, IsRefused,
         MovesUnderItself, DerivesAgain, Conflicts
    <2>2. CASE syllabus' = syllabus
      BY <2>2
    <2>3. CASE syllabus' \in EditsOf(syllabus)
      BY <2>3, EditIsTree DEF TaxonomyIInv
    <2> QED BY <2>1, <2>2, <2>3
  <1> QED BY <1>1, <1>2, DepthsFollowFromTree, TaxonomyInvariant, PTL DEF TaxonomySpec

-----------------------------------------------------------------------------
(* The profiles of a year *)

Rows == [state : {"none", "draft", "published", "superseded"}, total : Marks, sections : Marks,
         hash : Marks \cup {NoHash}, active : BOOLEAN, saves : Nat]

Serving == [step : {"row", "loaded", "publishable", "saves"},
            op : {"update", "publish", "activate", "supersede"}, on : Profiles, holds : Rows]

ProfilesType ==
    /\ profile \in [Profiles -> Rows]
    /\ request \in [ProfileRequests -> {NoRequest} \cup Serving]

\* What may be stored of one profile.
RowIsSound(r) ==
    /\ r.state = "none" => r.saves = 0
    /\ r.active => r.state = "published"
    /\ r.state \in {"published", "superseded"} => r.total = r.sections /\ r.hash = r.total

\* What a request would make of the row it has read.
Drafts(r, h) == r.state = "draft" /\ h.state = "draft" /\ ~h.active
Published(r, h) ==
    /\ r.state = "draft" /\ h.state = "published"
    /\ h.total = r.total /\ r.sections = r.total /\ h.hash = r.total
Superseded(r, h) ==
    /\ r.state = "published" /\ h.state = "superseded" /\ ~h.active
    /\ h.total = r.total /\ h.hash = r.hash

\* What a request holds of the row it works on is current unless the row was saved.
HoldsAs(does, r) ==
    /\ does.holds.saves <= r.saves
    /\ does.holds.saves = r.saves =>
          /\ does.step \in {"row", "loaded"} => does.holds = r
          /\ does.step = "publishable" => Published(r, does.holds)
          /\ does.step = "saves" =>
                Drafts(r, does.holds) \/ Published(r, does.holds) \/ Superseded(r, does.holds)

RequestIsCurrent(q) ==
    request[q] # NoRequest => HoldsAs(request[q], profile[request[q].on])

ProfilesIInv ==
    /\ ProfilesType
    /\ \A p \in Profiles : RowIsSound(profile[p])
    /\ \A p, r \in Active : p = r
    /\ \A q \in ProfileRequests : RequestIsCurrent(q)

LEMMA ProfilesInitInv == ProfilesInit => ProfilesIInv
  <1> SUFFICES ASSUME ProfilesInit PROVE ProfilesIInv
    OBVIOUS
  <1>1. PICK marks \in Marks : profile = [p \in Profiles |-> NoProfile(marks)]
    BY DEF ProfilesInit
  <1>2. NoProfile(marks) \in Rows /\ RowIsSound(NoProfile(marks)) /\ ~NoProfile(marks).active
    BY DEF NoProfile, Rows, RowIsSound
  <1>3. Active = {}
    BY <1>1, <1>2 DEF Active
  <1>4. ProfilesType /\ \A q \in ProfileRequests : RequestIsCurrent(q)
    BY <1>1, <1>2 DEF ProfilesInit, ProfilesType, RequestIsCurrent
  <1> QED BY <1>1, <1>2, <1>3, <1>4 DEF ProfilesIInv

\* A request that is being served is the record its step makes it.
LEMMA IsServing ==
    ASSUME ProfilesIInv, NEW q \in ProfileRequests,
           request[q].step \in {"row", "loaded", "publishable", "saves"}
    PROVE  /\ request[q] \in Serving /\ request[q] # NoRequest
           /\ HoldsAs(request[q], profile[request[q].on])
           /\ profile[request[q].on] \in Rows /\ RowIsSound(profile[request[q].on])
  <1>1. request[q] \in {NoRequest} \cup Serving /\ RequestIsCurrent(q) /\ profile \in [Profiles -> Rows]
    BY DEF ProfilesIInv, ProfilesType
  <1>2. request[q] # NoRequest
    BY DEF NoRequest
  <1>3. request[q] \in Serving
    BY <1>1, <1>2
  <1>4. request[q].on \in Profiles
    BY <1>3 DEF Serving
  <1> QED BY <1>1, <1>2, <1>3, <1>4 DEF RequestIsCurrent, ProfilesIInv

\* One request steps and no row is saved: the others hold what they held.
LEMMA RequestSteps ==
    ASSUME ProfilesIInv, NEW q \in ProfileRequests, NEW does, Requests(q, does),
           profile' = profile, does \in {NoRequest} \cup Serving,
           does # NoRequest => HoldsAs(does, profile[does.on])
    PROVE  ProfilesIInv'
  <1>1. request' = [request EXCEPT ![q] = does]
    BY DEF Requests
  <1>2. ProfilesType'
    BY <1>1 DEF ProfilesIInv, ProfilesType
  <1>3. \A o \in ProfileRequests : RequestIsCurrent(o)'
    <2> TAKE o \in ProfileRequests
    <2>1. CASE o = q
      <3>1. request'[o] = does
        BY <1>1, <2>1 DEF ProfilesIInv, ProfilesType
      <3> QED BY <3>1 DEF RequestIsCurrent
    <2>2. CASE o # q
      <3>1. request'[o] = request[o] /\ RequestIsCurrent(o)
        BY <1>1, <2>2 DEF ProfilesIInv, ProfilesType
      <3> QED BY <3>1 DEF RequestIsCurrent
    <2> QED BY <2>1, <2>2
  <1>4. (\A p \in Profiles : RowIsSound(profile[p]))' /\ (\A p, r \in Active : p = r)'
    BY DEF ProfilesIInv, Active
  <1> QED BY <1>2, <1>3, <1>4 DEF ProfilesIInv

\* One row is saved: who holds it from before is no longer current, the others are.
LEMMA RowSteps ==
    ASSUME ProfilesIInv, NEW p \in Profiles, NEW r \in Rows, RowIsSound(r),
           profile' = [profile EXCEPT ![p] = r], r.saves = profile[p].saves + 1,
           r.active => Active \subseteq {p},
           \A q \in ProfileRequests : request'[q] = request[q] \/ request'[q] = NoRequest,
           request' \in [ProfileRequests -> {NoRequest} \cup Serving]
    PROVE  ProfilesIInv'
  <1>1. profile' \in [Profiles -> Rows] /\ profile'[p] = r
    BY DEF ProfilesIInv, ProfilesType
  <1>2. \A o \in Profiles : o # p => profile'[o] = profile[o]
    BY DEF ProfilesIInv, ProfilesType
  <1>3. \A o \in Profiles : RowIsSound(profile[o])'
    BY <1>1, <1>2 DEF ProfilesIInv, RowIsSound
  <1>4. (\A o, t \in Active : o = t)'
    BY <1>1, <1>2 DEF ProfilesIInv, Active
  <1>5. ASSUME NEW q \in ProfileRequests, request'[q] # NoRequest PROVE RequestIsCurrent(q)'
    <2>1. request'[q] = request[q] /\ request[q] \in Serving
      BY <1>5 DEF ProfilesIInv, ProfilesType
    <2>2. request[q].on \in Profiles /\ request[q].holds.saves \in Nat /\ profile[p].saves \in Nat
      BY <2>1 DEF Serving, Rows, ProfilesIInv, ProfilesType
    <2>3. HoldsAs(request[q], profile[request[q].on])
      BY <1>5, <2>1 DEF ProfilesIInv, RequestIsCurrent
    <2>4. CASE request[q].on # p
      BY <1>2, <2>1, <2>2, <2>3, <2>4 DEF RequestIsCurrent
    <2>5. CASE request[q].on = p
      <3>1. request[q].holds.saves <= profile[p].saves
        BY <2>3, <2>5 DEF HoldsAs
      <3>2. request[q].holds.saves < r.saves
        BY <3>1, <2>2
      <3>3. r.saves \in Nat
        BY DEF Rows
      <3>4. HoldsAs(request[q], r)
        BY <3>2, <3>3, <2>2 DEF HoldsAs
      <3> QED BY <1>1, <2>1, <2>5, <3>4 DEF RequestIsCurrent
    <2> QED BY <2>4, <2>5
  <1>6. \A q \in ProfileRequests : RequestIsCurrent(q)'
    BY <1>5 DEF RequestIsCurrent
  <1>7. ProfilesType'
    BY <1>1 DEF ProfilesType
  <1> QED BY <1>3, <1>4, <1>6, <1>7 DEF ProfilesIInv

LEMMA ProfileIsDraftedStep ==
    ASSUME ProfilesIInv, NEW p \in Profiles, ProfileIsDrafted(p)
    PROVE  ProfilesIInv'
  <1>1. PICK total \in Marks, sum \in Marks :
            profile' = [profile EXCEPT ![p] =
                [NoProfile(total) EXCEPT !.state = "draft", !.sections = sum, !.saves = 1]]
    BY DEF ProfileIsDrafted
  <1> DEFINE r == [NoProfile(total) EXCEPT !.state = "draft", !.sections = sum, !.saves = 1]
  <1>2. r \in Rows /\ RowIsSound(r) /\ ~r.active /\ r.saves = 1
    BY DEF NoProfile, Rows, RowIsSound
  <1>3. profile[p].saves = 0 /\ request' = request
    BY DEF ProfileIsDrafted, ProfilesIInv, RowIsSound
  <1>4. profile' = [profile EXCEPT ![p] = r]
    BY <1>1
  <1> HIDE DEF r
  <1>5. r.saves = profile[p].saves + 1
    BY <1>2, <1>3
  <1>6. request' \in [ProfileRequests -> {NoRequest} \cup Serving]
    BY <1>3 DEF ProfilesIInv, ProfilesType
  <1> QED BY <1>2, <1>3, <1>4, <1>5, <1>6, RowSteps

LEMMA ReadsRowStep ==
    ASSUME ProfilesIInv, NEW q \in ProfileRequests, NEW p \in Profiles, ReadsRow(q, p)
    PROVE  ProfilesIInv'
  <1>1. PICK op \in {"update", "publish", "activate", "supersede"} :
            Requests(q, [step |-> "row", op |-> op, on |-> p, holds |-> profile[p]])
    BY DEF ReadsRow
  <1> DEFINE does == [step |-> "row", op |-> op, on |-> p, holds |-> profile[p]]
  <1>2. profile[p] \in Rows /\ profile' = profile
    BY DEF ProfilesIInv, ProfilesType, ReadsRow
  <1>3. does \in Serving /\ does.on = p
    BY <1>2 DEF Serving
  <1>4. HoldsAs(does, profile[p])
    BY <1>2 DEF HoldsAs, Rows
  <1> QED BY <1>1, <1>2, <1>3, <1>4, RequestSteps

LEMMA ReadsSectionsStep ==
    ASSUME ProfilesIInv, NEW q \in ProfileRequests, ReadsSections(q)
    PROVE  ProfilesIInv'
  <1> DEFINE r == profile[request[q].on]
             does == [request[q] EXCEPT !.step = "loaded", !.holds.sections = r.sections]
  <1>1. request[q].step = "row" /\ Requests(q, does) /\ profile' = profile
    BY DEF ReadsSections
  <1>2. request[q] \in Serving /\ HoldsAs(request[q], r) /\ r \in Rows
    BY <1>1, IsServing
  <1>3. /\ does \in Serving /\ does.on = request[q].on /\ does.step = "loaded"
        /\ does.holds = [request[q].holds EXCEPT !.sections = r.sections]
        /\ request[q].holds \in Rows
    BY <1>2 DEF Serving, Rows
  <1>4. does.holds.saves = request[q].holds.saves
    BY <1>3 DEF Rows
  <1>5. does.holds.saves = r.saves => does.holds = r
    BY <1>1, <1>2, <1>3, <1>4 DEF HoldsAs, Rows
  <1>6. HoldsAs(does, r)
    BY <1>2, <1>3, <1>4, <1>5 DEF HoldsAs
  <1> QED BY <1>1, <1>3, <1>6, RequestSteps

LEMMA RequestEnds ==
    ASSUME ProfilesIInv, NEW q \in ProfileRequests, Requests(q, NoRequest), profile' = profile
    PROVE  ProfilesIInv'
  BY RequestSteps

LEMMA RewritesStep ==
    ASSUME ProfilesIInv, NEW q \in ProfileRequests, Rewrites(q)
    PROVE  ProfilesIInv'
  <1>1. PICK total \in Marks, sum \in Marks :
            Requests(q, [request[q] EXCEPT !.step = "saves", !.holds.total = total, !.holds.sections = sum])
    BY DEF Rewrites
  <1> DEFINE r == profile[request[q].on]
             h == request[q].holds
             does == [request[q] EXCEPT !.step = "saves", !.holds.total = total, !.holds.sections = sum]
  <1>2. request[q].step = "loaded" /\ h.state = "draft" /\ profile' = profile
    BY DEF Rewrites
  <1>3. request[q] \in Serving /\ HoldsAs(request[q], r) /\ r \in Rows /\ RowIsSound(r)
    BY <1>2, IsServing
  <1>4. h \in Rows /\ does \in Serving /\ does.on = request[q].on /\ does.step = "saves"
    BY <1>3 DEF Serving, Rows
  <1>5. does.holds = [h EXCEPT !.total = total, !.sections = sum]
    BY <1>3, <1>4 DEF Serving, Rows
  <1>6. does.holds.saves = h.saves /\ does.holds.state = h.state /\ does.holds.active = h.active
    BY <1>4, <1>5 DEF Rows
  <1>7. h.saves = r.saves => Drafts(r, does.holds)
    BY <1>2, <1>3, <1>6 DEF HoldsAs, Drafts, RowIsSound
  <1>8. HoldsAs(does, r)
    BY <1>3, <1>4, <1>6, <1>7 DEF HoldsAs
  <1> QED BY <1>1, <1>2, <1>4, <1>8, RequestSteps

LEMMA PublishesStep ==
    ASSUME ProfilesIInv, NEW q \in ProfileRequests, Publishes(q)
    PROVE  ProfilesIInv'
  <1> DEFINE r == profile[request[q].on]
             h == request[q].holds
             next == IF request[q].op = "activate" THEN "publishable" ELSE "saves"
             does == [request[q] EXCEPT !.step = next, !.holds.state = "published", !.holds.hash = h.total]
  <1>1. /\ request[q].step = "loaded" /\ h.state = "draft" /\ h.total = h.sections
        /\ Requests(q, does) /\ profile' = profile
    BY DEF Publishes, MayPublish
  <1>2. request[q] \in Serving /\ HoldsAs(request[q], r) /\ r \in Rows /\ RowIsSound(r)
    BY <1>1, IsServing
  <1>3. h \in Rows /\ does \in Serving /\ does.on = request[q].on /\ does.step = next
    BY <1>2 DEF Serving, Rows
  <1>4. does.holds = [h EXCEPT !.state = "published", !.hash = h.total]
    BY <1>2, <1>3 DEF Serving, Rows
  <1> HIDE DEF does, h
  <1>5. /\ does.holds.saves = h.saves /\ does.holds.state = "published"
        /\ does.holds.total = h.total /\ does.holds.hash = h.total
    BY <1>3, <1>4 DEF Rows
  <1>6. h.saves = r.saves => Published(r, does.holds)
    BY <1>1, <1>2, <1>5 DEF h, HoldsAs, Published
  <1>7. HoldsAs(does, r)
    BY <1>2, <1>3, <1>5, <1>6 DEF h, HoldsAs
  <1> QED BY <1>1, <1>3, <1>7, RequestSteps

LEMMA ActivatesStep ==
    ASSUME ProfilesIInv, NEW q \in ProfileRequests, Activates(q)
    PROVE  ProfilesIInv'
  <1> DEFINE r == profile[request[q].on]
             h == request[q].holds
             does == [request[q] EXCEPT !.step = "saves", !.holds.active = TRUE]
  <1>1. request[q].step = "publishable" /\ Requests(q, does) /\ profile' = profile
    BY DEF Activates
  <1>2. request[q] \in Serving /\ HoldsAs(request[q], r) /\ r \in Rows
    BY <1>1, IsServing
  <1>3. h \in Rows /\ does \in Serving /\ does.on = request[q].on /\ does.step = "saves"
    BY <1>2 DEF Serving, Rows
  <1>4. does.holds = [h EXCEPT !.active = TRUE]
    BY <1>2, <1>3 DEF Serving, Rows
  <1> HIDE DEF does, h
  <1>5. /\ does.holds.saves = h.saves /\ does.holds.state = h.state
        /\ does.holds.total = h.total /\ does.holds.hash = h.hash
    BY <1>3, <1>4 DEF Rows
  <1>6. h.saves = r.saves => Published(r, does.holds)
    BY <1>1, <1>2, <1>5 DEF h, HoldsAs, Published
  <1>7. HoldsAs(does, r)
    BY <1>2, <1>3, <1>5, <1>6 DEF h, HoldsAs
  <1> QED BY <1>1, <1>3, <1>7, RequestSteps

LEMMA SupersedesStep ==
    ASSUME ProfilesIInv, NEW q \in ProfileRequests, Supersedes(q)
    PROVE  ProfilesIInv'
  <1> DEFINE r == profile[request[q].on]
             h == request[q].holds
             does == [request[q] EXCEPT !.step = "saves", !.holds.state = "superseded", !.holds.active = FALSE]
  <1>1. request[q].step = "loaded" /\ h.state = "published" /\ Requests(q, does) /\ profile' = profile
    BY DEF Supersedes
  <1>2. request[q] \in Serving /\ HoldsAs(request[q], r) /\ r \in Rows
    BY <1>1, IsServing
  <1>3. h \in Rows /\ does \in Serving /\ does.on = request[q].on /\ does.step = "saves"
    BY <1>2 DEF Serving, Rows
  <1>4. does.holds = [h EXCEPT !.state = "superseded", !.active = FALSE]
    BY <1>2, <1>3 DEF Serving, Rows
  <1> HIDE DEF does, h
  <1>5. /\ does.holds.saves = h.saves /\ does.holds.state = "superseded" /\ ~does.holds.active
        /\ does.holds.total = h.total /\ does.holds.hash = h.hash
    BY <1>3, <1>4 DEF Rows
  <1>6. h.saves = r.saves => Superseded(r, does.holds)
    BY <1>1, <1>2, <1>5 DEF h, HoldsAs, Superseded
  <1>7. HoldsAs(does, r)
    BY <1>2, <1>3, <1>5, <1>6 DEF h, HoldsAs
  <1> QED BY <1>1, <1>3, <1>7, RequestSteps

\* What a save writes is sound: the row is the one the request was made from.
LEMMA SavesProfileStep ==
    ASSUME ProfilesIInv, NEW q \in ProfileRequests, SavesProfile(q)
    PROVE  ProfilesIInv'
  <1> DEFINE p == request[q].on
             r == profile[p]
             h == request[q].holds
             sum == IF h.state = "draft" THEN h.sections ELSE r.sections
             w == [h EXCEPT !.sections = sum, !.saves = r.saves + 1]
  <1>1. /\ request[q].step = "saves" /\ h.saves = r.saves
        /\ profile' = [profile EXCEPT ![p] = w] /\ Requests(q, NoRequest)
        /\ h.active => Active \subseteq {p}
    BY DEF SavesProfile, IsAsSeen, ActiveIsUnique
  <1>2. request[q] \in Serving /\ HoldsAs(request[q], r) /\ r \in Rows /\ RowIsSound(r)
    BY <1>1, IsServing
  <1>3. p \in Profiles /\ h \in Rows
    BY <1>2 DEF Serving
  <1> HIDE DEF p, r, h
  <1>4. w \in Rows /\ w.saves = r.saves + 1 /\ w.sections = sum
    <2>1. sum \in Marks /\ r.saves + 1 \in Nat
      BY <1>2, <1>3 DEF Rows
    <2> HIDE DEF sum
    <2> QED BY <1>3, <2>1 DEF Rows
  <1>5. w.state = h.state /\ w.total = h.total /\ w.hash = h.hash /\ w.active = h.active
    BY <1>3 DEF Rows
  <1>6. Drafts(r, h) \/ Published(r, h) \/ Superseded(r, h)
    BY <1>1, <1>2 DEF HoldsAs, p, r, h
  <1>7. RowIsSound(w)
    <2>1. CASE Drafts(r, h)
      BY <1>4, <1>5, <2>1 DEF Drafts, RowIsSound
    <2>2. CASE Published(r, h)
      BY <1>4, <1>5, <2>2 DEF Published, RowIsSound
    <2>3. CASE Superseded(r, h)
      BY <1>2, <1>4, <1>5, <2>3 DEF Superseded, RowIsSound
    <2> QED BY <1>6, <2>1, <2>2, <2>3
  <1>8. request' = [request EXCEPT ![q] = NoRequest]
    BY <1>1 DEF Requests
  <1>9. /\ request' \in [ProfileRequests -> {NoRequest} \cup Serving]
        /\ \A o \in ProfileRequests : request'[o] = request[o] \/ request'[o] = NoRequest
    BY <1>8 DEF ProfilesIInv, ProfilesType
  <1> HIDE DEF w, sum
  <1> QED BY <1>1, <1>3, <1>4, <1>5, <1>7, <1>9, RowSteps DEF w, r, p

LEMMA ProfilesStep == ProfilesIInv /\ [ProfilesNext]_profileVars => ProfilesIInv'
  <1> SUFFICES ASSUME ProfilesIInv, [ProfilesNext]_profileVars PROVE ProfilesIInv'
    OBVIOUS
  <1>1. CASE UNCHANGED <<profile, request>>
    BY <1>1 DEF ProfilesIInv, ProfilesType, Active, RowIsSound, RequestIsCurrent
  <1>2. ASSUME TaxonomyIsPublished PROVE ProfilesIInv'
    BY <1>1, <1>2 DEF TaxonomyIsPublished
  <1>3. ASSUME NEW p \in Profiles, ProfileIsDrafted(p) PROVE ProfilesIInv'
    BY <1>3, ProfileIsDraftedStep
  <1>4. ASSUME NEW q \in ProfileRequests, NEW p \in Profiles, ReadsRow(q, p) PROVE ProfilesIInv'
    BY <1>4, ReadsRowStep
  <1>5. ASSUME NEW q \in ProfileRequests, ReadsSections(q) PROVE ProfilesIInv'
    BY <1>5, ReadsSectionsStep
  <1>6. ASSUME NEW q \in ProfileRequests, Rewrites(q) PROVE ProfilesIInv'
    BY <1>6, RewritesStep
  <1>7. ASSUME NEW q \in ProfileRequests, Publishes(q) PROVE ProfilesIInv'
    BY <1>7, PublishesStep
  <1>8. ASSUME NEW q \in ProfileRequests, Activates(q) PROVE ProfilesIInv'
    BY <1>8, ActivatesStep
  <1>9. ASSUME NEW q \in ProfileRequests, Supersedes(q) PROVE ProfilesIInv'
    BY <1>9, SupersedesStep
  <1>10. ASSUME NEW q \in ProfileRequests, Refuses(q) \/ SaveIsRefused(q) PROVE ProfilesIInv'
    BY <1>10, RequestEnds DEF Refuses, SaveIsRefused
  <1>11. ASSUME NEW q \in ProfileRequests, SavesProfile(q) PROVE ProfilesIInv'
    BY <1>11, SavesProfileStep
  <1> QED BY <1>1, <1>2, <1>3, <1>4, <1>5, <1>6, <1>7, <1>8, <1>9, <1>10, <1>11
          DEF ProfilesNext, profileVars

\* What every request holds is current or refused, and every stored profile is sound.
THEOREM ProfilesInvariant == ProfilesSpec => []ProfilesIInv
  BY ProfilesInitInv, ProfilesStep, PTL DEF ProfilesSpec

\* A published profile adds up for any number of requests, profiles and marks:
\* publicationPreconditions over rows read apart, and the update's expected version.
THEOREM PublishedAddsUpAlways == ProfilesSpec => []PublishedAddsUp
  <1>1. ProfilesIInv => PublishedAddsUp
    BY DEF ProfilesIInv, RowIsSound, PublishedAddsUp
  <1> QED BY <1>1, ProfilesInvariant, PTL

\* One profile of the year is active, and a published one, however many requests
\* activate at once: Exam.activateProfileVersion and the unique index.
THEOREM OneActivePerYearAlways == ProfilesSpec => []OneActivePerYear
  <1>1. ProfilesIInv => OneActivePerYear
    BY DEF ProfilesIInv, RowIsSound, OneActivePerYear, Active
  <1> QED BY <1>1, ProfilesInvariant, PTL

-----------------------------------------------------------------------------
(* A migration *)

IsMigration(g) ==
    /\ g = [state |-> g.state, mappings |-> g.mappings, preview |-> g.preview,
            covers |-> g.covers, saves |-> g.saves]
    /\ g.saves \in Nat /\ g.state \in {"draft", "executing", "executed"}
    /\ g.mappings \in Seq(Mapping)

IsMigrator(w) ==
    w \in [step : {"rest", "row", "mappings", "saves", "runs", "chunks"}, op : {w.op}, saw : Nat,
           state : {w.state}, preview : {w.preview}, covers : {w.covers},
           mappings : Seq(Mapping), todo : {w.todo}]

\* What a request would make of the migration it has read.
Extends(g, w) ==
    /\ g.state = "draft" /\ w.state = "draft" /\ w.preview = g.preview
    /\ w.preview = "resolved" => Settled(w.covers, w.mappings)
Previews(g, w) ==
    /\ w.state = g.state /\ w.mappings = g.mappings
    /\ IF g.state = "draft" THEN w.preview = "resolved" => Settled(w.covers, w.mappings)
                            ELSE w.covers = g.covers
MarksAs(g, w) ==
    /\ g.state = "draft" /\ w.state = "executing" /\ g.preview = "resolved"
    /\ w.mappings = g.mappings /\ w.preview = g.preview /\ w.covers = g.covers
Ends(g, w) ==
    /\ g.state = "executing" /\ w.state = "executed"
    /\ w.mappings = g.mappings /\ w.preview = g.preview /\ w.covers = g.covers

Becomes(g, w) == Extends(g, w) \/ Previews(g, w) \/ MarksAs(g, w) \/ Ends(g, w)

SeesAs(w, g) ==
    /\ w.step # "rest" => w.saw <= g.saves
    /\ w.saw = g.saves =>
          /\ w.step \in {"row", "mappings", "runs", "chunks"} =>
                 w.state = g.state /\ w.preview = g.preview /\ w.covers = g.covers
          /\ w.step \in {"mappings", "runs", "chunks"} => w.mappings = g.mappings
          /\ w.step = "saves" => Becomes(g, w)

ResolvedStays ==
    migration.preview = "resolved" \/ migration.state # "draft"
        => Settled(migration.covers, migration.mappings)

MigrationIInv ==
    /\ IsMigration(migration) /\ ResolvedStays
    /\ migrator = [q \in Migrators |-> migrator[q]]
    /\ \A q \in Migrators : IsMigrator(migrator[q]) /\ SeesAs(migrator[q], migration)

LEMMA MigrationInitInv == MigrationInit => MigrationIInv
  <1> SUFFICES ASSUME MigrationInit PROVE MigrationIInv
    OBVIOUS
  <1>1. IsMigration(migration) /\ migration.state = "draft" /\ migration.preview = "none"
    BY DEF MigrationInit, IsMigration
  <1>2. ResolvedStays
    BY <1>1 DEF ResolvedStays
  <1>3. IsMigrator(NotMigrating) /\ SeesAs(NotMigrating, migration)
    BY DEF IsMigrator, NotMigrating, SeesAs
  <1> QED BY <1>1, <1>2, <1>3 DEF MigrationInit, MigrationIInv

\* One request steps and the row is not saved: the others see what they saw.
LEMMA MigratorSteps ==
    ASSUME MigrationIInv, NEW q \in Migrators, NEW does, Migrates(q, does),
           UNCHANGED migration, IsMigrator(does), SeesAs(does, migration)
    PROVE  MigrationIInv'
  <1>1. migrator' = [migrator EXCEPT ![q] = does]
    BY DEF Migrates
  <1>2. migrator' = [p \in Migrators |-> migrator'[p]]
    BY <1>1 DEF MigrationIInv
  <1>3. \A p \in Migrators : migrator'[p] = IF p = q THEN does ELSE migrator[p]
    BY <1>1 DEF MigrationIInv
  <1>4. \A p \in Migrators : (IsMigrator(migrator[p]) /\ SeesAs(migrator[p], migration))'
    <2> TAKE p \in Migrators
    <2> DEFINE w == migrator'[p]
    <2>1. IsMigrator(w) /\ SeesAs(w, migration)
      BY <1>3 DEF MigrationIInv
    <2> QED BY <2>1 DEF IsMigrator, SeesAs, Becomes, Extends, Previews, MarksAs, Ends
  <1>5. IsMigration(migration)' /\ ResolvedStays'
    BY DEF MigrationIInv, IsMigration, ResolvedStays
  <1> QED BY <1>2, <1>4, <1>5 DEF MigrationIInv

LEMMA MigratorRests ==
    ASSUME MigrationIInv, NEW q \in Migrators, Migrates(q, NotMigrating),
           UNCHANGED migration
    PROVE  MigrationIInv'
  <1>1. IsMigrator(NotMigrating) /\ SeesAs(NotMigrating, migration)
    BY DEF IsMigrator, NotMigrating, SeesAs, MigrationIInv, IsMigration
  <1> QED BY <1>1, MigratorSteps

LEMMA ReadsMigrationStep ==
    ASSUME MigrationIInv, NEW q \in Migrators, ReadsMigration(q)
    PROVE  MigrationIInv'
  <1>1. PICK op :
            Migrates(q, [NotMigrating EXCEPT !.step = "row", !.op = op, !.saw = migration.saves,
                                             !.state = migration.state, !.preview = migration.preview,
                                             !.covers = migration.covers])
    BY DEF ReadsMigration
  <1> DEFINE does == [NotMigrating EXCEPT !.step = "row", !.op = op, !.saw = migration.saves,
                                          !.state = migration.state, !.preview = migration.preview,
                                          !.covers = migration.covers]
  <1>2. migration.saves \in Nat /\ UNCHANGED migration
    BY DEF MigrationIInv, IsMigration, ReadsMigration
  <1>3. IsMigrator(NotMigrating)
    BY DEF IsMigrator, NotMigrating
  <1>4. /\ IsMigrator(does) /\ does.step = "row" /\ does.saw = migration.saves
        /\ does.state = migration.state /\ does.preview = migration.preview
        /\ does.covers = migration.covers
    BY <1>2, <1>3 DEF IsMigrator
  <1>5. Migrates(q, does)
    BY <1>1
  <1> HIDE DEF does
  <1>6. SeesAs(does, migration)
    BY <1>2, <1>4 DEF SeesAs
  <1> QED BY <1>2, <1>4, <1>5, <1>6, MigratorSteps

LEMMA ReadsMappingsStep ==
    ASSUME MigrationIInv, NEW q \in Migrators, ReadsMappings(q)
    PROVE  MigrationIInv'
  <1> DEFINE w == migrator[q]
             does == [w EXCEPT !.step = "mappings", !.mappings = migration.mappings]
  <1>1. Migrates(q, does) /\ UNCHANGED migration /\ w.step = "row"
    BY DEF ReadsMappings
  <1>2. IsMigrator(w) /\ SeesAs(w, migration) /\ migration.mappings \in Seq(Mapping)
    BY DEF MigrationIInv, IsMigration
  <1>3. IsMigrator(does) /\ SeesAs(does, migration)
    BY <1>1, <1>2 DEF IsMigrator, SeesAs
  <1> QED BY <1>1, <1>3, MigratorSteps

\* A resolved preview names every concept it covers, so a later mapping takes none
\* of them.
LEMMA SettledStays ==
    ASSUME NEW v, NEW concepts, NEW ms \in Seq(Mapping), NEW m \in Mapping,
           MayAddMapping(v, ms, m), Settled(concepts, ms)
    PROVE  Settled(concepts, Append(ms, m))
  <1> DEFINE more == Append(ms, m)
  <1>1. /\ more \in Seq(Mapping) /\ DOMAIN more = 1..(Len(ms) + 1) /\ DOMAIN ms = 1..Len(ms)
        /\ \A i \in DOMAIN ms : i \in DOMAIN more /\ more[i] = ms[i]
        /\ more[Len(ms) + 1] = m /\ Len(ms) \in Nat
    OBVIOUS
  <1> HIDE DEF more
  <1>2. NamedBy(ms) \subseteq NamedBy(more)
    BY <1>1 DEF NamedBy
  <1>3. m.from \cap concepts = {}
    BY DEF MayAddMapping, Settled, Named
  <1>4. \A i \in DOMAIN more : i \in DOMAIN ms \/ i = Len(ms) + 1
    BY <1>1
  <1> QED BY <1>1, <1>2, <1>3, <1>4 DEF Settled, more

\* A preview with nothing pending has settled what the source held.
LEMMA ResolvedSettles ==
    ASSUME NEW v, NEW ms, NoExceptionPending(v, ms)
    PROVE  Settled(v.source, ms)
  BY DEF NoExceptionPending, Settled

LEMMA AddsMappingStep ==
    ASSUME MigrationIInv, NEW q \in Migrators, AddsMapping(q)
    PROVE  MigrationIInv'
  <1> DEFINE w == migrator[q]
  <1>1. PICK m \in Mapping :
            /\ MayAddMapping(versions, w.mappings, m)
            /\ Migrates(q, [w EXCEPT !.step = "saves", !.mappings = Append(@, m)])
    BY DEF AddsMapping
  <1> DEFINE does == [w EXCEPT !.step = "saves", !.mappings = Append(@, m)]
  <1>2. w.step = "mappings" /\ w.state = "draft" /\ UNCHANGED migration
    BY DEF AddsMapping, Loads
  <1>3. IsMigrator(w) /\ SeesAs(w, migration) /\ ResolvedStays
    BY DEF MigrationIInv
  <1>4. w.mappings \in Seq(Mapping) /\ Append(w.mappings, m) \in Seq(Mapping)
    BY <1>3 DEF IsMigrator
  <1>5. /\ does.step = "saves" /\ does.saw = w.saw /\ does.state = w.state
        /\ does.preview = w.preview /\ does.covers = w.covers
        /\ does.mappings = Append(w.mappings, m) /\ IsMigrator(does)
    BY <1>3, <1>4 DEF IsMigrator
  <1> HIDE DEF does
  <1>6. ASSUME w.saw = migration.saves PROVE Extends(migration, does)
    <2>1. /\ w.state = migration.state /\ w.preview = migration.preview
          /\ w.covers = migration.covers /\ w.mappings = migration.mappings
      BY <1>2, <1>3, <1>6 DEF SeesAs
    <2>2. w.preview = "resolved" => Settled(w.covers, Append(w.mappings, m))
      BY <1>1, <1>3, <1>4, <2>1, SettledStays DEF ResolvedStays
    <2> QED BY <1>2, <1>5, <2>1, <2>2 DEF Extends
  <1>7. SeesAs(does, migration)
    BY <1>2, <1>3, <1>5, <1>6 DEF SeesAs, Becomes
  <1>8. Migrates(q, does)
    BY <1>1 DEF does
  <1> QED BY <1>2, <1>5, <1>7, <1>8, MigratorSteps

LEMMA RunsDryRunStep ==
    ASSUME MigrationIInv, NEW q \in Migrators, RunsDryRun(q)
    PROVE  MigrationIInv'
  <1> DEFINE w == migrator[q]
             found == IF NoExceptionPending(versions, w.mappings) THEN "resolved" ELSE "pending"
             covered == IF w.state = "draft" THEN versions.source ELSE w.covers
             does == [w EXCEPT !.step = "saves", !.preview = found, !.covers = covered]
  <1>1. /\ Migrates(q, does) /\ UNCHANGED migration /\ w.step = "mappings"
    BY DEF RunsDryRun, Loads
  <1>2. IsMigrator(w) /\ SeesAs(w, migration)
    BY DEF MigrationIInv
  <1>3. IF w.state = "draft" THEN found = "resolved" => Settled(covered, w.mappings)
                             ELSE covered = w.covers
    BY ResolvedSettles
  <1> HIDE DEF found, covered
  <1>4. /\ IsMigrator(does) /\ does.step = "saves" /\ does.saw = w.saw
        /\ does.state = w.state /\ does.mappings = w.mappings /\ does.preview = found
        /\ does.covers = covered
    BY <1>2 DEF IsMigrator
  <1>5. w.saw = migration.saves => Previews(migration, does)
    <2> HIDE DEF does
    <2> QED BY <1>1, <1>2, <1>3, <1>4 DEF SeesAs, Previews
  <1>6. SeesAs(does, migration)
    <2> HIDE DEF does
    <2> QED BY <1>1, <1>2, <1>4, <1>5 DEF SeesAs, Becomes
  <1> QED BY <1>1, <1>4, <1>6, MigratorSteps

LEMMA MarksExecutingStep ==
    ASSUME MigrationIInv, NEW q \in Migrators, MarksExecuting(q)
    PROVE  MigrationIInv'
  <1> DEFINE w == migrator[q]
             does == [w EXCEPT !.step = "saves", !.state = "executing"]
  <1>1. /\ Migrates(q, does) /\ UNCHANGED migration
        /\ w.step = "mappings" /\ w.preview = "resolved" /\ w.state = "draft"
    BY DEF MarksExecuting, Loads
  <1>2. IsMigrator(w) /\ SeesAs(w, migration)
    BY DEF MigrationIInv
  <1>3. /\ IsMigrator(does) /\ does.step = "saves" /\ does.saw = w.saw
        /\ does.state = "executing" /\ does.mappings = w.mappings /\ does.preview = w.preview
        /\ does.covers = w.covers
    BY <1>2 DEF IsMigrator
  <1>4. SeesAs(does, migration)
    <2> HIDE DEF does
    <2> QED BY <1>1, <1>2, <1>3 DEF SeesAs, Becomes, MarksAs
  <1> QED BY <1>1, <1>3, <1>4, MigratorSteps

\* Whoever goes on running sees what the request saw.
LEMMA RunsOn ==
    ASSUME MigrationIInv, NEW q \in Migrators, NEW does, Migrates(q, does),
           UNCHANGED migration, IsMigrator(does), does.step \in {"runs", "chunks"},
           migrator[q].step \in {"mappings", "runs", "chunks"},
           does.saw = migrator[q].saw, does.state = migrator[q].state,
           does.preview = migrator[q].preview, does.mappings = migrator[q].mappings,
           does.covers = migrator[q].covers
    PROVE  MigrationIInv'
  <1>1. SeesAs(migrator[q], migration)
    BY DEF MigrationIInv
  <1>2. SeesAs(does, migration)
    BY <1>1 DEF SeesAs
  <1> QED BY <1>2, MigratorSteps

LEMMA ResumesExecutionStep ==
    ASSUME MigrationIInv, NEW q \in Migrators, ResumesExecution(q)
    PROVE  MigrationIInv'
  <1> DEFINE does == [migrator[q] EXCEPT !.step = "runs"]
  <1>1. Migrates(q, does) /\ UNCHANGED migration /\ migrator[q].step = "mappings"
    BY DEF ResumesExecution, Loads
  <1>2. IsMigrator(migrator[q])
    BY DEF MigrationIInv
  <1>3. /\ IsMigrator(does) /\ does.step = "runs"
        /\ does.saw = migrator[q].saw /\ does.state = migrator[q].state
        /\ does.preview = migrator[q].preview /\ does.mappings = migrator[q].mappings
        /\ does.covers = migrator[q].covers
    BY <1>2 DEF IsMigrator
  <1> HIDE DEF does
  <1> QED BY <1>1, <1>3, RunsOn

LEMMA FindsOutstandingStep ==
    ASSUME MigrationIInv, NEW q \in Migrators, FindsOutstanding(q)
    PROVE  MigrationIInv'
  <1>1. PICK left : Migrates(q, [migrator[q] EXCEPT !.step = "chunks", !.todo = left])
    BY DEF FindsOutstanding
  <1> DEFINE does == [migrator[q] EXCEPT !.step = "chunks", !.todo = left]
  <1>2. UNCHANGED migration /\ migrator[q].step = "runs" /\ IsMigrator(migrator[q])
    BY DEF FindsOutstanding, MigrationIInv
  <1>3. /\ IsMigrator(does) /\ does.step = "chunks"
        /\ does.saw = migrator[q].saw /\ does.state = migrator[q].state
        /\ does.preview = migrator[q].preview /\ does.mappings = migrator[q].mappings
        /\ does.covers = migrator[q].covers
    BY <1>2 DEF IsMigrator
  <1>4. Migrates(q, does)
    BY <1>1
  <1> HIDE DEF does
  <1> QED BY <1>2, <1>3, <1>4, RunsOn

LEMMA MigratesChunkStep ==
    ASSUME MigrationIInv, NEW q \in Migrators, MigratesChunk(q)
    PROVE  MigrationIInv'
  <1>1. PICK i : Migrates(q, [migrator[q] EXCEPT !.todo = @ \ {i}])
    BY DEF MigratesChunk
  <1> DEFINE does == [migrator[q] EXCEPT !.todo = @ \ {i}]
  <1>2. /\ Migrates(q, does) /\ UNCHANGED migration
        /\ migrator[q].step = "chunks" /\ IsMigrator(migrator[q])
    BY <1>1 DEF MigratesChunk, MigrationIInv
  <1>3. /\ IsMigrator(does) /\ does.step = "chunks"
        /\ does.saw = migrator[q].saw /\ does.state = migrator[q].state
        /\ does.preview = migrator[q].preview /\ does.mappings = migrator[q].mappings
        /\ does.covers = migrator[q].covers
    BY <1>2 DEF IsMigrator
  <1> HIDE DEF does
  <1> QED BY <1>2, <1>3, RunsOn

LEMMA EndsChunksStep ==
    ASSUME MigrationIInv, NEW q \in Migrators, EndsChunks(q)
    PROVE  MigrationIInv'
  <1> DEFINE w == migrator[q]
             does == [w EXCEPT !.step = "saves", !.state = "executed"]
  <1>1. /\ Migrates(q, IF w.state = "executing" THEN does ELSE NotMigrating)
        /\ UNCHANGED migration /\ w.step = "chunks"
    BY DEF EndsChunks
  <1>2. IsMigrator(w) /\ SeesAs(w, migration)
    BY DEF MigrationIInv
  <1>3. CASE w.state # "executing"
    BY <1>1, <1>3, MigratorRests
  <1>4. CASE w.state = "executing"
    <2>1. /\ IsMigrator(does) /\ does.step = "saves" /\ does.saw = w.saw
          /\ does.state = "executed" /\ does.mappings = w.mappings /\ does.preview = w.preview
          /\ does.covers = w.covers
      BY <1>2 DEF IsMigrator
    <2>2. Migrates(q, does)
      BY <1>1, <1>4
    <2> HIDE DEF does
    <2>3. SeesAs(does, migration)
      BY <1>1, <1>2, <1>4, <2>1 DEF SeesAs, Becomes, Ends
    <2> QED BY <1>1, <2>1, <2>2, <2>3, MigratorSteps
  <1> QED BY <1>3, <1>4

\* A save makes of the migration what the request that saw it last makes of it.
LEMMA SaveBecomes ==
    ASSUME MigrationIInv, NEW q \in Migrators, SavesMigration(q)
    PROVE  /\ Becomes(migration, migrator[q]) /\ migrator[q].saw = migration.saves
           /\ ~(migration.state = "executing" /\ migrator[q].state = "executing")
           /\ IsMigrator(migrator[q]) /\ IsMigration(migration)
           /\ migration'.state = migrator[q].state /\ migration'.mappings = migrator[q].mappings
           /\ migration'.preview = migrator[q].preview /\ migration'.saves = migration.saves + 1
           /\ migration'.covers = migrator[q].covers
           /\ IsMigration(migration)'
  <1>1. /\ migrator[q].step = "saves" /\ migrator[q].saw = migration.saves
        /\ ~(migration.state = "executing" /\ migrator[q].state = "executing")
        /\ migration' = [state |-> migrator[q].state, mappings |-> migrator[q].mappings,
                         preview |-> migrator[q].preview, covers |-> migrator[q].covers,
                         saves |-> migration.saves + 1]
    BY DEF SavesMigration, Lets
  <1>2. IsMigrator(migrator[q]) /\ SeesAs(migrator[q], migration) /\ IsMigration(migration)
    BY DEF MigrationIInv
  <1>3. Becomes(migration, migrator[q])
    BY <1>1, <1>2 DEF SeesAs
  <1>4. migrator[q].state \in {"draft", "executing", "executed"} /\ migration.saves \in Nat
    BY <1>2, <1>3 DEF IsMigration, Becomes, Extends, Previews, MarksAs, Ends
  <1>5. IsMigration(migration)'
    BY <1>1, <1>2, <1>4 DEF IsMigration, IsMigrator
  <1> QED BY <1>1, <1>2, <1>3, <1>5

LEMMA SavesMigrationStep ==
    ASSUME MigrationIInv, NEW q \in Migrators, SavesMigration(q)
    PROVE  MigrationIInv'
  <1> DEFINE w == migrator[q]
             runs == [w EXCEPT !.step = "runs", !.saw = migration.saves + 1]
             does == IF w.state = "executing" THEN runs ELSE NotMigrating
  <1>1. Migrates(q, does)
    BY DEF SavesMigration
  <1>2. /\ Becomes(migration, w) /\ ~(migration.state = "executing" /\ w.state = "executing")
        /\ IsMigrator(w) /\ IsMigration(migration)
        /\ migration'.state = w.state /\ migration'.mappings = w.mappings
        /\ migration'.preview = w.preview /\ migration'.saves = migration.saves + 1
        /\ migration'.covers = w.covers
        /\ IsMigration(migration)'
    BY SaveBecomes
  <1>3. ResolvedStays'
    <2>1. CASE Extends(migration, w)
      BY <1>1, <1>2, <2>1 DEF Extends, ResolvedStays
    <2>2. CASE Previews(migration, w)
      BY <1>1, <1>2, <2>2 DEF Previews, ResolvedStays, MigrationIInv
    <2>3. CASE MarksAs(migration, w)
      BY <1>1, <1>2, <2>3 DEF MarksAs, ResolvedStays, MigrationIInv
    <2>4. CASE Ends(migration, w)
      BY <1>1, <1>2, <2>4 DEF Ends, ResolvedStays, MigrationIInv
    <2> QED BY <1>2, <2>1, <2>2, <2>3, <2>4 DEF Becomes
  <1>4. migration.saves \in Nat /\ migration.saves + 1 \in Nat
    BY <1>2 DEF IsMigration
  <1>5. IsMigrator(NotMigrating) /\ SeesAs(NotMigrating, migration')
    BY <1>2, <1>4 DEF IsMigrator, NotMigrating, SeesAs
  <1>6. /\ IsMigrator(runs) /\ runs.step = "runs" /\ runs.saw = migration.saves + 1
        /\ runs.state = w.state /\ runs.mappings = w.mappings /\ runs.preview = w.preview
        /\ runs.covers = w.covers
    BY <1>2, <1>4 DEF IsMigrator
  <1>7. SeesAs(runs, migration')
    <2> HIDE DEF runs, w
    <2> QED BY <1>2, <1>4, <1>6 DEF SeesAs
  <1>8. IsMigrator(does) /\ SeesAs(does, migration')
    <2> HIDE DEF runs
    <2> QED BY <1>5, <1>6, <1>7
  <1>9. migrator' = [migrator EXCEPT ![q] = does]
    BY <1>1 DEF Migrates
  <1> HIDE DEF does
  <1>10. \A p \in Migrators : migrator'[p] = IF p = q THEN does ELSE migrator[p]
    BY <1>9 DEF MigrationIInv
  <1>11. \A p \in Migrators : IsMigrator(migrator'[p]) /\ SeesAs(migrator'[p], migration')
    <2> TAKE p \in Migrators
    <2>1. CASE p = q
      BY <1>8, <1>10, <2>1
    <2>2. CASE p # q
      <3>1. migrator'[p] = migrator[p] /\ IsMigrator(migrator[p]) /\ SeesAs(migrator[p], migration)
        BY <1>10, <2>2 DEF MigrationIInv
      <3>2. migrator[p].saw \in Nat
        BY <3>1 DEF IsMigrator
      <3>3. SeesAs(migrator[p], migration')
        BY <1>2, <1>4, <3>1, <3>2 DEF SeesAs
      <3> QED BY <3>1, <3>3
    <2> QED BY <2>1, <2>2
  <1>12. \A p \in Migrators : (IsMigrator(migrator[p]) /\ SeesAs(migrator[p], migration))'
    BY <1>11 DEF IsMigrator, SeesAs, Becomes, Extends, Previews, MarksAs, Ends
  <1>13. migrator' = [p \in Migrators |-> migrator'[p]]
    BY <1>9 DEF MigrationIInv
  <1> QED BY <1>2, <1>3, <1>12, <1>13 DEF MigrationIInv

\* What the two versions hold, and whether they are published, is not asked.
LEMMA VersionsStep ==
    ASSUME MigrationIInv, UNCHANGED <<migration, migrator>>
    PROVE  MigrationIInv'
  BY DEF MigrationIInv, IsMigration, ResolvedStays, IsMigrator, SeesAs, Becomes, Extends, Previews,
         MarksAs, Ends

LEMMA MigrationStep == MigrationIInv /\ [MigrationNext]_migrationVars => MigrationIInv'
  <1> SUFFICES ASSUME MigrationIInv, [MigrationNext]_migrationVars PROVE MigrationIInv'
    OBVIOUS
  <1>1. CASE UNCHANGED migrationVars
    BY <1>1, VersionsStep DEF migrationVars
  <1>2. CASE VersionsChange \/ \E side \in Sides : VersionIsPublished(side)
    BY <1>2, VersionsStep DEF VersionsChange, VersionIsPublished
  <1>3. ASSUME NEW q \in Migrators, ReadsMigration(q) PROVE MigrationIInv'
    BY <1>3, ReadsMigrationStep
  <1>4. ASSUME NEW q \in Migrators, ReadsMappings(q) PROVE MigrationIInv'
    BY <1>4, ReadsMappingsStep
  <1>5. ASSUME NEW q \in Migrators, IsTurnedAway(q) \/ MigrationConflicts(q) \/ MigrationIsCut(q) PROVE MigrationIInv'
    BY <1>5, MigratorRests DEF IsTurnedAway, MigrationConflicts, MigrationIsCut
  <1>6. ASSUME NEW q \in Migrators, AddsMapping(q) PROVE MigrationIInv'
    BY <1>6, AddsMappingStep
  <1>7. ASSUME NEW q \in Migrators, RunsDryRun(q) PROVE MigrationIInv'
    BY <1>7, RunsDryRunStep
  <1>8. ASSUME NEW q \in Migrators, MarksExecuting(q) PROVE MigrationIInv'
    BY <1>8, MarksExecutingStep
  <1>9. ASSUME NEW q \in Migrators, ResumesExecution(q) PROVE MigrationIInv'
    BY <1>9, ResumesExecutionStep
  <1>10. ASSUME NEW q \in Migrators, SavesMigration(q) PROVE MigrationIInv'
    BY <1>10, SavesMigrationStep
  <1>11. ASSUME NEW q \in Migrators, FindsOutstanding(q) PROVE MigrationIInv'
    BY <1>11, FindsOutstandingStep
  <1>12. ASSUME NEW q \in Migrators, MigratesChunk(q) PROVE MigrationIInv'
    BY <1>12, MigratesChunkStep
  <1>13. ASSUME NEW q \in Migrators, EndsChunks(q) PROVE MigrationIInv'
    BY <1>13, EndsChunksStep
  <1> QED BY <1>1, <1>2, <1>3, <1>4, <1>5, <1>6, <1>7, <1>8, <1>9, <1>10, <1>11, <1>12, <1>13
          DEF MigrationNext

\* What every request would make of the migration is refused or legal, and what a
\* resolved preview covered stays settled.
THEOREM MigrationInvariant == MigrationSpec => []MigrationIInv
  BY MigrationInitInv, MigrationStep, PTL DEF MigrationSpec

\* No execution leaves to a human a concept its preview covered, for any concepts
\* and requests, although the gate of ExecuteMigrationHandler is a preview stored
\* earlier, mappings are added after it, and either version may change and be
\* published meanwhile: whatever a later mapping could take, the preview has named,
\* or had not seen.
THEOREM NothingUnresolvedAlways == MigrationSpec => []NothingUnresolved
  <1>1. MigrationIInv => NothingUnresolved
    BY DEF MigrationIInv, ResolvedStays, NothingUnresolved
  <1> QED BY <1>1, MigrationInvariant, PTL

\* Once an execution is marked the mappings stay, whatever other requests had read
\* before: the expected version of the repository's update.
THEOREM MappingsStandAlways == MigrationSpec => MappingsStand
  <1>1. ASSUME MigrationIInv, [MigrationNext]_migrationVars
        PROVE  [migration.state # "draft" =>
                  migration'.mappings = migration.mappings /\ migration'.state # "draft"]_migration
    <2> SUFFICES ASSUME migration' # migration, migration.state # "draft"
                 PROVE  migration'.mappings = migration.mappings /\ migration'.state # "draft"
      BY <1>1
    <2>1. PICK q \in Migrators : SavesMigration(q)
      BY <1>1 DEF migrationVars, MigrationNext, ReadsMigration, ReadsMappings, IsTurnedAway, AddsMapping,
         RunsDryRun, MarksExecuting, ResumesExecution, MigrationConflicts, FindsOutstanding, MigratesChunk,
         EndsChunks, MigrationIsCut, VersionsChange, VersionIsPublished
    <2>2. /\ Becomes(migration, migrator[q])
          /\ migration'.state = migrator[q].state /\ migration'.mappings = migrator[q].mappings
      BY <1>1, <2>1, SaveBecomes
    <2> QED BY <2>2 DEF Becomes, Extends, Previews, MarksAs, Ends
  <1> QED BY <1>1, MigrationInvariant, PTL DEF MigrationSpec, MappingsStand
-----------------------------------------------------------------------------
(* What an execution has applied *)

\* Mappings no two of which name one concept.
Apart(ms) ==
    /\ ms \in Seq(Mapping)
    /\ \A i, j \in DOMAIN ms : Named(ms[i]) \cap Named(ms[j]) # {} => i = j

IsApplied(m) == \E j \in DOMAIN applied : applied[j] = m

AllApplied(ms) == \A i \in DOMAIN ms : IsApplied(ms[i])

\* What a request holds of a migration that has begun to be executed is as it
\* stays, and of its mappings those are left that nobody has applied.
Carries(w) ==
    /\ Apart(w.mappings)
    /\ w.step # "rest" /\ w.state = "executed" =>
          migration.state # "draft" /\ AllApplied(migration.mappings)
    /\ w.step \in {"row", "mappings", "runs", "chunks"} /\ w.state # "draft" => migration.state # "draft"
    /\ w.step \in {"mappings", "runs", "chunks"} /\ w.state # "draft" => w.mappings = migration.mappings
    /\ w.step \in {"runs", "chunks"} => w.state # "draft"
    /\ w.step = "chunks" =>
          /\ w.todo \subseteq DOMAIN w.mappings
          /\ \A i \in DOMAIN w.mappings : i \in w.todo \/ IsApplied(w.mappings[i])

AppliedAreMapped ==
    /\ applied \in Seq(Mapping)
    /\ migration.state = "draft" => applied = <<>>
    /\ \A j \in DOMAIN applied : \E i \in DOMAIN migration.mappings : applied[j] = migration.mappings[i]

WholeInv ==
    /\ Apart(migration.mappings) /\ AppliedAreMapped /\ ExecutedWhole
    /\ \A q \in Migrators : Carries(migrator[q])

LEMMA WholeInitInv == MigrationInit => WholeInv
  <1> SUFFICES ASSUME MigrationInit PROVE WholeInv
    OBVIOUS
  <1>1. /\ migration.state = "draft" /\ migration.mappings = <<>> /\ applied = <<>>
        /\ \A q \in Migrators : migrator[q] = NotMigrating
    BY DEF MigrationInit
  <1>2. Apart(<<>>)
    BY DEF Apart
  <1>3. Carries(NotMigrating)
    BY <1>2 DEF Carries, NotMigrating
  <1> QED BY <1>1, <1>2, <1>3 DEF WholeInv, AppliedAreMapped, ExecutedWhole

\* One request steps, the row and what is applied stay.
LEMMA CarriersStep ==
    ASSUME MigrationIInv, WholeInv, NEW q \in Migrators, NEW does, Migrates(q, does),
           UNCHANGED <<migration, applied>>, Carries(does)
    PROVE  WholeInv'
  <1>1. \A p \in Migrators : migrator'[p] = IF p = q THEN does ELSE migrator[p]
    BY DEF Migrates, MigrationIInv
  <1>2. \A p \in Migrators : Carries(migrator[p])'
    <2> TAKE p \in Migrators
    <2> DEFINE w == migrator'[p]
    <2>1. Carries(w)
      BY <1>1 DEF WholeInv
    <2> QED BY <2>1 DEF Carries, Apart, AllApplied, IsApplied
  <1>3. Apart(migration.mappings)' /\ AppliedAreMapped' /\ ExecutedWhole'
    BY DEF WholeInv, AppliedAreMapped, ExecutedWhole, Apart
  <1> QED BY <1>2, <1>3 DEF WholeInv

LEMMA CarrierRests ==
    ASSUME MigrationIInv, WholeInv, NEW q \in Migrators, Migrates(q, NotMigrating),
           UNCHANGED <<migration, applied>>
    PROVE  WholeInv'
  <1>1. Apart(<<>>)
    BY DEF Apart
  <1>2. Carries(NotMigrating)
    BY <1>1 DEF Carries, NotMigrating
  <1> QED BY <1>2, CarriersStep

\* An executed migration has applied all of its mappings, in the terms of the invariant.
LEMMA ExecutedIsApplied ==
    ASSUME WholeInv, migration.state = "executed"
    PROVE  AllApplied(migration.mappings)
  BY DEF WholeInv, ExecutedWhole, AllApplied, IsApplied

\* A mapping names something, so two of which neither names what the other does differ.
LEMMA MappingsNameSomething ==
    ASSUME NEW m \in Mapping
    PROVE  Named(m) # {}
  BY FS_EmptySet DEF Mapping, Single, Several, Named

LEMMA ReadsMigrationCarries ==
    ASSUME MigrationIInv, WholeInv, NEW q \in Migrators, ReadsMigration(q)
    PROVE  WholeInv'
  <1>1. PICK op :
            Migrates(q, [NotMigrating EXCEPT !.step = "row", !.op = op, !.saw = migration.saves,
                                             !.state = migration.state, !.preview = migration.preview,
                                             !.covers = migration.covers])
    BY DEF ReadsMigration
  <1> DEFINE does == [NotMigrating EXCEPT !.step = "row", !.op = op, !.saw = migration.saves,
                                          !.state = migration.state, !.preview = migration.preview,
                                          !.covers = migration.covers]
  <1>2. Migrates(q, does) /\ UNCHANGED <<migration, applied>>
    BY <1>1 DEF ReadsMigration
  <1>3. does.step = "row" /\ does.state = migration.state /\ does.mappings = <<>>
    BY DEF NotMigrating
  <1> HIDE DEF does
  <1>4. Apart(<<>>)
    BY DEF Apart
  <1>5. Carries(does)
    BY <1>3, <1>4, ExecutedIsApplied DEF Carries
  <1> QED BY <1>2, <1>5, CarriersStep

LEMMA ReadsMappingsCarries ==
    ASSUME MigrationIInv, WholeInv, NEW q \in Migrators, ReadsMappings(q)
    PROVE  WholeInv'
  <1> DEFINE w == migrator[q]
             does == [w EXCEPT !.step = "mappings", !.mappings = migration.mappings]
  <1>1. Migrates(q, does) /\ UNCHANGED <<migration, applied>> /\ w.step = "row"
    BY DEF ReadsMappings
  <1>2. IsMigrator(w) /\ Carries(w) /\ Apart(migration.mappings)
    BY DEF MigrationIInv, WholeInv
  <1>3. does.step = "mappings" /\ does.state = w.state /\ does.mappings = migration.mappings
    BY <1>2 DEF IsMigrator
  <1> HIDE DEF does
  <1>4. Carries(does)
    BY <1>1, <1>2, <1>3 DEF Carries
  <1> QED BY <1>1, <1>4, CarriersStep

\* A mapping that takes concepts nobody has named leaves the mappings apart.
LEMMA AppendedApart ==
    ASSUME NEW v, NEW ms, Apart(ms), NEW m \in Mapping, MayAddMapping(v, ms, m)
    PROVE  Apart(Append(ms, m))
  <1> DEFINE longer == Append(ms, m)
  <1>1. /\ ms \in Seq(Mapping) /\ longer \in Seq(Mapping)
        /\ DOMAIN ms = 1..Len(ms) /\ DOMAIN longer = 1..(Len(ms) + 1) /\ Len(ms) \in Nat
        /\ longer[Len(ms) + 1] = m /\ \A i \in DOMAIN ms : longer[i] = ms[i]
    BY DEF Apart
  <1>2. \A i \in DOMAIN ms : Named(ms[i]) \cap Named(m) = {}
    BY DEF MayAddMapping, NamedBy
  <1>3. ASSUME NEW i \in DOMAIN longer, NEW j \in DOMAIN longer,
               Named(longer[i]) \cap Named(longer[j]) # {}
        PROVE  i = j
    <2> HIDE DEF longer
    <2>1. CASE i \in DOMAIN ms /\ j \in DOMAIN ms
      BY <1>1, <1>3, <2>1 DEF Apart
    <2>2. CASE i \notin DOMAIN ms /\ j \notin DOMAIN ms
      BY <1>1, <2>2
    <2>3. CASE i \in DOMAIN ms /\ j \notin DOMAIN ms
      <3>1. longer[i] = ms[i] /\ longer[j] = m
        BY <1>1, <2>3
      <3> QED BY <1>2, <1>3, <2>3, <3>1
    <2>4. CASE i \notin DOMAIN ms /\ j \in DOMAIN ms
      <3>1. longer[i] = m /\ longer[j] = ms[j]
        BY <1>1, <2>4
      <3> QED BY <1>2, <1>3, <2>4, <3>1
    <2> QED BY <2>1, <2>2, <2>3, <2>4
  <1> QED BY <1>1, <1>3 DEF Apart

LEMMA AddsMappingCarries ==
    ASSUME MigrationIInv, WholeInv, NEW q \in Migrators, AddsMapping(q)
    PROVE  WholeInv'
  <1> DEFINE w == migrator[q]
  <1>1. PICK m \in Mapping :
            /\ MayAddMapping(versions, w.mappings, m)
            /\ Migrates(q, [w EXCEPT !.step = "saves", !.mappings = Append(@, m)])
    BY DEF AddsMapping
  <1> DEFINE does == [w EXCEPT !.step = "saves", !.mappings = Append(@, m)]
  <1>2. w.state = "draft" /\ UNCHANGED <<migration, applied>> /\ Migrates(q, does)
    BY <1>1 DEF AddsMapping, Loads
  <1>3. IsMigrator(w) /\ Carries(w)
    BY DEF MigrationIInv, WholeInv
  <1>4. does.step = "saves" /\ does.state = w.state /\ does.mappings = Append(w.mappings, m)
    BY <1>3 DEF IsMigrator
  <1> HIDE DEF does
  <1>5. Apart(does.mappings)
    BY <1>1, <1>3, <1>4, AppendedApart DEF Carries
  <1>6. Carries(does)
    BY <1>2, <1>4, <1>5 DEF Carries
  <1> QED BY <1>2, <1>6, CarriersStep

\* A request that goes on with what it holds, its state and its mappings.
LEMMA GoesOnCarrying ==
    ASSUME MigrationIInv, WholeInv, NEW q \in Migrators, NEW does, Migrates(q, does),
           UNCHANGED <<migration, applied>>, does.mappings = migrator[q].mappings,
           \/ does.step = "saves" /\ does.state \in {migrator[q].state, "executing"}
           \/ /\ does.step = "runs" /\ does.state = migrator[q].state /\ does.state # "draft",
           migrator[q].step = "mappings"
    PROVE  WholeInv'
  <1>1. Carries(migrator[q])
    BY DEF WholeInv
  <1>2. Carries(does)
    BY <1>1 DEF Carries
  <1> QED BY <1>2, CarriersStep

LEMMA RunsDryRunCarries ==
    ASSUME MigrationIInv, WholeInv, NEW q \in Migrators, RunsDryRun(q)
    PROVE  WholeInv'
  <1> DEFINE w == migrator[q]
             found == IF NoExceptionPending(versions, w.mappings) THEN "resolved" ELSE "pending"
             covered == IF w.state = "draft" THEN versions.source ELSE w.covers
             does == [w EXCEPT !.step = "saves", !.preview = found, !.covers = covered]
  <1>1. Migrates(q, does) /\ UNCHANGED <<migration, applied>> /\ w.step = "mappings" /\ IsMigrator(w)
    BY DEF RunsDryRun, Loads, MigrationIInv
  <1> HIDE DEF found
  <1>2. does.step = "saves" /\ does.state = w.state /\ does.mappings = w.mappings
    BY <1>1 DEF IsMigrator
  <1> HIDE DEF does
  <1> QED BY <1>1, <1>2, GoesOnCarrying

LEMMA MarksExecutingCarries ==
    ASSUME MigrationIInv, WholeInv, NEW q \in Migrators, MarksExecuting(q)
    PROVE  WholeInv'
  <1> DEFINE w == migrator[q]
             does == [w EXCEPT !.step = "saves", !.state = "executing"]
  <1>1. Migrates(q, does) /\ UNCHANGED <<migration, applied>> /\ w.step = "mappings" /\ IsMigrator(w)
    BY DEF MarksExecuting, Loads, MigrationIInv
  <1>2. does.step = "saves" /\ does.state = "executing" /\ does.mappings = w.mappings
    BY <1>1 DEF IsMigrator
  <1> HIDE DEF does
  <1> QED BY <1>1, <1>2, GoesOnCarrying

LEMMA ResumesExecutionCarries ==
    ASSUME MigrationIInv, WholeInv, NEW q \in Migrators, ResumesExecution(q)
    PROVE  WholeInv'
  <1> DEFINE w == migrator[q]
             does == [w EXCEPT !.step = "runs"]
  <1>1. /\ Migrates(q, does) /\ UNCHANGED <<migration, applied>> /\ w.step = "mappings"
        /\ w.state # "draft" /\ IsMigrator(w)
    BY DEF ResumesExecution, Loads, MigrationIInv
  <1>2. does.step = "runs" /\ does.state = w.state /\ does.mappings = w.mappings
    BY <1>1 DEF IsMigrator
  <1> HIDE DEF does
  <1> QED BY <1>1, <1>2, GoesOnCarrying

\* A mapping that is not outstanding has been applied: some mapping applied names
\* a concept of it, and no other mapping does.
LEMMA NotOutstandingIsApplied ==
    ASSUME WholeInv, NEW i \in DOMAIN migration.mappings, i \notin Outstanding(migration.mappings)
    PROVE  IsApplied(migration.mappings[i])
  <1> DEFINE ms == migration.mappings
  <1>1. Named(ms[i]) \subseteq NamedBy(applied)
    BY DEF Outstanding
  <1>2. Apart(ms) /\ AppliedAreMapped
    BY DEF WholeInv
  <1>3. ms[i] \in Mapping
    BY <1>2 DEF Apart
  <1>4. PICK c \in Named(ms[i]) : TRUE
    BY <1>3, MappingsNameSomething
  <1>5. PICK j \in DOMAIN applied : c \in Named(applied[j])
    BY <1>1, <1>4 DEF NamedBy
  <1>6. PICK k \in DOMAIN ms : applied[j] = ms[k]
    BY <1>2 DEF AppliedAreMapped
  <1>7. k = i
    BY <1>2, <1>4, <1>5, <1>6 DEF Apart
  <1> QED BY <1>6, <1>7 DEF IsApplied

LEMMA FindsOutstandingCarries ==
    ASSUME MigrationIInv, WholeInv, NEW q \in Migrators, FindsOutstanding(q)
    PROVE  WholeInv'
  <1> DEFINE w == migrator[q]
             does == [w EXCEPT !.step = "chunks", !.todo = Outstanding(w.mappings)]
  <1>1. Migrates(q, does) /\ UNCHANGED <<migration, applied>> /\ w.step = "runs"
    BY DEF FindsOutstanding
  <1>2. IsMigrator(w) /\ Carries(w)
    BY DEF MigrationIInv, WholeInv
  <1>3. /\ does.step = "chunks" /\ does.state = w.state /\ does.mappings = w.mappings
        /\ does.todo = Outstanding(w.mappings)
    BY <1>2 DEF IsMigrator
  <1> HIDE DEF does
  <1>4. w.mappings = migration.mappings
    BY <1>1, <1>2 DEF Carries
  <1>5. \A i \in DOMAIN w.mappings : i \in does.todo \/ IsApplied(w.mappings[i])
    BY <1>3, <1>4, NotOutstandingIsApplied
  <1>6. does.todo \subseteq DOMAIN w.mappings
    BY <1>3 DEF Outstanding
  <1>7. Carries(does)
    BY <1>1, <1>2, <1>3, <1>5, <1>6 DEF Carries
  <1> QED BY <1>1, <1>7, CarriersStep

LEMMA MigratesChunkCarries ==
    ASSUME MigrationIInv, WholeInv, NEW q \in Migrators, MigratesChunk(q)
    PROVE  WholeInv'
  <1>1. PICK w : w = migrator[q]
    OBVIOUS
  <1>2. PICK i \in w.todo :
            /\ applied' = Append(applied, w.mappings[i])
            /\ Migrates(q, [w EXCEPT !.todo = @ \ {i}])
    BY <1>1 DEF MigratesChunk
  <1>3. PICK does : does = [w EXCEPT !.todo = @ \ {i}]
    OBVIOUS
  <1>4. w.step = "chunks" /\ migration' = migration /\ IsMigrator(w) /\ Carries(w) /\ AppliedAreMapped
    BY <1>1 DEF MigratesChunk, MigrationIInv, WholeInv
  <1>5. /\ does.step = "chunks" /\ does.state = w.state /\ does.mappings = w.mappings
        /\ does.todo = w.todo \ {i}
    BY <1>3, <1>4 DEF IsMigrator
  <1>6. \A p \in Migrators : migrator'[p] = IF p = q THEN does ELSE migrator[p]
    BY <1>2, <1>3 DEF Migrates, MigrationIInv
  <1>7. /\ w.mappings = migration.mappings /\ i \in DOMAIN w.mappings /\ migration.state # "draft"
        /\ Apart(w.mappings)
    BY <1>2, <1>4, <1>5 DEF Carries
  <1>8. w.mappings[i] \in Mapping
    BY <1>7 DEF Apart
  <1>9. /\ applied' \in Seq(Mapping) /\ applied \in Seq(Mapping)
        /\ DOMAIN applied = 1..Len(applied) /\ DOMAIN applied' = 1..(Len(applied) + 1)
        /\ Len(applied) \in Nat /\ applied'[Len(applied) + 1] = w.mappings[i]
        /\ \A j \in DOMAIN applied : applied'[j] = applied[j]
    BY <1>2, <1>4, <1>8 DEF AppliedAreMapped
  <1>10. AppliedAreMapped'
    <2>1. ASSUME NEW j \in DOMAIN applied' PROVE \E k \in DOMAIN migration.mappings : applied'[j] = migration.mappings[k]
      <3>1. CASE j \in DOMAIN applied
        BY <1>4, <1>9, <3>1 DEF AppliedAreMapped
      <3>2. CASE j \notin DOMAIN applied
        <4>1. j = Len(applied) + 1
          BY <1>9, <2>1, <3>2
        <4> QED BY <1>7, <1>9, <4>1
      <3> QED BY <3>1, <3>2
    <2> QED BY <1>4, <1>7, <1>9, <2>1 DEF AppliedAreMapped
  <1>11. \A m : IsApplied(m) => IsApplied(m)'
    BY <1>9 DEF IsApplied
  <1>12. IsApplied(w.mappings[i])'
    BY <1>9 DEF IsApplied
  <1>13. AllApplied(migration.mappings) => AllApplied(migration.mappings)'
    BY <1>4, <1>11 DEF AllApplied
  <1>14. Carries(does)'
    <2>1. \A j \in DOMAIN does.mappings : j \in does.todo \/ IsApplied(does.mappings[j])'
      BY <1>4, <1>5, <1>11, <1>12 DEF Carries
    <2>2. Apart(does.mappings)' /\ does.todo \subseteq DOMAIN does.mappings
      BY <1>4, <1>5, <1>7 DEF Apart, Carries
    <2>3. does.state = "executed" => AllApplied(migration.mappings)'
      BY <1>4, <1>5, <1>13 DEF Carries
    <2> QED BY <1>4, <1>5, <1>7, <2>1, <2>2, <2>3 DEF Carries
  <1>15. ASSUME NEW u, Carries(u) PROVE Carries(u)'
    <2>1. u.step = "chunks" => \A j \in DOMAIN u.mappings : j \in u.todo \/ IsApplied(u.mappings[j])'
      BY <1>11, <1>15 DEF Carries
    <2>2. Apart(u.mappings)'
      BY <1>15 DEF Carries, Apart
    <2> QED BY <1>4, <1>13, <1>15, <2>1, <2>2 DEF Carries
  <1>16. ASSUME NEW p \in Migrators PROVE Carries(migrator[p])'
    <2>1. PICK u : u = migrator'[p]
      OBVIOUS
    <2>2. Carries(u)'
      BY <1>6, <1>14, <1>15, <2>1 DEF WholeInv
    <2> QED BY <2>1, <2>2 DEF Carries
  <1>17. ExecutedWhole'
    BY <1>4, <1>13, ExecutedIsApplied DEF ExecutedWhole, AllApplied, IsApplied
  <1>18. Apart(migration.mappings)'
    BY <1>4 DEF WholeInv, Apart
  <1> QED BY <1>10, <1>16, <1>17, <1>18 DEF WholeInv

LEMMA EndsChunksCarries ==
    ASSUME MigrationIInv, WholeInv, NEW q \in Migrators, EndsChunks(q)
    PROVE  WholeInv'
  <1> DEFINE w == migrator[q]
             does == [w EXCEPT !.step = "saves", !.state = "executed"]
  <1>1. /\ Migrates(q, IF w.state = "executing" THEN does ELSE NotMigrating)
        /\ UNCHANGED <<migration, applied>> /\ w.step = "chunks" /\ w.todo = {}
    BY DEF EndsChunks
  <1>2. IsMigrator(w) /\ Carries(w)
    BY DEF MigrationIInv, WholeInv
  <1>3. does.step = "saves" /\ does.state = "executed" /\ does.mappings = w.mappings
    BY <1>2 DEF IsMigrator
  <1> HIDE DEF does
  <1>4. CASE w.state # "executing"
    BY <1>1, <1>4, CarrierRests
  <1>5. CASE w.state = "executing"
    <2>1. w.mappings = migration.mappings /\ migration.state # "draft"
      BY <1>1, <1>2, <1>5 DEF Carries
    <2>2. AllApplied(migration.mappings)
      BY <1>1, <1>2, <2>1 DEF Carries, AllApplied
    <2>3. Carries(does)
      BY <1>2, <1>3, <2>1, <2>2 DEF Carries
    <2> QED BY <1>1, <1>5, <2>3, CarriersStep
  <1> QED BY <1>4, <1>5

LEMMA SavesMigrationCarries ==
    ASSUME MigrationIInv, WholeInv, NEW q \in Migrators, SavesMigration(q)
    PROVE  WholeInv'
  <1>1. PICK w : w = migrator[q]
    OBVIOUS
  <1>2. PICK does : does = IF w.state = "executing"
                           THEN [w EXCEPT !.step = "runs", !.saw = migration.saves + 1]
                           ELSE NotMigrating
    OBVIOUS
  <1>3. /\ Migrates(q, does) /\ applied' = applied /\ w.step = "saves"
        /\ Carries(w) /\ Apart(migration.mappings) /\ AppliedAreMapped
    BY <1>1, <1>2 DEF SavesMigration, WholeInv
  <1>4. /\ Becomes(migration, w) /\ IsMigrator(w)
        /\ migration'.state = w.state /\ migration'.mappings = w.mappings
    BY <1>1, SaveBecomes
  <1>5. /\ migration.state # "draft" => migration'.state # "draft" /\ migration'.mappings = migration.mappings
        /\ w.state # "draft" => migration'.mappings = migration.mappings
    BY <1>4 DEF Becomes, Extends, Previews, MarksAs, Ends
  <1>6. AppliedAreMapped'
    BY <1>3, <1>4, <1>5 DEF AppliedAreMapped, Becomes, Extends, Previews, MarksAs, Ends
  <1>7. \A m : IsApplied(m)' <=> IsApplied(m)
    BY <1>3 DEF IsApplied
  <1>8. migration.state # "draft" /\ AllApplied(migration.mappings) =>
            migration'.state # "draft" /\ AllApplied(migration.mappings)'
    BY <1>5, <1>7 DEF AllApplied
  <1>9. ExecutedWhole'
    <2> SUFFICES ASSUME migration'.state = "executed" PROVE AllApplied(migration.mappings)'
      BY DEF ExecutedWhole, AllApplied, IsApplied
    <2>1. migration.state # "draft" /\ AllApplied(migration.mappings)
      BY <1>3, <1>4 DEF Carries
    <2> QED BY <1>8, <2>1
  <1>10. Apart(migration.mappings)'
    BY <1>3, <1>4 DEF Carries, Apart
  <1>11. ASSUME NEW u, Carries(u) PROVE Carries(u)'
    <2>1. Apart(u.mappings)'
      BY <1>11 DEF Carries, Apart
    <2>2. u.step = "chunks" => \A j \in DOMAIN u.mappings : j \in u.todo \/ IsApplied(u.mappings[j])'
      BY <1>7, <1>11 DEF Carries
    <2> QED BY <1>5, <1>8, <1>11, <2>1, <2>2 DEF Carries
  <1>12. Carries(does)'
    <2>1. CASE w.state = "executing"
      <3>1. does.step = "runs" /\ does.state = "executing" /\ does.mappings = w.mappings
        BY <1>2, <1>4, <2>1 DEF IsMigrator
      <3>2. Apart(does.mappings)'
        BY <1>3, <3>1 DEF Carries, Apart
      <3> QED BY <1>4, <2>1, <3>1, <3>2 DEF Carries
    <2>2. CASE w.state # "executing"
      <3>1. does.step = "rest" /\ does.mappings = <<>>
        BY <1>2, <2>2 DEF NotMigrating
      <3>2. Apart(<<>>)'
        BY DEF Apart
      <3> QED BY <3>1, <3>2 DEF Carries
    <2> QED BY <2>1, <2>2
  <1>13. ASSUME NEW p \in Migrators PROVE Carries(migrator[p])'
    <2>1. PICK u : u = migrator'[p]
      OBVIOUS
    <2>2. u = IF p = q THEN does ELSE migrator[p]
      BY <1>3, <2>1 DEF Migrates, MigrationIInv
    <2>3. Carries(u)'
      BY <1>11, <1>12, <2>2 DEF WholeInv
    <2> QED BY <2>1, <2>3 DEF Carries
  <1> QED BY <1>6, <1>9, <1>10, <1>13 DEF WholeInv

LEMMA WholeStep == MigrationIInv /\ WholeInv /\ [MigrationNext]_migrationVars => WholeInv'
  <1> SUFFICES ASSUME MigrationIInv, WholeInv, [MigrationNext]_migrationVars PROVE WholeInv'
    OBVIOUS
  <1>1. CASE \/ UNCHANGED migrationVars \/ VersionsChange
             \/ \E side \in Sides : VersionIsPublished(side)
    <2>1. migration' = migration /\ applied' = applied /\ migrator' = migrator
      BY <1>1 DEF migrationVars, VersionsChange, VersionIsPublished
    <2>2. \A u : Carries(u) => Carries(u)'
      BY <2>1 DEF Carries, Apart, AllApplied, IsApplied
    <2>3. ASSUME NEW p \in Migrators PROVE Carries(migrator[p])'
      <3>1. PICK u : u = migrator[p]
        OBVIOUS
      <3>2. Carries(u)'
        BY <2>2, <3>1 DEF WholeInv
      <3> QED BY <2>1, <3>1, <3>2 DEF Carries
    <2> QED BY <2>1, <2>3 DEF WholeInv, AppliedAreMapped, ExecutedWhole, Apart
  <1>2. ASSUME NEW q \in Migrators, ReadsMigration(q) PROVE WholeInv'
    BY <1>2, ReadsMigrationCarries
  <1>3. ASSUME NEW q \in Migrators, ReadsMappings(q) PROVE WholeInv'
    BY <1>3, ReadsMappingsCarries
  <1>4. ASSUME NEW q \in Migrators, IsTurnedAway(q) \/ MigrationConflicts(q) \/ MigrationIsCut(q) PROVE WholeInv'
    BY <1>4, CarrierRests DEF IsTurnedAway, MigrationConflicts, MigrationIsCut
  <1>5. ASSUME NEW q \in Migrators, AddsMapping(q) PROVE WholeInv'
    BY <1>5, AddsMappingCarries
  <1>6. ASSUME NEW q \in Migrators, RunsDryRun(q) PROVE WholeInv'
    BY <1>6, RunsDryRunCarries
  <1>7. ASSUME NEW q \in Migrators, MarksExecuting(q) PROVE WholeInv'
    BY <1>7, MarksExecutingCarries
  <1>8. ASSUME NEW q \in Migrators, ResumesExecution(q) PROVE WholeInv'
    BY <1>8, ResumesExecutionCarries
  <1>9. ASSUME NEW q \in Migrators, SavesMigration(q) PROVE WholeInv'
    BY <1>9, SavesMigrationCarries
  <1>10. ASSUME NEW q \in Migrators, FindsOutstanding(q) PROVE WholeInv'
    BY <1>10, FindsOutstandingCarries
  <1>11. ASSUME NEW q \in Migrators, MigratesChunk(q) PROVE WholeInv'
    BY <1>11, MigratesChunkCarries
  <1>12. ASSUME NEW q \in Migrators, EndsChunks(q) PROVE WholeInv'
    BY <1>12, EndsChunksCarries
  <1> QED BY <1>1, <1>2, <1>3, <1>4, <1>5, <1>6, <1>7, <1>8, <1>9, <1>10, <1>11, <1>12
          DEF MigrationNext

\* An executed migration has applied each of its mappings, for any concepts and
\* requests and however often runChunks was cut short, taken up again, or ran
\* beside another: what the executor has done is asked for before each run.
THEOREM ExecutedWholeAlways == MigrationSpec => []ExecutedWhole
  <1>1. WholeInv => ExecutedWhole
    BY DEF WholeInv
  <1> QED BY <1>1, WholeInitInv, WholeStep, MigrationInvariant, PTL DEF MigrationSpec

=============================================================================
