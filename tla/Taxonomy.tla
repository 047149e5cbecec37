------------------------------- MODULE Taxonomy -------------------------------
(* One version of a syllabus: concepts placed in a tree, prerequisites between*)
(* them, and its publication.  Curators edit it side by side: a command reads *)
(* the row, the nodes and the edges in statements of their own, edits what it *)
(* read, and writes the whole version if the row is still the one its client  *)
(* saw.  The client has seen the row just before its command reads it.        *)
(* A concept has one node in a version, so a node is named by its concept.    *)
EXTENDS Integers, FiniteSets

CONSTANTS
    Curators,        \* commands being served at once
    Domains,         \* the subject domains, each a set of concepts
    MaxTaxonomySaves \* bound of the instance: saves of the version

Concepts == UNION Domains

Top == "top"

ASSUME TaxonomyAssumption ==
    /\ IsFiniteSet(Concepts) /\ Top \notin Concepts
    /\ \A D, E \in Domains : D # E => D \cap E = {}
    /\ MaxTaxonomySaves \in Nat

Unplaced == [parent |-> "nowhere", depth |-> 0]

VARIABLES
    syllabus,        \* the rows: state, nodes, prerequisite edges
    taxonomySaves,   \* aggregate_version of the row
    curator          \* each command: what it has read of the rows, or would write

taxonomyVars == <<syllabus, taxonomySaves, curator>>

NotEditing == [step |-> "rest"]

TaxonomyInit ==
    /\ syllabus = [state |-> "draft", nodes |-> [c \in Concepts |-> Unplaced], edges |-> {}]
    /\ taxonomySaves = 1
    /\ curator = [q \in Curators |-> NotEditing]

-----------------------------------------------------------------------------
(* The tree and its invariants *)

Placed(v) == {c \in Concepts : v.nodes[c] # Unplaced}

ChildrenOf(v, c) == {d \in Placed(v) : v.nodes[d].parent = c}

\* Mutant: the children and not theirs.
MutantDescendantsOf(v, c) == ChildrenOf(v, c)

\* The least set that holds the children of c and those of its members.
DescendantsOf(v, c) ==
    {d \in Concepts : \A S \in SUBSET Concepts :
        (ChildrenOf(v, c) \subseteq S /\ \A e \in S : ChildrenOf(v, e) \subseteq S) => d \in S}

\* Some concepts lead to one another for ever.
HasCycle(leads) == \E S \in SUBSET Concepts \ {{}} : \A c \in S : \E d \in S : <<c, d>> \in leads

UpEdges(v) == {<<c, v.nodes[c].parent>> : c \in {d \in Placed(v) : v.nodes[d].parent # Top}}

NoOrphans(v) == \A e \in UpEdges(v) : e[2] \in Placed(v)

EndpointsExist(v) == \A e \in v.edges : {e[1], e[2]} \subseteq Placed(v)

RootsOf(v, D) == {c \in D : v.nodes[c].parent = Top}

OneRootPerDomain(v) == \A D \in Domains : D \cap Placed(v) # {} => Cardinality(RootsOf(v, D)) = 1

\* checkTaxonomyInvariants; that no concept is placed twice is the shape of nodes.
Validates(v) ==
    /\ NoOrphans(v) /\ ~HasCycle(UpEdges(v)) /\ OneRootPerDomain(v)
    /\ EndpointsExist(v) /\ ~HasCycle(v.edges)

-----------------------------------------------------------------------------
(* What an edit needs, and makes *)

MayAdd(v, c, p) ==
    /\ c \notin Placed(v)
    /\ IF p = Top THEN \A D \in Domains : c \in D => RootsOf(v, D) = {} ELSE p \in Placed(v)

Under(v, p) == [parent |-> p, depth |-> IF p = Top THEN 0 ELSE v.nodes[p].depth + 1]

\* The node itself is not among its descendants: a move under itself gets here.
MovesOn(v, c, p) == {c, p} \subseteq Placed(v) /\ p \notin DescendantsOf(v, c)

\* Below a moved node every depth is derived again, from the top down.
DepthsBelow(v, c, p) ==
    LET depth[d \in DescendantsOf(v, c) \cup {c}] ==
            IF d = c THEN v.nodes[p].depth + 1 ELSE depth[v.nodes[d].parent] + 1
    IN depth

Reparented(v, c, p) ==
    LET depth == DepthsBelow(v, c, p) IN
    [d \in Concepts |->
        IF d = c THEN [parent |-> p, depth |-> depth[c]]
        ELSE IF d \in DescendantsOf(v, c) THEN [v.nodes[d] EXCEPT !.depth = depth[d]] ELSE v.nodes[d]]

MayRemove(v, c) ==
    /\ c \in Placed(v) /\ ChildrenOf(v, c) = {}
    /\ \A e \in v.edges : c \notin {e[1], e[2]}

MayRequire(v, c, d) ==
    /\ c # d /\ {c, d} \subseteq Placed(v)
    /\ <<c, d>> \notin v.edges /\ ~HasCycle(v.edges \cup {<<c, d>>})

Additions(v) ==
    {[v EXCEPT !.nodes[m[1]] = Under(v, m[2])] :
        m \in {m \in Concepts \X (Concepts \cup {Top}) : MayAdd(v, m[1], m[2])}}

Moves(v) ==
    {[v EXCEPT !.nodes = Reparented(v, m[1], m[2])] :
        m \in {m \in Concepts \X Concepts : m[1] # m[2] /\ MovesOn(v, m[1], m[2])}}

Removals(v) == {[v EXCEPT !.nodes[c] = Unplaced] : c \in {c \in Concepts : MayRemove(v, c)}}

Requirements(v) ==
    {[v EXCEPT !.edges = @ \cup {m}] : m \in {m \in Concepts \X Concepts : MayRequire(v, m[1], m[2])}}

Publications(v) == IF Validates(v) THEN {[v EXCEPT !.state = "published"]} ELSE {}

\* What one command may make of a version; a published one it may not touch.
EditsOf(v) ==
    IF v.state = "draft"
    THEN Additions(v) \cup Moves(v) \cup Removals(v) \cup Requirements(v) \cup Publications(v)
    ELSE {}

-----------------------------------------------------------------------------
(* A command: TaxonomyMutation.handle *)

Curates(q, does) == curator' = [curator EXCEPT ![q] = does]

ReadsVersion(q) ==
    /\ curator[q] = NotEditing /\ taxonomySaves < MaxTaxonomySaves
    /\ Curates(q, [step |-> "row", saw |-> taxonomySaves, state |-> syllabus.state])
    /\ UNCHANGED <<syllabus, taxonomySaves>>

ReadsNodes(q) ==
    /\ curator[q].step = "row"
    /\ Curates(q, [step |-> "nodes", saw |-> curator[q].saw,
                   state |-> curator[q].state, nodes |-> syllabus.nodes])
    /\ UNCHANGED <<syllabus, taxonomySaves>>

\* With the edges as they are by now: rows of different saves may not fit.
Loaded(q) == [state |-> curator[q].state, nodes |-> curator[q].nodes, edges |-> syllabus.edges]

Edits(q) ==
    /\ curator[q].step = "nodes"
    /\ NoOrphans(Loaded(q)) /\ EndpointsExist(Loaded(q))
    /\ \E w \in EditsOf(Loaded(q)) :
           Curates(q, [step |-> "saves", saw |-> curator[q].saw, becomes |-> w])
    /\ UNCHANGED <<syllabus, taxonomySaves>>

\* The request is refused, by the load or by the edit, and nothing is written.
IsRefused(q) ==
    /\ curator[q].step = "nodes"
    /\ Curates(q, NotEditing)
    /\ UNCHANGED <<syllabus, taxonomySaves>>

\* A node is moved under itself: its depth is derived from its own, and it is
\* queued again, and so for ever.  The loop is synchronous and holds its process:
\* the curators that go on stand for requests in others.
MovesUnderItself(q) ==
    /\ curator[q].step = "nodes"
    /\ NoOrphans(Loaded(q)) /\ EndpointsExist(Loaded(q)) /\ curator[q].state = "draft"
    /\ \E c \in Concepts :
           /\ MovesOn(Loaded(q), c, c)
           /\ Curates(q, [step |-> "derives", nodes |-> [curator[q].nodes EXCEPT ![c].parent = c]])
    /\ UNCHANGED <<syllabus, taxonomySaves>>

DerivesAgain(q) == curator[q].step = "derives" /\ UNCHANGED taxonomyVars

\* Mutant: whatever the row has become.
MutantSavesVersion(q) ==
    /\ curator[q].step = "saves"
    /\ LET w == curator[q].becomes IN
       /\ syllabus' = IF w.state = "draft" THEN w ELSE [syllabus EXCEPT !.state = w.state]
       /\ taxonomySaves' = taxonomySaves + 1
    /\ Curates(q, NotEditing)

\* The nodes and edges of a draft are written with the row, in one transaction;
\* the publication writes the row alone.
SavesVersion(q) ==
    /\ curator[q].step = "saves" /\ curator[q].saw = taxonomySaves
    /\ LET w == curator[q].becomes IN
       /\ syllabus' = IF w.state = "draft" THEN w ELSE [syllabus EXCEPT !.state = w.state]
       /\ taxonomySaves' = taxonomySaves + 1
    /\ Curates(q, NotEditing)

Conflicts(q) ==
    /\ curator[q].step = "saves" /\ curator[q].saw # taxonomySaves
    /\ Curates(q, NotEditing)
    /\ UNCHANGED <<syllabus, taxonomySaves>>

TaxonomyNext ==
    \E q \in Curators :
        \/ ReadsVersion(q) \/ ReadsNodes(q) \/ Edits(q) \/ IsRefused(q)
        \/ MovesUnderItself(q) \/ DerivesAgain(q) \/ SavesVersion(q) \/ Conflicts(q)

TaxonomySpec == TaxonomyInit /\ [][TaxonomyNext]_taxonomyVars

-----------------------------------------------------------------------------
(* Properties *)

\* A published version passes every structural check, although the checks ran
\* over rows read one by one while others saved: taxonomy-version.ts, publish.
PublishedIsConsistent == syllabus.state = "published" => Validates(syllabus)

\* However nodes are added, moved and removed, what is stored is a tree whose
\* depths follow from it: the repository writes parents before children by them.
DepthsFollow ==
    /\ NoOrphans(syllabus)
    /\ \A c \in Placed(syllabus) : syllabus.nodes[c] = Under(syllabus, syllabus.nodes[c].parent)

\* Every save is one edit of the version as it stood, so nobody's is overwritten
\* and a published version stays as it is: the expected version of the update.
NoEditIsLost == [][syllabus' \in EditsOf(syllabus)]_syllabus

=============================================================================
