------------------------------ MODULE MCCurriculum ------------------------------
(* The three parts of the curriculum that commands edit, in one run: a        *)
(* behaviour chooses at its start which of them moves.  They share no rows:   *)
(* a migration sees the two versions it is between as what they hold.         *)
EXTENDS Taxonomy, TaxonomyMigration, ExamProfiles, TLC

VARIABLE edited

curriculumVars == <<taxonomyVars, migrationVars, profileVars, edited>>

Init ==
    /\ TaxonomyInit /\ MigrationInit /\ ProfilesInit
    /\ edited \in {"taxonomy", "migration", "profiles"}
    /\ versions.target = TargetConcepts
    /\ IF versions.published = Sides THEN versions.source = SourceConcepts
       ELSE versions.published = {} /\ Cardinality(versions.source) = 1
    /\ edited # "migration" => versions.published = Sides
    /\ edited # "profiles" => \A p \in Profiles : profile[p].total = CHOOSE n \in Marks : TRUE

\* Requests are alike, and so are the profiles of the year.
Alike == Permutations(Curators) \cup Permutations(Migrators)
         \cup Permutations(ProfileRequests) \cup Permutations(Profiles)

\* Between published versions there may be a second mapping, that needs no human
\* or drops a concept.  Drafts may change and be published under way: there one
\* request is served at a time, and a first mapping is an identity.
InBounds ==
    LET mappings == migration.mappings IN
    IF versions.changes = 0 /\ versions.published = Sides
    THEN Len(mappings) = 2 => /\ mappings[2].kind \in {"identity", "removal"}
                              /\ mappings[2].disposition = "pending" => mappings[1].disposition = "settled"
    ELSE /\ Cardinality({q \in Migrators : migrator[q] # NotMigrating}) <= 1
         /\ mappings # <<>> => mappings[1].kind = "identity"

TaxonomyMoves == edited = "taxonomy" /\ TaxonomyNext
                 /\ UNCHANGED <<migrationVars, profileVars, edited>>
MigrationMoves == edited = "migration" /\ MigrationNext /\ InBounds'
                  /\ UNCHANGED <<taxonomyVars, profileVars, edited>>
ProfilesMove == edited = "profiles" /\ ProfilesNext
                /\ UNCHANGED <<taxonomyVars, migrationVars, edited>>

Next == TaxonomyMoves \/ MigrationMoves \/ ProfilesMove

Spec == Init /\ [][Next]_curriculumVars
=============================================================================
