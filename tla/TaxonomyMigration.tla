--------------------------- MODULE TaxonomyMigration ---------------------------
(* A migration from one version of a syllabus to another: its mappings, the   *)
(* dry run, and an execution that applies them chunk by chunk and may be cut  *)
(* short and taken up again.                                                  *)
(* A request reads the row, then the mappings, then the concepts of the two   *)
(* versions, and saves the whole migration if the row is still the one its    *)
(* client saw, just before its request read it.                               *)
(* A dispositioned exception is "settled": the code nowhere asks whether it   *)
(* was accepted or rejected.                                                  *)
EXTENDS Integers, FiniteSets, Sequences

CONSTANTS
    Migrators,          \* requests being served at once
    SourceConcepts,     \* concepts the source version holds, or may come to
    TargetConcepts,     \* those of the target
    MaxMigrationSaves,  \* bound of the instance: saves of the migration
    MaxApplied,         \* bound of the instance: mappings applied
    MaxSyllabusChanges  \* bound of the instance: changes of the two versions

ASSUME MigrationAssumption ==
    /\ IsFiniteSet(SourceConcepts \cup TargetConcepts)
    /\ {MaxMigrationSaves, MaxApplied, MaxSyllabusChanges} \subseteq Nat

Single(S) == {{c} : c \in S}
Several(S) == {T \in SUBSET S : Cardinality(T) >= 2}
Dispositions == {"pending", "settled"}

\* TaxonomyMapping.create.  A rename is an identity here: both run unattended,
\* and nothing asks for their disposition.
Mapping ==
    [kind : {"identity"}, from : Single(SourceConcepts), to : Single(TargetConcepts), disposition : {"pending"}]
    \cup [kind : {"move"}, from : Single(SourceConcepts), to : Single(TargetConcepts), disposition : Dispositions]
    \cup [kind : {"split"}, from : Single(SourceConcepts), to : Several(TargetConcepts), disposition : Dispositions]
    \cup [kind : {"merge"}, from : Several(SourceConcepts), to : Single(TargetConcepts), disposition : Dispositions]
    \cup [kind : {"removal"}, from : Single(SourceConcepts), to : {{}}, disposition : Dispositions]

VARIABLES
    versions,       \* the two: the concepts they hold, which of them are published
                    \* and so stay as they are, and how often one changed
    migration,      \* the row and its mappings, in order; saves is aggregate_version
                    \* and covers a history: what the source held at the last dry run
                    \* before it was marked executing
    applied,        \* the executor's: mappings it has carried out
    migrator        \* each request

Sides == {"source", "target"}

migrationVars == <<versions, migration, applied, migrator>>

NotMigrating ==
    [step |-> "rest", op |-> "none", saw |-> 0, state |-> "draft", preview |-> "none",
     covers |-> {}, mappings |-> <<>>, todo |-> {}]

MigrationInit ==
    /\ versions \in [source : SUBSET SourceConcepts, target : SUBSET TargetConcepts,
                     published : SUBSET Sides, changes : {0}]
    /\ migration = [state |-> "draft", mappings |-> <<>>, preview |-> "none", covers |-> {}, saves |-> 1]
    /\ applied = <<>>
    /\ migrator = [q \in Migrators |-> NotMigrating]

-----------------------------------------------------------------------------
(* Mappings and the dry run *)

Named(m) == m.from \cup m.to

NamedBy(ms) == UNION {Named(ms[i]) : i \in DOMAIN ms}

MayAddMapping(v, ms, m) ==
    /\ m.from \subseteq v.source /\ m.to \subseteq v.target
    /\ Named(m) \cap NamedBy(ms) = {}

\* Loading adds the stored mappings one after the other.
Hydrates(v, ms) == \A i \in DOMAIN ms : MayAddMapping(v, SubSeq(ms, 1, i - 1), ms[i])

\* allExceptionsDispositioned of the dry run: a concept no mapping names is an
\* exception nobody can disposition.
NoExceptionPending(v, ms) ==
    /\ v.source \subseteq NamedBy(ms)
    /\ \A i \in DOMAIN ms : ms[i].kind # "identity" => ms[i].disposition # "pending"

-----------------------------------------------------------------------------
(* Loading, and saving *)

Migrates(q, does) == migrator' = [migrator EXCEPT ![q] = does]

ReadsMigration(q) ==
    /\ migrator[q] = NotMigrating /\ migration.saves < MaxMigrationSaves
    /\ \E op \in {"map", "dry run", "execute"} :
           Migrates(q, [NotMigrating EXCEPT !.step = "row", !.op = op, !.saw = migration.saves,
                                            !.state = migration.state, !.preview = migration.preview,
                                            !.covers = migration.covers])
    /\ UNCHANGED <<versions, migration, applied>>

ReadsMappings(q) ==
    /\ migrator[q].step = "row"
    /\ Migrates(q, [migrator[q] EXCEPT !.step = "mappings", !.mappings = migration.mappings])
    /\ UNCHANGED <<versions, migration, applied>>

Loads(q, op) ==
    /\ migrator[q].step = "mappings" /\ migrator[q].op = op
    /\ Hydrates(versions, migrator[q].mappings)

\* The row does not load, or the request is refused by what it loaded.
IsTurnedAway(q) ==
    /\ migrator[q].step = "mappings"
    /\ Migrates(q, NotMigrating)
    /\ UNCHANGED <<versions, migration, applied>>

Lets(q) ==
    /\ migrator[q].saw = migration.saves
    /\ ~(migration.state = "executing" /\ migrator[q].state = "executing")

\* A marked execution goes on with the version it has just saved.
SavesMigration(q) ==
    /\ migrator[q].step = "saves" /\ Lets(q)
    /\ migration' = [state |-> migrator[q].state, mappings |-> migrator[q].mappings,
                     preview |-> migrator[q].preview, covers |-> migrator[q].covers, saves |-> migration.saves + 1]
    /\ Migrates(q, IF migrator[q].state = "executing"
                   THEN [migrator[q] EXCEPT !.step = "runs", !.saw = migration.saves + 1]
                   ELSE NotMigrating)
    /\ UNCHANGED <<versions, applied>>

MigrationConflicts(q) ==
    /\ migrator[q].step = "saves" /\ ~Lets(q)
    /\ Migrates(q, NotMigrating)
    /\ UNCHANGED <<versions, migration, applied>>

-----------------------------------------------------------------------------
(* The four commands, and the end of their process *)

AddsMapping(q) ==
    /\ Loads(q, "map") /\ migrator[q].state = "draft"
    /\ \E m \in Mapping :
           /\ MayAddMapping(versions, migrator[q].mappings, m)
           /\ Migrates(q, [migrator[q] EXCEPT !.step = "saves", !.mappings = Append(@, m)])
    /\ UNCHANGED <<versions, migration, applied>>

RunsDryRun(q) ==
    /\ Loads(q, "dry run")
    /\ Migrates(q, [migrator[q] EXCEPT !.step = "saves",
            !.preview = IF NoExceptionPending(versions, migrator[q].mappings) THEN "resolved" ELSE "pending",
            !.covers = IF migrator[q].state = "draft" THEN versions.source ELSE @])
    /\ UNCHANGED <<versions, migration, applied>>

\* Mutant: the preview is asked for and not read.
MutantMarksExecuting(q) ==
    /\ Loads(q, "execute") /\ migrator[q].preview # "none" /\ migrator[q].state = "draft"
    /\ Migrates(q, [migrator[q] EXCEPT !.step = "saves", !.state = "executing"])
    /\ UNCHANGED <<versions, migration, applied>>

\* The gate is the stored preview, not the mappings just loaded.
MarksExecuting(q) ==
    /\ Loads(q, "execute") /\ migrator[q].preview = "resolved" /\ migrator[q].state = "draft"
    /\ Migrates(q, [migrator[q] EXCEPT !.step = "saves", !.state = "executing"])
    /\ UNCHANGED <<versions, migration, applied>>

\* An execution found under way, or done, is taken up without a save.
ResumesExecution(q) ==
    /\ Loads(q, "execute") /\ migrator[q].preview = "resolved" /\ migrator[q].state # "draft"
    /\ Migrates(q, [migrator[q] EXCEPT !.step = "runs"])
    /\ UNCHANGED <<versions, migration, applied>>

\* The places of the mappings that name a concept not migrated yet.
Outstanding(ms) == {i \in DOMAIN ms : ~(Named(ms[i]) \subseteq NamedBy(applied))}

FindsOutstanding(q) ==
    /\ migrator[q].step = "runs"
    /\ Migrates(q, [migrator[q] EXCEPT !.step = "chunks", !.todo = Outstanding(migrator[q].mappings)])
    /\ UNCHANGED <<versions, migration, applied>>

\* Chunks of one mapping, the smallest a client may ask for, in their order.
MigratesChunk(q) ==
    /\ migrator[q].step = "chunks" /\ Len(applied) < MaxApplied
    /\ \E i \in migrator[q].todo :
           /\ \A j \in migrator[q].todo : i <= j
           /\ applied' = Append(applied, migrator[q].mappings[i])
           /\ Migrates(q, [migrator[q] EXCEPT !.todo = @ \ {i}])
    /\ UNCHANGED <<versions, migration>>

\* Mutant: the last chunk is not run.
MutantEndsChunks(q) ==
    /\ migrator[q].step = "chunks" /\ Cardinality(migrator[q].todo) <= 1
    /\ Migrates(q, IF migrator[q].state = "executing"
                   THEN [migrator[q] EXCEPT !.step = "saves", !.state = "executed", !.todo = {}]
                   ELSE NotMigrating)
    /\ UNCHANGED <<versions, migration, applied>>

\* The transition of one already executed is refused.
EndsChunks(q) ==
    /\ migrator[q].step = "chunks" /\ migrator[q].todo = {}
    /\ Migrates(q, IF migrator[q].state = "executing"
                   THEN [migrator[q] EXCEPT !.step = "saves", !.state = "executed"]
                   ELSE NotMigrating)
    /\ UNCHANGED <<versions, migration, applied>>

\* The process dies, or the executor fails, between two steps.
MigrationIsCut(q) ==
    /\ migrator[q] # NotMigrating
    /\ Migrates(q, NotMigrating)
    /\ UNCHANGED <<versions, migration, applied>>

\* A curator adds a concept to a draft version, or removes one.
VersionsChange ==
    /\ versions.changes < MaxSyllabusChanges
    /\ \/ /\ "source" \notin versions.published
          /\ \E c \in SourceConcepts :
                versions' = [versions EXCEPT !.source = (@ \ {c}) \cup ({c} \ @), !.changes = @ + 1]
       \/ /\ "target" \notin versions.published
          /\ \E c \in TargetConcepts :
                versions' = [versions EXCEPT !.target = (@ \ {c}) \cup ({c} \ @), !.changes = @ + 1]
    /\ UNCHANGED <<migration, applied, migrator>>

\* PublishTaxonomyVersion of either: no migration is asked about.
VersionIsPublished(side) ==
    /\ side \notin versions.published
    /\ versions' = [versions EXCEPT !.published = @ \cup {side}]
    /\ UNCHANGED <<migration, applied, migrator>>

MigrationNext ==
    \/ \E q \in Migrators :
          \/ ReadsMigration(q) \/ ReadsMappings(q) \/ IsTurnedAway(q)
          \/ AddsMapping(q) \/ RunsDryRun(q) \/ MarksExecuting(q) \/ ResumesExecution(q)
          \/ SavesMigration(q) \/ MigrationConflicts(q)
          \/ FindsOutstanding(q) \/ MigratesChunk(q) \/ EndsChunks(q) \/ MigrationIsCut(q)
    \/ VersionsChange
    \/ \E side \in Sides : VersionIsPublished(side)

MigrationSpec == MigrationInit /\ [][MigrationNext]_migrationVars

-----------------------------------------------------------------------------
(* Properties *)

\* Of the concepts the preview covered an execution leaves none to a human: each
\* is mapped, and a mapping whose exception is still pending takes only concepts
\* the source gained after the preview.  The gate reads a preview stored earlier;
\* mappings may have been added since, and a draft source may have grown and been
\* published.
Settled(concepts, ms) ==
    /\ concepts \subseteq NamedBy(ms)
    /\ \A i \in DOMAIN ms :
          ms[i].kind # "identity" /\ ms[i].disposition = "pending" => ms[i].from \cap concepts = {}

NothingUnresolved == migration.state # "draft" => Settled(migration.covers, migration.mappings)

\* An executed migration has applied every one of its mappings, however often
\* its executions were cut short, taken up, or run beside one another.
ExecutedWhole ==
    migration.state = "executed" =>
        \A i \in DOMAIN migration.mappings : \E j \in DOMAIN applied : applied[j] = migration.mappings[i]

\* From the moment an execution is marked the mappings stay what they are,
\* whatever the requests that were under way had read.
MappingsStand ==
    [][migration.state # "draft" => migration'.mappings = migration.mappings /\ migration'.state # "draft"]_migration
=============================================================================
