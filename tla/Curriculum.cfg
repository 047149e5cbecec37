SPECIFICATION Spec
CONSTANTS
  Curators = {q1, q2}
  a = a
  b = b
  c = c
  Domains = {{a, b}, {c}}
  MaxTaxonomySaves = 5
  Migrators = {g1, g2}
  SourceConcepts = {a, b}
  TargetConcepts = {a, c}
  MaxMigrationSaves = 6
  MaxApplied = 3
  MaxSyllabusChanges = 1
  Profiles = {p1, p2}
  ProfileRequests = {r1, r2}
  Marks = {1, 2}
  MaxProfileSaves = 3
SYMMETRY Alike
INVARIANTS
  DepthsFollow
  NothingUnresolved
  ExecutedWhole
  PublishedAddsUp
PROPERTIES
  NoEditIsLost
CHECK_DEADLOCK FALSE
