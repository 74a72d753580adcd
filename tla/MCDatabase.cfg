SPECIFICATION Spec
CONSTANT Leaves <- MCLeaves
CONSTANT PopulatedRevisions = {5}
CONSTANT Tenants = {"t1", "t2"}
CONSTANT Companies <- MCCompanies
CONSTANT Branches <- MCBranches
CONSTANT Ids = {1, 2}
CONSTANT NULL = NULL
CONSTANT MaxRows = 7
CONSTANT MaxLeaves = 1
CHECK_DEADLOCK FALSE
INVARIANT MigrationsRoundTrip
INVARIANT TenantsAreSeparated
INVARIANT HistorySurvivesItsParents
INVARIANT CanonicalKeepsItsOrigin
INVARIANT ErasureIsComplete
INVARIANT TenantsCanBeErased
INVARIANT FindingInRunScope
INVARIANT ExplanationStaysInFinding
