SPECIFICATION Spec
CONSTANTS
    p1 = p1  c1 = c1  r1 = r1  r2 = r2  d1 = d1
    Products = {p1}
    Components = {c1}
    Releases = {r1, r2}
    Distributions = {d1}
    Contents = {x}
    Identifiers = {i1}
    IdentifierSets = {{i1}}
    Files = {f1}
    SupportIds = {s1}
    Creators = {h1}
    Clients = {k1}
    Anonymous = {}
    Grants <- ComponentGrants
    MaxSuffix = 1
    CLEOwners <- SomeCLEOwners
    MaxEvent = 1
    ReadURLs <- CLEAndComponents
    MaxCount = 3
    MaxWrites = 6
    NULL = NULL
SYMMETRY Symmetric
CONSTRAINT Focus
INVARIANTS
    ReferencesResolve
    ReleaseUUIDsDisjoint
    ValidatorIsCurrent
PROPERTIES
    RevisionCoversDistributions
CHECK_DEADLOCK FALSE
