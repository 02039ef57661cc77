SPECIFICATION Spec
CONSTANTS
    p1 = p1  c1 = c1  r1 = r1  r2 = r2  d1 = d1
    Products = {p1}
    Components = {c1}
    Releases = {r1, r2}
    Distributions = {d1}
    Contents = {x}
    Identifiers = {i1}
    IdentifierSets = {{i1}}
    Files = {f1}
    SupportIds = {}
    Creators = {h1}
    Clients = {k1}
    Anonymous = {k1}
    Grants <- ReleaseGrants
    MaxSuffix = 0
    CLEOwners <- NoCLEOwners
    MaxEvent = 1
    ReadURLs <- ReleaseLists
    MaxCount = 3
    MaxWrites = 6
    NULL = NULL
SYMMETRY Symmetric
INVARIANTS
    ReleaseListValidatorIsCurrent
CHECK_DEADLOCK FALSE
