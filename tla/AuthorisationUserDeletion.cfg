SPECIFICATION Spec
CONSTANTS
    t0 = t0  t1 = t1  e0 = e0  e1 = e1
    u1 = u1  p1 = p1  r1 = r1  a1 = a1  pg1 = pg1  rg1 = rg1  NULL = NULL
    Users = {u1}
    Templates = {t0, t1}
    Entitlements = {e0, e1}
    PublicTemplate = t0
    PublicEntitlement = e0
    PublicRules <- AllowAll
    ProductGroups = {pg1}
    ReleaseGroups = {rg1}
    Products = {p1}
    ProductReleases = {r1}
    Components = {}
    ComponentReleases = {}
    Artifacts = {a1}
    ProductOf <- OneProduct
    ComponentOf <- NoComponents
    CollectionsOf <- OneCollection
    ArtifactTypes = {}
    Capabilities = {"read"}
    RuleSets <- Denying
    Grants <- SomeGrants
    Validities <- Windows
    Requests = {q1}
    Queries <- Reads
    MaxTemplateRevision = 2
    MaxWrites = 3
    MaxAudit = 5
    MaxTime = 1
PROPERTIES
    RevocationIsAudited
CHECK_DEADLOCK FALSE
