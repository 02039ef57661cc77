SPECIFICATION Spec
CONSTANTS
    Staff = {s1, s2, s3}
    Targets = {t1}
    Requests = {q1}
    Credentials = {k1}
    Handlers = {h1, h2}
    Profiles <- AdminProfiles
    Operations <- AllOperations
    MaxRequired = 2
    MaxAudit = 5
    NULL = NULL
SYMMETRY Symmetry
CONSTRAINT Focus
INVARIANTS
    TypeOK
    ApprovedByQuorum
    StatusFollowsDecisions
    AdminRemains
    NoOrphans
    AuditMatchesTables
PROPERTIES
    ClosedIsFinal
    NothingByTheDeleted
CHECK_DEADLOCK FALSE
