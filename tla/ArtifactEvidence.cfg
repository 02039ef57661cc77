CONSTANTS
    a1 = a1  c1 = c1  d1 = d1  f1 = f1  h1 = h1  h2 = h2  k1 = k1
    NULL = NULL
    Artifacts = {a1}
    NumFormats = 1
    Contents = {c1}
    Distributions = {d1}
    Fingerprints = {f1}
    Handlers = {h1, h2}
    Clients = {k1}
    Apis = {"publisher", "admin"}
    Reads <- TwoKinds
    ImportSources = {"embedded", "referenced"}
    MaxVersion = 2
    MaxCalls = 2
SPECIFICATION Spec
SYMMETRY Symmetric
CONSTRAINT Focus
CHECK_DEADLOCK FALSE
INVARIANTS
    UploadedIsStored
    AcceptedOncePerFingerprint
    MatchingValidatorIsCurrent
