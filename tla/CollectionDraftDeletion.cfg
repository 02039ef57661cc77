SPECIFICATION Spec
CONSTANTS
    a1 = a1  a2 = a2  k1 = k1  k2 = k2  s1 = s1  s2 = s2  f1 = f1  f2 = f2
    e1 = e1  r1 = r1  o1 = o1  NoOne = NoOne
    Owners = {o1}
    Refs = {r1}
    DraftInputs <- OneInput
    Actors = {a1, a2}
    Creds = {k1, k2}
    Signers = {s1}
    Fingerprints = {f1}
    Editors = {}
    DirectOwners = {}
    LockTTL = 2
    ApprovalTTL = 2
    DraftTTL = 2
    MaxTime = 3
    MaxRevision = 1
    MaxContent = 1
    MaxVersion = 3
SYMMETRY Symmetry
PROPERTIES
    CollectionsGoWithRelease
CHECK_DEADLOCK FALSE
