SPECIFICATION Spec
CONSTANTS
    Zones <- MCZones
    Authority = "authority"
    Documents <- MCDocuments
    Origins <- MCOrigins
    SupportedVersions <- MCSupported
    MaxRetries = 1
    MaxRedirects = 2
INVARIANTS
    FailoverInOrder
    FailsOnlyExhausted
    TokenStaysHome
    HighestVersionAsked
PROPERTIES
    RefusalIsFinal
    DiscoveryEnds
