\* The adapter's handling of every response of MCCoreAdapter.
CONSTANTS
    IntMax = 1279
    Places = 2
    Scale = 100
    Letters <- Codes
    MaxResponseBytes = 10
    Categories <- Types
    Customers <- Asked
    CoreResponses <- Responses
SPECIFICATION CoreSpec
INVARIANTS
    V2QuantitiesExact
    V2AcceptsExactlyContract
    MappedWhole
    VersionsAgree
    QuantitiesReadBack
CHECK_DEADLOCK FALSE
