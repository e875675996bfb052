\* The documented property V1QuantitiesExact, alone, on the same inputs as the passing run.
CONSTANTS
    IntMax = 127
    Places = 1
    Scale = 10
    Letters <- Codes
    MaxResponseBytes = 10
    Categories <- Types
    Customers <- Asked
    CoreResponses <- Responses
SPECIFICATION CoreSpec
INVARIANTS
    V1QuantitiesExact
CHECK_DEADLOCK FALSE
