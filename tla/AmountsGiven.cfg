\* The documented property AmountsGiven, alone, on the same inputs as the passing run.
CONSTANTS
    IntMax = 127
    Places = 1
    Scale = 10
    Letters <- Codes
    MaxResponseBytes = 10
    MarketResponses <- Responses
    SymbolLists <- Lists
SPECIFICATION MarketSpec
INVARIANTS
    AmountsGiven
CHECK_DEADLOCK FALSE
