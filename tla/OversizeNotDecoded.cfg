\* The documented property OversizeNotDecoded, alone, on the same inputs as the passing run.
CONSTANTS
    IntMax = 127
    Places = 1
    Scale = 10
    Letters <- Codes
    MaxResponseBytes = 10
    MarketResponses <- Responses
    SymbolLists <- Lists
SPECIFICATION MarketSpec
INVARIANTS
    OversizeNotDecoded
CHECK_DEADLOCK FALSE
