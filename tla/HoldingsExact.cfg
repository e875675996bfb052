\* The documented property HoldingsExact, alone, on the same inputs as the passing run.
CONSTANTS
    IntMax = 127
    Places = 1
    Scale = 10
    Letters <- Codes
    Names <- Texts
    AccountLists <- Lists
    PriceTables <- Tables
SPECIFICATION ServiceSpec
INVARIANTS
    HoldingsExact
CHECK_DEADLOCK FALSE
