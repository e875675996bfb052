\* Every pair of an account list and a price table of MCPortfolioService.
CONSTANTS
    IntMax = 127
    Places = 1
    Scale = 10
    Letters <- Codes
    Names <- Texts
    AccountLists <- Lists
    PriceTables <- Tables
SPECIFICATION ServiceSpec
INVARIANTS
    ExactInRange
    RefusesExactly
    OneCurrency
    AsOfNewestHeld
CHECK_DEADLOCK FALSE
