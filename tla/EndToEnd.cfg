\* One request for either customer, with the mocks and with every other response.
CONSTANTS
    IntMax = 99999997
    Places = 1
    Scale = 10
    Letters <- Codes
    Names <- Texts
    MaxResponseBytes = 10
    Categories <- Types
    Customers <- Asked
    CoreResponses <- CoreFaults
    MarketResponses <- MarketFaults
SPECIFICATION Spec
INVARIANTS
    MarketFailsClosed
    SeededAnswer
    PublicAnswerAddsUp
    StatusDecided
    PayloadReachesClient
CHECK_DEADLOCK FALSE
