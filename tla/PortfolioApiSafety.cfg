\* Two concurrent requests and a scraper, under the shipped proportion of timeouts: 2 and 5.
CONSTANTS
    r1 = r1
    r2 = r2
    r3 = r3
    scrape = scrape
    nobody = nobody
    Requests <- Two
    Malformed <- Nobody
    Scraper <- scrape
    Free <- nobody
    RequestTimeout = 2
    WriteTimeout = 5
SYMMETRY Sym
SPECIFICATION Spec
INVARIANTS
    TypeOK
    CallDiscipline
    FailClosed
    PageConsistent
    CountedOnce
    ReceivedIsCounted
    CallsInTime
    ErrorsDelivered
PROPERTIES
    PagesGrow
