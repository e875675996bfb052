\* Two concurrent requests, one with a rejected id, under the fairness of FairSpec.
CONSTANTS
    r1 = r1
    r2 = r2
    r3 = r3
    scrape = scrape
    nobody = nobody
    Requests <- OneBad
    Malformed <- Bad
    Scraper <- scrape
    Free <- nobody
    RequestTimeout = 1
    WriteTimeout = 3
SPECIFICATION FairSpec
PROPERTIES
    Contract
    EveryRequestEnds
