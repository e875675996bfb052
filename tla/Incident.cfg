\* One run of demo-trigger-incident and any number of recoveries, one fault, and
\* perhaps a marker from before.  Intervals and pauses keep the order of the
\* shipped ones: pause < interval < sleep, a window of several intervals, and a
\* burst larger than the threshold, any of whose requests may be answered 200.
CONSTANTS
    Interval = 3
    Slots = 5
    Threshold = 2
    Settle = 4
    Burst = 3
    CallTime = 1
    BurstAnswers = {200, 502}
    PollEvery = 2
    MaxPolls = 6
    Runs = 1
    Faults = 1
SPECIFICATION Spec
INVARIANTS
    BurstDetected
    FiringJustified
    ClearedUnlessRewritten
PROPERTIES
    ZeroMeansQuiet
    AlertQuietAtQuery
