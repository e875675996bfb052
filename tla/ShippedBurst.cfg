\* The fault demo-trigger-incident injects is Core v2, which the adapter maps: the
\* API answers every request of the burst with 200.  No other fault.
CONSTANTS
    Interval = 3
    Slots = 5
    Threshold = 2
    Settle = 4
    Burst = 3
    CallTime = 1
    BurstAnswers = {200}
    PollEvery = 2
    MaxPolls = 6
    Runs = 1
    Faults = 0
SPECIFICATION Spec
INVARIANTS
    TriggerDetects
