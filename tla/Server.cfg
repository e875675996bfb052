\* A portfolio request of a prompt and of a slow client, and the script, with
\* the shipped timeouts in seconds, except a flush of two and two attempts.
CONSTANTS
    prompt = prompt
    slow = slow
    curl = curl
    Requests <- All
    Slow <- Slows
    Poller = curl
    RequestTimeout = 2
    ReadyBudget = 1
    ReadHeaderTimeout = 2
    WriteTimeout = 5
    ShutdownTimeout = 5
    FlushTimeout = 2
    MaxAttempts = 2
SPECIFICATION FairSpec
INVARIANTS
    TypeOK
    PromptRequestsDrained
    CleanExitLosesNothing
    StopsInTime
    ReadyIsFresh
CHECK_DEADLOCK FALSE
PROPERTIES
    SignalEndsProcess
    ScriptEnds
