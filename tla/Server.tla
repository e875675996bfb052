-------------------------------- MODULE Server --------------------------------
(***************************************************************************)
(* The process of the portfolio API: main and RunServer from start to      *)
(* exit, the requests it has in flight meanwhile, /health/ready, and       *)
(* scripts/wait-for-api.sh polling it.                                     *)
(*                                                                         *)
(* A request is a connection of its own.  Its handler calls Core, then     *)
(* Market, then writes: the portfolio handler is PortfolioApi without its  *)
(* verdicts, the readiness handler has one budget over both calls.         *)
(*                                                                         *)
(* Time is whole seconds.  Timers are exact, and everything else takes no  *)
(* time unless it waits for a peer; Shutdown looks for idle connections    *)
(* at least every 550 ms, so it notices within the second.                 *)
(***************************************************************************)
EXTENDS Integers

CONSTANTS
    Requests,           \* requests that may arrive
    Poller,             \* the one among them that is the script's curl
    Slow,               \* clients that may read their response slowly
    RequestTimeout,     \* of one upstream call: 2 s
    ReadyBudget,        \* of a readiness check: 1 s
    ReadHeaderTimeout,  \* 2 s
    WriteTimeout,       \* from the header to the end of the response: 5 s
    ShutdownTimeout,    \* 5 s
    FlushTimeout,       \* of shutdownTracing: 5 s
    MaxAttempts         \* of the script: 30

ASSUME ServerAssumption ==
    /\ {RequestTimeout, ReadyBudget, ReadHeaderTimeout, MaxAttempts} \subseteq Nat \ {0}
    /\ {WriteTimeout, ShutdownTimeout, FlushTimeout} \subseteq Nat
    /\ 2 * RequestTimeout < WriteTimeout /\ 2 * RequestTimeout < ShutdownTimeout
    /\ ReadyBudget <= 2 * RequestTimeout
    /\ Poller \in Requests /\ Slow \subseteq Requests \ {Poller}

VARIABLES
    process,    \* setup, starting, serving, draining, flushing, exited or killed
    listener,   \* none, open, failed or closed
    signalled,  \* the signal context is done
    exitCode,   \* of an exited process
    stopping,   \* seconds since draining began
    flushing,   \* seconds since the tracing flush began
    phase,      \* of a request: none, connected, core, market, write, done or cut
    age,        \* seconds since its connection, or since its header was read
    call,       \* seconds since its current upstream call began
    verdict,    \* none, ok or failed: what the readiness handler answers the script
    begun,      \* the requests whose handler ran when draining began
    lost,       \* the requests in flight when the process ended
    waiter,     \* wait-for-api.sh: trying, pausing, up or gaveUp
    attempts    \* attempts it has made

processVars == <<process, listener, signalled, exitCode, stopping, flushing, begun, lost>>
requestVars == <<phase, age, call, verdict>>
waiterVars == <<waiter, attempts>>
vars == <<processVars, requestVars, waiterVars>>

Alive == process \notin {"exited", "killed"}
Running == {"core", "market", "write"}
InFlight == {r \in Requests : phase[r] \in Running \cup {"connected"}}

Init ==
    /\ process = "setup"
    /\ listener = "none"
    /\ signalled = FALSE
    /\ exitCode = 0
    /\ stopping = 0 /\ flushing = 0
    /\ begun = {} /\ lost = {}
    /\ phase = [r \in Requests |-> "none"]
    /\ age = [r \in Requests |-> 0]
    /\ call = [r \in Requests |-> 0]
    /\ verdict = "none"
    /\ waiter = "trying" /\ attempts = 0

-----------------------------------------------------------------------------
(* main and RunServer.                                                     *)

\* The process is gone, and its connections with it.
End(how) ==
    /\ process' = how
    /\ listener' = "closed"
    /\ lost' = InFlight
    /\ phase' = [r \in Requests |-> IF r \in InFlight THEN "cut" ELSE phase[r]]
    /\ age' = [r \in Requests |-> 0]
    /\ call' = [r \in Requests |-> 0]
    /\ UNCHANGED <<signalled, stopping, flushing, begun, verdict, waiterVars>>

\* Logger, tracing or REQUEST_TIMEOUT: os.Exit skips what was deferred.
SetupFails ==
    /\ process = "setup"
    /\ exitCode' = 1
    /\ End("exited")

Setup ==
    /\ process = "setup"
    /\ process' = "starting"
    /\ UNCHANGED <<listener, signalled, exitCode, stopping, flushing, begun, lost, requestVars, waiterVars>>

\* The goroutine listens, before or after RunServer registers for signals.
Listen ==
    /\ process \in {"starting", "serving"}
    /\ listener = "none"
    /\ listener' \in {"open", "failed"}
    /\ UNCHANGED <<process, signalled, exitCode, stopping, flushing, begun, lost, requestVars, waiterVars>>

\* Accept fails for good: ListenAndServe closes the listener and returns.
ListenerFails ==
    /\ process \in {"starting", "serving"}
    /\ listener = "open"
    /\ listener' = "failed"
    /\ UNCHANGED <<process, signalled, exitCode, stopping, flushing, begun, lost, requestVars, waiterVars>>

NotifyContext ==
    /\ process = "starting"
    /\ process' = "serving"
    /\ UNCHANGED <<listener, signalled, exitCode, stopping, flushing, begun, lost, requestVars, waiterVars>>

\* SIGINT or SIGTERM while it is registered; a second one changes nothing.
Signal ==
    /\ process = "serving"
    /\ signalled' = TRUE
    /\ UNCHANGED <<process, listener, exitCode, stopping, flushing, begun, lost, requestVars, waiterVars>>

\* Before NotifyContext and after stop() a signal ends the process at once.
SignalKills ==
    /\ process \in {"setup", "starting", "flushing"}
    /\ UNCHANGED exitCode
    /\ End("killed")

ServeFailed ==
    /\ process = "serving"
    /\ listener = "failed"
    /\ exitCode' = 1
    /\ End("exited")

\* Shutdown closes the listener first.
Drain ==
    /\ process = "serving"
    /\ signalled
    /\ process' = "draining"
    /\ listener' = "closed"
    /\ begun' = {r \in Requests : phase[r] \in Running}
    /\ UNCHANGED <<signalled, exitCode, stopping, flushing, lost, requestVars, waiterVars>>

\* No connection is left: RunServer returns nil, and main runs its deferred calls.
Drained ==
    /\ process = "draining"
    /\ InFlight = {}
    /\ process' = "flushing"
    /\ UNCHANGED <<listener, signalled, exitCode, stopping, flushing, begun, lost, requestVars, waiterVars>>

\* Bug: main takes every end of RunServer for a clean one.
ShutdownExpiresIgnored ==
    /\ process = "draining"
    /\ stopping = ShutdownTimeout
    /\ InFlight # {}
    /\ exitCode' = 0
    /\ End("exited")

\* Shutdown returns the context's error, and main exits without its deferred calls.
ShutdownExpires ==
    /\ process = "draining"
    /\ stopping = ShutdownTimeout
    /\ InFlight # {}
    /\ exitCode' = 1
    /\ End("exited")

\* shutdownTracing reaches the collector; then closeLog, and main returns.
Flushed ==
    /\ process = "flushing"
    /\ exitCode' = 0
    /\ End("exited")

\* Bug: the deadline of the flush never passes.
FlushExpiresNever ==
    /\ process = "flushing"
    /\ flushing > FlushTimeout
    /\ exitCode' = 0
    /\ End("exited")

\* Its deadline passes: a warning, and main returns all the same.
FlushExpires ==
    /\ process = "flushing"
    /\ flushing = FlushTimeout
    /\ exitCode' = 0
    /\ End("exited")

-----------------------------------------------------------------------------
(* Requests.                                                               *)

\* Another phase for r, its request so old, its call just begun; the process
\* and the script stay as they are.
Move(r, to, seconds) ==
    /\ phase' = [phase EXCEPT ![r] = to]
    /\ age' = [age EXCEPT ![r] = seconds]
    /\ call' = [call EXCEPT ![r] = 0]
    /\ UNCHANGED <<processVars, waiterVars>>

Connect(r) ==
    /\ listener = "open"
    /\ phase[r] = "none"
    /\ r = Poller => waiter = "trying"
    /\ Move(r, "connected", 0)
    /\ UNCHANGED verdict

HeaderLate(r) ==
    /\ phase[r] = "connected"
    /\ age[r] = ReadHeaderTimeout
    /\ Move(r, "cut", 0)
    /\ UNCHANGED verdict

\* The handler starts, also for a connection that was open when draining began.
CallCore(r) ==
    /\ phase[r] = "connected"
    /\ Move(r, "core", 0)
    /\ UNCHANGED verdict

CallMarket(r) ==
    /\ phase[r] = "core"
    /\ Move(r, "market", age[r])
    /\ UNCHANGED verdict

Answer(r, what) ==
    /\ Move(r, "write", age[r])
    /\ verdict' = IF r = Poller THEN what ELSE verdict

MarketOk(r) == phase[r] = "market" /\ Answer(r, "ok")

\* A bad answer, a transport error, or nothing to ask Market for.
CallFails(r) == phase[r] \in {"core", "market"} /\ Answer(r, "failed")

\* Bug: the HTTP client has no timeout.
TimedOutNoTimeout(r) ==
    phase[r] \in {"core", "market"} /\ r = Poller /\ age[r] = ReadyBudget

\* Bug: readiness runs under the request's context, without a budget.
TimedOutNoBudget(r) == phase[r] \in {"core", "market"} /\ call[r] = RequestTimeout

\* The client's timer of the call, or the readiness budget.
TimedOut(r) ==
    /\ phase[r] \in {"core", "market"}
    /\ \/ call[r] = RequestTimeout
       \/ r = Poller /\ age[r] = ReadyBudget

CallTimesOut(r) == TimedOut(r) /\ Answer(r, "failed")

Written(r) ==
    /\ phase[r] = "write"
    /\ Move(r, "done", 0)
    /\ UNCHANGED verdict

\* The server's write deadline.
WriteLate(r) ==
    /\ phase[r] = "write"
    /\ age[r] = WriteTimeout
    /\ Move(r, "cut", 0)
    /\ UNCHANGED verdict

-----------------------------------------------------------------------------
(* wait-for-api.sh                                                         *)

\* Bug: the attempt is not counted.
AttemptFailsUncounted ==
    /\ UNCHANGED attempts
    /\ waiter' = IF attempts = MaxAttempts THEN "gaveUp" ELSE "pausing"
    /\ phase' = [phase EXCEPT ![Poller] = "none"]
    /\ UNCHANGED <<processVars, age, call, verdict>>

AttemptFails ==
    /\ attempts' = attempts + 1
    /\ waiter' = IF attempts' = MaxAttempts THEN "gaveUp" ELSE "pausing"
    /\ phase' = [phase EXCEPT ![Poller] = "none"]
    /\ UNCHANGED <<processVars, age, call, verdict>>

Refused ==
    /\ waiter = "trying"
    /\ phase[Poller] = "none"
    /\ listener # "open"
    /\ AttemptFails

NotReady ==
    /\ waiter = "trying"
    /\ \/ phase[Poller] = "cut"
       \/ phase[Poller] = "done" /\ verdict = "failed"
    /\ AttemptFails

Ready ==
    /\ waiter = "trying"
    /\ phase[Poller] = "done" /\ verdict = "ok"
    /\ waiter' = "up"
    /\ UNCHANGED <<processVars, requestVars, attempts>>

-----------------------------------------------------------------------------
(* Time.                                                                   *)

\* r lets the clock go on: none of its timers is due, and it waits for a peer.
MayWait(r) ==
    CASE phase[r] = "connected" -> age[r] < ReadHeaderTimeout
      [] phase[r] \in {"core", "market"} -> ~TimedOut(r)
      [] phase[r] = "write" -> r \in Slow /\ age[r] < WriteTimeout
      [] OTHER -> TRUE

\* Bug: Shutdown is given a context without a deadline.
ProcessMayWaitForever ==
    CASE process = "draining" -> InFlight # {}
      [] process = "flushing" -> flushing < FlushTimeout
      [] OTHER -> TRUE

ProcessMayWait ==
    CASE process = "draining" -> stopping < ShutdownTimeout /\ InFlight # {}
      [] process = "flushing" -> flushing < FlushTimeout
      [] OTHER -> TRUE

Tick ==
    /\ \A r \in Requests : MayWait(r)
    /\ ProcessMayWait
    /\ age' = [r \in Requests |-> IF r \in InFlight THEN age[r] + 1 ELSE age[r]]
    /\ call' = [r \in Requests |-> IF phase[r] \in {"core", "market"} THEN call[r] + 1 ELSE call[r]]
    /\ stopping' = IF process \in {"draining", "flushing"} THEN stopping + 1 ELSE stopping
    /\ flushing' = IF process = "flushing" THEN flushing + 1 ELSE flushing
    /\ waiter' = IF waiter = "pausing" THEN "trying" ELSE waiter
    /\ UNCHANGED <<process, listener, signalled, exitCode, begun, lost, phase, verdict, attempts>>

Handler(r) ==
    CallMarket(r) \/ MarketOk(r) \/ CallFails(r) \/ CallTimesOut(r) \/ Written(r) \/ WriteLate(r)

Process ==
    \/ Setup \/ SetupFails \/ Listen \/ NotifyContext \/ ServeFailed
    \/ Drain \/ Drained \/ ShutdownExpires \/ FlushExpires

Script == Connect(Poller) \/ Refused \/ NotReady \/ Ready

Next ==
    \/ Process \/ ListenerFails \/ Signal \/ SignalKills \/ Flushed
    \/ \E r \in Requests : Connect(r) \/ CallCore(r) \/ HeaderLate(r) \/ Handler(r)
    \/ Refused \/ NotReady \/ Ready
    \/ Tick

Spec == Init /\ [][Next]_vars

\* The machine gives every goroutine its turn, timers fire, clients that read
\* promptly do read, and the script goes on.  Nobody has to send a signal, no
\* listener has to fail, and upstreams, slow clients and the trace collector owe
\* nothing.
Fairness ==
    /\ WF_vars(Process) /\ WF_vars(Script) /\ WF_vars(Tick)
    /\ \A r \in Requests :
          /\ WF_vars(HeaderLate(r)) /\ WF_vars(CallTimesOut(r)) /\ WF_vars(WriteLate(r))
          /\ r \notin Slow => WF_vars(Written(r))

FairSpec == Spec /\ Fairness

-----------------------------------------------------------------------------
(* Properties.                                                             *)

\* Types, and the range of every timer.
TypeOK ==
    /\ process \in {"setup", "starting", "serving", "draining", "flushing", "exited", "killed"}
    /\ listener \in {"none", "open", "failed", "closed"}
    /\ signalled \in BOOLEAN /\ exitCode \in {0, 1}
    /\ stopping \in Nat /\ flushing \in 0 .. FlushTimeout
    /\ begun \subseteq Requests /\ lost \subseteq Requests
    /\ phase \in [Requests -> {"none", "connected", "done", "cut"} \cup Running]
    /\ age \in [Requests -> Nat]
    /\ call \in [Requests -> 0 .. RequestTimeout]
    /\ verdict \in {"none", "ok", "failed"}
    /\ waiter \in {"trying", "pausing", "up", "gaveUp"} /\ attempts \in 0 .. MaxAttempts

\* Five seconds are enough (server.go:32): once a signal is caught, a request
\* whose handler was running is never cut off by the end of the process,
\* unless its client reads slowly.  What is lost began after the signal, on a
\* connection that was open before it.
PromptRequestsDrained ==
    process = "exited" /\ signalled => lost \cap begun \subseteq Slow

\* Exit code 0 (main.go:79-82) means a signal was caught and no request was in
\* flight when the process ended: nothing its end cut off is called clean.  A
\* slow client that the write deadline cut off before is another matter.
CleanExitLosesNothing ==
    process = "exited" /\ exitCode = 0 => signalled /\ lost = {}

\* The process is gone five seconds of Shutdown and five of the flush after the
\* signal, the ten seconds Docker waits before it kills.
StopsInTime == stopping <= ShutdownTimeout + FlushTimeout

\* A 200 from /health/ready (handler.go:115-124) speaks of the last second:
\* both upstreams answered well within the budget, together.
ReadyIsFresh ==
    phase[Poller] = "write" /\ verdict = "ok" => age[Poller] <= ReadyBudget

\* Readiness never holds a shutdown up: a check that was running when draining
\* began is over long before the deadline.
ReadinessDrainsFirst ==
    process = "draining" /\ Poller \in begun /\ phase[Poller] \in Running =>
        stopping <= ReadyBudget

\* wait-for-api.sh ends well only on a 200 to a check it made itself, never on
\* a refused or cut connection or a 503, and within its attempts.
ScriptIsRight ==
    waiter = "up" => /\ verdict = "ok" /\ phase[Poller] = "done"
                     /\ attempts < MaxAttempts

\* Once a signal is caught, the process ends, whatever clients and upstreams do.
SignalEndsProcess == signalled ~> ~Alive

\* The script ends although its curl has no timeout (wait-for-api.sh:7): the
\* readiness budget bounds every attempt.
ScriptEnds == <>(waiter \in {"up", "gaveUp"})

=============================================================================
