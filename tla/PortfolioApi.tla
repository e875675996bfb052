----------------------------- MODULE PortfolioApi -----------------------------
(***************************************************************************)
(* The portfolio API process: concurrent requests for                      *)
(* GET /api/v1/customers/{customerID}/portfolio run the handler, the       *)
(* service and the two upstream clients, and meet in the metrics registry  *)
(* that GET /metrics renders.                                              *)
(*                                                                         *)
(* One goroutine serves one request.  What it computes between two         *)
(* observable effects is local to it, so a step runs from one upstream     *)
(* call, mutex operation or network write to the next.  What the upstreams *)
(* answer, and when, is the environment's choice; CoreAdapter and          *)
(* PortfolioService say which bodies lead to which outcome.                *)
(*                                                                         *)
(* Time is a tick counter per request.  Local computing takes no tick:     *)
(* Tick waits until every request in flight waits for the network.         *)
(***************************************************************************)
EXTENDS Integers, FiniteSets

CONSTANTS
    Requests,        \* the requests the process serves, one goroutine each
    Malformed,       \* those whose path holds an id customerIDPattern rejects
    Scraper,         \* the goroutine that serves GET /metrics
    Free,            \* the holder of a mutex nobody holds
    RequestTimeout,  \* REQUEST_TIMEOUT, the Timeout of the shared http.Client
    WriteTimeout     \* WriteTimeout of the http.Server, counted from arrival

ASSUME RequestsAssumption == IsFiniteSet(Requests) /\ Malformed \subseteq Requests
ASSUME HoldersAssumption ==
    Scraper \notin Requests /\ Free \notin Requests /\ Scraper # Free
\* http.Client treats a Timeout that is not positive as "no timeout".
ASSUME TimeoutAssumption == RequestTimeout \in Nat \ {0}
\* The shipped values are 2s and 5s.
ASSUME WriteAssumption == WriteTimeout \in Nat /\ 2 * RequestTimeout < WriteTimeout

VARIABLES
    pc,         \* where the goroutine of a request stands
    status,     \* the handler's status variable
    accounts,   \* what Core's answer holds once the adapter accepted it
    prices,     \* TRUE once Prices returned without error
    cancelled,  \* the request's context is cancelled: its client went away
    age,        \* ticks since the request arrived
    callAge,    \* ticks since the upstream call in flight began
    coreCalls,  \* client.Do calls to Core
    marketCalls,\* client.Do calls to Market
    received,   \* what reached the client
    mu,         \* Metrics.mu: who holds it
    requests,   \* Metrics.requests
    count,      \* Metrics.count
    seconds,    \* Metrics.seconds, in ticks
    scraper,    \* where the scraping goroutine stands
    page,       \* the counter lines of the page being rendered
    exposed     \* the last complete page

workVars    == <<status, accounts, prices>>
callVars    == <<coreCalls, marketCalls>>
clockVars   == <<age, callAge>>
clientVars  == <<cancelled, received>>
metricVars  == <<mu, requests, count, seconds>>
scrapeVars  == <<scraper, page, exposed>>
vars == <<pc, workVars, callVars, clockVars, clientVars, metricVars, scrapeVars>>

Statuses == {200, 400, 404, 502}
None == 0       \* the client has received nothing yet
Broken == 1     \* the connection ended before the response did

PCs == {"idle", "validate", "core", "symbols", "market", "aggregate",
        "write", "observe", "observing", "flush", "done"}

\* The accounts a valid Core answer can hold, as far as the control flow tells
\* them apart: none at all, accounts without positions, accounts with positions.
Holdings == {"empty", "cashOnly", "positions"}

InFlight(r) == pc[r] \notin {"idle", "done"}

Zero == [s \in Statuses |-> 0]
Total(f) == f[200] + f[400] + f[404] + f[502]

Init ==
    /\ pc = [r \in Requests |-> "idle"]
    /\ status = [r \in Requests |-> 200]
    /\ accounts = [r \in Requests |-> "none"]
    /\ prices = [r \in Requests |-> FALSE]
    /\ cancelled = [r \in Requests |-> FALSE]
    /\ age = [r \in Requests |-> 0]
    /\ callAge = [r \in Requests |-> 0]
    /\ coreCalls = [r \in Requests |-> 0]
    /\ marketCalls = [r \in Requests |-> 0]
    /\ received = [r \in Requests |-> None]
    /\ mu = Free
    /\ requests = Zero
    /\ count = 0
    /\ seconds = 0
    /\ scraper = "idle"
    /\ page = Zero
    /\ exposed = [requests |-> Zero, seconds |-> 0, count |-> 0]

Goto(r, label) == pc' = [pc EXCEPT ![r] = label]

\* Set the status, write the small error body and run the deferred Observe.
Fail(r, code) ==
    /\ status' = [status EXCEPT ![r] = code]
    /\ Goto(r, "observe")

-----------------------------------------------------------------------------
(* Plausible bugs: each of these stands in for the action or operator it   *)
(* is named after when the sensitivity of a property is shown.             *)

\* A failed Core call is tried again.
CoreFailedRetry(r) ==
    /\ pc[r] = "core"
    /\ Goto(r, "validate")
    /\ callAge' = [callAge EXCEPT ![r] = 0]
    /\ UNCHANGED <<workVars, age, callVars, clientVars, metricVars, scrapeVars>>

\* A failed Market call is tried again.
MarketFailedRetry(r) ==
    /\ pc[r] = "market"
    /\ Goto(r, "symbols")
    /\ callAge' = [callAge EXCEPT ![r] = 0]
    /\ UNCHANGED <<workVars, age, callVars, clientVars, metricVars, scrapeVars>>

\* The error of Prices is dropped: the loop runs over no prices.
MarketFailedIgnored(r) ==
    /\ pc[r] = "market"
    /\ Goto(r, "aggregate")
    /\ callAge' = [callAge EXCEPT ![r] = 0]
    /\ UNCHANGED <<workVars, age, callVars, clientVars, metricVars, scrapeVars>>

\* The http.Client is built without its Timeout.
CallAbortedNoTimeout(r) ==
    /\ pc[r] \in {"core", "market"}
    /\ cancelled[r]
    /\ Fail(r, 502)
    /\ callAge' = [callAge EXCEPT ![r] = 0]
    /\ UNCHANGED <<accounts, prices, age, callVars, clientVars, metricVars, scrapeVars>>

\* The same, seen by the clock: a call may last for ever.
MayWaitNoTimeout(r) ==
    \/ pc[r] \in {"idle", "done"}
    \/ pc[r] \in {"core", "market"} /\ ~cancelled[r]
    \/ pc[r] = "write" /\ ~cancelled[r] /\ age[r] < WriteTimeout

\* Observe is called after the response, not deferred around it.
WritePortfolioFlushed(r) ==
    /\ pc[r] = "write"
    /\ received' = [received EXCEPT ![r] = status[r]]
    /\ Goto(r, "observe")
    /\ UNCHANGED <<workVars, callVars, clockVars, cancelled, metricVars, scrapeVars>>

\* The deferred call captured status when it was deferred.
ObserveStatusEarly(r) ==
    /\ pc[r] = "observe"
    /\ mu = Free
    /\ mu' = r
    /\ requests' = [requests EXCEPT ![200] = @ + 1]
    /\ Goto(r, "observing")
    /\ UNCHANGED <<workVars, callVars, clockVars, clientVars, count, seconds, scrapeVars>>

\* WritePrometheus reads without the mutex.
ScrapeCountersUnlocked ==
    /\ scraper = "idle"
    /\ page' = requests
    /\ scraper' = "summary"
    /\ UNCHANGED <<pc, workVars, callVars, clockVars, clientVars, metricVars, exposed>>

\* The counters start again after every page.
ScrapeSummaryReset ==
    /\ scraper = "summary"
    /\ exposed' = [requests |-> page, seconds |-> seconds, count |-> count]
    /\ requests' = Zero /\ count' = 0 /\ seconds' = 0
    /\ mu' = Free
    /\ page' = Zero
    /\ scraper' = "idle"
    /\ UNCHANGED <<pc, workVars, callVars, clockVars, clientVars>>

-----------------------------------------------------------------------------
(* The handler, the service and the upstream clients.                      *)

Arrive(r) ==
    /\ pc[r] = "idle"
    /\ Goto(r, "validate")
    /\ UNCHANGED <<workVars, callVars, clockVars, clientVars, metricVars, scrapeVars>>

RejectCustomerID(r) ==
    /\ pc[r] = "validate"
    /\ r \in Malformed
    /\ Fail(r, 400)
    /\ UNCHANGED <<accounts, prices, callVars, clockVars, clientVars, metricVars, scrapeVars>>

CallCore(r) ==
    /\ pc[r] = "validate"
    /\ r \notin Malformed
    /\ ~cancelled[r]
    /\ Goto(r, "core")
    /\ coreCalls' = [coreCalls EXCEPT ![r] = @ + 1]
    /\ UNCHANGED <<workVars, marketCalls, clockVars, clientVars, metricVars, scrapeVars>>

\* client.Do returns at once, sending nothing, under a cancelled context.
CallCoreCancelled(r) ==
    /\ pc[r] = "validate"
    /\ r \notin Malformed
    /\ cancelled[r]
    /\ Fail(r, 502)
    /\ UNCHANGED <<accounts, prices, callVars, clockVars, clientVars, metricVars, scrapeVars>>

\* A call that returned leaves no timer behind.
StopTimer(r) == callAge' = [callAge EXCEPT ![r] = 0]

CoreAccepted(r) ==
    /\ pc[r] = "core"
    /\ \E held \in Holdings : accounts' = [accounts EXCEPT ![r] = held]
    /\ Goto(r, "symbols")
    /\ StopTimer(r)
    /\ UNCHANGED <<status, prices, age, callVars, clientVars, metricVars, scrapeVars>>

CoreNotFound(r) ==
    /\ pc[r] = "core"
    /\ Fail(r, 404)
    /\ StopTimer(r)
    /\ UNCHANGED <<accounts, prices, age, callVars, clientVars, metricVars, scrapeVars>>

\* A transport error, another status, or a body the adapter rejects.
CoreFailed(r) ==
    /\ pc[r] = "core"
    /\ Fail(r, 502)
    /\ StopTimer(r)
    /\ UNCHANGED <<accounts, prices, age, callVars, clientVars, metricVars, scrapeVars>>

\* No symbols: Prices returns an empty map without a call.
SkipMarket(r) ==
    /\ pc[r] = "symbols"
    /\ accounts[r] # "positions"
    /\ prices' = [prices EXCEPT ![r] = TRUE]
    /\ Goto(r, "aggregate")
    /\ UNCHANGED <<status, accounts, callVars, clockVars, clientVars, metricVars, scrapeVars>>

CallMarket(r) ==
    /\ pc[r] = "symbols"
    /\ accounts[r] = "positions"
    /\ ~cancelled[r]
    /\ Goto(r, "market")
    /\ marketCalls' = [marketCalls EXCEPT ![r] = @ + 1]
    /\ UNCHANGED <<workVars, coreCalls, clockVars, clientVars, metricVars, scrapeVars>>

CallMarketCancelled(r) ==
    /\ pc[r] = "symbols"
    /\ accounts[r] = "positions"
    /\ cancelled[r]
    /\ Fail(r, 502)
    /\ UNCHANGED <<accounts, prices, callVars, clockVars, clientVars, metricVars, scrapeVars>>

MarketAccepted(r) ==
    /\ pc[r] = "market"
    /\ prices' = [prices EXCEPT ![r] = TRUE]
    /\ Goto(r, "aggregate")
    /\ StopTimer(r)
    /\ UNCHANGED <<status, accounts, age, callVars, clientVars, metricVars, scrapeVars>>

MarketFailed(r) ==
    /\ pc[r] = "market"
    /\ Fail(r, 502)
    /\ StopTimer(r)
    /\ UNCHANGED <<accounts, prices, age, callVars, clientVars, metricVars, scrapeVars>>

\* The client's timer, or the cancelled context, ends the call in flight.  An
\* answer that arrives at the same moment may still win.
CallAborted(r) ==
    /\ pc[r] \in {"core", "market"}
    /\ callAge[r] = RequestTimeout \/ cancelled[r]
    /\ Fail(r, 502)
    /\ StopTimer(r)
    /\ UNCHANGED <<accounts, prices, age, callVars, clientVars, metricVars, scrapeVars>>

Aggregated(r) ==
    /\ pc[r] = "aggregate"
    /\ Goto(r, "write")
    /\ UNCHANGED <<workVars, callVars, clockVars, clientVars, metricVars, scrapeVars>>

\* A missing price, a fractional minor unit or a currency mismatch; an empty
\* account list has nothing to fail on.
AggregationFailed(r) ==
    /\ pc[r] = "aggregate"
    /\ accounts[r] # "empty"
    /\ Fail(r, 502)
    /\ UNCHANGED <<accounts, prices, callVars, clockVars, clientVars, metricVars, scrapeVars>>

\* writeJSON of the portfolio.  A body beyond the server's buffers blocks on a
\* slow reader, until the write deadline at the latest; errors are ignored.
WritePortfolio(r) ==
    /\ pc[r] = "write"
    /\ Goto(r, "observe")
    /\ UNCHANGED <<workVars, callVars, clockVars, clientVars, metricVars, scrapeVars>>

-----------------------------------------------------------------------------
(* Metrics.Observe, in the handler's deferred function, and the end of the *)
(* response, which net/http sends once the handler has returned.           *)

ObserveStatus(r) ==
    /\ pc[r] = "observe"
    /\ mu = Free
    /\ mu' = r
    /\ requests' = [requests EXCEPT ![status[r]] = @ + 1]
    /\ Goto(r, "observing")
    /\ UNCHANGED <<workVars, callVars, clockVars, clientVars, count, seconds, scrapeVars>>

ObserveCount(r) ==
    /\ pc[r] = "observing"
    /\ count' = count + 1
    /\ seconds' = seconds + age[r]
    /\ mu' = Free
    /\ Goto(r, "flush")
    /\ UNCHANGED <<workVars, callVars, clockVars, clientVars, requests, scrapeVars>>

Flush(r) ==
    /\ pc[r] = "flush"
    /\ received' = [received EXCEPT
         ![r] = IF cancelled[r] \/ age[r] >= WriteTimeout THEN Broken ELSE status[r]]
    /\ Goto(r, "done")
    /\ UNCHANGED <<workVars, callVars, clockVars, cancelled, metricVars, scrapeVars>>

-----------------------------------------------------------------------------
(* Metrics.WritePrometheus.  The page fits the server's buffer, so nothing *)
(* blocks on the network while the mutex is held.                          *)

ScrapeCounters ==
    /\ scraper = "idle"
    /\ mu = Free
    /\ mu' = Scraper
    /\ page' = requests
    /\ scraper' = "summary"
    /\ UNCHANGED <<pc, workVars, callVars, clockVars, clientVars, requests, count, seconds, exposed>>

ScrapeSummary ==
    /\ scraper = "summary"
    /\ exposed' = [requests |-> page, seconds |-> seconds, count |-> count]
    /\ mu' = Free
    /\ page' = Zero
    /\ scraper' = "idle"
    /\ UNCHANGED <<pc, workVars, callVars, clockVars, clientVars, requests, count, seconds>>

-----------------------------------------------------------------------------
(* The environment: a client that goes away, and time.                     *)

ClientLeaves(r) ==
    /\ InFlight(r)
    /\ ~cancelled[r]
    /\ cancelled' = [cancelled EXCEPT ![r] = TRUE]
    /\ UNCHANGED <<pc, workVars, callVars, clockVars, received, metricVars, scrapeVars>>

MayWait(r) ==
    \/ ~InFlight(r)
    \/ pc[r] \in {"core", "market"} /\ ~cancelled[r] /\ callAge[r] < RequestTimeout
    \/ pc[r] = "write" /\ ~cancelled[r] /\ age[r] < WriteTimeout

Tick ==
    /\ \A r \in Requests : MayWait(r)
    /\ \E r \in Requests : InFlight(r)
    /\ age' = [r \in Requests |-> IF InFlight(r) THEN age[r] + 1 ELSE age[r]]
    /\ callAge' = [r \in Requests |->
         IF pc[r] \in {"core", "market"} THEN callAge[r] + 1 ELSE callAge[r]]
    /\ UNCHANGED <<pc, workVars, callVars, clientVars, metricVars, scrapeVars>>

-----------------------------------------------------------------------------
\* What the goroutine of r does by itself; the upstreams' answers are not here.
Runs(r) ==
    \/ RejectCustomerID(r) \/ CallCore(r) \/ CallCoreCancelled(r)
    \/ SkipMarket(r) \/ CallMarket(r) \/ CallMarketCancelled(r)
    \/ CallAborted(r) \/ Aggregated(r) \/ AggregationFailed(r)
    \/ WritePortfolio(r) \/ ObserveStatus(r) \/ ObserveCount(r) \/ Flush(r)

Answers(r) ==
    \/ CoreAccepted(r) \/ CoreNotFound(r) \/ CoreFailed(r)
    \/ MarketAccepted(r) \/ MarketFailed(r)

Scrapes == ScrapeCounters \/ ScrapeSummary

Next ==
    \/ \E r \in Requests : Arrive(r) \/ Runs(r) \/ Answers(r) \/ ClientLeaves(r)
    \/ Scrapes
    \/ Tick

-----------------------------------------------------------------------------
(* Types and safety.                                                       *)

\* Every variable holds a value of its kind.
TypeOK ==
    /\ pc \in [Requests -> PCs]
    /\ status \in [Requests -> Statuses]
    /\ accounts \in [Requests -> Holdings \cup {"none"}]
    /\ prices \in [Requests -> BOOLEAN]
    /\ cancelled \in [Requests -> BOOLEAN]
    /\ age \in [Requests -> Nat]
    /\ callAge \in [Requests -> 0 .. RequestTimeout]
    /\ coreCalls \in [Requests -> Nat]
    /\ marketCalls \in [Requests -> Nat]
    /\ received \in [Requests -> Statuses \cup {None, Broken}]
    /\ mu \in Requests \cup {Scraper, Free}
    /\ requests \in [Statuses -> Nat]
    /\ count \in Nat
    /\ seconds \in Nat
    /\ scraper \in {"idle", "summary"}
    /\ page \in [Statuses -> Nat]
    /\ exposed \in [requests : [Statuses -> Nat], seconds : Nat, count : Nat]

\* A request spends at most one RequestTimeout on Core and one more on Market:
\* the http.Client's timeout is per call, and nothing else waits before the
\* response is written (client.go:396, client.go:473).
CallsInTime ==
    \A r \in Requests :
        /\ pc[r] = "core" => age[r] <= RequestTimeout
        /\ pc[r] \in {"symbols", "market"} => age[r] <= RequestTimeout + callAge[r]
        /\ pc[r] = "aggregate" => age[r] <= 2 * RequestTimeout
        /\ pc[r] \in {"observe", "observing", "flush"} /\ status[r] # 200
             => age[r] <= 2 * RequestTimeout

\* A client that stays gets every error response whole: the write deadline of
\* the server (main.go:74) lies behind both upstream timeouts, so the 502 of a
\* slow upstream is never lost to it.
ErrorsDelivered ==
    \A r \in Requests :
        pc[r] = "done" /\ status[r] # 200 /\ ~cancelled[r] => received[r] = status[r]

\* At most one call to each upstream, Market only after Core's accounts held a
\* position, and none for an id the pattern rejects: no failure is retried.
CallDiscipline ==
    \A r \in Requests :
        /\ coreCalls[r] <= 1
        /\ marketCalls[r] <= coreCalls[r]
        /\ marketCalls[r] > 0 => accounts[r] = "positions"
        /\ r \in Malformed => coreCalls[r] = 0

\* A 200 is answered only from accounts the adapter accepted and, where they
\* hold positions, from an answer of Market: neither a failed nor an aborted
\* call leaves a partial portfolio behind.
FailClosed ==
    \A r \in Requests : received[r] = 200 =>
        /\ accounts[r] \in Holdings
        /\ prices[r]
        /\ accounts[r] = "positions" => marketCalls[r] = 1

\* A page shows one instant of the registry: the counters by status add up to
\* the count of the summary, and no request took longer than the bounds allow,
\* although Observe changes three variables and the renderer reads them one
\* after the other.
PageConsistent ==
    /\ exposed.count = Total(exposed.requests)
    /\ exposed.seconds <= WriteTimeout * exposed.count

Observed(r) == pc[r] \in {"observing", "flush", "done"}

Counted(s) == {r \in Requests : Observed(r) /\ status[r] = s}

\* Every request is counted exactly once, under the status it was answered with.
CountedOnce == \A s \in Statuses : requests[s] = Cardinality(Counted(s))

\* A response a client has received is already counted: a scrape that begins
\* after the answer shows it (the deferred Observe runs before the handler
\* returns, handler.go:79-85).
ReceivedIsCounted ==
    \A s \in Statuses :
        Cardinality({r \in Requests : received[r] = s}) <= requests[s]

(* What a step may never do.                                               *)

\* Pages never run backwards, in any counter: increase() in the alert rule
\* would take a decrease for a restart of the process.
PageGrows ==
    /\ \A s \in Statuses : exposed.requests[s] <= exposed'.requests[s]
    /\ exposed.seconds <= exposed'.seconds
    /\ exposed.count <= exposed'.count

PagesGrow == [][PageGrows]_vars

\* A 200 starts to be written while the write deadline is still ahead.
WriteStartsInTime ==
    [][\A r \in Requests : pc[r] # "write" /\ pc'[r] = "write" =>
          age[r] < WriteTimeout]_vars

-----------------------------------------------------------------------------
(* The abstract specification.  A request is settled when its status is    *)
(* counted, the first step of Observe; the page is published by the last   *)
(* step of WritePrometheus.                                                *)

Phase(r) ==
    CASE pc[r] = "idle"                  -> "idle"
      [] pc[r] \in {"observing", "flush"} -> "settled"
      [] pc[r] = "done"                  -> "closed"
      [] OTHER                           -> "pending"

Abstract == INSTANCE PortfolioContract WITH
    phase     <- [r \in Requests |-> Phase(r)],
    verdict   <- [r \in Requests |-> IF Observed(r) THEN status[r] ELSE 0],
    tally     <- requests,
    answer    <- received,
    published <- [requests |-> exposed.requests, count |-> exposed.count]

\* The process keeps its promises to clients and monitoring, safety and
\* liveness: every settled request is counted in the same instant, and every
\* page, rendered in several reads, is a snapshot.
Contract == Abstract!Spec

-----------------------------------------------------------------------------
(* Fairness and liveness.                                                  *)

\* Goroutines run, a held mutex is given back and time passes.  Nothing is
\* assumed of clients or upstreams.  Strong fairness where the goroutine waits
\* for the mutex: sync.Mutex hands over to a starving waiter.
Fairness ==
    /\ \A r \in Requests :
         /\ WF_vars(Runs(r))
         /\ SF_vars(ObserveStatus(r))
    /\ WF_vars(ScrapeSummary)
    /\ WF_vars(Tick)

Spec == Init /\ [][Next]_vars
FairSpec == Spec /\ Fairness

\* Every request that arrives is answered and counted, whatever the upstreams
\* do: a call that never returns is ended by the client's timeout.
EveryRequestEnds == \A r \in Requests : pc[r] = "validate" ~> pc[r] = "done"

=============================================================================
