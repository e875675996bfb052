--------------------------- MODULE PortfolioApiProofs ---------------------------
(***************************************************************************)
(* Proofs about PortfolioApi for every set of requests, every request      *)
(* timeout and every write timeout its assumptions allow.                  *)
(***************************************************************************)
EXTENDS PortfolioApi, FiniteSetTheorems, TLAPS

\* The initial state is well typed.
LEMMA InitTypeOK == Init => TypeOK
BY TimeoutAssumption, HoldersAssumption
DEF Init, TypeOK, PCs, Statuses, Holdings, None, Broken, Zero

\* Every step keeps every variable in its type: in particular the timer of a
\* call never passes RequestTimeout.
LEMMA NextTypeOK == TypeOK /\ [Next]_vars => TypeOK'
<1> SUFFICES ASSUME TypeOK, [Next]_vars PROVE TypeOK'
  OBVIOUS
<1> USE TimeoutAssumption, HoldersAssumption DEF TypeOK, PCs, Statuses, Holdings, None, Broken
<1>1. CASE UNCHANGED vars
  BY <1>1 DEF vars, workVars, callVars, clockVars, clientVars, metricVars, scrapeVars
<1>2. ASSUME NEW r \in Requests, Runs(r) PROVE TypeOK'
  <2>1. CASE RejectCustomerID(r)
    BY <2>1 DEF RejectCustomerID, Fail, Goto, callVars, clockVars, clientVars, metricVars, scrapeVars
  <2>2. CASE CallCore(r)
    BY <2>2 DEF CallCore, Goto, workVars, clockVars, clientVars, metricVars, scrapeVars
  <2>3. CASE CallCoreCancelled(r)
    BY <2>3 DEF CallCoreCancelled, Fail, Goto, callVars, clockVars, clientVars, metricVars, scrapeVars
  <2>4. CASE SkipMarket(r)
    BY <2>4 DEF SkipMarket, Goto, callVars, clockVars, clientVars, metricVars, scrapeVars
  <2>5. CASE CallMarket(r)
    BY <2>5 DEF CallMarket, Goto, workVars, clockVars, clientVars, metricVars, scrapeVars
  <2>6. CASE CallMarketCancelled(r)
    BY <2>6 DEF CallMarketCancelled, Fail, Goto, callVars, clockVars, clientVars, metricVars, scrapeVars
  <2>7. CASE CallAborted(r)
    BY <2>7 DEF CallAborted, Fail, Goto, StopTimer, callVars, clientVars, metricVars, scrapeVars
  <2>8. CASE Aggregated(r)
    BY <2>8 DEF Aggregated, Goto, workVars, callVars, clockVars, clientVars, metricVars, scrapeVars
  <2>9. CASE AggregationFailed(r)
    BY <2>9 DEF AggregationFailed, Fail, Goto, callVars, clockVars, clientVars, metricVars, scrapeVars
  <2>10. CASE WritePortfolio(r)
    BY <2>10 DEF WritePortfolio, Goto, workVars, callVars, clockVars, clientVars, metricVars, scrapeVars
  <2>11. CASE ObserveStatus(r)
    BY <2>11 DEF ObserveStatus, Goto, workVars, callVars, clockVars, clientVars, scrapeVars
  <2>12. CASE ObserveCount(r)
    BY <2>12 DEF ObserveCount, Goto, workVars, callVars, clockVars, clientVars, scrapeVars
  <2>13. CASE Flush(r)
    BY <2>13 DEF Flush, Goto, workVars, callVars, clockVars, metricVars, scrapeVars
  <2> QED
    BY <1>2, <2>1, <2>2, <2>3, <2>4, <2>5, <2>6, <2>7, <2>8, <2>9, <2>10, <2>11, <2>12, <2>13
    DEF Runs
<1>3. ASSUME NEW r \in Requests, Answers(r) PROVE TypeOK'
  <2>1. CASE CoreAccepted(r)
    BY <2>1 DEF CoreAccepted, Goto, StopTimer, callVars, clientVars, metricVars, scrapeVars
  <2>2. CASE CoreNotFound(r)
    BY <2>2 DEF CoreNotFound, Fail, Goto, StopTimer, callVars, clientVars, metricVars, scrapeVars
  <2>3. CASE CoreFailed(r)
    BY <2>3 DEF CoreFailed, Fail, Goto, StopTimer, callVars, clientVars, metricVars, scrapeVars
  <2>4. CASE MarketAccepted(r)
    BY <2>4 DEF MarketAccepted, Goto, StopTimer, callVars, clientVars, metricVars, scrapeVars
  <2>5. CASE MarketFailed(r)
    BY <2>5 DEF MarketFailed, Fail, Goto, StopTimer, callVars, clientVars, metricVars, scrapeVars
  <2> QED
    BY <1>3, <2>1, <2>2, <2>3, <2>4, <2>5 DEF Answers
<1>4. ASSUME NEW r \in Requests, Arrive(r) PROVE TypeOK'
  BY <1>4 DEF Arrive, Goto, workVars, callVars, clockVars, clientVars, metricVars, scrapeVars
<1>7. ASSUME NEW r \in Requests, ClientLeaves(r) PROVE TypeOK'
  BY <1>7 DEF ClientLeaves, workVars, callVars, clockVars, metricVars, scrapeVars
<1>5. CASE Scrapes
  BY <1>5 DEF Scrapes, ScrapeCounters, ScrapeSummary, Zero, workVars, callVars, clockVars, clientVars
<1>6. CASE Tick
  BY <1>6 DEF Tick, MayWait, InFlight, workVars, callVars, clientVars, metricVars, scrapeVars
<1> QED
  BY <1>1, <1>2, <1>3, <1>4, <1>5, <1>6, <1>7 DEF Next

\* Every reachable state is well typed.
THEOREM TypeCorrect == Spec => []TypeOK
BY InitTypeOK, NextTypeOK, PTL DEF Spec

-----------------------------------------------------------------------------
(* Time.                                                                   *)

\* Where a request stands bounds how long it has been under way: one timeout
\* for each call it has behind it, and the running timer for the one in flight.
Clock(r) ==
    /\ pc[r] \in {"idle", "validate"} => age[r] = 0
    /\ pc[r] \notin {"core", "market"} => callAge[r] = 0
    /\ pc[r] = "core" => age[r] = callAge[r]
    /\ pc[r] = "symbols" => age[r] <= RequestTimeout
    /\ pc[r] = "market" => age[r] <= RequestTimeout + callAge[r]
    /\ pc[r] = "aggregate" => age[r] <= 2 * RequestTimeout
    /\ pc[r] \notin {"observe", "observing", "flush", "done"} => status[r] = 200
    /\ pc[r] \in {"observe", "observing", "flush", "done"} /\ status[r] # 200
         => age[r] <= 2 * RequestTimeout
    /\ pc[r] = "done" /\ status[r] # 200 /\ ~cancelled[r] => received[r] = status[r]
    /\ age[r] <= WriteTimeout

ClockInv == \A r \in Requests : Clock(r)

\* No time has passed initially.
LEMMA InitClock == Init => ClockInv
BY WriteAssumption, TimeoutAssumption DEF Init, ClockInv, Clock

\* Time passes only where a deadline is still ahead, so no step of any request
\* takes one past its bound.
LEMMA NextClock == TypeOK /\ ClockInv /\ [Next]_vars => ClockInv'
<1> SUFFICES ASSUME TypeOK, ClockInv, [Next]_vars, NEW q \in Requests PROVE Clock(q)'
  BY DEF ClockInv
<1> USE TimeoutAssumption, WriteAssumption DEF TypeOK, ClockInv, Clock
<1>1. CASE UNCHANGED vars
  BY <1>1 DEF vars, workVars, callVars, clockVars, clientVars, metricVars, scrapeVars
<1>2. ASSUME NEW r \in Requests, Runs(r) PROVE Clock(q)'
  <2>1. CASE RejectCustomerID(r) \/ CallCore(r) \/ CallCoreCancelled(r)
    BY <2>1 DEF RejectCustomerID, CallCore, CallCoreCancelled, Fail, Goto,
       workVars, callVars, clockVars, clientVars
  <2>2. CASE SkipMarket(r) \/ CallMarket(r) \/ CallMarketCancelled(r)
    BY <2>2 DEF SkipMarket, CallMarket, CallMarketCancelled, Fail, Goto,
       workVars, callVars, clockVars, clientVars
  <2>3. CASE CallAborted(r)
    <3>1. age[r] <= 2 * RequestTimeout
      BY <2>3 DEF CallAborted
    <3>2. CASE q = r
      BY <2>3, <3>1, <3>2 DEF CallAborted, Fail, Goto, StopTimer, callVars, clientVars
    <3>3. CASE q # r
      BY <2>3, <3>3 DEF CallAborted, Fail, Goto, StopTimer, callVars, clientVars
    <3> QED
      BY <3>2, <3>3
  <2>4. CASE Aggregated(r) \/ AggregationFailed(r) \/ WritePortfolio(r)
    BY <2>4 DEF Aggregated, AggregationFailed, WritePortfolio, Fail, Goto,
       workVars, callVars, clockVars, clientVars
  <2>5. CASE ObserveStatus(r) \/ ObserveCount(r)
    BY <2>5 DEF ObserveStatus, ObserveCount, Goto, workVars, callVars, clockVars, clientVars
  <2>6. CASE Flush(r)
    BY <2>6 DEF Flush, Goto, workVars, callVars, clockVars
  <2> QED
    BY <1>2, <2>1, <2>2, <2>3, <2>4, <2>5, <2>6 DEF Runs
<1>3. ASSUME NEW r \in Requests, Answers(r) PROVE Clock(q)'
  BY <1>3 DEF Answers, CoreAccepted, CoreNotFound, CoreFailed, MarketAccepted, MarketFailed,
     Fail, Goto, StopTimer, workVars, callVars, clientVars, metricVars, scrapeVars
<1>4. ASSUME NEW r \in Requests, Arrive(r) \/ ClientLeaves(r) PROVE Clock(q)'
  BY <1>4 DEF Arrive, ClientLeaves, InFlight, Goto, workVars, callVars, clockVars, clientVars
<1>5. CASE Scrapes
  BY <1>5 DEF Scrapes, ScrapeCounters, ScrapeSummary, workVars, callVars, clockVars, clientVars
<1>6. CASE Tick
  BY <1>6 DEF Tick, MayWait, InFlight, workVars, callVars, clientVars
<1> QED
  BY <1>1, <1>2, <1>3, <1>4, <1>5, <1>6 DEF Next

\* CallsInTime and ErrorsDelivered in every reachable state: neither upstream
\* can hold a request longer than its timeout, and the client that waits for
\* an error response gets it before the write deadline.
THEOREM DeadlinesHold == Spec => [](CallsInTime /\ ErrorsDelivered)
<1>1. TypeOK /\ ClockInv => CallsInTime /\ ErrorsDelivered
  BY TimeoutAssumption DEF TypeOK, ClockInv, Clock, CallsInTime, ErrorsDelivered
<1> QED
  BY <1>1, InitTypeOK, NextTypeOK, InitClock, NextClock, PTL DEF Spec

\* Every error reaches the client that waits for it, ErrorsDelivered.
THEOREM ErrorsReachClients == Spec => []ErrorsDelivered
BY DeadlinesHold, PTL

\* WriteStartsInTime: only aggregation leads to writing a portfolio, and both
\* upstream timeouts together end before the write deadline.
THEOREM PortfoliosStartInTime == Spec => WriteStartsInTime
<1> DEFINE Starts == \A r \in Requests : pc[r] # "write" /\ pc'[r] = "write" => age[r] < WriteTimeout
<1>1. TypeOK /\ ClockInv /\ [Next]_vars => Starts
  <2> SUFFICES ASSUME TypeOK, ClockInv, [Next]_vars, NEW r \in Requests,
                      pc[r] # "write", pc'[r] = "write"
               PROVE  age[r] < WriteTimeout
    OBVIOUS
  <2>1. pc[r] = "aggregate"
    BY DEF TypeOK, Next, vars, Scrapes, ScrapeCounters, ScrapeSummary, Tick, Arrive, ClientLeaves,
       Answers, CoreAccepted, CoreNotFound, CoreFailed, MarketAccepted, MarketFailed,
       Runs, RejectCustomerID, CallCore, CallCoreCancelled, SkipMarket, CallMarket,
       CallMarketCancelled, CallAborted, Aggregated, AggregationFailed, WritePortfolio,
       ObserveStatus, ObserveCount, Flush, Goto, Fail
  <2>2. age[r] \in Nat /\ age[r] <= 2 * RequestTimeout
    BY <2>1 DEF TypeOK, ClockInv, Clock
  <2> QED
    BY <2>2, TimeoutAssumption, WriteAssumption
<1>2. Spec => []TypeOK /\ []ClockInv
  BY InitTypeOK, NextTypeOK, InitClock, NextClock, PTL DEF Spec
<1> QED
  BY <1>1, <1>2, PTL DEF Spec, WriteStartsInTime

-----------------------------------------------------------------------------
(* Calls.                                                                  *)

\* What the goroutine holds when it has a portfolio to return.
Sourced(r) ==
    /\ accounts[r] \in Holdings
    /\ prices[r]
    /\ accounts[r] = "positions" => marketCalls[r] = 1

\* The calls a request has made, by where it stands.
Called(r) ==
    /\ pc[r] \in {"idle", "validate"} => coreCalls[r] = 0
    /\ pc[r] \in {"idle", "validate", "core", "symbols"} => marketCalls[r] = 0
    /\ pc[r] \in {"core", "symbols", "market", "aggregate", "write"} => coreCalls[r] = 1
    /\ pc[r] = "symbols" => accounts[r] \in Holdings
    /\ pc[r] = "market" => accounts[r] = "positions" /\ marketCalls[r] = 1
    /\ pc[r] \in {"aggregate", "write"} => Sourced(r)
    /\ pc[r] \in {"observe", "observing", "flush", "done"} /\ status[r] = 200 => Sourced(r)
    /\ pc[r] \notin {"flush", "done"} => received[r] = None
    /\ received[r] \in {None, Broken, status[r]}
    /\ coreCalls[r] <= 1
    /\ marketCalls[r] <= coreCalls[r]
    /\ marketCalls[r] > 0 => accounts[r] = "positions"
    /\ r \in Malformed => coreCalls[r] = 0

CallInv == \A r \in Requests : Called(r)

\* No call has been made initially.
LEMMA InitCalls == Init => CallInv
BY DEF Init, CallInv, Called, None, Broken

\* A goroutine calls forward only: from validation to Core, from accounts with
\* positions to Market, and from an error to the end.
LEMMA NextCalls == TypeOK /\ CallInv /\ [Next]_vars => CallInv'
<1> SUFFICES ASSUME TypeOK, CallInv, [Next]_vars, NEW q \in Requests PROVE Called(q)'
  BY DEF CallInv
<1> USE DEF TypeOK, CallInv, Called, Sourced, Holdings, None, Broken, Statuses
<1>1. CASE UNCHANGED vars
  BY <1>1 DEF vars, workVars, callVars, clockVars, clientVars, metricVars, scrapeVars
<1>2. ASSUME NEW r \in Requests, Runs(r) PROVE Called(q)'
  <2>1. CASE RejectCustomerID(r) \/ CallCore(r) \/ CallCoreCancelled(r)
    BY <2>1 DEF RejectCustomerID, CallCore, CallCoreCancelled, Fail, Goto,
       workVars, callVars, clientVars
  <2>2. CASE SkipMarket(r) \/ CallMarket(r) \/ CallMarketCancelled(r)
    BY <2>2 DEF SkipMarket, CallMarket, CallMarketCancelled, Fail, Goto,
       workVars, callVars, clientVars
  <2>3. CASE CallAborted(r)
    BY <2>3 DEF CallAborted, Fail, Goto, callVars, clientVars
  <2>4. CASE Aggregated(r) \/ AggregationFailed(r) \/ WritePortfolio(r)
    BY <2>4 DEF Aggregated, AggregationFailed, WritePortfolio, Fail, Goto,
       workVars, callVars, clientVars
  <2>5. CASE ObserveStatus(r) \/ ObserveCount(r)
    BY <2>5 DEF ObserveStatus, ObserveCount, Goto, workVars, callVars, clientVars
  <2>6. CASE Flush(r)
    BY <2>6 DEF Flush, Goto, workVars, callVars
  <2> QED
    BY <1>2, <2>1, <2>2, <2>3, <2>4, <2>5, <2>6 DEF Runs
<1>3. ASSUME NEW r \in Requests, Answers(r) PROVE Called(q)'
  <2>1. CASE CoreAccepted(r) \/ CoreNotFound(r) \/ CoreFailed(r)
    BY <2>1 DEF CoreAccepted, CoreNotFound, CoreFailed, Fail, Goto, workVars, callVars, clientVars
  <2>2. CASE MarketAccepted(r) \/ MarketFailed(r)
    BY <2>2 DEF MarketAccepted, MarketFailed, Fail, Goto, workVars, callVars, clientVars
  <2> QED
    BY <1>3, <2>1, <2>2 DEF Answers
<1>4. ASSUME NEW r \in Requests, Arrive(r) \/ ClientLeaves(r) PROVE Called(q)'
  BY <1>4 DEF Arrive, ClientLeaves, Goto, workVars, callVars, clientVars
<1>5. CASE Scrapes
  BY <1>5 DEF Scrapes, ScrapeCounters, ScrapeSummary, workVars, callVars, clientVars
<1>6. CASE Tick
  BY <1>6 DEF Tick, workVars, callVars, clientVars
<1> QED
  BY <1>1, <1>2, <1>3, <1>4, <1>5, <1>6 DEF Next

\* CallDiscipline and FailClosed in every reachable state: no call is repeated,
\* and a 200 rests on answers of both upstreams.
THEOREM CallsInOrder == Spec => [](CallDiscipline /\ FailClosed)
<1>1. TypeOK /\ CallInv => CallDiscipline /\ FailClosed
  BY DEF TypeOK, CallInv, Called, Sourced, CallDiscipline, FailClosed, None, Broken, Statuses
<1> QED
  BY <1>1, InitTypeOK, NextTypeOK, InitCalls, NextCalls, PTL DEF Spec

\* A 200 never rests on a failed or missing answer, FailClosed.
THEOREM FailsClosed == Spec => []FailClosed
BY CallsInOrder, PTL

-----------------------------------------------------------------------------
(* The registry.                                                           *)

\* Who holds the mutex is where its holder stands, so Observe and the renderer
\* exclude each other.
MutexInv ==
    /\ \A r \in Requests : mu = r <=> pc[r] = "observing"
    /\ mu = Scraper <=> scraper = "summary"

\* Between Observe's first and last assignment the counters are one ahead of
\* the count, and only then.
RegistryInv ==
    /\ Total(requests) = count + (IF mu \in Requests THEN 1 ELSE 0)
    /\ seconds <= WriteTimeout * count
    /\ scraper = "summary" => page = requests
    /\ exposed.count = Total(exposed.requests)
    /\ exposed.seconds <= WriteTimeout * exposed.count
    /\ \A s \in Statuses : exposed.requests[s] <= requests[s]
    /\ exposed.count <= count
    /\ exposed.seconds <= seconds

\* The registry starts empty and its mutex free.
LEMMA InitRegistry == Init => MutexInv /\ RegistryInv
BY HoldersAssumption, WriteAssumption DEF Init, MutexInv, RegistryInv, Total, Zero, Statuses

\* Nobody enters Observe or WritePrometheus while another holds the mutex.
LEMMA NextMutex == TypeOK /\ MutexInv /\ [Next]_vars => MutexInv'
<1> SUFFICES ASSUME TypeOK, MutexInv, [Next]_vars PROVE MutexInv'
  OBVIOUS
<1> USE HoldersAssumption DEF TypeOK, MutexInv
<1>1. CASE UNCHANGED vars
  BY <1>1 DEF vars, metricVars, scrapeVars
<1>2. ASSUME NEW r \in Requests, Runs(r) PROVE MutexInv'
  <2>1. CASE ObserveStatus(r)
    BY <2>1 DEF ObserveStatus, Goto, scrapeVars
  <2>2. CASE ObserveCount(r)
    BY <2>2 DEF ObserveCount, Goto, scrapeVars
  <2>3. CASE Flush(r)
    BY <2>3 DEF Flush, Goto, metricVars, scrapeVars
  <2>4. CASE \/ RejectCustomerID(r) \/ CallCore(r) \/ CallCoreCancelled(r)
             \/ SkipMarket(r) \/ CallMarket(r) \/ CallMarketCancelled(r)
    BY <2>4 DEF RejectCustomerID, CallCore, CallCoreCancelled, SkipMarket, CallMarket,
       CallMarketCancelled, Fail, Goto, metricVars, scrapeVars
  <2>5. CASE CallAborted(r) \/ Aggregated(r) \/ AggregationFailed(r) \/ WritePortfolio(r)
    BY <2>5 DEF CallAborted, Aggregated, AggregationFailed, WritePortfolio,
       Fail, Goto, metricVars, scrapeVars
  <2> QED
    BY <1>2, <2>1, <2>2, <2>3, <2>4, <2>5 DEF Runs
<1>3. ASSUME NEW r \in Requests, Answers(r) \/ Arrive(r) \/ ClientLeaves(r) PROVE MutexInv'
  BY <1>3 DEF Answers, CoreAccepted, CoreNotFound, CoreFailed, MarketAccepted, MarketFailed,
     Arrive, ClientLeaves, Fail, Goto, metricVars, scrapeVars
<1>4. CASE Scrapes
  BY <1>4 DEF Scrapes, ScrapeCounters, ScrapeSummary
<1>5. CASE Tick
  BY <1>5 DEF Tick, metricVars, scrapeVars
<1> QED
  BY <1>1, <1>2, <1>3, <1>4, <1>5 DEF Next

\* A step that leaves registry and page alone keeps RegistryInv.
LEMMA RegistryUntouched ==
    RegistryInv /\ UNCHANGED <<metricVars, scrapeVars>> => RegistryInv'
BY DEF RegistryInv, Total, metricVars, scrapeVars

\* One more request keeps the bound on the sum of durations.
LEMMA OneMoreInBound ==
    ASSUME NEW w \in Nat, NEW c \in Nat, NEW s \in Nat, NEW a \in Nat, s <= w * c, a <= w
    PROVE  s + a <= w * (c + 1)
<1>1. w * c \in Nat /\ w * (c + 1) = w * c + w
  OBVIOUS
<1>2. ASSUME NEW p \in Nat, s <= p PROVE s + a <= p + w
  BY <1>2
<1> QED
  BY <1>1, <1>2

\* Observe and WritePrometheus keep the registry and the page together.
LEMMA NextRegistry ==
    TypeOK /\ ClockInv /\ MutexInv /\ RegistryInv /\ [Next]_vars => RegistryInv'
<1> SUFFICES ASSUME TypeOK, ClockInv, MutexInv, RegistryInv, [Next]_vars PROVE RegistryInv'
  OBVIOUS
<1>1. ASSUME UNCHANGED <<metricVars, scrapeVars>> PROVE RegistryInv'
  BY <1>1, RegistryUntouched
<1>2. ASSUME NEW r \in Requests, ObserveStatus(r) PROVE RegistryInv'
  <2> USE HoldersAssumption DEF TypeOK, RegistryInv, Statuses
  <2>1. Total(requests') = Total(requests) + 1
    BY <1>2 DEF ObserveStatus, Total
  <2>2. mu \notin Requests /\ mu' \in Requests /\ UNCHANGED <<count, seconds, scrapeVars>>
    BY <1>2 DEF ObserveStatus
  <2>3. \A s \in Statuses : exposed.requests[s] <= requests'[s]
    BY <1>2 DEF ObserveStatus
  <2>4. scraper # "summary"
    BY <1>2 DEF ObserveStatus, MutexInv
  <2>5. Total(requests') = count' + (IF mu' \in Requests THEN 1 ELSE 0)
    BY <2>1, <2>2
  <2>6. UNCHANGED <<count, seconds, scraper, page, exposed>>
    BY <2>2 DEF scrapeVars
  <2>7. seconds' <= WriteTimeout * count'
    BY <2>6
  <2>8. exposed'.count = Total(exposed'.requests) /\ exposed'.seconds <= WriteTimeout * exposed'.count
    BY <2>6
  <2>9. exposed'.count <= count' /\ exposed'.seconds <= seconds'
    BY <2>6
  <2>10. \A s \in Statuses : exposed'.requests[s] <= requests'[s]
    BY <2>3, <2>6
  <2>11. scraper' # "summary"
    BY <2>4, <2>6
  <2> QED
    BY <2>5, <2>7, <2>8, <2>9, <2>10, <2>11 DEF Total
<1>3. ASSUME NEW r \in Requests, ObserveCount(r) PROVE RegistryInv'
  <2> USE HoldersAssumption, WriteAssumption DEF TypeOK, RegistryInv, Statuses
  <2>1. mu \in Requests /\ mu' \notin Requests /\ scraper # "summary"
    BY <1>3 DEF ObserveCount, MutexInv
  <2>2. count' = count + 1 /\ seconds' = seconds + age[r] /\ UNCHANGED <<requests, scrapeVars>>
    BY <1>3 DEF ObserveCount
  <2>3. age[r] \in Nat /\ age[r] <= WriteTimeout
    BY DEF ClockInv, Clock
  <2>4. count \in Nat /\ seconds \in Nat /\ WriteTimeout \in Nat /\ seconds <= WriteTimeout * count
    OBVIOUS
  <2>5. seconds' <= WriteTimeout * count'
    <3> HIDE HoldersAssumption, WriteAssumption DEF TypeOK, RegistryInv, Statuses
    <3>1. seconds + age[r] <= WriteTimeout * (count + 1)
      BY <2>3, <2>4, OneMoreInBound
    <3> QED
      BY <2>2, <3>1
  <2>6. count <= count' /\ seconds <= seconds'
    BY <2>2, <2>3
  <2>7. exposed.count <= count' /\ exposed.seconds <= seconds'
    BY <2>2, <2>3
  <2>8. Total(requests') = count' + (IF mu' \in Requests THEN 1 ELSE 0)
    BY <2>1, <2>2 DEF Total
  <2> QED
    BY <2>1, <2>2, <2>5, <2>7, <2>8 DEF scrapeVars
<1>4. ASSUME ScrapeCounters PROVE RegistryInv'
  BY <1>4, HoldersAssumption DEF ScrapeCounters, TypeOK, RegistryInv, Total
<1>5. ASSUME ScrapeSummary PROVE RegistryInv'
  <2>1. mu = Scraper /\ page = requests
    BY <1>5 DEF ScrapeSummary, MutexInv, RegistryInv
  <2> QED
    BY <1>5, <2>1, HoldersAssumption DEF ScrapeSummary, TypeOK, RegistryInv, Total
<1>6. ASSUME NEW r \in Requests, Runs(r) PROVE RegistryInv'
  BY <1>6, <1>1, <1>2, <1>3 DEF Runs, RejectCustomerID, CallCore, CallCoreCancelled, SkipMarket,
     CallMarket, CallMarketCancelled, CallAborted, Aggregated, AggregationFailed, WritePortfolio, Flush
<1>7. ASSUME NEW r \in Requests, Answers(r) \/ Arrive(r) \/ ClientLeaves(r) PROVE RegistryInv'
  BY <1>7, <1>1 DEF Answers, CoreAccepted, CoreNotFound, CoreFailed, MarketAccepted, MarketFailed,
     Arrive, ClientLeaves
<1>8. CASE Tick
  BY <1>8, <1>1 DEF Tick
<1>9. CASE UNCHANGED vars
  BY <1>9, <1>1 DEF vars
<1> QED
  BY <1>4, <1>5, <1>6, <1>7, <1>8, <1>9 DEF Next, Scrapes

\* The conjunction of the invariants so far, which is inductive.
IInv == TypeOK /\ ClockInv /\ CallInv /\ MutexInv /\ RegistryInv

\* Every reachable state satisfies the inductive invariant.
LEMMA IInvHolds == Spec => []IInv
BY InitTypeOK, NextTypeOK, InitClock, NextClock, InitCalls, NextCalls, InitRegistry, NextMutex,
   NextRegistry, PTL DEF Spec, IInv

\* A page of metrics is always consistent, PageConsistent: the counters add up
\* to the count, whichever Observe a scrape runs into.
THEOREM PagesConsistent == Spec => []PageConsistent
BY IInvHolds, PTL DEF IInv, RegistryInv, PageConsistent

\* No counter of a page ever runs backwards, PagesGrow.
THEOREM CountersMonotone == Spec => PagesGrow
<1>1. IInv /\ [Next]_vars => PageGrows
  <2> SUFFICES ASSUME IInv, [Next]_vars PROVE PageGrows
    OBVIOUS
  <2> USE DEF IInv, TypeOK, RegistryInv, PageGrows
  <2>1. CASE UNCHANGED exposed
    BY <2>1
  <2>2. CASE ScrapeSummary
    BY <2>2 DEF ScrapeSummary
  <2> QED
    BY <2>1, <2>2 DEF Next, vars, scrapeVars, Scrapes, ScrapeCounters, Tick, Arrive, ClientLeaves,
       Answers, CoreAccepted, CoreNotFound, CoreFailed, MarketAccepted, MarketFailed,
       Runs, RejectCustomerID, CallCore, CallCoreCancelled, SkipMarket, CallMarket,
       CallMarketCancelled, CallAborted, Aggregated, AggregationFailed, WritePortfolio,
       ObserveStatus, ObserveCount, Flush
<1> QED
  BY <1>1, IInvHolds, PTL DEF Spec, PagesGrow

-----------------------------------------------------------------------------
(* Counting.                                                               *)

\* Nothing is counted initially.
LEMMA InitCounted == Init => CountedOnce
<1> SUFFICES ASSUME Init, NEW s \in Statuses PROVE requests[s] = Cardinality(Counted(s))
  BY DEF CountedOnce
<1>1. Counted(s) = {}
  BY DEF Init, Counted, Observed
<1> QED
  BY <1>1, FS_EmptySet DEF Init, Zero

\* Only the first step of Observe adds a request to those counted, and the
\* status of a counted request stays.
LEMMA NextCounted == TypeOK /\ CountedOnce /\ [Next]_vars => CountedOnce'
<1> SUFFICES ASSUME TypeOK, CountedOnce, [Next]_vars PROVE CountedOnce'
  OBVIOUS
<1>1. ASSUME UNCHANGED requests, \A q \in Requests : Observed(q)' = Observed(q),
             \A q \in Requests : Observed(q) => status'[q] = status[q]
      PROVE  CountedOnce'
  <2>1. \A s \in Statuses : Counted(s)' = Counted(s)
    BY <1>1 DEF Counted
  <2> QED
    BY <1>1, <2>1 DEF CountedOnce
<1>2. ASSUME NEW r \in Requests, ObserveStatus(r) PROVE CountedOnce'
  <2> SUFFICES ASSUME NEW s \in Statuses PROVE requests'[s] = Cardinality(Counted(s)')
    BY DEF CountedOnce
  <2>1. r \notin Counted(s) /\ IsFiniteSet(Counted(s))
    BY <1>2, RequestsAssumption, FS_Subset DEF ObserveStatus, Counted, Observed
  <2>2. requests[s] = Cardinality(Counted(s))
    BY DEF CountedOnce
  <2>3. CASE s = status[r]
    <3>1. Counted(s)' = Counted(s) \cup {r}
      BY <1>2, <2>3 DEF ObserveStatus, Goto, Counted, Observed, TypeOK, workVars
    <3>2. requests'[s] = requests[s] + 1
      BY <1>2, <2>3 DEF ObserveStatus, TypeOK
    <3> QED
      BY <2>1, <2>2, <3>1, <3>2, FS_AddElement
  <2>4. CASE s # status[r]
    <3>1. Counted(s)' = Counted(s)
      BY <1>2, <2>4 DEF ObserveStatus, Goto, Counted, Observed, TypeOK, workVars
    <3>2. requests'[s] = requests[s]
      BY <1>2, <2>4 DEF ObserveStatus, TypeOK
    <3> QED
      BY <2>2, <3>1, <3>2
  <2> QED
    BY <2>3, <2>4
<1>3. ASSUME NEW r \in Requests, Runs(r), ~ObserveStatus(r) PROVE CountedOnce'
  <2> USE DEF TypeOK, Observed
  <2>1. CASE ObserveCount(r) \/ Flush(r)
    BY <1>1, <2>1 DEF ObserveCount, Flush, Goto, workVars, metricVars
  <2>2. CASE \/ RejectCustomerID(r) \/ CallCore(r) \/ CallCoreCancelled(r)
             \/ SkipMarket(r) \/ CallMarket(r) \/ CallMarketCancelled(r)
    BY <1>1, <2>2 DEF RejectCustomerID, CallCore, CallCoreCancelled, SkipMarket, CallMarket,
       CallMarketCancelled, Fail, Goto, workVars, metricVars
  <2>3. CASE CallAborted(r) \/ Aggregated(r) \/ AggregationFailed(r) \/ WritePortfolio(r)
    BY <1>1, <2>3 DEF CallAborted, Aggregated, AggregationFailed, WritePortfolio,
       Fail, Goto, workVars, metricVars
  <2> QED
    BY <1>3, <2>1, <2>2, <2>3 DEF Runs
<1>4. ASSUME NEW r \in Requests, Answers(r) \/ Arrive(r) \/ ClientLeaves(r) PROVE CountedOnce'
  BY <1>1, <1>4 DEF TypeOK, Observed, Answers, CoreAccepted, CoreNotFound, CoreFailed,
     MarketAccepted, MarketFailed, Arrive, ClientLeaves, Fail, Goto, workVars, metricVars
<1>5. CASE Scrapes \/ Tick
  BY <1>1, <1>5 DEF Observed, Scrapes, ScrapeCounters, ScrapeSummary, Tick, workVars, metricVars
<1>6. CASE UNCHANGED vars
  BY <1>1, <1>6 DEF Observed, vars, workVars, metricVars
<1> QED
  BY <1>2, <1>3, <1>4, <1>5, <1>6 DEF Next

\* CountedOnce and ReceivedIsCounted in every reachable state: a request is
\* counted once under the status it is answered with, and no client has an
\* answer that is not counted yet.
THEOREM CountingCorrect == Spec => [](CountedOnce /\ ReceivedIsCounted)
<1>1. Spec => []CountedOnce
  BY InitTypeOK, NextTypeOK, InitCounted, NextCounted, PTL DEF Spec
<1>2. TypeOK /\ CallInv /\ CountedOnce => ReceivedIsCounted
  <2> SUFFICES ASSUME TypeOK, CallInv, CountedOnce, NEW s \in Statuses
               PROVE  Cardinality({r \in Requests : received[r] = s}) <= requests[s]
    BY DEF ReceivedIsCounted
  <2>1. {r \in Requests : received[r] = s} \subseteq Counted(s)
    BY DEF TypeOK, CallInv, Called, Counted, Observed, Statuses, None, Broken
  <2>2. IsFiniteSet(Counted(s))
    BY RequestsAssumption, FS_Subset DEF Counted
  <2> QED
    BY <2>1, <2>2, FS_Subset DEF CountedOnce
<1> QED
  BY <1>1, <1>2, IInvHolds, PTL DEF IInv

\* Whatever a client has received is counted, ReceivedIsCounted.
THEOREM AnswersAreCounted == Spec => []ReceivedIsCounted
BY CountingCorrect, PTL

-----------------------------------------------------------------------------
(* The abstract specification.                                             *)

\* An id outside the pattern is answered 400, and nothing else is.
Verdict(r) ==
    IF r \in Malformed
    THEN /\ pc[r] \in {"idle", "validate", "observe", "observing", "flush", "done"}
         /\ pc[r] \in {"observe", "observing", "flush", "done"} => status[r] = 400
    ELSE status[r] # 400

VerdictInv == \A r \in Requests : Verdict(r)

\* No verdict has been given initially.
LEMMA InitVerdict == Init => VerdictInv
BY DEF Init, VerdictInv, Verdict

\* A status is set once, and one of those its identifier allows.
LEMMA NextVerdict == TypeOK /\ VerdictInv /\ [Next]_vars => VerdictInv'
<1> SUFFICES ASSUME TypeOK, VerdictInv, [Next]_vars, NEW q \in Requests PROVE Verdict(q)'
  BY DEF VerdictInv
<1> USE DEF TypeOK, VerdictInv, Verdict, Statuses
<1>1. CASE UNCHANGED vars
  BY <1>1 DEF vars, workVars
<1>2. ASSUME NEW r \in Requests, Runs(r) PROVE Verdict(q)'
  <2>1. CASE RejectCustomerID(r) \/ CallCore(r) \/ CallCoreCancelled(r)
    BY <2>1 DEF RejectCustomerID, CallCore, CallCoreCancelled, Fail, Goto, workVars
  <2>2. CASE SkipMarket(r) \/ CallMarket(r) \/ CallMarketCancelled(r) \/ CallAborted(r)
    BY <2>2 DEF SkipMarket, CallMarket, CallMarketCancelled, CallAborted, Fail, Goto, workVars
  <2>3. CASE Aggregated(r) \/ AggregationFailed(r) \/ WritePortfolio(r)
    BY <2>3 DEF Aggregated, AggregationFailed, WritePortfolio, Fail, Goto, workVars
  <2>4. CASE ObserveStatus(r) \/ ObserveCount(r) \/ Flush(r)
    BY <2>4 DEF ObserveStatus, ObserveCount, Flush, Goto, workVars
  <2> QED
    BY <1>2, <2>1, <2>2, <2>3, <2>4 DEF Runs
<1>3. ASSUME NEW r \in Requests, Answers(r) PROVE Verdict(q)'
  BY <1>3 DEF Answers, CoreAccepted, CoreNotFound, CoreFailed, MarketAccepted, MarketFailed,
     Fail, Goto, workVars
<1>4. ASSUME NEW r \in Requests, Arrive(r) \/ ClientLeaves(r) PROVE Verdict(q)'
  BY <1>4 DEF Arrive, ClientLeaves, Goto, workVars
<1>5. CASE Scrapes \/ Tick
  BY <1>5 DEF Scrapes, ScrapeCounters, ScrapeSummary, Tick, workVars
<1> QED
  BY <1>1, <1>2, <1>3, <1>4, <1>5 DEF Next

\* What the mapping makes of a step that changes no phase, counter, answer or page.
LEMMA Stutter ==
    ASSUME UNCHANGED <<requests, received, exposed>>,
           \A r \in Requests : Phase(r)' = Phase(r),
           \A r \in Requests : (IF Observed(r) THEN status[r] ELSE 0)'
                                 = (IF Observed(r) THEN status[r] ELSE 0)
    PROVE  UNCHANGED Abstract!vars
BY DEF Abstract!vars

\* The initial state maps to the initial state.
LEMMA AbstractInit == Init => Abstract!Init
BY DEF Init, Abstract!Init, Abstract!Page, Abstract!Statuses, Phase, Observed, Statuses, Zero, None

\* Every step maps to a step of the contract or to a stutter.
LEMMA AbstractNext == IInv /\ VerdictInv /\ [Next]_vars => [Abstract!Next]_(Abstract!vars)
<1> SUFFICES ASSUME IInv, VerdictInv, [Next]_vars PROVE [Abstract!Next]_(Abstract!vars)
  OBVIOUS
<1> USE DEF IInv, TypeOK
<1>1. CASE UNCHANGED vars
  BY <1>1, Stutter DEF vars, workVars, clientVars, metricVars, scrapeVars, Phase, Observed
<1>2. ASSUME NEW r \in Requests, Arrive(r) PROVE Abstract!Submit(r)
  BY <1>2 DEF Arrive, Goto, Abstract!Submit, Phase, Observed, workVars, clientVars, metricVars, scrapeVars
<1>3. ASSUME NEW r \in Requests, ObserveStatus(r) PROVE Abstract!Settle(r)
  <2>1. status[r] \in Abstract!Verdicts(r)
    BY <1>3 DEF ObserveStatus, VerdictInv, Verdict, Abstract!Verdicts, Statuses
  <2> QED
    BY <1>3, <2>1 DEF ObserveStatus, Goto, Abstract!Settle, Phase, Observed, workVars, clientVars, scrapeVars
<1>4. ASSUME NEW r \in Requests, Flush(r) PROVE Abstract!Close(r)
  BY <1>4 DEF Flush, Goto, Abstract!Close, Phase, Observed, Broken, workVars, metricVars, scrapeVars
<1>5. ASSUME ScrapeSummary PROVE Abstract!Publish
  BY <1>5, HoldersAssumption
  DEF ScrapeSummary, MutexInv, RegistryInv, Total, Abstract!Publish, Abstract!Page,
      Phase, Observed, workVars, clientVars
<1>6. ASSUME NEW r \in Requests, Runs(r), ~ObserveStatus(r), ~Flush(r) PROVE UNCHANGED Abstract!vars
  <2>1. CASE ObserveCount(r)
    BY <2>1, Stutter DEF ObserveCount, Goto, Phase, Observed, workVars, clientVars, scrapeVars
  <2>2. CASE \/ RejectCustomerID(r) \/ CallCore(r) \/ CallCoreCancelled(r)
             \/ SkipMarket(r) \/ CallMarket(r) \/ CallMarketCancelled(r)
    BY <2>2, Stutter DEF RejectCustomerID, CallCore, CallCoreCancelled, SkipMarket, CallMarket,
       CallMarketCancelled, Fail, Goto, Phase, Observed, workVars, clientVars, metricVars, scrapeVars
  <2>3. CASE CallAborted(r) \/ Aggregated(r) \/ AggregationFailed(r) \/ WritePortfolio(r)
    BY <2>3, Stutter DEF CallAborted, Aggregated, AggregationFailed, WritePortfolio,
       Fail, Goto, Phase, Observed, workVars, clientVars, metricVars, scrapeVars
  <2> QED
    BY <1>6, <2>1, <2>2, <2>3 DEF Runs
<1>7. ASSUME NEW r \in Requests, Answers(r) PROVE UNCHANGED Abstract!vars
  BY <1>7, Stutter DEF Answers, CoreAccepted, CoreNotFound, CoreFailed, MarketAccepted, MarketFailed,
     Fail, Goto, Phase, Observed, workVars, clientVars, metricVars, scrapeVars
<1>8. CASE Tick \/ ScrapeCounters
  BY <1>8, Stutter DEF Tick, ScrapeCounters, Phase, Observed, workVars, clientVars, metricVars, scrapeVars
<1>9. ASSUME NEW r \in Requests, ClientLeaves(r) PROVE UNCHANGED Abstract!vars
  BY <1>9, Stutter DEF ClientLeaves, Phase, Observed, workVars, clientVars, metricVars, scrapeVars
<1> QED
  BY <1>1, <1>2, <1>3, <1>4, <1>5, <1>6, <1>7, <1>8, <1>9 DEF Next, Scrapes, Abstract!Next

\* PortfolioApi implements the safety part of its contract: whatever clients,
\* upstreams, time and scrapes do, a request is settled once, counted in that
\* instant, answered only afterwards, and every page is a snapshot.
THEOREM ImplementsContract == Spec => Abstract!Safety
<1>1. Spec => []VerdictInv
  BY InitTypeOK, NextTypeOK, InitVerdict, NextVerdict, PTL DEF Spec
<1> QED
  BY <1>1, IInvHolds, AbstractInit, AbstractNext, PTL DEF Spec, Abstract!Safety

=============================================================================
