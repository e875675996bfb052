# Verification of the customer portfolio API

TLA+ models, model-checking configurations and machine-checked proofs for the
Go service in `src/`: a backend-for-frontend that answers
`GET /api/v1/customers/{customerId}/portfolio` by asking Core for accounts and
Market for prices, values the positions in integer arithmetic, and counts every
request in a registry that Prometheus scrapes. Paths below are relative to
`src/`.

Contents: 1 inventory, 2 the modules and the code, 3 the runs and their bounds,
4 fairness, 5 proofs, 6 findings, 7 what is left out, 8 plan.

## 1. Inventory

| Component | State | Operations | Talks to |
| --- | --- | --- | --- |
| Handler `internal/httpapi/handler.go` | per request: `status`, the response | `portfolio`, `live`, `ready`, `prometheus` | service (call), registry (call under mutex), client |
| Service `internal/portfolio/service.go` | none between calls; two nested loops within one | `Get`, `Ready` | the account and price ports |
| Core adapter `internal/upstream/client.go` | none; one shared `http.Client` | `Accounts`, `Healthy` | Core over HTTP |
| Market adapter, same file | none | `Prices`, `Healthy` | Market over HTTP |
| Domain `internal/domain/money.go` | none (values) | `NewMoney`, `Add`, `Amount`, `ParseQuantity`, `MarketValue` | |
| Metrics `internal/observability/metrics.go` | `requests`, `count`, `seconds`, guarded by `mu` | `Observe`, `WritePrometheus` | every request and every scrape |
| Process `internal/app/server.go`, `cmd/portfolio-api/main.go` | listener, signal context, timeouts | start, serve, shut down | the operating system |
| Incident scripts `scripts/wait-for-incident.sh`, `wait-for-recovery.sh`, `deploy/prometheus-alerts.yaml` | the marker file, the archive, Prometheus' alert state | detect, clear | Prometheus, the file system |
| Mocks `cmd/core-mock`, `cmd/market-mock` | none | fixed answers | |
| Logger, tracing, environment, quality scripts | none that the system depends on | | |

Nothing is persisted by the service itself. The only memory shared by
goroutines is the registry; requests interact through its mutex, through the
scrape that reads it, and with their own clients and upstreams through
cancellation and timeouts. Hard behaviours, and the properties they call for:

* **Concurrency.** `Observe` changes three fields, `WritePrometheus` reads them
  one after the other, requests and scrapes overlap. A page must be one instant
  of the registry, each request counted once, under the status it was answered
  with, before its client has the answer; counters never go back.
* **Time.** The `http.Client` timeout applies to each of two sequential calls
  and the server has a write deadline of its own. Both calls together must leave
  room for the error response, and a call that never returns must not hold a
  request for ever.
* **Cancellation.** A client may go away at any point, and the handler goes on with
  a cancelled context: the request must still end, be counted once, and never become
  a 200 without both answers.
* **Partial failure.** Core succeeds and Market fails, one account of many is
  malformed, one price of many is malformed: all or nothing.
* **A contract in migration.** Core speaks v1 or v2; exactly one must be
  recognised, v2 strictly, and both must mean the same accounts.
* **Arithmetic.** `int64` products and sums, six decimal places, no rounding.
* **Operations.** Readiness under one second for two calls; a signal while
  requests are in flight; an alert that must fire within fifteen polls although
  scrapes, evaluations and restarts of the API happen when they like; a marker
  that must be removed only after recovery was proved, by a script that reads one
  thing after the other.
* **Composition.** Five representations of one amount between Core's payload and
  the public text, two upstreams that both know a 404, and a contract switch in
  between: what the parts guarantee must add up.

`PROJECT.json` lists each hazard at its line with the properties that cover it.

## 2. Modules and the code

| Module | Models | Uses |
| --- | --- | --- |
| `PortfolioApi` | handler, order of upstream calls, timeouts, cancellation, registry, scrapes; N concurrent requests | |
| `PortfolioContract` | what clients and monitoring are promised, without any of that | |
| `Domain` | `money.go` on wrapping integers, as operators, the public texts included | |
| `CoreAdapter` | `CoreClient.Accounts` after the transport: status, size, signature, strict decoding, mapping | `Domain` |
| `MarketAdapter` | `MarketClient.Prices` after the transport | `Domain` |
| `PortfolioService` | `Service.Get`, a step per position and per account | `Domain` |
| `EndToEnd` | one request through mocks, adapters, service and public mapping | the three above, by `INSTANCE` |
| `Server` | `main`, `RunServer`, `/health/ready`, requests in flight, `wait-for-api.sh` | |
| `Incident` | the 502 counter, Prometheus, `demo-trigger-incident`, `wait-for-incident.sh`, the archive, `wait-for-recovery.sh` | |
| `PortfolioApiProofs`, `CoreAdapterProofs`, `ServiceProofs`, `ServerProofs`, `IncidentProofs`, `DomainProofs`, `EndToEndProofs` | theorems about the module of that name | it, `TLAPS` |
| `SumTheorems` | lemmas about `SumFunction` of the community modules | `TLAPS` |
| `MC...` | the instances TLC checks | |

`PortfolioApi` chooses the outcome of each upstream call freely; `CoreAdapter` and
`MarketAdapter` say which responses lead to which outcome; `EndToEnd` puts these
and the service together. `Server` keeps of a request only where it waits and for
how long, `Incident` only that it was a 502.

### PortfolioApi

One value of `Requests` is one goroutine that runs `Handler.portfolio` once.
`pc[r]` says where it stands; a step goes from one externally visible effect
(upstream call, mutex operation, network write) to the next, because everything
in between is local to the goroutine.

| pc | code | leaves by |
| --- | --- | --- |
| `idle`, `validate` | `handler.go:76-92` | `RejectCustomerID`, `CallCore`, `CallCoreCancelled` |
| `core` | `client.go:125-148`, the call in flight | `CoreAccepted`, `CoreNotFound`, `CoreFailed`, `CallAborted` |
| `symbols` | `service.go:42`, `client.go:461-476` | `SkipMarket`, `CallMarket`, `CallMarketCancelled` |
| `market` | the call in flight | `MarketAccepted`, `MarketFailed`, `CallAborted` |
| `aggregate` | `service.go:49-96` | `Aggregated`, `AggregationFailed` |
| `write` | `writeJSON` of a portfolio | `WritePortfolio` |
| `observe`, `observing` | the deferred `Metrics.Observe` under the mutex | `ObserveStatus`, `ObserveCount` |
| `flush` | net/http finishing the response after the handler returned | `Flush` |

`ObserveStatus` takes the mutex and increments the counter by status;
`ObserveCount` adds to count and sum and releases it. `ScrapeCounters` and
`ScrapeSummary` are the two halves of `WritePrometheus`. They are separate so
that the mutex, and not the grain of the model, is what keeps a page together.

The upstreams are the environment: any answer, or none for ever. `accounts[r]`
keeps of Core's answer only what the control flow looks at: no accounts,
accounts without positions, accounts with positions. Which bodies lead where is
the subject of the adapter modules.

**Time.** `Tick` passes only while every request in flight waits for the
network. Local computing, the mutex included, takes no time; the results about
deadlines are about network time, and the margin the code leaves for the rest is
the shipped 5 s against 2 x 2 s. `seconds` is Go's float64 sum, in ticks. Small
error bodies stay in the server's buffer until the handler returns, so only a
portfolio can block on a slow reader, and the write deadline ends that.

### PortfolioContract

Four actions: `Submit`, `Settle` (verdict and counter in one step), `Close`
(the answer, whole or cut off) and `Publish` (a page is a snapshot). `PortfolioApi`
implements it under the mapping in `Abstract`: a request is settled in the first
step of `Observe`; a page is published in the last step of `WritePrometheus`,
and is the snapshot of the counters at that moment although it was read before.

### Domain, adapters, service

`int64` is two's complement of parameter width (`IntMax`), a quantity has
`Places` decimals (`Scale = 10^Places`). An operation that can fail returns the
set of its results, with none for an error. Texts are reduced to what the
parsers tell apart: a quantity text to padding, sign, whole number, points,
fraction digits and junk; a currency text to the code that normalisation makes
of it, whether it was canonical, and its length.

A Core response is a status, a size and a body: whether it is one JSON value,
its top-level keys, whether all members are known and well typed, and the
members, each absent or present. `CoreNext` has one action per way `Accounts`
returns. The Market decoder reads one JSON value through a limited reader, so a
Market response also has the byte at which its value ends.

`PortfolioService` keeps the two loops as code does, with `i`, `j`,
`accountValue`, `holdings` and `result`. Its reference is written apart from it:
`ExactTotal`, a sum over the input in unbounded integers.

### EndToEnd

The variables are those of the three instances plus `answer`. Each adapter and
the service take their own steps (`Core!CoreNext`, `Market!MarketNext`,
`Service!...`); the actions of `EndToEnd` hand the accounts to the service, its
unique symbols to Market, the prices back, and the result or the error to the
response (`MapPortfolio`, `RespondError`). An upstream answers as its mock does
(`CoreMock` under either contract version, `MarketMock`) or with one of a set of
other responses. Public texts are structured, so that a client's reading of them
(`ReadAmount`, `ReadQuantity`) is written apart from the code that prints them.

### Server

`process` is where `main` and `RunServer` stand, `phase[r]` where request `r` does:
connected, in its call to Core or to Market, writing, done, or cut off. The
listener's goroutine and `signal.NotifyContext` race (`Listen`, `NotifyContext`); a
signal outside the registered interval kills (`SignalKills`); a listener may fail when
it opens or at any time after (`Listen`, `ListenerFails`), and a signal and a failed
listener may both be ready in the `select` (`Drain`, `ServeFailed`). `Shutdown` closes
the listener and waits for connections, those without a header included, under
its deadline (`Drained`, `ShutdownExpires`); then tracing is flushed under its own
(`Flushed`, `FlushExpires`). `End` records in `lost` what was cut off, with the exit
code. The readiness request has one budget over both calls, next to the client's
timer of each (`TimedOut`). `wait-for-api.sh` is the client `Poller`; its curl has no
timeout, so its attempts end when the server ends them.

### Incident

The API is reduced to the counter `Observe` increments and a restart sets to zero.
Prometheus is external, and its part is modelled as documented: `Scrape` every
`Interval`, `Evaluate` as often at a fixed but arbitrary `lag`, `increase` over the
window with its treatment of resets (`Growth`) and the extrapolation to the borders
of the window (`Exceeds`), `for` as two evaluations in a row. `Trigger`, `BeginCalls`
and `Call` are the make target, the `Poll` actions the fifteen polls, `WriteMarker`
what is done some time after a poll saw the alert. `wait-for-recovery.sh` is one
action per check, in its order, with everything else interleaved. Variables that
only properties read are commented as ghosts.

What the API answers to a request of the burst depends on the fault: `BurstAnswers`
is 200, 502 or both, chosen for each request. The shipped target injects Core v2, which
this version of the adapter maps, so that its burst is answered with 200s only; that
is the instance `ShippedBurst.cfg`, and a finding (section 6). With 502s among the
answers, the model is about the detection.

## 3. Runs

| Run | Question | Instance | States |
| --- | --- | --- | --- |
| `api_safety` | the safety and action properties of `PortfolioApi` | 2 valid requests, RT=2, WT=5, symmetry | 280 thousand |
| `api_contract` | `PortfolioApi` refines `PortfolioContract`, liveness included; every request ends | 2 requests, one malformed, RT=1, WT=3 | 9.6 thousand |
| `core_adapter` | v2 accepts its contract exactly, v1/v2 agreement, all-or-nothing mapping, texts that read back | about 6,000 responses | 12 thousand |
| `end_to_end` | what a client gets is what the upstreams sent, and it adds up | the mocks and sets of responses around theirs | 196 thousand |
| `service` | exactness, refusals, currencies, `asOf` | all account lists x price tables | 113 thousand |
| `server` | draining, exit codes, stopping time, readiness, the script | a prompt and a slow client and the script | 358 thousand |
| `incident` | detection, alert, recovery queries, marker | 1 burst of 200s and 502s, 1 fault, any recoveries | 3.69 million |
| `holding_overflow`, `v1_quantity_overflow`, `market_oversize`, `market_missing_amount`, `shipped_burst` | one documented statement each, violated | as above | |

What the properties of `api_safety` say: at most one call to each upstream and in
order (`CallDiscipline`); a 200 only from accepted answers (`FailClosed`); one
instant per page (`PageConsistent`); the counters are exactly the settled
requests (`CountedOnce`); an answer is counted before it is received
(`ReceivedIsCounted`); pages never run backwards (`PagesGrow`); no request outlives
its two timeouts (`CallsInTime`), and every error response beats the write deadline
(`ErrorsDelivered`). Clients leave at every point of all this. The part of
`CallDiscipline` about malformed ids speaks of no request here; `CallsInOrder` proves
it for any, and `api_contract` has one and checks what it is answered.

`core_adapter`: `V2QuantitiesExact` (no strict quantity wraps),
`V2AcceptsExactlyContract` (the checks of the v2 path against the documented
contract written apart, in both directions), `MappedWhole`, `VersionsAgree`,
and `QuantitiesReadBack` (the trimmed public text is read by
the parser as the same quantity).

`end_to_end`: `SeededAnswer` is what `scripts/e2e.sh` asserts, under both versions;
`PublicAnswerAddsUp` recomputes holdings, accounts and total from the public
texts, where all of them are in range and none is the lowest `int64`, whose text is
wrong (`money.go:39-44`); `PayloadReachesClient` compares the texts with the payloads,
the unit price with the last entry Market sent for the symbol, except for that amount and for the quantities that v1 lets wrap;
`StatusDecided` says which status what the upstreams sent must lead to, in both
directions: 404 for a 404 of Core and for nothing of Market's, 200 for answers that
follow both contracts (`CoreDocumented`, `MarketDocumented`) and can be valued
(`Valuable`), and no 200 for others, short of what v1 lets through and of a product
that wraps; `MarketFailsClosed` is the Market adapter's, for whoever asks.

`server`: a request whose handler ran when the signal came is not cut off unless
its client is slow (`PromptRequestsDrained`); exit code 0 means that the end of the
process cut nothing off (`CleanExitLosesNothing`; a slow client that the write deadline
cut off before is another matter); stopping takes at most both timeouts together, the ten
seconds Docker waits (`StopsInTime`); a readiness 200 is of the last second
(`ReadyIsFresh`); the process ends after a signal and the script always
(`SignalEndsProcess`, `ScriptEnds`).

`incident`: a burst is detected when at least `Threshold` of its requests got a 502,
unless the API process was replaced meanwhile (`BurstDetected`); the alert fires for at least `Threshold` 502s unless a scrape was
missed (`FiringJustified`); the zero of the recovery query means that no 502 was
answered between the oldest and the newest scrape (`ZeroMeansQuiet`) and that no
alert is active then, if the checks were quick and no scrape was missed
(`AlertQuietAtQuery`); no marker is removed without its archive unless it was
written while a recovery ran (`ClearedUnlessRewritten`).

**Bounds.** Each request is served once and has at most two timed waits and a
bounded write, so the state space is finite without constraints. Two
requests and the scraper are three contenders for the mutex, so one of them can
wait while another takes over from the holder; more requests add no new kind of
contention, and the theorems hold for any number. 2 and 5 ticks are the shipped
2 s and 5 s; 5 against 2, and 3 against 1, are the tightest write deadlines
`WriteAssumption` allows. A malformed id takes part in `api_contract`, where it
decides; that run has no symmetry reduction, which is unsound for liveness.

`service` runs on 8-bit integers and one decimal place, where 20 tenths of 60 is the
product that wraps to a multiple of ten. `core_adapter` has `IntMax` 1279 and two
places: 12.79 is the largest quantity, 12.80 and 13 the first beyond, and a fraction
of two digits tells a digit that is not the last from the last. At these widths every boundary of the
code is within a few steps of ordinary values. Responses vary one part at a time
around a well-formed one: each check of the adapter decides alone, and a second
account, well formed, stands before or after the varied one.

`end_to_end` runs on numbers wide enough for the seeded portfolio (34375.00 USD,
with quantities of one decimal), and varies Core's and Market's responses around the
mocks', a few parts at a time; one customer is known and one is not.

`server` has the shipped timeouts in seconds, except a flush of 2 and two attempts
of the script: attempts are all alike, and a longer flush only waits longer. Both
kinds of client and the script overlap with every step of the process.

`incident` keeps the order of the shipped constants (poll pause < scrape interval <
sleep < window, threshold = burst size or below) on a smaller scale: `Interval` 3,
`Slots` 5, `Threshold` 2, `Settle` 4, `Burst` 3, `CallTime` 1, `PollEvery` 2, `MaxPolls` 6.
`Runs` = 1 and `Faults` = 1 bound bursts and faults (a stray 502, a stop of the API or
an unanswered poll); a marker may be there from an earlier incident, and
recoveries are unbounded. Every phase of `lag`, scrape and script is an initial state or
reached by waiting. Any of the three requests may be answered with a 200, so that the 502s are fewer than
the threshold, exactly as many (the hardest case: every one has to be seen), or more.
The window and the polls are no larger than needed: with `MaxPolls` 5 or `Slots` 4, TLC
finds `BurstDetected` violated. `shipped_burst` is the same instance with 200s only and
without faults.

The adapter, service, end-to-end and server runs switch deadlock checking off
because a call, a request or a process that has ended stops. `PortfolioApi` and
`Incident` never stop: a scrape is always possible, and the clock runs on.

`PROJECT.json` lists for every property of every passing run a mutant, an
operator beside the one it replaces that makes a plausible bug of it (a dropped
guard, a retry, a read without the mutex, a captured status, a skipped entry).
TLC finds each property violated under its mutant.

## 4. Fairness

`Fairness` assumes nothing of clients and upstreams: a client may stay or leave,
an upstream may never answer. It assumes that

* a goroutine that can proceed does (`WF` of `Runs(r)`): the Go scheduler;
* a goroutine waiting for the mutex gets it eventually even if scrapes and other
  requests keep taking it (`SF` of `ObserveStatus(r)`): `sync.Mutex` hands over
  to a waiter that has starved for a millisecond;
* a page being rendered is finished (`WF` of `ScrapeSummary`), as it fits the
  server's buffer and does not block on the network under the mutex;
* time passes (`WF` of `Tick`), which lets the timeouts fire. Tick waits for
  local steps only, never for an upstream.

No fairness is given to the start of scrapes, to `Arrive`, to answers or to
`ClientLeaves`.

`Server`'s `Fairness` is `WF` of the process's own steps, of the script's, of `Tick`, of
the three timers of each request (`HeaderLate`, `CallTimesOut`, `WriteLate`), and of
`Written` for clients that read promptly. Nothing is assumed of signals, of the
answers of upstreams, of slow clients, of the trace collector (`Flushed`), or of the
listener once it is open (`ListenerFails`).

`Incident` states no liveness: "detected" is bounded by the number of polls, so that
failing to detect is a state (`timedOut`), and `BurstDetected` and the violated
`TriggerDetects` are invariants.

## 5. Proofs

Every theorem holds for all values of the constants that satisfy the named
assumptions of its module; TLC evaluates the assumptions in every run.

### PortfolioApiProofs

| Theorem | States |
| --- | --- |
| `TypeCorrect` | `Spec => []TypeOK` |
| `DeadlinesHold`, `ErrorsReachClients` | `Spec => [](CallsInTime /\ ErrorsDelivered)` |
| `PortfoliosStartInTime` | `Spec => WriteStartsInTime` |
| `CallsInOrder`, `FailsClosed` | `Spec => [](CallDiscipline /\ FailClosed)` |
| `PagesConsistent` | `Spec => []PageConsistent` |
| `CountersMonotone` | `Spec => PagesGrow` |
| `CountingCorrect`, `AnswersAreCounted` | `Spec => [](CountedOnce /\ ReceivedIsCounted)` |
| `ImplementsContract` | `Spec => Abstract!Safety` |

Assumptions: `RequestsAssumption` (finite set), `HoldersAssumption` (the mutex
holders are distinct), `TimeoutAssumption` (`RequestTimeout > 0`) and
`WriteAssumption` (`2 * RequestTimeout < WriteTimeout`; shipped 2 s and 5 s).
The last is what the deadlines rest on: `REQUEST_TIMEOUT` comes from the
environment while the write deadline is fixed in `main.go:74`, and nothing in
the code relates the two.

None of the safety properties is inductive alone. The argument:

* `ClockInv` ties the age of a request to where it stands: up to `RequestTimeout`
  until Core has answered, one more until Market has, and up to the write
  deadline in `write`. `TypeOK` bounds the timer of the call. Together they give
  `CallsInTime`, `ErrorsDelivered` and `WriteStartsInTime`.
* `CallInv` ties call counts, accounts and prices to `pc`, including that each
  count is still zero before its call; this is what makes "at most one" inductive.
* `MutexInv`: `mu = r` exactly when `pc[r] = "observing"`, and `mu = Scraper`
  exactly when a page is half rendered. So between the two steps of either no
  other one is enabled.
* `RegistryInv`: counters and count agree when no request holds the mutex and
  differ by the one in progress when one does; the half-rendered page equals the
  counters; the seconds are bounded by count. This gives `PageConsistent`, and,
  as it bounds the exposed page by the registry, `PagesGrow`.
* `CountedOnce` is inductive given types: only `ObserveStatus` changes a counter,
  and it moves one request into one of the counted sets (cardinality lemmas of
  `FiniteSetTheorems`).
* `VerdictInv` ties the status to the identifier, `CallInv` the answer received to
  the status; with `MutexInv` and `RegistryInv` every step maps to a step of `PortfolioContract`
  or to a stutter.

### CoreAdapterProofs

`V2NeverWraps` (`[]V2QuantitiesExact`), `V2ContractExact`
(`[]V2AcceptsExactlyContract`), `SwitchIsInvisible` (`[]VersionsAgree`), for every set of
responses, every integer width and every number of decimals.

The arithmetic core is two lemmas on the range check of `client.go:280-291`, which
divides where the parser multiplies. `ParsedExactly`: what the check lets pass, the
parser computes without wrapping (`DivBound`, then `WrapIdentity`, as the result is in
`Int64`). `QuantityAccepted`: and conversely every plain decimal in range passes both
(`DivReached`). From there the proofs climb the structure of a response: a text, a
position, a list (`AllOfMembers`, `AllOfSome`), a portfolio, a body, and one case per
action of `CoreNext`. For `SwitchIsInvisible` each level shows that the strict result,
if there is one, equals the lenient one (`SamePosition`, `SameMoney`, `SameAccount`);
it needs equality and not inclusion, because a list of results takes one member
of each.

`ResponsesMappedWhole` (`[]MappedWhole`) and `QuantityTextsReadBack`
(`[]QuantitiesReadBack`) are about the accounts returned. `MadeOf`
says that an account is made of an account of the payload, part by part, and is shown
for both translations; `WholeInv` carries it from the action that accepts to every
later state. With it, the quantities are those of one parser or the other, between 0 and `IntMax`, which is what
`DomainProofs` needs to read them back.

Assumptions: `WidthAssumption` and `ScaleAssumption` of `Domain`, `LimitAssumption`,
`CategoriesAssumption` (no category is the empty text), and `ResponsesAssumption`: a
member is there once or not at all, and a quantity text has fraction digits only
behind a point, which stand for less than one unit.

### SumTheorems and DomainProofs

The references of the properties are sums over whatever the input holds, and the
trimmed text of a quantity is a search through the powers of ten, so both need
induction over data. The induction theorems of the library take an operator,
which the provers cannot instantiate. `SumTheorems` states induction over a *set* of
naturals instead (`Induction`, from the least member of the complement), and derives
from it that a recursion over the subsets of a domain has one solution, that
`SumFunction` is it, and that the order of the terms does not matter. The rest follows
without induction on the operator: `SumAppend`, `SumScaled`, `SumWithin`, `SumShifted`,
`SumTelescopes` and others, for every finite domain of integers or for every length.

`DomainProofs` has the arithmetic of `money.go`: wrapping can be left to the last
operation (`WrapLater`, `WholeSum`), the value of a holding whose product is in range
is exact (`MarketValueExact`), and the public text of a quantity, fraction digits
trimmed, is parsed as the same quantity (`ReadsBack`), for every width and number
of decimals.

### ServiceProofs

`CurrenciesNeverMix` (`[]OneCurrency`), `AsOfIsNewestHeld` (`[]AsOfNewestHeld`),
`RefusedForAReason` (`[]RefusesExactly`), `PortfolioIsExact` (`[]ExactInRange`),
`PortfolioIsWhole` (`[]Listed`) and `LoopsEnd`, for every set of account lists and price tables
`SourcesAssumption` allows (currencies are any texts). `TypeInv` types the loop's
variables.

* `CurrencyInv` says that the account in progress and all finished ones are in the
  currency of the total as soon as there is one, which `Add` keeps because it
  refuses two currencies.
* `AsOfInv` says that `result.asOf` is the newest of the prices of the positions
  passed so far, in terms of the loop's indexes `i` and `j`.
* `RefuseInv`: all that the loops have passed is priced, worth whole minor units and
  in the currency of the total, and a refusal has a `Reason`: no price, a fraction of a
  minor unit, or a second currency. Beyond the range of products the fraction is that
  of a wrapped product, and `RefusesExactly` claims only that a missing price refuses. At the end of the
  loops everything has been passed, so that the two exclude each other.
* `ExactInv`: every total so far is its exact value *modulo 2^w*. A sum may leave the
  range and return, so that no stronger invariant holds while the loops run; when
  the exact total is in range, it is the one number of the range congruent to it.
* `ListInv`: what the loops have passed is listed in its place, in range or not.
* `LoopsEnd` needs no more than where the loops stand: the calls, the accounts and the
  positions that are left are three naturals, and every step lowers the first of them
  that it changes. That no such sequence falls for ever is the reader's step.

### ServerProofs

`ServerTypeCorrect`, `ShutdownDrains`, `CleanExitIsClean`, `StoppingBounded`,
`ReadinessFresh`, `ReadinessNeverHoldsUp` (`[]ReadinessDrainsFirst`) and `ScriptCorrect`
(`[]ScriptIsRight`), for any set of requests, any of them slow, and all timeouts with
`2 * RequestTimeout < ShutdownTimeout` and `< WriteTimeout` (`ServerAssumption`). The
invariant `ServerInv` has three parts. `ClockInv` bounds a request's age by where it
stands (a timeout for each call behind it, the budget for readiness) and says that
one that was running when draining began is at least as old as the draining: so
when Shutdown's deadline comes it would be older than two timeouts, and is gone.
`StageInv` says what each stage of the process implies for listener, signal, timers
and exit code; `ScriptInv` does so for the script.

### IncidentProofs

`IncidentTypeCorrect` (`[]TypeOK`) and `MarkersPreserved` (`[]ClearedUnlessRewritten`), for
all constants `IncidentAssumption` allows, any number of runs and faults. `MarkerInv`:
while a recovery is past the archive check, the marker in place has an archive,
was written while one ran, or is gone.

The other theorems relate what Prometheus computes from the samples to what the
API did, which only the ghosts remember. Each needs its own invariant, because each
has to survive a sample that leaves the window.

* `RecoveryQuiet` (`ZeroMeansQuiet`), for all constants. `SampleInv`: two neighbouring
  samples of one process differ by what was answered between them. A rise of zero
  is a sum of non-negative terms that is zero.
* `AlertJustified` (`[]FiringJustified`), for `Threshold <= 3` and `Threshold < Slots`.
  `GrowthInv` bounds every step between samples, resets included, by what was
  answered; `AlertInv` says what an alert still stands for after the evaluation
  (`Judged`) and after the next scrape, when the window has moved under it (`Due`).
* `RecoveryUnderNoAlert` (`AlertQuietAtQuery`), for `Threshold < Slots` and `Slots >= 3`.
  `StepInv` says what an inactive or pending alert knows of the steps in the window,
  `AgeInv` how far it can have moved since the recovery read it.
* `BurstIsDetected` (`[]BurstDetected`), for every `H` with `Detectable(H)`: a burst takes
  at most `H` scrape intervals and starts after a scrape; and the polls are so many and so close that one of them, beyond those that `Faults`
  can leave unanswered, comes after the alert has fired and before the burst leaves
  the window. The shipped constants satisfy it with `H = 1`, calls of up to a second
  and up to two faults, and so does the instance of the run. `BurstInv` follows the
  trigger: before the burst the process has been scraped (`Settled`); during it the
  samples are unbroken and at most `base` before it began, and the counter has risen
  from `base` by the 502s so far, which the ghost `failed` counts (`Calling`); after it the
  alert is as far as the number of scrapes since says, and the polls made so far, but
  for the unanswered, were before that (`Polling`).

The hypotheses on the threshold are about extrapolation, by which `increase` can make
up for a 502 that was not answered: with a threshold of 4 in a window of 5, TLC finds
`FiringJustified` violated. That the threshold is below `Slots` is what the proofs
use; no counterexample is known without it. The shipped rule has 3 and 6.

### EndToEndProofs

`CoreAsSpecified` and `ServiceAsSpecified` state that the composition implements the
specifications of its parts, `Adapter!CoreSpec` and `Valuation!ServiceSpec`, where the
parts' inputs are all that the rest of the stack can hand them: the mocks' answers
and the given responses, and every list and table an adapter could return. So the
theorems of `CoreAdapterProofs` and `ServiceProofs` hold inside it. The assumptions of
the instances are proved (`AdapterAssumptions`, `ValuationAssumptions`), which includes
that the mocks' answers are well formed. `StackInv` is what makes a step of the service
one its specification allows: accounts and prices come from the adapters
(`Adapter!WholeInv`, `MarketInv`).

* `MarketClosed` (`[]MarketFailsClosed`) follows from `MarketInv`: the table is the
  translation of the very answer.
* `StatusFollows` (`[]StatusDecided`): `LinkInv` ties the answer to the outcome of each
  part and what one part holds to what another returned; `RefusalInv` adds why a part
  refused. With them the adapters and the service are followed in both directions:
  what is documented is accepted and priced (`DocumentedAccepted`, `DocumentedPriced`),
  what was accepted and priced is documented (`AcceptedDocumented`,
  `PricedDocumented`), and `RefusedForAReason` decides for the valuation.
* `AnswerAddsUp` (`[]PublicAnswerAddsUp`): `PortfolioIsExact`, `PortfolioIsWhole` and
  `CurrenciesNeverMix` of the instance, with the public texts read back (`ReadsMoney`,
  `ReadsQuantity`).
* `PayloadArrives` (`[]PayloadReachesClient`): `MadeOf` from the payload to the accounts,
  `Listed` from the accounts to the portfolio, `MarketInv` from the last entry for a
  symbol to its price, and the texts again.
* `SeededIsServed` (`[]SeededAnswer`) for all constants with `SeedFits`: the width holds
  the products and the total of the seed, and categories, letters and size limit
  admit it. TLC evaluates `SeedFits` for the instance
  of the run (`SeedAssumption`); the shipped values are named at its definition. The
  status comes from `StatusFollows`, the accounts and prices are computed from the
  mocks' answers (`SeedLoaded`, `SeedQuoted`), and the amounts follow from
  `PortfolioIsExact`.
* `ApiAsSpecified`: seen through `Stage`, `Code`, `Held` and `Calls`, every step of the
  stack is a step of `PortfolioApi` for one request, or not visible there, and it
  starts where that module's `Arrive` and `CallCore` lead. `PortfolioApi` leaves the
  outcomes of both calls and of the valuation to the environment; this shows that the
  computed ones are among them and come in its order: no call to Market without a
  position, none after a failure of Core, and no failed valuation of an empty list.
  Cancellation, time and the counters are not in `EndToEnd`; they are constant in the
  mapping, and the last step seen is the write of the response.

Assumptions: `MocksAssumption` (the texts of the mocks are texts and their amounts
fit the width), `AdapterAssumption`, `CoreAssumption` and `MarketAssumption` (the other
responses are of the kinds that `Domain` and the adapters tell apart).

### Only model-checked, only proved

Out of reach of the prover is liveness: `EveryRequestEnds`, `SignalEndsProcess`,
`ScriptEnds` and the liveness half of `Contract` stay with TLC.
Every other property of the passing runs is a theorem, all invariants among them.
Only proved, with no run of their own: `WriteStartsInTime`, `ReadinessDrainsFirst`,
`ScriptIsRight`, `Listed`, `Incident`'s `TypeOK`, and the statements of `LoopsEnd`,
`CoreAsSpecified`, `ServiceAsSpecified` and `ApiAsSpecified`.

Two models changed on the way. `Incident`'s `Evaluate` was a `CASE` with overlapping
guards, of which TLA+ may take either; it is ordered now, as Prometheus' is.
`PublicAnswerAddsUp` and `PayloadReachesClient` held on the instances of the run but not
for every width: the lowest `int64` is printed wrongly and v1 quantities wrap, and
both properties now say so.

## 6. Findings

* **Holding overflow** (`holding_overflow`, `money.go:100`). `MarketValue` multiplies
  without a range check. A product beyond `int64` wraps; it is usually refused
  because the remainder is not zero, and reported as a value when it happens to
  be. ADR-002:14-15 asks for an exact value. `ExactInRange` shows that in range,
  everything is exact, although sums wrap and wrap back on the way.
* **v1 quantity overflow** (`v1_quantity_overflow`, `money.go:87`). v2 checks the range
  before parsing, v1 does not: a quantity beyond the range is accepted as another
  one.
* **Oversized Market answers** (`market_oversize`, `client.go:483`).
  architecture.md:67 says that responses above 1 MiB are not decoded; Market's
  are, when the JSON value ends within the limit.
* **Missing amount** (`market_missing_amount`, `client.go:494`). A price without
  `amount_minor` is a price of zero in a 200; the Market contract requires it.
* **The shipped fault is none** (`shipped_burst`, `Makefile:92`).
  `demo-trigger-incident` switches Core to v2, which the adapter recognises and maps
  (`client.go:184-221`, `339-385`): the API answers the whole burst with 200
  (`SeededAnswer` of `end_to_end`, `SeededIsServed` for every width), counts no 502, and
  `wait-for-incident.sh` times out. `README.md:112-114` says that the target injects a
  fault and waits for Prometheus to raise an alert; `docs/demo-guide.md:42` counts on
  the alert and the 502. In the trace, all polls pass without one.

Seen while modelling, without a run:

* With no accounts there is no currency: `Service.Get` returns the zero `Money`
  (`service.go:48`), and the 200 has `""` where `api/openapi.yaml:72` requires three
  letters. `ExactInRange` covers its amount, no property its currency.
* A total whose exact value is beyond `int64` is returned wrapped in a 200
  (`money.go:34`). No document states a range for totals; `ExactInRange` and
  `PublicAnswerAddsUp` exclude the case.
* `Money.Amount` of the lowest `int64` prints a negative number of units after its
  sign (`money.go:42`); v1 passes on account types outside the public enumeration
  (`client.go:315`); v1 normalises currencies that v2 refuses, and accepts any three
  bytes.
* A signal before `signal.NotifyContext` (`server.go:21`) kills the process with
  requests in flight, as the listener's goroutine may already serve. A listener
  that fails in the moment of a signal may end in exit code 0, as `select` may take
  the signal.
* `PromptRequestsDrained` does not cover connections whose header comes after the
  signal: their handler may be cut off at Shutdown's deadline.
* `wait-for-recovery.sh` hashes one marker (line 56) and removes whatever is there
  last (line 129). A marker that `wait-for-incident.sh` writes in between is removed
  without an archive, and `ClearedUnlessRewritten` excludes this case. `architecture.md:75` calls recovery serialized; nothing in the
  scripts makes it so.
* The alert can fire for two 502s when a scrape after them is missed, because
  `increase` then extrapolates the rise further (at the shipped constants
  2 x 1.5 = 3). `prometheus-alerts.yaml:12` speaks of at least three; as this is the
  arithmetic of Prometheus, modelled and not read, `FiringJustified` excludes the case
  and no finding is claimed.
* Right after an outage the recovery query can be zero while the alert is pending
  again, and a restart between two scrapes hides the 502s before it.
* The `sleep 6` of `demo-trigger-incident` comes before it waits for the API; a
  process replaced in between has no sample at zero before the burst. This is why
  `BurstDetected` excludes a process replaced meanwhile.

## 7. What is abstracted or left out

* JSON: decoding is what the adapter can tell of a body (section 2). Case
  folding of member names and duplicate members are not modelled.
* Transport: connection reuse, and the one retry net/http makes of an idempotent
  request on a stale idle connection, are inside "a call"; calls counted are calls
  of `client.Do`. Dial and header timeouts are not longer than the client's and
  are among `CoreFailed` and `MarketFailed`.
* A `REQUEST_TIMEOUT` that is zero or negative disables the timeout; the code
  accepts it, `TimeoutAssumption` excludes it.
* A page of metrics is taken to fit the server's write buffer. A panic of a
  handler is not modelled; none was found.
* `WritePortfolio` counts a 200 whose body the write deadline cuts off. No document
  promises a count of whole responses, so no property claims it.
* In `Server`, a request is one connection: keep-alive connections that are idle
  are closed at once by `Shutdown` and lose nothing. Local computing takes no time.
* In `Incident`, scrapes are exactly `Interval` apart and take no time; the API
  answers a burst's requests within `CallTime`. The files of the archive are one
  fact (`archived`), and the script's checks of hash and manifest its guard.
* The mocks' answers to malformed requests (400, 405) cannot be caused by the
  adapters and are left out; their one-line start-up is not modelled.
* Logging and tracing set-up have no state the system depends on, except the
  flush at exit (`Server`). Environment parsing, the quality gates and the checks of
  secrets and coverage are tools of the repository and not part of the system;
  what `e2e.sh` asserts is `SeededAnswer`.
* Prices of the zero time are told from others; other times are small numbers.

## 8. Plan

What is left, most useful first:

1. `Incident` with two bursts and two faults in TLC, on a machine that can hold the
   state space, and with scrapes that take time.
2. `Server` with connections that carry more than one request.
3. `Server` as a refinement of `PortfolioApi`, so that the stopping time follows from
   the deadlines of its requests. An arrival is one step of `Server` and two of
   `PortfolioApi`, which takes a stuttering variable and a finer grain of `Server`'s
   handler. Today `ServerProofs` derives those bounds on its own.
