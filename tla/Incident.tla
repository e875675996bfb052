------------------------------- MODULE Incident -------------------------------
(***************************************************************************)
(* Detection and recovery of an incident: the API's 502 counter, the       *)
(* Prometheus that scrapes it and evaluates the alert rule, the scripts    *)
(* that wait for the alert and that clear the incident marker, and the     *)
(* operator who archives it.                                               *)
(*                                                                         *)
(* Time is whole seconds.  Prometheus is external: it scrapes every        *)
(* Interval seconds, evaluates the rule as often, a fixed lag after the    *)
(* scrape, and computes increase(...[30s]) as its documentation says, the  *)
(* extrapolation to the borders of the window included.                    *)
(***************************************************************************)
EXTENDS Integers, FiniteSetsExt

CONSTANTS
    Interval,     \* of scrapes and of evaluations, and the rule's "for": 5 s
    Slots,        \* scrapes in the rule's window: 30 s / 5 s = 6
    Threshold,    \* of the rule: 3
    Settle,       \* sleep before the fault: 6 s
    Burst,        \* requests of demo-trigger-incident: 5
    CallTime,     \* the longest one of them takes
    BurstAnswers, \* what the API can answer them while the fault is in place
    PollEvery,    \* pause between two polls: 4 s
    MaxPolls,     \* polls of wait-for-incident.sh: 15
    Runs,         \* bound: how often demo-trigger-incident is run
    Faults        \* bound: failing requests outside its bursts, stops of the API
                  \* and polls that Prometheus does not answer, together

ASSUME IncidentAssumption ==
    /\ {Interval, Slots, Threshold, Settle, Burst, PollEvery, MaxPolls} \subseteq Nat \ {0}
    /\ {CallTime, Runs, Faults} \subseteq Nat
    /\ BurstAnswers # {} /\ BurstAnswers \subseteq {200, 502}

VARIABLES
    api,        \* up or down
    counter,    \* requests["502"] of the process
    samples,    \* the counter at the last Slots scrapes, or None
    clock,      \* seconds since the last scrape
    lag,        \* seconds from a scrape to the next evaluation
    alert,      \* inactive, pending or firing
    watch,      \* demo-trigger-incident: idle, settling, calling, polling, seen,
                \* detected, timedOut or aborted
    left,       \* seconds until its next step
    done,       \* requests sent in the burst, then polls made
    failed,     \* ghost: the requests of the burst that got a 502
    marker,     \* the number of the active marker, or NoMarker
    written,    \* markers written so far
    archived,   \* the markers with a durable archive
    recovery,   \* wait-for-recovery.sh: idle, archived, inactive, noAlert, up or zero
    budget,     \* what is left of the bounds: runs and faults
    failures,   \* ghost: 502s answered between the last Slots scrapes and since
    started,    \* ghost: scrapes since the API process started, at most Slots
    replaced,   \* ghost: the API process stopped or started since the trigger began
    age,        \* ghost: seconds since the rule was read, at most Interval
    cleared,    \* ghost: the markers recovery removed
    rewritten   \* ghost: the markers written while a recovery was under way

apiVars == <<api, counter>>
promVars == <<samples, clock, lag, alert>>
watchVars == <<watch, left, done, failed>>
markerVars == <<marker, written, archived>>
ghosts == <<failures, started, replaced, age, cleared, rewritten>>
vars == <<apiVars, promVars, watchVars, markerVars, recovery, budget, ghosts>>

None == -1
NoMarker == 0
Window == 1 .. Slots

\* Prometheus has just started; a marker may be there from an earlier incident.
Init ==
    /\ api = "up" /\ counter = 0
    /\ samples = [i \in Window |-> None]
    /\ clock = 0 /\ lag \in 0 .. Interval - 1
    /\ alert = "inactive"
    /\ watch = "idle" /\ left = 0 /\ done = 0 /\ failed = 0
    /\ written \in {0, 1} /\ marker = written /\ archived = {}
    /\ recovery = "idle"
    /\ budget = [runs |-> Runs, faults |-> Faults]
    /\ failures = [i \in 1 .. Slots + 1 |-> 0] /\ started = 0
    /\ replaced = FALSE /\ age = 0
    /\ cleared = {} /\ rewritten = {}

Spend(what) ==
    /\ budget[what] > 0
    /\ budget' = [budget EXCEPT ![what] = @ - 1]

-----------------------------------------------------------------------------
(* The API: Metrics of one process.                                        *)

\* Bug: counted by the handler and by the middleware.
Observe502Twice ==
    /\ api = "up"
    /\ counter' = counter + 2
    /\ failures' = [failures EXCEPT ![Slots + 1] = @ + 1]
    /\ UNCHANGED <<api, started, replaced, age, cleared, rewritten>>

\* Observe("502"), and when it happened.
Observe502 ==
    /\ api = "up"
    /\ counter' = counter + 1
    /\ failures' = [failures EXCEPT ![Slots + 1] = @ + 1]
    /\ UNCHANGED <<api, started, replaced, age, cleared, rewritten>>

StrayFailure ==
    /\ Spend("faults")
    /\ Observe502
    /\ UNCHANGED <<promVars, watchVars, markerVars, recovery>>

Stop ==
    /\ api = "up"
    /\ Spend("faults")
    /\ api' = "down"
    /\ replaced' = TRUE
    /\ UNCHANGED <<counter, promVars, watchVars, markerVars, recovery,
                   failures, started, age, cleared, rewritten>>

\* NewMetrics: every counter starts at zero.
Start ==
    /\ api = "down"
    /\ api' = "up"
    /\ counter' = 0
    /\ started' = 0 /\ replaced' = TRUE
    /\ UNCHANGED <<promVars, watchVars, markerVars, recovery, budget,
                   failures, age, cleared, rewritten>>

\* Bug: NewMetrics starts with an empty map.
ExposedOnceSeen == IF counter = 0 THEN None ELSE counter

\* The 502 series of GET /metrics, present from the start.
Exposed == counter

-----------------------------------------------------------------------------
(* Prometheus.                                                             *)

Held(s) == {i \in Window : s[i] # None}

Growth(s, i) ==
    LET before == s[Max({j \in Held(s) : j < i})]
    IN  IF s[i] < before THEN s[i] ELSE s[i] - before

\* What the counter rose by over the window, a fall taken for a reset.
Rise(s) == SumFunction([i \in Held(s) \ {Min(Held(s))} |-> Growth(s, i)])

\* increase() needs two samples.
Measurable(s) == Cardinality(Held(s)) >= 2

\* The rule's expression: the rise, extrapolated to both borders of the window
\* as far as the mean distance of the samples allows and never below zero, is
\* at least the threshold.  Both sides are multiplied by span and gaps.
Exceeds(s) ==
    LET first == Min(Held(s))
        last == Max(Held(s))
        span == (last - first) * Interval
        gaps == 2 * (Cardinality(Held(s)) - 1)
        reach(d) == IF 5 * gaps * d >= 11 * span THEN span ELSE gaps * d
        Least(a, b) == IF a < b THEN a ELSE b
        toStart == reach(first * Interval - lag)
        toEnd == reach(lag + (Slots - last) * Interval)
    IN  /\ Measurable(s)
        /\ Rise(s) * (gaps * span + toEnd) + Least(Rise(s) * toStart, gaps * span * s[first])
             >= Threshold * gaps * span

Scrape ==
    /\ samples' = [i \in Window |->
                     IF i < Slots THEN samples[i + 1]
                     ELSE IF api = "up" THEN Exposed ELSE None]
    /\ failures' = [i \in 1 .. Slots + 1 |-> IF i <= Slots THEN failures[i + 1] ELSE 0]
    /\ started' = IF api = "up" /\ started < Slots THEN started + 1 ELSE started

Evaluate ==
    alert' = IF ~Exceeds(samples') THEN "inactive"
             ELSE IF alert = "inactive" THEN "pending"
             ELSE "firing"

TargetUp == samples[Slots] # None

\* Requests of the burst and polls are due when their time has come; the marker
\* and the steps of the recovery may take any time.
Tick ==
    /\ watch \in {"calling", "polling"} => left > 0
    /\ clock' = (clock + 1) % Interval
    /\ IF clock' = 0 THEN Scrape ELSE UNCHANGED <<samples, failures, started>>
    /\ IF clock' = lag THEN Evaluate ELSE UNCHANGED alert
    /\ left' = IF left > 0 THEN left - 1 ELSE 0
    /\ age' = IF recovery \in {"inactive", "noAlert", "up"} /\ age < Interval
                THEN age + 1 ELSE age
    /\ UNCHANGED <<apiVars, lag, watch, done, failed, markerVars, recovery, budget,
                   replaced, cleared, rewritten>>

-----------------------------------------------------------------------------
(* make demo-trigger-incident and wait-for-incident.sh                     *)

Idle == watch \in {"idle", "detected", "timedOut", "aborted"}

Trigger ==
    /\ Idle
    /\ Spend("runs")
    /\ watch' = "settling" /\ left' = Settle /\ done' = 0 /\ failed' = 0
    /\ replaced' = FALSE
    /\ UNCHANGED <<apiVars, promVars, markerVars, recovery,
                   failures, started, age, cleared, rewritten>>

\* The fault is in place; wait-for-api.sh finds the API, or make stops.
BeginCalls ==
    /\ watch = "settling" /\ left = 0
    /\ \/ api = "up" /\ watch' = "calling" /\ left' = CallTime
       \/ watch' = "aborted" /\ left' = 0
    /\ UNCHANGED <<apiVars, promVars, done, failed, markerVars, recovery, budget, ghosts>>

\* A request of the burst is answered, or finds no API.  curl takes a 502 for an
\* answer like any other, and the status of the loop is that of its last request:
\* make stops when that one found no API.
Call ==
    LET last == done + 1 = Burst
    IN  /\ watch = "calling"
        /\ \/ 502 \in BurstAnswers /\ Observe502 /\ failed' = failed + 1
           \/ /\ api = "up" => 200 \in BurstAnswers
              /\ UNCHANGED <<apiVars, ghosts, failed>>
        /\ watch' = IF ~last THEN "calling" ELSE IF api = "up" THEN "polling" ELSE "aborted"
        /\ done' = IF last THEN 0 ELSE done + 1
        /\ left' = IF last THEN 0 ELSE CallTime
        /\ UNCHANGED <<promVars, markerVars, recovery, budget>>

PollDue == watch = "polling" /\ left = 0 /\ done < MaxPolls

PollSees ==
    /\ PollDue
    /\ alert = "firing"
    /\ watch' = "seen"
    /\ UNCHANGED <<apiVars, promVars, left, done, failed, markerVars, recovery, budget, ghosts>>

NextPoll ==
    /\ done' = done + 1
    /\ left' = PollEvery
    /\ UNCHANGED <<apiVars, promVars, watch, failed, markerVars, recovery, ghosts>>

PollSeesNothing == PollDue /\ alert # "firing" /\ NextPoll /\ UNCHANGED budget

PollUnanswered == PollDue /\ Spend("faults") /\ NextPoll

PollsOver ==
    /\ watch = "polling" /\ left = 0 /\ done = MaxPolls
    /\ watch' = "timedOut"
    /\ UNCHANGED <<apiVars, promVars, left, done, failed, markerVars, recovery, budget, ghosts>>

\* Some time after the poll, whatever active.json held is overwritten.
WriteMarker ==
    /\ watch = "seen"
    /\ watch' = "detected"
    /\ written' = written + 1
    /\ marker' = written'
    /\ rewritten' = IF recovery = "idle" THEN rewritten ELSE rewritten \cup {marker'}
    /\ UNCHANGED <<apiVars, promVars, left, done, failed, archived, recovery, budget,
                   failures, started, replaced, age, cleared>>

-----------------------------------------------------------------------------
(* The operator's archive and wait-for-recovery.sh                         *)

\* The operator archives the marker, its hash and a manifest.
Archive ==
    /\ marker # NoMarker
    /\ archived' = archived \cup {marker}
    /\ UNCHANGED <<apiVars, promVars, watchVars, marker, written, recovery, budget, ghosts>>

\* The recovery goes from one check to the next; nothing else changes.
Check(from, to) ==
    /\ recovery = from
    /\ recovery' = to
    /\ UNCHANGED <<apiVars, promVars, watchVars, markerVars, budget>>

\* Bug: the marker alone is evidence enough.
HashMarkerUnlinked ==
    /\ marker # NoMarker
    /\ Check("idle", "archived")
    /\ UNCHANGED ghosts

HashMarker ==
    /\ marker \in archived
    /\ Check("idle", "archived")
    /\ UNCHANGED ghosts

RuleInactive ==
    /\ alert = "inactive"
    /\ age' = 0
    /\ Check("archived", "inactive")
    /\ UNCHANGED <<failures, started, replaced, cleared, rewritten>>

\* The list holds pending alerts too.
NoAlert == alert = "inactive" /\ Check("inactive", "noAlert") /\ UNCHANGED ghosts

TargetIsUp == TargetUp /\ Check("noAlert", "up") /\ UNCHANGED ghosts

\* Bug: compared with the threshold of the alert.
QueryBelowThreshold ==
    /\ Check("up", "zero")
    /\ Measurable(samples) /\ Rise(samples) < Threshold
    /\ UNCHANGED ghosts

\* Bug: over a shorter range than the rule's.
QueryShorter ==
    /\ Check("up", "zero")
    /\ {Slots - 1, Slots} \subseteq Held(samples) /\ Growth(samples, Slots) = 0
    /\ UNCHANGED ghosts

\* Exactly one result, and it is zero.
QueryZero ==
    /\ Check("up", "zero")
    /\ Measurable(samples) /\ Rise(samples) = 0
    /\ UNCHANGED ghosts

\* rm -f: whatever active.json is by now.
Clear ==
    /\ recovery = "zero"
    /\ recovery' = "idle"
    /\ marker' = NoMarker
    /\ cleared' = cleared \cup ({marker} \ {NoMarker})
    /\ UNCHANGED <<apiVars, promVars, watchVars, written, archived, budget,
                   failures, started, replaced, age, rewritten>>

\* A check does not hold, or Prometheus does not answer.
Fail ==
    /\ recovery \in {"archived", "inactive", "noAlert", "up"}
    /\ recovery' = "idle"
    /\ UNCHANGED <<apiVars, promVars, watchVars, markerVars, budget, ghosts>>

-----------------------------------------------------------------------------

Api == StrayFailure \/ Stop \/ Start

Watch ==
    \/ BeginCalls \/ Call \/ PollSees \/ PollSeesNothing \/ PollUnanswered
    \/ PollsOver \/ WriteMarker

Recover == HashMarker \/ RuleInactive \/ NoAlert \/ TargetIsUp \/ QueryZero \/ Clear \/ Fail

Next == Api \/ Tick \/ Trigger \/ Watch \/ Archive \/ Recover

Spec == Init /\ [][Next]_vars

-----------------------------------------------------------------------------
(* Properties.                                                             *)

\* Types, and the range of every counter.
TypeOK ==
    /\ api \in {"up", "down"} /\ counter \in Nat
    /\ samples \in [Window -> Nat \cup {None}]
    /\ clock \in 0 .. Interval - 1 /\ lag \in 0 .. Interval - 1
    /\ alert \in {"inactive", "pending", "firing"}
    /\ watch \in {"idle", "settling", "calling", "polling", "seen", "detected", "timedOut", "aborted"}
    /\ left \in Nat /\ done \in Nat /\ failed \in Nat
    /\ written \in Nat /\ marker \in 0 .. written /\ archived \subseteq 1 .. written
    /\ recovery \in {"idle", "archived", "inactive", "noAlert", "up", "zero"}
    /\ budget \in [{"runs", "faults"} -> Nat]
    /\ failures \in [1 .. Slots + 1 -> Nat] /\ started \in 0 .. Slots
    /\ replaced \in BOOLEAN /\ age \in 0 .. Interval
    /\ cleared \subseteq 1 .. written /\ rewritten \subseteq 1 .. written

Answered == SumFunction(failures)

\* When as many requests of the burst as the rule asks for got a 502, make
\* demo-trigger-incident (Makefile:89-99) does not time out, unless the API
\* process was replaced meanwhile: the polls cover the scrape, the "for" and the
\* missed polls, and the sleep before the fault has the counter scraped at its
\* value before the burst (metrics.go:19).
BurstDetected == watch = "timedOut" => replaced \/ failed < Threshold

\* "Injects a deterministic but undisclosed fault, generates customer traffic,
\* and waits for Prometheus to raise an alert" (README.md:112-114): unless the
\* API process was replaced meanwhile, the alert comes.  The fault that
\* Makefile:92 injects is Core v2, which the adapter maps: a 200 each time.
TriggerDetects == watch = "timedOut" => replaced

\* A scrape of the window found the API down after another had found it up.
ScrapeMissed == \E i, j \in Window : i < j /\ samples[i] # None /\ samples[j] = None

\* "At least three HTTP 502 responses" (prometheus-alerts.yaml:12): when the
\* alert fires, as many were answered within the window and since, whatever
\* extrapolation and resets of the counter make of them.  Two are enough when
\* a scrape is missed after them, as the rise is then extrapolated further.
FiringJustified == alert = "firing" => Answered >= Threshold \/ ScrapeMissed

\* The exact zero of the recovery query (wait-for-recovery.sh:116) is quiet:
\* when every scrape in the window found the same process, it answered no 502
\* between the oldest and the newest of them.
ZeroMeansQuiet ==
    [][QueryZero /\ started = Slots /\ Held(samples) = Window =>
          \A i \in 2 .. Slots : failures[i] = 0]_vars

\* The checks are made one after the other while Prometheus goes on.  When they
\* take less than one evaluation interval and no scrape in the window was
\* missed, the alert that was inactive at the first of them is inactive at the
\* last: nothing is cleared under an active alert.
AlertQuietAtQuery ==
    [][QueryZero /\ age < Interval /\ Held(samples) = Window => alert = "inactive"]_vars

\* "Only then is the single mutable marker removed" (wait-for-recovery.sh:5-9):
\* a marker that is cleared has a durable archive, unless it was written while
\* a recovery ran, which hashes one file and removes whatever is there last.
ClearedUnlessRewritten == cleared \subseteq archived \cup rewritten

=============================================================================
