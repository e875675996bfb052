--------------------------- MODULE PortfolioContract ---------------------------
(***************************************************************************)
(* What the portfolio API promises to its clients and to the monitoring    *)
(* that scrapes it, without goroutines, upstreams, mutex or time:          *)
(*                                                                         *)
(*  - a request is settled once, with one of the four documented statuses, *)
(*    400 exactly for an id outside the documented pattern;                *)
(*  - settling counts it, in the same instant, under that status;          *)
(*  - only then does its response close, whole or cut off;                 *)
(*  - a page of metrics is a snapshot of the counters.                     *)
(*                                                                         *)
(* PortfolioApi implements it: PortfolioApi!Contract.                      *)
(***************************************************************************)
EXTENDS Integers

CONSTANTS Requests, Malformed

VARIABLES
    phase,      \* of each request: idle, pending, settled, closed
    verdict,    \* the status it is settled with, 0 before
    tally,      \* requests settled so far, by status
    answer,     \* what its client has: 0 nothing, 1 a cut-off response, or the status
    published   \* the last page of metrics

vars == <<phase, verdict, tally, answer, published>>

Statuses == {200, 400, 404, 502}
Verdicts(r) == IF r \in Malformed THEN {400} ELSE {200, 404, 502}

\* A page: the counters and their total.
Page(t) == [requests |-> t, count |-> t[200] + t[400] + t[404] + t[502]]

Init ==
    /\ phase = [r \in Requests |-> "idle"]
    /\ verdict = [r \in Requests |-> 0]
    /\ tally = [s \in Statuses |-> 0]
    /\ answer = [r \in Requests |-> 0]
    /\ published = Page(tally)

Submit(r) ==
    /\ phase[r] = "idle"
    /\ phase' = [phase EXCEPT ![r] = "pending"]
    /\ UNCHANGED <<verdict, tally, answer, published>>

Settle(r) ==
    /\ phase[r] = "pending"
    /\ \E code \in Verdicts(r) :
         /\ verdict' = [verdict EXCEPT ![r] = code]
         /\ tally' = [tally EXCEPT ![code] = @ + 1]
    /\ phase' = [phase EXCEPT ![r] = "settled"]
    /\ UNCHANGED <<answer, published>>

Close(r) ==
    /\ phase[r] = "settled"
    /\ \E outcome \in {verdict[r], 1} : answer' = [answer EXCEPT ![r] = outcome]
    /\ phase' = [phase EXCEPT ![r] = "closed"]
    /\ UNCHANGED <<verdict, tally, published>>

Publish ==
    /\ published' = Page(tally)
    /\ UNCHANGED <<phase, verdict, tally, answer>>

Next ==
    \/ \E r \in Requests : Submit(r) \/ Settle(r) \/ Close(r)
    \/ Publish

Safety == Init /\ [][Next]_vars

\* Every submitted request is settled and closed.
Spec == Safety /\ \A r \in Requests : WF_vars(Settle(r)) /\ WF_vars(Close(r))

=============================================================================
