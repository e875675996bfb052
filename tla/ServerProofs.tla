----------------------------- MODULE ServerProofs -----------------------------
(***************************************************************************)
(* Proofs about Server for every set of requests, every set of slow        *)
(* clients and all timeouts its assumption allows.                         *)
(***************************************************************************)
EXTENDS Server, TLAPS

\* How old a request can be where it stands: one timeout for each call it has
\* behind it, a prompt client is never waited for, and a readiness check stays
\* in its budget.
Clock(r) ==
    /\ phase[r] = "connected" => age[r] <= ReadHeaderTimeout
    /\ phase[r] = "core" => age[r] = call[r]
    /\ phase[r] = "market" => age[r] <= RequestTimeout + call[r]
    /\ phase[r] = "write" => \/ age[r] <= 2 * RequestTimeout
                             \/ r \in Slow /\ age[r] <= WriteTimeout
    /\ r = Poller /\ phase[r] \in Running => age[r] <= ReadyBudget

\* A request that was running when draining began is at least as old as the
\* draining, and its connection serves no second one.
Overtaken(r) ==
    process = "draining" /\ r \in begun =>
        /\ phase[r] # "connected"
        /\ phase[r] \in Running => age[r] >= stopping

ClockInv == \A r \in Requests : Clock(r) /\ Overtaken(r)

\* What each stage of the process implies about signal, listener and timers.
StageInv ==
    /\ process \in {"setup", "starting", "serving"} =>
         stopping = 0 /\ flushing = 0 /\ begun = {}
    /\ process \in {"setup", "starting"} => ~signalled
    /\ process \in {"setup", "starting", "serving", "draining", "flushing"} => exitCode = 0
    /\ process \in {"draining", "flushing"} => signalled /\ listener = "closed"
    /\ process = "draining" => stopping <= ShutdownTimeout /\ flushing = 0
    /\ process = "flushing" => stopping <= ShutdownTimeout + flushing /\ InFlight = {}
    /\ stopping <= ShutdownTimeout + FlushTimeout
    /\ ~Alive => InFlight = {} /\ listener = "closed"
    /\ process = "exited" /\ signalled => lost \cap begun \subseteq Slow
    /\ process = "exited" /\ exitCode = 0 => signalled /\ lost = {}

\* The script counts its attempts and keeps the answer that ended it.
ScriptInv ==
    /\ waiter \in {"trying", "pausing"} => attempts < MaxAttempts
    /\ waiter = "up" => verdict = "ok" /\ phase[Poller] = "done" /\ attempts < MaxAttempts

ServerInv == TypeOK /\ ClockInv /\ StageInv /\ ScriptInv

\* The initial state satisfies all of it.
LEMMA InitServer == Init => ServerInv
<1> SUFFICES ASSUME Init PROVE ServerInv
  OBVIOUS
<1> USE ServerAssumption DEF Init, Running
<1>1. TypeOK
  <2>1. RequestTimeout \in Nat /\ FlushTimeout \in Nat /\ MaxAttempts \in Nat
    OBVIOUS
  <2>2. 0 \in 0 .. RequestTimeout /\ 0 \in 0 .. FlushTimeout /\ 0 \in 0 .. MaxAttempts
    BY <2>1
  <2>3. /\ phase \in [Requests -> {"none", "connected", "done", "cut"} \cup Running]
        /\ age \in [Requests -> Nat]
        /\ call \in [Requests -> 0 .. RequestTimeout]
    BY <2>2
  <2> QED
    BY <2>2, <2>3 DEF TypeOK
<1>2. ClockInv
  BY DEF ClockInv, Clock, Overtaken
<1>3. StageInv /\ ScriptInv
  BY DEF StageInv, ScriptInv, InFlight, Alive
<1> QED
  BY <1>1, <1>2, <1>3 DEF ServerInv

-----------------------------------------------------------------------------
(* Types.                                                                  *)

\* Every step keeps every variable in its type; no call outlives its timeout.
LEMMA NextTypeOK == TypeOK /\ ScriptInv /\ [Next]_vars => TypeOK'
<1> SUFFICES ASSUME TypeOK, ScriptInv, [Next]_vars PROVE TypeOK'
  OBVIOUS
<1> USE ServerAssumption DEF TypeOK, Running
<1>1. CASE UNCHANGED vars
  BY <1>1 DEF vars, processVars, requestVars, waiterVars
<1>2. CASE Process \/ ListenerFails \/ Signal \/ SignalKills \/ Flushed
  <2>1. ASSUME NEW how \in {"exited", "killed"}, End(how), exitCode' \in {0, 1} PROVE TypeOK'
    BY <2>1 DEF End, InFlight, waiterVars
  <2>2. CASE Setup \/ NotifyContext \/ Signal \/ Drain \/ Drained
    BY <2>2 DEF Setup, NotifyContext, Signal, Drain, Drained, requestVars, waiterVars
  <2>3. CASE Listen \/ ListenerFails
    BY <2>3 DEF Listen, ListenerFails, requestVars, waiterVars
  <2> QED
    BY <1>2, <2>1, <2>2, <2>3 DEF Process, SetupFails, ServeFailed, SignalKills, ShutdownExpires,
       Flushed, FlushExpires
<1>3. ASSUME NEW r \in Requests, Connect(r) \/ CallCore(r) \/ HeaderLate(r) \/ Handler(r)
      PROVE  TypeOK'
  BY <1>3 DEF Connect, CallCore, HeaderLate, Handler, CallMarket, MarketOk, CallFails, CallTimesOut,
     Written, WriteLate, Answer, Move, processVars, waiterVars
<1>4. CASE Refused \/ NotReady \/ Ready
  BY <1>4 DEF Refused, NotReady, Ready, AttemptFails, ScriptInv, processVars, requestVars
<1>5. CASE Tick
  BY <1>5 DEF Tick, MayWait, ProcessMayWait, TimedOut, InFlight
<1> QED
  BY <1>1, <1>2, <1>3, <1>4, <1>5 DEF Next

-----------------------------------------------------------------------------
(* Time.                                                                   *)

\* Time passes only where a deadline is still ahead.
LEMMA NextClock == ServerInv /\ [Next]_vars => ClockInv'
<1> SUFFICES ASSUME ServerInv, [Next]_vars, NEW q \in Requests PROVE Clock(q)' /\ Overtaken(q)'
  BY DEF ClockInv
<1> USE ServerAssumption DEF ServerInv, TypeOK, ClockInv, Clock, Overtaken, Running
<1>1. CASE UNCHANGED vars
  BY <1>1 DEF vars, processVars, requestVars, waiterVars
<1>2. CASE Process \/ ListenerFails \/ Signal \/ SignalKills \/ Flushed
  <2>1. CASE Drain
    BY <2>1 DEF Drain, requestVars, StageInv
  <2> QED
    BY <1>2, <2>1 DEF Process, Setup, SetupFails, Listen, ListenerFails, NotifyContext, ServeFailed, Drained,
       ShutdownExpires, FlushExpires, Flushed, Signal, SignalKills, End, InFlight, requestVars
<1>3. ASSUME NEW r \in Requests, Connect(r) \/ CallCore(r) \/ HeaderLate(r) \/ Handler(r)
      PROVE  Clock(q)' /\ Overtaken(q)'
  <2>1. CASE Connect(r)
    BY <2>1 DEF Connect, Move, processVars, StageInv
  <2>2. CASE CallCore(r)
    BY <2>2 DEF CallCore, Move, processVars
  <2>3. CASE CallMarket(r)
    BY <2>3 DEF CallMarket, Move, processVars
  <2>4. CASE MarketOk(r) \/ CallFails(r) \/ CallTimesOut(r)
    <3>1. phase[r] \in {"core", "market"} /\ age[r] <= 2 * RequestTimeout
      BY <2>4 DEF MarketOk, CallFails, CallTimesOut, TimedOut
    <3> QED
      BY <2>4, <3>1 DEF MarketOk, CallFails, CallTimesOut, Answer, Move, processVars
  <2>5. CASE HeaderLate(r) \/ Written(r) \/ WriteLate(r)
    BY <2>5 DEF HeaderLate, Written, WriteLate, Move, processVars
  <2> QED
    BY <1>3, <2>1, <2>2, <2>3, <2>4, <2>5 DEF Handler
<1>4. CASE Refused \/ NotReady \/ Ready
  BY <1>4 DEF Refused, NotReady, Ready, AttemptFails, processVars, requestVars
<1>5. CASE Tick
  <2>1. MayWait(q)
    BY <1>5 DEF Tick
  <2> QED
    BY <1>5, <2>1 DEF Tick, MayWait, ProcessMayWait, TimedOut, InFlight
<1> QED
  BY <1>1, <1>2, <1>3, <1>4, <1>5 DEF Next

-----------------------------------------------------------------------------
(* The stages of the process.                                              *)

\* At the deadline of Shutdown, a request that was running at the signal and
\* still is has waited longer than two calls can take: its client is slow.
LEMMA OnlySlowLeft ==
    ServerInv /\ process = "draining" /\ stopping = ShutdownTimeout => InFlight \cap begun \subseteq Slow
<1> SUFFICES ASSUME ServerInv, process = "draining", stopping = ShutdownTimeout,
                    NEW r \in InFlight, r \in begun
             PROVE  r \in Slow
  OBVIOUS
<1>1. phase[r] \in Running /\ age[r] >= ShutdownTimeout
  BY DEF InFlight, ServerInv, ClockInv, Overtaken
<1>2. Clock(r) /\ age[r] \in Nat /\ call[r] \in 0 .. RequestTimeout
  BY DEF InFlight, ServerInv, ClockInv, TypeOK
<1> QED
  BY <1>1, <1>2, ServerAssumption DEF Clock, Running

\* Every step keeps the facts about the stages.
LEMMA NextStage == ServerInv /\ [Next]_vars => StageInv'
<1> SUFFICES ASSUME ServerInv, [Next]_vars PROVE StageInv'
  OBVIOUS
<1> USE ServerAssumption DEF ServerInv, TypeOK, StageInv, Alive
<1>1. CASE UNCHANGED vars
  BY <1>1 DEF vars, processVars, requestVars, waiterVars, InFlight
<1>2. CASE Process \/ ListenerFails \/ Signal \/ SignalKills \/ Flushed
  <2>1. CASE Setup \/ Listen \/ ListenerFails \/ NotifyContext \/ Signal \/ Drain \/ Drained
    BY <2>1 DEF Setup, Listen, ListenerFails, NotifyContext, Signal, Drain, Drained, requestVars, InFlight, Running
  <2>2. ASSUME NEW how, End(how), how \in {"exited", "killed"} PROVE InFlight' = {}
    BY <2>2 DEF End, InFlight, Running
  <2>3. CASE ShutdownExpires
    BY <2>3, <2>2, OnlySlowLeft DEF ShutdownExpires, End
  <2>4. CASE SetupFails \/ ServeFailed \/ SignalKills
    BY <2>4, <2>2 DEF SetupFails, ServeFailed, SignalKills, End
  <2>5. CASE Flushed \/ FlushExpires
    BY <2>5, <2>2 DEF Flushed, FlushExpires, End
  <2> QED
    BY <1>2, <2>1, <2>3, <2>4, <2>5 DEF Process
<1>3. ASSUME NEW r \in Requests, Connect(r) \/ CallCore(r) \/ HeaderLate(r) \/ Handler(r)
      PROVE  StageInv'
  <2>1. process \in {"flushing", "exited", "killed"} => InFlight' = {}
    BY <1>3 DEF Connect, CallCore, HeaderLate, Handler, CallMarket, MarketOk, CallFails, CallTimesOut,
       TimedOut, Written, WriteLate, Answer, Move, InFlight, Running
  <2>2. UNCHANGED processVars
    BY <1>3 DEF Connect, CallCore, HeaderLate, Handler, CallMarket, MarketOk, CallFails, CallTimesOut,
       Written, WriteLate, Answer, Move
  <2> QED
    BY <2>1, <2>2 DEF processVars
<1>4. CASE Refused \/ NotReady \/ Ready
  BY <1>4 DEF Refused, NotReady, Ready, AttemptFails, processVars, requestVars, InFlight, Running
<1>5. CASE Tick
  BY <1>5 DEF Tick, ProcessMayWait, InFlight
<1> QED
  BY <1>1, <1>2, <1>3, <1>4, <1>5 DEF Next

\* Every step keeps the facts about the script.
LEMMA NextScript == ServerInv /\ [Next]_vars => ScriptInv'
<1> SUFFICES ASSUME ServerInv, [Next]_vars PROVE ScriptInv'
  OBVIOUS
<1> USE ServerAssumption DEF ServerInv, TypeOK, ScriptInv
<1>1. CASE UNCHANGED vars
  BY <1>1 DEF vars, requestVars, waiterVars
<1>2. CASE Process \/ ListenerFails \/ Signal \/ SignalKills \/ Flushed
  BY <1>2 DEF Process, Setup, SetupFails, Listen, ListenerFails, NotifyContext, ServeFailed, Drain, Drained,
     ShutdownExpires, FlushExpires, Flushed, Signal, SignalKills, End, InFlight, Running,
     requestVars, waiterVars
<1>3. ASSUME NEW r \in Requests, Connect(r) \/ CallCore(r) \/ HeaderLate(r) \/ Handler(r)
      PROVE  ScriptInv'
  BY <1>3 DEF Connect, CallCore, HeaderLate, Handler, CallMarket, MarketOk, CallFails, CallTimesOut,
     TimedOut, Written, WriteLate, Answer, Move, waiterVars
<1>4. CASE Refused \/ NotReady \/ Ready
  BY <1>4 DEF Refused, NotReady, Ready, AttemptFails, requestVars
<1>5. CASE Tick
  BY <1>5 DEF Tick
<1> QED
  BY <1>1, <1>2, <1>3, <1>4, <1>5 DEF Next

\* The whole invariant holds in every reachable state.
LEMMA ServerInvHolds == Spec => []ServerInv
<1>1. ServerInv /\ [Next]_vars => ServerInv'
  BY NextTypeOK, NextClock, NextStage, NextScript DEF ServerInv
<1> QED
  BY InitServer, <1>1, PTL DEF Spec

-----------------------------------------------------------------------------
(* Results.                                                                *)

\* Every reachable state is well typed.
THEOREM ServerTypeCorrect == Spec => []TypeOK
BY ServerInvHolds, PTL DEF ServerInv

\* A caught signal cuts off no running request of a client that reads
\* promptly, for any timeouts with 2 * RequestTimeout < ShutdownTimeout.
THEOREM ShutdownDrains == Spec => []PromptRequestsDrained
<1>1. ServerInv => PromptRequestsDrained
  BY DEF ServerInv, StageInv, PromptRequestsDrained
<1> QED
  BY ServerInvHolds, <1>1, PTL

\* Exit code 0 is only given when nothing was cut off.
THEOREM CleanExitIsClean == Spec => []CleanExitLosesNothing
<1>1. ServerInv => CleanExitLosesNothing
  BY DEF ServerInv, StageInv, CleanExitLosesNothing
<1> QED
  BY ServerInvHolds, <1>1, PTL

\* The process is gone when both deadlines have passed, StopsInTime.
THEOREM StoppingBounded == Spec => []StopsInTime
<1>1. ServerInv => StopsInTime
  BY DEF ServerInv, StageInv, StopsInTime
<1> QED
  BY ServerInvHolds, <1>1, PTL

\* A 200 from readiness was made within its budget, ReadyIsFresh.
THEOREM ReadinessFresh == Spec => []ReadyIsFresh
<1>1. ServerInv => ReadyIsFresh
  BY ServerAssumption DEF ServerInv, ClockInv, Clock, Running, ReadyIsFresh
<1> QED
  BY ServerInvHolds, <1>1, PTL

\* A readiness check never holds a shutdown up, ReadinessDrainsFirst.
THEOREM ReadinessNeverHoldsUp == Spec => []ReadinessDrainsFirst
<1>1. ServerInv => ReadinessDrainsFirst
  BY ServerAssumption DEF ServerInv, TypeOK, ClockInv, Clock, Overtaken, ReadinessDrainsFirst
<1> QED
  BY ServerInvHolds, <1>1, PTL

\* The script ends well only on a ready answer of its own, ScriptIsRight.
THEOREM ScriptCorrect == Spec => []ScriptIsRight
<1>1. ServerInv => ScriptIsRight
  BY DEF ServerInv, ScriptInv, ScriptIsRight
<1> QED
  BY ServerInvHolds, <1>1, PTL

=============================================================================
