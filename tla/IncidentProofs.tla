---------------------------- MODULE IncidentProofs ----------------------------
(***************************************************************************)
(* Proofs about Incident for all intervals, windows, polls and bounds its  *)
(* assumption allows.                                                      *)
(***************************************************************************)
EXTENDS Incident, SumTheorems, TLAPS

\* A recovery under way has a marker with an archive before it, unless the
\* marker was written since it began; and so has whatever was cleared.
MarkerInv ==
    /\ recovery # "idle" => marker \in archived \cup rewritten \cup {NoMarker}
    /\ ClearedUnlessRewritten

\* What the assumption says of each constant.
LEMMA Constants ==
    /\ Interval \in Nat \ {0} /\ Slots \in Nat \ {0}
    /\ Settle \in Nat /\ PollEvery \in Nat /\ CallTime \in Nat
    /\ Runs \in Nat /\ Faults \in Nat
BY IncidentAssumption

\* The initial state satisfies both.
LEMMA InitIncident == Init => TypeOK /\ MarkerInv
<1> SUFFICES ASSUME Init PROVE TypeOK /\ MarkerInv
  OBVIOUS
<1> USE DEF Init
<1>1. Interval \in Nat \ {0} /\ Slots \in Nat \ {0} /\ Runs \in Nat /\ Faults \in Nat
  BY Constants
<1>2. /\ 0 \in 0 .. Interval - 1 /\ 0 \in 0 .. Interval /\ 0 \in 0 .. Slots
      /\ marker \in 0 .. written
  BY <1>1
<1>3. /\ samples \in [Window -> Nat \cup {None}]
      /\ failures \in [1 .. Slots + 1 -> Nat]
      /\ budget \in [{"runs", "faults"} -> Nat]
  BY <1>1 DEF None
<1>4. TypeOK
  <2>1. clock \in 0 .. Interval - 1 /\ lag \in 0 .. Interval - 1 /\ started \in 0 .. Slots
    BY <1>2
  <2>2. written \in Nat /\ archived \subseteq 1 .. written /\ age \in 0 .. Interval
    BY <1>2
  <2>3. cleared \subseteq 1 .. written /\ rewritten \subseteq 1 .. written
    OBVIOUS
  <2>4. /\ api \in {"up", "down"} /\ counter \in Nat /\ left \in Nat /\ done \in Nat /\ failed \in Nat
        /\ alert \in {"inactive", "pending", "firing"} /\ replaced \in BOOLEAN
        /\ recovery \in {"idle", "archived", "inactive", "noAlert", "up", "zero"}
    OBVIOUS
  <2>5. watch \in {"idle", "settling", "calling", "polling", "seen", "detected", "timedOut", "aborted"}
    OBVIOUS
  <2> HIDE DEF Init
  <2> QED
    BY <1>2, <1>3, <2>1, <2>2, <2>3, <2>4, <2>5 DEF TypeOK
<1>5. MarkerInv
  BY DEF MarkerInv, ClearedUnlessRewritten
<1> QED
  BY <1>4, <1>5

-----------------------------------------------------------------------------
(* Types.                                                                  *)

\* Spending leaves the rest of the budget a number.
LEMMA SpendType ==
    ASSUME TypeOK, NEW what \in {"runs", "faults"}, Spend(what)
    PROVE  budget' \in [{"runs", "faults"} -> Nat]
BY DEF TypeOK, Spend

\* A 502 is counted once more, in the counter and in the ghost.
LEMMA Observe502Type ==
    ASSUME TypeOK, Observe502
    PROVE  api' \in {"up", "down"} /\ counter' \in Nat /\ failures' \in [1 .. Slots + 1 -> Nat]
<1>1. Slots + 1 \in 1 .. Slots + 1
  BY IncidentAssumption
<1> QED
  BY <1>1 DEF TypeOK, Observe502

\* A scrape shifts the window, an evaluation moves the alert on.
LEMMA TickType == ASSUME TypeOK, Tick PROVE TypeOK'
<1> USE DEF TypeOK, Tick
<1>0. Interval \in Nat \ {0} /\ Slots \in Nat \ {0}
  BY Constants
<1>1. clock' \in 0 .. Interval - 1
  <2>1. clock + 1 \in Nat /\ clock' = (clock + 1) % Interval
    BY <1>0
  <2> HIDE DEF TypeOK, Tick
  <2> QED
    BY <1>0, <2>1
<1>2. /\ samples' \in [Window -> Nat \cup {None}]
      /\ failures' \in [1 .. Slots + 1 -> Nat]
      /\ started' \in 0 .. Slots
  <2>1. CASE clock' = 0
    <3>1. Scrape
      BY <2>1
    <3>2. Slots \in Nat \ {0}
      BY <1>0
    <3>3. started' \in 0 .. Slots
      BY <3>1, <3>2 DEF Scrape
    <3>4. samples' \in [Window -> Nat \cup {None}]
      BY <3>1, <3>2 DEF Scrape, Exposed, Window
    <3>5. failures' \in [1 .. Slots + 1 -> Nat]
      <4>1. \A i \in 1 .. Slots + 1 : i <= Slots => i + 1 \in 1 .. Slots + 1
        BY <3>2
      <4>2. \A i \in 1 .. Slots + 1 : (IF i <= Slots THEN failures[i + 1] ELSE 0) \in Nat
        BY <4>1
      <4> QED
        BY <3>1, <4>2 DEF Scrape
    <3> QED
      BY <3>3, <3>4, <3>5
  <2> QED
    BY <2>1
<1>3. alert' \in {"inactive", "pending", "firing"}
  BY DEF Evaluate
<1>4. left' \in Nat /\ age' \in 0 .. Interval
  BY <1>0
<1> QED
  BY <1>1, <1>2, <1>3, <1>4 DEF apiVars, markerVars

\* Every step keeps every variable in its type.
LEMMA NextTypeOK == TypeOK /\ [Next]_vars => TypeOK'
<1> SUFFICES ASSUME TypeOK, [Next]_vars PROVE TypeOK'
  OBVIOUS
<1> USE DEF apiVars, promVars, watchVars, markerVars, ghosts
<1>1. CASE UNCHANGED vars
  BY <1>1 DEF TypeOK, vars
<1>2. CASE Api
  <2>1. CASE StrayFailure
    BY <2>1, SpendType, Observe502Type DEF TypeOK, StrayFailure, Observe502
  <2>2. CASE Stop
    BY <2>2, SpendType DEF TypeOK, Stop
  <2>3. CASE Start
    <3>1. started' \in 0 .. Slots /\ counter' \in Nat /\ api' \in {"up", "down"}
      BY <2>3, Constants DEF TypeOK, Start
    <3> QED
      BY <2>3, <3>1 DEF TypeOK, Start
  <2> QED
    BY <1>2, <2>1, <2>2, <2>3 DEF Api
<1>3. CASE Tick
  BY <1>3, TickType
<1>4. CASE Trigger
  BY <1>4, Constants, SpendType DEF TypeOK, Trigger
<1>5. CASE Watch
  <2>1. CASE BeginCalls
    BY <2>1, Constants DEF TypeOK, BeginCalls
  <2>2. CASE Call
    <3>0. UNCHANGED <<promVars, markerVars, recovery, budget>>
      BY <2>2 DEF Call
    <3>1. done' \in Nat /\ left' \in Nat /\ watch' \in {"calling", "polling", "aborted"}
      BY <2>2, Constants DEF TypeOK, Call
    <3>2. CASE Observe502 /\ failed' = failed + 1
      <4>1. counter' \in Nat /\ failures' \in [1 .. Slots + 1 -> Nat] /\ failed' \in Nat
        BY <3>2, Observe502Type DEF TypeOK
      <4> QED
        BY <3>0, <3>1, <3>2, <4>1 DEF TypeOK, Observe502
    <3>3. CASE UNCHANGED <<apiVars, ghosts, failed>>
      BY <3>0, <3>1, <3>3 DEF TypeOK
    <3> QED
      BY <2>2, <3>2, <3>3 DEF Call
  <2>3. CASE PollSees \/ PollsOver
    BY <2>3 DEF TypeOK, PollSees, PollsOver
  <2>4. CASE PollSeesNothing \/ PollUnanswered
    <3>1. NextPoll
      BY <2>4 DEF PollSeesNothing, PollUnanswered
    <3>2. done' \in Nat /\ left' \in Nat
      BY <3>1, Constants DEF TypeOK, NextPoll
    <3>3. budget' \in [{"runs", "faults"} -> Nat]
      BY <2>4, SpendType DEF TypeOK, PollSeesNothing, PollUnanswered
    <3> QED
      BY <3>1, <3>2, <3>3 DEF TypeOK, NextPoll
  <2>5. CASE WriteMarker
    <3>1. written' \in Nat /\ marker' \in 0 .. written' /\ 1 .. written \subseteq 1 .. written'
      BY <2>5 DEF TypeOK, WriteMarker
    <3>2. marker' \in 1 .. written'
      BY <2>5 DEF TypeOK, WriteMarker
    <3> QED
      BY <2>5, <3>1, <3>2 DEF TypeOK, WriteMarker
  <2> QED
    BY <1>5, <2>1, <2>2, <2>3, <2>4, <2>5 DEF Watch
<1>6. CASE Archive
  <2>1. marker \in 1 .. written
    BY <1>6 DEF TypeOK, Archive, NoMarker
  <2> QED
    BY <1>6, <2>1 DEF TypeOK, Archive
<1>7. CASE Recover
  <2>1. CASE Clear
    <3>1. {marker} \ {NoMarker} \subseteq 1 .. written
      BY DEF TypeOK, NoMarker
    <3>2. marker' \in 0 .. written'
      BY <2>1 DEF TypeOK, Clear, NoMarker
    <3> QED
      BY <2>1, <3>1, <3>2 DEF TypeOK, Clear
  <2>2. CASE RuleInactive
    <3>1. age' \in 0 .. Interval
      BY <2>2, Constants DEF RuleInactive
    <3> QED
      BY <2>2, <3>1 DEF TypeOK, RuleInactive, Check
  <2>3. CASE HashMarker \/ NoAlert \/ TargetIsUp \/ QueryZero \/ Fail
    <3>1. UNCHANGED <<apiVars, promVars, watchVars, markerVars, budget, ghosts>>
      BY <2>3 DEF HashMarker, NoAlert, TargetIsUp, QueryZero, Fail, Check
    <3>2. recovery' \in {"idle", "archived", "noAlert", "up", "zero"}
      BY <2>3 DEF HashMarker, NoAlert, TargetIsUp, QueryZero, Fail, Check
    <3> QED
      BY <3>1, <3>2 DEF TypeOK
  <2> QED
    BY <1>7, <2>1, <2>2, <2>3 DEF Recover
<1> QED
  BY <1>1, <1>2, <1>3, <1>4, <1>5, <1>6, <1>7 DEF Next

\* Every variable keeps its type: TypeOK.
THEOREM IncidentTypeCorrect == Spec => []TypeOK
BY InitIncident, NextTypeOK, PTL DEF Spec

-----------------------------------------------------------------------------
(* The marker.                                                             *)

\* Only the recovery clears, and only wait-for-incident.sh and Clear change the
\* marker: what stands under a recovery is archived or new.
LEMMA NextMarker == TypeOK /\ MarkerInv /\ [Next]_vars => MarkerInv'
<1> SUFFICES ASSUME TypeOK, MarkerInv, [Next]_vars PROVE MarkerInv'
  OBVIOUS
<1> USE DEF MarkerInv, ClearedUnlessRewritten, markerVars, ghosts
<1>1. CASE UNCHANGED <<recovery, markerVars, cleared, rewritten>>
  BY <1>1
<1>2. CASE UNCHANGED vars \/ Api \/ Tick \/ Trigger
  BY <1>1, <1>2 DEF vars, Api, StrayFailure, Stop, Start, Observe502, Tick, Trigger
<1>3. CASE Watch
  <2>1. CASE WriteMarker
    BY <2>1 DEF WriteMarker
  <2>2. CASE Call
    BY <1>1, <2>2 DEF Call, Observe502
  <2>3. CASE BeginCalls \/ PollSees \/ PollSeesNothing \/ PollUnanswered \/ PollsOver
    BY <1>1, <2>3 DEF BeginCalls, PollSees, PollSeesNothing, PollUnanswered, PollsOver, NextPoll
  <2> QED
    BY <1>3, <2>1, <2>2, <2>3 DEF Watch
<1>4. CASE Archive
  BY <1>4 DEF Archive
<1>5. CASE Recover
  <2>1. CASE HashMarker
    BY <2>1 DEF HashMarker, Check
  <2>2. CASE RuleInactive \/ NoAlert \/ TargetIsUp \/ QueryZero
    BY <2>2 DEF RuleInactive, NoAlert, TargetIsUp, QueryZero, Check
  <2>3. CASE Clear
    BY <2>3 DEF Clear
  <2>4. CASE Fail
    BY <2>4 DEF Fail
  <2> QED
    BY <1>5, <2>1, <2>2, <2>3, <2>4 DEF Recover
<1> QED
  BY <1>2, <1>3, <1>4, <1>5 DEF Next

\* However the scripts, the operator and Prometheus interleave, a marker that
\* was cleared is archived or was written under the recovery that cleared it or
\* under an earlier one: ClearedUnlessRewritten.
THEOREM MarkersPreserved == Spec => []ClearedUnlessRewritten
<1>1. MarkerInv => ClearedUnlessRewritten
  BY DEF MarkerInv
<1> QED
  BY <1>1, InitIncident, NextTypeOK, NextMarker, PTL DEF Spec

-----------------------------------------------------------------------------
(* The recovery query.                                                     *)

\* Of one process, two samples next to each other differ by what was answered
\* between them, and the counter is ahead of the last by what was since.
SampleInv ==
    /\ \A i \in 2 .. Slots :
          i - 1 > Slots - started /\ samples[i - 1] # None /\ samples[i] # None
              => samples[i] = samples[i - 1] + failures[i]
    /\ started > 0 /\ api = "up" /\ samples[Slots] # None
          => counter = samples[Slots] + failures[Slots + 1]

\* Prometheus has scraped nothing yet.
LEMMA InitSamples == Init => SampleInv
<1> SUFFICES ASSUME Init PROVE SampleInv
  OBVIOUS
<1>1. started = 0 /\ Slots \in Nat \ {0} /\ \A i \in 2 .. Slots : ~(i - 1 > Slots - 0)
  BY Constants DEF Init
<1> QED
  BY <1>1 DEF SampleInv

\* A counted 502 moves the counter and the newest count alike.
LEMMA ObserveSamples ==
    ASSUME TypeOK, SampleInv, Observe502, UNCHANGED samples
    PROVE  SampleInv'
<1> USE DEF SampleInv, Observe502
<1>1. Slots \in Nat \ {0} /\ Slots + 1 \in 1 .. Slots + 1 /\ started' = started /\ api' = api
  BY Constants
<1>2. failures \in [1 .. Slots + 1 -> Nat] /\ counter \in Nat /\ samples \in [Window -> Nat \cup {None}]
  BY DEF TypeOK
<1>3. \A i \in 2 .. Slots : failures'[i] = failures[i]
  BY <1>1, <1>2
<1>4. failures'[Slots + 1] = failures[Slots + 1] + 1
  BY <1>1, <1>2
<1>5. samples[Slots] # None => samples[Slots] \in Nat
  BY <1>1, <1>2 DEF Window
<1>6. failures[Slots + 1] \in Nat
  BY <1>1, <1>2
<1>7. started > 0 /\ api = "up" /\ samples[Slots] # None
        => counter' = samples[Slots] + failures'[Slots + 1]
  BY <1>2, <1>4, <1>5, <1>6
<1>8. samples' = samples
  OBVIOUS
<1>9. SampleInv
  OBVIOUS
<1> HIDE DEF Observe502
<1> QED
  BY <1>1, <1>3, <1>7, <1>8, <1>9

\* A scrape takes the counter as it is, and the counts move with the samples.
LEMMA ScrapeSamples ==
    ASSUME TypeOK, SampleInv, Scrape, UNCHANGED apiVars
    PROVE  SampleInv'
<1>1. Slots \in Nat \ {0} /\ started \in 0 .. Slots /\ counter \in Nat
  BY Constants DEF TypeOK
<1>2. failures \in [1 .. Slots + 1 -> Nat] /\ samples \in [Window -> Nat \cup {None}]
  BY DEF TypeOK
<1>3. /\ \A i \in 1 .. Slots - 1 : samples'[i] = samples[i + 1]
      /\ samples'[Slots] = IF api = "up" THEN counter ELSE None
  BY <1>1, <1>2 DEF Scrape, Window, Exposed
<1>4. /\ \A i \in 1 .. Slots : failures'[i] = failures[i + 1]
      /\ failures'[Slots + 1] = 0
  BY <1>1, <1>2 DEF Scrape
<1>5. PICK later : later = started'
  OBVIOUS
<1>9. later \in 0 .. Slots /\ later <= started + 1
  BY <1>1, <1>5 DEF Scrape
<1>6. api' = api /\ counter' = counter
  BY DEF apiVars
<1>7. ASSUME NEW i \in 2 .. Slots, i - 1 > Slots - later,
             samples'[i - 1] # None, samples'[i] # None
      PROVE  samples'[i] = samples'[i - 1] + failures'[i]
  <2>1. samples'[i - 1] = samples[i] /\ failures'[i] = failures[i + 1]
    BY <1>1, <1>3, <1>4
  <2>2. CASE i < Slots
    <3>1. i + 1 \in 2 .. Slots /\ (i + 1) - 1 = i /\ i > Slots - started
      BY <1>1, <1>7, <1>9, <2>2
    <3>2. samples'[i] = samples[i + 1]
      BY <1>1, <1>3, <2>2
    <3>3. samples[i + 1] = samples[(i + 1) - 1] + failures[i + 1]
      BY <1>7, <2>1, <3>1, <3>2 DEF SampleInv
    <3> QED
      BY <2>1, <3>1, <3>2, <3>3
  <2>3. CASE i = Slots
    <3>1. api = "up" /\ samples'[i] = counter
      BY <1>3, <1>7, <2>3
    <3>2. started > 0
      BY <1>1, <1>7, <1>9, <2>3
    <3>3. samples[Slots] # None
      BY <1>7, <2>1, <2>3
    <3> QED
      BY <2>1, <2>3, <3>1, <3>2, <3>3 DEF SampleInv
  <2> QED
    BY <1>1, <2>2, <2>3
<1>8. api = "up" => counter = samples'[Slots] + failures'[Slots + 1]
  BY <1>1, <1>3, <1>4
<1>10. \A i \in 2 .. Slots :
          i - 1 > Slots - started' /\ samples'[i - 1] # None /\ samples'[i] # None
              => samples'[i] = samples'[i - 1] + failures'[i]
  BY <1>5, <1>7, Zenon
<1> QED
  BY <1>6, <1>8, <1>10 DEF SampleInv

\* Every step keeps the samples and the counts together.
LEMMA NextSamples == TypeOK /\ SampleInv /\ [Next]_vars => SampleInv'
<1> SUFFICES ASSUME TypeOK, SampleInv, [Next]_vars PROVE SampleInv'
  OBVIOUS
<1> USE DEF apiVars, promVars, ghosts
<1>1. CASE UNCHANGED <<api, counter, samples, failures, started>>
  BY <1>1 DEF SampleInv
<1>2. CASE Api
  <2>1. CASE StrayFailure
    BY <2>1, ObserveSamples DEF StrayFailure
  <2>2. CASE Stop
    BY <2>2 DEF SampleInv, Stop
  <2>3. CASE Start
    <3>1. started' = 0 /\ Slots \in Nat \ {0} /\ \A i \in 2 .. Slots : ~(i - 1 > Slots - 0)
      BY <2>3, Constants DEF Start
    <3> QED
      BY <3>1 DEF SampleInv
  <2> QED
    BY <1>2, <2>1, <2>2, <2>3 DEF Api
<1>3. CASE Tick
  <2>1. CASE clock' = 0
    BY <1>3, <2>1, ScrapeSamples DEF Tick
  <2>2. CASE clock' # 0
    BY <1>1, <1>3, <2>2 DEF Tick
  <2> QED
    BY <2>1, <2>2
<1>4. CASE Watch
  <2>1. CASE Call
    <3>1. CASE Observe502
      BY <2>1, <3>1, ObserveSamples DEF Call
    <3>2. CASE UNCHANGED <<apiVars, ghosts, failed>>
      BY <1>1, <2>1, <3>2 DEF Call
    <3> QED
      BY <2>1, <3>1, <3>2 DEF Call
  <2>2. CASE BeginCalls \/ PollSees \/ PollSeesNothing \/ PollUnanswered \/ PollsOver \/ WriteMarker
    BY <1>1, <2>2 DEF BeginCalls, PollSees, PollSeesNothing, PollUnanswered, PollsOver, NextPoll, WriteMarker
  <2> QED
    BY <1>4, <2>1, <2>2 DEF Watch
<1>5. CASE UNCHANGED vars \/ Trigger \/ Archive
  BY <1>1, <1>5 DEF vars, Trigger, Archive
<1>6. CASE Recover
  BY <1>1, <1>6 DEF Recover, HashMarker, RuleInactive, NoAlert, TargetIsUp, QueryZero, Clear, Fail, Check
<1> QED
  BY <1>2, <1>3, <1>4, <1>5, <1>6 DEF Next

\* In a full window every sample is compared with the one before it.
LEMMA FullWindow ==
    ASSUME NEW s, Held(s) = Window
    PROVE  /\ Min(Held(s)) = 1
           /\ \A i \in 2 .. Slots :
                 Growth(s, i) = IF s[i] < s[i - 1] THEN s[i] ELSE s[i] - s[i - 1]
<1>1. Slots \in Nat \ {0}
  BY Constants
<1>2. Min(Held(s)) = 1
  BY <1>1 DEF Min, Window
<1>3. ASSUME NEW i \in 2 .. Slots
      PROVE  Max({j \in Held(s) : j < i}) = i - 1
  <2> DEFINE J == {j \in Held(s) : j < i}
  <2>1. i - 1 \in J /\ \A j \in J : j \in Int /\ i - 1 >= j
    BY <1>1 DEF Window
  <2>2. \A x \in J : (\A j \in J : x >= j) => x = i - 1
    BY <2>1
  <2> HIDE DEF J
  <2>3. Max(J) = i - 1
    BY <2>1, <2>2 DEF Max
  <2> QED
    BY <2>3 DEF J
<1> QED
  BY <1>2, <1>3 DEF Growth

\* No rise in a full window of one process: nothing answered between its scrapes.
LEMMA QuietWindow ==
    ASSUME TypeOK, SampleInv, started = Slots, Held(samples) = Window, Rise(samples) = 0
    PROVE  \A i \in 2 .. Slots : failures[i] = 0
<1> DEFINE growths == [i \in 2 .. Slots |-> Growth(samples, i)]
<1>1. Slots \in Nat \ {0} /\ IsFiniteSet(2 .. Slots)
  BY Constants, FS_Interval
<1>2. \A i \in 1 .. Slots : samples[i] \in Nat
  BY DEF TypeOK, Held, Window
<1>3. ASSUME NEW i \in 2 .. Slots
      PROVE  Growth(samples, i) = failures[i] /\ failures[i] \in Nat
  <2>1. failures[i] \in Nat /\ samples[i] \in Nat /\ samples[i - 1] \in Nat
    BY <1>1, <1>2 DEF TypeOK
  <2>2. samples[i] # None /\ samples[i - 1] # None /\ i - 1 > Slots - started
    BY <1>1, <2>1 DEF None
  <2>3. samples[i] = samples[i - 1] + failures[i]
    BY <2>2 DEF SampleInv
  <2>4. Growth(samples, i) = IF samples[i] < samples[i - 1] THEN samples[i]
                             ELSE samples[i] - samples[i - 1]
    BY FullWindow
  <2> QED
    BY <2>1, <2>3, <2>4
<1>4. Held(samples) \ {Min(Held(samples))} = 2 .. Slots
  <2>1. Min(Held(samples)) = 1
    BY FullWindow
  <2> QED
    BY <1>1, <2>1 DEF Window
<1>5. SumFunction(growths) = 0
  BY <1>4 DEF Rise
<1>6. DOMAIN growths = 2 .. Slots /\ \A i \in 2 .. Slots : growths[i] = failures[i] /\ growths[i] \in Nat
  BY <1>3
<1> HIDE DEF growths
<1> QED
  BY <1>1, <1>5, <1>6, SumZero

\* The zero of the recovery query, over a full window of one process, means that
\* it answered no 502 between its oldest and its newest scrape: ZeroMeansQuiet.
THEOREM RecoveryQuiet == Spec => ZeroMeansQuiet
<1> DEFINE Quiet == QueryZero /\ started = Slots /\ Held(samples) = Window
                      => \A i \in 2 .. Slots : failures[i] = 0
<1>1. TypeOK /\ SampleInv => [Quiet]_vars
  BY QuietWindow DEF QueryZero
<1>2. Spec => [](TypeOK /\ SampleInv)
  BY InitIncident, InitSamples, NextTypeOK, NextSamples, PTL DEF Spec
<1>3. Spec => [][Quiet]_vars
  BY <1>1, <1>2, PTL
<1> QED
  BY <1>3 DEF ZeroMeansQuiet

-----------------------------------------------------------------------------
(* The window.                                                             *)

\* What the lemmas about a window take it for: samples, and what was answered
\* before each of them and after the last.
WindowOf(s, f) == s \in [Window -> Nat \cup {None}] /\ f \in [1 .. Slots + 1 -> Nat]

\* There are finitely many samples.
LEMMA HeldFinite ==
    ASSUME NEW s
    PROVE  Held(s) \subseteq 1 .. Slots /\ IsFiniteSet(Held(s)) /\ Cardinality(Held(s)) \in Nat
<1>1. Held(s) \subseteq 1 .. Slots
  BY DEF Held, Window
<1>2. Slots \in Int
  BY Constants
<1>3. IsFiniteSet(1 .. Slots)
  BY <1>2, FS_Interval
<1> QED
  BY <1>1, <1>3, FS_Subset, FS_CardinalityType

\* The samples held have a first and a last one.
LEMMA Borders ==
    ASSUME NEW s, Held(s) # {}
    PROVE  /\ Min(Held(s)) \in Held(s) /\ Max(Held(s)) \in Held(s)
           /\ \A i \in Held(s) : Min(Held(s)) <= i /\ i <= Max(Held(s))
<1> DEFINE H == Held(s)
<1>1. Slots \in Nat /\ H \in SUBSET (1 .. Slots)
  BY Constants DEF Held, Window
<1>2. H # {}
  OBVIOUS
<1> HIDE DEF H
<1>3. PICK lo \in H, hi \in H : \A i \in H : lo <= i /\ i <= hi
  BY <1>1, <1>2, Extremes
<1>4. \A x \in H : (\A i \in H : x <= i) => x = lo
  BY <1>1, <1>3
<1>5. \A x \in H : (\A i \in H : x >= i) => x = hi
  BY <1>1, <1>3
<1>6. lo \in H /\ (\A i \in H : lo <= i) /\ hi \in H /\ (\A i \in H : hi >= i)
  BY <1>1, <1>3
<1>7. Min(H) = lo
  BY <1>4, <1>6 DEF Min
<1>8. Max(H) = hi
  BY <1>5, <1>6 DEF Max
<1> QED
  BY <1>3, <1>7, <1>8 DEF H

\* So do those before one that is not the first.
LEMMA Before ==
    ASSUME NEW s, NEW i \in Held(s), i # Min(Held(s))
    PROVE  LET J == {j \in Held(s) : j < i}
           IN  Max(J) \in J /\ \A j \in J : j <= Max(J)
<1> DEFINE J == {j \in Held(s) : j < i}
<1>1. Min(Held(s)) \in J
  BY Borders, Constants DEF Held, Window
<1>2. Slots \in Nat /\ J \in SUBSET (1 .. Slots)
  BY Constants DEF Held, Window
<1> HIDE DEF J
<1>3. PICK hi \in J : \A j \in J : j <= hi
  BY <1>1, <1>2, Extremes
<1>4. \A x \in J : (\A j \in J : x >= j) => x = hi
  BY <1>2, <1>3
<1>5. \A j \in J : hi >= j
  BY <1>2, <1>3
<1>6. Max(J) = hi
  BY <1>3, <1>4, <1>5 DEF Max
<1> QED
  BY <1>3, <1>6 DEF J

\* Growth next to a sample, and in general.
LEMMA GrowthAfter ==
    ASSUME NEW s, NEW i \in Held(s), i - 1 \in Held(s)
    PROVE  Growth(s, i) = IF s[i] < s[i - 1] THEN s[i] ELSE s[i] - s[i - 1]
<1> DEFINE J == {j \in Held(s) : j < i}
<1>1. i - 1 \in J /\ \A j \in J : j \in Int /\ i - 1 >= j
  BY Constants DEF Held, Window
<1>2. \A x \in J : (\A j \in J : x >= j) => x = i - 1
  BY <1>1
<1> HIDE DEF J
<1>3. Max(J) = i - 1
  BY <1>1, <1>2 DEF Max
<1> QED
  BY <1>3 DEF Growth, J

LEMMA GrowthType ==
    ASSUME NEW s \in [Window -> Nat \cup {None}], NEW i \in Held(s), i # Min(Held(s))
    PROVE  Growth(s, i) \in Nat /\ Growth(s, i) <= s[i]
<1> DEFINE J == {j \in Held(s) : j < i}
<1>1. Max(J) \in J
  BY Before
<1>2. s[i] \in Nat /\ s[Max(J)] \in Nat
  BY <1>1 DEF Held
<1> HIDE DEF J
<1> QED
  BY <1>2 DEF Growth, J

\* The rise is a number.
LEMMA RiseType ==
    ASSUME NEW s \in [Window -> Nat \cup {None}]
    PROVE  /\ IsFiniteSet(Held(s) \ {Min(Held(s))}) /\ Rise(s) \in Nat
<1>1. IsFiniteSet(Held(s) \ {Min(Held(s))})
  BY HeldFinite, FS_RemoveElement, FS_Subset
<1> DEFINE growths == [i \in Held(s) \ {Min(Held(s))} |-> Growth(s, i)]
<1>2. \A i \in DOMAIN growths : growths[i] \in Nat
  BY GrowthType
<1>3. DOMAIN growths = Held(s) \ {Min(Held(s))} /\ Rise(s) = SumFunction(growths)
  BY DEF Rise
<1> HIDE DEF growths
<1> QED
  BY <1>1, <1>2, <1>3, SumNat

\* A measurable window has two samples.
LEMMA TwoHeld ==
    ASSUME NEW s
    PROVE  /\ Measurable(s) => /\ Held(s) # {} /\ Min(Held(s)) < Max(Held(s))
                               /\ Cardinality(Held(s)) \in Nat /\ Cardinality(Held(s)) >= 2
           /\ \A i, j \in Held(s) : i # j => Measurable(s)
<1> DEFINE H == Held(s)
<1>1. IsFiniteSet(H) /\ Cardinality(H) \in Nat /\ H \subseteq 1 .. Slots
  BY HeldFinite
<1>2. ASSUME Measurable(s) PROVE H # {} /\ Min(H) < Max(H)
  <2>1. Cardinality(H) >= 2
    BY <1>2 DEF Measurable
  <2> HIDE DEF H
  <2>2. H # {} /\ Cardinality(H) # 1
    BY <1>1, <2>1, FS_EmptySet
  <2>3. \A x : H # {x}
    BY <2>2, FS_Singleton
  <2>4. Min(H) \in H /\ Max(H) \in H /\ \A i \in H : Min(H) <= i /\ i <= Max(H)
    BY <2>2, Borders DEF H
  <2>5. PICK k \in H : k # Min(H)
    BY <2>3, <2>4
  <2>6. PICK lo \in 1 .. Slots, hi \in 1 .. Slots : lo = Min(H) /\ hi = Max(H)
    BY <1>1, <2>4
  <2>7. k \in 1 .. Slots /\ lo <= k /\ k <= hi /\ k # lo
    BY <1>1, <2>4, <2>5, <2>6
  <2>8. lo < hi
    BY <2>7
  <2> QED
    BY <2>2, <2>6, <2>8
<1>3. ASSUME NEW i \in H, NEW j \in H, i # j PROVE Measurable(s)
  <2> HIDE DEF H
  <2>1. IsFiniteSet({i, j}) /\ Cardinality({i, j}) = 2
    <3>1. Cardinality({i} \cup {j}) = Cardinality({i}) + 1
      BY <1>3, FS_Singleton, FS_AddElement
    <3>2. {i} \cup {j} = {i, j}
      OBVIOUS
    <3>3. Cardinality({i}) = 1
      BY FS_Singleton
    <3>4. IsFiniteSet({i} \cup {j})
      BY FS_Singleton, FS_AddElement
    <3>5. Cardinality({i, j}) = 2
      BY <3>1, <3>2, <3>3
    <3> QED
      BY <3>2, <3>4, <3>5
  <2>2. Cardinality({i, j}) <= Cardinality(H)
    BY <1>1, <1>3, FS_Subset
  <2> QED
    BY <1>1, <2>1, <2>2 DEF Measurable, H
<1> QED
  BY <1>1, <1>2, <1>3 DEF Measurable

\* The rule's expression in terms of the borders: how far each side of the
\* window is extrapolated to, at most.
LEMMA Extrapolation ==
    ASSUME NEW s \in [Window -> Nat \cup {None}], Measurable(s), lag \in 0 .. Interval - 1
    PROVE  LET first == Min(Held(s))
               last == Max(Held(s))
               span == (last - first) * Interval
           IN  /\ first \in 1 .. Slots /\ last \in 1 .. Slots /\ first < last /\ s[first] \in Nat
               /\ \E gaps \in Nat \ {0}, toStart \in Nat, toEnd \in Nat, least \in Nat :
                    /\ toStart <= gaps * (first * Interval - lag)
                    /\ toEnd <= gaps * (lag + (Slots - last) * Interval)
                    /\ least <= Rise(s) * toStart /\ least <= gaps * span * s[first]
                    /\ Exceeds(s) <=> Rise(s) * (gaps * span + toEnd) + least >= Threshold * gaps * span
<1> DEFINE first == Min(Held(s))
           last == Max(Held(s))
           span == (last - first) * Interval
           gaps == 2 * (Cardinality(Held(s)) - 1)
           reach(d) == IF 5 * gaps * d >= 11 * span THEN span ELSE gaps * d
           Least(a, b) == IF a < b THEN a ELSE b
           toStart == reach(first * Interval - lag)
           toEnd == reach(lag + (Slots - last) * Interval)
           least == Least(Rise(s) * toStart, gaps * span * s[first])
<1>1. first \in 1 .. Slots /\ last \in 1 .. Slots /\ first < last /\ s[first] \in Nat
  BY TwoHeld, Borders DEF Held, Window
<1>2. gaps \in Nat \ {0}
  BY TwoHeld
<1>3. Exceeds(s) <=> Rise(s) * (gaps * span + toEnd) + least >= Threshold * gaps * span
  BY DEF Exceeds
<1>4. Interval \in Nat \ {0} /\ Slots \in Nat \ {0} /\ Rise(s) \in Nat
  BY Constants, RiseType
<1>5. span \in Nat
  <2>1. last - first \in Nat
    BY <1>1
  <2> HIDE DEF first, last
  <2> QED
    BY <1>4, <2>1
<1>6. first * Interval - lag \in Nat /\ lag + (Slots - last) * Interval \in Nat
  <2>1. first >= 1 /\ first \in Nat /\ Slots - last \in Nat
    BY <1>1, <1>4
  <2> HIDE DEF first, last
  <2>2. first * Interval >= Interval /\ first * Interval \in Nat /\ (Slots - last) * Interval \in Nat
    BY <1>4, <2>1
  <2> QED
    BY <1>4, <2>2
<1>7. ASSUME NEW d \in Nat PROVE reach(d) \in Nat /\ reach(d) <= gaps * d
  <2> HIDE DEF gaps, span
  <2>1. PICK x \in Nat : x = gaps * d
    BY <1>2
  <2>2. 5 * gaps * d = 5 * x
    BY <1>2, <2>1
  <2> QED
    BY <1>5, <2>1, <2>2
<1>8. /\ toStart \in Nat /\ toStart <= gaps * (first * Interval - lag)
      /\ toEnd \in Nat /\ toEnd <= gaps * (lag + (Slots - last) * Interval)
  BY <1>6, <1>7
<1>9. Rise(s) * toStart \in Nat /\ gaps * span * s[first] \in Nat
  <2> HIDE DEF toStart, gaps, span, first
  <2> QED
    BY <1>1, <1>2, <1>4, <1>5, <1>8
<1>10. least \in Nat /\ least <= Rise(s) * toStart /\ least <= gaps * span * s[first]
  <2> DEFINE a == Rise(s) * toStart
             b == gaps * span * s[first]
  <2>1. a \in Nat /\ b \in Nat
    BY <1>9
  <2>2. least = IF a < b THEN a ELSE b
    OBVIOUS
  <2> HIDE DEF a, b, least
  <2>3. least \in Nat /\ least <= a /\ least <= b
    BY <2>1, <2>2
  <2> QED
    BY <2>3 DEF a, b
<1> HIDE DEF toStart, toEnd, least, gaps
<1> QED
  BY <1>1, <1>2, <1>3, <1>8, <1>10

\* Products compare as their factors do.
LEMMA Products ==
    /\ \A a, b \in Int, c \in Nat : a <= b => a * c <= b * c
    /\ \A a, b \in Int, c \in Nat \ {0} : a * c <= b * c => a <= b
<1>1. ASSUME NEW a \in Int, NEW b \in Int, NEW c \in Nat, a <= b PROVE a * c <= b * c
  <2>1. b - a \in Nat /\ b * c - a * c = (b - a) * c
    BY <1>1
  <2>2. (b - a) * c \in Nat /\ a * c \in Int /\ b * c \in Int
    BY <2>1
  <2> QED
    BY <2>1, <2>2
<1>2. ASSUME NEW a \in Int, NEW b \in Int, NEW c \in Nat \ {0}, a * c <= b * c PROVE a <= b
  <2> SUFFICES ASSUME b + 1 <= a PROVE FALSE
    OBVIOUS
  <2>1. (b + 1) * c <= a * c
    BY <1>1
  <2>2. (b + 1) * c = b * c + c /\ b * c \in Int /\ a * c \in Int
    OBVIOUS
  <2> QED
    BY <1>2, <2>1, <2>2
<1> QED
  BY <1>1, <1>2

\* When the window is held to both borders, the extrapolation adds less than one
\* to a rise below a threshold that is below the number of slots.
LEMMA WholeWindow ==
    ASSUME NEW s \in [Window -> Nat \cup {None}], lag \in 0 .. Interval - 1, Threshold < Slots,
           Min(Held(s)) = 1, Max(Held(s)) = Slots, Exceeds(s)
    PROVE  Rise(s) >= Threshold
<1>1. Interval \in Nat \ {0} /\ Slots \in Nat \ {0} /\ Threshold \in Nat
  BY IncidentAssumption
<1>2. PICK R \in Nat : R = Rise(s)
  BY RiseType
<1>3. Measurable(s)
  BY DEF Exceeds
<1>4. PICK span \in Nat : span = (Slots - 1) * Interval
  BY <1>1
<1>5. PICK gaps \in Nat \ {0}, toStart \in Nat, toEnd \in Nat, least \in Nat :
        /\ toStart <= gaps * (1 * Interval - lag)
        /\ toEnd <= gaps * (lag + (Slots - Slots) * Interval)
        /\ least <= R * toStart
        /\ R * (gaps * span + toEnd) + least >= Threshold * gaps * span
  BY <1>2, <1>3, <1>4, Extrapolation
<1>6. PICK x \in Nat : x = gaps * span
  BY <1>4
<1>7. toEnd + toStart <= gaps * Interval
  <2>1. 1 * Interval - lag = Interval - lag /\ lag + (Slots - Slots) * Interval = lag
    BY <1>1
  <2>2. gaps * (Interval - lag) + gaps * lag = gaps * Interval
    BY <1>1
  <2>3. gaps * (Interval - lag) \in Int /\ gaps * lag \in Int /\ gaps * Interval \in Int
    BY <1>1
  <2> QED
    BY <1>5, <2>1, <2>2, <2>3
<1>8. R * (x + toEnd) + R * toStart >= Threshold * x
  <2>1. Threshold * gaps * span = Threshold * x
    BY <1>1, <1>4, <1>6
  <2>2. R * (x + toEnd) \in Nat /\ R * toStart \in Nat /\ Threshold * x \in Nat
    BY <1>1
  <2> QED
    BY <1>5, <1>6, <2>1, <2>2
<1>9. R * (x + gaps * Interval) >= Threshold * x
  <2>1. R * (x + toEnd) + R * toStart = (x + (toEnd + toStart)) * R
    OBVIOUS
  <2>2. (x + (toEnd + toStart)) * R <= (x + gaps * Interval) * R
    <3>1. x + (toEnd + toStart) <= x + gaps * Interval /\ x + (toEnd + toStart) \in Int /\ x + gaps * Interval \in Int
      BY <1>1, <1>7
    <3> QED
      BY <3>1, Products
  <2>3. (x + gaps * Interval) * R = R * (x + gaps * Interval)
    BY <1>1
  <2>4. R * (x + gaps * Interval) \in Nat /\ Threshold * x \in Nat /\ (x + (toEnd + toStart)) * R \in Nat
    BY <1>1
  <2> QED
    BY <1>8, <2>1, <2>2, <2>3, <2>4
<1>10. Threshold * (Slots - 1) <= R * Slots
  <2>1. PICK w \in Nat \ {0} : w = gaps * Interval
    BY <1>1
  <2>2. x = (Slots - 1) * w
    BY <1>1, <1>4, <1>6, <2>1
  <2>3. R * (x + w) = (R * Slots) * w /\ Threshold * x = (Threshold * (Slots - 1)) * w
    BY <1>1, <2>2
  <2>4. (Threshold * (Slots - 1)) * w <= (R * Slots) * w
    <3>1. R * (x + w) \in Nat /\ Threshold * x \in Nat
      BY <1>1
    <3> QED
      BY <1>9, <2>1, <2>3, <3>1
  <2>5. R * Slots \in Int /\ Threshold * (Slots - 1) \in Int
    BY <1>1
  <2> QED
    BY <2>4, <2>5, Products
<1>11. R >= Threshold
  <2> SUFFICES ASSUME R <= Threshold - 1 PROVE FALSE
    BY <1>1
  <2>1. R * Slots <= (Threshold - 1) * Slots
    BY <1>1, Products
  <2>2. (Threshold - 1) * Slots = Threshold * (Slots - 1) + Threshold - Slots
    BY <1>1
  <2>3. R * Slots \in Int /\ Threshold * (Slots - 1) \in Int /\ (Threshold - 1) * Slots \in Int
    BY <1>1
  <2> QED
    BY <1>1, <1>10, <2>1, <2>2, <2>3
<1> QED
  BY <1>2, <1>11

\* When it is held from a later border on, over two intervals or more, the first
\* sample makes up for what the extrapolation adds to a rise below three.
LEMMA LateWindow ==
    ASSUME NEW s \in [Window -> Nat \cup {None}], lag \in 0 .. Interval - 1, Threshold <= 3,
           Max(Held(s)) = Slots, Min(Held(s)) + 2 <= Slots, Exceeds(s)
    PROVE  Rise(s) + s[Min(Held(s))] >= Threshold
<1>1. Interval \in Nat \ {0} /\ Slots \in Nat \ {0} /\ Threshold \in Nat
  BY IncidentAssumption
<1>2. PICK R \in Nat : R = Rise(s)
  BY RiseType
<1>3. Measurable(s)
  BY DEF Exceeds
<1>4. PICK first \in 1 .. Slots, B \in Nat : first = Min(Held(s)) /\ B = s[first]
  BY <1>3, Extrapolation
<1>5. PICK span \in Nat : span = (Slots - first) * Interval
  BY <1>1, <1>4
<1>6. PICK gaps \in Nat \ {0}, toEnd \in Nat, least \in Nat :
        /\ toEnd <= gaps * (lag + (Slots - Slots) * Interval)
        /\ least <= gaps * span * B
        /\ R * (gaps * span + toEnd) + least >= Threshold * gaps * span
  BY <1>2, <1>3, <1>4, <1>5, Extrapolation
<1>7. 2 * Interval <= span
  <2>1. 2 <= Slots - first /\ Slots - first \in Int
    BY <1>1, <1>4
  <2> QED
    BY <1>1, <1>5, <2>1, Products
<1> SUFFICES ASSUME R + B <= Threshold - 1 PROVE FALSE
  BY <1>1, <1>2, <1>4
<1>8. R * toEnd <= 2 * (gaps * lag)
  <2>1. toEnd <= gaps * lag /\ gaps * lag \in Nat
    BY <1>1, <1>6
  <2>2. R <= 2
    BY <1>1
  <2>3. R * toEnd <= 2 * toEnd
    BY <2>2, Products
  <2>4. R * toEnd \in Int
    OBVIOUS
  <2> QED
    BY <2>1, <2>3, <2>4
<1>9. PICK x \in Nat : x = gaps * span
  BY <1>5
<1>10. R * x + 2 * (gaps * lag) + B * x >= Threshold * x
  <2>1. Threshold * gaps * span = Threshold * x /\ gaps * span * B = B * x
    BY <1>1, <1>5, <1>9
  <2>2. R * (x + toEnd) = R * x + R * toEnd
    OBVIOUS
  <2>3. R * x \in Nat /\ R * toEnd \in Nat /\ B * x \in Nat /\ Threshold * x \in Nat /\ gaps * lag \in Nat
    BY <1>1
  <2> QED
    BY <1>6, <1>8, <1>9, <2>1, <2>2, <2>3
<1>11. R * x + B * x <= Threshold * x - x
  <2>1. (R + B) * x <= (Threshold - 1) * x
    BY <1>1, Products
  <2>2. (R + B) * x = R * x + B * x /\ (Threshold - 1) * x = Threshold * x - x
    BY <1>1
  <2> QED
    BY <2>1, <2>2
<1>12. x <= 2 * (gaps * lag)
  <2>1. R * x \in Nat /\ B * x \in Nat /\ Threshold * x \in Nat /\ gaps * lag \in Nat
    BY <1>1
  <2> QED
    BY <1>10, <1>11, <2>1
<1>13. span <= 2 * lag
  <2>1. span * gaps <= (2 * lag) * gaps
    <3>1. x = span * gaps /\ 2 * (gaps * lag) = (2 * lag) * gaps
      BY <1>9
    <3> QED
      BY <1>12, <3>1
  <2>2. 2 * lag \in Int
    BY <1>1
  <2> QED
    BY <2>1, <2>2, Products
<1> QED
  BY <1>1, <1>7, <1>13

\* Without a rise there is nothing to extrapolate; a rise that reaches the
\* threshold exceeds it.
LEMMA RiseDecides ==
    ASSUME NEW s \in [Window -> Nat \cup {None}], Measurable(s), lag \in 0 .. Interval - 1
    PROVE  /\ Exceeds(s) => Rise(s) > 0
           /\ Rise(s) >= Threshold => Exceeds(s)
<1>1. Interval \in Nat \ {0} /\ Slots \in Nat \ {0} /\ Threshold \in Nat \ {0}
  BY IncidentAssumption
<1>2. PICK R \in Nat : R = Rise(s)
  BY RiseType
<1>3. PICK first \in 1 .. Slots, last \in 1 .. Slots :
        first = Min(Held(s)) /\ last = Max(Held(s)) /\ first < last
  BY Extrapolation
<1>4. PICK span \in Nat \ {0} : span = (last - first) * Interval
  <2>1. last - first \in Nat \ {0}
    BY <1>1, <1>3
  <2> QED
    BY <1>1, <2>1
<1>5. PICK gaps \in Nat \ {0}, toStart \in Nat, toEnd \in Nat, least \in Nat :
        /\ least <= R * toStart
        /\ Exceeds(s) <=> R * (gaps * span + toEnd) + least >= Threshold * gaps * span
  BY <1>2, <1>3, <1>4, Extrapolation
<1>6. PICK x \in Nat \ {0} : x = gaps * span
  BY <1>4
<1>7. Threshold * gaps * span = Threshold * x /\ Threshold * x \in Nat \ {0}
  BY <1>1, <1>4, <1>6
<1>8. R = 0 => ~Exceeds(s)
  <2> SUFFICES ASSUME R = 0 PROVE ~Exceeds(s)
    OBVIOUS
  <2>1. R * (gaps * span + toEnd) = 0 /\ least = 0
    BY <1>4, <1>5
  <2> QED
    BY <1>5, <1>7, <2>1
<1>9. R >= Threshold => Exceeds(s)
  <2> SUFFICES ASSUME Threshold <= R PROVE Exceeds(s)
    BY <1>1
  <2>1. Threshold * x <= R * x
    BY <1>1, Products
  <2>2. R * (x + toEnd) = R * x + R * toEnd /\ R * x \in Nat /\ R * toEnd \in Nat
    OBVIOUS
  <2> QED
    BY <1>5, <1>6, <1>7, <2>1, <2>2
<1> QED
  BY <1>2, <1>8, <1>9

-----------------------------------------------------------------------------
(* What a rise is made of.                                                 *)

\* A value of the counter after an earlier one, with so much answered between
\* them: it went on from there, or from zero.
Since(value, before, answered) ==
    \/ value <= answered
    \/ before # None /\ before <= value /\ value <= before + answered

\* Each sample follows the one before it, with or without restarts.
Moves(s, f) == \A i \in 2 .. Slots : s[i] # None => Since(s[i], s[i - 1], f[i])

\* Answered within the window, but for what came before its first slot.
Within(f) == SumFunction([i \in 2 .. Slots + 1 |-> f[i]])

\* A growth is no more than what was answered since the slot before.
LEMMA GrowthAnswered ==
    ASSUME NEW s, NEW f, WindowOf(s, f), Moves(s, f), NEW i \in Held(s), i # Min(Held(s))
    PROVE  i \in 2 .. Slots /\ Growth(s, i) \in Nat /\ Growth(s, i) <= f[i]
<1> DEFINE J == {j \in Held(s) : j < i}
           last == Max(J)
<1>1. last \in J /\ \A j \in J : j <= last
  BY Before
<1>2. Slots \in Nat /\ last \in 1 .. Slots /\ i \in 1 .. Slots /\ last < i
  BY <1>1, Constants DEF Held, Window
<1>3. i \in 2 .. Slots /\ i - 1 \in 1 .. Slots
  BY <1>2
<1>4. s[i] \in Nat /\ s[last] \in Nat /\ f[i] \in Nat /\ s[i] # None
  <2>1. i \in Window /\ s[i] # None /\ last \in Window /\ s[last] # None
    BY <1>1 DEF Held
  <2>2. i \in 1 .. Slots + 1
    BY <1>2, <1>3
  <2> HIDE DEF J, last
  <2> QED
    BY <2>1, <2>2 DEF WindowOf
<1>5. Growth(s, i) = IF s[i] < s[last] THEN s[i] ELSE s[i] - s[last]
  BY DEF Growth
<1>6. CASE last = i - 1
  <2>1. Since(s[i], s[last], f[i])
    BY <1>3, <1>4, <1>6 DEF Moves
  <2> HIDE DEF J, last
  <2> QED
    BY <1>3, <1>4, <1>5, <2>1 DEF Since
<1>7. CASE last # i - 1
  <2>1. s[i - 1] = None
    <3>1. i - 1 \notin J
      BY <1>1, <1>2, <1>3, <1>7
    <3> QED
      BY <1>3, <3>1 DEF Held, Window
  <2>2. s[i] <= f[i]
    BY <1>3, <1>4, <2>1 DEF Moves, Since
  <2> HIDE DEF J, last
  <2> QED
    BY <1>3, <1>4, <1>5, <2>2
<1> QED
  BY <1>6, <1>7

\* So a rise is no more than what was answered, the first sample included if
\* nothing was held before it.
LEMMA RiseAnswered ==
    ASSUME NEW s, NEW f, WindowOf(s, f), Moves(s, f), Held(s) # {}
    PROVE  /\ Within(f) \in Nat /\ Rise(s) <= Within(f)
           /\ Min(Held(s)) > 1 => Rise(s) + s[Min(Held(s))] <= Within(f)
<1> DEFINE H == Held(s)
           first == Min(H)
           rises == [i \in H \ {first} |-> Growth(s, i)]
           all == [i \in H |-> IF i = first THEN s[first] ELSE Growth(s, i)]
           answered == [i \in 2 .. Slots + 1 |-> f[i]]
<1>1. Slots \in Nat \ {0} /\ H \subseteq 1 .. Slots /\ IsFiniteSet(H) /\ first \in H
  BY Constants, HeldFinite, Borders
<1>2. /\ DOMAIN answered = 2 .. Slots + 1 /\ IsFiniteSet(2 .. Slots + 1)
      /\ \A i \in 2 .. Slots + 1 : answered[i] = f[i] /\ f[i] \in Nat
  <2>1. Slots + 1 \in Int /\ 2 \in Int
    BY <1>1
  <2>2. \A i \in 2 .. Slots + 1 : f[i] \in Nat
    BY DEF WindowOf
  <2> QED
    BY <2>1, <2>2, FS_Interval
<1>3. \A i \in H \ {first} : i \in 2 .. Slots + 1 /\ Growth(s, i) \in Nat /\ Growth(s, i) <= f[i]
  <2>1. \A i \in H \ {first} : i \in 2 .. Slots /\ Growth(s, i) \in Nat /\ Growth(s, i) <= f[i]
    BY GrowthAnswered
  <2> QED
    BY <1>1, <2>1
<1>4. /\ DOMAIN rises = H \ {first} /\ \A i \in H \ {first} : rises[i] = Growth(s, i)
      /\ SumFunction(rises) = Rise(s)
  BY DEF Rise
<1>5. SumFunction(answered) = Within(f)
  BY DEF Within
<1>6. /\ DOMAIN all = H /\ all[first] = s[first] /\ \A i \in H \ {first} : all[i] = Growth(s, i)
      /\ [i \in H \ {first} |-> all[i]] = rises
  BY <1>1
<1>7. Within(f) \in Nat /\ Rise(s) <= Within(f)
  <2> HIDE DEF H, first, rises, answered
  <2>1. DOMAIN rises \subseteq DOMAIN answered
    BY <1>2, <1>3, <1>4
  <2>2. \A i \in DOMAIN rises : rises[i] \in Nat /\ rises[i] <= answered[i]
    BY <1>2, <1>3, <1>4
  <2>3. IsFiniteSet(DOMAIN answered) /\ \A i \in DOMAIN answered : answered[i] \in Nat
    BY <1>2
  <2> QED
    BY <1>4, <1>5, <2>1, <2>2, <2>3, SumWithin
<1>8. ASSUME first > 1 PROVE Rise(s) + s[first] <= Within(f)
  <2>1. first \in 2 .. Slots /\ first - 1 \in 1 .. Slots /\ first - 1 \notin H
    BY <1>1, <1>8, Borders
  <2>2. s[first - 1] = None /\ s[first] # None /\ s[first] \in Nat
    BY <1>1, <2>1 DEF Held, Window, WindowOf
  <2>3. s[first] <= f[first] /\ first \in 2 .. Slots + 1
    BY <1>1, <2>1, <2>2 DEF Moves, Since
  <2> HIDE DEF H, first, rises, answered, all
  <2>4. DOMAIN all \subseteq DOMAIN answered
    BY <1>2, <1>3, <1>6, <2>3
  <2>5. \A i \in DOMAIN all : all[i] \in Nat /\ all[i] <= answered[i]
    BY <1>2, <1>3, <1>6, <2>2, <2>3
  <2>6. IsFiniteSet(DOMAIN answered) /\ \A i \in DOMAIN answered : answered[i] \in Nat
    BY <1>2
  <2>7. SumFunction(all) <= Within(f)
    BY <1>5, <2>4, <2>5, <2>6, SumWithin
  <2>8. SumFunction(all) = s[first] + Rise(s)
    <3>1. IsFiniteSet(DOMAIN all) /\ (\A i \in DOMAIN all : all[i] \in Int) /\ first \in DOMAIN all
      BY <1>1, <1>6, <2>5
    <3>2. SumFunction(all) = all[first] + SumFunction([i \in DOMAIN all \ {first} |-> all[i]])
      BY <3>1, SumWithout
    <3> QED
      BY <1>4, <1>6, <3>2
  <2>9. Rise(s) \in Nat
    BY RiseType DEF WindowOf
  <2> QED
    BY <2>2, <2>7, <2>8, <2>9
<1> QED
  BY <1>7, <1>8

-----------------------------------------------------------------------------
(* The samples follow the counter.                                         *)

\* Each sample follows from the one before it and the counter from the newest,
\* by what was answered between them.
GrowthInv ==
    /\ Moves(samples, failures)
    /\ api = "up" => Since(counter, samples[Slots], failures[Slots + 1])

\* Prometheus has scraped nothing yet.
LEMMA InitGrowth == Init => GrowthInv
<1> SUFFICES ASSUME Init PROVE GrowthInv
  OBVIOUS
<1>1. Slots \in Nat \ {0} /\ (\A i \in 2 .. Slots : i \in Window) /\ Slots + 1 \in 1 .. Slots + 1
  BY Constants DEF Window
<1>2. \A i \in 2 .. Slots : samples[i] = None
  BY <1>1 DEF Init
<1>3. counter = 0 /\ failures[Slots + 1] = 0
  BY <1>1 DEF Init
<1> QED
  BY <1>2, <1>3 DEF GrowthInv, Moves, Since

\* A counted 502 moves the counter and the newest count alike.
LEMMA ObserveGrowth ==
    ASSUME TypeOK, GrowthInv, Observe502, UNCHANGED samples
    PROVE  GrowthInv'
<1>1. /\ Slots \in Nat \ {0} /\ Slots + 1 \in 1 .. Slots + 1 /\ Slots \in Window
      /\ \A i \in 2 .. Slots : i \in 1 .. Slots + 1 /\ i # Slots + 1
  BY Constants DEF Window
<1>2. failures \in [1 .. Slots + 1 -> Nat] /\ counter \in Nat /\ samples \in [Window -> Nat \cup {None}]
  BY DEF TypeOK
<1>3. \A i \in 2 .. Slots : failures'[i] = failures[i]
  BY <1>1, <1>2 DEF Observe502
<1>4. Moves(samples, failures)'
  BY <1>3 DEF GrowthInv, Moves
<1>5. PICK x \in Nat, y \in Nat : x = counter /\ y = failures[Slots + 1]
  BY <1>1, <1>2
<1>6. counter' = x + 1 /\ failures'[Slots + 1] = y + 1
  BY <1>1, <1>2, <1>5 DEF Observe502
<1>7. Since(x, samples[Slots], y)
  BY <1>5 DEF GrowthInv, Observe502
<1>8. samples[Slots] # None => samples[Slots] \in Nat
  BY <1>1, <1>2
<1>9. Since(x + 1, samples[Slots], y + 1)
  BY <1>7, <1>8 DEF Since
<1>10. Since(counter', samples'[Slots], failures'[Slots + 1])
  BY <1>6, <1>9
<1> QED
  BY <1>4, <1>10 DEF GrowthInv

\* What a scrape does to the window.
Shifted(s, f, r, e) ==
    /\ \A i \in 1 .. Slots - 1 : r[i] = s[i + 1]
    /\ \A i \in 1 .. Slots : e[i] = f[i + 1]

LEMMA ScrapeShifts ==
    ASSUME TypeOK, Scrape
    PROVE  /\ Shifted(samples, failures, samples', failures')
           /\ samples'[Slots] = IF api = "up" THEN counter ELSE None
           /\ failures'[Slots + 1] = 0
<1>1. Slots \in Nat \ {0}
  BY Constants
<1>2. /\ \A i \in 1 .. Slots - 1 : samples'[i] = samples[i + 1]
      /\ samples'[Slots] = IF api = "up" THEN counter ELSE None
  BY <1>1 DEF Scrape, Window, Exposed
<1>3. /\ \A i \in 1 .. Slots : failures'[i] = failures[i + 1]
      /\ failures'[Slots + 1] = 0
  BY <1>1 DEF Scrape
<1> QED
  BY <1>2, <1>3 DEF Shifted

\* A scrape takes the counter for the newest sample.
LEMMA ScrapeGrowth ==
    ASSUME TypeOK, GrowthInv, Scrape, UNCHANGED apiVars
    PROVE  GrowthInv'
<1>1. /\ Slots \in Nat \ {0} /\ Slots \in Window
      /\ \A i \in 2 .. Slots : i - 1 \in 1 .. Slots - 1 /\ i \in 1 .. Slots
      /\ \A i \in 2 .. Slots : i # Slots => i \in 1 .. Slots - 1 /\ i + 1 \in 2 .. Slots
  BY Constants DEF Window
<1>2. /\ \A i \in 1 .. Slots - 1 : samples'[i] = samples[i + 1]
      /\ samples'[Slots] = IF api = "up" THEN counter ELSE None
      /\ \A i \in 1 .. Slots : failures'[i] = failures[i + 1]
      /\ failures'[Slots + 1] = 0
  BY ScrapeShifts DEF Shifted
<1>3. ASSUME NEW k \in 2 .. Slots, samples'[k] # None
      PROVE  Since(samples'[k], samples'[k - 1], failures'[k])
  <2>1. samples'[k - 1] = samples[k] /\ failures'[k] = failures[k + 1]
    BY <1>1, <1>2
  <2>2. CASE k = Slots
    BY <1>2, <1>3, <2>1, <2>2 DEF GrowthInv
  <2>3. CASE k # Slots
    BY <1>1, <1>2, <1>3, <2>1, <2>3 DEF GrowthInv, Moves
  <2> QED
    BY <2>2, <2>3
<1>4. ASSUME api' = "up" PROVE Since(counter', samples'[Slots], failures'[Slots + 1])
  <2>1. counter' = counter /\ samples'[Slots] = counter /\ failures'[Slots + 1] = 0 /\ counter \in Nat
    BY <1>2, <1>4 DEF apiVars, TypeOK
  <2>2. Since(counter, counter, 0)
    BY <2>1 DEF Since, None
  <2> QED
    BY <2>1, <2>2
<1> QED
  BY <1>3, <1>4 DEF GrowthInv, Moves

\* A process that stops answers nothing, one that starts counts from zero.
LEMMA NextGrowth == TypeOK /\ GrowthInv /\ [Next]_vars => GrowthInv'
<1> SUFFICES ASSUME TypeOK, GrowthInv, [Next]_vars PROVE GrowthInv'
  OBVIOUS
<1> USE DEF apiVars, promVars, ghosts
<1>1. CASE UNCHANGED <<api, counter, samples, failures>>
  BY <1>1 DEF GrowthInv, Moves
<1>2. CASE Api
  <2>1. CASE StrayFailure
    BY <2>1, ObserveGrowth DEF StrayFailure
  <2>2. CASE Stop
    BY <2>2 DEF GrowthInv, Moves, Stop
  <2>3. CASE Start
    <3>1. failures[Slots + 1] \in Nat
      BY Constants DEF TypeOK
    <3>2. Since(0, samples[Slots], failures[Slots + 1])
      BY <3>1 DEF Since
    <3> QED
      BY <2>3, <3>2 DEF GrowthInv, Moves, Start
  <2> QED
    BY <1>2, <2>1, <2>2, <2>3 DEF Api
<1>3. CASE Tick
  BY <1>1, <1>3, ScrapeGrowth DEF Tick
<1>4. CASE Watch
  BY <1>1, <1>4, ObserveGrowth
     DEF Watch, BeginCalls, Call, PollSees, PollSeesNothing, PollUnanswered, NextPoll,
         PollsOver, WriteMarker
<1>5. CASE Trigger \/ Archive \/ Recover
  BY <1>1, <1>5
     DEF Trigger, Archive, Recover, HashMarker, RuleInactive, NoAlert, TargetIsUp, QueryZero,
         Check, Clear, Fail
<1>6. CASE UNCHANGED vars
  BY <1>1, <1>6 DEF vars
<1> QED
  BY <1>2, <1>3, <1>4, <1>5, <1>6 DEF Next

-----------------------------------------------------------------------------
(* The alert.                                                              *)

\* A scrape found the API down after another had found it up.
Missed(s, from) == \E i, j \in from .. Slots : i < j /\ s[i] # None /\ s[j] = None

\* A sample with none before it, in this part of the window, is no less than
\* the threshold.
Lone(s, from, to) == (\A i \in from .. to - 1 : s[i] = None) /\ s[to] # None => s[to] >= Threshold

\* An alert between the evaluation and the next scrape: its first slot is about
\* to leave the window.
Judged(a, s, f) ==
    /\ a # "inactive" => Lone(s, 2, Slots)
    /\ a = "firing" => Within(f) >= Threshold \/ Missed(s, 2)

\* An alert between a scrape and the evaluation: it still stands for the window
\* before the newest slot.
Due(a, s, f) ==
    /\ a # "inactive" => Lone(s, 1, Slots - 1)
    /\ a = "firing" => SumFunction(f) >= Threshold \/ Missed(s, 1)

\* The sum over a window, and over all but its first slot.
LEMMA WindowSums ==
    ASSUME NEW f \in [1 .. Slots + 1 -> Nat]
    PROVE  /\ SumFunction(f) \in Nat /\ Within(f) \in Nat /\ Within(f) <= SumFunction(f)
           /\ \A e \in [1 .. Slots + 1 -> Nat] : (\A i \in 1 .. Slots + 1 : f[i] <= e[i])
                => Within(f) <= Within(e) /\ SumFunction(f) <= SumFunction(e)
           /\ \A e \in [1 .. Slots + 1 -> Nat] : (\A i \in 1 .. Slots : e[i] = f[i + 1])
                => Within(f) <= SumFunction(e)
<1> DEFINE late(h) == [i \in 2 .. Slots + 1 |-> h[i]]
<1>1. Slots \in Nat /\ Slots + 1 \in Int /\ 1 \in Int /\ 2 \in Int
  BY Constants
<1>2. IsFiniteSet(1 .. Slots + 1) /\ IsFiniteSet(2 .. Slots + 1)
  BY <1>1, FS_Interval
<1>3. \A i \in 2 .. Slots + 1 : i \in 1 .. Slots + 1
  BY <1>1
<1>4. ASSUME NEW h \in [1 .. Slots + 1 -> Nat]
      PROVE  /\ DOMAIN late(h) = 2 .. Slots + 1 /\ Within(h) = SumFunction(late(h))
             /\ \A i \in 2 .. Slots + 1 : late(h)[i] = h[i] /\ h[i] \in Nat
  BY <1>3 DEF Within
<1> HIDE DEF late
<1>5. SumFunction(f) \in Nat /\ Within(f) \in Nat /\ Within(f) <= SumFunction(f)
  <2>1. DOMAIN late(f) \subseteq DOMAIN f
    BY <1>3, <1>4
  <2>2. /\ DOMAIN late(f) = 2 .. Slots + 1 /\ Within(f) = SumFunction(late(f))
        /\ \A i \in 2 .. Slots + 1 : late(f)[i] = f[i] /\ f[i] \in Nat
    BY <1>4
  <2>3. \A i \in DOMAIN late(f) : late(f)[i] \in Nat /\ late(f)[i] <= f[i]
    BY <2>2
  <2> QED
    BY <1>2, <2>1, <2>2, <2>3, SumWithin
<1>6. ASSUME NEW e \in [1 .. Slots + 1 -> Nat], \A i \in 1 .. Slots + 1 : f[i] <= e[i]
      PROVE  Within(f) <= Within(e) /\ SumFunction(f) <= SumFunction(e)
  <2>1. SumFunction(f) <= SumFunction(e)
    BY <1>2, <1>6, SumWithin
  <2>2. \A i \in DOMAIN late(f) : late(f)[i] \in Nat /\ late(f)[i] <= late(e)[i]
    BY <1>3, <1>4, <1>6
  <2>3. /\ DOMAIN late(f) = 2 .. Slots + 1 /\ DOMAIN late(e) = 2 .. Slots + 1
        /\ \A i \in DOMAIN late(e) : late(e)[i] \in Nat
    BY <1>4
  <2>4. SumFunction(late(f)) <= SumFunction(late(e))
    BY <1>2, <2>2, <2>3, SumWithin
  <2> QED
    BY <1>4, <2>1, <2>4
<1>7. ASSUME NEW e \in [1 .. Slots + 1 -> Nat], \A i \in 1 .. Slots : e[i] = f[i + 1]
      PROVE  Within(f) <= SumFunction(e)
  <2> DEFINE shifted == [i \in 1 .. Slots |-> f[i + 1]]
  <2>1. \A i \in 2 .. Slots + 1 : f[i] \in Int
    BY <1>3
  <2>2. Within(f) = SumFunction(shifted)
    BY <1>1, <2>1, SumShifted DEF Within
  <2>3. \A i \in 1 .. Slots : shifted[i] \in Nat /\ shifted[i] <= e[i] /\ i \in 1 .. Slots + 1
    BY <1>1, <1>7
  <2>4. DOMAIN shifted = 1 .. Slots
    OBVIOUS
  <2> HIDE DEF shifted
  <2>5. DOMAIN shifted \subseteq DOMAIN e
    BY <2>3, <2>4
  <2> QED
    BY <1>2, <2>2, <2>3, <2>4, <2>5, SumWithin
<1> QED
  BY <1>5, <1>6, <1>7

\* The rule does not hold for one scrape of few failures, with at most an older
\* one in the first slot.
LEMMA ExceedsAlone ==
    ASSUME NEW s \in [Window -> Nat \cup {None}], lag \in 0 .. Interval - 1, Threshold < Slots,
           Exceeds(s)
    PROVE  Lone(s, 2, Slots)
<1> SUFFICES ASSUME \A i \in 2 .. Slots - 1 : s[i] = None, s[Slots] # None
             PROVE  s[Slots] >= Threshold
  BY DEF Lone
<1> DEFINE first == Min(Held(s))
           rises == [i \in Held(s) \ {first} |-> Growth(s, i)]
<1>1. Slots \in Nat \ {0} /\ Threshold \in Nat
  BY IncidentAssumption
<1>2. Held(s) # {} /\ first < Max(Held(s))
  BY TwoHeld DEF Exceeds
<1>3. Slots \in Held(s) /\ Held(s) \subseteq 1 .. Slots /\ IsFiniteSet(Held(s))
  BY <1>1, HeldFinite DEF Held, Window
<1>4. /\ first \in Held(s) /\ Max(Held(s)) \in Held(s)
      /\ \A i \in Held(s) : first <= i /\ i <= Max(Held(s))
  BY <1>2, Borders
<1>5. \A i \in Held(s) : i = 1 \/ i = Slots
  BY <1>1, <1>3 DEF Held
<1> HIDE DEF first
<1>6. Max(Held(s)) = Slots /\ first = 1 /\ Slots # 1
  <2>1. Max(Held(s)) = Slots
    BY <1>1, <1>3, <1>4
  <2>2. first # Slots
    BY <1>1, <1>2, <2>1
  <2> QED
    BY <1>4, <1>5, <2>1, <2>2
<1>7. Rise(s) >= Threshold
  BY <1>6, WholeWindow DEF first
<1>8. Growth(s, Slots) \in Nat /\ Growth(s, Slots) <= s[Slots] /\ s[Slots] \in Nat
  BY <1>3, <1>6, GrowthType DEF Held, first
<1>9. Rise(s) = Growth(s, Slots)
  <2>1. Held(s) \ {first} = {Slots}
    BY <1>3, <1>5, <1>6
  <2>2. Rise(s) = SumFunction([i \in {Slots} |-> Growth(s, i)])
    BY <2>1 DEF Rise, first
  <2> DEFINE one == [i \in {Slots} |-> Growth(s, i)]
             none == [i \in DOMAIN one \ {Slots} |-> one[i]]
  <2>3. DOMAIN one = {Slots} /\ one[Slots] = Growth(s, Slots) /\ DOMAIN none = {}
    OBVIOUS
  <2>4. IsFiniteSet({Slots})
    BY FS_Singleton
  <2> HIDE DEF one
  <2>5. SumFunction(one) = one[Slots] + SumFunction(none)
    BY <1>8, <2>3, <2>4, SumWithout
  <2>6. SumFunction(none) = 0
    BY <2>3, SumEmpty
  <2> QED
    BY <1>8, <2>2, <2>3, <2>5, <2>6 DEF one
<1> QED
  BY <1>1, <1>7, <1>8, <1>9

\* The alert that was pending, or was firing, fires: as much was answered in the
\* window as the rule asks for, or a scrape was missed.
LEMMA FiringMeans ==
    ASSUME NEW s, NEW f, WindowOf(s, f), Moves(s, f), lag \in 0 .. Interval - 1,
           Threshold <= 3, Threshold < Slots, Lone(s, 1, Slots - 1), Exceeds(s)
    PROVE  Within(f) >= Threshold \/ Missed(s, 2)
<1> DEFINE first == Min(Held(s))
           last == Max(Held(s))
<1>1. Slots \in Nat \ {0} /\ Threshold \in Nat /\ s \in [Window -> Nat \cup {None}]
  BY IncidentAssumption DEF WindowOf
<1>2. Held(s) # {} /\ first < last
  BY TwoHeld DEF Exceeds
<1>3. /\ first \in Held(s) /\ last \in Held(s)
      /\ \A i \in Held(s) : first <= i /\ i <= last
  BY <1>2, Borders
<1>4. first \in 1 .. Slots /\ last \in 1 .. Slots
  BY <1>3, HeldFinite
<1>5. /\ Within(f) \in Nat /\ Rise(s) <= Within(f) /\ Rise(s) \in Nat
      /\ first > 1 => Rise(s) + s[first] <= Within(f)
  BY <1>1, <1>2, RiseAnswered, RiseType
<1>6. s[first] \in Nat
  BY <1>1, <1>3 DEF Held
<1>7. CASE last # Slots
  <2>1. Slots \notin Held(s) /\ last < Slots /\ last \in 2 .. Slots /\ Slots \in 2 .. Slots
    BY <1>1, <1>2, <1>3, <1>4, <1>7
  <2>2. s[Slots] = None /\ s[last] # None
    BY <1>1, <1>3, <2>1 DEF Held, Window
  <2> HIDE DEF first, last
  <2> QED
    BY <2>1, <2>2 DEF Missed
<1>8. CASE last = Slots /\ first = 1
  <2>1. Rise(s) >= Threshold
    BY <1>1, <1>8, WholeWindow
  <2> HIDE DEF first, last
  <2> QED
    BY <1>1, <1>5, <2>1
<1>9. CASE last = Slots /\ first > 1
  <2>1. CASE first + 2 <= Slots
    <3>1. Rise(s) + s[first] >= Threshold
      BY <1>1, <1>9, <2>1, LateWindow
    <3> HIDE DEF first, last
    <3> QED
      BY <1>1, <1>5, <1>6, <1>9, <3>1
  <2>2. CASE first = Slots - 1
    <3>1. \A i \in 1 .. first - 1 : i \in Window /\ i \notin Held(s)
      BY <1>1, <1>3, <1>4 DEF Window
    <3>2. (\A i \in 1 .. first - 1 : s[i] = None) /\ s[first] # None
      BY <1>3, <3>1 DEF Held
    <3> HIDE DEF first, last
    <3>3. s[first] >= Threshold
      BY <2>2, <3>2 DEF Lone
    <3> QED
      BY <1>1, <1>5, <1>6, <1>9, <3>3
  <2> HIDE DEF first, last
  <2> QED
    BY <1>1, <1>2, <1>4, <1>9, <2>1, <2>2
<1> HIDE DEF first, last
<1> QED
  BY <1>4, <1>7, <1>8, <1>9

\* What a scrape makes of an alert, before the next evaluation.
LEMMA JudgedDue ==
    ASSUME NEW s, NEW f, NEW r, NEW e, WindowOf(s, f), WindowOf(r, e), Shifted(s, f, r, e),
           NEW a, Judged(a, s, f), Slots > 1
    PROVE  Due(a, r, e)
<1>1. Slots \in Nat \ {0} /\ Threshold \in Nat
  BY IncidentAssumption
<1>2. Lone(s, 2, Slots) => Lone(r, 1, Slots - 1)
  <2> SUFFICES ASSUME Lone(s, 2, Slots), \A i \in 1 .. Slots - 1 - 1 : r[i] = None,
                      r[Slots - 1] # None
               PROVE  r[Slots - 1] >= Threshold
    BY DEF Lone
  <2>1. /\ Slots - 1 \in 1 .. Slots - 1 /\ r[Slots - 1] = s[Slots]
        /\ \A i \in 2 .. Slots - 1 : i - 1 \in 1 .. Slots - 1 - 1 /\ i - 1 \in 1 .. Slots - 1
    BY <1>1 DEF Shifted
  <2>2. \A i \in 2 .. Slots - 1 : r[i - 1] = s[i]
    BY <2>1 DEF Shifted
  <2> QED
    BY <2>1, <2>2 DEF Lone
<1>3. Missed(s, 2) => Missed(r, 1)
  <2> SUFFICES ASSUME NEW i \in 2 .. Slots, NEW j \in 2 .. Slots, i < j, s[i] # None, s[j] = None
               PROVE  Missed(r, 1)
    BY DEF Missed
  <2>1. i - 1 \in 1 .. Slots - 1 /\ j - 1 \in 1 .. Slots - 1 /\ i - 1 < j - 1
    BY <1>1
  <2>2. r[i - 1] = s[i] /\ r[j - 1] = s[j] /\ i - 1 \in 1 .. Slots /\ j - 1 \in 1 .. Slots
    BY <1>1, <2>1 DEF Shifted
  <2> QED
    BY <2>1, <2>2 DEF Missed
<1>4. Within(f) \in Nat /\ SumFunction(e) \in Nat /\ Within(f) <= SumFunction(e)
  BY WindowSums DEF WindowOf, Shifted
<1> QED
  BY <1>1, <1>2, <1>3, <1>4 DEF Judged, Due

\* What an evaluation makes of it.
LEMMA DueJudged ==
    ASSUME NEW s, NEW f, WindowOf(s, f), Moves(s, f), lag \in 0 .. Interval - 1,
           Threshold <= 3, Threshold < Slots, NEW a, Due(a, s, f),
           NEW b, b = IF ~Exceeds(s) THEN "inactive" ELSE IF a = "inactive" THEN "pending" ELSE "firing"
    PROVE  Judged(b, s, f)
<1>1. CASE ~Exceeds(s)
  <2>1. b = "inactive"
    BY <1>1
  <2> HIDE DEF Exceeds
  <2> QED
    BY <2>1 DEF Judged
<1>2. CASE Exceeds(s)
  <2>1. Lone(s, 2, Slots)
    BY <1>2, ExceedsAlone DEF WindowOf
  <2>2. a = "inactive" => b = "pending"
    BY <1>2
  <2>3. a # "inactive" => Within(f) >= Threshold \/ Missed(s, 2)
    BY <1>2, FiringMeans DEF Due
  <2> QED
    BY <2>1, <2>2, <2>3 DEF Judged
<1> QED
  BY <1>1, <1>2

\* The clock counts to the next scrape.
LEMMA Turn ==
    ASSUME NEW n \in Nat \ {0}, NEW c \in 0 .. n - 1
    PROVE  (c + 1) % n = IF c = n - 1 THEN 0 ELSE c + 1
OBVIOUS

\* The alert stands for the window, or for the one before the last scrape.
AlertInv ==
    IF clock >= lag THEN Judged(alert, samples, failures) ELSE Due(alert, samples, failures)

\* The alert is inactive before the first scrape.
LEMMA InitAlert == Init => AlertInv
BY DEF Init, AlertInv, Judged, Due

\* What is answered later leaves the alert as justified as it was.
LEMMA ObserveAlert ==
    ASSUME TypeOK, AlertInv, Observe502, UNCHANGED promVars
    PROVE  AlertInv'
<1>1. Slots \in Nat \ {0} /\ Slots + 1 \in 1 .. Slots + 1 /\ Threshold \in Nat
  BY IncidentAssumption
<1>2. failures \in [1 .. Slots + 1 -> Nat]
  BY DEF TypeOK
<1>3. PICK e \in [1 .. Slots + 1 -> Nat] : e = failures' /\ \A i \in 1 .. Slots + 1 : failures[i] <= e[i]
  <2>1. [failures EXCEPT ![Slots + 1] = @ + 1] \in [1 .. Slots + 1 -> Nat]
    BY <1>1, <1>2
  <2>2. \A i \in 1 .. Slots + 1 : failures[i] <= [failures EXCEPT ![Slots + 1] = @ + 1][i]
    BY <1>1, <1>2
  <2> QED
    BY <2>1, <2>2 DEF Observe502
<1>4. /\ Within(failures) <= Within(e) /\ SumFunction(failures) <= SumFunction(e)
      /\ Within(failures) \in Nat /\ SumFunction(failures) \in Nat
      /\ Within(e) \in Nat /\ SumFunction(e) \in Nat
  BY <1>2, <1>3, WindowSums
<1>5. /\ Judged(alert, samples, failures) => Judged(alert, samples, e)
      /\ Due(alert, samples, failures) => Due(alert, samples, e)
  BY <1>1, <1>4 DEF Judged, Due
<1> QED
  BY <1>3, <1>5 DEF AlertInv, promVars

\* A scrape ages the alert by one slot, an evaluation renews it.
LEMMA TickAlert ==
    ASSUME TypeOK, TypeOK', GrowthInv', AlertInv, Tick, Threshold <= 3, Threshold < Slots
    PROVE  AlertInv'
<1>1. /\ Interval \in Nat \ {0} /\ clock \in 0 .. Interval - 1 /\ lag \in 0 .. Interval - 1 /\ lag' = lag
      /\ WindowOf(samples, failures)
  BY Constants DEF TypeOK, Tick, WindowOf
<1>2. PICK s, f, c, a : s = samples' /\ f = failures' /\ c = clock' /\ a = alert'
  OBVIOUS
<1>3. WindowOf(s, f) /\ Moves(s, f)
  BY <1>2 DEF TypeOK, WindowOf, GrowthInv, Moves
<1>4. c = IF clock = Interval - 1 THEN 0 ELSE clock + 1
  <2>1. c = (clock + 1) % Interval
    BY <1>2 DEF Tick
  <2> QED
    BY <1>1, <2>1, Turn
<1>5. IF c = lag
      THEN a = IF ~Exceeds(s) THEN "inactive" ELSE IF alert = "inactive" THEN "pending" ELSE "firing"
      ELSE a = alert
  BY <1>2 DEF Tick, Evaluate
<1>6. c = 0 => Due(alert, s, f)
  <2> SUFFICES ASSUME c = 0 PROVE Due(alert, s, f)
    OBVIOUS
  <2>1. clock >= lag
    BY <1>1, <1>4
  <2>2. Judged(alert, samples, failures)
    BY <2>1 DEF AlertInv
  <2>3. Shifted(samples, failures, s, f)
    BY <1>2, ScrapeShifts DEF Tick
  <2>4. Slots > 1
    BY IncidentAssumption
  <2> QED
    BY <1>1, <1>3, <2>2, <2>3, <2>4, JudgedDue
<1>7. c # 0 => s = samples /\ f = failures /\ c = clock + 1
  BY <1>2, <1>4 DEF Tick
<1>8. CASE c = lag
  <2>1. Due(alert, s, f)
    <3>1. CASE c = 0
      BY <1>6, <3>1
    <3>2. CASE c # 0
      BY <1>1, <1>7, <1>8, <3>2 DEF AlertInv
    <3> QED
      BY <3>1, <3>2
  <2>2. Judged(a, s, f)
    BY <1>1, <1>3, <1>5, <1>8, <2>1, DueJudged
  <2> QED
    BY <1>1, <1>2, <1>8, <2>2 DEF AlertInv
<1>9. CASE c # lag
  <2>1. IF c >= lag THEN Judged(a, s, f) ELSE Due(a, s, f)
    <3>1. CASE c = 0
      BY <1>1, <1>5, <1>6, <1>9, <3>1
    <3>2. CASE c # 0
      <4>1. c >= lag <=> clock >= lag
        BY <1>1, <1>7, <1>9, <3>2
      <4> QED
        BY <1>5, <1>7, <1>9, <3>2, <4>1 DEF AlertInv
    <3> QED
      BY <3>1, <3>2
  <2> QED
    BY <1>1, <1>2, <2>1 DEF AlertInv
<1> QED
  BY <1>8, <1>9

\* Nothing but time and a 502 moves what the alert stands for.
LEMMA NextAlert ==
    ASSUME Threshold <= 3, Threshold < Slots
    PROVE  TypeOK /\ TypeOK' /\ GrowthInv' /\ AlertInv /\ [Next]_vars => AlertInv'
<1> SUFFICES ASSUME TypeOK, TypeOK', GrowthInv', AlertInv, [Next]_vars PROVE AlertInv'
  OBVIOUS
<1> USE DEF ghosts
<1>1. CASE UNCHANGED <<promVars, failures>>
  BY <1>1 DEF AlertInv, promVars
<1>2. CASE Api
  BY <1>1, <1>2, ObserveAlert DEF Api, StrayFailure, Stop, Start
<1>3. CASE Tick
  BY <1>3, TickAlert
<1>4. CASE Watch
  BY <1>1, <1>4, ObserveAlert
     DEF Watch, BeginCalls, Call, PollSees, PollSeesNothing, PollUnanswered, NextPoll,
         PollsOver, WriteMarker
<1>5. CASE Trigger \/ Archive \/ Recover
  BY <1>1, <1>5
     DEF Trigger, Archive, Recover, HashMarker, RuleInactive, NoAlert, TargetIsUp, QueryZero,
         Check, Clear, Fail
<1>6. CASE UNCHANGED vars
  BY <1>1, <1>6 DEF vars
<1> QED
  BY <1>2, <1>3, <1>4, <1>5, <1>6 DEF Next

\* For a threshold of at most three, the shipped one, in a longer window: when
\* the alert fires, as many 502s were answered within the window and since, or a
\* scrape was missed (prometheus-alerts.yaml:12).  The extrapolation of a larger
\* one could make up for an answer.
THEOREM AlertJustified ==
    ASSUME Threshold <= 3, Threshold < Slots
    PROVE  Spec => []FiringJustified
<1>1. TypeOK /\ AlertInv => FiringJustified
  <2> SUFFICES ASSUME TypeOK, AlertInv, alert = "firing" PROVE Answered >= Threshold \/ ScrapeMissed
    BY DEF FiringJustified
  <2>1. /\ Within(failures) \in Nat /\ SumFunction(failures) \in Nat /\ Threshold \in Nat
        /\ Within(failures) <= SumFunction(failures)
    <3>1. failures \in [1 .. Slots + 1 -> Nat]
      BY DEF TypeOK
    <3>2. Threshold \in Nat
      BY IncidentAssumption
    <3> QED
      BY <3>1, <3>2, WindowSums
  <2>2. Missed(samples, 1) \/ Missed(samples, 2) => ScrapeMissed
    BY Constants DEF Missed, ScrapeMissed, Window
  <2> QED
    BY <2>1, <2>2 DEF AlertInv, Judged, Due, Answered
<1>2. Spec => [](TypeOK /\ GrowthInv /\ AlertInv)
  BY InitIncident, InitGrowth, InitAlert, NextTypeOK, NextGrowth, NextAlert, PTL DEF Spec
<1> QED
  BY <1>1, <1>2, PTL

-----------------------------------------------------------------------------
(* The recovery under an alert.                                            *)

AllHeld(s, from, to) == \A i \in from .. to : s[i] # None

\* What the counter rose by from a scrape to the next.
Step(s, i) == IF s[i] < s[i - 1] THEN s[i] ELSE s[i] - s[i - 1]

\* Between the evaluation and the next scrape: an inactive alert knows that the
\* rule does not hold, a pending one that the counter rose after the slot that is
\* about to be the first.
JudgedQuiet(a, s) ==
    /\ a = "inactive" => ~Exceeds(s)
    /\ a = "pending" /\ AllHeld(s, 2, Slots) => \E i \in 3 .. Slots : Step(s, i) > 0

\* Between a scrape and the evaluation: all that is left of it.
DueQuiet(a, s) ==
    /\ a = "inactive" /\ AllHeld(s, 1, Slots - 1) => Step(s, 2) < Threshold
    /\ a = "pending" /\ AllHeld(s, 1, Slots - 1) => \E i \in 2 .. Slots - 1 : Step(s, i) > 0

\* Two samples next to each other make a step, which is part of the rise; without
\* other steps it is all of it.
LEMMA StepsOfRise ==
    ASSUME NEW s \in [Window -> Nat \cup {None}], NEW k \in Held(s), k - 1 \in Held(s)
    PROVE  /\ k # Min(Held(s)) /\ Growth(s, k) = Step(s, k) /\ Step(s, k) \in Nat
           /\ Step(s, k) <= Rise(s)
           /\ (\A i \in Held(s) \ {Min(Held(s))} : i # k => Growth(s, i) = 0)
                => Rise(s) = Step(s, k)
<1> DEFINE first == Min(Held(s))
           rises == [i \in Held(s) \ {first} |-> Growth(s, i)]
           rest == [i \in DOMAIN rises \ {k} |-> rises[i]]
<1>1. k # first
  <2>1. k \in Int /\ \A i \in Held(s) : first <= i
    BY Borders, HeldFinite
  <2> QED
    BY <2>1
<1>2. Growth(s, k) = Step(s, k) /\ Step(s, k) \in Nat
  BY <1>1, GrowthAfter, GrowthType DEF Step
<1>3. IsFiniteSet(Held(s) \ {first})
  BY RiseType
<1>4. /\ DOMAIN rises = Held(s) \ {first} /\ rises[k] = Growth(s, k) /\ Rise(s) = SumFunction(rises)
      /\ \A i \in Held(s) \ {first} : rises[i] = Growth(s, i) /\ rises[i] \in Nat
  BY <1>1, GrowthType DEF Rise
<1> HIDE DEF first, rises
<1>5. Rise(s) = Step(s, k) + SumFunction(rest)
  <2>1. k \in DOMAIN rises /\ IsFiniteSet(DOMAIN rises) /\ \A i \in DOMAIN rises : rises[i] \in Int
    BY <1>1, <1>3, <1>4
  <2> QED
    BY <1>2, <1>4, <2>1, SumWithout
<1>6. /\ DOMAIN rest = DOMAIN rises \ {k} /\ IsFiniteSet(DOMAIN rest)
      /\ \A i \in DOMAIN rest : rest[i] = rises[i] /\ rest[i] \in Nat
  <2>1. IsFiniteSet(DOMAIN rises \ {k})
    BY <1>3, <1>4, FS_RemoveElement
  <2> QED
    BY <1>4, <2>1
<1>7. SumFunction(rest) \in Nat
  <2> HIDE DEF rest
  <2> QED
    BY <1>6, SumNat
<1>8. ASSUME \A i \in Held(s) \ {first} : i # k => Growth(s, i) = 0
      PROVE  SumFunction(rest) = 0
  <2>1. \A i \in DOMAIN rest : rest[i] = 0
    BY <1>4, <1>6, <1>8
  <2> HIDE DEF rest
  <2> QED
    BY <1>6, <2>1, SumOfZeros
<1> HIDE DEF rest
<1> QED
  BY <1>1, <1>2, <1>5, <1>7, <1>8 DEF first

\* An inactive alert stays unconcerned with its oldest step when a scrape shifts
\* the window, a pending one keeps its own.
LEMMA ScrapeQuiet ==
    ASSUME NEW s, NEW f, NEW r, NEW e, WindowOf(s, f), Shifted(s, f, r, e), Slots >= 3,
           lag \in 0 .. Interval - 1, NEW a, JudgedQuiet(a, s)
    PROVE  DueQuiet(a, r)
<1>1. Slots \in Nat /\ Threshold \in Nat /\ s \in [Window -> Nat \cup {None}]
  BY IncidentAssumption DEF WindowOf
<1>2. \A i \in 2 .. Slots - 1 : Step(r, i) = Step(s, i + 1)
  <2> SUFFICES ASSUME NEW i \in 2 .. Slots - 1 PROVE Step(r, i) = Step(s, i + 1)
    OBVIOUS
  <2>1. i \in 1 .. Slots - 1 /\ i - 1 \in 1 .. Slots - 1 /\ i - 1 + 1 = i /\ i + 1 - 1 = i
    BY <1>1
  <2>2. r[i] = s[i + 1] /\ r[i - 1] = s[i]
    BY <2>1 DEF Shifted
  <2> QED
    BY <2>1, <2>2 DEF Step
<1>3. AllHeld(r, 1, Slots - 1) => AllHeld(s, 2, Slots)
  <2> SUFFICES ASSUME AllHeld(r, 1, Slots - 1), NEW i \in 2 .. Slots PROVE s[i] # None
    BY DEF AllHeld
  <2>1. i - 1 \in 1 .. Slots - 1 /\ i - 1 + 1 = i
    BY <1>1
  <2> QED
    BY <2>1 DEF AllHeld, Shifted
<1>4. ASSUME a = "inactive", AllHeld(s, 2, Slots) PROVE Step(s, 3) < Threshold
  <2>1. 2 \in Held(s) /\ 3 \in Held(s) /\ 3 - 1 = 2
    BY <1>1, <1>4 DEF AllHeld, Held, Window
  <2>2. Step(s, 3) \in Nat /\ Step(s, 3) <= Rise(s) /\ Rise(s) \in Nat
    BY <1>1, <2>1, StepsOfRise, RiseType
  <2>3. Measurable(s)
    BY <2>1, TwoHeld
  <2>4. ~(Rise(s) >= Threshold)
    BY <1>1, <1>4, <2>3, RiseDecides DEF JudgedQuiet
  <2> QED
    BY <1>1, <2>2, <2>4
<1>5. a = "inactive" /\ AllHeld(r, 1, Slots - 1) => Step(r, 2) < Threshold
  <2>1. 2 \in 2 .. Slots - 1 /\ 2 + 1 = 3
    BY <1>1
  <2> QED
    BY <1>2, <1>3, <1>4, <2>1
<1>6. ASSUME a = "pending", AllHeld(r, 1, Slots - 1)
      PROVE  \E i \in 2 .. Slots - 1 : Step(r, i) > 0
  <2>1. PICK k \in 3 .. Slots : Step(s, k) > 0
    BY <1>3, <1>6 DEF JudgedQuiet
  <2>2. k - 1 \in 2 .. Slots - 1 /\ k - 1 + 1 = k
    BY <1>1
  <2> QED
    BY <1>2, <2>1, <2>2
<1> QED
  BY <1>5, <1>6 DEF DueQuiet

\* An alert that turns pending has a step in its window beyond the oldest one: the
\* oldest alone does not reach the threshold, and without it nothing rose.
LEMMA EvaluateQuiet ==
    ASSUME NEW s \in [Window -> Nat \cup {None}], lag \in 0 .. Interval - 1,
           Threshold < Slots, Slots >= 3, NEW a, DueQuiet(a, s),
           NEW b, b = IF ~Exceeds(s) THEN "inactive" ELSE IF a = "inactive" THEN "pending" ELSE "firing"
    PROVE  JudgedQuiet(b, s)
<1>1. Slots \in Nat /\ Threshold \in Nat \ {0}
  BY IncidentAssumption
<1>2. b = "inactive" => ~Exceeds(s)
  OBVIOUS
<1>3. ASSUME b = "pending", AllHeld(s, 2, Slots)
      PROVE  \E i \in 3 .. Slots : Step(s, i) > 0
  <2> SUFFICES ASSUME \A i \in 3 .. Slots : ~(Step(s, i) > 0) PROVE FALSE
    OBVIOUS
  <2>1. a = "inactive" /\ Exceeds(s)
    BY <1>3
  <2>2. \A i \in 2 .. Slots : i \in Held(s)
    BY <1>1, <1>3 DEF AllHeld, Held, Window
  <2>3. ASSUME NEW i \in 3 .. Slots PROVE i # Min(Held(s)) /\ Growth(s, i) = 0
    <3>1. i \in Held(s) /\ i - 1 \in Held(s)
      BY <1>1, <2>2
    <3>2. i # Min(Held(s)) /\ Growth(s, i) = Step(s, i) /\ Step(s, i) \in Nat
      BY <3>1, StepsOfRise
    <3> QED
      BY <3>2
  <2>4. Measurable(s) /\ Rise(s) > 0
    <3>1. 2 \in Held(s) /\ 3 \in Held(s)
      BY <1>1, <2>2
    <3>2. Measurable(s)
      BY <3>1, TwoHeld
    <3> QED
      BY <2>1, <3>2, RiseDecides
  <2>5. /\ Held(s) \subseteq 1 .. Slots /\ Min(Held(s)) \in Held(s)
        /\ \A i \in Held(s) : Min(Held(s)) <= i /\ i <= Max(Held(s))
        /\ Max(Held(s)) \in Held(s)
    <3>1. Held(s) # {}
      BY <1>1, <2>2
    <3> QED
      BY <3>1, Borders, HeldFinite
  <2>6. Min(Held(s)) \in {1, 2} /\ Max(Held(s)) = Slots
    BY <1>1, <2>2, <2>5
  <2>7. CASE s[1] # None
    <3>1. 1 \in Held(s) /\ Min(Held(s)) = 1
      BY <1>1, <2>5, <2>6, <2>7 DEF Held, Window
    <3>2. 2 \in Held(s) /\ 2 - 1 \in Held(s)
      BY <1>1, <2>2, <3>1
    <3>3. \A i \in Held(s) \ {Min(Held(s))} : i # 2 => Growth(s, i) = 0
      BY <1>1, <2>3, <2>5, <3>1
    <3>4. Rise(s) = Step(s, 2) /\ Step(s, 2) \in Nat
      BY <3>2, <3>3, StepsOfRise
    <3>5. Rise(s) >= Threshold
      BY <2>1, <2>6, <3>1, WholeWindow
    <3>6. AllHeld(s, 1, Slots - 1)
      BY <1>1, <1>3, <2>7 DEF AllHeld
    <3> QED
      BY <1>1, <2>1, <3>4, <3>5, <3>6 DEF DueQuiet
  <2>8. CASE s[1] = None
    <3>1. Min(Held(s)) = 2
      BY <2>5, <2>6, <2>8 DEF Held
    <3>2. 3 \in Held(s) /\ 3 - 1 \in Held(s) /\ 3 \in 3 .. Slots
      BY <1>1, <2>2
    <3>3. \A i \in Held(s) \ {Min(Held(s))} : i \in 3 .. Slots
      BY <1>1, <2>5, <3>1
    <3>4. Rise(s) = Step(s, 3) /\ Growth(s, 3) = Step(s, 3)
      BY <2>3, <3>2, <3>3, StepsOfRise
    <3> QED
      BY <2>3, <2>4, <3>2, <3>4
  <2> QED
    BY <2>7, <2>8
<1> QED
  BY <1>2, <1>3 DEF JudgedQuiet

\* The alert knows of the rise what is said above.
StepInv == IF clock >= lag THEN JudgedQuiet(alert, samples) ELSE DueQuiet(alert, samples)

\* Seconds since the last evaluation.
Judging == IF clock >= lag THEN clock - lag ELSE clock - lag + Interval

\* An alert that was inactive when the rule was read is pending from the next
\* evaluation on, and fires an interval after that.
AgeInv ==
    recovery \in {"inactive", "noAlert", "up"} =>
        /\ alert = "pending" => age >= Judging
        /\ alert = "firing" => age = Interval

LEMMA InitQuiet == ASSUME Slots >= 3 PROVE Init => StepInv /\ AgeInv
<1> SUFFICES ASSUME Init PROVE StepInv /\ AgeInv
  OBVIOUS
<1>1. Slots \in Nat /\ alert = "inactive" /\ recovery = "idle" /\ \A i \in Window : samples[i] = None
  BY IncidentAssumption DEF Init
<1>2. ~Exceeds(samples)
  <2>1. Held(samples) = {}
    BY <1>1 DEF Held
  <2>2. ~Measurable(samples)
    BY <2>1, TwoHeld
  <2> QED
    BY <2>2 DEF Exceeds
<1>3. ~AllHeld(samples, 1, Slots - 1)
  BY <1>1 DEF AllHeld, Window
<1> QED
  BY <1>1, <1>2, <1>3 DEF StepInv, AgeInv, JudgedQuiet, DueQuiet

\* An evaluation after which the alert is pending starts from none, one after
\* which it fires from a pending one.
LEMMA TickQuiet ==
    ASSUME TypeOK, TypeOK', StepInv, AgeInv, Tick, Threshold < Slots, Slots >= 3
    PROVE  StepInv' /\ AgeInv'
<1>1. /\ Interval \in Nat \ {0} /\ clock \in 0 .. Interval - 1 /\ lag \in 0 .. Interval - 1 /\ lag' = lag
      /\ WindowOf(samples, failures) /\ age \in 0 .. Interval /\ recovery' = recovery
  BY Constants DEF TypeOK, Tick, WindowOf
<1>2. PICK s, f, c, a, n : s = samples' /\ f = failures' /\ c = clock' /\ a = alert' /\ n = age'
  OBVIOUS
<1>3. WindowOf(s, f) /\ s \in [Window -> Nat \cup {None}]
  BY <1>2 DEF TypeOK, WindowOf
<1>4. c = IF clock = Interval - 1 THEN 0 ELSE clock + 1
  <2>1. c = (clock + 1) % Interval
    BY <1>2 DEF Tick
  <2> QED
    BY <1>1, <2>1, Turn
<1>5. IF c = lag
      THEN a = IF ~Exceeds(s) THEN "inactive" ELSE IF alert = "inactive" THEN "pending" ELSE "firing"
      ELSE a = alert
  BY <1>2 DEF Tick, Evaluate
<1>6. c = 0 => DueQuiet(alert, s)
  <2> SUFFICES ASSUME c = 0 PROVE DueQuiet(alert, s)
    OBVIOUS
  <2>1. clock >= lag
    BY <1>1, <1>4
  <2>2. JudgedQuiet(alert, samples)
    BY <2>1 DEF StepInv
  <2>3. Shifted(samples, failures, s, f)
    BY <1>2, ScrapeShifts DEF Tick
  <2> QED
    BY <1>1, <1>3, <2>2, <2>3, ScrapeQuiet
<1>7. c # 0 => s = samples /\ c = clock + 1
  BY <1>2, <1>4 DEF Tick
<1>8. /\ JudgedQuiet(alert, samples)' <=> JudgedQuiet(a, s)
      /\ DueQuiet(alert, samples)' <=> DueQuiet(a, s)
  BY <1>1, <1>2 DEF JudgedQuiet, DueQuiet, AllHeld, Step, Exceeds
<1>9. ASSUME c = lag PROVE StepInv'
  <2>1. DueQuiet(alert, s)
    <3>1. CASE c = 0
      BY <1>6, <3>1
    <3>2. CASE c # 0
      BY <1>1, <1>7, <1>9, <3>2 DEF StepInv
    <3> QED
      BY <3>1, <3>2
  <2>2. JudgedQuiet(a, s)
    BY <1>1, <1>3, <1>5, <1>9, <2>1, EvaluateQuiet
  <2> QED
    BY <1>1, <1>2, <1>8, <1>9, <2>2 DEF StepInv
<1>10. ASSUME c # lag PROVE StepInv'
  <2>1. IF c >= lag THEN JudgedQuiet(a, s) ELSE DueQuiet(a, s)
    <3>1. CASE c = 0
      BY <1>1, <1>5, <1>6, <1>10, <3>1
    <3>2. CASE c # 0
      <4>1. c >= lag <=> clock >= lag
        BY <1>1, <1>7, <1>10, <3>2
      <4> QED
        BY <1>5, <1>7, <1>10, <3>2, <4>1 DEF StepInv
    <3> QED
      BY <3>1, <3>2
  <2> QED
    BY <1>1, <1>2, <1>8, <2>1 DEF StepInv
<1>11. ASSUME recovery \in {"inactive", "noAlert", "up"}
       PROVE  /\ a = "pending" => n >= IF c >= lag THEN c - lag ELSE c - lag + Interval
              /\ a = "firing" => n = Interval
  <2>1. n = IF age < Interval THEN age + 1 ELSE age
    BY <1>2, <1>11 DEF Tick
  <2>2. /\ alert = "pending" => age >= IF clock >= lag THEN clock - lag ELSE clock - lag + Interval
        /\ alert = "firing" => age = Interval
    BY <1>11 DEF AgeInv, Judging
  <2>3. CASE c = lag
    <3>1. n \in Nat /\ (alert = "firing" => n = Interval)
      BY <1>1, <2>1, <2>2
    <3>2. alert = "pending" => n = Interval
      BY <1>1, <1>4, <2>1, <2>2, <2>3
    <3>3. a = "firing" => alert = "pending" \/ alert = "firing"
      BY <1>5, <2>3 DEF TypeOK
    <3> QED
      BY <1>1, <2>3, <3>1, <3>2, <3>3
  <2>4. CASE c # lag
    BY <1>1, <1>4, <1>5, <2>1, <2>2, <2>4
  <2> QED
    BY <2>3, <2>4
<1>12. AgeInv'
  BY <1>1, <1>2, <1>11 DEF AgeInv, Judging
<1> QED
  BY <1>9, <1>10, <1>12

\* The recovery starts to count from an inactive alert; the rest does not touch
\* Prometheus.
LEMMA NextQuiet ==
    ASSUME Threshold < Slots, Slots >= 3
    PROVE  TypeOK /\ TypeOK' /\ StepInv /\ AgeInv /\ [Next]_vars => StepInv' /\ AgeInv'
<1> SUFFICES ASSUME TypeOK, TypeOK', StepInv, AgeInv, [Next]_vars PROVE StepInv' /\ AgeInv'
  OBVIOUS
<1> USE DEF ghosts
<1>1. ASSUME UNCHANGED promVars PROVE StepInv'
  <2>1. /\ JudgedQuiet(alert, samples)' <=> JudgedQuiet(alert, samples)
        /\ DueQuiet(alert, samples)' <=> DueQuiet(alert, samples)
    BY <1>1 DEF promVars, JudgedQuiet, DueQuiet, AllHeld, Step, Exceeds
  <2> QED
    BY <1>1, <2>1 DEF StepInv, promVars
<1>2. CASE UNCHANGED <<promVars, recovery, age>>
  BY <1>1, <1>2 DEF AgeInv, Judging, promVars
<1>3. CASE Api
  BY <1>2, <1>3 DEF Api, StrayFailure, Observe502, Stop, Start
<1>4. CASE Tick
  BY <1>4, TickQuiet
<1>5. CASE Watch
  BY <1>2, <1>5
     DEF Watch, BeginCalls, Call, Observe502, PollSees, PollSeesNothing, PollUnanswered, NextPoll,
         PollsOver, WriteMarker
<1>6. CASE Trigger \/ Archive
  BY <1>2, <1>6 DEF Trigger, Archive
<1>7. CASE Recover
  <2>1. UNCHANGED promVars
    BY <1>7
       DEF Recover, HashMarker, RuleInactive, NoAlert, TargetIsUp, QueryZero, Check, Clear, Fail
  <2>2. \/ alert = "inactive"
        \/ recovery' \notin {"inactive", "noAlert", "up"}
        \/ recovery \in {"inactive", "noAlert", "up"} /\ age' = age
    BY <1>7
       DEF Recover, HashMarker, RuleInactive, NoAlert, TargetIsUp, QueryZero, Check, Clear, Fail
  <2> QED
    BY <1>1, <2>1, <2>2 DEF AgeInv, Judging, promVars
<1>8. CASE UNCHANGED vars
  BY <1>2, <1>8 DEF vars
<1> QED
  BY <1>3, <1>4, <1>5, <1>6, <1>7, <1>8 DEF Next

\* For a threshold below the scrapes in the window, at least three of them, as
\* shipped: the recovery that took less than an evaluation interval reads its
\* zero under an inactive alert (wait-for-recovery.sh:71-125).
THEOREM RecoveryUnderNoAlert ==
    ASSUME Threshold < Slots, Slots >= 3
    PROVE  Spec => AlertQuietAtQuery
<1> DEFINE Quiet == QueryZero /\ age < Interval /\ Held(samples) = Window => alert = "inactive"
<1>1. TypeOK /\ StepInv /\ AgeInv => [Quiet]_vars
  <2> SUFFICES ASSUME TypeOK, StepInv, AgeInv, Rise(samples) = 0, recovery = "up", age < Interval,
                      Held(samples) = Window
               PROVE  alert = "inactive"
    BY DEF QueryZero, Check
  <2>1. Slots \in Nat /\ Interval \in Nat \ {0} /\ samples \in [Window -> Nat \cup {None}]
    BY Constants DEF TypeOK
  <2>2. alert # "firing"
    BY <2>1 DEF AgeInv
  <2>3. \A i \in 1 .. Slots : samples[i] # None
    BY DEF Held, Window
  <2>4. ASSUME NEW i \in 2 .. Slots PROVE ~(Step(samples, i) > 0)
    <3>1. i \in Held(samples) /\ i - 1 \in Held(samples)
      BY <2>1 DEF Window
    <3>2. Step(samples, i) \in Nat /\ Step(samples, i) <= 0
      BY <2>1, <3>1, StepsOfRise
    <3> QED
      BY <3>2
  <2>5. alert # "pending"
    <3>1. AllHeld(samples, 2, Slots) /\ AllHeld(samples, 1, Slots - 1)
      BY <2>1, <2>3 DEF AllHeld
    <3>2. \A i \in 3 .. Slots : ~(Step(samples, i) > 0)
      BY <2>1, <2>4
    <3>3. \A i \in 2 .. Slots - 1 : ~(Step(samples, i) > 0)
      BY <2>1, <2>4
    <3> QED
      BY <3>1, <3>2, <3>3 DEF StepInv, JudgedQuiet, DueQuiet
  <2> QED
    BY <2>2, <2>5 DEF TypeOK
<1>2. Spec => [](TypeOK /\ StepInv /\ AgeInv)
  BY InitIncident, InitQuiet, NextTypeOK, NextQuiet, PTL DEF Spec
<1>3. Spec => [][Quiet]_vars
  BY <1>1, <1>2, PTL
<1> QED
  BY <1>3 DEF AlertQuietAtQuery

-----------------------------------------------------------------------------
(* The burst.                                                              *)

\* The samples of the last m scrapes and the one before them, as far as they are
\* in the window, are of one process whose counter is now v; the oldest of them
\* is at most base.
Unbroken(s, v, m, base) ==
    /\ \A i \in Window : i >= Slots - m => s[i] # None /\ s[i] <= v
    /\ \A i \in 2 .. Slots : i - 1 >= Slots - m => s[i - 1] <= s[i]
    /\ m < Slots => s[Slots - m] <= base

\* The last n samples are at least v.
Reached(s, n, v) == \A i \in Window : i > Slots - n => s[i] >= v

\* After e evaluations of samples that hold the whole burst, with the sample
\* before it e + h scrapes ago, the alert is on its way.
Reported(a, e, h) ==
    /\ 1 <= e /\ e + h < Slots => a # "inactive"
    /\ 2 <= e /\ e + h < Slots => a = "firing"

\* The counter of one process rises by at least the difference of two samples.
LEMMA RiseBetween ==
    ASSUME NEW s \in [Window -> Nat \cup {None}], NEW lo \in 1 .. Slots - 1,
           \A i \in lo .. Slots : s[i] # None, \A i \in lo + 1 .. Slots : s[i - 1] <= s[i]
    PROVE  Measurable(s) /\ s[Slots] - s[lo] <= Rise(s)
<1> DEFINE first == Min(Held(s))
           rises == [i \in Held(s) \ {first} |-> Growth(s, i)]
           steps == [i \in lo + 1 .. Slots |-> s[i] - s[i - 1]]
<1>1. Slots \in Nat /\ \A i \in lo .. Slots : i \in Held(s) /\ s[i] \in Nat
  BY Constants DEF Held, Window
<1>2. Measurable(s)
  <2>1. lo \in Held(s) /\ Slots \in Held(s) /\ lo # Slots
    BY <1>1
  <2> QED
    BY <2>1, TwoHeld
<1>3. /\ DOMAIN rises = Held(s) \ {first} /\ IsFiniteSet(Held(s) \ {first}) /\ Rise(s) = SumFunction(rises)
      /\ \A i \in Held(s) \ {first} : rises[i] = Growth(s, i) /\ rises[i] \in Nat
  BY RiseType, GrowthType DEF Rise
<1>4. /\ DOMAIN steps = lo + 1 .. Slots
      /\ \A i \in lo + 1 .. Slots : steps[i] = s[i] - s[i - 1]
  OBVIOUS
<1>5. SumFunction(steps) = s[Slots] - s[lo]
  <2>1. PICK n \in Nat : n = Slots - lo
    BY <1>1
  <2>2. lo \in Nat /\ lo + n = Slots
    BY <1>1, <2>1
  <2>3. \A i \in lo .. lo + n : s[i] \in Int
    BY <1>1, <2>2
  <2>4. SumFunction([i \in lo + 1 .. lo + n |-> s[i] - s[i - 1]]) = s[lo + n] - s[lo]
    BY <2>2, <2>3, SumTelescopes
  <2> QED
    BY <2>2, <2>4
<1>6. ASSUME NEW i \in lo + 1 .. Slots
      PROVE  i \in Held(s) \ {first} /\ steps[i] \in Nat /\ steps[i] <= rises[i]
  <2>1. i \in Held(s) /\ i - 1 \in Held(s) /\ s[i] \in Nat /\ s[i - 1] \in Nat /\ s[i - 1] <= s[i]
    BY <1>1
  <2>2. i # first /\ Growth(s, i) = Step(s, i)
    BY <2>1, StepsOfRise
  <2>3. Step(s, i) = s[i] - s[i - 1] /\ s[i] - s[i - 1] \in Nat
    BY <2>1 DEF Step
  <2> HIDE DEF first, rises, steps
  <2> QED
    BY <1>3, <1>4, <2>1, <2>2, <2>3
<1> HIDE DEF first, rises, steps
<1>7. SumFunction(steps) <= SumFunction(rises)
  BY <1>3, <1>4, <1>6, SumWithin
<1> QED
  BY <1>2, <1>3, <1>5, <1>7

\* A window with the sample before the burst and one after it exceeds the rule.
LEMMA BurstExceeds ==
    ASSUME NEW s \in [Window -> Nat \cup {None}], lag \in 0 .. Interval - 1,
           NEW q \in Nat, Threshold <= q,
           NEW v \in Nat, NEW m \in Nat, NEW base \in Nat, m < Slots,
           Unbroken(s, v, m, base), s[Slots] >= base + q
    PROVE  Exceeds(s)
<1>1. Slots \in Nat /\ Threshold \in Nat \ {0}
  BY IncidentAssumption
<1>2. PICK lo \in 1 .. Slots : lo = Slots - m
  BY <1>1
<1>3. /\ \A i \in lo .. Slots : i \in Window /\ s[i] # None /\ s[i] \in Nat
      /\ \A i \in lo + 1 .. Slots : s[i - 1] <= s[i]
  <2>1. \A i \in lo .. Slots : i \in Window /\ i >= Slots - m
    BY <1>1, <1>2 DEF Window
  <2>2. \A i \in lo + 1 .. Slots : i \in 2 .. Slots /\ i - 1 >= Slots - m
    BY <1>1, <1>2
  <2> QED
    BY <2>1, <2>2 DEF Unbroken
<1>4. s[lo] <= base /\ s[lo] \in Nat /\ s[Slots] \in Nat /\ lo # Slots
  <2>1. s[lo] <= base
    BY <1>2 DEF Unbroken
  <2>2. s[lo] \in Nat /\ s[Slots] \in Nat
    BY <1>1, <1>3
  <2>3. lo # Slots
    BY <1>1, <2>1, <2>2
  <2> QED
    BY <2>1, <2>2, <2>3
<1>5. Measurable(s) /\ s[Slots] - s[lo] <= Rise(s) /\ Rise(s) \in Nat
  <2>1. lo \in 1 .. Slots - 1
    BY <1>1, <1>4
  <2> QED
    BY <1>3, <2>1, RiseBetween, RiseType
<1>6. Rise(s) >= Threshold
  BY <1>1, <1>4, <1>5
<1> QED
  BY <1>5, <1>6, RiseDecides

\* A 502 leaves the samples as they were.
LEMMA UnbrokenLater ==
    ASSUME NEW s \in [Window -> Nat \cup {None}], NEW m \in Nat, NEW base \in Nat,
           NEW v \in Nat, NEW w \in Nat, v <= w, Unbroken(s, v, m, base)
    PROVE  Unbroken(s, w, m, base)
BY DEF Unbroken

\* A scrape adds the counter to them.
LEMMA UnbrokenScraped ==
    ASSUME NEW s, NEW f, NEW r, NEW e, WindowOf(s, f), WindowOf(r, e), Shifted(s, f, r, e),
           NEW v \in Nat, r[Slots] = v, NEW m \in Nat, NEW base \in Nat, Unbroken(s, v, m, base)
    PROVE  /\ Unbroken(r, v, m + 1, base)
           /\ \A n \in Nat, x \in Nat : Reached(s, n, x) /\ x <= v => Reached(r, n + 1, x)
<1>1. Slots \in Nat \ {0} /\ None \notin Nat
  BY Constants DEF None
<1>2. \A i \in Window : i = Slots \/ (i \in 1 .. Slots - 1 /\ i + 1 \in Window /\ r[i] = s[i + 1])
  BY <1>1 DEF Window, Shifted
<1>3. ASSUME NEW i \in Window, i >= Slots - (m + 1) PROVE r[i] # None /\ r[i] <= v
  <2>1. CASE i = Slots
    BY <1>1, <2>1
  <2>2. CASE i # Slots
    <3>1. i + 1 \in Window /\ i + 1 >= Slots - m /\ r[i] = s[i + 1]
      BY <1>1, <1>2, <1>3, <2>2 DEF Window
    <3> QED
      BY <3>1 DEF Unbroken
  <2> QED
    BY <2>1, <2>2
<1>4. ASSUME NEW i \in 2 .. Slots, i - 1 >= Slots - (m + 1) PROVE r[i - 1] <= r[i]
  <2>1. i - 1 \in 1 .. Slots - 1 /\ r[i - 1] = s[i] /\ i >= Slots - m /\ i \in Window
    BY <1>1, <1>4 DEF Shifted, Window
  <2>2. CASE i = Slots
    BY <2>1, <2>2 DEF Unbroken
  <2>3. CASE i # Slots
    <3>1. i + 1 \in 2 .. Slots /\ i + 1 - 1 = i /\ r[i] = s[i + 1]
      BY <1>1, <1>2, <2>1, <2>3
    <3> QED
      BY <2>1, <3>1 DEF Unbroken
  <2> QED
    BY <2>2, <2>3
<1>5. ASSUME m + 1 < Slots PROVE r[Slots - (m + 1)] <= base
  <2>1. Slots - (m + 1) \in 1 .. Slots - 1 /\ Slots - (m + 1) + 1 = Slots - m
    BY <1>1, <1>5
  <2> QED
    BY <1>1, <1>5, <2>1 DEF Unbroken, Shifted
<1>6. ASSUME NEW n \in Nat, NEW x \in Nat, Reached(s, n, x), x <= v PROVE Reached(r, n + 1, x)
  <2> SUFFICES ASSUME NEW i \in Window, i > Slots - (n + 1) PROVE r[i] >= x
    BY DEF Reached
  <2>1. CASE i = Slots
    BY <1>6, <2>1
  <2>2. CASE i # Slots
    <3>1. i + 1 \in Window /\ i + 1 > Slots - n /\ r[i] = s[i + 1]
      BY <1>1, <1>2, <2>2 DEF Window
    <3> QED
      BY <1>6, <3>1 DEF Reached
  <2> QED
    BY <2>1, <2>2
<1> QED
  BY <1>3, <1>4, <1>5, <1>6 DEF Unbroken

\* The polls outlast a burst that takes less than H scrape intervals: the counter
\* is scraped before it; the alert has fired after three intervals; as long as the
\* sample before the burst is in the window there is a poll more than the faults
\* can leave unanswered.
Detectable(H) ==
    /\ H \in Nat /\ Burst * CallTime <= H * Interval
    /\ Interval <= Settle
    /\ (Faults + 1) * PollEvery <= (Slots - 2 - H) * Interval
    /\ 3 * Interval <= (MaxPolls - 1 - Faults) * PollEvery + 1

\* Before the burst, the process is scraped.
Settled ==
    watch = "settling" =>
        /\ done = 0 /\ failed = 0
        /\ ~replaced /\ api = "up" =>
              clock + left >= Settle \/ (samples[Slots] # None /\ samples[Slots] <= counter)

\* During the burst: h scrapes so far, and base was the counter before it.
CallingFrom(h, base) ==
    /\ clock + h * Interval < done * CallTime + (CallTime - left) + Interval
    /\ Unbroken(samples, counter, h, base)
    /\ base + failed <= counter

Calling ==
    watch = "calling" /\ ~replaced =>
        /\ api = "up" /\ left <= CallTime /\ done < Burst
        /\ \E h \in Nat, base \in Nat : CallingFrom(h, base)

\* The 502s, stops and polls without an answer so far.
Spent == Faults - budget["faults"]

\* After a burst of which enough failed, and which ended r seconds after a scrape:
\* n scrapes since, and no poll but those without an answer came after the alert.
PollingFrom(h, r, n, base) ==
    /\ done * PollEvery - left + r = clock + n * Interval
    /\ Unbroken(samples, counter, n + h, base) /\ base + failed <= counter
    /\ Reached(samples, n, base + failed)
    /\ Reported(alert, IF clock >= lag THEN n ELSE n - 1, h)
    /\ (done - Spent - 1) * PollEvery < lag + 2 * Interval - r

Polling(H) ==
    watch = "polling" /\ ~replaced /\ Threshold <= failed =>
        /\ api = "up"
        /\ \E h \in 0 .. H, r \in 0 .. Interval - 1, n \in Nat, base \in Nat :
              PollingFrom(h, r, n, base)

BurstInv(H) ==
    /\ budget["faults"] <= Faults
    /\ Settled /\ Calling /\ Polling(H) /\ BurstDetected

\* A poll that is due finds the alert firing, or comes before it must.
LEMMA PollCovered ==
    ASSUME NEW H, Detectable(H), NEW h \in 0 .. H, NEW r \in 0 .. Interval - 1, NEW n \in Nat,
           NEW c \in 0 .. Interval - 1, NEW l \in 0 .. Interval - 1, NEW d \in Nat, NEW g \in 0 .. Faults,
           d * PollEvery + r = c + n * Interval,
           (d - g - 1) * PollEvery < l + 2 * Interval - r,
           NEW a, Reported(a, IF c >= l THEN n ELSE n - 1, h)
    PROVE  a = "firing" \/ (d - g) * PollEvery < l + 2 * Interval - r
<1> SUFFICES ASSUME (d - g) * PollEvery >= l + 2 * Interval - r PROVE a = "firing"
  <2>1. (d - g) * PollEvery \in Int /\ l + 2 * Interval - r \in Int
    BY IncidentAssumption
  <2> QED
    BY <2>1
<1>1. /\ Interval \in Nat \ {0} /\ PollEvery \in Nat \ {0} /\ Slots \in Nat /\ Faults \in Nat /\ H \in Nat
      /\ h \in Nat /\ r \in Nat /\ c \in Nat /\ l \in Nat /\ g \in Nat /\ h <= H /\ g <= Faults
      /\ c < Interval /\ l < Interval
  BY IncidentAssumption DEF Detectable
<1>2. PICK x \in Int : x = n * Interval
  BY <1>1
<1>3. c + x >= l + 2 * Interval
  <2>1. (d - g) * PollEvery <= d * PollEvery
    <3>1. d - g \in Int /\ d \in Int /\ d - g <= d
      BY <1>1
    <3> QED
      BY <1>1, <3>1, Products
  <2>2. d * PollEvery \in Int /\ (d - g) * PollEvery \in Int
    BY <1>1
  <2> QED
    BY <1>1, <1>2, <2>1, <2>2
<1>4. PICK y \in Int : y = (Slots - 2 - H) * Interval
  BY <1>1
<1>5. c + x < l + 2 * Interval + y
  <2>1. d * PollEvery = (d - g - 1) * PollEvery + (g + 1) * PollEvery
    BY <1>1
  <2>2. (g + 1) * PollEvery <= (Faults + 1) * PollEvery
    <3>1. g + 1 \in Int /\ Faults + 1 \in Int /\ g + 1 <= Faults + 1
      BY <1>1
    <3> QED
      BY <1>1, <3>1, Products
  <2>3. (Faults + 1) * PollEvery <= y
    BY <1>4 DEF Detectable
  <2>4. /\ d * PollEvery \in Int /\ (d - g - 1) * PollEvery \in Int
        /\ (g + 1) * PollEvery \in Int /\ (Faults + 1) * PollEvery \in Int
    BY <1>1
  <2> QED
    BY <1>1, <1>2, <2>1, <2>2, <2>3, <2>4
<1>6. CASE c >= l
  <2>1. n >= 2
    <3>1. ~(n <= 1)
      <4> SUFFICES ASSUME n <= 1 PROVE FALSE
        OBVIOUS
      <4>1. n * Interval <= 1 * Interval
        BY <1>1, Products
      <4> QED
        BY <1>1, <1>2, <1>3, <4>1
    <3> QED
      BY <3>1
  <2>2. n < Slots - H
    <3>1. ~(Slots - H <= n)
      <4> SUFFICES ASSUME Slots - H <= n PROVE FALSE
        OBVIOUS
      <4>1. (Slots - H) * Interval <= n * Interval
        BY <1>1, Products
      <4>2. (Slots - H) * Interval = y + 2 * Interval
        BY <1>1, <1>4
      <4> QED
        BY <1>1, <1>2, <1>5, <1>6, <4>1, <4>2
    <3> QED
      BY <1>1, <3>1
  <2>3. 2 <= n /\ n + h < Slots
    BY <1>1, <2>1, <2>2
  <2> QED
    BY <1>6, <2>3 DEF Reported
<1>7. CASE ~(c >= l)
  <2>1. n >= 3
    <3>1. ~(n <= 2)
      <4> SUFFICES ASSUME n <= 2 PROVE FALSE
        OBVIOUS
      <4>1. n * Interval <= 2 * Interval
        BY <1>1, Products
      <4> QED
        BY <1>1, <1>2, <1>3, <1>7, <4>1
    <3> QED
      BY <3>1
  <2>2. n < Slots - H + 1
    <3>1. ~(Slots - H + 1 <= n)
      <4> SUFFICES ASSUME Slots - H + 1 <= n PROVE FALSE
        OBVIOUS
      <4>1. (Slots - H + 1) * Interval <= n * Interval
        BY <1>1, Products
      <4>2. (Slots - H + 1) * Interval = y + 3 * Interval
        BY <1>1, <1>4
      <4> QED
        BY <1>1, <1>2, <1>5, <1>7, <4>1, <4>2
    <3> QED
      BY <1>1, <3>1
  <2>3. 2 <= n - 1 /\ n - 1 + h < Slots
    BY <1>1, <2>1, <2>2
  <2> QED
    BY <1>7, <2>3 DEF Reported
<1> QED
  BY <1>6, <1>7

\* The last poll comes after that.
LEMMA PollsSuffice ==
    ASSUME NEW H, Detectable(H), NEW r \in 0 .. Interval - 1, NEW l \in 0 .. Interval - 1,
           NEW g \in 0 .. Faults
    PROVE  ~((MaxPolls - g - 1) * PollEvery < l + 2 * Interval - r)
<1>1. /\ Interval \in Nat /\ PollEvery \in Nat /\ MaxPolls \in Nat /\ Faults \in Nat
      /\ g \in Nat /\ g <= Faults
  BY IncidentAssumption
<1>2. (MaxPolls - 1 - Faults) * PollEvery <= (MaxPolls - g - 1) * PollEvery
  <2>1. MaxPolls - 1 - Faults \in Int /\ MaxPolls - g - 1 \in Int /\ MaxPolls - 1 - Faults <= MaxPolls - g - 1
    BY <1>1
  <2> QED
    BY <1>1, <2>1, Products
<1>3. 3 * Interval <= (MaxPolls - 1 - Faults) * PollEvery + 1
  BY DEF Detectable
<1>4. (MaxPolls - 1 - Faults) * PollEvery \in Int /\ (MaxPolls - g - 1) * PollEvery \in Int
  BY <1>1
<1> QED
  BY <1>1, <1>2, <1>3, <1>4

\* An evaluation brings the alert on by one.
LEMMA EvaluateReports ==
    ASSUME NEW s \in [Window -> Nat \cup {None}], lag \in 0 .. Interval - 1,
           NEW q \in Nat, Threshold <= q,
           NEW v \in Nat, NEW n \in Nat, NEW h \in Nat, NEW base \in Nat,
           Unbroken(s, v, n + h, base), Reached(s, n, base + q),
           NEW a, Reported(a, n - 1, h),
           NEW b, b = IF ~Exceeds(s) THEN "inactive" ELSE IF a = "inactive" THEN "pending" ELSE "firing"
    PROVE  Reported(b, n, h)
<1>1. Slots \in Nat \ {0} /\ n + h \in Nat
  BY Constants
<1>2. ASSUME 1 <= n, n + h < Slots PROVE Exceeds(s)
  <2>1. s[Slots] >= base + q
    BY <1>1, <1>2 DEF Reached, Window
  <2> QED
    BY <1>1, <1>2, <2>1, BurstExceeds
<1>3. ASSUME 1 <= n, n + h < Slots PROVE b # "inactive"
  BY <1>2, <1>3
<1>4. ASSUME 2 <= n, n + h < Slots PROVE b = "firing"
  <2>1. 1 <= n - 1 /\ n - 1 + h < Slots
    BY <1>1, <1>4
  <2>2. a # "inactive" /\ Exceeds(s)
    BY <1>2, <1>4, <2>1 DEF Reported
  <2> QED
    BY <2>2
<1> QED
  BY <1>3, <1>4 DEF Reported

\* Nothing runs in the initial state.
LEMMA InitBurst == ASSUME NEW H PROVE Init => BurstInv(H)
BY IncidentAssumption DEF Init, BurstInv, Settled, Calling, Polling, BurstDetected

\* A 502, of the burst or not, raises the counter over the base.
LEMMA StrayBurst ==
    ASSUME NEW H, TypeOK, BurstInv(H), Observe502, UNCHANGED <<promVars, watchVars>>,
           budget'["faults"] <= budget["faults"], budget'["faults"] \in Nat
    PROVE  BurstInv(H)'
<1>1. /\ counter \in Nat /\ counter' \in Nat /\ counter' = counter + 1 /\ api' = api /\ replaced' = replaced
      /\ samples \in [Window -> Nat \cup {None}] /\ Slots \in Window
      /\ budget["faults"] \in Nat /\ Faults \in Nat /\ PollEvery \in Nat
      /\ done \in Nat /\ left \in Nat /\ failed \in Nat /\ lag \in Int
  <2>1. /\ counter \in Nat /\ samples \in [Window -> Nat \cup {None}] /\ budget["faults"] \in Nat
        /\ done \in Nat /\ left \in Nat /\ failed \in Nat
    BY DEF TypeOK
  <2>2. counter' = counter + 1 /\ api' = api /\ replaced' = replaced
    BY DEF Observe502
  <2>3. Slots \in Window /\ Faults \in Nat /\ PollEvery \in Nat /\ Interval \in Nat
    BY IncidentAssumption DEF Window
  <2>4. lag \in 0 .. Interval - 1
    BY DEF TypeOK
  <2> QED
    BY <2>1, <2>2, <2>3, <2>4
<1>2. PICK v \in Nat, x \in Nat : v = counter' /\ x = budget'["faults"]
  BY <1>1
<1>3. counter <= v /\ v = counter + 1 /\ x <= budget["faults"]
  BY <1>1, <1>2
<1>4. budget'["faults"] <= Faults
  BY <1>1, <1>2, <1>3 DEF BurstInv
<1>5. Settled'
  <2>1. samples[Slots] # None => samples[Slots] \in Nat
    BY <1>1
  <2>2. samples[Slots] # None /\ samples[Slots] <= counter => samples[Slots] <= v
    BY <1>1, <1>3, <2>1
  <2> QED
    BY <1>1, <1>2, <2>2 DEF BurstInv, Settled, promVars, watchVars
<1>6. Calling'
  <2> SUFFICES ASSUME watch = "calling", ~replaced
               PROVE  /\ api = "up" /\ left <= CallTime /\ done < Burst
                      /\ \E h \in Nat, base \in Nat : CallingFrom(h, base)'
    BY <1>1 DEF Calling, watchVars
  <2>1. PICK h \in Nat, base \in Nat : CallingFrom(h, base)
    BY DEF BurstInv, Calling
  <2>2. Unbroken(samples, v, h, base) /\ base + failed <= v
    BY <1>1, <1>3, <2>1, UnbrokenLater DEF CallingFrom
  <2>3. CallingFrom(h, base)'
    BY <1>2, <2>1, <2>2 DEF CallingFrom, promVars, watchVars
  <2> QED
    BY <2>3 DEF BurstInv, Calling
<1>7. Polling(H)'
  <2> SUFFICES ASSUME watch = "polling", ~replaced, Threshold <= failed
               PROVE  /\ api = "up"
                      /\ \E h \in 0 .. H, r \in 0 .. Interval - 1, n \in Nat, base \in Nat :
                            PollingFrom(h, r, n, base)'
    BY <1>1 DEF Polling, watchVars
  <2>1. PICK h \in 0 .. H, r \in 0 .. Interval - 1, n \in Nat, base \in Nat : PollingFrom(h, r, n, base)
    BY DEF BurstInv, Polling
  <2>2. Unbroken(samples, v, n + h, base) /\ base + failed <= v
    <3>1. n + h \in Nat
      OBVIOUS
    <3> QED
      BY <1>1, <1>3, <2>1, <3>1, UnbrokenLater DEF PollingFrom
  <2>3. (done - (Faults - x) - 1) * PollEvery < lag + 2 * Interval - r
    <3>1. (done - (Faults - x) - 1) * PollEvery <= (done - Spent - 1) * PollEvery
      <4>1. /\ done - (Faults - x) - 1 \in Int /\ done - Spent - 1 \in Int
            /\ done - (Faults - x) - 1 <= done - Spent - 1
        BY <1>1, <1>3 DEF Spent
      <4> QED
        BY <1>1, <4>1, Products
    <3>2. (done - (Faults - x) - 1) * PollEvery \in Int /\ (done - Spent - 1) * PollEvery \in Int
      BY <1>1 DEF Spent
    <3>3. lag + 2 * Interval - r \in Int
      BY <1>1, IncidentAssumption
    <3> QED
      BY <2>1, <3>1, <3>2, <3>3 DEF PollingFrom
  <2>4. PollingFrom(h, r, n, base)'
    BY <1>2, <2>1, <2>2, <2>3 DEF PollingFrom, Spent, promVars, watchVars
  <2> QED
    BY <2>4 DEF BurstInv, Polling
<1> QED
  BY <1>1, <1>4, <1>5, <1>6, <1>7 DEF BurstInv, BurstDetected, watchVars

\* The burst begins after a scrape.
LEMMA BeginBurst ==
    ASSUME NEW H, Detectable(H), TypeOK, BurstInv(H), BeginCalls
    PROVE  BurstInv(H)'
<1> USE DEF BeginCalls, apiVars, promVars, markerVars, ghosts
<1>1. watch' # "settling" /\ watch' # "polling" /\ watch' # "timedOut" /\ budget' = budget
  OBVIOUS
<1>2. ASSUME watch' = "calling", ~replaced PROVE Calling'
  <2>1. /\ api = "up" /\ left' = CallTime /\ done' = 0 /\ done = 0 /\ failed' = 0
        /\ UNCHANGED <<api, counter, samples, clock, replaced>>
    BY <1>2 DEF BurstInv, Settled
  <2>2. Interval \in Nat /\ clock \in 0 .. Interval - 1 /\ CallTime \in Nat /\ Burst \in Nat \ {0} /\ Slots \in Nat \ {0}
    BY IncidentAssumption DEF TypeOK
  <2>3. counter \in Nat
    BY DEF TypeOK
  <2>4. samples[Slots] # None /\ samples[Slots] <= counter
    <3>1. Interval <= Settle /\ Settle \in Nat /\ left = 0
      BY IncidentAssumption DEF Detectable
    <3>2. ~(clock + left >= Settle)
      BY <2>2, <3>1
    <3> QED
      BY <1>2, <2>1, <3>2 DEF BurstInv, Settled
  <2>5. Unbroken(samples, counter, 0, counter)
    BY <2>2, <2>4 DEF Unbroken, Window
  <2>6. clock + 0 * Interval < 0 * CallTime + (CallTime - CallTime) + Interval /\ counter + 0 <= counter
    BY <2>2, <2>3
  <2>7. PICK v \in Nat : v = counter
    BY <2>3
  <2>8. CallingFrom(0, v)'
    BY <2>1, <2>5, <2>6, <2>7 DEF CallingFrom
  <2>9. CallTime <= CallTime /\ 0 < Burst /\ 0 \in Nat
    BY <2>2
  <2> QED
    BY <2>1, <2>8, <2>9 DEF Calling
<1>3. Calling'
  BY <1>2 DEF Calling
<1> QED
  BY <1>1, <1>3 DEF BurstInv, Settled, Polling, BurstDetected

\* Its last call begins the polls.
LEMMA CallBurst ==
    ASSUME NEW H, Detectable(H), TypeOK, BurstInv(H), Call
    PROVE  BurstInv(H)'
<1>1. watch = "calling" /\ budget' = budget /\ UNCHANGED promVars
  BY DEF Call
<1>2. watch' \in {"calling", "polling", "aborted"} /\ replaced' = replaced
  BY DEF Call, Observe502, ghosts
<1>3. CASE replaced
  BY <1>1, <1>2, <1>3 DEF BurstInv, Settled, Calling, Polling, BurstDetected
<1>4. CASE ~replaced
  <2>1. api = "up" /\ left <= CallTime /\ done < Burst
    BY <1>1, <1>4 DEF BurstInv, Calling
  <2>2. PICK h \in Nat, base \in Nat : CallingFrom(h, base)
    BY <1>1, <1>4 DEF BurstInv, Calling
  <2>3. /\ api' = "up"
        /\ \/ counter' = counter + 1 /\ failed' = failed + 1
           \/ counter' = counter /\ failed' = failed
    BY <2>1 DEF Call, Observe502, apiVars
  <2>4. counter \in Nat /\ failed \in Nat /\ done \in Nat /\ left \in Nat /\ samples \in [Window -> Nat \cup {None}]
    BY DEF TypeOK
  <2>5. /\ Interval \in Nat \ {0} /\ CallTime \in Nat /\ Burst \in Nat \ {0} /\ PollEvery \in Nat \ {0}
        /\ Slots \in Nat \ {0} /\ clock \in 0 .. Interval - 1 /\ lag \in 0 .. Interval - 1
    BY IncidentAssumption DEF TypeOK
  <2>6. PICK v \in Nat, q \in Nat : 
         /\ v = counter' /\ q = failed' /\ counter <= v
         /\ (v = counter + 1 /\ q = failed + 1) \/ (v = counter /\ q = failed)
    BY <2>3, <2>4
  <2>7. Unbroken(samples, v, h, base)
    BY <2>2, <2>4, <2>6, UnbrokenLater DEF CallingFrom
  <2>8. base + q <= v
    <3>1. base + failed <= counter
      BY <2>2 DEF CallingFrom
    <3>2. counter \in Nat /\ failed \in Nat
      BY <2>4
    <3>3. (v = counter + 1 /\ q = failed + 1) \/ (v = counter /\ q = failed)
      BY <2>6
    <3> QED
      BY <3>1, <3>2, <3>3
  <2>9. PICK x \in Int : x = h * Interval /\ clock + x < done * CallTime + (CallTime - left) + Interval
    <3>1. h * Interval \in Int
      BY <2>5
    <3> QED
      BY <2>2, <3>1 DEF CallingFrom
  <2>10. clock + x < (done + 1) * CallTime + Interval
    <3>1. (done + 1) * CallTime = done * CallTime + CallTime /\ done * CallTime \in Int
      BY <2>4, <2>5
    <3> QED
      BY <2>4, <2>5, <2>9, <3>1
  <2>11. CASE done + 1 # Burst
    <3>1. watch' = "calling" /\ done' = done + 1 /\ left' = CallTime
      BY <2>11 DEF Call
    <3>2. PICK d \in Nat : d = done' /\ d = done + 1
      BY <2>4, <3>1
    <3>3. clock + h * Interval < d * CallTime + (CallTime - CallTime) + Interval
      <4>1. d * CallTime \in Int
        BY <2>5
      <4> QED
        BY <2>5, <2>9, <2>10, <3>2, <4>1
    <3>4. CallingFrom(h, base)'
      BY <1>1, <2>4, <2>6, <2>7, <2>8, <3>1, <3>2, <3>3 DEF CallingFrom, promVars
    <3>5. d < Burst /\ CallTime <= CallTime
      BY <2>1, <2>4, <2>5, <2>11, <3>2
    <3>6. Calling'
      BY <2>3, <3>1, <3>2, <3>4, <3>5 DEF Calling
    <3> QED
      BY <1>1, <3>1, <3>6 DEF BurstInv, Settled, Polling, BurstDetected
  <2>12. CASE done + 1 = Burst
    <3>1. watch' = "polling" /\ done' = 0 /\ left' = 0
      BY <2>1, <2>12 DEF Call
    <3>2. h \in 0 .. H
      <4>1. (done + 1) * CallTime <= H * Interval /\ H \in Nat
        BY <2>12 DEF Detectable
      <4>2. (done + 1) * CallTime \in Int /\ H * Interval \in Int /\ (H + 1) * Interval = H * Interval + Interval
        BY <2>4, <2>5, <4>1
      <4>3. x < (H + 1) * Interval
        BY <2>5, <2>10, <4>1, <4>2
      <4>4. ~(H + 1 <= h)
        <5> SUFFICES ASSUME H + 1 <= h PROVE FALSE
          OBVIOUS
        <5>1. (H + 1) * Interval <= h * Interval
          BY <2>5, <4>1, Products
        <5> QED
          BY <2>5, <2>9, <4>1, <4>2, <4>3, <5>1
      <4> QED
        BY <4>1, <4>4
    <3>3. 0 * PollEvery - 0 + clock = clock + 0 * Interval
      BY <2>5
    <3>4. Unbroken(samples, v, 0 + h, base) /\ base + q <= v /\ Reached(samples, 0, base + q)
      <4>1. 0 + h = h
        OBVIOUS
      <4>2. Reached(samples, 0, base + q)
        BY <2>5 DEF Reached, Window
      <4> QED
        BY <2>4, <2>5, <2>7, <2>8, <2>12, <4>1, <4>2
    <3>5. Reported(alert, IF clock >= lag THEN 0 ELSE 0 - 1, h)
      BY DEF Reported
    <3>6. (0 - Spent - 1) * PollEvery < lag + 2 * Interval - clock
      <4>0. Faults \in Nat /\ budget["faults"] \in Nat /\ budget["faults"] <= Faults
        BY IncidentAssumption DEF TypeOK, BurstInv
      <4>1. PICK g \in Nat : g = Spent
        BY <4>0 DEF Spent
      <4>2. (0 - g - 1) * PollEvery <= 0 * PollEvery
        BY <2>5, Products
      <4>3. (0 - g - 1) * PollEvery \in Int
        BY <2>5
      <4> QED
        BY <2>5, <4>1, <4>2, <4>3
    <3>7. PICK r \in 0 .. Interval - 1 : r = clock
      BY <2>5
    <3>8. PollingFrom(h, r, 0, base)'
      BY <1>1, <2>6, <3>1, <3>3, <3>4, <3>5, <3>6, <3>7 DEF PollingFrom, Spent, promVars
    <3>9. 0 \in Nat
      OBVIOUS
    <3>10. Polling(H)'
      BY <2>3, <3>2, <3>8, <3>9 DEF Polling
    <3> QED
      BY <1>1, <3>1, <3>10 DEF BurstInv, Settled, Calling, BurstDetected
  <2> QED
    BY <2>11, <2>12
<1> QED
  BY <1>3, <1>4

\* A poll without an answer spends a fault, one that finds nothing comes before
\* the alert, and the last one would come after it.
LEMMA PollBurst ==
    ASSUME NEW H, Detectable(H), TypeOK, TypeOK', BurstInv(H),
           PollSees \/ PollSeesNothing \/ PollUnanswered \/ PollsOver
    PROVE  BurstInv(H)'
<1>1. watch = "polling" /\ left = 0 /\ UNCHANGED <<apiVars, promVars, failed, replaced>>
  BY DEF PollSees, PollSeesNothing, PollUnanswered, PollsOver, PollDue, NextPoll, ghosts
<1>2. budget'["faults"] <= budget["faults"] /\ budget'["faults"] \in Nat /\ budget["faults"] \in Nat
  <2>1. budget["faults"] \in Nat /\ budget'["faults"] \in Nat /\ DOMAIN budget = {"runs", "faults"}
    BY DEF TypeOK
  <2>2. \/ budget' = budget
        \/ budget' = [budget EXCEPT !["faults"] = @ - 1]
    BY DEF PollSees, PollSeesNothing, PollUnanswered, PollsOver, Spend
  <2>3. budget'["faults"] = budget["faults"] \/ budget'["faults"] = budget["faults"] - 1
    BY <2>1, <2>2
  <2>4. PICK y \in Nat : y = budget'["faults"]
    BY <2>1
  <2> QED
    BY <2>1, <2>3, <2>4
<1>3. budget["faults"] <= Faults /\ Faults \in Nat
  BY IncidentAssumption DEF BurstInv
<1>4. PICK x \in Nat : x = budget'["faults"] /\ x <= budget["faults"] /\ x <= Faults
  BY <1>2, <1>3
<1>5. CASE replaced \/ failed < Threshold
  <2>1. watch' \in {"seen", "polling", "timedOut"} /\ (replaced' \/ failed' < Threshold)
    BY <1>1, <1>5 DEF PollSees, PollSeesNothing, PollUnanswered, PollsOver, NextPoll
  <2>2. ~replaced' => ~(Threshold <= failed')
    <3>1. failed' \in Nat /\ Threshold \in Nat
      BY IncidentAssumption DEF TypeOK
    <3> QED
      BY <2>1, <3>1
  <2> QED
    BY <1>4, <2>1, <2>2 DEF BurstInv, Settled, Calling, Polling, BurstDetected
<1>6. CASE ~replaced /\ Threshold <= failed
  <2>1. api = "up"
    BY <1>1, <1>6 DEF BurstInv, Polling
  <2>2. PICK h \in 0 .. H, r \in 0 .. Interval - 1, n \in Nat, base \in Nat : PollingFrom(h, r, n, base)
    BY <1>1, <1>6 DEF BurstInv, Polling
  <2>3. /\ Interval \in Nat \ {0} /\ PollEvery \in Nat \ {0} /\ clock \in 0 .. Interval - 1 /\ lag \in 0 .. Interval - 1
        /\ done \in Nat
    BY IncidentAssumption DEF TypeOK
  <2>4. PICK g \in 0 .. Faults : g = Spent
    BY <1>2, <1>3 DEF Spent
  <2>5. (done - g - 1) * PollEvery < lag + 2 * Interval - r
    BY <2>2, <2>4 DEF PollingFrom
  <2>6. done * PollEvery + r = clock + n * Interval
    <3>1. done * PollEvery - 0 + r = clock + n * Interval /\ done * PollEvery \in Int
      BY <1>1, <2>2, <2>3 DEF PollingFrom
    <3> QED
      BY <3>1
  <2>7. Reported(alert, IF clock >= lag THEN n ELSE n - 1, h)
    BY <2>2 DEF PollingFrom
  <2>8. alert = "firing" \/ (done - g) * PollEvery < lag + 2 * Interval - r
    BY <2>2, <2>3, <2>4, <2>5, <2>6, <2>7, PollCovered
  <2>9. CASE PollSees
    BY <1>4, <2>9 DEF PollSees, BurstInv, Settled, Calling, Polling, BurstDetected
  <2>10. CASE PollSeesNothing \/ PollUnanswered
    <3>1. watch' = "polling" /\ done' = done + 1 /\ left' = PollEvery
      BY <1>1, <2>10 DEF PollSeesNothing, PollUnanswered, NextPoll
    <3>2. PICK d \in Nat : d = done' /\ d = done + 1
      BY <2>3, <3>1
    <3>3. d * PollEvery - PollEvery + r = clock + n * Interval
      <4>1. d * PollEvery = done * PollEvery + PollEvery /\ done * PollEvery \in Int
        BY <2>3, <3>2
      <4> QED
        BY <2>3, <2>6, <4>1
    <3>4. (d - (Faults - x) - 1) * PollEvery < lag + 2 * Interval - r
      <4>1. CASE PollSeesNothing
        <5>1. d - (Faults - x) - 1 = done - g
          <6>1. x = budget["faults"]
            BY <1>4, <4>1 DEF PollSeesNothing
          <6> QED
            BY <1>3, <2>3, <2>4, <3>2, <6>1 DEF Spent
        <5> QED
          BY <2>8, <4>1, <5>1 DEF PollSeesNothing
      <4>2. CASE PollUnanswered
        <5>1. d - (Faults - x) - 1 = done - g - 1
          <6>1. x = budget["faults"] - 1
            BY <1>2, <1>4, <4>2 DEF PollUnanswered, Spend, TypeOK
          <6> QED
            BY <1>2, <1>3, <2>3, <2>4, <3>2, <6>1 DEF Spent
        <5> QED
          BY <2>5, <5>1
      <4> QED
        BY <2>10, <4>1, <4>2
    <3>5. PollingFrom(h, r, n, base)'
      BY <1>1, <1>4, <2>2, <3>1, <3>2, <3>3, <3>4 DEF PollingFrom, Spent, apiVars, promVars
    <3>6. Polling(H)'
      BY <1>1, <2>1, <2>2, <3>5 DEF Polling, apiVars
    <3> QED
      BY <1>4, <3>1, <3>6 DEF BurstInv, Settled, Calling, BurstDetected
  <2>11. CASE PollsOver
    BY <2>2, <2>3, <2>4, <2>5, <2>11, PollsSuffice DEF PollsOver
  <2> QED
    BY <2>9, <2>10, <2>11
<1>7. failed \in Nat /\ Threshold \in Nat
  BY IncidentAssumption DEF TypeOK
<1> QED
  BY <1>5, <1>6, <1>7

\* A second moves the bounds of the burst along with the clock; a scrape adds the
\* counter, an evaluation brings the alert on.
LEMMA TickBurst ==
    ASSUME NEW H, Detectable(H), TypeOK, TypeOK', BurstInv(H), Tick
    PROVE  BurstInv(H)'
<1>1. /\ Interval \in Nat \ {0} /\ clock \in 0 .. Interval - 1 /\ lag \in 0 .. Interval - 1 /\ lag' = lag
      /\ Slots \in Nat \ {0} /\ Slots \in Window /\ counter \in Nat /\ left \in Nat /\ done \in Nat /\ failed \in Nat
      /\ CallTime \in Nat /\ PollEvery \in Nat \ {0} /\ Settle \in Nat
  <2>1. /\ Interval \in Nat \ {0} /\ Slots \in Nat \ {0} /\ CallTime \in Nat
        /\ PollEvery \in Nat \ {0} /\ Settle \in Nat
    BY IncidentAssumption
  <2>2. /\ clock \in 0 .. Interval - 1 /\ lag \in 0 .. Interval - 1
        /\ counter \in Nat /\ left \in Nat /\ done \in Nat /\ failed \in Nat
    BY DEF TypeOK
  <2>3. lag' = lag
    BY DEF Tick
  <2> QED
    BY <2>1, <2>2, <2>3 DEF Window
<1>2. WindowOf(samples, failures) /\ WindowOf(samples', failures')
  BY DEF TypeOK, WindowOf
<1>3. UNCHANGED <<api, counter, watch, done, failed, budget, replaced>>
  BY DEF Tick, apiVars
<1>4. PICK s, f, c, a : s = samples' /\ f = failures' /\ c = clock' /\ a = alert'
  OBVIOUS
<1>5. PICK m \in Nat : m = left' /\ m = IF left > 0 THEN left - 1 ELSE 0
  BY <1>1 DEF Tick
<1>6. WindowOf(s, f) /\ s \in [Window -> Nat \cup {None}] /\ samples \in [Window -> Nat \cup {None}]
  BY <1>2, <1>4 DEF WindowOf
<1>7. c = IF clock = Interval - 1 THEN 0 ELSE clock + 1
  <2>1. c = (clock + 1) % Interval
    BY <1>4 DEF Tick
  <2> QED
    BY <1>1, <2>1, Turn
<1>8. IF c = lag
      THEN a = IF ~Exceeds(s) THEN "inactive" ELSE IF alert = "inactive" THEN "pending" ELSE "firing"
      ELSE a = alert
  BY <1>4 DEF Tick, Evaluate
<1>9. c # 0 => s = samples /\ c = clock + 1
  BY <1>4, <1>7 DEF Tick
<1>10. c = 0 => /\ clock = Interval - 1 /\ Shifted(samples, failures, s, f)
                /\ api = "up" => s[Slots] = counter
  BY <1>1, <1>4, <1>7, ScrapeShifts DEF Tick
<1>11. ASSUME watch = "settling", ~replaced, api = "up"
       PROVE  c + m >= Settle \/ (s[Slots] # None /\ s[Slots] <= counter)
  <2>1. CASE c = 0
    <3>1. s[Slots] = counter
      BY <1>10, <1>11, <2>1
    <3> QED
      BY <1>1, <3>1 DEF None
  <2>2. CASE c # 0
    <3>1. clock + left >= Settle \/ (samples[Slots] # None /\ samples[Slots] <= counter)
      BY <1>11 DEF BurstInv, Settled
    <3>2. Interval <= Settle
      BY DEF Detectable
    <3>3. clock + left >= Settle => c + m >= Settle
      BY <1>1, <1>5, <1>9, <2>2, <3>2
    <3> QED
      BY <1>9, <2>2, <3>1, <3>3
  <2> QED
    BY <2>1, <2>2
<1>12. Settled'
  BY <1>3, <1>4, <1>5, <1>11 DEF BurstInv, Settled
<1>13. ASSUME watch = "calling", ~replaced PROVE Calling'
  <2>1. api = "up" /\ left <= CallTime /\ done < Burst /\ left > 0
    BY <1>13 DEF BurstInv, Calling, Tick
  <2>2. PICK h \in Nat, base \in Nat : CallingFrom(h, base)
    BY <1>13 DEF BurstInv, Calling
  <2>3. m = left - 1 /\ m <= CallTime
    BY <1>1, <1>5, <2>1
  <2>4. clock + h * Interval < done * CallTime + (CallTime - left) + Interval /\ base + failed <= counter
    BY <2>2 DEF CallingFrom
  <2>5. h * Interval \in Int /\ done * CallTime \in Int
    BY <1>1
  <2>6. CASE c = 0
    <3>1. Unbroken(s, counter, h + 1, base)
      BY <1>1, <1>2, <1>6, <1>10, <2>1, <2>2, <2>6, UnbrokenScraped DEF CallingFrom
    <3>2. 0 + (h + 1) * Interval < done * CallTime + (CallTime - m) + Interval
      <4>1. (h + 1) * Interval = h * Interval + Interval
        BY <1>1
      <4> QED
        BY <1>1, <1>10, <2>3, <2>4, <2>5, <2>6, <4>1
    <3>3. CallingFrom(h + 1, base)'
      BY <1>3, <1>4, <1>5, <2>4, <2>6, <3>1, <3>2 DEF CallingFrom
    <3>4. h + 1 \in Nat
      OBVIOUS
    <3> QED
      BY <1>3, <1>5, <2>1, <2>3, <3>3, <3>4 DEF Calling
  <2>7. CASE c # 0
    <3>1. Unbroken(s, counter, h, base)
      BY <1>9, <2>2, <2>7 DEF CallingFrom
    <3>2. c + h * Interval < done * CallTime + (CallTime - m) + Interval
      BY <1>1, <1>9, <2>3, <2>4, <2>5, <2>7
    <3>3. CallingFrom(h, base)'
      BY <1>3, <1>4, <1>5, <2>4, <3>1, <3>2 DEF CallingFrom
    <3> QED
      BY <1>3, <1>5, <2>1, <2>3, <3>3 DEF Calling
  <2> QED
    BY <2>6, <2>7
<1>14. ASSUME watch = "polling", ~replaced, Threshold <= failed PROVE Polling(H)'
  <2>1. api = "up" /\ left > 0 /\ m = left - 1
    BY <1>1, <1>5, <1>14 DEF BurstInv, Polling, Tick
  <2>2. PICK h \in 0 .. H, r \in 0 .. Interval - 1, n \in Nat, base \in Nat : PollingFrom(h, r, n, base)
    BY <1>14 DEF BurstInv, Polling
  <2>3. /\ done * PollEvery - left + r = clock + n * Interval
        /\ Unbroken(samples, counter, n + h, base) /\ base + failed <= counter
        /\ Reached(samples, n, base + failed)
        /\ Reported(alert, IF clock >= lag THEN n ELSE n - 1, h)
        /\ (done - Spent - 1) * PollEvery < lag + 2 * Interval - r
    BY <2>2 DEF PollingFrom
  <2>4. /\ H \in Nat /\ h \in Nat /\ n + h \in Nat /\ base + failed \in Nat
    BY <1>1, <2>2 DEF Detectable
  <2>5. PICK k \in Nat : k = IF c = 0 THEN n + 1 ELSE n
    OBVIOUS
  <2>6. done * PollEvery - m + r = c + k * Interval
    <3>1. (n + 1) * Interval = n * Interval + Interval /\ n * Interval \in Int /\ done * PollEvery \in Int
      BY <1>1
    <3>2. CASE c = 0
      BY <1>1, <1>10, <2>1, <2>3, <2>5, <3>1, <3>2
    <3>3. CASE c # 0
      BY <1>1, <1>9, <2>1, <2>3, <2>5, <3>1, <3>3
    <3> QED
      BY <3>2, <3>3
  <2>7. Unbroken(s, counter, k + h, base) /\ Reached(s, k, base + failed)
    <3>1. CASE c = 0
      <4>1. Unbroken(s, counter, n + h + 1, base) /\ Reached(s, n + 1, base + failed)
        BY <1>1, <1>2, <1>6, <1>10, <2>1, <2>3, <2>4, <3>1, UnbrokenScraped
      <4>2. k = n + 1 /\ k + h = n + h + 1
        BY <2>4, <2>5, <3>1
      <4> QED
        BY <4>1, <4>2
    <3>2. CASE c # 0
      BY <1>9, <2>3, <2>5, <3>2
    <3> QED
      BY <3>1, <3>2
  <2>8. Reported(a, IF c >= lag THEN k ELSE k - 1, h)
    <3>1. CASE c = lag
      <4>1. Reported(alert, k - 1, h)
        <5>1. CASE c = 0
          <6>1. clock >= lag /\ k - 1 = n
            BY <1>1, <1>10, <2>5, <5>1
          <6> QED
            BY <2>3, <6>1
        <5>2. CASE c # 0
          <6>1. ~(clock >= lag) /\ k = n
            BY <1>1, <1>9, <2>5, <3>1, <5>2
          <6> QED
            BY <2>3, <6>1
        <5> QED
          BY <5>1, <5>2
      <4>2. Reported(a, k, h)
        BY <1>1, <1>6, <1>8, <1>14, <2>4, <2>7, <3>1, <4>1, EvaluateReports
      <4> QED
        BY <1>1, <3>1, <4>2
    <3>2. CASE c # lag
      <4>1. a = alert
        BY <1>8, <3>2
      <4>2. (IF c >= lag THEN k ELSE k - 1) = (IF clock >= lag THEN n ELSE n - 1)
        BY <1>1, <1>7, <2>5, <3>2
      <4> QED
        BY <2>3, <4>1, <4>2
    <3> QED
      BY <3>1, <3>2
  <2>9. PollingFrom(h, r, k, base)'
    BY <1>1, <1>3, <1>4, <1>5, <2>3, <2>6, <2>7, <2>8 DEF PollingFrom, Spent
  <2> QED
    BY <1>3, <2>1, <2>9 DEF Polling
<1> QED
  <2>1. Calling'
    BY <1>3, <1>13 DEF Calling
  <2>2. Polling(H)'
    BY <1>3, <1>14 DEF Polling
  <2> QED
    BY <1>3, <1>12, <2>1, <2>2 DEF BurstInv, BurstDetected

\* A run begins with the sleep; another process makes the rest void.
LEMMA NextBurst ==
    ASSUME NEW H, Detectable(H)
    PROVE  TypeOK /\ TypeOK' /\ BurstInv(H) /\ [Next]_vars => BurstInv(H)'
<1> SUFFICES ASSUME TypeOK, TypeOK', BurstInv(H), [Next]_vars PROVE BurstInv(H)'
  OBVIOUS
<1>1. ASSUME UNCHANGED <<apiVars, promVars, watchVars, budget, replaced>> PROVE BurstInv(H)'
  BY <1>1
     DEF BurstInv, Settled, Calling, CallingFrom, Polling, PollingFrom, Spent, BurstDetected,
         apiVars, promVars, watchVars
<1>2. CASE Api
  <2>1. CASE StrayFailure
    <3>1. budget["faults"] \in Nat /\ DOMAIN budget = {"runs", "faults"} /\ budget'["faults"] \in Nat
      BY DEF TypeOK
    <3>2. budget' = [budget EXCEPT !["faults"] = @ - 1]
      BY <2>1 DEF StrayFailure, Spend
    <3>3. PICK x \in Nat : x = budget'["faults"] /\ x = budget["faults"] - 1
      BY <3>1, <3>2
    <3>4. budget'["faults"] <= budget["faults"]
      BY <3>1, <3>3
    <3> QED
      BY <2>1, <3>1, <3>4, StrayBurst DEF StrayFailure
  <2>2. CASE Stop
    <3>1. budget["faults"] \in Nat /\ DOMAIN budget = {"runs", "faults"}
      BY DEF TypeOK
    <3>2. budget'["faults"] = budget["faults"] - 1
      BY <2>2, <3>1 DEF Stop, Spend
    <3>3. budget'["faults"] <= Faults
      <4>1. budget["faults"] - 1 <= Faults
        BY <3>1, IncidentAssumption DEF BurstInv
      <4> QED
        BY <3>2, <4>1
    <3>4. replaced' /\ UNCHANGED watchVars
      BY <2>2 DEF Stop
    <3> QED
      BY <3>3, <3>4
         DEF BurstInv, Settled, Calling, Polling, BurstDetected, watchVars
  <2>3. CASE Start
    BY <2>3 DEF Start, BurstInv, Settled, Calling, Polling, BurstDetected, watchVars
  <2> QED
    BY <1>2, <2>1, <2>2, <2>3 DEF Api
<1>3. CASE Tick
  BY <1>3, TickBurst
<1>4. CASE Trigger
  <2>1. budget'["faults"] <= Faults
    <3>1. DOMAIN budget = {"runs", "faults"}
      BY DEF TypeOK
    <3>2. budget'["faults"] = budget["faults"]
      BY <1>4, <3>1 DEF Trigger, Spend
    <3> QED
      BY <3>2 DEF BurstInv
  <2>2. watch' = "settling" /\ done' = 0 /\ failed' = 0 /\ left' = Settle /\ UNCHANGED <<clock, samples>>
    BY <1>4 DEF Trigger, promVars
  <2>3. clock + Settle >= Settle
    <3>1. Settle \in Nat /\ Interval \in Nat /\ clock \in 0 .. Interval - 1
      BY IncidentAssumption DEF TypeOK
    <3> QED
      BY <3>1
  <2> QED
    BY <2>1, <2>2, <2>3 DEF BurstInv, Settled, Calling, Polling, BurstDetected
<1>5. CASE Watch
  <2>1. CASE WriteMarker
    <3>1. watch' = "detected" /\ budget' = budget
      BY <2>1 DEF WriteMarker
    <3> QED
      BY <3>1 DEF BurstInv, Settled, Calling, Polling, BurstDetected
  <2> QED
    BY <1>5, <2>1, BeginBurst, CallBurst, PollBurst DEF Watch
<1>6. CASE Archive \/ Recover \/ UNCHANGED vars
  BY <1>1, <1>6
     DEF Archive, Recover, HashMarker, RuleInactive, NoAlert, TargetIsUp, QueryZero,
         Check, Clear, Fail, vars, ghosts
<1> QED
  BY <1>2, <1>3, <1>4, <1>5, <1>6 DEF Next

\* A burst of demo-trigger-incident (Makefile:89-99) of which at least Threshold
\* requests got a 502 is detected, by whatever constants satisfy Detectable: the
\* shipped ones do, with calls of up to a second and up to two faults.  Nothing is
\* said of the fault the target injects, which gives no 502.
THEOREM BurstIsDetected ==
    ASSUME NEW H, Detectable(H)
    PROVE  Spec => []BurstDetected
<1>1. BurstInv(H) => BurstDetected
  BY DEF BurstInv
<1>2. Init => TypeOK /\ BurstInv(H)
  BY InitIncident, InitBurst
<1>3. TypeOK /\ BurstInv(H) /\ [Next]_vars => TypeOK' /\ BurstInv(H)'
  BY NextTypeOK, NextBurst
<1> QED
  BY <1>1, <1>2, <1>3, PTL DEF Spec

=============================================================================
