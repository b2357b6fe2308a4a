----------------------------- MODULE Frontend_proofs ---------------------------
(***************************************************************************)
(* The telemetry desk, the status bar and the benchmark page for every set *)
(* of bets and every bound; and the whole application, every step of which *)
(* is a step of each of its parts or leaves the part alone.                *)
(***************************************************************************)
EXTENDS Frontend, BoardAndSlip_proofs, Session_proofs

--------------------------------------------------------------------------------
(* Tracing.  What keeps the trace shown that of the bet asked for last is  *)
(* that every request under way is for it, as long as none has crossed      *)
(* another; and a number is given to one request only.                     *)

TracingInv ==
    /\ RecentTypeOK
    /\ TracingTypeOK
    /\ IsFiniteSet(traces)
    /\ \A r \in traces : r.id < nextTrace
    /\ stage = StageOf(trace.number, trace.status, stage.index)
    /\ ~crossed => \A r \in traces : r.bet = lastAsked
    /\ ~crossed /\ traces = {} => trace.bet = lastAsked

\* The six stages of a trace have statuses that a stage card knows.
LEMMA StageType ==
    ASSUME NEW n \in 0..MaxTraces, NEW s \in Persisted, NEW i \in 1..6
    PROVE  StageOf(n, s, i) \in [of : 0..MaxTraces, index : 1..6,
                  status : {"COMPLETED", "ACCEPTED", "REJECTED", "ACTIVE", "SETTLED"}]
  BY DEF StageOf, Stages, Persisted, Settled

LEMMA SyntheticType == ASSUME NEW s PROVE Synthetic(s) \in Persisted
  BY DEF Synthetic, Persisted

\* A trace that is shown is shown with its first stage.
LEMMA ShowType ==
    ASSUME NEW n \in 0..MaxTraces, NEW b \in Bets, NEW s \in Persisted, Show(n, b, s)
    PROVE  /\ trace' \in [number : 0..MaxTraces, bet : Bets, status : Persisted]
           /\ stage' \in [of : 0..MaxTraces, index : 1..6,
                 status : {"COMPLETED", "ACCEPTED", "REJECTED", "ACTIVE", "SETTLED"}]
           /\ stage' = StageOf(trace'.number, trace'.status, stage'.index)
           /\ trace'.bet = b
<1>1. stage' = StageOf(n, s, 1) /\ trace' = [number |-> n, bet |-> b, status |-> s]
  BY DEF Show
<1>2. stage'.index = 1
  BY <1>1 DEF StageOf
<1>3. StageOf(n, s, 1) \in [of : 0..MaxTraces, index : 1..6,
                status : {"COMPLETED", "ACCEPTED", "REJECTED", "ACTIVE", "SETTLED"}]
  <2>1. 1 \in 1..6
    OBVIOUS
  <2> QED  BY <2>1, StageType
<1>4. trace'.number = n /\ trace'.bet = b /\ trace'.status = s
  BY <1>1
<1> QED  BY <1>1, <1>2, <1>3, <1>4

LEMMA TracingInitInv == TracingInit => TracingInv
<1> SUFFICES ASSUME TracingInit PROVE TracingInv
  OBVIOUS
<1>1. RecentTypeOK
  BY RecentAssumption DEF TracingInit, RecentInit, RecentTypeOK, Persisted
<1>2. TracingTypeOK
  <2>1. /\ 0 \in 0..MaxTraces /\ 1 \in 1..6 /\ 1 \in 1..(MaxTraces + 1)
        /\ Synthetic("accepted") \in Persisted
        /\ SampleOf["accepted"] \in Bets
    BY TracingAssumption, SyntheticType DEF Scenarios
  <2>2. stage \in [of : 0..MaxTraces, index : 1..6,
              status : {"COMPLETED", "ACCEPTED", "REJECTED", "ACTIVE", "SETTLED"}]
    BY <2>1, StageType DEF TracingInit
  <2> QED  BY <2>1, <2>2 DEF TracingInit, TracingTypeOK
<1>3. stage = StageOf(trace.number, trace.status, stage.index)
  BY DEF TracingInit, StageOf
<1> QED  BY <1>1, <1>2, <1>3, FS_EmptySet DEF TracingInit, TracingInv

\* Asking for b: what was under way makes the question a crossed one.
LEMMA AskedInv ==
    ASSUME TracingInv, NEW b \in Bets, Asked(b)
    PROVE  /\ nextTrace \in 1..MaxTraces /\ nextTrace' \in 1..(MaxTraces + 1)
           /\ nextTrace' = nextTrace + 1
           /\ lastAsked' = b
           /\ crossed' \in BOOLEAN
           /\ ~crossed' => traces = {}
<1>1. nextTrace \in 1..(MaxTraces + 1) /\ nextTrace <= MaxTraces /\ MaxTraces \in Nat
  BY TracingAssumption DEF Asked, TracingInv, TracingTypeOK
<1>2. crossed' = (crossed \/ traces # {})
  BY DEF Asked
<1>3. crossed' \in BOOLEAN /\ (~crossed' => traces = {})
  BY <1>2, Zenon
<1> QED  BY <1>1, <1>3 DEF Asked

LEMMA TraceBetInv ==
    ASSUME TracingInv, NEW b \in Bets, traceBet(b)
    PROVE  TracingInv'
<1> DEFINE r == [id |-> nextTrace, bet |-> b]
<1>1. /\ Asked(b)
      /\ traces' = traces \cup {r}
      /\ loading' = TRUE
      /\ UNCHANGED <<bets, trace, stage, recentVars>>
  BY DEF traceBet
<1>2. IsFiniteSet(traces') /\ traces' \subseteq [id : 1..MaxTraces, bet : Bets]
  <2>1. r \in [id : 1..MaxTraces, bet : Bets]
    BY <1>1, AskedInv
  <2>2. IsFiniteSet(traces \cup {r})
    BY FS_AddElement DEF TracingInv
  <2> QED  BY <1>1, <2>1, <2>2 DEF TracingInv, TracingTypeOK
<1>3. \A q \in traces' : q.id < nextTrace'
  BY <1>1, AskedInv DEF TracingInv, TracingTypeOK
<1>4. /\ ~crossed' => \A q \in traces' : q.bet = lastAsked'
      /\ traces' # {}
  <2>1. r.bet = b /\ lastAsked' = b /\ (~crossed' => traces = {})
    BY <1>1, AskedInv
  <2> QED  BY <1>1, <2>1
<1>5. RecentTypeOK'
  BY <1>1 DEF TracingInv, RecentTypeOK, recentVars
<1>6. TracingTypeOK'
  BY <1>1, <1>2, AskedInv DEF TracingInv, TracingTypeOK
<1>7. (stage = StageOf(trace.number, trace.status, stage.index))'
  BY <1>1 DEF TracingInv, StageOf
<1> QED  BY <1>2, <1>3, <1>4, <1>5, <1>6, <1>7 DEF TracingInv

LEMMA SampleInv ==
    ASSUME TracingInv, NEW s \in Scenarios, loadSampleTrace(s)
    PROVE  TracingInv'
<1> DEFINE b == SampleOf[s]
<1>0. b \in Bets
  BY TracingAssumption
<1>1. /\ Asked(b)
      /\ Show(nextTrace, b, Synthetic(s))
      /\ UNCHANGED <<bets, loading, traces, recentVars>>
  BY DEF loadSampleTrace
<1>2. nextTrace \in 0..MaxTraces
  BY <1>0, <1>1, AskedInv
<1>3. /\ trace' \in [number : 0..MaxTraces, bet : Bets, status : Persisted]
      /\ stage' \in [of : 0..MaxTraces, index : 1..6,
            status : {"COMPLETED", "ACCEPTED", "REJECTED", "ACTIVE", "SETTLED"}]
      /\ stage' = StageOf(trace'.number, trace'.status, stage'.index)
      /\ trace'.bet = b
  BY <1>0, <1>1, <1>2, ShowType, SyntheticType
<1>4. RecentTypeOK'
  BY <1>1 DEF TracingInv, RecentTypeOK, recentVars
<1>5. TracingTypeOK'
  BY <1>1, <1>3, AskedInv DEF TracingInv, TracingTypeOK
<1>6. \A q \in traces' : q.id < nextTrace'
  BY <1>0, <1>1, <1>3, AskedInv DEF TracingInv, TracingTypeOK
<1>7. (stage = StageOf(trace.number, trace.status, stage.index))'
  BY <1>3 DEF StageOf
<1> QED  BY <1>1, <1>3, <1>4, <1>5, <1>6, <1>7, AskedInv DEF TracingInv

\* An answer of either kind shows the bet that was asked for.
LEMMA TraceAnsweredInv ==
    ASSUME TracingInv, NEW r \in traces, TraceFound(r) \/ TraceInvented(r)
    PROVE  TracingInv'
<1>1. PICK s \in Persisted : Show(r.id, r.bet, s)
  BY SyntheticType DEF TraceFound, TraceInvented
<1>2. Answered(r)
  BY DEF TraceFound, TraceInvented
<1>3. r.id \in 0..MaxTraces /\ r.bet \in Bets
  BY DEF TracingInv, TracingTypeOK
<1>4. /\ trace' \in [number : 0..MaxTraces, bet : Bets, status : Persisted]
      /\ stage' \in [of : 0..MaxTraces, index : 1..6,
            status : {"COMPLETED", "ACCEPTED", "REJECTED", "ACTIVE", "SETTLED"}]
      /\ stage' = StageOf(trace'.number, trace'.status, stage'.index)
      /\ trace'.bet = r.bet
  BY <1>1, <1>3, ShowType
<1>5. RecentTypeOK'
  BY <1>2 DEF Answered, TracingInv, RecentTypeOK, recentVars
<1>6. TracingTypeOK'
  BY <1>2, <1>4 DEF Answered, TracingInv, TracingTypeOK
<1>7. IsFiniteSet(traces')
  BY <1>2, FS_RemoveElement DEF Answered, TracingInv
<1>8. (stage = StageOf(trace.number, trace.status, stage.index))'
  BY <1>4 DEF StageOf
<1> QED  BY <1>2, <1>4, <1>5, <1>6, <1>7, <1>8 DEF Answered, TracingInv

LEMMA StageInv ==
    ASSUME TracingInv, NEW i \in 1..6, selectStage(i)
    PROVE  TracingInv'
<1>1. stage' = StageOf(trace.number, trace.status, i)
  BY DEF selectStage
<1>2. stage'.index = i
  BY <1>1 DEF StageOf
<1>3. TracingTypeOK'
  <2>1. trace.number \in 0..MaxTraces /\ trace.status \in Persisted
    BY DEF TracingInv, TracingTypeOK
  <2>2. stage' \in [of : 0..MaxTraces, index : 1..6,
              status : {"COMPLETED", "ACCEPTED", "REJECTED", "ACTIVE", "SETTLED"}]
    BY <1>1, <2>1, StageType
  <2> QED  BY <2>2 DEF selectStage, TracingInv, TracingTypeOK
<1>4. RecentTypeOK'
  BY DEF selectStage, TracingInv, RecentTypeOK, recentVars
<1>5. (stage = StageOf(trace.number, trace.status, stage.index))'
  BY <1>1, <1>2 DEF selectStage, StageOf
<1> QED  BY <1>3, <1>4, <1>5 DEF selectStage, TracingInv

\* Neither the list of recent bets nor the bets table moves the trace shown.
LEMMA RecentStays ==
    ASSUME TracingInv,
           \/ (fetchRecentBets \/ RecentAnswered) /\ UNCHANGED <<bets, tracerVars>>
           \/ \E b \in Bets : Persist(b) /\ UNCHANGED tracerVars
           \/ SettleSome /\ UNCHANGED tracerVars
    PROVE  TracingInv'
<1>1. UNCHANGED tracerVars
  OBVIOUS
<1>2. RecentTypeOK'
  <2>1. CASE fetchRecentBets /\ UNCHANGED bets
    BY <2>1, RecentAssumption DEF fetchRecentBets, TracingInv, RecentTypeOK
  <2>2. CASE RecentAnswered /\ UNCHANGED bets
    BY <2>2, RecentAssumption DEF RecentAnswered, TracingInv, RecentTypeOK
  <2>3. CASE \E b \in Bets : Persist(b)
    BY <2>3 DEF Persist, TracingInv, RecentTypeOK, recentVars, Persisted
  <2>4. CASE SettleSome
    BY <2>4 DEF SettleSome, TracingInv, RecentTypeOK, recentVars, Persisted
  <2> QED  BY <2>1, <2>2, <2>3, <2>4
<1>3. TracingTypeOK'
  BY <1>1 DEF tracerVars, TracingInv, TracingTypeOK
<1>4. (stage = StageOf(trace.number, trace.status, stage.index))'
  BY <1>1 DEF tracerVars, TracingInv, StageOf
<1> QED  BY <1>1, <1>2, <1>3, <1>4 DEF tracerVars, TracingInv

\* The page is loaded again: the sample trace, and no request under way.
LEMMA ReloadTracerInv == ASSUME TracingInv, ReloadTracer PROVE TracingInv'
<1>1. SampleOf["accepted"] \in Bets /\ Synthetic("accepted") \in Persisted
  BY TracingAssumption, SyntheticType DEF Scenarios
<1>2. 0 \in 0..MaxTraces
  BY TracingAssumption
<1>3. /\ trace' \in [number : 0..MaxTraces, bet : Bets, status : Persisted]
      /\ stage' \in [of : 0..MaxTraces, index : 1..6,
            status : {"COMPLETED", "ACCEPTED", "REJECTED", "ACTIVE", "SETTLED"}]
      /\ stage' = StageOf(trace'.number, trace'.status, stage'.index)
      /\ trace'.bet = SampleOf["accepted"]
  BY <1>1, <1>2, ShowType DEF ReloadTracer
<1>4. RecentTypeOK'
  BY RecentAssumption DEF ReloadTracer, ReloadRecent, TracingInv, RecentTypeOK
<1>5. TracingTypeOK'
  BY <1>1, <1>3 DEF ReloadTracer, TracingInv, TracingTypeOK
<1>6. (stage = StageOf(trace.number, trace.status, stage.index))'
  BY <1>3 DEF StageOf
<1> QED  BY <1>3, <1>4, <1>5, <1>6, FS_EmptySet DEF ReloadTracer, TracingInv

LEMMA TracingStepInv == TracingInv /\ [TracingNext]_tracingVars => TracingInv'
<1> SUFFICES ASSUME TracingInv, [TracingNext]_tracingVars PROVE TracingInv'
  OBVIOUS
<1>1. CASE (\E b \in Bets : onSearch(b)) \/ (\E b \in Bets : selectRecentBet(b))
  BY <1>1, TraceBetInv DEF onSearch, selectRecentBet
<1>2. CASE selectScenario
  BY <1>2, SampleInv DEF selectScenario
<1>3. CASE onSelectStage
  <2>1. PICK i \in 1..Len(Stages(trace.status)) : selectStage(i)
    BY <1>3 DEF onSelectStage
  <2>2. i \in 1..6
    BY DEF Stages
  <2> QED  BY <2>1, <2>2, StageInv
<1>4. CASE (\E r \in traces : TraceFound(r)) \/ (\E r \in traces : TraceInvented(r))
  BY <1>4, TraceAnsweredInv
<1>5. CASE \/ (fetchRecentBets \/ RecentAnswered) /\ UNCHANGED <<bets, tracerVars>>
           \/ \E b \in Bets : Persist(b) /\ UNCHANGED tracerVars
           \/ SettleSome /\ UNCHANGED tracerVars
  BY <1>5, RecentStays
<1>6. CASE UNCHANGED tracingVars
  <2>1. RecentTypeOK' /\ TracingTypeOK'
    BY <1>6 DEF tracingVars, tracerVars, recentVars, TracingInv, RecentTypeOK, TracingTypeOK
  <2>2. (stage = StageOf(trace.number, trace.status, stage.index))'
    BY <1>6 DEF tracingVars, tracerVars, TracingInv, StageOf
  <2> QED  BY <1>6, <2>1, <2>2 DEF tracingVars, tracerVars, TracingInv
<1> QED  BY <1>1, <1>2, <1>3, <1>4, <1>5, <1>6, ReloadTracerInv DEF TracingNext, TracerStep

\* The tracer's invariant holds in every reachable state.
THEOREM TracingInvariance == TracingSafety => []TracingInv
  BY TracingInitInv, TracingStepInv, PTL DEF TracingSafety

\* The stage inspected is of the trace shown (tracing.service.ts:90-95,
\* 103-115), and that is the trace asked for last unless requests crossed.
THEOREM TraceShownIsAsked == TracingSafety => []ShownTraceIsLastAsked
<1>1. TracingInv => ShownTraceIsLastAsked
  BY DEF TracingInv, ShownTraceIsLastAsked
<1> QED  BY <1>1, TracingInvariance, PTL

\* No stage outside the six of a trace, no status a card does not know.
THEOREM TracingTypeCorrect == TracingSafety => [](RecentTypeOK /\ TracingTypeOK)
<1>1. TracingInv => RecentTypeOK /\ TracingTypeOK
  BY DEF TracingInv
<1> QED  BY <1>1, TracingInvariance, PTL

\* "Tracing..." is a working indicator (tracing.service.ts:77-95): every step
\* of the tracer is one of RequestIndicator or leaves it alone.
THEOREM TracerImplementsIndicator == TracingSafety => Searching!Safety
<1> USE DEF Searching!Init, Searching!Next, Searching!Send, Searching!Answer,
            Searching!Restart, Searching!indicator
<1>1. TracingInit => Searching!Init
  BY FS_EmptySet DEF TracingInit
<1>2. TracingInv /\ [TracingNext]_tracingVars => [Searching!Next]_Searching!indicator
  <2> SUFFICES ASSUME TracingInv, [TracingNext]_tracingVars
               PROVE  [Searching!Next]_Searching!indicator
    OBVIOUS
  <2>1. ASSUME NEW b \in Bets, traceBet(b) PROVE Searching!Send
    <3>1. [id |-> nextTrace, bet |-> b] \notin traces
      BY DEF TracingInv, TracingTypeOK
    <3>2. Cardinality(traces') = Cardinality(traces) + 1
      BY <2>1, <3>1, FS_AddElement DEF traceBet, TracingInv
    <3> QED  BY <2>1, <3>2 DEF traceBet
  <2>2. ASSUME NEW r \in traces, Answered(r) PROVE Searching!Answer
    <3>1. Cardinality(traces') = Cardinality(traces) - 1
      BY <2>2, FS_RemoveElement DEF Answered, TracingInv
    <3>2. Cardinality(traces) \in Nat /\ Cardinality(traces) # 0
      BY FS_CardinalityType, FS_EmptySet DEF TracingInv
    <3> QED  BY <2>2, <3>1, <3>2 DEF Answered
  <2>3. CASE \/ selectScenario \/ onSelectStage
             \/ (fetchRecentBets \/ RecentAnswered) /\ UNCHANGED <<bets, tracerVars>>
             \/ \E b \in Bets : Persist(b) /\ UNCHANGED tracerVars
             \/ SettleSome /\ UNCHANGED tracerVars
             \/ UNCHANGED tracingVars
    <3>1. UNCHANGED <<loading, traces>>
      BY <2>3 DEF selectScenario, loadSampleTrace, onSelectStage, selectStage, tracerVars,
                  tracingVars
    <3> QED  BY <3>1
  <2>4. CASE ReloadTracer
    BY <2>4, FS_EmptySet DEF ReloadTracer
  <2> QED  BY <2>1, <2>2, <2>3, <2>4 DEF TracingNext, TracerStep, onSearch, selectRecentBet,
                                        TraceFound, TraceInvented
<1> QED  BY <1>1, <1>2, TracingInvariance, PTL DEF TracingSafety, Searching!Safety

--------------------------------------------------------------------------------
(* SystemStatus.  switchMap leaves at most the last poll to be answered.    *)

StatusInv ==
    /\ StatusTypeOK
    /\ polls \subseteq {nextPoll - 1}
    /\ health.poll < nextPoll

LEMMA StatusStepInv == StatusInv /\ [StatusNext]_statusVars => StatusInv'
<1> SUFFICES ASSUME StatusInv, [StatusNext]_statusVars PROVE StatusInv'
  OBVIOUS
<1> USE MaxPollsAssumption DEF StatusInv, StatusTypeOK
<1>1. CASE pollHealth
  BY <1>1 DEF pollHealth
<1>2. CASE \E p \in polls : HealthAnswered(p)
  BY <1>2 DEF HealthAnswered, ConnectionHealth
<1>3. CASE BackendChanges
  BY <1>3 DEF BackendChanges
<1>4. CASE ReloadStatus
  BY <1>4 DEF ReloadStatus, Seed, ConnectionHealth
<1>5. CASE UNCHANGED statusVars
  BY <1>5 DEF statusVars
<1> QED  BY <1>1, <1>2, <1>3, <1>4, <1>5 DEF StatusNext, StatusStep

\* The status bar's invariant holds in every reachable state.
THEOREM StatusInvariance == StatusSpec => []StatusInv
<1>1. StatusInit => StatusInv
  BY MaxPollsAssumption DEF StatusInit, StatusInv, StatusTypeOK, Seed, ConnectionHealth
<1> QED  BY <1>1, StatusStepInv, PTL DEF StatusSpec

\* The status bar shows a status it knows, of a poll it sent.
THEOREM StatusTypeCorrect == StatusSpec => []StatusTypeOK
<1>1. StatusInv => StatusTypeOK
  BY DEF StatusInv
<1> QED  BY <1>1, StatusInvariance, PTL

\* The health shown never goes back to an earlier poll's
\* (system-status.service.ts:106-112).
THEOREM HealthMovesOn == StatusSpec => HealthNeverGoesBack
<1>1. StatusInv /\ [StatusNext]_statusVars
        => [health'.poll >= health.poll \/ health' = Seed]_statusVars
  BY DEF StatusInv, StatusTypeOK, StatusNext, StatusStep, pollHealth, HealthAnswered,
         BackendChanges, ReloadStatus, statusVars
<1> QED  BY <1>1, StatusInvariance, PTL DEF StatusSpec, HealthNeverGoesBack

--------------------------------------------------------------------------------
(* Benchmark.                                                               *)

\* One interval while the simulation is shown as active and none while it is
\* paused (benchmark.service.ts:72-95), and windows of bounded length.
THEOREM SimulationRunsOnce == BenchSafety => []OneSimulation
<1> DEFINE Flags == isSimulating \in BOOLEAN /\ loadingFigures \in BOOLEAN
           Counts == /\ timers = IF isSimulating THEN 1 ELSE 0
                     /\ chartHistory \in FirstPoints..HistoryMax
                     /\ liveSamples \in 0..SamplesMax
                     /\ reloads \in 0..MaxReloads
<1>1. BenchInit => Flags /\ Counts
  <2> SUFFICES ASSUME BenchInit PROVE Flags /\ Counts
    OBVIOUS
  <2>1. Flags
    BY DEF BenchInit
  <2>2. Counts
    BY MaxReloadsAssumption DEF BenchInit, FirstPoints, HistoryMax, SamplesMax
  <2> QED  BY <2>1, <2>2
<1>2. Flags /\ Counts /\ [BenchNext]_benchVars => Flags' /\ Counts'
  <2> SUFFICES ASSUME Flags, Counts, [BenchNext]_benchVars PROVE Flags' /\ Counts'
    OBVIOUS
  <2>1. Flags'
    BY Zenon DEF BenchNext, BenchStep, ReloadBench, toggleSimulation, startSimulation, stopSimulation, tickSimulation,
                 fetchBenchmarkData, FiguresAnswered, benchVars
  <2>2. Counts'
    <3> USE MaxReloadsAssumption DEF FirstPoints, HistoryMax, SamplesMax
    <3>1. CASE startSimulation
      BY <3>1 DEF startSimulation
    <3>2. CASE stopSimulation
      BY <3>2 DEF stopSimulation
    <3>3. CASE tickSimulation
      BY <3>3 DEF tickSimulation
    <3>4. CASE fetchBenchmarkData \/ FiguresAnswered
      BY <3>4 DEF fetchBenchmarkData, FiguresAnswered
    <3>5. CASE UNCHANGED benchVars
      BY <3>5 DEF benchVars
    <3>6. CASE ReloadBench
      BY <3>6 DEF ReloadBench
    <3> QED  BY <3>1, <3>2, <3>3, <3>4, <3>5, <3>6 DEF BenchNext, BenchStep, toggleSimulation
  <2> QED  BY <2>1, <2>2
<1>3. Flags /\ Counts => OneSimulation
  BY DEF OneSimulation
<1> QED  BY <1>1, <1>2, <1>3, PTL DEF BenchSafety

\* The loading signal of the benchmark figures is a working indicator
\* (benchmark.service.ts:43-69): it starts with the request that the
\* constructor sends, and any answer lowers it.
THEOREM FiguresImplementIndicator == BenchSafety => Loading!Safety
<1> USE DEF Loading!Init, Loading!Next, Loading!Send, Loading!Answer,
            Loading!Restart, Loading!indicator
<1>1. BenchInit => Loading!Init
  BY DEF BenchInit
<1>2. [BenchNext]_benchVars => [Loading!Next]_Loading!indicator
  <2> SUFFICES ASSUME [BenchNext]_benchVars PROVE [Loading!Next]_Loading!indicator
    OBVIOUS
  <2>1. CASE toggleSimulation \/ tickSimulation
    BY <2>1 DEF toggleSimulation, startSimulation, stopSimulation, tickSimulation
  <2>2. CASE fetchBenchmarkData
    BY <2>2 DEF fetchBenchmarkData
  <2>3. CASE FiguresAnswered
    BY <2>3 DEF FiguresAnswered
  <2>4. CASE UNCHANGED benchVars
    BY <2>4 DEF benchVars
  <2>5. CASE ReloadBench
    BY <2>5 DEF ReloadBench
  <2> QED  BY <2>1, <2>2, <2>3, <2>4, <2>5 DEF BenchNext, BenchStep
<1> QED  BY <1>1, <1>2, PTL DEF BenchSafety, Loading!Safety

--------------------------------------------------------------------------------
(* The ids of the catalogue and the settlement panel.                       *)

\* A featured match's button never finds the live price it looks for
\* (hero-featured.component.ts:155-205): it always sends its preset odds.
THEOREM FeaturedIsNeverLive ==
    ASSUME NEW live \in SUBSET LiveViews, NEW m \in Match, NEW o \in Outcome
    PROVE  onSelectOdds(live, m, o) = {HeroView(m, o)}
<1>1. ASSUME NEW v \in LiveViews PROVE v.selection # <<m, o>>
  BY DEF LiveViews, LiveView
<1>2. getLiveSelection(live, m, <<m, o>>) = {}
  BY <1>1 DEF getLiveSelection
<1> QED  BY <1>2 DEF onSelectOdds

LiveBetsNotWon == \A b \in Bets : SelectionOf[b] \in LiveViews => bets[b] # "WON"

DeskInv ==
    /\ RecentTypeOK
    /\ PanelTypeOK
    /\ tab = "settlement" => panel # 0
    /\ IsFiniteSet(settles)
    /\ \A r \in settles : r.id < nextSettle /\ r.panel <= panel
    /\ \A r, q \in settles : r.id = q.id => r = q
    /\ LiveBetsNotWon

\* The request r of a panel, committed by the service or not.
SettleRequest(r) == r \in [id : 1..MaxSettles, panel : 1..MaxPanels,
                     button : Buttons, committed : BOOLEAN]

LEMMA DeskInitInv == DeskInit => DeskInv
<1> SUFFICES ASSUME DeskInit PROVE DeskInv
  OBVIOUS
<1> USE RecentAssumption, PanelAssumption DEF DeskInit, RecentInit, PanelInit
<1>1. RecentTypeOK /\ LiveBetsNotWon
  BY DEF RecentTypeOK, Persisted, LiveBetsNotWon
<1>2. PanelTypeOK
  <2>1. panel \in 0..MaxPanels /\ nextSettle \in 1..(MaxSettles + 1)
    OBVIOUS
  <2> QED  BY <2>1 DEF PanelTypeOK, Tabs
<1> QED  BY <1>1, <1>2, FS_EmptySet DEF DeskInv

\* A tab is shown; only the settlement tab shows a new panel.
LEMMA TabInv == ASSUME DeskInv, NEW t \in Tabs, setTab(t) PROVE DeskInv'
<1>1. RecentTypeOK'
  BY RecentAssumption DEF setTab, fetchRecentBets, DeskInv, RecentTypeOK, recentVars
<1>2. PanelTypeOK' /\ (tab' = "settlement" => panel' # 0)
  <2>1. CASE t = "settlement"
    <3>1. panel \in 0..MaxPanels /\ MaxPanels \in Nat /\ panel < MaxPanels /\ panel' = panel + 1
      BY <2>1, PanelAssumption DEF setTab, DeskInv, PanelTypeOK
    <3>2. panel' \in 0..MaxPanels /\ panel' # 0
      BY <3>1
    <3> QED  BY <2>1, <3>2 DEF setTab, DeskInv, PanelTypeOK
  <2>2. CASE t # "settlement"
    BY <2>2 DEF setTab, DeskInv, PanelTypeOK
  <2> QED  BY <2>1, <2>2
<1>3. \A r \in settles' : r.panel <= panel'
  BY PanelAssumption DEF setTab, DeskInv, PanelTypeOK
<1> QED  BY <1>1, <1>2, <1>3 DEF setTab, DeskInv, LiveBetsNotWon

LEMMA SettleInv == ASSUME DeskInv, NEW b \in Pressed, settleMatch(b) PROVE DeskInv'
<1> DEFINE r == [id |-> nextSettle, panel |-> panel, button |-> b, committed |-> FALSE]
<1>1. /\ nextSettle \in 1..MaxSettles /\ nextSettle' = nextSettle + 1
      /\ panel \in 1..MaxPanels
  BY PanelAssumption DEF settleMatch, DeskInv, PanelTypeOK
<1>2. SettleRequest(r)
  BY <1>1, PanelAssumption DEF SettleRequest
<1>3. PanelTypeOK'
  <2>1. nextSettle' \in 1..(MaxSettles + 1)
    BY <1>1, PanelAssumption
  <2>2. settles' \subseteq [id : 1..MaxSettles, panel : 1..MaxPanels,
                           button : Buttons, committed : BOOLEAN]
    BY <1>2 DEF settleMatch, DeskInv, PanelTypeOK, SettleRequest
  <2> QED  BY <2>1, <2>2 DEF settleMatch, DeskInv, PanelTypeOK
<1>4. IsFiniteSet(settles')
  BY FS_AddElement DEF settleMatch, DeskInv
<1>5. \A q \in settles' : q.id < nextSettle' /\ q.panel <= panel'
  BY <1>1 DEF settleMatch, DeskInv, PanelTypeOK
<1>6. \A p, q \in settles' : p.id = q.id => p = q
  <2>1. \A q \in settles : q.id # r.id
    BY <1>1 DEF DeskInv, PanelTypeOK
  <2> HIDE DEF r
  <2> QED  BY <2>1 DEF settleMatch, DeskInv, r
<1>7. RecentTypeOK' /\ LiveBetsNotWon'
  BY DEF settleMatch, DeskInv, RecentTypeOK, recentVars, LiveBetsNotWon
<1> QED  BY <1>1, <1>3, <1>4, <1>5, <1>6, <1>7 DEF settleMatch, DeskInv

\* A button's winner is a preset id, and no bet placed on a live tick has one.
LEMMA SettledByInv ==
    ASSUME DeskInv, NEW button \in Buttons, bets' = SettledBy(button), UNCHANGED recentVars
    PROVE  RecentTypeOK' /\ LiveBetsNotWon'
<1>1. RecentTypeOK'
  BY DEF SettledBy, DeskInv, RecentTypeOK, recentVars, Persisted, Settled
<1>2. ASSUME NEW b \in Bets, SelectionOf[b] \in LiveViews PROVE bets'[b] # "WON"
  <2>1. SelectionOf[b].selection # button.winning
    BY <1>2 DEF LiveViews, LiveView, Buttons, Button
  <2> QED  BY <1>2, <2>1 DEF SettledBy, DeskInv, LiveBetsNotWon
<1> QED  BY <1>1, <1>2 DEF LiveBetsNotWon

LEMMA CommitInv == ASSUME DeskInv, NEW r \in settles, Commit(r) PROVE DeskInv'
<1> DEFINE q == [r EXCEPT !.committed = TRUE]
<1>1. SettleRequest(r)
  BY DEF DeskInv, PanelTypeOK, SettleRequest
<1>2. SettleRequest(q) /\ q.id = r.id /\ q.panel = r.panel
  BY <1>1 DEF SettleRequest
<1>3. RecentTypeOK' /\ LiveBetsNotWon'
  BY <1>1, SettledByInv DEF Commit, SettleRequest
<1>4. PanelTypeOK'
  BY <1>2 DEF Commit, DeskInv, PanelTypeOK, SettleRequest
<1>5. IsFiniteSet(settles')
  BY FS_RemoveElement, FS_AddElement DEF Commit, DeskInv
<1>6. \A p1, p2 \in settles' : p1.id = p2.id => p1 = p2
  <2>1. \A p \in settles : p.id = q.id => p = r
    BY <1>2 DEF DeskInv
  <2> QED  BY <2>1 DEF Commit, DeskInv
<1>7. \A p \in settles' : p.id < nextSettle' /\ p.panel <= panel'
  BY <1>2 DEF Commit, DeskInv
<1> QED  BY <1>3, <1>4, <1>5, <1>6, <1>7 DEF Commit, DeskInv

LEMMA SettleLandedInv ==
    ASSUME DeskInv, NEW r \in settles, NEW result \in {"committed", "invented"},
           SettleLanded(r, result), fetchRecentBets \/ UNCHANGED recentVars
    PROVE  DeskInv'
<1>1. RecentTypeOK'
  BY RecentAssumption DEF SettleLanded, fetchRecentBets, DeskInv, RecentTypeOK, recentVars
<1>2. PanelTypeOK'
  BY DEF SettleLanded, DeskInv, PanelTypeOK
<1>3. IsFiniteSet(settles')
  BY FS_RemoveElement DEF SettleLanded, DeskInv
<1> QED  BY <1>1, <1>2, <1>3 DEF SettleLanded, DeskInv, LiveBetsNotWon

LEMMA DeskStepInv == DeskInv /\ [DeskNext]_deskVars => DeskInv'
<1> SUFFICES ASSUME DeskInv, [DeskNext]_deskVars PROVE DeskInv'
  OBVIOUS
<1>1. CASE (fetchRecentBets \/ RecentAnswered) /\ UNCHANGED <<bets, panelVars>>
  <2>1. RecentTypeOK'
    BY <1>1, RecentAssumption DEF fetchRecentBets, RecentAnswered, DeskInv, RecentTypeOK
  <2>2. PanelTypeOK'
    BY <1>1 DEF panelVars, DeskInv, PanelTypeOK
  <2> QED  BY <1>1, <2>1, <2>2 DEF panelVars, DeskInv, LiveBetsNotWon
<1>2. ASSUME NEW b \in Bets, Persist(b), UNCHANGED panelVars PROVE DeskInv'
  <2>1. RecentTypeOK' /\ LiveBetsNotWon'
    BY <1>2 DEF Persist, DeskInv, RecentTypeOK, recentVars, Persisted, LiveBetsNotWon
  <2>2. PanelTypeOK'
    BY <1>2 DEF panelVars, DeskInv, PanelTypeOK
  <2> QED  BY <1>2, <2>1, <2>2 DEF panelVars, DeskInv
<1>3. CASE UNCHANGED deskVars
  <2>1. RecentTypeOK' /\ LiveBetsNotWon'
    BY <1>3 DEF deskVars, DeskInv, RecentTypeOK, recentVars, LiveBetsNotWon
  <2>2. PanelTypeOK'
    BY <1>3 DEF deskVars, panelVars, DeskInv, PanelTypeOK
  <2> QED  BY <1>3, <2>1, <2>2 DEF deskVars, panelVars, DeskInv
<1>4. ASSUME NEW r \in settles, SettleAnswered(r) \/ SettleFailed(r) PROVE DeskInv'
  BY <1>4, SettleLandedInv DEF SettleAnswered, SettleFailed
<1>5. CASE CommitElsewhere
  <2>1. RecentTypeOK' /\ LiveBetsNotWon'
    BY <1>5, SettledByInv, PanelAssumption DEF CommitElsewhere
  <2>2. PanelTypeOK'
    BY <1>5 DEF CommitElsewhere, panelVars, DeskInv, PanelTypeOK
  <2> QED  BY <1>5, <2>1, <2>2 DEF CommitElsewhere, panelVars, DeskInv
<1>6. CASE ReloadDesk
  <2>1. RecentTypeOK' /\ LiveBetsNotWon'
    BY <1>6, RecentAssumption DEF ReloadDesk, ReloadRecent, DeskInv, RecentTypeOK, LiveBetsNotWon
  <2>2. PanelTypeOK'
    BY <1>6 DEF ReloadDesk, DeskInv, PanelTypeOK, Tabs
  <2> QED  BY <1>6, <2>1, <2>2, FS_EmptySet DEF ReloadDesk, DeskInv
<1> QED  BY <1>1, <1>2, <1>3, <1>4, <1>5, <1>6, TabInv, SettleInv, CommitInv DEF DeskNext, DeskStep

\* The desk's invariant holds in every reachable state.
THEOREM DeskInvariance == DeskSafety => []DeskInv
  BY DeskInitInv, DeskStepInv, PTL DEF DeskSafety

\* A request is always one of a panel that was shown.
THEOREM DeskTypeCorrect == DeskSafety => [](RecentTypeOK /\ PanelTypeOK)
<1>1. DeskInv => RecentTypeOK /\ PanelTypeOK
  BY DEF DeskInv
<1> QED  BY <1>1, DeskInvariance, PTL

\* A bet placed on a live tick never wins through the settlement panel: its
\* buttons name the winner by the preset ids (settlement-panel.component.ts:38-117).
THEOREM LiveBetsLose == DeskSafety => []LiveBetsNotWon
<1>1. DeskInv => LiveBetsNotWon
  BY DEF DeskInv
<1> QED  BY <1>1, DeskInvariance, PTL

\* The panel's disabled buttons are a working indicator
\* (settlement-panel.component.ts:141-172), also for a panel shown anew.
THEOREM PanelImplementsIndicator == DeskSafety => Settling!Safety
<1> DEFINE Mine == {r \in settles : r.panel = panel}
<1> USE DEF Settling!Init, Settling!Next, Settling!Send, Settling!Answer,
            Settling!Restart, Settling!indicator
<1>1. DeskInit => Settling!Init
  BY FS_EmptySet DEF DeskInit, PanelInit
<1>2. DeskInv => IsFiniteSet(Mine) /\ Cardinality(Mine) \in Nat
  BY FS_Subset, FS_CardinalityType DEF DeskInv
<1>3. ASSUME DeskInv, NEW t \in Tabs, setTab(t)
      PROVE  Settling!Restart \/ UNCHANGED <<isSettling, Mine>>
  <2>1. CASE t = "settlement"
    <3>1. Mine' = {}
      BY <1>3, <2>1 DEF setTab, DeskInv, PanelTypeOK
    <3> QED  BY <1>3, <2>1, <3>1, FS_EmptySet DEF setTab
  <2>2. CASE t # "settlement"
    BY <1>3, <2>2 DEF setTab
  <2> QED  BY <2>1, <2>2
<1>4. ASSUME DeskInv, NEW b \in Pressed, settleMatch(b) PROVE Settling!Send
  <2> DEFINE r == [id |-> nextSettle, panel |-> panel, button |-> b, committed |-> FALSE]
  <2>1. Mine' = Mine \cup {r} /\ r \notin Mine
    BY <1>4 DEF settleMatch, DeskInv, PanelTypeOK
  <2>2. Cardinality(Mine') = Cardinality(Mine) + 1
    <3>1. IsFiniteSet(Mine)
      BY <1>2, <1>4
    <3> HIDE DEF Mine, r
    <3>2. Cardinality(Mine \cup {r}) = Cardinality(Mine) + 1
      BY <2>1, <3>1, FS_AddElement
    <3> QED  BY <2>1, <3>2
  <2> QED  BY <1>4, <2>2 DEF settleMatch
<1>5. ASSUME DeskInv, NEW r \in settles, Commit(r)
      PROVE  UNCHANGED <<isSettling, Cardinality(Mine)>>
  <2> DEFINE q == [r EXCEPT !.committed = TRUE]
  <2>1. SettleRequest(r) /\ ~r.committed
    BY <1>5 DEF Commit, DeskInv, PanelTypeOK, SettleRequest
  <2>2. q.id = r.id /\ q.panel = r.panel /\ q.committed
    BY <2>1 DEF SettleRequest
  <2>3. CASE r.panel = panel
    <3>1. Mine' = (Mine \ {r}) \cup {q}
      BY <1>5, <2>2, <2>3 DEF Commit
    <3>2. CASE q \in Mine
      <4>1. q \in settles /\ q.id = r.id
        BY <2>2, <3>2
      <4>2. q = r
        BY <4>1, <1>5 DEF DeskInv
      <4>3. r.committed
        BY <4>2, <2>2
      <4> QED  BY <4>3, <2>1
    <3>3. CASE q \notin Mine
      <4>1. /\ IsFiniteSet(Mine \ {r})
            /\ Cardinality(Mine \ {r}) = Cardinality(Mine) - 1
        BY <1>2, <1>5, <2>3, FS_RemoveElement
      <4>2. q \notin Mine \ {r}
        BY <3>3
      <4>3. Cardinality(Mine') = Cardinality(Mine) - 1 + 1
        BY <3>1, <4>1, <4>2, FS_AddElement
      <4> QED  BY <1>2, <1>5, <4>3 DEF Commit
    <3> QED  BY <3>2, <3>3
  <2>4. CASE r.panel # panel
    <3>1. Mine' = Mine
      BY <1>5, <2>2, <2>4 DEF Commit
    <3> QED  BY <1>5, <3>1 DEF Commit
  <2> QED  BY <2>3, <2>4
<1>6. ASSUME DeskInv, NEW r \in settles, NEW result, SettleLanded(r, result)
      PROVE  Settling!Answer \/ UNCHANGED <<isSettling, Mine>>
  <2>1. CASE r.panel = panel
    <3>1. Mine' = Mine \ {r}
      BY <1>6 DEF SettleLanded
    <3>2. r \in Mine /\ IsFiniteSet(Mine)
      BY <1>2, <1>6, <2>1
    <3>3. Cardinality(Mine') = Cardinality(Mine) - 1 /\ Cardinality(Mine) # 0
      <4> HIDE DEF Mine
      <4> QED  BY <3>1, <3>2, FS_RemoveElement, FS_EmptySet
    <3> QED  BY <1>2, <1>6, <2>1, <3>3 DEF SettleLanded
  <2>2. CASE r.panel # panel
    BY <1>6, <2>2 DEF SettleLanded
  <2> QED  BY <2>1, <2>2
<1>7. ASSUME UNCHANGED panelVars PROVE UNCHANGED <<isSettling, Mine>>
  BY <1>7 DEF panelVars
<1>8. ASSUME ReloadDesk PROVE Settling!Restart
  <2>1. Mine' = {}
    BY <1>8 DEF ReloadDesk
  <2> QED  BY <1>8, <2>1, FS_EmptySet DEF ReloadDesk
<1>9. DeskInv /\ [DeskNext]_deskVars => [Settling!Next]_Settling!indicator
  BY <1>3, <1>4, <1>5, <1>6, <1>7, <1>8
     DEF DeskNext, DeskStep, CommitElsewhere, deskVars, Persist, SettleAnswered, SettleFailed
<1> QED  BY <1>1, <1>9, DeskInvariance, PTL DEF DeskSafety, Settling!Safety

--------------------------------------------------------------------------------
(* The whole application.  A step of one part is a step of every other part *)
(* or leaves its variables alone, and loading the page is a reload of each: *)
(* whatever is proved of a part holds of the application.                   *)

\* What a settlement does to the bets is all the tracer has to know of it.
LEMMA SettledBySome ==
    ASSUME TracingInv, NEW button, bets' = SettledBy(button), UNCHANGED recentVars
    PROVE  SettleSome
<1> DEFINE S == {b \in Bets : bets[b] = "ACCEPTED" /\ SelectionOf[b].match = button.match}
           won(b) == SelectionOf[b].selection = button.winning
           outcome == [b \in S |-> IF won(b) THEN "WON" ELSE "LOST"]
<1>1. S \in SUBSET {b \in Bets : bets[b] = "ACCEPTED"}
  OBVIOUS
<1>2. outcome \in [S -> Settled]
  BY DEF Settled
<1>3. bets' = [b \in Bets |-> IF b \in S THEN outcome[b] ELSE bets[b]]
  BY DEF SettledBy
<1> QED  BY <1>1, <1>2, <1>3 DEF SettleSome

LEMMA SigningOfFrontend == [FrontendNext]_frontendVars => [SessionNext]_signingVars
  BY DEF FrontendNext, frontendVars, notSlip, notFeed, notStatus, notTracer, notDesk, notBench,
         notSession, ReloadFrontend, SessionNext, signingVars, bettingVars

LEMMA BettingOfFrontend ==
    SessionInv /\ [FrontendNext]_frontendVars => [BettingNext]_bettingVars
<1> SUFFICES ASSUME SessionInv, [FrontendNext]_frontendVars PROVE [BettingNext]_bettingVars
  OBVIOUS
<1>1. AccountNext \/ UNCHANGED account
  BY SigningOfFrontend, AccountStep
<1>2. CASE SlipStep /\ UNCHANGED notSlip
  BY <1>2 DEF notSlip, BettingNext
<1>3. CASE SessionStep /\ UNCHANGED notSession
  BY <1>1, <1>3 DEF notSession, BettingNext, bettingVars
<1>4. CASE ReloadFrontend
  BY <1>1, <1>4 DEF ReloadFrontend, BettingNext
<1>5. CASE UNCHANGED bettingVars
  BY <1>5
<1> QED  BY <1>2, <1>3, <1>4, <1>5
         DEF FrontendNext, frontendVars, notFeed, notStatus, notTracer, notDesk, notBench

LEMMA FeedOfFrontend == [FrontendNext]_frontendVars => [FeedNext]_feedVars
  BY DEF FrontendNext, frontendVars, notSlip, notSession, notStatus, notTracer, notDesk, notBench,
         notFeed, ReloadFrontend, FeedNext

LEMMA StatusOfFrontend == [FrontendNext]_frontendVars => [StatusNext]_statusVars
  BY DEF FrontendNext, frontendVars, notSlip, notSession, notFeed, notTracer, notDesk, notBench,
         notStatus, ReloadFrontend, StatusNext

LEMMA BenchOfFrontend == [FrontendNext]_frontendVars => [BenchNext]_benchVars
  BY DEF FrontendNext, frontendVars, notSlip, notSession, notFeed, notStatus, notTracer, notDesk,
         notBench, ReloadFrontend, BenchNext

\* The desk fetches the recent bets, persists and settles bets, or leaves the
\* tracer's variables alone.
LEMMA TracingOfFrontend ==
    TracingInv /\ [FrontendNext]_frontendVars => [TracingNext]_tracingVars
<1> SUFFICES ASSUME TracingInv, [FrontendNext]_frontendVars PROVE [TracingNext]_tracingVars
  OBVIOUS
<1>1. CASE TracerStep \/ ReloadFrontend
  BY <1>1 DEF ReloadFrontend, TracingNext
<1>2. CASE DeskStep /\ UNCHANGED notDesk
  <2>1. UNCHANGED tracerVars
    BY <1>2 DEF notDesk
  <2>2. CASE (fetchRecentBets \/ RecentAnswered) /\ UNCHANGED <<bets, panelVars>>
    BY <2>1, <2>2 DEF TracingNext, TracerStep
  <2>3. CASE \E b \in Bets : Persist(b) /\ UNCHANGED panelVars
    BY <2>1, <2>3 DEF TracingNext, TracerStep
  <2>4. ASSUME NEW t \in Tabs, setTab(t) PROVE [TracingNext]_tracingVars
    BY <2>1, <2>4 DEF setTab, TracingNext, TracerStep, tracingVars
  <2>5. CASE \E b \in Pressed : settleMatch(b)
    BY <2>1, <2>5 DEF settleMatch, tracingVars
  <2>6. CASE (\E r \in settles : Commit(r)) \/ CommitElsewhere
    BY <2>1, <2>6, SettledBySome DEF Commit, CommitElsewhere, TracingNext
  <2>7. ASSUME NEW r \in settles, SettleAnswered(r) \/ SettleFailed(r)
        PROVE  [TracingNext]_tracingVars
    BY <2>1, <2>7 DEF SettleAnswered, SettleFailed, SettleLanded, TracingNext, TracerStep,
                      tracingVars
  <2> QED  BY <1>2, <2>2, <2>3, <2>4, <2>5, <2>6, <2>7 DEF DeskStep
<1>3. CASE UNCHANGED tracingVars
  BY <1>3
<1> QED  BY <1>1, <1>2, <1>3 DEF FrontendNext, frontendVars, notSlip, notSession, notFeed,
                                 notStatus, notBench, tracingVars

\* The tracer's own steps leave the bets and their list alone.
LEMMA DeskOfFrontend == [FrontendNext]_frontendVars => [DeskNext]_deskVars
<1> SUFFICES ASSUME [FrontendNext]_frontendVars PROVE [DeskNext]_deskVars
  OBVIOUS
<1>1. CASE DeskStep \/ ReloadFrontend
  BY <1>1 DEF ReloadFrontend, DeskNext
<1>2. CASE TracerStep /\ UNCHANGED notTracer
  <2>1. UNCHANGED panelVars
    BY <1>2 DEF notTracer
  <2>2. CASE (fetchRecentBets \/ RecentAnswered) /\ UNCHANGED <<bets, tracerVars>>
    BY <2>1, <2>2 DEF DeskNext, DeskStep
  <2>3. CASE \E b \in Bets : Persist(b) /\ UNCHANGED tracerVars
    BY <2>1, <2>3 DEF DeskNext, DeskStep
  <2>4. CASE \/ \E b \in Bets : onSearch(b) \/ selectRecentBet(b)
             \/ selectScenario \/ onSelectStage
             \/ \E r \in traces : TraceFound(r) \/ TraceInvented(r)
    BY <2>1, <2>4 DEF onSearch, selectRecentBet, traceBet, selectScenario, loadSampleTrace,
                      onSelectStage, selectStage, TraceFound, TraceInvented, Answered, deskVars
  <2> QED  BY <1>2, <2>2, <2>3, <2>4 DEF TracerStep
<1>3. CASE UNCHANGED deskVars
  BY <1>3
<1> QED  BY <1>1, <1>2, <1>3 DEF FrontendNext, frontendVars, notSlip, notSession, notFeed,
                                 notStatus, notBench, tracingVars, deskVars

\* Every behaviour of the application is one of each of its parts.
THEOREM FrontendIsItsParts ==
    FrontendSpec => /\ SigningSafety /\ BettingSafety /\ FeedSafety /\ StatusSpec
                    /\ TracingSafety /\ DeskSafety /\ BenchSafety
<1>1. FrontendInit => /\ SigningInit /\ BettingInit /\ FeedInit /\ StatusInit
                      /\ TracingInit /\ DeskInit /\ BenchInit
  BY DEF FrontendInit, SigningInit, BettingInit, DeskInit, TracingInit
<1>2. FrontendSpec => SigningSafety
  BY <1>1, SigningOfFrontend, PTL DEF FrontendSpec, SigningSafety
<1>3. FrontendSpec => BettingSafety
  BY <1>1, <1>2, BettingOfFrontend, SessionInvariance, PTL DEF FrontendSpec, BettingSafety
<1>4. FrontendSpec => TracingSafety
  <2>1. FrontendSpec => []TracingInv
    <3>1. FrontendInit => TracingInv
      BY <1>1, TracingInitInv
    <3>2. TracingInv /\ [FrontendNext]_frontendVars => TracingInv'
      BY TracingOfFrontend, TracingStepInv
    <3> QED  BY <3>1, <3>2, PTL DEF FrontendSpec
  <2> QED  BY <1>1, <2>1, TracingOfFrontend, PTL DEF FrontendSpec, TracingSafety
<1>5. FrontendSpec => FeedSafety /\ StatusSpec /\ DeskSafety /\ BenchSafety
  BY <1>1, FeedOfFrontend, StatusOfFrontend, DeskOfFrontend, BenchOfFrontend, PTL
     DEF FrontendSpec, FeedSafety, StatusSpec, DeskSafety, BenchSafety
<1> QED  BY <1>2, <1>3, <1>4, <1>5

\* Every variable of the application has its type.
THEOREM FrontendTypeCorrect == FrontendSpec => []FrontendTypeOK
  BY FrontendIsItsParts, SessionTypeCorrect, SlipTypeCorrect, FeedTypeCorrect, StatusTypeCorrect,
     TracingTypeCorrect, DeskTypeCorrect, PTL DEF FrontendTypeOK

\* The promises the parts make each other are kept whatever the others do.
THEOREM FrontendPartsRefine == FrontendSpec => PartsRefine
  BY FrontendIsItsParts, SessionImplementsAccount, DialogImplementsIndicator,
     FormImplementsIndicator, SlipImplementsIndicator, TracerImplementsIndicator,
     PanelImplementsIndicator, FiguresImplementIndicator, PTL
     DEF PartsRefine, Loading!Safety, Loading!indicator

\* What is proved of the parts, of the application: in bet-slip.service.ts,
\* auth.service.ts, tracing.service.ts, settlement-panel.component.ts,
\* benchmark.service.ts, odds-websocket.service.ts, system-status.service.ts.
THEOREM FrontendIsSafe ==
    FrontendSpec => /\ []DoublePostNeedsLateAnswer /\ []TraceIsOfShownTicket
                    /\ []CookieIsOfShownAccount
                    /\ []ShownTraceIsLastAsked /\ []LiveBetsNotWon
                    /\ []OneSimulation
                    /\ OlderPriceNeedsRewind /\ HealthNeverGoesBack
  BY FrontendIsItsParts, NoDoublePost, TraceIsTaken, CookieMatches, TraceShownIsAsked,
     LiveBetsLose, SimulationRunsOnce, PricesMoveOn, HealthMovesOn

\* No label and no disabled button says that a request is under way when none
\* is: a component that raises its flag has sent, and one that loses its
\* requests has cleared it (RequestIndicator's promise, read at each state).
THEOREM LabelsMeanRequests ==
    FrontendSpec => []( /\ SigningIn!NeverStuck /\ FormBusy!NeverStuck /\ Placing!NeverStuck
                        /\ Searching!NeverStuck /\ Settling!NeverStuck /\ Loading!NeverStuck )
<1>1. SigningIn!Safety => [](SigningIn!NeverStuck)
  <2> DEFINE Up == modal.loading
             Under == Cardinality({r \in auths : r.form = "modal"})
             J == Under \in Nat /\ (Up => Under > 0)
  <2> USE DEF SigningIn!Init, SigningIn!Next, SigningIn!Send, SigningIn!Answer, SigningIn!Restart, SigningIn!indicator,
              SigningIn!NeverStuck
  <2>1. SigningIn!Init => J
    OBVIOUS
  <2>2. J /\ [SigningIn!Next]_(SigningIn!indicator) => J'
    OBVIOUS
  <2>3. J => SigningIn!NeverStuck
    OBVIOUS
  <2> HIDE DEF J
  <2> QED  BY <2>1, <2>2, <2>3, PTL DEF SigningIn!Safety
<1>2. FormBusy!Safety => [](FormBusy!NeverStuck)
  <2> DEFINE Up == formLoading
             Under == Cardinality({r \in auths : r.form = "page"})
             J == Under \in Nat /\ (Up => Under > 0)
  <2> USE DEF FormBusy!Init, FormBusy!Next, FormBusy!Send, FormBusy!Answer, FormBusy!Restart, FormBusy!indicator,
              FormBusy!NeverStuck
  <2>1. FormBusy!Init => J
    OBVIOUS
  <2>2. J /\ [FormBusy!Next]_(FormBusy!indicator) => J'
    OBVIOUS
  <2>3. J => FormBusy!NeverStuck
    OBVIOUS
  <2> HIDE DEF J
  <2> QED  BY <2>1, <2>2, <2>3, PTL DEF FormBusy!Safety
<1>3. Placing!Safety => [](Placing!NeverStuck)
  <2> DEFINE Up == slip.status = "PENDING"
             Under == Cardinality(posts)
             J == Under \in Nat /\ (Up => Under > 0)
  <2> USE DEF Placing!Init, Placing!Next, Placing!Send, Placing!Answer, Placing!Restart, Placing!indicator,
              Placing!NeverStuck
  <2>1. Placing!Init => J
    OBVIOUS
  <2>2. J /\ [Placing!Next]_(Placing!indicator) => J'
    OBVIOUS
  <2>3. J => Placing!NeverStuck
    OBVIOUS
  <2> HIDE DEF J
  <2> QED  BY <2>1, <2>2, <2>3, PTL DEF Placing!Safety
<1>4. Searching!Safety => [](Searching!NeverStuck)
  <2> DEFINE Up == loading
             Under == Cardinality(traces)
             J == Under \in Nat /\ (Up => Under > 0)
  <2> USE DEF Searching!Init, Searching!Next, Searching!Send, Searching!Answer, Searching!Restart, Searching!indicator,
              Searching!NeverStuck
  <2>1. Searching!Init => J
    OBVIOUS
  <2>2. J /\ [Searching!Next]_(Searching!indicator) => J'
    OBVIOUS
  <2>3. J => Searching!NeverStuck
    OBVIOUS
  <2> HIDE DEF J
  <2> QED  BY <2>1, <2>2, <2>3, PTL DEF Searching!Safety
<1>5. Settling!Safety => [](Settling!NeverStuck)
  <2> DEFINE Up == isSettling
             Under == Cardinality({r \in settles : r.panel = panel})
             J == Under \in Nat /\ (Up => Under > 0)
  <2> USE DEF Settling!Init, Settling!Next, Settling!Send, Settling!Answer, Settling!Restart, Settling!indicator,
              Settling!NeverStuck
  <2>1. Settling!Init => J
    OBVIOUS
  <2>2. J /\ [Settling!Next]_(Settling!indicator) => J'
    OBVIOUS
  <2>3. J => Settling!NeverStuck
    OBVIOUS
  <2> HIDE DEF J
  <2> QED  BY <2>1, <2>2, <2>3, PTL DEF Settling!Safety
<1>6. Loading!Safety => [](Loading!NeverStuck)
  <2> DEFINE Up == loadingFigures
             Under == reloads
             J == Under \in Nat /\ (Up => Under > 0)
  <2> USE DEF Loading!Init, Loading!Next, Loading!Send, Loading!Answer, Loading!Restart, Loading!indicator,
              Loading!NeverStuck
  <2>1. Loading!Init => J
    OBVIOUS
  <2>2. J /\ [Loading!Next]_(Loading!indicator) => J'
    OBVIOUS
  <2>3. J => Loading!NeverStuck
    OBVIOUS
  <2> HIDE DEF J
  <2> QED  BY <2>1, <2>2, <2>3, PTL DEF Loading!Safety
<1> QED  BY <1>1, <1>2, <1>3, <1>4, <1>5, <1>6, FrontendIsItsParts, DialogImplementsIndicator,
            FormImplementsIndicator, SlipImplementsIndicator, TracerImplementsIndicator,
            PanelImplementsIndicator, FiguresImplementIndicator, PTL

\* A bet is posted for the account the page shows: the slip's button looks at
\* the session and the browser sends the cookie, and Session keeps them
\* together (bet-slip.component.ts:102-132, auth.service.ts:54-137).
THEOREM PostsOfShownAccount == FrontendSpec => PostsAreOfShownAccount
<1>1. ASSUME SessionInv, SlipInv, [FrontendNext]_frontendVars, NEW p \in posts' \ posts,
             ~mixed, session # Nobody, \A r \in auths : ~r.answered
      PROVE  p.account \in {session, Nobody}
  <2>1. cookie \in {session, Nobody}
    BY <1>1 DEF SessionInv, CookieOK
  <2>2. submit
    <3>1. [BettingNext]_bettingVars
      BY <1>1, BettingOfFrontend
    <3>2. ~(SlipStep /\ ~submit)
      BY <1>1 DEF SlipStep, select, clear, updateStake, submit_bet, AnswerAccepted, AnswerFailed,
                  Landed
    <3> QED  BY <1>1, <3>1, <3>2 DEF BettingNext, ReloadSlip, slipVars, bettingVars
  <2>3. p.account = cookie
    BY <1>1, <2>2 DEF submit
  <2> QED  BY <2>1, <2>3
<1>2. SessionInv /\ SlipInv /\ [FrontendNext]_frontendVars
        => [\A p \in posts' \ posts :
               ~mixed /\ session # Nobody /\ (\A r \in auths : ~r.answered)
                   => p.account \in {session, Nobody}]_frontendVars
  BY <1>1
<1> QED  BY <1>2, FrontendIsItsParts, SessionInvariance, SlipInvariance, PTL
         DEF FrontendSpec, PostsAreOfShownAccount

================================================================================
