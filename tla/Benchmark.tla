------------------------------- MODULE Benchmark -------------------------------
(***************************************************************************)
(* The benchmark page: BenchmarkService's simulation, an interval that      *)
(* appends to two windows, and the request for the recorded figures.  The  *)
(* service is a singleton: leaving the page stops neither.                  *)
(***************************************************************************)
EXTENDS Naturals

CONSTANT MaxReloads   \* bound: requests for the figures under way at once

ASSUME MaxReloadsAssumption == MaxReloads \in Nat \ {0}

VARIABLES
    isSimulating,
    timers,          \* intervals that are alive
    chartHistory,    \* length of the chart's window
    liveSamples,     \* length of the list of samples
    loadingFigures,  \* the loading signal
    reloads          \* requests for the figures under way

benchVars == <<isSimulating, timers, chartHistory, liveSamples, loadingFigures, reloads>>

FirstPoints == 21
HistoryMax == 25
SamplesMax == 8

\* The constructor: initChartHistory, then fetchBenchmarkData.
BenchInit ==
    /\ isSimulating = FALSE
    /\ timers = 0
    /\ chartHistory = FirstPoints
    /\ liveSamples = 0
    /\ loadingFigures = TRUE
    /\ reloads = 1

startSimulation ==
    /\ ~isSimulating
    /\ isSimulating' = TRUE
    /\ timers' = timers + 1
    /\ UNCHANGED <<chartHistory, liveSamples, loadingFigures, reloads>>

\* Mutant: the flag is lowered and the interval is not cleared.
stopFlagOnly ==
    /\ isSimulating
    /\ timers < 3
    /\ isSimulating' = FALSE
    /\ UNCHANGED <<timers, chartHistory, liveSamples, loadingFigures, reloads>>

stopSimulation ==
    /\ isSimulating
    /\ isSimulating' = FALSE
    /\ timers' = timers - 1
    /\ UNCHANGED <<chartHistory, liveSamples, loadingFigures, reloads>>

toggleSimulation == startSimulation \/ stopSimulation

\* The oldest point is shifted out of a full chart; slice(0, 8).
tickSimulation ==
    /\ timers > 0
    /\ chartHistory' = IF chartHistory >= HistoryMax THEN chartHistory ELSE chartHistory + 1
    /\ liveSamples' = IF liveSamples >= SamplesMax THEN SamplesMax ELSE liveSamples + 1
    /\ UNCHANGED <<isSimulating, timers, loadingFigures, reloads>>

\* "Reload Asset", which a request under way does not disable.
fetchBenchmarkData ==
    /\ reloads < MaxReloads
    /\ reloads' = reloads + 1
    /\ loadingFigures' = TRUE
    /\ UNCHANGED <<isSimulating, timers, chartHistory, liveSamples>>

\* tap, or catchError with the default figures.
FiguresAnswered ==
    /\ reloads > 0
    /\ reloads' = reloads - 1
    /\ loadingFigures' = FALSE
    /\ UNCHANGED <<isSimulating, timers, chartHistory, liveSamples>>

\* The page is loaded again: a new BenchmarkService.
ReloadBench ==
    /\ isSimulating' = FALSE
    /\ timers' = 0
    /\ chartHistory' = FirstPoints
    /\ liveSamples' = 0
    /\ loadingFigures' = TRUE
    /\ reloads' = 1

BenchStep ==
    \/ toggleSimulation
    \/ tickSimulation
    \/ fetchBenchmarkData
    \/ FiguresAnswered

BenchNext == BenchStep \/ ReloadBench

BenchFairness == WF_benchVars(FiguresAnswered)
BenchSafety == BenchInit /\ [][BenchNext]_benchVars
BenchSpec == BenchSafety /\ BenchFairness

\* The simulation runs on one interval while it is shown as active and on none
\* while it is paused, and the windows keep their lengths: a second interval,
\* or one that outlives its pause, would double the rate for good.
OneSimulation ==
    /\ timers = IF isSimulating THEN 1 ELSE 0
    /\ chartHistory \in FirstPoints..HistoryMax
    /\ liveSamples \in 0..SamplesMax
    /\ loadingFigures \in BOOLEAN
    /\ reloads \in 0..MaxReloads

\* The loading signal refines the indicator, but for the request it starts with.
Loading == INSTANCE RequestIndicator WITH busy <- loadingFigures, open <- reloads
================================================================================
