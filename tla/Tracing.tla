-------------------------------- MODULE Tracing --------------------------------
(***************************************************************************)
(* The telemetry desk's tracer: TracingService, a singleton, and the       *)
(* pipeline tracer that shows it.  Searches, the chips of recent bets and   *)
(* the sample scenarios all write the one trace; a request is answered in   *)
(* any order and, when the trace endpoint refuses or cannot be reached, by  *)
(* an invented trace.                                                      *)
(***************************************************************************)
EXTENDS RecentBets

CONSTANTS
    SampleOf,     \* the bet of each sample scenario
    MaxTraces     \* bound: searches and scenarios in a behaviour

Scenarios == {"accepted", "stale", "saec"}

\* The fallback of the recent bets is the sample bets.
ASSUME TracingAssumption ==
    /\ SampleOf \in [Scenarios -> Bets]
    /\ DemoBets = {SampleOf[s] : s \in Scenarios}
    /\ MaxTraces \in Nat

VARIABLES
    trace,       \* currentTrace: number, bet and status
    stage,       \* selectedStage: of which trace, its index and status
    loading,     \* isLoading
    traces,      \* trace requests under way
    nextTrace,
    lastAsked,   \* ghost: the bet searched, chosen or sampled last
    crossed      \* ghost: asked while an earlier request was under way

tracerVars == <<trace, stage, loading, traces, nextTrace, lastAsked, crossed>>
tracingVars == <<bets, tracerVars, recentVars>>

\* The six stages of a trace, by the status of its bet: get_bet_trace, which
\* createSyntheticTrace imitates.
Stages(s) ==
    LET rejected == s = "REJECTED"
    IN <<"COMPLETED", "COMPLETED", IF rejected THEN "REJECTED" ELSE "ACCEPTED",
         "COMPLETED", "COMPLETED",
         IF s \in Settled THEN "SETTLED" ELSE IF rejected THEN "REJECTED" ELSE "ACTIVE">>

StageOf(n, s, i) == [of |-> n, index |-> i, status |-> Stages(s)[i]]

\* Mutant: the answer replaces the trace and keeps the selected stage.
ShowKeepsStage(n, b, s) ==
    /\ trace' = [number |-> n, bet |-> b, status |-> s]
    /\ UNCHANGED stage

\* currentTraceSignal.set and selectedStageSignal.set.
Show(n, b, s) ==
    /\ trace' = [number |-> n, bet |-> b, status |-> s]
    /\ stage' = StageOf(n, s, 1)

\* createSyntheticTrace: the status is that of the scenario; without one it
\* is ACCEPTED, as no bet id has the words 'stale' or 'saec' in it.
Synthetic(scenario) == IF scenario = "accepted" THEN "ACCEPTED" ELSE "REJECTED"

TracingInit ==
    /\ RecentInit
    /\ trace = [number |-> 0, bet |-> SampleOf["accepted"], status |-> Synthetic("accepted")]
    /\ stage = StageOf(0, Synthetic("accepted"), 1)
    /\ loading = FALSE
    /\ traces = {}
    /\ nextTrace = 1
    /\ lastAsked = SampleOf["accepted"]
    /\ crossed = FALSE

Asked(b) ==
    /\ nextTrace <= MaxTraces
    /\ nextTrace' = nextTrace + 1
    /\ lastAsked' = b
    /\ crossed' = (crossed \/ traces # {})

\* traceBet.
traceBet(b) ==
    /\ Asked(b)
    /\ traces' = traces \cup {[id |-> nextTrace, bet |-> b]}
    /\ loading' = TRUE
    /\ UNCHANGED <<bets, trace, stage, recentVars>>

\* A bet id in the search box and the Enter key, which a request under way
\* does not disable, and "Inspect Trace in Telemetry" of the bet slip.
onSearch(b) == traceBet(b)

\* A chip.
selectRecentBet(b) == b \in recent /\ traceBet(b)

\* loadSampleTrace: at once, whatever is under way.
loadSampleTrace(scenario) ==
    /\ Asked(SampleOf[scenario])
    /\ Show(nextTrace, SampleOf[scenario], Synthetic(scenario))
    /\ UNCHANGED <<bets, loading, traces, recentVars>>

\* The three scenario chips.
selectScenario == \E s \in Scenarios : loadSampleTrace(s)

selectStage(i) ==
    /\ stage' = StageOf(trace.number, trace.status, i)
    /\ UNCHANGED <<bets, trace, loading, traces, nextTrace, lastAsked, crossed, recentVars>>

\* A card of the trace shown is clicked.
onSelectStage == \E i \in 1..Len(Stages(trace.status)) : selectStage(i)

Answered(r) ==
    /\ traces' = traces \ {r}
    /\ loading' = FALSE
    /\ UNCHANGED <<bets, nextTrace, lastAsked, crossed, recentVars>>

\* subscribe.next with the answer of get_bet_trace.
TraceFound(r) ==
    /\ bets[r.bet] \in Persisted
    /\ Show(r.id, r.bet, bets[r.bet])
    /\ Answered(r)

\* Mutant: an error is swallowed on the way to the subscriber.
TraceDropped(r) ==
    /\ traces' = traces \ {r}
    /\ UNCHANGED <<bets, trace, stage, loading, nextTrace, lastAsked, crossed, recentVars>>

\* catchError: the bet is not there yet, or the request failed.
TraceInvented(r) ==
    /\ Show(r.id, r.bet, Synthetic("accepted"))
    /\ Answered(r)

\* The page is loaded again: the constructor shows the sample trace.
ReloadTracer ==
    /\ Show(0, SampleOf["accepted"], Synthetic("accepted"))
    /\ loading' = FALSE
    /\ traces' = {}
    /\ lastAsked' = SampleOf["accepted"]
    /\ crossed' = FALSE
    /\ UNCHANGED nextTrace
    /\ ReloadRecent

TracerStep ==
    \/ \E b \in Bets : onSearch(b)
    \/ \E b \in Bets : selectRecentBet(b)
    \/ selectScenario
    \/ onSelectStage
    \/ \E r \in traces : TraceFound(r)
    \/ \E r \in traces : TraceInvented(r)
    \/ (fetchRecentBets \/ RecentAnswered) /\ UNCHANGED <<bets, tracerVars>>
    \/ \E b \in Bets : Persist(b) /\ UNCHANGED tracerVars

TracingNext ==
    \/ TracerStep
    \/ SettleSome /\ UNCHANGED tracerVars
    \/ ReloadTracer

\* A browser ends every request it has sent.
TracingFairness ==
    \A id \in 1..MaxTraces :
        WF_tracingVars(\E r \in traces : r.id = id /\ (TraceFound(r) \/ TraceInvented(r)))

TracingSafety == TracingInit /\ [][TracingNext]_tracingVars
TracingSpec == TracingSafety /\ TracingFairness

-------------------------------------------------------------------------------
TracingTypeOK ==
    /\ trace \in [number : 0..MaxTraces, bet : Bets, status : Persisted]
    /\ stage \in [of : 0..MaxTraces, index : 1..6,
                  status : {"COMPLETED", "ACCEPTED", "REJECTED", "ACTIVE", "SETTLED"}]
    /\ loading \in BOOLEAN
    /\ traces \subseteq [id : 1..MaxTraces, bet : Bets]
    /\ nextTrace \in 1..(MaxTraces + 1)
    /\ lastAsked \in Bets
    /\ crossed \in BOOLEAN

\* The stage inspected is one of the trace shown, and while no request has
\* crossed another the trace shown is the one asked for last.  The trace, the
\* stage and the loading flag are three signals written by three handlers.
ShownTraceIsLastAsked ==
    /\ stage = StageOf(trace.number, trace.status, stage.index)
    /\ ~crossed /\ traces = {} => trace.bet = lastAsked

\* "Tracing..." refines the indicator.
Searching == INSTANCE RequestIndicator WITH
                 busy <- loading,
                 open <- Cardinality(traces)
================================================================================
