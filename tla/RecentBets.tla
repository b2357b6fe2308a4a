------------------------------- MODULE RecentBets ------------------------------
(***************************************************************************)
(* The bets table as the telemetry desk sees it, and the list of recent    *)
(* bets that the tracer shows as chips: one signal of TracingService,      *)
(* written by every answer to every request for it.                        *)
(***************************************************************************)
EXTENDS Naturals, Sequences, FiniteSets

CONSTANTS
    Bets,         \* the bets there are
    DemoBets,     \* the list shown when the recent bets cannot be fetched
    MaxFetches    \* bound: requests for the list under way at once

ASSUME RecentAssumption == DemoBets \subseteq Bets /\ MaxFetches \in Nat

VARIABLES
    bets,      \* the bets table: status, NONE where there is no row
    recent,    \* recentBets: the ids shown
    fetches    \* requests for them under way

recentVars == <<recent, fetches>>

Settled == {"WON", "LOST"}
Persisted == {"ACCEPTED", "REJECTED"} \cup Settled

RecentInit ==
    /\ bets \in [Bets -> {"NONE", "ACCEPTED", "REJECTED"}]
    /\ recent = {}
    /\ fetches = 0

\* fetchRecentBets: when a tracer is shown, by Refresh, after a settlement.
fetchRecentBets ==
    /\ fetches < MaxFetches
    /\ fetches' = fetches + 1
    /\ UNCHANGED recent

\* tap with what is persisted, or catchError with the preset bets.
RecentAnswered ==
    /\ fetches > 0
    /\ fetches' = fetches - 1
    /\ recent' \in {{b \in Bets : bets[b] \in Persisted}, DemoBets}

\* The settlement worker persists a bet.
Persist(b) ==
    /\ bets[b] = "NONE"
    /\ \E s \in {"ACCEPTED", "REJECTED"} : bets' = [bets EXCEPT ![b] = s]
    /\ UNCHANGED recentVars

\* The settlement service settles accepted bets, for whoever asked it to.
SettleSome ==
    /\ \E S \in SUBSET {b \in Bets : bets[b] = "ACCEPTED"} :
         \E outcome \in [S -> Settled] :
           bets' = [b \in Bets |-> IF b \in S THEN outcome[b] ELSE bets[b]]
    /\ UNCHANGED recentVars

\* The page is loaded again: a new TracingService.
ReloadRecent == recent' = {} /\ fetches' = 0 /\ UNCHANGED bets

RecentTypeOK ==
    /\ bets \in [Bets -> Persisted \cup {"NONE"}]
    /\ recent \subseteq Bets
    /\ fetches \in 0..MaxFetches
================================================================================
