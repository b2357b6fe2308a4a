------------------------------ MODULE SystemStatus -----------------------------
(***************************************************************************)
(* The status bar's health: a poll of the settlement service every four    *)
(* seconds, each one cancelling the one before it.  A poll that fails is   *)
(* answered by the page itself, CONNECTED throughout.  The status is that   *)
(* of PostgreSQL: that of Kafka is CONNECTED in every answer there is.      *)
(***************************************************************************)
EXTENDS Naturals, FiniteSets

CONSTANT MaxPolls   \* bound: polls in a behaviour

ASSUME MaxPollsAssumption == MaxPolls \in Nat

VARIABLES
    health,     \* healthSignal: number of the poll, 0 for the seed, and status
    polls,      \* polls the interval's subscription listens to
    nextPoll,
    backend     \* what the settlement service would answer

statusVars == <<health, polls, nextPoll, backend>>

ConnectionHealth == {"CONNECTED", "DISCONNECTED"}
Seed == [poll |-> 0, status |-> "CONNECTED"]

StatusInit ==
    /\ health = Seed
    /\ polls = {}
    /\ nextPoll = 1
    /\ backend \in ConnectionHealth \cup {"unreachable"}

\* Mutant: mergeMap, which listens to all of them.
pollMerged ==
    /\ nextPoll <= MaxPolls
    /\ polls' = polls \cup {nextPoll}
    /\ nextPoll' = nextPoll + 1
    /\ UNCHANGED <<health, backend>>

\* interval(4000) and switchMap: one that is out is cancelled.  The poll of the
\* Sync button, refreshNow, is heard by nobody.
pollHealth ==
    /\ nextPoll <= MaxPolls
    /\ polls' = {nextPoll}
    /\ nextPoll' = nextPoll + 1
    /\ UNCHANGED <<health, backend>>

\* The answer, or catchError's.
HealthAnswered(p) ==
    /\ \/ backend # "unreachable" /\ health' = [poll |-> p, status |-> backend]
       \/ health' = [poll |-> p, status |-> "CONNECTED"]
    /\ polls' = polls \ {p}
    /\ UNCHANGED <<nextPoll, backend>>

BackendChanges ==
    /\ backend' \in ConnectionHealth \cup {"unreachable"}
    /\ UNCHANGED <<health, polls, nextPoll>>

ReloadStatus ==
    /\ health' = Seed
    /\ polls' = {}
    /\ UNCHANGED <<nextPoll, backend>>

StatusStep ==
    \/ pollHealth
    \/ \E p \in polls : HealthAnswered(p)
    \/ BackendChanges

StatusNext == StatusStep \/ ReloadStatus

StatusSpec == StatusInit /\ [][StatusNext]_statusVars

StatusTypeOK ==
    /\ health \in [poll : 0..MaxPolls, status : ConnectionHealth]
    /\ polls \subseteq 1..MaxPolls
    /\ nextPoll \in 1..(MaxPolls + 1)
    /\ backend \in ConnectionHealth \cup {"unreachable"}

\* An answer that took longer than the next poll never replaces that poll's:
\* the health shown is never older than the health shown before it.
HealthNeverGoesBack ==
    [][health'.poll >= health.poll \/ health' = Seed]_statusVars
================================================================================
