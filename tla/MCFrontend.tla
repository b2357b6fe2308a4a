------------------------------- MODULE MCFrontend ------------------------------
(***************************************************************************)
(* The single-page application for TLC.  Where its parts meet, each part's *)
(* next-state relation has the steps of the others in it, so a behaviour of *)
(* this module is one of a single part, with the others at their initial   *)
(* states: the runs explore the sum of the parts and not their product.    *)
(***************************************************************************)
EXTENDS Frontend, TLC

CONSTANTS b1, b2

\* A bet on the home win by a preset button, and one by a live button.
MCSelectionOf == (b1 :> PresetView("match-0001", "home")) @@ (b2 :> LiveView("match-0001", "home"))
MCSampleOf == [s \in Scenarios |-> IF s = "accepted" THEN b1 ELSE b2]
MCPressed == {Button("match-0001", "home"), Button("match-0001", "away")}
MCViews == {LiveView("match-0001", "home")}

VARIABLE part

Parts == {"signing", "betting", "odds", "status", "tracer", "desk", "bench", "reload"}

mcVars == <<part, frontendVars>>

MCInit ==
    /\ part \in Parts
    /\ FrontendInit
    /\ part \notin {"tracer", "desk"} => bets = [b \in Bets |-> "NONE"]
    /\ mixed = (part = "betting")   \* there, the account takes any of Account's steps
    /\ part # "status" => backend = "CONNECTED"

Signing == part = "signing" /\ SessionNext /\ UNCHANGED notSession
Betting == part = "betting" /\ BettingNext /\ UNCHANGED <<sessionVars, feedVars, statusVars,
                                                 tracingVars, panelVars, benchVars>>
Odds    == part = "odds"    /\ FeedNext    /\ UNCHANGED notFeed
Status  == part = "status"  /\ StatusNext  /\ UNCHANGED notStatus
Tracer  == part = "tracer"  /\ TracingNext /\ UNCHANGED notTracer
Desk    == part = "desk"    /\ DeskNext    /\ UNCHANGED notDesk
Bench   == part = "bench"   /\ BenchNext   /\ UNCHANGED notBench
Reload  == part = "reload"  /\ ReloadFrontend

MCNext ==
    /\ UNCHANGED part
    /\ Signing \/ Betting \/ Odds \/ Status \/ Tracer \/ Desk \/ Bench \/ Reload

\* Nothing that is owed a step is pending in an initial state but the figures
\* of the benchmark page.
MCFairness ==
    /\ SessionFairness /\ SlipFairness /\ FeedFairness /\ TracingFairness /\ DeskFairness
    /\ WF_mcVars(part = "bench" /\ FiguresAnswered /\ UNCHANGED <<part, notBench>>)

MCSpec == MCInit /\ [][MCNext]_mcVars /\ MCFairness

-------------------------------------------------------------------------------
\* No label stays up for good: with PartsRefine, each indicator implements
\* RequestIndicator's specification, liveness and all.
FrontendRefines ==
    /\ PartsRefine
    /\ SigningIn!Lowered /\ FormBusy!Lowered /\ Placing!Lowered
    /\ Searching!Lowered /\ Settling!Lowered
================================================================================
