------------------------------- MODULE Frontend -------------------------------
(***************************************************************************)
(* The single-page application: its parts in one browser tab, interleaved. *)
(* They meet in three places: the account, which Session moves and the     *)
(* cookie of which the bet slip posts with; the bets table and the list of *)
(* recent bets, which the tracer and the settlement panel both use; and    *)
(* loading the page again, which starts every part afresh at once.  Which  *)
(* page shows a part is left out: a part may be used at any time.          *)
(***************************************************************************)
EXTENDS BetSlip, Session, OddsFeed, SystemStatus, Tracing, SettlementPanel, Benchmark

frontendVars == <<bettingVars, sessionVars, feedVars, statusVars, bets, recentVars,
                  tracerVars, panelVars, benchVars>>

FrontendInit ==
    /\ AccountInit /\ SlipInit /\ SessionInit /\ FeedInit /\ StatusInit
    /\ TracingInit /\ PanelInit /\ BenchInit

\* What a part leaves alone.
notSlip    == <<account, sessionVars, feedVars, statusVars, tracingVars, panelVars, benchVars>>
notSession == <<slipVars, feedVars, statusVars, tracingVars, panelVars, benchVars>>
notFeed    == <<bettingVars, sessionVars, statusVars, tracingVars, panelVars, benchVars>>
notStatus  == <<bettingVars, sessionVars, feedVars, tracingVars, panelVars, benchVars>>
notTracer  == <<bettingVars, sessionVars, feedVars, statusVars, panelVars, benchVars>>
notDesk    == <<bettingVars, sessionVars, feedVars, statusVars, tracerVars, benchVars>>
notBench   == <<bettingVars, sessionVars, feedVars, statusVars, tracingVars, panelVars>>

\* The browser loads the page: every service and component is a new one.
ReloadFrontend ==
    /\ ReloadSlip /\ ReloadPage /\ ReloadBoard /\ ReloadStatus
    /\ ReloadTracer /\ ReloadDesk /\ ReloadBench

FrontendNext ==
    \/ SlipStep    /\ UNCHANGED notSlip
    \/ SessionStep /\ UNCHANGED notSession
    \/ FeedStep    /\ UNCHANGED notFeed
    \/ StatusStep  /\ UNCHANGED notStatus
    \/ TracerStep  /\ UNCHANGED notTracer
    \/ DeskStep    /\ UNCHANGED notDesk
    \/ BenchStep   /\ UNCHANGED notBench
    \/ ReloadFrontend

FrontendSpec == FrontendInit /\ [][FrontendNext]_frontendVars

-------------------------------------------------------------------------------
\* Every variable of every part has its type.
FrontendTypeOK ==
    /\ SlipTypeOK /\ SessionTypeOK /\ FeedTypeOK /\ StatusTypeOK
    /\ RecentTypeOK /\ TracingTypeOK /\ PanelTypeOK

\* Every step of every part is one it promises the others: Session moves the
\* account by Account's steps, and each "working" label or disabled button is
\* an indicator that is up only while a request is under way.
PartsRefine ==
    /\ AccountSpec
    /\ SigningIn!Safety /\ FormBusy!Safety
    /\ Placing!Safety
    /\ Searching!Safety
    /\ Settling!Safety
    /\ [][Loading!Next]_<<loadingFigures, reloads>>

\* A bet is posted on behalf of the account the page shows, or of none if the
\* cookie has expired, unless sign-ins overlapped or one is half handled: the
\* slip shows the session, the browser sends the cookie
\* (bet-slip.component.ts:102-132, auth.service.ts:54-137).
PostsAreOfShownAccount ==
    [][\A p \in posts' \ posts :
          ~mixed /\ session # Nobody /\ (\A r \in auths : ~r.answered)
              => p.account \in {session, Nobody}]_frontendVars
================================================================================
