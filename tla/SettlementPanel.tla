---------------------------- MODULE SettlementPanel ----------------------------
(***************************************************************************)
(* The telemetry desk: its tabs and the settlement simulator next to the    *)
(* tracer.  Changing the tab destroys the panel with its signals and not   *)
(* its request; the answer then refreshes the tracer's list all the same.   *)
(***************************************************************************)
EXTENDS RecentBets, Catalogue

CONSTANTS
    SelectionOf,   \* the selection a bet was placed on
    Pressed,       \* bound: the buttons that are pressed
    MaxSettles,    \* bound: settlements asked for in a behaviour
    MaxPanels      \* bound: panels shown in a behaviour

ASSUME PanelAssumption ==
    /\ MaxSettles \in Nat
    /\ MaxPanels \in Nat
    /\ SelectionOf \in [Bets -> Offered]
    /\ Pressed \subseteq Buttons

VARIABLES
    tab,          \* activeTab
    panel,        \* number of the panel shown, or shown last
    isSettling,
    lastResult,   \* none, committed, or the invented one of an error
    settles,      \* requests under way
    nextSettle

panelVars == <<tab, panel, isSettling, lastResult, settles, nextSettle>>
deskVars == <<bets, recentVars, panelVars>>

Tabs == {"overview", "tracer", "benchmarks", "settlement"}
WithTracer == {"overview", "tracer"}

PanelInit ==
    /\ tab = "overview"
    /\ panel = 0
    /\ isSettling = FALSE
    /\ lastResult = "none"
    /\ settles = {}
    /\ nextSettle = 1

\* activeTab.set: a tracer that appears fetches the recent bets, a panel that
\* appears is a new one.
setTab(t) ==
    /\ t # tab
    /\ tab' = t
    /\ IF t \in WithTracer THEN fetchRecentBets ELSE UNCHANGED recentVars
    /\ IF t = "settlement"
       THEN /\ panel < MaxPanels
            /\ panel' = panel + 1
            /\ isSettling' = FALSE
            /\ lastResult' = "none"
       ELSE UNCHANGED <<panel, isSettling, lastResult>>
    /\ UNCHANGED <<bets, settles, nextSettle>>

settleMatch(b) ==
    /\ tab = "settlement"
    /\ ~isSettling
    /\ nextSettle <= MaxSettles
    /\ settles' = settles \cup {[id |-> nextSettle, panel |-> panel,
                                 button |-> b, committed |-> FALSE]}
    /\ nextSettle' = nextSettle + 1
    /\ isSettling' = TRUE
    /\ UNCHANGED <<tab, panel, lastResult, bets, recentVars>>

\* The accepted bets of the match won or lost, by their selection's id.
SettledBy(button) ==
    [b \in Bets |-> IF bets[b] # "ACCEPTED" \/ SelectionOf[b].match # button.match
                    THEN bets[b]
                    ELSE IF SelectionOf[b].selection = button.winning THEN "WON" ELSE "LOST"]

\* The settlement service commits.
Commit(r) ==
    /\ ~r.committed
    /\ settles' = (settles \ {r}) \cup {[r EXCEPT !.committed = TRUE]}
    /\ bets' = SettledBy(r.button)
    /\ UNCHANGED <<tab, panel, isSettling, lastResult, nextSettle, recentVars>>

\* The signals written are those of the panel that asked.
SettleLanded(r, result) ==
    /\ settles' = settles \ {r}
    /\ IF r.panel = panel
       THEN isSettling' = FALSE /\ lastResult' = result
       ELSE UNCHANGED <<isSettling, lastResult>>
    /\ UNCHANGED <<tab, panel, nextSettle, bets>>

\* subscribe.next.
SettleAnswered(r) ==
    /\ r.committed
    /\ SettleLanded(r, "committed")
    /\ fetchRecentBets

\* subscribe.error, also after a commit: a result is invented, and shown
\* as "Settlement Transaction Committed".
SettleFailed(r) ==
    /\ SettleLanded(r, "invented")
    /\ UNCHANGED recentVars

\* A request that a reload of its page cut off commits, or one of another
\* browser's panel.
CommitElsewhere ==
    /\ \E b \in Pressed : bets' = SettledBy(b)
    /\ UNCHANGED <<recentVars, panelVars>>

\* The page is loaded again: the desk opens on its first tab.
ReloadDesk ==
    /\ tab' = "overview"
    /\ isSettling' = FALSE
    /\ lastResult' = "none"
    /\ settles' = {}
    /\ UNCHANGED <<panel, nextSettle>>
    /\ ReloadRecent

DeskInit == RecentInit /\ PanelInit

DeskStep ==
    \/ (fetchRecentBets \/ RecentAnswered) /\ UNCHANGED <<bets, panelVars>>
    \/ \E b \in Bets : Persist(b) /\ UNCHANGED panelVars
    \/ \E t \in Tabs : setTab(t)
    \/ \E b \in Pressed : settleMatch(b)
    \/ \E r \in settles : Commit(r)
    \/ \E r \in settles : SettleAnswered(r)
    \/ \E r \in settles : SettleFailed(r)
    \/ CommitElsewhere

DeskNext == DeskStep \/ ReloadDesk

\* A browser ends every request it has sent.
DeskFairness ==
    \A id \in 1..MaxSettles :
        WF_deskVars(\E r \in settles : r.id = id /\ (SettleAnswered(r) \/ SettleFailed(r)))

DeskSafety == DeskInit /\ [][DeskNext]_deskVars
DeskSpec == DeskSafety /\ DeskFairness

-------------------------------------------------------------------------------
PanelTypeOK ==
    /\ tab \in Tabs
    /\ panel \in 0..MaxPanels
    /\ isSettling \in BOOLEAN
    /\ lastResult \in {"none", "committed", "invented"}
    /\ settles \subseteq [id : 1..MaxSettles, panel : 1..MaxPanels,
                          button : Buttons, committed : BOOLEAN]
    /\ nextSettle \in 1..(MaxSettles + 1)

\* The panel's disabled buttons refine the indicator.
Settling == INSTANCE RequestIndicator WITH
                busy <- isSettling,
                open <- Cardinality({r \in settles : r.panel = panel})
================================================================================
