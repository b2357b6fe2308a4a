-------------------------------- MODULE BetSlip --------------------------------
(***************************************************************************)
(* The bet slip of the single-page application (BetSlipService and its     *)
(* component) against the ingress it posts bets to.  A post carries no     *)
(* number the answer repeats, and the slip is one shared signal, so an     *)
(* answer lands in whatever ticket the slip holds by then.                 *)
(*                                                                         *)
(* The account a post is made for is that of the cookie at that moment; the *)
(* button looks at the session.  Account moves both.                       *)
(***************************************************************************)
EXTENDS Account, Integers

CONSTANTS
    Views,        \* the selections with their odds that can be clicked
    NoView,
    Stakes,       \* what can be typed as a stake, in dollars
    MaxPosts,     \* bound: posts in a behaviour
    MaxTickets    \* bound: selections and clearings in a behaviour

DefaultStake == 10

ASSUME SlipAssumption ==
    /\ NoView \notin Views
    /\ Stakes \subseteq Int
    /\ DefaultStake \in Stakes
    /\ MaxPosts \in Nat
    /\ MaxTickets \in Nat

VARIABLES
    slip,       \* the signal: selection, stake, status, eventId (0: none)
    posts,      \* posts under way, each with the ticket it was made for
    nextPost,   \* number of the next post
    taken,      \* bets the ingress published
    ticket,     \* ghost: selections and clearings so far
    late        \* ghost: answers to earlier tickets that landed in this one

slipVars == <<slip, posts, nextPost, taken, ticket, late>>
bettingVars == <<slipVars, account>>

Post == [id : 1..MaxPosts, ticket : 0..MaxTickets, selection : Views,
         stake : Stakes, account : Accounts \cup {Nobody}]
State == [selection : Views \cup {NoView}, stake : Stakes,
          status : {"EMPTY", "PENDING", "ACCEPTED", "REJECTED"},
          eventId : 0..MaxPosts]

EmptySlip == [selection |-> NoView, stake |-> DefaultStake,
              status |-> "EMPTY", eventId |-> 0]

SlipInit ==
    /\ slip = EmptySlip
    /\ posts = {}
    /\ nextPost = 1
    /\ taken = {}
    /\ ticket = 0
    /\ late = 0

NewTicket ==
    /\ ticket < MaxTickets
    /\ ticket' = ticket + 1
    /\ late' = 0

\* What the template shows: the ticket; the stake, to who is signed in; the
\* feedback with a trace number.
HasSelection == slip.selection # NoView
StakeShown == HasSelection /\ isAuthenticated
TraceShown == slip.status # "EMPTY" /\ slip.eventId # 0

\* Mutant: the previous bet's trace number stays.
selectKeepsTrace(v) ==
    /\ NewTicket
    /\ slip' = [slip EXCEPT !.selection = v, !.status = "EMPTY"]
    /\ UNCHANGED <<posts, nextPost, taken>>

\* An odds button of the board or of the featured match.
select(v) ==
    /\ NewTicket
    /\ slip' = [slip EXCEPT !.selection = v, !.status = "EMPTY", !.eventId = 0]
    /\ UNCHANGED <<posts, nextPost, taken>>

\* The Clear button, shown only while the slip holds a selection.
clear ==
    /\ HasSelection
    /\ NewTicket
    /\ slip' = EmptySlip
    /\ UNCHANGED <<posts, nextPost, taken>>

updateStake(s) ==
    /\ StakeShown
    /\ slip' = [slip EXCEPT !.stake = s]
    /\ UNCHANGED <<posts, nextPost, taken, ticket, late>>

\* Mutant: the button is not disabled while a bet is being placed.
PlaceBetAlwaysEnabled ==
    /\ StakeShown
    /\ slip.stake > 0

\* The Place Bet button: when the template shows it, and enabled.
PlaceBetEnabled ==
    /\ StakeShown
    /\ slip.status # "PENDING"
    /\ slip.stake > 0

\* The trace number of the bet before stays until the answer.
submit ==
    /\ PlaceBetEnabled
    /\ nextPost <= MaxPosts
    /\ posts' = posts \cup {[id |-> nextPost, ticket |-> ticket, stake |-> slip.stake,
                             selection |-> slip.selection, account |-> cookie]}
    /\ nextPost' = nextPost + 1
    /\ slip' = [slip EXCEPT !.status = "PENDING"]
    /\ UNCHANGED <<taken, ticket, late>>

\* The ingress identifies the account by the cookie and publishes the bet.
submit_bet(p) ==
    /\ p.account # Nobody
    /\ taken' = taken \cup {p}
    /\ UNCHANGED <<slip, posts, nextPost, ticket, late>>

Landed(p) ==
    /\ posts' = posts \ {p}
    /\ late' = IF p.ticket = ticket THEN late ELSE late + 1
    /\ UNCHANGED <<nextPost, taken, ticket>>

\* subscribe.next.
AnswerAccepted(p) ==
    /\ p \in taken
    /\ slip' = [slip EXCEPT !.status = "ACCEPTED", !.eventId = p.id]
    /\ Landed(p)

\* Mutant: a failed post leaves the slip as it is.
AnswerFailedSilently(p) == Landed(p) /\ UNCHANGED slip

\* subscribe.error: refused, or the answer of a bet already taken was lost.
AnswerFailed(p) ==
    /\ slip' = [slip EXCEPT !.status = "REJECTED"]
    /\ Landed(p)

\* The page is loaded again.  The session comes back from localStorage; the
\* answers to the posts under way have nowhere to land.
ReloadSlip ==
    /\ slip' = EmptySlip
    /\ posts' = {}
    /\ NewTicket
    /\ UNCHANGED <<nextPost, taken>>

SlipStep ==
    \/ \E v \in Views : select(v)
    \/ clear
    \/ \E s \in Stakes : updateStake(s)
    \/ submit
    \/ \E p \in posts : submit_bet(p)
    \/ \E p \in posts : AnswerAccepted(p)
    \/ \E p \in posts : AnswerFailed(p)

BettingInit == SlipInit /\ AccountInit
BettingNext ==
    \/ SlipStep /\ UNCHANGED account
    \/ ReloadSlip /\ (AccountNext \/ UNCHANGED account)
    \/ AccountNext /\ UNCHANGED slipVars

\* A browser ends every post it has sent, with an answer or with an error.
SlipFairness ==
    \A id \in 1..MaxPosts :
        WF_bettingVars(/\ \E p \in posts : p.id = id /\ (AnswerAccepted(p) \/ AnswerFailed(p))
                       /\ UNCHANGED account)

BettingSafety == BettingInit /\ [][BettingNext]_bettingVars
BettingSpec == BettingSafety /\ SlipFairness

-------------------------------------------------------------------------------
SlipTypeOK ==
    /\ slip \in State
    /\ posts \subseteq Post
    /\ nextPost \in 1..(MaxPosts + 1)
    /\ taken \subseteq Post
    /\ ticket \in 0..MaxTickets
    /\ late \in Nat

Own == {p \in posts : p.ticket = ticket}

\* One ticket is posted twice at once only after an answer to an earlier
\* ticket landed in it and enabled the button again: the button's guard is the
\* only thing that keeps one ticket from being bet twice.
DoublePostNeedsLateAnswer == Cardinality(Own) > 1 => late > 0

\* The trace number shown is that of a bet the ingress took, and, while no
\* answer to an earlier ticket has landed, of a bet on the selection shown.
TraceIsOfShownTicket ==
    TraceShown =>
        \E b \in taken :
            /\ b.id = slip.eventId
            /\ late = 0 => b.ticket = ticket /\ b.selection = slip.selection

\* "Placing Bet..." refines the indicator.
Placing == INSTANCE RequestIndicator WITH
               busy <- slip.status = "PENDING",
               open <- Cardinality(posts)
================================================================================
