-------------------------- MODULE BoardAndSlip_proofs --------------------------
(***************************************************************************)
(* The bet slip for every number of posts, tickets, accounts and stakes,   *)
(* and the odds board for every number of selections, ticks and faults and *)
(* every depth of the queue.                                               *)
(***************************************************************************)
EXTENDS BetSlip, OddsFeed, FiniteSetTheorems, TLAPS

--------------------------------------------------------------------------------
(* The bet slip.  DoublePostNeedsLateAnswer is not inductive: that a second *)
(* post of one ticket is impossible rests on the status being PENDING while *)
(* the first is out, and the count in SlipInv says by how much late answers *)
(* loosen that.                                                             *)

PendingPost == IF slip.status = "PENDING" THEN 1 ELSE 0

\* The trace number is that of a bet taken, of this ticket unless late.
TraceTaken ==
    slip.eventId # 0 =>
        \E b \in taken :
            /\ b.id = slip.eventId
            /\ late = 0 => b.ticket = ticket /\ b.selection = slip.selection

AccountTyped == session \in Accounts \cup {Nobody} /\ cookie \in Accounts \cup {Nobody}

SlipInv ==
    /\ SlipTypeOK
    /\ AccountTyped
    /\ IsFiniteSet(posts)
    /\ \A p \in posts : p.id < nextPost /\ p.ticket <= ticket
    /\ \A p, q \in posts : p.id = q.id => p = q
    /\ \A p \in posts : p.ticket = ticket => p.selection = slip.selection
    /\ Cardinality(Own) <= late + PendingPost
    /\ slip.status = "PENDING" => posts # {}
    /\ TraceTaken

--------------------------------------------------------------------------------
LEMMA OwnFinite ==
    ASSUME IsFiniteSet(posts)
    PROVE  IsFiniteSet(Own) /\ Cardinality(Own) \in Nat
<1>1. Own \in SUBSET posts
  BY DEF Own
<1> QED  BY <1>1, FS_Subset, FS_CardinalityType

LEMMA SlipInitInv == BettingInit => SlipInv
<1> SUFFICES ASSUME BettingInit PROVE SlipInv
  OBVIOUS
<1> USE DEF BettingInit, SlipInit, AccountInit
<1>1. SlipTypeOK
  <2>1. slip \in State
    BY SlipAssumption DEF EmptySlip, State
  <2> QED  BY <2>1, SlipAssumption DEF SlipTypeOK
<1>2. Own = {}
  BY DEF Own
<1>3. slip.status # "PENDING" /\ slip.eventId = 0
  BY DEF EmptySlip
<1> QED  BY <1>1, <1>2, <1>3, FS_EmptySet DEF SlipInv, AccountTyped, PendingPost, TraceTaken

\* A new ticket: none of the posts under way was made for it.
LEMMA NewTicketInv ==
    ASSUME SlipInv, NewTicket, slip' \in State, slip'.status = "EMPTY", slip'.eventId = 0,
           UNCHANGED <<nextPost, taken>>, posts' = posts \/ posts' = {}, AccountTyped'
    PROVE  SlipInv'
<1>1. ticket' \in 0..MaxTickets /\ ticket' = ticket + 1 /\ late' = 0
  BY SlipAssumption DEF NewTicket, SlipInv, SlipTypeOK
<1>2. SlipTypeOK'
  BY <1>1 DEF SlipInv, SlipTypeOK
<1>3. IsFiniteSet(posts') /\ posts' \subseteq posts
  BY FS_EmptySet DEF SlipInv
<1>4. \A p \in posts' : p.id < nextPost' /\ p.ticket <= ticket' /\ p.ticket # ticket'
  BY <1>1, <1>3 DEF SlipInv, SlipTypeOK, Post
<1>5. Own' = {} /\ (Cardinality(Own) <= late + PendingPost)'
  <2>1. Own' = {}
    BY <1>4 DEF Own
  <2>2. Cardinality(Own)' = 0
    BY <2>1, FS_EmptySet
  <2> QED  BY <1>1, <2>1, <2>2 DEF PendingPost
<1> QED  BY <1>2, <1>3, <1>4, <1>5 DEF SlipInv, TraceTaken

LEMMA SelectInv == ASSUME SlipInv, NEW v \in Views, select(v), AccountTyped' PROVE SlipInv'
<1>1. slip' \in State /\ slip'.status = "EMPTY" /\ slip'.eventId = 0
  <2>1. slip' = [slip EXCEPT !.selection = v, !.status = "EMPTY", !.eventId = 0]
    BY DEF select
  <2>2. slip \in State /\ 0 \in 0..MaxPosts
    BY SlipAssumption DEF SlipInv, SlipTypeOK
  <2> QED  BY <2>1, <2>2 DEF State
<1> QED  BY <1>1, NewTicketInv DEF select

LEMMA EmptyInv ==
    ASSUME SlipInv, clear \/ ReloadSlip, AccountTyped'
    PROVE  SlipInv'
<1>1. slip' \in State /\ slip'.status = "EMPTY" /\ slip'.eventId = 0
  BY SlipAssumption DEF clear, ReloadSlip, EmptySlip, State
<1> QED  BY <1>1, NewTicketInv DEF clear, ReloadSlip

LEMMA StakeInv == ASSUME SlipInv, NEW s \in Stakes, updateStake(s), UNCHANGED account PROVE SlipInv'
<1>1. slip' = [slip EXCEPT !.stake = s] /\ slip \in State
  BY DEF updateStake, SlipInv, SlipTypeOK
<1>2. /\ slip' \in State /\ slip'.status = slip.status /\ slip'.eventId = slip.eventId
      /\ slip'.selection = slip.selection
  BY <1>1 DEF State
<1>3. UNCHANGED <<posts, nextPost, taken, ticket, late, session, cookie>>
  BY DEF updateStake, account
<1>4. UNCHANGED <<Own, PendingPost>>
  BY <1>2, <1>3 DEF Own, PendingPost
<1> QED  BY <1>2, <1>3, <1>4 DEF SlipInv, AccountTyped, SlipTypeOK, TraceTaken

\* A post raises the status and the count of the ticket's posts by one each.
LEMMA SubmitInv == ASSUME SlipInv, submit, UNCHANGED account PROVE SlipInv'
<1> DEFINE p == [id |-> nextPost, ticket |-> ticket, stake |-> slip.stake,
                 selection |-> slip.selection, account |-> cookie]
<1>1. /\ posts' = posts \cup {p}
      /\ nextPost' = nextPost + 1
      /\ slip' = [slip EXCEPT !.status = "PENDING"]
      /\ UNCHANGED <<taken, ticket, late, session, cookie>>
      /\ slip \in State /\ slip.selection # NoView /\ slip.status # "PENDING"
      /\ nextPost \in 1..MaxPosts
  BY SlipAssumption DEF submit, account, PlaceBetEnabled, StakeShown, HasSelection, SlipInv,
                        SlipTypeOK
<1>2. /\ slip' \in State /\ slip'.status = "PENDING" /\ slip'.eventId = slip.eventId
      /\ slip'.selection = slip.selection
  BY <1>1 DEF State
<1>3. p \in Post /\ p.id = nextPost /\ p.ticket = ticket /\ p.selection = slip.selection
  BY <1>1 DEF Post, State, SlipInv, SlipTypeOK, AccountTyped
<1>4. \A q \in posts : q.id # p.id
  BY <1>1, <1>3 DEF SlipInv, SlipTypeOK, Post
<1> HIDE DEF p
<1>5. SlipTypeOK'
  BY <1>1, <1>2, <1>3, SlipAssumption DEF SlipInv, SlipTypeOK
<1>6. IsFiniteSet(posts') /\ posts' # {}
  BY <1>1, FS_AddElement DEF SlipInv
<1>7. \A q \in posts' : q.id < nextPost' /\ q.ticket <= ticket'
  BY <1>1, <1>3 DEF SlipInv, SlipTypeOK, Post
<1>8. \A q1, q2 \in posts' : q1.id = q2.id => q1 = q2
  BY <1>1, <1>4 DEF SlipInv
<1>9. \A q \in posts' : q.ticket = ticket' => q.selection = slip'.selection
  BY <1>1, <1>2, <1>3 DEF SlipInv
<1>10. (Cardinality(Own) <= late + PendingPost)'
  <2>1. Own' = Own \cup {p} /\ p \notin Own
    BY <1>1, <1>3, <1>4 DEF Own
  <2>2. IsFiniteSet(Own) /\ Cardinality(Own) \in Nat
    BY OwnFinite DEF SlipInv
  <2>3. Cardinality(Own)' = Cardinality(Own) + 1
    BY <2>1, <2>2, FS_AddElement
  <2>4. PendingPost = 0 /\ PendingPost' = 1
    BY <1>1, <1>2 DEF PendingPost
  <2> QED  BY <1>1, <2>2, <2>3, <2>4 DEF SlipInv, SlipTypeOK
<1> QED  BY <1>1, <1>2, <1>5, <1>6, <1>7, <1>8, <1>9, <1>10 DEF SlipInv, AccountTyped, TraceTaken

LEMMA TakenInv == ASSUME SlipInv, NEW p \in posts, submit_bet(p), UNCHANGED account PROVE SlipInv'
<1>1. /\ taken' = taken \cup {p} /\ p \in Post
      /\ UNCHANGED <<slip, posts, nextPost, ticket, late, session, cookie>>
  BY DEF submit_bet, account, SlipInv, SlipTypeOK
<1>2. SlipTypeOK'
  BY <1>1 DEF SlipInv, SlipTypeOK
<1>3. UNCHANGED <<Own, PendingPost>>
  BY <1>1 DEF Own, PendingPost
<1>4. TraceTaken'
  BY <1>1 DEF SlipInv, TraceTaken
<1> QED  BY <1>1, <1>2, <1>3, <1>4 DEF SlipInv, AccountTyped

\* The answer to a post: the status is lowered, and either the post was the
\* ticket's or the answer is a late one.
LEMMA PostLandedInv ==
    ASSUME SlipInv, NEW p \in posts, Landed(p), UNCHANGED account,
           slip' \in State, slip'.status \in {"ACCEPTED", "REJECTED"},
           slip'.selection = slip.selection,
           \/ slip'.eventId = slip.eventId
           \/ slip'.eventId = p.id /\ p \in taken
    PROVE  SlipInv'
<1>1. /\ posts' = posts \ {p} /\ p \in Post
      /\ late' = IF p.ticket = ticket THEN late ELSE late + 1
      /\ UNCHANGED <<nextPost, taken, ticket, session, cookie>>
      /\ late \in Nat
  BY DEF Landed, account, SlipInv, SlipTypeOK
<1>2. SlipTypeOK'
  BY <1>1 DEF SlipInv, SlipTypeOK
<1>3. IsFiniteSet(posts')
  BY <1>1, FS_RemoveElement DEF SlipInv
<1>4. (Cardinality(Own) <= late + PendingPost)'
  <2>1. IsFiniteSet(Own) /\ Cardinality(Own) \in Nat
    BY OwnFinite DEF SlipInv
  <2>2. PendingPost' = 0 /\ PendingPost \in {0, 1}
    BY DEF PendingPost
  <2>3. CASE p.ticket = ticket
    <3>1. Own' = Own \ {p} /\ p \in Own
      BY <1>1, <2>3 DEF Own
    <3>2. Cardinality(Own)' = Cardinality(Own) - 1
      BY <2>1, <3>1, FS_RemoveElement
    <3> QED  BY <1>1, <2>1, <2>2, <2>3, <3>2 DEF SlipInv
  <2>4. CASE p.ticket # ticket
    <3>1. Own' = Own
      BY <1>1, <2>4 DEF Own
    <3> QED  BY <1>1, <2>1, <2>2, <2>4, <3>1 DEF SlipInv
  <2> QED  BY <2>3, <2>4
<1>5. TraceTaken'
  <2>1. CASE slip'.eventId = slip.eventId
    BY <1>1, <2>1 DEF SlipInv, TraceTaken
  <2>2. CASE slip'.eventId = p.id /\ p \in taken
    BY <1>1, <2>2 DEF SlipInv, TraceTaken
  <2> QED  BY <2>1, <2>2
<1>6. slip'.status # "PENDING"
  OBVIOUS
<1> QED  BY <1>1, <1>2, <1>3, <1>4, <1>5, <1>6 DEF SlipInv, AccountTyped

LEMMA PostAnsweredInv ==
    ASSUME SlipInv, NEW p \in posts, AnswerAccepted(p) \/ AnswerFailed(p), UNCHANGED account
    PROVE  SlipInv'
<1>1. slip \in State /\ p.id \in 0..MaxPosts
  BY DEF SlipInv, SlipTypeOK, Post
<1>2. CASE AnswerAccepted(p)
  <2>1. /\ slip' \in State /\ slip'.status = "ACCEPTED" /\ slip'.eventId = p.id
        /\ slip'.selection = slip.selection
    BY <1>1, <1>2 DEF AnswerAccepted, State
  <2> QED  BY <1>2, <2>1, PostLandedInv DEF AnswerAccepted
<1>3. CASE AnswerFailed(p)
  <2>1. /\ slip' \in State /\ slip'.status = "REJECTED" /\ slip'.eventId = slip.eventId
        /\ slip'.selection = slip.selection
    BY <1>1, <1>3 DEF AnswerFailed, State
  <2> QED  BY <1>3, <2>1, PostLandedInv DEF AnswerFailed
<1> QED  BY <1>2, <1>3

LEMMA AccountStaysTyped == AccountTyped /\ (AccountNext \/ UNCHANGED account) => AccountTyped'
  BY DEF AccountTyped, AccountNext, SetAuthCookie, PersistSession, LogoutLocal, CookieExpires,
         account

LEMMA AccountInv ==
    ASSUME SlipInv, (AccountNext /\ UNCHANGED slipVars) \/ UNCHANGED bettingVars
    PROVE  SlipInv'
<1>1. UNCHANGED <<slip, posts, nextPost, taken, ticket, late>>
  BY DEF slipVars, bettingVars
<1>2. AccountTyped'
  BY AccountStaysTyped DEF SlipInv, bettingVars
<1>3. UNCHANGED <<Own, PendingPost, TraceTaken, SlipTypeOK>>
  BY <1>1 DEF Own, PendingPost, TraceTaken, SlipTypeOK
<1> QED  BY <1>1, <1>2, <1>3 DEF SlipInv

LEMMA SlipStepInv == SlipInv /\ [BettingNext]_bettingVars => SlipInv'
<1> SUFFICES ASSUME SlipInv, [BettingNext]_bettingVars PROVE SlipInv'
  OBVIOUS
<1>0. AccountNext \/ UNCHANGED account => AccountTyped'
  BY AccountStaysTyped DEF SlipInv
<1>1. CASE SlipStep /\ UNCHANGED account
  BY <1>0, <1>1, SelectInv, EmptyInv, StakeInv, SubmitInv, TakenInv, PostAnsweredInv DEF SlipStep
<1>2. CASE ReloadSlip /\ (AccountNext \/ UNCHANGED account)
  BY <1>0, <1>2, EmptyInv
<1>3. CASE (AccountNext /\ UNCHANGED slipVars) \/ UNCHANGED bettingVars
  BY <1>3, AccountInv
<1> QED  BY <1>1, <1>2, <1>3 DEF BettingNext

\* The invariant holds in every reachable state.
THEOREM SlipInvariance == BettingSafety => []SlipInv
  BY SlipInitInv, SlipStepInv, PTL DEF BettingSafety

--------------------------------------------------------------------------------
(* The properties.                                                          *)

\* No bet is posted without a selection, none is numbered out of turn.
THEOREM SlipTypeCorrect == BettingSafety => []SlipTypeOK
<1>1. SlipInv => SlipTypeOK
  BY DEF SlipInv
<1> QED  BY <1>1, SlipInvariance, PTL

\* Two posts of one ticket at once need an answer to an earlier one that landed
\* in it (bet-slip.service.ts:39-75, bet-slip.component.ts:102-132).
THEOREM NoDoublePost == BettingSafety => []DoublePostNeedsLateAnswer
<1>1. SlipInv => DoublePostNeedsLateAnswer
  <2> SUFFICES ASSUME SlipInv PROVE DoublePostNeedsLateAnswer
    OBVIOUS
  <2>1. Cardinality(Own) \in Nat /\ late \in Nat /\ PendingPost \in {0, 1}
    BY OwnFinite DEF SlipInv, SlipTypeOK, PendingPost
  <2> QED  BY <2>1 DEF SlipInv, DoublePostNeedsLateAnswer
<1> QED  BY <1>1, SlipInvariance, PTL

\* The trace number shown is of a bet the ingress took, and of the selection
\* shown unless a late answer brought it (bet-slip.service.ts:20-29, 58-67).
THEOREM TraceIsTaken == BettingSafety => []TraceIsOfShownTicket
<1>1. SlipInv => TraceIsOfShownTicket
  BY DEF SlipInv, TraceTaken, TraceIsOfShownTicket, TraceShown
<1> QED  BY <1>1, SlipInvariance, PTL

\* "Placing Bet..." is a working indicator: every step of the slip is one of
\* RequestIndicator or leaves it alone.
THEOREM SlipImplementsIndicator == BettingSafety => Placing!Safety
<1> USE DEF Placing!Init, Placing!Next, Placing!Send, Placing!Answer,
            Placing!Restart, Placing!indicator
<1>1. BettingInit => Placing!Init
  BY FS_EmptySet DEF BettingInit, SlipInit, EmptySlip
<1>2. SlipInv /\ [BettingNext]_bettingVars => [Placing!Next]_Placing!indicator
  <2> SUFFICES ASSUME SlipInv, [BettingNext]_bettingVars
               PROVE  [Placing!Next]_Placing!indicator
    OBVIOUS
  <2>1. slip \in State /\ IsFiniteSet(posts) /\ Cardinality(posts) \in Nat
    BY FS_CardinalityType DEF SlipInv, SlipTypeOK
  <2>2. ASSUME NewTicket, slip'.status = "EMPTY", posts' = posts \/ posts' = {}
        PROVE  Placing!Restart
    BY <2>1, <2>2, FS_EmptySet
  <2>3. CASE submit
    <3> DEFINE p == [id |-> nextPost, ticket |-> ticket, stake |-> slip.stake,
                     selection |-> slip.selection, account |-> cookie]
    <3>1. posts' = posts \cup {p} /\ p \notin posts /\ slip' = [slip EXCEPT !.status = "PENDING"]
      BY <2>3 DEF submit, SlipInv, SlipTypeOK, Post
    <3> HIDE DEF p
    <3>2. Cardinality(posts') = Cardinality(posts) + 1
      BY <2>1, <3>1, FS_AddElement
    <3> QED  BY <2>1, <3>1, <3>2 DEF State
  <2>4. ASSUME NEW p \in posts, AnswerAccepted(p) \/ AnswerFailed(p) PROVE Placing!Answer
    <3>1. posts' = posts \ {p} /\ slip'.status # "PENDING"
      BY <2>1, <2>4 DEF AnswerAccepted, AnswerFailed, Landed, State
    <3>2. Cardinality(posts') = Cardinality(posts) - 1 /\ Cardinality(posts) # 0
      BY <2>1, <3>1, FS_RemoveElement, FS_EmptySet
    <3> QED  BY <2>1, <3>1, <3>2
  <2>5. ASSUME posts' = posts, slip'.status = slip.status
        PROVE  UNCHANGED Placing!indicator
    BY <2>5
  <2>6. CASE SlipStep \/ ReloadSlip
    <3>1. ASSUME NEW v \in Views, select(v) PROVE Placing!Restart
      <4>1. slip'.status = "EMPTY"
        BY <2>1, <3>1 DEF select, State
      <4> QED  BY <2>2, <3>1, <4>1 DEF select
    <3>2. CASE clear \/ ReloadSlip
      <4>1. /\ NewTicket /\ slip' = EmptySlip
            /\ posts' = posts \/ posts' = {}
        BY <3>2 DEF clear, ReloadSlip
      <4>2. slip'.status = "EMPTY"
        BY <4>1 DEF EmptySlip
      <4>3. Placing!Restart
        BY <2>2, <4>1, <4>2
      <4> QED  BY <4>3
    <3>3. ASSUME NEW s \in Stakes, updateStake(s) PROVE UNCHANGED Placing!indicator
      BY <2>1, <2>5, <3>3 DEF updateStake, State
    <3>4. ASSUME NEW p \in posts, submit_bet(p) PROVE UNCHANGED Placing!indicator
      BY <2>5, <3>4 DEF submit_bet
    <3> QED  BY <2>3, <2>4, <2>6, <3>1, <3>2, <3>3, <3>4 DEF SlipStep
  <2>7. CASE UNCHANGED slipVars
    BY <2>5, <2>7 DEF slipVars
  <2> QED  BY <2>6, <2>7 DEF BettingNext, bettingVars
<1> QED  BY <1>1, <1>2, SlipInvariance, PTL DEF BettingSafety, Placing!Safety

--------------------------------------------------------------------------------
(* The board.  Prices are not replaced by older ones unless the relay has   *)
(* lost a position past its committed one.  A step only looks at the tick   *)
(* it shows, so the invariant carries the order from the topic to the       *)
(* board: while no position was lost, the queue ascends from above every    *)
(* tick shown up to the relay's position, and a relay that is down has      *)
(* committed where it stopped, or nothing yet.                              *)

\* The ticks of q ascend, start above those of the board m and end by p.
Ascends(q, m, p) ==
    /\ \A i \in DOMAIN q : q[i] <= p /\ \A k \in Selections : m[k] < q[i]
    /\ \A i, j \in DOMAIN q : i < j => q[i] < q[j]
    /\ \A k \in Selections : m[k] <= p

FeedInv ==
    /\ FeedTypeOK
    /\ ~relayUp /\ ~rewound => committed \in {pos, NoOffset}
    /\ ~rewound => Ascends(queue, markets, pos)

--------------------------------------------------------------------------------
(* Queues.                                                                  *)

LEMMA AppendAscends ==
    ASSUME NEW n \in Nat, NEW q \in Seq(1..n), NEW m \in [Selections -> 0..n],
           NEW p \in 0..n, Ascends(q, m, p)
    PROVE  Ascends(Append(q, p + 1), m, p + 1)
<1> DEFINE r == Append(q, p + 1)
<1>1. /\ DOMAIN r = 1..(Len(q) + 1) /\ Len(q) \in Nat /\ DOMAIN q = 1..Len(q)
      /\ r[Len(q) + 1] = p + 1
      /\ \A i \in DOMAIN q : r[i] = q[i] /\ q[i] \in 1..n
  OBVIOUS
<1> HIDE DEF r
<1>2. \A k \in Selections : m[k] \in 0..n
  OBVIOUS
<1>3. ASSUME NEW i \in DOMAIN r PROVE r[i] <= p + 1 /\ \A k \in Selections : m[k] < r[i]
  <2>1. CASE i = Len(q) + 1
    BY <1>1, <1>2, <2>1 DEF Ascends
  <2>2. CASE i # Len(q) + 1
    <3>1. i \in DOMAIN q /\ r[i] = q[i] /\ q[i] \in Nat
      BY <1>1, <2>2
    <3> QED  BY <3>1 DEF Ascends
  <2> QED  BY <2>1, <2>2
<1>4. ASSUME NEW i \in DOMAIN r, NEW j \in DOMAIN r, i < j PROVE r[i] < r[j]
  <2>1. i \in DOMAIN q /\ r[i] = q[i] /\ q[i] \in Nat /\ q[i] <= p /\ p \in Nat
    BY <1>1, <1>4 DEF Ascends
  <2>2. CASE j = Len(q) + 1
    BY <1>1, <2>1, <2>2
  <2>3. CASE j # Len(q) + 1
    <3>1. j \in DOMAIN q /\ r[j] = q[j]
      BY <1>1, <2>3
    <3> QED  BY <1>4, <2>1, <3>1 DEF Ascends
  <2> QED  BY <2>2, <2>3
<1>5. ASSUME NEW k \in Selections PROVE m[k] <= p + 1
  <2>1. m[k] \in Nat /\ p \in Nat /\ m[k] <= p
    BY <1>2 DEF Ascends
  <2> QED  BY <2>1
<1> QED  BY <1>3, <1>4, <1>5 DEF Ascends, r

\* Showing the head leaves the rest above the board.
LEMMA TailAscends ==
    ASSUME NEW n \in Nat, NEW q \in Seq(1..n), q # <<>>, NEW m \in [Selections -> 0..n],
           NEW p \in 0..n, NEW s, Ascends(q, m, p)
    PROVE  /\ Ascends(Tail(q), [m EXCEPT ![s] = Head(q)], p)
           /\ \A k \in Selections : m[k] < Head(q)
<1> DEFINE t == Tail(q)
           b == [m EXCEPT ![s] = Head(q)]
<1>1. /\ 1 \in DOMAIN q /\ Head(q) = q[1] /\ q[1] \in 1..n
      /\ \A i \in DOMAIN t : i + 1 \in DOMAIN q /\ t[i] = q[i + 1] /\ i \in Nat /\ i >= 1
                             /\ q[i + 1] \in 1..n
  OBVIOUS
<1>2. \A k \in Selections : m[k] \in 0..n /\ (b[k] = m[k] \/ b[k] = q[1])
  BY <1>1
<1> HIDE DEF t, b
<1>3. ASSUME NEW i \in DOMAIN t PROVE t[i] <= p /\ \A k \in Selections : b[k] < t[i]
  <2>1. 1 < i + 1 /\ q[1] < q[i + 1] /\ q[i + 1] <= p
    BY <1>1 DEF Ascends
  <2> QED  BY <1>1, <1>2, <2>1 DEF Ascends
<1>4. ASSUME NEW i \in DOMAIN t, NEW j \in DOMAIN t, i < j PROVE t[i] < t[j]
  BY <1>1, <1>4, SMTT(30) DEF Ascends
<1>5. \A k \in Selections : b[k] <= p
  BY <1>1, <1>2 DEF Ascends
<1>6. \A k \in Selections : m[k] < Head(q)
  BY <1>1 DEF Ascends
<1> QED  BY <1>3, <1>4, <1>5, <1>6 DEF Ascends, t, b

\* A relay that goes on from further on leaves the order as it is.
LEMMA AheadAscends ==
    ASSUME NEW n \in Nat, NEW q \in Seq(1..n), NEW m \in [Selections -> 0..n],
           NEW p \in Nat, NEW r \in Nat, p <= r, Ascends(q, m, p)
    PROVE  Ascends(q, m, r)
<1>1. \A i \in DOMAIN q : q[i] \in Nat
  OBVIOUS
<1>2. \A k \in Selections : m[k] \in Nat
  OBVIOUS
<1> QED  BY <1>1, <1>2 DEF Ascends

LEMMA EmptyAscends ==
    ASSUME NEW m, NEW p, \A k \in Selections : m[k] <= p
    PROVE  Ascends(<<>>, m, p)
  BY DEF Ascends

--------------------------------------------------------------------------------
(* The invariant.                                                           *)

LEMMA FeedInitInv == FeedInit => FeedInv
<1> SUFFICES ASSUME FeedInit PROVE FeedInv
  OBVIOUS
<1>1. FeedTypeOK
  <2>1. topic \in Seq(Selections) /\ Len(topic) = 0 /\ queue \in Seq(1..Len(topic)) /\ Len(queue) = 0
    BY DEF FeedInit
  <2>2. pos \in 0..Len(topic) /\ faults \in 0..MaxFaults /\ 0 <= MaxTicks /\ 0 <= QueueDepth
    BY <2>1, FeedAssumption DEF FeedInit
  <2>3. markets \in [Selections -> 0..Len(topic)]
    BY <2>1 DEF FeedInit
  <2> QED  BY <2>1, <2>2, <2>3 DEF FeedInit, FeedTypeOK
<1>2. Ascends(queue, markets, pos)
  BY DEF FeedInit, Ascends
<1> QED  BY <1>1, <1>2 DEF FeedInv, FeedInit

LEMMA FeedTypeStays == FeedTypeOK /\ [FeedNext]_feedVars => FeedTypeOK'
<1> SUFFICES ASSUME FeedTypeOK, [FeedNext]_feedVars PROVE FeedTypeOK'
  OBVIOUS
<1> USE FeedAssumption DEF FeedTypeOK
<1>0. <<>> \in Seq(1..Len(topic)) /\ Len(<<>>) <= QueueDepth
  OBVIOUS
<1>1. ASSUME NEW k \in Selections, publish_tick(k) PROVE FeedTypeOK'
  <2>1. /\ topic' \in Seq(Selections) /\ Len(topic') = Len(topic) + 1
        /\ UNCHANGED <<relayUp, pos, committed, queue, wire, stream, connected, markets,
                       ticking, asked, faults, rewound>>
    BY <1>1 DEF publish_tick, pageVars
  <2>2. Len(topic') <= MaxTicks
    BY <1>1, <2>1 DEF publish_tick
  <2>3. pos' \in 0..Len(topic') /\ committed' \in 0..Len(topic') \cup {NoOffset}
    BY <2>1
  <2>4. queue' \in Seq(1..Len(topic')) /\ markets' \in [Selections -> 0..Len(topic')]
    BY <2>1
  <2> QED  BY <2>1, <2>2, <2>3, <2>4
<1>2. CASE broadcast
  <2>1. /\ pos' \in 0..Len(topic) /\ pos + 1 \in 1..Len(topic)
        /\ UNCHANGED <<topic, relayUp, committed, markets, ticking, asked, faults, rewound>>
    BY <1>2 DEF broadcast
  <2>2. queue' \in Seq(1..Len(topic)) /\ Len(queue') <= QueueDepth
    <3>1. CASE Len(queue) < QueueDepth /\ queue' = Append(queue, pos + 1)
      BY <2>1, <3>1
    <3>2. CASE queue' = <<>> \/ queue' = queue
      BY <1>0, <3>2
    <3> QED  BY <1>2, <3>1, <3>2 DEF broadcast, QueueFull
  <2>3. /\ wire' \in {"none", "opening", "open"}
        /\ stream' \in {"idle", "running", "waiting", "completed"}
        /\ connected' \in BOOLEAN
    BY <1>2 DEF broadcast, Completes
  <2> QED  BY <2>1, <2>2, <2>3
<1>3. CASE commit
  BY <1>3 DEF commit, pageVars
<1>4. CASE RelayStops \/ RelayCrashes
  <2>1. /\ queue' = <<>> /\ faults' = faults + 1 /\ faults < MaxFaults /\ relayUp' = FALSE
        /\ UNCHANGED <<topic, pos, markets, ticking, asked>>
        /\ committed' \in {pos, committed}
        /\ LosesPosition
    BY <1>4 DEF RelayStops, RelayCrashes, Down, Fault
  <2>2. /\ wire' \in {"none", "opening", "open"}
        /\ stream' \in {"idle", "running", "waiting", "completed"}
        /\ connected' \in BOOLEAN
    BY <1>4 DEF RelayStops, RelayCrashes, Completes, Errors
  <2>3. faults' \in 0..MaxFaults
    BY <2>1
  <2>4. rewound' \in BOOLEAN
    BY <2>1, Zenon DEF LosesPosition
  <2> QED  BY <1>0, <2>1, <2>2, <2>3, <2>4
<1>6. CASE RelayStarts \/ Rejoin
  <2>0. /\ pos' = StartOffset /\ (relayUp' = TRUE \/ relayUp' = relayUp)
        /\ UNCHANGED <<topic, committed, queue, wire, stream, connected, markets, ticking, asked>>
    BY <1>6 DEF RelayStarts, Rejoin, pageVars
  <2>1. StartOffset \in 0..Len(topic)
    BY DEF StartOffset
  <2>2. faults' \in 0..MaxFaults
    BY <1>6 DEF RelayStarts, Rejoin, Fault
  <2>3. rewound' \in BOOLEAN
    BY <1>6, Zenon DEF RelayStarts, Rejoin, LosesPosition
  <2> QED  BY <2>0, <2>1, <2>2, <2>3
<1>7. CASE connect \/ Reconnect \/ RetryDue
  BY <1>7 DEF connect, Reconnect, RetryDue, relayVars
<1>5. CASE Opened \/ OpenFails
  BY <1>0, <1>5 DEF Opened, OpenFails, Errors, relayVars
<1>8. CASE NetworkDrops
  <2>1. faults' \in 0..MaxFaults
    BY <1>8 DEF NetworkDrops, Fault
  <2> QED  BY <1>0, <1>8, <2>1 DEF NetworkDrops, Errors, relayVars
<1>9. CASE applyTick
  <2>1. Head(queue) \in 1..Len(topic) /\ Tail(queue) \in Seq(1..Len(topic))
        /\ Len(Tail(queue)) <= QueueDepth
    BY <1>9, SMTT(30) DEF applyTick
  <2>2. markets' \in [Selections -> 0..Len(topic)]
    BY <1>9, <2>1, SMTT(30) DEF applyTick, relayVars
  <2> QED  BY <1>9, <2>1, <2>2 DEF applyTick, relayVars
<1>10. CASE TickRate
  <2>1. ticking' \in BOOLEAN
    BY <1>10, Zenon DEF TickRate
  <2> QED  BY <1>10, <2>1 DEF TickRate, relayVars
<1>11. CASE ReloadBoard
  <2>1. markets' \in [Selections -> 0..Len(topic)]
    BY <1>11 DEF ReloadBoard, relayVars
  <2>2. /\ wire' = "none" /\ stream' = "idle" /\ connected' \in BOOLEAN
        /\ ticking' \in BOOLEAN /\ asked' \in BOOLEAN /\ queue' = <<>>
    BY <1>11 DEF ReloadBoard
  <2> QED  BY <1>0, <1>11, <2>1, <2>2 DEF ReloadBoard, relayVars
<1>12. CASE UNCHANGED feedVars
  BY <1>12 DEF feedVars, relayVars, pageVars
<1> QED  BY <1>1, <1>2, <1>3, <1>4, <1>5, <1>6, <1>7, <1>8, <1>9, <1>10, <1>11, <1>12
         DEF FeedNext, FeedStep

\* A relay that went down and lost no position has committed where it stopped,
\* or nothing yet.
LEMMA StoppedStays ==
    FeedInv /\ [FeedNext]_feedVars => (~relayUp /\ ~rewound => committed \in {pos, NoOffset})'
<1> SUFFICES ASSUME FeedInv, [FeedNext]_feedVars, ~relayUp', ~rewound'
             PROVE  committed' \in {pos', NoOffset}
  OBVIOUS
<1>1. CASE RelayStops \/ RelayCrashes
  BY <1>1 DEF RelayStops, RelayCrashes, Down, LosesPosition
<1>2. CASE ~(RelayStops \/ RelayCrashes)
  <2>1. ~relayUp /\ UNCHANGED <<pos, committed, rewound>>
    BY <1>2 DEF FeedNext, FeedStep, publish_tick, broadcast, commit, RelayStarts, Rejoin, connect,
                Reconnect, Opened, OpenFails, NetworkDrops, RetryDue, applyTick, TickRate,
                ReloadBoard, feedVars, relayVars
  <2> QED  BY <2>1 DEF FeedInv
<1> QED  BY <1>1, <1>2

LEMMA OrderStays ==
    ASSUME FeedInv, [FeedNext]_feedVars, ~rewound'
    PROVE  Ascends(queue, markets, pos)'
<1> USE DEF FeedInv, FeedTypeOK
<1>1. ~rewound
  BY DEF FeedNext, FeedStep, publish_tick, broadcast, commit, RelayStops, RelayCrashes, RelayStarts,
         Rejoin, LosesPosition, Down, connect, Reconnect, Opened, OpenFails, NetworkDrops, RetryDue,
         applyTick, TickRate, ReloadBoard, feedVars
<1>2. Ascends(queue, markets, pos)
  BY <1>1
<1>3. \A k \in Selections : markets[k] <= pos /\ markets[k] \in Nat
  BY <1>2 DEF Ascends
<1>4. CASE broadcast
  <2>1. CASE queue' = Append(queue, pos + 1)
    <3>1. Ascends(Append(queue, pos + 1), markets, pos + 1)
      BY <1>2, AppendAscends, SMTT(30)
    <3> QED  BY <1>4, <2>1, <3>1 DEF broadcast
  <2>2. CASE queue' = <<>>
    <3>1. \A k \in Selections : markets[k] <= pos + 1
      BY <1>3
    <3> QED  BY <1>4, <2>2, <3>1, EmptyAscends DEF broadcast
  <2>3. CASE UNCHANGED queue
    <3>1. \A i \in DOMAIN queue : queue[i] \in Nat
      OBVIOUS
    <3> QED  BY <1>2, <1>3, <1>4, <2>3, <3>1 DEF broadcast, Ascends
  <2> QED  BY <1>4, <2>1, <2>2, <2>3 DEF broadcast
<1>5. CASE RelayStops \/ RelayCrashes \/ Opened \/ NetworkDrops
  <2>1. queue' = <<>> /\ UNCHANGED <<markets, pos>>
    BY <1>5 DEF RelayStops, RelayCrashes, Down, Opened, NetworkDrops, relayVars
  <2> QED  BY <1>3, <2>1, EmptyAscends
<1>6. CASE RelayStarts \/ Rejoin
  <2>1. committed \in {pos, NoOffset}
    BY <1>1, <1>6 DEF RelayStarts, Rejoin, LosesPosition
  <2>2. /\ pos' \in {pos, Len(topic)} /\ UNCHANGED <<queue, markets>>
    BY <1>6, <2>1 DEF RelayStarts, Rejoin, StartOffset, pageVars
  <2>3. Len(topic) \in Nat /\ pos \in Nat /\ pos' \in Nat /\ pos <= pos'
    BY <2>2
  <2> QED  BY <1>2, <2>2, <2>3, AheadAscends
<1>7. CASE applyTick
  <2>1. Ascends(Tail(queue), [markets EXCEPT ![topic[Head(queue)]] = Head(queue)], pos)
    <3>1. queue # <<>> /\ queue \in Seq(1..Len(topic)) /\ Len(topic) \in Nat
          /\ markets \in [Selections -> 0..Len(topic)] /\ pos \in 0..Len(topic)
      BY <1>7, SMTT(30) DEF applyTick
    <3> QED  BY <1>2, <3>1, TailAscends
  <2> QED  BY <1>7, <2>1 DEF applyTick, relayVars
<1>8. CASE ReloadBoard
  <2>1. queue' = <<>> /\ pos' = pos /\ \A k \in Selections : markets'[k] <= pos
    BY <1>8 DEF ReloadBoard, relayVars
  <2> QED  BY <2>1, EmptyAscends
<1>9. CASE \/ \E k \in Selections : publish_tick(k)
           \/ commit \/ connect \/ Reconnect \/ OpenFails \/ RetryDue \/ TickRate
           \/ UNCHANGED feedVars
  <2>1. UNCHANGED <<queue, markets, pos>>
    BY <1>9 DEF publish_tick, commit, connect, Reconnect, OpenFails, RetryDue, TickRate,
                feedVars, relayVars, pageVars
  <2> QED  BY <1>2, <2>1
<1> QED  BY <1>4, <1>5, <1>6, <1>7, <1>8, <1>9 DEF FeedNext, FeedStep

LEMMA FeedStepInv == FeedInv /\ [FeedNext]_feedVars => FeedInv'
  BY FeedTypeStays, StoppedStays, OrderStays DEF FeedInv

\* The invariant holds in every reachable state.
THEOREM FeedInvariance == FeedSafety => []FeedInv
  BY FeedInitInv, FeedStepInv, PTL DEF FeedSafety

--------------------------------------------------------------------------------
(* The properties.                                                          *)

\* Positions, offsets and queued ticks are within the topic, and no queue is
\* longer than its depth (connection_manager.py:52-64).
THEOREM FeedTypeCorrect == FeedSafety => []FeedTypeOK
<1>1. FeedInv => FeedTypeOK
  BY DEF FeedInv
<1> QED  BY <1>1, FeedInvariance, PTL

\* A price on the board is replaced by an older one only after the relay has lost
\* a position past its committed one (odds-websocket.service.ts:55-77,
\* kafka.py:36-50).
THEOREM PricesMoveOn == FeedSafety => OlderPriceNeedsRewind
<1>1. FeedInv /\ [FeedNext]_feedVars
      => [ \/ \A k \in Selections : markets'[k] >= markets[k]
           \/ rewound
           \/ stream' = "idle" ]_feedVars
  <2> SUFFICES ASSUME FeedInv, [FeedNext]_feedVars, ~rewound, stream' # "idle"
               PROVE  \/ \A k \in Selections : markets'[k] >= markets[k]
                      \/ UNCHANGED feedVars
    OBVIOUS
  <2>1. \A k \in Selections : markets[k] \in Nat
    BY DEF FeedInv, FeedTypeOK
  <2>2. CASE applyTick
    <3>1. \A k \in Selections : markets[k] < Head(queue)
      <4>1. queue # <<>> /\ queue \in Seq(1..Len(topic)) /\ Len(topic) \in Nat
            /\ markets \in [Selections -> 0..Len(topic)] /\ pos \in 0..Len(topic)
            /\ Ascends(queue, markets, pos)
        BY <2>2, SMTT(30) DEF applyTick, FeedInv, FeedTypeOK
      <4> QED  BY <4>1, TailAscends
    <3>2. markets' = [markets EXCEPT ![topic[Head(queue)]] = Head(queue)]
      BY <2>2 DEF applyTick
    <3>3. Head(queue) \in Nat
      BY <2>2 DEF applyTick, FeedInv, FeedTypeOK
    <3> QED  BY <2>1, <3>1, <3>2, <3>3 DEF FeedInv, FeedTypeOK
  <2>3. CASE FeedNext /\ ~applyTick
    <3>1. UNCHANGED markets
      BY <2>3 DEF FeedNext, FeedStep, publish_tick, broadcast, commit, RelayStops, RelayCrashes,
                  RelayStarts, Rejoin, Down, connect, Reconnect, Opened, OpenFails, NetworkDrops,
                  RetryDue, TickRate, ReloadBoard, pageVars
    <3> QED  BY <2>1, <3>1
  <2> QED  BY <2>2, <2>3
<1> QED  BY <1>1, FeedInvariance, PTL DEF FeedSafety, OlderPriceNeedsRewind

================================================================================
