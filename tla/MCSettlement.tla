---------------------------- MODULE MCSettlement ----------------------------
(***************************************************************************)
(* Settlement on small instances: wallets open with 10 cents, stakes are 4 *)
(* to 7 cents, odds 1.5 and 2.0 (1.0 is the event BetResultEvent refuses). *)
(***************************************************************************)
EXTENDS Settlement, TLC

CONSTANTS w1, w2, r1, r2, u1, u2, u3, k1, k2, k3, k4, m1, m2, home, away

\* u3's id starts with the same eight hex digits as u1's.
UsernameOf == [u \in {u1, u2, u3} |-> IF u = u3 THEN u1 ELSE u]

event(k, u, m, sel, stake, odds, accepted) ==
    [key |-> k, user |-> u, match |-> m, sel |-> sel,
     stake |-> stake, odds |-> odds, accepted |-> accepted]

\* Two winners of different users and a redelivered event.
TwoUsers == <<event(k1, u1, m1, home, 5, 15000, TRUE),
              event(k2, u2, m1, home, 4, 20000, TRUE),
              event(k1, u1, m1, home, 5, 15000, TRUE)>>
\* Two bets of one user, more than the wallet holds, and another selection
\* under the key of the first.
OneUser == <<event(k1, u1, m1, home, 7, 15000, TRUE),
             event(k1, u1, m1, away, 6, 15000, TRUE),
             event(k2, u1, m1, home, 4, 20000, TRUE)>>
\* A bet risk refused, a bet at even odds and a user whose name is taken.
Refused == <<event(k1, u1, m1, home, 5, 15000, FALSE),
             event(k2, u1, m1, home, 5, 10000, TRUE),
             event(k2, u3, m1, home, 5, 15000, TRUE)>>
WorkerTopics == {TwoUsers, OneUser, Refused}

SoundTopics == {TwoUsers}

\* Two matches on which the same two users hold the winning bets.
TwoMatches == <<event(k1, u1, m1, home, 5, 15000, TRUE),
                event(k2, u2, m1, home, 4, 20000, TRUE),
                event(k3, u1, m2, home, 5, 20000, TRUE),
                event(k4, u2, m2, home, 3, 15000, TRUE)>>
\* One match, three bets; the middle event is never persisted.
Overdrawn == <<event(k1, u1, m1, home, 7, 15000, TRUE),
               event(k3, u1, m2, home, 7, 15000, TRUE),
               event(k2, u2, m1, away, 4, 20000, TRUE)>>
SettleTopics == {TwoMatches, Overdrawn}

\* The same steps, with requests that arrive once the events that are there
\* have been gone through.
Drained == \E w \in Workers : wpc[w] = "poll" /\ pos[w] > Len(topic)
NextSettleLater ==
    \/ \E w \in Workers : WorkerStep(w)
    \/ \E r \in Requests : \/ Drained /\ BeginSettle(r)
                          \/ RequestProgress(r)
                          \/ AbortSettle(r)
SettleLaterSpec == Init /\ [][NextSettleLater]_vars /\ Fairness

Symmetry == Permutations({w1, w2})
=============================================================================
