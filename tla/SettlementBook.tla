---------------------------- MODULE SettlementBook ----------------------------
(***************************************************************************)
(* What settlement promises its readers: the bets, wallets and ledger rows *)
(* change only by recording one risk result, once per idempotency key, or  *)
(* by settling accepted bets of one match against one winning selection,   *)
(* each in one atomic step, whatever the number of worker processes and    *)
(* settle-match requests and however they fail.                            *)
(***************************************************************************)
EXTENDS Integers, Sequences, Money, Functions

CONSTANTS Users, Keys, Matches, Selections, WalletSeed

VARIABLES topic, accounts, balance, status, origin, ledger, stakeRows, payoutRows

book == <<accounts, balance, status, origin, ledger, stakeRows, payoutRows>>

Init ==
    /\ accounts = {}
    /\ balance = [u \in Users |-> 0]
    /\ status = [k \in Keys |-> "NONE"]
    /\ origin = [k \in Keys |-> 0]
    /\ ledger = [u \in Users |-> 0]
    /\ stakeRows = [k \in Keys |-> 0]
    /\ payoutRows = [k \in Keys |-> 0]

\* The event at offset o is recorded: an accepted bet takes its stake from a
\* wallet that covers it, a rejected one moves no money.
Record(o) ==
    LET m == topic[o]
        opening == IF m.user \in accounts THEN balance[m.user] ELSE WalletSeed
        stake == IF m.accepted THEN m.stake ELSE 0
    IN  /\ status[m.key] = "NONE"
        /\ m.stake > 0 /\ m.odds > OddsScale
        /\ opening >= stake
        /\ accounts' = accounts \cup {m.user}
        /\ balance' = [balance EXCEPT ![m.user] = opening - stake]
        /\ status' = [status EXCEPT ![m.key] = IF m.accepted THEN "ACCEPTED" ELSE "REJECTED"]
        /\ origin' = [origin EXCEPT ![m.key] = o]
        /\ ledger' = [ledger EXCEPT ![m.user] = @ - stake]
        /\ stakeRows' = [stakeRows EXCEPT ![m.key] = IF m.accepted THEN 1 ELSE 0]
        /\ UNCHANGED <<payoutRows, topic>>

\* The bets S of match x are settled: each is paid once if it backed sel.
Settle(S, x, sel) ==
    LET row(k) == topic[origin[k]]
        winners == {k \in S : row(k).sel = sel}
        pay == [k \in winners |-> PayoutCents(row(k).stake, row(k).odds)]
        gain(u) == SumFunctionOnSet(pay, {k \in winners : row(k).user = u})
    IN  /\ S \subseteq {k \in Keys : status[k] = "ACCEPTED" /\ row(k).match = x}
        /\ status' = [k \in Keys |-> IF k \notin S THEN status[k]
                                     ELSE IF k \in winners THEN "WON" ELSE "LOST"]
        /\ balance' = [u \in Users |-> balance[u] + gain(u)]
        /\ ledger' = [u \in Users |-> ledger[u] + gain(u)]
        /\ payoutRows' = [k \in Keys |-> IF k \in winners THEN 1 ELSE payoutRows[k]]
        /\ UNCHANGED <<accounts, origin, stakeRows, topic>>

Next ==
    \/ \E o \in 1..Len(topic) : Record(o)
    \/ \E S \in SUBSET Keys, x \in Matches, sel \in Selections : Settle(S, x, sel)

Spec == Init /\ [][Next]_<<topic, book>>
================================================================================
