------------------------------ MODULE RiskLedger ------------------------------
(***************************************************************************)
(* What the risk engine promises: an account opens with a balance, and     *)
(* every accepted bet takes its stake from what is left of it and its      *)
(* potential payout from what is left of the exposure cap, in one atomic   *)
(* step.  Refused bets do not show.                                        *)
(***************************************************************************)
EXTENDS Integers

CONSTANTS Accounts, Cap

VARIABLES
    seed,      \* opening balance
    spent,     \* stakes of the accepted bets
    promised   \* potential payouts of the accepted bets

Init ==
    /\ seed = [a \in Accounts |-> 0]
    /\ spent = [a \in Accounts |-> 0]
    /\ promised = [a \in Accounts |-> 0]

Open(a, amount) ==
    /\ spent[a] = 0
    /\ seed' = [seed EXCEPT ![a] = amount]
    /\ UNCHANGED <<spent, promised>>

Accept(a, stake, payout) ==
    /\ 0 < stake /\ spent[a] + stake <= seed[a]
    /\ stake <= payout /\ promised[a] + payout <= Cap
    /\ spent' = [spent EXCEPT ![a] = @ + stake]
    /\ promised' = [promised EXCEPT ![a] = @ + payout]
    /\ UNCHANGED seed

\* Amounts enter and leave as the variables' own differences, so that the
\* step relation needs no bound on them.
Next ==
    \E a \in Accounts :
        \/ Open(a, seed'[a])
        \/ Accept(a, spent'[a] - spent[a], promised'[a] - promised[a])

Spec == Init /\ [][Next]_<<seed, spent, promised>>
================================================================================
