----------------------------- MODULE MCRiskEngine -----------------------------
(***************************************************************************)
(* RiskEngine on a small instance: 4-bit amounts, a cap of 8 and balances  *)
(* of 5 or 7, so that two bets of one account exceed now the balance, now  *)
(* the cap, and the largest payout overflows a sum.                        *)
(***************************************************************************)
EXTENDS RiskEngine

CONSTANTS t1, t2, t3, acme, zeta

payload(a, stake, payout) ==
    [account |-> a, stake |-> stake, payout |-> payout, wellFormed |-> TRUE]

SmallBets == {payload(acme, 3, 4),          \* two fit
              payload(acme, 4, 6),          \* one fits under the cap
              payload(acme, 2, MaxInt),     \* over the cap, and over MaxInt as a sum
              payload(zeta, 2, 2),
              payload(acme, 3, 2)}          \* a payout below the stake
================================================================================
