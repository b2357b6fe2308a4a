--------------------------------- MODULE Money ---------------------------------
(***************************************************************************)
(* The money arithmetic of the platform.  Amounts are whole cents; decimal *)
(* odds carry four places (Numeric(10, 4) in the bets table, decimal_places*)
(* 4 in BetResultEvent) and are written here in ten-thousandths, so odds   *)
(* of 1.85 are 18500.                                                      *)
(***************************************************************************)
EXTENDS Integers

OddsScale == 10000

\* calculate_payout_cents: Decimal(stake_cents) * odds quantized to whole
\* cents with ROUND_HALF_UP.
PayoutCents(stake, odds) == (stake * odds + OddsScale \div 2) \div OddsScale
================================================================================
