---------------------------- MODULE MCMpesaDeposit ----------------------------
(***************************************************************************)
(* Two deposits of one user, with two callbacks of the first under way at  *)
(* a time.  The other user's id begins with the same eight hex digits.     *)
(***************************************************************************)
EXTENDS MpesaDeposit

CONSTANTS u1, u2, d1, d2, c1, c2, c3

MCUserOf == [d \in Deposits |-> u1]
MCAmount == [d \in Deposits |-> IF d = d1 THEN 1 ELSE 3]
MCCheckoutOf == [c \in Callbacks |-> IF c = c3 THEN d2 ELSE d1]
MCUsername == [u \in Users |-> "user"]
================================================================================
