------------------------------ MODULE DepositBook ------------------------------
(***************************************************************************)
(* What M-Pesa deposits promise their readers: a deposit the gateway was   *)
(* asked for is pending once, and then either credited once with its whole *)
(* amount, wallet and ledger in the same step, because the customer paid,  *)
(* or failed because the customer did not, whatever the number of          *)
(* callbacks and however the handlers fail.                                *)
(***************************************************************************)
EXTENDS Integers

CONSTANTS Users, Deposits, UserOf, Amount, WalletSeed

VARIABLES accounts, balance, ledger, status, outcome

book == <<accounts, balance, ledger, status, outcome>>

Init ==
    /\ accounts = {}
    /\ balance = [u \in Users |-> 0]
    /\ ledger = [u \in Users |-> 0]
    /\ status = [d \in Deposits |-> "NONE"]
    /\ outcome = [d \in Deposits |-> "none"]

\* A wallet is opened, empty by a deposit and seeded by the settlement worker.
Open(u) ==
    /\ u \notin accounts
    /\ accounts' = accounts \cup {u}
    /\ \E seed \in {0, WalletSeed} : balance' = [balance EXCEPT ![u] = seed]
    /\ UNCHANGED <<ledger, status, outcome>>

\* The gateway takes the request, or the customer pays or does not.
Ask(d) ==
    /\ outcome[d] = "none"
    /\ outcome' = [outcome EXCEPT ![d] = "asked"]
    /\ UNCHANGED <<accounts, balance, ledger, status>>
Decide(d) ==
    /\ outcome[d] = "asked"
    /\ \E o \in {"paid", "failed"} : outcome' = [outcome EXCEPT ![d] = o]
    /\ UNCHANGED <<accounts, balance, ledger, status>>

Record(d) ==
    /\ status[d] = "NONE"
    /\ outcome[d] # "none"
    /\ UserOf[d] \in accounts
    /\ status' = [status EXCEPT ![d] = "PENDING"]
    /\ UNCHANGED <<accounts, balance, ledger, outcome>>

Credit(d) ==
    /\ status[d] = "PENDING"
    /\ outcome[d] = "paid"
    /\ status' = [status EXCEPT ![d] = "SUCCESS"]
    /\ balance' = [balance EXCEPT ![UserOf[d]] = @ + Amount[d] * 100]
    /\ ledger' = [ledger EXCEPT ![UserOf[d]] = @ + Amount[d] * 100]
    /\ UNCHANGED <<accounts, outcome>>

Fail(d) ==
    /\ status[d] = "PENDING"
    /\ outcome[d] = "failed"
    /\ status' = [status EXCEPT ![d] = "FAILED"]
    /\ UNCHANGED <<accounts, balance, ledger, outcome>>

Next ==
    \/ \E u \in Users : Open(u)
    \/ \E d \in Deposits : Ask(d) \/ Decide(d) \/ Record(d) \/ Credit(d) \/ Fail(d)

Spec == Init /\ [][Next]_book
================================================================================
