----------------------------- MODULE MpesaDeposit -----------------------------
(***************************************************************************)
(* M-Pesa deposits in settlement_service: the STK push request             *)
(* (app/mpesa_routes.py, stk_push_deposit), the OAuth token cache it goes  *)
(* through (app/mpesa.py), and the gateway's callbacks                     *)
(* (mpesa_stk_callback), with the gateway, PostgreSQL and the settlement   *)
(* worker's first insert of a wallet as their environment.                 *)
(*                                                                         *)
(* One asyncio process serves all requests and callbacks; they interleave  *)
(* at awaits.  A deposit is one STK push request and the checkout it leads *)
(* to; a callback is one of the deliveries the gateway may have under way  *)
(* at a time.  refresh_lock is an asyncio.Lock, which is first come, first *)
(* served: the head of its queue holds it.                                 *)
(***************************************************************************)
EXTENDS Integers, Sequences

CONSTANTS
    Users, Deposits, Callbacks,
    UserOf, Amount,      \* of a deposit; whole KES
    CheckoutOf,          \* the deposit a callback is about
    Username,            \* the username derived from a user id
    WalletSeed,          \* opening balance of a wallet the worker creates
    Nobody,              \* no callback
    MaxFaults            \* bound: restarts, failed calls and lost answers

ASSUME DepositAssumption == /\ UserOf \in [Deposits -> Users]
                            /\ Amount \in [Deposits -> Nat \ {0}]
                            /\ CheckoutOf \in [Callbacks -> Deposits]
ASSUME SeedAssumption    == WalletSeed \in Nat
ASSUME NobodyAssumption  == Nobody \notin Callbacks
ASSUME FaultsAssumption  == MaxFaults \in Nat

VARIABLES
    \* committed rows
    accounts,     \* users with a users row and a wallets row
    opening,      \* what a wallet was opened with
    balance,      \* wallets.balance_cents
    ledger,       \* sum of wallet_ledger.amount_cents per user
    status,       \* mpesa_transactions.status, "NONE" without a row
    \* row locks
    txnLock, walletLock,
    \* MpesaOAuthCache
    fresh,        \* there is a token, and its expiry is further away than the skew
    queue,        \* refresh_lock: its holder, then those waiting for it
    \* STK push requests
    rpc, forced,
    \* the gateway
    outcome,      \* of a checkout
    acked,        \* checkouts with an acknowledged callback
    \* callback handlers
    cpc, written, \* written: the balance_cents an open transaction has set
    \* history and bounds
    early,        \* checkouts with a callback handled before their row was there
    faults

rows    == <<accounts, opening, balance, ledger, status>>
locks   == <<txnLock, walletLock>>
oauth   == <<fresh, queue>>
push    == <<rpc, forced>>
gateway == <<outcome, acked>>
handler == <<cpc, written>>
vars    == <<rows, locks, oauth, push, gateway, handler, early, faults>>

Statuses == {"NONE", "PENDING", "SUCCESS", "FAILED"}

TypeOK ==
    /\ accounts \subseteq Users
    /\ opening \in [Users -> {0, WalletSeed}]
    /\ balance \in [Users -> Nat]
    /\ ledger \in [Users -> Nat]
    /\ status \in [Deposits -> Statuses]
    /\ txnLock \in [Deposits -> Callbacks \cup {Nobody}]
    /\ walletLock \in [Users -> Callbacks \cup {Nobody}]
    /\ fresh \in BOOLEAN
    /\ queue \in Seq(Deposits)
    /\ rpc \in [Deposits -> {"new", "token", "lock", "fetch", "push", "record",
                             "done", "failed"}]
    /\ forced \in [Deposits -> BOOLEAN]
    /\ outcome \in [Deposits -> {"none", "asked", "paid", "failed"}]
    /\ acked \subseteq Deposits
    /\ cpc \in [Callbacks -> {"idle", "lookup", "credit", "close", "answer"}]
    /\ written \in [Callbacks -> Nat]
    /\ early \subseteq Deposits
    /\ faults \in 0..MaxFaults

Init ==
    /\ accounts = {}
    /\ opening = [u \in Users |-> 0]
    /\ balance = [u \in Users |-> 0]
    /\ ledger = [u \in Users |-> 0]
    /\ status = [d \in Deposits |-> "NONE"]
    /\ txnLock = [d \in Deposits |-> Nobody]
    /\ walletLock = [u \in Users |-> Nobody]
    /\ fresh = FALSE
    /\ queue = <<>>
    /\ rpc = [d \in Deposits |-> "new"]
    /\ forced = [d \in Deposits |-> FALSE]
    /\ outcome = [d \in Deposits |-> "none"]
    /\ acked = {}
    /\ cpc = [c \in Callbacks |-> "idle"]
    /\ written = [c \in Callbacks |-> 0]
    /\ early = {}
    /\ faults = 0

Fault == faults < MaxFaults /\ faults' = faults + 1

--------------------------------------------------------------------------------
(* Accounts.                                                                *)

NameFree(u) == \A v \in accounts \ {u} : Username[v] # Username[u]

\* INSERT ... ON CONFLICT DO NOTHING of the user and the wallet.
OpenAccount(u, seed) ==
    IF u \in accounts
    THEN UNCHANGED <<accounts, opening, balance>>
    ELSE /\ accounts' = accounts \cup {u}
         /\ opening' = [opening EXCEPT ![u] = seed]
         /\ balance' = [balance EXCEPT ![u] = seed]

\* The settlement worker opens the wallet of a user whose bet comes first.
WorkerOpens(u) ==
    /\ u \notin accounts
    /\ NameFree(u)
    /\ OpenAccount(u, WalletSeed)
    /\ UNCHANGED <<ledger, status, locks, oauth, push, gateway, handler, early, faults>>

--------------------------------------------------------------------------------
(* STK push: stk_push_deposit and initiate_stk_push.                        *)

Goto(d, stage) == rpc' = [rpc EXCEPT ![d] = stage]

\* The request's first transaction; a username that another user has is an
\* IntegrityError.
Open(d) ==
    /\ rpc[d] = "new"
    /\ IF NameFree(UserOf[d])
       THEN OpenAccount(UserOf[d], 0) /\ Goto(d, "token")
       ELSE UNCHANGED <<accounts, opening, balance>> /\ Goto(d, "failed")
    /\ UNCHANGED <<ledger, status, locks, oauth, forced, gateway, handler, early, faults>>

\* get_access_token up to the lock: the cached token, or a place in its queue.
AskToken(d) ==
    /\ rpc[d] = "token"
    /\ IF fresh THEN Goto(d, "push") /\ UNCHANGED queue
                ELSE Goto(d, "lock") /\ queue' = Append(queue, d)
    /\ UNCHANGED <<rows, locks, fresh, forced, gateway, handler, early, faults>>

NoSecondLook(d) == TRUE
\* The second look at the cache, under the lock.
StillNeeded(d) == forced[d] \/ ~fresh

TakeLock(d) ==
    /\ rpc[d] = "lock"
    /\ queue # <<>>
    /\ Head(queue) = d
    /\ IF StillNeeded(d) THEN Goto(d, "fetch") /\ UNCHANGED queue
                         ELSE Goto(d, "push") /\ queue' = Tail(queue)
    /\ UNCHANGED <<rows, locks, fresh, forced, gateway, handler, early, faults>>

\* fetch_oauth_token has its answer.  A token whose expires_in is within the
\* skew is not fresh for anybody else.
FetchToken(d) ==
    /\ rpc[d] = "fetch"
    /\ fresh' \in BOOLEAN
    /\ queue' = Tail(queue)
    /\ Goto(d, "push")
    /\ UNCHANGED <<rows, locks, forced, gateway, handler, early, faults>>

\* Time passes.
TokenExpires ==
    /\ fresh
    /\ fresh' = FALSE
    /\ UNCHANGED <<rows, locks, queue, push, gateway, handler, early, faults>>

\* The gateway accepts the push and asks the customer, or rejects it; at the
\* first 401 a new token is fetched and the push repeated, at the second the
\* request fails.
Push(d) ==
    /\ rpc[d] = "push"
    /\ \/ /\ outcome' = [outcome EXCEPT ![d] = "asked"]
          /\ Goto(d, "record")
          /\ UNCHANGED <<queue, forced>>
       \/ /\ Goto(d, "failed")
          /\ UNCHANGED <<queue, forced, outcome>>
       \/ /\ ~forced[d]
          /\ forced' = [forced EXCEPT ![d] = TRUE]
          /\ queue' = Append(queue, d)
          /\ Goto(d, "lock")
          /\ UNCHANGED outcome
    /\ UNCHANGED <<rows, locks, fresh, acked, handler, early, faults>>

\* The second transaction of the request: the PENDING row.
Record(d) ==
    /\ rpc[d] = "record"
    /\ status' = [status EXCEPT ![d] = "PENDING"]
    /\ Goto(d, "done")
    /\ UNCHANGED <<accounts, opening, balance, ledger, locks, oauth, forced, gateway,
                   handler, early, faults>>

LockKept == queue
\* async with gives the lock back.
LockReturned == Tail(queue)

\* A call of the request fails or times out.  At "record" the gateway has
\* accepted the push: its answer is lost, or the insert fails.
RequestFails(d) ==
    /\ rpc[d] \in {"new", "token", "fetch", "push", "record"}
    /\ Fault
    /\ Goto(d, "failed")
    /\ queue' = IF rpc[d] = "fetch" THEN LockReturned ELSE queue
    /\ UNCHANGED <<rows, locks, fresh, forced, gateway, handler, early>>

--------------------------------------------------------------------------------
(* The gateway.                                                             *)

\* The customer pays, or declines, or has no funds, or does not answer.
Resolve(d) ==
    /\ outcome[d] = "asked"
    /\ \E o \in {"paid", "failed"} : outcome' = [outcome EXCEPT ![d] = o]
    /\ UNCHANGED <<rows, locks, oauth, push, acked, handler, early, faults>>

\* The result is sent to the callback URL, any number of times.
Send(c) ==
    /\ cpc[c] = "idle"
    /\ outcome[CheckoutOf[c]] \in {"paid", "failed"}
    /\ cpc' = [cpc EXCEPT ![c] = "lookup"]
    /\ UNCHANGED <<rows, locks, oauth, push, gateway, written, early, faults>>

--------------------------------------------------------------------------------
(* mpesa_stk_callback.                                                      *)

Txn(c) == CheckoutOf[c]
Payer(c) == UserOf[CheckoutOf[c]]

AnyRow(c) == status[Txn(c)] # "NONE"
Settleable(c) == status[Txn(c)] = "PENDING"

\* SELECT ... FOR UPDATE waits for a handler of the same checkout and then sees
\* what it committed.  No row, or one no longer PENDING, is acknowledged.
Lookup(c) ==
    /\ cpc[c] = "lookup"
    /\ txnLock[Txn(c)] = Nobody
    /\ IF Settleable(c)
       THEN /\ txnLock' = [txnLock EXCEPT ![Txn(c)] = c]
            /\ cpc' = [cpc EXCEPT ![c] = IF outcome[Txn(c)] = "paid" THEN "credit" ELSE "close"]
            /\ UNCHANGED early
       ELSE /\ cpc' = [cpc EXCEPT ![c] = "answer"]
            /\ early' = IF status[Txn(c)] = "NONE" THEN early \cup {Txn(c)} ELSE early
            /\ UNCHANGED txnLock
    /\ UNCHANGED <<rows, walletLock, oauth, push, gateway, written, faults>>

NoRowLock(c) == TRUE
WalletFree(c) == walletLock[Payer(c)] = Nobody

AmountCents(d) == Amount[d] * 100

\* UPDATE wallets SET balance_cents = balance_cents + amount_cents: waits for
\* the row, and holds it until the transaction ends.  The row is there: a PENDING
\* deposit is of a user with an account (Book!Record), and nothing deletes one.
CreditWallet(c) ==
    /\ cpc[c] = "credit"
    /\ WalletFree(c)
    /\ walletLock' = [walletLock EXCEPT ![Payer(c)] = c]
    /\ written' = [written EXCEPT ![c] = balance[Payer(c)] + AmountCents(Txn(c))]
    /\ cpc' = [cpc EXCEPT ![c] = "close"]
    /\ UNCHANGED <<rows, txnLock, oauth, push, gateway, early, faults>>

\* The end of a transaction releases its row locks.
Release(c) ==
    /\ txnLock' = [d \in Deposits |-> IF txnLock[d] = c THEN Nobody ELSE txnLock[d]]
    /\ walletLock' = [u \in Users |-> IF walletLock[u] = c THEN Nobody ELSE walletLock[u]]
    /\ written' = [written EXCEPT ![c] = 0]

RawOutcome(d) == outcome[d]
OnlySuccess(d) == IF outcome[d] = "paid" THEN "SUCCESS" ELSE "PENDING"
FinalStatus(d) == IF outcome[d] = "paid" THEN "SUCCESS" ELSE "FAILED"

\* Flush and COMMIT: the final status, and for a paid deposit the wallet and a
\* DEPOSIT row in the ledger.
Close(c) ==
    LET d == Txn(c)
        u == Payer(c)
    IN  /\ cpc[c] = "close"
        /\ status' = [status EXCEPT ![d] = FinalStatus(d)]
        /\ IF outcome[d] = "paid"
           THEN /\ balance' = [balance EXCEPT ![u] = written[c]]
                /\ ledger' = [ledger EXCEPT ![u] = @ + AmountCents(d)]
           ELSE UNCHANGED <<balance, ledger>>
        /\ Release(c)
        /\ cpc' = [cpc EXCEPT ![c] = "answer"]
        /\ UNCHANGED <<accounts, opening, oauth, push, gateway, early, faults>>

\* The gateway reads the 200.
Answer(c) ==
    /\ cpc[c] = "answer"
    /\ cpc' = [cpc EXCEPT ![c] = "idle"]
    /\ acked' = acked \cup {Txn(c)}
    /\ UNCHANGED <<rows, locks, oauth, push, outcome, written, early, faults>>

Swallowed == "answer"
\* An exception leaves session.begin() and becomes an error answer.
AfterError == "idle"

\* A statement or the commit fails and the transaction is rolled back.
DatabaseError(c) ==
    /\ cpc[c] \in {"lookup", "credit", "close"}
    /\ Fault
    /\ Release(c)
    /\ cpc' = [cpc EXCEPT ![c] = AfterError]
    /\ UNCHANGED <<rows, oauth, push, gateway, early>>

\* The callback is lost on its way, or the answer comes too late or not at all,
\* that of a commit too whose success the handler has not learned of.
Lost(c) ==
    /\ cpc[c] \in {"lookup", "answer"}
    /\ Fault
    /\ cpc' = [cpc EXCEPT ![c] = "idle"]
    /\ UNCHANGED <<rows, locks, oauth, push, gateway, written, early>>

--------------------------------------------------------------------------------
\* The process ends and is started again: open transactions roll back, requests
\* under way are gone, and so is the token.
Restart ==
    /\ Fault
    /\ rpc' = [d \in Deposits |-> IF rpc[d] \in {"new", "done"} THEN rpc[d] ELSE "failed"]
    /\ queue' = <<>>
    /\ fresh' = FALSE
    /\ cpc' = [c \in Callbacks |-> "idle"]
    /\ written' = [c \in Callbacks |-> 0]
    /\ txnLock' = [d \in Deposits |-> Nobody]
    /\ walletLock' = [u \in Users |-> Nobody]
    /\ UNCHANGED <<rows, forced, gateway, early>>

PushStep(d) == \/ AskToken(d) \/ TakeLock(d) \/ FetchToken(d) \/ Push(d) \/ Record(d)
HandlerStep(c) == Lookup(c) \/ CreditWallet(c) \/ Close(c) \/ Answer(c)

Next ==
    \/ \E u \in Users : WorkerOpens(u)
    \/ \E d \in Deposits : Open(d) \/ PushStep(d) \/ RequestFails(d) \/ Resolve(d)
    \/ \E c \in Callbacks : Send(c) \/ HandlerStep(c) \/ DatabaseError(c) \/ Lost(c)
    \/ TokenExpires
    \/ Restart

Spec == Init /\ [][Next]_vars

\* The process runs its requests and handlers (every HTTP call has a timeout),
\* and the gateway sends a result until it is acknowledged (docs/MPESA.md:366).
Resend(c) == CheckoutOf[c] \notin acked /\ Send(c)
Fairness == /\ \A d \in Deposits : WF_vars(PushStep(d))
            /\ \A c \in Callbacks : WF_vars(HandlerStep(c)) /\ WF_vars(Resend(c))
FairSpec == Spec /\ Fairness

--------------------------------------------------------------------------------
(* Properties.                                                              *)

\* A wallet is what it was opened with and its ledger rows, whichever of the
\* worker and a deposit opened it, and whatever two deposits of one user,
\* repeated callbacks and rolled back handlers do at once (mpesa_routes.py:128-147).
WalletExplained == \A u \in Users : balance[u] = opening[u] + ledger[u]

\* At most one token request is on its way, and one that was not forced by a 401
\* only while the cached token is of no use: the requests that waited for the
\* lock take the token of the one before them (mpesa.py:96-107).
OneFetch ==
    \A d \in Deposits : rpc[d] = "fetch" =>
        /\ \A e \in Deposits : rpc[e] = "fetch" => e = d
        /\ ~forced[d] => ~fresh

\* A checkout whose callback the gateway has seen acknowledged is settled, unless
\* a callback was handled before its row was there: nobody acknowledges on the
\* strength of another handler's transaction that may still roll back
\* (mpesa_routes.py:109-117).
AcknowledgedIsSettled ==
    \A d \in acked : status[d] \in {"SUCCESS", "FAILED"} \/ d \in early

\* A recorded deposit the customer has decided on reaches its final status,
\* unless a callback of it came before the record.
CallbackSettles ==
    \A d \in Deposits :
        status[d] = "PENDING" /\ outcome[d] \in {"paid", "failed"} /\ d \notin early
            ~> status[d] \in {"SUCCESS", "FAILED"}

\* Every STK push request is answered: neither a failed token request nor a 401
\* leaves the others waiting for the lock.
RequestsEnd == \A d \in Deposits : rpc[d] # "new" ~> rpc[d] \in {"done", "failed"}

\* Deposits are pending, credited and failed as in the book.
Book == INSTANCE DepositBook
ImplementsBook == Book!Spec

\* A paid and recorded deposit is credited, also when the callback arrives before
\* the commit of the record (README.md:133, docs/MPESA.md:381-392).
PaidIsCredited ==
    \A d \in Deposits : outcome[d] = "paid" /\ status[d] = "PENDING" ~> status[d] = "SUCCESS"
================================================================================
