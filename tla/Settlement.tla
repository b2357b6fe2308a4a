------------------------------ MODULE Settlement ------------------------------
(***************************************************************************)
(* settlement_service: the worker processes that persist bets-results      *)
(* events (app/worker.py) and the settle-match requests that pay bets out  *)
(* (app/settlement.py), on one PostgreSQL database.                        *)
(*                                                                         *)
(* Every SQL statement is a step of its own, so that transactions          *)
(* interleave as READ COMMITTED lets them: a statement sees what is        *)
(* committed when it runs, an UPDATE or an INSERT of an account row waits  *)
(* for the transaction that holds the row, the effects of a transaction    *)
(* appear at its commit, and a rollback leaves no trace.  The flush of the *)
(* ORM rows happens inside the commit (sessions have autoflush off) and    *)
(* waits for nothing afterwards, so flush and commit are one step.         *)
(***************************************************************************)
EXTENDS Integers, Sequences, FiniteSets, Functions, Money

CONSTANTS
    Workers,      \* settlement_worker processes of one consumer group
    Requests,     \* POST /settle-match requests, each with its own session
    Users, Keys, Matches, Selections,
    Username,     \* the username the worker derives from a user id
    Topics,       \* what the bets-results partition may hold
    WalletSeed,   \* opening balance of a wallet the worker creates
    Nobody,       \* no transaction, no owner
    MaxBatch,     \* getmany(max_records = 100)
    MaxFaults,    \* bound: crashes, database errors, lost answers, aborts
    MaxMoves      \* bound: rebalances that take the partition from its owner

\* A bets-results event as BetResultEvent reads it.  "accepted" stands for
\* accepted /\ reason_code = "ACCEPTED", the test of _status_from_result.
Result == [key : Keys, user : Users, match : Matches, sel : Selections,
           stake : Nat, odds : Nat, accepted : BOOLEAN]

ASSUME ActorsAssumption == /\ Nobody \notin Workers \cup Requests
                           /\ Workers \cap Requests = {}
ASSUME TopicsAssumption == Topics \subseteq Seq(Result)
ASSUME SeedAssumption   == WalletSeed \in Nat
ASSUME BoundsAssumption == /\ MaxBatch \in Nat \ {0}
                           /\ MaxFaults \in Nat
                           /\ MaxMoves \in Nat

VARIABLES
    \* committed rows
    accounts,     \* users with a users row and a wallets row
    balance,      \* wallets.balance_cents
    status,       \* bets.status per idempotency_key, "NONE" without a row
    origin,       \* offset of the event whose content the bets row holds
    ledger,       \* sum of wallet_ledger.amount_cents per user
    stakeRows,    \* number of BET_STAKE rows per bet
    payoutRows,   \* number of BET_PAYOUT rows per bet
    \* row locks
    walletLock, betLock,
    \* the topic and the consumer group
    topic, owner, committed,
    \* worker processes
    wpc, cur, last, pos,
    \* settle-match requests
    rpc, match, winner, scan, todo, won, credit, rows, skipped,
    \* history and bounds
    dropped,      \* offsets of which some attempt ended without a row
    faults, moves

db       == <<accounts, balance, status, origin, ledger, stakeRows, payoutRows>>
locks    == <<walletLock, betLock>>
kafka    == <<topic, owner, committed>>
worker   == <<wpc, cur, last, pos>>
request  == <<rpc, match, winner, scan, todo, won, credit, rows, skipped>>
bounds   == <<faults, moves>>
vars     == <<db, locks, kafka, worker, request, dropped, bounds>>

Offsets == 1..Len(topic)
Event(w) == topic[cur[w]]          \* the event worker w is processing
RowOf(k) == topic[origin[k]]       \* the content of the bets row of k

\* The states of a worker inside session.begin().
InTx == {"check", "ensure", "debit", "write"}
WorkerStates == InTx \cup {"down", "poll", "ack"}
RequestStates == {"new", "scan", "pay", "done", "aborted"}
Statuses == {"NONE", "ACCEPTED", "REJECTED", "WON", "LOST"}

DbType ==
    /\ accounts \subseteq Users
    /\ balance \in [Users -> Int]
    /\ status \in [Keys -> Statuses]
    /\ origin \in [Keys -> 0..Len(topic)]
    /\ ledger \in [Users -> Int]
    /\ stakeRows \in [Keys -> Nat]
    /\ payoutRows \in [Keys -> Nat]
LockType ==
    /\ walletLock \in [Users -> Workers \cup Requests \cup {Nobody}]
    /\ betLock \in [Keys -> Requests \cup {Nobody}]
KafkaType ==
    /\ topic \in Seq(Result)
    /\ owner \in Workers \cup {Nobody}
    /\ committed \in 1..(Len(topic) + 1)
WorkerType ==
    /\ wpc \in [Workers -> WorkerStates]
    /\ cur \in [Workers -> 0..Len(topic)]
    /\ last \in [Workers -> 0..Len(topic)]
    /\ pos \in [Workers -> 1..(Len(topic) + 1)]
RequestType ==
    /\ rpc \in [Requests -> RequestStates]
    /\ match \in [Requests -> Matches]
    /\ winner \in [Requests -> Selections]
    /\ scan \in [Requests -> SUBSET Keys]
    /\ todo \in [Requests -> SUBSET Keys]
    /\ won \in [Requests -> SUBSET Keys]
    /\ credit \in [Requests -> [Users -> Nat]]
    /\ rows \in [Requests -> [Users -> Nat]]
    /\ skipped \in [Requests -> SUBSET Keys]
HistoryType == dropped \subseteq Offsets /\ faults \in Nat /\ moves \in Nat

\* Types, and that no offset ever leaves the log: fetching, advancing in a
\* batch and committing stay within the messages that are there.
TypeOK == DbType /\ LockType /\ KafkaType /\ WorkerType /\ RequestType /\ HistoryType

Init ==
    /\ accounts = {}
    /\ balance = [u \in Users |-> 0]
    /\ status = [k \in Keys |-> "NONE"]
    /\ origin = [k \in Keys |-> 0]
    /\ ledger = [u \in Users |-> 0]
    /\ stakeRows = [k \in Keys |-> 0]
    /\ payoutRows = [k \in Keys |-> 0]
    /\ walletLock = [u \in Users |-> Nobody]
    /\ betLock = [k \in Keys |-> Nobody]
    /\ topic \in Topics
    /\ owner = Nobody
    /\ committed = 1                      \* auto_offset_reset = "earliest"
    /\ wpc = [w \in Workers |-> "down"]
    /\ cur = [w \in Workers |-> 0]
    /\ last = [w \in Workers |-> 0]
    /\ pos = [w \in Workers |-> 1]
    /\ rpc = [r \in Requests |-> "new"]
    /\ match \in [Requests -> Matches]
    /\ winner \in [Requests -> Selections]
    /\ scan = [r \in Requests |-> {}]
    /\ todo = [r \in Requests |-> {}]
    /\ won = [r \in Requests |-> {}]
    /\ credit = [r \in Requests |-> [u \in Users |-> 0]]
    /\ rows = [r \in Requests |-> [u \in Users |-> 0]]
    /\ skipped = [r \in Requests |-> {}]
    /\ dropped = {}
    /\ faults = 0
    /\ moves = 0

--------------------------------------------------------------------------------
(* The consumer loop of run_worker and the consumer group it belongs to.   *)

Release(t) ==
    walletLock' = [u \in Users |-> IF walletLock[u] = t THEN Nobody ELSE walletLock[u]]

GoTo(w, label) == wpc' = [wpc EXCEPT ![w] = label]

OneTooMany(w) == cur[w] <= last[w]
MoreInBatch(w) == cur[w] < last[w]

\* The next message of the batch, or the next getmany.
NextMessage(w) ==
    /\ GoTo(w, IF MoreInBatch(w) THEN "check" ELSE "poll")
    /\ cur' = [cur EXCEPT ![w] = IF MoreInBatch(w) THEN @ + 1 ELSE 0]
    /\ last' = [last EXCEPT ![w] = IF MoreInBatch(w) THEN @ ELSE 0]
    /\ UNCHANGED pos

\* The process ends: its transaction rolls back, its batch is forgotten and
\* the group takes the partition back.
Die(w) ==
    /\ Release(w)
    /\ GoTo(w, "down")
    /\ cur' = [cur EXCEPT ![w] = 0]
    /\ last' = [last EXCEPT ![w] = 0]
    /\ pos' = [pos EXCEPT ![w] = 1]
    /\ owner' = IF owner = w THEN Nobody ELSE owner

Start(w) ==
    /\ wpc[w] = "down"
    /\ GoTo(w, "poll")
    /\ UNCHANGED <<db, locks, kafka, cur, last, pos, request, dropped, bounds>>

\* The group gives the partition to w, which fetches from the committed
\* offset.  A worker that holds messages it fetched before goes on with them.
Assign(w) ==
    /\ wpc[w] # "down"
    /\ owner # w
    /\ \/ owner = Nobody /\ UNCHANGED moves
       \/ owner # Nobody /\ moves < MaxMoves /\ moves' = moves + 1
    /\ owner' = w
    /\ pos' = [pos EXCEPT ![w] = committed]
    /\ UNCHANGED <<db, locks, topic, committed, wpc, cur, last, request, dropped, faults>>

\* getmany: some messages from the fetch position on, at most MaxBatch.
Fetch(w) ==
    /\ wpc[w] = "poll"
    /\ owner = w
    /\ \E end \in Offsets :
         /\ pos[w] <= end
         /\ end < pos[w] + MaxBatch
         /\ cur' = [cur EXCEPT ![w] = pos[w]]
         /\ last' = [last EXCEPT ![w] = end]
         /\ pos' = [pos EXCEPT ![w] = end + 1]
    /\ GoTo(w, "check")
    /\ UNCHANGED <<db, locks, kafka, request, dropped, bounds>>

\* The offset handed to commit.
CommitPastBatch(w) == last[w] + 1
CommitOffset(w) == cur[w] + 1

\* consumer.commit after a message.  Committing a partition the worker no
\* longer owns raises outside the try block and ends run_worker.
Ack(w) ==
    /\ wpc[w] = "ack"
    /\ \/ /\ owner = w
          /\ committed' = CommitOffset(w)
          /\ NextMessage(w)
          /\ UNCHANGED <<owner, walletLock>>
       \/ /\ owner # w
          /\ Die(w)
          /\ UNCHANGED committed
    /\ UNCHANGED <<db, betLock, topic, request, dropped, bounds>>

--------------------------------------------------------------------------------
(* process_raw_message and process_bet_result_event.                       *)

\* The constraints BetResultEvent puts on stake_cents and odds.
Valid(m) == m.stake > 0 /\ m.odds > OddsScale

RetryMessage(w) == GoTo(w, "check") /\ UNCHANGED <<cur, last, pos>>
\* "continue": the offset stays uncommitted and the next message is next.
SkipMessage(w) == NextMessage(w)

\* The attempt ends in an exception, and the transaction rolls back.
Fail(w) ==
    /\ Release(w)
    /\ dropped' = dropped \cup {cur[w]}
    /\ SkipMessage(w)

\* Parse, begin, and look the idempotency key up.
Check(w) ==
    /\ wpc[w] = "check"
    /\ \/ /\ ~Valid(Event(w))
          /\ GoTo(w, "ack")
          /\ dropped' = dropped \cup {cur[w]}
       \/ /\ Valid(Event(w))
          /\ GoTo(w, IF status[Event(w).key] = "NONE" THEN "ensure" ELSE "ack")
          /\ UNCHANGED dropped
    /\ UNCHANGED <<db, locks, kafka, cur, last, pos, request, bounds>>

\* Another user's row, committed or pending, with the username of u.
NameTaken(u) == \E v \in accounts \ {u} : Username[v] = Username[u]
NamePending(u) == \E v \in Users \ (accounts \cup {u}) :
                     walletLock[v] # Nobody /\ Username[v] = Username[u]

\* INSERT ... ON CONFLICT DO NOTHING for the user and for the wallet.  An
\* insert waits while another transaction holds an uncommitted row of the
\* same id or username; a username taken by somebody else is an
\* IntegrityError, which process_raw_message swallows.
EnsureAccount(w) ==
    LET u == Event(w).user
        next == IF Event(w).accepted THEN "debit" ELSE "write"
    IN  /\ wpc[w] = "ensure"
        /\ \/ /\ u \in accounts
              /\ GoTo(w, next)
              /\ UNCHANGED <<walletLock, dropped>>
           \/ /\ u \notin accounts
              /\ NameTaken(u)
              /\ GoTo(w, "ack")
              /\ dropped' = dropped \cup {cur[w]}
              /\ UNCHANGED walletLock
           \/ /\ u \notin accounts
              /\ ~NameTaken(u)
              /\ ~NamePending(u)
              /\ walletLock[u] = Nobody
              /\ walletLock' = [walletLock EXCEPT ![u] = w]
              /\ GoTo(w, next)
              /\ UNCHANGED dropped
        /\ UNCHANGED <<db, betLock, kafka, cur, last, pos, request, bounds>>

ResetOnUpsert(u) == WalletSeed
\* The balance the row of u shows to the transaction that holds it.
Available(u) == IF u \in accounts THEN balance[u] ELSE WalletSeed

AnyFunds(m) == TRUE
Covers(m) == Available(m.user) >= m.stake

\* UPDATE wallets ... WHERE balance_cents >= stake: waits for the row lock and
\* tests the newest committed version.  No row updated is a RuntimeError.
Debit(w) ==
    LET u == Event(w).user
    IN  /\ wpc[w] = "debit"
        /\ walletLock[u] \in {Nobody, w}
        /\ \/ /\ Covers(Event(w))
              /\ walletLock' = [walletLock EXCEPT ![u] = w]
              /\ GoTo(w, "write")
              /\ UNCHANGED <<cur, last, pos, dropped>>
           \/ /\ ~Covers(Event(w))
              /\ Fail(w)
        /\ UNCHANGED <<db, betLock, kafka, request, bounds>>

NoUniqueKey(k) == TRUE
KeyFree(k) == status[k] = "NONE"

\* The bets and wallet_ledger rows of the event, its debit and the account
\* the transaction created become visible.
Insert(w) ==
    LET m == Event(w)
        stake == IF m.accepted THEN m.stake ELSE 0
    IN  /\ status' = [status EXCEPT ![m.key] = IF m.accepted THEN "ACCEPTED" ELSE "REJECTED"]
        /\ origin' = [origin EXCEPT ![m.key] = cur[w]]
        /\ accounts' = accounts \cup {m.user}
        /\ balance' = [balance EXCEPT ![m.user] = Available(m.user) - stake]
        /\ ledger' = [ledger EXCEPT ![m.user] = @ - stake]
        /\ stakeRows' = [stakeRows EXCEPT ![m.key] = @ + (IF m.accepted THEN 1 ELSE 0)]
        /\ UNCHANGED payoutRows

\* The end of session.begin(): flush and commit.  A key another worker has
\* inserted meanwhile violates uq_bets_idempotency_key: rollback, and the
\* offset is committed.  The answer to COMMIT may be lost, and then the
\* worker takes the message for failed although the rows are there.
Write(w) ==
    /\ wpc[w] = "write"
    /\ Release(w)
    /\ \/ /\ KeyFree(Event(w).key)
          /\ Insert(w)
          /\ \/ /\ GoTo(w, "ack")
                /\ UNCHANGED <<cur, last, pos, faults>>
             \/ /\ faults < MaxFaults
                /\ faults' = faults + 1
                /\ NextMessage(w)
       \/ /\ ~KeyFree(Event(w).key)
          /\ GoTo(w, "ack")
          /\ UNCHANGED <<db, cur, last, pos, faults>>
    /\ UNCHANGED <<betLock, kafka, request, dropped, moves>>

\* Any database error inside the transaction.
DatabaseError(w) ==
    /\ wpc[w] \in InTx
    /\ faults < MaxFaults
    /\ faults' = faults + 1
    /\ Fail(w)
    /\ UNCHANGED <<db, betLock, kafka, request, moves>>

Crash(w) ==
    /\ wpc[w] # "down"
    /\ faults < MaxFaults
    /\ faults' = faults + 1
    /\ Die(w)
    /\ UNCHANGED <<db, betLock, topic, committed, request, dropped, moves>>

--------------------------------------------------------------------------------
(* settle_match_outcome.                                                    *)

UserOf(k) == RowOf(k).user

\* The bets the SELECT of request r finds.
Settleable(r) == {k \in Keys : status[k] = "ACCEPTED" /\ RowOf(k).match = match[r]}

BeginSettle(r) ==
    /\ rpc[r] = "new"
    /\ rpc' = [rpc EXCEPT ![r] = "scan"]
    /\ scan' = [scan EXCEPT ![r] = Settleable(r)]
    /\ UNCHANGED <<db, locks, kafka, worker, match, winner, todo, won, credit, rows,
                   skipped, dropped, bounds>>

AnyRow(r, k) == TRUE
\* A row is taken if its newest version still satisfies the WHERE clause ...
StillAccepted(r, k) == status[k] = "ACCEPTED"
\* ... and nobody holds it: SKIP LOCKED passes over it otherwise.
Unlocked(r, k) == betLock[k] = Nobody

\* FOR UPDATE SKIP LOCKED on the next row of the scan.
LockRow(r, k) ==
    /\ rpc[r] = "scan"
    /\ k \in scan[r]
    /\ scan' = [scan EXCEPT ![r] = @ \ {k}]
    /\ IF Unlocked(r, k) /\ StillAccepted(r, k)
       THEN /\ betLock' = [betLock EXCEPT ![k] = r]
            /\ todo' = [todo EXCEPT ![r] = @ \cup {k}]
            /\ UNCHANGED skipped
       ELSE /\ skipped' = [skipped EXCEPT ![r] = IF Unlocked(r, k) THEN @ ELSE @ \cup {k}]
            /\ UNCHANGED <<betLock, todo>>
    /\ UNCHANGED <<db, walletLock, kafka, worker, rpc, match, winner, won, credit, rows,
                   dropped, bounds>>

IsWinner(r, k) == RowOf(k).sel = winner[r]

\* The scan is over.  Of the loop over the rows only the winning bets issue
\* statements; a losing bet is marked in the session and written at the flush.
EndScan(r) ==
    /\ rpc[r] = "scan"
    /\ scan[r] = {}
    /\ rpc' = [rpc EXCEPT ![r] = "pay"]
    /\ todo' = [todo EXCEPT ![r] = {k \in @ : IsWinner(r, k)}]
    /\ UNCHANGED <<db, locks, kafka, worker, match, winner, scan, won, credit, rows,
                   skipped, dropped, bounds>>

TruncatedPayout(k) == (RowOf(k).stake * RowOf(k).odds) \div OddsScale
Payout(k) == PayoutCents(RowOf(k).stake, RowOf(k).odds)

\* One iteration of the loop over a winning bet: UPDATE wallets, which waits
\* for the row, and a BET_PAYOUT ledger row for the flush.
PayWinner(r, k) ==
    LET u == UserOf(k)
    IN  /\ rpc[r] = "pay"
        /\ k \in todo[r]
        /\ walletLock[u] \in {Nobody, r}
        /\ walletLock' = [walletLock EXCEPT ![u] = r]
        /\ credit' = [credit EXCEPT ![r][u] = @ + Payout(k)]
        /\ rows' = [rows EXCEPT ![r][u] = @ + Payout(k)]
        /\ won' = [won EXCEPT ![r] = @ \cup {k}]
        /\ todo' = [todo EXCEPT ![r] = @ \ {k}]
        /\ UNCHANGED <<db, betLock, kafka, worker, rpc, match, winner, scan, skipped,
                       dropped, bounds>>

ClearRequest(r, label) ==
    /\ rpc' = [rpc EXCEPT ![r] = label]
    /\ scan' = [scan EXCEPT ![r] = {}]
    /\ todo' = [todo EXCEPT ![r] = {}]
    /\ won' = [won EXCEPT ![r] = {}]
    /\ credit' = [credit EXCEPT ![r] = [u \in Users |-> 0]]
    /\ rows' = [rows EXCEPT ![r] = [u \in Users |-> 0]]

SessionLeaks(r, label) == ClearRequest(r, label) /\ UNCHANGED locks
\* The transaction of r is over: its locks are gone.
EndRequest(r, label) ==
    /\ ClearRequest(r, label)
    /\ Release(r)
    /\ betLock' = [k \in Keys |-> IF betLock[k] = r THEN Nobody ELSE betLock[k]]

LosersStay(r, k) == IF k \in won[r] THEN "WON" ELSE status[k]
\* What the loop made of a bet that r holds.
Outcome(r, k) == IF k \in won[r] THEN "WON" ELSE "LOST"

CommitSettle(r) ==
    /\ rpc[r] = "pay"
    /\ todo[r] = {}
    /\ status' = [k \in Keys |-> IF betLock[k] = r THEN Outcome(r, k) ELSE status[k]]
    /\ balance' = [u \in Users |-> balance[u] + credit[r][u]]
    /\ ledger' = [u \in Users |-> ledger[u] + rows[r][u]]
    /\ payoutRows' = [k \in Keys |-> payoutRows[k] + (IF k \in won[r] THEN 1 ELSE 0)]
    /\ EndRequest(r, "done")
    /\ UNCHANGED <<accounts, origin, stakeRows, kafka, worker, match, winner, skipped,
                   dropped, bounds>>

\* The request waits for an account row that another transaction holds.
WaitsFor(r, s) ==
    /\ rpc[r] = "pay"
    /\ \E k \in todo[r] : walletLock[UserOf(k)] = s

\* PostgreSQL ends a deadlock, a set of requests each of which waits for
\* another of the set, by aborting one of them.
DeadlockVictim(r) ==
    /\ \E C \in SUBSET Requests :
         r \in C /\ \A s \in C : \E t \in C \ {s} : WaitsFor(s, t)
    /\ EndRequest(r, "aborted")
    /\ UNCHANGED <<db, kafka, worker, match, winner, skipped, dropped, bounds>>

\* The API process, its connection or a statement fails: rollback.
AbortSettle(r) ==
    /\ rpc[r] \in {"scan", "pay"}
    /\ faults < MaxFaults
    /\ faults' = faults + 1
    /\ EndRequest(r, "aborted")
    /\ UNCHANGED <<db, kafka, worker, match, winner, skipped, dropped, moves>>

--------------------------------------------------------------------------------
WorkerStep(w) ==
    \/ Start(w) \/ Assign(w) \/ Fetch(w) \/ Ack(w) \/ Check(w) \/ EnsureAccount(w)
    \/ Debit(w) \/ Write(w) \/ DatabaseError(w) \/ Crash(w)

RequestStep(r) ==
    \/ BeginSettle(r)
    \/ \E k \in Keys : LockRow(r, k) \/ PayWinner(r, k)
    \/ EndScan(r) \/ CommitSettle(r) \/ DeadlockVictim(r) \/ AbortSettle(r)

Next == (\E w \in Workers : WorkerStep(w)) \/ (\E r \in Requests : RequestStep(r))

Spec == Init /\ [][Next]_vars

\* A worker that runs, and a request that was accepted, keep taking steps; a
\* row lock that became free goes to a transaction that waits for it, and
\* PostgreSQL looks for deadlocks.  Nothing restarts a process (the compose
\* file has no restart policy) and no fault has to happen.
WorkerProgress(w) ==
    Fetch(w) \/ Ack(w) \/ Check(w) \/ EnsureAccount(w) \/ Debit(w) \/ Write(w)
RequestProgress(r) ==
    \/ \E k \in Keys : LockRow(r, k) \/ PayWinner(r, k)
    \/ EndScan(r) \/ CommitSettle(r) \/ DeadlockVictim(r)
Fairness == /\ \A w \in Workers : WF_vars(WorkerProgress(w))
            /\ \A r \in Requests : WF_vars(RequestProgress(r))

--------------------------------------------------------------------------------
(* Properties.                                                              *)

\* What the wallets hold is what wallet_ledger says beside the opening
\* balance: no interleaving of debits and payouts loses or repeats a movement
\* (worker.py:55-82 and settlement.py:54-67 write the two tables).
WalletIsLedger ==
    \A u \in Users :
        balance[u] = ledger[u] + (IF u \in accounts THEN WalletSeed ELSE 0)

\* The bets of u in one of the states S, what was staked on those that were
\* accepted and what was paid for those that won.
BetsOf(u, S) == {k \in Keys : status[k] \in S /\ UserOf(k) = u}
Staked(u) ==
    LET B == BetsOf(u, {"ACCEPTED", "WON", "LOST"})
    IN  SumFunctionOnSet([k \in B |-> RowOf(k).stake], B)
PaidOut(u) ==
    LET B == BetsOf(u, {"WON"}) IN SumFunctionOnSet([k \in B |-> Payout(k)], B)

\* The three tables agree: beside its opening balance a wallet holds what its
\* ledger rows add up to, and those are the stakes of the user's accepted bets
\* and the payouts of the won ones, by the stakes and odds of the bets rows.
\* The worker computes the debit from the event and settlement the payout from
\* the row, in transactions of different processes.
BooksBalance ==
    /\ WalletIsLedger
    /\ \A u \in Users : ledger[u] = PaidOut(u) - Staked(u)

\* A bet that is or was accepted has exactly one BET_STAKE row and a won bet
\* exactly one BET_PAYOUT row, however often its event was delivered, by
\* however many workers it was processed at once and by however many requests
\* its match was settled; no other bet has either.
OneMovementPerBet ==
    \A k \in Keys :
        /\ stakeRows[k] = (IF status[k] \in {"ACCEPTED", "WON", "LOST"} THEN 1 ELSE 0)
        /\ payoutRows[k] = (IF status[k] = "WON" THEN 1 ELSE 0)

\* No wallet is ever overdrawn, although a worker tests the balance in one
\* statement and other transactions debit the same wallet (worker.py:55-61).
NoOverdraft == \A u \in Users : balance[u] >= 0

\* An offset is committed only when the bets row of every earlier event
\* exists or an attempt at that event was given up: a crash, a restart or a
\* rebalance never skips an event that no worker has finished with.
Covered(o) == status[topic[o].key] # "NONE" \/ o \in dropped
CommittedIsCovered == \A o \in Offsets : o < committed => Covered(o)

\* A row changes only from ACCEPTED to WON or LOST, and its content never
\* changes: a bet that was settled, or refused, stays as it is.
RowsAreFinal ==
    [][\A k \in Keys : status[k] # "NONE" =>
          /\ origin'[k] = origin[k]
          /\ status'[k] # status[k] =>
                status[k] = "ACCEPTED" /\ status'[k] \in {"WON", "LOST"}]_vars

\* Once a running worker keeps the partition, the events that are there are
\* all gone through: no event, however often its processing fails, holds up
\* the ones behind it (worker.py:141-144).
LogIsDrained ==
    <>[](owner # Nobody) =>
        <>[](\A w \in Workers : owner = w => wpc[w] = "poll" /\ pos[w] > Len(topic))

\* A request that was begun ends, committed or aborted: waiting for account
\* rows in different orders never blocks two requests for good.
RequestsEnd == \A r \in Requests : rpc[r] = "scan" ~> rpc[r] \in {"done", "aborted"}

\* When no request is running, a bet some finished request found ACCEPTED and
\* passed over because another request held it has been settled by that one
\* (settlement.py:37, "Settle all accepted bets for one match").
WholeMatchSettled ==
    (\A r \in Requests : rpc[r] \in {"new", "done", "aborted"}) =>
        \A r \in Requests : rpc[r] = "done" =>
            \A k \in skipped[r] : status[k] # "ACCEPTED"

\* Only a request that aborts can leave them behind: when every request that
\* was made has committed, each bet one of them passed over is won or lost, so
\* that SKIP LOCKED by itself loses none (settlement.py:43-48).
PassedOverNeedsAbort ==
    (\A r \in Requests : rpc[r] \in {"new", "done"}) =>
        \A r \in Requests : \A k \in skipped[r] : status[k] \in {"WON", "LOST"}

\* Every valid event whose offset is committed has its bets row
\* (worker.py:29, "Persist a risk result exactly once").
EveryResultPersisted ==
    \A o \in Offsets :
        o < committed /\ Valid(topic[o]) => status[topic[o].key] # "NONE"

\* Concurrent workers and requests are serializable: what is committed
\* changes only by the atomic steps of the abstract book.
Book == INSTANCE SettlementBook
ImplementsBook == Book!Spec
================================================================================
