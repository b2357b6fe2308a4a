# A TLA+ development of the distributed betting platform

Specifications of the betting platform in this repository, the TLC runs that
check them on small instances and the TLAPS proofs of their safety properties
for every instance. Paths below are relative to the repository.

## The system

A bet travels through three services and two Kafka topics:

    browser -> ingress_service -> [bets-submitted] -> risk_engine
            -> [bets-results] -> settlement_worker -> PostgreSQL <- settle-match, M-Pesa

and odds travel the other way, `simulator.py -> [odds-updates] -> odds_service
-> WebSocket clients`.

| Component | State | Operations | What makes it correct |
|---|---|---|---|
| ingress, bets (`ingress_service/app/routers/bets.py`) | none | publish one event per request | cents and odds are exact; the key identifies the bet |
| ingress, registration (`services/user_service.py`) | pending registrations, attempts and a lock in Redis; users table | register, verify OTP, login | at most five wrong codes; one user per email and phone |
| risk engine (`risk_engine/src/risk_engine.cpp`) | one atomic balance cell per account, a map of exposures under a mutex | set_balance, evaluate_json | no cent lost, no negative balance, exposure within the cap, linearizable |
| risk consumer (`risk_engine/src/main.cpp`) | fetch position, message in hand, producer queue | consume, evaluate, produce, flush, commit | no bet skipped without a result |
| settlement worker (`settlement_service/app/worker.py`) | bets, wallets, wallet_ledger, users; offsets of bets-results | persist one result per message, commit the offset | each bet moves money once; the ledger explains the wallets; no overdraft |
| settle-match (`settlement_service/app/settlement.py`) | the same tables | pay and close the bets of a match | each bet settled once; the request ends |
| M-Pesa (`mpesa_routes.py`, `mpesa.py`) | mpesa_transactions, wallets; OAuth token cache | STK push, callback | a deposit is credited once |
| odds relay (`odds_service/app`) | position in odds-updates, clients, a bounded queue and a writer task each | broadcast, commit, stop | queues within their depth; a slow client does not hold up the others |
| odds view (`odds-websocket.service.ts`, `market-display`, `hero-featured`) | socket, subscription, prices | connect, retry, apply tick | prices move on; a stream that is down comes back or is shown as down |
| bet slip (`bet-slip.service.ts` and component) | one ticket, its status and trace number | select, clear, stake, submit | an answer belongs to the ticket shown; a ticket is bet once |
| sign-in (`auth.service.ts`, dialog, three pages) | session, cookie, forms, route | login, register, verify, sign out | the cookie is the shown account's |
| telemetry desk (`tracing`, `system-status`, `benchmark` services, `pipeline-tracer`, `settlement-panel`, `metrics-page`) | trace, stage, recent bets, health, simulation, panel | search, sample, poll, settle, start and pause | what is shown is what was asked for last; labels go down again |
| Java settlement (`settlement_service_java`) | the worker's tables | listener with a pessimistic wallet lock | as the worker |

The services share nothing but the topics, and settlement's two processes share
the database. The hard behaviours are therefore at-least-once delivery with
restarts and rebalances (risk consumer, worker), transactions that interleave
at READ COMMITTED (worker, settle-match, M-Pesa), lock-free code (risk engine),
and answers that arrive late (frontend, M-Pesa callback). `PROJECT.json` lists
them as hazards, each at its line.

## Modules

| Module | Models | Abstract specification |
|---|---|---|
| `Money` | `calculate_payout_cents`; odds in ten-thousandths | |
| `Settlement` | `worker.py` and `settlement.py` on one database | `SettlementBook` |
| `RiskEngine` | class `RiskEngine`, called by several threads | `RiskLedger` |
| `RiskConsumer` | the loop of `main.cpp` | |
| `MpesaDeposit` | `mpesa_routes.py` and `mpesa.py` | `DepositBook` |
| `BetSlip` | `bet-slip.service.ts` and its component against `submit_bet` | `RequestIndicator` |
| `Session` | `auth.service.ts`, the dialog, the pages of login, register and verify-otp, the router | `Account`, `RequestIndicator` |
| `OddsFeed` | simulator, relay, WebSocket and board | |
| `RecentBets`, `Tracing` | `tracing.service.ts`, `pipeline-tracer` | `RequestIndicator` |
| `Catalogue`, `SettlementPanel` | the ids that can be clicked and settled; `metrics-page`, `settlement-panel` | `RequestIndicator` |
| `SystemStatus` | the health poll of `system-status.service.ts` | |
| `Benchmark` | `benchmark.service.ts` | `RequestIndicator` |
| `Frontend` | `main.ts`, `app.component.ts`: all parts of the page in one tab | its parts |
| `Settlement_proofs`, `SettlementBook_proofs`, `RiskEngine_proofs`, `RiskConsumer_proofs`, `MpesaDeposit_proofs`, `BoardAndSlip_proofs`, `Session_proofs`, `Frontend_proofs` | the theorems | |
| `MCSettlement`, `MCRiskEngine`, `MCRiskConsumer`, `MCMpesaDeposit`, `MCFrontend` | the instances for TLC | |

### Settlement

The state is the committed rows (`accounts`, `balance`, `status`, `origin`,
`ledger`, `stakeRows`, `payoutRows`), the row locks (`walletLock`, `betLock`),
the partition and its group (`topic`, `owner`, `committed`), the position of
every worker in its loop (`wpc`, `cur`, `last`, `pos`) and of every request
(`rpc`, `scan`, `todo`, `won`, `credit`, `rows`).

One action is one SQL statement or one Kafka call:

| Action | Code |
|---|---|
| `Fetch`, `Ack` | `getmany`, `commit` of `run_worker` |
| `Check` | parse, `session.begin()`, `idempotency_key_exists` |
| `EnsureAccount` | the two `INSERT ... ON CONFLICT DO NOTHING` |
| `Debit` | `UPDATE wallets ... WHERE balance_cents >= stake`; no row is a RuntimeError |
| `Write` | the flush of the bets and wallet_ledger rows and the COMMIT |
| `DatabaseError`, `Crash`, `Assign`, `Start` | exception and `continue`; process end; rebalance; start |
| `BeginSettle`, `LockRow`, `EndScan` | `SELECT ... FOR UPDATE SKIP LOCKED`, one row at a time |
| `PayWinner`, `CommitSettle` | the loop's `UPDATE wallets`, and flush and COMMIT |
| `DeadlockVictim`, `AbortSettle` | PostgreSQL aborts a request; any other failure of it |

PostgreSQL is modelled from its use: an UPDATE or an INSERT waits for the
holder of the row, then sees the newest committed version; nothing of a
transaction is visible before its commit. Sessions are created with
`autoflush=False`, so ORM rows reach the database only in the commit, after
the last statement that could wait; flush and commit are one step. The bets row
is identified by its idempotency key: ingress derives `bet_id` from it. A
failed commit can have happened (`Write`'s third outcome). `Username` gives two
users the same name when their ids share eight hex digits, as line 45 of the
worker does. `accepted` in an event stands for `accepted` and `reason_code ==
"ACCEPTED"`. Payload text, printing and the HTTP answer are left out.

`SettlementBook` has two steps: record an event, once per key and only if the
wallet covers it, and settle a set of accepted bets of one match. `Settlement`
implements it with the identity as the mapping: each commit is a step of the
book, everything else a stutter.

`BooksBalance` relates three tables that different processes write: a wallet is its
opening balance and what `wallet_ledger` adds up to (`WalletIsLedger`), and that is
the payouts of the user's won bets less the stakes of his accepted ones, recomputed
from the bets rows. The worker takes a stake from the event, settlement pays by the
row.

### RiskEngine

`evaluate_json` on any number of threads: `Evaluate` parses and looks the
account up, `Load`, `Compare` and `Swap` are the compare-and-exchange loop of
`try_debit_balance`, `Reserve` the critical section of `try_reserve_exposure`,
`Credit` the compensation. Integers wrap at `MaxInt`, so that the overflow-free
form of the cap test matters. The stale-quote test is the clock's choice: any
call may be refused by it. A weak exchange that fails spuriously finds the cell
as it was and comes back to the same exchange, which is a stutter here.
`held[a][S]` is a history variable: the stakes the threads of S have debited
from a and not yet spent or returned; `held[a][Threads]` is the sum the
conservation law needs, and indexing by sets lets the proof take one thread out
of a set without induction. main.cpp calls the engine from one thread; the
class is written to be called from many, and its comments say so.

`RiskLedger` opens accounts and accepts bets atomically, each within what is
left of the balance and of the cap.

### RiskConsumer

The loop position `stage`, the fetch position `pos`, the message in hand, the
producer queue, the group's committed offset. `Produce` may be refused by a
full queue, `Flush` may give up, `Commit` may fail, `Deliver` empties the queue
in the background and `Expire` drops its head without anybody learning of it
(there is no delivery report callback). `Rebalance` resets the fetch position
while the message in hand stays: librdkafka assigns in the background because
no rebalance callback is set. `Crash` ends the process; a SIGTERM is a `Crash`
at "poll" after the `Deliver` steps its last flush allows. A second evaluation
of a bet may decide differently.

### MpesaDeposit

One asyncio process serves the STK push requests (`rpc`, `forced`) and the
callbacks (`cpc`), which interleave at awaits. A deposit stands for its request
and its checkout. `Open`, `AskToken`, `TakeLock`, `FetchToken`, `Push`, `Record`
follow `stk_push_deposit` through `get_access_token` and `initiate_stk_push`;
`Lookup`, `CreditWallet`, `Close`, `Answer` are the statements of
`mpesa_stk_callback`, its commit and its 200. `refresh_lock` is the queue of
those waiting for it, its holder in front. The token is only fresh or not: its
content decides nothing in the code, and whether the gateway honours it is the
gateway's choice (`Push` may be answered 401).

The gateway is external: it accepts a push before its answer arrives, so that
`Resolve` and `Send` may come before `Record`, and sends a result any number of
times. `CreditWallet` computes the new balance when the UPDATE runs (`written`)
and `Close` makes it visible, so that an update could be lost if the row were
not held. The branch for a wallet that is missing is left out: `ImplementsBook`
shows that a pending deposit always has one. `WorkerOpens` is the settlement
worker's insert for a user whose bet came first, with its own opening balance.
The worker's debits and payouts are relative updates of the same row as two
deposits of one user are, and add nothing to them here.

`DepositBook` has a deposit pending once, after the gateway was asked, and then
credited or failed as the customer decided, in one step each.

### The single-page application

One browser tab. Every HTTP request is a record in a set of requests under way;
its answer is an action of its own that may come at any time, in any order, as
an error, or as an error after the server has done what it was asked. A page
reload abandons the requests, not what they did. HttpClient cancels nothing, so
an answer finds whatever the component shows by then.

`RequestIndicator` is what all parts promise: a signal that says "a request is
under way" is raised by sending, lowered by an answer or a fresh component, and
does not stay up. `BetSlip` (Placing Bet), `Session` (the dialog's and the
pages' buttons), `Tracing`, `SettlementPanel` and `Benchmark` each INSTANCE it
with their own signal and number of requests.

`Account` is what the sign-in part promises the bet slip: session and cookie
change by its four steps only. `BetSlip` runs against `Account`; `Session`, which
has the dialog, the pages, the router and the ingress's answers in two parts
(head with Set-Cookie, body with tokens), implements it.

`BetSlip`: `ticket` counts selections and clearings, so that a post knows which
ticket it was made for; `late` counts the answers to earlier tickets that have
landed in the present one. The submit button's guard is the template's
(`disabled`, and the stake form shown only to who is signed in), which is why
the ERROR branch of `submit` cannot be reached.

`OddsFeed`: a tick is its offset in the topic. `broadcast` is the relay's loop
and the connection manager's `put_nowait`, with the disconnection of a full
client. `RelayStops` closes the sockets cleanly and tries a last commit, which may
fail and is then only logged; `RelayCrashes` does neither. `Rejoin` is the group
expelling a consumer that runs: it goes on from the committed offset, and pages and
queues stay as they are. The ghost `rewound` is set by whichever of the three loses
a position that is past an offset committed earlier. rxjs is modelled from its use: an unclean close is an error, which
`retry({ delay: 1000 })` turns into a new connection, and a clean one completes
the subscription. One client, one partition: the relay's clients share nothing
but the loop that feeds them.

`Tracing` gives every trace a number, and a stage carries the number of the trace
it is of. The trace endpoint answers with the bet's row, or the page invents a
trace of an accepted bet. `SystemStatus` numbers its polls. `SettlementPanel`
gives every panel a number, as changing the tab destroys the panel and not its
request. `Catalogue` has ids as tuples, because the parts disagree about them.

Each part's next-state relation has two halves: the part's own steps
(`SlipStep`, `SessionStep`, ...) and what others do to its variables: loading the
page again (`ReloadSlip`, ...), and for a part that shares state with another the
steps of that one (`BetSlip` has Account's, the tracer any settlement of bets,
`SettlementPanel` the recent bets, the worker's `Persist` and the settlements of
panels that a reload abandoned).

`Frontend` composes the parts: it interleaves their own steps over all variables
and loads the page as one step of all. They meet in the account, in the bets table
with the list of recent bets, and in that reload. Which page shows a part is left
out: the composition lets a part be used at any time, whatever the route, so it
has every behaviour of the real page and some more. What the theorem
`FrontendIsItsParts` shows is that the halves fit: nothing happens to a part in
`Frontend` that its own specification does not have, so what is proved of a part
on its own is true in the whole.

`MCFrontend` runs it in TLC. The product of the parts is out of reach, and by that
theorem not needed for the properties of a part: a behaviour of the run is one of a
single part while the others keep their initial state (`part`), or of reloads of
everything. The run explores the sum of the parts.

## Runs

| Run | Instance | Shows |
|---|---|---|
| `settlement` | 2 workers, 1 request, 3 topics of 3 events, batches of 2, 2 faults, 1 rebalance | `BooksBalance`, `OneMovementPerBet`, `NoOverdraft`, `CommittedIsCovered`, `ImplementsBook` |
| `settling` | 1 worker, 2 requests on 2 matches with shared winners, 4 bets, 1 fault | `PassedOverNeedsAbort`, `RowsAreFinal`, `LogIsDrained`, `RequestsEnd` |
| `skip_locked` | as `settling` | violates `WholeMatchSettled` |
| `lost_result` | 1 worker, 3 events, 2 faults | violates `EveryResultPersisted` |
| `risk_engine` | 3 threads, 3 calls, 2 accounts, 5 payloads, 4-bit amounts, cap 8 | `FundsConserved`, `NeverNegative`, `QuietBooks`, `ExposureWithinCap`, `EvaluationsEnd`, `ImplementsLedger` |
| `risk_consumer` | 3 bets, 2 faults, 1 rebalance | `CommittedIsAnswered`, `DebitsAreReported`, `NothingUnseen`, `EveryBetAnswered` |
| `lost_decision` | 2 bets, 1 fault | violates `OffsetsFollowResults` |
| `mpesa_deposit` | 2 deposits of 1 user, 3 callbacks (2 of one deposit), 2 faults | `WalletExplained`, `OneFetch`, `AcknowledgedIsSettled`, `ImplementsBook` |
| `mpesa_ends` | 2 deposits, 2 callbacks, 1 fault | `CallbackSettles`, `RequestsEnd` |
| `early_callback` | 1 deposit, 1 callback, no fault | violates `PaidIsCredited` |
| `frontend` | 2 accounts, 2 views, 3 posts, 2 tickets, 2 sign-ins; 2 selections, 2 ticks, a queue of 1, 2 faults; 3 polls; 2 bets, 2 traces, 2 settlements, 2 panels, 2 reloads | the eleven properties below |
| `reconnect` | 1 selection, 2 ticks, a queue of 1, 1 fault | violates `ReconnectStream` |

`frontend` checks: `DoublePostNeedsLateAnswer` and `TraceIsOfShownTicket` (bet
slip), `CookieIsOfShownAccount` (sign-in), `OlderPriceNeedsRewind`,
`StreamComesBack` and `DeadStreamIsShown` (odds), `ShownTraceIsLastAsked` (tracer),
`HealthNeverGoesBack` (status), `OneSimulation` (benchmark), `FrontendRefines`
(Account; five indicators with their liveness; of the benchmark's, whose
constructor has sent a request before any step, the steps) and `FrontendTypeOK`.

Each passing run of a module's safety properties also checks its module's `TypeOK`.

Bounds. The topics of `settlement` are chosen so that every outcome occurs: a
redelivered event, two bets one wallet cannot cover, a second selection under
the same key, a rejected bet, an event the schema refuses, a user whose name is
taken. Two workers suffice for any race on one partition: a third could only
repeat what the second does. Two requests on two matches with the same two
winners are the smallest deadlock on wallets. In `settling` requests begin once
the log has been gone through (`SettleLaterSpec`): the run is about requests
against each other, and `settlement` has them against the workers. That several requests
are serializable too is proved (`Serializable`); TLC checks it with one. Two faults
are a failure during the recovery from a failure. In `risk_engine` two of the
bets fit the balance or the cap but not together with a third, one payout is
the largest integer, and three threads are the least at which a thread can fail
an exchange twice, once through a debit and once through a credit. Three bets in
`risk_consumer` let the producer queue hold two older results while a third is
flushed. Two deposits of one user meet at the lock of the token and at the
wallet, and two callbacks of one deposit at its row; the second user exists to
take the username. In `frontend` three posts and two tickets are the least with
which an answer to an earlier ticket enables the button of the present one for a
second post; two sign-ins overlap; two faults let the relay crash or rejoin and the
connection drop again after it, and with a queue of one the second tick overflows;
three polls leave one answered, one cancelled and one out. One bet is placed by a
live button and one by a preset button, so that a settlement of the panel has a
winner. Every bound is a constant with `Max` in its name. `settlement` uses
symmetry of the workers, which its invariants and its safety property allow;
the runs with liveness use none.

Deadlock is not checked: every one of these systems may stop (the log is gone
through, every request has been answered, the calls are used up, all workers
are down).

### Fairness

- `Settlement`: weak fairness of each running worker's own steps and of each
  begun request's steps, PostgreSQL's deadlock detection among them. A row lock
  that is free goes to a waiting transaction. Nothing restarts a worker
  (docker-compose.yml has no restart policy), so `LogIsDrained` assumes that
  the partition has an owner from some point on.
- `RiskEngine`: weak fairness of each thread. `EvaluationsEnd` holds because
  the number of calls is bounded: the exchange loop is lock-free, not wait-free,
  and a thread can lose against an endless stream of others.
- `RiskConsumer`: weak fairness of the loop and of the broker.
  `EveryBetAnswered` assumes the process stays up.
- `MpesaDeposit`: weak fairness of requests and handlers, whose HTTP calls all
  have a timeout, and of the gateway's sending a result until it has read a 200
  (docs/MPESA.md:366). `Restart` assumes that somebody starts the process again.

- The page: weak fairness of the end of every HTTP request. HttpClient sets no
  timeout, but a browser ends every fetch, with an answer or a network error. In
  `OddsFeed`, timers fire, a socket that is opening opens or fails, and somebody
  restarts the relay; ticks need not come. `DeadStreamIsShown` speaks of the rate
  of the status bar, whose service exists once the telemetry desk was opened.

### What the failing runs show

- `lost_result`. worker.py:29 says "Persist a risk result exactly once." A
  message whose processing raises is passed over (line 144), and the commit of
  the next message of the partition covers it. The bet was accepted by risk,
  its result is on the topic, and settlement never writes it.
- `skip_locked`. settlement.py:37 says "Settle all accepted bets for one match
  in a single DB transaction." A request that skips rows locked by another one
  answers although they are not settled; when the other rolls back, nobody
  settles them. `NothingLeftBehind` proves that this is the only way: unless a
  request aborts, what one passed over another settles.
- `lost_decision`. docs/architecture.md:199 says "`risk_engine` manually commits
  offsets only after producing a result." A refused produce is followed by the
  next message, whose commit covers the refused one.
- `early_callback`. README.md:133 says that with ResultCode 0 the wallet is
  credited, and docs/MPESA.md:381-392 that a callback arriving "before sync DB
  commit finishes" is retried. The handler acknowledges it, and nobody comes back.
- `reconnect`. market-display.component.ts:46 offers "Reconnect Stream" while the
  stream is down. After a clean close (the relay shuts down, or it disconnects a
  page whose queue is full, as docs/api_reference.md:201 says it does) the
  subscription has completed, and `connect()` returns at
  odds-websocket.service.ts:19 because a WebSocketSubject is not `closed` by it.

Other things the frontend's models have, which no line of the repository denies:

- A live odds button bets on "home", a button of the settlement simulator settles
  "match-0001-home": such a bet always loses (`LiveBetsLose`), and a featured match
  never shows a live price (`FeaturedIsNeverLive`).
- An error of the settlement request is shown as a committed settlement, a trace
  that cannot be had as that of an accepted bet, an unreachable backend as
  CONNECTED; system health reports Kafka as CONNECTED whatever happens.
- The Sync button's poll sets nothing.
- A bet whose answer is lost is shown as REJECTED.
- Signing out leaves the cookie.

## Proofs

The eight `_proofs` modules prove for every value of the constants (any number
of workers, requests, threads, bets, any topics and amounts that satisfy the
named assumptions) what the runs check on the instances:

| Module | Theorems |
|---|---|
| `Settlement_proofs` | `TypeCorrect`, `LedgerBalances`, `OneMovement`, `Solvent`, `OffsetsAreSafe`, `Finality`, `NothingLeftBehind` |
| `SettlementBook_proofs` | `Serializable`, `Books`, `WinnersGain`, and of `calculate_payout_cents` `PayoutIsRounded`, `PayoutCoversStake` |
| `RiskEngine_proofs` | `NoOverflow`, `Conservation`, `Balances`, `Quiescence`, `Exposure`, `Linearizable` |
| `RiskConsumer_proofs` | `TypeCorrect`, `Answers`, `Evaluations`, `Reports` |
| `MpesaDeposit_proofs` | `TypeCorrect`, `Wallets`, `Tokens`, `Acknowledgements`, `Deposited` |
| `BoardAndSlip_proofs` | `SlipTypeCorrect`, `NoDoublePost`, `TraceIsTaken`, `SlipImplementsIndicator`, `FeedTypeCorrect`, `PricesMoveOn` |
| `Session_proofs` | `SessionTypeCorrect`, `CookieMatches`, `SessionImplementsAccount`, `DialogImplementsIndicator`, `FormImplementsIndicator` |
| `Frontend_proofs` | of the telemetry desk `TraceShownIsAsked`, `TracingTypeCorrect`, `TracerImplementsIndicator`, `StatusTypeCorrect`, `HealthMovesOn`, `SimulationRunsOnce`, `FiguresImplementIndicator`, `FeaturedIsNeverLive`, `DeskTypeCorrect`, `LiveBetsLose`, `PanelImplementsIndicator`; of the whole page `FrontendIsItsParts`, `FrontendTypeCorrect`, `FrontendPartsRefine`, `FrontendIsSafe`, `LabelsMeanRequests`, `PostsOfShownAccount` |

*Settlement.* The properties are not inductive. The invariant adds who holds
what: a worker past its debit holds the wallet's lock and the balance covers its
stake; a request holds the locks of the bets it will settle, those bets are
still ACCEPTED, the winners it has paid are among them, and what it will credit
equals what it will write to the ledger; the events of a batch before the one
in hand have a row or were given up. With locks exclusive, a commit
finds the rows as the statements before it left them. For `NothingLeftBehind`
`PassedInv` adds that a locked bets row belongs to a request that still runs, and
that a bet passed over is settled, or still locked, or somebody has aborted.

*SettlementBook.* `Serializable` maps a worker's commit to `Record` of its offset
and a request's commit to `Settle` of the rows it holds; every other step is a
stutter. The code adds the payouts up one by one while it runs (`credit`,
`rows`), the book says what they must be as one sum over the winners. `GainInv`
joins the two: a request that has paid some winners owes each user the sum of
`PayoutCents` over those of his, all rows it holds are of its match, those paid or
still to pay are the ones with the winning selection, and the event a worker is
about to write is one `BetResultEvent` let through. At the commit nothing is left
to pay, so the sums are equal.

`Books` is about the three tables together. `TablesInv` says that a user's ledger
is what his won bets were paid less what his accepted ones cost, that rows are
finitely many and that each holds a valid event. The step that matters is a
request's commit: the sum over the WON rows grows by the sum over the request's
winners, because the two sets are disjoint. The facts about sums over finite sets
(a sum does not depend on the order, a sum over a disjoint union is the sum of
sums) are proved from the definition of the fold by taking, among the finite sets
that would violate them, one of least size: the induction theorems of the library
take an operator as a parameter and cannot be used.

*RiskEngine.* The invariant says what each program point knows: past the
comparison the value last seen covers the stake, past the exchange exactly this
thread holds its stake, and `held` is additive over disjoint sets of threads.
Then a successful exchange subtracts from a value known to cover it, and with
all threads idle nothing is held. `Linearizable` maps `Reserve`'s success
to the ledger's acceptance; the stake fits because the seed is the balance, the
held and the spent stakes, none of them negative.

*RiskConsumer.* `Inv` says what became of every bet the running process has
passed: it has ended (result delivered or given up), or its result is queued, or
it is in hand. At the commit the queue is empty, so every bet up to the one in
hand has ended, and the new offset covers only such bets. Because a rebalance
moves `pos` back while the message stays in hand, "passed" speaks of both.

*MpesaDeposit.* The invariant says who holds what: whoever fetches a token is
the head of the lock's queue; a handler past its SELECT holds the row of a
deposit that is still PENDING, and one past its UPDATE holds the wallet, whose
committed balance is the one it added to. `Deposited` maps each commit to a step
of the book, which the invariant shows to be enabled.

*BoardAndSlip.* Of the slip: while no late answer has landed, the slip says PENDING exactly while
its one post is out; every post is numbered below the next, and the trace number
shown is that of a bet taken.

Of the board: until the relay loses a position past its committed one, what is
shown, then the queue in order, then the relay's position only grow, and a relay
that is down has committed where it stopped, or nothing yet: it starts where it was
or further on.

*Session.* Without an overlap at most one sign-in is out, and if its head has
arrived the cookie is its account's; otherwise the cookie is the session's or
gone. A page's button is up exactly while a request of that page is out, which
survives leaving the page because its requests are then of no page.

*Frontend.* Of the desk: every trace request is for the bet asked for last as
long as none has crossed another; switchMap leaves at most the newest poll; the
settled bets are won only through an id that a button has, and a live id is none
of these.

Of the whole page: one lemma per part shows that a step of `Frontend` is, on the
part's variables, a step of the part or a stutter. A step of another part is one
of the foreign steps the part allows for: a sign-in form's step is one of
Account's (from the session's invariant, `SessionImplementsAccount`), and a
commit of the panel is a settlement of some accepted bets to the tracer.
`FrontendIsItsParts` puts them together, and `FrontendTypeCorrect`,
`FrontendPartsRefine` and `FrontendIsSafe` are the parts' theorems read through
it. `LabelsMeanRequests` reads RequestIndicator's steps as an invariant of every
state. `PostsOfShownAccount` is about two parts at once: a post carries the
account of the cookie, and by the session's invariant that is the one shown or
none unless two sign-ins overlapped or one is half handled.

The assumptions are those named in the modules (`ActorsAssumption`,
`TopicsAssumption`, `CapAssumption`, ...); TLC evaluates them in the runs. The
liveness properties (`LogIsDrained`, `RequestsEnd`, `EvaluationsEnd`,
`EveryBetAnswered`, `CallbackSettles`, `StreamComesBack`, `DeadStreamIsShown`) are
model-checked only, since the prover does not reason about fairness. So is the
liveness in `FrontendRefines`, that each indicator goes down again (`Lowered`):
its other conjuncts are `PartsRefine`, which is proved.

## Not modelled

`PROJECT.json` lists every component.

- Registration in the ingress: the OTP in Redis with its attempts, lock and
  expiries. Of it only the cookie of a finished sign-in is modelled (`Account`).
- The conversions of money and odds in the ingress's schemas: exact decimal
  arithmetic of a library.
- The Java settlement service: an alternative to the worker that nothing starts.
- The theme, the footer, the banners, the drawing of the benchmark chart, and all
  formatting: no state that a property could be about. `auth-panel` is placed in no
  template.
- Searching the tracer by an idempotency key: an invented trace is then the sample
  bet's. Several tabs that share localStorage and the cookie.
- Within the modelled components: the read-only endpoints of settlement but for
  what their answers say, `release_exposure` (no caller), the JSON scanner, logging,
  metrics and the benchmark mode of risk_engine, the random walk of the prices.
- More than one partition of a topic: nothing relates the messages of two.
- The composition of risk engine, consumer and settlement over bets-results: the
  engine's balance and the wallet are two books that nothing in the code
  reconciles.
