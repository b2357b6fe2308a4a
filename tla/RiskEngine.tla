------------------------------ MODULE RiskEngine ------------------------------
(***************************************************************************)
(* class RiskEngine (risk_engine/src/risk_engine.cpp): evaluate_json as    *)
(* several threads may call it on one engine.  The atomic accesses to a    *)
(* balance cell and the critical section of the exposure mutex are the     *)
(* steps; between them the threads interleave freely.  main.cpp seeds the  *)
(* balances before it polls for bets, and calls evaluate_json from one     *)
(* thread; the class is written for more, and so is this module.           *)
(*                                                                         *)
(* Amounts are int64_t in the code; MaxInt stands for its maximum.         *)
(***************************************************************************)
EXTENDS Integers

CONSTANTS
    Threads, Accounts,
    Seeds,       \* balances set_balance is called with
    Bets,        \* payloads evaluate_json is called with
    Cap,         \* single_account_exposure_cap_cents_
    MaxInt,      \* largest 64-bit integer
    NoBet,       \* a thread that evaluates nothing
    MaxCalls     \* bound: calls of evaluate_json

Int64 == -(MaxInt + 1)..MaxInt

\* What required_string and required_i64 leave of a payload: a malformed one
\* is any that fails before the checks on the amounts.
Payload == [account : Accounts, stake : Int64, payout : Int64, wellFormed : BOOLEAN]

ASSUME MaxIntAssumption == MaxInt \in Nat \ {0}
ASSUME CapAssumption    == Cap \in 1..MaxInt       \* the constructor throws otherwise
ASSUME SeedsAssumption  == Seeds \subseteq 0..MaxInt
ASSUME BetsAssumption   == Bets \subseteq Payload
ASSUME NoBetAssumption  == NoBet \notin Payload
ASSUME CallsAssumption  == MaxCalls \in Nat

VARIABLES
    cells,       \* accounts that have a balance cell
    balance,     \* the cells' values
    exposure,    \* open_exposure_cents_by_account_, 0 without an entry
    serving,     \* the engine has been seeded
    pc, bet,     \* what each thread does, and for which bet
    current,     \* local of try_debit_balance: the value last seen in the cell
    \* history and bounds
    seed,        \* the balance an account was seeded with
    held,        \* per account and set of threads, the stakes those threads have
                 \* debited for bets they are still deciding
    spent,       \* stakes of accepted bets
    promised,    \* potential payouts of accepted bets
    calls

engine  == <<cells, balance, exposure>>
threads == <<pc, bet, current>>
history == <<seed, held, spent, promised>>
vars    == <<engine, serving, threads, history, calls>>

Stages == {"idle", "load", "compare", "swap", "reserve", "credit"}

\* Types, and that no amount leaves the range of its 64-bit integer.
TypeOK ==
    /\ cells \subseteq Accounts
    /\ balance \in [Accounts -> Int64]
    /\ exposure \in [Accounts -> 0..MaxInt]
    /\ serving \in BOOLEAN
    /\ pc \in [Threads -> Stages]
    /\ bet \in [Threads -> Bets \cup {NoBet}]
    /\ current \in [Threads -> Int64]
    /\ seed \in [Accounts -> 0..MaxInt]
    /\ held \in [Accounts -> [SUBSET Threads -> Nat]]
    /\ spent \in [Accounts -> Nat]
    /\ promised \in [Accounts -> Nat]
    /\ calls \in Nat

Init ==
    /\ cells = {}
    /\ balance = [a \in Accounts |-> 0]
    /\ exposure = [a \in Accounts |-> 0]
    /\ serving = FALSE
    /\ pc = [t \in Threads |-> "idle"]
    /\ bet = [t \in Threads |-> NoBet]
    /\ current = [t \in Threads |-> 0]
    /\ seed = [a \in Accounts |-> 0]
    /\ held = [a \in Accounts |-> [S \in SUBSET Threads |-> 0]]
    /\ spent = [a \in Accounts |-> 0]
    /\ promised = [a \in Accounts |-> 0]
    /\ calls = 0

\* 64-bit addition as two's complement machines carry it out; it is applied
\* to operands in range, so one correction is enough.
Wrap(x) ==
    IF x > MaxInt THEN x - 2 * (MaxInt + 1)
    ELSE IF x < -(MaxInt + 1) THEN x + 2 * (MaxInt + 1)
    ELSE x

--------------------------------------------------------------------------------
(* Seeding: seed_balances_from_env, before the consumer polls.              *)

\* set_balance seeds an account or replaces the balance it was seeded with.
SetBalance(a, amount) ==
    /\ ~serving
    /\ cells' = cells \cup {a}
    /\ balance' = [balance EXCEPT ![a] = amount]
    /\ seed' = [seed EXCEPT ![a] = amount]
    /\ UNCHANGED <<exposure, serving, threads, held, spent, promised, calls>>

Serve ==
    /\ ~serving
    /\ serving' = TRUE
    /\ UNCHANGED <<engine, threads, history, calls>>

--------------------------------------------------------------------------------
(* evaluate_json.                                                           *)

At(t, stage) == pc[t] = stage
GoTo(t, stage) == pc' = [pc EXCEPT ![t] = stage]

\* The result is returned; its reason_code is said where it is chosen.
Answer(t) ==
    /\ GoTo(t, "idle")
    /\ bet' = [bet EXCEPT ![t] = NoBet]
    /\ current' = [current EXCEPT ![t] = 0]

AnyPayout(b) == b.wellFormed /\ b.stake > 0 /\ b.payout > 0
\* The checks of parse_bet_json on the amounts.
SchemaValid(b) ==
    b.wellFormed /\ b.stake > 0 /\ b.payout > 0 /\ b.payout >= b.stake

\* A call parses the payload, reads the clock and looks the cell up.  Whether
\* the quote is older than 200 ms is the clock's choice, so any call may be
\* refused here; a bet goes on only if it is valid and its account known.
Evaluate(t, b) ==
    /\ serving
    /\ At(t, "idle")
    /\ calls < MaxCalls
    /\ calls' = calls + 1
    /\ \/ Answer(t)     \* SCHEMA_INVALID, STALE_QUOTE or ACCOUNT_NOT_FOUND
       \/ /\ SchemaValid(b)
          /\ b.account \in cells
          /\ GoTo(t, "load")
          /\ bet' = [bet EXCEPT ![t] = b]
          /\ UNCHANGED current
    /\ UNCHANGED <<engine, serving, history>>

\* balance.load
Load(t) ==
    /\ At(t, "load")
    /\ current' = [current EXCEPT ![t] = balance[bet[t].account]]
    /\ GoTo(t, "compare")
    /\ UNCHANGED <<engine, serving, bet, history, calls>>

\* The test at the head of the loop, on the value last seen.
Compare(t) ==
    /\ At(t, "compare")
    /\ \/ /\ current[t] < bet[t].stake
          /\ Answer(t)      \* INSUFFICIENT_FUNDS
       \/ /\ current[t] >= bet[t].stake
          /\ GoTo(t, "swap")
          /\ UNCHANGED <<bet, current>>
    /\ UNCHANGED <<engine, serving, history, calls>>

BlindStore(t) == TRUE
\* Thread t holds amount more of account a.
Hold(t, a, amount) ==
    held' = [held EXCEPT ![a] = [S \in SUBSET Threads |->
                                    @[S] + (IF t \in S THEN amount ELSE 0)]]

\* What compare_exchange_weak compares.
CellUnchanged(t) == balance[bet[t].account] = current[t]

\* The next iteration after a failed exchange, which has loaded the value.
SwapAgain(t) == GoTo(t, "swap")
LoopAgain(t) == GoTo(t, "compare")

KeepsOldValue(t) == UNCHANGED current
Reload(t) == current' = [current EXCEPT ![t] = balance[bet[t].account]]

\* compare_exchange_weak.  A spurious failure finds the cell as it was, and
\* the loop comes back to the same exchange with nothing changed.
Swap(t) ==
    LET a == bet[t].account
        desired == Wrap(current[t] - bet[t].stake)
    IN  /\ At(t, "swap")
        /\ \/ /\ CellUnchanged(t)
              /\ balance' = [balance EXCEPT ![a] = desired]
              /\ Hold(t, a, bet[t].stake)
              /\ GoTo(t, "reserve")
              /\ UNCHANGED current
           \/ /\ ~CellUnchanged(t)
              /\ Reload(t)
              /\ LoopAgain(t)
              /\ UNCHANGED <<balance, held>>
        /\ UNCHANGED <<cells, exposure, serving, bet, seed, spent, promised, calls>>

AtTheCap(open, payout) == open > Cap
SumOverCap(open, payout) == Wrap(open + payout) > Cap
\* current > cap - exposure_cents, which cannot overflow.
OverCap(open, payout) == open > Cap - payout

\* try_reserve_exposure under exposure_mutex_.
Reserve(t) ==
    LET a == bet[t].account
        payout == bet[t].payout
    IN  /\ At(t, "reserve")
        /\ \/ /\ OverCap(exposure[a], payout)
              /\ GoTo(t, "credit")
              /\ UNCHANGED <<exposure, bet, current, held, spent, promised>>
           \/ /\ ~OverCap(exposure[a], payout)
              /\ exposure' = [exposure EXCEPT ![a] = Wrap(@ + payout)]
              /\ Hold(t, a, -bet[t].stake)
              /\ spent' = [spent EXCEPT ![a] = @ + bet[t].stake]
              /\ promised' = [promised EXCEPT ![a] = @ + payout]
              /\ Answer(t)      \* ACCEPTED
        /\ UNCHANGED <<cells, balance, serving, seed, calls>>

NothingBack(t) == 0
StakeBack(t) == bet[t].stake

\* credit_balance returns the stake of a bet over the cap.
Credit(t) ==
    LET a == bet[t].account
    IN  /\ At(t, "credit")
        /\ balance' = [balance EXCEPT ![a] = Wrap(@ + StakeBack(t))]
        /\ Hold(t, a, -StakeBack(t))
        /\ Answer(t)      \* SAEC_EXCEEDED
        /\ UNCHANGED <<cells, exposure, serving, seed, spent, promised, calls>>

--------------------------------------------------------------------------------
ThreadStep(t) == Load(t) \/ Compare(t) \/ Swap(t) \/ Reserve(t) \/ Credit(t)

Next ==
    \/ \E a \in Accounts, amount \in Seeds : SetBalance(a, amount)
    \/ Serve
    \/ \E t \in Threads, b \in Bets : Evaluate(t, b)
    \/ \E t \in Threads : ThreadStep(t)

Spec == Init /\ [][Next]_vars

\* A thread inside evaluate_json is scheduled again and again, and an exchange
\* that finds the cell unchanged does not fail spuriously for ever.
FairSpec == Spec /\ \A t \in Threads : WF_vars(ThreadStep(t))

--------------------------------------------------------------------------------
(* Properties.                                                              *)

\* No cent is lost or made when threads debit, credit back and retry on one
\* cell: what an account was seeded with is its balance, the stakes of bets
\* that are being decided and the stakes of the accepted ones.
FundsConserved ==
    \A a \in Accounts : seed[a] = balance[a] + held[a][Threads] + spent[a]

\* No balance cell is ever negative: a thread whose exchange failed tests the
\* newer value before it tries again (risk_engine.cpp:353-366).
NeverNegative == \A a \in Accounts : balance[a] >= 0

\* When nobody evaluates anything, the cells show exactly the accepted bets:
\* every bet refused at the cap has got its stake back (risk_engine.cpp:264-273).
QuietBooks ==
    (\A t \in Threads : pc[t] = "idle") =>
        \A a \in Accounts : balance[a] = seed[a] - spent[a]

\* The exposure of an account is the sum of the payouts promised to it and
\* stays within the cap, for payouts up to the largest integer.
ExposureWithinCap ==
    \A a \in Accounts : exposure[a] = promised[a] /\ promised[a] <= Cap

\* Once bets stop coming every evaluation returns: threads that spoil each
\* other's exchanges do not do so for ever.  MaxCalls makes them stop.
EvaluationsEnd == \A t \in Threads : pc[t] = "load" ~> pc[t] = "idle"

\* The engine is linearizable: it accepts bets as if one at a time, each
\* within what is left of the balance and of the cap.
Ledger == INSTANCE RiskLedger
ImplementsLedger == Ledger!Spec
================================================================================
