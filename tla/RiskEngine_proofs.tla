-------------------------- MODULE RiskEngine_proofs --------------------------
(***************************************************************************)
(* Proofs about RiskEngine for every set of threads and accounts, every    *)
(* cap and every width of the integers.  What makes FundsConserved and the *)
(* absence of overflow inductive is HeldInv: held[a][S] is the sum of what *)
(* the threads of S owe a decision for, stated one thread at a time.       *)
(***************************************************************************)
EXTENDS RiskEngine, TLAPS

\* A thread inside evaluate_json has a valid bet, and tries the exchange only
\* with a value that covers the stake.
ThreadOK(t) ==
    /\ pc[t] # "idle" => bet[t] \in Bets /\ SchemaValid(bet[t])
    /\ pc[t] = "swap" => current[t] >= bet[t].stake
ThreadInv == \A t \in Threads : ThreadOK(t)

\* The stake of account a thread t has debited and not yet decided.
Owes(a, t) ==
    IF pc[t] \in {"reserve", "credit"} /\ bet[t].account = a THEN bet[t].stake ELSE 0

HeldOK(a, S) ==
    /\ \A t \in S : held[a][S] = held[a][S \ {t}] + Owes(a, t)
    /\ held[a][S] # 0 => \E t \in S : Owes(a, t) # 0
HeldInv == \A a \in Accounts, S \in SUBSET Threads : HeldOK(a, S)

\* Nothing happens before the engine is seeded.
FreshInv == ~serving => /\ \A t \in Threads : pc[t] = "idle"
                        /\ \A a \in Accounts : spent[a] = 0

IInv == /\ TypeOK /\ ThreadInv /\ HeldInv /\ FreshInv
        /\ FundsConserved /\ NeverNegative /\ ExposureWithinCap

--------------------------------------------------------------------------------
\* An amount in range is what it is.
LEMMA WrapInRange == \A x \in Int64 : Wrap(x) = x
  BY MaxIntAssumption DEF Int64, Wrap

\* The bet of a busy thread.
LEMMA BusyBet ==
    ASSUME TypeOK, ThreadInv, NEW t \in Threads, pc[t] # "idle"
    PROVE  /\ bet[t] \in Bets
           /\ bet[t].account \in Accounts
           /\ bet[t].stake \in 1..MaxInt
           /\ bet[t].payout \in 1..MaxInt
           /\ bet[t].stake <= bet[t].payout
<1>1. bet[t] \in Payload /\ bet[t] \in Bets /\ SchemaValid(bet[t])
  BY BetsAssumption DEF ThreadInv, ThreadOK
<1>2. /\ bet[t].account \in Accounts
      /\ bet[t].stake \in Int64 /\ bet[t].payout \in Int64
  BY <1>1 DEF Payload
<1>3. QED
  BY <1>1, <1>2, MaxIntAssumption DEF SchemaValid, Int64

LEMMA OwesIsNat ==
    ASSUME TypeOK, ThreadInv, NEW t \in Threads, NEW a \in Accounts
    PROVE  Owes(a, t) \in Nat
  BY BusyBet DEF Owes

\* A thread never holds more than all threads hold together.
LEMMA HeldCovers ==
    ASSUME TypeOK, HeldInv, ThreadInv, NEW t \in Threads, NEW a \in Accounts
    PROVE  /\ held[a][Threads] \in Nat
           /\ Owes(a, t) \in Nat
           /\ Owes(a, t) <= held[a][Threads]
<1>1. held[a][Threads] \in Nat /\ held[a][Threads \ {t}] \in Nat
  <2>1. held[a] \in [SUBSET Threads -> Nat]
    BY DEF TypeOK
  <2>2. QED
    BY <2>1
<1>2. held[a][Threads] = held[a][Threads \ {t}] + Owes(a, t)
  BY DEF HeldInv, HeldOK
<1>3. QED
  BY <1>1, <1>2, OwesIsNat

\* When a thread's debt changes by amount, held follows.
LEMMA HoldKeeps ==
    ASSUME TypeOK, HeldInv, NEW t \in Threads, NEW a \in Accounts, NEW amount \in Int,
           Hold(t, a, amount),
           \A b \in Accounts, s \in Threads : Owes(b, s) \in Nat,
           \A b \in Accounts :
              Owes(b, t)' = Owes(b, t) + (IF b = a THEN amount ELSE 0),
           \A b \in Accounts : Owes(b, t)' \in Nat,
           \A b \in Accounts, s \in Threads \ {t} : Owes(b, s)' = Owes(b, s)
    PROVE  /\ held' \in [Accounts -> [SUBSET Threads -> Nat]]
           /\ HeldInv'
           /\ held'[a][Threads] = held[a][Threads] + amount
           /\ \A b \in Accounts \ {a} : held'[b] = held[b]
<1>1. /\ \A S \in SUBSET Threads :
            held'[a][S] = held[a][S] + (IF t \in S THEN amount ELSE 0)
      /\ \A b \in Accounts \ {a} : held'[b] = held[b]
      /\ held' = [held EXCEPT ![a] = held'[a]]
      /\ held'[a] = [S \in SUBSET Threads |-> held'[a][S]]
  BY DEF Hold, TypeOK
<1>2. \A b \in Accounts, S \in SUBSET Threads : held[b][S] \in Nat
  BY DEF TypeOK
<1>2a. \A S \in SUBSET Threads : t \notin S => held'[a][S] = held[a][S]
  <2>1. ASSUME NEW S \in SUBSET Threads, t \notin S PROVE held'[a][S] = held[a][S]
    <3>1. held'[a][S] = held[a][S] + 0
      BY <1>1, <2>1
    <3>2. held[a][S] \in Nat
      BY <1>2
    <3>3. QED
      BY <3>1, <3>2
  <2>2. QED
    BY <2>1
<1>3. \A S \in SUBSET Threads : t \in S =>
         held'[a][S] = held[a][S \ {t}] + Owes(a, t)'
  <2>1. ASSUME NEW S \in SUBSET Threads, t \in S
        PROVE  held'[a][S] = held[a][S \ {t}] + Owes(a, t)'
    <3>1. held[a][S] = held[a][S \ {t}] + Owes(a, t)
      BY <2>1 DEF HeldInv, HeldOK
    <3>2. held'[a][S] = held[a][S] + amount
      BY <1>1, <2>1
    <3>3. Owes(a, t)' = Owes(a, t) + amount
      OBVIOUS
    <3>4. QED
      BY <1>2, <2>1, <3>1, <3>2, <3>3
  <2>2. QED
    BY <2>1
<1>4. \A S \in SUBSET Threads : held'[a][S] \in Nat
  <2>1. ASSUME NEW S \in SUBSET Threads PROVE held'[a][S] \in Nat
    <3>1. CASE t \in S
      <4>1. held'[a][S] = held[a][S \ {t}] + Owes(a, t)'
        BY <1>3, <3>1
      <4>2. held[a][S \ {t}] \in Nat /\ Owes(a, t)' \in Nat
        BY <1>2
      <4>3. QED
        BY <4>1, <4>2
    <3>2. CASE t \notin S
      BY <1>2a, <1>2, <3>2
    <3>3. QED
      BY <3>1, <3>2
  <2>2. QED
    BY <2>1
<1>5. held' \in [Accounts -> [SUBSET Threads -> Nat]]
  <2>1. held'[a] \in [SUBSET Threads -> Nat]
    BY <1>1, <1>4
  <2>2. QED
    BY <1>1, <2>1 DEF TypeOK
<1>6. ASSUME NEW b \in Accounts, NEW S \in SUBSET Threads PROVE HeldOK(b, S)'
  <2>0. HeldOK(b, S)
    BY DEF HeldInv
  <2>1. CASE b # a
    <3>1. \A s \in Threads : Owes(b, s)' = Owes(b, s)
      BY <2>1
    <3>2. QED
      BY <1>1, <2>0, <2>1, <3>1 DEF HeldOK
  <2>2. CASE b = a /\ t \notin S
    <3>1. \A s \in S : held'[a][S] = held[a][S] /\ held'[a][S \ {s}] = held[a][S \ {s}]
      BY <1>2a, <2>2
    <3>2. held'[a][S] = held[a][S]
      BY <1>2a, <2>2
    <3>3. QED
      BY <2>0, <2>2, <3>1, <3>2 DEF HeldOK
  <2>3. CASE b = a /\ t \in S
    <3>1. held'[a][S] = held[a][S \ {t}] + Owes(a, t)'
      BY <1>3, <2>3
    <3>2. ASSUME NEW s \in S PROVE held'[a][S] = held'[a][S \ {s}] + Owes(a, s)'
      <4>1. CASE s = t
        <5>1. held'[a][S \ {t}] = held[a][S \ {t}]
          BY <1>2a
        <5>2. QED
          BY <3>1, <4>1, <5>1
      <4>2. CASE s # t
        <5>1. held'[a][S \ {s}] = held[a][S \ {s}] + amount
          BY <1>1, <2>3, <4>2
        <5>2. held'[a][S] = held[a][S] + amount
          BY <1>1, <2>3
        <5>3. held[a][S] = held[a][S \ {s}] + Owes(a, s)
          BY <2>0, <2>3 DEF HeldOK
        <5>4. Owes(a, s)' = Owes(a, s)
          BY <4>2
        <5>5. held[a][S \ {s}] \in Nat /\ held'[a][S] \in Nat /\ held'[a][S \ {s}] \in Nat
              /\ held[a][S] \in Nat
          BY <1>2, <1>4
        <5>6. Owes(a, s) \in Nat
          BY <2>3
        <5>7. QED
          BY <5>1, <5>2, <5>3, <5>4, <5>5, <5>6
      <4>3. QED
        BY <4>1, <4>2
    <3>3. held'[a][S] # 0 => \E s \in S : Owes(a, s)' # 0
      <4>1. HeldOK(a, S \ {t})
        BY DEF HeldInv
      <4>2. CASE Owes(a, t)' # 0
        BY <2>3, <4>2
      <4>3. CASE Owes(a, t)' = 0
        <5>1. held'[a][S] = held[a][S \ {t}]
          BY <1>2, <3>1, <4>3
        <5>2. \A s \in S \ {t} : Owes(a, s)' = Owes(a, s)
          OBVIOUS
        <5>3. QED
          BY <4>1, <5>1, <5>2 DEF HeldOK
      <4>4. QED
        BY <4>2, <4>3
    <3>4. QED
      BY <2>3, <3>2, <3>3 DEF HeldOK
  <2>4. QED
    BY <2>1, <2>2, <2>3
<1>7. HeldInv'
  BY <1>6 DEF HeldInv
<1>8. QED
  BY <1>1, <1>5, <1>7

--------------------------------------------------------------------------------
(* The initial state and the steps that touch no money.                    *)

LEMMA Initially == Init => IInv
<1> SUFFICES ASSUME Init PROVE IInv
  OBVIOUS
<1> USE MaxIntAssumption, CapAssumption DEF Init
<1>0. 0 \in Int64 /\ 0 \in 0..MaxInt
  BY DEF Int64
<1>1. TypeOK
  BY <1>0 DEF TypeOK, Stages
<1>2. ThreadInv /\ FreshInv
  BY DEF ThreadInv, ThreadOK, FreshInv
<1>3. HeldInv
  BY DEF HeldInv, HeldOK, Owes
<1>4. FundsConserved /\ NeverNegative /\ ExposureWithinCap
  BY DEF FundsConserved, NeverNegative, ExposureWithinCap
<1>5. QED
  BY <1>1, <1>2, <1>3, <1>4 DEF IInv

\* With the same debts, held keeps its meaning.
LEMMA HeldStays ==
    ASSUME HeldInv, held' = held,
           \A a \in Accounts, t \in Threads : Owes(a, t)' = Owes(a, t)
    PROVE  HeldInv'
<1>1. ASSUME NEW a \in Accounts, NEW S \in SUBSET Threads PROVE HeldOK(a, S)'
  BY DEF HeldInv, HeldOK
<1>2. QED
  BY <1>1 DEF HeldInv

\* Before the engine serves, nothing is held.
LEMMA NothingHeld ==
    ASSUME TypeOK, HeldInv, FreshInv, ~serving, NEW a \in Accounts
    PROVE  held[a][Threads] = 0
  BY DEF HeldInv, HeldOK, FreshInv, Owes

LEMMA SetBalanceStep ==
    ASSUME IInv, NEW a \in Accounts, NEW amount \in Seeds, SetBalance(a, amount)
    PROVE  IInv'
<1> USE DEF SetBalance, threads
<1>0. amount \in 0..MaxInt /\ 0..MaxInt \subseteq Int64
  BY SeedsAssumption, MaxIntAssumption DEF Int64
<1>1. TypeOK'
  BY <1>0 DEF IInv, TypeOK
<1>2. ThreadInv' /\ FreshInv'
  BY DEF IInv, ThreadInv, ThreadOK, FreshInv
<1>3. HeldInv'
  BY HeldStays DEF IInv, Owes
<1>4. FundsConserved'
  <2>1. ASSUME NEW b \in Accounts
        PROVE  seed'[b] = balance'[b] + held'[b][Threads] + spent'[b]
    <3>1. held[b][Threads] = 0 /\ spent[b] = 0
      BY NothingHeld DEF IInv, FreshInv
    <3>2. CASE b = a
      BY <1>0, <3>1, <3>2 DEF IInv, TypeOK
    <3>3. CASE b # a
      BY <3>3 DEF IInv, TypeOK, FundsConserved
    <3>4. QED
      BY <3>2, <3>3
  <2>2. QED
    BY <2>1 DEF FundsConserved
<1>5. NeverNegative' /\ ExposureWithinCap'
  BY <1>0 DEF IInv, TypeOK, NeverNegative, ExposureWithinCap
<1>6. QED
  BY <1>1, <1>2, <1>3, <1>4, <1>5 DEF IInv

\* A step that leaves the money and the debts alone keeps what is said of them.
LEMMA MoneyStays ==
    ASSUME IInv, UNCHANGED <<engine, history>>,
           \A a \in Accounts, t \in Threads : Owes(a, t)' = Owes(a, t)
    PROVE  HeldInv' /\ FundsConserved' /\ NeverNegative' /\ ExposureWithinCap'
<1>1. HeldInv'
  BY HeldStays DEF IInv, history
<1>2. QED
  BY <1>1 DEF IInv, engine, history, FundsConserved, NeverNegative, ExposureWithinCap

LEMMA ServeStep == ASSUME IInv, Serve PROVE IInv'
<1> USE DEF Serve
<1>1. TypeOK' /\ ThreadInv' /\ FreshInv'
  BY DEF IInv, TypeOK, ThreadInv, ThreadOK, FreshInv, engine, threads, history
<1>2. QED
  BY <1>1, MoneyStays DEF IInv, threads, Owes

\* The thread variables keep their types.
ThreadTypes ==
    /\ pc \in [Threads -> Stages]
    /\ bet \in [Threads -> Bets \cup {NoBet}]
    /\ current \in [Threads -> Int64]

LEMMA AnswerTypes == ASSUME TypeOK, NEW t \in Threads, Answer(t) PROVE ThreadTypes'
<1>1. 0 \in Int64
  BY MaxIntAssumption DEF Int64
<1>2. QED
  BY <1>1 DEF TypeOK, Answer, GoTo, Stages, ThreadTypes

LEMMA EvaluateStep ==
    ASSUME IInv, NEW t \in Threads, NEW b \in Bets, Evaluate(t, b)
    PROVE  IInv'
<1> USE DEF Evaluate
<1>0. TypeOK /\ ThreadInv
  BY DEF IInv
<1>1. ThreadTypes'
  <2>1. CASE Answer(t)
    BY <1>0, <2>1, AnswerTypes
  <2>2. CASE ~Answer(t)
    BY <1>0, <2>2 DEF TypeOK, GoTo, Stages, ThreadTypes
  <2>3. QED
    BY <2>1, <2>2
<1>2. TypeOK'
  <2>1. UNCHANGED <<cells, balance, exposure, serving, seed, held, spent, promised>>
    BY DEF engine, history
  <2>2. calls' \in Nat
    BY <1>0 DEF TypeOK
  <2>3. QED
    BY <1>0, <1>1, <2>1, <2>2 DEF TypeOK, ThreadTypes
<1>3. ThreadInv'
  <2>1. ASSUME NEW s \in Threads PROVE ThreadOK(s)'
    <3>1. CASE s = t
      BY <1>0, <3>1 DEF TypeOK, ThreadOK, Answer, GoTo
    <3>2. CASE s # t
      BY <1>0, <3>2 DEF TypeOK, ThreadInv, ThreadOK, Answer, GoTo
    <3>3. QED
      BY <3>1, <3>2
  <2>2. QED
    BY <2>1 DEF ThreadInv
<1>4. FreshInv'
  BY DEF FreshInv
<1>5. \A a \in Accounts, s \in Threads : Owes(a, s)' = Owes(a, s)
  <2>1. ASSUME NEW a \in Accounts, NEW s \in Threads PROVE Owes(a, s)' = Owes(a, s)
    <3>1. CASE s = t
      <4>1. pc[t] = "idle" /\ pc'[t] \in {"idle", "load"}
        BY <1>0 DEF TypeOK, At, Answer, GoTo
      <4>2. QED
        BY <3>1, <4>1 DEF Owes
    <3>2. CASE s # t
      BY <1>0, <3>2 DEF TypeOK, Answer, GoTo, Owes
    <3>3. QED
      BY <3>1, <3>2
  <2>2. QED
    BY <2>1
<1>6. QED
  BY <1>2, <1>3, <1>4, <1>5, MoneyStays DEF IInv

\* Reading the cell and comparing.
LEMMA LookStep ==
    ASSUME IInv, NEW t \in Threads, Load(t) \/ Compare(t)
    PROVE  IInv'
<1> USE DEF Load, Compare, At
<1>0. TypeOK /\ ThreadInv /\ FreshInv
  BY DEF IInv
<1>1. bet[t].account \in Accounts /\ balance[bet[t].account] \in Int64
  BY <1>0, BusyBet DEF TypeOK
<1>2. ThreadTypes'
  <2>1. CASE Answer(t)
    BY <1>0, <2>1, AnswerTypes
  <2>2. CASE ~Answer(t)
    BY <1>0, <1>1, <2>2 DEF TypeOK, GoTo, Stages, ThreadTypes
  <2>3. QED
    BY <2>1, <2>2
<1>3. TypeOK'
  BY <1>0, <1>2 DEF TypeOK, ThreadTypes, engine, history
<1>4. ThreadInv'
  <2>1. ASSUME NEW s \in Threads PROVE ThreadOK(s)'
    <3>1. CASE s = t
      BY <1>0, <3>1 DEF TypeOK, ThreadInv, ThreadOK, Answer, GoTo
    <3>2. CASE s # t
      BY <1>0, <3>2 DEF TypeOK, ThreadInv, ThreadOK, Answer, GoTo
    <3>3. QED
      BY <3>1, <3>2
  <2>2. QED
    BY <2>1 DEF ThreadInv
<1>5. FreshInv'
  BY <1>0 DEF FreshInv
<1>6. \A a \in Accounts, s \in Threads : Owes(a, s)' = Owes(a, s)
  <2>1. ASSUME NEW a \in Accounts, NEW s \in Threads PROVE Owes(a, s)' = Owes(a, s)
    <3>1. CASE s = t
      <4>1. pc[t] \in {"load", "compare"} /\ pc'[t] \in {"idle", "compare", "swap"}
        BY <1>0 DEF TypeOK, Answer, GoTo
      <4>2. QED
        BY <3>1, <4>1 DEF Owes
    <3>2. CASE s # t
      BY <1>0, <3>2 DEF TypeOK, Answer, GoTo, Owes
    <3>3. QED
      BY <3>1, <3>2
  <2>2. QED
    BY <2>1
<1>7. QED
  BY <1>3, <1>4, <1>5, <1>6, MoneyStays DEF IInv


--------------------------------------------------------------------------------
(* The steps that move money.                                              *)

LEMMA SwapStep ==
    ASSUME IInv, NEW t \in Threads, Swap(t)
    PROVE  IInv'
<1> DEFINE a == bet[t].account
           stake == bet[t].stake
<1>0. /\ TypeOK /\ ThreadInv /\ HeldInv /\ FreshInv /\ pc[t] = "swap"
      /\ current[t] \in Int64 /\ current[t] >= stake
      /\ UNCHANGED <<cells, exposure, serving, bet, seed, spent, promised, calls>>
  BY DEF IInv, Swap, At, TypeOK, ThreadInv, ThreadOK
<1>1. /\ a \in Accounts /\ stake \in 1..MaxInt /\ balance[a] \in Int64
      /\ bet[t] \in Bets /\ SchemaValid(bet[t])
  BY <1>0, BusyBet DEF TypeOK, ThreadInv, ThreadOK
<1>2. CASE CellUnchanged(t) /\ Hold(t, a, stake)
  <2>1. current[t] = balance[a]
    BY <1>2 DEF CellUnchanged
  <2>2. current[t] - stake \in 0..MaxInt /\ current[t] - stake \in Int64
    BY <1>0, <1>1, MaxIntAssumption DEF Int64
  <2>3. Wrap(current[t] - stake) = current[t] - stake
    BY <2>2, WrapInRange
  <2>4. /\ balance' = [balance EXCEPT ![a] = current[t] - stake]
        /\ pc' = [pc EXCEPT ![t] = "reserve"] /\ current' = current
    BY <1>2, <2>3 DEF Swap, GoTo, LoopAgain, CellUnchanged
  <2>5. \A b \in Accounts : /\ Owes(b, t) = 0
                            /\ Owes(b, t)' = (IF b = a THEN stake ELSE 0)
    BY <1>0, <2>4 DEF Owes, TypeOK
  <2>6. \A b \in Accounts, s \in Threads \ {t} : Owes(b, s)' = Owes(b, s)
    BY <1>0, <2>4 DEF Owes, TypeOK
  <2>7. \A b \in Accounts, s \in Threads : Owes(b, s) \in Nat
    BY <1>0, OwesIsNat
  <2>8. /\ held' \in [Accounts -> [SUBSET Threads -> Nat]]
        /\ HeldInv'
        /\ held'[a][Threads] = held[a][Threads] + stake
        /\ \A b \in Accounts \ {a} : held'[b] = held[b]
    <3>1. stake \in Int /\ stake \in Nat
      BY <1>1
    <3>2. \A b \in Accounts :
             Owes(b, t)' = Owes(b, t) + (IF b = a THEN stake ELSE 0) /\ Owes(b, t)' \in Nat
      BY <2>5, <3>1
    <3>3. PICK x \in Accounts, d \in Int : x = a /\ d = stake
      BY <1>1, <3>1
    <3>4. Hold(t, x, d)
      BY <1>2, <3>3 DEF Hold
    <3>5. /\ \A b \in Accounts :
                Owes(b, t)' = Owes(b, t) + (IF b = x THEN d ELSE 0)
          /\ \A b \in Accounts : Owes(b, t)' \in Nat
      BY <3>2, <3>3
    <3>6. /\ held' \in [Accounts -> [SUBSET Threads -> Nat]]
          /\ HeldInv'
          /\ held'[x][Threads] = held[x][Threads] + d
          /\ \A b \in Accounts \ {x} : held'[b] = held[b]
      BY <1>0, <2>6, <2>7, <3>4, <3>5, HoldKeeps, ZenonT(30)
    <3>7. QED
      BY <3>3, <3>6
  <2>9. TypeOK'
    BY <1>0, <1>1, <2>2, <2>4, <2>8 DEF TypeOK, Stages
  <2>10. ThreadInv' /\ FreshInv'
    BY <1>0, <1>1, <2>4 DEF TypeOK, ThreadInv, ThreadOK, FreshInv
  <2>11. FundsConserved'
    <3>1. ASSUME NEW b \in Accounts
          PROVE  seed'[b] = balance'[b] + held'[b][Threads] + spent'[b]
      <4>1. seed[b] = balance[b] + held[b][Threads] + spent[b]
        BY DEF IInv, FundsConserved
      <4>2. held[b][Threads] \in Nat /\ spent[b] \in Nat /\ balance[b] \in Int
        BY <1>0 DEF TypeOK, Int64
      <4>3. CASE b = a
        BY <1>0, <1>1, <2>1, <2>4, <2>8, <4>1, <4>2, <4>3 DEF TypeOK
      <4>4. CASE b # a
        BY <1>0, <2>4, <2>8, <4>1, <4>4 DEF TypeOK
      <4>5. QED
        BY <4>3, <4>4
    <3>2. QED
      BY <3>1 DEF FundsConserved
  <2>12. NeverNegative' /\ ExposureWithinCap'
    BY <1>0, <1>1, <2>2, <2>4 DEF IInv, TypeOK, NeverNegative, ExposureWithinCap
  <2>13. QED
    BY <2>8, <2>9, <2>10, <2>11, <2>12 DEF IInv
<1>3. CASE ~(CellUnchanged(t) /\ Hold(t, a, stake))
  <2>1. /\ current' = [current EXCEPT ![t] = balance[a]]
        /\ pc' = [pc EXCEPT ![t] = "compare"]
        /\ balance' = balance /\ held' = held
    BY <1>3 DEF Swap, GoTo, LoopAgain, Reload
  <2>2. TypeOK'
    BY <1>0, <1>1, <2>1 DEF TypeOK, Stages
  <2>3. ThreadInv' /\ FreshInv'
    BY <1>0, <1>1, <2>1 DEF TypeOK, ThreadInv, ThreadOK, FreshInv
  <2>4. \A b \in Accounts, s \in Threads : Owes(b, s)' = Owes(b, s)
    BY <1>0, <2>1 DEF Owes, TypeOK
  <2>5. UNCHANGED <<engine, history>>
    BY <1>0, <2>1 DEF engine, history
  <2>6. QED
    BY <2>2, <2>3, <2>4, <2>5, MoneyStays DEF IInv
<1>4. QED
  BY <1>2, <1>3

\* What a thread that is about to decide relies on: the account's seed covers
\* its stake beside what is spent already.
LEMMA DebitedIsCovered ==
    ASSUME IInv, NEW t \in Threads, pc[t] \in {"reserve", "credit"}
    PROVE  /\ spent[bet[t].account] + bet[t].stake <= seed[bet[t].account]
           /\ balance[bet[t].account] + bet[t].stake <= MaxInt
           /\ bet[t].stake <= held[bet[t].account][Threads]
<1> DEFINE a == bet[t].account
<1>1. TypeOK /\ ThreadInv /\ HeldInv
  BY DEF IInv
<1>2. a \in Accounts /\ bet[t].stake \in 1..MaxInt
  BY <1>1, BusyBet
<1>3. Owes(a, t) = bet[t].stake
  BY DEF Owes
<1>4. held[a][Threads] \in Nat /\ bet[t].stake <= held[a][Threads]
  BY <1>1, <1>2, <1>3, HeldCovers
<1>5. /\ seed[a] = balance[a] + held[a][Threads] + spent[a]
      /\ balance[a] >= 0 /\ balance[a] \in Int /\ spent[a] \in Nat /\ seed[a] \in 0..MaxInt
  BY <1>1, <1>2 DEF IInv, FundsConserved, NeverNegative, TypeOK, Int64
<1>6. QED
  BY <1>2, <1>4, <1>5, MaxIntAssumption

LEMMA ReserveStep ==
    ASSUME IInv, NEW t \in Threads, Reserve(t)
    PROVE  IInv'
<1> DEFINE a == bet[t].account
           stake == bet[t].stake
           payout == bet[t].payout
<1>0. /\ TypeOK /\ ThreadInv /\ HeldInv /\ FreshInv /\ pc[t] = "reserve"
      /\ UNCHANGED <<cells, balance, serving, seed, calls>>
  BY DEF IInv, Reserve, At
<1>1. /\ a \in Accounts /\ stake \in 1..MaxInt /\ payout \in 1..MaxInt
      /\ bet[t] \in Bets /\ SchemaValid(bet[t])
  BY <1>0, BusyBet DEF ThreadInv, ThreadOK
<1>2. exposure[a] \in 0..MaxInt /\ spent[a] \in Nat /\ promised[a] \in Nat
  BY <1>0, <1>1 DEF TypeOK
<1>3. CASE OverCap(exposure[a], payout)
  <2>1. /\ pc' = [pc EXCEPT ![t] = "credit"]
        /\ UNCHANGED <<exposure, bet, current, held, spent, promised>>
    BY <1>3 DEF Reserve, GoTo
  <2>2. TypeOK'
    BY <1>0, <2>1 DEF TypeOK, Stages
  <2>3. ThreadInv' /\ FreshInv'
    BY <1>0, <1>1, <2>1 DEF TypeOK, ThreadInv, ThreadOK, FreshInv
  <2>4. \A b \in Accounts, s \in Threads : Owes(b, s)' = Owes(b, s)
    BY <1>0, <2>1 DEF Owes, TypeOK
  <2>5. UNCHANGED <<engine, history>>
    BY <1>0, <2>1 DEF engine, history
  <2>6. QED
    BY <2>2, <2>3, <2>4, <2>5, MoneyStays DEF IInv
<1>4. CASE ~OverCap(exposure[a], payout)
  <2>1. /\ exposure' = [exposure EXCEPT ![a] = Wrap(@ + payout)]
        /\ Hold(t, a, -stake)
        /\ spent' = [spent EXCEPT ![a] = @ + stake]
        /\ promised' = [promised EXCEPT ![a] = @ + payout]
        /\ Answer(t)
    BY <1>4 DEF Reserve
  <2>2. exposure[a] + payout \in 0..Cap /\ exposure[a] + payout \in Int64
        /\ exposure[a] + payout \in 0..MaxInt
    BY <1>1, <1>2, <1>4, CapAssumption, MaxIntAssumption DEF OverCap, Int64
  <2>3. exposure' = [exposure EXCEPT ![a] = @ + payout]
    BY <2>1, <2>2, WrapInRange
  <2>4. /\ pc' = [pc EXCEPT ![t] = "idle"] /\ bet' = [bet EXCEPT ![t] = NoBet]
    BY <2>1 DEF Answer, GoTo
  <2>5. \A b \in Accounts : /\ Owes(b, t) = (IF b = a THEN stake ELSE 0)
                            /\ Owes(b, t)' = 0
    BY <1>0, <2>4 DEF Owes, TypeOK
  <2>6. \A b \in Accounts, s \in Threads \ {t} : Owes(b, s)' = Owes(b, s)
    BY <1>0, <2>4 DEF Owes, TypeOK
  <2>7. \A b \in Accounts, s \in Threads : Owes(b, s) \in Nat
    BY <1>0, OwesIsNat
  <2>8. /\ held' \in [Accounts -> [SUBSET Threads -> Nat]]
        /\ HeldInv'
        /\ held'[a][Threads] = held[a][Threads] + (-stake)
        /\ \A b \in Accounts \ {a} : held'[b] = held[b]
    <3>1. -stake \in Int /\ stake \in Nat
      BY <1>1
    <3>2. \A b \in Accounts :
             Owes(b, t)' = Owes(b, t) + (IF b = a THEN -stake ELSE 0) /\ Owes(b, t)' \in Nat
      BY <2>5, <3>1
    <3>3. PICK x \in Accounts, d \in Int : x = a /\ d = -stake
      BY <1>1, <3>1
    <3>4. Hold(t, x, d)
      BY <2>1, <3>3 DEF Hold
    <3>5. /\ \A b \in Accounts :
                Owes(b, t)' = Owes(b, t) + (IF b = x THEN d ELSE 0)
          /\ \A b \in Accounts : Owes(b, t)' \in Nat
      BY <3>2, <3>3
    <3>6. /\ held' \in [Accounts -> [SUBSET Threads -> Nat]]
          /\ HeldInv'
          /\ held'[x][Threads] = held[x][Threads] + d
          /\ \A b \in Accounts \ {x} : held'[b] = held[b]
      BY <1>0, <2>6, <2>7, <3>4, <3>5, HoldKeeps, ZenonT(30)
    <3>7. QED
      BY <3>3, <3>6
  <2>9. TypeOK'
    <3>1. ThreadTypes'
      BY <1>0, <2>1, AnswerTypes
    <3>2. exposure' \in [Accounts -> 0..MaxInt]
      BY <1>0, <2>2, <2>3 DEF TypeOK
    <3>3. spent' \in [Accounts -> Nat] /\ promised' \in [Accounts -> Nat]
      BY <1>0, <1>1, <1>2, <2>1 DEF TypeOK
    <3>4. QED
      BY <1>0, <2>8, <3>1, <3>2, <3>3 DEF TypeOK, ThreadTypes
  <2>10. ThreadInv'
    BY <1>0, <2>1, <2>4 DEF TypeOK, ThreadInv, ThreadOK, Answer
  <2>11. FreshInv'
    BY <1>0 DEF FreshInv
  <2>12. FundsConserved'
    <3>1. ASSUME NEW b \in Accounts
          PROVE  seed'[b] = balance'[b] + held'[b][Threads] + spent'[b]
      <4>1. seed[b] = balance[b] + held[b][Threads] + spent[b]
        BY DEF IInv, FundsConserved
      <4>2. held[b][Threads] \in Nat /\ spent[b] \in Nat /\ balance[b] \in Int
        BY <1>0 DEF TypeOK, Int64
      <4>3. CASE b = a
        <5>1. spent'[a] = spent[a] + stake
          BY <1>0, <1>1, <2>1 DEF TypeOK
        <5>2. stake \in Int
          BY <1>1
        <5> HIDE DEF stake, a
        <5>3. QED
          BY <1>0, <2>8, <4>1, <4>2, <4>3, <5>1, <5>2
      <4>4. CASE b # a
        BY <1>0, <2>1, <2>8, <4>1, <4>4 DEF TypeOK
      <4>5. QED
        BY <4>3, <4>4
    <3>2. QED
      BY <3>1 DEF FundsConserved
  <2>13. NeverNegative'
    BY <1>0 DEF IInv, NeverNegative
  <2>14. ExposureWithinCap'
    <3>1. ASSUME NEW b \in Accounts PROVE exposure'[b] = promised'[b] /\ promised'[b] <= Cap
      <4>1. exposure[b] = promised[b] /\ promised[b] <= Cap
        BY DEF IInv, ExposureWithinCap
      <4>2. CASE b = a
        <5>1. exposure'[a] = exposure[a] + payout /\ promised'[a] = promised[a] + payout
          BY <1>0, <1>1, <2>1, <2>3 DEF TypeOK
        <5>2. QED
          BY <2>2, <4>1, <4>2, <5>1
      <4>3. CASE b # a
        BY <1>0, <2>1, <2>3, <4>1, <4>3 DEF TypeOK
      <4>4. QED
        BY <4>2, <4>3
    <3>2. QED
      BY <3>1 DEF ExposureWithinCap
  <2>15. QED
    BY <2>8, <2>9, <2>10, <2>11, <2>12, <2>13, <2>14 DEF IInv
<1>5. QED
  BY <1>3, <1>4


LEMMA CreditStep ==
    ASSUME IInv, NEW t \in Threads, Credit(t)
    PROVE  IInv'
<1> DEFINE a == bet[t].account
           stake == bet[t].stake
<1>0. /\ TypeOK /\ ThreadInv /\ HeldInv /\ FreshInv /\ pc[t] = "credit"
      /\ UNCHANGED <<cells, exposure, serving, seed, spent, promised, calls>>
      /\ Hold(t, a, -stake) /\ Answer(t)
  BY DEF IInv, Credit, At, StakeBack
<1>1. a \in Accounts /\ stake \in 1..MaxInt
  BY <1>0, BusyBet
<1>2. balance[a] \in Int64 /\ balance[a] >= 0
  BY <1>0, <1>1 DEF IInv, TypeOK, NeverNegative
<1>3. balance[a] + stake \in 0..MaxInt /\ balance[a] + stake \in Int64
  BY <1>0, <1>1, <1>2, DebitedIsCovered, MaxIntAssumption DEF Int64
<1>4. balance' = [balance EXCEPT ![a] = @ + stake]
  <2>1. balance' = [balance EXCEPT ![a] = Wrap(@ + stake)]
    BY DEF Credit, StakeBack
  <2>2. QED
    BY <1>3, <2>1, WrapInRange
<1>5. pc' = [pc EXCEPT ![t] = "idle"] /\ bet' = [bet EXCEPT ![t] = NoBet]
  BY <1>0 DEF Answer, GoTo
<1>6. \A b \in Accounts : /\ Owes(b, t) = (IF b = a THEN stake ELSE 0)
                          /\ Owes(b, t)' = 0
  BY <1>0, <1>5 DEF Owes, TypeOK
<1>7. \A b \in Accounts, s \in Threads \ {t} : Owes(b, s)' = Owes(b, s)
  BY <1>0, <1>5 DEF Owes, TypeOK
<1>8. \A b \in Accounts, s \in Threads : Owes(b, s) \in Nat
  BY <1>0, OwesIsNat
<1>9. /\ held' \in [Accounts -> [SUBSET Threads -> Nat]]
      /\ HeldInv'
      /\ held'[a][Threads] = held[a][Threads] + (-stake)
      /\ \A b \in Accounts \ {a} : held'[b] = held[b]
  <2>1. -stake \in Int /\ stake \in Nat
    BY <1>1
  <2>2. PICK x \in Accounts, d \in Int : x = a /\ d = -stake
    BY <1>1, <2>1
  <2>3. Hold(t, x, d)
    BY <1>0, <2>2 DEF Hold
  <2>4. /\ \A b \in Accounts :
              Owes(b, t)' = Owes(b, t) + (IF b = x THEN d ELSE 0)
        /\ \A b \in Accounts : Owes(b, t)' \in Nat
    BY <1>6, <2>1, <2>2
  <2>5. /\ held' \in [Accounts -> [SUBSET Threads -> Nat]]
        /\ HeldInv'
        /\ held'[x][Threads] = held[x][Threads] + d
        /\ \A b \in Accounts \ {x} : held'[b] = held[b]
    BY <1>0, <1>7, <1>8, <2>3, <2>4, HoldKeeps, ZenonT(30)
  <2>6. QED
    BY <2>2, <2>5
<1>10. TypeOK'
  <2>1. ThreadTypes'
    BY <1>0, AnswerTypes
  <2>2. balance' \in [Accounts -> Int64]
    BY <1>0, <1>3, <1>4 DEF TypeOK
  <2>3. QED
    BY <1>0, <1>9, <2>1, <2>2 DEF TypeOK, ThreadTypes
<1>11. ThreadInv' /\ FreshInv'
  BY <1>0, <1>5 DEF TypeOK, ThreadInv, ThreadOK, FreshInv, Answer
<1>12. FundsConserved'
  <2>1. ASSUME NEW b \in Accounts
        PROVE  seed'[b] = balance'[b] + held'[b][Threads] + spent'[b]
    <3>1. seed[b] = balance[b] + held[b][Threads] + spent[b]
      BY DEF IInv, FundsConserved
    <3>2. held[b][Threads] \in Nat /\ spent[b] \in Nat /\ balance[b] \in Int
      BY <1>0 DEF TypeOK, Int64
    <3>3. CASE b = a
      <4>1. balance'[a] = balance[a] + stake
        BY <1>0, <1>1, <1>4 DEF TypeOK
      <4>2. stake \in Int
        BY <1>1
      <4> HIDE DEF stake, a
      <4>3. QED
        BY <1>0, <1>9, <3>1, <3>2, <3>3, <4>1, <4>2
    <3>4. CASE b # a
      BY <1>0, <1>4, <1>9, <3>1, <3>4 DEF TypeOK
    <3>5. QED
      BY <3>3, <3>4
  <2>2. QED
    BY <2>1 DEF FundsConserved
<1>13. NeverNegative' /\ ExposureWithinCap'
  BY <1>0, <1>1, <1>3, <1>4 DEF IInv, TypeOK, NeverNegative, ExposureWithinCap
<1>14. QED
  BY <1>9, <1>10, <1>11, <1>12, <1>13 DEF IInv

--------------------------------------------------------------------------------
(* The invariant, the theorems and the refinement.                         *)

LEMMA Inductive == IInv /\ [Next]_vars => IInv'
<1> SUFFICES ASSUME IInv, [Next]_vars PROVE IInv'
  OBVIOUS
<1>1. CASE UNCHANGED vars
  <2>1. /\ UNCHANGED <<engine, history>> /\ UNCHANGED <<serving, calls>>
        /\ UNCHANGED <<pc, bet, current>>
    BY <1>1 DEF vars, threads
  <2>2. TypeOK' /\ ThreadInv' /\ FreshInv'
    BY <2>1 DEF IInv, TypeOK, ThreadInv, ThreadOK, FreshInv, engine, history
  <2>3. \A a \in Accounts, t \in Threads : Owes(a, t)' = Owes(a, t)
    BY <2>1 DEF Owes
  <2>4. QED
    BY <2>1, <2>2, <2>3, MoneyStays DEF IInv
<1>2. CASE Next
  BY <1>2, SetBalanceStep, ServeStep, EvaluateStep, LookStep, SwapStep, ReserveStep, CreditStep
     DEF Next, ThreadStep
<1>3. QED
  BY <1>1, <1>2

LEMMA Invariance == Spec => []IInv
  BY Initially, Inductive, PTL DEF Spec

\* No 64-bit amount ever overflows, however many threads debit and credit
\* (try_debit_balance, credit_balance, try_reserve_exposure).
THEOREM NoOverflow == Spec => []TypeOK
<1>1. IInv => TypeOK
  BY DEF IInv
<1>2. QED
  BY <1>1, Invariance, PTL

\* For any number of threads, no cent of a seeded balance is lost or made.
THEOREM Conservation == Spec => []FundsConserved
<1>1. IInv => FundsConserved
  BY DEF IInv
<1>2. QED
  BY <1>1, Invariance, PTL

\* The exchange loop never takes a balance below zero.
THEOREM Balances == Spec => []NeverNegative
<1>1. IInv => NeverNegative
  BY DEF IInv
<1>2. QED
  BY <1>1, Invariance, PTL

\* When no thread is inside evaluate_json the cells show the accepted bets.
THEOREM Quiescence == Spec => []QuietBooks
<1>1. IInv => QuietBooks
  <2> SUFFICES ASSUME IInv, \A t \in Threads : pc[t] = "idle", NEW a \in Accounts
               PROVE  balance[a] = seed[a] - spent[a]
    BY DEF QuietBooks
  <2>1. held[a][Threads] = 0
    BY DEF IInv, HeldInv, HeldOK, Owes
  <2>2. seed[a] = balance[a] + held[a][Threads] + spent[a]
    BY DEF IInv, FundsConserved
  <2>3. balance[a] \in Int /\ spent[a] \in Int
    BY DEF IInv, TypeOK, Int64
  <2>4. QED
    BY <2>1, <2>2, <2>3
<1>2. QED
  BY <1>1, Invariance, PTL

\* The exposure map shows the accepted bets and stays within the cap.
THEOREM Exposure == Spec => []ExposureWithinCap
<1>1. IInv => ExposureWithinCap
  BY DEF IInv
<1>2. QED
  BY <1>1, Invariance, PTL

\* A step of the engine is a step of the ledger or leaves it alone.
LEMMA LedgerStep ==
    ASSUME IInv, [Next]_vars
    PROVE  [Ledger!Next]_<<seed, spent, promised>>
<1>0. TypeOK /\ ThreadInv /\ FreshInv
  BY DEF IInv
<1>1. ASSUME NEW a \in Accounts, NEW amount \in Seeds, SetBalance(a, amount)
      PROVE  Ledger!Next
  <2>1. spent[a] = 0 /\ seed' = [seed EXCEPT ![a] = amount]
    BY <1>0, <1>1 DEF SetBalance, FreshInv
  <2>2. seed' = [seed EXCEPT ![a] = seed'[a]]
    BY <1>0, <2>1 DEF TypeOK
  <2>3. Ledger!Open(a, seed'[a])
    BY <1>1, <2>1, <2>2 DEF SetBalance, Ledger!Open
  <2>4. QED
    BY <2>3 DEF Ledger!Next
<1>2. ASSUME NEW t \in Threads, Reserve(t), ~UNCHANGED <<seed, spent, promised>>
      PROVE  Ledger!Next
  <2> DEFINE a == bet[t].account
             stake == bet[t].stake
             payout == bet[t].payout
  <2>1. /\ pc[t] = "reserve" /\ ~OverCap(exposure[a], payout)
        /\ spent' = [spent EXCEPT ![a] = @ + stake]
        /\ promised' = [promised EXCEPT ![a] = @ + payout]
        /\ seed' = seed
    BY <1>2 DEF Reserve, At
  <2>2. /\ a \in Accounts /\ stake \in 1..MaxInt /\ payout \in 1..MaxInt /\ stake <= payout
        /\ spent[a] \in Nat /\ promised[a] \in Nat
    BY <1>0, <2>1, BusyBet DEF TypeOK
  <2>3. spent'[a] = spent[a] + stake /\ promised'[a] = promised[a] + payout
    BY <1>0, <2>1, <2>2 DEF TypeOK
  <2>4. spent'[a] - spent[a] = stake /\ promised'[a] - promised[a] = payout
    BY <2>2, <2>3
  <2>5. spent[a] + stake <= seed[a]
    BY <2>1, DebitedIsCovered
  <2>6. promised[a] + payout <= Cap
    <3>1. exposure[a] = promised[a] /\ exposure[a] <= Cap - payout
      BY <1>0, <2>1, <2>2, CapAssumption DEF IInv, ExposureWithinCap, OverCap
    <3>2. QED
      BY <2>2, <3>1, CapAssumption
  <2>7. Ledger!Accept(a, spent'[a] - spent[a], promised'[a] - promised[a])
    <3>1. /\ spent' = [spent EXCEPT ![a] = @ + (spent'[a] - spent[a])]
          /\ promised' = [promised EXCEPT ![a] = @ + (promised'[a] - promised[a])]
      BY <2>1, <2>4
    <3>2. /\ 0 < spent'[a] - spent[a]
          /\ spent[a] + (spent'[a] - spent[a]) <= seed[a]
          /\ spent'[a] - spent[a] <= promised'[a] - promised[a]
          /\ promised[a] + (promised'[a] - promised[a]) <= Cap
      BY <2>2, <2>4, <2>5, <2>6
    <3>3. QED
      BY <2>1, <3>1, <3>2 DEF Ledger!Accept
  <2>8. QED
    BY <2>2, <2>7 DEF Ledger!Next
<1>3. ASSUME NEW t \in Threads, ThreadStep(t), ~Reserve(t)
      PROVE  UNCHANGED <<seed, spent, promised>>
  BY <1>3 DEF ThreadStep, Load, Compare, Swap, Credit, history
<1>4. ASSUME Serve \/ \E t \in Threads, b \in Bets : Evaluate(t, b)
      PROVE  UNCHANGED <<seed, spent, promised>>
  BY <1>4 DEF Serve, Evaluate, history
<1>5. CASE UNCHANGED vars
  BY <1>5 DEF vars, history
<1>6. QED
  BY <1>1, <1>2, <1>3, <1>4, <1>5 DEF Next, ThreadStep

\* However many threads evaluate bets at once, bets are accepted as if one at
\* a time, each within the balance and the cap (evaluate_json).
THEOREM Linearizable == Spec => ImplementsLedger
<1>1. Init => Ledger!Init
  BY DEF Init, Ledger!Init
<1>2. IInv /\ [Next]_vars => [Ledger!Next]_<<seed, spent, promised>>
  BY LedgerStep
<1>3. QED
  BY <1>1, <1>2, Invariance, PTL DEF Spec, Ledger!Spec, ImplementsLedger

================================================================================
