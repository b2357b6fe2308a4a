-------------------------- MODULE MpesaDeposit_proofs --------------------------
(***************************************************************************)
(* The safety properties of MpesaDeposit for any number of users, deposits *)
(* and callbacks.  They rest on who holds what: the head of the queue is   *)
(* the one request that fetches a token, a handler past its SELECT holds a *)
(* row that is still PENDING, and one past its UPDATE holds the wallet,    *)
(* whose committed balance is the one it added to.                         *)
(***************************************************************************)
EXTENDS MpesaDeposit, TLAPS

Decided == {"paid", "failed"}
Final == {"SUCCESS", "FAILED"}

QueueInv ==
    \A d \in Deposits : rpc[d] = "fetch" =>
        queue # <<>> /\ Head(queue) = d /\ (forced[d] \/ ~fresh)

RequestInv ==
    \A d \in Deposits :
        /\ rpc[d] \notin {"new", "failed"} => UserOf[d] \in accounts
        /\ rpc[d] # "done" => status[d] = "NONE"
        /\ rpc[d] \in {"new", "token", "lock", "fetch", "push"} => outcome[d] = "none"
        /\ rpc[d] \in {"record", "done"} => outcome[d] # "none"

HandlerInv ==
    \A c \in Callbacks :
        /\ cpc[c] # "idle" => outcome[Txn(c)] \in Decided
        /\ cpc[c] \in {"credit", "close"} =>
               txnLock[Txn(c)] = c /\ status[Txn(c)] = "PENDING"
        /\ cpc[c] = "credit" => outcome[Txn(c)] = "paid"
        /\ cpc[c] = "close" /\ outcome[Txn(c)] = "paid" =>
               /\ walletLock[Payer(c)] = c
               /\ written[c] = balance[Payer(c)] + AmountCents(Txn(c))
        /\ cpc[c] = "answer" => status[Txn(c)] \in Final \/ Txn(c) \in early

WalletInv ==
    /\ WalletExplained
    /\ \A u \in Users \ accounts : ledger[u] = 0

Inv == /\ TypeOK
       /\ QueueInv
       /\ RequestInv
       /\ HandlerInv
       /\ WalletInv
       /\ AcknowledgedIsSettled

USE DEF Txn, Payer

--------------------------------------------------------------------------------
(* Types.                                                                   *)

\* The amount credited is a natural number.
LEMMA Cents == \A d \in Deposits : AmountCents(d) \in Nat
BY DepositAssumption DEF AmountCents

\* The lock's queue is a queue of deposits.
LEMMA QueueType ==
    ASSUME queue \in Seq(Deposits), NEW d \in Deposits,
           \/ queue' = queue
           \/ queue' = Append(queue, d)
           \/ queue # <<>> /\ queue' = Tail(queue)
    PROVE  queue' \in Seq(Deposits)
OBVIOUS

\* A new wallet has a balance and an opening balance.
LEMMA AccountType ==
    ASSUME TypeOK, NEW u \in Users, NEW seed \in {0, WalletSeed}, OpenAccount(u, seed)
    PROVE  /\ accounts' \subseteq Users
           /\ opening' \in [Users -> {0, WalletSeed}]
           /\ balance' \in [Users -> Nat]
<1>1. CASE u \in accounts
  BY <1>1 DEF OpenAccount, TypeOK
<1>2. CASE u \notin accounts
  <2>1. /\ accounts' = accounts \cup {u}
        /\ opening' = [opening EXCEPT ![u] = seed]
        /\ balance' = [balance EXCEPT ![u] = seed]
    BY <1>2 DEF OpenAccount
  <2>2. seed \in Nat
    BY SeedAssumption
  <2> QED  BY <2>1, <2>2 DEF TypeOK
<1> QED  BY <1>1, <1>2

LEMMA TypeInit == Init => TypeOK
<1> SUFFICES ASSUME Init
             PROVE  TypeOK
  OBVIOUS
<1> USE DEF Init
<1>1. opening \in [Users -> {0, WalletSeed}] /\ queue \in Seq(Deposits)
  OBVIOUS
<1>2. faults \in 0..MaxFaults
  BY FaultsAssumption
<1>3. /\ rpc \in [Deposits -> {"new", "token", "lock", "fetch", "push", "record",
                               "done", "failed"}]
      /\ cpc \in [Callbacks -> {"idle", "lookup", "credit", "close", "answer"}]
      /\ outcome \in [Deposits -> {"none", "asked", "paid", "failed"}]
      /\ status \in [Deposits -> Statuses]
  BY DEF Statuses
<1> QED  BY <1>1, <1>2, <1>3 DEF TypeOK

\* A handler's transaction ends with every variable in its type.
LEMMA ReleaseType ==
    ASSUME TypeOK, NEW c \in Callbacks, Release(c)
    PROVE  /\ txnLock' \in [Deposits -> Callbacks \cup {Nobody}]
           /\ walletLock' \in [Users -> Callbacks \cup {Nobody}]
           /\ written' \in [Callbacks -> Nat]
BY DEF TypeOK, Release

LEMMA PushType ==
    ASSUME TypeOK, QueueInv, NEW d \in Deposits,
           Open(d) \/ PushStep(d) \/ RequestFails(d) \/ Resolve(d)
    PROVE  TypeOK'
<1> USE DEF TypeOK, rows, locks, oauth, push, gateway, handler, Goto
<1>1. CASE Open(d)
  <2>1. UserOf[d] \in Users
    BY DepositAssumption
  <2>2. /\ accounts' \subseteq Users
        /\ opening' \in [Users -> {0, WalletSeed}]
        /\ balance' \in [Users -> Nat]
    BY <1>1, <2>1, AccountType DEF Open
  <2>3. rpc' \in [Deposits -> {"new", "token", "lock", "fetch", "push", "record",
                               "done", "failed"}]
    BY <1>1, ZenonT(30) DEF Open
  <2> QED  BY <1>1, <2>2, <2>3 DEF Open
<1>2. CASE AskToken(d)
  <2>1. queue' = queue \/ queue' = Append(queue, d)
    BY <1>2 DEF AskToken
  <2>2. rpc' \in [Deposits -> {"new", "token", "lock", "fetch", "push", "record",
                               "done", "failed"}]
    BY <1>2, ZenonT(30) DEF AskToken
  <2>3. queue' \in Seq(Deposits)
    BY <2>1, QueueType
  <2> QED  BY <1>2, <2>2, <2>3 DEF AskToken
<1>3. CASE TakeLock(d)
  <2>1. queue # <<>> /\ (queue' = queue \/ queue' = Tail(queue))
    <3>1. CASE StillNeeded(d)
      BY <1>3, <3>1 DEF TakeLock
    <3>2. CASE ~StillNeeded(d)
      BY <1>3, <3>2 DEF TakeLock
    <3> QED  BY <3>1, <3>2
  <2>2. rpc' \in [Deposits -> {"new", "token", "lock", "fetch", "push", "record",
                               "done", "failed"}]
    <3>1. rpc' = [rpc EXCEPT ![d] = "fetch"] \/ rpc' = [rpc EXCEPT ![d] = "push"]
      BY <1>3, Zenon DEF TakeLock
    <3> QED  BY <3>1
  <2>3. queue' \in Seq(Deposits)
    BY <2>1, QueueType
  <2> QED  BY <1>3, <2>2, <2>3 DEF TakeLock
<1>4. CASE FetchToken(d)
  <2>1. queue' \in Seq(Deposits)
    BY <1>4 DEF FetchToken, QueueInv
  <2> QED  BY <1>4, <2>1 DEF FetchToken
<1>5. CASE Push(d)
  <2>1. queue' = queue \/ queue' = Append(queue, d)
    BY <1>5 DEF Push
  <2>2. rpc' \in [Deposits -> {"new", "token", "lock", "fetch", "push", "record",
                               "done", "failed"}]
    BY <1>5, ZenonT(30) DEF Push
  <2>3. /\ outcome' \in [Deposits -> {"none", "asked", "paid", "failed"}]
        /\ forced' \in [Deposits -> BOOLEAN]
    BY <1>5 DEF Push
  <2>4. queue' \in Seq(Deposits)
    BY <2>1, QueueType
  <2> QED  BY <1>5, <2>2, <2>3, <2>4 DEF Push
<1>6. CASE Record(d)
  BY <1>6 DEF Record, Statuses
<1>7. CASE RequestFails(d)
  <2>1. queue' \in Seq(Deposits)
    BY <1>7 DEF RequestFails, LockReturned, QueueInv
  <2>2. faults' \in 0..MaxFaults
    BY <1>7, FaultsAssumption DEF RequestFails, Fault
  <2> QED  BY <1>7, <2>1, <2>2 DEF RequestFails
<1>8. CASE Resolve(d)
  BY <1>8 DEF Resolve
<1> QED  BY <1>1, <1>2, <1>3, <1>4, <1>5, <1>6, <1>7, <1>8 DEF PushStep

LEMMA HandlerType ==
    ASSUME TypeOK, NEW c \in Callbacks,
           Send(c) \/ HandlerStep(c) \/ DatabaseError(c) \/ Lost(c)
    PROVE  TypeOK'
<1> USE DEF TypeOK, rows, locks, oauth, push, gateway, handler
<1>0. Txn(c) \in Deposits /\ Payer(c) \in Users
  BY DepositAssumption
<1>1. CASE Send(c)
  BY <1>1 DEF Send
<1>2. CASE Lookup(c)
  <2>1. txnLock' \in [Deposits -> Callbacks \cup {Nobody}] /\ early' \subseteq Deposits
    <3>1. CASE Settleable(c)
      BY <1>0, <1>2, <3>1 DEF Lookup
    <3>2. CASE ~Settleable(c)
      BY <1>0, <1>2, <3>2 DEF Lookup
    <3> QED  BY <3>1, <3>2
  <2>2. cpc' \in [Callbacks -> {"idle", "lookup", "credit", "close", "answer"}]
    BY <1>2, ZenonT(30) DEF Lookup
  <2> QED  BY <1>2, <2>1, <2>2 DEF Lookup
<1>3. CASE CreditWallet(c)
  BY <1>0, <1>3, Cents DEF CreditWallet
<1>4. CASE Close(c)
  <2>1. /\ txnLock' \in [Deposits -> Callbacks \cup {Nobody}]
        /\ walletLock' \in [Users -> Callbacks \cup {Nobody}]
        /\ written' \in [Callbacks -> Nat]
    BY <1>4, ReleaseType DEF Close
  <2>2. status' \in [Deposits -> Statuses]
    BY <1>4 DEF Close, FinalStatus, Statuses
  <2>3. balance' \in [Users -> Nat] /\ ledger' \in [Users -> Nat]
    <3>1. CASE outcome[Txn(c)] = "paid"
      <4>1. /\ balance' = [balance EXCEPT ![Payer(c)] = written[c]]
            /\ ledger' = [ledger EXCEPT ![Payer(c)] = @ + AmountCents(Txn(c))]
        BY <1>4, <3>1 DEF Close
      <4>2. AmountCents(Txn(c)) \in Nat
        BY <1>0, Cents
      <4> QED  BY <1>0, <4>1, <4>2
    <3>2. CASE outcome[Txn(c)] # "paid"
      BY <1>4, <3>2 DEF Close
    <3> QED  BY <3>1, <3>2
  <2> QED  BY <1>4, <2>1, <2>2, <2>3 DEF Close
<1>5. CASE Answer(c)
  BY <1>0, <1>5 DEF Answer
<1>6. CASE DatabaseError(c)
  <2>1. /\ txnLock' \in [Deposits -> Callbacks \cup {Nobody}]
        /\ walletLock' \in [Users -> Callbacks \cup {Nobody}]
        /\ written' \in [Callbacks -> Nat]
    BY <1>6, ReleaseType DEF DatabaseError
  <2>2. faults' \in 0..MaxFaults
    BY <1>6, FaultsAssumption DEF DatabaseError, Fault
  <2> QED  BY <1>6, <2>1, <2>2 DEF DatabaseError, AfterError
<1>7. CASE Lost(c)
  <2>1. faults' \in 0..MaxFaults
    BY <1>7, FaultsAssumption DEF Lost, Fault
  <2> QED  BY <1>7, <2>1 DEF Lost
<1> QED  BY <1>1, <1>2, <1>3, <1>4, <1>5, <1>6, <1>7 DEF HandlerStep

LEMMA TypeStep == TypeOK /\ QueueInv /\ [Next]_vars => TypeOK'
<1> SUFFICES ASSUME TypeOK, QueueInv, [Next]_vars
             PROVE  TypeOK'
  OBVIOUS
<1> USE DEF TypeOK, rows, locks, oauth, push, gateway, handler
<1>1. ASSUME NEW u \in Users, WorkerOpens(u)
      PROVE  TypeOK'
  <2>1. /\ accounts' \subseteq Users
        /\ opening' \in [Users -> {0, WalletSeed}]
        /\ balance' \in [Users -> Nat]
    BY <1>1, AccountType DEF WorkerOpens
  <2> QED  BY <1>1, <2>1 DEF WorkerOpens
<1>2. CASE TokenExpires
  BY <1>2 DEF TokenExpires
<1>3. CASE Restart
  <2>1. faults' \in 0..MaxFaults
    BY <1>3, FaultsAssumption DEF Restart, Fault
  <2>2. queue' \in Seq(Deposits)
    BY <1>3 DEF Restart
  <2> QED  BY <1>3, <2>1, <2>2 DEF Restart
<1>4. CASE UNCHANGED vars
  BY <1>4 DEF vars
<1> QED  BY <1>1, <1>2, <1>3, <1>4, PushType, HandlerType DEF Next
--------------------------------------------------------------------------------
(* The token.                                                               *)

\* What is in front of the lock's queue stays there when another joins.
LEMMA HeadStays ==
    ASSUME NEW d \in Deposits, queue \in Seq(Deposits), queue # <<>>,
           queue' = Append(queue, d)
    PROVE  queue' # <<>> /\ Head(queue') = Head(queue)
OBVIOUS

\* The request that leaves "fetch" is the one that was there.
LEMMA FetcherIsHead ==
    ASSUME QueueInv, NEW d \in Deposits, NEW e \in Deposits,
           rpc[d] = "fetch", rpc[e] = "fetch"
    PROVE  d = e
BY DEF QueueInv

LEMMA QueueStep == TypeOK /\ QueueInv /\ [Next]_vars => QueueInv'
<1> SUFFICES ASSUME TypeOK, QueueInv, [Next]_vars,
                    NEW e \in Deposits, rpc'[e] = "fetch"
             PROVE  (queue # <<>> /\ Head(queue) = e /\ (forced[e] \/ ~fresh))'
  BY DEF QueueInv
<1>0. queue \in Seq(Deposits) /\ DOMAIN rpc = Deposits
  BY DEF TypeOK
<1>q. rpc[e] = "fetch" => queue # <<>> /\ Head(queue) = e /\ (forced[e] \/ ~fresh)
  BY DEF QueueInv
<1>1. CASE UNCHANGED <<fresh, queue, rpc, forced>>
  BY <1>1, <1>q
<1>2. ASSUME NEW d \in Deposits, Open(d)
      PROVE  (queue # <<>> /\ Head(queue) = e /\ (forced[e] \/ ~fresh))'
  <2>1. rpc[e] = "fetch" /\ UNCHANGED <<fresh, queue, forced>>
    BY <1>0, <1>2 DEF Open, Goto, oauth
  <2> QED  BY <1>q, <2>1
<1>3. ASSUME NEW d \in Deposits, AskToken(d)
      PROVE  (queue # <<>> /\ Head(queue) = e /\ (forced[e] \/ ~fresh))'
  <2>1. rpc[e] = "fetch" /\ UNCHANGED <<fresh, forced>>
    BY <1>0, <1>3 DEF AskToken, Goto
  <2>2. queue' = queue \/ queue' = Append(queue, d)
    BY <1>3 DEF AskToken
  <2> QED  BY <1>0, <1>q, <2>1, <2>2, HeadStays
<1>4. ASSUME NEW d \in Deposits, TakeLock(d)
      PROVE  (queue # <<>> /\ Head(queue) = e /\ (forced[e] \/ ~fresh))'
  <2>0. rpc[d] = "lock" /\ queue # <<>> /\ Head(queue) = d /\ UNCHANGED <<fresh, forced>>
    BY <1>4 DEF TakeLock
  <2>1. rpc[e] # "fetch"
    BY <1>q, <2>0
  <2>2. CASE StillNeeded(d)
    <3>1. e = d /\ UNCHANGED queue
      BY <1>0, <1>4, <2>1, <2>2 DEF TakeLock, Goto
    <3> QED  BY <2>0, <2>2, <3>1 DEF StillNeeded
  <2>3. CASE ~StillNeeded(d)
    BY <1>0, <1>4, <2>1, <2>3 DEF TakeLock, Goto
  <2> QED  BY <2>2, <2>3
<1>5. ASSUME NEW d \in Deposits, FetchToken(d)
      PROVE  (queue # <<>> /\ Head(queue) = e /\ (forced[e] \/ ~fresh))'
  <2>1. rpc[d] = "fetch" /\ rpc[e] = "fetch" /\ e # d
    BY <1>0, <1>5 DEF FetchToken, Goto
  <2> QED  BY <2>1, FetcherIsHead
<1>6. ASSUME NEW d \in Deposits, Push(d)
      PROVE  (queue # <<>> /\ Head(queue) = e /\ (forced[e] \/ ~fresh))'
  <2>1. rpc[e] = "fetch" /\ e # d /\ UNCHANGED fresh
    BY <1>0, <1>6 DEF Push, Goto
  <2>2. forced'[e] = forced[e]
    BY <1>6, <2>1 DEF Push, TypeOK
  <2>3. queue' = queue \/ queue' = Append(queue, d)
    BY <1>6 DEF Push
  <2> QED  BY <1>0, <1>q, <2>1, <2>2, <2>3, HeadStays
<1>7. ASSUME NEW d \in Deposits, Record(d)
      PROVE  (queue # <<>> /\ Head(queue) = e /\ (forced[e] \/ ~fresh))'
  <2>1. rpc[e] = "fetch" /\ UNCHANGED <<fresh, queue, forced>>
    BY <1>0, <1>7 DEF Record, Goto, oauth
  <2> QED  BY <1>q, <2>1
<1>8. ASSUME NEW d \in Deposits, RequestFails(d)
      PROVE  (queue # <<>> /\ Head(queue) = e /\ (forced[e] \/ ~fresh))'
  <2>1. rpc[e] = "fetch" /\ e # d /\ UNCHANGED <<fresh, forced>>
    BY <1>0, <1>8 DEF RequestFails, Goto
  <2>2. rpc[d] # "fetch"
    BY <2>1, FetcherIsHead
  <2>3. UNCHANGED queue
    BY <1>8, <2>2 DEF RequestFails
  <2> QED  BY <1>q, <2>1, <2>3
<1>9. CASE TokenExpires
  BY <1>9, <1>q DEF TokenExpires, push
<1>10. CASE Restart
  BY <1>0, <1>10 DEF Restart
<1>11. ASSUME NEW d \in Deposits, Resolve(d)
       PROVE  UNCHANGED <<fresh, queue, rpc, forced>>
  BY <1>11 DEF Resolve, oauth, push
<1>12. ASSUME NEW u \in Users, WorkerOpens(u)
       PROVE  UNCHANGED <<fresh, queue, rpc, forced>>
  BY <1>12 DEF WorkerOpens, oauth, push
<1>13. ASSUME NEW c \in Callbacks, Send(c) \/ HandlerStep(c) \/ DatabaseError(c) \/ Lost(c)
       PROVE  UNCHANGED <<fresh, queue, rpc, forced>>
  BY <1>13 DEF Send, HandlerStep, Lookup, CreditWallet, Close, Answer, DatabaseError, Lost,
               oauth, push
<1>14. CASE UNCHANGED vars
  BY <1>14, <1>1 DEF vars, oauth, push
<1> QED
  BY <1>1, <1>2, <1>3, <1>4, <1>5, <1>6, <1>7, <1>8, <1>9, <1>10, <1>11, <1>12, <1>13, <1>14
     DEF Next, PushStep

--------------------------------------------------------------------------------
(* Requests.                                                                *)

\* Accounts are only added.
LEMMA AccountsGrow == TypeOK /\ [Next]_vars => accounts \subseteq accounts'
BY DEF Next, vars, WorkerOpens, Open, OpenAccount, PushStep, AskToken, TakeLock, FetchToken,
       Push, Record, RequestFails, Resolve, Send, HandlerStep, Lookup, CreditWallet, Close,
       Answer, DatabaseError, Lost, TokenExpires, Restart, rows


RequestOK(d) ==
    /\ rpc[d] \notin {"new", "failed"} => UserOf[d] \in accounts
    /\ rpc[d] # "done" => status[d] = "NONE"
    /\ rpc[d] \in {"new", "token", "lock", "fetch", "push"} => outcome[d] = "none"
    /\ rpc[d] \in {"record", "done"} => outcome[d] # "none"

\* A request is moved by its own steps, by a failure and by a restart.
LEMMA RequestStep ==
    TypeOK /\ RequestInv /\ HandlerInv /\ [Next]_vars => RequestInv'
<1> SUFFICES ASSUME TypeOK, RequestInv, HandlerInv, [Next]_vars,
                    NEW e \in Deposits
             PROVE  RequestOK(e)'
  BY DEF RequestInv, RequestOK
<1>0. /\ DOMAIN rpc = Deposits /\ DOMAIN status = Deposits /\ DOMAIN outcome = Deposits
      /\ accounts \subseteq accounts' /\ UserOf[e] \in Users
  BY AccountsGrow, DepositAssumption DEF TypeOK
<1>r. RequestOK(e)
  BY DEF RequestInv, RequestOK
<1>1. CASE UNCHANGED <<rpc, status, outcome>>
  BY <1>0, <1>1, <1>r DEF RequestOK
<1>2. ASSUME NEW d \in Deposits, Open(d)
      PROVE  RequestOK(e)'
  <2>1. rpc[d] = "new" /\ UNCHANGED <<status, outcome>>
    BY <1>2 DEF Open, gateway
  <2>2. CASE e # d
    <3>1. rpc'[e] = rpc[e]
      BY <1>0, <1>2, <2>2 DEF Open, Goto
    <3> QED  BY <1>0, <1>r, <2>1, <3>1 DEF RequestOK
  <2>3. CASE e = d /\ NameFree(UserOf[d])
    <3>1. UserOf[d] \in accounts' /\ rpc'[d] = "token"
      BY <1>0, <1>2, <2>3 DEF Open, OpenAccount, Goto
    <3> QED  BY <1>r, <2>1, <2>3, <3>1 DEF RequestOK
  <2>4. CASE e = d /\ ~NameFree(UserOf[d])
    <3>1. rpc'[d] = "failed"
      BY <1>0, <1>2, <2>4 DEF Open, Goto
    <3> QED  BY <1>r, <2>1, <2>4, <3>1 DEF RequestOK
  <2> QED  BY <2>2, <2>3, <2>4
<1>3. ASSUME NEW d \in Deposits, AskToken(d) \/ TakeLock(d) \/ FetchToken(d)
      PROVE  RequestOK(e)'
  <2>1. /\ rpc[d] \in {"token", "lock", "fetch"} /\ UNCHANGED <<status, outcome>>
        /\ \E g \in {"lock", "fetch", "push"} : rpc' = [rpc EXCEPT ![d] = g]
    BY <1>3 DEF AskToken, TakeLock, FetchToken, Goto, rows, gateway
  <2>2. CASE e # d
    BY <1>0, <1>r, <2>1, <2>2 DEF RequestOK
  <2>3. CASE e = d
    BY <1>0, <1>r, <2>1, <2>3 DEF RequestOK
  <2> QED  BY <2>2, <2>3
<1>4. ASSUME NEW d \in Deposits, Push(d)
      PROVE  RequestOK(e)'
  <2>1. rpc[d] = "push" /\ UNCHANGED status
    BY <1>4 DEF Push, rows
  <2>2. CASE outcome' = [outcome EXCEPT ![d] = "asked"] /\ Goto(d, "record")
    BY <1>0, <1>r, <2>1, <2>2 DEF RequestOK, Goto
  <2>3. CASE UNCHANGED outcome /\ (Goto(d, "failed") \/ Goto(d, "lock"))
    BY <1>0, <1>r, <2>1, <2>3 DEF RequestOK, Goto
  <2> QED  BY <1>4, <2>2, <2>3 DEF Push
<1>5. ASSUME NEW d \in Deposits, Record(d)
      PROVE  RequestOK(e)'
  <2>1. /\ rpc[d] = "record" /\ UNCHANGED outcome
        /\ rpc' = [rpc EXCEPT ![d] = "done"] /\ status' = [status EXCEPT ![d] = "PENDING"]
    BY <1>5 DEF Record, Goto, gateway
  <2> QED  BY <1>0, <1>r, <2>1 DEF RequestOK
<1>6. ASSUME NEW d \in Deposits, RequestFails(d)
      PROVE  RequestOK(e)'
  <2>1. /\ rpc[d] \in {"new", "token", "fetch", "push", "record"}
        /\ UNCHANGED <<status, outcome>> /\ rpc' = [rpc EXCEPT ![d] = "failed"]
    BY <1>6 DEF RequestFails, Goto, rows, gateway
  <2> QED  BY <1>0, <1>r, <2>1 DEF RequestOK
<1>7. ASSUME NEW d \in Deposits, Resolve(d)
      PROVE  RequestOK(e)'
  <2>1. /\ outcome[d] = "asked" /\ UNCHANGED <<status, rpc>>
        /\ \E o \in {"paid", "failed"} : outcome' = [outcome EXCEPT ![d] = o]
    BY <1>7 DEF Resolve, rows, push
  <2> QED  BY <1>0, <1>r, <2>1 DEF RequestOK
<1>8. ASSUME NEW c \in Callbacks, Close(c)
      PROVE  RequestOK(e)'
  <2>1. UNCHANGED <<rpc, outcome>> /\ status' = [status EXCEPT ![Txn(c)] = FinalStatus(Txn(c))]
    BY <1>8 DEF Close, push, gateway
  <2>2. CASE e # Txn(c)
    BY <1>0, <1>r, <2>1, <2>2 DEF RequestOK
  <2>3. CASE e = Txn(c)
    <3>1. status[e] = "PENDING"
      BY <1>8, <2>3 DEF Close, HandlerInv
    <3> QED  BY <1>0, <1>r, <2>1, <3>1 DEF RequestOK
  <2> QED  BY <2>2, <2>3
<1>9. CASE Restart
  <2>1. /\ UNCHANGED <<status, outcome>>
        /\ rpc'[e] = IF rpc[e] \in {"new", "done"} THEN rpc[e] ELSE "failed"
    BY <1>9 DEF Restart, rows, gateway
  <2> QED  BY <1>0, <1>r, <2>1 DEF RequestOK
<1>10. ASSUME NEW c \in Callbacks,
              Send(c) \/ Lookup(c) \/ CreditWallet(c) \/ Answer(c) \/ DatabaseError(c) \/ Lost(c)
       PROVE  UNCHANGED <<rpc, status, outcome>>
  BY <1>10 DEF Send, Lookup, CreditWallet, Answer, DatabaseError, Lost, rows, push, gateway
<1>11. ASSUME NEW u \in Users, WorkerOpens(u)
       PROVE  UNCHANGED <<rpc, status, outcome>>
  BY <1>11 DEF WorkerOpens, push, gateway
<1>12. CASE TokenExpires \/ UNCHANGED vars
  BY <1>1, <1>12 DEF TokenExpires, vars, rows, push, gateway
<1> QED
  BY <1>1, <1>2, <1>3, <1>4, <1>5, <1>6, <1>7, <1>8, <1>9, <1>10, <1>11, <1>12
     DEF Next, PushStep, HandlerStep

--------------------------------------------------------------------------------
(* Handlers.                                                                *)

HandlerOK(c) ==
    /\ cpc[c] # "idle" => outcome[Txn(c)] \in Decided
    /\ cpc[c] \in {"credit", "close"} => txnLock[Txn(c)] = c /\ status[Txn(c)] = "PENDING"
    /\ cpc[c] = "credit" => outcome[Txn(c)] = "paid"
    /\ cpc[c] = "close" /\ outcome[Txn(c)] = "paid" =>
           /\ walletLock[Payer(c)] = c
           /\ written[c] = balance[Payer(c)] + AmountCents(Txn(c))
    /\ cpc[c] = "answer" => status[Txn(c)] \in Final \/ Txn(c) \in early

\* A handler's own steps.
LEMMA OwnStep ==
    ASSUME TypeOK, RequestInv, NEW c \in Callbacks, HandlerOK(c),
           Send(c) \/ HandlerStep(c) \/ DatabaseError(c) \/ Lost(c)
    PROVE  HandlerOK(c)'
<1>0. /\ Txn(c) \in Deposits /\ Payer(c) \in Users
      /\ cpc \in [Callbacks -> {"idle", "lookup", "credit", "close", "answer"}]
      /\ DOMAIN status = Deposits /\ DOMAIN txnLock = Deposits
      /\ DOMAIN walletLock = Users /\ DOMAIN written = Callbacks
      /\ status[Txn(c)] \in Statuses
  BY DepositAssumption DEF TypeOK
<1>1. CASE Send(c)
  BY <1>0, <1>1 DEF Send, HandlerOK, Decided, gateway
<1>2. CASE Lookup(c)
  <2>1. outcome[Txn(c)] \in Decided /\ UNCHANGED <<status, outcome>>
    BY <1>2 DEF Lookup, HandlerOK, rows, gateway
  <2>2. CASE Settleable(c)
    <3>1. /\ txnLock'[Txn(c)] = c /\ status[Txn(c)] = "PENDING"
          /\ cpc'[c] = IF outcome[Txn(c)] = "paid" THEN "credit" ELSE "close"
      BY <1>0, <1>2, <2>2 DEF Lookup, Settleable
    <3> QED  BY <2>1, <3>1 DEF HandlerOK
  <2>3. CASE ~Settleable(c)
    <3>1. cpc'[c] = "answer" /\ (status[Txn(c)] = "NONE" => Txn(c) \in early')
      BY <1>0, <1>2, <2>3 DEF Lookup
    <3>2. status[Txn(c)] \in {"NONE"} \cup Final
      BY <1>0, <2>3 DEF Settleable, Statuses, Final
    <3> QED  BY <2>1, <3>1, <3>2 DEF HandlerOK
  <2> QED  BY <2>2, <2>3
<1>3. CASE CreditWallet(c)
  <2>1. /\ cpc[c] = "credit" /\ cpc'[c] = "close" /\ walletLock'[Payer(c)] = c
        /\ written'[c] = balance[Payer(c)] + AmountCents(Txn(c))
        /\ UNCHANGED <<balance, status, txnLock, outcome>>
    BY <1>0, <1>3 DEF CreditWallet, rows, gateway
  <2> QED  BY <2>1 DEF HandlerOK, AmountCents
<1>4. CASE Close(c)
  <2>1. /\ cpc[c] = "close" /\ cpc'[c] = "answer" /\ UNCHANGED outcome
        /\ status'[Txn(c)] \in Final
    BY <1>0, <1>4 DEF Close, FinalStatus, Final, gateway
  <2> QED  BY <2>1 DEF HandlerOK
<1>5. CASE Answer(c) \/ DatabaseError(c) \/ Lost(c)
  <2>1. cpc'[c] = "idle"
    BY <1>0, <1>5 DEF Answer, DatabaseError, Lost, AfterError
  <2> QED  BY <2>1 DEF HandlerOK
<1> QED  BY <1>1, <1>2, <1>3, <1>4, <1>5 DEF HandlerStep


\* A handler is not disturbed by another: what it holds the other does not, and
\* the other changes only what it holds itself.
LEMMA OtherStep ==
    ASSUME TypeOK, NEW c \in Callbacks, NEW e \in Callbacks, c # e,
           HandlerOK(c), HandlerOK(e),
           Send(c) \/ HandlerStep(c) \/ DatabaseError(c) \/ Lost(c)
    PROVE  HandlerOK(e)'
<1>0. /\ Txn(c) \in Deposits /\ Payer(c) \in Users /\ Txn(e) \in Deposits /\ Payer(e) \in Users
      /\ DOMAIN cpc = Callbacks
      /\ DOMAIN status = Deposits /\ DOMAIN txnLock = Deposits /\ DOMAIN balance = Users
      /\ DOMAIN walletLock = Users /\ DOMAIN written = Callbacks
      /\ Nobody \notin Callbacks
  BY DepositAssumption, NobodyAssumption DEF TypeOK
<1>1. CASE Send(c) \/ Answer(c) \/ Lost(c)
  <2>1. /\ cpc'[e] = cpc[e]
        /\ UNCHANGED <<outcome, txnLock, status, walletLock, written, balance, early>>
    BY <1>0, <1>1 DEF Send, Answer, Lost, rows, locks, gateway
  <2> QED  BY <2>1 DEF HandlerOK, AmountCents
<1>2. CASE Lookup(c)
  <2>1. /\ cpc'[e] = cpc[e] /\ early \subseteq early'
        /\ UNCHANGED <<outcome, status, walletLock, written, balance>>
    BY <1>0, <1>2 DEF Lookup, rows, gateway
  <2>2. txnLock[Txn(e)] = e => txnLock'[Txn(e)] = e
    BY <1>0, <1>2 DEF Lookup
  <2> QED  BY <2>1, <2>2 DEF HandlerOK, AmountCents
<1>3. CASE CreditWallet(c)
  <2>1. /\ cpc'[e] = cpc[e] /\ written'[e] = written[e]
        /\ UNCHANGED <<outcome, status, txnLock, balance, early>>
    BY <1>0, <1>3 DEF CreditWallet, rows, gateway
  <2>2. walletLock[Payer(e)] = e => walletLock'[Payer(e)] = e
    BY <1>0, <1>3 DEF CreditWallet, WalletFree
  <2> QED  BY <2>1, <2>2 DEF HandlerOK, AmountCents
<1>r. ASSUME Release(c)
      PROVE  /\ txnLock[Txn(e)] = e => txnLock'[Txn(e)] = e
             /\ walletLock[Payer(e)] = e => walletLock'[Payer(e)] = e
             /\ written'[e] = written[e]
  BY <1>0, <1>r DEF Release
<1>4. CASE Close(c)
  <2>1. /\ cpc[c] = "close" /\ cpc'[e] = cpc[e] /\ Release(c) /\ UNCHANGED <<outcome, early>>
        /\ status' = [status EXCEPT ![Txn(c)] = FinalStatus(Txn(c))]
    BY <1>0, <1>4 DEF Close, gateway
  <2>2. txnLock[Txn(c)] = c /\ status[Txn(c)] = "PENDING"
    BY <2>1 DEF HandlerOK
  <2>3. status[Txn(e)] \in Final => status'[Txn(e)] \in Final
    BY <1>0, <2>1, <2>2 DEF Final
  <2>4. txnLock[Txn(e)] = e => status'[Txn(e)] = status[Txn(e)]
    BY <1>0, <2>1, <2>2
  <2>5. walletLock[Payer(e)] = e => balance'[Payer(e)] = balance[Payer(e)]
    <3>1. CASE outcome[Txn(c)] = "paid"
      <4>1. walletLock[Payer(c)] = c /\ balance' = [balance EXCEPT ![Payer(c)] = written[c]]
        BY <1>4, <2>1, <3>1 DEF Close, HandlerOK
      <4> QED  BY <1>0, <4>1
    <3>2. CASE outcome[Txn(c)] # "paid"
      BY <1>4, <3>2 DEF Close
    <3> QED  BY <3>1, <3>2
  <2> QED  BY <1>r, <2>1, <2>3, <2>4, <2>5 DEF HandlerOK, AmountCents
<1>5. CASE DatabaseError(c)
  <2>1. /\ cpc'[e] = cpc[e] /\ Release(c) /\ UNCHANGED <<outcome, early, status, balance>>
    BY <1>0, <1>5 DEF DatabaseError, rows, gateway
  <2> QED  BY <1>r, <2>1 DEF HandlerOK, AmountCents
<1> QED  BY <1>1, <1>2, <1>3, <1>4, <1>5 DEF HandlerStep

\* A handler is not disturbed by the gateway, by requests and by new wallets.
LEMMA HandlersStep ==
    TypeOK /\ RequestInv /\ HandlerInv /\ [Next]_vars => HandlerInv'
<1> SUFFICES ASSUME TypeOK, RequestInv, HandlerInv, [Next]_vars,
                    NEW e \in Callbacks
             PROVE  HandlerOK(e)'
  BY DEF HandlerInv, HandlerOK
<1>0. /\ Txn(e) \in Deposits /\ Payer(e) \in Users
      /\ DOMAIN status = Deposits /\ DOMAIN outcome = Deposits /\ DOMAIN balance = Users
  BY DepositAssumption DEF TypeOK
<1>h. \A c \in Callbacks : HandlerOK(c)
  BY DEF HandlerInv, HandlerOK
<1>a. cpc[e] = "close" => Payer(e) \in accounts
  BY <1>0, <1>h DEF HandlerOK, RequestInv
<1>1. CASE UNCHANGED <<cpc, outcome, txnLock, status, walletLock, written, balance, early>>
  BY <1>1, <1>h DEF HandlerOK, AmountCents
<1>2. ASSUME NEW u \in Users, NEW seed, OpenAccount(u, seed),
             UNCHANGED <<cpc, outcome, txnLock, status, walletLock, written, early>>
      PROVE  HandlerOK(e)'
  <2>1. Payer(e) \in accounts => balance'[Payer(e)] = balance[Payer(e)]
    <3>1. CASE u \in accounts
      BY <1>2, <3>1 DEF OpenAccount
    <3>2. CASE u \notin accounts
      BY <1>0, <1>2, <3>2 DEF OpenAccount
    <3> QED  BY <3>1, <3>2
  <2> QED  BY <1>2, <1>a, <1>h, <2>1 DEF HandlerOK, AmountCents
<1>3. ASSUME NEW u \in Users, WorkerOpens(u)
      PROVE  HandlerOK(e)'
  <2>1. /\ OpenAccount(u, WalletSeed)
        /\ UNCHANGED <<cpc, outcome, txnLock, status, walletLock, written, early>>
    BY <1>3 DEF WorkerOpens, locks, gateway, handler
  <2> QED  BY <1>2, <2>1
<1>4. ASSUME NEW d \in Deposits, Open(d)
      PROVE  HandlerOK(e)'
  <2>1. UNCHANGED <<cpc, outcome, txnLock, status, walletLock, written, early>>
    BY <1>4 DEF Open, locks, gateway, handler
  <2>2. CASE OpenAccount(UserOf[d], 0)
    BY <1>2, <2>1, <2>2, DepositAssumption
  <2>3. CASE UNCHANGED balance
    BY <1>1, <2>1, <2>3
  <2> QED  BY <1>4, <2>2, <2>3 DEF Open
<1>5. ASSUME NEW d \in Deposits, Push(d)
      PROVE  HandlerOK(e)'
  <2>1. UNCHANGED <<cpc, txnLock, status, walletLock, written, balance, early>>
    BY <1>5 DEF Push, rows, locks, handler
  <2>2. CASE outcome' = [outcome EXCEPT ![d] = "asked"]
    <3>1. outcome[d] = "none"
      BY <1>5 DEF Push, RequestInv
    <3>2. cpc[e] # "idle" => outcome'[Txn(e)] = outcome[Txn(e)]
      BY <1>0, <1>h, <2>2, <3>1 DEF HandlerOK, Decided
    <3> QED  BY <1>h, <2>1, <3>2 DEF HandlerOK, AmountCents
  <2>3. CASE UNCHANGED outcome
    BY <1>1, <2>1, <2>3
  <2> QED  BY <1>5, <2>2, <2>3 DEF Push
<1>6. ASSUME NEW d \in Deposits, Record(d)
      PROVE  HandlerOK(e)'
  <2>1. /\ UNCHANGED <<cpc, outcome, txnLock, walletLock, written, balance, early>>
        /\ rpc[d] = "record" /\ status' = [status EXCEPT ![d] = "PENDING"]
    BY <1>6 DEF Record, locks, gateway, handler
  <2>2. status[d] = "NONE"
    BY <2>1 DEF RequestInv
  <2>3. status[Txn(e)] \in Final \cup {"PENDING"} => status'[Txn(e)] = status[Txn(e)]
    BY <1>0, <2>1, <2>2 DEF Final
  <2> QED  BY <1>h, <2>1, <2>3 DEF HandlerOK, AmountCents
<1>7. ASSUME NEW d \in Deposits, Resolve(d)
      PROVE  HandlerOK(e)'
  <2>1. /\ UNCHANGED <<cpc, txnLock, status, walletLock, written, balance, early>>
        /\ outcome[d] = "asked"
        /\ \E o \in {"paid", "failed"} : outcome' = [outcome EXCEPT ![d] = o]
    BY <1>7 DEF Resolve, rows, locks, handler
  <2>2. cpc[e] # "idle" => outcome'[Txn(e)] = outcome[Txn(e)]
    BY <1>0, <1>h, <2>1 DEF HandlerOK, Decided
  <2> QED  BY <1>h, <2>1, <2>2 DEF HandlerOK, AmountCents
<1>8. ASSUME NEW d \in Deposits,
             AskToken(d) \/ TakeLock(d) \/ FetchToken(d) \/ RequestFails(d)
      PROVE  HandlerOK(e)'
  <2>1. UNCHANGED <<cpc, outcome, txnLock, status, walletLock, written, balance, early>>
    BY <1>8 DEF AskToken, TakeLock, FetchToken, RequestFails, rows, locks, gateway, handler
  <2> QED  BY <1>1, <2>1
<1>9. ASSUME NEW c \in Callbacks, Send(c) \/ HandlerStep(c) \/ DatabaseError(c) \/ Lost(c)
      PROVE  HandlerOK(e)'
  BY <1>9, <1>h, OwnStep, OtherStep
<1>10. CASE Restart
  <2>1. cpc'[e] = "idle"
    BY <1>10 DEF Restart
  <2> QED  BY <2>1 DEF HandlerOK
<1>11. CASE TokenExpires \/ UNCHANGED vars
  BY <1>1, <1>11 DEF TokenExpires, vars, rows, locks, gateway, handler
<1> QED
  BY <1>3, <1>4, <1>5, <1>6, <1>7, <1>8, <1>9, <1>10, <1>11 DEF Next, PushStep


--------------------------------------------------------------------------------
(* Wallets and acknowledgements.                                            *)

WalletRows == <<accounts, opening, balance, ledger>>

\* An account opened now starts with no ledger rows.
LEMMA OpenStep ==
    ASSUME TypeOK, WalletInv, NEW u \in Users, NEW seed \in {0, WalletSeed},
           OpenAccount(u, seed), UNCHANGED ledger
    PROVE  WalletInv'
<1>1. CASE u \in accounts
  BY <1>1 DEF OpenAccount, WalletInv, WalletExplained
<1>2. CASE u \notin accounts
  <2>1. /\ accounts' = accounts \cup {u}
        /\ opening' = [opening EXCEPT ![u] = seed]
        /\ balance' = [balance EXCEPT ![u] = seed]
        /\ ledger[u] = 0
    BY <1>2 DEF OpenAccount, WalletInv
  <2>2. seed \in Nat
    BY SeedAssumption
  <2>3. \A v \in Users : balance'[v] = opening'[v] + ledger'[v]
    BY <2>1, <2>2 DEF TypeOK, WalletInv, WalletExplained
  <2> QED  BY <2>1, <2>3 DEF WalletInv, WalletExplained
<1> QED  BY <1>1, <1>2

LEMMA WalletStep ==
    TypeOK /\ RequestInv /\ HandlerInv /\ WalletInv /\ [Next]_vars => WalletInv'
<1> SUFFICES ASSUME TypeOK, RequestInv, HandlerInv, WalletInv, [Next]_vars
             PROVE  WalletInv'
  OBVIOUS
<1>1. CASE UNCHANGED WalletRows
  BY <1>1 DEF WalletRows, WalletInv, WalletExplained
<1>2. ASSUME NEW u \in Users, WorkerOpens(u)
      PROVE  WalletInv'
  BY <1>2, OpenStep DEF WorkerOpens
<1>3. ASSUME NEW d \in Deposits, Open(d)
      PROVE  WalletInv'
  <2>1. CASE OpenAccount(UserOf[d], 0)
    BY <1>3, <2>1, OpenStep, DepositAssumption DEF Open
  <2>2. CASE UNCHANGED <<accounts, opening, balance>>
    BY <1>1, <1>3, <2>2 DEF Open, WalletRows
  <2> QED  BY <1>3, <2>1, <2>2 DEF Open
<1>4. ASSUME NEW c \in Callbacks, Close(c)
      PROVE  WalletInv'
  <2>0. Txn(c) \in Deposits /\ Payer(c) \in Users /\ UNCHANGED <<accounts, opening>>
    BY <1>4, DepositAssumption DEF Close
  <2>1. CASE outcome[Txn(c)] = "paid"
    <3>1. /\ balance' = [balance EXCEPT ![Payer(c)] = balance[Payer(c)] + AmountCents(Txn(c))]
          /\ ledger' = [ledger EXCEPT ![Payer(c)] = ledger[Payer(c)] + AmountCents(Txn(c))]
      BY <1>4, <2>1 DEF Close, HandlerInv
    <3>2. AmountCents(Txn(c)) \in Nat /\ Payer(c) \in accounts
      BY <1>4, <2>0, Cents DEF Close, HandlerInv, RequestInv
    <3>3. /\ balance \in [Users -> Nat] /\ ledger \in [Users -> Nat]
          /\ \A u \in Users : opening[u] \in {0, WalletSeed}
      BY DEF TypeOK
    <3>4. ASSUME NEW u \in Users
          PROVE  balance'[u] = opening'[u] + ledger'[u]
      <4>1. balance[u] = opening[u] + ledger[u]
        BY DEF WalletInv, WalletExplained
      <4>2. CASE u = Payer(c)
        <5>1. opening[u] \in Nat
          BY <3>3, SeedAssumption
        <5> QED  BY <2>0, <3>1, <3>2, <3>3, <4>1, <4>2, <5>1
      <4>3. CASE u # Payer(c)
        BY <2>0, <3>1, <3>3, <4>1, <4>3
      <4> QED  BY <4>2, <4>3
    <3>5. \A u \in Users \ accounts' : ledger'[u] = 0
      BY <2>0, <3>1, <3>2, <3>3 DEF WalletInv
    <3> QED  BY <3>4, <3>5 DEF WalletInv, WalletExplained
  <2>2. CASE outcome[Txn(c)] # "paid"
    BY <1>1, <1>4, <2>0, <2>2 DEF Close, WalletRows
  <2> QED  BY <2>1, <2>2
<1>5. ASSUME NEW d \in Deposits, PushStep(d) \/ RequestFails(d) \/ Resolve(d)
      PROVE  UNCHANGED WalletRows
  BY <1>5 DEF PushStep, AskToken, TakeLock, FetchToken, Push, Record, RequestFails, Resolve,
              rows, WalletRows
<1>6. ASSUME NEW c \in Callbacks,
             Send(c) \/ Lookup(c) \/ CreditWallet(c) \/ Answer(c) \/ DatabaseError(c) \/ Lost(c)
      PROVE  UNCHANGED WalletRows
  BY <1>6 DEF Send, Lookup, CreditWallet, Answer, DatabaseError, Lost, rows, WalletRows
<1>7. CASE TokenExpires \/ Restart \/ UNCHANGED vars
  BY <1>1, <1>7 DEF TokenExpires, Restart, vars, rows, WalletRows
<1> QED  BY <1>1, <1>2, <1>3, <1>4, <1>5, <1>6, <1>7 DEF Next, HandlerStep

\* A final status stays, and an early callback stays one.
LEMMA FinalStays ==
    TypeOK /\ RequestInv /\ HandlerInv /\ [Next]_vars =>
        /\ \A d \in Deposits : status[d] \in Final => status'[d] = status[d]
        /\ early \subseteq early'
<1> SUFFICES ASSUME TypeOK, RequestInv, HandlerInv, [Next]_vars
             PROVE  /\ \A d \in Deposits : status[d] \in Final => status'[d] = status[d]
                    /\ early \subseteq early'
  OBVIOUS
<1>1. early \subseteq early'
  BY DEF Next, vars, WorkerOpens, Open, PushStep, AskToken, TakeLock, FetchToken, Push, Record,
         RequestFails, Resolve, Send, HandlerStep, Lookup, CreditWallet, Close, Answer,
         DatabaseError, Lost, TokenExpires, Restart
<1>2. ASSUME NEW d \in Deposits, Record(d)
      PROVE  \A e \in Deposits : status[e] \in Final => status'[e] = status[e]
  <2>1. status[d] = "NONE" /\ status' = [status EXCEPT ![d] = "PENDING"]
    BY <1>2 DEF Record, RequestInv
  <2> QED  BY <2>1 DEF Final, TypeOK
<1>3. ASSUME NEW c \in Callbacks, Close(c)
      PROVE  \A e \in Deposits : status[e] \in Final => status'[e] = status[e]
  <2>1. /\ status[Txn(c)] = "PENDING"
        /\ status' = [status EXCEPT ![Txn(c)] = FinalStatus(Txn(c))]
    BY <1>3 DEF Close, HandlerInv
  <2> QED  BY <2>1 DEF Final, TypeOK
<1>4. CASE UNCHANGED status
  BY <1>1, <1>4
<1>5. ASSUME NEW d \in Deposits,
             Open(d) \/ AskToken(d) \/ TakeLock(d) \/ FetchToken(d) \/ Push(d)
                 \/ RequestFails(d) \/ Resolve(d)
      PROVE  UNCHANGED status
  BY <1>5 DEF Open, AskToken, TakeLock, FetchToken, Push, RequestFails, Resolve, rows
<1>6. ASSUME NEW c \in Callbacks,
             Send(c) \/ Lookup(c) \/ CreditWallet(c) \/ Answer(c) \/ DatabaseError(c) \/ Lost(c)
      PROVE  UNCHANGED status
  BY <1>6 DEF Send, Lookup, CreditWallet, Answer, DatabaseError, Lost, rows
<1>7. CASE TokenExpires \/ Restart \/ UNCHANGED vars \/ \E u \in Users : WorkerOpens(u)
  BY <1>1, <1>7 DEF TokenExpires, Restart, vars, WorkerOpens, rows
<1> QED  BY <1>1, <1>2, <1>3, <1>4, <1>5, <1>6, <1>7 DEF Next, PushStep, HandlerStep

LEMMA AckStep ==
    TypeOK /\ RequestInv /\ HandlerInv /\ AcknowledgedIsSettled /\ [Next]_vars
        => AcknowledgedIsSettled'
<1> SUFFICES ASSUME TypeOK, RequestInv, HandlerInv, AcknowledgedIsSettled, [Next]_vars
             PROVE  AcknowledgedIsSettled'
  OBVIOUS
<1>0. /\ acked \subseteq Deposits /\ early \subseteq early'
      /\ \A d \in Deposits : status[d] \in Final => status'[d] \in Final
  BY FinalStays DEF TypeOK
<1>1. CASE acked' \subseteq acked
  BY <1>0, <1>1 DEF AcknowledgedIsSettled, Final
<1>2. ASSUME NEW c \in Callbacks, Answer(c)
      PROVE  AcknowledgedIsSettled'
  <2>1. Txn(c) \in Deposits /\ (status[Txn(c)] \in Final \/ Txn(c) \in early)
    BY <1>2, DepositAssumption DEF Answer, HandlerInv
  <2>2. acked' = acked \cup {Txn(c)}
    BY <1>2 DEF Answer
  <2> QED  BY <1>0, <2>1, <2>2 DEF AcknowledgedIsSettled, Final
<1>3. ASSUME ~\E c \in Callbacks : Answer(c)
      PROVE  UNCHANGED acked
  BY <1>3 DEF Next, vars, WorkerOpens, Open, PushStep, AskToken, TakeLock, FetchToken, Push,
              Record, RequestFails, Resolve, Send, HandlerStep, Lookup, CreditWallet, Close,
              DatabaseError, Lost, TokenExpires, Restart, gateway
<1> QED  BY <1>1, <1>2, <1>3

--------------------------------------------------------------------------------
(* The theorems.                                                            *)

LEMMA Invariance == Spec => []Inv
<1>1. Init => Inv
  <2> SUFFICES ASSUME Init
               PROVE  Inv
    OBVIOUS
  <2>1. TypeOK
    BY TypeInit
  <2>2. QueueInv /\ RequestInv
    BY DEF Init, QueueInv, RequestInv
  <2>3. HandlerInv
    BY DEF Init, HandlerInv
  <2>4. WalletInv /\ AcknowledgedIsSettled
    BY DEF Init, WalletInv, WalletExplained, AcknowledgedIsSettled
  <2> QED  BY <2>1, <2>2, <2>3, <2>4 DEF Inv
<1>2. Inv /\ [Next]_vars => Inv'
  BY TypeStep, QueueStep, RequestStep, HandlersStep, WalletStep, AckStep DEF Inv
<1> QED  BY <1>1, <1>2, PTL DEF Spec

\* No balance, queue or counter leaves its type, in particular no wallet goes
\* below zero through deposits (mpesa_routes.py:31-151).
THEOREM TypeCorrect == Spec => []TypeOK
<1>1. Inv => TypeOK
  BY DEF Inv
<1> QED  BY <1>1, Invariance, PTL

\* Wallet and ledger agree, however callbacks and requests of the same user
\* interleave, fail and are repeated (mpesa_routes.py:128-147).
THEOREM Wallets == Spec => []WalletExplained
<1>1. Inv => WalletExplained
  BY DEF Inv, WalletInv
<1> QED  BY <1>1, Invariance, PTL

\* One token request at a time, and none for a fresh token unless the gateway has
\* answered 401 (mpesa.py:82-107).
THEOREM Tokens == Spec => []OneFetch
<1>1. Inv => OneFetch
  BY DEF Inv, QueueInv, OneFetch
<1> QED  BY <1>1, Invariance, PTL

\* A callback is acknowledged when its deposit is settled for good, or when there
\* was no row to settle (mpesa_routes.py:109-151).
THEOREM Acknowledgements == Spec => []AcknowledgedIsSettled
<1>1. Inv => AcknowledgedIsSettled
  BY DEF Inv
<1> QED  BY <1>1, Invariance, PTL

\* Every deposit is pending, and credited or failed, once and as the customer
\* decided (mpesa_routes.py:70-80, 109-149).
THEOREM Deposited == Spec => ImplementsBook
<1>1. Init => Book!Init
  BY DEF Init, Book!Init
<1>2. Inv /\ [Next]_vars => [Book!Next]_(Book!book)
  <2> SUFFICES ASSUME Inv, [Next]_vars
               PROVE  [Book!Next]_(Book!book)
    OBVIOUS
  <2>0. TypeOK /\ RequestInv /\ HandlerInv
    BY DEF Inv
  <2>s. CASE UNCHANGED <<accounts, balance, ledger, status, outcome>>
    BY <2>s DEF Book!book
  <2>1. ASSUME NEW u \in Users, NEW seed \in {0, WalletSeed}, OpenAccount(u, seed),
               UNCHANGED <<ledger, status, outcome>>
        PROVE  [Book!Next]_(Book!book)
    <3>1. CASE u \in accounts
      BY <2>1, <2>s, <3>1 DEF OpenAccount
    <3>2. CASE u \notin accounts
      <4>1. Book!Open(u)
        BY <2>1, <3>2 DEF OpenAccount, Book!Open
      <4> QED  BY <4>1 DEF Book!Next
    <3> QED  BY <3>1, <3>2
  <2>2. ASSUME NEW u \in Users, WorkerOpens(u)
        PROVE  [Book!Next]_(Book!book)
    BY <2>1, <2>2 DEF WorkerOpens, gateway
  <2>3. ASSUME NEW d \in Deposits, Open(d)
        PROVE  [Book!Next]_(Book!book)
    <3>1. UNCHANGED <<ledger, status, outcome>>
      BY <2>3 DEF Open, gateway
    <3>2. CASE OpenAccount(UserOf[d], 0)
      BY <2>1, <3>1, <3>2, DepositAssumption
    <3>3. CASE UNCHANGED <<accounts, opening, balance>>
      BY <2>s, <3>1, <3>3
    <3> QED  BY <2>3, <3>2, <3>3 DEF Open
  <2>4. ASSUME NEW d \in Deposits, Push(d)
        PROVE  [Book!Next]_(Book!book)
    <3>1. CASE outcome' = [outcome EXCEPT ![d] = "asked"]
      <4>1. Book!Ask(d)
        BY <2>0, <2>4, <3>1 DEF Push, RequestInv, rows, Book!Ask
      <4> QED  BY <4>1 DEF Book!Next
    <3>2. CASE UNCHANGED outcome
      BY <2>4, <2>s, <3>2 DEF Push, rows
    <3> QED  BY <2>4, <3>1, <3>2 DEF Push
  <2>5. ASSUME NEW d \in Deposits, Record(d)
        PROVE  [Book!Next]_(Book!book)
    <3>1. Book!Record(d)
      BY <2>0, <2>5 DEF Record, RequestInv, gateway, Book!Record
    <3> QED  BY <3>1 DEF Book!Next
  <2>6. ASSUME NEW d \in Deposits, Resolve(d)
        PROVE  [Book!Next]_(Book!book)
    <3>1. Book!Decide(d)
      BY <2>6 DEF Resolve, rows, Book!Decide
    <3> QED  BY <3>1 DEF Book!Next
  <2>7. ASSUME NEW c \in Callbacks, Close(c)
        PROVE  [Book!Next]_(Book!book)
    <3>0. Txn(c) \in Deposits /\ status[Txn(c)] = "PENDING" /\ outcome[Txn(c)] \in Decided
      BY <2>0, <2>7, DepositAssumption DEF Close, HandlerInv
    <3>1. CASE outcome[Txn(c)] = "paid"
      <4>1. written[c] = balance[Payer(c)] + Amount[Txn(c)] * 100
        BY <2>0, <2>7, <3>1 DEF Close, HandlerInv, AmountCents
      <4>2. Book!Credit(Txn(c))
        BY <2>7, <3>0, <3>1, <4>1 DEF Close, FinalStatus, AmountCents, gateway, Book!Credit
      <4> QED  BY <3>0, <4>2 DEF Book!Next
    <3>2. CASE outcome[Txn(c)] # "paid"
      <4>1. outcome[Txn(c)] = "failed"
        BY <3>0, <3>2 DEF Decided
      <4>2. Book!Fail(Txn(c))
        BY <2>7, <3>0, <4>1 DEF Close, FinalStatus, gateway, Book!Fail
      <4> QED  BY <3>0, <4>2 DEF Book!Next
    <3> QED  BY <3>1, <3>2
  <2>8. ASSUME NEW d \in Deposits,
               AskToken(d) \/ TakeLock(d) \/ FetchToken(d) \/ RequestFails(d)
        PROVE  UNCHANGED <<accounts, balance, ledger, status, outcome>>
    BY <2>8 DEF AskToken, TakeLock, FetchToken, RequestFails, rows, gateway
  <2>9. ASSUME NEW c \in Callbacks,
               Send(c) \/ Lookup(c) \/ CreditWallet(c) \/ Answer(c) \/ DatabaseError(c) \/ Lost(c)
        PROVE  UNCHANGED <<accounts, balance, ledger, status, outcome>>
    BY <2>9 DEF Send, Lookup, CreditWallet, Answer, DatabaseError, Lost, rows, gateway
  <2>10. CASE TokenExpires \/ Restart \/ UNCHANGED vars
    BY <2>s, <2>10 DEF TokenExpires, Restart, vars, rows, gateway
  <2> QED
    BY <2>s, <2>2, <2>3, <2>4, <2>5, <2>6, <2>7, <2>8, <2>9, <2>10
       DEF Next, PushStep, HandlerStep
<1> QED  BY <1>1, <1>2, Invariance, PTL DEF Spec, ImplementsBook, Book!Spec

================================================================================
