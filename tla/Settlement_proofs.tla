-------------------------- MODULE Settlement_proofs --------------------------
(***************************************************************************)
(* Proofs about Settlement for every set of workers, requests, users, keys *)
(* and topics and every bound.  The invariant the proofs carry is IInv: it *)
(* adds to the properties what a worker and a request know in each state,  *)
(* namely which row locks they hold and which rows they have seen.         *)
(***************************************************************************)
EXTENDS Settlement, TLAPS

Processing == InTx \cup {"ack"}

\* A worker that processes a message is inside its batch, and the state says
\* what it has established: which account row it holds and that the wallet
\* covers the stake.
WorkerOK(w) ==
    /\ wpc[w] \in Processing => 1 <= cur[w] /\ cur[w] <= last[w]
    /\ wpc[w] = "debit" => Event(w).accepted
    /\ wpc[w] \in {"debit", "write"} =>
          Event(w).user \in accounts \/ walletLock[Event(w).user] = w
    /\ wpc[w] = "write" /\ Event(w).accepted =>
          /\ walletLock[Event(w).user] = w
          /\ Available(Event(w).user) >= Event(w).stake
WorkerInv == \A w \in Workers : WorkerOK(w)

\* Whoever holds a row has taken it in its running transaction.
HoldsOK(w) == \A u \in Users : walletLock[u] = w =>
                  wpc[w] \in {"debit", "write"} /\ Event(w).user = u
BetLockInv == \A k \in Keys : betLock[k] # Nobody => status[k] = "ACCEPTED"
LockInv == (\A w \in Workers : HoldsOK(w)) /\ BetLockInv

\* The bets rows point at their event, and their users have accounts; a user
\* without an account has no money and no ledger.
RowInv ==
    /\ \A k \in Keys : status[k] # "NONE" => origin[k] >= 1 /\ UserOf(k) \in accounts
    /\ \A u \in Users \ accounts : balance[u] = 0 /\ ledger[u] = 0

\* What a request has gathered concerns rows it holds, and the wallet updates
\* equal the ledger rows.
RequestOK(r) ==
    /\ \A k \in todo[r] \cup won[r] : betLock[k] = r
    /\ todo[r] \cap won[r] = {}
    /\ \A u \in Users : /\ credit[r][u] = rows[r][u]
                        /\ credit[r][u] # 0 => walletLock[u] = r /\ u \in accounts
RequestInv == \A r \in Requests : RequestOK(r)

\* Everything before the message a worker processes, and before its fetch
\* position, is finished with or still in the worker's batch.
CoverOK(w) ==
    /\ wpc[w] \in Processing => \A o \in Offsets : o < cur[w] => Covered(o)
    /\ wpc[w] = "ack" => Covered(cur[w])
    /\ \A o \in Offsets : o < pos[w] =>
          \/ Covered(o)
          \/ wpc[w] \in Processing /\ cur[w] <= o /\ o <= last[w]
CoverInv == \A w \in Workers : CoverOK(w)

IInv == /\ TypeOK /\ WorkerInv /\ LockInv /\ RowInv /\ RequestInv /\ CoverInv
        /\ WalletIsLedger /\ NoOverdraft /\ OneMovementPerBet /\ CommittedIsCovered

--------------------------------------------------------------------------------
\* A payout of natural amounts is a natural amount.
LEMMA PayoutIsNat ==
    ASSUME NEW s \in Nat, NEW o \in Nat
    PROVE  PayoutCents(s, o) \in Nat
<1>1. s * o \in Nat
  OBVIOUS
<1>2. QED
  BY <1>1 DEF PayoutCents, OddsScale

\* The event of a worker that processes one, and the row of a bet, are
\* events of the topic.
LEMMA EventIsResult ==
    ASSUME KafkaType, WorkerType, WorkerInv, NEW w \in Workers, wpc[w] \in Processing
    PROVE  /\ cur[w] \in 1..Len(topic)
           /\ cur[w] \in Offsets
           /\ Event(w) \in Result
<1>1. cur[w] \in Offsets
  BY DEF KafkaType, WorkerType, WorkerInv, WorkerOK, Offsets
<1>2. QED
  BY <1>1 DEF KafkaType, Event, Offsets

LEMMA RowIsResult ==
    ASSUME DbType, KafkaType, RowInv, NEW k \in Keys, status[k] # "NONE"
    PROVE  /\ RowOf(k) \in Result
           /\ Payout(k) \in Nat
           /\ UserOf(k) \in Users
<1>1. origin[k] \in 1..Len(topic)
  BY DEF DbType, RowInv
<1>2. RowOf(k) \in Result
  BY <1>1 DEF KafkaType, RowOf
<1>3. RowOf(k).stake \in Nat /\ RowOf(k).odds \in Nat /\ RowOf(k).user \in Users
  BY <1>2 DEF Result
<1>4. QED
  BY <1>2, <1>3, PayoutIsNat DEF Payout, UserOf

--------------------------------------------------------------------------------
(* Type correctness.                                                       *)

\* The topic is given: no step changes it.
LEMMA TopicFixed == [Next]_vars => topic' = topic
<1>1. ASSUME NEW w \in Workers, WorkerStep(w) PROVE topic' = topic
  BY <1>1 DEF WorkerStep, Start, Assign, Fetch, Ack, Check, EnsureAccount, Debit, Write,
              DatabaseError, Crash, kafka
<1>2. ASSUME NEW r \in Requests, RequestStep(r) PROVE topic' = topic
  BY <1>2 DEF RequestStep, BeginSettle, LockRow, EndScan, PayWinner, CommitSettle,
              DeadlockVictim, AbortSettle, kafka
<1>3. QED
  BY <1>1, <1>2 DEF Next, vars, kafka

\* A group of variables that a step leaves alone keeps its type.
LEMMA TypeFrame ==
    ASSUME TypeOK, topic' = topic
    PROVE  /\ UNCHANGED db => DbType'
           /\ UNCHANGED locks => LockType'
           /\ UNCHANGED <<owner, committed>> => KafkaType'
           /\ UNCHANGED worker => WorkerType'
           /\ UNCHANGED request => RequestType'
           /\ UNCHANGED <<dropped, faults, moves>> => HistoryType'
<1>1. UNCHANGED db => DbType'
  BY DEF TypeOK, DbType, db
<1>2. UNCHANGED locks => LockType'
  BY DEF TypeOK, LockType, locks
<1>3. UNCHANGED <<owner, committed>> => KafkaType'
  BY DEF TypeOK, KafkaType
<1>4. UNCHANGED worker => WorkerType'
  BY DEF TypeOK, WorkerType, worker
<1>5. UNCHANGED request => RequestType'
  BY DEF TypeOK, RequestType, request
<1>6. UNCHANGED <<dropped, faults, moves>> => HistoryType'
  BY DEF TypeOK, HistoryType, Offsets
<1>7. QED
  BY <1>1, <1>2, <1>3, <1>4, <1>5, <1>6

\* Ending a transaction, moving on in a batch and ending a process keep types.
LEMMA LockTypeRelease ==
    ASSUME LockType, NEW t, Release(t)
    PROVE  walletLock' \in [Users -> Workers \cup Requests \cup {Nobody}]
  BY DEF LockType, Release

LEMMA WorkerTypeNext ==
    ASSUME WorkerType, topic' = topic, NEW w \in Workers, NextMessage(w)
    PROVE  WorkerType'
<1>1. wpc' \in [Workers -> WorkerStates]
  BY DEF WorkerType, NextMessage, GoTo, WorkerStates, InTx
<1>2. cur' \in [Workers -> 0..Len(topic)]
  BY DEF WorkerType, NextMessage, MoreInBatch
<1>3. last' \in [Workers -> 0..Len(topic)]
  BY DEF WorkerType, NextMessage
<1>4. QED
  BY <1>1, <1>2, <1>3 DEF WorkerType, NextMessage

LEMMA WorkerTypeDie ==
    ASSUME WorkerType, LockType, KafkaType, topic' = topic, NEW w \in Workers, Die(w)
    PROVE  /\ WorkerType'
           /\ owner' \in Workers \cup {Nobody}
           /\ walletLock' \in [Users -> Workers \cup Requests \cup {Nobody}]
<1>1. WorkerType'
  BY DEF WorkerType, Die, GoTo, WorkerStates
<1>2. owner' \in Workers \cup {Nobody}
  BY DEF KafkaType, Die
<1>3. QED
  BY <1>1, <1>2, LockTypeRelease DEF Die

\* A worker that only changes its label keeps its type.
LEMMA WorkerTypeGoTo ==
    ASSUME WorkerType, topic' = topic, NEW w \in Workers, NEW label \in WorkerStates,
           GoTo(w, label), UNCHANGED <<cur, last, pos>>
    PROVE  WorkerType'
  BY DEF WorkerType, GoTo

LEMMA TypeStepWorker ==
    ASSUME TypeOK, WorkerInv, topic' = topic, NEW w \in Workers, WorkerStep(w)
    PROVE  TypeOK'
<1> USE TypeFrame DEF WorkerStates, InTx
<1>0. KafkaType /\ WorkerType /\ LockType /\ DbType /\ HistoryType
  BY DEF TypeOK
<1>1. CASE Start(w)
  <2>1. WorkerType'
    BY <1>0, <1>1, WorkerTypeGoTo DEF Start
  <2>2. QED
    BY <1>1, <2>1 DEF Start, TypeOK, db, locks, kafka, request, bounds
<1>2. CASE Assign(w)
  <2>1. WorkerType'
    BY <1>0, <1>2 DEF Assign, WorkerType, KafkaType
  <2>2. KafkaType'
    BY <1>0, <1>2 DEF Assign, KafkaType
  <2>3. HistoryType'
    BY <1>0, <1>2 DEF Assign, HistoryType, Offsets
  <2>4. QED
    BY <1>2, <2>1, <2>2, <2>3 DEF Assign, TypeOK, db, locks, request
<1>3. CASE Fetch(w)
  <2>1. WorkerType'
    <3>1. PICK end \in Offsets :
             /\ pos[w] <= end
             /\ cur' = [cur EXCEPT ![w] = pos[w]]
             /\ last' = [last EXCEPT ![w] = end]
             /\ pos' = [pos EXCEPT ![w] = end + 1]
      BY <1>3 DEF Fetch
    <3>2. wpc' \in [Workers -> WorkerStates]
      BY <1>0, <1>3 DEF Fetch, GoTo, WorkerType
    <3>3. end \in 1..Len(topic) /\ pos[w] \in 1..Len(topic) /\ Len(topic) \in Nat
      BY <1>0, <3>1, SMTT(30) DEF WorkerType, KafkaType, Offsets
    <3>4. cur' \in [Workers -> 0..Len(topic)] /\ last' \in [Workers -> 0..Len(topic)]
      BY <1>0, <3>1, <3>3 DEF WorkerType
    <3>5. pos' \in [Workers -> 1..(Len(topic) + 1)]
      BY <1>0, <3>1, <3>3 DEF WorkerType
    <3>6. QED
      BY <3>2, <3>4, <3>5 DEF WorkerType
  <2>2. QED
    BY <1>3, <2>1 DEF Fetch, TypeOK, db, locks, kafka, request, bounds
<1>4. CASE Ack(w)
  <2>1. cur[w] \in 1..Len(topic)
    BY <1>0, <1>4, EventIsResult DEF Ack, Processing
  <2>2. WorkerType'
    BY <1>0, <1>4, WorkerTypeNext, WorkerTypeDie DEF Ack
  <2>3. KafkaType'
    BY <1>0, <1>4, <2>1, WorkerTypeDie DEF Ack, KafkaType, CommitOffset
  <2>4. LockType'
    BY <1>0, <1>4, WorkerTypeDie DEF Ack, LockType
  <2>5. QED
    BY <1>4, <2>2, <2>3, <2>4 DEF Ack, TypeOK, db, request, bounds
<1>5. CASE Check(w)
  <2>1. cur[w] \in Offsets
    BY <1>0, <1>5, EventIsResult DEF Check, Processing
  <2>2. WorkerType'
    BY <1>0, <1>5, WorkerTypeGoTo DEF Check
  <2>3. HistoryType'
    BY <1>0, <1>5, <2>1 DEF Check, HistoryType, Offsets, bounds
  <2>4. QED
    BY <1>5, <2>2, <2>3 DEF Check, TypeOK, db, locks, kafka, request
<1>6. CASE EnsureAccount(w)
  <2>1. cur[w] \in Offsets
    BY <1>0, <1>6, EventIsResult DEF EnsureAccount, Processing
  <2>2. WorkerType'
    BY <1>0, <1>6, WorkerTypeGoTo DEF EnsureAccount
  <2>3. HistoryType'
    BY <1>0, <1>6, <2>1 DEF EnsureAccount, HistoryType, Offsets, bounds
  <2>4. LockType'
    BY <1>0, <1>6 DEF EnsureAccount, LockType
  <2>5. QED
    BY <1>6, <2>2, <2>3, <2>4 DEF EnsureAccount, TypeOK, db, kafka, request
<1>7. CASE Debit(w)
  <2>1. cur[w] \in Offsets
    BY <1>0, <1>7, EventIsResult DEF Debit, Processing
  <2>2. WorkerType'
    BY <1>0, <1>7, WorkerTypeGoTo, WorkerTypeNext DEF Debit, Fail, SkipMessage
  <2>3. HistoryType'
    BY <1>0, <1>7, <2>1 DEF Debit, Fail, HistoryType, Offsets, bounds
  <2>4. LockType'
    BY <1>0, <1>7, LockTypeRelease DEF Debit, Fail, LockType
  <2>5. QED
    BY <1>7, <2>2, <2>3, <2>4 DEF Debit, TypeOK, db, kafka, request
<1>8. CASE Write(w)
  <2>1. cur[w] \in 1..Len(topic) /\ Event(w) \in Result
    BY <1>0, <1>8, EventIsResult DEF Write, Processing
  <2>2. WorkerType'
    BY <1>0, <1>8, WorkerTypeGoTo, WorkerTypeNext DEF Write
  <2>3. HistoryType'
    BY <1>0, <1>8 DEF Write, HistoryType, Offsets
  <2>4. LockType'
    BY <1>0, <1>8, LockTypeRelease DEF Write, LockType
  <2>5. ASSUME Insert(w) PROVE DbType'
    <3>1. /\ Available(Event(w).user) \in Int
          /\ Event(w).user \in Users /\ Event(w).key \in Keys /\ Event(w).stake \in Nat
      BY <1>0, <2>1, SeedAssumption DEF Available, Result, DbType
    <3>2. accounts' \subseteq Users /\ status' \in [Keys -> Statuses]
      BY <1>0, <2>5, <3>1 DEF Insert, DbType, Statuses
    <3>3. origin' \in [Keys -> 0..Len(topic')]
      BY <1>0, <2>1, <2>5, <3>1 DEF Insert, DbType
    <3>4. balance' \in [Users -> Int] /\ ledger' \in [Users -> Int]
      BY <1>0, <2>5, <3>1, SMTT(30) DEF Insert, DbType
    <3>5. stakeRows' \in [Keys -> Nat] /\ payoutRows' \in [Keys -> Nat]
      BY <1>0, <2>5, <3>1, SMTT(30) DEF Insert, DbType
    <3>6. QED
      BY <3>2, <3>3, <3>4, <3>5 DEF DbType
  <2>6. DbType'
    BY <1>8, <2>5 DEF Write
  <2>7. QED
    BY <1>8, <2>2, <2>3, <2>4, <2>6 DEF Write, TypeOK, kafka, request
<1>9. CASE DatabaseError(w)
  <2>1. cur[w] \in Offsets
    BY <1>0, <1>9, EventIsResult DEF DatabaseError, Processing
  <2>2. WorkerType'
    BY <1>0, <1>9, WorkerTypeNext DEF DatabaseError, Fail, SkipMessage
  <2>3. HistoryType'
    <3>1. dropped' = dropped \cup {cur[w]} /\ faults' = faults + 1 /\ moves' = moves
      BY <1>9 DEF DatabaseError, Fail
    <3>2. faults' \in Nat /\ moves' \in Nat
      BY <1>0, <3>1 DEF HistoryType
    <3>3. dropped' \subseteq Offsets'
      BY <1>0, <2>1, <3>1 DEF HistoryType, Offsets
    <3>4. QED
      BY <3>2, <3>3 DEF HistoryType
  <2>4. LockType'
    BY <1>0, <1>9, LockTypeRelease DEF DatabaseError, Fail, LockType
  <2>5. QED
    BY <1>9, <2>2, <2>3, <2>4 DEF DatabaseError, TypeOK, db, kafka, request
<1>10. CASE Crash(w)
  <2>1. KafkaType' /\ LockType' /\ WorkerType'
    BY <1>0, <1>10, WorkerTypeDie DEF Crash, KafkaType, LockType
  <2>2. HistoryType'
    BY <1>0, <1>10 DEF Crash, HistoryType, Offsets
  <2>3. QED
    BY <1>10, <2>1, <2>2 DEF Crash, TypeOK, db, request
<1>11. QED
  BY <1>1, <1>2, <1>3, <1>4, <1>5, <1>6, <1>7, <1>8, <1>9, <1>10 DEF WorkerStep

LEMMA TypeEndRequest ==
    ASSUME RequestType, LockType, NEW r \in Requests, NEW label \in RequestStates,
           EndRequest(r, label), UNCHANGED <<match, winner, skipped>>
    PROVE  RequestType' /\ LockType'
<1>1. RequestType'
  BY DEF RequestType, EndRequest, ClearRequest
<1>2. LockType'
  BY LockTypeRelease DEF LockType, EndRequest
<1>3. QED
  BY <1>1, <1>2

LEMMA TypeStepRequest ==
    ASSUME TypeOK, RowInv, LockInv, RequestInv, topic' = topic,
           NEW r \in Requests, RequestStep(r)
    PROVE  TypeOK'
<1> USE TypeFrame DEF RequestStates
<1>0. KafkaType /\ WorkerType /\ LockType /\ DbType /\ HistoryType /\ RequestType
  BY DEF TypeOK
<1>1. CASE BeginSettle(r)
  <2>1. RequestType'
    BY <1>0, <1>1 DEF BeginSettle, Settleable, RequestType
  <2>2. QED
    BY <1>1, <2>1 DEF BeginSettle, TypeOK, db, locks, kafka, worker, bounds
<1>2. ASSUME NEW k \in Keys, LockRow(r, k) PROVE TypeOK'
  <2>0. /\ scan[r] \ {k} \in SUBSET Keys
        /\ todo[r] \cup {k} \in SUBSET Keys
        /\ skipped[r] \cup {k} \in SUBSET Keys
        /\ skipped[r] \in SUBSET Keys
    BY <1>0 DEF RequestType
  <2>1. scan' \in [Requests -> SUBSET Keys]
    BY <1>0, <1>2, <2>0 DEF LockRow, RequestType
  <2>3. todo' \in [Requests -> SUBSET Keys] /\ skipped' \in [Requests -> SUBSET Keys]
    <3>1. CASE Unlocked(r, k) /\ StillAccepted(r, k)
      BY <1>0, <1>2, <2>0, <3>1 DEF LockRow, RequestType
    <3>2. CASE ~(Unlocked(r, k) /\ StillAccepted(r, k))
      BY <1>0, <1>2, <2>0, <3>2, SMTT(30) DEF LockRow, RequestType
    <3>3. QED
      BY <3>1, <3>2
  <2>4. RequestType'
    BY <1>0, <1>2, <2>1, <2>3 DEF LockRow, RequestType
  <2>2. LockType'
    BY <1>0, <1>2 DEF LockRow, LockType
  <2>5. QED
    BY <1>2, <2>4, <2>2 DEF LockRow, TypeOK, db, kafka, worker, bounds
<1>3. CASE EndScan(r)
  <2>1. RequestType'
    BY <1>0, <1>3 DEF EndScan, RequestType
  <2>2. QED
    BY <1>3, <2>1 DEF EndScan, TypeOK, db, locks, kafka, worker, bounds
<1>4. ASSUME NEW k \in Keys, PayWinner(r, k) PROVE TypeOK'
  <2>1. Payout(k) \in Nat /\ UserOf(k) \in Users
    BY <1>0, <1>4, RowIsResult, ActorsAssumption DEF PayWinner, RequestInv, RequestOK, LockInv, BetLockInv
  <2>2. credit' \in [Requests -> [Users -> Nat]]
    BY <1>0, <1>4, <2>1 DEF PayWinner, RequestType
  <2>3. rows' \in [Requests -> [Users -> Nat]]
    BY <1>0, <1>4, <2>1 DEF PayWinner, RequestType
  <2>4. RequestType'
    BY <1>0, <1>4, <2>2, <2>3 DEF PayWinner, RequestType
  <2>5. LockType'
    BY <1>0, <1>4, <2>1 DEF PayWinner, LockType
  <2>6. QED
    BY <1>4, <2>4, <2>5 DEF PayWinner, TypeOK, db, kafka, worker, bounds
<1>5. CASE CommitSettle(r)
  <2>1. RequestType' /\ LockType'
    BY <1>0, <1>5, TypeEndRequest DEF CommitSettle
  <2>2. status' \in [Keys -> Statuses] /\ payoutRows' \in [Keys -> Nat]
    BY <1>0, <1>5 DEF CommitSettle, Outcome, DbType, Statuses
  <2>3. balance' \in [Users -> Int] /\ ledger' \in [Users -> Int]
    BY <1>0, <1>5 DEF CommitSettle, DbType, RequestType
  <2>4. DbType'
    BY <1>0, <1>5, <2>2, <2>3 DEF CommitSettle, DbType
  <2>5. QED
    BY <1>5, <2>1, <2>4 DEF CommitSettle, TypeOK, kafka, worker, bounds
<1>6. CASE DeadlockVictim(r)
  <2>1. RequestType' /\ LockType'
    BY <1>0, <1>6, TypeEndRequest DEF DeadlockVictim
  <2>2. QED
    BY <1>6, <2>1 DEF DeadlockVictim, TypeOK, db, kafka, worker, bounds
<1>7. CASE AbortSettle(r)
  <2>1. RequestType' /\ LockType'
    BY <1>0, <1>7, TypeEndRequest DEF AbortSettle
  <2>2. HistoryType'
    BY <1>0, <1>7 DEF AbortSettle, HistoryType, Offsets
  <2>3. QED
    BY <1>7, <2>1, <2>2 DEF AbortSettle, TypeOK, db, kafka, worker
<1>8. QED
  BY <1>1, <1>2, <1>3, <1>4, <1>5, <1>6, <1>7 DEF RequestStep

LEMMA TypeStutter == ASSUME TypeOK, UNCHANGED vars PROVE TypeOK'
  BY TypeFrame DEF vars, TypeOK, db, locks, kafka, worker, request, bounds

--------------------------------------------------------------------------------
(* What a step does to the actors that do not take it.                     *)

\* The step leaves worker v, the rows it holds and their content alone.
Foreign(v) ==
    /\ wpc'[v] = wpc[v] /\ cur'[v] = cur[v] /\ last'[v] = last[v] /\ pos'[v] = pos[v]
    /\ \A u \in Users : (walletLock'[u] = v) <=> (walletLock[u] = v)
    /\ \A u \in Users : walletLock[u] = v => Available(u)' = Available(u)
    /\ accounts \subseteq accounts'

\* The rows changed by an insert are those of the event's user and key.
LEMMA InsertRows ==
    ASSUME TypeOK, WorkerInv, RowInv, NEW w \in Workers, wpc[w] = "write", Insert(w)
    PROVE  /\ Event(w) \in Result /\ cur[w] \in 1..Len(topic)
           /\ accounts' = accounts \cup {Event(w).user}
           /\ \A u \in Users : u # Event(w).user =>
                 balance'[u] = balance[u] /\ ledger'[u] = ledger[u]
           /\ balance'[Event(w).user] =
                 Available(Event(w).user) - (IF Event(w).accepted THEN Event(w).stake ELSE 0)
           /\ ledger'[Event(w).user] =
                 ledger[Event(w).user] - (IF Event(w).accepted THEN Event(w).stake ELSE 0)
<1>1. Event(w) \in Result /\ cur[w] \in 1..Len(topic)
  BY EventIsResult DEF Processing, InTx, TypeOK
<1>2. Event(w).user \in Users
  BY <1>1 DEF Result
<1>3. QED
  BY <1>1, <1>2 DEF Insert, TypeOK, DbType

\* A step of one worker is foreign to every other.
LEMMA OtherWorkers ==
    ASSUME TypeOK, WorkerInv, RowInv, LockInv,
           NEW w \in Workers, NEW v \in Workers, v # w, WorkerStep(w)
    PROVE  Foreign(v)
<1> USE ActorsAssumption
<1>0. LockType /\ WorkerType
  BY DEF TypeOK
<1>1. CASE Start(w)
  BY <1>0, <1>1 DEF Start, GoTo, WorkerType, Foreign, locks, db, Available
<1>2. CASE Assign(w)
  BY <1>0, <1>2 DEF Assign, WorkerType, Foreign, locks, db, Available
<1>3. CASE Fetch(w)
  BY <1>0, <1>3 DEF Fetch, GoTo, WorkerType, Foreign, locks, db, Available
<1>4. CASE Ack(w)
  BY <1>0, <1>4 DEF Ack, NextMessage, Die, Release, GoTo, WorkerType, LockType, Foreign,
                    db, Available
<1>5. CASE Check(w)
  BY <1>0, <1>5 DEF Check, GoTo, WorkerType, Foreign, locks, db, Available
<1>6. CASE EnsureAccount(w)
  BY <1>0, <1>6 DEF EnsureAccount, GoTo, WorkerType, LockType, Foreign, db, Available
<1>7. CASE Debit(w)
  <2>1. CASE Fail(w)
    BY <1>0, <1>7, <2>1 DEF Debit, Fail, SkipMessage, NextMessage, Release, GoTo, WorkerType,
                            LockType, Foreign, db, Available
  <2>2. CASE ~Fail(w)
    BY <1>0, <1>7, <2>2 DEF Debit, GoTo, WorkerType, LockType, Foreign, db, Available
  <2>3. QED
    BY <2>1, <2>2
<1>8. CASE Write(w)
  <2>1. /\ wpc'[v] = wpc[v] /\ cur'[v] = cur[v] /\ last'[v] = last[v] /\ pos'[v] = pos[v]
        /\ \A u \in Users : (walletLock'[u] = v) <=> (walletLock[u] = v)
    BY <1>0, <1>8 DEF Write, NextMessage, Release, GoTo, WorkerType, LockType
  <2>2. CASE Insert(w)
    <3>1. Event(w).user \in accounts \/ walletLock[Event(w).user] = w
      BY <1>8 DEF Write, WorkerInv, WorkerOK
    <3>2. Event(w).accepted => walletLock[Event(w).user] = w
      BY <1>8 DEF Write, WorkerInv, WorkerOK
    <3>3. ASSUME NEW u \in Users, walletLock[u] = v PROVE Available(u)' = Available(u)
      <4>1. CASE u = Event(w).user
        BY <1>8, <2>2, <3>1, <3>2, <3>3, <4>1, InsertRows, SeedAssumption
           DEF Write, Available, TypeOK, DbType
      <4>2. CASE u # Event(w).user
        BY <1>8, <2>2, <4>2, InsertRows DEF Write, Available
      <4>3. QED
        BY <4>1, <4>2
    <3>4. QED
      BY <1>8, <2>1, <2>2, <3>3, InsertRows DEF Write, Foreign
  <2>3. CASE ~Insert(w)
    BY <1>8, <2>1, <2>3 DEF Write, Foreign, db, Available
  <2>4. QED
    BY <2>2, <2>3
<1>9. CASE DatabaseError(w)
  BY <1>0, <1>9 DEF DatabaseError, Fail, SkipMessage, NextMessage, Release, GoTo,
                    WorkerType, LockType, Foreign, db, Available
<1>10. CASE Crash(w)
  BY <1>0, <1>10 DEF Crash, Die, Release, GoTo, WorkerType, LockType, Foreign, db, Available
<1>11. QED
  BY <1>1, <1>2, <1>3, <1>4, <1>5, <1>6, <1>7, <1>8, <1>9, <1>10 DEF WorkerStep

\* A step of a request is foreign to every worker.
LEMMA WorkersAndRequests ==
    ASSUME TypeOK, RowInv, RequestInv, NEW r \in Requests, NEW v \in Workers, RequestStep(r)
    PROVE  Foreign(v)
<1> USE ActorsAssumption DEF worker, Foreign, Available
<1>0. LockType /\ WorkerType
  BY DEF TypeOK
<1>1. CASE BeginSettle(r)
  BY <1>1 DEF BeginSettle, db, locks
<1>2. ASSUME NEW k \in Keys, LockRow(r, k) PROVE Foreign(v)
  BY <1>2 DEF LockRow, db
<1>3. CASE EndScan(r)
  BY <1>3 DEF EndScan, db, locks
<1>4. ASSUME NEW k \in Keys, PayWinner(r, k) PROVE Foreign(v)
  BY <1>0, <1>4 DEF PayWinner, db, LockType
<1>5. CASE CommitSettle(r)
  <2>1. \A u \in Users : (walletLock'[u] = v) <=> (walletLock[u] = v)
    BY <1>0, <1>5 DEF CommitSettle, EndRequest, Release, LockType
  <2>2. ASSUME NEW u \in Users, walletLock[u] = v PROVE balance'[u] = balance[u]
    <3>1. credit[r][u] = 0
      BY <2>2 DEF RequestInv, RequestOK
    <3>2. QED
      BY <1>5, <3>1 DEF CommitSettle, TypeOK, DbType
  <2>3. QED
    BY <1>5, <2>1, <2>2 DEF CommitSettle
<1>6. CASE DeadlockVictim(r)
  BY <1>0, <1>6 DEF DeadlockVictim, EndRequest, Release, db, LockType
<1>7. CASE AbortSettle(r)
  BY <1>0, <1>7 DEF AbortSettle, EndRequest, Release, db, LockType
<1>8. QED
  BY <1>1, <1>2, <1>3, <1>4, <1>5, <1>6, <1>7 DEF RequestStep

--------------------------------------------------------------------------------
(* Rows once written, and what a worker has established, stay.             *)

\* A bets row changes at most from ACCEPTED to WON or LOST.
RowFinal(k) ==
    status[k] # "NONE" =>
        /\ origin'[k] = origin[k]
        /\ status'[k] # status[k] => status[k] = "ACCEPTED" /\ status'[k] \in {"WON", "LOST"}

LEMMA RowsFinalStep ==
    ASSUME TypeOK, WorkerInv, BetLockInv, [Next]_vars, NEW k \in Keys
    PROVE  RowFinal(k)
<1> USE DEF RowFinal
<1>1. ASSUME NEW w \in Workers, WorkerStep(w) PROVE RowFinal(k)
  <2>1. CASE Write(w)
    <3>1. Event(w) \in Result
      BY <2>1, EventIsResult DEF Write, Processing, InTx, TypeOK
    <3>2. Event(w).key \in Keys
      BY <3>1 DEF Result
    <3>3. QED
      BY <2>1, <3>2 DEF Write, Insert, KeyFree, TypeOK, DbType, db
  <2>2. CASE ~Write(w)
    BY <1>1, <2>2 DEF WorkerStep, Start, Assign, Fetch, Ack, Check, EnsureAccount, Debit,
                      DatabaseError, Crash, db
  <2>3. QED
    BY <2>1, <2>2
<1>2. ASSUME NEW r \in Requests, RequestStep(r) PROVE RowFinal(k)
  <2>1. CASE CommitSettle(r)
    <3>1. betLock[k] = r => status[k] = "ACCEPTED"
      BY ActorsAssumption DEF BetLockInv
    <3>2. QED
      BY <2>1, <3>1 DEF CommitSettle, Outcome
  <2>2. CASE ~CommitSettle(r)
    BY <1>2, <2>2 DEF RequestStep, BeginSettle, LockRow, EndScan, PayWinner,
                      DeadlockVictim, AbortSettle, db
  <2>3. QED
    BY <2>1, <2>2
<1>3. CASE UNCHANGED vars
  BY <1>3 DEF vars, db
<1>4. QED
  BY <1>1, <1>2, <1>3 DEF Next

\* What an offset was covered by stays.
LEMMA DroppedGrows == [Next]_vars => dropped \subseteq dropped'
<1>1. ASSUME NEW w \in Workers, WorkerStep(w) PROVE dropped \subseteq dropped'
  BY <1>1 DEF WorkerStep, Start, Assign, Fetch, Ack, Check, EnsureAccount, Debit, Write,
              DatabaseError, Crash, Fail
<1>2. ASSUME NEW r \in Requests, RequestStep(r) PROVE dropped \subseteq dropped'
  BY <1>2 DEF RequestStep, BeginSettle, LockRow, EndScan, PayWinner, CommitSettle,
              DeadlockVictim, AbortSettle
<1>3. QED
  BY <1>1, <1>2 DEF Next, vars

LEMMA CoveredStays ==
    ASSUME TypeOK, WorkerInv, BetLockInv, [Next]_vars, NEW o \in Offsets, Covered(o)
    PROVE  Covered(o)'
<1>1. topic' = topic
  BY TopicFixed
<1>2. topic[o].key \in Keys
  <2>1. topic[o] \in Result
    BY DEF TypeOK, KafkaType, Offsets
  <2>2. QED
    BY <2>1 DEF Result
<1>3. RowFinal(topic[o].key)
  BY <1>2, RowsFinalStep
<1>4. QED
  BY <1>1, <1>3, DroppedGrows DEF Covered, RowFinal

\* A step that is foreign to a worker keeps what the worker knows.
LEMMA ForeignKeeps ==
    ASSUME TypeOK, WorkerInv, LockInv, CoverInv, [Next]_vars,
           NEW v \in Workers, Foreign(v)
    PROVE  WorkerOK(v)' /\ HoldsOK(v)' /\ CoverOK(v)'
<1>1. topic' = topic /\ Event(v)' = Event(v) /\ Offsets' = Offsets
  BY TopicFixed DEF Foreign, Event, Offsets
<1>2. wpc[v] \in Processing => Event(v) \in Result /\ cur[v] \in Offsets
  BY EventIsResult DEF TypeOK
<1>3. WorkerOK(v)'
  <2>1. WorkerOK(v)
    BY DEF WorkerInv
  <2>2. wpc[v] \in Processing => Event(v).user \in Users
    BY <1>2 DEF Result
  <2>3. QED
    BY <1>1, <2>1, <2>2 DEF WorkerOK, Foreign, Processing, InTx
<1>4. HoldsOK(v)'
  BY <1>1 DEF HoldsOK, LockInv, Foreign
<1>5. CoverOK(v)'
  <2>1. CoverOK(v)
    BY DEF CoverInv
  <2>2. \A o \in Offsets : Covered(o) => Covered(o)'
    BY CoveredStays DEF LockInv
  <2>3. QED
    BY <1>1, <1>2, <2>1, <2>2 DEF CoverOK, Foreign, Processing
<1>6. QED
  BY <1>3, <1>4, <1>5

--------------------------------------------------------------------------------
(* What a worker's own step establishes.                                   *)

\* Moving on in the batch keeps the worker's facts, if it holds no row and
\* the message it leaves is finished with.
LEMMA NextMessageKeeps ==
    ASSUME TypeOK, WorkerInv, LockInv, CoverInv, [Next]_vars, NEW w \in Workers,
           wpc[w] \in Processing, NextMessage(w),
           \A o \in Offsets : o = cur[w] => Covered(o)',
           \A u \in Users : walletLock'[u] # w
    PROVE  WorkerOK(w)' /\ HoldsOK(w)' /\ CoverOK(w)'
<1>1. topic' = topic /\ Offsets' = Offsets /\ Len(topic) \in Nat
  BY TopicFixed DEF Offsets, TypeOK, KafkaType
<1>2. /\ cur[w] \in Offsets /\ last[w] \in 0..Len(topic) /\ cur[w] <= last[w]
      /\ pos[w] \in Int
  BY EventIsResult DEF TypeOK, WorkerType, WorkerInv, WorkerOK
<1>3. /\ wpc'[w] = IF MoreInBatch(w) THEN "check" ELSE "poll"
      /\ cur'[w] = IF MoreInBatch(w) THEN cur[w] + 1 ELSE 0
      /\ last'[w] = IF MoreInBatch(w) THEN last[w] ELSE 0
      /\ pos'[w] = pos[w]
  BY DEF NextMessage, GoTo, TypeOK, WorkerType
<1>4. WorkerOK(w)'
  BY <1>1, <1>2, <1>3 DEF WorkerOK, MoreInBatch, Processing, InTx, Offsets
<1>5. HoldsOK(w)'
  BY DEF HoldsOK
<1>6. CoverOK(w)'
  <2>1. \A o \in Offsets : o < cur[w] => Covered(o)'
    BY CoveredStays DEF CoverInv, CoverOK, LockInv
  <2>2. \A o \in Offsets : o <= cur[w] => Covered(o)'
    <3>1. ASSUME NEW o \in Offsets, o <= cur[w] PROVE Covered(o)'
      <4>1. CASE o = cur[w]
        BY <4>1
      <4>2. CASE o # cur[w]
        BY <3>1, <4>2, <1>2, <2>1 DEF Offsets
      <4>3. QED
        BY <4>1, <4>2
    <3>2. QED
      BY <3>1
  <2>3. \A o \in Offsets : o < pos[w] =>
           Covered(o)' \/ (cur[w] <= o /\ o <= last[w])
    BY CoveredStays DEF CoverInv, CoverOK, LockInv
  <2>4. QED
    BY <1>1, <1>2, <1>3, <2>2, <2>3 DEF CoverOK, MoreInBatch, Processing, InTx, Offsets
<1>7. QED
  BY <1>4, <1>5, <1>6


\* A process that ends holds nothing and has fetched nothing.
LEMMA DieKeeps ==
    ASSUME TypeOK, topic' = topic, NEW w \in Workers, Die(w)
    PROVE  WorkerOK(w)' /\ HoldsOK(w)' /\ CoverOK(w)'
<1>1. wpc'[w] = "down" /\ pos'[w] = 1
  BY DEF Die, GoTo, TypeOK, WorkerType
<1>2. \A u \in Users : walletLock'[u] # w
  BY ActorsAssumption DEF Die, Release, TypeOK, LockType
<1>3. WorkerOK(w)'
  BY <1>1 DEF WorkerOK, Processing, InTx
<1>4. HoldsOK(w)'
  BY <1>2 DEF HoldsOK
<1>5. CoverOK(w)'
  BY <1>1 DEF CoverOK, Processing, InTx, Offsets
<1>6. QED
  BY <1>3, <1>4, <1>5

\* An attempt that fails gives its offset up and releases its rows.
LEMMA FailKeeps ==
    ASSUME TypeOK, WorkerInv, LockInv, CoverInv, [Next]_vars, NEW w \in Workers,
           wpc[w] \in Processing, Fail(w)
    PROVE  WorkerOK(w)' /\ HoldsOK(w)' /\ CoverOK(w)'
<1>1. \A u \in Users : walletLock'[u] # w
  BY ActorsAssumption DEF Fail, Release, TypeOK, LockType
<1>2. \A o \in Offsets : o = cur[w] => Covered(o)'
  BY DEF Fail, Covered
<1>3. QED
  BY <1>1, <1>2, NextMessageKeeps DEF Fail, SkipMessage

\* A step within the message keeps what concerns the batch.
LEMMA SameMessageCover ==
    ASSUME TypeOK, WorkerInv, LockInv, CoverInv, [Next]_vars, NEW w \in Workers,
           wpc[w] \in Processing, wpc'[w] \in Processing,
           cur'[w] = cur[w], last'[w] = last[w], pos'[w] = pos[w],
           wpc'[w] = "ack" => \A o \in Offsets : o = cur[w] => Covered(o)'
    PROVE  CoverOK(w)'
<1>1. topic' = topic /\ Offsets' = Offsets
  BY TopicFixed DEF Offsets
<1>2. cur[w] \in Offsets
  BY EventIsResult DEF TypeOK
<1>3. \A o \in Offsets : Covered(o) => Covered(o)'
  BY CoveredStays DEF LockInv
<1>4. CoverOK(w)
  BY DEF CoverInv
<1>5. wpc'[w] = "ack" => Covered(cur[w])'
  BY <1>2 DEF Covered
<1>6. QED
  BY <1>1, <1>2, <1>3, <1>4, <1>5 DEF CoverOK, Processing, InTx

LEMMA OwnStep ==
    ASSUME TypeOK, WorkerInv, LockInv, RowInv, CoverInv, CommittedIsCovered,
           NEW w \in Workers, WorkerStep(w)
    PROVE  WorkerOK(w)' /\ HoldsOK(w)' /\ CoverOK(w)'
<1> USE ActorsAssumption
<1>0. /\ [Next]_vars /\ topic' = topic /\ Offsets' = Offsets
      /\ LockType /\ WorkerType /\ KafkaType /\ WorkerOK(w) /\ HoldsOK(w) /\ CoverOK(w)
  BY TopicFixed DEF Next, TypeOK, Offsets, WorkerInv, LockInv, CoverInv
<1>1. CASE Start(w)
  <2>1. wpc'[w] = "poll" /\ pos'[w] = pos[w] /\ UNCHANGED <<walletLock, dropped, status>>
    BY <1>0, <1>1 DEF Start, GoTo, WorkerType, locks, db
  <2>2. WorkerOK(w)' /\ HoldsOK(w)'
    BY <1>0, <1>1, <2>1 DEF WorkerOK, HoldsOK, Processing, InTx, Start
  <2>3. CoverOK(w)'
    BY <1>0, <1>1, <2>1 DEF CoverOK, Processing, InTx, Start, Covered
  <2>4. QED
    BY <2>2, <2>3
<1>2. CASE Assign(w)
  <2>1. /\ pos'[w] = committed
        /\ UNCHANGED <<wpc, cur, last, walletLock, accounts, balance, status, dropped>>
    BY <1>0, <1>2 DEF Assign, WorkerType, locks, db
  <2>2. WorkerOK(w)' /\ HoldsOK(w)'
    BY <1>0, <2>1 DEF WorkerOK, HoldsOK, Event, Available
  <2>3. CoverOK(w)'
    BY <1>0, <2>1 DEF CoverOK, Covered, CommittedIsCovered
  <2>4. QED
    BY <2>2, <2>3
<1>3. CASE Fetch(w)
  <2>1. PICK end \in Offsets :
           /\ pos[w] <= end
           /\ cur' = [cur EXCEPT ![w] = pos[w]]
           /\ last' = [last EXCEPT ![w] = end]
           /\ pos' = [pos EXCEPT ![w] = end + 1]
    BY <1>3 DEF Fetch
  <2>2. /\ cur'[w] = pos[w] /\ last'[w] = end /\ pos'[w] = end + 1 /\ wpc'[w] = "check"
        /\ pos[w] \in Nat /\ pos[w] >= 1 /\ end \in Nat /\ wpc[w] = "poll"
        /\ UNCHANGED <<walletLock, dropped, status>>
    BY <1>0, <1>3, <2>1 DEF Fetch, GoTo, WorkerType, KafkaType, Offsets, locks, db
  <2>3. WorkerOK(w)' /\ HoldsOK(w)'
    BY <1>0, <2>1, <2>2 DEF WorkerOK, HoldsOK, Processing, InTx
  <2>4. \A o \in Offsets : o < pos[w] => Covered(o)
    BY <1>0, <2>2 DEF CoverOK, Processing, InTx
  <2>5. \A o \in Offsets : Covered(o) <=> Covered(o)'
    BY <1>0, <2>2 DEF Covered
  <2>6. CoverOK(w)'
    BY <1>0, <2>1, <2>2, <2>4, <2>5 DEF CoverOK, Processing, InTx, Offsets
  <2>7. QED
    BY <2>3, <2>6
<1>4. CASE Ack(w)
  <2>1. wpc[w] = "ack" /\ ((NextMessage(w) /\ walletLock' = walletLock) \/ Die(w))
    BY <1>4 DEF Ack
  <2>2. \A u \in Users : walletLock[u] # w
    BY <1>0, <2>1 DEF HoldsOK
  <2>3. \A o \in Offsets : o = cur[w] => Covered(o)'
    BY <1>0, <2>1, CoveredStays DEF CoverOK, LockInv
  <2>4. QED
    BY <1>0, <2>1, <2>2, <2>3, NextMessageKeeps, DieKeeps DEF Processing
<1>5. CASE Check(w)
  <2>1. /\ wpc[w] = "check" /\ wpc'[w] \in {"ack", "ensure"}
        /\ cur'[w] = cur[w] /\ last'[w] = last[w] /\ pos'[w] = pos[w]
        /\ UNCHANGED <<walletLock, accounts, balance>>
    BY <1>0, <1>5 DEF Check, GoTo, WorkerType, locks, db
  <2>2. WorkerOK(w)' /\ HoldsOK(w)'
    BY <1>0, <2>1 DEF WorkerOK, HoldsOK, Processing, InTx
  <2>3. wpc'[w] = "ack" => \A o \in Offsets : o = cur[w] => Covered(o)'
    BY <1>0, <1>5 DEF Check, GoTo, WorkerType, Covered, db, Event
  <2>4. CoverOK(w)'
    BY <1>0, <2>1, <2>3, SameMessageCover DEF Processing, InTx
  <2>5. QED
    BY <2>2, <2>4
<1>6. CASE EnsureAccount(w)
  <2>0. Event(w) \in Result /\ Event(w).user \in Users
    BY <1>0, <1>6, EventIsResult DEF EnsureAccount, Processing, InTx, Result
  <2>1. /\ wpc[w] = "ensure" /\ wpc'[w] \in {"ack", "debit", "write"}
        /\ wpc'[w] = "debit" => Event(w).accepted
        /\ wpc'[w] = "write" => ~Event(w).accepted
        /\ cur'[w] = cur[w] /\ last'[w] = last[w] /\ pos'[w] = pos[w]
        /\ UNCHANGED <<accounts, balance>>
    BY <1>0, <1>6 DEF EnsureAccount, GoTo, WorkerType, db
  <2>2. Event(w)' = Event(w)
    BY <1>0, <2>1 DEF Event
  <2>3. \A u \in Users : walletLock[u] # w
    BY <1>0, <2>1 DEF HoldsOK
  <2>4. /\ \A u \in Users : walletLock'[u] = w => u = Event(w).user /\ wpc'[w] # "ack"
        /\ wpc'[w] # "ack" =>
              Event(w).user \in accounts \/ walletLock'[Event(w).user] = w
    BY <1>0, <1>6, <2>0, <2>3 DEF EnsureAccount, GoTo, WorkerType, LockType
  <2>5. WorkerOK(w)' /\ HoldsOK(w)'
    BY <1>0, <2>1, <2>2, <2>4 DEF WorkerOK, HoldsOK, Processing, InTx
  <2>6. wpc'[w] = "ack" => \A o \in Offsets : o = cur[w] => Covered(o)'
    BY <1>0, <1>6 DEF EnsureAccount, GoTo, WorkerType, Covered
  <2>7. CoverOK(w)'
    BY <1>0, <2>1, <2>6, SameMessageCover DEF Processing, InTx
  <2>8. QED
    BY <2>5, <2>7
<1>7. CASE Debit(w)
  <2>0. Event(w) \in Result /\ Event(w).user \in Users /\ wpc[w] = "debit"
    BY <1>0, <1>7, EventIsResult DEF Debit, Processing, InTx, Result
  <2>1. CASE Fail(w)
    BY <1>0, <2>0, <2>1, FailKeeps DEF Processing, InTx
  <2>2. CASE ~Fail(w)
    <3>1. /\ wpc'[w] = "write" /\ cur'[w] = cur[w] /\ last'[w] = last[w] /\ pos'[w] = pos[w]
          /\ UNCHANGED <<accounts, balance>>
          /\ walletLock' = [walletLock EXCEPT ![Event(w).user] = w]
          /\ Covers(Event(w))
      BY <1>0, <1>7, <2>2 DEF Debit, GoTo, WorkerType, db
    <3>2. Event(w)' = Event(w)
      BY <1>0, <3>1 DEF Event
    <3>3. WorkerOK(w)' /\ HoldsOK(w)'
      <4>1. walletLock'[Event(w).user] = w
        BY <1>0, <2>0, <3>1 DEF LockType
      <4>2. Available(Event(w).user)' = Available(Event(w).user)
        BY <3>1, <3>2 DEF Available
      <4>3. \A u \in Users : walletLock'[u] = w => u = Event(w).user
        BY <1>0, <2>0, <3>1 DEF HoldsOK, LockType
      <4>4. QED
        BY <1>0, <2>0, <3>1, <3>2, <4>1, <4>2, <4>3
           DEF WorkerOK, HoldsOK, Processing, InTx, Covers
    <3>4. CoverOK(w)'
      BY <1>0, <2>0, <3>1, SameMessageCover DEF Processing, InTx
    <3>5. QED
      BY <3>3, <3>4
  <2>3. QED
    BY <2>1, <2>2
<1>8. CASE Write(w)
  <2>0. wpc[w] = "write" /\ Event(w) \in Result /\ Event(w).key \in Keys /\ cur[w] \in Offsets
    BY <1>0, <1>8, EventIsResult DEF Write, Processing, InTx, Result
  <2>1. \A u \in Users : walletLock'[u] # w
    BY <1>0, <1>8 DEF Write, Release, LockType
  <2>2. status'[Event(w).key] # "NONE"
    BY <1>8, <2>0 DEF Write, Insert, KeyFree, TypeOK, DbType, db
  <2>3. \A o \in Offsets : o = cur[w] => Covered(o)'
    BY <1>0, <2>2 DEF Covered, Event
  <2>4. CASE NextMessage(w)
    BY <1>0, <2>0, <2>1, <2>3, <2>4, NextMessageKeeps DEF Processing, InTx
  <2>5. CASE ~NextMessage(w)
    <3>1. wpc'[w] = "ack" /\ cur'[w] = cur[w] /\ last'[w] = last[w] /\ pos'[w] = pos[w]
      BY <1>0, <1>8, <2>5 DEF Write, GoTo, WorkerType
    <3>2. WorkerOK(w)' /\ HoldsOK(w)'
      BY <1>0, <2>0, <2>1, <3>1 DEF WorkerOK, HoldsOK, Processing, InTx
    <3>3. CoverOK(w)'
      BY <1>0, <2>0, <2>3, <3>1, SameMessageCover DEF Processing, InTx
    <3>4. QED
      BY <3>2, <3>3
  <2>6. QED
    BY <2>4, <2>5
<1>9. CASE DatabaseError(w)
  BY <1>0, <1>9, FailKeeps DEF DatabaseError, Processing
<1>10. CASE Crash(w)
  BY <1>0, <1>10, DieKeeps DEF Crash
<1>11. QED
  BY <1>1, <1>2, <1>3, <1>4, <1>5, <1>6, <1>7, <1>8, <1>9, <1>10 DEF WorkerStep


\* Every step keeps what every worker knows.
LEMMA WorkersStep ==
    ASSUME TypeOK, WorkerInv, LockInv, RowInv, RequestInv, CoverInv, CommittedIsCovered, [Next]_vars
    PROVE  WorkerInv' /\ (\A w \in Workers : HoldsOK(w))' /\ CoverInv'
<1>1. ASSUME NEW v \in Workers PROVE WorkerOK(v)' /\ HoldsOK(v)' /\ CoverOK(v)'
  <2>1. ASSUME NEW w \in Workers, WorkerStep(w) PROVE WorkerOK(v)' /\ HoldsOK(v)' /\ CoverOK(v)'
    <3>1. CASE v = w
      BY <2>1, <3>1, OwnStep
    <3>2. CASE v # w
      BY <2>1, <3>2, OtherWorkers, ForeignKeeps
    <3>3. QED
      BY <3>1, <3>2
  <2>2. ASSUME NEW r \in Requests, RequestStep(r) PROVE WorkerOK(v)' /\ HoldsOK(v)' /\ CoverOK(v)'
    BY <2>2, WorkersAndRequests, ForeignKeeps
  <2>3. CASE UNCHANGED vars
    <3>1. Foreign(v)
      BY <2>3 DEF Foreign, vars, worker, locks, db, Available
    <3>2. QED
      BY <3>1, ForeignKeeps
  <2>4. QED
    BY <2>1, <2>2, <2>3 DEF Next
<1>2. QED
  BY <1>1 DEF WorkerInv, CoverInv

LEMMA CommittedStep ==
    ASSUME TypeOK, WorkerInv, LockInv, CoverInv, CommittedIsCovered, [Next]_vars
    PROVE  CommittedIsCovered'
<1>0. Offsets' = Offsets /\ \A o \in Offsets : Covered(o) => Covered(o)'
  BY TopicFixed, CoveredStays DEF Offsets, LockInv
<1>1. CASE committed' = committed
  BY <1>0, <1>1 DEF CommittedIsCovered
<1>2. CASE committed' # committed
  <2>1. PICK w \in Workers : Ack(w) /\ wpc[w] = "ack" /\ committed' = cur[w] + 1
    <3>1. ASSUME NEW r \in Requests PROVE ~RequestStep(r)
      BY <1>2 DEF RequestStep, BeginSettle, LockRow, EndScan, PayWinner, CommitSettle,
                  DeadlockVictim, AbortSettle, kafka
    <3>2. PICK w \in Workers : WorkerStep(w)
      BY <1>2, <3>1 DEF Next, vars, kafka
    <3>3. Ack(w)
      BY <1>2, <3>2 DEF WorkerStep, Start, Assign, Fetch, Check, EnsureAccount, Debit, Write,
                        DatabaseError, Crash, kafka
    <3>4. QED
      BY <1>2, <3>3 DEF Ack, CommitOffset
  <2>2. cur[w] \in Offsets
    BY <2>1, EventIsResult DEF Processing, TypeOK
  <2>3. \A o \in Offsets : o <= cur[w] => Covered(o)
    BY <2>1, <2>2 DEF CoverInv, CoverOK, Processing, Offsets
  <2>4. QED
    BY <1>0, <2>1, <2>2, <2>3 DEF CommittedIsCovered, Offsets
<1>3. QED
  BY <1>1, <1>2

--------------------------------------------------------------------------------
(* What the requests hold.                                                 *)

\* Every request leaves the rows of another alone.
LEMMA BetLockStep ==
    ASSUME TypeOK, WorkerInv, LockInv, RequestInv, [Next]_vars
    PROVE  BetLockInv'
<1> USE ActorsAssumption
<1>1. ASSUME NEW k \in Keys, betLock'[k] # Nobody PROVE status'[k] = "ACCEPTED"
  <2>0. RowFinal(k)
    BY RowsFinalStep DEF LockInv
  <2>1. ASSUME NEW w \in Workers, WorkerStep(w) PROVE status'[k] = "ACCEPTED"
    <3>1. betLock' = betLock /\ status[k] = "ACCEPTED"
      BY <1>1, <2>1 DEF WorkerStep, Start, Assign, Fetch, Ack, Check, EnsureAccount, Debit,
         Write, DatabaseError, Crash, locks, LockInv, BetLockInv
    <3>2. status'[k] \notin {"WON", "LOST"}
      <4>1. CASE Write(w)
        BY <3>1, <4>1 DEF Write, Insert, TypeOK, DbType, db
      <4>2. CASE ~Write(w)
        BY <2>1, <3>1, <4>2 DEF WorkerStep, Start, Assign, Fetch, Ack, Check, EnsureAccount,
           Debit, DatabaseError, Crash, db
      <4>3. QED
        BY <4>1, <4>2
    <3>3. QED
      BY <2>0, <3>1, <3>2 DEF RowFinal
  <2>2. ASSUME NEW r \in Requests, RequestStep(r) PROVE status'[k] = "ACCEPTED"
    <3>1. CASE CommitSettle(r)
      BY <1>1, <3>1 DEF CommitSettle, EndRequest, LockInv, BetLockInv
    <3>2. CASE ~CommitSettle(r)
      <4>1. status' = status
        BY <2>2, <3>2 DEF RequestStep, BeginSettle, LockRow, EndScan, PayWinner,
                          DeadlockVictim, AbortSettle, db
      <4>2. betLock'[k] = betLock[k] \/ status[k] = "ACCEPTED"
        BY <1>1, <2>2, <3>2 DEF RequestStep, BeginSettle, LockRow, EndScan, PayWinner,
           DeadlockVictim, AbortSettle, EndRequest, locks, StillAccepted, TypeOK, LockType
      <4>3. QED
        BY <1>1, <4>1, <4>2 DEF LockInv, BetLockInv
    <3>3. QED
      BY <3>1, <3>2
  <2>3. CASE UNCHANGED vars
    BY <1>1, <2>3 DEF vars, db, locks, LockInv, BetLockInv
  <2>4. QED
    BY <2>1, <2>2, <2>3 DEF Next
<1>2. QED
  BY <1>1 DEF BetLockInv


\* The step leaves what request r has gathered, and the rows it holds, alone.
ForeignToRequest(r) ==
    /\ todo'[r] = todo[r] /\ won'[r] = won[r] /\ credit'[r] = credit[r] /\ rows'[r] = rows[r]
    /\ \A k \in Keys : betLock[k] = r => betLock'[k] = r
    /\ \A u \in Users : walletLock[u] = r => walletLock'[u] = r
    /\ accounts \subseteq accounts'

LEMMA OtherRequests ==
    ASSUME TypeOK, NEW r \in Requests, NEW s \in Requests, s # r, RequestStep(s)
    PROVE  ForeignToRequest(r)
<1> USE ActorsAssumption DEF ForeignToRequest
<1>0. LockType /\ RequestType
  BY DEF TypeOK
<1>1. CASE BeginSettle(s)
  BY <1>1 DEF BeginSettle, db, locks
<1>2. ASSUME NEW k \in Keys, LockRow(s, k) PROVE ForeignToRequest(r)
  <2>1. betLock[k] = r => betLock'[k] = r
    BY <1>0, <1>2 DEF LockRow, Unlocked
  <2>2. \A j \in Keys : betLock[j] = r => betLock'[j] = r
    BY <1>0, <1>2, <2>1 DEF LockRow, LockType
  <2>3. todo'[r] = todo[r]
    BY <1>0, <1>2 DEF LockRow, RequestType
  <2>4. QED
    BY <1>2, <2>2, <2>3 DEF LockRow, db
<1>3. CASE EndScan(s)
  BY <1>0, <1>3 DEF EndScan, db, locks, RequestType
<1>4. ASSUME NEW k \in Keys, PayWinner(s, k) PROVE ForeignToRequest(r)
  <2>1. \A u \in Users : walletLock[u] = r => walletLock'[u] = r
    BY <1>0, <1>4 DEF PayWinner, LockType
  <2>2. /\ todo'[r] = todo[r] /\ won'[r] = won[r]
        /\ credit'[r] = credit[r] /\ rows'[r] = rows[r]
    BY <1>0, <1>4 DEF PayWinner, RequestType
  <2>3. QED
    BY <1>4, <2>1, <2>2 DEF PayWinner, db
<1>5. ASSUME NEW label, EndRequest(s, label), accounts' = accounts PROVE ForeignToRequest(r)
  BY <1>0, <1>5 DEF EndRequest, ClearRequest, Release, LockType, RequestType
<1>6. QED
  BY <1>1, <1>2, <1>3, <1>4, <1>5
     DEF RequestStep, CommitSettle, DeadlockVictim, AbortSettle, db

LEMMA RequestsAndWorkers ==
    ASSUME TypeOK, NEW r \in Requests, NEW w \in Workers, WorkerStep(w)
    PROVE  ForeignToRequest(r)
<1> USE ActorsAssumption DEF ForeignToRequest
<1>0. LockType
  BY DEF TypeOK
<1>1. UNCHANGED <<todo, won, credit, rows, betLock>>
  BY DEF WorkerStep, Start, Assign, Fetch, Ack, Check, EnsureAccount, Debit, Write,
         DatabaseError, Crash, request, locks
<1>2. \A u \in Users : walletLock[u] = r => walletLock'[u] = r
  <2>1. ASSUME Release(w) PROVE \A u \in Users : walletLock[u] = r => walletLock'[u] = r
    BY <1>0, <2>1 DEF Release, LockType
  <2>2. CASE EnsureAccount(w)
    BY <1>0, <2>2 DEF EnsureAccount, LockType
  <2>3. CASE Debit(w)
    BY <1>0, <2>1, <2>3 DEF Debit, Fail, LockType
  <2>4. CASE ~EnsureAccount(w) /\ ~Debit(w)
    BY <2>1, <2>4 DEF WorkerStep, Start, Assign, Fetch, Ack, Check, Write,
       DatabaseError, Crash, Fail, Die, locks
  <2>5. QED
    BY <2>2, <2>3, <2>4
<1>3. accounts \subseteq accounts'
  BY DEF WorkerStep, Start, Assign, Fetch, Ack, Check, EnsureAccount, Debit, Write, Insert,
         DatabaseError, Crash, db
<1>4. QED
  BY <1>1, <1>2, <1>3

LEMMA ForeignToRequestKeeps ==
    ASSUME TypeOK, RequestInv, NEW r \in Requests, ForeignToRequest(r)
    PROVE  RequestOK(r)'
  BY DEF RequestInv, RequestOK, ForeignToRequest, TypeOK, RequestType

\* A request's own step.
LEMMA OwnRequestStep ==
    ASSUME TypeOK, LockInv, RowInv, RequestInv, NEW r \in Requests, RequestStep(r)
    PROVE  RequestOK(r)'
<1> USE ActorsAssumption
<1>0. LockType /\ RequestType /\ DbType /\ KafkaType /\ RequestOK(r)
  BY DEF TypeOK, RequestInv
<1>1. CASE BeginSettle(r)
  BY <1>0, <1>1 DEF BeginSettle, db, locks, RequestOK
<1>2. ASSUME NEW k \in Keys, LockRow(r, k) PROVE RequestOK(r)'
  <2>1. CASE Unlocked(r, k) /\ StillAccepted(r, k)
    <3>1. betLock'[k] = r /\ (\A j \in Keys \ {k} : betLock'[j] = betLock[j])
      BY <1>0, <1>2, <2>1 DEF LockRow, LockType
    <3>2. k \notin won[r]
      BY <1>0, <2>1 DEF RequestOK, Unlocked
    <3>3. todo'[r] = todo[r] \cup {k} /\ UNCHANGED <<won, credit, rows, walletLock, accounts>>
      BY <1>0, <1>2, <2>1 DEF LockRow, RequestType, db
    <3>4. QED
      BY <1>0, <3>1, <3>2, <3>3 DEF RequestOK, RequestType
  <2>2. CASE ~(Unlocked(r, k) /\ StillAccepted(r, k))
    BY <1>0, <1>2, <2>2 DEF LockRow, db, RequestOK
  <2>3. QED
    BY <2>1, <2>2
<1>3. CASE EndScan(r)
  <2>1. todo'[r] \subseteq todo[r]
    BY <1>0, <1>3 DEF EndScan, RequestType
  <2>2. QED
    BY <1>0, <1>3, <2>1 DEF EndScan, db, locks, RequestOK
<1>4. ASSUME NEW k \in Keys, PayWinner(r, k) PROVE RequestOK(r)'
  <2>1. status[k] # "NONE"
    BY <1>0, <1>4 DEF PayWinner, RequestOK, LockInv, BetLockInv
  <2>2. Payout(k) \in Nat /\ UserOf(k) \in Users /\ UserOf(k) \in accounts
    BY <1>0, <2>1, RowIsResult DEF RowInv
  <2>3. /\ todo'[r] = todo[r] \ {k} /\ won'[r] = won[r] \cup {k}
        /\ UNCHANGED <<betLock, accounts>>
    BY <1>0, <1>4 DEF PayWinner, RequestType, db
  <2>4. walletLock'[UserOf(k)] = r /\ (\A u \in Users : walletLock[u] = r => walletLock'[u] = r)
    BY <1>0, <1>4, <2>2 DEF PayWinner, LockType
  <2>5. \A u \in Users : credit'[r][u] = (IF u = UserOf(k) THEN credit[r][u] + Payout(k)
                                                           ELSE credit[r][u])
    BY <1>0, <1>4, <2>2 DEF PayWinner, RequestType
  <2>6. \A u \in Users : rows'[r][u] = (IF u = UserOf(k) THEN rows[r][u] + Payout(k)
                                                         ELSE rows[r][u])
    BY <1>0, <1>4, <2>2 DEF PayWinner, RequestType
  <2>7. k \in todo[r]
    BY <1>4 DEF PayWinner
  <2>8. \A u \in Users : /\ credit'[r][u] = rows'[r][u]
                         /\ credit'[r][u] # 0 => walletLock'[u] = r /\ u \in accounts'
    BY <1>0, <2>2, <2>3, <2>4, <2>5, <2>6 DEF RequestOK
  <2>9. QED
    BY <1>0, <2>3, <2>7, <2>8 DEF RequestOK
<1>5. ASSUME NEW label, EndRequest(r, label) PROVE RequestOK(r)'
  BY <1>0, <1>5 DEF EndRequest, ClearRequest, RequestOK, RequestType
<1>6. QED
  BY <1>1, <1>2, <1>3, <1>4, <1>5 DEF RequestStep, CommitSettle, DeadlockVictim, AbortSettle

LEMMA RequestsStep ==
    ASSUME TypeOK, LockInv, RowInv, RequestInv, [Next]_vars
    PROVE  RequestInv'
<1>1. ASSUME NEW r \in Requests PROVE RequestOK(r)'
  <2>1. ASSUME NEW w \in Workers, WorkerStep(w) PROVE RequestOK(r)'
    BY <2>1, RequestsAndWorkers, ForeignToRequestKeeps
  <2>2. ASSUME NEW s \in Requests, RequestStep(s) PROVE RequestOK(r)'
    BY <2>2, OwnRequestStep, OtherRequests, ForeignToRequestKeeps
  <2>3. CASE UNCHANGED vars
    <3>1. ForeignToRequest(r)
      BY <2>3 DEF ForeignToRequest, vars, request, locks, db
    <3>2. QED
      BY <3>1, ForeignToRequestKeeps
  <2>4. QED
    BY <2>1, <2>2, <2>3 DEF Next
<1>2. QED
  BY <1>1 DEF RequestInv


--------------------------------------------------------------------------------
(* The books.                                                              *)

\* The steps that change committed rows.
LEMMA BookSteps ==
    ASSUME [Next]_vars
    PROVE  \/ UNCHANGED db
           \/ \E w \in Workers : wpc[w] = "write" /\ KeyFree(Event(w).key) /\ Insert(w)
           \/ \E r \in Requests : CommitSettle(r)
<1>1. ASSUME NEW w \in Workers, WorkerStep(w)
      PROVE  UNCHANGED db \/ (wpc[w] = "write" /\ KeyFree(Event(w).key) /\ Insert(w))
  BY <1>1 DEF WorkerStep, Start, Assign, Fetch, Ack, Check, EnsureAccount, Debit, Write,
              DatabaseError, Crash
<1>2. ASSUME NEW r \in Requests, RequestStep(r) PROVE UNCHANGED db \/ CommitSettle(r)
  BY <1>2 DEF RequestStep, BeginSettle, LockRow, EndScan, PayWinner, DeadlockVictim, AbortSettle
<1>3. QED
  BY <1>1, <1>2 DEF Next, vars

BookInv == RowInv /\ WalletIsLedger /\ NoOverdraft /\ OneMovementPerBet

\* Recording an event keeps the books.
LEMMA InsertKeepsBooks ==
    ASSUME TypeOK, WorkerInv, BookInv, topic' = topic,
           NEW w \in Workers, wpc[w] = "write", KeyFree(Event(w).key), Insert(w)
    PROVE  BookInv'
<1> DEFINE m == Event(w)
           stake == IF m.accepted THEN m.stake ELSE 0
<1>0. DbType /\ KafkaType /\ RowInv /\ WorkerOK(w)
  BY DEF TypeOK, BookInv, WorkerInv
<1>1. /\ m \in Result /\ cur[w] \in 1..Len(topic)
      /\ accounts' = accounts \cup {m.user}
      /\ \A u \in Users : u # m.user => balance'[u] = balance[u] /\ ledger'[u] = ledger[u]
      /\ balance'[m.user] = Available(m.user) - stake
      /\ ledger'[m.user] = ledger[m.user] - stake
  BY InsertRows DEF BookInv
<1>2. /\ m.user \in Users /\ m.key \in Keys /\ m.stake \in Nat /\ m.accepted \in BOOLEAN
      /\ stake \in Nat
  BY <1>1 DEF Result
<1>3. /\ status' = [status EXCEPT ![m.key] = IF m.accepted THEN "ACCEPTED" ELSE "REJECTED"]
      /\ origin' = [origin EXCEPT ![m.key] = cur[w]]
      /\ stakeRows' = [stakeRows EXCEPT ![m.key] = @ + (IF m.accepted THEN 1 ELSE 0)]
      /\ payoutRows' = payoutRows
      /\ status[m.key] = "NONE"
  BY DEF Insert, KeyFree
<1>4. Available(m.user) \in Int /\ Available(m.user) >= stake
  <2>1. Available(m.user) \in Int
    BY <1>0, <1>2, SeedAssumption DEF Available, DbType
  <2>2. Available(m.user) >= 0
    BY <1>0, <1>2, SeedAssumption DEF Available, BookInv, NoOverdraft
  <2>3. m.accepted => Available(m.user) >= m.stake
    BY <1>0 DEF WorkerOK
  <2>4. QED
    BY <2>1, <2>2, <2>3
<1>5. RowInv'
  <2>1. ASSUME NEW k \in Keys, status'[k] # "NONE"
        PROVE  origin'[k] >= 1 /\ UserOf(k)' \in accounts'
    <3>1. CASE k = m.key
      <4>1. origin'[k] = cur[w]
        BY <1>0, <1>2, <1>3, <3>1 DEF DbType
      <4>2. UserOf(k)' = m.user
        BY <4>1 DEF UserOf, RowOf, Event
      <4>3. QED
        BY <1>1, <4>1, <4>2
    <3>2. CASE k # m.key
      <4>1. origin'[k] = origin[k] /\ status[k] # "NONE"
        BY <1>0, <1>2, <1>3, <2>1, <3>2 DEF DbType
      <4>2. UserOf(k)' = UserOf(k)
        BY <4>1 DEF UserOf, RowOf
      <4>3. QED
        BY <1>0, <1>1, <4>1, <4>2 DEF RowInv
    <3>3. QED
      BY <3>1, <3>2
  <2>2. \A u \in Users \ accounts' : balance'[u] = 0 /\ ledger'[u] = 0
    BY <1>0, <1>1 DEF RowInv
  <2>3. QED
    BY <2>1, <2>2 DEF RowInv
<1>6. WalletIsLedger'
  <2>1. ASSUME NEW u \in Users
        PROVE  balance'[u] = ledger'[u] + (IF u \in accounts' THEN WalletSeed ELSE 0)
    <3>1. balance[u] = ledger[u] + (IF u \in accounts THEN WalletSeed ELSE 0)
      BY DEF BookInv, WalletIsLedger
    <3>2. CASE u = m.user
      <4>1. u \notin accounts => ledger[u] = 0
        BY <1>0 DEF RowInv
      <4>2. Available(u) = ledger[u] + WalletSeed
        BY <3>1, <4>1, SeedAssumption DEF Available
      <4>3. /\ balance'[u] = Available(u) - stake
            /\ ledger'[u] = ledger[u] - stake
            /\ u \in accounts'
        BY <1>1, <1>2, <3>2
      <4>4. ledger[u] \in Int /\ stake \in Int /\ WalletSeed \in Int
        BY <1>0, <1>2, SeedAssumption DEF DbType
      <4> HIDE DEF stake
      <4>5. QED
        BY <4>2, <4>3, <4>4
    <3>3. CASE u # m.user
      BY <1>1, <3>1, <3>3
    <3>4. QED
      BY <3>2, <3>3
  <2>2. QED
    BY <2>1 DEF WalletIsLedger
<1>7. NoOverdraft'
  <2>1. \A u \in Users : u # m.user => balance'[u] >= 0
    BY <1>1 DEF BookInv, NoOverdraft
  <2>2. balance'[m.user] >= 0
    BY <1>1, <1>2, <1>4
  <2>3. QED
    BY <2>1, <2>2 DEF NoOverdraft
<1>8. OneMovementPerBet'
  <2>1. ASSUME NEW k \in Keys
        PROVE  /\ stakeRows'[k] = (IF status'[k] \in {"ACCEPTED", "WON", "LOST"} THEN 1 ELSE 0)
               /\ payoutRows'[k] = (IF status'[k] = "WON" THEN 1 ELSE 0)
    <3>1. /\ stakeRows[k] = (IF status[k] \in {"ACCEPTED", "WON", "LOST"} THEN 1 ELSE 0)
          /\ payoutRows[k] = (IF status[k] = "WON" THEN 1 ELSE 0)
      BY DEF BookInv, OneMovementPerBet
    <3>2. QED
      BY <1>0, <1>2, <1>3, <3>1 DEF DbType
  <2>2. QED
    BY <2>1 DEF OneMovementPerBet
<1>9. QED
  BY <1>5, <1>6, <1>7, <1>8 DEF BookInv

\* Settling a match keeps the books.
LEMMA SettleKeepsBooks ==
    ASSUME TypeOK, LockInv, RequestInv, BookInv, topic' = topic,
           NEW r \in Requests, CommitSettle(r)
    PROVE  BookInv'
<1>0. DbType /\ RequestType /\ RequestOK(r)
  BY DEF TypeOK, RequestInv
<1>1. /\ \A k \in Keys : status'[k] = IF betLock[k] # r THEN status[k]
                                     ELSE IF k \in won[r] THEN "WON" ELSE "LOST"
      /\ \A u \in Users : balance'[u] = balance[u] + credit[r][u]
      /\ \A u \in Users : ledger'[u] = ledger[u] + rows[r][u]
      /\ \A k \in Keys : payoutRows'[k] = payoutRows[k] + (IF k \in won[r] THEN 1 ELSE 0)
      /\ UNCHANGED <<accounts, origin, stakeRows>>
  BY DEF CommitSettle, Outcome
<1>2. \A u \in Users : /\ credit[r][u] \in Nat /\ credit[r][u] = rows[r][u]
                       /\ balance[u] \in Int /\ ledger[u] \in Int
  BY <1>0 DEF DbType, RequestType, RequestOK
<1>3. \A k \in Keys : betLock[k] = r => status[k] = "ACCEPTED"
  BY ActorsAssumption DEF LockInv, BetLockInv
<1>4. RowInv'
  <2>1. \A k \in Keys : status'[k] # "NONE" => status[k] # "NONE"
    BY <1>1, <1>3
  <2>2. \A k \in Keys : UserOf(k)' = UserOf(k)
    BY <1>1 DEF UserOf, RowOf
  <2>3. \A u \in Users : u \notin accounts => credit[r][u] = 0
    BY <1>0 DEF RequestOK
  <2>4. \A u \in Users \ accounts' : balance'[u] = 0 /\ ledger'[u] = 0
    BY <1>1, <1>2, <2>3 DEF BookInv, RowInv
  <2>5. QED
    BY <1>1, <2>1, <2>2, <2>4 DEF BookInv, RowInv
<1>5. WalletIsLedger'
  BY <1>1, <1>2, SeedAssumption DEF BookInv, WalletIsLedger
<1>6. NoOverdraft'
  BY <1>1, <1>2 DEF BookInv, NoOverdraft
<1>7. OneMovementPerBet'
  <2>1. ASSUME NEW k \in Keys
        PROVE  /\ stakeRows'[k] = (IF status'[k] \in {"ACCEPTED", "WON", "LOST"} THEN 1 ELSE 0)
               /\ payoutRows'[k] = (IF status'[k] = "WON" THEN 1 ELSE 0)
    <3>1. /\ stakeRows[k] = (IF status[k] \in {"ACCEPTED", "WON", "LOST"} THEN 1 ELSE 0)
          /\ payoutRows[k] = (IF status[k] = "WON" THEN 1 ELSE 0)
      BY DEF BookInv, OneMovementPerBet
    <3>2. k \in won[r] => betLock[k] = r
      BY <1>0 DEF RequestOK
    <3>3. QED
      BY <1>1, <1>3, <3>1, <3>2
  <2>2. QED
    BY <2>1 DEF OneMovementPerBet
<1>8. QED
  BY <1>4, <1>5, <1>6, <1>7 DEF BookInv

LEMMA BooksStep ==
    ASSUME TypeOK, WorkerInv, LockInv, RequestInv, BookInv, [Next]_vars
    PROVE  BookInv'
<1>0. topic' = topic
  BY TopicFixed
<1>1. CASE UNCHANGED db
  BY <1>0, <1>1 DEF BookInv, RowInv, WalletIsLedger, NoOverdraft, OneMovementPerBet,
                    UserOf, RowOf, db
<1>2. QED
  BY <1>0, <1>1, BookSteps, InsertKeepsBooks, SettleKeepsBooks

--------------------------------------------------------------------------------
(* The invariant.                                                          *)

LEMMA Initially == Init => IInv
<1> SUFFICES ASSUME Init PROVE IInv
  OBVIOUS
<1> USE ActorsAssumption, SeedAssumption DEF Init
<1>1. topic \in Seq(Result) /\ Len(topic) \in Nat
  BY TopicsAssumption
<1>2. DbType /\ LockType
  BY <1>1 DEF DbType, LockType, Statuses
<1>3. KafkaType /\ WorkerType
  BY <1>1 DEF KafkaType, WorkerType, WorkerStates
<1>4. RequestType /\ HistoryType
  BY DEF RequestType, HistoryType, RequestStates
<1>5. WorkerInv
  BY DEF WorkerInv, WorkerOK, Processing, InTx
<1>6. LockInv
  BY DEF LockInv, BetLockInv, HoldsOK
<1>7. RequestInv
  BY DEF RequestInv, RequestOK
<1>8. CoverInv /\ CommittedIsCovered
  BY DEF CoverInv, CoverOK, CommittedIsCovered, Processing, InTx, Offsets
<1>9. BookInv
  BY DEF BookInv, RowInv, WalletIsLedger, NoOverdraft, OneMovementPerBet
<1>10. QED
  BY <1>2, <1>3, <1>4, <1>5, <1>6, <1>7, <1>8, <1>9 DEF IInv, TypeOK, BookInv

LEMMA Inductive == IInv /\ [Next]_vars => IInv'
<1> SUFFICES ASSUME IInv, [Next]_vars PROVE IInv'
  OBVIOUS
<1> USE DEF IInv
<1>1. TypeOK'
  BY TopicFixed, TypeStepWorker, TypeStepRequest, TypeStutter DEF Next
<1>2. WorkerInv' /\ CoverInv' /\ (\A w \in Workers : HoldsOK(w))'
  BY WorkersStep
<1>3. LockInv'
  BY <1>2, BetLockStep DEF LockInv
<1>4. RequestInv'
  BY RequestsStep
<1>5. BookInv'
  BY BooksStep DEF BookInv
<1>6. CommittedIsCovered'
  BY CommittedStep
<1>7. QED
  BY <1>1, <1>2, <1>3, <1>4, <1>5, <1>6 DEF BookInv

LEMMA Invariance == Spec => []IInv
  BY Initially, Inductive, PTL DEF Spec

\* Every value stays in its type: fetching, advancing within a batch and
\* committing never leave the log (run_worker).
THEOREM TypeCorrect == Spec => []TypeOK
<1>1. IInv => TypeOK
  BY DEF IInv
<1>2. QED
  BY <1>1, Invariance, PTL

\* For any number of workers and requests, every wallet holds its opening
\* balance and what the ledger rows add up to.
THEOREM LedgerBalances == Spec => []WalletIsLedger
<1>1. IInv => WalletIsLedger
  BY DEF IInv
<1>2. QED
  BY <1>1, Invariance, PTL

\* No bet is debited twice or paid twice, whatever is redelivered and
\* however often a match is settled.
THEOREM OneMovement == Spec => []OneMovementPerBet
<1>1. IInv => OneMovementPerBet
  BY DEF IInv
<1>2. QED
  BY <1>1, Invariance, PTL

\* The guarded debit keeps every wallet at zero or above.
THEOREM Solvent == Spec => []NoOverdraft
<1>1. IInv => NoOverdraft
  BY DEF IInv
<1>2. QED
  BY <1>1, Invariance, PTL

\* The committed offset never runs past an event nobody has finished with.
THEOREM OffsetsAreSafe == Spec => []CommittedIsCovered
<1>1. IInv => CommittedIsCovered
  BY DEF IInv
<1>2. QED
  BY <1>1, Invariance, PTL

\* A settled or rejected bet is never touched again.
THEOREM Finality == Spec => RowsAreFinal
<1> DEFINE A == \A k \in Keys : RowFinal(k)
<1>1. IInv /\ [Next]_vars => [A]_vars
  BY RowsFinalStep DEF IInv, LockInv
<1>2. Spec => [][A]_vars
  BY <1>1, Invariance, PTL DEF Spec
<1>3. QED
  BY <1>2, PTL DEF RowsAreFinal, RowFinal

--------------------------------------------------------------------------------
(* Bets passed over.  A locked row belongs to a request that still runs, so *)
(* a bet passed over is settled, or its holder has yet to commit, or some   *)
(* request has aborted, and stays aborted.                                  *)

HolderRuns == \A k \in Keys : betLock[k] # Nobody =>
                  betLock[k] \in Requests /\ rpc[betLock[k]] \in {"scan", "pay"}
SomeAborted == \E r \in Requests : rpc[r] = "aborted"
PassedOver(k) == status[k] \in {"WON", "LOST"} \/ betLock[k] # Nobody \/ SomeAborted
PassedInv == HolderRuns /\ \A r \in Requests : \A k \in skipped[r] : PassedOver(k)

\* What the steps of the two actors do to it.
LEMMA WorkersPassNothing ==
    ASSUME IInv, PassedInv, [Next]_vars, NEW w \in Workers, WorkerStep(w)
    PROVE  PassedInv'
<1>1. UNCHANGED <<rpc, betLock, skipped>>
  BY DEF WorkerStep, Start, Assign, Fetch, Ack, Check, EnsureAccount, Debit, Write,
         DatabaseError, Crash, request, locks
<1>2. \A k \in Keys : status[k] \in {"WON", "LOST"} => status'[k] \in {"WON", "LOST"}
  BY RowsFinalStep DEF IInv, LockInv, RowFinal
<1>3. \A r \in Requests : skipped[r] \subseteq Keys
  BY DEF IInv, TypeOK, RequestType
<1> QED  BY <1>1, <1>2, <1>3 DEF PassedInv, HolderRuns, PassedOver, SomeAborted

LEMMA RequestsPassOver ==
    ASSUME IInv, PassedInv, [Next]_vars, NEW r \in Requests, RequestStep(r)
    PROVE  PassedInv'
<1> USE ActorsAssumption
<1>0. LockType /\ RequestType /\ BetLockInv
  BY DEF IInv, TypeOK, LockInv
<1>1. \A k \in Keys : status[k] \in {"WON", "LOST"} => status'[k] \in {"WON", "LOST"}
  BY RowsFinalStep DEF IInv, LockInv, RowFinal
<1>2. \A s \in Requests : skipped[s] \subseteq Keys
  BY <1>0 DEF RequestType
<1>3. ASSUME NEW label, rpc[r] \in {"new", "scan", "pay"}, label # "new",
             rpc' = [rpc EXCEPT ![r] = label], UNCHANGED <<betLock, skipped>>,
             label \in {"scan", "pay"}
      PROVE  PassedInv'
  <2>1. HolderRuns'
    BY <1>0, <1>3 DEF PassedInv, HolderRuns, RequestType
  <2>2. SomeAborted => SomeAborted'
    BY <1>0, <1>3 DEF SomeAborted, RequestType
  <2> QED  BY <1>1, <1>2, <1>3, <2>1, <2>2 DEF PassedInv, PassedOver
<1>4. ASSUME NEW k \in Keys, LockRow(r, k) PROVE PassedInv'
  <2>1. rpc' = rpc /\ rpc[r] = "scan" /\ status' = status
    BY <1>4 DEF LockRow, db
  <2>2. \A j \in Keys : betLock[j] # Nobody => betLock'[j] = betLock[j]
    BY <1>0, <1>4 DEF LockRow, Unlocked, LockType
  <2>3. \A j \in Keys : betLock'[j] = betLock[j] \/ betLock'[j] = r
    BY <1>0, <1>4 DEF LockRow, LockType
  <2>4. \A s \in Requests : \A j \in skipped'[s] : j \in skipped[s] \/ (j = k /\ betLock[k] # Nobody)
    <3>1. CASE betLock[k] = Nobody
      <4>1. skipped' = skipped
        BY <1>0, <1>4, <3>1 DEF LockRow, Unlocked, RequestType
      <4> QED  BY <4>1
    <3>2. CASE betLock[k] # Nobody
      <4>1. skipped' = [skipped EXCEPT ![r] = @ \cup {k}]
        BY <1>4, <3>2 DEF LockRow, Unlocked
      <4> QED  BY <1>0, <3>2, <4>1 DEF RequestType
    <3> QED  BY <3>1, <3>2
  <2>5. HolderRuns'
    BY <2>1, <2>3 DEF PassedInv, HolderRuns
  <2>6. \A s \in Requests : \A j \in skipped'[s] : PassedOver(j)'
    BY <1>2, <1>4, <2>1, <2>2, <2>4 DEF PassedInv, PassedOver, SomeAborted
  <2> QED  BY <2>5, <2>6 DEF PassedInv
<1>5. ASSUME NEW k \in Keys, PayWinner(r, k) PROVE PassedInv'
  <2>1. UNCHANGED <<rpc, betLock, skipped>>
    BY <1>5 DEF PayWinner
  <2> QED  BY <1>1, <1>2, <2>1 DEF PassedInv, HolderRuns, PassedOver, SomeAborted
<1>6. ASSUME NEW label, label \in {"done", "aborted"}, EndRequest(r, label), rpc[r] # "aborted",
             skipped' = skipped,
             label = "done" =>
                \A k \in Keys : betLock[k] = r => status'[k] \in {"WON", "LOST"}
      PROVE  PassedInv'
  <2>1. \A k \in Keys : betLock'[k] = IF betLock[k] = r THEN Nobody ELSE betLock[k]
    BY <1>0, <1>6 DEF EndRequest, LockType
  <2>2. rpc' = [rpc EXCEPT ![r] = label]
    BY <1>6 DEF EndRequest, ClearRequest
  <2>3. HolderRuns'
    BY <1>0, <2>1, <2>2 DEF PassedInv, HolderRuns, RequestType
  <2>4. /\ SomeAborted => SomeAborted'
        /\ label = "aborted" => SomeAborted'
    BY <1>0, <1>6, <2>2 DEF SomeAborted, RequestType
  <2>5. ASSUME NEW k \in Keys, PassedOver(k) PROVE PassedOver(k)'
    BY <1>1, <1>6, <2>1, <2>4, <2>5 DEF PassedOver
  <2> QED  BY <1>2, <1>6, <2>3, <2>5 DEF PassedInv
<1>7. CASE BeginSettle(r)
  BY <1>3, <1>7 DEF BeginSettle, locks
<1>8. CASE EndScan(r)
  BY <1>3, <1>8 DEF EndScan, locks
<1>9. CASE CommitSettle(r)
  <2>1. \A k \in Keys : betLock[k] = r => status'[k] \in {"WON", "LOST"}
    BY <1>9 DEF CommitSettle, Outcome
  <2> QED  BY <1>6, <1>9, <2>1 DEF CommitSettle
<1>10. CASE DeadlockVictim(r)
  <2>1. rpc[r] = "pay"
    BY <1>10 DEF DeadlockVictim, WaitsFor
  <2> QED  BY <1>6, <1>10, <2>1 DEF DeadlockVictim
<1>11. CASE AbortSettle(r)
  BY <1>6, <1>11 DEF AbortSettle
<1> QED  BY <1>4, <1>5, <1>7, <1>8, <1>9, <1>10, <1>11 DEF RequestStep

\* When every request has committed or was never made, no bet that one of them
\* passed over is still ACCEPTED (settlement.py:43-48, the SELECT FOR UPDATE
\* SKIP LOCKED).
THEOREM NothingLeftBehind == Spec => []PassedOverNeedsAbort
<1>1. Init => IInv /\ PassedInv
  BY Initially, ActorsAssumption DEF Init, PassedInv, HolderRuns
<1>2. IInv /\ PassedInv /\ [Next]_vars => (IInv /\ PassedInv)'
  <2> SUFFICES ASSUME IInv, PassedInv, [Next]_vars PROVE PassedInv'
    BY Inductive
  <2>1. CASE UNCHANGED vars
    BY <2>1 DEF vars, db, locks, request, PassedInv, HolderRuns, PassedOver, SomeAborted
  <2> QED  BY <2>1, WorkersPassNothing, RequestsPassOver DEF Next
<1>3. IInv /\ PassedInv => PassedOverNeedsAbort
  <2> SUFFICES ASSUME IInv, PassedInv, \A r \in Requests : rpc[r] \in {"new", "done"},
                      NEW r \in Requests, NEW k \in skipped[r]
               PROVE  status[k] \in {"WON", "LOST"}
    BY DEF PassedOverNeedsAbort
  <2>1. k \in Keys
    BY DEF IInv, TypeOK, RequestType
  <2>2. ~SomeAborted /\ betLock[k] = Nobody
    BY <2>1 DEF PassedInv, HolderRuns, SomeAborted
  <2> QED  BY <2>2 DEF PassedInv, PassedOver
<1> QED  BY <1>1, <1>2, <1>3, PTL DEF Spec
================================================================================
