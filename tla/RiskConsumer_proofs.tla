-------------------------- MODULE RiskConsumer_proofs --------------------------
(***************************************************************************)
(* The safety properties of RiskConsumer, for every number of bets, faults *)
(* and rebalances.  CommittedIsAnswered is not inductive: that commitSync  *)
(* covers the bets before the one in hand rests on what became of every    *)
(* bet the process has passed, which is the last conjunct of Inv.          *)
(***************************************************************************)
EXTENDS RiskConsumer, TLAPS

\* Nothing more needs to happen to o: it has a result, or was given up.
Ended(o) == HasResult(o) \/ o \in gaveUp
\* o is not forgotten: it has ended, is queued, or its result is about to be.
Kept(o) == Ended(o) \/ Queued(o) \/ (stage = "produce" /\ msg = o)
\* The running process has gone past o.
Passed(o) == up /\ (o < pos \/ (stage # "poll" /\ o <= msg))

Inv ==
    /\ TypeOK
    /\ stage # "poll" => up /\ msg \in Bets
    /\ stage = "commit" => queue = <<>>
    /\ \A i \in DOMAIN queue : queue[i].bet \in Bets
    /\ \A o \in Bets : o < committed => Ended(o) /\ o \in seen
    /\ \A o \in debited : Kept(o)
    /\ \A o \in Bets : Passed(o) => Kept(o) /\ o \in seen

--------------------------------------------------------------------------------
(* The producer queue.                                                      *)

\* What is queued stays queued when a result is appended.
LEMMA InAppend ==
    ASSUME NEW q \in Seq(Result), NEW r \in Result, NEW o,
           \E i \in DOMAIN q : q[i].bet = o
    PROVE  \E i \in DOMAIN Append(q, r) : Append(q, r)[i].bet = o
<1>1. PICK i \in DOMAIN q : q[i].bet = o
  OBVIOUS
<1>2. i \in DOMAIN Append(q, r) /\ Append(q, r)[i] = q[i]
  OBVIOUS
<1> QED  BY <1>1, <1>2

\* An appended result is queued.
LEMMA Appended ==
    ASSUME NEW q \in Seq(Result), NEW r \in Result
    PROVE  \E i \in DOMAIN Append(q, r) : Append(q, r)[i] = r
<1>1. /\ Len(q) + 1 \in DOMAIN Append(q, r)
      /\ Append(q, r)[Len(q) + 1] = r
  OBVIOUS
<1> QED  BY <1>1

\* What is queued is the head or stays in the tail.
LEMMA HeadOrTail ==
    ASSUME NEW q \in Seq(Result), q # <<>>, NEW o,
           \E i \in DOMAIN q : q[i].bet = o
    PROVE  Head(q).bet = o \/ \E i \in DOMAIN Tail(q) : Tail(q)[i].bet = o
<1>1. PICK i \in DOMAIN q : q[i].bet = o
  OBVIOUS
<1>2. CASE i = 1
  BY <1>1, <1>2
<1>3. CASE i # 1
  <2>1. i - 1 \in DOMAIN Tail(q) /\ Tail(q)[i - 1] = q[i]
    BY <1>3
  <2> QED  BY <1>1, <2>1
<1> QED  BY <1>2, <1>3

--------------------------------------------------------------------------------
(* Bets are not forgotten.                                                  *)

\* An ended bet stays so whatever happens.
LEMMA EndedStays ==
    ASSUME TypeOK, [Next]_vars, NEW o, Ended(o)
    PROVE  Ended(o)'
<1>1. answered \subseteq answered' /\ gaveUp \subseteq gaveUp'
  BY DEF Next, Submit, Start, Consume, Produce, Flush, Commit, Deliver, Expire,
         Rebalance, Crash, vars, process, history
<1> QED  BY <1>1 DEF Ended, HasResult

\* A bet that is kept stays kept as long as the process does.
LEMMA KeptStays ==
    ASSUME TypeOK, stage # "poll" => msg \in Bets,
           [Next]_vars, ~Crash, NEW o, Kept(o)
    PROVE  Kept(o)'
<1> USE DEF TypeOK
<1>1. CASE Ended(o)
  BY <1>1, EndedStays DEF Kept
<1>2. CASE Queued(o)
  <2>1. CASE Produce
    <3>1. CASE UNCHANGED queue
      BY <1>2, <3>1 DEF Kept, Queued
    <3>2. CASE queue' = Append(queue, [bet |-> msg, accepted |-> accepted])
      <4>1. [bet |-> msg, accepted |-> accepted] \in Result
        BY <2>1, BoundsAssumption DEF Produce, Result, Bets
      <4> QED  BY <1>2, <3>2, <4>1, InAppend DEF Kept, Queued
    <3> QED  BY <2>1, <3>1, <3>2 DEF Produce
  <2>2. CASE Flush
    BY <1>2, <2>2 DEF Flush, KeepQueue, Kept, Queued
  <2>3. CASE Deliver
    <3>1. Head(queue).bet = o \/ Queued(o)'
      BY <1>2, <2>3, HeadOrTail DEF Deliver, Queued
    <3>2. CASE Head(queue).bet = o
      BY <2>3, <3>2 DEF Deliver, Kept, Ended, HasResult
    <3> QED  BY <3>1, <3>2 DEF Kept
  <2>4. CASE Expire
    <3>1. Head(queue).bet = o \/ Queued(o)'
      BY <1>2, <2>4, HeadOrTail DEF Expire, Queued
    <3>2. CASE Head(queue).bet = o
      BY <2>4, <3>2 DEF Expire, Kept, Ended
    <3> QED  BY <3>1, <3>2 DEF Kept
  <2>5. CASE Submit \/ Start \/ Consume \/ Commit \/ Rebalance \/ UNCHANGED vars
    BY <1>2, <2>5 DEF Submit, Start, Consume, Commit, Rebalance, vars, Kept, Queued
  <2> QED  BY <2>1, <2>2, <2>3, <2>4, <2>5 DEF Next
<1>3. CASE stage = "produce" /\ msg = o
  <2>1. CASE Produce
    <3>1. CASE queue' = Append(queue, [bet |-> msg, accepted |-> accepted])
      <4>1. [bet |-> msg, accepted |-> accepted] \in Result
        BY <2>1, BoundsAssumption DEF Produce, Result, Bets
      <4>2. PICK i \in DOMAIN queue' : queue'[i] = [bet |-> msg, accepted |-> accepted]
        BY <3>1, <4>1, Appended
      <4> QED  BY <1>3, <4>2 DEF Kept, Queued
    <3>2. CASE gaveUp' = gaveUp \cup {msg}
      BY <1>3, <3>2 DEF Kept, Ended
    <3> QED  BY <2>1, <3>1, <3>2 DEF Produce
  <2>2. CASE Submit \/ Start \/ Deliver \/ Expire \/ Rebalance \/ UNCHANGED vars
    BY <1>3, <2>2 DEF Submit, Start, Deliver, Expire, Rebalance, vars, process, Kept
  <2>3. CASE Consume \/ Flush \/ Commit
    BY <1>3, <2>3 DEF Consume, Flush, Commit
  <2> QED  BY <2>1, <2>2, <2>3 DEF Next
<1> QED  BY <1>1, <1>2, <1>3 DEF Kept

--------------------------------------------------------------------------------
(* The invariant.                                                           *)

LEMMA InitInv == Init => Inv
<1> SUFFICES ASSUME Init PROVE Inv
  OBVIOUS
<1>1. Bets = {} /\ <<>> \in Seq(Result)
  BY DEF Init, Bets
<1>2. TypeOK
  <2>1. queue \in Seq(Result)
    BY <1>1 DEF Init
  <2>2. up \in BOOLEAN /\ accepted \in BOOLEAN
    BY Zenon DEF Init
  <2>3. sent = 0 /\ sent \in 0..MaxBets /\ faults \in 0..MaxFaults /\ moves \in 0..MaxMoves
    BY BoundsAssumption DEF Init
  <2>4. committed \in 1..(sent + 1) /\ pos \in 1..(sent + 1) /\ msg \in 0..sent
    BY DEF Init
  <2> QED  BY <2>1, <2>2, <2>3, <2>4 DEF Init, TypeOK, Stages
<1> QED  BY <1>1, <1>2 DEF Init, Inv

\* Types are preserved by every step.
LEMMA TypeStays == Inv /\ [Next]_vars => TypeOK'
<1> SUFFICES ASSUME Inv, [Next]_vars PROVE TypeOK'
  OBVIOUS
<1> USE BoundsAssumption DEF Inv, TypeOK, Bets, Stages, Fault
<1>1. CASE Submit
  BY <1>1 DEF Submit, process, history
<1>2. CASE Start
  BY <1>2 DEF Start, StartOffset, history
<1>3. CASE Consume
  BY <1>3 DEF Consume
<1>4. CASE Produce
  <2>1. [bet |-> msg, accepted |-> accepted] \in Result
    BY <1>4 DEF Produce, Result
  <2>2. queue' \in Seq(Result)
    BY <1>4, <2>1 DEF Produce
  <2>3. gaveUp' \subseteq Bets /\ produced' \subseteq Bets
    BY <1>4 DEF Produce
  <2>4. stage' \in Stages /\ faults' \in 0..MaxFaults
    BY <1>4 DEF Produce
  <2> QED  BY <1>4, <2>2, <2>3, <2>4 DEF Produce
<1>5. CASE Flush
  BY <1>5 DEF Flush, Flushed, KeepQueue, history
<1>6. CASE Commit
  BY <1>6 DEF Commit, CommitOffset, history
<1>7. CASE Deliver
  <2>1. Head(queue) \in Result /\ Tail(queue) \in Seq(Result)
    BY <1>7 DEF Deliver
  <2> QED  BY <1>7, <2>1 DEF Deliver, process, history
<1>8. CASE Expire
  <2>1. Head(queue) = queue[1] /\ 1 \in DOMAIN queue /\ Tail(queue) \in Seq(Result)
    BY <1>8 DEF Expire
  <2>2. gaveUp' \subseteq Bets' /\ queue' \in Seq(Result)
    BY <1>8, <2>1 DEF Expire
  <2>3. faults' \in 0..MaxFaults
    BY <1>8 DEF Expire
  <2> QED  BY <1>8, <2>2, <2>3 DEF Expire, process
<1>9. CASE Rebalance
  BY <1>9 DEF Rebalance, StartOffset, history
<1>10. CASE Crash
  <2>1. queue' \in Seq(Result)
    BY <1>10 DEF Crash
  <2>2. debited' \subseteq Bets' /\ msg' \in 0..sent'
    BY <1>10 DEF Crash
  <2>3. stage' \in Stages /\ faults' \in 0..MaxFaults
    BY <1>10 DEF Crash
  <2>4. up' \in BOOLEAN /\ accepted' \in BOOLEAN
    BY <1>10, Zenon DEF Crash
  <2> QED  BY <1>10, <2>1, <2>2, <2>3, <2>4 DEF Crash, history
<1>11. CASE UNCHANGED vars
  BY <1>11 DEF vars, process, history
<1> QED
  BY <1>1, <1>2, <1>3, <1>4, <1>5, <1>6, <1>7, <1>8, <1>9, <1>10, <1>11 DEF Next

\* The message in hand is one that was sent, and only a running process has one.
LEMMA HandStays ==
    Inv /\ [Next]_vars =>
        ((stage # "poll" => up /\ msg \in Bets) /\ (stage = "commit" => queue = <<>>))'
<1> SUFFICES ASSUME Inv, [Next]_vars
             PROVE  /\ stage' # "poll" => up' /\ msg' \in Bets'
                    /\ stage' = "commit" => queue' = <<>>
  OBVIOUS
<1> USE DEF Inv, TypeOK, Bets
<1>1. CASE Submit \/ Start \/ Rebalance \/ UNCHANGED vars
  BY <1>1 DEF Submit, Start, Rebalance, vars, process
<1>2. CASE Consume
  BY <1>2 DEF Consume
<1>3. CASE Produce
  BY <1>3 DEF Produce
<1>4. CASE Flush
  BY <1>4 DEF Flush, Flushed
<1>5. CASE Commit \/ Crash
  BY <1>5 DEF Commit, Crash
<1>6. CASE Deliver \/ Expire
  BY <1>6 DEF Deliver, Expire, process
<1> QED
  BY <1>1, <1>2, <1>3, <1>4, <1>5, <1>6 DEF Next

\* Only results of bets that were sent are queued.
LEMMA QueueStays ==
    Inv /\ [Next]_vars => (\A i \in DOMAIN queue : queue[i].bet \in Bets)'
<1> SUFFICES ASSUME Inv, [Next]_vars, NEW i \in DOMAIN queue'
             PROVE  queue'[i].bet \in Bets'
  OBVIOUS
<1> USE DEF Inv, TypeOK, Bets
<1>1. CASE UNCHANGED queue
  <2>1. sent' >= sent
    BY DEF Next, Submit, Start, Consume, Produce, Flush, Commit, Deliver, Expire,
           Rebalance, Crash, vars
  <2>2. sent' \in Int
    BY TypeStays, SMTT(30)
  <2> QED  BY <1>1, <2>1, <2>2
<1>2. CASE Produce /\ queue' = Append(queue, [bet |-> msg, accepted |-> accepted])
  <2>1. [bet |-> msg, accepted |-> accepted] \in Result
    BY <1>2, BoundsAssumption DEF Produce, Result
  <2>2. queue'[i] \in {queue[j] : j \in DOMAIN queue} \cup {[bet |-> msg, accepted |-> accepted]}
    BY <1>2, <2>1
  <2>3. msg \in Bets /\ Bets' = Bets
    BY <1>2 DEF Produce
  <2>4. CASE \E j \in DOMAIN queue : queue'[i] = queue[j]
    BY <2>3, <2>4
  <2>5. CASE queue'[i] = [bet |-> msg, accepted |-> accepted]
    <3>1. queue'[i].bet = msg
      BY <2>5
    <3> QED  BY <2>3, <3>1
  <2> QED  BY <2>2, <2>4, <2>5
<1>3. CASE (Deliver \/ Expire) /\ queue' = Tail(queue) /\ queue # <<>>
  <2>1. i + 1 \in DOMAIN queue /\ queue'[i] = queue[i + 1]
    BY <1>3
  <2>2. Bets' = Bets
    BY <1>3 DEF Deliver, Expire
  <2> QED  BY <2>1, <2>2
<1>4. CASE Crash
  BY <1>4 DEF Crash
<1> QED
  BY <1>1, <1>2, <1>3, <1>4
     DEF Next, Submit, Start, Consume, Produce, Flush, KeepQueue, Commit, Deliver, Expire,
         Rebalance, vars

\* Whatever is committed was evaluated and has ended.
LEMMA CommitStays ==
    Inv /\ [Next]_vars =>
        (\A o \in Bets : o < committed => Ended(o) /\ o \in seen)'
<1> SUFFICES ASSUME Inv, [Next]_vars, NEW o \in Bets', o < committed'
             PROVE  Ended(o)' /\ o \in seen'
  OBVIOUS
<1> USE DEF Inv, TypeOK, Bets
<1>1. seen \subseteq seen'
  BY DEF Next, Submit, Start, Consume, Produce, Flush, Commit, Deliver, Expire,
         Rebalance, Crash, vars, history
<1>2. CASE o \in Bets /\ o < committed
  BY <1>1, <1>2, EndedStays
<1>3. CASE Commit /\ committed' = msg + 1
  <2>1. o \in Bets /\ Passed(o) /\ stage = "commit"
    BY <1>3 DEF Commit, Passed
  <2>2. Ended(o) /\ o \in seen
    BY <2>1 DEF Kept, Queued
  <2> QED  BY <1>1, <2>2, EndedStays
<1>4. CASE UNCHANGED committed
  <2>1. o \in Int /\ o >= 1 /\ o <= sent
    <3>1. CASE Submit
      BY <1>4, <3>1 DEF Submit
    <3>2. CASE sent' = sent
      BY <3>2
    <3> QED  BY <3>1, <3>2 DEF Next, Start, Consume, Produce, Flush, Commit, Deliver,
                Expire, Rebalance, Crash, vars
  <2> QED  BY <1>2, <1>4, <2>1
<1> QED
  BY <1>2, <1>3, <1>4
     DEF Next, Submit, Start, Consume, Produce, Flush, Commit, CommitOffset, Deliver,
         Expire, Rebalance, Crash, vars

\* The debited bets are kept.
LEMMA DebitsStay == Inv /\ [Next]_vars => (\A o \in debited : Kept(o))'
<1> SUFFICES ASSUME Inv, [Next]_vars, NEW o \in debited' PROVE Kept(o)'
  OBVIOUS
<1>1. CASE Crash
  BY <1>1 DEF Crash
<1>2. CASE ~Crash /\ o \in debited
  BY <1>2, KeptStays DEF Inv
<1>3. CASE Consume /\ o = pos
  BY <1>3 DEF Consume, Kept
<1> QED
  BY <1>1, <1>2, <1>3
     DEF Next, Submit, Start, Consume, Produce, Flush, Commit, Deliver, Expire,
         Rebalance, vars, process

\* The running process has evaluated and kept every bet it has passed.
LEMMA PassedStays ==
    Inv /\ [Next]_vars => (\A o \in Bets : Passed(o) => Kept(o) /\ o \in seen)'
<1> SUFFICES ASSUME Inv, [Next]_vars, NEW o \in Bets', Passed(o)'
             PROVE  Kept(o)' /\ o \in seen'
  OBVIOUS
<1> USE DEF Inv, TypeOK, Bets
<1>1. seen \subseteq seen' /\ ~Crash
  BY DEF Next, Submit, Start, Consume, Produce, Flush, Commit, Deliver, Expire,
         Rebalance, Crash, vars, history, Passed
<1>2. CASE o \in Bets /\ Passed(o)
  BY <1>1, <1>2, KeptStays
<1>3. CASE o \in Bets /\ o < committed
  BY <1>1, <1>3, KeptStays DEF Kept
<1>4. CASE Consume /\ o = pos
  BY <1>4 DEF Consume, Kept
<1>5. o \in Bets
  <2>1. CASE Submit
    <3>1. o < sent' /\ o \in Int /\ o >= 1
      BY <2>1 DEF Submit, process, Passed
    <3> QED  BY <2>1, <3>1 DEF Submit
  <2>2. CASE sent' = sent
    BY <2>2
  <2> QED  BY <2>1, <2>2 DEF Next, Start, Consume, Produce, Flush, Commit, Deliver,
              Expire, Rebalance, Crash, vars
<1>6. Passed(o) \/ o < committed \/ (Consume /\ o = pos)
  <2>1. CASE Start \/ Rebalance
    BY <2>1 DEF Start, Rebalance, StartOffset, Passed
  <2>2. CASE Consume
    BY <2>2, <1>5 DEF Consume, Passed
  <2>3. CASE Submit \/ Deliver \/ Expire \/ UNCHANGED vars
    BY <2>3 DEF Submit, Deliver, Expire, vars, process, Passed
  <2>4. CASE Produce \/ Flush \/ Commit
    BY <2>4 DEF Produce, Flush, Commit, Passed
  <2> QED  BY <1>1, <2>1, <2>2, <2>3, <2>4 DEF Next
<1> QED  BY <1>2, <1>3, <1>4, <1>5, <1>6

\* The invariant holds in every reachable state.
THEOREM Invariance == Spec => []Inv
<1>1. Init => Inv
  BY InitInv
<1>2. Inv /\ [Next]_vars => Inv'
  BY TypeStays, HandStays, QueueStays, CommitStays, DebitsStay, PassedStays DEF Inv
<1> QED  BY <1>1, <1>2, PTL DEF Spec

--------------------------------------------------------------------------------
(* The properties.                                                          *)

\* No position, offset or queued result is about a message not yet sent.
THEOREM TypeCorrect == Spec => []TypeOK
<1>1. Inv => TypeOK
  BY DEF Inv
<1> QED  BY <1>1, Invariance, PTL

\* The group never skips a bet without a result, unless librdkafka gave the
\* result up (main.cpp:496-508).
THEOREM Answers == Spec => []CommittedIsAnswered
<1>1. Inv => CommittedIsAnswered
  BY DEF Inv, CommittedIsAnswered, Ended
<1> QED  BY <1>1, Invariance, PTL

\* Nor one that was never evaluated.
THEOREM Evaluations == Spec => []NothingUnseen
<1>1. Inv => NothingUnseen
  BY DEF Inv, NothingUnseen
<1> QED  BY <1>1, Invariance, PTL

\* A stake is debited only while its result is under way, or out, or given up.
THEOREM Reports == Spec => []DebitsAreReported
<1>1. Inv => DebitsAreReported
  BY DEF Inv, DebitsAreReported, Kept, Ended
<1> QED  BY <1>1, Invariance, PTL

================================================================================
