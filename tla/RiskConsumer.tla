----------------------------- MODULE RiskConsumer -----------------------------
(***************************************************************************)
(* The main loop of risk_engine (risk_engine/src/main.cpp): bets-submitted *)
(* is consumed one message at a time; each bet is evaluated, its result    *)
(* handed to librdkafka's producer queue, the queue flushed, and the       *)
(* offset committed.  librdkafka delivers the queue in the background, in  *)
(* order, also after flush has given up waiting.  A bet is its offset, and *)
(* a result is the bet with the engine's yes or no, which another          *)
(* evaluation of the same bet need not repeat (the clock and the balances  *)
(* have moved).  The engine's memory is RiskEngine; here it is the set of  *)
(* bets whose stakes the running process has debited.                      *)
(***************************************************************************)
EXTENDS Integers, Sequences

CONSTANTS
    MaxBets,     \* bound: messages on the bets-submitted partition
    MaxFaults,   \* bound: crashes, refused, expired and uncommitted messages
    MaxMoves     \* bound: rebalances while the process runs

ASSUME BoundsAssumption == MaxBets \in Nat /\ MaxFaults \in Nat /\ MaxMoves \in Nat

VARIABLES
    sent,        \* messages on bets-submitted so far
    committed,   \* committed offset of the group
    up,          \* the process runs
    stage,       \* where the loop is
    pos,         \* fetch position
    msg,         \* the message in hand
    accepted,    \* the engine's decision on it
    queue,       \* results in the producer queue, not delivered
    debited,     \* bets the running process has debited
    answered,    \* results on bets-results
    \* history and bounds
    seen,        \* bets some process has evaluated
    produced,    \* bets some result of which went into the producer queue
    gaveUp,      \* bets some result of which was refused by or expired in it
    faults, moves

process == <<up, stage, pos, msg, accepted, debited>>
history == <<seen, produced, gaveUp>>
vars    == <<sent, committed, process, queue, answered, history, faults, moves>>

Bets == 1..sent
Result == [bet : 1..MaxBets, accepted : BOOLEAN]
Stages == {"poll", "produce", "flush", "commit"}

\* Types, and that no position or result is about a message not yet sent.
TypeOK ==
    /\ sent \in 0..MaxBets
    /\ committed \in 1..(sent + 1)
    /\ up \in BOOLEAN
    /\ stage \in Stages
    /\ pos \in 1..(sent + 1)
    /\ msg \in 0..sent
    /\ accepted \in BOOLEAN
    /\ queue \in Seq(Result)
    /\ debited \subseteq Bets
    /\ answered \subseteq Result
    /\ seen \subseteq Bets /\ produced \subseteq Bets /\ gaveUp \subseteq Bets
    /\ faults \in 0..MaxFaults
    /\ moves \in 0..MaxMoves

Init ==
    /\ sent = 0
    /\ committed = 1                  \* auto.offset.reset = earliest
    /\ up = FALSE
    /\ stage = "poll"
    /\ pos = 1
    /\ msg = 0
    /\ accepted = FALSE
    /\ queue = <<>>
    /\ debited = {}
    /\ answered = {}
    /\ seen = {} /\ produced = {} /\ gaveUp = {}
    /\ faults = 0
    /\ moves = 0

Fault == faults < MaxFaults /\ faults' = faults + 1

--------------------------------------------------------------------------------
\* ingress_service publishes a bet.
Submit ==
    /\ sent < MaxBets
    /\ sent' = sent + 1
    /\ UNCHANGED <<committed, process, queue, answered, history, faults, moves>>

FromLatest == sent + 1
\* Where the group lets a consumer begin.
StartOffset == committed

\* The process starts with a fresh engine, seeded from its environment.
Start ==
    /\ ~up
    /\ up' = TRUE
    /\ pos' = StartOffset
    /\ UNCHANGED <<sent, committed, stage, msg, accepted, debited, queue, answered, history,
                   faults, moves>>

\* consume and evaluate_json.
Consume ==
    /\ up
    /\ stage = "poll"
    /\ pos <= sent
    /\ msg' = pos
    /\ pos' = pos + 1
    /\ accepted' \in BOOLEAN
    /\ debited' = debited \cup (IF accepted' THEN {pos} ELSE {})
    /\ seen' = seen \cup {pos}
    /\ stage' = "produce"
    /\ UNCHANGED <<sent, committed, up, queue, answered, produced, gaveUp, faults, moves>>

\* produce_result: the queue takes the result, or refuses it and the loop goes
\* on with the next message.
Produce ==
    /\ up
    /\ stage = "produce"
    /\ \/ /\ queue' = Append(queue, [bet |-> msg, accepted |-> accepted])
          /\ produced' = produced \cup {msg}
          /\ stage' = "flush"
          /\ UNCHANGED <<gaveUp, faults>>
       \/ /\ Fault
          /\ gaveUp' = gaveUp \cup {msg}
          /\ stage' = "poll"
          /\ UNCHANGED <<queue, produced>>
    /\ UNCHANGED <<sent, committed, up, pos, msg, accepted, debited, answered, seen, moves>>

AnyQueue == TRUE
\* flush returns 0 when nothing is left in the queue.
Flushed == queue = <<>>

PurgeQueue == queue' = <<>>
KeepQueue == UNCHANGED queue

\* flush(5000) empties the queue in time, or the loop goes on without a commit
\* and leaves the results to be delivered later.
Flush ==
    /\ up
    /\ stage = "flush"
    /\ \/ /\ Flushed
          /\ stage' = "commit"
          /\ UNCHANGED queue
       \/ /\ queue # <<>>
          /\ stage' = "poll"
          /\ KeepQueue
    /\ UNCHANGED <<sent, committed, up, pos, msg, accepted, debited, answered, history,
                   faults, moves>>

OnePastIt == msg + 2
\* What commitSync(msg) commits.
CommitOffset == msg + 1

\* commitSync; its failure is only logged.
Commit ==
    /\ up
    /\ stage = "commit"
    /\ stage' = "poll"
    /\ \/ committed' = CommitOffset /\ UNCHANGED faults
       \/ Fault /\ UNCHANGED committed
    /\ UNCHANGED <<sent, up, pos, msg, accepted, debited, queue, answered, history, moves>>

\* The broker takes the next result of the queue.
Deliver ==
    /\ queue # <<>>
    /\ answered' = answered \cup {Head(queue)}
    /\ queue' = Tail(queue)
    /\ UNCHANGED <<sent, committed, process, history, faults, moves>>

\* message.timeout.ms runs out for the next result of the queue.  No delivery
\* report callback is set, so that nobody learns of it.
Expire ==
    /\ queue # <<>>
    /\ Fault
    /\ gaveUp' = gaveUp \cup {Head(queue).bet}
    /\ queue' = Tail(queue)
    /\ UNCHANGED <<sent, committed, process, answered, seen, produced, moves>>

\* The group takes the partition away and gives it back: fetching starts over
\* at the committed offset while the loop goes on with the message in hand.
Rebalance ==
    /\ up
    /\ moves < MaxMoves
    /\ moves' = moves + 1
    /\ pos' = StartOffset
    /\ UNCHANGED <<sent, committed, up, stage, msg, accepted, debited, queue, answered,
                   history, faults>>

\* The process ends, orderly or not: its queue and the engine's memory are gone.
Crash ==
    /\ up
    /\ Fault
    /\ up' = FALSE
    /\ stage' = "poll"
    /\ msg' = 0
    /\ accepted' = FALSE
    /\ queue' = <<>>
    /\ debited' = {}
    /\ UNCHANGED <<sent, committed, pos, answered, history, moves>>

Next == \/ Submit \/ Start \/ Consume \/ Produce \/ Flush \/ Commit
        \/ Deliver \/ Expire \/ Rebalance \/ Crash

Spec == Init /\ [][Next]_vars

\* The loop runs while the process does, and the broker takes what is queued.
\* Nothing obliges a process to be started or a bet to be submitted.
Fairness == WF_vars(Consume \/ Produce \/ Flush \/ Commit) /\ WF_vars(Deliver)
FairSpec == Spec /\ Fairness

--------------------------------------------------------------------------------
(* Properties.                                                              *)

HasResult(o) == \E r \in answered : r.bet = o
Queued(o) == \E i \in DOMAIN queue : queue[i].bet = o

\* A committed bet has its result on bets-results, unless the producer queue
\* refused it or let it expire: a flush that times out, a crash, a failed
\* commit or a rebalance never makes the group skip a bet without a result,
\* though the queue may hold results of several bets (main.cpp:496-508).
CommittedIsAnswered ==
    \A o \in Bets : o < committed => HasResult(o) \/ o \in gaveUp

\* A stake the engine has debited is on its way to settlement: the bet is in
\* hand, or a result of it is queued or delivered or was given up.
DebitsAreReported ==
    \A o \in debited :
        \/ stage = "produce" /\ msg = o
        \/ Queued(o) \/ HasResult(o) \/ o \in gaveUp

\* No bet is committed that the engine has not evaluated.  The committed offset
\* may go back (a redelivered bet commits its own offset again after a later
\* one was committed), but restarts and rebalances never make it skip a bet.
NothingUnseen == \A o \in Bets : o < committed => o \in seen

\* While the process stays up, every bet gets a result or is given up.
EveryBetAnswered ==
    <>[]up => \A o \in 1..MaxBets : [](o <= sent => <>(HasResult(o) \/ o \in gaveUp))

\* An offset is committed only when a result was produced for its message
\* (docs/architecture.md:199).
OffsetsFollowResults == \A o \in Bets : o < committed => o \in produced
================================================================================
