-------------------------------- MODULE OddsFeed -------------------------------
(***************************************************************************)
(* Odds from the simulator's topic through the relay to the board of one   *)
(* page: the topic, the relay's Kafka position and its bounded queue for   *)
(* this page, the WebSocket, and the rxjs pipeline of OddsWebSocketService. *)
(* A tick is its offset in the topic, which is a single partition.  The    *)
(* sequence number it carries grows with the offset within one run of the  *)
(* simulator and starts again with the next; nothing here looks at it.     *)
(*                                                                         *)
(* WebSocketSubject errors on an unclean close, which retry turns into a    *)
(* new connection after a second, and completes on a clean one, which ends  *)
(* the subscription; its "closed" stays false either way, so connect() does *)
(* something only the first time.                                          *)
(***************************************************************************)
EXTENDS Naturals, Sequences

CONSTANTS
    Selections,   \* the simulator's selections, the keys of the topic
    QueueDepth,   \* _QUEUE_DEPTH: 256 in the code
    MaxTicks,     \* bound: length of the topic
    MaxFaults,    \* bound: relay crashes, stops and rejoins, network drops
    NoOffset      \* the consumer group has committed nothing

ASSUME FeedAssumption ==
    /\ QueueDepth \in Nat \ {0}
    /\ MaxTicks \in Nat
    /\ MaxFaults \in Nat
    /\ NoOffset \notin Nat

VARIABLES
    topic,       \* odds-updates: the key of every tick so far
    relayUp,     \* the relay process is running
    pos,         \* its position in the topic
    committed,   \* the group's committed offset
    queue,       \* ticks of the page's ClientConnection
    wire,        \* the WebSocket: none, opening, open
    stream,      \* the subscription: idle, running, waiting, completed
    connected,   \* connectedSignal
    markets,     \* marketsSignal: the tick shown, 0 for none
    ticking,     \* the status bar shows a tick rate above zero
    asked,       \* ghost: "Reconnect Stream" was clicked, not connected since
    faults,
    rewound      \* ghost: the relay has lost a position past the committed one

relayVars == <<topic, relayUp, pos, committed>>
pageVars == <<wire, stream, connected, markets, ticking, asked>>
feedVars == <<relayVars, queue, pageVars, faults, rewound>>

FeedInit ==
    /\ topic = <<>>
    /\ relayUp = TRUE
    /\ pos = 0
    /\ committed = NoOffset
    /\ queue = <<>>
    /\ wire = "none"
    /\ stream = "idle"
    /\ connected = FALSE
    /\ markets = [k \in Selections |-> 0]
    /\ ticking = TRUE
    /\ asked = FALSE
    /\ faults = 0
    /\ rewound = FALSE

\* The pipeline's two ends, with the closeObserver before them.
Errors    == wire' = "none" /\ stream' = "waiting"   /\ connected' = FALSE
Completes == wire' = "none" /\ stream' = "completed" /\ connected' = FALSE

Fault == faults < MaxFaults /\ faults' = faults + 1

-------------------------------------------------------------------------------
\* The simulator publishes a tick.
publish_tick(k) ==
    /\ Len(topic) < MaxTicks
    /\ topic' = Append(topic, k)
    /\ UNCHANGED <<relayUp, pos, committed, queue, pageVars, faults, rewound>>

\* Mutant: one tick more than the queue has places.
FullPastDepth == Len(queue) > QueueDepth

\* put_nowait raises QueueFull.
QueueFull == Len(queue) >= QueueDepth

\* kafka_relay_loop and ConnectionManager.broadcast: queue the tick, or
\* disconnect a page whose queue is full.
broadcast ==
    /\ relayUp
    /\ pos < Len(topic)
    /\ pos' = pos + 1
    /\ \/ /\ wire = "open" /\ ~QueueFull
          /\ queue' = Append(queue, pos + 1)
          /\ UNCHANGED <<wire, stream, connected>>
       \/ /\ wire = "open" /\ QueueFull
          /\ queue' = <<>>
          /\ Completes
       \/ /\ wire # "open"
          /\ UNCHANGED <<queue, wire, stream, connected>>
    /\ UNCHANGED <<topic, relayUp, committed, markets, ticking, asked, faults, rewound>>

\* aiokafka's periodic auto-commit.
commit ==
    /\ relayUp
    /\ committed # pos
    /\ committed' = pos
    /\ UNCHANGED <<topic, relayUp, pos, queue, pageVars, faults, rewound>>

Down ==
    /\ relayUp
    /\ Fault
    /\ relayUp' = FALSE
    /\ queue' = <<>>
    /\ UNCHANGED <<topic, pos, markets, ticking, asked>>

\* The relay's position is gone, and what is committed is behind it.
LosesPosition == rewound' = (rewound \/ committed' \notin {pos, NoOffset})

\* A shutdown: clients are closed cleanly, the consumer stops.  Its last
\* commit may fail, which stop() only logs.
RelayStops ==
    /\ Down
    /\ committed' \in {pos, committed}
    /\ IF wire = "open" THEN Completes ELSE UNCHANGED <<wire, stream, connected>>
    /\ LosesPosition

RelayCrashes ==
    /\ Down
    /\ committed' = committed
    /\ IF wire = "open" THEN Errors ELSE UNCHANGED <<wire, stream, connected>>
    /\ LosesPosition

\* Mutant: auto_offset_reset="earliest".
EarliestOffset == IF committed = NoOffset THEN 0 ELSE committed

\* auto_offset_reset="latest" where nothing is committed.
StartOffset == IF committed = NoOffset THEN Len(topic) ELSE committed

RelayStarts ==
    /\ ~relayUp
    /\ relayUp' = TRUE
    /\ pos' = StartOffset
    /\ UNCHANGED <<topic, committed, queue, pageVars, faults, rewound>>

\* The group expels the running consumer, whose commit of what it has relayed
\* is refused by then, and it joins again.  Pages and queues stay.
Rejoin ==
    /\ relayUp
    /\ Fault
    /\ pos' = StartOffset
    /\ committed' = committed
    /\ LosesPosition
    /\ UNCHANGED <<topic, relayUp, queue, pageVars>>

-------------------------------------------------------------------------------
\* connect(), by the board when it is shown first.
connect ==
    /\ stream = "idle"
    /\ stream' = "running"
    /\ wire' = "opening"
    /\ UNCHANGED <<relayVars, queue, connected, markets, ticking, asked, faults, rewound>>

\* The button that says "Reconnect Stream" while not connected: connect()
\* finds a socket that is not "closed" and returns.
Reconnect ==
    /\ stream # "idle"
    /\ ~connected
    /\ asked' = TRUE
    /\ UNCHANGED <<relayVars, queue, wire, stream, connected, markets, ticking, faults, rewound>>

Opened ==
    /\ wire = "opening"
    /\ relayUp
    /\ wire' = "open"
    /\ connected' = TRUE
    /\ asked' = FALSE
    /\ queue' = <<>>
    /\ UNCHANGED <<relayVars, stream, markets, ticking, faults, rewound>>

OpenFails ==
    /\ wire = "opening"
    /\ ~relayUp
    /\ Errors
    /\ UNCHANGED <<relayVars, queue, markets, ticking, asked, faults, rewound>>

\* The connection is lost on the way.
NetworkDrops ==
    /\ wire # "none"
    /\ Fault
    /\ Errors
    /\ queue' = <<>>
    /\ UNCHANGED <<relayVars, markets, ticking, asked, rewound>>

\* Mutant: the stream gives up on its first error.
NoRetry == FALSE /\ UNCHANGED feedVars

\* retry({ delay: 1000 }).
RetryDue ==
    /\ stream = "waiting"
    /\ stream' = "running"
    /\ wire' = "opening"
    /\ UNCHANGED <<relayVars, queue, connected, markets, ticking, asked, faults, rewound>>

\* The writer sends a tick and applyTick shows it, whatever is shown.
applyTick ==
    /\ wire = "open"
    /\ queue # <<>>
    /\ queue' = Tail(queue)
    /\ markets' = [markets EXCEPT ![topic[Head(queue)]] = Head(queue)]
    /\ UNCHANGED <<relayVars, wire, stream, connected, ticking, asked, faults, rewound>>

Shown == \E k \in Selections : markets[k] # 0

\* Mutant: the rate looks at the board and not at the connection.
RateOfBoard ==
    /\ stream # "idle"
    /\ ticking' = Shown
    /\ UNCHANGED <<relayVars, queue, wire, stream, connected, markets, asked, faults, rewound>>

\* SystemStatusService.startTickRateCalculator, every second.
TickRate ==
    /\ stream # "idle"
    /\ ticking' = (connected /\ Shown)
    /\ UNCHANGED <<relayVars, queue, wire, stream, connected, markets, asked, faults, rewound>>

ReloadBoard ==
    /\ wire' = "none" /\ stream' = "idle" /\ connected' = FALSE
    /\ markets' = [k \in Selections |-> 0]
    /\ ticking' = TRUE
    /\ asked' = FALSE
    /\ queue' = <<>>
    /\ UNCHANGED <<relayVars, faults, rewound>>

FeedStep ==
    \/ \E k \in Selections : publish_tick(k)
    \/ broadcast
    \/ commit
    \/ RelayStops
    \/ RelayCrashes
    \/ RelayStarts
    \/ Rejoin
    \/ connect
    \/ Reconnect
    \/ Opened
    \/ OpenFails
    \/ NetworkDrops
    \/ RetryDue
    \/ applyTick
    \/ TickRate

FeedNext == FeedStep \/ ReloadBoard

\* Timers fire, an opening socket opens or fails, and somebody restarts the
\* relay.  Ticks need not arrive.
FeedFairness ==
    /\ WF_feedVars(RelayStarts)
    /\ WF_feedVars(Opened \/ OpenFails)
    /\ WF_feedVars(RetryDue)
    /\ WF_feedVars(TickRate)

FeedSafety == FeedInit /\ [][FeedNext]_feedVars
FeedSpec == FeedSafety /\ FeedFairness

-------------------------------------------------------------------------------
FeedTypeOK ==
    /\ topic \in Seq(Selections) /\ Len(topic) <= MaxTicks
    /\ relayUp \in BOOLEAN
    /\ pos \in 0..Len(topic)
    /\ committed \in 0..Len(topic) \cup {NoOffset}
    /\ queue \in Seq(1..Len(topic)) /\ Len(queue) <= QueueDepth
    /\ wire \in {"none", "opening", "open"}
    /\ stream \in {"idle", "running", "waiting", "completed"}
    /\ connected \in BOOLEAN
    /\ markets \in [Selections -> 0..Len(topic)]
    /\ ticking \in BOOLEAN
    /\ asked \in BOOLEAN
    /\ faults \in 0..MaxFaults
    /\ rewound \in BOOLEAN

\* The board overwrites whatever it shows with whatever arrives.  A price is
\* replaced by an older one only once the relay has lost a position past an
\* offset it had committed, by a crash, a failed last commit or an expulsion
\* from the group.  Clean stops, drops, overflows and reconnections never do
\* it, nor does any failure before the first commit.
OlderPriceNeedsRewind ==
    [][ \/ \A k \in Selections : markets'[k] >= markets[k]
        \/ rewound
        \/ stream' = "idle" ]_feedVars

\* A stream that ended with an error is connected again in the end: the retry
\* lasts as long as the relay is away.
StreamComesBack == stream = "waiting" ~> (connected \/ stream = "idle")

\* A stream that has completed, and will never come back, is shown as dead:
\* not connected and no ticks, though the board keeps its last prices.
DeadStreamIsShown ==
    stream = "completed" ~> (stream # "completed" \/ (~connected /\ ~ticking))

\* What the button says: whoever asks for the stream gets it back.  It does
\* not hold: a clean close, by a shutdown of the relay or because the queue
\* was full, is for good.
ReconnectStream == asked ~> ~asked
================================================================================
