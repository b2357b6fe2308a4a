--------------------------- MODULE RequestIndicator ---------------------------
(***************************************************************************)
(* What a "working" indicator of the single-page application promises: a   *)
(* label or a disabled button that says a request is under way says so only *)
(* while one is.  The signal is cleared by the answer, so a component that  *)
(* raised it without sending, or lost its request, would stay disabled for *)
(* good.  The bet slip, the sign-in dialog, the tracer, the settlement     *)
(* panel and the benchmark page each refine this.                          *)
(***************************************************************************)
EXTENDS Naturals

VARIABLES
    busy,   \* what the indicator shows
    open    \* how many of the component's requests are under way

indicator == <<busy, open>>

\* A component may send its first request as it is created.
Init == busy \in BOOLEAN /\ open = IF busy THEN 1 ELSE 0

\* A request is sent and the indicator raised.
Send == busy' = TRUE /\ open' = open + 1

\* An answer, of any of the requests, lowers it.
Answer == open > 0 /\ open' = open - 1 /\ busy' = FALSE

\* The component starts afresh, with a first request or without; what is under
\* way stays under way, or is abandoned with the page.
Restart ==
    \/ busy' = FALSE /\ open' \in {open, 0}
    \/ busy' = TRUE /\ open' = 1

Next == Send \/ Answer \/ Restart

Safety == Init /\ [][Next]_indicator

\* The indicator goes down in the end.  It may go up again, and it may go
\* down early: the first of several answers lowers it.
Lowered == busy ~> ~busy

Spec == Safety /\ Lowered

\* The indicator is up only while a request is under way.
NeverStuck == busy => open > 0
================================================================================
