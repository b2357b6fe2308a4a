-------------------------------- MODULE Catalogue ------------------------------
(***************************************************************************)
(* The selections a person can click and the outcomes an operator can       *)
(* settle, by the ids each part gives them.  An id is a tuple: <<"home">> is *)
(* the simulator's "home", <<"match-0001", "home">> the page's               *)
(* "match-0001-home".  The settlement service compares ids and nothing else. *)
(***************************************************************************)
EXTENDS Naturals

Outcome == {"home", "draw", "away"}
Match == {"match-0001", "match-0002", "match-0003"}

\* A tick of the simulator, as the board's live buttons put it in the slip.
LiveView(m, o) == [match |-> m, market |-> "full-time-result", selection |-> <<o>>]

\* The matches the board previews while it has no tick, and what its buttons
\* put in the slip.
Previewed == Match \X Outcome
PresetView(m, o) == [match |-> m, market |-> "full_time_result", selection |-> <<m, o>>]

\* The featured matches; a button looks the live selection up by its own id
\* and makes one up when there is none.
Featured == Match \X Outcome
HeroView(m, o) == [match |-> m, market |-> "moneyline", selection |-> <<m, o>>]
getLiveSelection(live, m, s) == {v \in live : v.match = m /\ v.selection = s}
onSelectOdds(live, m, o) ==
    LET found == getLiveSelection(live, m, <<m, o>>)
    IN IF found # {} THEN found ELSE {HeroView(m, o)}

LiveViews == {LiveView(m, o) : m \in Match, o \in Outcome}
Offered ==
    LiveViews \cup {PresetView(p[1], p[2]) : p \in Previewed}
              \cup {HeroView(p[1], p[2]) : p \in Featured}

\* The buttons of the settlement simulator: a match and the id that wins.
Button(m, o) == [match |-> m, winning |-> <<m, o>>]
Buttons ==
    {Button("match-0001", o) : o \in Outcome} \cup
    {Button(m, o) : m \in {"match-0002", "match-0003"}, o \in {"home", "away"}}
================================================================================
