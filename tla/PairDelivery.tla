---------------------------- MODULE PairDelivery ----------------------------
(***************************************************************************)
(* What the queues and the processors of an engine promise to those who    *)
(* push pairs: every pair that is due gets a handler, one is not begun     *)
(* while another holds the pair, and a pair stops being due only when a    *)
(* handler starts on it or when its row is gone.  A handler that dies      *)
(* takes its pair with it.  Queues, threads and errors do not show.        *)
(***************************************************************************)
CONSTANT Pairs

VARIABLES
    due,     \* pairs to be handled
    busy,    \* pairs that a handler holds
    stuck,   \* those whose handler died
    alive,   \* pairs that still have a row
    open     \* processing is neither suspended, disconnected nor hung

vars == <<due, busy, stuck, alive, open>>

Init == due = {} /\ busy = {} /\ stuck = {} /\ alive = Pairs /\ open \in BOOLEAN

\* Someone changed the pair, or its handler wants to try again.  The threads
\* that had the pair are told to stop, those that hung too.
Submit(p) ==
    /\ due' = due \cup {p}
    /\ open' \in BOOLEAN /\ (open => open')
    /\ UNCHANGED <<busy, stuck, alive>>

\* A handler starts, on the pair as it is now.
Begin(p) ==
    /\ p \in alive /\ p \notin busy
    /\ busy' = busy \cup {p}
    /\ due' = due \ {p}
    /\ UNCHANGED <<stuck, alive, open>>

\* The handler lets its pair go, or another frees it.
End(p) ==
    /\ p \in busy
    /\ busy' = busy \ {p}
    /\ stuck' = stuck \ {p}
    /\ UNCHANGED <<due, alive, open>>

\* The thread of the handler is terminated.
Die(p) == p \in busy /\ stuck' = stuck \cup {p} /\ UNCHANGED <<due, busy, alive, open>>

\* A handler deletes the row of its pair.
Remove(p) == alive' = alive \ {p} /\ UNCHANGED <<due, busy, stuck, open>>

Discard(p) == p \notin alive /\ due' = due \ {p} /\ UNCHANGED <<busy, stuck, alive, open>>

\* Processing is suspended or resumed; a full disk suspends it on behalf of a
\* pair that is then due again.
OpenOrClose ==
    /\ open' \in BOOLEAN
    /\ due' = due \/ (open' = FALSE /\ \E p \in Pairs : due' = due \cup {p})
    /\ UNCHANGED <<busy, stuck, alive>>

Next ==
    \/ \E p \in Pairs : Submit(p) \/ Begin(p) \/ End(p) \/ Die(p) \/ Remove(p) \/ Discard(p)
    \/ OpenOrClose

\* Once processing is open for good, what is due is handled or discarded,
\* unless the handler that holds it has died.
Served == <>[]open => \A p \in Pairs : p \in due ~> p \notin due \/ p \in stuck

\* What no step may ever do, and what must come of it.
Promise == Init /\ [][Next]_vars

Spec == Promise /\ Served
=============================================================================
