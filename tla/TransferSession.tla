-------------------------- MODULE TransferSession --------------------------
(***************************************************************************)
(* What a Direct Transfer session promises, without a word on rows,        *)
(* uploads, counters and threads: every item ends at most once, the        *)
(* session is over exactly when no item is left, and a cancellation is     *)
(* final.  An item that is lost never ends: the session stays open.        *)
(***************************************************************************)
CONSTANT Items
VARIABLES
    pending,    \* the items that have not ended
    lost,       \* those that never will
    status      \* "none" before its creation, then a TransferStatus

Init == pending = Items /\ lost = {} /\ status = "none"

Create ==
    /\ status = "none"
    /\ status' \in {"ONGOING", "PAUSED"}
    /\ UNCHANGED <<pending, lost>>

\* An item is uploaded, or given up.  The last one to end decides the status:
\* done, or cancelled when none was uploaded.
End(i) ==
    /\ status \in {"ONGOING", "PAUSED"}
    /\ i \in pending \ lost
    /\ pending' = pending \ {i}
    /\ IF pending' = {}
       THEN status' \in {"DONE", "CANCELLED"}
       ELSE status' = status
    /\ UNCHANGED lost

\* An item disappears without a word: it stays pending.
Lose(i) ==
    /\ i \in pending \/ status = "CANCELLED"
    /\ lost' = lost \cup {i}
    /\ UNCHANGED <<pending, status>>

Pause == status = "ONGOING" /\ status' = "PAUSED" /\ UNCHANGED <<pending, lost>>

Resume == status = "PAUSED" /\ status' = "ONGOING" /\ UNCHANGED <<pending, lost>>

Cancel ==
    /\ status # "none"
    /\ status' = "CANCELLED"
    /\ pending' = {}
    /\ UNCHANGED lost

Next == Create \/ Pause \/ Resume \/ Cancel \/ \E i \in Items : End(i) \/ Lose(i)

Spec == Init /\ [][Next]_<<pending, lost, status>>
=============================================================================
