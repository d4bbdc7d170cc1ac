---------------------------- MODULE MCLocalWatcher ----------------------------
(***************************************************************************)
(* Two components for TLC: in each behaviour one of them runs (part), with *)
(* its own bounds.  The transfers of a file have their own variables, and  *)
(* wait in an initial state when the watcher runs, which has the places    *)
(* v1, v2, ... for its variables, in the order it declares them.           *)
(***************************************************************************)
EXTENDS FileTransfers, TLC

CONSTANTS n1, n2, n3, Nodes, Docs, Ids, FileNames, FolderNames, Starts, UserDoes

VARIABLES part, \* the component of this behaviour
          v1, v2, v3, v4, v5, v6, v7, v8, v9, v10, v11, v12, v13, v14, v15
places == <<v1, v2, v3, v4, v5, v6, v7, v8, v9, v10, v11, v12, v13, v14, v15>>

-------------------------------------------------------------------------------
(* A folder with a file in it, two names.                                  *)
MCDisk == (1 :> [in |-> 0, name |-> n1, folder |-> TRUE]) @@ (2 :> [in |-> 1, name |-> n2, folder |-> FALSE])
MCStarts == {[disk |-> MCDisk, hasBirth |-> FALSE, ops |-> 3, stops |-> 1],
             [disk |-> MCDisk, hasBirth |-> TRUE, ops |-> 3, stops |-> 0],
             [disk |-> MCDisk, hasBirth |-> TRUE, ops |-> 2, stops |-> 1]}
L == INSTANCE LocalWatcher WITH
       disk <- v1, born <- v2, server <- v3, row <- v4, queued <- v5, events <- v6, running <- v7,
       hasBirth <- v8, stack <- v9, doomed <- v10, spared <- v11, ops <- v12, stops <- v13, lost <- v14,
       removed <- v15

(* Files of three chunks, two versions after the first.                    *)
NoTransfer == [what \in {"edit", "fail", "pause", "suspend", "crash", "expire"} |-> 0]
TransferBudgets == {[NoTransfer EXCEPT !.edit = 2, !.pause = 1, !.crash = 1],
                    [NoTransfer EXCEPT !.edit = 2, !.fail = 1, !.crash = 1],
                    [NoTransfer EXCEPT !.edit = 1, !.fail = 1, !.pause = 1, !.crash = 1],
                    [NoTransfer EXCEPT !.edit = 1, !.fail = 2, !.suspend = 1, !.expire = 1],
                    [NoTransfer EXCEPT !.edit = 1, !.fail = 1, !.pause = 1, !.suspend = 1, !.expire = 1]}
Waits == doc = None /\ left = CHOOSE b \in Budgets : TRUE

-------------------------------------------------------------------------------
MCInit ==
    /\ Init
    /\ \/ /\ part = "watcher" /\ L!Init /\ Waits
       \/ /\ part = "transfers"
          /\ v1 = None /\ v2 = None /\ v3 = None /\ v4 = None /\ v5 = None /\ v6 = None /\ v7 = None
          /\ v8 = None /\ v9 = None /\ v10 = None /\ v11 = None /\ v12 = None /\ v13 = None
          /\ v14 = None /\ v15 = None

LocalWatcherStep == part = "watcher" /\ (L!Next \/ L!Rests) /\ UNCHANGED <<part, vars>>
FileTransfersStep == part = "transfers" /\ Next /\ UNCHANGED <<part, places>>

(* The budget of a transfer ends it.                                       *)
Idle == part = "transfers" /\ UNCHANGED <<part, vars, places>>

MCNext == LocalWatcherStep \/ FileTransfersStep \/ Idle
MCSpec == MCInit /\ [][MCNext]_<<part, vars, places>>

-------------------------------------------------------------------------------
(* The server is a copy of the disk when all is quiet, but for what        *)
(* LocalWatcher names.                                                     *)
Mirror == part = "watcher" => L!Mirror

(* The document of a file that is still on the disk is not trashed.        *)
KeepsFiles == [][part = "watcher" => L!SparesFiles]_places
===============================================================================
