-------------------------------- MODULE Filters --------------------------------
(***************************************************************************)
(* The choice of the documents to synchronize: the window with the tree of *)
(* the documents (gui/folders_dialog.py, folders_treeview.py,              *)
(* folders_loader.py, folders_model.py), the filters of the database       *)
(* (dao/engine.py) and what the remote watcher scans after a change of     *)
(* them.  The children of a folder are fetched by a thread of the pool     *)
(* when the folder is expanded, while the user goes on clicking; OK writes *)
(* the filters one at a time, while the watcher is scanning.               *)
(***************************************************************************)
EXTENDS Naturals, SequencesExt

CONSTANTS
    Tree,       \* the documents of the server in the order of their paths
    Parent,     \* the folder of each, or None for a root
    None,
    Clicks,     \* how many times the user clicks on a box
    Opened,     \* how many times the window is opened
    Failures    \* how many requests and writes fail

Docs == Range(Tree)
TreeAssumption == Parent \in [Docs -> Docs \cup {None}] /\ None \notin Docs

VARIABLES
    filters,    \* the Filters table
    toScan,     \* the ToRemoteScan table, in the order of its rows
    pairs,      \* the documents with a pair
    scan,       \* what the remote watcher is scanning
    window,     \* the window, or None
    ops,        \* what OK still has to write
    job,        \* the folders being loaded
    left,       \* what the user and the network may still do
    shown,      \* what the window showed when OK was clicked
    why         \* the documents whose box may be wrong, or that may be synchronized wrongly, and why

vars == <<filters, toScan, pairs, scan, window, ops, job, left, shown, why>>

Children(d) == {c \in Docs : Parent[c] = d}
Above[d \in Docs] == {d} \cup IF Parent[d] = None THEN {} ELSE Above[Parent[d]]
Under(d) == {x \in Docs : d \in Above[x]}
Folder(d) == Children(d) # {}
Reasons == {"unvisited", "between", "elsewhere", "failed", "raced", "lost"}
Because(w, reason, docs) == [w EXCEPT ![reason] = @ \cup docs]

-------------------------------------------------------------------------------
(* The database and the remote watcher                                     *)

IsFilter(f, d) == Above[d] \cap f # {}
\* add_filter removes the filters and the scans under the new one.
AddFilter(f, d) == IF IsFilter(f, d) THEN f ELSE (f \ Under(d)) \cup {d}
RemoveFilter(f, d) == f \ Under(d)
AddPath(s, d) == LET rest == SelectSeq(s, LAMBDA x : x \notin Under(d) \/ x = d)
                 IN IF Contains(rest, d) THEN rest ELSE Append(rest, d)

NoScan == [path |-> None, todo |-> {}, listed |-> None, found |-> {}, known |-> {}, seen |-> {}]
ScanBegins ==
    /\ scan = NoScan /\ toScan # <<>>
    /\ LET d == Head(toScan) IN
       IF IsFilter(filters, d) \/ (Parent[d] # None /\ Parent[d] \notin pairs)
       THEN toScan' = Tail(toScan) /\ UNCHANGED <<scan, pairs>>
       ELSE /\ scan' = [NoScan EXCEPT !.path = d, !.todo = {d}]
            /\ pairs' = pairs \cup {d} /\ UNCHANGED toScan
    /\ UNCHANGED <<filters, window, ops, job, left, shown, why>>

(* The children that are not filtered when the server answers ... *)
VisibleIf(d, hidden) == {c \in Children(d) : ~IsFilter(hidden, c)}
VisibleMutant(d) == VisibleIf(d, {})  \* all the children: mutant
Visible(d) == VisibleIf(d, filters)
ScanLists(d) ==
    /\ d \in scan.todo /\ scan.listed = None
    /\ scan' = [scan EXCEPT !.todo = @ \ {d}, !.listed = d, !.known = pairs \cap Children(d),
                            !.found = Visible(d), !.seen = filters]
    /\ UNCHANGED <<filters, toScan, pairs, window, ops, job, left, shown, why>>

(* ... are those that are inserted; the others have been deleted. *)
ScanInserts ==
    /\ scan.listed # None
    /\ LET gone == UNION {Under(c) : c \in scan.known \ scan.found}
       IN /\ pairs' = (pairs \ gone) \cup scan.found
          /\ why' = Because(why, "raced", UNION {Under(c) : c \in {x \in scan.found : scan.listed \notin pairs \/
                                                                (IsFilter(filters, x) /\ ~IsFilter(scan.seen, x))}})
    /\ scan' = [scan EXCEPT !.listed = None, !.found = {}, !.known = {}, !.seen = {},
                            !.todo = @ \cup {c \in scan.found : Folder(c)}]
    /\ UNCHANGED <<filters, toScan, window, ops, job, left, shown>>

(* The path is taken off the list, also when it was added again in the meantime. *)
ScanEnds ==
    /\ scan.path # None /\ scan.todo = {} /\ scan.listed = None
    /\ toScan' = SelectSeq(toScan, LAMBDA x : x # scan.path) /\ scan' = NoScan
    /\ UNCHANGED <<filters, pairs, window, ops, job, left, shown, why>>

-------------------------------------------------------------------------------
(* The window                                                              *)

\* What is known of a document: its box, the box it had, and whether it is in the tree and in dirty_items.
Doc(state, old) == [state |-> state, old |-> old, row |-> FALSE, dirty |-> FALSE]
IsDirty(item) == item.state # item.old

ItemState(seen, d) == IF IsFilter(seen, d) THEN "off"
                      ELSE IF Under(d) \cap seen # {} THEN "part" ELSE "on"

Open ==
    /\ window = None /\ ops = <<>> /\ left.opened > 0
    /\ window' = [seen |-> filters, all |-> TRUE, cache |-> {}, item |-> [d \in Docs |-> None]]
    /\ job' = {[on |-> None, made |-> FALSE]}
    /\ left' = [left EXCEPT !.opened = @ - 1]
    /\ shown' = [d \in Docs |-> None]
    /\ why' = [r \in Reasons |-> IF r \in {"raced", "lost"} THEN why[r] ELSE {}]
    /\ UNCHANGED <<filters, toScan, pairs, scan, ops>>

(* Expanding a folder loads its children, once: also when that has failed. *)
Expand(d) ==
    /\ window # None /\ window.item[d] # None /\ window.item[d].row /\ Folder(d) /\ d \notin window.cache
    /\ window' = [window EXCEPT !.cache = @ \cup {d}]
    /\ job' = job \cup {[on |-> d, made |-> FALSE]}
    /\ UNCHANGED <<filters, toScan, pairs, scan, ops, left, shown, why>>

(* The thread makes the documents from the answer: under a folder that was changed, with its box ... *)
Made(w, d, c) ==
    LET state == ItemState(w.seen, c)
    IN IF d # None /\ IsDirty(w.item[d]) THEN Doc(w.item[d].state, state) ELSE Doc(state, state)
Fetch(j) ==
    /\ window # None /\ j \in job /\ ~j.made
    /\ window' = [window EXCEPT !.item =
                    [c \in Docs |-> IF Parent[c] = j.on THEN Made(window, j.on, c) ELSE @[c]]]
    /\ job' = (job \ {j}) \cup {[j EXCEPT !.made = TRUE]}
    /\ UNCHANGED <<filters, toScan, pairs, scan, ops, left, shown, why>>

(* ... and puts them in the tree. *)
Fill(j) ==
    /\ window # None /\ j \in job /\ j.made
    /\ window' = [window EXCEPT !.item =
                    [c \in Docs |-> IF Parent[c] = j.on THEN [@[c] EXCEPT !.row = TRUE] ELSE @[c]]]
    /\ job' = job \ {j}
    /\ UNCHANGED <<filters, toScan, pairs, scan, ops, left, shown, why>>

(* The row of an error replaces them. *)
FetchFails(j) ==
    /\ window # None /\ j \in job /\ ~j.made /\ left.failures > 0
    /\ job' = job \ {j} /\ left' = [left EXCEPT !.failures = @ - 1]
    /\ UNCHANGED <<filters, toScan, pairs, scan, window, ops, shown, why>>

\* update_item_changed
Update(item, d, state) ==
    [item EXCEPT ![d] = [@ EXCEPT !.state = state, !.dirty = state # item[d].old]]
Rows(item, d) == {c \in Children(d) : item[c] # None /\ item[c].row}

\* resolve_item_down_changed, to the rows there are; resolve_item_up_changed, from the rows of each folder
Down(item, d, state) ==
    [x \in Docs |-> IF x \in Under(d) /\ (x = d \/ (item[x] # None /\ item[x].row))
                    THEN Update(item, x, state)[x] ELSE item[x]]
FolderBox(item, d) == IF \A c \in Rows(item, d) : item[c].state = "on" THEN "on" ELSE "part"
Up(item, d) ==
    LET step(items, p) == Update(items, p, FolderBox(items, p))
    IN FoldLeft(step, item, SetToSortSeq(Above[d] \ {d}, LAMBDA x, y : x \in Under(y)))

\* A click goes to the next of the three states.
After == [off |-> "part", part |-> "on", on |-> "off"]

(* The documents that a thread has made and has not put in the tree keep their box. *)
Missed(item, d) == UNION {Under(x) : x \in {y \in Under(d) : item[y] # None /\ ~item[y].row}}
Click(d) ==
    /\ window # None /\ window.item[d] # None /\ window.item[d].row /\ left.clicks > 0
    /\ left' = [left EXCEPT !.clicks = @ - 1]
    /\ window' = [window EXCEPT !.item = Up(Down(@, d, After[@[d].state]), d)]
    /\ why' = Because(why, "between", Missed(window.item, d))
    /\ UNCHANGED <<filters, toScan, pairs, scan, ops, job, shown>>

(* The button that selects all the roots, then none. *)
SelectAll ==
    /\ window # None /\ left.clicks > 0 /\ left' = [left EXCEPT !.clicks = @ - 1]
    /\ LET state == IF window.all THEN "on" ELSE "off"
           roots == {d \in Rows(window.item, None) : window.item[d].state # state}
           step(item, d) == Down(item, d, state)
       IN /\ window' = [window EXCEPT !.all = ~@, !.item = FoldLeft(step, @, SetToSeq(roots))]
          /\ why' = Because(why, "between", UNION {Missed(window.item, d) : d \in roots})
    /\ UNCHANGED <<filters, toScan, pairs, scan, ops, job, shown>>

Cancel ==
    /\ window # None /\ window' = None /\ job' = {}
    /\ UNCHANGED <<filters, toScan, pairs, scan, ops, left, shown, why>>

(* OK: the changed documents in the order of their paths. *)
Off(item, d) ==  \* _apply_partial_children: what is off under a document that is partly on
    {x \in Under(d) \ {d} : /\ item[x] # None /\ item[x].state = "off"
                            /\ \A y \in Above[x] \ {x} : y \in Under(d) => item[y].state = "part"}
Write(what, docs) ==
    [i \in 1..Cardinality(docs) |-> <<what, SelectSeq(Tree, LAMBDA x : x \in docs)[i]>>]
ApplyIf(item, d, partial) ==
    CASE item[d].state = "off" -> Write("add", {d})
      [] item[d].state = "on" -> Write("remove", {d})
      [] OTHER -> (IF item[d].old = "off" THEN Write("remove", {d}) ELSE <<>>)
                  \o (IF partial THEN Write("add", Off(item, d)) ELSE <<>>)
ApplyMutant(item, d) == ApplyIf(item, d, FALSE)  \* the dirty items only: mutant
Apply(item, d) == ApplyIf(item, d, TRUE)

Accept ==
    /\ window # None
    /\ LET dirty == {d \in Docs : window.item[d] # None /\ window.item[d].dirty}
           step(sofar, d) == sofar \o Apply(window.item, d)
       IN /\ ops' = FoldLeft(step, <<>>, SelectSeq(Tree, LAMBDA d : d \in dirty))
          /\ shown' = [d \in Docs |-> IF window.item[d] = None \/ ~window.item[d].row THEN None
                                      ELSE window.item[d].state]
          /\ why' = [why EXCEPT !["unvisited"] =
                       {d \in Docs : window.item[d] # None /\ IsDirty(window.item[d]) /\ ~window.item[d].dirty}]
    /\ window' = None /\ job' = {}
    /\ UNCHANGED <<filters, toScan, pairs, scan, left>>

\* engine.add_filter: what has a pair is deleted from the disk.
Filter(d) ==
    /\ filters' = AddFilter(filters, d)
    /\ toScan' = IF IsFilter(filters, d) THEN toScan ELSE SelectSeq(toScan, LAMBDA x : x \notin Under(d))
    /\ pairs' = IF d \in pairs THEN pairs \ Under(d) ELSE pairs
    /\ UNCHANGED why
\* engine.remove_filter: the watcher is told to scan the path.
Unfilter(d) ==
    /\ filters' = RemoveFilter(filters, d)
    /\ toScan' = AddPath(toScan, d)
    /\ why' = IF scan.path = d THEN Because(why, "lost", Under(d)) ELSE why
    /\ UNCHANGED pairs
OkWrites ==
    /\ ops # <<>> /\ ops' = Tail(ops)
    /\ LET d == Head(ops)[2] IN IF Head(ops)[1] = "add" THEN Filter(d) ELSE Unfilter(d)
    /\ UNCHANGED <<scan, window, job, left, shown>>

(* A write fails: the rest is dropped and the window closes. *)
OkFails ==
    /\ ops # <<>> /\ left.failures > 0 /\ ops' = <<>>
    /\ left' = [left EXCEPT !.failures = @ - 1]
    /\ why' = Because(why, "failed", Docs)
    /\ UNCHANGED <<filters, toScan, pairs, scan, window, job, shown>>

(* The user deletes a document on the disk and keeps it on the server (delete_doc). *)
Unsync(d) ==
    /\ d \in pairs /\ left.failures > 0 /\ ops = <<>> /\ left' = [left EXCEPT !.failures = @ - 1]
    /\ filters' = AddFilter(filters, d) /\ pairs' = pairs \ Under(d)
    /\ toScan' = SelectSeq(toScan, LAMBDA x : x \notin Under(d))
    /\ why' = Because(why, "elsewhere", IF window = None THEN {} ELSE Under(d) \cup Above[d])
    /\ shown' = [x \in Docs |-> None]
    /\ UNCHANGED <<scan, window, ops, job>>

-------------------------------------------------------------------------------
Init ==
    /\ filters \in {f \in SUBSET Docs : \A d, e \in f : d # e => d \notin Above[e]}
    /\ pairs = {d \in Docs : ~IsFilter(filters, d)}
    /\ toScan = <<>> /\ scan = NoScan /\ window = None /\ ops = <<>> /\ job = {}
    /\ left = [clicks |-> Clicks, opened |-> Opened, failures |-> Failures]
    /\ shown = [d \in Docs |-> None] /\ why = [r \in Reasons |-> {}]

Next ==
    \/ ScanBegins \/ ScanInserts \/ ScanEnds \/ Open \/ SelectAll \/ Cancel \/ Accept \/ OkWrites \/ OkFails
    \/ \E d \in Docs : ScanLists(d) \/ Expand(d) \/ Click(d) \/ Unsync(d)
    \/ \E j \in job : Fetch(j) \/ Fill(j) \/ FetchFails(j)

Spec == Init /\ [][Next]_vars

-------------------------------------------------------------------------------
(* Properties                                                              *)

AllWritten == window = None /\ ops = <<>>

(* ChoiceKept: once OK has written the filters, each document is synchronized as its box showed: what was *)
(* on is not filtered, nor anything in it, what was off is filtered, what was partly on is not            *)
(* (folders_dialog.py:205-256).  The exceptions are the defects of the window: a document made under a    *)
(* changed folder has a changed box and is not in dirty_items, and is forgotten when its folder gets its  *)
(* box back ("unvisited"); a click does not reach the documents that a thread has made and not yet put in *)
(* the tree ("between"); filters written by a deletion while the window is open ("elsewhere"); a write    *)
(* that fails drops the others ("failed").                                                                *)
ChoiceKept ==
    AllWritten =>
      \A d \in Docs :
        LET known == d \in UNION {why[r] : r \in {"unvisited", "between", "elsewhere", "failed"}} IN
        /\ shown[d] = "on" => (Under(d) \cap filters = {} /\ ~IsFilter(filters, d)) \/ known
        /\ shown[d] = "off" => IsFilter(filters, d) \/ known
        /\ shown[d] = "part" => ~IsFilter(filters, d) \/ known

(* FiltersFollowed: when the watcher has scanned what it was told to, the documents that have a pair are  *)
(* those that no filter hides: what is filtered leaves the disk, what is chosen again comes back.  The    *)
(* exceptions: the children that were listed before a filter was added are inserted after it ("raced"),   *)
(* and a path that is added while it is scanned is taken off the list at the end ("lost").                *)
FiltersFollowed ==
    AllWritten /\ toScan = <<>> /\ scan = NoScan =>
      \A d \in Docs : (d \in pairs) = ~IsFilter(filters, d) \/ d \in why["raced"] \cup why["lost"]

(* UncheckedBranches: "For every Unchecked branch we call engine.add_filter" (folders_dialog.py:246), but *)
(* for the boxes a click could not reach: what was shown as off is filtered.                              *)
UncheckedBranches ==
    AllWritten => \A d \in Docs : shown[d] = "off" => IsFilter(filters, d) \/ d \in why["between"]
===============================================================================
