---------------------------- MODULE RemoteWatcher ----------------------------
(***************************************************************************)
(* How the client learns of a tree of documents: the remote watcher polls  *)
(* the audit log of the server, scans the folders it knows nothing of, and *)
(* writes rows; the user chooses what is synchronised with filters; a      *)
(* processor makes the synchronised folder follow the rows.                *)
(*                                                                         *)
(* The watcher is interrupted between two calls to the server: by a signal *)
(* (scan_pair), by a stop, or by an error of the network.  What is in the  *)
(* database remains (rows, Filters, ToRemoteScan, RemoteScan, the bound of *)
(* the log, remote_need_full_scan); the answers of the server are lost.    *)
(* A handler of the processor is one step (its races with the watchers are *)
(* in PairSync); nobody touches the synchronised folder.                   *)
(*                                                                         *)
(* A path is the sequence of the references from the root to a document.   *)
(***************************************************************************)
EXTENDS Naturals, Sequences, FiniteSets, SequencesExt

CONSTANTS Items,          \* the documents
          Folders,        \* those that are folders
          Root,           \* the top level folder, always synchronised
          None,
          Starts,         \* home: where each document first lives, None if not created
                          \* yet; then at most ops steps of the users of the server,
                          \* prefs changes of the filters, faults of the network or stops
          Ops             \* what the users of the server may do

VARIABLES
    server,     \* the documents: [par, life]
    log,        \* the audit log: [ref, event]
    row,        \* the States table: the row of each document, or None
    queued,     \* the pairs in the queue manager
    filters,    \* Filters
    toScan,     \* ToRemoteScan
    scanned,    \* RemoteScan
    needFull,   \* remote_need_full_scan
    lastFull,   \* has remote_last_full_scan been written?
    seen,       \* remote_last_event_log_id
    running,    \* is the application up?
    signals,    \* scanPair emitted, its slot not run yet
    task,       \* what _handle_changes is doing
    stack,      \* the scans that remain, innermost first
    changes,    \* fileSystemChanges still to be handled, most recent first
    refreshed,  \* the documents a more recent change was handled for
    toDelete,   \* delete_queue
    scrolls,    \* does the server offer to scroll the descendants of a folder?
    ops, prefs, faults

table   == <<row, queued>>
config  == <<filters, toScan, scanned, needFull, lastFull, seen>>
pass    == <<task, stack, changes, refreshed, toDelete>>
bounds  == <<ops, prefs, faults>>

VARIABLES
    lost,       \* history: documents whose news nobody will act on, and why
    left        \* history: documents moved, trashed or filtered, or below one that was

world == <<server, log, left>>
vars == <<world, table, config, running, signals, pass, scrolls, bounds, lost>>

Pair == INSTANCE PairStates WITH Contents <- {}, Size <- [c \in {} |-> 0], Unaccessible <- None

-------------------------------------------------------------------------------
(* The tree of the server.                                                 *)

Path == LET path[i \in Items \cup {Root}] ==
                IF i = Root THEN <<Root>> ELSE Append(path[server[i].par], i)
        IN  path
Under(i, f) == f \in Range(Path[i])             \* i is f, or in the folder f
Visible(i) == \A j \in Range(Path[i]) \ {Root} : server[j].life = "live"

(* What the server says of a document: its parent, the path of its parent. *)
Info(i) == IF Visible(i) THEN [par |-> server[i].par, path |-> Path[server[i].par]] ELSE None

Filtered(path) == \E f \in filters : IsPrefix(f, path)                   \* is_filter

Wanted(i) == Visible(i) /\ ~Filtered(Path[i])   \* what the user expects to find

RootRow == [par |-> None, path |-> <<>>, lpar |-> None, here |-> TRUE,
            ls |-> "synchronized", rs |-> "synchronized", ps |-> "synchronized"]
RowOf(i) == IF i = Root THEN RootRow ELSE row[i]
Known(i) == RowOf(i) # None
Here(i)  == Known(i) /\ RowOf(i).here            \* is it in the synchronised folder?
FullPath(r, i) == Append(r.path, i)

(* The documents of the synchronised folder that are in folder f, at any depth. *)
Inside(f) ==
    LET up[n \in 0..Cardinality(Items)] ==
            IF n = 0 THEN {f}
            ELSE up[n - 1] \cup {i \in Items : Here(i) /\ row[i].lpar \in up[n - 1]}
    IN  up[Cardinality(Items)] \ {f}

-------------------------------------------------------------------------------
(* The users of the server.                                                *)

Leaves(gone) == left' = left \cup gone

Acts(i, now, event, gone) ==
    /\ event \in Ops /\ ops > 0 /\ ops' = ops - 1
    /\ server' = [server EXCEPT ![i] = now]
    /\ log' = Append(log, [ref |-> i, event |-> event])
    /\ Leaves(gone)
    /\ UNCHANGED <<table, config, running, signals, pass, scrolls, prefs, faults, lost>>

UserCreates(i, f)  == server[i].life = "none" /\ Visible(f)
                      /\ Acts(i, [par |-> f, life |-> "live"], "created",
                              {j \in {i} : Range(Path[f]) \cap left # {}})
UserMoves(i, f)    == Visible(i) /\ Visible(f) /\ ~Under(f, i) /\ f # server[i].par
                      /\ Acts(i, [server[i] EXCEPT !.par = f], "moved",
                              {j \in Items : Under(j, i)})
UserTrashes(i)     == Visible(i) /\ Acts(i, [server[i] EXCEPT !.life = "trash"], "deleted",
                                         {j \in Items : Under(j, i)})
UserRestores(i)    == server[i].life = "trash" /\ Visible(server[i].par)
                      /\ Acts(i, [server[i] EXCEPT !.life = "live"], "restored", {})

-------------------------------------------------------------------------------
(* The database.                                                           *)

(* insert_remote_state under the parent p, whose path is recorded. *)
NewRow(p, path) ==
    [par |-> p, path |-> path, lpar |-> p, here |-> FALSE,
     ls |-> "unknown", rs |-> "created", ps |-> "remotely_created"]
WaitsForParent(p) == Known(p) /\ RowOf(p).ps = "remotely_created"

(* update_remote_state of the row of i by the holder of copy d, with what    *)
(* the server said and the path to record: nothing is written when it says   *)
(* nothing new.                                                              *)
Dirty(d, info, path) == d.par # info.par \/ d.path # path
Updated(i, d, info, path) ==
    IF row[i] = None \/ ~Dirty(d, info, path) THEN row[i]
    ELSE [row[i] EXCEPT !.par = info.par, !.path = path, !.ls = d.ls, !.rs = d.rs,
                        !.ps = Pair!PairState(d.ls, d.rs)]
Changed(d, info) == IF d.par # info.par THEN [d EXCEPT !.rs = "modified"] ELSE d

(* delete_remote_state of the rows of S, and of what is recorded under them. *)
RecordedUnder(i, S) ==
    row[i] # None /\ \E s \in {s \in S : row[s] # None} : IsPrefix(FullPath(row[s], s), row[i].path)
MarkedDeleted(S) ==
    [i \in Items |->
        IF i \in S THEN [row[i] EXCEPT !.rs = "deleted", !.ps = "remotely_deleted"]
        ELSE IF RecordedUnder(i, S)
        THEN [row[i] EXCEPT !.rs = "deleted", !.ps = "parent_remotely_deleted"]
        ELSE row[i]]

(* Those that are under S in the table and not on the server, or the reverse. *)
StaleUnder(S) == {j \in Items : row[j] # None /\ j \notin S
                                /\ (RecordedUnder(j, S) # \E s \in S : Under(j, s))}

(* Its recorded path is not below the one recorded for its parent. *)
Outdated(j) == Known(row[j].par) /\ row[j].path # FullPath(RowOf(row[j].par), row[j].par)

Queue(old, new) == queued' = queued \cup
    {i \in Items : new[i] # None /\ new[i] # old[i]
                   /\ new[i].ps \notin {"synchronized", "parent_remotely_deleted"}}

(* add_path_to_scan, delete_path_to_scan, add_filter, remove_filter. *)
WithPath(path) == {p \in toScan : ~IsPrefix(path, p)} \cup {path}

Lost(S, why) == S \X {why}

-------------------------------------------------------------------------------
(* The user chooses what to synchronise.                                   *)

(* Engine.add_filter *)
UserFilters(i) ==
    LET path == Path[i]
        pair == {j \in {i} : row[j] # None /\ FullPath(row[j], j) = path}
    IN  /\ prefs > 0 /\ Visible(i) /\ ~Filtered(path) /\ prefs' = prefs - 1
        /\ filters' = {f \in filters : ~IsPrefix(path, f)} \cup {path}
        /\ Leaves({j \in Items : IsPrefix(path, Path[j])})
        /\ toScan' = {p \in toScan : ~IsPrefix(path, p)}
        /\ row' = MarkedDeleted(pair) /\ queued' = queued \cup pair
        /\ lost' = lost \cup Lost({j \in {i} \ pair : row[j] # None}, "elsewhere")
                        \cup Lost(StaleUnder({i}), "stale")
        /\ UNCHANGED <<server, log, scanned, needFull, lastFull, seen, running, signals, pass,
                       scrolls, ops, faults>>

(* Engine.remove_filter *)
UserUnfilters(path) ==
    /\ prefs > 0 /\ prefs' = prefs - 1 /\ running /\ \E f \in filters : IsPrefix(path, f)
    /\ filters' = {f \in filters : ~IsPrefix(path, f)}
    /\ signals' = signals \cup {path}
    /\ lost' = lost \cup Lost({i \in Items : row[i] # None /\ IsPrefix(path, FullPath(row[i], i))},
                              "unfiltered")
    /\ UNCHANGED <<world, table, toScan, scanned, needFull, lastFull, seen, running, pass,
                   scrolls, ops, faults>>

(* scan_pair, the slot: run by _interact. *)
ScanPair(path) ==
    /\ running /\ path \in signals
    /\ signals' = signals \ {path}
    /\ toScan' = WithPath(path)
    /\ lost' = IF task.kind = "partial" /\ task.path = path
               THEN lost \cup Lost({Last(path)}, "rescan") ELSE lost
    /\ UNCHANGED <<world, table, filters, scanned, needFull, lastFull, seen, running, pass,
                   scrolls, bounds>>

-------------------------------------------------------------------------------
(* Where the remote watcher is.                                            *)

Nothing == [kind |-> "none", path |-> <<>>, full |-> FALSE]
Idle    == running /\ task = Nothing /\ stack = <<>>
Visit(i, r, force, moved) ==
    [op |-> "visit", ref |-> i, path |-> r.path, force |-> force, moved |-> moved,
     left |-> {}, copies |-> [j \in Items |-> None], post |-> {}]
Mark(i, path) == [Visit(i, RootRow, FALSE, FALSE) EXCEPT !.op = "mark", !.path = path]
Top  == Head(stack)
At(op) == running /\ stack # <<>> /\ Top.op = op
Pending == {changes[k].ref : k \in 1..Len(changes)}

(* What nobody will do any more when a pass ends before its time: the        *)
(* changes still to handle, whose log is already behind, and the scans that  *)
(* only they asked for.                                                      *)
Abandoned ==
    IF task.kind # "changes" THEN {}
    ELSE Lost(Pending \cup toDelete \cup {stack[k].ref : k \in 1..Len(stack)}, "abandoned")
EndPass == task' = Nothing /\ stack' = <<>> /\ changes' = <<>> /\ refreshed' = {} /\ toDelete' = {}

(* _get_changes: the bound of the log is recorded with the answer. *)
Summary == [k \in 1..(Len(log) - seen) |->
               LET c == log[Len(log) + 1 - k] IN [ref |-> c.ref, event |-> c.event,
                                                  info |-> Info(c.ref)]]

(* scan_remote: the changes are fetched and dropped, the tree is scanned.  A *)
(* folder that an interrupted scan has marked is not visited again.          *)
FullScanIf(missed, rest) ==
    /\ seen' = Len(log)
    /\ lost' = lost \cup missed
    /\ stack' = <<Visit(Root, RootRow, TRUE, FALSE)>> \o rest
Missed == IF scanned = {} THEN {}
          ELSE Lost({log[k].ref : k \in (seen + 1)..Len(log)}, "skipped")

(* _handle_changes, one branch each. *)
FirstScan ==
    /\ Idle /\ ~lastFull
    /\ task' = [kind |-> "first", path |-> <<>>, full |-> TRUE]
    /\ FullScanIf(Missed, <<>>)
    /\ UNCHANGED <<world, table, filters, toScan, scanned, needFull, lastFull, running,
                   signals, changes, refreshed, toDelete, scrolls, bounds>>

(* _scan_pair: what to visit for a path, if anything. *)
PairScans(path) ==
    LET i == Last(path)
        p == server[i].par
    IN  IF Filtered(path) \/ ~Visible(i) THEN [do |-> "nothing"]
        ELSE IF Known(i) /\ RowOf(i).path = Front(path) THEN [do |-> "visit"]
        ELSE LET above == {q \in Items \cup {Root} :
                             Known(q) /\ FullPath(RowOf(q), q) = Front(path)}
             IN  IF above = {} THEN [do |-> "nothing"]
                 ELSE IF Path[p] # Front(path) THEN [do |-> "scan_remote"]
                 ELSE IF row[i] # None THEN [do |-> "twice"]
                 ELSE [do |-> "insert", parent |-> p]

(* _partial_full_scan: of a path to scan, or of the one that was interrupted. *)
PartialScan(path) ==
    /\ Idle /\ lastFull
    /\ path \in IF needFull # None THEN {needFull} ELSE toScan
    /\ needFull' = path
    /\ LET what == IF path = <<Root>> THEN [do |-> "scan_remote"] ELSE PairScans(path)
           i    == Last(path)
       IN  /\ task' = [kind |-> "partial", path |-> path, full |-> what.do = "scan_remote"]
           /\ IF what.do = "scan_remote" THEN FullScanIf(Missed, <<>>)
              ELSE /\ stack' = CASE what.do = "visit"  -> <<Visit(i, RowOf(i), TRUE, FALSE)>>
                                 [] what.do = "insert" -> <<Visit(i, NewRow(what.parent, FullPath(RowOf(what.parent), what.parent)),
                                                                  TRUE, FALSE)>>
                                 [] OTHER -> <<>>
                   /\ lost' = IF what.do = "twice" THEN lost \cup Lost({i}, "twice") ELSE lost
                   /\ UNCHANGED seen
           /\ row' = IF what.do = "insert"
                     THEN [row EXCEPT ![i] = NewRow(what.parent, FullPath(RowOf(what.parent), what.parent))] ELSE row
           /\ queued' = IF what.do = "insert" /\ ~WaitsForParent(what.parent)
                        THEN queued \cup {i} ELSE queued
    /\ UNCHANGED <<world, filters, toScan, scanned, lastFull, running, signals, changes,
                   refreshed, toDelete, scrolls, bounds>>

(* The scan is over: what asked for it is forgotten.                         *)
EndScanIf(done) ==
    /\ running /\ stack = <<>> /\ task.kind \in {"first", "partial"}
    /\ lastFull' = (lastFull \/ task.full)
    /\ scanned' = {}
    /\ toScan' = IF task.kind = "partial" THEN toScan \ done ELSE toScan
    /\ needFull' = IF task.kind = "partial" THEN None ELSE needFull
    /\ task' = Nothing
    /\ UNCHANGED <<world, table, filters, seen, running, signals, stack, changes, refreshed,
                   toDelete, scrolls, bounds, lost>>

EndScanMutant == EndScanIf({})                   \* mutant: the path remains to scan
EndScan == EndScanIf({task.path})

(* _update_remote_states: the changes since the last bound. *)
GetChanges ==
    /\ Idle /\ lastFull /\ needFull = None /\ toScan = {} /\ seen < Len(log)
    /\ seen' = Len(log)
    /\ task' = [kind |-> "changes", path |-> <<>>, full |-> FALSE]
    /\ changes' = Summary
    /\ UNCHANGED <<world, table, filters, toScan, scanned, needFull, lastFull, running,
                   signals, stack, refreshed, toDelete, scrolls, bounds, lost>>

(* hasTooManyChanges *)
TooManyChanges ==
    /\ Idle /\ lastFull /\ needFull = None /\ toScan = {} /\ Len(log) - seen > 1
    /\ seen' = Len(log)
    /\ toScan' = WithPath(<<Root>>) /\ needFull' = <<Root>>
    /\ UNCHANGED <<world, table, filters, scanned, lastFull, running, signals, pass, scrolls,
                   bounds, lost>>

-------------------------------------------------------------------------------
(* _do_scan_remote, one folder at a time.                                  *)

Skips(f) == f.ref \notin Folders \cup {Root} \/ Append(f.path, f.ref) \in scanned

(* The children of a document on the server that are not filtered. *)
ChildrenOf(i) == {j \in Items : Visible(j) /\ server[j].par = i /\ ~Filtered(Path[j])}

(* The frames of set S of folders, in some order, below a parent at path.    *)
Visits(S, r(_), force) ==
    LET order == SetToSeq(S)
    IN  [k \in 1..Len(order) |-> Visit(order[k], r(order[k]), force, FALSE)]

(* _scan_remote_recursive: the children that are recorded are aligned, the   *)
(* new ones inserted, those that are no longer there marked; then the folders*)
(* are visited, then the path is marked as scanned.  A document whose row is *)
(* still under another folder is left alone (find_remote_child_match).       *)
ScanChildrenIf(marks) ==
    LET f     == Top
        path  == Append(f.path, f.ref)
        old   == {j \in Items : row[j] # None /\ row[j].par = f.ref}
        now   == ChildrenOf(f.ref)
        added == {j \in now \ old : row[j] = None}
        table2 == [j \in Items |-> IF j \in now \cap old
                                   THEN Updated(j, row[j], Info(j), path)
                                   ELSE IF j \in added THEN NewRow(f.ref, path) ELSE row[j]]
    IN  /\ row' = [j \in Items |->
                     IF j \in old \ now THEN [row[j] EXCEPT !.rs = "deleted", !.ps = "remotely_deleted"]
                     ELSE IF RecordedUnder(j, old \ now)
                     THEN [table2[j] EXCEPT !.rs = "deleted", !.ps = "parent_remotely_deleted"]
                     ELSE table2[j]]
        /\ queued' = queued \cup (old \ now) \cup
             {j \in now \ (old \ added) : table2[j] # row[j] /\ table2[j].ps # "synchronized"
                                          /\ ~WaitsForParent(f.ref)}
        /\ stack' = Visits({j \in Folders : j \in added \/ (f.force /\ j \in now \cap old)},
                           LAMBDA j : IF j \in added THEN table2[j] ELSE row[j], f.force)
                    \o marks \o Tail(stack)
        /\ lost' = lost \cup Lost((now \ old) \ added, "moved")
                        \cup Lost({j \in now \cap old : row[j].rs = "deleted"}, "restored")
                        \cup Lost(StaleUnder(old \ now), "stale")

VisitFolder ==
    /\ At("visit")
    /\ IF Skips(Top) THEN stack' = Tail(stack) /\ UNCHANGED <<table, lost>>
       ELSE IF scrolls /\ Top.ref # Root
       THEN LET f    == Top
                path == Append(f.path, f.ref)
                old  == {j \in Items : row[j] # None /\
                           IF f.moved THEN f.ref \in Range(row[j].path)
                                      ELSE IsPrefix(path, row[j].path)}
            IN  /\ Visible(f.ref)
                /\ stack' = <<[f EXCEPT !.op = "scroll",
                                        !.left = {j \in Items : j # f.ref /\ Visible(j) /\ Under(j, f.ref)},
                                        !.copies = [j \in Items |-> IF j \in old THEN row[j] ELSE None]]>>
                            \o Tail(stack)
                /\ UNCHANGED <<table, lost>>
       ELSE Visible(Top.ref) /\ ScanChildrenIf(<<Mark(Top.ref, Append(Top.path, Top.ref))>>)
    /\ UNCHANGED <<world, config, running, signals, task, changes, refreshed, toDelete,
                   scrolls, bounds>>

(* add_path_scanned *)
MarkScanned ==
    /\ At("mark")
    /\ scanned' = scanned \cup {Top.path}
    /\ stack' = Tail(stack)
    /\ UNCHANGED <<world, table, filters, toScan, needFull, lastFull, seen, running, signals,
                   task, changes, refreshed, toDelete, scrolls, bounds, lost>>

(* _find_remote_child_match_or_create of document i under the parent p. *)
FindOrCreate(i, p) ==
    IF row[i] # None THEN lost' = lost \cup Lost({i}, "moved") /\ UNCHANGED table
    ELSE /\ row' = [row EXCEPT ![i] = NewRow(p, FullPath(RowOf(p), p))]
         /\ queued' = IF WaitsForParent(p) THEN queued ELSE queued \cup {i}
         /\ UNCHANGED lost

(* _scan_remote_scroll: one descendant at a time (batches of one), in the    *)
(* order of the server.  The copies of the rows were read before.            *)
ScrollOneIf(i, named(_)) ==
    /\ At("scroll") /\ i \in Top.left
    /\ LET f == [Top EXCEPT !.left = @ \ {i}]
           d == Top.copies[i]
           next(g) == stack' = <<g>> \o Tail(stack)
           without == [f EXCEPT !.copies = named(@)]
       IN  IF ~Visible(i) THEN next(f) /\ UNCHANGED <<table, lost>>
           ELSE IF Filtered(Path[i])
           THEN /\ next(without) /\ UNCHANGED table
                /\ lost' = lost \cup Lost(IF row[i] # None /\ ~Filtered(FullPath(row[i], i))
                                         THEN {i} ELSE {}, "elsewhere")
           ELSE IF d # None
           THEN /\ next(without)
                /\ row' = [row EXCEPT ![i] = Updated(i, Changed(d, Info(i)), Info(i), d.path)]
                /\ Queue(row, row')
                /\ lost' = lost \cup
                     IF row[i] = None \/ (row[i] # d /\ Dirty(d, Info(i), d.path))
                     THEN Lost({i}, "undone")
                     ELSE IF row[i].rs = "deleted" THEN Lost({i}, "restored") ELSE {}
           ELSE IF ~Known(server[i].par)
           THEN next([f EXCEPT !.post = @ \cup {[ref |-> i, info |-> Info(i)]}]) /\ UNCHANGED <<table, lost>>
           ELSE next(f) /\ FindOrCreate(i, server[i].par)
    /\ UNCHANGED <<world, config, running, signals, task, changes, refreshed, toDelete,
                   scrolls, bounds>>

ScrollOneMutant(i) == ScrollOneIf(i, LAMBDA copies : copies)  \* mutant: i is not taken out
ScrollOne(i) == ScrollOneIf(i, LAMBDA copies : [copies EXCEPT ![i] = None])

(* The descendants whose parent came later, the shortest path first; then    *)
(* what the server has not named is marked deleted.                          *)
ScrollEnd ==
    /\ At("scroll") /\ Top.left = {}
    /\ IF Top.post # {}
       THEN \E p \in Top.post :
              /\ \A q \in Top.post : Len(p.info.path) <= Len(q.info.path)
              /\ stack' = <<[Top EXCEPT !.post = @ \ {p}]>> \o Tail(stack)
              /\ IF Known(p.info.par) THEN FindOrCreate(p.ref, p.info.par) ELSE UNCHANGED <<table, lost>>
       ELSE LET gone == {j \in Items : Top.copies[j] # None /\ row[j] # None}
            IN  /\ row' = MarkedDeleted(gone)
                /\ queued' = queued \cup gone
                /\ stack' = Tail(stack)
                /\ lost' = lost \cup Lost(StaleUnder(gone) \cup {j \in gone : Outdated(j)}, "stale")
                                \cup Lost({j \in gone : row[j].path # Top.copies[j].path}, "undone")
    /\ UNCHANGED <<world, config, running, signals, task, changes, refreshed, toDelete,
                   scrolls, bounds>>

-------------------------------------------------------------------------------
(* _update_remote_states: one change, the most recent first.               *)

Handling == running /\ task.kind = "changes" /\ stack = <<>> /\ changes # <<>>

HandleChange ==
    /\ Handling
    /\ LET c == Head(changes)
           i == c.ref
           d == IF row[i].rs = "created" THEN row[i] ELSE Changed(row[i], c.info)
       IN  /\ changes' = Tail(changes)
           /\ IF i \in refreshed THEN UNCHANGED <<table, stack, toScan, refreshed, toDelete, lost>>
              ELSE IF row[i] # None /\ c.event = "deleted" /\ c.info # None
              THEN UNCHANGED <<table, stack, toScan, refreshed, toDelete, lost>>
              ELSE IF row[i] # None /\ c.info = None
              THEN /\ refreshed' = refreshed \cup {i}
                   /\ toDelete' = IF c.event = "deleted" THEN toDelete \cup {i} ELSE toDelete
                   /\ UNCHANGED <<table, stack, toScan, lost>>
              ELSE IF row[i] # None
              THEN /\ refreshed' = refreshed \cup {i}
                   /\ row' = [row EXCEPT ![i] = Updated(i, d, c.info, c.info.path)]
                   /\ Queue(row, row')
                   /\ stack' = <<Visit(i, row[i], FALSE, c.event = "moved")>>
                   /\ lost' = IF row[i].rs = "deleted" THEN lost \cup Lost({i}, "restored") ELSE lost
                   /\ UNCHANGED <<toScan, toDelete>>
              ELSE IF c.info # None /\ Known(c.info.par)
              THEN /\ refreshed' = refreshed \cup {i}
                   /\ FindOrCreate(i, c.info.par)
                   /\ toScan' = IF i \in Folders
                                THEN WithPath(FullPath(row'[i], i))
                                ELSE toScan
                   /\ UNCHANGED <<stack, toDelete>>
              ELSE UNCHANGED <<table, stack, toScan, refreshed, toDelete, lost>>
    /\ UNCHANGED <<world, filters, scanned, needFull, lastFull, seen, running, signals, task,
                   scrolls, bounds>>

(* The delete queue, parents first: each document is asked for again.        *)
LocallyAbove(i) ==
    LET up[n \in 0..Cardinality(Items)] ==
            IF n = 0 THEN {i}
            ELSE up[n - 1] \cup {row[j].lpar : j \in {k \in up[n - 1] \cap Items : row[k] # None}}
    IN  up[Cardinality(Items)] \ {i}
VerifyDeletion ==
    /\ running /\ task.kind = "changes" /\ stack = <<>> /\ changes = <<>>
    /\ \E i \in toDelete :
         /\ LocallyAbove(i) \cap toDelete = {}
         /\ IF Visible(i) \/ row[i] = None THEN toDelete' = toDelete \ {i} /\ UNCHANGED <<table, lost>>
            ELSE /\ toDelete' = {j \in toDelete \ {i} : i \notin LocallyAbove(j)}
                 /\ row' = MarkedDeleted({i}) /\ queued' = queued \cup {i}
                 /\ lost' = lost \cup Lost(StaleUnder({i}), "stale")
    /\ UNCHANGED <<world, config, running, signals, task, stack, changes, refreshed, scrolls,
                   bounds>>

EndChanges ==
    /\ running /\ task.kind = "changes" /\ stack = <<>> /\ changes = <<>> /\ toDelete = {}
    /\ EndPass
    /\ UNCHANGED <<world, table, config, running, signals, scrolls, bounds, lost>>

-------------------------------------------------------------------------------
(* What ends a pass before its time.                                       *)

Ends == EndPass /\ lost' = lost \cup Abandoned
        /\ UNCHANGED <<world, table, config, scrolls, ops, prefs>>

NetworkError ==
    running /\ task # Nothing /\ faults > 0 /\ faults' = faults - 1
    /\ Ends /\ UNCHANGED <<running, signals>>

(* The folder to list is no longer on the server. *)
FolderGone ==
    At("visit") /\ ~Skips(Top) /\ ~Visible(Top.ref)
    /\ Ends /\ UNCHANGED <<running, signals, faults>>

Stop ==
    /\ running /\ faults > 0 /\ faults' = faults - 1
    /\ running' = FALSE
    /\ EndPass /\ signals' = {} /\ queued' = {}
    /\ lost' = lost \cup Abandoned \cup Lost({Last(p) : p \in signals}, "signal")
    /\ UNCHANGED <<world, row, config, scrolls, ops, prefs>>

(* register_queue_manager: the pairs to synchronise, a folder before what is *)
(* in it (queue_children does the rest).                                     *)
ToSync(i) == row[i] # None /\ row[i].ps # "synchronized"
Start ==
    /\ ~running /\ running' = TRUE
    /\ LET waits == {i \in Items : ToSync(i) /\ \E f \in Folders : ToSync(f) /\ row[i].lpar = f}
       IN  /\ queued' = {i \in Items : ToSync(i)} \ waits
           /\ lost' = lost \cup Lost({i \in waits : row[i].lpar # row[i].par}, "unqueued")
    /\ UNCHANGED <<world, row, config, signals, pass, scrolls, bounds>>

-------------------------------------------------------------------------------
(* The processor: one handler.                                             *)

ChildrenToQueue(f) == IF f \in Folders
                      THEN {j \in Items : ToSync(j) /\ (row[j].par = f \/ row[j].lpar = f)} ELSE {}
Synchronised(r) == [r EXCEPT !.ls = "synchronized", !.rs = "synchronized", !.ps = "synchronized"]

(* remove_state: the row, and those of what is in the folder on the disk and *)
(* recorded under it.                                                        *)
Removed(i) ==
    LET in(j) == RecordedUnder(j, {i}) /\ i \in LocallyAbove(j)
    IN  [j \in Items |-> IF j = i \/ in(j) THEN None ELSE row[j]]

Leave(i) == queued' = queued \ {i}
If(p, i) == IF p THEN {i} ELSE {}
Gone(i) == {j \in Items : row[j] # None /\ Removed(i)[j] = None}
WithIt(i) == Lost(StaleUnder({i}), "stale")
             \cup Lost({j \in Gone(i) \ {i} : Wanted(j) /\ row[j].rs # "deleted"}, "doomed")
RemoveRow(i, why) ==
    /\ row' = Removed(i) /\ Leave(i)
    /\ lost' = lost \cup Lost(If(Wanted(i), i), why) \cup WithIt(i)
RemoveFromDisk(i, missed) ==
    /\ row' = [j \in Items |-> IF j \in Gone(i) THEN None
                               ELSE IF j \in Inside(i) THEN [row[j] EXCEPT !.here = FALSE]
                               ELSE row[j]]
    /\ Leave(i)
    /\ lost' = lost \cup WithIt(i) \cup Lost(Inside(i) \ Gone(i), "stale") \cup missed

(* _synchronize_remotely_created *)
CreateHere(i, filtered) ==
    LET r == row[i]
    IN  IF filtered
        THEN RemoveRow(i, "elsewhere")
        ELSE IF r.here
        THEN /\ row' = [row EXCEPT ![i].ps = "conflicted"] /\ Leave(i)
             /\ lost' = lost \cup Lost({i}, "conflict")
        ELSE IF ~Here(r.par) \/ (i \notin Folders /\ ~Visible(i))
        THEN /\ UNCHANGED row /\ Leave(i)
             /\ lost' = lost \cup Lost(If(Here(r.par), i), "ghost")
        ELSE /\ row' = [row EXCEPT ![i] = [Synchronised(r) EXCEPT !.here = TRUE, !.lpar = r.par]]
             /\ queued' = (queued \ {i}) \cup ChildrenToQueue(i)
             /\ UNCHANGED lost

(* _synchronize_remotely_deleted *)
DeleteHere(i, missed) ==
    IF row[i].here THEN RemoveFromDisk(i, missed)
    ELSE UNCHANGED row /\ Leave(i) /\ lost' = lost \cup missed

(* update_remote_parent_path, with the row as it has been read: the path is  *)
(* already the new one, and what is under the folder keeps the old one.      *)
MovedRows(i, r, path) ==
    LET from == FullPath(r, i)
        to   == Append(path, i)
    IN  [j \in Items |->
           IF j = i THEN [Synchronised(r) EXCEPT !.path = path, !.lpar = r.par]
           ELSE IF i \in Folders /\ row[j] # None /\ IsPrefix(from, row[j].path)
           THEN [row[j] EXCEPT !.path = to \o SubSeq(@, Len(from) + 1, Len(@))]
           ELSE row[j]]

(* _synchronize_remotely_modified *)
ModifyHere(i) ==
    LET r    == row[i]
        move == Known(r.lpar) /\ r.lpar # r.par
    IN  IF Filtered(r.path) THEN DeleteHere(i, Lost(If(Wanted(i), i), "elsewhere"))
        ELSE IF move /\ ~r.here
        THEN UNCHANGED row /\ Leave(i) /\ lost' = lost \cup Lost({i}, "unborn")
        ELSE /\ Known(r.par) /\ (move => Here(r.par))
             /\ row' = IF move THEN MovedRows(i, r, FullPath(RowOf(r.par), r.par))
                       ELSE [row EXCEPT ![i] = Synchronised(r)]
             /\ queued' = (queued \ {i}) \cup ChildrenToQueue(i)
             /\ lost' = lost \cup Lost(If(~r.here, i), "unborn")
                             \cup Lost(If(Filtered(FullPath(r, i)), i), "elsewhere")

(* _handle_doc_pair_sync: the folder of the pair must be there.              *)
ProcessIf(i, filtered) ==
    /\ running /\ i \in queued
    /\ IF row[i] = None \/ row[i].ps \in {"synchronized", "parent_remotely_deleted", "conflicted"}
       THEN Leave(i) /\ UNCHANGED <<row, lost>>
       ELSE IF ~Here(row[i].lpar) /\ (~Known(row[i].par) \/ row[i].lpar = row[i].par)
       THEN RemoveRow(i, "orphan")
       ELSE \/ row[i].ps = "remotely_created" /\ Known(row[i].par) /\ CreateHere(i, filtered)
            \/ row[i].ps = "remotely_modified" /\ ModifyHere(i)
            \/ row[i].ps = "remotely_deleted" /\ DeleteHere(i, {})
            \/ row[i].ps = "unknown_deleted" /\ RemoveRow(i, "restored")
    /\ UNCHANGED <<world, config, running, signals, pass, scrolls, bounds>>
ProcessMutant(i) == ProcessIf(i, FALSE)                       \* mutant: the filters are not asked
Process(i) == ProcessIf(i, row[i] # None /\ Filtered(FullPath(row[i], i)))

-------------------------------------------------------------------------------
Init ==
    /\ \E start \in Starts :
          /\ server = [i \in Items |-> IF start.home[i] = None THEN [par |-> Root, life |-> "none"]
                                       ELSE [par |-> start.home[i], life |-> "live"]]
          /\ ops = start.ops /\ prefs = start.prefs /\ faults = start.faults
    /\ log = <<>> /\ row = [i \in Items |-> None] /\ queued = {}
    /\ filters = {} /\ toScan = {} /\ scanned = {} /\ needFull = None
    /\ lastFull = FALSE /\ seen = 0
    /\ running = TRUE /\ signals = {}
    /\ task = Nothing /\ stack = <<>> /\ changes = <<>> /\ refreshed = {} /\ toDelete = {}
    /\ scrolls \in BOOLEAN
    /\ lost = {} /\ left = {}

Users == \E i \in Items :
    \/ \E f \in Folders \cup {Root} : UserCreates(i, f) \/ UserMoves(i, f)
    \/ UserTrashes(i) \/ UserRestores(i)
    \/ UserFilters(i) \/ UserUnfilters(Path[i])

Watcher ==
    \/ \E path \in signals : ScanPair(path)
    \/ FirstScan \/ EndScan \/ GetChanges \/ TooManyChanges
    \/ \E path \in toScan \cup {needFull} : PartialScan(path)
    \/ VisitFolder \/ MarkScanned \/ (At("scroll") /\ \E i \in Top.left : ScrollOne(i)) \/ ScrollEnd
    \/ HandleChange \/ VerifyDeletion \/ EndChanges \/ FolderGone

Next == Users \/ Watcher \/ NetworkError \/ Stop \/ Start \/ \E i \in Items : Process(i)

(* The thread of the watcher, those of the processors and the user who starts*)
(* the application again are scheduled for ever.                             *)
Spec == Init /\ [][Next]_vars /\ WF_vars(Watcher) /\ WF_vars(Start)
             /\ \A i \in Items : WF_vars(Process(i))

-------------------------------------------------------------------------------
(* Properties.                                                             *)

(* What goes wrong, by the reason why (the variable lost): documents whose    *)
(* news the code drops or mistakes; the properties are about the others.     *)
(*   scans                                                                   *)
(*    rescan     scan_pair asks for a folder while it is scanned: the end of   *)
(*               that scan removes the new request too                       *)
(*    signal     scanPair emitted, the application stops before its slot      *)
(*    unfiltered a folder shown again while its row is still being deleted    *)
(*    twice      shown at a new path, a second row for the same document      *)
(*    stale      rows are marked deleted for a path that others have left     *)
(*    undone     a row changed since its folder was read is marked deleted     *)
(*    skipped    the full scan drops the changes and does not visit again     *)
(*               the folders an interrupted one has marked                   *)
(*   changes                                                                 *)
(*    abandoned  a pass ends before its time: the changes still to handle     *)
(*               are behind the bound of the log that was written            *)
(*    moved      a document found under a new folder while a row has it        *)
(*    elsewhere  a document moved into or out of what is filtered             *)
(*    restored   a document restored whose row is still marked deleted        *)
(*   rows and processor                                                      *)
(*    unqueued   pairs that waited for their folder when the client stopped   *)
(*    orphan     the folder of the pair is gone: the row is removed           *)
(*    conflict   remotely created, and a file of that reference is there      *)
(*    ghost, unborn   synchronised or moved, though never written on disk     *)
(*    doomed     in a folder that is deleted with what it holds               *)

Watched == /\ Idle /\ lastFull /\ seen = Len(log)
           /\ toScan = {} /\ needFull = None /\ signals = {}
Quiet == Watched /\ queued = {}
Forgotten == {l[1] : l \in lost}
Followed(i) == ({i} \cup Range(Path[i]) \cup LocallyAbove(i)) \cap Forgotten = {}

(* When the watcher and the processors have nothing left to do, the          *)
(* synchronised folder is the part of the server's tree that the filters     *)
(* let through, each document in its folder, whatever has been created,      *)
(* moved, trashed, restored, filtered, interrupted and resumed in between.   *)
Mirror == Quiet => \A i \in Items : Followed(i) =>
             /\ Here(i) <=> Wanted(i)
             /\ Here(i) => row[i].lpar = server[i].par

(* A document that nobody has moved, trashed or filtered, nor what is above  *)
(* it, does not leave the synchronised folder.                               *)
StaysHere == [][\A i \in Items : (Here(i) /\ i \notin left) => Here(i)']_vars

(* The watcher comes to the end of every scan and of every list of changes,  *)
(* and the processors to the end of what it has found, except a document     *)
(* moved into a folder whose news are lost: it is tried again and again.     *)
Settles == <>[](Watched /\ \A i \in queued : row[i] # None /\ row[i].par \in Forgotten)
=============================================================================
