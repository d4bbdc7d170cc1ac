----------------------------- MODULE LocalWatcher -----------------------------
(***************************************************************************)
(* How the client learns of what the user does in the synchronised folder: *)
(* files and folders are created, moved, copied, replaced and removed; the *)
(* local watcher handles the events of the file system in their order,     *)
(* each against the disk as it is by then, and scans the disk when the     *)
(* application starts and when a folder appears; a processor makes the     *)
(* server follow the rows.                                                 *)
(*                                                                         *)
(* A file carries the reference of its document in an extended attribute,  *)
(* which follows it when it is moved and is copied with it.  On GNU/Linux  *)
(* there is no creation time to tell a copy from its original; with        *)
(* hasBirth there is.  A handler of the processor is one step, nobody else *)
(* writes on the server and everything is writable: the races of the       *)
(* processor and the contents of files are in PairSync, the server's       *)
(* changes in RemoteWatcher.                                               *)
(***************************************************************************)
EXTENDS Naturals, Sequences, FiniteSets, SequencesExt, FiniteSetsExt, TLC

CONSTANTS Nodes,          \* what the disk may hold: 1..n, in the order of creation
          Docs,           \* what the server may hold: 1..n, in the order of creation
          Ids,            \* the rows
          FileNames, FolderNames,
          None,
          Starts,         \* what the disk first holds (synchronised), whether files have a
                          \* creation time (hasBirth), ops of the user, stops
          UserDoes        \* "create", "folder", "write", "move", "copy", "delete"

VARIABLES
    disk,       \* [in, name, ref, data, folder] of each node
    born,       \* how many nodes there have been
    server,     \* [par, name, data, live] of each document
    row,        \* the States table
    queued,     \* the pairs in the queue manager
    events,     \* watchdog_queue
    running,
    hasBirth,   \* do files have a creation time?
    stack,      \* the folders that remain to scan, with whether to go down
    doomed,     \* _delete_files: the pair to delete for each reference
    spared,     \* _protected_files
    ops, stops

VARIABLES
    lost,       \* history: references whose news nobody will act on, and why
    removed     \* history: references the user has removed a file of

table == <<row, queued>>
scan  == <<stack, doomed, spared>>
bounds == <<ops, stops, hasBirth>>
vars == <<disk, born, server, table, events, running, scan, bounds, lost, removed>>

Root == 0     \* the synchronised folder, its document, its row

Pair == INSTANCE PairStates WITH Contents <- {}, Size <- [c \in {} |-> 0], Unaccessible <- None

-------------------------------------------------------------------------------
(* The disk.  A path is the sequence of the names from the root.           *)

PathIn(fs, n) ==
    LET path[k \in Nodes \cup {Root}] ==
            IF k = Root THEN <<>> ELSE Append(path[fs[k].in], fs[k].name)
    IN  path[n]
On(fs) == {n \in Nodes : fs[n] # None}
NodeAt(fs, p) ==
    IF p = <<>> THEN Root
    ELSE LET there == {n \in On(fs) : PathIn(fs, n) = p}
         IN  IF there = {} THEN None ELSE CHOOSE n \in there : TRUE
Exists(fs, p) == NodeAt(fs, p) # None
RefAt(fs, p) ==                                          \* get_remote_id
    LET n == NodeAt(fs, p) IN IF n = None THEN None ELSE IF n = Root THEN Root ELSE fs[n].ref
IsIn(fs, n, f) == IsPrefix(PathIn(fs, f), PathIn(fs, n)) /\ n # f
Below(fs, f) == {n \in On(fs) : IsIn(fs, n, f)}
Time(fs, n) == <<n, fs[n].data>>                          \* the time of the last change
IsFolder(fs, n) == n \in {Root} \cup {f \in On(fs) : fs[f].folder}

-------------------------------------------------------------------------------
(* The rows.  Every write of the database is a function from a work record *)
(* [disk, server, row, queued, doomed, spared, lost] to the next one.      *)

RootRow == [path |-> <<>>, ls |-> "synchronized", rs |-> "synchronized", ps |-> "synchronized",
            ref |-> Root, rpar |-> None, rname |-> None, rpath |-> <<>>,
            digest |-> None, seen |-> None, folder |-> TRUE]
Row(w, i) == IF i = Root THEN RootRow ELSE w.row[i]
Rows(w) == {i \in Ids : w.row[i] # None} \cup {Root}
First(S) == IF S = {} THEN None ELSE Min(S)

RowAt(w, p)  == First({i \in Rows(w) : Row(w, i).path = p})           \* get_state_from_local
RowOf(w, ref) == IF ref = None THEN None                              \* get_normal_state_from_remote
                 ELSE First({i \in Rows(w) : Row(w, i).ref = ref})

Push(w, i, ps) == IF ps \in {"synchronized", "unsynchronized", "conflicted"} THEN w
                  ELSE [w EXCEPT !.queued = @ \cup {i}]
(* Nobody will act on the news of these documents, or of what is at node n.  *)
Miss(w, refs, why) == [w EXCEPT !.lost = @ \cup {<<"document", d, why>> : d \in refs \ {None, Root}}]
MissAt(w, n, why) == [Miss(w, {w.disk[n].ref}, why) EXCEPT !.lost = @ \cup {<<"node", n, why>>}]

(* insert_local_state of node n *)
Insert(w, n) ==
    LET i == Min({j \in Ids : w.row[j] = None})
        p == PathIn(w.disk, n)
        above == RowAt(w, Front(p))
        w2 == [w EXCEPT !.row[i] =
                 [path |-> p, ls |-> "created", rs |-> "unknown", ps |-> "locally_created",
                  ref |-> None, rpar |-> None, rname |-> None, rpath |-> None,
                  digest |-> w.disk[n].data, seen |-> Time(w.disk, n), folder |-> w.disk[n].folder]]
    IN  IF above # None /\ Row(w, above).ps # "locally_created"
        THEN Push(w2, i, "locally_created") ELSE w2

(* update_local_state of row i by the holder of copy r, found at node n *)
Update(w, i, r, n) ==
    LET ps == Pair!PairState(r.ls, r.rs)
        w2 == [w EXCEPT !.row[i] = [r EXCEPT !.path = PathIn(w.disk, n), !.ps = ps, !.seen = Time(w.disk, n)]]
        above == RowAt(w2, Front(PathIn(w.disk, n)))
        w3 == IF ps = "conflicted" THEN MissAt(Miss(w2, {r.ref}, "conflict"), n, "conflict") ELSE w2
    IN  IF above # None /\ Row(w2, above).ls # "created" THEN Push(w3, i, ps) ELSE w3

(* _get_recursive_condition: what is under the row's path, and under its     *)
(* document as the rows record it.                                           *)
Under(w, i) ==
    LET r == w.row[i]
    IN  {j \in Ids \ {i} : /\ r.folder /\ w.row[j] # None /\ IsStrictPrefix(r.path, w.row[j].path)
                           /\ r.ref # None => (w.row[j].rpath # None
                                               /\ IsPrefix(Append(r.rpath, r.ref), w.row[j].rpath))}
Refs(w, S) == {w.row[j].ref : j \in S} \ {None}

RemoveState(w, i) == [w EXCEPT !.row = [j \in Ids |-> IF j \in Under(w, i) \cup {i} THEN None ELSE w.row[j]]]

DeleteLocal(w, i) ==
    LET w2 == [w EXCEPT !.row = [j \in Ids |-> IF j \in Under(w, i) \cup {i}
                                 THEN [w.row[j] EXCEPT !.ls = "deleted", !.ps = "locally_deleted"]
                                 ELSE w.row[j]]]
    IN  Push(w2, i, "locally_deleted")

(* Engine.delete_doc, when the user has chosen to delete on the server *)
DeleteDoc(w, p) ==
    LET i == RowAt(w, p)
    IN  IF i \in {None, Root} THEN w
        ELSE IF w.row[i].rs = "unknown" THEN RemoveState(Miss(w, {w.row[i].ref}, "kept"), i)
        ELSE DeleteLocal(w, i)

(* The document of a row is elsewhere on the server, as far as is known.     *)
Displaced(w, r) == <<r.rpar, r.rname>> # <<RefAt(w.disk, Front(r.path)), Last(r.path)>>

SetRef(w, n, ref) == [w EXCEPT !.disk[n].ref = ref]

Work == [disk |-> disk, server |-> server, row |-> row, queued |-> queued,
         doomed |-> doomed, spared |-> spared, lost |-> lost]
Done(w) == /\ disk' = w.disk /\ server' = w.server /\ row' = w.row /\ queued' = w.queued
           /\ doomed' = w.doomed /\ spared' = w.spared /\ lost' = w.lost

-------------------------------------------------------------------------------
(* The user, and the events of the file system that follow.                *)

Event(type, p, to) == [type |-> type, path |-> p, to |-> to]
(* Those of S, what contains before what is contained. *)
Ordered(fs, S) == SetToSortSeq(S, LAMBDA a, b : \/ Len(PathIn(fs, a)) < Len(PathIn(fs, b))
                                               \/ (Len(PathIn(fs, a)) = Len(PathIn(fs, b)) /\ a < b))
Emit(es) == events' = IF running THEN events \o es ELSE events
NamesFor(folder) == IF folder THEN FolderNames ELSE FileNames
(* A file is created, then written. *)
Appears(p, folder) == IF folder THEN <<Event("created", p, None)>>
                      ELSE <<Event("created", p, None), Event("modified", p, None)>>
Free(dir, name) == ~\E m \in On(disk) : disk[m].in = dir /\ disk[m].name = name

User(what) == /\ what \in UserDoes /\ ops > 0 /\ ops' = ops - 1
              /\ UNCHANGED <<server, table, running, hasBirth, scan, stops, lost>>

UserCreates(dir, name, folder) ==
    /\ User(IF folder THEN "folder" ELSE "create")
    /\ born + 1 \in Nodes /\ born' = born + 1 /\ Free(dir, name) /\ IsFolder(disk, dir)
    /\ disk' = [disk EXCEPT ![born + 1] = [in |-> dir, name |-> name, ref |-> None,
                                           data |-> born + 1, folder |-> folder]]
    /\ Emit(Appears(Append(PathIn(disk, dir), name), folder))
    /\ UNCHANGED removed

UserWrites(n) ==
    /\ User("write") /\ ~disk[n].folder
    /\ disk' = [disk EXCEPT ![n].data = Max(Nodes) + ops]
    /\ Emit(<<Event("modified", PathIn(disk, n), None)>>)
    /\ UNCHANGED <<born, removed>>

(* A file may take the place of another one. *)
UserMoves(n, dir, name) ==
    LET to    == Append(PathIn(disk, dir), name)
        there == {m \in On(disk) : disk[m].in = dir /\ disk[m].name = name}
        old   == PathIn(disk, n)
        moved(m) == to \o SubSeq(PathIn(disk, m), Len(old) + 1, Len(PathIn(disk, m)))
        inner == Ordered(disk, Below(disk, n))
    IN  /\ User("move") /\ IsFolder(disk, dir) /\ dir \notin {n} \cup Below(disk, n)
        /\ n \notin there /\ \A m \in there : ~disk[m].folder /\ ~disk[n].folder
        /\ disk' = [m \in Nodes |-> IF m = n THEN [disk[n] EXCEPT !.in = dir, !.name = name]
                                    ELSE IF m \in there THEN None ELSE disk[m]]
        /\ Emit(<<Event("moved", old, to)>> \o
                [k \in 1..Len(inner) |-> Event("moved", PathIn(disk, inner[k]), moved(inner[k]))])
        /\ removed' = removed \cup {disk[m].ref : m \in there}
        /\ UNCHANGED born

UserCopies(n, dir, name) ==
    /\ User("copy") /\ ~disk[n].folder /\ IsFolder(disk, dir) /\ Free(dir, name)
    /\ born + 1 \in Nodes /\ born' = born + 1
    /\ disk' = [disk EXCEPT ![born + 1] = [disk[n] EXCEPT !.in = dir, !.name = name]]
    /\ Emit(Appears(Append(PathIn(disk, dir), name), FALSE))
    /\ UNCHANGED removed

UserDeletes(n) ==
    LET all == Reverse(Ordered(disk, Below(disk, n) \cup {n}))
    IN  /\ User("delete")
        /\ disk' = [m \in Nodes |-> IF m \in Range(all) THEN None ELSE disk[m]]
        /\ Emit([k \in 1..Len(all) |-> Event("deleted", PathIn(disk, all[k]), None)])
        /\ removed' = removed \cup {disk[m].ref : m \in Range(all)}
        /\ UNCHANGED born

-------------------------------------------------------------------------------
(* handle_watchdog_event                                                   *)

(* _handle_move_on_known_pair of row i to the path to. *)
MoveKnownIf(w, i, to, inFolder) ==
    LET r == w.row[i]
        n == NodeAt(w.disk, to)
        j == RowAt(w, to)
        back == /\ r.rname = Last(to)
                /\ inFolder => r.rpar = RefAt(w.disk, Front(to)) /\ Front(to) = Front(r.path)
        r2 == IF back THEN [r EXCEPT !.ls = "synchronized"]
              ELSE IF r.ls # "created" THEN [r EXCEPT !.ls = "moved"] ELSE r
    IN  IF j \notin {None, Root} /\ w.row[j].ref = RefAt(w.disk, to) /\ n # None
        THEN LET r3 == [w.row[j] EXCEPT !.digest = w.disk[n].data, !.ls = "modified"]
                 w2 == Miss(MissAt(w, n, "substituted"), {r.ref}, "substituted")
             IN  IF i = j THEN w
                 ELSE IF ~r.folder /\ w.row[j].digest = w.disk[n].data THEN RemoveState(w2, i)
                 ELSE RemoveState(Update(w2, j, r3, n), i)
        ELSE IF n = None THEN Miss(w, {r.ref}, "vanished")
        ELSE Update(IF j \notin {None, i} THEN Miss(MissAt(w, n, "replaced"), {r.ref, Row(w, j).ref}, "replaced")
                    ELSE IF w.disk[n].ref # r.ref THEN Miss(MissAt(w, n, "mistaken"), {r.ref}, "mistaken")
                    ELSE IF back /\ w.disk[n].data # w.server[r.ref].data THEN Miss(w, {r.ref}, "undone")
                    ELSE w, i, r2, n)

MoveKnownMutant(w, i, to) == MoveKnownIf(w, i, to, FALSE)   \* mutant: the folder is not looked at
MoveKnown(w, i, to) == MoveKnownIf(w, i, to, TRUE)

(* _handle_delete_on_known_pair, _handle_watchdog_delete *)
DeleteKnown(w, i) ==
    LET p == w.row[i].path
    IN  IF Exists(w.disk, p) /\ RefAt(w.disk, p) \in {None, w.row[i].ref} THEN w
        ELSE IF ~Exists(w.disk, Front(p))
        THEN \* its folder has been moved or is deleted too
             IF \E n \in On(w.disk) : w.disk[n].ref = w.row[i].rpar THEN Miss(w, {w.row[i].ref}, "unseen") ELSE w
        ELSE DeleteDoc(w, p)

(* _handle_watchdog_event_on_known_acquired_pair: row i has the path of n,   *)
(* which has just been created or written.                                   *)
WrittenKnown(w, i, n, type) ==
    LET r     == w.row[i]
        ref   == w.disk[n].ref
        k     == RowOf(w, ref)
        \* the reference of another document, whose file is gone
        alien == /\ type = "modified" /\ r.ref # None /\ r.ref # ref
                 /\ k # None => ~Exists(w.disk, Row(w, k).path)
        r2    == IF r.ps = "synchronized" THEN [r EXCEPT !.digest = w.disk[n].data, !.ls = "modified"] ELSE r
        \* or the document of row i is that of another file
        w2    == IF ref = r.ref \/ (ref = None /\ \A m \in On(w.disk) : w.disk[m].ref # r.ref) THEN w
                 ELSE Miss(MissAt(w, n, "another"), {r.ref}, "another")
    IN  IF n = None THEN w
        ELSE IF r.folder
        THEN IF ref # r.ref THEN Miss(MissAt(w, n, "another"), {r.ref}, "another") ELSE w
        ELSE IF type = "created" /\ ref = None /\ w.disk[n].data = r.digest THEN w
        ELSE IF r.ps = "synchronized" /\ w.disk[n].data = r.digest
        THEN [IF ref = None THEN SetRef(w, n, r.ref) ELSE w2 EXCEPT !.row[i].seen = Time(w.disk, n)]
        ELSE Update(IF alien THEN SetRef(IF k = None THEN w ELSE Miss(w, {ref, r.ref}, "mistaken"), n, r.ref) ELSE w2,
                    i, r2, n)

(* "it must be a replace" *)
Replaced(w, i, n) ==
    IF w.row[i].ls = "deleted" /\ w.row[i].ps = "locally_deleted" /\ n # None
    THEN Update(IF Displaced(w, w.row[i]) THEN Miss(w, {w.row[i].ref}, "not moved") ELSE w,
                i, [w.row[i] EXCEPT !.ls = "modified", !.rs = "unknown"], n)
    ELSE w

(* A node that no row knows: the pair of its document has been moved here,   *)
(* or it has been copied, or it is new.                                      *)
Older(n, m) == hasBirth /\ n < m
AppearsUnknown(w, n, type) ==
    LET ref  == w.disk[n].ref
        i    == RowOf(w, ref)
        from == NodeAt(w.disk, w.row[i].path)
        r    == [w.row[i] EXCEPT !.ls = "moved"]
    IN  IF i = None THEN Insert(w, n)
        ELSE IF from = None THEN Update(w, i, r, n)
        ELSE IF type = "created" /\ Older(n, from)
        THEN SetRef(Insert(Update(w, i, r, n), from), from, None)
        ELSE Insert(SetRef(w, n, None), n)

ScanOf(p) == <<[path |-> p, deep |-> FALSE]>>
IfFolder(n) == IF n # None /\ disk[n].folder THEN ScanOf(PathIn(disk, n)) ELSE <<>>

HandleEventIf(moved(_, _, _)) ==
    /\ running /\ stack = <<>> /\ doomed = {} /\ events # <<>>
    /\ events' = Tail(events)
    /\ LET e == Head(events)
           w == Work
           i == RowAt(w, e.path)
           n == NodeAt(disk, e.path)
           m == IF e.type = "moved" THEN NodeAt(disk, e.to) ELSE None
           lostPair == IF m = None THEN None ELSE RowOf(w, disk[m].ref)
       IN  IF i # None /\ Row(w, i).ps = "unsynchronized"
           THEN /\ stack' = <<>>
                /\ Done(IF e.type \notin {"deleted", "moved"} THEN w
                        ELSE IF m = None THEN RemoveState(w, i)
                        ELSE RemoveState(MissAt(w, m, "read only"), i))
           ELSE IF i # None
           THEN /\ stack' = <<>>
                /\ CASE e.type = "moved"   -> Done(moved(w, i, e.to))
                     [] e.type = "deleted" -> Done(DeleteKnown(w, i))
                     [] e.type = "created" -> Done(WrittenKnown(Replaced(w, i, n), i, n, e.type))
                     [] e.type = "modified" -> Done(WrittenKnown(w, i, n, e.type))
           ELSE IF e.type = "moved" /\ m # None /\ RowAt(w, e.to) = None
           THEN IF lostPair # None /\ ~Exists(disk, w.row[lostPair].path)
                THEN Done(moved(w, lostPair, e.to)) /\ stack' = <<>>
                ELSE Done(Insert(w, m)) /\ stack' = IfFolder(m)
           ELSE IF e.type \in {"created", "modified"} /\ n # None
           THEN Done(AppearsUnknown(w, n, e.type))
                /\ stack' = IF disk[n].folder /\ RowOf(w, disk[n].ref) = None THEN IfFolder(n) ELSE <<>>
           ELSE IF e.type = "moved" /\ m # None
           THEN Done(Miss(MissAt(w, m, "ignored"), {Row(w, RowAt(w, e.to)).ref}, "ignored")) /\ stack' = <<>>
           ELSE Done(w) /\ stack' = <<>>
    /\ UNCHANGED <<born, running, bounds, removed>>
HandleEvent == HandleEventIf(MoveKnown)

-------------------------------------------------------------------------------
(* _scan_recursive, one folder at a time.                                  *)

(* A child no row of the folder has the name of. *)
NewChildIf(w, n, ref) ==
    LET i    == RowOf(w, ref)
        from == NodeAt(w.disk, w.row[i].path)
        r    == [w.row[i] EXCEPT !.ls = "moved"]
        spare(x, refs) == [x EXCEPT !.spared = @ \cup refs]
        k    == RowOf(w, w.disk[from].ref)
        \* both have been moved; the digest of n is written for the two
        w1   == IF k \notin {None, Root} /\ Exists(w.disk, Row(w, k).path)
                THEN Miss(MissAt(MissAt(w, from, "taken back"), NodeAt(w.disk, w.row[k].path), "taken back"),
                          {w.row[k].ref}, "taken back")
                ELSE w
        w2   == IF k \in {None, Root} THEN w
                ELSE spare(Update(w1, k, [w.row[k] EXCEPT !.ls = "moved", !.digest = w.disk[n].data], from),
                           {w.row[k].ref})
    IN  IF ref = None THEN Insert(w, n)
        ELSE IF i = None THEN spare(Insert(w, n), {ref})
        ELSE IF from = n THEN w
        ELSE IF from = None THEN spare(Update(w, i, r, n), {ref})
        ELSE IF Older(n, from)
        THEN Insert(SetRef(spare(Update(w, i, r, n), {ref}), from, None), from)
        ELSE IF w.disk[from].ref = ref THEN Insert(SetRef(w, n, None), n)
        ELSE spare(Update(w2, i, [w2.row[i] EXCEPT !.ls = "moved", !.digest = w.disk[n].data], n), {ref})

NewChildMutant(w, n) == NewChildIf(w, n, None)      \* mutant: its reference is not read
NewChild(w, n) == NewChildIf(w, n, w.disk[n].ref)

(* A child with the name of row i, which was r when the scan of the folder    *)
(* began: the file may have been replaced.                                   *)
Digested(w, r, n) == IF ~r.folder /\ r.digest # w.disk[n].data
                     THEN [r EXCEPT !.digest = w.disk[n].data, !.ls = "modified"] ELSE r
KnownChild(w, n, i, r) ==
    LET w1   == IF w.disk[n].ref # None /\ r.ref = None THEN SetRef(w, n, None) ELSE w
        ref  == w1.disk[n].ref
        k    == RowOf(w1, ref)
        w2   == IF k = None THEN Insert(w1, n)
                ELSE LET x == Update(w1, k, [w1.row[k] EXCEPT !.ls = "moved", !.digest = w1.disk[n].data], n)
                     IN  [x EXCEPT !.spared = @ \cup {ref}]
        w3   == [w2 EXCEPT !.doomed = @ \cup {[ref |-> r.ref, path |-> r.path]}]
        w4   == IF w.row[i] # r THEN Miss(MissAt(w1, n, "taken back"), {r.ref}, "taken back")
                ELSE IF Digested(w1, r, n).ls = "deleted" THEN Miss(MissAt(w1, n, "still deleted"), {r.ref}, "still deleted")
                ELSE IF Displaced(w, r) /\ Digested(w1, r, n) # r THEN Miss(w1, {r.ref}, "not moved")
                ELSE w1
    IN  IF r.seen = Time(w.disk, n) THEN w
        ELSE IF ref # r.ref /\ ref = None
        THEN Update(SetRef(w4, n, r.ref), i, Digested(w4, r, n), n)
        ELSE IF ref # r.ref
        THEN \* rows i and k have the same path: which is deleted?
             Update(Miss(MissAt(w3, n, "replaced"), {r.ref, ref}, "replaced"), i, Digested(w3, r, n), n)
        ELSE Update(w4, i, Digested(w4, r, n), n)

(* Row i, which was r, has the path of nothing on the disk. *)
Missing(w, i, r) == IF r.rs = "created" \/ w.row[i] = None THEN w
                    ELSE IF r.ref = None THEN RemoveState(Miss(w, Refs(w, Under(w, i)), "folder gone"), i)
                    ELSE [w EXCEPT !.doomed = @ \cup {[ref |-> r.ref, path |-> r.path]}]

Orders(S) == {o \in [1..Cardinality(S) -> S] : Range(o) = S}      \* the names have any order
Deep(fs, s) == [k \in DOMAIN s |-> [path |-> PathIn(fs, s[k]), deep |-> TRUE]]
ScanFolder ==
    /\ running /\ stack # <<>>
    /\ LET p    == Head(stack).path
           f    == NodeAt(disk, p)
           kids == {i \in Ids : row[i] # None /\ row[i].path # <<>> /\ Front(row[i].path) = p}
           kid(n) == {i \in kids : Last(row[i].path) = disk[n].name}
           child(w, n) == IF kid(n) = {} THEN NewChild(w, n)
                          ELSE LET i == Max(kid(n)) IN KnownChild(w, n, i, row[i])
           miss(w, i) == Missing(w, i, row[i])
           folder(n) == disk[n].folder
       IN  \E here \in Orders({n \in On(disk) : disk[n].in = f}) :
             LET gone == SetToSeq({i \in kids : ~\E n \in Range(here) : i \in kid(n)})
                 new  == SelectSeq(here, LAMBDA n : folder(n) /\ kid(n) = {})
                 old  == SelectSeq(here, LAMBDA n : folder(n) /\ kid(n) # {})
             IN  IF f = None THEN Done(Work) /\ stack' = Tail(stack)
                 ELSE /\ Done(FoldLeft(miss, FoldLeft(child, Work, here), gone))
                      /\ stack' = Deep(disk, new) \o (IF Head(stack).deep THEN Deep(disk, old) ELSE <<>>)
                                   \o Tail(stack)
    /\ UNCHANGED <<born, events, running, bounds, removed>>

(* _scan_handle_deleted_files *)
HandleDeleted ==
    /\ running /\ stack = <<>> /\ doomed # {}
    /\ LET go == SetToSeq({d \in doomed : d.ref \notin spared})
           w  == FoldLeft(LAMBDA x, d : DeleteDoc(x, d.path), Work, go)
       IN  Done([w EXCEPT !.doomed = {}])
    /\ UNCHANGED <<born, events, running, stack, bounds, removed>>

-------------------------------------------------------------------------------
(* The application stops; it starts with a full scan.                      *)

Stop ==
    /\ running /\ stops > 0 /\ stops' = stops - 1
    /\ running' = FALSE /\ events' = <<>> /\ stack' = <<>> /\ queued' = {} /\ doomed' = {} /\ spared' = {}
    /\ UNCHANGED <<disk, born, server, row, ops, hasBirth, lost, removed>>

ToSync(t, i) == t[i] # None /\ t[i].ps \notin {"synchronized", "unsynchronized"}
Start ==
    /\ ~running /\ running' = TRUE
    /\ queued' = {i \in Ids : ToSync(row, i) /\ ~\E f \in Ids : ToSync(row, f) /\ row[f].folder
                                                   /\ row[f].path = Front(row[i].path)}
    /\ stack' = <<[path |-> <<>>, deep |-> TRUE]>>
    /\ UNCHANGED <<disk, born, server, row, events, doomed, spared, bounds, lost, removed>>

-------------------------------------------------------------------------------
(* The processor.                                                          *)

Live(w, d) == w.server[d] # None /\ w.server[d].live
(* A document and those in it, at any depth. *)
Tree(w, d) ==
    LET in[k \in Docs \cup {Root}] == k # Root /\ (k = d \/ in[w.server[k].par])
    IN  {k \in Docs : w.server[k] # None /\ in[k]}
Trash(w, d) == [w EXCEPT !.server = [k \in Docs |-> IF k \in Tree(w, d) THEN [w.server[k] EXCEPT !.live = FALSE]
                                                    ELSE w.server[k]]]

Synchronize(w, i, r) ==
    LET w2 == [w EXCEPT !.row[i] = [r EXCEPT !.ls = "synchronized", !.rs = "synchronized",
                                             !.ps = "synchronized"]]
    IN  IF ~r.folder THEN w2
        ELSE [w2 EXCEPT !.queued = @ \cup
                {j \in Ids : ToSync(w2.row, j) /\ w2.row[j].ps # "conflicted"
                             /\ (w2.row[j].rpar = r.ref \/ Front(w2.row[j].path) = r.path)}]

(* The row that a document has been written for, as the server answers. *)
Aligned(r, w, d, p) == [r EXCEPT !.ref = d, !.rpar = w.server[d].par, !.rname = w.server[d].name,
                                 !.rpath = IF p = Root THEN <<Root>> ELSE Append(Row(w, RowOf(w, p)).rpath, p)]

(* The end of _synchronize_if_not_remotely_dirty: the file is read again.    *)
IfSame(w, i, r, n) ==
    IF n = None \/ r.folder \/ w.disk[n].data = w.server[r.ref].data THEN Synchronize(w, i, r)
    ELSE Miss([w EXCEPT !.row[i] = [r EXCEPT !.digest = w.disk[n].data, !.ls = "modified",
                                             !.rs = "synchronized", !.ps = "locally_modified"]],
              {r.ref}, "unqueued")

(* _synchronize_locally_modified, then the name is the server's again.       *)
Upload(w, i, r, n) ==
    LET w2 == IF r.digest = w.server[r.ref].data THEN w
              ELSE [w EXCEPT !.server[r.ref].data = w.disk[n].data]
        s  == w2.server[r.ref]
        to == Append(Front(r.path), s.name)
    IN  IF s.name = Last(r.path) \/ Exists(w.disk, to)
        THEN IfSame(w2, i, [r EXCEPT !.digest = s.data], n)
        ELSE Synchronize(Miss(MissAt([w2 EXCEPT !.disk[n].name = s.name], n, "renamed back"), {r.ref}, "renamed back"),
                         i, [r EXCEPT !.digest = s.data, !.path = to])

(* _synchronize_locally_created: the node has the reference of a document.   *)
CreateFrom(w, i, r, n, par, new(_)) ==
    LET ref == w.disk[n].ref
        s   == w.server[ref]
        same == s.data = r.digest \/ r.folder
    IN  IF ref = None THEN new(w)
        ELSE IF ~s.live
        THEN LET w2 == [w EXCEPT !.server[ref] = [@ EXCEPT !.live = TRUE, !.par = par, !.name = Last(r.path)]]
                 r2 == Aligned(r, w2, ref, par)
             IN  IF r.folder THEN Synchronize(w2, i, r2) ELSE Upload(w2, i, r2, n)
        ELSE IF s.par = par /\ s.name = Last(r.path)
        THEN LET w2 == MissAt(w, n, "unlinked") IN IF same THEN Synchronize(w2, i, r) ELSE w2
        ELSE new(w)

LocallyModified(w, i) ==
    LET n == NodeAt(w.disk, w.row[i].path)
    IN  IF n = None THEN w ELSE Upload(w, i, w.row[i], n)

(* The folder of a row: by its path, or by the reference its directory has.  *)
ParentOf(w, p) == LET i == RowAt(w, p) IN IF i # None THEN i ELSE RowOf(w, RefAt(w.disk, p))

LocallyCreated(w, i) ==
    LET r   == w.row[i]
        n   == NodeAt(w.disk, r.path)
        up  == ParentOf(w, Front(r.path))
        par == Row(w, up).ref
        d   == Min({x \in Docs : w.server[x] = None})
        new(x) == LET x2 == [x EXCEPT !.server[d] = [par |-> par, name |-> Last(r.path),
                                                     data |-> IF n = None THEN r.digest ELSE w.disk[n].data,
                                                     live |-> TRUE]]
                      x3 == IF n = None THEN x2
                            ELSE SetRef(IF RowOf(x, x.disk[n].ref) = None THEN x2
                                        ELSE Miss(x2, {x.disk[n].ref, d}, "mistaken"), n, d)
                      twin == \E j \in Rows(x) \ {i} : Row(x, j).path = r.path
                  IN  Synchronize(IF twin THEN Miss(x3, {d}, "replaced") ELSE x3, i, Aligned(r, x2, d, par))
    IN  IF n = None /\ ~r.folder THEN w
        ELSE IF n = None THEN new(w)
        ELSE CreateFrom(w, i, r, n, par, new)

LocallyDeleted(w, i) ==
    LET r == w.row[i]
    IN  IF r.ref = None THEN RemoveState(w, i)
        ELSE LET w2 == RemoveState(Trash(w, r.ref), i)
                 left == {w2.row[j].ref : j \in Rows(w2) \ {Root}}
                 here == {w2.row[j].ref : j \in {k \in Rows(w2) \ {Root} : IsStrictPrefix(r.path, w2.row[k].path)}}
             IN  Miss(Miss(w2, left \cap Tree(w, r.ref), "with its folder"), here, "folder gone")

(* _synchronize_locally_moved, then _synchronize_if_not_remotely_dirty: when *)
(* the content has changed too, it is the server's that is kept.             *)
LocallyMoved(w, i) ==
    LET r   == w.row[i]
        n   == NodeAt(w.disk, r.path)
        par == LET x == RefAt(w.disk, Front(r.path))
               IN  IF x # None THEN x ELSE Row(w, ParentOf(w, Front(r.path))).ref
        w2  == [w EXCEPT !.server[r.ref] = [@ EXCEPT !.par = par, !.name = Last(r.path)]]
        r2  == IF par = r.rpar THEN [r EXCEPT !.rname = Last(r.path)] ELSE Aligned(r, w2, r.ref, par)
        said == par # r.rpar \/ r.rname # Last(r.path)
    IN  IF said /\ ~r.folder /\ w.server[r.ref].data # r.digest
        THEN Miss(Synchronize(IF n = None THEN w2 ELSE [w2 EXCEPT !.disk[n].data = w.server[r.ref].data],
                              i, [r2 EXCEPT !.digest = w.server[r.ref].data]), {r.ref}, "overwritten")
        ELSE IfSame(w2, i, r2, n)

(* What the handler needs of the row of its folder: else it is tried again.  *)
Ready(w, i) ==
    LET r  == w.row[i]
        up == ParentOf(w, Front(r.path))
    IN  CASE r.ps = "locally_created" -> up # None /\ Row(w, up).ref # None
          [] r.ps = "locally_moved"   -> r.ref # None /\ up # None /\ Row(w, up).ref # None
          [] OTHER -> TRUE

(* _handle_doc_pair_sync *)
ProcessIf(i, handler(_, _)) ==
    /\ running /\ stack = <<>> /\ doomed = {} /\ i \in queued
    /\ LET w == [Work EXCEPT !.queued = @ \ {i}]
           r == row[i]
           up == RowOf(w, r.rpar)
       IN  IF r = None THEN Done(w)
           ELSE IF ~ToSync(row, i) THEN Done(w)
           ELSE IF ~Exists(disk, Front(r.path)) /\ (up = None \/ Row(w, up).path = Front(r.path))
           THEN Done(RemoveState(Miss(w, {r.ref}, "folder gone"), i))
           ELSE Ready(w, i) /\ Done(handler(w, i))
    /\ UNCHANGED <<born, events, running, stack, bounds, removed>>
(* A file that was never sent has no right to be updated. *)
Unsynchronize(w, i) ==
    LET n  == NodeAt(w.disk, w.row[i].path)
        w2 == [w EXCEPT !.row[i].ps = "unsynchronized"]
    IN  IF n = None THEN w2 ELSE MissAt(w2, n, "read only")
Handler(w, i) ==
    LET r == w.row[i]
        gone == r.ref # None /\ ~Live(w, r.ref)
    IN  CASE r.ps \in {"locally_moved", "locally_modified"} /\ gone -> Miss(w, {r.ref}, "trashed")  \* NotFound
          [] r.ps = "locally_created" -> LocallyCreated(w, i)
          [] r.ps = "locally_deleted" -> LocallyDeleted(w, i)
          [] r.ps = "locally_moved"   -> LocallyMoved(w, i)
          [] r.ps = "locally_modified" /\ r.ref # None -> LocallyModified(w, i)
          [] r.ps = "locally_modified" /\ r.ref = None -> Unsynchronize(w, i)
          [] r.ps = "deleted_unknown" -> RemoveState(w, i)
          [] OTHER -> w
Process(i) == ProcessIf(i, Handler)

-------------------------------------------------------------------------------
Init ==
    \E start \in Starts :
      /\ disk = [n \in Nodes |-> IF n \in DOMAIN start.disk THEN start.disk[n] @@ [ref |-> n, data |-> n] ELSE None]
      /\ born = Cardinality(DOMAIN start.disk)
      /\ server = [d \in Docs |-> IF d \in DOMAIN start.disk
                                  THEN [par |-> start.disk[d].in, name |-> start.disk[d].name, data |-> d, live |-> TRUE]
                                  ELSE None]
      /\ row = [i \in Ids |-> IF i \in DOMAIN start.disk
                              THEN [path |-> PathIn(start.disk, i), ls |-> "synchronized", rs |-> "synchronized",
                                    ps |-> "synchronized", ref |-> i, rpar |-> start.disk[i].in,
                                    rname |-> start.disk[i].name, digest |-> i, seen |-> <<i, i>>,
                                    rpath |-> IF start.disk[i].in = Root THEN <<Root>> ELSE <<Root, start.disk[i].in>>,
                                    folder |-> start.disk[i].folder]
                              ELSE None]
      /\ queued = {} /\ events = <<>> /\ running = TRUE
      /\ stack = <<>> /\ doomed = {} /\ spared = {}
      /\ hasBirth = start.hasBirth /\ ops = start.ops /\ stops = start.stops
      /\ lost = {} /\ removed = {}

Dirs == {Root} \cup {n \in On(disk) : disk[n].folder}
UserActs ==
    \/ \E dir \in Dirs, folder \in BOOLEAN : \E name \in NamesFor(folder) :
          \/ UserCreates(dir, name, folder)
          \/ \E n \in {m \in On(disk) : disk[m].folder = folder} : UserMoves(n, dir, name) \/ UserCopies(n, dir, name)
    \/ \E n \in On(disk) : UserDeletes(n) \/ UserWrites(n)
Watcher == HandleEvent \/ ScanFolder \/ HandleDeleted
Next == UserActs \/ Watcher \/ Stop \/ Start \/ \E i \in Ids : Process(i)

-------------------------------------------------------------------------------
(* Properties.                                                             *)

Watched == running /\ events = <<>> /\ stack = <<>> /\ doomed = {}
Quiet == Watched /\ queued = {}
(* A pair is tried for ever when the row of its folder has been removed, and *)
(* not that of the folder its document is in, or when it has been moved and  *)
(* has no document.  TLC reports any other state without a successor.        *)
InVain(i) == row[i] # None /\ (\/ RowAt(Work, Front(row[i].path)) = None
                               \/ row[i].ps = "locally_moved" /\ row[i].ref = None)
Rests == Watched /\ (\A i \in queued : InVain(i)) /\ UNCHANGED vars
Spec == Init /\ [][Next \/ Rests]_vars

(* What goes wrong, by the reason why (the variable lost).  Each is a place   *)
(* where the code drops or mistakes a piece of news; the properties are       *)
(* about all the rest.                                                       *)
(*   events against the disk as it is by then                                *)
(*    ignored       a new file takes the name of a known one before its own   *)
(*                  creation is handled: the move is dropped                 *)
(*    vanished      a file moved twice: at the first event it is not there    *)
(*    unseen        a file is deleted, then its folder moved: the deletion    *)
(*                  finds no folder and is dropped                           *)
(*    undone        renamed, written, renamed back: "synchronized" unread     *)
(*    mistaken      a row follows another file than the one it was of         *)
(*    replaced      two rows have the same path                              *)
(*    substituted   a file moved onto a row of its own document: the other    *)
(*                  row is removed, its document stays                       *)
(*    another       a folder or a copy at the path of a row keeps the         *)
(*                  reference it came with, or has none                      *)
(*    still deleted a folder made again before its deletion is processed      *)
(*   the scan, with the rows read before                                     *)
(*    taken back    a file renamed and another of that name in its place      *)
(*    not moved     "modified" overrides "moved": it stays where it was       *)
(*   the processor                                                           *)
(*    conflict      the two sides have changed                               *)
(*    kept          delete_doc of a row whose server side is unknown          *)
(*    with its folder, folder gone   a folder is trashed with what has been   *)
(*                  moved out of it; a row whose folder is gone is removed    *)
(*    trashed       the document of a moved file has been trashed             *)
(*    overwritten   moved and changed: the server's content is written back   *)
(*    unqueued      locally_modified again at the end, but not queued         *)
(*    renamed back  after an upload the server's name is given to the file    *)
(*    unlinked      the file has the reference of a document that is there    *)
(*    read only     a file never sent and written while the client is down    *)

(* What is forgotten, or in a folder that is. *)
DocForgottenIn(l, d) ==
    LET up[k \in Docs \cup {Root}] ==
            k # Root /\ ((\E x \in l : x[1] = "document" /\ x[2] = k) \/ up[server[k].par])
    IN  up[d]
DocForgotten(d) == DocForgottenIn(lost, d)
(* The document of a node: its reference, or that of the row of its path.   *)
DocOf(n) == LET i == RowAt(Work, PathIn(disk, n))
            IN  IF disk[n].ref # None \/ i = None THEN disk[n].ref ELSE row[i].ref
NodeForgotten(n) ==
    LET up[k \in Nodes \cup {Root}] ==
            /\ k # Root
            /\ \/ \E l \in lost : l[1] = "node" /\ l[2] = k
               \/ DocOf(k) # None /\ DocForgotten(DocOf(k))
               \/ up[disk[k].in]
    IN  up[n]

DocPath(d) ==
    LET path[k \in Docs \cup {Root}] ==
            IF k = Root THEN <<>> ELSE Append(path[server[k].par], server[k].name)
    IN  path[d]
CopiesOf(d) == {n \in On(disk) : DocOf(n) = d}
Present(d) == Live(Work, d)

SameAs(n, d) == /\ d # None /\ Present(d) /\ DocPath(d) = PathIn(disk, n)
                /\ (disk[n].folder \/ server[d].data = disk[n].data)

(* When the watcher and the processors have nothing left to do, each file and *)
(* folder of the disk has its document at the same path with the same         *)
(* content, and each document has exactly one: what the user created, moved,  *)
(* copied, replaced, wrote and deleted, while the client was up or down, has  *)
(* been done on the server, once.                                            *)
Mirror == Quiet =>
    /\ \A n \in On(disk) : NodeForgotten(n) \/ SameAs(n, DocOf(n))
    /\ \A d \in Docs : Present(d) => DocForgotten(d) \/ Cardinality(CopiesOf(d)) = 1

(* Once the events are handled, the client does not put in the trash the      *)
(* document of a file that is still somewhere on the disk, unless the folder  *)
(* of that document is deleted: a file moved while the client was down, or in *)
(* the middle of a scan, is not taken for a deleted one.                     *)
SparesFiles ==
    \A d \in Docs \ removed :
        (/\ Present(d) /\ ~server'[d].live /\ \E n \in On(disk) : disk[n].ref = d
         /\ events = <<>> /\ ~DocForgottenIn(lost', d))
        => server[d].par # Root /\ ~server'[server[d].par].live
KeepsFiles == [][SparesFiles]_vars
=============================================================================
