------------------------------- MODULE Alfresco -------------------------------
(***************************************************************************)
(* The synchronisation of one folder with an Alfresco server, which tells  *)
(* neither what has changed nor the digest of a file: the remote watcher   *)
(* lists the folder at every poll and compares the times of the last       *)
(* change, then looks at the disk for what the local watcher has missed;   *)
(* a processor makes one side follow the other, after a look at the time   *)
(* of the document.                                                        *)
(*                                                                         *)
(* A step ends where its thread waits for the server, or between two       *)
(* writes that another thread may come between.  The local watcher handles *)
(* an event in one step.  Every change of a document has a time of its     *)
(* own, and no two files have the same size.                               *)
(***************************************************************************)
EXTENDS Naturals, Sequences, FiniteSets, FiniteSetsExt, TLC

CONSTANTS Names,          \* the names of files
          Docs,           \* the documents: 1..n, in the order of creation
          Ids,            \* the rows
          None,
          Budgets         \* what the users, the network and the system may do; whether the file
                          \* was uploaded, or is not there yet; whether a deletion stops the synchronisation

VARIABLES
    disk,       \* [data, ref] of the file of each name
    nodes,      \* [name, data, at] of each document
    fresh,      \* the content and the time of the next change
    row,        \* the States table
    held,       \* the copies of rows that each thread works on
    queued,     \* the pairs in the queues
    later,      \* _on_error_queue
    signals,    \* newConflict, not handled yet by conflict_resolver
    filters,    \* the names that are not synchronised
    events,     \* watchdog_queue
    scan,       \* the remote watcher: where it is, what it knows
    pc, cur, answer,   \* the processor: where it is, its row, what the server said
    left        \* what may still happen

VARIABLES       \* history
    shared,     \* the contents that both sides have had
    wanted,     \* the documents whose file the user has deleted
    lost,       \* what was destroyed that only one side had, or nobody asked to delete
    reasons,    \* why something may be lost
    calm        \* "yes": a whole scan has just found nothing, and nothing had to be done

work == <<disk, nodes, row, held, queued, later, signals, filters, shared, wanted, lost, reasons>>
proc == <<pc, cur, answer>>
vars == <<work, fresh, events, scan, proc, left, calm>>

Pair == INSTANCE PairStates WITH Contents <- {}, Size <- [c \in {} |-> 0], Unaccessible <- 0
Actors == {"scan", "disk", "processor"}
Live(ns) == {d \in Docs : ns[d] # None}
Named(ns, n) == {d \in Live(ns) : ns[d].name = n}

-------------------------------------------------------------------------------
(* The rows.  A write is a function from a work record to the next one.    *)

Work == [disk |-> disk, nodes |-> nodes, row |-> row, held |-> held, queued |-> queued,
         later |-> later, signals |-> signals, filters |-> filters, shared |-> shared,
         wanted |-> wanted, lost |-> lost, reasons |-> reasons]
Set(w) == /\ disk' = w.disk /\ nodes' = w.nodes /\ row' = w.row /\ held' = w.held
          /\ queued' = w.queued /\ later' = w.later /\ signals' = w.signals
          /\ filters' = w.filters /\ shared' = w.shared /\ wanted' = w.wanted
          /\ lost' = w.lost /\ reasons' = w.reasons
Same(w) == \A f \in {"disk", "nodes", "row", "queued", "later", "signals"} : w[f] = Work[f]
Done(w) == Set(w) /\ calm' = IF Same(w) THEN calm ELSE "no"

Spend(what) == left[what] > 0 /\ left' = [left EXCEPT ![what] = @ - 1]

Copy(r) == r @@ [cur |-> TRUE]
Rows(w) == {i \in Ids : w.row[i] # None}
RowAt(w, n)   == LET at == {i \in Rows(w) : w.row[i].name = n} IN IF at = {} THEN None ELSE Min(at)
RowOf(w, ref) == LET of == {i \in Rows(w) : ref # None /\ w.row[i].ref = ref}
                 IN  IF of = {} THEN None ELSE Min(of)
Unheld(w) == {i \in Ids : /\ w.row[i] = None /\ i \notin w.queued \cup w.later \cup w.signals
                          /\ \A a \in Actors : w.held[a][i] = None}

Because(w, why, test) == IF test THEN [w EXCEPT !.reasons = @ \cup {why}] ELSE w
Lose(w, what, test) == IF test THEN [w EXCEPT !.lost = @ \cup {what}] ELSE w
Transfer(w, data) == [w EXCEPT !.shared = @ \cup {data}]

(* _queue_pair_state; a pair that is on error is dropped by the getters. *)
Push(w, i, ps) ==
    IF ps \in {"synchronized", "unsynchronized"} \/ i \in w.later THEN w
    ELSE IF ps = "conflicted" THEN [w EXCEPT !.signals = @ \cup {i}]
    ELSE [w EXCEPT !.queued = @ \cup {i}]

Put(w, i, r) == IF w.row[i] = None THEN w ELSE [w EXCEPT !.row[i] = r]
(* version = version + 1: every copy is out of date. *)
Outdate(w, i) ==
    [w EXCEPT !.held = [a \in Actors |-> IF w.held[a][i] = None THEN w.held[a]
                                         ELSE [w.held[a] EXCEPT ![i].cur = FALSE]]]
(* A write from a copy that is not what the row has become undoes a write.  *)
Undoing(w, i, c) == Because(w, "stale", w.row[i] # None /\ \E f \in {"ls", "rs"} : w.row[i][f] # c[f])

Insert(w, r) == LET i == Min(Unheld(w)) IN Push([w EXCEPT !.row[i] = r], i, r.ps)
(* insert_local_state *)
LocalRow(n, data) ==
    [name |-> n, ls |-> "created", rs |-> "unknown", ps |-> "locally_created", ref |-> None,
     rname |-> None, at |-> 0, ldig |-> data, rdig |-> None, proc |-> FALSE]
(* insert_remote_state *)
RemoteRow(d, node) ==
    [name |-> node.name, ls |-> "unknown", rs |-> "created", ps |-> "remotely_created", ref |-> d,
     rname |-> node.name, at |-> node.at, ldig |-> None, rdig |-> None, proc |-> FALSE]
Remove(w, i) == [w EXCEPT !.row[i] = None]                            \* remove_state

(* update_local_state of row i by the holder of copy c, for the file n *)
UpdateLocal(w, i, c, n, versioned, queue) ==
    LET ps == Pair!PairState(c.ls, c.rs)
        w1 == IF w.row[i] = None THEN w
              ELSE Put(w, i, [w.row[i] EXCEPT !.name = n, !.ls = c.ls, !.rs = c.rs, !.ps = ps,
                                              !.ldig = c.ldig])
        w2 == IF versioned THEN Outdate(w1, i) ELSE w1
    IN  IF queue THEN Push(w2, i, ps) ELSE w2

(* update_remote_state of row i by the holder of copy c, with what the      *)
(* server said: nothing is written when it looks similar.                   *)
Answer(d, node, digest) == [id |-> d, name |-> node.name, at |-> node.at, data |-> node.data,
                            digest |-> digest]
UpdateRemote(w, i, c, info, force, versioned, queue) ==
    LET similar == c.ref = info.id /\ c.rname = info.name /\ c.name = info.name
        e == IF similar /\ info.digest \in {c.ldig, c.rdig} THEN [c EXCEPT !.rs = "synchronized"] ELSE c
        ps == Pair!PairState(e.ls, e.rs)
        w1 == IF w.row[i] = None THEN w
              ELSE Put(w, i, [w.row[i] EXCEPT !.ref = info.id, !.rname = info.name, !.at = info.at,
                                !.ls = e.ls, !.rs = e.rs, !.ps = ps,
                                !.rdig = IF info.digest = None THEN @ ELSE info.digest])
        w2 == IF versioned THEN Outdate(w1, i) ELSE w1
    IN  IF similar /\ info.digest = c.rdig /\ ~force THEN w
        ELSE IF queue THEN Push(w2, i, ps) ELSE w2

(* _force_sync: the pair is pushed even if its version is not the one of the copy. *)
ForceSync(w, i, c, ls, rs, ps) ==
    Push(IF w.row[i] # None /\ c.cur
         THEN Put(w, i, [w.row[i] EXCEPT !.ls = ls, !.rs = rs, !.ps = ps]) ELSE w, i, ps)

(* delete_local_state, delete_remote_state *)
DeleteLocal(w, i) == Push([w EXCEPT !.row[i].ls = "deleted", !.row[i].ps = "locally_deleted"],
                          i, "locally_deleted")
DeleteRemote(w, i) ==
    Push(IF w.row[i] = None THEN w
         ELSE [w EXCEPT !.row[i].rs = "deleted", !.row[i].ps = "remotely_deleted"], i, "remotely_deleted")

(* set_conflict_state *)
Conflict(w, i) == [Put(w, i, [w.row[i] EXCEPT !.ps = "conflicted"]) EXCEPT !.signals = @ \cup {i}]

(* Engine.delete_doc: the document is deleted, or not synchronised any more. *)
DeleteDoc(w, n) ==
    LET i == RowAt(w, n)
        d == w.row[i].ref
    IN  IF i = None THEN w
        ELSE IF w.row[i].rs = "unknown"
        THEN Remove(w, i)
        ELSE IF left["unsync"] = 0 THEN DeleteLocal(w, i)
        ELSE IF d = None THEN Remove(w, i)
        ELSE IF d \notin Live(w.nodes) THEN w
        ELSE Lose([Remove(w, i) EXCEPT !.filters = @ \cup {w.nodes[d].name}],
                  "document", d \notin w.wanted)

-------------------------------------------------------------------------------
(* The user, and the events of the file system that follow; one may be     *)
(* missed.                                                                 *)

Event(type, n, to) == [type |-> type, name |-> n, to |-> to]
User(what, files, event) ==
    /\ Done([Work EXCEPT !.disk = files])
    /\ \/ Spend(what) /\ events' = Append(events, event)
       \/ /\ left[what] > 0 /\ left["missed"] > 0 /\ UNCHANGED events
          /\ left' = [left EXCEPT ![what] = @ - 1, !["missed"] = @ - 1]
    /\ UNCHANGED <<scan, proc>>

UserCreates(n) == /\ disk[n] = None /\ fresh' = fresh + 1
                  /\ User("create", [disk EXCEPT ![n] = [data |-> fresh, ref |-> None]],
                          Event("created", n, None))
UserWrites(n) == /\ disk[n] # None /\ fresh' = fresh + 1
                 /\ User("write", [disk EXCEPT ![n].data = fresh], Event("modified", n, None))
UserMoves(n, to) == /\ disk[n] # None /\ disk[to] = None /\ UNCHANGED fresh
                    /\ User("move", [disk EXCEPT ![n] = None, ![to] = disk[n]], Event("moved", n, to))
UserDeletes(n) ==
    /\ disk[n] # None /\ Spend("delete") /\ UNCHANGED <<fresh, scan, proc>>
    /\ events' = Append(events, Event("deleted", n, None))
    /\ Done([Work EXCEPT !.disk[n] = None, !.wanted = @ \cup {disk[n].ref}])

(* Other people, on the server. *)
Other(what, ns) ==
    /\ Spend(what) /\ fresh' = fresh + 1 /\ Done([Work EXCEPT !.nodes = ns])
    /\ UNCHANGED <<events, scan, proc>>
OtherCreates(d, n) == /\ nodes[d] = None /\ d = fresh /\ Named(nodes, n) = {}
                      /\ Other("ocreate", [nodes EXCEPT ![d] = [name |-> n, data |-> fresh, at |-> fresh]])
OtherWrites(d) == d \in Live(nodes) /\ Other("owrite", [nodes EXCEPT ![d].data = fresh, ![d].at = fresh])
OtherRenames(d, n) == /\ d \in Live(nodes) /\ Named(nodes, n) = {}
                      /\ Other("orename", [nodes EXCEPT ![d].name = n, ![d].at = fresh])
OtherDeletes(d) == d \in Live(nodes) /\ Other("odelete", [nodes EXCEPT ![d] = None])

(* The window of the conflicts: resolve_with_local, resolve_with_remote.   *)
Resolves(i, ls, rs, ps) ==
    /\ row[i] # None /\ row[i].ps = "conflicted" /\ Spend("resolve")
    /\ Done(ForceSync(IF ls = "resolved" /\ row[i].ref \in Live(nodes)
                      THEN Transfer(Work, nodes[row[i].ref].data)
                      ELSE IF disk[row[i].name] # None THEN Transfer(Work, disk[row[i].name].data)
                      ELSE Work, i, Copy(row[i]), ls, rs, ps))
    /\ UNCHANGED <<fresh, events, scan, proc>>
KeepLocal(i)  == Resolves(i, "resolved", "unknown", "locally_resolved")
KeepRemote(i) == Resolves(i, "synchronized", "modified", "remotely_modified")

(* conflict_resolver: a document that has not changed since the time the    *)
(* row records is taken for one that the file was made from.                *)
ConflictResolver(i) ==
    /\ i \in signals
    /\ LET w == [Work EXCEPT !.signals = @ \ {i}]
           r == row[i]
           known == r # None /\ r.ref \in Live(nodes) /\ nodes[r.ref].at = r.at
       IN  \/ /\ UNCHANGED left
              /\ Done(IF known
                      THEN ForceSync(Because(w, "resolver", nodes[r.ref].data \notin shared), i, Copy(r),
                                     "modified", "synchronized", "locally_modified")
                      ELSE w)
           \/ Spend("fail") /\ known /\ Done(w)
    /\ UNCHANGED <<fresh, events, scan, proc>>

-------------------------------------------------------------------------------
(* The local watcher handles an event against the disk as it is by then.   *)

(* _handle_move_on_known_pair of row i: the file is now at n *)
HandleMove(w, i, n) ==
    LET j == RowAt(w, n)
        r == w.row[i]
        f == w.disk[n]
        back == r.rname = n
        c == [Copy(r) EXCEPT !.ls = IF back THEN "synchronized"
                                    ELSE IF r.ls = "created" THEN "created" ELSE "moved"]
    IN  IF f = None THEN w
        ELSE IF j # None /\ w.row[j].ref = f.ref
        THEN IF w.row[j].ldig = f.data THEN (IF i = j THEN w ELSE Remove(w, i))
             ELSE Remove(UpdateLocal(w, j, [Copy(w.row[j]) EXCEPT !.ls = "modified", !.ldig = f.data],
                                     n, TRUE, TRUE), i)
        ELSE UpdateLocal(w, i, c, n,
                         ~back /\ r.ls # "created", TRUE)

(* _handle_watchdog_event_on_known_pair, when the row could be acquired *)
HandleKnown(w, i, e) ==
    LET r == w.row[i]
        f == w.disk[e.name]
        w2 == IF f # None /\ f.ref = None /\ r.ref # None THEN [w EXCEPT !.disk[e.name].ref = r.ref] ELSE w
        c == IF r.ps = "synchronized" THEN [Copy(r) EXCEPT !.ldig = f.data, !.ls = "modified"] ELSE Copy(r)
    IN  IF r.proc THEN w
        ELSE IF e.type = "deleted"
        THEN IF f # None /\ f.ref \in {None, r.ref} THEN w ELSE DeleteDoc(w, e.name)
        ELSE IF f = None \/ (e.type = "created" /\ f.ref = None /\ f.data = r.ldig) THEN w
        ELSE IF r.ps = "synchronized" /\ r.ldig = f.data THEN w2
        ELSE IF e.type = "modified" /\ r.ldig # f.data /\ r.ps \notin {"synchronized", "locally_resolved"}
        THEN w2                                                \* the copy must still be running
        ELSE UpdateLocal(IF e.type = "modified" THEN w2 ELSE w, i, c, e.name, TRUE, TRUE)

(* handle_watchdog_event on a path without a row *)
HandleUnknown(w, e) ==
    LET n == IF e.type = "moved" THEN e.to ELSE e.name
        f == w.disk[n]
        i == IF f = None THEN None ELSE RowOf(w, f.ref)
    IN  IF e.type = "deleted" \/ f = None \/ (e.type = "moved" /\ RowAt(w, n) # None) THEN w
        ELSE IF i = None THEN Insert(w, LocalRow(n, f.data))
        ELSE IF e.type # "moved" /\ (w.row[i].proc \/ w.row[i].name = n) THEN w
        ELSE IF w.disk[w.row[i].name] # None
        THEN Insert(IF e.type = "moved" THEN w ELSE [w EXCEPT !.disk[n].ref = None], LocalRow(n, f.data))
        ELSE IF e.type = "moved" THEN HandleMove(w, i, n)
        ELSE UpdateLocal(w, i,
                         [Copy(w.row[i]) EXCEPT !.ls = "moved"], n, TRUE, TRUE)

(* A file that comes back before its deletion was sent is a replacement.    *)
HandleEvent ==
    /\ events # <<>> /\ events' = Tail(events)
    /\ LET e == Head(events)
           i == RowAt(Work, e.name)
           back == /\ i # None /\ e.type = "created" /\ row[i].ls = "deleted"
                   /\ row[i].ps = "locally_deleted" /\ disk[e.name] # None
           w == IF back THEN UpdateLocal(Work, i, [Copy(row[i]) EXCEPT !.ls = "modified", !.rs = "unknown"],
                                         e.name, TRUE, TRUE) ELSE Work
       IN  /\ i = None => Unheld(Work) # {}
           /\ Done(IF i = None THEN HandleUnknown(Work, e)
                   ELSE IF e.type = "moved" THEN HandleMove(w, i, e.to) ELSE HandleKnown(w, i, e))
    /\ UNCHANGED <<fresh, scan, proc, left>>

-------------------------------------------------------------------------------
(* The remote watcher lists the folder, first the rows then the documents. *)

Idle == [at |-> "idle", nodes |-> {}, rows |-> {}, files |-> {}, seen |-> {}, doc |-> None]
Disk == [Idle EXCEPT !.at = "disk"]
Quiet == /\ events = <<>> /\ queued \cup later \cup signals = {} /\ pc = "idle"
Nothing == /\ UNCHANGED <<fresh, events, proc>>
Hold(w, who, is) == [w EXCEPT !.held[who] = [i \in Ids |-> IF i \in is THEN Copy(w.row[i]) ELSE None]]
Known(c) == {i \in Ids : c[i] # None}

(* scan_remote: no answer of the server, and the disk is looked at all the same. *)
ScanBegins ==
    /\ scan.at = "idle" /\ Nothing
    /\ \/ /\ scan' = [Idle EXCEPT !.at = "list"] /\ UNCHANGED left
          /\ Set(Hold(Work, "scan", {i \in Rows(Work) : row[i].ref # None}))
          /\ calm' = IF Quiet THEN "scan" ELSE "no"
       \/ scan' = Disk /\ Spend("fail") /\ Set(Work) /\ calm' = "no"
ScanLists ==
    /\ scan.at = "list" /\ Nothing
    /\ \/ /\ scan' = [scan EXCEPT !.at = "nodes", !.rows = Known(held["scan"]),
                                  !.nodes = {nodes[d] @@ [id |-> d] : d \in Live(nodes)}]
          /\ UNCHANGED left /\ Done(Work)
       \/ scan' = Disk /\ Spend("fail") /\ Set(Hold(Work, "scan", {})) /\ calm' = "no"

(* One document of the list.  Forgetting a row that has the reference is     *)
(* not possible: the insertion fails, and the scan with it.                  *)
Listed(n) == Answer(n.id, n, None)
(* The time of a change is recorded, and its content will not be asked for.  *)
Recorded(w, i, force) ==
    Because(Because(w, "renamed", ~force /\ w.row[i] # None /\ w.row[i].rname # w.row[i].name),
            "recorded", /\ ~force /\ w.row[i] # None /\ w.row[i].at # row[i].at
                        /\ w.row[i].ref \in Live(w.nodes) /\ w.nodes[w.row[i].ref].data \notin shared)
KnownNode(i, n) ==
    LET c == held["scan"][i]
        next == [scan EXCEPT !.nodes = @ \ {n}, !.rows = @ \ {i}]
        force == n.at # c.at /\ c.ps \notin {"conflicted", "locally_created", "locally_modified"}
        hold(w) == [w EXCEPT !.held["scan"][i].at = n.at, !.held["scan"][i].rname = n.name]
    IN  /\ scan' = IF force THEN [next EXCEPT !.at = "force", !.doc = i] ELSE next
        /\ Done(IF n.at # c.at /\ c.ps = "conflicted" THEN Work
                ELSE Because(Recorded(UpdateRemote(Undoing(Work, i, c), i, c, Listed(n), force, ~force, TRUE), i, force),
                             "forced", force /\ c.ps \notin {"synchronized", "remotely_modified", "remotely_created"}))
NewNode(n) ==
    IF RowOf(Work, n.id) # None
    THEN scan' = Idle /\ Set(Hold(Work, "scan", {})) /\ calm' = "no"
    ELSE /\ Unheld(Work) # {} /\ scan' = [scan EXCEPT !.nodes = @ \ {n}]
         /\ Done(Insert(Work, RemoteRow(n.id, n)))
HandleNode(n) ==
    /\ scan.at = "nodes" /\ n \in scan.nodes /\ Nothing /\ UNCHANGED left
    /\ IF n.name \in filters THEN scan' = [scan EXCEPT !.nodes = @ \ {n}] /\ Done(Work)
       ELSE LET of == {i \in scan.rows : held["scan"][i].ref = n.id}
            IN  IF of = {} THEN NewNode(n) ELSE KnownNode(Min(of), n)

(* force_remote: the time of the change is recorded already *)
ForceRemote ==
    /\ scan.at = "force" /\ Nothing /\ UNCHANGED left
    /\ scan' = [scan EXCEPT !.at = "nodes", !.doc = None]
    /\ LET c == held["scan"][scan.doc]
           w == Because(Because(Work, "recorded", ~c.cur), "busy", pc # "idle" /\ cur = scan.doc)
       IN  Done(ForceSync(w, scan.doc, c, "synchronized", "modified", "remotely_modified"))

(* What is left of the rows has no document any more. *)
HandleMissingIf(i, active) ==
    /\ scan.at = "nodes" /\ scan.nodes = {} /\ i \in scan.rows /\ Nothing /\ UNCHANGED left
    /\ scan' = [scan EXCEPT !.rows = @ \ {i}]
    /\ Done(IF held["scan"][i].ps \in active THEN Work ELSE DeleteRemote(Work, i))
HandleMissingMutant(i) ==                         \* mutant: a row at rest is left alone
    HandleMissingIf(i, {"locally_created", "locally_modified", "synchronized"})
HandleMissing(i) == HandleMissingIf(i, {"locally_created", "locally_modified"})
ScanEnds ==
    /\ scan.at = "nodes" /\ scan.nodes = {} /\ scan.rows = {} /\ Nothing /\ UNCHANGED left
    /\ scan' = Disk /\ Done(Hold(Work, "scan", {}))

-------------------------------------------------------------------------------
(* Then the disk, for what the local watcher has missed.                   *)

(* The rows by name: the last one wins. *)
ByName(n) == LET of == {i \in Known(held["disk"]) : held["disk"][i].name = n} IN IF of = {} THEN None ELSE Max(of)

LocalList ==
    /\ scan.at = "disk" /\ Nothing /\ UNCHANGED left
    /\ scan' = [scan EXCEPT !.at = "walk", !.files = {n \in Names : disk[n] # None}]
    /\ Done(Hold(Work, "disk", Rows(Work)))
LocalCheck(n) ==
    /\ scan.at = "walk" /\ n \in scan.files /\ Nothing /\ UNCHANGED left
    /\ LET f == disk[n]
           i == ByName(n)
           c == held["disk"][i]
           ref == IF f = None THEN None ELSE f.ref
       IN  /\ scan' = [scan EXCEPT !.files = @ \ {n}, !.seen = @ \cup ({ref} \ {None})]
           /\ i = None => Unheld(Work) # {}
           /\ Done(IF f = None THEN Work
                   ELSE IF i = None
                   THEN IF ref = None THEN Insert(Work, LocalRow(n, f.data)) ELSE Work
                   ELSE IF c.ps # "synchronized" \/ c.proc \/ c.ldig \in {None, f.data} THEN Work
                   ELSE UpdateLocal(Undoing(Work, i, c), i, [c EXCEPT !.ldig = f.data, !.ls = "modified"],
                                    n, TRUE, TRUE))
(* _process_pending_deletions: not those whose reference was seen elsewhere. *)
MissingFrom(seen) == {i \in Known(held["disk"]) : LET c == held["disk"][i]
                        IN  /\ i = ByName(c.name) /\ c.ps = "synchronized"
                            /\ disk[c.name] = None /\ c.ref \notin seen}
LocalMissingIf(seen) ==
    /\ scan.at = "walk" /\ scan.files = {} /\ Nothing /\ UNCHANGED left
    /\ scan' = [scan EXCEPT !.at = "delete", !.rows = MissingFrom(seen)]
    /\ LET marks == {disk[n].ref : n \in {m \in Names : disk[m] # None}} \ {None}
           w == Because(Work, "slipped", \E i \in MissingFrom(scan.seen) : held["disk"][i].ref \in marks)
       IN  Done(Because(w, "untracked", events = <<>> /\ MissingFrom({}) # MissingFrom(scan.seen)))
LocalMissingMutant == LocalMissingIf({})          \* mutant: a file that was moved is a deleted one
LocalMissing == LocalMissingIf(scan.seen)
LocalDelete(i) ==
    /\ scan.at = "delete" /\ i \in scan.rows /\ Nothing /\ UNCHANGED left
    /\ scan' = [scan EXCEPT !.rows = @ \ {i}]
    /\ LET n == held["disk"][i].name IN Done(DeleteDoc(Because(Work, "slipped", disk[n] # None), n))
LocalEnds ==
    /\ scan.at = "delete" /\ scan.rows = {} /\ Nothing /\ UNCHANGED left
    /\ scan' = Idle /\ Set(Hold(Work, "disk", {}))
    /\ calm' = IF calm = "scan" THEN "yes" ELSE calm

-------------------------------------------------------------------------------
(* A processor.  It holds a copy of the row from Take to Finish.           *)

Handlers == {"locally_created", "locally_modified", "locally_resolved", "locally_deleted", "locally_moved",
             "remotely_created", "remotely_modified", "remotely_deleted", "conflicted"}
Inconsistent == {"unknown_deleted", "deleted_unknown"}
C == held["processor"][cur]
There == C.ref \in Live(nodes)
Here(w) == w.disk[C.name]

Finish(w) ==
    /\ Done([w EXCEPT !.row = IF w.row[cur] = None THEN @ ELSE [@ EXCEPT ![cur].proc = FALSE],
                      !.held["processor"][cur] = None])
    /\ pc' = "idle" /\ cur' = None /\ answer' = None
Go(w, to, what) == Done(w) /\ pc' = to /\ answer' = what /\ UNCHANGED cur
(* increase_error, _postpone_pair: the getters of the queues ignore the pair. *)
Fail(w) == Finish([w EXCEPT !.later = @ \cup {cur}, !.queued = @ \ {cur}])
(* NotFound: nothing will bring the pair back. *)
Drop(w) == Finish(Because(w, "dropped", TRUE))
(* synchronize_state: unless the version has changed. *)
Synchronize(w, c) ==
    IF w.row[cur] = None \/ ~c.cur THEN w
    ELSE [w EXCEPT !.row[cur].ls = "synchronized", !.row[cur].rs = "synchronized",
                   !.row[cur].ps = "synchronized", !.row[cur].ldig = c.ldig, !.row[cur].proc = FALSE]

At(step) == pc = step /\ UNCHANGED <<events, scan>>
Reached == UNCHANGED left
Alone == UNCHANGED <<left, fresh>>
Unreached(what) == Spend("fail") /\ UNCHANGED fresh /\ what

Take(i) ==
    /\ At("idle") /\ i \in queued /\ Alone
    /\ LET w == [Work EXCEPT !.queued = @ \ {i}]
           r == row[i]
       IN  IF r = None \/ i \in later THEN Done(w) /\ UNCHANGED proc
           ELSE IF r.ps \in {"synchronized", "unsynchronized"} THEN Done(w) /\ UNCHANGED proc
           ELSE IF r.ps \in Inconsistent THEN Done(Remove(w, i)) /\ UNCHANGED proc
           ELSE IF r.ps \notin Handlers THEN Done([w EXCEPT !.later = @ \cup {i}]) /\ UNCHANGED proc
           ELSE /\ Done([w EXCEPT !.row[i].proc = TRUE, !.held["processor"][i] = Copy(r)])
                /\ cur' = i /\ answer' = None
                /\ pc' = IF r.ps \in {"locally_modified", "locally_moved"} /\ r.ref # None THEN "check" ELSE r.ps

(* _remote_has_drifted: a server that does not answer has not changed.       *)
Drifted == There /\ nodes[C.ref].at # C.at
CheckIf(compares) ==
    /\ At("check") /\ UNCHANGED fresh
    /\ \/ /\ Reached
          /\ IF compares /\ Drifted THEN Finish(ForceSync(Work, cur, C, "modified", "modified", "conflicted"))
             ELSE Go(Because(Work, "recorded", scan.at = "force" /\ scan.doc = cur), C.ps, IF There THEN nodes[C.ref].at ELSE None)
       \/ Spend("fail") /\ Go(Because(Work, "unreachable", Drifted), C.ps, None)
CheckMutant == CheckIf(FALSE)                     \* mutant: the upload does not look first
Check == CheckIf(TRUE)

Conflicted ==
    /\ At("conflicted") /\ UNCHANGED fresh
    /\ IF C.ls = "moved" \/ C.ref = None THEN Reached /\ Finish(Conflict(Work, cur))
       ELSE \/ Reached /\ Finish(IF Drifted THEN Conflict(Work, cur)
                                 ELSE Synchronize(Work, C))
            \/ Spend("fail") /\ Finish(Synchronize(Because(Work, "unreachable", Drifted), C))

(* stream_content *)
Download(to) ==
    \/ Reached /\ UNCHANGED fresh
       /\ IF There THEN Go(Work, to, nodes[C.ref]) ELSE Fail(Work)
    \/ Unreached(Fail(Work))

(* A file that is there already, and bound to nothing, is taken for it.      *)
RemotelyCreated ==
    /\ At("remotely_created")
    /\ LET f == disk[C.name]
       IN  IF f # None /\ f.ref = C.ref THEN Alone /\ Finish(Conflict(Work, cur))
           ELSE IF f # None /\ f.ref = None
           THEN Alone /\ Finish(Synchronize([Because(Work, "adopted", TRUE) EXCEPT !.disk[C.name].ref = C.ref],
                                            [C EXCEPT !.ldig = f.data]))
           ELSE IF disk[C.rname] # None THEN Alone /\ Fail(Work)
           ELSE Download("place")
Settled(w, c, n) == Synchronize(UpdateLocal(Undoing(w, cur, c), cur, c, n, FALSE, FALSE), c)
Place ==
    /\ At("place") /\ Alone
    /\ LET w == [Transfer(Work, answer.data) EXCEPT !.disk[C.rname] = [data |-> answer.data, ref |-> C.ref]]
       IN  IF disk[C.rname] # None THEN Fail(Work)
           ELSE Finish(Settled(w, [C EXCEPT !.ldig = answer.data], C.rname))

(* The content is compared with that of the last upload. *)
Equal == C.ldig = C.rdig \/ (C.rdig # None /\ disk[C.name] # None /\ disk[C.name].data = C.rdig)
RemotelyModified ==
    /\ At("remotely_modified")
    /\ IF C.ldig # None /\ ~Equal THEN Download("replace")
       ELSE /\ Alone
            /\ LET w == Because(Work, IF C.ldig = None THEN "unborn" ELSE "same digest", TRUE)
                   f == disk[C.name]
               IN  IF C.rname = C.name THEN Finish(Synchronize(w, C))
                   ELSE IF f = None \/ disk[C.rname] # None THEN Fail(Work)
                   ELSE Finish(Settled([w EXCEPT !.disk[C.name] = None, !.disk[C.rname] = f], C, C.rname))
(* _update_remotely: the file is deleted before the new one has its place.   *)
Unsent(n) == disk[n] # None /\ row[cur] # None /\ row[cur].ldig = disk[n].data /\ disk[n].data \notin shared
Replace ==
    /\ At("replace") /\ Alone
    /\ LET f == disk[C.name]
           w == Lose(Transfer([Work EXCEPT !.disk[C.name] = None], answer.data), "disk", Unsent(C.name))
           new == [data |-> answer.data, ref |-> IF f = None \/ f.ref = None THEN None ELSE C.ref]
           c == [C EXCEPT !.ldig = answer.data]
       IN  IF w.disk[C.rname] # None THEN Fail(w)
           ELSE Go([UpdateLocal(Undoing([w EXCEPT !.disk[C.rname] = new], cur, c), cur, c, C.rname, FALSE, FALSE)
                      EXCEPT !.held["processor"][cur].ldig = answer.data], "refresh", None)
(* _refresh_remote, with the path of before the download; no answer is ignored. *)
Told(w) == LET i == RowOf(w, C.ref) IN Answer(C.ref, w.nodes[C.ref], IF i = None THEN None ELSE w.row[i].rdig)
Refresh ==
    /\ At("refresh") /\ UNCHANGED fresh
    /\ \/ /\ Reached
          /\ IF ~There THEN Finish(Synchronize(Work, C))
             ELSE Finish(Synchronize(Recorded(UpdateRemote(Work, cur, C, Told(Work), FALSE, FALSE, FALSE), cur, FALSE), C))
       \/ Spend("fail") /\ Finish(Synchronize(Work, C))

(* The file goes to the trash; another file than the one of the document     *)
(* stays, and the row with it.                                               *)
RemotelyDeleted ==
    /\ At("remotely_deleted") /\ Alone
    /\ IF disk[C.name] = None \/ disk[C.name].ref # C.ref THEN Finish(Work)
       ELSE IF C.ls = "deleted" THEN Finish(Remove(Work, cur))
       ELSE Finish(Remove([Work EXCEPT !.disk[C.name] = None], cur))

(* The content of the document becomes data, or the document is created.     *)
Sent(w, d, n, data) ==
    Transfer([Lose(w, "server", pc = "locally_modified" /\ w.nodes[d].data \notin w.shared)
                EXCEPT !.nodes[d] = [name |-> n, data |-> data, at |-> fresh]], data)
Upload(w, d, n, to, unfiltered) ==
    /\ Reached /\ fresh \in Docs /\ fresh' = fresh + 1
    /\ Go(Sent(w, d, n, disk[C.name].data), to, [id |-> d, name |-> n, at |-> fresh, data |-> disk[C.name].data,
                                        unfiltered |-> unfiltered])
Refiltered(w) == IF answer.unfiltered THEN [w EXCEPT !.filters = @ \cup {C.name}] ELSE w

(* The folder does not answer: the document or its parent does not exist.    *)
LocallyCreated ==
    /\ At("locally_created") /\ UNCHANGED fresh
    /\ \/ /\ Reached
          /\ Go([Work EXCEPT !.filters = @ \ {C.name}], "send", [unfiltered |-> C.name \in filters])
       \/ Spend("fail") /\ Drop(Work)
(* stream_file: a document of that name takes the content.                   *)
SendFile ==
    /\ At("send")
    /\ IF disk[C.name] = None THEN Alone /\ Fail(Refiltered(Work))
       ELSE \/ \E d \in Named(nodes, C.name) :
                  Upload(Work, d, C.name, "sent", answer.unfiltered)
            \/ Named(nodes, C.name) = {} /\ Alone /\ Go(Work, "create", answer)
            \/ Unreached(Go(Work, "create", answer))
Create ==
    /\ At("create")
    /\ IF disk[C.name] = None THEN Alone /\ Fail(Refiltered(Work))
       ELSE IF Named(nodes, C.name) # {}
       THEN Alone /\ Finish(ForceSync(Refiltered(Work), cur, C, "modified", "modified", "conflicted"))
       ELSE \/ Upload(Work, fresh, C.name, "sent", answer.unfiltered)
            \/ Unreached(Fail(Refiltered(Work)))
(* The digest is the one of the file as it is when the upload is over.       *)
FileSent ==
    /\ At("sent") /\ Alone
    /\ LET f == disk[C.name]
           w == Because([Work EXCEPT !.disk[C.name].ref = answer.id], "during", f.data # answer.data)
           c == [C EXCEPT !.ldig = f.data]
           other == \E i \in Rows(Work) \ {cur} : row[i].ref = answer.id
       IN  IF f = None THEN Fail(Refiltered(Work))
           ELSE IF other THEN Fail(w)
           ELSE Finish(Synchronize(UpdateRemote(w, cur, c, answer @@ [digest |-> f.data], FALSE, FALSE, FALSE), c))

LocallyModified ==
    /\ At("locally_modified")
    /\ IF Equal
       THEN /\ UNCHANGED fresh
            /\ \/ Reached /\ There
                  /\ LET w == Because(Work, "same digest", nodes[C.ref].data # C.ldig)
                     IN  Finish(Synchronize(UpdateRemote(w, cur, C, Told(w), FALSE, FALSE, TRUE), C))
               \/ Reached /\ ~There /\ Drop(Work)
               \/ Spend("fail") /\ Drop(Work)
       ELSE IF disk[C.name] = None \/ ~There THEN Alone /\ Fail(Work)
       ELSE \/ Upload(Because(Work, "window", answer # nodes[C.ref].at), C.ref,
                         nodes[C.ref].name, "updated", FALSE)
            \/ Unreached(Fail(Work))
Updated ==
    /\ At("updated") /\ Alone
    /\ LET f == disk[C.name]
       IN  IF f = None THEN Fail(Work)
           ELSE Finish(Synchronize(UpdateRemote(Because(Work, "during", f.data # answer.data), cur, C,
                                   answer @@ [digest |-> f.data], FALSE, FALSE, TRUE), C))

(* The user keeps the file: the server is not looked at.                     *)
LocallyResolved ==
    /\ At("locally_resolved") /\ Alone
    /\ LET f == disk[C.name]
           c == IF f = None THEN C ELSE [C EXCEPT !.ldig = f.data]
           w == IF f = None THEN Work ELSE UpdateLocal(Work, cur, c, C.name, FALSE, FALSE)
       IN  Go([w EXCEPT !.held["processor"][cur] = c],
              IF C.ref = None THEN "locally_created" ELSE "locally_modified", None)

LocallyDeleted ==
    /\ At("locally_deleted") /\ UNCHANGED fresh
    /\ IF C.ref = None \/ C.rs = "deleted" THEN Reached /\ Finish(Remove(Work, cur))
       ELSE \/ Reached /\ ~There /\ Fail(Work)
            \/ Reached /\ There
               /\ Finish(Remove(Lose([Work EXCEPT !.nodes[C.ref] = None], "document", C.ref \notin wanted), cur))
            \/ Spend("fail") /\ Fail(Work)

(* The time of the change is the one of the new name.                        *)
LocallyMoved ==
    /\ At("locally_moved")
    /\ IF C.rname \in {None, C.name} THEN Alone /\ Finish(Synchronize(Work, C))
       ELSE \/ (~There \/ Named(nodes, C.name) # {}) /\ Alone /\ Fail(Work)
            \/ /\ There /\ Named(nodes, C.name) = {} /\ Reached /\ fresh \in Docs /\ fresh' = fresh + 1
               /\ LET n == [nodes[C.ref] EXCEPT !.name = C.name, !.at = fresh]
                      w == [Work EXCEPT !.nodes[C.ref] = n]
                      told == UpdateRemote(w, cur, C, Answer(C.ref, n, None), FALSE, FALSE, TRUE)
                  IN  Finish(Synchronize(Recorded(told, cur, FALSE), C))
            \/ Unreached(Fail(Work))

(* The timer of the pairs in error.                                          *)
Retry(i) ==
    /\ i \in later /\ Done([Work EXCEPT !.later = @ \ {i}, !.queued = @ \cup {i}])
    /\ UNCHANGED <<fresh, events, scan, proc, left>>

-------------------------------------------------------------------------------
(* The file is the one of its document, or its document has just been listed. *)
Start(rdig) ==
    [name |-> "a", ls |-> "synchronized", rs |-> "synchronized", ps |-> "synchronized", ref |-> 1,
     rname |-> "a", at |-> 1, ldig |-> 1, rdig |-> rdig, proc |-> FALSE]
First == [name |-> "a", data |-> 1, at |-> 1]
Init ==
    /\ left \in Budgets
    /\ nodes = [d \in Docs |-> IF d = 1 THEN First ELSE None]
    /\ LET listed == left["listed"] = 1
       IN  /\ disk = [n \in Names |-> IF n = "a" /\ ~listed THEN [data |-> 1, ref |-> 1] ELSE None]
           /\ row = [i \in Ids |-> IF i # 1 THEN None ELSE IF listed THEN RemoteRow(1, First)
                                   ELSE Start(IF left["uploaded"] = 1 THEN 1 ELSE None)]
           /\ queued = {i \in Ids : i = 1 /\ listed} /\ shared = {d \in Docs : d = 1 /\ ~listed}
    /\ held = [a \in Actors |-> [i \in Ids |-> None]]
    /\ later = {} /\ signals = {} /\ filters = {} /\ wanted = {} /\ lost = {} /\ reasons = {}
    /\ fresh = 2 /\ events = <<>> /\ scan = Idle /\ pc = "idle" /\ cur = None /\ answer = None
    /\ calm = "no"

Users == \/ \E n \in Names : UserCreates(n) \/ UserWrites(n) \/ UserDeletes(n) \/ \E to \in Names : UserMoves(n, to)
         \/ \E d \in Docs : OtherWrites(d) \/ OtherDeletes(d) \/ \E n \in Names : OtherCreates(d, n) \/ OtherRenames(d, n)
         \/ \E i \in Ids : KeepLocal(i) \/ KeepRemote(i)
Watching == \/ HandleEvent \/ ScanBegins \/ ScanLists \/ ForceRemote \/ ScanEnds
            \/ \E n \in scan.nodes : HandleNode(n)
            \/ \E i \in Ids : HandleMissing(i) \/ LocalDelete(i)
            \/ LocalList \/ LocalMissing \/ LocalEnds \/ \E n \in Names : LocalCheck(n)
Processing == \/ \E i \in Ids : Take(i) \/ Retry(i) \/ ConflictResolver(i)
              \/ Check \/ Conflicted \/ RemotelyCreated \/ Place \/ RemotelyModified
              \/ Replace \/ Refresh \/ RemotelyDeleted \/ LocallyCreated \/ SendFile \/ Create \/ FileSent
              \/ LocallyModified \/ Updated \/ LocallyResolved \/ LocallyDeleted \/ LocallyMoved
Next == Users \/ Watching \/ Processing
Spec == Init /\ [][Next]_vars

-------------------------------------------------------------------------------
(* Nothing that only one side had is destroyed: not the content of a         *)
(* document under the new version of its file, not an edit of a file that    *)
(* its row records; and no document is deleted, or synchronised no more, but *)
(* because the user has deleted its file.  Except for a named race.          *)
Explains ==
    [server   |-> {"window", "recorded", "same digest", "resolver"},
     disk     |-> {"stale", "forced"},
     document |-> {"slipped", "unborn"}]
Kept == \A what \in lost : reasons \cap Explains[what] # {}

(* After a scan that found nothing, the folder is what the server has.       *)
Aligned ==
    /\ \A d \in Live(nodes) : \/ nodes[d].name \in filters
                              \/ disk[nodes[d].name] # None /\ disk[nodes[d].name].data = nodes[d].data
    /\ \A n \in Names : disk[n] # None => Named(nodes, n) # {}
Settles == calm = "yes" /\ reasons \subseteq {"forced", "resolver"} /\ (\A i \in Rows(Work) : row[i].ps # "conflicted") => Aligned
===============================================================================
