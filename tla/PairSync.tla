------------------------------- MODULE PairSync -------------------------------
(***************************************************************************)
(* The bidirectional synchronisation of one file of the synchronised       *)
(* folder: the file on the disk, the documents of that name on the server, *)
(* the row of the pair in the database, and the three threads that meet    *)
(* there: the local watcher (events of the file system), the remote        *)
(* watcher (changes polled from the server) and a processor.               *)
(*                                                                         *)
(* A step ends where its thread waits for the server: what a handler does  *)
(* on the disk and in the database between two calls to the server is one  *)
(* step.  The two watchers read a row and write it back later, each step   *)
(* apart.  The parent folder stays synchronised and writable, and the      *)
(* deletion of a file is asked to the server without a prompt.             *)
(***************************************************************************)
EXTENDS PairStates, Sequences, FiniteSets

CONSTANTS Docs,           \* identifiers of documents, 1 .. n
          Rounds,         \* how many times both users act once all is quiet
          Burst,          \* how many times each of them acts in a round
          MaxErrors,      \* how often a pair in error is tried (Engine.MAX_ERRORS)
          MaxStops,       \* how many times the application stops or crashes
          Others          \* what other users do on the server: edit, trash, restore

VARIABLES
    disk,       \* the file: its content, its xattr (0: none), a new modification time?
    server,     \* the documents: [life, data]
    row,        \* the row of the pair, None when there is none
    doc,        \* the DocPair each thread holds, None when it holds none
    events,     \* watchdog_queue of the local watcher
    event,      \* the event the local watcher is handling
    changes,    \* the documents the audit log has news of
    summary,    \* the answer of GetChangesSummary: contents still to be handled
    deletions,  \* delete_queue of _update_remote_states: a copy to verify
    queued,     \* is the pair in the queue of the manager?
    later,      \* is the pair in the queue of errors?
    errors,     \* error_count of the row
    conflict,   \* newConflict, not handled yet by conflict_resolver
    pc,         \* where the processor is
    handler,    \* the handler it has chosen
    info,       \* the last answer of the server: the document and its content
    running,    \* is the application up, its start-up scan done?
    rounds, local, remote, stops   \* what the users and the system may still do

sync    == <<row, doc, queued, later, errors, conflict>>
watchers == <<events, event, changes, summary, deletions>>
proc    == <<pc, handler, info>>
users   == <<rounds, local, remote, stops>>

(* History: what the properties tell apart. *)
VARIABLES
    unseen,     \* the live content on the server was never read by the client
    during,     \* it was written after the processor last read the document
    recorded,   \* the file holds an edit the database knows and the server does not
    wanted,     \* the user has removed the file since it was last synchronised
    lost        \* the news that nobody will act on, by the reason why
history == <<unseen, during, recorded, wanted, lost>>

vars == <<disk, server, sync, watchers, proc, running, users, history>>

Threads  == {"processor", "localWatcher", "remoteWatcher"}
NoFile   == [data |-> None, id |-> 0, new |-> FALSE]
NoAnswer == [ref |-> 0, data |-> None, doc |-> None]
Exists   == disk.data # None
Live     == {u \in Docs : server[u].life = "live"}
IsLive(u) == u \in Live
Knows(refs) == row # None /\ row.ref \in refs
Unused   == {u \in Docs : server[u].life = "none"}

(* is_equal_digests: the digests, else what is on the disk right now. *)
EqualDigests(ldig, rdig) == ldig = rdig \/ (rdig # None /\ disk.data = rdig)

-------------------------------------------------------------------------------
(* Writing the row.  Every copy of another thread loses the version that   *)
(* versioned writes increase, and the row that a removal or an insertion   *)
(* replaces.                                                               *)

OutOfDate(me) ==
    [t \in Threads |-> IF t = me \/ doc[t] = None THEN doc[t] ELSE [doc[t] EXCEPT !.cur = FALSE]]

(* The row becomes r, the threads hold copies, and the pair is queued as a  *)
(* pair in state ps ("none": it is not).                                    *)
Write(r, copies, ps) ==
    /\ row' = r
    /\ doc' = IF r = None /\ row # None
              THEN [t \in Threads |-> IF copies[t] = None THEN None
                                      ELSE [copies[t] EXCEPT !.here = FALSE]]
              ELSE copies
    /\ queued' = (queued \/ Queues(ps))
    /\ conflict' = (conflict \/ ps = "conflicted")
StateOf(r) == IF r = None THEN "none" ELSE r.ps

(* The other watcher has written the row since the copy was read: the write *)
(* of the copy undoes that one.                                             *)
Undoes(d) == IF row # None /\ d.here /\ \E f \in {"ls", "rs", "ldig", "rdig"} : row[f] # d[f]
             THEN {"undone"} ELSE {}

Emit(list) ==   \* the events of the file system, a repeated one said once
    events' = IF ~running THEN events
              ELSE IF events # <<>> /\ list # <<>> /\ events[Len(events)] = Head(list)
              THEN events \o Tail(list) ELSE events \o list

-------------------------------------------------------------------------------
(* The users.                                                              *)

UserWrites ==
    /\ local > 0 /\ local' = local - 1
    /\ \E c \in Contents \ {disk.data} : disk' = [disk EXCEPT !.data = c, !.new = TRUE]
    /\ Emit(IF Exists THEN <<"modified">> ELSE <<"created">>)
    /\ recorded' = FALSE
    /\ UNCHANGED <<server, sync, event, changes, summary, deletions, proc, running, rounds, remote,
                   stops, unseen, during, wanted, lost>>

UserDeletes ==
    /\ local > 0 /\ Exists /\ local' = local - 1
    /\ disk' = NoFile
    /\ Emit(<<"deleted">>)
    /\ wanted' = TRUE /\ recorded' = FALSE
    /\ UNCHANGED <<server, sync, event, changes, summary, deletions, proc, running, rounds, remote,
                   stops, unseen, during, lost>>

(* Somebody else edits, trashes or restores the document, on the server. *)
ServerDoes(u, was, now) ==
    /\ remote > 0 /\ remote' = remote - 1
    /\ server[u].life = was
    /\ server' = [server EXCEPT ![u] = now]
    /\ changes' = changes \cup {u}
    /\ unseen' = (now.life = "live" /\ (unseen \/ now.data # server[u].data))
    /\ during' = (during \/ now.data # server[u].data)
    /\ UNCHANGED <<disk, sync, events, event, summary, deletions, proc, running, rounds, local,
                   stops, recorded, wanted, lost>>
ServerEdits(u)  == "edit" \in Others /\ \E c \in Contents \ {server[u].data} :
                       ServerDoes(u, "live", [life |-> "live", data |-> c])
ServerTrashes(u) == "trash" \in Others /\ ServerDoes(u, "live", [server[u] EXCEPT !.life = "trash"])
ServerRestores(u) == /\ "restore" \in Others /\ Live = {} /\ (row = None \/ Knows({0, u}))
                     /\ ServerDoes(u, "trash", [server[u] EXCEPT !.life = "live"])

(* resolve_with_local, resolve_with_remote: in the window of the conflicts. *)
UserResolves(ls, rs) ==
    /\ row # None /\ row.ps = "conflicted" /\ running
    /\ local > 0 /\ local' = local - 1
    /\ Write(Forced(row, ls, rs), doc, PairState(ls, rs))
    /\ errors' = 0
    /\ unseen' = IF ls = "resolved" /\ \E u \in Docs : server[u].data = row.rdig
                 THEN FALSE ELSE unseen
    /\ recorded' = IF ls = "synchronized" THEN FALSE ELSE recorded
    /\ UNCHANGED <<disk, server, watchers, proc, running, rounds, remote, stops, later, during,
                   wanted, lost>>
KeepLocal  == UserResolves("resolved", "unknown")
KeepRemote == UserResolves("synchronized", "modified")

-------------------------------------------------------------------------------
(* The local watcher.                                                      *)

LocalEdit(d) == /\ d.ls \in {"created", "modified", "resolved"} /\ d.ldig = disk.data
                /\ \A u \in Live : server[u].data # disk.data

(* handle_watchdog_event on a path the database does not know. *)
HandleUnknown ==
    /\ running /\ event = "none" /\ events # <<>> /\ row = None
    /\ events' = Tail(events)
    /\ IF Head(events) = "deleted" \/ ~Exists
       THEN UNCHANGED <<row, doc, queued, conflict, errors, recorded>>
       ELSE /\ Write(LocalRow(disk.data), doc, "locally_created")
            /\ errors' = 0
            /\ recorded' = TRUE
    /\ UNCHANGED <<disk, server, later, event, changes, summary, deletions, proc, running,
                   users, unseen, during, wanted, lost>>

(* The file comes back before its deletion was sent: it was a replacement.  *)
Replaced(r, e) == e = "created" /\ r.ls = "deleted" /\ r.ps = "locally_deleted" /\ Exists

(* handle_watchdog_event on a known pair: the deletion of a pair that is    *)
(* ignored, else the pair is acquired, or the event is dropped.             *)
TakeEvent ==
    /\ running /\ event = "none" /\ events # <<>> /\ row # None
    /\ events' = Tail(events)
    /\ LET e == Head(events)
           swap == [Copy(row) EXCEPT !.ls = "modified", !.rs = "unknown"]
           r == IF Replaced(row, e) THEN WithLocal(row, swap, disk.data) ELSE row
           out == IF Replaced(row, e) THEN OutOfDate("none") ELSE doc
           ask == IF Replaced(row, e) THEN r.ps ELSE "none"
       IN  IF row.ps = "unsynchronized"
           THEN /\ Write(IF e = "deleted" THEN None ELSE row, doc, "none")
                /\ UNCHANGED event
           ELSE IF row.proc # "none"
           THEN /\ Write(r, out, ask)
                /\ UNCHANGED event
           ELSE /\ Write([r EXCEPT !.proc = "localWatcher"],
                         [out EXCEPT !["localWatcher"] = Copy(r)], ask)
                /\ event' = e
    /\ UNCHANGED <<disk, server, later, errors, changes, summary, deletions, proc, running, users,
                   history>>

ReleasedByNobody(t, r) == r    \* mutant: release_state is forgotten
ReleasedBy(t, r) == IF r # None /\ r.proc = t THEN [r EXCEPT !.proc = "none"] ELSE r
EventDone(r, copies, ps) ==
    /\ Write(ReleasedBy("localWatcher", r), [copies EXCEPT !["localWatcher"] = None], ps)
    /\ event' = "none"
    /\ UNCHANGED <<later, errors, changes, summary, deletions, proc, running, users, server, unseen,
                   during, wanted>>

(* _handle_delete_on_known_pair, Engine.delete_doc: a file that is there    *)
(* again is left alone, a document the server never had is forgotten.       *)
HandleDeletedIf(back) ==
    /\ event = "deleted"
    /\ IF row = None \/ back
       THEN EventDone(row, doc, "none")
       ELSE IF row.rs = "unknown" THEN EventDone(None, doc, "none")
       ELSE EventDone(WithLocalDeleted(row), doc, "locally_deleted")
    /\ lost' = IF row # None /\ row.rs = "unknown" /\ row.ref # 0 THEN lost \cup {"resolved"}
               ELSE lost
    /\ UNCHANGED <<disk, events, recorded>>
(* Mutant: the file is not looked for. *)
HandleDeletedBlindly == HandleDeletedIf(FALSE)
HandleDeleted == HandleDeletedIf(row # None /\ Exists /\ disk.id \in {0, row.ref})

(* _handle_watchdog_event_on_known_acquired_pair.                           *)
SameContent(d) ==
    \/ event = "created" /\ disk.id = 0 /\ d.ldig = disk.data
    \/ d.ps = "synchronized" /\ d.ldig = disk.data
StillCopied(d) ==
    /\ event = "modified"
    /\ IF SizeOf(disk.data) # d.size THEN d.ps \notin {"synchronized", "locally_resolved"}
                                     ELSE d.ldig = Unaccessible
HandleWritten ==
    LET d == doc["localWatcher"]
        e == IF d.ps = "synchronized" THEN [d EXCEPT !.ldig = disk.data, !.ls = "modified"] ELSE d
        marked == [disk EXCEPT !.id = IF event = "modified" /\ d.ref # 0 THEN d.ref ELSE disk.id]
    IN  /\ event \in {"created", "modified"}
        /\ lost' = IF ~Exists \/ SameContent(d) THEN lost
                   ELSE IF ~StillCopied(d) THEN lost \cup Undoes(d)
                   ELSE IF queued \/ later THEN lost
                   ELSE lost \cup {"copied"}
        /\ IF ~Exists
           THEN /\ EventDone(row, doc, "none")
                /\ UNCHANGED <<disk, events, recorded>>
           ELSE IF SameContent(d)
           THEN /\ EventDone(row, doc, "none")
                /\ disk' = IF d.ps = "synchronized" /\ ~(event = "created" /\ disk.id = 0)
                           THEN [disk EXCEPT !.id = IF disk.id = 0 THEN d.ref ELSE disk.id,
                                             !.new = FALSE]
                           ELSE disk
                /\ UNCHANGED <<events, recorded>>
           ELSE IF StillCopied(d)
           THEN /\ EventDone(row, doc, "none")
                /\ disk' = IF disk.id = 0 THEN [disk EXCEPT !.id = d.ref] ELSE disk
                /\ UNCHANGED <<events, recorded>>
           ELSE /\ EventDone(WithLocal(row, e, disk.data), OutOfDate("none"), PairState(e.ls, e.rs))
                /\ disk' = [marked EXCEPT !.new = FALSE]
                /\ recorded' = (recorded \/ LocalEdit(e))
                /\ UNCHANGED events

-------------------------------------------------------------------------------
(* The remote watcher.                                                     *)

(* _get_changes: the log id is stored before the changes are handled.       *)
Poll ==
    /\ running /\ changes # {} /\ summary = <<>> /\ deletions = None
    /\ doc["remoteWatcher"] = None
    /\ summary' = [u \in changes |-> IF IsLive(u) THEN server[u].data ELSE None]
    /\ changes' = {}
    /\ UNCHANGED <<disk, server, sync, events, event, deletions, proc, running, users, history>>

NextChange(u) == summary' = [v \in DOMAIN summary \ {u} |-> summary[v]]
Reading == running /\ doc["remoteWatcher"] = None

(* _update_remote_states: the pair is read, a deletion is put aside. *)
ReadPair(u) ==
    /\ Reading /\ u \in DOMAIN summary /\ Knows({u})
    /\ IF summary[u] = None
       THEN /\ NextChange(u)
            /\ IF row.dedup THEN Write(None, doc, "none") /\ UNCHANGED deletions
               ELSE /\ deletions' = Copy(row)
                    /\ UNCHANGED <<row, doc, queued, conflict>>
       ELSE /\ doc' = [doc EXCEPT !["remoteWatcher"] = Copy(row)]
            /\ UNCHANGED <<row, queued, conflict, summary, deletions>>
    /\ UNCHANGED <<disk, server, later, errors, events, event, changes, proc, running, users,
                   history>>

Agreed(r) == r # None /\ r.ps = "synchronized"
(* The pair is declared synchronised by a digest the database has not       *)
(* followed, and no event is left to correct it.                            *)
DigestLost(r, file) ==
    IF Agreed(r) /\ row # r /\ r.ldig # file.data /\ events = <<>> /\ event = "none"
    THEN {"digest"} ELSE {}

(* The refresh of a known pair; the location of a pair that was never       *)
(* downloaded is written again first.                                       *)
WritePair(u) ==
    /\ u \in DOMAIN summary /\ doc["remoteWatcher"] # None /\ doc["remoteWatcher"].ref = u
    /\ summary[u] # None
    /\ LET d == doc["remoteWatcher"]
           e == IF d.rs # "created" /\ summary[u] # d.rdig THEN [d EXCEPT !.rs = "modified"] ELSE d
           again == d.ps = "remotely_created"
           r == IF again THEN WithLocal(row, e, None) ELSE row
           news == RemoteIsNews(e, u, summary[u])
           new == WithRemote(r, e, u, summary[u])
       IN  /\ Write(new, [(IF news THEN OutOfDate("none") ELSE doc) EXCEPT !["remoteWatcher"] = None],
                    IF again \/ news THEN StateOf(new) ELSE "none")
           /\ lost' = lost \cup DigestLost(new, disk)
                           \cup (IF again \/ news THEN Undoes(d) ELSE {})
           /\ unseen' = (unseen /\ ~(server[u].data = summary[u] /\ EqualDigests(d.ldig, summary[u])))
    /\ NextChange(u)
    /\ UNCHANGED <<disk, server, later, errors, events, event, changes, deletions, proc, running,
                   users, during, recorded, wanted>>

(* A deletion is verified on the server, then marked. *)
VerifyDeletion ==
    /\ running /\ summary = <<>> /\ deletions # None /\ doc["remoteWatcher"] = None
    /\ deletions' = None
    /\ LET gone == row # None /\ row.ref = deletions.ref /\ ~IsLive(deletions.ref)
       IN  Write(IF gone THEN WithRemoteDeleted(row, deletions) ELSE row, doc,
                 IF gone THEN "remotely_deleted" ELSE "none")
    /\ UNCHANGED <<disk, server, later, errors, events, event, changes, summary, proc, running,
                   users, history>>

(* A change of a document no row refers to, gone or of another name.        *)
SkipChange(u) ==
    /\ Reading /\ u \in DOMAIN summary
    /\ ~Knows({u})
    /\ summary[u] = None \/ (row # None /\ ~Knows({0}))
    /\ NextChange(u)
    /\ UNCHANGED <<disk, server, sync, events, event, changes, deletions, proc, running, users,
                   history>>

(* _find_remote_child_match_or_create: a new document, or one whose file is *)
(* already there and is not linked yet.                                     *)
NewDocument(u) ==
    /\ Reading /\ u \in DOMAIN summary /\ summary[u] # None /\ row = None
    /\ NextChange(u)
    /\ Write(RemoteRow(u, summary[u]), doc, "remotely_created")
    /\ errors' = 0
    /\ UNCHANGED <<disk, server, later, events, event, changes, deletions, proc, running, users,
                   history>>

MatchPair(u) ==
    LET d == Copy(row)
        data == summary[u]
        equal == EqualDigests(row.ldig, data)
        e == IF equal THEN d ELSE [d EXCEPT !.rs = "modified"]
        r == WithRemote(row, e, u, data)
        done == WithSynchronized(r, d, FALSE)
    IN  /\ Reading /\ u \in DOMAIN summary /\ row # None /\ row.ref = 0 /\ data # None
        /\ NextChange(u)
        /\ Write(IF equal THEN done ELSE r, OutOfDate("none"), r.ps)
        /\ disk' = IF equal /\ Exists THEN [disk EXCEPT !.id = u] ELSE disk
        /\ IF equal /\ Exists THEN Emit(<<"modified">>) ELSE UNCHANGED events
        /\ recorded' = IF equal THEN FALSE ELSE recorded
        /\ unseen' = IF equal THEN FALSE ELSE unseen
        /\ lost' = IF equal THEN lost \cup DigestLost(done, disk) ELSE lost
        /\ UNCHANGED <<server, later, errors, event, changes, deletions, proc, running, users,
                       during, wanted>>


(* Engine.conflict_resolver. *)
ConflictResolver ==
    /\ conflict /\ running
    /\ LET same == row # None /\ EqualDigests(row.ldig, row.rdig)
       IN  /\ row' = IF same THEN WithSynchronized(row, Copy(row), FALSE) ELSE row
           /\ lost' = IF same THEN lost \cup DigestLost(row', disk) ELSE lost
           /\ recorded' = IF same THEN FALSE ELSE recorded
           /\ unseen' = IF same /\ \E u \in Live : server[u].data = row.rdig THEN FALSE ELSE unseen
    /\ conflict' = FALSE
    /\ UNCHANGED <<disk, server, doc, queued, later, errors, watchers, proc, running, users,
                   during, wanted>>

-------------------------------------------------------------------------------
(* The processor.  What a handler does up to its next call to the server   *)
(* is an outcome: the row, the copy it keeps, the file, the events, and    *)
(* where it goes on ("idle": it is done).                                  *)

Mine == doc["processor"]

Outcome == [at |-> "idle", row |-> row, d |-> None, ask |-> "none", file |-> disk,
            emit |-> <<>>, ref |-> 0, postponed |-> FALSE, copies |-> doc]
End(r)   == [Outcome EXCEPT !.row = r]
Go(place, r, d) == [Outcome EXCEPT !.at = place, !.row = r, !.d = d]
Asking(o, ps) == [o EXCEPT !.ask = ps]
On(o, file, list) == [o EXCEPT !.file = file, !.emit = list]
Postponed(o) == [o EXCEPT !.postponed = TRUE]

(* release_state once the handler is done. *)
Finish(o) ==
    LET over == o.at = "idle"
    IN  /\ pc' = o.at
        /\ Write(IF over THEN ReleasedBy("processor", o.row) ELSE o.row,
                 [o.copies EXCEPT !["processor"] = o.d], o.ask)
        /\ handler' = IF over THEN "none" ELSE handler
        /\ info' = IF over THEN NoAnswer
                   ELSE IF o.ref # 0 THEN [NoAnswer EXCEPT !.ref = o.ref] ELSE info
        /\ later' = (later \/ o.postponed)
        /\ disk' = o.file
        /\ IF o.emit = <<>> THEN UNCHANGED events ELSE Emit(o.emit)
        /\ UNCHANGED <<event, changes, summary, deletions, running, users>>

(* The remote watcher is done with what happened after the server answered. *)
Overtaken ==
    /\ info.ref # 0 /\ server[info.ref] # info.doc
    /\ info.ref \notin changes /\ deletions = None
    /\ info.ref \in DOMAIN summary => doc["remoteWatcher"] # None
(* A deletion that does not find its file leaves the row in the way.       *)
Ghost(o) == o.at = "idle" /\ o.row # None /\ o.row.ps = "remotely_deleted"
(* A new document takes over a file of that name that holds something else. *)
Adopts == /\ pc = "handle" /\ handler = "remotely_created"
          /\ Exists /\ disk.id = 0 /\ disk.data # Mine.rdig
(* The event of an edit was dropped, and the edit the processor finds itself *)
(* is written in the row without queuing the pair.                          *)
Unqueued(o) == /\ o.at = "idle" /\ o.row # None /\ o.row # row /\ o.row.ps = "locally_modified"
               /\ ~Queues(o.ask) /\ ~queued /\ events = <<>> /\ o.emit = <<>> /\ event = "none"
               /\ o.row.ldig # o.row.rdig
(* A deletion marked meanwhile has not changed the version: it is undone.   *)
Buried(o) == Agreed(o.row) /\ row # None /\ row.rs = "deleted" /\ Mine.rs # "deleted"
(* The history after a step that only writes the row and the file.         *)
Noted(o) ==
    LET seen == Agreed(o.row) /\ \E u \in Live : server[u].data = o.file.data
    IN  /\ unseen' = (unseen /\ ~seen)
        /\ recorded' = (recorded /\ ~seen /\ o.file.data = disk.data)
        /\ wanted' = (wanted /\ ~(Agreed(o.row) /\ o.file.data # None))
        /\ lost' = lost \cup DigestLost(o.row, o.file) \cup (IF Overtaken THEN {"answer"} ELSE {})
                        \cup (IF Ghost(o) THEN {"ghost"} ELSE {})
                        \cup (IF Adopts THEN {"adopted"} ELSE {})
                        \cup (IF Unqueued(o) THEN {"unqueued"} ELSE {})
                        \cup (IF Buried(o) THEN {"deletion"} ELSE {})
        /\ UNCHANGED during

(* A step of the processor between two calls to the server. *)
Local(o) ==
    /\ Finish(o) /\ Noted(o)
    /\ UNCHANGED <<server, errors>>

(* A call to the server: the document u becomes now, the answer is kept.   *)
Calls(place, d, u, now) ==
    /\ pc' = place
    /\ server' = [server EXCEPT ![u] = now]
    /\ changes' = IF now = server[u] THEN changes ELSE changes \cup {u}
    /\ info' = [ref |-> u, data |-> now.data, doc |-> now]
    /\ doc' = [doc EXCEPT !["processor"] = d]
    /\ UNCHANGED <<disk, row, queued, later, errors, conflict, events, event, summary, deletions,
                   handler, running, users, lost>>

(* _execute, _get_next_doc_pair: the item is taken and the pair acquired.   *)
Fetches(r) == r.ps \in {"locally_created", "locally_modified", "locally_resolved",
                        "locally_deleted"} /\ r.ref # 0
AcquireOr(postpone) ==
    /\ running /\ pc = "idle" /\ queued
    /\ queued' = FALSE
    /\ IF row = None \/ (row.proc = "none" /\ ~Processable(row.ps))
       THEN UNCHANGED <<row, doc, later, errors, pc, handler>>
       ELSE IF row.proc # "none"                       \* "Pair in use"
       THEN later' = (later \/ postpone) /\ UNCHANGED <<row, doc, errors, pc, handler>>
       ELSE IF row.ps \notin Handlers                  \* "ILLEGAL_STATE"
       THEN /\ errors' = IF errors > MaxErrors THEN errors ELSE errors + 1
            /\ later' = (later \/ errors < MaxErrors)
            /\ UNCHANGED <<row, doc, pc, handler>>
       ELSE /\ row' = [row EXCEPT !.proc = "processor"]
            /\ doc' = [doc EXCEPT !["processor"] = Copy(row)]
            /\ pc' = IF Fetches(row) THEN "fetch" ELSE "handle"
            /\ handler' = row.ps
            /\ UNCHANGED <<later, errors>>
    /\ UNCHANGED <<disk, server, conflict, watchers, info, running, users, history>>
AcquireOrDrop == AcquireOr(FALSE)   \* mutant: a pair in use is not tried again
Acquire == AcquireOr(TRUE)

(* The queue of errors gives the pair back. *)
Retry ==
    /\ running /\ later
    /\ later' = FALSE /\ queued' = TRUE
    /\ UNCHANGED <<disk, server, row, doc, errors, conflict, watchers, proc, running, users, history>>

(* _handle_doc_pair_sync: what the server has of a locally changed pair. *)
FetchInfo ==
    /\ pc = "fetch"
    /\ during' = FALSE
    /\ IF IsLive(Mine.ref)
       THEN /\ pc' = "refresh" /\ doc' = doc
            /\ info' = [ref |-> Mine.ref, data |-> server[Mine.ref].data, doc |-> server[Mine.ref]]
       ELSE /\ pc' = "handle" /\ info' = info
            /\ doc' = [doc EXCEPT !["processor"].ref = 0]
    /\ UNCHANGED <<disk, server, row, queued, later, errors, conflict, watchers, handler, running,
                   users, unseen, recorded, wanted, lost>>

RefreshRemoteIf(changed) ==
    LET d == IF changed THEN [Mine EXCEPT !.rs = "modified"]
 ELSE Mine
        r == WithRemote(row, d, info.ref, info.data)
        conflicted == Refreshed(d, info.ref, info.data).ps = "conflicted"
        read == IF d.here THEN r ELSE None
    IN  /\ pc = "refresh"
        /\ Local(IF conflicted \/ read = None \/ ~Processable(StateOf(read)) THEN End(r)
                 ELSE Go("handle", r, Copy(read)))
RefreshRemoteUnmarked == RefreshRemoteIf(FALSE)   \* mutant
RefreshRemote == RefreshRemoteIf(info.data # Mine.rdig /\ Mine.rdig # None)

-------------------------------------------------------------------------------
(* The handlers.                                                           *)

(* _synchronize_remotely_modified *)
RemotelyModified(r, d) ==
    IF d.ldig # None /\ ~EqualDigests(d.ldig, d.rdig) THEN Go("download", r, d)
                                                      ELSE End(WithSynchronized(r, d, FALSE))

(* _synchronize_remotely_deleted: only the file of that document goes.     *)
RemotelyDeletedUnless(other, r, d) ==
    IF other THEN End(r)
    ELSE IF d.ls \in {"deleted", "unsynchronized"} THEN End(WithoutRow(r, d))
    ELSE On(End(WithoutRow(r, d)), NoFile, IF Exists THEN <<"deleted">> ELSE <<>>)
RemotelyDeletedAnyFile(r, d) == RemotelyDeletedUnless(FALSE, r, d)   \* mutant
RemotelyDeleted(r, d) == RemotelyDeletedUnless(disk.id # d.ref, r, d)

(* _synchronize_if_not_remotely_dirty, with what the server answered last. *)
IfNotDirty(r, d) ==
    LET e == [d EXCEPT !.ldig = disk.data]
    IN  IF info.data # d.ldig
        THEN IF r = None THEN End(r) ELSE RemotelyModified(r, Copy(r))
        ELSE IF d.rdig = None \/ disk.data = d.rdig THEN End(WithSynchronized(r, d, FALSE))
        ELSE IF ~Exists THEN End(WithSynchronized(r, Current([d EXCEPT !.ls = "created"]), TRUE))
        ELSE End(WithSynchronized(r, [e EXCEPT !.ls = "modified"], TRUE))

(* _synchronize_locally_modified, up to its first call. A document that was *)
(* never sent has no right to be updated.                                   *)
LocallyModified(r, d) ==
    LET e == IF d.ldig = Unaccessible THEN [d EXCEPT !.ldig = disk.data] ELSE d
        s == IF d.ldig = Unaccessible THEN WithLocal(r, e, disk.data) ELSE r
    IN  IF d.ldig = Unaccessible /\ ~Exists THEN End(r)
        ELSE IF EqualDigests(e.ldig, e.rdig) THEN Go("info", s, e)
        ELSE IF r # None /\ d.here /\ r.ref = 0
        THEN End([s EXCEPT !.ps = "unsynchronized", !.proc = "none"])
        ELSE Go("update", s, e)

(* _synchronize_locally_created, up to its first call. *)
CreatedWithXattr(id, r, d) ==
    LET changed == SizeOf(disk.data) # d.size
        e == [d EXCEPT !.ldig = IF changed THEN Unaccessible ELSE disk.data]
    IN  IF id # 0 THEN [Go("lookup", r, d) EXCEPT !.ref = id]
        ELSE IF ~Exists THEN End(r)
        ELSE IF changed THEN Postponed(End(WithLocal(r, e, disk.data)))
        ELSE IF d.ldig = Unaccessible THEN Go("create", WithLocal(r, e, disk.data), e)
        ELSE Go("create", r, d)
LocallyCreatedUnchecked(r, d) == CreatedWithXattr(0, r, d)   \* mutant: the xattr is not read
LocallyCreated(r, d) == CreatedWithXattr(disk.id, r, d)

(* _synchronize_remotely_created once the file is there: it is linked to    *)
(* the document, whatever it holds.                                         *)
Linked(r, d, data) ==
    LET e == IF d.ldig = None THEN [d EXCEPT !.ldig = data] ELSE d
        s == WithLocal(r, e, data)
    IN  IF Synchronizes(s, e) THEN End(WithSynchronized(s, e, FALSE))
        ELSE IF s = None THEN End(s)
        ELSE IF s.rs = "deleted" THEN RemotelyDeleted(s, Copy(s))
        ELSE RemotelyModified(s, Copy(s))

(* giveup_error "DEDUP": the name is taken by another file. *)
GivenUp(r, d) == End(IF r = None \/ ~d.here THEN r ELSE [r EXCEPT !.dedup = TRUE])

RemotelyCreated(r, d) ==
    IF ~Exists THEN Go("get", r, d)
    ELSE IF disk.id = d.ref THEN Asking(End(WithConflict(r, d)), "conflicted")
    ELSE IF disk.id # 0 THEN GivenUp(r, d)
    ELSE On(Linked(r, d, disk.data), [disk EXCEPT !.id = d.ref, !.new = FALSE], <<"modified">>)

Handle ==
    LET d == Mine
        o == CASE handler = "locally_modified" -> LocallyModified(row, d)
               [] handler \in {"locally_created", "locally_resolved"} -> LocallyCreated(row, d)
               [] handler = "locally_deleted" ->
                    IF d.ref = 0 \/ d.rs = "deleted" THEN End(WithoutRow(row, d))
                    ELSE Go("delete", row, d)
               [] handler = "remotely_modified" -> RemotelyModified(row, d)
               [] handler = "remotely_created" -> RemotelyCreated(row, d)
               [] handler = "remotely_deleted" -> RemotelyDeleted(row, d)
               [] handler = "conflicted" ->
                    End(IF EqualDigests(d.ldig, d.rdig) THEN WithSynchronized(row, d, FALSE)
                        ELSE row)
               [] handler \in {"unknown_deleted", "deleted_unknown"} -> End(WithoutRow(row, d))
    IN  /\ pc = "handle"
        /\ Local(o)

-------------------------------------------------------------------------------
(* The calls of the handlers, and what follows each answer.                *)

(* A document that is not there: NotFound, the pair is left as it is.       *)
NoDocument == Local(End(row))

(* stream_update: the content the file has now. *)
Update ==
    /\ pc = "update"
    /\ IF ~Exists THEN Local(End(WithoutRow(row, Mine)))          \* ENOENT
       ELSE IF ~IsLive(Mine.ref) THEN NoDocument
       ELSE /\ Calls("updated", Mine, Mine.ref, [life |-> "live", data |-> disk.data])
            /\ unseen' = FALSE /\ recorded' = FALSE
            /\ UNCHANGED <<during, wanted>>

(* get_fs_info, when there is nothing to send. *)
GetInfo ==
    /\ pc = "info"
    /\ IF ~IsLive(Mine.ref) THEN NoDocument
       ELSE /\ Calls("updated", Mine, Mine.ref, server[Mine.ref])
            /\ UNCHANGED <<unseen, during, recorded, wanted>>

(* The end of _synchronize_locally_modified. *)
Updated ==
    LET r == WithRemote(row, Mine, info.ref, info.data)
        news == RemoteIsNews(Mine, info.ref, info.data)
        o == IfNotDirty(r, Refreshed(Mine, info.ref, info.data))
    IN  /\ pc = "updated"
        /\ Local(IF news THEN Asking(o, StateOf(r)) ELSE o)

(* remote.get_info of the document the xattr of a created file names;       *)
(* undelete when it is in the trash.                                        *)
Lookup ==
    /\ pc = "lookup"
    /\ Calls(IF IsLive(info.ref) THEN "compare" ELSE "restored", Mine, info.ref,
             [server[info.ref] EXCEPT !.life = "live"])
    /\ UNCHANGED <<unseen, during, recorded, wanted>>

Modify(r) == IF r = None THEN End(r) ELSE LocallyModified(r, Copy(r))
Restored ==
    LET r == WithRemote(row, Mine, info.ref, info.data)
    IN  /\ pc = "restored"
        /\ Local(Asking(Modify(r), IF RemoteIsNews(Mine, info.ref, info.data) THEN StateOf(r)
                                   ELSE "none"))
Compare ==
    LET r == WithRemote(row, Mine, info.ref, info.data)
        news == RemoteIsNews(Mine, info.ref, info.data)
    IN  /\ pc = "compare"
        /\ Local(IF EqualDigests(Mine.ldig, info.data) THEN End(WithSynchronized(row, Mine, FALSE))
                 ELSE IF Mine.ps # "locally_resolved" THEN End(row)
                 ELSE Asking(Modify(r), IF news THEN StateOf(r) ELSE "none"))

(* stream_file: a new document, or the one of that name when the local      *)
(* version was chosen.                                                      *)
Create ==
    /\ pc = "create"
    /\ IF ~Exists THEN Local(End(WithoutRow(row, Mine)))          \* ENOENT
       ELSE \E u \in Docs :
              /\ IF handler = "locally_resolved" /\ Live # {} THEN u \in Live
                 ELSE u \in Unused /\ \A v \in Unused : u <= v
              /\ Calls("created", Mine, u, [life |-> "live", data |-> disk.data])
              /\ unseen' = FALSE /\ recorded' = FALSE
              /\ UNCHANGED <<during, wanted>>

(* The end of _synchronize_locally_created. *)
Created ==
    LET r == WithRemote(row, Mine, info.ref, info.data)
        o == IfNotDirty(r, Refreshed(Mine, info.ref, info.data))
    IN  /\ pc = "created"
        /\ Local(IF Exists THEN On(o, [disk EXCEPT !.id = info.ref], <<"modified">>) ELSE o)

(* stream_content, then the file is replaced: _update_remotely.             *)
Download ==
    /\ pc = "download"
    /\ IF ~IsLive(Mine.ref) THEN NoDocument
       ELSE /\ Calls("replace", Mine, Mine.ref, server[Mine.ref])
            /\ UNCHANGED <<unseen, during, recorded, wanted>>
Replace ==
    LET d == [Mine EXCEPT !.ldig = info.data]
        r == WithLocal(row, d, info.data)
    IN  /\ pc = "replace"
        /\ Local(On(End(WithSynchronized(r, d, FALSE)),
                    [data |-> info.data, id |-> IF disk.id = 0 THEN 0 ELSE d.ref, new |-> TRUE],
                    IF Exists THEN <<"deleted", "created">> ELSE <<"created">>))

(* _create_remotely: the content of a new document. *)
Get ==
    /\ pc = "get"
    /\ IF ~IsLive(Mine.ref) THEN Local(RemotelyDeleted(row, Mine))
       ELSE /\ Calls("place", Mine, Mine.ref, server[Mine.ref])
            /\ UNCHANGED <<unseen, during, recorded, wanted>>
Place ==
    /\ pc = "place"
    /\ Local(IF Exists THEN GivenUp(row, Mine)
             ELSE On(Linked(row, Mine, info.data),
                     [data |-> info.data, id |-> Mine.ref, new |-> TRUE], <<"created">>))

(* remote.delete, then remove_state. *)
Delete ==
    /\ pc = "delete"
    /\ Calls("removed", Mine, Mine.ref,
             IF IsLive(Mine.ref) THEN [server[Mine.ref] EXCEPT !.life = "trash"]
             ELSE server[Mine.ref])
    /\ wanted' = FALSE
    /\ UNCHANGED <<unseen, during, recorded>>
Removed == pc = "removed" /\ Local(End(WithoutRow(row, Mine)))

-------------------------------------------------------------------------------
(* Stop or crash, and restart.                                             *)

Stop ==
    /\ running /\ stops > 0 /\ stops' = stops - 1
    /\ running' = FALSE
    /\ pc' = "idle" /\ handler' = "none" /\ info' = NoAnswer
    /\ doc' = [t \in Threads |-> None]
    /\ row' = IF row = None THEN None ELSE [row EXCEPT !.proc = "none"]
    /\ events' = <<>> /\ event' = "none" /\ summary' = <<>> /\ deletions' = None
    /\ queued' = FALSE /\ later' = FALSE /\ conflict' = FALSE
    /\ lost' = lost \cup (IF pc \in {"created", "restored"} THEN {"document"} ELSE {})
                    \cup (IF DOMAIN summary # {} \/ deletions # None THEN {"report"} ELSE {})
                    \cup (IF Knows(Live) /\ row.rs = "deleted" THEN {"restored"} ELSE {})
    /\ UNCHANGED <<disk, server, changes, errors, rounds, local, remote, unseen, during, recorded,
                   wanted>>

(* LocalWatcher._scan of that file, then register_queue_manager. *)
ScannedIf(new) ==
    LET marked == [Copy(row) EXCEPT !.ldig = disk.data,
                                    !.ls = IF disk.data = row.ldig THEN row.ls ELSE "modified"]
    IN  IF row = None THEN IF Exists THEN LocalRow(disk.data) ELSE None
        ELSE IF Exists
        THEN IF new /\ row.ldig # None THEN WithLocal(row, marked, disk.data) ELSE row
        ELSE IF row.ps = "remotely_created" \/ row.rs = "created" THEN row
        ELSE IF row.ref = 0 \/ row.rs = "unknown" THEN None
        ELSE WithLocalDeleted(row)
ScannedNames == ScannedIf(FALSE)   \* mutant: a modification time is not looked at
Scanned == ScannedIf(disk.new)
Start ==
    /\ ~running /\ running' = TRUE
    /\ row' = Scanned
    /\ disk' = IF ~Exists THEN disk
               ELSE [disk EXCEPT !.new = FALSE,
                                 !.id = IF row = None \/ ~disk.new THEN disk.id
                                        ELSE IF row.ldig = None THEN disk.id ELSE row.ref]
    /\ queued' = (Scanned # None /\ Processable(Scanned.ps))
    /\ recorded' = (recorded \/ (Scanned # None /\ Scanned # row))
    /\ UNCHANGED <<server, doc, later, errors, conflict, watchers, proc, users, unseen, during,
                   wanted, lost>>

-------------------------------------------------------------------------------
Quiet ==
    /\ running /\ pc = "idle" /\ ~queued /\ ~later /\ ~conflict
    /\ events = <<>> /\ event = "none" /\ changes = {} /\ summary = <<>> /\ deletions = None
    /\ \A t \in Threads : doc[t] = None

(* Both users act again once all is quiet. *)
NewRound ==
    /\ Quiet /\ rounds > 0
    /\ rounds' = rounds - 1 /\ local' = Burst /\ remote' = Burst
    /\ UNCHANGED <<disk, server, sync, watchers, proc, running, stops, history>>

Init ==
    /\ \/ /\ disk = NoFile /\ row = None
          /\ server = [u \in Docs |-> [life |-> "none", data |-> None]]
       \/ \E c \in Contents, u \in Docs :
             /\ \A v \in Docs : u <= v
             /\ disk = [data |-> c, id |-> u, new |-> FALSE]
             /\ row = [RemoteRow(u, c) EXCEPT !.ls = "synchronized", !.rs = "synchronized",
                             !.ps = "synchronized", !.ldig = c, !.size = SizeOf(c)]
             /\ server = [v \in Docs |-> IF v = u THEN [life |-> "live", data |-> c]
                                         ELSE [life |-> "none", data |-> None]]
    /\ doc = [t \in Threads |-> None] /\ queued = FALSE /\ later = FALSE /\ errors = 0
    /\ conflict = FALSE
    /\ events = <<>> /\ event = "none" /\ changes = {} /\ summary = <<>> /\ deletions = None
    /\ pc = "idle" /\ handler = "none" /\ info = NoAnswer /\ running = TRUE
    /\ rounds = Rounds - 1 /\ local = Burst /\ remote = Burst /\ stops = MaxStops
    /\ unseen = FALSE /\ during = FALSE /\ recorded = FALSE /\ wanted = FALSE /\ lost = {}

Users == \/ UserWrites \/ UserDeletes \/ KeepLocal \/ KeepRemote \/ NewRound
         \/ \E u \in Docs : ServerEdits(u) \/ ServerTrashes(u) \/ ServerRestores(u)
LocalWatcher == HandleUnknown \/ TakeEvent \/ HandleDeleted \/ HandleWritten
RemoteWatcher == \/ Poll \/ VerifyDeletion
                 \/ \E u \in Docs : \/ ReadPair(u) \/ WritePair(u) \/ SkipChange(u)
                                    \/ NewDocument(u) \/ MatchPair(u)
Processor == \/ Acquire \/ FetchInfo \/ RefreshRemote \/ Handle \/ Update \/ GetInfo \/ Updated
             \/ Lookup \/ Restored \/ Compare \/ Create \/ Created \/ Download \/ Replace
             \/ Get \/ Place \/ Delete \/ Removed
Engine == Retry \/ ConflictResolver \/ Start

Next == Users \/ LocalWatcher \/ RemoteWatcher \/ Processor \/ Engine \/ Stop
Spec == Init /\ [][Next]_vars
             /\ WF_vars(LocalWatcher) /\ WF_vars(RemoteWatcher)
             /\ WF_vars(Processor) /\ WF_vars(Engine)

(***************************************************************************)
(* What goes wrong, by the reason why (the variable lost):                 *)
(*   document  stopped between creating or restoring a document and        *)
(*             writing its reference: the server keeps one nobody links    *)
(*   report    stopped with changes fetched: the log id is already stored  *)
(*   restored  stopped while a document the client has restored is still   *)
(*             marked deleted: its file goes at the next start             *)
(*   answer    the processor writes an answer older than what the remote   *)
(*             watcher has already handled                                 *)
(*   digest    a pair is declared synchronised by a digest of the file     *)
(*             that the database has not followed                          *)
(*   undone    one watcher writes back a copy read before the other wrote  *)
(*   deletion  a deletion marked during the work of the processor leaves   *)
(*             the version as it was, and synchronize_state erases it      *)
(*   ghost     a deletion that does not find its file keeps its row        *)
(*   adopted   a new document is declared synchronised with a file of its  *)
(*             name that holds something else                              *)
(*   unqueued  the processor finds an edit whose event was dropped, and    *)
(*             writes it without queuing the pair                          *)
(*   copied    an edit is taken for a copy in progress, nothing is queued  *)
(*   resolved  the file goes just after the choice of the local version:   *)
(*             the row is forgotten, the document stays                    *)
(*                                                                         *)
(* The list is that of the losses met within two rounds, or one round and  *)
(* a restart: with more rounds there are others (a document restored       *)
(* between the mark of a deletion and the deletion, three rounds of        *)
(* changes one over the other), and the properties below speak of these    *)
(* bounds only.                                                            *)
(***************************************************************************)

(* The values the variables take: rows and copies are built by PairStates. *)
TypeOK ==
    /\ disk \in [data : Contents \cup {None}, id : Docs \cup {0}, new : BOOLEAN]
    /\ server \in [Docs -> [life : {"none", "live", "trash"}, data : Contents \cup {None}]]
    /\ row = None \/ (row.ref \in Docs \cup {0} /\ row.ldig \in Digests /\ row.rdig \in Digests
                      /\ row.proc \in {"none", "processor", "localWatcher"})
    /\ \A t \in Threads : doc[t] = None \/ doc[t].ref \in Docs \cup {0}
    /\ queued \in BOOLEAN /\ later \in BOOLEAN /\ conflict \in BOOLEAN
    /\ changes \subseteq Docs /\ DOMAIN summary \subseteq Docs
    /\ info.ref \in Docs \cup {0} /\ errors \in 0 .. MaxErrors + 1

(* The table of the states covers every pair of sides the threads write, in  *)
(* whatever order they do within Rounds and Burst                            *)
(* (EngineDAO._get_pair_state raises UnknownPairState otherwise, out of the  *)
(* watcher that called it).                                                  *)
NoUnknownPair == row = None \/ row.ps # "unknown_pair"

(* When everything is handled and no known loss happened, both sides agree,  *)
(* or the user is told: the pair is in conflict or its name is taken.  What  *)
(* the two watchers, the processor and the conflict resolver write in the    *)
(* database, each from its own copy of the row, adds up to a synchronisation.*)
Agree ==
    Quiet /\ lost = {} =>
       \/ row # None /\ (row.ps = "conflicted" \/ row.dedup)
       \/ /\ row # None /\ row.ps \in {"synchronized", "locally_modified"}
          /\ IsLive(row.ref) /\ disk.data = server[row.ref].data
       \/ Live = {} /\ ~Exists

(* One file never has two live documents, unless the application stopped     *)
(* between creating one and writing its reference in the database.           *)
OneDocument == Cardinality(Live) <= 1 \/ "document" \in lost

ByClient == local' = local /\ remote' = remote

(* An upload never replaces a content that another user wrote on the server  *)
(* before the processor last asked for the document, and that the client has *)
(* never read (Processor._handle_doc_pair_sync refreshes the pair first).    *)
ServerEditKept ==
    \A u \in Docs : /\ ByClient /\ lost = {}
                    /\ server[u].life = "live" /\ server'[u].data # server[u].data
                    => ~unseen \/ during

(* A download never replaces a file holding an edit that the database knows  *)
(* of and that the server does not have: such a pair is a conflict.          *)
RecordedEditKept ==
    ByClient /\ lost = {} /\ disk'.data \notin {None, disk.data} => ~recorded

(* The client puts a document in the trash only when the user has removed    *)
(* its file since it was last synchronised: a file replaced by a download,   *)
(* a scan or a late event never does that.                                   *)
DeletionWanted ==
    \A u \in Docs : ByClient /\ server[u].life = "live" /\ server'[u].life # "live"
                    => wanted

(* The client removes a file only when its document is gone from the server. *)
LocalKept ==
    ByClient /\ disk'.data = None /\ disk.data # None
        => disk.id # 0 /\ ~IsLive(disk.id)

(* Once the users are done, the threads come to rest again and again: no     *)
(* pair goes round in circles between the processor and the watchers.        *)
Settles == []<>Quiet
=============================================================================
