------------------------------ MODULE DirectEdit ------------------------------
(***************************************************************************)
(* Direct Edit: one document is opened from the browser, edited in a local *)
(* application, and sent back each time it is saved.  The thread of        *)
(* Direct Edit locks, uploads and handles the events of the disk, in that  *)
(* order and for ever; the thread of the autolocker looks every 30 seconds *)
(* at the files that are open and asks for the lock and the unlock; the    *)
(* user, other users of the server and the end of the application step in  *)
(* anywhere.                                                               *)
(*                                                                         *)
(* A version of the document is a number; a digest is the version it is    *)
(* the digest of.                                                          *)
(***************************************************************************)
EXTENDS Integers, Sequences, FiniteSets, SequencesExt

CONSTANTS
    Autolocks,    \* the values of the preference direct_edit_auto_lock
    MaxErrors,    \* Options.max_errors
    Budgets       \* bounds, one of them for each behaviour: on the documents opened
                  \* ("edits"), saves ("writes"), versions of other users ("others"),
                  \* errors ("faults") and ends of the application ("quits")

VARIABLES
    srv,          \* the document: its version, and who locks it
    file,         \* the folder of the document: the file, its attributes, and the versions
                  \* it comes from or the user has chosen to replace (history)
    app,          \* the local application: "no", "held" (it keeps the file open) or "loose"
    events,       \* watchdog_queue
    upq,          \* the file is in _upload_queue
    lockq, held,  \* _lock_queue, and the items that come back after the pass
    retry, errs,  \* the file is in _error_queue; _upload_errors
    flag,         \* is_already_locked
    at, sending,  \* where the thread is; what the upload has read of the file
    auto,         \* the file in _autolocked: "none", "new" (0) or "pid"
    toLock, snap, \* _to_lock; current_locks during a poll, or "idle"
    orphans,      \* the first poll is to come, or its signal is to be handled
    locked,       \* the file is in the table AutoLock
    dialog,       \* the digest in the conflict window, or Nothing
    cred,         \* not has_invalid_credentials()
    autolock,     \* use_autolock
    mine, others, \* versions written by the user, by other users
    known,        \* versions that were on the server, or the user was told are not
    excuse,       \* why an upload may replace a version nobody here has seen
    lost, kept,   \* why a version may never be sent, the lock never released
    left          \* what remains of the budget

disk == <<file, app>>
work == <<events, upq, lockq, held, retry, errs, flag>>
locker == <<auto, toLock, snap, orphans, locked>>
ghosts == <<mine, others, known, excuse, lost, kept>>
vars == <<srv, disk, work, at, sending, locker, dialog, cred, autolock, ghosts, left>>

Nothing == -1
Gone == [there |-> FALSE, v |-> Nothing, digest |-> Nothing, mark |-> FALSE, base |-> {}]

Init ==
    /\ srv = [v |-> 0, lock |-> "none"]
    /\ file = Gone
    /\ app = "no"
    /\ events = << >> /\ upq = FALSE
    /\ lockq = << >> /\ held = << >>
    /\ retry = FALSE /\ errs = 0
    /\ flag = FALSE
    /\ at = "interact" /\ sending = Nothing
    /\ auto = "none" /\ toLock = FALSE /\ snap = "idle"
    /\ orphans = "no" /\ locked = FALSE
    /\ dialog = Nothing
    /\ cred = TRUE
    /\ autolock \in Autolocks
    /\ mine = {} /\ others = {0} /\ known = {}
    /\ excuse = {} /\ lost = {} /\ kept = {}
    /\ left \in Budgets

Versions == mine \cup others
Fresh == Cardinality(Versions)
Unseen == srv.v \in others \ file.base

Up == at # "down"
Watched == at \notin {"down", "cleanup", "setup"}
Spend(what) == left[what] > 0 /\ left' = [left EXCEPT ![what] = @ - 1]
Fault == Spend("faults")

\* the observer drops an event equal to the one before it
Emit(e) == IF ~Watched \/ (events # << >> /\ Last(events) = e) THEN events
           ELSE Append(events, e)

\* the last save has not reached the server
Unsent == \E v \in mine \ known : \A w \in mine : w <= v
Lose(why) == lost' = IF Unsent THEN lost \cup {why} ELSE lost
\* what is unlocked no more: a lock that is ours, or that comes back after the pass
StaysLocked(why) == kept' = IF Head(lockq) # "lock" /\ (srv.lock = "me" \/ Contains(held, "lock"))
                            THEN kept \cup {why} ELSE kept
Keep(why) == kept' = IF srv.lock = "me" THEN kept \cup {why} ELSE kept

-----------------------------------------------------------------------------
(* The slots, handled in _interact.  edit: the lock, then the download.    *)

Interacts == at = "interact" \/ (at = "events" /\ events = << >>)

Edit ==
    /\ Interacts /\ cred
    /\ Spend("edits")
    /\ srv.lock # "other"
    /\ srv' = IF autolock THEN [srv EXCEPT !.lock = "me"] ELSE srv
    /\ flag' = (flag \/ autolock)
    /\ file' = [there |-> TRUE, v |-> srv.v, digest |-> srv.v, mark |-> file.mark, base |-> {srv.v}]
    /\ events' = Emit("written")
    /\ app' \in {"held", "loose", "no"}
    /\ Lose("replaced")
    /\ kept' = IF file.mark /\ srv'.lock = "me" THEN kept \cup {"marked"} ELSE kept
    /\ UNCHANGED <<upq, lockq, held, retry, errs, at, sending, locker, dialog, cred,
                   autolock, mine, others, known, excuse>>

\* the download fails once the document is locked
EditFails ==
    /\ Interacts /\ cred
    /\ autolock /\ srv.lock # "other"
    /\ Fault
    /\ srv' = [srv EXCEPT !.lock = "me"]
    /\ flag' = TRUE
    /\ kept' = kept \cup {"edit"}
    /\ UNCHANGED <<disk, events, upq, lockq, held, retry, errs, at, sending, locker,
                   dialog, cred, autolock, mine, others, known, excuse, lost>>

\* the slot _autolock_orphans
Orphans ==
    /\ Interacts /\ orphans = "told"
    /\ orphans' = "no"
    /\ lockq' = Append(lockq, "unlock_orphan")
    /\ UNCHANGED <<srv, disk, events, upq, held, retry, errs, flag, at, sending, auto,
                   toLock, snap, locked, dialog, cred, autolock, ghosts, left>>

\* the next pass
Interact ==
    /\ Interacts
    /\ at' = "locks"
    /\ UNCHANGED <<srv, disk, work, sending, locker, dialog, cred, autolock, ghosts, left>>

-----------------------------------------------------------------------------
(* _handle_lock_queue.                                                     *)

Locking(item) == at = "locks" /\ lockq # << >> /\ Head(lockq) = item
Taken == lockq' = Tail(lockq)

\* _extract_edit_info finds no engine, no credentials or no folder
LockSkipped ==
    /\ at = "locks" /\ lockq # << >>
    /\ ~cred \/ ~file.there
    /\ Taken
    /\ StaysLocked("credentials")
    /\ UNCHANGED <<srv, disk, events, upq, held, retry, errs, flag, at, sending, locker,
                   dialog, cred, autolock, mine, others, known, excuse, lost, left>>

\* what an upload from a marked folder may replace, the lock being owner's
Marked(owner) == excuse \cup IF owner # "me" THEN {"not locked"}
                            ELSE IF Unseen THEN {"late"} ELSE {}

\* the attribute is set before the server is asked, and stays when it refuses
Lock ==
    /\ Locking("lock") /\ cred /\ file.there
    /\ Taken
    /\ file' = [file EXCEPT !.mark = TRUE]
    /\ flag' = IF autolock THEN FALSE ELSE flag
    /\ IF autolock /\ ~flag /\ srv.lock # "other"
       THEN srv' = [srv EXCEPT !.lock = "me"]
       ELSE UNCHANGED srv
    /\ excuse' = Marked(srv'.lock)
    /\ UNCHANGED <<app, events, upq, held, retry, errs, at, sending, locker, dialog, cred,
                   autolock, mine, others, known, lost, kept, left>>

Unlock ==
    /\ Locking("unlock") /\ cred /\ file.there
    /\ Taken
    /\ kept' = IF Contains(held, "lock") THEN kept \cup {"late"} ELSE kept
    /\ IF srv.lock = "other"
       THEN /\ locked' = FALSE
            /\ excuse' = IF file.mark THEN excuse \cup {"not locked"} ELSE excuse
            /\ UNCHANGED <<srv, file>>
       ELSE /\ srv' = [srv EXCEPT !.lock = "none"]
            /\ file' = [file EXCEPT !.mark = FALSE]
            /\ excuse' = {}
            /\ UNCHANGED locked
    /\ UNCHANGED <<app, events, upq, held, retry, errs, flag, at, sending, auto, toLock, snap,
                   orphans, dialog, cred, autolock, mine, others, known, lost, left>>

\* the attribute stays: rmtree is given the file and removes nothing
UnlockOrphan ==
    /\ Locking("unlock_orphan") /\ cred /\ file.there
    /\ Taken
    /\ kept' = IF Contains(held, "lock") THEN kept \cup {"late"} ELSE kept
    /\ srv' = IF srv.lock = "other" THEN srv ELSE [srv EXCEPT !.lock = "none"]
    /\ locked' = FALSE
    /\ excuse' = IF file.mark THEN excuse \cup {"not locked"} ELSE excuse
    /\ UNCHANGED <<disk, events, upq, held, retry, errs, flag, at, sending, auto, toLock, snap,
                   orphans, dialog, cred, autolock, mine, others, known, lost, left>>

Asking ==
    /\ at = "locks" /\ lockq # << >> /\ cred /\ file.there
    /\ Head(lockq) = "lock" => autolock /\ ~flag

\* CONNECTION_ERROR, 502, 503, 504: the item comes back behind the others
LockFails ==
    /\ Asking
    /\ Fault
    /\ Taken
    /\ held' = Append(held, Head(lockq))
    /\ file' = [file EXCEPT !.mark = @ \/ Head(lockq) = "lock"]
    /\ excuse' = IF file'.mark THEN Marked(srv.lock) ELSE excuse
    /\ UNCHANGED <<srv, app, events, upq, retry, errs, flag, at, sending, locker, dialog,
                   cred, autolock, mine, others, known, lost, kept>>

\* Forbidden, or an error that is none of the network: the user is told, and the item
\* is lost, so that what was to be unlocked stays locked
LockRefused ==
    /\ Asking
    /\ Fault
    /\ Taken
    /\ file' = [file EXCEPT !.mark = @ \/ Head(lockq) = "lock"]
    /\ excuse' = IF file'.mark THEN Marked(srv.lock) ELSE excuse
    /\ StaysLocked("refused")
    /\ UNCHANGED <<srv, app, events, upq, held, retry, errs, flag, at, sending, locker, dialog,
                   cred, autolock, mine, others, known, lost>>

\* another HTTP error ends the pass: the item and those that were to come back are lost
LockRaises ==
    /\ Asking
    /\ Fault
    /\ Taken
    /\ held' = << >>
    /\ at' = "interact"
    /\ file' = [file EXCEPT !.mark = @ \/ Head(lockq) = "lock"]
    /\ excuse' = IF file'.mark THEN Marked(srv.lock) ELSE excuse
    /\ Keep("raised")
    /\ UNCHANGED <<srv, app, events, upq, retry, errs, flag, sending, locker, dialog, cred,
                   autolock, mine, others, known, lost>>

\* then the files whose delay is over come back in the queue of the uploads
LocksDone ==
    /\ at = "locks" /\ lockq = << >>
    /\ lockq' = held
    /\ held' = << >>
    /\ at' = "upload"
    /\ \E over \in IF retry THEN BOOLEAN ELSE {FALSE} :
          /\ retry' = (retry /\ ~over)
          /\ upq' = (upq \/ over)
    /\ UNCHANGED <<srv, disk, events, errs, flag, sending, locker, dialog, cred, autolock,
                   ghosts, left>>

-----------------------------------------------------------------------------
(* _handle_upload_queue.                                                   *)

Uploading == at = "upload" /\ upq /\ upq' = FALSE

\* NotFound leaves the queue, the pass and the loop: the item is lost
UploadDropped ==
    /\ Uploading /\ (~cred \/ ~file.there)
    /\ at' = "interact"
    /\ Lose("credentials")
    /\ UNCHANGED <<srv, disk, events, lockq, held, retry, errs, flag, sending, locker, dialog,
                   cred, autolock, mine, others, known, excuse, kept, left>>

UploadSame ==
    /\ Uploading /\ cred /\ file.there
    /\ file.v = file.digest
    /\ UNCHANGED <<srv, disk, events, lockq, held, retry, errs, flag, at, sending, locker,
                   dialog, cred, autolock, ghosts, left>>

Changed == cred /\ file.there /\ file.v # file.digest

\* a window per file name: the signal is dropped when one is shown
UploadConflict ==
    /\ Uploading /\ Changed
    /\ ~file.mark /\ srv.v # file.digest
    /\ dialog' = IF dialog = Nothing THEN srv.v ELSE dialog
    /\ UNCHANGED <<srv, disk, events, lockq, held, retry, errs, flag, at, sending, locker,
                   cred, autolock, ghosts, left>>

UploadBeginsIf(checks) ==
    /\ Uploading /\ Changed
    /\ checks => file.mark \/ srv.v = file.digest
    /\ at' = "sending"
    /\ sending' = file.v
    /\ UNCHANGED <<srv, disk, events, lockq, held, retry, errs, flag, locker, dialog, cred,
                   autolock, ghosts, left>>

\* mutant: the version on the server is not looked at
UploadBeginsMutant == UploadBeginsIf(FALSE)

UploadBegins == UploadBeginsIf(TRUE)

\* the file is sent as it is now, its digest is the one read before
UploadEnds ==
    /\ at = "sending" /\ cred /\ srv.lock # "other"
    /\ at' = "upload"
    /\ srv' = [srv EXCEPT !.v = file.v]
    /\ file' = [file EXCEPT !.digest = sending]
    /\ known' = known \cup {file.v}
    /\ sending' = Nothing
    /\ excuse' = excuse \ {"race"}
    /\ UNCHANGED <<app, work, locker, dialog, cred, autolock, mine, others, lost, kept,
                   left>>

\* _handle_upload_error
UploadError ==
    IF errs + 1 < MaxErrors
    THEN /\ retry' = TRUE
         /\ errs' = errs + 1
         /\ UNCHANGED known
    ELSE /\ errs' = 0
         /\ known' = known \cup {file.v}
         /\ UNCHANGED retry

\* a request fails: for the file that is sent, or for the document, whose version
\* is looked at unless the folder is marked
Failing ==
    /\ \/ at = "sending" /\ UNCHANGED upq
       \/ Uploading /\ Changed /\ ~file.mark
    /\ at' = "upload"
    /\ sending' = Nothing
    /\ excuse' = excuse \ {"race"}
Locked == at = "sending" /\ srv.lock = "other"

UploadFails ==
    /\ Failing
    /\ IF cred /\ ~Locked THEN Fault ELSE UNCHANGED left
    /\ UploadError
    /\ UNCHANGED <<srv, disk, events, lockq, held, flag, locker, dialog, cred, autolock,
                   mine, others, lost, kept>>

\* Forbidden: the user is told
UploadRefused ==
    /\ Failing /\ cred
    /\ IF ~Locked THEN Fault ELSE UNCHANGED left
    /\ known' = known \cup {file.v}
    /\ UNCHANGED <<srv, disk, events, lockq, held, retry, errs, flag, locker, dialog, cred, autolock,
                   mine, others, lost, kept>>

\* the document is a version or a proxy, or is not there any more, or the file is too
\* large (413): this is only logged, and the file waits in no queue
UploadSkipped ==
    /\ Failing /\ cred
    /\ Fault
    /\ Lose("skipped")
    /\ UNCHANGED <<srv, disk, events, lockq, held, retry, errs, flag, locker, dialog, cred, autolock,
                   mine, others, known, kept>>

UploadsDone ==
    /\ at = "upload" /\ ~upq
    /\ at' = "events"
    /\ UNCHANGED <<srv, disk, work, sending, locker, dialog, cred, autolock, ghosts, left>>

-----------------------------------------------------------------------------
(* handle_watchdog_event.                                                  *)

\* set_autolock, when the folder is not marked
Scheduled == IF ~file.mark /\ autolock /\ auto = "none" THEN "new" ELSE auto

HandleEvent ==
    /\ at = "events" /\ events # << >>
    /\ events' = Tail(events)
    /\ LET e == Head(events)
       IN  /\ auto' = IF file.there /\ e # "unlockfile" THEN Scheduled ELSE auto
           /\ upq' = (upq \/ (file.there /\ e = "written"))
           /\ file' = [file EXCEPT !.mark = @ /\ e # "unlockfile"]
           /\ excuse' = IF file'.mark THEN excuse ELSE excuse \ {"not locked", "late"}
    /\ UNCHANGED <<srv, app, lockq, held, retry, errs, flag, at, sending, toLock, snap, orphans,
                   locked, dialog, cred, autolock, mine, others, known, lost, kept, left>>

-----------------------------------------------------------------------------
(* The autolocker: a look at the open files, ten seconds, then the locks   *)
(* and the unlocks.                                                        *)

PollBegins ==
    /\ Up /\ snap = "idle"
    /\ orphans' = IF orphans # "first" THEN orphans ELSE IF locked THEN "told" ELSE "no"
    /\ LET open == app = "held" /\ file.there
       IN  /\ toLock' = (toLock \/ (open /\ auto = "new"))
           /\ snap' = IF ~open THEN IF auto = "none" THEN "idle" ELSE auto
                      ELSE IF toLock' THEN "none" ELSE "idle"
           /\ auto' = IF ~open THEN auto ELSE IF auto = "none" THEN "new" ELSE "pid"
    /\ UNCHANGED <<srv, disk, work, at, sending, locked, dialog, cred, autolock, ghosts, left>>

PollEndsIf(unlocks) ==
    /\ Up /\ snap # "idle"
    /\ snap' = "idle"
    /\ toLock' = FALSE
    /\ lockq' = lockq \o (IF toLock THEN <<"lock">> ELSE << >>)
                      \o (IF snap # "none" /\ unlocks THEN <<"unlock">> ELSE << >>)
    /\ auto' = IF snap # "none" THEN "none" ELSE auto
    /\ locked' = (snap = "none" /\ (locked \/ toLock))
    /\ UNCHANGED <<srv, disk, events, upq, held, retry, errs, flag, at, sending, orphans, dialog,
                   cred, autolock, ghosts, left>>

\* mutant: a file that is closed is only forgotten
PollEndsMutant == PollEndsIf(FALSE)

PollEnds == PollEndsIf(TRUE)

-----------------------------------------------------------------------------
(* The user.                                                               *)

\* a save, while the application may be down
Write ==
    /\ app # "no" /\ file.there
    /\ Spend("writes")
    /\ mine' = mine \cup {Fresh}
    /\ file' = [file EXCEPT !.v = Fresh]
    /\ events' = Emit("written")
    /\ lost' = IF at = "setup" THEN lost \cup {"unwatched"} ELSE lost
    /\ UNCHANGED <<srv, app, upq, lockq, held, retry, errs, flag, at, sending, locker, dialog,
                   cred, autolock, others, known, excuse, kept>>

\* some applications keep a lock file next to the document
Close ==
    /\ app # "no"
    /\ app' = "no"
    /\ events' \in {events, Emit("unlockfile")}
    /\ UNCHANGED <<srv, file, upq, lockq, held, retry, errs, flag, at, sending, locker, dialog,
                   cred, autolock, ghosts, left>>

\* again, from the list of recent files of the application
Reopen ==
    /\ app = "no" /\ file.there
    /\ Spend("edits")
    /\ app' \in {"held", "loose"}
    /\ events' \in {events, Emit("lockfile")}
    /\ UNCHANGED <<srv, file, upq, lockq, held, retry, errs, flag, at, sending, locker, dialog,
                   cred, autolock, ghosts>>

\* the window _direct_edit_conflict: force_update, or nothing
Overwrite ==
    /\ dialog # Nothing
    /\ dialog' = Nothing
    /\ IF Up /\ file.there
       THEN file' = [file EXCEPT !.digest = dialog, !.base = @ \cup {dialog}] /\ upq' = TRUE
       ELSE UNCHANGED <<file, upq>>
    /\ UNCHANGED <<srv, app, events, lockq, held, retry, errs, flag, at, sending, locker, cred,
                   autolock, ghosts, left>>

KeepServer ==
    /\ dialog # Nothing
    /\ dialog' = Nothing
    /\ known' = known \cup {file.v}
    /\ UNCHANGED <<srv, disk, work, at, sending, locker, cred, autolock, mine, others, excuse,
                   lost, kept, left>>

-----------------------------------------------------------------------------
(* The other users of the server, and the login.                           *)

Elsewhere == UNCHANGED <<disk, work, at, sending, locker, dialog, autolock, mine, known, lost,
                         kept>>

OtherWrites ==
    /\ srv.lock # "me" /\ Spend("others")
    /\ others' = others \cup {Fresh}
    /\ srv' = [srv EXCEPT !.v = Fresh]
    /\ excuse' = IF at = "sending" THEN excuse \cup {"race"} ELSE excuse
    /\ UNCHANGED cred /\ Elsewhere

OtherLocks ==
    /\ srv.lock = "none" /\ Fault
    /\ srv' = [srv EXCEPT !.lock = "other"]
    /\ UNCHANGED <<cred, others, excuse>> /\ Elsewhere

OtherUnlocks ==
    /\ srv.lock = "other"
    /\ srv' = [srv EXCEPT !.lock = "none"]
    /\ UNCHANGED <<cred, others, excuse, left>> /\ Elsewhere

Expires ==
    /\ cred /\ Fault
    /\ cred' = FALSE
    /\ UNCHANGED <<srv, others, excuse>> /\ Elsewhere

LogsIn ==
    /\ ~cred
    /\ cred' = TRUE
    /\ UNCHANGED <<srv, others, excuse, left>> /\ Elsewhere

-----------------------------------------------------------------------------
(* The application ends, by a stop or a crash, and starts again: _cleanup. *)

Quit ==
    /\ Up /\ Spend("quits")
    /\ at' = "down"
    /\ srv' \in {srv} \cup IF at = "sending" /\ cred /\ srv.lock # "other"
                           THEN {[srv EXCEPT !.v = file.v]} ELSE {}
    /\ known' = known \cup {srv'.v}
    /\ events' = << >> /\ upq' = FALSE
    /\ lockq' = << >> /\ held' = << >>
    /\ retry' = FALSE /\ errs' = 0
    /\ flag' = FALSE
    /\ sending' = Nothing
    /\ auto' = "none" /\ toLock' = FALSE /\ snap' = "idle"
    /\ orphans' = "no"
    /\ dialog' = Nothing
    /\ excuse' = excuse \ {"race"}
    /\ kept' = IF srv.lock = "me" /\ ~locked THEN kept \cup {"quit"} ELSE kept
    /\ UNCHANGED <<disk, locked, cred, autolock, mine, others, lost>>

Start ==
    /\ at = "down"
    /\ at' = "cleanup"
    /\ orphans' = "first"
    /\ UNCHANGED <<srv, disk, work, sending, auto, toLock, snap, locked, dialog, cred,
                   autolock, ghosts, left>>

CleanupIf(keeps) ==
    /\ at = "cleanup"
    /\ at' = "setup"
    /\ IF ~file.there THEN UNCHANGED <<file, upq, lost>>
       ELSE IF ~cred
       THEN file' = Gone /\ Lose("credentials") /\ UNCHANGED upq
       ELSE IF file.v # file.digest /\ keeps
       THEN upq' = TRUE /\ UNCHANGED <<file, lost>>
       ELSE file' = (IF locked THEN file ELSE Gone) /\ UNCHANGED <<upq, lost>>
    /\ excuse' = IF file'.there THEN excuse ELSE {}
    /\ UNCHANGED <<srv, app, events, lockq, held, retry, errs, flag, sending, locker, dialog,
                   cred, autolock, mine, others, known, kept, left>>

\* mutant: what was changed while the application was down is removed
CleanupMutant == CleanupIf(FALSE)

Cleanup == CleanupIf(TRUE)

SetupWatchdog ==
    /\ at = "setup"
    /\ at' = "interact"
    /\ UNCHANGED <<srv, disk, work, sending, locker, dialog, cred, autolock, ghosts, left>>

-----------------------------------------------------------------------------
Next ==
    \/ Edit \/ EditFails \/ Orphans \/ Interact
    \/ LockSkipped \/ Lock \/ Unlock \/ UnlockOrphan \/ LockFails \/ LockRefused \/ LockRaises
    \/ LocksDone
    \/ UploadDropped \/ UploadSame \/ UploadConflict \/ UploadBegins
    \/ UploadEnds \/ UploadFails \/ UploadRefused \/ UploadSkipped \/ UploadsDone
    \/ HandleEvent
    \/ PollBegins \/ PollEnds
    \/ Write \/ Close \/ Reopen \/ Overwrite \/ KeepServer
    \/ OtherWrites \/ OtherLocks \/ OtherUnlocks \/ Expires \/ LogsIn
    \/ Quit \/ Start \/ Cleanup \/ SetupWatchdog

Spec == Init /\ [][Next]_vars

-----------------------------------------------------------------------------
(* A version of another user that the local file neither comes from nor    *)
(* was chosen to replace is only replaced in the cases named: it arrived   *)
(* after the check, or the folder was marked as locked while the document  *)
(* was not, or not yet.                                                    *)
KeepsVersion == srv'.v \in mine' /\ Unseen => excuse # {}
KeepsOther == [][KeepsVersion]_vars

Idle ==
    /\ Interacts
    /\ events = << >> /\ ~upq /\ lockq = << >> /\ ~retry
    /\ snap = "idle" /\ ~toLock /\ orphans = "no" /\ dialog = Nothing

(* When nothing is left to do, the last version the user saved is on the   *)
(* server, was there, or the user was told -- or it is one of the ways a   *)
(* version is lost: the document was downloaded again over it              *)
(* ("replaced"), there were no credentials or no engine for it             *)
(* ("credentials"), nothing watched the folder yet ("unwatched"), or the   *)
(* server has no place for it, which is only logged ("skipped").           *)
Sent == Idle => ~Unsent \/ lost # {}

(* When nothing is left to do and the document is closed, the document is  *)
(* no longer locked, but for the ways a lock is kept: the download failed  *)
(* after it ("edit"), the folder was marked already ("marked"), an unlock  *)
(* found no credentials, was refused, was lost with the pass that an error *)
(* ended ("raised") or overtook a lock that had to wait ("late"), or the   *)
(* application ended before the lock was in the table ("quit").            *)
Released == Idle /\ app = "no" /\ auto = "none" /\ ~locked => srv.lock # "me" \/ kept # {}

(* Nothing the user did in the local application is left half-way.         *)
EditsSent == Sent /\ Released
=============================================================================
