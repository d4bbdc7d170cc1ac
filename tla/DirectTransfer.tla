--------------------------- MODULE DirectTransfer ---------------------------
(***************************************************************************)
(* One session of Direct Transfer: files and folders of the computer sent  *)
(* to a folder of the server, outside of the synchronization.              *)
(*                                                                         *)
(* A Runner thread records the session and its items (_direct_transfer).   *)
(* A processor then handles each item: it makes the folder, or uploads the *)
(* blob chunk by chunk and links it to a new document, and counts the item *)
(* in the session.  Meanwhile the user may pause, resume or cancel the     *)
(* session, cancel one upload, suspend the engine or restart.              *)
(*                                                                         *)
(* The queues are QueueManager's: here `due` holds the items of which a    *)
(* copy will reach a processor.  One processor at a time works on an item  *)
(* (HandlersExclusive there).  It is one action per access to the tables   *)
(* States, Uploads and Sessions.  What runs in the main thread is          *)
(* sequential: gui says how far it is.                                     *)
(***************************************************************************)
EXTENDS Naturals, FiniteSets

CONSTANTS
    Items,       \* the files and folders of the session
    NoItem,      \* None
    Folders,     \* the folderish items
    Below,       \* Below[f]: the items whose path begins with the path of f
    Chunked,     \* the files larger than Options.chunk_limit
    StartPaused, \* the session is created paused
    EarlyClicks, \* the user acts on a session that is still being planned
    Ops,         \* what the user does (see Operation)
    Faults,      \* what the server and the disk do (see Fault)
    MaxOps,      \* bound: operations of the user
    MaxFaults    \* bound: faults

Operation == {"pause", "resume", "cancel_session", "cancel_upload", "suspend", "restart"}

\* connection: a request fails        expired: the batch is not there any more
\* http404: the linking answers 404   not_found: NotFound is raised
\* missing: no such local path        exists: a duplicate, to be ignored
\* forbidden: an error that is only logged, or above the threshold of errors
\* credentials: those of the bucket   vanished: the file goes while it is read
Fault == {"connection", "expired", "http404", "not_found", "missing", "exists",
          "forbidden", "credentials", "vanished"}

Status == {"ONGOING", "PAUSED", "SUSPENDED", "DONE", "CANCELLED"}

ASSUME ConstantsAssumption ==
    /\ IsFiniteSet(Items)
    /\ NoItem \notin Items
    /\ Folders \subseteq Items
    /\ Below \in [Folders -> SUBSET Items]
    /\ \A f \in Folders : f \notin Below[f]
    /\ Chunked \subseteq Items
    /\ StartPaused \in BOOLEAN
    /\ EarlyClicks \in BOOLEAN
    /\ Ops \subseteq Operation
    /\ Faults \subseteq Fault
    /\ MaxOps \in Nat
    /\ MaxFaults \in Nat

VARIABLES
    stage,      \* how far _direct_transfer is
    planned,    \* the items it has inserted
    rows,       \* the items that have a row in States
    todo,       \* those whose remote_state is "todo": their folder comes first
    due,        \* a copy of the item is queued, or waits on error
    step,       \* where the processor of an item is
    upload,     \* status of the row of Uploads of an item, "none" without one
    status,     \* Sessions.status
    uploaded,   \* Sessions.uploaded
    total,      \* Sessions.total
    suspended,  \* Engine._pause
    gui,        \* what the main thread is in the middle of
    target,     \* the item gui is about
    linked,     \* history: the items whose document is on the server
    abandoned,  \* history: those a handler has left, that nothing has pushed since
    lost,       \* history: those whose row went without being counted
    ops,        \* what is left of MaxOps
    faults      \* what is left of MaxFaults

planVars == <<stage, planned>>
sessionVars == <<status, uploaded, total>>
userVars == <<suspended, gui, target, ops>>
lossVars == <<abandoned, lost>>
historyVars == <<linked, lossVars>>
vars == <<planVars, rows, todo, due, step, upload, sessionVars, userVars, historyVars, faults>>

Steps == {"idle", "session", "path", "mkdir", "get", "new", "chunks", "complete",
          "link", "cancelled", "ok_transfer", "ok_state", "ok_session", "ok_count",
          "no_transfer", "no_state", "no_count"}

Children(f) == {i \in Below[f] : \A g \in Folders \cap Below[f] : i \notin Below[g]}

HasParent(i) == \E f \in Folders : i \in Below[f]

Init ==
    /\ stage = "create"
    /\ planned = {}
    /\ rows = {}
    /\ todo = {}
    /\ due = {}
    /\ step = [i \in Items |-> "idle"]
    /\ upload = [i \in Items |-> "none"]
    /\ status = "none"
    /\ uploaded = 0
    /\ total = 0
    /\ suspended = FALSE
    /\ gui = "idle"
    /\ target = NoItem
    /\ linked = {}
    /\ abandoned = {}
    /\ lost = {}
    /\ ops = MaxOps
    /\ faults = MaxFaults

-----------------------------------------------------------------------------
(* Helpers on the tables                                                   *)

\* UPDATE Uploads SET status = s: nothing to update without a row.
SetUploads(S, s) ==
    upload' = [i \in Items |-> IF i \in S /\ upload[i] # "none" THEN s ELSE upload[i]]

RemoveUploads(S) ==
    upload' = [i \in Items |-> IF i \in S THEN "none" ELSE upload[i]]

\* update_session: one more item is uploaded.
UpdateSession ==
    /\ uploaded' = uploaded + 1
    /\ status' = IF uploaded' = total THEN "DONE" ELSE status
    /\ UNCHANGED total

\* Fault: the count may go below zero.
DecreaseSessionUnbounded ==
    /\ total' = total - 1
    /\ status' = IF uploaded = total' THEN IF total' = 0 THEN "CANCELLED" ELSE "DONE" ELSE status
    /\ UNCHANGED uploaded

\* decrease_session_counts: one item less to upload.
DecreaseSession ==
    /\ total' = IF total = 0 THEN 0 ELSE total - 1
    /\ status' = IF uploaded = total'
                 THEN IF total' = 0 THEN "CANCELLED" ELSE "DONE"
                 ELSE status
    /\ UNCHANGED uploaded

\* pause_session, as a whole under the lock of the database.
PauseSession ==
    /\ status' = "PAUSED"
    /\ SetUploads(rows, "PAUSED")
    /\ UNCHANGED <<uploaded, total>>

-----------------------------------------------------------------------------
(* The Runner thread: Engine._direct_transfer                              *)

CreateSession ==
    /\ stage = "create"
    /\ stage' = "plan"
    /\ status' = IF StartPaused THEN "PAUSED" ELSE "ONGOING"
    /\ total' = Cardinality(Items)
    /\ UNCHANGED <<planned, rows, todo, due, step, upload, uploaded, userVars, historyVars, faults>>

\* One batch of rows: the paths are sorted, so a folder comes before what it holds.
PlanItems ==
    /\ stage = "plan"
    /\ \E b \in SUBSET (Items \ planned) :
        /\ b # {}
        /\ \A f \in Folders : Below[f] \cap b # {} => f \in planned \cup b
        /\ planned' = planned \cup b
        /\ rows' = rows \cup b
        /\ todo' = todo \cup {i \in b : HasParent(i)}
    /\ stage' = IF planned' = Items THEN "queue" ELSE "plan"
    /\ UNCHANGED <<due, step, upload, sessionVars, userVars, historyVars, faults>>

QueueItems ==
    /\ stage = "queue"
    /\ stage' = "done"
    /\ due' = IF StartPaused THEN due ELSE due \cup rows
    /\ abandoned' = abandoned \ due'
    /\ UNCHANGED <<planned, rows, todo, step, upload, sessionVars, userVars, linked, lost, faults>>

-----------------------------------------------------------------------------
(* A processor at work on item i                                           *)

Goto(i, s) == step' = [step EXCEPT ![i] = s]

\* The handler is at s and goes on to the next step, or leaves.
At(i, s, next) == step[i] = s /\ Goto(i, next)

\* The row is acquired, unless it is gone (the copy is dropped) or waits for
\* its folder (it is skipped, and pushed again by the folder).
Take(i) ==
    /\ i \in due
    /\ step[i] = "idle"
    /\ ~suspended
    /\ due' = due \ {i}
    /\ IF i \in rows /\ i \notin todo THEN Goto(i, "session") ELSE UNCHANGED step
    /\ UNCHANGED <<planVars, rows, todo, upload, sessionVars, userVars, historyVars, faults>>

\* No item of a paused session is handled.
ReadSession(i) ==
    /\ At(i, "session", IF status = "PAUSED" THEN "idle" ELSE "path")
    /\ UNCHANGED <<planVars, rows, todo, due, upload, sessionVars, userVars, historyVars, faults>>

PathExists(i) ==
    /\ At(i, "path", IF i \in Folders THEN "mkdir" ELSE "get")
    /\ UNCHANGED <<planVars, rows, todo, due, upload, sessionVars, userVars, historyVars, faults>>

Faulty(f) == f \in Faults /\ faults > 0 /\ faults' = faults - 1

\* A path that does not exist pauses the session.
PathMissing(i) ==
    /\ At(i, "path", "idle")
    /\ Faulty("missing")
    /\ PauseSession
    /\ UNCHANGED <<planVars, rows, todo, due, userVars, historyVars>>

\* duplicate_behavior is "ignore" and the server has a document of that name.
Ignored(i) ==
    /\ i \notin Folders
    /\ At(i, "path", "ok_transfer")
    /\ Faulty("exists")
    /\ linked' = linked \cup {i}
    /\ UNCHANGED <<planVars, rows, todo, due, upload, sessionVars, userVars, lossVars>>

\* Fault: what the folder holds is not pushed.
MakeFolderOnly(i) ==
    /\ At(i, "mkdir", "ok_transfer")
    /\ linked' = linked \cup {i}
    /\ todo' = todo \ Children(i)
    /\ UNCHANGED <<planVars, rows, due, upload, sessionVars, userVars, lossVars, faults>>

\* The folder is made on the server, and what it holds is ready to be handled.
MakeFolder(i) ==
    /\ At(i, "mkdir", "ok_transfer")
    /\ linked' = linked \cup {i}
    /\ todo' = todo \ Children(i)
    /\ due' = due \cup (Children(i) \cap rows \cap todo)
    /\ UNCHANGED <<planVars, rows, upload, sessionVars, userVars, lossVars, faults>>

\* _get_transfer finds an upload: UploadPaused is raised unless it is ongoing or done.
FindTransfer(i) ==
    /\ upload[i] # "none"
    /\ At(i, "get", CASE upload[i] = "ONGOING" -> "chunks"
                      [] upload[i] = "DONE" -> "link"
                      [] OTHER -> "idle")
    /\ UNCHANGED <<planVars, rows, todo, due, upload, sessionVars, userVars, historyVars, faults>>

\* _get_transfer finds none, or one whose batch the server has forgotten.
NoTransfer(i) ==
    /\ At(i, "get", "new")
    /\ IF upload[i] = "none"
       THEN UNCHANGED faults
       ELSE upload[i] \in {"ONGOING", "DONE"} /\ Faulty("expired")
    /\ UNCHANGED <<planVars, rows, todo, due, upload, sessionVars, userVars, historyVars>>

\* save_dt_upload: the new upload takes the status of the session, CANCELLED
\* when the row of the item is gone; _handle_transfer_status then looks at it.
NewTransfer(i) ==
    LET s == IF i \in rows THEN status ELSE "CANCELLED" IN
    /\ upload' = [upload EXCEPT ![i] = s]
    /\ At(i, "new", CASE s = "ONGOING" -> "chunks"
                      [] s = "DONE" -> "link"
                      [] s = "CANCELLED" -> "cancelled"
                      [] OTHER -> "idle")
    /\ UNCHANGED <<planVars, rows, todo, due, sessionVars, userVars, historyVars, faults>>

\* The status of the upload is read after each chunk; a missing row is ignored.
Chunk(i) ==
    /\ i \in Chunked
    /\ At(i, "chunks", CASE upload[i] \in {"none", "ONGOING", "DONE"} -> "complete"
                         [] upload[i] = "CANCELLED" -> "cancelled"
                         [] OTHER -> "idle")
    /\ UNCHANGED <<planVars, rows, todo, due, upload, sessionVars, userVars, historyVars, faults>>

\* A small blob is sent in one go, and no status is read.
SendInOneGo(i) ==
    /\ i \notin Chunked
    /\ At(i, "chunks", "complete")
    /\ UNCHANGED <<planVars, rows, todo, due, upload, sessionVars, userVars, historyVars, faults>>

\* The upload is completed: its status becomes DONE whatever it was.
Complete(i) ==
    /\ At(i, "complete", "link")
    /\ SetUploads({i}, "DONE")
    /\ UNCHANGED <<planVars, rows, todo, due, sessionVars, userVars, historyVars, faults>>

Link(i) ==
    /\ At(i, "link", "ok_transfer")
    /\ linked' = linked \cup {i}
    /\ UNCHANGED <<planVars, rows, todo, due, upload, sessionVars, userVars, lossVars, faults>>

\* The completion is to be done again: the item is postponed.
LinkNotFound(i) ==
    /\ At(i, "link", "idle")
    /\ Faulty("http404")
    /\ SetUploads({i}, "ONGOING")
    /\ due' = due \cup {i}
    /\ UNCHANGED <<planVars, rows, todo, sessionVars, userVars, historyVars>>

\* A request fails and the item is postponed.
Disconnected(i) ==
    /\ step[i] \in {"mkdir", "get", "new", "chunks", "complete", "link"}
    /\ Goto(i, "idle")
    /\ Faulty("connection")
    /\ due' = due \cup {i}
    /\ UNCHANGED <<planVars, rows, todo, upload, sessionVars, userVars, historyVars>>

\* The server answers 404 to the making of a folder or to the linking: the item is given up.
GiveUp(i) ==
    /\ step[i] \in {"mkdir", "link"}
    /\ Goto(i, "no_transfer")
    /\ Faulty("not_found")
    /\ UNCHANGED <<planVars, rows, todo, due, upload, sessionVars, userVars, historyVars>>

\* The handler leaves the row as it is, queued no more: Forbidden, a path too
\* long, an error above the threshold, any other RuntimeError.
LeaveBehind(i) ==
    /\ Goto(i, "idle")
    /\ abandoned' = abandoned \cup ({i} \ due)

Forbidden(i) ==
    /\ step[i] \in {"mkdir", "get", "new", "chunks", "complete", "link"}
    /\ LeaveBehind(i)
    /\ Faulty("forbidden")
    /\ UNCHANGED <<planVars, rows, todo, due, upload, sessionVars, userVars, linked, lost>>

\* The credentials of the bucket are expired even though refreshed: the upload
\* is to be done from the beginning, by whoever handles the row next.
CredentialsExpired(i) ==
    /\ step[i] = "chunks"
    /\ LeaveBehind(i)
    /\ Faulty("credentials")
    /\ RemoveUploads({i})
    /\ UNCHANGED <<planVars, rows, todo, due, sessionVars, userVars, linked, lost>>

\* The file is found missing when it is read (ENOENT): the row is removed, and
\* the session is told nothing.
Vanished(i) ==
    /\ i \notin Folders
    /\ step[i] \in {"get", "chunks"}
    /\ Goto(i, "idle")
    /\ Faulty("vanished")
    /\ rows' = rows \ {i}
    /\ todo' = todo \ {i}
    /\ lost' = lost \cup ({i} \cap rows)
    /\ UNCHANGED <<planVars, due, upload, sessionVars, userVars, linked, abandoned>>

\* UploadCancelled: the item is given up if its upload and its row are still there.
UploadCancelled(i) ==
    /\ At(i, "cancelled", IF upload[i] # "none" /\ i \in rows THEN "no_transfer" ELSE "idle")
    /\ UNCHANGED <<planVars, rows, todo, due, upload, sessionVars, userVars, historyVars, faults>>

\* _direct_transfer_end: the upload goes, then the row (with the rows below
\* it when the item is given up), then the item is counted in the session.
EndTransfer(i) ==
    /\ \/ At(i, "ok_transfer", "ok_state")
       \/ At(i, "no_transfer", "no_state")
    /\ RemoveUploads({i})
    /\ UNCHANGED <<planVars, rows, todo, due, sessionVars, userVars, historyVars, faults>>

EndUploaded(i) ==
    /\ At(i, "ok_state", "ok_session")
    /\ rows' = rows \ {i}
    /\ todo' = todo \ {i}
    /\ UNCHANGED <<planVars, due, upload, sessionVars, userVars, historyVars, faults>>

EndGivenUp(i) ==
    LET gone == {i} \cup (IF i \in Folders THEN Below[i] ELSE {}) IN
    /\ At(i, "no_state", "no_count")
    /\ rows' = rows \ gone
    /\ todo' = todo \ gone
    /\ UNCHANGED <<planVars, due, upload, sessionVars, userVars, historyVars, faults>>

\* Fault: only an ongoing session counts what is uploaded.
EndSessionOngoing(i) ==
    /\ At(i, "ok_session", IF status # "ONGOING" THEN "idle" ELSE "ok_count")
    /\ UNCHANGED <<planVars, rows, todo, due, upload, sessionVars, userVars, historyVars, faults>>

EndSession(i) ==
    /\ At(i, "ok_session", IF status = "CANCELLED" THEN "idle" ELSE "ok_count")
    /\ UNCHANGED <<planVars, rows, todo, due, upload, sessionVars, userVars, historyVars, faults>>

CountUploaded(i) ==
    /\ At(i, "ok_count", "idle")
    /\ UpdateSession
    /\ UNCHANGED <<planVars, rows, todo, due, upload, userVars, historyVars, faults>>

\* Fault: an item given up is counted as uploaded.
CountGivenUpAsUploaded(i) ==
    /\ At(i, "no_count", "idle")
    /\ UpdateSession
    /\ UNCHANGED <<planVars, rows, todo, due, upload, userVars, historyVars, faults>>

CountGivenUp(i) ==
    /\ At(i, "no_count", "idle")
    /\ DecreaseSession
    /\ UNCHANGED <<planVars, rows, todo, due, upload, userVars, historyVars, faults>>

\* What a processor does by itself.
Handle(i) ==
    \/ ReadSession(i) \/ PathExists(i) \/ MakeFolder(i)
    \/ FindTransfer(i) \/ NoTransfer(i) \/ NewTransfer(i)
    \/ Chunk(i) \/ SendInOneGo(i) \/ Complete(i) \/ Link(i)
    \/ UploadCancelled(i) \/ EndTransfer(i) \/ EndUploaded(i) \/ EndGivenUp(i)
    \/ EndSession(i) \/ CountUploaded(i) \/ CountGivenUp(i)

\* What the server and the disk make it do.
Suffer(i) ==
    \/ PathMissing(i) \/ Ignored(i) \/ LinkNotFound(i) \/ Disconnected(i) \/ GiveUp(i)
    \/ Forbidden(i) \/ CredentialsExpired(i) \/ Vanished(i)

-----------------------------------------------------------------------------
(* The main thread                                                         *)

\* The user may do op now.
Click(op) ==
    /\ op \in Ops
    /\ ops > 0
    /\ gui = "idle"
    /\ stage = "done" \/ EarlyClicks
    /\ ops' = ops - 1

Pause ==
    /\ Click("pause")
    /\ status = "ONGOING"
    /\ PauseSession
    /\ UNCHANGED <<planVars, rows, todo, due, step, suspended, gui, target, historyVars, faults>>

\* Engine.resume_session changes the status of the session first ...
Resume ==
    /\ Click("resume")
    /\ status = "PAUSED"
    /\ status' = "ONGOING"
    /\ gui' = "resume"
    /\ UNCHANGED <<planVars, rows, todo, due, step, upload, uploaded, total, suspended, target, historyVars, faults>>

\* Fault: only the rows that have an upload are pushed.
ResumeStarted ==
    /\ gui = "resume"
    /\ gui' = "idle"
    /\ SetUploads(rows, "ONGOING")
    /\ due' = due \cup {i \in rows : upload[i] # "none"}
    /\ abandoned' = abandoned \ due'
    /\ UNCHANGED <<planVars, rows, todo, step, sessionVars, suspended, target, ops, linked, lost, faults>>

\* ... then that of its uploads, and pushes all its rows (EngineDAO.resume_session).
ResumeSession ==
    /\ gui = "resume"
    /\ gui' = "idle"
    /\ SetUploads(rows, "ONGOING")
    /\ due' = due \cup rows
    /\ abandoned' = abandoned \ rows
    /\ UNCHANGED <<planVars, rows, todo, step, sessionVars, suspended, target, ops, linked, lost, faults>>

\* A paused session may be cancelled; a dialog asks for a confirmation.
AskCancelSession ==
    /\ Click("cancel_session")
    /\ status = "PAUSED"
    /\ gui' = "confirm"
    /\ UNCHANGED <<planVars, rows, todo, due, step, upload, sessionVars, suspended, target, historyVars, faults>>

\* Fault: the total of a cancelled session is left as it was.
CancelSessionKeepsTotal ==
    /\ gui = "confirm"
    /\ gui' = "idle"
    /\ RemoveUploads(rows)
    /\ rows' = {}
    /\ todo' = {}
    /\ status' = "CANCELLED"
    /\ UNCHANGED <<planVars, due, step, uploaded, total, suspended, target, ops, historyVars, faults>>

CancelSession ==
    /\ gui = "confirm"
    /\ gui' = "idle"
    /\ RemoveUploads(rows)
    /\ rows' = {}
    /\ todo' = {}
    /\ total' = uploaded
    /\ status' = "CANCELLED"
    /\ UNCHANGED <<planVars, due, step, uploaded, suspended, target, ops, historyVars, faults>>

DeclineCancel ==
    /\ gui = "confirm"
    /\ gui' = "idle"
    /\ UNCHANGED <<planVars, rows, todo, due, step, upload, sessionVars, suspended, target, ops, historyVars, faults>>

\* Engine.cancel_upload reads the upload and the row.  A processor at work on
\* an ongoing upload is told; otherwise the item is given up at once.
CancelUpload(i) ==
    /\ Click("cancel_upload")
    /\ upload[i] # "none"
    /\ i \in rows
    /\ target' = i
    /\ gui' = IF upload[i] = "ONGOING" /\ step[i] # "idle" THEN "tell" ELSE "drop_transfer"
    /\ UNCHANGED <<planVars, rows, todo, due, step, upload, sessionVars, suspended, historyVars, faults>>

TellProcessor ==
    /\ gui = "tell"
    /\ gui' = "idle"
    /\ target' = NoItem
    /\ SetUploads({target}, "CANCELLED")
    /\ UNCHANGED <<planVars, rows, todo, due, step, sessionVars, suspended, ops, historyVars, faults>>

DropTransfer ==
    /\ gui = "drop_transfer"
    /\ gui' = "drop_state"
    /\ RemoveUploads({target})
    /\ UNCHANGED <<planVars, rows, todo, due, step, sessionVars, suspended, target, ops, historyVars, faults>>

DropState ==
    /\ gui = "drop_state"
    /\ gui' = "drop_count"
    /\ rows' = rows \ {target}
    /\ todo' = todo \ {target}
    /\ UNCHANGED <<planVars, due, step, upload, sessionVars, suspended, target, ops, historyVars, faults>>

DropCount ==
    /\ gui = "drop_count"
    /\ gui' = "idle"
    /\ target' = NoItem
    /\ DecreaseSession
    /\ UNCHANGED <<planVars, rows, todo, due, step, upload, suspended, ops, historyVars, faults>>

\* Engine.suspend: the ongoing transfers are suspended with the queues.
Suspend ==
    /\ Click("suspend")
    /\ ~suspended
    /\ suspended' = TRUE
    /\ SetUploads({i \in Items : upload[i] = "ONGOING"}, "SUSPENDED")
    /\ UNCHANGED <<planVars, rows, todo, due, step, sessionVars, gui, target, historyVars, faults>>

\* resume_suspended_transfers: each suspended transfer goes on and its row is pushed.
ResumeSuspended ==
    LET S == {i \in Items : upload[i] = "SUSPENDED"} IN
    /\ SetUploads(S, "ONGOING")
    /\ due' = due \cup (S \cap rows)
    /\ abandoned' = abandoned \ S

\* Engine.resume.
ResumeEngine ==
    /\ suspended
    /\ gui = "idle"
    /\ suspended' = FALSE
    /\ ResumeSuspended
    /\ UNCHANGED <<planVars, rows, todo, step, sessionVars, gui, target, ops, linked, lost, faults>>

\* The application is killed and started again: register_queue_manager pushes
\* the rows of an ongoing session, except what an unfinished folder holds.
Restart ==
    LET S == {i \in Items : upload[i] = "SUSPENDED"}
        ready == {i \in rows : \A f \in rows \cap Folders : i \notin Children(f)}
    IN
    /\ "restart" \in Ops
    /\ ops > 0
    /\ ops' = ops - 1
    /\ stage \notin {"create"}
    /\ stage' = "done"
    /\ step' = [i \in Items |-> "idle"]
    /\ gui' = "idle"
    /\ target' = NoItem
    /\ suspended' = FALSE
    /\ SetUploads(S, "ONGOING")
    /\ due' = (S \cap rows) \cup (IF status = "ONGOING" THEN ready ELSE {})
    /\ abandoned' = abandoned \ due'
    /\ UNCHANGED <<planned, rows, todo, sessionVars, linked, lost, faults>>

-----------------------------------------------------------------------------
(* Specification                                                           *)

Runner == CreateSession \/ PlanItems \/ QueueItems

Gui ==
    \/ ResumeSession \/ CancelSession \/ DeclineCancel
    \/ TellProcessor \/ DropTransfer \/ DropState \/ DropCount

User ==
    \/ Pause \/ Resume \/ AskCancelSession \/ Suspend \/ ResumeEngine \/ Restart
    \/ \E i \in Items : CancelUpload(i)

Next ==
    \/ Runner \/ Gui \/ User
    \/ \E i \in Items : Take(i) \/ Handle(i) \/ Suffer(i)

Spec == Init /\ [][Next]_vars

\* The Runner, the processors and what the main thread has begun go on; the
\* user and the faults are under no obligation.
FairSpec ==
    /\ Spec
    /\ WF_vars(Runner)
    /\ WF_vars(Gui)
    /\ \A i \in Items : WF_vars(Take(i)) /\ WF_vars(Handle(i))

-----------------------------------------------------------------------------
(* Properties                                                              *)

\* Every variable keeps its type: the tables States, Uploads and Sessions only
\* hold the values the code writes.
TypeOK ==
    /\ stage \in {"create", "plan", "queue", "done"}
    /\ planned \subseteq Items
    /\ rows \subseteq planned
    /\ todo \subseteq rows
    /\ due \subseteq planned
    /\ step \in [Items -> Steps]
    /\ upload \in [Items -> Status \cup {"none"}]
    /\ status \in (Status \ {"SUSPENDED"}) \cup {"none"}
    /\ uploaded \in Nat
    /\ total \in Nat
    /\ suspended \in BOOLEAN
    /\ gui \in {"idle", "confirm", "resume", "tell", "drop_transfer", "drop_state", "drop_count"}
    /\ target \in Items \cup {NoItem}
    /\ linked \subseteq planned
    /\ abandoned \subseteq planned
    /\ lost \subseteq planned
    /\ ops \in 0..MaxOps
    /\ faults \in 0..MaxFaults

\* The row is gone and the item is about to be counted in the session.
Counting(i) == step[i] \in {"ok_session", "ok_count", "no_count"}

\* The items that the session has not counted: it still has to, but for those
\* it has lost.
Left == rows \cup {i \in Items : Counting(i)} \cup (Items \ planned) \cup lost

\* The counters of a session agree with the tables: what is not uploaded yet
\* is exactly what has a row, is about to be counted, is still to be planned or
\* vanished from the disk while it was read, which the session is not told.
\* They are written by update_session and decrease_session_counts, which know
\* nothing of the rows.
Accounting ==
    status \notin {"none", "CANCELLED"} => total = uploaded + Cardinality(Left)

\* No item of a session that goes on is left behind by pauses, suspensions and
\* errors: its row is being handled or will be, or waits for its folder.  The
\* exception is an item whose handler has ended on an error that the code only
\* logs (a 403 above all), until a resumption or a restart pushes it.
NothingForgotten ==
    stage = "done" /\ status = "ONGOING" /\ ~suspended /\ gui = "idle" =>
        \A i \in rows \ abandoned :
            \/ i \in due \/ step[i] # "idle"
            \/ \E f \in rows \cap Folders : i \in todo /\ i \in Children(f)

\* A session never counts more uploads than there are documents on the server,
\* whatever is retried, cancelled or restarted.
CountedIsLinked == uploaded <= Cardinality(linked)

\* The pending items of the abstract session: none once it is cancelled.
Pending == IF status = "CANCELLED" THEN {} ELSE Left

Contract == INSTANCE TransferSession WITH pending <- Pending

\* The tables and the counters implement a session as TransferSession has it:
\* it is done when the last item has ended, never with an item lost, and a
\* cancellation is final.
ImplementsSession == Contract!Spec

\* A session that is not left paused, by an engine that is not left suspended,
\* ends (Engine.handle_session_status then tells the user), unless an item is
\* lost or stays behind: then it stays open, and nothing says why.
SessionFinishes ==
    <>[](status # "PAUSED" /\ ~suspended /\ lost = {} /\ abandoned = {})
        => <>(status \in {"DONE", "CANCELLED"})
=============================================================================
