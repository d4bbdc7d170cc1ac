--------------------------- MODULE DirectDownload ---------------------------
(***************************************************************************)
(* Direct Download: documents picked in the browser are streamed by a pool *)
(* of threads into the folder of their batch; the thread that ends the     *)
(* last document of a batch archives that folder into "Downloads" and      *)
(* marks the records COMPLETED.  The window pauses, resumes and cancels    *)
(* records behind the back of the threads, the application stops, crashes  *)
(* and starts again.                                                       *)
(*                                                                         *)
(* A record of the table DirectDownloads is identified with its document.  *)
(* A file is named after the title of its document, which another document *)
(* of the folder may have, and is the sequence of the pieces written to    *)
(* it; a document has the pieces 1 .. Pieces (the chunks of a file, or the *)
(* files of a folder), and a piece remembers its document.                 *)
(***************************************************************************)
EXTENDS Integers, FiniteSets, SequencesExt

CONSTANTS
    Docs,         \* the documents, numbered in the order they are asked for
    Title,        \* document -> its title, as a name of a file
    Pieces,       \* pieces of a document
    Workers,      \* Options.direct_download_max_workers
    MaxHistory,   \* Options.total_download_history
    MaxFolders,   \* bound on the names of batch folders in use at once
    MaxClicks,    \* bound on what the user does
    MaxFaults     \* bound on crashes, stops and errors of the network and disk

ASSUME DocsAssumption == Docs \subseteq Nat /\ IsFiniteSet(Docs)
ASSUME TitleAssumption == DOMAIN Title = Docs
\* A document is not empty.
ASSUME PiecesAssumption == Pieces \in Nat \ {0}

VARIABLES
    rec,          \* the table DirectDownloads
    disk,         \* folder -> the files of that batch folder, or Gone
    batches,      \* the batches of this run
    stop,         \* _stop
    swept,        \* cleanup() has run after the stop
    asked,        \* the documents asked for so far
    delivered,    \* document -> the files put in "Downloads" for it
    clicks, faults,
    spoiled       \* document -> what may have spoiled its download (history)

downloadVars == <<rec, disk, batches, stop, swept, asked, delivered, clicks, faults, spoiled>>

Folders == 1 .. MaxFolders
Titles == {Title[r] : r \in Docs}
Absent == << <<0, -1>> >>
Gone == [name \in Titles |-> << <<0, -2>> >>]
Whole(c, r) == c = [i \in 1 .. Pieces |-> <<r, i>>]
Size(c) == IF c = Absent THEN 0 ELSE Len(c)
\* target_folder / filename
FileIn(f, r) == IF disk[f] = Gone THEN Absent ELSE disk[f][Title[r]]

Active == {"PENDING", "IN_PROGRESS", "PAUSED"}
Over == {"COMPLETED", "FAILED", "CANCELLED"}
Recorded(r) == rec[r].status # "none"

NoRecord == [status |-> "none", zip |-> 0, known |-> FALSE, got |-> Absent]

DownloadsInit ==
    /\ rec = [r \in Docs |-> NoRecord]
    /\ disk = [f \in Folders |-> Gone]
    /\ batches = << >>
    /\ stop = FALSE
    /\ swept = FALSE
    /\ asked = {}
    /\ delivered = [r \in Docs |-> {}]
    /\ clicks = 0
    /\ faults = 0
    /\ spoiled = [r \in Docs |-> {}]

-----------------------------------------------------------------------------
(* The table.  An UPDATE of a record that has been removed does nothing.   *)

\* update_direct_download_status
WithStatus(table, r, s) ==
    IF table[r].status = "none" THEN table ELSE [table EXCEPT ![r] = [table[r] EXCEPT !.status = s]]

\* update_direct_download: the whole record, as it was read earlier
WithRecord(table, r, old) ==
    IF table[r].status = "none" THEN table ELSE [table EXCEPT ![r] = old]

\* save_direct_download: the oldest records that are over make room
OldOnes(table) == {r \in Docs : table[r].status \in Over}
Excess(table) == Cardinality({r \in Docs : table[r].status # "none"}) - MaxHistory
Trimmed(table) ==
    [r \in Docs |->
        IF /\ r \in OldOnes(table)
           /\ Cardinality({o \in OldOnes(table) : o < r}) < Excess(table)
        THEN NoRecord ELSE table[r]]

\* All the documents of a batch: the records inserted are not over, so making
\* room after each of them or once is the same.
Inserted(table, docs, folder) ==
    Trimmed([r \in Docs |-> IF r \in docs
                            THEN [NoRecord EXCEPT !.status = "PENDING", !.zip = folder] ELSE table[r]])

-----------------------------------------------------------------------------
(* Batches.                                                                *)

\* the documents of a request that have the title of another one of it
Namesakes(docs) == {r \in docs : \E o \in docs \ {r} : Title[o] = Title[r]}

Waiting == [at |-> "queued", copy |-> NoRecord, append |-> FALSE, pos |-> 0]

\* _Batch: its folder, a task per document, how far it is finalized
Batch(folder, docs) ==
    [folder |-> folder, tasks |-> [r \in docs |-> Waiting],
     step |-> "open", final |-> {}, archive |-> << >>]

\* datetime and uuid: a name no folder, record (or copy of one) or batch has
Unused(running) ==
    {f \in Folders :
        /\ disk[f] = Gone
        /\ \A r \in Docs : rec[r].zip \notin {f, -f}
        /\ \A b \in DOMAIN running :
              /\ running[b].folder # f
              /\ \A r \in DOMAIN running[b].tasks : running[b].tasks[r].copy.zip \notin {f, -f}}

FreshFolder == {f \in Unused(batches) : \A o \in Unused(batches) : f <= o}

TaskOf(b, r) == batches[b].tasks[r]
DocsOf(b) == DOMAIN batches[b].tasks
At(b, r) == TaskOf(b, r).at
RunningOf(b) == {r \in DocsOf(b) : At(b, r) \notin {"queued", "dropped", "done"}}
Running == UNION {{<<b, r>> : r \in RunningOf(b)} : b \in DOMAIN batches}

Becomes(b, r, task) == batches' = [batches EXCEPT ![b].tasks[r] = task]
Goto(b, r, at) == Becomes(b, r, [TaskOf(b, r) EXCEPT !.at = at])
Ends(b, r) == Goto(b, r, "done")

Empty == [name \in Titles |-> Absent]

-----------------------------------------------------------------------------
(* The user.                                                               *)

\* the signal directDownload: one batch for the documents of a URL
Download(docs) ==
    /\ clicks < MaxClicks /\ ~stop
    /\ docs # {}
    /\ docs \cap asked = {}
    /\ asked' = asked \cup docs
    /\ \E f \in FreshFolder :
          /\ rec' = Inserted(rec, docs, f)
          /\ disk' = [disk EXCEPT ![f] = Empty]
          /\ batches' = Append(batches, Batch(f, docs))
    /\ spoiled' = [r \in Docs |-> spoiled[r] \cup IF r \in Namesakes(docs) THEN {"namesake"} ELSE {}]
    /\ clicks' = clicks + 1
    /\ UNCHANGED <<stop, swept, delivered, faults>>

\* the window shows one line for the records with the same zip_file; its
\* buttons act on one record of the line
Line(r) == {o \in Docs : Recorded(o) /\ rec[o].zip = rec[r].zip}
Shown(r) == Recorded(r) /\ \E o \in Line(r) : rec[o].status \in Active
LineIsPaused(r) ==
    /\ \A o \in Line(r) : rec[o].status \notin {"IN_PROGRESS", "PENDING"}
    /\ \E o \in Line(r) : rec[o].status = "PAUSED"

Pause(r) ==
    /\ clicks < MaxClicks /\ ~stop
    /\ Shown(r) /\ ~LineIsPaused(r)
    /\ rec' = WithStatus(rec, r, "PAUSED")
    /\ clicks' = clicks + 1
    /\ UNCHANGED <<disk, batches, stop, swept, asked, delivered, faults, spoiled>>

\* the window, and the list of single records
Cancel(r) ==
    /\ clicks < MaxClicks /\ ~stop
    /\ rec[r].status \in Active \/ (Shown(r) /\ LineIsPaused(r))
    /\ rec' = WithStatus(rec, r, "CANCELLED")
    /\ clicks' = clicks + 1
    /\ UNCHANGED <<disk, batches, stop, swept, asked, delivered, faults, spoiled>>

\* a batch of its own, in the folder of the first one when it is still there
Resubmitted(r, f) ==
    /\ disk' = IF disk[f] = Gone THEN [disk EXCEPT ![f] = Empty] ELSE disk
    /\ batches' = Append(batches, Batch(f, {r}))

OldFolder(zip) == {f \in Folders : f = zip /\ disk[f] # Gone}

Unsettled(r) ==
    \E b \in DOMAIN batches : r \in DocsOf(b) /\ batches[b].step # "closed"

\* the documents of the batches not settled that have r, or its folder, and r
Disturbed(r) ==
    LET near == {b \in DOMAIN batches : batches[b].step # "closed"
                    /\ (r \in DocsOf(b) \/ batches[b].folder = rec[r].zip)}
    IN  IF near = {} THEN {} ELSE {r} \cup UNION {DocsOf(b) : b \in near}

ResumeIf(r, submitted) ==
    /\ clicks < MaxClicks /\ ~stop
    /\ Shown(r) /\ LineIsPaused(r)
    /\ rec' = WithStatus(rec, r, "IN_PROGRESS")
    /\ IF ~submitted THEN UNCHANGED <<disk, batches>>
       ELSE \E f \in IF OldFolder(rec[r].zip) # {} THEN OldFolder(rec[r].zip)
                     ELSE FreshFolder :
              Resubmitted(r, f)
    /\ spoiled' = [o \in Docs |-> spoiled[o] \cup IF o \in Disturbed(r) THEN {"again"} ELSE {}]
    /\ clicks' = clicks + 1
    /\ UNCHANGED <<stop, swept, asked, delivered, faults>>

\* mutant: only the status is flipped
ResumeMutant(r) == ResumeIf(r, FALSE)

Resume(r) == ResumeIf(r, TRUE)

-----------------------------------------------------------------------------
(* The threads of the pool: _run_doc.                                      *)

Task == \* what every step of a task leaves alone
    UNCHANGED <<stop, swept, asked, delivered, clicks>>

\* the gate: pause, cancel and stop are looked at before the status is set
Begin(b, r) ==
    /\ At(b, r) = "queued" /\ ~stop
    /\ Cardinality(Running) < Workers
    /\ Goto(b, r, IF rec[r].status \in {"PAUSED", "CANCELLED"} THEN "done" ELSE "gated")
    /\ UNCHANGED <<rec, disk, faults, spoiled>> /\ Task

MarkInProgress(b, r) ==
    /\ At(b, r) = "gated"
    /\ rec' = WithStatus(rec, r, "IN_PROGRESS")
    /\ Goto(b, r, "marked")
    /\ UNCHANGED <<disk, faults, spoiled>> /\ Task

\* _enrich_record reads the record, asks the server, writes the record back
EnrichRead(b, r) ==
    /\ At(b, r) = "marked"
    /\ IF Recorded(r) /\ ~rec[r].known
       THEN Becomes(b, r, [TaskOf(b, r) EXCEPT !.at = "enriching", !.copy = rec[r]])
       ELSE Goto(b, r, "fetch")
    /\ UNCHANGED <<rec, disk, faults, spoiled>> /\ Task

EnrichWrite(b, r) ==
    /\ At(b, r) = "enriching"
    /\ rec' = WithRecord(rec, r, [TaskOf(b, r).copy EXCEPT !.known = TRUE])
    /\ Becomes(b, r, [TaskOf(b, r) EXCEPT !.at = "fetch", !.copy = NoRecord])
    /\ UNCHANGED <<disk, faults, spoiled>> /\ Task

EnrichFails(b, r) ==
    /\ At(b, r) = "enriching" /\ faults < MaxFaults
    /\ faults' = faults + 1
    /\ Becomes(b, r, [TaskOf(b, r) EXCEPT !.at = "fetch", !.copy = NoRecord])
    /\ UNCHANGED <<rec, disk, spoiled>> /\ Task

\* the server or the network fails: the document, the request or a chunk
RequestFails(b, r) ==
    /\ At(b, r) \in {"fetch", "stream"} /\ faults < MaxFaults
    /\ faults' = faults + 1
    /\ rec' = WithStatus(rec, r, "FAILED")
    /\ Ends(b, r)
    /\ UNCHANGED <<disk, spoiled>> /\ Task

\* _download_file: the file is complete, by its size or by the server's word,
\* whichever document it is a file of
IsComplete(b, r) ==
    LET size == Size(FileIn(batches[b].folder, r)) IN size >= Pieces

Skip(b, r) ==
    /\ At(b, r) = "fetch" /\ IsComplete(b, r)
    /\ Ends(b, r)
    /\ UNCHANGED <<rec, disk, faults, spoiled>> /\ Task

\* the server honours the range that is asked for, or sends everything
OpenIf(b, r, restarts) ==
    /\ At(b, r) = "fetch" /\ ~IsComplete(b, r)
    /\ LET f == batches[b].folder
           size == Size(FileIn(f, r))
       IN  IF disk[f] = Gone
           THEN /\ rec' = WithStatus(rec, r, "FAILED")
                /\ Ends(b, r)
                /\ UNCHANGED disk
           ELSE \E ranged \in IF size > 0 THEN BOOLEAN ELSE {FALSE} :
                  LET append == size > 0 /\ (ranged \/ ~restarts)
                  IN  /\ disk' = IF append THEN disk ELSE [disk EXCEPT ![f][Title[r]] = << >>]
                      /\ Becomes(b, r, [TaskOf(b, r) EXCEPT !.at = "stream", !.append = append,
                                                           !.pos = IF ranged THEN size + 1 ELSE 1])
                      /\ UNCHANGED rec
    /\ UNCHANGED <<faults, spoiled>> /\ Task

\* mutant: the whole file is sent again and still appended
OpenMutant(b, r) == OpenIf(b, r, FALSE)

Open(b, r) == OpenIf(b, r, TRUE)

Hole == <<0, 0>>
PutAt(file, pos, piece) ==
    [i \in 1 .. (IF pos > Len(file) THEN pos ELSE Len(file)) |->
        IF i = pos THEN piece ELSE IF i <= Len(file) THEN file[i] ELSE Hole]

\* the next chunk: a stop and a cancel end the task as if it had succeeded, a
\* pause frees the thread; the file of a folder that has gone is written in vain
Chunk(b, r) ==
    /\ At(b, r) = "stream"
    /\ LET f == batches[b].folder
           t == TaskOf(b, r)
           over == t.pos > Pieces
           cut == ~over /\ (stop \/ rec[r].status \in {"PAUSED", "CANCELLED"})
           piece == <<r, t.pos>>
       IN  /\ IF over \/ cut
              THEN UNCHANGED <<rec, disk>> /\ Ends(b, r)
              ELSE /\ disk' = IF disk[f] = Gone THEN disk
                              ELSE [disk EXCEPT ![f][Title[r]] =
                                    IF t.append THEN Append(FileIn(f, r), piece)
                                                ELSE PutAt(FileIn(f, r), t.pos, piece)]
                   /\ rec' = IF Recorded(r) THEN [rec EXCEPT ![r] = [rec[r] EXCEPT !.known = TRUE]] ELSE rec
                   /\ Becomes(b, r, [t EXCEPT !.pos = t.pos + 1])
           /\ spoiled' = IF cut /\ stop THEN [spoiled EXCEPT ![r] = spoiled[r] \cup {"stopped"}]
                         ELSE spoiled
    /\ UNCHANGED faults /\ Task

-----------------------------------------------------------------------------
(* The thread that ends the last document finalizes the batch.             *)

Moves(b, batch) == batches' = [batches EXCEPT ![b] = batch]

FinalRead(b) ==
    /\ batches[b].step = "open"
    /\ \A r \in DocsOf(b) : At(b, r) = "done"
    /\ Moves(b, [batches[b] EXCEPT !.step = "archive",
            !.final = {r \in DocsOf(b) : rec[r].status = "IN_PROGRESS"}])
    /\ UNCHANGED <<rec, disk, faults, spoiled>> /\ Task

HasFiles(f) == disk[f] # Gone /\ \E name \in Titles : disk[f][name] # Absent
Removed(f) == [disk EXCEPT ![f] = Gone]

\* _create_zip_archive takes all the files of the folder and removes it
FinalArchive(b) ==
    LET f == batches[b].folder
        archived == batches[b].final # {} /\ HasFiles(f)
        put == {r \in DocsOf(b) : archived /\ FileIn(f, r) # Absent}
    IN  /\ batches[b].step = "archive"
        /\ delivered' = [r \in Docs |->
                IF r \in put THEN delivered[r] \cup {FileIn(f, r)} ELSE delivered[r]]
        /\ disk' = Removed(f)
        /\ Moves(b, [batches[b] EXCEPT !.step = "complete",
                !.archive = IF archived THEN disk[f] ELSE << >>])
        /\ spoiled' = [r \in Docs |->
                spoiled[r] \cup IF r \in put \ batches[b].final THEN {"taken"} ELSE {}]
        /\ UNCHANGED <<rec, stop, swept, asked, clicks, faults>>

\* no room in "Downloads": the error is logged, and the folder stays
ArchiveFails(b) ==
    /\ batches[b].step = "archive" /\ batches[b].final # {}
    /\ faults < MaxFaults
    /\ faults' = faults + 1
    /\ Moves(b, [batches[b] EXCEPT !.step = "complete"])
    /\ spoiled' = [r \in Docs |->
            spoiled[r] \cup IF r \in batches[b].final THEN {"unzipped"} ELSE {}]
    /\ UNCHANGED <<rec, disk>> /\ Task

\* zip_file is replaced by the name of the archive, written -folder
FinalComplete(b) ==
    LET a == batches[b].archive
        done(r) == [rec[r] EXCEPT !.status = "COMPLETED",
                        !.zip = IF a = << >> THEN rec[r].zip ELSE -batches[b].folder,
                        !.got = IF a = << >> THEN Absent ELSE a[Title[r]]]
    IN  /\ batches[b].step = "complete"
        /\ rec' = [r \in Docs |->
                IF r \in batches[b].final /\ Recorded(r) THEN done(r) ELSE rec[r]]
        /\ Moves(b, [batches[b] EXCEPT !.step = "closed", !.final = {}, !.archive = << >>])
        /\ UNCHANGED <<disk, faults, spoiled>> /\ Task

-----------------------------------------------------------------------------
(* The application.                                                        *)

\* Manager.stop: what is queued is dropped, what is running goes on
Stop ==
    /\ ~stop /\ faults < MaxFaults
    /\ faults' = faults + 1
    /\ stop' = TRUE
    /\ batches' = [b \in DOMAIN batches |-> [batches[b] EXCEPT !.tasks =
            [r \in DocsOf(b) |-> IF At(b, r) = "queued"
                                 THEN [TaskOf(b, r) EXCEPT !.at = "dropped"]
                                 ELSE TaskOf(b, r)]]]
    /\ UNCHANGED <<rec, disk, swept, asked, delivered, clicks, spoiled>>

\* cleanup, unless a download is active
Cleanup ==
    LET kept == \E r \in Docs : rec[r].status \in Active
    IN  /\ stop /\ ~swept
        /\ swept' = TRUE
        /\ disk' = IF kept THEN disk ELSE [f \in Folders |-> Gone]
        /\ spoiled' = [r \in Docs |->
                spoiled[r] \cup IF ~kept /\ Unsettled(r) THEN {"swept"} ELSE {}]
        /\ UNCHANGED <<rec, batches, stop, asked, delivered, clicks, faults>>

\* resume_persisted_downloads: a batch for the records with the same zip_file
Resumable == {r \in Docs : rec[r].status \in Active}
Groups == {{o \in Resumable : rec[o].zip = rec[r].zip} : r \in Resumable}

\* the folder each had, when it is still there; MaxFolders bounds the others
Placings(groups) ==
    {folder \in [groups -> Folders] :
        /\ \A g \in groups :
              LET zip == rec[CHOOSE r \in g : TRUE].zip
              IN  folder[g] \in IF OldFolder(zip) # {} THEN OldFolder(zip) ELSE Unused(<< >>)
        /\ \A g, h \in groups : g # h => folder[g] # folder[h]}

Restarts(groups) ==
    /\ Placings(groups) # {}
    /\ rec' = [r \in Docs |-> IF rec[r].status = "IN_PROGRESS"
                              THEN [rec[r] EXCEPT !.status = "PENDING"] ELSE rec[r]]
    /\ LET order == SetToSeq(groups)
           folder == CHOOSE folder \in Placings(groups) : TRUE
       IN  /\ disk' = [f \in Folders |->
                IF disk[f] = Gone /\ \E g \in groups : folder[g] = f THEN Empty ELSE disk[f]]
           /\ batches' = [i \in DOMAIN order |-> Batch(folder[order[i]], order[i])]

\* the threads are joined when the interpreter ends
Busy(b) ==
    \/ RunningOf(b) # {}
    \/ batches[b].step \in {"archive", "complete"}
    \/ batches[b].step = "open" /\ \A r \in DocsOf(b) : At(b, r) = "done"

Relaunch ==
    /\ stop /\ swept
    /\ \A b \in DOMAIN batches : ~Busy(b)
    /\ Restarts(Groups)
    /\ stop' = FALSE
    /\ swept' = FALSE
    /\ UNCHANGED <<asked, delivered, clicks, faults, spoiled>>

Crash ==
    /\ faults < MaxFaults
    /\ faults' = faults + 1
    /\ Restarts(Groups)
    /\ stop' = FALSE
    /\ swept' = FALSE
    /\ UNCHANGED <<asked, delivered, clicks, spoiled>>

-----------------------------------------------------------------------------
TaskStep(b, r) ==
    \/ Begin(b, r)      \/ MarkInProgress(b, r)
    \/ EnrichRead(b, r) \/ EnrichWrite(b, r)
    \/ Skip(b, r)       \/ Open(b, r)
    \/ Chunk(b, r)

Final(b) == FinalRead(b) \/ FinalArchive(b) \/ FinalComplete(b)

DownloadsNext ==
    \/ \E docs \in SUBSET Docs : Download(docs)
    \/ \E r \in Docs : Pause(r) \/ Resume(r) \/ Cancel(r)
    \/ \E b \in DOMAIN batches :
          \/ \E r \in DocsOf(b) : TaskStep(b, r) \/ EnrichFails(b, r) \/ RequestFails(b, r)
          \/ Final(b) \/ ArchiveFails(b)
    \/ Stop \/ Cleanup \/ Relaunch \/ Crash

MaxBatches == MaxClicks + 1

Fairness ==
    /\ \A b \in 1 .. MaxBatches :
          /\ WF_downloadVars(b \in DOMAIN batches /\ Final(b))
          /\ \A r \in Docs :
                WF_downloadVars(b \in DOMAIN batches /\ r \in DocsOf(b) /\ TaskStep(b, r))

DownloadsSpec == DownloadsInit /\ [][DownloadsNext]_downloadVars /\ Fairness

-----------------------------------------------------------------------------
(* A record that says COMPLETED has its whole document in "Downloads",     *)
(* whatever was paused, resumed, cut by a crash, or sent again by a server *)
(* that ignores ranges -- except when another document of its request has  *)
(* its title, and so its file ("namesake"), when the user resumed it while *)
(* its batch was not settled, when the application was stopped in the      *)
(* middle of it, or when the archive could not be written.  What is put in *)
(* "Downloads" is whole, too, except that the archive of a batch takes the *)
(* beginning of a document that was paused or cancelled while it streamed  *)
(* ("taken"), which _finalize_batch means to leave alone.  Documents of    *)
(* one title that are asked for one after the other never share a file.    *)
Completed ==
    \A r \in Docs :
        /\ rec[r].status = "COMPLETED" => Whole(rec[r].got, r) \/ spoiled[r] \ {"taken"} # {}
        /\ \A c \in delivered[r] : Whole(c, r) \/ spoiled[r] # {}

(* "Only skip when we are sure the file is already complete": a thread that *)
(* takes the file it finds for a complete one has its own document in it.  *)
OnlyCompleteSkipped ==
    [][\A b \in DOMAIN batches : \A r \in DocsOf(b) :
          Skip(b, r) => Whole(FileIn(batches[b].folder, r), r)]_downloadVars

(* A download that is pending or in progress ends, or waits for the user,  *)
(* unless the application stops: every way to set these two states hands   *)
(* the record to a thread.                                                 *)
Settles ==
    \A r \in Docs :
        rec[r].status \in {"PENDING", "IN_PROGRESS"}
            ~> (rec[r].status \notin {"PENDING", "IN_PROGRESS"} \/ stop)
=============================================================================
