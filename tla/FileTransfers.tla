----------------------------- MODULE FileTransfers -----------------------------
(***************************************************************************)
(* How the content of one synchronized file goes over the network          *)
(* (client/remote_client.py, client/uploader, Downloads and Uploads of     *)
(* dao/engine.py, Processor).  A download is taken up where its temporary  *)
(* file ends, an upload where the batch of the server ends; both can be    *)
(* paused by the user, suspended with the engine and lost with the         *)
(* connection between two chunks, while the file and the document change.  *)
(* PairSync has what the pair becomes; here it has one direction at a time.*)
(***************************************************************************)
EXTENDS Naturals, Sequences, FiniteSets

CONSTANTS
    Chunks,     \* the chunks of a file
    Limit,      \* what is larger is downloaded in chunks (tmp_file_limit)
    Versions,   \* how many versions of the content are written
    None,
    Budgets     \* what the user and the network may do, and how often

(* A content is the sequence of the versions of its chunks. *)
Contents == Seq(Nat)
Rows == [status : {"ongoing", "paused", "suspended", "done"}, tied : BOOLEAN]
Pairs == [state : {"new", "up", "down", "synced"}, ver : Nat, ldig : Contents, rdig : Contents \cup {None}]
Places == {"info", "get", "chunk", "tail", "check", "place", "batch", "send", "complete", "link", "linked", "raised"}
Jobs == [job : {"down", "up"}, at : Places, pair : Pairs, digest : Contents \cup {None}, rest : Contents]

ASSUME ChunksAssumption == Chunks \in Nat \ {0} /\ Limit \in Nat /\ Versions \in Nat
ASSUME NoneAssumption == None \notin Contents \cup Rows \cup Jobs

VARIABLES
    disk,       \* the content of the file, chunk by chunk
    doc,        \* the content of the document, or None before its creation
    copies,     \* how many documents have been created for the file
    version,    \* the versions written so far
    news,       \* the changes that the watchers have not reported
    pair,       \* the pair: state, version, digests (of Pairs)
    tmp,        \* the temporary file of the download, or None
    down, up,   \* the rows of the transfer in Downloads and in Uploads, or None
    batch,      \* the chunks the server has in the batch of the row, or None
    served,     \* whether the server has executed the request of the row
    queue,      \* whether the pair is in a queue
    proc,       \* what the processor is doing (of Jobs), or None
    suspended,  \* whether the engine is suspended
    digested,   \* whether the server gives the digest of the document
    left, why, after

vars == <<disk, doc, copies, version, news, pair, tmp, down, up, batch, served, queue, proc, suspended,
          digested, left, why, after>>
server == <<doc, copies, batch, served>>
world == <<disk, doc, copies, version, news>>
engine == <<tmp, down, up, queue, proc, suspended>>

Whole(v) == [i \in 1..Chunks |-> v]
IsWhole(content) == \E v \in 0..Versions : content = Whole(v)
Spend(what) == left[what] > 0 /\ left' = [left EXCEPT ![what] = @ - 1]
Row(status, tied) == [status |-> status, tied |-> tied]
Stopped(row) == row # None /\ row.status \in {"paused", "suspended"}

-------------------------------------------------------------------------------
(* The file, the document and the watchers                                 *)

UserEdits ==
    /\ Spend("edit") /\ digested /\ version < Versions /\ pair.state # "down" /\ "doc" \notin news
    /\ version' = version + 1 /\ disk' = Whole(version + 1) /\ news' = news \cup {"disk"}
    /\ UNCHANGED <<doc, copies, pair, tmp, down, up, batch, served, queue, proc, suspended, digested, why, after>>

ServerChanges ==
    /\ Spend("edit") /\ version < Versions /\ doc # None /\ pair.state \in {"synced", "down"} /\ "disk" \notin news
    /\ version' = version + 1 /\ doc' = Whole(version + 1) /\ news' = news \cup {"doc"}
    /\ UNCHANGED <<disk, copies, pair, tmp, down, up, batch, served, queue, proc, suspended, digested, why, after>>

(* What a watcher reports removes the transfers and queues the pair; nothing is done when the digest is the same. *)
ReportIf(what, new, remove) ==
    /\ what \in news /\ news' = news \ {what}
    /\ IF pair = new THEN UNCHANGED <<pair, down, up, queue>>
       ELSE /\ pair' = [new EXCEPT !.ver = @ + 1] /\ queue' = TRUE
            /\ IF remove THEN down' = None /\ up' = None ELSE UNCHANGED <<down, up>>
    /\ UNCHANGED <<disk, doc, copies, version, tmp, batch, served, proc, suspended, digested, left, why, after>>
ReportMutant(what, new) == ReportIf(what, new, FALSE)  \* remove_void_transfers is not called: mutant
Report(what, new) == ReportIf(what, new, TRUE)
DiskReported ==
    Report("disk", IF pair.ldig = disk THEN pair
                   ELSE [pair EXCEPT !.ldig = disk, !.state = IF @ = "new" THEN "new" ELSE "up"])
DocReported == Report("doc", IF pair.rdig = doc THEN pair ELSE [pair EXCEPT !.rdig = doc, !.state = "down"])

-------------------------------------------------------------------------------
(* The processor                                                           *)

Drop == proc' = None /\ UNCHANGED queue
Again == proc' = None /\ queue' = TRUE      \* postponed, or in error and retried

Take ==
    /\ queue /\ proc = None /\ ~suspended /\ queue' = FALSE
    /\ LET job(name, at) == [job |-> name, at |-> at, pair |-> pair, digest |-> None, rest |-> <<>>]
       IN proc' = IF pair.state = "synced" \/ (\E row \in {down, up} : Stopped(row) /\ row.tied) THEN None
                  ELSE IF pair.state = "down" THEN job("down", "info") ELSE job("up", "batch")
    /\ IF pair.state = "synced" THEN down' = None /\ up' = None ELSE UNCHANGED <<down, up>>
    /\ UNCHANGED <<world, pair, tmp, batch, served, suspended, digested, left, why, after>>

At(job, place) == proc # None /\ proc.job = job /\ proc.at = place
Goes(place) == proc' = [proc EXCEPT !.at = place]

(* The connection is lost: the pair is postponed. *)
Fails ==
    /\ proc # None /\ proc.at \in {"info", "get", "chunk", "tail", "batch", "send"} /\ Spend("fail")
    /\ Again
    /\ UNCHANGED <<world, pair, tmp, down, up, batch, served, suspended, digested, why, after>>

(* DownloadPaused, UploadPaused: the row is given its pair, and the pair is dropped. *)
Raised ==
    /\ proc # None /\ proc.at = "raised" /\ proc' = None
    /\ LET tied(row) == IF row = None THEN None ELSE [row EXCEPT !.tied = TRUE]
       IN IF proc.job = "down" THEN down' = tied(down) /\ UNCHANGED up ELSE up' = tied(up) /\ UNCHANGED down
    /\ LET row == IF proc.job = "down" THEN down ELSE up
       IN why' = why \cup (IF ~Stopped(row) /\ (row = None \/ ~row.tied) THEN {"early"} ELSE {})
    /\ UNCHANGED <<world, pair, tmp, batch, served, queue, suspended, digested, left, after>>

-------------------------------------------------------------------------------
(* Downloads                                                               *)

(* The digest to expect is that of the answer to get_fs_info. *)
Info ==
    /\ At("down", "info")
    /\ proc' = [proc EXCEPT !.at = "get", !.digest = IF digested THEN doc ELSE None]
    /\ UNCHANGED <<world, pair, tmp, down, up, batch, served, queue, suspended, digested, left, why, after>>

(* What is asked is what the temporary file lacks; nothing (416) has it removed. *)
Size == IF tmp = None THEN 0 ELSE Len(tmp)
Get ==
    /\ At("down", "get")
    /\ IF Size >= Chunks
       THEN tmp' = None /\ Again /\ UNCHANGED down
       ELSE /\ proc' = [proc EXCEPT !.rest = SubSeq(doc, Size + 1, Chunks),
                                    !.at = IF Chunks - Size > Limit THEN "chunk" ELSE "tail"]
            /\ down' = IF down = None THEN Row("ongoing", TRUE) ELSE down
            /\ UNCHANGED <<tmp, queue>>
    /\ UNCHANGED <<world, pair, up, batch, served, suspended, digested, left, why, after>>

Chunk ==
    /\ At("down", "chunk")
    /\ tmp' = (IF tmp = None THEN <<>> ELSE tmp) \o <<Head(proc.rest)>>
    /\ proc' = [proc EXCEPT !.rest = Tail(@),
                            !.at = IF Stopped(down) THEN "raised" ELSE IF Len(proc.rest) = 1 THEN "check" ELSE @]
    /\ after' = after + IF down # None /\ down.status = "paused" THEN 1 ELSE 0
    /\ UNCHANGED <<world, pair, down, up, batch, served, queue, suspended, digested, left, why>>

(* A small answer is written over the temporary file. *)
Small ==
    /\ At("down", "tail") /\ tmp' = proc.rest /\ Goes("check")
    /\ UNCHANGED <<world, pair, down, up, batch, served, queue, suspended, digested, left, why, after>>

(* check_integrity: a file that is not what was announced is removed, and downloaded again. *)
CheckIf(bad) ==
    /\ At("down", "check")
    /\ IF bad THEN tmp' = None /\ Again /\ UNCHANGED down
       ELSE Goes("place") /\ down' = None /\ UNCHANGED <<tmp, queue>>
    /\ why' = why \cup (IF ~bad /\ ~IsWhole(tmp) /\ ~digested THEN {"undigested"} ELSE {})
    /\ UNCHANGED <<world, pair, up, batch, served, suspended, digested, left, after>>
Check == CheckIf(proc.digest # None /\ tmp # proc.digest)
CheckMutant == CheckIf(Len(tmp) < Chunks)  \* the size only: mutant

(* The temporary file takes the place of the file, whatever that holds. *)
Place ==
    /\ At("down", "place")
    /\ disk' = tmp /\ tmp' = None /\ proc' = None
    /\ pair' = [pair EXCEPT !.ldig = tmp, !.state = IF pair.ver = proc.pair.ver THEN "synced" ELSE @,
                            !.rdig = IF digested \/ pair.ver # proc.pair.ver THEN @ ELSE tmp]
    /\ UNCHANGED <<doc, copies, version, news, down, up, batch, served, queue, suspended, digested, left, why, after>>

-------------------------------------------------------------------------------
(* Uploads                                                                 *)

(* _get_transfer: the batch of the row when the server still has it, or a new one. *)
GetTransfer ==
    /\ At("up", "batch")
    /\ IF Stopped(up) THEN Goes("raised") /\ UNCHANGED <<up, batch, served>>
       ELSE IF up # None /\ batch # None
       THEN Goes(IF up.status = "done" THEN "link" ELSE "send") /\ UNCHANGED <<up, batch, served>>
       ELSE up' = Row("ongoing", FALSE) /\ batch' = <<>> /\ served' = FALSE /\ Goes("send")
    /\ why' = why \cup (IF served /\ ~served' THEN {"renewed"} ELSE {})
    /\ UNCHANGED <<disk, doc, copies, version, news, pair, tmp, down, queue, suspended, digested, left, after>>

(* The chunks the server has are not sent again, whatever the file is now. *)
SendIf(stops) ==
    /\ At("up", "send") /\ batch # None /\ Len(batch) < Chunks
    /\ batch' = Append(batch, disk[Len(batch) + 1])
    /\ Goes(IF stops THEN "raised" ELSE IF Len(batch) + 1 = Chunks THEN "complete" ELSE "send")
    /\ after' = after + IF up # None /\ up.status = "paused" THEN 1 ELSE 0
    /\ why' = why \cup (IF batch # <<>> /\ batch[1] # disk[1] THEN {"mixed"} ELSE {})
    /\ UNCHANGED <<disk, doc, copies, version, news, pair, tmp, down, up, served, queue, suspended, digested, left>>
SendMutant == SendIf(proc.pair.state # "new" /\ Stopped(up))  \* the row of a new document is not read: mutant
Send == SendIf(Stopped(up))
Sent ==
    /\ At("up", "send") /\ batch # None /\ Len(batch) = Chunks /\ Goes("complete")
    /\ UNCHANGED <<world, pair, tmp, down, up, batch, served, queue, suspended, digested, left, why, after>>
SentNowhere ==
    /\ At("up", "send") /\ batch = None /\ Again
    /\ UNCHANGED <<world, pair, tmp, down, up, batch, served, suspended, digested, left, why, after>>

(* The row is written as done, also when it has just been paused. *)
Complete ==
    /\ At("up", "complete") /\ Goes("link")
    /\ up' = IF up = None THEN None ELSE [up EXCEPT !.status = "done"]
    /\ UNCHANGED <<world, pair, tmp, down, batch, served, queue, suspended, digested, left, why, after>>

(* The server makes a document of the batch, or gives its content to the one there is, once for a request. *)
Executes ==
    IF served THEN UNCHANGED <<doc, copies>>
    ELSE doc' = batch /\ copies' = copies + IF proc.pair.state = "new" THEN 1 ELSE 0
Link ==
    /\ At("up", "link") /\ batch # None /\ Executes /\ served' = TRUE /\ Goes("linked")
    /\ UNCHANGED <<disk, version, news, pair, tmp, down, up, batch, queue, suspended, digested, left, why, after>>

(* The batch has expired: NotFound, and the pair is dropped. *)
LinkNotFound ==
    /\ At("up", "link") /\ batch = None
    /\ down' = None /\ up' = None /\ Drop /\ why' = why \cup {"expired"}
    /\ UNCHANGED <<world, pair, tmp, batch, served, suspended, digested, left, after>>

(* The answer is lost, and the next request is a new one, but after a timeout of the pool ("same"). *)
LinkLostIf(same, renewed) ==
    /\ At("up", "link") /\ batch # None /\ Spend("fail") /\ Executes /\ served' = ~renewed /\ Again
    /\ why' = why \cup (IF same THEN {} ELSE {"renewed"})
    /\ UNCHANGED <<disk, version, news, pair, tmp, down, up, batch, suspended, digested, after>>
LinkLostMutant(same) == LinkLostIf(same, TRUE)  \* always a new request: mutant
LinkLost(same) == LinkLostIf(same, ~same)

(* 502, 503 or 504, before or after the execution: a created document is looked for on the server. *)
LinkUnavailable(executed, found) ==
    /\ At("up", "link") /\ batch # None /\ Spend("fail") /\ served' = FALSE
    /\ IF executed THEN Executes ELSE UNCHANGED <<doc, copies>>
    /\ IF proc.pair.state # "new" THEN Again /\ UNCHANGED <<pair, up, down>>
       ELSE IF found /\ copies' > 0
       THEN /\ Drop /\ up' = None /\ down' = None
            /\ pair' = [pair EXCEPT !.rdig = doc', !.state = IF pair.ver = proc.pair.ver THEN "synced" ELSE "up"]
       ELSE Drop /\ UNCHANGED <<pair, up, down>>
    /\ why' = why \cup {"renewed", "unavailable"} \cup (IF found /\ doc' # batch THEN {"older"} ELSE {})
    /\ UNCHANGED <<disk, version, news, tmp, batch, suspended, digested, after>>

(* The row goes, and the pair is synchronized when the document is what the pair says, or downloaded. *)
Linked ==
    /\ At("up", "linked") /\ up' = None /\ batch' = None
    /\ LET now == [pair EXCEPT !.rdig = doc, !.state = IF @ = "new" THEN "up" ELSE @]
       IN IF doc # proc.pair.ldig
          THEN /\ pair' = now
               /\ proc' = [proc EXCEPT !.job = "down", !.at = "info", !.pair = now]
          ELSE /\ pair' = [now EXCEPT !.state = IF pair.ver = proc.pair.ver THEN "synced" ELSE @]
               /\ proc' = None
    /\ served' = FALSE /\ UNCHANGED <<world, tmp, down, queue, suspended, digested, left, why, after>>

-------------------------------------------------------------------------------
(* The user, the server and the application                                *)

Pause ==
    /\ Spend("pause") /\ (down # None \/ up # None) /\ after' = 0
    /\ down' = IF down = None THEN None ELSE [down EXCEPT !.status = "paused"]
    /\ up' = IF up = None THEN None ELSE [up EXCEPT !.status = "paused"]
    /\ UNCHANGED <<world, pair, tmp, batch, served, queue, proc, suspended, digested, why>>

(* The pair of a row that has none is not queued. *)
Freed(row, from) == IF row # None /\ row.status = from THEN [row EXCEPT !.status = "ongoing"] ELSE row
Queues(from) == \E row \in {down, up} : row # None /\ row.status = from /\ row.tied
ResumeIf(from, queued) ==
    /\ down' = Freed(down, from) /\ up' = Freed(up, from) /\ after' = 0
    /\ queue' = (queue \/ queued)
Resume ==
    /\ (\E row \in {down, up} : row # None /\ row.status = "paused") /\ ResumeIf("paused", Queues("paused"))
    /\ UNCHANGED <<world, pair, tmp, batch, served, proc, suspended, digested, left, why>>

SuspendEngine ==
    /\ ~suspended /\ Spend("suspend") /\ suspended' = TRUE
    /\ LET held(row) == IF row # None /\ row.status = "ongoing" THEN [row EXCEPT !.status = "suspended"] ELSE row
       IN down' = held(down) /\ up' = held(up)
    /\ UNCHANGED <<world, pair, tmp, batch, served, queue, proc, digested, why, after>>
ResumeEngineIf(queued) ==
    /\ suspended /\ suspended' = FALSE /\ ResumeIf("suspended", queued)
    /\ UNCHANGED <<world, pair, tmp, batch, served, proc, digested, left, why>>
ResumeEngineMutant == ResumeEngineIf(FALSE)  \* the pairs of the transfers are not queued: mutant
ResumeEngine == ResumeEngineIf(Queues("suspended"))

(* The pairs to synchronize are queued at the next start, and the transfers left ongoing go on. *)
Crash ==
    /\ Spend("crash") /\ proc' = None /\ suspended' = FALSE /\ queue' = (pair.state # "synced")
    /\ down' = Freed(down, "suspended") /\ up' = Freed(up, "suspended")
    /\ UNCHANGED <<world, pair, tmp, batch, served, digested, why, after>>

BatchExpires ==
    /\ Spend("expire") /\ batch # None /\ batch' = None
    /\ UNCHANGED <<world, pair, tmp, down, up, served, queue, proc, suspended, digested, why, after>>

-------------------------------------------------------------------------------
Init ==
    /\ version = 0 /\ disk = Whole(0) /\ digested \in BOOLEAN /\ news = {}
    /\ \/ doc = None /\ digested /\ pair = [state |-> "new", ver |-> 0, ldig |-> disk, rdig |-> None]
       \/ doc = Whole(0) /\ pair = [state |-> "synced", ver |-> 0, ldig |-> disk, rdig |-> doc]
    /\ copies = (IF doc = None THEN 0 ELSE 1) /\ queue = (pair.state = "new")
    /\ tmp = None /\ down = None /\ up = None /\ batch = None /\ served = FALSE
    /\ proc = None /\ suspended = FALSE /\ left \in Budgets /\ why = {} /\ after = 0

Next ==
    \/ UserEdits \/ ServerChanges \/ DiskReported \/ DocReported
    \/ Take \/ Fails \/ Raised \/ Info \/ Get \/ Chunk \/ Small \/ Check \/ Place
    \/ GetTransfer \/ Send \/ Sent \/ SentNowhere \/ Complete \/ Link \/ LinkNotFound \/ Linked
    \/ \E same \in BOOLEAN : LinkLost(same)
    \/ \E executed, found \in BOOLEAN : LinkUnavailable(executed, found)
    \/ Pause \/ Resume \/ SuspendEngine \/ ResumeEngine \/ Crash \/ BatchExpires

Spec == Init /\ [][Next]_vars

-------------------------------------------------------------------------------
(* Properties                                                              *)

(* A file, and a document when its pair is synchronized, is one of the versions somebody wrote, and the   *)
(* two are the same, however often the transfer was cut and taken up and whatever changed meanwhile.      *)
(* Known losses: "undigested", without a digest the chunks of two versions follow each other, or the end  *)
(* of the file is written over its beginning; "mixed", the file changes while it is uploaded (the         *)
(* document and, downloaded again, the file have chunks of both versions); "older", the document found    *)
(* after a 503 is that of an earlier upload.                                                              *)
WholeVersions ==
    LET lost(reasons) == why \cap reasons # {}
    IN /\ IsWhole(disk) \/ lost({"undigested", "mixed"})
       /\ pair.state = "synced" /\ news = {} /\ proc = None =>
            (doc = disk /\ IsWhole(doc)) \/ lost({"undigested", "mixed", "older"})

(* A file becomes one document, though the answer to its creation may be lost and the creation tried      *)
(* again, from the same batch or another one: the request keeps its identifier.  Known exception,         *)
(* "renewed": after any error but a timeout of the pool, and with a new batch, the identifier is new.     *)
OneDocument == copies <= 1 \/ "renewed" \in why

(* After the user has paused a transfer no more than the chunk on its way is transferred, until it is     *)
(* resumed.                                                                                               *)
PauseObeyed == after <= 1

(* Nothing is forgotten: a file that is not synchronized is in a queue, with the processor or paused.     *)
(* Known exceptions: "early", resumed between the exception and the row being given its pair; "expired",  *)
(* the batch is gone when the document is made and the pair is dropped, though _link_blob_to_doc sets the *)
(* row for another try; "unavailable", a document that is not found after a 503 is dropped.               *)
Resumed ==
    proc = None /\ ~queue /\ ~suspended /\ news = {} =>
      pair.state = "synced" \/ (\E row \in {down, up} : row # None /\ row.status = "paused")
      \/ why \cap {"early", "expired", "unavailable"} # {}

TransfersKept == WholeVersions /\ OneDocument /\ PauseObeyed /\ Resumed
===============================================================================
