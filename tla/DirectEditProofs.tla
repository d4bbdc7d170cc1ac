--------------------------- MODULE DirectEditProofs ---------------------------
(***************************************************************************)
(* Proofs about DirectEdit, for any number of edits, saves, versions of    *)
(* other users, errors and ends of the application.                        *)
(***************************************************************************)
EXTENDS DirectEdit, FiniteSetTheorems, TLAPS

-----------------------------------------------------------------------------
(* Versions                                                                *)

Documents == [v : Int, lock : {"none", "me", "other"}]
Folders == [there : BOOLEAN, v : Int, digest : Int, mark : BOOLEAN, base : SUBSET Int]

\* A version is numbered when it is written, and is somebody's.
VersionsInv ==
    /\ Versions \in SUBSET Nat /\ IsFiniteSet(Versions)
    /\ Versions = 0 .. Fresh - 1
    /\ mine \cap others = {}
    /\ srv \in Documents /\ file \in Folders
    /\ sending \in Int /\ dialog \in Int

LEMMA FreshIsNew ==
  ASSUME VersionsInv
  PROVE  /\ Fresh \in Nat /\ Fresh \notin Versions
         /\ IsFiniteSet(Versions \cup {Fresh})
         /\ Versions \cup {Fresh} = 0 .. Fresh
         /\ Cardinality(Versions \cup {Fresh}) = Fresh + 1
<1>1. Fresh \in Nat
  BY FS_CardinalityType DEF VersionsInv, Fresh
<1> DEFINE n == Fresh
<1>a. n \in Nat /\ Versions = 0 .. n - 1
  BY <1>1 DEF VersionsInv
<1> HIDE DEF n
<1>2. n \notin Versions /\ Versions \cup {n} = 0 .. n
  BY <1>a
<1> USE DEF n
<1>3. Versions \cup {Fresh} = 0 .. Fresh
  BY <1>2
<1>4. IsFiniteSet(Versions \cup {Fresh}) /\ Cardinality(Versions \cup {Fresh}) = Cardinality(Versions) + 1
  <2>1. IsFiniteSet(Versions) /\ Fresh \notin Versions
    BY <1>2 DEF VersionsInv
  <2> QED
    BY <2>1, FS_AddElement
<1> QED
  BY <1>1, <1>2, <1>3, <1>4 DEF Fresh

-----------------------------------------------------------------------------
(* What the uploads replace                                                *)

Away == {"not locked", "late"}

\* The file and its digest come from the versions of its base, or are the user's.
BaseInv ==
    /\ file.there => {file.v, file.digest} \subseteq mine \cup file.base
    /\ at = "sending" => file.there /\ sending \in mine \cup file.base
    /\ file.mark => file.there

\* The mark stands for the check of the version: it is the lock, or there is an excuse.
MarkInv == file.mark /\ (srv.lock # "me" \/ Unseen) => excuse \cap Away # {}

\* What an upload that runs may replace was seen, or there is an excuse.
SendingInv == at = "sending" /\ Unseen => excuse # {}

ReplaceInv == VersionsInv /\ BaseInv /\ MarkInv /\ SendingInv

LEMMA NewVersion ==
  ASSUME VersionsInv, Versions' = Versions \cup {Fresh}, mine' \cap others' = {},
         srv' \in Documents, file' \in Folders,
         sending' \in Int, dialog' \in Int
  PROVE  VersionsInv'
<1>1. Fresh' = Fresh + 1
  BY FreshIsNew DEF Fresh
<1> QED
  BY <1>1, FreshIsNew DEF VersionsInv

LEMMA SameVersions ==
  ASSUME VersionsInv, UNCHANGED <<mine, others>>,
         srv' \in Documents, file' \in Folders,
         sending' \in Int, dialog' \in Int
  PROVE  VersionsInv'
<1>1. Versions' = Versions /\ Fresh' = Fresh
  BY DEF Versions, Fresh
<1> QED
  BY <1>1 DEF VersionsInv

\* What a step does that neither sends nor writes a version, nor takes the file.
QuietStep ==
    /\ UNCHANGED <<mine, others>> /\ sending' \in Int /\ dialog' \in Int
    /\ at' = "sending" => at = "sending" /\ UNCHANGED <<sending, excuse>>
    /\ srv' \in Documents /\ srv'.v = srv.v
    /\ file' \in Folders /\ file'.there = file.there /\ file'.v = file.v /\ file'.digest = file.digest
    /\ file'.base = file.base /\ (file'.mark => file.there)
    /\ \/ ~file'.mark
       \/ file.mark /\ excuse \cap Away \subseteq excuse' /\ (srv'.lock # "me" => srv.lock # "me")
       \/ srv'.lock = "me" /\ ~Unseen
       \/ excuse' \cap Away # {}

LEMMA StillReplaces ==
  ASSUME ReplaceInv, QuietStep
  PROVE  ReplaceInv'
<1>1. Unseen' <=> Unseen
  BY DEF Unseen, QuietStep
<1>2. VersionsInv'
  BY SameVersions DEF ReplaceInv, VersionsInv, QuietStep
<1>3. BaseInv'
  BY DEF ReplaceInv, BaseInv, QuietStep
<1>4. MarkInv'
  BY <1>1 DEF ReplaceInv, MarkInv, QuietStep
<1>5. SendingInv'
  BY <1>1 DEF ReplaceInv, SendingInv, QuietStep
<1> QED
  BY <1>2, <1>3, <1>4, <1>5 DEF ReplaceInv

\* The steps that only the lock, the mark and the queues see.
Quiet ==
    \/ EditFails \/ Orphans \/ Interact
    \/ LockSkipped \/ Lock \/ Unlock \/ UnlockOrphan \/ LockFails \/ LockRefused \/ LockRaises
    \/ LocksDone \/ UploadDropped \/ UploadSame \/ UploadConflict \/ UploadFails \/ UploadRefused
    \/ UploadSkipped \/ UploadsDone
    \/ HandleEvent \/ PollBegins \/ PollEnds \/ Close \/ Reopen \/ KeepServer
    \/ OtherLocks \/ OtherUnlocks \/ Expires \/ LogsIn \/ Start \/ SetupWatchdog
    \/ UNCHANGED vars

LEMMA QuietSteps ==
  ASSUME ReplaceInv, Quiet
  PROVE  QuietStep
<1>1. srv \in Documents /\ file \in Folders /\ sending \in Int /\ dialog \in Int /\ Nothing \in Int
  BY DEF ReplaceInv, VersionsInv, Nothing
<1>b. file.mark => file.there
  BY DEF ReplaceInv, BaseInv
<1> USE <1>1, <1>b DEF QuietStep, Documents, Folders, work, disk, locker, ghosts, Away, Marked
<1>2. CASE EditFails
  BY <1>2 DEF EditFails, Interacts
<1>3. CASE Orphans \/ Interact
  BY <1>3 DEF Orphans, Interact, Interacts
<1>4. CASE LockSkipped
  BY <1>4 DEF LockSkipped
<1>5. CASE Lock
  BY <1>5 DEF Lock, Locking
<1>6. CASE Unlock
  BY <1>6 DEF Unlock, Locking
<1>7. CASE UnlockOrphan
  BY <1>7 DEF UnlockOrphan, Locking
<1>8. CASE LockFails
  BY <1>8 DEF LockFails, Asking
<1>9. CASE LockRefused \/ LockRaises
  BY <1>9 DEF LockRefused, LockRaises, Asking
<1>10. CASE LocksDone
  BY <1>10 DEF LocksDone
<1>11. CASE UploadDropped \/ UploadSame \/ UploadConflict \/ UploadsDone
  BY <1>11 DEF UploadDropped, UploadSame, UploadConflict, UploadsDone, Uploading
<1>12. CASE UploadFails \/ UploadRefused \/ UploadSkipped
  BY <1>12 DEF UploadFails, UploadRefused, UploadSkipped, Failing
<1>13. CASE HandleEvent
  BY <1>13 DEF HandleEvent
<1>14. CASE PollBegins \/ PollEnds
  BY <1>14 DEF PollBegins, PollEnds, PollEndsIf
<1>15. CASE Close \/ Reopen \/ KeepServer
  BY <1>15 DEF Close, Reopen, KeepServer
<1>16. CASE OtherLocks \/ OtherUnlocks \/ Expires \/ LogsIn
  BY <1>16 DEF OtherLocks, OtherUnlocks, Expires, LogsIn, Elsewhere
<1>17. CASE Start \/ SetupWatchdog
  BY <1>17 DEF Start, SetupWatchdog
<1>18. CASE UNCHANGED vars
  BY <1>18 DEF vars
<1> QED
  BY <1>2, <1>3, <1>4, <1>5, <1>6, <1>7, <1>8, <1>9, <1>10, <1>11, <1>12, <1>13, <1>14, <1>15, <1>16,
     <1>17, <1>18 DEF Quiet

LEMMA MoreExcuses ==
  ASSUME excuse \subseteq excuse'
  PROVE  excuse \cap Away # {} => excuse' \cap Away # {}
  OBVIOUS

\* The steps that send or write a version, or take the file.
LEMMA OtherSteps ==
  ASSUME ReplaceInv,
         Edit \/ UploadBegins \/ UploadEnds \/ Write \/ Overwrite \/ OtherWrites \/ Quit \/ Cleanup
  PROVE  ReplaceInv' /\ KeepsVersion
<1>1. /\ srv \in Documents /\ file \in Folders /\ sending \in Int /\ dialog \in Int
      /\ Nothing \in Int /\ mine \cap others = {} /\ Gone \in Folders /\ ~Gone.there /\ ~Gone.mark
  BY DEF ReplaceInv, VersionsInv, Nothing, Gone, Folders
<1>2. VersionsInv
  BY DEF ReplaceInv
<1>3. Fresh \in Int /\ Fresh \notin mine \cup others
  BY <1>2, FreshIsNew DEF Versions
<1> USE DEF ReplaceInv, BaseInv, MarkInv, SendingInv, KeepsVersion, Unseen, Away
<1>4. CASE Edit
  <2>1. /\ UNCHANGED <<mine, others, sending, dialog, at, excuse>> /\ at # "sending"
        /\ srv' = IF autolock THEN [srv EXCEPT !.lock = "me"] ELSE srv
        /\ file' = [there |-> TRUE, v |-> srv.v, digest |-> srv.v, mark |-> file.mark, base |-> {srv.v}]
    BY <1>4 DEF Edit, Interacts
  <2>2. srv' \in Documents /\ srv'.v = srv.v /\ (srv'.lock # "me" => srv.lock # "me")
    BY <1>1, <2>1 DEF Documents
  <2>3. /\ file' \in Folders /\ file'.v = srv.v /\ file'.digest = srv.v /\ file'.mark = file.mark
        /\ file'.base = {srv.v} /\ file'.there
    BY <1>1, <2>1 DEF Documents, Folders
  <2>4. VersionsInv'
    BY <1>1, <1>2, <2>1, <2>2, <2>3, SameVersions
  <2> QED
    BY <1>1, <2>1, <2>2, <2>3, <2>4
<1>5. CASE UploadBegins
  <2>1. /\ UNCHANGED <<srv, file, mine, others, dialog, excuse>> /\ sending' = file.v /\ file.there
        /\ file.mark \/ srv.v = file.digest
    BY <1>5 DEF UploadBegins, UploadBeginsIf, Changed, disk, ghosts
  <2>2. file.v \in Int
    BY <1>1 DEF Folders
  <2>3. VersionsInv'
    BY <1>1, <1>2, <2>1, <2>2, SameVersions
  <2> QED
    BY <1>1, <2>1, <2>3
<1>6. CASE UploadEnds
  <2>1. /\ UNCHANGED <<mine, others, dialog>> /\ sending' = Nothing /\ at = "sending" /\ at' = "upload"
        /\ srv' = [srv EXCEPT !.v = file.v] /\ file' = [file EXCEPT !.digest = sending]
        /\ excuse' = excuse \ {"race"}
    BY <1>6 DEF UploadEnds
  <2>2. /\ srv' \in Documents /\ srv'.v = file.v /\ srv'.lock = srv.lock
        /\ file' \in Folders /\ file'.digest = sending /\ file'.there = file.there /\ file'.v = file.v
        /\ file'.mark = file.mark /\ file'.base = file.base
    BY <1>1, <2>1 DEF Documents, Folders
  <2>3. VersionsInv'
    BY <1>1, <1>2, <2>1, <2>2, SameVersions
  <2> QED
    BY <1>1, <2>1, <2>2, <2>3
<1>7. CASE Write
  <2>1. /\ mine' = mine \cup {Fresh} /\ file' = [file EXCEPT !.v = Fresh] /\ file.there
        /\ UNCHANGED <<srv, at, sending, dialog, others, excuse>>
    BY <1>7 DEF Write, locker
  <2>2. /\ file' \in Folders /\ file'.digest = file.digest /\ file'.there = file.there /\ file'.v = Fresh
        /\ file'.mark = file.mark /\ file'.base = file.base
    BY <1>1, <2>1, <1>3 DEF Folders
  <2>3. Versions' = Versions \cup {Fresh} /\ mine' \cap others' = {}
    BY <1>1, <2>1, <1>3 DEF Versions
  <2>4. VersionsInv'
    BY <1>1, <1>2, <2>1, <2>2, <2>3, NewVersion
  <2> QED
    BY <1>1, <2>1, <1>3, <2>2, <2>4
<1>8. CASE Overwrite
  <2>1. /\ dialog' = Nothing /\ UNCHANGED <<srv, at, sending, mine, others, excuse>>
        /\ \/ file' = [file EXCEPT !.digest = dialog, !.base = @ \cup {dialog}]
           \/ file' = file
    BY <1>8 DEF Overwrite, ghosts
  <2>2. /\ file' \in Folders /\ file'.digest \in {file.digest, dialog} /\ file'.there = file.there
        /\ file'.v = file.v /\ file'.mark = file.mark /\ file.base \subseteq file'.base
        /\ file'.digest # file.digest => dialog \in file'.base
    <3>1. file \in Folders /\ dialog \in Int
      BY <1>1
    <3>2. CASE file' = [file EXCEPT !.digest = dialog, !.base = @ \cup {dialog}]
      <4>1. file' \in Folders
        BY ONLY <3>1, <3>2 DEF Folders
      <4>2. /\ file'.there = file.there /\ file'.v = file.v /\ file'.mark = file.mark
            /\ file'.digest = dialog /\ file'.base = file.base \cup {dialog}
        BY ONLY <3>1, <3>2 DEF Folders
      <4> QED
        BY ONLY <4>1, <4>2
    <3>3. CASE file' = file
      BY ONLY <3>1, <3>3
    <3> QED
      BY <2>1, <3>2, <3>3
  <2>3. VersionsInv'
    BY <1>1, <1>2, <2>1, <2>2, SameVersions
  <2> QED
    BY <1>1, <2>1, <2>2, <2>3
<1>9. CASE OtherWrites
  <2>1. /\ srv.lock # "me" /\ others' = others \cup {Fresh} /\ srv' = [srv EXCEPT !.v = Fresh]
        /\ excuse' = IF at = "sending" THEN excuse \cup {"race"} ELSE excuse
        /\ UNCHANGED <<file, at, sending, dialog, mine>>
    BY <1>9 DEF OtherWrites, Elsewhere, disk
  <2>2. srv' \in Documents /\ srv'.v = Fresh /\ srv'.lock = srv.lock
    BY <1>1, <2>1, <1>3 DEF Documents
  <2>3. Versions' = Versions \cup {Fresh} /\ mine' \cap others' = {}
    BY <1>1, <2>1, <1>3 DEF Versions
  <2>4. VersionsInv'
    BY <1>1, <1>2, <2>1, <2>2, <2>3, NewVersion
  <2>5. excuse \subseteq excuse' /\ (at = "sending" => excuse' # {})
    BY <2>1
  <2>6. BaseInv'
    BY <2>1
  <2>7. file'.mark => excuse \cap Away # {}
    BY <2>1
  <2>8. MarkInv'
    <3>1. excuse \cap Away # {} => excuse' \cap Away # {}
      BY <2>5, MoreExcuses
    <3> QED
      BY <2>7, <3>1
  <2>9. SendingInv' /\ KeepsVersion
    <3>1. at' = at /\ mine' = mine
      BY <2>1
    <3>2. srv'.v \notin mine
      BY <1>3, <2>2
    <3> QED
      BY <2>5, <3>1, <3>2
  <2> QED
    BY <2>4, <2>6, <2>8, <2>9
<1>10. CASE Quit
  <2>1. /\ at' = "down" /\ sending' = Nothing /\ dialog' = Nothing /\ excuse' = excuse \ {"race"}
        /\ UNCHANGED <<file, mine, others>>
        /\ srv' = srv \/ (at = "sending" /\ srv' = [srv EXCEPT !.v = file.v])
    BY <1>10 DEF Quit, disk
  <2>2. /\ srv' \in Documents /\ srv'.lock = srv.lock
        /\ srv'.v = srv.v \/ (at = "sending" /\ srv'.v = file.v)
    BY <1>1, <2>1 DEF Documents, Folders
  <2>3. VersionsInv'
    BY <1>1, <1>2, <2>1, <2>2, SameVersions
  <2> QED
    BY <1>1, <2>1, <2>2, <2>3
<1>11. CASE Cleanup
  <2>1. /\ at' = "setup" /\ UNCHANGED <<srv, sending, dialog, mine, others>>
        /\ file' \in {file, Gone} /\ (excuse' = excuse \/ ~file'.there)
    BY <1>11 DEF Cleanup, CleanupIf
  <2>2. file' \in Folders /\ (file' = file \/ (~file'.mark /\ ~file'.there))
    BY <1>1, <2>1
  <2>3. VersionsInv'
    BY <1>1, <1>2, <2>1, <2>2, SameVersions
  <2> QED
    BY <1>1, <2>1, <2>2, <2>3
<1> QED
  BY <1>4, <1>5, <1>6, <1>7, <1>8, <1>9, <1>10, <1>11

\* A step that writes no version of the user on the server replaces nothing.
LEMMA QuietKeeps ==
  ASSUME ReplaceInv, QuietStep
  PROVE  KeepsVersion
  BY DEF ReplaceInv, VersionsInv, QuietStep, KeepsVersion, Unseen

LEMMA ReplaceStep ==
  ASSUME ReplaceInv, [Next]_vars
  PROVE  ReplaceInv' /\ (KeepsVersion \/ UNCHANGED vars)
<1>1. Quiet \/ Edit \/ UploadBegins \/ UploadEnds \/ Write \/ Overwrite \/ OtherWrites \/ Quit \/ Cleanup
  BY DEF Next, Quiet
<1>2. CASE Quiet
  BY <1>2, QuietSteps, StillReplaces, QuietKeeps
<1>3. CASE Edit \/ UploadBegins \/ UploadEnds \/ Write \/ Overwrite \/ OtherWrites \/ Quit \/ Cleanup
  BY <1>3, OtherSteps
<1> QED
  BY <1>1, <1>2, <1>3

LEMMA ReplaceInit == Init => ReplaceInv
<1> SUFFICES ASSUME Init PROVE ReplaceInv
  OBVIOUS
<1>1. Versions = {0}
  BY DEF Init, Versions
<1>2. IsFiniteSet(Versions) /\ Fresh = 1
  BY <1>1, FS_Singleton DEF Fresh
<1>3. Versions = 0 .. Fresh - 1
  BY <1>1, <1>2
<1>4. srv \in Documents /\ file \in Folders /\ sending \in Int /\ dialog \in Int
  BY DEF Init, Documents, Folders, Gone, Nothing
<1>5. VersionsInv
  BY <1>1, <1>2, <1>3, <1>4 DEF Init, VersionsInv
<1>6. BaseInv /\ MarkInv /\ SendingInv
  BY DEF Init, BaseInv, MarkInv, SendingInv, Gone
<1> QED
  BY <1>5, <1>6 DEF ReplaceInv

(***************************************************************************)
(* A version that another user wrote, and that the local file neither      *)
(* comes from nor was chosen to replace, is never replaced by the uploads  *)
(* but in the cases named (_handle_upload_queue, direct_edit.py).  The     *)
(* invariant: a file that is marked as locked is locked, or the version on *)
(* the server was seen, or there is an excuse for it.                      *)
(***************************************************************************)
THEOREM OthersAreKept == Spec => KeepsOther
<1>1. Init => ReplaceInv
  BY ReplaceInit
<1>2. ReplaceInv /\ [Next]_vars => ReplaceInv'
  BY ReplaceStep
<1>3. ReplaceInv /\ [Next]_vars => [KeepsVersion]_vars
  BY ReplaceStep
<1> QED
  BY <1>1, <1>2, <1>3, PTL DEF Spec, KeepsOther

-----------------------------------------------------------------------------
(* What the user saved                                                     *)

Events == {"written", "lockfile", "unlockfile"}
Written == \E i \in 1 .. Len(events) : events[i] = "written"

LEMMA Emits ==
  ASSUME events \in Seq(Events), NEW e \in Events, events' = Emit(e)
  PROVE  /\ events' \in Seq(Events)
         /\ Written => Written'
         /\ Watched /\ e = "written" => Written'
  BY DEF Emit, Written, Last, Events

LEMMA Handles ==
  ASSUME events \in Seq(Events), events # << >>, events' = Tail(events)
  PROVE  /\ events' \in Seq(Events) /\ Head(events) \in Events
         /\ Written => Written' \/ Head(events) = "written"
<1>1. events' \in Seq(Events) /\ Head(events) \in Events
  OBVIOUS
<1>2. ASSUME Written PROVE Written' \/ Head(events) = "written"
  <2>1. PICK i \in 1 .. Len(events) : events[i] = "written"
    BY <1>2 DEF Written
  <2>2. CASE i = 1
    BY <2>1, <2>2
  <2>3. CASE i # 1
    <3>1. i - 1 \in 1 .. Len(events') /\ events'[i - 1] = "written"
      BY <2>1, <2>3
    <3> QED
      BY <3>1 DEF Written
  <2> QED
    BY <2>2, <2>3
<1> QED
  BY <1>1, <1>2

\* A version of the user that was seen on the server is known.
KnownInv ==
    /\ srv.v \in Versions /\ dialog \in Versions \cup {Nothing}
    /\ at = "sending" => sending \in Versions
    /\ file.there => {file.v, file.digest} \subseteq Versions
    /\ ~file.there => file.v = Nothing
    /\ srv.v \in mine => srv.v \in known
    /\ dialog \in mine => dialog \in known
    /\ file.v \in mine /\ file.v = file.digest => file.v \in known

\* What a step may do that reads no new version.
KnownQuiet ==
    /\ UNCHANGED <<mine, others>> /\ known \subseteq known'
    /\ srv'.v = srv.v
    /\ file'.there = file.there /\ file'.v = file.v /\ file'.digest = file.digest
    /\ dialog' \in {dialog, Nothing, srv.v}
    /\ at' = "sending" => at = "sending" /\ sending' = sending

LEMMA StillKnown ==
  ASSUME VersionsInv, KnownInv, KnownQuiet
  PROVE  KnownInv'
<1>1. Versions' = Versions
  BY DEF KnownQuiet, Versions
<1>2. Nothing \notin mine
  BY DEF VersionsInv, Versions, Nothing
<1> QED
  BY <1>1, <1>2 DEF KnownInv, KnownQuiet, Nothing

LEMMA QuietKnows ==
  ASSUME ReplaceInv, Quiet
  PROVE  KnownQuiet
<1>1. srv \in Documents /\ file \in Folders
  BY DEF ReplaceInv, VersionsInv
<1> USE <1>1 DEF KnownQuiet, Documents, Folders, work, disk, locker, ghosts
<1>2. CASE EditFails \/ Orphans \/ Interact
  BY <1>2 DEF EditFails, Orphans, Interact, Interacts
<1>3. CASE LockSkipped \/ Lock \/ LocksDone
  BY <1>3 DEF LockSkipped, Lock, LocksDone, Locking
<1>4. CASE Unlock
  BY <1>4 DEF Unlock, Locking
<1>5. CASE UnlockOrphan
  BY <1>5 DEF UnlockOrphan, Locking
<1>6. CASE LockFails \/ LockRefused \/ LockRaises
  BY <1>6 DEF LockFails, LockRefused, LockRaises, Asking
<1>7. CASE UploadDropped \/ UploadSame \/ UploadConflict \/ UploadsDone
  BY <1>7 DEF UploadDropped, UploadSame, UploadConflict, UploadsDone, Uploading
<1>8. CASE UploadFails \/ UploadRefused \/ UploadSkipped
  BY <1>8 DEF UploadFails, UploadRefused, UploadSkipped, Failing, Uploading, Changed, UploadError
<1>9. CASE HandleEvent \/ PollBegins \/ PollEnds
  BY <1>9 DEF HandleEvent, PollBegins, PollEnds, PollEndsIf
<1>10. CASE Close \/ Reopen \/ KeepServer \/ Start \/ SetupWatchdog
  BY <1>10 DEF Close, Reopen, KeepServer, Start, SetupWatchdog
<1>11. CASE OtherLocks \/ OtherUnlocks \/ Expires \/ LogsIn
  BY <1>11 DEF OtherLocks, OtherUnlocks, Expires, LogsIn, Elsewhere
<1>12. CASE UNCHANGED vars
  BY <1>12 DEF vars
<1> QED
  BY <1>2, <1>3, <1>4, <1>5, <1>6, <1>7, <1>8, <1>9, <1>10, <1>11, <1>12 DEF Quiet

LEMMA OtherKnows ==
  ASSUME ReplaceInv, KnownInv,
         Edit \/ UploadBegins \/ UploadEnds \/ Write \/ Overwrite \/ OtherWrites \/ Quit \/ Cleanup
  PROVE  KnownInv'
<1>1. /\ srv \in Documents /\ file \in Folders /\ mine \cap others = {}
      /\ Nothing \notin Versions /\ VersionsInv /\ (at = "sending" => file.there)
  BY DEF ReplaceInv, BaseInv, VersionsInv, Nothing
<1>2. Fresh \in Nat /\ Fresh \notin Versions
  BY <1>1, FreshIsNew
<1> USE DEF KnownInv, Documents, Folders
<1>3. CASE Edit
  <2>1. /\ UNCHANGED <<mine, others, known, dialog, sending, at>> /\ srv'.v = srv.v
        /\ file'.there /\ file'.v = srv.v /\ file'.digest = srv.v
    BY <1>1, <1>3 DEF Edit
  <2>2. Versions' = Versions
    BY <2>1 DEF Versions
  <2> QED
    BY <2>1, <2>2 DEF Nothing
<1>4. CASE UploadBegins
  <2>1. /\ UNCHANGED <<mine, others, known, dialog, srv, file>> /\ sending' = file.v /\ file.there
    BY <1>4 DEF UploadBegins, UploadBeginsIf, Changed, ghosts, disk
  <2>2. Versions' = Versions
    BY <2>1 DEF Versions
  <2> QED
    BY <2>1, <2>2 DEF Nothing
<1>5. CASE UploadEnds
  <2>1. /\ UNCHANGED <<mine, others, dialog>> /\ srv'.v = file.v /\ known' = known \cup {file.v}
        /\ file'.there = file.there /\ file'.v = file.v /\ file'.digest = sending
        /\ at = "sending" /\ at' = "upload"
    BY <1>1, <1>5 DEF UploadEnds
  <2>2. Versions' = Versions
    BY <2>1 DEF Versions
  <2> QED
    BY <1>1, <2>1, <2>2 DEF Nothing
<1>6. CASE Write
  <2>1. /\ mine' = mine \cup {Fresh} /\ UNCHANGED <<srv, at, sending, dialog, others, known>>
        /\ file.there /\ file'.there /\ file'.v = Fresh /\ file'.digest = file.digest
    BY <1>1, <1>6 DEF Write, locker
  <2>2. Versions' = Versions \cup {Fresh}
    BY <2>1 DEF Versions
  <2>3. PICK n : n = Fresh
    OBVIOUS
  <2>4. srv'.v # n /\ dialog' # n /\ file'.digest # file'.v
    BY <1>1, <1>2, <2>1, <2>3 DEF Nothing
  <2> QED
    BY <1>1, <2>1, <2>2, <2>3, <2>4 DEF Nothing
<1>7. CASE Overwrite
  <2>1. /\ dialog' = Nothing /\ UNCHANGED <<srv, at, sending, mine, others, known>> /\ dialog # Nothing
        /\ file'.there = file.there /\ file'.v = file.v /\ file'.digest \in {file.digest, dialog}
    BY <1>1, <1>7 DEF Overwrite, ghosts
  <2>2. Versions' = Versions
    BY <2>1 DEF Versions
  <2>3. Nothing \notin mine
    BY <1>1 DEF Versions
  <2> QED
    BY <2>1, <2>2, <2>3 DEF Nothing
<1>8. CASE OtherWrites
  <2>1. /\ others' = others \cup {Fresh} /\ srv'.v = Fresh /\ UNCHANGED <<file, at, sending, dialog, mine, known>>
    BY <1>1, <1>8 DEF OtherWrites, Elsewhere, disk
  <2>2. Versions' = Versions \cup {Fresh}
    BY <2>1 DEF Versions
  <2>3. PICK n : n = Fresh
    OBVIOUS
  <2>4. n \notin mine
    BY <1>2, <2>3 DEF Versions
  <2> QED
    BY <2>1, <2>2, <2>3, <2>4 DEF Nothing
<1>9. CASE Quit
  <2>1. /\ at' = "down" /\ dialog' = Nothing /\ UNCHANGED <<file, mine, others>>
        /\ srv'.v = srv.v \/ (at = "sending" /\ srv'.v = file.v)
        /\ known' = known \cup {srv'.v}
    BY <1>1, <1>9 DEF Quit, disk
  <2>2. Versions' = Versions /\ Nothing \notin mine
    BY <1>1, <2>1 DEF Versions
  <2> QED
    BY <1>1, <2>1, <2>2 DEF Nothing
<1>10. CASE Cleanup
  <2>1. /\ at' = "setup" /\ UNCHANGED <<srv, dialog, mine, others, known>> /\ file' \in {file, Gone}
    BY <1>10 DEF Cleanup, CleanupIf
  <2>2. Versions' = Versions /\ Nothing \notin mine
    BY <1>1, <2>1 DEF Versions
  <2> QED
    BY <1>1, <2>1, <2>2 DEF Nothing, Gone
<1> QED
  BY <1>3, <1>4, <1>5, <1>6, <1>7, <1>8, <1>9, <1>10

LEMMA KnownStep ==
  ASSUME ReplaceInv, KnownInv, [Next]_vars
  PROVE  KnownInv'
<1>1. CASE Quiet
  <2>1. VersionsInv
    BY DEF ReplaceInv
  <2> QED
    BY <1>1, <2>1, QuietKnows, StillKnown
<1>2. CASE ~Quiet
  BY <1>2, OtherKnows DEF Next, Quiet
<1> QED
  BY <1>1, <1>2

EventsInv == events \in Seq(Events)

LEMMA EventsStep ==
  ASSUME EventsInv, [Next]_vars
  PROVE  EventsInv'
<1>1. "written" \in Events /\ "lockfile" \in Events /\ "unlockfile" \in Events /\ << >> \in Seq(Events)
  BY DEF Events
<1>2. CASE events' = events
  BY <1>2 DEF EventsInv
<1>3. CASE \E e \in Events : events' = Emit(e)
  BY <1>3, Emits DEF EventsInv
<1>4. CASE HandleEvent
  BY <1>4, Handles DEF EventsInv, HandleEvent
<1>5. CASE Quit
  BY <1>1, <1>5 DEF EventsInv, Quit
<1>6. events' = events \/ (\E e \in Events : events' = Emit(e)) \/ HandleEvent \/ Quit
  <2> USE DEF work, disk, locker, ghosts
  <2>1. CASE Edit \/ Write \/ Close \/ Reopen
    BY <1>1, <2>1 DEF Edit, Write, Close, Reopen
  <2>2. CASE EditFails \/ Orphans \/ Interact \/ LockSkipped \/ Lock
    BY <2>2 DEF EditFails, Orphans, Interact, LockSkipped, Lock
  <2>3. CASE Unlock \/ UnlockOrphan \/ LockFails \/ LockRefused \/ LockRaises \/ LocksDone
    BY <2>3 DEF Unlock, UnlockOrphan, LockFails, LockRefused, LockRaises, LocksDone
  <2>4. CASE UploadDropped \/ UploadSame \/ UploadConflict \/ UploadBegins \/ UploadsDone
    BY <2>4 DEF UploadDropped, UploadSame, UploadConflict, UploadBegins, UploadBeginsIf, UploadsDone
  <2>5. CASE UploadEnds \/ UploadFails \/ UploadRefused \/ UploadSkipped
    BY <2>5 DEF UploadEnds, UploadFails, UploadRefused, UploadSkipped
  <2>6. CASE PollBegins \/ PollEnds \/ Overwrite \/ KeepServer
    BY <2>6 DEF PollBegins, PollEnds, PollEndsIf, Overwrite, KeepServer
  <2>7. CASE OtherWrites \/ OtherLocks \/ OtherUnlocks \/ Expires \/ LogsIn
    BY <2>7 DEF OtherWrites, OtherLocks, OtherUnlocks, Expires, LogsIn, Elsewhere
  <2>8. CASE Start \/ Cleanup \/ SetupWatchdog \/ UNCHANGED vars
    BY <2>8 DEF Start, Cleanup, CleanupIf, SetupWatchdog, vars
  <2> QED
    BY <2>1, <2>2, <2>3, <2>4, <2>5, <2>6, <2>7, <2>8 DEF Next
<1> QED
  BY <1>2, <1>3, <1>4, <1>5, <1>6

\* The file holds the last version of the user, and something is left to do.
Latest == file.there /\ file.v \in mine /\ \A w \in mine : w <= file.v
Pending == at \in {"down", "cleanup", "sending"} \/ upq \/ retry \/ dialog # Nothing \/ Written

SentInv == Unsent /\ lost = {} => Latest /\ Pending

LEMMA OneLast ==
  ASSUME NEW M \in SUBSET Nat, NEW v \in M, NEW w \in M,
         \A m \in M : m <= v, \A m \in M : m <= w
  PROVE  v = w
<1>1. v \in Nat /\ w \in Nat /\ v <= w /\ w <= v
  OBVIOUS
<1> QED
  BY <1>1

LEMMA UnsentIsFile ==
  ASSUME VersionsInv, Latest, Unsent
  PROVE  file.v \notin known
<1>1. mine \in SUBSET Nat
  BY DEF VersionsInv, Versions
<1>2. PICK v \in mine \ known : \A w \in mine : w <= v
  BY DEF Unsent
<1>3. v \in mine /\ file.v \in mine /\ \A w \in mine : w <= file.v
  BY <1>2 DEF Latest
<1>4. file.v = v
  BY <1>1, <1>2, <1>3, OneLast
<1> QED
  BY <1>2, <1>4

\* What a step does that leaves the file, and gives up only what it says.
SentQuiet ==
    /\ mine' = mine /\ known \subseteq known' /\ lost \subseteq lost'
    /\ file'.there = file.there /\ file'.v = file.v
    /\ Latest /\ Pending => \/ Pending' \/ file.v \in known'
                            \/ Unsent => lost' # {}
                            \/ file.v = file.digest

LEMMA StillSent ==
  ASSUME VersionsInv, KnownInv, SentInv, SentQuiet
  PROVE  SentInv'
<1> SUFFICES ASSUME Unsent', lost' = {} PROVE (Latest /\ Pending)'
  BY DEF SentInv
<1>1. PICK v \in mine \ known' : \A w \in mine : w <= v
  BY DEF Unsent, SentQuiet
<1>2. Unsent /\ lost = {}
  BY <1>1 DEF Unsent, SentQuiet
<1>3. Latest /\ Pending
  BY <1>2 DEF SentInv
<1>4. Latest'
  BY <1>3 DEF Latest, SentQuiet
<1>5. file.v \notin known'
  <2>1. mine \in SUBSET Nat
    BY DEF VersionsInv, Versions
  <2>2. v \in mine /\ file.v \in mine /\ \A w \in mine : w <= file.v
    BY <1>1, <1>3 DEF Latest
  <2>3. file.v = v
    BY <2>1, <2>2, <1>1, OneLast
  <2> QED
    BY <1>1, <2>3
<1>6. file.v # file.digest
  BY <1>2, <1>3, UnsentIsFile DEF KnownInv, Latest
<1> QED
  BY <1>2, <1>3, <1>4, <1>5, <1>6 DEF SentQuiet

LEMMA QuietSends ==
  ASSUME ReplaceInv, KnownInv, EventsInv, Quiet
  PROVE  SentQuiet
<1>1. KnownQuiet /\ QuietStep
  BY QuietKnows, QuietSteps
<1>2. UNCHANGED events => Written' = Written
  BY DEF Written
<1> USE DEF Pending, work, disk, locker, ghosts
<1>3. CASE HandleEvent
  <2>1. Written => Written' \/ Head(events) = "written"
    BY <1>3, Handles DEF EventsInv, HandleEvent
  <2>2. file.there /\ Head(events) = "written" => upq'
    BY <1>3 DEF HandleEvent
  <2>3. (upq => upq') /\ UNCHANGED <<at, retry, dialog, lost>>
    BY <1>3 DEF HandleEvent, ghosts
  <2> QED
    BY <1>1, <2>1, <2>2, <2>3 DEF SentQuiet, KnownQuiet, Latest
<1>4. CASE Close \/ Reopen
  <2>1. Written => Written'
    <3>1. events' = events \/ \E e \in Events : events' = Emit(e)
      BY <1>4 DEF Close, Reopen, Events
    <3>2. CASE events' = events
      BY <3>2 DEF Written
    <3>3. CASE \E e \in Events : events' = Emit(e)
      BY <3>3, Emits DEF EventsInv
    <3> QED
      BY <3>1, <3>2, <3>3
  <2>2. UNCHANGED <<at, upq, retry, dialog, lost>>
    BY <1>4 DEF Close, Reopen
  <2> QED
    BY <1>1, <2>1, <2>2 DEF SentQuiet, KnownQuiet
<1>5. CASE UploadDropped
  BY <1>1, <1>5 DEF UploadDropped, Uploading, Lose, SentQuiet, KnownQuiet
<1>6. CASE UploadSame
  BY <1>1, <1>6 DEF UploadSame, SentQuiet, KnownQuiet
<1>7. CASE UploadConflict
  <2>1. srv.v # Nothing
    BY DEF ReplaceInv, VersionsInv, KnownInv, Nothing
  <2> QED
    BY <1>1, <1>7, <2>1 DEF UploadConflict, SentQuiet, KnownQuiet
<1>8. CASE UploadFails \/ UploadRefused \/ UploadSkipped
  BY <1>1, <1>8 DEF UploadFails, UploadRefused, UploadSkipped, Failing, Uploading, UploadError, Lose,
                    SentQuiet, KnownQuiet
<1>9. CASE LocksDone
  <2>1. Written' = Written
    BY <1>2, <1>9 DEF LocksDone, Written
  <2> QED
    BY <1>1, <1>9, <2>1 DEF LocksDone, SentQuiet, KnownQuiet
<1>10. CASE KeepServer
  BY <1>1, <1>10 DEF KeepServer, SentQuiet, KnownQuiet
<1>11. ASSUME /\ UNCHANGED <<events, upq, retry, dialog, lost>>
              /\ at \in {"down", "cleanup", "sending"} => at' \in {"down", "cleanup", "sending"}
       PROVE  SentQuiet
  <2>1. Written' = Written
    BY <1>11 DEF Written
  <2> QED
    BY <1>1, <1>11, <2>1 DEF SentQuiet, KnownQuiet
<1>12. CASE EditFails \/ Orphans \/ Interact \/ LockSkipped \/ Lock
  BY <1>11, <1>12 DEF EditFails, Orphans, Interact, Interacts, LockSkipped, Lock, Locking
<1>13. CASE Unlock \/ UnlockOrphan \/ LockFails \/ LockRefused \/ LockRaises
  BY <1>11, <1>13 DEF Unlock, UnlockOrphan, LockFails, LockRefused, LockRaises, Locking, Asking
<1>14. CASE UploadsDone \/ PollBegins \/ PollEnds
  BY <1>11, <1>14 DEF UploadsDone, PollBegins, PollEnds, PollEndsIf
<1>15. CASE OtherLocks \/ OtherUnlocks \/ Expires \/ LogsIn
  BY <1>11, <1>15 DEF OtherLocks, OtherUnlocks, Expires, LogsIn, Elsewhere
<1>16. CASE Start \/ SetupWatchdog \/ UNCHANGED vars
  BY <1>11, <1>16 DEF Start, SetupWatchdog, vars
<1> QED
  BY <1>3, <1>4, <1>5, <1>6, <1>7, <1>8, <1>9, <1>10, <1>12, <1>13, <1>14, <1>15, <1>16 DEF Quiet

LEMMA OtherSends ==
  ASSUME ReplaceInv, KnownInv, EventsInv, SentInv,
         Edit \/ UploadBegins \/ UploadEnds \/ Write \/ Overwrite \/ OtherWrites \/ Quit \/ Cleanup
  PROVE  SentInv'
<1>1. VersionsInv /\ srv \in Documents /\ file \in Folders
  BY DEF ReplaceInv, VersionsInv
<1>2. UNCHANGED events => Written' = Written
  BY DEF Written
<1> USE DEF Pending, work, disk, locker, ghosts
<1>3. CASE Edit
  <2>1. Unsent' = Unsent /\ lost \subseteq lost' /\ (Unsent => lost' # {})
    BY <1>3 DEF Edit, Lose, Unsent
  <2> QED
    BY <2>1 DEF SentInv
<1>4. CASE UploadBegins
  <2>1. SentQuiet
    BY <1>4 DEF UploadBegins, UploadBeginsIf, SentQuiet
  <2> QED
    BY <1>1, <2>1, StillSent
<1>5. CASE UploadEnds
  <2>1. SentQuiet
    BY <1>1, <1>5 DEF UploadEnds, SentQuiet, Folders
  <2> QED
    BY <1>1, <2>1, StillSent
<1>6. CASE Write
  <2>1. /\ mine' = mine \cup {Fresh} /\ UNCHANGED <<at, upq, retry, dialog>> /\ events' = Emit("written")
        /\ file'.there /\ file'.v = Fresh /\ lost' = IF at = "setup" THEN lost \cup {"unwatched"} ELSE lost
    BY <1>1, <1>6 DEF Write, Folders
  <2>2. PICK n : n = Fresh
    OBVIOUS
  <2>3. mine \subseteq 0 .. n - 1 /\ n \in Nat
    BY <1>1, <2>2, FreshIsNew DEF VersionsInv, Versions
  <2>4. Latest'
    BY <2>1, <2>2, <2>3 DEF Latest
  <2>5. lost' = {} => Pending'
    <3>1. Watched => Written'
      BY <2>1, Emits DEF EventsInv, Events
    <3> QED
      BY <2>1, <3>1 DEF Watched
  <2> QED
    BY <2>4, <2>5 DEF SentInv
<1>7. CASE Overwrite
  <2>1. SentQuiet
    BY <1>1, <1>2, <1>7 DEF Overwrite, SentQuiet, Folders, Latest, Up
  <2> QED
    BY <1>1, <2>1, StillSent
<1>8. CASE OtherWrites
  <2>1. SentQuiet
    BY <1>2, <1>8 DEF OtherWrites, Elsewhere, SentQuiet
  <2> QED
    BY <1>1, <2>1, StillSent
<1>9. CASE Quit
  <2>1. SentQuiet
    BY <1>9 DEF Quit, SentQuiet
  <2> QED
    BY <1>1, <2>1, StillSent
<1>10. CASE Cleanup
  <2>1. Unsent' = Unsent /\ lost \subseteq lost'
    BY <1>10 DEF Cleanup, CleanupIf, Lose, Unsent
  <2>2. CASE Unsent /\ lost' = {}
    <3>1. Latest
      BY <2>1, <2>2 DEF SentInv
    <3>2. file.v # file.digest
      BY <1>1, <2>2, <3>1, UnsentIsFile DEF KnownInv, Latest
    <3>3. file' = file /\ upq' /\ mine' = mine
      BY <1>10, <2>2, <3>1, <3>2 DEF Cleanup, CleanupIf, Lose, Latest
    <3> QED
      BY <3>1, <3>3 DEF SentInv, Latest
  <2> QED
    BY <2>1, <2>2 DEF SentInv
<1> QED
  BY <1>3, <1>4, <1>5, <1>6, <1>7, <1>8, <1>9, <1>10

EditsInv == ReplaceInv /\ KnownInv /\ EventsInv /\ SentInv

LEMMA EditsStep ==
  ASSUME EditsInv, [Next]_vars
  PROVE  EditsInv'
<1>1. ReplaceInv /\ KnownInv /\ EventsInv /\ SentInv
  BY DEF EditsInv
<1>2. CASE Quiet
  <2>1. SentQuiet /\ VersionsInv
    BY <1>1, <1>2, QuietSends DEF ReplaceInv
  <2>2. SentInv'
    BY <1>1, <2>1, StillSent
  <2> QED
    BY <1>1, <2>2, ReplaceStep, KnownStep, EventsStep DEF EditsInv
<1>3. CASE ~Quiet
  <2>1. SentInv'
    BY <1>1, <1>3, OtherSends DEF Next, Quiet
  <2> QED
    BY <1>1, <2>1, ReplaceStep, KnownStep, EventsStep DEF EditsInv
<1> QED
  BY <1>2, <1>3

LEMMA EditsInit == Init => EditsInv
<1> SUFFICES ASSUME Init PROVE EditsInv
  OBVIOUS
<1>1. ReplaceInv
  BY ReplaceInit
<1>2. KnownInv
  BY DEF Init, KnownInv, Versions, Gone, Nothing
<1>3. EventsInv
  BY DEF Init, EventsInv, Events
<1>4. SentInv
  BY DEF Init, SentInv, Unsent
<1> QED
  BY <1>1, <1>2, <1>3, <1>4 DEF EditsInv

(***************************************************************************)
(* When nothing is left to do (_handle_queues finds its queues empty), the *)
(* last version the user saved was on the server or the user was told, or  *)
(* it is one of the ways a version is lost.  The invariant: a version that *)
(* is neither is the one of the file, and an event, a queue, the window,   *)
(* the upload that runs or the next start stands for it.                   *)
(***************************************************************************)
THEOREM LastSaveIsSent == Spec => []Sent
<1>1. Init => EditsInv
  BY EditsInit
<1>2. EditsInv /\ [Next]_vars => EditsInv'
  BY EditsStep
<1>3. EditsInv => Sent
  BY DEF EditsInv, SentInv, Pending, Sent, Idle, Interacts, Written
<1> QED
  BY <1>1, <1>2, <1>3, PTL DEF Spec

-----------------------------------------------------------------------------
(* What is locked                                                          *)

Items == {"lock", "unlock", "unlock_orphan"}
Has(q, x) == \E i \in 1 .. Len(q) : q[i] = x
Unlocks(q) == Has(q, "unlock") \/ Has(q, "unlock_orphan")
\* every lock is followed by an unlock
Covered(q) == \A i \in 1 .. Len(q) : q[i] = "lock" => \E j \in i + 1 .. Len(q) : q[j] = "unlock"

LEMMA TailHas ==
  ASSUME NEW q \in Seq(Items), q # << >>, NEW x
  PROVE  /\ Has(q, x) => Head(q) = x \/ Has(Tail(q), x)
         /\ Has(Tail(q), x) => Has(q, x)
<1>1. ASSUME Has(q, x) PROVE Head(q) = x \/ Has(Tail(q), x)
  <2>1. PICK i \in 1 .. Len(q) : q[i] = x
    BY <1>1 DEF Has
  <2>2. CASE i # 1
    <3>1. i - 1 \in 1 .. Len(Tail(q)) /\ Tail(q)[i - 1] = x
      BY <2>1, <2>2
    <3> QED
      BY <3>1 DEF Has
  <2> QED
    BY <2>1, <2>2
<1>2. ASSUME Has(Tail(q), x) PROVE Has(q, x)
  <2>1. PICK i \in 1 .. Len(Tail(q)) : Tail(q)[i] = x
    BY <1>2 DEF Has
  <2>2. i + 1 \in 1 .. Len(q) /\ q[i + 1] = x
    BY <2>1
  <2> QED
    BY <2>2 DEF Has
<1> QED
  BY <1>1, <1>2

LEMMA TailCovered ==
  ASSUME NEW q \in Seq(Items), q # << >>, Covered(q)
  PROVE  /\ Covered(Tail(q))
         /\ Head(q) = "lock" => Has(Tail(q), "unlock")
<1>1. ASSUME NEW i \in 1 .. Len(Tail(q)), Tail(q)[i] = "lock"
      PROVE  \E j \in i + 1 .. Len(Tail(q)) : Tail(q)[j] = "unlock"
  <2>1. i + 1 \in 1 .. Len(q) /\ q[i + 1] = "lock"
    BY <1>1
  <2>2. PICK j \in i + 2 .. Len(q) : q[j] = "unlock"
    BY <2>1 DEF Covered
  <2>3. j - 1 \in i + 1 .. Len(Tail(q)) /\ Tail(q)[j - 1] = "unlock"
    BY <2>2
  <2> QED
    BY <2>3
<1>2. ASSUME Head(q) = "lock" PROVE Has(Tail(q), "unlock")
  <2>1. 1 \in 1 .. Len(q) /\ q[1] = "lock"
    BY <1>2
  <2>2. PICK j \in 2 .. Len(q) : q[j] = "unlock"
    BY <2>1 DEF Covered
  <2>3. j - 1 \in 1 .. Len(Tail(q)) /\ Tail(q)[j - 1] = "unlock"
    BY <2>2
  <2> QED
    BY <2>3 DEF Has
<1> QED
  BY <1>1, <1>2 DEF Covered

LEMMA AppendHas ==
  ASSUME NEW q \in Seq(Items), NEW x \in Items, NEW y
  PROVE  /\ Append(q, x) \in Seq(Items)
         /\ Has(Append(q, x), y) <=> x = y \/ Has(q, y)
<1>1. Append(q, x) \in Seq(Items) /\ Len(Append(q, x)) = Len(q) + 1 /\ Append(q, x)[Len(q) + 1] = x
  OBVIOUS
<1>2. \A i \in 1 .. Len(q) : Append(q, x)[i] = q[i]
  OBVIOUS
<1> QED
  BY <1>1, <1>2 DEF Has

LEMMA AppendCovered ==
  ASSUME NEW q \in Seq(Items), NEW x \in Items
  PROVE  /\ x = "unlock" => Covered(Append(q, x))
         /\ Covered(q) /\ x # "lock" => Covered(Append(q, x))
<1>1. Append(q, x) \in Seq(Items) /\ Len(Append(q, x)) = Len(q) + 1 /\ Append(q, x)[Len(q) + 1] = x
  OBVIOUS
<1>2. \A i \in 1 .. Len(q) : Append(q, x)[i] = q[i]
  OBVIOUS
<1>3. Len(q) \in Nat
  OBVIOUS
<1> DEFINE r == Append(q, x)
<1> HIDE DEF r
<1>4. x = "unlock" => Covered(r)
  BY <1>1, <1>2, <1>3 DEF Covered, r
<1>5. Covered(q) /\ x # "lock" => Covered(r)
  BY <1>1, <1>2, <1>3 DEF Covered, r
<1> QED
  BY <1>4, <1>5 DEF r

LEMMA NothingCovers ==
  ASSUME NEW q \in Seq(Items)
  PROVE  ~Has(q, "lock") => Covered(q)
  BY DEF Has, Covered

LockTypes ==
    /\ lockq \in Seq(Items) /\ held \in Seq(Items)
    /\ held # << >> => at = "locks"
    /\ toLock => snap = "none" /\ auto # "none"
    /\ srv.lock = "me" => autolock
    /\ ~Watched => events = << >>

LEMMA LockTypesStep ==
  ASSUME ReplaceInv, LockTypes, [Next]_vars
  PROVE  LockTypes'
<1>1. srv \in Documents /\ file \in Folders
  BY DEF ReplaceInv, VersionsInv
<1>2. "lock" \in Items /\ "unlock" \in Items /\ "unlock_orphan" \in Items /\ << >> \in Seq(Items)
  BY DEF Items
<1> USE <1>1, <1>2 DEF LockTypes, Documents, Folders, Watched, work, disk, locker, ghosts
<1>3. CASE Edit
  BY <1>3 DEF Edit, Interacts
<1>4. CASE EditFails \/ Interact
  BY <1>4 DEF EditFails, Interact, Interacts
<1>5. CASE Orphans
  BY <1>5, AppendHas DEF Orphans, Interacts
<1>6. CASE LockSkipped \/ LockRefused
  <2>1. lockq # << >> /\ lockq' = Tail(lockq)
    BY <1>6 DEF LockSkipped, LockRefused, Asking, Taken
  <2>2. UNCHANGED <<srv, events, held, at, auto, toLock, snap, autolock>>
    BY <1>6 DEF LockSkipped, LockRefused
  <2> QED
    BY <2>1, <2>2
<1>7. CASE Lock
  BY <1>7 DEF Lock, Locking, Taken
<1>8. CASE Unlock
  <2>1. srv'.lock # "me"
    BY <1>8 DEF Unlock
  <2>3. lockq # << >> /\ lockq' = Tail(lockq)
    BY <1>8 DEF Unlock, Locking, Taken
  <2>2. UNCHANGED <<events, held, at, auto, toLock, snap>>
    BY <1>8 DEF Unlock
  <2> QED
    BY <2>1, <2>2, <2>3
<1>9. CASE UnlockOrphan
  <2>1. srv'.lock # "me"
    BY <1>9 DEF UnlockOrphan
  <2>3. lockq # << >> /\ lockq' = Tail(lockq)
    BY <1>9 DEF UnlockOrphan, Locking, Taken
  <2>2. UNCHANGED <<events, held, at, auto, toLock, snap>>
    BY <1>9 DEF UnlockOrphan
  <2> QED
    BY <2>1, <2>2, <2>3
<1>10. CASE LockFails
  <2>1. Head(lockq) \in Items
    BY <1>10 DEF LockFails, Asking
  <2> QED
    BY <1>10, <2>1, AppendHas DEF LockFails, Asking, Taken
<1>11. CASE LockRaises
  BY <1>11 DEF LockRaises, Asking, Taken
<1>12. CASE LocksDone
  BY <1>12 DEF LocksDone
<1>13. CASE UploadDropped \/ UploadSame \/ UploadConflict \/ UploadBegins \/ UploadsDone
  BY <1>13 DEF UploadDropped, UploadSame, UploadConflict, UploadBegins, UploadBeginsIf, UploadsDone, Uploading
<1>14. CASE UploadEnds \/ UploadFails \/ UploadRefused \/ UploadSkipped
  BY <1>14 DEF UploadEnds, UploadFails, UploadRefused, UploadSkipped, Failing, Uploading
<1>15. CASE HandleEvent
  BY <1>15 DEF HandleEvent, Scheduled
<1>16. CASE PollBegins
  BY <1>16 DEF PollBegins
<1>17. CASE PollEnds
  <2>1. lockq' \in Seq(Items)
    BY <1>17 DEF PollEnds, PollEndsIf
  <2> QED
    BY <1>17, <2>1 DEF PollEnds, PollEndsIf
<1>18. CASE Write \/ Close \/ Reopen
  BY <1>18 DEF Write, Close, Reopen, Emit
<1>19. CASE Overwrite \/ KeepServer
  BY <1>19 DEF Overwrite, KeepServer
<1>20. CASE OtherWrites \/ OtherLocks \/ OtherUnlocks \/ Expires \/ LogsIn
  BY <1>20 DEF OtherWrites, OtherLocks, OtherUnlocks, Expires, LogsIn, Elsewhere
<1>21. CASE Quit
  BY <1>21 DEF Quit
<1>22. CASE Start \/ Cleanup \/ SetupWatchdog
  BY <1>22 DEF Start, Cleanup, CleanupIf, SetupWatchdog
<1>23. CASE UNCHANGED vars
  BY <1>23 DEF vars
<1> QED
  BY <1>3, <1>4, <1>5, <1>6, <1>7, <1>8, <1>9, <1>10, <1>11, <1>12, <1>13, <1>14, <1>15, <1>16, <1>17,
     <1>18, <1>19, <1>20, <1>21, <1>22, <1>23 DEF Next

\* An event that is still to be handled asks for the lock.
Waits == \E i \in 1 .. Len(events) : events[i] # "unlockfile"
Told == Waits /\ file.there /\ ~file.mark

LEMMA EmitWaits ==
  ASSUME EventsInv, NEW e \in Events, events' = Emit(e)
  PROVE  /\ Waits => Waits'
         /\ Watched /\ e # "unlockfile" => Waits'
  BY DEF EventsInv, Emit, Waits, Last, Events

LEMMA HandleWaits ==
  ASSUME EventsInv, events # << >>, events' = Tail(events)
  PROVE  Waits => Waits' \/ Head(events) # "unlockfile"
<1>1. ASSUME Waits PROVE Waits' \/ Head(events) # "unlockfile"
  <2>1. PICK i \in 1 .. Len(events) : events[i] # "unlockfile"
    BY <1>1 DEF Waits
  <2>2. CASE i = 1
    BY <2>1, <2>2
  <2>3. CASE i # 1
    <3>1. i - 1 \in 1 .. Len(events') /\ events'[i - 1] # "unlockfile"
      BY <2>1, <2>3 DEF EventsInv
    <3> QED
      BY <3>1 DEF Waits
  <2> QED
    BY <2>2, <2>3
<1> QED
  BY <1>1

\* What is locked, or is to be, will be unlocked.
LockInv ==
    kept = {} /\ auto = "none" =>
        /\ Covered(lockq)
        /\ Has(held, "lock") => Has(lockq, "unlock") \/ Covered(held)
        /\ srv.lock = "me" => locked \/ Unlocks(lockq) \/ Unlocks(held) \/ Told

\* A step that leaves the locks, or only says of more events.
LockQuiet ==
    /\ UNCHANGED <<lockq, held, locked>>
    /\ srv'.lock = "me" => srv.lock = "me"
    /\ kept' = {} => kept = {}
    /\ auto' = "none" => auto = "none"
    /\ Told => Told'

LEMMA StillLocked ==
  ASSUME LockInv, LockQuiet
  PROVE  LockInv'
  BY DEF LockInv, LockQuiet, Unlocks, Has, Covered

\* The steps that neither lock nor unlock, nor say that they will.
LEMMA QuietLocks ==
  ASSUME ReplaceInv, EventsInv,
         \/ Interact \/ UploadDropped \/ UploadSame \/ UploadConflict \/ UploadBegins \/ UploadsDone
         \/ UploadEnds \/ UploadFails \/ UploadRefused \/ UploadSkipped \/ PollBegins \/ Write \/ Close \/ Reopen
         \/ Overwrite \/ KeepServer \/ OtherWrites \/ OtherLocks \/ OtherUnlocks \/ Expires \/ LogsIn
         \/ Start \/ SetupWatchdog \/ UNCHANGED vars
  PROVE  LockQuiet
<1>1. srv \in Documents /\ file \in Folders
  BY DEF ReplaceInv, VersionsInv
<1>2. events' = events => Waits' = Waits
  BY DEF Waits
<1> USE <1>1 DEF LockQuiet, Told, Documents, Folders, work, disk, locker, ghosts
<1>3. CASE Interact \/ UploadDropped \/ UploadSame \/ UploadConflict
  BY <1>2, <1>3 DEF Interact, UploadDropped, UploadSame, UploadConflict
<1>4. CASE UploadBegins \/ UploadsDone
  BY <1>2, <1>4 DEF UploadBegins, UploadBeginsIf, UploadsDone
<1>5. CASE UploadEnds \/ UploadFails \/ UploadRefused \/ UploadSkipped
  BY <1>2, <1>5 DEF UploadEnds, UploadFails, UploadRefused, UploadSkipped
<1>6. CASE PollBegins
  BY <1>2, <1>6 DEF PollBegins
<1>7. CASE Write \/ Close \/ Reopen
  <2>1. events' = events \/ \E e \in Events : events' = Emit(e)
    BY <1>7 DEF Write, Close, Reopen, Events
  <2>2. Waits => Waits'
    BY <1>2, <2>1, EmitWaits
  <2>3. /\ UNCHANGED <<srv, lockq, held, locked, kept, auto>>
        /\ file'.there = file.there /\ file'.mark = file.mark
    BY <1>7 DEF Write, Close, Reopen
  <2> QED
    BY <2>2, <2>3
<1>8. CASE Overwrite \/ KeepServer
  <2>1. file'.there = file.there /\ file'.mark = file.mark
    BY <1>8 DEF Overwrite, KeepServer
  <2>2. UNCHANGED <<srv, events, lockq, held, locked, kept, auto>>
    BY <1>8 DEF Overwrite, KeepServer
  <2> QED
    BY <1>2, <2>1, <2>2
<1>9. CASE OtherWrites \/ OtherLocks \/ OtherUnlocks \/ Expires \/ LogsIn
  BY <1>2, <1>9 DEF OtherWrites, OtherLocks, OtherUnlocks, Expires, LogsIn, Elsewhere
<1>10. CASE Start \/ SetupWatchdog \/ UNCHANGED vars
  BY <1>2, <1>10 DEF Start, SetupWatchdog, vars
<1> QED
  BY <1>3, <1>4, <1>5, <1>6, <1>7, <1>8, <1>9, <1>10

LEMMA OtherLocking ==
  ASSUME ReplaceInv, EventsInv, LockTypes, LockInv,
         \/ Edit \/ EditFails \/ Orphans \/ LockSkipped \/ Lock \/ Unlock \/ UnlockOrphan \/ LockFails
         \/ LockRefused \/ LockRaises \/ LocksDone \/ HandleEvent \/ PollEnds \/ Quit \/ Cleanup
  PROVE  LockInv'
<1>1. srv \in Documents /\ file \in Folders /\ lockq \in Seq(Items) /\ held \in Seq(Items)
  BY DEF ReplaceInv, VersionsInv, LockTypes
<1>2. events' = events => Waits' = Waits
  BY DEF Waits
<1>3. "lock" \in Items /\ "unlock" \in Items /\ "unlock_orphan" \in Items
  BY DEF Items
<1>4. ~Has(<< >>, "lock") /\ Covered(<< >>)
  BY DEF Has, Covered
<1> USE <1>1 DEF Documents, Folders, work, disk, locker, ghosts
<1>5. CASE Edit
  <2>1. /\ UNCHANGED <<lockq, held, locked, auto>> /\ Interacts /\ events' = Emit("written")
        /\ file'.there /\ file'.mark = file.mark
        /\ kept' = IF file.mark /\ srv'.lock = "me" THEN kept \cup {"marked"} ELSE kept
    BY <1>5 DEF Edit
  <2>2. Waits'
    BY <2>1, EmitWaits DEF Interacts, Watched, Events
  <2>3. srv'.lock = "me" /\ kept' = {} => Told'
    BY <2>1, <2>2 DEF Told
  <2> QED
    BY <2>1, <2>3 DEF LockInv
<1>6. CASE EditFails
  BY <1>6 DEF EditFails, LockInv
<1>7. CASE Orphans
  <2>1. lockq' = Append(lockq, "unlock_orphan") /\ UNCHANGED <<held, auto, kept>>
    BY <1>7 DEF Orphans
  <2>2. Covered(lockq) => Covered(lockq')
    BY <1>3, <2>1, AppendCovered
  <2>3. Has(lockq, "unlock") => Has(lockq', "unlock")
    BY <1>3, <2>1, AppendHas
  <2>4. Unlocks(lockq')
    BY <1>3, <2>1, AppendHas DEF Unlocks
  <2> QED
    BY <2>1, <2>2, <2>3, <2>4 DEF LockInv
<1>8. ASSUME lockq # << >>, Taken PROVE
        /\ Covered(lockq) => Covered(lockq') /\ (Head(lockq) = "lock" => Has(lockq', "unlock"))
        /\ Has(lockq, "unlock") => Head(lockq) = "unlock" \/ Has(lockq', "unlock")
        /\ Unlocks(lockq) => Head(lockq) # "lock" \/ Unlocks(lockq')
        /\ Head(lockq) \in Items
  <2>1. lockq' = Tail(lockq)
    BY <1>8 DEF Taken
  <2> QED
    BY <1>8, <2>1, TailHas, TailCovered DEF Unlocks
<1>9. Contains(held, "lock") <=> Has(held, "lock")
  BY DEF Contains, Has
<1>10. CASE LockSkipped
  <2>1. /\ lockq # << >> /\ Taken /\ UNCHANGED <<srv, events, held, locked, auto, file>>
        /\ kept' = IF Head(lockq) # "lock" /\ (srv.lock = "me" \/ Contains(held, "lock"))
                   THEN kept \cup {"credentials"} ELSE kept
    BY <1>10 DEF LockSkipped, StaysLocked
  <2>2. kept' = {} => kept = {}
    BY <2>1
  <2>3. Told' <=> Told
    BY <1>2, <2>1 DEF Told
  <2>4. CASE Head(lockq) = "lock"
    BY <1>8, <2>1, <2>2, <2>3, <2>4 DEF LockInv, Unlocks
  <2>5. CASE Head(lockq) # "lock" /\ kept' = {}
    BY <1>8, <1>9, <2>1, <2>5 DEF LockInv
  <2> QED
    BY <2>4, <2>5 DEF LockInv
<1>11. CASE Lock
  <2>1. lockq # << >> /\ Taken /\ Head(lockq) = "lock" /\ UNCHANGED <<held, auto, kept>>
    BY <1>11 DEF Lock, Locking
  <2>2. kept = {} /\ auto = "none" => Has(lockq', "unlock") /\ Covered(lockq')
    BY <1>8, <2>1 DEF LockInv
  <2> QED
    BY <2>1, <2>2 DEF LockInv, Unlocks
<1>12. CASE Unlock \/ UnlockOrphan
  <2>1. /\ lockq # << >> /\ Taken /\ UNCHANGED <<held, auto>>
        /\ kept' = IF Contains(held, "lock") THEN kept \cup {"late"} ELSE kept
    BY <1>12 DEF Unlock, UnlockOrphan, Locking
  <2>2. srv'.lock # "me"
    BY <1>12 DEF Unlock, UnlockOrphan
  <2>3. kept' = {} => kept = {} /\ ~Has(held, "lock")
    BY <1>9, <2>1
  <2> QED
    BY <1>8, <2>1, <2>2, <2>3 DEF LockInv
<1>13. CASE LockFails
  <2>1. lockq # << >> /\ Taken /\ held' = Append(held, Head(lockq)) /\ UNCHANGED <<srv, locked, auto, events, kept>>
    BY <1>13 DEF LockFails, Asking
  <2>2. file'.there = file.there /\ (file'.mark => file.mark \/ Head(lockq) = "lock")
    BY <1>13 DEF LockFails
  <2>3. PICK x \in Items : x = Head(lockq)
    BY <1>8, <2>1
  <2>4. \A y : Has(held', y) <=> y = x \/ Has(held, y)
    BY <2>1, <2>3, AppendHas
  <2>5. (x = "unlock" => Covered(held')) /\ (Covered(held) /\ x # "lock" => Covered(held'))
    BY <2>1, <2>3, AppendCovered
  <2>6. CASE x = "lock"
    BY <1>8, <2>1, <2>3, <2>4, <2>6 DEF LockInv, Unlocks
  <2>7. CASE x # "lock"
    <3>1. Told => Told'
      BY <1>2, <2>1, <2>2, <2>3, <2>7 DEF Told
    <3>2. Unlocks(held')
      BY <2>3, <2>4, <2>7 DEF Unlocks, Items
    <3> QED
      BY <1>8, <2>1, <2>3, <2>4, <2>5, <2>7, <3>1, <3>2 DEF LockInv
  <2> QED
    BY <2>6, <2>7
<1>24. CASE LockRefused
  <2>1. /\ lockq # << >> /\ Taken /\ UNCHANGED <<srv, events, held, locked, auto>>
        /\ kept' = IF Head(lockq) # "lock" /\ (srv.lock = "me" \/ Contains(held, "lock"))
                   THEN kept \cup {"refused"} ELSE kept
        /\ file' = [file EXCEPT !.mark = @ \/ Head(lockq) = "lock"]
    BY <1>24 DEF LockRefused, Asking, StaysLocked
  <2>2. kept' = {} => kept = {}
    BY <2>1
  <2>3. CASE Head(lockq) = "lock"
    BY <1>8, <2>1, <2>2, <2>3 DEF LockInv, Unlocks
  <2>4. CASE Head(lockq) # "lock" /\ kept' = {}
    BY <1>8, <1>9, <2>1, <2>4 DEF LockInv
  <2> QED
    BY <2>3, <2>4 DEF LockInv
<1>14. CASE LockRaises
  <2>1. /\ lockq # << >> /\ Taken /\ held' = << >> /\ UNCHANGED <<srv, auto>>
        /\ kept' = IF srv.lock = "me" THEN kept \cup {"raised"} ELSE kept
    BY <1>14 DEF LockRaises, Asking, Keep
  <2> QED
    BY <1>4, <1>8, <2>1 DEF LockInv
<1>15. CASE LocksDone
  <2>1. lockq = << >> /\ lockq' = held /\ held' = << >> /\ UNCHANGED <<srv, locked, auto, events, file, kept>>
    BY <1>15 DEF LocksDone
  <2>2. Told' <=> Told
    BY <1>2, <2>1 DEF Told
  <2>3. ~Has(lockq, "unlock") /\ ~Unlocks(lockq)
    BY <2>1 DEF Has, Unlocks
  <2>4. Has(held, "lock") \/ Covered(held)
    BY NothingCovers
  <2> QED
    BY <1>4, <2>1, <2>2, <2>3, <2>4 DEF LockInv
<1>16. CASE HandleEvent
  <2>1. /\ events # << >> /\ events' = Tail(events) /\ UNCHANGED <<srv, lockq, held, locked, kept>>
        /\ auto' = IF file.there /\ Head(events) # "unlockfile" THEN Scheduled ELSE auto
        /\ file'.there = file.there /\ (file'.mark => file.mark)
    BY <1>16 DEF HandleEvent
  <2>2. auto' = "none" => auto = "none"
    BY <2>1 DEF Scheduled
  <2>3. srv.lock = "me" /\ Told => Told' \/ auto' # "none"
    BY <2>1, HandleWaits DEF Told, Scheduled, LockTypes
  <2> QED
    BY <2>1, <2>2, <2>3 DEF LockInv
<1>17. CASE PollEnds
  <2>1. /\ UNCHANGED <<srv, events, file, held, kept>>
        /\ auto' = IF snap # "none" THEN "none" ELSE auto
        /\ lockq' = lockq \o (IF toLock THEN <<"lock">> ELSE << >>)
                          \o (IF snap # "none" THEN <<"unlock">> ELSE << >>)
    BY <1>17 DEF PollEnds, PollEndsIf
  <2>2. Told' <=> Told
    BY <1>2, <2>1 DEF Told
  <2>3. CASE snap # "none"
    <3>a. lockq \o << >> = lockq /\ lockq \o <<"unlock">> = Append(lockq, "unlock")
      BY <1>3
    <3>b. lockq' = lockq \o << >> \o <<"unlock">>
      BY <2>1, <2>3 DEF LockTypes
    <3>1. lockq' = Append(lockq, "unlock")
      BY <3>a, <3>b
    <3>2. Covered(lockq') /\ Has(lockq', "unlock")
      BY <1>3, <3>1, AppendCovered, AppendHas
    <3> QED
      BY <2>1, <3>2 DEF LockInv, Unlocks
  <2>4. CASE snap = "none" /\ auto = "none"
    <3>1. lockq' = lockq
      BY <2>1, <2>4 DEF LockTypes
    <3>2. locked => locked'
      BY <1>17, <2>4 DEF PollEnds, PollEndsIf
    <3> QED
      BY <2>1, <2>2, <2>4, <3>1, <3>2 DEF LockInv
  <2> QED
    BY <2>1, <2>3, <2>4 DEF LockInv
<1>18. CASE Quit
  <2>1. /\ lockq' = << >> /\ held' = << >> /\ locked' = locked /\ srv'.lock = srv.lock
        /\ kept' = IF srv.lock = "me" /\ ~locked THEN kept \cup {"quit"} ELSE kept
    BY <1>18 DEF Quit
  <2> QED
    BY <1>4, <2>1 DEF LockInv
<1>19. CASE Cleanup
  <2>1. UNCHANGED <<srv, events, lockq, held, locked, auto, kept>>
    BY <1>19 DEF Cleanup, CleanupIf
  <2>2. ~Told
    BY <1>19 DEF Cleanup, CleanupIf, LockTypes, Watched, Told, Waits
  <2> QED
    BY <2>1, <2>2 DEF LockInv
<1> QED
  BY <1>5, <1>6, <1>7, <1>10, <1>11, <1>12, <1>13, <1>14, <1>15, <1>16, <1>17, <1>18, <1>19, <1>24

LocksInv == EditsInv /\ LockTypes /\ LockInv

LEMMA LocksStep ==
  ASSUME LocksInv, [Next]_vars
  PROVE  LocksInv'
<1>1. ReplaceInv /\ EventsInv /\ LockTypes /\ LockInv /\ EditsInv
  BY DEF LocksInv, EditsInv
<1>2. EditsInv' /\ LockTypes'
  BY <1>1, EditsStep, LockTypesStep
<1>3. CASE \/ Interact \/ UploadDropped \/ UploadSame \/ UploadConflict \/ UploadBegins \/ UploadsDone
           \/ UploadEnds \/ UploadFails \/ UploadRefused \/ UploadSkipped \/ PollBegins \/ Write \/ Close \/ Reopen
           \/ Overwrite \/ KeepServer \/ OtherWrites \/ OtherLocks \/ OtherUnlocks \/ Expires \/ LogsIn
           \/ Start \/ SetupWatchdog \/ UNCHANGED vars
  BY <1>1, <1>2, <1>3, QuietLocks, StillLocked DEF LocksInv
<1>4. CASE \/ Edit \/ EditFails \/ Orphans \/ LockSkipped \/ Lock \/ Unlock \/ UnlockOrphan \/ LockFails
           \/ LockRefused \/ LockRaises \/ LocksDone \/ HandleEvent \/ PollEnds \/ Quit \/ Cleanup
  BY <1>1, <1>2, <1>4, OtherLocking DEF LocksInv
<1> QED
  BY <1>3, <1>4 DEF Next

LEMMA LocksInit == Init => LocksInv
<1> SUFFICES ASSUME Init PROVE LocksInv
  OBVIOUS
<1>1. EditsInv
  BY EditsInit
<1>2. LockTypes
  BY DEF Init, LockTypes, Items
<1>3. LockInv
  BY DEF Init, LockInv, Covered, Has
<1> QED
  BY <1>1, <1>2, <1>3 DEF LocksInv

(***************************************************************************)
(* When nothing is left to do and the document is closed, its lock is      *)
(* released, or it is one of the ways a lock is kept.  The invariant: a    *)
(* lock that is taken, or waits to be, is in _autolocked, or an unlock is  *)
(* queued behind it, or an event is still to bring it there.               *)
(***************************************************************************)
THEOREM LockIsReleased == Spec => []Released
<1>1. Init => LocksInv
  BY LocksInit
<1>2. LocksInv /\ [Next]_vars => LocksInv'
  BY LocksStep
<1>3. LocksInv => Released
  <2> SUFFICES ASSUME LocksInv, Idle, app = "no", auto = "none", ~locked, kept = {}
               PROVE  srv.lock # "me"
    BY DEF Released
  <2>1. lockq = << >> /\ held = << >> /\ events = << >>
    BY DEF Idle, Interacts, LocksInv, LockTypes
  <2>2. ~Unlocks(lockq) /\ ~Unlocks(held) /\ ~Told
    BY <2>1 DEF Unlocks, Has, Told, Waits
  <2> QED
    BY <2>2 DEF LocksInv, LockInv
<1> QED
  BY <1>1, <1>2, <1>3, PTL DEF Spec

(***************************************************************************)
(* What the user saves is sent or told, and the lock is released, but in   *)
(* the cases named.                                                        *)
(***************************************************************************)
THEOREM EditsAreSent == Spec => []EditsSent
<1>1. Sent /\ Released => EditsSent
  BY DEF EditsSent
<1> QED
  BY <1>1, LastSaveIsSent, LockIsReleased, PTL
===============================================================================
