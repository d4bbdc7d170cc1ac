--------------------------- MODULE DownloadsProofs ----------------------------
(***************************************************************************)
(* Proofs about Updates, for any site, any number of versions, servers and *)
(* changes: what is installed without a question, and that the checks go   *)
(* on.  Proofs about DirectDownload, for any documents, pieces, threads,   *)
(* clicks and faults: what a record that says COMPLETED has in             *)
(* "Downloads".                                                            *)
(***************************************************************************)
EXTENDS Updates, DirectDownload, FiniteSetTheorems, WellFoundedInduction, TLAPS

-----------------------------------------------------------------------------
(* Data                                                                    *)

\* A finite set of integers has a greatest element.
LEMMA MaxExists ==
  ASSUME NEW S \in SUBSET Int, IsFiniteSet(S), S # {}
  PROVE  \E x \in S : \A y \in S : x >= y
<1> DEFINE HasMax(U) == \E x \in U : \A y \in U : x >= y
           Without == {U \in SUBSET S : U # {} /\ ~HasMax(U)}
<1>1. SUFFICES ASSUME Without # {} PROVE FALSE
  OBVIOUS
<1>2. Without \subseteq FiniteSubsetsOf(S)
  BY FS_FiniteSubsetsOfFinite
<1>3. PICK U \in Without : \A V \in Without : <<V, U>> \notin StrictSubsetOrdering(S)
  <2> HIDE DEF Without
  <2> QED
    BY <1>1, <1>2, FS_StrictSubsetOrderingWellFounded, WFMin
<1>4. PICK x \in U : TRUE
  BY <1>3
<1> DEFINE V == U \ {x}
<1>5. <<V, U>> \in StrictSubsetOrdering(S)
  BY <1>3, <1>4 DEF StrictSubsetOrdering
<1>6. V = {} \/ HasMax(V)
  BY <1>3, <1>5
<1>7. HasMax(U)
  BY <1>3, <1>4, <1>6
<1> QED
  BY <1>3, <1>7

\* Two accounts of different servers are more than one server.
LEMMA TwoServers ==
  ASSUME accounts \in Seq(Servers), NEW i \in DOMAIN accounts, NEW j \in DOMAIN accounts,
         accounts[i] # accounts[j]
  PROVE  Cardinality({accounts[k] : k \in DOMAIN accounts}) > 1
<1> DEFINE all == {accounts[k] : k \in DOMAIN accounts}
           two == {accounts[i]} \cup {accounts[j]}
<1>1. IsFiniteSet(all)
  <2>1. accounts \in Surjection(DOMAIN accounts, all)
    BY DEF Surjection
  <2>2. IsFiniteSet(DOMAIN accounts)
    <3>1. DOMAIN accounts = 1 .. Len(accounts) /\ Len(accounts) \in Nat
      OBVIOUS
    <3> QED
      BY <3>1, FS_Interval
  <2> QED
    BY <2>1, <2>2, FS_Surjection
<1>2. IsFiniteSet(two) /\ Cardinality(two) = 2
  <2>1. IsFiniteSet({accounts[i]}) /\ Cardinality({accounts[i]}) = 1
    BY FS_Singleton
  <2>2. accounts[j] \notin {accounts[i]}
    OBVIOUS
  <2>3. IsFiniteSet(two) /\ Cardinality(two) = Cardinality({accounts[i]}) + 1
    BY <2>1, <2>2, FS_AddElement
  <2> QED
    BY <2>1, <2>3
<1>3. two \in SUBSET all
  OBVIOUS
<1>4. Cardinality(all) \in Nat /\ Cardinality(two) <= Cardinality(all)
  BY <1>1, <1>3, FS_Subset, FS_CardinalityType
<1> QED
  BY <1>2, <1>4

\* What a version has that the code has looked at: it fits the first account.
FitFirst(v) == /\ v \in Versions
               /\ site[v].type \in {channel, "release"}
               /\ site[v].file /\ v # bad
               /\ accounts # <<>> => accounts[1] \in site[v].servers

\* The latest version is one the site publishes for the server and the channel.
LEMMA LatestFits ==
  ASSUME NEW versions, NEW server, NEW ch, Latest(versions, server, ch) # None
  PROVE  LET v == Latest(versions, server, ch)
         IN  /\ v \in Versions /\ versions[v].type \in {ch, "release"} /\ v # bad
             /\ server \in versions[v].servers
<1> DEFINE listed == {v \in Compatible(versions, server) :
                        versions[v].type \in {ch, "release"} /\ ~(TRUE /\ v = bad)}
<1>1. listed # {} /\ Latest(versions, server, ch) = Max(listed)
  BY DEF Latest, LatestIf
<1>2. listed \in SUBSET Int /\ IsFiniteSet(listed)
  <2>1. listed \in SUBSET Versions
    BY DEF Compatible
  <2> QED
    BY <2>1, FS_Subset, VersionsAssumption DEF VersionsAssumption
<1>3. Max(listed) \in listed
  <2>1. \E x \in listed : \A y \in listed : x >= y
    <3> HIDE DEF listed
    <3> QED
      BY <1>1, <1>2, MaxExists
  <2> QED
    BY <2>1 DEF Max
<1> QED
  BY <1>1, <1>3 DEF Compatible

-----------------------------------------------------------------------------
(* The checks go on                                                        *)

Outdated == {"update_available", "wrong_channel", "incompatible_server"}

\* Whoever installs, asks or shows a version has one.
ChecksInv ==
    /\ install = [by \in {"worker", "user"} |-> install[by]]
    /\ version # None => available # None
    /\ status \in Outdated => available # None
    /\ \A by \in {"worker", "user"} : install[by] # None => available # None
    /\ dialog # None => dialog.version # None /\ available # None
    /\ Checks

\* The answers of get_update_status.
LEMMA Answers ==
  LET a == GetUpdateStatus(known)
  IN  a.status # None => /\ a.status # "updating"
                         /\ a.status \in Outdated => a.version # None
BY DEF GetUpdateStatus, Answer, Outdated

\* An update that starts keeps the checks going.
LEMMA UpdateChecks ==
  ASSUME ChecksInv, NEW by \in {"worker", "user"}, NEW v, v # None, Update(by, v),
         available # None, UNCHANGED available, dialog' = dialog \/ dialog' = None
  PROVE  ChecksInv'
<1>1. install' = [install EXCEPT ![by] = v] /\ install'[by] = v
  BY DEF Update, ChecksInv
<1>2. install' # Nobody'
  BY <1>1 DEF Nobody
<1> QED
  BY <1>1, <1>2 DEF Update, ChecksInv, Checks, Outdated

LEMMA ChecksStep ==
  ASSUME ChecksInv, [Next]_vars
  PROVE  ChecksInv'
<1> USE DEF ChecksInv, Checks, Outdated, Nobody
<1>1. CASE Fetch
  BY <1>1 DEF Fetch, world
<1>2. CASE FetchFails
  BY <1>2 DEF FetchFails, world
<1>3. CASE Check
  <2> DEFINE a == GetUpdateStatus(known)
  <2>1. UNCHANGED <<install, dialog>> /\ why \subseteq why'
    BY <1>3 DEF Check
  <2>2. available' = IF a.version # None THEN a.version ELSE available
    BY <1>3 DEF Check
  <2>3. \/ UNCHANGED <<status, version>>
        \/ a.status # None /\ status' = a.status /\ version' \in {a.version, None}
    BY <1>3 DEF Check
  <2> QED
    BY <2>1, <2>2, <2>3, Answers
<1>4. CASE Rest
  BY <1>4 DEF Rest, world
<1>5. CASE Ask
  BY <1>5 DEF Ask, world
<1>6. CASE AutoUpdate
  <2> HIDE DEF ChecksInv
  <2>1. Update("worker", version) /\ version # None /\ available # None /\ UNCHANGED <<available, dialog>>
    BY <1>6 DEF AutoUpdate, ChecksInv
  <2> QED
    BY <2>1, UpdateChecks
<1>7. CASE UserUpdate
  <2> HIDE DEF ChecksInv
  <2>1. Update("user", available) /\ available # None /\ UNCHANGED <<available, dialog>>
    BY <1>7 DEF UserUpdate
  <2> QED
    BY <2>1, UpdateChecks
<1>8. CASE Accept
  <2> HIDE DEF ChecksInv
  <2>1. /\ Update("user", dialog.version) /\ dialog.version # None /\ available # None
        /\ UNCHANGED available /\ dialog' = None
    BY <1>8 DEF Accept, ChecksInv
  <2> QED
    BY <2>1, UpdateChecks
<1>9. CASE Refuse
  BY <1>9 DEF Refuse
<1>10. CASE Restart
  BY <1>10 DEF Restart, Fresh
<1>11. CASE Change
  BY <1>11 DEF Change
<1>12. ASSUME NEW by \in {"worker", "user"}, Installed(by)
       PROVE  ChecksInv'
  BY <1>12 DEF Installed, Fresh
<1>13. ASSUME NEW by \in {"worker", "user"}, Corrupt(by)
       PROVE  ChecksInv'
  BY <1>13 DEF Corrupt, Ended
<1>14. ASSUME NEW by \in {"worker", "user"}, Fails(by)
       PROVE  ChecksInv'
  BY <1>14 DEF Fails, FailsIf, Ended
<1>15. ASSUME NEW by \in {"worker", "user"}, Lost(by)
       PROVE  ChecksInv'
  BY <1>15 DEF Lost, Ended
<1>16. CASE UNCHANGED vars
  BY <1>16 DEF vars, world
<1> QED
  BY <1>1, <1>2, <1>3, <1>4, <1>5, <1>6, <1>7, <1>8, <1>9, <1>10, <1>11, <1>12, <1>13, <1>14, <1>15, <1>16
  DEF Next, Worker, Outcome

\* Whatever is published and whatever fails, the status "updating", under which no check is
\* made, does not outlive the update but for the two failures that are only logged (Checks).
THEOREM ChecksGoOn == Spec => []Checks
<1>1. Init => ChecksInv
  BY DEF Init, ChecksInv, Checks, Nobody, Outdated
<1>2. ChecksInv /\ [Next]_vars => ChecksInv'
  BY ChecksStep
<1>3. ChecksInv => Checks
  BY DEF ChecksInv
<1> QED
  BY <1>1, <1>2, <1>3, PTL DEF Spec

-----------------------------------------------------------------------------
(* What is installed without a question                                    *)

Reasoned == why \cap {"stale", "changed", "shared"} # {}

\* The worker's answer is the site's, as long as nothing has changed; what it is about to
\* install fits the first account or is what the administrator asks for.
SuitableInv ==
    /\ accounts \in Seq(Servers)
    /\ unfit \in BOOLEAN
    /\ install = [by \in {"worker", "user"} |-> install[by]]
    /\ install["worker"] # None => phase = "idle"
    /\ phase = "known" => known = site \/ Reasoned
    /\ phase = "checked" /\ status = "update_available" /\ version # None =>
          version = client \/ FitFirst(version) \/ Reasoned
    /\ Suitable

LEMMA CheckFits ==
  ASSUME SuitableInv, Check
  PROVE  SuitableInv'
<1> DEFINE a == GetUpdateStatus(known)
<1>1. UNCHANGED <<world, bad, known, install, unfit>> /\ why \subseteq why' /\ phase' = "checked"
  BY DEF Check
<1>2. install["worker"] = None
  BY DEF Check, SuitableInv
<1>3. ASSUME status' = "update_available", version' # None, ~Reasoned'
      PROVE  version' = client \/ FitFirst(version')
  <2>1. known = site
    BY <1>1, <1>3 DEF SuitableInv, Check, Reasoned
  <2>2. a.version # None /\ known[a.version].file /\ status' = a.status /\ version' = a.version
    BY <1>3 DEF Check, Reasoned
  <2>3. \/ a.version = client
        \/ \E ch \in {channel, "release"} : a.version = Latest(known, ServerVer, ch)
    BY <2>2 DEF GetUpdateStatus, Answer
  <2>4. ASSUME NEW ch \in {channel, "release"}, a.version = Latest(known, ServerVer, ch)
        PROVE  FitFirst(a.version)
    BY <2>1, <2>2, <2>4, LatestFits DEF FitFirst, ServerVer
  <2> QED
    BY <2>2, <2>3, <2>4
<1>4. ASSUME NEW v
      PROVE  FitFirst(v)' <=> FitFirst(v)
  BY <1>1 DEF FitFirst, world
<1>5. PICK v : v = version'
  OBVIOUS
<1>6. FitFirst(version)' <=> FitFirst(v)'
  BY <1>5 DEF FitFirst
<1> QED
  BY <1>1, <1>2, <1>3, <1>4, <1>5, <1>6 DEF SuitableInv, Suitable, Reasoned, world

\* What the worker installs is fit, or there is a reason.
LEMMA WorkerFits ==
  ASSUME SuitableInv, AutoUpdate
  PROVE  SuitableInv'
<1>1. Update("worker", version) /\ phase' = "idle" /\ UNCHANGED <<world, bad, known>>
  BY DEF AutoUpdate
<1>2. version = client \/ FitFirst(version) \/ Reasoned
  BY DEF AutoUpdate, SuitableInv
<1>3. why \subseteq why' /\ unfit' = (unfit \/ ~Fit(version))
  BY <1>1 DEF Update
<1>4. ASSUME ~Fit(version), FitFirst(version)
      PROVE  "first" \in why'
  <2>1. PICK i \in DOMAIN accounts : accounts[i] \notin site[version].servers
    BY <1>4 DEF Fit, FitFirst
  <2>2. accounts \in Seq(Servers)
    BY DEF SuitableInv
  <2>3. 1 \in DOMAIN accounts /\ accounts[1] # accounts[i]
    BY <1>4, <2>1, <2>2 DEF FitFirst
  <2>4. Cardinality({accounts[k] : k \in DOMAIN accounts}) > 1
    BY <2>1, <2>2, <2>3, TwoServers
  <2> QED
    BY <1>1, <2>4 DEF Update
<1>5. version = client => "asked" \in why'
  BY <1>1 DEF Update
<1>6. Suitable'
  BY <1>2, <1>3, <1>4, <1>5 DEF Suitable, Reasoned, SuitableInv
<1> QED
  BY <1>1, <1>6 DEF SuitableInv, Update, world

LEMMA SuitableStep ==
  ASSUME SuitableInv, [Next]_vars
  PROVE  SuitableInv'
<1> USE DEF SuitableInv, Suitable, Reasoned, FitFirst, world
<1>1. CASE Fetch
  BY <1>1 DEF Fetch
<1>2. CASE FetchFails
  BY <1>2 DEF FetchFails
<1>3. CASE Check
  <2> HIDE DEF SuitableInv
  <2> QED
    BY <1>3, CheckFits
<1>4. CASE Rest
  BY <1>4 DEF Rest
<1>5. CASE Ask
  BY <1>5 DEF Ask
<1>6. CASE AutoUpdate
  <2> HIDE DEF SuitableInv
  <2> QED
    BY <1>6, WorkerFits
<1>7. CASE UserUpdate
  BY <1>7 DEF UserUpdate, Update, Meanwhile
<1>8. CASE Accept
  BY <1>8 DEF Accept, Update, Meanwhile
<1>9. CASE Refuse
  BY <1>9 DEF Refuse
<1>10. CASE Restart
  BY <1>10 DEF Restart, Fresh, Nobody
<1>11. CASE Change
  <2>1. why \subseteq why' /\ (phase = "idle" \/ Reasoned') /\ UNCHANGED <<unfit, install, phase>>
    BY <1>11 DEF Change
  <2>2. accounts' \in Seq(Servers)
    BY <1>11 DEF Change
  <2>3. Suitable'
    BY <2>1
  <2> QED
    BY <2>1, <2>2, <2>3
<1>12. ASSUME NEW by \in {"worker", "user"}, Installed(by)
       PROVE  SuitableInv'
  BY <1>12 DEF Installed, Fresh, Nobody
<1>13. ASSUME NEW by \in {"worker", "user"}, Corrupt(by)
       PROVE  SuitableInv'
  BY <1>13 DEF Corrupt, Ended
<1>14. ASSUME NEW by \in {"worker", "user"}, Fails(by)
       PROVE  SuitableInv'
  BY <1>14 DEF Fails, FailsIf, Ended, Meanwhile
<1>15. ASSUME NEW by \in {"worker", "user"}, Lost(by)
       PROVE  SuitableInv'
  BY <1>15 DEF Lost, Ended
<1>16. CASE UNCHANGED vars
  BY <1>16 DEF vars
<1> QED
  BY <1>1, <1>2, <1>3, <1>4, <1>5, <1>6, <1>7, <1>8, <1>9, <1>10, <1>11, <1>12, <1>13, <1>14, <1>15, <1>16
  DEF Next, Worker, Outcome

\* For any site, accounts and channels, whatever changes and fails meanwhile, a version the
\* application installs of itself is one it may install, but for the reasons named (Suitable).
THEOREM InstallsSuitable ==
  ASSUME Servers # {}
  PROVE  Spec => []Suitable
<1>1. Init => SuitableInv
  <2>1. PICK s \in Servers : s = CHOOSE t \in Servers : TRUE
    OBVIOUS
  <2>2. <<s>> \in Seq(Servers) /\ << >> \in Seq(Servers)
    BY <2>1
  <2>3. Init => accounts \in Seq(Servers)
    BY <2>1, <2>2 DEF Init
  <2> QED
    BY <2>3 DEF Init, SuitableInv, Suitable, Nobody, Reasoned
<1>2. SuitableInv /\ [Next]_vars => SuitableInv'
  BY SuitableStep
<1>3. SuitableInv => Suitable
  BY DEF SuitableInv
<1> QED
  BY <1>1, <1>2, <1>3, PTL DEF Spec

-----------------------------------------------------------------------------
(* Direct Download.                                                        *)
(*                                                                         *)
(* A record becomes COMPLETED when its batch is finalized, and what the    *)
(* batch archived is then what is on the disk: so the invariant follows a  *)
(* file from its first piece.  The file of a document is always the        *)
(* beginning of it (Part), the task that writes it stands where the file   *)
(* ends (Streams), and it is whole when the task ended without giving the  *)
(* record up, when the batch chose the record, and in its archive          *)
(* (EndsWell).  That holds since no two batches that are not settled share *)
(* a document or a folder (Apart), and no two documents with a folder in   *)
(* common have one title (NamesApart): what breaks it -- a namesake in the *)
(* same request, a record resumed too early, a stop, a sweep, an archive   *)
(* that is not written -- is what the variable spoiled remembers.          *)

Statuses == {"none"} \cup Active \cup Over
Contents == Seq(Nat \X Int) \ {<< <<0, -2>> >>}
Records == [status : Statuses, zip : Int, known : BOOLEAN, got : Contents]
Places == {"queued", "dropped", "gated", "marked", "enriching", "fetch", "stream", "done"}
Tasks == [at : Places, copy : Records, append : BOOLEAN, pos : Nat]
Batches == [folder : Folders, tasks : UNION {[D -> Tasks] : D \in SUBSET Docs},
            step : {"open", "archive", "complete", "closed"}, final : SUBSET Docs,
            archive : [Titles -> Contents] \cup {<< >>}]

\* What may happen to a download, and what keeps Completed from saying anything of a document.
Causes == {"namesake", "again", "stopped", "taken", "unzipped", "swept"}
Spoiled(r) == spoiled[r] \ {"taken"} # {}
\* The file of a document alone, after its first n pieces.
Begun(r, n) == [i \in 1 .. n |-> <<r, i>>]
Settled(r, c) == Whole(c, r) \/ Spoiled(r)
FileOf(b, r) == FileIn(batches[b].folder, r)
Live(b) == batches[b].step # "closed"

\* The state has its types.
DownloadsTypes ==
    /\ rec \in [Docs -> Records]
    /\ disk \in [Folders -> [Titles -> Contents] \cup {Gone}]
    /\ batches \in Seq(Batches)
    /\ asked \subseteq Docs
    /\ delivered \in [Docs -> SUBSET Contents]
    /\ spoiled \in [Docs -> SUBSET Causes]

\* A batch is finalized once, after all of its documents.
Finalized(b) ==
    /\ batches[b].step # "open" => \A r \in DocsOf(b) : At(b, r) = "done"
    /\ batches[b].final \subseteq DocsOf(b)

\* What has a record or a task has been asked for.
Known(b) == DocsOf(b) \subseteq asked
RecordsKnown == \A r \in Docs : Recorded(r) => r \in asked

\* Two batches that are not settled share no document and no folder.
Apart(b, c) ==
    b # c /\ Live(b) /\ Live(c) =>
        \A r \in DocsOf(b) : r \in DocsOf(c) \/ batches[b].folder = batches[c].folder => Spoiled(r)

\* A record, or a copy of it, says that its folder is f, or an unsettled batch
\* streams the document there.
Holds(record, f) == record.status # "none" /\ record.zip \in {f, -f}
Home(f, r) ==
    \/ Holds(rec[r], f)
    \/ \E b \in DOMAIN batches :
          /\ r \in DocsOf(b)
          /\ Holds(TaskOf(b, r).copy, f) \/ (Live(b) /\ batches[b].folder = f)

\* Two documents with a folder in common have titles, and so files, of their own.
NamesApart ==
    \A f \in Nat, r, o \in Docs :
        r # o /\ Title[r] = Title[o] /\ Home(f, r) /\ Home(f, o) => Spoiled(r)

\* A file is the beginning of its document.
Part(f, r) == \/ Spoiled(r)
              \/ FileIn(f, r) = Absent
              \/ \E n \in 0 .. Pieces : FileIn(f, r) = Begun(r, n)

\* The file a task writes ends where the task is.
Streams(b, r) == At(b, r) = "stream" =>
    /\ TaskOf(b, r).pos \in 1 .. Pieces + 1
    /\ FileOf(b, r) = Begun(r, TaskOf(b, r).pos - 1)

\* The file of a task that ended well is whole, and so is its copy in the
\* archive of the batch.
EndsWell(b, r) ==
    /\ batches[b].step = "open" /\ At(b, r) = "done" /\ rec[r].status = "IN_PROGRESS"
        => Whole(FileOf(b, r), r)
    /\ batches[b].step = "archive" /\ r \in batches[b].final => Whole(FileOf(b, r), r)
    /\ batches[b].step = "complete" /\ r \in batches[b].final
        => batches[b].archive # << >> /\ Whole(batches[b].archive[Title[r]], r)

\* A record that says COMPLETED, and what is in "Downloads".
RecordInv(r) == rec[r].status = "COMPLETED" => Settled(r, rec[r].got)
DeliveredInv(r) == \A c \in delivered[r] : Whole(c, r) \/ spoiled[r] # {}

\* A record a task read has what it says, too.
CopyInv(b, r) == TaskOf(b, r).copy.status = "COMPLETED" => Settled(r, TaskOf(b, r).copy.got)

Works(b, r) == Spoiled(r) \/ (Streams(b, r) /\ EndsWell(b, r))

BatchesInv == \A b \in DOMAIN batches : Finalized(b) /\ Known(b)
ApartInv == \A b, c \in DOMAIN batches : Apart(b, c)
PartInv == \A f \in Folders, r \in Docs : Home(f, r) => Part(f, r)
WorksInv == \A b \in DOMAIN batches : \A r \in DocsOf(b) : Works(b, r) /\ CopyInv(b, r)
SettledInv == \A r \in Docs : RecordInv(r) /\ DeliveredInv(r)

DownloadsInv == /\ DownloadsTypes /\ BatchesInv /\ RecordsKnown /\ ApartInv /\ NamesApart
                /\ PartInv /\ WorksInv /\ SettledInv

-----------------------------------------------------------------------------
(* Files                                                                   *)

LEMMA Titled ==
  ASSUME NEW r \in Docs
  PROVE  Title[r] \in Titles /\ r \in Nat /\ Folders \subseteq Nat \ {0}
BY DocsAssumption DEF Titles, DocsAssumption, Folders

LEMMA Pair ==
  ASSUME NEW r \in Docs, NEW n \in Nat
  PROVE  <<r, n>> \in Nat \X Int /\ Hole \in Nat \X Int
BY Titled DEF Hole

LEMMA BegunFile ==
  ASSUME NEW r \in Docs, NEW n \in Nat
  PROVE  /\ Begun(r, n) \in Contents
         /\ Begun(r, n) # Absent
         /\ Len(Begun(r, n)) = n
         /\ Size(Begun(r, n)) = n
<1>1. \A i \in 1 .. n : Begun(r, n)[i] = <<r, i>> /\ <<r, i>> \in Nat \X Int
  BY Pair DEF Begun
<1>2. Begun(r, n) \in Seq(Nat \X Int) /\ Len(Begun(r, n)) = n
  <2>1. Begun(r, n) \in [1 .. n -> Nat \X Int]
    BY <1>1 DEF Begun
  <2> QED BY <2>1
<1>3. ASSUME NEW k \in {-1, -2} PROVE Begun(r, n) # << <<0, k>> >>
  <2>1. SUFFICES ASSUME Begun(r, n) = << <<0, k>> >> PROVE FALSE
    OBVIOUS
  <2>2. Len(Begun(r, n)) = 1 /\ Begun(r, n)[1] = <<0, k>>
    BY <2>1
  <2>3. Begun(r, n)[1] = <<r, 1>>
    BY <1>1, <1>2, <2>2
  <2> QED BY <2>2, <2>3
<1>4. Begun(r, n) # << <<0, -2>> >> /\ Begun(r, n) # Absent
  BY <1>3 DEF Absent
<1> QED BY <1>2, <1>4 DEF Contents, Size

LEMMA WholeFile ==
  ASSUME NEW r \in Docs
  PROVE  /\ \A c : Whole(c, r) <=> c = Begun(r, Pieces)
         /\ \A c : Whole(c, r) => c # Absent
<1>1. \A c : Whole(c, r) <=> c = Begun(r, Pieces)
  BY DEF Whole, Begun
<1> QED BY <1>1, BegunFile, PiecesAssumption DEF PiecesAssumption

\* The next piece, at the end of the file.
LEMMA NextPiece ==
  ASSUME NEW r \in Docs, NEW n \in Nat
  PROVE  /\ Append(Begun(r, n), <<r, n + 1>>) = Begun(r, n + 1)
         /\ PutAt(Begun(r, n), n + 1, <<r, n + 1>>) = Begun(r, n + 1)
<1>1. Len(Begun(r, n)) = n /\ Begun(r, n) \in Seq(Nat \X Int)
  BY BegunFile DEF Contents
<1>2. PICK piece : piece = <<r, n + 1>> /\ piece \in Nat \X Int
  <2>1. n + 1 \in Nat
    OBVIOUS
  <2>2. <<r, n + 1>> \in Nat \X Int
    BY <2>1, Pair
  <2> QED BY <2>2
<1>3. Append(Begun(r, n), piece) = Begun(r, n + 1)
  <2>1. Append(Begun(r, n), piece) = [i \in 1 .. n + 1 |-> IF i = n + 1 THEN piece ELSE Begun(r, n)[i]]
    BY <1>1, <1>2
  <2>2. \A i \in 1 .. n + 1 : (IF i = n + 1 THEN piece ELSE Begun(r, n)[i]) = <<r, i>>
    BY <1>2 DEF Begun
  <2> QED BY <2>1, <2>2 DEF Begun
<1>4. PutAt(Begun(r, n), n + 1, piece) = Begun(r, n + 1)
  <2>1. PutAt(Begun(r, n), n + 1, piece)
          = [i \in 1 .. n + 1 |-> IF i = n + 1 THEN piece ELSE IF i <= n THEN Begun(r, n)[i] ELSE Hole]
    BY <1>1 DEF PutAt
  <2>2. \A i \in 1 .. n + 1 :
          (IF i = n + 1 THEN piece ELSE IF i <= n THEN Begun(r, n)[i] ELSE Hole) = <<r, i>>
    BY <1>2 DEF Begun
  <2> QED BY <2>1, <2>2 DEF Begun
<1> QED BY <1>2, <1>3, <1>4

\* Any file remains a file.
LEMMA PutPiece ==
  ASSUME NEW c \in Contents, NEW r \in Docs, NEW p \in Nat
  PROVE  /\ Append(c, <<r, p>>) \in Contents
         /\ PutAt(c, p, <<r, p>>) \in Contents
<1>1. c \in Seq(Nat \X Int) /\ c # << <<0, -2>> >> /\ Len(c) \in Nat
  BY DEF Contents
<1>2. PICK piece \in Nat \X Int : piece = <<r, p>> /\ piece # <<0, -2>>
  <2>1. <<r, p>> # <<0, -2>>
    BY Titled
  <2> QED BY <2>1, Pair
<1>3. Append(c, piece) \in Contents
  <2>1. Append(c, piece) \in Seq(Nat \X Int) /\ Append(c, piece)[Len(c) + 1] = piece
        /\ Len(Append(c, piece)) = Len(c) + 1
    BY <1>1
  <2>2. Append(c, piece) # << <<0, -2>> >>
    <3> DEFINE d == Append(c, piece)
    <3> HIDE DEF d
    <3>1. SUFFICES ASSUME d = << <<0, -2>> >> PROVE FALSE
      BY DEF d
    <3>2. Len(d) = 1 /\ d[1] = <<0, -2>>
      BY <3>1
    <3>3. Len(c) + 1 = 1 /\ d[Len(c) + 1] = piece
      BY <1>1, <2>1, <3>2 DEF d
    <3> QED BY <1>1, <1>2, <3>2, <3>3
  <2> QED BY <2>1, <2>2 DEF Contents
<1>4. PutAt(c, p, piece) \in Contents
  <2> DEFINE m == IF p > Len(c) THEN p ELSE Len(c)
             d == PutAt(c, p, piece)
  <2>1. m \in Nat /\ d = [i \in 1 .. m |-> IF i = p THEN piece ELSE IF i <= Len(c) THEN c[i] ELSE Hole]
    BY <1>1 DEF PutAt
  <2> HIDE DEF d
  <2>2. \A i \in 1 .. m : d[i] \in Nat \X Int
    <3>1. SUFFICES ASSUME NEW i \in 1 .. m PROVE d[i] \in Nat \X Int
      OBVIOUS
    <3>2. d[i] = piece \/ (i \in 1 .. Len(c) /\ d[i] = c[i]) \/ d[i] = Hole
      BY <1>1, <2>1
    <3>3. i \in 1 .. Len(c) => c[i] \in Nat \X Int
      BY <1>1
    <3> QED BY <1>2, <3>2, <3>3, Pair
  <2> HIDE DEF m
  <2>3. d \in Seq(Nat \X Int) /\ DOMAIN d = 1 .. m /\ Len(d) = m
    <3>1. d \in [1 .. m -> Nat \X Int]
      BY <2>1, <2>2
    <3> QED BY <2>1, <3>1
  <2>4. d # << <<0, -2>> >>
    <3>1. SUFFICES ASSUME d = << <<0, -2>> >> PROVE FALSE
      OBVIOUS
    <3>2. m = 1 /\ d[1] = <<0, -2>>
      BY <2>3, <3>1
    <3>3. p # 1 /\ Len(c) = 1 /\ c[1] = <<0, -2>>
      BY <1>1, <1>2, <2>1, <3>2 DEF Hole, m
    <3>4. c = << <<0, -2>> >>
      BY <1>1, <3>3
    <3> QED BY <1>1, <3>4
  <2> QED BY <2>3, <2>4 DEF Contents, d
<1> QED BY <1>2, <1>3, <1>4

-----------------------------------------------------------------------------
(* Batches                                                                 *)

LEMMA BatchTypes ==
  ASSUME DownloadsTypes, NEW b \in DOMAIN batches
  PROVE  /\ batches[b] \in Batches
         /\ batches[b].folder \in Folders
         /\ DocsOf(b) \subseteq Docs
         /\ batches[b].tasks \in [DocsOf(b) -> Tasks]
         /\ \A r \in DocsOf(b) : TaskOf(b, r) \in Tasks
<1>1. batches[b] \in Batches
  BY DEF DownloadsTypes
<1>2. PICK D \in SUBSET Docs : batches[b].tasks \in [D -> Tasks]
  BY <1>1 DEF Batches
<1>3. D = DocsOf(b)
  BY <1>2 DEF DocsOf
<1> QED BY <1>1, <1>2, <1>3 DEF Batches, TaskOf

\* A task that moves changes nothing else of the batches.
LEMMA TaskMoves ==
  ASSUME DownloadsTypes,
         NEW b0 \in DOMAIN batches, NEW r0 \in DocsOf(b0), NEW t \in Tasks,
         Becomes(b0, r0, t)
  PROVE  /\ batches' \in Seq(Batches)
         /\ DOMAIN batches' = DOMAIN batches
         /\ \A b \in DOMAIN batches :
               /\ batches'[b].folder = batches[b].folder
               /\ batches'[b].step = batches[b].step
               /\ batches'[b].final = batches[b].final
               /\ batches'[b].archive = batches[b].archive
               /\ DocsOf(b)' = DocsOf(b)
               /\ \A r \in DocsOf(b) : b # b0 \/ r # r0 => TaskOf(b, r)' = TaskOf(b, r)
         /\ TaskOf(b0, r0)' = t
<1> DEFINE moved == [batches[b0].tasks EXCEPT ![r0] = t]
           batch == [batches[b0] EXCEPT !.tasks = moved]
<1>1. batches' = [batches EXCEPT ![b0] = batch]
  BY DEF Becomes
<1>2. /\ batches[b0] \in Batches /\ DocsOf(b0) \subseteq Docs
      /\ batches[b0].tasks \in [DocsOf(b0) -> Tasks]
  BY BatchTypes
<1>3. /\ moved \in [DocsOf(b0) -> Tasks] /\ DOMAIN moved = DocsOf(b0)
      /\ moved[r0] = t /\ \A r \in DocsOf(b0) : r # r0 => moved[r] = batches[b0].tasks[r]
  BY <1>2
<1> HIDE DEF moved
<1>4. /\ batch.tasks = moved /\ batch.folder = batches[b0].folder /\ batch.step = batches[b0].step
      /\ batch.final = batches[b0].final /\ batch.archive = batches[b0].archive
  BY <1>2 DEF Batches
<1>5. batch \in Batches
  BY <1>2, <1>3 DEF Batches
<1> HIDE DEF batch
<1>6. batches \in Seq(Batches)
  BY DEF DownloadsTypes
<1>7. batches' \in Seq(Batches) /\ DOMAIN batches' = DOMAIN batches
  BY <1>1, <1>5, <1>6
<1>8. batches'[b0] = batch /\ \A b \in DOMAIN batches : b # b0 => batches'[b] = batches[b]
  BY <1>1, <1>6
<1>9. ASSUME NEW b \in DOMAIN batches
      PROVE  /\ batches'[b].folder = batches[b].folder
             /\ batches'[b].step = batches[b].step
             /\ batches'[b].final = batches[b].final
             /\ batches'[b].archive = batches[b].archive
             /\ DocsOf(b)' = DocsOf(b)
             /\ \A r \in DocsOf(b) : b # b0 \/ r # r0 => TaskOf(b, r)' = TaskOf(b, r)
  <2>1. CASE b = b0
    BY <1>3, <1>4, <1>8, <2>1 DEF DocsOf, TaskOf
  <2>2. CASE b # b0
    BY <1>8, <2>2 DEF DocsOf, TaskOf
  <2> QED BY <2>1, <2>2
<1>10. TaskOf(b0, r0)' = t
  BY <1>3, <1>4, <1>8 DEF TaskOf
<1> QED BY <1>7, <1>9, <1>10

\* What spoiled a document stays.
SpoiledStays == \A r \in Docs : spoiled[r] \subseteq spoiled'[r]

LEMMA StaysSpoiled ==
  ASSUME SpoiledStays, NEW r \in Docs
  PROVE  /\ Spoiled(r) => Spoiled(r)'
         /\ spoiled[r] # {} => spoiled'[r] # {}
         /\ \A c : Settled(r, c) => Settled(r, c)'
<1>1. spoiled[r] \subseteq spoiled'[r]
  BY DEF SpoiledStays
<1>2. Spoiled(r) => Spoiled(r)'
  BY <1>1 DEF Spoiled
<1>3. spoiled[r] # {} => spoiled'[r] # {}
  BY <1>1
<1>4. \A c : Settled(r, c) => Settled(r, c)'
  BY <1>2 DEF Settled, Whole
<1> QED BY <1>2, <1>3, <1>4

\* No document comes to a folder.
HomesStay == \A f \in Nat, r \in Docs : Home(f, r)' => Home(f, r)

LEMMA NamesKept ==
  ASSUME NamesApart, SpoiledStays, HomesStay
  PROVE  NamesApart'
<1>1. SUFFICES ASSUME NEW f \in Nat, NEW r \in Docs, NEW o \in Docs,
                      r # o, Title[r] = Title[o], Home(f, r)', Home(f, o)'
               PROVE  Spoiled(r)'
  BY DEF NamesApart
<1>2. Home(f, r) /\ Home(f, o)
  BY <1>1 DEF HomesStay
<1>3. Spoiled(r)
  BY <1>1, <1>2 DEF NamesApart
<1> QED BY <1>3, StaysSpoiled

\* Batches that stay where they are, and records that do.
LEMMA HomesKept ==
  ASSUME DOMAIN batches' = DOMAIN batches,
         \A b \in DOMAIN batches :
            /\ DocsOf(b)' = DocsOf(b) /\ batches'[b].folder = batches[b].folder
            /\ Live(b)' => Live(b)
            /\ \A r \in DocsOf(b), f \in Nat : Holds(TaskOf(b, r)'.copy, f) => Home(f, r),
         \A r \in Docs, f \in Nat : Holds(rec'[r], f) => Home(f, r)
  PROVE  HomesStay
<1>1. SUFFICES ASSUME NEW f \in Nat, NEW r \in Docs, Home(f, r)' PROVE Home(f, r)
  BY DEF HomesStay
<1>2. CASE Holds(rec'[r], f)
  BY <1>2
<1>3. CASE ~Holds(rec'[r], f)
  <2>1. PICK b \in DOMAIN batches :
          /\ r \in DocsOf(b)'
          /\ Holds(TaskOf(b, r)'.copy, f) \/ (Live(b)' /\ batches'[b].folder = f)
    BY <1>1, <1>3 DEF Home, Holds
  <2>2. r \in DocsOf(b)
    BY <2>1
  <2>3. CASE Holds(TaskOf(b, r)'.copy, f)
    BY <2>2, <2>3
  <2>4. CASE Live(b)' /\ batches'[b].folder = f
    BY <2>2, <2>4 DEF Home
  <2> QED BY <2>1, <2>3, <2>4
<1> QED BY <1>2, <1>3

\* A batch that is not settled is at home in its folder, and so is what a task read.
LEMMA AtHome ==
  ASSUME NEW b \in DOMAIN batches, NEW r \in DocsOf(b)
  PROVE  /\ Live(b) => Home(batches[b].folder, r)
         /\ \A f : Holds(TaskOf(b, r).copy, f) => Home(f, r)
BY DEF Home

\* The step of a task: it touches its own record and its own file.
TaskSteps(b0, r0, t) ==
    /\ Becomes(b0, r0, t)
    /\ rec' \in [Docs -> Records]
    /\ \A r \in Docs : r # r0 => rec'[r] = rec[r]
    /\ \A f \in Nat : Holds(rec'[r0], f) \/ Holds(t.copy, f)
                        => Holds(rec[r0], f) \/ Holds(TaskOf(b0, r0).copy, f)
    /\ disk' \in [Folders -> [Titles -> Contents] \cup {Gone}]
    /\ \A f \in Folders, r \in Docs :
          f # batches[b0].folder \/ Title[r] # Title[r0] => FileIn(f, r)' = FileIn(f, r)
    /\ spoiled' \in [Docs -> SUBSET Causes]
    /\ asked' = asked /\ delivered' = delivered

LEMMA TaskFrame ==
  ASSUME DownloadsInv, SpoiledStays,
         NEW b0 \in DOMAIN batches, NEW r0 \in DocsOf(b0), NEW t \in Tasks,
         At(b0, r0) # "done",
         TaskSteps(b0, r0, t),
         Part(batches[b0].folder, r0)',
         Works(b0, r0)', CopyInv(b0, r0)',
         RecordInv(r0)'
  PROVE  DownloadsInv'
<1> USE DEF DownloadsInv
<1>1. /\ batches' \in Seq(Batches)
      /\ DOMAIN batches' = DOMAIN batches
      /\ \A b \in DOMAIN batches :
            /\ batches'[b].folder = batches[b].folder
            /\ batches'[b].step = batches[b].step
            /\ batches'[b].final = batches[b].final
            /\ batches'[b].archive = batches[b].archive
            /\ DocsOf(b)' = DocsOf(b)
            /\ \A r \in DocsOf(b) : b # b0 \/ r # r0 => TaskOf(b, r)' = TaskOf(b, r)
      /\ TaskOf(b0, r0)' = t
  BY TaskMoves DEF TaskSteps
<1>2. DownloadsTypes'
  BY <1>1 DEF DownloadsTypes, TaskSteps
<1>3. r0 \in Docs /\ batches[b0].step = "open" /\ r0 \in asked
  BY BatchTypes DEF BatchesInv, Finalized, Known
<1>4. BatchesInv'
  <2>1. SUFFICES ASSUME NEW b \in DOMAIN batches
                 PROVE  Finalized(b)' /\ Known(b)'
    BY <1>1 DEF BatchesInv
  <2>2. Finalized(b) /\ Known(b)
    BY DEF BatchesInv
  <2>3. Known(b)'
    BY <1>1, <2>2 DEF Known, TaskSteps
  <2>4. Finalized(b)'
    BY <1>1, <1>3, <2>2 DEF Finalized, At
  <2> QED BY <2>3, <2>4
<1>5. RecordsKnown'
  BY <1>3 DEF RecordsKnown, TaskSteps, Recorded
<1>6. ApartInv'
  <2>1. SUFFICES ASSUME NEW b \in DOMAIN batches, NEW c \in DOMAIN batches
                 PROVE  Apart(b, c)'
    BY <1>1 DEF ApartInv
  <2>2. Apart(b, c) /\ DocsOf(b) \subseteq Docs
    BY BatchTypes DEF ApartInv
  <2>3. \A r \in DocsOf(b) : Spoiled(r) => Spoiled(r)'
    BY <2>2, StaysSpoiled
  <2> QED BY <1>1, <2>2, <2>3 DEF Apart, Live
<1>70. HomesStay
  <2>1. ASSUME NEW r \in Docs, NEW f \in Nat, Holds(rec'[r], f) PROVE Home(f, r)
    <3>1. CASE r = r0
      BY <2>1, <3>1, AtHome DEF TaskSteps, Home
    <3>2. CASE r # r0
      BY <2>1, <3>2 DEF TaskSteps, Home
    <3> QED BY <3>1, <3>2
  <2>2. ASSUME NEW b \in DOMAIN batches, NEW r \in DocsOf(b), NEW f \in Nat,
               Holds(TaskOf(b, r)'.copy, f)
        PROVE  Home(f, r)
    <3>1. CASE b = b0 /\ r = r0
      <4>1. Holds(t.copy, f)
        BY <1>1, <2>2, <3>1
      <4>2. Holds(rec[r0], f) \/ Holds(TaskOf(b0, r0).copy, f)
        BY <4>1 DEF TaskSteps
      <4> QED BY <3>1, <4>2, AtHome DEF Home
    <3>2. CASE ~(b = b0 /\ r = r0)
      <4>1. TaskOf(b, r)' = TaskOf(b, r)
        BY <1>1, <3>2
      <4> QED BY <2>2, <4>1, AtHome
    <3> QED BY <3>1, <3>2
  <2>3. \A b \in DOMAIN batches : Live(b)' => Live(b)
    BY <1>1 DEF Live
  <2> QED BY <1>1, <2>1, <2>2, <2>3, HomesKept
<1>71. NamesApart'
  BY <1>70, NamesKept
<1>72. ASSUME NEW r \in Docs, r # r0, Title[r] = Title[r0], Home(batches[b0].folder, r)
       PROVE  Spoiled(r)
  <2>1. Home(batches[b0].folder, r0) /\ batches[b0].folder \in Nat
    BY <1>3, AtHome, BatchTypes, Titled DEF Live
  <2> QED BY <1>3, <1>72, <2>1 DEF NamesApart
<1>7. PartInv'
  <2>1. SUFFICES ASSUME NEW f \in Folders, NEW r \in Docs, Home(f, r)'
                 PROVE  Part(f, r)'
    BY DEF PartInv
  <2>2. Home(f, r) /\ Part(f, r) /\ (Spoiled(r) => Spoiled(r)')
    BY <1>70, <2>1, StaysSpoiled, Titled DEF PartInv, HomesStay
  <2>3. CASE f = batches[b0].folder /\ r = r0
    BY <1>1, <2>3
  <2>4. CASE f = batches[b0].folder /\ r # r0 /\ Title[r] = Title[r0]
    BY <1>72, <2>2, <2>4 DEF Part
  <2>5. CASE f # batches[b0].folder \/ Title[r] # Title[r0]
    BY <2>2, <2>5 DEF Part, TaskSteps, Begun
  <2> QED BY <2>3, <2>4, <2>5
<1>8. WorksInv'
  <2>1. SUFFICES ASSUME NEW b \in DOMAIN batches, NEW r \in DocsOf(b), b # b0 \/ r # r0
                 PROVE  Works(b, r)' /\ CopyInv(b, r)'
    BY <1>1 DEF WorksInv
  <2>2. Works(b, r) /\ CopyInv(b, r) /\ r \in Docs
    BY BatchTypes DEF WorksInv
  <2>3. TaskOf(b, r)' = TaskOf(b, r)
    BY <1>1, <2>1
  <2>4. CopyInv(b, r)'
    BY <2>2, <2>3, StaysSpoiled DEF CopyInv
  <2>5. Works(b, r)'
    <3>1. CASE Spoiled(r)
      BY <2>2, <3>1, StaysSpoiled DEF Works
    <3>2. CASE ~Spoiled(r) /\ r # r0 /\ Live(b)
      <4>1. PICK f \in Folders : f = batches[b].folder
        BY BatchTypes
      <4>11. f # batches[b0].folder \/ Title[r] # Title[r0]
        BY <1>72, <2>2, <3>2, <4>1, AtHome
      <4>2. batches'[b].folder = f /\ FileIn(f, r)' = FileIn(f, r) /\ rec'[r] = rec[r]
        BY <1>1, <2>2, <3>2, <4>1, <4>11 DEF TaskSteps
      <4>3. FileOf(b, r)' = FileOf(b, r) /\ rec'[r] = rec[r]
        BY <4>1, <4>2 DEF FileOf, FileIn
      <4>4. Streams(b, r) /\ EndsWell(b, r)
        BY <2>2, <3>2 DEF Works
      <4>5. Streams(b, r)'
        BY <2>3, <4>3, <4>4 DEF Streams, At, Begun
      <4>6. EndsWell(b, r)'
        BY <1>1, <2>3, <4>3, <4>4 DEF EndsWell, At, Whole
      <4> QED BY <4>5, <4>6 DEF Works
    <3>3. CASE ~Spoiled(r) /\ (r = r0 \/ ~Live(b))
      <4>1. batches[b].step = "closed"
        BY <1>3, <2>1, <3>3 DEF ApartInv, Apart, Live
      <4>2. At(b, r) = "done"
        BY <4>1 DEF BatchesInv, Finalized
      <4>3. At(b, r)' = "done" /\ batches'[b].step = "closed"
        BY <1>1, <2>3, <4>1, <4>2 DEF At
      <4> QED BY <4>3 DEF Works, Streams, EndsWell
    <3> QED BY <3>1, <3>2, <3>3
  <2> QED BY <2>4, <2>5
<1>9. SettledInv'
  <2>1. SUFFICES ASSUME NEW r \in Docs PROVE RecordInv(r)' /\ DeliveredInv(r)'
    BY DEF SettledInv
  <2>2. RecordInv(r) /\ DeliveredInv(r)
    BY DEF SettledInv
  <2>3. DeliveredInv(r)'
    BY <2>2, StaysSpoiled DEF DeliveredInv, TaskSteps, Whole
  <2>4. CASE r = r0
    BY <2>3, <2>4
  <2>5. CASE r # r0
    <3>1. rec'[r] = rec[r]
      BY <2>5 DEF TaskSteps
    <3>2. RecordInv(r)'
      BY <2>2, <3>1, StaysSpoiled DEF RecordInv
    <3> QED BY <2>3, <3>2
  <2> QED BY <2>4, <2>5
<1> QED BY <1>2, <1>4, <1>5, <1>6, <1>71, <1>7, <1>8, <1>9

\* The same, in terms of the file and the task.
LEMMA TaskKeeps ==
  ASSUME DownloadsInv, SpoiledStays,
         NEW b0 \in DOMAIN batches, NEW r0 \in DocsOf(b0), NEW t \in Tasks,
         NEW f0 \in Folders, f0 = batches[b0].folder,
         At(b0, r0) # "done",
         TaskSteps(b0, r0, t),
         Part(f0, r0)',
         t.at = "stream" => \/ Spoiled(r0)'
                            \/ t.pos \in 1 .. Pieces + 1 /\ FileIn(f0, r0)' = Begun(r0, t.pos - 1),
         t.at = "done" /\ rec'[r0].status = "IN_PROGRESS" => Spoiled(r0)' \/ Whole(FileIn(f0, r0)', r0),
         t.copy.status = "COMPLETED" => Settled(r0, t.copy.got)',
         RecordInv(r0)'
  PROVE  DownloadsInv'
<1>1. DownloadsTypes /\ batches[b0].step = "open"
  BY DEF DownloadsInv, BatchesInv, Finalized
<1>2. TaskOf(b0, r0)' = t /\ batches'[b0].folder = f0 /\ batches'[b0].step = "open"
  BY <1>1, TaskMoves DEF TaskSteps
<1>3. Part(batches[b0].folder, r0)'
  BY <1>2
<1>4. FileOf(b0, r0)' = FileIn(f0, r0)'
  BY <1>2 DEF FileOf, FileIn
<1>5. Works(b0, r0)'
  <2>1. CASE Spoiled(r0)'
    BY <2>1 DEF Works
  <2>2. CASE ~Spoiled(r0)'
    <3>1. Streams(b0, r0)'
      BY <1>2, <1>4, <2>2 DEF Streams, At, Begun
    <3>2. EndsWell(b0, r0)'
      BY <1>2, <1>4, <2>2 DEF EndsWell, At, Whole
    <3> QED BY <3>1, <3>2 DEF Works
  <2> QED BY <2>1, <2>2
<1>6. CopyInv(b0, r0)'
  BY <1>2 DEF CopyInv, Settled, Whole
<1> QED BY <1>3, <1>5, <1>6, TaskFrame

\* What the task knows of its own document before the step.
LEMMA TaskBefore ==
  ASSUME DownloadsInv, NEW b \in DOMAIN batches, NEW r \in DocsOf(b)
  PROVE  /\ r \in Docs /\ rec[r] \in Records /\ TaskOf(b, r) \in Tasks
         /\ batches[b].folder \in Folders
         /\ At(b, r) # "done" => Part(batches[b].folder, r)
         /\ Works(b, r) /\ CopyInv(b, r) /\ RecordInv(r)
<1>1. DownloadsTypes
  BY DEF DownloadsInv
<1>2. r \in Docs /\ TaskOf(b, r) \in Tasks /\ batches[b].folder \in Folders
  BY <1>1, BatchTypes
<1>3. At(b, r) # "done" => Home(batches[b].folder, r)
  BY AtHome DEF DownloadsInv, BatchesInv, Finalized, Live
<1> QED BY <1>1, <1>2, <1>3 DEF DownloadsInv, DownloadsTypes, PartInv, WorksInv, SettledInv

\* The record after its status is set.
LEMMA StatusSet ==
  ASSUME DownloadsTypes, NEW r \in Docs, NEW s \in Statuses \ {"COMPLETED"},
         rec' = WithStatus(rec, r, s), SpoiledStays
  PROVE  /\ rec' \in [Docs -> Records]
         /\ \A o \in Docs : o # r => rec'[o] = rec[o]
         /\ rec'[r].status \in {s, "none"}
         /\ RecordInv(r) => RecordInv(r)'
         /\ \A f : Holds(rec'[r], f) => Holds(rec[r], f)
<1> DEFINE new == [rec[r] EXCEPT !.status = s]
<1>1. rec \in [Docs -> Records] /\ rec[r] \in Records
  BY DEF DownloadsTypes
<1>2. new \in Records /\ new.status = s /\ new.zip = rec[r].zip
  BY <1>1 DEF Records
<1> HIDE DEF new
<1>3. CASE rec[r].status = "none"
  BY <1>1, <1>3, StaysSpoiled DEF WithStatus, RecordInv
<1>4. CASE rec[r].status # "none"
  <2>1. rec' = [rec EXCEPT ![r] = new]
    BY <1>4 DEF WithStatus, new
  <2>2. rec' \in [Docs -> Records] /\ rec'[r] = new /\ \A o \in Docs : o # r => rec'[o] = rec[o]
    BY <1>1, <1>2, <2>1
  <2>3. RecordInv(r)'
    BY <1>2, <2>2 DEF RecordInv
  <2>4. \A f : Holds(rec'[r], f) => Holds(rec[r], f)
    BY <1>2, <1>4, <2>2 DEF Holds
  <2> QED BY <1>2, <2>2, <2>3, <2>4
<1> QED BY <1>3, <1>4

LEMMA SpoiledKept ==
  ASSUME DownloadsTypes, spoiled' = spoiled
  PROVE  /\ SpoiledStays
         /\ spoiled' \in [Docs -> SUBSET Causes]
         /\ \A r : Spoiled(r)' <=> Spoiled(r)
         /\ \A r, c : Settled(r, c)' <=> Settled(r, c)
BY DEF DownloadsTypes, SpoiledStays, Spoiled, Settled, Whole

\* A step that leaves the files alone.
LEMMA PlainKeeps ==
  ASSUME DownloadsInv,
         NEW b0 \in DOMAIN batches, NEW r0 \in DocsOf(b0), NEW t \in Tasks,
         At(b0, r0) # "done", Becomes(b0, r0, t),
         rec' \in [Docs -> Records], \A o \in Docs : o # r0 => rec'[o] = rec[o],
         RecordInv(r0)',
         \A f : Holds(rec'[r0], f) => Holds(rec[r0], f) \/ Holds(TaskOf(b0, r0).copy, f),
         \A f : Holds(t.copy, f) => Holds(rec[r0], f) \/ Holds(TaskOf(b0, r0).copy, f),
         UNCHANGED <<disk, spoiled, asked, delivered>>,
         t.at # "stream",
         t.at = "done" /\ rec'[r0].status = "IN_PROGRESS" => Spoiled(r0) \/ Whole(FileOf(b0, r0), r0),
         t.copy.status = "COMPLETED" => Settled(r0, t.copy.got)
  PROVE  DownloadsInv'
<1>1. DownloadsTypes
  BY DEF DownloadsInv
<1>2. /\ SpoiledStays
      /\ spoiled' \in [Docs -> SUBSET Causes]
      /\ \A r : Spoiled(r)' <=> Spoiled(r)
      /\ \A r, c : Settled(r, c)' <=> Settled(r, c)
  BY <1>1, SpoiledKept
<1>3. PICK f0 \in Folders : f0 = batches[b0].folder /\ Part(f0, r0)
  BY TaskBefore
<1>4. r0 \in Docs /\ \A f, r : FileIn(f, r)' = FileIn(f, r)
  BY TaskBefore DEF FileIn
<1>5. TaskSteps(b0, r0, t)
  BY <1>1, <1>2, <1>4 DEF TaskSteps, DownloadsTypes
<1>6. Part(f0, r0)'
  BY <1>2, <1>3, <1>4 DEF Part, Begun
<1>7. t.at = "done" /\ rec'[r0].status = "IN_PROGRESS" => Spoiled(r0)' \/ Whole(FileIn(f0, r0)', r0)
  BY <1>2, <1>3, <1>4 DEF FileOf
<1>8. t.copy.status = "COMPLETED" => Settled(r0, t.copy.got)'
  BY <1>2
<1> QED BY <1>2, <1>3, <1>5, <1>6, <1>7, <1>8, TaskKeeps

LEMMA GoesTo ==
  ASSUME DownloadsInv, NEW b \in DOMAIN batches, NEW r \in DocsOf(b), NEW p \in Places
  PROVE  LET t == [TaskOf(b, r) EXCEPT !.at = p]
         IN  /\ t \in Tasks /\ t.at = p
             /\ t.copy.status = "COMPLETED" => Settled(r, t.copy.got)
             /\ t.copy = TaskOf(b, r).copy
<1>1. TaskOf(b, r) \in Tasks /\ CopyInv(b, r)
  BY TaskBefore
<1> QED BY <1>1 DEF Tasks, CopyInv

LEMMA RecordKept ==
  ASSUME DownloadsInv, rec' = rec, spoiled' = spoiled, NEW r \in Docs
  PROVE  rec' \in [Docs -> Records] /\ RecordInv(r)'
<1>1. DownloadsTypes /\ RecordInv(r)
  BY DEF DownloadsInv, SettledInv
<1> QED BY <1>1, SpoiledKept DEF DownloadsTypes, RecordInv

LEMMA BeginKeeps ==
  ASSUME DownloadsInv, NEW b \in DOMAIN batches, NEW r \in DocsOf(b), Begin(b, r)
  PROVE  DownloadsInv'
<1>1. PICK p \in {"done", "gated"} :
        /\ Goto(b, r, p) /\ (p = "done" => rec[r].status # "IN_PROGRESS")
        /\ At(b, r) = "queued" /\ rec' = rec /\ UNCHANGED <<disk, spoiled, asked, delivered>>
  BY DEF Begin, Task
<1>2. p \in Places /\ r \in Docs
  BY TaskBefore DEF Places
<1>3. PICK t : t = [TaskOf(b, r) EXCEPT !.at = p]
  OBVIOUS
<1>4. /\ t \in Tasks /\ t.at = p /\ Becomes(b, r, t)
      /\ t.copy.status = "COMPLETED" => Settled(r, t.copy.got)
      /\ t.copy = TaskOf(b, r).copy
  BY <1>1, <1>2, <1>3, GoesTo DEF Goto
<1>5. rec' \in [Docs -> Records] /\ RecordInv(r)'
  BY <1>1, <1>2, RecordKept
<1> QED BY <1>1, <1>4, <1>5, PlainKeeps

LEMMA MarkKeeps ==
  ASSUME DownloadsInv, NEW b \in DOMAIN batches, NEW r \in DocsOf(b), MarkInProgress(b, r)
  PROVE  DownloadsInv'
<1>1. /\ Goto(b, r, "marked") /\ rec' = WithStatus(rec, r, "IN_PROGRESS")
      /\ At(b, r) = "gated" /\ UNCHANGED <<disk, spoiled, asked, delivered>>
  BY DEF MarkInProgress, Task
<1>2. DownloadsTypes /\ r \in Docs /\ RecordInv(r) /\ "marked" \in Places
  BY TaskBefore DEF DownloadsInv, Places
<1>3. PICK t : t = [TaskOf(b, r) EXCEPT !.at = "marked"]
  OBVIOUS
<1>4. /\ t \in Tasks /\ t.at = "marked" /\ Becomes(b, r, t)
      /\ t.copy.status = "COMPLETED" => Settled(r, t.copy.got)
      /\ t.copy = TaskOf(b, r).copy
  BY <1>1, <1>2, <1>3, GoesTo DEF Goto
<1>5. SpoiledStays /\ "IN_PROGRESS" \in Statuses \ {"COMPLETED"}
  BY <1>1, <1>2, SpoiledKept DEF Statuses, Active
<1>6. /\ rec' \in [Docs -> Records] /\ RecordInv(r)' /\ \A o \in Docs : o # r => rec'[o] = rec[o]
      /\ \A f : Holds(rec'[r], f) => Holds(rec[r], f)
  BY <1>1, <1>2, <1>5, StatusSet
<1> QED BY <1>1, <1>4, <1>6, PlainKeeps

LEMMA EnrichReadKeeps ==
  ASSUME DownloadsInv, NEW b \in DOMAIN batches, NEW r \in DocsOf(b), EnrichRead(b, r)
  PROVE  DownloadsInv'
<1>1. /\ At(b, r) = "marked" /\ rec' = rec /\ UNCHANGED <<disk, spoiled, asked, delivered>>
      /\ \/ Becomes(b, r, [TaskOf(b, r) EXCEPT !.at = "enriching", !.copy = rec[r]])
         \/ Goto(b, r, "fetch")
  BY DEF EnrichRead, Task
<1>2. /\ r \in Docs /\ {"fetch", "enriching"} \subseteq Places
      /\ TaskOf(b, r) \in Tasks /\ rec[r] \in Records /\ RecordInv(r)
  BY TaskBefore DEF Places
<1>3. \E t \in Tasks : /\ Becomes(b, r, t) /\ t.at # "stream" /\ t.at # "done"
                       /\ t.copy.status = "COMPLETED" => Settled(r, t.copy.got)
                       /\ \A f : Holds(t.copy, f) => Holds(rec[r], f) \/ Holds(TaskOf(b, r).copy, f)
  <2>1. CASE Goto(b, r, "fetch")
    <3>1. PICK t : t = [TaskOf(b, r) EXCEPT !.at = "fetch"]
      OBVIOUS
    <3>2. t \in Tasks /\ t.at = "fetch" /\ Becomes(b, r, t)
      BY <1>2, <2>1, <3>1 DEF Goto, Tasks
    <3>3. /\ t.copy.status = "COMPLETED" => Settled(r, t.copy.got)
          /\ t.copy = TaskOf(b, r).copy
      BY <1>2, <3>1, GoesTo
    <3> QED BY <3>2, <3>3
  <2>2. CASE Becomes(b, r, [TaskOf(b, r) EXCEPT !.at = "enriching", !.copy = rec[r]])
    <3>1. PICK t : t = [TaskOf(b, r) EXCEPT !.at = "enriching", !.copy = rec[r]]
      OBVIOUS
    <3>2. t \in Tasks /\ t.at = "enriching" /\ t.copy = rec[r] /\ Becomes(b, r, t)
      BY <1>2, <2>2, <3>1 DEF Tasks
    <3>3. t.copy.status = "COMPLETED" => Settled(r, t.copy.got)
      BY <1>2, <3>2 DEF RecordInv
    <3> QED BY <3>2, <3>3
  <2> QED BY <1>1, <2>1, <2>2
<1>4. rec' \in [Docs -> Records] /\ RecordInv(r)'
  BY <1>1, <1>2, RecordKept
<1> QED BY <1>1, <1>3, <1>4, PlainKeeps

\* The task whose copy of the record is dropped.
LEMMA CopyDropped ==
  ASSUME DownloadsInv, NEW b \in DOMAIN batches, NEW r \in DocsOf(b)
  PROVE  LET t == [TaskOf(b, r) EXCEPT !.at = "fetch", !.copy = NoRecord]
         IN  /\ t \in Tasks /\ t.at = "fetch"
             /\ t.copy.status = "COMPLETED" => Settled(r, t.copy.got)
             /\ \A f : ~Holds(t.copy, f)
<1>1. TaskOf(b, r) \in Tasks
  BY TaskBefore
<1>2. Absent \in Contents
  BY DEF Contents, Absent
<1>3. NoRecord \in Records /\ NoRecord.status = "none"
  BY <1>2 DEF NoRecord, Records, Statuses
<1> QED BY <1>1, <1>3 DEF Tasks, Places, Holds

LEMMA EnrichWriteKeeps ==
  ASSUME DownloadsInv, NEW b \in DOMAIN batches, NEW r \in DocsOf(b), EnrichWrite(b, r)
  PROVE  DownloadsInv'
<1>1. /\ At(b, r) = "enriching" /\ UNCHANGED <<disk, spoiled, asked, delivered>>
      /\ Becomes(b, r, [TaskOf(b, r) EXCEPT !.at = "fetch", !.copy = NoRecord])
      /\ rec' = WithRecord(rec, r, [TaskOf(b, r).copy EXCEPT !.known = TRUE])
  BY DEF EnrichWrite, Task
<1>2. PICK t : t = [TaskOf(b, r) EXCEPT !.at = "fetch", !.copy = NoRecord]
  OBVIOUS
<1>3. /\ t \in Tasks /\ t.at = "fetch" /\ Becomes(b, r, t)
      /\ t.copy.status = "COMPLETED" => Settled(r, t.copy.got)
      /\ \A f : ~Holds(t.copy, f)
  BY <1>1, <1>2, CopyDropped
<1>4. /\ DownloadsTypes /\ r \in Docs /\ rec[r] \in Records
      /\ TaskOf(b, r) \in Tasks /\ CopyInv(b, r) /\ RecordInv(r)
  BY TaskBefore DEF DownloadsInv
<1>5. PICK new : new = [TaskOf(b, r).copy EXCEPT !.known = TRUE]
  OBVIOUS
<1>6. /\ new \in Records /\ new.status = TaskOf(b, r).copy.status
      /\ new.got = TaskOf(b, r).copy.got /\ new.zip = TaskOf(b, r).copy.zip
  BY <1>4, <1>5 DEF Tasks, Records
<1>7. /\ rec' \in [Docs -> Records] /\ \A o \in Docs : o # r => rec'[o] = rec[o]
      /\ rec'[r] = rec[r] \/ rec'[r] = new
  BY <1>1, <1>4, <1>5, <1>6 DEF WithRecord, DownloadsTypes
<1>8. RecordInv(r)'
  <2>1. \A c : Settled(r, c)' <=> Settled(r, c)
    BY <1>1, <1>4, SpoiledKept
  <2> QED BY <1>4, <1>6, <1>7, <2>1 DEF RecordInv, CopyInv
<1>9. \A f : Holds(rec'[r], f) => Holds(rec[r], f) \/ Holds(TaskOf(b, r).copy, f)
  BY <1>6, <1>7 DEF Holds
<1> QED BY <1>1, <1>3, <1>7, <1>8, <1>9, PlainKeeps

LEMMA EnrichFailsKeeps ==
  ASSUME DownloadsInv, NEW b \in DOMAIN batches, NEW r \in DocsOf(b), EnrichFails(b, r)
  PROVE  DownloadsInv'
<1>1. /\ At(b, r) = "enriching" /\ rec' = rec /\ UNCHANGED <<disk, spoiled, asked, delivered>>
      /\ Becomes(b, r, [TaskOf(b, r) EXCEPT !.at = "fetch", !.copy = NoRecord])
  BY DEF EnrichFails, Task
<1>2. PICK t : t = [TaskOf(b, r) EXCEPT !.at = "fetch", !.copy = NoRecord]
  OBVIOUS
<1>3. /\ t \in Tasks /\ t.at = "fetch" /\ Becomes(b, r, t)
      /\ t.copy.status = "COMPLETED" => Settled(r, t.copy.got)
      /\ \A f : ~Holds(t.copy, f)
  BY <1>1, <1>2, CopyDropped
<1>4. r \in Docs
  BY TaskBefore
<1>5. rec' \in [Docs -> Records] /\ RecordInv(r)'
  BY <1>1, <1>4, RecordKept
<1> QED BY <1>1, <1>3, <1>5, PlainKeeps

LEMMA RequestFailsKeeps ==
  ASSUME DownloadsInv, NEW b \in DOMAIN batches, NEW r \in DocsOf(b), RequestFails(b, r)
  PROVE  DownloadsInv'
<1>1. /\ Goto(b, r, "done") /\ rec' = WithStatus(rec, r, "FAILED")
      /\ At(b, r) # "done" /\ UNCHANGED <<disk, spoiled, asked, delivered>>
  BY DEF RequestFails, Ends, Task
<1>2. DownloadsTypes /\ r \in Docs /\ RecordInv(r) /\ "done" \in Places
  BY TaskBefore DEF DownloadsInv, Places
<1>3. PICK t : t = [TaskOf(b, r) EXCEPT !.at = "done"]
  OBVIOUS
<1>4. /\ t \in Tasks /\ t.at = "done" /\ Becomes(b, r, t)
      /\ t.copy.status = "COMPLETED" => Settled(r, t.copy.got)
      /\ t.copy = TaskOf(b, r).copy
  BY <1>1, <1>2, <1>3, GoesTo DEF Goto
<1>5. SpoiledStays /\ "FAILED" \in Statuses \ {"COMPLETED"}
  BY <1>1, <1>2, SpoiledKept DEF Statuses, Over
<1>6. /\ rec' \in [Docs -> Records] /\ RecordInv(r)' /\ \A o \in Docs : o # r => rec'[o] = rec[o]
      /\ rec'[r].status # "IN_PROGRESS" /\ \A f : Holds(rec'[r], f) => Holds(rec[r], f)
  BY <1>1, <1>2, <1>5, StatusSet
<1> QED BY <1>1, <1>4, <1>6, PlainKeeps

LEMMA SkipKeeps ==
  ASSUME DownloadsInv, NEW b \in DOMAIN batches, NEW r \in DocsOf(b), Skip(b, r)
  PROVE  DownloadsInv'
<1>1. /\ Goto(b, r, "done") /\ rec' = rec /\ IsComplete(b, r)
      /\ At(b, r) = "fetch" /\ UNCHANGED <<disk, spoiled, asked, delivered>>
  BY DEF Skip, Ends, Task
<1>2. r \in Docs /\ RecordInv(r) /\ "done" \in Places /\ Part(batches[b].folder, r)
  BY <1>1, TaskBefore DEF Places
<1>3. PICK t : t = [TaskOf(b, r) EXCEPT !.at = "done"]
  OBVIOUS
<1>4. /\ t \in Tasks /\ t.at = "done" /\ Becomes(b, r, t)
      /\ t.copy.status = "COMPLETED" => Settled(r, t.copy.got)
      /\ t.copy = TaskOf(b, r).copy
  BY <1>1, <1>2, <1>3, GoesTo DEF Goto
<1>5. rec' \in [Docs -> Records] /\ RecordInv(r)'
  BY <1>1, <1>2, RecordKept
<1>6. Spoiled(r) \/ Whole(FileOf(b, r), r)
  <2>1. SUFFICES ASSUME ~Spoiled(r) PROVE Whole(FileOf(b, r), r)
    OBVIOUS
  <2>2. Size(FileOf(b, r)) >= Pieces /\ Pieces \in Nat /\ Pieces # 0
    BY <1>1, PiecesAssumption DEF IsComplete, FileOf, PiecesAssumption
  <2>3. FileOf(b, r) # Absent
    BY <2>2 DEF Size
  <2>4. PICK n \in 0 .. Pieces : FileOf(b, r) = Begun(r, n)
    BY <1>2, <2>1, <2>3 DEF Part, FileOf
  <2>5. n \in Nat /\ Size(Begun(r, n)) = n
    BY <1>2, <2>2, BegunFile
  <2>6. n = Pieces
    BY <2>2, <2>4, <2>5
  <2> QED BY <1>2, <2>4, <2>6, WholeFile
<1> QED BY <1>1, <1>4, <1>5, <1>6, PlainKeeps

\* The folder of a batch, once it is there, stays when a file is written.
LEMMA FileWritten ==
  ASSUME DownloadsTypes, NEW f0 \in Folders, NEW r0 \in Docs, NEW c \in Contents,
         disk[f0] # Gone, disk' = [disk EXCEPT ![f0][Title[r0]] = c]
  PROVE  /\ disk' \in [Folders -> [Titles -> Contents] \cup {Gone}]
         /\ \A f \in Folders, r \in Docs :
               f # f0 \/ Title[r] # Title[r0] => FileIn(f, r)' = FileIn(f, r)
         /\ FileIn(f0, r0)' = c
<1>1. PICK name \in Titles : name = Title[r0]
  BY Titled
<1> DEFINE files == [disk[f0] EXCEPT ![name] = c]
<1>2. disk \in [Folders -> [Titles -> Contents] \cup {Gone}] /\ disk[f0] \in [Titles -> Contents]
  BY DEF DownloadsTypes
<1>3. /\ files \in [Titles -> Contents] /\ files[name] = c
      /\ \A other \in Titles : other # name => files[other] = disk[f0][other]
  BY <1>2
<1>4. disk' = [disk EXCEPT ![f0] = files]
  BY <1>1
<1> HIDE DEF files
<1>5. disk'[f0] = files /\ \A f \in Folders : f # f0 => disk'[f] = disk[f]
  BY <1>2, <1>4
<1>6. disk' \in [Folders -> [Titles -> Contents] \cup {Gone}]
  BY <1>2, <1>3, <1>4
<1>7. files # Gone
  <2>1. Gone[name] = << <<0, -2>> >> /\ files[name] # << <<0, -2>> >>
    BY <1>3 DEF Gone, Contents
  <2> QED BY <2>1
<1>8. FileIn(f0, r0)' = c
  BY <1>1, <1>3, <1>5, <1>7 DEF FileIn, Gone, Titles
<1>9. ASSUME NEW f \in Folders, NEW r \in Docs, f # f0 \/ Title[r] # Title[r0]
      PROVE  FileIn(f, r)' = FileIn(f, r)
  <2>1. CASE f = f0
    <3>1. files[Title[r]] = disk[f0][Title[r]]
      BY <1>1, <1>3, <1>9, <2>1, Titled
    <3> QED BY <1>5, <1>7, <2>1, <3>1 DEF FileIn, Gone, Titles
  <2>2. CASE f # f0
    BY <1>5, <2>2 DEF FileIn, Gone, Titles
  <2> QED BY <2>1, <2>2
<1> QED BY <1>6, <1>8, <1>9

LEMMA FilesKept ==
  ASSUME DownloadsTypes, disk' = disk
  PROVE  /\ disk' \in [Folders -> [Titles -> Contents] \cup {Gone}]
         /\ \A f \in Folders, r \in Docs : FileIn(f, r)' = FileIn(f, r)
BY DEF DownloadsTypes, FileIn, Gone

\* The document is sent from where its file ends, or from its beginning into
\* an empty file.
LEMMA OpenKeeps ==
  ASSUME DownloadsInv, NEW b \in DOMAIN batches, NEW r \in DocsOf(b), Open(b, r)
  PROVE  DownloadsInv'
<1>1. PICK f \in Folders : f = batches[b].folder
  BY TaskBefore
<1>2. /\ At(b, r) = "fetch"
      /\ UNCHANGED <<spoiled, asked, delivered>>
  BY <1>1 DEF Open, OpenIf, IsComplete, Task
<1>3. /\ DownloadsTypes /\ r \in Docs /\ Part(f, r) /\ RecordInv(r) /\ TaskOf(b, r) \in Tasks
      /\ CopyInv(b, r) /\ At(b, r) = "fetch"
  BY <1>1, <1>2, TaskBefore DEF DownloadsInv
<1>4. CASE disk[f] = Gone
  <2>1. /\ Goto(b, r, "done") /\ rec' = WithStatus(rec, r, "FAILED") /\ disk' = disk
    BY <1>1, <1>4 DEF Open, OpenIf, Ends
  <2>2. PICK t : t = [TaskOf(b, r) EXCEPT !.at = "done"]
    OBVIOUS
  <2>3. /\ t \in Tasks /\ t.at = "done" /\ Becomes(b, r, t)
        /\ t.copy.status = "COMPLETED" => Settled(r, t.copy.got)
        /\ t.copy = TaskOf(b, r).copy
    BY <2>1, <2>2, GoesTo DEF Goto, Places
  <2>4. SpoiledStays /\ "FAILED" \in Statuses \ {"COMPLETED"}
    BY <1>2, <1>3, SpoiledKept DEF Statuses, Over
  <2>5. /\ rec' \in [Docs -> Records] /\ RecordInv(r)' /\ \A o \in Docs : o # r => rec'[o] = rec[o]
        /\ rec'[r].status # "IN_PROGRESS" /\ \A g : Holds(rec'[r], g) => Holds(rec[r], g)
    BY <1>3, <2>1, <2>4, StatusSet
  <2> QED BY <1>2, <1>3, <2>1, <2>3, <2>5, PlainKeeps
<1>5. CASE disk[f] # Gone
  <2> DEFINE size == Size(FileIn(f, r))
  <2>1. PICK ranged \in IF size > 0 THEN BOOLEAN ELSE {FALSE}, append \in BOOLEAN :
          /\ append = (size > 0 /\ ranged)
          /\ disk' = IF append THEN disk ELSE [disk EXCEPT ![f][Title[r]] = << >>]
          /\ Becomes(b, r, [TaskOf(b, r) EXCEPT !.at = "stream", !.append = append,
                                               !.pos = IF ranged THEN size + 1 ELSE 1])
          /\ rec' = rec
    BY <1>1, <1>5 DEF Open, OpenIf
  <2>2. PICK t : t = [TaskOf(b, r) EXCEPT !.at = "stream", !.append = append,
                                          !.pos = IF ranged THEN size + 1 ELSE 1]
    OBVIOUS
  <2>3. size \in Nat
    <3>1. FileIn(f, r) = Absent \/ FileIn(f, r) \in Contents
      BY <1>3, <1>5, Titled DEF FileIn, DownloadsTypes
    <3>2. Len(FileIn(f, r)) \in Nat \/ FileIn(f, r) = Absent
      BY <3>1 DEF Contents
    <3> QED BY <3>2 DEF Size
  <2> HIDE DEF size
  <2>4. PICK p \in Nat : p = IF ranged THEN size + 1 ELSE 1
    BY <2>3
  <2>5. t = [TaskOf(b, r) EXCEPT !.at = "stream", !.append = append, !.pos = p]
    BY <2>2, <2>4
  <2>6. /\ t \in Tasks /\ t.at = "stream" /\ t.copy = TaskOf(b, r).copy /\ Becomes(b, r, t)
        /\ t.pos = IF ranged THEN size + 1 ELSE 1
    BY <1>3, <2>1, <2>2, <2>4, <2>5 DEF Tasks, Places
  <2>7. /\ SpoiledStays
        /\ spoiled' \in [Docs -> SUBSET Causes]
        /\ \A o : Spoiled(o)' <=> Spoiled(o)
        /\ \A o, c : Settled(o, c)' <=> Settled(o, c)
    BY <1>2, <1>3, SpoiledKept
  <2>8. /\ disk' \in [Folders -> [Titles -> Contents] \cup {Gone}]
        /\ \A g \in Folders, o \in Docs : g # f \/ Title[o] # Title[r] => FileIn(g, o)' = FileIn(g, o)
        /\ append => FileIn(f, r)' = FileIn(f, r)
        /\ ~append => FileIn(f, r)' = << >>
    <3>1. CASE append
      BY <1>3, <2>1, <3>1, FilesKept
    <3>2. CASE ~append
      <4>1. << >> \in Contents
        BY DEF Contents
      <4> QED BY <1>3, <1>5, <2>1, <3>2, <4>1, FileWritten
    <3> QED BY <3>1, <3>2
  <2>9. << >> = Begun(r, 0) /\ Pieces \in Nat /\ Pieces # 0
    BY PiecesAssumption DEF Begun, PiecesAssumption
  <2>10. Spoiled(r) \/ (t.pos \in 1 .. Pieces + 1 /\ FileIn(f, r)' = Begun(r, t.pos - 1))
    <3>1. SUFFICES ASSUME ~Spoiled(r)
                   PROVE  t.pos \in 1 .. Pieces + 1 /\ FileIn(f, r)' = Begun(r, t.pos - 1)
      OBVIOUS
    <3>2. CASE append
      <4>1. ranged = TRUE /\ size > 0 /\ t.pos = size + 1
        BY <2>1, <2>6, <3>2
      <4>2. FileIn(f, r) # Absent
        BY <4>1 DEF size, Size
      <4>3. PICK n \in 0 .. Pieces : FileIn(f, r) = Begun(r, n)
        BY <1>3, <3>1, <4>2 DEF Part
      <4>4. n = size
        <5>1. n \in Nat /\ Size(Begun(r, n)) = n
          BY <1>3, <2>9, BegunFile
        <5> QED BY <4>3, <5>1 DEF size
      <4> QED BY <2>8, <2>9, <3>2, <4>1, <4>3, <4>4
    <3>3. CASE ~append
      <4>1. ~ranged
        BY <2>1, <3>3
      <4> QED BY <2>6, <2>8, <2>9, <3>3, <4>1
    <3> QED BY <3>2, <3>3
  <2>11. Part(f, r)'
    <3>1. CASE Spoiled(r)
      BY <2>7, <3>1 DEF Part
    <3>2. CASE ~Spoiled(r)
      <4>1. t.pos - 1 \in 0 .. Pieces /\ FileIn(f, r)' = Begun(r, t.pos - 1)
        BY <2>9, <2>10, <3>2
      <4> QED BY <4>1 DEF Part, Begun
    <3> QED BY <3>1, <3>2
  <2>12. rec' \in [Docs -> Records] /\ RecordInv(r)'
    BY <1>2, <1>3, <2>1, RecordKept
  <2>13. TaskSteps(b, r, t)
    BY <1>1, <1>2, <2>1, <2>6, <2>7, <2>8, <2>12 DEF TaskSteps
  <2>14. t.copy.status = "COMPLETED" => Settled(r, t.copy.got)'
    BY <1>3, <2>6, <2>7 DEF CopyInv
  <2> QED BY <1>1, <1>3, <2>6, <2>7, <2>10, <2>11, <2>12, <2>13, <2>14, TaskKeeps
<1> QED BY <1>4, <1>5

LEMMA ChunkKeeps ==
  ASSUME DownloadsInv, NEW b \in DOMAIN batches, NEW r \in DocsOf(b), Chunk(b, r)
  PROVE  DownloadsInv'
<1>1. PICK f \in Folders : f = batches[b].folder
  BY TaskBefore
<1>2. PICK t : t = TaskOf(b, r)
  OBVIOUS
<1>3. /\ At(b, r) = "stream" /\ t.at = "stream" /\ UNCHANGED <<asked, delivered>>
  BY <1>2 DEF Chunk, Task, At
<1>4. /\ DownloadsTypes /\ r \in Docs /\ Part(f, r) /\ RecordInv(r) /\ t \in Tasks /\ rec[r] \in Records
      /\ t.copy.status = "COMPLETED" => Settled(r, t.copy.got)
      /\ t.pos \in Nat
  BY <1>1, <1>2, <1>3, TaskBefore DEF DownloadsInv, CopyInv, Tasks
<1>5. Spoiled(r) \/ (t.pos \in 1 .. Pieces + 1 /\ FileIn(f, r) = Begun(r, t.pos - 1))
  BY <1>1, <1>2, <1>3, TaskBefore DEF Works, Streams, FileOf
<1>6. Pieces \in Nat /\ Pieces # 0
  BY PiecesAssumption DEF PiecesAssumption
<1> DEFINE over == t.pos > Pieces
           cut == ~over /\ (stop \/ rec[r].status \in {"PAUSED", "CANCELLED"})
<1>7. CASE over \/ cut
  <2>1. Goto(b, r, "done") /\ UNCHANGED <<rec, disk>>
    BY <1>2, <1>7 DEF Chunk, Ends
  <2>2. spoiled' = IF cut /\ stop THEN [spoiled EXCEPT ![r] = spoiled[r] \cup {"stopped"}] ELSE spoiled
    BY <1>2 DEF Chunk
  <2>3. /\ spoiled' \in [Docs -> SUBSET Causes]
        /\ SpoiledStays
        /\ cut /\ stop => "stopped" \in spoiled'[r]
    BY <1>4, <2>2 DEF SpoiledStays, DownloadsTypes, Causes
  <2>4. Spoiled(r) => Spoiled(r)'
    BY <1>4, <2>3, StaysSpoiled
  <2>5. PICK u : u = [TaskOf(b, r) EXCEPT !.at = "done"]
    OBVIOUS
  <2>6. /\ u \in Tasks /\ u.at = "done" /\ Becomes(b, r, u)
        /\ u.copy.status = "COMPLETED" => Settled(r, u.copy.got)
        /\ u.copy = TaskOf(b, r).copy
    BY <2>1, <2>5, GoesTo DEF Goto, Places
  <2>7. u.copy.status = "COMPLETED" => Settled(r, u.copy.got)'
    BY <1>4, <2>3, <2>6, StaysSpoiled
  <2>8. /\ disk' \in [Folders -> [Titles -> Contents] \cup {Gone}]
        /\ \A g \in Folders, o \in Docs : FileIn(g, o)' = FileIn(g, o)
    BY <1>4, <2>1, FilesKept
  <2>9. rec' \in [Docs -> Records] /\ RecordInv(r)'
    BY <1>4, <2>1, <2>3, StaysSpoiled DEF RecordInv, DownloadsTypes
  <2>10. TaskSteps(b, r, u)
    BY <1>1, <1>3, <2>1, <2>3, <2>6, <2>8, <2>9 DEF TaskSteps
  <2>11. Part(f, r)'
    BY <1>4, <2>4, <2>8 DEF Part, Begun
  <2>12. rec'[r].status = "IN_PROGRESS" => Spoiled(r)' \/ Whole(FileIn(f, r)', r)
    <3>1. SUFFICES ASSUME rec[r].status = "IN_PROGRESS", ~Spoiled(r)' PROVE Whole(FileIn(f, r)', r)
      BY <2>1
    <3>2. ~(cut /\ stop)
      BY <2>3, <3>1 DEF Spoiled
    <3>3. over
      BY <1>7, <3>1, <3>2
    <3>4. t.pos - 1 = Pieces
      BY <1>4, <1>5, <1>6, <2>4, <3>1, <3>3
    <3> QED BY <1>4, <1>5, <2>4, <2>8, <3>1, <3>4, WholeFile
  <2> QED BY <1>1, <1>3, <2>3, <2>6, <2>7, <2>9, <2>10, <2>11, <2>12, TaskKeeps
<1>8. CASE ~(over \/ cut)
  <2>1. /\ disk' = IF disk[f] = Gone THEN disk
                   ELSE [disk EXCEPT ![f][Title[r]] =
                            IF t.append THEN Append(FileIn(f, r), <<r, t.pos>>)
                                        ELSE PutAt(FileIn(f, r), t.pos, <<r, t.pos>>)]
        /\ rec' = IF Recorded(r) THEN [rec EXCEPT ![r] = [rec[r] EXCEPT !.known = TRUE]] ELSE rec
        /\ Becomes(b, r, [t EXCEPT !.pos = t.pos + 1])
        /\ spoiled' = spoiled
    BY <1>1, <1>2, <1>8 DEF Chunk
  <2>2. /\ SpoiledStays
        /\ spoiled' \in [Docs -> SUBSET Causes]
        /\ \A o : Spoiled(o)' <=> Spoiled(o)
        /\ \A o, c : Settled(o, c)' <=> Settled(o, c)
    BY <1>4, <2>1, SpoiledKept
  <2>3. PICK u : u = [t EXCEPT !.pos = t.pos + 1]
    OBVIOUS
  <2>4. /\ u \in Tasks /\ u.at = "stream" /\ u.copy = t.copy /\ u.pos = t.pos + 1 /\ Becomes(b, r, u)
    BY <1>3, <1>4, <2>1, <2>3 DEF Tasks
  <2>5. PICK new : new = [rec[r] EXCEPT !.known = TRUE]
    OBVIOUS
  <2>6. /\ new \in Records /\ new.status = rec[r].status /\ new.got = rec[r].got
        /\ new.zip = rec[r].zip
    BY <1>4, <2>5 DEF Records
  <2>7. /\ rec' \in [Docs -> Records] /\ \A o \in Docs : o # r => rec'[o] = rec[o]
        /\ rec'[r] = rec[r] \/ rec'[r] = new
        /\ \A g : Holds(rec'[r], g) => Holds(rec[r], g)
    BY <1>4, <2>1, <2>5, <2>6 DEF DownloadsTypes, Holds
  <2>8. RecordInv(r)'
    BY <1>4, <2>2, <2>6, <2>7 DEF RecordInv
  <2>9. CASE disk[f] = Gone
    <3>1. Spoiled(r)
      BY <1>4, <1>5, <1>6, <2>9, BegunFile DEF FileIn
    <3>2. /\ disk' \in [Folders -> [Titles -> Contents] \cup {Gone}]
          /\ \A g \in Folders, o \in Docs : FileIn(g, o)' = FileIn(g, o)
      BY <1>4, <2>1, <2>9, FilesKept
    <3>3. TaskSteps(b, r, u)
      BY <1>1, <1>2, <1>3, <2>2, <2>4, <2>7, <3>2 DEF TaskSteps
    <3>4. Spoiled(r)' /\ Part(f, r)'
      BY <2>2, <3>1 DEF Part
    <3>5. u.copy.status = "COMPLETED" => Settled(r, u.copy.got)'
      BY <1>4, <2>2, <2>4
    <3> QED BY <1>1, <1>3, <2>2, <2>4, <2>8, <3>3, <3>4, <3>5, TaskKeeps
  <2>10. CASE disk[f] # Gone
    <3>1. PICK c : c = IF t.append THEN Append(FileIn(f, r), <<r, t.pos>>)
                                   ELSE PutAt(FileIn(f, r), t.pos, <<r, t.pos>>)
      OBVIOUS
    <3>2. disk' = [disk EXCEPT ![f][Title[r]] = c] /\ FileIn(f, r) \in Contents
      BY <1>4, <2>1, <2>10, <3>1, Titled DEF DownloadsTypes, FileIn
    <3>3. c \in Contents
      BY <1>4, <3>1, <3>2, PutPiece
    <3>4. /\ disk' \in [Folders -> [Titles -> Contents] \cup {Gone}]
          /\ \A g \in Folders, o \in Docs : g # f \/ Title[o] # Title[r] => FileIn(g, o)' = FileIn(g, o)
          /\ FileIn(f, r)' = c
      BY <1>4, <2>10, <3>2, <3>3, FileWritten
    <3>5. Spoiled(r) \/ (u.pos \in 1 .. Pieces + 1 /\ FileIn(f, r)' = Begun(r, u.pos - 1))
      <4>1. SUFFICES ASSUME ~Spoiled(r) PROVE u.pos \in 1 .. Pieces + 1 /\ c = Begun(r, u.pos - 1)
        BY <3>4
      <4>2. PICK n \in Nat : n = t.pos - 1 /\ t.pos = n + 1 /\ n + 1 <= Pieces /\ FileIn(f, r) = Begun(r, n)
        BY <1>4, <1>5, <1>6, <1>8, <4>1
      <4>3. c = Begun(r, n + 1)
        BY <1>4, <3>1, <4>2, NextPiece
      <4>4. u.pos = n + 2 /\ u.pos - 1 = n + 1
        BY <2>4, <4>2
      <4>5. c = Begun(r, u.pos - 1)
        BY <4>3, <4>4
      <4>6. u.pos \in 1 .. Pieces + 1
        <5>1. n + 2 \in 1 .. Pieces + 1
          BY <1>6, <4>2
        <5> QED BY <4>4, <5>1
      <4> QED BY <4>5, <4>6
    <3>6. Part(f, r)'
      <4>1. CASE Spoiled(r)
        BY <2>2, <4>1 DEF Part
      <4>2. CASE ~Spoiled(r)
        <5>1. u.pos - 1 \in 0 .. Pieces /\ FileIn(f, r)' = Begun(r, u.pos - 1)
          BY <1>6, <3>5, <4>2
        <5> QED BY <5>1 DEF Part, Begun
      <4> QED BY <4>1, <4>2
    <3>7. TaskSteps(b, r, u)
      BY <1>1, <1>2, <1>3, <2>2, <2>4, <2>7, <3>4 DEF TaskSteps
    <3>8. u.copy.status = "COMPLETED" => Settled(r, u.copy.got)'
      BY <1>4, <2>2, <2>4
    <3> QED BY <1>1, <1>3, <2>2, <2>4, <2>8, <3>5, <3>6, <3>7, <3>8, TaskKeeps
  <2> QED BY <2>9, <2>10
<1> QED BY <1>7, <1>8

\* A record that is rewritten without spoiling what is known of it.
Calm(r) ==
    \/ rec'[r] = rec[r]
    \/ /\ rec'[r].status # "COMPLETED"
       /\ rec'[r].status # "none" => r \in asked'
       /\ rec'[r].status = "IN_PROGRESS" =>
            Spoiled(r)' \/ \A b \in DOMAIN batches : Live(b) => r \notin DocsOf(b)

LEMMA CalmRecords ==
  ASSUME DownloadsInv, SpoiledStays, asked \subseteq asked',
         delivered' = delivered, \A r \in Docs : Calm(r)
  PROVE  RecordsKnown' /\ SettledInv'
<1>1. ASSUME NEW r \in Docs, Recorded(r)' PROVE r \in asked'
  BY <1>1 DEF DownloadsInv, RecordsKnown, Calm, Recorded
<1>2. ASSUME NEW r \in Docs PROVE RecordInv(r)' /\ DeliveredInv(r)'
  <2>1. RecordInv(r) /\ DeliveredInv(r) /\ Calm(r)
    BY DEF DownloadsInv, SettledInv
  <2>2. DeliveredInv(r)'
    BY <2>1, StaysSpoiled DEF DeliveredInv, Whole
  <2>3. RecordInv(r)'
    BY <2>1, StaysSpoiled DEF RecordInv, Calm
  <2> QED BY <2>2, <2>3
<1>3. RecordsKnown'
  BY <1>1 DEF RecordsKnown
<1> QED BY <1>2, <1>3 DEF SettledInv

\* The same file, the same task.
LEMMA StillWorks ==
  ASSUME DownloadsInv, SpoiledStays, NEW b \in DOMAIN batches, NEW r \in DocsOf(b),
         batches'[b] = batches[b],
         Spoiled(r)' \/ (Calm(r) /\ \A f \in Folders : FileIn(f, r)' = FileIn(f, r))
  PROVE  Works(b, r)' /\ CopyInv(b, r)'
<1>1. r \in Docs /\ Works(b, r) /\ CopyInv(b, r)
  BY TaskBefore
<1>2. TaskOf(b, r)' = TaskOf(b, r)
  BY DEF TaskOf
<1>3. CopyInv(b, r)'
  BY <1>1, <1>2, StaysSpoiled DEF CopyInv
<1>4. CASE Spoiled(r)'
  BY <1>3, <1>4 DEF Works
<1>5. CASE ~Spoiled(r)'
  <2>1. ~Spoiled(r) /\ Streams(b, r) /\ EndsWell(b, r)
    BY <1>1, <1>5, StaysSpoiled DEF Works
  <2>2. PICK f \in Folders : f = batches[b].folder
    BY TaskBefore
  <2>3. FileOf(b, r)' = FileOf(b, r)
    BY <1>5, <2>2 DEF FileOf, FileIn
  <2>4. Streams(b, r)'
    BY <1>2, <2>1, <2>3 DEF Streams, At, Begun
  <2>5. EndsWell(b, r)'
    <3>1. batches[b].step = "open" /\ At(b, r) = "done" /\ rec'[r].status = "IN_PROGRESS"
            => rec[r].status = "IN_PROGRESS"
      BY <1>5 DEF Calm, Live
    <3> QED BY <1>2, <2>1, <2>3, <3>1 DEF EndsWell, At, Whole
  <2> QED BY <1>3, <2>4, <2>5 DEF Works
<1> QED BY <1>4, <1>5

\* What the user does to a record, but for a new batch.
LEMMA CalmKeeps ==
  ASSUME DownloadsInv, rec' \in [Docs -> Records], \A r \in Docs : Calm(r),
         \A r \in Docs, f \in Nat : Holds(rec'[r], f) => Holds(rec[r], f),
         UNCHANGED <<disk, batches, asked, delivered, spoiled>>
  PROVE  DownloadsInv'
<1>1. DownloadsTypes /\ SpoiledStays
  BY SpoiledKept DEF DownloadsInv
<1>2. DownloadsTypes'
  BY <1>1 DEF DownloadsTypes, Gone
<1>3. RecordsKnown' /\ SettledInv'
  BY <1>1, CalmRecords
<1>4. \A b : DocsOf(b)' = DocsOf(b) /\ \A r : At(b, r)' = At(b, r)
  BY DEF DocsOf, At, TaskOf
<1>5. BatchesInv'
  BY <1>4 DEF DownloadsInv, BatchesInv, Finalized, Known
<1>6. ApartInv'
  BY <1>4 DEF DownloadsInv, ApartInv, Apart, Live, Spoiled
<1>9. HomesStay /\ NamesApart'
  <2>1. \A b \in DOMAIN batches : Live(b)' => Live(b)
    BY DEF Live
  <2>2. \A b \in DOMAIN batches : \A r \in DocsOf(b), f \in Nat : Holds(TaskOf(b, r)'.copy, f) => Home(f, r)
    BY AtHome DEF TaskOf
  <2>3. HomesStay
    BY <1>4, <2>1, <2>2, HomesKept DEF Home
  <2> QED BY <1>1, <2>3, NamesKept DEF DownloadsInv
<1>7. PartInv'
  <2>1. SUFFICES ASSUME NEW f \in Folders, NEW r \in Docs, Home(f, r)' PROVE Part(f, r)'
    BY DEF PartInv
  <2>2. Part(f, r)
    BY <1>9, <2>1, Titled DEF DownloadsInv, PartInv, HomesStay
  <2> QED BY <2>2 DEF Part, FileIn, Gone, Titles, Spoiled, Begun
<1>8. WorksInv'
  <2>1. SUFFICES ASSUME NEW b \in DOMAIN batches, NEW r \in DocsOf(b)
                 PROVE  Works(b, r)' /\ CopyInv(b, r)'
    BY <1>4 DEF WorksInv
  <2>2. r \in Docs /\ \A f \in Folders : FileIn(f, r)' = FileIn(f, r)
    BY <1>1, TaskBefore, FilesKept
  <2> QED BY <1>1, <2>2, StillWorks
<1> QED BY <1>2, <1>3, <1>5, <1>6, <1>7, <1>8, <1>9 DEF DownloadsInv

LEMMA StatusCalm ==
  ASSUME DownloadsInv, NEW r \in Docs, NEW s \in {"PAUSED", "CANCELLED"},
         rec' = WithStatus(rec, r, s),
         UNCHANGED <<disk, batches, asked, delivered, spoiled>>
  PROVE  DownloadsInv'
<1>1. DownloadsTypes /\ SpoiledStays /\ s \in Statuses \ {"COMPLETED"}
  BY SpoiledKept DEF DownloadsInv, Statuses, Active, Over
<1>2. /\ rec' \in [Docs -> Records] /\ \A o \in Docs : o # r => rec'[o] = rec[o]
      /\ rec'[r].status \in {s, "none"}
      /\ \A f : Holds(rec'[r], f) => Holds(rec[r], f)
  BY <1>1, StatusSet
<1>3. rec'[r] = rec[r] \/ r \in asked
  BY DEF WithStatus, DownloadsInv, RecordsKnown, Recorded
<1>4. ASSUME NEW o \in Docs PROVE Calm(o)
  <2>1. CASE o # r
    BY <1>2, <2>1 DEF Calm
  <2>2. CASE o = r
    BY <1>2, <1>3, <2>2 DEF Calm
  <2> QED BY <2>1, <2>2
<1>5. \A o \in Docs, f \in Nat : Holds(rec'[o], f) => Holds(rec[o], f)
  BY <1>2
<1> QED BY <1>2, <1>4, <1>5, CalmKeeps

LEMMA PauseKeeps ==
  ASSUME DownloadsInv, NEW r \in Docs, Pause(r)
  PROVE  DownloadsInv'
BY StatusCalm DEF Pause

LEMMA CancelKeeps ==
  ASSUME DownloadsInv, NEW r \in Docs, Cancel(r)
  PROVE  DownloadsInv'
BY StatusCalm DEF Cancel

-----------------------------------------------------------------------------
(* A new batch                                                             *)

LEMMA BlankRecord == NoRecord \in Records /\ NoRecord.status = "none" /\ Absent \in Contents
<1>1. Absent \in Contents
  BY DEF Contents, Absent
<1> QED BY <1>1 DEF NoRecord, Records, Statuses

LEMMA NewBatch ==
  ASSUME NEW f \in Folders, NEW docs \in SUBSET Docs
  PROVE  /\ Batch(f, docs) \in Batches
         /\ Batch(f, docs).folder = f /\ Batch(f, docs).step = "open" /\ Batch(f, docs).final = {}
         /\ DOMAIN Batch(f, docs).tasks = docs
         /\ \A r \in docs : Batch(f, docs).tasks[r] = Waiting
<1>1. Waiting \in Tasks
  BY BlankRecord DEF Waiting, Tasks, Places
<1>2. Batch(f, docs).tasks = [r \in docs |-> Waiting]
  BY DEF Batch
<1>3. [r \in docs |-> Waiting] \in [docs -> Tasks]
  BY <1>1
<1> QED BY <1>2, <1>3 DEF Batch, Batches

\* Nothing of it has begun.
LEMMA NewBatchWorks ==
  ASSUME NEW b, NEW f \in Folders, NEW docs \in SUBSET Docs,
         batches'[b] = Batch(f, docs), docs \subseteq asked'
  PROVE  /\ Finalized(b)' /\ Known(b)'
         /\ \A r \in docs : Works(b, r)' /\ CopyInv(b, r)'
<1>1. DocsOf(b)' = docs /\ batches'[b].folder = f /\ batches'[b].step = "open" /\ batches'[b].final = {}
  BY NewBatch DEF DocsOf
<1>2. \A r \in docs : TaskOf(b, r)' = Waiting
  BY NewBatch DEF TaskOf
<1>3. Waiting.at = "queued" /\ Waiting.copy.status = "none"
  BY BlankRecord DEF Waiting
<1>4. Finalized(b)' /\ Known(b)'
  BY <1>1 DEF Finalized, Known
<1>5. ASSUME NEW r \in docs PROVE Works(b, r)' /\ CopyInv(b, r)'
  <2>1. At(b, r)' = "queued"
    BY <1>2, <1>3 DEF At
  <2>2. Streams(b, r)' /\ EndsWell(b, r)'
    BY <1>1, <2>1 DEF Streams, EndsWell
  <2>3. CopyInv(b, r)'
    BY <1>2, <1>3 DEF CopyInv
  <2> QED BY <2>2, <2>3 DEF Works
<1> QED BY <1>1, <1>4, <1>5

\* What a new batch shares with another is spoiled.
AddedApart(b, docs, f) ==
    Live(b) => \A r \in DocsOf(b) \cup docs :
        r \in DocsOf(b) \cap docs \/ batches[b].folder = f => Spoiled(r)'

LEMMA BatchAdded ==
  ASSUME DownloadsInv, SpoiledStays,
         NEW f0 \in Folders, NEW docs \in SUBSET Docs,
         batches' = Append(batches, Batch(f0, docs)),
         asked \subseteq asked', docs \subseteq asked', asked' \subseteq Docs,
         spoiled' \in [Docs -> SUBSET Causes],
         rec' \in [Docs -> Records], \A r \in Docs : Calm(r),
         disk' \in [Folders -> [Titles -> Contents] \cup {Gone}],
         \A f \in Folders, r \in Docs : FileIn(f, r)' = FileIn(f, r),
         delivered' = delivered,
         \A b \in DOMAIN batches : AddedApart(b, docs, f0),
         \A r \in Docs, f \in Nat : Holds(rec'[r], f) => Holds(rec[r], f) \/ (f = f0 /\ r \in docs),
         \A r \in docs, o \in Docs : o # r /\ Title[o] = Title[r] /\ (o \in docs \/ Home(f0, o))
                                    => Spoiled(r)' /\ Spoiled(o)',
         \A r \in docs : Home(f0, r) \/ FileIn(f0, r) = Absent
  PROVE  DownloadsInv'
<1>1. DownloadsTypes /\ batches \in Seq(Batches)
  BY DEF DownloadsInv, DownloadsTypes
<1>2. PICK n \in Nat : n = Len(batches) + 1
  BY <1>1
<1>3. Batch(f0, docs) \in Batches
  BY NewBatch
<1>4. /\ batches' \in Seq(Batches) /\ n \notin DOMAIN batches
      /\ DOMAIN batches' = DOMAIN batches \cup {n}
      /\ \A b \in DOMAIN batches : batches'[b] = batches[b]
      /\ batches'[n] = Batch(f0, docs)
  BY <1>1, <1>3, <1>2
<1>5. DownloadsTypes'
  BY <1>1, <1>4 DEF DownloadsTypes, Gone
<1>6. RecordsKnown' /\ SettledInv'
  BY CalmRecords
<1>7. /\ DocsOf(n)' = docs /\ batches'[n].folder = f0
      /\ Finalized(n)' /\ Known(n)' /\ \A r \in docs : Works(n, r)' /\ CopyInv(n, r)'
  <2>1. batches'[n] = Batch(f0, docs)
    BY <1>4
  <2>2. DocsOf(n)' = docs
    BY <2>1, NewBatch DEF DocsOf
  <2>3. batches'[n].folder = f0
    BY <2>1, NewBatch
  <2>4. Finalized(n)'
    BY <2>1, NewBatchWorks
  <2>5. Known(n)'
    BY <2>1, NewBatchWorks
  <2>6. \A r \in docs : Works(n, r)' /\ CopyInv(n, r)'
    BY <2>1, NewBatchWorks
  <2> QED BY <2>2, <2>3, <2>4, <2>5, <2>6
<1>8. ASSUME NEW b \in DOMAIN batches
      PROVE  DocsOf(b)' = DocsOf(b) /\ DocsOf(b) \subseteq Docs /\ Finalized(b)' /\ Known(b)'
  <2>1. Finalized(b) /\ Known(b) /\ batches'[b] = batches[b] /\ DocsOf(b) \subseteq Docs
    BY <1>1, <1>4, BatchTypes DEF DownloadsInv, BatchesInv
  <2> QED BY <2>1 DEF Finalized, Known, DocsOf, At, TaskOf
<1>9. BatchesInv'
  BY <1>4, <1>7, <1>8 DEF BatchesInv
<1>10. ApartInv'
  <2>1. SUFFICES ASSUME NEW b \in DOMAIN batches', NEW c \in DOMAIN batches',
                        b # c, Live(b)', Live(c)', NEW r \in DocsOf(b)',
                        r \in DocsOf(c)' \/ batches'[b].folder = batches'[c].folder
                 PROVE  Spoiled(r)'
    BY DEF ApartInv, Apart
  <2>2. CASE b \in DOMAIN batches /\ c \in DOMAIN batches
    <3>1. Spoiled(r) /\ r \in Docs
      BY <1>4, <1>8, <2>1, <2>2 DEF DownloadsInv, ApartInv, Apart, Live
    <3> QED BY <3>1, StaysSpoiled
  <2>3. CASE b \in DOMAIN batches /\ c = n
    <3>1. r \in DocsOf(b) /\ r \in Docs /\ Live(b) /\ (r \in docs \/ batches[b].folder = f0)
      BY <1>4, <1>7, <1>8, <2>1, <2>3 DEF Live
    <3> QED BY <2>3, <3>1 DEF AddedApart
  <2>4. CASE b = n /\ c \in DOMAIN batches
    <3>1. r \in docs /\ r \in Docs /\ Live(c) /\ (r \in DocsOf(c) \/ batches[c].folder = f0)
      BY <1>4, <1>7, <1>8, <2>1, <2>4 DEF Live
    <3> QED BY <2>4, <3>1 DEF AddedApart
  <2> QED BY <1>4, <2>1, <2>2, <2>3, <2>4
<1>20. ASSUME NEW f \in Nat, NEW r \in Docs, Home(f, r)', ~Home(f, r) PROVE f = f0 /\ r \in docs
  <2>1. CASE Holds(rec'[r], f)
    BY <1>20, <2>1 DEF Home
  <2>2. CASE ~Holds(rec'[r], f)
    <3>1. PICK b \in DOMAIN batches' :
            /\ r \in DocsOf(b)'
            /\ Holds(TaskOf(b, r)'.copy, f) \/ (Live(b)' /\ batches'[b].folder = f)
      BY <1>20, <2>2 DEF Home, Holds
    <3>2. CASE b \in DOMAIN batches
      <4>1. r \in DocsOf(b) /\ batches'[b] = batches[b]
        BY <1>4, <1>8, <3>1, <3>2
      <4>2. Holds(TaskOf(b, r).copy, f) \/ (Live(b) /\ batches[b].folder = f)
        BY <3>1, <4>1 DEF TaskOf, Live
      <4> QED BY <1>20, <3>2, <4>1, <4>2 DEF Home
    <3>3. CASE b = n
      <4>1. r \in docs /\ batches'[b].folder = f0 /\ TaskOf(b, r)' = Waiting
        BY <1>4, <1>7, <3>1, <3>3, NewBatch DEF TaskOf
      <4>2. ~Holds(Waiting.copy, f)
        BY BlankRecord DEF Waiting, Holds
      <4> QED BY <3>1, <4>1, <4>2
    <3> QED BY <1>4, <3>1, <3>2, <3>3
  <2> QED BY <2>1, <2>2
<1>21. NamesApart'
  <2>1. SUFFICES ASSUME NEW f \in Nat, NEW r \in Docs, NEW o \in Docs,
                        r # o, Title[r] = Title[o], Home(f, r)', Home(f, o)'
                 PROVE  Spoiled(r)'
    BY DEF NamesApart
  <2>2. CASE Home(f, r) /\ Home(f, o)
    <3>1. Spoiled(r)
      BY <2>1, <2>2 DEF DownloadsInv, NamesApart
    <3> QED BY <3>1, StaysSpoiled
  <2>3. CASE ~Home(f, r)
    <3>1. f = f0 /\ r \in docs /\ (o \in docs \/ Home(f0, o))
      BY <1>20, <2>1, <2>3
    <3> QED BY <2>1, <3>1
  <2>4. CASE ~Home(f, o)
    <3>1. f = f0 /\ o \in docs /\ (r \in docs \/ Home(f0, r))
      BY <1>20, <2>1, <2>4
    <3> QED BY <2>1, <3>1
  <2> QED BY <2>2, <2>3, <2>4
<1>11. PartInv'
  <2>1. SUFFICES ASSUME NEW f \in Folders, NEW r \in Docs, Home(f, r)' PROVE Part(f, r)'
    BY DEF PartInv
  <2>2. FileIn(f, r)' = FileIn(f, r) /\ f \in Nat
    BY Titled
  <2>3. CASE Home(f, r)
    <3>1. Part(f, r)
      BY <2>3 DEF DownloadsInv, PartInv
    <3> QED BY <2>2, <3>1, StaysSpoiled DEF Part, Begun
  <2>4. CASE ~Home(f, r)
    <3>1. FileIn(f, r) = Absent
      BY <1>20, <2>1, <2>2, <2>4
    <3> QED BY <2>2, <3>1 DEF Part, Absent
  <2> QED BY <2>3, <2>4
<1>12. WorksInv'
  <2>1. SUFFICES ASSUME NEW b \in DOMAIN batches', NEW r \in DocsOf(b)'
                 PROVE  Works(b, r)' /\ CopyInv(b, r)'
    BY DEF WorksInv
  <2>2. CASE b = n
    BY <1>7, <2>2
  <2>3. CASE b \in DOMAIN batches
    <3>1. r \in DocsOf(b) /\ r \in Docs /\ batches'[b] = batches[b]
      BY <1>4, <1>8, <2>3
    <3> QED BY <2>3, <3>1, StillWorks
  <2> QED BY <1>4, <2>2, <2>3
<1> QED BY <1>5, <1>6, <1>9, <1>10, <1>11, <1>12, <1>21 DEF DownloadsInv

\* An empty folder has no file, and neither has one that is not there.
LEMMA FolderMade ==
  ASSUME DownloadsTypes, NEW f0 \in Folders, disk[f0] = Gone,
         disk' = [disk EXCEPT ![f0] = Empty]
  PROVE  /\ disk' \in [Folders -> [Titles -> Contents] \cup {Gone}]
         /\ \A f \in Folders, r \in Docs : FileIn(f, r)' = FileIn(f, r)
<1>1. disk \in [Folders -> [Titles -> Contents] \cup {Gone}]
  BY DEF DownloadsTypes
<1>2. Empty \in [Titles -> Contents]
  BY BlankRecord DEF Empty
<1>3. disk' \in [Folders -> [Titles -> Contents] \cup {Gone}]
  BY <1>1, <1>2
<1>4. disk'[f0] = Empty /\ \A f \in Folders : f # f0 => disk'[f] = disk[f]
  BY <1>1
<1>5. ASSUME NEW f \in Folders, NEW r \in Docs PROVE FileIn(f, r)' = FileIn(f, r)
  <2>1. CASE f = f0
    <3>1. FileIn(f, r) = Absent
      BY <2>1 DEF FileIn
    <3>2. Empty[Title[r]] = Absent
      BY Titled DEF Empty
    <3>3. FileIn(f, r)' = Absent
      BY <1>4, <2>1, <3>2 DEF FileIn
    <3> QED BY <3>1, <3>3
  <2>2. CASE f # f0
    BY <1>4, <2>2 DEF FileIn, Gone
  <2> QED BY <2>1, <2>2
<1> QED BY <1>3, <1>5

\* A name of a folder that is new is the home of no document.
LEMMA FreshApart ==
  ASSUME NEW f \in FreshFolder, NEW r \in Docs
  PROVE  ~Home(f, r)
<1>1. f \in Unused(batches)
  BY DEF FreshFolder
<1>2. ~Holds(rec[r], f)
  BY <1>1 DEF Unused, Holds
<1>3. ASSUME NEW b \in DOMAIN batches, r \in DocsOf(b)
      PROVE  ~Holds(TaskOf(b, r).copy, f) /\ batches[b].folder # f
  BY <1>1, <1>3 DEF Unused, Holds, TaskOf, DocsOf
<1> QED BY <1>2, <1>3 DEF Home

LEMMA DownloadKeeps ==
  ASSUME DownloadsInv, NEW docs \in SUBSET Docs, Download(docs)
  PROVE  DownloadsInv'
<1>1. PICK f \in FreshFolder :
        /\ rec' = Inserted(rec, docs, f)
        /\ disk' = [disk EXCEPT ![f] = Empty]
        /\ batches' = Append(batches, Batch(f, docs))
  BY DEF Download
<1>2. /\ docs \cap asked = {} /\ asked' = asked \cup docs /\ delivered' = delivered
      /\ spoiled' = [r \in Docs |-> spoiled[r] \cup IF r \in Namesakes(docs) THEN {"namesake"} ELSE {}]
  BY DEF Download
<1>3. /\ f \in Folders /\ disk[f] = Gone /\ \A b \in DOMAIN batches : batches[b].folder # f
      /\ \A r \in Docs : ~Home(f, r)
  BY FreshApart DEF FreshFolder, Unused
<1>4. DownloadsTypes /\ asked \subseteq Docs
  BY DEF DownloadsInv, DownloadsTypes
<1>5. /\ SpoiledStays
      /\ spoiled' \in [Docs -> SUBSET Causes]
      /\ \A r \in Namesakes(docs) : Spoiled(r)'
  <2>1. ASSUME NEW r \in Docs
        PROVE  /\ spoiled'[r] = spoiled[r] \cup IF r \in Namesakes(docs) THEN {"namesake"} ELSE {}
               /\ spoiled[r] \in SUBSET Causes
    BY <1>2, <1>4 DEF DownloadsTypes
  <2>2. SpoiledStays
    BY <2>1 DEF SpoiledStays
  <2>3. \A r \in Docs : spoiled'[r] \in SUBSET Causes
    BY <2>1 DEF Causes
  <2>4. spoiled' \in [Docs -> SUBSET Causes]
    BY <1>2, <2>3
  <2>5. ASSUME NEW r \in Namesakes(docs) PROVE Spoiled(r)'
    <3>1. r \in Docs /\ "namesake" \in spoiled'[r]
      BY <2>1 DEF Namesakes
    <3> QED BY <3>1 DEF Spoiled
  <2> QED BY <2>2, <2>4, <2>5
<1>6. PICK new : new = [NoRecord EXCEPT !.status = "PENDING", !.zip = f]
  OBVIOUS
<1>7. new \in Records /\ new.status = "PENDING" /\ new.zip = f
  <2>1. f \in Int
    BY <1>3 DEF Folders
  <2> QED BY <1>6, <2>1, BlankRecord DEF Records, Statuses, Active
<1>8. ASSUME NEW r \in Docs
      PROVE  /\ rec'[r] \in {NoRecord, rec[r]} \cup {o \in {new} : r \in docs}
             /\ rec'[r] \in Records
  <2>1. rec'[r] = NoRecord \/ rec'[r] = IF r \in docs THEN new ELSE rec[r]
    BY <1>1, <1>6 DEF Inserted, Trimmed
  <2>2. rec[r] \in Records
    BY <1>4 DEF DownloadsTypes
  <2> QED BY <1>7, <2>1, <2>2, BlankRecord
<1>9. rec' \in [Docs -> Records]
  <2>1. rec' = [r \in Docs |-> rec'[r]]
    BY <1>1 DEF Inserted, Trimmed
  <2> QED BY <1>8, <2>1
<1>10. \A r \in Docs : Calm(r)
  BY <1>2, <1>7, <1>8, BlankRecord DEF Calm
<1>11. /\ disk' \in [Folders -> [Titles -> Contents] \cup {Gone}]
       /\ \A g \in Folders, r \in Docs : FileIn(g, r)' = FileIn(g, r)
  BY <1>1, <1>3, <1>4, FolderMade
<1>12. \A b \in DOMAIN batches : AddedApart(b, docs, f)
  BY <1>2, <1>3 DEF AddedApart, DownloadsInv, BatchesInv, Known
<1>13. ASSUME NEW r \in Docs, NEW g \in Nat, Holds(rec'[r], g)
       PROVE  Holds(rec[r], g) \/ (g = f /\ r \in docs)
  <2>1. rec'[r] = rec[r] \/ (rec'[r] = new /\ r \in docs)
    BY <1>8, <1>13, BlankRecord DEF Holds
  <2> QED BY <1>3, <1>7, <1>13, <2>1, Titled DEF Holds
<1>14. \A r \in docs, o \in Docs : o # r /\ Title[o] = Title[r] /\ (o \in docs \/ Home(f, o))
                                  => Spoiled(r)' /\ Spoiled(o)'
  BY <1>3, <1>5 DEF Namesakes
<1>15. \A r \in docs : FileIn(f, r) = Absent
  BY <1>3 DEF FileIn
<1> QED BY <1>1, <1>2, <1>3, <1>4, <1>5, <1>9, <1>10, <1>11, <1>12, <1>13, <1>14, <1>15, BatchAdded

LEMMA ResumeKeeps ==
  ASSUME DownloadsInv, NEW r \in Docs, Resume(r)
  PROVE  DownloadsInv'
<1>1. /\ Recorded(r) /\ rec' = WithStatus(rec, r, "IN_PROGRESS")
      /\ spoiled' = [o \in Docs |-> spoiled[o] \cup IF o \in Disturbed(r) THEN {"again"} ELSE {}]
      /\ UNCHANGED <<asked, delivered>>
  BY DEF Resume, ResumeIf, Shown
<1>2. PICK f : /\ f \in OldFolder(rec[r].zip) \/ f \in FreshFolder
               /\ Resubmitted(r, f)
  BY DEF Resume, ResumeIf
<1>3. /\ f \in Folders
      /\ f = rec[r].zip \/ \A b \in DOMAIN batches : batches[b].folder # f
  BY <1>2 DEF FreshFolder, Unused, OldFolder
<1>13. \/ Home(f, r)
       \/ disk[f] = Gone /\ \A o \in Docs : ~Home(f, o)
  <2>1. CASE f \in OldFolder(rec[r].zip)
    BY <1>1, <2>1 DEF OldFolder, Home, Holds, Recorded
  <2>2. CASE f \in FreshFolder
    BY <2>2, FreshApart DEF FreshFolder, Unused
  <2> QED BY <1>2, <2>1, <2>2
<1>4. DownloadsTypes /\ asked \subseteq Docs /\ r \in asked
  BY <1>1 DEF DownloadsInv, DownloadsTypes, RecordsKnown
<1>5. /\ spoiled' \in [Docs -> SUBSET Causes]
      /\ SpoiledStays
      /\ \A o \in Docs : o \in Disturbed(r) => Spoiled(o)'
  <2>1. ASSUME NEW o \in Docs
        PROVE  /\ spoiled'[o] = spoiled[o] \cup IF o \in Disturbed(r) THEN {"again"} ELSE {}
               /\ spoiled[o] \in SUBSET Causes
    BY <1>1, <1>4 DEF DownloadsTypes
  <2>2. SpoiledStays
    BY <2>1 DEF SpoiledStays
  <2>3. \A o \in Docs : spoiled'[o] \in SUBSET Causes
    BY <2>1 DEF Causes
  <2>4. spoiled' \in [Docs -> SUBSET Causes]
    BY <1>1, <2>3
  <2>5. ASSUME NEW o \in Docs, o \in Disturbed(r) PROVE Spoiled(o)'
    <3>1. "again" \in spoiled'[o]
      BY <2>1, <2>5
    <3> QED BY <3>1 DEF Spoiled
  <2> QED BY <2>2, <2>4, <2>5
<1>6. ASSUME NEW b \in DOMAIN batches, Live(b), r \in DocsOf(b) \/ batches[b].folder = rec[r].zip
      PROVE  DocsOf(b) \cup {r} \subseteq Disturbed(r)
  BY <1>6 DEF Disturbed, Live
<1>7. "IN_PROGRESS" \in Statuses \ {"COMPLETED"}
  BY DEF Statuses, Active
<1>8. /\ rec' \in [Docs -> Records] /\ \A o \in Docs : o # r => rec'[o] = rec[o]
      /\ rec'[r].status \in {"IN_PROGRESS", "none"}
      /\ \A g : Holds(rec'[r], g) => Holds(rec[r], g)
  BY <1>1, <1>4, <1>5, <1>7, StatusSet
<1>9. ASSUME NEW o \in Docs PROVE Calm(o)
  <2>1. CASE o # r
    BY <1>8, <2>1 DEF Calm
  <2>2. CASE o = r
    <3>1. Spoiled(r)' \/ \A b \in DOMAIN batches : Live(b) => r \notin DocsOf(b)
      BY <1>5, <1>6
    <3> QED BY <1>1, <1>4, <1>8, <2>2, <3>1 DEF Calm
  <2> QED BY <2>1, <2>2
<1>10. /\ disk' \in [Folders -> [Titles -> Contents] \cup {Gone}]
       /\ \A g \in Folders, o \in Docs : FileIn(g, o)' = FileIn(g, o)
  <2>1. CASE disk[f] = Gone
    BY <1>2, <1>3, <1>4, <2>1, FolderMade DEF Resubmitted
  <2>2. CASE disk[f] # Gone
    BY <1>2, <1>4, <2>2, FilesKept DEF Resubmitted
  <2> QED BY <2>1, <2>2
<1>11. ASSUME NEW b \in DOMAIN batches PROVE AddedApart(b, {r}, f)
  <2>1. SUFFICES ASSUME Live(b), NEW o \in DocsOf(b) \cup {r},
                        o \in DocsOf(b) \cap {r} \/ batches[b].folder = f
                 PROVE  Spoiled(o)'
    BY DEF AddedApart
  <2>2. r \in DocsOf(b) \/ batches[b].folder = rec[r].zip
    BY <1>3, <2>1
  <2>3. o \in Disturbed(r) /\ o \in Docs
    BY <1>4, <1>6, <2>1, <2>2, BatchTypes
  <2> QED BY <1>5, <2>3
<1>12. batches' = Append(batches, Batch(f, {r})) /\ {r} \in SUBSET Docs
  BY <1>2 DEF Resubmitted
<1>14. \A o \in Docs, g \in Nat : Holds(rec'[o], g) => Holds(rec[o], g)
  BY <1>8
<1>15. ASSUME NEW o \in Docs, o # r, Title[o] = Title[r], Home(f, o)
       PROVE  Spoiled(r)' /\ Spoiled(o)'
  <2>1. Home(f, r) /\ f \in Nat
    BY <1>3, <1>13, <1>15, Titled
  <2>2. Spoiled(r) /\ Spoiled(o)
    BY <1>15, <2>1 DEF DownloadsInv, NamesApart
  <2> QED BY <1>5, <2>2, StaysSpoiled
<1>16. \A q \in {r}, o \in Docs : o # q /\ Title[o] = Title[q] /\ (o \in {r} \/ Home(f, o))
                                 => Spoiled(q)' /\ Spoiled(o)'
  BY <1>15
<1>17. \A q \in {r} : Home(f, q) \/ FileIn(f, q) = Absent
  BY <1>13 DEF FileIn
<1> QED BY <1>1, <1>3, <1>4, <1>5, <1>8, <1>9, <1>10, <1>11, <1>12, <1>14, <1>16, <1>17, BatchAdded

-----------------------------------------------------------------------------
(* The end of a batch                                                      *)

LEMMA BatchMoves ==
  ASSUME DownloadsTypes, NEW b0 \in DOMAIN batches, NEW batch \in Batches,
         batch.tasks = batches[b0].tasks, batch.folder = batches[b0].folder, Moves(b0, batch)
  PROVE  /\ batches' \in Seq(Batches) /\ DOMAIN batches' = DOMAIN batches
         /\ batches'[b0] = batch
         /\ \A b \in DOMAIN batches : /\ b # b0 => batches'[b] = batches[b]
                                      /\ batches'[b].folder = batches[b].folder
                                      /\ DocsOf(b)' = DocsOf(b)
                                      /\ \A r : TaskOf(b, r)' = TaskOf(b, r)
<1>1. batches \in Seq(Batches) /\ batches' = [batches EXCEPT ![b0] = batch]
  BY DEF DownloadsTypes, Moves
<1>2. /\ batches' \in Seq(Batches) /\ DOMAIN batches' = DOMAIN batches
      /\ batches'[b0] = batch /\ \A b \in DOMAIN batches : b # b0 => batches'[b] = batches[b]
  BY <1>1
<1>3. ASSUME NEW b \in DOMAIN batches
      PROVE  /\ batches'[b].folder = batches[b].folder
             /\ batches'[b].tasks = batches[b].tasks
  BY <1>2
<1>4. ASSUME NEW b \in DOMAIN batches
      PROVE  DocsOf(b)' = DocsOf(b) /\ \A r : TaskOf(b, r)' = TaskOf(b, r)
  BY <1>3 DEF DocsOf, TaskOf
<1> QED BY <1>2, <1>3, <1>4

\* A batch whose documents are done touches its records and its folder, and
\* neither is of use to another batch.
LEMMA FinalFrame ==
  ASSUME DownloadsInv, SpoiledStays,
         NEW b0 \in DOMAIN batches, Live(b0), \A r \in DocsOf(b0) : At(b0, r) = "done",
         NEW batch \in Batches,
         batch.tasks = batches[b0].tasks, batch.folder = batches[b0].folder, Moves(b0, batch),
         batch.final \subseteq DocsOf(b0),
         \A r \in Docs \ DocsOf(b0) : rec'[r] = rec[r],
         rec' \in [Docs -> Records], RecordsKnown', SettledInv',
         \A r \in Docs, f \in Nat : Holds(rec'[r], f) => Home(f, r),
         disk' \in [Folders -> [Titles -> Contents] \cup {Gone}],
         NEW f0, f0 = batches[b0].folder,
         \A f \in Folders, r \in Docs :
            FileIn(f, r)' = FileIn(f, r) \/ (f = f0 /\ FileIn(f, r)' = Absent),
         asked' = asked,
         delivered' \in [Docs -> SUBSET Contents],
         spoiled' \in [Docs -> SUBSET Causes],
         \A r \in DocsOf(b0) : Spoiled(r)' \/ EndsWell(b0, r)'
  PROVE  DownloadsInv'
<1>1. DownloadsTypes
  BY DEF DownloadsInv
<1>2. /\ batches' \in Seq(Batches) /\ DOMAIN batches' = DOMAIN batches
      /\ batches'[b0] = batch
      /\ \A b \in DOMAIN batches : /\ b # b0 => batches'[b] = batches[b]
                                   /\ batches'[b].folder = batches[b].folder
                                   /\ DocsOf(b)' = DocsOf(b)
                                   /\ \A r : TaskOf(b, r)' = TaskOf(b, r)
  BY <1>1, BatchMoves
<1>3. DownloadsTypes'
  BY <1>1, <1>2 DEF DownloadsTypes, Gone
<1>4. BatchesInv'
  <2>1. SUFFICES ASSUME NEW b \in DOMAIN batches PROVE Finalized(b)' /\ Known(b)'
    BY <1>2 DEF BatchesInv
  <2>2. Finalized(b) /\ Known(b)
    BY DEF DownloadsInv, BatchesInv
  <2>3. Known(b)'
    BY <1>2, <2>2 DEF Known
  <2>4. \A r : At(b, r)' = At(b, r)
    BY <1>2 DEF At
  <2>5. Finalized(b)'
    BY <1>2, <2>2, <2>4 DEF Finalized
  <2> QED BY <2>3, <2>5
<1>5. ApartInv'
  <2>1. SUFFICES ASSUME NEW b \in DOMAIN batches, NEW c \in DOMAIN batches PROVE Apart(b, c)'
    BY <1>2 DEF ApartInv
  <2>2. Apart(b, c) /\ DocsOf(b) \subseteq Docs
    BY <1>1, BatchTypes DEF DownloadsInv, ApartInv
  <2>3. \A r \in DocsOf(b) : Spoiled(r) => Spoiled(r)'
    BY <2>2, StaysSpoiled
  <2>4. (Live(b)' => Live(b)) /\ (Live(c)' => Live(c))
    BY <1>2 DEF Live
  <2> QED BY <1>2, <2>2, <2>3, <2>4 DEF Apart
<1>8. HomesStay /\ NamesApart'
  <2>1. \A b \in DOMAIN batches : Live(b)' => Live(b)
    BY <1>2 DEF Live
  <2>2. \A b \in DOMAIN batches : \A r \in DocsOf(b), f \in Nat : Holds(TaskOf(b, r)'.copy, f) => Home(f, r)
    BY <1>2, AtHome
  <2>3. HomesStay
    BY <1>2, <2>1, <2>2, HomesKept
  <2> QED BY <2>3, NamesKept DEF DownloadsInv
<1>6. PartInv'
  <2>1. SUFFICES ASSUME NEW f \in Folders, NEW r \in Docs, Home(f, r)' PROVE Part(f, r)'
    BY DEF PartInv
  <2>2. Part(f, r)
    BY <1>8, <2>1, Titled DEF DownloadsInv, PartInv, HomesStay
  <2>3. CASE FileIn(f, r)' = FileIn(f, r)
    BY <2>2, <2>3, StaysSpoiled DEF Part, Begun
  <2>4. CASE FileIn(f, r)' = Absent
    BY <2>4 DEF Part, Absent
  <2> QED BY <2>3, <2>4
<1>7. WorksInv'
  <2>1. SUFFICES ASSUME NEW b \in DOMAIN batches, NEW r \in DocsOf(b)
                 PROVE  Works(b, r)' /\ CopyInv(b, r)'
    BY <1>2 DEF WorksInv
  <2>2. r \in Docs /\ Works(b, r) /\ CopyInv(b, r) /\ batches[b].folder \in Folders
    BY TaskBefore
  <2>3. CopyInv(b, r)'
    BY <1>2, <2>2, StaysSpoiled DEF CopyInv
  <2>4. At(b, r)' = At(b, r)
    BY <1>2 DEF At
  <2>5. CASE b = b0
    <3>1. Streams(b, r)'
      BY <2>4, <2>5 DEF Streams
    <3> QED BY <2>3, <2>5, <3>1 DEF Works
  <2>6. CASE b # b0 /\ ~Live(b)
    <3>1. At(b, r) = "done" /\ batches'[b].step = "closed"
      BY <1>2, <2>6 DEF DownloadsInv, BatchesInv, Finalized, Live
    <3>2. Streams(b, r)' /\ EndsWell(b, r)'
      BY <2>4, <3>1 DEF Streams, EndsWell
    <3> QED BY <2>3, <3>2 DEF Works
  <2>7. CASE b # b0 /\ Live(b) /\ Spoiled(r)
    BY <2>2, <2>3, <2>7, StaysSpoiled DEF Works
  <2>8. CASE b # b0 /\ Live(b) /\ ~Spoiled(r)
    <3>1. r \notin DocsOf(b0) /\ batches[b].folder # f0
      BY <2>8 DEF DownloadsInv, ApartInv, Apart
    <3>2. PICK f \in Folders : f = batches[b].folder
      BY <2>2
    <3>3. FileIn(f, r)' = FileIn(f, r) /\ rec'[r] = rec[r]
      BY <2>2, <3>1, <3>2
    <3>4. FileOf(b, r)' = FileOf(b, r)
      BY <1>2, <3>2, <3>3 DEF FileOf, FileIn
    <3>5. Streams(b, r) /\ EndsWell(b, r)
      BY <2>2, <2>8 DEF Works
    <3>6. Streams(b, r)'
      BY <1>2, <2>4, <3>4, <3>5 DEF Streams, Begun
    <3>7. EndsWell(b, r)'
      BY <1>2, <2>4, <2>8, <3>3, <3>4, <3>5 DEF EndsWell, Whole
    <3> QED BY <2>3, <3>6, <3>7 DEF Works
  <2> QED BY <2>5, <2>6, <2>7, <2>8
<1> QED BY <1>3, <1>4, <1>5, <1>6, <1>7, <1>8 DEF DownloadsInv

\* What is known of a batch that is being finalized.
LEMMA FinalBefore ==
  ASSUME DownloadsInv, NEW b \in DOMAIN batches
  PROVE  /\ DownloadsTypes /\ batches[b] \in Batches /\ batches[b].final \subseteq DocsOf(b)
         /\ DocsOf(b) \subseteq Docs /\ DocsOf(b) \subseteq asked
         /\ batches[b].folder \in Folders
         /\ batches[b].archive \in [Titles -> Contents] \cup {<< >>}
         /\ batches[b].step # "open" => \A r \in DocsOf(b) : At(b, r) = "done"
         /\ \A r \in DocsOf(b) : Spoiled(r) \/ EndsWell(b, r)
<1>1. DownloadsTypes
  BY DEF DownloadsInv
<1>2. /\ batches[b] \in Batches /\ DocsOf(b) \subseteq Docs /\ batches[b].folder \in Folders
      /\ batches[b].archive \in [Titles -> Contents] \cup {<< >>}
  BY <1>1, BatchTypes DEF Batches
<1>3. Finalized(b) /\ Known(b)
  BY DEF DownloadsInv, BatchesInv
<1>4. \A r \in DocsOf(b) : Spoiled(r) \/ EndsWell(b, r)
  BY TaskBefore DEF Works
<1> QED BY <1>1, <1>2, <1>3, <1>4 DEF Finalized, Known

LEMMA SettledKept ==
  ASSUME DownloadsInv, SpoiledStays, rec' = rec, delivered' = delivered, asked' = asked
  PROVE  /\ RecordsKnown' /\ SettledInv' /\ rec' \in [Docs -> Records]
         /\ \A r, f : Holds(rec'[r], f) => Home(f, r)
<1>1. \A r \in Docs : Calm(r)
  BY DEF Calm
<1> QED BY <1>1, CalmRecords DEF DownloadsInv, DownloadsTypes, Home

LEMMA FinalReadKeeps ==
  ASSUME DownloadsInv, NEW b \in DOMAIN batches, FinalRead(b)
  PROVE  DownloadsInv'
<1>1. /\ batches[b].step = "open" /\ \A r \in DocsOf(b) : At(b, r) = "done"
      /\ UNCHANGED <<rec, disk, spoiled, asked, delivered>>
  BY DEF FinalRead, Task
<1>2. PICK batch : batch = [batches[b] EXCEPT !.step = "archive",
                                !.final = {r \in DocsOf(b) : rec[r].status = "IN_PROGRESS"}]
  OBVIOUS
<1>3. /\ DownloadsTypes /\ batches[b] \in Batches /\ DocsOf(b) \subseteq Docs
      /\ \A r \in DocsOf(b) : Spoiled(r) \/ EndsWell(b, r)
  BY FinalBefore
<1>4. /\ batch \in Batches /\ batch.tasks = batches[b].tasks /\ batch.folder = batches[b].folder
      /\ batch.step = "archive" /\ batch.final = {r \in DocsOf(b) : rec[r].status = "IN_PROGRESS"}
      /\ Moves(b, batch)
  BY <1>2, <1>3 DEF Batches, FinalRead
<1>5. /\ SpoiledStays /\ spoiled' \in [Docs -> SUBSET Causes] /\ \A r : Spoiled(r)' <=> Spoiled(r)
  BY <1>1, <1>3, SpoiledKept
<1>6. batches'[b] = batch
  BY <1>3, <1>4, BatchMoves
<1>7. ASSUME NEW r \in DocsOf(b) PROVE Spoiled(r)' \/ EndsWell(b, r)'
  <2>1. FileOf(b, r)' = FileOf(b, r)
    BY <1>1, <1>4, <1>6 DEF FileOf, FileIn, Gone
  <2>2. r \in batch.final => Spoiled(r) \/ Whole(FileOf(b, r), r)
    BY <1>1, <1>3, <1>4 DEF EndsWell
  <2>3. EndsWell(b, r)' \/ Spoiled(r)
    BY <1>4, <1>6, <2>1, <2>2 DEF EndsWell, Whole
  <2> QED BY <1>5, <2>3
<1>8. /\ RecordsKnown' /\ SettledInv' /\ rec' \in [Docs -> Records]
      /\ \A r, f : Holds(rec'[r], f) => Home(f, r)
  BY <1>1, <1>5, SettledKept
<1>9. /\ disk' \in [Folders -> [Titles -> Contents] \cup {Gone}]
      /\ \A f \in Folders, r \in Docs : FileIn(f, r)' = FileIn(f, r)
  BY <1>1, <1>3, FilesKept
<1>10. delivered' \in [Docs -> SUBSET Contents] /\ batch.final \subseteq DocsOf(b) /\ Live(b)
  BY <1>1, <1>3, <1>4 DEF DownloadsTypes, Live
<1> QED BY <1>1, <1>4, <1>5, <1>7, <1>8, <1>9, <1>10, FinalFrame

LEMMA ArchiveFailsKeeps ==
  ASSUME DownloadsInv, NEW b \in DOMAIN batches, ArchiveFails(b)
  PROVE  DownloadsInv'
<1>1. /\ batches[b].step = "archive" /\ UNCHANGED <<rec, disk, asked, delivered>>
      /\ spoiled' = [r \in Docs |-> spoiled[r] \cup IF r \in batches[b].final THEN {"unzipped"} ELSE {}]
  BY DEF ArchiveFails, Task
<1>2. PICK batch : batch = [batches[b] EXCEPT !.step = "complete"]
  OBVIOUS
<1>3. /\ DownloadsTypes /\ batches[b] \in Batches /\ DocsOf(b) \subseteq Docs
      /\ batches[b].final \subseteq DocsOf(b)
      /\ \A r \in DocsOf(b) : At(b, r) = "done"
  BY <1>1, FinalBefore
<1>4. /\ batch \in Batches /\ batch.tasks = batches[b].tasks /\ batch.folder = batches[b].folder
      /\ batch.step = "complete" /\ batch.final = batches[b].final /\ Moves(b, batch)
  BY <1>2, <1>3 DEF Batches, ArchiveFails
<1>5. ASSUME NEW r \in Docs
      PROVE  /\ spoiled[r] \subseteq spoiled'[r] /\ spoiled'[r] \in SUBSET Causes
             /\ r \in batches[b].final => Spoiled(r)'
  <2>1. spoiled'[r] = spoiled[r] \cup IF r \in batches[b].final THEN {"unzipped"} ELSE {}
    BY <1>1
  <2>2. spoiled[r] \in SUBSET Causes /\ "unzipped" \in Causes
    BY <1>3 DEF DownloadsTypes, Causes
  <2> QED BY <2>1, <2>2 DEF Spoiled
<1>6. SpoiledStays /\ spoiled' \in [Docs -> SUBSET Causes]
  BY <1>1, <1>5 DEF SpoiledStays
<1>7. batches'[b] = batch
  BY <1>3, <1>4, BatchMoves
<1>8. ASSUME NEW r \in DocsOf(b) PROVE Spoiled(r)' \/ EndsWell(b, r)'
  <2>1. CASE r \in batches[b].final
    BY <1>3, <1>5, <2>1
  <2>2. CASE r \notin batches[b].final
    BY <1>4, <1>7, <2>2 DEF EndsWell
  <2> QED BY <2>1, <2>2
<1>9. /\ RecordsKnown' /\ SettledInv' /\ rec' \in [Docs -> Records]
      /\ \A r, f : Holds(rec'[r], f) => Home(f, r)
  BY <1>1, <1>6, SettledKept
<1>10. /\ disk' \in [Folders -> [Titles -> Contents] \cup {Gone}]
       /\ \A f \in Folders, r \in Docs : FileIn(f, r)' = FileIn(f, r)
  BY <1>1, <1>3, FilesKept
<1>11. delivered' \in [Docs -> SUBSET Contents] /\ batch.final \subseteq DocsOf(b) /\ Live(b)
  BY <1>1, <1>3, <1>4 DEF DownloadsTypes, Live
<1> QED BY <1>1, <1>3, <1>4, <1>6, <1>8, <1>9, <1>10, <1>11, FinalFrame

LEMMA FinalCompleteKeeps ==
  ASSUME DownloadsInv, NEW b \in DOMAIN batches, FinalComplete(b)
  PROVE  DownloadsInv'
<1> DEFINE a == batches[b].archive
           complete(r) == [rec[r] EXCEPT !.status = "COMPLETED",
                               !.zip = IF a = << >> THEN rec[r].zip ELSE -batches[b].folder,
                               !.got = IF a = << >> THEN Absent ELSE a[Title[r]]]
<1>1. /\ batches[b].step = "complete" /\ UNCHANGED <<disk, spoiled, asked, delivered>>
      /\ rec' = [r \in Docs |-> IF r \in batches[b].final /\ Recorded(r) THEN complete(r) ELSE rec[r]]
  BY DEF FinalComplete, Task
<1>2. PICK batch : batch = [batches[b] EXCEPT !.step = "closed", !.final = {}, !.archive = << >>]
  OBVIOUS
<1>3. /\ DownloadsTypes /\ batches[b] \in Batches /\ DocsOf(b) \subseteq Docs
      /\ batches[b].final \subseteq DocsOf(b) /\ DocsOf(b) \subseteq asked
      /\ batches[b].folder \in Folders /\ a \in [Titles -> Contents] \cup {<< >>}
      /\ \A r \in DocsOf(b) : At(b, r) = "done" /\ (Spoiled(r) \/ EndsWell(b, r))
  BY <1>1, FinalBefore
<1>4. /\ batch \in Batches /\ batch.tasks = batches[b].tasks /\ batch.folder = batches[b].folder
      /\ batch.step = "closed" /\ batch.final = {} /\ Moves(b, batch)
  BY <1>2, <1>3 DEF Batches, FinalComplete
<1>5. /\ SpoiledStays /\ spoiled' \in [Docs -> SUBSET Causes]
      /\ \A r, c : Settled(r, c)' <=> Settled(r, c)
  BY <1>1, <1>3, SpoiledKept
<1>6. ASSUME NEW r \in Docs, r \in batches[b].final
      PROVE  /\ complete(r) \in Records /\ Settled(r, complete(r).got)
             /\ complete(r).zip \in {rec[r].zip, -batches[b].folder}
  <2>1. PICK zip \in Int : zip = IF a = << >> THEN rec[r].zip ELSE -batches[b].folder
    BY <1>3 DEF DownloadsTypes, Records, Folders
  <2>2. PICK got \in Contents : got = IF a = << >> THEN Absent ELSE a[Title[r]]
    BY <1>3, BlankRecord, Titled
  <2>3. complete(r) = [rec[r] EXCEPT !.status = "COMPLETED", !.zip = zip, !.got = got]
    BY <2>1, <2>2
  <2>4. complete(r) \in Records /\ complete(r).got = got /\ complete(r).zip = zip
    <3>1. rec[r] \in Records
      BY <1>3 DEF DownloadsTypes
    <3>2. "COMPLETED" \in Statuses
      BY DEF Statuses, Over
    <3>3. PICK new : new = complete(r)
      OBVIOUS
    <3> HIDE DEF complete
    <3>4. new = [rec[r] EXCEPT !.status = "COMPLETED", !.zip = zip, !.got = got]
      BY <2>3, <3>3
    <3>5. new \in Records /\ new.got = got /\ new.zip = zip
      BY <3>1, <3>2, <3>4 DEF Records
    <3> QED BY <3>3, <3>5
  <2>5. Spoiled(r) \/ (a # << >> /\ Whole(a[Title[r]], r))
    BY <1>1, <1>3, <1>6 DEF EndsWell
  <2> QED BY <2>1, <2>2, <2>4, <2>5 DEF Settled
<1> HIDE DEF complete
<1>7. \A r \in Docs : rec'[r] = IF r \in batches[b].final /\ Recorded(r) THEN complete(r) ELSE rec[r]
  BY <1>1
<1>8. rec' \in [Docs -> Records] /\ \A r \in Docs \ DocsOf(b) : rec'[r] = rec[r]
  BY <1>1, <1>3, <1>6 DEF DownloadsTypes
<1>9. RecordsKnown' /\ SettledInv'
  <2>1. ASSUME NEW r \in Docs PROVE RecordInv(r)' /\ DeliveredInv(r)' /\ (Recorded(r)' => r \in asked')
    <3>1. RecordInv(r) /\ DeliveredInv(r) /\ (Recorded(r) => r \in asked)
      BY DEF DownloadsInv, SettledInv, RecordsKnown
    <3>2. DeliveredInv(r)'
      BY <1>1, <3>1 DEF DeliveredInv, Whole
    <3>3. RecordInv(r)'
      BY <1>5, <1>6, <1>7, <3>1 DEF RecordInv
    <3>4. Recorded(r)' => r \in asked'
      BY <1>1, <1>3, <1>7, <3>1 DEF Recorded
    <3> QED BY <3>2, <3>3, <3>4
  <2> QED BY <2>1 DEF RecordsKnown, SettledInv
<1>10. /\ disk' \in [Folders -> [Titles -> Contents] \cup {Gone}]
       /\ \A f \in Folders, r \in Docs : FileIn(f, r)' = FileIn(f, r)
  BY <1>1, <1>3, FilesKept
<1>11. delivered' \in [Docs -> SUBSET Contents] /\ batch.final \subseteq DocsOf(b) /\ Live(b)
  BY <1>1, <1>3, <1>4 DEF DownloadsTypes, Live
<1>12. \A r \in DocsOf(b) : Spoiled(r)' \/ EndsWell(b, r)'
  <2>1. batches'[b].step = "closed"
    BY <1>3, <1>4, BatchMoves
  <2> QED BY <2>1 DEF EndsWell
<1>13. ASSUME NEW r \in Docs, NEW f \in Nat, Holds(rec'[r], f) PROVE Home(f, r)
  <2>1. CASE rec'[r].zip = rec[r].zip
    <3>1. Holds(rec[r], f)
      BY <1>7, <1>13, <2>1 DEF Holds, Recorded
    <3> QED BY <3>1 DEF Home
  <2>2. CASE rec'[r].zip # rec[r].zip
    <3>1. r \in batches[b].final /\ rec'[r].zip = -batches[b].folder
      BY <1>6, <1>7, <2>2
    <3>2. f = batches[b].folder
      BY <1>3, <1>13, <3>1, Titled DEF Holds
    <3> QED BY <1>3, <1>11, <3>1, <3>2, AtHome
  <2> QED BY <2>1, <2>2
<1> QED BY <1>1, <1>3, <1>4, <1>5, <1>8, <1>9, <1>10, <1>11, <1>12, <1>13, FinalFrame

\* The archive takes all the files of the folder: those of the documents that
\* ended well are whole, and the others are said to be "taken".
LEMMA FinalArchiveKeeps ==
  ASSUME DownloadsInv, NEW b \in DOMAIN batches, FinalArchive(b)
  PROVE  DownloadsInv'
<1>1. PICK f \in Folders : f = batches[b].folder
  BY FinalBefore
<1> DEFINE archived == batches[b].final # {} /\ HasFiles(f)
<1>2. PICK put : put = {r \in DocsOf(b) : archived /\ FileIn(f, r) # Absent}
  OBVIOUS
<1>3. PICK archive : archive = IF archived THEN disk[f] ELSE << >>
  OBVIOUS
<1>4. PICK batch : batch = [batches[b] EXCEPT !.step = "complete", !.archive = archive]
  OBVIOUS
<1>5. /\ batches[b].step = "archive" /\ UNCHANGED <<rec, asked>>
      /\ delivered' = [r \in Docs |-> IF r \in put THEN delivered[r] \cup {FileIn(f, r)} ELSE delivered[r]]
      /\ disk' = [disk EXCEPT ![f] = Gone]
      /\ Moves(b, batch)
      /\ spoiled' = [r \in Docs |-> spoiled[r] \cup IF r \in put \ batches[b].final THEN {"taken"} ELSE {}]
  BY <1>1, <1>2, <1>3, <1>4 DEF FinalArchive, Removed
<1>6. /\ DownloadsTypes /\ batches[b] \in Batches /\ DocsOf(b) \subseteq Docs
      /\ batches[b].final \subseteq DocsOf(b)
      /\ \A r \in DocsOf(b) : At(b, r) = "done" /\ (Spoiled(r) \/ EndsWell(b, r))
  BY <1>5, FinalBefore
<1>7. /\ disk \in [Folders -> [Titles -> Contents] \cup {Gone}]
      /\ put \subseteq Docs
      /\ \A r \in put : FileIn(f, r) \in Contents
      /\ archived => disk[f] # Gone /\ disk[f] \in [Titles -> Contents]
  <2>1. disk \in [Folders -> [Titles -> Contents] \cup {Gone}]
    BY <1>6 DEF DownloadsTypes
  <2>2. archived => disk[f] # Gone /\ disk[f] \in [Titles -> Contents]
    BY <2>1 DEF HasFiles
  <2>3. ASSUME NEW r \in put PROVE r \in Docs /\ FileIn(f, r) \in Contents
    BY <1>2, <1>6, <2>2, <2>3, Titled DEF FileIn
  <2> QED BY <2>1, <2>2, <2>3
<1>8. archive \in [Titles -> Contents] \cup {<< >>}
  BY <1>3, <1>7
<1>9. /\ batch \in Batches /\ batch.tasks = batches[b].tasks /\ batch.folder = batches[b].folder
      /\ batch.step = "complete" /\ batch.final = batches[b].final /\ batch.archive = archive
  BY <1>4, <1>6, <1>8 DEF Batches
<1>10. ASSUME NEW r \in Docs
       PROVE  /\ spoiled[r] \subseteq spoiled'[r] /\ spoiled'[r] \in SUBSET Causes
              /\ r \in put \ batches[b].final => spoiled'[r] # {}
  <2>1. spoiled'[r] = spoiled[r] \cup IF r \in put \ batches[b].final THEN {"taken"} ELSE {}
    BY <1>5
  <2>2. spoiled[r] \in SUBSET Causes /\ "taken" \in Causes
    BY <1>6 DEF DownloadsTypes, Causes
  <2> QED BY <2>1, <2>2
<1>11. SpoiledStays /\ spoiled' \in [Docs -> SUBSET Causes]
  BY <1>5, <1>10 DEF SpoiledStays
<1>12. ASSUME NEW r \in DocsOf(b), r \in batches[b].final, ~Spoiled(r)
       PROVE  Whole(FileIn(f, r), r) /\ r \in put
  <2>1. Whole(FileIn(f, r), r) /\ r \in Docs
    BY <1>1, <1>5, <1>6, <1>12 DEF EndsWell, FileOf
  <2>2. FileIn(f, r) # Absent
    BY <2>1, WholeFile
  <2>3. HasFiles(f)
    BY <2>1, <2>2, Titled DEF HasFiles, FileIn
  <2> QED BY <1>2, <1>12, <2>1, <2>2, <2>3
<1>13. batches'[b] = batch
  BY <1>5, <1>6, <1>9, BatchMoves
<1>14. ASSUME NEW r \in DocsOf(b) PROVE Spoiled(r)' \/ EndsWell(b, r)'
  <2>1. CASE r \notin batches[b].final
    BY <1>9, <1>13, <2>1 DEF EndsWell
  <2>2. CASE Spoiled(r)
    BY <1>6, <1>11, <2>2, StaysSpoiled
  <2>3. CASE r \in batches[b].final /\ ~Spoiled(r)
    <3>1. r \in put /\ r \in Docs /\ Whole(FileIn(f, r), r)
      BY <1>6, <1>12, <2>3
    <3>2. archive = disk[f] /\ archive \in [Titles -> Contents] /\ disk[f] # Gone
      BY <1>2, <1>3, <1>7, <3>1
    <3>4. Whole(archive[Title[r]], r)
      BY <3>1, <3>2 DEF FileIn
    <3>3. archive # << >>
      BY <3>1, <3>2, Titled
    <3> QED BY <1>9, <1>13, <3>3, <3>4 DEF EndsWell, Whole
  <2> QED BY <2>1, <2>2, <2>3
<1>15. rec' \in [Docs -> Records] /\ RecordsKnown' /\ SettledInv' /\ delivered' \in [Docs -> SUBSET Contents]
  <2>1. \A r \in Docs : Recorded(r)' => r \in asked'
    BY <1>5 DEF DownloadsInv, RecordsKnown, Recorded
  <2>2. delivered' \in [Docs -> SUBSET Contents] /\ rec' \in [Docs -> Records]
    BY <1>5, <1>6, <1>7 DEF DownloadsTypes
  <2>3. ASSUME NEW r \in Docs PROVE RecordInv(r)' /\ DeliveredInv(r)'
    <3>1. RecordInv(r) /\ DeliveredInv(r)
      BY DEF DownloadsInv, SettledInv
    <3>2. RecordInv(r)'
      BY <1>5, <1>11, <3>1, StaysSpoiled DEF RecordInv
    <3>3. SUFFICES ASSUME NEW c \in delivered'[r] PROVE Whole(c, r) \/ spoiled'[r] # {}
      BY <3>2 DEF DeliveredInv, Whole
    <3>4. CASE c \in delivered[r]
      BY <1>11, <3>1, <3>4, StaysSpoiled DEF DeliveredInv
    <3>5. CASE r \in put /\ c = FileIn(f, r)
      <4>1. CASE r \notin batches[b].final
        BY <1>10, <3>5, <4>1
      <4>2. CASE r \in batches[b].final /\ ~Spoiled(r)
        BY <1>6, <1>12, <3>5, <4>2
      <4>3. CASE Spoiled(r)
        BY <1>10, <4>3 DEF Spoiled
      <4> QED BY <4>1, <4>2, <4>3
    <3> QED BY <1>5, <3>3, <3>4, <3>5
  <2> QED BY <2>1, <2>2, <2>3 DEF RecordsKnown, SettledInv
<1>16. /\ disk' \in [Folders -> [Titles -> Contents] \cup {Gone}]
       /\ \A g \in Folders, r \in Docs :
             FileIn(g, r)' = FileIn(g, r) \/ (g = f /\ FileIn(g, r)' = Absent)
  <2>1. disk' \in [Folders -> [Titles -> Contents] \cup {Gone}]
    BY <1>5, <1>7
  <2>2. disk'[f] = Gone /\ \A g \in Folders : g # f => disk'[g] = disk[g]
    BY <1>5, <1>7
  <2>3. ASSUME NEW g \in Folders, NEW r \in Docs
        PROVE  FileIn(g, r)' = FileIn(g, r) \/ (g = f /\ FileIn(g, r)' = Absent)
    <3>1. CASE g = f
      BY <2>2, <3>1 DEF FileIn, Gone, Absent
    <3>2. CASE g # f
      BY <2>2, <3>2 DEF FileIn, Gone
    <3> QED BY <3>1, <3>2
  <2> QED BY <2>1, <2>3
<1>17. batch.final \subseteq DocsOf(b) /\ Live(b) /\ \A r \in Docs \ DocsOf(b) : rec'[r] = rec[r]
  BY <1>5, <1>6, <1>9 DEF Live
<1>18. \A r \in Docs, g \in Nat : Holds(rec'[r], g) => Home(g, r)
  BY <1>5 DEF Home
<1> QED BY <1>1, <1>5, <1>6, <1>9, <1>11, <1>14, <1>15, <1>16, <1>17, <1>18, FinalFrame

-----------------------------------------------------------------------------
(* The application                                                         *)

LEMMA StopMoves ==
  ASSUME DownloadsInv, Stop
  PROVE  /\ batches' \in Seq(Batches) /\ DOMAIN batches' = DOMAIN batches
         /\ \A b \in DOMAIN batches :
               /\ batches'[b].folder = batches[b].folder /\ batches'[b].step = batches[b].step
               /\ batches'[b].final = batches[b].final /\ batches'[b].archive = batches[b].archive
               /\ DocsOf(b)' = DocsOf(b)
               /\ \A r \in DocsOf(b) :
                     \/ TaskOf(b, r)' = TaskOf(b, r)
                     \/ /\ At(b, r) = "queued" /\ At(b, r)' = "dropped"
                        /\ TaskOf(b, r)'.copy = TaskOf(b, r).copy
<1> DEFINE task(b, r) == IF At(b, r) = "queued" THEN [TaskOf(b, r) EXCEPT !.at = "dropped"] ELSE TaskOf(b, r)
           tasks(b) == [r \in DocsOf(b) |-> task(b, r)]
           batch(b) == [batches[b] EXCEPT !.tasks = tasks(b)]
<1>1. DownloadsTypes /\ batches \in Seq(Batches)
  BY DEF DownloadsInv, DownloadsTypes
<1>2. batches' = [b \in DOMAIN batches |-> batch(b)]
  BY DEF Stop
<1>3. ASSUME NEW b \in DOMAIN batches, NEW r \in DocsOf(b)
      PROVE  /\ task(b, r) \in Tasks
             /\ \/ task(b, r) = TaskOf(b, r)
                \/ /\ At(b, r) = "queued" /\ task(b, r).at = "dropped"
                   /\ task(b, r).copy = TaskOf(b, r).copy
  <2>1. TaskOf(b, r) \in Tasks
    BY TaskBefore
  <2> QED BY <2>1 DEF Tasks, Places
<1> HIDE DEF task
<1>4. ASSUME NEW b \in DOMAIN batches
      PROVE  /\ batch(b) \in Batches
             /\ batch(b).folder = batches[b].folder /\ batch(b).step = batches[b].step
             /\ batch(b).final = batches[b].final /\ batch(b).archive = batches[b].archive
             /\ batch(b).tasks = tasks(b)
  <2>1. batches[b] \in Batches /\ DocsOf(b) \in SUBSET Docs
    BY <1>1, BatchTypes
  <2>2. tasks(b) \in [DocsOf(b) -> Tasks]
    BY <1>3
  <2> HIDE DEF tasks
  <2>3. batch(b) \in Batches
    BY <2>1, <2>2 DEF Batches
  <2>4. batch(b).tasks = tasks(b)
    BY <2>1 DEF Batches
  <2> QED BY <2>1, <2>3, <2>4 DEF Batches
<1> HIDE DEF batch
<1>5. /\ batches' \in Seq(Batches) /\ DOMAIN batches' = DOMAIN batches
      /\ \A b \in DOMAIN batches : batches'[b] = batch(b)
  <2>1. Len(batches) \in Nat /\ DOMAIN batches = 1 .. Len(batches)
    BY <1>1
  <2>2. \A b \in DOMAIN batches : batch(b) \in Batches
    BY <1>4
  <2> QED BY <1>2, <2>1, <2>2
<1>6. ASSUME NEW b \in DOMAIN batches
      PROVE  /\ DocsOf(b)' = DocsOf(b)
             /\ \A r \in DocsOf(b) : TaskOf(b, r)' = task(b, r)
  <2>1. batches'[b].tasks = tasks(b)
    BY <1>4, <1>5
  <2>2. DOMAIN tasks(b) = DocsOf(b) /\ \A r \in DocsOf(b) : tasks(b)[r] = task(b, r)
    OBVIOUS
  <2> QED BY <2>1, <2>2 DEF DocsOf, TaskOf
<1>7. ASSUME NEW b \in DOMAIN batches, NEW r \in DocsOf(b)
      PROVE  \/ TaskOf(b, r)' = TaskOf(b, r)
             \/ /\ At(b, r) = "queued" /\ At(b, r)' = "dropped"
                /\ TaskOf(b, r)'.copy = TaskOf(b, r).copy
  <2>1. At(b, r)' = TaskOf(b, r)'.at
    BY DEF At
  <2> QED BY <1>3, <1>6, <2>1
<1> QED BY <1>4, <1>5, <1>6, <1>7

LEMMA StopKeeps ==
  ASSUME DownloadsInv, Stop
  PROVE  DownloadsInv'
<1>1. UNCHANGED <<rec, disk, asked, delivered, spoiled>>
  BY DEF Stop
<1>2. /\ batches' \in Seq(Batches) /\ DOMAIN batches' = DOMAIN batches
      /\ \A b \in DOMAIN batches :
            /\ batches'[b].folder = batches[b].folder /\ batches'[b].step = batches[b].step
            /\ batches'[b].final = batches[b].final /\ batches'[b].archive = batches[b].archive
            /\ DocsOf(b)' = DocsOf(b)
            /\ \A r \in DocsOf(b) :
                  \/ TaskOf(b, r)' = TaskOf(b, r)
                  \/ /\ At(b, r) = "queued" /\ At(b, r)' = "dropped"
                     /\ TaskOf(b, r)'.copy = TaskOf(b, r).copy
  BY StopMoves
<1>3. /\ DownloadsTypes /\ SpoiledStays /\ \A r : Spoiled(r)' <=> Spoiled(r)
      /\ \A r, c : Settled(r, c)' <=> Settled(r, c)
  BY <1>1, SpoiledKept DEF DownloadsInv
<1>4. DownloadsTypes'
  BY <1>1, <1>2, <1>3 DEF DownloadsTypes, Gone
<1>5. RecordsKnown' /\ SettledInv'
  BY <1>1, <1>3, SettledKept
<1>6. ASSUME NEW b \in DOMAIN batches, NEW r \in DocsOf(b)
      PROVE  /\ At(b, r) = "done" <=> At(b, r)' = "done"
             /\ At(b, r)' = "stream" => TaskOf(b, r)' = TaskOf(b, r)
             /\ TaskOf(b, r)'.copy = TaskOf(b, r).copy
  BY <1>2 DEF At
<1>7. BatchesInv'
  <2>1. SUFFICES ASSUME NEW b \in DOMAIN batches PROVE Finalized(b)' /\ Known(b)'
    BY <1>2 DEF BatchesInv
  <2>2. Finalized(b) /\ Known(b)
    BY DEF DownloadsInv, BatchesInv
  <2>3. Known(b)'
    BY <1>1, <1>2, <2>2 DEF Known
  <2>4. Finalized(b)'
    BY <1>2, <1>6, <2>2 DEF Finalized
  <2> QED BY <2>3, <2>4
<1>8. ApartInv'
  BY <1>2, <1>3 DEF DownloadsInv, ApartInv, Apart, Live
<1>11. HomesStay /\ NamesApart'
  <2>1. \A b \in DOMAIN batches : Live(b)' => Live(b)
    BY <1>2 DEF Live
  <2>2. \A b \in DOMAIN batches : \A r \in DocsOf(b), f \in Nat : Holds(TaskOf(b, r)'.copy, f) => Home(f, r)
    BY <1>2, <1>6, AtHome
  <2>3. \A r \in Docs, f \in Nat : Holds(rec'[r], f) => Home(f, r)
    BY <1>1 DEF Home
  <2>4. HomesStay
    BY <1>2, <2>1, <2>2, <2>3, HomesKept
  <2> QED BY <1>3, <2>4, NamesKept DEF DownloadsInv
<1>9. PartInv'
  <2>1. SUFFICES ASSUME NEW f \in Folders, NEW r \in Docs, Home(f, r)' PROVE Part(f, r)'
    BY DEF PartInv
  <2>2. Part(f, r)
    BY <1>11, <2>1, Titled DEF DownloadsInv, PartInv, HomesStay
  <2> QED BY <1>1, <2>2 DEF Part, FileIn, Gone, Titles, Spoiled, Begun
<1>10. WorksInv'
  <2>1. SUFFICES ASSUME NEW b \in DOMAIN batches, NEW r \in DocsOf(b)
                 PROVE  Works(b, r)' /\ CopyInv(b, r)'
    BY <1>2 DEF WorksInv
  <2>2. Works(b, r) /\ CopyInv(b, r)
    BY TaskBefore
  <2>3. CopyInv(b, r)'
    BY <1>3, <1>6, <2>2 DEF CopyInv
  <2>4. FileOf(b, r)' = FileOf(b, r)
    BY <1>1, <1>2 DEF FileOf, FileIn, Gone
  <2>5. CASE Spoiled(r)
    BY <1>3, <2>3, <2>5 DEF Works
  <2>6. CASE ~Spoiled(r)
    <3>1. Streams(b, r) /\ EndsWell(b, r)
      BY <2>2, <2>6 DEF Works
    <3>2. Streams(b, r)'
      BY <1>6, <2>4, <3>1 DEF Streams, Begun, At
    <3>3. EndsWell(b, r)'
      BY <1>1, <1>2, <1>6, <2>4, <3>1 DEF EndsWell, Whole
    <3> QED BY <2>3, <3>2, <3>3 DEF Works
  <2> QED BY <2>5, <2>6
<1> QED BY <1>4, <1>5, <1>7, <1>8, <1>9, <1>10, <1>11 DEF DownloadsInv

\* The sweep empties the folders of the batches that are not settled, unless
\* a record is active.
LEMMA CleanupKeeps ==
  ASSUME DownloadsInv, Cleanup
  PROVE  DownloadsInv'
<1>1. PICK kept \in BOOLEAN :
        /\ disk' = IF kept THEN disk ELSE [f \in Folders |-> Gone]
        /\ spoiled' = [r \in Docs |-> spoiled[r] \cup IF ~kept /\ Unsettled(r) THEN {"swept"} ELSE {}]
  BY DEF Cleanup
<1>2. UNCHANGED <<rec, batches, asked, delivered>>
  BY DEF Cleanup
<1>3. DownloadsTypes
  BY DEF DownloadsInv
<1>4. ASSUME NEW r \in Docs
      PROVE  /\ spoiled[r] \subseteq spoiled'[r] /\ spoiled'[r] \in SUBSET Causes
             /\ ~kept /\ Unsettled(r) => Spoiled(r)'
  <2>1. spoiled'[r] = spoiled[r] \cup IF ~kept /\ Unsettled(r) THEN {"swept"} ELSE {}
    BY <1>1
  <2>2. spoiled[r] \in SUBSET Causes /\ "swept" \in Causes
    BY <1>3 DEF DownloadsTypes, Causes
  <2>3. spoiled[r] \subseteq spoiled'[r] /\ spoiled'[r] \in SUBSET Causes
    BY <2>1, <2>2
  <2>4. ~kept /\ Unsettled(r) => "swept" \in spoiled'[r]
    BY <2>1
  <2> QED BY <2>3, <2>4 DEF Spoiled
<1>5. SpoiledStays /\ spoiled' \in [Docs -> SUBSET Causes]
  BY <1>1, <1>4 DEF SpoiledStays
<1>6. /\ disk' \in [Folders -> [Titles -> Contents] \cup {Gone}]
      /\ \A f \in Folders, r \in Docs :
            FileIn(f, r)' = FileIn(f, r) \/ (~kept /\ FileIn(f, r)' = Absent)
  <2>1. CASE kept
    BY <1>1, <1>3, <2>1, FilesKept
  <2>2. CASE ~kept
    BY <1>1, <2>2 DEF FileIn, Gone, Absent
  <2> QED BY <2>1, <2>2
<1>7. DownloadsTypes'
  BY <1>2, <1>3, <1>5, <1>6 DEF DownloadsTypes, Gone
<1>8. RecordsKnown' /\ SettledInv'
  BY <1>2, <1>5, SettledKept
<1>9. \A b : DocsOf(b)' = DocsOf(b) /\ \A r : At(b, r)' = At(b, r) /\ TaskOf(b, r)' = TaskOf(b, r)
  BY <1>2 DEF DocsOf, At, TaskOf
<1>10. BatchesInv'
  BY <1>2, <1>9 DEF DownloadsInv, BatchesInv, Finalized, Known
<1>11. ApartInv'
  <2>1. SUFFICES ASSUME NEW b \in DOMAIN batches, NEW c \in DOMAIN batches PROVE Apart(b, c)'
    BY <1>2 DEF ApartInv
  <2>2. Apart(b, c) /\ DocsOf(b) \subseteq Docs
    BY <1>3, BatchTypes DEF DownloadsInv, ApartInv
  <2>3. \A r \in DocsOf(b) : Spoiled(r) => Spoiled(r)'
    BY <1>5, <2>2, StaysSpoiled
  <2> QED BY <1>2, <1>9, <2>2, <2>3 DEF Apart, Live
<1>14. HomesStay /\ NamesApart'
  <2>1. \A b \in DOMAIN batches : Live(b)' => Live(b)
    BY <1>2 DEF Live
  <2>2. \A b \in DOMAIN batches : \A r \in DocsOf(b), f \in Nat : Holds(TaskOf(b, r)'.copy, f) => Home(f, r)
    BY <1>9, AtHome
  <2>3. \A r \in Docs, f \in Nat : Holds(rec'[r], f) => Home(f, r)
    BY <1>2 DEF Home
  <2>4. HomesStay
    BY <1>2, <1>9, <2>1, <2>2, <2>3, HomesKept
  <2> QED BY <1>5, <2>4, NamesKept DEF DownloadsInv
<1>12. PartInv'
  <2>1. SUFFICES ASSUME NEW f \in Folders, NEW r \in Docs, Home(f, r)' PROVE Part(f, r)'
    BY DEF PartInv
  <2>2. Part(f, r)
    BY <1>14, <2>1, Titled DEF DownloadsInv, PartInv, HomesStay
  <2>3. CASE FileIn(f, r)' = FileIn(f, r)
    BY <1>5, <2>2, <2>3, StaysSpoiled DEF Part, Begun
  <2>4. CASE FileIn(f, r)' = Absent
    BY <2>4 DEF Part, Absent
  <2> QED BY <1>6, <2>3, <2>4
<1>13. WorksInv'
  <2>1. SUFFICES ASSUME NEW b \in DOMAIN batches, NEW r \in DocsOf(b)
                 PROVE  Works(b, r)' /\ CopyInv(b, r)'
    BY <1>2, <1>9 DEF WorksInv
  <2>2. r \in Docs /\ Works(b, r) /\ CopyInv(b, r) /\ batches'[b] = batches[b]
    BY <1>2, TaskBefore
  <2>3. CASE Live(b) /\ ~kept
    <3>1. Unsettled(r)
      BY <2>1, <2>3 DEF Unsettled, Live
    <3>2. Spoiled(r)'
      BY <1>4, <2>2, <2>3, <3>1
    <3> QED BY <1>5, <2>2, <3>2, StillWorks
  <2>4. CASE kept
    <3>1. Calm(r) /\ \A f \in Folders : FileIn(f, r)' = FileIn(f, r)
      BY <1>2, <1>6, <2>2, <2>4 DEF Calm
    <3> QED BY <1>5, <2>2, <3>1, StillWorks
  <2>5. CASE ~Live(b)
    <3>1. At(b, r) = "done" /\ batches'[b].step = "closed"
      BY <1>2, <2>5 DEF DownloadsInv, BatchesInv, Finalized, Live
    <3>2. Streams(b, r)' /\ EndsWell(b, r)'
      BY <1>9, <3>1 DEF Streams, EndsWell
    <3>3. CopyInv(b, r)'
      BY <1>5, <1>9, <2>2, StaysSpoiled DEF CopyInv
    <3> QED BY <3>2, <3>3 DEF Works
  <2> QED BY <2>3, <2>4, <2>5
<1> QED BY <1>7, <1>8, <1>10, <1>11, <1>12, <1>13, <1>14 DEF DownloadsInv

LEMMA InOrder ==
  ASSUME NEW S, IsFiniteSet(S)
  PROVE  /\ SetToSeq(S) \in [1 .. Cardinality(S) -> S] /\ Cardinality(S) \in Nat
         /\ \A i, j \in 1 .. Cardinality(S) : i # j => SetToSeq(S)[i] # SetToSeq(S)[j]
<1>1. Cardinality(S) \in Nat /\ ExistsBijection(1 .. Cardinality(S), S)
  BY FS_CardinalityType
<1>2. \E f \in [1 .. Cardinality(S) -> S] : IsInjective(f)
  BY <1>1 DEF ExistsBijection, Bijection, Injection
<1>3. SetToSeq(S) \in [1 .. Cardinality(S) -> S] /\ IsInjective(SetToSeq(S))
  BY <1>2 DEF SetToSeq
<1> QED BY <1>1, <1>3 DEF IsInjective

\* The records that go on, by their folders.
LEMMA GroupsApart ==
  /\ IsFiniteSet(Groups)
  /\ \A g \in Groups : g \in SUBSET Resumable
  /\ \A g, h \in Groups : g # h => g \cap h = {}
  /\ \A g \in Groups, r \in Docs :
        r \in g => rec[r].zip = rec[CHOOSE o \in g : TRUE].zip /\ rec[r].status # "none"
<1>1. \A g \in Groups : g \in SUBSET Resumable
  BY DEF Groups
<1>2. IsFiniteSet(Groups)
  <2>1. Groups \subseteq SUBSET Docs
    BY <1>1 DEF Resumable
  <2> QED BY <2>1, DocsAssumption, FS_SUBSET, FS_Subset DEF DocsAssumption
<1>3. ASSUME NEW g \in Groups, NEW h \in Groups, g \cap h # {} PROVE g = h
  <2>1. PICK r \in Resumable : g = {o \in Resumable : rec[o].zip = rec[r].zip}
    BY DEF Groups
  <2>2. PICK s \in Resumable : h = {o \in Resumable : rec[o].zip = rec[s].zip}
    BY DEF Groups
  <2>3. rec[r].zip = rec[s].zip
    BY <1>3, <2>1, <2>2
  <2> QED BY <2>1, <2>2, <2>3
<1>4. ASSUME NEW g \in Groups, NEW r \in g
      PROVE  rec[r].zip = rec[CHOOSE o \in g : TRUE].zip /\ rec[r].status # "none"
  <2>1. PICK s \in Resumable : g = {o \in Resumable : rec[o].zip = rec[s].zip}
    BY DEF Groups
  <2>2. (CHOOSE o \in g : TRUE) \in g
    OBVIOUS
  <2> QED BY <2>1, <2>2 DEF Resumable, Active
<1> QED BY <1>1, <1>2, <1>3, <1>4

\* The batches of the next run, each in a folder of its own.
LEMMA RestartKeeps ==
  ASSUME DownloadsInv, Restarts(Groups), UNCHANGED <<asked, delivered, spoiled>>
  PROVE  DownloadsInv'
<1>1. PICK order : order = SetToSeq(Groups)
  OBVIOUS
<1>2. PICK folder \in Placings(Groups) :
        /\ disk' = [f \in Folders |->
                IF disk[f] = Gone /\ \E g \in Groups : folder[g] = f THEN Empty ELSE disk[f]]
        /\ batches' = [i \in DOMAIN order |-> Batch(folder[order[i]], order[i])]
  BY <1>1 DEF Restarts
<1>3. rec' = [r \in Docs |-> IF rec[r].status = "IN_PROGRESS"
                             THEN [rec[r] EXCEPT !.status = "PENDING"] ELSE rec[r]]
  BY DEF Restarts
<1>4. folder \in [Groups -> Folders] /\ \A g, h \in Groups : g # h => folder[g] # folder[h]
  BY DEF Placings
<1>5. PICK n \in Nat : /\ order \in [1 .. n -> Groups]
                       /\ \A i, j \in 1 .. n : i # j => order[i] # order[j]
  BY <1>1, GroupsApart, InOrder
<1>6. DownloadsTypes /\ SpoiledStays /\ \A r : Spoiled(r)' <=> Spoiled(r)
  BY SpoiledKept DEF DownloadsInv
<1>7. ASSUME NEW g \in Groups PROVE g \in SUBSET Docs /\ g \subseteq asked'
  BY GroupsApart DEF Resumable, Active, DownloadsInv, RecordsKnown, Recorded
<1>8. ASSUME NEW i \in 1 .. n
      PROVE  /\ order[i] \in Groups /\ folder[order[i]] \in Folders
             /\ batches'[i] = Batch(folder[order[i]], order[i])
             /\ batches'[i] \in Batches
             /\ batches'[i].folder = folder[order[i]] /\ DocsOf(i)' = order[i]
             /\ Finalized(i)' /\ Known(i)'
             /\ \A r \in order[i] : Works(i, r)' /\ CopyInv(i, r)'
  <2>1. /\ order[i] \in Groups /\ folder[order[i]] \in Folders
        /\ batches'[i] = Batch(folder[order[i]], order[i])
        /\ order[i] \in SUBSET Docs /\ order[i] \subseteq asked'
    BY <1>2, <1>4, <1>5, <1>7
  <2>2. batches'[i] \in Batches /\ batches'[i].folder = folder[order[i]]
    BY <2>1, NewBatch
  <2>3. DocsOf(i)' = order[i]
    BY <2>1, NewBatch DEF DocsOf
  <2>4. Finalized(i)' /\ Known(i)'
    BY <2>1, NewBatchWorks
  <2>5. \A r \in order[i] : Works(i, r)' /\ CopyInv(i, r)'
    BY <2>1, NewBatchWorks
  <2> QED BY <2>1, <2>2, <2>3, <2>4, <2>5
<1>9. DOMAIN batches' = 1 .. n /\ batches' \in Seq(Batches)
  <2>1. batches' = [i \in 1 .. n |-> Batch(folder[order[i]], order[i])]
    BY <1>2, <1>5
  <2>2. batches' \in [1 .. n -> Batches]
    BY <1>8, <2>1
  <2> QED BY <2>2
<1>10. ASSUME NEW r \in Docs
      PROVE  /\ rec'[r] \in Records
             /\ rec'[r] = rec[r] \/ (rec'[r].status = "PENDING" /\ rec[r].status = "IN_PROGRESS")
  <2>1. rec[r] \in Records
    BY <1>6 DEF DownloadsTypes
  <2>2. PICK new : new = [rec[r] EXCEPT !.status = "PENDING"]
    OBVIOUS
  <2>3. new \in Records /\ new.status = "PENDING"
    BY <2>1, <2>2 DEF Records, Statuses, Active
  <2> QED BY <1>3, <2>1, <2>2, <2>3
<1>11. rec' \in [Docs -> Records]
  BY <1>3, <1>10
<1>12. \A r \in Docs : Calm(r)
  BY <1>10 DEF Calm, DownloadsInv, RecordsKnown, Recorded
<1>13. RecordsKnown' /\ SettledInv'
  BY <1>6, <1>12, CalmRecords
<1>14. ASSUME NEW f \in Folders
       PROVE  /\ disk'[f] \in [Titles -> Contents] \cup {Gone}
              /\ \A r \in Docs : FileIn(f, r)' = FileIn(f, r)
  <2>1. disk'[f] = disk[f] \/ (disk[f] = Gone /\ disk'[f] = Empty)
    BY <1>2
  <2>2. CASE disk'[f] = disk[f]
    BY <1>6, <2>2 DEF DownloadsTypes, FileIn, Gone
  <2>3. CASE disk[f] = Gone /\ disk'[f] = Empty
    <3>1. Empty \in [Titles -> Contents] /\ \A r \in Docs : Empty[Title[r]] = Absent
      BY BlankRecord, Titled DEF Empty
    <3>2. \A r \in Docs : FileIn(f, r) = Absent /\ FileIn(f, r)' = Absent
      BY <2>3, <3>1 DEF FileIn
    <3> QED BY <2>3, <3>1, <3>2
  <2> QED BY <2>1, <2>2, <2>3
<1>15. disk' \in [Folders -> [Titles -> Contents] \cup {Gone}]
  BY <1>2, <1>14
<1>16. DownloadsTypes'
  BY <1>6, <1>9, <1>11, <1>15 DEF DownloadsTypes, Gone
<1>17. BatchesInv'
  BY <1>8, <1>9 DEF BatchesInv
<1>18. ApartInv'
  <2>1. SUFFICES ASSUME NEW b \in 1 .. n, NEW c \in 1 .. n PROVE Apart(b, c)'
    BY <1>9 DEF ApartInv
  <2>2. CASE b = c
    BY <2>2 DEF Apart
  <2>3. CASE b # c
    <3>1. order[b] # order[c] /\ order[b] \in Groups /\ order[c] \in Groups
      BY <1>5, <1>8, <2>3
    <3>2. order[b] \cap order[c] = {} /\ folder[order[b]] # folder[order[c]]
      BY <1>4, <3>1, GroupsApart
    <3> QED BY <1>8, <3>2 DEF Apart
  <2> QED BY <2>2, <2>3
<1>21. ASSUME NEW r \in Docs, NEW f PROVE Holds(rec'[r], f) => Holds(rec[r], f)
  <2>1. CASE rec'[r] = rec[r]
    BY <2>1
  <2>2. CASE rec'[r] # rec[r]
    <3>1. rec[r] \in Records /\ rec[r].status = "IN_PROGRESS"
          /\ rec'[r] = [rec[r] EXCEPT !.status = "PENDING"]
      BY <1>3, <1>6, <2>2 DEF DownloadsTypes
    <3> QED BY <3>1 DEF Records, Holds
  <2> QED BY <2>1, <2>2
\* A group is at home in its old folder, or in one that is new.
<1>22. ASSUME NEW r \in Docs, NEW f \in Nat, Home(f, r)', ~Holds(rec[r], f)
       PROVE  /\ \E g \in Groups : r \in g /\ folder[g] = f
              /\ f \in Unused(<< >>)
  <2>1. ~Holds(rec'[r], f) /\ ~Holds(rec[r], f)
    BY <1>21, <1>22
  <2>2. PICK b \in DOMAIN batches' :
          /\ r \in DocsOf(b)'
          /\ Holds(TaskOf(b, r)'.copy, f) \/ (Live(b)' /\ batches'[b].folder = f)
    BY <1>22, <2>1 DEF Home, Holds
  <2>3. b \in 1 .. n /\ r \in order[b] /\ order[b] \in Groups
        /\ batches'[b] = Batch(folder[order[b]], order[b]) /\ batches'[b].folder = folder[order[b]]
    BY <1>8, <1>9, <2>2
  <2>4. TaskOf(b, r)' = Waiting
    BY <1>4, <1>7, <2>3, NewBatch DEF TaskOf
  <2>5. ~Holds(Waiting.copy, f)
    BY BlankRecord DEF Waiting, Holds
  <2>6. folder[order[b]] = f
    BY <2>2, <2>3, <2>4, <2>5
  <2>7. PICK zip : zip = rec[CHOOSE o \in order[b] : TRUE].zip
    OBVIOUS
  <2>8. f \in OldFolder(zip) \/ f \in Unused(<< >>)
    BY <1>2, <2>3, <2>6, <2>7 DEF Placings
  <2>9. rec[r].zip = zip /\ rec[r].status # "none"
    BY <2>3, <2>7, GroupsApart
  <2>10. f \notin OldFolder(zip)
    BY <2>1, <2>9 DEF OldFolder, Holds
  <2> QED BY <2>3, <2>6, <2>8, <2>10
<1>24. ASSUME NEW r \in Docs, NEW f \in Nat, Home(f, r)', f \in Unused(<< >>)
       PROVE  \E g \in Groups : r \in g /\ folder[g] = f
  <2>1. ~Holds(rec[r], f)
    BY <1>24 DEF Unused, Holds
  <2> QED BY <1>22, <1>24, <2>1
<1>23. NamesApart'
  <2>1. SUFFICES ASSUME NEW f \in Nat, NEW r \in Docs, NEW o \in Docs,
                        r # o, Title[r] = Title[o], Home(f, r)', Home(f, o)'
                 PROVE  Spoiled(r)
    BY <1>6 DEF NamesApart
  <2>2. CASE Home(f, r) /\ Home(f, o)
    BY <2>1, <2>2 DEF DownloadsInv, NamesApart
  <2>3. CASE ~Home(f, r) \/ ~Home(f, o)
    <3>1. f \in Unused(<< >>)
      BY <1>22, <2>1, <2>3 DEF Home
    <3>2. PICK g \in Groups : r \in g /\ folder[g] = f
      BY <1>24, <2>1, <3>1
    <3>3. PICK h \in Groups : o \in h /\ folder[h] = f
      BY <1>24, <2>1, <3>1
    <3>4. g = h
      BY <1>4, <3>2, <3>3
    <3>5. PICK z \in Int : rec[r].zip = z /\ rec[o].zip = z /\ rec[r].status # "none" /\ rec[o].status # "none"
      <4>1. rec[r] \in Records
        BY <1>6 DEF DownloadsTypes
      <4> QED BY <3>2, <3>3, <3>4, <4>1, GroupsApart DEF Records
    <3>6. PICK k \in Nat : z \in {k, -k}
      BY <3>5
    <3>7. Home(k, r) /\ Home(k, o)
      BY <3>5, <3>6 DEF Home, Holds
    <3> QED BY <2>1, <3>7 DEF DownloadsInv, NamesApart
  <2> QED BY <2>2, <2>3
<1>19. PartInv'
  <2>1. SUFFICES ASSUME NEW f \in Folders, NEW r \in Docs, Home(f, r)' PROVE Part(f, r)'
    BY DEF PartInv
  <2>2. FileIn(f, r)' = FileIn(f, r) /\ f \in Nat
    BY <1>14, Titled
  <2>3. CASE Home(f, r)
    <3>1. Part(f, r)
      BY <2>3 DEF DownloadsInv, PartInv
    <3> QED BY <1>6, <2>2, <3>1 DEF Part, Begun
  <2>4. CASE ~Home(f, r)
    <3>1. FileIn(f, r) = Absent
      BY <1>22, <2>1, <2>2, <2>4 DEF Home, Unused, FileIn
    <3> QED BY <2>2, <3>1 DEF Part, Absent
  <2> QED BY <2>3, <2>4
<1>20. WorksInv'
  BY <1>8, <1>9 DEF WorksInv
<1> QED BY <1>13, <1>16, <1>17, <1>18, <1>19, <1>20, <1>23 DEF DownloadsInv

-----------------------------------------------------------------------------
(* All the steps                                                           *)

LEMMA TaskStepKeeps ==
  ASSUME DownloadsInv, NEW b \in DOMAIN batches, NEW r \in DocsOf(b),
         TaskStep(b, r) \/ EnrichFails(b, r) \/ RequestFails(b, r)
  PROVE  DownloadsInv'
<1>1. CASE Begin(b, r)
  BY <1>1, BeginKeeps
<1>2. CASE MarkInProgress(b, r)
  BY <1>2, MarkKeeps
<1>3. CASE EnrichRead(b, r)
  BY <1>3, EnrichReadKeeps
<1>4. CASE EnrichWrite(b, r)
  BY <1>4, EnrichWriteKeeps
<1>5. CASE Skip(b, r)
  BY <1>5, SkipKeeps
<1>6. CASE Open(b, r)
  BY <1>6, OpenKeeps
<1>7. CASE Chunk(b, r)
  BY <1>7, ChunkKeeps
<1>8. CASE EnrichFails(b, r)
  BY <1>8, EnrichFailsKeeps
<1>9. CASE RequestFails(b, r)
  BY <1>9, RequestFailsKeeps
<1> QED BY <1>1, <1>2, <1>3, <1>4, <1>5, <1>6, <1>7, <1>8, <1>9 DEF TaskStep

LEMMA StutterKeeps ==
  ASSUME DownloadsInv, UNCHANGED downloadVars
  PROVE  DownloadsInv'
<1>1. UNCHANGED <<rec, disk, batches, asked, delivered, spoiled>>
  BY DEF downloadVars
<1>2. DownloadsTypes
  BY DEF DownloadsInv
<1>3. rec' \in [Docs -> Records] /\ \A r \in Docs : Calm(r)
  BY <1>1, <1>2 DEF DownloadsTypes, Calm
<1> QED BY <1>1, <1>3, CalmKeeps

LEMMA NextKeeps ==
  ASSUME DownloadsInv, [DownloadsNext]_downloadVars
  PROVE  DownloadsInv'
<1>1. ASSUME NEW docs \in SUBSET Docs, Download(docs) PROVE DownloadsInv'
  BY <1>1, DownloadKeeps
<1>2. ASSUME NEW r \in Docs, Pause(r) \/ Resume(r) \/ Cancel(r) PROVE DownloadsInv'
  BY <1>2, PauseKeeps, ResumeKeeps, CancelKeeps
<1>3. ASSUME NEW b \in DOMAIN batches, NEW r \in DocsOf(b),
             TaskStep(b, r) \/ EnrichFails(b, r) \/ RequestFails(b, r)
      PROVE  DownloadsInv'
  BY <1>3, TaskStepKeeps
<1>4. ASSUME NEW b \in DOMAIN batches, Final(b) \/ ArchiveFails(b) PROVE DownloadsInv'
  BY <1>4, FinalReadKeeps, FinalArchiveKeeps, FinalCompleteKeeps, ArchiveFailsKeeps DEF Final
<1>5. CASE Stop
  BY <1>5, StopKeeps
<1>6. CASE Cleanup
  BY <1>6, CleanupKeeps
<1>7. CASE Relaunch
  BY <1>7, RestartKeeps DEF Relaunch
<1>8. CASE Crash
  BY <1>8, RestartKeeps DEF Crash
<1>9. CASE UNCHANGED downloadVars
  BY <1>9, StutterKeeps
<1> QED BY <1>1, <1>2, <1>3, <1>4, <1>5, <1>6, <1>7, <1>8, <1>9 DEF DownloadsNext

LEMMA DownloadsStart ==
  ASSUME DownloadsInit
  PROVE  DownloadsInv
<1>1. DownloadsTypes
  <2>1. NoRecord \in Records
    BY BlankRecord
  <2>2. << >> \in Seq(Batches)
    OBVIOUS
  <2> QED BY <2>1, <2>2 DEF DownloadsInit, DownloadsTypes
<1>2. DOMAIN batches = {}
  BY DEF DownloadsInit
<1>3. BatchesInv /\ ApartInv /\ WorksInv
  BY <1>2 DEF BatchesInv, ApartInv, WorksInv
<1>4. RecordsKnown /\ SettledInv
  BY BlankRecord DEF DownloadsInit, RecordsKnown, Recorded, SettledInv, RecordInv, DeliveredInv
<1>5. \A r \in Docs, f \in Nat : ~Home(f, r)
  BY <1>2, BlankRecord DEF DownloadsInit, Home, Holds
<1>6. PartInv /\ NamesApart
  BY <1>5, Titled DEF PartInv, NamesApart
<1> QED BY <1>1, <1>3, <1>4, <1>6 DEF DownloadsInv

\* Files, tasks, archives and records stay in step, over the clicks of the user
\* and the ends of the application.
THEOREM DownloadsInvariant == DownloadsSpec => []DownloadsInv
<1>1. DownloadsInit => DownloadsInv
  BY DownloadsStart
<1>2. DownloadsInv /\ [DownloadsNext]_downloadVars => DownloadsInv'
  BY NextKeeps
<1> QED BY <1>1, <1>2, PTL DEF DownloadsSpec

\* A record that says COMPLETED has its whole document in "Downloads", but for
\* what spoiled it: _finalize_batch marks a record only after its file is in the
\* archive, and that file is whole.
THEOREM CompletedIsWhole == DownloadsSpec => []Completed
<1>1. DownloadsInv => Completed
  BY DEF DownloadsInv, SettledInv, RecordInv, DeliveredInv, Settled, Spoiled, Completed
<1> QED BY <1>1, DownloadsInvariant, PTL

==============================================================================
