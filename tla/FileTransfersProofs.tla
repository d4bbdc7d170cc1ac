------------------------- MODULE FileTransfersProofs --------------------------
(***************************************************************************)
(* Proofs about FileTransfers, for files of any number of chunks, any      *)
(* number of versions and whatever the user and the network do.            *)
(***************************************************************************)
EXTENDS FileTransfers, TLAPS

-----------------------------------------------------------------------------
(* Types, and what the places of the processor say of the contents         *)

Files == {c \in Contents : Len(c) = Chunks}
DownPlaces == {"info", "get", "chunk", "tail", "check", "place", "raised"}
UpPlaces == {"batch", "send", "complete", "link", "linked", "raised"}
Working(places) == proc # None /\ proc.at \in places
States == {"new", "up", "down", "synced"}
Statuses == {"ongoing", "paused", "suspended", "done"}
Job(name) == proc # None /\ proc.job = name

WorldTypes ==
    /\ version \in Nat /\ version <= Versions /\ copies \in Nat /\ after \in Nat
    /\ digested \in BOOLEAN /\ queue \in BOOLEAN /\ served \in BOOLEAN /\ suspended \in BOOLEAN
    /\ disk \in Contents /\ doc \in Files \cup {None}
    /\ tmp \in Contents \cup {None} /\ batch \in Contents \cup {None}
    /\ batch # None => Len(batch) <= Chunks

RowTypes == down \in Rows \cup {None} /\ up \in Rows \cup {None}

JobTypes ==
    /\ pair \in Pairs /\ proc \in Jobs \cup {None}
    /\ Job("down") => proc.at \in DownPlaces
    /\ Job("up") => proc.at \in UpPlaces

\* There is a document once the server was asked for one; only files whose
\* document has a digest are uploaded.
Documents ==
    /\ doc = None => /\ pair.state \in {"new", "up"} /\ "doc" \notin news /\ ~served /\ copies = 0
                     /\ ~Working({"linked"}) /\ ~Job("down")
    /\ digested => disk \in Files
    /\ ~digested => pair.state \in {"synced", "down"} /\ "disk" \notin news /\ ~Job("up")

\* The chunks that are still to come and those that are all there.
Pieces ==
    /\ Working({"chunk"}) => proc.rest # <<>>
    /\ Working({"check", "place"}) => tmp # None
    /\ Working({"get", "chunk", "tail", "check", "place"}) /\ digested => proc.digest \in Files
    /\ Working({"place"}) /\ digested => tmp = proc.digest
    /\ batch # None /\ (Working({"complete", "link"}) \/ (up # None /\ up.status = "done")) => Len(batch) = Chunks

TransferTypes == WorldTypes /\ RowTypes /\ JobTypes /\ Documents /\ Pieces

\* The contents that are built.
LEMMA ContentFacts ==
    /\ <<>> \in Contents /\ Len(<<>>) = 0
    /\ \A v \in Nat : Whole(v) \in Files
    /\ \A c \in Contents : Len(c) \in Nat
    /\ \A c \in Contents, v \in Nat : Append(c, v) \in Contents /\ Len(Append(c, v)) = Len(c) + 1
    /\ \A c \in Contents : c # <<>> => Tail(c) \in Contents /\ Len(Tail(c)) = Len(c) - 1 /\ Head(c) \in Nat
    /\ \A c \in Files, i \in 1..Chunks : c[i] \in Nat
    /\ \A c \in Files, n \in Nat : n < Chunks => SubSeq(c, n + 1, Chunks) \in Contents /\ SubSeq(c, n + 1, Chunks) # <<>>
  BY ChunksAssumption DEF Contents, Files, Whole

\* The fields of a pair and of a row.
LEMMA PairFields ==
  ASSUME NEW p \in Pairs
  PROVE  p.ver \in Nat /\ p.ldig \in Contents /\ p.rdig \in Contents \cup {None} /\ p.state \in States
  BY DEF Pairs, States

LEMMA RowMade ==
  ASSUME NEW s \in Statuses, NEW t \in BOOLEAN
  PROVE  Row(s, t) \in Rows /\ Row(s, t).status = s /\ (Row(s, t).tied <=> t)
  BY DEF Rows, Row, Statuses

LEMMA RowFields ==
  ASSUME NEW r \in Rows
  PROVE  r.status \in Statuses /\ r.tied \in BOOLEAN
  BY DEF Rows, Statuses

\* What a report makes of the pair.
LEMMA DiskReportedEffect ==
  ASSUME pair \in Pairs, disk \in Contents, DiskReported
  PROVE  /\ "disk" \in news /\ news' = news \ {"disk"}
         /\ UNCHANGED <<disk, doc, copies, version, tmp, batch, served, proc, suspended, digested, left, why, after>>
         /\ \/ pair.ldig = disk /\ UNCHANGED <<pair, down, up, queue>>
            \/ /\ pair.ldig # disk /\ down' = None /\ up' = None /\ queue' = TRUE
               /\ pair' \in Pairs /\ pair'.ldig = disk /\ pair'.rdig = pair.rdig /\ pair'.ver = pair.ver + 1
               /\ pair'.state = IF pair.state = "new" THEN "new" ELSE "up"
<1> DEFINE s == IF pair.state = "new" THEN "new" ELSE "up"
           q == [pair EXCEPT !.ldig = disk, !.state = s]
           r == [q EXCEPT !.ver = q.ver + 1]
<1>1. pair.ver \in Nat /\ pair.ver + 1 \in Nat /\ s \in States
  BY PairFields DEF States
<1>2. CASE pair.ldig = disk
  BY <1>2 DEF DiskReported, Report, ReportIf
<1>3. CASE pair.ldig # disk
  <2>1. pair # q => pair' = r /\ down' = None /\ up' = None /\ queue' = TRUE
    BY <1>3 DEF DiskReported, Report, ReportIf
  <2> HIDE DEF s
  <2>2. q \in Pairs /\ q.ldig = disk /\ q.state = s /\ q.ver = pair.ver /\ q.rdig = pair.rdig
    BY <1>1 DEF Pairs, States
  <2> HIDE DEF q
  <2>3. r \in Pairs /\ r.ver = q.ver + 1 /\ r.state = q.state /\ r.ldig = q.ldig /\ r.rdig = q.rdig
    BY <1>1, <2>2 DEF Pairs
  <2> HIDE DEF r
  <2> QED
    BY <1>3, <2>1, <2>2, <2>3 DEF s, DiskReported, Report, ReportIf
<1> QED
  BY <1>2, <1>3

LEMMA DocReportedEffect ==
  ASSUME pair \in Pairs, doc \in Contents, DocReported
  PROVE  /\ "doc" \in news /\ news' = news \ {"doc"}
         /\ UNCHANGED <<disk, doc, copies, version, tmp, batch, served, proc, suspended, digested, left, why, after>>
         /\ \/ pair.rdig = doc /\ UNCHANGED <<pair, down, up, queue>>
            \/ /\ pair.rdig # doc /\ down' = None /\ up' = None /\ queue' = TRUE
               /\ pair' \in Pairs /\ pair'.ldig = pair.ldig /\ pair'.rdig = doc /\ pair'.ver = pair.ver + 1
               /\ pair'.state = "down"
<1> DEFINE q == [pair EXCEPT !.rdig = doc, !.state = "down"]
           r == [q EXCEPT !.ver = q.ver + 1]
<1>1. pair.ver \in Nat /\ pair.ver + 1 \in Nat /\ "down" \in States
  BY PairFields DEF States
<1>2. CASE pair.rdig = doc
  BY <1>2 DEF DocReported, Report, ReportIf
<1>3. CASE pair.rdig # doc
  <2>1. pair # q => pair' = r /\ down' = None /\ up' = None /\ queue' = TRUE
    BY <1>3 DEF DocReported, Report, ReportIf
  <2>2. q \in Pairs /\ q.ldig = pair.ldig /\ q.state = "down" /\ q.ver = pair.ver /\ q.rdig = doc
    BY <1>1 DEF Pairs, States
  <2> HIDE DEF q
  <2>3. r \in Pairs /\ r.ver = q.ver + 1 /\ r.state = q.state /\ r.ldig = q.ldig /\ r.rdig = q.rdig
    BY <1>1, <2>2 DEF Pairs
  <2> HIDE DEF r
  <2> QED
    BY <1>3, <2>1, <2>2, <2>3 DEF DocReported, Report, ReportIf
<1> QED
  BY <1>2, <1>3

\* What the processor takes up.
LEMMA TakeEffect ==
  ASSUME pair \in Pairs, Take
  PROVE  /\ proc = None /\ ~suspended /\ queue' = FALSE
         /\ \/ proc' = None /\ (pair.state = "synced" \/ \E row \in {down, up} : Stopped(row) /\ row.tied)
            \/ /\ proc' \in Jobs /\ proc'.pair = pair /\ proc'.digest = None /\ proc'.rest = <<>> /\ ~(\E row \in {down, up} : Stopped(row) /\ row.tied)
               /\ \/ pair.state = "down" /\ proc'.job = "down" /\ proc'.at = "info"
                  \/ pair.state \in {"new", "up"} /\ proc'.job = "up" /\ proc'.at = "batch"
<1> DEFINE j(name, at) == [job |-> name, at |-> at, pair |-> pair, digest |-> None, rest |-> <<>>]
           held == \E row \in {down, up} : Stopped(row) /\ row.tied
<1>1. \A name \in {"down", "up"}, at \in {"info", "batch"} :
        /\ j(name, at) \in Jobs /\ j(name, at).job = name /\ j(name, at).at = at /\ j(name, at).pair = pair
        /\ j(name, at).digest = None /\ j(name, at).rest = <<>>
  BY ContentFacts DEF Jobs, Places
<1>2. proc' = IF pair.state = "synced" \/ held THEN None
              ELSE IF pair.state = "down" THEN j("down", "info") ELSE j("up", "batch")
  BY DEF Take
<1>3. proc = None /\ ~suspended /\ queue' = FALSE /\ pair.state \in States
  BY PairFields DEF Take
<1> HIDE DEF j, held
<1> QED
  BY <1>1, <1>2, <1>3 DEF held, States

\* The contents of the file become those of the document.
LEMMA PlaceEffect ==
  ASSUME pair \in Pairs, tmp \in Contents, Place
  PROVE  /\ pair' \in Pairs /\ pair'.ldig = tmp /\ pair'.ver = pair.ver
         /\ pair'.state = (IF pair.ver = proc.pair.ver THEN "synced" ELSE pair.state)
         /\ pair'.rdig = IF digested \/ pair.ver # proc.pair.ver THEN pair.rdig ELSE tmp
<1> DEFINE s == IF pair.ver = proc.pair.ver THEN "synced" ELSE pair.state
           d == IF digested \/ pair.ver # proc.pair.ver THEN pair.rdig ELSE tmp
<1>1. s \in States /\ d \in Contents \cup {None}
  BY PairFields DEF States
<1>2. pair' = [pair EXCEPT !.ldig = tmp, !.state = s, !.rdig = d]
  BY DEF Place
<1> HIDE DEF s, d
<1>3. pair' \in Pairs /\ pair'.ldig = tmp /\ pair'.state = s /\ pair'.rdig = d /\ pair'.ver = pair.ver
  BY <1>1, <1>2 DEF Pairs, States
<1> QED
  BY <1>3 DEF s, d

\* The document is what was uploaded, or it is downloaded.
LEMMA LinkedEffect ==
  ASSUME pair \in Pairs, proc \in Jobs, doc \in Contents, Linked
  PROVE  /\ pair' \in Pairs /\ pair'.rdig = doc /\ pair'.ldig = pair.ldig /\ pair'.ver = pair.ver
         /\ \/ /\ doc # proc.pair.ldig /\ pair'.state = IF pair.state = "new" THEN "up" ELSE pair.state
               /\ proc' \in Jobs /\ proc'.job = "down" /\ proc'.at = "info" /\ proc'.pair = pair'
               /\ proc'.digest = proc.digest /\ proc'.rest = proc.rest
            \/ /\ doc = proc.pair.ldig /\ proc' = None
               /\ IF pair.ver = proc.pair.ver THEN pair'.state = "synced"
                  ELSE pair'.state = IF pair.state = "new" THEN "up" ELSE pair.state
<1> DEFINE s == IF pair.state = "new" THEN "up" ELSE pair.state
           now == [pair EXCEPT !.rdig = doc, !.state = s]
           t == IF pair.ver = proc.pair.ver THEN "synced" ELSE now.state
           j == [proc EXCEPT !.job = "down", !.at = "info", !.pair = now]
<1>1. s \in States
  BY PairFields DEF States
<1>2. /\ doc # proc.pair.ldig => pair' = now /\ proc' = j
      /\ doc = proc.pair.ldig => pair' = [now EXCEPT !.state = t] /\ proc' = None
  BY DEF Linked
<1> HIDE DEF s
<1>3. now \in Pairs /\ now.rdig = doc /\ now.state = s /\ now.ver = pair.ver /\ now.ldig = pair.ldig
  BY <1>1 DEF Pairs, States
<1> HIDE DEF now
<1>4. CASE doc # proc.pair.ldig
  <2>1. j \in Jobs /\ j.job = "down" /\ j.at = "info" /\ j.pair = now /\ j.digest = proc.digest /\ j.rest = proc.rest
    BY <1>3 DEF Jobs, Places
  <2> HIDE DEF j
  <2> QED
    BY <1>2, <1>3, <1>4, <2>1 DEF s
<1>5. CASE doc = proc.pair.ldig
  <2>1. t \in States
    BY <1>1, <1>3 DEF States
  <2> HIDE DEF t
  <2>2. /\ pair' \in Pairs /\ pair'.state = t /\ pair'.ver = now.ver
        /\ pair'.ldig = now.ldig /\ pair'.rdig = now.rdig
    BY <1>2, <1>3, <1>5, <2>1 DEF Pairs, States
  <2> QED
    BY <1>2, <1>3, <1>5, <2>2 DEF s, t
<1> QED
  BY <1>4, <1>5

\* The document is found after a 503.
LEMMA LinkUnavailableEffect ==
  ASSUME pair \in Pairs, doc' \in Contents \cup {None}, NEW executed, NEW found, LinkUnavailable(executed, found)
  PROVE  \/ UNCHANGED pair
         \/ /\ proc' = None /\ down' = None /\ up' = None /\ found /\ copies' > 0
            /\ pair' \in Pairs /\ pair'.rdig = doc' /\ pair'.ldig = pair.ldig /\ pair'.ver = pair.ver
            /\ pair'.state = IF pair.ver = proc.pair.ver THEN "synced" ELSE "up"
<1> DEFINE s == IF pair.ver = proc.pair.ver THEN "synced" ELSE "up"
<1>1. UNCHANGED pair \/ (/\ proc' = None /\ down' = None /\ up' = None /\ found /\ copies' > 0
                         /\ pair' = [pair EXCEPT !.rdig = doc', !.state = s])
  BY DEF LinkUnavailable, Drop
<1>2. s \in States
  BY DEF States
<1> HIDE DEF s
<1>3. PICK d \in Contents \cup {None} : d = doc'
  OBVIOUS
<1>4. pair' = [pair EXCEPT !.rdig = d, !.state = s] =>
        pair' \in Pairs /\ pair'.rdig = d /\ pair'.state = s /\ pair'.ver = pair.ver /\ pair'.ldig = pair.ldig
  BY <1>2 DEF Pairs, States
<1> QED
  BY <1>1, <1>3, <1>4 DEF s

\* The processor goes on.
LEMMA GoesEffect ==
  ASSUME proc \in Jobs, NEW a \in Places, Goes(a)
  PROVE  /\ proc' \in Jobs /\ proc' # None /\ proc'.at = a /\ proc'.job = proc.job /\ proc'.pair = proc.pair
         /\ proc'.digest = proc.digest /\ proc'.rest = proc.rest
<1>1. /\ proc' \in Jobs /\ proc'.at = a /\ proc'.job = proc.job /\ proc'.pair = proc.pair
      /\ proc'.digest = proc.digest /\ proc'.rest = proc.rest
  BY DEF Goes, Jobs
<1> QED
  BY <1>1, NoneAssumption

LEMMA InfoEffect ==
  ASSUME proc \in Jobs, doc \in Contents, Info
  PROVE  /\ proc.at = "info" /\ proc.job = "down"
         /\ proc' \in Jobs /\ proc' # None /\ proc'.at = "get" /\ proc'.job = "down" /\ proc'.pair = proc.pair
         /\ proc'.digest = (IF digested THEN doc ELSE None) /\ proc'.rest = proc.rest
<1> DEFINE d == IF digested THEN doc ELSE None
<1>1. d \in Contents \cup {None} /\ proc' = [proc EXCEPT !.at = "get", !.digest = d]
  BY DEF Info
<1> HIDE DEF d
<1>2. /\ proc' \in Jobs /\ proc'.at = "get" /\ proc'.job = proc.job /\ proc'.pair = proc.pair
      /\ proc'.digest = d /\ proc'.rest = proc.rest
  BY <1>1 DEF Jobs, Places
<1> QED
  BY <1>2, NoneAssumption DEF Info, At, d

LEMMA GetEffect ==
  ASSUME proc \in Jobs, doc \in Files, tmp \in Contents \cup {None}, Get
  PROVE  /\ proc.at = "get" /\ proc.job = "down"
         /\ \/ proc' = None /\ queue' = TRUE /\ tmp' = None /\ down' = down
            \/ /\ proc' \in Jobs /\ proc' # None /\ proc'.job = "down" /\ proc'.pair = proc.pair
               /\ proc'.digest = proc.digest /\ proc'.rest = SubSeq(doc, Size + 1, Chunks) /\ Size \in Nat /\ Size < Chunks
               /\ proc'.at = (IF Chunks - Size > Limit THEN "chunk" ELSE "tail")
               /\ UNCHANGED <<tmp, queue>> /\ down' = IF down = None THEN Row("ongoing", TRUE) ELSE down
<1>1. Size \in Nat
  BY ContentFacts DEF Size
<1>2. CASE Size >= Chunks
  BY <1>2 DEF Get, At, Again
<1>3. CASE ~(Size >= Chunks)
  <2> DEFINE c == SubSeq(doc, Size + 1, Chunks)
             a == IF Chunks - Size > Limit THEN "chunk" ELSE "tail"
  <2>1. Size < Chunks
    BY <1>1, <1>3, ChunksAssumption
  <2>2. c \in Contents /\ a \in Places
    BY <1>1, <2>1, ContentFacts DEF Places
  <2>3. /\ proc' = [proc EXCEPT !.rest = c, !.at = a] /\ UNCHANGED <<tmp, queue>>
        /\ down' = IF down = None THEN Row("ongoing", TRUE) ELSE down
    BY <1>3 DEF Get
  <2> HIDE DEF c, a
  <2>4. /\ proc' \in Jobs /\ proc'.at = a /\ proc'.job = proc.job /\ proc'.pair = proc.pair
        /\ proc'.digest = proc.digest /\ proc'.rest = c
    BY <2>2, <2>3 DEF Jobs
  <2>5. proc' # None
    BY <2>4, NoneAssumption
  <2>6. proc.at = "get" /\ proc.job = "down"
    BY DEF Get, At
  <2> QED
    BY <1>1, <2>1, <2>3, <2>4, <2>5, <2>6 DEF c, a
<1> QED
  BY <1>2, <1>3

LEMMA ChunkEffect ==
  ASSUME proc \in Jobs, proc.rest # <<>>, tmp \in Contents \cup {None}, Chunk
  PROVE  /\ proc.at = "chunk" /\ proc.job = "down" /\ proc.rest \in Contents
         /\ proc' \in Jobs /\ proc' # None /\ proc'.job = "down" /\ proc'.pair = proc.pair
         /\ proc'.digest = proc.digest /\ proc'.rest = Tail(proc.rest)
         /\ proc'.at = (IF Stopped(down) THEN "raised" ELSE IF Len(proc.rest) = 1 THEN "check" ELSE "chunk")
         /\ tmp' \in Contents /\ tmp' = (IF tmp = None THEN <<>> ELSE tmp) \o <<Head(proc.rest)>> /\ tmp' # None
<1> DEFINE a == IF Stopped(down) THEN "raised" ELSE IF Len(proc.rest) = 1 THEN "check" ELSE proc.at
           t == IF tmp = None THEN <<>> ELSE tmp
<1>1. proc.at = "chunk" /\ proc.job = "down" /\ proc.rest \in Contents
  BY DEF Chunk, At, Jobs
<1>2. Tail(proc.rest) \in Contents /\ a \in Places /\ Head(proc.rest) \in Nat /\ t \in Contents
  BY <1>1, ContentFacts DEF Places
<1>3. proc' = [proc EXCEPT !.rest = Tail(proc.rest), !.at = a] /\ tmp' = t \o <<Head(proc.rest)>>
  BY DEF Chunk
<1> HIDE DEF a, t
<1>4. t \o <<Head(proc.rest)>> \in Contents
  BY <1>2 DEF Contents
<1>5. /\ proc' \in Jobs /\ proc'.at = a /\ proc'.job = proc.job /\ proc'.pair = proc.pair
      /\ proc'.digest = proc.digest /\ proc'.rest = Tail(proc.rest)
  BY <1>2, <1>3 DEF Jobs
<1> QED
  BY <1>1, <1>3, <1>4, <1>5, NoneAssumption DEF a, t

-----------------------------------------------------------------------------
(* One document, pauses, and what is not forgotten                         *)

\* A file that waits for its document has none, or its request was executed.
CopiesInv ==
    \/ "renewed" \in why
    \/ /\ copies <= 1
       /\ copies = 1 /\ (pair.state = "new" \/ (proc # None /\ proc.pair.state = "new")) => served

\* The chunk that was on its way is the last one.
PauseInv ==
    /\ down # None => down.tied
    /\ after <= 1
    /\ after = 1 /\ down # None /\ down.status = "paused" => proc = None \/ proc.at = "raised"
    /\ after = 1 /\ up # None /\ up.status = "paused" => ~Working({"send"})

\* A pair that changed while it is handled is queued again.
VersionInv ==
    proc # None => /\ pair.state # "synced" /\ pair.ver >= proc.pair.ver
                   /\ pair.ver # proc.pair.ver => queue
                   /\ pair.ver = proc.pair.ver => /\ pair.ldig = proc.pair.ldig
                                                  /\ Job("up") => pair.state \in {"new", "up"}

\* What is neither queued nor with the processor has a row that will have it queued.
Tied(row) == row # None /\ row.tied /\ row.status \in {"paused", "suspended"}
RowOf(job) == IF job = "down" THEN down ELSE up
ForgottenInv ==
    /\ \A row \in {down, up} : row # None /\ row.status = "suspended" => suspended
    /\ \/ why \cap {"early", "expired", "unavailable"} # {}
       \/ /\ proc = None /\ ~queue /\ pair.state # "synced" => Tied(down) \/ Tied(up)
          /\ Working({"raised"}) /\ ~queue =>
               \/ RowOf(proc.job) = None \/ ~RowOf(proc.job).tied
               \/ Stopped(RowOf(proc.job))

-----------------------------------------------------------------------------
(* The contents                                                            *)

Lost == why \cap {"undigested", "mixed"} # {}
Written(n) == {Whole(v) : v \in 0..n}
Before(c, n) == \A i \in 1..Len(c) : c[i] <= n
Uniform(c) == \A i \in 1..Len(c) : c[i] = c[1]

\* Everything is a version that was written, or pieces of written versions.
WholeInv ==
    /\ disk \in Written(version) /\ pair.ldig \in Written(version)
    /\ doc # None => doc \in Written(version)
    /\ pair.rdig # None => pair.rdig \in Written(version)
    /\ proc # None => Before(proc.rest, version) /\ (proc.digest # None => proc.digest \in Written(version))
    /\ tmp # None => Before(tmp, version)
    /\ Working({"place"}) => tmp \in Written(version)
    /\ batch # None => Before(batch, version) /\ Uniform(batch)

\* News that would change the pair.
DocNews == "doc" \in news /\ doc # pair.rdig
DiskNews == "disk" \in news /\ disk # pair.ldig
Current == proc # None /\ pair.ver = proc.pair.ver
Sending == batch # None => DiskNews \/ \A i \in 1..Len(batch) : batch[i] = pair.ldig[1]

SyncInv ==
    /\ "disk" \in news \/ disk = pair.ldig
    /\ pair.state = "synced" => doc = pair.ldig \/ DocNews \/ DiskNews
    /\ Current /\ Job("down") =>
         /\ digested /\ Working(DownPlaces \ {"info", "raised"}) => proc.digest = doc \/ DocNews
         /\ ~digested /\ Working({"chunk", "tail"}) => (proc.rest # <<>> /\ proc.rest[Len(proc.rest)] = doc[Chunks]) \/ DocNews
         /\ ~digested /\ Working({"check"}) => (tmp # <<>> /\ tmp[Len(tmp)] = doc[Chunks]) \/ DocNews
         /\ ~digested /\ Working({"place"}) => tmp = doc \/ DocNews
    /\ Current /\ Working({"send", "complete", "link"}) => Sending
    /\ pair.state \in {"new", "up"} /\ up # None => Sending
    /\ Job("down") /\ pair.state \in {"new", "up"} => up = None

ContentsInv == Lost \/ (WholeInv /\ (SyncInv \/ "older" \in why))

TransferInv == TransferTypes /\ CopiesInv /\ PauseInv /\ VersionInv /\ ForgottenInv /\ ContentsInv

\* What is known of pieces of versions.
LEMMA WrittenFacts ==
  ASSUME NEW n \in Nat
  PROVE  /\ \A v \in 0..n : Whole(v) \in Written(n)
         /\ \A c \in Written(n) : c \in Files /\ Before(c, n) /\ Uniform(c) /\ c[1] \in Nat
         /\ \A c \in Files : Before(c, n) /\ Uniform(c) => c \in Written(n)
<1>1. \A v \in 0..n : Whole(v) \in Written(n)
  BY DEF Written
<1>2. ASSUME NEW c \in Written(n) PROVE c \in Files /\ Before(c, n) /\ Uniform(c) /\ c[1] \in Nat
  <2>1. PICK v \in 0..n : c = Whole(v)
    BY DEF Written
  <2>2. c \in Files
    BY <2>1, ContentFacts
  <2>3. Len(c) = Chunks /\ \A i \in 1..Chunks : c[i] = v
    BY <2>1, <2>2 DEF Files, Whole
  <2> QED
    BY <2>2, <2>3, ChunksAssumption DEF Before, Uniform
<1>3. ASSUME NEW c \in Files, Before(c, n), Uniform(c) PROVE c \in Written(n)
  <2>1. Len(c) = Chunks /\ c[1] \in Nat /\ c[1] \in 0..n
    <3>1. 1 \in 1..Chunks /\ Len(c) = Chunks
      BY ChunksAssumption DEF Files
    <3>2. c[1] \in Nat
      BY <3>1, ContentFacts
    <3>3. c[1] <= n
      BY <1>3, <3>1 DEF Before
    <3> QED
      BY <3>1, <3>2, <3>3
  <2>2. c = [i \in 1..Chunks |-> c[1]]
    BY <1>3, <2>1 DEF Files, Contents, Uniform
  <2> QED
    BY <2>1, <2>2 DEF Written, Whole
<1> QED
  BY <1>1, <1>2, <1>3

LEMMA PieceFacts ==
  ASSUME NEW n \in Nat
  PROVE  /\ Before(<<>>, n) /\ Uniform(<<>>)
         /\ \A c \in Contents, v \in Nat : Before(c, n) /\ v <= n => Before(Append(c, v), n) /\ Before(c \o <<v>>, n)
         /\ \A c \in Contents : c # <<>> /\ Before(c, n) => Head(c) <= n /\ Before(Tail(c), n)
         /\ \A c \in Files, m \in Nat : m < Chunks /\ Before(c, n) => Before(SubSeq(c, m + 1, Chunks), n)
         /\ \A m \in Nat : n <= m => Written(n) \subseteq Written(m) /\ \A c \in Contents : Before(c, n) => Before(c, m)
<1>1. Before(<<>>, n) /\ Uniform(<<>>)
  BY DEF Before, Uniform
<1>2. ASSUME NEW c \in Contents, NEW v \in Nat, Before(c, n), v <= n
      PROVE  Before(Append(c, v), n) /\ Before(c \o <<v>>, n)
  BY <1>2 DEF Before, Contents
<1>3. ASSUME NEW c \in Contents, c # <<>>, Before(c, n) PROVE Head(c) <= n /\ Before(Tail(c), n)
  BY <1>3 DEF Before, Contents
<1>4. ASSUME NEW c \in Files, NEW m \in Nat, m < Chunks, Before(c, n) PROVE Before(SubSeq(c, m + 1, Chunks), n)
  BY <1>4, ChunksAssumption DEF Before, Files, Contents
<1>5. ASSUME NEW m \in Nat, n <= m PROVE Written(n) \subseteq Written(m) /\ \A c \in Contents : Before(c, n) => Before(c, m)
  <2>1. Written(n) \subseteq Written(m)
    BY <1>5 DEF Written
  <2>2. ASSUME NEW c \in Contents, Before(c, n) PROVE Before(c, m)
    <3>1. \A i \in 1..Len(c) : c[i] \in Nat
      BY DEF Contents
    <3> QED
      BY <1>5, <2>2, <3>1 DEF Before
  <2> QED
    BY <2>1, <2>2
<1> QED
  BY <1>1, <1>2, <1>3, <1>4, <1>5

\* The end of a piece, and versions that are told apart by one chunk.
LEMMA EndFacts ==
  /\ \A c \in Files, m \in Nat : m < Chunks =>
       SubSeq(c, m + 1, Chunks) # <<>> /\ SubSeq(c, m + 1, Chunks)[Len(SubSeq(c, m + 1, Chunks))] = c[Chunks]
  /\ \A c \in Contents : c # <<>> /\ Len(c) # 1 => Tail(c) # <<>> /\ Tail(c)[Len(Tail(c))] = c[Len(c)]
  /\ \A c \in Contents : c # <<>> /\ Len(c) = 1 => Head(c) = c[Len(c)]
  /\ \A c \in Contents, v \in Nat : (c \o <<v>>) # <<>> /\ (c \o <<v>>)[Len(c \o <<v>>)] = v
<1>1. \A c \in Files, m \in Nat : m < Chunks =>
       SubSeq(c, m + 1, Chunks) # <<>> /\ SubSeq(c, m + 1, Chunks)[Len(SubSeq(c, m + 1, Chunks))] = c[Chunks]
  BY ChunksAssumption DEF Files, Contents
<1>2. ASSUME NEW c \in Contents, c # <<>>, Len(c) # 1 PROVE Tail(c) # <<>> /\ Tail(c)[Len(Tail(c))] = c[Len(c)]
  <2>1. Tail(c) \in Contents /\ Len(Tail(c)) = Len(c) - 1 /\ Len(c) \in Nat
    BY <1>2, ContentFacts
  <2>2. Len(c) # 0
    BY <1>2 DEF Contents
  <2>3. Len(Tail(c)) \in 1..Len(Tail(c)) /\ Len(Tail(c)) + 1 = Len(c)
    BY <1>2, <2>1, <2>2
  <2>4. \A i \in 1..Len(Tail(c)) : Tail(c)[i] = c[i + 1]
    BY <1>2 DEF Contents
  <2>5. Tail(c) # <<>>
    <3>1. Len(Tail(c)) # 0
      BY <1>2, <2>1
    <3>2. Len(<<>>) = 0
      OBVIOUS
    <3> QED
      BY <3>1, <3>2
  <2> QED
    BY <2>3, <2>4, <2>5
<1>3. \A c \in Contents : c # <<>> /\ Len(c) = 1 => Head(c) = c[Len(c)]
  BY DEF Contents
<1>4. \A c \in Contents, v \in Nat : (c \o <<v>>) # <<>> /\ (c \o <<v>>)[Len(c \o <<v>>)] = v
  BY DEF Contents
<1> QED
  BY <1>1, <1>2, <1>3, <1>4

LEMMA VersionFacts ==
  ASSUME NEW n \in Nat
  PROVE  /\ \A c \in Written(n) : c # Whole(n + 1)
         /\ \A c \in Written(n), v \in Nat : c = Whole(v) <=> c[Chunks] = v
         /\ \A c \in Written(n), d \in Files : Uniform(d) /\ d[1] = c[1] => c = d
         /\ \A c \in Written(n), i \in 1..Chunks : c[i] = c[1]
<1>1. \A c \in Written(n) : \E v \in 0..n : c = Whole(v)
  BY DEF Written
<1>2. \A v \in Nat : \A i \in 1..Chunks : Whole(v)[i] = v
  BY DEF Whole
<1>3. 1 \in 1..Chunks /\ Chunks \in 1..Chunks
  BY ChunksAssumption
<1>4. ASSUME NEW c \in Written(n), NEW d \in Files, Uniform(d), d[1] = c[1] PROVE c = d
  <2>1. PICK v \in 0..n : c = Whole(v)
    BY <1>1
  <2>2. d = [i \in 1..Chunks |-> v]
    BY <1>2, <1>3, <1>4, <2>1 DEF Files, Contents, Uniform
  <2> QED
    BY <2>1, <2>2 DEF Whole
<1> QED
  BY <1>1, <1>2, <1>3, <1>4

-----------------------------------------------------------------------------
(* The steps, one by one                                                  *)

\* The rows of the transfers.
LEMMA RowTypesStep ==
  ASSUME pair \in Pairs, disk \in Contents, doc \in Contents \cup {None}, RowTypes, [Next]_vars
  PROVE  RowTypes'
<1> USE DEF RowTypes, Rows, vars, world, server, engine
<1>1. CASE UserEdits
  BY <1>1 DEF UserEdits
<1>2. CASE ServerChanges
  BY <1>2 DEF ServerChanges
<1>3. CASE DiskReported
  BY <1>3 DEF DiskReported, Report, ReportIf
<1>4. CASE DocReported
  BY <1>4 DEF DocReported, Report, ReportIf
<1>5. CASE Take
  BY <1>5 DEF Take, Stopped
<1>6. CASE Fails
  BY <1>6 DEF Fails, Again, Spend
<1>7. CASE Raised
  BY <1>7 DEF Raised, Stopped
<1>8. CASE Info
  BY <1>8 DEF Info, At
<1>9. CASE Get
  <2>1. Row("ongoing", TRUE) \in Rows
    BY RowMade DEF Statuses
  <2> QED
    BY <1>9, <2>1 DEF Get
<1>10. CASE Chunk
  BY <1>10 DEF Chunk, At, Stopped
<1>11. CASE Small
  BY <1>11 DEF Small, At, Goes
<1>12. CASE Check
  BY <1>12 DEF Check, CheckIf, At, Again, Goes
<1>13. CASE Place
  BY <1>13 DEF Place, At
<1>14. CASE GetTransfer
  <2>1. Row("ongoing", FALSE) \in Rows
    BY RowMade DEF Statuses
  <2> QED
    BY <1>14, <2>1 DEF GetTransfer
<1>15. CASE Send
  BY <1>15 DEF Send, SendIf, At, Goes, Stopped
<1>16. CASE Sent
  BY <1>16 DEF Sent, At, Goes
<1>17. CASE SentNowhere
  BY <1>17 DEF SentNowhere, At, Again
<1>18. CASE Complete
  BY <1>18 DEF Complete, At, Goes
<1>19. CASE Link
  BY <1>19 DEF Link, At, Goes, Executes
<1>20. CASE LinkNotFound
  BY <1>20 DEF LinkNotFound, At, Drop
<1>21. CASE Linked
  BY <1>21 DEF Linked, At
<1>22. ASSUME NEW same \in BOOLEAN, LinkLost(same) PROVE RowTypes'
  BY <1>22 DEF LinkLost, LinkLostIf, At, Again, Executes
<1>23. ASSUME NEW executed \in BOOLEAN, NEW found \in BOOLEAN, LinkUnavailable(executed, found) PROVE RowTypes'
  BY <1>23 DEF LinkUnavailable, At, Again, Drop, Executes
<1>24. CASE Pause
  BY <1>24 DEF Pause
<1>25. CASE Resume
  BY <1>25 DEF Resume, ResumeIf, Freed, Queues
<1>26. CASE SuspendEngine
  BY <1>26 DEF SuspendEngine
<1>27. CASE ResumeEngine
  BY <1>27 DEF ResumeEngine, ResumeEngineIf, ResumeIf, Freed, Queues
<1>28. CASE Crash
  BY <1>28 DEF Crash, Freed
<1>29. CASE BatchExpires
  BY <1>29 DEF BatchExpires
<1>30. CASE UNCHANGED vars
  BY <1>30
<1> QED
  BY <1>1, <1>2, <1>3, <1>4, <1>5, <1>6, <1>7, <1>8, <1>9, <1>10, <1>11, <1>12, <1>13, <1>14, <1>15,
     <1>16, <1>17, <1>18, <1>19, <1>20, <1>21, <1>22, <1>23, <1>24, <1>25, <1>26, <1>27, <1>28,
     <1>29, <1>30 DEF Next
\* The pair and what the processor has of it.
LEMMA JobTypesStep ==
  ASSUME WorldTypes, JobTypes, Documents, Pieces, [Next]_vars
  PROVE  JobTypes'
<1> USE DEF JobTypes, Job, DownPlaces, UpPlaces, Places, Jobs, vars, world, server, engine
<1>a. disk \in Contents /\ doc \in Contents \cup {None} /\ batch \in Contents \cup {None} /\ tmp \in Contents \cup {None}
  BY DEF WorldTypes, Files
<1>b. /\ doc = None => ~Job("down") /\ "doc" \notin news /\ ~Working({"linked"})
      /\ Working({"place"}) => tmp # None
  BY DEF Documents, Pieces, Working
<1>c. doc # None => doc \in Files
  BY DEF WorldTypes
<1>1. CASE UserEdits
  BY <1>1 DEF UserEdits
<1>2. CASE ServerChanges
  BY <1>2 DEF ServerChanges
<1>3. CASE DiskReported
  BY <1>3, <1>a, DiskReportedEffect
<1>4. CASE DocReported
  <2>1. doc \in Contents
    BY <1>4, <1>a, <1>b DEF DocReported, Report, ReportIf
  <2> QED
    BY <1>4, <2>1, DocReportedEffect
<1>5. CASE Take
  BY <1>5, TakeEffect DEF Take
<1>6. CASE Fails
  BY <1>6 DEF Fails, Again, Spend
<1>7. CASE Raised
  BY <1>7 DEF Raised, Stopped
<1>8. CASE Info
  BY <1>8, <1>a DEF Info, At
<1>9. CASE Get
  <2>1. doc \in Files
    BY <1>9, <1>b, <1>c DEF Get, At
  <2>2. Size \in Nat /\ (Size < Chunks => SubSeq(doc, Size + 1, Chunks) \in Contents)
    BY <1>a, <2>1, ContentFacts DEF Size
  <2>3. proc' = None \/ \E c \in Contents, a \in {"chunk", "tail"} : proc' = [proc EXCEPT !.rest = c, !.at = a]
    <3>1. CASE Size >= Chunks
      BY <1>9, <3>1 DEF Get, Again
    <3>2. CASE ~(Size >= Chunks)
      <4>1. Size < Chunks
        BY <2>2, <3>2, ChunksAssumption
      <4>2. \E a \in {"chunk", "tail"} :
              proc' = [proc EXCEPT !.rest = SubSeq(doc, Size + 1, Chunks), !.at = a]
        BY <1>9, <3>2 DEF Get
      <4> QED
        BY <2>2, <4>1, <4>2
    <3> QED
      BY <3>1, <3>2
  <2> QED
    BY <1>9, <2>3 DEF Get, At
<1>10. CASE Chunk
  <2>1. Tail(proc.rest) \in Contents
    BY <1>10, ContentFacts DEF Chunk, At, Pieces, Working
  <2>2. \E c \in Contents, a \in {"chunk", "check", "raised"} : proc' = [proc EXCEPT !.rest = c, !.at = a]
    BY <1>10, <2>1 DEF Chunk, At
  <2> QED
    BY <1>10, <2>2 DEF Chunk, At
<1>11. CASE Small
  BY <1>11 DEF Small, At, Goes
<1>12. CASE Check
  BY <1>12 DEF Check, CheckIf, At, Again, Goes
<1>13. CASE Place
  <2>1. tmp \in Contents
    BY <1>13, <1>a, <1>b DEF Place, At, Working
  <2> QED
    BY <1>13, <2>1, PlaceEffect DEF Place
<1>14. CASE GetTransfer
  BY <1>14 DEF GetTransfer, At, Goes, Row, Stopped
<1>15. CASE Send
  BY <1>15 DEF Send, SendIf, At, Goes, Stopped
<1>16. CASE Sent
  BY <1>16 DEF Sent, At, Goes
<1>17. CASE SentNowhere
  BY <1>17 DEF SentNowhere, At, Again
<1>18. CASE Complete
  BY <1>18 DEF Complete, At, Goes
<1>19. CASE Link
  BY <1>19 DEF Link, At, Goes, Executes
<1>20. CASE LinkNotFound
  BY <1>20 DEF LinkNotFound, At, Drop
<1>21. CASE Linked
  <2>1. doc \in Contents /\ proc \in Jobs
    BY <1>21, <1>a, <1>b DEF Linked, At, Working
  <2> QED
    BY <1>21, <2>1, LinkedEffect DEF Linked
<1>22. ASSUME NEW same \in BOOLEAN, LinkLost(same) PROVE JobTypes'
  BY <1>22 DEF LinkLost, LinkLostIf, At, Again, Executes
<1>23. ASSUME NEW executed \in BOOLEAN, NEW found \in BOOLEAN, LinkUnavailable(executed, found) PROVE JobTypes'
  <2>1. doc' \in Contents \cup {None}
    BY <1>23, <1>a DEF LinkUnavailable, Executes
  <2>2. proc' = None
    BY <1>23 DEF LinkUnavailable, Again, Drop
  <2> QED
    BY <1>23, <2>1, <2>2, LinkUnavailableEffect
<1>24. CASE Pause
  BY <1>24 DEF Pause
<1>25. CASE Resume
  BY <1>25 DEF Resume, ResumeIf, Freed, Queues
<1>26. CASE SuspendEngine
  BY <1>26 DEF SuspendEngine
<1>27. CASE ResumeEngine
  BY <1>27 DEF ResumeEngine, ResumeEngineIf, ResumeIf, Freed, Queues
<1>28. CASE Crash
  BY <1>28 DEF Crash, Freed
<1>29. CASE BatchExpires
  BY <1>29 DEF BatchExpires
<1>30. CASE UNCHANGED vars
  BY <1>30
<1> QED
  BY <1>1, <1>2, <1>3, <1>4, <1>5, <1>6, <1>7, <1>8, <1>9, <1>10, <1>11, <1>12, <1>13, <1>14, <1>15,
     <1>16, <1>17, <1>18, <1>19, <1>20, <1>21, <1>22, <1>23, <1>24, <1>25, <1>26, <1>27, <1>28,
     <1>29, <1>30 DEF Next

\* Contents stay files and pieces of files.
LEMMA WorldTypesStep ==
  ASSUME TransferTypes, [Next]_vars
  PROVE  WorldTypes'
<1> USE DEF TransferTypes, WorldTypes, vars, world, server, engine
<1>1. CASE UserEdits
  <2>1. version + 1 \in Nat /\ version + 1 <= Versions
    BY <1>1, ChunksAssumption DEF UserEdits
  <2>2. Whole(version + 1) \in Contents
    BY <2>1, ContentFacts DEF Files
  <2> QED
    BY <1>1, <2>1, <2>2 DEF UserEdits
<1>2. CASE ServerChanges
  <2>1. version + 1 \in Nat /\ version + 1 <= Versions
    BY <1>2, ChunksAssumption DEF ServerChanges
  <2>2. Whole(version + 1) \in Files
    BY <2>1, ContentFacts
  <2> QED
    BY <1>2, <2>1, <2>2 DEF ServerChanges
<1>3. CASE DiskReported
  BY <1>3, DiskReportedEffect DEF JobTypes
<1>4. CASE DocReported
  <2>1. doc \in Contents
    BY <1>4 DEF DocReported, Report, ReportIf, Documents, Files
  <2> QED
    BY <1>4, <2>1, DocReportedEffect DEF JobTypes
<1>5. CASE Take
  BY <1>5 DEF Take, Stopped
<1>6. CASE Fails
  BY <1>6 DEF Fails, Again, Spend
<1>7. CASE Raised
  BY <1>7 DEF Raised, Stopped
<1>8. CASE Info
  BY <1>8 DEF Info, At
<1>9. CASE Get
  BY <1>9 DEF Get, Again
<1>10. CASE Chunk
  <2>1. proc.rest \in Contents /\ proc.rest # <<>>
    BY <1>10 DEF Chunk, At, Pieces, Working, JobTypes, Jobs
  <2>2. Head(proc.rest) \in Nat /\ (IF tmp = None THEN <<>> ELSE tmp) \in Contents
    BY <2>1, ContentFacts
  <2>3. (IF tmp = None THEN <<>> ELSE tmp) \o <<Head(proc.rest)>> \in Contents
    BY <2>2 DEF Contents
  <2> QED
    BY <1>10, <2>3 DEF Chunk
<1>11. CASE Small
  BY <1>11 DEF Small, At, JobTypes, Jobs
<1>12. CASE Check
  BY <1>12 DEF Check, CheckIf, Again
<1>13. CASE Place
  BY <1>13 DEF Place, At, Pieces, Working
<1>14. CASE GetTransfer
  <2>1. <<>> \in Contents /\ Len(<<>>) <= Chunks
    BY ContentFacts, ChunksAssumption
  <2> QED
    BY <1>14, <2>1 DEF GetTransfer
<1>15. CASE Send
  <2>1. batch \in Contents /\ Len(batch) < Chunks /\ digested
    BY <1>15 DEF Send, SendIf, At, Documents, Job
  <2>2. Len(batch) \in Nat /\ disk \in Files
    BY <2>1, ContentFacts DEF Documents
  <2>3. Len(batch) + 1 \in 1..Chunks
    BY <2>1, <2>2, ChunksAssumption
  <2>4. disk[Len(batch) + 1] \in Nat
    BY <2>2, <2>3, ContentFacts
  <2>5. /\ Append(batch, disk[Len(batch) + 1]) \in Contents
        /\ Len(Append(batch, disk[Len(batch) + 1])) = Len(batch) + 1
    BY <2>1, <2>4, ContentFacts
  <2> QED
    BY <1>15, <2>1, <2>2, <2>5, ChunksAssumption DEF Send, SendIf
<1>16. CASE Sent
  BY <1>16 DEF Sent, At, Goes
<1>17. CASE SentNowhere
  BY <1>17 DEF SentNowhere, At, Again
<1>18. CASE Complete
  BY <1>18 DEF Complete, At, Goes
<1>19. CASE Link
  <2>1. batch \in Files
    BY <1>19 DEF Link, At, Pieces, Working, Files
  <2> QED
    BY <1>19, <2>1 DEF Link, Executes
<1>20. CASE LinkNotFound
  BY <1>20 DEF LinkNotFound, At, Drop
<1>21. CASE Linked
  BY <1>21 DEF Linked, At
<1>22. ASSUME NEW same \in BOOLEAN, LinkLost(same) PROVE WorldTypes'
  <2>1. batch \in Files
    BY <1>22 DEF LinkLost, LinkLostIf, At, Pieces, Working, Files
  <2> QED
    BY <1>22, <2>1 DEF LinkLost, LinkLostIf, Executes, Again
<1>23. ASSUME NEW executed \in BOOLEAN, NEW found \in BOOLEAN, LinkUnavailable(executed, found) PROVE WorldTypes'
  <2>1. batch \in Files
    BY <1>23 DEF LinkUnavailable, At, Pieces, Working, Files
  <2> QED
    <3>1. doc' \in Files \cup {None} /\ copies' \in Nat
      BY <1>23, <2>1 DEF LinkUnavailable, Executes
    <3>2. queue' \in BOOLEAN /\ served' \in BOOLEAN
      BY <1>23 DEF LinkUnavailable, Again, Drop
    <3> QED
      BY <1>23, <3>1, <3>2 DEF LinkUnavailable
<1>24. CASE Pause
  BY <1>24 DEF Pause
<1>25. CASE Resume
  BY <1>25 DEF Resume, ResumeIf, Queues
<1>26. CASE SuspendEngine
  BY <1>26 DEF SuspendEngine
<1>27. CASE ResumeEngine
  BY <1>27 DEF ResumeEngine, ResumeEngineIf, ResumeIf, Queues
<1>28. CASE Crash
  BY <1>28 DEF Crash, Freed
<1>29. CASE BatchExpires
  BY <1>29 DEF BatchExpires
<1>30. CASE UNCHANGED vars
  BY <1>30
<1> QED
  BY <1>1, <1>2, <1>3, <1>4, <1>5, <1>6, <1>7, <1>8, <1>9, <1>10, <1>11, <1>12, <1>13, <1>14, <1>15,
     <1>16, <1>17, <1>18, <1>19, <1>20, <1>21, <1>22, <1>23, <1>24, <1>25, <1>26, <1>27, <1>28,
     <1>29, <1>30 DEF Next

\* There is a document once the server was asked for one, whatever is lost and tried again.
LEMMA DocumentsStep ==
  ASSUME TransferTypes, JobTypes', [Next]_vars
  PROVE  Documents'
<1> USE DEF TransferTypes, Documents, Working, Job, vars, world, server, engine
<1>1. CASE UserEdits
  <2>1. Whole(version + 1) \in Files
    BY ContentFacts DEF WorldTypes
  <2> QED
    BY <1>1, <2>1 DEF UserEdits
<1>2. CASE ServerChanges
  <2>1. Whole(version + 1) \in Files
    BY ContentFacts DEF WorldTypes
  <2>2. Whole(version + 1) # None
    BY <2>1, NoneAssumption DEF Files
  <2> QED
    BY <1>2, <2>2 DEF ServerChanges
<1>3. CASE DiskReported
  <2>1. /\ "disk" \in news /\ news' = news \ {"disk"}
        /\ UNCHANGED <<doc, served, copies, proc, digested, disk, tmp, batch>>
        /\ UNCHANGED pair \/ pair'.state \in {"new", "up"}
        /\ UNCHANGED up \/ up' = None
    BY <1>3, DiskReportedEffect DEF JobTypes, WorldTypes
  <2> QED
    BY <2>1
<1>4. CASE DocReported
  <2>1. doc \in Contents /\ doc # None
    BY <1>4 DEF DocReported, Report, ReportIf, WorldTypes, Files
  <2>2. /\ "doc" \in news /\ news' = news \ {"doc"}
        /\ UNCHANGED <<doc, served, copies, proc, digested, disk, tmp, batch>>
        /\ UNCHANGED pair \/ pair'.state = "down"
        /\ UNCHANGED up \/ up' = None
    BY <1>4, <2>1, DocReportedEffect DEF JobTypes
  <2> QED
    BY <2>1, <2>2
<1>5. CASE Take
  BY <1>5, TakeEffect DEF JobTypes, Take
<1>6. CASE Fails
  BY <1>6 DEF Fails, Again
<1>7. CASE Raised
  BY <1>7 DEF Raised
<1>8. CASE Info
  BY <1>8 DEF Info, At, JobTypes, Jobs
<1>9. CASE Get
  BY <1>9 DEF Get, At, Again, JobTypes, Jobs
<1>10. CASE Chunk
  BY <1>10 DEF Chunk, At, JobTypes, Jobs
<1>11. CASE Small
  BY <1>11 DEF Small, At, Goes, JobTypes, Jobs
<1>12. CASE Check
  BY <1>12 DEF Check, CheckIf, At, Again, Goes, JobTypes, Jobs
<1>13. CASE Place
  <2>1. tmp \in Contents /\ (digested => tmp \in Files) /\ doc # None
    BY <1>13 DEF Place, At, Pieces, WorldTypes
  <2> QED
    BY <1>13, <2>1, PlaceEffect DEF JobTypes, Place
<1>14. CASE GetTransfer
  BY <1>14 DEF GetTransfer, At, Goes, JobTypes, Jobs
<1>15. CASE Send
  BY <1>15 DEF Send, SendIf, At, Goes, JobTypes, Jobs
<1>16. CASE Sent
  BY <1>16 DEF Sent, At, Goes, JobTypes, Jobs
<1>17. CASE SentNowhere
  BY <1>17 DEF SentNowhere, Again
<1>18. CASE Complete
  BY <1>18 DEF Complete, At, Goes, JobTypes, Jobs
<1>19. CASE Link
  BY <1>19 DEF Link, Executes, At, Goes, JobTypes, Jobs
<1>20. CASE LinkNotFound
  BY <1>20 DEF LinkNotFound, Drop
<1>21. CASE Linked
  <2>1. doc \in Contents /\ doc # None /\ proc \in Jobs /\ Job("up")
    BY <1>21 DEF Linked, At, JobTypes, WorldTypes, Files
  <2> QED
    BY <1>21, <2>1, LinkedEffect DEF JobTypes, Linked
<1>22. ASSUME NEW same \in BOOLEAN, LinkLost(same) PROVE Documents'
  BY <1>22 DEF LinkLost, LinkLostIf, Executes, Again
<1>23. ASSUME NEW executed \in BOOLEAN, NEW found \in BOOLEAN, LinkUnavailable(executed, found) PROVE Documents'
  <2>1. doc' \in Contents \cup {None} /\ proc' = None /\ Job("up") /\ batch # None
    BY <1>23 DEF LinkUnavailable, Executes, Again, Drop, At, WorldTypes, Files
  <2>2. doc' = None => doc = None /\ copies' = copies /\ ~served'
    BY <1>23, <2>1 DEF LinkUnavailable, Executes
  <2>3. UNCHANGED <<digested, news, disk>>
    BY <1>23 DEF LinkUnavailable
  <2> QED
    BY <1>23, <2>1, <2>2, <2>3, LinkUnavailableEffect DEF JobTypes
<1>24. CASE Pause
  BY <1>24 DEF Pause
<1>25. CASE Resume
  BY <1>25 DEF Resume, ResumeIf
<1>26. CASE SuspendEngine
  BY <1>26 DEF SuspendEngine
<1>27. CASE ResumeEngine
  BY <1>27 DEF ResumeEngine, ResumeEngineIf, ResumeIf
<1>28. CASE Crash
  BY <1>28 DEF Crash
<1>29. CASE BatchExpires
  BY <1>29 DEF BatchExpires
<1>30. CASE UNCHANGED vars
  BY <1>30
<1> QED
  BY <1>1, <1>2, <1>3, <1>4, <1>5, <1>6, <1>7, <1>8, <1>9, <1>10, <1>11, <1>12, <1>13, <1>14, <1>15,
     <1>16, <1>17, <1>18, <1>19, <1>20, <1>21, <1>22, <1>23, <1>24, <1>25, <1>26, <1>27, <1>28,
     <1>29, <1>30 DEF Next
\* What is still to come and what is there make up the file at each place of the processor.
LEMMA PiecesStep ==
  ASSUME TransferTypes, JobTypes', [Next]_vars
  PROVE  Pieces'
<1> USE DEF TransferTypes, Pieces, Working, vars, world, server, engine
<1>1. CASE UserEdits
  BY <1>1 DEF UserEdits
<1>2. CASE ServerChanges
  BY <1>2 DEF ServerChanges
<1>3. CASE DiskReported
  <2>1. UNCHANGED <<proc, digested, tmp, batch>> /\ (UNCHANGED up \/ up' = None)
    BY <1>3, DiskReportedEffect DEF JobTypes, WorldTypes
  <2> QED
    BY <2>1
<1>4. CASE DocReported
  <2>1. doc \in Contents
    BY <1>4 DEF DocReported, Report, ReportIf, WorldTypes, Files, Documents
  <2>2. /\ "doc" \in news /\ news' = news \ {"doc"}
        /\ UNCHANGED <<doc, served, copies, proc, digested, disk, tmp, batch>>
        /\ UNCHANGED pair \/ pair'.state = "down"
        /\ UNCHANGED up \/ up' = None
    BY <1>4, <2>1, DocReportedEffect DEF JobTypes
  <2> QED
    BY <2>1, <2>2
<1>5. CASE Take
  BY <1>5, TakeEffect DEF JobTypes, Take
<1>6. CASE Fails
  BY <1>6 DEF Fails, Again
<1>7. CASE Raised
  BY <1>7 DEF Raised, RowTypes, Rows
<1>8. CASE Info
  <2>1. digested => doc \in Files
    BY <1>8 DEF Info, At, WorldTypes, Documents, Job
  <2> QED
    BY <1>8, <2>1 DEF Info, At, JobTypes, Jobs
<1>9. CASE Get
  <2>1. proc' = None \/ \E a \in {"chunk", "tail"} :
                            proc' = [proc EXCEPT !.rest = SubSeq(doc, Size + 1, Chunks), !.at = a]
    BY <1>9 DEF Get, Again
  <2>2. proc' # None => SubSeq(doc, Size + 1, Chunks) # <<>>
    <3>1. proc' # None => ~(Size >= Chunks)
      BY <1>9 DEF Get, Again
    <3>2. doc \in Files /\ Size \in Nat
      BY <1>9, ContentFacts DEF Get, At, WorldTypes, Documents, Job, Size
    <3>3. ~(Size >= Chunks) => Size < Chunks
      BY <3>2, ChunksAssumption
    <3> QED
      BY <3>1, <3>2, <3>3, ContentFacts
  <2>3. UNCHANGED <<batch, digested>> /\ proc \in Jobs /\ proc # None /\ proc.at = "get"
    BY <1>9 DEF Get, At, JobTypes
  <2>4. up' = up
    BY <1>9 DEF Get
  <2>5. proc' # None => /\ proc'.rest = SubSeq(doc, Size + 1, Chunks) /\ proc'.digest = proc.digest
                        /\ proc'.at \in {"chunk", "tail"}
    BY <2>1, <2>3 DEF Jobs
  <2> QED
    BY <2>2, <2>3, <2>4, <2>5
<1>10. CASE Chunk
  <2>1. proc.rest \in Contents /\ proc.rest # <<>>
    BY <1>10 DEF Chunk, At, JobTypes, Jobs
  <2>2. Len(proc.rest) # 1 => Tail(proc.rest) # <<>>
    <3>1. Tail(proc.rest) = <<>> => Len(proc.rest) - 1 = 0 /\ Len(proc.rest) \in Nat
      BY <2>1, ContentFacts
    <3> QED
      BY <3>1
  <2>3. tmp' # None
    <3>1. Head(proc.rest) \in Nat /\ (IF tmp = None THEN <<>> ELSE tmp) \in Contents
      BY <2>1, ContentFacts DEF WorldTypes
    <3>2. (IF tmp = None THEN <<>> ELSE tmp) \o <<Head(proc.rest)>> \in Contents
      BY <3>1 DEF Contents
    <3> QED
      BY <1>10, <3>2, NoneAssumption DEF Chunk
  <2>4. PICK a \in {"raised", "check", "chunk"} :
          proc' = [proc EXCEPT !.rest = Tail(proc.rest), !.at = a] /\ (a = "chunk" => Len(proc.rest) # 1)
    BY <1>10 DEF Chunk, At
  <2>5. proc \in Jobs /\ proc # None /\ proc.at = "chunk" /\ UNCHANGED <<batch, digested, up>>
    BY <1>10 DEF Chunk, At, JobTypes
  <2>6. proc'.at = a /\ proc'.rest = Tail(proc.rest) /\ proc'.digest = proc.digest
    BY <2>4, <2>5 DEF Jobs
  <2> QED
    BY <2>2, <2>3, <2>4, <2>5, <2>6
<1>11. CASE Small
  <2>1. proc.rest # None
    BY <1>11, NoneAssumption DEF Small, At, JobTypes, Jobs
  <2> QED
    BY <1>11, <2>1 DEF Small, At, Goes, JobTypes, Jobs
<1>12. CASE Check
  <2>1. digested => proc.digest # None
    BY <1>12, NoneAssumption DEF Check, CheckIf, At, Files
  <2> QED
    BY <1>12, <2>1 DEF Check, CheckIf, At, Again, Goes, JobTypes, Jobs
<1>13. CASE Place
  BY <1>13 DEF Place
<1>14. CASE GetTransfer
  <2>1. Row("ongoing", FALSE).status # "done"
    BY RowMade DEF Statuses
  <2> QED
    BY <1>14, <2>1 DEF GetTransfer, At, Goes, JobTypes, Jobs
<1>15. CASE Send
  <2>1. batch' = Append(batch, disk[Len(batch) + 1]) /\ batch \in Contents /\ Len(batch) < Chunks
    BY <1>15 DEF Send, SendIf, WorldTypes
  <2>2. Len(batch') = Len(batch) + 1
    <3>1. digested /\ disk \in Files /\ Len(batch) + 1 \in 1..Chunks
      BY <1>15, <2>1, ContentFacts, ChunksAssumption DEF Send, SendIf, At, Documents, Job
    <3> QED
      BY <2>1, <3>1, ContentFacts
  <2>3. up # None /\ up.status = "done" => Len(batch) = Chunks
    BY <1>15 DEF Send, SendIf
  <2>4. Len(batch) \in Nat
    BY <2>1, ContentFacts
  <2>5. PICK a \in {"raised", "complete", "send"} :
          proc' = [proc EXCEPT !.at = a] /\ (a = "complete" => Len(batch) + 1 = Chunks)
    BY <1>15 DEF Send, SendIf, Goes
  <2>6. proc \in Jobs /\ proc.at = "send" /\ up' = up
    BY <1>15 DEF Send, SendIf, At, JobTypes
  <2>7. proc' \in Jobs /\ proc'.at = a
    BY <2>5, <2>6 DEF Jobs, Places
  <2> QED
    BY <2>1, <2>2, <2>3, <2>4, <2>5, <2>6, <2>7, ChunksAssumption
<1>16. CASE Sent
  BY <1>16 DEF Sent, At, Goes, JobTypes, Jobs
<1>17. CASE SentNowhere
  BY <1>17 DEF SentNowhere, Again
<1>18. CASE Complete
  <2>1. batch # None => Len(batch) = Chunks
    BY <1>18 DEF Complete, At
  <2> QED
    BY <1>18, <2>1 DEF Complete, At, Goes, JobTypes, Jobs
<1>19. CASE Link
  BY <1>19 DEF Link, At, Goes, JobTypes, Jobs
<1>20. CASE LinkNotFound
  BY <1>20 DEF LinkNotFound, Drop
<1>21. CASE Linked
  <2>1. doc \in Contents /\ proc \in Jobs
    BY <1>21 DEF Linked, At, JobTypes, WorldTypes, Files, Documents
  <2> QED
    BY <1>21, <2>1, LinkedEffect DEF JobTypes, Linked
<1>22. ASSUME NEW same \in BOOLEAN, LinkLost(same) PROVE Pieces'
  BY <1>22 DEF LinkLost, LinkLostIf, At, Again
<1>23. ASSUME NEW executed \in BOOLEAN, NEW found \in BOOLEAN, LinkUnavailable(executed, found) PROVE Pieces'
  BY <1>23 DEF LinkUnavailable, Again, Drop
<1>24. CASE Pause
  BY <1>24 DEF Pause, RowTypes, Rows
<1>25. CASE Resume
  BY <1>25, RowFields DEF Resume, ResumeIf, Freed, RowTypes, Rows
<1>26. CASE SuspendEngine
  BY <1>26 DEF SuspendEngine, RowTypes, Rows
<1>27. CASE ResumeEngine
  BY <1>27 DEF ResumeEngine, ResumeEngineIf, ResumeIf, Freed, RowTypes, Rows
<1>28. CASE Crash
  BY <1>28 DEF Crash, Freed, RowTypes, Rows
<1>29. CASE BatchExpires
  BY <1>29 DEF BatchExpires
<1>30. CASE UNCHANGED vars
  BY <1>30
<1> QED
  BY <1>1, <1>2, <1>3, <1>4, <1>5, <1>6, <1>7, <1>8, <1>9, <1>10, <1>11, <1>12, <1>13, <1>14, <1>15,
     <1>16, <1>17, <1>18, <1>19, <1>20, <1>21, <1>22, <1>23, <1>24, <1>25, <1>26, <1>27, <1>28,
     <1>29, <1>30 DEF Next

\* The request of a creation keeps its identifier until a reason names the new one.
LEMMA CopiesStep ==
  ASSUME TransferTypes, TransferTypes', CopiesInv, [Next]_vars
  PROVE  CopiesInv'
<1> USE DEF CopiesInv, vars, world, server, engine
<1>1. CASE UserEdits
  BY <1>1 DEF UserEdits
<1>2. CASE ServerChanges
  BY <1>2 DEF ServerChanges
<1>3. CASE DiskReported
  <2>1. /\ UNCHANGED <<copies, why, proc, served>>
        /\ UNCHANGED pair \/ pair'.state = IF pair.state = "new" THEN "new" ELSE "up"
    BY <1>3, DiskReportedEffect DEF JobTypes, WorldTypes, TransferTypes
  <2> QED
    BY <2>1
<1>4. CASE DocReported
  <2>1. doc \in Contents
    BY <1>4 DEF DocReported, Report, ReportIf, WorldTypes, Files, Documents, TransferTypes
  <2>2. UNCHANGED <<copies, why, proc, served>> /\ (UNCHANGED pair \/ pair'.state = "down")
    BY <1>4, <2>1, DocReportedEffect DEF JobTypes, TransferTypes
  <2> QED
    BY <2>2
<1>5. CASE Take
  <2>1. proc' = None \/ proc'.pair = pair
    BY <1>5, TakeEffect DEF JobTypes, TransferTypes
  <2> QED
    BY <1>5, <2>1 DEF Take
<1>6. CASE Fails
  BY <1>6 DEF Fails, Again
<1>7. CASE Raised
  BY <1>7 DEF Raised
<1>8. CASE Info
  BY <1>8 DEF Info, At, JobTypes, Jobs, TransferTypes
<1>9. CASE Get
  BY <1>9 DEF Get, At, Again, JobTypes, Jobs, TransferTypes
<1>10. CASE Chunk
  BY <1>10 DEF Chunk, At, JobTypes, Jobs, TransferTypes
<1>11. CASE Small
  BY <1>11 DEF Small, At, Goes, JobTypes, Jobs, TransferTypes
<1>12. CASE Check
  BY <1>12 DEF Check, CheckIf, At, Again, Goes, JobTypes, Jobs, TransferTypes
<1>13. CASE Place
  <2>1. tmp \in Contents
    BY <1>13 DEF Place, At, Pieces, WorldTypes, Working, TransferTypes
  <2>2. proc' = None /\ (pair'.state = "synced" \/ pair'.state = pair.state)
    BY <1>13, <2>1, PlaceEffect DEF JobTypes, TransferTypes, Place
  <2> QED
    BY <1>13, <2>2 DEF Place
<1>14. CASE GetTransfer
  BY <1>14 DEF GetTransfer, At, Goes, WorldTypes, JobTypes, Jobs, TransferTypes
<1>15. CASE Send
  BY <1>15 DEF Send, SendIf, At, Goes, JobTypes, Jobs, TransferTypes
<1>16. CASE Sent
  BY <1>16 DEF Sent, At, Goes, JobTypes, Jobs, TransferTypes
<1>17. CASE SentNowhere
  BY <1>17 DEF SentNowhere, Again
<1>18. CASE Complete
  BY <1>18 DEF Complete, At, Goes, JobTypes, Jobs, TransferTypes
<1>19. CASE Link
  BY <1>19 DEF Link, At, Goes, Executes, WorldTypes, JobTypes, Jobs, TransferTypes
<1>20. CASE LinkNotFound
  BY <1>20 DEF LinkNotFound, Drop
<1>21. CASE Linked
  <2>1. doc \in Contents /\ proc \in Jobs
    BY <1>21 DEF Linked, At, JobTypes, WorldTypes, Files, Documents, Working, TransferTypes
  <2>2. pair'.state # "new" /\ (proc' = None \/ proc'.pair = pair')
    BY <1>21, <2>1, LinkedEffect DEF JobTypes, TransferTypes
  <2> QED
    BY <1>21, <2>2 DEF Linked
<1>22. ASSUME NEW same \in BOOLEAN, LinkLost(same) PROVE CopiesInv'
  BY <1>22 DEF LinkLost, LinkLostIf, At, Again, Executes, TransferTypes, WorldTypes
<1>23. ASSUME NEW executed \in BOOLEAN, NEW found \in BOOLEAN, LinkUnavailable(executed, found) PROVE CopiesInv'
  BY <1>23 DEF LinkUnavailable
<1>24. CASE Pause
  BY <1>24 DEF Pause
<1>25. CASE Resume
  BY <1>25 DEF Resume, ResumeIf
<1>26. CASE SuspendEngine
  BY <1>26 DEF SuspendEngine
<1>27. CASE ResumeEngine
  BY <1>27 DEF ResumeEngine, ResumeEngineIf, ResumeIf
<1>28. CASE Crash
  BY <1>28 DEF Crash
<1>29. CASE BatchExpires
  BY <1>29 DEF BatchExpires
<1>30. CASE UNCHANGED vars
  BY <1>30
<1> QED
  BY <1>1, <1>2, <1>3, <1>4, <1>5, <1>6, <1>7, <1>8, <1>9, <1>10, <1>11, <1>12, <1>13, <1>14, <1>15,
     <1>16, <1>17, <1>18, <1>19, <1>20, <1>21, <1>22, <1>23, <1>24, <1>25, <1>26, <1>27, <1>28,
     <1>29, <1>30 DEF Next
\* Only the chunk that was on its way is counted.
LEMMA PauseStep ==
  ASSUME TransferTypes, TransferTypes', PauseInv, [Next]_vars
  PROVE  PauseInv'
<1> USE DEF PauseInv, Working, vars, world, server, engine
<1>1. CASE UserEdits
  BY <1>1 DEF UserEdits
<1>2. CASE ServerChanges
  BY <1>2 DEF ServerChanges
<1>3. CASE DiskReported
  <2>1. /\ UNCHANGED <<proc, after>>
        /\ UNCHANGED <<down, up>> \/ (down' = None /\ up' = None)
    BY <1>3, DiskReportedEffect DEF JobTypes, WorldTypes, TransferTypes
  <2> QED
    BY <2>1
<1>4. CASE DocReported
  <2>1. doc \in Contents
    BY <1>4 DEF DocReported, Report, ReportIf, WorldTypes, Files, Documents, TransferTypes
  <2>2. UNCHANGED <<proc, after>> /\ (UNCHANGED <<down, up>> \/ (down' = None /\ up' = None))
    BY <1>4, <2>1, DocReportedEffect DEF JobTypes, TransferTypes
  <2> QED
    BY <2>2
<1>5. CASE Take
  <2>1. /\ proc = None
        /\ proc' = None \/ (proc'.at \in {"info", "batch"} /\ ~(\E row \in {down, up} : Stopped(row) /\ row.tied))
    BY <1>5, TakeEffect DEF JobTypes, TransferTypes
  <2>2. down # None /\ down.status = "paused" => proc' = None
    BY <2>1 DEF Stopped
  <2> QED
    BY <1>5, <2>1, <2>2 DEF Take
<1>6. CASE Fails
  BY <1>6 DEF Fails, Again
<1>7. CASE Raised
  BY <1>7 DEF Raised, TransferTypes, RowTypes, Rows
<1>8. CASE Info
  BY <1>8 DEF Info, At, JobTypes, Jobs, WorldTypes, TransferTypes
<1>9. CASE Get
  <2>1. Row("ongoing", TRUE).tied /\ Row("ongoing", TRUE).status = "ongoing"
    BY RowMade DEF Statuses
  <2>2. proc # None /\ proc.at = "get" /\ proc \in Jobs /\ (proc' = None \/ proc'.at \in {"chunk", "tail"})
    BY <1>9 DEF Get, At, Again, JobTypes, Jobs, TransferTypes
  <2> QED
    BY <1>9, <2>1, <2>2 DEF Get
<1>10. CASE Chunk
  <2>1. proc # None /\ proc.at = "chunk" /\ proc \in Jobs /\ proc'.at \in {"chunk", "check", "raised"}
    BY <1>10 DEF Chunk, At, JobTypes, Jobs, TransferTypes
  <2>2. down # None /\ down.status = "paused" => proc'.at = "raised"
    BY <1>10, <2>1 DEF Chunk, Stopped, Jobs
  <2>3. after \in Nat
    BY DEF TransferTypes, WorldTypes
  <2> QED
    BY <1>10, <2>1, <2>2, <2>3 DEF Chunk
<1>11. CASE Small
  BY <1>11 DEF Small, At, Goes, JobTypes, Jobs, WorldTypes, TransferTypes
<1>12. CASE Check
  BY <1>12 DEF Check, CheckIf, At, Again, Goes, JobTypes, Jobs, WorldTypes, TransferTypes
<1>13. CASE Place
  BY <1>13 DEF Place
<1>14. CASE GetTransfer
  <2>1. Row("ongoing", FALSE).status = "ongoing"
    BY RowMade DEF Statuses
  <2>2. proc # None /\ proc.at = "batch" /\ proc \in Jobs
    BY <1>14 DEF GetTransfer, At, JobTypes, TransferTypes
  <2>3. up # None /\ up.status = "paused" => proc'.at = "raised" /\ UNCHANGED up
    BY <1>14, <2>2 DEF GetTransfer, Stopped, Goes, Jobs
  <2> QED
    BY <1>14, <2>1, <2>2, <2>3 DEF GetTransfer
<1>15. CASE Send
  <2>1. proc # None /\ proc.at = "send" /\ proc \in Jobs
    BY <1>15 DEF Send, SendIf, At, JobTypes, TransferTypes
  <2>2. up # None /\ up.status = "paused" => proc'.at = "raised"
    BY <1>15, <2>1 DEF Send, SendIf, Goes, Stopped, Jobs
  <2>3. after \in Nat /\ UNCHANGED <<down, up>>
    BY <1>15 DEF TransferTypes, WorldTypes, Send, SendIf
  <2>4. after' = after \/ (up # None /\ up.status = "paused" /\ after' = after + 1)
    BY <1>15, <2>3 DEF Send, SendIf
  <2> QED
    BY <2>1, <2>2, <2>3, <2>4
<1>16. CASE Sent
  BY <1>16 DEF Sent, At, Goes, JobTypes, Jobs, WorldTypes, TransferTypes
<1>17. CASE SentNowhere
  BY <1>17 DEF SentNowhere, Again
<1>18. CASE Complete
  <2>1. proc # None /\ proc.at = "complete" /\ proc \in Jobs /\ proc'.at = "link"
    BY <1>18 DEF Complete, At, Goes, JobTypes, Jobs, TransferTypes
  <2> QED
    BY <1>18, <2>1 DEF Complete, TransferTypes, RowTypes, Rows
<1>19. CASE Link
  BY <1>19 DEF Link, At, Goes, JobTypes, Jobs, WorldTypes, TransferTypes
<1>20. CASE LinkNotFound
  BY <1>20 DEF LinkNotFound, Drop
<1>21. CASE Linked
  <2>1. doc \in Contents /\ proc \in Jobs
    BY <1>21 DEF Linked, At, JobTypes, WorldTypes, Files, Documents, Working, TransferTypes
  <2>2. proc # None /\ proc.at = "linked" /\ (proc' = None \/ proc'.at = "info")
    BY <1>21, <2>1, LinkedEffect DEF Linked, At, JobTypes, TransferTypes
  <2> QED
    BY <1>21, <2>2 DEF Linked
<1>22. ASSUME NEW same \in BOOLEAN, LinkLost(same) PROVE PauseInv'
  BY <1>22 DEF LinkLost, LinkLostIf, Again
<1>23. ASSUME NEW executed \in BOOLEAN, NEW found \in BOOLEAN, LinkUnavailable(executed, found) PROVE PauseInv'
  <2>1. proc' = None /\ UNCHANGED after /\ (UNCHANGED <<down, up>> \/ (down' = None /\ up' = None))
    BY <1>23 DEF LinkUnavailable, Drop, Again
  <2> QED
    BY <2>1
<1>24. CASE Pause
  BY <1>24 DEF Pause, TransferTypes, RowTypes, Rows
<1>25. CASE Resume
  BY <1>25 DEF Resume, ResumeIf, Freed, TransferTypes, RowTypes, Rows
<1>26. CASE SuspendEngine
  BY <1>26 DEF SuspendEngine, TransferTypes, RowTypes, Rows
<1>27. CASE ResumeEngine
  BY <1>27 DEF ResumeEngine, ResumeEngineIf, ResumeIf, Freed, TransferTypes, RowTypes, Rows
<1>28. CASE Crash
  BY <1>28 DEF Crash, Freed, TransferTypes, RowTypes, Rows
<1>29. CASE BatchExpires
  BY <1>29 DEF BatchExpires
<1>30. CASE UNCHANGED vars
  BY <1>30
<1> QED
  BY <1>1, <1>2, <1>3, <1>4, <1>5, <1>6, <1>7, <1>8, <1>9, <1>10, <1>11, <1>12, <1>13, <1>14, <1>15,
     <1>16, <1>17, <1>18, <1>19, <1>20, <1>21, <1>22, <1>23, <1>24, <1>25, <1>26, <1>27, <1>28,
     <1>29, <1>30 DEF Next

\* A pair that changes under the processor is queued.
LEMMA VersionStep ==
  ASSUME TransferTypes, TransferTypes', VersionInv, [Next]_vars
  PROVE  VersionInv'
<1> USE DEF VersionInv, Job, vars, world, server, engine
<1>1. CASE UserEdits
  BY <1>1 DEF UserEdits
<1>2. CASE ServerChanges
  BY <1>2 DEF ServerChanges
<1>3. CASE DiskReported
  <2>1. /\ UNCHANGED proc
        /\ \/ UNCHANGED <<pair, queue>>
           \/ /\ queue' /\ pair'.ver = pair.ver + 1 /\ pair'.state \in {"new", "up"}
    BY <1>3, DiskReportedEffect DEF JobTypes, WorldTypes, TransferTypes
  <2>2. pair.ver \in Nat /\ (proc # None => proc.pair.ver \in Nat)
    BY DEF TransferTypes, JobTypes, Jobs, Pairs
  <2> QED
    BY <2>1, <2>2
<1>4. CASE DocReported
  <2>1. doc \in Contents
    BY <1>4 DEF DocReported, Report, ReportIf, WorldTypes, Files, Documents, TransferTypes
  <2>2. /\ UNCHANGED proc
        /\ \/ UNCHANGED <<pair, queue>>
           \/ /\ queue' /\ pair'.ver = pair.ver + 1 /\ pair'.state = "down"
    BY <1>4, <2>1, DocReportedEffect DEF JobTypes, TransferTypes
  <2>3. pair.ver \in Nat /\ (proc # None => proc.pair.ver \in Nat)
    BY DEF TransferTypes, JobTypes, Jobs, Pairs
  <2> QED
    BY <2>2, <2>3
<1>5. CASE Take
  <2>1. UNCHANGED pair /\ pair.ver \in Nat
    BY <1>5 DEF Take, TransferTypes, JobTypes, Pairs
  <2>2. proc' = None \/ (/\ proc'.pair = pair
                       /\ \/ pair.state = "down" /\ proc'.job = "down"
                          \/ pair.state \in {"new", "up"} /\ proc'.job = "up")
    BY <1>5, TakeEffect DEF JobTypes, TransferTypes
  <2> QED
    BY <2>1, <2>2
<1>6. CASE Fails
  BY <1>6 DEF Fails, Again
<1>7. CASE Raised
  BY <1>7 DEF Raised
<1>8. CASE Info
  BY <1>8 DEF Info, At, JobTypes, Jobs, TransferTypes
<1>9. CASE Get
  BY <1>9 DEF Get, At, Again, JobTypes, Jobs, TransferTypes
<1>10. CASE Chunk
  BY <1>10 DEF Chunk, At, JobTypes, Jobs, TransferTypes
<1>11. CASE Small
  BY <1>11 DEF Small, At, Goes, JobTypes, Jobs, TransferTypes
<1>12. CASE Check
  BY <1>12 DEF Check, CheckIf, At, Again, Goes, JobTypes, Jobs, TransferTypes
<1>13. CASE Place
  BY <1>13 DEF Place
<1>14. CASE GetTransfer
  BY <1>14 DEF GetTransfer, At, Goes, JobTypes, Jobs, TransferTypes
<1>15. CASE Send
  BY <1>15 DEF Send, SendIf, At, Goes, JobTypes, Jobs, TransferTypes
<1>16. CASE Sent
  BY <1>16 DEF Sent, At, Goes, JobTypes, Jobs, TransferTypes
<1>17. CASE SentNowhere
  BY <1>17 DEF SentNowhere, Again
<1>18. CASE Complete
  BY <1>18 DEF Complete, At, Goes, JobTypes, Jobs, TransferTypes
<1>19. CASE Link
  BY <1>19 DEF Link, At, Goes, JobTypes, Jobs, TransferTypes
<1>20. CASE LinkNotFound
  BY <1>20 DEF LinkNotFound, Drop
<1>21. CASE Linked
  <2>1. doc \in Contents /\ proc \in Jobs
    BY <1>21 DEF Linked, At, JobTypes, WorldTypes, Files, Documents, Working, TransferTypes
  <2>2. \/ proc' = None
        \/ /\ proc'.job = "down" /\ proc'.pair = pair' /\ pair' \in Pairs /\ proc # None
           /\ pair'.state = IF pair.state = "new" THEN "up" ELSE pair.state
    BY <1>21, <2>1, LinkedEffect DEF JobTypes, TransferTypes, Linked, At
  <2>3. pair' \in Pairs => pair'.ver \in Nat
    BY DEF Pairs
  <2> QED
    BY <2>2, <2>3
<1>22. ASSUME NEW same \in BOOLEAN, LinkLost(same) PROVE VersionInv'
  BY <1>22 DEF LinkLost, LinkLostIf, Again
<1>23. ASSUME NEW executed \in BOOLEAN, NEW found \in BOOLEAN, LinkUnavailable(executed, found) PROVE VersionInv'
  BY <1>23 DEF LinkUnavailable, Drop, Again
<1>24. CASE Pause
  BY <1>24 DEF Pause
<1>25. CASE Resume
  BY <1>25 DEF Resume, ResumeIf
<1>26. CASE SuspendEngine
  BY <1>26 DEF SuspendEngine
<1>27. CASE ResumeEngine
  BY <1>27 DEF ResumeEngine, ResumeEngineIf, ResumeIf
<1>28. CASE Crash
  BY <1>28 DEF Crash
<1>29. CASE BatchExpires
  BY <1>29 DEF BatchExpires
<1>30. CASE UNCHANGED vars
  BY <1>30
<1> QED
  BY <1>1, <1>2, <1>3, <1>4, <1>5, <1>6, <1>7, <1>8, <1>9, <1>10, <1>11, <1>12, <1>13, <1>14, <1>15,
     <1>16, <1>17, <1>18, <1>19, <1>20, <1>21, <1>22, <1>23, <1>24, <1>25, <1>26, <1>27, <1>28,
     <1>29, <1>30 DEF Next

\* What is dropped has a row that queues it when it goes on.
LEMMA ForgottenStep ==
  ASSUME TransferTypes, TransferTypes', VersionInv, ForgottenInv, [Next]_vars
  PROVE  ForgottenInv'
<1> USE DEF ForgottenInv, Working, Tied, RowOf, vars, world, server, engine
<1>1. CASE UserEdits
  BY <1>1 DEF UserEdits
<1>2. CASE ServerChanges
  BY <1>2 DEF ServerChanges
<1>3. CASE DiskReported
  <2>1. /\ UNCHANGED <<proc, why, suspended>>
        /\ UNCHANGED <<pair, down, up, queue>> \/ (queue' /\ down' = None /\ up' = None)
    BY <1>3, DiskReportedEffect DEF JobTypes, WorldTypes, TransferTypes
  <2> QED
    BY <2>1 DEF Stopped
<1>4. CASE DocReported
  <2>1. doc \in Contents
    BY <1>4 DEF DocReported, Report, ReportIf, WorldTypes, Files, Documents, TransferTypes
  <2>2. /\ UNCHANGED <<proc, why, suspended>>
        /\ UNCHANGED <<pair, down, up, queue>> \/ (queue' /\ down' = None /\ up' = None)
    BY <1>4, <2>1, DocReportedEffect DEF JobTypes, TransferTypes
  <2> QED
    BY <2>2 DEF Stopped
<1>5. CASE Take
  <2>1. /\ proc = None /\ UNCHANGED <<pair, why, suspended>>
        /\ (down' = down \/ (down' = None /\ pair.state = "synced"))
        /\ (up' = up \/ (up' = None /\ pair.state = "synced"))
    BY <1>5 DEF Take
  <2>2. \/ /\ proc' = None
           /\ pair.state = "synced" \/ \E row \in {down, up} : Stopped(row) /\ row.tied
        \/ proc' \in Jobs /\ proc'.at \in {"info", "batch"}
    BY <1>5, TakeEffect DEF JobTypes, TransferTypes
  <2> QED
    BY <2>1, <2>2, NoneAssumption DEF Stopped
<1>6. CASE Fails
  BY <1>6 DEF Fails, Again
<1>7. CASE Raised
  <2>1. /\ proc # None /\ proc.at = "raised" /\ proc' = None /\ UNCHANGED <<queue, pair, suspended>>
        /\ why' = why \cup (IF ~Stopped(RowOf(proc.job)) /\ (RowOf(proc.job) = None \/ ~RowOf(proc.job).tied)
                           THEN {"early"} ELSE {})
    BY <1>7 DEF Raised
  <2>2. /\ proc.job = "down" => up' = up /\ down' = IF down = None THEN None ELSE [down EXCEPT !.tied = TRUE]
        /\ proc.job # "down" => down' = down /\ up' = IF up = None THEN None ELSE [up EXCEPT !.tied = TRUE]
    BY <1>7 DEF Raised
  <2>3. /\ \A row \in Rows : [row EXCEPT !.tied = TRUE].status = row.status /\ [row EXCEPT !.tied = TRUE].tied
        /\ \A row \in Rows : [row EXCEPT !.tied = TRUE] \in Rows
    BY DEF Rows
  <2>4. down \in Rows \cup {None} /\ up \in Rows \cup {None}
    BY DEF TransferTypes, RowTypes
  <2>5. /\ down # None => /\ [down EXCEPT !.tied = TRUE] # None /\ [down EXCEPT !.tied = TRUE].status = down.status
                          /\ [down EXCEPT !.tied = TRUE].tied
        /\ up # None => /\ [up EXCEPT !.tied = TRUE] # None /\ [up EXCEPT !.tied = TRUE].status = up.status
                        /\ [up EXCEPT !.tied = TRUE].tied
    BY <2>3, <2>4, NoneAssumption
  <2>6. (\A row \in {down, up} : row # None /\ row.status = "suspended" => suspended)'
    BY <2>1, <2>2, <2>5
  <2>7. CASE ~Stopped(RowOf(proc.job)) /\ (RowOf(proc.job) = None \/ ~RowOf(proc.job).tied)
    BY <2>1, <2>6, <2>7
  <2>8. CASE Stopped(RowOf(proc.job))
    BY <2>1, <2>2, <2>5, <2>6, <2>8 DEF Stopped
  <2>9. CASE queue
    BY <2>1, <2>6, <2>9
  <2> QED
    BY <2>1, <2>6, <2>7, <2>8, <2>9
<1>8. CASE Info
  <2>1. UNCHANGED <<down, up, queue, pair, suspended, why>> /\ proc # None /\ proc \in Jobs /\ doc \in Contents
    BY <1>8 DEF Info, At, JobTypes, TransferTypes, Documents, Job, WorldTypes, Files
  <2>2. proc' # None /\ proc'.at = "get"
    BY <1>8, <2>1, InfoEffect
  <2> QED
    BY <2>1, <2>2
<1>9. CASE Get
  <2>1. proc # None /\ proc \in Jobs /\ doc \in Files /\ tmp \in Contents \cup {None}
    BY <1>9 DEF Get, At, JobTypes, TransferTypes, Documents, Job, WorldTypes
  <2>2. UNCHANGED <<pair, up, suspended, why>> /\ (down' = down \/ (down' = Row("ongoing", TRUE)))
    BY <1>9 DEF Get
  <2>3. queue' \/ (proc' # None /\ proc'.at \in {"chunk", "tail"})
    BY <1>9, <2>1, GetEffect
  <2>4. proc' # None => proc'.at # "raised"
    BY <1>9, <2>1, GetEffect
  <2>5. Row("ongoing", TRUE).status = "ongoing"
    BY RowMade DEF Statuses
  <2> QED
    BY <2>2, <2>3, <2>4, <2>5
<1>10. CASE Chunk
  <2>1. /\ UNCHANGED <<down, up, queue, pair, suspended, why>> /\ proc # None /\ proc \in Jobs
        /\ proc.rest # <<>> /\ tmp \in Contents \cup {None}
    BY <1>10 DEF Chunk, At, JobTypes, TransferTypes, Pieces, WorldTypes, Working
  <2>2. proc' # None /\ proc'.job = "down" /\ (proc'.at = "raised" => Stopped(down))
    BY <1>10, <2>1, ChunkEffect
  <2>3. Stopped(down)' = Stopped(down)
    BY <2>1 DEF Stopped
  <2> QED
    BY <2>1, <2>2, <2>3
<1>11. CASE Small
  <2>1. UNCHANGED <<down, up, queue, pair, suspended, why>> /\ proc # None /\ proc \in Jobs
    BY <1>11 DEF Small, At, JobTypes, TransferTypes
  <2>2. Goes("check")
    BY <1>11 DEF Small
  <2>3. proc' # None /\ proc'.at = "check"
    BY <2>1, <2>2, GoesEffect DEF Places
  <2> QED
    BY <2>1, <2>3
<1>12. CASE Check
  <2>1. UNCHANGED <<up, pair, suspended>> /\ (down' = down \/ down' = None) /\ proc # None /\ proc \in Jobs
    BY <1>12 DEF Check, CheckIf, At, JobTypes, TransferTypes
  <2>2. queue' \/ (UNCHANGED queue /\ Goes("place"))
    BY <1>12 DEF Check, CheckIf, Again
  <2>3. proc' = None \/ Goes("place")
    BY <1>12 DEF Check, CheckIf, Again
  <2>4. Goes("place") => proc' # None /\ proc'.at = "place"
    BY <2>1, GoesEffect DEF Places
  <2>5. why \subseteq why'
    BY <1>12 DEF Check, CheckIf
  <2> QED
    BY <2>1, <2>2, <2>3, <2>4, <2>5
<1>13. CASE Place
  <2>1. tmp \in Contents
    BY <1>13 DEF Place, At, Pieces, WorldTypes, Working, TransferTypes
  <2>2. proc' = None /\ UNCHANGED <<down, up, queue, suspended, why>> /\ proc # None
    BY <1>13 DEF Place, At
  <2>3. pair.ver = proc.pair.ver => pair'.state = "synced"
    BY <1>13, <2>1, PlaceEffect DEF JobTypes, TransferTypes
  <2>4. pair.ver # proc.pair.ver => queue
    BY <2>2 DEF VersionInv
  <2> QED
    BY <2>2, <2>3, <2>4
<1>14. CASE GetTransfer
  <2>1. UNCHANGED <<down, pair, queue, suspended>> /\ why \subseteq why' /\ proc \in Jobs /\ proc # None
    BY <1>14 DEF GetTransfer, At, JobTypes, TransferTypes
  <2>2. proc.job = "up"
    BY <1>14 DEF GetTransfer, At
  <2>3. \/ Goes("raised") /\ Stopped(up) /\ UNCHANGED up
        \/ (Goes("link") \/ Goes("send")) /\ (up' = up \/ up' = Row("ongoing", FALSE))
    BY <1>14 DEF GetTransfer
  <2>4. Row("ongoing", FALSE).status = "ongoing"
    BY RowMade DEF Statuses
  <2>5. CASE Goes("raised") /\ Stopped(up) /\ UNCHANGED up
    <3>1. proc' # None /\ proc'.job = "up" /\ Stopped(up)'
      BY <2>1, <2>2, <2>5, GoesEffect DEF Places, Stopped
    <3> QED
      BY <2>1, <2>5, <3>1
  <2>6. CASE (Goes("link") \/ Goes("send")) /\ (up' = up \/ up' = Row("ongoing", FALSE))
    <3>1. proc' # None /\ proc'.at # "raised"
      BY <2>1, <2>6, GoesEffect DEF Places
    <3> QED
      BY <2>1, <2>4, <2>6, <3>1
  <2> QED
    BY <2>3, <2>5, <2>6
<1>15. CASE Send
  <2>1. UNCHANGED <<down, up, pair, queue, suspended>> /\ why \subseteq why' /\ proc \in Jobs /\ proc # None
    BY <1>15 DEF Send, SendIf, At, JobTypes, TransferTypes
  <2>2. proc.job = "up"
    BY <1>15 DEF Send, SendIf, At
  <2>3. (Goes("raised") /\ Stopped(up)) \/ Goes("complete") \/ Goes("send")
    BY <1>15 DEF Send, SendIf
  <2>4. Stopped(up)' = Stopped(up)
    BY <2>1 DEF Stopped
  <2>5. /\ Goes("raised") => proc' # None /\ proc'.job = "up"
        /\ Goes("complete") \/ Goes("send") => proc' # None /\ proc'.at # "raised"
    BY <2>1, <2>2, GoesEffect DEF Places
  <2> QED
    BY <2>1, <2>3, <2>4, <2>5
<1>16. CASE Sent
  <2>1. UNCHANGED <<down, up, queue, pair, suspended, why>> /\ proc # None /\ proc \in Jobs
    BY <1>16 DEF Sent, At, JobTypes, TransferTypes
  <2>2. Goes("complete")
    BY <1>16 DEF Sent
  <2>3. proc' # None /\ proc'.at = "complete"
    BY <2>1, <2>2, GoesEffect DEF Places
  <2> QED
    BY <2>1, <2>3
<1>17. CASE SentNowhere
  BY <1>17 DEF SentNowhere, Again
<1>18. CASE Complete
  <2>1. UNCHANGED <<down, pair, queue, suspended, why>> /\ proc \in Jobs /\ proc # None
    BY <1>18 DEF Complete, At, JobTypes, TransferTypes
  <2>2. proc' # None /\ proc'.at = "link"
    BY <1>18, <2>1, GoesEffect DEF Complete, Places
  <2>3. up' # None => up'.status = "done"
    BY <1>18 DEF Complete, TransferTypes, RowTypes, Rows
  <2> QED
    BY <2>1, <2>2, <2>3
<1>19. CASE Link
  <2>1. UNCHANGED <<down, up, queue, pair, suspended, why>> /\ proc # None /\ proc \in Jobs
    BY <1>19 DEF Link, At, JobTypes, TransferTypes
  <2>2. Goes("linked")
    BY <1>19 DEF Link
  <2>3. proc' # None /\ proc'.at = "linked"
    BY <2>1, <2>2, GoesEffect DEF Places
  <2> QED
    BY <2>1, <2>3
<1>20. CASE LinkNotFound
  <2>1. proc' = None /\ UNCHANGED suspended /\ down' = None /\ up' = None /\ "expired" \in why'
    BY <1>20 DEF LinkNotFound, Drop
  <2> QED
    BY <2>1
<1>21. CASE Linked
  <2>1. doc \in Contents /\ proc \in Jobs
    BY <1>21 DEF Linked, At, JobTypes, WorldTypes, Files, Documents, Working, TransferTypes
  <2>2. UNCHANGED <<down, queue, suspended, why>> /\ up' = None /\ proc # None
    BY <1>21 DEF Linked, At
  <2>3. \/ proc' # None /\ proc'.at = "info"
        \/ proc' = None /\ (pair.ver = proc.pair.ver => pair'.state = "synced")
    BY <1>21, <2>1, LinkedEffect, NoneAssumption DEF JobTypes, TransferTypes
  <2>4. pair.ver # proc.pair.ver => queue
    BY <2>2 DEF VersionInv
  <2> QED
    BY <2>2, <2>3, <2>4
<1>22. ASSUME NEW same \in BOOLEAN, LinkLost(same) PROVE ForgottenInv'
  <2>1. proc' = None /\ queue' /\ UNCHANGED <<down, up, suspended>>
    BY <1>22 DEF LinkLost, LinkLostIf, Again
  <2> QED
    BY <2>1
<1>23. ASSUME NEW executed \in BOOLEAN, NEW found \in BOOLEAN, LinkUnavailable(executed, found) PROVE ForgottenInv'
  <2>1. proc' = None /\ UNCHANGED suspended /\ (UNCHANGED <<down, up>> \/ (down' = None /\ up' = None))
    BY <1>23 DEF LinkUnavailable, Drop, Again
  <2>2. "unavailable" \in why'
    BY <1>23 DEF LinkUnavailable
  <2> QED
    BY <2>1, <2>2
<1>24. CASE Pause
  <2>1. UNCHANGED <<proc, queue, pair, suspended, why>>
    BY <1>24 DEF Pause
  <2>2. /\ IF down = None THEN down' = None ELSE down' # None /\ down'.status = "paused" /\ down'.tied = down.tied
        /\ IF up = None THEN up' = None ELSE up' # None /\ up'.status = "paused" /\ up'.tied = up.tied
    BY <1>24, NoneAssumption DEF Pause, TransferTypes, RowTypes, Rows
  <2> QED
    BY <2>1, <2>2 DEF Stopped
<1>25. CASE Resume
  <2>1. UNCHANGED <<proc, pair, why>>
    BY <1>25 DEF Resume, ResumeIf
  <2>2. /\ down = None <=> down' = None
        /\ down # None => (down'.tied <=> down.tied) /\ down'.status = IF down.status = "paused" THEN "ongoing" ELSE down.status
        /\ up = None <=> up' = None
        /\ up # None => (up'.tied <=> up.tied) /\ up'.status = IF up.status = "paused" THEN "ongoing" ELSE up.status
    BY <1>25, NoneAssumption DEF Resume, ResumeIf, Freed, TransferTypes, RowTypes, Rows
  <2>3. ASSUME NEW row \in {down, up}, row # None, row.status = "paused", row.tied
        PROVE  queue'
    <3>1. Queues("paused")
      BY <2>3 DEF Queues
    <3> QED
      BY <1>25, <3>1 DEF Resume, ResumeIf
  <2>4. queue => queue'
    BY <1>25 DEF Resume, ResumeIf
  <2>5. \A row \in {down, up} : row # None /\ row.tied /\ row.status = "paused" => queue'
    BY <2>3
  <2>6. UNCHANGED suspended
    BY <1>25 DEF Resume
  <2>7. (\A row \in {down, up} : row # None /\ row.status = "suspended" => suspended)'
    BY <2>2, <2>6
  <2>8. ~queue' => (Tied(down) => Tied(down)') /\ (Tied(up) => Tied(up)')
    BY <2>2, <2>5 DEF Tied
  <2>9. ASSUME (Working({"raised"}) /\ ~queue)', why \cap {"early", "expired", "unavailable"} = {}
        PROVE  (RowOf(proc.job) = None \/ ~RowOf(proc.job).tied \/ Stopped(RowOf(proc.job)))'
    <3>1. RowOf(proc.job) = None \/ ~RowOf(proc.job).tied \/ Stopped(RowOf(proc.job))
      BY <2>1, <2>4, <2>9
    <3>2. CASE proc.job = "down"
      BY <2>1, <2>2, <2>5, <2>9, <3>1, <3>2 DEF Stopped
    <3>3. CASE proc.job # "down"
      BY <2>1, <2>2, <2>5, <2>9, <3>1, <3>3 DEF Stopped
    <3> QED
      BY <3>2, <3>3
  <2> QED
    BY <2>1, <2>4, <2>7, <2>8, <2>9
<1>26. CASE SuspendEngine
  <2>1. UNCHANGED <<proc, queue, pair, why>> /\ suspended' = TRUE
    BY <1>26 DEF SuspendEngine
  <2>2. /\ (down = None /\ down' = None) \/ (/\ down # None /\ down' # None /\ down'.tied = down.tied
                                          /\ down'.status = IF down.status = "ongoing" THEN "suspended" ELSE down.status)
        /\ (up = None /\ up' = None) \/ (/\ up # None /\ up' # None /\ up'.tied = up.tied
                                          /\ up'.status = IF up.status = "ongoing" THEN "suspended" ELSE up.status)
    BY <1>26, NoneAssumption DEF SuspendEngine, TransferTypes, RowTypes, Rows
  <2> QED
    BY <2>1, <2>2 DEF Stopped
<1>27. CASE ResumeEngine
  <2>1. UNCHANGED <<proc, pair, why>>
    BY <1>27 DEF ResumeEngine, ResumeEngineIf, ResumeIf
  <2>2. /\ down = None <=> down' = None
        /\ down # None => (down'.tied <=> down.tied) /\ down'.status = IF down.status = "suspended" THEN "ongoing" ELSE down.status
        /\ up = None <=> up' = None
        /\ up # None => (up'.tied <=> up.tied) /\ up'.status = IF up.status = "suspended" THEN "ongoing" ELSE up.status
    BY <1>27, NoneAssumption DEF ResumeEngine, ResumeEngineIf, ResumeIf, Freed, TransferTypes, RowTypes, Rows
  <2>3. ASSUME NEW row \in {down, up}, row # None, row.status = "suspended", row.tied
        PROVE  queue'
    <3>1. Queues("suspended")
      BY <2>3 DEF Queues
    <3> QED
      BY <1>27, <3>1 DEF ResumeEngine, ResumeEngineIf, ResumeIf
  <2>4. queue => queue'
    BY <1>27 DEF ResumeEngine, ResumeEngineIf, ResumeIf
  <2>5. \A row \in {down, up} : row # None /\ row.tied /\ row.status = "suspended" => queue'
    BY <2>3
  <2>6. ~suspended'
    BY <1>27 DEF ResumeEngine, ResumeEngineIf
  <2>7. (\A row \in {down, up} : row # None /\ row.status = "suspended" => suspended)'
    BY <2>2
  <2>8. ~queue' => (Tied(down) => Tied(down)') /\ (Tied(up) => Tied(up)')
    BY <2>2, <2>5 DEF Tied
  <2>9. ASSUME (Working({"raised"}) /\ ~queue)', why \cap {"early", "expired", "unavailable"} = {}
        PROVE  (RowOf(proc.job) = None \/ ~RowOf(proc.job).tied \/ Stopped(RowOf(proc.job)))'
    <3>1. RowOf(proc.job) = None \/ ~RowOf(proc.job).tied \/ Stopped(RowOf(proc.job))
      BY <2>1, <2>4, <2>9
    <3>2. CASE proc.job = "down"
      BY <2>1, <2>2, <2>5, <2>9, <3>1, <3>2 DEF Stopped
    <3>3. CASE proc.job # "down"
      BY <2>1, <2>2, <2>5, <2>9, <3>1, <3>3 DEF Stopped
    <3> QED
      BY <3>2, <3>3
  <2> QED
    BY <2>1, <2>4, <2>7, <2>8, <2>9
<1>28. CASE Crash
  <2>1. proc' = None /\ queue' = (pair.state # "synced") /\ UNCHANGED <<pair, why>>
    BY <1>28 DEF Crash
  <2>2. /\ down' # None => down'.status # "suspended"
        /\ up' # None => up'.status # "suspended"
    BY <1>28 DEF Crash, Freed, TransferTypes, RowTypes, Rows
  <2> QED
    BY <2>1, <2>2
<1>29. CASE BatchExpires
  BY <1>29 DEF BatchExpires
<1>30. CASE UNCHANGED vars
  BY <1>30
<1> QED
  BY <1>1, <1>2, <1>3, <1>4, <1>5, <1>6, <1>7, <1>8, <1>9, <1>10, <1>11, <1>12, <1>13, <1>14, <1>15,
     <1>16, <1>17, <1>18, <1>19, <1>20, <1>21, <1>22, <1>23, <1>24, <1>25, <1>26, <1>27, <1>28,
     <1>29, <1>30 DEF Next

\* Pieces are of versions that were written, and what takes a place is a whole one.
LEMMA WholeStep ==
  ASSUME TransferTypes, TransferTypes', WholeInv, ~Lost', [Next]_vars
  PROVE  WholeInv'
<1> USE DEF WholeInv, Working, vars, world, server, engine
<1>1. CASE UserEdits
  <2>1. version \in Nat /\ version' = version + 1 /\ version' \in Nat /\ version <= version'
    BY <1>1 DEF UserEdits, TransferTypes, WorldTypes
  <2>2. Whole(version + 1) \in Written(version')
    BY <2>1, WrittenFacts
  <2>3. /\ Written(version) \subseteq Written(version')
        /\ \A c \in Contents : Before(c, version) => Before(c, version')
    BY <2>1, PieceFacts
  <2>4. /\ tmp \in Contents \cup {None} /\ batch \in Contents \cup {None}
        /\ proc # None => proc.rest \in Contents
    BY DEF TransferTypes, WorldTypes, JobTypes, Jobs
  <2>5. disk' = Whole(version + 1) /\ UNCHANGED <<doc, pair, tmp, batch, proc>>
    BY <1>1 DEF UserEdits
  <2> QED
    BY <2>2, <2>3, <2>4, <2>5
<1>2. CASE ServerChanges
  <2>1. version \in Nat /\ version' = version + 1 /\ version' \in Nat /\ version <= version'
    BY <1>2 DEF ServerChanges, TransferTypes, WorldTypes
  <2>2. Whole(version + 1) \in Written(version')
    BY <2>1, WrittenFacts
  <2>3. /\ Written(version) \subseteq Written(version')
        /\ \A c \in Contents : Before(c, version) => Before(c, version')
    BY <2>1, PieceFacts
  <2>4. /\ tmp \in Contents \cup {None} /\ batch \in Contents \cup {None}
        /\ proc # None => proc.rest \in Contents
    BY DEF TransferTypes, WorldTypes, JobTypes, Jobs
  <2>5. doc' = Whole(version + 1) /\ UNCHANGED <<disk, pair, tmp, batch, proc>>
    BY <1>2 DEF ServerChanges
  <2> QED
    BY <2>2, <2>3, <2>4, <2>5
<1>3. CASE DiskReported
  <2>1. /\ UNCHANGED <<disk, doc, tmp, batch, version, proc>>
        /\ UNCHANGED pair \/ (pair'.ldig = disk /\ pair'.rdig = pair.rdig)
    BY <1>3, DiskReportedEffect DEF JobTypes, WorldTypes, TransferTypes
  <2> QED
    BY <2>1
<1>4. CASE DocReported
  <2>1. doc \in Contents
    BY <1>4 DEF DocReported, Report, ReportIf, WorldTypes, Files, Documents, TransferTypes
  <2>2. /\ UNCHANGED <<disk, doc, tmp, batch, version, proc>>
        /\ UNCHANGED pair \/ (pair'.ldig = pair.ldig /\ pair'.rdig = doc)
    BY <1>4, <2>1, DocReportedEffect DEF JobTypes, TransferTypes
  <2> QED
    BY <2>1, <2>2
<1>5. CASE Take
  <2>1. UNCHANGED <<disk, doc, pair, tmp, batch, version>>
    BY <1>5 DEF Take
  <2>2. proc' = None \/ (proc'.rest = <<>> /\ proc'.digest = None /\ proc'.at \in {"info", "batch"})
    BY <1>5, TakeEffect DEF JobTypes, TransferTypes
  <2>3. Before(<<>>, version)
    BY PieceFacts DEF TransferTypes, WorldTypes
  <2> QED
    BY <2>1, <2>2, <2>3
<1>6. CASE Fails
  <2>1. proc' = None /\ UNCHANGED <<disk, doc, pair, tmp, batch, version>>
    BY <1>6 DEF Fails, Again
  <2> QED
    BY <2>1
<1>7. CASE Raised
  <2>1. proc' = None /\ UNCHANGED <<disk, doc, pair, tmp, batch, version>>
    BY <1>7 DEF Raised
  <2> QED
    BY <2>1
<1>8. CASE Info
  <2>1. UNCHANGED <<disk, doc, pair, tmp, batch, version>> /\ proc # None /\ proc \in Jobs /\ doc \in Contents /\ doc # None
    BY <1>8, NoneAssumption DEF Info, At, JobTypes, TransferTypes, Documents, Job, WorldTypes, Files
  <2>2. proc'.at = "get" /\ proc'.rest = proc.rest /\ proc'.digest \in {doc, None}
    BY <1>8, <2>1, InfoEffect
  <2> QED
    BY <2>1, <2>2
<1>9. CASE Get
  <2>1. proc # None /\ proc \in Jobs /\ doc \in Files /\ doc # None /\ tmp \in Contents \cup {None} /\ version \in Nat
    BY <1>9 DEF Get, At, JobTypes, TransferTypes, Documents, Job, WorldTypes
  <2>2. UNCHANGED <<disk, doc, pair, batch, version>>
    BY <1>9 DEF Get
  <2>3. /\ tmp' \in {tmp, None}
        /\ \/ proc' = None
           \/ /\ proc'.rest = SubSeq(doc, Size + 1, Chunks) /\ Size \in Nat /\ Size < Chunks
              /\ proc'.digest = proc.digest /\ proc'.at # "place"
    BY <1>9, <2>1, GetEffect
  <2>4. Before(doc, version)
    BY <2>1, WrittenFacts
  <2>5. Size \in Nat /\ Size < Chunks => Before(SubSeq(doc, Size + 1, Chunks), version)
    BY <2>1, <2>4, PieceFacts
  <2> QED
    BY <2>1, <2>2, <2>3, <2>5
<1>10. CASE Chunk
  <2>1. /\ UNCHANGED <<disk, doc, pair, batch, version>> /\ proc # None /\ proc \in Jobs /\ version \in Nat
        /\ proc.rest # <<>> /\ tmp \in Contents \cup {None}
    BY <1>10 DEF Chunk, At, JobTypes, TransferTypes, Pieces, WorldTypes, Working
  <2>2. /\ proc'.rest = Tail(proc.rest) /\ proc'.digest = proc.digest /\ proc'.at # "place"
        /\ proc.rest \in Contents /\ tmp' = (IF tmp = None THEN <<>> ELSE tmp) \o <<Head(proc.rest)>>
    BY <1>10, <2>1, ChunkEffect
  <2>3. PICK t \in Contents : t = (IF tmp = None THEN <<>> ELSE tmp) /\ Before(t, version)
    BY <2>1, ContentFacts, PieceFacts
  <2>4. Head(proc.rest) \in Nat /\ Head(proc.rest) <= version /\ Before(Tail(proc.rest), version)
    BY <2>1, <2>2, ContentFacts, PieceFacts
  <2>5. Before(tmp', version)
    BY <2>1, <2>2, <2>3, <2>4, PieceFacts
  <2> QED
    BY <2>1, <2>2, <2>4, <2>5
<1>11. CASE Small
  <2>1. UNCHANGED <<disk, doc, pair, batch, version>> /\ proc # None /\ proc \in Jobs /\ tmp' = proc.rest
    BY <1>11 DEF Small, At, JobTypes, TransferTypes
  <2>2. proc' # None /\ proc'.at = "check" /\ proc'.rest = proc.rest /\ proc'.digest = proc.digest
    BY <1>11, <2>1, GoesEffect DEF Small, Places
  <2> QED
    BY <2>1, <2>2
<1>12. CASE Check
  <2>1. UNCHANGED <<disk, doc, pair, batch, version>> /\ proc # None /\ proc \in Jobs /\ tmp # None
    BY <1>12 DEF Check, CheckIf, At, JobTypes, TransferTypes, Pieces, Working
  <2>2. CASE proc.digest # None /\ tmp # proc.digest
    <3>1. proc' = None /\ tmp' = None
      BY <1>12, <2>2 DEF Check, CheckIf, Again
    <3> QED
      BY <2>1, <3>1
  <2>3. CASE ~(proc.digest # None /\ tmp # proc.digest)
    <3>1. Goes("place") /\ tmp' = tmp /\ (~IsWhole(tmp) /\ ~digested => "undigested" \in why')
      BY <1>12, <2>3 DEF Check, CheckIf
    <3>2. proc' # None /\ proc'.at = "place" /\ proc'.rest = proc.rest /\ proc'.digest = proc.digest
      BY <2>1, <3>1, GoesEffect DEF Places
    <3>3. tmp \in Written(version)
      <4>1. CASE digested
        <5>1. proc.digest \in Files /\ proc.digest # None
          BY <1>12, <4>1, NoneAssumption DEF Check, CheckIf, At, TransferTypes, Pieces, Working, Files
        <5> QED
          BY <2>1, <2>3, <5>1
      <4>2. CASE ~digested
        <5>1. IsWhole(tmp)
          BY <3>1, <4>2 DEF Lost
        <5>2. PICK v \in 0..Versions : tmp = Whole(v)
          BY <5>1 DEF IsWhole
        <5>3. v \in Nat /\ tmp \in Files
          BY <5>2, ChunksAssumption, ContentFacts
        <5>4. Len(tmp) = Chunks /\ tmp[1] = v /\ 1 \in 1..Chunks
          BY <5>2, <5>3, ChunksAssumption DEF Whole, Files
        <5>5. v <= version
          BY <2>1, <5>4 DEF Before
        <5>6. version \in Nat
          BY DEF TransferTypes, WorldTypes
        <5>7. v \in 0..version
          BY <5>3, <5>5, <5>6
        <5> QED
          BY <5>2, <5>6, <5>7, WrittenFacts
      <4> QED
        BY <4>1, <4>2 DEF TransferTypes, WorldTypes
    <3> QED
      BY <2>1, <3>1, <3>2, <3>3
  <2> QED
    BY <2>2, <2>3
<1>13. CASE Place
  <2>1. tmp \in Contents
    BY <1>13 DEF Place, At, Pieces, WorldTypes, Working, TransferTypes
  <2>2. proc' = None /\ tmp' = None /\ disk' = tmp /\ UNCHANGED <<doc, batch, version>> /\ tmp \in Written(version)
    BY <1>13 DEF Place, At
  <2>3. pair'.ldig = tmp /\ pair'.rdig \in {pair.rdig, tmp}
    BY <1>13, <2>1, PlaceEffect DEF JobTypes, TransferTypes
  <2> QED
    BY <2>2, <2>3
<1>14. CASE GetTransfer
  <2>1. UNCHANGED <<disk, doc, pair, tmp, version>> /\ proc # None /\ proc \in Jobs /\ (batch' = batch \/ batch' = <<>>)
    BY <1>14 DEF GetTransfer, At, JobTypes, TransferTypes
  <2>2. Goes("raised") \/ Goes("link") \/ Goes("send")
    BY <1>14 DEF GetTransfer
  <2>3. /\ proc' # None /\ proc'.at \in {"raised", "link", "send"} /\ proc'.rest = proc.rest
        /\ proc'.digest = proc.digest
    BY <2>1, <2>2, GoesEffect DEF Places
  <2>4. Before(<<>>, version) /\ Uniform(<<>>)
    BY PieceFacts DEF TransferTypes, WorldTypes
  <2> QED
    BY <2>1, <2>3, <2>4
<1>15. CASE Send
  <2>1. UNCHANGED <<disk, doc, pair, tmp, version>> /\ proc # None /\ proc \in Jobs /\ version \in Nat
    BY <1>15 DEF Send, SendIf, At, JobTypes, TransferTypes, WorldTypes
  <2>2. Goes("raised") \/ Goes("complete") \/ Goes("send")
    BY <1>15 DEF Send, SendIf
  <2>3. /\ proc' # None /\ proc'.at \in {"raised", "complete", "send"} /\ proc'.rest = proc.rest
        /\ proc'.digest = proc.digest
    BY <2>1, <2>2, GoesEffect DEF Places
  <2>4. batch # None /\ batch \in Contents /\ Len(batch) \in Nat /\ Len(batch) < Chunks
    BY <1>15, ContentFacts DEF Send, SendIf, TransferTypes, WorldTypes
  <2>5. disk \in Files /\ Before(disk, version) /\ Uniform(disk) /\ Len(disk) = Chunks
    BY <2>1, WrittenFacts DEF Files
  <2>6. Len(batch) + 1 \in 1..Len(disk)
    BY <2>4, <2>5, ChunksAssumption
  <2>7. /\ disk[Len(batch) + 1] \in Nat /\ disk[Len(batch) + 1] <= version
        /\ disk[Len(batch) + 1] = disk[1]
    BY <2>5, <2>6, ContentFacts DEF Before, Uniform
  <2>8. batch' = Append(batch, disk[Len(batch) + 1]) /\ (batch = <<>> \/ batch[1] = disk[1])
    BY <1>15 DEF Send, SendIf, Lost
  <2>9. PICK v \in Nat : v = disk[Len(batch) + 1] /\ v <= version /\ (batch = <<>> \/ batch[1] = v)
    BY <2>7, <2>8
  <2>10. Before(Append(batch, v), version)
    BY <2>1, <2>4, <2>9, PieceFacts
  <2>11. Uniform(Append(batch, v))
    BY <2>4, <2>9 DEF Uniform, Contents
  <2> QED
    BY <2>1, <2>3, <2>8, <2>9, <2>10, <2>11
<1>16. CASE Sent
  <2>1. UNCHANGED <<disk, doc, pair, tmp, batch, version>> /\ proc # None /\ proc \in Jobs
    BY <1>16 DEF Sent, At, JobTypes, TransferTypes
  <2>2. Goes("complete")
    BY <1>16 DEF Sent
  <2>3. proc' = None \/ (/\ proc' # None /\ proc'.at \in {"complete"} /\ proc'.rest = proc.rest
                       /\ proc'.digest = proc.digest)
    BY <2>1, <2>2, GoesEffect DEF Places
  <2> QED
    BY <2>1, <2>3
<1>17. CASE SentNowhere
  <2>1. proc' = None /\ UNCHANGED <<disk, doc, pair, tmp, batch, version>>
    BY <1>17 DEF SentNowhere, Again
  <2> QED
    BY <2>1
<1>18. CASE Complete
  <2>1. UNCHANGED <<disk, doc, pair, tmp, batch, version>> /\ proc # None /\ proc \in Jobs
    BY <1>18 DEF Complete, At, JobTypes, TransferTypes
  <2>2. Goes("link")
    BY <1>18 DEF Complete
  <2>3. proc' = None \/ (/\ proc' # None /\ proc'.at \in {"link"} /\ proc'.rest = proc.rest
                       /\ proc'.digest = proc.digest)
    BY <2>1, <2>2, GoesEffect DEF Places
  <2> QED
    BY <2>1, <2>3
<1>19. CASE Link
  <2>a. batch \in Written(version) /\ version' = version
    <3>1. batch \in Files /\ Before(batch, version) /\ Uniform(batch) /\ version \in Nat
      BY <1>19 DEF Link, At, Pieces, Working, Files, TransferTypes, WorldTypes
    <3> QED
      BY <1>19, <3>1, WrittenFacts DEF Link
  <2>1. UNCHANGED <<disk, pair, tmp, batch, version>> /\ proc # None /\ proc \in Jobs /\ doc' \in {doc, batch}
    BY <1>19 DEF Link, Executes, At, JobTypes, TransferTypes
  <2>2. proc'.at = "linked" /\ proc'.rest = proc.rest /\ proc'.digest = proc.digest
    BY <1>19, <2>1, GoesEffect DEF Link, Places
  <2> QED
    BY <2>a, <2>1, <2>2
<1>20. CASE LinkNotFound
  <2>1. proc' = None /\ UNCHANGED <<disk, doc, pair, tmp, batch, version>>
    BY <1>20 DEF LinkNotFound, Drop
  <2> QED
    BY <2>1
<1>21. CASE Linked
  <2>1. doc \in Contents /\ proc \in Jobs
    BY <1>21 DEF Linked, At, JobTypes, WorldTypes, Files, Documents, Working, TransferTypes
  <2>2. UNCHANGED <<disk, doc, tmp, version>> /\ batch' = None /\ proc # None /\ doc # None
    BY <1>21, <2>1, NoneAssumption DEF Linked, At
  <2>3. /\ pair'.rdig = doc /\ pair'.ldig = pair.ldig
        /\ proc' = None \/ (proc'.rest = proc.rest /\ proc'.digest = proc.digest /\ proc'.at = "info")
    BY <1>21, <2>1, LinkedEffect DEF JobTypes, TransferTypes
  <2> QED
    BY <2>2, <2>3
<1>22. ASSUME NEW same \in BOOLEAN, LinkLost(same) PROVE WholeInv'
  <2>a. batch \in Written(version) /\ version' = version
    <3>1. batch \in Files /\ Before(batch, version) /\ Uniform(batch) /\ version \in Nat
      BY <1>22 DEF LinkLost, LinkLostIf, At, Pieces, Working, Files, TransferTypes, WorldTypes
    <3> QED
      BY <1>22, <3>1, WrittenFacts DEF LinkLost, LinkLostIf
  <2>1. UNCHANGED <<disk, pair, tmp, batch, version>> /\ proc' = None /\ doc' \in {doc, batch}
    BY <1>22 DEF LinkLost, LinkLostIf, Executes, Again
  <2> QED
    BY <2>a, <2>1
<1>23. ASSUME NEW executed \in BOOLEAN, NEW found \in BOOLEAN, LinkUnavailable(executed, found) PROVE WholeInv'
  <2>a. batch \in Written(version) /\ version' = version
    <3>1. batch \in Files /\ Before(batch, version) /\ Uniform(batch) /\ version \in Nat
      BY <1>23 DEF LinkUnavailable, At, Pieces, Working, Files, TransferTypes, WorldTypes
    <3> QED
      BY <1>23, <3>1, WrittenFacts DEF LinkUnavailable
  <2>1. doc' \in Contents \cup {None}
    BY <1>23 DEF LinkUnavailable, Executes, At, WorldTypes, Files, TransferTypes
  <2>b. UNCHANGED <<disk, tmp, batch, version>> /\ proc' = None /\ doc' \in {doc, batch}
    BY <1>23 DEF LinkUnavailable, Executes, Again, Drop
  <2>c. UNCHANGED pair \/ (pair'.ldig = pair.ldig /\ pair'.rdig = doc')
    BY <1>23, <2>1, LinkUnavailableEffect DEF TransferTypes, JobTypes
  <2> QED
    BY <2>a, <2>b, <2>c
<1>24. CASE Pause
  <2>1. UNCHANGED <<disk, doc, pair, tmp, version, proc>> /\ batch' \in {batch, None}
    BY <1>24 DEF Pause
  <2> QED
    BY <2>1
<1>25. CASE Resume
  <2>1. UNCHANGED <<disk, doc, pair, tmp, version, proc>> /\ batch' \in {batch, None}
    BY <1>25 DEF Resume, ResumeIf
  <2> QED
    BY <2>1
<1>26. CASE SuspendEngine
  <2>1. UNCHANGED <<disk, doc, pair, tmp, version, proc>> /\ batch' \in {batch, None}
    BY <1>26 DEF SuspendEngine
  <2> QED
    BY <2>1
<1>27. CASE ResumeEngine
  <2>1. UNCHANGED <<disk, doc, pair, tmp, version, proc>> /\ batch' \in {batch, None}
    BY <1>27 DEF ResumeEngine, ResumeEngineIf, ResumeIf
  <2> QED
    BY <2>1
<1>28. CASE Crash
  <2>1. proc' = None /\ UNCHANGED <<disk, doc, pair, tmp, batch, version>>
    BY <1>28 DEF Crash
  <2> QED
    BY <2>1
<1>29. CASE BatchExpires
  <2>1. UNCHANGED <<disk, doc, pair, tmp, version, proc>> /\ batch' \in {batch, None}
    BY <1>29 DEF BatchExpires
  <2> QED
    BY <2>1
<1>30. CASE UNCHANGED vars
  BY <1>30
<1> QED
  BY <1>1, <1>2, <1>3, <1>4, <1>5, <1>6, <1>7, <1>8, <1>9, <1>10, <1>11, <1>12, <1>13, <1>14, <1>15,
     <1>16, <1>17, <1>18, <1>19, <1>20, <1>21, <1>22, <1>23, <1>24, <1>25, <1>26, <1>27, <1>28,
     <1>29, <1>30 DEF Next

\* What the processor holds is what the file or the document is, or there are news of it.
LEMMA SyncStep ==
  ASSUME TransferTypes, TransferTypes', VersionInv, WholeInv, WholeInv', SyncInv, ~Lost', "older" \notin why', [Next]_vars
  PROVE  SyncInv'
<1> USE DEF SyncInv, Sending, Current, DocNews, DiskNews, Working, Job, vars, world, server, engine
<1>1. CASE UserEdits
  <2>1. disk' = Whole(version + 1) /\ news' = news \cup {"disk"} /\ UNCHANGED <<doc, pair, tmp, batch, proc, up, digested>>
    BY <1>1 DEF UserEdits
  <2>2. pair.ldig # Whole(version + 1)
    BY VersionFacts DEF WholeInv, TransferTypes, WorldTypes
  <2> QED
    BY <2>1, <2>2
<1>2. CASE ServerChanges
  <2>1. /\ doc' = Whole(version + 1) /\ news' = news \cup {"doc"} /\ "disk" \notin news
        /\ UNCHANGED <<disk, pair, tmp, batch, proc, up, digested>>
    BY <1>2 DEF ServerChanges
  <2>2. pair.rdig # Whole(version + 1)
    <3>1. Whole(version + 1) # None
      BY ContentFacts, NoneAssumption DEF TransferTypes, WorldTypes, Files
    <3> QED
      BY <3>1, VersionFacts DEF WholeInv, TransferTypes, WorldTypes
  <2>3. DocNews' /\ DiskNews' = DiskNews
    BY <2>1, <2>2
  <2> QED
    BY <2>1, <2>3
<1>3. CASE DiskReported
  <2>1. /\ "disk" \in news /\ news' = news \ {"disk"} /\ UNCHANGED <<disk, doc, tmp, batch, proc, digested>>
        /\ \/ pair.ldig = disk /\ UNCHANGED <<pair, up>>
           \/ /\ pair'.ldig = disk /\ pair'.rdig = pair.rdig /\ pair'.ver = pair.ver + 1 /\ up' = None
              /\ pair'.state \in {"new", "up"}
    BY <1>3, DiskReportedEffect DEF JobTypes, WorldTypes, TransferTypes
  <2>2. pair.ver \in Nat /\ (proc # None => proc.pair.ver \in Nat /\ pair.ver >= proc.pair.ver)
    BY DEF TransferTypes, JobTypes, Jobs, Pairs, VersionInv
  <2>3. CASE pair.ldig = disk /\ UNCHANGED <<pair, up>>
    BY <2>1, <2>3
  <2>4. CASE /\ pair'.ldig = disk /\ pair'.rdig = pair.rdig /\ pair'.ver = pair.ver + 1 /\ up' = None
             /\ pair'.state \in {"new", "up"}
    <3>1. ~Current'
      BY <2>1, <2>2, <2>4
    <3> QED
      BY <2>1, <2>4, <3>1
  <2> QED
    BY <2>1, <2>3, <2>4
<1>4. CASE DocReported
  <2>1. doc \in Contents
    BY <1>4 DEF DocReported, Report, ReportIf, WorldTypes, Files, Documents, TransferTypes
  <2>2. /\ "doc" \in news /\ news' = news \ {"doc"} /\ UNCHANGED <<disk, doc, tmp, batch, proc, digested>>
        /\ \/ pair.rdig = doc /\ UNCHANGED <<pair, up>>
           \/ /\ pair'.ldig = pair.ldig /\ pair'.rdig = doc /\ pair'.ver = pair.ver + 1 /\ up' = None
              /\ pair'.state = "down"
    BY <1>4, <2>1, DocReportedEffect DEF JobTypes, TransferTypes
  <2>3. pair.ver \in Nat /\ (proc # None => proc.pair.ver \in Nat /\ pair.ver >= proc.pair.ver)
    BY DEF TransferTypes, JobTypes, Jobs, Pairs, VersionInv
  <2>4. CASE pair.rdig = doc /\ UNCHANGED <<pair, up>>
    BY <2>2, <2>4
  <2>5. CASE /\ pair'.ldig = pair.ldig /\ pair'.rdig = doc /\ pair'.ver = pair.ver + 1 /\ up' = None
             /\ pair'.state = "down"
    <3>1. ~Current'
      BY <2>2, <2>3, <2>5
    <3> QED
      BY <2>2, <2>5, <3>1
  <2> QED
    BY <2>2, <2>4, <2>5
<1>5. CASE Take
  <2>1. /\ UNCHANGED <<disk, doc, news, pair, digested, tmp, batch>> /\ (up = None => up' = None)
        /\ up' # None => up' = up
    BY <1>5 DEF Take
  <2>2. proc' = None \/ \/ proc'.job = "down" /\ proc'.at = "info" /\ pair.state = "down"
                        \/ proc'.job = "up" /\ proc'.at = "batch"
    BY <1>5, TakeEffect DEF JobTypes, TransferTypes
  <2> QED
    BY <2>1, <2>2 DEF DownPlaces
<1>6. CASE Fails
  <2>1. UNCHANGED <<disk, doc, news, pair, digested>> /\ batch' \in {batch, None} /\ (up = None => up' = None)
    BY <1>6 DEF Fails, Again
  <2>2. proc' = None \/ UNCHANGED <<proc, tmp>>
    BY <1>6 DEF Fails, Again
  <2> QED
    BY <2>1, <2>2 DEF DownPlaces
<1>7. CASE Raised
  <2>1. UNCHANGED <<disk, doc, news, pair, digested, tmp, batch>> /\ (up = None => up' = None) /\ proc' = None
    BY <1>7 DEF Raised
  <2> QED
    BY <2>1
<1>8. CASE Info
  <2>1. /\ UNCHANGED <<disk, doc, news, pair, digested, tmp, batch, up>>
        /\ proc # None /\ proc \in Jobs /\ doc \in Contents /\ doc # None
    BY <1>8, NoneAssumption DEF Info, At, JobTypes, TransferTypes, Documents, Job, WorldTypes, Files
  <2>2. proc'.at = "get" /\ proc'.job = "down" /\ proc.job = "down" /\ proc'.pair = proc.pair /\ (digested => proc'.digest = doc)
    BY <1>8, <2>1, InfoEffect
  <2> QED
    BY <2>1, <2>2
<1>9. CASE Get
  <2>1. proc # None /\ proc \in Jobs /\ doc \in Files /\ tmp \in Contents \cup {None}
    BY <1>9 DEF Get, At, JobTypes, TransferTypes, Documents, Job, WorldTypes
  <2>2. UNCHANGED <<disk, doc, news, pair, digested, batch, up>>
    BY <1>9 DEF Get
  <2>3. /\ proc.job = "down" /\ proc.at = "get"
        /\ \/ proc' = None
           \/ /\ proc'.rest = SubSeq(doc, Size + 1, Chunks) /\ Size \in Nat /\ Size < Chunks /\ proc'.job = "down"
              /\ proc'.digest = proc.digest /\ proc'.at \in {"chunk", "tail"} /\ proc'.pair = proc.pair
    BY <1>9, <2>1, GetEffect
  <2>4. proc' # None => proc'.rest # <<>> /\ proc'.rest[Len(proc'.rest)] = doc[Chunks]
    BY <2>1, <2>3, EndFacts
  <2> QED
    BY <2>1, <2>2, <2>3, <2>4 DEF DownPlaces
<1>10. CASE Chunk
  <2>1. /\ UNCHANGED <<disk, doc, news, pair, digested, batch, up>> /\ proc # None /\ proc \in Jobs
        /\ proc.rest # <<>> /\ tmp \in Contents \cup {None}
    BY <1>10 DEF Chunk, At, JobTypes, TransferTypes, Pieces, WorldTypes, Working
  <2>2. /\ proc'.rest = Tail(proc.rest) /\ proc'.digest = proc.digest /\ proc'.pair = proc.pair
        /\ proc.at = "chunk" /\ proc.job = "down" /\ proc'.job = "down"
        /\ proc'.at = (IF Stopped(down) THEN "raised" ELSE IF Len(proc.rest) = 1 THEN "check" ELSE "chunk")
        /\ proc.rest \in Contents /\ tmp' = (IF tmp = None THEN <<>> ELSE tmp) \o <<Head(proc.rest)>>
    BY <1>10, <2>1, ChunkEffect
  <2>3. PICK t \in Contents : t = (IF tmp = None THEN <<>> ELSE tmp)
    BY <2>1, ContentFacts
  <2>4. Head(proc.rest) \in Nat
    BY <2>1, <2>2, ContentFacts
  <2>5. tmp' # <<>> /\ tmp'[Len(tmp')] = Head(proc.rest)
    BY <2>2, <2>3, <2>4, EndFacts
  <2>6. /\ proc'.at = "chunk" => Tail(proc.rest) # <<>> /\ Tail(proc.rest)[Len(Tail(proc.rest))] = proc.rest[Len(proc.rest)]
        /\ proc'.at = "check" => Head(proc.rest) = proc.rest[Len(proc.rest)]
        /\ proc'.at \in {"chunk", "check", "raised"}
    BY <2>1, <2>2, EndFacts
  <2>7. proc # None /\ (digested /\ Current' => proc'.digest = doc \/ DocNews)
    BY <2>1, <2>2 DEF DownPlaces
  <2>8. ~digested /\ Current' /\ proc'.at = "chunk" =>
           (proc'.rest # <<>> /\ proc'.rest[Len(proc'.rest)] = doc[Chunks]) \/ DocNews
    BY <2>1, <2>2, <2>6
  <2>9. ~digested /\ Current' /\ proc'.at = "check" => (tmp' # <<>> /\ tmp'[Len(tmp')] = doc[Chunks]) \/ DocNews
    BY <2>1, <2>2, <2>5, <2>6
  <2> QED
    BY <2>1, <2>2, <2>6, <2>7, <2>8, <2>9 DEF DownPlaces
<1>11. CASE Small
  <2>1. /\ UNCHANGED <<disk, doc, news, pair, digested, batch, up>> /\ tmp' = proc.rest
        /\ proc # None /\ proc \in Jobs /\ proc.job = "down" /\ proc.at = "tail"
    BY <1>11 DEF Small, At, JobTypes, TransferTypes
  <2>2. /\ proc' # None /\ proc'.at = "check" /\ proc'.job = proc.job /\ proc'.pair = proc.pair
        /\ proc'.digest = proc.digest /\ proc'.rest = proc.rest
    BY <1>11, <2>1, GoesEffect DEF Small, Places
  <2> QED
    BY <2>1, <2>2 DEF DownPlaces
<1>12. CASE Check
  <2>1. /\ UNCHANGED <<disk, doc, news, pair, digested, batch, up>>
        /\ proc # None /\ proc \in Jobs /\ proc.job = "down" /\ proc.at = "check"
    BY <1>12 DEF Check, CheckIf, At, JobTypes, TransferTypes
  <2>2. proc' = None \/ /\ Goes("place") /\ tmp' = tmp /\ (~IsWhole(tmp) /\ ~digested => "undigested" \in why')
    BY <1>12 DEF Check, CheckIf, Again
  <2>3. Goes("place") => /\ proc' # None /\ proc'.at = "place" /\ proc'.job = proc.job /\ proc'.pair = proc.pair
                         /\ proc'.digest = proc.digest
    BY <2>1, GoesEffect DEF Places
  <2>4. ASSUME proc' # None, ~digested, tmp # <<>>, tmp[Len(tmp)] = doc[Chunks], doc # None PROVE tmp = doc
    <3>1. PICK v \in 0..Versions : tmp = Whole(v)
      BY <2>2, <2>4 DEF IsWhole, Lost
    <3>2. v \in Nat
      BY <3>1, ChunksAssumption
    <3>3. Len(tmp) = Chunks
      BY <3>1, <3>2, ContentFacts DEF Files
    <3>4. tmp[Chunks] = v
      BY <3>1, ChunksAssumption DEF Whole
    <3>5. doc \in Written(version) /\ version \in Nat
      BY <2>4 DEF WholeInv, TransferTypes, WorldTypes
    <3>6. doc[Chunks] = v
      BY <2>4, <3>3, <3>4
    <3> QED
      BY <3>1, <3>2, <3>5, <3>6, VersionFacts
  <2>5. doc # None
    BY <2>1 DEF TransferTypes, Documents
  <2> QED
    BY <2>1, <2>2, <2>3, <2>4, <2>5 DEF DownPlaces
<1>13. CASE Place
  <2>1. tmp \in Contents
    BY <1>13 DEF Place, At, Pieces, WorldTypes, Working, TransferTypes
  <2>2. /\ proc' = None /\ disk' = tmp /\ UNCHANGED <<doc, news, batch, up, digested>>
        /\ proc # None /\ proc.job = "down" /\ proc.at = "place"
    BY <1>13 DEF Place, At
  <2>3. /\ pair'.ldig = tmp
        /\ pair'.state = (IF pair.ver = proc.pair.ver THEN "synced" ELSE pair.state)
        /\ pair'.rdig = IF digested \/ pair.ver # proc.pair.ver THEN pair.rdig ELSE tmp
    BY <1>13, <2>1, PlaceEffect DEF JobTypes, TransferTypes
  <2>4. digested => tmp = proc.digest
    BY <2>2 DEF TransferTypes, Pieces
  <2>5. pair.state # "synced"
    BY <2>2 DEF VersionInv
  <2>6. pair.ver = proc.pair.ver => doc = tmp \/ DocNews'
    <3>1. CASE digested
      BY <2>2, <2>3, <2>4, <3>1 DEF DownPlaces
    <3>2. CASE ~digested
      BY <2>2, <2>3, <3>2
    <3> QED
      BY <3>1, <3>2
  <2>7. pair'.state \in {"new", "up"} => up = None
    BY <2>2, <2>3
  <2>8. pair'.state = "synced" => doc = tmp \/ DocNews'
    BY <2>3, <2>5, <2>6
  <2> QED
    BY <2>2, <2>3, <2>7, <2>8
<1>14. CASE GetTransfer
  <2>1. /\ UNCHANGED <<disk, doc, news, pair, digested, tmp>>
        /\ proc # None /\ proc \in Jobs /\ proc.job = "up"
    BY <1>14 DEF GetTransfer, At, JobTypes, TransferTypes
  <2>2. \/ UNCHANGED <<up, batch>> /\ (Goes("raised") \/ (up # None /\ (Goes("link") \/ Goes("send"))))
        \/ batch' = <<>> /\ Goes("send")
    BY <1>14 DEF GetTransfer
  <2>3. /\ proc' # None /\ proc'.at \in {"raised", "link", "send"} /\ proc'.job = "up" /\ proc'.pair = proc.pair
        /\ Goes("raised") => proc'.at = "raised"
    BY <2>1, <2>2, GoesEffect DEF Places
  <2>4. Current' => pair.state \in {"new", "up"}
    BY <2>1, <2>3 DEF VersionInv
  <2>5. CASE UNCHANGED <<up, batch>> /\ (Goes("raised") \/ (up # None /\ (Goes("link") \/ Goes("send"))))
    BY <2>1, <2>3, <2>4, <2>5
  <2>6. CASE batch' = <<>>
    <3>1. Sending'
      BY <2>6
    <3> QED
      BY <2>1, <2>3, <3>1
  <2> QED
    BY <2>2, <2>5, <2>6
<1>15. CASE Send
  <2>1. /\ UNCHANGED <<disk, doc, news, pair, digested, tmp, up>> /\ version \in Nat
        /\ proc # None /\ proc \in Jobs /\ proc.job = "up" /\ proc.at = "send"
    BY <1>15 DEF Send, SendIf, At, JobTypes, TransferTypes, WorldTypes
  <2>2. Goes("raised") \/ Goes("complete") \/ Goes("send")
    BY <1>15 DEF Send, SendIf
  <2>3. proc' # None /\ proc'.at \in {"raised", "complete", "send"} /\ proc'.job = "up" /\ proc'.pair = proc.pair
    BY <2>1, <2>2, GoesEffect DEF Places
  <2>4. batch # None /\ batch \in Contents /\ Len(batch) + 1 \in 1..Chunks /\ Len(batch) \in Nat
    BY <1>15, ContentFacts, ChunksAssumption DEF Send, SendIf, TransferTypes, WorldTypes
  <2>5. batch' = Append(batch, disk[Len(batch) + 1]) /\ disk[Len(batch) + 1] = disk[1] /\ disk[1] \in Nat
    <3>1. disk \in Written(version)
      BY DEF WholeInv
    <3> QED
      BY <1>15, <2>1, <2>4, <3>1, WrittenFacts, VersionFacts DEF Send, SendIf
  <2>6. Sending => Sending'
    <3>1. CASE DiskNews
      BY <2>1, <3>1
    <3>2. CASE ~DiskNews /\ Sending
      <4>1. disk[1] = pair.ldig[1] /\ \A i \in 1..Len(batch) : batch[i] = pair.ldig[1]
        BY <2>4, <3>2
      <4>2. \A i \in 1..Len(batch') : batch'[i] = pair.ldig[1]
        BY <2>4, <2>5, <4>1 DEF Contents
      <4> QED
        BY <2>1, <4>2
    <3> QED
      BY <3>1, <3>2
  <2> QED
    BY <2>1, <2>3, <2>6
<1>16. CASE Sent
  <2>1. /\ UNCHANGED <<disk, doc, news, pair, digested, tmp, batch>> /\ (up = None => up' = None)
        /\ proc # None /\ proc \in Jobs /\ proc.job = "up" /\ proc.at = "send"
    BY <1>16 DEF Sent, At, JobTypes, TransferTypes
  <2>2. /\ proc' # None /\ proc'.at = "complete" /\ proc'.job = proc.job /\ proc'.pair = proc.pair
        /\ proc'.digest = proc.digest /\ proc'.rest = proc.rest
    BY <1>16, <2>1, GoesEffect DEF Sent, Places
  <2> QED
    BY <2>1, <2>2
<1>17. CASE SentNowhere
  <2>1. UNCHANGED <<disk, doc, news, pair, digested>> /\ batch' \in {batch, None} /\ (up = None => up' = None)
    BY <1>17 DEF SentNowhere, Again
  <2>2. proc' = None \/ UNCHANGED <<proc, tmp>>
    BY <1>17 DEF SentNowhere, Again
  <2> QED
    BY <2>1, <2>2 DEF DownPlaces
<1>18. CASE Complete
  <2>1. /\ UNCHANGED <<disk, doc, news, pair, digested, tmp, batch>> /\ (up = None => up' = None)
        /\ proc # None /\ proc \in Jobs /\ proc.job = "up" /\ proc.at = "complete"
    BY <1>18 DEF Complete, At, JobTypes, TransferTypes
  <2>2. /\ proc' # None /\ proc'.at = "link" /\ proc'.job = proc.job /\ proc'.pair = proc.pair
        /\ proc'.digest = proc.digest /\ proc'.rest = proc.rest
    BY <1>18, <2>1, GoesEffect DEF Complete, Places
  <2> QED
    BY <2>1, <2>2
<1>19. CASE Link
  <2>a. pair.state # "synced" /\ (Current => pair.state \in {"new", "up"}) /\ proc # None /\ proc.at = "link" /\ proc.job = "up"
    BY <1>19 DEF Link, At, VersionInv, TransferTypes, JobTypes, Pairs
  <2>1. UNCHANGED <<disk, news, pair, digested, batch, up>> /\ proc \in Jobs
    BY <1>19, <2>a DEF Link, JobTypes, TransferTypes
  <2>2. proc'.at = "linked" /\ proc'.job = "up" /\ proc'.pair = proc.pair
    BY <1>19, <2>a, <2>1, GoesEffect DEF Link, Places
  <2> QED
    BY <2>a, <2>1, <2>2
<1>20. CASE LinkNotFound
  <2>1. UNCHANGED <<disk, doc, news, pair, digested>> /\ batch' \in {batch, None} /\ (up = None => up' = None)
    BY <1>20 DEF LinkNotFound, Drop
  <2>2. proc' = None \/ UNCHANGED <<proc, tmp>>
    BY <1>20 DEF LinkNotFound, Drop
  <2> QED
    BY <2>1, <2>2 DEF DownPlaces
<1>21. CASE Linked
  <2>1. doc \in Contents /\ proc \in Jobs
    BY <1>21 DEF Linked, At, JobTypes, WorldTypes, Files, Documents, Working, TransferTypes
  <2>2. UNCHANGED <<disk, doc, news, digested>> /\ batch' = None /\ up' = None /\ proc # None
    BY <1>21, <2>1 DEF Linked, At
  <2>3. /\ pair'.rdig = doc /\ pair'.ldig = pair.ldig
        /\ \/ proc'.at = "info" /\ pair'.state = IF pair.state = "new" THEN "up" ELSE pair.state
           \/ /\ doc = proc.pair.ldig /\ proc' = None
              /\ IF pair.ver = proc.pair.ver THEN pair'.state = "synced"
                 ELSE pair'.state = IF pair.state = "new" THEN "up" ELSE pair.state
    BY <1>21, <2>1, LinkedEffect DEF JobTypes, TransferTypes
  <2>4. pair.state # "synced" /\ (pair.ver = proc.pair.ver => pair.ldig = proc.pair.ldig)
    BY <2>2 DEF VersionInv
  <2>5. pair'.state = "synced" => doc = pair.ldig
    BY <2>3, <2>4
  <2> QED
    BY <2>2, <2>3, <2>5 DEF DownPlaces
<1>22. ASSUME NEW same \in BOOLEAN, LinkLost(same) PROVE SyncInv'
  <2>a. pair.state # "synced" /\ (Current => pair.state \in {"new", "up"}) /\ proc # None /\ proc.at = "link" /\ proc.job = "up"
    BY <1>22 DEF LinkLost, LinkLostIf, At, VersionInv, TransferTypes, JobTypes, Pairs
  <2>1. UNCHANGED <<disk, news, pair, digested, batch, up>> /\ proc' = None
    BY <1>22 DEF LinkLost, LinkLostIf, Again
  <2> QED
    BY <2>a, <2>1
<1>23. ASSUME NEW executed \in BOOLEAN, NEW found \in BOOLEAN, LinkUnavailable(executed, found) PROVE SyncInv'
  <2>a. pair.state # "synced" /\ (Current => pair.state \in {"new", "up"}) /\ proc # None /\ proc.at = "link" /\ proc.job = "up"
    BY <1>23 DEF LinkUnavailable, At, VersionInv, TransferTypes, JobTypes, Pairs
  <2>1. doc' \in Contents \cup {None}
    BY <1>23 DEF LinkUnavailable, Executes, At, WorldTypes, Files, TransferTypes
  <2>b. UNCHANGED <<disk, news, digested, batch>> /\ proc' = None /\ batch # None /\ (found => doc' = batch)
    BY <1>23 DEF LinkUnavailable, Again, Drop
  <2>c. \/ UNCHANGED pair /\ (up = None => up' = None) /\ (up' # None => up' = up)
        \/ /\ found /\ up' = None /\ pair'.rdig = doc' /\ pair'.ldig = pair.ldig
           /\ pair'.state = IF pair.ver = proc.pair.ver THEN "synced" ELSE "up"
    BY <1>23, <2>1, LinkUnavailableEffect DEF LinkUnavailable, TransferTypes, JobTypes
  <2>d. CASE UNCHANGED pair /\ (up = None => up' = None) /\ (up' # None => up' = up)
    BY <2>a, <2>b, <2>d
  <2>e. CASE /\ found /\ up' = None /\ pair'.rdig = doc' /\ pair'.ldig = pair.ldig
             /\ pair'.state = IF pair.ver = proc.pair.ver THEN "synced" ELSE "up"
    <3>1. ASSUME pair.ver = proc.pair.ver PROVE doc' = pair.ldig \/ DiskNews
      <4>1. DiskNews \/ \A i \in 1..Len(batch) : batch[i] = pair.ldig[1]
        BY <2>a, <2>b, <3>1
      <4>2. batch \in Files /\ pair.ldig \in Written(version) /\ Uniform(batch) /\ version \in Nat
        BY <2>a, <2>b DEF TransferTypes, WorldTypes, Pieces, Working, Files, WholeInv
      <4>3. 1 \in 1..Len(batch)
        BY <4>2, ChunksAssumption DEF Files
      <4> QED
        BY <2>b, <2>e, <4>1, <4>2, <4>3, VersionFacts
    <3> QED
      BY <2>b, <2>e, <3>1
  <2> QED
    BY <2>c, <2>d, <2>e
<1>24. CASE Pause
  <2>1. UNCHANGED <<disk, doc, news, pair, digested>> /\ batch' \in {batch, None} /\ (up = None => up' = None)
    BY <1>24 DEF Pause
  <2>2. proc' = None \/ UNCHANGED <<proc, tmp>>
    BY <1>24 DEF Pause
  <2> QED
    BY <2>1, <2>2 DEF DownPlaces
<1>25. CASE Resume
  <2>1. UNCHANGED <<disk, doc, news, pair, digested>> /\ batch' \in {batch, None} /\ (up = None => up' = None)
    BY <1>25 DEF Resume, ResumeIf, Freed
  <2>2. proc' = None \/ UNCHANGED <<proc, tmp>>
    BY <1>25 DEF Resume, ResumeIf, Freed
  <2> QED
    BY <2>1, <2>2 DEF DownPlaces
<1>26. CASE SuspendEngine
  <2>1. UNCHANGED <<disk, doc, news, pair, digested>> /\ batch' \in {batch, None} /\ (up = None => up' = None)
    BY <1>26 DEF SuspendEngine
  <2>2. proc' = None \/ UNCHANGED <<proc, tmp>>
    BY <1>26 DEF SuspendEngine
  <2> QED
    BY <2>1, <2>2 DEF DownPlaces
<1>27. CASE ResumeEngine
  <2>1. UNCHANGED <<disk, doc, news, pair, digested>> /\ batch' \in {batch, None} /\ (up = None => up' = None)
    BY <1>27 DEF ResumeEngine, ResumeEngineIf, ResumeIf, Freed
  <2>2. proc' = None \/ UNCHANGED <<proc, tmp>>
    BY <1>27 DEF ResumeEngine, ResumeEngineIf, ResumeIf, Freed
  <2> QED
    BY <2>1, <2>2 DEF DownPlaces
<1>28. CASE Crash
  <2>1. UNCHANGED <<disk, doc, news, pair, digested>> /\ batch' \in {batch, None} /\ (up = None => up' = None)
    BY <1>28 DEF Crash, Freed
  <2>2. proc' = None \/ UNCHANGED <<proc, tmp>>
    BY <1>28 DEF Crash, Freed
  <2> QED
    BY <2>1, <2>2 DEF DownPlaces
<1>29. CASE BatchExpires
  <2>1. UNCHANGED <<disk, doc, news, pair, digested>> /\ batch' \in {batch, None} /\ (up = None => up' = None)
    BY <1>29 DEF BatchExpires
  <2>2. proc' = None \/ UNCHANGED <<proc, tmp>>
    BY <1>29 DEF BatchExpires
  <2> QED
    BY <2>1, <2>2 DEF DownPlaces
<1>30. CASE UNCHANGED vars
  BY <1>30
<1> QED
  BY <1>1, <1>2, <1>3, <1>4, <1>5, <1>6, <1>7, <1>8, <1>9, <1>10, <1>11, <1>12, <1>13, <1>14, <1>15,
     <1>16, <1>17, <1>18, <1>19, <1>20, <1>21, <1>22, <1>23, <1>24, <1>25, <1>26, <1>27, <1>28,
     <1>29, <1>30 DEF Next

-----------------------------------------------------------------------------
(* The invariant and the theorems                                          *)

\* Reasons are never taken back.
LEMMA WhyGrows ==
  ASSUME [Next]_vars
  PROVE  why \subseteq why'
<1> USE DEF vars, world, server, engine
<1>1. ASSUME NEW same \in BOOLEAN, LinkLost(same) PROVE why \subseteq why'
  BY <1>1 DEF LinkLost, LinkLostIf
<1>2. ASSUME NEW executed \in BOOLEAN, NEW found \in BOOLEAN, LinkUnavailable(executed, found) PROVE why \subseteq why'
  BY <1>2 DEF LinkUnavailable
<1>3. CASE Raised \/ Check \/ GetTransfer \/ Send \/ LinkNotFound
  BY <1>3 DEF Raised, Check, CheckIf, GetTransfer, Send, SendIf, LinkNotFound
<1>4. CASE DiskReported \/ DocReported \/ Resume \/ ResumeEngine
  BY <1>4 DEF DiskReported, DocReported, Report, ReportIf, Resume, ResumeEngine, ResumeEngineIf
<1>5. CASE UserEdits \/ ServerChanges \/ Take \/ Fails \/ Info \/ Get \/ Chunk \/ Small \/ Place
  BY <1>5 DEF UserEdits, ServerChanges, Take, Fails, Info, Get, Chunk, Small, Place
<1>6. CASE Sent \/ SentNowhere \/ Complete \/ Link \/ Linked \/ Pause \/ SuspendEngine \/ Crash \/ BatchExpires
  BY <1>6 DEF Sent, SentNowhere, Complete, Link, Linked, Pause, SuspendEngine, Crash, BatchExpires
<1>7. CASE UNCHANGED vars
  BY <1>7
<1> QED
  BY <1>1, <1>2, <1>3, <1>4, <1>5, <1>6, <1>7 DEF Next

\* Every type and every place, from the four parts of them.
LEMMA TypesStep ==
  ASSUME TransferTypes, [Next]_vars
  PROVE  TransferTypes'
<1>1. pair \in Pairs /\ disk \in Contents /\ doc \in Contents \cup {None} /\ RowTypes
  BY DEF TransferTypes, WorldTypes, JobTypes, Files
<1>2. RowTypes'
  BY <1>1, RowTypesStep
<1>3. WorldTypes'
  BY WorldTypesStep
<1>4. JobTypes'
  BY JobTypesStep DEF TransferTypes
<1>5. Documents' /\ Pieces'
  BY <1>4, DocumentsStep, PiecesStep
<1> QED
  BY <1>2, <1>3, <1>4, <1>5 DEF TransferTypes

LEMMA InitInv == Init => TransferInv
<1> SUFFICES ASSUME Init PROVE TransferInv
  OBVIOUS
<1>1. /\ version = 0 /\ disk = Whole(0) /\ digested \in BOOLEAN /\ news = {}
      /\ tmp = None /\ down = None /\ up = None /\ batch = None /\ served = FALSE
      /\ proc = None /\ suspended = FALSE /\ why = {} /\ after = 0
      /\ copies = (IF doc = None THEN 0 ELSE 1) /\ queue = (pair.state = "new")
  BY DEF Init
<1>2. Whole(0) \in Files /\ Whole(0) \in Contents /\ Whole(0) # None /\ Whole(0) \in Written(0)
  BY ContentFacts, WrittenFacts, NoneAssumption DEF Files
<1>3. \/ /\ doc = None /\ digested /\ pair.state = "new" /\ pair.rdig = None
      \/ /\ doc = Whole(0) /\ pair.state = "synced" /\ pair.rdig = Whole(0)
  BY <1>1 DEF Init
<1>4. pair \in Pairs /\ pair.ldig = disk
  <2>1. \A s \in {"new", "synced"}, d \in {Whole(0), None} :
          [state |-> s, ver |-> 0, ldig |-> Whole(0), rdig |-> d] \in Pairs
    BY <1>2 DEF Pairs
  <2> QED
    BY <1>1, <2>1 DEF Init
<1>5. TransferTypes
  <2>1. WorldTypes
    <3>1. queue \in BOOLEAN /\ digested \in BOOLEAN /\ served \in BOOLEAN /\ suspended \in BOOLEAN
      BY <1>1
    <3>2. version \in Nat /\ version <= Versions /\ copies \in Nat /\ after \in Nat
      BY <1>1, ChunksAssumption
    <3> QED
      BY <1>1, <1>2, <1>3, <3>1, <3>2 DEF WorldTypes
  <2>2. RowTypes /\ JobTypes /\ Pieces
    BY <1>1, <1>4 DEF RowTypes, JobTypes, Pieces, Working, Job
  <2>3. Documents
    BY <1>1, <1>2, <1>3 DEF Documents, Working, Job
  <2> QED
    BY <2>1, <2>2, <2>3 DEF TransferTypes
<1>6. CopiesInv /\ PauseInv /\ VersionInv /\ ForgottenInv
  BY <1>1, <1>2, <1>3 DEF CopiesInv, PauseInv, VersionInv, ForgottenInv, Working
<1>7. WholeInv
  BY <1>1, <1>2, <1>3, <1>4 DEF WholeInv, Working
<1>8. SyncInv
  BY <1>1, <1>3, <1>4 DEF SyncInv, Sending, Current, Working, Job
<1> QED
  BY <1>5, <1>6, <1>7, <1>8 DEF TransferInv, ContentsInv

LEMMA InvStep == TransferInv /\ [Next]_vars => TransferInv'
<1> SUFFICES ASSUME TransferInv, [Next]_vars PROVE TransferInv'
  OBVIOUS
<1>1. TransferTypes /\ TransferTypes'
  BY TypesStep DEF TransferInv
<1>2. CopiesInv' /\ PauseInv' /\ VersionInv' /\ ForgottenInv'
  BY <1>1, CopiesStep, PauseStep, VersionStep, ForgottenStep DEF TransferInv
<1>3. ContentsInv'
  <2>1. why \subseteq why'
    BY WhyGrows
  <2>2. CASE Lost'
    BY <2>2 DEF ContentsInv
  <2>3. CASE ~Lost'
    <3>1. WholeInv /\ (SyncInv \/ "older" \in why) /\ VersionInv
      BY <2>1, <2>3 DEF TransferInv, ContentsInv, Lost
    <3>2. WholeInv'
      BY <1>1, <2>3, <3>1, WholeStep
    <3>3. CASE "older" \in why'
      BY <3>2, <3>3 DEF ContentsInv
    <3>4. CASE "older" \notin why'
      BY <1>1, <2>1, <2>3, <3>1, <3>2, <3>4, SyncStep DEF ContentsInv
    <3> QED
      BY <3>3, <3>4
  <2> QED
    BY <2>2, <2>3
<1> QED
  BY <1>1, <1>2, <1>3 DEF TransferInv

THEOREM TransferInvariant == Spec => []TransferInv
<1> QED
  BY InitInv, InvStep, PTL DEF Spec

THEOREM ContentsAreWhole == Spec => []WholeVersions
<1>1. TransferInv => WholeVersions
  <2> SUFFICES ASSUME TransferInv PROVE WholeVersions
    OBVIOUS
  <2>1. CASE Lost
    BY <2>1 DEF Lost, WholeVersions
  <2>2. CASE ~Lost
    <3>1. WholeInv /\ (SyncInv \/ "older" \in why) /\ version \in Nat /\ version <= Versions
      BY <2>2 DEF TransferInv, ContentsInv, TransferTypes, WorldTypes
    <3>2. \A c \in Written(version) : IsWhole(c)
      BY <3>1, ChunksAssumption DEF Written, IsWhole
    <3>3. IsWhole(disk) /\ IsWhole(pair.ldig)
      BY <3>1, <3>2 DEF WholeInv
    <3>4. SyncInv /\ pair.state = "synced" /\ news = {} => doc = disk /\ IsWhole(doc)
      BY <3>3 DEF SyncInv, DocNews, DiskNews
    <3> QED
      BY <3>1, <3>3, <3>4 DEF WholeVersions
  <2> QED
    BY <2>1, <2>2
<1> QED
  BY <1>1, TransferInvariant, PTL

THEOREM OneDocumentIsMade == Spec => []OneDocument
<1>1. TransferInv => OneDocument
  BY DEF TransferInv, CopiesInv, OneDocument
<1> QED
  BY <1>1, TransferInvariant, PTL

THEOREM PauseIsObeyed == Spec => []PauseObeyed
<1>1. TransferInv => PauseObeyed
  BY DEF TransferInv, PauseInv, PauseObeyed
<1> QED
  BY <1>1, TransferInvariant, PTL

THEOREM TransfersResume == Spec => []Resumed
<1>1. TransferInv => Resumed
  BY DEF TransferInv, ForgottenInv, Tied, Resumed
<1> QED
  BY <1>1, TransferInvariant, PTL

THEOREM TransfersAreKept == Spec => []TransfersKept
<1>1. WholeVersions /\ OneDocument /\ PauseObeyed /\ Resumed => TransfersKept
  BY DEF TransfersKept
<1> QED
  BY <1>1, ContentsAreWhole, OneDocumentIsMade, PauseIsObeyed, TransfersResume, PTL

===============================================================================
