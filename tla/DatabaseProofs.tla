---------------------------- MODULE DatabaseProofs ----------------------------
(***************************************************************************)
(* Proofs about Database, for any rows, contents left by older releases,   *)
(* kills, damages, days and backups: what was written is not lost, and the *)
(* tables are those of this release, but in the cases that are named.      *)
(***************************************************************************)
EXTENDS Database, FiniteSetTheorems, SequenceTheorems, TLAPS

-----------------------------------------------------------------------------
(* The migrations                                                          *)

\* Before the fourth version there are no types of documents.
Early(c) == Unversioned(c) \/ c.conf \in 1..3
UpToDate(c) == c.user >= Latest /\ c.schema >= Latest

LEMMA Versions == Latest = 24 /\ OldLatest = 21 /\ Unset = -1 /\ None \notin Int
  BY AbsentAssumption DEF Latest, OldLatest, Unset

LEMMA FileTypes ==
  ASSUME NEW f \in DbFiles
  PROVE  /\ f.health \in Healths /\ f.content \in Tables /\ f # None
         /\ f.content.user \in Int /\ f.content.conf \in Int \cup {None} /\ f.content.schema \in Int
         /\ f.content.rows \in SUBSET Nat
  BY AbsentAssumption DEF DbFiles, Tables

LEMMA VersionType ==
  ASSUME NEW c \in Tables
  PROVE  GetSchemaVersion(c) \in Int
  BY DEF GetSchemaVersion, GetSchemaVersionIf, Tables

LEMMA EmptyFacts ==
  /\ Empty \in Tables /\ Coherent(Empty) /\ ~Early(Empty) /\ GetSchemaVersion(Empty) = 0
  /\ Empty.rows = {} /\ Young(Empty)
  BY Versions DEF Empty, Tables, Coherent, Early, Unversioned, Young, GetSchemaVersion, GetSchemaVersionIf

\* The row that SQLite lists first is one of them, and all of them when there is one.
LEMMA FirstFacts ==
  ASSUME NEW S \in SUBSET Nat
  PROVE  FirstOf(S) \subseteq S /\ ((\A a, b \in S : a = b) => FirstOf(S) = S)
<1>1. FirstOf(S) \subseteq S
  BY DEF FirstOf
<1>2. ASSUME \A a, b \in S : a = b, NEW row \in S
      PROVE  row \in FirstOf(S)
  <2>1. row <= row
    OBVIOUS
  <2>2. \A other \in S : row <= other
    BY <1>2, <2>1
  <2> QED
    BY <2>2 DEF FirstOf
<1> QED
  BY <1>1, <1>2

\* The tables that are copied keep their rows when they have one.
LEMMA CopiedFacts ==
  ASSUME NEW rows \in SUBSET Nat
  PROVE  /\ Copied(rows, Uploads \cup Downloads) \in SUBSET rows
         /\ (\A t \in {Uploads, Downloads} : \A a, b \in rows \cap t : a = b)
              => Copied(rows, Uploads \cup Downloads) = rows
<1>1. {Uploads, Downloads} \cap SUBSET (Uploads \cup Downloads) = {Uploads, Downloads}
  OBVIOUS
<1>2. Copied(rows, Uploads \cup Downloads) =
        (rows \ (Uploads \cup Downloads)) \cup FirstOf(rows \cap Uploads) \cup FirstOf(rows \cap Downloads)
  <2>1. UNION {FirstOf(rows \cap t) : t \in {Uploads, Downloads}} =
          FirstOf(rows \cap Uploads) \cup FirstOf(rows \cap Downloads)
    OBVIOUS
  <2> QED
    BY <1>1, <2>1 DEF Copied
<1>3. rows \cap Uploads \in SUBSET Nat /\ rows \cap Downloads \in SUBSET Nat
  OBVIOUS
<1>4. /\ FirstOf(rows \cap Uploads) \subseteq rows \cap Uploads
      /\ FirstOf(rows \cap Downloads) \subseteq rows \cap Downloads
      /\ (\A a, b \in rows \cap Uploads : a = b) => FirstOf(rows \cap Uploads) = rows \cap Uploads
      /\ (\A a, b \in rows \cap Downloads : a = b) => FirstOf(rows \cap Downloads) = rows \cap Downloads
  BY <1>3, FirstFacts
<1> QED
  BY <1>2, <1>4

\* The old migrations keep the rows, but for those that Lossy names.
LEMMA OldFacts ==
  ASSUME NEW c \in Tables, NEW v \in Int, IsOld(v)
  PROVE  /\ MigrateDbOld(c, v) \in Tables
         /\ MigrateDbOld(c, v).user = 22 /\ MigrateDbOld(c, v).conf = 22
         /\ MigrateDbOld(c, v).schema = IF v >= 4 /\ c.schema > OldLatest THEN c.schema ELSE OldLatest
         /\ ~Lossy(c, v) /\ (v < 4 => c.rows \cap Types = {}) => MigrateDbOld(c, v).rows = c.rows
<1>0. PICK states : states = IF v < 4 THEN c.rows \ Types ELSE c.rows
  OBVIOUS
<1>a. PICK uploads : uploads = IF v < 7 THEN states \ Uploads ELSE states
  OBVIOUS
<1>b. PICK rows : rows = IF v < 17 THEN Copied(uploads, Uploads \cup Downloads) ELSE uploads
  OBVIOUS
<1>c. PICK schema : schema = IF v >= 4 /\ c.schema > OldLatest THEN c.schema ELSE OldLatest
  OBVIOUS
<1>1. MigrateDbOld(c, v) = [user |-> 22, conf |-> 22, rows |-> rows, schema |-> schema]
  BY <1>0, <1>a, <1>b, <1>c DEF MigrateDbOld
<1>2. c.rows \in SUBSET Nat /\ c.schema \in Int
  BY DEF Tables
<1>3. uploads \in SUBSET Nat /\ uploads \subseteq c.rows
  BY <1>0, <1>a, <1>2
<1>4. /\ Copied(uploads, Uploads \cup Downloads) \in SUBSET uploads
      /\ (\A t \in {Uploads, Downloads} : \A a, b \in uploads \cap t : a = b)
              => Copied(uploads, Uploads \cup Downloads) = uploads
  BY <1>3, CopiedFacts
<1>5. rows \in SUBSET Nat /\ schema \in Int
  <2>1. rows \in SUBSET Nat
    BY <1>b, <1>3, <1>4
  <2>2. schema \in Int
    BY <1>c, <1>2, Versions
  <2> QED
    BY <2>1, <2>2
<1>6. ASSUME ~Lossy(c, v), v < 4 => c.rows \cap Types = {}
      PROVE  rows = c.rows
  <2>1. states = c.rows
    BY <1>0, <1>6
  <2>2. uploads = c.rows
    BY <1>a, <1>6, <2>1 DEF Lossy
  <2>3. v < 17 => \A t \in {Uploads, Downloads} : \A a, b \in uploads \cap t : a = b
    BY <1>6, <2>2 DEF Lossy
  <2> QED
    BY <1>b, <1>4, <2>2, <2>3
<1>7. MigrateDbOld(c, v) \in Tables
  BY <1>1, <1>5 DEF Tables
<1> QED
  BY <1>1, <1>c, <1>6, <1>7

\* An upgrade that does not fail keeps what there is, and brings it to this release.
LEMMA UpgradeFacts ==
  ASSUME NEW c \in Tables, NEW v \in Int, v = GetSchemaVersion(c), ~UpgradeFails(c, v)
  PROVE  /\ Upgraded(c, v) \in Tables
         /\ Coherent(c) => /\ Coherent(Upgraded(c, v)) /\ UpToDate(Upgraded(c, v)) /\ ~Early(Upgraded(c, v))
                           /\ Young(c) => \/ Upgraded(c, v).rows = c.rows
                                          \/ Lossy(c, v) /\ v # Unset
<1> USE Versions
<1>1. c.user \in Int /\ c.conf \in Int \cup {None} /\ c.schema \in Int /\ c.rows \in SUBSET Nat
  BY DEF Tables
<1>2. PICK o : o = IF IsOld(v) THEN MigrateDbOld(c, v) ELSE c
  OBVIOUS
<1>3. o \in Tables
  BY <1>2, OldFacts
<1>a. PICK conf : conf = IF v = 0 THEN Unset ELSE o.conf
  OBVIOUS
<1>4. Upgraded(c, v) =
        IF v > Latest THEN c ELSE [o EXCEPT !.user = Latest, !.schema = Latest, !.conf = conf]
  BY <1>2, <1>a DEF Upgraded
<1>b. conf \in Int \cup {None} /\ o.rows \in SUBSET Nat
  BY <1>3, <1>a DEF Tables
<1>6. ASSUME v <= Latest
      PROVE  /\ Upgraded(c, v).user = 24 /\ Upgraded(c, v).schema = 24
             /\ Upgraded(c, v).conf = (IF v = 0 THEN -1 ELSE o.conf) /\ Upgraded(c, v).rows = o.rows
             /\ Upgraded(c, v) \in Tables
  <2>1. Upgraded(c, v) = [user |-> 24, conf |-> conf, schema |-> 24, rows |-> o.rows]
    <3>1. Upgraded(c, v) = [o EXCEPT !.user = 24, !.schema = 24, !.conf = conf]
      BY <1>4, <1>6
    <3>2. o = [user |-> o.user, conf |-> o.conf, schema |-> o.schema, rows |-> o.rows]
      BY <1>3 DEF Tables
    <3> QED
      BY <3>1, <3>2
  <2> QED
    BY <1>a, <1>b, <2>1 DEF Tables
<1>5. Upgraded(c, v) \in Tables
  BY <1>4, <1>6
<1>7. v = IF c.user # 0 \/ c.conf = None THEN c.user ELSE c.conf
  BY DEF GetSchemaVersion, GetSchemaVersionIf
<1>8. ASSUME Coherent(c), v > Latest
      PROVE  /\ Upgraded(c, v) = c /\ UpToDate(c) /\ ~Early(c)
  BY <1>1, <1>4, <1>7, <1>8 DEF Coherent, UpToDate, Early, Unversioned
<1>9. ASSUME Coherent(c), v <= Latest, ~IsOld(v)
      PROVE  o = c /\ (v = 0 \/ c.conf \in {-1} \cup 21..24)
  BY <1>1, <1>2, <1>7, <1>9 DEF Coherent, Unversioned, IsOld
<1>10. ASSUME Coherent(c), v <= Latest
       PROVE  /\ Coherent(Upgraded(c, v)) /\ UpToDate(Upgraded(c, v)) /\ ~Early(Upgraded(c, v))
  <2>1. Upgraded(c, v).conf \in {-1} \cup 21..24
    <3>1. CASE IsOld(v)
      <4>1. o.conf = 22 /\ v # 0
        BY <1>2, <3>1, OldFacts DEF IsOld
      <4> QED
        BY <1>6, <1>10, <4>1
    <3>2. CASE ~IsOld(v)
      BY <1>6, <1>9, <1>10, <3>2
    <3> QED
      BY <3>1, <3>2
  <2> QED
    BY <1>6, <1>10, <2>1 DEF Coherent, UpToDate, Early, Unversioned
<1>11. ASSUME Coherent(c), Young(c), v <= Latest
       PROVE  Upgraded(c, v).rows = c.rows \/ (Lossy(c, v) /\ v # Unset)
  <2>1. CASE ~IsOld(v)
    BY <1>6, <1>9, <1>11, <2>1
  <2>2. CASE IsOld(v)
    <3>1. v < 4 => c.rows \cap Types = {}
      BY <1>1, <1>7, <1>11, <2>2 DEF Coherent, Young, Unversioned, IsOld
    <3>2. v = Unset => ~Lossy(c, v)
      BY <1>1, <1>7, <1>11 DEF Coherent, Young, Unversioned, Lossy
    <3>3. ~Lossy(c, v) => o.rows = c.rows
      BY <1>2, <2>2, <3>1, OldFacts
    <3> QED
      BY <1>6, <1>11, <3>2, <3>3
  <2> QED
    BY <2>1, <2>2
<1> QED
  BY <1>5, <1>8, <1>10, <1>11

\* An upgrade fails for the uploads of the versions 7 and 8 only.
LEMMA FailFacts ==
  ASSUME NEW c \in Tables, NEW v \in Int, v = GetSchemaVersion(c), UpgradeFails(c, v), Coherent(c)
  PROVE  v \in {7, 8} /\ ~Early(c)
<1> USE Versions
<1>1. c.user \in Int /\ c.conf \in Int \cup {None} /\ c.schema \in Int
  BY DEF Tables
<1>2. v = IF c.user # 0 \/ c.conf = None THEN c.user ELSE c.conf
  BY DEF GetSchemaVersion, GetSchemaVersionIf
<1>3. CASE v = 0 /\ c.schema > 0
  BY <1>1, <1>2, <1>3 DEF Coherent, Unversioned
<1>4. CASE IsOld(v) /\ OldFails(c, v)
  BY <1>1, <1>2, <1>4 DEF Coherent, Unversioned, IsOld, OldFails, Early
<1>5. CASE /\ ~(IsOld(v) /\ OldFails(c, v))
           /\ IsOld(v) \/ v = OldLatest
           /\ (IF IsOld(v) THEN MigrateDbOld(c, v) ELSE c).schema > OldLatest
  <2>1. CASE IsOld(v)
    <3>1. v >= 4 /\ c.schema > OldLatest
      BY <1>1, <1>5, <2>1, OldFacts
    <3> QED
      BY <1>1, <1>2, <2>1, <3>1 DEF Coherent, Unversioned, IsOld
  <2>2. CASE ~IsOld(v)
    BY <1>1, <1>2, <1>5, <2>2 DEF Coherent, Unversioned
  <2> QED
    BY <2>1, <2>2
<1> QED
  BY <1>3, <1>4, <1>5 DEF UpgradeFails

\* This release knows all the migrations there are: nothing is downgraded.
LEMMA DowngradeFacts ==
  ASSUME NEW c \in Tables, NEW v \in Int, App # None, v > App
  PROVE  Downgraded(c, v) = c
<1>1. {m \in OldLatest + 1..Latest : App < m /\ m <= v} = {}
  BY AppAssumption, Versions
<1> QED
  BY <1>1 DEF Downgraded

-----------------------------------------------------------------------------
(* The start, step by step                                                 *)

Copies == [file : DbFiles, missing : SUBSET Nat, old : BOOLEAN]

DbTypes ==
    /\ main \in DbFiles \cup {None} /\ wal \in SUBSET Nat /\ exists \in BOOLEAN
    /\ backups \in Seq(Copies)
    /\ stage \in {"off", "read", "restore", "connect", "running", "copy"}

\* Where the start is tells whether there is a file.
StageInv ==
    /\ stage \in {"read", "restore"} => main = None /\ exists
    /\ stage = "read" => dump \in Tables /\ wal = {}
    /\ stage = "restore" => backups # <<>>
    /\ stage = "connect" => (exists <=> main # None)
    /\ stage \in {"running", "copy"} => main # None
    /\ stage = "copy" => main.health = "ok"

\* The copies are in the order of their age.
AgeInv == \A i, j \in DOMAIN backups : i < j /\ backups[j].old => backups[i].old

StartInv == DbTypes /\ StageInv /\ AgeInv

\* The copies that are left when the old ones are removed: all from one on, or none.
LEMMA SubFacts ==
  ASSUME StartInv, backups' = SubSeq(backups, Cardinality(Outdated) + 1, Len(backups))
  PROVE  /\ backups' \in Seq(Copies)
         /\ backups' # <<>> => /\ backups # <<>> /\ Len(backups) \in DOMAIN backups
                               /\ backups'[Len(backups')] = backups[Len(backups)]
         /\ \A i \in DOMAIN backups' : \E j \in DOMAIN backups : backups'[i] = backups[j]
         /\ AgeInv'
<1>1. PICK n \in Nat : n = Len(backups) /\ DOMAIN backups = 1..n /\ \A i \in 1..n : backups[i] \in Copies
  BY DEF StartInv, DbTypes
<1>2. Outdated \in SUBSET (1..n)
  BY <1>1 DEF Outdated
<1>3. PICK k \in Nat : k = Cardinality(Outdated) /\ k <= n
  <2>1. IsFiniteSet(1..n) /\ Cardinality(1..n) = IF 1 > n THEN 0 ELSE n - 1 + 1
    <3>1. 1 \in Int /\ n \in Int
      OBVIOUS
    <3> QED
      BY ONLY <3>1, FS_Interval
  <2>2. IsFiniteSet(Outdated) /\ Cardinality(Outdated) <= Cardinality(1..n)
    BY ONLY <1>2, <2>1, FS_Subset
  <2>3. Cardinality(Outdated) \in Nat
    BY ONLY <2>2, FS_CardinalityType
  <2>4. Cardinality(1..n) = n
    BY <2>1
  <2> QED
    BY <2>2, <2>3, <2>4
<1>4. \A i \in (k + 1)..n : backups[i] \in Copies
  BY <1>1
<1>5. /\ backups' \in Seq(Copies)
      /\ Len(backups') = IF k + 1 <= n THEN n - (k + 1) + 1 ELSE 0
      /\ \A i \in 1..(n - (k + 1) + 1) : backups'[i] = backups[(k + 1) + i - 1]
  BY <1>1, <1>3, <1>4, SubSeqProperties
<1>6. PICK m \in Nat : m = Len(backups') /\ m = n - k /\ DOMAIN backups' = 1..m
  BY <1>3, <1>5
<1>d. n \in Nat /\ k \in Nat /\ m \in Nat /\ m = n - k
  BY <1>6
<1>e. \A i \in 1..m : i + k \in 1..n /\ (k + 1) + i - 1 = i + k
  BY ONLY <1>d
<1>7. \A i \in 1..m : i + k \in 1..n /\ backups'[i] = backups[i + k]
  BY <1>5, <1>6, <1>e
<1>8. ASSUME backups' # <<>>
      PROVE  backups # <<>> /\ n \in 1..n /\ backups'[m] = backups[n]
  <2>1. \A s \in Seq(Copies) : s # <<>> => Len(s) # 0
    OBVIOUS
  <2>2. m # 0
    BY <1>5, <1>6, <1>8, <2>1
  <2>3. m \in 1..m /\ m + k = n /\ n \in 1..n
    BY ONLY <1>d, <2>2
  <2>4. backups'[m] = backups[n]
    BY <1>7, <2>3
  <2>5. n # 0 /\ Len(<<>>) = 0
    BY <2>3
  <2>6. backups # <<>>
    BY ONLY <1>1, <2>5
  <2> QED
    BY ONLY <2>3, <2>4, <2>6
<1>9. AgeInv'
  <2>1. ASSUME NEW i \in DOMAIN backups', NEW j \in DOMAIN backups', i < j, backups'[j].old
        PROVE  backups'[i].old
    <3>1. /\ i + k \in 1..n /\ j + k \in 1..n /\ i + k < j + k
          /\ backups'[i] = backups[i + k] /\ backups'[j] = backups[j + k]
      <4>1. i \in 1..m /\ j \in 1..m
        BY <1>6
      <4>2. \A a \in 1..m, b \in 1..m : a < b => a + k < b + k
        BY ONLY <1>d
      <4> QED
        BY <1>7, <2>1, <4>1, <4>2
    <3>2. \A a, b \in 1..n : a < b /\ backups[b].old => backups[a].old
      BY <1>1 DEF StartInv, AgeInv
    <3> QED
      BY <2>1, <3>1, <3>2
  <2> QED
    BY <2>1 DEF AgeInv
<1> QED
  BY <1>1, <1>5, <1>6, <1>7, <1>8, <1>9

\* A copy is added: it is the newest.
LEMMA AddFacts ==
  ASSUME StartInv, NEW copy \in Copies, ~copy.old, backups' = Append(backups, copy)
  PROVE  /\ backups' \in Seq(Copies) /\ backups' # <<>> /\ AgeInv'
         /\ Len(backups') \in DOMAIN backups' /\ backups'[Len(backups')] = copy
         /\ \A i \in DOMAIN backups' : backups'[i] = copy \/ \E j \in DOMAIN backups : backups'[i] = backups[j]
<1>1. PICK n \in Nat : /\ n = Len(backups) /\ DOMAIN backups = 1..n
                       /\ backups' \in Seq(Copies) /\ Len(backups') = n + 1 /\ DOMAIN backups' = 1..(n + 1)
                       /\ backups'[n + 1] = copy /\ \A i \in 1..n : backups'[i] = backups[i]
  BY DEF StartInv, DbTypes
<1>2. backups' # <<>>
  BY <1>1
<1>3. ASSUME NEW i \in 1..(n + 1), NEW j \in 1..(n + 1), i < j, backups'[j].old
      PROVE  backups'[i].old
  <2>1. j \in 1..n /\ i \in 1..n
    BY <1>1, <1>3
  <2> QED
    BY <1>1, <1>3, <2>1 DEF StartInv, AgeInv
<1>4. AgeInv'
  BY <1>1, <1>3 DEF AgeInv
<1> QED
  BY <1>1, <1>2, <1>4

\* The copies become old.
LEMMA DayFacts ==
  ASSUME StartInv, backups' = [i \in DOMAIN backups |-> [backups[i] EXCEPT !.old = TRUE]]
  PROVE  /\ backups' \in Seq(Copies) /\ AgeInv' /\ Len(backups') = Len(backups)
         /\ DOMAIN backups' = DOMAIN backups /\ (backups' = <<>> <=> backups = <<>>)
         /\ \A i \in DOMAIN backups : /\ backups'[i].file = backups[i].file
                                      /\ backups'[i].missing = backups[i].missing
<1>1. PICK n \in Nat : n = Len(backups) /\ DOMAIN backups = 1..n /\ \A i \in 1..n : backups[i] \in Copies
  BY DEF StartInv, DbTypes
<1>2. \A i \in 1..n : /\ backups'[i].file = backups[i].file /\ backups'[i].missing = backups[i].missing
                      /\ backups'[i].old = TRUE /\ backups'[i] \in Copies
  BY <1>1 DEF Copies
<1>3. backups' = [i \in 1..n |-> backups'[i]] /\ DOMAIN backups' = 1..n
  BY <1>1
<1>4. backups' \in Seq(Copies) /\ Len(backups') = n
  BY <1>2, <1>3
<1>5. backups' = <<>> <=> backups = <<>>
  BY <1>1, <1>4 DEF StartInv, DbTypes
<1>6. AgeInv'
  BY <1>2, <1>3 DEF AgeInv
<1> QED
  BY <1>1, <1>2, <1>3, <1>4, <1>5, <1>6

\* A file whose log is folded into it.
LEMMA FoldedFacts ==
  ASSUME DbTypes, main # None
  PROVE  /\ main \in DbFiles /\ Folded \in DbFiles /\ Folded.health = main.health
         /\ Folded.content \in Tables
         /\ Folded.content.user = main.content.user /\ Folded.content.conf = main.content.conf
         /\ Folded.content.schema = main.content.schema
         /\ Folded.content.rows = main.content.rows \cup wal
<1>1. main \in DbFiles
  BY DEF DbTypes
<1>2. /\ main.content = [user |-> main.content.user, conf |-> main.content.conf,
                         schema |-> main.content.schema, rows |-> main.content.rows]
      /\ main.health \in Healths /\ main.content \in Tables /\ main.content.rows \in SUBSET Nat
  BY <1>1 DEF DbFiles, Tables
<1>3. Folded.content = [user |-> main.content.user, conf |-> main.content.conf,
                        schema |-> main.content.schema, rows |-> main.content.rows \cup wal]
  BY <1>2 DEF Folded, File
<1>4. Folded = File(main.health, Folded.content) /\ Folded.health = main.health
  BY DEF Folded, File
<1>5. wal \in SUBSET Nat
  BY DEF DbTypes
<1>6. Folded.content \in Tables
  <2>1. main.content.rows \cup wal \in SUBSET Nat
    BY <1>2, <1>5
  <2>2. main.content.user \in Int /\ main.content.conf \in Int \cup {None} /\ main.content.schema \in Int
    BY <1>2 DEF Tables
  <2> QED
    BY <1>3, <2>1, <2>2 DEF Tables
<1> QED
  BY <1>1, <1>2, <1>3, <1>4, <1>6 DEF DbFiles, File

LEMMA MakeFile ==
  ASSUME NEW h \in Healths, NEW c \in Tables
  PROVE  /\ File(h, c) \in DbFiles /\ File(h, c).health = h /\ File(h, c).content = c /\ File(h, c) # None
  BY AbsentAssumption DEF File, DbFiles

LEMMA ReadFacts ==
  ASSUME NEW c \in Tables
  PROVE  /\ [c EXCEPT !.user = 0] \in Tables /\ [c EXCEPT !.user = 0].user = 0
         /\ [c EXCEPT !.user = 0].conf = c.conf /\ [c EXCEPT !.user = 0].schema = c.schema
         /\ [c EXCEPT !.user = 0].rows = c.rows
  BY DEF Tables

\* What a migration makes of the content there is.
LEMMA MigrateEffect ==
  ASSUME StartInv, Migrate
  PROVE  \E c, made \in Tables :
           /\ c = IF main # None THEN main.content ELSE Empty
           /\ main # None => main.health = "ok"
           /\ main' = File("ok", made) /\ stage = "connect" /\ stage' = "running"
           /\ losses \subseteq losses' /\ losses' \subseteq losses \cup {"uploads", "first"}
           /\ Coherent(c) => /\ Coherent(made) /\ ~Early(made)
                             /\ UpToDate(made) \/ "uploads" \in losses'
                             /\ Young(c) => made.rows = c.rows \/ "first" \in losses'
           /\ UNCHANGED <<wal, dump, backups, exists, saved, secured>>
<1>1. PICK c \in Tables : c = IF main # None THEN main.content ELSE Empty
  BY EmptyFacts, FileTypes DEF StartInv, DbTypes
<1>2. PICK v \in Int : v = GetSchemaVersion(c)
  BY VersionType
<1>3. /\ c = (IF exists THEN main.content ELSE Empty) /\ Version = v
      /\ stage = "connect" /\ (main # None => main.health = "ok")
  BY <1>1, <1>2, EmptyFacts DEF StartInv, StageInv, Version, Migrate, MigrateIf, Present
<1>4. /\ IF App # None /\ v > App
         THEN main' = File("ok", Downgraded(c, v)) /\ UNCHANGED losses
         ELSE IF UpgradeFails(c, v)
         THEN /\ main' = File("ok", c)
              /\ losses' = losses \cup (IF v \in {7, 8} THEN {"uploads"} ELSE {})
         ELSE /\ main' = File("ok", Upgraded(c, v))
              /\ losses' = losses \cup (IF Lossy(c, v) /\ v # Unset THEN {"first"} ELSE {})
      /\ stage' = "running" /\ UNCHANGED <<wal, dump, backups, exists, saved, secured>>
  BY <1>3 DEF Migrate, MigrateIf
<1>5. CASE App # None /\ v > App
  <2>1. main' = File("ok", c) /\ UNCHANGED losses
    BY <1>4, <1>5, DowngradeFacts
  <2>2. v > Latest
    BY <1>5, AppAssumption, Versions
  <2>3. Coherent(c) => UpToDate(c) /\ ~Early(c)
    <3>1. v = IF c.user # 0 \/ c.conf = None THEN c.user ELSE c.conf
      BY <1>2 DEF GetSchemaVersion, GetSchemaVersionIf
    <3>2. c.user \in Int /\ c.conf \in Int \cup {None} /\ c.schema \in Int
      BY DEF Tables
    <3> QED
      BY <2>2, <3>1, <3>2, Versions DEF Coherent, UpToDate, Early, Unversioned
  <2> QED
    BY <1>1, <1>3, <1>4, <2>1, <2>3
<1>6. CASE ~(App # None /\ v > App) /\ UpgradeFails(c, v)
  <2>1. main' = File("ok", c) /\ losses' = losses \cup (IF v \in {7, 8} THEN {"uploads"} ELSE {})
    BY <1>4, <1>6
  <2>2. Coherent(c) => v \in {7, 8} /\ ~Early(c)
    BY <1>2, <1>6, FailFacts
  <2> QED
    BY <1>1, <1>3, <1>4, <2>1, <2>2
<1>7. CASE ~(App # None /\ v > App) /\ ~UpgradeFails(c, v)
  <2>1. /\ main' = File("ok", Upgraded(c, v))
        /\ losses' = losses \cup (IF Lossy(c, v) /\ v # Unset THEN {"first"} ELSE {})
    BY <1>4, <1>7
  <2>2. PICK made \in Tables :
          /\ made = Upgraded(c, v)
          /\ Coherent(c) => /\ Coherent(made) /\ UpToDate(made) /\ ~Early(made)
                            /\ Young(c) => made.rows = c.rows \/ (Lossy(c, v) /\ v # Unset)
    BY <1>2, <1>7, UpgradeFacts
  <2> QED
    BY <1>1, <1>3, <1>4, <2>1, <2>2
<1> QED
  BY <1>5, <1>6, <1>7

LEMMA StartStep ==
  ASSUME StartInv, DatabaseNext
  PROVE  StartInv'
<1> USE DEF Healths
<1>0. \A f \in DbFiles : f # None
  BY AbsentAssumption
<1>1. ASSUME UNCHANGED backups
      PROVE  AgeInv' /\ backups' \in Seq(Copies)
  BY <1>1 DEF StartInv, AgeInv, DbTypes
<1>2. CASE Sound
  BY <1>0, <1>1, <1>2, FoldedFacts DEF StartInv, DbTypes, StageInv, Sound, Present
<1>3. CASE Dump
  BY <1>0, <1>1, <1>3, FoldedFacts DEF StartInv, DbTypes, StageInv, Dump, Present
<1>4. CASE Read
  <2>1. dump \in Tables
    BY <1>4 DEF StartInv, StageInv, Read
  <2>2. main' \in DbFiles /\ main' # None
    BY <1>4, <2>1, ReadFacts, MakeFile DEF Read
  <2> QED
    BY <1>1, <1>4, <2>2 DEF StartInv, DbTypes, StageInv, Read
<1>5. CASE ReadFails
  <2>1. main' \in DbFiles /\ main' # None
    BY <1>5, EmptyFacts, MakeFile DEF ReadFails
  <2> QED
    BY <1>1, <1>5, <2>1 DEF StartInv, DbTypes, StageInv, ReadFails
<1>6. CASE Unrecoverable
  BY <1>1, <1>6 DEF StartInv, DbTypes, StageInv, Unrecoverable, Present
<1>7. CASE Restore
  <2>1. PICK b \in Copies : b = backups[Len(backups)] /\ Len(backups) \in DOMAIN backups
    BY <1>7 DEF StartInv, DbTypes, StageInv, Restore, RestoreIf
  <2>2. b.file \in DbFiles /\ b.file.content \in Tables
    BY FileTypes DEF Copies
  <2>3. File("malformed", b.file.content) \in DbFiles
    BY <2>2, MakeFile
  <2>4. main' \in DbFiles
    BY <1>7, <2>1, <2>2, <2>3 DEF Restore, RestoreIf, Newest
  <2> QED
    BY <1>0, <1>1, <1>7, <2>4 DEF StartInv, DbTypes, StageInv, Restore, RestoreIf
<1>8. CASE RestoreFails
  BY <1>1, <1>8 DEF StartInv, DbTypes, StageInv, RestoreFails, files
<1>9. CASE Migrate
  <2>1. PICK made \in Tables : /\ main' = File("ok", made) /\ stage' = "running"
                               /\ UNCHANGED <<wal, dump, backups, exists>>
    BY <1>9, MigrateEffect
  <2>2. main' \in DbFiles /\ main' # None
    BY <2>1, MakeFile
  <2> QED
    BY <1>1, <2>1, <2>2 DEF StartInv, DbTypes, StageInv
<1>10. CASE MigrateFails
  BY <1>1, <1>10 DEF StartInv, DbTypes, StageInv, MigrateFails, files, Present
<1>11. CASE \E r \in Written : Write(r)
  BY <1>1, <1>11, RowAssumption DEF StartInv, DbTypes, StageInv, Write
<1>12. CASE Checkpoint
  BY <1>0, <1>1, <1>12, FoldedFacts DEF StartInv, DbTypes, StageInv, Checkpoint, Readable, Present
<1>13. CASE SaveBackup
  <2>1. AgeInv' /\ backups' \in Seq(Copies)
    BY <1>13, SubFacts DEF SaveBackup
  <2> QED
    BY <1>13, <2>1 DEF StartInv, DbTypes, StageInv, SaveBackup
<1>14. CASE Copy
  <2>1. PICK copy \in Copies : copy = [file |-> main, missing |-> wal, old |-> FALSE]
    BY <1>14 DEF StartInv, DbTypes, StageInv, Copy, Copies
  <2>2. AgeInv' /\ backups' \in Seq(Copies)
    BY <1>14, <2>1, AddFacts DEF Copy
  <2> QED
    BY <1>14, <2>2 DEF StartInv, DbTypes, StageInv, Copy
<1>15. CASE CopyFails
  BY <1>1, <1>15 DEF StartInv, DbTypes, StageInv, CopyFails, files
<1>16. CASE Close
  BY <1>0, <1>1, <1>16, FoldedFacts DEF StartInv, DbTypes, StageInv, Close, Readable, Present
<1>17. CASE Kill
  <2>1. /\ stage' = "off" /\ UNCHANGED <<wal, exists>>
        /\ \/ UNCHANGED <<main, backups>>
           \/ main' = File("ok", Empty) /\ UNCHANGED backups
           \/ main' = File("dead", Empty) /\ UNCHANGED backups
           \/ /\ UNCHANGED main
              /\ backups' = Append(backups, [file |-> File("dead", Empty), missing |-> {}, old |-> FALSE])
    BY <1>17 DEF Kill
  <2>2. main' \in DbFiles \cup {None}
    BY <2>1, EmptyFacts, MakeFile DEF StartInv, DbTypes
  <2>3. PICK copy \in Copies : copy = [file |-> File("dead", Empty), missing |-> {}, old |-> FALSE]
    BY EmptyFacts, MakeFile DEF Copies
  <2>4. AgeInv' /\ backups' \in Seq(Copies)
    BY <1>1, <2>1, <2>3, AddFacts
  <2> QED
    BY <2>1, <2>2, <2>4 DEF StartInv, DbTypes, StageInv
<1>18. CASE Damage
  <2>1. PICK h \in {"malformed", "dead"} : main' = [main EXCEPT !.health = h]
    BY <1>18 DEF Damage
  <2>2. main \in DbFiles
    BY <1>18 DEF Damage, Present, StartInv, DbTypes
  <2>3. main' \in DbFiles
    BY <2>1, <2>2 DEF DbFiles
  <2> QED
    BY <1>0, <1>1, <1>18, <2>3 DEF StartInv, DbTypes, StageInv, Damage, Present
<1>19. CASE Day
  <2>1. AgeInv' /\ backups' \in Seq(Copies) /\ (backups' = <<>> <=> backups = <<>>)
    BY <1>19, DayFacts DEF Day
  <2> QED
    BY <1>19, <2>1 DEF StartInv, DbTypes, StageInv, Day
<1> QED
  BY <1>2, <1>3, <1>4, <1>5, <1>6, <1>7, <1>8, <1>9, <1>10, <1>11, <1>12, <1>13, <1>14, <1>15, <1>16, <1>17,
     <1>18, <1>19 DEF DatabaseNext, Open, Use

-----------------------------------------------------------------------------
(* The contents are what a release leaves                                  *)

MainInv ==
    main # None =>
       /\ Coherent(main.content)
       /\ main.content.conf \in 1..3 => wal \cap Types = {}
       /\ Unversioned(main.content) /\ main.health = "ok" =>
            stage \in {"off", "connect"} /\ wal = {} /\ Young(main.content)
       /\ stage \in {"running", "copy"} /\ main.health = "ok" => ~Early(main.content)
DumpInv == stage = "read" => Coherent(dump)
CopiesInv == \A i \in DOMAIN backups :
                Coherent(backups[i].file.content) /\ ~Early(backups[i].file.content)

\* A dump of a database that never had its version in Configuration forgets it.
ContentInv == "undumped" \in losses \/ (MainInv /\ DumpInv /\ CopiesInv)

LEMMA LossesGrow ==
  ASSUME StartInv, DatabaseNext
  PROVE  losses \subseteq losses'
<1>1. CASE Migrate
  BY <1>1, MigrateEffect
<1>2. CASE ~Migrate
  BY <1>2 DEF DatabaseNext, Open, Use, Sound, Dump, Read, ReadFails, Unrecoverable, Restore, RestoreIf, RestoreFails,
              MigrateFails, Write, Checkpoint, SaveBackup, Copy, CopyFails, Close, Kill, Damage, Day
<1> QED
  BY <1>1, <1>2

\* The log is folded into the file.
LEMMA FoldedCoherent ==
  ASSUME StartInv, MainInv, main # None
  PROVE  /\ Coherent(Folded.content)
         /\ Unversioned(Folded.content) <=> Unversioned(main.content)
         /\ Early(Folded.content) <=> Early(main.content)
         /\ wal = {} /\ Young(main.content) => Young(Folded.content)
<1>1. /\ Folded.content.user = main.content.user /\ Folded.content.conf = main.content.conf
      /\ Folded.content.schema = main.content.schema
      /\ Folded.content.rows = main.content.rows \cup wal
  BY FoldedFacts DEF StartInv
<1>2. Coherent(main.content) /\ (main.content.conf \in 1..3 => wal \cap Types = {})
  BY DEF MainInv
<1>3. (Unversioned(Folded.content) <=> Unversioned(main.content)) /\ (Early(Folded.content) <=> Early(main.content))
  BY <1>1 DEF Unversioned, Early
<1>4. wal = {} /\ Young(main.content) => Young(Folded.content)
  BY <1>1, <1>3 DEF Young
<1>5. Coherent(Folded.content)
  <2>1. CASE main.content.conf \in 1..3
    <3>1. main.content.rows \cap Types = {}
      BY <1>2, <2>1, Versions DEF Coherent, Unversioned
    <3> QED
      BY <1>1, <1>2, <1>3, <2>1, <3>1 DEF Coherent
  <2>2. CASE main.content.conf \notin 1..3
    <3>1. main.content.conf \in 1..OldLatest - 1 => ~(main.content.conf < 4)
      BY <2>2, Versions
    <3> QED
      BY <1>1, <1>2, <1>3, <2>2, <3>1 DEF Coherent
  <2> QED
    BY <2>1, <2>2
<1> QED
  BY <1>3, <1>4, <1>5

LEMMA ContentStep ==
  ASSUME StartInv, ContentInv, DatabaseNext
  PROVE  ContentInv'
<1>0. losses \subseteq losses' /\ StartInv'
  BY LossesGrow, StartStep
<1>1. SUFFICES ASSUME "undumped" \notin losses', MainInv, DumpInv, CopiesInv
               PROVE  MainInv' /\ DumpInv' /\ CopiesInv'
  BY <1>0 DEF ContentInv
<1>2. ASSUME UNCHANGED backups
      PROVE  CopiesInv'
  BY <1>1, <1>2 DEF CopiesInv
<1>3. ASSUME stage' # "read"
      PROVE  DumpInv'
  BY <1>3 DEF DumpInv
<1>4. ASSUME UNCHANGED <<main, wal>>, stage' \in {"off", "connect"} \/ stage' = stage
             \/ {stage, stage'} \subseteq {"running", "copy"} \/ (main # None => main.health # "ok")
      PROVE  MainInv'
  BY <1>1, <1>4 DEF MainInv
<1>5. ASSUME main' = Folded, main # None, wal' = {}, stage' \in {"off", "connect"} \/ stage' = stage
      PROVE  MainInv'
  <2>1. main'.health = main.health
    BY <1>5, FoldedFacts DEF StartInv
  <2>2. /\ Coherent(main'.content)
        /\ Unversioned(main'.content) <=> Unversioned(main.content)
        /\ Early(main'.content) <=> Early(main.content)
        /\ wal = {} /\ Young(main.content) => Young(main'.content)
    BY <1>1, <1>5, FoldedCoherent
  <2>3. Unversioned(main'.content) /\ main'.health = "ok" =>
            stage' \in {"off", "connect"} /\ Young(main'.content)
    BY <1>1, <1>5, <2>1, <2>2 DEF MainInv
  <2>4. stage' \in {"running", "copy"} /\ main'.health = "ok" => ~Early(main'.content)
    BY <1>1, <1>5, <2>1, <2>2 DEF MainInv
  <2> QED
    BY <1>5, <2>2, <2>3, <2>4 DEF MainInv
<1>6. CASE Sound
  BY <1>1, <1>2, <1>3, <1>4, <1>5, <1>6 DEF Sound, Present
<1>7. CASE Dump
  <2>1. CASE dump' = Folded.content /\ main' = None /\ stage' = "read"
    BY <1>1, <1>2, <1>7, <2>1, FoldedCoherent DEF Dump, Present, MainInv, DumpInv
  <2>2. CASE main' = Folded /\ stage' = "connect"
    BY <1>2, <1>3, <1>5, <1>7, <2>2 DEF Dump, Present
  <2> QED
    BY <1>7, <2>1, <2>2 DEF Dump
<1>8. CASE Read
  <2>1. dump \in Tables /\ Coherent(dump) /\ dump.conf \notin {Unset, OldLatest} /\ wal = {}
    BY <1>1, <1>8 DEF Read, StartInv, StageInv, DumpInv
  <2>2. PICK c \in Tables : /\ main' = File("ok", c) /\ c = [dump EXCEPT !.user = 0]
                            /\ c.user = 0 /\ c.conf = dump.conf /\ c.schema = dump.schema /\ c.rows = dump.rows
    BY <1>8, <2>1, ReadFacts DEF Read
  <2>3. c.conf \in Int \cup {None} /\ dump.user \in Int
    BY <2>1, <2>2 DEF Tables
  <2>4. Coherent(c) /\ ~Unversioned(c)
    BY <2>1, <2>2, <2>3, Versions DEF Coherent, Unversioned
  <2>5. main'.content = c
    BY <2>2 DEF File
  <2> QED
    BY <1>2, <1>3, <1>8, <2>1, <2>4, <2>5 DEF Read, MainInv
<1>9. CASE ReadFails
  <2>1. main'.content = Empty
    BY <1>9 DEF ReadFails, File
  <2> QED
    BY <1>2, <1>3, <1>9, <2>1, EmptyFacts DEF ReadFails, MainInv, Early
<1>10. CASE Unrecoverable
  BY <1>2, <1>3, <1>10 DEF Unrecoverable, MainInv
<1>11. CASE Restore
  <2>1. PICK b \in Copies : b = backups[Len(backups)] /\ Len(backups) \in DOMAIN backups
    BY <1>11 DEF StartInv, DbTypes, StageInv, Restore, RestoreIf
  <2>2. main'.content = b.file.content
    BY <1>11, <2>1 DEF Restore, RestoreIf, Newest, File
  <2>3. Coherent(b.file.content) /\ ~Early(b.file.content)
    BY <1>1, <2>1 DEF CopiesInv
  <2> QED
    BY <1>2, <1>3, <1>11, <2>2, <2>3 DEF Restore, RestoreIf, MainInv, Early
<1>12. CASE RestoreFails
  BY <1>1, <1>2, <1>3, <1>4, <1>12 DEF RestoreFails, files
<1>13. CASE Migrate
  <2>1. PICK c \in Tables, made \in Tables :
           /\ c = IF main # None THEN main.content ELSE Empty
           /\ main' = File("ok", made) /\ stage' = "running"
           /\ Coherent(c) => Coherent(made) /\ ~Early(made)
           /\ UNCHANGED <<wal, dump, backups>>
    BY <1>13, MigrateEffect
  <2>2. Coherent(c)
    BY <1>1, <2>1, EmptyFacts DEF MainInv
  <2>3. main'.content = made
    BY <2>1 DEF File
  <2> QED
    BY <1>2, <1>3, <2>1, <2>2, <2>3 DEF MainInv, Early
<1>14. CASE MigrateFails
  BY <1>1, <1>2, <1>3, <1>4, <1>14 DEF MigrateFails, files
<1>15. CASE \E r \in Written : Write(r)
  <2>1. PICK r \in Written : /\ stage = "running" /\ main # None /\ wal' = wal \cup {r}
                             /\ r \in Types => main.content.schema > OldLatest
                             /\ UNCHANGED <<main, backups, stage, dump>>
    BY <1>15 DEF Write, Readable, Present
  <2>2. main.content.conf \in 1..3 => r \notin Types
    BY <1>1, <2>1, FileTypes, Versions DEF MainInv, Coherent, Unversioned, StartInv, DbTypes
  <2> QED
    BY <1>1, <1>2, <1>3, <2>1, <2>2 DEF MainInv
<1>16. CASE Checkpoint
  BY <1>2, <1>3, <1>5, <1>16 DEF Checkpoint, Readable, Present
<1>17. CASE SaveBackup
  <2>1. \A i \in DOMAIN backups' : \E j \in DOMAIN backups : backups'[i] = backups[j]
    BY <1>17, SubFacts DEF SaveBackup
  <2>2. CopiesInv'
    BY <1>1, <2>1 DEF CopiesInv
  <2> QED
    BY <1>3, <1>4, <1>17, <2>2 DEF SaveBackup
<1>18. CASE Copy
  <2>1. PICK copy \in Copies : copy = [file |-> main, missing |-> wal, old |-> FALSE]
    BY <1>18 DEF StartInv, DbTypes, StageInv, Copy, Copies
  <2>2. \A i \in DOMAIN backups' : backups'[i] = copy \/ \E j \in DOMAIN backups : backups'[i] = backups[j]
    BY <1>18, <2>1, AddFacts DEF Copy
  <2>3. Coherent(main.content) /\ ~Early(main.content)
    BY <1>1, <1>18 DEF MainInv, StartInv, StageInv, Copy
  <2>4. CopiesInv'
    BY <1>1, <2>1, <2>2, <2>3 DEF CopiesInv
  <2> QED
    BY <1>3, <1>4, <1>18, <2>4 DEF Copy
<1>19. CASE CopyFails
  BY <1>2, <1>3, <1>4, <1>19 DEF CopyFails, files
<1>20. CASE Close
  BY <1>2, <1>3, <1>4, <1>5, <1>20 DEF Close, Readable, Present
<1>21. CASE Kill
  <2>1. /\ stage' = "off" /\ UNCHANGED wal
        /\ \/ UNCHANGED <<main, backups>>
           \/ main' = File("ok", Empty) /\ UNCHANGED backups
           \/ main' = File("dead", Empty) /\ UNCHANGED backups
           \/ /\ UNCHANGED main
              /\ backups' = Append(backups, [file |-> File("dead", Empty), missing |-> {}, old |-> FALSE])
    BY <1>21 DEF Kill
  <2>2. MainInv'
    <3>1. CASE UNCHANGED main
      BY <1>4, <2>1, <3>1
    <3>2. CASE main'.content = Empty
      BY <2>1, <3>2, EmptyFacts DEF MainInv, Early
    <3>3. File("ok", Empty).content = Empty /\ File("dead", Empty).content = Empty
      BY DEF File
    <3> QED
      BY <2>1, <3>1, <3>2, <3>3
  <2>3. PICK copy \in Copies : /\ copy = [file |-> File("dead", Empty), missing |-> {}, old |-> FALSE]
                               /\ copy.file.content = Empty
    <3>1. PICK f \in DbFiles : f = File("dead", Empty) /\ f.content = Empty
      BY EmptyFacts, MakeFile DEF Healths
    <3>2. [file |-> f, missing |-> {}, old |-> FALSE] \in Copies
      BY DEF Copies
    <3> QED
      BY <3>1, <3>2
  <2>4. CopiesInv'
    <3>1. CASE UNCHANGED backups
      BY <1>2, <3>1
    <3>2. CASE backups' = Append(backups, copy)
      <4>1. \A i \in DOMAIN backups' : backups'[i] = copy \/ \E j \in DOMAIN backups : backups'[i] = backups[j]
        BY <2>3, <3>2, AddFacts
      <4> QED
        BY <1>1, <2>3, <4>1, EmptyFacts DEF CopiesInv
    <3> QED
      BY <2>1, <2>3, <3>1, <3>2
  <2> QED
    BY <1>3, <2>1, <2>2, <2>4
<1>22. CASE Damage
  <2>1. PICK h \in {"malformed", "dead"} : main' = [main EXCEPT !.health = h]
    BY <1>22 DEF Damage
  <2>2. main \in DbFiles
    BY <1>22 DEF Damage, Present, StartInv, DbTypes
  <2>3. main'.content = main.content /\ main'.health # "ok"
    BY <2>1, <2>2 DEF DbFiles
  <2> QED
    BY <1>1, <1>2, <1>3, <1>22, <2>3 DEF Damage, Present, MainInv
<1>23. CASE Day
  <2>1. /\ DOMAIN backups' = DOMAIN backups
        /\ \A i \in DOMAIN backups : backups'[i].file = backups[i].file
    BY <1>23, DayFacts DEF Day
  <2>2. CopiesInv'
    BY <1>1, <2>1 DEF CopiesInv
  <2> QED
    BY <1>1, <1>4, <1>23, <2>2 DEF Day, DumpInv
<1> QED
  BY <1>6, <1>7, <1>8, <1>9, <1>10, <1>11, <1>12, <1>13, <1>14, <1>15, <1>16, <1>17, <1>18, <1>19, <1>20, <1>21,
     <1>22, <1>23 DEF DatabaseNext, Open, Use

\* What a migration finds is coherent, and young when it has no version.
LEMMA MigrateCoherent ==
  ASSUME StartInv, ContentInv, "undumped" \notin losses, stage = "connect", main # None => main.health = "ok",
         NEW c, c = IF main # None THEN main.content ELSE Empty
  PROVE  Coherent(c) /\ Young(c)
<1>1. CASE main = None
  BY <1>1, EmptyFacts
<1>2. CASE main # None
  BY <1>2 DEF ContentInv, MainInv, Young
<1> QED
  BY <1>1, <1>2

-----------------------------------------------------------------------------
(* The tables in use                                                       *)

UpgradeInv ==
    /\ stage \in {"running", "copy"} /\ main.health = "ok" =>
         UpToDate(main.content) \/ losses \cap {"uploads", "undumped"} # {}
    /\ stage = "connect" /\ main # None /\ main.health = "dead" => "torn" \in losses

LEMMA UpgradeStep ==
  ASSUME StartInv, ContentInv, UpgradeInv, DatabaseNext
  PROVE  UpgradeInv'
<1>0. losses \subseteq losses'
  BY LossesGrow
<1>1. ASSUME stage' \notin {"running", "copy", "connect"}
      PROVE  UpgradeInv'
  BY <1>1 DEF UpgradeInv
<1>2. ASSUME main' \in {main, Folded}, main # None,
             stage' = stage \/ {stage, stage'} \subseteq {"running", "copy"}
      PROVE  UpgradeInv'
  <2>1. main'.health = main.health /\ (UpToDate(main.content) => UpToDate(main'.content))
    BY <1>2, FoldedFacts DEF StartInv, UpToDate
  <2> QED
    BY <1>0, <1>2, <2>1 DEF UpgradeInv
<1>3. ASSUME stage' = "connect", main' # None => main'.health # "dead"
      PROVE  UpgradeInv'
  BY <1>3 DEF UpgradeInv
<1>4. CASE Sound
  BY <1>3, <1>4, FoldedFacts DEF Sound, Present, StartInv
<1>5. CASE Dump
  BY <1>1, <1>3, <1>5, FoldedFacts DEF Dump, Present, StartInv
<1>6. CASE Read \/ ReadFails
  BY <1>3, <1>6 DEF Read, ReadFails, File
<1>7. CASE Unrecoverable
  BY <1>1, <1>3, <1>7 DEF Unrecoverable
<1>8. CASE Restore
  <2>1. stage' = "connect" /\ (main'.health = "dead" => "torn" \in losses')
    BY <1>8 DEF Restore, RestoreIf, File
  <2> QED
    BY <2>1 DEF UpgradeInv
<1>9. CASE RestoreFails \/ Close \/ Kill
  BY <1>1, <1>9 DEF RestoreFails, Close, Kill
<1>10. CASE Migrate
  <2>1. PICK c \in Tables, made \in Tables :
           /\ c = IF main # None THEN main.content ELSE Empty
           /\ stage = "connect" /\ (main # None => main.health = "ok")
           /\ main' = File("ok", made) /\ stage' = "running"
           /\ Coherent(c) => UpToDate(made) \/ "uploads" \in losses'
    BY <1>10, MigrateEffect
  <2>2. "undumped" \notin losses => Coherent(c)
    BY <2>1, MigrateCoherent
  <2>3. main'.content = made
    BY <2>1 DEF File
  <2>4. UpToDate(main'.content) \/ "uploads" \in losses' \/ "undumped" \in losses'
    BY <1>0, <2>1, <2>2, <2>3
  <2> QED
    BY <2>1, <2>4 DEF UpgradeInv
<1>11. CASE MigrateFails
  BY <1>11 DEF MigrateFails, files, UpgradeInv
<1>12. CASE (\E r \in Written : Write(r)) \/ Checkpoint \/ SaveBackup \/ Copy \/ CopyFails
  BY <1>2, <1>12 DEF StartInv, StageInv, Write, Checkpoint, SaveBackup, Copy, CopyFails, files
<1>13. CASE Damage
  <2>1. PICK h \in {"malformed", "dead"} : main' = [main EXCEPT !.health = h]
    BY <1>13 DEF Damage
  <2>2. main \in DbFiles
    BY <1>13 DEF Damage, Present, StartInv, DbTypes
  <2>3. main'.health # "ok"
    BY <2>1, <2>2 DEF DbFiles
  <2> QED
    BY <1>13, <2>3 DEF Damage, UpgradeInv
<1>14. CASE Day
  BY <1>14 DEF Day, UpgradeInv
<1> QED
  BY <1>4, <1>5, <1>6, <1>7, <1>8, <1>9, <1>10, <1>11, <1>12, <1>13, <1>14 DEF DatabaseNext, Open, Use

-----------------------------------------------------------------------------
(* The rows                                                                *)

Excused == losses \cap {"unflushed", "removed", "half", "aged", "first", "undumped"} # {}
NewestCopy == backups[Len(backups)]

\* Where what was written is: in the file or its log, in the dump while it is read back, or in the
\* newest copy, which has what there was at the last backup.
HeldInv == Readable => saved \subseteq main.content.rows \cup wal
AwayInv ==
    /\ stage = "read" => saved \subseteq dump.rows
    /\ stage = "restore" => saved \subseteq secured
    /\ main = None /\ stage \in {"off", "connect"} => saved = {}
BackupInv ==
    /\ backups # <<>> => \/ NewestCopy.file.health = "dead"
                         \/ secured \subseteq NewestCopy.file.content.rows \cup NewestCopy.missing
    /\ backups = <<>> /\ stage # "copy" => secured = {}
RowsInv == Excused \/ (HeldInv /\ AwayInv /\ BackupInv)

LEMMA RowsStep ==
  ASSUME StartInv, ContentInv, RowsInv, DatabaseNext
  PROVE  RowsInv'
<1>0. losses \subseteq losses' /\ StartInv'
  BY LossesGrow, StartStep
<1>1. SUFFICES ASSUME ~Excused', HeldInv, AwayInv, BackupInv
               PROVE  HeldInv' /\ AwayInv' /\ BackupInv'
  BY <1>0 DEF RowsInv, Excused
<1>2. ASSUME UNCHANGED <<backups, secured>>, stage = "copy" => backups # <<>>
      PROVE  BackupInv'
  BY <1>1, <1>2 DEF BackupInv, NewestCopy
<1>3. ASSUME UNCHANGED saved, main # None,
             (main' = main /\ wal' = wal) \/ (main' = Folded /\ wal' = {})
      PROVE  HeldInv'
  BY <1>1, <1>3, FoldedFacts DEF StartInv, HeldInv, Readable, Present
<1>4. ASSUME main' # None, stage' \notin {"read", "restore"}
      PROVE  AwayInv'
  BY <1>4 DEF AwayInv
<1>5. ASSUME UNCHANGED <<main, saved>>, stage' \in {"off", "connect"}, stage \in {"off", "connect"} \/ main # None
      PROVE  AwayInv'
  BY <1>1, <1>5 DEF AwayInv
<1>6. ASSUME main' = None
      PROVE  HeldInv'
  BY <1>6 DEF HeldInv, Readable, Present
<1>7. Folded # None \/ main = None
  BY FoldedFacts, FileTypes DEF StartInv
<1>8. CASE Sound
  <2>1. BackupInv'
    BY <1>2, <1>8 DEF Sound
  <2>2. HeldInv'
    BY <1>3, <1>6, <1>8 DEF Sound, Present
  <2>3. AwayInv'
    BY <1>4, <1>5, <1>7, <1>8 DEF Sound, Present
  <2> QED
    BY <2>1, <2>2, <2>3
<1>9. CASE Dump
  <2>1. BackupInv'
    BY <1>2, <1>9 DEF Dump
  <2>2. HeldInv'
    BY <1>3, <1>6, <1>9 DEF Dump, Present
  <2>3. CASE dump' = Folded.content /\ main' = None /\ stage' = "read"
    <3>1. saved' \subseteq dump'.rows
      BY <1>1, <1>9, <2>3, FoldedFacts DEF Dump, Present, StartInv, HeldInv, Readable
    <3> QED
      BY <2>1, <2>2, <2>3, <3>1 DEF AwayInv
  <2>4. CASE main' = Folded /\ stage' = "connect"
    BY <1>4, <1>7, <1>9, <2>1, <2>2, <2>4 DEF Dump, Present
  <2> QED
    BY <1>9, <2>3, <2>4 DEF Dump
<1>10. CASE Read
  <2>1. dump \in Tables
    BY <1>10 DEF StartInv, StageInv, Read
  <2>a. PICK d \in Tables : d = [dump EXCEPT !.user = 0] /\ d.rows = dump.rows
    BY <2>1, ReadFacts
  <2>2. main'.content.rows = dump.rows /\ main' # None
    <3>1. main' = File("ok", d)
      BY <1>10, <2>a DEF Read
    <3> QED
      BY <2>a, <3>1, MakeFile DEF Healths
  <2>3. HeldInv'
    BY <1>1, <1>10, <2>2 DEF Read, HeldInv, AwayInv
  <2> QED
    BY <1>2, <1>4, <1>10, <2>2, <2>3 DEF Read
<1>11. CASE ReadFails \/ RestoreFails
  BY <1>1, <1>11 DEF ReadFails, RestoreFails, Excused
<1>12. CASE Unrecoverable
  <2>1. BackupInv'
    BY <1>2, <1>12 DEF Unrecoverable
  <2>2. AwayInv'
    BY <1>1, <1>12 DEF Unrecoverable, AwayInv, BackupInv
  <2> QED
    BY <1>6, <1>12, <2>1, <2>2 DEF Unrecoverable
<1>13. CASE Restore
  <2>1. PICK b \in Copies : b = backups[Len(backups)] /\ backups # <<>>
    BY <1>13 DEF StartInv, DbTypes, StageInv, Restore, RestoreIf
  <2>2. /\ \/ main' = b.file
           \/ main' = File("malformed", b.file.content) /\ b.file.health = "ok"
        /\ losses' = losses \cup (IF b.missing # {} THEN {"unflushed"} ELSE {})
                            \cup (IF b.file.health = "dead" THEN {"torn"} ELSE {})
        /\ UNCHANGED <<wal, backups, saved, secured>> /\ stage = "restore" /\ stage' = "connect"
    BY <1>13, <2>1 DEF Restore, RestoreIf, Newest
  <2>3. b.missing = {}
    BY <1>1, <2>2 DEF Excused
  <2>4. b.file \in DbFiles /\ b.file # None
    BY FileTypes DEF Copies
  <2>5. /\ main'.content = b.file.content /\ main' # None
        /\ b.file.health = "dead" => main'.health = "dead"
    BY <2>2, <2>4, FileTypes, MakeFile DEF Healths
  <2>6. b.file.health = "dead" \/ saved \subseteq b.file.content.rows
    BY <1>1, <2>1, <2>2, <2>3 DEF AwayInv, BackupInv, NewestCopy
  <2>7. HeldInv'
    BY <2>2, <2>5, <2>6 DEF HeldInv, Readable
  <2> QED
    BY <1>2, <1>4, <2>2, <2>5, <2>7
<1>14. CASE Migrate
  <2>1. PICK c \in Tables, made \in Tables :
           /\ c = IF main # None THEN main.content ELSE Empty
           /\ stage = "connect" /\ (main # None => main.health = "ok")
           /\ main' = File("ok", made) /\ stage' = "running"
           /\ Coherent(c) => (Young(c) => made.rows = c.rows \/ "first" \in losses')
           /\ UNCHANGED <<wal, backups, saved, secured>>
    BY <1>14, MigrateEffect
  <2>2. "undumped" \notin losses /\ "first" \notin losses'
    BY <1>0, <1>1 DEF Excused
  <2>3. made.rows = c.rows
    BY <2>1, <2>2, MigrateCoherent
  <2>4. main'.content.rows = c.rows /\ main' # None
    BY <2>1, <2>3, MakeFile DEF Healths
  <2>5. main = None => saved = {}
    BY <1>1, <2>1 DEF AwayInv
  <2>6. main # None => saved \subseteq main.content.rows \cup wal
    BY <1>1, <2>1 DEF HeldInv, Readable, Present
  <2>7. HeldInv'
    BY <2>1, <2>4, <2>5, <2>6 DEF HeldInv
  <2> QED
    BY <1>2, <1>4, <2>1, <2>4, <2>7
<1>15. CASE MigrateFails
  <2>1. /\ UNCHANGED <<main, wal, backups, saved, secured>> /\ main # None /\ stage = "connect"
        /\ stage' \in {"off", "running"}
    BY <1>15 DEF MigrateFails, files, Present
  <2> QED
    BY <1>2, <1>3, <1>4, <2>1
<1>16. CASE \E r \in Written : Write(r)
  <2>1. PICK r \in Written : /\ stage = "running" /\ main # None /\ wal' = wal \cup {r} /\ saved' = saved \cup {r}
                             /\ UNCHANGED <<main, backups, stage, secured>>
    BY <1>16 DEF Write, Readable, Present
  <2>2. HeldInv'
    BY <1>1, <2>1 DEF HeldInv, Readable, Present
  <2> QED
    BY <1>2, <1>4, <2>1, <2>2
<1>17. CASE Checkpoint
  <2>1. main # None /\ main' = Folded /\ wal' = {} /\ stage = "running" /\ UNCHANGED <<backups, stage, saved, secured>>
    BY <1>17 DEF Checkpoint, Readable, Present
  <2> QED
    BY <1>2, <1>3, <1>4, <1>7, <2>1
<1>18. CASE SaveBackup
  <2>1. backups' # <<>> => backups # <<>> /\ NewestCopy' = NewestCopy
    BY <1>18, SubFacts DEF SaveBackup, NewestCopy
  <2>2. UNCHANGED <<main, wal, saved, secured>> /\ main # None /\ stage' = "copy"
    BY <1>18 DEF SaveBackup, Present
  <2>3. BackupInv'
    BY <1>1, <2>1, <2>2 DEF BackupInv
  <2> QED
    BY <1>3, <1>4, <2>2, <2>3
<1>19. CASE Copy
  <2>1. PICK copy \in Copies : copy = [file |-> main, missing |-> wal, old |-> FALSE]
    BY <1>19 DEF StartInv, DbTypes, StageInv, Copy, Copies
  <2>2. backups' # <<>> /\ NewestCopy' = copy
    BY <1>19, <2>1, AddFacts DEF Copy, NewestCopy
  <2>3. UNCHANGED <<main, wal, saved>> /\ secured' = saved /\ stage' = "running" /\ main # None /\ main.health = "ok"
    BY <1>19 DEF Copy, StartInv, StageInv
  <2>4. saved \subseteq main.content.rows \cup wal
    BY <1>1, <2>3 DEF HeldInv, Readable, Present
  <2>5. BackupInv'
    BY <2>1, <2>2, <2>3, <2>4 DEF BackupInv
  <2> QED
    BY <1>3, <1>4, <2>3, <2>5
<1>20. CASE CopyFails
  <2>1. /\ UNCHANGED <<main, wal, backups, saved, secured>> /\ main # None /\ stage' = "running"
        /\ backups = <<>> => "aged" \in losses'
    BY <1>20 DEF CopyFails, files, StartInv, StageInv
  <2>2. backups # <<>>
    BY <1>1, <2>1 DEF Excused
  <2> QED
    BY <1>2, <1>3, <1>4, <2>1, <2>2
<1>21. CASE Close
  <2>1. /\ main # None /\ ((main' = main /\ wal' = wal) \/ (main' = Folded /\ wal' = {})) /\ stage = "running"
        /\ stage' = "off" /\ UNCHANGED <<backups, saved, secured>>
    BY <1>21 DEF Close, StartInv, StageInv
  <2> QED
    BY <1>2, <1>3, <1>4, <1>7, <2>1
<1>22. CASE Kill
  <2>1. /\ stage # "off" /\ stage' = "off" /\ UNCHANGED <<wal, saved, secured>>
        /\ \/ UNCHANGED <<main, backups>>
           \/ stage = "restore" /\ main' = File("dead", Empty) /\ UNCHANGED backups
           \/ /\ stage = "copy" /\ UNCHANGED main
              /\ backups' = Append(backups, [file |-> File("dead", Empty), missing |-> {}, old |-> FALSE])
        /\ stage # "read" /\ (stage = "restore" => main' # None) /\ (stage = "copy" => backups # <<>>)
    BY <1>1, <1>22 DEF Kill, Excused
  <2>2. CASE UNCHANGED <<main, backups>>
    <3>1. stage # "restore"
      BY <2>1, <2>2 DEF StartInv, StageInv
    <3>2. AwayInv'
      <4>1. CASE main = None
        BY <1>5, <2>1, <2>2, <3>1, <4>1 DEF StartInv, DbTypes, StageInv
      <4>2. CASE main # None
        BY <1>4, <2>1, <2>2, <4>2
      <4> QED
        BY <4>1, <4>2
    <3>3. HeldInv'
      BY <1>3, <1>6, <2>1, <2>2
    <3> QED
      BY <1>2, <2>1, <2>2, <3>2, <3>3
  <2>3. CASE stage = "restore" /\ main' = File("dead", Empty) /\ UNCHANGED backups
    <3>1. HeldInv'
      BY <2>3 DEF HeldInv, Readable, File
    <3> QED
      BY <1>2, <1>4, <2>1, <2>3, <3>1
  <2>4. CASE /\ stage = "copy" /\ UNCHANGED main
             /\ backups' = Append(backups, [file |-> File("dead", Empty), missing |-> {}, old |-> FALSE])
    <3>1. PICK f \in DbFiles : f = File("dead", Empty) /\ f.health = "dead"
      BY EmptyFacts, MakeFile DEF Healths
    <3>2. PICK copy \in Copies : copy = [file |-> f, missing |-> {}, old |-> FALSE]
      BY DEF Copies
    <3>3. backups' # <<>> /\ NewestCopy' = copy
      BY <2>4, <3>1, <3>2, AddFacts DEF NewestCopy
    <3>4. BackupInv'
      BY <3>1, <3>2, <3>3 DEF BackupInv
    <3>5. main # None
      BY <2>4 DEF StartInv, StageInv
    <3> QED
      BY <1>3, <1>4, <2>1, <2>4, <3>4, <3>5
  <2> QED
    BY <2>1, <2>2, <2>3, <2>4
<1>23. CASE Damage
  <2>1. PICK h \in {"malformed", "dead"} : main' = [main EXCEPT !.health = h]
    BY <1>23 DEF Damage
  <2>2. main \in DbFiles /\ main # None /\ main.health = "ok"
    BY <1>23 DEF Damage, Present, StartInv, DbTypes
  <2>3. main'.content = main.content /\ main' # None
    BY <1>0, <2>1, <2>2, FileTypes DEF DbFiles, StartInv, DbTypes, Healths
  <2>4. HeldInv'
    BY <1>1, <1>23, <2>2, <2>3 DEF Damage, HeldInv, Readable, Present
  <2> QED
    BY <1>2, <1>4, <1>23, <2>3, <2>4 DEF Damage
<1>24. CASE Day
  <2>1. /\ Len(backups') = Len(backups) /\ DOMAIN backups' = DOMAIN backups /\ (backups' = <<>> <=> backups = <<>>)
        /\ \A i \in DOMAIN backups : /\ backups'[i].file = backups[i].file
                                     /\ backups'[i].missing = backups[i].missing
    BY <1>24, DayFacts DEF Day
  <2>2. backups # <<>> => Len(backups) \in DOMAIN backups
    BY DEF StartInv, DbTypes
  <2>3. UNCHANGED <<main, wal, dump, stage, saved, secured>>
    BY <1>24 DEF Day
  <2>4. BackupInv'
    BY <1>1, <2>1, <2>2, <2>3 DEF BackupInv, NewestCopy
  <2>5. HeldInv' /\ AwayInv'
    BY <1>1, <2>3 DEF HeldInv, AwayInv, Readable, Present
  <2> QED
    BY <2>4, <2>5
<1> QED
  BY <1>8, <1>9, <1>10, <1>11, <1>12, <1>13, <1>14, <1>15, <1>16, <1>17, <1>18, <1>19, <1>20, <1>21,
     <1>22, <1>23, <1>24 DEF DatabaseNext, Open, Use

-----------------------------------------------------------------------------
(* The whole                                                               *)

DatabaseInv == StartInv /\ ContentInv /\ UpgradeInv /\ RowsInv

LEMMA DatabaseStarts == DatabaseInit => DatabaseInv
<1>1. SUFFICES ASSUME DatabaseInit
               PROVE  DatabaseInv
  OBVIOUS
<1>2. PICK c \in Contents : main = File("ok", c) /\ saved = c.rows
  BY <1>1 DEF DatabaseInit
<1>3. c \in Tables /\ Coherent(c) /\ Young(c)
  BY ContentAssumption
<1>4. main \in DbFiles /\ main.health = "ok" /\ main.content = c /\ main # None
  BY <1>2, <1>3, MakeFile DEF Healths
<1>5. wal = {} /\ backups = <<>> /\ stage = "off" /\ exists = TRUE /\ secured = {}
  BY <1>1 DEF DatabaseInit
<1>6. backups \in Seq(Copies) /\ DOMAIN backups = {}
  BY <1>5
<1>7. StartInv
  BY <1>4, <1>5, <1>6 DEF StartInv, DbTypes, StageInv, AgeInv
<1>8. ContentInv
  BY <1>3, <1>4, <1>5, <1>6 DEF ContentInv, MainInv, DumpInv, CopiesInv
<1>9. UpgradeInv
  BY <1>5 DEF UpgradeInv
<1>10. RowsInv
  BY <1>2, <1>4, <1>5 DEF RowsInv, HeldInv, AwayInv, BackupInv
<1> QED
  BY <1>7, <1>8, <1>9, <1>10 DEF DatabaseInv

LEMMA DatabaseStep == DatabaseInv /\ [DatabaseNext]_databaseVars => DatabaseInv'
<1>1. ASSUME DatabaseInv, DatabaseNext
      PROVE  DatabaseInv'
  BY <1>1, StartStep, ContentStep, UpgradeStep, RowsStep DEF DatabaseInv
<1>2. ASSUME DatabaseInv, UNCHANGED databaseVars
      PROVE  DatabaseInv'
  <2>1. StartInv'
    BY <1>2 DEF databaseVars, DatabaseInv, StartInv, DbTypes, StageInv, AgeInv
  <2>2. ContentInv'
    BY <1>2 DEF databaseVars, DatabaseInv, ContentInv, MainInv, DumpInv, CopiesInv
  <2>3. UpgradeInv'
    BY <1>2 DEF databaseVars, DatabaseInv, UpgradeInv
  <2>4. RowsInv'
    BY <1>2 DEF databaseVars, DatabaseInv, RowsInv, Excused, HeldInv, AwayInv, BackupInv, NewestCopy, Readable, Present
  <2> QED
    BY <2>1, <2>2, <2>3, <2>4 DEF DatabaseInv
<1> QED
  BY <1>1, <1>2

LEMMA DatabaseKeeps == DatabaseInv => RowsKept
<1>1. SUFFICES ASSUME StartInv, UpgradeInv, RowsInv
               PROVE  Kept /\ Current
  BY DEF DatabaseInv, RowsKept
<1>2. Kept
  BY <1>1 DEF Kept, RowsInv, Excused, HeldInv, Held
<1>3. Current
  BY <1>1 DEF Current, UpgradeInv, UpToDate, Present
<1> QED
  BY <1>2, <1>3

(* The order of the start, the copies and their ages, the versions and the tables of every file there     *)
(* may be, and where the rows that were written are: the inductive invariant of the database of an engine *)
(* (dao/base.py, dao/utils.py, dao/migrations).                                                           *)
THEOREM DatabaseInvariant == DatabaseSpec => []DatabaseInv
<1>1. DatabaseInit => DatabaseInv
  BY DatabaseStarts
<1>2. DatabaseInv /\ [DatabaseNext]_databaseVars => DatabaseInv'
  BY DatabaseStep
<1> QED
  BY <1>1, <1>2, PTL DEF DatabaseSpec

(* Whatever release the database comes from, and whatever is killed, damaged, repaired, restored or       *)
(* upgraded in whatever order, what was written is in the database that is used, whose tables are those   *)
(* of this release, but for the losses that RowsKept names (fix_db, restore_backup, save_backup,          *)
(* MigrationEngine, _migrate_db_old).                                                                     *)
THEOREM RowsAreKept == DatabaseSpec => []RowsKept
<1>1. DatabaseSpec => []DatabaseInv
  BY DatabaseInvariant
<1>2. DatabaseInv => RowsKept
  BY DatabaseKeeps
<1> QED
  BY <1>1, <1>2, PTL
=============================================================================
