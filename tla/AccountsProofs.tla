---------------------------- MODULE AccountsProofs ----------------------------
(***************************************************************************)
(* AccountsKept is proved from an inductive invariant, AccountsInv, whose  *)
(* parts say: what an engine may be after what has been done to its        *)
(* account (EngineFits); that a transfer has its record (TransferFits);    *)
(* which rows of the table have a database and an engine, in every step of *)
(* an addition, a removal or a crash (PresenceInv); that an engine is at   *)
(* its folder (OwnInv); that folders are apart (ApartInv) and marked for   *)
(* their users (MarkInv); why a launch may fail (FailInv).                 *)
(*                                                                         *)
(* What an engine does to its account is shown first to be a "turn": its   *)
(* user and its folder stay, no other folder is marked.  Then each action. *)
(***************************************************************************)
EXTENDS Accounts, TLAPS

-------------------------------------------------------------------------------
(* One engine                                                                *)

Marks == Users \cup {"absent", "plain"}
BoundRows == [user : Users, conf : BOOLEAN, root : BOOLEAN, move : {"none", "ongoing", "suspended"}]
Snapshots == [db : BoundRows, engine : EngineStates, folder : [Folders -> Marks]]

\* A step of an engine leaves its account its user and its folder, and marks no other folder.
Alike(e, f) == f.at = e.at /\ f.sends = e.sends
Kin(s, t) ==
    /\ t \in Snapshots /\ t.db.user = s.db.user /\ Alike(s.engine, t.engine)
    /\ \A f \in Folders : \/ t.folder[f] = s.folder[f] \/ t.folder[f] \notin Users
                          \/ f = s.engine.at /\ t.folder[f] = s.db.user

(* An engine that is stopped, held, started, let go: what changes of it. *)
LEMMA EndedFacts ==
  ASSUME NEW e \in EngineStates
  PROVE  /\ Ended(e) \in EngineStates /\ Alike(e, Ended(e)) /\ Ended(e).base = e.base
         /\ Ended(e).stopped /\ Ended(e).loop = "off"
         /\ Ended(e).paused = e.paused /\ Ended(e).queue = e.queue /\ Ended(e).invalid = e.invalid
BY DEF EngineStates, Alike, Ended

LEMMA HeldFacts ==
  ASSUME NEW e \in EngineStates
  PROVE  /\ Held(e) \in EngineStates /\ Alike(e, Held(e)) /\ Held(e).base = e.base
         /\ Held(e).paused /\ ~Held(e).queue
         /\ Held(e).loop = IF e.loop = "on" THEN "held" ELSE e.loop
         /\ Held(e).stopped = e.stopped /\ Held(e).invalid = e.invalid
BY DEF EngineStates, Alike, Held

LEMMA StartedFacts ==
  ASSUME NEW e \in EngineStates
  PROVE  /\ Started(e) \in EngineStates /\ Alike(e, Started(e)) /\ Started(e).base = e.base
         /\ ~Started(e).stopped
         /\ Started(e).loop = IF e.loop = "off" THEN "on" ELSE e.loop
         /\ Started(e).paused = e.paused /\ Started(e).queue = e.queue /\ Started(e).invalid = e.invalid
BY DEF EngineStates, Alike, Started

LEMMA GoesOnFacts ==
  ASSUME NEW e \in EngineStates
  PROVE  /\ GoesOn(e) \in EngineStates /\ Alike(e, GoesOn(e)) /\ GoesOn(e).base = e.base
         /\ GoesOn(e).queue
         /\ GoesOn(e).loop = IF e.loop = "held" THEN "on" ELSE e.loop
         /\ GoesOn(e).paused = e.paused /\ GoesOn(e).stopped = e.stopped /\ GoesOn(e).invalid = e.invalid
BY DEF EngineStates, Alike, GoesOn

(* The mark of refused credentials, and of a pause, change nothing else. *)
LEMMA BarredFacts ==
  ASSUME NEW e \in EngineStates, NEW value \in BOOLEAN
  PROVE  LET b == [e EXCEPT !.invalid = value] IN
         /\ b \in EngineStates /\ Alike(e, b) /\ b.base = e.base /\ b.invalid = value
         /\ b.stopped = e.stopped /\ b.loop = e.loop /\ b.paused = e.paused /\ b.queue = e.queue
BY DEF EngineStates, Alike

LEMMA UnpausedFacts ==
  ASSUME NEW e \in EngineStates
  PROVE  LET b == [e EXCEPT !.paused = FALSE] IN
         /\ b \in EngineStates /\ Alike(e, b) /\ b.base = e.base /\ ~b.paused
         /\ b.stopped = e.stopped /\ b.loop = e.loop /\ b.invalid = e.invalid /\ b.queue = e.queue
BY DEF EngineStates, Alike

(* The records of the transfers are suspended and taken up; the user stays. *)
LEMMA RowFacts ==
  ASSUME NEW d \in BoundRows
  PROVE  /\ Suspended(d) \in BoundRows /\ Suspended(d).user = d.user
         /\ Suspended(d).move = (IF d.move = "ongoing" THEN "suspended" ELSE d.move)
         /\ Resumed(d) \in BoundRows /\ Resumed(d).user = d.user
         /\ Resumed(d).move = (IF d.move = "suspended" THEN "ongoing" ELSE d.move)
         /\ Unstaled(d) \in BoundRows /\ Unstaled(d).user = d.user
         /\ d.move # "ongoing" => Unstaled(d).move = d.move
BY DEF Suspended, Resumed, Unstaled, BoundRows

(* A snapshot made of three parts, and one of its parts. *)
LEMMA Fields ==
  ASSUME NEW s \in Snapshots
  PROVE  /\ s.db \in BoundRows /\ s.engine \in EngineStates /\ s.folder \in [Folders -> Marks]
         /\ s = [db |-> s.db, engine |-> s.engine, folder |-> s.folder]
BY DEF Snapshots

\* A step that leaves the folders.
LEMMA Stays ==
  ASSUME NEW s \in Snapshots, NEW t \in Snapshots,
         t.db.user = s.db.user, Alike(s.engine, t.engine), t.folder = s.folder
  PROVE  Kin(s, t)
BY DEF Kin

(* stop: the transfers are suspended, the threads end. *)
LEMMA StopFacts ==
  ASSUME NEW s \in Snapshots
  PROVE  /\ Kin(s, Stop(s)) /\ Stop(s).db = Suspended(s.db) /\ Stop(s).folder = s.folder
         /\ Stop(s).engine = Ended(s.engine)
<1>1. s.db \in BoundRows /\ s.engine \in EngineStates
  BY Fields
<1>2. Suspended(s.db) \in BoundRows /\ Suspended(s.db).user = s.db.user
  BY <1>1, RowFacts
<1>3. Ended(s.engine) \in EngineStates /\ Alike(s.engine, Ended(s.engine))
  BY <1>1, EndedFacts
<1>4. /\ Stop(s) \in Snapshots /\ Stop(s).db = Suspended(s.db) /\ Stop(s).folder = s.folder
      /\ Stop(s).engine = Ended(s.engine)
  BY <1>2, <1>3 DEF Stop, StopIf, Snapshots
<1> QED
  BY <1>2, <1>3, <1>4, Stays

(* suspend: the threads are held. *)
LEMMA SuspendFacts ==
  ASSUME NEW s \in Snapshots
  PROVE  /\ Kin(s, Suspend(s)) /\ Suspend(s).folder = s.folder
         /\ s.engine.paused => Suspend(s) = s
         /\ ~s.engine.paused => Suspend(s).db = Suspended(s.db) /\ Suspend(s).engine = Held(s.engine)
<1>1. CASE s.engine.paused
  BY <1>1 DEF Kin, Suspend, Alike
<1>2. CASE ~s.engine.paused
  <2>1. s.db \in BoundRows /\ s.engine \in EngineStates
    BY Fields
  <2>2. Suspended(s.db) \in BoundRows /\ Suspended(s.db).user = s.db.user
    BY <2>1, RowFacts
  <2>3. Held(s.engine) \in EngineStates /\ Alike(s.engine, Held(s.engine))
    BY <2>1, HeldFacts
  <2>4. /\ Suspend(s) \in Snapshots /\ Suspend(s).db = Suspended(s.db) /\ Suspend(s).folder = s.folder
        /\ Suspend(s).engine = Held(s.engine)
    BY <1>2, <2>2, <2>3 DEF Suspend, Snapshots
  <2> QED
    BY <1>2, <2>2, <2>3, <2>4, Stays
<1> QED
  BY <1>1, <1>2

(* Several steps of an engine are one. *)
LEMMA KinIsTransitive ==
  ASSUME NEW s, NEW t, NEW r, Kin(s, t), Kin(t, r)
  PROVE  Kin(s, r)
<1>1. r \in Snapshots /\ r.db.user = s.db.user /\ t.engine.at = s.engine.at /\ Alike(s.engine, r.engine)
  BY DEF Kin, Alike
<1>2. ASSUME NEW f \in Folders
      PROVE  \/ r.folder[f] = s.folder[f] \/ r.folder[f] \notin Users
             \/ f = s.engine.at /\ r.folder[f] = s.db.user
  BY <1>1 DEF Kin
<1> QED
  BY <1>1, <1>2 DEF Kin

(* _check_root: refused credentials stop the engine, else the root is there. *)
LEMMA CheckRootFacts ==
  ASSUME NEW s \in Snapshots, NEW refused \in BOOLEAN
  PROVE  /\ Kin(s, CheckRoot(s, refused))
         /\ ~(refused /\ RootMissing(s)) =>
              CheckRoot(s, refused).engine = s.engine /\ CheckRoot(s, refused).db.move = s.db.move
         /\ refused /\ RootMissing(s) =>
              /\ CheckRoot(s, refused).db = Suspended(s.db)
              /\ CheckRoot(s, refused).engine = [Ended(s.engine) EXCEPT !.invalid = TRUE]
<1>1. s.db \in BoundRows /\ s.engine \in EngineStates /\ s.folder \in [Folders -> Marks]
  BY Fields
<1>2. CASE ~RootMissing(s)
  BY <1>2 DEF Kin, CheckRoot, Alike
<1>3. CASE RootMissing(s) /\ refused
  <2> DEFINE e == [Ended(s.engine) EXCEPT !.invalid = TRUE]
  <2>1. Stop(s) \in Snapshots /\ Kin(s, Stop(s)) /\ Stop(s).engine = Ended(s.engine)
    BY StopFacts DEF Kin
  <2>2. Ended(s.engine) \in EngineStates
    BY <1>1, EndedFacts
  <2>3. e \in EngineStates /\ Alike(Ended(s.engine), e)
    BY <2>2, BarredFacts
  <2>4. CheckRoot(s, refused) = [Stop(s) EXCEPT !.engine = e]
    BY <1>3, <2>1 DEF CheckRoot
  <2> HIDE DEF e
  <2>5. /\ CheckRoot(s, refused) \in Snapshots /\ CheckRoot(s, refused).db = Stop(s).db
        /\ CheckRoot(s, refused).engine = e /\ CheckRoot(s, refused).folder = Stop(s).folder
    BY <2>1, <2>3, <2>4 DEF Snapshots
  <2>6. Kin(Stop(s), CheckRoot(s, refused))
    BY <2>1, <2>3, <2>5, Stays
  <2> QED
    BY <1>3, <2>1, <2>5, <2>6, StopFacts, KinIsTransitive DEF e
<1>4. CASE RootMissing(s) /\ ~refused
  <2> DEFINE d == [s.db EXCEPT !.root = TRUE]
             g == [s.folder EXCEPT ![s.engine.at] = s.db.user]
  <2>1. CheckRoot(s, refused) = [s EXCEPT !.db = d, !.folder = g]
    BY <1>4 DEF CheckRoot
  <2>2. d \in BoundRows /\ d.user = s.db.user /\ d.move = s.db.move
    BY <1>1 DEF BoundRows
  <2>3. s.engine.at \in Folders /\ s.db.user \in Users
    BY <1>1 DEF EngineStates, BoundRows
  <2>4. g \in [Folders -> Marks] /\ \A f \in Folders : g[f] = s.folder[f] \/ (f = s.engine.at /\ g[f] = s.db.user)
    BY <1>1, <2>3 DEF Marks
  <2> HIDE DEF d, g
  <2>5. /\ CheckRoot(s, refused) \in Snapshots /\ CheckRoot(s, refused).db = d
        /\ CheckRoot(s, refused).engine = s.engine /\ CheckRoot(s, refused).folder = g
    BY <2>1, <2>2, <2>4 DEF Snapshots
  <2> QED
    BY <1>4, <2>2, <2>4, <2>5 DEF Kin, Alike
<1> QED
  BY <1>2, <1>3, <1>4

(* _cleanup_after_sync_disabled only touches the database. *)
LEMMA CleanUpFacts ==
  ASSUME NEW u, NEW s \in Snapshots
  PROVE  /\ Kin(s, CleanUp(u, s)) /\ CleanUp(u, s).engine = s.engine /\ CleanUp(u, s).db.move = s.db.move
         /\ RootMissing(CleanUp(u, s)) => RootMissing(s)
<1>1. s.db \in BoundRows /\ s.engine \in EngineStates /\ s.folder \in [Folders -> Marks]
  BY Fields
<1>2. CASE u \in Alfresco /\ ~sync /\ s.db.conf
  <2> DEFINE d == [s.db EXCEPT !.root = FALSE, !.conf = FALSE]
  <2>1. CleanUp(u, s) = [s EXCEPT !.db = d]
    BY <1>1, <1>2 DEF CleanUp, Snapshots
  <2>2. d \in BoundRows /\ d.user = s.db.user /\ d.move = s.db.move
    BY <1>1 DEF BoundRows
  <2> HIDE DEF d
  <2>3. /\ CleanUp(u, s) \in Snapshots /\ CleanUp(u, s).db = d
        /\ CleanUp(u, s).engine = s.engine /\ CleanUp(u, s).folder = s.folder
    BY <2>1, <2>2 DEF Snapshots
  <2> QED
    BY <1>2, <2>2, <2>3 DEF Kin, Alike, RootMissing
<1>3. CASE ~(u \in Alfresco /\ ~sync /\ s.db.conf)
  BY <1>3 DEF CleanUp, Kin, Alike
<1> QED
  BY <1>2, <1>3

\* What an account that starts becomes.
Starts(s, t, refused) ==
    /\ t.engine.base = s.engine.base
    /\ ~t.engine.stopped /\ t.engine.paused = s.engine.paused /\ t.engine.queue = s.engine.queue
    /\ t.engine.loop \in {s.engine.loop, "on"}
    /\ t.engine.invalid => s.engine.invalid \/ (refused /\ RootMissing(s))
    /\ s.db.move = "suspended" => t.db.move = "ongoing"

(* Engine.start. *)
LEMMA StartFacts ==
  ASSUME NEW u, NEW s \in Snapshots, NEW refused \in BOOLEAN
  PROVE  Kin(s, StartEngine(u, s, refused)) /\ Starts(s, StartEngine(u, s, refused), refused)
<1>1. PICK c : c = CleanUp(u, s)
  OBVIOUS
<1>2. PICK r : r = CheckRoot(c, refused)
  OBVIOUS
<1>3. PICK d : d = Resumed(Unstaled(r.db))
  OBVIOUS
<1>4. PICK e : e = Started(r.engine)
  OBVIOUS
<1>5. c \in Snapshots /\ Kin(s, c) /\ c.engine = s.engine /\ c.db.move = s.db.move
      /\ (RootMissing(c) => RootMissing(s))
  BY <1>1, CleanUpFacts DEF Kin
<1>6. r \in Snapshots /\ Kin(c, r)
  BY <1>2, <1>5, CheckRootFacts DEF Kin
<1>7. r.db \in BoundRows /\ r.engine \in EngineStates /\ s.engine \in EngineStates /\ s.db \in BoundRows
  BY <1>6, Fields
<1>8. /\ r.engine.base = s.engine.base /\ r.engine.paused = s.engine.paused /\ r.engine.queue = s.engine.queue
      /\ r.engine.loop \in {"off", s.engine.loop}
      /\ r.engine.invalid => s.engine.invalid \/ (refused /\ RootMissing(s))
      /\ s.db.move = "suspended" => r.db.move = "suspended"
  <2>1. CASE refused /\ RootMissing(c)
    <3>1. r.db = Suspended(c.db) /\ r.engine = [Ended(s.engine) EXCEPT !.invalid = TRUE]
      BY <1>2, <1>5, <2>1, CheckRootFacts
    <3>2. /\ Ended(s.engine) \in EngineStates /\ Ended(s.engine).base = s.engine.base
          /\ Ended(s.engine).loop = "off"
          /\ Ended(s.engine).paused = s.engine.paused /\ Ended(s.engine).queue = s.engine.queue
      BY <1>7, EndedFacts
    <3>3. /\ r.engine.base = s.engine.base /\ r.engine.paused = s.engine.paused
          /\ r.engine.queue = s.engine.queue /\ r.engine.loop = "off"
      BY <3>1, <3>2, BarredFacts
    <3>4. c.db \in BoundRows
      BY <1>5, Fields
    <3>5. c.db.move = "suspended" => r.db.move = "suspended"
      BY <3>1, <3>4, RowFacts
    <3> QED
      BY <1>5, <2>1, <3>3, <3>5
  <2>2. CASE ~(refused /\ RootMissing(c))
    <3>1. r.engine = c.engine /\ r.db.move = c.db.move
      BY <1>2, <1>5, <2>2, CheckRootFacts
    <3> QED
      BY <1>5, <3>1
  <2> QED
    BY <2>1, <2>2
<1>9. Unstaled(r.db) \in BoundRows /\ Unstaled(r.db).user = r.db.user
      /\ (r.db.move # "ongoing" => Unstaled(r.db).move = r.db.move)
  BY <1>7, RowFacts
<1>10. d \in BoundRows /\ d.user = r.db.user /\ (r.db.move = "suspended" => d.move = "ongoing")
  BY <1>3, <1>9, RowFacts
<1>11. /\ e \in EngineStates /\ Alike(r.engine, e) /\ e.base = r.engine.base /\ ~e.stopped
       /\ e.loop = (IF r.engine.loop = "off" THEN "on" ELSE r.engine.loop)
       /\ e.paused = r.engine.paused /\ e.queue = r.engine.queue /\ e.invalid = r.engine.invalid
  BY <1>4, <1>7, StartedFacts
<1>12. PICK t : t = StartEngine(u, s, refused)
  OBVIOUS
<1>13. t \in Snapshots /\ t.db = d /\ t.engine = e /\ t.folder = r.folder
  BY <1>1, <1>2, <1>3, <1>4, <1>6, <1>10, <1>11, <1>12 DEF StartEngine, Snapshots
<1>14. Kin(r, t)
  BY <1>6, <1>10, <1>11, <1>13, Stays
<1>15. Kin(s, t)
  BY <1>5, <1>6, <1>14, KinIsTransitive
<1>16. Starts(s, t, refused)
  BY <1>8, <1>10, <1>11, <1>13 DEF Starts
<1> QED
  BY <1>12, <1>15, <1>16

\* What an account that goes on becomes.
Resumes(s, t, refused) ==
    /\ t.engine.base = s.engine.base
    /\ ~t.engine.stopped /\ ~t.engine.paused
    /\ ~s.engine.stopped => /\ t.engine.queue /\ t.engine.invalid = s.engine.invalid
                            /\ t.engine.loop # "off" => s.engine.loop # "off"
    /\ t.engine.invalid => s.engine.invalid \/ (refused /\ RootMissing(s))
    /\ s.db.move # "none" /\ (s.engine.stopped => s.db.move # "ongoing") => t.db.move # "none"

(* Engine.resume. *)
LEMMA ResumeFacts ==
  ASSUME NEW u, NEW s \in Snapshots, NEW refused \in BOOLEAN
  PROVE  Kin(s, Resume(u, s, refused)) /\ Resumes(s, Resume(u, s, refused), refused)
<1>1. PICK c : c = [s EXCEPT !.engine.paused = FALSE]
  OBVIOUS
<1>2. PICK t : t = Resume(u, s, refused)
  OBVIOUS
<1>3. PICK b : b = [s.engine EXCEPT !.paused = FALSE]
  OBVIOUS
<1>4. s.db \in BoundRows /\ s.engine \in EngineStates
  BY Fields
<1>5. /\ b \in EngineStates /\ Alike(s.engine, b) /\ b.base = s.engine.base /\ ~b.paused
      /\ b.stopped = s.engine.stopped /\ b.loop = s.engine.loop /\ b.invalid = s.engine.invalid
      /\ b.queue = s.engine.queue
  BY <1>3, <1>4, UnpausedFacts
<1>6. c = [s EXCEPT !.engine = b]
  BY <1>1, <1>3
<1>7. c \in Snapshots /\ c.db = s.db /\ c.engine = b /\ c.folder = s.folder
  BY <1>5, <1>6 DEF Snapshots
<1>8. Kin(s, c)
  BY <1>5, <1>7, Stays
<1>9. RootMissing(c) = RootMissing(s)
  BY <1>7 DEF RootMissing
<1>10. CASE s.engine.stopped
  <2>1. t = StartEngine(u, c, refused)
    BY <1>1, <1>2, <1>10 DEF Resume
  <2>2. /\ Kin(c, t) /\ t.engine.base = b.base /\ ~t.engine.stopped /\ t.engine.paused = b.paused
        /\ t.engine.invalid => b.invalid \/ (refused /\ RootMissing(c))
        /\ s.db.move = "suspended" => t.db.move = "ongoing"
    <3>1. Kin(c, t) /\ Starts(c, t, refused)
      BY <1>7, <2>1, StartFacts
    <3> QED
      BY <1>7, <3>1 DEF Starts
  <2>3. s.db.move # "none" /\ s.db.move # "ongoing" => s.db.move = "suspended"
    BY <1>4 DEF BoundRows
  <2>4. Kin(s, t)
    BY <1>8, <2>2, KinIsTransitive
  <2>5. Resumes(s, t, refused)
    BY <1>5, <1>9, <1>10, <2>2, <2>3 DEF Resumes
  <2> QED
    BY <1>2, <2>4, <2>5
<1>11. CASE ~s.engine.stopped
  <2>1. t = [c EXCEPT !.db = Resumed(@), !.engine = GoesOn(@)]
    BY <1>1, <1>2, <1>11 DEF Resume
  <2>2. PICK d : d = Resumed(s.db)
    OBVIOUS
  <2>3. PICK e : e = GoesOn(b)
    OBVIOUS
  <2>4. d \in BoundRows /\ d.user = s.db.user /\ d.move = (IF s.db.move = "suspended" THEN "ongoing" ELSE s.db.move)
    BY <1>4, <2>2, RowFacts
  <2>5. /\ e \in EngineStates /\ Alike(b, e) /\ e.base = b.base /\ e.queue
        /\ e.loop = (IF b.loop = "held" THEN "on" ELSE b.loop)
        /\ e.paused = b.paused /\ e.stopped = b.stopped /\ e.invalid = b.invalid
    BY <1>5, <2>3, GoesOnFacts
  <2>6. t \in Snapshots /\ t.db = d /\ t.engine = e /\ t.folder = c.folder
    BY <1>7, <2>1, <2>2, <2>3, <2>4, <2>5 DEF Snapshots
  <2>7. Kin(c, t)
    BY <1>7, <2>4, <2>5, <2>6, Stays
  <2>8. Kin(s, t)
    BY <1>8, <2>7, KinIsTransitive
  <2>9. Resumes(s, t, refused)
    BY <1>5, <1>11, <2>4, <2>5, <2>6 DEF Resumes
  <2> QED
    BY <1>2, <2>8, <2>9
<1> QED
  BY <1>10, <1>11

Barred(s, value) == [s EXCEPT !.engine.invalid = value]

(* set_invalid_credentials, step by step. *)
LEMMA BarredSnapshot ==
  ASSUME NEW s \in Snapshots, NEW value \in BOOLEAN
  PROVE  LET t == Barred(s, value) IN
         /\ Kin(s, t) /\ t.engine.base = s.engine.base /\ t.db = s.db /\ t.folder = s.folder
         /\ t.engine.invalid = value /\ t.engine.stopped = s.engine.stopped /\ t.engine.loop = s.engine.loop
         /\ t.engine.paused = s.engine.paused /\ t.engine.queue = s.engine.queue
<1>1. PICK t : t = Barred(s, value)
  OBVIOUS
<1>2. PICK e : e = [s.engine EXCEPT !.invalid = value]
  OBVIOUS
<1>3. s.engine \in EngineStates
  BY Fields
<1>4. /\ e \in EngineStates /\ Alike(s.engine, e) /\ e.base = s.engine.base /\ e.invalid = value
      /\ e.stopped = s.engine.stopped /\ e.loop = s.engine.loop
      /\ e.paused = s.engine.paused /\ e.queue = s.engine.queue
  BY <1>2, <1>3, BarredFacts
<1>5. t \in Snapshots /\ t.db = s.db /\ t.engine = e /\ t.folder = s.folder
  BY <1>1, <1>2, <1>4 DEF Barred, Snapshots
<1>6. Kin(s, t)
  BY <1>4, <1>5, Stays
<1> QED
  BY <1>1, <1>4, <1>5, <1>6

LEMMA RefusedOnce ==
  ASSUME NEW u, NEW x, ~engine[u].invalid
  PROVE  RefuseIf(u, x) = Barred(x, TRUE)
BY Zenon DEF RefuseIf, Barred

(* StartFacts, where the server does not refuse. *)
LEMMA StartIs ==
  ASSUME NEW u, NEW s \in Snapshots, NEW t, t = StartEngine(u, s, FALSE)
  PROVE  t \in Snapshots /\ Kin(s, t) /\ Starts(s, t, FALSE)
<1>1. FALSE \in BOOLEAN
  BY Zenon
<1>2. Kin(s, StartEngine(u, s, FALSE)) /\ Starts(s, StartEngine(u, s, FALSE), FALSE)
  BY <1>1, StartFacts, Zenon
<1>3. Kin(s, t) /\ Starts(s, t, FALSE)
  BY <1>2, Zenon
<1> QED
  BY <1>3 DEF Kin

(* Refused credentials stop the engine (Engine.set_invalid_credentials). *)
LEMMA RefuseFacts ==
  ASSUME NEW u, State(u) \in Snapshots
  PROVE  LET s == State(u)
             t == Refuse(u) IN
         /\ Kin(s, t) /\ t.engine.base = s.engine.base /\ t.folder = s.folder
         /\ t.engine.paused = s.engine.paused /\ t.engine.queue = s.engine.queue
         /\ s.engine.invalid => t = s
         /\ ~s.engine.invalid => t.engine.loop = "off" /\ t.db = Suspended(s.db)
<1>1. PICK s \in Snapshots : s = State(u)
  OBVIOUS
<1>2. s.engine \in EngineStates
  BY Fields
<1>3. CASE s.engine.invalid
  <2>1. Refuse(u) = s
    BY <1>1, <1>3 DEF Refuse, RefuseIf, State
  <2> QED
    BY <1>1, <1>3, <2>1 DEF Kin, Alike
<1>4. CASE ~s.engine.invalid
  <2>0. ~engine[u].invalid
    BY <1>1, <1>4 DEF State
  <2>1. Refuse(u) = Barred(Stop(s), TRUE)
    <3>1. Refuse(u) = RefuseIf(u, Stop(s))
      BY <1>1, Zenon DEF Refuse
    <3> QED
      BY <2>0, <3>1, RefusedOnce, Zenon
  <2>2. Stop(s) \in Snapshots /\ Kin(s, Stop(s)) /\ Stop(s).engine = Ended(s.engine)
        /\ Stop(s).db = Suspended(s.db) /\ Stop(s).folder = s.folder
    BY StopFacts DEF Kin
  <2>3. /\ Ended(s.engine).base = s.engine.base /\ Ended(s.engine).loop = "off"
        /\ Ended(s.engine).paused = s.engine.paused /\ Ended(s.engine).queue = s.engine.queue
    BY <1>2, EndedFacts
  <2>4. PICK c \in Snapshots : c = Stop(s)
    BY <2>2
  <2>5. PICK t : t = Barred(c, TRUE)
    OBVIOUS
  <2>6. /\ Kin(c, t) /\ t.engine.base = c.engine.base /\ t.db = c.db /\ t.folder = c.folder
        /\ t.engine.loop = c.engine.loop
        /\ t.engine.paused = c.engine.paused /\ t.engine.queue = c.engine.queue
    BY <2>5, BarredSnapshot, Zenon
  <2>7. Kin(s, t)
    BY <2>2, <2>4, <2>6, KinIsTransitive
  <2>8. Refuse(u) = t
    BY <2>1, <2>4, <2>5, Zenon
  <2> QED
    BY <1>1, <1>4, <2>2, <2>3, <2>4, <2>6, <2>7, <2>8
<1> QED
  BY <1>3, <1>4

(* The sign in of an Alfresco account: stopped, then started. *)
LEMMA ReloginFacts ==
  ASSUME NEW u, NEW s \in Snapshots
  PROVE  LET t == [StartEngine(u, Stop(Barred(s, FALSE)), FALSE) EXCEPT !.engine.queue = TRUE] IN
         /\ Kin(s, t) /\ t.engine.base = s.engine.base /\ t.engine.paused = s.engine.paused /\ t.engine.queue
         /\ ~t.engine.stopped /\ ~t.engine.invalid
         /\ s.db.move # "none" => t.db.move # "none"
<1>1. PICK b : b = Barred(s, FALSE)
  OBVIOUS
<1>2. PICK c : c = Stop(b)
  OBVIOUS
<1>3. PICK r : r = StartEngine(u, c, FALSE)
  OBVIOUS
<1>4. PICK t : t = [r EXCEPT !.engine.queue = TRUE]
  OBVIOUS
<1>5. /\ b \in Snapshots /\ Kin(s, b) /\ b.engine.base = s.engine.base /\ b.db = s.db
      /\ ~b.engine.invalid /\ b.engine.paused = s.engine.paused
  BY <1>1, BarredSnapshot DEF Kin
<1>6. b.engine \in EngineStates /\ b.db \in BoundRows
  BY <1>5, Fields
<1>7. c \in Snapshots /\ Kin(b, c) /\ c.db = Suspended(b.db) /\ c.engine = Ended(b.engine)
  BY <1>2, <1>5, StopFacts DEF Kin
<1>8. /\ c.engine.base = b.engine.base /\ c.engine.paused = b.engine.paused
      /\ c.engine.invalid = b.engine.invalid
  BY <1>6, <1>7, EndedFacts
<1>9. b.db.move # "none" => c.db.move = "suspended"
  BY <1>6, <1>7, RowFacts DEF BoundRows
<1>10. /\ r \in Snapshots /\ Kin(c, r) /\ r.engine.base = c.engine.base /\ ~r.engine.stopped
       /\ r.engine.paused = c.engine.paused /\ (r.engine.invalid => c.engine.invalid)
       /\ (c.db.move = "suspended" => r.db.move = "ongoing")
  <2>1. r \in Snapshots /\ Kin(c, r) /\ Starts(c, r, FALSE)
    BY <1>3, <1>7, StartIs, Zenon
  <2> QED
    BY <2>1 DEF Starts
<1>11. PICK e : e = [r.engine EXCEPT !.queue = TRUE]
  OBVIOUS
<1>12. r.engine \in EngineStates
  BY <1>10, Fields
<1>13. /\ e \in EngineStates /\ Alike(r.engine, e) /\ e.base = r.engine.base /\ e.queue
       /\ e.stopped = r.engine.stopped /\ e.paused = r.engine.paused /\ e.invalid = r.engine.invalid
  BY <1>11, <1>12 DEF EngineStates, Alike
<1>14. t \in Snapshots /\ t.db = r.db /\ t.engine = e /\ t.folder = r.folder
  BY <1>4, <1>10, <1>11, <1>13 DEF Snapshots
<1>15. Kin(r, t)
  BY <1>10, <1>13, <1>14, Stays
<1>16. Kin(s, t)
  BY <1>5, <1>7, <1>10, <1>15, KinIsTransitive
<1>17. /\ t.engine.base = s.engine.base /\ t.engine.paused = s.engine.paused /\ t.engine.queue
       /\ ~t.engine.stopped /\ ~t.engine.invalid
       /\ s.db.move # "none" => t.db.move # "none"
  BY <1>5, <1>8, <1>9, <1>10, <1>13, <1>14
<1>18. t = [StartEngine(u, Stop(Barred(s, FALSE)), FALSE) EXCEPT !.engine.queue = TRUE]
  BY <1>1, <1>2, <1>3, <1>4
<1> QED
  BY <1>16, <1>17, <1>18

(* reinit, then start, twice when the engine was started. *)
LEMMA RecreatedFacts ==
  ASSUME NEW u, NEW s \in Snapshots, ~s.engine.stopped
  PROVE  LET t == Recreated(u, s) IN
         /\ Kin(s, t) /\ t.engine.base = s.engine.base
         /\ t.engine.paused = s.engine.paused /\ t.engine.queue = s.engine.queue
         /\ t.engine.stopped => t.db.move # "ongoing"
<1>1. PICK c : c = Stop(s)
  OBVIOUS
<1>2. s.engine \in EngineStates /\ s.db \in BoundRows
  BY Fields
<1>3. c \in Snapshots /\ Kin(s, c) /\ c.db = Suspended(s.db) /\ c.engine = Ended(s.engine)
  BY <1>1, StopFacts DEF Kin
<1>4. c.engine.base = s.engine.base /\ c.engine.paused = s.engine.paused /\ c.engine.queue = s.engine.queue
  BY <1>2, <1>3, EndedFacts
<1>5. c.db.move # "ongoing"
  BY <1>2, <1>3, RowFacts DEF BoundRows
<1>6. PICK d : d = [c.db EXCEPT !.root = @ /\ ~sync]
  OBVIOUS
<1>7. PICK g : g = [c.folder EXCEPT ![s.engine.base] =
                      IF sync /\ s.db.conf /\ c.folder[s.engine.base] = "absent" THEN "plain" ELSE c.folder[s.engine.base]]
  OBVIOUS
<1>8. PICK r : r = [c EXCEPT !.db.root = @ /\ ~sync, !.folder = g]
  OBVIOUS
<1>9. c.db \in BoundRows /\ c.folder \in [Folders -> Marks] /\ s.engine.base \in Folders
  BY <1>2, <1>3, Fields DEF EngineStates
<1>10. d \in BoundRows /\ d.user = c.db.user /\ d.move = c.db.move
  BY <1>6, <1>9 DEF BoundRows
<1>11. g \in [Folders -> Marks] /\ \A f \in Folders : g[f] = c.folder[f] \/ g[f] \notin Users
  BY <1>7, <1>9, MarksAssumption DEF Marks
<1>13. r \in Snapshots /\ r.db = d /\ r.engine = c.engine /\ r.folder = g
  BY <1>3, <1>6, <1>8, <1>10, <1>11 DEF Snapshots
<1>14. Kin(c, r)
  BY <1>10, <1>11, <1>13 DEF Kin, Alike
<1>15. PICK p : p = StartEngine(u, r, FALSE)
  OBVIOUS
<1>16. /\ p \in Snapshots /\ Kin(r, p) /\ p.engine.base = r.engine.base /\ ~p.engine.stopped
       /\ p.engine.paused = r.engine.paused /\ p.engine.queue = r.engine.queue
  <2>1. p \in Snapshots /\ Kin(r, p) /\ Starts(r, p, FALSE)
    BY <1>13, <1>15, StartIs, Zenon
  <2> QED
    BY <2>1 DEF Starts
<1>17. PICK q : q = StartEngine(u, p, FALSE)
  OBVIOUS
<1>18. /\ q \in Snapshots /\ Kin(p, q) /\ q.engine.base = p.engine.base /\ ~q.engine.stopped
       /\ q.engine.paused = p.engine.paused /\ q.engine.queue = p.engine.queue
  <2>1. q \in Snapshots /\ Kin(p, q) /\ Starts(p, q, FALSE)
    BY <1>16, <1>17, StartIs, Zenon
  <2> QED
    BY <2>1 DEF Starts
<1>19. Recreated(u, s) \in {r, q}
  BY <1>1, <1>7, <1>8, <1>15, <1>17 DEF Recreated
<1>20. Kin(s, r) /\ Kin(s, q)
  BY <1>3, <1>14, <1>16, <1>18, KinIsTransitive
<1> QED
  BY <1>4, <1>5, <1>10, <1>13, <1>16, <1>18, <1>19, <1>20

-------------------------------------------------------------------------------
(* The engines of the application                                            *)

\* Shape: the type of the state, and of its history.
Shape == TypeOK /\ why = [u \in Uids |-> why[u]] /\ \A u \in Running : db[u].user \in Users

\* What a step of the engines is to the rest of the application.
Turn ==
    /\ db' \in [Uids -> Rows \cup {None}] /\ engine' \in [Uids -> EngineStates \cup {None}]
    /\ folder' \in [Folders -> Marks]
    /\ \A u \in Uids \ Running : db'[u] = db[u] /\ engine'[u] = None
    /\ \A u \in Running : /\ db'[u] \in BoundRows /\ engine'[u] \in EngineStates
                          /\ db'[u].user = db[u].user \/ "another user" \in why'[u]
                          /\ engine'[u].at = engine[u].at /\ engine'[u].base = engine[u].base
    /\ \A f \in Folders : \/ folder'[f] = folder[f] \/ folder'[f] \notin Users
                          \/ \E u \in Running : f = engine[u].at /\ folder'[f] = db[u].user
\* What an account may become: another user is possible.
Near(u, t) ==
    /\ t \in Snapshots /\ Alike(engine[u], t.engine) /\ t.engine.base = engine[u].base
    /\ \A f \in Folders : \/ t.folder[f] = folder[f] \/ t.folder[f] \notin Users
                          \/ f = engine[u].at /\ t.folder[f] = db[u].user

(* None is no engine, no row, no folder, no user. *)
LEMMA Apart ==
  /\ None \notin EngineStates /\ None \notin Rows /\ None \notin Folders /\ None \notin Users /\ None \notin Doings
  /\ \A d \in Rows : d.user \in Users => d \in BoundRows
  /\ BoundRows \subseteq Rows
BY NilAssumption DEF Rows, BoundRows

(* The state of an account is a snapshot. *)
LEMMA StateFacts ==
  ASSUME Shape, NEW u \in Running
  PROVE  /\ State(u) \in Snapshots
         /\ State(u).db = db[u] /\ State(u).engine = engine[u] /\ State(u).folder = folder
         /\ db[u] \in BoundRows /\ engine[u] \in EngineStates /\ u \in Uids
<1>1. u \in Uids /\ engine[u] # None
  BY DEF Running
<1>2. engine[u] \in EngineStates
  BY <1>1 DEF Shape, TypeOK
<1>3. db[u] \in Rows /\ db[u].user \in Users
  BY <1>1 DEF Shape, TypeOK
<1>4. db[u] \in BoundRows
  BY <1>3, Apart
<1>5. folder \in [Folders -> Marks]
  BY DEF Shape, TypeOK, Marks
<1> QED
  BY <1>1, <1>2, <1>4, <1>5 DEF State, Snapshots

(* What a step of an engine makes of its account is near it. *)
LEMMA KinIsNear ==
  ASSUME Shape, NEW u \in Running, NEW t, Kin(State(u), t), t.engine.base = engine[u].base
  PROVE  Near(u, t) /\ t.db.user = db[u].user
<1>1. State(u).db = db[u] /\ State(u).engine = engine[u] /\ State(u).folder = folder
  BY StateFacts
<1> QED
  BY <1>1 DEF Kin, Near

LEMMA NearFacts ==
  ASSUME Shape, NEW u \in Running, NEW t, Near(u, t)
  PROVE  /\ t.db \in BoundRows /\ t.db \in Rows /\ t.engine \in EngineStates /\ t.folder \in [Folders -> Marks]
         /\ t.engine # None
         /\ t.engine.at = engine[u].at /\ t.engine.sends = engine[u].sends /\ t.engine.base = engine[u].base
         /\ \A f \in Folders : \/ t.folder[f] = folder[f] \/ t.folder[f] \notin Users
                               \/ f = engine[u].at /\ t.folder[f] = db[u].user
<1>1. t \in Snapshots
  BY DEF Near
<1>2. t.db \in BoundRows /\ t.engine \in EngineStates /\ t.folder \in [Folders -> Marks]
  BY <1>1, Fields
<1>3. t.db \in Rows /\ t.engine # None
  BY <1>2, Apart
<1> QED
  BY <1>2, <1>3 DEF Near, Alike

(* All the engines at once: what a folder becomes. *)
LEMMA SetAllFolders ==
  ASSUME NEW S, SetAll(S)
  PROVE  /\ folder' = [f \in Folders |-> folder'[f]]
         /\ \A f \in Folders : folder'[f] = folder[f] \/ \E u \in Running : folder'[f] = S[u].folder[f]
<1>1. folder' = [f \in Folders |-> folder'[f]]
  BY DEF SetAll
<1>2. ASSUME NEW f \in Folders
      PROVE  folder'[f] = folder[f] \/ \E u \in Running : folder'[f] = S[u].folder[f]
  BY DEF SetAll
<1> QED
  BY <1>1, <1>2

(* All the engines at once: a turn. *)
LEMMA SetAllTurn ==
  ASSUME Shape, NEW S, SetAll(S), \A u \in Running : Near(u, S[u]),
         \A u \in Running : S[u].db.user = db[u].user \/ "another user" \in why'[u]
  PROVE  Turn
<1>1. \A u \in Running : u \in Uids
  BY DEF Running
<1>2. \A u \in Running : db'[u] = S[u].db /\ engine'[u] = S[u].engine
  BY <1>1 DEF SetAll
<1>3. \A u \in Running : /\ S[u].db \in BoundRows /\ S[u].db \in Rows /\ S[u].engine \in EngineStates
                         /\ S[u].engine # None /\ S[u].folder \in [Folders -> Marks]
                         /\ S[u].engine.at = engine[u].at /\ S[u].engine.base = engine[u].base
  BY NearFacts
<1>4. db' \in [Uids -> Rows \cup {None}] /\ engine' \in [Uids -> EngineStates \cup {None}]
  <2>1. db \in [Uids -> Rows \cup {None}]
    BY DEF Shape, TypeOK
  <2> QED
    BY <1>3, <2>1 DEF SetAll
<1>5. \A u \in Uids \ Running : db'[u] = db[u] /\ engine'[u] = None
  BY DEF SetAll
<1>6. ASSUME NEW f \in Folders
      PROVE  folder'[f] = folder[f] \/ \E u \in Running : folder'[f] = S[u].folder[f]
  BY SetAllFolders
<1>7. folder' \in [Folders -> Marks]
  <2>1. folder \in [Folders -> Marks]
    BY DEF Shape, TypeOK, Marks
  <2>2. \A f \in Folders : folder'[f] \in Marks
    BY <1>3, <1>6, <2>1
  <2>3. folder' = [f \in Folders |-> folder'[f]]
    BY SetAllFolders
  <2> QED
    BY <2>2, <2>3
<1>8. ASSUME NEW f \in Folders
      PROVE  \/ folder'[f] = folder[f] \/ folder'[f] \notin Users
             \/ \E u \in Running : f = engine[u].at /\ folder'[f] = db[u].user
  <2>1. CASE folder'[f] = folder[f]
    BY <2>1
  <2>2. CASE \E u \in Running : folder'[f] = S[u].folder[f]
    <3>1. PICK u \in Running : folder'[f] = S[u].folder[f]
      BY <2>2
    <3> QED
      BY <3>1 DEF Near
  <2> QED
    BY <1>6, <2>1, <2>2
<1> QED
  <2>1. \A u \in Running : /\ db'[u] \in BoundRows /\ engine'[u] \in EngineStates
                           /\ db'[u].user = db[u].user \/ "another user" \in why'[u]
                           /\ engine'[u].at = engine[u].at /\ engine'[u].base = engine[u].base
    BY <1>2, <1>3
  <2> QED
    BY <1>4, <1>5, <1>7, <1>8, <2>1 DEF Turn

(* One engine: a turn. *)
LEMMA SetFacts ==
  ASSUME Shape, NEW u \in Running, NEW t, Set(u, t), Near(u, t), t.db.user = db[u].user
  PROVE  /\ Turn /\ db'[u] = t.db /\ engine'[u] = t.engine
         /\ \A v \in Uids \ {u} : db'[v] = db[v] /\ engine'[v] = engine[v]
<1>1. u \in Uids
  BY DEF Running
<1>2. /\ t.db \in BoundRows /\ t.db \in Rows /\ t.engine \in EngineStates /\ t.folder \in [Folders -> Marks]
      /\ t.engine.at = engine[u].at /\ t.engine.base = engine[u].base
      /\ \A f \in Folders : \/ t.folder[f] = folder[f] \/ t.folder[f] \notin Users
                            \/ f = engine[u].at /\ t.folder[f] = db[u].user
  BY NearFacts
<1>3. db \in [Uids -> Rows \cup {None}] /\ engine \in [Uids -> EngineStates \cup {None}]
  BY DEF Shape, TypeOK
<1>4. db' = [db EXCEPT ![u] = t.db] /\ engine' = [engine EXCEPT ![u] = t.engine] /\ folder' = t.folder
  BY DEF Set
<1>5. /\ db'[u] = t.db /\ engine'[u] = t.engine
      /\ \A v \in Uids \ {u} : db'[v] = db[v] /\ engine'[v] = engine[v]
      /\ db' \in [Uids -> Rows \cup {None}] /\ engine' \in [Uids -> EngineStates \cup {None}]
  BY <1>1, <1>2, <1>3, <1>4
<1>6. ASSUME NEW v \in Running
      PROVE  db[v] \in BoundRows /\ engine[v] \in EngineStates /\ v \in Uids
  BY StateFacts
<1>7. ASSUME NEW v \in Uids \ Running
      PROVE  db'[v] = db[v] /\ engine'[v] = None
  BY <1>5 DEF Running
<1>8. ASSUME NEW v \in Running
      PROVE  /\ db'[v] \in BoundRows /\ engine'[v] \in EngineStates
             /\ db'[v].user = db[v].user
             /\ engine'[v].at = engine[v].at /\ engine'[v].base = engine[v].base
  BY <1>2, <1>5, <1>6
<1> QED
  BY <1>2, <1>4, <1>5, <1>7, <1>8 DEF Turn

-------------------------------------------------------------------------------
(* The invariant                                                             *)

\* An engine, when the application is suspended or not; r is what has been done to its account.
EngineFits(e, r, paused) ==
    /\ e.invalid /\ e.loop # "off" => r \cap {"launched", "resumed", "recreated", "moved", "chosen", "root"} # {}
    /\ paused /\ e.loop = "on" => r \cap {"already", "token", "relogin", "recreated", "moved", "chosen"} # {}
    /\ ~paused /\ e.paused => r \cap {"bound", "full"} # {}
    /\ ~e.paused /\ ~e.queue => "resumed" \in r
EnginesInv == \A u \in Running : EngineFits(engine[u], why[u], mode.paused)

TransferFits(e, d, r) ==
    e.sends => /\ d.move # "none" \/ r \cap {"twice", "recreated"} # {}
               /\ e.stopped => d.move # "ongoing"
TransfersInv == \A u \in Running : TransferFits(engine[u], db[u], why[u])

Binds(u) == doing # None /\ doing.what = "bind" /\ doing.uid = u
Can(u) == db[u] # None /\ (db[u].user # None \/ Binds(u))
Cut == {"crashed", "restored"}
PresenceInv ==
    /\ \A u \in Uids : /\ aside[u] # None => db[u] = None /\ "lost" \in why[u]
                       /\ engine[u] # None => row[u] # None
                       /\ row[u] # None /\ engine[u] = None =>
                            \/ life # "up" /\ Loadable(u)
                            \/ doing # None /\ doing.uid = u
                            \/ why[u] \cap Strange # {}
                       /\ row[u] # None /\ db[u] # None /\ db[u].user = None => Binds(u) \/ why[u] \cap Cut # {}
                       /\ row[u] # None /\ aside[u] # None /\ aside[u].user = None => why[u] \cap Cut # {}
    /\ doing # None => /\ life = "up" /\ engine[doing.uid] = None /\ row[doing.uid] # None
                       /\ doing.what = "bind" => db[doing.uid] # None
                       /\ doing.what = "unbind" => db[doing.uid] = None

OwnInv == \A u \in Running : (engine[u].base = row[u] /\ engine[u].at = row[u]) \/ "moved" \in why[u]

Displaced == {"moved", "lost", "restored"}
ApartInv ==
    /\ life = "up" => \A u \in Uids : row[u] # None /\ Can(u) /\ ~Binds(u) => defs[u] = row[u] \/ "moved" \in why[u]
    /\ \A u, v \in Uids : u # v /\ row[u] # None /\ row[v] # None /\ Overlap(row[u], row[v]) /\ Can(u) /\ Can(v)
          => (why[u] \cup why[v]) \cap Displaced # {}
    /\ \A u, v \in Uids : u # v /\ row[u] # None /\ row[u] = row[v] => Shuffled

Theirs(f, d) == d # None /\ d.user # None /\ HasMark(f) => folder[f] = d.user
Excused == {"another user", "unchecked"}
MarkInv ==
    \A u \in Uids : row[u] # None =>
       why[u] \cap Excused # {} \/ Shuffled \/ (Theirs(row[u], db[u]) /\ Theirs(row[u], aside[u]))
FailInv == life = "failed" => Shuffled \/ \E u \in Uids : why[u] \cap (Excused \cup {"crashed"}) # {}

\* What does not look at what an engine does.
RestInv == Shape /\ PresenceInv /\ OwnInv /\ ApartInv /\ MarkInv /\ FailInv
AccountsInv == RestInv /\ EnginesInv /\ TransfersInv

Grows == why' = [u \in Uids |-> why'[u]] /\ \A u \in Uids : why[u] \subseteq why'[u]
EngineStep ==
    /\ Turn /\ Grows /\ UNCHANGED <<life, row, saved, aside, doing, defs>>
    /\ mode' \in [paused : BOOLEAN, restart : BOOLEAN, first : BOOLEAN, crashed : BOOLEAN]
    /\ sync' \in BOOLEAN /\ pending' \subseteq Uids

(* What has been shuffled stays so. *)
LEMMA ShuffledGrows ==
  ASSUME Grows, Shuffled
  PROVE  Shuffled'
BY DEF Grows, Shuffled

(* What the engines do keeps what does not look at what an engine does. *)
LEMMA EngineStepKeeps ==
  ASSUME RestInv, EngineStep
  PROVE  RestInv' /\ Running' = Running
<1>1. Running' = Running /\ \A u \in Uids : engine'[u] # None <=> engine[u] # None
  <2>1. \A u \in Uids \ Running : engine'[u] = None
    BY DEF EngineStep, Turn
  <2>2. \A u \in Running : engine'[u] \in EngineStates /\ engine'[u] # None
    BY Apart DEF EngineStep, Turn
  <2> QED
    BY <2>1, <2>2 DEF Running
<1>2. \A u \in Running : u \in Uids /\ db[u] # None /\ db[u].user # None /\ db'[u] # None /\ db'[u].user # None
                         /\ (db'[u].user = db[u].user \/ "another user" \in why'[u])
                         /\ db'[u] \in BoundRows /\ db'[u].user \in Users
  <2>1. \A u \in Running : u \in Uids
    BY DEF Running
  <2>2. \A u \in Running : db[u] # None /\ db[u].user \in Users
    BY DEF RestInv, Shape, TypeOK
  <2>3. \A d \in BoundRows : d # None
    BY Apart
  <2> QED
    <3>1. \A u \in Running : db'[u] \in BoundRows /\ (db'[u].user = db[u].user \/ "another user" \in why'[u])
      BY DEF EngineStep, Turn
    <3>2. \A d \in BoundRows : d.user \in Users /\ d.user # None
      BY Apart DEF BoundRows
    <3> QED
      BY <2>1, <2>2, <2>3, <3>1, <3>2, Apart
<1>3. \A u \in Uids : /\ db'[u] # None <=> db[u] # None
                      /\ db[u] # None => /\ db'[u].user = None <=> db[u].user = None
                                         /\ db'[u].user = db[u].user \/ "another user" \in why'[u]
  <2>1. \A u \in Uids \ Running : db'[u] = db[u]
    BY DEF EngineStep, Turn
  <2> QED
    BY <1>2, <2>1
<1>4. Shape'
  <2>1. TypeOK'
    BY <1>1, <1>2 DEF RestInv, Shape, TypeOK, EngineStep, Turn, Marks
  <2>2. \A u \in Running' : db'[u].user \in Users
    BY <1>1, <1>2 DEF RestInv, Shape
  <2> QED
    BY <2>1, <2>2 DEF Shape, EngineStep, Grows
<1>5. \A u \in Uids : Binds(u)' = Binds(u) /\ Can(u)' = Can(u) /\ Loadable(u)' = Loadable(u)
  BY <1>3 DEF EngineStep, Binds, Can, Loadable, Sound
<1>6. PresenceInv'
  <2>1. \A u \in Uids : why[u] \cap Strange # {} => why'[u] \cap Strange # {}
    BY DEF EngineStep, Grows
  <2>2. \A u \in Uids : why[u] \cap Cut # {} => why'[u] \cap Cut # {}
    BY DEF EngineStep, Grows
  <2>3. \A u \in Uids : /\ aside'[u] # None => db'[u] = None /\ "lost" \in why'[u]
                        /\ engine'[u] # None => row'[u] # None
    BY <1>1, <1>3 DEF RestInv, PresenceInv, EngineStep, Grows
  <2>4. \A u \in Uids : row'[u] # None /\ engine'[u] = None =>
                            \/ life' # "up" /\ Loadable(u)'
                            \/ doing' # None /\ doing'.uid = u
                            \/ why'[u] \cap Strange # {}
    BY <1>1, <1>5, <2>1 DEF RestInv, PresenceInv, EngineStep
  <2>5. \A u \in Uids : /\ row'[u] # None /\ db'[u] # None /\ db'[u].user = None =>
                             Binds(u)' \/ why'[u] \cap Cut # {}
                        /\ row'[u] # None /\ aside'[u] # None /\ aside'[u].user = None => why'[u] \cap Cut # {}
    BY <1>3, <1>5, <2>2 DEF RestInv, PresenceInv, EngineStep
  <2>6. doing' # None => /\ life' = "up" /\ engine'[doing'.uid] = None /\ row'[doing'.uid] # None
                         /\ doing'.what = "bind" => db'[doing'.uid] # None
                         /\ doing'.what = "unbind" => db'[doing'.uid] = None
    <3>1. doing # None => doing.uid \in Uids
      BY DEF RestInv, Shape, TypeOK, Doings
    <3> QED
      BY <1>1, <1>3, <3>1 DEF RestInv, PresenceInv, EngineStep
  <2> QED
    BY <2>3, <2>4, <2>5, <2>6 DEF PresenceInv, Cut, Strange
<1>7. OwnInv'
  BY <1>1, <1>2 DEF RestInv, OwnInv, EngineStep, Turn, Grows
<1>8. ApartInv'
  <2>1. Shuffled => Shuffled'
    BY ShuffledGrows DEF EngineStep
  <2>2. \A u, v \in Uids : (why[u] \cup why[v]) \cap Displaced # {} => (why'[u] \cup why'[v]) \cap Displaced # {}
    BY DEF EngineStep, Grows
  <2>3. life' = "up" => \A u \in Uids : row'[u] # None /\ Can(u)' /\ ~Binds(u)' =>
                                           defs'[u] = row'[u] \/ "moved" \in why'[u]
    BY <1>5 DEF RestInv, ApartInv, EngineStep, Grows
  <2>4. \A u, v \in Uids : u # v /\ row'[u] # None /\ row'[v] # None /\ Overlap(row'[u], row'[v]) /\ Can(u)' /\ Can(v)'
          => (why'[u] \cup why'[v]) \cap Displaced # {}
    BY <1>5, <2>2 DEF RestInv, ApartInv, EngineStep
  <2>5. \A u, v \in Uids : u # v /\ row'[u] # None /\ row'[u] = row'[v] => Shuffled'
    BY <2>1 DEF RestInv, ApartInv, EngineStep
  <2> QED
    BY <2>3, <2>4, <2>5 DEF ApartInv, Overlap
<1>9. MarkInv'
  <2>1. Shuffled => Shuffled'
    BY ShuffledGrows DEF EngineStep
  <2>2. \A u \in Uids : why[u] \cap Excused # {} => why'[u] \cap Excused # {}
    BY DEF EngineStep, Grows
  <2>3. ASSUME NEW u \in Uids, row[u] # None, ~Shuffled', why'[u] \cap Excused = {}
        PROVE  Theirs(row[u], db[u])' /\ Theirs(row[u], aside[u])'
    <3>1. Theirs(row[u], db[u]) /\ Theirs(row[u], aside[u]) /\ ~Shuffled
      BY <2>1, <2>2, <2>3 DEF RestInv, MarkInv
    <3>2. row[u] \in Folders /\ row'[u] = row[u] /\ aside'[u] = aside[u]
      BY <2>3 DEF RestInv, Shape, TypeOK, EngineStep
    <3>3. CASE folder'[row[u]] = folder[row[u]] \/ folder'[row[u]] \notin Users
      <4>1. /\ db'[u] # None <=> db[u] # None
            /\ db[u] # None => (db'[u].user = None <=> db[u].user = None) /\ db'[u].user = db[u].user
        BY <1>3, <2>3 DEF Excused
      <4>2. folder'[row[u]] \in Users => folder'[row[u]] = folder[row[u]]
        BY <3>3
      <4> QED
        BY <3>1, <3>2, <4>1, <4>2 DEF Theirs, HasMark
    <3>4. CASE \E v \in Running : row[u] = engine[v].at /\ folder'[row[u]] = db[v].user
      <4>1. PICK v \in Running : row[u] = engine[v].at /\ folder'[row[u]] = db[v].user
        BY <3>4
      <4>2. v \in Uids
        BY DEF Running
      <4>3. "moved" \notin why[v]
        BY <3>1, <4>2 DEF Shuffled
      <4>4. row[v] = row[u]
        BY <4>1, <4>3 DEF RestInv, OwnInv
      <4>5. u = v
        BY <2>3, <3>1, <4>2, <4>4 DEF RestInv, ApartInv
      <4>6. aside[u] = None
        BY <1>2, <4>5 DEF RestInv, PresenceInv
      <4> QED
        <5>1. db'[u].user = db[u].user
          BY <1>2, <2>3, <4>5 DEF Excused
        <5> QED
          BY <3>2, <4>1, <4>5, <4>6, <5>1 DEF Theirs, HasMark
    <3> QED
      BY <3>2, <3>3, <3>4 DEF EngineStep, Turn
  <2> QED
    BY <2>3 DEF MarkInv, EngineStep, Excused
<1>10. FailInv'
  <2>1. Shuffled => Shuffled'
    BY ShuffledGrows DEF EngineStep
  <2>2. \A u \in Uids : why[u] \cap (Excused \cup {"crashed"}) # {} => why'[u] \cap (Excused \cup {"crashed"}) # {}
    BY DEF EngineStep, Grows
  <2> QED
    BY <2>1, <2>2 DEF RestInv, FailInv, EngineStep, Excused
<1> QED
  BY <1>1, <1>4, <1>6, <1>7, <1>8, <1>9, <1>10 DEF RestInv

-------------------------------------------------------------------------------
(* What the engines do                                                       *)

ModeType == mode' \in [paused : BOOLEAN, restart : BOOLEAN, first : BOOLEAN, crashed : BOOLEAN]
Elsewhere == UNCHANGED <<life, row, saved, aside, doing, defs>>

(* A step of all the engines keeps the invariant if each fits after it. *)
LEMMA AllKeeps ==
  ASSUME AccountsInv, Elsewhere, Grows, ModeType, sync' \in BOOLEAN, pending' \subseteq Uids,
         NEW S, SetAll(S),
         \A u \in Running : /\ Near(u, S[u]) /\ (S[u].db.user = db[u].user \/ "another user" \in why'[u])
                            /\ EngineFits(S[u].engine, why'[u], mode'.paused)
                            /\ TransferFits(S[u].engine, S[u].db, why'[u])
  PROVE  AccountsInv'
<1>1. Shape
  BY DEF AccountsInv, RestInv
<1>2. Turn /\ \A u \in Running : db'[u] = S[u].db /\ engine'[u] = S[u].engine
  <2>1. \A u \in Running : Near(u, S[u])
    OBVIOUS
  <2>2. \A u \in Running : S[u].db.user = db[u].user \/ "another user" \in why'[u]
    OBVIOUS
  <2>3. \A u \in Running : db'[u] = S[u].db /\ engine'[u] = S[u].engine
    BY DEF SetAll, Running
  <2>4. Turn
    BY <1>1, <2>1, <2>2, SetAllTurn, Zenon
  <2> QED
    BY <2>3, <2>4
<1>3. EngineStep
  BY <1>2 DEF EngineStep, Elsewhere, ModeType
<1>4. RestInv' /\ Running' = Running
  BY <1>3, EngineStepKeeps DEF AccountsInv
<1>5. EnginesInv' /\ TransfersInv'
  BY <1>2, <1>4 DEF EnginesInv, TransfersInv
<1> QED
  BY <1>4, <1>5 DEF AccountsInv

(* A step of one engine keeps the invariant if it fits after it. *)
LEMMA OneKeeps ==
  ASSUME AccountsInv, Elsewhere, Grows, UNCHANGED <<mode, sync>>, pending' \subseteq Uids,
         NEW u \in Running, NEW t, Set(u, t), Kin(State(u), t), t.engine.base = engine[u].base,
         EngineFits(t.engine, why'[u], mode.paused), TransferFits(t.engine, t.db, why'[u])
  PROVE  AccountsInv'
<1>1. Shape /\ mode.paused \in BOOLEAN
  BY DEF AccountsInv, RestInv, Shape, TypeOK
<1>2. Near(u, t) /\ t.db.user = db[u].user
  BY <1>1, KinIsNear
<1>3. /\ Turn /\ db'[u] = t.db /\ engine'[u] = t.engine
      /\ \A v \in Uids \ {u} : db'[v] = db[v] /\ engine'[v] = engine[v]
  BY <1>1, <1>2, SetFacts
<1>4. EngineStep
  BY <1>1, <1>3 DEF EngineStep, Elsewhere, Shape, TypeOK
<1>5. RestInv' /\ Running' = Running
  BY <1>4, EngineStepKeeps DEF AccountsInv
<1>6. ASSUME NEW v \in Running
      PROVE  EngineFits(engine'[v], why'[v], mode'.paused) /\ TransferFits(engine'[v], db'[v], why'[v])
  <2>1. v \in Uids /\ why[v] \subseteq why'[v]
    BY DEF Running, Grows
  <2>2. EngineFits(engine[v], why[v], mode.paused) /\ TransferFits(engine[v], db[v], why[v])
    BY DEF AccountsInv, EnginesInv, TransfersInv
  <2>3. EngineFits(engine[v], why'[v], mode.paused) /\ TransferFits(engine[v], db[v], why'[v])
    BY <1>1, <2>1, <2>2 DEF EngineFits, TransferFits
  <2> QED
    BY <1>3, <2>1, <2>3
<1>7. EnginesInv' /\ TransfersInv'
  BY <1>5, <1>6 DEF EnginesInv, TransfersInv
<1> QED
  BY <1>5, <1>7 DEF AccountsInv

(* An account and what is known of it. *)
LEMMA Account ==
  ASSUME AccountsInv, NEW u \in Running
  PROVE  /\ u \in Uids /\ mode.paused \in BOOLEAN /\ Shape
         /\ State(u) \in Snapshots /\ State(u).db = db[u] /\ State(u).engine = engine[u]
         /\ db[u] \in BoundRows /\ engine[u] \in EngineStates
         /\ EngineFits(engine[u], why[u], mode.paused) /\ TransferFits(engine[u], db[u], why[u])
<1>1. Shape /\ u \in Uids
  BY DEF AccountsInv, RestInv, Running
<1> QED
  BY <1>1, StateFacts DEF AccountsInv, Shape, TypeOK, EnginesInv, TransfersInv

(* The disk is full. *)
LEMMA DiskFullKeeps ==
  ASSUME AccountsInv, NEW u \in Uids, DiskFull(u)
  PROVE  AccountsInv'
<1>1. u \in Running /\ ~engine[u].stopped /\ ~engine[u].paused
  BY DEF DiskFull, Alone, Running
<1>2. PICK s \in Snapshots : s = State(u) /\ s.db = db[u] /\ s.engine = engine[u]
  BY <1>1, Account
<1>3. PICK t : t = Suspend(s)
  OBVIOUS
<1>4. /\ Kin(s, t) /\ t.db = Suspended(s.db) /\ t.engine = Held(s.engine)
  BY <1>1, <1>2, <1>3, SuspendFacts
<1>5. Shape /\ s.engine \in EngineStates /\ s.db \in BoundRows /\ mode.paused \in BOOLEAN
  BY <1>1, <1>2, Account
<1>6. /\ t.engine.base = s.engine.base /\ t.engine.paused /\ t.engine.loop # "on"
      /\ t.engine.loop # "off" => s.engine.loop # "off"
      /\ t.engine.stopped = s.engine.stopped /\ t.engine.invalid = s.engine.invalid
      /\ t.engine.sends = s.engine.sends
  BY <1>4, <1>5, HeldFacts DEF Alike
<1>7. t.db.move = (IF s.db.move = "ongoing" THEN "suspended" ELSE s.db.move)
  BY <1>4, <1>5, RowFacts
<1>8. Grows /\ "full" \in why'[u]
  BY <1>1, <1>5 DEF DiskFull, Note, Shape, Grows, Running
<1>9. EngineFits(s.engine, why'[u], mode.paused) /\ TransferFits(s.engine, s.db, why'[u])
  <2>1. EngineFits(s.engine, why[u], mode.paused) /\ TransferFits(s.engine, s.db, why[u]) /\ why[u] \subseteq why'[u]
    BY <1>1, <1>2, <1>8, Account DEF Grows
  <2> QED
    BY <1>5, <2>1 DEF EngineFits, TransferFits
<1>10. EngineFits(t.engine, why'[u], mode.paused) /\ TransferFits(t.engine, t.db, why'[u])
  BY <1>6, <1>7, <1>8, <1>9 DEF EngineFits, TransferFits
<1>11. Elsewhere /\ pending' \subseteq Uids /\ Set(u, t) /\ UNCHANGED <<mode, sync>>
  BY <1>2, <1>3 DEF DiskFull, Same, Elsewhere, AccountsInv, RestInv, Shape, TypeOK
<1> QED
  BY <1>1, <1>2, <1>4, <1>6, <1>8, <1>10, <1>11, OneKeeps

(* An engine that is suspended fits a paused application. *)
LEMMA SuspendedFits ==
  ASSUME NEW s \in Snapshots, NEW r, TransferFits(s.engine, s.db, r),
         EngineFits(s.engine, r, FALSE), s.engine.paused /\ s.engine.loop = "on" => "already" \in r
  PROVE  /\ Kin(s, Suspend(s)) /\ Suspend(s).engine.base = s.engine.base
         /\ EngineFits(Suspend(s).engine, r, TRUE) /\ TransferFits(Suspend(s).engine, Suspend(s).db, r)
<1>1. Kin(s, Suspend(s))
  BY SuspendFacts
<1>2. CASE s.engine.paused
  <2>1. Suspend(s) = s
    BY <1>2, SuspendFacts
  <2> QED
    BY <1>1, <1>2, <2>1 DEF EngineFits
<1>3. CASE ~s.engine.paused
  <2>1. s.engine \in EngineStates /\ s.db \in BoundRows
    BY Fields
  <2>2. PICK t : t = Suspend(s)
    OBVIOUS
  <2>3. t.db = Suspended(s.db) /\ t.engine = Held(s.engine)
    BY <1>3, <2>2, SuspendFacts
  <2>4. /\ t.engine.base = s.engine.base /\ t.engine.paused /\ t.engine.loop # "on"
        /\ t.engine.loop # "off" => s.engine.loop # "off"
        /\ t.engine.stopped = s.engine.stopped /\ t.engine.invalid = s.engine.invalid
        /\ t.engine.sends = s.engine.sends
    BY <2>1, <2>3, HeldFacts DEF Alike
  <2>5. t.db.move = (IF s.db.move = "ongoing" THEN "suspended" ELSE s.db.move)
    BY <2>1, <2>3, RowFacts
  <2> QED
    BY <1>1, <2>2, <2>4, <2>5 DEF EngineFits, TransferFits
<1> QED
  BY <1>2, <1>3

(* Suspending every engine, whatever asks for it. *)
LEMMA SuspendAllKeeps ==
  ASSUME AccountsInv, Elsewhere, ModeType, mode'.paused, sync' \in BOOLEAN, pending' \subseteq Uids,
         Grows, \A u \in Already : "already" \in why'[u],
         NEW S, SuspendAll(S),
         \A u \in Running : /\ Near(u, S[u]) /\ (S[u].db.user = db[u].user \/ "another user" \in why'[u])
                            /\ EngineFits(S[u].engine, why'[u], mode.paused)
                            /\ TransferFits(S[u].engine, S[u].db, why'[u])
                            /\ S[u].engine.paused = engine[u].paused /\ S[u].engine.loop = engine[u].loop
  PROVE  AccountsInv'
<1>1. Shape /\ mode.paused \in BOOLEAN
  BY DEF AccountsInv, RestInv, Shape, TypeOK
<1>2. PICK T : T = [u \in Running |-> IF mode.paused THEN S[u] ELSE Suspend(S[u])]
  OBVIOUS
<1>3. ASSUME NEW u \in Running
      PROVE  /\ Near(u, T[u]) /\ (T[u].db.user = db[u].user \/ "another user" \in why'[u])
             /\ EngineFits(T[u].engine, why'[u], mode'.paused)
             /\ TransferFits(T[u].engine, T[u].db, why'[u])
  <2>1. PICK s \in Snapshots : s = S[u]
    BY DEF Near
  <2>2. T[u] = IF mode.paused THEN s ELSE Suspend(s)
    BY <1>2, <2>1
  <2>3. EngineFits(s.engine, why'[u], mode.paused) /\ TransferFits(s.engine, s.db, why'[u])
    BY <2>1
  <2>4. CASE mode.paused
    BY <1>1, <2>1, <2>2, <2>3, <2>4 DEF EngineFits
  <2>5. CASE ~mode.paused
    <3>1. s.engine.paused /\ s.engine.loop = "on" => "already" \in why'[u]
      BY <2>1, <2>5 DEF Already
    <3>2. EngineFits(s.engine, why'[u], FALSE)
      BY <2>3, <2>5 DEF EngineFits
    <3>3. /\ Kin(s, T[u]) /\ T[u].engine.base = s.engine.base
          /\ EngineFits(T[u].engine, why'[u], TRUE) /\ TransferFits(T[u].engine, T[u].db, why'[u])
      BY <2>2, <2>3, <2>5, <3>1, <3>2, SuspendedFits
    <3>4. T[u].folder = s.folder
      BY <2>2, <2>5, SuspendFacts
    <3>5. Near(u, s)
      BY <2>1
    <3>6. Near(u, T[u]) /\ T[u].db.user = s.db.user
      <4>1. /\ T[u] \in Snapshots /\ T[u].db.user = s.db.user
            /\ T[u].engine.at = s.engine.at /\ T[u].engine.sends = s.engine.sends
        BY <3>3 DEF Kin, Alike
      <4>2. /\ s.engine.at = engine[u].at /\ s.engine.sends = engine[u].sends /\ s.engine.base = engine[u].base
            /\ \A f \in Folders : \/ s.folder[f] = folder[f] \/ s.folder[f] \notin Users
                                  \/ f = engine[u].at /\ s.folder[f] = db[u].user
        BY <3>5 DEF Near, Alike
      <4> QED
        BY <3>3, <3>4, <4>1, <4>2 DEF Near, Alike
    <3> QED
      BY <2>1, <3>3, <3>6 DEF EngineFits
  <2> QED
    BY <2>4, <2>5
<1>4. SetAll(T)
  BY <1>2 DEF SuspendAll
<1> QED
  BY <1>3, <1>4, AllKeeps

(* The engines as they are. *)
LEMMA StatesFit ==
  ASSUME AccountsInv, Grows, NEW u \in Running
  PROVE  /\ States[u] = State(u) /\ Near(u, States[u]) /\ States[u].db.user = db[u].user
         /\ EngineFits(States[u].engine, why'[u], mode.paused)
         /\ TransferFits(States[u].engine, States[u].db, why'[u])
         /\ States[u].engine.paused = engine[u].paused /\ States[u].engine.loop = engine[u].loop
<1>1. /\ State(u) \in Snapshots /\ State(u).db = db[u] /\ State(u).engine = engine[u] /\ Shape
      /\ EngineFits(engine[u], why[u], mode.paused) /\ TransferFits(engine[u], db[u], why[u])
      /\ why[u] \subseteq why'[u] /\ mode.paused \in BOOLEAN
  BY Account DEF Grows
<1>2. EngineFits(engine[u], why'[u], mode.paused) /\ TransferFits(engine[u], db[u], why'[u])
  BY <1>1 DEF EngineFits, TransferFits
<1>3. Kin(State(u), State(u))
  BY <1>1 DEF Kin, Alike
<1>4. Near(u, State(u))
  BY <1>1, <1>3, KinIsNear
<1>5. States[u] = State(u)
  BY DEF States
<1> QED
  BY <1>1, <1>2, <1>4, <1>5

(* The history of those that go on grows. *)
LEMMA AlreadyGrows ==
  ASSUME AccountsInv, Note(Already, "already")
  PROVE  Grows /\ \A u \in Already : "already" \in why'[u]
BY DEF AccountsInv, RestInv, Shape, Note, Grows, Already, Running

(* Suspend, from the menu. *)
LEMMA SuspendAppKeeps ==
  ASSUME AccountsInv, SuspendApp
  PROVE  AccountsInv'
<1>1. ModeType /\ mode'.paused /\ sync' \in BOOLEAN /\ pending' \subseteq Uids
  BY DEF SuspendApp, AccountsInv, RestInv, Shape, TypeOK, ModeType
<1>2. Elsewhere /\ SuspendAll(States) /\ Note(Already, "already")
  BY DEF SuspendApp, Elsewhere
<1> QED
  BY <1>1, <1>2, AlreadyGrows, StatesFit, SuspendAllKeeps

(* The synchronization is switched. *)
LEMMA SetSyncKeeps ==
  ASSUME AccountsInv, NEW value \in BOOLEAN, SetSync(value)
  PROVE  AccountsInv'
<1>1. ModeType /\ mode'.paused /\ sync' \in BOOLEAN /\ pending' \subseteq Uids
  BY DEF SetSync, Restart, AccountsInv, RestInv, Shape, TypeOK, ModeType
<1>2. Elsewhere /\ SuspendAll(States) /\ Note(Already, "already")
  BY DEF SetSync, Restart, Elsewhere
<1> QED
  BY <1>1, <1>2, AlreadyGrows, StatesFit, SuspendAllKeeps

(* Resume, from the menu. *)
LEMMA ResumeAppKeeps ==
  ASSUME AccountsInv, ResumeApp
  PROVE  AccountsInv'
<1>1. Shape /\ mode.paused /\ mode.paused \in BOOLEAN
  BY DEF ResumeApp, AccountsInv, RestInv, Shape, TypeOK
<1>2. PICK refused \in SUBSET Running :
         /\ SetAll([u \in Running |-> Resume(u, State(u), u \in refused)])
         /\ why' = [u \in Uids |->
              IF u \notin Running THEN why[u]
              ELSE why[u] \cup (IF engine[u].stopped THEN {"resumed"} ELSE {})
                          \cup (IF u \in refused /\ RootMissing(State(u)) THEN {"root"} ELSE {})]
  BY DEF ResumeApp
<1>3. /\ Grows
      /\ \A u \in Running : /\ engine[u].stopped => "resumed" \in why'[u]
                            /\ u \in refused /\ RootMissing(State(u)) => "root" \in why'[u]
  BY <1>1, <1>2 DEF Shape, Grows, Running
<1>4. PICK T : T = [u \in Running |-> Resume(u, State(u), u \in refused)]
  OBVIOUS
<1>5. ModeType /\ ~mode'.paused /\ sync' \in BOOLEAN /\ pending' \subseteq Uids /\ Elsewhere
  BY DEF ResumeApp, AccountsInv, RestInv, Shape, TypeOK, ModeType, Elsewhere
<1>6. ASSUME NEW u \in Running
      PROVE  /\ Near(u, T[u]) /\ T[u].db.user = db[u].user
             /\ EngineFits(T[u].engine, why'[u], mode'.paused)
             /\ TransferFits(T[u].engine, T[u].db, why'[u])
  <2>1. PICK s \in Snapshots : s = State(u) /\ s.db = db[u] /\ s.engine = engine[u]
    BY Account
  <2>2. PICK no \in BOOLEAN : no = (u \in refused)
    BY (u \in refused) \in BOOLEAN
  <2>3. T[u] = Resume(u, s, no)
    BY <1>4, <2>1, <2>2
  <2>4. Kin(s, T[u]) /\ Resumes(s, T[u], no)
    BY <2>3, ResumeFacts
  <2>5. EngineFits(s.engine, why'[u], mode.paused) /\ TransferFits(s.engine, s.db, why'[u])
    <3>1. EngineFits(s.engine, why[u], mode.paused) /\ TransferFits(s.engine, s.db, why[u]) /\ why[u] \subseteq why'[u]
      BY <1>3, <2>1, Account DEF Grows
    <3> QED
      BY <1>1, <3>1 DEF EngineFits, TransferFits
  <2>6. T[u].engine.base = s.engine.base /\ T[u].engine.sends = s.engine.sends
    BY <2>4 DEF Kin, Alike, Resumes
  <2>7. Near(u, T[u]) /\ T[u].db.user = db[u].user
    BY <1>1, <2>1, <2>4, <2>6, KinIsNear
  <2>8. EngineFits(T[u].engine, why'[u], mode'.paused)
    BY <1>3, <1>5, <2>1, <2>2, <2>4, <2>5 DEF EngineFits, Resumes
  <2>9. TransferFits(T[u].engine, T[u].db, why'[u])
    BY <2>4, <2>5, <2>6 DEF TransferFits, Resumes
  <2> QED
    BY <2>7, <2>8, <2>9
<1> QED
  BY <1>2, <1>3, <1>4, <1>5, <1>6, AllKeeps

(* All the engines start, at the launch. *)
LEMMA FirstRunKeeps ==
  ASSUME AccountsInv, FirstRun
  PROVE  AccountsInv'
<1>1. Shape /\ mode.paused \in BOOLEAN
  BY DEF AccountsInv, RestInv, Shape, TypeOK
<1>2. /\ ModeType /\ mode'.paused = mode.paused /\ sync' \in BOOLEAN /\ pending' \subseteq Uids /\ Elsewhere
      /\ UNCHANGED sync
  BY DEF FirstRun, AccountsInv, RestInv, Shape, TypeOK, ModeType, Elsewhere
<1>3. CASE mode.paused
  <2>1. UNCHANGED <<db, engine, folder, why>>
    BY <1>3 DEF FirstRun
  <2>2. Turn
    <3>1. \A u \in Running : db[u] \in BoundRows /\ engine[u] \in EngineStates
      BY <1>1, StateFacts
    <3> QED
      BY <1>1, <2>1, <3>1 DEF Turn, Shape, TypeOK, Marks, Running
  <2>3. EngineStep
    BY <1>1, <1>2, <2>1, <2>2 DEF EngineStep, Grows, Shape, ModeType, Elsewhere
  <2>4. RestInv' /\ Running' = Running
    BY <2>3, EngineStepKeeps DEF AccountsInv
  <2>5. EnginesInv' /\ TransfersInv'
    BY <1>2, <2>1, <2>4 DEF AccountsInv, EnginesInv, TransfersInv, EngineFits
  <2> QED
    BY <2>4, <2>5 DEF AccountsInv
<1>4. CASE ~mode.paused
  <2>1. PICK refused \in SUBSET Running :
           /\ SetAll([u \in Running |-> StartEngine(u, State(u), u \in refused)])
           /\ why' = [u \in Uids |->
                IF u \notin Running THEN why[u]
                ELSE why[u] \cup (IF u \in refused /\ RootMissing(State(u)) THEN {"root"} ELSE {})
                            \cup (IF engine[u].sends /\ ~engine[u].stopped THEN {"twice"} ELSE {})
                            \cup (IF engine[u].invalid THEN {"launched"} ELSE {})]
    BY <1>4 DEF FirstRun
  <2>2. /\ Grows
        /\ \A u \in Running : /\ engine[u].invalid => "launched" \in why'[u]
                              /\ engine[u].sends /\ ~engine[u].stopped => "twice" \in why'[u]
                              /\ u \in refused /\ RootMissing(State(u)) => "root" \in why'[u]
    BY <1>1, <2>1 DEF Shape, Grows, Running
  <2>3. PICK T : T = [u \in Running |-> StartEngine(u, State(u), u \in refused)]
    OBVIOUS
  <2>4. ASSUME NEW u \in Running
        PROVE  /\ Near(u, T[u]) /\ T[u].db.user = db[u].user
               /\ EngineFits(T[u].engine, why'[u], mode'.paused)
               /\ TransferFits(T[u].engine, T[u].db, why'[u])
    <3>1. PICK s \in Snapshots : s = State(u) /\ s.db = db[u] /\ s.engine = engine[u]
      BY Account
    <3>2. PICK no \in BOOLEAN : no = (u \in refused)
      BY (u \in refused) \in BOOLEAN
    <3>3. T[u] = StartEngine(u, s, no)
      BY <2>3, <3>1, <3>2
    <3>4. Kin(s, T[u]) /\ Starts(s, T[u], no)
      BY <3>3, StartFacts
    <3>5. EngineFits(s.engine, why'[u], mode.paused) /\ TransferFits(s.engine, s.db, why'[u])
      <4>1. EngineFits(s.engine, why[u], mode.paused) /\ TransferFits(s.engine, s.db, why[u]) /\ why[u] \subseteq why'[u]
        BY <2>2, <3>1, Account DEF Grows
      <4> QED
        BY <1>1, <4>1 DEF EngineFits, TransferFits
    <3>6. T[u].engine.base = s.engine.base /\ T[u].engine.sends = s.engine.sends
      BY <3>4 DEF Kin, Alike, Starts
    <3>7. Near(u, T[u]) /\ T[u].db.user = db[u].user
      BY <1>1, <3>1, <3>4, <3>6, KinIsNear
    <3>8. EngineFits(T[u].engine, why'[u], mode'.paused)
      BY <1>2, <1>4, <2>2, <3>1, <3>2, <3>4, <3>5 DEF EngineFits, Starts
    <3>9. TransferFits(T[u].engine, T[u].db, why'[u])
      <4>1. s.db.move \in {"none", "ongoing", "suspended"}
        BY <3>1, Account DEF BoundRows
      <4> QED
        BY <2>2, <3>1, <3>4, <3>5, <3>6, <4>1 DEF TransferFits, Starts
    <3> QED
      BY <3>7, <3>8, <3>9
  <2> QED
    BY <1>2, <2>1, <2>2, <2>3, <2>4, AllKeeps
<1> QED
  BY <1>3, <1>4

(* What one account becomes, when what it was fits the history that grows. *)
LEMMA Before ==
  ASSUME AccountsInv, Grows, NEW u \in Running
  PROVE  \E s \in Snapshots : /\ s = State(u) /\ s.db = db[u] /\ s.engine = engine[u]
                              /\ EngineFits(s.engine, why'[u], mode.paused)
                              /\ TransferFits(s.engine, s.db, why'[u])
<1>1. PICK s \in Snapshots : s = State(u) /\ s.db = db[u] /\ s.engine = engine[u]
  BY Account
<1>2. /\ EngineFits(s.engine, why[u], mode.paused) /\ TransferFits(s.engine, s.db, why[u])
      /\ why[u] \subseteq why'[u] /\ mode.paused \in BOOLEAN
  BY <1>1, Account DEF Grows
<1> QED
  BY <1>1, <1>2 DEF EngineFits, TransferFits

(* Credentials are refused. *)
LEMMA RefusedKeeps ==
  ASSUME AccountsInv, NEW u \in Uids, Refused(u)
  PROVE  AccountsInv'
<1>1. u \in Running /\ Shape
  BY DEF Refused, Alone, Running, AccountsInv, RestInv
<1>2. Grows
  BY <1>1 DEF Refused, Shape, Grows
<1>3. PICK s \in Snapshots : /\ s = State(u) /\ s.db = db[u] /\ s.engine = engine[u]
                             /\ EngineFits(s.engine, why'[u], mode.paused)
                             /\ TransferFits(s.engine, s.db, why'[u])
  BY <1>1, <1>2, Before
<1>4. PICK t : t = Refuse(u)
  OBVIOUS
<1>5. /\ Kin(s, t) /\ t.engine.base = s.engine.base
      /\ t.engine.paused = s.engine.paused /\ t.engine.queue = s.engine.queue
      /\ s.engine.invalid => t = s
      /\ ~s.engine.invalid => t.engine.loop = "off" /\ t.db = Suspended(s.db)
  BY <1>3, <1>4, RefuseFacts
<1>6. s.db \in BoundRows
  BY Fields
<1>7. EngineFits(t.engine, why'[u], mode.paused)
  BY <1>3, <1>5 DEF EngineFits
<1>8. TransferFits(t.engine, t.db, why'[u])
  BY <1>3, <1>5, <1>6, RowFacts DEF TransferFits, Kin, Alike
<1>9. Elsewhere /\ pending' \subseteq Uids /\ Set(u, t) /\ UNCHANGED <<mode, sync>>
  BY <1>4 DEF Refused, Same, Elsewhere, AccountsInv, RestInv, Shape, TypeOK
<1> QED
  BY <1>1, <1>2, <1>3, <1>5, <1>7, <1>8, <1>9, OneKeeps

(* The user signs in again, for Alfresco. *)
LEMMA ReloginKeeps ==
  ASSUME AccountsInv, NEW u \in Uids, Relogin(u)
  PROVE  AccountsInv'
<1>1. u \in Running /\ Shape
  BY DEF Relogin, Alone, Running, AccountsInv, RestInv
<1>2. Grows /\ "relogin" \in why'[u]
  BY <1>1 DEF Relogin, Shape, Grows, Note
<1>3. PICK s \in Snapshots : /\ s = State(u) /\ s.db = db[u] /\ s.engine = engine[u]
                             /\ EngineFits(s.engine, why'[u], mode.paused)
                             /\ TransferFits(s.engine, s.db, why'[u])
  BY <1>1, <1>2, Before
<1>4. PICK t : t = [StartEngine(u, Stop(Barred(s, FALSE)), FALSE) EXCEPT !.engine.queue = TRUE]
  OBVIOUS
<1>5. /\ Kin(s, t) /\ t.engine.base = s.engine.base /\ t.engine.paused = s.engine.paused /\ t.engine.queue
      /\ ~t.engine.stopped /\ ~t.engine.invalid
      /\ s.db.move # "none" => t.db.move # "none"
  BY <1>4, ReloginFacts
<1>6. EngineFits(t.engine, why'[u], mode.paused)
  BY <1>2, <1>3, <1>5 DEF EngineFits
<1>7. TransferFits(t.engine, t.db, why'[u])
  BY <1>3, <1>5 DEF TransferFits, Kin, Alike
<1>8. Elsewhere /\ pending' \subseteq Uids /\ UNCHANGED <<mode, sync>>
  BY DEF Relogin, Same, Elsewhere, AccountsInv, RestInv, Shape, TypeOK
<1>9. Set(u, t)
  BY <1>3, <1>4 DEF Relogin, Barred
<1> QED
  BY <1>1, <1>2, <1>3, <1>5, <1>6, <1>7, <1>8, <1>9, OneKeeps

(* The folder is made again. *)
LEMMA RecreateKeeps ==
  ASSUME AccountsInv, NEW u \in Uids, Recreate(u)
  PROVE  AccountsInv'
<1>1. u \in Running /\ Shape /\ ~engine[u].stopped
  BY DEF Recreate, Alone, Running, AccountsInv, RestInv
<1>2. Grows /\ "recreated" \in why'[u]
  BY <1>1 DEF Recreate, Shape, Grows, Note
<1>3. PICK s \in Snapshots : /\ s = State(u) /\ s.db = db[u] /\ s.engine = engine[u]
                             /\ EngineFits(s.engine, why'[u], mode.paused)
                             /\ TransferFits(s.engine, s.db, why'[u])
  BY <1>1, <1>2, Before
<1>4. PICK t : t = Recreated(u, s)
  OBVIOUS
<1>5. /\ Kin(s, t) /\ t.engine.base = s.engine.base
      /\ t.engine.paused = s.engine.paused /\ t.engine.queue = s.engine.queue
      /\ t.engine.stopped => t.db.move # "ongoing"
  BY <1>1, <1>3, <1>4, RecreatedFacts
<1>6. EngineFits(t.engine, why'[u], mode.paused)
  BY <1>2, <1>3, <1>5 DEF EngineFits
<1>7. TransferFits(t.engine, t.db, why'[u])
  BY <1>2, <1>5 DEF TransferFits
<1>8. Elsewhere /\ pending' \subseteq Uids /\ Set(u, t) /\ UNCHANGED <<mode, sync>>
  BY <1>3, <1>4 DEF Recreate, Same, Elsewhere, AccountsInv, RestInv, Shape, TypeOK
<1> QED
  BY <1>1, <1>2, <1>3, <1>5, <1>6, <1>7, <1>8, OneKeeps

\* What an account that is chosen becomes.
Chooses(s, t) ==
    /\ t.engine.base = s.engine.base
    /\ t.engine.paused = s.engine.paused /\ t.engine.queue = s.engine.queue /\ ~t.engine.stopped
    /\ s.db.move # "none" /\ (s.engine.stopped => s.db.move # "ongoing") => t.db.move # "none"
(* What an account that is chosen becomes. *)
LEMMA ChooseFacts ==
  ASSUME NEW u, NEW s \in Snapshots, NEW first \in BOOLEAN,
         NEW p, p = (IF s.engine.stopped THEN StartEngine(u, s, FALSE) ELSE s),
         NEW t, t = (IF first THEN CheckRoot([p EXCEPT !.db.conf = TRUE], FALSE) ELSE p)
  PROVE  Kin(s, t) /\ Chooses(s, t)
<1>1. /\ p \in Snapshots /\ Kin(s, p) /\ p.engine.base = s.engine.base
      /\ p.engine.paused = s.engine.paused /\ p.engine.queue = s.engine.queue /\ ~p.engine.stopped
      /\ s.db.move # "none" /\ (s.engine.stopped => s.db.move # "ongoing") => p.db.move # "none"
  <2>1. CASE s.engine.stopped
    <3>1. p \in Snapshots /\ Kin(s, p) /\ Starts(s, p, FALSE)
      BY <2>1, StartIs, Zenon
    <3>2. s.db.move \in {"none", "ongoing", "suspended"}
      BY Fields DEF BoundRows
    <3> QED
      BY <2>1, <3>1, <3>2 DEF Starts
  <2>2. CASE ~s.engine.stopped
    BY <2>2 DEF Kin, Alike
  <2> QED
    BY <2>1, <2>2
<1>2. CASE ~first
  BY <1>1, <1>2 DEF Chooses
<1>3. CASE first
  <2>1. PICK d : d = [p.db EXCEPT !.conf = TRUE]
    OBVIOUS
  <2>2. PICK c : c = [p EXCEPT !.db.conf = TRUE]
    OBVIOUS
  <2>3. p.db \in BoundRows
    BY <1>1, Fields
  <2>4. d \in BoundRows /\ d.user = p.db.user /\ d.move = p.db.move
    BY <2>1, <2>3 DEF BoundRows
  <2>5. c \in Snapshots /\ c.db = d /\ c.engine = p.engine /\ c.folder = p.folder
    BY <1>1, <2>1, <2>2, <2>4 DEF Snapshots
  <2>6. Kin(p, c)
    BY <1>1, <2>4, <2>5, Stays DEF Alike
  <2>7. PICK no \in BOOLEAN : ~no
    BY Zenon
  <2>8. t = CheckRoot(c, no)
    BY <1>3, <2>2, <2>7
  <2>9. Kin(c, t) /\ t.engine = c.engine /\ t.db.move = c.db.move
    <3>1. /\ Kin(c, CheckRoot(c, no))
          /\ CheckRoot(c, no).engine = c.engine /\ CheckRoot(c, no).db.move = c.db.move
      BY <2>5, <2>7, CheckRootFacts
    <3> QED
      BY <2>8, <3>1
  <2>10. Kin(s, t)
    BY <1>1, <2>6, <2>9, KinIsTransitive
  <2> QED
    BY <1>1, <2>4, <2>5, <2>9, <2>10 DEF Chooses
<1> QED
  BY <1>2, <1>3

(* The folders to synchronize are chosen. *)
LEMMA ChooseKeeps ==
  ASSUME AccountsInv, NEW u \in Uids, Choose(u)
  PROVE  AccountsInv'
<1>1. u \in Running /\ Shape
  BY DEF Choose, Alone, Running, AccountsInv, RestInv
<1>2. Grows /\ "chosen" \in why'[u]
  BY <1>1 DEF Choose, Shape, Grows, Note
<1>3. PICK s \in Snapshots : /\ s = State(u) /\ s.db = db[u] /\ s.engine = engine[u]
                             /\ EngineFits(s.engine, why'[u], mode.paused)
                             /\ TransferFits(s.engine, s.db, why'[u])
  BY <1>1, <1>2, Before
<1>4. PICK p : p = IF s.engine.stopped THEN StartEngine(u, s, FALSE) ELSE s
  OBVIOUS
<1>5. PICK first \in BOOLEAN : first = (u \in pending)
  BY (u \in pending) \in BOOLEAN
<1>6. PICK t : t = IF first THEN CheckRoot([p EXCEPT !.db.conf = TRUE], FALSE) ELSE p
  OBVIOUS
<1>7. /\ Kin(s, t) /\ t.engine.base = s.engine.base
      /\ t.engine.paused = s.engine.paused /\ t.engine.queue = s.engine.queue /\ ~t.engine.stopped
      /\ s.db.move # "none" /\ (s.engine.stopped => s.db.move # "ongoing") => t.db.move # "none"
  <2>1. Kin(s, t) /\ Chooses(s, t)
    BY <1>4, <1>6, ChooseFacts, Zenon
  <2> QED
    BY <2>1 DEF Chooses
<1>8. EngineFits(t.engine, why'[u], mode.paused)
  BY <1>2, <1>3, <1>7 DEF EngineFits
<1>9. TransferFits(t.engine, t.db, why'[u])
  BY <1>3, <1>7 DEF TransferFits, Kin, Alike
<1>10. Elsewhere /\ pending' \subseteq Uids /\ UNCHANGED <<mode, sync>>
  BY DEF Choose, Elsewhere, AccountsInv, RestInv, Shape, TypeOK
<1>11. Set(u, t)
  BY <1>3, <1>4, <1>5, <1>6 DEF Choose
<1> QED
  BY <1>1, <1>2, <1>3, <1>7, <1>8, <1>9, <1>10, <1>11, OneKeeps

(* The user signs in again, perhaps as another. *)
LEMMA TokenKeeps ==
  ASSUME AccountsInv, NEW u \in Uids, NEW user \in Users, Token(u, user)
  PROVE  AccountsInv'
<1>1. u \in Running /\ Shape
  BY DEF Token, Alone, Running, AccountsInv, RestInv
<1>2. PICK c : c = Barred(State(u), FALSE)
  OBVIOUS
<1>3. State(u) \in Snapshots /\ State(u).db = db[u] /\ State(u).engine = engine[u] /\ State(u).folder = folder
  BY <1>1, StateFacts
<1>4. PICK no \in BOOLEAN : ~no
  BY Zenon
<1>5. /\ Kin(State(u), c) /\ c.engine.base = engine[u].base /\ c.db = db[u] /\ c.folder = folder
      /\ ~c.engine.invalid /\ c.engine.stopped = engine[u].stopped /\ c.engine.loop = engine[u].loop
      /\ c.engine.paused = engine[u].paused /\ c.engine.queue = engine[u].queue
      /\ c \in Snapshots /\ c.engine.sends = engine[u].sends
  <2>1. c = Barred(State(u), no)
    BY <1>2, <1>4
  <2> QED
    BY <1>3, <1>4, <2>1, BarredSnapshot DEF Kin, Alike
<1>6. Same /\ Elsewhere /\ pending' \subseteq Uids /\ UNCHANGED sync /\ sync \in BOOLEAN
  BY <1>1 DEF Token, Same, Elsewhere, Shape, TypeOK
<1>7. CASE user = db[u].user
  <2>1. PICK refused \in BOOLEAN :
          /\ Set(u, StartEngine(u, c, refused))
          /\ why' = [why EXCEPT ![u] = @ \cup {"token"}
                       \cup (IF refused /\ RootMissing(c) THEN {"root"} ELSE {})
                       \cup (IF engine[u].sends /\ ~engine[u].stopped THEN {"twice"} ELSE {})]
    BY <1>2, <1>7 DEF Token, Barred
  <2>2. /\ Grows /\ "token" \in why'[u]
        /\ refused /\ RootMissing(c) => "root" \in why'[u]
        /\ engine[u].sends /\ ~engine[u].stopped => "twice" \in why'[u]
    BY <1>1, <2>1 DEF Shape, Grows
  <2>3. PICK t : t = StartEngine(u, c, refused)
    OBVIOUS
  <2>4. Kin(c, t) /\ Starts(c, t, refused)
    BY <1>5, <2>3, StartFacts
  <2>5. Kin(State(u), t)
    BY <1>5, <2>4, KinIsTransitive
  <2>6. EngineFits(engine[u], why'[u], mode.paused) /\ TransferFits(engine[u], db[u], why'[u])
    BY <1>1, <2>2, Before
  <2>7. t.engine.base = engine[u].base /\ t.engine.sends = engine[u].sends
    BY <1>5, <2>4 DEF Starts, Kin, Alike
  <2>8. EngineFits(t.engine, why'[u], mode.paused)
    BY <1>5, <2>2, <2>4, <2>6 DEF EngineFits, Starts
  <2>9. TransferFits(t.engine, t.db, why'[u])
    <3>1. db[u].move \in {"none", "ongoing", "suspended"}
      BY <1>1, StateFacts DEF BoundRows
    <3> QED
      BY <1>5, <2>2, <2>4, <2>6, <2>7, <3>1 DEF TransferFits, Starts
  <2>10. UNCHANGED mode
    BY <1>7 DEF Token
  <2> QED
    BY <1>1, <1>6, <2>1, <2>2, <2>3, <2>5, <2>7, <2>8, <2>9, <2>10, OneKeeps
<1>8. CASE user # db[u].user
  <2>1. PICK n : n = [c EXCEPT !.db.user = user]
    OBVIOUS
  <2>2. PICK S : S = [States EXCEPT ![u] = n]
    OBVIOUS
  <2>3. /\ Restart(S)
        /\ why' = [v \in Uids |-> why[v] \cup (IF v = u THEN {"another user"} ELSE {})
                                         \cup (IF v \in Already THEN {"already"} ELSE {})]
    BY <1>2, <1>8, <2>1, <2>2 DEF Token, Barred
  <2>4. Grows /\ "another user" \in why'[u] /\ \A v \in Already : "already" \in why'[v]
    BY <1>1, <2>3 DEF Shape, Grows, Already, Running
  <2>5. PICK d : d = [c.db EXCEPT !.user = user]
    OBVIOUS
  <2>6. c.db \in BoundRows
    BY <1>1, <1>5, StateFacts
  <2>7. d \in BoundRows /\ d.move = c.db.move
    BY <2>5, <2>6 DEF BoundRows
  <2>8. n \in Snapshots /\ n.db = d /\ n.engine = c.engine /\ n.folder = c.folder
    BY <1>5, <2>1, <2>5, <2>7 DEF Snapshots
  <2>9. Near(u, n)
    BY <1>3, <1>5, <2>8 DEF Near, Kin, Alike
  <2>10. EngineFits(engine[u], why'[u], mode.paused) /\ TransferFits(engine[u], db[u], why'[u])
    BY <1>1, <2>4, Before
  <2>11. EngineFits(n.engine, why'[u], mode.paused) /\ TransferFits(n.engine, n.db, why'[u])
    BY <1>5, <2>7, <2>8, <2>10 DEF EngineFits, TransferFits
  <2>12. ASSUME NEW v \in Running
         PROVE  /\ Near(v, S[v]) /\ (S[v].db.user = db[v].user \/ "another user" \in why'[v])
                /\ EngineFits(S[v].engine, why'[v], mode.paused)
                /\ TransferFits(S[v].engine, S[v].db, why'[v])
                /\ S[v].engine.paused = engine[v].paused /\ S[v].engine.loop = engine[v].loop
    <3>1. S[v] = IF v = u THEN n ELSE States[v]
      BY <1>1, <2>2 DEF States
    <3>2. CASE v = u
      BY <1>5, <2>4, <2>8, <2>9, <2>11, <3>1, <3>2
    <3>3. CASE v # u
      BY <2>4, <3>1, <3>3, StatesFit
    <3> QED
      BY <3>2, <3>3
  <2>13. ModeType /\ mode'.paused /\ SuspendAll(S)
    BY <1>1, <2>3 DEF Restart, Shape, TypeOK, ModeType
  <2> QED
    BY <1>6, <2>4, <2>12, <2>13, SuspendAllKeeps
<1> QED
  BY <1>7, <1>8

(* A transfer of one account. *)
LEMMA TransferKeeps ==
  ASSUME AccountsInv, NEW u \in Running, Same, UNCHANGED <<mode, folder, why>>,
         NEW d \in BoundRows, d.user = db[u].user, db' = [db EXCEPT ![u] = d],
         NEW e \in EngineStates, e.at = engine[u].at, e.base = engine[u].base,
         engine' = [engine EXCEPT ![u] = e],
         EngineFits(e, why[u], mode.paused), TransferFits(e, d, why[u])
  PROVE  AccountsInv'
<1>1. Shape /\ u \in Uids
  BY DEF Running, AccountsInv, RestInv
<1>2. db \in [Uids -> Rows \cup {None}] /\ engine \in [Uids -> EngineStates \cup {None}] /\ d \in Rows
  BY <1>1, Apart DEF Shape, TypeOK
<1>3. /\ db'[u] = d /\ engine'[u] = e
      /\ \A v \in Uids \ {u} : db'[v] = db[v] /\ engine'[v] = engine[v]
      /\ db' \in [Uids -> Rows \cup {None}] /\ engine' \in [Uids -> EngineStates \cup {None}]
  BY <1>1, <1>2
<1>4. ASSUME NEW v \in Running
      PROVE  db[v] \in BoundRows /\ engine[v] \in EngineStates /\ v \in Uids
  BY <1>1, StateFacts
<1>5. ASSUME NEW v \in Running
      PROVE  /\ db'[v] \in BoundRows /\ engine'[v] \in EngineStates
             /\ db'[v].user = db[v].user
             /\ engine'[v].at = engine[v].at /\ engine'[v].base = engine[v].base
  BY <1>3, <1>4
<1>6. \A v \in Uids \ Running : db'[v] = db[v] /\ engine'[v] = None
  BY <1>3 DEF Running
<1>7. folder' \in [Folders -> Marks] /\ folder' = folder
  BY <1>1 DEF Shape, TypeOK, Marks
<1>8. Turn
  BY <1>3, <1>5, <1>6, <1>7 DEF Turn
<1>9. EngineStep
  BY <1>1, <1>8 DEF EngineStep, Grows, Shape, TypeOK, Same
<1>10. RestInv' /\ Running' = Running
  BY <1>9, EngineStepKeeps DEF AccountsInv
<1>11. \A v \in Running : /\ EngineFits(engine'[v], why'[v], mode'.paused)
                          /\ TransferFits(engine'[v], db'[v], why'[v])
  BY <1>3, <1>4 DEF AccountsInv, EnginesInv, TransfersInv
<1> QED
  BY <1>10, <1>11 DEF AccountsInv, EnginesInv, TransfersInv

(* A transfer begins. *)
LEMMA TransferBeginsKeeps ==
  ASSUME AccountsInv, NEW u \in Uids, TransferBegins(u)
  PROVE  AccountsInv'
<1>1. u \in Running /\ Shape /\ ~engine[u].stopped
  BY DEF TransferBegins, Alone, Works, Running, AccountsInv, RestInv
<1>2. db[u] \in BoundRows /\ engine[u] \in EngineStates
  BY <1>1, StateFacts
<1>3. PICK d : d = [db[u] EXCEPT !.move = "ongoing"]
  OBVIOUS
<1>4. PICK e : e = [engine[u] EXCEPT !.sends = TRUE]
  OBVIOUS
<1>5. d \in BoundRows /\ d.user = db[u].user /\ d.move = "ongoing"
  BY <1>2, <1>3 DEF BoundRows
<1>6. /\ e \in EngineStates /\ e.at = engine[u].at /\ e.base = engine[u].base /\ e.stopped = engine[u].stopped
      /\ e.paused = engine[u].paused /\ e.loop = engine[u].loop /\ e.queue = engine[u].queue
      /\ e.invalid = engine[u].invalid
  BY <1>2, <1>4 DEF EngineStates
<1>7. db' = [db EXCEPT ![u] = d] /\ engine' = [engine EXCEPT ![u] = e]
  BY <1>3, <1>4 DEF TransferBegins
<1>8. Same /\ UNCHANGED <<mode, folder, why>>
  BY DEF TransferBegins
<1>9. EngineFits(e, why[u], mode.paused)
  BY <1>1, <1>6, Account DEF EngineFits
<1>10. TransferFits(e, d, why[u])
  BY <1>1, <1>5, <1>6 DEF TransferFits
<1> QED
  BY <1>1, <1>5, <1>6, <1>7, <1>8, <1>9, <1>10, TransferKeeps

(* A transfer ends, or sees the pause. *)
LEMMA TransferEndsKeeps ==
  ASSUME AccountsInv, NEW u \in Uids, TransferEnds(u)
  PROVE  AccountsInv'
<1>1. u \in Running /\ Shape
  BY DEF TransferEnds, Alone, Running, AccountsInv, RestInv
<1>2. db[u] \in BoundRows /\ engine[u] \in EngineStates /\ db \in [Uids -> Rows \cup {None}]
  BY <1>1, StateFacts DEF Shape, TypeOK
<1>3. PICK d : d = IF db' = db THEN db[u] ELSE [db[u] EXCEPT !.move = "none"]
  OBVIOUS
<1>4. PICK e : e = [engine[u] EXCEPT !.sends = FALSE]
  OBVIOUS
<1>5. d \in BoundRows /\ d.user = db[u].user
  BY <1>2, <1>3 DEF BoundRows
<1>6. /\ e \in EngineStates /\ e.at = engine[u].at /\ e.base = engine[u].base /\ ~e.sends
      /\ e.paused = engine[u].paused /\ e.loop = engine[u].loop /\ e.queue = engine[u].queue
      /\ e.invalid = engine[u].invalid
  BY <1>2, <1>4 DEF EngineStates
<1>7. db' = [db EXCEPT ![u] = d]
  <2>1. CASE db' = db
    BY <1>1, <1>2, <1>3, <2>1
  <2>2. CASE db' # db
    BY <1>3, <2>2 DEF TransferEnds
  <2> QED
    BY <2>1, <2>2
<1>8. engine' = [engine EXCEPT ![u] = e] /\ Same /\ UNCHANGED <<mode, folder, why>>
  BY <1>4 DEF TransferEnds
<1>9. EngineFits(e, why[u], mode.paused)
  BY <1>1, <1>6, Account DEF EngineFits
<1>10. TransferFits(e, d, why[u])
  BY <1>6 DEF TransferFits
<1> QED
  BY <1>1, <1>5, <1>6, <1>7, <1>8, <1>9, <1>10, TransferKeeps

-------------------------------------------------------------------------------
(* What the application does                                                 *)

(* The invariant, taken apart and put together. *)
LEMMA Parts ==
  ASSUME AccountsInv
  PROVE  /\ TypeOK /\ why = [u \in Uids |-> why[u]] /\ \A u \in Running : db[u].user \in Users
         /\ PresenceInv /\ OwnInv /\ ApartInv /\ MarkInv /\ FailInv /\ Shape
BY DEF AccountsInv, RestInv, Shape

LEMMA Whole ==
  ASSUME TypeOK', why' = [u \in Uids |-> why'[u]], \A u \in Running' : db'[u].user \in Users,
         PresenceInv', OwnInv', ApartInv', MarkInv', FailInv', EnginesInv', TransfersInv'
  PROVE  AccountsInv'
BY DEF AccountsInv, RestInv, Shape

(* Nothing runs. *)
LEMMA NothingRuns ==
  ASSUME engine' = [u \in Uids |-> None]
  PROVE  Running' = {} /\ OwnInv' /\ EnginesInv' /\ TransfersInv'
<1>1. Running' = {}
  BY DEF Running
<1> QED
  BY <1>1 DEF OwnInv, EnginesInv, TransfersInv

(* Nothing runs when the application is not there. *)
LEMMA DownFacts ==
  ASSUME AccountsInv, life # "up"
  PROVE  Running = {} /\ engine = [u \in Uids |-> None] /\ doing = None
<1>1. Running = {}
  BY Parts DEF TypeOK
<1>2. engine = [u \in Uids |-> None]
  BY <1>1, Parts DEF TypeOK, Running
<1> QED
  BY <1>1, <1>2, Parts DEF PresenceInv

(* The engines that were there are as they were. *)
LEMMA EnginesStay ==
  ASSUME AccountsInv, mode'.paused = mode.paused, row' = row,
         \A u \in Running' : /\ u \in Running /\ engine'[u] = engine[u] /\ db'[u] = db[u] /\ why[u] \subseteq why'[u]
  PROVE  EnginesInv' /\ TransfersInv' /\ OwnInv'
<1>1. mode.paused \in BOOLEAN
  BY Parts DEF TypeOK
<1>2. ASSUME NEW u \in Running'
      PROVE  EngineFits(engine'[u], why'[u], mode'.paused) /\ TransferFits(engine'[u], db'[u], why'[u])
  <2>1. EngineFits(engine[u], why[u], mode.paused) /\ TransferFits(engine[u], db[u], why[u]) /\ why[u] \subseteq why'[u]
    BY <1>2 DEF AccountsInv, EnginesInv, TransfersInv
  <2>2. EngineFits(engine[u], why'[u], mode.paused) /\ TransferFits(engine[u], db[u], why'[u])
    BY <1>1, <2>1 DEF EngineFits, TransferFits
  <2> QED
    BY <1>2, <2>2
<1>3. OwnInv'
  BY Parts DEF OwnInv
<1> QED
  BY <1>2, <1>3 DEF EnginesInv, TransfersInv

(* The table of the accounts is copied. *)
LEMMA BackupKeeps ==
  ASSUME AccountsInv, Backup
  PROVE  AccountsInv'
<1>1. UNCHANGED <<life, mode, sync, defs, row, db, aside, folder, engine, doing, pending, why>> /\ saved' = row
  BY DEF Backup
<1>2. TypeOK' /\ Running' = Running
  BY <1>1, Parts DEF TypeOK, Running
<1>3. PresenceInv'
  BY <1>1, Parts DEF PresenceInv, Loadable, Sound, Binds
<1>4. ApartInv'
  BY <1>1, Parts DEF ApartInv, Can, Binds, Shuffled, Overlap
<1>5. MarkInv'
  BY <1>1, Parts DEF MarkInv, Theirs, Shuffled, HasMark
<1>6. FailInv'
  BY <1>1, Parts DEF FailInv, Shuffled
<1>7. EnginesInv' /\ TransfersInv' /\ OwnInv'
  BY <1>1, <1>2, EnginesStay
<1> QED
  BY <1>1, <1>2, <1>3, <1>4, <1>5, <1>6, <1>7, Parts, Whole

(* The user deletes a folder. *)
LEMMA UserDeletesKeeps ==
  ASSUME AccountsInv, NEW f \in Folders, UserDeletes(f)
  PROVE  AccountsInv'
<1>1. UNCHANGED <<life, mode, sync, defs, row, saved, db, aside, engine, doing, pending, why>>
  BY DEF UserDeletes
<1>2. /\ folder' \in [Folders -> Users \cup {"absent", "plain"}]
      /\ \A g \in Folders : folder'[g] \in Users => folder'[g] = folder[g]
  BY Parts, MarksAssumption DEF UserDeletes, TypeOK
<1>3. TypeOK' /\ Running' = Running
  BY <1>1, <1>2, Parts DEF TypeOK, Running
<1>4. PresenceInv'
  BY <1>1, Parts DEF PresenceInv, Loadable, Sound, Binds
<1>5. ApartInv'
  BY <1>1, Parts DEF ApartInv, Can, Binds, Shuffled, Overlap
<1>6. MarkInv'
  <2>1. \A u \in Uids : row[u] # None => row[u] \in Folders
    BY Parts DEF TypeOK
  <2> QED
    BY <1>1, <1>2, <2>1, Parts DEF MarkInv, Theirs, Shuffled, HasMark
<1>7. FailInv'
  BY <1>1, Parts DEF FailInv, Shuffled
<1>8. EnginesInv' /\ TransfersInv' /\ OwnInv'
  BY <1>1, <1>3, EnginesStay
<1> QED
  BY <1>1, <1>3, <1>4, <1>5, <1>6, <1>7, <1>8, Parts, Whole

(* The application is left. *)
LEMMA LeaveKeeps ==
  ASSUME AccountsInv, Leave
  PROVE  AccountsInv'
<1>1. /\ life = "up" /\ doing = None /\ life' = "down" /\ saved' = row
      /\ engine' = [u \in Uids |-> None] /\ defs' = [u \in Uids |-> None] /\ pending' = {}
      /\ UNCHANGED <<sync, row, aside, folder, doing, why>>
  BY DEF Leave, Ready
<1>2. ASSUME NEW u \in Running
      PROVE  /\ db[u] # None /\ db[u].user \in Users /\ Stop(State(u)).db \in BoundRows
             /\ Stop(State(u)).db.user = db[u].user
  <2>1. State(u) \in Snapshots /\ State(u).db = db[u] /\ db[u] \in BoundRows
    BY Parts, StateFacts
  <2>2. Stop(State(u)).db = Suspended(db[u])
    BY <2>1, StopFacts
  <2>3. Suspended(db[u]) \in BoundRows /\ Suspended(db[u]).user = db[u].user
    BY <2>1, RowFacts
  <2> QED
    BY <2>2, <2>3, Parts DEF TypeOK
<1>3. \A u \in Uids : db'[u] = IF u \in Running /\ ~engine[u].stopped THEN Stop(State(u)).db ELSE db[u]
  BY DEF Leave
<1>4. /\ db' \in [Uids -> Rows \cup {None}]
      /\ \A u \in Uids : /\ db'[u] # None <=> db[u] # None
                         /\ db[u] # None => db'[u].user = db[u].user
  BY <1>2, <1>3, Apart, Parts DEF Leave, TypeOK
<1>5. Running' = {} /\ OwnInv' /\ EnginesInv' /\ TransfersInv'
  BY <1>1, NothingRuns
<1>6. TypeOK'
  <2>1. mode' \in [paused : BOOLEAN, restart : BOOLEAN, first : BOOLEAN, crashed : BOOLEAN]
    BY Parts DEF TypeOK, Leave
  <2>2. engine' \in [Uids -> EngineStates \cup {None}] /\ defs' \in [Uids -> Folders \cup {None}]
    BY <1>1
  <2> QED
    BY <1>1, <1>4, <1>5, <2>1, <2>2, Parts DEF TypeOK
<1>7. PresenceInv'
  <2>1. ASSUME NEW u \in Uids, row[u] # None
        PROVE  Loadable(u)' \/ why[u] \cap Strange # {}
    <3>1. CASE engine[u] # None
      <4>1. u \in Running
        BY <3>1 DEF Running
      <4>2. db[u] # None /\ db[u].user # None
        BY <1>2, <4>1, Apart
      <4> QED
        BY <1>1, <1>4, <2>1, <4>2 DEF Loadable, Sound
    <3>2. CASE engine[u] = None
      BY <1>1, <2>1, <3>2, Parts DEF PresenceInv
    <3> QED
      BY <3>1, <3>2
  <2> QED
    BY <1>1, <1>4, <2>1, Parts DEF PresenceInv, Binds
<1>8. ApartInv'
  BY <1>1, <1>4, Parts DEF ApartInv, Can, Binds, Shuffled, Overlap
<1>9. MarkInv'
  BY <1>1, <1>4, Parts DEF MarkInv, Theirs, Shuffled, HasMark
<1>10. FailInv'
  BY <1>1 DEF FailInv
<1> QED
  BY <1>1, <1>5, <1>6, <1>7, <1>8, <1>9, <1>10, Parts, Whole

(* The application is killed. *)
LEMMA CrashKeeps ==
  ASSUME AccountsInv, Crash
  PROVE  AccountsInv'
<1>1. /\ life = "up" /\ life' = "down" /\ doing' = None
      /\ engine' = [u \in Uids |-> None] /\ defs' = [u \in Uids |-> None] /\ pending' = {}
      /\ UNCHANGED <<sync, row, saved, db, aside, folder>>
  BY DEF Crash
<1>2. /\ Grows
      /\ \A u \in Uids : doing # None /\ doing.uid = u => "crashed" \in why'[u]
  BY Parts DEF Crash, Note, Grows
<1>3. Running' = {} /\ OwnInv' /\ EnginesInv' /\ TransfersInv'
  BY <1>1, NothingRuns
<1>4. TypeOK'
  <2>1. mode' \in [paused : BOOLEAN, restart : BOOLEAN, first : BOOLEAN, crashed : BOOLEAN]
    BY Parts DEF TypeOK, Crash
  <2>2. engine' \in [Uids -> EngineStates \cup {None}] /\ defs' \in [Uids -> Folders \cup {None}]
    BY <1>1
  <2> QED
    BY <1>1, <1>3, <2>1, <2>2, Parts DEF TypeOK
<1>5. PresenceInv'
  <2>1. ASSUME NEW u \in Uids, row[u] # None
        PROVE  Loadable(u)' \/ why'[u] \cap Strange # {}
    <3>1. CASE engine[u] # None
      <4>1. u \in Running
        BY <3>1 DEF Running
      <4>2. db[u] # None /\ db[u].user # None
        BY <4>1, Apart, Parts DEF TypeOK
      <4> QED
        BY <1>1, <2>1, <4>2 DEF Loadable, Sound
    <3>2. CASE engine[u] = None
      <4>1. (doing # None /\ doing.uid = u) \/ why[u] \cap Strange # {}
        BY <1>1, <2>1, <3>2, Parts DEF PresenceInv
      <4> QED
        BY <1>2, <4>1 DEF Strange, Grows
    <3> QED
      BY <3>1, <3>2
  <2>2. ASSUME NEW u \in Uids, row[u] # None
        PROVE  /\ db[u] # None /\ db[u].user = None => why'[u] \cap Cut # {}
               /\ aside[u] # None /\ aside[u].user = None => why'[u] \cap Cut # {}
    <3>1. /\ db[u] # None /\ db[u].user = None => Binds(u) \/ why[u] \cap Cut # {}
          /\ aside[u] # None /\ aside[u].user = None => why[u] \cap Cut # {}
      BY <2>2, Parts DEF PresenceInv
    <3> QED
      BY <1>2, <3>1 DEF Binds, Cut, Grows
  <2> QED
    BY <1>1, <1>2, <2>1, <2>2, Parts DEF PresenceInv, Grows
<1>6. ApartInv'
  <2>1. Shuffled => Shuffled'
    BY <1>2, ShuffledGrows
  <2>2. \A u, v \in Uids : (why[u] \cup why[v]) \cap Displaced # {} => (why'[u] \cup why'[v]) \cap Displaced # {}
    BY <1>2 DEF Grows
  <2>3. \A u \in Uids : Can(u)' => Can(u)
    BY <1>1 DEF Can, Binds
  <2> QED
    BY <1>1, <2>1, <2>2, <2>3, Parts DEF ApartInv, Overlap
<1>7. MarkInv'
  <2>1. Shuffled => Shuffled'
    BY <1>2, ShuffledGrows
  <2>2. \A u \in Uids : why[u] \cap Excused # {} => why'[u] \cap Excused # {}
    BY <1>2 DEF Grows
  <2> QED
    BY <1>1, <2>1, <2>2, Parts DEF MarkInv, Theirs, HasMark
<1>8. FailInv'
  BY <1>1 DEF FailInv
<1> QED
  BY <1>2, <1>3, <1>4, <1>5, <1>6, <1>7, <1>8, Whole DEF Grows

(* The table of the accounts is taken from its copy. *)
LEMMA RestoreManagerKeeps ==
  ASSUME AccountsInv, RestoreManager
  PROVE  AccountsInv'
<1>1. /\ life = "down" /\ saved # row /\ row' = saved
      /\ UNCHANGED <<life, mode, sync, defs, saved, db, aside, folder, engine, doing, pending>>
  BY DEF RestoreManager
<1>2. engine = [u \in Uids |-> None] /\ doing = None
  BY <1>1, DownFacts
<1>3. Grows /\ \A u \in Uids : row'[u] # row[u] => "restored" \in why'[u]
  BY <1>1, Parts DEF RestoreManager, Note, Grows
<1>4. Running' = {} /\ OwnInv' /\ EnginesInv' /\ TransfersInv'
  BY <1>1, <1>2, NothingRuns
<1>5. TypeOK'
  BY <1>1, <1>4, Parts DEF TypeOK
<1>6. Shuffled'
  <2>1. \E u \in Uids : row'[u] # row[u]
    BY <1>1, Parts DEF TypeOK
  <2> QED
    BY <1>3, <2>1 DEF Shuffled
<1>7. PresenceInv'
  <2>1. ASSUME NEW u \in Uids
        PROVE  /\ aside[u] # None => db[u] = None /\ "lost" \in why'[u]
               /\ row'[u] # None => Loadable(u)' \/ why'[u] \cap Strange # {}
               /\ row'[u] # None /\ db[u] # None /\ db[u].user = None => why'[u] \cap Cut # {}
               /\ row'[u] # None /\ aside[u] # None /\ aside[u].user = None => why'[u] \cap Cut # {}
    <3>1. CASE row'[u] = row[u]
      BY <1>1, <1>2, <1>3, <3>1, Parts DEF PresenceInv, Binds, Loadable, Sound, Grows, Strange, Cut
    <3>2. CASE row'[u] # row[u]
      BY <1>3, <3>2, Parts DEF PresenceInv, Strange, Cut, Grows
    <3> QED
      BY <3>1, <3>2
  <2> QED
    BY <1>1, <1>2, <2>1 DEF PresenceInv, Binds
<1>8. ApartInv'
  <2>1. \A u \in Uids : Can(u)' => Can(u)
    BY <1>1 DEF Can, Binds
  <2>2. ASSUME NEW u \in Uids, NEW v \in Uids, u # v, row'[u] # None, row'[v] # None, Overlap(row'[u], row'[v]),
               Can(u), Can(v)
        PROVE  (why'[u] \cup why'[v]) \cap Displaced # {}
    <3>1. CASE row'[u] = row[u] /\ row'[v] = row[v]
      <4>1. (why[u] \cup why[v]) \cap Displaced # {}
        BY <2>2, <3>1, Parts DEF ApartInv
      <4> QED
        BY <1>3, <4>1 DEF Grows
    <3>2. CASE row'[u] # row[u] \/ row'[v] # row[v]
      BY <1>3, <3>2 DEF Displaced
    <3> QED
      BY <3>1, <3>2
  <2> QED
    BY <1>1, <1>6, <2>1, <2>2 DEF ApartInv, Overlap
<1>9. MarkInv' /\ FailInv'
  BY <1>1, <1>6 DEF MarkInv, FailInv
<1> QED
  BY <1>3, <1>4, <1>5, <1>7, <1>8, <1>9, Whole DEF Grows

(* A database is put aside. *)
LEMMA LoseDatabaseKeeps ==
  ASSUME AccountsInv, NEW x \in Uids, LoseDatabase(x)
  PROVE  AccountsInv'
<1>1. /\ life = "down" /\ db[x] # None
      /\ db' = [db EXCEPT ![x] = None] /\ aside' = [aside EXCEPT ![x] = db[x]]
      /\ UNCHANGED <<life, mode, sync, defs, row, saved, folder, engine, doing, pending>>
  BY DEF LoseDatabase
<1>2. engine = [u \in Uids |-> None] /\ doing = None
  BY <1>1, DownFacts
<1>3. Grows /\ "lost" \in why'[x]
  BY Parts DEF LoseDatabase, Note, Grows
<1>4. Running' = {} /\ OwnInv' /\ EnginesInv' /\ TransfersInv'
  BY <1>1, <1>2, NothingRuns
<1>5. /\ db' \in [Uids -> Rows \cup {None}] /\ aside' \in [Uids -> Rows \cup {None}]
      /\ db'[x] = None /\ aside'[x] = db[x]
      /\ \A u \in Uids \ {x} : db'[u] = db[u] /\ aside'[u] = aside[u]
  BY <1>1, Parts DEF TypeOK
<1>6. TypeOK'
  BY <1>1, <1>4, <1>5, Parts DEF TypeOK
<1>7. PresenceInv'
  <2>1. ASSUME NEW u \in Uids
        PROVE  /\ aside'[u] # None => db'[u] = None /\ "lost" \in why'[u]
               /\ row[u] # None => Loadable(u)' \/ why'[u] \cap Strange # {}
               /\ row[u] # None /\ db'[u] # None /\ db'[u].user = None => why'[u] \cap Cut # {}
               /\ row[u] # None /\ aside'[u] # None /\ aside'[u].user = None => why'[u] \cap Cut # {}
    <3>1. CASE u = x
      BY <1>1, <1>2, <1>3, <1>5, <3>1, Parts DEF PresenceInv, Binds, Grows, Strange, Cut
    <3>2. CASE u # x
      BY <1>1, <1>2, <1>3, <1>5, <3>2, Parts DEF PresenceInv, Binds, Loadable, Sound, Grows, Strange, Cut
    <3> QED
      BY <3>1, <3>2
  <2> QED
    BY <1>1, <1>2, <2>1 DEF PresenceInv, Binds
<1>8. ApartInv'
  <2>1. \A u \in Uids : Can(u)' => Can(u)
    BY <1>1, <1>5 DEF Can, Binds
  <2>2. \A u, v \in Uids : (why[u] \cup why[v]) \cap Displaced # {} => (why'[u] \cup why'[v]) \cap Displaced # {}
    BY <1>3 DEF Grows
  <2>3. Shuffled => Shuffled'
    BY <1>3, ShuffledGrows
  <2> QED
    BY <1>1, <2>1, <2>2, <2>3, Parts DEF ApartInv, Overlap
<1>9. MarkInv'
  <2>1. Shuffled => Shuffled'
    BY <1>3, ShuffledGrows
  <2>2. \A u \in Uids : why[u] \cap Excused # {} => why'[u] \cap Excused # {}
    BY <1>3 DEF Grows
  <2> QED
    BY <1>1, <1>5, <2>1, <2>2, Parts DEF MarkInv, Theirs, HasMark
<1>10. FailInv'
  BY <1>1 DEF FailInv
<1> QED
  BY <1>3, <1>4, <1>6, <1>7, <1>8, <1>9, <1>10, Whole DEF Grows

(* A database is given back. *)
LEMMA GiveBackKeeps ==
  ASSUME AccountsInv, NEW x \in Uids, GiveBack(x)
  PROVE  AccountsInv'
<1>1. /\ life = "down" /\ aside[x] # None
      /\ db' = [db EXCEPT ![x] = aside[x]] /\ aside' = [aside EXCEPT ![x] = None]
      /\ UNCHANGED <<life, mode, sync, defs, row, saved, folder, engine, doing, pending, why>>
  BY DEF GiveBack
<1>2. engine = [u \in Uids |-> None] /\ doing = None
  BY <1>1, DownFacts
<1>3. Running' = {} /\ OwnInv' /\ EnginesInv' /\ TransfersInv'
  BY <1>1, <1>2, NothingRuns
<1>4. /\ db' \in [Uids -> Rows \cup {None}] /\ aside' \in [Uids -> Rows \cup {None}]
      /\ db'[x] = aside[x] /\ aside'[x] = None /\ "lost" \in why[x]
      /\ \A u \in Uids \ {x} : db'[u] = db[u] /\ aside'[u] = aside[u]
  BY <1>1, Parts DEF TypeOK, PresenceInv
<1>5. TypeOK'
  BY <1>1, <1>3, <1>4, Parts DEF TypeOK
<1>6. PresenceInv'
  <2>1. ASSUME NEW u \in Uids
        PROVE  /\ aside'[u] # None => db'[u] = None /\ "lost" \in why[u]
               /\ row[u] # None => Loadable(u)' \/ why[u] \cap Strange # {}
               /\ row[u] # None /\ db'[u] # None /\ db'[u].user = None => why[u] \cap Cut # {}
               /\ row[u] # None /\ aside'[u] # None /\ aside'[u].user = None => why[u] \cap Cut # {}
    <3>1. CASE u = x
      BY <1>1, <1>2, <1>4, <3>1, Parts DEF PresenceInv, Binds, Strange
    <3>2. CASE u # x
      BY <1>1, <1>2, <1>4, <3>2, Parts DEF PresenceInv, Binds, Loadable, Sound
    <3> QED
      BY <3>1, <3>2
  <2> QED
    BY <1>1, <1>2, <2>1 DEF PresenceInv, Binds
<1>7. ApartInv'
  <2>1. \A u \in Uids \ {x} : Can(u)' => Can(u)
    BY <1>1, <1>4 DEF Can, Binds
  <2> QED
    BY <1>1, <1>4, <2>1, Parts DEF ApartInv, Overlap, Shuffled, Displaced
<1>8. MarkInv'
  BY <1>1, <1>4, Parts DEF MarkInv, Theirs, HasMark, Shuffled
<1>9. FailInv'
  BY <1>1 DEF FailInv
<1> QED
  BY <1>1, <1>3, <1>5, <1>6, <1>7, <1>8, <1>9, Parts, Whole

(* A new engine fits, whatever has been done to its account. *)
LEMMA NewEngineFacts ==
  ASSUME AccountsInv, NEW f \in Folders
  PROVE  /\ NewEngine(f) \in EngineStates /\ NewEngine(f) # None
         /\ NewEngine(f).base = f /\ NewEngine(f).at = f
         /\ ~NewEngine(f).invalid /\ NewEngine(f).loop = "off" /\ ~NewEngine(f).paused
         /\ NewEngine(f).queue /\ ~NewEngine(f).sends
<1>1. NewEngine(f) \in EngineStates
  BY Parts DEF NewEngine, EngineStates, TypeOK
<1> QED
  BY <1>1, Apart DEF NewEngine

(* The application is launched, or fails to. *)
LEMMA LaunchKeeps ==
  ASSUME AccountsInv, Launch
  PROVE  AccountsInv'
<1>1. life = "down" /\ UNCHANGED <<sync, row, saved, db, aside, doing>>
  BY DEF Launch
<1>2. Running = {} /\ engine = [u \in Uids |-> None] /\ doing = None
  BY <1>1, DownFacts
<1>3. CASE \E u \in Uids : Clashes(u)
  <2>1. life' = "failed" /\ UNCHANGED <<mode, defs, folder, engine, pending, why>>
    BY <1>3 DEF Launch
  <2>2. Running' = {} /\ OwnInv' /\ EnginesInv' /\ TransfersInv'
    BY <1>2, <2>1, NothingRuns
  <2>3. TypeOK'
    BY <1>1, <2>1, <2>2, Parts DEF TypeOK
  <2>4. PresenceInv'
    BY <1>1, <1>2, <2>1, Parts DEF PresenceInv, Loadable, Sound, Binds
  <2>5. ApartInv'
    BY <1>1, <2>1, Parts DEF ApartInv, Can, Binds, Shuffled, Overlap
  <2>6. MarkInv'
    BY <1>1, <2>1, Parts DEF MarkInv, Theirs, Shuffled, HasMark
  <2>7. FailInv'
    <3>1. PICK u \in Uids : Clashes(u)
      BY <1>3
    <3>2. /\ row[u] # None /\ db[u] # None /\ HasMark(row[u]) /\ folder[row[u]] # db[u].user
      BY <3>1 DEF Clashes, Sound
    <3>3. Shuffled \/ why[u] \cap (Excused \cup {"crashed"}) # {}
      <4>1. CASE db[u].user = None
        BY <1>2, <3>2, <4>1, Parts DEF PresenceInv, Binds, Cut, Shuffled
      <4>2. CASE db[u].user # None
        BY <3>2, <4>2, Parts DEF MarkInv, Theirs
      <4> QED
        BY <4>1, <4>2
    <3> QED
      BY <2>1, <3>3 DEF FailInv, Shuffled
  <2> QED
    BY <2>1, <2>2, <2>3, <2>4, <2>5, <2>6, <2>7, Parts, Whole
<1>4. CASE ~\E u \in Uids : Clashes(u)
  <2>1. /\ life' = "up" /\ mode' = [mode EXCEPT !.paused = FALSE, !.restart = FALSE, !.first = TRUE]
        /\ defs' = [u \in Uids |-> IF Loadable(u) THEN row[u] ELSE None]
        /\ engine' = [u \in Uids |-> IF Loadable(u) THEN NewEngine(row[u]) ELSE None]
        /\ pending' \subseteq Uids
    BY <1>4 DEF Launch
  <2>2. /\ folder' \in [Folders -> Users \cup {"absent", "plain"}]
        /\ \A f \in Folders : folder'[f] \in Users => folder'[f] = folder[f]
    BY <1>4, Parts, MarksAssumption DEF Launch, TypeOK
  <2>3. /\ why' = [u \in Uids |-> why'[u]]
        /\ \A u \in Uids : \A x \in {"lost", "crashed", "restored", "moved", "another user", "unchecked"} :
              x \in why[u] => x \in why'[u]
    <3> DEFINE gone == {"already", "launched", "bound", "full", "token", "relogin",
                        "recreated", "resumed", "chosen", "root", "twice"}
    <3>1. why' = [u \in Uids |-> why[u] \ gone]
      BY <1>4 DEF Launch
    <3>2. \A x \in {"lost", "crashed", "restored", "moved", "another user", "unchecked"} : x \notin gone
      OBVIOUS
    <3> HIDE DEF gone
    <3> QED
      BY <3>1, <3>2
  <2>4. \A u \in Uids : Loadable(u) => row[u] \in Folders /\ db[u] # None /\ db[u].user \in Users
    BY Parts DEF Loadable, Sound, TypeOK, Rows
  <2>5. \A f \in Folders : /\ NewEngine(f) \in EngineStates /\ NewEngine(f) # None
                          /\ NewEngine(f).base = f /\ NewEngine(f).at = f
                          /\ ~NewEngine(f).invalid /\ NewEngine(f).loop = "off" /\ ~NewEngine(f).paused
                          /\ NewEngine(f).queue /\ ~NewEngine(f).sends
    BY NewEngineFacts
  <2>6. Running' = {u \in Uids : Loadable(u)} /\ \A u \in Running' : engine'[u] = NewEngine(row[u])
    BY <2>1, <2>4, <2>5 DEF Running
  <2>7. ~mode'.paused /\ mode' \in [paused : BOOLEAN, restart : BOOLEAN, first : BOOLEAN, crashed : BOOLEAN]
    BY <2>1, Parts DEF TypeOK
  <2>8. TypeOK'
    <3>1. defs' \in [Uids -> Folders \cup {None}] /\ engine' \in [Uids -> EngineStates \cup {None}]
      BY <2>1, <2>4, <2>5
    <3> QED
      BY <1>1, <2>1, <2>2, <2>4, <2>6, <2>7, <3>1, Parts DEF TypeOK
  <2>9. \A u \in Running' : db'[u].user \in Users
    BY <1>1, <2>4, <2>6
  <2>10. EnginesInv' /\ TransfersInv'
    <3>1. \A u \in Running' : row[u] \in Folders
      BY <2>4, <2>6
    <3> QED
      BY <2>5, <2>6, <2>7, <3>1 DEF EnginesInv, TransfersInv, EngineFits, TransferFits
  <2>11. OwnInv'
    BY <1>1, <2>4, <2>5, <2>6 DEF OwnInv
  <2>12. \A u \in Uids : /\ why[u] \cap Strange # {} => why'[u] \cap Strange # {}
                         /\ why[u] \cap Cut # {} => why'[u] \cap Cut # {}
                         /\ why[u] \cap Excused # {} => why'[u] \cap Excused # {}
    <3>1. \A u \in Uids : /\ why[u] \cap Strange # {} => why'[u] \cap Strange # {}
      BY <2>3 DEF Strange
    <3>2. \A u \in Uids : /\ why[u] \cap Cut # {} => why'[u] \cap Cut # {}
      BY <2>3 DEF Cut
    <3>3. \A u \in Uids : /\ why[u] \cap Excused # {} => why'[u] \cap Excused # {}
      BY <2>3 DEF Excused
    <3> QED
      BY <3>1, <3>2, <3>3
  <2>13. Shuffled => Shuffled'
    BY <2>3 DEF Shuffled
  <2>14. PresenceInv'
    <3>1. ASSUME NEW u \in Uids
          PROVE  /\ aside[u] # None => db[u] = None /\ "lost" \in why'[u]
                 /\ engine'[u] # None => row[u] # None
                 /\ row[u] # None /\ engine'[u] = None => why'[u] \cap Strange # {}
                 /\ row[u] # None /\ db[u] # None /\ db[u].user = None => why'[u] \cap Cut # {}
                 /\ row[u] # None /\ aside[u] # None /\ aside[u].user = None => why'[u] \cap Cut # {}
      <4>1. /\ aside[u] # None => db[u] = None /\ "lost" \in why[u]
            /\ row[u] # None => Loadable(u) \/ why[u] \cap Strange # {}
            /\ row[u] # None /\ db[u] # None /\ db[u].user = None => why[u] \cap Cut # {}
            /\ row[u] # None /\ aside[u] # None /\ aside[u].user = None => why[u] \cap Cut # {}
        BY <1>2, Parts DEF PresenceInv, Binds
      <4>2. engine'[u] = None <=> ~Loadable(u)
        BY <2>1, <2>4, <2>5
      <4> QED
        BY <2>3, <2>12, <4>1, <4>2 DEF Loadable, Sound
    <3> QED
      BY <1>1, <1>2, <3>1 DEF PresenceInv, Binds
  <2>15. ApartInv'
    <3>1. \A u, v \in Uids : (why[u] \cup why[v]) \cap Displaced # {} => (why'[u] \cup why'[v]) \cap Displaced # {}
      BY <2>3 DEF Displaced
    <3>2. \A u \in Uids : Can(u)' <=> Can(u)
      BY <1>1 DEF Can, Binds
    <3>3. \A u \in Uids : row[u] # None /\ Can(u) => defs'[u] = row[u]
      BY <1>2, <2>1 DEF Can, Binds, Loadable, Sound
    <3> QED
      BY <1>1, <2>13, <3>1, <3>2, <3>3, Parts DEF ApartInv, Overlap
  <2>16. MarkInv'
    <3>1. \A u \in Uids : row[u] # None => row[u] \in Folders
      BY Parts DEF TypeOK
    <3> QED
      BY <1>1, <2>2, <2>12, <2>13, <3>1, Parts DEF MarkInv, Theirs, HasMark
  <2>17. FailInv'
    BY <2>1 DEF FailInv
  <2> QED
    BY <2>3, <2>8, <2>9, <2>10, <2>11, <2>14, <2>15, <2>16, <2>17, Whole
<1> QED
  BY <1>3, <1>4

-------------------------------------------------------------------------------
(* Accounts are added and removed                                            *)

(* An account is added: the table has it, and a blank database. *)
LEMMA BindBeginsKeeps ==
  ASSUME AccountsInv, NEW u \in Uids, NEW f \in Folders, NEW user \in Users, NEW nocheck \in BOOLEAN,
         BindBegins(u, f, user, nocheck)
  PROVE  AccountsInv'
<1>1. /\ life = "up" /\ doing = None /\ row[u] = None /\ db[u] = None /\ aside[u] = None
      /\ Available(f) /\ \A v \in Uids : row[v] # f
      /\ row' = [row EXCEPT ![u] = f] /\ db' = [db EXCEPT ![u] = Blank]
      /\ doing' = [what |-> "bind", uid |-> u, user |-> user, nocheck |-> nocheck]
      /\ why' = [why EXCEPT ![u] = @ \cap {"moved", "restored"}]
      /\ UNCHANGED <<life, mode, sync, defs, saved, aside, folder, engine, pending>>
  BY DEF BindBegins, Ready
<1>2. engine[u] = None
  BY <1>1, Parts DEF PresenceInv
<1>3. /\ row' \in [Uids -> Folders \cup {None}] /\ row'[u] = f /\ f # None
      /\ \A v \in Uids \ {u} : row'[v] = row[v]
  BY <1>1, Apart, Parts DEF TypeOK
<1>4. Blank \in Rows /\ Blank.user = None /\ Blank # None
  <2>1. Blank \in Rows /\ Blank.user = None
    BY DEF Blank, Rows
  <2> QED
    BY <2>1, Apart
<1>5. /\ db' \in [Uids -> Rows \cup {None}] /\ db'[u] = Blank
      /\ \A v \in Uids \ {u} : db'[v] = db[v]
  BY <1>1, <1>4, Parts DEF TypeOK
<1>6. doing' \in Doings /\ doing' # None /\ doing'.what = "bind" /\ doing'.uid = u
  <2>1. doing' \in Doings
    BY <1>1 DEF Doings
  <2> QED
    BY <1>1, <2>1, Apart
<1>7. /\ why' = [v \in Uids |-> why'[v]]
      /\ \A v \in Uids \ {u} : why'[v] = why[v]
      /\ \A x \in {"moved", "restored"} : x \in why[u] => x \in why'[u]
  BY <1>1, Parts
<1>8. Running' = Running /\ u \notin Running
  BY <1>1, <1>2 DEF Running
<1>9. TypeOK'
  BY <1>1, <1>3, <1>5, <1>6, <1>8, Parts DEF TypeOK, Running
<1>10. \A v \in Running' : db'[v].user \in Users
  BY <1>5, <1>8, Parts DEF Running
<1>11. ASSUME NEW v \in Running
       PROVE  /\ v \in Uids \ {u} /\ engine'[v] = engine[v] /\ db'[v] = db[v] /\ why'[v] = why[v] /\ row'[v] = row[v]
  BY <1>1, <1>3, <1>5, <1>7, <1>8 DEF Running
<1>12. EnginesInv' /\ TransfersInv' /\ OwnInv'
  BY <1>1, <1>8, <1>11, Parts DEF AccountsInv, EnginesInv, TransfersInv, OwnInv
<1>13. Shuffled => Shuffled'
  BY <1>7 DEF Shuffled
<1>14. \A v \in Uids : Binds(v)' <=> v = u
  BY <1>6 DEF Binds
<1>15. \A v \in Uids \ {u} : Can(v)' <=> Can(v) /\ db[v] # None /\ db[v].user # None
  BY <1>1, <1>5, <1>14 DEF Can, Binds
<1>16. PresenceInv'
  <2>1. ASSUME NEW v \in Uids
        PROVE  /\ aside'[v] # None => db'[v] = None /\ "lost" \in why'[v]
               /\ engine'[v] # None => row'[v] # None
               /\ row'[v] # None /\ engine'[v] = None => doing'.uid = v \/ why'[v] \cap Strange # {}
               /\ row'[v] # None /\ db'[v] # None /\ db'[v].user = None => Binds(v)' \/ why'[v] \cap Cut # {}
               /\ row'[v] # None /\ aside'[v] # None /\ aside'[v].user = None => why'[v] \cap Cut # {}
    <3>1. CASE v = u
      BY <1>1, <1>2, <1>6, <1>14, <3>1
    <3>2. CASE v # u
      BY <1>1, <1>3, <1>5, <1>7, <3>2, Parts DEF PresenceInv, Binds
    <3> QED
      BY <3>1, <3>2
  <2> QED
    BY <1>1, <1>2, <1>3, <1>4, <1>5, <1>6, <2>1 DEF PresenceInv
<1>17. ASSUME NEW v \in Uids \ {u}, row[v] # None, Can(v)
       PROVE  ~Overlap(f, row[v]) \/ "moved" \in why[v]
  <2>1. defs[v] = row[v] \/ "moved" \in why[v]
    BY <1>1, <1>17, Parts DEF ApartInv, Binds
  <2>2. defs[v] # None => ~Overlap(f, defs[v])
    BY <1>1 DEF Available, AvailableIf
  <2> QED
    BY <1>17, <2>1, <2>2
<1>18. ApartInv'
  <2>1. \A v \in Uids : row'[v] # None /\ Can(v)' /\ ~Binds(v)' => defs'[v] = row'[v] \/ "moved" \in why'[v]
    BY <1>1, <1>3, <1>7, <1>14, <1>15, Parts DEF ApartInv, Binds
  <2>2. ASSUME NEW v \in Uids, NEW w \in Uids, v # w, row'[v] # None, row'[w] # None, Overlap(row'[v], row'[w]),
               Can(v)', Can(w)'
        PROVE  (why'[v] \cup why'[w]) \cap Displaced # {}
    <3>1. CASE v = u
      BY <1>3, <1>7, <1>15, <1>17, <2>2, <3>1 DEF Displaced
    <3>2. CASE w = u
      <4>1. Overlap(f, row[v])
        BY <1>3, <2>2, <3>2 DEF Overlap
      <4> QED
        BY <1>3, <1>7, <1>15, <1>17, <2>2, <3>2, <4>1 DEF Displaced
    <3>3. CASE v # u /\ w # u
      BY <1>3, <1>7, <1>15, <2>2, <3>3, Parts DEF ApartInv
    <3> QED
      BY <3>1, <3>2, <3>3
  <2>3. \A v, w \in Uids : v # w /\ row'[v] # None /\ row'[v] = row'[w] => Shuffled'
    BY <1>1, <1>3, <1>13, Parts DEF ApartInv
  <2> QED
    BY <2>1, <2>2, <2>3 DEF ApartInv, Overlap
<1>19. MarkInv'
  BY <1>1, <1>3, <1>4, <1>5, <1>7, <1>13, Parts DEF MarkInv, Theirs, HasMark
<1>20. FailInv'
  BY <1>1 DEF FailInv
<1> QED
  BY <1>7, <1>9, <1>10, <1>12, <1>16, <1>18, <1>19, <1>20, Whole

(* The addition fails, and is undone. *)
LEMMA BindFailsKeeps ==
  ASSUME AccountsInv, BindFails
  PROVE  AccountsInv'
<1>1. PICK u : u = doing.uid
  OBVIOUS
<1>2. /\ life = "up" /\ doing # None /\ doing.what = "bind" /\ doing' = None
      /\ row' = [row EXCEPT ![u] = None] /\ db' = [db EXCEPT ![u] = None]
      /\ UNCHANGED <<life, mode, sync, defs, saved, aside, folder, engine, pending, why>>
  BY <1>1 DEF BindFails, Binding
<1>3. u \in Uids
  BY <1>1, <1>2, Parts DEF TypeOK, Doings
<1>4. /\ row' \in [Uids -> Folders \cup {None}] /\ row'[u] = None
      /\ \A v \in Uids \ {u} : row'[v] = row[v]
      /\ db' \in [Uids -> Rows \cup {None}] /\ db'[u] = None
      /\ \A v \in Uids \ {u} : db'[v] = db[v]
  BY <1>2, <1>3, Parts DEF TypeOK
<1>5. engine[u] = None /\ db[u] # None /\ aside[u] = None
  BY <1>1, <1>2, <1>3, Parts DEF PresenceInv
<1>6. Running' = Running /\ u \notin Running
  BY <1>2, <1>5 DEF Running
<1>7. TypeOK'
  BY <1>2, <1>4, <1>6, Parts DEF TypeOK, Running
<1>8. \A v \in Running' : db'[v].user \in Users
  BY <1>4, <1>6, Parts DEF Running
<1>9. ASSUME NEW v \in Running
      PROVE  /\ v \in Uids \ {u} /\ engine'[v] = engine[v] /\ db'[v] = db[v] /\ why'[v] = why[v] /\ row'[v] = row[v]
  BY <1>2, <1>4, <1>6 DEF Running
<1>10. EnginesInv' /\ TransfersInv' /\ OwnInv'
  BY <1>2, <1>6, <1>9, Parts DEF AccountsInv, EnginesInv, TransfersInv, OwnInv
<1>11. \A v \in Uids \ {u} : ~Binds(v) /\ ~Binds(v)' /\ (Can(v)' <=> Can(v))
  BY <1>1, <1>2, <1>4 DEF Binds, Can
<1>12. PresenceInv'
  <2>1. ASSUME NEW v \in Uids
        PROVE  /\ aside'[v] # None => db'[v] = None /\ "lost" \in why'[v]
               /\ engine'[v] # None => row'[v] # None
               /\ row'[v] # None /\ engine'[v] = None => why'[v] \cap Strange # {}
               /\ row'[v] # None /\ db'[v] # None /\ db'[v].user = None => why'[v] \cap Cut # {}
               /\ row'[v] # None /\ aside'[v] # None /\ aside'[v].user = None => why'[v] \cap Cut # {}
    <3>1. CASE v = u
      BY <1>2, <1>4, <1>5, <3>1
    <3>2. CASE v # u
      BY <1>1, <1>2, <1>4, <1>11, <3>2, Parts DEF PresenceInv
    <3> QED
      BY <3>1, <3>2
  <2> QED
    BY <1>2, <2>1 DEF PresenceInv
<1>13. ApartInv'
  BY <1>2, <1>3, <1>4, <1>11, Parts DEF ApartInv, Overlap, Shuffled
<1>14. MarkInv'
  BY <1>2, <1>4, Parts DEF MarkInv, Theirs, HasMark, Shuffled
<1>15. FailInv'
  BY <1>2 DEF FailInv
<1> QED
  BY <1>2, <1>7, <1>8, <1>10, <1>12, <1>13, <1>14, <1>15, Parts, Whole

(* An account is removed: its database first. *)
LEMMA UnbindBeginsKeeps ==
  ASSUME AccountsInv, NEW u \in Uids, UnbindBegins(u)
  PROVE  AccountsInv'
<1>1. /\ life = "up" /\ doing = None /\ engine[u] # None
      /\ db' = [db EXCEPT ![u] = None] /\ engine' = [engine EXCEPT ![u] = None]
      /\ pending' = pending \ {u} /\ doing' = [what |-> "unbind", uid |-> u, base |-> engine[u].base]
      /\ UNCHANGED <<life, mode, sync, defs, row, saved, aside, folder, why>>
  BY DEF UnbindBegins, Ready
<1>2. /\ engine' \in [Uids -> EngineStates \cup {None}] /\ engine'[u] = None
      /\ \A v \in Uids \ {u} : engine'[v] = engine[v]
      /\ db' \in [Uids -> Rows \cup {None}] /\ db'[u] = None
      /\ \A v \in Uids \ {u} : db'[v] = db[v]
  BY <1>1, Parts DEF TypeOK
<1>3. u \in Running /\ db[u] # None /\ row[u] # None /\ aside[u] = None
  <2>1. u \in Running
    BY <1>1 DEF Running
  <2> QED
    BY <1>1, <2>1, Parts DEF TypeOK, PresenceInv
<1>4. Running' = Running \ {u}
  BY <1>2 DEF Running
<1>5. doing' \in Doings /\ doing' # None /\ doing'.what = "unbind" /\ doing'.uid = u
  <2>1. engine[u] \in EngineStates
    BY <1>1, Parts DEF TypeOK
  <2>2. engine[u].base \in Folders
    BY <2>1 DEF EngineStates
  <2>3. doing' \in Doings
    BY <1>1, <2>2 DEF Doings
  <2> QED
    BY <1>1, <2>3, Apart
<1>6. TypeOK'
  BY <1>1, <1>2, <1>4, <1>5, Parts DEF TypeOK, Running
<1>7. \A v \in Running' : v \in Running /\ engine'[v] = engine[v] /\ db'[v] = db[v] /\ why'[v] = why[v] /\ db'[v].user \in Users
  BY <1>1, <1>2, <1>4, Parts DEF Running
<1>8. EnginesInv' /\ TransfersInv' /\ OwnInv'
  BY <1>1, <1>7, Parts DEF AccountsInv, EnginesInv, TransfersInv, OwnInv
<1>9. \A v \in Uids : ~Binds(v) /\ ~Binds(v)'
  BY <1>1, <1>5 DEF Binds
<1>10. PresenceInv'
  <2>1. ASSUME NEW v \in Uids
        PROVE  /\ aside'[v] # None => db'[v] = None /\ "lost" \in why'[v]
               /\ engine'[v] # None => row'[v] # None
               /\ row'[v] # None /\ engine'[v] = None => doing'.uid = v \/ why'[v] \cap Strange # {}
               /\ row'[v] # None /\ db'[v] # None /\ db'[v].user = None => why'[v] \cap Cut # {}
               /\ row'[v] # None /\ aside'[v] # None /\ aside'[v].user = None => why'[v] \cap Cut # {}
    <3>1. CASE v = u
      BY <1>1, <1>2, <1>3, <1>5, <3>1
    <3>2. CASE v # u
      BY <1>1, <1>2, <1>9, <3>2, Parts DEF PresenceInv
    <3> QED
      BY <3>1, <3>2
  <2> QED
    BY <1>1, <1>2, <1>3, <1>5, <2>1 DEF PresenceInv
<1>11. ApartInv'
  <2>1. \A v \in Uids : Can(v)' => Can(v)
    BY <1>2, <1>9 DEF Can
  <2> QED
    BY <1>1, <1>9, <2>1, Parts DEF ApartInv, Overlap, Shuffled
<1>12. MarkInv'
  BY <1>1, <1>2, Parts DEF MarkInv, Theirs, HasMark, Shuffled
<1>13. FailInv'
  BY <1>1 DEF FailInv
<1> QED
  BY <1>1, <1>6, <1>7, <1>8, <1>10, <1>11, <1>12, <1>13, Parts, Whole

(* The removal ends. *)
LEMMA UnbindEndsKeeps ==
  ASSUME AccountsInv, NEW purge \in BOOLEAN, UnbindEnds(purge)
  PROVE  AccountsInv'
<1>1. PICK u : u = doing.uid
  OBVIOUS
<1>2. /\ life = "up" /\ doing # None /\ doing.what = "unbind" /\ doing' = None
      /\ row' = [row EXCEPT ![u] = None]
      /\ defs' = [v \in Uids |-> IF v = u THEN None ELSE row[v]]
      /\ UNCHANGED <<life, mode, sync, saved, db, aside, engine, pending, why>>
  BY <1>1 DEF UnbindEnds
<1>3. u \in Uids
  BY <1>1, <1>2, Parts DEF TypeOK, Doings
<1>4. /\ folder' \in [Folders -> Users \cup {"absent", "plain"}]
      /\ \A g \in Folders : folder'[g] \in Users => folder'[g] = folder[g]
  BY Parts, MarksAssumption DEF UnbindEnds, TypeOK
<1>5. /\ row' \in [Uids -> Folders \cup {None}] /\ row'[u] = None /\ defs' \in [Uids -> Folders \cup {None}]
      /\ \A v \in Uids \ {u} : row'[v] = row[v] /\ defs'[v] = row[v]
  BY <1>2, <1>3, Parts DEF TypeOK
<1>6. engine[u] = None /\ db[u] = None
  BY <1>1, <1>2, <1>3, Parts DEF PresenceInv
<1>7. Running' = Running /\ u \notin Running
  BY <1>2, <1>6 DEF Running
<1>8. TypeOK'
  BY <1>2, <1>4, <1>5, <1>7, Parts DEF TypeOK
<1>9. ASSUME NEW v \in Running
      PROVE  /\ v \in Uids \ {u} /\ engine'[v] = engine[v] /\ db'[v] = db[v] /\ why'[v] = why[v] /\ row'[v] = row[v]
  BY <1>2, <1>5, <1>7 DEF Running
<1>10. EnginesInv' /\ TransfersInv' /\ OwnInv'
  BY <1>2, <1>7, <1>9, Parts DEF AccountsInv, EnginesInv, TransfersInv, OwnInv
<1>11. \A v \in Uids : ~Binds(v) /\ ~Binds(v)' /\ (Can(v)' <=> Can(v))
  BY <1>2 DEF Binds, Can
<1>12. PresenceInv'
  <2>1. ASSUME NEW v \in Uids
        PROVE  /\ aside'[v] # None => db'[v] = None /\ "lost" \in why'[v]
               /\ engine'[v] # None => row'[v] # None
               /\ row'[v] # None /\ engine'[v] = None => why'[v] \cap Strange # {}
               /\ row'[v] # None /\ db'[v] # None /\ db'[v].user = None => why'[v] \cap Cut # {}
               /\ row'[v] # None /\ aside'[v] # None /\ aside'[v].user = None => why'[v] \cap Cut # {}
    <3>1. CASE v = u
      BY <1>2, <1>5, <1>6, <3>1, Parts DEF PresenceInv
    <3>2. CASE v # u
      BY <1>1, <1>2, <1>5, <1>11, <3>2, Parts DEF PresenceInv
    <3> QED
      BY <3>1, <3>2
  <2> QED
    BY <1>2, <2>1 DEF PresenceInv
<1>13. ApartInv'
  BY <1>2, <1>5, <1>11, Parts DEF ApartInv, Overlap, Shuffled
<1>14. MarkInv'
  <2>1. \A v \in Uids : row[v] # None => row[v] \in Folders
    BY Parts DEF TypeOK
  <2> QED
    BY <1>2, <1>4, <1>5, <2>1, Parts DEF MarkInv, Theirs, HasMark, Shuffled
<1>15. FailInv'
  BY <1>2 DEF FailInv
<1> QED
  BY <1>2, <1>7, <1>8, <1>10, <1>12, <1>13, <1>14, <1>15, Parts, Whole

(* The account that is added: there, and nothing runs for it. *)
LEMMA Added ==
  ASSUME AccountsInv, Binding, NEW u, u = doing.uid
  PROVE  /\ u \in Uids /\ life = "up" /\ doing \in Doings /\ doing.user \in Users
         /\ row[u] # None /\ row[u] \in Folders /\ db[u] # None /\ db[u] \in Rows
         /\ engine[u] = None /\ aside[u] = None /\ Binds(u)
<1>1. life = "up" /\ doing # None /\ doing.what = "bind"
  BY DEF Binding
<1>2. doing \in Doings
  BY <1>1, Parts DEF TypeOK
<1>3. u \in Uids /\ doing.user \in Users
  BY <1>1, <1>2 DEF Doings
<1>4. row[u] # None /\ engine[u] = None /\ db[u] # None
  BY <1>1, Parts DEF PresenceInv
<1>5. aside[u] = None
  BY <1>3, <1>4, Parts DEF PresenceInv
<1> QED
  BY <1>1, <1>2, <1>3, <1>4, <1>5, Parts DEF Binds, TypeOK

(* The configuration of the account is written. *)
LEMMA BindWritesKeeps ==
  ASSUME AccountsInv, BindWrites
  PROVE  AccountsInv'
<1>1. PICK u : u = doing.uid
  OBVIOUS
<1>2. /\ u \in Uids /\ life = "up" /\ doing.user \in Users
      /\ row[u] # None /\ row[u] \in Folders /\ db[u] # None /\ db[u] \in Rows
      /\ engine[u] = None /\ aside[u] = None /\ Binds(u)
  BY <1>1, Added DEF BindWrites
<1>3. PICK f : f = row[u]
  OBVIOUS
<1>4. /\ db' = [db EXCEPT ![u].user = doing.user, ![u].conf = sync]
      /\ folder' = [folder EXCEPT ![f] = IF sync /\ @ = "absent" THEN "plain" ELSE @]
      /\ Note(IF HasMark(f) /\ folder[f] # doing.user THEN {u} ELSE {}, "unchecked")
      /\ UNCHANGED <<life, mode, sync, defs, row, saved, aside, engine, doing, pending>>
  BY <1>1, <1>3 DEF BindWrites
<1>5. /\ db' \in [Uids -> Rows \cup {None}]
      /\ db'[u] \in Rows /\ db'[u].user = doing.user /\ db'[u] # None
      /\ \A v \in Uids \ {u} : db'[v] = db[v]
  <2>1. PICK d : d = [db[u] EXCEPT !.user = doing.user, !.conf = sync]
    OBVIOUS
  <2>2. sync \in BOOLEAN /\ db \in [Uids -> Rows \cup {None}]
    BY Parts DEF TypeOK
  <2>3. d \in Rows /\ d.user = doing.user
    BY <1>2, <2>1, <2>2 DEF Rows
  <2>4. db' = [db EXCEPT ![u] = d]
    BY <1>2, <1>4, <2>1, <2>2
  <2> QED
    BY <1>2, <2>2, <2>3, <2>4, Apart
<1>6. /\ folder' \in [Folders -> Users \cup {"absent", "plain"}]
      /\ \A g \in Folders : folder'[g] \in Users => folder'[g] = folder[g]
  BY <1>2, <1>3, <1>4, Parts, MarksAssumption DEF TypeOK
<1>7. Grows /\ (HasMark(f) /\ folder[f] # doing.user => "unchecked" \in why'[u])
  <2>1. PICK us : us = IF HasMark(f) /\ folder[f] # doing.user THEN {u} ELSE {}
    OBVIOUS
  <2>2. why' = [v \in Uids |-> IF v \in us THEN why[v] \cup {"unchecked"} ELSE why[v]]
    BY <1>4, <2>1 DEF Note
  <2> QED
    BY <1>2, <2>1, <2>2 DEF Grows
<1>8. Running' = Running /\ u \notin Running
  BY <1>2, <1>4 DEF Running
<1>9. TypeOK'
  BY <1>2, <1>4, <1>5, <1>6, <1>8, Parts DEF TypeOK, Running
<1>10. \A v \in Running' : v \in Running /\ engine'[v] = engine[v] /\ db'[v] = db[v] /\ why[v] \subseteq why'[v]
  BY <1>4, <1>5, <1>7, <1>8 DEF Running, Grows
<1>11. EnginesInv' /\ TransfersInv' /\ OwnInv'
  BY <1>4, <1>10, EnginesStay
<1>12. \A v \in Uids : (Binds(v)' <=> Binds(v)) /\ (Can(v)' <=> Can(v))
  BY <1>2, <1>4, <1>5 DEF Binds, Can
<1>13. PresenceInv'
  <2>1. ASSUME NEW v \in Uids
        PROVE  /\ aside'[v] # None => db'[v] = None /\ "lost" \in why'[v]
               /\ engine'[v] # None => row'[v] # None
               /\ row'[v] # None /\ engine'[v] = None => doing'.uid = v \/ why'[v] \cap Strange # {}
               /\ row'[v] # None /\ db'[v] # None /\ db'[v].user = None => Binds(v)' \/ why'[v] \cap Cut # {}
               /\ row'[v] # None /\ aside'[v] # None /\ aside'[v].user = None => why'[v] \cap Cut # {}
    <3>1. CASE v = u
      BY <1>1, <1>2, <1>4, <1>12, <3>1
    <3>2. CASE v # u
      <4>1. why[v] \subseteq why'[v]
        BY <1>7 DEF Grows
      <4>2. /\ why[v] \cap Strange # {} => why'[v] \cap Strange # {}
            /\ why[v] \cap Cut # {} => why'[v] \cap Cut # {}
        BY <4>1
      <4> QED
        BY <1>2, <1>4, <1>5, <1>12, <3>2, <4>1, <4>2, Parts DEF PresenceInv
    <3> QED
      BY <3>1, <3>2
  <2> QED
    BY <1>1, <1>2, <1>4, <1>5, <2>1, Parts DEF PresenceInv, Binds
<1>14. ApartInv'
  <2>1. Shuffled => Shuffled'
    BY <1>7, ShuffledGrows
  <2>2. \A v, w \in Uids : (why[v] \cup why[w]) \cap Displaced # {} => (why'[v] \cup why'[w]) \cap Displaced # {}
    BY <1>7 DEF Grows
  <2> QED
    BY <1>4, <1>7, <1>12, <2>1, <2>2, Parts DEF ApartInv, Overlap, Grows
<1>15. MarkInv'
  <2>1. Shuffled => Shuffled'
    BY <1>7, ShuffledGrows
  <2>2. \A v \in Uids : why[v] \cap Excused # {} => why'[v] \cap Excused # {}
    BY <1>7 DEF Grows
  <2>3. \A v \in Uids \ {u} : row'[v] # None =>
          why'[v] \cap Excused # {} \/ Shuffled' \/ (Theirs(row[v], db[v])' /\ Theirs(row[v], aside[v])')
    <3>1. \A v \in Uids : row[v] # None => row[v] \in Folders
      BY Parts DEF TypeOK
    <3> QED
      BY <1>4, <1>5, <1>6, <2>1, <2>2, <3>1, Parts DEF MarkInv, Theirs, HasMark
  <2>4. why'[u] \cap Excused # {} \/ (Theirs(row[u], db[u])' /\ Theirs(row[u], aside[u])')
    BY <1>2, <1>3, <1>4, <1>5, <1>6, <1>7 DEF Theirs, HasMark, Excused
  <2> QED
    BY <1>2, <2>3, <2>4 DEF MarkInv, Excused
<1>16. FailInv'
  BY <1>2, <1>4 DEF FailInv
<1>17. \A v \in Running' : db'[v].user \in Users
  BY <1>10, Parts
<1> QED
  BY <1>7, <1>9, <1>11, <1>13, <1>14, <1>15, <1>16, <1>17, Whole DEF Grows

(* The engine of the account is there. *)
LEMMA BindEndsKeeps ==
  ASSUME AccountsInv, BindEnds
  PROVE  AccountsInv'
<1>1. PICK u : u = doing.uid
  OBVIOUS
<1>2. /\ u \in Uids /\ life = "up" /\ row[u] # None /\ row[u] \in Folders /\ db[u] # None /\ db[u] \in Rows
      /\ engine[u] = None /\ aside[u] = None /\ Binds(u) /\ db[u].user # None
  BY <1>1, Added DEF BindEnds
<1>3. PICK f : f = row[u]
  OBVIOUS
<1>4. PICK n : n = NewEngine(f)
  OBVIOUS
<1>5. PICK s : s = [State(u) EXCEPT !.engine = n]
  OBVIOUS
<1>6. PICK c : c = CheckRoot(s, FALSE)
  OBVIOUS
<1>7. PICK t : t = IF sync THEN c ELSE StartEngine(u, c, FALSE)
  OBVIOUS
<1>8. /\ Set(u, t) /\ defs' = [defs EXCEPT ![u] = f] /\ doing' = None /\ mode' = [mode EXCEPT !.paused = FALSE]
      /\ Note(Running, "bound") /\ UNCHANGED <<life, sync, row, saved, aside, pending>>
  BY <1>1, <1>3, <1>4, <1>5, <1>6, <1>7 DEF BindEnds
<1>9. /\ n \in EngineStates /\ n # None /\ n.base = f /\ n.at = f
      /\ ~n.invalid /\ n.loop = "off" /\ ~n.paused /\ n.queue /\ ~n.sends
  BY <1>2, <1>3, <1>4, NewEngineFacts
<1>10. s \in Snapshots /\ s.db = db[u] /\ s.engine = n /\ s.folder = folder
  <2>1. db[u] \in BoundRows
    BY <1>2, Apart DEF Rows
  <2>2. folder \in [Folders -> Marks]
    BY Parts DEF TypeOK, Marks
  <2> QED
    BY <1>5, <1>9, <2>1, <2>2 DEF State, Snapshots
<1>11. c \in Snapshots /\ Kin(s, c) /\ c.engine = n
  <2>1. PICK no \in BOOLEAN : ~no
    BY Zenon
  <2>2. c = CheckRoot(s, no)
    BY <1>6, <2>1
  <2> QED
    BY <1>10, <2>1, <2>2, CheckRootFacts DEF Kin
<1>12. /\ Kin(s, t) /\ t.engine.base = f /\ ~t.engine.paused /\ t.engine.queue /\ ~t.engine.invalid
  <2>1. CASE sync
    BY <1>7, <1>9, <1>11, <2>1
  <2>2. CASE ~sync
    <3>1. Kin(c, t) /\ Starts(c, t, FALSE)
      BY <1>7, <1>11, <2>2, StartIs, Zenon
    <3> QED
      BY <1>9, <1>11, <3>1, KinIsTransitive DEF Starts
  <2> QED
    BY <2>1, <2>2
<1>13. /\ t.db \in BoundRows /\ t.db.user = db[u].user /\ t.engine \in EngineStates /\ t.folder \in [Folders -> Marks]
       /\ t.engine.at = f /\ ~t.engine.sends
       /\ \A g \in Folders : \/ t.folder[g] = folder[g] \/ t.folder[g] \notin Users
                             \/ g = f /\ t.folder[g] = db[u].user
  BY <1>9, <1>10, <1>12, Fields DEF Kin, Alike
<1>14. t.db \in Rows /\ t.db # None /\ t.engine # None /\ t.db.user \in Users /\ t.db.user # None
  BY <1>13, Apart DEF BoundRows
<1>15. /\ db' \in [Uids -> Rows \cup {None}] /\ engine' \in [Uids -> EngineStates \cup {None}]
       /\ db'[u] = t.db /\ engine'[u] = t.engine
       /\ \A v \in Uids \ {u} : db'[v] = db[v] /\ engine'[v] = engine[v]
  BY <1>2, <1>8, <1>13, <1>14, Parts DEF Set, TypeOK
<1>16. folder' = t.folder
  BY <1>8 DEF Set
<1>17. Grows /\ \A v \in Running : "bound" \in why'[v]
  BY <1>8 DEF Note, Grows, Running
<1>18. Running' = Running \cup {u} /\ u \notin Running
  BY <1>2, <1>14, <1>15 DEF Running
<1>19. mode' \in [paused : BOOLEAN, restart : BOOLEAN, first : BOOLEAN, crashed : BOOLEAN] /\ ~mode'.paused
  BY <1>8, Parts DEF TypeOK
<1>20. /\ defs' \in [Uids -> Folders \cup {None}] /\ defs'[u] = row[u]
       /\ \A v \in Uids \ {u} : defs'[v] = defs[v]
  BY <1>2, <1>3, <1>8, Parts DEF TypeOK
<1>21. TypeOK'
  <2>1. folder' \in [Folders -> Users \cup {"absent", "plain"}]
    BY <1>13, <1>16 DEF Marks
  <2>2. \A v \in Running' : life' = "up" /\ db'[v] # None
    BY <1>2, <1>8, <1>14, <1>15, <1>18, Parts DEF TypeOK, Running
  <2> QED
    BY <1>8, <1>15, <1>19, <1>20, <2>1, <2>2, Parts DEF TypeOK
<1>22. \A v \in Running' : db'[v].user \in Users
  BY <1>13, <1>14, <1>15, <1>18, Parts DEF Running
<1>23. ASSUME NEW v \in Running
       PROVE  /\ v \in Uids \ {u} /\ engine'[v] = engine[v] /\ db'[v] = db[v] /\ why[v] \subseteq why'[v]
              /\ EngineFits(engine'[v], why'[v], mode'.paused) /\ TransferFits(engine'[v], db'[v], why'[v])
              /\ (engine'[v].base = row[v] /\ engine'[v].at = row[v]) \/ "moved" \in why'[v]
  <2>1. v \in Uids \ {u} /\ engine'[v] = engine[v] /\ db'[v] = db[v] /\ why[v] \subseteq why'[v]
    BY <1>15, <1>17, <1>18 DEF Running, Grows
  <2>2. /\ EngineFits(engine[v], why[v], mode.paused) /\ TransferFits(engine[v], db[v], why[v])
        /\ mode.paused \in BOOLEAN
    BY Account
  <2>3. EngineFits(engine[v], why'[v], mode.paused) /\ TransferFits(engine[v], db[v], why'[v])
    BY <2>1, <2>2 DEF EngineFits, TransferFits
  <2>4. EngineFits(engine[v], why'[v], mode'.paused)
    BY <1>17, <1>19, <2>3 DEF EngineFits
  <2> QED
    BY <2>1, <2>3, <2>4, Parts DEF OwnInv
<1>24. EngineFits(engine'[u], why'[u], mode'.paused) /\ TransferFits(engine'[u], db'[u], why'[u])
  BY <1>12, <1>13, <1>15, <1>19 DEF EngineFits, TransferFits
<1>25. EnginesInv' /\ TransfersInv' /\ OwnInv'
  BY <1>3, <1>8, <1>12, <1>13, <1>15, <1>18, <1>23, <1>24 DEF EnginesInv, TransfersInv, OwnInv
<1>26. \A v \in Uids \ {u} : ~Binds(v) /\ ~Binds(v)' /\ (Can(v)' <=> Can(v))
  BY <1>1, <1>8, <1>15 DEF Binds, Can
<1>27. ~Binds(u)' /\ Can(u)' /\ Can(u)
  BY <1>2, <1>8, <1>14, <1>15 DEF Binds, Can
<1>28. PresenceInv'
  <2>1. ASSUME NEW v \in Uids
        PROVE  /\ aside'[v] # None => db'[v] = None /\ "lost" \in why'[v]
               /\ engine'[v] # None => row'[v] # None
               /\ row'[v] # None /\ engine'[v] = None => why'[v] \cap Strange # {}
               /\ row'[v] # None /\ db'[v] # None /\ db'[v].user = None => why'[v] \cap Cut # {}
               /\ row'[v] # None /\ aside'[v] # None /\ aside'[v].user = None => why'[v] \cap Cut # {}
    <3>1. CASE v = u
      BY <1>2, <1>8, <1>14, <1>15, <3>1
    <3>2. CASE v # u
      <4>1. why[v] \subseteq why'[v]
        BY <1>17 DEF Grows
      <4>2. /\ why[v] \cap Strange # {} => why'[v] \cap Strange # {}
            /\ why[v] \cap Cut # {} => why'[v] \cap Cut # {}
        BY <4>1
      <4> QED
        BY <1>1, <1>2, <1>8, <1>15, <1>26, <3>2, <4>1, <4>2, Parts DEF PresenceInv
    <3> QED
      BY <3>1, <3>2
  <2> QED
    BY <1>8, <2>1 DEF PresenceInv
<1>29. Shuffled => Shuffled'
  BY <1>17, ShuffledGrows
<1>30. ApartInv'
  <2>1. \A v, w \in Uids : (why[v] \cup why[w]) \cap Displaced # {} => (why'[v] \cup why'[w]) \cap Displaced # {}
    BY <1>17 DEF Grows
  <2>2. \A v \in Uids : Can(v)' <=> Can(v)
    BY <1>26, <1>27
  <2>3. \A v \in Uids : row'[v] # None /\ Can(v)' => defs'[v] = row'[v] \/ "moved" \in why'[v]
    BY <1>2, <1>8, <1>17, <1>20, <1>26, Parts DEF ApartInv, Grows
  <2> QED
    BY <1>8, <1>29, <2>1, <2>2, <2>3, Parts DEF ApartInv, Overlap
<1>31. MarkInv'
  <2>1. ASSUME NEW v \in Uids, row[v] # None, ~Shuffled', why'[v] \cap Excused = {}
        PROVE  Theirs(row[v], db[v])' /\ Theirs(row[v], aside[v])'
    <3>1. ~Shuffled /\ why[v] \cap Excused = {}
      BY <1>17, <1>29, <2>1 DEF Grows
    <3>2. Theirs(row[v], db[v]) /\ Theirs(row[v], aside[v]) /\ row[v] \in Folders
      BY <2>1, <3>1, Parts DEF MarkInv, TypeOK
    <3>3. CASE v = u
      BY <1>2, <1>3, <1>8, <1>13, <1>15, <1>16, <3>2, <3>3 DEF Theirs, HasMark
    <3>4. CASE v # u
      <4>1. row[v] # row[u]
        BY <1>2, <2>1, <3>1, <3>4, Parts DEF ApartInv
      <4> QED
        BY <1>3, <1>8, <1>13, <1>15, <1>16, <3>2, <3>4, <4>1 DEF Theirs, HasMark
    <3> QED
      BY <3>3, <3>4
  <2> QED
    BY <1>8, <2>1 DEF MarkInv, Excused
<1>32. FailInv'
  BY <1>2, <1>8 DEF FailInv
<1> QED
  BY <1>17, <1>21, <1>22, <1>25, <1>28, <1>30, <1>31, <1>32, Whole DEF Grows

(* What an account becomes whose folder has moved. *)
LEMMA MovedToFacts ==
  ASSUME NEW u, NEW g \in Folders, NEW s \in Snapshots
  PROVE  Kin(s, MovedTo(u, g, s)) /\ MovedTo(u, g, s).engine.base = g
         /\ MovedTo(u, g, s).engine.paused = s.engine.paused /\ MovedTo(u, g, s).engine.queue = s.engine.queue
         /\ \/ MovedTo(u, g, s).db = s.db /\ MovedTo(u, g, s).engine.stopped = s.engine.stopped
            \/ ~MovedTo(u, g, s).engine.stopped /\ ~\E v \in Uids : row[v] = g
<1>1. PICK t : t = MovedTo(u, g, s)
  OBVIOUS
<1>2. PICK e : e = [s.engine EXCEPT !.base = g]
  OBVIOUS
<1>3. PICK c : c = [s EXCEPT !.engine.base = g]
  OBVIOUS
<1>4. s.engine \in EngineStates
  BY Fields
<1>5. /\ e \in EngineStates /\ Alike(s.engine, e) /\ e.base = g /\ e.paused = s.engine.paused
      /\ e.queue = s.engine.queue /\ e.stopped = s.engine.stopped
  BY <1>2, <1>4 DEF EngineStates, Alike
<1>6. c \in Snapshots /\ c.db = s.db /\ c.engine = e /\ c.folder = s.folder
  BY <1>2, <1>3, <1>5 DEF Snapshots
<1>7. Kin(s, c)
  BY <1>5, <1>6, Stays
<1>8. CASE \E v \in Uids : row[v] = g
  <2>1. t = c
    BY <1>1, <1>3, <1>8 DEF MovedTo
  <2> QED
    BY <1>1, <1>5, <1>6, <1>7, <2>1
<1>9. CASE ~\E v \in Uids : row[v] = g
  <2>1. PICK d : d = [e EXCEPT !.loop = "off"]
    OBVIOUS
  <2>2. PICK r : r = [c EXCEPT !.engine.loop = "off"]
    OBVIOUS
  <2>3. t = StartEngine(u, r, FALSE)
    BY <1>1, <1>3, <1>9, <2>2 DEF MovedTo
  <2>4. /\ d \in EngineStates /\ Alike(e, d) /\ d.base = g /\ d.paused = s.engine.paused /\ d.queue = s.engine.queue
    BY <1>5, <2>1 DEF EngineStates, Alike
  <2>5. r \in Snapshots /\ r.db = c.db /\ r.engine = d /\ r.folder = c.folder
    BY <1>6, <2>1, <2>2, <2>4 DEF Snapshots
  <2>6. Kin(c, r)
    BY <1>6, <2>4, <2>5, Stays
  <2>7. Kin(r, t) /\ Starts(r, t, FALSE)
    BY <2>3, <2>5, StartIs, Zenon
  <2>8. Kin(s, t)
    BY <1>7, <2>6, <2>7, KinIsTransitive
  <2> QED
    BY <1>1, <1>9, <2>4, <2>5, <2>7, <2>8 DEF Starts
<1> QED
  BY <1>8, <1>9

-------------------------------------------------------------------------------
(* Folders are moved; the start; every step                                  *)

(* The user moves the folder of an account. *)
LEMMA MoveKeeps ==
  ASSUME AccountsInv, NEW u \in Uids, NEW g \in Folders, Move(u, g)
  PROVE  AccountsInv'
<1>1. PICK f : f = engine[u].at
  OBVIOUS
<1>2. PICK m : m = [h \in Folders |-> IF h = g THEN folder[f]
                                      ELSE IF h = f \/ <<h, f>> \in Within THEN "absent" ELSE folder[h]]
  OBVIOUS
<1>3. PICK s : s = [State(u) EXCEPT !.folder = m]
  OBVIOUS
<1>4. PICK t : t = MovedTo(u, g, s)
  OBVIOUS
<1>5. /\ life = "up" /\ doing = None /\ engine[u] # None /\ ~engine[u].stopped
      /\ Set(u, t)
      /\ row' = IF \E v \in Uids : row[v] = g THEN row ELSE [row EXCEPT ![u] = g]
      /\ why' = [why EXCEPT ![u] = @ \cup {"moved"}
                   \cup (IF engine[u].sends /\ ~engine[u].stopped THEN {"twice"} ELSE {})]
      /\ UNCHANGED <<life, mode, sync, defs, saved, aside, doing, pending>>
  BY <1>1, <1>2, <1>3, <1>4 DEF Move, Alone, Ready, Works
<1>6. u \in Running
  BY <1>5 DEF Running
<1>7. State(u) \in Snapshots /\ State(u).db = db[u] /\ State(u).engine = engine[u] /\ engine[u] \in EngineStates
  BY <1>6, Account
<1>8. m \in [Folders -> Marks]
  <2>1. folder \in [Folders -> Marks] /\ f \in Folders /\ "absent" \in Marks
    BY <1>1, <1>7, Parts DEF TypeOK, Marks, EngineStates
  <2> QED
    BY <1>2, <2>1
<1>9. s \in Snapshots /\ s.db = db[u] /\ s.engine = engine[u]
  BY <1>3, <1>7, <1>8 DEF Snapshots
<1>10. /\ Kin(s, t) /\ t.engine.base = g
       /\ t.engine.paused = engine[u].paused /\ t.engine.queue = engine[u].queue
       /\ t.db = db[u] \/ ~t.engine.stopped
       /\ ~t.engine.stopped
  BY <1>4, <1>5, <1>9, MovedToFacts
<1>11. /\ t.db \in BoundRows /\ t.db.user = db[u].user /\ t.engine \in EngineStates /\ t.folder \in [Folders -> Marks]
       /\ t.engine.sends = engine[u].sends
  BY <1>9, <1>10, Fields DEF Kin, Alike
<1>12. t.db \in Rows /\ t.db # None /\ t.engine # None /\ t.db.user \in Users /\ t.db.user # None
  BY <1>11, Apart DEF BoundRows
<1>13. /\ db' \in [Uids -> Rows \cup {None}] /\ engine' \in [Uids -> EngineStates \cup {None}]
       /\ db'[u] = t.db /\ engine'[u] = t.engine
       /\ \A v \in Uids \ {u} : db'[v] = db[v] /\ engine'[v] = engine[v]
  BY <1>5, <1>11, <1>12, Parts DEF Set, TypeOK
<1>14. folder' \in [Folders -> Users \cup {"absent", "plain"}]
  BY <1>5, <1>11 DEF Set, Marks
<1>15. row[u] # None
  BY <1>5, Parts DEF PresenceInv
<1>16. /\ row' \in [Uids -> Folders \cup {None}] /\ row'[u] # None
       /\ \A v \in Uids \ {u} : row'[v] = row[v]
  BY <1>5, <1>15, Apart, Parts DEF TypeOK
<1>17. Grows /\ "moved" \in why'[u] /\ (engine[u].sends => "twice" \in why'[u])
  BY <1>5, Parts DEF Grows
<1>18. Shuffled'
  BY <1>17 DEF Shuffled
<1>19. Running' = Running
  BY <1>5, <1>12, <1>13 DEF Running
<1>20. TypeOK'
  <2>1. \A v \in Running' : life' = "up" /\ db'[v] # None
    BY <1>5, <1>12, <1>13, <1>19, Parts DEF TypeOK, Running
  <2> QED
    BY <1>5, <1>13, <1>14, <1>16, <2>1, Parts DEF TypeOK
<1>21. \A v \in Running' : db'[v].user \in Users
  BY <1>12, <1>13, <1>19, Parts DEF Running
<1>22. ASSUME NEW v \in Running
       PROVE  /\ EngineFits(engine'[v], why'[v], mode'.paused) /\ TransferFits(engine'[v], db'[v], why'[v])
              /\ (engine'[v].base = row'[v] /\ engine'[v].at = row'[v]) \/ "moved" \in why'[v]
  <2>1. v \in Uids /\ why[v] \subseteq why'[v]
    BY <1>17 DEF Running, Grows
  <2>2. /\ EngineFits(engine[v], why[v], mode.paused) /\ TransferFits(engine[v], db[v], why[v])
        /\ mode.paused \in BOOLEAN
    BY Account
  <2>3. EngineFits(engine[v], why'[v], mode.paused) /\ TransferFits(engine[v], db[v], why'[v])
    BY <2>1, <2>2 DEF EngineFits, TransferFits
  <2>4. CASE v = u
    <3>1. EngineFits(t.engine, why'[u], mode.paused)
      BY <1>10, <1>17, <2>3, <2>4 DEF EngineFits
    <3>2. TransferFits(t.engine, t.db, why'[u])
      BY <1>10, <1>11, <1>17 DEF TransferFits
    <3> QED
      BY <1>5, <1>13, <1>17, <2>4, <3>1, <3>2
  <2>5. CASE v # u
    <3>1. engine'[v] = engine[v] /\ db'[v] = db[v] /\ row'[v] = row[v]
      BY <1>13, <1>16, <2>1, <2>5
    <3>2. (engine[v].base = row[v] /\ engine[v].at = row[v]) \/ "moved" \in why[v]
      BY Parts DEF OwnInv
    <3> QED
      BY <1>5, <2>1, <2>3, <3>1, <3>2
  <2> QED
    BY <2>4, <2>5
<1>23. EnginesInv' /\ TransfersInv' /\ OwnInv'
  BY <1>19, <1>22 DEF EnginesInv, TransfersInv, OwnInv
<1>24. \A v \in Uids : ~Binds(v) /\ ~Binds(v)' /\ (Can(v)' <=> Can(v))
  <2>1. db[u] # None /\ db[u].user # None
    BY <1>6, <1>11, <1>12, Parts DEF TypeOK
  <2> QED
    BY <1>5, <1>12, <1>13, <2>1 DEF Binds, Can
<1>25. PresenceInv'
  <2>1. ASSUME NEW v \in Uids
        PROVE  /\ aside'[v] # None => db'[v] = None /\ "lost" \in why'[v]
               /\ engine'[v] # None => row'[v] # None
               /\ row'[v] # None /\ engine'[v] = None => why'[v] \cap Strange # {}
               /\ row'[v] # None /\ db'[v] # None /\ db'[v].user = None => why'[v] \cap Cut # {}
               /\ row'[v] # None /\ aside'[v] # None /\ aside'[v].user = None => why'[v] \cap Cut # {}
    <3>1. CASE v = u
      <4>1. aside[u] = None
        BY <1>6, Parts DEF PresenceInv, TypeOK
      <4> QED
        BY <1>5, <1>12, <1>13, <1>16, <3>1, <4>1
    <3>2. CASE v # u
      <4>1. why[v] \subseteq why'[v]
        BY <1>17 DEF Grows
      <4>2. /\ why[v] \cap Strange # {} => why'[v] \cap Strange # {}
            /\ why[v] \cap Cut # {} => why'[v] \cap Cut # {}
        BY <4>1
      <4> QED
        BY <1>5, <1>13, <1>16, <1>24, <3>2, <4>1, <4>2, Parts DEF PresenceInv
    <3> QED
      BY <3>1, <3>2
  <2> QED
    BY <1>5, <2>1 DEF PresenceInv
<1>26. ApartInv'
  <2>1. \A v, w \in Uids : (why[v] \cup why[w]) \cap Displaced # {} => (why'[v] \cup why'[w]) \cap Displaced # {}
    BY <1>17 DEF Grows
  <2>2. \A v \in Uids : row'[v] # None /\ Can(v)' => defs'[v] = row'[v] \/ "moved" \in why'[v]
    BY <1>5, <1>16, <1>17, <1>24, Parts DEF ApartInv, Grows
  <2>3. ASSUME NEW v \in Uids, NEW w \in Uids, v # w, row'[v] # None, row'[w] # None, Overlap(row'[v], row'[w]),
               Can(v), Can(w)
        PROVE  (why'[v] \cup why'[w]) \cap Displaced # {}
    <3>1. CASE v = u \/ w = u
      BY <1>17, <3>1 DEF Displaced
    <3>2. CASE v # u /\ w # u
      BY <1>16, <2>1, <2>3, <3>2, Parts DEF ApartInv
    <3> QED
      BY <3>1, <3>2
  <2> QED
    BY <1>18, <1>24, <2>2, <2>3 DEF ApartInv, Overlap
<1>27. MarkInv' /\ FailInv'
  BY <1>18 DEF MarkInv, FailInv
<1> QED
  BY <1>17, <1>20, <1>21, <1>23, <1>25, <1>26, <1>27, Whole DEF Grows

(* The invariant holds when the first launch is near. *)
LEMMA AccountsInitInv ==
  ASSUME AccountsInit
  PROVE  AccountsInv
<1>1. /\ life = "down" /\ mode = [paused |-> FALSE, restart |-> FALSE, first |-> TRUE, crashed |-> FALSE]
      /\ sync \in BOOLEAN /\ row \in [Uids -> Folders \cup {None}] /\ saved = row
      /\ \A u, v \in Uids : u # v /\ row[u] # None /\ row[v] # None => ~Overlap(row[u], row[v])
      /\ defs = [u \in Uids |-> None] /\ aside = [u \in Uids |-> None]
      /\ engine = [u \in Uids |-> None] /\ doing = None /\ pending = {}
      /\ why = [u \in Uids |-> {}]
  BY DEF AccountsInit
<1>2. PICK user \in [Uids -> Users] :
         /\ db = [u \in Uids |-> IF row[u] = None THEN None
                    ELSE [user |-> user[u], conf |-> sync, root |-> sync, move |-> "none"]]
         /\ folder = [f \in Folders |->
              IF \E u \in Uids : row[u] = f
              THEN IF sync THEN user[CHOOSE u \in Uids : row[u] = f] ELSE "plain"
              ELSE IF \E u \in Uids : row[u] # None /\ <<row[u], f>> \in Within THEN "plain" ELSE "absent"]
  BY DEF AccountsInit
<1>3. Running = {}
  BY <1>1 DEF Running
<1>4. \A u \in Uids : row[u] # None => db[u] \in Rows /\ db[u] # None /\ db[u].user = user[u] /\ db[u].user # None
  <2>1. ASSUME NEW u \in Uids, row[u] # None
        PROVE  db[u] \in Rows /\ db[u].user = user[u] /\ user[u] \in Users
    BY <1>1, <1>2, <2>1 DEF Rows
  <2> QED
    BY <2>1, Apart
<1>5. db \in [Uids -> Rows \cup {None}]
  BY <1>2, <1>4
<1>6. ASSUME NEW u \in Uids, row[u] # None, HasMark(row[u])
      PROVE  folder[row[u]] = user[u]
  <2>1. row[u] \in Folders /\ \E v \in Uids : row[v] = row[u]
    BY <1>1, <1>6
  <2>2. (CHOOSE v \in Uids : row[v] = row[u]) = u
    BY <1>1, <1>6, <2>1 DEF Overlap
  <2> QED
    BY <1>2, <1>6, <2>1, <2>2, MarksAssumption DEF HasMark
<1>7. folder \in [Folders -> Users \cup {"absent", "plain"}]
  <2>1. ASSUME NEW f \in Folders
        PROVE  folder[f] \in Users \cup {"absent", "plain"}
    <3>1. CASE \E u \in Uids : row[u] = f
      <4>1. (CHOOSE u \in Uids : row[u] = f) \in Uids
        BY <3>1
      <4> QED
        BY <1>2, <3>1, <4>1
    <3>2. CASE ~\E u \in Uids : row[u] = f
      BY <1>2, <3>2
    <3> QED
      BY <3>1, <3>2
  <2> QED
    BY <1>2, <2>1
<1>8. TypeOK
  BY <1>1, <1>3, <1>5, <1>7 DEF TypeOK
<1>9. PresenceInv
  BY <1>1, <1>4 DEF PresenceInv, Loadable, Sound
<1>10. ApartInv
  BY <1>1 DEF ApartInv, Overlap
<1>11. MarkInv
  BY <1>1, <1>4, <1>6 DEF MarkInv, Theirs
<1> QED
  BY <1>1, <1>3, <1>8, <1>9, <1>10, <1>11 DEF AccountsInv, RestInv, Shape, OwnInv, FailInv, EnginesInv, TransfersInv

(* Nothing happens. *)
LEMMA StutterKeeps ==
  ASSUME AccountsInv, UNCHANGED accountsVars
  PROVE  AccountsInv'
<1> USE DEF accountsVars
<1>1. /\ Running' = Running /\ Shuffled' = Shuffled
      /\ \A u \in Uids : Binds(u)' = Binds(u) /\ Can(u)' = Can(u) /\ Loadable(u)' = Loadable(u)
  BY DEF Running, Shuffled, Binds, Can, Loadable, Sound
<1>2. Shape'
  BY <1>1 DEF AccountsInv, RestInv, Shape, TypeOK
<1>3. PresenceInv'
  BY <1>1 DEF AccountsInv, RestInv, PresenceInv
<1>4. OwnInv'
  BY <1>1 DEF AccountsInv, RestInv, OwnInv
<1>5. ApartInv'
  BY <1>1 DEF AccountsInv, RestInv, ApartInv, Overlap
<1>6. MarkInv'
  BY <1>1 DEF AccountsInv, RestInv, MarkInv, Theirs, HasMark
<1>7. FailInv'
  BY <1>1 DEF AccountsInv, RestInv, FailInv
<1>8. EnginesInv' /\ TransfersInv'
  BY <1>1 DEF AccountsInv, EnginesInv, TransfersInv
<1> QED
  BY <1>2, <1>3, <1>4, <1>5, <1>6, <1>7, <1>8 DEF AccountsInv, RestInv

(* Every step keeps the invariant. *)
LEMMA EveryStepKeeps ==
  ASSUME AccountsInv, [AccountsNext]_accountsVars
  PROVE  AccountsInv'
<1>1. CASE Launch
  BY <1>1, LaunchKeeps
<1>2. CASE FirstRun
  BY <1>2, FirstRunKeeps
<1>3. CASE SuspendApp
  BY <1>3, SuspendAppKeeps
<1>4. CASE ResumeApp
  BY <1>4, ResumeAppKeeps
<1>5. CASE Backup
  BY <1>5, BackupKeeps
<1>6. CASE Leave
  BY <1>6, LeaveKeeps
<1>7. CASE Crash
  BY <1>7, CrashKeeps
<1>8. CASE RestoreManager
  BY <1>8, RestoreManagerKeeps
<1>9. CASE \E value \in BOOLEAN : SetSync(value)
  BY <1>9, SetSyncKeeps
<1>10. ASSUME NEW u \in Uids, DiskFull(u) PROVE AccountsInv'
  BY <1>10, DiskFullKeeps
<1>11. ASSUME NEW u \in Uids, Refused(u) PROVE AccountsInv'
  BY <1>11, RefusedKeeps
<1>12. ASSUME NEW u \in Uids, Relogin(u) PROVE AccountsInv'
  BY <1>12, ReloginKeeps
<1>13. ASSUME NEW u \in Uids, Choose(u) PROVE AccountsInv'
  BY <1>13, ChooseKeeps
<1>14. ASSUME NEW u \in Uids, Recreate(u) PROVE AccountsInv'
  BY <1>14, RecreateKeeps
<1>15. ASSUME NEW u \in Uids, TransferBegins(u) PROVE AccountsInv'
  BY <1>15, TransferBeginsKeeps
<1>16. ASSUME NEW u \in Uids, TransferEnds(u) PROVE AccountsInv'
  BY <1>16, TransferEndsKeeps
<1>17. ASSUME NEW u \in Uids, UnbindBegins(u) PROVE AccountsInv'
  BY <1>17, UnbindBeginsKeeps
<1>18. ASSUME NEW u \in Uids, LoseDatabase(u) PROVE AccountsInv'
  BY <1>18, LoseDatabaseKeeps
<1>19. ASSUME NEW u \in Uids, GiveBack(u) PROVE AccountsInv'
  BY <1>19, GiveBackKeeps
<1>20. ASSUME NEW u \in Uids, NEW user \in Users, Token(u, user) PROVE AccountsInv'
  BY <1>20, TokenKeeps
<1>21. ASSUME NEW u \in Uids, NEW g \in Folders, Move(u, g) PROVE AccountsInv'
  BY <1>21, MoveKeeps
<1>22. ASSUME NEW u \in Uids, NEW f \in Folders, NEW user \in Users, NEW nocheck \in BOOLEAN,
              BindBegins(u, f, user, nocheck)
       PROVE  AccountsInv'
  BY <1>22, BindBeginsKeeps
<1>23. CASE \E f \in Folders : UserDeletes(f)
  BY <1>23, UserDeletesKeeps
<1>24. CASE BindWrites
  BY <1>24, BindWritesKeeps
<1>25. CASE BindEnds
  BY <1>25, BindEndsKeeps
<1>26. CASE BindFails
  BY <1>26, BindFailsKeeps
<1>27. CASE \E purge \in BOOLEAN : UnbindEnds(purge)
  BY <1>27, UnbindEndsKeeps
<1>28. CASE UNCHANGED accountsVars
  BY <1>28, StutterKeeps
<1>29. CASE AccountsNext
  <2>1. CASE \E u \in Uids :
               \/ DiskFull(u) \/ Refused(u) \/ Relogin(u) \/ Choose(u) \/ Recreate(u)
               \/ TransferBegins(u) \/ TransferEnds(u) \/ UnbindBegins(u) \/ LoseDatabase(u) \/ GiveBack(u)
    BY <2>1, <1>10, <1>11, <1>12, <1>13, <1>14, <1>15, <1>16, <1>17, <1>18, <1>19
  <2>2. CASE \E u \in Uids : \/ \E user \in Users : Token(u, user)
                             \/ \E g \in Folders : Move(u, g)
                             \/ \E f \in Folders, user \in Users, nocheck \in BOOLEAN : BindBegins(u, f, user, nocheck)
    BY <2>2, <1>20, <1>21, <1>22
  <2> QED
    BY <1>1, <1>2, <1>3, <1>4, <1>5, <1>6, <1>7, <1>8, <1>9, <1>23, <1>24, <1>25, <1>26, <1>27, <1>29,
       <2>1, <2>2 DEF AccountsNext
<1> QED
  BY <1>28, <1>29

(* What the invariant says of the engines and of their transfers. *)
LEMMA InvKeepsEngines ==
  ASSUME AccountsInv
  PROVE  EnginesFollow /\ Tracked
<1>1. ASSUME NEW u \in Running
      PROVE  EngineFits(engine[u], why[u], mode.paused) /\ TransferFits(engine[u], db[u], why[u])
  BY <1>1 DEF AccountsInv, EnginesInv, TransfersInv
<1>2. EnginesFollow
  BY <1>1 DEF EnginesFollow, EngineFits
<1>3. Tracked
  BY <1>1 DEF Tracked, TransferFits
<1> QED
  BY <1>2, <1>3

(* What the invariant says of the folders, and of the launch. *)
LEMMA InvKeepsFolders ==
  ASSUME AccountsInv
  PROVE  FoldersKept
<1>1. \A u \in Running : u \in Uids /\ row[u] # None /\ Can(u) /\ db[u] # None /\ db[u].user # None
  <2>1. \A u \in Running : u \in Uids /\ engine[u] # None
    BY DEF Running
  <2>2. \A u \in Running : db[u] # None /\ db[u].user \in Users
    BY <2>1 DEF AccountsInv, RestInv, Shape, TypeOK
  <2>3. \A u \in Running : row[u] # None
    BY <2>1 DEF AccountsInv, RestInv, PresenceInv
  <2> QED
    BY <2>1, <2>2, <2>3, Apart DEF Can
<1>2. \A u, v \in Running :
         u # v /\ Overlap(row[u], row[v]) => (why[u] \cup why[v]) \cap {"moved", "lost", "restored"} # {}
  BY <1>1 DEF AccountsInv, RestInv, ApartInv, Displaced
<1>3. \A u \in Running : HasMark(engine[u].at) =>
         folder[engine[u].at] = db[u].user \/ why[u] \cap {"another user", "unchecked"} # {} \/ Shuffled
  <2>1. ASSUME NEW u \in Running, HasMark(engine[u].at), ~Shuffled, why[u] \cap {"another user", "unchecked"} = {}
        PROVE  folder[engine[u].at] = db[u].user
    <3>1. engine[u].at = row[u]
      BY <1>1, <2>1 DEF AccountsInv, RestInv, OwnInv, Shuffled
    <3>2. Theirs(row[u], db[u])
      BY <1>1, <2>1 DEF AccountsInv, RestInv, MarkInv, Excused
    <3> QED
      BY <1>1, <2>1, <3>1, <3>2 DEF Theirs
  <2> QED
    BY <2>1
<1>4. AtRest => \A u \in Uids : (row[u] # None) # (engine[u] # None) => why[u] \cap Strange # {}
  BY DEF AccountsInv, RestInv, PresenceInv, AtRest
<1>5. \A u \in Running : engine[u].base = row[u] \/ "moved" \in why[u]
  BY DEF AccountsInv, RestInv, OwnInv
<1>6. life = "failed" => Shuffled \/ \E u \in Uids : why[u] \cap {"another user", "unchecked", "crashed"} # {}
  <2>1. Excused \cup {"crashed"} = {"another user", "unchecked", "crashed"}
    BY DEF Excused
  <2> QED
    BY <2>1 DEF AccountsInv, RestInv, FailInv
<1> QED
  BY <1>2, <1>3, <1>4, <1>5, <1>6 DEF FoldersKept

(* The inductive invariant of the accounts (Manager, Engine): every engine and every transfer fits what
   has been done to its account, the table, the databases, the folders and the marks go together. *)
THEOREM AccountsInvariant == AccountsSpec => []AccountsInv
<1>1. AccountsInit => AccountsInv
  BY AccountsInitInv
<1>2. AccountsInv /\ [AccountsNext]_accountsVars => AccountsInv'
  BY EveryStepKeeps
<1> QED
  BY <1>1, <1>2, PTL DEF AccountsSpec

(* AccountsKept, for any accounts, users and folders (manager.py, engine.py, application.py): Suspend and
   Resume reach every account, a transfer that runs has its record, the accounts and their folders stay
   apart and together, the application starts, but for the ways that the property names. *)
THEOREM AccountsAreKept == AccountsSpec => []AccountsKept
<1>1. AccountsInv => AccountsKept
  <2>1. AccountsInv => TypeOK
    BY DEF AccountsInv, RestInv, Shape
  <2> QED
    BY <2>1, InvKeepsEngines, InvKeepsFolders DEF AccountsKept
<1> QED
  BY <1>1, AccountsInvariant, PTL
===============================================================================
