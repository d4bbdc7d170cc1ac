------------------------------- MODULE Accounts -------------------------------
(***************************************************************************)
(* The accounts of the application: the manager's table of accounts, the   *)
(* database, the engine and the folder of each, from one launch to the     *)
(* next.  An account is added and removed in several steps that a crash    *)
(* may cut; its engine is started, suspended, resumed and stopped by many  *)
(* parts of the application that do not know of each other.                *)
(*                                                                         *)
(* Everything runs in the main thread: an action is a whole handler, but   *)
(* for the addition and the removal of an account.  The mark that an       *)
(* account leaves on its folder is part of the folder.                     *)
(***************************************************************************)
EXTENDS Nil, Naturals

CONSTANTS Uids, Users, Folders,
          Within,        \* pairs of folders: the first is in the second
          Alfresco,      \* the accounts of Alfresco servers
          AccountBudgets \* how often what is rare may happen

VARIABLES
    life,      \* "down", "up" or "failed": it could not be launched
    mode,      \* [paused, restart, first, crashed] of the manager
    sync,      \* the synchronisation feature
    defs,      \* _engine_definitions: the folder of each account that is known
    row,       \* the Engines table: the folder of each account
    saved,     \* its backup
    db,        \* the database of each account
    aside,     \* a copy of a database, put aside by the user
    folder,    \* what is on the disk: "absent", "plain", or the user it is marked for
    engine,    \* the engines
    doing,     \* the addition or the removal that is under way
    pending,   \* the accounts whose folders have to be chosen
    budget     \* what may still happen

VARIABLES why  \* history: what has been done to each account

accountsVars == <<life, mode, sync, defs, row, saved, db, aside, folder, engine, doing, pending, budget, why>>

(* What an account keeps on the disk and in memory.                        *)
Rows == [user : Users \cup {None}, conf : BOOLEAN, root : BOOLEAN, move : {"none", "ongoing", "suspended"}]
EngineStates == [stopped : BOOLEAN, paused : BOOLEAN, invalid : BOOLEAN, watch : BOOLEAN,
                 loop : {"off", "on", "held"}, queue : BOOLEAN, base : Folders, at : Folders, sends : BOOLEAN]
Doings == [what : {"bind"}, uid : Uids, user : Users, nocheck : BOOLEAN] \cup
          [what : {"unbind"}, uid : Uids, base : Folders]

ASSUME BudgetsAssumption == \A b \in AccountBudgets : \A what \in DOMAIN b : b[what] \in Nat
ASSUME WithinAssumption == Within \subseteq Folders \X Folders
ASSUME MarksAssumption == {"absent", "plain"} \cap Users = {}
ASSUME NilAssumption == None \notin Users \cup Folders \cup Rows \cup EngineStates \cup Doings

Overlap(f, g) == f = g \/ <<f, g>> \in Within \/ <<g, f>> \in Within
Present(f) == folder[f] # "absent"
Ready == life = "up" /\ doing = None
Uses(what) == budget[what] > 0 /\ budget' = [budget EXCEPT ![what] = @ - 1]
Note(us, what) == why' = [u \in Uids |-> IF u \in us THEN why[u] \cup {what} ELSE why[u]]
Running == {u \in Uids : engine[u] # None}

-------------------------------------------------------------------------------
(* The engines.  A step of an engine is a function of a "state" of an      *)
(* account: its database, its engine and its folders.                      *)

NewEngine(f) == [stopped |-> TRUE, paused |-> FALSE, invalid |-> FALSE, watch |-> sync,
                 loop |-> "off", queue |-> TRUE, base |-> f, at |-> f, sends |-> FALSE]
State(u) == [db |-> db[u], engine |-> engine[u], folder |-> folder]
States == [u \in Running |-> State(u)]

(* dao.suspend_transfers *)
Suspended(d) == IF d.move = "ongoing" THEN [d EXCEPT !.move = "suspended"] ELSE d
Resumed(d)   == IF d.move = "suspended" THEN [d EXCEPT !.move = "ongoing"] ELSE d
(* _manage_staled_transfers *)
Unstaled(d) == IF d.move # "ongoing" THEN d
               ELSE [d EXCEPT !.move = IF mode.crashed THEN "suspended" ELSE "none"]

(* The threads of an engine end, are held, start, go on. *)
Ended(e)   == [e EXCEPT !.stopped = TRUE, !.loop = "off"]
Held(e)    == [e EXCEPT !.paused = TRUE, !.queue = FALSE, !.loop = IF @ = "on" THEN "held" ELSE @]
Started(e) == [e EXCEPT !.stopped = FALSE, !.loop = IF @ = "off" THEN "on" ELSE @]
GoesOn(e)  == [e EXCEPT !.queue = TRUE, !.loop = IF @ = "held" THEN "on" ELSE @]

StopIf(s, d) == [s EXCEPT !.db = d, !.engine = Ended(@)]
StopMutant(s) == StopIf(s, s.db)   \* the transfers are not suspended: mutant
Stop(s) == StopIf(s, Suspended(s.db))
Suspend(s) == IF s.engine.paused THEN s ELSE [s EXCEPT !.db = Suspended(@), !.engine = Held(@)]

(* _check_root: the folder of a chosen account is made and marked, unless the *)
(* server refuses the credentials; the client works where the engine was made. *)
RootMissing(s) == sync /\ s.db.conf /\ ~s.db.root
CheckRoot(s, refused) ==
    IF ~RootMissing(s) THEN s
    ELSE IF refused THEN [Stop(s) EXCEPT !.engine.invalid = TRUE]
    ELSE [s EXCEPT !.db.root = TRUE, !.folder[s.engine.at] = s.db.user]

(* AlfrescoEngine._cleanup_after_sync_disabled *)
CleanUp(u, s) == IF u \in Alfresco /\ ~sync /\ s.db.conf
                 THEN [s EXCEPT !.db.root = FALSE, !.db.conf = FALSE] ELSE s
(* start: the threads that still run are not started again, and stay held. *)
StartEngine(u, s, refused) ==
    [CheckRoot(CleanUp(u, s), refused) EXCEPT !.db = Resumed(Unstaled(@)), !.engine = Started(@)]
Resume(u, s, refused) ==
    LET t == [s EXCEPT !.engine.paused = FALSE]
    IN  IF s.engine.stopped THEN StartEngine(u, t, refused)
        ELSE [t EXCEPT !.db = Resumed(@), !.engine = GoesOn(@)]

Set(u, s) == /\ db' = [db EXCEPT ![u] = s.db] /\ engine' = [engine EXCEPT ![u] = s.engine]
             /\ folder' = s.folder
(* All the engines at once; what one does to its folder does not matter to another. *)
SetAll(S) ==
    /\ db' = [u \in Uids |-> IF u \in Running THEN S[u].db ELSE db[u]]
    /\ engine' = [u \in Uids |-> IF u \in Running THEN S[u].engine ELSE None]
    /\ folder' = [f \in Folders |->
         LET marks == {u \in Running : S[u].folder[f] # folder[f]}
         IN  IF marks = {} THEN folder[f] ELSE S[CHOOSE u \in marks : TRUE].folder[f]]

-------------------------------------------------------------------------------
(* The launch                                                              *)

Unspent == UNCHANGED budget
Blank == [user |-> None, conf |-> FALSE, root |-> FALSE, move |-> "none"]
Sound(u)  == row[u] # None /\ db[u] # None            \* the definition and the database are there
HasMark(f) == folder[f] \in Users
(* _check_fs refuses the folder; load() only catches EngineInitError.      *)
Clashes(u) == Sound(u) /\ sync /\ HasMark(row[u]) /\ folder[row[u]] # db[u].user
Loadable(u) == Sound(u) /\ db[u].user # None

(* Manager.__init__ and load(); the folder that is not there is made.      *)
Launch ==
    /\ life = "down"
    /\ UNCHANGED <<sync, row, saved, db, aside, doing, budget>>
    /\ IF \E u \in Uids : Clashes(u)
       THEN life' = "failed" /\ UNCHANGED <<mode, defs, folder, engine, pending, why>>
       ELSE /\ life' = "up"
            /\ mode' = [mode EXCEPT !.paused = FALSE, !.restart = FALSE, !.first = TRUE]
            /\ defs' = [u \in Uids |-> IF Loadable(u) THEN row[u] ELSE None]
            /\ engine' = [u \in Uids |-> IF Loadable(u) THEN NewEngine(row[u]) ELSE None]
            /\ folder' = [f \in Folders |->
                 IF sync /\ folder[f] = "absent" /\ \E u \in Uids : Sound(u) /\ row[u] = f
                 THEN "plain" ELSE folder[f]]
            \* init_checks: those who have no folders yet
            /\ pending' = {u \in Uids : Loadable(u) /\ sync /\ ~db[u].conf /\ ~db[u].root}
            /\ why' = [u \in Uids |-> why[u] \ {"already", "launched", "bound", "full", "token", "relogin",
                                                      "recreated", "resumed", "chosen", "root", "twice"}]

(* start_engines, when the configuration of the server has been fetched.   *)
FirstRun ==
    /\ Ready /\ mode.first
    /\ mode' = [mode EXCEPT !.first = FALSE]
    /\ \E refused \in SUBSET Running :
         IF mode.paused THEN UNCHANGED <<db, engine, folder, why>>
         ELSE /\ SetAll([u \in Running |-> StartEngine(u, State(u), u \in refused)])
                  /\ why' = [u \in Uids |->
                       IF u \notin Running THEN why[u]
                       ELSE why[u] \cup (IF u \in refused /\ RootMissing(State(u)) THEN {"root"} ELSE {})
                                   \cup (IF engine[u].sends /\ ~engine[u].stopped THEN {"twice"} ELSE {})
                                   \cup (IF engine[u].invalid THEN {"launched"} ELSE {})]
    /\ Unspent /\ UNCHANGED <<life, sync, defs, row, saved, aside, doing, pending>>

-------------------------------------------------------------------------------
(* The application as a whole                                              *)

(* Manager.suspend; an engine that was started while it was suspended goes on. *)
Already == {u \in Running : ~mode.paused /\ engine[u].paused /\ engine[u].loop = "on"}
SuspendAll(S) == SetAll([u \in Running |-> IF mode.paused THEN S[u] ELSE Suspend(S[u])])
SuspendApp ==
    /\ Ready /\ sync /\ ~mode.paused /\ ~mode.restart /\ Uses("pause")
    /\ mode' = [mode EXCEPT !.paused = TRUE] /\ SuspendAll(States)
    /\ Note(Already, "already")
    /\ UNCHANGED <<life, sync, defs, row, saved, aside, doing, pending>>
(* Manager.resume; the menu does not offer it when a restart is needed.    *)
ResumeApp ==
    /\ Ready /\ sync /\ mode.paused /\ ~mode.restart
    /\ mode' = [mode EXCEPT !.paused = FALSE]
    /\ \E refused \in SUBSET Running :
         /\ SetAll([u \in Running |-> Resume(u, State(u), u \in refused)])
         /\ why' = [u \in Uids |->
              IF u \notin Running THEN why[u]
              ELSE why[u] \cup (IF engine[u].stopped THEN {"resumed"} ELSE {})
                          \cup (IF u \in refused /\ RootMissing(State(u)) THEN {"root"} ELSE {})]
    /\ Unspent /\ UNCHANGED <<life, sync, defs, row, saved, aside, doing, pending>>

(* restartNeeded is connected to suspend, then to _restart_needed.         *)
Restart(S) == mode' = [mode EXCEPT !.paused = TRUE, !.restart = TRUE] /\ SuspendAll(S)

(* set_feature_state from the window, _update_feature_state                *)
SetSync(value) ==
    /\ Ready /\ sync # value /\ Uses("sync")
    /\ sync' = value /\ Restart(States) /\ Note(Already, "already")
    /\ UNCHANGED <<life, defs, row, saved, aside, doing, pending>>

(* DatabaseBackupWorker *)
Backup == /\ Ready /\ saved # row /\ saved' = row /\ Unspent
          /\ UNCHANGED <<life, mode, sync, defs, row, db, aside, folder, engine, doing, pending, why>>

(* Manager.stop: a started engine is stopped. *)
Leave ==
    /\ Ready /\ Uses("quit")
    /\ life' = "down" /\ saved' = row /\ mode' = [mode EXCEPT !.crashed = FALSE]
    /\ db' = [u \in Uids |-> IF u \in Running /\ ~engine[u].stopped THEN Stop(State(u)).db ELSE db[u]]
    /\ engine' = [u \in Uids |-> None] /\ defs' = [u \in Uids |-> None] /\ pending' = {}
    /\ UNCHANGED <<sync, row, aside, folder, doing, why>>

(* The addition or the removal that was under way stays where it is.       *)
Crash ==
    /\ life = "up" /\ Uses("crash")
    /\ life' = "down" /\ mode' = [mode EXCEPT !.crashed = TRUE]
    /\ engine' = [u \in Uids |-> None] /\ defs' = [u \in Uids |-> None] /\ pending' = {} /\ doing' = None
    /\ IF doing = None THEN UNCHANGED why ELSE Note({doing.uid}, "crashed")
    /\ UNCHANGED <<sync, row, saved, db, aside, folder>>

-------------------------------------------------------------------------------
(* One engine                                                              *)

Alone(u) == Ready /\ engine[u] # None
Same == UNCHANGED <<life, sync, defs, row, saved, aside, doing, pending>>

(* noSpaceLeftOnDevice is connected to the engine's suspend, not to the manager's. *)
DiskFull(u) ==
    /\ Alone(u) /\ ~engine[u].stopped /\ ~engine[u].paused /\ Uses("full")
    /\ Set(u, Suspend(State(u))) /\ Note({u}, "full") /\ Same /\ UNCHANGED mode

(* set_invalid_credentials: only what changes stops the engine.  Direct Edit does *)
(* so too, when the engine is paused or stopped.                                  *)
RefuseIf(u, stopped) == IF engine[u].invalid THEN State(u) ELSE [stopped EXCEPT !.engine.invalid = TRUE]
RefuseMutant(u) == RefuseIf(u, State(u))  \* nobody listens to invalidAuthentication: mutant
Refuse(u) == RefuseIf(u, Stop(State(u)))
Refused(u) ==
    /\ Alone(u) /\ Uses("refused") /\ Set(u, Refuse(u)) /\ Same /\ UNCHANGED <<mode, why>>

(* update_token: another user needs a restart. *)
Token(u, user) ==
    /\ Alone(u) /\ u \notin Alfresco /\ engine[u].invalid /\ Uses("token")
    /\ LET s == [State(u) EXCEPT !.engine.invalid = FALSE]
       IN  IF user = db[u].user
           THEN /\ \E refused \in BOOLEAN :
                     /\ Set(u, StartEngine(u, s, refused))
                     /\ why' = [why EXCEPT ![u] = @ \cup {"token"}
                                  \cup (IF refused /\ RootMissing(s) THEN {"root"} ELSE {})
                                  \cup (IF engine[u].sends /\ ~engine[u].stopped THEN {"twice"} ELSE {})]
                /\ UNCHANGED mode
           ELSE /\ Restart([States EXCEPT ![u] = [s EXCEPT !.db.user = user]])
                /\ why' = [v \in Uids |-> why[v] \cup (IF v = u THEN {"another user"} ELSE {})
                                                \cup (IF v \in Already THEN {"already"} ELSE {})]
    /\ Same

(* _alfresco_relogin_handler *)
Relogin(u) ==
    /\ Alone(u) /\ u \in Alfresco /\ engine[u].invalid /\ Uses("token")
    /\ LET s == StartEngine(u, Stop([State(u) EXCEPT !.engine.invalid = FALSE]), FALSE)
       IN  Set(u, [s EXCEPT !.engine.queue = TRUE])
    /\ Note({u}, "relogin") /\ Same /\ UNCHANGED mode

(* DocumentsDialog.apply_filters, then mark_filters_configured if the dialog was *)
(* shown because no folder had been chosen.                                      *)
Choose(u) ==
    /\ Alone(u) /\ sync /\ (engine[u].stopped \/ u \in pending)
    /\ LET s == IF engine[u].stopped THEN StartEngine(u, State(u), FALSE) ELSE State(u)
       IN  Set(u, IF u \in pending THEN CheckRoot([s EXCEPT !.db.conf = TRUE], FALSE) ELSE s)
    /\ pending' = pending \ {u} /\ Note({u}, "chosen")
    /\ Unspent /\ UNCHANGED <<life, mode, sync, defs, row, saved, aside, doing>>

(* Transfers: a document starts to be sent, is done, or notices the pause. *)
Works(u) == engine[u].loop = "on" /\ engine[u].queue /\ ~engine[u].stopped
TransferBegins(u) ==
    /\ Alone(u) /\ Works(u) /\ ~engine[u].sends /\ db[u].root /\ Uses("transfer")
    /\ db' = [db EXCEPT ![u].move = "ongoing"] /\ engine' = [engine EXCEPT ![u].sends = TRUE]
    /\ Same /\ UNCHANGED <<mode, folder, why>>
TransferEnds(u) ==
    /\ Alone(u) /\ engine[u].sends
    /\ engine' = [engine EXCEPT ![u].sends = FALSE]
    /\ \/ (engine[u].paused \/ engine[u].stopped) /\ UNCHANGED db       \* suspend_client
       \/ db' = [db EXCEPT ![u].move = "none"]
    /\ Unspent /\ Same /\ UNCHANGED <<mode, folder, why>>

(* reinit, then start: a started engine is started twice.  The client still *)
(* works in the folder the engine was made for.                            *)
Recreated(u, s) ==
    LET chosen == sync /\ s.db.conf
        t == IF s.engine.stopped THEN s ELSE Stop(s)
        made == [t.folder EXCEPT ![s.engine.base] = IF chosen /\ @ = "absent" THEN "plain" ELSE @]
        r == [t EXCEPT !.db.root = @ /\ ~sync, !.folder = made]
    IN  IF chosen /\ r.folder[r.engine.at] = "absent" THEN r               \* NotFound
        ELSE IF s.engine.stopped THEN StartEngine(u, r, FALSE)
        ELSE StartEngine(u, StartEngine(u, r, FALSE), FALSE)
(* The watcher sees that the folder is not there: _root_deleted *)
Recreate(u) ==
    /\ Alone(u) /\ engine[u].watch /\ ~engine[u].stopped /\ engine[u].loop = "on"
    /\ ~Present(engine[u].at)
    /\ Set(u, Recreated(u, State(u)))
    /\ Note({u}, "recreated") /\ Unspent /\ Same /\ UNCHANGED mode
UserDeletes(f) ==
    /\ Present(f) /\ Uses("delete")
    /\ folder' = [g \in Folders |-> IF g = f \/ <<g, f>> \in Within THEN "absent" ELSE folder[g]]
    /\ UNCHANGED <<life, mode, sync, defs, row, saved, db, aside, engine, doing, pending, why>>

(* _root_moved: set_local_folder, which fails if a row has that folder, then *)
(* start.  Neither the client nor the definition follows.                    *)
MovedTo(u, g, s) == LET t == [s EXCEPT !.engine.base = g]
                    IN  IF \E v \in Uids : row[v] = g THEN t
                        ELSE StartEngine(u, [t EXCEPT !.engine.loop = "off"], FALSE)
(* The user moves the folder away, or into another that is not a nested account's. *)
Movable(u, g) ==
    LET f == engine[u].at
    IN  /\ Present(f) /\ ~Present(g) /\ <<g, f>> \notin Within
        /\ \A h \in Folders : <<g, h>> \in Within => Present(h)
Move(u, g) ==
    /\ Alone(u) /\ engine[u].watch /\ Works(u) /\ Movable(u, g) /\ Uses("move")
    /\ LET f == engine[u].at
           moved == [h \in Folders |-> IF h = g THEN folder[f]
                                       ELSE IF h = f \/ <<h, f>> \in Within THEN "absent" ELSE folder[h]]
       IN  Set(u, MovedTo(u, g, [State(u) EXCEPT !.folder = moved]))
    /\ row' = IF \E v \in Uids : row[v] = g THEN row ELSE [row EXCEPT ![u] = g]
    /\ why' = [why EXCEPT ![u] = @ \cup {"moved"} \cup (IF engine[u].sends /\ ~engine[u].stopped THEN {"twice"} ELSE {})]
    /\ UNCHANGED <<life, mode, sync, defs, saved, aside, doing, pending>>

-------------------------------------------------------------------------------
(* The addition of an account                                              *)

AvailableIf(f, known) == \A u \in known : ~Overlap(f, defs[u])
AvailableMutant(f) == AvailableIf(f, {})  \* nobody is asked: mutant
Available(f) == AvailableIf(f, {u \in Uids : defs[u] # None})    \* check_local_folder_available

(* bind_engine up to the engine's bind; nocheck: the user has been told that the *)
(* folder is another account's.                                                  *)
BindBegins(u, f, user, nocheck) ==
    /\ Ready /\ row[u] = None /\ db[u] = None /\ aside[u] = None /\ Uses("bind")
    /\ Available(f) /\ \A v \in Uids : row[v] # f
    /\ Running = {} => \A v \in Uids : ~Clashes(v)
    /\ nocheck => HasMark(f) /\ folder[f] # user
    /\ row' = [row EXCEPT ![u] = f]
    /\ db' = [db EXCEPT ![u] = Blank]
    /\ doing' = [what |-> "bind", uid |-> u, user |-> user, nocheck |-> nocheck]
    /\ why' = [why EXCEPT ![u] = @ \cap {"moved", "restored"}]
    /\ UNCHANGED <<life, mode, sync, defs, saved, aside, folder, engine, pending>>
Binding == life = "up" /\ doing # None /\ doing.what = "bind"
RefusedFolderIf(f, checked) == sync /\ checked /\ HasMark(f) /\ folder[f] # doing.user
RefusedFolder(f) == RefusedFolderIf(f, ~doing.nocheck)
(* The configuration is written; a crash may come before the root is made. *)
BindWrites ==
    /\ Binding /\ db[doing.uid].user = None /\ ~RefusedFolder(row[doing.uid])
    /\ db' = [db EXCEPT ![doing.uid].user = doing.user, ![doing.uid].conf = sync]
    /\ folder' = [folder EXCEPT ![row[doing.uid]] = IF sync /\ @ = "absent" THEN "plain" ELSE @]
    /\ Note(IF HasMark(row[doing.uid]) /\ folder[row[doing.uid]] # doing.user THEN {doing.uid} ELSE {}, "unchecked")
    /\ Unspent /\ UNCHANGED <<life, mode, sync, defs, row, saved, aside, engine, doing, pending>>
(* _check_root ends the bind; the engine starts now if nothing has to be chosen. *)
BindEnds ==
    /\ Binding /\ db[doing.uid].user # None
    /\ LET u == doing.uid
           s == CheckRoot([State(u) EXCEPT !.engine = NewEngine(row[u])], FALSE)
       IN  /\ Set(u, IF sync THEN s ELSE StartEngine(u, s, FALSE))
           /\ defs' = [defs EXCEPT ![u] = row[u]]
           /\ doing' = None /\ mode' = [mode EXCEPT !.paused = FALSE]
           /\ Note(Running, "bound")
    /\ Unspent /\ UNCHANGED <<life, sync, row, saved, aside, pending>>
(* The server or the folder refuses: nothing is left of the account.       *)
BindFails ==
    /\ Binding
    /\ row' = [row EXCEPT ![doing.uid] = None] /\ db' = [db EXCEPT ![doing.uid] = None] /\ doing' = None
    /\ Unspent /\ UNCHANGED <<life, mode, sync, defs, saved, aside, folder, engine, pending, why>>

(* unbind_engine: the database goes first.                                 *)
UnbindBegins(u) ==
    /\ Ready /\ engine[u] # None /\ Uses("unbind")
    /\ db' = [db EXCEPT ![u] = None] /\ engine' = [engine EXCEPT ![u] = None]
    /\ pending' = pending \ {u}
    /\ doing' = [what |-> "unbind", uid |-> u, base |-> engine[u].base]
    /\ UNCHANGED <<life, mode, sync, defs, row, saved, aside, folder, why>>
UnbindEnds(purge) ==
    /\ life = "up" /\ doing # None /\ doing.what = "unbind"
    /\ row' = [row EXCEPT ![doing.uid] = None] /\ doing' = None
    /\ defs' = [u \in Uids |-> IF u = doing.uid THEN None ELSE row[u]]
    /\ folder' = [g \in Folders |-> IF purge /\ (g = doing.base \/ <<g, doing.base>> \in Within)
                                    THEN "absent" ELSE folder[g]]
    /\ Unspent /\ UNCHANGED <<life, mode, sync, saved, db, aside, engine, pending, why>>

-------------------------------------------------------------------------------
(* While the application is not there, files are lost, and given back.     *)

LoseDatabase(u) ==
    /\ life = "down" /\ db[u] # None /\ Uses("lose")
    /\ db' = [db EXCEPT ![u] = None] /\ aside' = [aside EXCEPT ![u] = db[u]]
    /\ Note({u}, "lost")
    /\ UNCHANGED <<life, mode, sync, defs, row, saved, folder, engine, doing, pending>>
GiveBack(u) ==
    /\ life = "down" /\ aside[u] # None
    /\ db' = [db EXCEPT ![u] = aside[u]] /\ aside' = [aside EXCEPT ![u] = None]
    /\ Unspent /\ UNCHANGED <<life, mode, sync, defs, row, saved, folder, engine, doing, pending, why>>
(* BaseDAO.__init__: what cannot be repaired is taken from the backup.     *)
RestoreManager ==
    /\ life = "down" /\ saved # row /\ Uses("damage")
    /\ row' = saved
    /\ Note({u \in Uids : saved[u] # row[u]}, "restored")
    /\ UNCHANGED <<life, mode, sync, defs, saved, db, aside, folder, engine, doing, pending>>

-------------------------------------------------------------------------------

AccountsInit ==
    /\ life = "down" /\ mode = [paused |-> FALSE, restart |-> FALSE, first |-> TRUE, crashed |-> FALSE]
    /\ sync \in BOOLEAN
    /\ row \in [Uids -> Folders \cup {None}]
    /\ \A u, v \in Uids : u # v /\ row[u] # None /\ row[v] # None => ~Overlap(row[u], row[v])
    /\ saved = row
    /\ \E user \in [Uids -> Users] :
         /\ db = [u \in Uids |-> IF row[u] = None THEN None
                    ELSE [user |-> user[u], conf |-> sync, root |-> sync, move |-> "none"]]
         /\ folder = [f \in Folders |->
              IF \E u \in Uids : row[u] = f
              THEN IF sync THEN user[CHOOSE u \in Uids : row[u] = f] ELSE "plain"
              ELSE IF \E u \in Uids : row[u] # None /\ <<row[u], f>> \in Within THEN "plain" ELSE "absent"]
    /\ defs = [u \in Uids |-> None] /\ aside = [u \in Uids |-> None]
    /\ engine = [u \in Uids |-> None] /\ doing = None /\ pending = {}
    /\ budget \in AccountBudgets /\ why = [u \in Uids |-> {}]

AccountsNext ==
    \/ Launch \/ FirstRun \/ SuspendApp \/ ResumeApp \/ Backup \/ Leave \/ Crash \/ RestoreManager
    \/ \E value \in BOOLEAN : SetSync(value)
    \/ \E u \in Uids :
         \/ DiskFull(u) \/ Refused(u) \/ Relogin(u) \/ Choose(u) \/ Recreate(u)
         \/ TransferBegins(u) \/ TransferEnds(u) \/ UnbindBegins(u) \/ LoseDatabase(u) \/ GiveBack(u)
         \/ \E user \in Users : Token(u, user)
         \/ \E g \in Folders : Move(u, g)
         \/ \E f \in Folders, user \in Users, nocheck \in BOOLEAN : BindBegins(u, f, user, nocheck)
    \/ \E f \in Folders : UserDeletes(f)
    \/ BindWrites \/ BindEnds \/ BindFails
    \/ \E purge \in BOOLEAN : UnbindEnds(purge)

AccountsSpec == AccountsInit /\ [][AccountsNext]_accountsVars

-------------------------------------------------------------------------------
(* Properties                                                              *)

AtRest == life = "up" /\ doing = None

(* The type of the state: an engine exists only while the application is up and has its database. *)
TypeOK ==
    /\ life \in {"down", "up", "failed"} /\ sync \in BOOLEAN
    /\ mode \in [paused : BOOLEAN, restart : BOOLEAN, first : BOOLEAN, crashed : BOOLEAN]
    /\ {defs, row, saved} \subseteq [Uids -> Folders \cup {None}]
    /\ {db, aside} \subseteq [Uids -> Rows \cup {None}]
    /\ folder \in [Folders -> Users \cup {"absent", "plain"}]
    /\ engine \in [Uids -> EngineStates \cup {None}] /\ doing \in Doings \cup {None}
    /\ pending \subseteq Uids
    /\ \A u \in Running : life = "up" /\ db[u] # None

(* EnginesFollow: what the user sees of an account is what its engine does.  Refused credentials stop it, *)
(* "Suspend" and "Resume" of the menu reach every account, and a started account does what is queued      *)
(* (manager.py:610-624, engine.py:500-513, 776-790).  The exceptions are ways the code has of starting an *)
(* engine that should be stopped or suspended: each is the reason its action records.                     *)
EnginesFollow ==
    \A u \in Running :
      LET e == engine[u] IN
      \* Nothing runs with credentials that were refused, but for ...
      /\ e.invalid /\ e.loop = "on" => why[u] \cap {"launched", "resumed", "recreated", "moved", "chosen", "root"} # {}
      \* Nothing runs while the application is paused, but for ...
      /\ AtRest /\ mode.paused /\ e.loop = "on" =>
            why[u] \cap {"already", "token", "relogin", "recreated", "moved", "chosen"} # {}
      \* Nothing stays suspended when the application is not paused, but for ...
      /\ AtRest /\ ~mode.paused /\ e.paused => why[u] \cap {"bound", "full"} # {}
      \* What is started does what is queued, but for ...
      /\ AtRest /\ ~mode.paused /\ ~e.stopped /\ ~e.paused /\ ~e.queue => "resumed" \in why[u]

(* Tracked: a transfer that is running has its record, so that it can be paused, and taken up after a     *)
(* restart; engine.py:634 starts an engine by dropping the records left ongoing, also when the engine was *)
(* never stopped ("twice"), and "Recreate" empties the database (engine.py:325-336).                      *)
Tracked == \A u \in Running : engine[u].sends => db[u].move # "none" \/ why[u] \cap {"twice", "recreated"} # {}

(* FoldersKept: the accounts and the folders stay apart and together: two accounts never share a folder,  *)
(* none synchronizes the folder marked for another user, the accounts of manager.db are those that run.   *)
(* The checks are spread over the binding window, Manager.bind_engine, Engine._check_fs and Manager.load; *)
(* the exceptions are folders moved and tables restored without these checks, databases lost and given    *)
(* back, a crash between the steps of a binding, a folder bound although it is marked for another user    *)
(* (the user insists, or synchronization is off), and a sign in as another user.                          *)
Strange == {"lost", "restored", "crashed"}
Shuffled == \E u \in Uids : why[u] \cap {"moved", "restored"} # {}
FoldersKept ==
    /\ AtRest =>
         \* Two accounts never have the same folder, or one in the other, but for ...
         /\ \A u, v \in Running :
               u # v /\ Overlap(row[u], row[v]) => (why[u] \cup why[v]) \cap {"moved", "lost", "restored"} # {}
         \* No account synchronizes the folder of another user, but for ...
         /\ \A u \in Running : engine[u].loop = "on" /\ sync /\ HasMark(engine[u].at) =>
               folder[engine[u].at] = db[u].user \/ why[u] \cap {"another user", "unchecked"} # {} \/ Shuffled
         \* All the accounts are there, and no other
         /\ \A u \in Uids : (row[u] # None) # (engine[u] # None) => why[u] \cap Strange # {}
         /\ \A u \in Running : engine[u].base = row[u] \/ "moved" \in why[u]
    \* The application starts, whatever its accounts are, but for ...
    /\ life = "failed" => Shuffled \/ \E u \in Uids : why[u] \cap {"another user", "unchecked", "crashed"} # {}

(* AccountsKept: Suspend and Resume reach every account, a transfer that runs has its record, accounts    *)
(* and folders stay apart and together, but for the ways named above (Manager, Engine, Application).      *)
AccountsKept == TypeOK /\ EnginesFollow /\ Tracked /\ FoldersKept
===============================================================================
