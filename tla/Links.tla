------------------------------- MODULE Links --------------------------------
(***************************************************************************)
(* The links of the browser and of the menus of the desktop: each starts   *)
(* the application again; the new instance finds the one that runs with    *)
(* the PID file, hands its link over through a local socket and ends.      *)
(* The instance that runs parses the link and does what it asks.           *)
(*                                                                         *)
(* Instances are numbered in the order of their PIDs, and a PID is not     *)
(* used twice.  MaxRetries is MAX_RETRIES, MaxCrashes a bound.             *)
(***************************************************************************)
EXTENDS Nil, Integers, Sequences, SequencesExt

CONSTANTS Instances, LinkSet, Accounts, MaxRetries, MaxCrashes

\* None is neither an instance nor a reason.
Reasons == {"itself", "late", "early", "closed", "crashed", "named"}
ASSUME NoneAssumption == None \notin Instances /\ None \notin Reasons
\* The documents of a link are in a list.
ASSUME LinkAssumption == \A l \in LinkSet : IsFiniteSet(DOMAIN l.docs) /\ DOMAIN l.docs \subseteq Int

VARIABLES pidFile,                       \* nxdrive_qt.pid
          at, link, other, retry, again, \* of an instance; again: lock is called by refresh_lock
          inbox,                         \* the links to handle: who brought them, what they are
          cache,                         \* parse_protocol_url's, and the documents it returned
          records, jobs,                 \* how many records of downloads there are; how often each was taken up
          answered, lost, raced, repeated, crashes \* history

app == <<inbox, cache, records, jobs, answered, repeated>>
linksVars == <<pidFile, at, link, other, retry, again, app, lost, raced, crashes>>

LinksInit == /\ pidFile = None /\ at = [p \in Instances |-> "new"]
             /\ link = [p \in Instances |-> None] /\ other = [p \in Instances |-> None]
             /\ retry = [p \in Instances |-> 0] /\ again = [p \in Instances |-> FALSE]
             /\ inbox = [p \in Instances |-> <<>>] /\ cache = [p \in Instances |-> << >>]
             /\ records = 0 /\ jobs = <<>> /\ answered = {} /\ repeated = FALSE
             /\ lost = [p \in Instances |-> None] /\ raced = FALSE /\ crashes = 0

Alive(p) == p # None /\ at[p] \notin {"new", "ended"}
Goes(p, where) == at' = [at EXCEPT ![p] = where]
Blame(ps, reason) == lost' = [p \in Instances |-> IF p \in ps THEN reason ELSE lost[p]]

----------------------------------------------------------------------------
(* One instance (PidLockFile, CliHandler.launch)                           *)

\* A link is clicked, or the user starts the application.
Start(p) == /\ at[p] = "new" /\ (p > 1 => at[p - 1] # "new")
            /\ link' \in {[link EXCEPT ![p] = l] : l \in LinkSet \cup {None}}
            /\ Goes(p, "lock")
            /\ UNCHANGED <<pidFile, other, retry, again, app, lost, raced, crashes>>

\* check_running: its own PID is one that runs, too.
CheckRunningIf(p, running) ==
    /\ at[p] = "lock"
    /\ other' = [other EXCEPT ![p] = pidFile]
    /\ Goes(p, IF ~running THEN "stale" ELSE IF again[p] THEN "launch" ELSE "send")
    /\ UNCHANGED <<pidFile, link, retry, again, app, lost, raced, crashes>>
CheckMutant(p) == CheckRunningIf(p, Alive(pidFile) /\ at[pidFile] = "run")    \* one that listens: mutant
CheckRunning(p) == CheckRunningIf(p, Alive(pidFile))

\* The file is removed, whatever it holds by now.
RemoveFile(p) == /\ at[p] = "stale" /\ Goes(p, "free")
             /\ pidFile' = None /\ raced' = (raced \/ (pidFile # other[p] /\ Alive(pidFile)))
             /\ UNCHANGED <<link, other, retry, again, app, lost, crashes>>

WriteLock(p) == /\ at[p] = "free" /\ Goes(p, IF again[p] THEN "launch" ELSE "boot")
                /\ pidFile' = p /\ raced' = (raced \/ Alive(pidFile))
                /\ UNCHANGED <<link, other, retry, again, app, lost, crashes>>

\* launch is called again, with a new PidLockFile.
Launch(p) == /\ at[p] = "launch" /\ Goes(p, "lock") /\ again' = [again EXCEPT ![p] = FALSE]
             /\ UNCHANGED <<pidFile, link, other, retry, app, lost, raced, crashes>>

\* Another instance runs: without a link there is nothing to do.
Leave(p) == /\ at[p] = "send" /\ link[p] = None /\ Goes(p, "ended")
            /\ UNCHANGED <<pidFile, link, other, retry, again, app, lost, raced, crashes>>

\* _send_to_running_instance; the other one may have just ended.
Send(p) ==
    /\ at[p] = "send" /\ link[p] # None
    /\ IF at[other[p]] = "run"
       THEN /\ inbox' = [inbox EXCEPT ![other[p]] = Append(@, [from |-> p, link |-> link[p]])]
            /\ Goes(p, "ended") /\ UNCHANGED <<retry, again, lost>>
       ELSE /\ IF retry[p] < MaxRetries
               THEN /\ retry' = [retry EXCEPT ![p] = @ + 1] /\ again' = [again EXCEPT ![p] = TRUE]
                    /\ Goes(p, "lock")
               ELSE retry' = [retry EXCEPT ![p] = 0] /\ again' = again /\ Goes(p, "ended")
            /\ Blame({p}, IF other[p] = p THEN "itself"
                          ELSE IF at[other[p]] = "closing" THEN "late" ELSE "early")
            /\ UNCHANGED inbox
    /\ UNCHANGED <<pidFile, link, other, cache, records, jobs, answered, repeated, raced, crashes>>

\* Application.__init__: it listens, then handles its own link.
Boot(p) == /\ at[p] = "boot" /\ Goes(p, "run")
           /\ inbox' = [inbox EXCEPT ![p] = IF link[p] = None THEN @ ELSE <<[from |-> p, link |-> link[p]]>>]
           /\ UNCHANGED <<pidFile, link, other, retry, again, cache, records, jobs, answered, repeated, lost, raced, crashes>>

Bearers(p) == {inbox[p][i].from : i \in DOMAIN inbox[p]}

Forgets(p) == inbox' = [inbox EXCEPT ![p] = <<>>] /\ cache' = [cache EXCEPT ![p] = <<>>]

\* aboutToQuit closes the socket with the links that wait, then launch removes the PID file.
Quit(p) == /\ at[p] = "run" /\ Goes(p, "closing")
           /\ Blame(Bearers(p), "closed") /\ Forgets(p)
           /\ UNCHANGED <<pidFile, link, other, retry, again, records, jobs, answered, repeated, raced, crashes>>
Unlock(p) == /\ at[p] = "closing" /\ Goes(p, "ended")
             /\ pidFile' = None
             /\ raced' = (raced \/ (pidFile # p /\ Alive(pidFile)))
             /\ UNCHANGED <<link, other, retry, again, app, lost, crashes>>

Crash(p) == /\ at[p] \in {"boot", "run"} /\ crashes < MaxCrashes /\ crashes' = crashes + 1
            /\ Goes(p, "ended")
            /\ Blame(Bearers(p) \cup {p}, "crashed") /\ Forgets(p)
            /\ UNCHANGED <<pidFile, link, other, retry, again, records, jobs, answered, repeated, raced>>

----------------------------------------------------------------------------
(* The links (utils.parse_protocol_url)                                    *)

\* _parse_single_document_path: an identifier alone is of the server of the first document.
ParseDocument(d, server) ==
    LET doc(s, u) == [id |-> d.id, server |-> s, user |-> u, record |-> 0]
    IN CASE d.form = "uid" -> IF server = None THEN None ELSE doc(server, None)
         [] d.form \in {"simplified", "super-simple"} -> doc(d.server, None)
         [] d.form = "full" -> doc(d.server, d.user)
         [] OTHER -> None


\* The documents that are understood, at their places in the list.
ParseDownload(docs) ==
    LET addressed(i) == {j \in DOMAIN docs : j < i /\ docs[j].form \in {"simplified", "super-simple", "full"}}
        server(i) == IF addressed(i) = {} THEN None ELSE docs[Min(addressed(i))].server
        parsed(i) == ParseDocument(docs[i], server(i))
    IN [i \in {j \in DOMAIN docs : parsed(j) # None} |-> parsed(i)]

\* A link that holds the words "direct-download" is no Direct Edit link, whatever its file is.
Parse(l) ==
    IF l.cmd = "download" THEN [command |-> "download", docs |-> ParseDownload(l.docs)]
    ELSE IF (l.cmd = "edit" /\ l.mentions) \/ l.cmd = "unsupported" \/ (l.cmd = "transfer" /\ l.form = "bad")
    THEN None
    ELSE [command |-> l.cmd, docs |-> <<>>]

----------------------------------------------------------------------------
(* Application._handle_connection, _handle_nxdrive_url                     *)

Cached(p, l) == \E i \in DOMAIN cache[p] : cache[p][i].link = l
Parsed(p, l) == IF Cached(p, l) THEN (CHOOSE c \in ToSet(cache[p]) : c.link = l).parsed ELSE Parse(l)
Cache(p, l, parsed) ==
    cache' = [cache EXCEPT ![p] = Append(SelectSeq(@, LAMBDA c : c.link # l), [link |-> l, parsed |-> parsed])]

TakeIf(p, n) == inbox' = [inbox EXCEPT ![p] = SubSeq(@, n, Len(@))]
TakeMutant(p) == TakeIf(p, Len(inbox[p]) + 1)    \* all those that wait: mutant
Take(p) == TakeIf(p, 2)

Handles(p) == /\ at[p] = "run" /\ inbox[p] # <<>> /\ Take(p)
              /\ UNCHANGED <<pidFile, at, link, other, retry, again, raced, crashes>>

\* It asks for documents.
Asks(parsed) == IF parsed = None THEN FALSE ELSE parsed.command = "download" /\ DOMAIN parsed.docs # {}

\* It is done, or a window says why it is not; a link that is not understood is only logged.
Handle(p) ==
    /\ Handles(p)
    /\ LET m == Head(inbox[p])
           parsed == Parsed(p, m.link)
       IN /\ ~Asks(parsed)
          /\ IF parsed = None THEN UNCHANGED cache ELSE Cache(p, m.link, parsed)
          /\ IF parsed = None /\ m.link.cmd = "edit"
             THEN Blame({m.from}, "named") /\ UNCHANGED answered
             ELSE answered' = answered \cup {m.from} /\ UNCHANGED lost
    /\ UNCHANGED <<records, jobs, repeated>>

\* DirectDownload._get_engine
EngineOf(doc) == {a \in Accounts : a.server = doc.server /\ doc.user \in {None, a.user}}

\* _process_batch: each document of the list has a record already, or one is inserted, or it is left out.
Inserted(docs) == {i \in DOMAIN docs : docs[i].record = 0 /\ EngineOf(docs[i]) # {}}
Record(docs) ==
    [i \in DOMAIN docs |-> IF i \in Inserted(docs)
                           THEN [docs[i] EXCEPT !.record = records + Cardinality({j \in Inserted(docs) : j <= i})]
                           ELSE docs[i]]

\* They are submitted to the workers, record by record.
TakeUp(docs) ==
    /\ records' = records + Cardinality(Inserted(docs))
    /\ jobs' = [r \in 1..records' |-> Cardinality({i \in DOMAIN docs : Record(docs)[i].record = r})
                                     + IF r <= records THEN jobs[r] ELSE 0]

Named(docs, engine) == [i \in DOMAIN docs |-> IF docs[i].user = None
                                              THEN [docs[i] EXCEPT !.user = engine.user] ELSE docs[i]]

\* The user picks the account, or none: its name and the record are written in the documents
\* of the cache.
Download(p) ==
    /\ Handles(p)
    /\ LET m == Head(inbox[p])
           parsed == Parsed(p, m.link)
       IN /\ Asks(parsed)
          /\ answered' = answered \cup {m.from}
          /\ \E engine \in Accounts \cup {None} :
               IF engine = None
               THEN Cache(p, m.link, parsed) /\ UNCHANGED <<records, jobs, repeated>>
               ELSE LET named == Named(parsed.docs, engine)
                    IN /\ TakeUp(named) /\ repeated' = (repeated \/ Cached(p, m.link))
                       /\ Cache(p, m.link, [parsed EXCEPT !.docs = Record(named)])
    /\ UNCHANGED lost

----------------------------------------------------------------------------

Process(p) == Start(p) \/ CheckRunning(p) \/ RemoveFile(p) \/ WriteLock(p) \/ Launch(p) \/ Leave(p) \/ Send(p)
              \/ Boot(p) \/ Quit(p) \/ Unlock(p) \/ Crash(p) \/ Handle(p) \/ Download(p)
LinksNext == \E p \in Instances : Process(p)
LinksSpec == LinksInit /\ [][LinksNext]_linksVars

----------------------------------------------------------------------------
(* Properties                                                              *)

Runs(p) == at[p] \in {"boot", "run", "closing"}

\* Two instances never run at once, unless one wrote or removed the PID file between the
\* other's check and its write (PidLockFile.lock).
OneInstance == raced \/ \A p, q \in Instances : Runs(p) /\ Runs(q) => p = q

\* An instance that ends leaves its link with one that runs, or it has been answered; unless
\* the other one did not listen yet, or no more, or closed before it handled the link, or
\* crashed; or the instance found its own PID in the file; or the link names a file
\* after "direct-download".
Answered == \A p \in Instances :
    at[p] = "ended" /\ link[p] # None =>
        p \in answered \/ lost[p] # None \/ \E q \in Instances : at[q] = "run" /\ p \in Bearers(q)

\* Every document asked for has its own record, which can be paused or cancelled (DirectDownload.
\* download), unless the same link was clicked again: the record is in the cached documents.
OwnRecord == repeated \/ \A r \in 1..records : jobs[r] <= 1

\* A link is answered and a document asked for has its own record, but for the cases above.
LinksAnswered == Answered /\ OwnRecord
=============================================================================
