------------------------------ MODULE Updates ------------------------------
(***************************************************************************)
(* The updates of a packaged application (nxdrive/drive/updater): a worker *)
(* compares the versions of the update site with the servers and with the  *)
(* channel, and installs one, or asks the user, who may also start an      *)
(* update.  MaxChanges bounds what the site, the servers and the user      *)
(* change, MaxFailures the downloads that fail.                            *)
(***************************************************************************)
EXTENDS Integers, FiniteSetsExt, Sequences

CONSTANTS Versions, Servers, Sites, Channels, Broken, None, MaxChanges, MaxFailures

\* A version is a number here: what the code needs of them is their order.
ASSUME VersionsAssumption == Versions \in SUBSET Int /\ IsFiniteSet(Versions)

VARIABLES site, accounts,           \* what is published; the servers of the accounts, in order
          channel, client, auto,    \* the channel, the version it asks for, the user's preference
          current, bad,             \* the version that runs; the one that could not start
          known, phase,             \* what was fetched; where the check is
          status, version, available,
          install, dialog, prompted, \* the updates under way; the open question
          unfit, changes, failures, why

world == <<site, accounts, channel, client, auto>>
vars == <<world, current, bad, known, phase, status, version, available, install, dialog, prompted,
          unfit, changes, failures, why>>

Nobody == [by \in {"worker", "user"} |-> None]

Init == /\ site \in Sites /\ accounts \in {<<>>, <<CHOOSE s \in Servers : TRUE>>}
        /\ channel \in Channels /\ client = None /\ auto = TRUE
        /\ current \in Versions /\ bad = None
        /\ known = site /\ phase = "idle"
        /\ status = "up_to_date" /\ version = None /\ available = None
        /\ install = Nobody /\ dialog = None /\ prompted = FALSE
        /\ unfit = FALSE /\ changes = 0 /\ failures = 0 /\ why = {}

----------------------------------------------------------------------------
(* Which version (updater/utils.py).                                       *)

\* The first account speaks for all.
ServerVer == IF accounts = <<>> THEN None ELSE accounts[1]

\* get_compatible_versions and get_latest_version
Compatible(versions, server) == {v \in Versions : versions[v].type # None /\ server \in versions[v].servers}
LatestIf(skips, versions, server, ch) ==
    LET listed == {v \in Compatible(versions, server) :
                     versions[v].type \in {ch, "release"} /\ ~(skips /\ v = bad)}
    IN IF listed = {} THEN None ELSE Max(listed)
LatestMutant(versions, server, ch) == LatestIf(FALSE, versions, server, ch)    \* bad or not: mutant
Latest(versions, server, ch) == LatestIf(TRUE, versions, server, ch)

Answer(s, v) == [status |-> s, version |-> v]

GetUpdateStatus(versions) ==
    LET asked == channel = "centralized" /\ client # None
        latest == IF asked THEN client
                  ELSE Latest(versions, ServerVer, IF channel = "centralized" THEN "release" ELSE channel)
    IN IF versions[current].type = None \/ latest = None THEN Answer(None, None)
       ELSE IF latest = current THEN Answer("up_to_date", None)
       ELSE IF latest > current \/ (asked /\ current \in Compatible(versions, ServerVer))
       THEN Answer("update_available", latest)
       ELSE IF current \in Compatible(versions, ServerVer) THEN Answer("wrong_channel", latest)
       ELSE Answer("incompatible_server", latest)

----------------------------------------------------------------------------
(* The worker                                                              *)

\* BaseUpdater._poll, _fetch_versions: a new account or channel makes a check too.
Fetch == /\ phase = "idle" /\ install["worker"] = None /\ status # "updating"
         /\ known' = site /\ phase' = "known"
         /\ UNCHANGED <<world, current, bad, status, version, available, install, dialog, prompted,
                        unfit, changes, failures, why>>

\* The site does not answer.
FetchFails == /\ phase = "idle" /\ install["worker"] = None /\ status # "updating" /\ failures < MaxFailures
              /\ failures' = failures + 1
              /\ status' = "unavailable_site" /\ version' = None
              /\ UNCHANGED <<world, current, bad, known, phase, available, install, dialog, prompted,
                             unfit, changes, why>>

\* _get_update_status: with no answer, or no file for this system, the last status stays.
Check ==
    /\ phase = "known"
    /\ LET a == GetUpdateStatus(known)
           none == a.status = None
           nofile == a.version # None /\ (known[a.version].type = None \/ ~known[a.version].file)
       IN /\ available' = IF a.version # None THEN a.version ELSE available
          /\ IF none \/ nofile
             THEN UNCHANGED <<status, version>>
             ELSE /\ status' = a.status
                  /\ version' = IF auto THEN a.version ELSE None
          /\ why' = IF (none \/ nofile) /\ version # None THEN why \cup {"stale"} ELSE why
    /\ phase' = "checked"
    /\ UNCHANGED <<world, current, bad, known, install, dialog, prompted, unfit, changes, failures>>

\* It is published for this system and its channel, it works with every server, and did not
\* fail to start.
Fit(v) == /\ site[v].type \in {channel, "release"} \/ (channel = "centralized" /\ v = client)
          /\ site[v].file /\ v # bad
          /\ \A i \in DOMAIN accounts : accounts[i] \in site[v].servers

\* The user's update writes the status and the version the worker is about to use.
Meanwhile(by) == IF by = "user" /\ phase = "checked" THEN {"shared"} ELSE {}

\* update: what the worker installs of itself is noted.
Update(by, v) ==
    /\ status' = "updating" /\ version' = v
    /\ install' = [install EXCEPT ![by] = v]
    /\ unfit' = (unfit \/ (by = "worker" /\ ~Fit(v)))
    /\ why' = why \cup (IF v = client THEN {"asked"} ELSE {})
                  \cup (IF Cardinality({accounts[i] : i \in DOMAIN accounts}) > 1 THEN {"first"} ELSE {})
                  \cup Meanwhile(by)

\* _handle_status, up to date or nothing to do.
Rest == /\ phase = "checked" /\ phase' = "idle"
        /\ \/ status \notin {"incompatible_server", "update_available", "wrong_channel"}
           \/ status # "wrong_channel" /\ version = None
           \/ status = "update_available" /\ version # None /\ ~auto
           \/ status = "wrong_channel" /\ (prompted \/ dialog # None)
        /\ UNCHANGED <<world, current, bad, known, status, version, available, install, dialog, prompted,
                       unfit, changes, failures, why>>

\* _handle_status: the question asked by Application._wrong_channel or _server_incompatible.
Ask == /\ phase = "checked" /\ phase' = "idle" /\ dialog = None
       /\ \/ status = "wrong_channel" /\ ~prompted
          \/ status = "incompatible_server" /\ version # None
       /\ prompted' = (prompted \/ status = "wrong_channel")
       /\ dialog' = [about |-> status, version |-> IF version # None THEN version ELSE available]
       /\ UNCHANGED <<world, current, bad, known, status, version, available, install, unfit, changes,
                      failures, why>>

AutoUpdate ==
    /\ phase = "checked" /\ phase' = "idle"
    /\ status = "update_available" /\ version # None /\ auto
    /\ Update("worker", version)
    /\ UNCHANGED <<world, current, bad, known, available, dialog, prompted, changes, failures>>

\* The user starts the update the systray shows.
UserUpdate == /\ status \in {"update_available", "incompatible_server"} /\ available # None
              /\ install["user"] = None /\ dialog = None
              /\ Update("user", available)
              /\ UNCHANGED <<world, current, bad, known, phase, available, dialog, prompted, changes, failures>>

\* ... or accepts the version of the question.
Accept == /\ dialog # None /\ install["user"] = None
          /\ dialog' = None
          /\ Update("user", dialog.version)
          /\ UNCHANGED <<world, current, bad, known, phase, available, prompted, changes, failures>>

\* ... or refuses it, or takes the channel of the version that runs.
Refuse == /\ dialog # None /\ dialog' = None
          /\ \/ UNCHANGED <<channel, prompted>>
             \/ /\ dialog.about = "wrong_channel" /\ site[current].type # None
                /\ channel' = site[current].type /\ prompted' = FALSE
          /\ why' = IF phase # "idle" /\ channel' # channel THEN why \cup {"changed"} ELSE why
          /\ UNCHANGED <<site, accounts, client, auto, current, bad, known, phase, status, version, available,
                         install, unfit, changes, failures>>

----------------------------------------------------------------------------
(* An update                                                               *)

\* BaseUpdater.__init__
Fresh == /\ install' = Nobody /\ phase' = "idle" /\ dialog' = None /\ prompted' = FALSE
         /\ status' = "up_to_date" /\ version' = None /\ available' = None

\* The file is downloaded and checked, the application restarts; a version whose database
\* cannot be upgraded leaves, and the previous one is installed again by the user.
Installed(by) ==
    /\ install[by] # None /\ known[install[by]].type # None /\ known[install[by]].file
    /\ IF install[by] \in Broken
       THEN bad' = install[by] /\ auto' = FALSE /\ UNCHANGED current
       ELSE current' = install[by] /\ UNCHANGED <<bad, auto>>
    /\ Fresh
    /\ UNCHANGED <<site, accounts, channel, client, known, unfit, changes, failures, why>>

\* The user restarts the application.
Restart == /\ install = Nobody /\ phase = "idle" /\ Fresh
           /\ UNCHANGED <<world, current, bad, known, unfit, changes, failures, why>>

Ended(by) == install' = [install EXCEPT ![by] = None]

\* The connection is lost, or the file is not the right one, or cannot be copied: logged only.
Lost(by) ==
    /\ install[by] # None /\ failures < MaxFailures /\ failures' = failures + 1 /\ Ended(by)
    /\ why' = why \cup {"lost"}
    /\ UNCHANGED <<world, current, bad, known, phase, status, version, available, dialog, prompted, unfit, changes>>

\* No file is published for this system: its digest is not the expected one.
Corrupt(by) ==
    /\ install[by] # None /\ known[install[by]].type # None /\ ~known[install[by]].file /\ Ended(by)
    /\ why' = why \cup {"corrupt"}
    /\ UNCHANGED <<world, current, bad, known, phase, status, version, available, dialog, prompted, unfit,
                   changes, failures>>

\* Another error, a full disk, or a version the site does not have: it may be tried again.
FailsIf(resets, by) ==
    /\ install[by] # None /\ Ended(by)
    /\ \/ failures < MaxFailures /\ failures' = failures + 1
       \/ known[install[by]].type = None /\ UNCHANGED failures
    /\ status' = IF resets THEN "update_available" ELSE status
    /\ version' = install[by] /\ why' = why \cup Meanwhile(by)
    /\ UNCHANGED <<world, current, bad, known, phase, available, dialog, prompted, unfit, changes>>
FailsMutant(by) == FailsIf(FALSE, by)    \* the status is not set back: mutant
Fails(by) == FailsIf(TRUE, by)

----------------------------------------------------------------------------

\* The site, the servers, the configuration and the user change.
Change == /\ changes < MaxChanges /\ changes' = changes + 1
          /\ \/ site' \in Sites /\ UNCHANGED <<accounts, channel, client, auto>>
             \/ \E s \in Servers : Len(accounts) < 2 /\ accounts' = Append(accounts, s) /\ UNCHANGED <<site, channel, client, auto>>
             \/ channel' \in Channels /\ client' \in Versions \cup {None} /\ UNCHANGED <<site, accounts, auto>>
             \/ auto' = ~auto /\ UNCHANGED <<site, accounts, channel, client>>
          /\ why' = IF phase # "idle" THEN why \cup {"changed"} ELSE why
          /\ UNCHANGED <<current, bad, known, phase, status, version, available, install, dialog, prompted,
                         unfit, failures>>

Worker == Fetch \/ Check \/ Rest \/ Ask \/ AutoUpdate
Outcome(by) == Installed(by) \/ Corrupt(by) \/ Fails(by)
Next == \/ Worker \/ FetchFails \/ UserUpdate \/ Accept \/ Refuse \/ Restart \/ Change
        \/ \E by \in {"worker", "user"} : Outcome(by) \/ Lost(by)
Spec == Init /\ [][Next]_vars

----------------------------------------------------------------------------
(* Properties                                                              *)

\* What the application installs of itself is published for its system and its channel, works
\* with the servers of all the accounts, and has not failed to start before; unless an
\* earlier answer is used because the last check had none, the administrator has asked for
\* the version, only the first account was considered, the site, the servers or the channel have
\* changed since, or an update of the user has written another version after the check.
Suitable == unfit => why \cap {"stale", "asked", "first", "changed", "shared"} # {}

\* The application does not say for ever that it is being updated, which ends the checks:
\* there is an update under way, unless one was lost, or had no file for this system (until a restart).
Checks == status = "updating" => install # Nobody \/ why \cap {"lost", "corrupt"} # {}
=============================================================================
