----------------------------- MODULE MCDownloads ------------------------------
(***************************************************************************)
(* What the application downloads, for TLC: Direct Download, and its own   *)
(* updates, each with its own bounds.  In each behaviour one of them runs  *)
(* (part), and the other waits in its initial state.                       *)
(***************************************************************************)
EXTENDS Updates, DirectDownload

VARIABLE part \* the component of this behaviour

-------------------------------------------------------------------------------
(* Three versions, two servers, and five states of the update site: the    *)
(* last version is a release or a beta, or has no file for the system, or  *)
(* does not work with the second server.                                   *)
release(servers, file) == [type |-> "release", servers |-> servers, file |-> file]
beta(servers, file) == [type |-> "beta", servers |-> servers, file |-> file]
MCSites == {<<release({"a", "b"}, TRUE), release({"a", "b"}, TRUE), last>> :
             last \in {release({"a", "b"}, TRUE), beta({"a", "b"}, TRUE), release({"a", "b"}, FALSE),
                       release({"a"}, TRUE), [type |-> None, servers |-> {}, file |-> FALSE]}}

-------------------------------------------------------------------------------
(* Two documents of two titles, with three clicks of the user and faults   *)
(* in all, and a third that has the title of the first, with two.          *)
MCTitles == <<"a", "b", "a">>
Budgeted == clicks' + faults' <= IF asked' = Docs THEN 2 ELSE 3

-------------------------------------------------------------------------------
Waits == site = (CHOOSE s \in Sites : TRUE) /\ accounts = <<>> /\ channel = "release" /\ current = 1
MCInit ==
    /\ Init /\ DownloadsInit
    /\ part = "updates" \/ (part = "downloads" /\ Waits)

UpdatesStep == part = "updates" /\ Next /\ UNCHANGED <<part, downloadVars>>
DownloadsStep == part = "downloads" /\ DownloadsNext /\ Budgeted /\ UNCHANGED <<part, vars>>

MCNext == UpdatesStep \/ DownloadsStep
MCSpec == MCInit /\ [][MCNext]_<<part, vars, downloadVars>> /\ Fairness
===============================================================================
