------------------------------ MODULE MCServices -------------------------------
(***************************************************************************)
(* Five components for TLC: in each behaviour one of them runs (part), with *)
(* its own bounds, while the others wait in an initial state of theirs.    *)
(***************************************************************************)
EXTENDS Links, SignIn, Database, Settings

VARIABLES part, \* the component of this behaviour
          filters, toScan, pairs, scan, window, ops, job, clicks, shown, doubts   \* those of the filters

(* A folder with a folder and a file, in it a file.                        *)
Tree == <<"top", "sub", "leaf", "file">>
ParentOf == [top |-> None, sub |-> "top", leaf |-> "sub", file |-> "top"]
W == INSTANCE Filters WITH left <- clicks, why <- doubts,
       Tree <- Tree, Parent <- ParentOf, Clicks <- 2, Opened <- 2, Failures <- 1
filtersVars == <<filters, toScan, pairs, scan, window, ops, job, clicks, shown, doubts>>

ASSUME W!TreeAssumption

-------------------------------------------------------------------------------
(* A link to four documents and one to edit a file named after             *)
(* "direct-download"; one account, of the first server.                    *)
download(docs) == [cmd |-> "download", mentions |-> FALSE, form |-> "plain", docs |-> docs]
edit == [cmd |-> "edit", mentions |-> TRUE, form |-> "plain", docs |-> <<>>]
document(i, form, host, name) == [id |-> i, form |-> form, server |-> host, user |-> name]
MCLinks == {download(<<document(1, "uid", None, None), document(2, "super-simple", "s", None),
                       document(3, "uid", None, None), document(4, "full", "t", "v")>>), edit}
MCAccounts == {[server |-> "s", user |-> "u"]}

(* An Alfresco engine and a Nuxeo engine.                                  *)
MCKindOf == [e \in Engines |-> IF e = "alfresco" THEN "loopback" ELSE "token"]
NoPage == [what \in {"page", "fail", "timeout", "refresh", "restart"} |-> 0]
PageBudgets == {[NoPage EXCEPT !.page = 2, !.fail = 1, !.timeout = 1, !.restart = 1],
                [NoPage EXCEPT !.page = 2, !.refresh = 2, !.restart = 1],
                [NoPage EXCEPT !.page = 1, !.refresh = 2, !.fail = 1, !.restart = 1]}

(* Two uploads, two downloads, the types of the documents and another row, *)
(* in a database of this release, of older ones and of a newer one.        *)
content(v, conf, schema, rows) == [user |-> v, conf |-> conf, schema |-> schema, rows |-> rows]
MCContents ==
    {content(24, conf, 24, {1, 3, 5}) : conf \in {-1, 22}}
    \cup {content(v, v, v, {1, 2, 3, 6}) : v \in {6, 8, 16, 20}}
    \cup {content(v, 21, v, {1, 2, 5}) : v \in {21, 22, 25}}
    \cup {content(0, -1, 3, {6}), content(0, 6, 6, {3, 6})}

(* The command line is empty or sets a feature.                            *)
NoLine == [i \in Items |-> None]
MCLines == {NoLine, [NoLine EXCEPT !["synchronization"] = 2]}

-------------------------------------------------------------------------------
(* A component that does not run has the first of its initial states.      *)
AnyOf(S) == CHOOSE x \in S : TRUE
MCInit ==
    /\ part \in {"links", "filters", "sign in", "database", "settings"}
    /\ LinksInit /\ W!Init /\ SignInInit /\ DatabaseInit /\ SettingsInit
    /\ part # "filters" => filters = {}
    /\ part # "sign in" => left = AnyOf(Budgets)
    /\ part # "database" => main.content = AnyOf(Contents)
    /\ part # "settings" => exist = {} /\ ~frozen

LinksStep == /\ part = "links" /\ LinksNext
             /\ UNCHANGED <<part, filtersVars, signInVars, databaseVars, settingsVars>>
FiltersStep == /\ part = "filters" /\ W!Next
               /\ UNCHANGED <<part, linksVars, signInVars, databaseVars, settingsVars>>
SignInStep == /\ part = "sign in" /\ SignInNext
              /\ UNCHANGED <<part, linksVars, filtersVars, databaseVars, settingsVars>>
DatabaseStep == /\ part = "database" /\ DatabaseNext
                /\ UNCHANGED <<part, linksVars, filtersVars, signInVars, settingsVars>>
SettingsStep == /\ part = "settings" /\ SettingsNext
                /\ UNCHANGED <<part, linksVars, filtersVars, signInVars, databaseVars>>

MCVars == <<part, linksVars, filtersVars, signInVars, databaseVars, settingsVars>>

(* A database is in use or starts for ever; the bounds of the others end   *)
(* them.                                                                   *)
Waits == part # "database" /\ UNCHANGED MCVars

MCNext == LinksStep \/ FiltersStep \/ SignInStep \/ DatabaseStep \/ SettingsStep \/ Waits
MCSpec == MCInit /\ [][MCNext]_MCVars

-------------------------------------------------------------------------------
(* The boxes of the window are what is filtered, and what is filtered is   *)
(* what is not synchronized, but for the defects named by Filters.         *)
FiltersKept == part = "filters" => W!ChoiceKept /\ W!FiltersFollowed
===============================================================================
