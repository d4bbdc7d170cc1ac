------------------------------ MODULE Settings ------------------------------
(***************************************************************************)
(* Where the options of the application come from (nxdrive/drive/          *)
(* options.py, commandline.py, manager.py, poll_workers.py): the defaults, *)
(* the configuration files, the command line, the database of the manager, *)
(* the configuration of the server, and the user.                          *)
(*                                                                         *)
(* The features (turned on and off in the settings, saved in a file) and   *)
(* the other options the user may change (the update channel, saved in the *)
(* database) are the items; file 1 is beside the executable, file 2 in the *)
(* home of the application.  MaxStarts, MaxChoices and MaxNews bound what  *)
(* may happen.                                                             *)
(***************************************************************************)
EXTENDS Nil, Integers

CONSTANTS Features, Configs, Values, Default,
          Lines, \* what the command line may say
          MaxStarts, MaxChoices, MaxNews

Items == Features \cup Configs
Maybe == Values \cup {None}

ItemsAssumption == /\ Features \cap Configs = {}
                   /\ Default \in Values /\ None \notin Values
                   /\ Lines \in SUBSET [Items -> Maybe]

VARIABLES opt,             \* the options: a value and who has set it
          file, exist,     \* what the files say; the files there are
          dao,             \* what the database says
          server, polled,  \* what the server says; has it been read since it changed
          cli, frozen,     \* what the command line says; is the application packaged
          pc, chosen,      \* is it running; what the user has asked last
          starts, choices, news, why

settingsVars == <<opt, file, exist, dao, server, polled, cli, frozen, pc, chosen, starts, choices, news, why>>
bounds == <<starts, choices, news>>

Nothing == [i \in Items |-> None]
Defaults == [i \in Items |-> [value |-> Default, setter |-> "default"]]

SettingsInit == /\ opt = Defaults /\ file = [f \in 1..2 |-> Nothing] /\ exist \in SUBSET (1..2)
                /\ dao = Nothing /\ server = Nothing /\ polled = FALSE
                /\ cli = Nothing /\ frozen \in BOOLEAN /\ pc = "off" /\ chosen = Nothing
                /\ starts = 0 /\ choices = 0 /\ news = 0 /\ why = {}

----------------------------------------------------------------------------

Setters == [default |-> 0, server |-> 1, local |-> 2, cli |-> 3, manual |-> 4]

\* MetaOptions.set: the same value is set again only by a file or the user, and never by a
\* weaker setter.
SetIf(weaker, option, value, setter) ==
    IF \/ value = None
       \/ value = option.value /\ setter \notin {"local", "manual"}
       \/ Setters[setter] < Setters[option.setter] + weaker
    THEN option ELSE [value |-> value, setter |-> setter]
SetMutant(option, value, setter) == SetIf(-4, option, value, setter)    \* anyone sets: mutant
SetOnceMutant(option, value, setter) == SetIf(1, option, value, setter)       \* not twice: mutant
Set(option, value, setter) == SetIf(0, option, value, setter)

\* CliHandler: both files, the second over the first, then the command line.
Loaded(i, line) ==
    LET first == Set(Defaults[i], file[1][i], "local")
    IN Set(Set(first, file[2][i], "local"), line[i], "cli")

\* Manager.__init__: a packaged application sets its channel again, as a file would.
Restored(i, option) ==
    IF i \in Configs /\ frozen
    THEN Set(option, IF dao[i] = None THEN option.value ELSE dao[i], "local")
    ELSE option

\* CliHandler.handle, then Manager.__init__.
StartWith(line) ==
    /\ pc = "off" /\ starts < MaxStarts /\ starts' = starts + 1
    /\ cli' = line /\ pc' = "on" /\ polled' = FALSE
    /\ opt' = [i \in Items |-> Restored(i, Loaded(i, line))]
    /\ why' = why \cup (IF frozen THEN {<<i, "packaged">> : i \in Configs} ELSE {})
    /\ UNCHANGED <<file, exist, dao, server, frozen, chosen, choices, news>>

Stop == /\ pc = "on" /\ pc' = "off"
        /\ UNCHANGED <<opt, file, exist, dao, server, polled, cli, frozen, chosen, bounds, why>>

\* save_config: all the features, in the first file there is, or in the home.
Target == IF 1 \in exist THEN 1 ELSE 2
Save(options) == /\ file' = [file EXCEPT ![Target] = [i \in Items |-> IF i \in Features THEN options[i].value ELSE @[i]]]
                 /\ exist' = exist \cup {Target}
Pinned(options) == {<<i, "saved">> : i \in {j \in Features : options[j].value # chosen'[j]}}

\* ServerOptionsUpdater._poll: the features are saved as if the user had chosen them.
Poll == /\ pc = "on" /\ ~polled /\ polled' = TRUE /\ chosen' = chosen
        /\ opt' = [i \in Items |-> Set(opt[i], server[i], "server")]
        /\ IF \E i \in Features : server[i] # None
           THEN Save(opt') /\ why' = why \cup Pinned(opt')
           ELSE UNCHANGED <<file, exist, why>>
        /\ UNCHANGED <<dao, server, cli, frozen, pc, bounds>>

\* Manager.set_feature_state, from the window: saved in a file that another one may hide.
SetFeatureState(i, v) ==
    /\ pc = "on" /\ choices < MaxChoices /\ choices' = choices + 1
    /\ opt' = [opt EXCEPT ![i] = Set(@, v, "manual")] /\ Save(opt')
    /\ chosen' = [chosen EXCEPT ![i] = v]
    /\ why' = why \cup Pinned(opt')
                  \cup (IF Target = 1 /\ file[2][i] \notin {None, v} THEN {<<i, "hidden">>} ELSE {})
    /\ UNCHANGED <<dao, server, polled, cli, frozen, pc, starts, news>>

\* Manager.set_config: kept only when it changes the option.
SetConfigIf(always, i, v) ==
    /\ pc = "on" /\ choices < MaxChoices /\ choices' = choices + 1
    /\ opt' = [opt EXCEPT ![i] = Set(@, v, "manual")]
    /\ dao' = IF always \/ opt'[i].value # opt[i].value THEN [dao EXCEPT ![i] = v] ELSE dao
    /\ chosen' = [chosen EXCEPT ![i] = v]
    /\ why' = IF dao'[i] # v THEN why \cup {<<i, "unkept">>} ELSE why
    /\ UNCHANGED <<file, exist, server, polled, cli, frozen, pc, starts, news>>
SetConfig(i, v) == SetConfigIf(FALSE, i, v)

\* Somebody edits a file.
Edit(f, i, v) ==
    /\ pc = "off" /\ choices < MaxChoices /\ choices' = choices + 1
    /\ file' = [file EXCEPT ![f][i] = v] /\ exist' = exist \cup {f}
    /\ chosen' = IF f = 1 /\ file[2][i] # None THEN chosen ELSE [chosen EXCEPT ![i] = v]
    /\ why' = IF dao[i] \notin {None, v} THEN why \cup {<<i, "kept">>} ELSE why
    /\ UNCHANGED <<opt, dao, server, polled, cli, frozen, pc, starts, news>>

\* The administrator changes what the server says.
Administer(i, v) ==
    /\ news < MaxNews /\ news' = news + 1
    /\ server' = [server EXCEPT ![i] = v] /\ polled' = FALSE
    /\ UNCHANGED <<opt, file, exist, dao, cli, frozen, pc, chosen, starts, choices, why>>

SettingsNext == \/ \E line \in Lines : StartWith(line)
                \/ Stop \/ Poll
                \/ \E i \in Features, v \in Values : SetFeatureState(i, v)
                \/ \E i \in Configs, v \in Values : SetConfig(i, v)
                \/ \E f \in 1..2, i \in Items, v \in Values : Edit(f, i, v)
                \/ \E i \in Items, v \in Values : Administer(i, v)
SettingsSpec == SettingsInit /\ [][SettingsNext]_settingsVars

----------------------------------------------------------------------------
(* Properties                                                              *)

\* Manager.get_update_channel, and the option itself.
Effective(i) == IF i \in Configs /\ dao[i] # None THEN dao[i] ELSE opt[i].value

Excused(i, reasons) == \E r \in reasons : <<i, r>> \in why

\* Without a word on the command line the application does what the user has asked last, in
\* the settings or in a file, now and after any number of restarts, whatever the server says;
\* unless a choice equal to the current value was not kept, the other file hides it, the
\* database hides the file, or what the command line said once was saved with a feature.
UserHeeded == pc = "on" => \A i \in Items : chosen[i] # None /\ cli[i] = None =>
                Effective(i) = chosen[i] \/ Excused(i, {"unkept", "hidden", "kept", "saved"})

\* ... and, of what neither the user nor the command line has set, what the administrator has
\* asked last; unless the feature has been saved in a file with the others, or the channel of
\* a packaged application has been set again at the start.
ServerHeeded == pc = "on" /\ polled => \A i \in Items :
                  server[i] # None /\ chosen[i] = None /\ cli[i] = None =>
                    Effective(i) = server[i] \/ Excused(i, {"saved", "packaged"})

\* The application does what the user, else the administrator, has asked last.
SettingsKept == UserHeeded /\ ServerHeeded
=============================================================================
