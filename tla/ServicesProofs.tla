---------------------------- MODULE ServicesProofs ----------------------------
(***************************************************************************)
(* Proofs about what the application does beside the synchronisation, for  *)
(* any values of the constants of Settings, SignIn and Links: who is       *)
(* heeded; that answers go where they were asked for, and tokens are not   *)
(* lost; that the PID file keeps one instance, and that an instance that   *)
(* ends leaves its link with somebody, who gives each document a record.   *)
(***************************************************************************)
EXTENDS Settings, SignIn, Links, FiniteSetTheorems, TLAPS

(***************************************************************************)
(* Settings                                                                *)
(***************************************************************************)

-----------------------------------------------------------------------------
(* Types                                                                   *)

Options == [value : Values, setter : {"default", "server", "local", "cli", "manual"}]
Said == [Items -> Maybe]

SettingsTypes ==
    /\ opt \in [Items -> Options]
    /\ file \in [1..2 -> Said]
    /\ dao \in Said /\ server \in Said /\ cli \in Said /\ chosen \in Said
    /\ frozen \in BOOLEAN /\ polled \in BOOLEAN /\ pc \in {"on", "off"}
    /\ \A i \in Features : dao[i] = None

\* What setting an option gives.
LEMMA SetGives ==
  ASSUME ItemsAssumption, NEW o \in Options, NEW v \in Maybe,
         NEW s \in {"default", "server", "local", "cli", "manual"}
  PROVE  /\ Set(o, v, s) \in Options
         /\ v = None => Set(o, v, s) = o
         /\ v # None /\ s = "manual" => Set(o, v, s) = [value |-> v, setter |-> "manual"]
         /\ v # None /\ s = "local" /\ o.setter \in {"default", "server", "local"} =>
                Set(o, v, s) = [value |-> v, setter |-> "local"]
         /\ s = "server" /\ o.setter \in {"local", "cli", "manual"} => Set(o, v, s) = o
         /\ v # None /\ s = "server" /\ o.setter \in {"default", "server"} =>
                Set(o, v, s).value = v /\ Set(o, v, s).setter \in {"default", "server"}
<1> USE DEF ItemsAssumption, Options, Maybe, Setters, Set, SetIf
<1>1. Set(o, v, s) \in Options
  OBVIOUS
<1>2. v = None => Set(o, v, s) = o
  OBVIOUS
<1>3. v # None /\ s = "manual" => Set(o, v, s) = [value |-> v, setter |-> "manual"]
  OBVIOUS
<1>4. v # None /\ s = "local" /\ o.setter \in {"default", "server", "local"} =>
         Set(o, v, s) = [value |-> v, setter |-> "local"]
  OBVIOUS
<1>5. s = "server" /\ o.setter \in {"local", "cli", "manual"} => Set(o, v, s) = o
  OBVIOUS
<1>6. v # None /\ s = "server" /\ o.setter \in {"default", "server"} =>
         Set(o, v, s).value = v /\ Set(o, v, s).setter \in {"default", "server"}
  OBVIOUS
<1> QED
  BY <1>1, <1>2, <1>3, <1>4, <1>5, <1>6

\* What the files say of an item: the second hides the first.
Says(i) == IF file[2][i] # None THEN file[2][i] ELSE file[1][i]

\* The options at the start, when the command line says nothing of the item.
LEMMA StartGives ==
  ASSUME ItemsAssumption, SettingsTypes, NEW i \in Items, NEW line \in Lines
  PROVE  LET o == Restored(i, Loaded(i, line))
         IN  /\ o \in Options
             /\ line[i] = None /\ Says(i) # None /\ dao[i] = None =>
                   o = [value |-> Says(i), setter |-> "local"]
             /\ line[i] = None /\ Says(i) = None /\ ~(i \in Configs /\ frozen) => o = Defaults[i]
<1> DEFINE default == Defaults[i]
           first == Set(default, file[1][i], "local")
           second == Set(first, file[2][i], "local")
           third == Set(second, line[i], "cli")
           o == Restored(i, Loaded(i, line))
<1>1. /\ file[1][i] \in Maybe /\ file[2][i] \in Maybe
      /\ line[i] \in Maybe /\ dao[i] \in Maybe
  BY DEF SettingsTypes, Said, ItemsAssumption
<1>2. default = [value |-> Default, setter |-> "default"] /\ default \in Options
  BY DEF Defaults, Options, ItemsAssumption
<1>3. /\ first \in Options
      /\ first = IF file[1][i] = None THEN default ELSE [value |-> file[1][i], setter |-> "local"]
  <2> HIDE DEF default
  <2> QED
    BY ZenonT(60), <1>1, <1>2, SetGives
<1>4. /\ second \in Options
      /\ second = IF Says(i) = None THEN default ELSE [value |-> Says(i), setter |-> "local"]
  <2>1. first.setter \in {"default", "server", "local"}
    BY <1>2, <1>3
  <2> HIDE DEF first, default
  <2> QED
    BY ZenonT(60), <1>1, <1>3, <2>1, SetGives DEF Says
<1>5. third \in Options /\ (line[i] = None => third = second)
  <2> HIDE DEF second
  <2> QED
    BY ZenonT(60), <1>1, <1>4, SetGives
<1>6. Loaded(i, line) = third
  BY DEF Loaded
<1>7. o = IF i \in Configs /\ frozen
          THEN Set(third, IF dao[i] = None THEN third.value ELSE dao[i], "local") ELSE third
  BY <1>6 DEF Restored
<1>8. third.value \in Maybe /\ third.value # None
  <2> HIDE DEF third
  <2> QED
    BY <1>5 DEF Options, ItemsAssumption, Maybe
<1>9. o \in Options
  <2> HIDE DEF third
  <2> QED
    BY <1>1, <1>5, <1>7, <1>8, SetGives
<1>10. ASSUME line[i] = None, Says(i) # None, dao[i] = None
       PROVE  o = [value |-> Says(i), setter |-> "local"]
  <2>1. third = [value |-> Says(i), setter |-> "local"]
    BY <1>4, <1>5, <1>10
  <2> HIDE DEF third, o
  <2>2. third.value = Says(i) /\ third.setter = "local"
    BY <2>1
  <2>3. Set(third, Says(i), "local") = [value |-> Says(i), setter |-> "local"]
    BY <1>5, <1>8, <1>10, <2>2, SetGives
  <2> QED
    BY <1>7, <1>10, <2>1, <2>2, <2>3
<1>11. line[i] = None /\ Says(i) = None /\ ~(i \in Configs /\ frozen) => o = Defaults[i]
  <2> HIDE DEF third, second, o
  <2> QED
    BY <1>4, <1>5, <1>7
<1> QED
  BY <1>9, <1>10, <1>11

\* Saving the features changes one file, where each feature now has its value.
LEMMA SaveGives ==
  ASSUME ItemsAssumption, SettingsTypes, opt' \in [Items -> Options], Save(opt')
  PROVE  /\ file' \in [1..2 -> Said] /\ Target \in 1..2
         /\ \A i \in Features : file'[Target][i] = opt'[i].value
         /\ \A i \in Configs : file'[Target][i] = file[Target][i]
         /\ \A f \in 1..2 : f # Target => file'[f] = file[f]
<1> DEFINE saved == [i \in Items |-> IF i \in Features THEN opt'[i].value ELSE file[Target][i]]
<1>1. Target \in 1..2 /\ file \in [1..2 -> Said]
  BY DEF Target, SettingsTypes
<1>2. file' = [file EXCEPT ![Target] = saved]
  BY DEF Save
<1>3. saved \in Said
  <2>1. ASSUME NEW i \in Items
        PROVE  opt'[i].value \in Maybe /\ file[Target][i] \in Maybe
    BY <1>1 DEF Options, Maybe, Said
  <2> QED
    BY <2>1 DEF Said
<1> QED
  BY <1>1, <1>2, <1>3 DEF Items, ItemsAssumption

-----------------------------------------------------------------------------
(* The user                                                                *)

Steps == {"unkept", "hidden", "kept", "saved"}

\* The item was chosen, and nothing has made the choice void.
Obeyed(i) == chosen[i] # None /\ ~Excused(i, Steps)

\* What the user has chosen is what the database says or, when it says nothing, the files: the
\* next start reads it there.
Written(i) == IF dao[i] # None THEN dao[i] = chosen[i] ELSE Says(i) = chosen[i]

\* ... and what the option is now, set by a file or the user, that the server does not change.
InForce(i) == dao[i] # None \/ (opt[i].value = chosen[i] /\ opt[i].setter \in {"local", "cli", "manual"})

UserInv ==
    /\ SettingsTypes
    /\ \A i \in Items : Obeyed(i) => Written(i)
    /\ \A i \in Items : pc = "on" /\ cli[i] = None /\ Obeyed(i) => InForce(i)

LEMMA UserStarts ==
  ASSUME ItemsAssumption, UserInv, NEW line \in Lines, StartWith(line)
  PROVE  UserInv'
<1>1. /\ opt' = [i \in Items |-> Restored(i, Loaded(i, line))] /\ cli' = line /\ why \subseteq why'
      /\ UNCHANGED <<file, dao, server, frozen, chosen>> /\ polled' = FALSE /\ pc' = "on"
  BY DEF StartWith
<1>2. ASSUME NEW i \in Items
      PROVE  opt'[i] \in Options
  BY <1>1, <1>2, StartGives DEF UserInv
<1>3. SettingsTypes'
  <2>1. opt' \in [Items -> Options]
    BY <1>1, <1>2
  <2> QED
    BY <1>1, <2>1 DEF SettingsTypes, UserInv, ItemsAssumption, Said
<1>4. ASSUME NEW i \in Items, Obeyed(i)'
      PROVE  Written(i)' /\ (line[i] = None => InForce(i)')
  <2>1. Obeyed(i) /\ chosen[i] # None
    BY <1>1, <1>4 DEF Obeyed, Excused
  <2>2. Written(i) /\ Written(i)'
    BY <1>1, <2>1 DEF UserInv, Written, Says
  <2>3. ASSUME line[i] = None, dao[i] = None
        PROVE  opt'[i] = [value |-> chosen[i], setter |-> "local"]
    <3>1. Says(i) # None /\ Says(i) = chosen[i]
      BY <2>1, <2>2, <2>3 DEF Written
    <3>2. Restored(i, Loaded(i, line)) = [value |-> Says(i), setter |-> "local"]
      BY <2>3, <3>1, StartGives DEF UserInv
    <3> QED
      BY <1>1, <3>1, <3>2
  <2> QED
    BY <1>1, <2>2, <2>3 DEF InForce
<1> QED
  BY <1>1, <1>3, <1>4 DEF UserInv

\* What saving the features does to the choices: a value that is not the one chosen is noted.
LEMMA SaveKeeps ==
  ASSUME ItemsAssumption, UserInv, opt' \in [Items -> Options], Save(opt'), NEW i \in Items,
         chosen'[i] # None, ~Excused(i, Steps)', Pinned(opt') \subseteq why', UNCHANGED dao,
         \/ chosen'[i] = chosen[i] /\ Obeyed(i)
         \/ i \in Features /\ (Target = 1 => file[2][i] \in {None, chosen'[i]})
  PROVE  Written(i)'
<1>1. i \in Features => opt'[i].value = chosen'[i]
  <2>1. i \in Features /\ opt'[i].value # chosen'[i] => <<i, "saved">> \in Pinned(opt')
    BY DEF Pinned
  <2> QED
    BY <2>1 DEF Excused, Steps
<1>2. Target \in 1..2 /\ SettingsTypes
  BY SaveGives DEF UserInv
<1>3. CASE i \in Features
  <2>1. file'[Target][i] = chosen'[i] /\ \A f \in 1..2 : f # Target => file'[f] = file[f]
    BY <1>1, <1>2, <1>3, SaveGives
  <2>2. dao'[i] = None
    BY <1>2, <1>3 DEF SettingsTypes
  <2>3. Target = 1 => file[2][i] \in {None, chosen'[i]}
    BY <1>3, <2>2 DEF UserInv, Written, Says
  <2> QED
    BY <1>2, <2>1, <2>2, <2>3 DEF Written, Says
<1>4. CASE i \in Configs /\ i \notin Features
  <2>1. \A f \in 1..2 : file'[f][i] = file[f][i]
    BY <1>2, <1>4, SaveGives
  <2> QED
    BY <1>4, <2>1 DEF UserInv, Written, Says
<1> QED
  BY <1>3, <1>4 DEF Items

LEMMA UserPolls ==
  ASSUME ItemsAssumption, UserInv, Poll
  PROVE  UserInv'
<1>1. /\ opt' = [i \in Items |-> Set(opt[i], server[i], "server")] /\ chosen' = chosen /\ polled' = TRUE
      /\ UNCHANGED <<dao, server, cli, frozen, pc>> /\ why \subseteq why'
  BY DEF Poll
<1>2. ASSUME NEW i \in Items
      PROVE  opt'[i] \in Options /\ (opt[i].setter \in {"local", "cli", "manual"} => opt'[i] = opt[i])
  BY <1>1, <1>2, SetGives DEF UserInv, SettingsTypes, Said
<1>3. opt' \in [Items -> Options]
  BY <1>1, <1>2
<1>4. (Save(opt') /\ Pinned(opt') \subseteq why') \/ UNCHANGED file
  BY DEF Poll
<1>5. SettingsTypes'
  BY <1>1, <1>3, <1>4, SaveGives DEF UserInv, SettingsTypes
<1>6. ASSUME NEW i \in Items, Obeyed(i)'
      PROVE  Written(i)' /\ (pc = "on" /\ cli[i] = None => InForce(i)')
  <2>1. Obeyed(i) /\ chosen'[i] # None /\ ~Excused(i, Steps)'
    BY <1>1, <1>6 DEF Obeyed, Excused
  <2>2. Written(i)'
    <3>1. CASE UNCHANGED file
      BY <1>1, <2>1, <3>1 DEF UserInv, Written, Says
    <3>2. CASE Save(opt') /\ Pinned(opt') \subseteq why'
      BY <1>1, <1>3, <2>1, <3>2, SaveKeeps
    <3> QED
      BY <1>4, <3>1, <3>2
  <2> QED
    BY <1>1, <1>2, <2>1, <2>2 DEF UserInv, InForce
<1> QED
  BY <1>1, <1>5, <1>6 DEF UserInv

LEMMA UserSetsFeature ==
  ASSUME ItemsAssumption, UserInv, NEW f \in Features, NEW v \in Values, SetFeatureState(f, v)
  PROVE  UserInv'
<1>1. /\ opt' = [opt EXCEPT ![f] = Set(opt[f], v, "manual")] /\ chosen' = [chosen EXCEPT ![f] = v]
      /\ UNCHANGED <<dao, server, polled, cli, frozen, pc>> /\ why \subseteq why'
      /\ Save(opt') /\ Pinned(opt') \subseteq why'
      /\ Target = 1 /\ file[2][f] \notin {None, v} => <<f, "hidden">> \in why'
  BY DEF SetFeatureState
<1>2. f \in Items /\ v \in Maybe /\ v # None
  BY DEF Items, Maybe, ItemsAssumption
<1>3. opt'[f] = [value |-> v, setter |-> "manual"] /\ opt' \in [Items -> Options]
  BY <1>1, <1>2, SetGives DEF UserInv, SettingsTypes
<1>4. SettingsTypes'
  BY <1>1, <1>2, <1>3, SaveGives DEF UserInv, SettingsTypes, Said
<1>5. ASSUME NEW i \in Items, Obeyed(i)'
      PROVE  Written(i)' /\ (pc = "on" /\ cli[i] = None => InForce(i)')
  <2>1. chosen'[i] # None /\ ~Excused(i, Steps)'
    BY <1>5 DEF Obeyed
  <2>2. i # f => Obeyed(i) /\ chosen'[i] = chosen[i] /\ opt'[i] = opt[i]
    BY <1>1, <2>1 DEF Obeyed, Excused, UserInv, SettingsTypes, Said
  <2>3. i = f => chosen'[i] = v /\ (Target = 1 => file[2][i] \in {None, chosen'[i]})
    BY <1>1, <1>2, <2>1 DEF Excused, Steps, UserInv, SettingsTypes, Said
  <2>4. Written(i)'
    BY <1>1, <1>3, <2>1, <2>2, <2>3, SaveKeeps
  <2> QED
    BY <1>1, <1>3, <2>2, <2>3, <2>4 DEF UserInv, InForce
<1> QED
  BY <1>1, <1>4, <1>5 DEF UserInv

LEMMA UserSetsConfig ==
  ASSUME ItemsAssumption, UserInv, NEW c \in Configs, NEW v \in Values, SetConfig(c, v)
  PROVE  UserInv'
<1>1. /\ opt' = [opt EXCEPT ![c] = Set(opt[c], v, "manual")] /\ chosen' = [chosen EXCEPT ![c] = v]
      /\ UNCHANGED <<file, server, polled, cli, frozen, pc>> /\ why \subseteq why'
      /\ dao' = dao \/ dao' = [dao EXCEPT ![c] = v]
      /\ dao'[c] # v => <<c, "unkept">> \in why'
  BY DEF SetConfig, SetConfigIf
<1>2. c \in Items /\ c \notin Features /\ v \in Maybe /\ v # None
  BY DEF Items, Maybe, ItemsAssumption
<1>3. opt' \in [Items -> Options]
  <2>1. opt \in [Items -> Options] /\ opt[c] \in Options
    BY <1>2 DEF UserInv, SettingsTypes
  <2>2. Set(opt[c], v, "manual") \in Options
    BY <1>2, <2>1, SetGives
  <2> QED
    BY <1>1, <2>1, <2>2
<1>4. SettingsTypes'
  <2>1. dao' \in Said /\ \A i \in Features : dao'[i] = None
    BY <1>1, <1>2 DEF UserInv, SettingsTypes, Said, Items
  <2>2. chosen' \in Said
    BY <1>1, <1>2 DEF UserInv, SettingsTypes, Said
  <2> QED
    BY <1>1, <1>3, <2>1, <2>2 DEF UserInv, SettingsTypes
<1>5. ASSUME NEW i \in Items, Obeyed(i)'
      PROVE  Written(i)' /\ (pc = "on" /\ cli[i] = None => InForce(i)')
  <2>1. i # c => Obeyed(i) /\ chosen'[i] = chosen[i] /\ opt'[i] = opt[i] /\ dao'[i] = dao[i]
    BY <1>1, <1>5 DEF Obeyed, Excused, UserInv, SettingsTypes, Said
  <2>2. i = c => chosen'[i] = v /\ dao'[i] = v
    BY <1>1, <1>2, <1>5 DEF Obeyed, Excused, Steps, UserInv, SettingsTypes, Said
  <2> QED
    BY <1>1, <1>2, <2>1, <2>2 DEF UserInv, Written, Says, InForce
<1> QED
  BY <1>1, <1>4, <1>5 DEF UserInv

LEMMA UserEdits ==
  ASSUME ItemsAssumption, UserInv, NEW f \in 1..2, NEW j \in Items, NEW v \in Values, Edit(f, j, v)
  PROVE  UserInv'
<1>1. /\ file' = [file EXCEPT ![f][j] = v] /\ pc = "off"
      /\ chosen' = IF f = 1 /\ file[2][j] # None THEN chosen ELSE [chosen EXCEPT ![j] = v]
      /\ UNCHANGED <<opt, dao, server, polled, cli, frozen, pc>> /\ why \subseteq why'
      /\ dao[j] \notin {None, v} => <<j, "kept">> \in why'
  BY DEF Edit
<1>2. v \in Maybe /\ v # None
  BY DEF Maybe, ItemsAssumption
<1>3. SettingsTypes'
  BY <1>1, <1>2 DEF UserInv, SettingsTypes, Said
<1>4. ASSUME NEW i \in Items, Obeyed(i)'
      PROVE  Written(i)'
  <2>1. \A g \in 1..2 : file'[g][i] = IF g = f /\ i = j THEN v ELSE file[g][i]
    BY <1>1 DEF UserInv, SettingsTypes, Said
  <2>2. CASE i # j \/ (f = 1 /\ file[2][j] # None)
    <3>1. chosen'[i] = chosen[i] /\ Obeyed(i)
      BY <1>1, <1>4, <2>2 DEF Obeyed, Excused, UserInv, SettingsTypes, Said
    <3> QED
      BY <1>1, <2>1, <2>2, <3>1 DEF UserInv, Written, Says
  <2>3. CASE i = j /\ ~(f = 1 /\ file[2][j] # None)
    <3>1. chosen'[i] = v /\ dao[i] \in {None, v}
      BY <1>1, <1>4, <2>3 DEF Obeyed, Excused, Steps, UserInv, SettingsTypes, Said
    <3> QED
      BY <1>1, <1>2, <2>1, <2>3, <3>1 DEF Written, Says
  <2> QED
    BY <2>2, <2>3
<1> QED
  BY <1>1, <1>3, <1>4 DEF UserInv

LEMMA UserStep ==
  ASSUME ItemsAssumption, UserInv, [SettingsNext]_settingsVars
  PROVE  UserInv'
<1>1. ASSUME Stop
      PROVE  UserInv'
  BY <1>1 DEF Stop, bounds, UserInv, SettingsTypes, Obeyed, Excused, Written, Says, InForce
<1>2. ASSUME NEW j \in Items, NEW v \in Values, Administer(j, v)
      PROVE  UserInv'
  BY <1>2 DEF Administer, UserInv, SettingsTypes, Said, Maybe, Obeyed, Excused, Written, Says, InForce
<1>3. ASSUME UNCHANGED settingsVars
      PROVE  UserInv'
  BY <1>3 DEF settingsVars, UserInv, SettingsTypes, Obeyed, Excused, Written, Says, InForce
<1> QED
  BY <1>1, <1>2, <1>3, UserStarts, UserPolls, UserSetsFeature, UserSetsConfig, UserEdits DEF SettingsNext

\* For any items, values and command lines, and whatever the files, the database, the window
\* and the server say in any order over any number of restarts: the last choice of the user
\* is what the application does, but in the four cases named (UserHeeded).
THEOREM UserIsHeeded ==
  ASSUME ItemsAssumption
  PROVE  SettingsSpec => []UserHeeded
<1>1. SettingsInit => UserInv
  <2>1. Defaults \in [Items -> Options]
    BY DEF Defaults, Options, ItemsAssumption
  <2>2. Nothing \in Said /\ \A i \in Items : Nothing[i] = None
    BY DEF Nothing, Said, Maybe
  <2>3. Features \in SUBSET Items
    BY DEF Items
  <2> QED
    BY <2>1, <2>2, <2>3 DEF SettingsInit, UserInv, SettingsTypes, Obeyed
<1>2. UserInv /\ [SettingsNext]_settingsVars => UserInv'
  BY UserStep
<1>3. UserInv => UserHeeded
  <2> SUFFICES ASSUME UserInv, pc = "on", NEW i \in Items, chosen[i] # None, cli[i] = None, Obeyed(i)
               PROVE  Effective(i) = chosen[i]
    BY DEF UserHeeded, Obeyed, Steps
  <2>1. Written(i) /\ InForce(i)
    BY DEF UserInv
  <2>2. i \in Configs \/ dao[i] = None
    BY DEF Items, UserInv, SettingsTypes
  <2> QED
    BY <2>1, <2>2 DEF Effective, Written, InForce
<1> QED
  BY <1>1, <1>2, <1>3, PTL DEF SettingsSpec

-----------------------------------------------------------------------------
(* The administrator                                                       *)

\* Nobody here has set the item, nor saved it with the features.
Open(i) == chosen[i] = None /\ ~Excused(i, {"saved"})

\* ... so that nothing has it but the default and the server, whose last word is followed once
\* it is read.
ServerInv ==
    /\ SettingsTypes
    /\ \A i \in Items : Open(i) => dao[i] = None /\ file[1][i] = None /\ file[2][i] = None
    /\ \A i \in Items : pc = "on" /\ cli[i] = None /\ Open(i) =>
          \/ Excused(i, {"packaged"})
          \/ /\ opt[i].setter \in {"default", "server"}
             /\ polled /\ server[i] # None => opt[i].value = server[i]

LEMMA ServerStarts ==
  ASSUME ItemsAssumption, ServerInv, NEW line \in Lines, StartWith(line)
  PROVE  ServerInv'
<1>1. /\ opt' = [i \in Items |-> Restored(i, Loaded(i, line))] /\ cli' = line /\ why \subseteq why'
      /\ UNCHANGED <<file, dao, server, frozen, chosen>> /\ polled' = FALSE /\ pc' = "on"
      /\ frozen => \A i \in Configs : <<i, "packaged">> \in why'
  BY DEF StartWith
<1>2. ASSUME NEW i \in Items
      PROVE  opt'[i] \in Options
  BY <1>1, <1>2, StartGives DEF ServerInv
<1>3. SettingsTypes'
  <2>1. opt' \in [Items -> Options]
    BY <1>1, <1>2
  <2> QED
    BY <1>1, <2>1 DEF SettingsTypes, ServerInv, ItemsAssumption, Said
<1>4. ASSUME NEW i \in Items, Open(i)'
      PROVE  Open(i) /\ (line[i] = None => Excused(i, {"packaged"})' \/ opt'[i].setter = "default")
  <2>1. Open(i) /\ Says(i) = None
    BY <1>1, <1>4 DEF Open, Excused, ServerInv, Says
  <2>2. CASE i \in Configs /\ frozen
    BY <1>1, <2>1, <2>2 DEF Excused
  <2>3. CASE ~(i \in Configs /\ frozen)
    <3>1. line[i] = None => opt'[i] = Defaults[i]
      BY <1>1, <2>1, <2>3, StartGives DEF ServerInv
    <3> QED
      BY <2>1, <3>1 DEF Defaults
  <2> QED
    BY <2>2, <2>3
<1> QED
  BY <1>1, <1>3, <1>4 DEF ServerInv

LEMMA SaveLeaves ==
  ASSUME ItemsAssumption, ServerInv, opt' \in [Items -> Options], Save(opt'), NEW i \in Items,
         Open(i)', chosen'[i] = chosen[i], why \subseteq why', Pinned(opt') \subseteq why'
  PROVE  /\ i \in Configs /\ Open(i)
         /\ file'[1][i] = None /\ file'[2][i] = None
<1>1. Open(i)
  BY DEF Open, Excused
<1>2. i \notin Features
  <2>1. opt'[i].value # None
    BY DEF Options, ItemsAssumption
  <2>2. i \in Features => <<i, "saved">> \in Pinned(opt')
    BY <2>1 DEF Pinned, Open
  <2> QED
    BY <2>2 DEF Open, Excused
<1>3. \A f \in 1..2 : file'[f][i] = file[f][i]
  BY <1>2, SaveGives DEF ServerInv, Items
<1> QED
  BY <1>1, <1>2, <1>3 DEF ServerInv, Items

LEMMA ServerPolls ==
  ASSUME ItemsAssumption, ServerInv, Poll
  PROVE  ServerInv'
<1>1. /\ opt' = [i \in Items |-> Set(opt[i], server[i], "server")] /\ chosen' = chosen
      /\ UNCHANGED <<dao, server, cli, frozen, pc>> /\ why \subseteq why' /\ polled' = TRUE
  BY DEF Poll
<1>2. ASSUME NEW i \in Items
      PROVE  /\ opt'[i] \in Options
             /\ opt[i].setter \in {"default", "server"} =>
                   /\ opt'[i].setter \in {"default", "server"}
                   /\ server[i] # None => opt'[i].value = server[i]
  <2>1. opt'[i] = Set(opt[i], server[i], "server") /\ opt[i] \in Options /\ server[i] \in Maybe
    BY <1>1 DEF ServerInv, SettingsTypes, Said
  <2>2. PICK v \in Maybe, o \in Options : v = server[i] /\ o = opt[i]
    BY <2>1
  <2>3. Set(o, v, "server") \in Options
    BY <2>2, SetGives
  <2>4. v # None /\ o.setter \in {"default", "server"} =>
           Set(o, v, "server").value = v /\ Set(o, v, "server").setter \in {"default", "server"}
    BY <2>2, SetGives
  <2>5. v = None => Set(o, v, "server") = o
    BY <2>2, SetGives
  <2> QED
    BY <2>1, <2>2, <2>3, <2>4, <2>5
<1>3. opt' \in [Items -> Options]
  BY <1>1, <1>2
<1>4. (Save(opt') /\ Pinned(opt') \subseteq why') \/ UNCHANGED file
  BY DEF Poll
<1>5. SettingsTypes'
  BY <1>1, <1>3, <1>4, SaveGives DEF ServerInv, SettingsTypes
<1>6. ASSUME NEW i \in Items, Open(i)'
      PROVE  Open(i) /\ file'[1][i] = None /\ file'[2][i] = None
  <2>1. Open(i) /\ chosen'[i] = chosen[i]
    BY <1>1, <1>6 DEF Open, Excused
  <2>2. CASE UNCHANGED file
    BY <2>1, <2>2 DEF ServerInv
  <2>3. CASE Save(opt') /\ Pinned(opt') \subseteq why'
    BY <1>1, <1>3, <1>6, <2>1, <2>3, SaveLeaves
  <2> QED
    BY <1>4, <2>2, <2>3
<1> QED
  BY <1>1, <1>2, <1>5, <1>6 DEF ServerInv, Excused

LEMMA ServerAndFeature ==
  ASSUME ItemsAssumption, ServerInv, NEW f \in Features, NEW v \in Values, SetFeatureState(f, v)
  PROVE  ServerInv'
<1>1. /\ opt' = [opt EXCEPT ![f] = Set(opt[f], v, "manual")] /\ chosen' = [chosen EXCEPT ![f] = v]
      /\ UNCHANGED <<dao, server, polled, cli, frozen, pc>> /\ why \subseteq why'
      /\ Save(opt') /\ Pinned(opt') \subseteq why'
  BY DEF SetFeatureState
<1>2. f \in Items /\ v \in Maybe /\ v # None
  BY DEF Items, Maybe, ItemsAssumption
<1>3. opt' \in [Items -> Options]
  BY <1>1, <1>2, SetGives DEF ServerInv, SettingsTypes
<1>4. SettingsTypes'
  BY <1>1, <1>2, <1>3, SaveGives DEF ServerInv, SettingsTypes, Said
<1>5. ASSUME NEW i \in Items, Open(i)'
      PROVE  /\ Open(i) /\ file'[1][i] = None /\ file'[2][i] = None
             /\ opt'[i] = opt[i]
  <2>1. i # f /\ chosen'[i] = chosen[i]
    BY <1>1, <1>2, <1>5 DEF Open, ServerInv, SettingsTypes, Said
  <2> QED
    BY <1>1, <1>3, <1>5, <2>1, SaveLeaves DEF ServerInv, SettingsTypes
<1> QED
  BY <1>1, <1>4, <1>5 DEF ServerInv, Excused

LEMMA ServerAndConfig ==
  ASSUME ItemsAssumption, ServerInv, NEW c \in Configs, NEW v \in Values, SetConfig(c, v)
  PROVE  ServerInv'
<1>1. /\ opt' = [opt EXCEPT ![c] = Set(opt[c], v, "manual")] /\ chosen' = [chosen EXCEPT ![c] = v]
      /\ UNCHANGED <<file, server, polled, cli, frozen, pc>> /\ why \subseteq why'
      /\ dao' = dao \/ dao' = [dao EXCEPT ![c] = v]
  BY DEF SetConfig, SetConfigIf
<1>2. c \in Items /\ c \notin Features /\ v \in Maybe /\ v # None
  BY DEF Items, Maybe, ItemsAssumption
<1>3. opt' \in [Items -> Options]
  <2>1. opt \in [Items -> Options] /\ opt[c] \in Options
    BY <1>2 DEF ServerInv, SettingsTypes
  <2>2. Set(opt[c], v, "manual") \in Options
    BY <1>2, <2>1, SetGives
  <2> QED
    BY <1>1, <2>1, <2>2
<1>4. SettingsTypes'
  <2>1. dao' \in Said /\ \A i \in Features : dao'[i] = None
    BY <1>1, <1>2 DEF ServerInv, SettingsTypes, Said, Items
  <2>2. chosen' \in Said
    BY <1>1, <1>2 DEF ServerInv, SettingsTypes, Said
  <2> QED
    BY <1>1, <1>3, <2>1, <2>2 DEF ServerInv, SettingsTypes
<1>5. ASSUME NEW i \in Items, Open(i)'
      PROVE  Open(i) /\ dao'[i] = dao[i] /\ opt'[i] = opt[i]
  <2>1. i # c
    BY <1>1, <1>2, <1>5 DEF Open, ServerInv, SettingsTypes, Said
  <2> QED
    BY <1>1, <1>5, <2>1 DEF Open, Excused, ServerInv, SettingsTypes, Said
<1> QED
  BY <1>1, <1>4, <1>5 DEF ServerInv, Excused

LEMMA ServerAndEdit ==
  ASSUME ItemsAssumption, ServerInv, NEW f \in 1..2, NEW j \in Items, NEW v \in Values, Edit(f, j, v)
  PROVE  ServerInv'
<1>1. /\ file' = [file EXCEPT ![f][j] = v] /\ pc = "off"
      /\ chosen' = IF f = 1 /\ file[2][j] # None THEN chosen ELSE [chosen EXCEPT ![j] = v]
      /\ UNCHANGED <<opt, dao, server, polled, cli, frozen, pc>> /\ why \subseteq why'
  BY DEF Edit
<1>2. v \in Maybe /\ v # None
  BY DEF Maybe, ItemsAssumption
<1>3. SettingsTypes'
  BY <1>1, <1>2 DEF ServerInv, SettingsTypes, Said
<1>4. ASSUME NEW i \in Items, Open(i)'
      PROVE  Open(i) /\ file'[1][i] = file[1][i] /\ file'[2][i] = file[2][i]
  <2>1. Open(i)
    BY <1>1, <1>2, <1>4 DEF Open, Excused, ServerInv, SettingsTypes, Said
  <2>2. i # j
    BY <1>1, <1>2, <1>4, <2>1 DEF Open, ServerInv, SettingsTypes, Said
  <2> QED
    BY <1>1, <2>1, <2>2 DEF ServerInv, SettingsTypes, Said
<1> QED
  BY <1>1, <1>3, <1>4 DEF ServerInv

LEMMA ServerStep ==
  ASSUME ItemsAssumption, ServerInv, [SettingsNext]_settingsVars
  PROVE  ServerInv'
<1>1. ASSUME Stop
      PROVE  ServerInv'
  BY <1>1 DEF Stop, bounds, ServerInv, SettingsTypes, Open, Excused
<1>2. ASSUME NEW j \in Items, NEW v \in Values, Administer(j, v)
      PROVE  ServerInv'
  BY <1>2 DEF Administer, ServerInv, SettingsTypes, Said, Maybe, Open, Excused
<1>3. ASSUME UNCHANGED settingsVars
      PROVE  ServerInv'
  BY <1>3 DEF settingsVars, ServerInv, SettingsTypes, Open, Excused
<1> QED
  BY <1>1, <1>2, <1>3, ServerStarts, ServerPolls, ServerAndFeature, ServerAndConfig, ServerAndEdit DEF SettingsNext

\* ... and, of what neither the user nor the command line has set, the application does what
\* the server said when it was last asked, but in the two cases named (ServerHeeded).
THEOREM ServerIsHeeded ==
  ASSUME ItemsAssumption
  PROVE  SettingsSpec => []ServerHeeded
<1>1. SettingsInit => ServerInv
  <2>1. Defaults \in [Items -> Options]
    BY DEF Defaults, Options, ItemsAssumption
  <2>2. Nothing \in Said /\ \A i \in Items : Nothing[i] = None
    BY DEF Nothing, Said, Maybe
  <2>3. Features \in SUBSET Items
    BY DEF Items
  <2>4. SettingsInit => file[1] = Nothing /\ file[2] = Nothing
    BY DEF SettingsInit
  <2>5. SettingsInit => SettingsTypes
    BY <2>1, <2>2, <2>3 DEF SettingsInit, SettingsTypes
  <2> QED
    BY <2>2, <2>4, <2>5 DEF SettingsInit, ServerInv
<1>2. ServerInv /\ [SettingsNext]_settingsVars => ServerInv'
  BY ServerStep
<1>3. ServerInv => ServerHeeded
  <2> SUFFICES ASSUME ServerInv, pc = "on", polled, NEW i \in Items, server[i] # None, chosen[i] = None,
                      cli[i] = None, ~Excused(i, {"saved", "packaged"})
               PROVE  Effective(i) = server[i]
    BY DEF ServerHeeded
  <2>1. Open(i) /\ ~Excused(i, {"packaged"})
    BY DEF Open, Excused
  <2> QED
    BY <2>1 DEF ServerInv, Effective
<1> QED
  BY <1>1, <1>2, <1>3, PTL DEF SettingsSpec

\* The two together: the application does what the user, else the administrator, has asked
\* last, whatever the order of the choices, the answers of the server and the restarts.
THEOREM SettingsAreKept ==
  ASSUME ItemsAssumption
  PROVE  SettingsSpec => []SettingsKept
<1>1. UserHeeded /\ ServerHeeded => SettingsKept
  BY DEF SettingsKept
<1> QED
  BY <1>1, UserIsHeeded, ServerIsHeeded, PTL

(***************************************************************************)
(* SignIn                                                                  *)
(***************************************************************************)

-----------------------------------------------------------------------------
(* Types                                                                   *)

Names == {"owner", "other"}
Pages == [for : Engines \cup {New}, kind : Kinds]
Calls == [page : Nat, user : Names]
Answers == {calls[i].page : i \in DOMAIN calls}

SignInTypes ==
    /\ pages \in Seq(Pages)
    /\ open \subseteq DOMAIN pages /\ used \subseteq DOMAIN pages
    /\ {params, pending, tmp, listener} \subseteq DOMAIN pages \cup {None}
    /\ calls \in Seq(Calls) /\ Answers \subseteq DOMAIN pages
    /\ saving \in Engines \cup {None}
    /\ user \in [Engines -> Names]
    /\ auth \in [Engines -> Tokens \cup {None}]
    /\ stored \in [Engines -> [token : Tokens, for : Names]]
    /\ void \subseteq [engine : Engines, token : Tokens]
    /\ unsaved \subseteq [engine : Engines, token : Tokens]

\* A page is answered once, and what is in memory or in manager.db is of the last one.
PagesInv ==
    /\ open \cap Answers = {}
    /\ \A i, j \in DOMAIN calls : calls[i].page = calls[j].page => i = j
    /\ params \in {None, LastPage} /\ pending \in {None, LastPage}

BaseInv == SignInTypes /\ PagesInv

-----------------------------------------------------------------------------
(* Sequences                                                               *)

LEMMA TailFacts ==
  ASSUME NEW S, NEW s \in Seq(S), s # <<>>
  PROVE  /\ Head(s) \in S /\ Tail(s) \in Seq(S)
         /\ 1 \in DOMAIN s /\ s[1] = Head(s)
         /\ Len(Tail(s)) = Len(s) - 1 /\ Len(s) \in Nat \ {0}
         /\ DOMAIN s = 1..Len(s) /\ DOMAIN Tail(s) = 1..(Len(s) - 1)
         /\ \A i \in DOMAIN Tail(s) : i + 1 \in DOMAIN s /\ Tail(s)[i] = s[i + 1]
<1>1. Len(s) \in Nat /\ Len(s) # 0 /\ DOMAIN s = 1..Len(s)
  OBVIOUS
<1>2. Len(Tail(s)) = Len(s) - 1 /\ DOMAIN Tail(s) = 1..(Len(s) - 1) /\ Tail(s) \in Seq(S)
  BY <1>1
<1>3. 1 \in DOMAIN s /\ s[1] = Head(s) /\ Head(s) \in S
  BY <1>1
<1>4. \A i \in DOMAIN Tail(s) : i + 1 \in DOMAIN s /\ Tail(s)[i] = s[i + 1]
  BY <1>1, <1>2
<1> QED
  BY <1>1, <1>2, <1>3, <1>4

LEMMA AppendFacts ==
  ASSUME NEW S, NEW s \in Seq(S), NEW e \in S
  PROVE  /\ Append(s, e) \in Seq(S) /\ Len(Append(s, e)) = Len(s) + 1 /\ Len(s) \in Nat
         /\ DOMAIN s = 1..Len(s) /\ DOMAIN Append(s, e) = 1..(Len(s) + 1)
         /\ Append(s, e)[Len(s) + 1] = e
         /\ \A i \in DOMAIN s : Append(s, e)[i] = s[i]
  OBVIOUS

\* The last page is one of them.
LEMMA LastFacts ==
  ASSUME SignInTypes
  PROVE  /\ LastPage \in Nat /\ DOMAIN pages = 1..LastPage
         /\ None \notin DOMAIN pages /\ LastPage # None
         /\ \A p \in DOMAIN pages : /\ p \in Nat /\ p > 0 /\ p <= LastPage
                                    /\ pages[p] \in Pages /\ pages[p].for \in Engines \cup {New}
                                    /\ pages[p].kind \in Kinds
<1>1. pages \in Seq(Pages)
  BY DEF SignInTypes
<1>2. Len(pages) \in Nat /\ DOMAIN pages = 1..Len(pages) /\ \A p \in DOMAIN pages : pages[p] \in Pages
  BY <1>1
<1>3. None \notin Nat
  BY KindAssumption DEF KindAssumption
<1> QED
  BY <1>2, <1>3 DEF LastPage, Pages

-----------------------------------------------------------------------------
(* The effects of the actions                                              *)

\* A page is opened.
LEMMA BeginEffect ==
  ASSUME BaseInv, NEW purpose \in Engines \cup {New}, NEW kind \in Kinds, Begin(purpose, kind)
  PROVE  /\ BaseInv'
         /\ LastPage' = LastPage + 1 /\ LastPage' \in DOMAIN pages' /\ LastPage' \notin DOMAIN pages
         /\ DOMAIN pages \subseteq DOMAIN pages'
         /\ pages'[LastPage'] = [for |-> purpose, kind |-> kind]
         /\ \A p \in DOMAIN pages : pages'[p] = pages[p]
         /\ open' = open \cup {LastPage'}
         /\ (kind # "token" => tmp' = LastPage') /\ (kind = "loopback" => listener' = LastPage')
         /\ UNCHANGED <<used, calls, saving, user, auth, stored, void, unsaved, accounts, mishaps>>
<1>1. PICK page : page = LastPage + 1
  OBVIOUS
<1>2. /\ pages' = Append(pages, [for |-> purpose, kind |-> kind])
      /\ open' = open \cup {page} /\ params' = page /\ pending' = page
      /\ tmp' = (IF kind = "token" THEN tmp ELSE page)
      /\ listener' = (IF kind = "loopback" THEN page ELSE listener)
      /\ UNCHANGED <<used, calls, saving, user, auth, stored, void, unsaved, accounts, mishaps>>
  BY <1>1 DEF Begin, BeginIf, Listen, tokens
<1>3. pages \in Seq(Pages) /\ [for |-> purpose, kind |-> kind] \in Pages
  BY DEF BaseInv, SignInTypes, Pages
<1>4. /\ pages' \in Seq(Pages) /\ LastPage \in Nat /\ LastPage' = page
      /\ DOMAIN pages = 1..LastPage /\ DOMAIN pages' = 1..page
      /\ pages'[page] = [for |-> purpose, kind |-> kind]
      /\ \A p \in DOMAIN pages : pages'[p] = pages[p]
  BY <1>1, <1>2, <1>3, AppendFacts DEF LastPage
<1>5. page \in DOMAIN pages' /\ page \notin DOMAIN pages /\ DOMAIN pages \subseteq DOMAIN pages'
  BY <1>1, <1>4
<1>6. Answers' = Answers
  BY <1>2 DEF Answers
<1>7. SignInTypes'
  BY <1>2, <1>4, <1>5, <1>6 DEF BaseInv, SignInTypes
<1>8. PagesInv'
  BY <1>2, <1>4, <1>5, <1>6 DEF BaseInv, SignInTypes, PagesInv
<1> QED
  BY <1>1, <1>2, <1>4, <1>5, <1>7, <1>8 DEF BaseInv

\* An answer reaches the main thread, or a loopback server that no longer listens.
LEMMA AnswerEffect ==
  ASSUME BaseInv, NEW page \in open, NEW name \in Names, Answer(page, name)
  PROVE  /\ BaseInv'
         /\ open' = open \ {page}
         /\ \/ pages[page].kind # "loopback" /\ Answers' = Answers \cup {page} /\ listener' = listener
            \/ listener = page /\ listener' = None /\ Answers' = Answers \cup {page}
            \/ /\ pages[page].kind = "loopback" /\ listener # page
               /\ UNCHANGED <<listener, calls>> /\ Answers' = Answers
         /\ UNCHANGED <<pages, used, params, pending, tmp, saving, user, auth, stored, void, unsaved,
                        accounts, mishaps>>
<1>1. PICK c : c = [page |-> page, user |-> name]
  OBVIOUS
<1>2. page \in DOMAIN pages /\ page \in Nat /\ c \in Calls /\ c.page = page /\ calls \in Seq(Calls)
  BY <1>1, LastFacts DEF BaseInv, SignInTypes, Calls
<1>3. /\ open' = open \ {page}
      /\ \/ pages[page].kind # "loopback" /\ calls' = Append(calls, c) /\ listener' = listener
         \/ listener = page /\ listener' = None /\ calls' = Append(calls, c)
         \/ pages[page].kind = "loopback" /\ listener # page /\ UNCHANGED <<listener, calls>>
      /\ UNCHANGED <<pages, used, params, pending, tmp, saving, user, auth, stored, void, unsaved,
                     accounts, mishaps>>
  BY <1>1 DEF Answer, tokens
<1>4. LastPage' = LastPage
  BY <1>3 DEF LastPage
<1>5. ASSUME calls' = Append(calls, c)
      PROVE  /\ calls' \in Seq(Calls) /\ Answers' = Answers \cup {page}
             /\ \A i, j \in DOMAIN calls' : calls'[i].page = calls'[j].page => i = j
  <2>1. PICK n \in Nat : /\ n = Len(calls) /\ DOMAIN calls = 1..n /\ DOMAIN calls' = 1..(n + 1)
                         /\ calls'[n + 1] = c /\ calls' \in Seq(Calls)
                         /\ \A i \in DOMAIN calls : calls'[i] = calls[i]
    BY <1>2, <1>5, AppendFacts
  <2>2. Answers' = Answers \cup {page}
    BY <1>2, <2>1 DEF Answers
  <2>3. \A i \in DOMAIN calls : calls[i].page # page
    BY DEF BaseInv, PagesInv, Answers
  <2>4. ASSUME NEW i \in DOMAIN calls', NEW j \in DOMAIN calls', calls'[i].page = calls'[j].page
        PROVE  i = j
    <3>1. CASE i \in DOMAIN calls /\ j \in DOMAIN calls
      BY <2>1, <2>4, <3>1 DEF BaseInv, PagesInv
    <3>2. CASE i = n + 1 /\ j = n + 1
      BY <3>2
    <3>3. CASE i = n + 1 /\ j \in DOMAIN calls
      BY <1>2, <2>1, <2>3, <2>4, <3>3
    <3>4. CASE j = n + 1 /\ i \in DOMAIN calls
      BY <1>2, <2>1, <2>3, <2>4, <3>4
    <3> QED
      BY <2>1, <3>1, <3>2, <3>3, <3>4
  <2> QED
    BY <2>1, <2>2, <2>4
<1>6. ASSUME UNCHANGED calls
      PROVE  Answers' = Answers
  BY <1>6 DEF Answers
<1>7. /\ calls' \in Seq(Calls) /\ Answers' \subseteq Answers \cup {page}
      /\ \A i, j \in DOMAIN calls' : calls'[i].page = calls'[j].page => i = j
  BY <1>2, <1>3, <1>5, <1>6 DEF BaseInv, PagesInv
<1>8. SignInTypes'
  BY <1>2, <1>3, <1>7 DEF BaseInv, SignInTypes
<1>9. PagesInv'
  BY <1>3, <1>4, <1>7 DEF BaseInv, PagesInv
<1> QED
  BY <1>3, <1>5, <1>6, <1>8, <1>9 DEF BaseInv

\* The main thread takes an answer: its page is one of those that wait, and no more.
LEMMA TakesEffect ==
  ASSUME BaseInv, Takes
  PROVE  /\ Call.page \in Answers /\ Call.user \in Names /\ calls' \in Seq(Calls)
         /\ saving = None
         /\ \A i, j \in DOMAIN calls' : calls'[i].page = calls'[j].page => i = j
         /\ Answers' = Answers \ {Call.page}
<1>1. calls \in Seq(Calls) /\ calls # <<>> /\ calls' = Tail(calls) /\ saving = None
  BY DEF BaseInv, SignInTypes, Takes
<1>2. PICK n \in Nat \ {0} :
        /\ n = Len(calls) /\ DOMAIN calls = 1..n /\ DOMAIN calls' = 1..(n - 1)
        /\ Head(calls) \in Calls /\ calls' \in Seq(Calls) /\ calls[1] = Head(calls)
        /\ \A i \in DOMAIN calls' : i + 1 \in DOMAIN calls /\ calls'[i] = calls[i + 1]
  BY <1>1, TailFacts
<1>3. Call.page \in Answers /\ Call.user \in Names
  BY <1>2 DEF Call, Calls, Answers
<1>4. \A i, j \in DOMAIN calls : calls[i].page = calls[j].page => i = j
  BY DEF BaseInv, PagesInv
<1>5. ASSUME NEW i \in DOMAIN calls', NEW j \in DOMAIN calls', calls'[i].page = calls'[j].page
      PROVE  i = j
  <2>1. i \in Nat /\ j \in Nat /\ i + 1 \in DOMAIN calls /\ j + 1 \in DOMAIN calls
        /\ calls[i + 1].page = calls[j + 1].page
    BY <1>2, <1>5
  <2>2. i + 1 = j + 1
    BY <2>1, <1>4
  <2> QED
    BY <2>1, <2>2
<1>6. ASSUME NEW p \in Answers'
      PROVE  p \in Answers /\ p # Call.page
  <2>1. PICK i \in DOMAIN calls' : p = calls'[i].page
    BY <1>6 DEF Answers
  <2>2. i \in Nat /\ i > 0 /\ i + 1 \in DOMAIN calls /\ p = calls[i + 1].page
    BY <1>2, <2>1
  <2>3. i + 1 # 1 /\ 1 \in DOMAIN calls
    BY <1>2, <2>2
  <2> QED
    BY <1>2, <1>4, <2>2, <2>3 DEF Answers, Call
<1>7. ASSUME NEW p \in Answers, p # Call.page
      PROVE  p \in Answers'
  <2>1. PICK i \in DOMAIN calls : p = calls[i].page
    BY DEF Answers
  <2>2. i # 1
    BY <1>2, <1>7, <2>1 DEF Call
  <2>3. i \in Nat /\ i - 1 \in DOMAIN calls' /\ (i - 1) + 1 = i
    BY <1>2, <2>1, <2>2
  <2>4. calls'[i - 1] = calls[i]
    BY <1>2, <2>3
  <2> QED
    BY <2>1, <2>3, <2>4 DEF Answers
<1>8. Answers' = Answers \ {Call.page}
  BY <1>6, <1>7
<1> QED
  BY <1>1, <1>2, <1>3, <1>5, <1>8

\* What an answer does to the accounts: nothing, or it is for the last page.
AnswerIgnored == UNCHANGED <<user, auth, used, saving, accounts>>
EngineSigned(c, name) ==
    LET e == pages[LastPage].for
    IN  /\ e \in Engines
        /\ auth' = [auth EXCEPT ![e] = Token(c, 0)] /\ user' = [user EXCEPT ![e] = name]
        /\ saving' = e /\ UNCHANGED accounts
AccountAdded(c) ==
    accounts' = accounts \cup {[for |-> LastPage, by |-> c]} /\ UNCHANGED <<user, auth, saving>>
AnswerGiven(c, name) ==
    /\ LastPage \in DOMAIN pages /\ used' = used \cup {c}
    /\ EngineSigned(c, name) \/ AccountAdded(c)
    /\ c = LastPage \/ "overtaken" \in mishaps'
Handling == HandleToken \/ HandleCode \/ CodeFails

LEMMA GiveEffect ==
  ASSUME BaseInv, NEW page \in {LastPage}, page \in DOMAIN pages, Give(page)
  PROVE  \/ used' = used \cup {Call.page} /\ (EngineSigned(Call.page, Call.user) \/ AccountAdded(Call.page))
         \/ AnswerIgnored /\ Call.page # page
<1>1. CASE pages[page].for \in Engines
  BY <1>1 DEF Give, EngineSigned
<1>2. CASE pages[page].for \notin Engines
  BY <1>2 DEF Give, AccountAdded, AnswerIgnored
<1> QED
  BY <1>1, <1>2

LEMMA HandleEffect ==
  ASSUME BaseInv, Handling
  PROVE  /\ saving = None /\ Call.page \in Answers /\ Call.user \in Names
         /\ Answers' = Answers \ {Call.page}
         /\ UNCHANGED <<pages, open, stored, void, unsaved>>
         /\ mishaps \subseteq mishaps'
         /\ AnswerIgnored \/ AnswerGiven(Call.page, Call.user)
         /\ BaseInv'
<1>1. Takes /\ UNCHANGED <<pages, open, stored, void, unsaved>> /\ mishaps \subseteq mishaps'
  BY DEF Handling, HandleToken, HandleCode, HandleCodeIf, CodeFails, browser
<1>2. /\ Call.page \in Answers /\ Call.user \in Names /\ calls' \in Seq(Calls) /\ saving = None
      /\ \A i, j \in DOMAIN calls' : calls'[i].page = calls'[j].page => i = j
      /\ Answers' = Answers \ {Call.page}
  BY <1>1, TakesEffect
<1>3. Call.page # LastPage /\ ~CodeFails => "overtaken" \in mishaps'
  BY DEF Handling, HandleToken, HandleCode, HandleCodeIf, Overtaken
<1>4. {params, pending} \subseteq {None, LastPage} /\ {params, pending} \subseteq DOMAIN pages \cup {None}
  BY DEF BaseInv, PagesInv, SignInTypes
<1>5. /\ AnswerIgnored \/ AnswerGiven(Call.page, Call.user)
      /\ params' \in {None, LastPage} /\ pending' \in {None, LastPage}
      /\ {params', pending'} \subseteq DOMAIN pages \cup {None}
      /\ tmp' \in {tmp, None} /\ listener' \in {listener, None}
  <2>1. CASE HandleToken
    <3>1. Remembered \in {None, LastPage} /\ Remembered \in DOMAIN pages \cup {None}
      BY <1>4 DEF Remembered
    <3>2. /\ params' = Remembered /\ pending' = None /\ UNCHANGED <<tmp, listener>>
          /\ IF Remembered = None THEN Ignored ELSE Give(Remembered)
      BY <2>1 DEF HandleToken
    <3>3. AnswerIgnored \/ AnswerGiven(Call.page, Call.user)
      <4>1. CASE Remembered = None
        BY <3>2, <4>1 DEF Ignored, AnswerIgnored
      <4>2. CASE Remembered # None
        <5>1. Remembered \in {LastPage} /\ Remembered \in DOMAIN pages /\ Give(Remembered)
          BY <3>1, <3>2, <4>2
        <5>2. ~CodeFails
          BY <2>1 DEF HandleToken, CodeFails
        <5> QED
          BY <5>1, <5>2, <1>3, GiveEffect DEF AnswerGiven
      <4> QED
        BY <4>1, <4>2
    <3> QED
      BY <1>4, <3>1, <3>2, <3>3
  <2>2. CASE HandleCode
    <3>1. /\ UNCHANGED <<params, pending>>
          /\ \/ Ignored /\ tmp' = tmp /\ UNCHANGED listener
             \/ /\ tmp' = None /\ listener' \in {listener, None}
                /\ IF params = None THEN Ignored ELSE Give(params)
      BY <2>2 DEF HandleCode, HandleCodeIf, Release, Listen
    <3>2. AnswerIgnored \/ AnswerGiven(Call.page, Call.user)
      <4>1. CASE Ignored
        BY <4>1 DEF Ignored, AnswerIgnored
      <4>2. CASE params # None /\ Give(params)
        <5>1. params \in {LastPage} /\ params \in DOMAIN pages
          BY <1>4, <4>2
        <5>2. Call.page = LastPage \/ "overtaken" \in mishaps'
          BY <2>2 DEF HandleCode, HandleCodeIf, Overtaken
        <5> QED
          BY <5>1, <5>2, <4>2, GiveEffect DEF AnswerGiven
      <4> QED
        BY <3>1, <4>1, <4>2
    <3> QED
      BY <1>4, <3>1, <3>2
  <2>3. CASE CodeFails
    BY <1>4, <2>3 DEF CodeFails, Ignored, AnswerIgnored, Release, Listen
  <2> QED
    BY <2>1, <2>2, <2>3 DEF Handling
<1>6. LastPage' = LastPage
  BY <1>1 DEF LastPage
<1>7. Call.page \in DOMAIN pages /\ Call.page \in Nat
  BY <1>2, LastFacts DEF BaseInv, SignInTypes
<1>8. /\ user' \in [Engines -> Names] /\ auth' \in [Engines -> Tokens \cup {None}]
      /\ saving' \in Engines \cup {None} /\ used' \subseteq DOMAIN pages
  <2>1. Token(Call.page, 0) \in Tokens
    BY <1>7 DEF Token, Tokens
  <2>2. CASE AnswerIgnored
    BY <2>2 DEF AnswerIgnored, BaseInv, SignInTypes
  <2>3. CASE AnswerGiven(Call.page, Call.user)
    <3>1. used' \subseteq DOMAIN pages
      BY <1>7, <2>3 DEF AnswerGiven, BaseInv, SignInTypes
    <3>2. CASE EngineSigned(Call.page, Call.user)
      BY <1>2, <2>1, <3>1, <3>2 DEF EngineSigned, BaseInv, SignInTypes
    <3>3. CASE AccountAdded(Call.page)
      BY <3>1, <3>3 DEF AccountAdded, BaseInv, SignInTypes
    <3> QED
      BY <2>3, <3>2, <3>3 DEF AnswerGiven
  <2> QED
    BY <1>5, <2>2, <2>3
<1>9. SignInTypes'
  BY <1>1, <1>2, <1>5, <1>8 DEF BaseInv, SignInTypes
<1>10. PagesInv'
  BY <1>1, <1>2, <1>5, <1>6 DEF BaseInv, PagesInv
<1> QED
  BY <1>1, <1>2, <1>5, <1>9, <1>10 DEF BaseInv

\* The tokens that are refreshed, refused, saved; the server that does not listen any more; and
\* the start of the application.
Refreshing == \E e \in Engines : Refresh(e) \/ RefreshLost(e) \/ Refused(e)
Others == NotDiscovered \/ NotOpened \/ Timeout \/ SaveToken \/ Persist \/ Restart \/ Refreshing

LEMMA TokenFacts ==
  ASSUME SignInTypes, NEW e \in Engines, auth[e] # None
  PROVE  /\ auth[e] \in Tokens /\ auth[e].page \in Nat /\ auth[e].gen \in Nat
         /\ Token(auth[e].page, auth[e].gen + 1) \in Tokens
         /\ Issued(e, auth[e]) \in [engine : Engines, token : Tokens]
         /\ Issued(e, Token(auth[e].page, auth[e].gen + 1)) \in [engine : Engines, token : Tokens]
<1>1. auth[e] \in Tokens
  BY DEF SignInTypes
<1> QED
  BY <1>1 DEF Tokens, Token, Issued

LEMMA OtherEffect ==
  ASSUME BaseInv, Others
  PROVE  /\ BaseInv' /\ UNCHANGED <<pages, open, used, accounts>>
         /\ Answers' \subseteq Answers /\ mishaps \subseteq mishaps'
<1> USE DEF BaseInv
<1>1. ASSUME UNCHANGED <<pages, open, used, params, pending, calls>>,
             tmp' = tmp, listener' \in {listener, None},
             saving' \in Engines \cup {None}, user' = user,
             auth' \in [Engines -> Tokens \cup {None}],
             stored' \in [Engines -> [token : Tokens, for : Names]],
             void' \subseteq [engine : Engines, token : Tokens],
             unsaved' \subseteq [engine : Engines, token : Tokens]
      PROVE  BaseInv' /\ Answers' = Answers
  <2>1. Answers' = Answers /\ LastPage' = LastPage
    BY <1>1 DEF Answers, LastPage
  <2>2. SignInTypes'
    BY <1>1, <2>1 DEF SignInTypes
  <2>3. PagesInv'
    BY <1>1, <2>1 DEF PagesInv
  <2> QED
    BY <2>1, <2>2, <2>3
<1>2. CASE NotDiscovered \/ NotOpened \/ Timeout
  <2>1. /\ UNCHANGED <<pages, open, used, params, pending, calls, tmp, saving, user, auth, stored, void, unsaved,
                       accounts>>
        /\ listener' \in {listener, None} /\ mishaps \subseteq mishaps'
    BY <1>2 DEF NotDiscovered, NotOpened, Timeout, BeginFails, Release, Listen, browser, tokens
  <2> QED
    BY <2>1, <1>1 DEF SignInTypes
<1>3. CASE SaveToken
  <2>1. /\ UNCHANGED <<pages, open, used, params, pending, calls, tmp, listener, user, auth, void, unsaved,
                       accounts, mishaps>>
        /\ saving \in Engines /\ auth[saving] # None /\ saving' = None
        /\ stored' = [stored EXCEPT ![saving] = Sealed(auth[saving], user[saving])]
    BY <1>3 DEF SaveToken, SaveIf, browser, SignInTypes
  <2>2. Sealed(auth[saving], user[saving]) \in [token : Tokens, for : Names]
    BY <2>1, TokenFacts DEF SignInTypes, Sealed
  <2>3. stored' \in [Engines -> [token : Tokens, for : Names]]
    BY <2>1, <2>2 DEF SignInTypes
  <2> QED
    BY <2>1, <2>3, <1>1 DEF SignInTypes
<1>4. CASE Persist
  <2>1. PICK refreshed \in unsaved :
          /\ UNCHANGED <<pages, open, used, params, pending, calls, tmp, listener, saving, user, auth, void,
                         accounts>>
          /\ unsaved' = unsaved \ {refreshed} /\ mishaps \subseteq mishaps'
          /\ stored' = [stored EXCEPT ![refreshed.engine] = Sealed(refreshed.token, user[refreshed.engine])]
    BY <1>4 DEF Persist, PersistIf, browser
  <2>2. refreshed \in [engine : Engines, token : Tokens]
    BY DEF SignInTypes
  <2>3. Sealed(refreshed.token, user[refreshed.engine]) \in [token : Tokens, for : Names]
    BY <2>2 DEF SignInTypes, Sealed
  <2>4. stored' \in [Engines -> [token : Tokens, for : Names]]
    BY <2>1, <2>3 DEF SignInTypes
  <2> QED
    BY <2>1, <2>4, <1>1 DEF SignInTypes
<1>5. CASE Restart
  <2>1. /\ params' = None /\ listener' = None /\ calls' = <<>> /\ saving' = None /\ unsaved' = {}
        /\ auth' = [e \in Engines |-> IF stored[e].for = user[e] THEN stored[e].token ELSE None]
        /\ mishaps \subseteq mishaps'
        /\ UNCHANGED <<pages, open, used, pending, tmp, user, stored, void, accounts>>
    BY <1>5 DEF Restart, browser
  <2>2. Answers' = {} /\ LastPage' = LastPage
    BY <2>1 DEF Answers, LastPage
  <2>3. auth' \in [Engines -> Tokens \cup {None}]
    BY <2>1 DEF SignInTypes
  <2>4. calls' \in Seq(Calls) /\ DOMAIN calls' = {}
    BY <2>1
  <2>5. SignInTypes'
    BY <2>1, <2>2, <2>3, <2>4 DEF SignInTypes
  <2>6. PagesInv'
    BY <2>1, <2>2, <2>4 DEF PagesInv
  <2> QED
    BY <2>1, <2>2, <2>5, <2>6
<1>6. CASE Refreshing
  <2>1. PICK e \in Engines : Refresh(e) \/ RefreshLost(e) \/ Refused(e)
    BY <1>6 DEF Refreshing
  <2>2. /\ UNCHANGED <<pages, open, used, params, pending, calls, tmp, listener, saving, user, stored, accounts>>
        /\ mishaps \subseteq mishaps' /\ auth[e] # None
        /\ auth' \in {auth, [auth EXCEPT ![e] = None], [auth EXCEPT ![e] = Token(auth[e].page, auth[e].gen + 1)]}
        /\ void' \in {void, void \cup {Issued(e, auth[e])}}
        /\ unsaved' \in {unsaved, unsaved \cup {Issued(e, Token(auth[e].page, auth[e].gen + 1))}}
    BY <2>1 DEF Refresh, RefreshLost, Refused, Refreshes, Void, browser
  <2>3. auth' \in [Engines -> Tokens \cup {None}]
    <3>1. PICK new \in Tokens : new = Token(auth[e].page, auth[e].gen + 1)
      BY <2>2, TokenFacts
    <3>2. auth \in [Engines -> Tokens \cup {None}]
      BY DEF SignInTypes
    <3>3. auth' \in {auth, [auth EXCEPT ![e] = None], [auth EXCEPT ![e] = new]}
      BY <2>2, <3>1
    <3> QED
      BY ONLY <3>2, <3>3
  <2>4. /\ void' \subseteq [engine : Engines, token : Tokens]
        /\ unsaved' \subseteq [engine : Engines, token : Tokens]
    BY <2>2, TokenFacts DEF SignInTypes
  <2> QED
    BY <2>2, <2>3, <2>4, <1>1 DEF SignInTypes
<1> QED
  BY <1>2, <1>3, <1>4, <1>5, <1>6 DEF Others

LEMMA NextCases ==
  ASSUME SignInNext
  PROVE  \/ \E purpose \in Engines \cup {New}, kind \in Kinds : Begin(purpose, kind)
         \/ \E page \in open, name \in Names : Answer(page, name)
         \/ Handling
         \/ Others
  BY KindAssumption DEF KindAssumption, SignInNext, Names, Handling, Others, Refreshing

-----------------------------------------------------------------------------
(* The page of a token                                                     *)

\* The tokens there are of an engine: the one it works with, the ones that are or have to be
\* written, and those that are void.
Holds(e, t) == t # None /\ (t = auth[e] \/ t = stored[e].token \/ Issued(e, t) \in unsaved)
Known(e, t) == Holds(e, t) \/ Issued(e, t) \in void

\* The page of a token has been answered, for good.
FreshInv == \A e \in Engines, t \in Tokens :
              Known(e, t) => t.page \in 0..LastPage /\ t.page \notin open \cup Answers

RightInv ==
    \/ "overtaken" \in mishaps
    \/ /\ \A e \in Engines, t \in Tokens : Holds(e, t) /\ t.page > 0 => pages[t.page].for = e
       /\ \A account \in accounts : account.for = account.by

\* A new token is a refreshed one, or an answer brings it.
LEMMA KnownStep ==
  ASSUME BaseInv, Others, NEW e \in Engines, NEW t \in Tokens
  PROVE  /\ Known(e, t)' => \E s \in Tokens : Known(e, s) /\ s.page = t.page
         /\ Holds(e, t)' => \E s \in Tokens : Holds(e, s) /\ s.page = t.page
<1>1. CASE NotDiscovered \/ NotOpened \/ Timeout
  BY <1>1 DEF NotDiscovered, NotOpened, Timeout, BeginFails, browser, tokens, Known, Holds
<1>2. CASE SaveToken
  <2>1. /\ UNCHANGED <<auth, void, unsaved>> /\ saving \in Engines /\ auth[saving] # None
        /\ stored' = [stored EXCEPT ![saving] = Sealed(auth[saving], user[saving])]
    BY <1>2 DEF SaveToken, SaveIf, BaseInv, SignInTypes
  <2>2. stored'[e].token \in {stored[e].token, auth[e]}
    BY <2>1 DEF BaseInv, SignInTypes, Sealed
  <2> QED
    BY <2>1, <2>2 DEF Known, Holds
<1>3. CASE Persist
  <2>1. PICK refreshed \in unsaved :
          /\ UNCHANGED <<auth, void>> /\ unsaved' = unsaved \ {refreshed}
          /\ stored' = [stored EXCEPT ![refreshed.engine] = Sealed(refreshed.token, user[refreshed.engine])]
    BY <1>3 DEF Persist, PersistIf
  <2>2. refreshed \in [engine : Engines, token : Tokens]
        /\ refreshed = Issued(refreshed.engine, refreshed.token)
    BY DEF BaseInv, SignInTypes, Issued
  <2>3. stored'[e].token = stored[e].token \/ Issued(e, stored'[e].token) \in unsaved
    BY <2>1, <2>2 DEF BaseInv, SignInTypes, Sealed
  <2> QED
    BY <2>1, <2>3 DEF Known, Holds
<1>4. CASE Restart
  <2>1. /\ UNCHANGED <<stored, void>> /\ unsaved' = {}
        /\ auth' = [f \in Engines |-> IF stored[f].for = user[f] THEN stored[f].token ELSE None]
    BY <1>4 DEF Restart
  <2>2. auth'[e] \in {stored[e].token, None}
    BY <2>1
  <2> QED
    BY <2>1, <2>2 DEF Known, Holds
<1>5. CASE Refreshing
  <2>1. PICK f \in Engines : Refresh(f) \/ RefreshLost(f) \/ Refused(f)
    BY <1>5 DEF Refreshing
  <2>2. PICK new \in Tokens : new.page = auth[f].page /\ new = Token(auth[f].page, auth[f].gen + 1)
    BY <2>1, TokenFacts DEF Token, BaseInv, Refresh, RefreshLost, Refused, Refreshes
  <2>3. /\ auth[f] # None /\ auth[f] \in Tokens /\ UNCHANGED stored
        /\ auth' \in {auth, [auth EXCEPT ![f] = None], [auth EXCEPT ![f] = new]}
        /\ void' \in {void, void \cup {Issued(f, auth[f])}}
        /\ unsaved' \in {unsaved, unsaved \cup {Issued(f, new)}}
    BY <2>1, <2>2, TokenFacts DEF Refresh, RefreshLost, Refused, Refreshes, Void, BaseInv
  <2>4. auth'[e] \in {auth[e], None} \/ (e = f /\ auth'[e] = new)
    BY <2>3 DEF BaseInv, SignInTypes
  <2>5. Issued(e, t) \in unsaved' => Issued(e, t) \in unsaved \/ (e = f /\ t = new)
    BY <2>3 DEF Issued
  <2>6. Issued(e, t) \in void' => Issued(e, t) \in void \/ (e = f /\ t = auth[f])
    BY <2>3 DEF Issued
  <2> QED
    BY <2>2, <2>3, <2>4, <2>5, <2>6 DEF Known, Holds
<1> QED
  BY <1>1, <1>2, <1>3, <1>4, <1>5 DEF Others

LEMMA HandleKnown ==
  ASSUME BaseInv, Handling, NEW e \in Engines, NEW t \in Tokens
  PROVE  /\ Known(e, t)' => Known(e, t) \/ t.page = Call.page
         /\ Holds(e, t)' => \/ Holds(e, t)
                            \/ /\ AnswerGiven(Call.page, Call.user)
                               /\ EngineSigned(Call.page, Call.user)
                               /\ t.page = Call.page /\ e = pages[LastPage].for
<1>1. /\ UNCHANGED <<stored, void, unsaved>> /\ Call.page \in Nat
      /\ AnswerIgnored \/ AnswerGiven(Call.page, Call.user)
  BY HandleEffect, LastFacts DEF BaseInv, SignInTypes
<1>2. CASE AnswerIgnored \/ AccountAdded(Call.page)
  BY <1>1, <1>2 DEF AnswerIgnored, AccountAdded, Known, Holds
<1>3. CASE AnswerGiven(Call.page, Call.user) /\ EngineSigned(Call.page, Call.user)
  <2>1. auth'[e] = auth[e] \/ (e = pages[LastPage].for /\ auth'[e] = Token(Call.page, 0))
    BY <1>3 DEF EngineSigned, BaseInv, SignInTypes
  <2>2. Token(Call.page, 0).page = Call.page
    BY DEF Token
  <2> QED
    BY <1>1, <1>3, <2>1, <2>2 DEF Known, Holds
<1> QED
  BY <1>1, <1>2, <1>3 DEF AnswerGiven

LEMMA FreshStep ==
  ASSUME BaseInv, FreshInv, SignInNext
  PROVE  FreshInv'
<1>1. CASE \E purpose \in Engines \cup {New}, kind \in Kinds : Begin(purpose, kind)
  <2>1. /\ LastPage' = LastPage + 1 /\ open' = open \cup {LastPage'} /\ LastPage \in Nat
        /\ UNCHANGED <<calls, auth, stored, void, unsaved>>
    BY <1>1, BeginEffect, LastFacts DEF BaseInv
  <2>2. Answers' = Answers
    BY <2>1 DEF Answers
  <2>3. \A e \in Engines, t \in Tokens : Known(e, t)' => Known(e, t)
    BY <2>1 DEF Known, Holds
  <2> QED
    BY <2>1, <2>2, <2>3 DEF FreshInv, Tokens
<1>2. CASE \E page \in open, name \in Names : Answer(page, name)
  <2>1. /\ Answers' \cup open' \subseteq Answers \cup open
        /\ UNCHANGED <<pages, auth, stored, void, unsaved>>
    BY <1>2, AnswerEffect
  <2>2. LastPage' = LastPage
    BY <2>1 DEF LastPage
  <2>3. \A e \in Engines, t \in Tokens : Known(e, t)' => Known(e, t)
    BY <2>1 DEF Known, Holds
  <2> QED
    BY <2>1, <2>2, <2>3 DEF FreshInv
<1>3. CASE Handling
  <2>1. /\ Answers' = Answers \ {Call.page} /\ open' = open /\ pages' = pages
        /\ Call.page \in Answers /\ open \cap Answers = {}
    BY <1>3, HandleEffect DEF BaseInv, PagesInv
  <2>2. LastPage' = LastPage /\ Call.page \in 0..LastPage
    BY <2>1, LastFacts DEF LastPage, BaseInv, SignInTypes
  <2>3. \A e \in Engines, t \in Tokens : Known(e, t)' => Known(e, t) \/ t.page = Call.page
    BY <1>3, HandleKnown
  <2> QED
    BY <2>1, <2>2, <2>3 DEF FreshInv
<1>4. CASE Others
  <2>1. Answers' \cup open' \subseteq Answers \cup open /\ LastPage' = LastPage
    BY <1>4, OtherEffect DEF LastPage
  <2>2. \A e \in Engines, t \in Tokens :
          Known(e, t)' => \E s \in Tokens : Known(e, s) /\ s.page = t.page
    BY <1>4, KnownStep
  <2> QED
    BY <2>1, <2>2 DEF FreshInv
<1> QED
  BY <1>1, <1>2, <1>3, <1>4, NextCases

LEMMA RightStep ==
  ASSUME BaseInv, FreshInv, RightInv, SignInNext
  PROVE  RightInv'
<1> DEFINE Right == \A e \in Engines, t \in Tokens : Holds(e, t) /\ t.page > 0 => pages[t.page].for = e
<1>0. mishaps \subseteq mishaps'
  BY NextCases, BeginEffect, AnswerEffect, HandleEffect, OtherEffect
<1>1. SUFFICES ASSUME "overtaken" \notin mishaps', Right,
                      \A account \in accounts : account.for = account.by
               PROVE  Right' /\ (\A account \in accounts : account.for = account.by)'
  BY <1>0 DEF RightInv
<1>2. CASE \E purpose \in Engines \cup {New}, kind \in Kinds : Begin(purpose, kind)
  <2>1. /\ \A p \in DOMAIN pages : pages'[p] = pages[p]
        /\ UNCHANGED <<calls, auth, stored, void, unsaved, accounts>>
    BY <1>2, BeginEffect
  <2>2. \A e \in Engines, t \in Tokens : Holds(e, t)' => Holds(e, t)
    BY <2>1 DEF Holds
  <2>3. \A e \in Engines, t \in Tokens : Holds(e, t) /\ t.page > 0 => t.page \in DOMAIN pages
    BY LastFacts DEF FreshInv, Known, BaseInv
  <2> QED
    BY <1>1, <2>1, <2>2, <2>3
<1>3. CASE \E page \in open, name \in Names : Answer(page, name)
  <2>1. UNCHANGED <<pages, auth, stored, void, unsaved, accounts>>
    BY <1>3, AnswerEffect
  <2> QED
    BY <1>1, <2>1 DEF Holds
<1>4. CASE Handling
  <2>1. UNCHANGED pages /\ (AnswerIgnored \/ AnswerGiven(Call.page, Call.user))
    BY <1>4, HandleEffect
  <2>2. AnswerGiven(Call.page, Call.user) => Call.page = LastPage
    BY <1>1 DEF AnswerGiven
  <2>3. \A e \in Engines, t \in Tokens :
          Holds(e, t)' => Holds(e, t) \/ (t.page = LastPage /\ e = pages[LastPage].for)
    BY <1>4, <2>2, HandleKnown
  <2>4. \A account \in accounts' : account \in accounts \/ account = [for |-> LastPage, by |-> LastPage]
    BY <2>1, <2>2 DEF AnswerIgnored, AnswerGiven, EngineSigned, AccountAdded
  <2>5. Right'
    BY <1>1, <2>1, <2>3
  <2> QED
    BY <1>1, <2>4, <2>5
<1>5. CASE Others
  <2>1. UNCHANGED <<pages, accounts>>
    BY <1>5, OtherEffect
  <2>2. \A e \in Engines, t \in Tokens :
          Holds(e, t)' => \E s \in Tokens : Holds(e, s) /\ s.page = t.page
    BY <1>5, KnownStep
  <2> QED
    BY <1>1, <2>1, <2>2
<1> QED
  BY <1>2, <1>3, <1>4, <1>5, NextCases

-----------------------------------------------------------------------------
(* The answer of the last page                                             *)

\* Why an answer may not be used.
Unanswered == {"timeout", "restarted", "failed", "released", "cleared", "forgotten"}

\* The last page waits for its answer, or its answer waits for the main thread, and what it needs is
\* still there.
UsedInv ==
    LastPage > 0 /\ mishaps \cap Unanswered = {} /\ LastPage \notin used =>
       /\ LastPage \in open \cup Answers
       /\ pages[LastPage].kind # "token" => tmp = LastPage
       /\ pages[LastPage].kind = "loopback" /\ LastPage \in open => listener = LastPage

\* The answer of the last page is used, or there is a reason; that of another page takes nothing from it.
LEMMA HandleLast ==
  ASSUME BaseInv, UsedInv, Handling, LastPage > 0, mishaps' \cap Unanswered = {}, LastPage \notin used
  PROVE  /\ Call.page = LastPage => LastPage \in used'
         /\ Call.page # LastPage =>
               /\ pages[LastPage].kind # "token" => tmp' = tmp
               /\ pages[LastPage].kind = "loopback" => listener' = listener
<1>1. mishaps \cap Unanswered = {} /\ Call.page \in Answers /\ open \cap Answers = {}
  BY HandleEffect DEF BaseInv, PagesInv
<1>2. /\ LastPage \in DOMAIN pages /\ None \notin DOMAIN pages /\ Call.page \in DOMAIN pages
      /\ params \in {None, LastPage} /\ pending \in {None, LastPage}
  BY <1>1, LastFacts DEF BaseInv, SignInTypes, PagesInv
<1>3. pages[LastPage].kind # "token" => tmp = LastPage
  BY <1>1 DEF UsedInv
<1>4. ASSUME NEW page \in {LastPage}, Give(page), Call.page = LastPage
      PROVE  LastPage \in used'
  BY <1>4 DEF Give
<1>5. CASE HandleToken
  <2>1. Remembered # None
    BY <1>5 DEF HandleToken, Unanswered
  <2>2. Remembered \in {LastPage} /\ Give(Remembered)
    BY <1>2, <1>5, <2>1 DEF HandleToken, Remembered
  <2> QED
    BY <1>4, <1>5, <2>2 DEF HandleToken
<1>6. CASE HandleCode
  <2>1. CASE tmp # Call.page
    BY <1>3, <1>6, <2>1 DEF HandleCode, HandleCodeIf
  <2>2. CASE tmp = Call.page
    <3>1. params # None
      BY <1>6, <2>2 DEF HandleCode, HandleCodeIf, Unanswered
    <3>2. params \in {LastPage} /\ Give(params)
      BY <1>2, <1>6, <2>2, <3>1 DEF HandleCode, HandleCodeIf
    <3>3. Call.page # LastPage => pages[LastPage].kind = "token"
      BY <1>3, <2>2
    <3> QED
      BY <1>4, <3>2, <3>3
  <2> QED
    BY <2>1, <2>2
<1>7. CASE CodeFails
  BY <1>7 DEF CodeFails, Unanswered
<1> QED
  BY <1>5, <1>6, <1>7 DEF Handling

LEMMA UsedStep ==
  ASSUME BaseInv, UsedInv, SignInNext
  PROVE  UsedInv'
<1>1. CASE \E purpose \in Engines \cup {New}, kind \in Kinds : Begin(purpose, kind)
  <2>1. PICK purpose \in Engines \cup {New}, kind \in Kinds : Begin(purpose, kind)
    BY <1>1
  <2>2. /\ open' = open \cup {LastPage'} /\ pages'[LastPage'] = [for |-> purpose, kind |-> kind]
        /\ (kind # "token" => tmp' = LastPage') /\ (kind = "loopback" => listener' = LastPage')
    BY <2>1, BeginEffect
  <2>3. pages'[LastPage'].kind = kind
    BY <2>2
  <2> QED
    BY <2>2, <2>3 DEF UsedInv
<1>2. CASE \E page \in open, name \in Names : Answer(page, name)
  <2>1. PICK page \in open, name \in Names : Answer(page, name)
    BY <1>2
  <2>2. /\ open' = open \ {page}
        /\ \/ pages[page].kind # "loopback" /\ Answers' = Answers \cup {page} /\ listener' = listener
           \/ listener = page /\ listener' = None /\ Answers' = Answers \cup {page}
           \/ /\ pages[page].kind = "loopback" /\ listener # page
              /\ UNCHANGED <<listener, calls>> /\ Answers' = Answers
        /\ UNCHANGED <<pages, used, tmp, mishaps>>
    BY <2>1, AnswerEffect
  <2>3. LastPage' = LastPage
    BY <2>2 DEF LastPage
  <2> QED
    BY <2>2, <2>3 DEF UsedInv
<1>3. CASE Handling
  <2>1. /\ Answers' = Answers \ {Call.page} /\ UNCHANGED <<pages, open>>
        /\ mishaps \subseteq mishaps' /\ Call.page \in Answers
        /\ open \cap Answers = {}
    BY <1>3, HandleEffect DEF BaseInv, PagesInv
  <2>2. LastPage' = LastPage
    BY <2>1 DEF LastPage
  <2>3. used \subseteq used'
    BY <1>3, HandleEffect DEF AnswerIgnored, AnswerGiven
  <2> QED
    BY <1>3, <2>1, <2>2, <2>3, HandleLast DEF UsedInv
<1>4. CASE Others
  <2>1. /\ UNCHANGED <<pages, open, used>> /\ mishaps \subseteq mishaps'
        /\ LastPage' = LastPage
    BY <1>4, OtherEffect DEF LastPage
  <2>2. \/ UNCHANGED <<calls, tmp, listener>>
        \/ UNCHANGED <<calls, tmp>> /\ mishaps' \cap Unanswered # {}
        \/ Restart
    BY <1>4 DEF Others, Refreshing, NotDiscovered, NotOpened, Timeout, BeginFails, SaveToken, SaveIf,
                Persist, PersistIf, Refresh, RefreshLost, Refused, Unanswered
  <2>3. CASE UNCHANGED <<calls, tmp, listener>>
    BY <2>1, <2>3 DEF UsedInv, Answers
  <2>4. CASE mishaps' \cap Unanswered # {}
    BY <2>4 DEF UsedInv
  <2>5. CASE Restart /\ mishaps' \cap Unanswered = {}
    <3>1. calls = <<>> /\ listener = None /\ calls' = <<>> /\ tmp' = tmp /\ listener' = None
      BY <2>5 DEF Restart, Unanswered
    <3> QED
      BY <2>1, <3>1 DEF UsedInv, Answers
  <2> QED
    BY <2>2, <2>3, <2>4, <2>5
<1> QED
  BY <1>1, <1>2, <1>3, <1>4, NextCases

-----------------------------------------------------------------------------
(* The tokens that work                                                    *)

\* Why a user may have to sign in again.
Lost == {"lost", "killed", "late"}

\* Every engine has a token, of a later generation than those of the same page that are void; and it is in
\* the database of the engine, or on its way to it.
WorksInv ==
    mishaps \cap Lost = {} => \A e \in Engines : auth[e] # None
NewestInv ==
    mishaps \cap Lost = {} =>
      \A v \in void : v.token.page = auth[v.engine].page => v.token.gen < auth[v.engine].gen
SavedInv ==
    "late" \in mishaps
    \/ \A e \in Engines : auth[e] # None =>
         stored[e] = Sealed(auth[e], user[e]) \/ saving = e \/ Issued(e, auth[e]) \in unsaved

LEMMA SavedStep ==
  ASSUME BaseInv, SavedInv, SignInNext
  PROVE  SavedInv'
<1>0. mishaps \subseteq mishaps'
  BY NextCases, BeginEffect, AnswerEffect, HandleEffect, OtherEffect
<1>1. CASE UNCHANGED <<auth, stored, user, saving, unsaved>>
  BY <1>0, <1>1 DEF SavedInv
<1>2. CASE Handling
  <2>1. /\ UNCHANGED <<stored, unsaved>> /\ saving = None
        /\ AnswerIgnored \/ AnswerGiven(Call.page, Call.user)
    BY <1>2, HandleEffect
  <2>2. CASE UNCHANGED <<auth, user, saving>>
    BY <1>1, <2>1, <2>2
  <2>3. CASE EngineSigned(Call.page, Call.user)
    <3>1. PICK f \in Engines : /\ \A e \in Engines : e # f => auth'[e] = auth[e] /\ user'[e] = user[e]
                               /\ saving' = f
      BY <2>3 DEF EngineSigned, BaseInv, SignInTypes
    <3>2. None \notin Engines
      BY KindAssumption DEF KindAssumption
    <3> QED
      BY <1>0, <2>1, <3>1, <3>2 DEF SavedInv
  <2> QED
    BY <2>1, <2>2, <2>3 DEF AnswerIgnored, AnswerGiven, AccountAdded
<1>3. CASE SaveToken
  <2>1. /\ UNCHANGED <<auth, user, unsaved>> /\ saving \in Engines /\ saving' = None
        /\ stored' = [stored EXCEPT ![saving] = Sealed(auth[saving], user[saving])]
    BY <1>3 DEF SaveToken, SaveIf, BaseInv, SignInTypes
  <2>2. \A e \in Engines : stored'[e] = IF e = saving THEN Sealed(auth[e], user[e]) ELSE stored[e]
    BY <2>1 DEF BaseInv, SignInTypes
  <2> QED
    BY <1>0, <2>1, <2>2 DEF SavedInv
<1>4. CASE Persist
  <2>1. PICK refreshed \in unsaved :
          /\ UNCHANGED <<auth, user, saving>> /\ unsaved' = unsaved \ {refreshed}
          /\ stored' = [stored EXCEPT ![refreshed.engine] = Sealed(refreshed.token, user[refreshed.engine])]
          /\ "late" \in mishaps' \/ auth[refreshed.engine] = refreshed.token
    BY <1>4 DEF Persist, PersistIf
  <2>2. \A e \in Engines : Issued(e, auth[e]) = refreshed => e = refreshed.engine
    BY DEF Issued
  <2>3. \A e \in Engines : stored'[e] = IF e = refreshed.engine THEN Sealed(refreshed.token, user[e]) ELSE stored[e]
    BY <2>1 DEF BaseInv, SignInTypes
  <2> QED
    BY <1>0, <2>1, <2>2, <2>3 DEF SavedInv
<1>5. CASE Restart
  <2>1. auth' = [e \in Engines |-> IF stored[e].for = user[e] THEN stored[e].token ELSE None]
        /\ UNCHANGED <<stored, user>>
    BY <1>5 DEF Restart
  <2>2. \A e \in Engines : stored[e] = Sealed(stored[e].token, stored[e].for)
    BY DEF BaseInv, SignInTypes, Sealed
  <2> QED
    BY <2>1, <2>2 DEF SavedInv
<1>6. CASE Refreshing
  <2>1. PICK f \in Engines : Refresh(f) \/ RefreshLost(f) \/ Refused(f)
    BY <1>6 DEF Refreshing
  <2>2. /\ UNCHANGED <<stored, user, saving>> /\ unsaved \subseteq unsaved'
        /\ \/ auth' = auth \/ auth' = [auth EXCEPT ![f] = None]
           \/ /\ auth' = [auth EXCEPT ![f] = Token(auth[f].page, auth[f].gen + 1)]
              /\ Issued(f, Token(auth[f].page, auth[f].gen + 1)) \in unsaved'
    BY <2>1 DEF Refresh, RefreshLost, Refused
  <2>3. \A e \in Engines : auth'[e] = auth[e] \/ auth'[e] = None \/ Issued(e, auth'[e]) \in unsaved'
    BY <2>2 DEF BaseInv, SignInTypes
  <2> QED
    BY <1>0, <2>2, <2>3 DEF SavedInv
<1>7. CASE NotDiscovered \/ NotOpened \/ Timeout
  BY <1>1, <1>7 DEF NotDiscovered, NotOpened, Timeout, BeginFails, tokens
<1> QED
  BY <1>1, <1>2, <1>3, <1>4, <1>5, <1>6, <1>7, NextCases, BeginEffect, AnswerEffect DEF Others

\* Nothing that the server still accepts is void: the engine that has the newest token is not refused.
LEMMA WorksStep ==
  ASSUME BaseInv, FreshInv, SavedInv, WorksInv, NewestInv, SignInNext
  PROVE  WorksInv' /\ NewestInv'
<1>0. mishaps \subseteq mishaps'
  BY NextCases, BeginEffect, AnswerEffect, HandleEffect, OtherEffect
<1>1. SUFFICES ASSUME mishaps' \cap Lost = {}
               PROVE  /\ \A e \in Engines : auth'[e] # None
                      /\ \A v \in void' : v.token.page = auth'[v.engine].page
                                            => v.token.gen < auth'[v.engine].gen
  BY DEF WorksInv, NewestInv
<1>2. /\ mishaps \cap Lost = {} /\ \A e \in Engines : auth[e] # None /\ auth[e] \in Tokens
      /\ \A v \in void : v.engine \in Engines /\ v.token \in Tokens
      /\ \A v \in void : v.token.page = auth[v.engine].page => v.token.gen < auth[v.engine].gen
  BY <1>0, <1>1 DEF WorksInv, NewestInv, BaseInv, SignInTypes
<1>3. CASE UNCHANGED <<auth, void>>
  BY <1>2, <1>3
<1>4. CASE Handling
  <2>1. UNCHANGED void /\ Call.page \in Answers /\ (AnswerIgnored \/ AnswerGiven(Call.page, Call.user))
    BY <1>4, HandleEffect
  <2>2. CASE UNCHANGED auth
    BY <1>3, <2>1, <2>2
  <2>3. CASE EngineSigned(Call.page, Call.user)
    <3>1. PICK f \in Engines : \A e \in Engines : auth'[e] = IF e = f THEN Token(Call.page, 0) ELSE auth[e]
      BY <2>3 DEF EngineSigned, BaseInv, SignInTypes
    <3>2. \A v \in void : v = Issued(v.engine, v.token)
      BY DEF BaseInv, SignInTypes, Issued
    <3>3. \A v \in void : v.token.page # Call.page
      BY <1>2, <2>1, <3>2 DEF FreshInv, Known
    <3>4. Token(Call.page, 0) # None /\ Token(Call.page, 0).page = Call.page
      BY KindAssumption, <2>1, LastFacts DEF KindAssumption, Token, Tokens, BaseInv, SignInTypes
    <3> QED
      BY <1>2, <2>1, <3>1, <3>3, <3>4
  <2> QED
    BY <2>1, <2>2, <2>3 DEF AnswerIgnored, AnswerGiven, AccountAdded
<1>5. CASE Restart
  <2>1. saving = None /\ unsaved = {}
    BY <1>1, <1>5 DEF Restart, Lost
  <2>2. /\ auth' = [e \in Engines |-> IF stored[e].for = user[e] THEN stored[e].token ELSE None]
        /\ UNCHANGED void
    BY <1>5 DEF Restart
  <2>3. \A e \in Engines : stored[e] = Sealed(auth[e], user[e])
    BY KindAssumption, <1>2, <2>1 DEF KindAssumption, SavedInv, Lost
  <2>4. \A e \in Engines : stored[e].for = user[e] /\ stored[e].token = auth[e]
    <3>1. \A t, n : Sealed(t, n).for = n /\ Sealed(t, n).token = t
      BY DEF Sealed
    <3> QED
      BY <2>3, <3>1
  <2>5. ASSUME NEW e \in Engines
        PROVE  auth'[e] = auth[e]
    <3>1. auth'[e] = IF stored[e].for = user[e] THEN stored[e].token ELSE None
      BY <2>2
    <3> QED
      BY <2>4, <3>1
  <2> QED
    BY <1>2, <2>2, <2>5
<1>6. CASE Refreshing
  <2>1. PICK f \in Engines : Refresh(f) \/ RefreshLost(f) \/ Refused(f)
    BY <1>6 DEF Refreshing
  <2>2. Valid(f)
    BY <1>2, <2>1 DEF Valid, Issued, Tokens
  <2>3. ~RefreshLost(f)
    BY <1>1 DEF RefreshLost, Lost
  <2>4. Refresh(f)
    BY <2>1, <2>2, <2>3 DEF Refused
  <2>5. PICK new : new = Token(auth[f].page, auth[f].gen + 1)
    OBVIOUS
  <2>6. /\ auth' = [auth EXCEPT ![f] = new] /\ void' = void \cup {Issued(f, auth[f])}
    BY <2>4, <2>5 DEF Refresh, Void
  <2>7. /\ new.page = auth[f].page /\ new.gen = auth[f].gen + 1 /\ auth[f].gen \in Nat
        /\ new # None
    BY <1>2, <2>5, TokenFacts, KindAssumption DEF Token, KindAssumption, BaseInv
  <2>8. \A e \in Engines : auth'[e] = IF e = f THEN new ELSE auth[e]
    BY <2>6 DEF BaseInv, SignInTypes
  <2>9. \A v \in void' : v \in void \/ (v.engine = f /\ v.token = auth[f])
    BY <2>6 DEF Issued
  <2>10. ASSUME NEW v \in void', v.token.page = auth'[v.engine].page
         PROVE  v.token.gen < auth'[v.engine].gen
    <3>1. CASE v \in void
      <4>1. v.engine \in Engines /\ v.token.gen \in Nat
            /\ (v.token.page = auth[v.engine].page => v.token.gen < auth[v.engine].gen)
        BY <1>2, <3>1 DEF Tokens
      <4> QED
        BY <2>7, <2>8, <2>10, <4>1
    <3>2. CASE v.engine = f /\ v.token = auth[f]
      BY <2>7, <2>8, <3>2
    <3> QED
      BY <2>9, <3>1, <3>2
  <2> QED
    BY <1>2, <2>7, <2>8, <2>10
<1>7. CASE NotDiscovered \/ NotOpened \/ Timeout \/ SaveToken \/ Persist
  BY <1>3, <1>7 DEF NotDiscovered, NotOpened, Timeout, BeginFails, SaveToken, SaveIf, Persist, PersistIf, tokens
<1> QED
  BY <1>3, <1>4, <1>5, <1>6, <1>7, NextCases, BeginEffect, AnswerEffect DEF Others

-----------------------------------------------------------------------------
(* Theorems                                                                *)

SignInInv == BaseInv /\ FreshInv /\ RightInv /\ UsedInv /\ SavedInv /\ WorksInv /\ NewestInv

LEMMA SignInStarts == SignInInit => SignInInv
<1> SUFFICES ASSUME SignInInit PROVE SignInInv
  OBVIOUS
<1>1. /\ pages = <<>> /\ open = {} /\ used = {} /\ params = None /\ pending = None /\ tmp = None
      /\ listener = None /\ calls = <<>> /\ saving = None /\ unsaved = {} /\ accounts = {} /\ void = {}
      /\ user = [e \in Engines |-> "owner"] /\ auth = [e \in Engines |-> Token(0, 0)]
      /\ stored = [e \in Engines |-> Sealed(Token(0, 0), "owner")]
  BY DEF SignInInit
<1>2. LastPage = 0 /\ Answers = {} /\ DOMAIN calls = {}
  BY <1>1 DEF LastPage, Answers
<1>3. Token(0, 0) \in Tokens /\ Token(0, 0) # None /\ Token(0, 0).page = 0
  BY KindAssumption DEF KindAssumption, Token, Tokens
<1>4. SignInTypes
  BY <1>1, <1>2, <1>3 DEF SignInTypes, Names, Sealed
<1>5. BaseInv
  BY <1>1, <1>2, <1>4 DEF BaseInv, PagesInv
<1>6. \A e \in Engines : auth[e] = Token(0, 0) /\ stored[e] = Sealed(auth[e], user[e])
  BY <1>1
<1>7. \A e \in Engines, t \in Tokens : Known(e, t) => t.page = 0
  BY <1>1, <1>3, <1>6 DEF Known, Holds, Sealed
<1>8. FreshInv
  BY <1>1, <1>2, <1>7 DEF FreshInv
<1>9. RightInv
  BY <1>1, <1>7 DEF RightInv, Known
<1>10. UsedInv /\ SavedInv /\ WorksInv /\ NewestInv
  BY <1>1, <1>2, <1>3, <1>6 DEF UsedInv, SavedInv, WorksInv, NewestInv
<1> QED
  BY <1>5, <1>8, <1>9, <1>10 DEF SignInInv

LEMMA SignInStep == SignInInv /\ [SignInNext]_signInVars => SignInInv'
<1> SUFFICES ASSUME SignInInv, [SignInNext]_signInVars PROVE SignInInv'
  OBVIOUS
<1>1. CASE SignInNext
  <2>1. BaseInv'
    BY <1>1, NextCases, BeginEffect, AnswerEffect, HandleEffect, OtherEffect DEF SignInInv
  <2> QED
    BY <1>1, <2>1, FreshStep, RightStep, UsedStep, SavedStep, WorksStep DEF SignInInv
<1>2. CASE UNCHANGED signInVars
  <2>1. /\ BaseInv' /\ UNCHANGED Answers /\ UNCHANGED LastPage
    BY <1>2 DEF signInVars, SignInInv, BaseInv, SignInTypes, PagesInv, Answers, LastPage
  <2>2. \A e, t : (Known(e, t)' <=> Known(e, t)) /\ (Holds(e, t)' <=> Holds(e, t))
    BY <1>2 DEF signInVars, Known, Holds
  <2>3. FreshInv'
    BY <1>2, <2>1, <2>2 DEF signInVars, SignInInv, FreshInv
  <2>4. RightInv'
    BY <1>2, <2>1, <2>2 DEF signInVars, SignInInv, RightInv
  <2>5. UsedInv' /\ SavedInv' /\ WorksInv' /\ NewestInv'
    BY <1>2, <2>1 DEF signInVars, SignInInv, UsedInv, SavedInv, WorksInv, NewestInv
  <2> QED
    BY <2>1, <2>3, <2>4, <2>5 DEF SignInInv
<1> QED
  BY <1>1, <1>2

\* What the answers of the sign-in pages and the refreshed tokens promise follows from the invariant.
LEMMA SignInKeeps == SignInInv => AnswersKept
<1> SUFFICES ASSUME SignInInv PROVE AnswersKept
  OBVIOUS
<1>1. \A e \in Engines : auth[e] # None => auth[e] \in Tokens /\ Holds(e, auth[e])
  BY DEF SignInInv, BaseInv, SignInTypes, Holds
<1>2. RightAccount
  BY <1>1 DEF SignInInv, RightInv, RightAccount
<1>3. calls = <<>> => Answers = {}
  BY DEF Answers
<1>4. AnswerUsed
  BY <1>3 DEF SignInInv, UsedInv, AnswerUsed, Unanswered
<1>5. SignedIn
  <2>1. \A e \in Engines : auth[e] # None \/ mishaps \cap {"lost", "killed", "late"} # {}
    BY DEF SignInInv, WorksInv, Lost
  <2>2. None \notin Engines
    BY KindAssumption DEF KindAssumption
  <2>3. \A e \in Engines : unsaved = {} /\ saving = None /\ auth[e] # None =>
            stored[e] = Sealed(auth[e], user[e]) \/ "late" \in mishaps
    BY <2>2 DEF SignInInv, SavedInv
  <2> QED
    BY <2>1, <2>3 DEF SignedIn
<1> QED
  BY <1>2, <1>4, <1>5 DEF AnswersKept

(* The pages, the answers and the tokens are what they should be, and the page of a token is known:       *)
(* the inductive invariant of the sign-in pages (gui/api.py, auth/oauth2.py, Engine.update_token).        *)
THEOREM SignInInvariant == SignInSpec => []SignInInv
<1>1. SignInInit => SignInInv
  BY SignInStarts
<1>2. SignInInv /\ [SignInNext]_signInVars => SignInInv'
  BY SignInStep
<1> QED
  BY <1>1, <1>2, PTL DEF SignInSpec

(* Whatever the order of the answers, the restarts and the refreshes of the tokens, a token goes to the   *)
(* account that its page was opened for, the answer of the last page is used, and nobody has to sign in   *)
(* again, but for the exceptions that AnswersKept names (handle_token, continue_oauth2_flow,              *)
(* _on_remote_token_refreshed).                                                                           *)
THEOREM AnswersAreKept == SignInSpec => []AnswersKept
<1>1. SignInSpec => []SignInInv
  BY SignInInvariant
<1>2. SignInInv => AnswersKept
  BY SignInKeeps
<1> QED
  BY <1>1, <1>2, PTL

(***************************************************************************)
(* Links                                                                   *)
(***************************************************************************)

USE DEF app, Goes

-----------------------------------------------------------------------------
(* One instance                                                            *)

States == {"new", "lock", "stale", "free", "send", "launch", "boot", "run", "closing", "ended"}

PidTypes ==
    /\ pidFile \in Instances \cup {None}
    /\ at \in [Instances -> States]
    /\ other \in [Instances -> Instances \cup {None}]
    /\ raced \in BOOLEAN

\* The PID file names an instance that has started.
FileStarted == pidFile # None => at[pidFile] # "new"

\* Who is about to remove the file has seen in it an instance that has ended.
StaleEnded == \A p \in Instances : at[p] = "stale" => other[p] = None \/ at[other[p]] = "ended"

\* Who sends its link has seen in the file an instance that had started.
SendsToSome == \A p \in Instances : at[p] = "send" => other[p] \in Instances

\* The file is the one of whoever runs.
RunnerInFile == \A p \in Instances : Runs(p) => pidFile = p

PidInv == /\ PidTypes /\ FileStarted /\ StaleEnded /\ SendsToSome
          /\ raced \/ RunnerInFile

\* Every step of an instance keeps the PID file in order.
LEMMA PidStep ==
  ASSUME PidInv, [LinksNext]_linksVars
  PROVE  PidInv'
<1>a. None \notin Instances
  BY NoneAssumption DEF NoneAssumption
<1> USE <1>a DEF PidInv, PidTypes, FileStarted, StaleEnded, SendsToSome, RunnerInFile, Runs, Alive, States
<1>1. ASSUME NEW p \in Instances, Start(p)
      PROVE  PidInv'
  <2>1. UNCHANGED <<pidFile, other, raced>>
    BY <1>1 DEF Start
  <2>2. at \in [Instances -> States] /\ \E s \in {"lock"} : at' = [at EXCEPT ![p] = s]
    BY <1>1 DEF Start
  <2>3. at[p] = "new"
    BY <1>1 DEF Start
  <2> QED
    BY <2>1, <2>2, <2>3
<1>2. ASSUME NEW p \in Instances, CheckRunning(p)
      PROVE  PidInv'
  BY <1>2 DEF CheckRunning, CheckRunningIf
<1>3. ASSUME NEW p \in Instances, RemoveFile(p)
      PROVE  PidInv'
  BY <1>3 DEF RemoveFile
<1>4. ASSUME NEW p \in Instances, WriteLock(p)
      PROVE  PidInv'
  BY <1>4 DEF WriteLock
<1>5. ASSUME NEW p \in Instances, Launch(p)
      PROVE  PidInv'
  <2>1. UNCHANGED <<pidFile, other, raced>>
    BY <1>5 DEF Launch
  <2>2. at \in [Instances -> States] /\ \E s \in {"lock"} : at' = [at EXCEPT ![p] = s]
    BY <1>5 DEF Launch
  <2>3. at[p] = "launch"
    BY <1>5 DEF Launch
  <2> QED
    BY <2>1, <2>2, <2>3
<1>6. ASSUME NEW p \in Instances, Leave(p)
      PROVE  PidInv'
  <2>1. UNCHANGED <<pidFile, other, raced>>
    BY <1>6 DEF Leave
  <2>2. at \in [Instances -> States] /\ \E s \in {"ended"} : at' = [at EXCEPT ![p] = s]
    BY <1>6 DEF Leave
  <2>3. at[p] = "send"
    BY <1>6 DEF Leave
  <2> QED
    BY <2>1, <2>2, <2>3
<1>7. ASSUME NEW p \in Instances, Send(p)
      PROVE  PidInv'
  <2>1. UNCHANGED <<pidFile, other, raced>>
    BY <1>7 DEF Send
  <2>2. at \in [Instances -> States] /\ \E s \in {"ended", "lock"} : at' = [at EXCEPT ![p] = s]
    BY <1>7 DEF Send
  <2>3. at[p] = "send"
    BY <1>7 DEF Send
  <2> QED
    BY <2>1, <2>2, <2>3
<1>8. ASSUME NEW p \in Instances, Boot(p)
      PROVE  PidInv'
  <2>1. UNCHANGED <<pidFile, other, raced>>
    BY <1>8 DEF Boot
  <2>2. at \in [Instances -> States] /\ \E s \in {"run"} : at' = [at EXCEPT ![p] = s]
    BY <1>8 DEF Boot
  <2>3. at[p] = "boot"
    BY <1>8 DEF Boot
  <2> QED
    BY <2>1, <2>2, <2>3
<1>9. ASSUME NEW p \in Instances, Quit(p)
      PROVE  PidInv'
  <2>1. UNCHANGED <<pidFile, other, raced>>
    BY <1>9 DEF Quit
  <2>2. at \in [Instances -> States] /\ \E s \in {"closing"} : at' = [at EXCEPT ![p] = s]
    BY <1>9 DEF Quit
  <2>3. at[p] = "run"
    BY <1>9 DEF Quit
  <2> QED
    BY <2>1, <2>2, <2>3
<1>10. ASSUME NEW p \in Instances, Unlock(p)
      PROVE  PidInv'
  BY <1>10 DEF Unlock
<1>11. ASSUME NEW p \in Instances, Crash(p)
      PROVE  PidInv'
  <2>1. UNCHANGED <<pidFile, other, raced>>
    BY <1>11 DEF Crash
  <2>2. at \in [Instances -> States] /\ \E s \in {"ended"} : at' = [at EXCEPT ![p] = s]
    BY <1>11 DEF Crash
  <2>3. at[p] \in {"boot", "run"}
    BY <1>11 DEF Crash
  <2> QED
    BY <2>1, <2>2, <2>3
<1>12. ASSUME NEW p \in Instances, Handle(p)
      PROVE  PidInv'
  <2>1. UNCHANGED <<pidFile, at, other, raced>>
    BY <1>12 DEF Handle, Handles
  <2> QED
    BY <2>1
<1>13. ASSUME NEW p \in Instances, Download(p)
      PROVE  PidInv'
  <2>1. UNCHANGED <<pidFile, at, other, raced>>
    BY <1>13 DEF Download, Handles
  <2> QED
    BY <2>1
<1>14. CASE UNCHANGED linksVars
  BY <1>14 DEF linksVars
<1> QED
  BY <1>1, <1>2, <1>3, <1>4, <1>5, <1>6, <1>7, <1>8,
     <1>9, <1>10, <1>11, <1>12, <1>13, <1>14
  DEF LinksNext, Process

\* Whatever the number of instances, of links and of crashes: two instances run
\* at once only after one has written or removed the PID file between the check
\* and the write of another.
THEOREM OneRuns == LinksSpec => []OneInstance
<1>1. LinksInit => PidInv
  BY NoneAssumption DEF NoneAssumption, LinksInit, PidInv, PidTypes, FileStarted, StaleEnded, SendsToSome, RunnerInFile, Runs, States
<1>2. PidInv /\ [LinksNext]_linksVars => PidInv'
  BY PidStep
<1>3. PidInv => OneInstance
  BY DEF PidInv, RunnerInFile, OneInstance
<1> QED
  BY <1>1, <1>2, <1>3, PTL DEF LinksSpec

-----------------------------------------------------------------------------
(* The links                                                               *)

Message == [from : Instances, link : LinkSet]

LinkTypes ==
    /\ link \in [Instances -> LinkSet \cup {None}]
    /\ inbox \in [Instances -> Seq(Message)]
    /\ lost \in [Instances -> Reasons \cup {None}]

\* Only an instance that runs has links to handle.
ListensWhenRunning == \A p \in Instances : at[p] # "run" => inbox[p] = <<>>

\* p's link was answered, or its loss has a reason, or it waits at one that runs.
Settled(p) == p \in answered \/ lost[p] # None \/ \E q \in Instances : at[q] = "run" /\ p \in Bearers(q)

\* An instance that has started to run has put its own link among those to handle.
AllSettled == \A p \in Instances :
    at[p] \in {"run", "closing", "ended"} /\ link[p] # None => Settled(p)

LinkInv == LinkTypes /\ ListensWhenRunning /\ AllSettled

\* The first link is taken out, and the others stay.
LEMMA TakeOne ==
  ASSUME NEW S, NEW s \in Seq(S), s # <<>>
  PROVE  /\ SubSeq(s, 2, Len(s)) \in Seq(S)
         /\ Head(s) \in S
         /\ \A i \in DOMAIN s : s[i] = Head(s) \/ \E j \in DOMAIN SubSeq(s, 2, Len(s)) : SubSeq(s, 2, Len(s))[j] = s[i]
<1>1. Len(s) \in Nat /\ Len(s) # 0 /\ DOMAIN s = 1..Len(s)
  OBVIOUS
<1>2. \A i \in 2..Len(s) : s[i] \in S
  BY <1>1
<1>3. SubSeq(s, 2, Len(s)) \in Seq(S)
  BY <1>1, <1>2
<1>4. DOMAIN SubSeq(s, 2, Len(s)) = 1..(Len(s) - 1)
  BY <1>1
<1>5. ASSUME NEW i \in DOMAIN s
      PROVE  s[i] = Head(s) \/ \E j \in DOMAIN SubSeq(s, 2, Len(s)) : SubSeq(s, 2, Len(s))[j] = s[i]
  <2>1. CASE i = 1
    BY <2>1
  <2>2. CASE i # 1
    <3>1. i - 1 \in 1..(Len(s) - 1)
      BY <1>1, <2>2
    <3>2. SubSeq(s, 2, Len(s))[i - 1] = s[i]
      BY <1>1, <3>1
    <3> QED
      BY <3>1, <3>2, <1>4
  <2> QED
    BY <2>1, <2>2
<1> QED
  BY <1>1, <1>3, <1>5

\* A link added to those that wait leaves the others there.
LEMMA AddOne ==
  ASSUME NEW S, NEW s \in Seq(S), NEW e \in S, NEW r, r = Append(s, e)
  PROVE  /\ r \in Seq(S)
         /\ \E i \in DOMAIN r : r[i] = e
         /\ \A i \in DOMAIN s : i \in DOMAIN r /\ r[i] = s[i]
<1>1. Len(s) \in Nat /\ DOMAIN s = 1..Len(s) /\ DOMAIN r = 1..(Len(s) + 1)
  OBVIOUS
<1>2. r[Len(s) + 1] = e
  OBVIOUS
<1> QED
  BY <1>1, <1>2

\* A link goes on waiting at an instance that goes on running.
LEMMA StillWaits ==
  ASSUME NEW r, NEW q \in Instances, r \in Bearers(q), at'[q] = "run", inbox'[q] = inbox[q]
  PROVE  Settled(r)'
  BY DEF Settled, Bearers

\* An instance that moves without touching the links keeps them settled.
LEMMA QuietStep ==
  ASSUME PidTypes, LinkInv, UNCHANGED <<link, inbox, answered, lost>>, NEW p \in Instances,
         NEW s \in States, at' = [at EXCEPT ![p] = s], at[p] # "run", s # "run",
         s \in {"closing", "ended"} => at[p] \in {"closing", "ended"} \/ link[p] = None
  PROVE  LinkInv'
<1> USE DEF PidTypes, LinkInv, LinkTypes
<1>1. \A q \in Instances : q # p => at'[q] = at[q]
  OBVIOUS
<1>2. at'[p] = s
  OBVIOUS
<1>3. LinkTypes' /\ ListensWhenRunning'
  BY <1>1 DEF ListensWhenRunning
<1>4. ASSUME NEW r \in Instances, at'[r] \in {"run", "closing", "ended"}, link'[r] # None
      PROVE  Settled(r)'
  <2>1. Settled(r)
    BY <1>1, <1>2, <1>4 DEF AllSettled
  <2>2. CASE r \in answered \/ lost[r] # None
    BY <2>2 DEF Settled
  <2>3. ASSUME NEW q \in Instances, at[q] = "run", r \in Bearers(q)
        PROVE  Settled(r)'
    BY <1>1, <2>3, StillWaits
  <2> QED
    BY <2>1, <2>2, <2>3 DEF Settled
<1> QED
  BY <1>3, <1>4 DEF AllSettled

\* An instance that ends, or closes, blames its end on those whose links wait.
LEMMA ForgetStep ==
  ASSUME PidTypes, LinkInv, NEW p \in Instances, NEW ps, NEW reason \in Reasons,
         Bearers(p) \subseteq ps, Blame(ps, reason), Forgets(p), NEW s \in {"closing", "ended"},
         at' = [at EXCEPT ![p] = s], UNCHANGED <<link, answered>>,
         at[p] = "run" \/ p \in ps
  PROVE  LinkInv'
<1> USE DEF PidTypes, LinkInv, LinkTypes
<1>1. \A q \in Instances : q # p => at'[q] = at[q] /\ inbox'[q] = inbox[q]
  BY DEF Forgets
<1>2. at'[p] = s /\ inbox'[p] = <<>> /\ inbox' \in [Instances -> Seq(Message)]
  BY DEF Forgets
<1>3. lost' = [q \in Instances |-> IF q \in ps THEN reason ELSE lost[q]]
  BY DEF Blame
<1>4. LinkTypes' /\ ListensWhenRunning'
  BY <1>1, <1>2, <1>3 DEF ListensWhenRunning
<1>5. ASSUME NEW r \in Instances, at'[r] \in {"run", "closing", "ended"}, link'[r] # None
      PROVE  Settled(r)'
  <2>1. CASE r \in ps
    BY <1>3, <2>1, NoneAssumption DEF Settled, NoneAssumption
  <2>2. CASE r \notin ps
    <3>1. Settled(r)
      BY <1>1, <1>5, <2>2 DEF AllSettled
    <3>2. CASE r \in answered \/ lost[r] # None
      BY <1>3, <2>2, <3>2 DEF Settled
    <3>3. ASSUME NEW q \in Instances, at[q] = "run", r \in Bearers(q)
          PROVE  Settled(r)'
      <4>1. q # p
        BY <2>2, <3>3
      <4> QED
        BY <1>1, <3>3, <4>1, StillWaits
    <3> QED
      BY <3>1, <3>2, <3>3 DEF Settled
  <2> QED
    BY <2>1, <2>2
<1> QED
  BY <1>4, <1>5 DEF AllSettled

\* The first link that waits is handled: who brought it is answered or told.
LEMMA HandleStep ==
  ASSUME PidTypes, LinkInv, NEW p \in Instances, Handles(p),
         \/ UNCHANGED lost /\ answered' = answered \cup {Head(inbox[p]).from}
         \/ Blame({Head(inbox[p]).from}, "named") /\ UNCHANGED answered
  PROVE  LinkInv'
<1> USE DEF PidTypes, LinkInv, LinkTypes
<1> DEFINE s == inbox[p]
<1>1. s \in Seq(Message) /\ s # <<>> /\ at[p] = "run" /\ UNCHANGED <<at, link>>
  BY DEF Handles
<1>2. inbox' = [inbox EXCEPT ![p] = SubSeq(s, 2, Len(s))]
  BY DEF Handles, Take, TakeIf
<1>3. SubSeq(s, 2, Len(s)) \in Seq(Message) /\ Head(s) \in Message
  BY <1>1, TakeOne
<1>4. inbox' \in [Instances -> Seq(Message)] /\ \A q \in Instances : q # p => inbox'[q] = inbox[q]
  BY <1>2, <1>3
<1>5. inbox'[p] = SubSeq(s, 2, Len(s))
  BY <1>2
<1>6. lost' \in [Instances -> Reasons \cup {None}] /\ \A q \in Instances : lost[q] # None => lost'[q] # None
  BY NoneAssumption DEF Blame, Reasons, NoneAssumption
<1>7. PICK f \in Instances : f = Head(s).from
  BY <1>3 DEF Message
<1>8. Settled(f)'
  BY <1>7, NoneAssumption DEF Settled, Blame, NoneAssumption, Reasons
<1>9. LinkTypes' /\ ListensWhenRunning'
  BY <1>1, <1>4, <1>6 DEF ListensWhenRunning
<1>10. ASSUME NEW r \in Instances, at'[r] \in {"run", "closing", "ended"}, link'[r] # None
      PROVE  Settled(r)'
  <2>1. Settled(r)
    BY <1>1, <1>10 DEF AllSettled
  <2>2. CASE r \in answered \/ lost[r] # None
    BY <2>2, <1>6 DEF Settled
  <2>3. ASSUME NEW q \in Instances, at[q] = "run", r \in Bearers(q)
        PROVE  Settled(r)'
    <3>1. CASE q # p
      BY <1>1, <1>4, <2>3, <3>1 DEF Settled, Bearers
    <3>2. CASE q = p
      <4>1. PICK i \in DOMAIN s : s[i].from = r
        BY <2>3, <3>2 DEF Bearers
      <4>2. CASE s[i] = Head(s)
        BY <1>7, <1>8, <4>1, <4>2
      <4>3. CASE \E j \in DOMAIN SubSeq(s, 2, Len(s)) : SubSeq(s, 2, Len(s))[j] = s[i]
        BY <1>1, <1>5, <4>1, <4>3 DEF Settled, Bearers
      <4> QED
        BY <1>1, <4>1, <4>2, <4>3, TakeOne
    <3> QED
      BY <3>1, <3>2
  <2> QED
    BY <2>1, <2>2, <2>3 DEF Settled
<1> QED
  BY <1>9, <1>10 DEF AllSettled

\* Every step of an instance leaves the links with somebody.
LEMMA LinkStep ==
  ASSUME PidInv, LinkInv, [LinksNext]_linksVars
  PROVE  LinkInv'
<1>a. PidTypes
  BY DEF PidInv
<1> USE DEF LinkInv, LinkTypes, PidTypes
<1>1. ASSUME NEW p \in Instances, Start(p)
      PROVE  LinkInv'
  <2>1. UNCHANGED <<inbox, answered, lost>> /\ at[p] = "new" /\ at' = [at EXCEPT ![p] = "lock"]
    BY <1>1 DEF Start
  <2>2. PICK l \in LinkSet \cup {None} : link' = [link EXCEPT ![p] = l]
    BY <1>1 DEF Start
  <2>3. \A q \in Instances : q # p => at'[q] = at[q] /\ link'[q] = link[q]
    BY <1>a, <2>1, <2>2
  <2>4. at'[p] = "lock"
    BY <1>a, <2>1
  <2>5. LinkTypes' /\ ListensWhenRunning'
    BY <2>1, <2>2, <2>3, <2>4 DEF ListensWhenRunning
  <2>6. ASSUME NEW r \in Instances, at'[r] \in {"run", "closing", "ended"}, link'[r] # None
        PROVE  Settled(r)'
    <3>1. Settled(r)
      BY <2>3, <2>4, <2>6 DEF AllSettled
    <3>2. ASSUME NEW q \in Instances, at[q] = "run", r \in Bearers(q)
          PROVE  Settled(r)'
      BY <2>1, <2>3, <3>2, StillWaits
    <3> QED
      BY <2>1, <3>1, <3>2 DEF Settled
  <2> QED
    BY <2>5, <2>6 DEF AllSettled
<1>2. ASSUME NEW p \in Instances, CheckRunning(p)
      PROVE  LinkInv'
  <2>1. UNCHANGED <<link, inbox, answered, lost>>
    BY <1>2 DEF CheckRunning, CheckRunningIf
  <2>2. PICK s \in {"stale", "launch", "send"} : at' = [at EXCEPT ![p] = s]
    BY <1>2 DEF CheckRunning, CheckRunningIf
  <2>3. at[p] # "run" /\ s # "run" /\ s \in States
    BY <1>2, <2>2 DEF CheckRunning, CheckRunningIf, States
  <2>4. s \in {"closing", "ended"} => at[p] \in {"closing", "ended"} \/ link[p] = None
    BY <1>2, <2>2 DEF CheckRunning, CheckRunningIf
  <2> QED
    BY <1>a, <2>1, <2>2, <2>3, <2>4, QuietStep
<1>3. ASSUME NEW p \in Instances, RemoveFile(p)
      PROVE  LinkInv'
  <2>1. UNCHANGED <<link, inbox, answered, lost>>
    BY <1>3 DEF RemoveFile
  <2>2. PICK s \in {"free"} : at' = [at EXCEPT ![p] = s]
    BY <1>3 DEF RemoveFile
  <2>3. at[p] # "run" /\ s # "run" /\ s \in States
    BY <1>3, <2>2 DEF RemoveFile, States
  <2>4. s \in {"closing", "ended"} => at[p] \in {"closing", "ended"} \/ link[p] = None
    BY <1>3, <2>2 DEF RemoveFile
  <2> QED
    BY <1>a, <2>1, <2>2, <2>3, <2>4, QuietStep
<1>4. ASSUME NEW p \in Instances, WriteLock(p)
      PROVE  LinkInv'
  <2>1. UNCHANGED <<link, inbox, answered, lost>>
    BY <1>4 DEF WriteLock
  <2>2. PICK s \in {"launch", "boot"} : at' = [at EXCEPT ![p] = s]
    BY <1>4 DEF WriteLock
  <2>3. at[p] # "run" /\ s # "run" /\ s \in States
    BY <1>4, <2>2 DEF WriteLock, States
  <2>4. s \in {"closing", "ended"} => at[p] \in {"closing", "ended"} \/ link[p] = None
    BY <1>4, <2>2 DEF WriteLock
  <2> QED
    BY <1>a, <2>1, <2>2, <2>3, <2>4, QuietStep
<1>5. ASSUME NEW p \in Instances, Launch(p)
      PROVE  LinkInv'
  <2>1. UNCHANGED <<link, inbox, answered, lost>>
    BY <1>5 DEF Launch
  <2>2. PICK s \in {"lock"} : at' = [at EXCEPT ![p] = s]
    BY <1>5 DEF Launch
  <2>3. at[p] # "run" /\ s # "run" /\ s \in States
    BY <1>5, <2>2 DEF Launch, States
  <2>4. s \in {"closing", "ended"} => at[p] \in {"closing", "ended"} \/ link[p] = None
    BY <1>5, <2>2 DEF Launch
  <2> QED
    BY <1>a, <2>1, <2>2, <2>3, <2>4, QuietStep
<1>6. ASSUME NEW p \in Instances, Leave(p)
      PROVE  LinkInv'
  <2>1. UNCHANGED <<link, inbox, answered, lost>>
    BY <1>6 DEF Leave
  <2>2. PICK s \in {"ended"} : at' = [at EXCEPT ![p] = s]
    BY <1>6 DEF Leave
  <2>3. at[p] # "run" /\ s # "run" /\ s \in States
    BY <1>6, <2>2 DEF Leave, States
  <2>4. s \in {"closing", "ended"} => at[p] \in {"closing", "ended"} \/ link[p] = None
    BY <1>6, <2>2 DEF Leave
  <2> QED
    BY <1>a, <2>1, <2>2, <2>3, <2>4, QuietStep
<1>7. ASSUME NEW p \in Instances, Send(p)
      PROVE  LinkInv'
  <2>1. other[p] \in Instances /\ at[p] = "send" /\ link[p] \in LinkSet /\ UNCHANGED <<link, answered>>
    BY <1>7 DEF PidInv, SendsToSome, Send
  <2>2. CASE at[other[p]] = "run"
    <3>1. PICK o \in Instances : o = other[p]
      BY <2>1
    <3>2. PICK m \in Message : m = [from |-> p, link |-> link[p]]
      BY <2>1 DEF Message
    <3>3. at' = [at EXCEPT ![p] = "ended"] /\ UNCHANGED lost /\ o # p /\ at[o] = "run"
      BY <1>7, <2>1, <2>2, <3>1 DEF Send
    <3>4. inbox' = [inbox EXCEPT ![o] = Append(inbox[o], m)]
      BY <1>7, <2>1, <2>2, <3>1, <3>2 DEF Send
    <3>5. inbox[o] \in Seq(Message)
      OBVIOUS
    <3>6. inbox'[o] = Append(inbox[o], m) /\ \A q \in Instances : q # o => inbox'[q] = inbox[q]
      BY <2>1, <3>4
    <3>7. /\ inbox'[o] \in Seq(Message)
          /\ \E i \in DOMAIN inbox'[o] : inbox'[o][i] = m
          /\ \A i \in DOMAIN inbox[o] : i \in DOMAIN inbox'[o] /\ inbox'[o][i] = inbox[o][i]
      <4>1. PICK s \in Seq(Message) : s = inbox[o]
        BY <3>5
      <4>2. PICK r : r = inbox'[o]
        OBVIOUS
      <4>3. r = Append(s, m)
        BY <3>6, <4>1, <4>2
      <4>4. /\ r \in Seq(Message)
            /\ \E i \in DOMAIN r : r[i] = m
            /\ \A i \in DOMAIN s : i \in DOMAIN r /\ r[i] = s[i]
        BY ONLY <3>2, <4>1, <4>3, AddOne
      <4> QED
        BY ONLY <4>1, <4>2, <4>4
    <3>8. at'[p] = "ended" /\ at'[o] = "run" /\ \A q \in Instances : q # p => at'[q] = at[q]
      BY <1>a, <2>1, <3>3
    <3>9. LinkTypes' /\ ListensWhenRunning'
      BY <2>1, <3>3, <3>4, <3>6, <3>7, <3>8 DEF ListensWhenRunning
    <3>10. Settled(p)'
      <4>1. \E i \in DOMAIN inbox'[o] : inbox'[o][i].from = p
        BY <3>2, <3>7
      <4> QED
        BY <3>8, <4>1 DEF Settled, Bearers
    <3>11. ASSUME NEW r \in Instances, r # p, at'[r] \in {"run", "closing", "ended"}, link'[r] # None
          PROVE  Settled(r)'
      <4>1. Settled(r)
        BY <2>1, <3>8, <3>11 DEF AllSettled
      <4>2. ASSUME NEW q \in Instances, at[q] = "run", r \in Bearers(q)
            PROVE  Settled(r)'
        <5>1. CASE q # o
          BY <2>1, <3>6, <3>8, <4>2, <5>1, StillWaits
        <5>2. CASE q = o
          <6>1. \E i \in DOMAIN inbox[o] : inbox[o][i].from = r
            BY <4>2, <5>2 DEF Bearers
          <6>2. \E i \in DOMAIN inbox'[o] : inbox'[o][i].from = r
            BY <3>7, <6>1
          <6> QED
            BY <3>8, <6>2 DEF Settled, Bearers
        <5> QED
          BY <5>1, <5>2
      <4> QED
        BY <2>1, <3>3, <4>1, <4>2 DEF Settled
    <3> QED
      BY <3>9, <3>10, <3>11 DEF AllSettled
  <2>3. CASE at[other[p]] # "run"
    <3>1. PICK reason \in Reasons : Blame({p}, reason)
      BY <1>7, <2>3 DEF Send, Reasons
    <3>2. UNCHANGED inbox /\ \E s \in {"lock", "ended"} : at' = [at EXCEPT ![p] = s]
      BY <1>7, <2>3 DEF Send
    <3>3. at'[p] # "run" /\ \A q \in Instances : q # p => at'[q] = at[q]
      BY <1>a, <3>2
    <3>4. lost'[p] = reason /\ \A q \in Instances : q # p => lost'[q] = lost[q]
      BY <3>1 DEF Blame
    <3>5. LinkTypes' /\ ListensWhenRunning'
      BY <2>1, <3>1, <3>2, <3>3 DEF ListensWhenRunning, Blame
    <3>6. ASSUME NEW r \in Instances, r # p, at'[r] \in {"run", "closing", "ended"}, link'[r] # None
          PROVE  Settled(r)'
      <4>1. Settled(r)
        BY <2>1, <3>3, <3>6 DEF AllSettled
      <4>2. ASSUME NEW q \in Instances, at[q] = "run", r \in Bearers(q)
            PROVE  Settled(r)'
        BY <2>1, <3>2, <3>3, <4>2, StillWaits
      <4> QED
        BY <2>1, <3>4, <3>6, <4>1, <4>2 DEF Settled
    <3> QED
      BY <3>4, <3>5, <3>6, NoneAssumption DEF AllSettled, Settled, NoneAssumption
  <2> QED
    BY <2>2, <2>3
<1>8. ASSUME NEW p \in Instances, Boot(p)
      PROVE  LinkInv'
  <2> DEFINE m == [from |-> p, link |-> link[p]]
  <2>1. at[p] = "boot" /\ at' = [at EXCEPT ![p] = "run"] /\ UNCHANGED <<link, answered, lost>>
    BY <1>8 DEF Boot
  <2>2. inbox' = [inbox EXCEPT ![p] = IF link[p] = None THEN inbox[p] ELSE <<m>>] /\ inbox[p] = <<>>
    BY <1>8, <2>1 DEF Boot, ListensWhenRunning
  <2>3. at'[p] = "run" /\ \A q \in Instances : q # p => at'[q] = at[q] /\ inbox'[q] = inbox[q]
    BY <1>a, <2>1, <2>2
  <2>4. link[p] # None => <<m>> \in Seq(Message)
    BY DEF Message
  <2>5. LinkTypes' /\ ListensWhenRunning'
    <3> HIDE DEF m
    <3> QED
      BY <2>1, <2>2, <2>3, <2>4 DEF ListensWhenRunning
  <2>6. link[p] # None => Settled(p)'
    <3>1. link[p] # None => inbox'[p] = <<m>>
      BY <2>2
    <3>2. link[p] # None => p \in Bearers(p)'
      BY <3>1 DEF Bearers
    <3> QED
      BY <2>3, <3>2 DEF Settled
  <2>7. ASSUME NEW r \in Instances, r # p, at'[r] \in {"run", "closing", "ended"}, link'[r] # None
        PROVE  Settled(r)'
    <3>1. Settled(r)
      BY <2>1, <2>3, <2>7 DEF AllSettled
    <3>2. ASSUME NEW q \in Instances, at[q] = "run", r \in Bearers(q)
          PROVE  Settled(r)'
      BY <2>1, <2>3, <3>2, StillWaits
    <3> QED
      BY <2>1, <3>1, <3>2 DEF Settled
  <2> QED
    BY <2>1, <2>5, <2>6, <2>7 DEF AllSettled
<1>9. ASSUME NEW p \in Instances, Quit(p)
      PROVE  LinkInv'
  <2>1. UNCHANGED <<link, answered>> /\ Forgets(p)
    BY <1>9 DEF Quit
  <2>2. Bearers(p) \subseteq Bearers(p) \cup {p}
    OBVIOUS
  <2> QED
    BY <1>9, <1>a, <2>1, <2>2, ForgetStep DEF Quit, Reasons
<1>10. ASSUME NEW p \in Instances, Unlock(p)
      PROVE  LinkInv'
  <2>1. UNCHANGED <<link, inbox, answered, lost>>
    BY <1>10 DEF Unlock
  <2>2. PICK s \in {"ended"} : at' = [at EXCEPT ![p] = s]
    BY <1>10 DEF Unlock
  <2>3. at[p] # "run" /\ s # "run" /\ s \in States
    BY <1>10, <2>2 DEF Unlock, States
  <2>4. s \in {"closing", "ended"} => at[p] \in {"closing", "ended"} \/ link[p] = None
    BY <1>10, <2>2 DEF Unlock
  <2> QED
    BY <1>a, <2>1, <2>2, <2>3, <2>4, QuietStep
<1>11. ASSUME NEW p \in Instances, Crash(p)
      PROVE  LinkInv'
  <2>1. UNCHANGED <<link, answered>> /\ Forgets(p)
    BY <1>11 DEF Crash
  <2>2. Bearers(p) \subseteq Bearers(p) \cup {p}
    OBVIOUS
  <2> QED
    BY <1>11, <1>a, <2>1, <2>2, ForgetStep DEF Crash, Reasons
<1>12. ASSUME NEW p \in Instances, Handle(p)
      PROVE  LinkInv'
  BY <1>12, <1>a, HandleStep DEF Handle
<1>13. ASSUME NEW p \in Instances, Download(p)
      PROVE  LinkInv'
  BY <1>13, <1>a, HandleStep DEF Download
<1>14. CASE UNCHANGED linksVars
  BY <1>14 DEF linksVars, ListensWhenRunning, AllSettled, Settled, Bearers
<1> QED
  BY <1>1, <1>2, <1>3, <1>4, <1>5, <1>6, <1>7, <1>8,
     <1>9, <1>10, <1>11, <1>12, <1>13, <1>14
  DEF LinksNext, Process

-----------------------------------------------------------------------------
(* The records of downloads                                                *)

\* A document that has no record yet.
Unrecorded(doc) == \E i, s, u : doc = [id |-> i, server |-> s, user |-> u, record |-> 0]

\* Unless a link was clicked again, no record was taken up twice.
RecordsInv == repeated \/ (records \in Nat /\ jobs \in [1..records -> 0..1])

\* What is parsed has no record.
LEMMA ParsedFacts ==
  ASSUME NEW docs
  PROVE  /\ DOMAIN ParseDownload(docs) \subseteq DOMAIN docs
         /\ \A i \in DOMAIN ParseDownload(docs) : Unrecorded(ParseDownload(docs)[i])
<1>1. ASSUME NEW d, NEW host, ParseDocument(d, host) # None
      PROVE  Unrecorded(ParseDocument(d, host))
  <2>1. CASE d.form = "uid"
    BY <1>1, <2>1 DEF ParseDocument, Unrecorded
  <2>2. CASE d.form \in {"simplified", "super-simple"}
    BY <1>1, <2>2 DEF ParseDocument, Unrecorded
  <2>3. CASE d.form = "full"
    BY <1>1, <2>3 DEF ParseDocument, Unrecorded
  <2>4. CASE d.form \notin {"uid", "simplified", "super-simple", "full"}
    BY <1>1, <2>4 DEF ParseDocument
  <2> QED
    BY <2>1, <2>2, <2>3, <2>4
<1> DEFINE addressed(i) == {j \in DOMAIN docs : j < i /\ docs[j].form \in {"simplified", "super-simple", "full"}}
           host(i) == IF addressed(i) = {} THEN None ELSE docs[Min(addressed(i))].server
           parsed(i) == ParseDocument(docs[i], host(i))
           places == {j \in DOMAIN docs : parsed(j) # None}
<1>2. ParseDownload(docs) = [i \in places |-> parsed(i)]
  BY DEF ParseDownload
<1>3. ASSUME NEW i \in places
      PROVE  Unrecorded(parsed(i))
  BY <1>1, <1>3
<1> HIDE DEF parsed
<1> QED
  BY <1>2, <1>3

\* Documents without a record get one each, and none that there was.
LEMMA RecordFacts ==
  ASSUME records \in Nat, NEW docs, IsFiniteSet(DOMAIN docs), DOMAIN docs \subseteq Int,
         \A i \in DOMAIN docs : Unrecorded(docs[i]), NEW r \in Nat, r # 0
  PROVE  /\ Cardinality(Inserted(docs)) \in Nat
         /\ Cardinality({i \in DOMAIN docs : Record(docs)[i].record = r})
              \in IF r <= records THEN {0} ELSE {0, 1}
<1> DEFINE rank(i) == Cardinality({j \in Inserted(docs) : j <= i})
           taken == {i \in DOMAIN docs : Record(docs)[i].record = r}
<1>1. IsFiniteSet(Inserted(docs)) /\ Inserted(docs) \subseteq DOMAIN docs /\ Cardinality(Inserted(docs)) \in Nat
  <2>1. Inserted(docs) \subseteq DOMAIN docs
    BY DEF Inserted
  <2> QED
    BY <2>1, FS_Subset, FS_CardinalityType
<1>2. ASSUME NEW i \in Inserted(docs)
      PROVE  rank(i) \in Nat /\ rank(i) > 0 /\ Record(docs)[i].record = records + rank(i)
  <2>1. {j \in Inserted(docs) : j <= i} \in SUBSET Inserted(docs)
    OBVIOUS
  <2>2. IsFiniteSet({j \in Inserted(docs) : j <= i}) /\ rank(i) \in Nat
    BY <1>1, <2>1, FS_Subset, FS_CardinalityType
  <2>3. i \in {j \in Inserted(docs) : j <= i}
    BY <1>1
  <2>4. rank(i) # 0
    BY <2>2, <2>3, FS_EmptySet
  <2>5. i \in DOMAIN docs
    BY <1>1
  <2>6. PICK a, s, u : docs[i] = [id |-> a, server |-> s, user |-> u, record |-> 0]
    BY <2>5 DEF Unrecorded
  <2>7. Record(docs)[i] = [docs[i] EXCEPT !.record = records + rank(i)]
    BY <2>5 DEF Record
  <2> HIDE DEF rank
  <2>8. Record(docs)[i].record = records + rank(i)
    BY <2>6, <2>7
  <2> QED
    BY <2>2, <2>4, <2>8
<1>3. ASSUME NEW i \in DOMAIN docs, i \notin Inserted(docs)
      PROVE  Record(docs)[i].record = 0
  BY <1>3 DEF Record, Unrecorded
<1>4. DOMAIN Record(docs) = DOMAIN docs
  BY DEF Record
<1>5. ASSUME NEW i \in Inserted(docs), NEW k \in Inserted(docs), i < k
      PROVE  rank(i) < rank(k)
  <2> DEFINE I == {j \in Inserted(docs) : j <= i}
             K == {j \in Inserted(docs) : j <= k}
  <2>1. i \in Int /\ k \in Int
    BY <1>1
  <2>2. I \in SUBSET K /\ k \in K /\ k \notin I
    <3>1. \A j \in Inserted(docs) : j <= i => j <= k
      BY <1>1, <1>5, <2>1
    <3>2. ~(k <= i) /\ k <= k
      BY <1>5, <2>1
    <3> QED
      BY <3>1, <3>2
  <2>3. IsFiniteSet(K)
    BY <1>1, FS_Subset
  <2>4. Cardinality(I) < Cardinality(K)
    <3> HIDE DEF I, K
    <3>1. /\ Cardinality(I) <= Cardinality(K) /\ (Cardinality(I) = Cardinality(K) => I = K)
          /\ Cardinality(I) \in Nat /\ Cardinality(K) \in Nat
      BY <2>2, <2>3, FS_Subset, FS_CardinalityType
    <3> QED
      BY <2>2, <3>1
  <2> QED
    BY <2>4
<1> HIDE DEF rank
<1>6. taken \subseteq Inserted(docs) /\ (r <= records => taken = {})
  <2>1. ASSUME NEW i \in taken
        PROVE  i \in Inserted(docs) /\ r > records
    <3>1. i \in DOMAIN docs /\ Record(docs)[i].record = r
      BY <1>4
    <3>2. i \in Inserted(docs)
      BY <1>3, <3>1
    <3> QED
      BY <1>2, <3>1, <3>2
  <2> QED
    BY <2>1
<1>7. ASSUME NEW i \in taken, NEW k \in taken
      PROVE  i = k
  <2>1. i \in Inserted(docs) /\ k \in Inserted(docs) /\ records + rank(i) = records + rank(k)
    BY <1>2, <1>6
  <2>2. rank(i) = rank(k)
    BY <1>2, <2>1
  <2>3. i \in Int /\ k \in Int
    BY <1>1, <2>1
  <2>4. i < k => rank(i) < rank(k)
    BY <1>5, <2>1
  <2>5. k < i => rank(k) < rank(i)
    BY <1>5, <2>1
  <2>6. rank(i) \in Nat
    BY <1>2, <2>1
  <2> QED
    BY <2>2, <2>3, <2>4, <2>5, <2>6
<1> HIDE DEF taken
<1>8. Cardinality(taken) \in {0, 1} /\ (taken = {} => Cardinality(taken) = 0)
  <2>1. CASE taken = {}
    BY <2>1, FS_EmptySet
  <2>2. CASE taken # {}
    <3>1. PICK i : i \in taken
      BY <2>2
    <3>2. taken = {i}
      BY <1>7, <3>1
    <3> QED
      BY <2>2, <3>2, FS_Singleton
  <2> QED
    BY <2>1, <2>2
<1>9. Cardinality(taken) \in IF r <= records THEN {0} ELSE {0, 1}
  BY <1>6, <1>8
<1> QED
  BY <1>1, <1>9 DEF taken

LEMMA DownloadStep ==
  ASSUME RecordsInv, NEW p \in Instances, Download(p), inbox \in [Instances -> Seq(Message)]
  PROVE  RecordsInv'
<1>1. SUFFICES ASSUME ~repeated'
               PROVE  records' \in Nat /\ jobs' \in [1..records' -> 0..1]
  BY DEF RecordsInv
<1>2. PICK m \in Message : m = Head(inbox[p])
  <2>1. inbox[p] \in Seq(Message) /\ inbox[p] # <<>>
    BY DEF Download, Handles
  <2> QED
    BY <2>1
<1>3. PICK parsed : parsed = Parsed(p, m.link)
  OBVIOUS
<1>4. PICK engine \in Accounts \cup {None} :
        IF engine = None
        THEN UNCHANGED <<records, jobs, repeated>>
        ELSE TakeUp(Named(parsed.docs, engine)) /\ repeated' = (repeated \/ Cached(p, m.link))
  BY <1>2, <1>3 DEF Download
<1>5. CASE engine = None
  BY <1>1, <1>4, <1>5 DEF RecordsInv
<1>6. CASE engine # None
  <2>1. PICK named : /\ named = Named(parsed.docs, engine) /\ TakeUp(named)
                     /\ repeated' = (repeated \/ Cached(p, m.link))
    BY <1>4, <1>6
  <2>2. ~repeated /\ parsed = Parse(m.link)
    BY <1>1, <1>3, <2>1 DEF Parsed
  <2>3. records \in Nat /\ jobs \in [1..records -> 0..1]
    BY <2>2 DEF RecordsInv
  <2>4. parsed.docs = ParseDownload(m.link.docs)
    <3>1. parsed # None /\ parsed.command = "download" /\ DOMAIN parsed.docs # {}
      <4>1. Asks(parsed)
        BY <1>2, <1>3 DEF Download
      <4> QED
        BY <4>1 DEF Asks
    <3>2. CASE m.link.cmd = "download"
      BY <2>2, <3>2 DEF Parse
    <3>3. CASE m.link.cmd # "download"
      <4>1. parsed = [command |-> m.link.cmd, docs |-> <<>>]
        BY <2>2, <3>1, <3>3 DEF Parse
      <4> QED
        BY <3>1, <3>3, <4>1
    <3> QED
      BY <3>2, <3>3
  <2>5. m.link \in LinkSet
    BY DEF Message
  <2>6. IsFiniteSet(DOMAIN m.link.docs) /\ DOMAIN m.link.docs \subseteq Int
    BY <2>5, LinkAssumption
  <2>7. DOMAIN named \subseteq DOMAIN m.link.docs /\ \A i \in DOMAIN named : Unrecorded(parsed.docs[i])
    BY <2>1, <2>4, ParsedFacts DEF Named
  <2>8. IsFiniteSet(DOMAIN named) /\ DOMAIN named \subseteq Int
    BY <2>6, <2>7, FS_Subset
  <2>9. ASSUME NEW i \in DOMAIN named
        PROVE  Unrecorded(named[i])
    <3>1. PICK d, a, u : parsed.docs[i] = [id |-> d, server |-> a, user |-> u, record |-> 0]
      BY <2>7 DEF Unrecorded
    <3>2. [parsed.docs[i] EXCEPT !.user = engine.user] = [id |-> d, server |-> a, user |-> engine.user, record |-> 0]
      BY <3>1
    <3>3. named[i] = parsed.docs[i] \/ named[i] = [parsed.docs[i] EXCEPT !.user = engine.user]
      BY <2>1 DEF Named
    <3> QED
      BY <3>1, <3>2, <3>3 DEF Unrecorded
  <2>10. ASSUME NEW r \in Nat, r # 0
         PROVE  /\ Cardinality(Inserted(named)) \in Nat
                /\ Cardinality({i \in DOMAIN named : Record(named)[i].record = r})
                     \in IF r <= records THEN {0} ELSE {0, 1}
    BY <2>3, <2>8, <2>9, <2>10, RecordFacts
  <2>11. records' \in Nat
    <3>1. Cardinality(Inserted(named)) \in Nat
      <4>1. 1 \in Nat /\ 1 # 0
        OBVIOUS
      <4> QED
        BY <2>10, <4>1
    <3>2. records' = records + Cardinality(Inserted(named))
      BY <2>1 DEF TakeUp
    <3> QED
      BY ONLY <2>3, <3>1, <3>2
  <2>12. ASSUME NEW r \in 1..records'
         PROVE  jobs'[r] \in 0..1
    <3>1. PICK n : n = Cardinality({i \in DOMAIN named : Record(named)[i].record = r})
      OBVIOUS
    <3>2. n \in IF r <= records THEN {0} ELSE {0, 1}
      BY <2>10, <2>11, <3>1
    <3>3. jobs'[r] = n + IF r <= records THEN jobs[r] ELSE 0
      BY <2>1, <3>1 DEF TakeUp
    <3> QED
      <4>1. r \in Nat /\ r # 0
        BY <2>11
      <4>2. CASE r <= records
        <5>1. jobs[r] \in 0..1
          BY <2>3, <4>1, <4>2
        <5> QED
          BY <3>2, <3>3, <4>2, <5>1
      <4>3. CASE ~(r <= records)
        BY <3>2, <3>3, <4>3
      <4> QED
        BY <4>2, <4>3
  <2>13. jobs' = [r \in 1..records' |-> jobs'[r]]
    BY <2>1 DEF TakeUp
  <2> QED
    BY <2>11, <2>12, <2>13
<1> QED
  BY <1>5, <1>6

LEMMA RecordsStep ==
  ASSUME RecordsInv, inbox \in [Instances -> Seq(Message)], [LinksNext]_linksVars
  PROVE  RecordsInv'
<1>1. ASSUME UNCHANGED <<records, jobs, repeated>>
      PROVE  RecordsInv'
  BY <1>1 DEF RecordsInv
<1>2. ASSUME NEW p \in Instances, Process(p), ~Download(p)
      PROVE  UNCHANGED <<records, jobs, repeated>>
  BY <1>2 DEF Process, Start, CheckRunning, CheckRunningIf, RemoveFile, WriteLock, Launch, Leave, Send, Boot, Quit,
              Unlock, Crash, Handle, app
<1>3. CASE UNCHANGED linksVars
  BY <1>1, <1>3 DEF linksVars, app
<1>4. CASE LinksNext
  BY <1>1, <1>2, <1>4, DownloadStep DEF LinksNext
<1> QED
  BY <1>3, <1>4

-----------------------------------------------------------------------------
(* The whole                                                               *)

LinksInv == PidInv /\ LinkInv /\ RecordsInv

(* The PID file and who runs, the links that wait and those that are settled, and the records: the        *)
(* inductive invariant of the instances and of their links.                                               *)
THEOREM LinksInvariant == LinksSpec => []LinksInv
<1>1. LinksInit => LinksInv
  <2>1. LinksInit => PidInv
    BY NoneAssumption DEF NoneAssumption, LinksInit, PidInv, PidTypes, FileStarted, StaleEnded, SendsToSome, RunnerInFile, Runs, States
  <2>2. LinksInit => LinkInv
    BY DEF LinksInit, LinkInv, LinkTypes, ListensWhenRunning, AllSettled
  <2>3. LinksInit => RecordsInv
    BY DEF LinksInit, RecordsInv
  <2> QED
    BY <2>1, <2>2, <2>3 DEF LinksInv
<1>2. LinksInv /\ [LinksNext]_linksVars => LinksInv'
  BY PidStep, LinkStep, RecordsStep DEF LinksInv, LinkInv, LinkTypes
<1> QED
  BY <1>1, <1>2, PTL DEF LinksSpec


\* Whatever the links and the number of instances: an instance that ends leaves
\* its link answered, or with one that runs, or lost for a reason the model
\* names.
THEOREM LinksSettled == LinksSpec => []Answered
<1>1. LinksInv => Answered
  BY DEF LinksInv, LinkInv, AllSettled, Settled, Answered
<1> QED
  BY <1>1, LinksInvariant, PTL

(* The same, and every document that a link asks for has a record of its own, unless the same link was    *)
(* clicked again: the cache of parse_protocol_url has the documents with their records.                   *)
THEOREM LinksAreAnswered == LinksSpec => []LinksAnswered
<1>1. LinksInv => LinksAnswered
  BY DEF LinksInv, LinkInv, AllSettled, Settled, Answered, RecordsInv, OwnRecord, LinksAnswered
<1> QED
  BY <1>1, LinksInvariant, PTL
===============================================================================
